CONSTANTS
    Gcs = {g1, g2}
    Configs <- MCConfigs
    Unbindable = {"taken"}
    MaxSets = 2
    MaxStarts = 1
    MaxMsgs = 2
SPECIFICATION Spec
INVARIANTS SlotsValid StoppedIsClosed ConnectionsAgree DownlinkReaches
 
SYMMETRY GcsSymmetry
CHECK_DEADLOCK FALSE
