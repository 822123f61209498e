CONSTANTS
    Gcs = {g1, g2}
    Configs <- MCOneTcp
    Unbindable = {"taken"}
    MaxSets = 1
    MaxStarts = 1
    MaxMsgs = 1
SPECIFICATION Spec
INVARIANT UplinkWhole
CHECK_DEADLOCK FALSE
