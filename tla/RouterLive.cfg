CONSTANTS
    Gcs = {g1, g2}
    Configs <- MCLiveConfigs
    Unbindable = {"taken"}
    MaxSets = 2
    MaxStarts = 1
    MaxMsgs = 1
SPECIFICATION FairSpec
PROPERTIES ConfigServed HangupReaped
CHECK_DEADLOCK FALSE
