CONSTANTS
    Gcs = {g1, g2}
    Configs <- MCOneUdp
    Unbindable = {"taken"}
    MaxSets = 1
    MaxStarts = 1
    MaxMsgs = 1
SPECIFICATION FairSpec
PROPERTY PeerKept
CHECK_DEADLOCK FALSE
