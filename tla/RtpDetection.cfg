CONSTANTS
    Streams <- MCSliceStreams
    SeqMod = 7
    MaxSkew = 5
    CodecChoices = {"same"}
    CodecReload = TRUE
    Parts <- MCParts
    Damaged <- MCDamaged
SPECIFICATION VideoSpec
INVARIANTS DetectionRight
