CONSTANTS
    MaxInput = 4
    Inputs <- MCInputs
    MagicV1 = 2
    MagicV2 = 3
    HeaderV1 = 3
    HeaderV2 = 4
    ChecksumSize = 1
    Signature = 1
    MaxFrame = 9
    Fields = {"mode", "volt"}
    Layout <- MCLayout
    Optional <- MCOptional
    Unknown = 3
    Packets <- MCPackets
    MaxPackets = 2
    XorByte <- MCXor
    Crc8DvbS2 <- MCCrc8DvbS2
    MaxSize = 255
    Sd <- MCSd
    Hd <- MCHd
    Clean <- MCClean
SPECIFICATION DownlinkSpec
INVARIANTS BufferBounded BytesAccounted CutIrrelevant TelemetryLatest DispatchedIsFrame Resynchronises
PROPERTIES CanvasImplemented
CHECK_DEADLOCK FALSE
