CONSTANTS
    Streams <- MCStreams
    SeqMod = 7
    MaxSkew = 5
    CodecChoices = {"same"}
    CodecReload = TRUE
    Parts <- MCParts
    Damaged <- MCDamaged
SPECIFICATION VideoSpec
INVARIANTS NalIntact FragmentIsPrefix H265Recognised SpanInside RoundTrip
PROPERTIES ConsecutiveNalEmitted
