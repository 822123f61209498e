----------------------------- MODULE MCDownlink -----------------------------
(* The telemetry port (OnTelemetryPayload, ground_station.cpp:179-187): its *)
(* bytes go to the MAVLink framer and to the OSD parser, which share        *)
(* nothing.  A behaviour therefore follows one of the two: the framer over  *)
(* a stream cut anywhere, or the OSD parser over packets in any order.      *)
EXTENDS TelemetryDecoder, MspOsd, Bitwise

-----------------------------------------------------------------------------
(* Streams for the framer, over an alphabet in which every byte has a part
   to play: 2 and 3 are the magic bytes, and each of 0..3 is also a length,
   flags, message id and payload.  The longest frame is 4 + 3 + 1 + 1 bytes,
   so that, as with the sizes of the code, no length byte makes a frame too
   long. *)
CONSTANT MaxInput

(* All short streams; every choice of four bytes around a signed frame of
   the largest size, a short frame and a false start; and two messages, of
   both versions and all ids, with or without junk in between. *)
Short == UNION {[1..n -> 0..3] : n \in 0..MaxInput}

Long(b) ==
    { <<b[1], b[2], 3, 3, 1, 1, 0, 2, 0, b[3], b[4], 2, 0, 0, 0>>,
      <<3, b[1], b[2], 3, 0, 0, 0, 1, b[3], b[4], 2, 1, 0, 0, 0>> }

Messages ==
    LET payloads == {<<1>>, <<3>>, <<0, 1>>, <<2, 3>>}
        v1 == {<<2, Len(q), id>> \o q \o <<0>> : q \in payloads, id \in 0..2}
        v2 == {<<3, Len(q), 0, 2>> \o q \o <<1>> : q \in payloads}
    IN  v1 \cup v2 \cup {<<3, 1, 1, 0, 1, 1, 1>>}

Pairs == {m \o junk \o n : m \in Messages, junk \in {<<>>, <<0>>}, n \in Messages}

MCInputs == Short \cup UNION {Long(b) : b \in [1..4 -> 0..3]} \cup Pairs

(* Id 0 sets one field; ids 1 and 2 both set the other, as SYS_STATUS and
   BATTERY_STATUS do, and 2 only when the value is known. *)
MCLayout ==
    [id \in 0..2 |->
        CASE id = 0 -> [min |-> 2, at |-> [x \in {"mode"} |-> 1]]
          [] id = 1 -> [min |-> 1, at |-> [x \in {"volt"} |-> 0]]
          [] id = 2 -> [min |-> 2, at |-> [x \in {"volt", "mode"} |-> IF x = "volt" THEN 1 ELSE 0]]]

MCOptional == {<<2, "volt">>}
-----------------------------------------------------------------------------
(* Packets for the OSD: DisplayPort messages of both versions, halves of
   messages, and noise that looks like the start of one. *)
MCNibbles == [a, b \in 0..15 |-> a ^^ b]
MCXor(a, b) == 16 * MCNibbles[a \div 16, b \div 16] + MCNibbles[a % 16, b % 16]

(* CRC-8/DVB-S2, one byte at a time. *)
MCShift(c) == IF c >= 128 THEN MCXor((c * 2) % 256, 213) ELSE c * 2
MCCrcTable == [c \in Byte |-> MCShift(MCShift(MCShift(MCShift(
                              MCShift(MCShift(MCShift(MCShift(c))))))))]
MCCrc8DvbS2(c, b) == MCCrcTable[MCXor(c, b)]

V1(payload) == EncodedV1(62, kMspDisplayPort, payload)
V2(payload) == EncodedV2(62, 0, kMspDisplayPort, payload)

MCSd == <<2, 2>>
MCHd == <<2, 3>>

(* "AB" at the end of a row, and a string cut by a NUL in the second. *)
MCWriteEdge == V1(<<3, 0, 1, 1, 65, 66>>)
MCWriteNul == V2(<<3, 1, 0, 6, 67, 0, 68>>)
MCClean == V1(<<0>>)

MCPackets ==
    { MCWriteEdge, MCWriteNul, MCWriteEdge \o V1(<<4>>),
      V1(<<1>>), V2(<<2>>), V1(<<4>>), V2(<<5, 0, 0>>), V1(<<5, 0, 1>>),
      V1(<<>>), V2(<<3, 9>>), V1(<<3, 7, 0, 0, 65>>),
      EncodedV1(60, 101, <<1, 2>>), EncodedV2(33, 1, 4660, <<>>),
      SubSeq(MCWriteEdge, 1, 7), SubSeq(MCWriteEdge, 8, Len(MCWriteEdge)),
      SubSeq(MCWriteNul, 1, 7), SubSeq(MCWriteNul, 8, Len(MCWriteNul)),
      <<Dollar, Dollar, LetterM, 62, 255>>,       \* a header, and then other packets
      <<Dollar, LetterX, 60, 0, 182, 0, 255, 3>>, \* an implausible size
      <<Dollar, 65, Dollar, LetterM, 65>> }       \* false starts
-----------------------------------------------------------------------------
FramerUntouched == fed = 0 /\ input = <<>>
OsdUntouched == arrived = 0 /\ missed = 0 /\ seen = <<>>

DownlinkInit == TelemetryInit /\ Init

DownlinkNext ==
    \/ OsdUntouched /\ TelemetryNext /\ UNCHANGED vars
    \/ FramerUntouched /\ Next /\ UNCHANGED telemetryVars

DownlinkSpec == DownlinkInit /\ [][DownlinkNext]_<<telemetryVars, vars>>
==============================================================================
