--------------------------- MODULE RtpDepacketizer ---------------------------
(***************************************************************************)
(* The RTP depacketiser of the video path (core/src/rtp/depacketizer.cpp): *)
(* it turns the RTP packets the radio link delivers into NAL units for the *)
(* decoder.  Packets reach Push in any order, twice or never; a NAL unit   *)
(* larger than one packet arrives as fragments and is reassembled in       *)
(* fragment_, with the RTP sequence number as the only guard against a     *)
(* missing piece.                                                          *)
(*                                                                         *)
(* A packet is its payload, a sequence of bytes; header bytes have the     *)
(* values the code masks and shifts.  The air unit is the environment: it  *)
(* sends packet 1, 2, 3 ... of a stream whose packets are well formed, and *)
(* packet i carries sequence number i modulo SeqMod (2^16 in the code).    *)
(* RTP header parsing is RtpHeader's subject; here a datagram that does    *)
(* not parse is PushMalformed.                                             *)
(***************************************************************************)
EXTENDS Integers, Sequences

CONSTANTS
    Streams,      \* the streams an air unit may send
    SeqMod,       \* number of RTP sequence numbers, 65536 in the code
    MaxSkew,      \* how far from the previous packet, in packets sent, the
                  \* next one may lie while a fragment is in flight
    CodecChoices, \* what set_codec may be called with: the stream's codec
                  \* ("same"), AUTO ("auto"), the wrong codec ("other")
    CodecReload   \* TRUE: the build reads codec_ twice in Push, so that a
                  \* set_codec of another thread can land in between

VARIABLES
    stream,       \* the stream being sent: codec, packets, nals
    codec,        \* codec_
    fragment,     \* fragment_
    inFragment,   \* in_fragment_
    expectedSeq,  \* expected_seq_
    lastIdx,      \* history: the packet whose sequence number was seen last
    runStart,     \* history: since which packet all arrived, in order
    result        \* what the last Push returned, emitted and counted

vars == <<stream, codec, fragment, inFragment, expectedSeq, lastIdx, runStart, result>>
-----------------------------------------------------------------------------
(* Bytes and header fields. *)

Byte == 0..255

H264Type(p) == p[1] % 32
H265Type(p) == (p[1] \div 2) % 64
Forbidden(p) == p[1] >= 128
StartBit(b) == b >= 128
EndBit(b) == (b \div 64) % 2 = 1

Codecs == {"H264", "H265"}

(* A fragmentation unit: FU-A (28) of H.264, FU (49) of H.265.  FuHeaderLen
   is the payload header plus the FU header. *)
FuHeaderLen(c) == IF c = "H264" THEN 2 ELSE 3
IsFu(c, p) ==
    /\ Len(p) >= FuHeaderLen(c)
    /\ IF c = "H264" THEN H264Type(p) = 28 ELSE H265Type(p) = 49
FuHeader(c, p) == p[FuHeaderLen(c)]
FuBody(c, p) == SubSeq(p, FuHeaderLen(c) + 1, Len(p))

(* The NAL header rebuilt from a fragment: F and NRI of the indicator with
   the real type (H.264); forbidden bit, layer id and TID of the payload
   header with the real type (H.265). *)
RebuiltHeader(c, p) ==
    IF c = "H264"
    THEN <<(p[1] - (p[1] % 32)) + (FuHeader(c, p) % 32)>>
    ELSE <<((p[1] \div 128) * 128) + (p[1] % 2) + (2 * (FuHeader(c, p) % 64)), p[2]>>

IsAggregate(c, p) ==
    IF c = "H264" THEN H264Type(p) = 24 ELSE Len(p) >= 2 /\ H265Type(p) = 48

IsSingle(c, p) ==
    IF c = "H264" THEN H264Type(p) \in 1..23 ELSE Len(p) >= 2 /\ H265Type(p) <= 47

(* Too short for the headers its type calls for: refused without counting. *)
IsRunt(c, p) ==
    IF c = "H264" THEN H264Type(p) = 28 /\ Len(p) < 2
    ELSE Len(p) < 2 \/ (H265Type(p) = 49 /\ Len(p) < 3)

(* The size-prefixed walk over a STAP-A / AP: the NAL units emitted, and
   whether the end was reached (ok) or a bad size ended the walk. *)
AggregateWalk(c, p) ==
    LET walk[off \in Nat] ==
          IF off + 2 > Len(p) THEN [nals |-> <<>>, ok |-> TRUE]
          ELSE LET n == p[off + 1] * 256 + p[off + 2]
               IN  IF n = 0 \/ off + 2 + n > Len(p)
                   THEN [nals |-> <<>>, ok |-> FALSE]
                   ELSE [nals |-> <<SubSeq(p, off + 3, off + 2 + n)>>
                                    \o walk[off + 2 + n].nals,
                         ok   |-> walk[off + 2 + n].ok]
    IN  walk[IF c = "H264" THEN 1 ELSE 2]

DetectCodecH264First(p) ==
    IF Len(p) < 2 THEN "Unknown"
    ELSE IF ~Forbidden(p) /\ H264Type(p) \in (1..24) \cup {28} THEN "H264"
    ELSE IF ~Forbidden(p) /\ p[2] % 8 # 0 THEN "H265"
    ELSE "Unknown"

(* DetectCodec: H.265 first, then H.264, else unknown. *)
DetectCodec(p) ==
    IF Len(p) < 2 THEN "Unknown"
    ELSE IF /\ ~Forbidden(p)
            /\ p[2] % 8 # 0
            /\ H265Type(p) <= 40 \/ H265Type(p) \in {48, 49}
         THEN "H265"
    ELSE IF ~Forbidden(p) /\ H264Type(p) \in (1..24) \cup {28}
         THEN "H264"
    ELSE "Unknown"
-----------------------------------------------------------------------------
(* The air unit's streams.  packets[i].payload is what packet i carries;   *)
(* for a fragment, packets[i].upto is the part of its NAL unit that packet *)
(* i and the fragments before it make up.  nals are the NAL units sent.    *)

FuAt(s, i) == i \in DOMAIN s.packets /\ IsFu(s.codec, s.packets[i].payload)

StartAt(s, i) == StartBit(FuHeader(s.codec, s.packets[i].payload))
EndAt(s, i) == EndBit(FuHeader(s.codec, s.packets[i].payload))

(* The fragments of a NAL unit are consecutive packets, the first with the
   start bit, the last with the end bit, each carrying the next piece. *)
FragmentsInOrder(s) ==
    \A i \in DOMAIN s.packets : FuAt(s, i) =>
        LET p == s.packets[i].payload
            body == FuBody(s.codec, p)
        IN  /\ StartAt(s, i) => s.packets[i].upto = RebuiltHeader(s.codec, p) \o body
            /\ EndAt(s, i) => s.packets[i].upto \in s.nals
            /\ ~EndAt(s, i) /\ i + 1 \in DOMAIN s.packets =>
                 /\ FuAt(s, i + 1)
                 /\ ~StartAt(s, i + 1)
                 /\ s.packets[i + 1].upto =
                      s.packets[i].upto \o FuBody(s.codec, s.packets[i + 1].payload)

(* A packet that is not a fragment carries whole NAL units. *)
WholeNals(s) ==
    \A i \in DOMAIN s.packets :
        LET p == s.packets[i].payload
        IN  /\ IsSingle(s.codec, p) => p \in s.nals
            /\ IsAggregate(s.codec, p) =>
                 \A n \in 1..Len(AggregateWalk(s.codec, p).nals) :
                     AggregateWalk(s.codec, p).nals[n] \in s.nals

WellFormed(s) ==
    /\ s.codec \in Codecs
    /\ s.packets \in Seq([payload : Seq(Byte) \ {<<>>}, upto : Seq(Byte)])
    /\ FragmentsInOrder(s)
    /\ WholeNals(s)

(* No packet of the stream looks like one of the other codec, and a fragment
   is recognised for what it is. *)
Detectable(s) ==
    \A i \in DOMAIN s.packets :
        /\ DetectCodec(s.packets[i].payload) \in {"Unknown", s.codec}
        /\ FuAt(s, i) => DetectCodec(s.packets[i].payload) = s.codec

ASSUME StreamsAssumption == \A s \in Streams : WellFormed(s)
ASSUME SeqAssumption == SeqMod \in Nat \ {0} /\ MaxSkew \in Nat
ASSUME ChoicesAssumption ==
    CodecChoices \subseteq {"same", "auto", "other"} /\ CodecReload \in BOOLEAN
-----------------------------------------------------------------------------
(* The codecs set_codec may be given. *)
Settable ==
    (IF "same" \in CodecChoices THEN {stream.codec} ELSE {}) \cup
    (IF "auto" \in CodecChoices THEN {"Unknown"} ELSE {}) \cup
    (IF "other" \in CodecChoices THEN Codecs \ {stream.codec} ELSE {})

NoResult == [ret |-> TRUE, nals |-> <<>>, dropped |-> 0, broken |-> 0]

Init ==
    /\ stream \in Streams
    /\ codec \in Settable \cup {"Unknown"}
    /\ fragment = <<>>
    /\ inFragment = FALSE
    /\ expectedSeq = 0
    /\ lastIdx = 0
    /\ runStart = 1
    /\ result = NoResult

(* HandleH264 / HandleH265 for codec c: from the reassembly state
   (infl, frag) left by the sequence check, with lost = 1 when that check
   abandoned a fragment. *)
Outcome(infl, frag, ret, nals, dropped, broken) ==
    [inFragment |-> infl, fragment |-> frag,
     result |-> [ret |-> ret, nals |-> nals, dropped |-> dropped, broken |-> broken]]

HandleFragmentNoReset(c, p, infl, frag, lost) ==
    LET start == StartBit(FuHeader(c, p))
        whole == (IF start THEN RebuiltHeader(c, p) ELSE frag) \o FuBody(c, p)
    IN  IF ~start /\ ~infl THEN Outcome(infl, frag, FALSE, <<>>, 0, lost + 1)
        ELSE Outcome(TRUE, whole, TRUE,
                     IF EndBit(FuHeader(c, p)) THEN <<whole>> ELSE <<>>, 0, lost)

HandleFragment(c, p, infl, frag, lost) ==
    LET start == StartBit(FuHeader(c, p))
        whole == (IF start THEN RebuiltHeader(c, p) ELSE frag) \o FuBody(c, p)
    IN  IF ~start /\ ~infl THEN Outcome(infl, frag, FALSE, <<>>, 0, lost + 1)
        ELSE IF EndBit(FuHeader(c, p))
        THEN Outcome(FALSE, <<>>, TRUE, <<whole>>, 0, lost)
        ELSE Outcome(TRUE, whole, TRUE, <<>>, 0, lost)

HandlePayload(c, p, infl, frag, lost) ==
    IF IsRunt(c, p) THEN Outcome(infl, frag, FALSE, <<>>, 0, lost)
    ELSE IF IsSingle(c, p) THEN Outcome(infl, frag, TRUE, <<p>>, 0, lost)
    ELSE IF IsAggregate(c, p)
    THEN LET w == AggregateWalk(c, p)
         IN  IF w.ok THEN Outcome(infl, frag, TRUE, w.nals, 0, lost)
             ELSE Outcome(infl, frag, FALSE, w.nals, 1, lost)
    ELSE IF IsFu(c, p) THEN HandleFragment(c, p, infl, frag, lost)
    ELSE Outcome(infl, frag, FALSE, <<>>, 1, lost)
-----------------------------------------------------------------------------
SequenceOf(i) == i % SeqMod

(* While a fragment is in flight the link is not silent, nor late, for a
   whole turn of the sequence numbers. *)
WithinSkew(i) ==
    inFragment => i - lastIdx \in -MaxSkew..MaxSkew

(* expected_seq_ after a packet, a 16-bit value. *)
ExpectedAfterNoWrap(seq) == seq + 1
ExpectedAfter(seq) == (seq + 1) % SeqMod

(* The sequence check of Push. *)
GapDetectedOnlyForLate(seq) == inFragment /\ seq < expectedSeq
GapDetected(seq) == inFragment /\ seq # expectedSeq

(* Push of packet i; racing is the codec a set_codec of another thread
   stores between the two reads of codec_, "none" when there is no such
   store. *)
Push(i, racing) ==
    LET p     == stream.packets[i].payload
        gap   == GapDetected(SequenceOf(i))
        infl  == inFragment /\ ~gap
        frag  == IF gap THEN <<>> ELSE fragment
        lost  == IF gap THEN 1 ELSE 0
        known == IF codec = "Unknown" THEN DetectCodec(p) ELSE codec
        stop  == known = "Unknown"
        used  == IF racing = "none" THEN known ELSE racing
        out   == IF stop THEN Outcome(infl, frag, FALSE, <<>>, 1, lost)
                 ELSE HandlePayload(IF used = "H264" THEN "H264" ELSE "H265",
                                    p, infl, frag, lost)
    IN  /\ WithinSkew(i)
        /\ expectedSeq' = ExpectedAfter(SequenceOf(i))
        /\ codec' = used
        /\ inFragment' = out.inFragment
        /\ fragment' = out.fragment
        /\ result' = out.result
        /\ lastIdx' = i
        /\ runStart' = IF i = lastIdx + 1 THEN runStart ELSE i
        /\ UNCHANGED stream

Deliver == \E i \in DOMAIN stream.packets : Push(i, "none")

DeliverRacingSetCodec ==
    /\ CodecReload
    /\ \E i \in DOMAIN stream.packets, c \in Settable : Push(i, c)

(* A datagram that ParseRtp refuses, or whose payload is empty: counted and
   refused before the sequence number is looked at. *)
PushMalformed ==
    /\ result' = [ret |-> FALSE, nals |-> <<>>, dropped |-> 1, broken |-> 0]
    /\ UNCHANGED <<stream, codec, fragment, inFragment, expectedSeq, lastIdx, runStart>>

(* set_codec, on the UI thread: it assigns codec_ and nothing else. *)
SetCodec ==
    /\ codec' \in Settable
    /\ UNCHANGED <<stream, fragment, inFragment, expectedSeq, lastIdx, runStart, result>>

Next == Deliver \/ DeliverRacingSetCodec \/ PushMalformed \/ SetCodec

Spec == Init /\ [][Next]_vars
-----------------------------------------------------------------------------
(* Types of the state. *)
TypeOK ==
    /\ stream \in Streams
    /\ codec \in Codecs \cup {"Unknown"}
    /\ fragment \in Seq(Byte)
    /\ inFragment \in BOOLEAN
    /\ expectedSeq \in 0..(SeqMod - 1)
    /\ lastIdx \in Nat
    /\ runStart \in Nat
    /\ DOMAIN result = {"ret", "nals", "dropped", "broken"}
    /\ result.ret \in BOOLEAN
    /\ result.dropped \in 0..1
    /\ result.broken \in 0..2

(* Push never hands the decoder anything but a NAL unit the air unit sent:
   whatever is lost, duplicated or reordered, no hole is spliced into a
   reassembled NAL ("drop it rather than splicing a hole into the
   bitstream", depacketizer.cpp:254-256). *)
NalIntact ==
    \A n \in 1..Len(result.nals) : result.nals[n] \in stream.nals

(* The reassembly buffer holds the fragments up to the last packet seen, no
   more and no less, whenever a fragment is in flight. *)
FragmentIsPrefix ==
    inFragment =>
        /\ FuAt(stream, lastIdx)
        /\ ~EndAt(stream, lastIdx)
        /\ fragment = stream.packets[lastIdx].upto
        /\ expectedSeq = SequenceOf(lastIdx + 1)

(* A NAL unit whose fragments all arrive, in order and with nothing in
   between, is emitted by its last fragment: neither a malformed datagram
   nor the wrap of the sequence number makes Push give it up. *)
RunCovers(from, i) ==
    \E s \in from..i : FuAt(stream, s) /\ StartAt(stream, s)
                           /\ \A j \in s..(i - 1) : FuAt(stream, j) /\ ~EndAt(stream, j)

ConsecutiveNalEmitted ==
    [][(lastIdx' # lastIdx /\ FuAt(stream, lastIdx') /\ EndAt(stream, lastIdx')
          /\ RunCovers(runStart', lastIdx'))
        => result'.nals = <<stream.packets[lastIdx'].upto>>]_vars

(* A header an H.265 packet may have: a NAL unit of a type the standard
   names, an aggregate (48) or a fragment (49), its temporal id plus one. *)
LegalH265(p) ==
    /\ Len(p) >= 2 /\ ~Forbidden(p) /\ p[2] % 8 # 0
    /\ H265Type(p) \in (0..40) \cup {48, 49}

(* An H.265 stream is never taken for H.264, whatever is heard of it first
   and whenever set_codec is called, and the first packet with a legal header
   settles it (DetectCodec, depacketizer.cpp:277-305). *)
H265Recognised ==
    stream.codec = "H265" =>
        /\ codec # "H264"
        /\ lastIdx # 0 /\ LegalH265(stream.packets[lastIdx].payload) => codec = "H265"

(* Detection settles on the stream's codec or on none ("that plus a
   plausible NAL type is enough to tell the two apart on the first packet",
   depacketizer.cpp:288-291).  It does not: many H.264 headers are also legal
   for H.265, which is looked for first. *)
DetectionRight == codec \in {"Unknown", stream.codec}
==============================================================================
