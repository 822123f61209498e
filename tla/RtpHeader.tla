------------------------------ MODULE RtpHeader ------------------------------
(***************************************************************************)
(* Parsing of the RTP header (ParseRtp and PayloadSize of                  *)
(* core/src/rtp/depacketizer.cpp): from a datagram of any length and       *)
(* content, where its payload starts and how long it is.  A datagram is a  *)
(* sequence of bytes, byte k of the code being data[k + 1].                *)
(*                                                                         *)
(* The sender follows RFC 3550: it encodes a payload with a CSRC list, an  *)
(* extension and padding of its choice.  The link may cut the datagram     *)
(* short or flip its header bits, so Receive offers the parser any         *)
(* datagram of the constant Damaged as well.                               *)
(***************************************************************************)
EXTENDS Integers, Sequences

CONSTANTS
    Parts,     \* what a sender may encode
    Damaged    \* datagrams no sender produced

Octet == 0..255
kRtpHeaderSize == 12

Datagram == Seq(Octet)

PartOK(x) ==
    /\ x.csrc \in 0..15
    /\ x.ext \in Int /\ x.ext >= -1 /\ x.ext < 65536   \* words, -1 for no extension
    /\ x.pad \in Octet           \* bytes, 0 for no padding
    /\ x.payload \in Datagram

ASSUME PartsAssumption == Damaged \subseteq Datagram /\ \A x \in Parts : PartOK(x)

VARIABLES data,    \* the datagram
          sent,    \* history: the parts it encodes, <<>> for a damaged one
          parsed   \* ParseRtp's answer and PayloadSize

headerVars == <<data, sent, parsed>>
-----------------------------------------------------------------------------
(* The sender (RFC 3550 layout). *)
Zeros(n) == [k \in 1..n |-> 0]
FirstByte(x) ==
    128 + (IF x.pad > 0 THEN 32 ELSE 0) + (IF x.ext >= 0 THEN 16 ELSE 0) + x.csrc
ExtensionPart(x) ==
    IF x.ext >= 0 THEN <<0, 0, x.ext \div 256, x.ext % 256>> \o Zeros(4 * x.ext) ELSE <<>>
PaddingPart(x) ==
    IF x.pad > 0 THEN Zeros(x.pad - 1) \o <<x.pad>> ELSE <<>>
Encode(x) ==
    <<FirstByte(x)>> \o Zeros(11 + 4 * x.csrc) \o ExtensionPart(x) \o x.payload \o PaddingPart(x)
-----------------------------------------------------------------------------
(* The parser. *)
HasPadding(d) == (d[1] \div 32) % 2 = 1
HasExtension(d) == (d[1] \div 16) % 2 = 1
CsrcEnd(d) == kRtpHeaderSize + 4 * (d[1] % 16)
ExtensionLength(d) == 4 + 4 * (d[CsrcEnd(d) + 3] * 256 + d[CsrcEnd(d) + 4])

PayloadOffset(d) == CsrcEnd(d) + (IF HasExtension(d) THEN ExtensionLength(d) ELSE 0)

ParseRtpNoExtensionEnd(d) ==
    /\ Len(d) >= kRtpHeaderSize
    /\ d[1] \div 64 = 2
    /\ CsrcEnd(d) <= Len(d)
    /\ HasExtension(d) => CsrcEnd(d) + 4 <= Len(d)
    /\ HasPadding(d) => d[Len(d)] # 0

(* ParseRtp accepts d: each early return of the code is a conjunct, in the
   order of the code, and no byte is read before its guard. *)
ParseRtp(d) ==
    /\ Len(d) >= kRtpHeaderSize
    /\ d[1] \div 64 = 2
    /\ CsrcEnd(d) <= Len(d)
    /\ HasExtension(d) => CsrcEnd(d) + 4 <= Len(d) /\ PayloadOffset(d) <= Len(d)
    /\ HasPadding(d) =>
         d[Len(d)] # 0 /\ PayloadOffset(d) + d[Len(d)] <= Len(d)

PayloadSizeIgnoringPadding(d, offset) == IF Len(d) > offset THEN Len(d) - offset ELSE 0

PayloadSize(d, offset) ==
    LET padded == HasPadding(d) /\ d[Len(d)] > 0 /\ offset + d[Len(d)] <= Len(d)
        end    == IF padded THEN Len(d) - d[Len(d)] ELSE Len(d)
    IN  IF end > offset THEN end - offset ELSE 0

Parsed(d) ==
    IF ParseRtp(d)
    THEN [ok |-> TRUE, offset |-> PayloadOffset(d), size |-> PayloadSize(d, PayloadOffset(d))]
    ELSE [ok |-> FALSE, offset |-> 0, size |-> 0]
-----------------------------------------------------------------------------
HeaderInit == data = <<>> /\ sent = <<>> /\ parsed = Parsed(<<>>)

ReceiveSent(x) == data' = Encode(x) /\ sent' = <<x>> /\ parsed' = Parsed(data')
ReceiveDamaged(d) == data' = d /\ sent' = <<>> /\ parsed' = Parsed(data')

HeaderNext ==
    \/ \E x \in Parts : ReceiveSent(x)
    \/ \E d \in Damaged : ReceiveDamaged(d)

HeaderSpec == HeaderInit /\ [][HeaderNext]_headerVars
-----------------------------------------------------------------------------
(* Whatever the datagram, an accepted one has its payload inside it: the
   span the handlers read and copy never leaves the buffer (ParseRtp,
   PayloadSize). *)
SpanInside ==
    parsed.ok => /\ parsed.offset \in kRtpHeaderSize..Len(data)
                 /\ parsed.size \in 0..Len(data)
                 /\ parsed.offset + parsed.size <= Len(data)

(* What a sender encoded comes out again: the CSRC list, the extension and
   the padding are skipped exactly. *)
RoundTrip ==
    sent # <<>> =>
        /\ parsed.ok
        /\ SubSeq(data, parsed.offset + 1, parsed.offset + parsed.size) = sent[1].payload
==============================================================================
