---------------------------- MODULE MavlinkFramer ----------------------------
(***************************************************************************)
(* MavlinkFramer (core/src/mavlink/router.cpp): cuts a byte stream, which  *)
(* arrives in pieces of any size, into whole MAVLink messages.  One step   *)
(* of the model is one turn of the loop in Push.                           *)
(*                                                                         *)
(* The stream that will arrive is chosen at the start; buffer_ is          *)
(* input[pos + 1 .. fed], so that a message is a span of the stream.  The  *)
(* sizes are the constants of the code (6, 10, 2, 13, 280).                *)
(***************************************************************************)
EXTENDS Integers, Sequences

CONSTANTS
    Inputs,             \* the streams that may arrive
    MagicV1, MagicV2,   \* 0xfe, 0xfd
    HeaderV1, HeaderV2, \* kMavlinkV1HeaderSize, kMavlinkV2HeaderSize
    ChecksumSize,       \* kChecksumSize
    Signature,          \* kSignatureSize
    MaxFrame            \* kMaxFrameSize

ASSUME FramerAssumption ==
    /\ Inputs \subseteq Seq(Nat)
    /\ MagicV1 \in Nat /\ MagicV2 \in Nat
    /\ HeaderV1 \in Nat /\ HeaderV1 >= 2
    /\ HeaderV2 \in Nat /\ HeaderV2 >= 3
    /\ ChecksumSize \in Nat /\ Signature \in Nat
    /\ MaxFrame \in Nat /\ MaxFrame >= HeaderV1 /\ MaxFrame >= HeaderV2

VARIABLES
    input,    \* the stream
    fed,      \* how much of it was given to Push
    pos,      \* where the loop is: the bytes before are out of buffer_
    pushing,  \* a Push is under way
    frames,   \* the messages handed to the callback, as spans of the stream
    skipped   \* the positions counted in dropped_bytes_

framerVars == <<input, fed, pos, pushing, frames, skipped>>

IsMagic(p) == input[p + 1] = MagicV1 \/ input[p + 1] = MagicV2
HeaderSize(p) == IF input[p + 1] = MagicV2 THEN HeaderV2 ELSE HeaderV1

(* The incompatibility flag MAVLINK_IFLAG_SIGNED, in version 2 only. *)
SignatureSize(p) ==
    IF input[p + 1] = MagicV2 /\ input[p + 3] % 2 = 1 THEN Signature ELSE 0

FrameLen(p) == HeaderSize(p) + input[p + 2] + ChecksumSize + SignatureSize(p)

(* What the loop finds at p when the stream is known up to n. *)
Junk(p, n) == ~IsMagic(p) \/ (n - p >= HeaderSize(p) /\ FrameLen(p) > MaxFrame)

CompleteOneMore(p, n) ==
    /\ IsMagic(p)
    /\ n - p >= HeaderSize(p)
    /\ FrameLen(p) <= MaxFrame
    /\ n - p > FrameLen(p)

Complete(p, n) ==
    /\ IsMagic(p)
    /\ n - p >= HeaderSize(p)
    /\ FrameLen(p) <= MaxFrame
    /\ n - p >= FrameLen(p)

FramerInit ==
    /\ input \in Inputs
    /\ fed = 0
    /\ pos = 0
    /\ pushing = FALSE
    /\ frames = <<>>
    /\ skipped = {}

(* Push is called with the next n bytes. *)
FramerPush(n) ==
    /\ ~pushing
    /\ n \in 1..(Len(input) - fed)
    /\ fed' = fed + n
    /\ pushing' = TRUE
    /\ UNCHANGED <<input, pos, frames, skipped>>

SkipByte ==
    /\ pushing /\ pos < fed
    /\ Junk(pos, fed)
    /\ pos' = pos + 1
    /\ skipped' = skipped \cup {pos}
    /\ UNCHANGED <<input, fed, pushing, frames>>

EmitNoAdvance ==
    /\ pushing /\ pos < fed
    /\ Complete(pos, fed)
    /\ frames' = Append(frames, [start |-> pos, len |-> FrameLen(pos)])
    /\ pos' = pos + HeaderSize(pos)
    /\ UNCHANGED <<input, fed, pushing, skipped>>

Emit ==
    /\ pushing /\ pos < fed
    /\ Complete(pos, fed)
    /\ frames' = Append(frames, [start |-> pos, len |-> FrameLen(pos)])
    /\ pos' = pos + FrameLen(pos)
    /\ UNCHANGED <<input, fed, pushing, skipped>>

ReturnDiscardsRest ==
    /\ pushing
    /\ pos < fed => ~Junk(pos, fed) /\ ~Complete(pos, fed)
    /\ pos' = fed
    /\ skipped' = skipped \cup pos..(fed - 1)
    /\ pushing' = FALSE
    /\ UNCHANGED <<input, fed, frames>>

(* The loop is over: what was read leaves buffer_, and a rest of more than
   four frames is given up. *)
Return ==
    /\ pushing
    /\ pos < fed => ~Junk(pos, fed) /\ ~Complete(pos, fed)
    /\ IF fed - pos > 4 * MaxFrame
       THEN pos' = fed /\ skipped' = skipped \cup pos..(fed - 1)
       ELSE UNCHANGED <<pos, skipped>>
    /\ pushing' = FALSE
    /\ UNCHANGED <<input, fed, frames>>

FramerNext == (\E n \in 1..Len(input) : FramerPush(n)) \/ SkipByte \/ Emit \/ Return

FramerSpec == FramerInit /\ [][FramerNext]_framerVars
-----------------------------------------------------------------------------
(* Types of the state. *)
TypeOK ==
    /\ input \in Inputs
    /\ fed \in Nat /\ fed <= Len(input)
    /\ pos \in Nat /\ pos <= fed
    /\ pushing \in BOOLEAN
    /\ frames \in Seq([start : Nat, len : Nat])
    /\ skipped \subseteq Nat

(* Between two calls buffer_ is shorter than one frame: a stream that never
   synchronises cannot make it grow, and the guard at the end of Push
   (router.cpp:136-139) never has anything to give up. *)
BufferBounded == ~pushing => fed - pos < MaxFrame

(* Every byte consumed went into exactly one message or was counted as
   dropped; messages never overlap and never reach past what has arrived,
   however a false start of a frame put the loop off. *)
Covers(f, q) == f.start <= q /\ q < f.start + f.len

BytesAccounted ==
    /\ \A q \in 0..(pos - 1) :
          (q \in skipped) <=> ~(\E i \in 1..Len(frames) : Covers(frames[i], q))
    /\ \A q \in skipped : q < pos
    /\ \A i \in 1..Len(frames) : frames[i].start + frames[i].len <= pos
    /\ \A i, j \in 1..Len(frames) :
          i < j => frames[i].start + frames[i].len <= frames[j].start

(* The messages do not depend on how the stream was cut into calls of Push:
   they are those of one Push of everything that arrived ("One message
   split across reads, as TCP delivers", tests/test_mavlink.cpp:113). *)
FramesOf(n) ==
    LET from[p \in 0..n] ==
          IF p >= n THEN <<>>
          ELSE IF Junk(p, n) THEN from[p + 1]
          ELSE IF Complete(p, n)
          THEN <<[start |-> p, len |-> FrameLen(p)]>> \o from[p + FrameLen(p)]
          ELSE <<>>
    IN  from[0]

CutIrrelevant == ~pushing => frames = FramesOf(fed)
==============================================================================
