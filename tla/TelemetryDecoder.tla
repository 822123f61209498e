-------------------------- MODULE TelemetryDecoder --------------------------
(***************************************************************************)
(* The downlink as the screen sees it (core/src/mavlink/router.cpp): the   *)
(* downlink framer composed with the TelemetryDecoder its callback feeds.  *)
(*                                                                         *)
(* A message id is the last byte of the header, a field one byte of the    *)
(* payload; which fields a message carries, at which offsets, and how long *)
(* its payload must be to be read at all, is the Layout.  Scaling and      *)
(* floating point are left out.                                            *)
(***************************************************************************)
EXTENDS MavlinkFramer, FiniteSetsExt

CONSTANTS
    Fields,   \* the fields of TelemetryState
    Layout,   \* message id -> [min: payload length, at: field -> offset]
    Unknown   \* UINT16_MAX: "not known", for the fields in Optional
CONSTANT Optional   \* pairs <<id, field>> that are skipped when Unknown

ASSUME LayoutAssumption ==
    \A id \in DOMAIN Layout :
        /\ Layout[id].min \in Nat
        /\ DOMAIN Layout[id].at \subseteq Fields
        /\ \A x \in DOMAIN Layout[id].at : Layout[id].at[x] \in 0..(Layout[id].min - 1)

VARIABLES
    state,    \* state_: the value of each field, -1 before the first
    valid     \* state_.valid

telemetryVars == <<framerVars, state, valid>>

MsgId(p) == input[p + HeaderSize(p)]

(* payload_len: what is not header or checksum.  A signature is counted. *)
PayloadLenWithChecksum(p) == FrameLen(p) - HeaderSize(p)

PayloadLen(p) == FrameLen(p) - HeaderSize(p) - ChecksumSize

Carried(p, x) == input[p + HeaderSize(p) + Layout[MsgId(p)].at[x] + 1]

(* Whether the frame at p, with len bytes of payload, sets field x. *)
Sets(p, len, x) ==
    /\ MsgId(p) \in DOMAIN Layout
    /\ len >= Layout[MsgId(p)].min
    /\ x \in DOMAIN Layout[MsgId(p)].at
    /\ <<MsgId(p), x>> \in Optional => Carried(p, x) # Unknown

(* TelemetryDecoder::Consume of the frame at p. *)
Consume(p) ==
    /\ valid' = TRUE
    /\ state' = [x \in Fields |-> IF Sets(p, PayloadLen(p), x) THEN Carried(p, x) ELSE state[x]]

TelemetryInit ==
    /\ FramerInit
    /\ state = [x \in Fields |-> -1]
    /\ valid = FALSE

TelemetryNext ==
    \/ Emit /\ Consume(pos)
    \/ /\ SkipByte \/ Return \/ \E n \in 1..Len(input) : FramerPush(n)
       /\ UNCHANGED <<state, valid>>

TelemetrySpec == TelemetryInit /\ [][TelemetryNext]_telemetryVars
-----------------------------------------------------------------------------
(* What is shown is up to date and was sent: however the stream was cut into
   reads, each field has the value carried by the latest message that sets
   it, found by framing all that arrived at once and by the payload length
   the message itself announces.  Stated for streams without signed
   messages, whose signature Consume counts as payload. *)
TelemetryLatest ==
    LET sent == FramesOf(fed)
        Start(i) == sent[i].start
        setters(x) == {i \in 1..Len(sent) : Sets(Start(i), input[Start(i) + 2], x)}
    IN  ~pushing /\ (\A i \in 1..Len(sent) : SignatureSize(Start(i)) = 0) =>
          /\ valid = (sent # <<>>)
          /\ \A x \in Fields : state[x] = IF setters(x) = {} THEN -1
                                          ELSE Carried(Start(Max(setters(x))), x)
==============================================================================
