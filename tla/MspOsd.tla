------------------------------- MODULE MspOsd -------------------------------
(***************************************************************************)
(* MspOsdDecoder (core/src/msp/displayport.cpp): finds MSP messages in the *)
(* bytes of the telemetry and tunnel streams and applies DisplayPort       *)
(* commands to a character canvas.                                         *)
(*                                                                         *)
(* One parser is fed by both streams, packet by packet                     *)
(* (ground_station.cpp:179-192), so any packet may follow any other: the   *)
(* environment offers the packets of a set in any order, among them halves *)
(* of messages and noise.  One step of the model is one byte.  The two     *)
(* checksums are operators that fold in a byte.                            *)
(***************************************************************************)
EXTENDS Integers, Sequences

CONSTANTS
    Packets,     \* what may arrive on either stream
    MaxPackets,  \* bound: packets that arrive before the stream is clean
    XorByte(_, _),   \* a ^ b, the checksum of MSP v1
    Crc8DvbS2(_, _), \* the checksum of MSP v2
    MaxSize,     \* 1024: a longer v2 message is a desync
    Sd, Hd,      \* <<rows, cols>>: kOsdRowsSd, kOsdColsSd, kOsdRowsHd, ...
    Clean        \* a message to resynchronise on, with no second '$' in it

Byte == 0..255

ASSUME OsdAssumption ==
    /\ Packets \subseteq Seq(Byte) /\ MaxPackets \in Nat /\ MaxSize \in Nat
    /\ Sd \in (Nat \ {0}) \X (Nat \ {0}) /\ Hd \in (Nat \ {0}) \X (Nat \ {0})
    /\ Clean \in Seq(Byte)
    /\ \A a, b \in Byte : XorByte(a, b) \in Byte /\ Crc8DvbS2(a, b) \in Byte
    /\ \A b \in Byte : XorByte(0, b) = b

VARIABLES
    arrived,  \* packets that have arrived
    rest,     \* what is left of the packet Push is working on
    msp,      \* the parser: [st, v2, fn, size, sum, payload]
    seen,     \* history: the bytes since the '$' of the current header, with
              \* those of the message just finished
    frame,    \* frame_: [rows, cols, cells]
    shown,    \* the frame last given to the callback; <<>> before the first
    event,    \* "message" when the last byte completed one, else "none"
    missed    \* history: Clean packets pushed in a row since the last other
              \* packet or the last one recognised

vars == <<arrived, rest, msp, seen, frame, shown, event, missed>>

Dollar == 36
LetterM == 77
LetterX == 88
Arrows == {60, 62, 33}   \* '<', '>', '!'
kMspDisplayPort == 182

Blank == [glyph |-> 0, attributes |-> 0]
Blanks(rows, cols) == [k \in 1..(rows * cols) |-> Blank]
NewFrame(s) == [rows |-> s[1], cols |-> s[2], cells |-> Blanks(s[1], s[2])]
-----------------------------------------------------------------------------
(* HandleByte: the parser m after byte b. *)
HeaderStep(m, b) ==
    CASE m.st = "Idle" -> [m EXCEPT !.st = IF b = Dollar THEN "HeaderM" ELSE "Idle"]
      [] m.st = "HeaderM" ->
            [m EXCEPT !.v2 = IF b \in {LetterM, LetterX} THEN b = LetterX ELSE @,
                      !.st = IF b \in {LetterM, LetterX} THEN "HeaderArrow"
                             ELSE IF b = Dollar THEN "HeaderM" ELSE "Idle"]
      [] m.st = "HeaderArrow" ->
            IF b \in Arrows
            THEN [m EXCEPT !.payload = <<>>, !.sum = 0,
                           !.st = IF m.v2 THEN "V2Flags" ELSE "V1Size"]
            ELSE [m EXCEPT !.st = "Idle"]

V1Step(m, b) ==
    CASE m.st = "V1Size" -> [m EXCEPT !.size = b, !.sum = b, !.st = "V1Command"]
      [] m.st = "V1Command" ->
            [m EXCEPT !.fn = b, !.sum = XorByte(@, b),
                      !.st = IF m.size > 0 THEN "V1Payload" ELSE "V1Checksum"]

SizeHighUnchecked(m, high) ==
    [m EXCEPT !.size = high, !.st = IF high > 0 THEN "V2Payload" ELSE "V2Checksum"]

(* The size of a v2 message is known: an implausible one is a desync. *)
SizeHigh(m, total) ==
    [m EXCEPT !.size = total,
              !.st = IF total > MaxSize THEN "Idle"
                     ELSE IF total > 0 THEN "V2Payload" ELSE "V2Checksum"]

V2Step(m, b) ==
    LET s == [m EXCEPT !.sum = IF m.st = "V2Flags" THEN Crc8DvbS2(0, b) ELSE Crc8DvbS2(@, b)]
    IN  CASE m.st = "V2Flags" -> [s EXCEPT !.st = "V2FunctionLo"]
          [] m.st = "V2FunctionLo" -> [s EXCEPT !.fn = b, !.st = "V2FunctionHi"]
          [] m.st = "V2FunctionHi" -> [s EXCEPT !.fn = @ + 256 * b, !.st = "V2SizeLo"]
          [] m.st = "V2SizeLo" -> [s EXCEPT !.size = b, !.st = "V2SizeHi"]
          [] m.st = "V2SizeHi" -> SizeHigh(s, m.size + 256 * b)

PayloadStep(m, b) ==
    LET done == Len(m.payload) + 1 >= m.size
    IN  [m EXCEPT !.payload = Append(@, b),
                  !.sum = IF m.v2 THEN Crc8DvbS2(@, b) ELSE XorByte(@, b),
                  !.st = IF ~done THEN @ ELSE IF m.v2 THEN "V2Checksum" ELSE "V1Checksum"]

HeaderStates == {"Idle", "HeaderM", "HeaderArrow"}
V1States == {"V1Size", "V1Command"}
V2States == {"V2Flags", "V2FunctionLo", "V2FunctionHi", "V2SizeLo", "V2SizeHi"}
PayloadStates == {"V1Payload", "V2Payload"}
ChecksumStates == {"V1Checksum", "V2Checksum"}

ParserStep(m, b) ==
    CASE m.st \in HeaderStates -> HeaderStep(m, b)
      [] m.st \in V1States -> V1Step(m, b)
      [] m.st \in V2States -> V2Step(m, b)
      [] m.st \in PayloadStates -> PayloadStep(m, b)
      [] m.st \in ChecksumStates -> [m EXCEPT !.st = "Idle"]

ChecksumMatchesAny(m, b) == m.st \in ChecksumStates

(* The message is whole and its checksum right. *)
ChecksumMatches(m, b) == m.st \in ChecksumStates /\ b = m.sum
-----------------------------------------------------------------------------
(* HandleDisplayPort on the payload p (p[k + 1] is payload[k]). *)
Clear == frame' = [frame EXCEPT !.cells = Blanks(frame.rows, frame.cols)]

SetCanvas(s) ==
    frame' = IF frame.rows = s[1] /\ frame.cols = s[2] THEN frame ELSE NewFrame(s)

(* How many characters of p are written at column col: up to the right edge
   and to a NUL. *)
RunLengthUnclipped(p, col) ==
    LET stops == {i \in 5..Len(p) : p[i] = 0 \/ p[2] * frame.cols + col + i - 5 >= Len(frame.cells)}
    IN  (IF stops = {} THEN Len(p) + 1 ELSE CHOOSE i \in stops : \A j \in stops : i <= j) - 5

RunLength(p, col) ==
    LET stops == {i \in 5..Len(p) : col + (i - 5) >= frame.cols \/ p[i] = 0}
    IN  (IF stops = {} THEN Len(p) + 1 ELSE CHOOSE i \in stops : \A j \in stops : i <= j) - 5

WriteString(p) ==
    LET row  == p[2]
        col  == p[3]
        attr == p[4]
        base == row * frame.cols + col
    IN  IF Len(p) < 4 \/ row >= frame.rows \/ col >= frame.cols
        THEN UNCHANGED frame
        ELSE frame' = [frame EXCEPT !.cells =
                [k \in DOMAIN @ |->
                    IF k \in (base + 1)..(base + RunLength(p, col))
                    THEN [glyph |-> p[4 + k - base] + 256 * (attr % 4), attributes |-> attr]
                    ELSE @[k]]]

Options(p) ==
    IF Len(p) < 3 THEN UNCHANGED frame ELSE SetCanvas(IF p[3] = 0 THEN Sd ELSE Hd)

HandleDisplayPort(p) ==
    LET cmd == IF Len(p) < 1 THEN -1 ELSE p[1]
    IN  \/ cmd = 1 /\ Clear /\ shown' = <<frame'>>
        \/ cmd = 2 /\ Clear /\ UNCHANGED shown
        \/ cmd = 3 /\ WriteString(p) /\ UNCHANGED shown
        \/ cmd = 4 /\ shown' = <<frame>> /\ UNCHANGED frame
        \/ cmd = 5 /\ Options(p) /\ UNCHANGED shown
        \/ cmd \notin 1..5 /\ UNCHANGED <<frame, shown>>

DispatchMessage(m) ==
    IF m.fn = kMspDisplayPort THEN HandleDisplayPort(m.payload) ELSE UNCHANGED <<frame, shown>>
-----------------------------------------------------------------------------
NoMessage == [st |-> "Idle", v2 |-> FALSE, fn |-> 0, size |-> 0, sum |-> 0, payload |-> <<>>]

Init ==
    /\ arrived = 0
    /\ rest = <<>>
    /\ msp = NoMessage
    /\ seen = <<>>
    /\ frame = NewFrame(Hd)
    /\ shown = <<>>
    /\ event = "none"
    /\ missed = 0

(* A packet of either stream. *)
Push(p) ==
    /\ rest = <<>>
    /\ p # Clean => arrived < MaxPackets
    /\ arrived' = IF p = Clean THEN arrived ELSE arrived + 1
    /\ missed' = IF p = Clean THEN missed + 1 ELSE 0
    /\ rest' = p
    /\ event' = "none"
    /\ UNCHANGED <<msp, seen, frame, shown>>

HandleByte ==
    LET b == Head(rest)
    IN  /\ rest # <<>>
        /\ rest' = Tail(rest)
        /\ msp' = ParserStep(msp, b)
        /\ seen' = IF msp.st = "Idle" \/ (msp.st = "HeaderM" /\ b = Dollar) THEN <<b>>
                   ELSE Append(seen, b)
        /\ IF ChecksumMatches(msp, b)
           THEN /\ event' = "message"
                /\ DispatchMessage(msp)
                /\ missed' = IF rest' = <<>> THEN 0 ELSE missed
           ELSE event' = "none" /\ UNCHANGED <<frame, shown, missed>>
        /\ UNCHANGED arrived

Next == (\E p \in Packets \cup {Clean} : Push(p)) \/ HandleByte

Spec == Init /\ [][Next]_vars
-----------------------------------------------------------------------------
(* A reference encoder of MSP messages. *)
Checksum(step(_, _), bytes, first) ==
    LET sum[n \in 0..Len(bytes)] == IF n = 0 THEN first ELSE step(sum[n - 1], bytes[n])
    IN  sum[Len(bytes)]
EncodedV1(arrow, fn, payload) ==
    LET body == <<Len(payload), fn>> \o payload
    IN  <<Dollar, LetterM, arrow>> \o body \o <<Checksum(XorByte, body, 0)>>
EncodedV2(arrow, flags, fn, payload) ==
    LET body == <<flags, fn % 256, fn \div 256, Len(payload) % 256, Len(payload) \div 256>>
                \o payload
    IN  <<Dollar, LetterX, arrow>> \o body \o <<Checksum(Crc8DvbS2, body, 0)>>

(* Clean is such an encoding, of a message that is not too long, and holds no
   '$' but its first byte. *)
CleanV1 ==
    /\ Len(Clean) >= 6 /\ Len(Clean) <= 255 + 6
    /\ Clean = EncodedV1(Clean[3], Clean[5], SubSeq(Clean, 6, Len(Clean) - 1))
CleanV2 ==
    /\ Len(Clean) >= 9 /\ Len(Clean) < 256 * 256 + 9 /\ Len(Clean) <= MaxSize + 9
    /\ Clean = EncodedV2(Clean[3], Clean[4], Clean[5] + 256 * Clean[6],
                        SubSeq(Clean, 9, Len(Clean) - 1))

ASSUME CleanAssumption ==
    /\ CleanV1 \/ CleanV2
    /\ Clean[3] \in Arrows
    /\ \A i \in 2..Len(Clean) : Clean[i] # Dollar

(* A message is dispatched only when the bytes since the last header are
   exactly an encoding of it, however packets of the two streams and noise
   were mixed: nothing of an earlier, abandoned message is left in the size,
   the checksum or the payload (HandleByte). *)
DispatchedIsFrame ==
    event = "message" =>
        seen = IF msp.v2 THEN EncodedV2(seen[3], seen[4], msp.fn, msp.payload)
               ELSE EncodedV1(seen[3], msp.fn, msp.payload)

(* Whatever the packets left the parser in, a bounded run of clean messages
   brings it back: one of them is recognised to its last byte ("The parser is
   resynchronising, so partial and corrupt input is safe to hand over",
   msp_osd.h:66-67).  What a false header can swallow is a payload of the
   size it announced, at most 255 (v1) or MaxSize (v2) bytes, and the message
   it ends in. *)
Swallowed == IF MaxSize > 255 THEN MaxSize ELSE 255

Resynchronises ==
    rest = <<>> => missed * Len(Clean) < Swallowed + 2 * Len(Clean)

(* The flat array of cells implements a grid: a string is written into one
   row, never past its right edge into the next, and the screen is shown
   whole frames (OsdFrame::at, HandleDisplayPort). *)
GridOf(f) ==
    [p \in (0..(f.rows - 1)) \X (0..(f.cols - 1)) |-> f.cells[p[1] * f.cols + p[2] + 1]]

Canvas == INSTANCE OsdCanvas WITH
    Sizes  <- {Sd, Hd},
    First  <- Hd,
    grid   <- GridOf(frame),
    screen <- IF shown = <<>> THEN <<>> ELSE GridOf(shown[1])

CanvasImplemented == Canvas!Spec
==============================================================================
