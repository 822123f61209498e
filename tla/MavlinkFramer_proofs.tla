------------------------ MODULE MavlinkFramer_proofs ------------------------
(***************************************************************************)
(* Proofs about MavlinkFramer and TelemetryDecoder, for every stream,      *)
(* every cutting of it into calls of Push, every layout of the messages    *)
(* and every choice of the protocol's sizes.                               *)
(***************************************************************************)
EXTENDS TelemetryDecoder, SequenceTheorems, WellFoundedInduction, TLAPS

(* A byte of the stream is a number, and a header is at most a frame. *)
LEMMA ByteFacts ==
    ASSUME TypeOK, NEW p \in Nat, p < fed, p + 1 <= fed
    PROVE  /\ input[p + 1] \in Nat
           /\ HeaderSize(p) \in Nat /\ HeaderSize(p) >= 2 /\ HeaderSize(p) <= MaxFrame
           /\ SignatureSize(p) \in Nat
<1>1. input \in Seq(Nat) /\ p + 1 \in 1..Len(input)
  BY FramerAssumption DEF TypeOK
<1>2. input[p + 1] \in Nat
  BY <1>1
<1>3. HeaderSize(p) \in Nat /\ HeaderSize(p) >= 2 /\ HeaderSize(p) <= MaxFrame
  BY FramerAssumption DEF HeaderSize
<1>4. SignatureSize(p) \in Nat
  BY FramerAssumption DEF SignatureSize
<1> QED
  BY <1>2, <1>3, <1>4

(* A complete frame has a positive length and lies in what has arrived. *)
LEMMA CompleteFacts ==
    ASSUME TypeOK, pos < fed, Complete(pos, fed)
    PROVE  FrameLen(pos) \in Nat /\ FrameLen(pos) > 0 /\ pos + FrameLen(pos) <= fed
<1>1. HeaderSize(pos) \in Nat /\ HeaderSize(pos) >= 2 /\ SignatureSize(pos) \in Nat
  BY ByteFacts DEF TypeOK
<1>2. fed - pos >= HeaderSize(pos) /\ fed - pos >= FrameLen(pos)
  BY DEF Complete
<1>3. input \in Seq(Nat) /\ pos + 2 \in 1..Len(input)
  BY <1>1, <1>2, FramerAssumption DEF TypeOK
<1>4. input[pos + 2] \in Nat
  BY <1>3
<1>5. FrameLen(pos) \in Nat /\ FrameLen(pos) > 0
  BY <1>1, <1>4, FramerAssumption DEF FrameLen
<1> QED
  BY <1>2, <1>5 DEF TypeOK

(* When the loop stops before the end of what has arrived, less than a
   frame is left. *)
LEMMA RestIsPartial ==
    ASSUME TypeOK, pos < fed, ~Junk(pos, fed), ~Complete(pos, fed)
    PROVE  fed - pos < MaxFrame
<1>1. HeaderSize(pos) \in Nat /\ HeaderSize(pos) <= MaxFrame /\ HeaderSize(pos) >= 2
      /\ SignatureSize(pos) \in Nat
  BY ByteFacts DEF TypeOK
<1>2. CASE fed - pos < HeaderSize(pos)
  BY <1>1, <1>2, FramerAssumption DEF TypeOK
<1>3. CASE fed - pos >= HeaderSize(pos)
  <2>1. input \in Seq(Nat) /\ pos + 2 \in 1..Len(input)
    BY <1>1, <1>3, FramerAssumption DEF TypeOK
  <2>2. input[pos + 2] \in Nat
    BY <2>1
  <2>3. FrameLen(pos) \in Nat
    BY <1>1, <2>2, FramerAssumption DEF FrameLen
  <2>4. IsMagic(pos) /\ ~(FrameLen(pos) > MaxFrame)
    BY <1>3 DEF Junk
  <2>5. ~(fed - pos >= FrameLen(pos))
    BY <1>3, <2>3, <2>4, FramerAssumption DEF Complete
  <2> QED
    BY <2>3, <2>4, <2>5, FramerAssumption DEF TypeOK
<1> QED
  BY <1>1, <1>2, <1>3 DEF TypeOK
-----------------------------------------------------------------------------
(* The types of the state are invariant. *)
LEMMA InitTypeOK == FramerInit => TypeOK
<1> SUFFICES ASSUME FramerInit PROVE TypeOK
  OBVIOUS
<1>1. input \in Inputs /\ Len(input) \in Nat
  BY FramerAssumption DEF FramerInit
<1>2. frames \in Seq([start : Nat, len : Nat])
  BY DEF FramerInit
<1>3. skipped \subseteq Nat
  BY DEF FramerInit
<1>4. fed \in Nat /\ fed <= Len(input) /\ pos \in Nat /\ pos <= fed
  BY <1>1 DEF FramerInit
<1>5. pushing \in BOOLEAN
  BY DEF FramerInit
<1> QED
  BY <1>1, <1>2, <1>3, <1>4, <1>5 DEF TypeOK

LEMMA NextTypeOK == TypeOK /\ [FramerNext]_framerVars => TypeOK'
<1> SUFFICES ASSUME TypeOK, [FramerNext]_framerVars PROVE TypeOK'
  OBVIOUS
<1>1. ASSUME NEW n \in 1..Len(input), FramerPush(n) PROVE TypeOK'
  BY <1>1, FramerAssumption DEF TypeOK, FramerPush
<1>2. CASE SkipByte
  BY <1>2 DEF TypeOK, SkipByte
<1>3. CASE Emit
  <2>1. FrameLen(pos) \in Nat /\ pos + FrameLen(pos) <= fed
    BY <1>3, CompleteFacts DEF Emit
  <2>2. [start |-> pos, len |-> FrameLen(pos)] \in [start : Nat, len : Nat]
    BY <2>1 DEF TypeOK
  <2>3. frames' \in Seq([start : Nat, len : Nat])
    BY <1>3, <2>2 DEF Emit, TypeOK
  <2>4. pos' \in Nat /\ pos' <= fed'
    BY <1>3, <2>1 DEF Emit, TypeOK
  <2>5. UNCHANGED <<input, fed, pushing, skipped>>
    BY <1>3 DEF Emit
  <2> QED
    BY <2>3, <2>4, <2>5 DEF TypeOK
<1>4. CASE Return
  <2>1. pos..(fed - 1) \subseteq Nat
    BY DEF TypeOK
  <2>2. pos' \in Nat /\ pos' <= fed' /\ fed' = fed /\ skipped' \subseteq Nat
    <3>1. CASE fed - pos > 4 * MaxFrame
      <4>1. pos' = fed /\ fed' = fed /\ skipped' = skipped \cup pos..(fed - 1)
        BY <1>4, <3>1 DEF Return
      <4>2. skipped' \subseteq Nat
        BY <2>1, <4>1 DEF TypeOK
      <4> QED
        BY <4>1, <4>2 DEF TypeOK
    <3>2. CASE ~(fed - pos > 4 * MaxFrame)
      BY <1>4, <3>2 DEF TypeOK, Return
    <3> QED
      BY <3>1, <3>2
  <2>3. pushing' \in BOOLEAN
    BY <1>4 DEF Return
  <2>4. UNCHANGED <<input, frames>>
    BY <1>4 DEF Return
  <2> QED
    BY <2>2, <2>3, <2>4 DEF TypeOK
<1>5. CASE UNCHANGED framerVars
  BY <1>5 DEF TypeOK, framerVars
<1> QED
  BY <1>1, <1>2, <1>3, <1>4, <1>5 DEF FramerNext

(* Between two calls of Push the buffer holds less than one frame, for every
   stream and every cutting: the guard of router.cpp:136-139 is never
   needed. *)
THEOREM BufferNeverGrows == FramerSpec => [](TypeOK /\ BufferBounded)
<1>1. FramerInit => TypeOK /\ BufferBounded
  BY InitTypeOK, FramerAssumption DEF FramerInit, BufferBounded
<1>2. TypeOK /\ BufferBounded /\ [FramerNext]_framerVars => TypeOK' /\ BufferBounded'
  <2> SUFFICES ASSUME TypeOK, BufferBounded, [FramerNext]_framerVars PROVE BufferBounded'
    BY NextTypeOK
  <2>1. ASSUME NEW n \in 1..Len(input), FramerPush(n) PROVE BufferBounded'
    BY <2>1 DEF FramerPush, BufferBounded
  <2>2. CASE SkipByte
    BY <2>2 DEF SkipByte, BufferBounded
  <2>3. CASE Emit
    BY <2>3 DEF Emit, BufferBounded
  <2>4. CASE Return
    <3>1. CASE pos < fed
      <4>1. fed - pos < MaxFrame
        BY <2>4, <3>1, RestIsPartial DEF Return
      <4> QED
        BY <2>4, <4>1, FramerAssumption DEF Return, BufferBounded, TypeOK
    <3>2. CASE pos >= fed
      BY <2>4, <3>2, FramerAssumption DEF Return, BufferBounded, TypeOK
    <3> QED
      BY <3>1, <3>2 DEF TypeOK
  <2>5. CASE UNCHANGED framerVars
    BY <2>5 DEF BufferBounded, framerVars
  <2> QED
    BY <2>1, <2>2, <2>3, <2>4, <2>5 DEF FramerNext
<1> QED
  BY <1>1, <1>2, PTL DEF FramerSpec
-----------------------------------------------------------------------------
LEMMA SpanTypes ==
    ASSUME TypeOK
    PROVE  \A i \in 1..Len(frames) : frames[i].start \in Nat /\ frames[i].len \in Nat
<1> DEFINE Span == [start : Nat, len : Nat]
<1>2. frames \in Seq(Span)
  BY DEF TypeOK
<1> HIDE DEF Span
<1>1. \A i \in 1..Len(frames) : frames[i] \in Span
  BY <1>2
<1> QED
  BY <1>1 DEF Span

(* A step of the loop keeps the account of the bytes. *)
LEMMA SkipAccounted ==
    ASSUME TypeOK, BytesAccounted, SkipByte PROVE BytesAccounted'
<1>1. pos' = pos + 1 /\ skipped' = skipped \cup {pos} /\ frames' = frames /\ pos \in Nat
  BY DEF SkipByte, TypeOK
<1>2. \A i \in 1..Len(frames) : frames[i].start + frames[i].len <= pos
                               /\ frames[i].start \in Nat /\ frames[i].len \in Nat
  BY SpanTypes DEF BytesAccounted
<1>3. ~ \E i \in 1..Len(frames) : Covers(frames[i], pos)
  BY <1>1, <1>2 DEF Covers
<1>4. \A q \in 0..(pos' - 1) :
        (q \in skipped') <=> ~(\E i \in 1..Len(frames') : Covers(frames'[i], q))
  <2> SUFFICES ASSUME NEW q \in 0..(pos' - 1)
               PROVE  (q \in skipped') <=> ~(\E i \in 1..Len(frames') : Covers(frames'[i], q))
    OBVIOUS
  <2>1. CASE q = pos
    BY <1>1, <1>3, <2>1
  <2>2. CASE q # pos
    <3>1. q \in 0..(pos - 1)
      BY <1>1, <2>2
    <3> QED
      BY <1>1, <2>2, <3>1 DEF BytesAccounted
  <2> QED
    BY <2>1, <2>2
<1>5. \A q \in skipped' : q < pos'
  <2>1. \A q \in skipped : q < pos /\ q \in Nat
    BY DEF BytesAccounted, TypeOK
  <2>2. \A q \in skipped : q < pos + 1
    BY <1>1, <2>1
  <2>3. pos < pos + 1
    BY <1>1
  <2> QED
    BY <1>1, <2>2, <2>3
<1>6. \A i \in 1..Len(frames') : frames'[i].start + frames'[i].len <= pos'
  BY <1>1, <1>2
<1>7. \A i, j \in 1..Len(frames') :
        i < j => frames'[i].start + frames'[i].len <= frames'[j].start
  BY <1>1 DEF BytesAccounted
<1> QED
  BY <1>4, <1>5, <1>6, <1>7 DEF BytesAccounted

LEMMA EmitAccounted ==
    ASSUME TypeOK, BytesAccounted, Emit PROVE BytesAccounted'
<1> DEFINE f == [start |-> pos, len |-> FrameLen(pos)]
<1> DEFINE n == Len(frames)
<1>1. FrameLen(pos) \in Nat /\ FrameLen(pos) > 0 /\ pos \in Nat
  BY CompleteFacts DEF Emit, TypeOK
<1>2. pos' = pos + FrameLen(pos) /\ skipped' = skipped /\ frames' = Append(frames, f)
  BY DEF Emit
<1>3. n \in Nat /\ Len(frames') = n + 1 /\ frames'[n + 1] = f
      /\ \A i \in 1..n : frames'[i] = frames[i]
  BY <1>2 DEF TypeOK
<1>4. f.start = pos /\ f.len = FrameLen(pos)
  OBVIOUS
<1>5. \A i \in 1..n : frames[i].start + frames[i].len <= pos
                     /\ frames[i].start \in Nat /\ frames[i].len \in Nat
  BY SpanTypes DEF BytesAccounted
<1> HIDE DEF f, n
<1>6. \A q \in 0..(pos' - 1) :
        (q \in skipped') <=> ~(\E i \in 1..Len(frames') : Covers(frames'[i], q))
  <2> SUFFICES ASSUME NEW q \in 0..(pos' - 1)
               PROVE  (q \in skipped') <=> ~(\E i \in 1..Len(frames') : Covers(frames'[i], q))
    OBVIOUS
  <2>1. CASE q >= pos
    <3>1. Covers(frames'[n + 1], q)
      BY <1>1, <1>2, <1>3, <1>4, <2>1 DEF Covers
    <3>2. q \notin skipped'
      BY <1>1, <1>2, <2>1 DEF BytesAccounted, TypeOK
    <3> QED
      BY <1>3, <3>1, <3>2
  <2>2. CASE q < pos
    <3>1. q \in 0..(pos - 1)
      BY <1>1, <1>2, <2>2
    <3>2. ~Covers(frames'[n + 1], q)
      BY <1>1, <1>3, <1>4, <3>1 DEF Covers
    <3>3. (\E i \in 1..Len(frames') : Covers(frames'[i], q))
            <=> (\E i \in 1..n : Covers(frames[i], q))
      BY <1>3, <3>2
    <3>4. (q \in skipped) <=> ~(\E i \in 1..n : Covers(frames[i], q))
      BY <3>1 DEF BytesAccounted, n
    <3> QED
      BY <1>2, <3>3, <3>4
  <2>3. q \in Int
    BY <1>1, <1>2
  <2> QED
    BY <1>1, <2>1, <2>2, <2>3
<1>7. \A q \in skipped' : q < pos'
  BY <1>1, <1>2 DEF BytesAccounted, TypeOK
<1>8. \A i \in 1..Len(frames') : frames'[i].start + frames'[i].len <= pos'
  <2> SUFFICES ASSUME NEW i \in 1..Len(frames')
               PROVE  frames'[i].start + frames'[i].len <= pos'
    OBVIOUS
  <2>1. CASE i = n + 1
    BY <1>1, <1>2, <1>3, <1>4, <2>1
  <2>2. CASE i # n + 1
    <3>1. i \in 1..n
      BY <1>3, <2>2
    <3> QED
      BY <1>1, <1>2, <1>3, <1>5, <3>1
  <2> QED
    BY <2>1, <2>2
<1>9. \A i, j \in 1..Len(frames') :
        i < j => frames'[i].start + frames'[i].len <= frames'[j].start
  <2> SUFFICES ASSUME NEW i \in 1..Len(frames'), NEW j \in 1..Len(frames'), i < j
               PROVE  frames'[i].start + frames'[i].len <= frames'[j].start
    OBVIOUS
  <2>1. i \in 1..n
    BY <1>3
  <2>2. CASE j = n + 1
    BY <1>3, <1>4, <1>5, <2>1, <2>2
  <2>3. CASE j # n + 1
    <3>1. j \in 1..n
      BY <1>3, <2>3
    <3>2. frames[i].start + frames[i].len <= frames[j].start
      BY <2>1, <3>1 DEF BytesAccounted, n
    <3> QED
      BY <1>3, <2>1, <3>1, <3>2
  <2> QED
    BY <2>2, <2>3
<1> QED
  BY <1>6, <1>7, <1>8, <1>9 DEF BytesAccounted

(* Every byte consumed is in exactly one message or counted as dropped, and
   messages never overlap, for every stream and every cutting. *)
THEOREM EveryByteAccounted == FramerSpec => []BytesAccounted
<1>1. FramerInit => BytesAccounted
  BY DEF FramerInit, BytesAccounted
<1>2. TypeOK /\ BytesAccounted /\ [FramerNext]_framerVars => BytesAccounted'
  <2> SUFFICES ASSUME TypeOK, BytesAccounted, [FramerNext]_framerVars PROVE BytesAccounted'
    OBVIOUS
  <2>1. ASSUME NEW n \in 1..Len(input), FramerPush(n) PROVE BytesAccounted'
    BY <2>1 DEF FramerPush, BytesAccounted
  <2>2. CASE SkipByte
    BY <2>2, SkipAccounted
  <2>3. CASE Emit
    BY <2>3, EmitAccounted
  <2>4. CASE Return
    <3>1. fed - pos < MaxFrame
      <4>1. CASE pos < fed
        BY <2>4, <4>1, RestIsPartial DEF Return
      <4>2. CASE pos >= fed
        BY <4>2, FramerAssumption DEF TypeOK
      <4> QED
        BY <4>1, <4>2 DEF TypeOK
    <3>2. ~(fed - pos > 4 * MaxFrame)
      BY <3>1, FramerAssumption DEF TypeOK
    <3>3. UNCHANGED <<pos, skipped, frames>>
      BY <2>4, <3>2 DEF Return
    <3> QED
      BY <3>3 DEF BytesAccounted
  <2>5. CASE UNCHANGED framerVars
    BY <2>5 DEF BytesAccounted, framerVars
  <2> QED
    BY <2>1, <2>2, <2>3, <2>4, <2>5 DEF FramerNext
<1> QED
  BY <1>1, <1>2, BufferNeverGrows, PTL DEF FramerSpec
-----------------------------------------------------------------------------
(* What FramesOf computes, as a function of where the walk stands: g is the
   walk over the first n bytes when it gives, at every p, the messages that
   are found from p on. *)
Walk(n, g, p) ==
    IF p >= n THEN <<>>
    ELSE IF Junk(p, n) THEN g[p + 1]
    ELSE IF Complete(p, n)
    THEN <<[start |-> p, len |-> FrameLen(p)]>> \o g[p + FrameLen(p)]
    ELSE <<>>

IsWalk(n, g) == g = [p \in 0..n |-> Walk(n, g, p)]

WalkOver(n) == CHOOSE g : IsWalk(n, g)

LEMMA FramesOfWalk == \A n : FramesOf(n) = WalkOver(n)[0]
  BY Zenon DEF FramesOf, WalkOver, IsWalk, Walk

(* A set of natural numbers has a least one. *)
LEMMA LeastNatural ==
  ASSUME NEW T \in SUBSET Nat, T # {}
  PROVE  \E x \in T : \A y \in T : x <= y
<1> DEFINE R == OpToRel(<, Nat)
<1>1. IsWellFoundedOn(R, Nat) BY NatLessThanWellFounded, Zenon
<1>2. \A x, y \in Nat : <<y, x>> \in R <=> y < x BY DEF OpToRel
<1> HIDE DEF R
<1>3. PICK x \in T : \A y \in T : ~(<<y, x>> \in R) BY <1>1, WFMin, Zenon
<1>4. \A y \in T : ~(y < x) BY <1>2, <1>3
<1> QED BY <1>4

(* What holds at n, and at k - 1 whenever at k, holds down to 0. *)
LEMMA DownToZero ==
  ASSUME NEW n \in Nat, NEW S \in SUBSET (0..n), n \in S,
         \A k \in 1..n : k \in S => k - 1 \in S
  PROVE  0 \in S
<1>1. S \in SUBSET Nat /\ S # {} OBVIOUS
<1>2. PICK k \in S : \A y \in S : k <= y BY <1>1, LeastNatural
<1>3. k \in 0..n BY <1>2
<1>4. CASE k \in 1..n
  <2>1. k - 1 \in S /\ ~(k <= k - 1) BY <1>4
  <2> QED BY <1>2, <2>1
<1>5. CASE k = 0 BY <1>5
<1> QED BY <1>3, <1>4, <1>5

LEMMA SumPositive ==
  ASSUME NEW a \in Nat, NEW b \in Nat, NEW c \in Nat, NEW d \in Nat, a >= 2
  PROVE  a + b + c + d \in Nat /\ a + b + c + d > 0
  OBVIOUS

(* The walk, case by case. *)
LEMMA WalkCases ==
  ASSUME NEW n \in Nat, NEW p \in Nat, NEW g
  PROVE  /\ p >= n => Walk(n, g, p) = <<>>
         /\ p < n /\ Junk(p, n) => Walk(n, g, p) = g[p + 1]
         /\ p < n /\ ~Junk(p, n) /\ Complete(p, n) =>
              Walk(n, g, p) = <<[start |-> p, len |-> FrameLen(p)]>> \o g[p + FrameLen(p)]
         /\ p < n /\ ~Junk(p, n) /\ ~Complete(p, n) => Walk(n, g, p) = <<>>
<1>1. p < n <=> ~(p >= n) OBVIOUS
<1> QED BY <1>1, Zenon DEF Walk

(* A complete frame at p is followed by what the walk goes on with. *)
LEMMA FrameFits ==
  ASSUME input \in Seq(Nat), NEW n \in 0..Len(input), NEW p \in 0..n,
         p < n, Complete(p, n)
  PROVE  FrameLen(p) \in Nat /\ p + FrameLen(p) \in (p + 1)..n
<1>1. HeaderSize(p) \in Nat /\ HeaderSize(p) >= 2 /\ SignatureSize(p) \in Nat
  BY FramerAssumption DEF HeaderSize, SignatureSize
<1>2. n - p >= HeaderSize(p) /\ n - p >= FrameLen(p)
  BY DEF Complete
<1>3. p + 2 \in 1..Len(input)
  BY <1>1, <1>2
<1>4. input[p + 2] \in Nat
  BY <1>3
<1>5. FrameLen(p) \in Nat /\ FrameLen(p) > 0
  <2>1. FrameLen(p) = HeaderSize(p) + input[p + 2] + ChecksumSize + SignatureSize(p)
    BY Zenon DEF FrameLen
  <2>2. ChecksumSize \in Nat BY FramerAssumption
  <2>3. /\ HeaderSize(p) + input[p + 2] + ChecksumSize + SignatureSize(p) \in Nat
        /\ HeaderSize(p) + input[p + 2] + ChecksumSize + SignatureSize(p) > 0
    BY <1>1, <1>4, <2>2, SumPositive
  <2> QED BY <2>1, <2>3
<1> QED
  BY <1>2, <1>5

(* The walk looks only ahead. *)
LEMMA WalkLooksAhead ==
  ASSUME input \in Seq(Nat), NEW n \in 0..Len(input), NEW p \in 0..n,
         NEW g, NEW h, \A q \in (p + 1)..n : g[q] = h[q]
  PROVE  Walk(n, g, p) = Walk(n, h, p)
<1>1. CASE p >= n
  BY <1>1 DEF Walk
<1>2. CASE p < n /\ Junk(p, n)
  <2>1. p + 1 \in (p + 1)..n BY <1>2
  <2>2. g[p + 1] = h[p + 1] /\ n \in Nat /\ p \in Nat BY <2>1
  <2> QED BY <1>2, <2>2, WalkCases, Zenon
<1>3. CASE p < n /\ ~Junk(p, n) /\ Complete(p, n)
  <2>1. p + FrameLen(p) \in (p + 1)..n BY <1>3, FrameFits
  <2>2. g[p + FrameLen(p)] = h[p + FrameLen(p)] BY <2>1
  <2>3. n \in Nat /\ p \in Nat OBVIOUS
  <2>4. Walk(n, g, p) = <<[start |-> p, len |-> FrameLen(p)]>> \o g[p + FrameLen(p)]
    BY <1>3, <2>3, WalkCases, Zenon
  <2>5. Walk(n, h, p) = <<[start |-> p, len |-> FrameLen(p)]>> \o h[p + FrameLen(p)]
    BY <1>3, <2>3, WalkCases, Zenon
  <2> QED BY <2>2, <2>4, <2>5, Zenon
<1>4. CASE p < n /\ ~Junk(p, n) /\ ~Complete(p, n)
  BY <1>4, Zenon DEF Walk
<1> QED
  BY <1>1, <1>2, <1>3, <1>4

(* There is such a walk, so the one that is chosen is one. *)
LEMMA WalkExists ==
  ASSUME input \in Seq(Nat), NEW n \in 0..Len(input)
  PROVE  IsWalk(n, WalkOver(n))
<1> DEFINE S == {k \in 0..n : \E g : g = [p \in k..n |-> Walk(n, g, p)]}
<1>0. n \in Nat OBVIOUS
<1>1. n \in S
  <2> DEFINE g == [p \in n..n |-> <<>>]
  <2>1. \A p \in n..n : Walk(n, g, p) = <<>> BY DEF Walk
  <2>2. g = [p \in n..n |-> Walk(n, g, p)] BY <2>1, Zenon
  <2> HIDE DEF g
  <2> QED BY <2>2
<1>2. ASSUME NEW k \in 1..n, k \in S PROVE k - 1 \in S
  <2>1. PICK g : g = [p \in k..n |-> Walk(n, g, p)] BY <1>2
  <2> DEFINE h == [p \in (k - 1)..n |-> IF p = k - 1 THEN Walk(n, g, p) ELSE g[p]]
  <2>2. \A p \in k..n : h[p] = g[p] OBVIOUS
  <2>3. h[k - 1] = Walk(n, g, k - 1) OBVIOUS
  <2>4. h = [p \in (k - 1)..n |-> h[p]] OBVIOUS
  <2> HIDE DEF h
  <2>5. ASSUME NEW p \in (k - 1)..n PROVE h[p] = Walk(n, h, p)
    <3>1. p \in 0..n /\ \A q \in (p + 1)..n : q \in k..n OBVIOUS
    <3>2. \A q \in (p + 1)..n : g[q] = h[q] BY <2>2, <3>1
    <3>3. Walk(n, g, p) = Walk(n, h, p) BY <3>1, <3>2, WalkLooksAhead
    <3>4. CASE p = k - 1 BY <2>3, <3>3, <3>4
    <3>5. CASE p # k - 1
      <4>1. p \in k..n BY <3>5
      <4>2. g[p] = Walk(n, g, p) BY <2>1, <4>1, Zenon
      <4> QED BY <2>2, <3>3, <4>1, <4>2
    <3> QED BY <3>4, <3>5
  <2>6. h = [p \in (k - 1)..n |-> Walk(n, h, p)] BY <2>4, <2>5, Zenon
  <2>7. k - 1 \in 0..n OBVIOUS
  <2> QED BY <2>6, <2>7
<1>3. S \in SUBSET (0..n) OBVIOUS
<1> HIDE DEF S
<1>4. 0 \in S BY <1>0, <1>1, <1>2, <1>3, DownToZero
<1>5. \E g : IsWalk(n, g) BY <1>4, Zenon DEF S, IsWalk
<1> QED BY <1>5, Zenon DEF WalkOver

(* What the walk finds at p. *)
LEMMA WalkAt ==
  ASSUME input \in Seq(Nat), NEW n \in 0..Len(input), NEW p \in 0..n
  PROVE  WalkOver(n)[p] = Walk(n, WalkOver(n), p)
  BY WalkExists, Zenon DEF IsWalk

Span == [start : Nat, len : Nat]

LEMMA WalkFindsSpans ==
  ASSUME input \in Seq(Nat), NEW n \in 0..Len(input), NEW p \in 0..n
  PROVE  WalkOver(n)[p] \in Seq(Span)
<1> DEFINE g == WalkOver(n)
<1> DEFINE S == {k \in 0..n : \A q \in k..n : g[q] \in Seq(Span)}
<1>0. n \in Nat OBVIOUS
<1>1. \A q \in 0..n : g[q] = Walk(n, g, q) BY WalkAt
<1> HIDE DEF g
<1>2. n \in S
  <2>0. n >= n /\ n \in 0..n BY <1>0
  <2>1. g[n] = <<>> BY <1>0, <1>1, <2>0, WalkCases, Zenon
  <2>2. \A q \in n..n : q = n BY <1>0
  <2>3. g[n] \in Seq(Span) BY <2>1
  <2>4. \A q \in n..n : g[q] \in Seq(Span) BY <2>2, <2>3, Zenon
  <2> QED BY <2>0, <2>4, Zenon
<1>3. ASSUME NEW k \in 1..n, k \in S PROVE k - 1 \in S
  <2> DEFINE j == k - 1
  <2>1. j \in Nat /\ j \in 0..n /\ j < n /\ k = j + 1 OBVIOUS
  <2>2. \A q \in (j + 1)..n : g[q] \in Seq(Span) BY <1>3
  <2>3. \A q \in j..n : q = j \/ q \in (j + 1)..n OBVIOUS
  <2> HIDE DEF j
  <2>4. g[j] \in Seq(Span)
    <3>1. CASE Junk(j, n)
      <4>1. g[j] = g[j + 1] BY <1>0, <1>1, <2>1, <3>1, WalkCases, Zenon
      <4> QED BY <2>1, <2>2, <4>1
    <3>2. CASE ~Junk(j, n) /\ Complete(j, n)
      <4>1. g[j] = <<[start |-> j, len |-> FrameLen(j)]>> \o g[j + FrameLen(j)]
        BY <1>0, <1>1, <2>1, <3>2, WalkCases, Zenon
      <4>2. FrameLen(j) \in Nat /\ j + FrameLen(j) \in (j + 1)..n
        BY <2>1, <3>2, FrameFits
      <4>3. [start |-> j, len |-> FrameLen(j)] \in Span BY <2>1, <4>2 DEF Span
      <4>4. g[j + FrameLen(j)] \in Seq(Span) BY <2>2, <4>2
      <4>5. <<[start |-> j, len |-> FrameLen(j)]>> \in Seq(Span) BY <4>3
      <4> QED BY <4>1, <4>4, <4>5
    <3>3. CASE ~Junk(j, n) /\ ~Complete(j, n)
      <4>1. g[j] = <<>> BY <1>0, <1>1, <2>1, <3>3, WalkCases, Zenon
      <4> QED BY <4>1
    <3> QED BY <3>1, <3>2, <3>3
  <2>5. \A q \in j..n : g[q] \in Seq(Span) BY <2>2, <2>3, <2>4
  <2> QED BY <2>1, <2>5 DEF j
<1>4. S \in SUBSET (0..n) OBVIOUS
<1> HIDE DEF S
<1>5. 0 \in S BY <1>0, <1>2, <1>3, <1>4, DownToZero
<1> QED BY <1>5 DEF S, g

(* What has been seen of a frame does not change when more arrives. *)
LEMMA MoreKeepsVerdict ==
  ASSUME TypeOK, pos < fed, NEW n \in fed..Len(input)
  PROVE  /\ Junk(pos, fed) => Junk(pos, n)
         /\ Complete(pos, fed) => Complete(pos, n) /\ ~Junk(pos, n)
<1>1. pos \in Nat /\ fed \in Nat /\ n \in Nat /\ fed <= n /\ Len(input) \in Nat
  BY FramerAssumption DEF TypeOK
<1>2. HeaderSize(pos) \in Nat
  BY FramerAssumption DEF HeaderSize
<1>3. Junk(pos, fed) => Junk(pos, n)
  BY <1>1, <1>2 DEF Junk
<1>4. ASSUME Complete(pos, fed) PROVE Complete(pos, n) /\ ~Junk(pos, n)
  <2>1. FrameLen(pos) \in Nat BY <1>4, CompleteFacts
  <2> QED BY <1>1, <1>2, <1>4, <2>1, FramerAssumption DEF Junk, Complete
<1> QED BY <1>3, <1>4

(* Whatever arrives, the messages are those handed over so far and those the
   walk finds from where the loop stands; between two calls the walk over
   what has arrived finds none there. *)
CutInv ==
    /\ \A n \in fed..Len(input) : FramesOf(n) = frames \o WalkOver(n)[pos]
    /\ \A n \in Nat : ~pushing /\ n = fed => WalkOver(n)[pos] = <<>>

(* The walk depends on the stream alone. *)
LEMMA WalkSteady ==
  ASSUME input' = input, NEW CONSTANT n
  PROVE  WalkOver(n)' = WalkOver(n) /\ FramesOf(n)' = FramesOf(n)
<1>1. WalkOver(n)' = WalkOver(n)
  BY DEF WalkOver, IsWalk, Walk, Junk, Complete, FrameLen, SignatureSize, HeaderSize, IsMagic
<1>2. FramesOf(n)' = WalkOver(n)'[0] BY Zenon DEF FramesOf, WalkOver, IsWalk, Walk
<1>3. FramesOf(n) = WalkOver(n)[0] BY FramesOfWalk
<1> QED BY <1>1, <1>2, <1>3

(* A message appended is a message in front of the rest. *)
LEMMA AppendThenRest ==
  ASSUME NEW E, NEW s \in Seq(E), NEW r \in Seq(E), NEW f \in E
  PROVE  s \o (<<f>> \o r) = Append(s, f) \o r
<1>1. <<f>> \in Seq(E) /\ Len(<<f>>) = 1 /\ <<f>>[1] = f OBVIOUS
<1>2. <<f>> \o r \in Seq(E) BY <1>1
<1>3. Append(s, f) \in Seq(E) OBVIOUS
<1> DEFINE a == s \o (<<f>> \o r)
<1> DEFINE b == Append(s, f) \o r
<1>4. a \in Seq(E) /\ b \in Seq(E) BY <1>2, <1>3
<1>5. Len(a) = Len(s) + 1 + Len(r) /\ Len(b) = Len(s) + 1 + Len(r)
  BY <1>1, <1>2, <1>3
<1>6. \A i \in 1..Len(a) : a[i] = b[i]
  BY <1>1, <1>2, <1>3, <1>5
<1> HIDE DEF a, b
<1>7. a = b BY <1>4, <1>5, <1>6, SeqEqual
<1> QED BY <1>7 DEF a, b

LEMMA EmptyThenRest ==
  ASSUME NEW E, NEW s \in Seq(E) PROVE <<>> \o s = s /\ s \o <<>> = s
  OBVIOUS

LEMMA CutInit == ASSUME FramerInit PROVE CutInv
<1>1. TypeOK BY InitTypeOK
<1>2. input \in Seq(Nat) /\ Len(input) \in Nat BY <1>1, FramerAssumption DEF TypeOK
<1>3. fed = 0 /\ pos = 0 /\ frames = <<>> BY DEF FramerInit
<1>4. ASSUME NEW n \in fed..Len(input) PROVE FramesOf(n) = frames \o WalkOver(n)[pos]
  <2>1. n \in 0..Len(input) /\ 0 \in 0..n BY <1>2, <1>3
  <2>2. WalkOver(n)[0] \in Seq(Span) BY <1>2, <2>1, WalkFindsSpans
  <2> QED BY <1>3, <2>2, FramesOfWalk, EmptyThenRest
<1>5. WalkOver(fed)[pos] = <<>>
  <2>1. fed \in 0..Len(input) /\ pos \in 0..fed /\ pos \in Nat /\ fed \in Nat /\ pos >= fed
    BY <1>2, <1>3
  <2>2. WalkOver(fed)[pos] = Walk(fed, WalkOver(fed), pos) BY <1>2, <2>1, WalkAt
  <2> QED BY <2>1, <2>2, WalkCases, Zenon
<1> QED BY <1>4, <1>5 DEF CutInv

LEMMA CutNext == ASSUME TypeOK, CutInv, [FramerNext]_framerVars PROVE CutInv'
<1>0. /\ input \in Seq(Nat) /\ Len(input) \in Nat
      /\ pos \in Nat /\ fed \in Nat /\ pos <= fed /\ fed <= Len(input)
      /\ fed \in 0..Len(input) /\ pos \in 0..fed
  BY FramerAssumption DEF TypeOK
<1>1. \A n \in fed..Len(input) : n \in 0..Len(input) /\ n \in Nat /\ pos \in 0..n /\ fed <= n
  BY <1>0
<1>2. frames \in Seq(Span) BY DEF TypeOK, Span
<1>3. ASSUME NEW k \in 1..Len(input), FramerPush(k) PROVE CutInv'
  <2>1. fed' \in fed..Len(input) /\ pushing' = TRUE /\ UNCHANGED <<input, pos, frames>>
    BY <1>0, <1>3 DEF FramerPush
  <2>2. \A n \in fed'..Len(input) : n \in fed..Len(input) BY <1>0, <2>1
  <2>3. ASSUME NEW n \in fed'..Len(input')
        PROVE  FramesOf(n)' = frames' \o WalkOver(n)'[pos']
    <3>1. FramesOf(n)' = FramesOf(n) /\ WalkOver(n)' = WalkOver(n) BY <2>1, WalkSteady
    <3>2. n \in fed..Len(input) BY <2>1, <2>2
    <3>3. FramesOf(n) = frames \o WalkOver(n)[pos] BY <3>2 DEF CutInv
    <3> QED BY <2>1, <3>1, <3>3, Zenon
  <2> QED BY <2>1, <2>3, Zenon DEF CutInv
<1>4. CASE SkipByte
  <2>1. /\ pos < fed /\ Junk(pos, fed) /\ pos' = pos + 1 /\ pushing
        /\ UNCHANGED <<input, fed, pushing, frames>>
    BY <1>4 DEF SkipByte
  <2>2. ASSUME NEW n \in fed'..Len(input')
        PROVE  FramesOf(n)' = frames' \o WalkOver(n)'[pos']
    <3>1. FramesOf(n)' = FramesOf(n) /\ WalkOver(n)' = WalkOver(n) BY <2>1, WalkSteady
    <3>2. n \in fed..Len(input) BY <2>1
    <3>3. FramesOf(n) = frames \o WalkOver(n)[pos] BY <3>2 DEF CutInv
    <3>4. n \in Nat /\ n \in 0..Len(input) /\ pos \in 0..n /\ pos < n
      BY <1>0, <1>1, <2>1, <3>2
    <3>5. Junk(pos, n) BY <2>1, <3>2, MoreKeepsVerdict
    <3>6. WalkOver(n)[pos] = WalkOver(n)[pos + 1]
      BY <1>0, <3>4, <3>5, WalkAt, WalkCases, ZenonT(40)
    <3> QED BY <2>1, <3>1, <3>3, <3>6, Zenon
  <2> QED BY <2>1, <2>2, Zenon DEF CutInv
<1>5. CASE Emit
  <2>1. /\ pos < fed /\ Complete(pos, fed) /\ pos' = pos + FrameLen(pos) /\ pushing
        /\ frames' = Append(frames, [start |-> pos, len |-> FrameLen(pos)])
        /\ UNCHANGED <<input, fed, pushing>>
    BY <1>5 DEF Emit
  <2>2. [start |-> pos, len |-> FrameLen(pos)] \in Span
    BY <1>0, <2>1, CompleteFacts DEF Span
  <2>3. ASSUME NEW n \in fed'..Len(input')
        PROVE  FramesOf(n)' = frames' \o WalkOver(n)'[pos']
    <3>1. FramesOf(n)' = FramesOf(n) /\ WalkOver(n)' = WalkOver(n) BY <2>1, WalkSteady
    <3>2. n \in fed..Len(input) BY <2>1
    <3>3. FramesOf(n) = frames \o WalkOver(n)[pos] BY <3>2 DEF CutInv
    <3>4. n \in Nat /\ n \in 0..Len(input) /\ pos \in 0..n /\ pos < n
      BY <1>0, <1>1, <2>1, <3>2
    <3>5. ~Junk(pos, n) /\ Complete(pos, n) BY <2>1, <3>2, MoreKeepsVerdict
    <3>6. WalkOver(n)[pos]
            = <<[start |-> pos, len |-> FrameLen(pos)]>> \o WalkOver(n)[pos + FrameLen(pos)]
      <4>1. WalkOver(n)[pos] = Walk(n, WalkOver(n), pos) BY <1>0, <3>4, WalkAt
      <4>2. Walk(n, WalkOver(n), pos)
              = <<[start |-> pos, len |-> FrameLen(pos)]>> \o WalkOver(n)[pos + FrameLen(pos)]
        BY <1>0, <3>4, <3>5, WalkCases, Zenon
      <4> QED BY <4>1, <4>2, Zenon
    <3>7. pos + FrameLen(pos) \in (pos + 1)..n BY <1>0, <3>4, <3>5, FrameFits
    <3>8. pos + FrameLen(pos) \in 0..n BY <1>0, <3>7
    <3>9. WalkOver(n)[pos + FrameLen(pos)] \in Seq(Span)
      BY <1>0, <3>4, <3>8, WalkFindsSpans
    <3>10. frames \o WalkOver(n)[pos]
             = Append(frames, [start |-> pos, len |-> FrameLen(pos)])
               \o WalkOver(n)[pos + FrameLen(pos)]
      <4>1. \A f \in Span, r \in Seq(Span) : frames \o (<<f>> \o r) = Append(frames, f) \o r
        BY <1>2, AppendThenRest
      <4>2. frames \o (<<[start |-> pos, len |-> FrameLen(pos)]>>
                         \o WalkOver(n)[pos + FrameLen(pos)])
             = Append(frames, [start |-> pos, len |-> FrameLen(pos)])
               \o WalkOver(n)[pos + FrameLen(pos)]
        BY <2>2, <3>9, <4>1, Zenon
      <4> QED BY <3>6, <4>2, Zenon
    <3> QED BY <2>1, <3>1, <3>3, <3>10, Zenon
  <2> QED BY <2>1, <2>3, Zenon DEF CutInv
<1>6. CASE Return
  <2>1. UNCHANGED <<input, fed, frames, pos>>
    <3>1. CASE pos < fed
      <4>1. fed - pos < MaxFrame BY <1>6, <3>1, RestIsPartial DEF Return
      <4>2. ~(fed - pos > 4 * MaxFrame) BY <1>0, <4>1, FramerAssumption
      <4> QED BY <1>6, <4>2 DEF Return
    <3>2. CASE ~(pos < fed)
      <4>1. ~(fed - pos > 4 * MaxFrame) BY <1>0, <3>2, FramerAssumption
      <4> QED BY <1>6, <4>1 DEF Return
    <3> QED BY <3>1, <3>2
  <2>2. ASSUME NEW n \in fed'..Len(input')
        PROVE  FramesOf(n)' = frames' \o WalkOver(n)'[pos']
    <3>1. FramesOf(n)' = FramesOf(n) /\ WalkOver(n)' = WalkOver(n) BY <2>1, WalkSteady
    <3>2. n \in fed..Len(input) BY <2>1
    <3>3. FramesOf(n) = frames \o WalkOver(n)[pos] BY <3>2 DEF CutInv
    <3> QED BY <2>1, <3>1, <3>3, Zenon
  <2>3. ASSUME NEW n \in Nat, n = fed' PROVE WalkOver(n)'[pos'] = <<>>
    <3>1. WalkOver(n)' = WalkOver(n) /\ n = fed /\ pos' = pos BY <2>1, <2>3, WalkSteady
    <3>2. WalkOver(n)[pos] = Walk(n, WalkOver(n), pos) BY <1>0, <3>1, WalkAt
    <3>3. pos < fed => ~Junk(pos, fed) /\ ~Complete(pos, fed) BY <1>6 DEF Return
    <3>4. pos < n \/ pos >= n BY <1>0
    <3>5. Walk(n, WalkOver(n), pos) = <<>>
      BY <1>0, <3>1, <3>3, <3>4, WalkCases, Zenon
    <3> QED BY <3>1, <3>2, <3>5
  <2> QED BY <2>2, <2>3, Zenon DEF CutInv
<1>7. CASE UNCHANGED framerVars
  <2>1. UNCHANGED <<input, fed, pos, pushing, frames>> BY <1>7 DEF framerVars
  <2>2. ASSUME NEW n PROVE FramesOf(n)' = FramesOf(n) /\ WalkOver(n)' = WalkOver(n)
    BY <2>1, WalkSteady
  <2> QED BY <2>1, <2>2, Zenon DEF CutInv
<1> QED BY <1>3, <1>4, <1>5, <1>6, <1>7 DEF FramerNext

(* The messages handed over are those of one Push of all that has arrived,
   for every stream and every cutting of it into reads. *)
THEOREM CuttingIsIrrelevant == FramerSpec => []CutIrrelevant
<1>1. FramerInit => CutInv BY CutInit
<1>2. TypeOK /\ CutInv /\ [FramerNext]_framerVars => CutInv' BY CutNext
<1>3. TypeOK /\ CutInv => CutIrrelevant
  <2> SUFFICES ASSUME TypeOK, CutInv, ~pushing PROVE frames = FramesOf(fed)
    BY DEF CutIrrelevant
  <2>1. fed \in Nat /\ fed \in fed..Len(input) BY FramerAssumption DEF TypeOK
  <2>2. FramesOf(fed) = frames \o WalkOver(fed)[pos] BY <2>1 DEF CutInv
  <2>3. WalkOver(fed)[pos] = <<>> BY <2>1 DEF CutInv
  <2>4. frames \in Seq(Span) BY DEF TypeOK, Span
  <2> QED BY <2>2, <2>3, <2>4, EmptyThenRest
<1> QED BY <1>1, <1>2, <1>3, BufferNeverGrows, PTL DEF FramerSpec
-----------------------------------------------------------------------------
(* The downlink.  With the decoder behind it the framer does what it does
   alone. *)
LEMMA DecoderOnlyListens == TelemetrySpec => FramerSpec
<1>1. TelemetryInit => FramerInit BY DEF TelemetryInit
<1>2. [TelemetryNext]_telemetryVars => [FramerNext]_framerVars
  BY DEF TelemetryNext, telemetryVars, FramerNext
<1> QED BY <1>1, <1>2, PTL DEF TelemetrySpec, FramerSpec

(* Whether the message at p, by the length it announces, sets field x. *)
Says(p, x) == Sets(p, input[p + 2], x)

(* While no message was signed, a field still has its first value and no
   message said anything of it, or there is a message that gave it its value
   and none after it said anything. *)
ShownInv ==
    (\A i \in 1..Len(frames) : \A p \in Nat : p = frames[i].start => SignatureSize(p) = 0) =>
      /\ valid = (frames # <<>>)
      /\ \A x \in Fields :
           \/ /\ state[x] = -1
              /\ \A i \in 1..Len(frames) : \A p \in Nat : p = frames[i].start => ~Says(p, x)
           \/ \E i \in 1..Len(frames) : \E p \in Nat :
                /\ p = frames[i].start /\ Says(p, x) /\ state[x] = Carried(p, x)
                /\ \A j \in (i + 1)..Len(frames) : \A q \in Nat :
                     q = frames[j].start => ~Says(q, x)

(* What a message says depends on the stream alone. *)
LEMMA SaysSteady ==
  ASSUME input' = input, NEW CONSTANT p, NEW CONSTANT x
  PROVE  /\ Says(p, x)' <=> Says(p, x)
         /\ Carried(p, x)' = Carried(p, x)
         /\ SignatureSize(p)' = SignatureSize(p)
  BY DEF Says, Sets, Carried, MsgId, SignatureSize, HeaderSize

(* A message without signature is read by the length it announces. *)
LEMMA UnsignedPayload ==
  ASSUME TypeOK, pos < fed, Complete(pos, fed), SignatureSize(pos) = 0
  PROVE  PayloadLen(pos) = input[pos + 2]
<1>1. HeaderSize(pos) \in Nat /\ HeaderSize(pos) >= 2 /\ ChecksumSize \in Nat
  BY FramerAssumption DEF HeaderSize
<1>2. fed - pos >= HeaderSize(pos) BY DEF Complete
<1>3. input \in Seq(Nat) /\ pos + 2 \in 1..Len(input)
  BY <1>1, <1>2, FramerAssumption DEF TypeOK
<1>4. input[pos + 2] \in Nat BY <1>3
<1>5. FrameLen(pos) = HeaderSize(pos) + input[pos + 2] + ChecksumSize + 0 BY Zenon DEF FrameLen
<1>6. \A a, b, c \in Nat : (a + b + c + 0) - a - c = b OBVIOUS
<1>7. (HeaderSize(pos) + input[pos + 2] + ChecksumSize + 0) - HeaderSize(pos) - ChecksumSize
        = input[pos + 2]
  BY <1>1, <1>4, <1>6
<1>8. PayloadLen(pos) = FrameLen(pos) - HeaderSize(pos) - ChecksumSize BY Zenon DEF PayloadLen
<1> QED BY <1>5, <1>7, <1>8

LEMMA ShownNext ==
  ASSUME TypeOK, ShownInv, valid \in BOOLEAN, [TelemetryNext]_telemetryVars
  PROVE  ShownInv' /\ valid' \in BOOLEAN
<1> DEFINE n == Len(frames)
<1>0. n \in Nat BY DEF TypeOK
<1>1. CASE Emit /\ Consume(pos)
  <2>1. /\ pos < fed /\ Complete(pos, fed) /\ input' = input
        /\ frames' = Append(frames, [start |-> pos, len |-> FrameLen(pos)])
    BY <1>1 DEF Emit
  <2>2. /\ Len(frames') = n + 1 /\ frames'[n + 1] = [start |-> pos, len |-> FrameLen(pos)]
        /\ \A i \in 1..n : frames'[i] = frames[i]
    BY <2>1 DEF TypeOK
  <2>3. frames'[n + 1].start = pos /\ pos \in Nat BY <2>2 DEF TypeOK
  <2>4. valid' = TRUE /\ frames' # <<>> BY <1>0, <1>1, <2>2 DEF Consume
  <2> HIDE DEF n
  <2>5. ASSUME \A i \in 1..(n + 1) : \A p \in Nat :
                 p = frames'[i].start => SignatureSize(p)' = 0,
               NEW x \in Fields
        PROVE  \/ /\ state'[x] = -1
                  /\ \A i \in 1..(n + 1) : \A p \in Nat :
                       p = frames'[i].start => ~Says(p, x)'
               \/ \E i \in 1..(n + 1) : \E p \in Nat :
                    /\ p = frames'[i].start /\ Says(p, x)' /\ state'[x] = Carried(p, x)'
                    /\ \A j \in (i + 1)..(n + 1) : \A q \in Nat :
                         q = frames'[j].start => ~Says(q, x)'
    <3>1. \A p : (Says(p, x)' <=> Says(p, x)) /\ Carried(p, x)' = Carried(p, x)
                  /\ SignatureSize(p)' = SignatureSize(p)
      BY <2>1, SaysSteady
    <3>2. n + 1 \in 1..(n + 1) /\ \A i \in 1..n : i \in 1..(n + 1) BY <1>0
    <3>3. SignatureSize(pos) = 0 BY <2>3, <2>5, <3>1, <3>2, Zenon
    <3>4. PayloadLen(pos) = input[pos + 2] BY <2>1, <3>3, UnsignedPayload
    <3>5. state'[x] = IF Says(pos, x) THEN Carried(pos, x) ELSE state[x]
      BY <1>1, <3>4, Zenon DEF Consume, Says
    <3>6. CASE Says(pos, x)
      <4>1. \A j \in (n + 1 + 1)..(n + 1) : FALSE BY <1>0
      <4> QED BY <2>3, <3>1, <3>2, <3>5, <3>6, <4>1, Zenon
    <3>7. CASE ~Says(pos, x)
      <4>1. \A i \in 1..n : \A p \in Nat : p = frames[i].start => SignatureSize(p) = 0
        BY <2>2, <2>5, <3>1, <3>2, Zenon
      <4>2. \/ /\ state[x] = -1
               /\ \A i \in 1..n : \A p \in Nat : p = frames[i].start => ~Says(p, x)
            \/ \E i \in 1..n : \E p \in Nat :
                 /\ p = frames[i].start /\ Says(p, x) /\ state[x] = Carried(p, x)
                 /\ \A j \in (i + 1)..n : \A q \in Nat :
                      q = frames[j].start => ~Says(q, x)
        BY <4>1, Zenon DEF ShownInv, n
      <4>3. state'[x] = state[x] BY <3>5, <3>7
      <4>4. \A i \in 1..(n + 1) : i \in 1..n \/ i = n + 1 BY <1>0
      <4>5. CASE /\ state[x] = -1
                 /\ \A i \in 1..n : \A p \in Nat : p = frames[i].start => ~Says(p, x)
        BY <2>2, <2>3, <3>1, <3>7, <4>3, <4>4, <4>5, Zenon
      <4>6. ASSUME NEW i \in 1..n, NEW p \in Nat,
                   p = frames[i].start, Says(p, x), state[x] = Carried(p, x),
                   \A j \in (i + 1)..n : \A q \in Nat : q = frames[j].start => ~Says(q, x)
            PROVE  \E k \in 1..(n + 1) : \E r \in Nat :
                    /\ r = frames'[k].start /\ Says(r, x)' /\ state'[x] = Carried(r, x)'
                    /\ \A j \in (k + 1)..(n + 1) : \A q \in Nat :
                         q = frames'[j].start => ~Says(q, x)'
        <5>1. \A j \in (i + 1)..(n + 1) : j \in (i + 1)..n \/ j = n + 1 BY <1>0
        <5>2. \A j \in (i + 1)..n : j \in 1..n BY <1>0
        <5>3. \A j \in (i + 1)..(n + 1) : \A q \in Nat : q = frames'[j].start => ~Says(q, x)'
          BY <2>2, <2>3, <3>1, <3>7, <4>6, <5>1, <5>2, Zenon
        <5>4. p = frames'[i].start /\ Says(p, x)' /\ state'[x] = Carried(p, x)'
          BY <2>2, <3>1, <4>3, <4>6, Zenon
        <5> QED BY <3>2, <5>3, <5>4, Zenon
      <4> QED BY <4>2, <4>5, <4>6, Zenon
    <3> QED BY <3>6, <3>7
  <2>6. (valid = (frames # <<>>))' BY <2>4, Zenon
  <2>7. ShownInv'
    <3> DEFINE m == Len(frames')
    <3>1. m = n + 1 BY <2>2
    <3> HIDE DEF m
    <3>2. ASSUME \A i \in 1..m : \A p \in Nat : p = frames'[i].start => SignatureSize(p)' = 0,
                 NEW x \in Fields
          PROVE  \/ /\ state'[x] = -1
                    /\ \A i \in 1..m : \A p \in Nat : p = frames'[i].start => ~Says(p, x)'
                 \/ \E i \in 1..m : \E p \in Nat :
                      /\ p = frames'[i].start /\ Says(p, x)' /\ state'[x] = Carried(p, x)'
                      /\ \A j \in (i + 1)..m : \A q \in Nat :
                           q = frames'[j].start => ~Says(q, x)'
      BY <2>5, <3>1, <3>2
    <3> QED BY <2>6, <3>2, Zenon DEF ShownInv, m
  <2>8. valid' \in BOOLEAN BY <2>4, Zenon
  <2> QED BY <2>7, <2>8
<1>2. ASSUME UNCHANGED <<input, frames, state, valid>> PROVE ShownInv' /\ valid' \in BOOLEAN
  <2>1. ASSUME NEW p, NEW x
        PROVE  (Says(p, x)' <=> Says(p, x)) /\ Carried(p, x)' = Carried(p, x)
               /\ SignatureSize(p)' = SignatureSize(p)
    BY <1>2, SaysSteady
  <2>2. frames' = frames /\ state' = state /\ valid' = valid BY <1>2
  <2>3. ShownInv' BY <2>1, <2>2 DEF ShownInv
  <2> QED BY <2>2, <2>3, Zenon
<1>3. CASE /\ SkipByte \/ Return \/ \E k \in 1..Len(input) : FramerPush(k)
           /\ UNCHANGED <<state, valid>>
  BY <1>2, <1>3 DEF SkipByte, Return, FramerPush
<1>4. CASE UNCHANGED telemetryVars
  BY <1>2, <1>4 DEF telemetryVars, framerVars
<1> QED BY <1>1, <1>3, <1>4 DEF TelemetryNext

(* The last message that says something of a field. *)
LEMMA LatestSetter ==
  ASSUME NEW S \in SUBSET Nat, NEW i \in S, \A j \in S : j <= i
  PROVE  S # {} /\ Max(S) = i
<1>1. i \in Nat /\ \A j \in S : j \in Nat OBVIOUS
<1>2. \A j \in S : i >= j BY <1>1
<1>3. Max(S) \in S /\ \A j \in S : Max(S) >= j BY <1>2, Zenon DEF Max
<1>4. Max(S) >= i /\ Max(S) <= i /\ Max(S) \in Nat BY <1>1, <1>3
<1> QED BY <1>1, <1>4

(* Each field shown has the value of the latest message that sets it, for
   every stream, every cutting, every layout of the messages and every choice
   of the protocol's sizes. *)
THEOREM ShownIsLatest == TelemetrySpec => []TelemetryLatest
<1>1. TelemetryInit => ShownInv /\ valid \in BOOLEAN
  <2> SUFFICES ASSUME TelemetryInit PROVE ShownInv /\ valid \in BOOLEAN OBVIOUS
  <2>1. frames = <<>> /\ Len(frames) = 0 BY DEF TelemetryInit, FramerInit
  <2>2. valid = FALSE /\ \A x \in Fields : state[x] = -1 BY DEF TelemetryInit
  <2>3. \A i \in 1..Len(frames) : FALSE BY <2>1
  <2>4. valid \in BOOLEAN /\ valid = (frames # <<>>) BY <2>1, <2>2, Zenon
  <2> QED BY <2>2, <2>3, <2>4, Zenon DEF ShownInv
<1>2. TypeOK /\ ShownInv /\ valid \in BOOLEAN /\ [TelemetryNext]_telemetryVars
        => ShownInv' /\ (valid \in BOOLEAN)'
  BY ShownNext
<1>3. TypeOK /\ CutIrrelevant /\ ShownInv => TelemetryLatest
  <2> SUFFICES ASSUME TypeOK, CutIrrelevant, ShownInv, ~pushing,
                      \A i \in 1..Len(FramesOf(fed)) : SignatureSize(FramesOf(fed)[i].start) = 0
               PROVE  /\ valid = (FramesOf(fed) # <<>>)
                      /\ \A x \in Fields :
                           LET S == {i \in 1..Len(FramesOf(fed)) :
                                       Sets(FramesOf(fed)[i].start,
                                            input[FramesOf(fed)[i].start + 2], x)}
                           IN  state[x] = IF S = {} THEN -1
                                          ELSE Carried(FramesOf(fed)[Max(S)].start, x)
    BY Zenon DEF TelemetryLatest
  <2>1. FramesOf(fed) = frames BY DEF CutIrrelevant
  <2>2. \A i \in 1..Len(frames) : frames[i].start \in Nat BY SpanTypes
  <2>3. \A i \in 1..Len(frames) : \A p \in Nat : p = frames[i].start => SignatureSize(p) = 0
    BY <2>1, Zenon
  <2>4. valid = (frames # <<>>) BY <2>3, Zenon DEF ShownInv
  <2>5. ASSUME NEW x \in Fields,
               NEW S, S = {i \in 1..Len(frames) : Says(frames[i].start, x)}
        PROVE  state[x] = IF S = {} THEN -1 ELSE Carried(frames[Max(S)].start, x)
    <3>0. Len(frames) \in Nat BY DEF TypeOK
    <3>1. CASE /\ state[x] = -1
               /\ \A i \in 1..Len(frames) : \A p \in Nat :
                    p = frames[i].start => ~Says(p, x)
      <4>1. S = {} BY <2>2, <2>5, <3>1, Zenon
      <4> QED BY <3>1, <4>1
    <3>2. ASSUME NEW i \in 1..Len(frames), NEW p \in Nat,
                 p = frames[i].start, Says(p, x), state[x] = Carried(p, x),
                 \A j \in (i + 1)..Len(frames) : \A q \in Nat :
                   q = frames[j].start => ~Says(q, x)
          PROVE  state[x] = IF S = {} THEN -1 ELSE Carried(frames[Max(S)].start, x)
      <4>1. i \in S BY <2>5, <3>2, Zenon
      <4>2. S \in SUBSET Nat BY <2>5, <3>0
      <4>3. \A j \in (i + 1)..Len(frames) : j \in 1..Len(frames) BY <3>0
      <4>4. \A j \in S : ~(j \in (i + 1)..Len(frames)) BY <2>2, <2>5, <3>2, <4>3, Zenon
      <4>5. \A j \in S : j \in 1..Len(frames) BY <2>5, Zenon
      <4>6. \A j \in S : j <= i BY <3>0, <4>4, <4>5
      <4>7. S # {} /\ Max(S) = i BY <4>1, <4>2, <4>6, LatestSetter
      <4> QED BY <3>2, <4>7
    <3> QED BY <2>3, <3>1, <3>2, Zenon DEF ShownInv
  <2> QED BY <2>1, <2>4, <2>5, Zenon DEF Says
<1>4. TelemetrySpec => [](TypeOK /\ BufferBounded) BY DecoderOnlyListens, BufferNeverGrows, PTL
<1>5. TelemetrySpec => []CutIrrelevant BY DecoderOnlyListens, CuttingIsIrrelevant, PTL
<1> QED BY <1>1, <1>2, <1>3, <1>4, <1>5, PTL DEF TelemetrySpec
==============================================================================
