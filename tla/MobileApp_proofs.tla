--------------------------- MODULE MobileApp_proofs ---------------------------
(***************************************************************************)
(* Proofs about VideoOutput and MobileApp, for every stream, any number of *)
(* MediaCodecs, files and adapter managers and any bound on the permission *)
(* requests.                                                               *)
(***************************************************************************)
EXTENDS MobileApp, SequenceTheorems, FiniteSetTheorems, TLAPS

-----------------------------------------------------------------------------
(* What is left of what a thread is doing.  Before(step, rest) is the lists
   that begin with step and go on with one of rest. *)
StepNames ==
    {"stationStart", "svcRunning", "stationStop", "join", "svcStopped",
     "release", "codecNull", "runFalse", "sawFalse", "configure", "create", "runTrue",
     "recStart", "recFlag", "recStop", "recClose", "recNull",
     "readCodec", "readRunning", "gate", "setSaw", "feed", "fail",
     "recCheck", "recRead", "recWrite"}
Steps == Seq(StepNames)
Before(step, rest) == {p \in Steps : p # <<>> /\ Head(p) = step /\ Tail(p) \in rest}

Nothing == {<<>>}

(* VideoRecorder.start, at the end of a start or by itself. *)
Flags == Before("recFlag", Nothing)
RecStarts == Before("recStart", Flags)
AfterDecoder == Nothing \cup RecStarts

(* VideoDecoder.start: what comes behind its stop, ... *)
SawLast == Before("sawFalse", AfterDecoder)
RunTrues == Before("runTrue", SawLast)
Creates == Before("create", RunTrues)
Configures == Before("configure", Creates)
(* ... its stop, ... *)
SawStart == Before("sawFalse", Configures)
RunStart == Before("runFalse", SawStart)
NullStart == Before("codecNull", RunStart)
ReleaseStart == Before("release", NullStart)
(* ... and its handler, when the MediaCodec is not to be had. *)
RunFailed == Before("runFalse", AfterDecoder)
NullFailed == Before("codecNull", RunFailed)

(* startGroundStation, with a surface to draw on and without. *)
RunningDecoder == Before("svcRunning", ReleaseStart)
RunningOnly == Before("svcRunning", AfterDecoder)
StartDecoder == Before("stationStart", RunningDecoder)
StartOnly == Before("stationStart", RunningOnly)

(* stopGroundStation. *)
SvcStops == Before("svcStopped", Nothing)
Joins == Before("join", SvcStops)
StationStops == Before("stationStop", Joins)
RecNullStop == Before("recNull", StationStops)
RecCloseStop == Before("recClose", RecNullStop)
RecStopStop == Before("recStop", RecCloseStop)
(* VideoDecoder.stop, in it or when the surface goes. *)
SawEnd == Before("sawFalse", Nothing)
SawStop == Before("sawFalse", RecStopStop)
RunStop == Before("runFalse", SawEnd \cup SawStop)
NullStop == Before("codecNull", RunStop)
ReleaseStop == Before("release", NullStop)

(* VideoRecorder.stop by itself. *)
RecNulls == Before("recNull", Nothing)
RecCloses == Before("recClose", RecNulls)
RecStops == Before("recStop", RecCloses)

(* submitNal and write. *)
Checks == Before("recCheck", Nothing)
Fails == Before("fail", Nothing)
Feeds == Before("feed", Checks)
SetSaws == Before("setSaw", Feeds)
Gates == Before("gate", Feeds)
ReadRunnings == Before("readRunning", Gates)
ReadCodecs == Before("readCodec", ReadRunnings)
RecWrites == Before("recWrite", Nothing)
RecReads == Before("recRead", RecWrites)

(* Where VideoDecoder and VideoRecorder are used as they are, where the
   decoder is made anew or could not be, and where the link is taken down. *)
Free ==
    Nothing \cup RecStarts \cup Flags \cup RecNulls \cup RecCloses \cup RecStops
    \cup RunTrues \cup SawLast \cup SawEnd
Remaking == NullStart \cup RunStart \cup SawStart \cup Configures \cup Creates
Failing == NullFailed \cup RunFailed
Closing ==
    NullStop \cup RunStop \cup SawStop \cup RecStopStop \cup RecCloseStop \cup RecNullStop
    \cup StationStops \cup Joins
-----------------------------------------------------------------------------
(* The inductive invariant.  A MediaCodec is started only for a surface and a
   link, and the native station is up only for a service that runs. *)
Drawn == started # {} => running /\ surface
Owned == running \/ link = "down"

(* What the main thread has left to do, and what it relies on there. *)
MainAt(p) ==
    \/ p \in Free /\ Drawn /\ Owned
    \/ p \in ReleaseStart /\ running /\ surface
    \/ p \in Remaking /\ running /\ surface /\ started = {}
    \/ p \in Failing /\ Owned /\ started = {}
    \/ p \in StartDecoder /\ surface /\ Drawn /\ Owned
    \/ p \in StartOnly /\ Drawn /\ Owned
    \/ p \in RunningDecoder /\ surface /\ Drawn
    \/ p \in RunningOnly /\ Drawn
    \/ p \in ReleaseStop /\ Owned
    \/ p \in Closing /\ Owned /\ started = {}
    \/ p \in SvcStops /\ link = "down" /\ started = {}

(* The rx thread has a MediaCodec, or a file, once it has looked for one; a
   submitNal that has found a keyframe still has it when the MediaCodec it
   read is the one in use. *)
KeyAtHand == active \in started => IsKeyframe(nal, configuredCodec)
RxAt(p) ==
    \/ p \in Nothing \cup ReadCodecs \cup Fails \cup Checks \cup RecReads
             \cup RecStops \cup RecCloses \cup RecNulls
    \/ p \in ReadRunnings \cup Gates \cup Feeds /\ active # None
    \/ p \in SetSaws /\ active # None /\ KeyAtHand
    \/ p \in RecWrites /\ stream # None

TodoOK == todo = [t \in Threads |-> todo[t]]
Quiet ==
    /\ TodoOK
    /\ MainAt(todo["main"])
    /\ RxAt(todo["rx"])
    /\ wakeLock = running
    /\ started \subseteq {codec} /\ primed \subseteq started
    /\ link = "down" => todo["rx"] = <<>>

(* The recorder's lock: who holds it is between two of the steps that need
   it, and then the file and the flag are what these steps have made them. *)
LockHead(p) == p # <<>> /\ Head(p) \in {"recFlag", "recClose", "recNull"}
Held(t) ==
    /\ ~recording
    /\ LockHead(todo[t])
    /\ open = IF At(t, "recNull") THEN {} ELSE {output}

Locked ==
    /\ recLock \in Threads \cup {None}
    /\ NoFileLeak
    /\ recLock # None => Held(recLock)
    /\ \A t \in Threads : LockHead(todo[t]) => recLock = t

(* A decoder that passes everything has had its keyframe, or is about to get
   it, or is about to be stopped by a failure. *)
Gated ==
    decRunning /\ sawKeyframe =>
          \/ codec \in primed
          \/ At("rx", "fail")
          \/ At("rx", "feed") /\ KeyAtHand
          \/ At("main", "codecNull") \/ At("main", "runFalse") \/ At("main", "sawFalse")

(* The adapter: nothing that waits for an answer is the manager whose
   descriptor the station was given, and a manager whose answer is on its way
   waits for no other. *)
Opened ==
    /\ fd # None => fd \in conns
    /\ fd \notin Waiting
    /\ \A m \in receivers : answers[m] = "none"
    /\ Cardinality(Waiting) <= MaxRequests

IInv == TypeOK /\ Quiet /\ Locked /\ Gated /\ Opened
-----------------------------------------------------------------------------
(* Lists of steps. *)

LEMMA InBefore ==
  ASSUME NEW step, NEW rest, NEW p \in Before(step, rest)
  PROVE  /\ p \in Steps /\ p # <<>> /\ Head(p) = step
         /\ Tail(p) \in rest /\ SubSeq(p, 2, Len(p)) = Tail(p)
<1>1. p \in Steps /\ p # <<>> /\ Head(p) = step /\ Tail(p) \in rest BY DEF Before
<1>2. p \in Seq(StepNames) BY <1>1 DEF Steps
<1>3. SubSeq(p, 2, Len(p)) = Tail(p) BY <1>1, <1>2, TailIsSubSeq
<1> QED BY <1>1, <1>3

LEMMA TailIn ==
  ASSUME NEW step, NEW rest, NEW p \in Before(step, rest)
  PROVE  SubSeq(p, 2, Len(p)) \in rest
  BY InBefore, Zenon

LEMMA ConcatFirst ==
  ASSUME NEW s \in Steps, NEW t \in Steps, s # <<>>
  PROVE  s \o t \in Steps /\ s \o t # <<>> /\ Head(s \o t) = Head(s) /\ Tail(s \o t) = Tail(s) \o t
  BY DEF Steps

LEMMA TailIs ==
  ASSUME NEW s \in Steps, NEW r \in Steps, s # <<>>, Len(s) = Len(r) + 1,
         \A i \in 1..Len(r) : r[i] = s[i + 1]
  PROVE  Tail(s) = r
<1>1. s \in Seq(StepNames) /\ r \in Seq(StepNames) BY DEF Steps
<1>2. /\ Tail(s) \in Seq(StepNames) /\ Len(Tail(s)) = Len(s) - 1
      /\ \A i \in 1..Len(Tail(s)) : Tail(s)[i] = s[i + 1]
  BY <1>1, HeadTailProperties
<1>3. Len(Tail(s)) = Len(r) /\ Len(r) \in Nat BY <1>1, <1>2
<1>4. \A i \in 1..Len(Tail(s)) : Tail(s)[i] = r[i] BY <1>2, <1>3
<1> QED BY <1>1, <1>2, <1>3, <1>4, SeqEqual

LEMMA OneThen ==
  ASSUME NEW a \in StepNames, NEW rest, NEW t \in rest, t \in Steps
  PROVE  <<a>> \o t \in Before(a, rest)
<1>1. PICK s : s = <<a>> OBVIOUS
<1>2. s \in Steps /\ s # <<>> /\ Head(s) = a /\ Tail(s) = <<>>
  <2>1. s \in Steps /\ s # <<>> /\ Head(s) = a /\ Len(s) = 1 BY <1>1 DEF Steps
  <2>2. <<>> \in Steps /\ Len(<<>>) = 0 BY DEF Steps
  <2>4. Len(s) = Len(<<>>) + 1 /\ \A i \in 1..Len(<<>>) : <<>>[i] = s[i + 1] BY <2>1, <2>2
  <2>3. Tail(s) = <<>> BY <2>1, <2>2, <2>4, TailIs, Zenon
  <2> QED BY <2>1, <2>3
<1>3. s \o t \in Steps /\ s \o t # <<>> /\ Head(s \o t) = a /\ Tail(s \o t) = Tail(s) \o t
  BY <1>2, ConcatFirst
<1>4. Tail(s) \o t = t BY <1>2, ConcatEmptySeq DEF Steps
<1> QED BY <1>1, <1>3, <1>4 DEF Before

LEMMA TwoThen ==
  ASSUME NEW a \in StepNames, NEW b \in StepNames, NEW rest, NEW t \in rest, t \in Steps
  PROVE  <<a, b>> \o t \in Before(a, Before(b, rest))
<1>1. PICK s, r : s = <<a, b>> /\ r = <<b>> OBVIOUS
<1>2. s \in Steps /\ s # <<>> /\ Head(s) = a /\ Tail(s) = r
  <2>1. s \in Steps /\ s # <<>> /\ Head(s) = a /\ Len(s) = 2 /\ s[2] = b BY <1>1 DEF Steps
  <2>2. r \in Steps /\ Len(r) = 1 /\ r[1] = b BY <1>1 DEF Steps
  <2>3. \A i \in 1..Len(r) : r[i] = s[i + 1] BY <2>1, <2>2
  <2>5. Len(s) = Len(r) + 1 BY <2>1, <2>2
  <2>4. Tail(s) = r BY <2>1, <2>2, <2>3, <2>5, TailIs, Zenon
  <2> QED BY <2>1, <2>4
<1>3. s \o t \in Steps /\ s \o t # <<>> /\ Head(s \o t) = a /\ Tail(s \o t) = Tail(s) \o t
  BY <1>2, ConcatFirst
<1>4. r \o t \in Before(b, rest) BY <1>1, OneThen
<1> QED BY <1>1, <1>2, <1>3, <1>4 DEF Before

LEMMA FourThen ==
  ASSUME NEW a \in StepNames, NEW b \in StepNames, NEW c \in StepNames, NEW d \in StepNames,
         NEW rest, NEW t \in rest, t \in Steps
  PROVE  <<a, b, c, d>> \o t \in Before(a, Before(b, Before(c, Before(d, rest))))
<1>1. PICK s, r, q : s = <<a, b, c, d>> /\ r = <<b, c, d>> /\ q = <<c, d>> OBVIOUS
<1>p. /\ s \in Steps /\ s # <<>> /\ Head(s) = a /\ Len(s) = 4
      /\ s[2] = b /\ s[3] = c /\ s[4] = d
  BY <1>1 DEF Steps
<1>q. /\ r \in Steps /\ r # <<>> /\ Head(r) = b /\ Len(r) = 3
      /\ r[1] = b /\ r[2] = c /\ r[3] = d
  BY <1>1 DEF Steps
<1>2. s \in Steps /\ s # <<>> /\ Head(s) = a /\ Tail(s) = r
  <2>1. \A i \in 1..Len(r) : r[i] = s[i + 1] BY <1>p, <1>q
  <2>3. Len(s) = Len(r) + 1 BY <1>p, <1>q
  <2>2. Tail(s) = r BY <1>p, <1>q, <2>1, <2>3, TailIs, Zenon
  <2> QED BY <1>p, <2>2
<1>3. r \in Steps /\ r # <<>> /\ Head(r) = b /\ Tail(r) = q
  <2>1. q \in Steps /\ Len(q) = 2 /\ q[1] = c /\ q[2] = d BY <1>1 DEF Steps
  <2>2. \A i \in 1..Len(q) : q[i] = r[i + 1] BY <1>q, <2>1
  <2>4. Len(r) = Len(q) + 1 BY <1>q, <2>1
  <2>3. Tail(r) = q BY <1>q, <2>1, <2>2, <2>4, TailIs, Zenon
  <2> QED BY <1>q, <2>3
<1>4. s \o t \in Steps /\ s \o t # <<>> /\ Head(s \o t) = a /\ Tail(s \o t) = r \o t
  BY <1>2, ConcatFirst
<1>5. r \o t \in Steps /\ r \o t # <<>> /\ Head(r \o t) = b /\ Tail(r \o t) = q \o t
  BY <1>3, ConcatFirst
<1>6. q \o t \in Before(c, Before(d, rest)) BY <1>1, TwoThen
<1>7. r \o t \in Before(b, Before(c, Before(d, rest))) BY <1>5, <1>6 DEF Before
<1>8. s \o t \in Before(a, Before(b, Before(c, Before(d, rest)))) BY <1>4, <1>7, Zenon DEF Before
<1> QED BY <1>1, <1>8

LEMMA ThreeThen ==
  ASSUME NEW a \in StepNames, NEW b \in StepNames, NEW c \in StepNames,
         NEW rest, NEW t \in rest, t \in Steps
  PROVE  <<a, b, c>> \o t \in Before(a, Before(b, Before(c, rest)))
<1>1. PICK s, r : s = <<a, b, c>> /\ r = <<b, c>> OBVIOUS
<1>2. s \in Steps /\ s # <<>> /\ Head(s) = a /\ Tail(s) = r
  <2>1. s \in Steps /\ s # <<>> /\ Head(s) = a /\ Len(s) = 3 /\ s[2] = b /\ s[3] = c
    BY <1>1 DEF Steps
  <2>2. r \in Steps /\ Len(r) = 2 /\ r[1] = b /\ r[2] = c BY <1>1 DEF Steps
  <2>3. \A i \in 1..Len(r) : r[i] = s[i + 1] BY <2>1, <2>2
  <2>4. Len(s) = Len(r) + 1 BY <2>1, <2>2
  <2>5. Tail(s) = r BY <2>1, <2>2, <2>3, <2>4, TailIs, Zenon
  <2> QED BY <2>1, <2>5
<1>3. s \o t \in Steps /\ s \o t # <<>> /\ Head(s \o t) = a /\ Tail(s \o t) = r \o t
  BY <1>2, ConcatFirst
<1>4. r \o t \in Before(b, Before(c, rest)) BY <1>1, TwoThen
<1>5. s \o t \in Before(a, Before(b, Before(c, rest))) BY <1>3, <1>4, Zenon DEF Before
<1> QED BY <1>1, <1>5

LEMMA SkipTwo ==
  ASSUME NEW a, NEW b, NEW rest, NEW p \in Before(a, Before(b, rest))
  PROVE  SubSeq(p, 3, Len(p)) \in rest
<1>1. p \in Seq(StepNames) /\ p # <<>> /\ Tail(p) \in Before(b, rest) /\ Tail(p) = SubSeq(p, 2, Len(p))
  BY InBefore DEF Steps
<1>2. Tail(p) # <<>> /\ Tail(Tail(p)) \in rest BY <1>1, InBefore
<1>3. Len(p) \in Nat /\ Len(p) >= 2 BY <1>1, <1>2
<1>4. 2 \in 1..Len(p) /\ Len(p) \in 2..Len(p) BY <1>3
<1>5. Tail(SubSeq(p, 2, Len(p))) = SubSeq(p, 2 + 1, Len(p)) BY <1>1, <1>4, HeadTailOfSubSeq
<1>6. 2 + 1 = 3 OBVIOUS
<1> QED BY <1>1, <1>2, <1>5, <1>6, Zenon

LEMMA SkipThree ==
  ASSUME NEW a, NEW b, NEW c, NEW rest, NEW p \in Before(a, Before(b, Before(c, rest)))
  PROVE  SubSeq(p, 4, Len(p)) \in rest
<1>1. p \in Seq(StepNames) /\ p # <<>> BY InBefore DEF Steps
<1>2. SubSeq(p, 3, Len(p)) \in Before(c, rest) BY SkipTwo
<1>3. SubSeq(p, 3, Len(p)) # <<>> /\ Tail(SubSeq(p, 3, Len(p))) \in rest
  BY <1>2, Zenon DEF Before
<1>4. Len(p) \in Nat /\ Len(p) >= 3 BY <1>1, <1>3, SubSeqEmpty
<1>5. 3 \in 1..Len(p) /\ Len(p) \in 3..Len(p) BY <1>4
<1>6. Tail(SubSeq(p, 3, Len(p))) = SubSeq(p, 3 + 1, Len(p)) BY <1>1, <1>5, HeadTailOfSubSeq
<1>7. 3 + 1 = 4 OBVIOUS
<1> QED BY <1>3, <1>6, <1>7, Zenon

LEMMA BeforeMore ==
  ASSUME NEW a, NEW rest, NEW more, rest \subseteq more
  PROVE  Before(a, rest) \subseteq Before(a, more)
  BY DEF Before

LEMMA EmptyList == <<>> \in Nothing /\ <<>> \in Steps /\ \A p \in Steps : p \o <<>> = p
  BY ConcatEmptySeq DEF Nothing, Steps

-----------------------------------------------------------------------------
(* What the threads are given to do. *)

LEMMA ListsAreSteps ==
  /\ Nothing \subseteq Steps /\ RecStarts \subseteq Steps /\ AfterDecoder \subseteq Steps
  /\ StationStops \subseteq Steps /\ RecStopStop \subseteq Steps /\ ReleaseStart \subseteq Steps
  BY EmptyList
     DEF Before, Nothing, RecStarts, AfterDecoder, StationStops, RecStopStop, ReleaseStart

LEMMA RecorderLists == RecorderStart \in RecStarts /\ RecorderStop \in RecStops
<1>1. "recStart" \in StepNames /\ "recFlag" \in StepNames /\ "recStop" \in StepNames
      /\ "recClose" \in StepNames /\ "recNull" \in StepNames
  BY DEF StepNames
<1>2. RecorderStart \o <<>> \in RecStarts
  BY <1>1, EmptyList, TwoThen DEF RecorderStart, RecStarts, Flags
<1>3. RecorderStop \o <<>> \in RecStops
  BY <1>1, EmptyList, ThreeThen DEF RecorderStop, RecStops, RecCloses, RecNulls
<1>4. RecorderStart \in Steps /\ RecorderStop \in Steps
  BY <1>1 DEF Steps, RecorderStart, RecorderStop
<1> QED BY <1>2, <1>3, <1>4, EmptyList

LEMMA DecoderStopThen ==
  ASSUME NEW rest, NEW t \in rest, t \in Steps
  PROVE  DecoderStop \o t \in
           Before("release", Before("codecNull", Before("runFalse", Before("sawFalse", rest))))
<1>1. "release" \in StepNames /\ "codecNull" \in StepNames /\ "runFalse" \in StepNames
      /\ "sawFalse" \in StepNames
  BY DEF StepNames
<1> QED BY <1>1, FourThen DEF DecoderStop

LEMMA DecoderStopList == DecoderStop \in ReleaseStop /\ DecoderStop \in Steps
<1>1. "release" \in StepNames /\ "codecNull" \in StepNames /\ "runFalse" \in StepNames
      /\ "sawFalse" \in StepNames
  BY DEF StepNames
<1>2. DecoderStop \in Steps BY <1>1 DEF Steps, DecoderStop
<1>3. DecoderStop \o <<>> \in Before("release", Before("codecNull", Before("runFalse", SawEnd)))
  BY EmptyList, DecoderStopThen DEF SawEnd
<1>4. Before("runFalse", SawEnd) \subseteq RunStop BY BeforeMore DEF RunStop
<1>5. Before("codecNull", Before("runFalse", SawEnd)) \subseteq NullStop
  BY <1>4, BeforeMore DEF NullStop
<1>6. Before("release", Before("codecNull", Before("runFalse", SawEnd))) \subseteq ReleaseStop
  BY <1>5, BeforeMore DEF ReleaseStop
<1> QED BY <1>2, <1>3, <1>6, EmptyList

LEMMA StopList == StopSequence \in ReleaseStop
<1>1. "recStop" \in StepNames /\ "recClose" \in StepNames /\ "recNull" \in StepNames
      /\ "stationStop" \in StepNames /\ "join" \in StepNames /\ "svcStopped" \in StepNames
  BY DEF StepNames
<1>2. PICK x : x = <<"stationStop", "join", "svcStopped">> OBVIOUS
<1>3. x \in Steps BY <1>1, <1>2 DEF Steps
<1>4. x \o <<>> \in StationStops
  BY <1>1, <1>2, EmptyList, ThreeThen DEF StationStops, Joins, SvcStops
<1>5. x \in StationStops BY <1>3, <1>4, EmptyList
<1>6. RecorderStop \o x \in RecStopStop
  BY <1>1, <1>3, <1>5, ThreeThen DEF RecorderStop, RecStopStop, RecCloseStop, RecNullStop
<1>7. RecorderStop \o x \in Steps /\ RecorderStop \in Steps
  <2>1. RecorderStop \in Steps BY <1>1 DEF RecorderStop, Steps
  <2> QED BY <1>6, <2>1, ListsAreSteps
<1>8. DecoderStop \o (RecorderStop \o x)
        \in Before("release", Before("codecNull", Before("runFalse", SawStop)))
  BY <1>6, <1>7, DecoderStopThen DEF SawStop
<1>9. Before("runFalse", SawStop) \subseteq RunStop BY BeforeMore DEF RunStop
<1>10. Before("codecNull", Before("runFalse", SawStop)) \subseteq NullStop
  BY <1>9, BeforeMore DEF NullStop
<1>11. Before("release", Before("codecNull", Before("runFalse", SawStop))) \subseteq ReleaseStop
  BY <1>10, BeforeMore DEF ReleaseStop
<1>12. DecoderStop \o (RecorderStop \o x) = (DecoderStop \o RecorderStop) \o x
  BY <1>3, <1>7, DecoderStopList, ConcatAssociative DEF Steps
<1>13. StopSequence = (DecoderStop \o RecorderStop) \o x BY <1>2 DEF StopSequence
<1> QED BY <1>8, <1>11, <1>12, <1>13

LEMMA DecoderStartThen ==
  ASSUME NEW t \in AfterDecoder
  PROVE  DecoderStart \o t \in ReleaseStart /\ DecoderStart \in Steps
<1>1. "configure" \in StepNames /\ "create" \in StepNames /\ "runTrue" \in StepNames
      /\ "sawFalse" \in StepNames
  BY DEF StepNames
<1>2. PICK x : x = <<"configure", "create", "runTrue", "sawFalse">> OBVIOUS
<1>3. t \in Steps BY ListsAreSteps
<1>4. x \in Steps BY <1>1, <1>2 DEF Steps
<1>5. x \o t \in Configures
  BY <1>1, <1>2, <1>3, FourThen DEF Configures, Creates, RunTrues, SawLast
<1>6. x \o t \in Steps /\ DecoderStop \o x \in Steps BY <1>3, <1>4, DecoderStopList DEF Steps
<1>7. DecoderStop \o (x \o t) \in ReleaseStart
  BY <1>5, <1>6, DecoderStopThen DEF ReleaseStart, NullStart, RunStart, SawStart
<1>8. DecoderStop \o (x \o t) = (DecoderStop \o x) \o t
  BY <1>3, <1>4, DecoderStopList, ConcatAssociative DEF Steps
<1>9. DecoderStart = DecoderStop \o x BY <1>2 DEF DecoderStart
<1> QED BY <1>6, <1>7, <1>8, <1>9

LEMMA DecoderStartList == DecoderStart \in ReleaseStart
  BY EmptyList, DecoderStartThen DEF AfterDecoder

(* startGroundStation, by whether there is a surface and a recording. *)
LEMMA StartList ==
  ASSUME NEW r \in AfterDecoder
  PROVE  /\ <<"stationStart", "svcRunning">> \o DecoderStart \o r \in StartDecoder
         /\ <<"stationStart", "svcRunning">> \o <<>> \o r \in StartOnly
<1>1. "stationStart" \in StepNames /\ "svcRunning" \in StepNames BY DEF StepNames
<1>2. PICK x : x = <<"stationStart", "svcRunning">> OBVIOUS
<1>3. x \in Steps /\ r \in Steps /\ DecoderStart \in Steps
  BY <1>1, <1>2, ListsAreSteps, DecoderStartThen DEF Steps
<1>4. DecoderStart \o r \in ReleaseStart /\ DecoderStart \o r \in Steps
  BY DecoderStartThen, ListsAreSteps
<1>5. x \o (DecoderStart \o r) \in StartDecoder
  BY <1>1, <1>2, <1>4, TwoThen DEF StartDecoder, RunningDecoder
<1>6. x \o r \in StartOnly BY <1>1, <1>2, <1>3, TwoThen DEF StartOnly, RunningOnly
<1>7. x \o (DecoderStart \o r) = (x \o DecoderStart) \o r
  BY <1>3, ConcatAssociative DEF Steps
<1>8. x \o <<>> = x BY <1>3, EmptyList
<1> QED BY <1>2, <1>5, <1>6, <1>7, <1>8

LEMMA NalLists ==
  /\ <<"readCodec", "readRunning", "gate", "feed", "recCheck">> \in ReadCodecs
  /\ <<"recCheck">> \in Checks /\ <<"fail">> \in Fails /\ WriteSteps \in RecReads
<1>1. "readCodec" \in StepNames /\ "readRunning" \in StepNames /\ "gate" \in StepNames
      /\ "feed" \in StepNames /\ "recCheck" \in StepNames
  BY DEF StepNames
<1>2. "fail" \in StepNames /\ "recRead" \in StepNames /\ "recWrite" \in StepNames
  BY DEF StepNames
<1>3. PICK w, x, y, z : /\ w = <<"recCheck">> /\ x = <<"fail">> /\ y = <<"recRead", "recWrite">>
                        /\ z = <<"readRunning", "gate", "feed", "recCheck">>
  OBVIOUS
<1>4. w \in Steps /\ x \in Steps /\ y \in Steps /\ z \in Steps BY <1>1, <1>2, <1>3 DEF Steps
<1>5. w \o <<>> \in Checks BY <1>1, <1>3, EmptyList, OneThen DEF Checks
<1>6. x \o <<>> \in Fails BY <1>2, <1>3, EmptyList, OneThen DEF Fails
<1>7. y \o <<>> \in RecReads BY <1>2, <1>3, EmptyList, TwoThen DEF RecReads, RecWrites
<1>8. z \o <<>> \in ReadRunnings
  BY <1>1, <1>3, EmptyList, FourThen DEF ReadRunnings, Gates, Feeds, Checks
<1>9. w \in Checks /\ x \in Fails /\ y \in RecReads /\ z \in ReadRunnings
  BY <1>4, <1>5, <1>6, <1>7, <1>8, EmptyList
<1>10. <<"readCodec">> \o z \in ReadCodecs BY <1>1, <1>4, <1>9, OneThen DEF ReadCodecs
<1>11. <<"readCodec">> \o z = <<"readCodec", "readRunning", "gate", "feed", "recCheck">>
  <2>1. PICK u, v : /\ u = <<"readCodec">> /\ v = u \o z OBVIOUS
  <2>2. u \in Seq(StepNames) /\ Len(u) = 1 /\ u[1] = "readCodec" BY <1>1, <2>1
  <2>3. /\ z \in Seq(StepNames) /\ Len(z) = 4 /\ z[1] = "readRunning" /\ z[2] = "gate"
        /\ z[3] = "feed" /\ z[4] = "recCheck"
    BY <1>1, <1>3
  <2>4. /\ v \in Seq(StepNames) /\ Len(v) = 5 /\ v[1] = "readCodec" /\ v[2] = "readRunning"
        /\ v[3] = "gate" /\ v[4] = "feed" /\ v[5] = "recCheck"
    <3>0. v \in Seq(StepNames) /\ Len(v) = Len(u) + Len(z) BY <2>1, <2>2, <2>3, ConcatProperties
    <3>1. v \in Seq(StepNames) /\ Len(v) = 5 BY <2>2, <2>3, <3>0
    <3>2. v[1] = "readCodec" BY <2>1, <2>2, <2>3
    <3>3. \A i \in 1..4 : v[i + 1] = z[i] BY <2>1, <2>2, <2>3
    <3>4. v[2] = z[1] /\ v[3] = z[2] /\ v[4] = z[3] /\ v[5] = z[4] BY <3>3
    <3> QED BY <2>3, <3>1, <3>2, <3>4
  <2>5. PICK y5 : y5 = <<"readCodec", "readRunning", "gate", "feed", "recCheck">> OBVIOUS
  <2>6. /\ y5 \in Seq(StepNames) /\ Len(y5) = 5 /\ y5[1] = "readCodec" /\ y5[2] = "readRunning"
        /\ y5[3] = "gate" /\ y5[4] = "feed" /\ y5[5] = "recCheck"
    BY <1>1, <2>5
  <2>7. Len(v) = Len(y5) /\ \A i \in 1..Len(v) : v[i] = y5[i] BY <2>4, <2>6
  <2>8. v = y5 BY <2>4, <2>6, <2>7, SeqEqual
  <2> QED BY <2>1, <2>5, <2>8
<1> QED BY <1>3, <1>9, <1>10, <1>11 DEF WriteSteps

-----------------------------------------------------------------------------
(* Which lists begin with a step. *)
Begins(p, step) == p # <<>> /\ Head(p) = step

LEMMA FreeHeads ==
  ASSUME NEW p \in Free
  PROVE  /\ p = <<>> \/ p \in RecStarts \/ p \in Flags \/ p \in RecNulls \/ p \in RecCloses
             \/ p \in RecStops \/ p \in RunTrues \/ p \in SawLast \/ p \in SawEnd
         /\ p \in RecStarts => Begins(p, "recStart")
         /\ p \in Flags => Begins(p, "recFlag")
         /\ p \in RecNulls => Begins(p, "recNull")
         /\ p \in RecCloses => Begins(p, "recClose")
         /\ p \in RecStops => Begins(p, "recStop")
         /\ p \in RunTrues => Begins(p, "runTrue")
         /\ p \in SawLast \cup SawEnd => Begins(p, "sawFalse")
  BY Zenon
  DEF Free, Nothing, Before, Begins, RecStarts, Flags, RecNulls, RecCloses, RecStops, RunTrues,
         SawLast, SawEnd

LEMMA RemakingHeads ==
  ASSUME NEW p \in Remaking
  PROVE  /\ p \in NullStart \/ p \in RunStart \/ p \in SawStart \/ p \in Configures
            \/ p \in Creates
         /\ p \in NullStart => Begins(p, "codecNull")
         /\ p \in RunStart => Begins(p, "runFalse")
         /\ p \in SawStart => Begins(p, "sawFalse")
         /\ p \in Configures => Begins(p, "configure")
         /\ p \in Creates => Begins(p, "create")
  BY Zenon DEF Remaking, Before, Begins, NullStart, RunStart, SawStart, Configures, Creates

LEMMA FailingHeads ==
  ASSUME NEW p \in Failing
  PROVE  /\ p \in NullFailed \/ p \in RunFailed
         /\ p \in NullFailed => Begins(p, "codecNull")
         /\ p \in RunFailed => Begins(p, "runFalse")
  BY Zenon DEF Failing, Before, Begins, NullFailed, RunFailed

LEMMA ClosingHeads ==
  ASSUME NEW p \in Closing
  PROVE  /\ p \in NullStop \/ p \in RunStop \/ p \in SawStop \/ p \in RecStopStop
            \/ p \in RecCloseStop \/ p \in RecNullStop \/ p \in StationStops \/ p \in Joins
         /\ p \in NullStop => Begins(p, "codecNull")
         /\ p \in RunStop => Begins(p, "runFalse")
         /\ p \in SawStop => Begins(p, "sawFalse")
         /\ p \in RecStopStop => Begins(p, "recStop")
         /\ p \in RecCloseStop => Begins(p, "recClose")
         /\ p \in RecNullStop => Begins(p, "recNull")
         /\ p \in StationStops => Begins(p, "stationStop")
         /\ p \in Joins => Begins(p, "join")
  BY Zenon DEF Closing, Before, Begins, NullStop, RunStop, SawStop, RecStopStop, RecCloseStop,
               RecNullStop, StationStops, Joins

LEMMA OtherHeads ==
  /\ \A p \in ReleaseStart \cup ReleaseStop : Begins(p, "release")
  /\ \A p \in StartDecoder \cup StartOnly : Begins(p, "stationStart")
  /\ \A p \in RunningDecoder \cup RunningOnly : Begins(p, "svcRunning")
  /\ \A p \in SvcStops : Begins(p, "svcStopped")
  BY Zenon DEF Before, Begins, ReleaseStart, ReleaseStop, StartDecoder, StartOnly, RunningDecoder,
               RunningOnly, SvcStops

LEMMA RxHeads ==
  /\ \A p \in ReadCodecs : Begins(p, "readCodec")
  /\ \A p \in ReadRunnings : Begins(p, "readRunning")
  /\ \A p \in Gates : Begins(p, "gate")
  /\ \A p \in SetSaws : Begins(p, "setSaw")
  /\ \A p \in Feeds : Begins(p, "feed")
  /\ \A p \in Fails : Begins(p, "fail")
  /\ \A p \in Checks : Begins(p, "recCheck")
  /\ \A p \in RecReads : Begins(p, "recRead")
  /\ \A p \in RecWrites : Begins(p, "recWrite")
  /\ \A p \in RecStops : Begins(p, "recStop")
  /\ \A p \in RecCloses : Begins(p, "recClose")
  /\ \A p \in RecNulls : Begins(p, "recNull")
  BY Zenon DEF Before, Begins, ReadCodecs, ReadRunnings, Gates, SetSaws, Feeds, Fails, Checks,
               RecReads, RecWrites, RecStops, RecCloses, RecNulls

(* Where the main thread is when it is about to take a step. *)
LEMMA MainAtStep ==
  ASSUME NEW p, MainAt(p)
  PROVE  /\ Begins(p, "release") =>
              \/ p \in ReleaseStart /\ running /\ surface
              \/ p \in ReleaseStop /\ Owned
         /\ Begins(p, "codecNull") =>
              \/ p \in NullStart /\ running /\ surface /\ started = {}
              \/ p \in NullFailed /\ Owned /\ started = {}
              \/ p \in NullStop /\ Owned /\ started = {}
         /\ Begins(p, "runFalse") =>
              \/ p \in RunStart /\ running /\ surface /\ started = {}
              \/ p \in RunFailed /\ Owned /\ started = {}
              \/ p \in RunStop /\ Owned /\ started = {}
         /\ Begins(p, "sawFalse") =>
              \/ p \in SawStart /\ running /\ surface /\ started = {}
              \/ p \in SawStop /\ Owned /\ started = {}
              \/ p \in SawLast \cup SawEnd /\ Drawn /\ Owned
         /\ Begins(p, "configure") => p \in Configures /\ running /\ surface /\ started = {}
         /\ Begins(p, "create") => p \in Creates /\ running /\ surface /\ started = {}
         /\ Begins(p, "runTrue") => p \in RunTrues /\ Drawn /\ Owned
<1>1. CASE p \in Free /\ Drawn /\ Owned BY <1>1, FreeHeads DEF Begins
<1>2. CASE p \in ReleaseStart /\ running /\ surface
  <2>1. Begins(p, "release") BY <1>2, OtherHeads, Zenon
  <2>2. /\ ~Begins(p, "codecNull") /\ ~Begins(p, "runFalse") /\ ~Begins(p, "sawFalse")
        /\ ~Begins(p, "configure") /\ ~Begins(p, "create") /\ ~Begins(p, "runTrue")
    BY <2>1 DEF Begins
  <2> QED BY <1>2, <2>1, <2>2, Zenon
<1>3. CASE p \in Remaking /\ running /\ surface /\ started = {} BY <1>3, RemakingHeads DEF Begins
<1>4. CASE p \in Failing /\ Owned /\ started = {} BY <1>4, FailingHeads DEF Begins
<1>5. CASE p \in StartDecoder \cup StartOnly BY <1>5, OtherHeads DEF Begins
<1>6. CASE p \in RunningDecoder \cup RunningOnly BY <1>6, OtherHeads DEF Begins
<1>7. CASE p \in ReleaseStop /\ Owned BY <1>7, OtherHeads DEF Begins
<1>8. CASE p \in Closing /\ Owned /\ started = {} BY <1>8, ClosingHeads DEF Begins
<1>9. CASE p \in SvcStops BY <1>9, OtherHeads DEF Begins
<1> QED BY <1>1, <1>2, <1>3, <1>4, <1>5, <1>6, <1>7, <1>8, <1>9 DEF MainAt

LEMMA MainAtService ==
  ASSUME NEW p, MainAt(p)
  PROVE  /\ p = <<>> => Drawn /\ Owned
         /\ Begins(p, "stationStart") =>
              \/ p \in StartDecoder /\ surface /\ Drawn /\ Owned
              \/ p \in StartOnly /\ Drawn /\ Owned
         /\ Begins(p, "svcRunning") =>
              \/ p \in RunningDecoder /\ surface /\ Drawn
              \/ p \in RunningOnly /\ Drawn
         /\ Begins(p, "stationStop") => p \in StationStops /\ Owned /\ started = {}
         /\ Begins(p, "join") => p \in Joins /\ Owned /\ started = {}
         /\ Begins(p, "svcStopped") => p \in SvcStops /\ link = "down" /\ started = {}
         /\ Begins(p, "recStart") => p \in RecStarts /\ Drawn /\ Owned
         /\ Begins(p, "recFlag") => p \in Flags /\ Drawn /\ Owned
         /\ Begins(p, "recStop") =>
              \/ p \in RecStops /\ Drawn /\ Owned
              \/ p \in RecStopStop /\ Owned /\ started = {}
         /\ Begins(p, "recClose") =>
              \/ p \in RecCloses /\ Drawn /\ Owned
              \/ p \in RecCloseStop /\ Owned /\ started = {}
         /\ Begins(p, "recNull") =>
              \/ p \in RecNulls /\ Drawn /\ Owned
              \/ p \in RecNullStop /\ Owned /\ started = {}
<1>1. CASE p \in Free /\ Drawn /\ Owned
  <2>1. CASE p = <<>> BY <1>1, <2>1 DEF Begins
  <2>2. CASE p # <<>>
    <3>1. /\ p \in RecStarts => Begins(p, "recStart")
          /\ p \in Flags => Begins(p, "recFlag")
          /\ p \in RecNulls => Begins(p, "recNull")
          /\ p \in RecCloses => Begins(p, "recClose")
          /\ p \in RecStops => Begins(p, "recStop")
          /\ p \in RunTrues => Begins(p, "runTrue")
          /\ p \in SawLast \cup SawEnd => Begins(p, "sawFalse")
      BY <1>1, FreeHeads, Zenon
    <3>2. p \in RecStarts \/ p \in Flags \/ p \in RecNulls \/ p \in RecCloses
             \/ p \in RecStops \/ p \in RunTrues \/ p \in SawLast \cup SawEnd
      BY <1>1, <2>2, FreeHeads, Zenon
    <3> QED BY <1>1, <2>2, <3>1, <3>2 DEF Begins
  <2> QED BY <2>1, <2>2
<1>2. CASE p \in ReleaseStart BY <1>2, OtherHeads DEF Begins
<1>3. CASE p \in Remaking BY <1>3, RemakingHeads DEF Begins
<1>4. CASE p \in Failing BY <1>4, FailingHeads DEF Begins
<1>5. CASE \/ p \in StartDecoder /\ surface /\ Drawn /\ Owned
           \/ p \in StartOnly /\ Drawn /\ Owned
  BY <1>5, OtherHeads DEF Begins
<1>6. CASE \/ p \in RunningDecoder /\ surface /\ Drawn
           \/ p \in RunningOnly /\ Drawn
  BY <1>6, OtherHeads DEF Begins
<1>7. CASE p \in ReleaseStop BY <1>7, OtherHeads DEF Begins
<1>8. CASE p \in Closing /\ Owned /\ started = {} BY <1>8, ClosingHeads DEF Begins
<1>9. CASE p \in SvcStops /\ link = "down" /\ started = {} BY <1>9, OtherHeads DEF Begins
<1> QED BY <1>1, <1>2, <1>3, <1>4, <1>5, <1>6, <1>7, <1>8, <1>9 DEF MainAt

(* The rx thread takes no step of the service or the decoder, and does not
   start a recording. *)
LEMMA RxAtStep ==
  ASSUME NEW p, RxAt(p)
  PROVE  /\ Begins(p, "readCodec") => p \in ReadCodecs
         /\ Begins(p, "readRunning") => p \in ReadRunnings /\ active # None
         /\ Begins(p, "gate") => p \in Gates /\ active # None
         /\ Begins(p, "setSaw") => p \in SetSaws /\ active # None /\ KeyAtHand
         /\ Begins(p, "feed") => p \in Feeds /\ active # None
         /\ Begins(p, "fail") => p \in Fails
         /\ Begins(p, "recCheck") => p \in Checks
         /\ Begins(p, "recRead") => p \in RecReads
         /\ Begins(p, "recWrite") => p \in RecWrites /\ stream # None
         /\ Begins(p, "recStop") => p \in RecStops
         /\ Begins(p, "recClose") => p \in RecCloses
         /\ Begins(p, "recNull") => p \in RecNulls
         /\ ~Begins(p, "recStart") /\ ~Begins(p, "recFlag")
  BY RxHeads DEF RxAt, Begins, Nothing

-----------------------------------------------------------------------------
(* How a step changes what is left to do. *)
LEMMA MainGoes ==
  ASSUME TodoOK, NEW s, Goto("main", s)
  PROVE  TodoOK' /\ todo'["main"] = s /\ todo'["rx"] = todo["rx"]
  BY DEF TodoOK, Goto, Threads

LEMMA RxGoes ==
  ASSUME TodoOK, NEW s, Goto("rx", s)
  PROVE  TodoOK' /\ todo'["rx"] = s /\ todo'["main"] = todo["main"]
  BY DEF TodoOK, Goto, Threads

LEMMA MainSkips ==
  ASSUME TodoOK, NEW step, NEW rest, todo["main"] \in Before(step, rest), Skip("main", 1)
  PROVE  TodoOK' /\ todo'["main"] \in rest /\ todo'["rx"] = todo["rx"]
<1>1. Goto("main", SubSeq(todo["main"], 1 + 1, Len(todo["main"]))) BY DEF Skip
<1>2. SubSeq(todo["main"], 2, Len(todo["main"])) \in rest BY InBefore
<1>3. 1 + 1 = 2 OBVIOUS
<1> QED BY <1>1, <1>2, <1>3, MainGoes

LEMMA RxSkips ==
  ASSUME TodoOK, NEW step, NEW rest, todo["rx"] \in Before(step, rest), Skip("rx", 1)
  PROVE  TodoOK' /\ todo'["rx"] \in rest /\ todo'["main"] = todo["main"]
<1>1. Goto("rx", SubSeq(todo["rx"], 1 + 1, Len(todo["rx"]))) BY DEF Skip
<1>2. SubSeq(todo["rx"], 2, Len(todo["rx"])) \in rest BY InBefore
<1>3. 1 + 1 = 2 OBVIOUS
<1> QED BY <1>1, <1>2, <1>3, RxGoes

(* What the other thread's steps leave alone. *)
LEMMA MainKept ==
  ASSUME MainAt(todo["main"]), todo'["main"] = todo["main"],
         UNCHANGED <<link, running, surface, started>>
  PROVE  MainAt(todo["main"])'
  BY DEF MainAt, Drawn, Owned

LEMMA RxKept ==
  ASSUME RxAt(todo["rx"]), todo'["rx"] = todo["rx"], UNCHANGED rxLocals,
         active \in started' => active \in started /\ configuredCodec' = configuredCodec
  PROVE  RxAt(todo["rx"])'
<1>1. active' = active /\ nal' = nal /\ stream' = stream BY DEF rxLocals
<1>2. KeyAtHand => KeyAtHand' BY <1>1 DEF KeyAtHand
<1> QED BY <1>1, <1>2, Zenon DEF RxAt

LEMMA AtBegins == \A t, step : At(t, step) <=> Begins(todo[t], step)
  BY DEF At, Idle, Begins

-----------------------------------------------------------------------------
(* Quiet is inductive. *)

LEMMA QuietByMain ==
  ASSUME Quiet, TodoOK', todo'["rx"] = todo["rx"], UNCHANGED rxLocals, MainAt(todo["main"])',
         wakeLock' = running', started' \subseteq {codec'}, primed' \subseteq started',
         link' = "down" => link = "down" \/ todo["rx"] = <<>>,
         active \in started' => active \in started /\ configuredCodec' = configuredCodec
  PROVE  Quiet'
<1>1. RxAt(todo["rx"])' BY RxKept DEF Quiet
<1> QED BY <1>1 DEF Quiet

LEMMA QuietByRx ==
  ASSUME Quiet, TodoOK', todo'["main"] = todo["main"], RxAt(todo["rx"])',
         UNCHANGED <<service, codec, started>>, primed' \subseteq started,
         link # "down" \/ todo["rx"] # <<>>
  PROVE  Quiet'
<1>1. UNCHANGED <<link, running, wakeLock, surface>> BY DEF service
<1>2. MainAt(todo["main"])' BY <1>1, MainKept DEF Quiet
<1>3. link # "down" BY DEF Quiet
<1> QED BY <1>1, <1>2, <1>3 DEF Quiet

LEMMA QuietAttach ==
  ASSUME Quiet, NEW present \in BOOLEAN, AttachSurface(present)
  PROVE  Quiet'
<1>1. TodoOK /\ MainAt(todo["main"]) /\ todo["main"] = <<>> BY DEF Quiet, AttachSurface, Idle
<1>2. Drawn /\ Owned BY <1>1, MainAtService
<1>3. /\ UNCHANGED <<link, running, wakeLock, codec, started, primed, configuredCodec>>
      /\ UNCHANGED rxLocals
  BY DEF AttachSurface, decoder
<1>4. TodoOK' /\ todo'["rx"] = todo["rx"] BY <1>1, MainGoes DEF AttachSurface
<1>5. MainAt(todo["main"])'
  <2>1. CASE ~present
    <3>1. todo'["main"] = DecoderStop BY <1>1, <2>1, MainGoes DEF AttachSurface
    <3>2. Owned' BY <1>2, <1>3 DEF Owned
    <3> QED BY <3>1, <3>2, DecoderStopList DEF MainAt
  <2>2. CASE present /\ running
    <3>1. todo'["main"] = DecoderStart BY <1>1, <2>2, MainGoes DEF AttachSurface
    <3>2. running' /\ surface' BY <1>3, <2>2 DEF AttachSurface
    <3> QED BY <3>1, <3>2, DecoderStartList DEF MainAt
  <2>3. CASE present /\ ~running
    <3>1. todo'["main"] = <<>> BY <1>1, <2>3, MainGoes DEF AttachSurface
    <3>2. Drawn' /\ Owned' BY <1>2, <1>3, <2>3 DEF Drawn, Owned
    <3> QED BY <3>1, <3>2, EmptyList DEF MainAt, Free
  <2> QED BY <2>1, <2>2, <2>3
<1> QED BY <1>3, <1>4, <1>5, QuietByMain DEF Quiet

LEMMA QuietStart ==
  ASSUME Quiet, NEW rec \in BOOLEAN, StartGroundStation(rec)
  PROVE  Quiet'
<1>1. TodoOK /\ MainAt(todo["main"]) /\ todo["main"] = <<>> BY DEF Quiet, StartGroundStation, Idle
<1>2. Drawn /\ Owned BY <1>1, MainAtService
<1>3. /\ UNCHANGED <<link, running, wakeLock, surface>>
      /\ UNCHANGED <<codec, started, primed, configuredCodec>>
      /\ UNCHANGED rxLocals
  BY DEF StartGroundStation, decoder, service
<1>4. PICK r : r = IF rec THEN RecorderStart ELSE <<>> OBVIOUS
<1>5. r \in AfterDecoder BY <1>4, RecorderLists, EmptyList DEF AfterDecoder
<1>6. PICK d : d = IF surface THEN DecoderStart ELSE <<>> OBVIOUS
<1>7. Goto("main", <<"stationStart", "svcRunning">> \o d \o r)
  BY <1>4, <1>6 DEF StartGroundStation
<1>8. TodoOK' /\ todo'["rx"] = todo["rx"] /\ todo'["main"] = <<"stationStart", "svcRunning">> \o d \o r
  BY <1>1, <1>7, MainGoes
<1>9. Drawn' /\ Owned' BY <1>2, <1>3 DEF Drawn, Owned
<1>10. MainAt(todo["main"])'
  <2>1. CASE surface
    <3>1. todo'["main"] \in StartDecoder BY <1>5, <1>6, <1>8, <2>1, StartList
    <3>2. surface' BY <1>3, <2>1
    <3> QED BY <1>9, <3>1, <3>2, Zenon DEF MainAt
  <2>2. CASE ~surface
    <3>1. todo'["main"] \in StartOnly BY <1>5, <1>6, <1>8, <2>2, StartList
    <3> QED BY <1>9, <3>1, Zenon DEF MainAt
  <2> QED BY <2>1, <2>2
<1> QED BY <1>3, <1>8, <1>10, QuietByMain DEF Quiet

LEMMA QuietAsked ==
  ASSUME Quiet, StopGroundStation \/ ToggleRecording
  PROVE  Quiet'
<1>1. TodoOK /\ MainAt(todo["main"]) /\ todo["main"] = <<>>
  BY DEF Quiet, StopGroundStation, ToggleRecording, Idle
<1>2. Drawn /\ Owned BY <1>1, MainAtService
<1>3. /\ UNCHANGED <<link, running, wakeLock, surface>>
      /\ UNCHANGED <<codec, started, primed, configuredCodec>>
      /\ UNCHANGED rxLocals
  BY DEF StopGroundStation, ToggleRecording, decoder, service
<1>4. Drawn' /\ Owned' BY <1>2, <1>3 DEF Drawn, Owned
<1>5. TodoOK' /\ todo'["rx"] = todo["rx"] /\ MainAt(todo["main"])'
  <2>1. CASE StopGroundStation
    <3>1. TodoOK' /\ todo'["rx"] = todo["rx"] /\ todo'["main"] = StopSequence
      BY <1>1, <2>1, MainGoes DEF StopGroundStation
    <3> QED BY <1>4, <3>1, StopList DEF MainAt
  <2>2. CASE ToggleRecording
    <3>1. PICK s : s = IF recording THEN RecorderStop ELSE RecorderStart OBVIOUS
    <3>2. s \in Free BY <3>1, RecorderLists DEF Free
    <3>3. TodoOK' /\ todo'["rx"] = todo["rx"] /\ todo'["main"] = s
      BY <1>1, <2>2, <3>1, MainGoes DEF ToggleRecording
    <3> QED BY <1>4, <3>2, <3>3 DEF MainAt
  <2> QED BY <2>1, <2>2
<1> QED BY <1>3, <1>5, QuietByMain DEF Quiet

LEMMA QuietStation ==
  ASSUME Quiet, StationStart \/ StationStop \/ StationJoin
  PROVE  Quiet'
<1>1. TodoOK /\ MainAt(todo["main"]) BY DEF Quiet
<1>2. /\ UNCHANGED <<running, wakeLock, surface>>
      /\ UNCHANGED <<codec, started, primed, configuredCodec>>
      /\ UNCHANGED rxLocals
  BY DEF StationStart, StationStop, StationJoin, decoder
<1>3. Drawn => Drawn' BY <1>2 DEF Drawn
<1>4. CASE StationStart
  <2>1. Begins(todo["main"], "stationStart") BY <1>4, AtBegins DEF StationStart
  <2>2. Drawn /\ Owned BY <1>1, <2>1, MainAtService
  <2>3. CASE link' = "up" /\ Skip("main", 1)
    <3>1. CASE todo["main"] \in StartDecoder /\ surface
      <4>1. TodoOK' /\ todo'["main"] \in RunningDecoder /\ todo'["rx"] = todo["rx"]
        BY <1>1, <2>3, <3>1, MainSkips DEF StartDecoder
      <4>2. surface' BY <1>2, <3>1
      <4>3. MainAt(todo["main"])' BY <1>3, <2>2, <4>1, <4>2, Zenon DEF MainAt
      <4> QED BY <1>2, <2>3, <4>1, <4>3, QuietByMain DEF Quiet
    <3>2. CASE todo["main"] \in StartOnly
      <4>1. TodoOK' /\ todo'["main"] \in RunningOnly /\ todo'["rx"] = todo["rx"]
        BY <1>1, <2>3, <3>2, MainSkips DEF StartOnly
      <4>2. MainAt(todo["main"])' BY <1>3, <2>2, <4>1, Zenon DEF MainAt
      <4> QED BY <1>2, <2>3, <4>1, <4>2, QuietByMain DEF Quiet
    <3> QED BY <1>1, <2>1, <3>1, <3>2, MainAtService
  <2>4. CASE UNCHANGED link /\ Goto("main", <<>>)
    <3>1. TodoOK' /\ todo'["main"] = <<>> /\ todo'["rx"] = todo["rx"] BY <1>1, <2>4, MainGoes
    <3>2. Owned' BY <1>2, <2>2, <2>4 DEF Owned
    <3>3. MainAt(todo["main"])' BY <1>3, <2>2, <3>1, <3>2, EmptyList DEF MainAt, Free
    <3> QED BY <1>2, <2>4, <3>1, <3>3, QuietByMain DEF Quiet
  <2> QED BY <1>4, <2>3, <2>4 DEF StationStart
<1>5. CASE StationStop
  <2>1. Begins(todo["main"], "stationStop") BY <1>5, AtBegins DEF StationStop
  <2>2. todo["main"] \in StationStops /\ Owned /\ started = {} BY <1>1, <2>1, MainAtService
  <2>3. TodoOK' /\ todo'["main"] \in Joins /\ todo'["rx"] = todo["rx"]
    BY <1>1, <1>5, <2>2, MainSkips DEF StationStops, StationStop
  <2>4. link' = IF link = "up" THEN "stopping" ELSE link BY <1>5 DEF StationStop
  <2>5. Owned' BY <1>2, <2>2, <2>4 DEF Owned
  <2>6. MainAt(todo["main"])' BY <1>2, <2>2, <2>3, <2>5 DEF MainAt, Closing
  <2> QED BY <1>2, <2>3, <2>4, <2>6, QuietByMain DEF Quiet
<1>6. CASE StationJoin
  <2>1. Begins(todo["main"], "join") BY <1>6, AtBegins DEF StationJoin
  <2>2. todo["main"] \in Joins /\ started = {} BY <1>1, <2>1, MainAtService
  <2>3. TodoOK' /\ todo'["main"] \in SvcStops /\ todo'["rx"] = todo["rx"]
    BY <1>1, <1>6, <2>2, MainSkips DEF Joins, StationJoin
  <2>4. link' = "down" /\ todo["rx"] = <<>> BY <1>6 DEF StationJoin, Idle
  <2>5. MainAt(todo["main"])' BY <1>2, <2>2, <2>3, <2>4 DEF MainAt
  <2> QED BY <1>2, <2>3, <2>4, <2>5, QuietByMain DEF Quiet
<1> QED BY <1>4, <1>5, <1>6

LEMMA FreeIncludes ==
  AfterDecoder \subseteq Free /\ Flags \subseteq Free /\ RecNulls \subseteq Free
  /\ RecCloses \subseteq Free /\ SawLast \subseteq Free /\ SawEnd \subseteq Free
  BY DEF Free, AfterDecoder

LEMMA QuietRunning ==
  ASSUME Quiet, SetRunning("svcRunning", TRUE) \/ SetRunning("svcStopped", FALSE)
  PROVE  Quiet'
<1>1. TodoOK /\ MainAt(todo["main"]) BY DEF Quiet
<1>2. /\ UNCHANGED <<link, surface>> /\ wakeLock' = running'
      /\ UNCHANGED <<codec, started, primed, configuredCodec>>
      /\ UNCHANGED rxLocals
  BY DEF SetRunning, decoder
<1>3. Skip("main", 1) BY DEF SetRunning
<1>4. CASE SetRunning("svcRunning", TRUE)
  <2>1. Begins(todo["main"], "svcRunning") BY <1>4, AtBegins DEF SetRunning
  <2>2. running' BY <1>4 DEF SetRunning
  <2>3. CASE todo["main"] \in RunningDecoder /\ surface
    <3>1. TodoOK' /\ todo'["main"] \in ReleaseStart /\ todo'["rx"] = todo["rx"]
      BY <1>1, <1>3, <2>3, MainSkips DEF RunningDecoder
    <3>2. surface' BY <1>2, <2>3
    <3>3. MainAt(todo["main"])' BY <2>2, <3>1, <3>2, Zenon DEF MainAt
    <3> QED BY <1>2, <3>1, <3>3, QuietByMain DEF Quiet
  <2>4. CASE todo["main"] \in RunningOnly /\ Drawn
    <3>1. TodoOK' /\ todo'["main"] \in AfterDecoder /\ todo'["rx"] = todo["rx"]
      BY <1>1, <1>3, <2>4, MainSkips DEF RunningOnly
    <3>2. Drawn' /\ Owned' BY <1>2, <2>2, <2>4 DEF Drawn, Owned
    <3>3. MainAt(todo["main"])' BY <3>1, <3>2, FreeIncludes DEF MainAt
    <3> QED BY <1>2, <3>1, <3>3, QuietByMain DEF Quiet
  <2> QED BY <1>1, <2>1, <2>3, <2>4, MainAtService
<1>5. CASE SetRunning("svcStopped", FALSE)
  <2>1. Begins(todo["main"], "svcStopped") BY <1>5, AtBegins DEF SetRunning
  <2>2. todo["main"] \in SvcStops /\ link = "down" /\ started = {} BY <1>1, <2>1, MainAtService
  <2>3. TodoOK' /\ todo'["main"] \in Nothing /\ todo'["rx"] = todo["rx"]
    BY <1>1, <1>3, <2>2, MainSkips DEF SvcStops
  <2>4. Drawn' /\ Owned' BY <1>2, <2>2 DEF Drawn, Owned
  <2>5. MainAt(todo["main"])' BY <2>3, <2>4 DEF MainAt, Free
  <2> QED BY <1>2, <2>3, <2>5, QuietByMain DEF Quiet
<1> QED BY <1>4, <1>5

LEMMA QuietDecoder ==
  ASSUME Quiet, DecoderField
  PROVE  Quiet'
<1>1. TodoOK /\ MainAt(todo["main"]) /\ started \subseteq {codec} /\ primed \subseteq started
      /\ wakeLock = running
  BY DEF Quiet
<1>2. UNCHANGED <<link, running, wakeLock, surface>> /\ UNCHANGED rxLocals /\ Skip("main", 1)
  BY DEF DecoderField, service
<1>3. Drawn /\ UNCHANGED started => Drawn' BY <1>2 DEF Drawn
<1>4. Owned => Owned' BY <1>2 DEF Owned
<1>5. ASSUME TodoOK', todo'["rx"] = todo["rx"], MainAt(todo["main"])',
             started' \subseteq {codec'}, primed' \subseteq started', started' \subseteq started,
             started = {} \/ configuredCodec' = configuredCodec
      PROVE  Quiet'
  BY <1>1, <1>2, <1>5, QuietByMain
<1>6. CASE Release
  <2>1. Begins(todo["main"], "release") BY <1>6, AtBegins DEF Release
  <2>2. /\ started' = started \ {codec} /\ primed' = primed \ {codec} /\ codec' = codec
        /\ configuredCodec' = configuredCodec
    BY <1>6 DEF Release
  <2>3. started' = {} /\ primed' = {} BY <1>1, <2>2
  <2>4. CASE todo["main"] \in ReleaseStart /\ running /\ surface
    <3>1. TodoOK' /\ todo'["main"] \in NullStart /\ todo'["rx"] = todo["rx"]
      BY <1>1, <1>2, <2>4, MainSkips DEF ReleaseStart
    <3>2. running' /\ surface' BY <1>2, <2>4
    <3>3. MainAt(todo["main"])' BY <2>3, <3>1, <3>2, Zenon DEF MainAt, Remaking
    <3> QED BY <1>5, <2>2, <2>3, <3>1, <3>3
  <2>5. CASE todo["main"] \in ReleaseStop /\ Owned
    <3>1. TodoOK' /\ todo'["main"] \in NullStop /\ todo'["rx"] = todo["rx"]
      BY <1>1, <1>2, <2>5, MainSkips DEF ReleaseStop
    <3>2. MainAt(todo["main"])' BY <1>4, <2>3, <2>5, <3>1, Zenon DEF MainAt, Closing
    <3> QED BY <1>5, <2>2, <2>3, <3>1, <3>2
  <2> QED BY <1>1, <2>1, <2>4, <2>5, MainAtStep
<1>7. CASE CodecNull \/ (SetDecRunning /\ At("main", "runFalse"))
  <2>1. /\ UNCHANGED <<started, primed, configuredCodec>> /\ codec' \in {codec, None}
    BY <1>7 DEF CodecNull, SetDecRunning
  <2>2. Begins(todo["main"], "codecNull") \/ Begins(todo["main"], "runFalse")
    BY <1>7, AtBegins DEF CodecNull
  <2>3. started = {} BY <1>1, <2>2, MainAtStep
  <2>4. TodoOK' /\ todo'["rx"] = todo["rx"]
    BY <1>1, <1>2, MainGoes DEF Skip
  <2>5. MainAt(todo["main"])'
    <3>1. CASE todo["main"] \in NullStart \cup RunStart /\ running /\ surface
      <4>1. todo'["main"] \in RunStart \/ todo'["main"] \in SawStart
        BY <1>1, <1>2, <3>1, MainSkips DEF NullStart, RunStart
      <4>2. running' /\ surface' BY <1>2, <3>1
      <4> QED BY <2>1, <2>3, <4>1, <4>2, Zenon DEF MainAt, Remaking
    <3>2. CASE todo["main"] \in NullFailed /\ Owned
      <4>1. todo'["main"] \in RunFailed BY <1>1, <1>2, <3>2, MainSkips DEF NullFailed
      <4> QED BY <1>4, <2>1, <2>3, <3>2, <4>1, Zenon DEF MainAt, Failing
    <3>3. CASE todo["main"] \in RunFailed /\ Owned
      <4>1. todo'["main"] \in Free BY <1>1, <1>2, <3>3, MainSkips, FreeIncludes DEF RunFailed
      <4>2. Drawn' BY <2>1, <2>3 DEF Drawn
      <4> QED BY <1>4, <3>3, <4>1, <4>2, Zenon DEF MainAt
    <3>4. CASE todo["main"] \in NullStop /\ Owned
      <4>1. todo'["main"] \in RunStop BY <1>1, <1>2, <3>4, MainSkips DEF NullStop
      <4> QED BY <1>4, <2>1, <2>3, <3>4, <4>1, Zenon DEF MainAt, Closing
    <3>5. CASE todo["main"] \in RunStop /\ Owned
      <4>1. todo'["main"] \in SawEnd \cup SawStop BY <1>1, <1>2, <3>5, MainSkips DEF RunStop
      <4>2. Drawn' /\ started' = {} BY <2>1, <2>3 DEF Drawn
      <4>3. CASE todo'["main"] \in SawEnd
        BY <1>4, <3>5, <4>2, <4>3, FreeIncludes, Zenon
        DEF MainAt
      <4>4. CASE todo'["main"] \in SawStop BY <1>4, <3>5, <4>2, <4>4, Zenon DEF MainAt, Closing
      <4> QED BY <4>1, <4>3, <4>4
    <3> QED BY <1>1, <2>2, <3>1, <3>2, <3>3, <3>4, <3>5, MainAtStep
  <2> QED BY <1>1, <1>5, <2>1, <2>3, <2>4, <2>5
<1>8. CASE SetDecRunning /\ At("main", "runTrue")
  <2>1. UNCHANGED <<codec, started, primed, configuredCodec>> BY <1>8 DEF SetDecRunning
  <2>2. todo["main"] \in RunTrues /\ Drawn /\ Owned BY <1>1, <1>8, AtBegins, MainAtStep
  <2>3. TodoOK' /\ todo'["main"] \in SawLast /\ todo'["rx"] = todo["rx"]
    BY <1>1, <1>2, <2>2, MainSkips DEF RunTrues
  <2>4. MainAt(todo["main"])' BY <1>3, <1>4, <2>1, <2>2, <2>3, FreeIncludes DEF MainAt
  <2> QED BY <1>1, <1>5, <2>1, <2>3, <2>4
<1>9. CASE SawFalse
  <2>1. UNCHANGED <<codec, started, primed, configuredCodec>> BY <1>9 DEF SawFalse
  <2>2. Begins(todo["main"], "sawFalse") BY <1>9, AtBegins DEF SawFalse
  <2>3. TodoOK' /\ todo'["rx"] = todo["rx"] BY <1>1, <1>2, MainGoes DEF Skip
  <2>4. MainAt(todo["main"])'
    <3>1. CASE todo["main"] \in SawStart /\ running /\ surface /\ started = {}
      <4>1. todo'["main"] \in Configures BY <1>1, <1>2, <3>1, MainSkips DEF SawStart
      <4>2. running' /\ surface' BY <1>2, <3>1
      <4> QED BY <2>1, <3>1, <4>1, <4>2, Zenon DEF MainAt, Remaking
    <3>2. CASE todo["main"] \in SawStop /\ Owned /\ started = {}
      <4>1. todo'["main"] \in RecStopStop BY <1>1, <1>2, <3>2, MainSkips DEF SawStop
      <4> QED BY <1>4, <2>1, <3>2, <4>1, Zenon DEF MainAt, Closing
    <3>3. CASE todo["main"] \in SawLast \cup SawEnd /\ Drawn /\ Owned
      <4>1. todo'["main"] \in AfterDecoder \cup Nothing
        BY <1>1, <1>2, <3>3, MainSkips DEF SawLast, SawEnd
      <4>2. todo'["main"] \in Free BY <4>1 DEF AfterDecoder, Free
      <4> QED BY <1>3, <1>4, <2>1, <3>3, <4>2 DEF MainAt
    <3> QED BY <1>1, <2>2, <3>1, <3>2, <3>3, MainAtStep
  <2> QED BY <1>1, <1>5, <2>1, <2>3, <2>4
<1>10. CASE Configure
  <2>1. UNCHANGED <<codec, started, primed>> BY <1>10 DEF Configure
  <2>2. todo["main"] \in Configures /\ running /\ surface /\ started = {}
    BY <1>1, <1>10, AtBegins, MainAtStep DEF Configure
  <2>3. TodoOK' /\ todo'["main"] \in Creates /\ todo'["rx"] = todo["rx"]
    BY <1>1, <1>2, <2>2, MainSkips DEF Configures
  <2>4. running' /\ surface' BY <1>2, <2>2
  <2>5. MainAt(todo["main"])' BY <2>1, <2>2, <2>3, <2>4, Zenon DEF MainAt, Remaking
  <2> QED BY <1>1, <1>5, <2>1, <2>2, <2>3, <2>5
<1> QED BY <1>6, <1>7, <1>8, <1>9, <1>10 DEF DecoderField, SetDecRunning

(* The MediaCodec that create makes is none that is still referred to. *)
LEMMA NewDecoder ==
  ASSUME TypeOK, started = {}
  PROVE  \E new \in Decoders : /\ new # active
                               /\ new = CHOOSE d \in Decoders \ {active} : d \notin started
<1>1. active \in Decoders \cup {None} BY DEF TypeOK
<1>2. \E d \in Decoders \ {active} : d \notin started BY <1>1, VideoAssumption
<1> QED BY <1>2

LEMMA QuietCreate ==
  ASSUME TypeOK, Quiet, Create
  PROVE  Quiet'
<1>1. TodoOK /\ MainAt(todo["main"]) /\ started \subseteq {codec} /\ primed \subseteq started
      /\ wakeLock = running
  BY DEF Quiet
<1>2. /\ UNCHANGED <<link, running, wakeLock, surface>> /\ UNCHANGED rxLocals
      /\ primed' = primed /\ configuredCodec' = configuredCodec
  BY DEF Create, service
<1>3. todo["main"] \in Creates /\ running /\ surface /\ started = {}
  BY <1>1, AtBegins, MainAtStep DEF Create
<1>4. PICK new \in Decoders : /\ new # active
                              /\ new = CHOOSE d \in Decoders \ {active} : d \notin started
  BY <1>3, NewDecoder
<1>5. CASE codec' = new /\ started' = started \cup {new} /\ Skip("main", 1)
  <2>1. TodoOK' /\ todo'["main"] \in RunTrues /\ todo'["rx"] = todo["rx"]
    BY <1>1, <1>3, <1>5, MainSkips DEF Creates
  <2>2. Drawn' /\ Owned' BY <1>2, <1>3 DEF Drawn, Owned
  <2>3. MainAt(todo["main"])' BY <2>1, <2>2 DEF MainAt, Free
  <2>4. started' = {new} /\ active \notin started' BY <1>3, <1>4, <1>5
  <2> QED BY <1>1, <1>2, <1>3, <1>5, <2>1, <2>3, <2>4, QuietByMain
<1>6. CASE /\ Goto("main", <<"codecNull", "runFalse">>
                           \o SubSeq(todo["main"], 4, Len(todo["main"])))
           /\ UNCHANGED <<codec, started>>
  <2>1. PICK t : t = SubSeq(todo["main"], 4, Len(todo["main"])) OBVIOUS
  <2>2. t \in AfterDecoder BY <1>3, <2>1, SkipThree DEF Creates, RunTrues, SawLast
  <2>3. t \in Steps /\ "codecNull" \in StepNames /\ "runFalse" \in StepNames
    BY <2>2, ListsAreSteps DEF StepNames
  <2>4. <<"codecNull", "runFalse">> \o t \in NullFailed
    BY <2>2, <2>3, TwoThen DEF NullFailed, RunFailed
  <2>5. TodoOK' /\ todo'["main"] \in NullFailed /\ todo'["rx"] = todo["rx"]
    BY <1>1, <1>6, <2>1, <2>4, MainGoes
  <2>6. Owned' BY <1>2, <1>3 DEF Owned
  <2>7. MainAt(todo["main"])' BY <1>3, <1>6, <2>5, <2>6, Zenon DEF MainAt, Failing
  <2> QED BY <1>1, <1>2, <1>3, <1>6, <2>5, <2>7, QuietByMain
<1> QED BY <1>4, <1>5, <1>6 DEF Create

(* The recorder's steps of the main thread. *)
LEMMA QuietMainRecorder ==
  ASSUME Quiet, RecorderStep("main")
  PROVE  Quiet'
<1>1. TodoOK /\ MainAt(todo["main"]) BY DEF Quiet
<1>2. /\ UNCHANGED <<link, running, wakeLock, surface>> /\ UNCHANGED rxLocals
      /\ UNCHANGED <<codec, started, primed, configuredCodec>>
  BY DEF RecorderStep, RecStart, RecFlag, RecStop, RecClose, RecNull, service, decoder
<1>3. Drawn /\ Owned => Drawn' /\ Owned' BY <1>2 DEF Drawn, Owned
<1>4. Owned /\ started = {} => Owned' /\ started' = {} BY <1>2 DEF Owned
<1>5. ASSUME TodoOK', todo'["rx"] = todo["rx"],
             \/ Drawn /\ Owned /\ todo'["main"] \in Free
             \/ Owned /\ started = {} /\ todo'["main"] \in Closing
      PROVE  Quiet'
  <2>1. MainAt(todo["main"])' BY <1>3, <1>4, <1>5, Zenon DEF MainAt
  <2> QED BY <1>2, <1>5, <2>1, QuietByMain DEF Quiet
<1>6. CASE RecStart("main")
  <2>1. todo["main"] \in RecStarts /\ Drawn /\ Owned
    BY <1>1, <1>6, AtBegins, MainAtService DEF RecStart
  <2>2. CASE Skip("main", 1)
    <3>1. TodoOK' /\ todo'["main"] \in Flags /\ todo'["rx"] = todo["rx"]
      BY <1>1, <2>1, <2>2, MainSkips DEF RecStarts
    <3> QED BY <1>5, <2>1, <3>1, FreeIncludes
  <2>3. CASE Skip("main", 2)
    <3>1. SubSeq(todo["main"], 3, Len(todo["main"])) \in Nothing
      BY <2>1, SkipTwo DEF RecStarts, Flags
    <3>2. Goto("main", SubSeq(todo["main"], 3, Len(todo["main"]))) BY <2>3 DEF Skip
    <3>3. TodoOK' /\ todo'["main"] \in Nothing /\ todo'["rx"] = todo["rx"]
      BY <1>1, <3>1, <3>2, MainGoes
    <3> QED BY <1>5, <2>1, <3>3 DEF Free
  <2> QED BY <1>6, <2>2, <2>3 DEF RecStart
<1>7. CASE RecFlag("main")
  <2>1. todo["main"] \in Flags /\ Drawn /\ Owned
    BY <1>1, <1>7, AtBegins, MainAtService DEF RecFlag
  <2>2. TodoOK' /\ todo'["main"] \in Nothing /\ todo'["rx"] = todo["rx"]
    BY <1>1, <1>7, <2>1, MainSkips DEF Flags, RecFlag
  <2> QED BY <1>5, <2>1, <2>2 DEF Free
<1>8. CASE RecStop("main")
  <2>1. \/ todo["main"] \in RecStops /\ Drawn /\ Owned
        \/ todo["main"] \in RecStopStop /\ Owned /\ started = {}
    BY <1>1, <1>8, AtBegins, MainAtService DEF RecStop
  <2>2. CASE Skip("main", 1)
    <3>1. TodoOK' /\ todo'["rx"] = todo["rx"] BY <1>1, <2>2, MainGoes DEF Skip
    <3>2. todo["main"] \in RecStops => todo'["main"] \in RecCloses
      BY <1>1, <2>2, MainSkips DEF RecStops
    <3>3. todo["main"] \in RecStopStop => todo'["main"] \in RecCloseStop
      BY <1>1, <2>2, MainSkips DEF RecStopStop
    <3>4. RecCloseStop \subseteq Closing BY DEF Closing
    <3> QED BY <1>5, <2>1, <3>1, <3>2, <3>3, <3>4, FreeIncludes
  <2>3. CASE Skip("main", 3)
    <3>1. Goto("main", SubSeq(todo["main"], 4, Len(todo["main"]))) BY <2>3 DEF Skip
    <3>2. PICK q : q = SubSeq(todo["main"], 4, Len(todo["main"])) OBVIOUS
    <3>3. TodoOK' /\ todo'["main"] = q /\ todo'["rx"] = todo["rx"]
      BY <1>1, <3>1, <3>2, MainGoes
    <3>4. todo["main"] \in RecStops => q \in Nothing
      BY <3>2, SkipThree DEF RecStops, RecCloses, RecNulls
    <3>5. todo["main"] \in RecStopStop => q \in StationStops
      BY <3>2, SkipThree DEF RecStopStop, RecCloseStop, RecNullStop
    <3>6. StationStops \subseteq Closing /\ Nothing \subseteq Free BY DEF Closing, Free
    <3> QED BY <1>5, <2>1, <3>3, <3>4, <3>5, <3>6
  <2> QED BY <1>8, <2>2, <2>3 DEF RecStop
<1>9. CASE RecClose("main")
  <2>1. \/ todo["main"] \in RecCloses /\ Drawn /\ Owned
        \/ todo["main"] \in RecCloseStop /\ Owned /\ started = {}
    BY <1>1, <1>9, AtBegins, MainAtService DEF RecClose
  <2>2. TodoOK' /\ todo'["rx"] = todo["rx"] BY <1>1, <1>9, MainGoes DEF Skip, RecClose
  <2>3. todo["main"] \in RecCloses => todo'["main"] \in RecNulls
    BY <1>1, <1>9, MainSkips DEF RecCloses, RecClose
  <2>4. todo["main"] \in RecCloseStop => todo'["main"] \in RecNullStop
    BY <1>1, <1>9, MainSkips DEF RecCloseStop, RecClose
  <2>5. RecNullStop \subseteq Closing BY DEF Closing
  <2> QED BY <1>5, <2>1, <2>2, <2>3, <2>4, <2>5, FreeIncludes
<1>10. CASE RecNull("main")
  <2>1. \/ todo["main"] \in RecNulls /\ Drawn /\ Owned
        \/ todo["main"] \in RecNullStop /\ Owned /\ started = {}
    BY <1>1, <1>10, AtBegins, MainAtService DEF RecNull
  <2>2. TodoOK' /\ todo'["rx"] = todo["rx"] BY <1>1, <1>10, MainGoes DEF Skip, RecNull
  <2>3. todo["main"] \in RecNulls => todo'["main"] \in Nothing
    BY <1>1, <1>10, MainSkips DEF RecNulls, RecNull
  <2>4. todo["main"] \in RecNullStop => todo'["main"] \in StationStops
    BY <1>1, <1>10, MainSkips DEF RecNullStop, RecNull
  <2>5. StationStops \subseteq Closing /\ Nothing \subseteq Free BY DEF Closing, Free
  <2> QED BY <1>5, <2>1, <2>2, <2>3, <2>4, <2>5
<1> QED BY <1>6, <1>7, <1>8, <1>9, <1>10 DEF RecorderStep

(* The steps of the rx thread. *)
LEMMA RxFree ==
  ASSUME NEW p,
         \/ p \in Nothing \/ p \in ReadCodecs \/ p \in Fails \/ p \in Checks \/ p \in RecReads
         \/ p \in RecStops \/ p \in RecCloses \/ p \in RecNulls
  PROVE  RxAt(p)'
  BY DEF RxAt

LEMMA QuietNal ==
  ASSUME Quiet, NEW b, OnVideoNal(b)
  PROVE  Quiet'
<1>1. TodoOK /\ primed \subseteq started BY DEF Quiet
<1>2. TodoOK' /\ todo'["rx"] \in ReadCodecs /\ todo'["main"] = todo["main"]
  BY <1>1, RxGoes, NalLists DEF OnVideoNal
<1>3. UNCHANGED <<service, codec, started>> /\ primed' = primed /\ link = "up"
  BY DEF OnVideoNal, decoder
<1> QED BY <1>1, <1>2, <1>3, RxFree, QuietByRx

LEMMA QuietSubmit ==
  ASSUME Quiet, ReadCodec \/ ReadRunning \/ Gate \/ SetSaw \/ Feed \/ Fail
  PROVE  Quiet'
<1>1. TodoOK /\ RxAt(todo["rx"]) /\ primed \subseteq started BY DEF Quiet
<1>2. UNCHANGED <<service, codec, started, configuredCodec>>
  BY DEF ReadCodec, ReadRunning, Gate, SetSaw, Feed, Fail, decoder
<1>3. todo["rx"] # <<>>
  BY DEF ReadCodec, ReadRunning, Gate, SetSaw, Feed, Fail, At, Idle
<1>4. primed' \subseteq started
  BY <1>1 DEF ReadCodec, ReadRunning, Gate, SetSaw, Feed, Fail, decoder
<1>5. ASSUME TodoOK', todo'["main"] = todo["main"], RxAt(todo["rx"])' PROVE Quiet'
  BY <1>2, <1>3, <1>4, <1>5, QuietByRx
<1>6. CASE Submitted
  <2>1. TodoOK' /\ todo'["rx"] \in Checks /\ todo'["main"] = todo["main"]
    BY <1>1, <1>6, RxGoes, NalLists DEF Submitted
  <2> QED BY <1>5, <2>1, RxFree
<1>7. CASE ReadCodec /\ codec # None /\ active' = codec /\ Skip("rx", 1)
  <2>1. todo["rx"] \in ReadCodecs BY <1>1, <1>7, AtBegins, RxAtStep DEF ReadCodec
  <2>2. TodoOK' /\ todo'["rx"] \in ReadRunnings /\ todo'["main"] = todo["main"]
    BY <1>1, <1>7, <2>1, RxSkips DEF ReadCodecs
  <2>3. RxAt(todo["rx"])' BY <1>7, <2>2 DEF RxAt
  <2> QED BY <1>5, <2>2, <2>3
<1>8. CASE ReadRunning /\ Skip("rx", 1) /\ UNCHANGED <<active, nal>>
  <2>1. todo["rx"] \in ReadRunnings /\ active # None
    BY <1>1, <1>8, AtBegins, RxAtStep DEF ReadRunning
  <2>2. TodoOK' /\ todo'["rx"] \in Gates /\ todo'["main"] = todo["main"]
    BY <1>1, <1>8, <2>1, RxSkips DEF ReadRunnings
  <2>3. RxAt(todo["rx"])' BY <1>8, <2>1, <2>2 DEF RxAt
  <2> QED BY <1>5, <2>2, <2>3
<1>9. CASE Gate /\ Skip("rx", 1) /\ UNCHANGED <<active, nal>>
  <2>1. todo["rx"] \in Gates /\ active # None BY <1>1, <1>9, AtBegins, RxAtStep DEF Gate
  <2>2. TodoOK' /\ todo'["rx"] \in Feeds /\ todo'["main"] = todo["main"]
    BY <1>1, <1>9, <2>1, RxSkips DEF Gates
  <2>3. RxAt(todo["rx"])' BY <1>9, <2>1, <2>2 DEF RxAt
  <2> QED BY <1>5, <2>2, <2>3
<1>10. CASE /\ Gate /\ IsKeyframe(nal, configuredCodec)
            /\ Goto("rx", <<"setSaw">> \o Tail(todo["rx"])) /\ UNCHANGED <<active, nal>>
  <2>1. todo["rx"] \in Gates /\ active # None BY <1>1, <1>10, AtBegins, RxAtStep DEF Gate
  <2>2. PICK t : t = Tail(todo["rx"]) OBVIOUS
  <2>3. t \in Feeds BY <2>1, <2>2, InBefore DEF Gates
  <2>4. t \in Steps /\ "setSaw" \in StepNames BY <2>3, InBefore DEF Feeds, StepNames
  <2>5. <<"setSaw">> \o t \in SetSaws BY <2>3, <2>4, OneThen DEF SetSaws
  <2>6. TodoOK' /\ todo'["rx"] \in SetSaws /\ todo'["main"] = todo["main"]
    BY <1>1, <1>10, <2>2, <2>5, RxGoes
  <2>7. nal' = nal /\ configuredCodec' = configuredCodec BY <1>2, <1>10
  <2>8. KeyAtHand'
    <3>1. IsKeyframe(nal', configuredCodec') BY <1>10, <2>7
    <3> QED BY <3>1 DEF KeyAtHand
  <2>9. RxAt(todo["rx"])' BY <1>10, <2>1, <2>6, <2>8, Zenon DEF RxAt
  <2> QED BY <1>5, <2>6, <2>9
<1>11. CASE SetSaw
  <2>1. todo["rx"] \in SetSaws /\ active # None BY <1>1, <1>11, AtBegins, RxAtStep DEF SetSaw
  <2>2. TodoOK' /\ todo'["rx"] \in Feeds /\ todo'["main"] = todo["main"]
    BY <1>1, <1>11, <2>1, RxSkips DEF SetSaws, SetSaw
  <2>3. active' = active BY <1>11 DEF SetSaw, rxLocals
  <2>4. RxAt(todo["rx"])' BY <2>1, <2>2, <2>3 DEF RxAt
  <2> QED BY <1>5, <2>2, <2>4
<1>12. CASE Feed /\ Goto("rx", <<"fail">>)
  <2>1. TodoOK' /\ todo'["rx"] \in Fails /\ todo'["main"] = todo["main"]
    BY <1>1, <1>12, RxGoes, NalLists
  <2> QED BY <1>5, <2>1, RxFree
<1>13. CASE ReadCodec BY <1>6, <1>7, <1>13 DEF ReadCodec
<1>14. CASE ReadRunning BY <1>6, <1>8, <1>14 DEF ReadRunning
<1>15. CASE Gate BY <1>6, <1>9, <1>10, <1>15, Zenon DEF Gate
<1>16. CASE Feed BY <1>6, <1>12, <1>16 DEF Feed
<1>17. CASE Fail BY <1>6, <1>17 DEF Fail
<1> QED BY <1>11, <1>13, <1>14, <1>15, <1>16, <1>17

LEMMA QuietWrite ==
  ASSUME Quiet, RecCheck \/ RecRead \/ RecWrite
  PROVE  Quiet'
<1>1. TodoOK /\ RxAt(todo["rx"]) /\ primed \subseteq started BY DEF Quiet
<1>2. UNCHANGED <<service, codec, started>> /\ primed' = primed
  BY DEF RecCheck, RecRead, RecWrite, decoder
<1>3. todo["rx"] # <<>> BY DEF RecCheck, RecRead, RecWrite, At, Idle
<1>4. ASSUME TodoOK', todo'["main"] = todo["main"], RxAt(todo["rx"])' PROVE Quiet'
  BY <1>1, <1>2, <1>3, <1>4, QuietByRx
<1>5. ASSUME NEW s, Goto("rx", s), s \in Nothing \/ s \in RecReads \/ s \in RecStops PROVE Quiet'
  <2>1. TodoOK' /\ todo'["rx"] = s /\ todo'["main"] = todo["main"] BY <1>1, <1>5, RxGoes
  <2> QED BY <1>4, <1>5, <2>1, RxFree
<1>6. CASE RecCheck
  <2>1. PICK s : s = IF recording THEN WriteSteps ELSE <<>> OBVIOUS
  <2>2. s \in Nothing \/ s \in RecReads BY <2>1, NalLists, EmptyList
  <2> QED BY <1>5, <1>6, <2>1, <2>2 DEF RecCheck
<1>7. CASE RecRead
  <2>1. CASE output = None BY <1>5, <1>7, <2>1, EmptyList DEF RecRead
  <2>2. CASE output # None
    <3>1. todo["rx"] \in RecReads BY <1>1, <1>7, AtBegins, RxAtStep DEF RecRead
    <3>2. Skip("rx", 1) /\ stream' = output BY <1>7, <2>2 DEF RecRead
    <3>3. TodoOK' /\ todo'["rx"] \in RecWrites /\ todo'["main"] = todo["main"]
      BY <1>1, <3>1, <3>2, RxSkips DEF RecReads
    <3>4. RxAt(todo["rx"])' BY <2>2, <3>2, <3>3 DEF RxAt
    <3> QED BY <1>4, <3>3, <3>4
  <2> QED BY <2>1, <2>2
<1>8. CASE RecWrite
  <2>1. Goto("rx", <<>>) \/ Goto("rx", RecorderStop) BY <1>8 DEF RecWrite
  <2> QED BY <1>5, <2>1, EmptyList, RecorderLists
<1> QED BY <1>6, <1>7, <1>8

LEMMA QuietRxRecorder ==
  ASSUME Quiet, RecorderStep("rx")
  PROVE  Quiet'
<1>1. TodoOK /\ RxAt(todo["rx"]) /\ primed \subseteq started BY DEF Quiet
<1>2. UNCHANGED <<service, codec, started>> /\ primed' = primed
  BY DEF RecorderStep, RecStart, RecFlag, RecStop, RecClose, RecNull, decoder
<1>3. todo["rx"] # <<>>
  BY DEF RecorderStep, RecStart, RecFlag, RecStop, RecClose, RecNull, At, Idle
<1>4. ASSUME TodoOK', todo'["main"] = todo["main"],
             todo'["rx"] \in Nothing \/ todo'["rx"] \in RecCloses \/ todo'["rx"] \in RecNulls
      PROVE  Quiet'
  BY <1>1, <1>2, <1>3, <1>4, RxFree, QuietByRx
<1>5. ~RecStart("rx") /\ ~RecFlag("rx") BY <1>1, AtBegins, RxAtStep DEF RecStart, RecFlag
<1>6. CASE RecStop("rx")
  <2>1. todo["rx"] \in RecStops BY <1>1, <1>6, AtBegins, RxAtStep DEF RecStop
  <2>2. CASE Skip("rx", 1)
    <3>1. TodoOK' /\ todo'["rx"] \in RecCloses /\ todo'["main"] = todo["main"]
      BY <1>1, <2>1, <2>2, RxSkips DEF RecStops
    <3> QED BY <1>4, <3>1
  <2>3. CASE Skip("rx", 3)
    <3>1. Goto("rx", SubSeq(todo["rx"], 4, Len(todo["rx"]))) BY <2>3 DEF Skip
    <3>2. SubSeq(todo["rx"], 4, Len(todo["rx"])) \in Nothing
      BY <2>1, SkipThree DEF RecStops, RecCloses, RecNulls
    <3>3. TodoOK' /\ todo'["rx"] \in Nothing /\ todo'["main"] = todo["main"]
      BY <1>1, <3>1, <3>2, RxGoes
    <3> QED BY <1>4, <3>3
  <2> QED BY <1>6, <2>2, <2>3 DEF RecStop
<1>7. CASE RecClose("rx")
  <2>1. todo["rx"] \in RecCloses BY <1>1, <1>7, AtBegins, RxAtStep DEF RecClose
  <2>2. TodoOK' /\ todo'["rx"] \in RecNulls /\ todo'["main"] = todo["main"]
    BY <1>1, <1>7, <2>1, RxSkips DEF RecCloses, RecClose
  <2> QED BY <1>4, <2>2
<1>8. CASE RecNull("rx")
  <2>1. todo["rx"] \in RecNulls BY <1>1, <1>8, AtBegins, RxAtStep DEF RecNull
  <2>2. TodoOK' /\ todo'["rx"] \in Nothing /\ todo'["main"] = todo["main"]
    BY <1>1, <1>8, <2>1, RxSkips DEF RecNulls, RecNull
  <2> QED BY <1>4, <2>2
<1> QED BY <1>5, <1>6, <1>7, <1>8 DEF RecorderStep

(* What Next does to the video path. *)
VideoStep ==
    \/ ThreadStep
    \/ \E present \in BOOLEAN : AttachSurface(present)
    \/ \E rec \in BOOLEAN : StartGroundStation(rec)
    \/ StopGroundStation
    \/ ToggleRecording

LEMMA NextVideo ==
  ASSUME [Next]_vars
  PROVE  VideoStep \/ UNCHANGED videoVars
<1>1. StartLink => VideoStep \/ UNCHANGED videoVars
  BY Zenon DEF StartLink, StartUdp, OpenAndStart, VideoStep
<1>2. \A m \in Managers : OnReceive(m) => VideoStep \/ UNCHANGED videoVars
  BY Zenon DEF OnReceive, OpenAndStart, VideoStep
<1>3. CASE Next
  BY <1>1, <1>2, <1>3, Zenon
     DEF Next, RequestLink, MaybeAutoStart, PermissionBroadcast, OnServiceConnected, Detach,
         OnDestroyActivity, VideoStep
<1>4. CASE UNCHANGED vars BY <1>4 DEF vars
<1> QED BY <1>3, <1>4

LEMMA QuietVideo ==
  ASSUME TypeOK, Quiet, VideoStep
  PROVE  Quiet'
<1>1. CASE MainStep
  BY <1>1, QuietStation, QuietRunning, QuietDecoder, QuietCreate DEF MainStep
<1>2. CASE RxStep BY <1>2, QuietNal, QuietSubmit, QuietWrite DEF RxStep
<1>3. CASE \E t \in Threads : RecorderStep(t)
  BY <1>3, QuietMainRecorder, QuietRxRecorder DEF Threads
<1>4. CASE \E present \in BOOLEAN : AttachSurface(present) BY <1>4, QuietAttach
<1>5. CASE \E rec \in BOOLEAN : StartGroundStation(rec) BY <1>5, QuietStart
<1>6. CASE StopGroundStation \/ ToggleRecording BY <1>6, QuietAsked
<1> QED BY <1>1, <1>2, <1>3, <1>4, <1>5, <1>6 DEF VideoStep, ThreadStep

-----------------------------------------------------------------------------
(* Locked is inductive. *)

(* A list that begins with another step. *)
LEMMA NoLock ==
  ASSUME NEW p, NEW step, Begins(p, step), step \notin {"recFlag", "recClose", "recNull"}
  PROVE  ~LockHead(p)
  BY DEF Begins, LockHead

LEMMA NothingNoLock == \A p \in Nothing : ~LockHead(p)
  BY DEF Nothing, LockHead

LEMMA AfterNoLock == \A p \in AfterDecoder : ~LockHead(p)
<1>1. \A p \in RecStarts : Begins(p, "recStart") BY Zenon DEF RecStarts, Before, Begins
<1> QED BY <1>1, NothingNoLock, NoLock DEF AfterDecoder

LEMMA FreeTails ==
  ASSUME NEW p \in Free, p # <<>>, Head(p) \notin {"recStart", "recStop", "recClose"}
  PROVE  ~LockHead(SubSeq(p, 2, Len(p)))
<1>1. CASE p \in Flags \/ p \in RecNulls \/ p \in SawEnd
  BY <1>1, TailIn, NothingNoLock DEF Flags, RecNulls, SawEnd
<1>2. CASE p \in RunTrues
  <2>1. SubSeq(p, 2, Len(p)) \in SawLast BY <1>2, TailIn DEF RunTrues
  <2>2. Begins(SubSeq(p, 2, Len(p)), "sawFalse") BY <2>1, Zenon DEF SawLast, Before, Begins
  <2> QED BY <2>2, NoLock
<1>3. CASE p \in SawLast BY <1>3, TailIn, AfterNoLock DEF SawLast
<1>4. ~(p \in RecStarts \/ p \in RecStops \/ p \in RecCloses) BY FreeHeads DEF Begins
<1> QED BY <1>1, <1>2, <1>3, <1>4, FreeHeads

LEMMA RemakingTails ==
  ASSUME NEW p, p \in Remaking \/ p \in ReleaseStart
  PROVE  ~LockHead(SubSeq(p, 2, Len(p)))
<1>1. CASE p \in ReleaseStart \/ p \in NullStart \/ p \in RunStart \/ p \in SawStart
           \/ p \in Configures
  <2>1. SubSeq(p, 2, Len(p)) \in Remaking
    BY <1>1, TailIn DEF ReleaseStart, NullStart, RunStart, SawStart, Configures, Remaking
  <2>2. PICK q : q = SubSeq(p, 2, Len(p)) OBVIOUS
  <2>3. Begins(q, "codecNull") \/ Begins(q, "runFalse") \/ Begins(q, "sawFalse")
        \/ Begins(q, "configure") \/ Begins(q, "create")
    BY <2>1, <2>2, RemakingHeads
  <2> QED BY <2>2, <2>3, NoLock
<1>2. CASE p \in Creates
  <2>1. SubSeq(p, 2, Len(p)) \in RunTrues BY <1>2, TailIn DEF Creates
  <2>2. Begins(SubSeq(p, 2, Len(p)), "runTrue") BY <2>1, Zenon DEF RunTrues, Before, Begins
  <2> QED BY <2>2, NoLock
<1> QED BY <1>1, <1>2, RemakingHeads

LEMMA ClosingTails ==
  ASSUME NEW p, p \in Closing \/ p \in ReleaseStop \/ p \in SvcStops,
         Head(p) \notin {"recStop", "recClose"}
  PROVE  ~LockHead(SubSeq(p, 2, Len(p)))
<1>0. PICK q : q = SubSeq(p, 2, Len(p)) OBVIOUS
<1>1. CASE p \in ReleaseStop \/ p \in NullStop \/ p \in SawStop \/ p \in RecNullStop
           \/ p \in StationStops
  <2>1. q \in NullStop \/ q \in RunStop \/ q \in RecStopStop \/ q \in StationStops \/ q \in Joins
    BY <1>0, <1>1, TailIn DEF ReleaseStop, NullStop, SawStop, RecNullStop, StationStops
  <2>2. q \in Closing BY <2>1 DEF Closing
  <2>3. Begins(q, "codecNull") \/ Begins(q, "runFalse") \/ Begins(q, "recStop")
        \/ Begins(q, "stationStop") \/ Begins(q, "join")
    BY <2>1, <2>2, ClosingHeads
  <2> QED BY <1>0, <2>3, NoLock
<1>2. CASE p \in RunStop
  <2>1. q \in SawEnd \/ q \in SawStop BY <1>0, <1>2, TailIn DEF RunStop
  <2>2. Begins(q, "sawFalse") BY <2>1, Zenon DEF SawEnd, SawStop, Before, Begins
  <2> QED BY <1>0, <2>2, NoLock
<1>3. CASE p \in Joins
  <2>1. q \in SvcStops BY <1>0, <1>3, TailIn DEF Joins
  <2> QED BY <1>0, <2>1, OtherHeads, NoLock
<1>4. CASE p \in SvcStops BY <1>4, TailIn, NothingNoLock DEF SvcStops
<1>5. p \in Closing => ~(p \in RecStopStop \/ p \in RecCloseStop) BY ClosingHeads DEF Begins
<1> QED BY <1>1, <1>2, <1>3, <1>4, <1>5, ClosingHeads

LEMMA StartTails ==
  ASSUME NEW p,
         p \in StartDecoder \/ p \in StartOnly \/ p \in RunningDecoder \/ p \in RunningOnly
         \/ p \in Failing
  PROVE  ~LockHead(SubSeq(p, 2, Len(p)))
<1>0. PICK q : q = SubSeq(p, 2, Len(p)) OBVIOUS
<1>1. CASE p \in StartDecoder \/ p \in StartOnly
  <2>1. q \in RunningDecoder \cup RunningOnly
    BY <1>0, <1>1, TailIn DEF StartDecoder, StartOnly
  <2> QED BY <1>0, <2>1, OtherHeads, NoLock
<1>2. CASE p \in RunningDecoder
  <2>1. q \in ReleaseStart BY <1>0, <1>2, TailIn DEF RunningDecoder
  <2> QED BY <1>0, <2>1, OtherHeads, NoLock
<1>3. CASE p \in RunningOnly \/ p \in RunFailed
  BY <1>3, TailIn, AfterNoLock DEF RunningOnly, RunFailed
<1>4. CASE p \in NullFailed
  <2>1. q \in RunFailed BY <1>0, <1>4, TailIn DEF NullFailed
  <2>2. Begins(q, "runFalse") BY <2>1, Zenon DEF RunFailed, Before, Begins
  <2> QED BY <1>0, <2>2, NoLock
<1> QED BY <1>1, <1>2, <1>3, <1>4, FailingHeads

(* Only a step of the recorder brings a thread to where the lock is held. *)
LEMMA MainTails ==
  ASSUME NEW p, MainAt(p), p # <<>>, Head(p) \notin {"recStart", "recStop", "recClose"}
  PROVE  ~LockHead(SubSeq(p, 2, Len(p)))
  BY FreeTails, RemakingTails, ClosingTails, StartTails DEF MainAt

LEMMA RxTails ==
  ASSUME NEW p, RxAt(p), p # <<>>, Head(p) \notin {"recStop", "recClose"}
  PROVE  ~LockHead(SubSeq(p, 2, Len(p)))
<1>0. PICK q : q = SubSeq(p, 2, Len(p)) OBVIOUS
<1>1. CASE p \in ReadCodecs \/ p \in ReadRunnings \/ p \in Gates \/ p \in SetSaws \/ p \in Feeds
           \/ p \in RecReads
  <2>1. q \in ReadRunnings \/ q \in Gates \/ q \in Feeds \/ q \in Checks \/ q \in RecWrites
    BY <1>0, <1>1, TailIn DEF ReadCodecs, ReadRunnings, Gates, SetSaws, Feeds, RecReads
  <2>2. Begins(q, "readRunning") \/ Begins(q, "gate") \/ Begins(q, "feed")
        \/ Begins(q, "recCheck") \/ Begins(q, "recWrite")
    BY <2>1, RxHeads, Zenon
  <2>3. PICK step \in {"readRunning", "gate", "feed", "recCheck", "recWrite"} : Begins(q, step)
    BY <2>2, Zenon
  <2> QED BY <1>0, <2>3, NoLock, SMTT(30)
<1>2. CASE p \in Fails \/ p \in Checks \/ p \in RecWrites \/ p \in RecNulls
  BY <1>2, TailIn, NothingNoLock DEF Fails, Checks, RecWrites, RecNulls
<1>3. ~(p \in RecStops \/ p \in RecCloses \/ p \in Nothing) BY RxHeads DEF Begins, Nothing
<1> QED BY <1>1, <1>2, <1>3 DEF RxAt

(* Where the recorder's steps lead. *)
LEMMA RecorderMoves ==
  ASSUME Quiet, NEW t \in Threads
  PROVE  /\ At(t, "recStart") => /\ Begins(SubSeq(todo[t], 2, Len(todo[t])), "recFlag")
                                 /\ ~LockHead(SubSeq(todo[t], 3, Len(todo[t])))
         /\ At(t, "recFlag") => ~LockHead(SubSeq(todo[t], 2, Len(todo[t])))
         /\ At(t, "recStop") => /\ Begins(SubSeq(todo[t], 2, Len(todo[t])), "recClose")
                                /\ ~LockHead(SubSeq(todo[t], 4, Len(todo[t])))
         /\ At(t, "recClose") => Begins(SubSeq(todo[t], 2, Len(todo[t])), "recNull")
         /\ At(t, "recNull") => ~LockHead(SubSeq(todo[t], 2, Len(todo[t])))
<1>0. PICK p : p = todo[t] OBVIOUS
<1>1. /\ Begins(p, "recStart") => p \in RecStarts
      /\ Begins(p, "recFlag") => p \in Flags
      /\ Begins(p, "recStop") => p \in RecStops \/ p \in RecStopStop
      /\ Begins(p, "recClose") => p \in RecCloses \/ p \in RecCloseStop
      /\ Begins(p, "recNull") => p \in RecNulls \/ p \in RecNullStop
  <2>1. CASE t = "main"
    <3>1. MainAt(p) BY <1>0, <2>1 DEF Quiet
    <3> QED BY <3>1, MainAtService
  <2>2. CASE t = "rx"
    <3>1. RxAt(p) BY <1>0, <2>2 DEF Quiet
    <3> QED BY <3>1, RxAtStep
  <2> QED BY <2>1, <2>2 DEF Threads
<1>2. \A q \in StationStops : ~LockHead(q)
  <2>1. \A q \in StationStops : Begins(q, "stationStop") BY Zenon DEF StationStops, Before, Begins
  <2> QED BY <2>1, NoLock
<1>3. ASSUME Begins(p, "recStart")
      PROVE  Begins(SubSeq(p, 2, Len(p)), "recFlag") /\ ~LockHead(SubSeq(p, 3, Len(p)))
  <2>1. SubSeq(p, 2, Len(p)) \in Flags BY <1>1, <1>3, TailIn DEF RecStarts
  <2>2. SubSeq(p, 3, Len(p)) \in Nothing BY <1>1, <1>3, SkipTwo DEF RecStarts, Flags
  <2>3. Begins(SubSeq(p, 2, Len(p)), "recFlag") BY <2>1, Zenon DEF Flags, Before, Begins
  <2> QED BY <2>2, <2>3, NothingNoLock
<1>4. Begins(p, "recFlag") => ~LockHead(SubSeq(p, 2, Len(p)))
  BY <1>1, TailIn, NothingNoLock DEF Flags
<1>5. ASSUME Begins(p, "recStop")
      PROVE  Begins(SubSeq(p, 2, Len(p)), "recClose") /\ ~LockHead(SubSeq(p, 4, Len(p)))
  <2>1. SubSeq(p, 2, Len(p)) \in RecCloses \/ SubSeq(p, 2, Len(p)) \in RecCloseStop
    BY <1>1, <1>5, TailIn DEF RecStops, RecStopStop
  <2>2. Begins(SubSeq(p, 2, Len(p)), "recClose")
    BY <2>1, Zenon DEF RecCloses, RecCloseStop, Before, Begins
  <2>3. SubSeq(p, 4, Len(p)) \in Nothing \/ SubSeq(p, 4, Len(p)) \in StationStops
    BY <1>1, <1>5, SkipThree
       DEF RecStops, RecCloses, RecNulls, RecStopStop, RecCloseStop, RecNullStop
  <2> QED BY <1>2, <2>2, <2>3, NothingNoLock
<1>6. Begins(p, "recClose") => Begins(SubSeq(p, 2, Len(p)), "recNull")
  <2>1. Begins(p, "recClose") =>
          SubSeq(p, 2, Len(p)) \in RecNulls \/ SubSeq(p, 2, Len(p)) \in RecNullStop
    BY <1>1, TailIn DEF RecCloses, RecCloseStop
  <2> QED BY <2>1, Zenon DEF RecNulls, RecNullStop, Before, Begins
<1>7. Begins(p, "recNull") => ~LockHead(SubSeq(p, 2, Len(p)))
  BY <1>1, <1>2, TailIn, NothingNoLock DEF RecNulls, RecNullStop
<1> QED BY <1>0, <1>3, <1>4, <1>5, <1>6, <1>7, AtBegins

(* A step that leaves the recorder alone. *)
LEMMA LockedKept ==
  ASSUME Locked, UNCHANGED recorder, NEW t \in Threads,
         ~LockHead(todo[t]), ~LockHead(todo'[t]), \A u \in Threads : u # t => todo'[u] = todo[u]
  PROVE  Locked'
<1>1. /\ output' = output /\ recording' = recording /\ recLock' = recLock /\ open' = open
  BY DEF recorder
<1>2. NoFileLeak' BY <1>1 DEF Locked, NoFileLeak
<1>3. ASSUME recLock # None PROVE Held(recLock)'
  <2>1. recLock \in Threads /\ recLock # t /\ Held(recLock) BY <1>3 DEF Locked, Held
  <2>2. todo'[recLock] = todo[recLock] BY <2>1
  <2> QED BY <1>1, <2>1, <2>2 DEF Held, At, Idle
<1>4. \A u \in Threads : LockHead(todo'[u]) => recLock' = u BY <1>1 DEF Locked
<1>5. recLock' \in Threads \cup {None} BY <1>1 DEF Locked
<1> QED BY <1>1, <1>2, <1>3, <1>4, <1>5 DEF Locked

LEMMA LockedByMain ==
  ASSUME Quiet, Locked, UNCHANGED recorder, ~LockHead(todo["main"]), NEW s, Goto("main", s),
         ~LockHead(s)
  PROVE  Locked'
<1>1. todo'["main"] = s /\ todo'["rx"] = todo["rx"] BY MainGoes DEF Quiet
<1>2. "main" \in Threads /\ \A u \in Threads : u # "main" => todo'[u] = todo[u]
  BY <1>1 DEF Threads
<1> QED BY <1>1, <1>2, LockedKept

LEMMA LockedByRx ==
  ASSUME Quiet, Locked, UNCHANGED recorder, ~LockHead(todo["rx"]), NEW s, Goto("rx", s),
         ~LockHead(s)
  PROVE  Locked'
<1>1. todo'["rx"] = s /\ todo'["main"] = todo["main"] BY RxGoes DEF Quiet
<1>2. "rx" \in Threads /\ \A u \in Threads : u # "rx" => todo'[u] = todo[u]
  BY <1>1 DEF Threads
<1> QED BY <1>1, <1>2, LockedKept

LEMMA LockedAsked ==
  ASSUME Quiet, Locked,
         \/ \E present \in BOOLEAN : AttachSurface(present)
         \/ \E rec \in BOOLEAN : StartGroundStation(rec)
         \/ StopGroundStation
         \/ ToggleRecording
  PROVE  Locked'
<1>1. todo["main"] = <<>> /\ UNCHANGED recorder
  BY DEF AttachSurface, StartGroundStation, StopGroundStation, ToggleRecording, Idle
<1>2. ~LockHead(todo["main"]) BY <1>1 DEF LockHead
<1>3. ASSUME NEW s, Goto("main", s), ~LockHead(s) PROVE Locked'
  BY <1>1, <1>2, <1>3, LockedByMain
<1>4. ~LockHead(DecoderStop) /\ ~LockHead(StopSequence) /\ ~LockHead(DecoderStart)
  BY DecoderStopList, StopList, DecoderStartList, OtherHeads, NoLock
<1>5. ~LockHead(RecorderStart) /\ ~LockHead(RecorderStop) /\ ~LockHead(<<>>)
  BY DEF LockHead, RecorderStart, RecorderStop
<1>6. CASE \E present \in BOOLEAN : AttachSurface(present)
  <2>1. Goto("main", DecoderStop) \/ Goto("main", DecoderStart) \/ Goto("main", <<>>)
    BY <1>6 DEF AttachSurface
  <2> QED BY <1>3, <1>4, <1>5, <2>1
<1>7. ASSUME NEW rec \in BOOLEAN, StartGroundStation(rec) PROVE Locked'
  <2>1. PICK r : r = IF rec THEN RecorderStart ELSE <<>> OBVIOUS
  <2>2. r \in AfterDecoder BY <2>1, RecorderLists, EmptyList DEF AfterDecoder
  <2>3. PICK d : d = IF surface THEN DecoderStart ELSE <<>> OBVIOUS
  <2>4. PICK s : s = <<"stationStart", "svcRunning">> \o d \o r OBVIOUS
  <2>5. s \in StartDecoder \cup StartOnly BY <2>2, <2>3, <2>4, StartList
  <2>6. Goto("main", s) BY <1>7, <2>1, <2>3, <2>4 DEF StartGroundStation
  <2> QED BY <1>3, <2>5, <2>6, OtherHeads, NoLock
<1>8. CASE StopGroundStation BY <1>3, <1>4, <1>8 DEF StopGroundStation
<1>9. CASE ToggleRecording
  <2>1. Goto("main", RecorderStop) \/ Goto("main", RecorderStart) BY <1>9 DEF ToggleRecording
  <2> QED BY <1>3, <1>5, <2>1
<1> QED BY <1>6, <1>7, <1>8, <1>9

LEMMA LockedMain ==
  ASSUME Quiet, Locked, MainStep
  PROVE  Locked'
<1>1. MainAt(todo["main"]) BY DEF Quiet
<1>2. UNCHANGED recorder
  BY DEF MainStep, StationStart, StationStop, StationJoin, SetRunning, DecoderField, Create
<1>3. PICK step \in {"stationStart", "stationStop", "join", "svcRunning", "svcStopped", "release",
                     "codecNull", "runFalse", "runTrue", "sawFalse", "configure", "create"} :
        Begins(todo["main"], step)
  BY AtBegins
     DEF MainStep, StationStart, StationStop, StationJoin, SetRunning, DecoderField, Release,
         CodecNull, SetDecRunning, SawFalse, Configure, Create
<1>4. ~LockHead(todo["main"]) BY <1>3, NoLock
<1>5. todo["main"] # <<>> /\ Head(todo["main"]) \notin {"recStart", "recStop", "recClose"}
  BY <1>3 DEF Begins
<1>6. CASE Skip("main", 1)
  <2>1. Goto("main", SubSeq(todo["main"], 2, Len(todo["main"]))) BY <1>6 DEF Skip
  <2> QED BY <1>1, <1>2, <1>4, <1>5, <2>1, MainTails, LockedByMain
<1>7. CASE Goto("main", <<>>)
  <2>1. ~LockHead(<<>>) BY DEF LockHead
  <2> QED BY <1>2, <1>4, <1>7, <2>1, LockedByMain
<1>8. CASE Goto("main", <<"codecNull", "runFalse">>
                        \o SubSeq(todo["main"], 4, Len(todo["main"]))) /\ Create
  <2>1. PICK t : t = SubSeq(todo["main"], 4, Len(todo["main"])) OBVIOUS
  <2>2. todo["main"] \in Creates BY <1>1, <1>8, AtBegins, MainAtStep DEF Create
  <2>3. t \in AfterDecoder BY <2>1, <2>2, SkipThree DEF Creates, RunTrues, SawLast
  <2>4. t \in Steps /\ "codecNull" \in StepNames /\ "runFalse" \in StepNames
    BY <2>3, ListsAreSteps DEF StepNames
  <2>5. PICK s : s = <<"codecNull", "runFalse">> \o t OBVIOUS
  <2>6. s \in NullFailed BY <2>3, <2>4, <2>5, TwoThen DEF NullFailed, RunFailed
  <2>7. Begins(s, "codecNull") BY <2>6, Zenon DEF NullFailed, Before, Begins
  <2>8. ~LockHead(s) BY <2>7, NoLock, SMTT(30)
  <2>9. Goto("main", s) BY <1>8, <2>1, <2>5
  <2> QED BY <1>2, <1>4, <2>8, <2>9, LockedByMain, SMTT(30)
<1>9. CASE Create BY <1>6, <1>8, <1>9 DEF Create
<1>10. CASE ~Create
  BY <1>6, <1>7, <1>10
  DEF MainStep, StationStart, StationStop, StationJoin, SetRunning, DecoderField
<1> QED BY <1>9, <1>10

LEMMA LockedRx ==
  ASSUME Quiet, Locked, RxStep
  PROVE  Locked'
<1>1. RxAt(todo["rx"]) BY DEF Quiet
<1>2. UNCHANGED recorder
  BY DEF RxStep, OnVideoNal, ReadCodec, ReadRunning, Gate, SetSaw, Feed, Fail, RecCheck, RecRead,
         RecWrite
<1>3. ASSUME ~LockHead(todo["rx"]), NEW s, Goto("rx", s), ~LockHead(s) PROVE Locked'
  BY <1>2, <1>3, LockedByRx
<1>4. /\ ~LockHead(<<>>) /\ ~LockHead(<<"recCheck">>) /\ ~LockHead(<<"fail">>)
      /\ ~LockHead(WriteSteps) /\ ~LockHead(RecorderStop)
  BY DEF LockHead, WriteSteps, RecorderStop
<1>5. ASSUME NEW b, OnVideoNal(b) PROVE Locked'
  <2>1. PICK s : s = <<"readCodec", "readRunning", "gate", "feed", "recCheck">> OBVIOUS
  <2>2. Begins(s, "readCodec") BY <2>1, NalLists, RxHeads, Zenon
  <2>3. todo["rx"] = <<>> /\ Goto("rx", s) BY <1>5, <2>1 DEF OnVideoNal, Idle
  <2> QED BY <1>3, <1>4, <2>2, <2>3, NoLock
<1>6. CASE ~\E b \in Nals : OnVideoNal(b)
  <2>1. PICK step \in {"readCodec", "readRunning", "gate", "setSaw", "feed", "fail", "recCheck",
                       "recRead", "recWrite"} : Begins(todo["rx"], step)
    BY <1>6, AtBegins
       DEF RxStep, ReadCodec, ReadRunning, Gate, SetSaw, Feed, Fail, RecCheck, RecRead, RecWrite
  <2>2. ~LockHead(todo["rx"]) BY <2>1, NoLock
  <2>3. todo["rx"] # <<>> /\ Head(todo["rx"]) \notin {"recStop", "recClose"} BY <2>1 DEF Begins
  <2>4. CASE Skip("rx", 1)
    <3>1. Goto("rx", SubSeq(todo["rx"], 2, Len(todo["rx"]))) BY <2>4 DEF Skip
    <3> QED BY <1>1, <1>3, <2>2, <2>3, <3>1, RxTails
  <2>5. CASE \/ Goto("rx", <<>>) \/ Goto("rx", <<"recCheck">>) \/ Goto("rx", <<"fail">>)
             \/ Goto("rx", WriteSteps) \/ Goto("rx", RecorderStop)
    BY <1>3, <1>4, <2>2, <2>5
  <2>6. CASE Goto("rx", <<"setSaw">> \o Tail(todo["rx"])) /\ Gate
    <3>1. PICK t : t = Tail(todo["rx"]) OBVIOUS
    <3>2. todo["rx"] \in Gates BY <1>1, <2>6, AtBegins, RxAtStep DEF Gate
    <3>3. t \in Feeds BY <3>1, <3>2, InBefore DEF Gates
    <3>4. t \in Steps /\ "setSaw" \in StepNames BY <3>3, InBefore DEF Feeds, StepNames
    <3>5. <<"setSaw">> \o t \in SetSaws BY <3>3, <3>4, OneThen DEF SetSaws
    <3>6. Begins(<<"setSaw">> \o t, "setSaw") BY <3>5, RxHeads, Zenon
    <3> QED BY <1>3, <2>2, <2>6, <3>1, <3>6, NoLock
  <2>7. CASE Gate BY <2>4, <2>5, <2>6, <2>7, Zenon DEF Gate, Submitted
  <2>8. CASE ReadCodec \/ ReadRunning \/ SetSaw \/ Feed \/ Fail
    BY <2>4, <2>5, <2>8 DEF ReadCodec, ReadRunning, SetSaw, Feed, Fail, Submitted
  <2>9. CASE RecCheck \/ RecRead \/ RecWrite
    BY <2>4, <2>5, <2>9 DEF RecCheck, RecRead, RecWrite
  <2> QED BY <1>6, <2>7, <2>8, <2>9 DEF RxStep
<1> QED BY <1>5, <1>6

LEMMA ThreadGoes ==
  ASSUME TodoOK, NEW t \in Threads, NEW s, Goto(t, s)
  PROVE  todo'[t] = s /\ \A u \in Threads : u # t => todo'[u] = todo[u]
  BY MainGoes, RxGoes DEF Threads

(* The thread that takes a step of the recorder holds the lock, or nobody
   does. *)
LEMMA LockMine ==
  ASSUME Quiet, Locked, NEW t \in Threads, RecorderStep(t)
  PROVE  /\ t # None /\ recLock \in {t, None}
         /\ \A u \in Threads : u # t => u # None /\ ~LockHead(todo[u])
<1>1. \A u \in Threads : u # None BY VideoAssumption DEF Threads
<1>2. recLock = None \/ LockHead(todo[t])
  BY DEF RecorderStep, RecStart, RecFlag, RecStop, RecClose, RecNull, At, Idle, LockHead
<1>3. recLock \in {t, None} BY <1>2 DEF Locked
<1> QED BY <1>1, <1>3 DEF Locked

LEMMA LockedFree ==
  ASSUME NEW t \in Threads, recLock' = None, NoFileLeak', ~LockHead(todo'[t]),
         \A u \in Threads : u # t => todo'[u] = todo[u] /\ ~LockHead(todo[u])
  PROVE  Locked'
<1>1. \A u \in Threads : ~LockHead(todo'[u]) OBVIOUS
<1> QED BY <1>1 DEF Locked

LEMMA LockedHeld ==
  ASSUME NEW t \in Threads, recLock' = t, t # None, Held(t)',
         \A u \in Threads : u # t => todo'[u] = todo[u] /\ ~LockHead(todo[u])
  PROVE  Locked'
<1>1. NoFileLeak' BY DEF NoFileLeak
<1>2. \A u \in Threads : LockHead(todo'[u]) => recLock' = u OBVIOUS
<1>3. Held(recLock)' OBVIOUS
<1> QED BY <1>1, <1>2, <1>3 DEF Locked

LEMMA LockedRecorder ==
  ASSUME Quiet, Locked, NEW t \in Threads, RecorderStep(t)
  PROVE  Locked'
<1>1. /\ t # None /\ recLock \in {t, None}
      /\ \A u \in Threads : u # t => u # None /\ ~LockHead(todo[u])
  BY LockMine
<1>2. TodoOK BY DEF Quiet
<1>3. PICK p : p = todo[t] OBVIOUS
<1>4. \A n \in {1, 2, 3} : Skip(t, n) =>
        /\ todo'[t] = SubSeq(p, n + 1, Len(p))
        /\ \A u \in Threads : u # t => todo'[u] = todo[u]
  BY <1>2, <1>3, ThreadGoes DEF Skip
<1>5. ASSUME recLock' = None, NoFileLeak', NEW n \in {1, 2, 3}, Skip(t, n),
             ~LockHead(SubSeq(p, n + 1, Len(p)))
      PROVE  Locked'
  BY <1>1, <1>4, <1>5, LockedFree
<1>6. ASSUME recLock' = t, ~recording', Skip(t, 1), NEW step \in {"recFlag", "recClose", "recNull"},
             Begins(SubSeq(p, 2, Len(p)), step),
             open' = IF step = "recNull" THEN {} ELSE {output'}
      PROVE  Locked'
  <2>0. todo'[t] = SubSeq(p, 2, Len(p))
    <3>1. todo'[t] = SubSeq(p, 1 + 1, Len(p)) BY <1>4, <1>6
    <3>2. 1 + 1 = 2 OBVIOUS
    <3> QED BY <3>1, <3>2
  <2>1. Begins(todo'[t], step) BY <1>6, <2>0
  <2>2. LockHead(todo'[t]) BY <2>1 DEF LockHead, Begins
  <2>3. At(t, "recNull")' <=> step = "recNull" BY <2>1 DEF At, Idle, Begins
  <2>4. Held(t)' BY <1>6, <2>2, <2>3 DEF Held
  <2> QED BY <1>1, <1>4, <1>6, <2>4, LockedHeld
<1>7. CASE RecStart(t)
  <2>1. /\ Begins(SubSeq(p, 2, Len(p)), "recFlag") /\ ~LockHead(SubSeq(p, 3, Len(p)))
        /\ recLock = None /\ recording' = recording
    BY <1>3, <1>7, RecorderMoves DEF RecStart
  <2>2. NoFileLeak BY DEF Locked
  <2>3. CASE /\ ~recording /\ Skip(t, 1) /\ recLock' = t
             /\ open' = open \cup {output'}
    <3>1. open = {} BY <2>1, <2>2, <2>3 DEF NoFileLeak
    <3>2. open' = {output'} BY <2>3, <3>1
    <3> QED BY <1>6, <2>1, <2>3, <3>2
  <2>4. CASE UNCHANGED <<output, open, recLock>> /\ Skip(t, 2)
    <3>1. NoFileLeak' BY <2>1, <2>2, <2>4 DEF NoFileLeak
    <3> QED BY <1>5, <2>1, <2>4, <3>1
  <2> QED BY <1>7, <2>3, <2>4 DEF RecStart
<1>8. CASE RecFlag(t)
  <2>1. ~LockHead(SubSeq(p, 2, Len(p))) BY <1>3, <1>8, RecorderMoves DEF RecFlag
  <2>2. LockHead(todo[t]) /\ ~At(t, "recNull") BY <1>8 DEF RecFlag, At, Idle, LockHead
  <2>3. Held(t) BY <1>1, <2>2 DEF Locked
  <2>4. open = {output} BY <2>2, <2>3 DEF Held
  <2>5. NoFileLeak' BY <1>8, <2>4 DEF NoFileLeak, RecFlag
  <2> QED BY <1>5, <1>8, <2>1, <2>5 DEF RecFlag
<1>9. CASE RecStop(t)
  <2>1. /\ Begins(SubSeq(p, 2, Len(p)), "recClose") /\ ~LockHead(SubSeq(p, 4, Len(p)))
        /\ recLock = None
    BY <1>3, <1>9, RecorderMoves DEF RecStop
  <2>2. NoFileLeak /\ ~recording' /\ UNCHANGED <<output, open>> BY <1>9 DEF Locked, RecStop
  <2>3. CASE recording
    <3>1. open' = {output'} BY <2>1, <2>2, <2>3 DEF NoFileLeak
    <3> QED BY <1>6, <1>9, <2>1, <2>2, <2>3, <3>1 DEF RecStop
  <2>4. CASE ~recording
    <3>1. NoFileLeak' BY <2>1, <2>2, <2>4 DEF NoFileLeak
    <3>2. recLock' = None /\ Skip(t, 3) BY <1>9, <2>1, <2>4 DEF RecStop
    <3> QED BY <1>5, <2>1, <3>1, <3>2
  <2> QED BY <2>3, <2>4
<1>10. CASE RecClose(t)
  <2>1. Begins(SubSeq(p, 2, Len(p)), "recNull") BY <1>3, <1>10, RecorderMoves DEF RecClose
  <2>2. LockHead(todo[t]) /\ ~At(t, "recNull") BY <1>10 DEF RecClose, At, Idle, LockHead
  <2>3. recLock = t /\ Held(t) BY <1>1, <2>2 DEF Locked
  <2>4. open = {output} /\ ~recording BY <2>2, <2>3 DEF Held
  <2>5. open' = {} /\ recLock' = t /\ ~recording' /\ Skip(t, 1)
    BY <1>10, <2>3, <2>4 DEF RecClose
  <2> QED BY <1>6, <2>1, <2>5
<1>11. CASE RecNull(t)
  <2>1. ~LockHead(SubSeq(p, 2, Len(p))) BY <1>3, <1>11, RecorderMoves DEF RecNull
  <2>2. LockHead(todo[t]) /\ At(t, "recNull") BY <1>11 DEF RecNull, At, Idle, LockHead
  <2>3. Held(t) BY <1>1, <2>2 DEF Locked
  <2>4. open = {} /\ ~recording BY <2>2, <2>3 DEF Held
  <2>5. NoFileLeak' BY <1>11, <2>4 DEF NoFileLeak, RecNull
  <2> QED BY <1>5, <1>11, <2>1, <2>5 DEF RecNull
<1> QED BY <1>7, <1>8, <1>9, <1>10, <1>11 DEF RecorderStep

LEMMA LockedVideo ==
  ASSUME Quiet, Locked, VideoStep
  PROVE  Locked'
<1>1. CASE MainStep \/ RxStep BY <1>1, LockedMain, LockedRx
<1>2. CASE \E t \in Threads : RecorderStep(t) BY <1>2, LockedRecorder
<1>3. CASE ~ThreadStep BY <1>3, LockedAsked DEF VideoStep
<1> QED BY <1>1, <1>2, <1>3 DEF ThreadStep

-----------------------------------------------------------------------------
(* Gated is inductive. *)

(* The steps of the main thread in which a decoder may pass what it should
   not. *)
Restarting ==
    Begins(todo["main"], "codecNull") \/ Begins(todo["main"], "runFalse")
    \/ Begins(todo["main"], "sawFalse")

LEMMA GatedIs ==
  Gated <=> \/ ~decRunning \/ ~sawKeyframe
            \/ codec \in primed
            \/ Begins(todo["rx"], "fail")
            \/ Begins(todo["rx"], "feed") /\ KeyAtHand
            \/ Restarting
  BY AtBegins DEF Gated, Restarting

LEMMA GatedIsNext ==
  Gated' <=> \/ ~decRunning' \/ ~sawKeyframe'
             \/ codec' \in primed'
             \/ Begins(todo'["rx"], "fail")
             \/ Begins(todo'["rx"], "feed") /\ KeyAtHand'
             \/ Restarting'
  BY DEF Gated, Restarting, At, Idle, Begins

(* A step of the main thread that is none of these. *)
LEMMA GatedByMain ==
  ASSUME Gated, ~Restarting, todo'["rx"] = todo["rx"], UNCHANGED <<decRunning, sawKeyframe>>,
         codec \in primed => codec' \in primed', KeyAtHand => KeyAtHand'
  PROVE  Gated'
  BY GatedIs, GatedIsNext, Zenon

(* A step of the rx thread before or behind the one that feeds. *)
LEMMA GatedByRx ==
  ASSUME Gated, todo'["main"] = todo["main"], UNCHANGED decoder,
         ~Begins(todo["rx"], "fail"), ~Begins(todo["rx"], "feed")
  PROVE  Gated'
<1>1. UNCHANGED <<codec, decRunning, sawKeyframe, primed>> BY DEF decoder
<1>2. Restarting => Restarting' BY DEF Restarting
<1> QED BY <1>1, <1>2, GatedIs, GatedIsNext, Zenon

LEMMA KeyKept ==
  ASSUME UNCHANGED rxLocals,
         active \in started' => active \in started /\ configuredCodec' = configuredCodec
  PROVE  KeyAtHand => KeyAtHand'
<1>1. active' = active /\ nal' = nal BY DEF rxLocals
<1> QED BY <1>1 DEF KeyAtHand

LEMMA NotRestarting ==
  ASSUME NEW step, Begins(todo["main"], step), step \notin {"codecNull", "runFalse", "sawFalse"}
  PROVE  ~Restarting
  BY DEF Restarting, Begins

LEMMA GatedAsked ==
  ASSUME Quiet, Gated,
         \/ \E present \in BOOLEAN : AttachSurface(present)
         \/ \E rec \in BOOLEAN : StartGroundStation(rec)
         \/ StopGroundStation
         \/ ToggleRecording
  PROVE  Gated'
<1>1. /\ todo["main"] = <<>> /\ UNCHANGED decoder /\ UNCHANGED rxLocals
      /\ \E s : Goto("main", s)
  BY DEF AttachSurface, StartGroundStation, StopGroundStation, ToggleRecording, Idle
<1>2. todo'["rx"] = todo["rx"] BY <1>1, MainGoes DEF Quiet
<1>3. UNCHANGED <<codec, decRunning, sawKeyframe, configuredCodec, started, primed>>
  BY <1>1 DEF decoder
<1>4. ~Restarting BY <1>1 DEF Restarting, Begins
<1>5. KeyAtHand => KeyAtHand' BY <1>1, <1>3, KeyKept
<1> QED BY <1>2, <1>3, <1>4, <1>5, GatedByMain

LEMMA GatedService ==
  ASSUME Quiet, Gated,
         \/ StationStart \/ StationStop \/ StationJoin
         \/ SetRunning("svcRunning", TRUE) \/ SetRunning("svcStopped", FALSE)
         \/ RecorderStep("main")
  PROVE  Gated'
<1>1. UNCHANGED decoder /\ UNCHANGED rxLocals /\ \E s : Goto("main", s)
  BY DEF StationStart, StationStop, StationJoin, SetRunning, RecorderStep, RecStart, RecFlag,
         RecStop, RecClose, RecNull, Skip
<1>2. todo'["rx"] = todo["rx"] BY <1>1, MainGoes DEF Quiet
<1>3. UNCHANGED <<codec, decRunning, sawKeyframe, configuredCodec, started, primed>>
  BY <1>1 DEF decoder
<1>4. PICK step \in {"stationStart", "stationStop", "join", "svcRunning", "svcStopped", "recStart",
                     "recFlag", "recStop", "recClose", "recNull"} : Begins(todo["main"], step)
  BY AtBegins
     DEF StationStart, StationStop, StationJoin, SetRunning, RecorderStep, RecStart, RecFlag,
         RecStop, RecClose, RecNull
<1>5. ~Restarting BY <1>4, NotRestarting
<1>6. KeyAtHand => KeyAtHand' BY <1>1, <1>3, KeyKept
<1> QED BY <1>2, <1>3, <1>5, <1>6, GatedByMain

LEMMA GatedDecoder ==
  ASSUME Quiet, Gated, DecoderField
  PROVE  Gated'
<1>1. TodoOK /\ MainAt(todo["main"]) BY DEF Quiet
<1>2. PICK p : p = todo["main"] OBVIOUS
<1>3. PICK q : q = SubSeq(p, 2, Len(p)) OBVIOUS
<1>4. todo'["main"] = q /\ todo'["rx"] = todo["rx"]
  <2>1. Goto("main", SubSeq(todo["main"], 1 + 1, Len(todo["main"]))) BY DEF DecoderField, Skip
  <2>2. 1 + 1 = 2 OBVIOUS
  <2> QED BY <1>1, <1>2, <1>3, <2>1, <2>2, MainGoes
<1>5. ASSUME \/ Begins(q, "codecNull") \/ Begins(q, "runFalse") \/ Begins(q, "sawFalse")
      PROVE  Gated'
  <2>1. Restarting' BY <1>4, <1>5 DEF Restarting
  <2> QED BY <2>1, GatedIsNext, Zenon
<1>6. CASE Release
  <2>1. p \in ReleaseStart \/ p \in ReleaseStop
    BY <1>1, <1>2, <1>6, AtBegins, MainAtStep DEF Release
  <2>2. q \in NullStart \/ q \in NullStop BY <1>3, <2>1, TailIn DEF ReleaseStart, ReleaseStop
  <2>3. Begins(q, "codecNull") BY <2>2, Zenon DEF NullStart, NullStop, Before, Begins
  <2> QED BY <1>5, <2>3
<1>7. CASE CodecNull
  <2>1. p \in NullStart \/ p \in NullFailed \/ p \in NullStop
    BY <1>1, <1>2, <1>7, AtBegins, MainAtStep DEF CodecNull
  <2>2. q \in RunStart \/ q \in RunFailed \/ q \in RunStop
    BY <1>3, <2>1, TailIn DEF NullStart, NullFailed, NullStop
  <2>3. Begins(q, "runFalse") BY <2>2, Zenon DEF RunStart, RunFailed, RunStop, Before, Begins
  <2> QED BY <1>5, <2>3
<1>8. CASE At("main", "runFalse") /\ SetDecRunning
  <2>1. ~At("main", "runTrue") BY <1>8 DEF At
  <2>2. ~decRunning' BY <1>8, <2>1 DEF SetDecRunning
  <2> QED BY <2>2, GatedIsNext, Zenon
<1>9. CASE At("main", "runTrue") /\ SetDecRunning
  <2>1. p \in RunTrues BY <1>1, <1>2, <1>9, AtBegins, MainAtStep
  <2>2. q \in SawLast BY <1>3, <2>1, TailIn DEF RunTrues
  <2>3. Begins(q, "sawFalse") BY <2>2, Zenon DEF SawLast, Before, Begins
  <2> QED BY <1>5, <2>3
<1>10. CASE SawFalse
  <2>1. ~sawKeyframe' BY <1>10 DEF SawFalse
  <2> QED BY <2>1, GatedIsNext, Zenon
<1>11. CASE Configure
  <2>1. Begins(todo["main"], "configure") BY <1>11, AtBegins DEF Configure
  <2>2. started = {} BY <1>1, <2>1, MainAtStep
  <2>3. UNCHANGED <<codec, decRunning, sawKeyframe, started, primed>> BY <1>11 DEF Configure
  <2>4. KeyAtHand => KeyAtHand' BY <2>2, <2>3, KeyKept DEF DecoderField
  <2>5. ~Restarting BY <2>1, NotRestarting
  <2> QED BY <1>4, <2>3, <2>4, <2>5, GatedByMain
<1> QED BY <1>6, <1>7, <1>8, <1>9, <1>10, <1>11 DEF DecoderField, SetDecRunning

LEMMA GatedCreate ==
  ASSUME TypeOK, Quiet, Gated, Create
  PROVE  Gated'
<1>1. TodoOK /\ MainAt(todo["main"]) /\ primed \subseteq started BY DEF Quiet
<1>2. Begins(todo["main"], "create") BY AtBegins DEF Create
<1>3. todo["main"] \in Creates /\ started = {} BY <1>1, <1>2, MainAtStep
<1>4. PICK new \in Decoders : /\ new # active
                              /\ new = CHOOSE d \in Decoders \ {active} : d \notin started
  BY <1>3, NewDecoder
<1>5. CASE codec' = new /\ started' = started \cup {new} /\ Skip("main", 1)
  <2>1. todo'["rx"] = todo["rx"] BY <1>1, <1>5, MainGoes DEF Skip
  <2>2. ~Restarting BY <1>2, NotRestarting
  <2>3. codec \notin primed BY <1>1, <1>3
  <2>4. active \notin started' BY <1>3, <1>4, <1>5
  <2>5. KeyAtHand => KeyAtHand' BY <2>4, KeyKept DEF Create
  <2>6. UNCHANGED <<decRunning, sawKeyframe>> BY DEF Create
  <2> QED BY <2>1, <2>2, <2>3, <2>5, <2>6, GatedByMain
<1>6. CASE /\ Goto("main", <<"codecNull", "runFalse">>
                           \o SubSeq(todo["main"], 4, Len(todo["main"])))
           /\ UNCHANGED <<codec, started>>
  <2>1. PICK t : t = SubSeq(todo["main"], 4, Len(todo["main"])) OBVIOUS
  <2>2. t \in AfterDecoder BY <1>3, <2>1, SkipThree DEF Creates, RunTrues, SawLast
  <2>3. t \in Steps /\ "codecNull" \in StepNames /\ "runFalse" \in StepNames
    BY <2>2, ListsAreSteps DEF StepNames
  <2>4. <<"codecNull", "runFalse">> \o t \in NullFailed
    BY <2>2, <2>3, TwoThen DEF NullFailed, RunFailed
  <2>5. todo'["main"] \in NullFailed BY <1>1, <1>6, <2>1, <2>4, MainGoes
  <2>6. Begins(todo'["main"], "codecNull") BY <2>5, Zenon DEF NullFailed, Before, Begins
  <2>7. Restarting' BY <2>6 DEF Restarting
  <2> QED BY <2>7, GatedIsNext, Zenon
<1> QED BY <1>4, <1>5, <1>6 DEF Create

LEMMA GatedRx ==
  ASSUME Quiet, Gated, RxStep \/ RecorderStep("rx")
  PROVE  Gated'
<1>1. TodoOK /\ RxAt(todo["rx"]) /\ started \subseteq {codec} BY DEF Quiet
<1>2. ASSUME NEW s, Goto("rx", s) PROVE todo'["rx"] = s /\ todo'["main"] = todo["main"]
  BY <1>1, <1>2, RxGoes
<1>3. CASE SetSaw
  <2>1. todo["rx"] \in SetSaws /\ KeyAtHand BY <1>1, <1>3, AtBegins, RxAtStep DEF SetSaw
  <2>2. todo'["rx"] \in Feeds BY <1>1, <1>3, <2>1, RxSkips DEF SetSaws, SetSaw
  <2>3. Begins(todo'["rx"], "feed") BY <2>2, RxHeads, Zenon
  <2>4. UNCHANGED <<configuredCodec, started>> /\ UNCHANGED rxLocals BY <1>3 DEF SetSaw
  <2>5. KeyAtHand' BY <2>1, <2>4, KeyKept
  <2> QED BY <2>3, <2>5, GatedIsNext, Zenon
<1>4. CASE Feed
  <2>1. Begins(todo["rx"], "feed") BY <1>4, AtBegins DEF Feed
  <2>2. ~Begins(todo["rx"], "fail") BY <2>1 DEF Begins
  <2>3. CASE Goto("rx", <<"fail">>)
    <3>1. Begins(todo'["rx"], "fail") BY <1>2, <2>3, NalLists, RxHeads
    <3> QED BY <3>1, GatedIsNext, Zenon
  <2>4. CASE /\ active \in started /\ Submitted
             /\ primed' = IF IsKeyframe(nal, configuredCodec) THEN primed \cup {active} ELSE primed
    <3>1. todo'["main"] = todo["main"] BY <1>2, <2>4 DEF Submitted
    <3>2. Restarting => Restarting' BY <3>1 DEF Restarting
    <3>3. UNCHANGED <<codec, decRunning, sawKeyframe>> BY <1>4 DEF Feed
    <3>4. codec \in primed => codec' \in primed' BY <2>4, <3>3
    <3>5. KeyAtHand => codec' \in primed' BY <1>1, <2>4, <3>3 DEF KeyAtHand
    <3> QED BY <2>2, <3>2, <3>3, <3>4, <3>5, GatedIs, GatedIsNext, Zenon
  <2> QED BY <1>4, <2>3, <2>4 DEF Feed
<1>5. CASE Fail
  <2>1. ~decRunning' BY <1>5 DEF Fail
  <2> QED BY <2>1, GatedIsNext, Zenon
<1>6. CASE \/ \E b \in Nals : OnVideoNal(b)
           \/ ReadCodec \/ ReadRunning \/ Gate \/ RecCheck \/ RecRead \/ RecWrite
           \/ RecorderStep("rx")
  <2>1. UNCHANGED decoder /\ \E s : Goto("rx", s)
    BY <1>6 DEF OnVideoNal, ReadCodec, ReadRunning, Gate, RecCheck, RecRead, RecWrite, Submitted,
                RecorderStep, RecStart, RecFlag, RecStop, RecClose, RecNull, Skip
  <2>2. ~Begins(todo["rx"], "fail") /\ ~Begins(todo["rx"], "feed")
    BY <1>6
    DEF OnVideoNal, ReadCodec, ReadRunning, Gate, RecCheck, RecRead, RecWrite, RecorderStep,
                RecStart, RecFlag, RecStop, RecClose, RecNull, At, Idle, Begins
  <2>3. todo'["main"] = todo["main"] BY <1>2, <2>1
  <2> QED BY <2>1, <2>2, <2>3, GatedByRx
<1> QED BY <1>3, <1>4, <1>5, <1>6 DEF RxStep

LEMMA GatedVideo ==
  ASSUME TypeOK, Quiet, Gated, VideoStep
  PROVE  Gated'
<1>1. CASE MainStep BY <1>1, GatedService, GatedDecoder, GatedCreate DEF MainStep
<1>2. CASE RxStep BY <1>2, GatedRx
<1>3. CASE \E t \in Threads : RecorderStep(t) BY <1>3, GatedService, GatedRx DEF Threads
<1>4. CASE ~ThreadStep BY <1>4, GatedAsked DEF VideoStep
<1> QED BY <1>1, <1>2, <1>3, <1>4 DEF ThreadStep

-----------------------------------------------------------------------------
(* TypeOK is inductive; the types of the parts of the video path first. *)
ServiceTypes ==
    link \in {"down", "up", "stopping"} /\ running \in BOOLEAN /\ wakeLock \in BOOLEAN
    /\ surface \in BOOLEAN
DecoderTypes ==
    decRunning \in BOOLEAN /\ sawKeyframe \in BOOLEAN /\ codec \in Decoders \cup {None}
    /\ started \subseteq Decoders /\ configuredCodec \in CodecNames
RecorderTypes ==
    recording \in BOOLEAN /\ output \in Files \cup {None} /\ open \subseteq Files
LocalTypes ==
    active \in Decoders \cup {None} /\ stream \in Files \cup {None} /\ nal \in Nals \cup {None}
RxKnows ==
    (At("rx", "feed") => active # None) /\ (At("rx", "recWrite") => stream # None)
AppTypes ==
    /\ receivers \cup conns \subseteq Managers /\ fd \in Managers \cup {None}
    /\ answers \in [Managers -> {"none", "yes", "no"}]

LEMMA TypeParts ==
  TypeOK <=> /\ ServiceTypes /\ DecoderTypes /\ RecorderTypes /\ LocalTypes /\ RxKnows
             /\ AppTypes /\ recLock \in Threads \cup {None}
  BY Zenon DEF TypeOK, ServiceTypes, DecoderTypes, RecorderTypes, LocalTypes, RxKnows, AppTypes

LEMMA TypePartsNext ==
  TypeOK' <=> /\ ServiceTypes' /\ DecoderTypes' /\ RecorderTypes' /\ LocalTypes' /\ RxKnows'
              /\ AppTypes' /\ recLock' \in Threads \cup {None}
  BY Zenon DEF TypeOK, ServiceTypes, DecoderTypes, RecorderTypes, LocalTypes, RxKnows, AppTypes

LEMMA ServiceTyped ==
  ASSUME ServiceTypes, VideoStep
  PROVE  ServiceTypes'
<1>1. CASE UNCHANGED service BY <1>1 DEF ServiceTypes, service
<1>2. ASSUME NEW present \in BOOLEAN, AttachSurface(present) PROVE ServiceTypes'
  BY <1>2, Zenon DEF AttachSurface, ServiceTypes
<1>3. CASE StationStart \/ StationStop \/ StationJoin
  <2>1. UNCHANGED <<running, wakeLock, surface>>
    BY <1>3
    DEF StationStart, StationStop, StationJoin
  <2>2. link' = link \/ link' \in {"down", "up", "stopping"}
    BY <1>3 DEF StationStart, StationStop, StationJoin
  <2> QED BY <2>1, <2>2 DEF ServiceTypes
<1>4. CASE SetRunning("svcRunning", TRUE) \/ SetRunning("svcStopped", FALSE)
  BY <1>4, Zenon DEF SetRunning, ServiceTypes
<1>5. \/ UNCHANGED service \/ \E present \in BOOLEAN : AttachSurface(present)
      \/ StationStart \/ StationStop \/ StationJoin
      \/ SetRunning("svcRunning", TRUE) \/ SetRunning("svcStopped", FALSE)
  BY DEF VideoStep, ThreadStep, MainStep, RxStep, RecorderStep, DecoderField, Create, RecStart,
         RecFlag, RecStop, RecClose, RecNull, OnVideoNal, ReadCodec, ReadRunning, Gate, SetSaw, Feed,
         Fail, RecCheck, RecRead, RecWrite, StartGroundStation, StopGroundStation, ToggleRecording
<1> QED BY <1>1, <1>2, <1>3, <1>4, <1>5

LEMMA DecoderTyped ==
  ASSUME TypeOK, Quiet, VideoStep
  PROVE  DecoderTypes'
<1>0. DecoderTypes BY TypeParts
<1>1. CASE UNCHANGED decoder BY <1>0, <1>1 DEF DecoderTypes, decoder
<1>2. CASE Release \/ CodecNull BY <1>0, <1>2 DEF Release, CodecNull, DecoderTypes
<1>3. CASE SetDecRunning
  <2>1. decRunning' \in BOOLEAN BY <1>3, Zenon DEF SetDecRunning, At
  <2> QED BY <1>0, <1>3, <2>1 DEF SetDecRunning, DecoderTypes
<1>4. CASE SawFalse BY <1>0, <1>4 DEF SawFalse, DecoderTypes
<1>5. CASE Configure BY <1>0, <1>5 DEF Configure, DecoderTypes
<1>6. CASE SetSaw BY <1>0, <1>6 DEF SetSaw, DecoderTypes
<1>7. CASE Feed BY <1>0, <1>7 DEF Feed, DecoderTypes
<1>8. CASE Fail BY <1>0, <1>8 DEF Fail, DecoderTypes
<1>9. CASE Create
  <2>1. started = {} BY <1>9, AtBegins, MainAtStep DEF Create, Quiet
  <2>2. PICK new \in Decoders : new = CHOOSE d \in Decoders \ {active} : d \notin started
    BY <2>1, NewDecoder
  <2>3. codec' \in Decoders \cup {None} /\ started' \subseteq Decoders
    BY <1>0, <1>9, <2>2 DEF Create, DecoderTypes
  <2>4. UNCHANGED <<decRunning, sawKeyframe, configuredCodec>> BY <1>9 DEF Create
  <2> QED BY <1>0, <2>3, <2>4 DEF DecoderTypes
<1>10. \/ UNCHANGED decoder \/ Release \/ CodecNull \/ SetDecRunning \/ SawFalse \/ Configure
       \/ SetSaw \/ Feed \/ Fail \/ Create
  BY DEF VideoStep, ThreadStep, MainStep, RxStep, RecorderStep, DecoderField, RecStart,
         RecFlag, RecStop, RecClose, RecNull, OnVideoNal, ReadCodec, ReadRunning, Gate,
         RecCheck, RecRead, RecWrite, StartGroundStation, StopGroundStation, ToggleRecording,
         AttachSurface, StationStart, StationStop, StationJoin, SetRunning
<1> QED BY <1>1, <1>2, <1>3, <1>4, <1>5, <1>6, <1>7, <1>8, <1>9, <1>10

(* A file is at hand for the recording: none is open, and at most one is
   still referred to. *)
LEMMA RecorderTyped ==
  ASSUME TypeOK, Locked, VideoStep
  PROVE  RecorderTypes'
<1>0. RecorderTypes BY TypeParts
<1>1. CASE UNCHANGED recorder BY <1>0, <1>1 DEF RecorderTypes, recorder
<1>2. ASSUME NEW t \in Threads, RecStart(t) PROVE RecorderTypes'
  <2>1. recording' = recording BY <1>2 DEF RecStart
  <2>2. CASE UNCHANGED <<output, open>> BY <1>0, <2>1, <2>2 DEF RecorderTypes
  <2>3. CASE ~recording
    <3>1. open = {} BY <1>2, <2>3 DEF RecStart, Locked, NoFileLeak
    <3>2. stream \in Files \cup {None} BY TypeParts DEF LocalTypes
    <3>3. \E f \in Files : f \notin open \cup {stream} BY <3>1, <3>2, VideoAssumption
    <3>4. PICK new \in Files : new = CHOOSE f \in Files : f \notin open \cup {stream}
      BY <3>3
    <3>5. \/ UNCHANGED <<output, open>>
          \/ output' = new /\ open' = open \cup {new}
      BY <1>2, <3>4 DEF RecStart
    <3> QED BY <1>0, <2>1, <3>5 DEF RecorderTypes
  <2> QED BY <1>2, <2>2, <2>3 DEF RecStart
<1>3. ASSUME NEW t \in Threads, RecFlag(t) \/ RecStop(t) \/ RecClose(t) \/ RecNull(t)
      PROVE  RecorderTypes'
  BY <1>0, <1>3 DEF RecFlag, RecStop, RecClose, RecNull, RecorderTypes
<1>4. UNCHANGED recorder \/ \E t \in Threads : RecorderStep(t)
  BY DEF VideoStep, ThreadStep, MainStep, RxStep, DecoderField, Create,
         OnVideoNal, ReadCodec, ReadRunning, Gate, SetSaw, Feed, Fail,
         RecCheck, RecRead, RecWrite, StartGroundStation, StopGroundStation, ToggleRecording,
         AttachSurface, StationStart, StationStop, StationJoin, SetRunning
<1> QED BY <1>1, <1>2, <1>3, <1>4 DEF RecorderStep

LEMMA LocalTyped ==
  ASSUME TypeOK, VideoStep
  PROVE  LocalTypes'
<1>0. LocalTypes /\ codec \in Decoders \cup {None} /\ output \in Files \cup {None}
  BY TypeParts DEF DecoderTypes, RecorderTypes
<1>1. CASE UNCHANGED rxLocals BY <1>0, <1>1 DEF LocalTypes, rxLocals
<1>2. ASSUME NEW b \in Nals, OnVideoNal(b) PROVE LocalTypes'
  BY <1>0, <1>2 DEF OnVideoNal, LocalTypes
<1>3. CASE ReadCodec \/ ReadRunning \/ Gate
  <2>1. stream' = stream BY <1>3 DEF ReadCodec, ReadRunning, Gate
  <2>2. active' \in {active, codec, None} /\ nal' \in {nal, None}
    BY <1>3 DEF ReadCodec, ReadRunning, Gate, Submitted
  <2> QED BY <1>0, <2>1, <2>2 DEF LocalTypes
<1>4. CASE Feed \/ Fail
  <2>1. stream' = stream /\ active' \in {active, None} /\ nal' \in {nal, None}
    BY <1>4 DEF Feed, Fail, Submitted
  <2> QED BY <1>0, <2>1 DEF LocalTypes
<1>5. CASE RecRead \/ RecWrite BY <1>0, <1>5 DEF RecRead, RecWrite, LocalTypes
<1>6. \/ UNCHANGED rxLocals
      \/ \E b \in Nals : OnVideoNal(b)
      \/ ReadCodec \/ ReadRunning \/ Gate \/ Feed \/ Fail \/ RecRead \/ RecWrite
  BY DEF VideoStep, ThreadStep, MainStep, RxStep, DecoderField, Create, RecorderStep, RecStart,
         RecFlag, RecStop, RecClose, RecNull, SetSaw, RecCheck, StartGroundStation,
         StopGroundStation, ToggleRecording, AttachSurface, StationStart, StationStop, StationJoin,
         SetRunning
<1> QED BY <1>1, <1>2, <1>3, <1>4, <1>5, <1>6

LEMMA RxKnowsNext ==
  ASSUME Quiet'
  PROVE  RxKnows'
<1>1. RxAt(todo["rx"])' BY DEF Quiet
<1>2. PICK p : p = todo'["rx"] OBVIOUS
<1>3. (Begins(p, "feed") => active' # None) /\ (Begins(p, "recWrite") => stream' # None)
  BY <1>1, <1>2, RxHeads DEF RxAt, Begins, Nothing
<1> QED BY <1>2, <1>3 DEF RxKnows, At, Idle, Begins

-----------------------------------------------------------------------------
(* The adapter's part of TypeOK, and Opened, are inductive. *)

LEMMA WaitingFinite ==
  ASSUME AppTypes
  PROVE  Waiting \subseteq Managers /\ IsFiniteSet(Waiting) /\ Cardinality(Waiting) \in Nat
<1>1. Waiting \subseteq Managers BY DEF AppTypes, Waiting
<1>2. IsFiniteSet(Waiting) BY <1>1, AppAssumption, FS_Subset
<1> QED BY <1>1, <1>2, FS_CardinalityType

(* There are more managers than may wait and be used at a time. *)
LEMMA NewManagerIs ==
  ASSUME AppTypes, Opened
  PROVE  NewManager \in Managers /\ NewManager \notin Waiting /\ NewManager # fd
<1>1. PICK W : W = Waiting OBVIOUS
<1>2. W \subseteq Managers /\ IsFiniteSet(W) /\ Cardinality(W) \in Nat
  BY <1>1, WaitingFinite
<1>3. Cardinality(W) <= MaxRequests BY <1>1 DEF Opened
<1>4. PICK V : V = W \cup {fd} OBVIOUS
<1>5. IsFiniteSet(V) /\ Cardinality(V) = IF fd \in W THEN Cardinality(W) ELSE Cardinality(W) + 1
  BY <1>2, <1>4, FS_AddElement
<1>6. Cardinality(V) \in Nat /\ Cardinality(V) <= MaxRequests + 1
  BY <1>2, <1>3, <1>5, AppAssumption
<1>7. Cardinality(Managers) \in Nat BY AppAssumption, FS_CardinalityType
<1>8. ~(Managers \subseteq V)
  <2>1. ASSUME Managers \subseteq V PROVE FALSE
    <3>1. Cardinality(Managers) <= Cardinality(V) BY <1>5, <2>1, FS_Subset
    <3> QED BY <1>6, <1>7, <3>1, AppAssumption
  <2> QED BY <2>1
<1>9. \E m \in Managers : m \notin V BY <1>8
<1>10. \E m \in Managers : m \notin Waiting \cup {fd} BY <1>1, <1>4, <1>9
<1> QED BY <1>10, Zenon DEF NewManager

(* openFileDescriptor and startGroundStation, for a manager that nothing else
   refers to. *)
LEMMA OpenedStart ==
  ASSUME AppTypes, Opened, NEW m \in Managers, m # fd, m \notin receivers, OpenAndStart(m),
         receivers' = receivers, answers' = [answers EXCEPT ![m] = "none"]
  PROVE  AppTypes' /\ Opened'
<1>1. answers' \in [Managers -> {"none", "yes", "no"}] BY DEF AppTypes
<1>2. \A n \in Managers : answers'[n] = IF n = m THEN "none" ELSE answers[n] BY DEF AppTypes
<1>3. Waiting' \subseteq Waiting /\ m \notin Waiting' BY <1>2 DEF Waiting
<1>4. \A n \in receivers' : answers'[n] = "none" BY <1>2 DEF Opened, AppTypes
<1>5. Cardinality(Waiting') <= MaxRequests
  <2>1. IsFiniteSet(Waiting) /\ Cardinality(Waiting) \in Nat BY WaitingFinite
  <2>2. IsFiniteSet(Waiting') /\ Cardinality(Waiting') <= Cardinality(Waiting)
    BY <1>3, <2>1, FS_Subset
  <2>3. Cardinality(Waiting') \in Nat BY <2>2, FS_CardinalityType
  <2>4. Cardinality(Waiting) <= MaxRequests BY DEF Opened
  <2> QED BY <2>1, <2>2, <2>3, <2>4, AppAssumption
<1>6. CASE fd' = fd /\ (conns' = conns \ {m} \/ conns' = conns \cup ({m} \cap {fd}))
  <2>1. AppTypes' BY <1>1, <1>6 DEF AppTypes
  <2>2. fd' # None => fd' \in conns' BY <1>6 DEF Opened
  <2>3. fd' \notin Waiting' BY <1>3, <1>6 DEF Opened
  <2> QED BY <1>4, <1>5, <2>1, <2>2, <2>3 DEF Opened
<1>7. CASE fd' = m /\ conns' = {m}
  <2>1. AppTypes' BY <1>1, <1>7 DEF AppTypes
  <2> QED BY <1>3, <1>4, <1>5, <1>7, <2>1 DEF Opened
<1> QED BY <1>6, <1>7 DEF OpenAndStart

LEMMA OpenedKept ==
  ASSUME AppTypes, Opened, UNCHANGED <<receivers, answers, conns>>, fd' = fd \/ fd' = None
  PROVE  AppTypes' /\ Opened'
<1>1. AppTypes' BY DEF AppTypes
<1>2. Waiting' = Waiting BY DEF Waiting
<1>3. None \notin Waiting BY WaitingFinite, AppAssumption
<1> QED BY <1>1, <1>2, <1>3 DEF Opened

LEMMA OpenedLink ==
  ASSUME AppTypes, Opened, StartLink, answers' = answers
  PROVE  AppTypes' /\ Opened'
<1>1. PICK m : m = NewManager OBVIOUS
<1>2. m \in Managers /\ m \notin Waiting /\ m # fd BY <1>1, NewManagerIs
<1>3. m \notin receivers /\ answers[m] = "none" BY <1>2 DEF Waiting
<1>4. CASE StartUdp BY <1>4, OpenedKept DEF StartUdp
<1>5. CASE OpenAndStart(NewManager) /\ UNCHANGED receivers
  <2>1. answers' = [answers EXCEPT ![m] = "none"] BY <1>2, <1>3 DEF AppTypes
  <2> QED BY <1>1, <1>2, <1>3, <1>5, <2>1, OpenedStart
<1>6. CASE /\ Cardinality(Waiting) < MaxRequests /\ receivers' = receivers \cup {NewManager}
           /\ UNCHANGED <<videoVars, conns, fd>>
  <2>1. AppTypes' BY <1>1, <1>2, <1>6 DEF AppTypes
  <2>2. Waiting' = Waiting \cup {m} BY <1>1, <1>6 DEF Waiting
  <2>3. Cardinality(Waiting') <= MaxRequests
    <3>1. IsFiniteSet(Waiting) /\ Cardinality(Waiting) \in Nat BY WaitingFinite
    <3>2. Cardinality(Waiting') = Cardinality(Waiting) + 1 BY <1>2, <2>2, <3>1, FS_AddElement
    <3> QED BY <1>6, <3>1, <3>2, AppAssumption
  <2>4. \A n \in receivers' : answers'[n] = "none" BY <1>1, <1>3, <1>6 DEF Opened
  <2>5. fd' \notin Waiting' BY <1>2, <1>6, <2>2 DEF Opened
  <2> QED BY <1>6, <2>1, <2>3, <2>4, <2>5 DEF Opened
<1> QED BY <1>4, <1>5, <1>6 DEF StartLink

LEMMA OpenedBroadcast ==
  ASSUME AppTypes, Opened, NEW yes \in BOOLEAN, PermissionBroadcast(yes)
  PROVE  AppTypes' /\ Opened'
<1>1. PICK word \in {"yes", "no"} : word = IF yes THEN "yes" ELSE "no" OBVIOUS
<1>2. answers' = [m \in Managers |-> IF m \in receivers THEN word ELSE answers[m]]
  BY <1>1 DEF PermissionBroadcast
<1>3. receivers' = {} /\ UNCHANGED <<conns, fd>> BY DEF PermissionBroadcast
<1>4. AppTypes' BY <1>2, <1>3 DEF AppTypes
<1>5. Waiting' = Waiting BY <1>2, <1>3 DEF Waiting, AppTypes
<1> QED BY <1>3, <1>4, <1>5 DEF Opened

LEMMA OpenedReceive ==
  ASSUME AppTypes, Opened, NEW m \in Managers, OnReceive(m)
  PROVE  AppTypes' /\ Opened'
<1>1. m \in Waiting /\ m \notin receivers BY DEF OnReceive, Waiting, Opened
<1>2. m # fd BY <1>1 DEF Opened
<1>3. receivers' = receivers /\ answers' = [answers EXCEPT ![m] = "none"] BY DEF OnReceive
<1>4. CASE OpenAndStart(m) BY <1>1, <1>2, <1>3, <1>4, OpenedStart
<1>5. CASE UNCHANGED <<videoVars, conns, fd>>
  <2>1. AppTypes' BY <1>3, <1>5 DEF AppTypes
  <2>2. Waiting' \subseteq Waiting BY <1>3 DEF Waiting, AppTypes
  <2>3. IsFiniteSet(Waiting) /\ Cardinality(Waiting) \in Nat BY WaitingFinite
  <2>4. IsFiniteSet(Waiting') /\ Cardinality(Waiting') <= Cardinality(Waiting)
    BY <2>2, <2>3, FS_Subset
  <2>5. Cardinality(Waiting') \in Nat BY <2>4, FS_CardinalityType
  <2>6. Cardinality(Waiting') <= MaxRequests
    <3>1. Cardinality(Waiting) <= MaxRequests BY DEF Opened
    <3> QED BY <2>3, <2>4, <2>5, <3>1, AppAssumption
  <2>7. \A n \in receivers' : answers'[n] = "none" BY <1>3 DEF Opened, AppTypes
  <2> QED BY <1>5, <2>1, <2>2, <2>6, <2>7 DEF Opened
<1> QED BY <1>4, <1>5 DEF OnReceive

LEMMA OpenedDestroy ==
  ASSUME AppTypes, Opened, OnDestroyActivity
  PROVE  AppTypes' /\ Opened'
<1>1. receivers' = {} /\ answers' = NoAnswers /\ UNCHANGED <<conns, fd>> BY DEF OnDestroyActivity
<1>2. AppTypes' BY <1>1 DEF AppTypes, NoAnswers
<1>3. Waiting' = {} BY <1>1 DEF Waiting, NoAnswers
<1>4. Cardinality({}) <= MaxRequests BY FS_EmptySet, AppAssumption
<1> QED BY <1>1, <1>2, <1>3, <1>4 DEF Opened

LEMMA OpenedNext ==
  ASSUME AppTypes, Opened, [Next]_vars
  PROVE  AppTypes' /\ Opened'
<1>1. CASE UNCHANGED appVars BY <1>1, OpenedKept DEF appVars
<1>2. CASE RequestLink \/ MaybeAutoStart
  BY <1>2, OpenedLink DEF RequestLink, MaybeAutoStart
<1>3. CASE \E yes \in BOOLEAN : PermissionBroadcast(yes) BY <1>3, OpenedBroadcast
<1>4. CASE \E m \in Managers : OnReceive(m) BY <1>4, OpenedReceive
<1>5. CASE OnServiceConnected \/ Detach BY <1>5, OpenedKept DEF OnServiceConnected, Detach
<1>6. CASE OnDestroyActivity BY <1>6, OpenedDestroy
<1> QED BY <1>1, <1>2, <1>3, <1>4, <1>5, <1>6, Zenon DEF Next, vars

-----------------------------------------------------------------------------
(* IInv is an invariant. *)

LEMMA IInvInit ==
  ASSUME Init
  PROVE  IInv
<1>1. VideoInit /\ receivers = {} /\ answers = NoAnswers /\ conns = {} /\ fd = None BY DEF Init
<1>2. todo["main"] = <<>> /\ todo["rx"] = <<>> /\ TodoOK
  BY <1>1 DEF VideoInit, Threads, TodoOK
<1>4. ServiceTypes /\ DecoderTypes /\ RecorderTypes
  BY <1>1, Zenon DEF VideoInit, ServiceTypes, DecoderTypes, RecorderTypes, CodecNames
<1>5. LocalTypes /\ recLock = None BY <1>1 DEF VideoInit, LocalTypes
<1>6. RxKnows BY <1>2 DEF RxKnows, At, Idle
<1>7. AppTypes BY <1>1 DEF AppTypes, NoAnswers
<1>8. TypeOK BY <1>4, <1>5, <1>6, <1>7, TypeParts, Zenon
<1>9. Quiet
  <2>1. Drawn /\ Owned /\ wakeLock = running /\ started = {} /\ primed = {}
    BY <1>1 DEF VideoInit, Drawn, Owned
  <2>2. MainAt(todo["main"]) BY <1>2, <2>1, EmptyList DEF MainAt, Free
  <2>3. RxAt(todo["rx"]) BY <1>2, EmptyList DEF RxAt
  <2> QED BY <1>2, <2>1, <2>2, <2>3 DEF Quiet
<1>10. Locked
  <2>1. NoFileLeak BY <1>1 DEF VideoInit, NoFileLeak
  <2>2. \A t \in Threads : ~LockHead(todo[t]) BY <1>2 DEF Threads, LockHead
  <2> QED BY <1>5, <2>1, <2>2 DEF Locked
<1>11. Gated BY <1>1 DEF VideoInit, Gated
<1>12. Opened
  <2>1. Waiting = {} BY <1>1 DEF Waiting, NoAnswers
  <2>2. Cardinality({}) <= MaxRequests BY FS_EmptySet, AppAssumption
  <2> QED BY <1>1, <2>1, <2>2 DEF Opened
<1> QED BY <1>8, <1>9, <1>10, <1>11, <1>12 DEF IInv

(* A step that leaves the video path alone. *)
LEMMA VideoKept ==
  ASSUME TypeOK, Quiet, Locked, Gated, UNCHANGED videoVars
  PROVE  /\ Quiet' /\ Locked' /\ Gated'
         /\ ServiceTypes' /\ DecoderTypes' /\ RecorderTypes' /\ LocalTypes'
<1>1. todo' = todo /\ UNCHANGED service /\ UNCHANGED decoder /\ UNCHANGED recorder
      /\ UNCHANGED rxLocals
  BY DEF videoVars
<1>2. UNCHANGED <<link, running, wakeLock, surface>> BY <1>1 DEF service
<1>3. UNCHANGED <<codec, decRunning, sawKeyframe, configuredCodec, started, primed>>
  BY <1>1 DEF decoder
<1>4. UNCHANGED <<output, recording, recLock, open>> BY <1>1 DEF recorder
<1>5. UNCHANGED <<nal, active, stream>> BY <1>1 DEF rxLocals
<1>6. Quiet'
  <2>1. MainAt(todo["main"])' BY <1>1, <1>2, <1>3, MainKept DEF Quiet
  <2>2. TodoOK' BY <1>1 DEF Quiet, TodoOK
  <2> QED BY <1>1, <1>2, <1>3, <2>1, <2>2, QuietByMain DEF Quiet
<1>7. Locked' BY <1>1, <1>4 DEF Locked, NoFileLeak, Held, At, Idle
<1>8. Gated'
  <2>1. KeyAtHand => KeyAtHand' BY <1>1, <1>3, KeyKept
  <2>2. Restarting => Restarting' BY <1>1 DEF Restarting
  <2> QED BY <1>1, <1>3, <2>1, <2>2, GatedIs, GatedIsNext, Zenon
<1>9. ServiceTypes' /\ DecoderTypes' /\ RecorderTypes' /\ LocalTypes'
  <2>1. ServiceTypes /\ DecoderTypes /\ RecorderTypes /\ LocalTypes BY TypeParts
  <2>2. ServiceTypes' BY <1>2, <2>1 DEF ServiceTypes
  <2>3. DecoderTypes' BY <1>3, <2>1 DEF DecoderTypes
  <2>4. RecorderTypes' BY <1>4, <2>1 DEF RecorderTypes
  <2>5. LocalTypes' BY <1>5, <2>1 DEF LocalTypes
  <2> QED BY <2>2, <2>3, <2>4, <2>5
<1> QED BY <1>6, <1>7, <1>8, <1>9

LEMMA IInvNext ==
  ASSUME IInv, [Next]_vars
  PROVE  IInv'
<1>1. TypeOK /\ Quiet /\ Locked /\ Gated /\ Opened BY DEF IInv
<1>2. AppTypes' /\ Opened' BY <1>1, TypeParts, OpenedNext
<1>3. /\ Quiet' /\ Locked' /\ Gated'
      /\ ServiceTypes' /\ DecoderTypes' /\ RecorderTypes' /\ LocalTypes'
  <2>1. CASE VideoStep
    <3>1. Quiet' /\ Locked' /\ Gated' BY <1>1, <2>1, QuietVideo, LockedVideo, GatedVideo
    <3>2. ServiceTypes' BY <1>1, <2>1, TypeParts, ServiceTyped
    <3>3. DecoderTypes' /\ RecorderTypes' /\ LocalTypes'
      BY <1>1, <2>1, DecoderTyped, RecorderTyped, LocalTyped
    <3> QED BY <3>1, <3>2, <3>3
  <2>2. CASE UNCHANGED videoVars BY <1>1, <2>2, VideoKept
  <2> QED BY <2>1, <2>2, NextVideo
<1>4. RxKnows' BY <1>3, RxKnowsNext
<1>5. recLock' \in Threads \cup {None} BY <1>3 DEF Locked
<1>6. TypeOK' BY <1>2, <1>3, <1>4, <1>5, TypePartsNext, Zenon
<1> QED BY <1>2, <1>3, <1>6 DEF IInv

(* IInv holds in every state of the app. *)
THEOREM Invariant == Spec => []IInv
<1>1. Init => IInv BY IInvInit
<1>2. IInv /\ [Next]_vars => IInv' BY IInvNext
<1> QED BY <1>1, <1>2, PTL DEF Spec

(* The state of the app has its types, a new MediaCodec, file or adapter
   manager is always to be had, and submitNal and write never use a codec or
   a stream that is null (VideoDecoder.kt, VideoRecorder.kt). *)
THEOREM AppTyped == Spec => []TypeOK
<1>1. IInv => TypeOK BY DEF IInv
<1> QED BY <1>1, Invariant, PTL

(* Whatever the rx thread was doing while the service was started and stopped
   and the surface came and went: between two operations of the main thread
   only the current MediaCodec is started, and none without a surface and a
   link; a service that is not running holds no wake lock and has no native
   thread left (GroundStationService.stopGroundStation, attachSurface). *)
THEOREM QuietWhenStopped == Spec => []StoppedIsQuiet
<1>1. IInv => StoppedIsQuiet
  <2>1. SUFFICES ASSUME IInv, Idle("main") PROVE
          /\ started \subseteq {codec} /\ (~surface \/ ~running => started = {})
          /\ wakeLock = running /\ (~running => link = "down" /\ Idle("rx"))
    BY DEF StoppedIsQuiet
  <2>2. Quiet /\ todo["main"] = <<>> BY <2>1 DEF IInv, Idle
  <2>3. Drawn /\ Owned BY <2>2, MainAtService DEF Quiet
  <2> QED BY <2>2, <2>3 DEF Quiet, Drawn, Owned, Idle
<1> QED BY <1>1, Invariant, PTL

(* The recorder closes every file it opens, although the main thread toggles
   recordings while the rx thread stops them: while nobody is inside start or
   stop, the one open file is that of the recording (VideoRecorder.start,
   stop). *)
THEOREM FilesClosed == Spec => []NoFileLeak
<1>1. IInv => NoFileLeak BY DEF IInv, Locked
<1> QED BY <1>1, Invariant, PTL

(* Once start has returned, and between two NAL units, a decoder that passes
   everything has been offered a keyframe since it was made, although
   submitNal reads and writes the decoder's fields without its lock while
   start and stop run (VideoDecoder.submitNal, start, stop). *)
THEOREM KeyframeFirst == Spec => []GateSettled
<1>1. IInv => GateSettled
  <2>1. SUFFICES ASSUME IInv, Idle("main"), Idle("rx"), decRunning, sawKeyframe
                 PROVE  codec \in primed
    BY DEF GateSettled
  <2>2. \A step : ~At("main", step) /\ ~At("rx", step) BY <2>1 DEF At
  <2> QED BY <2>1, <2>2 DEF IInv, Gated
<1> QED BY <1>1, Invariant, PTL

(* The station never works on a descriptor whose connection was closed,
   however often a link is asked for and however late a permission is
   answered (UsbAdapterManager.openFileDescriptor, MainActivity.startLink). *)
THEOREM DescriptorOpen == Spec => []FdValid
<1>1. IInv => FdValid BY DEF IInv, Opened, FdValid
<1> QED BY <1>1, Invariant, PTL

===============================================================================
