------------------------- MODULE SessionKeys_proofs -------------------------
(***************************************************************************)
(* Proofs about WfbReceiver and SessionKeys: what the receiver accounts    *)
(* for, and which keys it and the air unit hold, for every link, every     *)
(* set of channels on the air, any number of RF paths, frames and key      *)
(* pairs.                                                                  *)
(***************************************************************************)
EXTENDS SessionKeys, FiniteSetTheorems, SequenceTheorems, WellFoundedInduction, TLAPS

(* A set of natural numbers has a least one. *)
LEMMA LeastNatural ==
  ASSUME NEW T \in SUBSET Nat, T # {}
  PROVE  \E x \in T : \A y \in T : x <= y
<1> DEFINE R == OpToRel(<, Nat)
<1>1. IsWellFoundedOn(R, Nat) BY NatLessThanWellFounded, Zenon
<1>2. \A x, y \in Nat : <<y, x>> \in R <=> y < x BY DEF OpToRel
<1> HIDE DEF R
<1>3. PICK x \in T : \A y \in T : ~(<<y, x>> \in R) BY <1>1, WFMin, Zenon
<1>4. \A y \in T : ~(y < x) BY <1>2, <1>3
<1> QED BY <1>4
-----------------------------------------------------------------------------
(* The key files.  Once gs.key is written, and as long as nothing was lost,
   it holds the pair of the call; after a call that returned true both files
   do. *)
FilesInv ==
    /\ writer = Idle \/ writer \in [at : {"gs", "gsOpen", "drone", "droneOpen"}, pair : Fresh]
    /\ writer.at \in {"drone", "droneOpen"} /\ ~lost => gsKey = GsFile(writer.pair)
    /\ result = "ok" => writer = Idle
    /\ result = "ok" /\ ~lost =>
          \E p \in Fresh : gsKey = GsFile(p) /\ droneKey = DroneFile(p)

(* All that was to be written. *)
LEMMA WholeFiles ==
  ASSUME NEW p
  PROVE  /\ SubSeq(GsFile(p), 1, kKeyFileSize) = GsFile(p)
         /\ SubSeq(DroneFile(p), 1, kKeyFileSize) = DroneFile(p)
<1>1. ASSUME NEW a, NEW b PROVE SubSeq(<<a, b>>, 1, 2) = <<a, b>>
  <2>1. <<a, b>> \in Seq({a, b}) /\ Len(<<a, b>>) = 2 OBVIOUS
  <2> QED BY <2>1, SubSeqFull
<1> QED BY <1>1, Zenon DEF GsFile, DroneFile, kKeyFileSize

(* The actions that have nothing to do with GenerateKeyPair. *)
LEMMA FilesUnchanged ==
  ASSUME FilesInv, UNCHANGED <<gsKey, droneKey, writer, result, lost>>
  PROVE  FilesInv'
BY DEF FilesInv

LEMMA FilesStep ==
  ASSUME FilesInv, KeysNext
  PROVE  FilesInv'
<1>1. ASSUME NEW p \in Fresh, GenerateKeyPair(p) PROVE FilesInv'
  BY <1>1 DEF GenerateKeyPair, FilesInv, Idle, files
<1>2. CASE Open
  BY <1>2 DEF Open, FilesInv, Idle
<1>3. CASE Flush
  <2>1. writer \in [at : {"gsOpen", "droneOpen"}, pair : Fresh]
    BY <1>3 DEF Flush, FilesInv, Idle
  <2>2. PICK n \in 0..kKeyFileSize :
           /\ gsKey' = IF writer.at = "gsOpen"
                       THEN SubSeq(GsFile(writer.pair), 1, n) ELSE gsKey
           /\ droneKey' = IF writer.at = "droneOpen"
                          THEN SubSeq(DroneFile(writer.pair), 1, n) ELSE droneKey
           /\ lost' = (lost \/ n < kKeyFileSize)
    BY <1>3 DEF Flush
  <2>3. ~lost' => ~lost /\ n = kKeyFileSize
    <3>1. ~lost' => ~lost /\ ~(n < kKeyFileSize) BY <2>2, Zenon
    <3> QED BY <3>1 DEF kKeyFileSize
  <2>4. CASE writer.at = "gsOpen"
    <3>1. writer' = [writer EXCEPT !.at = "drone"] /\ result' = result
      BY <1>3, <2>4 DEF Flush
    <3>2. result # "ok" BY <2>1 DEF FilesInv, Idle
    <3>3. ~lost' => gsKey' = GsFile(writer.pair) BY <2>2, <2>3, <2>4, WholeFiles
    <3> QED BY <2>1, <3>1, <3>2, <3>3 DEF FilesInv
  <2>5. CASE writer.at = "droneOpen"
    <3>1. writer' = Idle /\ gsKey' = gsKey BY <1>3, <2>2, <2>5 DEF Flush
    <3>2. ~lost' => gsKey' = GsFile(writer.pair) /\ droneKey' = DroneFile(writer.pair)
      BY <2>2, <2>3, <2>5, <3>1, WholeFiles DEF FilesInv
    <3> QED BY <2>1, <3>1, <3>2 DEF FilesInv, Idle
  <2> QED BY <2>1, <2>4, <2>5
<1>4. CASE Crash BY <1>4 DEF Crash, FilesInv, Idle, files
<1>5. CASE CopyToAir BY <1>5, FilesUnchanged DEF CopyToAir
<1>6. CASE AddStream \/ DropReceiver
  BY <1>6, FilesUnchanged DEF AddStream, DropReceiver, files
<1>7. ASSUME NEW f, NEW rssi, Receive(f, rssi) PROVE FilesInv'
  BY <1>7, FilesUnchanged DEF Receive
<1>8. CASE Report BY <1>8, FilesUnchanged DEF Report, keyVars
<1> QED BY <1>1, <1>2, <1>3, <1>4, <1>5, <1>6, <1>7, <1>8 DEF KeysNext

(* Whenever the process was killed before and whatever a full disk left in
   the files: a call of GenerateKeyPair that returns true, and lost nothing
   in fclose, leaves two files that open each other (session_keys.cpp:60-106). *)
THEOREM GeneratedKeysPair == KeysSpec => []KeysPair
<1>1. KeysInit => FilesInv BY DEF KeysInit, FilesInv, Idle
<1>2. FilesInv /\ [KeysNext]_<<vars, keyVars>> => FilesInv'
  BY FilesStep, FilesUnchanged DEF keyVars
<1>3. FilesInv => KeysPair
  <2> SUFFICES ASSUME FilesInv, result = "ok", ~lost
               PROVE  ValidateGsKey(gsKey) /\ Loads(gsKey) /\ Opens(gsKey, droneKey)
    BY DEF KeysPair
  <2>1. PICK p \in Fresh : gsKey = GsFile(p) /\ droneKey = DroneFile(p) BY DEF FilesInv
  <2>2. gsKey # Absent /\ droneKey # Absent BY <2>1, KeysAssumption
  <2>3. Len(gsKey) = 2 /\ Len(droneKey) = 2 BY <2>1 DEF GsFile, DroneFile
  <2>4. Counterpart(gsKey[1], droneKey[2]) /\ Counterpart(droneKey[1], gsKey[2])
    BY <2>1 DEF GsFile, DroneFile, Key, Counterpart
  <2> QED BY <2>2, <2>3, <2>4 DEF ValidateGsKey, Loads, Opens, kKeyFileSize
<1> QED BY <1>1, <1>2, <1>3, PTL DEF KeysSpec
-----------------------------------------------------------------------------
(* What the aggregator makes of a packet. *)
LEMMA PacketFacts ==
  ASSUME NEW p \in ProcessPacket
  PROVE  /\ p.add \in [Counters -> Nat]
         /\ p.add["session"] > 0 => p.key
         /\ p.payload => hasKey
         /\ hasKey => p.key
         /\ p.key => hasKey \/ p.add["session"] > 0
<1>1. CASE p = [add |-> Moved([session |-> 1]), key |-> TRUE, payload |-> FALSE]
  BY <1>1 DEF Moved, Counters
<1>2. CASE \/ p = [add |-> Moved([decErr |-> 1]), key |-> hasKey, payload |-> FALSE]
           \/ p = [add |-> Moved([bad |-> 1]), key |-> hasKey, payload |-> FALSE]
  BY <1>2 DEF Moved, Counters
<1>3. ASSUME hasKey, NEW l \in 0..1, NEW b \in BOOLEAN,
             p = [add |-> Moved([data |-> 1, lost |-> l]), key |-> TRUE, payload |-> b]
      PROVE  /\ p.add \in [Counters -> Nat]
             /\ p.add["session"] > 0 => p.key
             /\ p.payload => hasKey
             /\ hasKey => p.key
             /\ p.key => hasKey \/ p.add["session"] > 0
  BY <1>3 DEF Moved, Counters
<1>4. \/ p = [add |-> Moved([session |-> 1]), key |-> TRUE, payload |-> FALSE]
      \/ p = [add |-> Moved([decErr |-> 1]), key |-> hasKey, payload |-> FALSE]
      \/ p = [add |-> Moved([bad |-> 1]), key |-> hasKey, payload |-> FALSE]
      \/ /\ hasKey
         /\ \E l \in 0..1, b \in BOOLEAN :
               p = [add |-> Moved([data |-> 1, lost |-> l]), key |-> TRUE, payload |-> b]
  BY DEF ProcessPacket
<1> QED BY <1>1, <1>2, <1>3, <1>4

LEMMA PlusFacts ==
  /\ Zero \in [Counters -> Nat]
  /\ \A a, b \in [Counters -> Nat] :
        /\ Plus(a, b) \in [Counters -> Nat]
        /\ \A c \in Counters : Plus(a, b)[c] = a[c] + b[c]
        /\ Plus(a, Zero) = a
  /\ \A a, b, d \in [Counters -> Nat] : Plus(Plus(a, b), d) = Plus(a, Plus(b, d))
BY DEF Plus, Zero

(* The keys of the receiver.  Whoever has a session key got it from an air
   unit whose key fits the one loaded; no payload comes out before. *)
KeyInv ==
    /\ counts \in [Counters -> Nat]
    /\ hasKey => Opens(sink, witness)
    /\ SessionEstablished => hasKey

LEMMA KeyStep ==
  ASSUME KeyInv, KeysNext
  PROVE  KeyInv'
<1>1. CASE UNCHANGED <<counts, sessionSeen, hasKey, sink, witness>>
  BY <1>1 DEF KeyInv, SessionEstablished
<1>2. CASE \/ \E p \in Fresh : GenerateKeyPair(p)
           \/ Open \/ Flush \/ CopyToAir
  BY <1>1, <1>2 DEF GenerateKeyPair, Open, Flush, CopyToAir, vars
<1>3. CASE Crash \/ AddStream \/ DropReceiver
  <2>1. counts' = Zero /\ ~sessionSeen' /\ ~hasKey'
    BY <1>3, Zenon DEF Crash, AddStream, DropReceiver, Forgotten
  <2>2. ~SessionEstablished' BY <2>1 DEF SessionEstablished, Zero, Counters
  <2> QED BY <2>1, <2>2, PlusFacts DEF KeyInv
<1>4. CASE Report
  BY <1>4, PlusFacts
  DEF Report, TakeSnapshot, keyVars, KeyInv, SessionEstablished, Zero, Counters
<1>5. ASSUME NEW f, NEW rssi, Receive(f, rssi) PROVE KeyInv'
  <2> DEFINE hit == ClassifyFrame(f) = Primary
  <2>1. PICK p \in ProcessPacket :
           /\ counts' = IF hit THEN Plus(counts, p.add) ELSE counts
           /\ hasKey' = IF hit THEN p.key ELSE hasKey
           /\ sessionSeen' = (sessionSeen \/ (hit /\ p.payload))
    BY <1>5 DEF Receive, ProcessFrame
  <2>2. /\ sink' = sink
        /\ counts'["session"] > counts["session"] => Opens(sink, air)
        /\ witness' = IF counts'["session"] > counts["session"] THEN air ELSE witness
    BY <1>5 DEF Receive
  <2> HIDE DEF hit
  <2>3. CASE ~hit
    <3>1. counts' = counts /\ hasKey' = hasKey BY <2>1, <2>3
    <3>2. sessionSeen' => sessionSeen BY <2>1, <2>3, Zenon
    <3>3. witness' = witness BY <2>2, <3>1 DEF KeyInv, Counters
    <3> QED BY <2>2, <3>1, <3>2, <3>3 DEF KeyInv, SessionEstablished
  <2>4. CASE hit
    <3>1. /\ counts' = Plus(counts, p.add)
          /\ hasKey' = p.key
      BY <2>1, <2>4
    <3>2. /\ counts' \in [Counters -> Nat]
          /\ counts'["session"] = counts["session"] + p.add["session"]
      BY <3>1, PacketFacts, PlusFacts DEF KeyInv, Counters
    <3>3. sessionSeen' => sessionSeen \/ hasKey BY <2>1, PacketFacts, Zenon
    <3>4. p.add["session"] \in Nat /\ counts["session"] \in Nat
      BY PacketFacts DEF KeyInv, Counters
    <3>5. hasKey' => Opens(sink', witness')
      <4>1. CASE p.add["session"] > 0
        BY <2>2, <3>2, <3>4, <4>1
      <4>2. CASE p.add["session"] = 0
        <5>1. witness' = witness /\ sink' = sink BY <2>2, <3>2, <3>4, <4>2
        <5>2. p.key => hasKey BY <3>4, <4>2, PacketFacts
        <5>3. hasKey' => hasKey BY <3>1, <5>2, Zenon
        <5> QED BY <5>1, <5>3 DEF KeyInv
      <4> QED BY <3>4, <4>1, <4>2
    <3>6. SessionEstablished' => hasKey'
      BY <3>1, <3>2, <3>3, <3>4, PacketFacts DEF KeyInv, SessionEstablished
    <3> QED BY <3>2, <3>5, <3>6 DEF KeyInv
  <2> QED BY <2>3, <2>4
<1> QED BY <1>2, <1>3, <1>4, <1>5 DEF KeysNext

(* However key files are replaced, at either end, and receivers made and
   dropped meanwhile, a receiver that reports a session holds a key that
   opened the one the air unit ran with (wfb_receiver.cpp:33-51, 120-161). *)
THEOREM SessionsAreHonest == KeysSpec => []SessionHonest
<1>1. KeysInit => KeyInv
  BY PlusFacts DEF KeysInit, Init, KeyInv, SessionEstablished, Zero, Counters
<1>2. KeyInv /\ [KeysNext]_<<vars, keyVars>> => KeyInv'
  <2>1. KeyInv /\ UNCHANGED <<vars, keyVars>> => KeyInv'
    BY DEF KeyInv, SessionEstablished, vars, keyVars
  <2> QED BY <2>1, KeyStep
<1>3. KeyInv => SessionHonest BY DEF KeyInv, SessionHonest
<1> QED BY <1>1, <1>2, <1>3, PTL DEF KeysSpec
-----------------------------------------------------------------------------
(* Quotient and remainder are unique. *)
LEMMA DivisionUnique ==
  ASSUME NEW n \in Nat \ {0}, NEW q \in Nat, NEW r \in 0..(n - 1), NEW x \in Nat
  PROVE  (x \div n = q /\ x % n = r) <=> x = n * q + r
<1> DEFINE d == x \div n
           m == x % n
<1>1. d \in Int /\ m \in 0..(n - 1) /\ x = n * d + m BY SMT
<1> HIDE DEF d, m
<1>2. ASSUME x = n * q + r PROVE d = q
  <2>1. n * d + m = n * q + r BY <1>1, <1>2
  <2>2. ~(d >= q + 1)
    <3> SUFFICES ASSUME d >= q + 1 PROVE FALSE OBVIOUS
    <3>1. n * d >= n * (q + 1) BY <1>1, SMT
    <3>2. n * (q + 1) = n * q + n BY SMT
    <3> QED BY <1>1, <2>1, <3>1, <3>2, SMT
  <2>3. ~(q >= d + 1)
    <3> SUFFICES ASSUME q >= d + 1 PROVE FALSE OBVIOUS
    <3>1. n * q >= n * (d + 1) BY <1>1, SMT
    <3>2. n * (d + 1) = n * d + n BY <1>1, SMT
    <3> QED BY <1>1, <2>1, <3>1, <3>2, SMT
  <2> QED BY <1>1, <2>2, <2>3
<1>3. ASSUME x = n * q + r PROVE m = r BY <1>1, <1>2, <1>3, SMT
<1>4. d = q /\ m = r => x = n * q + r BY <1>1
<1>5. (d = q /\ m = r) <=> x = n * q + r BY <1>2, <1>3, <1>4
<1> QED BY <1>5 DEF d, m

(* The frames taken for those of the primary port are the ones sent on its
   channel: no other link and no other port has the same channel id. *)
LEMMA ClassifyRight ==
  ASSUME NEW f \in FramesOnAir
  PROVE  ClassifyFrame(f) = Primary <=> SentToUs(f)
<1> DEFINE x == f.src
<1>1. /\ x \in Nat /\ PortMod \in Nat \ {0} /\ LinkId \in Nat
      /\ Primary \in 0..(PortMod - 1) /\ Primary # -1
  <2>1. x \in Chans /\ f.wfb \in BOOLEAN BY DEF FramesOnAir
  <2>2. x \in 0..(ChanMod - 1) BY <2>1, ReceiverAssumption
  <2>3. ChanMod \in Nat BY ReceiverAssumption
  <2>4. x \in Nat BY <2>2, <2>3
  <2> QED BY <2>4, ReceiverAssumption
<1>2. ChannelId(LinkId, Primary) = PortMod * LinkId + Primary
  <2>1. LinkId * PortMod \in 0..(ChanMod - 1) /\ ChanMod \in Nat \ {0}
    BY ReceiverAssumption
  <2>2. \A a \in 0..(ChanMod - 1) : a % ChanMod = a BY <2>1
  <2>3. (LinkId * PortMod) % ChanMod = LinkId * PortMod BY <2>1, <2>2
  <2>4. LinkId * PortMod = PortMod * LinkId BY <1>1
  <2> QED BY <2>3, <2>4 DEF ChannelId
<1>3. (x \div PortMod = LinkId /\ x % PortMod = Primary) <=> x = PortMod * LinkId + Primary
  <2> HIDE DEF x
  <2> QED BY <1>1, DivisionUnique
<1> QED BY <1>1, <1>2, <1>3 DEF ClassifyFrame, SentToUs

CountsInv ==
    /\ counts \in [Counters -> Nat] /\ total \in [Counters -> Nat]
    /\ reported \in [Counters -> Nat]
    /\ CountersConserved

LEMMA CountsStep ==
  ASSUME CountsInv, KeysNext
  PROVE  CountsInv'
<1>1. CASE UNCHANGED <<counts, total, reported>>
  BY <1>1 DEF CountsInv, CountersConserved
<1>2. CASE \/ \E p \in Fresh : GenerateKeyPair(p)
           \/ Open \/ Flush \/ CopyToAir
  BY <1>1, <1>2 DEF GenerateKeyPair, Open, Flush, CopyToAir, vars
<1>3. CASE Crash \/ AddStream \/ DropReceiver
  <2>1. counts' = Zero /\ total' = Zero /\ reported' = Zero
    BY <1>3 DEF Crash, AddStream, DropReceiver, Forgotten
  <2> QED BY <2>1, PlusFacts DEF CountsInv, CountersConserved
<1>4. CASE Report
  <2>1. counts' = Zero /\ reported' = Plus(reported, counts) /\ total' = total
    BY <1>4 DEF Report, TakeSnapshot
  <2> QED BY <2>1, PlusFacts DEF CountsInv, CountersConserved
<1>5. ASSUME NEW f \in FramesOnAir, NEW rssi, Receive(f, rssi) PROVE CountsInv'
  <2>1. PICK p \in ProcessPacket :
           /\ counts' = IF SentToUs(f) THEN Plus(counts, p.add) ELSE counts
           /\ total' = IF SentToUs(f) THEN Plus(total, p.add) ELSE total
           /\ reported' = reported
    BY <1>5, ClassifyRight DEF Receive, ProcessFrame
  <2>2. p.add \in [Counters -> Nat] BY PacketFacts
  <2> QED BY <2>1, <2>2, PlusFacts DEF CountsInv, CountersConserved
<1> QED BY <1>2, <1>3, <1>4, <1>5 DEF KeysNext

(* For every link and whatever else is on the air: what the snapshots
   reported and what is still counted is what was sent to the video port,
   packet by packet (wfb_receiver.cpp:120-211). *)
THEOREM NoPacketMiscounted == KeysSpec => []CountersConserved
<1>1. KeysInit => CountsInv
  BY PlusFacts DEF KeysInit, Init, CountsInv, CountersConserved
<1>2. CountsInv /\ [KeysNext]_<<vars, keyVars>> => CountsInv'
  <2>1. CountsInv /\ UNCHANGED <<vars, keyVars>> => CountsInv'
    BY DEF CountsInv, CountersConserved, vars
  <2> QED BY <2>1, CountsStep
<1>3. CountsInv => CountersConserved BY DEF CountsInv
<1> QED BY <1>1, <1>2, <1>3, PTL DEF KeysSpec
-----------------------------------------------------------------------------
(* The frames of a history that RF path i heard, and the strengths it heard
   them with: OnPath and ValuesOnPath of the history of a snapshot. *)
On(h, i) == {k \in 1..Len(h) : i <= Len(h[k])}
Values(h, i) == {ToDbm(h[k][i]) : k \in On(h, i)}
Accumulator == [n : Nat, sum : Int, min : Int, max : Int]

(* An accumulator is the account of a history: the number of frames, the
   weakest and the strongest, and a sum between what both would give. *)
Accounts(acc, h, i) ==
    /\ acc \in Accumulator
    /\ acc.n = Cardinality(On(h, i)) /\ acc.sum = PathSum(h, i)
    /\ acc.n = 0 => acc.sum = 0
    /\ acc.n > 0 =>
          /\ acc.min \in Values(h, i) /\ acc.max \in Values(h, i)
          /\ \A v \in Values(h, i) : acc.min <= v /\ v <= acc.max
          /\ acc.max <= 0
          /\ acc.n * acc.min <= acc.sum /\ acc.sum <= acc.n * acc.max

LEMMA StrengthFacts ==
  /\ <<>> \in Strengths
  /\ \A r \in Strengths : /\ r \in Seq(Raw) /\ Len(r) \in 0..MaxPaths
                          /\ \A i \in 1..Len(r) : ToDbm(r[i]) \in -128..0
<1>1. <<>> \in Strengths
  <2>1. <<>> \in [1..0 -> Raw] OBVIOUS
  <2>2. 0 \in 0..MaxPaths BY ReceiverAssumption
  <2> QED BY <2>1, <2>2 DEF Strengths
<1>2. ASSUME NEW r \in Strengths
      PROVE  /\ r \in Seq(Raw) /\ Len(r) \in 0..MaxPaths
             /\ \A i \in 1..Len(r) : ToDbm(r[i]) \in -128..0
  <2>1. PICK n \in 0..MaxPaths : r \in [1..n -> Raw] BY DEF Strengths
  <2>2. n \in Nat BY ReceiverAssumption
  <2>3. r \in Seq(Raw) /\ Len(r) = n BY <2>1, <2>2
  <2>4. ASSUME NEW i \in 1..Len(r) PROVE ToDbm(r[i]) \in -128..0
    <3>1. r[i] \in Raw BY <2>3
    <3>2. r[i] \in 0..255 BY <3>1, ReceiverAssumption
    <3>3. \A v \in 0..255 : ToDbm(v) \in -128..0 BY SMT DEF ToDbm
    <3> QED BY <3>2, <3>3
  <2> QED BY <2>3, <2>4
<1> QED BY <1>1, <1>2

LEMMA OnFacts ==
  ASSUME NEW h \in Seq(Strengths), NEW i \in Nat
  PROVE  /\ IsFiniteSet(On(h, i)) /\ Cardinality(On(h, i)) \in Nat
         /\ Cardinality(On(h, i)) = 0 <=> On(h, i) = {}
         /\ Len(h) + 1 \notin On(h, i)
         /\ i > 0 => \A v \in Values(h, i) : v \in -128..0
<1>1. Len(h) \in Nat /\ On(h, i) \in SUBSET (1..Len(h)) BY DEF On
<1>2. IsFiniteSet(1..Len(h)) BY <1>1, FS_Interval
<1>3. IsFiniteSet(On(h, i)) BY <1>1, <1>2, FS_Subset
<1>4. Cardinality(On(h, i)) \in Nat BY <1>3, FS_CardinalityType
<1>5. Cardinality(On(h, i)) = 0 <=> On(h, i) = {} BY <1>3, FS_EmptySet
<1>6. Len(h) + 1 \notin On(h, i) BY <1>1
<1>7. ASSUME i > 0, NEW k \in On(h, i) PROVE ToDbm(h[k][i]) \in -128..0
  <2>1. k \in 1..Len(h) /\ i <= Len(h[k]) BY DEF On
  <2>2. h[k] \in Strengths BY <2>1
  <2>3. Len(h[k]) \in Nat BY <2>2, StrengthFacts, ReceiverAssumption
  <2>4. i \in 1..Len(h[k]) BY <1>7, <2>1, <2>3
  <2> QED BY <2>2, <2>4, StrengthFacts
<1>8. i > 0 => \A v \in Values(h, i) : v \in -128..0 BY <1>7, Zenon DEF Values
<1> QED BY <1>3, <1>4, <1>5, <1>6, <1>8

(* One more frame. *)
LEMMA OnAppend ==
  ASSUME NEW h \in Seq(Strengths), NEW r \in Strengths, NEW i \in Nat
  PROVE  LET g == Append(h, r)
         IN  /\ g \in Seq(Strengths)
             /\ i > Len(r) => On(g, i) = On(h, i) /\ Values(g, i) = Values(h, i)
             /\ i <= Len(r) => /\ On(g, i) = On(h, i) \cup {Len(h) + 1}
                               /\ Values(g, i) = Values(h, i) \cup {ToDbm(r[i])}
<1> DEFINE g == Append(h, r)
<1>1. g \in Seq(Strengths) /\ Len(g) = Len(h) + 1 /\ Len(h) \in Nat OBVIOUS
<1>2. g[Len(h) + 1] = r /\ \A k \in 1..Len(h) : g[k] = h[k] OBVIOUS
<1>3. Len(r) \in Nat BY StrengthFacts, ReceiverAssumption
<1> HIDE DEF g
<1>4. 1..Len(g) = 1..Len(h) \cup {Len(h) + 1} BY <1>1
<1>5. ASSUME i > Len(r) PROVE On(g, i) = On(h, i) BY <1>2, <1>3, <1>4, <1>5 DEF On
<1>6. ASSUME i <= Len(r) PROVE On(g, i) = On(h, i) \cup {Len(h) + 1}
  BY <1>2, <1>4, <1>6 DEF On
<1>7. \A k \in On(h, i) : g[k] = h[k] BY <1>2 DEF On
<1>8. ASSUME i > Len(r) PROVE Values(g, i) = Values(h, i)
  BY <1>5, <1>7, <1>8, Zenon DEF Values
<1>9. ASSUME i <= Len(r) PROVE Values(g, i) = Values(h, i) \cup {ToDbm(r[i])}
  <2>1. ASSUME NEW v PROVE v \in Values(g, i) <=> v \in Values(h, i) \/ v = ToDbm(r[i])
    BY <1>2, <1>6, <1>7, <1>9, Zenon DEF Values
  <2> QED BY <2>1
<1> QED BY <1>1, <1>5, <1>6, <1>8, <1>9 DEF g

(* What holds at 0, and at k + 1 whenever at k, holds up to n. *)
LEMMA UpTo ==
  ASSUME NEW n \in Nat, NEW S, 0 \in S,
         \A k \in 0..(n - 1) : k \in S => k + 1 \in S
  PROVE  \A k \in 0..n : k \in S
<1> SUFFICES ASSUME NEW j \in 0..n, j \notin S PROVE FALSE OBVIOUS
<1> DEFINE T == {k \in 0..n : k \notin S}
<1>1. T \in SUBSET Nat /\ T # {} OBVIOUS
<1>2. PICK k \in T : \A y \in T : k <= y BY <1>1, LeastNatural
<1>3. k \in 0..n /\ k \notin S BY <1>2
<1>4. k # 0 BY <1>3
<1>5. k - 1 \in 0..(n - 1) /\ k - 1 \in 0..n /\ ~(k <= k - 1) /\ (k - 1) + 1 = k BY <1>3, <1>4
<1>6. k - 1 \notin T BY <1>2, <1>5
<1>7. k - 1 \in S BY <1>5, <1>6
<1> QED BY <1>3, <1>5, <1>7

(* The sum of the strengths on a path.  h[n] is that of the first n frames. *)
SumRun(s, i, m, h) ==
    /\ h \in [0..m -> Int] /\ h[0] = 0
    /\ \A n \in 1..m : h[n] = h[n - 1] + StrengthOn(s[n], i)

LEMMA StrengthInt ==
  ASSUME NEW r \in Strengths, NEW i \in Nat \ {0}
  PROVE  StrengthOn(r, i) \in Int
<1>1. Len(r) \in Nat BY StrengthFacts, ReceiverAssumption
<1>2. CASE i <= Len(r)
  <2>1. i \in 1..Len(r) BY <1>1, <1>2
  <2>2. ToDbm(r[i]) \in -128..0 BY <2>1, StrengthFacts
  <2>3. \A x \in -128..0 : x \in Int OBVIOUS
  <2> QED BY <1>2, <2>2, <2>3 DEF StrengthOn
<1>3. CASE ~(i <= Len(r)) BY <1>3 DEF StrengthOn
<1> QED BY <1>2, <1>3

LEMMA SumExists ==
  ASSUME NEW s \in Seq(Strengths), NEW i \in Nat \ {0}
  PROVE  \E h : SumRun(s, i, Len(s), h)
<1> DEFINE S == {m \in 0..Len(s) : \E h : SumRun(s, i, m, h)}
<1>0. Len(s) \in Nat OBVIOUS
<1>1. 0 \in S
  <2> DEFINE h == [n \in 0..0 |-> 0]
  <2>1. h \in [0..0 -> Int] /\ h[0] = 0 OBVIOUS
  <2>2. \A n \in 1..0 : FALSE OBVIOUS
  <2> HIDE DEF h
  <2>3. SumRun(s, i, 0, h) BY <2>1, <2>2 DEF SumRun
  <2> QED BY <1>0, <2>3
<1>2. ASSUME NEW m \in 0..(Len(s) - 1), m \in S PROVE m + 1 \in S
  <2>1. PICK h : SumRun(s, i, m, h) BY <1>2
  <2>2. /\ h \in [0..m -> Int] /\ h[0] = 0
        /\ \A n \in 1..m : h[n] = h[n - 1] + StrengthOn(s[n], i)
    BY <2>1 DEF SumRun
  <2>3. m \in 0..m /\ m + 1 \in 1..Len(s) /\ m \in Nat BY <1>0
  <2>4. PICK d \in Int : d = StrengthOn(s[m + 1], i)
    <3>1. s[m + 1] \in Strengths BY <2>3
    <3> QED BY <3>1, StrengthInt
  <2>5. PICK x \in Int : x = h[m] + d
    <3>1. h[m] \in Int BY <2>2, <2>3
    <3> QED BY <3>1
  <2> DEFINE k == [n \in 0..(m + 1) |-> IF n = m + 1 THEN x ELSE h[n]]
  <2>6. \A n \in 0..(m + 1) : n = m + 1 \/ n \in 0..m BY <2>3
  <2>7. k \in [0..(m + 1) -> Int] BY <2>2, <2>6
  <2>8. k[m + 1] = x /\ \A n \in 0..m : k[n] = h[n] BY <2>3
  <2> HIDE DEF k
  <2>9. ASSUME NEW n \in 1..(m + 1) PROVE k[n] = k[n - 1] + StrengthOn(s[n], i)
    <3>1. n - 1 \in 0..m BY <2>3
    <3>2. k[n - 1] = h[n - 1] BY <2>8, <3>1
    <3>3. CASE n = m + 1
      <4>1. n - 1 = m BY <2>3, <3>3
      <4> QED BY <2>4, <2>5, <2>8, <3>2, <3>3, <4>1
    <3>4. CASE n # m + 1
      <4>1. n \in 1..m /\ n \in 0..m BY <2>3, <3>4
      <4> QED BY <2>2, <2>8, <3>2, <4>1
    <3> QED BY <3>3, <3>4
  <2>10. k[0] = 0
    <3>1. 0 \in 0..m BY <2>3
    <3> QED BY <2>2, <2>8, <3>1
  <2>11. SumRun(s, i, m + 1, k) BY <2>7, <2>9, <2>10 DEF SumRun
  <2>12. m + 1 \in 0..Len(s) BY <1>0
  <2> QED BY <2>11, <2>12
<1> HIDE DEF S
<1>3. Len(s) \in S
  <2>1. \A k \in 0..Len(s) : k \in S BY <1>0, <1>1, <1>2, UpTo
  <2> QED BY <1>0, <2>1
<1> QED BY <1>3 DEF S

(* A function that adds up the same frames has the same values. *)
AddsUp(s, i, m, k) ==
    k[0] = 0 /\ \A n \in 1..m : k[n] = k[n - 1] + StrengthOn(s[n], i)

LEMMA SumUnique ==
  ASSUME NEW s, NEW i, NEW m \in Nat, NEW h, SumRun(s, i, m, h), NEW k, AddsUp(s, i, m, k)
  PROVE  \A n \in 0..m : k[n] = h[n]
<1>0. k[0] = 0 /\ \A n \in 1..m : k[n] = k[n - 1] + StrengthOn(s[n], i) BY DEF AddsUp
<1>1. /\ h \in [0..m -> Int] /\ h[0] = 0
      /\ \A n \in 1..m : h[n] = h[n - 1] + StrengthOn(s[n], i)
  BY DEF SumRun
<1> DEFINE S == {n \in 0..m : k[n] = h[n]}
<1>2. 0 \in S BY <1>0, <1>1
<1>3. ASSUME NEW n \in 0..(m - 1), n \in S PROVE n + 1 \in S
  <2>1. n + 1 \in 1..m /\ (n + 1) - 1 = n /\ n + 1 \in 0..m OBVIOUS
  <2>2. k[n] = h[n] BY <1>3
  <2>3. k[n + 1] = h[n + 1] BY <1>0, <1>1, <2>1, <2>2
  <2> QED BY <2>1, <2>3
<1> HIDE DEF S
<1>4. \A n \in 0..m : n \in S BY <1>2, <1>3, UpTo
<1> QED BY <1>4 DEF S

IsSumRun(s, i, h) ==
    h = [n \in 0..Len(s) |-> IF n = 0 THEN 0 ELSE h[n - 1] + StrengthOn(s[n], i)]

LEMMA PathSumIs ==
  ASSUME NEW s \in Seq(Strengths), NEW i \in Nat \ {0}
  PROVE  \E h : SumRun(s, i, Len(s), h) /\ PathSum(s, i) = h[Len(s)]
<1>0. Len(s) \in Nat /\ Len(s) \in 0..Len(s) OBVIOUS
<1>1. PICK h : SumRun(s, i, Len(s), h) BY SumExists
<1>2. /\ h \in [0..Len(s) -> Int] /\ h[0] = 0
      /\ \A n \in 1..Len(s) : h[n] = h[n - 1] + StrengthOn(s[n], i)
  BY <1>1 DEF SumRun
<1>3. ASSUME NEW n \in 0..Len(s)
      PROVE  h[n] = IF n = 0 THEN 0 ELSE h[n - 1] + StrengthOn(s[n], i)
  <2>1. n = 0 \/ n \in 1..Len(s) BY <1>0
  <2>2. CASE n = 0 BY <1>2, <2>2
  <2>3. CASE n # 0
    <3>1. h[n] = h[n - 1] + StrengthOn(s[n], i) BY <1>2, <2>1, <2>3
    <3> QED BY <2>3, <3>1
  <2> QED BY <2>2, <2>3
<1>4. h = [n \in 0..Len(s) |-> h[n]] BY <1>2
<1>5. IsSumRun(s, i, h) BY <1>3, <1>4, Zenon DEF IsSumRun
<1>6. PathSum(s, i) = (CHOOSE k : IsSumRun(s, i, k))[Len(s)] BY Zenon DEF PathSum, IsSumRun
<1>7. PICK k : IsSumRun(s, i, k) /\ PathSum(s, i) = k[Len(s)] BY <1>5, <1>6, Zenon
<1>8. \A n \in 0..Len(s) : k[n] = IF n = 0 THEN 0 ELSE k[n - 1] + StrengthOn(s[n], i)
  BY <1>7, Zenon DEF IsSumRun
<1>9. k[0] = 0 BY <1>0, <1>8
<1>10. ASSUME NEW n \in 1..Len(s) PROVE k[n] = k[n - 1] + StrengthOn(s[n], i)
  <2>1. n \in 0..Len(s) /\ n # 0 BY <1>0
  <2> QED BY <1>8, <2>1, Zenon
<1>11. AddsUp(s, i, Len(s), k) BY <1>9, <1>10 DEF AddsUp
<1>12. \A n \in 0..Len(s) : k[n] = h[n] BY <1>0, <1>1, <1>11, SumUnique
<1> QED BY <1>0, <1>1, <1>7, <1>12

(* One frame more is one summand more. *)
LEMMA PathSumAppend ==
  ASSUME NEW i \in Nat \ {0}
  PROVE  /\ PathSum(<<>>, i) = 0
         /\ \A s \in Seq(Strengths) : PathSum(s, i) \in Int
         /\ \A s \in Seq(Strengths), r \in Strengths :
               PathSum(Append(s, r), i) = PathSum(s, i) + StrengthOn(r, i)
<1>1. PathSum(<<>>, i) = 0
  <2>1. <<>> \in Seq(Strengths) /\ Len(<<>>) = 0 OBVIOUS
  <2>2. PICK h : SumRun(<<>>, i, Len(<<>>), h) /\ PathSum(<<>>, i) = h[Len(<<>>)]
    BY <2>1, PathSumIs
  <2> QED BY <2>1, <2>2 DEF SumRun
<1>2. ASSUME NEW s \in Seq(Strengths) PROVE PathSum(s, i) \in Int
  <2>1. PICK h : SumRun(s, i, Len(s), h) /\ PathSum(s, i) = h[Len(s)] BY PathSumIs
  <2>2. Len(s) \in 0..Len(s) OBVIOUS
  <2> QED BY <2>1, <2>2 DEF SumRun
<1>3. ASSUME NEW s \in Seq(Strengths), NEW r \in Strengths
      PROVE  PathSum(Append(s, r), i) = PathSum(s, i) + StrengthOn(r, i)
  <2>0. PICK t : t = Append(s, r) OBVIOUS
  <2>1. /\ t \in Seq(Strengths) /\ Len(t) = Len(s) + 1 /\ t[Len(s) + 1] = r /\ Len(s) \in Nat
        /\ \A n \in 1..Len(s) : t[n] = s[n]
    BY <2>0
  <2>2. PICK h : SumRun(s, i, Len(s), h) /\ PathSum(s, i) = h[Len(s)] BY PathSumIs
  <2>3. PICK k : SumRun(t, i, Len(t), k) /\ PathSum(t, i) = k[Len(t)] BY <2>1, PathSumIs
  <2>4. /\ k[0] = 0
        /\ \A n \in 1..(Len(s) + 1) : k[n] = k[n - 1] + StrengthOn(t[n], i)
    BY <2>1, <2>3 DEF SumRun
  <2>5. ASSUME NEW n \in 1..Len(s) PROVE k[n] = k[n - 1] + StrengthOn(s[n], i)
    <3>1. n \in 1..(Len(s) + 1) /\ t[n] = s[n] BY <2>1
    <3> QED BY <2>4, <3>1
  <2>6. k[Len(s)] = h[Len(s)]
    <3>1. Len(s) \in 0..Len(s) BY <2>1
    <3>2. AddsUp(s, i, Len(s), k) BY <2>4, <2>5 DEF AddsUp
    <3>3. SumRun(s, i, Len(s), h) BY <2>2
    <3>4. Len(s) \in Nat BY <2>1
    <3>5. \A n \in 0..Len(s) : k[n] = h[n] BY ONLY <3>2, <3>3, <3>4, SumUnique
    <3> QED BY <3>1, <3>5
  <2>7. Len(s) + 1 \in 1..(Len(s) + 1) /\ (Len(s) + 1) - 1 = Len(s) BY <2>1
  <2>8. k[Len(s) + 1] = k[Len(s)] + StrengthOn(r, i) BY <2>1, <2>4, <2>7
  <2> QED BY <2>0, <2>1, <2>2, <2>3, <2>6, <2>8
<1> QED BY <1>1, <1>2, <1>3

(* The sum of one more value stays between the extremes. *)
LEMMA SumBetween ==
  ASSUME NEW n \in Nat, NEW a \in Int, NEW v \in Int, NEW lo \in Int, NEW hi \in Int,
         NEW newLo \in Int, NEW newHi \in Int,
         n * lo <= a, a <= n * hi, newLo <= lo, newLo <= v, hi <= newHi, v <= newHi
  PROVE  (n + 1) * newLo <= a + v /\ a + v <= (n + 1) * newHi
<1>1. n * newLo <= n * lo /\ n * hi <= n * newHi BY SMT
<1>2. (n + 1) * newLo = n * newLo + newLo /\ (n + 1) * newHi = n * newHi + newHi BY SMT
<1>3. n * newLo \in Int /\ n * newHi \in Int /\ n * lo \in Int /\ n * hi \in Int BY SMT
<1> QED BY <1>1, <1>2, <1>3, SMT

LEMMA AccumulateFacts ==
  \A acc \in Accumulator, v \in Int :
     LET new == Accumulate(acc, v)
     IN  /\ new \in Accumulator /\ new.n = acc.n + 1 /\ new.sum = acc.sum + v
         /\ acc.n = 0 => new.min = v /\ new.max = v
         /\ acc.n # 0 => /\ new.min \in {v, acc.min} /\ new.min <= acc.min /\ new.min <= v
                         /\ new.max \in {v, acc.max} /\ acc.max <= new.max /\ v <= new.max
<1> SUFFICES ASSUME NEW acc \in Accumulator, NEW v \in Int, NEW new, new = Accumulate(acc, v)
    PROVE  /\ new \in Accumulator /\ new.n = acc.n + 1 /\ new.sum = acc.sum + v
           /\ acc.n = 0 => new.min = v /\ new.max = v
           /\ acc.n # 0 => /\ new.min \in {v, acc.min} /\ new.min <= acc.min /\ new.min <= v
                           /\ new.max \in {v, acc.max} /\ acc.max <= new.max /\ v <= new.max
  BY Zenon
<1>1. acc.n \in Nat /\ acc.sum \in Int /\ acc.min \in Int /\ acc.max \in Int
  BY DEF Accumulator
<1>2. CASE acc.n = 0
  <2>1. new = [n |-> 1, sum |-> acc.sum + v, min |-> v, max |-> v]
    BY <1>2 DEF Accumulate
  <2> QED BY <1>1, <1>2, <2>1 DEF Accumulator
<1>3. CASE acc.n # 0
  <2>1. new = [n |-> acc.n + 1, sum |-> acc.sum + v,
               min |-> IF v < acc.min THEN v ELSE acc.min,
               max |-> IF v > acc.max THEN v ELSE acc.max]
    BY <1>3 DEF Accumulate
  <2> QED BY <1>1, <1>3, <2>1 DEF Accumulator
<1> QED BY <1>2, <1>3

(* AccumulateSignal keeps the account of every path. *)
LEMMA AccumulateAccounts ==
  ASSUME NEW h \in Seq(Strengths), NEW r \in Strengths, NEW i \in 1..Len(r), NEW acc,
         Accounts(acc, h, i)
  PROVE  Accounts(Accumulate(acc, ToDbm(r[i])), Append(h, r), i)
<1>0. i \in Nat /\ i > 0 /\ i <= Len(r) BY StrengthFacts, ReceiverAssumption
<1>1. PICK v \in Int : v = ToDbm(r[i]) /\ v <= 0
  <2>1. ToDbm(r[i]) \in -128..0 BY StrengthFacts
  <2>2. \A x \in -128..0 : x \in Int /\ x <= 0 OBVIOUS
  <2> QED BY <2>1, <2>2
<1>2. PICK new : new = Accumulate(acc, v) OBVIOUS
<1>3. PICK g : g = Append(h, r) OBVIOUS
<1>4. On(g, i) = On(h, i) \cup {Len(h) + 1} /\ Values(g, i) = Values(h, i) \cup {v}
  BY <1>0, <1>1, <1>3, OnAppend
<1>5. Cardinality(On(g, i)) = Cardinality(On(h, i)) + 1
  <2>1. IsFiniteSet(On(h, i)) /\ Len(h) + 1 \notin On(h, i) BY <1>0, OnFacts
  <2> QED BY <1>4, <2>1, FS_AddElement
<1>6. /\ acc \in Accumulator
      /\ acc.n \in Nat /\ acc.sum \in Int /\ acc.min \in Int /\ acc.max \in Int
      /\ acc.n = Cardinality(On(h, i))
  BY DEF Accounts, Accumulator
<1>7. \A u \in Values(h, i) : u \in Int
  <2>1. \A u \in Values(h, i) : u \in -128..0 BY <1>0, OnFacts
  <2>2. \A x \in -128..0 : x \in Int OBVIOUS
  <2> QED BY <2>1, <2>2
<1>8. /\ new \in Accumulator /\ new.n = acc.n + 1 /\ new.sum = acc.sum + v
      /\ acc.n = 0 => new.min = v /\ new.max = v
      /\ acc.n # 0 => /\ new.min \in {v, acc.min} /\ new.min <= acc.min /\ new.min <= v
                      /\ new.max \in {v, acc.max} /\ acc.max <= new.max /\ v <= new.max
  BY <1>2, <1>6, AccumulateFacts, Zenon
<1>9. new.n = Cardinality(On(g, i)) /\ new.n # 0 BY <1>5, <1>6, <1>8
<1>12. new.sum = PathSum(g, i)
  <2>1. acc.sum = PathSum(h, i) BY DEF Accounts
  <2>2. StrengthOn(r, i) = v BY <1>0, <1>1 DEF StrengthOn
  <2>3. i \in Nat \ {0} BY <1>0
  <2>4. PathSum(g, i) = PathSum(h, i) + StrengthOn(r, i) BY <1>3, <2>3, PathSumAppend
  <2> QED BY <1>8, <2>1, <2>2, <2>4
<1>10. CASE acc.n = 0
  <2>1. Values(h, i) = {}
    BY <1>0, <1>6, <1>10, OnFacts DEF Values
  <2>2. Values(g, i) = {v} BY <1>4, <2>1
  <2>3. new.n = 1 /\ new.sum = v /\ new.min = v /\ new.max = v
    BY <1>6, <1>8, <1>10 DEF Accounts
  <2>4. 1 * v <= v /\ v <= 1 * v OBVIOUS
  <2>5. Accounts(new, g, i) BY <1>1, <1>8, <1>9, <1>12, <2>2, <2>3, <2>4 DEF Accounts
  <2> QED BY <1>1, <1>2, <1>3, <2>5
<1>11. CASE acc.n # 0
  <2>1. /\ acc.min \in Values(h, i) /\ acc.max \in Values(h, i)
        /\ \A u \in Values(h, i) : acc.min <= u /\ u <= acc.max
        /\ acc.max <= 0
        /\ acc.n * acc.min <= acc.sum /\ acc.sum <= acc.n * acc.max
    BY <1>6, <1>11 DEF Accounts
  <2>2. /\ new.min \in {v, acc.min} /\ new.min <= acc.min /\ new.min <= v /\ new.min \in Int
        /\ new.max \in {v, acc.max} /\ acc.max <= new.max /\ v <= new.max /\ new.max \in Int
    BY <1>6, <1>8, <1>11
  <2>3. new.min \in Values(g, i) /\ new.max \in Values(g, i) BY <1>4, <2>1, <2>2
  <2>4. ASSUME NEW u \in Values(g, i) PROVE new.min <= u /\ u <= new.max
    <3>1. CASE u = v BY <2>2, <3>1
    <3>2. CASE u \in Values(h, i) BY <1>6, <1>7, <2>1, <2>2, <3>2, SMTT(30)
    <3> QED BY <1>4, <3>1, <3>2
  <2>5. new.max <= 0 BY <1>1, <2>1, <2>2
  <2>6. new.n * new.min <= new.sum /\ new.sum <= new.n * new.max
    <3>1. /\ (acc.n + 1) * new.min <= acc.sum + v
          /\ acc.sum + v <= (acc.n + 1) * new.max
      <4>1. /\ acc.n \in Nat /\ acc.sum \in Int /\ acc.min \in Int /\ acc.max \in Int
            /\ new.min \in Int /\ new.max \in Int
            /\ acc.n * acc.min <= acc.sum /\ acc.sum <= acc.n * acc.max
            /\ new.min <= acc.min /\ new.min <= v /\ acc.max <= new.max /\ v <= new.max
        BY <1>6, <2>1, <2>2
      <4> QED BY <4>1, SumBetween
    <3> QED BY <1>8, <3>1
  <2>7. Accounts(new, g, i) BY <1>8, <1>9, <1>12, <2>3, <2>4, <2>5, <2>6 DEF Accounts
  <2> QED BY <1>1, <1>2, <1>3, <2>7
<1> QED BY <1>10, <1>11

(* The mean, rounded towards zero as C++ does, lies between the extremes. *)
LEMMA MeanBetween ==
  ASSUME NEW n \in Nat \ {0}, NEW a \in Int, NEW lo \in Int, NEW hi \in Int,
         n * lo <= a, a <= n * hi, hi <= 0
  PROVE  /\ Quotient(a, n) \in Int /\ lo <= Quotient(a, n) /\ Quotient(a, n) <= hi
         /\ IsMean(Quotient(a, n), a, n)
<1>1. n * hi <= 0 BY SMT
<1>2. PICK b \in Nat : b = -a BY <1>1, SMT
<1>3. n * (-hi) <= b /\ b <= n * (-lo) BY <1>2, SMT
<1>4. PICK q \in Int : q = b \div n /\ b = n * q + (b % n) BY SMT
<1>5. b % n \in 0..(n - 1) BY SMT
<1>6. q <= -lo
  <2> SUFFICES ASSUME q >= -lo + 1 PROVE FALSE OBVIOUS
  <2>1. n * q >= n * (-lo + 1) BY SMT
  <2>2. n * (-lo + 1) = n * (-lo) + n BY SMT
  <2> QED BY <1>3, <1>4, <1>5, <2>1, <2>2, SMT
<1>7. -hi <= q
  <2> SUFFICES ASSUME q + 1 <= -hi PROVE FALSE OBVIOUS
  <2>1. n * (q + 1) <= n * (-hi) BY SMT
  <2>2. n * (q + 1) = n * q + n BY SMT
  <2> QED BY <1>3, <1>4, <1>5, <2>1, <2>2, SMT
<1>8. Quotient(a, n) = -q
  <2>1. CASE a < 0 BY <1>2, <1>4, <2>1 DEF Quotient
  <2>2. CASE a >= 0
    <3>1. a = 0 /\ b = 0 BY <1>2, <2>2
    <3>2. 0 \div n = 0 BY SMT
    <3> QED BY <1>4, <3>1, <3>2 DEF Quotient
  <2> QED BY <2>1, <2>2
<1>9. IsMean(Quotient(a, n), a, n)
  <2>1. n * (-q) = -(n * q) /\ n * q \in Int BY SMT
  <2>2. (n * (-q)) - a = b % n BY <1>2, <1>4, <2>1, SMT
  <2> QED BY <1>5, <1>8, <2>2 DEF IsMean
<1> QED BY <1>6, <1>7, <1>8, <1>9

(* The greatest of the strengths that may be reported. *)
LEMMA GreatestStrength ==
  ASSUME NEW S \in SUBSET (-128..0), S # {}
  PROVE  Max(S) \in S /\ \A y \in S : y <= Max(S)
<1> DEFINE T == {-x : x \in S}
<1>0. \A x \in -128..0 : -x \in Nat OBVIOUS
<1>1. T \in SUBSET Nat /\ T # {} BY <1>0, Zenon
<1> HIDE DEF T
<1>2. PICK t \in T : \A y \in T : t <= y BY <1>1, LeastNatural
<1>3. PICK x \in S : t = -x BY <1>2 DEF T
<1>4. \A y \in S : -y \in T BY DEF T
<1>5. ASSUME NEW y \in S PROVE x >= y
  <2>1. t <= -y BY <1>2, <1>4
  <2>2. x \in Int /\ y \in Int OBVIOUS
  <2> QED BY <1>3, <2>1, <2>2
<1>6. Max(S) \in S /\ \A y \in S : Max(S) >= y BY <1>5, Zenon DEF Max
<1>7. \A y \in S : y \in Int OBVIOUS
<1> QED BY <1>6, <1>7

(* An element no other is beyond is what Min and Max choose. *)
LEMMA ExtremesUnique ==
  ASSUME NEW S, \A y \in S : y \in Int,
         NEW lo \in S, NEW hi \in S, \A y \in S : lo <= y /\ y <= hi
  PROVE  lo = Min(S) /\ hi = Max(S)
<1>1. \A y \in S : hi >= y OBVIOUS
<1>2. Min(S) \in S /\ \A y \in S : Min(S) <= y BY Zenon DEF Min
<1>3. Max(S) \in S /\ \A y \in S : Max(S) >= y BY <1>1, Zenon DEF Max
<1> QED BY <1>2, <1>3

(* A downward closed set of paths is an interval, and its k-th element k. *)
Kth(H, k) == CHOOSE j \in H : Cardinality({h \in H : h < j}) = k - 1

LEMMA InitialPaths ==
  ASSUME NEW n \in Nat, NEW H \in SUBSET (1..n),
         \A i \in H : \A j \in 1..n : j < i => j \in H
  PROVE  \E m \in 0..n : /\ H = 1..m /\ Cardinality(H) = m
                          /\ \A k \in 1..m : Kth(H, k) = k
<1> DEFINE T == {x \in Nat : x + 1 \notin H}
<1>1. T \in SUBSET Nat /\ n \in T OBVIOUS
<1>2. PICK m \in T : \A y \in T : m <= y BY <1>1, LeastNatural
<1>3. m \in 0..n /\ m + 1 \notin H BY <1>1, <1>2
<1>4. ASSUME NEW x \in 1..m PROVE x \in H
  <2>1. x - 1 \in Nat /\ x - 1 < m /\ (x - 1) + 1 = x BY <1>3
  <2>2. x - 1 \notin T BY <1>2, <1>3, <2>1
  <2> QED BY <2>1, <2>2
<1>5. ASSUME NEW x \in H PROVE x \in 1..m
  <2> SUFFICES ASSUME x > m PROVE FALSE BY <1>3
  <2>1. m + 1 \in 1..n /\ (m + 1 < x \/ m + 1 = x) BY <1>3
  <2> QED BY <1>3, <2>1
<1>6. H = 1..m BY <1>4, <1>5
<1> HIDE DEF T
<1>7. ASSUME NEW j \in H PROVE Cardinality({h \in H : h < j}) = j - 1
  <2>1. j \in 1..m /\ m \in Nat BY <1>3, <1>6
  <2>2. {h \in H : h < j} = 1..(j - 1) BY <1>6, <2>1
  <2>3. Cardinality(1..(j - 1)) = j - 1 BY <2>1, FS_Interval
  <2> QED BY <2>2, <2>3
<1>8. Cardinality(H) = m BY <1>3, <1>6, FS_Interval
<1>9. ASSUME NEW k \in 1..m PROVE Kth(H, k) = k
  <2>1. k \in H BY <1>6
  <2>2. \A j \in H : (Cardinality({h \in H : h < j}) = k - 1 <=> j = k)
    <3>1. \A j \in H : j \in Int /\ k \in Int BY <1>3
    <3> QED BY <1>7, <3>1
  <2> QED BY <2>1, <2>2 DEF Kth
<1> QED BY <1>3, <1>6, <1>8, <1>9

(* Every path's accumulator is the account of the frames heard since the
   last snapshot. *)
SignalInv ==
    /\ heard \in Seq(Strengths)
    /\ \A i \in 1..MaxPaths : Accounts(paths[i], heard, i)
    /\ SnapshotExact

(* The frames a path hears are among those the path before it hears. *)
LEMMA HeardFacts ==
  ASSUME heard \in Seq(Strengths), \A i \in 1..MaxPaths : Accounts(paths[i], heard, i)
  PROVE  /\ \A i \in 1..MaxPaths : i \in Heard <=> On(heard, i) # {}
         /\ \A i \in Heard : \A j \in 1..MaxPaths : j < i => j \in Heard
         /\ Heard \in SUBSET (1..MaxPaths)
<1>1. \A i \in 1..MaxPaths : i \in Nat BY ReceiverAssumption
<1>2. ASSUME NEW i \in 1..MaxPaths PROVE i \in Heard <=> On(heard, i) # {}
  <2>1. paths[i].n = Cardinality(On(heard, i)) BY DEF Accounts
  <2>2. /\ Cardinality(On(heard, i)) \in Nat
        /\ Cardinality(On(heard, i)) = 0 <=> On(heard, i) = {}
    BY <1>1, OnFacts
  <2> QED BY <2>1, <2>2 DEF Heard
<1>3. Heard \in SUBSET (1..MaxPaths) BY DEF Heard
<1>4. ASSUME NEW i \in Heard, NEW j \in 1..MaxPaths, j < i PROVE j \in Heard
  <2>1. PICK k \in 1..Len(heard) : i <= Len(heard[k]) BY <1>2, <1>3 DEF On
  <2>2. heard[k] \in Strengths BY <2>1
  <2>3. Len(heard[k]) \in Nat BY <2>2, StrengthFacts, ReceiverAssumption
  <2>4. j <= Len(heard[k]) BY <1>1, <1>3, <1>4, <2>1, <2>3
  <2>5. k \in On(heard, j) BY <2>1, <2>4 DEF On
  <2> QED BY <1>2, <2>5
<1> QED BY <1>2, <1>3, <1>4

(* What TakeSnapshot reports of the accumulators. *)
LEMMA AntennasExact ==
  ASSUME heard \in Seq(Strengths), \A i \in 1..MaxPaths : Accounts(paths[i], heard, i)
  PROVE  \E m \in 0..MaxPaths :
            /\ Len(AntennaStats) = m
            /\ \A i \in 1..MaxPaths : i <= m <=> On(heard, i) # {}
            /\ \A i \in 1..m :
                  LET a == AntennaStats[i]
                  IN  /\ a.count = Cardinality(On(heard, i))
                      /\ a.min = Min(Values(heard, i)) /\ a.max = Max(Values(heard, i))
                      /\ IsMean(a.avg, PathSum(heard, i), a.count)
                      /\ a.min <= a.avg /\ a.avg <= a.max /\ a.max <= 0
                      /\ a.avg \in -128..0
<1>1. MaxPaths \in Nat BY ReceiverAssumption
<1>2. PICK m \in 0..MaxPaths :
         /\ Heard = 1..m /\ Cardinality(Heard) = m
         /\ \A k \in 1..m : Kth(Heard, k) = k
  <2>1. /\ \A i \in Heard : \A j \in 1..MaxPaths : j < i => j \in Heard
        /\ Heard \in SUBSET (1..MaxPaths)
    BY HeardFacts
  <2> QED BY <1>1, <2>1, InitialPaths
<1>3. AntennaStats = [k \in 1..m |->
         [count |-> paths[k].n, min |-> paths[k].min, max |-> paths[k].max,
          avg |-> Quotient(paths[k].sum, paths[k].n)]]
  BY <1>2, Zenon DEF AntennaStats, Kth
<1>4. ASSUME NEW i \in 1..m
      PROVE  /\ paths[i].n \in Nat /\ paths[i].min \in Int /\ paths[i].max \in Int
             /\ paths[i].n = Cardinality(On(heard, i))
             /\ paths[i].min = Min(Values(heard, i)) /\ paths[i].max = Max(Values(heard, i))
             /\ paths[i].min <= Quotient(paths[i].sum, paths[i].n)
             /\ Quotient(paths[i].sum, paths[i].n) <= paths[i].max
             /\ Quotient(paths[i].sum, paths[i].n) \in -128..0
             /\ paths[i].max <= 0
             /\ IsMean(Quotient(paths[i].sum, paths[i].n), PathSum(heard, i), paths[i].n)
  <2>1. i \in 1..MaxPaths /\ i \in Nat /\ i > 0 /\ i \in Heard BY <1>1, <1>2
  <2>2. PICK acc : acc = paths[i] OBVIOUS
  <2>3. Accounts(acc, heard, i) /\ acc.n > 0 BY <2>1, <2>2 DEF Heard
  <2>4. acc.n \in Nat /\ acc.sum \in Int /\ acc.min \in Int /\ acc.max \in Int
    BY <2>3 DEF Accounts, Accumulator
  <2>5. \A v \in Values(heard, i) : v \in -128..0 BY <2>1, OnFacts
  <2>6. \A v \in Values(heard, i) : v \in Int
    <3>1. \A x \in -128..0 : x \in Int OBVIOUS
    <3> QED BY <2>5, <3>1
  <2>7. /\ acc.min \in Values(heard, i) /\ acc.max \in Values(heard, i)
        /\ \A v \in Values(heard, i) : acc.min <= v /\ v <= acc.max
        /\ acc.max <= 0 /\ acc.n = Cardinality(On(heard, i))
        /\ acc.n * acc.min <= acc.sum /\ acc.sum <= acc.n * acc.max
        /\ acc.sum = PathSum(heard, i)
    BY <2>3 DEF Accounts
  <2>8. acc.min = Min(Values(heard, i)) /\ acc.max = Max(Values(heard, i))
    BY <2>6, <2>7, ExtremesUnique
  <2>9. PICK q : q = Quotient(acc.sum, acc.n) OBVIOUS
  <2>10. q \in Int /\ acc.min <= q /\ q <= acc.max /\ IsMean(q, acc.sum, acc.n)
    <3>1. acc.n \in Nat \ {0} BY <2>3, <2>4
    <3> QED BY <2>4, <2>7, <2>9, <3>1, MeanBetween
  <2>11. acc.min \in -128..0 /\ acc.max \in -128..0 BY <2>5, <2>7
  <2>12. q \in -128..0
    <3>1. \A a, b \in -128..0 : \A x \in Int : a <= x /\ x <= b => x \in -128..0 OBVIOUS
    <3> QED BY <2>10, <2>11, <3>1
  <2> QED BY <2>2, <2>4, <2>7, <2>8, <2>9, <2>10, <2>12
<1>5. m \in Nat BY <1>1, <1>2
<1>6. Len(AntennaStats) = m BY <1>3, <1>5
<1>7. \A i \in 1..MaxPaths : i <= m <=> On(heard, i) # {}
  <2>1. \A i \in 1..MaxPaths : i <= m <=> i \in Heard BY <1>1, <1>2
  <2> QED BY <2>1, HeardFacts
<1>8. ASSUME NEW i \in 1..m
      PROVE  LET a == AntennaStats[i]
             IN  /\ a.count = Cardinality(On(heard, i))
                 /\ a.min = Min(Values(heard, i)) /\ a.max = Max(Values(heard, i))
                 /\ IsMean(a.avg, PathSum(heard, i), a.count)
                 /\ a.min <= a.avg /\ a.avg <= a.max /\ a.max <= 0
                 /\ a.avg \in -128..0
  <2>1. AntennaStats[i] =
           [count |-> paths[i].n, min |-> paths[i].min, max |-> paths[i].max,
            avg |-> Quotient(paths[i].sum, paths[i].n)]
    BY <1>3
  <2> QED BY <1>4, <2>1
<1> QED BY <1>6, <1>7, <1>8

(* The best is at least every mean, and either -105 or a mean above it. *)
LEMMA BestFacts ==
  ASSUME NEW m \in Nat, NEW antennas, Len(antennas) = m,
         \A i \in 1..m : antennas[i].avg \in -128..0
  PROVE  /\ \A i \in 1..m : antennas[i].avg <= Best(antennas)
         /\ \/ Best(antennas) = -105
            \/ /\ Best(antennas) > -105
               /\ \E i \in 1..m : Best(antennas) = antennas[i].avg
<1> DEFINE S == {-105} \cup {antennas[k].avg : k \in 1..Len(antennas)}
<1>1. -105 \in -128..0 OBVIOUS
<1>2. S \in SUBSET (-128..0) /\ S # {} BY <1>1
<1>3. \A i \in 1..m : antennas[i].avg \in S OBVIOUS
<1>4. -105 \in S /\ \A y \in S : y = -105 \/ \E i \in 1..m : y = antennas[i].avg OBVIOUS
<1>5. Best(antennas) = Max(S) BY DEF Best
<1> HIDE DEF S
<1>6. Max(S) \in S /\ \A y \in S : y <= Max(S) BY <1>2, GreatestStrength
<1>7. \/ Max(S) = -105
      \/ Max(S) > -105 /\ \E i \in 1..m : Max(S) = antennas[i].avg
  <2>1. PICK x \in -128..0 : x = Max(S) BY <1>2, <1>6
  <2>2. x = -105 \/ x > -105 BY <1>4, <1>6, <2>1
  <2>3. x = -105 \/ \E i \in 1..m : x = antennas[i].avg BY <1>4, <1>6, <2>1, Zenon
  <2> QED BY <2>1, <2>2, <2>3
<1> QED BY <1>3, <1>5, <1>6, <1>7

(* Nothing heard, nothing accounted for. *)
LEMMA NothingHeard ==
  /\ <<>> \in Seq(Strengths)
  /\ \A i : On(<<>>, i) = {}
  /\ \A i \in 1..MaxPaths : Accounts(ResetSignal[i], <<>>, i)
<1>1. <<>> \in Seq(Strengths) /\ Len(<<>>) = 0 OBVIOUS
<1>2. \A i : On(<<>>, i) = {} BY <1>1 DEF On
<1>3. Cardinality({}) = 0 BY FS_EmptySet
<1>4. ASSUME NEW i \in 1..MaxPaths PROVE Accounts(ResetSignal[i], <<>>, i)
  <2>1. ResetSignal[i] = NoSignal BY DEF ResetSignal
  <2>2. PathSum(<<>>, i) = 0
    <3>1. i \in Nat \ {0} BY ReceiverAssumption
    <3> QED BY <3>1, PathSumAppend
  <2>3. Accounts(NoSignal, <<>>, i)
    <3>1. NoSignal \in Accumulator BY DEF Accumulator, NoSignal
    <3>2. NoSignal.n = 0 /\ NoSignal.sum = 0 BY DEF NoSignal
    <3>3. Cardinality(On(<<>>, i)) = 0 BY <1>2, <1>3
    <3>4. ~(NoSignal.n > 0) BY <3>2
    <3> QED BY <2>2, <3>1, <3>2, <3>3, <3>4, Zenon DEF Accounts
  <2> QED BY <2>1, <2>3
<1> QED BY <1>1, <1>2, <1>4

LEMMA SignalForgotten ==
  ASSUME heard' = <<>>, basis' = <<>>, paths' = ResetSignal, snapshot' = NoSnapshot
  PROVE  SignalInv'
<1>1. snapshot'.antennas = <<>> /\ snapshot'.best = -105 BY DEF NoSnapshot
<1>2. Len(<<>>) = 0 OBVIOUS
<1>3. \A i : OnPath(i)' = {} BY <1>2 DEF OnPath
<1>4. \A i \in 1..MaxPaths : ~(i <= 0) BY ReceiverAssumption
<1>5. 1..0 = {} OBVIOUS
<1>6. SnapshotExact' BY <1>1, <1>2, <1>3, <1>4, <1>5 DEF SnapshotExact
<1> QED BY <1>6, NothingHeard DEF SignalInv

(* TakeSnapshot: the antennas are the account, and a new one starts. *)
LEMMA SignalReported ==
  ASSUME SignalInv, TakeSnapshot
  PROVE  SignalInv'
<1>1. heard \in Seq(Strengths) /\ \A i \in 1..MaxPaths : Accounts(paths[i], heard, i)
  BY DEF SignalInv
<1>2. /\ snapshot'.antennas = AntennaStats /\ snapshot'.best = Best(AntennaStats)
      /\ paths' = ResetSignal /\ basis' = heard /\ heard' = <<>>
  BY DEF TakeSnapshot
<1>3. PICK m \in 0..MaxPaths :
         /\ Len(AntennaStats) = m
         /\ \A i \in 1..MaxPaths : i <= m <=> On(heard, i) # {}
         /\ \A i \in 1..m :
               LET a == AntennaStats[i]
               IN  /\ a.count = Cardinality(On(heard, i))
                   /\ a.min = Min(Values(heard, i)) /\ a.max = Max(Values(heard, i))
                   /\ IsMean(a.avg, PathSum(heard, i), a.count)
                   /\ a.min <= a.avg /\ a.avg <= a.max /\ a.max <= 0
                   /\ a.avg \in -128..0
  BY <1>1, AntennasExact
<1>4. m \in Nat BY ReceiverAssumption
<1>5. /\ \A i \in 1..m : AntennaStats[i].avg <= Best(AntennaStats)
      /\ \/ Best(AntennaStats) = -105
         \/ /\ Best(AntennaStats) > -105
            /\ \E i \in 1..m : Best(AntennaStats) = AntennaStats[i].avg
  BY <1>3, <1>4, BestFacts
<1>6. \A i : OnPath(i)' = On(heard, i) BY <1>2 DEF OnPath, On
<1>7. \A i : ValuesOnPath(i)' = Values(heard, i)
  BY <1>2, <1>6, Zenon DEF ValuesOnPath, Values
<1>8. /\ \A i \in 1..m : snapshot'.antennas[i].avg <= snapshot'.best
      /\ \/ snapshot'.best = -105
         \/ /\ snapshot'.best > -105
            /\ \E i \in 1..m : snapshot'.best = snapshot'.antennas[i].avg
  BY <1>2, <1>5
<1>9. \A i \in 1..MaxPaths : i <= Len(snapshot'.antennas) <=> OnPath(i)' # {}
  BY <1>2, <1>3, <1>6
<1>10. ASSUME NEW i \in 1..m PROVE AntennaExact(i)'
  <2>1. PICK a : a = snapshot'.antennas[i] OBVIOUS
  <2>2. /\ a.count = Cardinality(OnPath(i)')
        /\ a.min = Min(ValuesOnPath(i)') /\ a.max = Max(ValuesOnPath(i)')
        /\ IsMean(a.avg, PathSum(basis', i), a.count)
        /\ a.min <= a.avg /\ a.avg <= a.max /\ a.max <= 0
    BY <1>2, <1>3, <1>6, <1>7, <2>1
  <2> QED BY <2>1, <2>2, Zenon DEF AntennaExact, IsMean, PathSum, StrengthOn
<1>11. SnapshotExact' BY <1>2, <1>3, <1>8, <1>9, <1>10 DEF SnapshotExact
<1> QED BY <1>2, <1>11, NothingHeard DEF SignalInv

(* A step that makes no snapshot leaves what is said of the last one alone. *)
LEMMA SnapshotKept ==
  ASSUME SnapshotExact, snapshot' = snapshot, basis' = basis
  PROVE  SnapshotExact'
<1>1. \A i : OnPath(i)' = OnPath(i) BY Zenon DEF OnPath
<1>2. \A i : ValuesOnPath(i)' = ValuesOnPath(i) BY <1>1, Zenon DEF ValuesOnPath
<1>3. ASSUME NEW i PROVE AntennaExact(i)' <=> AntennaExact(i)
  BY <1>1, <1>2, Zenon DEF AntennaExact
<1>4. \A i \in 1..MaxPaths : i <= Len(snapshot'.antennas) <=> OnPath(i)' # {}
  BY <1>1, Zenon DEF SnapshotExact
<1>5. \A i \in 1..Len(snapshot'.antennas) : AntennaExact(i)'
  BY <1>3, Zenon DEF SnapshotExact
<1> QED BY <1>4, <1>5, Zenon DEF SnapshotExact

(* ProcessFrame: the account of a frame, or of none. *)
LEMMA SignalHeard ==
  ASSUME SignalInv, NEW f \in FramesOnAir, NEW rssi \in Strengths, ProcessFrame(f, rssi)
  PROVE  SignalInv'
<1>1. heard \in Seq(Strengths) /\ \A i \in 1..MaxPaths : Accounts(paths[i], heard, i)
  BY DEF SignalInv
<1>2. SnapshotExact'
  <2>1. snapshot' = snapshot /\ basis' = basis BY DEF ProcessFrame
  <2> QED BY <2>1, SnapshotKept DEF SignalInv
<1>3. CASE ~SentToUs(f)
  <2>1. heard' = heard /\ paths' = paths BY <1>3, ClassifyRight DEF ProcessFrame
  <2> QED BY <1>1, <1>2, <2>1 DEF SignalInv
<1>4. CASE SentToUs(f)
  <2>1. heard' = Append(heard, rssi) /\ paths' = AccumulateSignal(rssi)
    BY <1>4, ClassifyRight DEF ProcessFrame
  <2>2. heard' \in Seq(Strengths) BY <1>1, <2>1
  <2>3. Len(rssi) \in Nat BY StrengthFacts, ReceiverAssumption
  <2>4. ASSUME NEW i \in 1..MaxPaths PROVE Accounts(paths'[i], heard', i)
    <3>1. i \in Nat /\ i > 0 BY ReceiverAssumption
    <3>2. Accounts(paths[i], heard, i) BY <1>1
    <3>3. CASE i <= Len(rssi)
      <4>1. i \in 1..Len(rssi) BY <2>3, <3>1, <3>3
      <4>2. paths'[i] = Accumulate(paths[i], ToDbm(rssi[i]))
        BY <2>1, <3>3 DEF AccumulateSignal
      <4> QED BY <1>1, <2>1, <3>2, <4>1, <4>2, AccumulateAccounts
    <3>4. CASE i > Len(rssi)
      <4>1. paths'[i] = paths[i] BY <2>1, <2>3, <3>1, <3>4 DEF AccumulateSignal
      <4>2. On(heard', i) = On(heard, i) /\ Values(heard', i) = Values(heard, i)
        BY <1>1, <2>1, <3>1, <3>4, OnAppend
      <4>3. PathSum(heard', i) = PathSum(heard, i)
        <5>1. StrengthOn(rssi, i) = 0 BY <2>3, <3>1, <3>4 DEF StrengthOn
        <5>2. i \in Nat \ {0} BY <3>1
        <5>3. /\ PathSum(heard, i) \in Int
              /\ PathSum(Append(heard, rssi), i) = PathSum(heard, i) + StrengthOn(rssi, i)
          BY <1>1, <5>2, PathSumAppend
        <5> QED BY <2>1, <5>1, <5>3
      <4> QED BY <3>2, <4>1, <4>2, <4>3 DEF Accounts
    <3> QED BY <2>3, <3>1, <3>3, <3>4
  <2> QED BY <1>2, <2>2, <2>4 DEF SignalInv
<1> QED BY <1>3, <1>4

LEMMA SignalStep ==
  ASSUME SignalInv, KeysNext
  PROVE  SignalInv'
<1>1. ASSUME UNCHANGED vars PROVE SignalInv'
  BY <1>1, SnapshotKept DEF vars, SignalInv
<1>2. CASE \/ \E p \in Fresh : GenerateKeyPair(p)
           \/ Open \/ Flush \/ CopyToAir
  BY <1>1, <1>2 DEF GenerateKeyPair, Open, Flush, CopyToAir
<1>3. CASE Crash \/ AddStream \/ DropReceiver
  BY <1>3, SignalForgotten DEF Crash, AddStream, DropReceiver, Forgotten
<1>4. CASE Report
  BY <1>4, SignalReported DEF Report
<1>5. ASSUME NEW f \in FramesOnAir, NEW rssi \in IF Untouched THEN Strengths ELSE {<<>>},
             Receive(f, rssi)
      PROVE  SignalInv'
  <2>1. rssi \in Strengths BY StrengthFacts
  <2> QED BY <1>5, <2>1, SignalHeard DEF Receive
<1> QED BY <1>2, <1>3, <1>4, <1>5 DEF KeysNext

(* For every number of RF paths and every strength an adapter may report:
   the antenna records of a snapshot are those of the frames of the video
   port heard since the one before, path by path: how many, the weakest, the
   strongest and their mean rounded towards zero, none of them positive.  The
   best is the best of the means, but never below -105, which is where the
   search for it starts (wfb_receiver.cpp:95-118, 183-207). *)
THEOREM SnapshotsAreExact == KeysSpec => []SnapshotExact
<1>1. KeysInit => SignalInv
  <2> SUFFICES ASSUME KeysInit PROVE SignalInv OBVIOUS
  <2>1. heard = <<>> /\ basis = <<>> /\ paths = ResetSignal /\ snapshot = NoSnapshot
    BY DEF KeysInit, Init
  <2>2. snapshot.antennas = <<>> /\ snapshot.best = -105 BY <2>1 DEF NoSnapshot
  <2>3. Len(<<>>) = 0 OBVIOUS
  <2>4. \A i : OnPath(i) = {} BY <2>1, <2>3 DEF OnPath
  <2>5. \A i \in 1..MaxPaths : ~(i <= 0) BY ReceiverAssumption
  <2>6. 1..0 = {} OBVIOUS
  <2>7. SnapshotExact BY <2>2, <2>3, <2>4, <2>5, <2>6 DEF SnapshotExact
  <2> QED BY <2>1, <2>7, NothingHeard DEF SignalInv
<1>2. SignalInv /\ [KeysNext]_<<vars, keyVars>> => SignalInv'
  <2>1. SignalInv /\ UNCHANGED <<vars, keyVars>> => SignalInv'
    BY SnapshotKept DEF vars, SignalInv
  <2> QED BY <2>1, SignalStep
<1>3. SignalInv => SnapshotExact BY DEF SignalInv
<1> QED BY <1>1, <1>2, <1>3, PTL DEF KeysSpec
==============================================================================
