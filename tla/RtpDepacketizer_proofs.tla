------------------------ MODULE RtpDepacketizer_proofs ------------------------
(***************************************************************************)
(* Proofs about RtpHeader and RtpDepacketizer: the header is parsed right  *)
(* in every datagram, and NAL units are reassembled right from every set   *)
(* of well-formed streams, with every size of the sequence-number space.   *)
(***************************************************************************)
EXTENDS RtpHeader, RtpDepacketizer, SequenceTheorems, TLAPS

(* The setting in which reassembly is sound: nobody selects the wrong codec,
   AUTO is selected only where Push reads codec_ once, every stream is one
   the detector tells from the other codec (which DetectionOfH264 delimits,
   and is not all of H.264), and no two packets a whole turn of the
   sequence numbers apart meet in one reassembly. *)
SafeSetting ==
    /\ "other" \notin CodecChoices
    /\ "auto" \in CodecChoices => ~CodecReload
    /\ \A s \in Streams : Detectable(s)
    /\ MaxSkew + 1 < SeqMod

(* The inductive invariant. *)
IInv == TypeOK /\ DetectionRight /\ FragmentIsPrefix /\ NalIntact
-----------------------------------------------------------------------------
(* Sequence-number arithmetic. *)

(* Division with remainder. *)
LEMMA DivMod ==
  ASSUME NEW a \in Nat, NEW m \in Nat \ {0}
  PROVE  a = m * (a \div m) + (a % m) /\ a % m \in 0..(m - 1) /\ a \div m \in Int
  OBVIOUS

(* The only multiple of m strictly between -m and m is 0. *)
LEMMA SmallMultiple ==
  ASSUME NEW m \in Nat \ {0}, NEW q \in Int, m * q < m, m * q > -m
  PROVE  q = 0
<1>1. CASE q >= 1
  <2>1. m * q >= m BY <1>1, Z3
  <2> QED BY <2>1
<1>2. CASE q <= -1
  <2>1. m * q <= -m BY <1>2, Z3
  <2> QED BY <2>1
<1> QED BY <1>1, <1>2

(* The successor modulo m, taken of the residue as the code takes it. *)
LEMMA ModSucc ==
  ASSUME NEW i \in Nat, NEW m \in Nat \ {0}
  PROVE  ((i % m) + 1) % m = (i + 1) % m
<1> DEFINE r == i % m
           q == i \div m
           x == (i + 1) % m
           u == (i + 1) \div m
           y == (r + 1) % m
           v == (r + 1) \div m
<1>1. i = m * q + r /\ r \in 0..(m - 1) /\ q \in Int BY DivMod
<1>2. i + 1 = m * u + x /\ x \in 0..(m - 1) /\ u \in Int BY DivMod
<1>3. r + 1 \in Nat BY <1>1
<1>4. r + 1 = m * v + y /\ y \in 0..(m - 1) /\ v \in Int
  <2> HIDE DEF r
  <2> QED BY <1>3, DivMod
<1> HIDE DEF r, q, x, u, y, v
<1>5. x - y = m * q + m * v - m * u BY <1>1, <1>2, <1>4
<1>6. m * q + m * v - m * u = m * (q + v - u) BY <1>1, <1>2, <1>4
<1>7. q + v - u = 0 BY <1>1, <1>2, <1>4, <1>5, <1>6, SmallMultiple
<1>8. x = y BY <1>5, <1>6, <1>7, <1>1, <1>2, <1>4
<1> QED BY <1>8 DEF x, y, r

(* Two packets less than m apart with one sequence number are one packet. *)
LEMMA SameResidue ==
  ASSUME NEW i \in Nat, NEW j \in Nat, NEW m \in Nat \ {0},
         i % m = j % m, i - j < m, j - i < m
  PROVE  i = j
<1> DEFINE a == i \div m
           b == j \div m
<1>1. i = m * a + (i % m) /\ j = m * b + (j % m) /\ a \in Int /\ b \in Int BY DivMod
<1> HIDE DEF a, b
<1>2. i - j = m * a - m * b BY <1>1
<1>3. m * a - m * b = m * (a - b) BY <1>1
<1>4. a - b = 0 BY <1>1, <1>2, <1>3, SmallMultiple
<1> QED BY <1>4, <1>1

(* The sequence check of Push is exact within the skew: it passes only the
   packet after the last one. *)
LEMMA NoGapIsNext ==
  ASSUME NEW i \in Nat, NEW j \in Nat, MaxSkew + 1 < SeqMod,
         i - j \in -MaxSkew..MaxSkew, SequenceOf(i) = SequenceOf(j + 1)
  PROVE  i = j + 1
<1>1. SeqMod \in Nat \ {0} /\ MaxSkew \in Nat BY SeqAssumption
<1>2. i - (j + 1) < SeqMod /\ (j + 1) - i < SeqMod BY <1>1
<1>3. i % SeqMod = (j + 1) % SeqMod /\ j + 1 \in Nat BY DEF SequenceOf
<1> QED BY <1>1, <1>2, <1>3, SameResidue
-----------------------------------------------------------------------------
(* What Push does with one packet, given a sound state. *)

(* The codec Push settles on is the stream's, if it settles on one. *)
LEMMA KnownCodec ==
  ASSUME SafeSetting, TypeOK, DetectionRight, NEW i \in DOMAIN stream.packets
  PROVE  (IF codec = "Unknown" THEN DetectCodec(stream.packets[i].payload) ELSE codec)
            \in {"Unknown", stream.codec}
BY DEF SafeSetting, TypeOK, DetectionRight, Detectable

(* A fragment is neither a runt nor a single NAL nor an aggregate. *)
LEMMA FuKind ==
  ASSUME NEW c \in Codecs, NEW p, Len(p) \in Nat, IsFu(c, p)
  PROVE  ~IsRunt(c, p) /\ ~IsSingle(c, p) /\ ~IsAggregate(c, p)
<1>1. ~IsRunt(c, p) BY DEF IsFu, IsRunt, FuHeaderLen, Codecs
<1>2. ~IsSingle(c, p)
  <2>1. CASE c = "H264"
    <3>1. H264Type(p) = 28 BY <2>1 DEF IsFu
    <3>2. H264Type(p) \notin 1..23 BY <3>1
    <3> QED BY <2>1, <3>2 DEF IsSingle
  <2>2. CASE c = "H265"
    <3>1. H265Type(p) = 49 BY <2>2 DEF IsFu
    <3>2. ~(H265Type(p) <= 47) BY <3>1
    <3> QED BY <2>2, <3>2 DEF IsSingle
  <2> QED BY <2>1, <2>2 DEF Codecs
<1>3. ~IsAggregate(c, p) BY DEF IsFu, IsAggregate, Codecs
<1> QED BY <1>1, <1>2, <1>3

(* An element of a sequence. *)
LEMMA SeqElement ==
  ASSUME NEW S, NEW q \in Seq(S), NEW i \in DOMAIN q
  PROVE  q[i] \in S /\ i \in Nat
OBVIOUS

(* Payloads of a well-formed stream. *)
LEMMA PayloadFacts ==
  ASSUME NEW s \in Streams, NEW i \in DOMAIN s.packets
  PROVE  /\ Len(s.packets[i].payload) \in Nat
         /\ s.packets[i].upto \in Seq(Byte)
         /\ s.codec \in Codecs
         /\ i \in Nat
<1> DEFINE P == [payload : Seq(Byte) \ {<<>>}, upto : Seq(Byte)]
<1>1. s.packets \in Seq(P) /\ s.codec \in Codecs BY StreamsAssumption DEF WellFormed
<1>2. s.packets[i] \in P /\ i \in Nat
  <2> HIDE DEF P
  <2> QED BY <1>1, SeqElement
<1>3. s.packets[i].payload \in Seq(Byte) /\ s.packets[i].upto \in Seq(Byte) BY <1>2
<1> QED BY <1>1, <1>2, <1>3

(* What the fragments of a well-formed stream make up. *)
LEMMA FragmentFacts ==
  ASSUME NEW s \in Streams, NEW i \in DOMAIN s.packets, FuAt(s, i)
  PROVE  /\ StartAt(s, i) => s.packets[i].upto =
              RebuiltHeader(s.codec, s.packets[i].payload) \o FuBody(s.codec, s.packets[i].payload)
         /\ EndAt(s, i) => s.packets[i].upto \in s.nals
         /\ ~EndAt(s, i) /\ i + 1 \in DOMAIN s.packets =>
              /\ FuAt(s, i + 1)
              /\ ~StartAt(s, i + 1)
              /\ s.packets[i + 1].upto =
                   s.packets[i].upto \o FuBody(s.codec, s.packets[i + 1].payload)
BY StreamsAssumption DEF WellFormed, FragmentsInOrder

(* Whole NAL units are the ones sent. *)
LEMMA WholeFacts ==
  ASSUME NEW s \in Streams, NEW i \in DOMAIN s.packets
  PROVE  /\ IsSingle(s.codec, s.packets[i].payload) => s.packets[i].payload \in s.nals
         /\ IsAggregate(s.codec, s.packets[i].payload) =>
              \A n \in 1..Len(AggregateWalk(s.codec, s.packets[i].payload).nals) :
                 AggregateWalk(s.codec, s.packets[i].payload).nals[n] \in s.nals
BY StreamsAssumption DEF WellFormed, WholeNals
-----------------------------------------------------------------------------
(* The reassembly state agrees with packet i: if a fragment is in flight, i
   is a fragment, not the last of its NAL, and buf holds all up to it. *)
Agrees(i, infl, buf) ==
    infl => FuAt(stream, i) /\ ~EndAt(stream, i) /\ buf = stream.packets[i].upto

(* A result of Push with its fields in range and only NAL units sent. *)
SoundResult(r) ==
    /\ DOMAIN r = {"ret", "nals", "dropped", "broken"}
    /\ r.ret \in BOOLEAN
    /\ r.dropped \in 0..1
    /\ r.broken \in 0..2
    /\ \A n \in 1..Len(r.nals) : r.nals[n] \in stream.nals

(* An outcome of the handlers that the invariant allows after packet i. *)
SoundOutcome(i, out) ==
    /\ out.inFragment \in BOOLEAN
    /\ out.fragment \in Seq(Byte)
    /\ Agrees(i, out.inFragment, out.fragment)
    /\ SoundResult(out.result)

(* Reading back the fields of an outcome. *)
LEMMA OutcomeSound ==
  ASSUME NEW i, NEW c, NEW infl \in BOOLEAN, NEW buf \in Seq(Byte),
         Agrees(i, infl, buf), NEW ret \in BOOLEAN, NEW nals,
         \A n \in 1..Len(nals) : nals[n] \in stream.nals,
         NEW dropped \in 0..1, NEW broken \in 0..2
  PROVE  SoundOutcome(i, Outcome(infl, buf, ret, nals, dropped, broken))
<1> DEFINE r == [ret |-> ret, nals |-> nals, dropped |-> dropped, broken |-> broken]
           out == [inFragment |-> infl, fragment |-> buf, result |-> r]
<1>1. r.ret = ret /\ r.nals = nals /\ r.dropped = dropped /\ r.broken = broken
  BY Zenon
<1>2. DOMAIN r = {"ret", "nals", "dropped", "broken"} OBVIOUS
<1>3. SoundResult(r)
  <2> HIDE DEF r
  <2> QED BY <1>1, <1>2 DEF SoundResult
<1>4. out.inFragment = infl /\ out.fragment = buf /\ out.result = r
  <2> HIDE DEF r
  <2> QED BY Zenon
<1>5. out = Outcome(infl, buf, ret, nals, dropped, broken) BY DEF Outcome
<1> HIDE DEF r, out
<1> QED BY <1>3, <1>4, <1>5 DEF SoundOutcome

(* The counts of one Push, and the empty list of NAL units. *)
LEMMA Ranges ==
  ASSUME NEW lost \in 0..1
  PROVE  /\ lost \in 0..2 /\ lost + 1 \in 0..2 /\ 0 \in 0..1 /\ 1 \in 0..1
         /\ TRUE \in BOOLEAN /\ FALSE \in BOOLEAN
         /\ \A n \in 1..Len(<<>>) : <<>>[n] \in stream.nals
OBVIOUS

(* A fragment handled in a state that agrees with the packet before it. *)
LEMMA HandleFragmentSound ==
  ASSUME stream \in Streams, NEW i \in DOMAIN stream.packets, FuAt(stream, i),
         NEW infl \in BOOLEAN, NEW frag \in Seq(Byte), NEW lost \in 0..1,
         Agrees(i - 1, infl, frag)
  PROVE  SoundOutcome(i, HandleFragment(stream.codec, stream.packets[i].payload,
                                        infl, frag, lost))
<1> DEFINE c == stream.codec
           p == stream.packets[i].payload
           start == StartBit(FuHeader(c, p))
           whole == (IF start THEN RebuiltHeader(c, p) ELSE frag) \o FuBody(c, p)
<1>1. i \in Nat /\ stream.packets[i].upto \in Seq(Byte) BY PayloadFacts
<1>2. CASE ~start /\ ~infl
  <2>1. HandleFragment(c, p, infl, frag, lost) = Outcome(infl, frag, FALSE, <<>>, 0, lost + 1)
    BY <1>2 DEF HandleFragment
  <2>2. Agrees(i, infl, frag) BY <1>2 DEF Agrees
  <2> QED BY <2>1, <2>2, Ranges, OutcomeSound
<1>3. CASE start \/ infl
  <2>1. whole = stream.packets[i].upto
    <3>1. CASE start
      <4>1. StartAt(stream, i) BY <3>1 DEF StartAt
      <4>2. stream.packets[i].upto = RebuiltHeader(c, p) \o FuBody(c, p) BY <4>1, FragmentFacts
      <4> QED BY <3>1, <4>2
    <3>2. CASE ~start
      <4>1. FuAt(stream, i - 1) /\ ~EndAt(stream, i - 1) /\ frag = stream.packets[i - 1].upto
        BY <1>3, <3>2 DEF Agrees
      <4>2. i - 1 \in DOMAIN stream.packets BY <4>1 DEF FuAt
      <4>3. (i - 1) + 1 = i BY <1>1
      <4>4. stream.packets[i].upto = frag \o FuBody(c, p) BY <4>1, <4>2, <4>3, FragmentFacts
      <4> QED BY <3>2, <4>4
    <3> QED BY <3>1, <3>2
  <2>2. CASE EndBit(FuHeader(c, p))
    <3>1. HandleFragment(c, p, infl, frag, lost) = Outcome(FALSE, <<>>, TRUE, <<whole>>, 0, lost)
      BY <1>3, <2>2 DEF HandleFragment
    <3>2. whole \in stream.nals BY <2>1, <2>2, FragmentFacts DEF EndAt
    <3> HIDE DEF whole
    <3>3. Agrees(i, FALSE, <<>>) /\ <<>> \in Seq(Byte) BY DEF Agrees
    <3>4. \A n \in 1..Len(<<whole>>) : <<whole>>[n] \in stream.nals BY <3>2
    <3> QED BY <3>1, <3>3, <3>4, Ranges, OutcomeSound
  <2>3. CASE ~EndBit(FuHeader(c, p))
    <3>1. HandleFragment(c, p, infl, frag, lost) = Outcome(TRUE, whole, TRUE, <<>>, 0, lost)
      BY <1>3, <2>3 DEF HandleFragment
    <3>2. ~EndAt(stream, i) BY <2>3 DEF EndAt
    <3> HIDE DEF whole
    <3>3. Agrees(i, TRUE, whole) /\ whole \in Seq(Byte) BY <1>1, <2>1, <3>2 DEF Agrees
    <3> QED BY <3>1, <3>3, Ranges, OutcomeSound
  <2> QED BY <2>2, <2>3
<1> QED BY <1>2, <1>3

(* Any packet of the stream, handled for the stream's codec. *)
LEMMA HandlePayloadSound ==
  ASSUME stream \in Streams, NEW i \in DOMAIN stream.packets,
         NEW infl \in BOOLEAN, NEW frag \in Seq(Byte), NEW lost \in 0..1,
         Agrees(i - 1, infl, frag)
  PROVE  SoundOutcome(i, HandlePayload(stream.codec, stream.packets[i].payload,
                                       infl, frag, lost))
<1> DEFINE c == stream.codec
           p == stream.packets[i].payload
           out == HandlePayload(c, p, infl, frag, lost)
<1>1. i \in Nat /\ c \in Codecs /\ Len(p) \in Nat BY PayloadFacts
<1>2. CASE FuAt(stream, i)
  <2>1. IsFu(c, p) BY <1>2 DEF FuAt
  <2>2. ~IsRunt(c, p) /\ ~IsSingle(c, p) /\ ~IsAggregate(c, p) BY <1>1, <2>1, FuKind
  <2>3. out = HandleFragment(c, p, infl, frag, lost) BY <2>1, <2>2 DEF HandlePayload
  <2> QED BY <1>2, <2>3, HandleFragmentSound
<1>3. CASE ~FuAt(stream, i)
  <2>1. ~IsFu(c, p) BY <1>3 DEF FuAt
  <2>2. ~infl
    <3>1. SUFFICES ASSUME infl PROVE FALSE OBVIOUS
    <3>2. FuAt(stream, i - 1) /\ ~EndAt(stream, i - 1) BY <3>1 DEF Agrees
    <3>3. i - 1 \in DOMAIN stream.packets /\ (i - 1) + 1 = i BY <1>1, <3>2 DEF FuAt
    <3> QED BY <1>3, <3>2, <3>3, FragmentFacts
  <2>7. Agrees(i, infl, frag) BY <2>2 DEF Agrees
  <2>3. CASE IsRunt(c, p)
    <3>1. out = Outcome(infl, frag, FALSE, <<>>, 0, lost) BY <2>3 DEF HandlePayload
    <3> QED BY <2>7, <3>1, Ranges, OutcomeSound
  <2>4. CASE ~IsRunt(c, p) /\ IsSingle(c, p)
    <3>1. out = Outcome(infl, frag, TRUE, <<p>>, 0, lost) BY <2>4 DEF HandlePayload
    <3>2. p \in stream.nals BY <2>4, WholeFacts
    <3>3. \A n \in 1..Len(<<p>>) : <<p>>[n] \in stream.nals
      <4> HIDE DEF p
      <4> QED BY <3>2
    <3> QED BY <2>7, <3>1, <3>3, Ranges, OutcomeSound
  <2>5. CASE ~IsRunt(c, p) /\ ~IsSingle(c, p) /\ IsAggregate(c, p)
    <3> DEFINE w == AggregateWalk(c, p)
    <3>1. out = IF w.ok THEN Outcome(infl, frag, TRUE, w.nals, 0, lost)
                ELSE Outcome(infl, frag, FALSE, w.nals, 1, lost)
      BY <2>5 DEF HandlePayload
    <3>2. \A n \in 1..Len(w.nals) : w.nals[n] \in stream.nals BY <2>5, WholeFacts
    <3>3. CASE w.ok
      <4>1. out = Outcome(infl, frag, TRUE, w.nals, 0, lost) BY <3>1, <3>3
      <4> QED BY <2>7, <3>2, <4>1, Ranges, OutcomeSound
    <3>4. CASE ~w.ok
      <4>1. out = Outcome(infl, frag, FALSE, w.nals, 1, lost) BY <3>1, <3>4
      <4> QED BY <2>7, <3>2, <4>1, Ranges, OutcomeSound
    <3> QED BY <3>3, <3>4
  <2>6. CASE ~IsRunt(c, p) /\ ~IsSingle(c, p) /\ ~IsAggregate(c, p)
    <3>1. out = Outcome(infl, frag, FALSE, <<>>, 1, lost) BY <2>1, <2>6 DEF HandlePayload
    <3> QED BY <2>7, <3>1, Ranges, OutcomeSound
  <2> QED BY <2>3, <2>4, <2>5, <2>6
<1> QED BY <1>2, <1>3
-----------------------------------------------------------------------------
(* set_codec stores the stream's codec, or AUTO where Push reads codec_ once. *)
LEMMA SettableSafe ==
  ASSUME SafeSetting
  PROVE  /\ \A c \in Settable : c \in {"Unknown", stream.codec}
         /\ CodecReload => \A c \in Settable : c = stream.codec
BY DEF SafeSetting, Settable

(* After the sequence check the reassembly state agrees with the packet
   before the one pushed: this is where the check, and the bound on the
   skew, are needed. *)
LEMMA AfterSequenceCheck ==
  ASSUME SafeSetting, IInv, NEW i \in DOMAIN stream.packets, WithinSkew(i)
  PROVE  LET gap == GapDetected(SequenceOf(i))
         IN  Agrees(i - 1, inFragment /\ ~gap, IF gap THEN <<>> ELSE fragment)
<1> DEFINE gap == GapDetected(SequenceOf(i))
<1>1. SUFFICES ASSUME inFragment, ~gap
               PROVE  Agrees(i - 1, TRUE, fragment)
  BY DEF Agrees
<1>2. expectedSeq = SequenceOf(lastIdx + 1) /\ FuAt(stream, lastIdx)
      /\ ~EndAt(stream, lastIdx) /\ fragment = stream.packets[lastIdx].upto
  BY <1>1 DEF IInv, FragmentIsPrefix
<1>3. SequenceOf(i) = SequenceOf(lastIdx + 1) BY <1>1, <1>2 DEF GapDetected
<1>4. i - lastIdx \in -MaxSkew..MaxSkew BY <1>1 DEF WithinSkew
<1>5. i \in Nat /\ lastIdx \in Nat BY PayloadFacts DEF IInv, TypeOK
<1>6. MaxSkew + 1 < SeqMod BY DEF SafeSetting
<1>7. i = lastIdx + 1 BY <1>3, <1>4, <1>5, <1>6, NoGapIsNext
<1>8. i - 1 = lastIdx BY <1>5, <1>7
<1> QED BY <1>2, <1>8 DEF Agrees

(* One Push keeps the invariant. *)
LEMMA PushSafe ==
  ASSUME SafeSetting, IInv, NEW i \in DOMAIN stream.packets, NEW racing,
         racing = "none" \/ (CodecReload /\ racing \in Settable),
         Push(i, racing)
  PROVE  IInv'
<1> DEFINE p     == stream.packets[i].payload
           gap   == GapDetected(SequenceOf(i))
           infl  == inFragment /\ ~gap
           frag  == IF gap THEN <<>> ELSE fragment
           lost  == IF gap THEN 1 ELSE 0
           known == IF codec = "Unknown" THEN DetectCodec(p) ELSE codec
           used  == IF racing = "none" THEN known ELSE racing
           out   == IF known = "Unknown" THEN Outcome(infl, frag, FALSE, <<>>, 1, lost)
                    ELSE HandlePayload(IF used = "H264" THEN "H264" ELSE "H265",
                                       p, infl, frag, lost)
<1>1. /\ WithinSkew(i)
      /\ expectedSeq' = ExpectedAfter(SequenceOf(i))
      /\ codec' = used
      /\ inFragment' = out.inFragment
      /\ fragment' = out.fragment
      /\ result' = out.result
      /\ lastIdx' = i
      /\ runStart' = IF i = lastIdx + 1 THEN runStart ELSE i
      /\ stream' = stream
  BY DEF Push
<1>2. /\ stream \in Streams /\ i \in Nat /\ stream.codec \in Codecs
      /\ inFragment \in BOOLEAN /\ fragment \in Seq(Byte)
  BY PayloadFacts DEF IInv, TypeOK
<1>3. infl \in BOOLEAN /\ frag \in Seq(Byte) /\ lost \in 0..1 BY <1>2
<1>4. Agrees(i - 1, infl, frag) BY <1>1, AfterSequenceCheck
<1>5. known \in {"Unknown", stream.codec} BY KnownCodec DEF IInv
<1>6. used \in {"Unknown", stream.codec} /\ (known # "Unknown" => used = stream.codec)
  BY <1>5, SettableSafe
<1>7. SoundOutcome(i, out)
  <2>1. CASE known = "Unknown"
    <3>1. ~infl
      <4>1. SUFFICES ASSUME infl PROVE FALSE OBVIOUS
      <4>2. FuAt(stream, i - 1) /\ ~EndAt(stream, i - 1) BY <4>1, <1>4 DEF Agrees
      <4>3. i - 1 \in DOMAIN stream.packets /\ (i - 1) + 1 = i BY <4>2, <1>2 DEF FuAt
      <4>4. FuAt(stream, i) BY <1>2, <4>2, <4>3, FragmentFacts
      <4>5. DetectCodec(p) = stream.codec BY <1>2, <4>4 DEF SafeSetting, Detectable
      <4> QED BY <1>2, <2>1, <4>5 DEF IInv, DetectionRight, Codecs
    <3>2. Agrees(i, infl, frag) BY <3>1 DEF Agrees
    <3>3. out = Outcome(infl, frag, FALSE, <<>>, 1, lost) BY <2>1
    <3> HIDE DEF infl, frag, lost, out
    <3> QED BY <1>3, <3>2, <3>3, Ranges, OutcomeSound
  <2>2. CASE known # "Unknown"
    <3>1. (IF used = "H264" THEN "H264" ELSE "H265") = stream.codec
      BY <1>2, <1>6, <2>2 DEF Codecs
    <3>2. out = HandlePayload(stream.codec, p, infl, frag, lost) BY <2>2, <3>1
    <3> HIDE DEF infl, frag, lost, out
    <3> QED BY <1>2, <1>3, <1>4, <3>2, HandlePayloadSound
  <2> QED BY <2>1, <2>2
<1>8. SequenceOf(i + 1) = expectedSeq' /\ expectedSeq' \in 0..(SeqMod - 1)
  <2>1. SeqMod \in Nat \ {0} BY SeqAssumption
  <2>2. ((i % SeqMod) + 1) % SeqMod = (i + 1) % SeqMod BY <1>2, <2>1, ModSucc
  <2>3. (i + 1) % SeqMod \in 0..(SeqMod - 1) BY <1>2, <2>1
  <2> QED BY <1>1, <2>2, <2>3 DEF SequenceOf, ExpectedAfter
<1> HIDE DEF out, used, infl, frag, lost, gap, known
<1>9. TypeOK'
  <2>1. runStart' \in Nat BY <1>1, <1>2 DEF IInv, TypeOK
  <2>2. codec' \in Codecs \cup {"Unknown"} BY <1>1, <1>2, <1>6
  <2>3. inFragment' \in BOOLEAN /\ fragment' \in Seq(Byte) BY <1>1, <1>7 DEF SoundOutcome
  <2>4. SoundResult(result') BY <1>1, <1>7 DEF SoundOutcome
  <2> QED BY <1>1, <1>2, <1>8, <2>1, <2>2, <2>3, <2>4 DEF TypeOK, SoundResult
<1>10. DetectionRight' BY <1>1, <1>6 DEF DetectionRight
<1>11. FragmentIsPrefix'
  <2>1. inFragment' => FuAt(stream, i) /\ ~EndAt(stream, i) /\ fragment' = stream.packets[i].upto
    BY <1>1, <1>7 DEF SoundOutcome, Agrees
  <2> QED BY <1>1, <1>8, <2>1 DEF FragmentIsPrefix, FuAt, EndAt, SequenceOf
<1>12. NalIntact' BY <1>1, <1>7 DEF SoundOutcome, SoundResult, NalIntact
<1> QED BY <1>9, <1>10, <1>11, <1>12 DEF IInv

(* Every step keeps the invariant. *)
LEMMA StepSafe ==
  ASSUME SafeSetting, IInv, [Next]_vars
  PROVE  IInv'
<1>1. CASE Deliver
  <2>1. PICK i \in DOMAIN stream.packets : Push(i, "none") BY <1>1 DEF Deliver
  <2> QED BY <2>1, PushSafe
<1>2. CASE DeliverRacingSetCodec
  <2>1. PICK i \in DOMAIN stream.packets, c \in Settable : Push(i, c)
    BY <1>2 DEF DeliverRacingSetCodec
  <2>2. CodecReload BY <1>2 DEF DeliverRacingSetCodec
  <2> QED BY <2>1, <2>2, PushSafe
<1>3. CASE PushMalformed
  <2> USE <1>3 DEF PushMalformed, IInv
  <2>1. TypeOK' BY DEF TypeOK
  <2>2. DetectionRight' BY DEF DetectionRight
  <2>3. FragmentIsPrefix' BY DEF FragmentIsPrefix, FuAt, EndAt, SequenceOf
  <2>4. NalIntact' BY DEF NalIntact
  <2> QED BY <2>1, <2>2, <2>3, <2>4
<1>4. CASE SetCodec
  <2> USE <1>4 DEF SetCodec, IInv
  <2>0. codec' \in {"Unknown", stream.codec} /\ stream.codec \in Codecs
    BY SettableSafe, StreamsAssumption DEF TypeOK, WellFormed
  <2>1. TypeOK' BY <2>0 DEF TypeOK
  <2>2. DetectionRight' BY <2>0 DEF DetectionRight
  <2>3. FragmentIsPrefix' BY DEF FragmentIsPrefix, FuAt, EndAt, SequenceOf
  <2>4. NalIntact' BY DEF NalIntact
  <2> QED BY <2>1, <2>2, <2>3, <2>4
<1>5. CASE UNCHANGED vars
  <2> USE <1>5 DEF vars, IInv
  <2>1. TypeOK' BY DEF TypeOK
  <2>2. DetectionRight' BY DEF DetectionRight
  <2>3. FragmentIsPrefix' BY DEF FragmentIsPrefix, FuAt, EndAt, SequenceOf
  <2>4. NalIntact' BY DEF NalIntact
  <2> QED BY <2>1, <2>2, <2>3, <2>4
<1> QED BY <1>1, <1>2, <1>3, <1>4, <1>5 DEF Next

(* The depacketiser starts in a sound state. *)
LEMMA InitSafe ==
  ASSUME SafeSetting, Init
  PROVE  IInv
<1> USE DEF Init
<1>0. codec \in {"Unknown", stream.codec} /\ stream.codec \in Codecs
  BY SettableSafe, StreamsAssumption DEF WellFormed
<1>1. TypeOK
  <2>1. 0 \in 0..(SeqMod - 1) BY SeqAssumption
  <2>2. DOMAIN result = {"ret", "nals", "dropped", "broken"} BY DEF NoResult
  <2>3. result.ret \in BOOLEAN BY DEF NoResult
  <2>4. result.dropped \in 0..1 /\ result.broken \in 0..2 BY DEF NoResult
  <2>5. fragment \in Seq(Byte) OBVIOUS
  <2>6. inFragment \in BOOLEAN OBVIOUS
  <2>7. lastIdx \in Nat /\ runStart \in Nat OBVIOUS
  <2> QED BY <1>0, <2>1, <2>2, <2>3, <2>4, <2>5, <2>6, <2>7 DEF TypeOK
<1>2. DetectionRight /\ FragmentIsPrefix /\ NalIntact
  BY <1>0 DEF DetectionRight, FragmentIsPrefix, NalIntact, NoResult
<1> QED BY <1>1, <1>2 DEF IInv

(* In a safe setting every NAL unit that Push hands to the decoder is one
   the air unit sent, whatever the link lost, duplicated or reordered
   (RtpDepacketizer::Push, HandleH264, HandleH265). *)
THEOREM ReassemblyIntact ==
  ASSUME SafeSetting
  PROVE  Spec => []NalIntact
<1>1. Init => IInv BY InitSafe
<1>2. IInv /\ [Next]_vars => IInv' BY StepSafe
<1>3. IInv => NalIntact BY DEF IInv
<1> QED BY <1>1, <1>2, <1>3, PTL DEF Spec

(* In a safe setting the state keeps its types and fragment_ is, at every
   moment a fragment is in flight, the prefix of the NAL unit up to the
   packet last seen. *)
THEOREM FragmentAlwaysPrefix ==
  ASSUME SafeSetting
  PROVE  Spec => [](TypeOK /\ FragmentIsPrefix)
<1>1. Init => IInv BY InitSafe
<1>2. IInv /\ [Next]_vars => IInv' BY StepSafe
<1>3. IInv => TypeOK /\ FragmentIsPrefix BY DEF IInv
<1> QED BY <1>1, <1>2, <1>3, PTL DEF Spec

-----------------------------------------------------------------------------
(* What the detector can tell. *)

(* A packet of an H.265 stream with a legal header is taken for H.265, one
   without a whole header for nothing. *)
LEMMA LegalIsH265 ==
  ASSUME NEW p, Len(p) \in Nat
  PROVE  /\ LegalH265(p) => DetectCodec(p) = "H265"
         /\ Len(p) < 2 => DetectCodec(p) = "Unknown"
<1>1. ASSUME LegalH265(p) PROVE DetectCodec(p) = "H265"
  <2>1. ~(Len(p) < 2) /\ ~Forbidden(p) /\ p[2] % 8 # 0 BY <1>1 DEF LegalH265
  <2>2. H265Type(p) \in (0..40) \cup {48, 49} BY <1>1 DEF LegalH265
  <2>3. H265Type(p) <= 40 \/ H265Type(p) \in {48, 49}
    <3>1. \A x \in (0..40) \cup {48, 49} : x <= 40 \/ x \in {48, 49} BY SMT
    <3> QED BY <2>2, <3>1, Zenon
  <2> QED BY <2>1, <2>3 DEF DetectCodec
<1>2. Len(p) < 2 => DetectCodec(p) = "Unknown" BY DEF DetectCodec
<1> QED BY <1>1, <1>2

(* The packets of an H.265 stream: legal, or cut too short for a header. *)
Legal(s) ==
    s.codec = "H265" =>
        \A i \in DOMAIN s.packets :
            LegalH265(s.packets[i].payload) \/ Len(s.packets[i].payload) < 2

H265Inv ==
    /\ stream \in Streams
    /\ stream.codec = "H265" => codec \in {"Unknown", "H265"}
    /\ H265Recognised

(* For every H.265 stream with legal headers, whatever packets are heard and
   however often set_codec is called with H.265, and races with Push: the
   codec is never taken for H.264, and the first packet with a whole header
   settles it (DetectCodec, Push).  No such thing is true of H.264. *)
THEOREM H265AlwaysRecognised ==
  ASSUME CodecChoices \subseteq {"same"}, \A s \in Streams : Legal(s)
  PROVE  Spec => []H265Recognised
<1>0. \A c \in Settable : c = stream.codec BY DEF Settable
<1>1. ASSUME Init PROVE H265Inv
  <2>1. stream \in Streams /\ codec \in Settable \cup {"Unknown"} /\ lastIdx = 0
    BY <1>1 DEF Init
  <2>2. stream.codec = "H265" => codec \in {"Unknown", "H265"} BY <1>0, <2>1
  <2>3. H265Recognised BY <2>1, <2>2 DEF H265Recognised
  <2> QED BY <2>1, <2>2, <2>3 DEF H265Inv
<1>2. ASSUME H265Inv, [Next]_vars PROVE H265Inv'
  <2> SUFFICES ASSUME stream.codec = "H265"
               PROVE  /\ stream' = stream
                      /\ codec' \in {"Unknown", "H265"}
                      /\ (/\ lastIdx' # 0
                          /\ LegalH265(stream.packets[lastIdx'].payload))
                            => codec' = "H265"
    <3>1. stream' = stream
      BY <1>2 DEF Next, Deliver, DeliverRacingSetCodec, Push, PushMalformed, SetCodec, vars
    <3> QED BY <1>2, <3>1 DEF H265Inv, H265Recognised
  <2>0. /\ stream \in Streams /\ codec \in {"Unknown", "H265"}
        /\ (lastIdx # 0 /\ LegalH265(stream.packets[lastIdx].payload)) => codec = "H265"
    BY <1>2 DEF H265Inv, H265Recognised
  <2>1. ASSUME NEW i \in DOMAIN stream.packets, NEW racing, Push(i, racing),
               racing = "none" \/ racing \in Settable
        PROVE  /\ stream' = stream /\ codec' \in {"Unknown", "H265"}
               /\ LegalH265(stream.packets[lastIdx'].payload) => codec' = "H265"
    <3>1. PICK p : p = stream.packets[i].payload OBVIOUS
    <3>2. PICK known : known = IF codec = "Unknown" THEN DetectCodec(p) ELSE codec OBVIOUS
    <3>3. /\ stream' = stream /\ lastIdx' = i
          /\ codec' = IF racing = "none" THEN known ELSE racing
      BY <2>1, <3>1, <3>2 DEF Push
    <3>4. LegalH265(p) \/ Len(p) < 2 BY <2>0, <3>1 DEF Legal
    <3>5. DetectCodec(p) \in {"Unknown", "H265"} /\ (LegalH265(p) => DetectCodec(p) = "H265")
      <4>1. Len(p) \in Nat BY <2>0, <3>1, PayloadFacts
      <4> QED BY <3>4, <4>1, LegalIsH265
    <3>6. racing = "none" \/ racing = "H265" BY <1>0, <2>1
    <3> QED BY <2>0, <3>1, <3>2, <3>3, <3>5, <3>6
  <2>2. CASE Deliver BY <2>1, <2>2 DEF Deliver
  <2>3. CASE DeliverRacingSetCodec BY <2>1, <2>3 DEF DeliverRacingSetCodec
  <2>4. CASE PushMalformed BY <2>0, <2>4 DEF PushMalformed
  <2>5. CASE SetCodec BY <1>0, <2>0, <2>5 DEF SetCodec
  <2>6. CASE UNCHANGED vars BY <2>0, <2>6 DEF vars
  <2> QED BY <1>2, <2>2, <2>3, <2>4, <2>5, <2>6 DEF Next
<1>3. H265Inv => H265Recognised BY DEF H265Inv
<1> QED BY <1>1, <1>2, <1>3, PTL DEF Spec

(* The H.265 types the detector looks for, and the H.264 headers that do not
   have one of them. *)
PlausibleType(h) == h <= 40 \/ h \in {48, 49}
Distinct(q, r) == (q = 3 /\ r >= 4) \/ (q = 2 /\ r >= 18)

LEMMA HeaderBits ==
  \A b \in 0..127 : PlausibleType((b \div 2) % 64) <=> ~Distinct(b \div 32, b % 32)
<1> SUFFICES ASSUME NEW b \in 0..127,
                    NEW q, q = b \div 32, NEW r, r = b % 32, NEW h, h = (b \div 2) % 64
             PROVE  PlausibleType(h) <=> ~Distinct(q, r)
  OBVIOUS
<1>1. q \in Int /\ r \in Int /\ 0 <= q /\ q <= 3 /\ 0 <= r /\ r <= 31 /\ b = 32 * q + r BY SMT
<1>2. PICK x \in Int : x = r \div 2 /\ 0 <= x /\ x <= 15 /\ 2 * x <= r /\ r <= 2 * x + 1
  BY <1>1, SMT
<1>3. b \div 2 = 16 * q + x BY <1>1, <1>2, SMT
<1>4. h = 16 * q + x BY <1>1, <1>2, <1>3, SMT
<1> QED BY <1>1, <1>2, <1>4, SMT DEF PlausibleType, Distinct

(* Which H.264 packets are recognised as such: those whose second byte could
   not be that of an H.265 header, those of the highest nal_ref_idc that are
   neither slices nor partitions (parameter sets, IDR pictures, aggregates,
   fragments), and aggregates and fragments of the one below.  Every other
   H.264 packet is taken for H.265 (depacketizer.cpp:288-304). *)
THEOREM DetectionOfH264 ==
  ASSUME NEW p \in Seq(Byte), Len(p) >= 2, ~Forbidden(p),
         H264Type(p) \in (1..24) \cup {28}
  PROVE  DetectCodec(p) =
           IF \/ p[2] % 8 = 0
              \/ p[1] \div 32 = 3 /\ H264Type(p) >= 4
              \/ p[1] \div 32 = 2 /\ H264Type(p) >= 18
           THEN "H264" ELSE "H265"
<1>0. p[1] \in 0..255 /\ ~(p[1] >= 128)
  <2>1. 1 \in DOMAIN p OBVIOUS
  <2>2. p[1] \in Byte BY <2>1, SeqElement
  <2> QED BY <2>2 DEF Forbidden, Byte
<1>1. PICK b : b = p[1] /\ b \in 0..127
  <2>1. PICK b : b = p[1] OBVIOUS
  <2>2. b \in 0..255 /\ ~(b >= 128) BY ONLY <1>0, <2>1
  <2>3. b \in 0..127 BY ONLY <2>2, SMT
  <2> QED BY <2>1, <2>3
<1>2. PICK q, r, h : q = b \div 32 /\ r = b % 32 /\ h = (b \div 2) % 64 OBVIOUS
<1>3. PlausibleType(h) <=> ~Distinct(q, r) BY <1>1, <1>2, HeaderBits
<1>4. h = H265Type(p) /\ r = H264Type(p) /\ q = p[1] \div 32
  BY <1>1, <1>2 DEF H264Type, H265Type
<1> HIDE DEF H264Type, H265Type, Forbidden
<1>5. ~(Len(p) < 2) OBVIOUS
<1>6. CASE p[2] % 8 = 0
  <2>1. DetectCodec(p) = "H264" BY <1>5, <1>6 DEF DetectCodec
  <2> QED BY <1>6, <2>1
<1>7. CASE p[2] % 8 # 0
  <2>1. CASE PlausibleType(h)
    <3>1. DetectCodec(p) = "H265" BY <1>4, <1>5, <1>7, <2>1 DEF DetectCodec, PlausibleType
    <3> QED BY <1>3, <1>4, <1>7, <2>1, <3>1 DEF Distinct
  <2>2. CASE ~PlausibleType(h)
    <3>1. DetectCodec(p) = "H264" BY <1>4, <1>5, <1>7, <2>2 DEF DetectCodec, PlausibleType
    <3> QED BY <1>3, <1>4, <1>7, <2>2, <3>1 DEF Distinct
  <2> QED BY <2>1, <2>2
<1> QED BY <1>6, <1>7
-----------------------------------------------------------------------------
(* What must come out. *)

(* After a fragment whose NAL unit arrived whole so far: the last one emits
   it, any other leaves it in flight. *)
Emits(i, out) ==
    IF EndAt(stream, i) THEN out.result.nals = <<stream.packets[i].upto>>
    ELSE out.inFragment = TRUE

Holds(out, infl, nals) == out.inFragment = infl /\ out.result.nals = nals

LEMMA OutcomeHolds ==
  ASSUME NEW infl, NEW buf, NEW ret, NEW nals, NEW dropped, NEW broken
  PROVE  Holds(Outcome(infl, buf, ret, nals, dropped, broken), infl, nals)
<1>1. PICK r : r = [ret |-> ret, nals |-> nals, dropped |-> dropped, broken |-> broken] OBVIOUS
<1>2. r.nals = nals BY <1>1
<1>3. PICK out : out = Outcome(infl, buf, ret, nals, dropped, broken) OBVIOUS
<1>4. out = [inFragment |-> infl, fragment |-> buf, result |-> r] BY <1>1, <1>3 DEF Outcome
<1>5. Holds(out, infl, nals) BY <1>2, <1>4 DEF Holds
<1> QED BY <1>3, <1>5

LEMMA HandleFragmentEmits ==
  ASSUME stream \in Streams, NEW i \in DOMAIN stream.packets, FuAt(stream, i),
         NEW infl \in BOOLEAN, NEW frag \in Seq(Byte), NEW lost \in 0..1,
         Agrees(i - 1, infl, frag), StartAt(stream, i) \/ infl
  PROVE  Emits(i, HandleFragment(stream.codec, stream.packets[i].payload, infl, frag, lost))
<1> DEFINE c == stream.codec
           p == stream.packets[i].payload
           start == StartBit(FuHeader(c, p))
           whole == (IF start THEN RebuiltHeader(c, p) ELSE frag) \o FuBody(c, p)
<1>1. i \in Nat BY PayloadFacts
<1>2. start \/ infl BY DEF StartAt
<1>3. whole = stream.packets[i].upto
  <2>1. CASE start
    <3>1. StartAt(stream, i) BY <2>1 DEF StartAt
    <3>2. stream.packets[i].upto = RebuiltHeader(c, p) \o FuBody(c, p) BY <3>1, FragmentFacts
    <3> QED BY <2>1, <3>2
  <2>2. CASE ~start
    <3>1. FuAt(stream, i - 1) /\ ~EndAt(stream, i - 1) /\ frag = stream.packets[i - 1].upto
      BY <1>2, <2>2 DEF Agrees
    <3>2. i - 1 \in DOMAIN stream.packets BY <3>1 DEF FuAt
    <3>3. (i - 1) + 1 = i BY <1>1
    <3>4. stream.packets[i].upto = frag \o FuBody(c, p) BY <3>1, <3>2, <3>3, FragmentFacts
    <3> QED BY <2>2, <3>4
  <2> QED BY <2>1, <2>2
<1>4. CASE EndBit(FuHeader(c, p))
  <2>1. HandleFragment(c, p, infl, frag, lost) = Outcome(FALSE, <<>>, TRUE, <<whole>>, 0, lost)
    BY <1>2, <1>4 DEF HandleFragment
  <2>2. EndAt(stream, i) BY <1>4 DEF EndAt
  <2>3. PICK h, w : h = HandleFragment(c, p, infl, frag, lost) /\ w = whole OBVIOUS
  <2>4. PICK l, e : l = <<w>> /\ e = <<>> OBVIOUS
  <2>5. h = Outcome(FALSE, e, TRUE, l, 0, lost) BY <2>1, <2>3, <2>4
  <2>6. Holds(Outcome(FALSE, e, TRUE, l, 0, lost), FALSE, l) BY OutcomeHolds, Zenon
  <2>7. h.result.nals = l BY <2>5, <2>6, Zenon DEF Holds
  <2> QED BY <1>3, <2>2, <2>3, <2>4, <2>7 DEF Emits
<1>5. CASE ~EndBit(FuHeader(c, p))
  <2>1. HandleFragment(c, p, infl, frag, lost) = Outcome(TRUE, whole, TRUE, <<>>, 0, lost)
    BY <1>2, <1>5 DEF HandleFragment
  <2>2. ~EndAt(stream, i) BY <1>5 DEF EndAt
  <2>3. PICK h, w : h = HandleFragment(c, p, infl, frag, lost) /\ w = whole OBVIOUS
  <2>4. h = Outcome(TRUE, w, TRUE, <<>>, 0, lost) BY <2>1, <2>3
  <2>5. Holds(Outcome(TRUE, w, TRUE, <<>>, 0, lost), TRUE, <<>>) BY OutcomeHolds, Zenon
  <2>6. h.inFragment = TRUE BY <2>4, <2>5, Zenon DEF Holds
  <2> QED BY <2>2, <2>3, <2>6 DEF Emits
<1> QED BY <1>4, <1>5

(* A NAL unit of which every fragment arrived, in order, is in flight. *)
RunInFlight ==
    FuAt(stream, lastIdx) /\ ~EndAt(stream, lastIdx) /\ RunCovers(runStart, lastIdx)
        => inFragment

EmitInv == IInv /\ RunInFlight

(* The run up to packet i, which is not a first fragment, covers the packet
   before it, and the sequence check lets i pass. *)
LEMMA RunGoesOn ==
  ASSUME EmitInv, NEW i \in DOMAIN stream.packets, FuAt(stream, i), ~StartAt(stream, i),
         NEW from, from = (IF i = lastIdx + 1 THEN runStart ELSE i), RunCovers(from, i)
  PROVE  inFragment /\ ~GapDetected(SequenceOf(i))
<1>1. stream \in Streams /\ lastIdx \in Nat /\ runStart \in Nat BY DEF EmitInv, IInv, TypeOK
<1>2. i \in Nat BY <1>1, PayloadFacts
<1>3. from \in Nat BY <1>1, <1>2
<1>4. PICK s \in from..i : FuAt(stream, s) /\ StartAt(stream, s)
                             /\ \A j \in s..(i - 1) : FuAt(stream, j) /\ ~EndAt(stream, j)
  BY DEF RunCovers
<1>5. s # i BY <1>4
<1>6. from # i BY <1>2, <1>3, <1>4, <1>5
<1>7. i = lastIdx + 1 /\ from = runStart BY <1>6
<1>8. s \in runStart..lastIdx /\ i - 1 = lastIdx BY <1>1, <1>2, <1>4, <1>5, <1>7
<1>9. \A j \in s..(lastIdx - 1) : j \in s..(i - 1) BY <1>1, <1>2, <1>8
<1>10. RunCovers(runStart, lastIdx) BY <1>4, <1>8, <1>9 DEF RunCovers
<1>11. lastIdx \in s..(i - 1) BY <1>1, <1>8
<1>12. FuAt(stream, lastIdx) /\ ~EndAt(stream, lastIdx) BY <1>4, <1>11
<1>13. inFragment BY <1>10, <1>12 DEF EmitInv, RunInFlight
<1>14. expectedSeq = SequenceOf(i) BY <1>7, <1>13 DEF EmitInv, IInv, FragmentIsPrefix
<1> QED BY <1>13, <1>14 DEF GapDetected

(* What a Push may not do: lose a NAL unit that arrived whole. *)
NalKept ==
    FuAt(stream, lastIdx') /\ RunCovers(runStart', lastIdx') =>
        IF EndAt(stream, lastIdx') THEN result'.nals = <<stream.packets[lastIdx'].upto>>
        ELSE inFragment'

LEMMA PushEmits ==
  ASSUME SafeSetting, EmitInv, NEW i \in DOMAIN stream.packets, NEW racing,
         racing = "none" \/ (CodecReload /\ racing \in Settable),
         Push(i, racing)
  PROVE  NalKept
<1> DEFINE p     == stream.packets[i].payload
           gap   == GapDetected(SequenceOf(i))
           infl  == inFragment /\ ~gap
           frag  == IF gap THEN <<>> ELSE fragment
           lost  == IF gap THEN 1 ELSE 0
           known == IF codec = "Unknown" THEN DetectCodec(p) ELSE codec
           used  == IF racing = "none" THEN known ELSE racing
           out   == IF known = "Unknown" THEN Outcome(infl, frag, FALSE, <<>>, 1, lost)
                    ELSE HandlePayload(IF used = "H264" THEN "H264" ELSE "H265",
                                       p, infl, frag, lost)
<1>1. /\ WithinSkew(i)
      /\ inFragment' = out.inFragment
      /\ result' = out.result
      /\ lastIdx' = i
      /\ runStart' = IF i = lastIdx + 1 THEN runStart ELSE i
      /\ stream' = stream
  BY DEF Push
<1>2. SUFFICES ASSUME FuAt(stream, i), RunCovers(runStart', i) PROVE Emits(i, out)
  BY <1>1 DEF Emits, NalKept
<1>3. /\ stream \in Streams /\ i \in Nat /\ stream.codec \in Codecs /\ Len(p) \in Nat
      /\ inFragment \in BOOLEAN /\ fragment \in Seq(Byte)
  BY PayloadFacts DEF EmitInv, IInv, TypeOK
<1>4. infl \in BOOLEAN /\ frag \in Seq(Byte) /\ lost \in 0..1 BY <1>3
<1>5. Agrees(i - 1, infl, frag) BY <1>1, AfterSequenceCheck DEF EmitInv
<1>6. known = stream.codec
  <2>1. DetectCodec(p) = stream.codec BY <1>2, <1>3 DEF SafeSetting, Detectable
  <2> QED BY <2>1, KnownCodec DEF EmitInv, IInv
<1>7. used = stream.codec /\ known # "Unknown" BY <1>3, <1>6, SettableSafe DEF Codecs
<1>8. (IF used = "H264" THEN "H264" ELSE "H265") = stream.codec BY <1>3, <1>7 DEF Codecs
<1>9. StartAt(stream, i) \/ infl BY <1>1, <1>2, RunGoesOn
<1>10. IsFu(stream.codec, p) BY <1>2 DEF FuAt
<1>11. ~IsRunt(stream.codec, p) /\ ~IsSingle(stream.codec, p) /\ ~IsAggregate(stream.codec, p)
  BY <1>3, <1>10, FuKind
<1>12. out = HandleFragment(stream.codec, p, infl, frag, lost)
  BY <1>7, <1>8, <1>10, <1>11 DEF HandlePayload
<1> HIDE DEF infl, frag, lost, out
<1> QED BY <1>2, <1>3, <1>4, <1>5, <1>9, <1>12, HandleFragmentEmits

LEMMA StepEmits ==
  ASSUME SafeSetting, EmitInv, [Next]_vars
  PROVE  /\ EmitInv'
         /\ UNCHANGED lastIdx \/ NalKept
<1>1. IInv' BY StepSafe DEF EmitInv
<1>2. CASE UNCHANGED <<stream, inFragment, lastIdx, runStart>>
  <2>1. RunInFlight' BY <1>2 DEF EmitInv, RunInFlight, RunCovers, FuAt, StartAt, EndAt
  <2> QED BY <1>1, <1>2, <2>1 DEF EmitInv
<1>3. CASE Deliver \/ DeliverRacingSetCodec
  <2>1. NalKept
    <3>1. CASE Deliver BY <3>1, PushEmits DEF Deliver
    <3>2. CASE DeliverRacingSetCodec BY <3>2, PushEmits DEF DeliverRacingSetCodec
    <3> QED BY <1>3, <3>1, <3>2
  <2>2. stream' = stream BY <1>3 DEF Deliver, DeliverRacingSetCodec, Push
  <2>3. RunInFlight' BY <2>1, <2>2 DEF NalKept, RunInFlight, RunCovers, FuAt, StartAt, EndAt
  <2> QED BY <1>1, <2>1, <2>3 DEF EmitInv
<1> QED BY <1>2, <1>3 DEF Next, PushMalformed, SetCodec, vars

(* In a safe setting a NAL unit whose fragments all arrive, in order, is
   emitted by its last fragment, whatever came before and whatever malformed
   datagrams come in between (RtpDepacketizer::Push, HandleH264,
   HandleH265). *)
THEOREM WholeNalsComeOut ==
  ASSUME SafeSetting
  PROVE  Spec => ConsecutiveNalEmitted
<1>1. Init => EmitInv
  <2> SUFFICES ASSUME Init PROVE EmitInv OBVIOUS
  <2>1. IInv BY InitSafe
  <2>2. lastIdx = 0 /\ stream \in Streams BY DEF Init
  <2>3. ~FuAt(stream, 0)
    <3>1. stream.packets \in Seq([payload : Seq(Byte) \ {<<>>}, upto : Seq(Byte)])
      BY <2>2, StreamsAssumption DEF WellFormed
    <3>2. 0 \notin DOMAIN stream.packets BY <3>1
    <3> QED BY <3>2 DEF FuAt
  <2> QED BY <2>1, <2>2, <2>3 DEF EmitInv, RunInFlight
<1>2. EmitInv /\ [Next]_vars =>
        /\ EmitInv'
        /\ [(lastIdx' # lastIdx /\ FuAt(stream, lastIdx') /\ EndAt(stream, lastIdx')
               /\ RunCovers(runStart', lastIdx'))
             => result'.nals = <<stream.packets[lastIdx'].upto>>]_vars
  BY StepEmits DEF NalKept
<1> QED BY <1>1, <1>2, PTL DEF Spec, ConsecutiveNalEmitted
-----------------------------------------------------------------------------
(* The RTP header: the parser stays inside the datagram, whatever its length
   and bytes, and finds what a sender encoded. *)

(* A byte is a small number. *)
LEMMA ByteRange ==
  ASSUME NEW b \in Octet
  PROVE  b \in Nat /\ b <= 255 /\ b % 16 \in 0..15
BY DEF Octet

(* The span of one accepted datagram. *)
LEMMA ParsedSpan ==
  ASSUME NEW d, Len(d) \in Nat, d[1] \in Octet, d[Len(d)] \in Octet,
         HasExtension(d) /\ CsrcEnd(d) + 4 <= Len(d) =>
             d[CsrcEnd(d) + 3] \in Octet /\ d[CsrcEnd(d) + 4] \in Octet,
         ParseRtp(d)
  PROVE  /\ PayloadOffset(d) \in kRtpHeaderSize..Len(d)
         /\ PayloadSize(d, PayloadOffset(d)) \in 0..Len(d)
         /\ PayloadOffset(d) + PayloadSize(d, PayloadOffset(d)) <= Len(d)
<1>1. CsrcEnd(d) \in Nat /\ CsrcEnd(d) >= kRtpHeaderSize /\ CsrcEnd(d) <= Len(d)
  <2>1. d[1] % 16 \in 0..15 BY ByteRange
  <2>2. CsrcEnd(d) <= Len(d) BY DEF ParseRtp
  <2>3. PICK m \in 0..15 : m = d[1] % 16 BY <2>1
  <2>4. CsrcEnd(d) = 12 + 4 * m BY <2>3 DEF CsrcEnd, kRtpHeaderSize
  <2> HIDE <2>3
  <2>5. 12 + 4 * m \in Nat /\ 12 + 4 * m >= 12 OBVIOUS
  <2> QED BY <2>2, <2>4, <2>5 DEF kRtpHeaderSize
<1>2. PayloadOffset(d) \in Nat /\ PayloadOffset(d) >= CsrcEnd(d) /\ PayloadOffset(d) <= Len(d)
  <2>1. CASE HasExtension(d)
    <3>1. CsrcEnd(d) + 4 <= Len(d) /\ PayloadOffset(d) <= Len(d) BY <2>1 DEF ParseRtp
    <3>2. d[CsrcEnd(d) + 3] \in Nat /\ d[CsrcEnd(d) + 4] \in Nat BY <2>1, <3>1, ByteRange
    <3>3. ExtensionLength(d) \in Nat BY <3>2, SMTT(30) DEF ExtensionLength
    <3> QED BY <1>1, <2>1, <3>1, <3>3 DEF PayloadOffset
  <2>2. CASE ~HasExtension(d)
    BY <1>1, <2>2 DEF PayloadOffset
  <2> QED BY <2>1, <2>2
<1>3. d[Len(d)] \in Nat BY ByteRange
<1>4. PayloadSize(d, PayloadOffset(d)) \in 0..(Len(d) - PayloadOffset(d))
  BY <1>2, <1>3 DEF PayloadSize
<1>5. kRtpHeaderSize \in Nat BY DEF kRtpHeaderSize
<1> QED BY <1>1, <1>2, <1>4, <1>5

(* A sequence of bytes meets the lemma's conditions once it is long enough. *)
LEMMA DatagramBytes ==
  ASSUME NEW d \in Datagram, ParseRtp(d)
  PROVE  /\ Len(d) \in Nat /\ d[1] \in Octet /\ d[Len(d)] \in Octet
         /\ HasExtension(d) /\ CsrcEnd(d) + 4 <= Len(d) =>
             d[CsrcEnd(d) + 3] \in Octet /\ d[CsrcEnd(d) + 4] \in Octet
<1>1. Len(d) \in Nat BY DEF Datagram
<1>2. \A k \in 1..Len(d) : d[k] \in Octet BY DEF Datagram
<1>3. Len(d) >= 12 BY DEF ParseRtp, kRtpHeaderSize
<1>4. d[1] \in Octet /\ d[Len(d)] \in Octet BY <1>1, <1>2, <1>3
<1>5. CsrcEnd(d) \in Nat
  <2>1. d[1] % 16 \in 0..15 BY <1>4, ByteRange
  <2> QED BY <2>1 DEF CsrcEnd, kRtpHeaderSize
<1> QED BY <1>1, <1>2, <1>4, <1>5

(* The two bytes of a 16-bit word count. *)
LEMMA WordBytes ==
  ASSUME NEW e \in Nat, e < 65536
  PROVE  e \div 256 \in 0..255 /\ e % 256 \in 0..255
OBVIOUS

(* Concatenation stays in Seq(S). *)
LEMMA ConcatFive ==
  ASSUME NEW S, NEW a \in Seq(S), NEW b \in Seq(S), NEW c \in Seq(S), NEW d \in Seq(S),
         NEW e \in Seq(S)
  PROVE  a \o b \o c \o d \o e \in Seq(S)
<1>1. a \o b \in Seq(S) OBVIOUS
<1>2. a \o b \o c \in Seq(S) BY <1>1
<1>3. a \o b \o c \o d \in Seq(S) BY <1>2
<1> QED BY <1>3

(* The pieces of a sender's datagram. *)
LEMMA EncodePieces ==
  ASSUME NEW x \in Parts
  PROVE  /\ <<FirstByte(x)>> \in Seq(Octet) /\ Zeros(11 + 4 * x.csrc) \in Seq(Octet)
         /\ ExtensionPart(x) \in Seq(Octet) /\ x.payload \in Seq(Octet)
         /\ PaddingPart(x) \in Seq(Octet)
<1> DEFINE c == x.csrc
           e == x.ext
           p == x.pad
<1>1. c \in 0..15 /\ e \in Int /\ e >= -1 /\ e < 65536 /\ p \in Octet /\ x.payload \in Seq(Octet)
  <2>1. PartOK(x) BY PartsAssumption
  <2> QED BY <2>1 DEF PartOK, Datagram
<1> HIDE DEF c, e, p
<1>0. \A n \in 0..255 : n \in Octet BY DEF Octet
<1>2. \A n \in Nat : Zeros(n) \in Seq(Octet)
  <2>1. 0 \in Octet BY <1>0
  <2> QED BY <2>1 DEF Zeros
<1>3. FirstByte(x) \in Octet
  <2>1. 128 + (IF p > 0 THEN 32 ELSE 0) + (IF e >= 0 THEN 16 ELSE 0) + c \in Octet
    BY <1>1, ByteRange DEF Octet
  <2> QED BY <2>1 DEF FirstByte, c, e, p
<1>4. Zeros(11 + 4 * c) \in Seq(Octet) BY <1>1, <1>2
<1>5. (IF e >= 0 THEN <<0, 0, e \div 256, e % 256>> \o Zeros(4 * e) ELSE <<>>) \in Seq(Octet)
  <2>1. CASE e >= 0
    <3>1. e \div 256 \in 0..255 /\ e % 256 \in 0..255 /\ 0 \in 0..255
      <4>1. e \in Nat /\ e < 65536 BY <1>1, <2>1
      <4> QED BY <4>1, WordBytes
    <3>2. <<0, 0, e \div 256, e % 256>> \in Seq(Octet) BY <3>1, <1>0
    <3>3. Zeros(4 * e) \in Seq(Octet) BY <1>1, <1>2, <2>1
    <3> QED BY <2>1, <3>2, <3>3
  <2>2. CASE ~(e >= 0) BY <2>2
  <2> QED BY <2>1, <2>2
<1>6. (IF p > 0 THEN Zeros(p - 1) \o <<p>> ELSE <<>>) \in Seq(Octet)
  <2>1. CASE p > 0
    <3>1. <<p>> \in Seq(Octet) BY <1>1
    <3>0. p \in Nat BY <1>1, ByteRange
    <3>2. Zeros(p - 1) \in Seq(Octet) BY <3>0, <1>2, <2>1
    <3> QED BY <2>1, <3>1, <3>2
  <2>2. CASE ~(p > 0) BY <2>2
  <2> QED BY <2>1, <2>2
<1>7. ExtensionPart(x) \in Seq(Octet) /\ PaddingPart(x) \in Seq(Octet)
  BY <1>5, <1>6 DEF ExtensionPart, PaddingPart, e, p
<1>8. <<FirstByte(x)>> \in Seq(Octet) BY <1>3
<1>9. Zeros(11 + 4 * x.csrc) \in Seq(Octet) BY <1>4 DEF c
<1>10. x.payload \in Seq(Octet) BY <1>1
<1> QED BY <1>7, <1>8, <1>9, <1>10

LEMMA EncodeBytes ==
  ASSUME NEW x \in Parts
  PROVE  Encode(x) \in Datagram
  BY EncodePieces, ConcatFive DEF Encode, Datagram

(* The datagram is a sequence of bytes and parsed is what it parses to. *)
DataOK == data \in Datagram /\ parsed = Parsed(data)

(* ParseRtp and PayloadSize never point outside the datagram, whatever its
   length and its bytes. *)
THEOREM SpanAlwaysInside == HeaderSpec => []SpanInside
<1>1. HeaderInit => DataOK BY DEF HeaderInit, DataOK, Datagram
<1>2. DataOK /\ [HeaderNext]_headerVars => DataOK'
  <2> SUFFICES ASSUME DataOK, [HeaderNext]_headerVars PROVE DataOK' OBVIOUS
  <2>1. CASE \E x \in Parts : ReceiveSent(x) BY <2>1, EncodeBytes DEF ReceiveSent, DataOK
  <2>2. CASE \E d \in Damaged : ReceiveDamaged(d)
    BY <2>2, PartsAssumption DEF ReceiveDamaged, DataOK
  <2>3. CASE UNCHANGED headerVars BY <2>3 DEF headerVars, DataOK
  <2> QED BY <2>1, <2>2, <2>3 DEF HeaderNext
<1>3. DataOK => SpanInside
  <2> SUFFICES ASSUME DataOK, parsed.ok
               PROVE  /\ parsed.offset \in kRtpHeaderSize..Len(data)
                      /\ parsed.size \in 0..Len(data)
                      /\ parsed.offset + parsed.size <= Len(data)
    BY DEF SpanInside
  <2>1. ParseRtp(data) BY DEF DataOK, Parsed
  <2>2. parsed.offset = PayloadOffset(data) /\ parsed.size = PayloadSize(data, PayloadOffset(data))
    BY <2>1 DEF DataOK, Parsed
  <2>3. DataOK /\ data \in Datagram BY DEF DataOK
  <2> QED BY <2>1, <2>2, <2>3, ParsedSpan, DatagramBytes
<1> QED BY <1>1, <1>2, <1>3, PTL DEF HeaderSpec
-----------------------------------------------------------------------------
(* What the parser reads of a sender's datagram.  The bits of its first byte: *)
BitsOf(f, c, padded, extended) ==
  /\ f \div 64 = 2 /\ f % 16 = c
  /\ ((f \div 32) % 2 = 1) <=> padded
  /\ ((f \div 16) % 2 = 1) <=> extended

LEMMA FirstByteBits ==
  ASSUME NEW c \in 0..15
  PROVE  /\ BitsOf(128 + 0 + 0 + c, c, FALSE, FALSE)
         /\ BitsOf(128 + 0 + 16 + c, c, FALSE, TRUE)
         /\ BitsOf(128 + 32 + 0 + c, c, TRUE, FALSE)
         /\ BitsOf(128 + 32 + 16 + c, c, TRUE, TRUE)
BY DEF BitsOf

LEMMA WordValue ==
  ASSUME NEW e \in Nat PROVE (e \div 256) * 256 + (e % 256) = e
OBVIOUS

LEMMA ZerosLen ==
  ASSUME NEW n \in Nat PROVE Zeros(n) \in Seq(Nat) /\ Len(Zeros(n)) = n
BY DEF Zeros

LEMMA ConcatTwo ==
  ASSUME NEW S, NEW s \in Seq(S), NEW t \in Seq(S), NEW r, r = s \o t
  PROVE  /\ r \in Seq(S) /\ Len(r) = Len(s) + Len(t)
         /\ \A i \in 1..Len(s) : r[i] = s[i]
         /\ \A i \in 1..Len(t) : r[Len(s) + i] = t[i]
OBVIOUS

(* The parts of a datagram lie one behind the other. *)
PartsLieIn(w, a, b, c, d, e) ==
  /\ Len(w) = Len(a) + Len(b) + Len(c) + Len(d) + Len(e)
  /\ \A i \in 1..Len(a) : w[i] = a[i]
  /\ \A i \in 1..Len(c) : w[Len(a) + Len(b) + i] = c[i]
  /\ \A i \in 1..Len(d) : w[Len(a) + Len(b) + Len(c) + i] = d[i]
  /\ \A i \in 1..Len(e) : w[Len(a) + Len(b) + Len(c) + Len(d) + i] = e[i]

LEMMA FiveParts ==
  ASSUME NEW S, NEW a \in Seq(S), NEW b \in Seq(S), NEW c \in Seq(S), NEW d \in Seq(S),
         NEW e \in Seq(S)
  PROVE  PartsLieIn(a \o b \o c \o d \o e, a, b, c, d, e)
<1>a. PICK u : u = a \o b OBVIOUS
<1>b. PICK v : v = u \o c OBVIOUS
<1>c. PICK z : z = v \o d OBVIOUS
<1>0. Len(a) \in Nat /\ Len(b) \in Nat /\ Len(c) \in Nat /\ Len(d) \in Nat /\ Len(e) \in Nat
  OBVIOUS
<1>1. u \in Seq(S) /\ Len(u) = Len(a) + Len(b) /\ \A i \in 1..Len(a) : u[i] = a[i]
  BY <1>a, ConcatTwo
<1>2. /\ v \in Seq(S) /\ Len(v) = Len(u) + Len(c) /\ \A i \in 1..Len(u) : v[i] = u[i]
      /\ \A i \in 1..Len(c) : v[Len(u) + i] = c[i]
  <2>1. u \in Seq(S) BY <1>1
  <2> QED BY <2>1, <1>b, ConcatTwo
<1>3. /\ z \in Seq(S) /\ Len(z) = Len(v) + Len(d) /\ \A i \in 1..Len(v) : z[i] = v[i]
      /\ \A i \in 1..Len(d) : z[Len(v) + i] = d[i]
  <2>1. v \in Seq(S) BY <1>2
  <2> QED BY <2>1, <1>c, ConcatTwo
<1>d. PICK w : w = z \o e OBVIOUS
<1>4. w = a \o b \o c \o d \o e BY <1>a, <1>b, <1>c, <1>d, Zenon
<1>5. /\ Len(w) = Len(z) + Len(e) /\ \A i \in 1..Len(z) : w[i] = z[i]
      /\ \A i \in 1..Len(e) : w[Len(z) + i] = e[i]
  <2>1. z \in Seq(S) BY <1>3
  <2> QED BY <2>1, <1>d, ConcatTwo
<1>6. Len(w) = Len(a) + Len(b) + Len(c) + Len(d) + Len(e)
  BY <1>0, <1>1, <1>2, <1>3, <1>5
<1>7. ASSUME NEW i \in 1..Len(a) PROVE w[i] = a[i]
  <2>1. i \in 1..Len(u) /\ i \in 1..Len(v) /\ i \in 1..Len(z)
    BY <1>0, <1>1, <1>2, <1>3
  <2> QED BY <1>1, <1>2, <1>3, <1>5, <2>1
<1>8. ASSUME NEW i \in 1..Len(c) PROVE w[Len(a) + Len(b) + i] = c[i]
  <2>1. Len(u) + i \in 1..Len(v) /\ Len(u) + i \in 1..Len(z)
    BY <1>0, <1>1, <1>2, <1>3
  <2>2. w[Len(u) + i] = c[i] BY <1>2, <1>3, <1>5, <2>1
  <2> QED BY <1>1, <2>2
<1>9. ASSUME NEW i \in 1..Len(d) PROVE w[Len(a) + Len(b) + Len(c) + i] = d[i]
  <2>1. Len(v) + i \in 1..Len(z) BY <1>0, <1>1, <1>2, <1>3
  <2>2. w[Len(v) + i] = d[i] BY <1>3, <1>5, <2>1
  <2> QED BY <1>1, <1>2, <2>2
<1>10. ASSUME NEW i \in 1..Len(e) PROVE w[Len(a) + Len(b) + Len(c) + Len(d) + i] = e[i]
  <2>1. w[Len(z) + i] = e[i] BY <1>5
  <2> QED BY <1>1, <1>2, <1>3, <2>1
<1>11. PartsLieIn(w, a, b, c, d, e) BY <1>6, <1>7, <1>8, <1>9, <1>10 DEF PartsLieIn
<1> QED BY <1>4, <1>11, Zenon

(* What the parser makes of d when its first byte announces a CSRC list of c
   words, an extension of e words (-1 for none) and padding of p bytes (0 for
   none), and the datagram has them and n bytes of payload. *)
Announces(d, c, e, p, x, n) ==
  /\ d[1] \div 64 = 2 /\ d[1] % 16 = c
  /\ HasPadding(d) <=> p > 0
  /\ HasExtension(d) <=> e >= 0
  /\ x = (IF e >= 0 THEN 4 + 4 * e ELSE 0)
  /\ Len(d) = 12 + 4 * c + x + n + p
  /\ e >= 0 => d[12 + 4 * c + 3] * 256 + d[12 + 4 * c + 4] = e
  /\ p > 0 => d[Len(d)] = p

LEMMA ParsesBack ==
  ASSUME NEW d, NEW c \in 0..15, NEW e \in Int, NEW p \in Nat, NEW n \in Nat, NEW x \in Nat,
         Announces(d, c, e, p, x, n)
  PROVE  /\ ParseRtp(d) /\ PayloadOffset(d) = 12 + 4 * c + x
         /\ PayloadSize(d, PayloadOffset(d)) = n
<1>0. /\ d[1] \div 64 = 2 /\ d[1] % 16 = c
      /\ HasPadding(d) <=> p > 0
      /\ HasExtension(d) <=> e >= 0
      /\ x = (IF e >= 0 THEN 4 + 4 * e ELSE 0)
      /\ Len(d) = 12 + 4 * c + x + n + p
      /\ e >= 0 => d[12 + 4 * c + 3] * 256 + d[12 + 4 * c + 4] = e
      /\ p > 0 => d[Len(d)] = p
  BY Zenon DEF Announces
<1>1. CsrcEnd(d) = 12 + 4 * c BY <1>0, Zenon DEF CsrcEnd, kRtpHeaderSize
<1>2. PayloadOffset(d) = 12 + 4 * c + x
  <2>1. CASE e >= 0
    <3>1. ExtensionLength(d) = 4 + 4 * e BY <1>0, <1>1, <2>1, Zenon DEF ExtensionLength
    <3> QED BY <1>0, <1>1, <2>1, <3>1, Zenon DEF PayloadOffset
  <2>2. CASE ~(e >= 0)
    <3>1. x = 0 BY <1>0, <2>2
    <3>2. PayloadOffset(d) = 12 + 4 * c + 0 BY <1>0, <1>1, <2>2, Zenon DEF PayloadOffset
    <3> QED BY <3>1, <3>2
  <2> QED BY <2>1, <2>2
<1>3. ParseRtp(d)
  <2>1. Len(d) >= 12 /\ 12 + 4 * c <= Len(d) BY <1>0
  <2>2. HasExtension(d) => 12 + 4 * c + 4 <= Len(d) BY <1>0
  <2>3. 12 + 4 * c + x <= Len(d) BY <1>0
  <2>4. HasPadding(d) => d[Len(d)] # 0 /\ 12 + 4 * c + x + d[Len(d)] <= Len(d) BY <1>0
  <2> QED BY <1>0, <1>1, <1>2, <2>1, <2>2, <2>3, <2>4, Zenon DEF ParseRtp, kRtpHeaderSize
<1>4. ASSUME NEW o \in Nat, o = 12 + 4 * c + x PROVE PayloadSize(d, o) = n
  <2>1. CASE p > 0
    <3>1. /\ HasPadding(d) /\ d[Len(d)] > 0 /\ o + d[Len(d)] <= Len(d)
          /\ Len(d) - d[Len(d)] = o + n
      BY <1>0, <1>4, <2>1
    <3> QED BY <1>4, <3>1 DEF PayloadSize
  <2>2. CASE ~(p > 0)
    <3>1. ~HasPadding(d) /\ Len(d) = o + n BY <1>0, <1>4, <2>2
    <3> QED BY <1>4, <3>1 DEF PayloadSize
  <2> QED BY <2>1, <2>2
<1>5. PayloadOffset(d) \in Nat BY <1>2
<1>6. PayloadSize(d, PayloadOffset(d)) = n BY <1>2, <1>4, <1>5
<1> QED BY <1>2, <1>3, <1>6

(* What a sender encodes is parsed back. *)
LEMMA EncodeParses ==
  ASSUME NEW y \in Parts
  PROVE  /\ ParseRtp(Encode(y))
         /\ SubSeq(Encode(y), PayloadOffset(Encode(y)) + 1,
                   PayloadOffset(Encode(y)) + PayloadSize(Encode(y), PayloadOffset(Encode(y))))
              = y.payload
<1>1. PartOK(y) BY PartsAssumption
<1>2. PICK c, e, p : c = y.csrc /\ e = y.ext /\ p = y.pad OBVIOUS
<1>3. /\ c \in 0..15 /\ e \in Int /\ e >= -1 /\ e < 65536 /\ p \in Nat
      /\ p \in Octet /\ y.payload \in Seq(Octet)
  <2>1. /\ c \in 0..15 /\ e \in Int /\ e >= -1 /\ e < 65536
        /\ p \in Octet /\ y.payload \in Seq(Octet)
    <3>1. /\ y.csrc \in 0..15 /\ y.ext \in Int /\ y.ext >= -1 /\ y.ext < 65536
          /\ y.pad \in Octet /\ y.payload \in Seq(Octet)
      BY <1>1 DEF PartOK, Datagram
    <3> QED BY <1>2, <3>1
  <2> QED BY <2>1, ByteRange
<1>c. c \in 0..15 BY <1>3
<1>t. c \in 0..15 /\ e \in Int /\ p \in Nat BY <1>3
<1>4. PICK f, z, x, l, r, d :
        /\ f = <<FirstByte(y)>> /\ z = Zeros(11 + 4 * c) /\ x = ExtensionPart(y)
        /\ l = y.payload /\ r = PaddingPart(y) /\ d = Encode(y)
  OBVIOUS
<1>5. /\ f \in Seq(Octet) /\ z \in Seq(Octet) /\ x \in Seq(Octet) /\ l \in Seq(Octet)
      /\ r \in Seq(Octet)
  BY <1>2, <1>4, EncodePieces
<1>6. PartsLieIn(d, f, z, x, l, r) /\ d \in Seq(Octet)
  <2>1. d = f \o z \o x \o l \o r BY <1>2, <1>4, Zenon DEF Encode
  <2>2. f \o z \o x \o l \o r \in Seq(Octet) BY <1>5, ConcatFive
  <2>3. PartsLieIn(f \o z \o x \o l \o r, f, z, x, l, r) BY <1>5, FiveParts
  <2> QED BY <2>1, <2>2, <2>3, Zenon
<1>7. Len(f) = 1 /\ f[1] = FirstByte(y) BY <1>4
<1>8. Len(z) = 11 + 4 * c
  <2>1. 11 + 4 * c \in Nat BY <1>3
  <2> QED BY <1>4, <2>1, ZerosLen
<1>9. PICK n : n = Len(l) /\ n \in Nat
  <2>1. l \in Seq(Octet) BY <1>5
  <2>2. Len(l) \in Nat BY <2>1
  <2> QED BY <2>2, Zenon
<1>10. PICK w : w = (IF e >= 0 THEN 4 + 4 * e ELSE 0) OBVIOUS
<1>11. w \in Nat BY <1>3, <1>10
<1>12. Len(x) = w /\ (e >= 0 => w >= 4 /\ x[3] = e \div 256 /\ x[4] = e % 256)
  <2>1. CASE e >= 0
    <3>1. PICK h, t : h = <<0, 0, e \div 256, e % 256>> /\ t = Zeros(4 * e) OBVIOUS
    <3>2. x = h \o t BY <1>2, <1>4, <2>1, <3>1, Zenon DEF ExtensionPart
    <3>3. e \in Nat /\ 4 * e \in Nat /\ w = 4 + 4 * e BY <1>3, <1>10, <2>1
    <3>4. e \div 256 \in Nat /\ e % 256 \in Nat BY <1>3, <3>3, WordBytes
    <3>5. h \in Seq(Nat) /\ Len(h) = 4 /\ h[3] = e \div 256 /\ h[4] = e % 256
      BY <3>1, <3>4
    <3>6. t \in Seq(Nat) /\ Len(t) = 4 * e BY <3>1, <3>3, ZerosLen
    <3>7. /\ Len(x) = Len(h) + Len(t)
          /\ \A i \in 1..Len(h) : x[i] = h[i]
      <4>1. h \in Seq(Nat) /\ t \in Seq(Nat) BY <3>5, <3>6
      <4> QED BY <3>2, <4>1, ConcatTwo
    <3>8. 3 \in 1..4 /\ 4 \in 1..4 OBVIOUS
    <3> QED BY <3>3, <3>5, <3>6, <3>7, <3>8
  <2>2. CASE ~(e >= 0)
    <3>1. x = <<>> BY <1>2, <1>4, <2>2, Zenon DEF ExtensionPart
    <3> QED BY <1>10, <2>2, <3>1
  <2> QED BY <2>1, <2>2
<1>13. Len(r) = p /\ (p > 0 => r[p] = p)
  <2>1. CASE p > 0
    <3>1. PICK h, t : h = Zeros(p - 1) /\ t = <<p>> OBVIOUS
    <3>2. r = h \o t BY <1>2, <1>4, <2>1, <3>1, Zenon DEF PaddingPart
    <3>3. p - 1 \in Nat BY <1>3, <2>1
    <3>4. h \in Seq(Nat) /\ Len(h) = p - 1 BY <3>1, <3>3, ZerosLen
    <3>5. t \in Seq(Nat) /\ Len(t) = 1 /\ t[1] = p BY <1>3, <3>1
    <3>6. /\ Len(r) = Len(h) + Len(t)
          /\ \A i \in 1..Len(t) : r[Len(h) + i] = t[i]
      <4>1. h \in Seq(Nat) /\ t \in Seq(Nat) BY <3>4, <3>5
      <4> QED BY <3>2, <4>1, ConcatTwo
    <3>7. (p - 1) + 1 = p /\ 1 \in 1..1 BY <1>3
    <3>8. r[p] = p BY <3>4, <3>5, <3>6, <3>7
    <3> QED BY <3>4, <3>5, <3>6, <3>7, <3>8
  <2>2. CASE ~(p > 0)
    <3>1. r = <<>> BY <1>2, <1>4, <2>2, Zenon DEF PaddingPart
    <3> QED BY <1>3, <2>2, <3>1
  <2> QED BY <2>1, <2>2
<1>14. /\ Len(d) = 12 + 4 * c + w + n + p
       /\ d[1] = FirstByte(y)
       /\ \A i \in 1..w : d[12 + 4 * c + i] = x[i]
       /\ \A i \in 1..n : d[12 + 4 * c + w + i] = l[i]
       /\ p > 0 => d[12 + 4 * c + w + n + p] = r[p]
  <2>1. Len(f) + Len(z) = 12 + 4 * c BY <1>3, <1>7, <1>8
  <2>2. 1 \in 1..1 /\ (p > 0 => p \in 1..p) BY <1>3
  <2>3. /\ Len(d) = Len(f) + Len(z) + Len(x) + Len(l) + Len(r)
        /\ \A i \in 1..Len(f) : d[i] = f[i]
        /\ \A i \in 1..Len(x) : d[Len(f) + Len(z) + i] = x[i]
        /\ \A i \in 1..Len(l) : d[Len(f) + Len(z) + Len(x) + i] = l[i]
        /\ \A i \in 1..Len(r) : d[Len(f) + Len(z) + Len(x) + Len(l) + i] = r[i]
    BY <1>6, Zenon DEF PartsLieIn
  <2>4. Len(x) = w /\ Len(r) = p BY <1>12, <1>13
  <2>5. Len(d) = 12 + 4 * c + w + n + p BY <1>9, <2>1, <2>3, <2>4, Zenon
  <2>6. d[1] = FirstByte(y) BY <1>7, <2>2, <2>3, Zenon
  <2>7. \A i \in 1..w : d[12 + 4 * c + i] = x[i] BY <2>1, <2>3, <2>4, Zenon
  <2>8. \A i \in 1..n : d[12 + 4 * c + w + i] = l[i] BY <1>9, <2>1, <2>3, <2>4, Zenon
  <2>9. p > 0 => d[12 + 4 * c + w + n + p] = r[p] BY <1>9, <2>1, <2>2, <2>3, <2>4, Zenon
  <2> QED BY <2>5, <2>6, <2>7, <2>8, <2>9
<1>15. /\ d[1] \div 64 = 2 /\ d[1] % 16 = c
       /\ HasPadding(d) <=> p > 0
       /\ HasExtension(d) <=> e >= 0
  <2>1. FirstByte(y) = 128 + (IF p > 0 THEN 32 ELSE 0) + (IF e >= 0 THEN 16 ELSE 0) + c
    BY <1>2, Zenon DEF FirstByte
  <2>2. PICK g : g = FirstByte(y) OBVIOUS
  <2>3. CASE p > 0 /\ e >= 0
    <3>1. g = 128 + 32 + 16 + c BY <2>1, <2>2, <2>3
    <3>2. BitsOf(g, c, TRUE, TRUE) BY <1>c, <3>1, FirstByteBits, Zenon
    <3> QED BY <1>14, <2>2, <2>3, <3>2, Zenon DEF BitsOf, HasPadding, HasExtension
  <2>4. CASE p > 0 /\ ~(e >= 0)
    <3>1. g = 128 + 32 + 0 + c BY <2>1, <2>2, <2>4
    <3>2. BitsOf(g, c, TRUE, FALSE) BY <1>c, <3>1, FirstByteBits, Zenon
    <3> QED BY <1>14, <2>2, <2>4, <3>2, Zenon DEF BitsOf, HasPadding, HasExtension
  <2>5. CASE ~(p > 0) /\ e >= 0
    <3>1. g = 128 + 0 + 16 + c BY <2>1, <2>2, <2>5
    <3>2. BitsOf(g, c, FALSE, TRUE) BY <1>c, <3>1, FirstByteBits, Zenon
    <3> QED BY <1>14, <2>2, <2>5, <3>2, Zenon DEF BitsOf, HasPadding, HasExtension
  <2>6. CASE ~(p > 0) /\ ~(e >= 0)
    <3>1. g = 128 + 0 + 0 + c BY <2>1, <2>2, <2>6
    <3>2. BitsOf(g, c, FALSE, FALSE) BY <1>c, <3>1, FirstByteBits, Zenon
    <3> QED BY <1>14, <2>2, <2>6, <3>2, Zenon DEF BitsOf, HasPadding, HasExtension
  <2> QED BY <2>3, <2>4, <2>5, <2>6
<1>16. e >= 0 => d[12 + 4 * c + 3] * 256 + d[12 + 4 * c + 4] = e
  <2> SUFFICES ASSUME e >= 0 PROVE d[12 + 4 * c + 3] * 256 + d[12 + 4 * c + 4] = e OBVIOUS
  <2>1. 3 \in 1..w /\ 4 \in 1..w BY <1>11, <1>12
  <2>2. d[12 + 4 * c + 3] = e \div 256 /\ d[12 + 4 * c + 4] = e % 256
    BY <1>12, <1>14, <2>1, Zenon
  <2>3. (e \div 256) * 256 + (e % 256) = e BY <1>3, WordValue
  <2> QED BY <2>2, <2>3, Zenon
<1>17. p > 0 => d[Len(d)] = p BY <1>13, <1>14, Zenon
<1>18. /\ ParseRtp(d) /\ PayloadOffset(d) = 12 + 4 * c + w
       /\ PayloadSize(d, PayloadOffset(d)) = n
  <2>1. Announces(d, c, e, p, w, n)
    BY <1>10, <1>14, <1>15, <1>16, <1>17, Zenon DEF Announces
  <2> QED BY <1>t, <1>9, <1>11, <2>1, ParsesBack, ZenonT(40)
<1>19. SubSeq(d, 12 + 4 * c + w + 1, 12 + 4 * c + w + n) = l
  <2>1. PICK o : o = 12 + 4 * c + w OBVIOUS
  <2>2. o \in Nat /\ Len(d) \in Nat /\ o + n <= Len(d)
    <3>1. Len(d) = o + n + p BY <1>14, <2>1, Zenon
    <3>2. o \in Nat BY <1>t, <1>11, <2>1
    <3> QED BY <1>t, <1>9, <3>1, <3>2
  <2>3. \A i \in 1..n : d[o + i] = l[i] BY <1>14, <2>1, Zenon
  <2>4. SubSeq(d, o + 1, o + n) = l
    <3>1. PICK s : s = SubSeq(d, o + 1, o + n) OBVIOUS
    <3>2. s \in Seq(Octet) /\ Len(s) = n /\ \A i \in 1..n : s[i] = d[o + i]
      BY <1>6, <1>9, <2>2, <3>1
    <3>3. \A i \in 1..Len(s) : s[i] = l[i] BY <2>3, <3>2
    <3>4. s = l BY <1>5, <1>9, <3>2, <3>3, SeqEqual
    <3> QED BY <3>1, <3>4
  <2> QED BY <2>1, <2>4, Zenon
<1> QED BY <1>4, <1>18, <1>19, Zenon

(* What is remembered of a sender is what it encoded. *)
SentOK ==
    /\ parsed = Parsed(data)
    /\ sent # <<>> => \E y \in Parts : sent = <<y>> /\ data = Encode(y)

(* Whatever a sender encodes, with any CSRC list, extension and padding, the
   parser finds exactly its payload (ParseRtp, PayloadSize). *)
THEOREM PayloadsComeBack == HeaderSpec => []RoundTrip
<1>1. HeaderInit => SentOK BY DEF HeaderInit, SentOK
<1>2. SentOK /\ [HeaderNext]_headerVars => SentOK'
  <2> SUFFICES ASSUME SentOK, [HeaderNext]_headerVars PROVE SentOK' OBVIOUS
  <2>1. ASSUME NEW y \in Parts, ReceiveSent(y) PROVE SentOK'
    BY <2>1, Zenon DEF ReceiveSent, SentOK
  <2>2. ASSUME NEW d \in Damaged, ReceiveDamaged(d) PROVE SentOK'
    BY <2>2, Zenon DEF ReceiveDamaged, SentOK
  <2>3. CASE UNCHANGED headerVars BY <2>3 DEF headerVars, SentOK
  <2> QED BY <2>1, <2>2, <2>3 DEF HeaderNext
<1>3. SentOK => RoundTrip
  <2> SUFFICES ASSUME SentOK, sent # <<>>
               PROVE  /\ parsed.ok
                      /\ SubSeq(data, parsed.offset + 1, parsed.offset + parsed.size)
                           = sent[1].payload
    BY DEF RoundTrip
  <2>1. PICK y \in Parts : sent = <<y>> /\ data = Encode(y) BY DEF SentOK
  <2>2. sent[1] = y BY <2>1
  <2>3. /\ ParseRtp(data)
        /\ SubSeq(data, PayloadOffset(data) + 1,
                  PayloadOffset(data) + PayloadSize(data, PayloadOffset(data))) = y.payload
    BY <2>1, EncodeParses, Zenon
  <2>4. /\ parsed.ok /\ parsed.offset = PayloadOffset(data)
        /\ parsed.size = PayloadSize(data, PayloadOffset(data))
    BY <2>3 DEF SentOK, Parsed
  <2> QED BY <2>2, <2>3, <2>4, Zenon
<1> QED BY <1>1, <1>2, <1>3, PTL DEF HeaderSpec
==============================================================================
