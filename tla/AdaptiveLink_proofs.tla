------------------------- MODULE AdaptiveLink_proofs -------------------------
(* Proofs about the adaptive link: a keyframe request rides on exactly the  *)
(* messages it should, the score stays in its range whatever signal the     *)
(* driver reports, and a clean link is never penalised.                     *)
EXTENDS AdaptiveLink, TLAPS

(* A request is pending for as many messages as are still to carry it. *)
Pending(age) == IF age < IdrMax THEN IdrMax - age ELSE 0

RequestInv ==
    /\ since \in 0..(IdrMax + 1)
    /\ idrLeft = Pending(since)
    /\ RequestRepeated

(* What a tick sends, and leaves of the request. *)
LEMMA TickRequests ==
  ASSUME RequestInv, NEW e \in Int, NEW signal, NEW r \in BOOLEAN, StatsTick(e, signal, r)
  PROVE  RequestInv'
<1> DEFINE age == IF missing /\ "idr" \in allow THEN 0 ELSE since
           left == RequestsLeft(missing)
<1>1. age \in 0..(IdrMax + 1) /\ IdrMax \in Nat
  BY AlinkAssumption DEF RequestInv
<1>2. left = Pending(age)
  BY AlinkAssumption DEF RequestInv, RequestsLeft, Pending
<1>3. CASE on /\ wait <= e
  <2>1. /\ idrLeft' = AfterMessage(left)
        /\ since' = IF age > IdrMax THEN age ELSE age + 1
        /\ msg' = Message(signal, Filtered(signal, noise'), left, age, clean')
    BY <1>3 DEF StatsTick
  <2> HIDE DEF age, left
  <2>2. since' \in 0..(IdrMax + 1)
    BY <2>1, <1>1
  <2>3. idrLeft' = Pending(since')
    BY <2>1, <1>1, <1>2 DEF Pending, AfterMessage
  <2>4. msg'.idr = (left > 0) /\ msg'.since = age
    BY <2>1 DEF Message
  <2>5. (left > 0) <=> (age < IdrMax)
    BY <1>1, <1>2 DEF Pending
  <2>6. RequestRepeated'
    BY <2>4, <2>5 DEF RequestRepeated
  <2> QED BY <2>2, <2>3, <2>6 DEF RequestInv, Pending
<1>4. CASE ~(on /\ wait <= e)
  <2>1. UNCHANGED <<idrLeft, msg, since>>
    BY <1>4 DEF StatsTick
  <2> QED BY <2>1 DEF RequestInv, Pending, RequestRepeated
<1> QED BY <1>3, <1>4

(* However losses, messages and edits of the configuration interleave, a
   keyframe request rides on exactly the IdrMax messages from the one that
   reports the last loss on (AlinkController::Update, alink.cpp:70-75 and
   132-138), for every number of repetitions and every interval. *)
THEOREM RequestExactlyRepeated == AlinkSpec => []RequestRepeated
<1>1. AlinkInit => RequestInv
  BY AlinkAssumption DEF AlinkInit, RequestInv, Pending, RequestRepeated, NoMessage
<1>2. RequestInv /\ [AlinkNext]_alinkVars => RequestInv'
  <2> SUFFICES ASSUME RequestInv, [AlinkNext]_alinkVars PROVE RequestInv'
    OBVIOUS
  <2>1. CASE LosePackets
    BY <2>1 DEF LosePackets, RequestInv, Pending, RequestRepeated
  <2>2. ASSUME NEW enabled \in BOOLEAN, NEW set \in Allowances, NEW iv \in Intervals,
               SetAlinkConfig(enabled, iv, set)
        PROVE  RequestInv'
    <3>1. CASE on /\ enabled
      BY <2>2, <3>1 DEF SetAlinkConfig, RequestInv, Pending, RequestRepeated
    <3>2. CASE ~(on /\ enabled)
      <4>1. idrLeft' = 0 /\ since' = IdrMax + 1 /\ msg' = msg
        BY <2>2, <3>2 DEF SetAlinkConfig
      <4> QED BY <4>1, AlinkAssumption DEF RequestInv, Pending, RequestRepeated
    <3> QED BY <3>1, <3>2
  <2>3. ASSUME NEW e \in Tick..(Tick + Overrun), NEW signal \in Signals \cup {Silence},
               NEW r \in BOOLEAN, StatsTick(e, signal, r)
        PROVE  RequestInv'
    BY <2>3, TickRequests, AlinkAssumption
  <2>4. CASE UNCHANGED alinkVars
    BY <2>4 DEF alinkVars, RequestInv, Pending, RequestRepeated
  <2> QED BY <2>1, <2>2, <2>3, <2>4 DEF AlinkNext
<1>3. RequestInv => RequestRepeated
  BY DEF RequestInv
<1> QED BY <1>1, <1>2, <1>3, PTL DEF AlinkSpec
-----------------------------------------------------------------------------
(* The largest r whose square is covered exists: it starts covered and ends
   uncovered, so it changes somewhere. *)
LEMMA Crossing ==
  ASSUME NEW a \in Nat, a < 90,
         \A r \in 0..99 : 90 * (r * r) <= 10000 * a => 90 * ((r + 1) * (r + 1)) <= 10000 * a
  PROVE  FALSE
<1> DEFINE B(r) == 90 * (r * r) <= 10000 * a
<1>0. \A r \in 0..99 : B(r) => B(r + 1) OBVIOUS
<1>1. B(0) OBVIOUS
<1>2. ~B(100) OBVIOUS
<1> HIDE DEF B
<1>3. \A k \in {0, 10, 20, 30, 40, 50, 60, 70, 80, 90} : B(k) => B(k + 10)
  <2> SUFFICES ASSUME NEW k \in 0..90, B(k) PROVE B(k + 10)
    OBVIOUS
  <2>1. B(k + 1) BY <1>0
  <2>2. B(k + 2) BY <1>0, <2>1
  <2>3. B(k + 3) BY <1>0, <2>2
  <2>4. B(k + 4) BY <1>0, <2>3
  <2>5. B(k + 5) BY <1>0, <2>4
  <2>6. B(k + 6) BY <1>0, <2>5
  <2>7. B(k + 7) BY <1>0, <2>6
  <2>8. B(k + 8) BY <1>0, <2>7
  <2>9. B(k + 9) BY <1>0, <2>8
  <2> QED BY <1>0, <2>9
<1> QED BY <1>1, <1>2, <1>3

(* The square root in percent is one, and nothing is deducted below the
   threshold. *)
LEMMA DeductionFacts ==
  ASSUME NEW f \in Nat
  PROVE  /\ Deduction(f) \in 0..100
         /\ f < MinNoise => Deduction(f) = 0
<1>1. CASE f < MinNoise BY <1>1 DEF Deduction
<1>2. CASE f >= MaxNoise BY <1>2 DEF Deduction, MinNoise, MaxNoise
<1>3. CASE f >= MinNoise /\ f < MaxNoise
  <2> DEFINE Below(r) == r * r * (MaxNoise - MinNoise) <= 10000 * (f - MinNoise)
  <2>1. Deduction(f) = CHOOSE r \in 0..99 : Below(r) /\ ~Below(r + 1)
    BY <1>3 DEF Deduction, MinNoise, MaxNoise
  <2>2. \E r \in 0..99 : Below(r) /\ ~Below(r + 1)
    <3>1. f - 10 \in Nat /\ f - 10 < 90 BY <1>3 DEF MinNoise, MaxNoise
    <3>2. \A r \in Nat : Below(r) <=> 90 * (r * r) <= 10000 * (f - 10)
      BY DEF MinNoise, MaxNoise
    <3>3. \A r \in 0..99 : r \in Nat /\ r + 1 \in Nat OBVIOUS
    <3> HIDE DEF Below
    <3>4. SUFFICES ASSUME \A r \in 0..99 : Below(r) => Below(r + 1) PROVE FALSE
      OBVIOUS
    <3>5. \A r \in 0..99 :
             90 * (r * r) <= 10000 * (f - 10)
             => 90 * ((r + 1) * (r + 1)) <= 10000 * (f - 10)
      BY <3>2, <3>3, <3>4
    <3> QED BY <3>1, <3>5, Crossing
  <2> HIDE DEF Below
  <2>3. Deduction(f) \in 0..99 BY <2>1, <2>2
  <2> QED BY <2>3, <1>3 DEF MinNoise
<1> QED BY <1>1, <1>2, <1>3 DEF MinNoise, MaxNoise

(* The gain of any signal, and that of silence. *)
LEMMA GainFacts ==
  /\ Unit \in Nat \ {0}
  /\ \A signal \in [heard : BOOLEAN, rssi : Int, snr : Int] :
        Gain(signal) \in Nat /\ Gain(signal) <= 1000 * Unit
  /\ Gain(Silence) = 0
<1>0. Unit \in Nat \ {0}
  BY SMT DEF Unit, SnrMin, SnrMax, RssiMin, RssiMax
<1>1. ASSUME NEW signal \in [heard : BOOLEAN, rssi : Int, snr : Int]
      PROVE  Gain(signal) \in Nat /\ Gain(signal) <= 1000 * Unit
  <2>1. Clamp01(signal.snr - SnrMin, SnrMax - SnrMin) \in 0..26
    BY DEF Clamp01, SnrMin, SnrMax
  <2>2. Clamp01(signal.rssi - RssiMin, RssiMax - RssiMin) \in 0..50
    BY DEF Clamp01, RssiMin, RssiMax
  <2> QED BY <2>1, <2>2, SMT DEF Gain, Unit, SnrMin, SnrMax, RssiMin, RssiMax
<1>2. Gain(Silence) = 0
  BY SMT DEF Gain, Silence, Clamp01, SnrMin, SnrMax, RssiMin, RssiMax
<1> QED BY <1>0, <1>1, <1>2

(* So many percent of a gain, in points. *)
Points(g, k) == (g * k) \div (100 * Unit)
GainRange == {g \in Nat : g <= 1000 * Unit}
Percent == 0..100
PointRange == 0..1000

LEMMA PointsFacts ==
  ASSUME NEW g \in GainRange, NEW k \in Percent
  PROVE  Points(g, k) \in PointRange /\ ((g = 0 \/ k = 0) => Points(g, k) = 0)
<1> DEFINE x == g * k
           n == 100 * Unit
           q == x \div n
<1>0. /\ g \in Nat /\ g <= 1000 * Unit
      /\ k \in 0..100
      /\ Unit \in Nat \ {0}
  BY GainFacts DEF GainRange, Percent
<1>1. x \in Nat /\ n \in Nat \ {0} BY <1>0, SMT
<1>2. x <= 1000 * n
  <2>1. g * k <= g * 100 BY <1>0, SMT
  <2> QED BY <1>0, <2>1, SMT
<1>3. (g = 0 \/ k = 0) => x = 0 BY <1>0, SMT
<1> HIDE DEF x, n
<1>4. q \in Int /\ x = n * q + (x % n) /\ x % n >= 0 /\ x % n < n BY <1>1, SMT
<1> HIDE DEF q
<1>5. q >= 0
  <2>1. SUFFICES ASSUME q <= -1 PROVE FALSE BY <1>4, SMT
  <2>2. n * q <= n * (-1) BY <1>1, <1>4, <2>1, SMT
  <2> QED BY <1>1, <1>4, <2>2, SMT
<1>6. q <= 1000
  <2>1. SUFFICES ASSUME q >= 1001 PROVE FALSE BY <1>4, SMT
  <2>2. n * q >= n * 1001 BY <1>1, <1>4, <2>1, SMT
  <2> QED BY <1>1, <1>2, <1>4, <2>2, SMT
<1>7. x = 0 => q = 0 BY <1>1, SMT DEF q
<1>8. q \in 0..1000 /\ ((g = 0 \/ k = 0) => q = 0) BY <1>3, <1>4, <1>5, <1>6, <1>7, SMT
<1> QED BY <1>8, Zenon DEF q, x, n, Points, PointRange

(* The extra FEC is bounded, and none below the threshold. *)
LEMMA FecFacts ==
  ASSUME NEW f \in Nat
  PROVE  FecChange(f) \in 0..5 /\ (f <= MinNoise => FecChange(f) = 0)
BY DEF FecChange, MinNoise, MaxNoise

(* What a message says of any signal and any noise. *)
LEMMA MessageFacts ==
  ASSUME NEW signal \in Signals \cup {Silence}, NEW f \in Nat
  PROVE  /\ Score(signal, f) \in 1000..2000
         /\ Penalty(signal, f) \in -1000..0
         /\ FecChange(f) \in 0..5
         /\ f < MinNoise => Penalty(signal, f) = 0 /\ FecChange(f) = 0
         /\ signal = Silence => Score(signal, f) = 1000 /\ Penalty(signal, f) = 0
<1> DEFINE g == Gain(signal)
           d == Deduction(f)
           kept == IF "penalty" \in allow THEN 100 - d ELSE 100
<1>1. signal \in [heard : BOOLEAN, rssi : Int, snr : Int]
  <2>1. CASE signal \in Signals
    <3>1. signal \in [heard : {TRUE}, rssi : Int, snr : Int] BY <2>1, AlinkAssumption, Zenon
    <3> QED BY <3>1
  <2>2. CASE signal = Silence BY <2>2 DEF Silence
  <2> QED BY <2>1, <2>2
<1>2. g \in GainRange /\ (signal = Silence => g = 0) BY <1>1, GainFacts DEF GainRange
<1>3. d \in Percent /\ (f < MinNoise => d = 0) BY DeductionFacts DEF Percent
<1>4. kept \in Percent BY <1>3 DEF Percent
<1>5. Score(signal, f) = 1000 + Points(g, kept) BY DEF Score, Points
<1>6. Penalty(signal, f) = IF "penalty" \in allow THEN -Points(g, d) ELSE 0
  BY DEF Penalty, Points
<1> HIDE DEF g, d, kept
<1>7. Points(g, kept) \in PointRange /\ (g = 0 => Points(g, kept) = 0)
  BY <1>2, <1>4, PointsFacts, Zenon
<1>8. Points(g, d) \in PointRange /\ (g = 0 \/ d = 0 => Points(g, d) = 0)
  BY <1>2, <1>3, PointsFacts, Zenon
<1>9. FecChange(f) \in 0..5 /\ (f < MinNoise => FecChange(f) = 0)
  BY FecFacts DEF MinNoise
<1> DEFINE p == Points(g, kept)
           q == Points(g, d)
<1>10. /\ p \in 0..1000 /\ (signal = Silence => p = 0)
       /\ q \in 0..1000 /\ (signal = Silence \/ f < MinNoise => q = 0)
  BY <1>2, <1>3, <1>7, <1>8, ZenonT(40) DEF PointRange
<1> HIDE DEF p, q
<1>11. /\ Score(signal, f) = 1000 + p
       /\ Penalty(signal, f) = IF "penalty" \in allow THEN -q ELSE 0
  BY <1>5, <1>6, Zenon DEF p, q
<1>12. Score(signal, f) \in 1000..2000 /\ (signal = Silence => Score(signal, f) = 1000)
  BY <1>10, <1>11
<1>13. /\ Penalty(signal, f) \in -1000..0
       /\ (signal = Silence \/ f < MinNoise => Penalty(signal, f) = 0)
  BY <1>10, <1>11
<1>14. f < MinNoise => Penalty(signal, f) = 0 /\ FecChange(f) = 0 BY <1>9, <1>13
<1>15. signal = Silence => Score(signal, f) = 1000 /\ Penalty(signal, f) = 0 BY <1>12, <1>13
<1> QED BY <1>9, <1>12, <1>13, <1>14, <1>15

(* A controller whose link was clean holds an estimate no larger than the
   one it started with. *)
ScoreInv ==
    /\ noise \in NoiseGrid
    /\ clean => noise <= KalmanEstimate
    /\ ScoreHonest
    /\ PenaltyEarned

LEMMA TickScores ==
  ASSUME ScoreInv, NEW e \in Int, NEW signal \in Signals \cup {Silence},
         NEW r \in BOOLEAN, StatsTick(e, signal, r)
  PROVE  ScoreInv'
<1>1. CASE on /\ wait <= e
  <2>1. PICK left, age : msg' = Message(signal, Filtered(signal, noise'), left, age, clean')
    BY <1>1 DEF StatsTick
  <2>2. noise' \in NoiseGrid /\ (clean' => noise' <= KalmanEstimate)
    <3>1. clean' = (clean /\ ~(missing \/ r)) BY <1>1 DEF StatsTick
    <3>2. CASE signal = Silence
      BY <1>1, <3>1, <3>2 DEF StatsTick, ScoreInv
    <3>3. CASE signal # Silence
      <4>1. PICK m \in ErrorRatios(missing \/ r) : noise' \in Estimates(m)
        BY <1>1, <3>3 DEF StatsTick
      <4>2. noise' \in NoiseGrid /\ Between(noise', noise, m)
        BY <4>1 DEF Estimates
      <4>3. ~(missing \/ r) => m = 0 BY <4>1 DEF ErrorRatios
      <4>4. noise' \in Nat /\ noise \in Nat /\ m \in Nat
        BY <4>1, <4>2, AlinkAssumption DEF ErrorRatios, ScoreInv
      <4>5. m = 0 => noise' <= noise BY <4>2, <4>4 DEF Between
      <4>6. clean' => clean /\ m = 0 BY <3>1, <4>3
      <4>7. clean => noise <= KalmanEstimate BY DEF ScoreInv
      <4> QED BY <4>2, <4>4, <4>5, <4>6, <4>7 DEF KalmanEstimate
    <3> QED BY <3>2, <3>3
  <2>3. PICK f \in Nat :
           /\ f = Filtered(signal, noise')
           /\ clean' => f < MinNoise
           /\ signal = Silence => f = 0
    BY <2>2, AlinkAssumption DEF Filtered, KalmanEstimate, MinNoise
  <2>4. /\ msg'.score = Score(signal, f) /\ msg'.penalty = Penalty(signal, f)
        /\ msg'.fec = FecChange(f)
        /\ msg'.silent => signal = Silence
        /\ msg'.clean => clean'
    BY <2>1, <2>3 DEF Message
  <2>5. /\ Score(signal, f) \in 1000..2000 /\ Penalty(signal, f) \in -1000..0
        /\ FecChange(f) \in 0..5
        /\ f < MinNoise => Penalty(signal, f) = 0 /\ FecChange(f) = 0
        /\ signal = Silence => Score(signal, f) = 1000 /\ Penalty(signal, f) = 0
    BY MessageFacts
  <2>6. f = 0 => f < MinNoise BY DEF MinNoise
  <2>7. ScoreHonest'
    BY <2>3, <2>4, <2>5, <2>6 DEF ScoreHonest
  <2>8. PenaltyEarned'
    BY <2>3, <2>4, <2>5 DEF PenaltyEarned
  <2> QED BY <2>2, <2>7, <2>8 DEF ScoreInv
<1>2. CASE ~(on /\ wait <= e)
  <2>1. UNCHANGED <<noise, clean, msg>> BY <1>2 DEF StatsTick
  <2> QED BY <2>1 DEF ScoreInv, ScoreHonest, PenaltyEarned
<1> QED BY <1>1, <1>2

LEMMA ScoreAlways == AlinkSpec => []ScoreInv
<1>1. AlinkInit => ScoreInv
  <2> SUFFICES ASSUME AlinkInit PROVE ScoreInv OBVIOUS
  <2>1. noise \in NoiseGrid /\ noise <= KalmanEstimate
    BY AlinkAssumption DEF AlinkInit, KalmanEstimate
  <2>2. ScoreHonest /\ PenaltyEarned
    BY DEF AlinkInit, NoMessage, ScoreHonest, PenaltyEarned
  <2> QED BY <2>1, <2>2 DEF ScoreInv
<1>2. ScoreInv /\ [AlinkNext]_alinkVars => ScoreInv'
  <2> SUFFICES ASSUME ScoreInv, [AlinkNext]_alinkVars PROVE ScoreInv'
    OBVIOUS
  <2>1. CASE LosePackets
    BY <2>1 DEF LosePackets, ScoreInv, ScoreHonest, PenaltyEarned
  <2>2. ASSUME NEW enabled \in BOOLEAN, NEW set \in Allowances, NEW iv \in Intervals,
               SetAlinkConfig(enabled, iv, set)
        PROVE  ScoreInv'
    <3>1. msg' = msg BY <2>2 DEF SetAlinkConfig
    <3>2. noise' \in NoiseGrid /\ (clean' => noise' <= KalmanEstimate)
      BY <2>2, AlinkAssumption DEF SetAlinkConfig, ScoreInv, KalmanEstimate
    <3> QED BY <3>1, <3>2 DEF ScoreInv, ScoreHonest, PenaltyEarned
  <2>3. ASSUME NEW e \in Tick..(Tick + Overrun), NEW signal \in Signals \cup {Silence},
               NEW r \in BOOLEAN, StatsTick(e, signal, r)
        PROVE  ScoreInv'
    BY <2>3, TickScores, AlinkAssumption
  <2>4. CASE UNCHANGED alinkVars
    BY <2>4 DEF alinkVars, ScoreInv, ScoreHonest, PenaltyEarned
  <2> QED BY <2>1, <2>2, <2>3, <2>4 DEF AlinkNext
<1> QED BY <1>1, <1>2, PTL DEF AlinkSpec

(* Whatever the drivers report, and however losses, outages and edits of the
   configuration interleave, every message keeps to the range the air unit
   expects and silence scores as bad as it gets (AlinkController::Update,
   alink.cpp:77-122). *)
THEOREM ScoreAlwaysHonest == AlinkSpec => []ScoreHonest
<1>1. ScoreInv => ScoreHonest BY DEF ScoreInv
<1> QED BY <1>1, ScoreAlways, PTL

(* A controller that saw neither loss nor recovery neither deducts nor asks
   for FEC: its noise estimate then stays under the threshold, which is what
   has to be carried along (alink.cpp:38-48, 96-121). *)
THEOREM PenaltiesAreEarned == AlinkSpec => []PenaltyEarned
<1>1. ScoreInv => PenaltyEarned BY DEF ScoreInv
<1> QED BY <1>1, ScoreAlways, PTL
-----------------------------------------------------------------------------
(* A message is due at every tick and a request is made at least once: the
   defaults, alink_interval_ms no longer than kStatsIntervalMs. *)
Prompt == IdrMax > 0 /\ \A iv \in Intervals : iv <= Tick

(* A loss that is owed a request is still in the receiver's counters. *)
PromptInv ==
    /\ interval \in Intervals
    /\ wait \in Nat /\ wait <= Tick
    /\ owed => on /\ "idr" \in allow /\ missing
    /\ LossRequestsKeyframe

LEMMA TickPrompt ==
  ASSUME Prompt, PromptInv, NEW e \in Tick..(Tick + Overrun), NEW signal, NEW r \in BOOLEAN,
         StatsTick(e, signal, r)
  PROVE  PromptInv'
<1>1. wait <= e BY AlinkAssumption DEF PromptInv
<1>2. interval' \in Intervals BY DEF StatsTick, config, PromptInv
<1>3. CASE on
  <2>1. PICK filtered, age : msg' = Message(signal, filtered, RequestsLeft(missing), age, clean')
    BY <1>1, <1>3 DEF StatsTick
  <2>2. wait' = interval /\ ~owed' BY <1>1, <1>3 DEF StatsTick
  <2>3. wait' \in Nat /\ wait' <= Tick
    BY <2>2, AlinkAssumption DEF Prompt, PromptInv
  <2>4. owed => RequestsLeft(missing) > 0
    BY DEF PromptInv, RequestsLeft, Prompt
  <2>5. (msg'.owed => owed) /\ (RequestsLeft(missing) > 0 => msg'.idr)
    BY <2>1 DEF Message
  <2>6. LossRequestsKeyframe' BY <2>4, <2>5 DEF LossRequestsKeyframe
  <2> QED BY <1>2, <2>2, <2>3, <2>6 DEF PromptInv
<1>4. CASE ~on
  <2>1. wait' = 0 /\ UNCHANGED <<msg, owed>> BY <1>1, <1>4 DEF StatsTick
  <2>2. ~owed' BY <2>1, <1>4 DEF PromptInv
  <2>3. wait' \in Nat /\ wait' <= Tick BY <2>1, AlinkAssumption
  <2>4. LossRequestsKeyframe' BY <2>1 DEF PromptInv, LossRequestsKeyframe
  <2> QED BY <1>2, <2>2, <2>3, <2>4 DEF PromptInv
<1> QED BY <1>3, <1>4

(* With a message due at every tick no loss goes unreported, whatever is
   configured between the loss and the message: the message that follows it
   asks for a keyframe (StatsLoop, ground_station.cpp:218-252, and
   alink.cpp:70-75). *)
THEOREM EveryLossReported ==
  ASSUME Prompt
  PROVE  AlinkSpec => []LossRequestsKeyframe
<1>1. AlinkInit => PromptInv
  <2> SUFFICES ASSUME AlinkInit PROVE PromptInv OBVIOUS
  <2>1. interval \in Intervals /\ wait \in Nat /\ wait <= Tick
    BY AlinkAssumption DEF AlinkInit
  <2>2. ~owed /\ LossRequestsKeyframe BY DEF AlinkInit, NoMessage, LossRequestsKeyframe
  <2> QED BY <2>1, <2>2 DEF PromptInv
<1>2. PromptInv /\ [AlinkNext]_alinkVars => PromptInv'
  <2> SUFFICES ASSUME PromptInv, [AlinkNext]_alinkVars PROVE PromptInv'
    OBVIOUS
  <2>1. CASE LosePackets
    BY <2>1 DEF LosePackets, config, PromptInv, LossRequestsKeyframe
  <2>2. ASSUME NEW enabled \in BOOLEAN, NEW set \in Allowances, NEW iv \in Intervals,
               SetAlinkConfig(enabled, iv, set)
        PROVE  PromptInv'
    BY <2>2 DEF SetAlinkConfig, PromptInv, LossRequestsKeyframe
  <2>3. ASSUME NEW e \in Tick..(Tick + Overrun), NEW signal \in Signals \cup {Silence},
               NEW r \in BOOLEAN, StatsTick(e, signal, r)
        PROVE  PromptInv'
    BY <2>3, TickPrompt
  <2>4. CASE UNCHANGED alinkVars
    BY <2>4 DEF alinkVars, config, PromptInv, LossRequestsKeyframe
  <2> QED BY <2>1, <2>2, <2>3, <2>4 DEF AlinkNext
<1>3. PromptInv => LossRequestsKeyframe
  BY DEF PromptInv
<1> QED BY <1>1, <1>2, <1>3, PTL DEF AlinkSpec
==============================================================================
