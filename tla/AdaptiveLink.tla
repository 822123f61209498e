---------------------------- MODULE AdaptiveLink ----------------------------
(***************************************************************************)
(* The adaptive link: the stats thread (GroundStation::StatsLoop) takes a  *)
(* snapshot every tick and, when a message is due, lets AlinkController    *)
(* turn it into a message for the air unit.  A snapshot with losses starts *)
(* a keyframe (IDR) request that rides on the next messages.               *)
(*                                                                         *)
(* Noise is counted in thousandths and takes values of a grid; an update   *)
(* of the Kalman filter, whose gain lies between 0 and 1, moves the        *)
(* estimate by any amount towards the measurement.  The score is the       *)
(* code's, in integers.  Of the wall clock only the distance to the next   *)
(* message is kept; a message that is overdue is due.  The clock does not  *)
(* go back.                                                                *)
(***************************************************************************)
EXTENDS Integers

CONSTANTS
    Tick,       \* kStatsIntervalMs
    Overrun,    \* by how much a sleep may exceed it
    Intervals,  \* what config.interval_ms may be set to
    IdrMax,     \* idr_max_messages
    Signals,    \* best_rssi and best_snr of a snapshot that heard something
    NoiseGrid   \* the values of the noise estimate

(* The defaults of AlinkConfig, which nothing in the app changes. *)
SnrMin == 12
SnrMax == 38
RssiMin == -80
RssiMax == -30
MinNoise == 10
MaxNoise == 100
KalmanEstimate == 5

(* The signal of a snapshot that heard nothing. *)
Silence == [heard |-> FALSE, rssi |-> -105, snr |-> 0]

ASSUME AlinkAssumption ==
    /\ Tick \in Nat \ {0} /\ Overrun \in Nat
    /\ Intervals \subseteq Nat /\ IdrMax \in Nat
    /\ Signals \subseteq [heard : {TRUE}, rssi : Int, snr : Int]
    /\ NoiseGrid \subseteq Nat /\ {0, KalmanEstimate} \subseteq NoiseGrid

VARIABLES
    on,        \* alink_ is not null
    interval,  \* config_.alink.interval_ms
    allow,     \* of "idr", "penalty" and "fec": the allow_* that are set
    missing,   \* the receiver lost packets since the last snapshot
    wait,      \* next_alink_ms - now, 0 when it has passed
    idrLeft,   \* idr_remaining_; idr_code_ is empty when it is 0
    noise,     \* kalman_estimate_
    msg,       \* the last message sent and the history at that time
    clean,     \* history: this controller has seen no loss and no recovery
    owed,      \* history: packets were lost since the last message, with
               \* keyframe requests on
    since      \* history: messages sent since the last loss was reported,
               \* up to IdrMax + 1

config == <<on, interval, allow>>
alinkVars == <<config, missing, wait, idrLeft, noise, msg, clean, owed, since>>

NoMessage == [idr |-> FALSE, score |-> 1000, penalty |-> 0, fec |-> 0,
              silent |-> TRUE, clean |-> TRUE, owed |-> FALSE, since |-> IdrMax + 1]
Allowances == SUBSET {"idr", "penalty", "fec"}

AlinkInit ==
    /\ on \in BOOLEAN
    /\ interval \in Intervals
    /\ allow \in Allowances
    /\ missing = FALSE
    /\ wait = 0
    /\ idrLeft = 0
    /\ noise = KalmanEstimate
    /\ msg = NoMessage
    /\ clean = TRUE
    /\ owed = FALSE
    /\ since = IdrMax + 1

(* The rx thread: the aggregator counts a loss. *)
LosePackets ==
    /\ missing' = TRUE
    /\ owed' = (on /\ "idr" \in allow)
    /\ UNCHANGED <<config, wait, idrLeft, noise, msg, clean, since>>

(* SetAlinkConfig: a controller that stays keeps its request and its noise
   estimate, one that is made anew has none. *)
SetAlinkConfig(enabled, iv, set) ==
    /\ on' = enabled
    /\ interval' = iv
    /\ allow' = set
    /\ IF on /\ enabled
       THEN UNCHANGED <<idrLeft, noise, clean, since>>
       ELSE /\ idrLeft' = 0 /\ since' = IdrMax + 1
            /\ noise' = KalmanEstimate /\ clean' = TRUE
    /\ owed' = (owed /\ on /\ enabled /\ "idr" \in set)
    /\ UNCHANGED <<missing, wait, msg>>
-----------------------------------------------------------------------------
(* AlinkController::Update: in how many messages, this one included, the
   request is still to be made. *)
RequestsLeftNoRestart(loss) ==
    IF loss /\ "idr" \in allow /\ idrLeft = 0 THEN IdrMax ELSE idrLeft

RequestsLeftTooLate(loss) == idrLeft

RequestsLeft(loss) == IF loss /\ "idr" \in allow THEN IdrMax ELSE idrLeft

AfterMessage(left) == IF left > 0 THEN left - 1 ELSE 0

(* error_ratio, of a snapshot that heard packets: positive exactly when some
   were lost or recovered. *)
ErrorRatios(errors) == IF errors THEN NoiseGrid \ {0} ELSE {0}

(* KalmanUpdate. *)
Between(x, a, b) == (a <= x /\ x <= b) \/ (b <= x /\ x <= a)

EstimatesDiverging(measurement) == {x \in NoiseGrid : x >= noise}

Estimates(measurement) == {x \in NoiseGrid : Between(x, noise, measurement)}

Clamp01(x, span) == IF x < 0 THEN 0 ELSE IF x > span THEN span ELSE x

(* raw_score and final_score in parts of Unit, which the division by both
   spans leaves whole; the square root in percent. *)
Unit == (SnrMax - SnrMin) * (RssiMax - RssiMin)
Gain(signal) ==
    500 * (Clamp01(signal.snr - SnrMin, SnrMax - SnrMin) * (RssiMax - RssiMin)
           + Clamp01(signal.rssi - RssiMin, RssiMax - RssiMin) * (SnrMax - SnrMin))

Deduction(filtered) ==
    LET Below(r) == r * r * (MaxNoise - MinNoise) <= 10000 * (filtered - MinNoise)
    IN  IF filtered < MinNoise THEN 0
        ELSE IF filtered >= MaxNoise THEN 100
        ELSE CHOOSE r \in 0..99 : Below(r) /\ ~Below(r + 1)

Penalty(signal, filtered) ==
    IF "penalty" \in allow THEN -((Gain(signal) * Deduction(filtered)) \div (100 * Unit)) ELSE 0

Score(signal, filtered) ==
    LET kept == IF "penalty" \in allow THEN 100 - Deduction(filtered) ELSE 100
    IN  1000 + (Gain(signal) * kept) \div (100 * Unit)

FecChange(filtered) ==
    IF "fec" \notin allow \/ filtered <= MinNoise THEN 0
    ELSE IF filtered >= MaxNoise THEN 5
    ELSE (10 * (filtered - MinNoise) + (MaxNoise - MinNoise)) \div (2 * (MaxNoise - MinNoise))

(* The message for a snapshot, with the filtered noise. *)
Message(signal, filtered, left, age, spotless) ==
    [idr |-> left > 0, score |-> Score(signal, filtered), penalty |-> Penalty(signal, filtered),
     fec |-> FecChange(filtered), silent |-> signal = Silence, clean |-> spotless,
     owed |-> owed, since |-> age]

FilteredStale(signal, estimate) == estimate

(* A snapshot that heard nothing leaves the filter alone and has no noise. *)
Filtered(signal, estimate) == IF signal = Silence THEN 0 ELSE estimate
-----------------------------------------------------------------------------
(* One turn of StatsLoop: the snapshot is taken, and clears the receiver's
   counters, whether a message is due or not.  A loss is counted when a
   later packet is heard. *)
StatsTick(elapsed, signal, recovered) ==
    LET passed == wait <= elapsed
        errors == missing \/ recovered
        left   == RequestsLeft(missing)
        age    == IF missing /\ "idr" \in allow THEN 0 ELSE since
    IN  /\ errors => signal # Silence
        /\ missing' = FALSE
        /\ IF on /\ passed
           THEN /\ wait' = interval
                /\ idrLeft' = AfterMessage(left)
                /\ IF signal = Silence THEN UNCHANGED noise
                   ELSE \E measurement \in ErrorRatios(errors) : noise' \in Estimates(measurement)
                /\ clean' = (clean /\ ~errors)
                /\ msg' = Message(signal, Filtered(signal, noise'), left, age, clean')
                /\ owed' = FALSE
                /\ since' = IF age > IdrMax THEN age ELSE age + 1
           ELSE /\ wait' = IF passed THEN 0 ELSE wait - elapsed
                /\ UNCHANGED <<idrLeft, noise, clean, msg, owed, since>>
        /\ UNCHANGED config

AlinkNext ==
    \/ LosePackets
    \/ \E enabled \in BOOLEAN, set \in Allowances, iv \in Intervals :
          SetAlinkConfig(enabled, iv, set)
    \/ \E e \in Tick..(Tick + Overrun), signal \in Signals \cup {Silence}, r \in BOOLEAN :
          StatsTick(e, signal, r)

AlinkSpec == AlinkInit /\ [][AlinkNext]_alinkVars
-----------------------------------------------------------------------------
(* A message that follows a loss carries a keyframe request, whatever was
   configured in between: "A loss burst is what triggers a keyframe
   request" (alink.cpp:70). *)
LossRequestsKeyframe == msg.owed => msg.idr

(* A request rides on exactly the IdrMax messages from the one that reports
   the last loss on: it "is repeated across several messages so it survives
   packet loss on the uplink" (alink.h:80-81), a new loss starts it anew,
   and it ends. *)
RequestRepeated == msg.idr <=> msg.since < IdrMax

(* "The score alink reports lives in [1000, 2000]" (alink.h:25), with the
   penalty taken off and whatever signal a driver reports, and a snapshot
   that heard nothing scores "as bad as it gets", with no penalty or extra
   FEC left over from the noise before it. *)
ScoreHonest ==
    /\ msg.score \in 1000..2000
    /\ msg.penalty \in -1000..0 /\ msg.fec \in 0..5
    /\ msg.silent => msg.score = 1000 /\ msg.penalty = 0 /\ msg.fec = 0

(* A controller that has reported neither loss nor recovery since it was
   made deducts nothing and asks for no more FEC, through outages and edits
   of its configuration: the filter starts below the thresholds
   (config.h:112-118) and silence does not feed it. *)
PenaltyEarned == msg.clean => msg.penalty = 0 /\ msg.fec = 0
==============================================================================
