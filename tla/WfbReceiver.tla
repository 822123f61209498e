----------------------------- MODULE WfbReceiver -----------------------------
(***************************************************************************)
(* WfbReceiver (core/src/wfb/wfb_receiver.cpp): the frames the adapter     *)
(* hears are told apart by the channel id in their addresses, handed to    *)
(* the aggregator of their radio port, and accounted for; once per stats   *)
(* interval another thread takes the account and starts a new one.  Both   *)
(* run under mutex_, so each is one step.                                  *)
(*                                                                         *)
(* wfb-ng's Aggregator is external: a packet is a session packet it        *)
(* accepts, one it refuses, a bad one, or data, which may reveal losses    *)
(* and complete payloads.  A received strength is the adapter's unsigned   *)
(* value; SNR is accounted for in the same way and left out.               *)
(***************************************************************************)
EXTENDS Integers, Sequences, FiniteSets, FiniteSetsExt

CONSTANTS
    LinkId,     \* radio_.link_id
    PortMod,    \* 2^8: radio ports in a channel id
    ChanMod,    \* 2^32: channel ids
    Primary,    \* primary_port_, the port whose packets are accounted for
    Chans,      \* the channel ids on the air
    Raw,        \* the strengths an adapter reports, one per RF path
    MaxPaths,   \* bound: RF paths
    MaxFrames   \* bound: frames heard

ASSUME ReceiverAssumption ==
    /\ PortMod \in Nat \ {0} /\ ChanMod \in Nat \ {0}
    /\ LinkId \in Nat /\ LinkId * PortMod < ChanMod
    /\ Primary \in 0..(PortMod - 1)
    /\ Chans \subseteq 0..(ChanMod - 1) /\ Raw \subseteq 0..255
    /\ MaxPaths \in Nat /\ MaxFrames \in Nat

VARIABLES
    counts,      \* the aggregator's counters of the primary port
    sessionSeen, \* session_seen_ of its sink
    hasKey,      \* the aggregator accepted a session key
    paths,       \* paths_: [n, sum, min, max] for every RF path
    snapshot,    \* the last snapshot taken
    heard,       \* history: strengths of the primary port's frames, one
                 \* sequence per frame, since the last snapshot
    basis,       \* history: what heard was when the snapshot was taken
    total,       \* history: counters if they were never cleared
    reported     \* history: sum of the snapshots' counters

vars == <<counts, sessionSeen, hasKey, paths, snapshot, heard, basis, total, reported>>

Counters == {"all", "session", "data", "lost", "decErr", "bad"}
Zero == [c \in Counters |-> 0]
Plus(a, b) == [c \in Counters |-> a[c] + b[c]]

NoSignal == [n |-> 0, sum |-> 0, min |-> 0, max |-> 0]
ResetSignal == [i \in 1..MaxPaths |-> NoSignal]

(* ChannelId: a 32-bit value. *)
ChannelId(link, port) == ((link * PortMod) % ChanMod) + port

(* The radio port of a frame, -1 when it is not ours: not a wfb frame, or
   addresses that differ, or another link. *)
ClassifyFrameAnyLink(f) ==
    IF f.wfb /\ f.src = f.dst THEN f.src % PortMod ELSE -1

ClassifyFrame(f) ==
    IF f.wfb /\ f.src = f.dst /\ f.src \div PortMod = LinkId
    THEN f.src % PortMod
    ELSE -1

(* The signed strength a source reports, in 8 bits. *)
ToDbm(raw) == IF raw > 127 THEN -128 ELSE -raw

(* AccumulateSignal. *)
AccumulateStaleMin(acc, v) ==
    IF acc.n = 0 THEN [n |-> 1, sum |-> acc.sum + v, min |-> v, max |-> v]
    ELSE [n |-> acc.n + 1, sum |-> acc.sum + v, min |-> acc.min,
          max |-> IF v > acc.max THEN v ELSE acc.max]

Accumulate(acc, v) ==
    IF acc.n = 0 THEN [n |-> 1, sum |-> acc.sum + v, min |-> v, max |-> v]
    ELSE [n |-> acc.n + 1, sum |-> acc.sum + v,
          min |-> IF v < acc.min THEN v ELSE acc.min,
          max |-> IF v > acc.max THEN v ELSE acc.max]

AccumulateSignal(rssi) ==
    [i \in 1..MaxPaths |->
        IF i <= Len(rssi) THEN Accumulate(paths[i], ToDbm(rssi[i])) ELSE paths[i]]

(* session_established() of the sink. *)
SessionEstablishedByTraffic == counts.all > 0 \/ sessionSeen

SessionEstablished == counts.session > 0 \/ sessionSeen

NoSnapshot ==
    [counts |-> Zero, established |-> FALSE, antennas |-> <<>>, best |-> -105]

Init ==
    /\ counts = Zero
    /\ sessionSeen = FALSE
    /\ hasKey = FALSE
    /\ paths = ResetSignal
    /\ snapshot = NoSnapshot
    /\ heard = <<>>
    /\ basis = <<>>
    /\ total = Zero
    /\ reported = Zero
-----------------------------------------------------------------------------
(* What process_packet may make of a packet: how the counters move, whether
   a key is there afterwards, and whether a payload came out. *)
Moved(moves) == [c \in Counters |-> IF c = "all" THEN 1
                                    ELSE IF c \in DOMAIN moves THEN moves[c] ELSE 0]
ProcessPacket ==
    {[add |-> Moved([session |-> 1]), key |-> TRUE, payload |-> FALSE],
     [add |-> Moved([decErr |-> 1]), key |-> hasKey, payload |-> FALSE],
     [add |-> Moved([bad |-> 1]), key |-> hasKey, payload |-> FALSE]}
    \cup (IF hasKey
          THEN {[add |-> Moved([data |-> 1, lost |-> l]), key |-> TRUE, payload |-> p] :
                    l \in 0..1, p \in BOOLEAN}
          ELSE {})

FramesOnAir == [wfb : BOOLEAN, src : Chans, dst : Chans]
Strengths == UNION {[1..n -> Raw] : n \in 0..MaxPaths}

(* ProcessFrame: a frame for another stream, or for nobody, leaves the
   account of the primary port alone.  The history goes by who sent it. *)
SentToUs(f) == f.wfb /\ f.src = f.dst /\ f.src = ChannelId(LinkId, Primary)

ProcessFrame(f, rssi) ==
    LET hit == ClassifyFrame(f) = Primary
    IN  /\ total.all < MaxFrames
        /\ paths' = IF hit THEN AccumulateSignal(rssi) ELSE paths
        /\ heard' = IF SentToUs(f) THEN Append(heard, rssi) ELSE heard
        /\ \E p \in ProcessPacket :
              /\ counts' = IF hit THEN Plus(counts, p.add) ELSE counts
              /\ total' = IF SentToUs(f) THEN Plus(total, p.add) ELSE total
              /\ hasKey' = IF hit THEN p.key ELSE hasKey
              /\ sessionSeen' = (sessionSeen \/ (hit /\ p.payload))
        /\ UNCHANGED <<snapshot, basis, reported>>
-----------------------------------------------------------------------------
(* C++ integer division truncates toward zero. *)
Quotient(a, n) == IF a >= 0 THEN a \div n ELSE -((-a) \div n)

Heard == {i \in 1..MaxPaths : paths[i].n > 0}

(* Antennas are numbered as they come, skipping silent paths. *)
AntennaStats ==
    [k \in 1..Cardinality(Heard) |->
        LET i == CHOOSE j \in Heard : Cardinality({h \in Heard : h < j}) = k - 1
        IN  [count |-> paths[i].n, min |-> paths[i].min, max |-> paths[i].max,
             avg |-> Quotient(paths[i].sum, paths[i].n)]]

Best(antennas) == Max({-105} \cup {antennas[k].avg : k \in 1..Len(antennas)})

TakeSnapshot ==
    /\ snapshot' = [counts |-> counts, established |-> SessionEstablished,
                    antennas |-> AntennaStats, best |-> Best(AntennaStats)]
    /\ counts' = Zero
    /\ paths' = ResetSignal
    /\ basis' = heard
    /\ heard' = <<>>
    /\ reported' = Plus(reported, counts)
    /\ UNCHANGED <<sessionSeen, hasKey, total>>

-----------------------------------------------------------------------------
(* No packet is lost or counted twice between two snapshots, however frames
   and snapshots interleave: "Take the counters accumulated since the last
   call and reset them" (wfb_receiver.h:64). *)
CountersConserved == total = Plus(reported, counts)

(* The frames of the last snapshot that path i heard, and how strong. *)
OnPath(i) == {k \in 1..Len(basis) : i <= Len(basis[k])}
ValuesOnPath(i) == {ToDbm(basis[k][i]) : k \in OnPath(i)}

(* The sum of the strengths path i heard in the frames of a history. *)
StrengthOn(rssi, i) == IF i <= Len(rssi) THEN ToDbm(rssi[i]) ELSE 0
PathSum(frames, i) ==
    LET sum[k \in 0..Len(frames)] ==
          IF k = 0 THEN 0 ELSE sum[k - 1] + StrengthOn(frames[k], i)
    IN  sum[Len(frames)]

(* Rounded towards zero, the mean of strengths that are not positive is at
   most one short of a unit above the exact one. *)
IsMean(avg, sum, n) == (n * avg) - sum \in 0..(n - 1)

AntennaExact(i) ==
    LET a == snapshot.antennas[i]
    IN  /\ a.count = Cardinality(OnPath(i))
        /\ a.min = Min(ValuesOnPath(i)) /\ a.max = Max(ValuesOnPath(i))
        /\ IsMean(a.avg, PathSum(basis, i), a.count)
        /\ a.min <= a.avg /\ a.avg <= a.max /\ a.max <= 0

(* A snapshot's antenna records are those of the frames heard since the
   snapshot before it, path by path, the first path first: how many, the
   weakest, the strongest, and the mean rounded towards zero.  The best is the
   best mean, but never below the -105 the search for it starts from
   (wfb_receiver.cpp:183, 201).  However strong or weak a frame was, no
   strength is positive ("wfb-ng and the OSD both want it signed and
   negative", devourer_source.cpp:163-164). *)
SnapshotExact ==
    /\ \A i \in 1..MaxPaths :
          i <= Len(snapshot.antennas) <=> OnPath(i) # {}
    /\ \A i \in 1..Len(snapshot.antennas) : AntennaExact(i)
    /\ \A i \in 1..Len(snapshot.antennas) : snapshot.antennas[i].avg <= snapshot.best
    /\ \/ snapshot.best = -105
       \/ /\ snapshot.best > -105
          /\ \E i \in 1..Len(snapshot.antennas) : snapshot.best = snapshot.antennas[i].avg
==============================================================================
