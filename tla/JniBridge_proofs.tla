-------------------------- MODULE JniBridge_proofs --------------------------
(***************************************************************************)
(* Proofs about GroundStation and about JniBridge, which is composed with  *)
(* it: the lifetimes of the objects that four threads share, however Start,*)
(* its failures, Stop and the setters interleave with the threads.         *)
(***************************************************************************)
EXTENDS JniBridge, TLAPS

GsTypeOK ==
    /\ main \in {"idle", "makeSource", "startSource", "initWrite", "startStats", "started",
                 "failed", "failRouter", "joinFailed", "joinStats", "stopSource", "joinRx",
                 "resetSource", "stopRouter", "joinRouter", "retune", "setEndpoints"}
    /\ kind \in {"devourer", "udp"}
    /\ device \in {"none", "created", "up"}
    /\ running \in BOOLEAN /\ source \in BOOLEAN /\ receiver \in BOOLEAN
    /\ srcRunning \in BOOLEAN /\ mavRunning \in BOOLEAN
    /\ stats \in {"none", "loop", "tick", "snapshot", "publish", "due", "update", "uplink",
                  "exited"}
    /\ poll \in {"none", "loop", "ready", "walk", "walked", "exited"}
    /\ rx \in {"none", "loop", "frame", "telemetry", "feed", "exited"}
    /\ tx \in [Senders -> {"none", "checked", "transmit", "send"}]
    /\ rxMutex \in {"free", "stats", "rx"}
    /\ epMutex \in {"free", "poll", "rx"}

(* Where the control thread is while a station runs that it has started, and
   while there is none. *)
Resting == {"idle", "setEndpoints"}
Live == main \in {"started", "retune"} \/ (main \in Resting /\ running)
Stopped == main \in Resting /\ ~running

(* The stats thread exists from the end of Start to its join, the rx thread
   from the start of the source to its join. *)
StatsExists == Live \/ main = "joinStats"
RxExists == StatsExists \/ main \in {"startStats", "stopSource", "joinRx"}

(* Each object exists in the phases given here. *)
PhaseInv ==
    /\ running => Live
    /\ main \in {"started", "retune"} => running
    /\ stats # "none" <=> StatsExists
    /\ rx # "none" <=> RxExists
    /\ source => RxExists \/ main \in {"startSource", "initWrite", "failed", "resetSource"}
    /\ RxExists => source /\ (kind = "devourer" => receiver /\ device = "up")
    /\ main = "initWrite" => kind = "devourer" /\ receiver
    /\ main \in {"startSource", "initWrite"} => source
    /\ main = "startSource" /\ kind = "devourer" => receiver
    /\ device # "none" => kind = "devourer" /\ (RxExists \/ main = "initWrite")
    /\ receiver => kind = "devourer" /\ ~Stopped
                   /\ main \notin {"makeSource", "failRouter", "joinFailed"}
    /\ srcRunning => RxExists /\ main # "joinRx"
    /\ mavRunning => ~Stopped /\ main \notin {"joinRouter", "joinFailed"}
    /\ poll # "none" => ~Stopped

(* A thread holds a lock exactly where it is inside it, and is inside
   SendUplink only where it calls it. *)
LockInv ==
    /\ rxMutex = "stats" <=> stats = "snapshot"
    /\ rxMutex = "rx" <=> rx \in {"frame", "telemetry", "feed"}
    /\ epMutex = "poll" <=> poll \in {"walk", "walked"}
    /\ epMutex = "rx" <=> rx = "feed"
    /\ tx["stats"] # "none" => stats = "uplink" /\ kind = "devourer"
    /\ tx["poll"] # "none" => poll = "walked"
    /\ stats = "snapshot" => receiver

GsInv == GsTypeOK /\ PhaseInv /\ LockInv
-----------------------------------------------------------------------------
(* The steps of the control thread. *)
LEMMA GsControlStep ==
  ASSUME GsInv,
         \/ \E k \in {"devourer", "udp"}, e \in BOOLEAN : StartRouter(k, e)
         \/ Stop \/ SetChannel \/ SetMavlinkEndpoints
         \/ \E e \in BOOLEAN : SetAlinkConfig(e)
         \/ MainStep
  PROVE  GsInv'
<1> USE DEF GsInv, GsTypeOK, PhaseInv, LockInv, Live, Stopped, StatsExists, RxExists, Resting,
            flags, objects, threads, locks, Senders
<1>1. ASSUME NEW k \in {"devourer", "udp"}, NEW e \in BOOLEAN, StartRouter(k, e)
      PROVE  GsInv'
  <2>1. GsTypeOK' BY <1>1 DEF StartRouter
  <2>2. PhaseInv' BY <1>1 DEF StartRouter
  <2>3. LockInv' BY <1>1 DEF StartRouter
  <2> QED BY <2>1, <2>2, <2>3
<1>2. CASE Stop
  <2>1. GsTypeOK'
    <3>1. running' = FALSE /\ main' = "joinStats" BY <1>2, Zenon DEF Stop
    <3>2. UNCHANGED <<kind, srcRunning, mavRunning, source, device, receiver, stats, poll, rx, tx,
                      rxMutex, epMutex>>
      BY <1>2, Zenon DEF Stop
    <3>3. running' \in BOOLEAN BY <3>1, Zenon
    <3> QED BY <3>1, <3>2, <3>3
  <2>2. PhaseInv'
    <3>1. Live /\ StatsExists /\ RxExists BY <1>2 DEF Stop
    <3>2. StatsExists' /\ RxExists' /\ ~Live' /\ ~Stopped' BY <1>2 DEF Stop
    <3>3. running' = FALSE /\ main' = "joinStats"
          /\ UNCHANGED <<stats, poll, rx, source, receiver, device, kind, srcRunning, mavRunning>>
      BY <1>2 DEF Stop
    <3> HIDE DEF Live, Stopped, StatsExists, RxExists
    <3> QED BY <3>1, <3>2, <3>3
  <2>3. LockInv' BY <1>2 DEF Stop
  <2> QED BY <2>1, <2>2, <2>3
<1>3. CASE SetChannel BY <1>3 DEF SetChannel
<1>4. CASE SetMavlinkEndpoints BY <1>4 DEF SetMavlinkEndpoints
<1>5. CASE \E e \in BOOLEAN : SetAlinkConfig(e) BY <1>5 DEF SetAlinkConfig
<1>6. CASE KeyUnreadable BY <1>6 DEF KeyUnreadable
<1>7. CASE MakeSource BY <1>7 DEF MakeSource
<1>8. CASE CreateDevice BY <1>8 DEF CreateDevice
<1>9. CASE RunSource BY <1>9 DEF RunSource
<1>10. CASE SourceFails BY <1>10 DEF SourceFails, Cleanup
<1>11. CASE DropSource BY <1>11 DEF DropSource
<1>12. CASE StartStats BY <1>12 DEF StartStats
<1>13. CASE StartReturns BY <1>13 DEF StartReturns
<1>14. CASE Retuned BY <1>14 DEF Retuned
<1>15. CASE EndpointsSet BY <1>15 DEF EndpointsSet
<1>16. CASE JoinStats BY <1>16 DEF JoinStats
<1>17. CASE StopSource BY <1>17, ZenonT(40) DEF StopSource
<1>18. CASE JoinRx BY <1>18 DEF JoinRx, Cleanup
<1>19. CASE ResetSource BY <1>19 DEF ResetSource
<1>20. CASE StopRouter BY <1>20 DEF StopRouter
<1>21. CASE JoinRouter BY <1>21 DEF JoinRouter, RouterJoined
<1>22. CASE JoinFailed BY <1>22 DEF JoinFailed, RouterJoined
<1> QED
  BY <1>1, <1>2, <1>3, <1>4, <1>5, <1>6, <1>7, <1>8, <1>9, <1>10, <1>11, <1>12, <1>13, <1>14,
     <1>15, <1>16, <1>17, <1>18, <1>19, <1>20, <1>21, <1>22
  DEF MainStep

(* The steps of the worker threads. *)
LEMMA GsThreadStep ==
  ASSUME GsInv, StatsStep \/ PollStep \/ RxStep
  PROVE  GsInv'
<1> USE DEF GsInv, GsTypeOK, PhaseInv, LockInv, Live, Stopped, StatsExists, RxExists, Resting,
            flags, objects, threads, locks, Senders
<1>1. CASE StatsWake BY <1>1 DEF StatsWake
<1>2. CASE StatsLock BY <1>2 DEF StatsLock
<1>3. CASE StatsPublish BY <1>3 DEF StatsPublish
<1>4. CASE StatsNotDue BY <1>4 DEF StatsNotDue
<1>5. CASE StatsDue BY <1>5 DEF StatsDue
<1>6. CASE StatsUpdate BY <1>6 DEF StatsUpdate
<1>7. CASE StatsUplink BY <1>7 DEF StatsUplink, SendUplink
<1>8. CASE StatsSent BY <1>8 DEF StatsSent
<1>9. CASE PollReady BY <1>9 DEF PollReady
<1>10. CASE PollLock BY <1>10 DEF PollLock
<1>11. CASE HandleEndpointData BY <1>11 DEF HandleEndpointData, SendUplink
<1>12. CASE PollNothing BY <1>12 DEF PollNothing
<1>13. CASE PollUnlock BY <1>13 DEF PollUnlock
<1>14. CASE RxFrame BY <1>14 DEF RxFrame
<1>15. CASE RxFeedDownlink BY <1>15 DEF RxFeedDownlink
<1>16. CASE RxFed BY <1>16 DEF RxFed
<1>17. CASE RxFrameDone BY <1>17 DEF RxFrameDone
<1>18. CASE RxExit BY <1>18 DEF RxExit
<1>19. CASE \E t \in Senders : UplinkStep(t)
  BY <1>19
  DEF UplinkStep, EnterTransmit, Transmit, SendPacket
<1> QED
  BY <1>1, <1>2, <1>3, <1>4, <1>5, <1>6, <1>7, <1>8, <1>9, <1>10, <1>11, <1>12, <1>13, <1>14,
     <1>15, <1>16, <1>17, <1>18, <1>19
  DEF StatsStep, PollStep, RxStep

LEMMA GsStep == GsInv /\ [Next]_vars => GsInv'
<1> SUFFICES ASSUME GsInv, [Next]_vars PROVE GsInv' OBVIOUS
<1>1. CASE Next BY <1>1, GsControlStep, GsThreadStep DEF Next
<1>2. CASE UNCHANGED vars
  BY <1>2 DEF vars, GsInv, GsTypeOK, PhaseInv, LockInv, Live, Stopped, StatsExists, RxExists,
              Resting, flags, objects, threads, locks
<1> QED BY <1>1, <1>2

LEMMA GsInitial == Init => GsInv
<1> SUFFICES ASSUME Init PROVE GsInv OBVIOUS
<1>1. tx["stats"] = "none" /\ tx["poll"] = "none" BY DEF Init, Senders
<1>2. GsTypeOK BY DEF Init, GsTypeOK, Senders
<1> QED
  BY <1>1, <1>2
  DEF Init, GsInv, PhaseInv, LockInv, Live, Stopped, StatsExists, RxExists, Resting

(* What the lifetimes mean for the threads. *)
LEMMA GsSafe == GsInv => StatsThreadSafe /\ RxThreadSafe /\ StoppedIsClean
<1> SUFFICES ASSUME GsInv PROVE StatsThreadSafe /\ RxThreadSafe /\ StoppedIsClean OBVIOUS
<1> USE DEF GsInv, GsTypeOK, PhaseInv, LockInv, Live, Stopped, StatsExists, RxExists, Resting,
            Senders
<1>1. StatsThreadSafe BY DEF StatsThreadSafe, UplinkSafe
<1>2. RxThreadSafe BY DEF RxThreadSafe
<1>3. ASSUME main = "idle", ~running
      PROVE  /\ stats = "none" /\ poll = "none" /\ rx = "none"
             /\ ~source /\ device = "none" /\ ~receiver /\ ~srcRunning /\ ~mavRunning
             /\ rxMutex = "free" /\ epMutex = "free"
  BY <1>3
<1>4. ASSUME main = "idle", ~running PROVE tx = [t \in Senders |-> "none"]
  <2>1. tx["stats"] = "none" /\ tx["poll"] = "none" BY <1>3, <1>4
  <2> QED BY <2>1
<1> QED BY <1>1, <1>2, <1>3, <1>4 DEF StoppedIsClean

(* However Start, with all its failures, Stop and the setters interleave with
   the three threads, for a radio and for a UDP source: the stats thread and
   the rx thread never work in a receiver, a source or a device that is gone,
   and a station that is stopped, or whose Start failed, has none of these,
   no thread and no lock (GroundStation::Start and Stop,
   ground_station.cpp:51-175).  The poll thread, alink_ and the mirror socket
   are not covered: PollUplinkSafe and AlinkSafe say what happens there. *)
THEOREM LifetimesRespected == Spec => [](StatsThreadSafe /\ RxThreadSafe /\ StoppedIsClean)
<1> QED BY GsInitial, GsStep, GsSafe, PTL DEF Spec
-----------------------------------------------------------------------------
(* Where nativeDestroy may find the control thread. *)
Closing == {"idle", "joinStats", "stopSource", "joinRx", "resetSource", "stopRouter",
            "joinRouter"}

(* A session outlives its station; there is a listener, with one reference,
   from the first start on. *)
SessionInv ==
    /\ session \in BOOLEAN /\ closing \in BOOLEAN /\ listener \in BOOLEAN
    /\ refs = IF listener THEN 1 ELSE 0
    /\ closing => session /\ ~running /\ main \in Closing
    /\ ~session => main = "idle" /\ ~running /\ ~listener
    /\ ~Stopped => listener

(* A thread is inside a callback only where it makes one, and a thread of the
   station is attached exactly as long. *)
ScopeInv ==
    /\ scope \in [Callers -> {"none", "entered", "attached"}]
    /\ InCall("main") => main \in {"started", "failed"}
    /\ InCall("stats") => stats = "publish"
    /\ InCall("rx") => rx \in {"loop", "frame"}
    /\ scope["main"] # "attached" /\ "main" \in attached
    /\ \A t \in {"stats", "rx"} : /\ scope[t] # "entered"
                                  /\ t \in attached <=> scope[t] = "attached"

JniInv == GsInv /\ SessionInv /\ ScopeInv

(* What the bridge needs to know of the steps of the station. *)
LEMMA MainStepFacts ==
  ASSUME GsInv, MainStep
  PROVE  /\ main # "idle"
         /\ Stopped => Stopped'
         /\ main \in Closing /\ ~running => main' \in Closing /\ ~running'
         /\ stats' # stats => stats \in {"none", "exited"}
         /\ rx' # rx => rx \in {"none", "exited"}
<1> USE DEF flags, objects, threads, locks, Stopped, Resting, Closing
<1>1. CASE KeyUnreadable \/ MakeSource \/ CreateDevice \/ SourceFails \/ DropSource
  BY <1>1 DEF KeyUnreadable, MakeSource, CreateDevice, SourceFails, DropSource
<1>2. CASE RunSource
  BY <1>2 DEF RunSource, GsInv, GsTypeOK, PhaseInv, RxExists, StatsExists, Live
<1>3. CASE StartStats
  BY <1>3 DEF StartStats, GsInv, GsTypeOK, PhaseInv, StatsExists, Live
<1>4. CASE StartReturns \/ Retuned
  BY <1>4 DEF StartReturns, Retuned, GsInv, PhaseInv
<1>5. CASE EndpointsSet BY <1>5 DEF EndpointsSet
<1>6. CASE JoinStats \/ StopSource \/ JoinRx \/ ResetSource
  BY <1>6 DEF JoinStats, StopSource, JoinRx, ResetSource
<1>7. CASE StopRouter BY <1>7 DEF StopRouter
<1>8. CASE JoinRouter \/ JoinFailed BY <1>8 DEF JoinRouter, JoinFailed
<1> QED BY <1>1, <1>2, <1>3, <1>4, <1>5, <1>6, <1>7, <1>8 DEF MainStep

LEMMA ThreadStepFacts ==
  /\ StatsStep => UNCHANGED <<main, running, rx>>
  /\ RxStep => UNCHANGED <<main, running, stats>>
  /\ PollStep => UNCHANGED <<main, running, stats, rx>>
<1> USE DEF flags, objects, threads, locks, UplinkStep, EnterTransmit, Transmit, SendPacket
<1>1. StatsStep => UNCHANGED <<main, running, rx>>
  BY DEF StatsStep, StatsWake, StatsLock, StatsPublish, StatsNotDue, StatsDue, StatsUpdate,
         StatsUplink, StatsSent
<1>2. RxStep => UNCHANGED <<main, running, stats>>
  BY DEF RxStep, RxFrame, RxFeedDownlink, RxFed, RxFrameDone, RxExit
<1>3. PollStep => UNCHANGED <<main, running, stats, rx>>
  BY DEF PollStep, PollReady, PollLock, HandleEndpointData, PollNothing, PollUnlock
<1> QED BY <1>1, <1>2, <1>3

(* Every step of the bridge is one of the station, or leaves its threads and
   all the objects they use alone. *)
LEMMA JniKeepsGs ==
  ASSUME GsInv, JniNext
  PROVE  GsInv'
<1>1. CASE Next \/ UNCHANGED vars BY <1>1, GsStep
<1>2. CASE DeleteSession
  BY <1>2 DEF DeleteSession, GsInv, GsTypeOK, PhaseInv, LockInv, Live, Stopped, StatsExists,
              RxExists, Resting, flags, threads, locks
<1>3. JniNext => Next \/ UNCHANGED vars \/ DeleteSession
  BY DEF JniNext, Next, NativeCreate, NativeStop, NativeDestroy, NativeSetChannel,
         NativeSetMavlinkEndpoints, NativeStart, NativeSetAlink, ControlStep, StatsThread,
         RxThread, PollThread, DatagramCall, StationStep, CallReturns
<1> QED BY <1>1, <1>2, <1>3

(* The session. *)
LEMMA SessionStep ==
  ASSUME JniInv, JniNext
  PROVE  SessionInv'
<1> USE DEF JniInv, SessionInv, bridge
<1>1. CASE NativeCreate
  BY <1>1 DEF NativeCreate, vars, flags, objects, threads, locks, Stopped, Resting
<1>2. ASSUME NEW k \in {"devourer", "udp"}, NativeStart(k) PROVE SessionInv'
  BY <1>2 DEF NativeStart, Ready, StartRouter, ForgetListener, Stopped, Resting
<1>3. CASE NativeStop
  BY <1>3 DEF NativeStop, Ready, Stop, Stopped, Resting
<1>4. ASSUME NEW e \in BOOLEAN, NativeSetAlink(e) PROVE SessionInv'
  BY <1>4 DEF NativeSetAlink, Ready, SetAlinkConfig, flags, Stopped, Resting
<1>5. CASE NativeSetChannel
  BY <1>5 DEF NativeSetChannel, Ready, SetChannel, flags, Stopped, Resting, GsInv, PhaseInv,
              RxExists, StatsExists, Live
<1>6. CASE NativeSetMavlinkEndpoints
  BY <1>6 DEF NativeSetMavlinkEndpoints, Ready, SetMavlinkEndpoints, flags, Stopped, Resting
<1>7. CASE NativeDestroy
  BY <1>7 DEF NativeDestroy, Ready, Stop, vars, flags, Stopped, Resting, Closing
<1>8. CASE DeleteSession
  <2>1. session' = FALSE /\ closing' = FALSE /\ listener' = FALSE BY <1>8, Zenon DEF DeleteSession
  <2>2. session' \in BOOLEAN /\ closing' \in BOOLEAN /\ listener' \in BOOLEAN BY <2>1, Zenon
  <2> QED BY <1>8, <2>1, <2>2 DEF DeleteSession, ForgetListener, flags, Stopped, Resting
<1>9. CASE StationStep("main", MainStep)
  BY <1>9, MainStepFacts DEF StationStep
<1>10. CASE StationStep("stats", StatsStep) \/ StationStep("rx", RxStep) \/ PollThread
  BY <1>10, ThreadStepFacts DEF StationStep, PollThread, Stopped, Resting
<1>11. CASE DatagramCall \/ \E t \in Callers : CallReturns(t)
  BY <1>11 DEF DatagramCall, CallReturns, vars, flags, Stopped, Resting
<1> QED
  BY <1>1, <1>2, <1>3, <1>4, <1>5, <1>6, <1>7, <1>8, <1>9, <1>10, <1>11
  DEF JniNext, ControlStep, StatsThread, RxThread, Callers

(* The callbacks. *)
LEMMA ScopeStep ==
  ASSUME JniInv, JniNext
  PROVE  ScopeInv'
<1> USE DEF JniInv, ScopeInv, InCall
<1>1. CASE UNCHANGED <<main, stats, rx, scope, attached>> BY <1>1
<1>2. CASE NativeCreate \/ DeleteSession \/ PollThread
  BY <1>1, <1>2, ThreadStepFacts
  DEF NativeCreate, DeleteSession, PollThread, bridge, vars, threads
<1>3. CASE \/ NativeStop \/ NativeSetChannel \/ NativeSetMavlinkEndpoints \/ NativeDestroy
           \/ \E k \in {"devourer", "udp"} : NativeStart(k)
           \/ \E e \in BOOLEAN : NativeSetAlink(e)
  <2>1. UNCHANGED <<stats, rx, scope, attached>> /\ main = "idle"
    BY <1>3
    DEF NativeStop, NativeSetChannel, NativeSetMavlinkEndpoints, NativeDestroy, NativeStart,
                NativeSetAlink, Stop, SetChannel, SetMavlinkEndpoints, StartRouter, SetAlinkConfig,
                Ready, bridge, vars, threads
  <2> QED BY <2>1
<1>4. CASE StationStep("main", MainStep)
  <2>1. /\ ~InCall("main")
        /\ stats' # stats => stats \in {"none", "exited"}
        /\ rx' # rx => rx \in {"none", "exited"}
    BY <1>4, MainStepFacts DEF StationStep
  <2>2. CASE UNCHANGED <<scope, attached>> BY <2>1, <2>2
  <2>3. CASE CallsListener("main") /\ EnterScope("main")
    BY <2>1, <2>3 DEF CallsListener, EnterScope, Callers
  <2> QED BY <1>4, <2>2, <2>3 DEF StationStep
<1>5. CASE StationStep("stats", StatsStep)
  <2>1. ~InCall("stats") /\ UNCHANGED <<main, rx>>
    BY <1>5, ThreadStepFacts DEF StationStep
  <2>2. CASE UNCHANGED <<scope, attached>> BY <2>1, <2>2
  <2>3. CASE CallsListener("stats") /\ EnterScope("stats")
    BY <2>1, <2>3 DEF CallsListener, EnterScope, Callers
  <2> QED BY <1>5, <2>2, <2>3 DEF StationStep
<1>6. CASE StationStep("rx", RxStep)
  <2>1. ~InCall("rx") /\ UNCHANGED <<main, stats>>
    BY <1>6, ThreadStepFacts DEF StationStep
  <2>2. CASE UNCHANGED <<scope, attached>> BY <2>1, <2>2
  <2>3. CASE CallsListener("rx") /\ EnterScope("rx")
    BY <2>1, <2>3 DEF CallsListener, EnterScope, Callers
  <2> QED BY <1>6, <2>2, <2>3 DEF StationStep
<1>7. CASE DatagramCall
  BY <1>7 DEF DatagramCall, EnterScope, Callers, vars, threads
<1>8. ASSUME NEW t \in Callers, CallReturns(t) PROVE ScopeInv'
  BY <1>8 DEF CallReturns, LeaveScope, Callers, vars, threads
<1> QED
  BY <1>2, <1>3, <1>4, <1>5, <1>6, <1>7, <1>8
  DEF JniNext, ControlStep, StatsThread, RxThread, Callers

LEMMA JniStep == JniInv /\ [JniNext]_jniVars => JniInv'
<1> SUFFICES ASSUME JniInv, [JniNext]_jniVars PROVE JniInv' OBVIOUS
<1>1. CASE JniNext
  BY <1>1, JniKeepsGs, SessionStep, ScopeStep DEF JniInv
<1>2. CASE UNCHANGED jniVars
  <2>1. GsInv' BY <1>2, GsStep DEF jniVars, JniInv
  <2>2. SessionInv'
    BY <1>2 DEF jniVars, JniInv, SessionInv, bridge, vars, flags, Stopped, Resting
  <2>3. ScopeInv'
    BY <1>2 DEF jniVars, JniInv, ScopeInv, InCall, bridge, vars, threads
  <2> QED BY <2>1, <2>2, <2>3 DEF JniInv
<1> QED BY <1>1, <1>2

LEMMA JniInitial == JniInit => JniInv
<1> SUFFICES ASSUME JniInit PROVE JniInv OBVIOUS
<1>1. GsInv BY GsInitial DEF JniInit
<1>2. SessionInv BY DEF JniInit, Init, SessionInv, Stopped, Resting
<1>3. ScopeInv BY DEF JniInit, Init, ScopeInv, InCall, Callers
<1> QED BY <1>1, <1>2, <1>3 DEF JniInv

(* What the invariant means for the callbacks: a caller's thread exists, so
   the station is not stopped. *)
LEMMA JniSafe == JniInv => CallbackSafe /\ ThreadsDetached /\ ClosedIsGone
<1> SUFFICES ASSUME JniInv PROVE CallbackSafe /\ ThreadsDetached /\ ClosedIsGone OBVIOUS
<1> USE DEF JniInv, SessionInv, ScopeInv
<1>1. \A t \in Callers : InCall(t) => ~Stopped
  BY DEF Callers, Stopped, Resting, GsInv, PhaseInv, RxExists, StatsExists, Live
<1>2. CallbackSafe BY <1>1 DEF CallbackSafe
<1>3. ThreadsDetached BY DEF ThreadsDetached, InCall
<1>4. ASSUME ~session PROVE Stopped /\ refs = 0 BY <1>4 DEF Stopped, Resting
<1>5. ASSUME Stopped PROVE stats = "none" /\ rx = "none" /\ poll = "none"
  BY <1>5 DEF Stopped, Resting, GsInv, PhaseInv, RxExists, StatsExists, Live
<1>6. ClosedIsGone BY <1>1, <1>4, <1>5 DEF ClosedIsGone
<1> QED BY <1>2, <1>3, <1>6

LEMMA JniInvariant == JniSpec => []JniInv
<1> QED BY JniInitial, JniStep, PTL DEF JniSpec

(* Whatever a service does with a session, a callback finds the session and
   the listener it calls alive for as long as it lasts (nativeDestroy and the
   callbacks of nativeStart, jni_bridge.cpp:159-290). *)
THEOREM CallbacksFindListener == JniSpec => []CallbackSafe
<1> QED BY JniInvariant, JniSafe, PTL

(* Whatever ends a thread of the station, an unplugged adapter included, it
   ends detached from the JVM, and the control thread never gets detached
   (ScopedEnv, jni_bridge.cpp:88-117). *)
THEOREM ThreadsEndDetached == JniSpec => []ThreadsDetached
<1> QED BY JniInvariant, JniSafe, PTL

(* A closed session leaves neither a reference to a listener nor a thread,
   after any number of starts, failures and stops (nativeDestroy,
   jni_bridge.cpp:159-170). *)
THEOREM CloseLeavesNothing == JniSpec => []ClosedIsGone
<1> QED BY JniInvariant, JniSafe, PTL

(* The same lifetimes inside a session, whose calls are calls of the station:
   the stats thread never works in a receiver, a source or a device that is
   gone (ground_station.cpp:159-168).  Of alink_ this is not true: AlinkSafe. *)
THEOREM StatsThreadAlwaysSafe == JniSpec => []StatsThreadSafe
<1>1. JniInv => StatsThreadSafe BY GsSafe DEF JniInv
<1> QED BY <1>1, JniInvariant, PTL

(* The rx thread never works in a receiver, a source or a device that is gone,
   whatever ends its loop (ground_station.cpp:162-167). *)
THEOREM RxThreadAlwaysSafe == JniSpec => []RxThreadSafe
<1>1. JniInv => RxThreadSafe BY GsSafe DEF JniInv
<1> QED BY <1>1, JniInvariant, PTL

(* Stop, and a Start that fails, leave no thread, no lock held, and neither
   source, device nor receiver (ground_station.cpp:109-175).  A failed Start
   keeps alink_ and the mirror socket, of which this says nothing. *)
THEOREM StopLeavesClean == JniSpec => []StoppedIsClean
<1>1. JniInv => StoppedIsClean BY GsSafe DEF JniInv
<1> QED BY <1>1, JniInvariant, PTL
==============================================================================
