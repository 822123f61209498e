---------------------------- MODULE GroundStation ----------------------------
(***************************************************************************)
(* The lifecycle of one GroundStation                                      *)
(* (gslib/src/main/cpp/ground_station.cpp, devourer_source.cpp,            *)
(* udp_source.cpp): Start builds the packet source, the receiver and the   *)
(* worker threads, Stop takes them down, and four threads run meanwhile.   *)
(*                                                                         *)
(*   main   the caller of Start, Stop and the setters (one thread)         *)
(*   stats  StatsLoop: snapshot of the receiver, adaptive-link uplink      *)
(*   poll   MavlinkRouter::PollLoop: what a GCS sends goes up              *)
(*   rx     RxLoop / Loop of the source: frames to the receiver            *)
(*                                                                         *)
(* source_, device_, receiver_ and alink_ are plain unique_ptrs that more  *)
(* than one thread reads, so every read and every reset is a step of its   *)
(* own.  The locks are WfbReceiver::mutex_ and the router's                *)
(* endpoints_mutex_; what they protect is modelled elsewhere.              *)
(***************************************************************************)
EXTENDS Integers

VARIABLES
    main,       \* where the control thread is
    running,    \* running_
    kind,       \* config_.source
    source,     \* source_ is not null
    device,     \* device_ of the source: "none", "created", "up"
    srcRunning, \* running_ of the source
    receiver,   \* receiver_ is not null
    alink,      \* alink_ is not null
    mirror,     \* mirror_fd_ is an open socket
    mavRunning, \* running_ of the router
    stats, poll, rx,  \* where the worker threads are ("none": no thread)
    tx,         \* SendUplink of the stats and poll threads
    rxMutex,    \* who holds WfbReceiver::mutex_
    epMutex     \* who holds MavlinkRouter::endpoints_mutex_

objects == <<source, device, receiver, alink, mirror>>
flags == <<running, kind, srcRunning, mavRunning>>
threads == <<stats, poll, rx, tx>>
locks == <<rxMutex, epMutex>>
vars == <<main, flags, objects, threads, locks>>

Senders == {"stats", "poll"}

Init ==
    /\ main = "idle"
    /\ running = FALSE
    /\ kind = "devourer"
    /\ source = FALSE
    /\ device = "none"
    /\ srcRunning = FALSE
    /\ receiver = FALSE
    /\ alink = FALSE
    /\ mirror = FALSE
    /\ mavRunning = FALSE
    /\ stats = "none"
    /\ poll = "none"
    /\ rx = "none"
    /\ tx = [t \in Senders |-> "none"]
    /\ rxMutex = "free"
    /\ epMutex = "free"
-----------------------------------------------------------------------------
(* The video mirror of Start: mirror_fd_ is overwritten, whatever it was. *)
OpenMirror ==
    \/ UNCHANGED mirror       \* none is configured
    \/ mirror' \in BOOLEAN    \* FALSE: it cannot be created or connected

(* Start.  The router comes first, so its thread runs through all of it;
   a pipe() that fails leaves Start without a router.  alinkEnabled is
   config.alink.enabled: when it is not, an alink_ made by SetAlinkConfig
   stays. *)
StartRouter(k, alinkEnabled) ==
    /\ main = "idle" /\ ~running
    /\ kind' = k
    /\ \/ mavRunning' = TRUE /\ poll' = "loop"
       \/ UNCHANGED <<mavRunning, poll>>
    /\ OpenMirror
    /\ alink' = (alinkEnabled \/ alink)
    /\ main' = "makeSource"
    /\ UNCHANGED <<running, srcRunning, source, device, receiver, stats, rx, tx, locks>>

(* AddStream of the new receiver threw: gs.key is missing or unreadable. *)
KeyUnreadable ==
    /\ main = "makeSource" /\ kind = "devourer"
    /\ receiver' = TRUE
    /\ main' = "failed"
    /\ UNCHANGED <<flags, source, device, alink, mirror, threads, locks>>

MakeSource ==
    /\ main = "makeSource"
    /\ receiver' = (kind = "devourer")
    /\ source' = TRUE
    /\ main' = "startSource"
    /\ UNCHANGED <<flags, device, alink, mirror, threads, locks>>

(* Start of the source, up to the created device of a radio. *)
CreateDevice ==
    /\ main = "startSource" /\ kind = "devourer"
    /\ device' = "created"
    /\ main' = "initWrite"
    /\ UNCHANGED <<flags, source, receiver, alink, mirror, threads, locks>>

(* The source's own thread: the last thing its Start does. *)
RunSource ==
    /\ \/ main = "initWrite" /\ device' = "up"
       \/ main = "startSource" /\ kind = "udp" /\ UNCHANGED device
    /\ srcRunning' = TRUE
    /\ rx' = "loop"
    /\ main' = "startStats"
    /\ UNCHANGED <<running, kind, mavRunning, source, receiver, alink, mirror, stats, poll, tx,
                   locks>>

(* Cleanup of the radio source; a UDP source has no device. *)
Cleanup == device' = "none"

(* Start of the source returned false, after its Cleanup. *)
SourceFails ==
    /\ main \in {"startSource", "initWrite"}
    /\ Cleanup
    /\ main' = "failed"
    /\ UNCHANGED <<flags, source, receiver, alink, mirror, threads, locks>>

(* Both failures: SetError tells the listener, then the objects go (source_
   is still null when it was the key). *)
DropSource ==
    /\ main = "failed"
    /\ source' = FALSE
    /\ receiver' = FALSE
    /\ main' = "failRouter"
    /\ UNCHANGED <<flags, device, alink, mirror, threads, locks>>

StartStats ==
    /\ main = "startStats"
    /\ running' = TRUE
    /\ stats' = "loop"
    /\ main' = "started"
    /\ UNCHANGED <<kind, srcRunning, mavRunning, objects, poll, rx, tx, locks>>

(* on_status("ground station running"), and Start returns. *)
StartReturns ==
    /\ main = "started"
    /\ main' = "idle"
    /\ UNCHANGED <<flags, objects, threads, locks>>
-----------------------------------------------------------------------------
(* Stop, and the end of a Start that failed. *)
Stop ==
    /\ main = "idle" /\ running
    /\ running' = FALSE
    /\ main' = "joinStats"
    /\ UNCHANGED <<kind, srcRunning, mavRunning, objects, threads, locks>>

JoinStatsSkipped ==
    /\ main = "joinStats"
    /\ main' = "stopSource"
    /\ UNCHANGED <<flags, objects, threads, locks>>

JoinStats ==
    /\ main = "joinStats"
    /\ stats = "exited"
    /\ stats' = "none"
    /\ main' = "stopSource"
    /\ UNCHANGED <<flags, objects, poll, rx, tx, locks>>

StopSourceNoFlag ==
    /\ main = "stopSource"
    /\ main' = "joinRx"
    /\ UNCHANGED <<flags, objects, threads, locks>>

(* Stop of the source: StopRxLoop / shutdown of the socket. *)
StopSource ==
    /\ main = "stopSource"
    /\ srcRunning' = FALSE
    /\ main' = "joinRx"
    /\ UNCHANGED <<running, kind, mavRunning, objects, threads, locks>>

JoinRxLate ==
    /\ main = "joinRx"
    /\ rx' = IF rx = "exited" THEN "none" ELSE rx
    /\ Cleanup
    /\ main' = "resetSource"
    /\ UNCHANGED <<flags, source, receiver, alink, mirror, stats, poll, tx, locks>>

(* join, then Cleanup. *)
JoinRx ==
    /\ main = "joinRx"
    /\ rx = "exited"
    /\ rx' = "none"
    /\ Cleanup
    /\ main' = "resetSource"
    /\ UNCHANGED <<flags, source, receiver, alink, mirror, stats, poll, tx, locks>>

ResetSource ==
    /\ main = "resetSource"
    /\ source' = FALSE
    /\ main' = "stopRouter"
    /\ UNCHANGED <<flags, device, receiver, alink, mirror, threads, locks>>

StopRouter ==
    /\ \/ main = "stopRouter" /\ main' = "joinRouter"
       \/ main = "failRouter" /\ main' = "joinFailed"
    /\ mavRunning' = FALSE
    /\ UNCHANGED <<running, kind, srcRunning, objects, threads, locks>>

(* join and CloseEndpoints. *)
RouterJoinedNoWait ==
    /\ poll' = IF poll = "exited" THEN "none" ELSE poll
    /\ epMutex = "free"

RouterJoined ==
    /\ poll \in {"exited", "none"}
    /\ poll' = "none"
    /\ epMutex = "free"

(* The rest of Stop. *)
JoinRouter ==
    /\ main = "joinRouter"
    /\ RouterJoined
    /\ receiver' = FALSE
    /\ alink' = FALSE
    /\ mirror' = FALSE
    /\ main' = "idle"
    /\ UNCHANGED <<flags, source, device, stats, rx, tx, locks>>

(* The end of a Start that failed: alink_ and mirror_fd_ stay. *)
JoinFailed ==
    /\ main = "joinFailed"
    /\ RouterJoined
    /\ main' = "idle"
    /\ UNCHANGED <<flags, objects, stats, rx, tx, locks>>

SetAlinkConfig(enabled) ==
    /\ main = "idle"
    /\ alink' = enabled
    /\ UNCHANGED <<main, flags, source, device, receiver, mirror, threads, locks>>

(* SetChannel of a source that has a device: SetMonitorChannel of the driver,
   which returns or throws. *)
SetChannel ==
    /\ main = "idle" /\ source /\ device # "none"
    /\ main' = "retune"
    /\ UNCHANGED <<flags, objects, threads, locks>>

(* SetMavlinkEndpoints: the router's lock is taken, a list is stored. *)
SetMavlinkEndpoints ==
    /\ main = "idle"
    /\ main' = "setEndpoints"
    /\ UNCHANGED <<flags, objects, threads, locks>>

EndpointsSet ==
    /\ main = "setEndpoints" /\ epMutex = "free"
    /\ main' = "idle"
    /\ UNCHANGED <<flags, objects, threads, locks>>

Retuned ==
    /\ main = "retune"
    /\ main' = "idle"
    /\ UNCHANGED <<flags, objects, threads, locks>>
-----------------------------------------------------------------------------
(* SendUplink: source_ is looked at, then used; Transmit looks at device_,
   then uses it. *)
SendUplink(t) ==
    tx' = [tx EXCEPT ![t] = IF source /\ kind = "devourer" THEN "checked" ELSE "none"]

EnterTransmit(t) ==
    /\ tx[t] = "checked"
    /\ tx' = [tx EXCEPT ![t] = "transmit"]
    /\ UNCHANGED <<main, flags, objects, stats, poll, rx, locks>>

(* "if (!device_)" and the call of send_packet. *)
Transmit(t) ==
    /\ tx[t] = "transmit"
    /\ tx' = [tx EXCEPT ![t] = IF device = "none" THEN "none" ELSE "send"]
    /\ UNCHANGED <<main, flags, objects, stats, poll, rx, locks>>

SendPacket(t) ==
    /\ tx[t] = "send"
    /\ tx' = [tx EXCEPT ![t] = "none"]
    /\ UNCHANGED <<main, flags, objects, stats, poll, rx, locks>>
-----------------------------------------------------------------------------
(* The stats thread: one turn of StatsLoop. *)
StatsWake ==
    /\ stats = "loop"
    /\ stats' = IF running THEN "tick" ELSE "exited"
    /\ UNCHANGED <<main, flags, objects, poll, rx, tx, locks>>

StatsLock ==
    /\ stats = "tick" /\ receiver
    /\ rxMutex = "free"
    /\ rxMutex' = "stats"
    /\ stats' = "snapshot"
    /\ UNCHANGED <<main, flags, objects, poll, rx, tx, epMutex>>

(* TakeSnapshot returns; without a receiver there is none to take. *)
StatsPublish ==
    /\ \/ stats = "snapshot" /\ rxMutex' = "free"
       \/ stats = "tick" /\ ~receiver /\ UNCHANGED rxMutex
    /\ stats' = "publish"
    /\ UNCHANGED <<main, flags, objects, poll, rx, tx, epMutex>>

(* The next alink message is not due, or there is no adaptive link. *)
StatsNotDue ==
    /\ stats = "publish"
    /\ stats' = "loop"
    /\ UNCHANGED <<main, flags, objects, poll, rx, tx, locks>>

StatsDue ==
    /\ stats = "publish"
    /\ alink /\ receiver
    /\ stats' = "due"
    /\ UNCHANGED <<main, flags, objects, poll, rx, tx, locks>>

StatsUpdate ==
    /\ stats = "due"
    /\ stats' = "update"
    /\ UNCHANGED <<main, flags, objects, poll, rx, tx, locks>>

StatsUplink ==
    /\ stats = "update"
    /\ SendUplink("stats")
    /\ stats' = "uplink"
    /\ UNCHANGED <<main, flags, objects, poll, rx, locks>>

StatsSent ==
    /\ stats = "uplink" /\ tx["stats"] = "none"
    /\ stats' = "loop"
    /\ UNCHANGED <<main, flags, objects, poll, rx, tx, locks>>
-----------------------------------------------------------------------------
(* The poll thread: one turn of PollLoop, with at most one message up.  A
   poll() that fails ends the loop. *)
PollReady ==
    /\ poll = "loop"
    /\ poll' \in IF mavRunning THEN {"ready", "exited"} ELSE {"exited"}
    /\ UNCHANGED <<main, flags, objects, stats, rx, tx, locks>>

PollLock ==
    /\ poll = "ready"
    /\ epMutex = "free"
    /\ epMutex' = "poll"
    /\ poll' = "walk"
    /\ UNCHANGED <<main, flags, objects, stats, rx, tx, rxMutex>>

(* A message of a GCS on an endpoint that may send up. *)
HandleEndpointData ==
    /\ poll = "walk"
    /\ SendUplink("poll")
    /\ poll' = "walked"
    /\ UNCHANGED <<main, flags, objects, stats, rx, locks>>

(* Nothing for the aircraft: a new client, half a message, a closed one. *)
PollNothing ==
    /\ poll = "walk"
    /\ poll' = "walked"
    /\ UNCHANGED <<main, flags, objects, stats, rx, tx, locks>>

PollUnlock ==
    /\ poll = "walked" /\ tx["poll"] = "none"
    /\ epMutex' = "free"
    /\ poll' = "loop"
    /\ UNCHANGED <<main, flags, objects, stats, rx, tx, rxMutex>>
-----------------------------------------------------------------------------
(* The rx thread: ProcessFrame under the receiver's lock; a telemetry
   payload takes the router's lock inside it.  A datagram of a UDP source
   takes neither. *)
RxFrame ==
    /\ rx = "loop" /\ kind = "devourer"
    /\ rxMutex = "free"
    /\ rxMutex' = "rx"
    /\ rx' \in {"frame", "telemetry"}
    /\ UNCHANGED <<main, flags, objects, stats, poll, tx, epMutex>>

RxFeedDownlink ==
    /\ rx = "telemetry"
    /\ epMutex = "free"
    /\ epMutex' = "rx"
    /\ rx' = "feed"
    /\ UNCHANGED <<main, flags, objects, stats, poll, tx, rxMutex>>

RxFed ==
    /\ rx = "feed"
    /\ epMutex' = "free"
    /\ rx' = "frame"
    /\ UNCHANGED <<main, flags, objects, stats, poll, tx, rxMutex>>

RxFrameDone ==
    /\ rx = "frame"
    /\ rxMutex' = "free"
    /\ rx' = "loop"
    /\ UNCHANGED <<main, flags, objects, stats, poll, tx, epMutex>>

(* The loop ends when the source is stopped, or by an exception of the
   driver (an adapter that was unplugged). *)
RxExit ==
    /\ rx = "loop"
    /\ ~srcRunning \/ kind = "devourer"
    /\ rx' = "exited"
    /\ UNCHANGED <<main, flags, objects, stats, poll, tx, locks>>

-----------------------------------------------------------------------------
MainStep ==
    \/ KeyUnreadable \/ MakeSource \/ CreateDevice \/ RunSource \/ SourceFails
    \/ DropSource \/ StartStats \/ StartReturns \/ Retuned
    \/ EndpointsSet
    \/ JoinStats \/ StopSource \/ JoinRx \/ ResetSource \/ StopRouter
    \/ JoinRouter \/ JoinFailed
UplinkStep(t) == EnterTransmit(t) \/ Transmit(t) \/ SendPacket(t)
StatsStep ==
    \/ StatsWake \/ StatsLock \/ StatsPublish \/ StatsNotDue \/ StatsDue
    \/ StatsUpdate \/ StatsUplink \/ StatsSent \/ UplinkStep("stats")
PollStep ==
    \/ PollReady \/ PollLock \/ HandleEndpointData \/ PollNothing \/ PollUnlock
    \/ UplinkStep("poll")
RxStep == RxFrame \/ RxFeedDownlink \/ RxFed \/ RxFrameDone \/ RxExit

Next ==
    \/ \E k \in {"devourer", "udp"}, e \in BOOLEAN : StartRouter(k, e)
    \/ Stop \/ SetChannel \/ SetMavlinkEndpoints
    \/ \E e \in BOOLEAN : SetAlinkConfig(e)
    \/ MainStep \/ StatsStep \/ PollStep \/ RxStep

Spec == Init /\ [][Next]_vars
-----------------------------------------------------------------------------
UplinkSafe(t) ==
    /\ tx[t] = "transmit" => source
    /\ tx[t] = "send" => source /\ device = "up"

(* The stats thread never works in a receiver, a source or a device that
   Stop has destroyed or Start not finished: Stop joins it before it touches
   any of them (ground_station.cpp:159-168). *)
StatsThreadSafe ==
    /\ stats = "snapshot" => receiver
    /\ UplinkSafe("stats")

(* The rx thread never calls into a destroyed receiver, source or device,
   whatever ends its loop: source_->Stop() joins it before Cleanup, and the
   receiver outlives the source (ground_station.cpp:162-167). *)
RxThreadSafe ==
    rx \notin {"none", "exited"} =>
        /\ source
        /\ kind = "devourer" => receiver /\ device = "up"

(* Once Stop has returned, or Start has failed, no thread runs, no lock is
   held, and neither source, device nor receiver exists: the next Start
   begins from scratch.  (alink_ and the mirror socket are not covered: a
   failed Start keeps them.) *)
StoppedIsClean ==
    main = "idle" /\ ~running =>
        /\ stats = "none" /\ poll = "none" /\ rx = "none"
        /\ tx = [t \in Senders |-> "none"]
        /\ ~source /\ device = "none" /\ ~receiver /\ ~srcRunning /\ ~mavRunning
        /\ rxMutex = "free" /\ epMutex = "free"

(* The poll thread never calls into a source or a device that is gone:
   "Anything a ground control station sends goes up on the MAVLink uplink
   radio port" (ground_station.cpp:74-75).  A source that Start has made and
   not yet brought up is there, and does not count. *)
PollUplinkSafe ==
    /\ tx["poll"] = "transmit" => source
    /\ tx["poll"] = "send" => source /\ device # "none"

(* The stats thread never updates an adaptive-link controller that
   SetAlinkConfig has destroyed: alink settings are "Applied without
   restarting the link" (ground_station.h:59). *)
AlinkSafe == stats = "update" => alink

(* Start, Stop and the setters return: no join waits for a thread that waits
   for a lock or was not told to end, and no lock the setters take is held
   for ever. *)
ControlReturns == (main # "idle") ~> (main = "idle")
==============================================================================
