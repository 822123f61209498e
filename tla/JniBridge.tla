------------------------------ MODULE JniBridge ------------------------------
(***************************************************************************)
(* The JNI bridge (gslib/src/main/cpp/jni_bridge.cpp) and the Kotlin class *)
(* over it (NativeGroundStation.kt), composed with the GroundStation they  *)
(* own.  A Session holds the station and a global reference to the         *)
(* listener; the station's threads call the listener through a pointer to  *)
(* the session, attached to the JVM for the length of one call.            *)
(*                                                                         *)
(* One control thread makes all the calls, as the service does, and calls  *)
(* start only on a session that does not run.                              *)
(***************************************************************************)
EXTENDS GroundStation

VARIABLES
    session,   \* the Session exists: handle # 0 in Kotlin
    closing,   \* the control thread is in nativeDestroy
    listener,  \* session->listener is not null
    refs,      \* global references to listeners that exist in the JVM
    scope,     \* ScopedEnv of each thread: "none", "entered" or "attached"
    attached   \* threads the JVM knows

bridge == <<session, closing, listener, refs, scope, attached>>
jniVars == <<vars, bridge>>

Callers == {"main", "stats", "rx"}
InCall(t) == scope[t] # "none"

JniInit ==
    /\ Init
    /\ session = FALSE
    /\ closing = FALSE
    /\ listener = FALSE
    /\ refs = 0
    /\ scope = [t \in Callers |-> "none"]
    /\ attached = {"main"}
-----------------------------------------------------------------------------
(* The calls of the control thread.  They return before the next is made. *)
Ready == session /\ ~closing /\ main = "idle"

NativeCreate ==
    /\ ~session
    /\ session' = TRUE
    /\ UNCHANGED <<vars, closing, listener, refs, scope, attached>>

(* DeleteGlobalRef of session->listener, if there is one. *)
ForgetListenerNot == refs

ForgetListener == IF listener THEN refs - 1 ELSE refs

(* The configuration built here has no adaptive link: only nativeSetAlink
   makes one. *)
NativeStart(k) ==
    /\ Ready
    /\ StartRouter(k, FALSE)
    /\ refs' = ForgetListener + 1
    /\ listener' = TRUE
    /\ UNCHANGED <<session, closing, scope, attached>>

NativeStop ==
    /\ Ready
    /\ Stop
    /\ UNCHANGED bridge

NativeSetAlink(enabled) ==
    /\ Ready
    /\ SetAlinkConfig(enabled)
    /\ UNCHANGED bridge

NativeSetChannel ==
    /\ Ready
    /\ SetChannel
    /\ UNCHANGED bridge

NativeSetMavlinkEndpoints ==
    /\ Ready
    /\ SetMavlinkEndpoints
    /\ UNCHANGED bridge

(* nativeDestroy stops the station ... *)
NativeDestroyAtOnce ==
    /\ Ready
    /\ closing' = TRUE
    /\ UNCHANGED <<vars, session, listener, refs, scope, attached>>

NativeDestroy ==
    /\ Ready
    /\ closing' = TRUE
    /\ \/ Stop
       \/ ~running /\ UNCHANGED vars
    /\ UNCHANGED <<session, listener, refs, scope, attached>>

(* ... and deletes the listener's reference and the session with all that
   is still in it.  (The descriptor of a mirror that a failed Start left
   open is lost here.) *)
DeleteSession ==
    /\ closing /\ main = "idle"
    /\ refs' = ForgetListener
    /\ listener' = FALSE
    /\ session' = FALSE
    /\ closing' = FALSE
    /\ alink' = FALSE
    /\ mirror' = FALSE
    /\ UNCHANGED <<main, flags, source, device, receiver, threads, locks, scope, attached>>
-----------------------------------------------------------------------------
(* The constructor and the destructor of ScopedEnv.  The control thread is
   a Java thread, which GetEnv knows; a thread of the station is attached
   for the call.  When that fails the callback returns at once. *)
EnterScope(t) ==
    \/ /\ scope' = [scope EXCEPT ![t] = IF t \in attached THEN "entered" ELSE "attached"]
       /\ attached' = attached \cup {t}
    \/ t \notin attached /\ UNCHANGED <<scope, attached>>

LeaveScopeAttached(t) ==
    /\ scope' = [scope EXCEPT ![t] = "none"]
    /\ UNCHANGED attached

LeaveScope(t) ==
    /\ scope' = [scope EXCEPT ![t] = "none"]
    /\ attached' = IF scope[t] = "attached" THEN attached \ {t} ELSE attached

(* The listener's method returns. *)
CallReturns(t) ==
    /\ InCall(t)
    /\ LeaveScope(t)
    /\ UNCHANGED <<vars, session, closing, listener, refs>>

(* Where a step of a thread ends in a callback: on_status from Start,
   on_stats after the snapshot, on_video_nal and on_osd_frame from a frame. *)
CallsListener(t) ==
    CASE t = "main"  -> main' # main /\ main' \in {"started", "failed"}
      [] t = "stats" -> stats' # stats /\ stats' = "publish"
      [] t = "rx"    -> rx' # rx /\ rx' = "frame"

(* A step of the station by thread t, which is not inside a callback. *)
StationStep(t, step) ==
    /\ ~InCall(t)
    /\ step
    /\ \/ CallsListener(t) /\ EnterScope(t)
       \/ (CallsListener(t) => t = "rx") /\ UNCHANGED <<scope, attached>>
    /\ UNCHANGED <<session, closing, listener, refs>>

(* A datagram of a UDP source that completes a NAL unit. *)
DatagramCall ==
    /\ rx = "loop" /\ kind = "udp" /\ ~InCall("rx")
    /\ EnterScope("rx")
    /\ UNCHANGED <<vars, session, closing, listener, refs>>
-----------------------------------------------------------------------------
ControlStep == StationStep("main", MainStep) \/ CallReturns("main") \/ DeleteSession
StatsThread == StationStep("stats", StatsStep) \/ CallReturns("stats")
RxThread == StationStep("rx", RxStep) \/ CallReturns("rx")
PollThread == PollStep /\ UNCHANGED bridge

JniNext ==
    \/ NativeCreate \/ NativeStop \/ NativeDestroy \/ NativeSetChannel
    \/ NativeSetMavlinkEndpoints
    \/ \E k \in {"devourer", "udp"} : NativeStart(k)
    \/ \E e \in BOOLEAN : NativeSetAlink(e)
    \/ ControlStep \/ StatsThread \/ RxThread \/ PollThread \/ DatagramCall

(* Every thread keeps running, a thread that waits for a mutex gets it in
   the end, a source that was told to stop ends its loop, and a method of
   the listener returns. *)
JniFairness ==
    /\ WF_jniVars(ControlStep) /\ WF_jniVars(StatsThread)
    /\ WF_jniVars(RxThread) /\ WF_jniVars(PollThread)
    /\ SF_jniVars(StationStep("main", EndpointsSet))
    /\ SF_jniVars(StationStep("stats", StatsLock))
    /\ SF_jniVars(PollLock /\ UNCHANGED bridge)
    /\ SF_jniVars(StationStep("rx", RxFeedDownlink))
    /\ SF_jniVars(StationStep("rx", RxExit /\ ~srcRunning))

JniSpec == JniInit /\ [][JniNext]_jniVars /\ JniFairness
-----------------------------------------------------------------------------
(* A thread inside a callback runs in a session that exists and calls a
   listener whose reference exists, for the whole of the call: nativeDestroy
   joins the station's threads before it deletes either
   (jni_bridge.cpp:159-170). *)
CallbackSafe == \A t \in Callers : InCall(t) => session /\ listener /\ refs = 1

(* A thread of the station that has ended is not attached to the JVM, which
   would abort the process, and the control thread, which is the JVM's own,
   never gets detached (jni_bridge.cpp:88-117). *)
ThreadsDetached ==
    /\ "main" \in attached
    /\ stats \in {"none", "exited"} => "stats" \notin attached
    /\ rx \in {"none", "exited"} => "rx" \notin attached

(* A closed session leaves no reference to a listener, and with it no
   service, behind, and no thread that could still call it, whatever
   starts, failures and stops it went through. *)
ClosedIsGone ==
    ~session => /\ refs = 0
                /\ stats = "none" /\ rx = "none" /\ poll = "none"
                /\ \A t \in Callers : ~InCall(t)
==============================================================================
