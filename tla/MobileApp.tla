------------------------------ MODULE MobileApp ------------------------------
(***************************************************************************)
(* The Android app around the video path: MainActivity, which brings the   *)
(* link up, and UsbAdapterManager, which asks for permission to use the    *)
(* adapter and opens it.  All of this runs on the main thread, one message *)
(* at a time, but an answer of the user arrives much later than the        *)
(* question, and by then the link may be up, or asked for twice.           *)
(* Every startLink makes a UsbAdapterManager of its own; the permission    *)
(* broadcast goes to the receivers of all of them.                         *)
(***************************************************************************)
EXTENDS VideoOutput, FiniteSets

CONSTANTS
    Managers,     \* UsbAdapterManager objects
    MaxRequests   \* bound: permission requests under way

ASSUME AppAssumption ==
    /\ None \notin Managers /\ MaxRequests \in Nat
    /\ IsFiniteSet(Managers) /\ Cardinality(Managers) > MaxRequests + 1

VARIABLES
    bound,      \* the activity's service is not null
    granted,    \* the app may use the adapter
    receivers,  \* managers with a registered permissionReceiver
    answers,    \* of each manager: the broadcast on its way to it
    conns,      \* managers in use whose openConnection is open
    fd          \* the manager whose descriptor the station was given

appVars == <<bound, granted, receivers, answers, conns, fd>>
vars == <<videoVars, appVars>>

NoAnswers == [m \in Managers |-> "none"]

Init ==
    /\ VideoInit
    /\ bound = FALSE
    /\ granted \in BOOLEAN
    /\ receivers = {}
    /\ answers = NoAnswers
    /\ conns = {}
    /\ fd = None

Waiting == receivers \cup {m \in Managers : answers[m] # "none"}

NewManagerShared == CHOOSE m \in Managers : TRUE

(* A UsbAdapterManager that nothing refers to yet. *)
NewManager == CHOOSE m \in Managers : m \notin Waiting \cup {fd}
-----------------------------------------------------------------------------
(* openFileDescriptor of manager m, and startGroundStation with what it
   gives.  When the link is already up the manager is forgotten, and with it
   the connection it has opened, which is never closed: such connections are
   not kept track of. *)
OpenAndStart(m) ==
    \/ /\ conns' = conns \ {m}        \* openDevice fails
       /\ UNCHANGED <<videoVars, fd>>
    \/ /\ running                     \* startGroundStation returns at once
       /\ conns' = conns \cup ({m} \cap {fd})
       /\ UNCHANGED <<videoVars, fd>>
    \/ /\ \E rec \in BOOLEAN : StartGroundStation(rec)
       /\ fd' = m
       /\ conns' = {m}

StartUdp ==
    /\ \/ running /\ UNCHANGED <<videoVars, fd>>
       \/ /\ \E rec \in BOOLEAN : StartGroundStation(rec)
          /\ fd' = None
    /\ UNCHANGED <<receivers, conns>>

(* startLink: by UDP; or over USB, with the permission in hand or asked
   for.  Without an adapter nothing happens. *)
StartLink ==
    /\ bound
    /\ \/ StartUdp
       \/ granted /\ OpenAndStart(NewManager) /\ UNCHANGED receivers
       \/ /\ ~granted /\ Cardinality(Waiting) < MaxRequests
          /\ receivers' = receivers \cup {NewManager}
          /\ UNCHANGED <<videoVars, conns, fd>>

RequestLink ==
    /\ Idle("main")
    /\ StartLink
    /\ UNCHANGED <<bound, granted, answers>>

(* The user answers one of the dialogs, and every receiver is told. *)
PermissionBroadcast(yes) ==
    /\ receivers # {}
    /\ answers' = [m \in Managers |->
                    IF m \in receivers THEN (IF yes THEN "yes" ELSE "no") ELSE answers[m]]
    /\ granted' = (granted \/ yes)
    /\ receivers' = {}
    /\ UNCHANGED <<videoVars, bound, conns, fd>>

(* onReceive: unregister, and onResult. *)
OnReceive(m) ==
    /\ Idle("main") /\ answers[m] # "none"
    /\ answers' = [answers EXCEPT ![m] = "none"]
    /\ IF answers[m] = "yes" THEN OpenAndStart(m) ELSE UNCHANGED <<videoVars, conns, fd>>
    /\ UNCHANGED <<bound, granted, receivers>>

OnServiceConnected ==
    /\ Idle("main") /\ ~bound
    /\ bound' = TRUE
    /\ UNCHANGED <<videoVars, granted, receivers, answers, conns, fd>>

(* maybeAutoStart, launched when the service is connected and when an adapter
   is plugged in.  It waits for the settings, so it goes on at any later
   time: the link is started unless it is up by then or there is no key. *)
MaybeAutoStart ==
    /\ Idle("main") /\ ~running
    /\ StartLink
    /\ UNCHANGED <<bound, granted, answers>>

(* The adapter is pulled out, and the permission goes with it. *)
Detach ==
    /\ granted' = FALSE
    /\ UNCHANGED <<videoVars, bound, receivers, answers, conns, fd>>

(* The activity is destroyed, its coroutines cancelled and its receivers
   unregistered; the service lives on. *)
OnDestroyActivity ==
    /\ Idle("main") /\ bound
    /\ bound' = FALSE
    /\ receivers' = {}
    /\ answers' = NoAnswers
    /\ UNCHANGED <<videoVars, granted, conns, fd>>

Next ==
    \/ /\ \/ ThreadStep
          \/ \E present \in BOOLEAN : AttachSurface(present)
          \/ StopGroundStation
          \/ ToggleRecording
       /\ UNCHANGED appVars
    \/ RequestLink
    \/ \E yes \in BOOLEAN : PermissionBroadcast(yes)
    \/ \E m \in Managers : OnReceive(m)
    \/ OnServiceConnected \/ MaybeAutoStart
    \/ Detach \/ OnDestroyActivity

Spec == Init /\ [][Next]_vars
-----------------------------------------------------------------------------
(* Types of the state; the rx thread never uses a null codec or file. *)
TypeOK ==
    /\ link \in {"down", "up", "stopping"}
    /\ {running, wakeLock, surface, decRunning, sawKeyframe, recording} \subseteq BOOLEAN
    /\ {codec, active} \subseteq Decoders \cup {None} /\ started \subseteq Decoders
    /\ {output, stream} \subseteq Files \cup {None} /\ open \subseteq Files
    /\ At("rx", "feed") => active # None
    /\ At("rx", "recWrite") => stream # None
    /\ recLock \in Threads \cup {None}
    /\ configuredCodec \in CodecNames
    /\ nal \in Nals \cup {None}
    /\ receivers \cup conns \subseteq Managers /\ fd \in Managers \cup {None}
    /\ answers \in [Managers -> {"none", "yes", "no"}]

(* The station never works on a descriptor whose connection was closed: "the
   descriptor stays valid only while the connection is open"
   (UsbAdapterManager.kt:102-103), although a link may be asked for again,
   and an old permission be answered, while it runs. *)
FdValid == link # "down" /\ fd # None => fd \in conns
==============================================================================
