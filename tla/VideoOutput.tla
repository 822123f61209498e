----------------------------- MODULE VideoOutput -----------------------------
(***************************************************************************)
(* What the app does with the video: GroundStationService, VideoDecoder    *)
(* and VideoRecorder (app/src/main/kotlin/org/openipc/mobilegs).           *)
(*                                                                         *)
(* Two threads meet here.  The main thread starts and stops the link,      *)
(* attaches surfaces and toggles the recording; the native receive thread  *)
(* calls onVideoNal, which takes no lock and reads and writes the fields   *)
(* of the decoder and the recorder one by one.  Each thread has a list of  *)
(* the steps it still has to take; one step is one access to shared state. *)
(* (VideoDecoder.start and stop are synchronized, but only the main thread *)
(* calls them: that lock is never contended and is left out.)              *)
(***************************************************************************)
EXTENDS Integers, Sequences

CONSTANTS
    Nals,      \* the NAL units of the stream, by their first byte
    Decoders,  \* MediaCodec objects
    Files,     \* files of the recorder
    None       \* null

(* A new MediaCodec or file is never the one a thread still refers to. *)
ASSUME VideoAssumption ==
    /\ Nals \subseteq 0..255 /\ None \notin Decoders \cup Files \cup {"main", "rx"}
    /\ \A d \in Decoders \cup {None} : \E new \in Decoders : new # d
    /\ \A f \in Files \cup {None} : \E new \in Files : new # f

VARIABLES
    todo,        \* of each thread: the steps of what it is doing
    link,        \* the native station: "down", "up", "stopping"
    running,     \* _running of the service
    wakeLock,    \* held
    surface,     \* a surface is attached
    codec, decRunning, sawKeyframe, configuredCodec,  \* VideoDecoder
    started,     \* the MediaCodecs that are started and not released
    primed,      \* history: those that were offered a keyframe
    output, recording, recLock,                       \* VideoRecorder
    open,        \* the files that are open
    nal, active, stream  \* rx thread: locals of submitNal and write

service == <<link, running, wakeLock, surface>>
decoder == <<codec, decRunning, sawKeyframe, configuredCodec, started, primed>>
recorder == <<output, recording, recLock, open>>
rxLocals == <<nal, active, stream>>
videoVars == <<todo, service, decoder, recorder, rxLocals>>

CodecNames == {"H264", "H265"}   \* AUTO is treated as H264 throughout
Threads == {"main", "rx"}

DecoderStop == <<"release", "codecNull", "runFalse", "sawFalse">>

DecoderStartResetEarly == DecoderStop \o <<"configure", "create", "sawFalse", "runTrue">>

(* VideoDecoder.start: stop first; the keyframe flag is reset last. *)
DecoderStart == DecoderStop \o <<"configure", "create", "runTrue", "sawFalse">>
RecorderStart == <<"recStart", "recFlag">>
RecorderStop == <<"recStop", "recClose", "recNull">>

VideoInit ==
    /\ todo = [t \in Threads |-> <<>>]
    /\ link = "down" /\ running = FALSE /\ wakeLock = FALSE /\ surface = FALSE
    /\ codec = None /\ decRunning = FALSE /\ sawKeyframe = FALSE
    /\ configuredCodec = "H264"
    /\ started = {} /\ primed = {}
    /\ output = None /\ recording = FALSE /\ recLock = None /\ open = {}
    /\ nal = None /\ active = None /\ stream = None

Idle(t) == todo[t] = <<>>
At(t, step) == ~Idle(t) /\ Head(todo[t]) = step
Goto(t, steps) == todo' = [todo EXCEPT ![t] = steps]
Skip(t, n) == Goto(t, SubSeq(todo[t], n + 1, Len(todo[t])))
-----------------------------------------------------------------------------
(* What the main thread is asked to do. *)
AttachSurface(present) ==
    /\ Idle("main")
    /\ surface' = present
    /\ Goto("main", IF ~present THEN DecoderStop
                    ELSE IF running THEN DecoderStart ELSE <<>>)
    /\ UNCHANGED <<link, running, wakeLock, decoder, recorder, rxLocals>>

StartGroundStation(recordVideo) ==
    /\ Idle("main") /\ ~running
    /\ Goto("main", <<"stationStart", "svcRunning">>
                    \o (IF surface THEN DecoderStart ELSE <<>>)
                    \o (IF recordVideo THEN RecorderStart ELSE <<>>))
    /\ UNCHANGED <<service, decoder, recorder, rxLocals>>

StopSequenceKeepsDecoder ==
    RecorderStop \o <<"stationStop", "join", "svcStopped">>

StopSequence == DecoderStop \o RecorderStop \o <<"stationStop", "join", "svcStopped">>

StopGroundStation ==
    /\ Idle("main")
    /\ Goto("main", StopSequence)
    /\ UNCHANGED <<service, decoder, recorder, rxLocals>>

ToggleRecording ==
    /\ Idle("main")
    /\ Goto("main", IF recording THEN RecorderStop ELSE RecorderStart)
    /\ UNCHANGED <<service, decoder, recorder, rxLocals>>
-----------------------------------------------------------------------------
(* The service's own steps.  NativeGroundStation.start starts the rx thread,
   or fails; its stop joins that thread. *)
StationStart ==
    /\ At("main", "stationStart")
    /\ \/ link' = "up" /\ Skip("main", 1)
       \/ UNCHANGED link /\ Goto("main", <<>>)
    /\ UNCHANGED <<running, wakeLock, surface, decoder, recorder, rxLocals>>

StationStop ==
    /\ At("main", "stationStop")
    /\ link' = IF link = "up" THEN "stopping" ELSE link
    /\ Skip("main", 1)
    /\ UNCHANGED <<running, wakeLock, surface, decoder, recorder, rxLocals>>

StationJoin ==
    /\ At("main", "join") /\ Idle("rx")
    /\ link' = "down"
    /\ Skip("main", 1)
    /\ UNCHANGED <<running, wakeLock, surface, decoder, recorder, rxLocals>>

SetRunning(step, value) ==
    /\ At("main", step)
    /\ running' = value
    /\ wakeLock' = value
    /\ Skip("main", 1)
    /\ UNCHANGED <<link, surface, decoder, recorder, rxLocals>>
-----------------------------------------------------------------------------
(* VideoDecoder.stop and start, field by field. *)
Release ==
    /\ At("main", "release")
    /\ started' = started \ {codec}
    /\ primed' = primed \ {codec}
    /\ UNCHANGED <<codec, decRunning, sawKeyframe, configuredCodec>>

CodecNull ==
    /\ At("main", "codecNull")
    /\ codec' = None
    /\ UNCHANGED <<decRunning, sawKeyframe, configuredCodec, started, primed>>

SetDecRunning ==
    /\ At("main", "runFalse") \/ At("main", "runTrue")
    /\ decRunning' = At("main", "runTrue")
    /\ UNCHANGED <<codec, sawKeyframe, configuredCodec, started, primed>>

SawFalse ==
    /\ At("main", "sawFalse")
    /\ sawKeyframe' = FALSE
    /\ UNCHANGED <<codec, decRunning, configuredCodec, started, primed>>

Configure ==
    /\ At("main", "configure")
    /\ configuredCodec' \in CodecNames    \* what start was called with
    /\ UNCHANGED <<codec, decRunning, sawKeyframe, started, primed>>

DecoderField ==
    /\ Release \/ CodecNull \/ SetDecRunning \/ SawFalse \/ Configure
    /\ Skip("main", 1)
    /\ UNCHANGED <<service, recorder, rxLocals>>

(* createDecoderByType, configure and start of a new MediaCodec; when one of
   them throws, codec is null and running false. *)
Create ==
    /\ At("main", "create")
    /\ \/ LET new == CHOOSE d \in Decoders \ {active} : d \notin started
          IN  /\ codec' = new
              /\ started' = started \cup {new}
              /\ Skip("main", 1)
       \/ /\ Goto("main", <<"codecNull", "runFalse">> \o SubSeq(todo["main"], 4, Len(todo["main"])))
          /\ UNCHANGED <<codec, started>>
    /\ UNCHANGED <<primed, decRunning, sawKeyframe, configuredCodec, service, recorder, rxLocals>>
-----------------------------------------------------------------------------
(* VideoRecorder.start and stop; write calls stop on the rx thread. *)
RecStartAlways(t) ==
    /\ At(t, "recStart") /\ recLock = None
    /\ LET new == CHOOSE f \in Files : f \notin open \cup {stream}
       IN  output' = new /\ open' = open \cup {new} /\ recLock' = t
    /\ Skip(t, 1)
    /\ UNCHANGED <<recording, service, decoder, rxLocals>>

(* The directory or the file may not be to be had. *)
RecStart(t) ==
    /\ At(t, "recStart") /\ recLock = None
    /\ \/ /\ ~recording
          /\ LET new == CHOOSE f \in Files : f \notin open \cup {stream}
             IN  output' = new /\ open' = open \cup {new} /\ recLock' = t
          /\ Skip(t, 1)
       \/ UNCHANGED <<output, open, recLock>> /\ Skip(t, 2)
    /\ UNCHANGED <<recording, service, decoder, rxLocals>>

RecFlag(t) ==
    /\ At(t, "recFlag")
    /\ recording' = TRUE
    /\ recLock' = None
    /\ Skip(t, 1)
    /\ UNCHANGED <<output, open, service, decoder, rxLocals>>

RecStop(t) ==
    /\ At(t, "recStop") /\ recLock = None
    /\ recording' = FALSE
    /\ IF recording THEN recLock' = t /\ Skip(t, 1) ELSE UNCHANGED recLock /\ Skip(t, 3)
    /\ UNCHANGED <<output, open, service, decoder, rxLocals>>

RecClose(t) ==
    /\ At(t, "recClose")
    /\ open' = open \ {output}
    /\ Skip(t, 1)
    /\ UNCHANGED <<output, recording, recLock, service, decoder, rxLocals>>

RecNull(t) ==
    /\ At(t, "recNull")
    /\ output' = None
    /\ recLock' = None
    /\ Skip(t, 1)
    /\ UNCHANGED <<recording, open, service, decoder, rxLocals>>
-----------------------------------------------------------------------------
(* isKeyframe by the first byte behind the four byte start code that the
   depacketizer writes: an IDR or IRAP picture, or a parameter set. *)
IsKeyframe(b, c) ==
    IF c = "H265" THEN (b \div 2) % 64 \in (16..21) \cup {32, 33, 34}
    ELSE b % 32 \in {5, 7, 8}

WriteSteps == <<"recRead", "recWrite">>

OnVideoNal(b) ==
    /\ link = "up" /\ Idle("rx")
    /\ nal' = b
    /\ Goto("rx", <<"readCodec", "readRunning", "gate", "feed", "recCheck">>)
    /\ UNCHANGED <<service, decoder, recorder, active, stream>>

(* submitNal returns: onVideoNal turns to the recorder. *)
Submitted ==
    /\ Goto("rx", <<"recCheck">>)
    /\ active' = None
    /\ nal' = None

ReadCodecUnchecked ==
    /\ At("rx", "readCodec")
    /\ active' = codec /\ Skip("rx", 1)
    /\ UNCHANGED <<nal, service, decoder, recorder, stream>>

ReadCodec ==
    /\ At("rx", "readCodec")
    /\ \/ codec = None /\ Submitted
       \/ codec # None /\ active' = codec /\ Skip("rx", 1) /\ UNCHANGED nal
    /\ UNCHANGED <<service, decoder, recorder, stream>>

ReadRunning ==
    /\ At("rx", "readRunning")
    /\ \/ ~decRunning /\ Submitted
       \/ decRunning /\ Skip("rx", 1) /\ UNCHANGED <<active, nal>>
    /\ UNCHANGED <<service, decoder, recorder, stream>>

(* Before the first keyframe everything else is thrown away. *)
Gate ==
    /\ At("rx", "gate")
    /\ \/ sawKeyframe /\ Skip("rx", 1) /\ UNCHANGED <<active, nal>>
       \/ /\ ~sawKeyframe /\ IsKeyframe(nal, configuredCodec)
          /\ Goto("rx", <<"setSaw">> \o Tail(todo["rx"])) /\ UNCHANGED <<active, nal>>
       \/ ~sawKeyframe /\ ~IsKeyframe(nal, configuredCodec) /\ Submitted
    /\ UNCHANGED <<service, decoder, recorder, stream>>

SetSaw ==
    /\ At("rx", "setSaw")
    /\ sawKeyframe' = TRUE
    /\ Skip("rx", 1)
    /\ UNCHANGED <<codec, decRunning, configuredCodec, started, primed, service, recorder,
                   rxLocals>>

(* The buffer calls on the MediaCodec and drainOutput: the NAL goes in, or is
   dropped for want of a buffer; a codec that was released, or that fails,
   throws IllegalStateException. *)
Feed ==
    /\ At("rx", "feed")
    /\ \/ /\ active \in started
          /\ primed' = IF IsKeyframe(nal, configuredCodec) THEN primed \cup {active} ELSE primed
          /\ Submitted
       \/ /\ Goto("rx", <<"fail">>)
          /\ UNCHANGED <<primed, active, nal>>
    /\ UNCHANGED <<codec, decRunning, sawKeyframe, configuredCodec, started, service, recorder,
                   stream>>

Fail ==
    /\ At("rx", "fail")
    /\ decRunning' = FALSE
    /\ Submitted
    /\ UNCHANGED <<codec, sawKeyframe, configuredCodec, started, primed, service, recorder,
                   stream>>

RecCheck ==
    /\ At("rx", "recCheck")
    /\ Goto("rx", IF recording THEN WriteSteps ELSE <<>>)
    /\ UNCHANGED <<service, decoder, recorder, rxLocals>>

RecRead ==
    /\ At("rx", "recRead")
    /\ stream' = output
    /\ IF output = None THEN Goto("rx", <<>>) ELSE Skip("rx", 1)
    /\ UNCHANGED <<service, decoder, recorder, nal, active>>

(* A write to a closed file throws, and any write may fail: the recording is
   stopped. *)
RecWrite ==
    /\ At("rx", "recWrite")
    /\ stream' = None
    /\ \/ stream \in open /\ Goto("rx", <<>>)
       \/ Goto("rx", RecorderStop)
    /\ UNCHANGED <<service, decoder, recorder, nal, active>>
-----------------------------------------------------------------------------
RecorderStep(t) ==
    RecStart(t) \/ RecFlag(t) \/ RecStop(t) \/ RecClose(t) \/ RecNull(t)

MainStep ==
    \/ StationStart \/ StationStop \/ StationJoin
    \/ SetRunning("svcRunning", TRUE) \/ SetRunning("svcStopped", FALSE)
    \/ DecoderField \/ Create

RxStep ==
    \/ \E b \in Nals : OnVideoNal(b)
    \/ ReadCodec \/ ReadRunning \/ Gate \/ SetSaw \/ Feed \/ Fail
    \/ RecCheck \/ RecRead \/ RecWrite

ThreadStep == MainStep \/ RxStep \/ \E t \in Threads : RecorderStep(t)
-----------------------------------------------------------------------------
(* Once start has returned and the rx thread is between two NALs, a decoder
   that would be fed at once has been offered a keyframe since it was made,
   whatever restarts fell between the unlocked reads and writes of an earlier
   submitNal: "Wait for a keyframe before feeding anything"
   (VideoDecoder.kt:115).  (While start is still running this can fail: a
   submitNal that was under way sets the flag again, and running is set
   before the flag is reset.) *)
GateSettled ==
    Idle("main") /\ Idle("rx") /\ decRunning /\ sawKeyframe => codec \in primed

(* Between two operations of the main thread the only started MediaCodec is
   the current one, and there is none without a surface to draw on or a link
   that runs; a service that is not running holds no wake lock and has no
   native thread left ("the pipeline stops cleanly when the user is done",
   GroundStationService.kt:37-38). *)
StoppedIsQuiet ==
    Idle("main") =>
        /\ started \subseteq {codec}
        /\ ~surface \/ ~running => started = {}
        /\ wakeLock = running
        /\ ~running => link = "down" /\ Idle("rx")

(* Every file the recorder opens is closed: while nobody is inside start or
   stop the one open file is that of the recording in progress, although the
   rx thread stops recordings too and the user toggles them meanwhile. *)
NoFileLeak == recLock = None => open = IF recording THEN {output} ELSE {}
==============================================================================
