# Verification of the OpenIPC mobile ground station

TLA+ models of the ground station in this repository: the native core that
receives an FPV video link (C++, `core/` and `gslib/`) and the Android app
around it (Kotlin, `app/`). TLC checks the models on small instances; TLAPS
proves some of the results for every value of the constants. `PROJECT.json`
maps every definition to the source lines it models, lists the runs, the
mutated definitions that show each property can fail, the theorems, and the
hazards the properties are aimed at.

Running things, in this directory:

    tlc -workers 2 -config Downlink.cfg MCDownlink   # one run
    tlapm MavlinkFramer_proofs.tla                   # one proof module

## 1. The system

A radio frame is received from a USB adapter (devourer) or a datagram from a
UDP socket, classified and decrypted by wfb-ng, and its payload goes, by radio
port, to the video depacketiser, to the MAVLink router or to the OSD decoder.
Up the link go MAVLink messages of ground control stations (GCS) and the
messages of the adaptive link. The app decodes and records the video.

| Component | State | Operations | Talks to | What is hard |
|---|---|---|---|---|
| RTP depacketiser (`core/src/rtp`) | codec, expected sequence number, fragment under assembly | `Push`, `set_codec` | receive thread; UI thread sets the codec | loss, duplication and reordering inside a fragmented NAL; wrap of the sequence number; guessing the codec |
| Ground station (`gslib/.../ground_station.cpp`) | owner of every other object, four threads | `Start`, `Stop`, `SetAlinkConfig`, `SetChannel`, `SetMavlinkEndpoints`, `SendUplink`, `StatsLoop` | everything | order of joins and destructions, failure half way through `Start` |
| Packet sources (`devourer_source.cpp`, `udp_source.cpp`) | device, running flag, thread | `Start`, `Stop`, `SetChannel`, `Transmit`, loops | ground station, receiver | a thread that uses what `Stop` takes away |
| MAVLink framer (`router.cpp`) | buffer | `Push`, `Reset` | router | input cut anywhere, resynchronising |
| JNI bridge and Kotlin API (`jni_bridge.cpp`, `NativeGroundStation.kt`) | session handle, listener reference, attached threads | create, start, stop, setters, destroy; callbacks | service above, ground station below | a session deleted under a callback; threads that must be detached |
| MAVLink router (`router.cpp`) | endpoints, sockets, dirty flag, wake pipe | `SetEndpoints`, `Start`, `Stop`, `PollLoop`, `FeedDownlink` | kernel, GCS, ground station | pointers collected before `poll()` and used after it; hang-ups; reconfiguration under way |
| Telemetry decoder (`router.cpp`) | the values on screen | `Consume` | downlink framer, stats thread | values of a message that was cut, trimmed or signed |
| wfb receiver (`core/src/wfb`) | counters, signal records, session flag | `AddStream`, `ProcessFrame`, `TakeSnapshot` | receive and stats threads | counters cleared while they are added to |
| Keys (`session_keys.cpp`) | `gs.key`, `drone.key` | `GenerateKeyPair`, `ValidateGsKey` | disk, receiver, air unit | a crash or a full disk between two files |
| Adaptive link (`core/src/alink`) | noise estimate, keyframe request | `Update` | stats thread | a loss that falls between two messages; noise that outlives its cause |
| OSD decoder (`core/src/msp`) | parser, canvas | `Push` | receive thread, screen | two streams into one parser; noise; strings at the canvas edge |
| Service, decoder, recorder (`app/.../service`, `video`, `dvr`) | running, surface, MediaCodec, file, wake lock | start/stop, `attachSurface`, `toggleRecording`, `onVideoNal` | UI thread and native receive thread | the receive thread takes no lock |
| Activity and USB (`MainActivity`, `usb`) | binding, permission receiver, connection | `startLink`, `requestPermission`, `openFileDescriptor` | framework, service | answers that arrive late or twice |
| Link statistics, settings, UI | – | – | – | not modelled, see section 7 |

The properties that make each component correct are the ones its run checks
(section 4); the hazards, each at its line, are in `PROJECT.json`.

## 2. Modules

| Module | Models | Notes |
|---|---|---|
| `RtpDepacketizer` | `depacketizer.cpp` from `Push` down, `set_codec` | Payload bytes are real where the code looks at them (NAL headers, FU headers, aggregation lengths). The air unit is an external packetiser; packets arrive with an index at most `MaxSkew` away from the last one, in any order. `DeliverRacingSetCodec` is `Push` with `set_codec` between its two reads of `codec_`. |
| `RtpHeader` | `ParseRtp`, `PayloadSize` | Pure functions on datagrams, against the encoder of RFC 3550. |
| `GroundStation` | lifecycle of station, source, receiver, router thread | Program counters for the control, stats, poll and receive threads; each pointer, flag and mutex that two of them touch is a variable. What the callees compute is in the other modules. |
| `JniBridge` | `jni_bridge.cpp`, `NativeGroundStation.kt` | Composes with `GroundStation`: each call of the control thread is an action of both, and the steps of the station that end in a callback put their thread inside `ScopedEnv` until the listener returns. One control thread, as in the service. |
| `MavlinkFramer` | `MavlinkFramer::Push` | One step per iteration of the loop; the sizes of the protocol are constants. |
| `TelemetryDecoder` | `TelemetryDecoder::Consume` | Composes with `MavlinkFramer`: an emitted frame is consumed in the same step. Which message carries which field where is a constant (`Layout`). |
| `MavlinkRouter` | router thread, endpoints, sockets, `FeedDownlink` | The kernel and the GCS are external: connections that are pending, withdrawn, open, half-closed, reset; an `accept`, `recv` or `recvfrom` that fails is `WalkPassOver`. A message is two halves, so that a framer can mix them. |
| `WfbReceiver` | classification, accounting, snapshots | The Aggregator is external: a frame is foreign, a session packet, or data with some outcome. |
| `SessionKeys` | `session_keys.cpp`, `AddStream` | Composes with `WfbReceiver`: a session packet is only accepted when the key file the receiver loaded opens the one on the air unit. A key file is a sequence of keys, so that short, long and mixed-up files exist; the files survive a crash. |
| `AdaptiveLink` | `StatsLoop` and `Update` | Time is the distance to the next message; the score is the code's arithmetic in integers, noise in thousandths. A Kalman update moves the estimate anywhere towards the measurement, which is all that a gain between 0 and 1 promises. A snapshot that heard nothing carries the signal of silence; one that heard a signal of the same values is told apart by `heard`, as by the packet counters of the code. |
| `MspOsd`, `OsdCanvas` | OSD decoder and what it promises | `MspOsd` is byte by byte; `OsdCanvas` is the abstract grid it implements. |
| `VideoOutput` | service, decoder, recorder | Each thread has a list of steps, one per access to a shared field. The two threads interleave between any two accesses; values of plain fields are taken to be seen in order. |
| `MobileApp` | activity and USB permission flow | Composes with `VideoOutput`: starting a link is one action of both. |
| `MCRtp` | instance of `RtpDepacketizer` and `RtpHeader` | Streams and datagrams. |
| `MCDownlink` | instance of `TelemetryDecoder` and `MspOsd` | The two readers of the telemetry port, which share nothing: a behaviour follows one of them. |
| `MCLink` | instance of `SessionKeys` and `AdaptiveLink` | The receiver with its keys, and what the adaptive link makes of a snapshot; a behaviour follows one of them. |
| `MCMavlinkRouter` | instance of `MavlinkRouter` | Endpoint lists. |
| `..._proofs` | theorems | Section 6. |

How to read a model against the code: a variable carries the name of the field
it stands for, with a comment; an action is one handler, or one stretch of it
between two points at which another thread can interfere; a guard is an early
return. Variables marked *history* exist for the properties only and are read
by no guard.

## 3. Plan and what is done

1. Video reassembly (`RtpDepacketizer`, `RtpHeader`) with proofs – done.
2. Lifecycle and threads (`GroundStation`) – done.
3. MAVLink: framer with proofs, telemetry decoder, router with both
   directions – done.
4. Receiver with key files, adaptive link with its score and proofs – done.
5. OSD against an abstract canvas – done.
6. The app: decoder, recorder, service, activity – done.
7. The JNI bridge over the lifecycle – done.
8. Proofs of the safety properties of every component (section 6), the
   refinement of `OsdCanvas` among them – done.
9. Left: every property of a passing run but the three of liveness is now a
   theorem. Worth adding next are abstract specifications of the router and of
   the recorder, with refinement proofs like that of `OsdCanvas`.

## 4. Runs

| Run | Result | What it shows |
|---|---|---|
| `rtp` | pass | `NalIntact`: no NAL leaves that was not sent. `FragmentIsPrefix`: what is being assembled is a prefix of what was sent. `ConsecutiveNalEmitted`: what arrives in order does come out. `H265Recognised`: H.265 is never taken for H.264, and its first legal header settles it. `SpanInside`: the payload span lies in the datagram, for truncated and damaged ones too. `RoundTrip`: it is the payload that was sent. |
| `rtp_detection` | violation | `DetectionRight`: H.264 whose first packet heard is a slice of header 0x41 or 0x61 is taken for H.265. |
| `gs_lifecycle` | pass | (`JniBridge`) `StatsThreadSafe`, `RxThreadSafe`: no use after destruction of receiver, source or device by stats and receive threads (`alink_` apart). `StoppedIsClean`: threads, locks, source, device and receiver are gone after `Stop` and after each failure of `Start`. `CallbackSafe`: a callback finds session and listener for as long as it lasts. `ThreadsDetached`: no thread ends attached to the JVM. `ClosedIsGone`: a closed session leaves no reference and no thread. `ControlReturns`: every call of the control thread returns. |
| `gs_poll_uplink` | violation | `PollUplinkSafe`: the poll thread can be inside `SendUplink`, past its test of `source_`, when a failed `Start` or `Stop` destroys the source: before its call of `Transmit`, or during it. A source that `Start` has made and not yet brought up is alive and does not count. |
| `gs_alink_edit` | violation | `AlinkSafe`: `SetAlinkConfig` can destroy the controller under the stats thread. |
| `downlink` | pass | The framer: `CutIrrelevant`: the messages do not depend on how the input is cut. `BytesAccounted`, `BufferBounded`. `TelemetryLatest`: what is shown is what the latest message that carries it said. The OSD: `DispatchedIsFrame`: only intact messages are dispatched. `Resynchronises`. `CanvasImplemented`: the refinement of `OsdCanvas`. |
| `router` | pass | `SlotsValid`: no dangling endpoint pointer. `ConnectionsAgree`, `StoppedIsClosed`: no socket lost. `DownlinkReaches`: telemetry goes to every connected client and to the peer that sent last. `MixedOnlyAtSeam`: of the messages one read sends up, only the first can be put together from two connections, and none on an endpoint that has accepted at most one. |
| `router_live` | pass | `ConfigServed`, `HangupReaped`: what was configured last is served in the end, and a client that hung up is closed. |
| `router_shared_framer` | violation | `UplinkWhole`: two TCP clients with uplink on one endpoint share a framer. |
| `router_first_peer` | violation | `PeerKept`: a datagram of a second station takes a UDP server's telemetry away from the first. |
| `link` | pass | The receiver: `CountersConserved`: no packet lost or counted twice. `SnapshotExact`: number, least, greatest, mean and best mean are those of the frames heard. `SessionHonest`: a session means that the loaded key matched the air unit's. `KeysPair`: a generated pair whose bytes reached the disk is usable at both ends, whatever was there before. The adaptive link: `LossRequestsKeyframe`, `RequestRepeated`: keyframe requests. `ScoreHonest`: ranges, and silence scores worst. `PenaltyEarned`: a clean link is not penalised. |
| `app` | pass | `GateSettled`, `StoppedIsQuiet`, `NoFileLeak`, `FdValid`; with deadlock checking, that the join in `stopGroundStation` cannot wait for ever. |

Two runs check two components each: the framer and the OSD parser read the same
port, the receiver and the adaptive link are the two ends of a snapshot, and
neither pair shares state. `MCDownlink` and `MCLink` let a behaviour follow one
of them and leave the other in its initial state, so nothing is multiplied and
nothing is left out; `MCRtp` parses datagrams before a stream in the same way.

### Bounds, and why they are enough

- `rtp`: 50 streams, each a fragmented IDR and a fragmented P slice with every
  kind of other packet before and between them, for both codecs. Sequence
  numbers are taken modulo 7 with a skew of 5, so that they wrap between the
  two fragments of the P slice and the largest skew that can still be told
  apart is used (`MaxSkew + 1 < SeqMod`, the hypothesis of the theorem).
  Headers: CSRC counts 0, 1, 15, extensions of 0 to 2 words, padding to 3,
  every truncation. These streams are `Detectable`; `rtp_detection` has the
  others, H.264 streams that are joined at a slice in a single packet.
- `gs_lifecycle`: no bound; the state space is finite.
- `downlink`, framer: all streams of up to 4 bytes over an alphabet in which
  every byte is a magic, a length, flags and payload, longer ones around a
  frame of the largest size, and sequences of telemetry messages of both
  versions, short, signed and with unknown values; every way of cutting them.
- `router`: two GCS, two endpoint lists (TCP, UDP server, UDP target, a port
  that cannot be bound; all with uplink, the default), two reconfigurations,
  one session (`MaxStarts = 1`), two messages per GCS in two halves each, so
  that a read can end one message and hold the next. `accepted` stops at 2, as
  no property tells more connections apart. The two stations are alike, and no
  choice depends on which is which, so that `Router.cfg`, which checks safety
  only, counts states up to their exchange (`GcsSymmetry`). `router_live` needs
  one message per GCS, as the liveness properties are about connections, and
  its UDP target takes nothing up. The violation runs have one endpoint.
- `link`, receiver: three frames, two antenna paths, one usual strength and one
  beyond eight bits; the air unit's pair and one fresh pair, any number of
  calls and crashes. Strengths and key files do not vary at once (`Untouched \/
  Silent`): neither is read by what changes the other.
- `link`, adaptive link: intervals not above the tick; a request is repeated
  three times, so that a new loss can come at its start, middle and end; one
  signal with the values of silence, one inside the range of the strength and
  above that of the SNR (the theorem takes over for all others); five noise
  levels around the two thresholds.
- `downlink`, OSD: two arbitrary packets out of twenty and any number of clean
  messages after them; canvases of 2x2 and 2x3, so that the edge is reached.
  `MaxSize = 255`, which is also what a v1 header can announce.
- `app`: one permission request at a time, two NAL kinds (a keyframe and a
  picture under either codec), object identities are reused once nothing
  refers to them; there is no bound on the number of operations.

`CHECK_DEADLOCK FALSE` is said only where the input of the model is used up
(`downlink`) or the bounded GCS and calls are (the runs of the router).

### Fairness

- `gs_lifecycle`: weak fairness of each thread (the scheduler runs every
  thread), strong fairness of taking the mutexes (a waiter gets them in the
  end), and strong fairness of leaving the receive loop once `running_` of the
  source is false: devourer's loop is told by `StopRxLoop`, and the UDP loop
  looks at the flag at least every 200 ms. A method of the listener returns:
  the service's methods take no lock that a caller of the bridge holds, except
  the recorder's, which the `app` run covers. Nothing is assumed of the user or
  the air.
- `router_live`: strong fairness of the poll thread, which competes with the
  downlink for the endpoints' mutex; weak fairness of a downlink that holds it
  and of the join. A GCS need not do anything.
- `router_first_peer` takes the same specification, though what it refutes is a
  property of a step. The other runs check safety only.

## 5. Where the code differs from its texts, or is exposed

The five violation runs are findings with quotes in `PROJECT.json`. The
following was seen while modelling and has no run of its own; the models
contain the behaviour unless said otherwise.

- Setting the *other* codec in the middle of a fragment keeps the half-built
  NAL and can splice a hole; the run sets the same codec again.
- A `Start` that fails keeps the mirror socket, and the next one overwrites
  it; deleting the session forgets it.
- `nativeStart` builds a configuration whose adaptive link has the defaults,
  and `Start` overwrites `config_` with it. The controller the service made
  with `setAlink` before stays and keeps its own settings, but the stats loop
  sends at the default interval of 100 ms until the settings are applied
  again. `StartRouter(k, FALSE)` of `JniBridge` keeps that controller.
- `nativeStart` on a running session would delete the listener reference
  under the threads; the service does not do so.
- `MavlinkRouter::Stop` clears the endpoints without marking them dirty: a
  second `Start` serves nothing until `SetEndpoints`. The app makes a new
  station for each start.
- The framer of a TCP endpoint outlives its clients: after a client that hangs
  up in the middle of a message, the next connection's first bytes complete it
  (`router_shared_framer` shows it with `Gcs = {g1}` and `MaxMsgs = 2`).
- `TelemetryDecoder` wants the full payload of a message, and MAVLink 2 senders
  cut trailing zero bytes: a `VFR_HUD` always ends in one (throttle is at most
  100) and is never decoded; a `GLOBAL_POSITION_INT` with a heading below
  2.56 degrees, a `GPS_RAW_INT` without satellites and a `SYS_STATUS` with an
  empty battery leave the value before on screen. In a signed message the
  signature counts as payload, so a cut one reads checksum bytes as fields
  (`TelemetryLatest` is stated without signed ones). The offsets 5 and 25 of
  `BATTERY_STATUS` follow the declaration, not the wire order. A heartbeat of
  any component sets `armed`.
- `GenerateKeyPair` buffers 64 bytes and ignores what `fclose` says: a full disk
  is a success with an empty file (`KeysPair` leaves such calls out). `gs.key`
  is written first, so a crash leaves two halves of different pairs. The three
  streams of a receiver read `gs.key` one after the other. Nothing in the
  screens calls `generateKeyPair`, or imports a key, although `README.md:24`
  lists both.
- `SettingsRepository.update` reads the settings outside of the `edit` it
  writes them with, and the page edits a copy: of two quick edits one can be
  undone.
- Until the first payload, the session flag falls back at each snapshot.
- With an alink interval above 100 ms, losses of the snapshots in between are
  thrown away.
- `VideoDecoder`: the keyframe flag is set before the keyframe is fed, so one
  dropped for want of a buffer opens the gate all the same; `running` is set
  before the flag is reset in `start`, a short window for a `submitNal` under
  way; the exception of a released codec turns the new decoder off; AUTO never
  becomes H.265.
- `VideoRecorder`: a late write to a stopped recording's file stops the next
  recording.
- `UsbAdapterManager.close` is called by nobody but the manager itself, and
  every link makes a new manager: connections stay open.

## 6. Proofs

All proofs are checked by TLAPS to the last leaf; nothing is assumed but the
named `ASSUME`s of the modules, which TLC evaluates in the runs. Each theorem
of an invariant has the same frame: an inductive invariant, one lemma for each
action (and under it one step for each part the action can disturb), and a
last step of temporal logic.

### `RtpDepacketizer_proofs`

`ReassemblyIntact` and `FragmentAlwaysPrefix`: for every set of well-formed
streams, every `SeqMod` and every skew with `MaxSkew + 1 < SeqMod`, `NalIntact`
and `FragmentIsPrefix` hold in every state. `NalIntact` alone is not inductive:
a NAL is right when it is completed because the fragment was right before, so
the invariant `IInv` adds `FragmentIsPrefix`, and for that the codec must be
known (`DetectionRight`) and the types. The heart is `NoGapIsNext`: if the
sequence check finds no gap then the packet is the successor of the last one;
it rests on arithmetic modulo `SeqMod` (`ModSucc`, `SameResidue`).
`HandlePayloadSound` then does the handlers case by case. `SafeSetting` is the
hypothesis: no change to the other codec under way, and streams whose codec is
detectable. The second is a real restriction, as `rtp_detection` shows: of a
stream taken for the other codec the NAL units that come out are not those
sent. Two theorems say how far it reaches. `DetectionOfH264`: exactly which
H.264 packets are recognised (parameter sets, IDR pictures and aggregates as
OpenIPC encoders head them, fragments, and whatever has no temporal id in its
second byte), all others being taken for H.265. `H265AlwaysRecognised`: an
H.265 stream with legal headers is never mistaken, whatever arrives first.

`WholeNalsComeOut` is the converse, an action property: under the same
hypothesis nothing is thrown away needlessly. Emission needs more than a right
fragment, it needs one to be there, so `EmitInv` adds to `IInv` that a NAL unit
of which every fragment so far arrived in order is in flight (`RunInFlight`).

Of the header (`RtpHeader`, whose specification is `HeaderSpec`):
`SpanAlwaysInside`: for every datagram of bytes that is accepted, offset and
size of the payload lie inside it. `PayloadsComeBack`: for every CSRC list,
extension, padding and payload, the parser finds in what a sender encoded
exactly the payload. Both are about `ParseRtp` as a function.

### `JniBridge_proofs`

There is nothing to parameterise: the state space is finite and TLC covers it.
The proofs say *why* no thread meets a destroyed object. `GsInv` is the
invariant of the ground station alone: `PhaseInv` ties what exists to how far
`Start` or `Stop` has come, and `LockInv` says who may be inside which mutex.
`LifetimesRespected` follows: `StatsThreadSafe`, `RxThreadSafe` and
`StoppedIsClean`, and the same under the bridge. They are about receiver,
source and device, the stats and the receive thread: of the poll thread and of
`alink_` the like is false (`gs_poll_uplink`, `gs_alink_edit`), and the mirror
socket and the `alink_` that a failed `Start` keeps are not in
`StoppedIsClean`. `JniInv` adds that a session outlives its station and has one
listener reference from the first start on (`SessionInv`), and that a thread of
the station is attached exactly as long as it is in a callback (`ScopeInv`); it
gives `CallbacksFindListener`, `ThreadsEndDetached` and `CloseLeavesNothing`.

### `MavlinkFramer_proofs`

For every set of inputs and every way of cutting them, with the protocol's
sizes as constants. `BufferNeverGrows`, `EveryByteAccounted`: `RestIsPartial`
shows that what `Push` leaves is less than one frame; `SkipAccounted` and
`EmitAccounted` that a step moves a byte, or a frame's bytes, from the rest to
exactly one of the two accounts. `CuttingIsIrrelevant`: the reference scan of
the whole input is a recursive function; that it exists is shown by the least
number at which it would not, and `CutInv` says that the scan from the bytes
kept gives the same as the scan from the start. `ShownIsLatest` (`ShownInv`,
in the telemetry decoder): each value shown is that of the last message that
carries it, for every layout (`Layouts`, of unsigned messages).

### `MavlinkRouter_proofs`

For any number of ground control stations, endpoints and reconfigurations
(`RouterAssumption`, `GcsAssumption`). `RouterInv` has five parts, each useless
without the others: each endpoint stands at the place its identity names
(`EndpointsInv`), an endpoint lists the stations it has accepted and only those
(`NetInv`), a UDP server's peer is the station it heard last (`PeerInv`), the
poll thread holds the lock exactly while it walks, and what is left when the
threads are gone (`PhaseInv`), and the slots still name endpoints and clients
(`SlotsInv`). It gives `WalkFindsEverySlot`, `SocketsAgreeWithLists`,
`StopClosesEverything` and `TelemetryReachesItsListeners`.

`MixedAtTheSeamOnly` is about what goes up: two TCP clients of one endpoint
share a framer (`router_shared_framer`), and one that hangs up in the middle of
a message leaves its half for the next, but what one read sends up is mixed in
its first message at most, and in none while the endpoint has accepted one
connection or, as a UDP one, none. The framer is a recursive function of the
parts read; `PushFramed` follows it part by part: after a part of a station the
framer holds the first half of that station's message or nothing. `InboxInv`
says that the bytes waiting in a connection are consecutive parts, and
`FramerInv` that the framer of an endpoint with one connection holds the part
before them, or nothing.

### `SessionKeys_proofs`

Of the receiver together with the key files (`KeysAssumption`), for any set of
frames, antenna paths and pairs. `FilesInv` follows `GenerateKeyPair` through
its two files, with a crash after either; `KeyInv` says that whoever has a
session key got it from an air unit whose key fits the one loaded; `CountsInv`
adds up the counters of all snapshots and the running ones; `SignalInv` says
that every path's accumulator is the account of the frames heard since the
last snapshot: their number, least, greatest and sum, of which the mean is the
quotient the code takes (`PathSum`), and the best is the greatest of the means,
or -105. They give
`GeneratedKeysPair`, `SessionsAreHonest`, `NoPacketMiscounted` and
`SnapshotsAreExact`. `KeysPair` leaves out a call whose bytes are lost in the
`fclose` whose result `WriteFile` ignores: it returns true and leaves no pair.

### `AdaptiveLink_proofs`

For every tick, interval, number of repetitions, signal and grid of noise
values. `RequestExactlyRepeated`: the invariant `RequestInv` says that the
pending requests are what is left of `IdrMax` since the last reported loss
(`Pending`). `ScoreAlwaysHonest` and `PenaltiesAreEarned`: `ScoreInv` adds that
the estimate of a clean controller never exceeds the initial one, as every
update moves it towards 0; `GainFacts`, `DeductionFacts` (the square root
exists, by `Crossing`) and `PointsFacts` bound the arithmetic.
`EveryLossReported`, under `Prompt` (a message due at every tick, at least one
repetition): `PromptInv` says that a loss that is owed a request is still in
the counters of the receiver.

### `MspOsd_proofs`

For all packets, every size of message and of canvas, and any two checksums
that map bytes to bytes (`OsdAssumption`; of the one of MSP v1 also that
`XorByte(0, b) = b`, because the code starts that sum from the size byte).

- `DispatchedAreFrames`: `ParserInv` says in which state the parser is after
  which bytes since the last `$`: size, function, payload and checksum are
  those of the bytes read. The checksums are folds, and `SumGrows` is what one
  more byte does to them.
- `CanvasIsImplemented`: the refinement of `OsdCanvas`. Every DisplayPort
  command is a step of the grid or a stutter (`CommandIsCanvasStep`); the one
  that takes work is a string, which stays in its row because it is cut at the
  right edge (`RunFits`, `RowsApart`, `WrittenGrid`).
- `CleanStreamResynchronises`: `Resynchronises` says nothing about where in a
  false message the parser is, so it is not inductive. `RunInv` says that in
  the k-th clean message in a row the parser reads it from its `$` (`Reads`),
  or is about to (`Starts`), or is in a false message that ends before
  `Budget` bytes of the run are gone (`Loses`), or has left it and waits for
  the next `$` (`Waits`). `NeedOf` is the number of bytes that a message under
  way can still take, and `NeedFalls` that every byte lowers it. Once the
  parser reads from the `$` it does so to the end, because the body announces
  its own length (`SyncedHeader`, `SyncedBody`), and the sum agrees.
  `CleanAssumption` says what a clean message is: an encoding of a message of
  at most `MaxSize` bytes without a second `$`.

### `MobileApp_proofs`

For every stream, any number of MediaCodecs, files and adapter managers, and
any bound on permission requests. `VideoAssumption` and `AppAssumption` say
that there is always one more of these than a thread can still refer to: a new
object is never one in use. The invariant `IInv` has five parts.

- `Quiet`. What a thread still has to do is a list, and which lists occur is
  the control flow of `VideoDecoder`, `VideoRecorder` and the service: each
  tail of each list has a name (`Before`), and `MainAt` and `RxAt` say what
  holds there: nothing is started between `release` and `create`, a started
  codec has a surface and a link, the station is down before the service is,
  the receive thread has a codec or a file once it looked for one.
- `Locked`: who holds the recorder's lock is between two steps that need it,
  and file and flag are what these steps have made them.
- `Gated`: a decoder that passes everything has had its keyframe, or the
  receive thread is just feeding one to it or failing, or the main thread is
  still in one of the three steps of `start` and `stop` that can undo this.
- `Opened`: the manager of the descriptor waits for no answer, its connection
  is open, and a manager whose answer is on its way waits for no other.
- `TypeOK`, which needs the other parts: a new file is to be had because none
  is open, a new codec because none is started.

They give `QuietWhenStopped`, `FilesClosed`, `KeyframeFirst`,
`DescriptorOpen` and `AppTyped`. The order of the steps matters to the proof as
it does to the code: with the keyframe flag reset before `running` is set,
`GateSettled` is false (that is its mutant).

### Only model-checked

- Liveness under fairness (`ControlReturns`, `ConfigServed`, `HangupReaped`),
  which is out of the prover's reach.

## 7. Not modelled

- wfb-ng (decryption, FEC), devourer, libusb, MediaCodec, the kernel and the
  Android framework are external: modelled by how the code uses them.
- The exact gain of the Kalman filter and the weight of recovered packets in
  the adaptive link, and the scaling in `TelemetryDecoder`: floating point.
- How much of a telemetry message a full TCP socket takes (`FeedDownlink`
  ignores it).
- `LinkStats`: one copy under one mutex.
- JNI marshalling, settings and the Compose screens: straight-line code or
  layout; what is hard about the settings happens inside DataStore and Compose.
- Logging, notifications, status texts and display counters.
