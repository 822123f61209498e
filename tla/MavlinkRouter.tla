---------------------------- MODULE MavlinkRouter ----------------------------
(***************************************************************************)
(* MavlinkRouter (core/src/mavlink/router.cpp): the endpoints an external  *)
(* ground control station (GCS) attaches to.  The poll thread alone builds *)
(* and walks endpoints_; SetEndpoints, on another thread, only leaves the  *)
(* new configuration for it; FeedDownlink, on the receive thread, sends    *)
(* telemetry out; Stop joins the thread and closes what is left.           *)
(*                                                                         *)
(* A message of a GCS has two parts, so that TCP can cut it; the framer of *)
(* an endpoint keeps the first part until more bytes arrive (MavlinkFramer *)
(* is the byte-level model).  Sockets and remote peers are the environment.*)
(***************************************************************************)
EXTENDS Integers, Sequences, FiniteSets

CONSTANTS
    Gcs,        \* remote stations
    Configs,    \* what SetEndpoints may be called with: sequences of
                \* [name, kind, uplink]
    Unbindable, \* names of endpoints whose socket cannot be bound
    MaxSets,    \* bound: calls of SetEndpoints
    MaxStarts,  \* bound: calls of Start
    MaxMsgs     \* bound: messages a GCS sends

ASSUME RouterAssumption ==
    /\ MaxSets \in Nat /\ MaxStarts \in Nat /\ MaxMsgs \in Nat
    /\ Configs \subseteq Seq([name : STRING, kind : {"tcp", "udpServer", "udpOut"},
                              uplink : BOOLEAN])
    /\ IsFiniteSet(Gcs)

VARIABLES
    main,       \* the control thread: "idle", or in Stop's join
    running,    \* running_
    configured, dirty,  \* configured_, endpoints_dirty_
    sets, starts,       \* how often SetEndpoints and Start were called
    endpoints,  \* endpoints_: sequence of [id, cfg, clients, peer, half]
    mutex,      \* endpoints_mutex_
    poll,       \* where the poll thread is ("none": no thread)
    slots,      \* slots of the last collection: [id, client]
    todo,       \* the slots with revents still to look at
    failed,     \* of those, the ones with POLLERR or POLLHUP
    toClose,    \* to_close
    up,         \* what HandleEndpointData sent up for the last slot
    down,       \* whom FeedDownlink sends the telemetry at hand
    heard,      \* history: for each endpoint, the GCS whose datagram it read
                \* last
    accepted,   \* history: how many connections it has accepted since it was
                \* built (2: two or more)
    net,        \* the TCP connection of each GCS: [st, id, inbox, sent]
    dgram       \* the datagram of each GCS waiting in a socket: its id

routerVars == <<running, configured, dirty, sets, starts, endpoints>>
pollVars == <<poll, slots, todo, failed, toClose, up>>
netVars == <<net, dgram>>
downVars == <<down, heard, accepted>>
vars == <<main, routerVars, mutex, pollVars, netVars, downVars>>

None == "none"
NoId == <<0, 0>>
Listen == "listen"

ASSUME GcsAssumption == None \notin Gcs /\ Listen \notin Gcs

(* An endpoint object is identified by its place and by how many sets of
   endpoints were built before it: its address in the program. *)
NoConnection(sent) == [st |-> "out", id |-> NoId, inbox |-> <<>>, sent |-> sent]

(* A GCS that lost its connection goes on with its next message. *)
NextMessage(sent) == 2 * ((sent + 1) \div 2)

Present(id) == \E i \in 1..Len(endpoints) : endpoints[i].id = id
IndexOf(id) == CHOOSE i \in 1..Len(endpoints) : endpoints[i].id = id

(* ~Endpoint closes the sockets of its clients. *)
Dropped(ids) ==
    [g \in Gcs |-> IF net[g].id \in ids THEN NoConnection(NextMessage(net[g].sent))
                   ELSE net[g]]
Ids == {endpoints[i].id : i \in 1..Len(endpoints)}

Init ==
    /\ main = "idle"
    /\ running = FALSE
    /\ configured = <<>>
    /\ dirty = TRUE
    /\ sets = 0
    /\ starts = 0
    /\ endpoints = <<>>
    /\ mutex = "free"
    /\ poll = "none"
    /\ slots = <<>>
    /\ todo = {}
    /\ failed = {}
    /\ toClose = {}
    /\ up = <<>>
    /\ down = {}
    /\ heard = <<>>
    /\ accepted = <<>>
    /\ net = [g \in Gcs |-> NoConnection(0)]
    /\ dgram = [g \in Gcs |-> NoId]
-----------------------------------------------------------------------------
(* The control thread. *)
SetEndpointsTearsDown(c) ==
    /\ main = "idle"
    /\ sets < MaxSets
    /\ configured' = c
    /\ dirty' = TRUE
    /\ sets' = sets + 1
    /\ endpoints' = <<>>
    /\ net' = Dropped(Ids)
    /\ UNCHANGED <<main, running, starts, mutex, pollVars, dgram, downVars>>

SetEndpointsNotDirty(c) ==
    /\ main = "idle" /\ mutex = "free"
    /\ sets < MaxSets
    /\ configured' = c
    /\ sets' = sets + 1
    /\ UNCHANGED <<main, running, starts, dirty, endpoints, mutex, pollVars, netVars, downVars>>

SetEndpoints(c) ==
    /\ main = "idle" /\ mutex = "free"
    /\ sets < MaxSets
    /\ configured' = c
    /\ dirty' = TRUE
    /\ sets' = sets + 1
    /\ UNCHANGED <<main, running, starts, endpoints, mutex, pollVars, netVars, downVars>>

Start ==
    /\ main = "idle" /\ ~running
    /\ starts < MaxStarts
    /\ starts' = starts + 1
    /\ running' = TRUE
    /\ poll' = "rebuild"
    /\ UNCHANGED <<main, configured, dirty, sets, endpoints, mutex,
                   slots, todo, failed, toClose, up, netVars, downVars>>

(* Stop, up to the join; the wake pipe makes poll() return. *)
Stop ==
    /\ main = "idle" /\ running
    /\ running' = FALSE
    /\ main' = "join"
    /\ UNCHANGED <<configured, dirty, sets, starts, endpoints, mutex, pollVars, netVars, downVars>>

CloseEndpointsNone ==
    UNCHANGED <<endpoints, net, dgram, heard, accepted>>

CloseEndpoints ==
    /\ endpoints' = <<>>
    /\ heard' = <<>>
    /\ accepted' = <<>>
    /\ net' = Dropped(Ids)
    /\ dgram' = [g \in Gcs |-> NoId]

Join ==
    /\ main = "join"
    /\ poll = "exited" /\ mutex = "free"
    /\ CloseEndpoints
    /\ poll' = "none"
    /\ main' = "idle"
    /\ UNCHANGED <<running, configured, dirty, sets, starts, mutex,
                   slots, todo, failed, toClose, up, down>>
-----------------------------------------------------------------------------
(* The poll thread. *)
Bindable(cfg) == cfg.name \notin Unbindable
Served == {i \in 1..Len(configured) : Bindable(configured[i])}
Wanted ==
    [k \in 1..Cardinality(Served) |->
        configured[CHOOSE i \in Served : Cardinality({j \in Served : j < i}) = k - 1]]

Object(cfg, i) ==
    [id |-> <<i, sets>>, cfg |-> cfg, clients |-> {},
     peer |-> IF cfg.kind = "udpOut" THEN "fixed" ELSE None, half |-> <<>>]

(* RebuildEndpoints: a socket that cannot be made or bound is left out. *)
RebuildEndpoints ==
    IF dirty
    THEN /\ endpoints' = [i \in 1..Len(Wanted) |-> Object(Wanted[i], i)]
         /\ heard' = [i \in 1..Len(Wanted) |-> None]
         /\ accepted' = [i \in 1..Len(Wanted) |-> 0]
         /\ net' = Dropped(Ids)
         /\ dgram' = [g \in Gcs |-> NoId]
         /\ dirty' = FALSE
    ELSE UNCHANGED <<endpoints, heard, accepted, net, dgram, dirty>>

Rebuild ==
    /\ poll = "rebuild" /\ running
    /\ mutex = "free"
    /\ RebuildEndpoints
    /\ poll' = "collect"
    /\ UNCHANGED <<main, running, configured, sets, starts, mutex,
                   slots, todo, failed, toClose, up, down>>

(* while (running_), and the check after poll(); a poll() that fails ends
   the loop too. *)
Leave ==
    /\ \/ poll = "rebuild" /\ ~running
       \/ poll = "polling"
    /\ poll' = "exited"
    /\ UNCHANGED <<main, routerVars, mutex, slots, todo, failed, toClose, up, netVars, downVars>>

SlotsOf(e) ==
    {[id |-> e.id, client |-> Listen]} \cup {[id |-> e.id, client |-> g] : g \in e.clients}

(* Slots in the order of the endpoints, each one's own socket first; its
   clients in any order. *)
InOrder(q) ==
    /\ \A i, j \in 1..Len(q) : i < j => q[i].id[1] <= q[j].id[1]
    /\ \A i, j \in 1..Len(q) : i < j /\ q[i].id = q[j].id => q[j].client # Listen

Collect ==
    /\ poll = "collect" /\ mutex = "free"
    /\ LET all == UNION {SlotsOf(endpoints[i]) : i \in 1..Len(endpoints)}
       IN  slots' \in {q \in [1..Cardinality(all) -> all] :
                          InOrder(q) /\ {q[i] : i \in DOMAIN q} = all}
    /\ poll' = "polling"
    /\ UNCHANGED <<main, routerVars, mutex, todo, failed, toClose, up, netVars, downVars>>

(* What poll() reports for a slot. *)
Readable(s) ==
    IF s.client # Listen
    THEN net[s.client].st \in {"fin", "rst"} \/ net[s.client].inbox # <<>>
    ELSE \/ \E g \in Gcs : net[g].id = s.id /\ net[g].st = "pending"
         \/ \E g \in Gcs : dgram[g] = s.id
Hup(s) == s.client # Listen /\ net[s.client].st = "rst"

(* poll() returns at once when something is ready, else after 200 ms. *)
PollReturns ==
    /\ poll = "polling" /\ running
    /\ todo' = {i \in 1..Len(slots) : Readable(slots[i])}
    /\ failed' = {i \in 1..Len(slots) : Hup(slots[i])}
    /\ poll' = IF todo' = {} THEN "rebuild" ELSE "lock"
    /\ UNCHANGED <<main, routerVars, mutex, slots, toClose, up, netVars, downVars>>

Lock ==
    /\ poll = "lock" /\ mutex = "free"
    /\ mutex' = "poll"
    /\ poll' = "walk"
    /\ toClose' = {}
    /\ UNCHANGED <<main, routerVars, slots, todo, failed, up, netVars, downVars>>
-----------------------------------------------------------------------------
FramerPushUnbuffered(half, parts) ==
    [half |-> half, out |-> [i \in 1..Len(parts) |-> <<parts[i]>>]]

(* The framer of an endpoint: after a first part the next bytes complete a
   message, whatever they are; bytes that do not start one are skipped. *)
FramerPush(half, parts) ==
    LET f[i \in 0..Len(parts)] ==
          IF i = 0 THEN [half |-> half, out |-> <<>>]
          ELSE LET was == f[i - 1]
               IN  IF was.half # <<>>
                   THEN [half |-> <<>>, out |-> Append(was.out, Append(was.half, parts[i]))]
                   ELSE [half |-> IF parts[i].part = 1 THEN <<parts[i]>> ELSE <<>>,
                         out  |-> was.out]
    IN  f[Len(parts)]

(* HandleEndpointData on endpoint k, with the peer it has learned. *)
HandleEndpointData(k, parts, peer) ==
    LET f == FramerPush(endpoints[k].half, parts)
    IN  IF endpoints[k].cfg.uplink
        THEN /\ endpoints' = [endpoints EXCEPT ![k].half = f.half, ![k].peer = peer]
             /\ up' = f.out
        ELSE /\ endpoints' = [endpoints EXCEPT ![k].peer = peer]
             /\ UNCHANGED up

(* The next slot of the walk. *)
Current == CHOOSE i \in todo : \A j \in todo : i <= j
Here(s) == poll = "walk" /\ todo # {} /\ s = slots[Current] /\ Present(s.id)

WalkRest ==
    /\ todo' = todo \ {Current}
    /\ UNCHANGED <<main, running, configured, dirty, sets, starts, mutex, poll, slots, failed, down>>

(* A slot whose endpoint is gone is passed over, and so is one whose accept,
   recvfrom or recv fails: the connection or the datagram poll() reported may
   be gone, and so may the client since. *)
WalkPassOver ==
    LET s == slots[Current]
        broken == IF s.client = Listen THEN TRUE
                  ELSE net[s.client].st = "rst" /\ Current \notin failed
    IN  /\ poll = "walk" /\ todo # {}
        /\ Present(s.id) => broken
        /\ WalkRest
        /\ UNCHANGED <<endpoints, toClose, up, netVars, heard, accepted>>

(* recv of a client: its bytes, or the end of its stream. *)
WalkClient ==
    LET s == slots[Current]
        g == s.client
        k == IndexOf(s.id)
    IN  /\ Here(s) /\ g # Listen
        /\ net[g].st = "rst" => Current \in failed
        /\ IF Current \in failed \/ (net[g].st = "fin" /\ net[g].inbox = <<>>)
           THEN toClose' = toClose \cup {g} /\ UNCHANGED <<endpoints, up, net>>
           ELSE /\ HandleEndpointData(k, net[g].inbox, endpoints[k].peer)
                /\ net' = [net EXCEPT ![g].inbox = <<>>]
                /\ UNCHANGED toClose
        /\ WalkRest
        /\ UNCHANGED <<dgram, heard, accepted>>

WalkAccept ==
    \E id \in Ids, g \in Gcs :
      LET k == IndexOf(id)
      IN  /\ Here([id |-> id, client |-> Listen])
          /\ endpoints[k].cfg.kind = "tcp"
          /\ net[g].st = "pending" /\ net[g].id = id
          /\ net' = [net EXCEPT ![g].st = "open"]
          /\ endpoints' = [endpoints EXCEPT ![k].clients = @ \cup {g}]
          /\ accepted' = [accepted EXCEPT ![k] = IF @ = 0 THEN 1 ELSE 2]
          /\ WalkRest
          /\ UNCHANGED <<toClose, up, dgram, heard>>

LearnPeerAlways(e, g) == g

(* recvfrom: a UDP server learns the peer, from every datagram. *)
LearnPeer(e, g) == IF e.cfg.kind = "udpServer" THEN g ELSE e.peer

WalkDatagram ==
    \E id \in Ids, g \in Gcs :
      LET k == IndexOf(id)
          n == (net[g].sent + 1) \div 2
      IN  /\ Here([id |-> id, client |-> Listen])
          /\ endpoints[k].cfg.kind # "tcp"
          /\ dgram[g] = id
          /\ HandleEndpointData(k, [p \in 1..2 |-> [from |-> g, n |-> n, part |-> p]],
                                LearnPeer(endpoints[k], g))
          /\ dgram' = [dgram EXCEPT ![g] = NoId]
          /\ heard' = [heard EXCEPT ![k] = g]
          /\ WalkRest
          /\ UNCHANGED <<toClose, net, accepted>>

EndWalkKeepsClients ==
    /\ poll = "walk" /\ todo = {}
    /\ mutex' = "free"
    /\ poll' = "rebuild"
    /\ UNCHANGED <<main, routerVars, slots, todo, failed, toClose, up, netVars, downVars>>

EndWalkLeaksSockets ==
    /\ poll = "walk" /\ todo = {}
    /\ endpoints' = [i \in 1..Len(endpoints) |->
                        [endpoints[i] EXCEPT !.clients = @ \ toClose]]
    /\ mutex' = "free"
    /\ poll' = "rebuild"
    /\ UNCHANGED <<main, running, configured, dirty, sets, starts, slots, todo, failed,
                   toClose, up, netVars, downVars>>

(* The clients in to_close are closed, and the turn of the loop is over,
   with the vectors that live in it. *)
EndWalk ==
    /\ poll = "walk" /\ todo = {}
    /\ endpoints' = [i \in 1..Len(endpoints) |->
                        [endpoints[i] EXCEPT !.clients = @ \ toClose]]
    /\ net' = [g \in Gcs |-> IF g \in toClose THEN NoConnection(NextMessage(net[g].sent))
                             ELSE net[g]]
    /\ mutex' = "free"
    /\ poll' = "rebuild"
    /\ up' = <<>> /\ slots' = <<>> /\ failed' = {} /\ toClose' = {}
    /\ UNCHANGED <<main, running, configured, dirty, sets, starts, todo, dgram, downVars>>
-----------------------------------------------------------------------------
(* The receive thread: FeedDownlink sends what arrived to the clients of a
   TCP endpoint and to the peer of a UDP one, under the lock.  The source is
   stopped before the router is. *)
Recipients(e) == IF e.cfg.kind = "tcp" THEN e.clients ELSE {e.peer} \ {None}

FeedDownlink ==
    /\ running /\ mutex = "free"
    /\ mutex' = "rx"
    /\ down' = UNION {Recipients(endpoints[i]) : i \in 1..Len(endpoints)}
    /\ UNCHANGED <<main, routerVars, pollVars, netVars, heard, accepted>>

DownlinkFed ==
    /\ mutex = "rx"
    /\ mutex' = "free"
    /\ down' = {}
    /\ UNCHANGED <<main, routerVars, pollVars, netVars, heard, accepted>>
-----------------------------------------------------------------------------
(* The GCS side. *)
Connect(g, k) ==
    /\ endpoints[k].cfg.kind = "tcp"
    /\ net[g].st = "out" /\ dgram[g] = NoId
    /\ net[g].sent < 2 * MaxMsgs
    /\ net' = [net EXCEPT ![g] = [@ EXCEPT !.st = "pending", !.id = endpoints[k].id]]
    /\ UNCHANGED <<main, routerVars, mutex, pollVars, dgram, downVars>>

SendPart(g) ==
    /\ net[g].st \in {"pending", "open"}
    /\ net[g].sent < 2 * MaxMsgs
    /\ net' = [net EXCEPT ![g].sent = @ + 1,
                          ![g].inbox = Append(@, [from |-> g,
                                                  n |-> (net[g].sent \div 2) + 1,
                                                  part |-> (net[g].sent % 2) + 1])]
    /\ UNCHANGED <<main, routerVars, mutex, pollVars, dgram, downVars>>

Hangup(g) ==
    /\ net[g].st = "open"
    /\ net' \in {[net EXCEPT ![g].st = "fin"],
                 [net EXCEPT ![g] = [@ EXCEPT !.st = "rst", !.inbox = <<>>]]}
    /\ UNCHANGED <<main, routerVars, mutex, pollVars, dgram, downVars>>

(* A connection that breaks while it waits to be accepted leaves the queue. *)
Withdraw(g) ==
    /\ net[g].st = "pending"
    /\ net' = [net EXCEPT ![g] = NoConnection(NextMessage(net[g].sent))]
    /\ UNCHANGED <<main, routerVars, mutex, pollVars, dgram, downVars>>

SendDatagram(g, k) ==
    /\ endpoints[k].cfg.kind # "tcp"
    /\ net[g].st = "out" /\ dgram[g] = NoId
    /\ net[g].sent < 2 * MaxMsgs
    /\ dgram' = [dgram EXCEPT ![g] = endpoints[k].id]
    /\ net' = [net EXCEPT ![g].sent = @ + 2]
    /\ UNCHANGED <<main, routerVars, mutex, pollVars, downVars>>

GcsStep ==
    \E g \in Gcs :
        \/ \E k \in 1..Len(endpoints) : Connect(g, k) \/ SendDatagram(g, k)
        \/ SendPart(g)
        \/ Hangup(g) \/ Withdraw(g)
-----------------------------------------------------------------------------
MainStep == (\E c \in Configs : SetEndpoints(c)) \/ Start \/ Stop
PollStep ==
    \/ Rebuild \/ Leave \/ Collect \/ PollReturns \/ Lock
    \/ WalkPassOver \/ WalkClient \/ WalkAccept \/ WalkDatagram \/ EndWalk

Next == MainStep \/ Join \/ PollStep \/ FeedDownlink \/ DownlinkFed \/ GcsStep

Spec == Init /\ [][Next]_vars

(* The poll thread keeps running and gets the lock in the end, telemetry is
   sent in finite time, and Stop goes on once the poll thread has ended. *)
FairSpec ==
    /\ Spec
    /\ SF_vars(PollStep) /\ WF_vars(DownlinkFed) /\ WF_vars(Join)
-----------------------------------------------------------------------------
(* While the poll thread walks the slots it collected before it had the
   lock, every slot it still has to look at belongs to an endpoint that
   exists and to a client that is still one of it: no other thread takes an
   endpoint away ("the endpoint list must not be rebuilt underneath us",
   router.cpp:449-450). *)
SlotsValid ==
    poll = "walk" =>
        \A i \in todo :
            /\ Present(slots[i].id)
            /\ slots[i].client # Listen =>
                 slots[i].client \in endpoints[IndexOf(slots[i].id)].clients

(* Once Stop has returned no endpoint is left and no GCS is attached. *)
StoppedIsClosed ==
    main = "idle" /\ ~running =>
        /\ endpoints = <<>> /\ poll = "none" /\ mutex = "free"
        /\ \A g \in Gcs : net[g].st = "out" /\ dgram[g] = NoId

(* A connection the router holds belongs to exactly one endpoint object, and
   a connected GCS is never forgotten by a rebuild: the sockets and the
   endpoint lists agree. *)
ConnectionsAgree ==
    \A g \in Gcs : net[g].st \in {"open", "fin", "rst"} <=>
        \E i \in 1..Len(endpoints) :
            g \in endpoints[i].clients /\ net[g].id = endpoints[i].id

(* The two parts of one message of one GCS, in order. *)
IsMessage(m) ==
    /\ Len(m) = 2
    /\ m[1].from = m[2].from /\ m[1].n = m[2].n
    /\ m[1].part = 1 /\ m[2].part = 2

(* Only whole messages, as one GCS sent them, go up to the aircraft
   ("forwarding half a message would only be discarded by the aircraft",
   router.cpp:383-384; "TCP framing is per-connection", router.cpp:255). *)
UplinkWhole == \A m \in 1..Len(up) : IsMessage(up[m])

(* How much of that the one framer of an endpoint keeps (router.cpp:256,
   480): whatever the cuts TCP makes, the hang-ups and the other clients, of
   what one read sends up only the first message can be put together from
   parts that do not belong together, and on an endpoint that has accepted at
   most one connection since it was built not even that one. *)
MixedOnlyAtSeam ==
    [][up' # up =>
         /\ \A m \in 2..Len(up') : IsMessage(up'[m])
         /\ Len(up') > 0 /\ accepted[IndexOf(slots[Current].id)] <= 1 =>
              IsMessage(up'[1])]_vars

(* Telemetry goes to every GCS whose connection the router has accepted and
   not yet closed, to each fixed target that is served, on a UDP server to the
   one that spoke last (not the first one, see PeerKept), and to nobody else:
   "Forwards to every enabled endpoint" (mavlink_router.h:123), whatever was
   rebuilt or closed since. *)
DownlinkReaches ==
    mutex = "rx" =>
        down = {g \in Gcs : net[g].st \in {"open", "fin", "rst"}}
               \cup {heard[i] : i \in {k \in 1..Len(endpoints) :
                                         endpoints[k].cfg.kind = "udpServer" /\ heard[k] # None}}
               \cup {"fixed" : k \in {j \in 1..Len(endpoints) : endpoints[j].cfg.kind = "udpOut"}}

(* A UDP server keeps the peer it has learned: "learned on first receipt"
   (router.cpp:252), "learn the peer from its first packet" (config.h:74). *)
PeerKept ==
    [][\A k \in 1..Len(endpoints) :
         /\ endpoints[k].cfg.kind = "udpServer" /\ endpoints[k].peer # None
         /\ k \in 1..Len(endpoints') /\ endpoints'[k].id = endpoints[k].id
         => endpoints'[k].peer = endpoints[k].peer]_vars

CurrentConfig ==
    /\ Len(endpoints) = Len(Wanted)
    /\ \A i \in 1..Len(endpoints) : endpoints[i].cfg = Wanted[i]

(* As long as the router runs, what it serves becomes, again and again, what
   was last configured ("Replace the endpoint set. Safe to call while running;
   sockets are rebuilt", mavlink_router.h:115). *)
ConfigServed == []<>(CurrentConfig \/ ~running \/ poll = "exited")

(* The socket of a GCS that hung up is closed in the end. *)
HangupReaped ==
    \A g \in Gcs : net[g].st \in {"fin", "rst"} ~> (net[g].st = "out" \/ poll = "exited")
==============================================================================
