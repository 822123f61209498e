------------------------ MODULE MavlinkRouter_proofs ------------------------
(***************************************************************************)
(* Proofs about MavlinkRouter: the poll thread's list of sockets stays     *)
(* valid although it is collected before the lock is taken, sockets and    *)
(* endpoint lists agree, telemetry reaches whom it should, Stop leaves     *)
(* nothing behind, and an endpoint's framer mixes messages only where one  *)
(* connection follows another, for every set of stations and of            *)
(* configurations.                                                         *)
(***************************************************************************)
EXTENDS MavlinkRouter, FiniteSetTheorems, FunctionTheorems, SequenceTheorems,
        WellFoundedInduction, TLAPS

Config == [name : STRING, kind : {"tcp", "udpServer", "udpOut"}, uplink : BOOLEAN]
Held == {"open", "fin", "rst"}
Part == [from : Gcs, n : Nat, part : {1, 2}]
Connection == [st : {"out", "pending"} \cup Held, id : Nat \X Nat, inbox : Seq(Part), sent : Nat]
Shaped(e) ==
    e = [id |-> e.id, cfg |-> e.cfg, clients |-> e.clients, peer |-> e.peer, half |-> e.half]

(* The endpoint objects, each at the place its identity names. *)
EndpointsInv ==
    /\ Len(endpoints) \in Nat
    /\ endpoints = [i \in 1..Len(endpoints) |-> endpoints[i]]
    /\ \A i \in 1..Len(endpoints) :
          /\ Shaped(endpoints[i])
          /\ endpoints[i].id \in Nat \X Nat /\ endpoints[i].id[1] = i
          /\ endpoints[i].cfg \in Config
          /\ endpoints[i].clients \subseteq Gcs
          /\ endpoints[i].clients # {} => endpoints[i].cfg.kind = "tcp"

(* The sockets: a GCS is attached to an endpoint that exists, and an endpoint
   lists the stations it has accepted and only those. *)
NetInv ==
    /\ net \in [Gcs -> Connection] /\ dgram \in [Gcs -> Nat \X Nat]
    /\ \A g \in Gcs : net[g].st = "out" \/ net[g].id \in Ids
    /\ \A g \in Gcs : net[g].st \in Held =>
          \E i \in 1..Len(endpoints) : net[g].id = endpoints[i].id /\ g \in endpoints[i].clients
    /\ \A i \in 1..Len(endpoints) : \A g \in endpoints[i].clients :
          net[g].st \in Held /\ net[g].id = endpoints[i].id

(* A UDP server sends to the station it heard last. *)
PeerInv ==
    /\ heard \in [1..Len(endpoints) -> Gcs \cup {None}]
    /\ \A i \in 1..Len(endpoints) :
          /\ endpoints[i].cfg.kind = "udpServer" => endpoints[i].peer = heard[i]
          /\ endpoints[i].cfg.kind = "udpOut" => endpoints[i].peer = "fixed"

(* Who holds the lock, which threads there are, and what is left when they
   are gone. *)
PhaseInv ==
    /\ main \in {"idle", "join"}
    /\ mutex \in {"free", "poll", "rx"}
    /\ mutex = "poll" <=> poll = "walk"
    /\ running => main = "idle" /\ poll # "none"
    /\ configured \in Seq(Config) /\ sets \in Nat
    /\ StoppedIsClosed

(* The slots collected before poll() stay valid until the walk is over: each
   is that of an endpoint, or of one of its clients. *)
ValidSlot(s) ==
    \E k \in 1..Len(endpoints) :
        s.id = endpoints[k].id /\ (s.client # Listen => s.client \in endpoints[k].clients)
SlotsInv ==
    /\ poll \in {"polling", "lock", "walk"} => \A i \in 1..Len(slots) : ValidSlot(slots[i])
    /\ poll \in {"lock", "walk"} => todo \subseteq 1..Len(slots)

RouterInv ==
    EndpointsInv /\ NetInv /\ PeerInv /\ PhaseInv /\ SlotsInv /\ DownlinkReaches
-----------------------------------------------------------------------------
(* The natural numbers are well founded. *)
LEMMA LeastNatural ==
  ASSUME NEW T \in SUBSET Nat, T # {}
  PROVE  \E x \in T : \A y \in T : x <= y
<1> DEFINE R == OpToRel(<, Nat)
<1>1. IsWellFoundedOn(R, Nat) BY NatLessThanWellFounded, Zenon
<1>2. \A x, y \in Nat : <<y, x>> \in R <=> y < x BY DEF OpToRel
<1> HIDE DEF R
<1>3. PICK x \in T : \A y \in T : ~(<<y, x>> \in R) BY <1>1, WFMin, Zenon
<1>4. \A y \in T : ~(y < x) BY <1>2, <1>3
<1> QED BY <1>4

(* A set of places has a k-th one, for every k up to its size. *)
Before(B, i) == {j \in B : j < i}

LEMMA KthExists ==
  ASSUME NEW n \in Nat, NEW B \in SUBSET (1..n), NEW k \in 1..Cardinality(B)
  PROVE  \E i \in B : Cardinality(Before(B, i)) = k - 1
<1>0. \A j \in B : j \in Int /\ 1 <= j /\ j <= n OBVIOUS
<1>1. IsFiniteSet(B) /\ Cardinality(B) \in Nat
  <2>1. IsFiniteSet(1..n) BY FS_Interval
  <2>2. IsFiniteSet(B) BY <2>1, FS_Subset
  <2> QED BY <2>2, FS_CardinalityType
<1>2. \A i : IsFiniteSet(Before(B, i)) /\ Cardinality(Before(B, i)) \in Nat
  <2>1. \A i : Before(B, i) \in SUBSET B BY DEF Before
  <2> QED BY <1>1, <2>1, FS_Subset, FS_CardinalityType
<1> DEFINE T == {i \in Nat : Cardinality(Before(B, i)) >= k}
<1>3. n + 1 \in T
  <2>0. \A j \in B : j < n + 1 BY <1>0
  <2>1. Before(B, n + 1) = B BY <2>0, Zenon DEF Before
  <2> QED BY <1>1, <2>1
<1>4. PICK x \in T : \A y \in T : x <= y BY <1>3, LeastNatural
<1>5. x \in Nat /\ Cardinality(Before(B, x)) >= k BY <1>4
<1>6. x # 0
  <2>0. \A j \in B : ~(j < 0) BY <1>0
  <2>1. Before(B, 0) = {} BY <2>0, Zenon DEF Before
  <2>2. Cardinality({}) = 0 BY FS_EmptySet
  <2> QED BY <1>1, <1>5, <2>1, <2>2
<1>7. PICK y \in Nat : x = y + 1 BY <1>5, <1>6
<1>8. Cardinality(Before(B, y)) < k
  <2>1. y \notin T BY <1>4, <1>5, <1>7
  <2> QED BY <1>1, <1>2, <2>1
<1>9. CASE y \in B
  <2>0. \A j \in B : (j < x <=> j < y \/ j = y) BY <1>0, <1>7
  <2>1. Before(B, x) = Before(B, y) \cup {y} BY <1>9, <2>0, Zenon DEF Before
  <2>2. y \notin Before(B, y)
    <3>1. ~(y < y) OBVIOUS
    <3> QED BY <3>1, Zenon DEF Before
  <2>3. Cardinality(Before(B, x)) = Cardinality(Before(B, y)) + 1
    BY <1>2, <2>1, <2>2, FS_AddElement
  <2>4. Cardinality(Before(B, y)) = k - 1 BY <1>1, <1>2, <1>5, <1>8, <2>3
  <2> QED BY <1>9, <2>4
<1>10. CASE y \notin B
  <2>0. \A j \in B : (j < x <=> j < y) BY <1>0, <1>7, <1>10
  <2>1. Before(B, x) = Before(B, y) BY <2>0, Zenon DEF Before
  <2> QED BY <1>1, <1>2, <1>5, <1>8, <2>1
<1> QED BY <1>9, <1>10

(* What is served is a sequence of configured endpoints. *)
LEMMA WantedFacts ==
  ASSUME configured \in Seq(Config)
  PROVE  /\ Len(Wanted) \in Nat
         /\ \A k \in 1..Len(Wanted) :
               Wanted[k] \in Config /\ \E j \in 1..Len(configured) : Wanted[k] = configured[j]
<1>1. Len(configured) \in Nat /\ Served \in SUBSET (1..Len(configured)) BY DEF Served
<1>2. PICK c : c = Cardinality(Served) OBVIOUS
<1>3. c \in Nat
  <2>1. IsFiniteSet(1..Len(configured)) BY <1>1, FS_Interval
  <2>2. IsFiniteSet(Served) BY <1>1, <2>1, FS_Subset
  <2> QED BY <1>2, <2>2, FS_CardinalityType
<1> DEFINE Pick(k) == CHOOSE i \in Served : Cardinality(Before(Served, i)) = k - 1
<1>4. ASSUME NEW k \in 1..c PROVE Pick(k) \in Served
  <2>1. \E i \in Served : Cardinality(Before(Served, i)) = k - 1
    BY <1>1, <1>2, KthExists
  <2> QED BY <2>1, Zenon
<1>5. Wanted = [k \in 1..c |-> configured[Pick(k)]] BY <1>2, Zenon DEF Wanted, Before
<1> HIDE DEF Pick
<1>6. Len(Wanted) = c BY <1>3, <1>5
<1>7. ASSUME NEW k \in 1..c
      PROVE  Wanted[k] \in Config /\ \E j \in 1..Len(configured) : Wanted[k] = configured[j]
  <2>1. Wanted[k] = configured[Pick(k)] BY <1>5
  <2>2. Pick(k) \in 1..Len(configured) BY <1>1, <1>4
  <2> QED BY <2>1, <2>2
<1> QED BY <1>3, <1>6, <1>7

(* The identity of an endpoint object names its place. *)
LEMMA IndexFacts ==
  ASSUME EndpointsInv
  PROVE  /\ \A k \in 1..Len(endpoints) :
               Present(endpoints[k].id) /\ IndexOf(endpoints[k].id) = k
         /\ \A id \in Ids : /\ IndexOf(id) \in 1..Len(endpoints)
                            /\ endpoints[IndexOf(id)].id = id
<1>1. ASSUME NEW k \in 1..Len(endpoints)
      PROVE  Present(endpoints[k].id) /\ IndexOf(endpoints[k].id) = k
  <2>1. \A i \in 1..Len(endpoints) : endpoints[i].id = endpoints[k].id => i = k
    BY DEF EndpointsInv
  <2> QED BY <2>1 DEF Present, IndexOf
<1> QED BY <1>1 DEF Ids

(* Closing the endpoints leaves no station attached. *)
LEMMA DroppedFacts ==
  ASSUME NetInv
  PROVE  /\ Dropped(Ids) \in [Gcs -> Connection]
         /\ \A g \in Gcs : Dropped(Ids)[g].st = "out"
<1>1. ASSUME NEW g \in Gcs
      PROVE  Dropped(Ids)[g] \in Connection /\ Dropped(Ids)[g].st = "out"
  <2>1. net[g] \in Connection /\ net[g].sent \in Nat BY DEF NetInv, Connection
  <2>2. NextMessage(net[g].sent) \in Nat BY <2>1 DEF NextMessage
  <2>3. NoConnection(NextMessage(net[g].sent)) \in Connection
    BY <2>2 DEF NoConnection, Connection, NoId
  <2>4. CASE net[g].id \in Ids
    <3>1. Dropped(Ids)[g] = NoConnection(NextMessage(net[g].sent)) BY <2>4 DEF Dropped
    <3> QED BY <2>3, <3>1 DEF NoConnection
  <2>5. CASE net[g].id \notin Ids
    <3>1. Dropped(Ids)[g] = net[g] BY <2>5 DEF Dropped
    <3> QED BY <2>1, <2>5, <3>1 DEF NetInv
  <2> QED BY <2>4, <2>5
<1>2. Dropped(Ids) = [g \in Gcs |-> Dropped(Ids)[g]] BY DEF Dropped
<1> QED BY <1>1, <1>2
-----------------------------------------------------------------------------
(* What the endpoint list keeps when the objects in it are changed. *)
SamePlaces ==
    /\ Len(endpoints') = Len(endpoints)
    /\ \A i \in 1..Len(endpoints) :
          endpoints'[i].id = endpoints[i].id /\ endpoints'[i].cfg = endpoints[i].cfg

LEMMA EndpointChanged ==
  ASSUME EndpointsInv, NEW k \in 1..Len(endpoints), NEW e, Shaped(e),
         e.id = endpoints[k].id, e.cfg = endpoints[k].cfg, e.clients \subseteq Gcs,
         e.clients # {} => e.cfg.kind = "tcp",
         endpoints' = [endpoints EXCEPT ![k] = e]
  PROVE  /\ EndpointsInv' /\ SamePlaces /\ endpoints'[k] = e
         /\ \A i \in 1..Len(endpoints) : i # k => endpoints'[i] = endpoints[i]
<1>1. PICK n \in Nat : n = Len(endpoints) /\ endpoints = [i \in 1..n |-> endpoints[i]]
  BY DEF EndpointsInv
<1>2. endpoints' = [i \in 1..n |-> IF i = k THEN e ELSE endpoints[i]] BY <1>1
<1>3. Len(endpoints') = n BY <1>1, <1>2
<1>4. /\ endpoints'[k] = e
      /\ \A i \in 1..n : i # k => endpoints'[i] = endpoints[i]
  BY <1>1, <1>2
<1>5. endpoints' = [i \in 1..Len(endpoints') |-> endpoints'[i]] BY <1>2, <1>3
<1>6. SamePlaces BY <1>1, <1>3, <1>4 DEF SamePlaces
<1>7. ASSUME NEW i \in 1..n
      PROVE  /\ Shaped(endpoints'[i])
             /\ endpoints'[i].id \in Nat \X Nat /\ endpoints'[i].id[1] = i
             /\ endpoints'[i].cfg \in Config
             /\ endpoints'[i].clients \subseteq Gcs
             /\ endpoints'[i].clients # {} => endpoints'[i].cfg.kind = "tcp"
  <2>1. CASE i = k BY <1>1, <1>4, <2>1 DEF EndpointsInv
  <2>2. CASE i # k BY <1>1, <1>4, <2>2 DEF EndpointsInv
  <2> QED BY <2>1, <2>2
<1>8. EndpointsInv' BY <1>1, <1>3, <1>5, <1>7 DEF EndpointsInv
<1> QED BY <1>1, <1>4, <1>6, <1>8

LEMMA IdsKept ==
  ASSUME SamePlaces
  PROVE  Ids' = Ids
BY DEF SamePlaces, Ids

(* An object whose framer and peer change keeps its clients. *)
LEMMA DataHandled ==
  ASSUME EndpointsInv, NEW k \in 1..Len(endpoints), NEW parts, NEW peer,
         HandleEndpointData(k, parts, peer)
  PROVE  /\ EndpointsInv' /\ SamePlaces
         /\ \A i \in 1..Len(endpoints) :
               /\ endpoints'[i].clients = endpoints[i].clients
               /\ endpoints'[i].peer = IF i = k THEN peer ELSE endpoints[i].peer
               /\ endpoints'[i].half = IF i = k /\ endpoints[k].cfg.uplink
                                       THEN FramerPush(endpoints[k].half, parts).half
                                       ELSE endpoints[i].half
<1>1. PICK half :
         \/ /\ endpoints' = [endpoints EXCEPT ![k].half = half, ![k].peer = peer]
            /\ endpoints[k].cfg.uplink /\ half = FramerPush(endpoints[k].half, parts).half
         \/ /\ endpoints' = [endpoints EXCEPT ![k].peer = peer]
            /\ ~endpoints[k].cfg.uplink
  BY Zenon DEF HandleEndpointData
<1>2. PICK old : old = endpoints[k] OBVIOUS
<1>3. /\ Shaped(old) /\ old.clients \subseteq Gcs
      /\ old.clients # {} => old.cfg.kind = "tcp"
      /\ endpoints = [i \in 1..Len(endpoints) |-> endpoints[i]]
  BY <1>2 DEF EndpointsInv
<1>4. PICK h : /\ endpoints' = [endpoints EXCEPT ![k] =
                    [id |-> old.id, cfg |-> old.cfg, clients |-> old.clients,
                     peer |-> peer, half |-> h]]
               /\ h = IF endpoints[k].cfg.uplink
                      THEN FramerPush(endpoints[k].half, parts).half ELSE old.half
  <2>1. CASE /\ endpoints' = [endpoints EXCEPT ![k].half = half, ![k].peer = peer]
             /\ endpoints[k].cfg.uplink /\ half = FramerPush(endpoints[k].half, parts).half
    <3>1. endpoints' = [endpoints EXCEPT ![k] =
            [id |-> old.id, cfg |-> old.cfg, clients |-> old.clients,
             peer |-> peer, half |-> half]]
      <4>1. [[old EXCEPT !.half = half] EXCEPT !.peer = peer] =
               [id |-> old.id, cfg |-> old.cfg, clients |-> old.clients,
                peer |-> peer, half |-> half]
        <5>1. PICK a, b, c, d, w : old = [id |-> a, cfg |-> b, clients |-> c,
                                          peer |-> d, half |-> w]
          BY <1>3, Zenon DEF Shaped
        <5>2. PICK mid : mid = [old EXCEPT !.half = half] OBVIOUS
        <5>3. mid = [id |-> a, cfg |-> b, clients |-> c, peer |-> d, half |-> half]
          BY <5>1, <5>2
        <5>4. [mid EXCEPT !.peer = peer] =
                 [id |-> a, cfg |-> b, clients |-> c, peer |-> peer, half |-> half]
          BY <5>3
        <5> QED BY <5>1, <5>2, <5>4
      <4>2. endpoints' = [endpoints EXCEPT
                            ![k] = [[old EXCEPT !.half = half] EXCEPT !.peer = peer]]
        BY <1>2, <1>3, <2>1
      <4> QED BY <4>1, <4>2
    <3> QED BY <2>1, <3>1
  <2>2. CASE /\ endpoints' = [endpoints EXCEPT ![k].peer = peer]
             /\ ~endpoints[k].cfg.uplink
    <3>1. endpoints' = [endpoints EXCEPT ![k] =
            [id |-> old.id, cfg |-> old.cfg, clients |-> old.clients,
             peer |-> peer, half |-> old.half]]
      <4>1. [old EXCEPT !.peer = peer] =
               [id |-> old.id, cfg |-> old.cfg, clients |-> old.clients,
                peer |-> peer, half |-> old.half]
        <5>1. PICK a, b, c, d, w : old = [id |-> a, cfg |-> b, clients |-> c,
                                          peer |-> d, half |-> w]
          BY <1>3, Zenon DEF Shaped
        <5> QED BY <5>1
      <4>2. endpoints' = [endpoints EXCEPT ![k] = [old EXCEPT !.peer = peer]]
        BY <1>2, <1>3, <2>2
      <4> QED BY <4>1, <4>2
    <3> QED BY <2>2, <3>1
  <2> QED BY <1>1, <2>1, <2>2
<1>5. PICK e : e = [id |-> old.id, cfg |-> old.cfg, clients |-> old.clients,
                    peer |-> peer, half |-> h]
  OBVIOUS
<1>6. Shaped(e) /\ e.id = old.id /\ e.cfg = old.cfg /\ e.clients = old.clients
      /\ e.peer = peer /\ e.half = h
  BY <1>5 DEF Shaped
<1>7. /\ EndpointsInv' /\ SamePlaces /\ endpoints'[k] = e
      /\ \A i \in 1..Len(endpoints) : i # k => endpoints'[i] = endpoints[i]
  BY <1>2, <1>3, <1>4, <1>5, <1>6, EndpointChanged
<1>8. ASSUME NEW i \in 1..Len(endpoints)
      PROVE  /\ endpoints'[i].clients = endpoints[i].clients
             /\ endpoints'[i].peer = IF i = k THEN peer ELSE endpoints[i].peer
             /\ endpoints'[i].half = IF i = k /\ endpoints[k].cfg.uplink
                                     THEN FramerPush(endpoints[k].half, parts).half
                                     ELSE endpoints[i].half
  <2>1. CASE i = k BY <1>2, <1>4, <1>6, <1>7, <2>1
  <2>2. CASE i # k BY <1>7, <2>2
  <2> QED BY <2>1, <2>2
<1> QED BY <1>7, <1>8

(* When no object's clients and no station's connection state change, the
   sockets and the lists still agree. *)
LEMMA NetKept ==
  ASSUME NetInv, EndpointsInv, SamePlaces,
         \A i \in 1..Len(endpoints) : endpoints'[i].clients = endpoints[i].clients,
         net' \in [Gcs -> Connection], dgram' \in [Gcs -> Nat \X Nat],
         \A g \in Gcs : /\ net'[g].st \in Held <=> net[g].st \in Held
                        /\ net'[g].id = net[g].id \/ net[g].st \notin Held
                        /\ net'[g].st # "out" => net'[g].id \in Ids
  PROVE  NetInv'
<1>1. Ids' = Ids BY IdsKept
<1>2. \A g \in Gcs : net'[g].st = "out" \/ net'[g].id \in Ids' BY <1>1
<1>3. ASSUME NEW g \in Gcs, net'[g].st \in Held
      PROVE  \E i \in 1..Len(endpoints') :
                net'[g].id = endpoints'[i].id /\ g \in endpoints'[i].clients
  <2>1. net[g].st \in Held /\ net'[g].id = net[g].id BY <1>3
  <2>2. PICK i \in 1..Len(endpoints) : net[g].id = endpoints[i].id /\ g \in endpoints[i].clients
    BY <2>1 DEF NetInv
  <2> QED BY <2>1, <2>2 DEF SamePlaces
<1>4. ASSUME NEW i \in 1..Len(endpoints'), NEW g \in endpoints'[i].clients
      PROVE  net'[g].st \in Held /\ net'[g].id = endpoints'[i].id
  <2>1. i \in 1..Len(endpoints) /\ g \in endpoints[i].clients BY <1>4 DEF SamePlaces
  <2>2. g \in Gcs /\ net[g].st \in Held /\ net[g].id = endpoints[i].id
    BY <2>1 DEF NetInv, EndpointsInv
  <2> QED BY <2>1, <2>2 DEF SamePlaces
<1> QED BY <1>2, <1>3, <1>4 DEF NetInv
-----------------------------------------------------------------------------
(* Steps that leave the endpoints and the network alone. *)
LEMMA NothingTouched ==
  ASSUME EndpointsInv, NetInv, PeerInv, UNCHANGED <<endpoints, net, dgram, heard>>
  PROVE  EndpointsInv' /\ NetInv' /\ PeerInv'
<1>1. EndpointsInv' BY DEF EndpointsInv
<1>2. NetInv' BY DEF NetInv, Ids
<1>3. PeerInv' BY DEF PeerInv
<1> QED BY <1>1, <1>2, <1>3

LEMMA SlotsKept ==
  ASSUME SlotsInv, UNCHANGED <<endpoints, slots, todo, poll>>
  PROVE  SlotsInv'
BY DEF SlotsInv, ValidSlot

LEMMA DownKept ==
  ASSUME DownlinkReaches,
         mutex' = "rx" =>
            /\ mutex = "rx" /\ UNCHANGED <<endpoints, heard, down>>
            /\ \A g \in Gcs : net'[g].st \in Held <=> net[g].st \in Held
  PROVE  DownlinkReaches'
<1> SUFFICES ASSUME mutex' = "rx" PROVE DownlinkReaches' BY DEF DownlinkReaches
<1>1. mutex = "rx" /\ UNCHANGED <<endpoints, heard, down>> OBVIOUS
<1>2. {g \in Gcs : net'[g].st \in Held} = {g \in Gcs : net[g].st \in Held} OBVIOUS
<1> QED BY <1>1, <1>2 DEF DownlinkReaches, Held

LEMMA MainPreserves ==
  ASSUME RouterInv, MainStep
  PROVE  RouterInv'
<1>1. EndpointsInv' /\ NetInv' /\ PeerInv'
  BY NothingTouched DEF RouterInv, MainStep, SetEndpoints, Start, Stop, netVars, downVars
<1>2. ASSUME NEW c \in Configs, SetEndpoints(c) PROVE PhaseInv' /\ SlotsInv'
  <2>1. c \in Seq(Config) BY RouterAssumption DEF Config
  <2>2. configured' \in Seq(Config) /\ sets' \in Nat
    BY <1>2, <2>1 DEF RouterInv, PhaseInv, SetEndpoints
  <2>3. SlotsInv' BY <1>2, SlotsKept DEF RouterInv, SetEndpoints, pollVars
  <2> QED BY <1>2, <2>2, <2>3 DEF RouterInv, PhaseInv, StoppedIsClosed, SetEndpoints,
          pollVars, netVars
<1>3. ASSUME Start PROVE PhaseInv' /\ SlotsInv'
  BY <1>3 DEF RouterInv, PhaseInv, SlotsInv, StoppedIsClosed, Start, netVars
<1>4. ASSUME Stop PROVE PhaseInv' /\ SlotsInv'
  <2>1. SlotsInv' BY <1>4, SlotsKept DEF RouterInv, Stop, pollVars
  <2> QED BY <1>4, <2>1 DEF RouterInv, PhaseInv, StoppedIsClosed, Stop, netVars, pollVars
<1>5. DownlinkReaches'
  BY DownKept DEF RouterInv, MainStep, SetEndpoints, Start, Stop, netVars, downVars
<1> QED BY <1>1, <1>2, <1>3, <1>4, <1>5 DEF RouterInv, MainStep

(* The slots the poll thread collects are those of the endpoints and of
   their clients, and finitely many. *)
LEMMA SlotsFinite ==
  ASSUME EndpointsInv
  PROVE  LET all == UNION {SlotsOf(endpoints[i]) : i \in 1..Len(endpoints)}
         IN  Cardinality(all) \in Nat
<1>1. PICK n \in Nat : n = Len(endpoints) BY DEF EndpointsInv
<1> DEFINE all == UNION {SlotsOf(endpoints[i]) : i \in 1..Len(endpoints)}
           S == (1..n) \X (Gcs \cup {Listen})
           f == [x \in S |-> [id |-> endpoints[x[1]].id, client |-> x[2]]]
           T == {f[x] : x \in S}
<1>2. IsFiniteSet(S)
  <2>1. IsFiniteSet(Gcs) BY RouterAssumption
  <2>2. IsFiniteSet(Gcs \cup {Listen}) BY <2>1, FS_AddElement
  <2>3. IsFiniteSet(1..n) BY FS_Interval
  <2> QED BY <2>2, <2>3, FS_Product
<1>3. f \in Surjection(S, T) BY DEF Surjection
<1> HIDE DEF S, f
<1>4. IsFiniteSet(T) BY <1>2, <1>3, FS_Surjection
<1>5. all \in SUBSET T
  <2> SUFFICES ASSUME NEW i \in 1..n, NEW s \in SlotsOf(endpoints[i]) PROVE s \in T
    BY <1>1
  <2>1. PICK c \in Gcs \cup {Listen} : s = [id |-> endpoints[i].id, client |-> c]
    BY <1>1 DEF SlotsOf, EndpointsInv
  <2>2. <<i, c>> \in S /\ f[<<i, c>>] = s BY <2>1 DEF S, f
  <2> QED BY <2>2
<1>6. IsFiniteSet(all) BY <1>4, <1>5, FS_Subset
<1> QED BY <1>6, FS_CardinalityType

LEMMA CollectPreserves ==
  ASSUME RouterInv, Collect
  PROVE  RouterInv'
<1> DEFINE all == UNION {SlotsOf(endpoints[i]) : i \in 1..Len(endpoints)}
<1>1. EndpointsInv' /\ NetInv' /\ PeerInv'
  BY NothingTouched DEF RouterInv, Collect, routerVars, netVars, downVars
<1>2. slots' \in [1..Cardinality(all) -> all] BY DEF Collect
<1>3. Cardinality(all) \in Nat BY SlotsFinite DEF RouterInv
<1>4. \A s \in all : ValidSlot(s)
  BY DEF SlotsOf, ValidSlot
<1> HIDE DEF all
<1>5. \A i \in 1..Len(slots') : ValidSlot(slots'[i]) BY <1>2, <1>3, <1>4
<1>6. SlotsInv'
  BY <1>5 DEF SlotsInv, ValidSlot, Collect, routerVars
<1>7. PhaseInv'
  BY DEF RouterInv, PhaseInv, StoppedIsClosed, Collect, routerVars, netVars
<1>8. DownlinkReaches'
  BY DownKept DEF RouterInv, Collect, routerVars, netVars, downVars
<1> QED BY <1>1, <1>6, <1>7, <1>8 DEF RouterInv

LEMMA PollPreserves ==
  ASSUME RouterInv, Leave \/ PollReturns \/ Lock
  PROVE  RouterInv'
<1>1. EndpointsInv' /\ NetInv' /\ PeerInv'
  BY NothingTouched DEF RouterInv, Leave, PollReturns, Lock, routerVars, netVars, downVars
<1>2. ASSUME Leave PROVE PhaseInv' /\ SlotsInv'
  BY <1>2 DEF RouterInv, PhaseInv, SlotsInv, StoppedIsClosed, Leave, routerVars, netVars
<1>3. ASSUME PollReturns PROVE PhaseInv' /\ SlotsInv'
  <2>1. poll' \in {"rebuild", "lock"} /\ todo' \subseteq 1..Len(slots)
        /\ UNCHANGED <<endpoints, slots>>
    BY <1>3 DEF PollReturns, routerVars
  <2>2. SlotsInv' BY <1>3, <2>1 DEF RouterInv, SlotsInv, ValidSlot, PollReturns
  <2> QED BY <1>3, <2>1, <2>2 DEF RouterInv, PhaseInv, StoppedIsClosed, PollReturns,
          routerVars, netVars
<1>4. ASSUME Lock PROVE PhaseInv' /\ SlotsInv'
  <2>1. SlotsInv' BY <1>4 DEF RouterInv, SlotsInv, ValidSlot, Lock, routerVars
  <2> QED BY <1>4, <2>1 DEF RouterInv, PhaseInv, StoppedIsClosed, Lock, routerVars, netVars
<1>5. DownlinkReaches'
  BY DownKept DEF RouterInv, Leave, PollReturns, Lock, routerVars, netVars, downVars
<1> QED BY <1>1, <1>2, <1>3, <1>4, <1>5 DEF RouterInv

(* Whom telemetry goes to, seen from the sockets. *)
Reached ==
    {g \in Gcs : net[g].st \in Held}
    \cup {heard[i] : i \in {k \in 1..Len(endpoints) :
                              endpoints[k].cfg.kind = "udpServer" /\ heard[k] # None}}
    \cup {"fixed" : k \in {j \in 1..Len(endpoints) : endpoints[j].cfg.kind = "udpOut"}}

LEMMA RecipientsReached ==
  ASSUME EndpointsInv, NetInv, PeerInv
  PROVE  UNION {Recipients(endpoints[i]) : i \in 1..Len(endpoints)} = Reached
<1>1. ASSUME NEW i \in 1..Len(endpoints), NEW x \in Recipients(endpoints[i])
      PROVE  x \in Reached
  <2>1. endpoints[i].cfg.kind \in {"tcp", "udpServer", "udpOut"}
    BY DEF EndpointsInv, Config
  <2>2. CASE endpoints[i].cfg.kind = "tcp"
    <3>1. x \in endpoints[i].clients BY <2>2 DEF Recipients
    <3>2. x \in Gcs /\ net[x].st \in Held BY <3>1 DEF EndpointsInv, NetInv
    <3> QED BY <3>2 DEF Reached
  <2>3. CASE endpoints[i].cfg.kind = "udpServer"
    <3>1. x = heard[i] /\ x # None BY <2>3 DEF Recipients, PeerInv
    <3> QED BY <2>3, <3>1 DEF Reached
  <2>4. CASE endpoints[i].cfg.kind = "udpOut"
    <3>1. x = "fixed" BY <2>4 DEF Recipients, PeerInv
    <3> QED BY <2>4, <3>1 DEF Reached
  <2> QED BY <2>1, <2>2, <2>3, <2>4
<1>2. ASSUME NEW x \in Reached
      PROVE  \E i \in 1..Len(endpoints) : x \in Recipients(endpoints[i])
  <2>1. CASE x \in Gcs /\ net[x].st \in Held
    <3>1. PICK i \in 1..Len(endpoints) : x \in endpoints[i].clients BY <2>1 DEF NetInv
    <3>2. endpoints[i].cfg.kind = "tcp" BY <3>1 DEF EndpointsInv
    <3> QED BY <3>1, <3>2 DEF Recipients
  <2>2. ASSUME NEW i \in 1..Len(endpoints), endpoints[i].cfg.kind = "udpServer",
               heard[i] # None, x = heard[i]
        PROVE  x \in Recipients(endpoints[i])
    BY <2>2 DEF Recipients, PeerInv
  <2>3. ASSUME NEW i \in 1..Len(endpoints), endpoints[i].cfg.kind = "udpOut", x = "fixed"
        PROVE  x \in Recipients(endpoints[i])
    BY <2>3 DEF Recipients, PeerInv, None
  <2> QED BY <2>1, <2>2, <2>3 DEF Reached
<1> QED BY <1>1, <1>2

LEMMA DownlinkPreserves ==
  ASSUME RouterInv, FeedDownlink \/ DownlinkFed
  PROVE  RouterInv'
<1>1. EndpointsInv' /\ NetInv' /\ PeerInv'
  BY NothingTouched DEF RouterInv, FeedDownlink, DownlinkFed, routerVars, netVars
<1>2. SlotsInv'
  BY SlotsKept DEF RouterInv, FeedDownlink, DownlinkFed, routerVars, pollVars
<1>3. PhaseInv'
  BY DEF RouterInv, PhaseInv, StoppedIsClosed, FeedDownlink, DownlinkFed,
         routerVars, pollVars, netVars
<1>4. ASSUME FeedDownlink PROVE DownlinkReaches'
  <2>1. down' = Reached BY <1>4, RecipientsReached DEF RouterInv, FeedDownlink
  <2>2. UNCHANGED <<endpoints, net, heard>> BY <1>4 DEF FeedDownlink, routerVars, netVars
  <2> QED BY <2>1, <2>2 DEF DownlinkReaches, Reached, Held
<1>5. ASSUME DownlinkFed PROVE DownlinkReaches'
  BY <1>5, DownKept DEF RouterInv, DownlinkFed
<1> QED BY <1>1, <1>2, <1>3, <1>4, <1>5 DEF RouterInv

(* Rebuilding or closing the endpoints leaves no station attached. *)
LEMMA EmptiedAgrees ==
  ASSUME net' \in [Gcs -> Connection], \A g \in Gcs : net'[g].st = "out",
         dgram' = [g \in Gcs |-> NoId],
         \A i \in 1..Len(endpoints') : endpoints'[i].clients = {}
  PROVE  NetInv'
<1>1. dgram' \in [Gcs -> Nat \X Nat] BY DEF NoId
<1> QED BY <1>1 DEF NetInv, Held

LEMMA RebuildPreserves ==
  ASSUME RouterInv, Rebuild
  PROVE  RouterInv'
<1>1. PhaseInv'
  BY DEF RouterInv, PhaseInv, StoppedIsClosed, Rebuild
<1>2. SlotsInv' BY DEF SlotsInv, Rebuild
<1>3. DownlinkReaches' BY DownKept DEF RouterInv, Rebuild
<1>4. CASE ~dirty
  <2>1. UNCHANGED <<endpoints, net, dgram, heard>> BY <1>4 DEF Rebuild, RebuildEndpoints
  <2> QED BY <1>1, <1>2, <1>3, <2>1, NothingTouched DEF RouterInv
<1>5. CASE dirty
  <2>1. PICK n \in Nat : n = Len(Wanted) /\ \A i \in 1..n : Wanted[i] \in Config
    BY WantedFacts DEF RouterInv, PhaseInv
  <2>2. /\ endpoints' = [i \in 1..n |-> Object(Wanted[i], i)]
        /\ heard' = [i \in 1..n |-> None]
        /\ net' = Dropped(Ids) /\ dgram' = [g \in Gcs |-> NoId]
    BY <1>5, <2>1 DEF Rebuild, RebuildEndpoints
  <2>3. Len(endpoints') = n BY <2>2
  <2>4. ASSUME NEW i \in 1..n
        PROVE  /\ Shaped(endpoints'[i])
               /\ endpoints'[i].id \in Nat \X Nat /\ endpoints'[i].id[1] = i
               /\ endpoints'[i].cfg = Wanted[i] /\ endpoints'[i].clients = {}
               /\ endpoints'[i].peer = IF Wanted[i].kind = "udpOut" THEN "fixed" ELSE None
    <3>1. endpoints'[i] = Object(Wanted[i], i) BY <2>2
    <3>2. sets \in Nat /\ i \in Nat BY DEF RouterInv, PhaseInv
    <3>3. <<i, sets>> \in Nat \X Nat /\ <<i, sets>>[1] = i BY <3>2
    <3> QED BY <3>1, <3>3 DEF Object, Shaped
  <2>5. endpoints' = [i \in 1..Len(endpoints') |-> endpoints'[i]] BY <2>2, <2>3
  <2>6. EndpointsInv' BY <2>1, <2>3, <2>4, <2>5 DEF EndpointsInv
  <2>7. NetInv' BY <2>2, <2>3, <2>4, DroppedFacts, EmptiedAgrees DEF RouterInv
  <2>8. PeerInv' BY <2>2, <2>3, <2>4 DEF PeerInv
  <2> QED BY <1>1, <1>2, <1>3, <2>6, <2>7, <2>8 DEF RouterInv
<1> QED BY <1>4, <1>5

LEMMA JoinPreserves ==
  ASSUME RouterInv, Join
  PROVE  RouterInv'
<1>1. /\ endpoints' = <<>> /\ heard' = <<>> /\ net' = Dropped(Ids)
      /\ dgram' = [g \in Gcs |-> NoId]
      /\ poll' = "none" /\ main' = "idle" /\ mutex' = "free" /\ mutex = "free"
      /\ UNCHANGED <<running, configured, sets>> /\ main = "join"
  BY DEF Join, CloseEndpoints
<1>2. Len(endpoints') = 0 /\ 1..0 = {} BY <1>1
<1>3. endpoints' = [i \in 1..Len(endpoints') |-> endpoints'[i]] BY <1>1, <1>2
<1>4. EndpointsInv' BY <1>2, <1>3 DEF EndpointsInv
<1>5. /\ net' \in [Gcs -> Connection] /\ \A g \in Gcs : net'[g].st = "out"
  BY <1>1, DroppedFacts DEF RouterInv
<1>6. NetInv' BY <1>1, <1>2, <1>5, EmptiedAgrees
<1>7. heard' \in [1..0 -> Gcs \cup {None}] BY <1>1
<1>8. PeerInv' BY <1>2, <1>7 DEF PeerInv
<1>9. PhaseInv' BY <1>1, <1>5 DEF RouterInv, PhaseInv, StoppedIsClosed
<1>10. SlotsInv' BY <1>1 DEF SlotsInv
<1>11. DownlinkReaches' BY <1>1, DownKept DEF RouterInv
<1> QED BY <1>4, <1>6, <1>8, <1>9, <1>10, <1>11 DEF RouterInv
-----------------------------------------------------------------------------
(* The walk over the slots with the lock held. *)
LEMMA CurrentFacts ==
  ASSUME EndpointsInv, SlotsInv, poll = "walk", todo # {}
  PROVE  /\ Current \in todo /\ Current \in 1..Len(slots)
         /\ \E k \in 1..Len(endpoints) :
               /\ slots[Current].id = endpoints[k].id /\ IndexOf(slots[Current].id) = k
               /\ Present(slots[Current].id)
               /\ slots[Current].client # Listen =>
                    slots[Current].client \in endpoints[k].clients
<1>1. todo \subseteq 1..Len(slots) /\ \A i \in 1..Len(slots) : ValidSlot(slots[i])
  BY DEF SlotsInv
<1>2. todo \in SUBSET Nat BY <1>1
<1>3. Current \in todo BY <1>2, LeastNatural, Zenon DEF Current
<1>4. ValidSlot(slots[Current]) BY <1>1, <1>3
<1>5. PICK k \in 1..Len(endpoints) :
         /\ slots[Current].id = endpoints[k].id
         /\ slots[Current].client # Listen => slots[Current].client \in endpoints[k].clients
  BY <1>4 DEF ValidSlot
<1> QED BY <1>1, <1>3, <1>5, IndexFacts

LEMMA WalkShared ==
  ASSUME RouterInv, poll = "walk", WalkRest, SamePlaces,
         \A i \in 1..Len(endpoints) : endpoints[i].clients \subseteq endpoints'[i].clients
  PROVE  PhaseInv' /\ SlotsInv' /\ DownlinkReaches'
<1>1. /\ UNCHANGED <<main, running, configured, sets, mutex, poll, slots>>
      /\ todo' \subseteq todo
  BY DEF WalkRest
<1>2. PhaseInv'
  BY <1>1 DEF RouterInv, PhaseInv, StoppedIsClosed
<1>3. DownlinkReaches'
  BY <1>1, DownKept DEF RouterInv, PhaseInv
<1>4. ASSUME NEW s, ValidSlot(s) PROVE ValidSlot(s)'
  BY <1>4 DEF ValidSlot, SamePlaces
<1>5. SlotsInv'
  BY <1>1, <1>4 DEF RouterInv, SlotsInv
<1> QED BY <1>2, <1>3, <1>5

LEMMA WalkPassOverPreserves ==
  ASSUME RouterInv, WalkPassOver
  PROVE  RouterInv'
<1>1. poll = "walk" /\ WalkRest /\ UNCHANGED <<endpoints, net, dgram, heard>>
  BY DEF WalkPassOver, netVars
<1>2. SamePlaces BY <1>1 DEF SamePlaces
<1>3. PhaseInv' /\ SlotsInv' /\ DownlinkReaches' BY <1>1, <1>2, WalkShared
<1> QED BY <1>1, <1>3, NothingTouched DEF RouterInv

LEMMA WalkClientPreserves ==
  ASSUME RouterInv, WalkClient
  PROVE  RouterInv'
<1>1. poll = "walk" /\ todo # {} /\ WalkRest /\ UNCHANGED <<dgram, heard>>
  BY DEF WalkClient, Here
<1>2. PICK k \in 1..Len(endpoints) :
         /\ slots[Current].id = endpoints[k].id /\ IndexOf(slots[Current].id) = k
         /\ Present(slots[Current].id)
         /\ slots[Current].client # Listen => slots[Current].client \in endpoints[k].clients
  BY <1>1, CurrentFacts DEF RouterInv
<1>3. PICK g : g = slots[Current].client OBVIOUS
<1>4. g \in Gcs
  <2>1. g # Listen BY <1>2, <1>3 DEF WalkClient
  <2> QED BY <1>2, <1>3, <2>1 DEF RouterInv, EndpointsInv
<1>5. CASE UNCHANGED <<endpoints, net>>
  <2>1. SamePlaces BY <1>5 DEF SamePlaces
  <2>2. PhaseInv' /\ SlotsInv' /\ DownlinkReaches' BY <1>1, <1>5, <2>1, WalkShared
  <2> QED BY <1>1, <1>5, <2>2, NothingTouched DEF RouterInv
<1>6. CASE /\ HandleEndpointData(k, net[g].inbox, endpoints[k].peer)
           /\ net' = [net EXCEPT ![g].inbox = <<>>]
  <2>1. /\ EndpointsInv' /\ SamePlaces
        /\ \A i \in 1..Len(endpoints) : /\ endpoints'[i].clients = endpoints[i].clients
                                        /\ endpoints'[i].peer = endpoints[i].peer
    BY <1>6, DataHandled DEF RouterInv
  <2>2. PhaseInv' /\ SlotsInv' /\ DownlinkReaches' BY <1>1, <2>1, WalkShared
  <2>3. net \in [Gcs -> Connection] /\ dgram' \in [Gcs -> Nat \X Nat]
    BY <1>1 DEF RouterInv, NetInv
  <2>4. /\ net' \in [Gcs -> Connection]
        /\ \A h \in Gcs : net'[h].st = net[h].st /\ net'[h].id = net[h].id
    <3>1. net[g] \in Connection BY <1>4, <2>3
    <3>2. <<>> \in Seq(Part) OBVIOUS
    <3>3. PICK c : c = [net[g] EXCEPT !.inbox = <<>>] OBVIOUS
    <3>4. c \in Connection /\ c.st = net[g].st /\ c.id = net[g].id
      BY <3>1, <3>2, <3>3 DEF Connection
    <3>5. net' = [net EXCEPT ![g] = c] BY <1>6, <3>3
    <3> QED BY <1>4, <2>3, <3>4, <3>5
  <2>5. \A h \in Gcs : net'[h].st # "out" => net'[h].id \in Ids
    BY <2>4 DEF RouterInv, NetInv
  <2>6. NetInv' BY <2>1, <2>3, <2>4, <2>5, NetKept DEF RouterInv
  <2>7. PeerInv' BY <1>1, <2>1 DEF RouterInv, PeerInv, SamePlaces
  <2> QED BY <2>1, <2>2, <2>6, <2>7 DEF RouterInv
<1> QED BY <1>2, <1>3, <1>5, <1>6 DEF WalkClient

LEMMA WalkAcceptPreserves ==
  ASSUME RouterInv, WalkAccept
  PROVE  RouterInv'
<1>1. PICK id \in Ids, g \in Gcs :
         /\ poll = "walk" /\ WalkRest /\ UNCHANGED <<dgram, heard>>
         /\ endpoints[IndexOf(id)].cfg.kind = "tcp"
         /\ net[g].st = "pending" /\ net[g].id = id
         /\ net' = [net EXCEPT ![g].st = "open"]
         /\ endpoints' = [endpoints EXCEPT ![IndexOf(id)].clients = @ \cup {g}]
  BY Zenon DEF WalkAccept, Here
<1>2. PICK k \in 1..Len(endpoints) : k = IndexOf(id) /\ endpoints[k].id = id
  BY IndexFacts DEF RouterInv
<1>3. PICK old : old = endpoints[k] OBVIOUS
<1>4. PICK e : e = [id |-> old.id, cfg |-> old.cfg, clients |-> old.clients \cup {g},
                    peer |-> old.peer, half |-> old.half]
  OBVIOUS
<1>5. /\ Shaped(old) /\ old.clients \subseteq Gcs /\ old.cfg.kind = "tcp"
      /\ endpoints = [i \in 1..Len(endpoints) |-> endpoints[i]]
  BY <1>1, <1>2, <1>3 DEF RouterInv, EndpointsInv
<1>6. [old EXCEPT !.clients = @ \cup {g}] = e
  <2>1. PICK a, b, c, d, w : old = [id |-> a, cfg |-> b, clients |-> c, peer |-> d, half |-> w]
    BY <1>5, Zenon DEF Shaped
  <2>2. PICK x : x = old.clients \cup {g} OBVIOUS
  <2>3. old.id = a /\ old.cfg = b /\ old.peer = d /\ old.half = w BY <2>1
  <2>4. [old EXCEPT !.clients = x] =
           [id |-> a, cfg |-> b, clients |-> x, peer |-> d, half |-> w]
    BY <2>1
  <2> QED BY <1>4, <2>2, <2>3, <2>4
<1>7. endpoints' = [endpoints EXCEPT ![k] = e]
  BY <1>1, <1>2, <1>3, <1>5, <1>6
<1>8. /\ Shaped(e) /\ e.id = old.id /\ e.cfg = old.cfg /\ e.peer = old.peer
      /\ e.clients = old.clients \cup {g}
  BY <1>4 DEF Shaped
<1>9. /\ EndpointsInv' /\ SamePlaces /\ endpoints'[k] = e
      /\ \A i \in 1..Len(endpoints) : i # k => endpoints'[i] = endpoints[i]
  BY <1>3, <1>5, <1>7, <1>8, EndpointChanged DEF RouterInv
<1>10. \A i \in 1..Len(endpoints) :
          /\ endpoints'[i].clients = IF i = k THEN endpoints[i].clients \cup {g}
                                     ELSE endpoints[i].clients
          /\ endpoints'[i].peer = endpoints[i].peer
  BY <1>3, <1>8, <1>9
<1>11. PhaseInv' /\ SlotsInv' /\ DownlinkReaches' BY <1>1, <1>9, <1>10, WalkShared
<1>12. PeerInv' BY <1>1, <1>9, <1>10 DEF RouterInv, PeerInv, SamePlaces
<1>13. net \in [Gcs -> Connection] /\ dgram' \in [Gcs -> Nat \X Nat]
  BY <1>1 DEF RouterInv, NetInv
<1>14. /\ net' \in [Gcs -> Connection] /\ net'[g].st = "open" /\ net'[g].id = id
       /\ \A h \in Gcs : h # g => net'[h] = net[h]
  BY <1>1, <1>13 DEF Connection, Held
<1>15. NetInv'
  <2>1. Ids' = Ids BY <1>9, IdsKept
  <2>2. \A h \in Gcs : net'[h].st = "out" \/ net'[h].id \in Ids'
    BY <1>1, <1>14, <2>1 DEF RouterInv, NetInv
  <2>3. ASSUME NEW h \in Gcs, net'[h].st \in Held
        PROVE  \E i \in 1..Len(endpoints') :
                  net'[h].id = endpoints'[i].id /\ h \in endpoints'[i].clients
    <3>1. CASE h = g BY <1>2, <1>9, <1>10, <1>14, <3>1 DEF SamePlaces
    <3>2. CASE h # g
      <4>1. PICK i \in 1..Len(endpoints) :
               net[h].id = endpoints[i].id /\ h \in endpoints[i].clients
        BY <1>14, <2>3, <3>2 DEF RouterInv, NetInv
      <4> QED BY <1>9, <1>10, <1>14, <3>2, <4>1 DEF SamePlaces
    <3> QED BY <3>1, <3>2
  <2>4. ASSUME NEW i \in 1..Len(endpoints'), NEW h \in endpoints'[i].clients
        PROVE  net'[h].st \in Held /\ net'[h].id = endpoints'[i].id
    <3>1. i \in 1..Len(endpoints) /\ endpoints'[i].id = endpoints[i].id
      BY <1>9 DEF SamePlaces
    <3>2. CASE h \in endpoints[i].clients
      <4>1. h \in Gcs /\ net[h].st \in Held /\ net[h].id = endpoints[i].id
        BY <3>1, <3>2 DEF RouterInv, EndpointsInv, NetInv
      <4>2. h # g BY <1>1, <4>1 DEF Held
      <4> QED BY <1>14, <3>1, <4>1, <4>2
    <3>3. CASE h \notin endpoints[i].clients
      <4>1. h = g /\ i = k BY <1>10, <3>1, <3>3
      <4> QED BY <1>2, <1>14, <3>1, <4>1 DEF Held
    <3> QED BY <3>2, <3>3
  <2> QED BY <1>13, <1>14, <2>2, <2>3, <2>4 DEF NetInv
<1> QED BY <1>9, <1>11, <1>12, <1>15 DEF RouterInv

LEMMA WalkDatagramPreserves ==
  ASSUME RouterInv, WalkDatagram
  PROVE  RouterInv'
<1>1. PICK id \in Ids, g \in Gcs : \E parts :
         /\ poll = "walk" /\ WalkRest /\ UNCHANGED net
         /\ HandleEndpointData(IndexOf(id), parts, LearnPeer(endpoints[IndexOf(id)], g))
         /\ dgram' = [dgram EXCEPT ![g] = NoId]
         /\ heard' = [heard EXCEPT ![IndexOf(id)] = g]
  BY Zenon DEF WalkDatagram, Here
<1>2. PICK k \in 1..Len(endpoints) : k = IndexOf(id) /\ endpoints[k].id = id
  BY IndexFacts DEF RouterInv
<1>3. PICK peer : peer = LearnPeer(endpoints[k], g) OBVIOUS
<1>4. /\ EndpointsInv' /\ SamePlaces
      /\ \A i \in 1..Len(endpoints) :
            /\ endpoints'[i].clients = endpoints[i].clients
            /\ endpoints'[i].peer = IF i = k THEN peer ELSE endpoints[i].peer
  BY <1>1, <1>2, <1>3, DataHandled DEF RouterInv
<1>5. PhaseInv' /\ SlotsInv' /\ DownlinkReaches' BY <1>1, <1>4, WalkShared
<1>6. dgram' \in [Gcs -> Nat \X Nat] /\ net' \in [Gcs -> Connection]
  BY <1>1 DEF RouterInv, NetInv, NoId
<1>7. \A h \in Gcs : net'[h].st # "out" => net'[h].id \in Ids
  BY <1>1 DEF RouterInv, NetInv
<1>8. NetInv' BY <1>1, <1>4, <1>6, <1>7, NetKept DEF RouterInv
<1>9. heard' \in [1..Len(endpoints) -> Gcs \cup {None}]
  BY <1>1, <1>2 DEF RouterInv, PeerInv
<1>10. ASSUME NEW i \in 1..Len(endpoints)
       PROVE  /\ endpoints'[i].cfg.kind = "udpServer" => endpoints'[i].peer = heard'[i]
              /\ endpoints'[i].cfg.kind = "udpOut" => endpoints'[i].peer = "fixed"
  <2>1. CASE i = k
    <3>1. heard'[i] = g /\ endpoints'[i].peer = peer
      BY <1>1, <1>2, <1>4, <2>1 DEF RouterInv, PeerInv
    <3> QED BY <1>3, <1>4, <2>1, <3>1 DEF LearnPeer, SamePlaces, RouterInv, PeerInv
  <2>2. CASE i # k
    <3>1. heard'[i] = heard[i] /\ endpoints'[i].peer = endpoints[i].peer
      BY <1>1, <1>2, <1>4, <2>2 DEF RouterInv, PeerInv
    <3> QED BY <1>4, <3>1 DEF SamePlaces, RouterInv, PeerInv
  <2> QED BY <2>1, <2>2
<1>11. PeerInv' BY <1>4, <1>9, <1>10 DEF PeerInv, SamePlaces
<1> QED BY <1>4, <1>5, <1>8, <1>11 DEF RouterInv

LEMMA EndWalkPreserves ==
  ASSUME RouterInv, EndWalk
  PROVE  RouterInv'
<1>1. /\ poll = "walk" /\ mutex' = "free" /\ poll' = "rebuild"
      /\ endpoints' = [i \in 1..Len(endpoints) |->
                          [endpoints[i] EXCEPT !.clients = @ \ toClose]]
      /\ net' = [g \in Gcs |-> IF g \in toClose THEN NoConnection(NextMessage(net[g].sent))
                               ELSE net[g]]
      /\ UNCHANGED <<main, running, configured, sets, dgram, heard>>
  BY DEF EndWalk, downVars
<1>2. PICK n \in Nat : n = Len(endpoints) BY DEF RouterInv, EndpointsInv
<1>3. ASSUME NEW i \in 1..n
      PROVE  /\ Shaped(endpoints'[i])
             /\ endpoints'[i].id = endpoints[i].id /\ endpoints'[i].cfg = endpoints[i].cfg
             /\ endpoints'[i].peer = endpoints[i].peer
             /\ endpoints'[i].clients = endpoints[i].clients \ toClose
  <2>1. PICK x : x = endpoints[i].clients \ toClose OBVIOUS
  <2>2. PICK old : old = endpoints[i] OBVIOUS
  <2>3. PICK a, b, c, d, w : old = [id |-> a, cfg |-> b, clients |-> c, peer |-> d, half |-> w]
    <3>1. Shaped(old) BY <1>2, <2>2 DEF RouterInv, EndpointsInv
    <3> QED BY <3>1, Zenon DEF Shaped
  <2>4. endpoints'[i] = [old EXCEPT !.clients = x] BY <1>1, <1>2, <2>1, <2>2
  <2>5. endpoints'[i] = [id |-> a, cfg |-> b, clients |-> x, peer |-> d, half |-> w]
    BY <2>3, <2>4
  <2>6. old.id = a /\ old.cfg = b /\ old.peer = d BY <2>3
  <2>7. PICK new : new = endpoints'[i] OBVIOUS
  <2>8. new.id = a /\ new.cfg = b /\ new.clients = x /\ new.peer = d /\ Shaped(new)
    BY <2>5, <2>7 DEF Shaped
  <2> QED BY <2>1, <2>2, <2>6, <2>7, <2>8
<1>4. Len(endpoints') = n /\ endpoints' = [i \in 1..n |-> endpoints'[i]] BY <1>1, <1>2
<1>5. SamePlaces BY <1>2, <1>3, <1>4 DEF SamePlaces
<1>6. EndpointsInv' BY <1>2, <1>3, <1>4 DEF RouterInv, EndpointsInv
<1>7. PeerInv' BY <1>1, <1>2, <1>3, <1>4 DEF RouterInv, PeerInv
<1>8. SlotsInv' BY <1>1 DEF SlotsInv
<1>9. PhaseInv' BY <1>1 DEF RouterInv, PhaseInv, StoppedIsClosed
<1>10. DownlinkReaches' BY <1>1, DownKept DEF RouterInv
<1>11. ASSUME NEW g \in Gcs
       PROVE  /\ net'[g] \in Connection
              /\ g \in toClose => net'[g].st = "out"
              /\ g \notin toClose => net'[g] = net[g]
  <2>1. net[g] \in Connection /\ net[g].sent \in Nat BY DEF RouterInv, NetInv, Connection
  <2>2. NextMessage(net[g].sent) \in Nat BY <2>1 DEF NextMessage
  <2>3. NoConnection(NextMessage(net[g].sent)) \in Connection
    BY <2>2 DEF NoConnection, Connection, NoId
  <2> QED BY <1>1, <2>1, <2>3 DEF NoConnection
<1>12. NetInv'
  <2>1. Ids' = Ids BY <1>5, IdsKept
  <2>2. net' \in [Gcs -> Connection] /\ dgram' \in [Gcs -> Nat \X Nat]
    BY <1>1, <1>11 DEF RouterInv, NetInv
  <2>3. \A g \in Gcs : net'[g].st = "out" \/ net'[g].id \in Ids'
    BY <1>11, <2>1 DEF RouterInv, NetInv
  <2>4. ASSUME NEW g \in Gcs, net'[g].st \in Held
        PROVE  \E i \in 1..Len(endpoints') :
                  net'[g].id = endpoints'[i].id /\ g \in endpoints'[i].clients
    <3>1. g \notin toClose /\ net'[g] = net[g] BY <1>11, <2>4 DEF Held
    <3>2. PICK i \in 1..n : net[g].id = endpoints[i].id /\ g \in endpoints[i].clients
      BY <1>2, <2>4, <3>1 DEF RouterInv, NetInv
    <3> QED BY <1>3, <1>4, <3>1, <3>2
  <2>5. ASSUME NEW i \in 1..Len(endpoints'), NEW g \in endpoints'[i].clients
        PROVE  net'[g].st \in Held /\ net'[g].id = endpoints'[i].id
    <3>1. i \in 1..n /\ g \in endpoints[i].clients /\ g \notin toClose BY <1>3, <1>4, <2>5
    <3>2. g \in Gcs /\ net[g].st \in Held /\ net[g].id = endpoints[i].id
      BY <1>2, <3>1 DEF RouterInv, EndpointsInv, NetInv
    <3> QED BY <1>3, <1>11, <3>1, <3>2
  <2> QED BY <2>2, <2>3, <2>4, <2>5 DEF NetInv
<1> QED BY <1>6, <1>7, <1>8, <1>9, <1>10, <1>12 DEF RouterInv
-----------------------------------------------------------------------------
(* The stations: none can be heard once the router is stopped. *)
LEMMA GcsShared ==
  ASSUME RouterInv, UNCHANGED <<main, running, configured, sets, endpoints, mutex, poll,
                                slots, todo, heard, down>>,
         NEW g \in Gcs, net[g].st # "out" \/ Len(endpoints) # 0,
         net' \in [Gcs -> Connection], dgram' \in [Gcs -> Nat \X Nat],
         \A h \in Gcs : h # g => net'[h] = net[h],
         net'[g].st \in Held <=> net[g].st \in Held,
         net'[g].id = net[g].id \/ net[g].st \notin Held,
         net'[g].st # "out" => net'[g].id \in Ids
  PROVE  RouterInv'
<1>1. EndpointsInv' BY DEF RouterInv, EndpointsInv
<1>2. SamePlaces BY DEF SamePlaces
<1>3. PeerInv' BY DEF RouterInv, PeerInv
<1>4. SlotsInv' BY SlotsKept DEF RouterInv
<1>5. ~(main = "idle" /\ ~running)
  <2> SUFFICES ASSUME main = "idle", ~running PROVE FALSE OBVIOUS
  <2>1. endpoints = <<>> /\ net[g].st = "out" BY DEF RouterInv, PhaseInv, StoppedIsClosed
  <2> QED BY <2>1
<1>6. PhaseInv' BY <1>5 DEF RouterInv, PhaseInv, StoppedIsClosed
<1>7. \A h \in Gcs : /\ net'[h].st \in Held <=> net[h].st \in Held
                     /\ net'[h].id = net[h].id \/ net[h].st \notin Held
                     /\ net'[h].st # "out" => net'[h].id \in Ids
  BY DEF RouterInv, NetInv
<1>8. NetInv' BY <1>2, <1>7, NetKept DEF RouterInv
<1>9. DownlinkReaches' BY <1>7, DownKept DEF RouterInv
<1> QED BY <1>1, <1>3, <1>4, <1>6, <1>8, <1>9 DEF RouterInv

LEMMA GcsStepShared ==
  ASSUME RouterInv, UNCHANGED <<main, running, configured, sets, endpoints, mutex, poll,
                                slots, todo, heard, down>>,
         NEW g \in Gcs, net[g].st # "out" \/ Len(endpoints) # 0,
         NEW c \in Connection, net' = [net EXCEPT ![g] = c], dgram' \in [Gcs -> Nat \X Nat],
         c.st \in Held <=> net[g].st \in Held,
         c.id = net[g].id \/ net[g].st \notin Held,
         c.st # "out" => c.id \in Ids
  PROVE  RouterInv'
<1>1. net \in [Gcs -> Connection] BY DEF RouterInv, NetInv
<1>2. net' \in [Gcs -> Connection] /\ net'[g] = c /\ \A h \in Gcs : h # g => net'[h] = net[h]
  BY <1>1
<1> QED BY <1>2, GcsShared

LEMMA GcsPreserves ==
  ASSUME RouterInv, GcsStep
  PROVE  RouterInv'
<1>1. net \in [Gcs -> Connection] /\ dgram \in [Gcs -> Nat \X Nat]
  BY DEF RouterInv, NetInv
<1>2. \A k \in 1..Len(endpoints) :
         endpoints[k].id \in Ids /\ endpoints[k].id \in Nat \X Nat /\ Len(endpoints) # 0
  BY DEF RouterInv, EndpointsInv, Ids
<1>3. ASSUME NEW g \in Gcs, NEW k \in 1..Len(endpoints), Connect(g, k) PROVE RouterInv'
  <2>1. PICK c : c = [net[g] EXCEPT !.st = "pending", !.id = endpoints[k].id] OBVIOUS
  <2>2. c \in Connection /\ c.st = "pending" /\ c.id = endpoints[k].id
    BY <1>1, <1>2, <2>1 DEF Connection
  <2>3. net' = [net EXCEPT ![g] = c] /\ net[g].st = "out" /\ dgram' = dgram
    BY <1>3, <2>1 DEF Connect
  <2>4. /\ net[g].st \notin Held /\ c.st \notin Held
        /\ c.id \in Ids /\ Len(endpoints) # 0
    BY <1>2, <2>2, <2>3 DEF Held
  <2>5. UNCHANGED <<main, running, configured, sets, endpoints, mutex, poll,
                    slots, todo, heard, down>>
    BY <1>3 DEF Connect, routerVars, pollVars, downVars
  <2> QED BY <1>1, <2>2, <2>3, <2>4, <2>5, GcsStepShared
<1>4. ASSUME NEW g \in Gcs, NEW k \in 1..Len(endpoints), SendDatagram(g, k) PROVE RouterInv'
  <2>1. PICK old \in Connection : old = net[g] BY <1>1
  <2>2. PICK m \in Nat : m = old.sent + 2 BY DEF Connection
  <2>3. PICK c : c = [old EXCEPT !.sent = m] OBVIOUS
  <2>4. c \in Connection /\ c.st = old.st /\ c.id = old.id BY <2>3 DEF Connection
  <2>5. /\ net' = [net EXCEPT ![g] = c] /\ old.st = "out"
        /\ dgram' = [dgram EXCEPT ![g] = endpoints[k].id]
    BY <1>4, <2>1, <2>2, <2>3 DEF SendDatagram
  <2>6. dgram' \in [Gcs -> Nat \X Nat] /\ Len(endpoints) # 0 BY <1>1, <1>2, <2>5
  <2>7. UNCHANGED <<main, running, configured, sets, endpoints, mutex, poll,
                    slots, todo, heard, down>>
    BY <1>4 DEF SendDatagram, routerVars, pollVars, downVars
  <2> QED BY <2>1, <2>4, <2>5, <2>6, <2>7, GcsStepShared
<1>5. ASSUME NEW g \in Gcs, SendPart(g) PROVE RouterInv'
  <2>1. PICK old \in Connection : old = net[g] BY <1>1
  <2>2. old.sent \in Nat /\ old.inbox \in Seq(Part) BY DEF Connection
  <2>3. PICK m : m = [from |-> g, n |-> (old.sent \div 2) + 1, part |-> (old.sent % 2) + 1]
    OBVIOUS
  <2>4. m \in Part
    <3>1. (old.sent \div 2) + 1 \in Nat /\ (old.sent % 2) + 1 \in {1, 2} BY <2>2
    <3> QED BY <2>3, <3>1 DEF Part
  <2>5. PICK s, q : s = old.sent + 1 /\ q = Append(old.inbox, m) OBVIOUS
  <2>6. s \in Nat /\ q \in Seq(Part) BY <2>2, <2>4, <2>5
  <2>7. PICK c : c = [[old EXCEPT !.sent = s] EXCEPT !.inbox = q] OBVIOUS
  <2>8. c \in Connection /\ c.st = old.st /\ c.id = old.id
    BY <2>6, <2>7 DEF Connection
  <2>9. net' = [net EXCEPT ![g] = c]
    <3>1. net' = [[net EXCEPT ![g].sent = net[g].sent + 1]
                     EXCEPT ![g].inbox = Append(net[g].inbox, m)]
      BY <1>1, <1>5, <2>1, <2>3 DEF SendPart, Connection
    <3>2. PICK mid : mid = [net EXCEPT ![g] = [old EXCEPT !.sent = s]] OBVIOUS
    <3>3. mid = [net EXCEPT ![g].sent = net[g].sent + 1] BY <2>1, <2>5, <3>2
    <3>4. mid \in [Gcs -> Connection] /\ mid[g] = [old EXCEPT !.sent = s]
          /\ \A h \in Gcs : h # g => mid[h] = net[h]
      BY <1>1, <2>6, <3>2 DEF Connection
    <3>5. net' = [mid EXCEPT ![g] = [mid[g] EXCEPT !.inbox = q]] BY <2>1, <2>5, <3>1, <3>3
    <3> QED BY <1>1, <2>7, <3>4, <3>5
  <2>10. old.st \in {"pending", "open"} /\ dgram' = dgram BY <1>5, <2>1 DEF SendPart
  <2>11. old.id \in Ids BY <2>1, <2>10 DEF RouterInv, NetInv
  <2>12. UNCHANGED <<main, running, configured, sets, endpoints, mutex, poll,
                     slots, todo, heard, down>>
    BY <1>5 DEF SendPart, routerVars, pollVars, downVars
  <2> QED BY <1>1, <2>1, <2>8, <2>9, <2>10, <2>11, <2>12, GcsStepShared
<1>6. ASSUME NEW g \in Gcs, Hangup(g) PROVE RouterInv'
  <2>1. PICK old \in Connection : old = net[g] /\ old.st = "open"
    BY <1>1, <1>6 DEF Hangup
  <2>2. PICK c \in {[old EXCEPT !.st = "fin"], [old EXCEPT !.st = "rst", !.inbox = <<>>]} :
           net' = [net EXCEPT ![g] = c]
    BY <1>6, <2>1 DEF Hangup
  <2>3. <<>> \in Seq(Part) OBVIOUS
  <2>4. c \in Connection /\ c.st \in Held /\ c.id = old.id
    BY <2>1, <2>2, <2>3 DEF Connection, Held
  <2>5. old.id \in Ids /\ dgram' = dgram /\ old.st \in Held
    BY <1>6, <2>1 DEF RouterInv, NetInv, Hangup, Held
  <2>6. UNCHANGED <<main, running, configured, sets, endpoints, mutex, poll,
                    slots, todo, heard, down>>
    BY <1>6 DEF Hangup, routerVars, pollVars, downVars
  <2> QED BY <1>1, <2>1, <2>2, <2>4, <2>5, <2>6, GcsStepShared
<1>7. ASSUME NEW g \in Gcs, Withdraw(g) PROVE RouterInv'
  <2>1. PICK old \in Connection : old = net[g] /\ old.st = "pending"
    BY <1>1, <1>7 DEF Withdraw
  <2>2. PICK m \in Nat : m = NextMessage(old.sent)
    <3>1. old.sent \in Nat BY DEF Connection
    <3> QED BY <3>1 DEF NextMessage
  <2>3. PICK c : c = NoConnection(m) OBVIOUS
  <2>4. c \in Connection /\ c.st = "out" BY <2>3 DEF NoConnection, Connection, NoId
  <2>5. net' = [net EXCEPT ![g] = c] /\ dgram' = dgram
    BY <1>7, <2>1, <2>2, <2>3 DEF Withdraw
  <2>6. UNCHANGED <<main, running, configured, sets, endpoints, mutex, poll,
                    slots, todo, heard, down>>
    BY <1>7 DEF Withdraw, routerVars, pollVars, downVars
  <2>7. old.st \notin Held /\ c.st \notin Held BY <2>1, <2>4 DEF Held
  <2> QED BY <1>1, <2>1, <2>4, <2>5, <2>6, <2>7, GcsStepShared
<1> QED BY <1>3, <1>4, <1>5, <1>6, <1>7 DEF GcsStep
-----------------------------------------------------------------------------
LEMMA RouterInit == Init => RouterInv
<1> SUFFICES ASSUME Init PROVE RouterInv OBVIOUS
<1>1. Len(endpoints) = 0 /\ 1..0 = {} BY DEF Init
<1>2. endpoints = [i \in 1..Len(endpoints) |-> endpoints[i]] BY <1>1 DEF Init
<1>3. EndpointsInv BY <1>1, <1>2 DEF EndpointsInv
<1>4. \A g \in Gcs : net[g] = NoConnection(0) BY DEF Init
<1>5. NoConnection(0) \in Connection /\ NoConnection(0).st = "out"
  BY DEF NoConnection, Connection, NoId
<1>6. net \in [Gcs -> Connection] /\ dgram \in [Gcs -> Nat \X Nat]
  BY <1>5 DEF Init, NoId
<1>7. NetInv BY <1>1, <1>4, <1>5, <1>6 DEF NetInv, Held
<1>8. heard \in [1..0 -> Gcs \cup {None}] BY DEF Init
<1>9. PeerInv BY <1>1, <1>8 DEF PeerInv
<1>10. PhaseInv BY <1>4, <1>5 DEF Init, PhaseInv, StoppedIsClosed
<1>11. SlotsInv /\ DownlinkReaches BY DEF Init, SlotsInv, DownlinkReaches
<1> QED BY <1>3, <1>7, <1>9, <1>10, <1>11 DEF RouterInv

LEMMA RouterNext == RouterInv /\ [Next]_vars => RouterInv'
<1> SUFFICES ASSUME RouterInv, [Next]_vars PROVE RouterInv' OBVIOUS
<1>1. CASE UNCHANGED vars
  <2>1. UNCHANGED <<main, running, configured, sets, endpoints, mutex, poll,
                    slots, todo, heard, down, net, dgram>>
    BY <1>1 DEF vars, routerVars, pollVars, netVars, downVars
  <2>2. EndpointsInv' /\ NetInv' /\ PeerInv' BY <2>1, NothingTouched DEF RouterInv
  <2>3. SlotsInv' BY <2>1, SlotsKept DEF RouterInv
  <2>4. DownlinkReaches' BY <2>1, DownKept DEF RouterInv
  <2>5. PhaseInv' BY <2>1 DEF RouterInv, PhaseInv, StoppedIsClosed
  <2> QED BY <2>2, <2>3, <2>4, <2>5 DEF RouterInv
<1>2. CASE PollStep
  BY <1>2, RebuildPreserves, PollPreserves, CollectPreserves, WalkPassOverPreserves,
     WalkClientPreserves, WalkAcceptPreserves, WalkDatagramPreserves, EndWalkPreserves DEF PollStep
<1> QED BY <1>1, <1>2, MainPreserves, JoinPreserves, DownlinkPreserves, GcsPreserves DEF Next

LEMMA RouterAlways == Spec => []RouterInv
BY RouterInit, RouterNext, PTL DEF Spec

(* The poll thread never touches an endpoint or a client socket that has
   gone, although it collects them under one lock, polls without any and
   walks them under another: no step of the other threads takes one away in
   between (router.cpp:413-509). *)
THEOREM WalkFindsEverySlot == Spec => []SlotsValid
<1>1. ASSUME RouterInv PROVE SlotsValid
  <2> SUFFICES ASSUME poll = "walk", NEW i \in todo
      PROVE  /\ Present(slots[i].id)
             /\ slots[i].client # Listen =>
                  slots[i].client \in endpoints[IndexOf(slots[i].id)].clients
    BY DEF SlotsValid
  <2>1. ValidSlot(slots[i]) BY <1>1 DEF RouterInv, SlotsInv
  <2>2. PICK k \in 1..Len(endpoints) :
           /\ slots[i].id = endpoints[k].id
           /\ slots[i].client # Listen => slots[i].client \in endpoints[k].clients
    BY <2>1 DEF ValidSlot
  <2> QED BY <1>1, <2>2, IndexFacts DEF RouterInv
<1> QED BY <1>1, RouterAlways, PTL

(* Stop leaves no endpoint, no attached station and no thread behind,
   whichever step of whichever thread it meets (router.cpp:300-318). *)
THEOREM StopClosesEverything == Spec => []StoppedIsClosed
<1>1. RouterInv => StoppedIsClosed BY DEF RouterInv, PhaseInv
<1> QED BY <1>1, RouterAlways, PTL

(* The sockets the router holds and the client lists of its endpoints are
   the same connections, through every rebuild, accept and hang-up. *)
THEOREM SocketsAgreeWithLists == Spec => []ConnectionsAgree
<1>1. ASSUME RouterInv PROVE ConnectionsAgree
  <2>1. ASSUME NEW g \in Gcs, NEW i \in 1..Len(endpoints), g \in endpoints[i].clients
        PROVE  net[g].st \in Held
    BY <1>1, <2>1 DEF RouterInv, NetInv
  <2> QED BY <1>1, <2>1 DEF ConnectionsAgree, RouterInv, NetInv, Held
<1> QED BY <1>1, RouterAlways, PTL

(* Telemetry reaches every accepted station, every fixed target and the
   station a UDP server heard last, and nobody else (router.cpp:513-552). *)
THEOREM TelemetryReachesItsListeners == Spec => []DownlinkReaches
<1>1. RouterInv => DownlinkReaches BY DEF RouterInv
<1> QED BY <1>1, RouterAlways, PTL
-----------------------------------------------------------------------------
(* One turn of the framer: what it made of the parts before, and the next. *)
Fed(half) == [half |-> half, out |-> <<>>]
Turn(was, part) ==
    IF was.half # <<>>
    THEN [half |-> <<>>, out |-> Append(was.out, Append(was.half, part))]
    ELSE [half |-> IF part.part = 1 THEN <<part>> ELSE <<>>, out |-> was.out]
FramerRun(half, parts, m, f) ==
    f = [i \in 0..m |-> IF i = 0 THEN Fed(half) ELSE Turn(f[i - 1], parts[i])]

(* What holds at 0, and at k + 1 whenever at k, holds up to n. *)
LEMMA UpTo ==
  ASSUME NEW n \in Nat, NEW S, 0 \in S,
         \A k \in 0..(n - 1) : k \in S => k + 1 \in S
  PROVE  \A k \in 0..n : k \in S
<1> SUFFICES ASSUME NEW j \in 0..n, j \notin S PROVE FALSE OBVIOUS
<1> DEFINE T == {k \in 0..n : k \notin S}
<1>1. T \in SUBSET Nat /\ T # {} OBVIOUS
<1>2. PICK k \in T : \A y \in T : k <= y BY <1>1, LeastNatural
<1>3. k \in 0..n /\ k \notin S BY <1>2
<1>4. k # 0 BY <1>3
<1>5. k - 1 \in 0..(n - 1) /\ k - 1 \in 0..n /\ ~(k <= k - 1) /\ (k - 1) + 1 = k BY <1>3, <1>4
<1>6. k - 1 \notin T BY <1>2, <1>5
<1>7. k - 1 \in S BY <1>5, <1>6
<1> QED BY <1>3, <1>5, <1>7

LEMMA FramerRunExists ==
  ASSUME NEW half, NEW parts, NEW n \in Nat
  PROVE  \E f : FramerRun(half, parts, n, f)
<1> DEFINE S == {m \in 0..n : \E f : FramerRun(half, parts, m, f)}
<1>1. 0 \in S
  <2> DEFINE f == [i \in 0..0 |-> Fed(half)]
  <2>1. f = [i \in 0..0 |-> IF i = 0 THEN Fed(half) ELSE Turn(f[i - 1], parts[i])] OBVIOUS
  <2> HIDE DEF f
  <2>2. FramerRun(half, parts, 0, f) BY <2>1, Zenon DEF FramerRun
  <2> QED BY <2>2
<1>2. ASSUME NEW m \in 0..(n - 1), m \in S PROVE m + 1 \in S
  <2>1. PICK f : FramerRun(half, parts, m, f) BY <1>2
  <2>2. \A i \in 0..m : f[i] = IF i = 0 THEN Fed(half) ELSE Turn(f[i - 1], parts[i])
    BY <2>1, Zenon DEF FramerRun
  <2>3. PICK x : x = Turn(f[m], parts[m + 1]) OBVIOUS
  <2> DEFINE g == [i \in 0..(m + 1) |-> IF i = m + 1 THEN x ELSE f[i]]
  <2>4. m \in Nat /\ \A i \in 0..(m + 1) : i = m + 1 \/ (i \in 0..m /\ i # m + 1) OBVIOUS
  <2>5. g[m + 1] = x /\ \A i \in 0..m : g[i] = f[i] BY <2>4
  <2>6. g = [i \in 0..(m + 1) |-> g[i]] OBVIOUS
  <2> HIDE DEF g
  <2>7. ASSUME NEW i \in 0..(m + 1)
        PROVE  g[i] = IF i = 0 THEN Fed(half) ELSE Turn(g[i - 1], parts[i])
    <3>1. CASE i = m + 1
      <4>1. i # 0 /\ i - 1 = m /\ m \in 0..m BY <2>4, <3>1
      <4>2. g[i - 1] = f[m] BY <2>5, <4>1
      <4> QED BY <2>3, <2>5, <3>1, <4>1, <4>2
    <3>2. CASE i \in 0..m /\ i = 0 BY <2>2, <2>5, <3>2
    <3>3. CASE i \in 0..m /\ i # 0
      <4>1. i - 1 \in 0..m BY <3>3
      <4>2. g[i] = f[i] /\ g[i - 1] = f[i - 1] BY <2>5, <3>3, <4>1
      <4>3. f[i] = Turn(f[i - 1], parts[i]) BY <2>2, <3>3
      <4> QED BY <3>3, <4>2, <4>3
    <3> QED BY <2>4, <3>1, <3>2, <3>3
  <2>8. FramerRun(half, parts, m + 1, g) BY <2>6, <2>7, Zenon DEF FramerRun
  <2> QED BY <2>8
<1> HIDE DEF S
<1>3. n \in S
  <2>1. \A k \in 0..n : k \in S BY <1>1, <1>2, UpTo
  <2> QED BY <2>1
<1> QED BY <1>3 DEF S

(* FramerPush takes its turns one after the other. *)
PushedBy(half, parts, n, f) ==
    /\ f[0] = Fed(half) /\ FramerPush(half, parts) = f[n]
    /\ \A i \in 1..n : f[i] = Turn(f[i - 1], parts[i])

LEMMA PushIsRun ==
  ASSUME NEW half, NEW parts, NEW len \in Nat, len = Len(parts)
  PROVE  \E f : PushedBy(half, parts, len, f)
<1>1. PICK n \in Nat : n = len OBVIOUS
<1>2. PICK f : f = (CHOOSE g : FramerRun(half, parts, n, g)) OBVIOUS
<1>3. FramerRun(half, parts, n, f) BY <1>2, FramerRunExists, Zenon
<1>4. FramerPush(half, parts) = f[n]
  BY <1>1, <1>2, Zenon DEF FramerPush, FramerRun, Turn, Fed
<1>5. \A i \in 0..n : f[i] = IF i = 0 THEN Fed(half) ELSE Turn(f[i - 1], parts[i])
  BY <1>3, Zenon DEF FramerRun
<1>6. f[0] = Fed(half) BY <1>5
<1>7. ASSUME NEW i \in 1..n PROVE f[i] = Turn(f[i - 1], parts[i])
  <2>1. i \in 0..n /\ i # 0 OBVIOUS
  <2> QED BY <1>5, <2>1
<1>8. PushedBy(half, parts, n, f) BY <1>4, <1>6, <1>7, Zenon DEF PushedBy
<1> QED BY <1>1, <1>8, Zenon
-----------------------------------------------------------------------------
(* The j-th part a station sends, and a framer that holds the last one when
   it is the first of a message, or nothing. *)
PartOf(g, j) == [from |-> g, n |-> ((j - 1) \div 2) + 1, part |-> ((j - 1) % 2) + 1]
Follows(half, g, j) == half = <<>> \/ (j % 2 = 1 /\ half = <<PartOf(g, j)>>)

LEMMA Pairs ==
  ASSUME NEW g, NEW j \in Int
  PROVE  /\ PartOf(g, j).part = 1 <=> j % 2 = 1
         /\ (j + 1) % 2 = 1 <=> j % 2 # 1
         /\ j % 2 = 1 => IsMessage(Append(<<PartOf(g, j)>>, PartOf(g, j + 1)))
<1>1. PartOf(g, j).part = 1 <=> j % 2 = 1 BY DEF PartOf
<1>2. (j + 1) % 2 = 1 <=> j % 2 # 1 OBVIOUS
<1>3. ASSUME j % 2 = 1 PROVE IsMessage(Append(<<PartOf(g, j)>>, PartOf(g, j + 1)))
  <2>1. PICK a, b : a = PartOf(g, j) /\ b = PartOf(g, j + 1) OBVIOUS
  <2>2. a.from = b.from /\ a.part = 1 BY <1>3, <2>1 DEF PartOf
  <2>3. (j + 1) - 1 = j /\ (j % 2) + 1 = 2 /\ (j - 1) \div 2 = j \div 2 BY <1>3
  <2>4. a.n = b.n /\ b.part = 2 BY <2>1, <2>3 DEF PartOf
  <2>5. PICK m : m = Append(<<a>>, b) OBVIOUS
  <2>6. Len(m) = 2 /\ m[1] = a /\ m[2] = b BY <2>5
  <2> QED BY <2>1, <2>2, <2>4, <2>5, <2>6 DEF IsMessage
<1> QED BY <1>1, <1>2, <1>3

(* What one read makes of a framer that held something: v is its state after
   the first i parts, which g sent after its r-th. *)
Whole(out, from) == \A m \in from..Len(out) : IsMessage(out[m])
Framed(v, half, g, r, i) ==
    /\ v.half \in Seq(Part) /\ v.out \in Seq(Seq(Part))
    /\ i = 0 => v = Fed(half)
    /\ Whole(v.out, 2)
    /\ i > 0 \/ Follows(half, g, r) => Follows(v.half, g, r + i)
    /\ Follows(half, g, r) => Whole(v.out, 1)

LEMMA WholeAppend ==
  ASSUME NEW out \in Seq(Seq(Part)), NEW m \in Seq(Part), NEW from \in {1, 2},
         Whole(out, from), from = 1 \/ out # <<>> => IsMessage(m)
  PROVE  Append(out, m) \in Seq(Seq(Part)) /\ Whole(Append(out, m), from)
<1>1. PICK q : q = Append(out, m) OBVIOUS
<1>2. /\ q \in Seq(Seq(Part)) /\ Len(q) = Len(out) + 1 /\ Len(out) \in Nat
      /\ q[Len(out) + 1] = m /\ \A i \in 1..Len(out) : q[i] = out[i]
  BY <1>1
<1>3. ASSUME NEW i \in from..Len(q) PROVE IsMessage(q[i])
  <2>1. CASE i \in 1..Len(out)
    <3>1. i \in from..Len(out) BY <2>1, <1>3
    <3>2. IsMessage(out[i]) BY <3>1, Zenon DEF Whole
    <3> QED BY <1>2, <2>1, <3>2, Zenon
  <2>2. CASE i \notin 1..Len(out)
    <3>1. i = Len(out) + 1 BY <1>2, <2>2
    <3>2. from = 1 \/ Len(out) # 0 BY <1>3, <3>1
    <3>3. IsMessage(m) BY <3>2
    <3> QED BY <1>2, <3>1, <3>3, Zenon
  <2> QED BY <2>1, <2>2
<1> QED BY <1>1, <1>2, <1>3 DEF Whole

LEMMA TurnFramed ==
  ASSUME NEW g \in Gcs, NEW r \in Int, NEW i \in Nat, NEW v, NEW half,
         PartOf(g, r + i + 1) \in Part, Framed(v, half, g, r, i)
  PROVE  Framed(Turn(v, PartOf(g, r + i + 1)), half, g, r, i + 1)
<1>1. PICK j \in Int : j = r + i OBVIOUS
<1>2. PICK p \in Part : p = PartOf(g, j + 1) BY <1>1
<1>3. PICK w : w = Turn(v, p) OBVIOUS
<1>4. /\ v.half \in Seq(Part) /\ v.out \in Seq(Seq(Part))
      /\ i = 0 => v.half = half /\ v.out = <<>>
      /\ Whole(v.out, 2)
      /\ i > 0 \/ Follows(half, g, r) => Follows(v.half, g, j)
      /\ Follows(half, g, r) => Whole(v.out, 1)
  BY <1>1 DEF Framed, Fed
<1>5. CASE v.half # <<>>
  <2>1. PICK m : m = Append(v.half, p) OBVIOUS
  <2>2. m \in Seq(Part) BY <1>4, <2>1
  <2>3. w.half = <<>> /\ w.out = Append(v.out, m) BY <1>3, <1>5, <2>1 DEF Turn
  <2>4. i > 0 \/ Follows(half, g, r) => IsMessage(m)
    <3> SUFFICES ASSUME Follows(v.half, g, j) PROVE IsMessage(m) BY <1>4
    <3>1. j % 2 = 1 /\ v.half = <<PartOf(g, j)>> BY <1>5 DEF Follows
    <3> QED BY <1>2, <2>1, <3>1, Pairs
  <2>5. v.out # <<>> => i > 0 BY <1>4
  <2>6. w.out \in Seq(Seq(Part)) /\ Whole(w.out, 2)
    BY <1>4, <2>2, <2>3, <2>4, <2>5, WholeAppend
  <2>7. ASSUME Follows(half, g, r) PROVE Whole(w.out, 1)
    BY <1>4, <2>2, <2>3, <2>4, <2>7, WholeAppend
  <2>8. w.half \in Seq(Part) /\ Follows(w.half, g, j + 1) BY <2>3 DEF Follows
  <2> QED BY <1>1, <1>2, <1>3, <2>6, <2>7, <2>8 DEF Framed
<1>6. CASE v.half = <<>>
  <2>1. w.half = (IF p.part = 1 THEN <<p>> ELSE <<>>) /\ w.out = v.out
    BY <1>3, <1>6 DEF Turn
  <2>2. p.part = 1 <=> (j + 1) % 2 = 1
    <3>1. j + 1 \in Int OBVIOUS
    <3> QED BY <1>2, <3>1, Pairs
  <2>3. Follows(w.half, g, j + 1) BY <1>2, <2>1, <2>2 DEF Follows
  <2>4. w.half \in Seq(Part) BY <2>1
  <2> QED BY <1>1, <1>2, <1>3, <1>4, <2>1, <2>3, <2>4 DEF Framed
<1> QED BY <1>5, <1>6

(* A read of parts that one station sent one after the other: only its first
   message can begin with what the framer held, and if that is of the same
   station it is whole as well. *)
LEMMA PushFramed ==
  ASSUME NEW g \in Gcs, NEW r \in Int, NEW half \in Seq(Part), NEW parts \in Seq(Part),
         \A i \in 1..Len(parts) : parts[i] = PartOf(g, r + i)
  PROVE  Framed(FramerPush(half, parts), half, g, r, Len(parts))
<1>1. PICK n \in Nat : n = Len(parts) OBVIOUS
<1>0. PICK f : PushedBy(half, parts, n, f) BY <1>1, PushIsRun, Zenon
<1>2. /\ f[0] = Fed(half) /\ FramerPush(half, parts) = f[n]
      /\ \A i \in 1..n : f[i] = Turn(f[i - 1], parts[i])
  BY <1>0, Zenon DEF PushedBy
<1> DEFINE S == {i \in 0..n : Framed(f[i], half, g, r, i)}
<1>3. 0 \in S
  <2>1. PICK v : v = Fed(half) OBVIOUS
  <2>2. v.half = half /\ v.out = <<>> BY <2>1 DEF Fed
  <2>3. <<>> \in Seq(Seq(Part)) /\ r + 0 = r /\ ~(0 > 0) OBVIOUS
  <2>4. Whole(v.out, 1) /\ Whole(v.out, 2) BY <2>2 DEF Whole
  <2>5. Framed(v, half, g, r, 0) BY <2>1, <2>2, <2>3, <2>4 DEF Framed
  <2> QED BY <1>2, <2>1, <2>5
<1>4. ASSUME NEW i \in 0..(n - 1), i \in S PROVE i + 1 \in S
  <2>1. i \in Nat /\ i + 1 \in 1..n /\ i + 1 \in 0..n /\ (i + 1) - 1 = i OBVIOUS
  <2>2. r + i + 1 = r + (i + 1) BY <2>1
  <2>3. parts[i + 1] = PartOf(g, r + i + 1) /\ parts[i + 1] \in Part BY <1>1, <2>1, <2>2
  <2>4. Framed(Turn(f[i], PartOf(g, r + i + 1)), half, g, r, i + 1)
    BY <1>4, <2>1, <2>3, TurnFramed
  <2>5. f[i + 1] = Turn(f[i], PartOf(g, r + i + 1)) BY <1>2, <2>1, <2>3
  <2> QED BY <2>1, <2>4, <2>5
<1> HIDE DEF S
<1>5. n \in S
  <2>1. \A k \in 0..n : k \in S BY <1>3, <1>4, UpTo
  <2> QED BY <2>1
<1> QED BY <1>1, <1>2, <1>5 DEF S
-----------------------------------------------------------------------------
(* What waits in the socket of a connection are the parts its station sent
   last, one after the other. *)
ReadUpTo(c) == c.sent - Len(c.inbox)
InboxOk(c, g) ==
    /\ c.st = "out" => c.inbox = <<>>
    /\ \A i \in 1..Len(c.inbox) : c.inbox[i] = PartOf(g, ReadUpTo(c) + i)
InboxInv == \A g \in Gcs : InboxOk(net[g], g)

(* A framer holds nothing before a connection was accepted, and goes on with
   the station of the first one as long as that is the only one. *)
FramerOk(k) ==
    /\ endpoints[k].half \in Seq(Part) /\ accepted[k] \in 0..2
    /\ ~endpoints[k].cfg.uplink => endpoints[k].half = <<>>
    /\ accepted[k] # 0 => endpoints[k].cfg.kind = "tcp"
    /\ accepted[k] = 0 => endpoints[k].half = <<>> /\ endpoints[k].clients = {}
    /\ accepted[k] = 1 =>
          \A g \in endpoints[k].clients :
             /\ \A h \in endpoints[k].clients : h = g
             /\ net[g].st # "rst" => Follows(endpoints[k].half, g, ReadUpTo(net[g]))
FramerInv ==
    /\ accepted = [k \in 1..Len(endpoints) |-> accepted[k]]
    /\ \A k \in 1..Len(endpoints) : FramerOk(k)

UplinkInv == InboxInv /\ FramerInv

SeamStep ==
    up' # up =>
        /\ \A m \in 2..Len(up') : IsMessage(up'[m])
        /\ Len(up') > 0 /\ accepted[IndexOf(slots[Current].id)] <= 1 => IsMessage(up'[1])

(* Sockets that are emptied, or are left alone. *)
LEMMA InboxKept ==
  ASSUME RouterInv, InboxInv,
         \A g \in Gcs :
            \/ net'[g].inbox = <<>>
            \/ /\ net'[g].inbox = net[g].inbox /\ net'[g].sent = net[g].sent
               /\ net'[g].st # "out"
  PROVE  InboxInv'
<1> SUFFICES ASSUME NEW g \in Gcs PROVE InboxOk(net'[g], g) BY DEF InboxInv
<1>1. InboxOk(net[g], g) BY DEF InboxInv
<1>2. CASE net'[g].inbox = <<>>
  <2>1. \A i \in 1..Len(<<>>) : FALSE OBVIOUS
  <2> QED BY <1>2, <2>1 DEF InboxOk
<1>3. CASE /\ net'[g].inbox = net[g].inbox /\ net'[g].sent = net[g].sent
           /\ net'[g].st # "out"
  BY <1>1, <1>3 DEF InboxOk, ReadUpTo
<1> QED BY <1>2, <1>3

(* Framers that are left alone, with clients that go or have nothing new. *)
LEMMA FramerKept ==
  ASSUME FramerInv, SamePlaces, accepted' = accepted,
         \A k \in 1..Len(endpoints) :
            /\ endpoints'[k].half = endpoints[k].half
            /\ endpoints'[k].clients \subseteq endpoints[k].clients
            /\ \A g \in endpoints'[k].clients :
                  net'[g].st # "rst" =>
                     net[g].st # "rst" /\ ReadUpTo(net'[g]) = ReadUpTo(net[g])
  PROVE  FramerInv'
<1>1. Len(endpoints') = Len(endpoints) BY DEF SamePlaces
<1>2. ASSUME NEW k \in 1..Len(endpoints) PROVE FramerOk(k)'
  <2>1. FramerOk(k) BY DEF FramerInv
  <2>2. endpoints'[k].cfg = endpoints[k].cfg BY DEF SamePlaces
  <2>3. ASSUME accepted[k] = 1, NEW g \in endpoints'[k].clients
        PROVE  /\ \A h \in endpoints'[k].clients : h = g
               /\ net'[g].st # "rst" => Follows(endpoints'[k].half, g, ReadUpTo(net'[g]))
    <3>1. /\ \A h \in endpoints[k].clients : h = g
          /\ net[g].st # "rst" => Follows(endpoints[k].half, g, ReadUpTo(net[g]))
      BY <2>1, <2>3 DEF FramerOk
    <3> QED BY <2>3, <3>1
  <2> QED BY <2>1, <2>2, <2>3 DEF FramerOk
<1>3. accepted' = [k \in 1..Len(endpoints') |-> accepted'[k]] BY <1>1 DEF FramerInv
<1> QED BY <1>1, <1>2, <1>3 DEF FramerInv

LEMMA UplinkKept ==
  ASSUME UplinkInv, UNCHANGED <<endpoints, accepted, net>>
  PROVE  UplinkInv'
BY DEF UplinkInv, InboxInv, FramerInv, FramerOk

(* Closed or rebuilt endpoints hold nothing. *)
LEMMA EmptiedFramers ==
  ASSUME RouterInv, InboxInv, net' = Dropped(Ids), NEW n \in Nat, Len(endpoints') = n,
         accepted' = [k \in 1..n |-> 0],
         \A k \in 1..n : endpoints'[k].half = <<>> /\ endpoints'[k].clients = {}
  PROVE  UplinkInv'
<1>1. \A g \in Gcs : net'[g].inbox = <<>>
  <2> SUFFICES ASSUME NEW g \in Gcs PROVE net'[g].inbox = <<>> OBVIOUS
  <2>1. CASE net[g].id \in Ids BY <2>1 DEF Dropped, NoConnection
  <2>2. CASE net[g].id \notin Ids
    <3>1. net[g].st = "out" BY <2>2 DEF RouterInv, NetInv
    <3>2. net'[g] = net[g] BY <2>2 DEF Dropped
    <3> QED BY <3>1, <3>2 DEF InboxInv, InboxOk
  <2> QED BY <2>1, <2>2
<1>2. InboxInv' BY <1>1, InboxKept
<1>3. ASSUME NEW k \in 1..n PROVE FramerOk(k)'
  <2>1. endpoints'[k].half = <<>> /\ endpoints'[k].clients = {} /\ accepted'[k] = 0 OBVIOUS
  <2>2. <<>> \in Seq(Part) /\ 0 \in 0..2 OBVIOUS
  <2> QED BY <2>1, <2>2 DEF FramerOk
<1>4. FramerInv' BY <1>3 DEF FramerInv
<1> QED BY <1>2, <1>4 DEF UplinkInv
-----------------------------------------------------------------------------
(* What goes up for one slot, and what its framer keeps. *)
Handled(k, g, j) ==
    /\ up' # up =>
         /\ \A m \in 2..Len(up') : IsMessage(up'[m])
         /\ Len(up') > 0 /\ accepted[k] <= 1 => IsMessage(up'[1])
    /\ endpoints'[k].half \in Seq(Part)
    /\ ~endpoints[k].cfg.uplink => endpoints'[k].half = <<>>
    /\ accepted[k] <= 1 => Follows(endpoints'[k].half, g, j)
    /\ \A i \in 1..Len(endpoints) : i # k => endpoints'[i].half = endpoints[i].half

LEMMA HandleFramed ==
  ASSUME RouterInv, UplinkInv, NEW k \in 1..Len(endpoints), NEW peer,
         NEW g \in Gcs, NEW r \in Int, NEW parts \in Seq(Part),
         \A i \in 1..Len(parts) : parts[i] = PartOf(g, r + i),
         accepted[k] <= 1 => Follows(endpoints[k].half, g, r),
         HandleEndpointData(k, parts, peer)
  PROVE  Handled(k, g, r + Len(parts))
<1>1. PICK v : v = FramerPush(endpoints[k].half, parts) OBVIOUS
<1>2. FramerOk(k) BY DEF UplinkInv, FramerInv
<1>3. PICK half \in Seq(Part) : half = endpoints[k].half BY <1>2 DEF FramerOk
<1>4. Framed(v, half, g, r, Len(parts)) BY <1>1, <1>3, PushFramed
<1>5. \A i \in 1..Len(endpoints) :
         endpoints'[i].half = IF i = k /\ endpoints[k].cfg.uplink THEN v.half
                              ELSE endpoints[i].half
  BY <1>1, DataHandled DEF RouterInv
<1>6. /\ v.half \in Seq(Part) /\ v.out \in Seq(Seq(Part)) /\ Whole(v.out, 2)
      /\ Follows(half, g, r) => Follows(v.half, g, r + Len(parts)) /\ Whole(v.out, 1)
  BY <1>4 DEF Framed
<1>7. CASE endpoints[k].cfg.uplink
  <2>1. up' = v.out BY <1>1, <1>7 DEF HandleEndpointData
  <2>2. endpoints'[k].half = v.half BY <1>5, <1>7
  <2>3. \A m \in 2..Len(up') : IsMessage(up'[m]) BY <1>6, <2>1, Zenon DEF Whole
  <2>4. ASSUME Len(up') > 0, accepted[k] <= 1 PROVE IsMessage(up'[1])
    <3>1. \A m \in 1..Len(up') : IsMessage(up'[m])
      BY <1>3, <1>6, <2>1, <2>4, Zenon DEF Whole
    <3>2. Len(up') \in Nat BY <1>6, <2>1
    <3>3. 1 \in 1..Len(up') BY <2>4, <3>2
    <3> QED BY <3>1, <3>3, Zenon
  <2> QED BY <1>3, <1>5, <1>6, <1>7, <2>2, <2>3, <2>4 DEF Handled
<1>8. CASE ~endpoints[k].cfg.uplink
  <2>1. up' = up BY <1>8 DEF HandleEndpointData
  <2>2. endpoints'[k].half = <<>> BY <1>2, <1>5, <1>8 DEF FramerOk
  <2> QED BY <1>5, <1>8, <2>1, <2>2 DEF Follows, Handled
<1> QED BY <1>7, <1>8

LEMMA WalkClientUplink ==
  ASSUME RouterInv, UplinkInv, WalkClient
  PROVE  UplinkInv' /\ SeamStep
<1>1. poll = "walk" /\ todo # {} /\ accepted' = accepted BY DEF WalkClient, Here
<1>2. PICK k \in 1..Len(endpoints) :
         /\ slots[Current].id = endpoints[k].id /\ IndexOf(slots[Current].id) = k
         /\ slots[Current].client # Listen => slots[Current].client \in endpoints[k].clients
  BY <1>1, CurrentFacts DEF RouterInv
<1>3. PICK g : g = slots[Current].client OBVIOUS
<1>4. g \in endpoints[k].clients BY <1>2, <1>3 DEF WalkClient
<1>5. g \in Gcs /\ net[g] \in Connection /\ net \in [Gcs -> Connection]
  BY <1>4 DEF RouterInv, EndpointsInv, NetInv
<1>6. FramerOk(k) /\ InboxOk(net[g], g) BY <1>5 DEF UplinkInv, FramerInv, InboxInv
<1>7. CASE UNCHANGED <<endpoints, up, net>>
  BY <1>1, <1>7, UplinkKept DEF SeamStep
<1>8. CASE /\ HandleEndpointData(k, net[g].inbox, endpoints[k].peer)
           /\ net' = [net EXCEPT ![g].inbox = <<>>] /\ net[g].st # "rst"
  <2>1. PICK r \in Int, parts \in Seq(Part) :
           /\ r = ReadUpTo(net[g]) /\ parts = net[g].inbox /\ r + Len(parts) = net[g].sent
    <3>1. PICK q \in Seq(Part), n \in Nat : q = net[g].inbox /\ n = net[g].sent
      BY <1>5 DEF Connection
    <3>2. PICK m \in Nat : m = Len(q) BY <3>1
    <3>3. n - m \in Int /\ (n - m) + m = n OBVIOUS
    <3> QED BY <3>1, <3>2, <3>3 DEF ReadUpTo
  <2>2. \A i \in 1..Len(parts) : parts[i] = PartOf(g, r + i) BY <1>6, <2>1 DEF InboxOk
  <2>3. accepted[k] <= 1 => Follows(endpoints[k].half, g, r)
    BY <1>4, <1>6, <1>8, <2>1 DEF FramerOk
  <2>4. HandleEndpointData(k, parts, endpoints[k].peer) BY <1>8, <2>1
  <2>5. Handled(k, g, net[g].sent)
    <3>1. Handled(k, g, r + Len(parts)) BY <1>5, <2>2, <2>3, <2>4, HandleFramed
    <3> QED BY <2>1, <3>1
  <2>6. SeamStep BY <1>2, <2>5 DEF SeamStep, Handled
  <2>7. /\ SamePlaces
        /\ \A i \in 1..Len(endpoints) : endpoints'[i].clients = endpoints[i].clients
    BY <2>4, DataHandled DEF RouterInv
  <2>8. /\ net'[g].inbox = <<>> /\ net'[g].sent = net[g].sent /\ net'[g].st = net[g].st
        /\ \A h \in Gcs : h # g => net'[h] = net[h]
    <3>1. PICK c : c = [net[g] EXCEPT !.inbox = <<>>] OBVIOUS
    <3>2. c.inbox = <<>> /\ c.sent = net[g].sent /\ c.st = net[g].st
      BY <1>5, <3>1 DEF Connection
    <3>3. net' = [net EXCEPT ![g] = c] BY <1>8, <3>1
    <3> QED BY <1>5, <3>2, <3>3
  <2>9. InboxInv'
    <3>1. InboxInv BY DEF UplinkInv
    <3>2. \A h \in Gcs : net[h].st = "out" => net[h].inbox = <<>>
      BY <3>1 DEF InboxInv, InboxOk
    <3>3. \A h \in Gcs : \/ net'[h].inbox = <<>>
                         \/ /\ net'[h].inbox = net[h].inbox /\ net'[h].sent = net[h].sent
                            /\ net'[h].st # "out"
      BY <2>8, <3>2
    <3> QED BY <3>1, <3>3, InboxKept
  <2>10. ReadUpTo(net'[g]) = net[g].sent
    <3>1. net[g].sent \in Nat BY <1>5 DEF Connection
    <3>2. Len(<<>>) = 0 /\ net[g].sent - 0 = net[g].sent BY <3>1
    <3> QED BY <2>8, <3>2 DEF ReadUpTo
  <2>11. ASSUME NEW i \in 1..Len(endpoints) PROVE FramerOk(i)'
    <3>1. FramerOk(i) BY DEF UplinkInv, FramerInv
    <3>2. endpoints'[i].cfg = endpoints[i].cfg /\ endpoints'[i].clients = endpoints[i].clients
      BY <2>7 DEF SamePlaces
    <3>3. CASE i = k
      <4>1. accepted[k] # 0 BY <1>4, <1>6 DEF FramerOk
      <4>2. ASSUME accepted[k] = 1, NEW h \in endpoints[k].clients
            PROVE  /\ \A x \in endpoints[k].clients : x = h
                   /\ Follows(endpoints'[k].half, h, ReadUpTo(net'[h]))
        <5>1. \A x \in endpoints[k].clients : x = h BY <1>6, <4>2 DEF FramerOk
        <5>2. h = g BY <1>4, <5>1
        <5> QED BY <2>5, <2>10, <4>2, <5>1, <5>2 DEF Handled
      <4> QED BY <1>1, <2>5, <3>1, <3>2, <3>3, <4>1, <4>2 DEF FramerOk, Handled
    <3>4. CASE i # k
      <4>1. endpoints'[i].half = endpoints[i].half BY <2>5, <3>4 DEF Handled
      <4>2. g \notin endpoints[i].clients
        <5>1. endpoints[i].id # endpoints[k].id BY <3>4 DEF RouterInv, EndpointsInv
        <5> QED BY <1>4, <5>1 DEF RouterInv, NetInv
      <4>3. \A h \in endpoints[i].clients : h \in Gcs /\ net'[h] = net[h]
        BY <2>8, <4>2 DEF RouterInv, EndpointsInv
      <4> QED BY <1>1, <3>1, <3>2, <4>1, <4>3 DEF FramerOk
    <3> QED BY <3>3, <3>4
  <2>12. FramerInv' BY <1>1, <2>7, <2>11 DEF UplinkInv, FramerInv, SamePlaces
  <2> QED BY <2>6, <2>9, <2>12 DEF UplinkInv
<1> QED BY <1>2, <1>3, <1>7, <1>8 DEF WalkClient, SeamStep

LEMMA WalkDatagramUplink ==
  ASSUME RouterInv, UplinkInv, WalkDatagram
  PROVE  UplinkInv' /\ SeamStep
<1>1. PICK id \in Ids, g \in Gcs :
         /\ HandleEndpointData(IndexOf(id),
                [p \in 1..2 |-> [from |-> g, n |-> (net[g].sent + 1) \div 2, part |-> p]],
                LearnPeer(endpoints[IndexOf(id)], g))
         /\ poll = "walk" /\ todo # {} /\ [id |-> id, client |-> Listen] = slots[Current]
         /\ endpoints[IndexOf(id)].cfg.kind # "tcp"
         /\ UNCHANGED <<toClose, net, accepted>>
  BY Zenon DEF WalkDatagram, Here
<1>2. PICK k \in 1..Len(endpoints) : k = IndexOf(id) BY IndexFacts DEF RouterInv
<1>3. PICK n \in Nat : n = (net[g].sent + 1) \div 2
  <2>1. net[g].sent \in Nat BY DEF RouterInv, NetInv, Connection
  <2> QED BY <2>1
<1>4. PICK parts : parts = [p \in 1..2 |-> [from |-> g, n |-> n, part |-> p]] OBVIOUS
<1>5. HandleEndpointData(k, parts, LearnPeer(endpoints[k], g)) BY <1>1, <1>2, <1>3, <1>4
<1>6. PICK r \in Int : r = 2 * n - 2 OBVIOUS
<1>7. /\ parts \in Seq(Part) /\ Len(parts) = 2
      /\ \A i \in 1..Len(parts) : parts[i] = PartOf(g, r + i)
  <2>1. PICK a, b : a = PartOf(g, r + 1) /\ b = PartOf(g, r + 2) OBVIOUS
  <2>2. a = [from |-> g, n |-> n, part |-> 1]
    <3>1. (r + 1) - 1 = 2 * (n - 1) /\ (2 * (n - 1)) \div 2 = n - 1 /\ (2 * (n - 1)) % 2 = 0
      BY <1>6
    <3> QED BY <2>1, <3>1 DEF PartOf
  <2>3. b = [from |-> g, n |-> n, part |-> 2]
    <3>1. (r + 2) - 1 = 2 * (n - 1) + 1 /\ (2 * (n - 1) + 1) \div 2 = n - 1
          /\ (2 * (n - 1) + 1) % 2 = 1
      BY <1>6
    <3> QED BY <2>1, <3>1 DEF PartOf
  <2>4. a \in Part /\ b \in Part BY <2>2, <2>3 DEF Part
  <2>5. parts[1] = a /\ parts[2] = b BY <1>4, <2>2, <2>3
  <2>6. PICK len \in Nat : len = 2 OBVIOUS
  <2>7. parts \in [1..len -> Part]
    <3>1. \A i \in 1..2 : i = 1 \/ i = 2 OBVIOUS
    <3>2. parts = [i \in 1..len |-> parts[i]] BY <1>4, <2>6
    <3> QED BY <2>4, <2>5, <2>6, <3>1, <3>2
  <2>8. parts \in Seq(Part) /\ Len(parts) = len BY <2>7
  <2> QED BY <2>1, <2>5, <2>6, <2>8
<1>8. /\ FramerOk(k) /\ accepted[k] = 0 /\ endpoints[k].half = <<>>
      /\ endpoints[k].clients = {}
  <2>1. FramerOk(k) BY DEF UplinkInv, FramerInv
  <2> QED BY <1>1, <1>2, <2>1 DEF FramerOk
<1>9. Handled(k, g, r + Len(parts))
  <2>1. accepted[k] <= 1 => Follows(endpoints[k].half, g, r) BY <1>8 DEF Follows
  <2> QED BY <1>5, <1>7, <2>1, HandleFramed
<1>10. SeamStep BY <1>1, <1>2, <1>9 DEF SeamStep, Handled
<1>11. endpoints'[k].half = <<>>
  <2>1. Follows(endpoints'[k].half, g, r + Len(parts)) BY <1>8, <1>9 DEF Handled
  <2>2. r + Len(parts) = 2 * n /\ (2 * n) % 2 = 0 BY <1>6, <1>7
  <2> QED BY <2>1, <2>2 DEF Follows
<1>12. /\ SamePlaces
       /\ \A i \in 1..Len(endpoints) : endpoints'[i].clients = endpoints[i].clients
  BY <1>5, DataHandled DEF RouterInv
<1>13. \A i \in 1..Len(endpoints) : endpoints'[i].half = endpoints[i].half
  BY <1>8, <1>9, <1>11 DEF Handled
<1>14. FramerInv' BY <1>1, <1>12, <1>13, FramerKept DEF UplinkInv
<1>15. InboxInv' BY <1>1 DEF UplinkInv, InboxInv
<1> QED BY <1>10, <1>14, <1>15 DEF UplinkInv

LEMMA WalkAcceptUplink ==
  ASSUME RouterInv, UplinkInv, WalkAccept
  PROVE  UplinkInv' /\ SeamStep
<1>1. PICK id \in Ids, g \in Gcs :
         /\ endpoints[IndexOf(id)].cfg.kind = "tcp"
         /\ net[g].st = "pending"
         /\ net' = [net EXCEPT ![g].st = "open"]
         /\ endpoints' = [endpoints EXCEPT ![IndexOf(id)].clients = @ \cup {g}]
         /\ accepted' = [accepted EXCEPT ![IndexOf(id)] = IF @ = 0 THEN 1 ELSE 2]
         /\ up' = up
  BY Zenon DEF WalkAccept
<1>2. PICK k \in 1..Len(endpoints) : k = IndexOf(id) BY IndexFacts DEF RouterInv
<1>3. SeamStep BY <1>1 DEF SeamStep
<1>4. net \in [Gcs -> Connection] BY DEF RouterInv, NetInv
<1>5. /\ net'[g].st = "open" /\ net'[g].inbox = net[g].inbox /\ net'[g].sent = net[g].sent
      /\ \A h \in Gcs : h # g => net'[h] = net[h]
  <2>1. PICK c : c = [net[g] EXCEPT !.st = "open"] OBVIOUS
  <2>2. c.st = "open" /\ c.inbox = net[g].inbox /\ c.sent = net[g].sent
    BY <1>4, <2>1 DEF Connection
  <2>3. net' = [net EXCEPT ![g] = c] BY <1>1, <2>1
  <2> QED BY <1>4, <2>2, <2>3
<1>6. InboxInv'
  <2>1. \A h \in Gcs : net[h].st = "out" => net[h].inbox = <<>>
    BY DEF UplinkInv, InboxInv, InboxOk
  <2>2. \A h \in Gcs : \/ net'[h].inbox = <<>>
                       \/ /\ net'[h].inbox = net[h].inbox /\ net'[h].sent = net[h].sent
                          /\ net'[h].st # "out"
    BY <1>5, <2>1
  <2> QED BY <2>2, InboxKept DEF UplinkInv
<1>7. /\ Len(endpoints') = Len(endpoints)
      /\ \A i \in 1..Len(endpoints) :
            /\ endpoints'[i].half = endpoints[i].half /\ endpoints'[i].cfg = endpoints[i].cfg
            /\ endpoints'[i].clients = IF i = k THEN endpoints[k].clients \cup {g}
                                       ELSE endpoints[i].clients
  <2>1. endpoints = [i \in 1..Len(endpoints) |-> endpoints[i]] /\ Len(endpoints) \in Nat
        /\ Shaped(endpoints[k])
    BY DEF RouterInv, EndpointsInv
  <2>2. PICK a, b, c, d, w : endpoints[k] = [id |-> a, cfg |-> b, clients |-> c,
                                             peer |-> d, half |-> w]
    BY <2>1, Zenon DEF Shaped
  <2>3. PICK x : x = endpoints[k].clients \cup {g} OBVIOUS
  <2>4. PICK new : new = [endpoints[k] EXCEPT !.clients = x] OBVIOUS
  <2>5. new.half = endpoints[k].half /\ new.cfg = endpoints[k].cfg /\ new.clients = x
    BY <2>2, <2>4
  <2>6. endpoints' = [i \in 1..Len(endpoints) |-> IF i = k THEN new ELSE endpoints[i]]
    BY <1>1, <1>2, <2>1, <2>3, <2>4
  <2>7. Len(endpoints') = Len(endpoints) BY <2>1, <2>6
  <2>8. endpoints'[k] = new /\ \A i \in 1..Len(endpoints) : i # k => endpoints'[i] = endpoints[i]
    BY <2>6
  <2>9. ASSUME NEW i \in 1..Len(endpoints)
        PROVE  /\ endpoints'[i].half = endpoints[i].half /\ endpoints'[i].cfg = endpoints[i].cfg
               /\ endpoints'[i].clients = IF i = k THEN endpoints[k].clients \cup {g}
                                          ELSE endpoints[i].clients
    <3>1. CASE i = k BY <2>3, <2>5, <2>8, <3>1
    <3>2. CASE i # k BY <2>8, <3>2
    <3> QED BY <3>1, <3>2
  <2> QED BY <2>7, <2>9
<1>8. /\ accepted' = [i \in 1..Len(endpoints) |-> accepted'[i]]
      /\ accepted'[k] = IF accepted[k] = 0 THEN 1 ELSE 2
      /\ \A i \in 1..Len(endpoints) : i # k => accepted'[i] = accepted[i]
  <2>1. accepted = [i \in 1..Len(endpoints) |-> accepted[i]] BY DEF UplinkInv, FramerInv
  <2> QED BY <1>1, <1>2, <2>1
<1>9. ASSUME NEW i \in 1..Len(endpoints) PROVE FramerOk(i)'
  <2>1. FramerOk(i) BY DEF UplinkInv, FramerInv
  <2>2. CASE i = k
    <3>1. endpoints[k].half \in Seq(Part) /\ (~endpoints[k].cfg.uplink => endpoints[k].half = <<>>)
      BY <2>1, <2>2 DEF FramerOk
    <3>2. accepted'[k] \in 1..2 BY <1>8
    <3>3. ASSUME accepted'[k] = 1, NEW h \in endpoints'[k].clients
          PROVE  /\ \A x \in endpoints'[k].clients : x = h
                 /\ Follows(endpoints'[k].half, h, ReadUpTo(net'[h]))
      <4>1. endpoints[k].half = <<>> /\ endpoints[k].clients = {}
        BY <1>8, <2>1, <2>2, <3>3 DEF FramerOk
      <4> QED BY <1>7, <3>3, <4>1 DEF Follows
    <3> QED BY <1>1, <1>2, <1>7, <2>2, <3>1, <3>2, <3>3 DEF FramerOk
  <2>3. CASE i # k
    <3>1. \A h \in endpoints[i].clients : h \in Gcs /\ net'[h] = net[h]
      <4>1. \A h \in endpoints[i].clients : h \in Gcs /\ net[h].st \in Held
        BY DEF RouterInv, EndpointsInv, NetInv
      <4>2. net[g].st \notin Held BY <1>1 DEF Held
      <4> QED BY <1>5, <4>1, <4>2
    <3>2. /\ endpoints'[i].half = endpoints[i].half /\ endpoints'[i].cfg = endpoints[i].cfg
          /\ endpoints'[i].clients = endpoints[i].clients /\ accepted'[i] = accepted[i]
      BY <1>7, <1>8, <2>3
    <3> QED BY <2>1, <3>1, <3>2 DEF FramerOk
  <2> QED BY <2>2, <2>3
<1>10. FramerInv' BY <1>7, <1>8, <1>9 DEF FramerInv
<1> QED BY <1>3, <1>6, <1>10 DEF UplinkInv

(* A step that changes the connection of one station. *)
LEMMA OneConnection ==
  ASSUME RouterInv, UplinkInv, UNCHANGED <<endpoints, accepted>>,
         NEW g \in Gcs, NEW c \in Connection, net' = [net EXCEPT ![g] = c],
         InboxOk(c, g),
         net[g].st \in Held /\ c.st # "rst" =>
            net[g].st # "rst" /\ ReadUpTo(c) = ReadUpTo(net[g])
  PROVE  UplinkInv'
<1>1. net \in [Gcs -> Connection] BY DEF RouterInv, NetInv
<1>2. net'[g] = c /\ \A h \in Gcs : h # g => net'[h] = net[h] BY <1>1
<1>3. InboxInv' BY <1>2 DEF UplinkInv, InboxInv
<1>4. ASSUME NEW k \in 1..Len(endpoints), NEW h \in endpoints[k].clients, net'[h].st # "rst"
      PROVE  net[h].st # "rst" /\ ReadUpTo(net'[h]) = ReadUpTo(net[h])
  <2>1. h \in Gcs /\ net[h].st \in Held BY <1>4 DEF RouterInv, EndpointsInv, NetInv
  <2>2. CASE h = g BY <1>2, <1>4, <2>1, <2>2
  <2>3. CASE h # g
    <3>1. net'[h] = net[h] BY <1>2, <2>1, <2>3
    <3> QED BY <1>4, <3>1
  <2> QED BY <2>2, <2>3
<1>5. SamePlaces BY DEF SamePlaces
<1>6. FramerInv' BY <1>4, <1>5, FramerKept DEF UplinkInv
<1> QED BY <1>3, <1>6 DEF UplinkInv

LEMMA GcsUplink ==
  ASSUME RouterInv, UplinkInv, GcsStep
  PROVE  UplinkInv' /\ SeamStep
<1>1. net \in [Gcs -> Connection] BY DEF RouterInv, NetInv
<1>2. UNCHANGED <<endpoints, accepted, up>>
  BY DEF GcsStep, Connect, SendPart, Hangup, Withdraw, SendDatagram,
         routerVars, pollVars, downVars
<1>3. SeamStep BY <1>2 DEF SeamStep
<1>4. \A g \in Gcs : InboxOk(net[g], g) BY DEF UplinkInv, InboxInv
<1>5. \A c, g : c.inbox = <<>> => InboxOk(c, g)
  <2>1. \A i \in 1..Len(<<>>) : FALSE OBVIOUS
  <2> QED BY <2>1 DEF InboxOk
<1>6. ASSUME NEW g \in Gcs, NEW k \in 1..Len(endpoints), Connect(g, k) PROVE UplinkInv'
  <2>1. PICK c : c = [net[g] EXCEPT !.st = "pending", !.id = endpoints[k].id] OBVIOUS
  <2>2. endpoints[k].id \in Nat \X Nat BY DEF RouterInv, EndpointsInv
  <2>3. c \in Connection /\ c.inbox = net[g].inbox BY <1>1, <2>1, <2>2 DEF Connection
  <2>4. net' = [net EXCEPT ![g] = c] /\ net[g].st = "out" BY <1>6, <2>1 DEF Connect
  <2>5. net[g].inbox = <<>> /\ net[g].st \notin Held BY <1>4, <2>4 DEF InboxOk, Held
  <2>6. InboxOk(c, g) BY <1>5, <2>3, <2>5
  <2> QED BY <1>2, <2>3, <2>4, <2>5, <2>6, OneConnection
<1>7. ASSUME NEW g \in Gcs, NEW k \in 1..Len(endpoints), SendDatagram(g, k) PROVE UplinkInv'
  <2>1. PICK old \in Connection : old = net[g] BY <1>1
  <2>2. PICK m \in Nat : m = old.sent + 2 BY DEF Connection
  <2>3. PICK c : c = [old EXCEPT !.sent = m] OBVIOUS
  <2>4. c \in Connection /\ c.inbox = old.inbox BY <2>3 DEF Connection
  <2>5. net' = [net EXCEPT ![g] = c] /\ old.st = "out"
    BY <1>7, <2>1, <2>2, <2>3 DEF SendDatagram
  <2>6. old.inbox = <<>> /\ old.st \notin Held BY <1>4, <2>1, <2>5 DEF InboxOk, Held
  <2>7. InboxOk(c, g) BY <1>5, <2>4, <2>6
  <2> QED BY <1>2, <2>1, <2>4, <2>5, <2>6, <2>7, OneConnection
<1>8. ASSUME NEW g \in Gcs, SendPart(g) PROVE UplinkInv'
  <2>1. PICK old \in Connection : old = net[g] BY <1>1
  <2>2. PICK sent \in Nat, inbox \in Seq(Part) : sent = old.sent /\ inbox = old.inbox
    BY DEF Connection
  <2>3. PICK p : p = [from |-> g, n |-> (sent \div 2) + 1, part |-> (sent % 2) + 1] OBVIOUS
  <2>4. p \in Part
    <3>1. (sent \div 2) + 1 \in Nat /\ (sent % 2) + 1 \in {1, 2} OBVIOUS
    <3> QED BY <2>3, <3>1 DEF Part
  <2>5. p = PartOf(g, sent + 1)
    <3>1. (sent + 1) - 1 = sent OBVIOUS
    <3> QED BY <2>3, <3>1 DEF PartOf
  <2>6. PICK q : q = Append(inbox, p) OBVIOUS
  <2>7. /\ q \in Seq(Part) /\ Len(q) = Len(inbox) + 1 /\ Len(inbox) \in Nat
        /\ q[Len(inbox) + 1] = p /\ \A i \in 1..Len(inbox) : q[i] = inbox[i]
    BY <2>4, <2>6
  <2>8. PICK s \in Nat : s = sent + 1 OBVIOUS
  <2>9. PICK c : c = [[old EXCEPT !.sent = s] EXCEPT !.inbox = q] OBVIOUS
  <2>10. c \in Connection /\ c.st = old.st /\ c.sent = s /\ c.inbox = q
    BY <2>7, <2>9 DEF Connection
  <2>11. net' = [net EXCEPT ![g] = c]
    <3>1. net' = [[net EXCEPT ![g].sent = net[g].sent + 1]
                     EXCEPT ![g].inbox = Append(net[g].inbox, p)]
      BY <1>1, <1>8, <2>1, <2>2, <2>3 DEF SendPart, Connection
    <3>2. PICK mid : mid = [net EXCEPT ![g] = [old EXCEPT !.sent = s]] OBVIOUS
    <3>3. mid = [net EXCEPT ![g].sent = net[g].sent + 1] BY <2>1, <2>2, <2>8, <3>2
    <3>4. mid \in [Gcs -> Connection] /\ mid[g] = [old EXCEPT !.sent = s]
          /\ \A h \in Gcs : h # g => mid[h] = net[h]
      BY <1>1, <3>2 DEF Connection
    <3>5. net' = [mid EXCEPT ![g] = [mid[g] EXCEPT !.inbox = q]]
      BY <2>1, <2>2, <2>6, <3>1, <3>3
    <3> QED BY <1>1, <2>9, <3>4, <3>5
  <2>12. ReadUpTo(c) = ReadUpTo(old)
    <3>1. ReadUpTo(c) = s - Len(q) /\ ReadUpTo(old) = sent - Len(inbox)
      BY <2>2, <2>10 DEF ReadUpTo
    <3> QED BY <2>7, <2>8, <3>1
  <2>13. old.st \in {"pending", "open"} BY <1>8, <2>1 DEF SendPart
  <2>14. ASSUME NEW i \in 1..Len(q) PROVE q[i] = PartOf(g, ReadUpTo(old) + i)
    <3>1. ReadUpTo(old) = sent - Len(inbox) BY <2>2 DEF ReadUpTo
    <3>2. CASE i \in 1..Len(inbox)
      <4>1. InboxOk(old, g) BY <1>4, <2>1
      <4>2. inbox[i] = PartOf(g, ReadUpTo(old) + i) BY <2>2, <3>2, <4>1 DEF InboxOk
      <4> QED BY <2>7, <3>2, <4>2
    <3>3. CASE i \notin 1..Len(inbox)
      <4>1. i = Len(inbox) + 1 BY <2>7, <3>3
      <4>2. ReadUpTo(old) + i = sent + 1 BY <2>7, <3>1, <4>1
      <4> QED BY <2>5, <2>7, <4>1, <4>2
    <3> QED BY <3>2, <3>3
  <2>15. InboxOk(c, g) BY <2>10, <2>12, <2>13, <2>14 DEF InboxOk
  <2> QED BY <1>2, <2>1, <2>10, <2>11, <2>12, <2>13, <2>15, OneConnection
<1>9. ASSUME NEW g \in Gcs, Hangup(g) PROVE UplinkInv'
  <2>1. PICK old \in Connection : old = net[g] /\ old.st = "open"
    BY <1>1, <1>9 DEF Hangup
  <2>2. PICK c \in {[old EXCEPT !.st = "fin"], [old EXCEPT !.st = "rst", !.inbox = <<>>]} :
           net' = [net EXCEPT ![g] = c]
    BY <1>9, <2>1 DEF Hangup
  <2>3. <<>> \in Seq(Part) OBVIOUS
  <2>4. CASE c = [old EXCEPT !.st = "fin"]
    <3>1. /\ c \in Connection /\ c.st = "fin" /\ c.inbox = old.inbox /\ c.sent = old.sent
      BY <2>4 DEF Connection, Held
    <3>2. InboxOk(c, g) /\ ReadUpTo(c) = ReadUpTo(old)
      BY <1>4, <2>1, <3>1 DEF InboxOk, ReadUpTo
    <3> QED BY <1>2, <2>1, <2>2, <3>1, <3>2, OneConnection
  <2>5. CASE c = [old EXCEPT !.st = "rst", !.inbox = <<>>]
    <3>1. c \in Connection /\ c.st = "rst" /\ c.inbox = <<>>
      BY <2>3, <2>5 DEF Connection, Held
    <3>2. InboxOk(c, g) BY <1>5, <3>1
    <3> QED BY <1>2, <2>1, <2>2, <3>1, <3>2, OneConnection
  <2> QED BY <2>2, <2>4, <2>5
<1>10. ASSUME NEW g \in Gcs, Withdraw(g) PROVE UplinkInv'
  <2>1. PICK old \in Connection : old = net[g] /\ old.st = "pending"
    BY <1>1, <1>10 DEF Withdraw
  <2>2. PICK m \in Nat : m = NextMessage(old.sent)
    <3>1. old.sent \in Nat BY DEF Connection
    <3> QED BY <3>1 DEF NextMessage
  <2>3. PICK c : c = NoConnection(m) OBVIOUS
  <2>4. c \in Connection /\ c.inbox = <<>> BY <2>3 DEF NoConnection, Connection, NoId
  <2>5. net' = [net EXCEPT ![g] = c] BY <1>10, <2>1, <2>2, <2>3 DEF Withdraw
  <2>6. InboxOk(c, g) /\ old.st \notin Held BY <1>5, <2>1, <2>4 DEF Held
  <2> QED BY <1>2, <2>1, <2>4, <2>5, <2>6, OneConnection
<1> QED BY <1>3, <1>6, <1>7, <1>8, <1>9, <1>10 DEF GcsStep

LEMMA EndWalkUplink ==
  ASSUME RouterInv, UplinkInv, EndWalk
  PROVE  UplinkInv' /\ SeamStep
<1>1. /\ endpoints' = [i \in 1..Len(endpoints) |->
                          [endpoints[i] EXCEPT !.clients = @ \ toClose]]
      /\ net' = [g \in Gcs |-> IF g \in toClose THEN NoConnection(NextMessage(net[g].sent))
                               ELSE net[g]]
      /\ up' = <<>> /\ accepted' = accepted
  BY DEF EndWalk, downVars
<1>2. SeamStep
  <2>1. Len(up') = 0 BY <1>1
  <2> QED BY <2>1 DEF SeamStep
<1>3. ASSUME NEW i \in 1..Len(endpoints)
      PROVE  /\ endpoints'[i].half = endpoints[i].half /\ endpoints'[i].id = endpoints[i].id
             /\ endpoints'[i].cfg = endpoints[i].cfg
             /\ endpoints'[i].clients = endpoints[i].clients \ toClose
  <2>1. PICK x : x = endpoints[i].clients \ toClose OBVIOUS
  <2>2. PICK old : old = endpoints[i] OBVIOUS
  <2>3. PICK a, b, c, d, w : old = [id |-> a, cfg |-> b, clients |-> c, peer |-> d, half |-> w]
    <3>1. Shaped(old) BY <2>2 DEF RouterInv, EndpointsInv
    <3> QED BY <3>1, Zenon DEF Shaped
  <2>4. PICK new : new = [old EXCEPT !.clients = x] OBVIOUS
  <2>5. endpoints'[i] = new BY <1>1, <2>1, <2>2, <2>4
  <2>6. new.half = old.half /\ new.id = old.id /\ new.cfg = old.cfg /\ new.clients = x
    BY <2>3, <2>4
  <2> QED BY <2>1, <2>2, <2>5, <2>6
<1>4. Len(endpoints') = Len(endpoints) BY <1>1 DEF RouterInv, EndpointsInv
<1>5. SamePlaces BY <1>3, <1>4 DEF SamePlaces
<1>6. \A g \in Gcs : /\ g \in toClose => net'[g].inbox = <<>>
                     /\ g \notin toClose => net'[g] = net[g]
  BY <1>1 DEF NoConnection
<1>7. \A i \in 1..Len(endpoints) : \A g \in endpoints'[i].clients :
         net'[g] = net[g]
  BY <1>3, <1>6 DEF RouterInv, EndpointsInv
<1>8. FramerInv' BY <1>1, <1>3, <1>5, <1>7, FramerKept DEF UplinkInv
<1>9. InboxInv'
  <2>1. \A g \in Gcs : net[g].st = "out" => net[g].inbox = <<>>
    BY DEF UplinkInv, InboxInv, InboxOk
  <2>2. \A g \in Gcs : \/ net'[g].inbox = <<>>
                       \/ /\ net'[g].inbox = net[g].inbox /\ net'[g].sent = net[g].sent
                          /\ net'[g].st # "out"
    BY <1>6, <2>1
  <2> QED BY <2>2, InboxKept DEF UplinkInv
<1> QED BY <1>2, <1>8, <1>9 DEF UplinkInv

LEMMA UplinkNext ==
  ASSUME RouterInv, UplinkInv, [Next]_vars
  PROVE  UplinkInv' /\ SeamStep
<1>1. CASE UNCHANGED <<endpoints, accepted, net, up>>
  BY <1>1, UplinkKept DEF SeamStep
<1>2. CASE Join
  <2>1. /\ Len(endpoints') = 0 /\ up' = up /\ net' = Dropped(Ids) /\ accepted' = <<>>
    BY <1>2 DEF Join, CloseEndpoints
  <2>2. accepted' = [k \in 1..0 |-> 0] BY <2>1
  <2>3. UplinkInv' BY <2>1, <2>2, EmptiedFramers DEF UplinkInv
  <2> QED BY <2>1, <2>3 DEF SeamStep
<1>3. CASE Rebuild
  <2>1. up' = up BY <1>3 DEF Rebuild
  <2>2. CASE ~dirty
    <3>1. UNCHANGED <<endpoints, accepted, net>> BY <1>3, <2>2 DEF Rebuild, RebuildEndpoints
    <3> QED BY <1>1, <2>1, <3>1
  <2>3. CASE dirty
    <3>1. PICK n \in Nat : n = Len(Wanted) BY WantedFacts DEF RouterInv, PhaseInv
    <3>2. /\ endpoints' = [i \in 1..n |-> Object(Wanted[i], i)]
          /\ net' = Dropped(Ids) /\ accepted' = [i \in 1..n |-> 0]
      BY <1>3, <2>3, <3>1 DEF Rebuild, RebuildEndpoints
    <3>3. Len(endpoints') = n BY <3>2
    <3>4. \A i \in 1..n : endpoints'[i].half = <<>> /\ endpoints'[i].clients = {}
      BY <3>2 DEF Object
    <3>5. UplinkInv' BY <3>2, <3>3, <3>4, EmptiedFramers DEF UplinkInv
    <3> QED BY <2>1, <3>5 DEF SeamStep
  <2> QED BY <2>2, <2>3
<1> QED BY <1>1, <1>2, <1>3, GcsUplink, WalkClientUplink, WalkAcceptUplink,
       WalkDatagramUplink, EndWalkUplink
       DEF Next, MainStep, PollStep, SetEndpoints, Start, Stop, Leave, Collect, PollReturns,
           Lock, WalkPassOver, FeedDownlink, DownlinkFed, vars, routerVars, pollVars,
           netVars, downVars

(* The one framer of an endpoint mixes messages in one place only: whatever
   the cuts TCP makes, the hang-ups and the other clients, at most the first
   message that one read sends up is put together from parts that do not
   belong together, and none on an endpoint that has accepted at most one
   connection since it was built, a UDP one among them, which accepts none
   (router.cpp:255-256, 380-392, 474-478). *)
THEOREM MixedAtTheSeamOnly == Spec => MixedOnlyAtSeam
<1>1. Init => UplinkInv
  <2> SUFFICES ASSUME Init PROVE UplinkInv OBVIOUS
  <2>1. \A g \in Gcs : net[g].inbox = <<>> BY DEF Init, NoConnection
  <2>2. \A i \in 1..Len(<<>>) : FALSE OBVIOUS
  <2>3. InboxInv BY <2>1, <2>2 DEF InboxInv, InboxOk
  <2>4. Len(endpoints) = 0 /\ accepted = <<>> BY DEF Init
  <2>5. accepted = [k \in 1..0 |-> accepted[k]] BY <2>4
  <2>6. FramerInv BY <2>4, <2>5 DEF FramerInv
  <2> QED BY <2>3, <2>6 DEF UplinkInv
<1>2. RouterInv /\ UplinkInv /\ [Next]_vars => UplinkInv' /\ SeamStep BY UplinkNext
<1>3. SeamStep =>
        [up' # up =>
           /\ \A m \in 2..Len(up') : IsMessage(up'[m])
           /\ Len(up') > 0 /\ accepted[IndexOf(slots[Current].id)] <= 1 =>
                IsMessage(up'[1])]_vars
  BY DEF SeamStep
<1> QED BY <1>1, <1>2, <1>3, RouterAlways, PTL DEF Spec, MixedOnlyAtSeam
==============================================================================
