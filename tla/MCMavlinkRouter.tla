--------------------------- MODULE MCMavlinkRouter ---------------------------
(* Endpoint configurations for model checking. *)
EXTENDS MavlinkRouter, TLC

(* The stations are alike; used where only safety is checked. *)
GcsSymmetry == Permutations(Gcs)

Tcp(n) == [name |-> n, kind |-> "tcp", uplink |-> TRUE]
UdpServer(n) == [name |-> n, kind |-> "udpServer", uplink |-> TRUE]
UdpOut(n) == [name |-> n, kind |-> "udpOut", uplink |-> TRUE]

(* A TCP server next to a UDP server, both with the uplink the app gives them;
   a UDP target next to a port that cannot be bound. *)
MCConfigs == {<<Tcp("a"), UdpServer("b")>>, <<UdpOut("c"), UdpServer("taken")>>}

(* For the liveness: hang-ups and reconfigurations need one TCP server; the
   target takes nothing up (allow_uplink off). *)
MCLiveConfigs ==
    {<<UdpServer("taken"), Tcp("a")>>, <<[UdpOut("c") EXCEPT !.uplink = FALSE]>>}

(* One TCP server that takes messages up. *)
MCOneTcp == {<<Tcp("a")>>}

(* One UDP server. *)
MCOneUdp == {<<UdpServer("b")>>}
==============================================================================
