------------------------------- MODULE MCLink -------------------------------
(***************************************************************************)
(* The radio link: what the receiver counts of it, with the keys it runs   *)
(* with, and what the adaptive link makes of a snapshot.  The two share no *)
(* state, so a behaviour is of one side and leaves the other alone.        *)
(***************************************************************************)
EXTENDS SessionKeys, AdaptiveLink

(* Four ports per link and four links: link 2 is ours, port 1 its video. *)
MCChans == {ChannelId(2, 1), ChannelId(2, 3), ChannelId(1, 1)}

(* A signal with the values of a snapshot that heard nothing, below both
   ranges of the score; one inside the range of the strength and above that of
   the SNR; and a noise grid with values on either side of each threshold. *)
Signal(rssi, snr) == [heard |-> TRUE, rssi |-> rssi, snr |-> snr]
MCSignals == {Signal(-105, 0), Signal(-55, 60)}
MCNoiseGrid == {0, 5, 10, 60, 120}

VARIABLE side    \* whose behaviour this is

LinkInit ==
    /\ KeysInit /\ AlinkInit
    /\ \/ side = "receiver" /\ ~on /\ interval = 1 /\ allow = {}
       \/ side = "alink" /\ gsKey = Absent /\ droneKey = Absent

LinkNext ==
    /\ \/ side = "receiver" /\ KeysNext /\ UNCHANGED alinkVars
       \/ side = "alink" /\ AlinkNext /\ UNCHANGED <<vars, keyVars>>
    /\ UNCHANGED side

LinkSpec == LinkInit /\ [][LinkNext]_<<vars, keyVars, alinkVars, side>>
==============================================================================
