----------------------------- MODULE SessionKeys -----------------------------
(***************************************************************************)
(* The key files (core/src/wfb/session_keys.cpp) and the receiver that     *)
(* loads one of them.  A key file is a sequence of 32-byte keys: gs.key is *)
(* the ground station's secret and the air unit's public key, drone.key    *)
(* the mirror image.  The files outlive the process, which may be killed   *)
(* between any two steps of GenerateKeyPair; the disk may be full, which   *)
(* the 64 buffered bytes only meet in fclose, whose result is ignored.     *)
(*                                                                         *)
(* External: the way a gs.key reaches the phone and a drone.key the air    *)
(* unit, and what wfb-ng's Aggregator does with a key file.                *)
(***************************************************************************)
EXTENDS WfbReceiver

CONSTANTS
    Fresh,      \* the key pairs crypto_box_keypair may return
    Absent      \* the content of a file that is not there

VARIABLES
    gsKey,      \* content of gs.key, or Absent
    droneKey,   \* content of drone.key, or Absent
    air,        \* the drone.key the air unit runs with, or Absent
    writer,     \* how far GenerateKeyPair is, with which pair
    result,     \* what its last call returned: "none", "ok" or "failed"
    lost,       \* history: bytes of the last call were lost in fclose
    sink,       \* the key file the receiver's streams were made with
    witness     \* history: the air unit's key when a session was accepted

files == <<gsKey, droneKey, air>>
keyVars == <<gsKey, droneKey, air, writer, result, lost, sink, witness>>

Idle == [at |-> "idle", pair |-> "first"]

(* One half of a key pair. *)
Key(end, half, p) == [end |-> end, half |-> half, pair |-> p]

GsFileSwapped(p) == <<Key("gs", "secret", p), Key("gs", "public", p)>>

GsFile(p) == <<Key("gs", "secret", p), Key("drone", "public", p)>>

DroneFile(p) == <<Key("drone", "secret", p), Key("gs", "public", p)>>

(* A file that is not there is not one with keys in it. *)
ASSUME KeysAssumption == \A p \in Fresh : Absent \notin {GsFile(p), DroneFile(p)}

kKeyFileSize == 2

(* ValidateGsKey: exactly the right number of bytes. *)
ValidateGsKey(file) == file # Absent /\ Len(file) = kKeyFileSize

(* The Aggregator reads the two keys it needs and throws when it cannot. *)
Loads(file) == file # Absent /\ Len(file) >= kKeyFileSize

(* Two key files can talk: each holds its own secret and the other's public
   key. *)
Counterpart(secret, public) ==
    /\ secret.half = "secret" /\ public.half = "public"
    /\ secret.end = public.end /\ secret.pair = public.pair

Opens(gs, drone) ==
    /\ Loads(gs) /\ Loads(drone)
    /\ Counterpart(gs[1], drone[2]) /\ Counterpart(drone[1], gs[2])

(* No receiver: receiver_ is null. *)
Forgotten ==
    /\ counts' = Zero /\ sessionSeen' = FALSE /\ hasKey' = FALSE
    /\ paths' = ResetSignal /\ snapshot' = NoSnapshot
    /\ heard' = <<>> /\ basis' = <<>> /\ total' = Zero /\ reported' = Zero
    /\ witness' = Absent

(* A phone with no gs.key, with that of the air unit, or with a file that is
   none, and with the drone.key of an earlier call or without. *)
KeysInit ==
    /\ Init
    /\ gsKey \in {Absent, <<>>, GsFile("first"),
                  Append(GsFile("first"), Key("gs", "public", "first"))}
    /\ droneKey \in {Absent, DroneFile("first")}
    /\ air = DroneFile("first")
    /\ writer = Idle
    /\ result = "none"
    /\ lost = FALSE
    /\ sink = Absent
    /\ witness = Absent
-----------------------------------------------------------------------------
(* GenerateKeyPair: libsodium makes two key pairs, or fails. *)
GenerateKeyPair(p) ==
    /\ writer = Idle
    /\ \/ writer' = [at |-> "gs", pair |-> p] /\ result' = "none"
       \/ writer' = Idle /\ result' = "failed"
    /\ lost' = FALSE
    /\ UNCHANGED <<vars, files, sink, witness>>

(* WriteFile of one of the two files: fopen truncates it, or fails, which
   ends the call. *)
Open ==
    /\ writer.at \in {"gs", "drone"}
    /\ \/ /\ writer' = [writer EXCEPT !.at = IF @ = "gs" THEN "gsOpen" ELSE "droneOpen"]
          /\ gsKey' = IF writer.at = "gs" THEN <<>> ELSE gsKey
          /\ droneKey' = IF writer.at = "drone" THEN <<>> ELSE droneKey
          /\ UNCHANGED result
       \/ /\ writer' = Idle
          /\ result' = "failed"
          /\ UNCHANGED <<gsKey, droneKey>>
    /\ UNCHANGED <<vars, air, lost, sink, witness>>

(* fwrite fills the buffer and fclose empties it onto the disk, all of it or
   as much as there is room for; then drone.key, or the end of the call. *)
Flush ==
    /\ writer.at \in {"gsOpen", "droneOpen"}
    /\ \E n \in 0..kKeyFileSize :
          /\ gsKey' = IF writer.at = "gsOpen"
                      THEN SubSeq(GsFile(writer.pair), 1, n) ELSE gsKey
          /\ droneKey' = IF writer.at = "droneOpen"
                         THEN SubSeq(DroneFile(writer.pair), 1, n) ELSE droneKey
          /\ lost' = (lost \/ n < kKeyFileSize)
    /\ IF writer.at = "gsOpen"
       THEN writer' = [writer EXCEPT !.at = "drone"] /\ UNCHANGED result
       ELSE writer' = Idle /\ result' = "ok"
    /\ UNCHANGED <<vars, air, sink, witness>>

(* The process is killed: the files stay as they are. *)
Crash ==
    /\ writer # Idle \/ sink # Absent
    /\ writer' = Idle
    /\ result' = "none"
    /\ sink' = Absent
    /\ Forgotten
    /\ UNCHANGED <<files, lost>>

(* drone.key is copied onto the air unit. *)
CopyToAir ==
    /\ Loads(droneKey)
    /\ air' = droneKey
    /\ UNCHANGED <<vars, gsKey, droneKey, writer, result, lost, sink, witness>>

(* AddStream makes a Sink, which loads the key; when that throws there is
   no receiver. *)
AddStream ==
    /\ sink = Absent
    /\ Loads(gsKey)
    /\ sink' = gsKey
    /\ Forgotten
    /\ UNCHANGED <<files, writer, result, lost>>

(* Stop drops the receiver. *)
DropReceiver ==
    /\ sink # Absent
    /\ sink' = Absent
    /\ Forgotten
    /\ UNCHANGED <<files, writer, result, lost>>

(* A session packet is only accepted from an air unit whose key opens. *)
Receive(f, rssi) ==
    /\ sink # Absent
    /\ ProcessFrame(f, rssi)
    /\ counts'.session > counts.session => Opens(sink, air)
    /\ witness' = IF counts'.session > counts.session THEN air ELSE witness
    /\ UNCHANGED <<gsKey, droneKey, air, writer, result, lost, sink>>

Report ==
    /\ sink # Absent
    /\ TakeSnapshot
    /\ UNCHANGED keyVars

(* Bound: the strengths of the frames and the key files do not vary at once;
   neither depends on the other. *)
Untouched ==
    /\ gsKey = GsFile("first") /\ droneKey = Absent
    /\ writer = Idle /\ result = "none"
Silent == \A k \in DOMAIN (heard \o basis) : (heard \o basis)[k] = <<>>

KeysNext ==
    /\ \/ \E p \in Fresh : GenerateKeyPair(p)
       \/ Open \/ Flush \/ Crash
       \/ CopyToAir \/ AddStream \/ DropReceiver
       \/ \E f \in FramesOnAir, rssi \in IF Untouched THEN Strengths ELSE {<<>>} :
             Receive(f, rssi)
       \/ Report
    /\ (Untouched \/ Silent)'

KeysSpec == KeysInit /\ [][KeysNext]_<<vars, keyVars>>
-----------------------------------------------------------------------------
(* A pair that GenerateKeyPair reports, and that reached the disk, is usable
   at both ends, whatever was in the files before and whenever an earlier
   call was cut short: gs.key validates, the receiver loads it, and it opens
   the drone.key beside it ("The drone.key must then be copied to the air
   unit", wfb_receiver.h:116). *)
KeysPair ==
    result = "ok" /\ ~lost =>
        ValidateGsKey(gsKey) /\ Loads(gsKey) /\ Opens(gsKey, droneKey)

(* A session is only reported once a session packet was decrypted, "meaning
   the gs.key matches the air unit's drone.key" (wfb_receiver.h:68): the key
   this receiver loaded opened the one the air unit ran with then, although
   either file may have been replaced since. *)
SessionHonest == SessionEstablished => Opens(sink, witness)
==============================================================================
