---------------------------- MODULE DeviceTrust ----------------------------
(***************************************************************************)
(* What a public port promises about who is served, with no threads, no    *)
(* timers and no queue: a connection that has proved its device is served  *)
(* when the device is trusted and waits for a person when it is not; a     *)
(* grant is for connections that wait, it makes the device trusted before  *)
(* the connection is served, and who is out stays out.                     *)
(***************************************************************************)
CONSTANTS
  Conns,   \* connections
  Device   \* [Conns -> the device at the other end]

VARIABLES
  standing, \* [Conns -> "stranger", "waiting", "granted", "served" or "out"]
  trust     \* the devices that are trusted

vars == <<standing, trust>>

Init == standing = [c \in Conns |-> "stranger"] /\ trust \subseteq {Device[c] : c \in Conns}

Prove(c) ==
  /\ standing[c] = "stranger"
  /\ standing' = [standing EXCEPT ![c] = IF Device[c] \in trust THEN "served" ELSE "waiting"]
  /\ UNCHANGED trust

(* A person says yes to a device, and to all of its connections that wait. *)
Grant(some) ==
  /\ \A c \in some : standing[c] = "waiting"
  /\ \A c, d \in some : Device[c] = Device[d]
  /\ standing' = [c \in Conns |-> IF c \in some THEN "granted" ELSE standing[c]]
  /\ UNCHANGED trust

Enter(c) ==
  /\ standing[c] = "granted"
  /\ standing' = [standing EXCEPT ![c] = "served"]
  /\ trust' = trust \cup {Device[c]}

Leave(c) == standing' = [standing EXCEPT ![c] = "out"] /\ UNCHANGED trust

Next ==
  \/ \E c \in Conns : Prove(c) \/ Enter(c) \/ Leave(c)
  \/ \E some \in SUBSET Conns : Grant(some)

Spec == Init /\ [][Next]_vars
=============================================================================
