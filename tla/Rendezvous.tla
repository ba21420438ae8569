----------------------------- MODULE Rendezvous -----------------------------
(***************************************************************************)
(* What the relay room promises about attaches, without its handlers: a    *)
(* ticket brings at most one attach in, and only while it is good; an       *)
(* attach that was let in meets the host it asked for or is refused, and    *)
(* once refused it meets nobody (cloud/packages/relay room.ts, replay.ts).  *)
(***************************************************************************)
CONSTANTS
  Attaches, \* the attaches that browsers will ever make
  Ticket    \* [Attaches -> the ticket each of them carries]

VARIABLES
  stage, \* [Attaches -> how far each has come]
  used   \* the tickets that open nothing any more

Tickets == {Ticket[a] : a \in Attaches}

Init ==
  /\ stage = [a \in Attaches |-> "new"]
  /\ used = {}

(* The ticket is spent before anything is asked of the host. *)
Enter(a) ==
  /\ stage[a] = "new" /\ Ticket[a] \notin used
  /\ used' = used \cup {Ticket[a]}
  /\ stage' \in {[stage EXCEPT ![a] = s] : s \in {"asks", "refused"}}

(* A spent ticket, or one that cannot be recorded. *)
TurnedAway(a) ==
  /\ stage[a] = "new" /\ stage' = [stage EXCEPT ![a] = "refused"]
  /\ used' \in {used, used \cup {Ticket[a]}}

Meets(a)   == stage[a] = "asks" /\ stage' = [stage EXCEPT ![a] = "met"] /\ UNCHANGED used
GivesUp(a) == stage[a] = "asks" /\ stage' = [stage EXCEPT ![a] = "refused"] /\ UNCHANGED used
Expire(ts) == used' = used \cup ts /\ UNCHANGED stage

(* A room that dies takes all who ask with it. *)
Dies ==
  /\ stage' = [a \in Attaches |-> IF stage[a] = "asks" THEN "refused" ELSE stage[a]]
  /\ UNCHANGED used

Next ==
  \/ \E a \in Attaches : Enter(a) \/ TurnedAway(a) \/ Meets(a) \/ GivesUp(a)
  \/ \E ts \in SUBSET Tickets : Expire(ts)
  \/ Dies

Spec == Init /\ [][Next]_<<stage, used>>
=============================================================================
