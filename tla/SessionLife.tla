---------------------------- MODULE SessionLife ----------------------------
(***************************************************************************)
(* What the registry promises about a session's life, with no locks, no    *)
(* sweeps and no connections: it is kept until somebody asks for it to be  *)
(* closed, or until its shell has ended and somebody has attached to it.   *)
(* Whoever creates a session finds it, however soon its shell is done.     *)
(***************************************************************************)
EXTENDS Naturals

CONSTANTS Sessions

VARIABLES
  kept,   \* the sessions that can be listed and attached to
  over,   \* those whose shell has ended
  met,    \* those somebody has attached to
  doomed, \* those somebody has asked to close
  gone    \* those that are kept no longer

vars == <<kept, over, met, doomed, gone>>

Init == kept = {} /\ over = {} /\ met = {} /\ doomed = {} /\ gone = {}

Begin(s) ==
  /\ s \notin kept \cup gone
  /\ kept' = kept \cup {s}
  /\ UNCHANGED <<over, met, doomed, gone>>

(* Attaching may be under way while the session goes. *)
Meet(s)  == s \in kept \cup gone /\ met' = met \cup {s} /\ UNCHANGED <<kept, over, doomed, gone>>
Finish(s) == s \in kept \cup gone /\ over' = over \cup {s} /\ UNCHANGED <<kept, met, doomed, gone>>

Doom(s) ==
  /\ s \in kept \cup gone
  /\ doomed' = doomed \cup {s}
  /\ kept' = kept \ {s} /\ gone' = gone \cup {s}
  /\ UNCHANGED <<over, met>>

Collect(s) ==
  /\ s \in kept \cap over \cap met
  /\ kept' = kept \ {s} /\ gone' = gone \cup {s}
  /\ UNCHANGED <<over, met, doomed>>

Next == \E s \in Sessions : Begin(s) \/ Meet(s) \/ Finish(s) \/ Doom(s) \/ Collect(s)

Spec == Init /\ [][Next]_vars
=============================================================================
