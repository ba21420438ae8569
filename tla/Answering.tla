----------------------------- MODULE Answering -----------------------------
(***************************************************************************)
(* What a connection of the daemon promises about its reply-only questions *)
(* (a file, a diff, a search, an enrolment), whoever works them out: each   *)
(* is answered, once, in any order, for as long as the connection serves    *)
(* (zest-daemon server.rs, on_bytes and the writer loop).                   *)
(***************************************************************************)
EXTENDS Naturals, Sequences, SequencesExt

CONSTANT Questions \* what the client will ever ask

VARIABLES
  asked,   \* the questions the host has read
  answers, \* the answers on the wire, each named by its question
  serves   \* the connection has a writer

Answered == ToSet(answers)

Init == asked = {} /\ answers = <<>> /\ serves = TRUE

Ask(q) == q \notin asked /\ asked' = asked \cup {q} /\ UNCHANGED <<answers, serves>>

Answer(q) ==
  /\ serves /\ q \in asked \ Answered
  /\ answers' = Append(answers, q) /\ UNCHANGED <<asked, serves>>

Ends == serves /\ serves' = FALSE /\ UNCHANGED <<asked, answers>>

Next == Ends \/ \E q \in Questions : Ask(q) \/ Answer(q)

Spec == Init /\ [][Next]_<<asked, answers, serves>>

(* No caller waits for ever on an answer that another one received. *)
NobodyWaitsForever == \A q \in Questions : q \in asked ~> q \in Answered \/ ~serves
=============================================================================
