---------------------------- MODULE DeferredWork ----------------------------
(***************************************************************************)
(* One connection of the daemon and the questions it does not answer from   *)
(* its serve loop (zest-daemon server.rs: serve_with, on_bytes, GitDiff,    *)
(* SearchBlocks, Enroll, take_deferred, take_enroll_result).                *)
(*                                                                         *)
(* Three kinds of thread: the reader, which handles a frame under the       *)
(* connection's lock and hands the replies to the writer after letting go;  *)
(* a worker per deferred question, which stores its answer, gives its slot  *)
(* back and wakes the writer; and the writer, which drains under the lock   *)
(* and writes after it.  A step is what one of them does between two places *)
(* where another can see it.  Of a reply only the question is kept: the     *)
(* reply echoes it, and that is all the correlation there is.               *)
(*                                                                         *)
(* An operator named Mutant... is a bug the properties have to catch; no   *)
(* other definition uses it.                                               *)
(***************************************************************************)
EXTENDS Integers, Sequences, SequencesExt, FiniteSets

CONSTANTS
  MaxAsks,    \* bound: how many questions the client asks
  MaxWorkers, \* MAX_DEFERRED, what one connection may have in flight
  Scenes      \* bound: what is asked and what goes wrong, one per behaviour

Questions == 1..MaxAsks
Slotted == {"diff", "search"}
Kinds == Slotted \cup {"file", "enroll"}
Troubles == {"nothread", "leave", "remote", "nohistory"}

ASSUME DeferredAssumption ==
  /\ MaxAsks \in Nat /\ MaxWorkers \in Nat \ {0}
  /\ Scenes \subseteq [asks : SUBSET Kinds, may : SUBSET Troubles]

Nothing == 0

VARIABLES
  scene,     \* what this behaviour is about; it never changes
  kind,      \* [Questions -> what was asked, or "unasked"]
  work,      \* [Questions -> where its worker is]
  running,   \* deferred_running
  deferred,  \* answers that workers have settled
  enrolling, \* enroll_running
  mailbox,   \* enroll_result: the answered enrolment, or Nothing
  reader,    \* its thread, and the replies of the frame it handled
  wakes,     \* the writer's channel
  writer,    \* its thread, and what it has to write
  wire       \* the answers written, in order

vars == <<scene, kind, work, running, deferred, enrolling, mailbox, reader, wakes, writer, wire>>

workVars == <<work, running, deferred, enrolling, mailbox>>
-----------------------------------------------------------------------------
Wake(msgs) == [closed |-> FALSE, msgs |-> msgs] \* Wake::Send, or Wake::Poll when empty
Close == [closed |-> TRUE, msgs |-> <<>>]

Init ==
  /\ scene \in Scenes
  /\ kind = [q \in Questions |-> "unasked"] /\ work = [q \in Questions |-> "none"]
  /\ running = 0 /\ deferred = <<>>
  /\ enrolling = FALSE /\ mailbox = Nothing
  /\ reader = [pc |-> "reads", built |-> <<>>]
  /\ wakes = <<>>
  /\ writer = [pc |-> "waits", out |-> <<>>]
  /\ wire = <<>>

(* Nobody hears a wake when the writer is gone. *)
Wakes(wake) == wakes' = IF writer.pc = "over" THEN wakes ELSE Append(wakes, wake)
-----------------------------------------------------------------------------
(* The reader: one frame under the connection's lock. *)

Hears(q, k) ==
  /\ reader.pc = "reads" /\ k \in scene.asks
  /\ kind[q] = "unasked" /\ \A p \in 1..(q - 1) : kind[p] # "unasked"
  /\ kind' = [kind EXCEPT ![q] = k]
  /\ UNCHANGED <<scene, deferred, mailbox, wakes, writer, wire>>

AnswersNow(q) ==
  /\ reader' = [pc |-> "sends", built |-> <<q>>]
  /\ UNCHANGED <<work, running, enrolling>>

Spawns(q) ==
  /\ reader' = [pc |-> "sends", built |-> <<>>]
  /\ work' = [work EXCEPT ![q] = "runs"]

AskFile(q) == Hears(q, "file") /\ AnswersNow(q)

(* SearchBlocks and GitDiff.  A thread that cannot be started gives back the
   slot it claimed, in the same handler. *)
Claims == running < MaxWorkers
AskDeferred(q, k) ==
  /\ Hears(q, k)
  /\ \/ k = "search" /\ "nohistory" \in scene.may /\ AnswersNow(q)
     \/ ~Claims /\ AnswersNow(q)
     \/ "nothread" \in scene.may /\ AnswersNow(q)
     \/ /\ Claims /\ ~(k = "search" /\ "nohistory" \in scene.may)
        /\ Spawns(q) /\ running' = running + 1 /\ UNCHANGED enrolling

MutantAskEnroll(q) ==
  Hears(q, "enroll") /\ Spawns(q) /\ enrolling' = TRUE /\ UNCHANGED running

(* One enrolment at a time: the mailbox holds one answer. *)
AskEnroll(q) ==
  /\ Hears(q, "enroll")
  /\ \/ ("remote" \in scene.may \/ enrolling) /\ AnswersNow(q)
     \/ "nothread" \in scene.may /\ AnswersNow(q)
     \/ /\ "remote" \notin scene.may /\ ~enrolling
        /\ Spawns(q) /\ enrolling' = TRUE /\ UNCHANGED running

(* The lock is released; a reader whose writer has gone ends. *)
Sends ==
  /\ reader.pc = "sends"
  /\ Wakes(Wake(reader.built))
  /\ reader' = [pc |-> IF writer.pc = "over" THEN "over" ELSE "reads", built |-> <<>>]
  /\ UNCHANGED <<scene, kind, workVars, writer, wire>>

Leaves ==
  /\ reader.pc = "reads" /\ "leave" \in scene.may
  /\ Wakes(Close) /\ reader' = [reader EXCEPT !.pc = "over"]
  /\ UNCHANGED <<scene, kind, workVars, writer, wire>>
-----------------------------------------------------------------------------
(* A worker's thread. *)

MutantSettles(q) ==
  /\ work[q] = "runs"
  /\ work' = [work EXCEPT ![q] = "settled"]
  /\ IF kind[q] = "enroll" THEN mailbox' = q /\ UNCHANGED deferred
     ELSE deferred' = <<q>> /\ UNCHANGED mailbox
  /\ UNCHANGED <<scene, kind, running, enrolling, reader, wakes, writer, wire>>

Settles(q) ==
  /\ work[q] = "runs"
  /\ work' = [work EXCEPT ![q] = "settled"]
  /\ IF kind[q] = "enroll" THEN mailbox' = q /\ UNCHANGED deferred
     ELSE deferred' = Append(deferred, q) /\ UNCHANGED mailbox
  /\ UNCHANGED <<scene, kind, running, enrolling, reader, wakes, writer, wire>>

MutantFrees(q) ==
  /\ work[q] = "settled"
  /\ work' = [work EXCEPT ![q] = "freed"] /\ running' = running - 1
  /\ UNCHANGED <<scene, kind, deferred, enrolling, mailbox, reader, wakes, writer, wire>>

(* "Released before the wake, so a writer that runs immediately sees the slot
   already free." *)
Frees(q) ==
  /\ work[q] = "settled" /\ kind[q] \in Slotted
  /\ work' = [work EXCEPT ![q] = "freed"] /\ running' = running - 1
  /\ UNCHANGED <<scene, kind, deferred, enrolling, mailbox, reader, wakes, writer, wire>>

WakesWriter(q) ==
  /\ work[q] = (IF kind[q] = "enroll" THEN "settled" ELSE "freed")
  /\ work' = [work EXCEPT ![q] = "over"] /\ Wakes(Wake(<<>>))
  /\ UNCHANGED <<scene, kind, running, deferred, enrolling, mailbox, reader, writer, wire>>
-----------------------------------------------------------------------------
(* The writer's loop. *)

Receives ==
  /\ writer.pc = "waits" /\ wakes # <<>>
  /\ wakes' = Tail(wakes)
  /\ writer' = [pc |-> IF Head(wakes).closed THEN "over" ELSE "drains", out |-> Head(wakes).msgs]
  /\ UNCHANGED <<scene, kind, workVars, reader, wire>>

(* take_enroll_result, which frees the mailbox, then take_deferred. *)
Letter == IF mailbox = Nothing THEN <<>> ELSE <<mailbox>>
Drains ==
  /\ writer.pc = "drains"
  /\ LET out == writer.out \o Letter \o deferred
     IN writer' = [pc |-> IF out = <<>> THEN "waits" ELSE "writes", out |-> out]
  /\ mailbox' = Nothing /\ enrolling' = (enrolling /\ mailbox = Nothing)
  /\ deferred' = <<>>
  /\ UNCHANGED <<scene, kind, work, running, reader, wakes, wire>>

(* Each message is sealed under the lock and written after it. *)
Writes ==
  /\ writer.pc = "writes"
  /\ wire' = Append(wire, Head(writer.out))
  /\ writer' = [pc |-> IF Tail(writer.out) = <<>> THEN "waits" ELSE "writes",
                out |-> Tail(writer.out)]
  /\ UNCHANGED <<scene, kind, workVars, reader, wakes>>

WriteFails ==
  /\ writer.pc = "writes" /\ "leave" \in scene.may
  /\ writer' = [pc |-> "over", out |-> <<>>]
  /\ UNCHANGED <<scene, kind, workVars, reader, wakes, wire>>
-----------------------------------------------------------------------------
Asks(q) == AskFile(q) \/ AskEnroll(q) \/ \E k \in Slotted : AskDeferred(q, k)
WorkerStep(q) == Settles(q) \/ Frees(q) \/ WakesWriter(q)
WriterStep == Receives \/ Drains \/ Writes

Next ==
  \/ \E q \in Questions : Asks(q) \/ WorkerStep(q)
  \/ Sends \/ Leaves \/ WriterStep \/ WriteFails

(* The threads run and their system calls return (git and the control plane
   have timeouts); the client owes nothing. *)
Fairness ==
  /\ WF_vars(Sends) /\ WF_vars(WriterStep)
  /\ \A q \in Questions : WF_vars(WorkerStep(q))

Spec == Init /\ [][Next]_vars
FairSpec == Spec /\ Fairness
-----------------------------------------------------------------------------
(* The connection's variables keep to their types. *)
TypeOK ==
  /\ scene \in Scenes
  /\ kind \in [Questions -> Kinds \cup {"unasked"}]
  /\ work \in [Questions -> {"none", "runs", "settled", "freed", "over"}]
  /\ running \in Nat /\ deferred \in Seq(Questions)
  /\ enrolling \in BOOLEAN /\ mailbox \in Questions \cup {Nothing}
  /\ reader \in [pc : {"reads", "sends", "over"}, built : Seq(Questions)]
  /\ wakes \in Seq([closed : BOOLEAN, msgs : Seq(Questions)])
  /\ writer \in [pc : {"waits", "drains", "writes", "over"}, out : Seq(Questions)]
  /\ wire \in Seq(Questions)

(* The slots are counted and no more are taken than there are; at most one
   enrolment is in flight, and its answer is not overwritten while nobody has
   read it (deferred_running, enroll_running). *)
Holds == {q \in Questions : kind[q] \in Slotted /\ work[q] \in {"runs", "settled"}}
Enrols == {q \in Questions : kind[q] = "enroll" /\ work[q] = "runs"}
WorkIsCounted ==
  /\ running = Cardinality(Holds) /\ running <= MaxWorkers
  /\ \A p, q \in Enrols : p = q
  /\ Enrols # {} => mailbox = Nothing

(* The connection implements Answering: every question gets its one answer,
   from the handler or from a worker, and the last one does not lie in the
   queue until something else wakes the writer (take_deferred, the waker). *)
Whole == INSTANCE Answering
  WITH asked <- {q \in Questions : kind[q] # "unasked"},
       answers <- wire, serves <- writer.pc # "over"
KeepsAnswering == Whole!Spec /\ Whole!NobodyWaitsForever
=============================================================================
