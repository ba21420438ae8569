---------------------------- MODULE LocalEndpoint ----------------------------
(***************************************************************************)
(* One local endpoint of a user, and the processes that look for whoever     *)
(* serves it: a window that finds the daemon or spawns one                  *)
(* (zest-daemon/spawn.rs), and a launch of zesterm that asks the running one *)
(* to open its window (zest-app/instance.rs, main.rs, process.rs).  Both    *)
(* claim the path with LocalListener (zest-daemon/local.rs, unix).          *)
(*                                                                         *)
(* A step is one system call that others can see between: connect, open and *)
(* flock of the lock file, unlink, rename; and one step of an acceptor's    *)
(* thread or of the event loop.  Budgets run out whenever they like.  What  *)
(* is said to a daemon after a connection is made is SessionSync's.         *)
(*                                                                         *)
(* An operator named Mutant... is a bug the properties have to catch; no   *)
(* other definition uses it.                                               *)
(***************************************************************************)
EXTENDS Integers, FiniteSets

CONSTANTS
  Launches, \* the processes started, one after another or at once
  MaxTries, \* bound: how often a launch that lost the claim asks again (50)
  Scenes    \* bound: what is launched and what may happen, one per behaviour

(* A window is given a daemon; the rest are launches of zesterm: plain, with
   --profile (asks, does not serve), with --new-instance (serves, does not ask). *)
Kinds == {"window", "plain", "profile", "separate"}
Deeds == {"quit", "kill", "broken", "otherbuild", "stale"}

ASSUME EndpointAssumption ==
  /\ Launches \subseteq Nat /\ IsFiniteSet(Launches) /\ MaxTries \in Nat \ {0}
  /\ \A s \in Scenes : s.kind \in [Launches -> Kinds] /\ s.may \subseteq Deeds

VARIABLES
  scene,    \* the scene of this behaviour; it never changes
  launch,   \* [Launches -> where it is, how often it has asked, what came of it]
  server,   \* [Launches -> the life of the process that may serve: a window's
            \*   daemon, a launch itself]
  lockFile, \* the file the name <path>.lock leads to, or None
  opened,   \* [Launches -> the lock file its process has open, or None]
  holder,   \* [Files -> who holds the flock, or None]
  socket,   \* whose listener the path leads to, dead or alive, or None
  request,  \* [Launches -> whom it asked, how far the acceptor's thread is with
            \*   it (at), whether it lies in pending_opens (parked), whether its
            \*   OpenRequested is queued for the loop (event), whether the loop
            \*   has opened its window and answered (ok), what was written back]
  windows   \* [Launches -> how many windows were opened for it]

vars == <<scene, launch, server, lockFile, opened, holder, socket, request, windows>>
lockVars == <<lockFile, opened, holder>>
askVars == <<request, windows>>

None == -1
Files == 0..Cardinality(Launches)
Dead == -2  \* a process of an earlier day, which left its socket behind
-----------------------------------------------------------------------------
Unasked ==
  [to |-> None, at |-> "none", parked |-> FALSE, event |-> FALSE, ok |-> FALSE, reply |-> "none"]

Init ==
  /\ scene \in Scenes
  /\ launch = [p \in Launches |-> [pc |-> "new", tries |-> 0, outcome |-> "none"]]
  /\ server = [p \in Launches |-> "none"]
  /\ lockFile \in IF "stale" \in scene.may THEN {None, 0} ELSE {None}
  /\ socket \in IF "stale" \in scene.may THEN {None, Dead} ELSE {None}
  /\ opened = [p \in Launches |-> None]
  /\ holder = [f \in Files |-> None]
  /\ request = [p \in Launches |-> Unasked]
  /\ windows = [p \in Launches |-> 0]

Kind(p) == scene.kind[p]
IsWindow(p) == Kind(p) = "window"
Goes(p, pc) == launch' = [launch EXCEPT ![p].pc = pc]
Ends(p, what) == launch' = [launch EXCEPT ![p].pc = "done", ![p].outcome = what]
Becomes(p, s) == server' = [server EXCEPT ![p] = s]
Serves(p, from, to) == server[p] = from /\ Becomes(p, to)

(* connect: a listener takes it before anybody accepts. *)
Listening == {"bound", "serving", "quitting", "unlinked", "leaving"}
Reached == {q \in Launches : socket = q /\ server[q] \in Listening}
-----------------------------------------------------------------------------
(* LocalListener::bind_exclusive, in the process of p. *)

MutantUnlinksFirst(p) ==
  /\ Serves(p, "open", "flock")
  /\ opened' = [opened EXCEPT ![p] = IF lockFile = None THEN 0 ELSE lockFile]
  /\ lockFile' = opened'[p] /\ socket' = None
  /\ UNCHANGED <<scene, launch, holder, askVars>>

Unused == {f \in Files : f # lockFile /\ \A p \in Launches : opened[p] # f}
OpensLock(p) ==
  /\ Serves(p, "open", "flock")
  /\ lockFile' = IF lockFile = None THEN CHOOSE f \in Unused : TRUE ELSE lockFile
  /\ opened' = [opened EXCEPT ![p] = lockFile']
  /\ UNCHANGED <<scene, launch, holder, socket, askVars>>

MutantCloses(p) == opened' = [opened EXCEPT ![p] = None] /\ UNCHANGED holder

(* A lock file is closed, and what it held with it. *)
Closes(p) ==
  /\ opened' = [opened EXCEPT ![p] = None]
  /\ holder' = [f \in Files |-> IF holder[f] = p THEN None ELSE holder[f]]

Flocks(p) ==
  /\ server[p] = "flock"
  /\ IF holder[opened[p]] = None
     THEN /\ holder' = [holder EXCEPT ![opened[p]] = p]
          /\ Becomes(p, "unlink") /\ UNCHANGED opened
     ELSE Closes(p) /\ Becomes(p, "lost")
  /\ UNCHANGED <<scene, launch, lockFile, socket, askVars>>

UnlinksStale(p) ==
  /\ Serves(p, "unlink", "bind")
  /\ socket' = None
  /\ UNCHANGED <<scene, launch, lockVars, askVars>>

(* bind_private renames a socket that is listening already; its staging
   directory may be in the way. *)
Binds(p) ==
  /\ \/ Serves(p, "bind", "bound") /\ socket' = p /\ UNCHANGED <<opened, holder>>
     \/ "broken" \in scene.may /\ Serves(p, "bind", "lost") /\ Closes(p) /\ UNCHANGED socket
  /\ UNCHANGED <<scene, launch, lockFile, askVars>>
-----------------------------------------------------------------------------
(* find_or_spawn, and the daemon it starts. *)

Finds(p) ==
  /\ IsWindow(p) /\ launch[p].pc \in {"new", "polls"} /\ Reached # {}
  /\ Ends(p, "attached")
  /\ UNCHANGED <<scene, server, lockVars, socket, askVars>>

Spawns(p) ==
  /\ IsWindow(p) /\ launch[p].pc = "new" /\ Reached = {}
  /\ Goes(p, "polls") /\ Becomes(p, "starting")
  /\ UNCHANGED <<scene, lockVars, socket, askVars>>

(* Not there: has the child gone?  Not yet: try again, until the deadline. *)
Misses(p) ==
  /\ launch[p].pc = "polls" /\ Reached = {}
  /\ Goes(p, "looks")
  /\ UNCHANGED <<scene, server, lockVars, socket, askVars>>

Looks(p) ==
  /\ launch[p].pc = "looks"
  /\ IF server[p] = "dead" THEN Ends(p, "exited") ELSE Goes(p, "polls")
  /\ UNCHANGED <<scene, server, lockVars, socket, askVars>>

Deadline(p) ==
  /\ launch[p].pc = "polls" /\ Ends(p, "timeout")
  /\ UNCHANGED <<scene, server, lockVars, socket, askVars>>

(* A daemon without its credentials exits before it listens, one that lost the
   claim after. *)
DaemonRuns(p) ==
  /\ IsWindow(p)
  /\ \/ Serves(p, "starting", "open")
     \/ "broken" \in scene.may /\ Serves(p, "starting", "dead")
     \/ Serves(p, "lost", "dead")
     \/ Serves(p, "bound", "serving")
  /\ UNCHANGED <<scene, launch, lockVars, socket, askVars>>
-----------------------------------------------------------------------------
(* A launch of zesterm: forward, claim, forward again, and its own window. *)

Asks(p) ==
  /\ Kind(p) \in {"plain", "profile"} /\ launch[p].pc = "new"
  /\ \E q \in Reached : request' = [request EXCEPT ![p] = [Unasked EXCEPT !.to = q, !.at = "sent"]]
  /\ Goes(p, "asking")
  /\ UNCHANGED <<scene, server, lockVars, socket, windows>>

(* NoInstance: the first time the endpoint is claimed, later it is tried again. *)
ClaimsIt(p) == Goes(p, "claiming") /\ Becomes(p, "open")
Alone(p) ==
  IF launch[p].tries = 0 /\ Kind(p) = "plain" THEN ClaimsIt(p)
  ELSE /\ IF launch[p].tries \in 1..(MaxTries - 1)
          THEN launch' = [launch EXCEPT ![p].pc = "new", ![p].tries = @ + 1]
          ELSE Goes(p, "opening")
       /\ UNCHANGED server

FindsNobody(p) ==
  /\ Kind(p) \in {"plain", "profile"} /\ launch[p].pc = "new" /\ Reached = {}
  /\ Alone(p)
  /\ UNCHANGED <<scene, lockVars, socket, askVars>>

AsksNobody(p) ==
  /\ Kind(p) = "separate" /\ launch[p].pc = "new"
  /\ ClaimsIt(p)
  /\ UNCHANGED <<scene, lockVars, socket, askVars>>

ClaimEnds(p) ==
  /\ launch[p].pc = "claiming"
  /\ \/ server[p] = "bound" /\ Goes(p, "opening") /\ UNCHANGED server
     \/ /\ Serves(p, "lost", "none")
        /\ IF Kind(p) = "plain"
           THEN launch' = [launch EXCEPT ![p].pc = "new", ![p].tries = 1]
           ELSE Goes(p, "opening")
  /\ UNCHANGED <<scene, lockVars, socket, askVars>>

OpensOwn(p) ==
  /\ launch[p].pc = "opening" /\ Ends(p, "own")
  /\ windows' = [windows EXCEPT ![p] = @ + 1]
  /\ UNCHANGED <<scene, server, lockVars, socket, request>>

(* The answer; or a connection that ended, before the request was written or
   after; or the budget. *)
Verdict(p) ==
  CASE request[p].reply = "ok" -> Ends(p, "opened")
    [] request[p].reply = "refused" -> Ends(p, "refused")
    [] OTHER -> Goes(p, "opening")
Hears(p) ==
  /\ launch[p].pc = "asking" /\ request[p].reply # "none"
  /\ Verdict(p)
  /\ UNCHANGED <<scene, server, lockVars, socket, askVars>>

(* The stream ended: a request that was not yet read may not have been written,
   nor one behind a greeting that was answered with OtherBuild, and a failed write
   is NoInstance; otherwise it is NoAnswer. *)
Severed(p) ==
  /\ launch[p].pc = "asking"
  /\ LET gone == request[p].reply = "none" /\ server[request[p].to] = "dead"
     IN \/ gone /\ request[p].at = "sent" /\ Alone(p)
        \/ request[p].reply = "other" /\ Alone(p)
        \/ gone /\ Goes(p, "opening") /\ UNCHANGED server
  /\ UNCHANGED <<scene, lockVars, socket, askVars>>

MutantGivesUp(p) ==
  /\ launch[p].pc = "asking" /\ request[p].at = "waits"
  /\ Goes(p, "opening")
  /\ UNCHANGED <<scene, server, lockVars, socket, askVars>>

GivesUp(p) ==
  /\ launch[p].pc = "asking"
  /\ Goes(p, "opening")
  /\ UNCHANGED <<scene, server, lockVars, socket, askVars>>
-----------------------------------------------------------------------------
(* The running instance. *)

(* The first window has painted. *)
Paints(q) ==
  /\ ~IsWindow(q) /\ launch[q].pc = "done" /\ Serves(q, "bound", "serving")
  /\ UNCHANGED <<scene, launch, lockVars, socket, askVars>>

(* The acceptor's thread of p: it reads the greeting and the request, parks it,
   wakes the loop, and waits for the loop's answer.  Only the first window's
   paint starts the acceptor; it runs until the process is gone. *)
Accepting == Listening \ {"bound"}
AtWork(p) == request[p].to \in Launches /\ server[request[p].to] \in Accepting
Says(p, reply) == request' = [request EXCEPT ![p].at = "over", ![p].reply = reply]

Reads(p) ==
  /\ request[p].at = "sent" /\ AtWork(p)
  /\ \/ request' = [request EXCEPT ![p].at = "pushed", ![p].parked = TRUE]
     \/ "otherbuild" \in scene.may /\ Says(p, "other")
  /\ UNCHANGED <<scene, launch, server, lockVars, socket, windows>>

(* Once the loop is gone it cannot be woken, and the request is refused where it
   lies; until then the event is queued, whether or not anybody will handle it. *)
Wakes(p) ==
  /\ request[p].at = "pushed" /\ AtWork(p)
  /\ LET q == server[request[p].to]
     IN \/ /\ q \in {"serving", "quitting"}
           /\ request' = [request EXCEPT ![p].at = "waits", ![p].event = TRUE]
        \/ q # "serving" /\ Says(p, "refused")
  /\ UNCHANGED <<scene, launch, server, lockVars, socket, windows>>

(* The loop's answer is written back; or ANSWER_BUDGET: nothing is said, and the
   request stays where it is. *)
Answers(p) ==
  /\ request[p].at = "waits" /\ AtWork(p)
  /\ Says(p, IF request[p].ok THEN "ok" ELSE "silent")
  /\ UNCHANGED <<scene, launch, server, lockVars, socket, windows>>

ParkedAt(q) == {p \in Launches : request[p].to = q /\ request[p].parked}

MutantLeavesParked(p, r) ==
  LET taken == r \in ParkedAt(request[p].to)
  IN [request[r] EXCEPT !.ok = @ \/ taken, !.event = @ /\ r # p]

(* The event loop handles the OpenRequested of p: it takes everything that is
   parked, opens it, and answers each, also one whose own wake is still to come.
   One thread does all of it, and each answer goes into a channel of its own. *)
Handled(p, r) ==
  LET taken == r \in ParkedAt(request[p].to)
  IN [request[r] EXCEPT !.parked = @ /\ ~taken, !.ok = @ \/ taken, !.event = @ /\ r # p]

OpensParked(p) ==
  /\ request[p].event /\ server[request[p].to] = "serving"
  /\ windows' = [r \in Launches |-> IF r \in ParkedAt(request[p].to) THEN windows[r] + 1 ELSE windows[r]]
  /\ request' = [r \in Launches |-> Handled(p, r)]
  /\ UNCHANGED <<scene, launch, server, lockVars, socket>>

(* It quits: the loop returns, the windows are dropped, then the two names, and
   the process ends with the lock. *)
Quits(q) ==
  /\ "quit" \in scene.may /\ ~IsWindow(q) /\ Serves(q, "serving", "quitting")
  /\ UNCHANGED <<scene, launch, lockVars, socket, askVars>>

UnlinksSocket(q) ==
  /\ Serves(q, "quitting", "unlinked")
  /\ socket' = None
  /\ UNCHANGED <<scene, launch, lockVars, askVars>>

UnlinksLock(q) ==
  /\ Serves(q, "unlinked", "leaving")
  /\ lockFile' = None
  /\ UNCHANGED <<scene, launch, opened, holder, socket, askVars>>

Leaves(q) ==
  /\ Serves(q, "leaving", "dead") /\ Closes(q)
  /\ UNCHANGED <<scene, launch, lockFile, socket, askVars>>

(* Killed, it unlinks nothing: the flock goes with it, the names stay. *)
Killed(q) ==
  /\ "kill" \in scene.may /\ server[q] \notin {"none", "dead"}
  /\ Becomes(q, "dead") /\ Closes(q)
  /\ IF IsWindow(q) \/ launch[q].pc = "done" THEN UNCHANGED launch ELSE Ends(q, "killed")
  /\ UNCHANGED <<scene, lockFile, socket, askVars>>
-----------------------------------------------------------------------------
ClaimStep(p) == OpensLock(p) \/ Flocks(p) \/ UnlinksStale(p) \/ Binds(p)
WindowStep(p) == Finds(p) \/ Spawns(p) \/ Misses(p) \/ Looks(p)
LaunchStep(p) ==
  Asks(p) \/ FindsNobody(p) \/ AsksNobody(p) \/ ClaimEnds(p) \/ OpensOwn(p) \/ Hears(p) \/ Severed(p)

Next == \E p \in Launches :
  \/ ClaimStep(p) \/ WindowStep(p) \/ Deadline(p) \/ DaemonRuns(p)
  \/ LaunchStep(p) \/ GivesUp(p)
  \/ Paints(p) \/ Reads(p) \/ Wakes(p) \/ Answers(p) \/ OpensParked(p)
  \/ Quits(p) \/ UnlinksSocket(p) \/ UnlinksLock(p) \/ Leaves(p) \/ Killed(p)

Spec == Init /\ [][Next]_vars

(* A process that was started runs, and its own budgets run out.  Whoever
   serves may be wedged: it owes nothing. *)
Fairness == \A p \in Launches :
  /\ WF_vars(ClaimStep(p)) /\ WF_vars(WindowStep(p)) /\ WF_vars(LaunchStep(p))
  /\ SF_vars(Deadline(p)) /\ WF_vars(GivesUp(p))
FairSpec == Spec /\ Fairness
-----------------------------------------------------------------------------
(* The endpoint's variables keep to their types, and a flock is held by a process
   that has the file open (local.rs Lock). *)
TypeOK ==
  /\ scene \in Scenes
  /\ launch \in [Launches ->
       [pc : {"new", "asking", "claiming", "opening", "polls", "looks", "done"}, tries : 0..MaxTries,
        outcome : {"none", "attached", "exited", "timeout", "own", "opened", "refused", "killed"}]]
  /\ server \in [Launches -> Listening \cup
       {"none", "starting", "open", "flock", "unlink", "bind", "lost", "dead"}]
  /\ lockFile \in Files \cup {None} /\ socket \in Launches \cup {None, Dead}
  /\ opened \in [Launches -> Files \cup {None}] /\ holder \in [Files -> Launches \cup {None}]
  /\ request \in [Launches ->
       [to : Launches \cup {None}, at : {"none", "sent", "pushed", "waits", "over"},
        parked : BOOLEAN, event : BOOLEAN, ok : BOOLEAN,
        reply : {"none", "ok", "refused", "other", "silent"}]]
  /\ \A f \in Files : holder[f] # None => opened[holder[f]] = f

(* While nobody quits, whoever serves is who the path leads to: however many
   start at once and whatever was killed before, no client is cut off on a
   socket that another claim has unlinked (bind_exclusive: the lock comes before
   the unlink). *)
ServesAtItsPath ==
  "quit" \notin scene.may => \A q \in Launches : server[q] = "serving" => socket = q

(* The loop was woken for the request of p (Wakes). *)
Woke(p) == request[p].at = "waits" \/ request[p].reply \in {"ok", "silent"}

(* A launch that ends because another process opened its window has exactly that
   one; one that gave up on the answer has its own, and at most the late one
   besides.  A refused one has none, unless the wake of another launch took its
   request along before its own wake failed (instance.rs: pending.push comes
   before send_event, and open_requested drains all that is parked). *)
OneWindowEach ==
  \A p \in Launches :
    /\ launch[p].outcome = "opened" => windows[p] = 1
    /\ launch[p].outcome = "own" => windows[p] \in 1..2
    /\ launch[p].outcome = "refused" =>
         \/ windows[p] = 0
         \/ windows[p] = 1 /\ \E r \in Launches \ {p} : request[r].to = request[p].to /\ Woke(r)

(* "A launch never hangs": it ends, whatever became of the instance it asked or
   of the daemon it started. *)
NoLaunchHangs == \A p \in Launches : <>(launch[p].pc = "done")
=============================================================================
