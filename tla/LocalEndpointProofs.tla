------------------------ MODULE LocalEndpointProofs ------------------------
(***************************************************************************)
(* Proofs about LocalEndpoint: however many processes start, are killed and *)
(* leave things behind, the claim on the path keeps one of them serving     *)
(* where it can be reached, and every launch has the windows it was told of. *)
(***************************************************************************)
EXTENDS LocalEndpoint, FiniteSetTheorems, TLAPS

(* A process has the lock file open from the flock on, and holds the flock from
   the unlink on, until it is gone. *)
Claimed == {"unlink", "bind"} \cup Listening
HasOpen == {"flock"} \cup Claimed
LockInv ==
  \A p \in Launches :
    /\ server[p] \in HasOpen <=> opened[p] # None
    /\ server[p] \in Claimed => holder[opened[p]] = p

(* A launch that has not asked, or waits for the answer, has no process that
   serves. *)
LifeInv == \A p \in Launches : launch[p].pc \in {"new", "asking"} => server[p] = "none"

(* While nobody quits the lock file keeps its name, and one holds it. *)
NobodyQuits == "quit" \notin scene.may
PathInv ==
  NobodyQuits =>
    /\ \A p \in Launches : server[p] \notin {"quitting", "unlinked", "leaving"}
    /\ \A p \in Launches : opened[p] # None => opened[p] = lockFile
    /\ \A p \in Launches : server[p] \in {"bound", "serving"} => socket = p

(* What became of a request: the loop takes it once, an event is of one who woke
   it, and a launch asks again only where the request before was not read. *)
AskInv ==
  \A p \in Launches :
    /\ request[p].reply = "none" <=> request[p].at # "over"
    /\ request[p].at # "none" => request[p].to \in Launches
    /\ request[p].at \in {"none", "sent"} \/ request[p].reply = "other" =>
         ~request[p].parked /\ ~request[p].event /\ ~request[p].ok
    /\ request[p].parked => ~request[p].ok
    /\ request[p].reply = "ok" => request[p].ok
    /\ request[p].event => Woke(p)
    /\ launch[p].pc = "asking" => request[p].at # "none"
    /\ launch[p].pc \in {"new", "claiming"} /\ request[p].at # "none" =>
         \/ request[p].at = "sent" /\ server[request[p].to] = "dead"
         \/ request[p].reply = "other"

(* Whoever was opened before its own wake was taken along by another's. *)
TakenAlong(p) == \E r \in Launches \ {p} : request[r].to = request[p].to /\ Woke(r)
EarlyInv == \A p \in Launches : request[p].ok /\ ~Woke(p) => TakenAlong(p)

WindowInv ==
  /\ windows \in [Launches -> 0..2]
  /\ \A p \in Launches :
       /\ launch[p].pc # "done" => launch[p].outcome = "none"
       /\ windows[p] = (IF launch[p].outcome = "own" THEN 1 ELSE 0) + (IF request[p].ok THEN 1 ELSE 0)
       /\ launch[p].outcome = "opened" => request[p].reply = "ok"
       /\ launch[p].outcome = "refused" => request[p].reply = "refused"

(* Inductive: the types need the locks, the path needs both, and the windows
   need what became of the requests. *)
IInv == TypeOK /\ LockInv /\ LifeInv /\ PathInv /\ AskInv /\ EarlyInv /\ WindowInv

-----------------------------------------------------------------------------
(* There is always a file no process has open to make the next lock file of:
   there is one file more than there are processes. *)
LEMMA UnusedExists ==
  ASSUME TypeOK, lockFile = None
  PROVE  (CHOOSE f \in Unused : TRUE) \in Unused
<1> DEFINE n == Cardinality(Launches)
           who == [f \in Files |-> CHOOSE p \in Launches : opened[p] = f]
<1>1. IsFiniteSet(Launches) /\ n \in Nat
  BY EndpointAssumption, FS_CardinalityType
<1>2. IsFiniteSet(Files) /\ Cardinality(Files) = n + 1
  <2>1. 0 \in Int /\ n \in Int /\ ~(0 > n)
    BY <1>1
  <2>2. Cardinality(0..n) = n - 0 + 1 /\ IsFiniteSet(0..n)
    BY <2>1, FS_Interval
  <2> QED
    BY <2>2, <1>1 DEF Files
<1>3. SUFFICES ASSUME Unused = {} PROVE FALSE
  OBVIOUS
<1>4. \A f \in Files : \E p \in Launches : opened[p] = f
  BY <1>3 DEF Unused, None, Files
<1>5. who \in [Files -> Launches] /\ \A f \in Files : opened[who[f]] = f
  BY <1>4
<1>6. n < Cardinality(Files)
  BY <1>1, <1>2
<1>7. \E f, g \in Files : f # g /\ who[f] = who[g]
  <2> HIDE DEF who
  <2> QED
    BY <1>1, <1>2, <1>5, <1>6, FS_PigeonHole
<1> QED
  BY <1>5, <1>7

(* The types by variable: an action is asked only about those it changes. *)
LaunchPCs == {"new", "asking", "claiming", "opening", "polls", "looks", "done"}
Outcomes == {"none", "attached", "exited", "timeout", "own", "opened", "refused", "killed"}
ServerStates == Listening \cup {"none", "starting", "open", "flock", "unlink", "bind", "lost", "dead"}
LaunchType == launch \in [Launches -> [pc : LaunchPCs, tries : 0..MaxTries, outcome : Outcomes]]
ServerType == server \in [Launches -> ServerStates]
LockType ==
  /\ lockFile \in Files \cup {None} /\ opened \in [Launches -> Files \cup {None}]
  /\ holder \in [Files -> Launches \cup {None}]
  /\ \A f \in Files : holder[f] # None => opened[holder[f]] = f
SocketType == socket \in Launches \cup {None, Dead}
AskType ==
  request \in [Launches ->
    [to : Launches \cup {None}, at : {"none", "sent", "pushed", "waits", "over"},
     parked : BOOLEAN, event : BOOLEAN, ok : BOOLEAN,
     reply : {"none", "ok", "refused", "other", "silent"}]]
LEMMA NoneIsNothing == None \notin Launches /\ None \notin Files
BY EndpointAssumption DEF None, Files

LEMMA TypeParts ==
  TypeOK <=> scene \in Scenes /\ LaunchType /\ ServerType /\ LockType /\ SocketType /\ AskType
BY DEF TypeOK, LaunchType, ServerType, LockType, SocketType, AskType, LaunchPCs, Outcomes, ServerStates

LEMMA LaunchMoves ==
  ASSUME LaunchType, NEW p \in Launches
  PROVE  /\ \A pc \in LaunchPCs : Goes(p, pc) => LaunchType'
         /\ \A what \in Outcomes : Ends(p, what) => LaunchType'
BY DEF LaunchType, Goes, Ends, LaunchPCs, Outcomes

LEMMA ServerMoves ==
  ASSUME ServerType, NEW p \in Launches, NEW s \in ServerStates, Becomes(p, s)
  PROVE  ServerType'
BY DEF ServerType, Becomes

LEMMA ClosingKeepsType ==
  ASSUME LockType, NEW p \in Launches, Closes(p), UNCHANGED lockFile
  PROVE  LockType'
BY NoneIsNothing DEF LockType, Closes

LEMMA LaunchTypeStep ==
  ASSUME LaunchType, [Next]_vars
  PROVE  LaunchType'
<1>1. CASE UNCHANGED launch
  BY <1>1 DEF LaunchType
<1>2. ASSUME NEW p \in Launches,
             \/ \E pc \in LaunchPCs : Goes(p, pc)
             \/ \E what \in Outcomes : Ends(p, what)
      PROVE  LaunchType'
  BY <1>2, LaunchMoves
<1>3. ASSUME NEW p \in Launches, Alone(p) PROVE LaunchType'
  <2>1. CASE launch[p].tries \in 1..(MaxTries - 1) /\ launch' = [launch EXCEPT ![p].pc = "new", ![p].tries = @ + 1]
    BY <2>1, EndpointAssumption DEF LaunchType, LaunchPCs
  <2>2. CASE Goes(p, "claiming") \/ Goes(p, "opening")
    BY <2>2, <1>2 DEF LaunchPCs
  <2> QED
    BY <1>3, <2>1, <2>2 DEF Alone, ClaimsIt
<1>4. ASSUME NEW p \in Launches, ClaimEnds(p) PROVE LaunchType'
  <2>1. CASE launch' = [launch EXCEPT ![p].pc = "new", ![p].tries = 1]
    <3>1. 1 \in 0..MaxTries
      BY EndpointAssumption
    <3> QED
      BY <2>1, <3>1 DEF LaunchType, LaunchPCs
  <2>2. CASE Goes(p, "opening")
    BY <2>2, <1>2 DEF LaunchPCs
  <2> QED
    BY <1>4, <2>1, <2>2 DEF ClaimEnds, Serves
<1>5. ASSUME NEW p \in Launches, WindowStep(p) \/ Deadline(p) PROVE LaunchType'
  BY <1>5, <1>2 DEF WindowStep, Finds, Spawns, Misses, Looks, Deadline, LaunchPCs, Outcomes
<1>6. ASSUME NEW p \in Launches, LaunchStep(p) PROVE LaunchType'
  <2>1. CASE FindsNobody(p) \/ Severed(p)
    BY <2>1, <1>2, <1>3 DEF FindsNobody, Severed, LaunchPCs
  <2>2. CASE Asks(p) \/ AsksNobody(p) \/ OpensOwn(p)
    BY <2>2, <1>2 DEF Asks, AsksNobody, ClaimsIt, OpensOwn, LaunchPCs, Outcomes
  <2>3. CASE Hears(p)
    BY <2>3, <1>2 DEF Hears, Verdict, LaunchPCs, Outcomes
  <2> QED
    BY <1>6, <1>4, <2>1, <2>2, <2>3 DEF LaunchStep
<1>7. ASSUME NEW p \in Launches, GivesUp(p) \/ Killed(p) PROVE LaunchType'
  BY <1>7, <1>1, <1>2 DEF GivesUp, Killed, LaunchPCs, Outcomes
<1>8. ASSUME NEW p \in Launches,
             \/ ClaimStep(p) \/ DaemonRuns(p) \/ Paints(p) \/ Reads(p) \/ Wakes(p) \/ Answers(p) \/ OpensParked(p)
             \/ Quits(p) \/ UnlinksSocket(p) \/ UnlinksLock(p) \/ Leaves(p)
      PROVE  UNCHANGED launch
  BY <1>8 DEF ClaimStep, OpensLock, Flocks, UnlinksStale, Binds, DaemonRuns, Paints, Reads, Wakes, Answers,
              OpensParked, Quits, UnlinksSocket, UnlinksLock, Leaves
<1> QED
  BY <1>1, <1>5, <1>6, <1>7, <1>8 DEF Next, vars

LEMMA ServerTypeStep ==
  ASSUME ServerType, [Next]_vars
  PROVE  ServerType'
<1>1. CASE UNCHANGED server
  BY <1>1 DEF ServerType
<1>2. ASSUME NEW p \in Launches, NEW s \in ServerStates, Becomes(p, s) PROVE ServerType'
  BY <1>2, ServerMoves
<1>3. ASSUME NEW p \in Launches, ClaimStep(p) \/ DaemonRuns(p) \/ Paints(p) PROVE ServerType'
  BY <1>3, <1>2 DEF ClaimStep, OpensLock, Flocks, UnlinksStale, Binds, DaemonRuns, Paints, Serves,
                    ServerStates, Listening
<1>4. ASSUME NEW p \in Launches, WindowStep(p) \/ Deadline(p) PROVE ServerType'
  BY <1>4, <1>1, <1>2 DEF WindowStep, Finds, Spawns, Misses, Looks, Deadline, ServerStates
<1>5. ASSUME NEW p \in Launches, LaunchStep(p) \/ GivesUp(p) PROVE ServerType'
  <2>1. ASSUME Alone(p) PROVE ServerType'
    BY <2>1, <1>1, <1>2 DEF Alone, ClaimsIt, ServerStates
  <2> QED
    BY <1>5, <2>1, <1>1, <1>2 DEF LaunchStep, Asks, FindsNobody, AsksNobody, ClaimsIt, ClaimEnds, OpensOwn,
                                  Hears, Severed, GivesUp, Serves, ServerStates
<1>6. ASSUME NEW p \in Launches, Reads(p) \/ Wakes(p) \/ Answers(p) \/ OpensParked(p) PROVE ServerType'
  BY <1>6, <1>1 DEF Reads, Wakes, Answers, OpensParked
<1>7. ASSUME NEW p \in Launches,
             Quits(p) \/ UnlinksSocket(p) \/ UnlinksLock(p) \/ Leaves(p) \/ Killed(p)
      PROVE  ServerType'
  BY <1>7, <1>2 DEF Quits, UnlinksSocket, UnlinksLock, Leaves, Killed, Serves, ServerStates, Listening
<1> QED
  BY <1>1, <1>3, <1>4, <1>5, <1>6, <1>7 DEF Next, vars

LEMMA SocketTypeStep ==
  ASSUME SocketType, [Next]_vars
  PROVE  SocketType'
<1>1. ASSUME NEW p \in Launches, UnlinksStale(p) \/ UnlinksSocket(p) \/ Binds(p) PROVE SocketType'
  BY <1>1 DEF UnlinksStale, UnlinksSocket, Binds, SocketType
<1>2. ASSUME NEW p \in Launches, OpensLock(p) \/ Flocks(p) \/ WindowStep(p) \/ Deadline(p) \/ DaemonRuns(p)
      PROVE  UNCHANGED socket
  BY <1>2 DEF OpensLock, Flocks, WindowStep, Finds, Spawns, Misses, Looks, Deadline, DaemonRuns
<1>3. ASSUME NEW p \in Launches, LaunchStep(p) \/ GivesUp(p) PROVE UNCHANGED socket
  BY <1>3 DEF LaunchStep, Asks, FindsNobody, AsksNobody, ClaimEnds, OpensOwn, Hears, Severed, GivesUp
<1>4. ASSUME NEW p \in Launches,
             \/ Paints(p) \/ Reads(p) \/ Wakes(p) \/ Answers(p) \/ OpensParked(p)
             \/ Quits(p) \/ UnlinksLock(p) \/ Leaves(p) \/ Killed(p)
      PROVE  UNCHANGED socket
  BY <1>4 DEF Paints, Reads, Wakes, Answers, OpensParked, Quits, UnlinksLock, Leaves, Killed
<1> QED
  BY <1>1, <1>2, <1>3, <1>4 DEF Next, vars, ClaimStep, SocketType

LEMMA AskTypeStep ==
  ASSUME AskType, [Next]_vars
  PROVE  AskType'
<1>1. CASE UNCHANGED request
  BY <1>1 DEF AskType
<1>2. ASSUME NEW p \in Launches, Asks(p) PROVE AskType'
  <2>1. PICK q \in Launches : request' = [request EXCEPT ![p] = [Unasked EXCEPT !.to = q, !.at = "sent"]]
    BY <1>2 DEF Asks, Reached
  <2> DEFINE sent == [Unasked EXCEPT !.to = q, !.at = "sent"]
  <2>2. sent \in [to : Launches \cup {None}, at : {"none", "sent", "pushed", "waits", "over"},
                  parked : BOOLEAN, event : BOOLEAN, ok : BOOLEAN,
                  reply : {"none", "ok", "refused", "other", "silent"}]
    BY DEF Unasked
  <2>3. request' = [request EXCEPT ![p] = sent]
    BY <2>1
  <2> HIDE DEF sent
  <2> QED
    BY <2>2, <2>3 DEF AskType
<1>3. ASSUME NEW p \in Launches, Reads(p) \/ Wakes(p) \/ Answers(p) PROVE AskType'
  BY <1>3 DEF Reads, Wakes, Answers, Says, AskType
<1>4. ASSUME NEW p \in Launches, OpensParked(p) PROVE AskType'
  <2>1. \A r \in Launches : Handled(p, r) \in
          [to : Launches \cup {None}, at : {"none", "sent", "pushed", "waits", "over"},
           parked : BOOLEAN, event : BOOLEAN, ok : BOOLEAN,
           reply : {"none", "ok", "refused", "other", "silent"}]
    BY DEF Handled, AskType
  <2> QED
    BY <1>4, <2>1 DEF OpensParked, AskType
<1>5. ASSUME NEW p \in Launches, ClaimStep(p) \/ WindowStep(p) \/ Deadline(p) \/ DaemonRuns(p)
      PROVE  UNCHANGED request
  BY <1>5 DEF ClaimStep, OpensLock, Flocks, UnlinksStale, Binds, WindowStep, Finds, Spawns, Misses, Looks,
              Deadline, DaemonRuns, askVars
<1>6. ASSUME NEW p \in Launches,
             FindsNobody(p) \/ AsksNobody(p) \/ ClaimEnds(p) \/ OpensOwn(p) \/ Hears(p) \/ Severed(p) \/ GivesUp(p)
      PROVE  UNCHANGED request
  BY <1>6 DEF FindsNobody, AsksNobody, ClaimEnds, OpensOwn, Hears, Severed, GivesUp, askVars
<1>7. ASSUME NEW p \in Launches,
             Paints(p) \/ Quits(p) \/ UnlinksSocket(p) \/ UnlinksLock(p) \/ Leaves(p) \/ Killed(p)
      PROVE  UNCHANGED request
  BY <1>7 DEF Paints, Quits, UnlinksSocket, UnlinksLock, Leaves, Killed, askVars
<1> QED
  BY <1>1, <1>2, <1>3, <1>4, <1>5, <1>6, <1>7 DEF Next, LaunchStep, vars

(* A process that has no file open holds none; whoever holds one keeps it. *)
LEMMA LockTypeStep ==
  ASSUME TypeOK, LockInv, [Next]_vars
  PROVE  LockType'
<1> USE TypeParts
<1>1. CASE UNCHANGED lockVars
  BY <1>1 DEF LockType, lockVars
<1>2. ASSUME NEW p \in Launches, OpensLock(p) PROVE LockType'
  <2>1. lockFile' \in Files
    BY <1>2, UnusedExists DEF OpensLock, Unused, LockType
  <2>2. opened[p] = None
    BY <1>2 DEF OpensLock, Serves, LockInv, HasOpen, Claimed, Listening
  <2>3. \A f \in Files : holder[f] # p
    BY <2>2, NoneIsNothing DEF LockType
  <2> QED
    BY <1>2, <2>1, <2>3, NoneIsNothing DEF OpensLock, LockType
<1>3. ASSUME NEW p \in Launches, Flocks(p) PROVE LockType'
  <2>1. opened[p] \in Files
    BY <1>3 DEF Flocks, LockInv, HasOpen, LockType
  <2>2. CASE holder' = [holder EXCEPT ![opened[p]] = p] /\ UNCHANGED <<opened, lockFile>>
    BY <2>1, <2>2 DEF LockType
  <2>3. CASE Closes(p) /\ UNCHANGED lockFile
    BY <2>3, ClosingKeepsType
  <2> QED
    BY <1>3, <2>2, <2>3 DEF Flocks
<1>4. ASSUME NEW p \in Launches, Binds(p) \/ Leaves(p) \/ Killed(p) PROVE LockType'
  BY <1>4, ClosingKeepsType DEF Binds, Leaves, Killed, LockType
<1>5. ASSUME NEW p \in Launches, UnlinksLock(p) PROVE LockType'
  BY <1>5 DEF UnlinksLock, LockType
<1>6. ASSUME NEW p \in Launches, UnlinksStale(p) \/ WindowStep(p) \/ Deadline(p) \/ DaemonRuns(p)
      PROVE  UNCHANGED lockVars
  BY <1>6 DEF UnlinksStale, WindowStep, Finds, Spawns, Misses, Looks, Deadline, DaemonRuns
<1>7. ASSUME NEW p \in Launches, LaunchStep(p) \/ GivesUp(p) PROVE UNCHANGED lockVars
  BY <1>7 DEF LaunchStep, Asks, FindsNobody, AsksNobody, ClaimEnds, OpensOwn, Hears, Severed, GivesUp
<1>8. ASSUME NEW p \in Launches,
             Paints(p) \/ Reads(p) \/ Wakes(p) \/ Answers(p) \/ OpensParked(p) \/ Quits(p) \/ UnlinksSocket(p)
      PROVE  UNCHANGED lockVars
  BY <1>8 DEF Paints, Reads, Wakes, Answers, OpensParked, Quits, UnlinksSocket
<1> QED
  BY <1>1, <1>2, <1>3, <1>4, <1>5, <1>6, <1>7, <1>8 DEF Next, ClaimStep, vars, lockVars

(* Type correctness, given what is known of the locks. *)
LEMMA TypeStep ==
  ASSUME TypeOK, LockInv, [Next]_vars
  PROVE  TypeOK'
<1>1. scene \in Scenes /\ LaunchType /\ ServerType /\ LockType /\ SocketType /\ AskType
  BY TypeParts
<1>2. scene' = scene
  BY DEF Next, vars, ClaimStep, OpensLock, Flocks, UnlinksStale, Binds, WindowStep, Finds, Spawns, Misses,
         Looks, Deadline, DaemonRuns, LaunchStep, Asks, FindsNobody, AsksNobody, ClaimEnds, OpensOwn, Hears,
         Severed, GivesUp, Paints, Reads, Wakes, Answers, OpensParked, Quits, UnlinksSocket, UnlinksLock, Leaves, Killed
<1>3. LaunchType' /\ ServerType' /\ LockType' /\ SocketType' /\ AskType'
  BY <1>1, LaunchTypeStep, ServerTypeStep, LockTypeStep, SocketTypeStep, AskTypeStep
<1>4. scene' \in Scenes
  BY <1>1, <1>2
<1> QED
  BY <1>3, <1>4, SMTT(30) DEF TypeOK, LaunchType, ServerType, LockType, SocketType, AskType, LaunchPCs, Outcomes,
                    ServerStates, Listening, Files

-----------------------------------------------------------------------------
(* A process moves on and leaves the locks as they are, or closes its file. *)
LEMMA MovingKeepsLocks ==
  ASSUME ServerType, LockInv, NEW p \in Launches, NEW s, Becomes(p, s), UNCHANGED <<opened, holder>>,
         server[p] \in HasOpen <=> s \in HasOpen, s \in Claimed => server[p] \in Claimed
  PROVE  LockInv'
BY DEF ServerType, LockInv, Becomes, HasOpen, Claimed, Listening, None

LEMMA ClosingKeepsLocks ==
  ASSUME TypeOK, LockInv, NEW p \in Launches, NEW s, Becomes(p, s), Closes(p), s \notin HasOpen
  PROVE  LockInv'
<1>1. ServerType /\ LockType
  BY TypeParts
<1>2. server' = [server EXCEPT ![p] = s] /\ opened' = [opened EXCEPT ![p] = None]
  BY DEF Becomes, Closes
<1>3. \A q \in Launches : server'[q] = (IF q = p THEN s ELSE server[q]) /\ opened'[q] = (IF q = p THEN None ELSE opened[q])
  BY <1>1, <1>2 DEF ServerType, LockType
<1>4. ASSUME NEW q \in Launches, q # p, server[q] \in Claimed PROVE holder'[opened[q]] = q
  <2>1. opened[q] \in Files /\ holder[opened[q]] = q
    BY <1>1, <1>4 DEF LockInv, LockType, HasOpen
  <2> QED
    BY <1>4, <2>1 DEF Closes
<1> QED
  BY <1>3, <1>4 DEF LockInv, HasOpen

LEMMA LockStep ==
  ASSUME TypeOK, LockInv, LifeInv, [Next]_vars
  PROVE  LockInv'
<1>0. ServerType /\ LockType
  BY TypeParts
<1> USE <1>0
<1>1. CASE UNCHANGED <<server, opened, holder>>
  BY <1>1 DEF LockInv, HasOpen, Claimed, Listening
<1>2. ASSUME NEW p \in Launches, OpensLock(p) PROVE LockInv'
  <2>1. lockFile' \in Files
    BY <1>2, UnusedExists DEF OpensLock, Unused, LockType
  <2> QED
    BY <1>2, <2>1, NoneIsNothing DEF OpensLock, Serves, Becomes, ServerType, LockType, LockInv, HasOpen, Claimed, Listening
<1>3. ASSUME NEW p \in Launches, Flocks(p) PROVE LockInv'
  <2>1. opened[p] \in Files
    BY <1>3 DEF Flocks, LockInv, HasOpen, LockType
  <2>2. CASE holder[opened[p]] = None
    <3>1. ASSUME NEW q \in Launches, server[q] \in Claimed PROVE opened[q] # opened[p]
      BY <2>2, <3>1, NoneIsNothing DEF LockInv
    <3> QED
      BY <1>3, <2>1, <2>2, <3>1 DEF Flocks, Becomes, ServerType, LockType, LockInv, HasOpen, Claimed, Listening
  <2>3. CASE holder[opened[p]] # None
    BY <1>3, <2>3, ClosingKeepsLocks DEF Flocks, HasOpen, Claimed, Listening
  <2> QED
    BY <2>2, <2>3
<1>4. ASSUME NEW p \in Launches, Binds(p) \/ Leaves(p) \/ Killed(p) PROVE LockInv'
  BY <1>4, MovingKeepsLocks, ClosingKeepsLocks DEF Binds, Leaves, Killed, Serves, HasOpen, Claimed, Listening
<1>5. ASSUME NEW p \in Launches,
             UnlinksStale(p) \/ DaemonRuns(p) \/ Paints(p) \/ Quits(p) \/ UnlinksSocket(p) \/ UnlinksLock(p)
      PROVE  LockInv'
  BY <1>5, MovingKeepsLocks DEF UnlinksStale, DaemonRuns, Paints, Quits, UnlinksSocket, UnlinksLock, Serves,
                                HasOpen, Claimed, Listening, lockVars
<1>6. ASSUME NEW p \in Launches, Spawns(p) \/ AsksNobody(p) \/ ClaimEnds(p) PROVE LockInv'
  BY <1>6, <1>1, MovingKeepsLocks DEF Spawns, AsksNobody, ClaimEnds, ClaimsIt, LifeInv, Serves, HasOpen, Claimed,
                                      Listening, lockVars
<1>7. ASSUME NEW p \in Launches, FindsNobody(p) \/ Severed(p) PROVE LockInv'
  <2>1. server[p] = "none" /\ UNCHANGED lockVars /\ (UNCHANGED server \/ Becomes(p, "open"))
    BY <1>7 DEF FindsNobody, Severed, Alone, ClaimsIt, LifeInv
  <2> QED
    BY <2>1, <1>1, MovingKeepsLocks DEF HasOpen, Claimed, Listening, lockVars
<1>8. ASSUME NEW p \in Launches,
             \/ Finds(p) \/ Misses(p) \/ Looks(p) \/ Deadline(p) \/ Asks(p) \/ OpensOwn(p) \/ Hears(p)
             \/ GivesUp(p) \/ Reads(p) \/ Wakes(p) \/ Answers(p) \/ OpensParked(p)
      PROVE  UNCHANGED <<server, opened, holder>>
  BY <1>8 DEF Finds, Misses, Looks, Deadline, Asks, OpensOwn, Hears, GivesUp, Reads, Wakes, Answers, OpensParked, lockVars
<1> QED
  BY <1>1, <1>2, <1>3, <1>4, <1>5, <1>6, <1>7, <1>8 DEF Next, ClaimStep, WindowStep, LaunchStep, vars

(* A launch that asks has no process of its own yet. *)
LEMMA LifeStep ==
  ASSUME TypeOK, LifeInv, [Next]_vars
  PROVE  LifeInv'
<1>0. ServerType /\ LaunchType
  BY TypeParts
<1> USE <1>0 DEF LifeInv, LaunchType, ServerType, LaunchPCs, Goes, Ends, Becomes, Serves
<1>1. CASE UNCHANGED <<launch, server>>
  BY <1>1
<1>2. ASSUME NEW p \in Launches, ClaimStep(p) \/ DaemonRuns(p) PROVE LifeInv'
  BY <1>2 DEF ClaimStep, OpensLock, Flocks, UnlinksStale, Binds, DaemonRuns
<1>3. ASSUME NEW p \in Launches, WindowStep(p) \/ Deadline(p) PROVE LifeInv'
  BY <1>3 DEF WindowStep, Finds, Spawns, Misses, Looks, Deadline
<1>4. ASSUME NEW p \in Launches, FindsNobody(p) \/ Severed(p) PROVE LifeInv'
  BY <1>4 DEF FindsNobody, Severed, Alone, ClaimsIt
<1>5. ASSUME NEW p \in Launches, Asks(p) \/ AsksNobody(p) \/ OpensOwn(p) \/ GivesUp(p) PROVE LifeInv'
  <2>1. CASE Asks(p)
    <3>1. launch[p].pc = "new" /\ Goes(p, "asking") /\ UNCHANGED server
      BY <2>1 DEF Asks
    <3> QED
      BY <3>1
  <2>2. CASE AsksNobody(p) \/ OpensOwn(p) \/ GivesUp(p)
    BY <2>2 DEF AsksNobody, ClaimsIt, OpensOwn, GivesUp
  <2> QED
    BY <1>5, <2>1, <2>2
<1>6. ASSUME NEW p \in Launches, ClaimEnds(p) PROVE LifeInv'
  BY <1>6 DEF ClaimEnds
<1>7. ASSUME NEW p \in Launches, Hears(p) PROVE LifeInv'
  BY <1>7 DEF Hears, Verdict
<1>8. ASSUME NEW p \in Launches, Reads(p) \/ Wakes(p) \/ Answers(p) \/ OpensParked(p) PROVE UNCHANGED <<launch, server>>
  BY <1>8 DEF Reads, Wakes, Answers, OpensParked
<1>9. ASSUME NEW p \in Launches,
             Paints(p) \/ Quits(p) \/ UnlinksSocket(p) \/ UnlinksLock(p) \/ Leaves(p) \/ Killed(p)
      PROVE  LifeInv'
  BY <1>9 DEF Paints, Quits, UnlinksSocket, UnlinksLock, Leaves, Killed
<1> QED
  BY <1>1, <1>2, <1>3, <1>4, <1>5, <1>6, <1>7, <1>8, <1>9 DEF Next, LaunchStep, vars

-----------------------------------------------------------------------------
(* While nobody quits there is one lock file and one process that claims, so
   the unlink and the rename are never another's. *)
LEMMA OneClaims ==
  ASSUME TypeOK, LockInv, PathInv, NobodyQuits,
         NEW p \in Launches, NEW q \in Launches, server[p] \in Claimed, server[q] \in Claimed
  PROVE  p = q
BY DEF LockInv, PathInv, HasOpen

LEMMA PathStep ==
  ASSUME TypeOK, LockInv, LifeInv, PathInv, [Next]_vars
  PROVE  PathInv'
<1>1. scene' = scene
  BY DEF Next, vars, ClaimStep, OpensLock, Flocks, UnlinksStale, Binds, WindowStep, Finds, Spawns, Misses,
         Looks, Deadline, DaemonRuns, LaunchStep, Asks, FindsNobody, AsksNobody, ClaimEnds, OpensOwn, Hears,
         Severed, GivesUp, Paints, Reads, Wakes, Answers, OpensParked, Quits, UnlinksSocket, UnlinksLock, Leaves, Killed
<1>2. SUFFICES ASSUME NobodyQuits PROVE PathInv'
  BY <1>1 DEF PathInv, NobodyQuits
<1>3. ServerType /\ LockType
  BY TypeParts
<1> DEFINE Leaving == {"quitting", "unlinked", "leaving"}
<1>4. /\ \A p \in Launches : server[p] \notin Leaving
      /\ \A p \in Launches : opened[p] # None => opened[p] = lockFile
      /\ \A p \in Launches : server[p] \in {"bound", "serving"} => socket = p
  BY <1>2 DEF PathInv
<1>5. CASE UNCHANGED <<server, lockFile, opened, socket>>
  BY <1>4, <1>5 DEF PathInv
<1>6. ASSUME NEW p \in Launches, NEW s, Becomes(p, s), s \notin Leaving, UNCHANGED lockFile,
             UNCHANGED opened \/ opened' = [opened EXCEPT ![p] = None], UNCHANGED socket,
             s = "serving" => server[p] = "bound", s # "bound"
      PROVE  PathInv'
  BY <1>3, <1>4, <1>6, NoneIsNothing DEF PathInv, Becomes, ServerType, LockType
<1>7. ASSUME NEW p \in Launches, OpensLock(p) PROVE PathInv'
  <2>1. \A q \in Launches : opened'[q] # None => opened'[q] = lockFile'
    BY <1>3, <1>4, <1>7 DEF OpensLock, LockType
  <2> QED
    BY <1>3, <1>4, <1>7, <2>1 DEF OpensLock, Serves, Becomes, ServerType, PathInv
<1>8. ASSUME NEW p \in Launches, Flocks(p) PROVE PathInv'
  BY <1>6, <1>8 DEF Flocks, Closes
<1>9. ASSUME NEW p \in Launches, UnlinksStale(p) PROVE PathInv'
  <2>1. \A q \in Launches : server[q] \in {"bound", "serving"} => q = p
    BY <1>2, <1>9, OneClaims DEF UnlinksStale, Serves, Claimed, Listening
  <2> QED
    BY <1>3, <1>4, <1>9, <2>1 DEF UnlinksStale, Serves, Becomes, ServerType, PathInv, lockVars
<1>10. ASSUME NEW p \in Launches, Binds(p) PROVE PathInv'
  <2>1. \A q \in Launches : server[q] \in {"bound", "serving"} => q = p
    BY <1>2, <1>10, OneClaims DEF Binds, Serves, Claimed, Listening
  <2>2. CASE Serves(p, "bind", "bound") /\ socket' = p /\ UNCHANGED <<opened, lockFile>>
    BY <1>3, <1>4, <2>1, <2>2 DEF Serves, Becomes, ServerType, PathInv
  <2>3. CASE Serves(p, "bind", "lost") /\ Closes(p) /\ UNCHANGED <<socket, lockFile>>
    BY <1>6, <2>3 DEF Serves, Closes
  <2> QED
    BY <1>10, <2>2, <2>3 DEF Binds
<1>11. ASSUME NEW p \in Launches, WindowStep(p) \/ Deadline(p) \/ DaemonRuns(p) PROVE PathInv'
  BY <1>5, <1>6, <1>11 DEF WindowStep, Finds, Spawns, Misses, Looks, Deadline, DaemonRuns, Serves, lockVars
<1>12. ASSUME NEW p \in Launches, Alone(p), UNCHANGED lockVars, UNCHANGED socket PROVE PathInv'
  BY <1>5, <1>6, <1>12 DEF Alone, ClaimsIt, lockVars
<1>13. ASSUME NEW p \in Launches, LaunchStep(p) \/ GivesUp(p) PROVE PathInv'
  BY <1>5, <1>6, <1>12, <1>13 DEF LaunchStep, Asks, FindsNobody, AsksNobody, ClaimsIt, ClaimEnds, OpensOwn, Hears,
                                  Severed, GivesUp, Serves, lockVars
<1>14. ASSUME NEW p \in Launches, Paints(p) \/ Killed(p) PROVE PathInv'
  BY <1>6, <1>14 DEF Paints, Killed, Closes, Serves, lockVars
<1>15. ASSUME NEW p \in Launches, Reads(p) \/ Wakes(p) \/ Answers(p) \/ OpensParked(p) PROVE PathInv'
  BY <1>5, <1>15 DEF Reads, Wakes, Answers, OpensParked, lockVars
<1>16. ASSUME NEW p \in Launches, Quits(p) \/ UnlinksSocket(p) \/ UnlinksLock(p) \/ Leaves(p) PROVE FALSE
  BY <1>2, <1>4, <1>16 DEF Quits, UnlinksSocket, UnlinksLock, Leaves, Serves, NobodyQuits
<1> QED
  BY <1>5, <1>7, <1>8, <1>9, <1>10, <1>11, <1>13, <1>14, <1>15, <1>16 DEF Next, ClaimStep, vars

-----------------------------------------------------------------------------
(* Death is for good: only a launch that has no process starts one. *)
LEMMA DeadStaysDead ==
  ASSUME TypeOK, LifeInv, [Next]_vars, NEW q \in Launches, server[q] = "dead"
  PROVE  server'[q] = "dead"
<1>1. ServerType
  BY TypeParts
<1> USE <1>1, NoneIsNothing DEF ServerType, LifeInv, Becomes, Serves
<1>2. ASSUME NEW p \in Launches, ClaimStep(p) \/ DaemonRuns(p) PROVE server'[q] = "dead"
  BY <1>2 DEF ClaimStep, OpensLock, Flocks, UnlinksStale, Binds, DaemonRuns
<1>3. ASSUME NEW p \in Launches, WindowStep(p) \/ Deadline(p) PROVE server'[q] = "dead"
  BY <1>3 DEF WindowStep, Finds, Spawns, Misses, Looks, Deadline
<1>4. ASSUME NEW p \in Launches, LaunchStep(p) \/ GivesUp(p) PROVE server'[q] = "dead"
  BY <1>4 DEF LaunchStep, Asks, FindsNobody, AsksNobody, ClaimsIt, ClaimEnds, OpensOwn, Hears, Severed, Alone, GivesUp
<1>5. ASSUME NEW p \in Launches, Paints(p) \/ Reads(p) \/ Wakes(p) \/ Answers(p) \/ OpensParked(p) PROVE server'[q] = "dead"
  BY <1>5 DEF Paints, Reads, Wakes, Answers, OpensParked
<1>6. ASSUME NEW p \in Launches, Quits(p) \/ UnlinksSocket(p) \/ UnlinksLock(p) \/ Leaves(p) \/ Killed(p)
      PROVE  server'[q] = "dead"
  BY <1>6 DEF Quits, UnlinksSocket, UnlinksLock, Leaves, Killed
<1> QED
  BY <1>2, <1>3, <1>4, <1>5, <1>6 DEF Next, vars

(* What a step of one launch makes of it, and that it leaves the others alone. *)
OthersKeep(p) == \A q \in Launches : q # p => launch'[q] = launch[q]
LEMMA LaunchEffects ==
  ASSUME LaunchType, NEW p \in Launches
  PROVE  /\ \A pc : Goes(p, pc) =>
              OthersKeep(p) /\ launch'[p].pc = pc /\ launch'[p].outcome = launch[p].outcome
         /\ \A what : Ends(p, what) =>
              OthersKeep(p) /\ launch'[p].pc = "done" /\ launch'[p].outcome = what
         /\ Alone(p) \/ ClaimEnds(p) =>
              /\ OthersKeep(p) /\ launch'[p].outcome = launch[p].outcome
              /\ launch'[p].pc \in {"new", "claiming", "opening"}
<1> USE DEF LaunchType, OthersKeep
<1>1. ASSUME NEW pc, Goes(p, pc)
      PROVE  OthersKeep(p) /\ launch'[p].pc = pc /\ launch'[p].outcome = launch[p].outcome
  BY <1>1 DEF Goes
<1>2. ASSUME NEW what, Ends(p, what)
      PROVE  OthersKeep(p) /\ launch'[p].pc = "done" /\ launch'[p].outcome = what
  BY <1>2 DEF Ends
<1>3. ASSUME NEW n, launch' = [launch EXCEPT ![p].pc = "new", ![p].tries = n]
      PROVE  OthersKeep(p) /\ launch'[p].pc = "new" /\ launch'[p].outcome = launch[p].outcome
  BY <1>3
<1>4. launch' = [launch EXCEPT ![p].pc = "new", ![p].tries = @ + 1]
      => OthersKeep(p) /\ launch'[p].pc = "new" /\ launch'[p].outcome = launch[p].outcome
  OBVIOUS
<1> HIDE DEF LaunchType, OthersKeep
<1>5. ASSUME Alone(p)
      PROVE  /\ OthersKeep(p) /\ launch'[p].outcome = launch[p].outcome
             /\ launch'[p].pc \in {"new", "claiming", "opening"}
  BY <1>1, <1>4, <1>5 DEF Alone, ClaimsIt
<1>6. ASSUME ClaimEnds(p)
      PROVE  /\ OthersKeep(p) /\ launch'[p].outcome = launch[p].outcome
             /\ launch'[p].pc \in {"new", "claiming", "opening"}
  BY <1>1, <1>3, <1>6 DEF ClaimEnds
<1> QED
  BY <1>1, <1>2, <1>5, <1>6

(* What a step of an acceptor or of the loop makes of the requests. *)
SameTo(r) == request'[r].to = request[r].to /\ (Woke(r) => Woke(r)')
LEMMA RequestEffects ==
  ASSUME AskType, NEW p \in Launches
  PROVE  /\ Reads(p) \/ Wakes(p) \/ Answers(p) =>
              \A r \in Launches \ {p} : request'[r] = request[r]
         /\ Reads(p) =>
              /\ request[p].at = "sent" /\ request'[p].to = request[p].to
              /\ server[request[p].to] # "dead"
              /\ request'[p].event = request[p].event /\ request'[p].ok = request[p].ok
              /\ \/ /\ request'[p].at = "pushed" /\ request'[p].parked
                    /\ request'[p].reply = request[p].reply
                 \/ /\ request'[p].at = "over" /\ request'[p].reply = "other"
                    /\ request'[p].parked = request[p].parked
         /\ Wakes(p) =>
              /\ request[p].at = "pushed" /\ request'[p].to = request[p].to
              /\ request'[p].ok = request[p].ok /\ request'[p].parked = request[p].parked
              /\ \/ /\ request'[p].at = "waits" /\ request'[p].event
                    /\ request'[p].reply = request[p].reply
                 \/ /\ request'[p].at = "over" /\ request'[p].reply = "refused"
                    /\ request'[p].event = request[p].event
         /\ Answers(p) =>
              /\ request[p].at = "waits" /\ request'[p].to = request[p].to
              /\ request'[p].ok = request[p].ok /\ request'[p].parked = request[p].parked
              /\ request'[p].at = "over" /\ request'[p].event = request[p].event
              /\ request'[p].reply = IF request[p].ok THEN "ok" ELSE "silent"
BY DEF AskType, Reads, Wakes, Answers, Says, AtWork, Accepting, Listening

LEMMA HandledEffects ==
  ASSUME AskType, NEW p \in Launches, OpensParked(p), NEW r \in Launches
  PROVE  /\ request'[r].to = request[r].to /\ request'[r].at = request[r].at
         /\ request'[r].reply = request[r].reply
         /\ request'[r].event => request[r].event
         /\ r \in ParkedAt(request[p].to) =>
              request[r].parked /\ request[r].to = request[p].to /\ request'[r].ok /\ ~request'[r].parked
         /\ r \notin ParkedAt(request[p].to) =>
              request'[r].ok = request[r].ok /\ request'[r].parked = request[r].parked
<1>1. request'[r] = Handled(p, r)
  BY DEF OpensParked
<1>2. /\ Handled(p, r).to = request[r].to /\ Handled(p, r).at = request[r].at
      /\ Handled(p, r).reply = request[r].reply
      /\ Handled(p, r).event = (request[r].event /\ r # p)
      /\ Handled(p, r).ok = (request[r].ok \/ r \in ParkedAt(request[p].to))
      /\ Handled(p, r).parked = (request[r].parked /\ ~(r \in ParkedAt(request[p].to)))
  BY DEF AskType, Handled
<1>3. r \in ParkedAt(request[p].to) => request[r].parked /\ request[r].to = request[p].to
  BY DEF ParkedAt
<1>4. request[r].ok \in BOOLEAN /\ request[r].parked \in BOOLEAN
  BY DEF AskType
<1> QED
  BY <1>1, <1>2, <1>3, <1>4

(* All other steps leave the requests alone. *)
LEMMA RequestsRest ==
  ASSUME [Next]_vars
  PROVE  \/ UNCHANGED request
         \/ \E p \in Launches : Asks(p) \/ Reads(p) \/ Wakes(p) \/ Answers(p) \/ OpensParked(p)
<1>1. ASSUME NEW p \in Launches,
             ClaimStep(p) \/ WindowStep(p) \/ Deadline(p) \/ DaemonRuns(p)
      PROVE  UNCHANGED request
  BY <1>1 DEF ClaimStep, OpensLock, Flocks, UnlinksStale, Binds, WindowStep, Finds, Spawns, Misses, Looks,
              Deadline, DaemonRuns, askVars
<1>2. ASSUME NEW p \in Launches,
             FindsNobody(p) \/ AsksNobody(p) \/ ClaimEnds(p) \/ OpensOwn(p) \/ Hears(p) \/ Severed(p) \/ GivesUp(p)
      PROVE  UNCHANGED request
  BY <1>2 DEF FindsNobody, AsksNobody, ClaimEnds, OpensOwn, Hears, Severed, GivesUp, askVars
<1>3. ASSUME NEW p \in Launches,
             Paints(p) \/ Quits(p) \/ UnlinksSocket(p) \/ UnlinksLock(p) \/ Leaves(p) \/ Killed(p)
      PROVE  UNCHANGED request
  BY <1>3 DEF Paints, Quits, UnlinksSocket, UnlinksLock, Leaves, Killed, askVars
<1> QED
  BY <1>1, <1>2, <1>3 DEF Next, LaunchStep, vars

(* The request of a launch that starts again was not read, so nothing of it is
   still to come. *)
LEMMA AskStep ==
  ASSUME TypeOK, LifeInv, AskInv, [Next]_vars
  PROVE  AskInv'
<1>1. LaunchType /\ AskType
  BY TypeParts
<1>2. \A q \in Launches : server[q] = "dead" => server'[q] = "dead"
  BY DeadStaysDead
<1> DEFINE Unread(p) == \/ request[p].at = "sent" /\ server[request[p].to] = "dead"
                        \/ request[p].reply = "other"
<1>3. CASE UNCHANGED request /\ UNCHANGED launch
  BY <1>2, <1>3 DEF AskInv, Woke
<1>4. ASSUME NEW p \in Launches, OthersKeep(p), UNCHANGED request, launch'[p].pc # "asking",
             launch'[p].pc \in {"new", "claiming"} => launch[p].pc \in {"new", "claiming"} \/ Unread(p)
      PROVE  AskInv'
  BY <1>2, <1>4 DEF AskInv, OthersKeep, Woke
<1>5. ASSUME NEW p \in Launches, Asks(p) PROVE AskInv'
  <2>1. OthersKeep(p) /\ launch'[p].pc = "asking"
    BY <1>1, <1>5, LaunchEffects DEF Asks
  <2>2. PICK q \in Launches : request' = [request EXCEPT ![p] = [Unasked EXCEPT !.to = q, !.at = "sent"]]
    BY <1>5 DEF Asks, Reached
  <2>3. /\ request'[p].to = q /\ request'[p].at = "sent" /\ request'[p].reply = "none"
        /\ ~request'[p].parked /\ ~request'[p].event /\ ~request'[p].ok
        /\ \A r \in Launches : r # p => request'[r] = request[r]
    BY <1>1, <2>2 DEF AskType, Unasked
  <2> QED
    BY <1>2, <2>1, <2>3 DEF AskInv, OthersKeep, Woke
<1>6. ASSUME NEW p \in Launches,
             FindsNobody(p) \/ AsksNobody(p) \/ ClaimEnds(p) \/ OpensOwn(p) \/ Hears(p) \/ Severed(p) \/ GivesUp(p)
      PROVE  AskInv'
  <2>1. CASE FindsNobody(p) \/ AsksNobody(p) \/ ClaimEnds(p) \/ OpensOwn(p) \/ GivesUp(p)
    BY <1>1, <1>4, <2>1, LaunchEffects DEF FindsNobody, AsksNobody, ClaimsIt, ClaimEnds, OpensOwn, GivesUp, askVars
  <2>2. CASE Hears(p)
    BY <1>1, <1>4, <2>2, LaunchEffects DEF Hears, Verdict, askVars
  <2>3. CASE Severed(p)
    <3>1. (Unread(p) /\ Alone(p)) \/ Goes(p, "opening")
      BY <2>3 DEF Severed
    <3> QED
      BY <1>1, <1>4, <2>3, <3>1, LaunchEffects DEF Severed, askVars
  <2> QED
    BY <1>6, <2>1, <2>2, <2>3
<1>7. ASSUME NEW p \in Launches, WindowStep(p) \/ Deadline(p) PROVE AskInv'
  BY <1>1, <1>4, <1>7, LaunchEffects DEF WindowStep, Finds, Spawns, Misses, Looks, Deadline, askVars
<1>8. ASSUME NEW p \in Launches, Killed(p) PROVE AskInv'
  BY <1>1, <1>3, <1>4, <1>8, LaunchEffects DEF Killed, askVars
<1>9. ASSUME NEW p \in Launches, Reads(p) \/ Wakes(p) \/ Answers(p) PROVE AskInv'
  <2>1. UNCHANGED <<launch, server>> /\ \A r \in Launches \ {p} : request'[r] = request[r]
    BY <1>1, <1>9, RequestEffects DEF Reads, Wakes, Answers
  <2>2. CASE Reads(p)
    BY <1>1, <2>1, <2>2, RequestEffects DEF AskInv, Woke
  <2>3. CASE Wakes(p)
    BY <1>1, <2>1, <2>3, RequestEffects DEF AskInv, Woke
  <2>4. CASE Answers(p)
    BY <1>1, <2>1, <2>4, RequestEffects DEF AskInv, Woke
  <2> QED
    BY <1>9, <2>2, <2>3, <2>4
<1>10. ASSUME NEW p \in Launches, OpensParked(p) PROVE AskInv'
  <2>1. UNCHANGED <<launch, server>>
    BY <1>10 DEF OpensParked
  <2>2. ASSUME NEW r \in Launches
        PROVE  /\ request'[r].to = request[r].to /\ request'[r].at = request[r].at
               /\ request'[r].reply = request[r].reply
               /\ request'[r].event => request[r].event
               /\ request[r].ok => request'[r].ok
               /\ request'[r].parked => request[r].parked /\ request'[r].ok = request[r].ok
               /\ request'[r].ok => request[r].ok \/ request[r].parked
    BY <1>1, <1>10, HandledEffects DEF AskType
  <2> QED
    BY <2>1, <2>2 DEF AskInv, Woke
<1>11. ASSUME NEW p \in Launches,
              \/ ClaimStep(p) \/ DaemonRuns(p) \/ Paints(p)
              \/ Quits(p) \/ UnlinksSocket(p) \/ UnlinksLock(p) \/ Leaves(p)
       PROVE  UNCHANGED <<launch, request>>
  BY <1>11 DEF ClaimStep, OpensLock, Flocks, UnlinksStale, Binds, DaemonRuns, Paints, Quits, UnlinksSocket,
               UnlinksLock, Leaves, askVars
<1> QED
  BY <1>3, <1>5, <1>6, <1>7, <1>8, <1>9, <1>10, <1>11 DEF Next, LaunchStep, vars

(* Who woke the loop stays one who did, at the same instance: a launch asks again
   only if its wake never came. *)
LEMMA EarlyStep ==
  ASSUME TypeOK, AskInv, EarlyInv, [Next]_vars
  PROVE  EarlyInv'
<1>1. LaunchType /\ AskType
  BY TypeParts
<1>2. ASSUME \A r \in Launches : Woke(r) => SameTo(r),
             \A r \in Launches : request'[r].ok /\ ~Woke(r)' =>
               /\ request[r].ok /\ ~Woke(r) /\ request'[r].to = request[r].to
      PROVE  EarlyInv'
  BY <1>2 DEF EarlyInv, TakenAlong, SameTo
<1>3. CASE UNCHANGED request
  BY <1>2, <1>3 DEF SameTo, Woke
<1>4. ASSUME NEW p \in Launches, Asks(p) PROVE EarlyInv'
  <2>1. ~Woke(p)
    BY <1>4 DEF Asks, AskInv, Woke
  <2>2. /\ ~request'[p].ok
        /\ \A r \in Launches : r # p => request'[r] = request[r]
    BY <1>1, <1>4 DEF Asks, AskType, Unasked
  <2> QED
    BY <1>2, <2>1, <2>2 DEF SameTo, Woke
<1>5. ASSUME NEW p \in Launches, Reads(p) \/ Wakes(p) \/ Answers(p) PROVE EarlyInv'
  <2>1. \A r \in Launches \ {p} : request'[r] = request[r]
    BY <1>1, <1>5, RequestEffects
  <2>2. /\ request'[p].to = request[p].to /\ request'[p].ok = request[p].ok
        /\ Woke(p) => Woke(p)'
    BY <1>1, <1>5, RequestEffects DEF AskInv, Woke
  <2> QED
    BY <1>2, <2>1, <2>2 DEF SameTo, Woke
<1>6. ASSUME NEW p \in Launches, OpensParked(p) PROVE EarlyInv'
  <2>1. Woke(p)
    BY <1>6 DEF OpensParked, AskInv
  <2>2. \A r \in Launches : request'[r].to = request[r].to /\ (Woke(r)' <=> Woke(r))
    BY <1>1, <1>6, HandledEffects DEF Woke
  <2>3. ASSUME NEW r \in Launches, request'[r].ok, ~Woke(r)' PROVE TakenAlong(r)'
    <3>1. CASE r \in ParkedAt(request[p].to)
      BY <2>1, <2>2, <2>3, <3>1 DEF ParkedAt, TakenAlong
    <3>2. CASE r \notin ParkedAt(request[p].to)
      <4>1. request[r].ok /\ ~Woke(r)
        BY <1>1, <1>6, <2>2, <2>3, <3>2, HandledEffects
      <4> QED
        BY <2>2, <4>1 DEF EarlyInv, TakenAlong
    <3> QED
      BY <3>1, <3>2
  <2> QED
    BY <2>3 DEF EarlyInv
<1> QED
  BY <1>3, <1>4, <1>5, <1>6, RequestsRest

-----------------------------------------------------------------------------
(* A launch counts its own window once, when it opens it, and the one another
   process opened once, when the loop takes its request. *)
LEMMA WindowsStep ==
  ASSUME TypeOK, AskInv, WindowInv, [Next]_vars
  PROVE  WindowInv'
<1>1. LaunchType /\ AskType
  BY TypeParts
<1>2. CASE UNCHANGED <<launch, request, windows>>
  BY <1>2 DEF WindowInv
<1>3. ASSUME NEW p \in Launches, OthersKeep(p), UNCHANGED <<request, windows>>, launch[p].pc # "done",
             \/ launch'[p].outcome = "none"
             \/ launch'[p].pc = "done" /\ launch'[p].outcome \notin {"own", "opened", "refused"}
      PROVE  WindowInv'
  <2>1. \A q \in Launches : q # p => launch'[q] = launch[q]
    BY <1>3 DEF OthersKeep
  <2>2. launch[p].outcome = "none"
    BY <1>3 DEF WindowInv
  <2> QED
    BY <1>3, <2>1, <2>2 DEF WindowInv
<1>4. ASSUME NEW p \in Launches, Asks(p) PROVE WindowInv'
  <2>1. OthersKeep(p) /\ launch'[p].pc = "asking" /\ launch'[p].outcome = launch[p].outcome /\ launch[p].pc = "new"
    BY <1>1, <1>4, LaunchEffects DEF Asks
  <2>2. ~request'[p].ok /\ \A r \in Launches : r # p => request'[r] = request[r]
    BY <1>1, <1>4 DEF Asks, AskType, Unasked
  <2>3. launch[p].outcome = "none" /\ ~request[p].ok
    BY <2>1 DEF AskInv, WindowInv
  <2>4. windows' = windows
    BY <1>4 DEF Asks
  <2> QED
    BY <2>1, <2>2, <2>3, <2>4 DEF WindowInv, OthersKeep
<1>5. ASSUME NEW p \in Launches, FindsNobody(p) \/ AsksNobody(p) \/ ClaimEnds(p) \/ Severed(p) \/ GivesUp(p)
      PROVE  WindowInv'
  <2>1. launch[p].pc # "done" /\ UNCHANGED <<request, windows>>
    BY <1>5 DEF FindsNobody, AsksNobody, ClaimEnds, Severed, GivesUp, askVars
  <2>2. OthersKeep(p) /\ launch'[p].outcome = launch[p].outcome
    BY <1>1, <1>5, LaunchEffects DEF FindsNobody, AsksNobody, ClaimsIt, Severed, GivesUp
  <2> QED
    BY <1>3, <2>1, <2>2 DEF WindowInv
<1>6. ASSUME NEW p \in Launches, OpensOwn(p) PROVE WindowInv'
  <2>1. OthersKeep(p) /\ launch'[p].pc = "done" /\ launch'[p].outcome = "own" /\ launch[p].outcome = "none"
    BY <1>1, <1>6, LaunchEffects DEF OpensOwn, WindowInv
  <2>2. request' = request /\ windows' = [windows EXCEPT ![p] = @ + 1]
    BY <1>6 DEF OpensOwn
  <2> QED
    BY <2>1, <2>2 DEF WindowInv, OthersKeep
<1>7. ASSUME NEW p \in Launches, Hears(p) PROVE WindowInv'
  <2>1. launch[p].pc = "asking" /\ UNCHANGED <<request, windows>>
    BY <1>7 DEF Hears, askVars
  <2>2. CASE Ends(p, "opened") /\ request[p].reply = "ok"
    <3>1. OthersKeep(p) /\ launch'[p].pc = "done" /\ launch'[p].outcome = "opened" /\ launch[p].outcome = "none"
      BY <1>1, <2>1, <2>2, LaunchEffects DEF WindowInv
    <3> QED
      BY <2>1, <2>2, <3>1 DEF WindowInv, OthersKeep
  <2>3. CASE Ends(p, "refused") /\ request[p].reply = "refused"
    <3>1. OthersKeep(p) /\ launch'[p].pc = "done" /\ launch'[p].outcome = "refused" /\ launch[p].outcome = "none"
      BY <1>1, <2>1, <2>3, LaunchEffects DEF WindowInv
    <3> QED
      BY <2>1, <2>3, <3>1 DEF WindowInv, OthersKeep
  <2>4. CASE Goes(p, "opening")
    BY <1>1, <1>3, <2>1, <2>4, LaunchEffects DEF WindowInv
  <2> QED
    BY <1>7, <2>2, <2>3, <2>4 DEF Hears, Verdict
<1>8. ASSUME NEW p \in Launches, WindowStep(p) \/ Deadline(p) PROVE WindowInv'
  <2>1. launch[p].pc # "done" /\ UNCHANGED <<request, windows>>
    BY <1>8 DEF WindowStep, Finds, Spawns, Misses, Looks, Deadline, askVars
  <2>2. \/ \E pc \in {"looks", "polls"} : Goes(p, pc)
        \/ \E what \in {"attached", "exited", "timeout"} : Ends(p, what)
    BY <1>8 DEF WindowStep, Finds, Spawns, Misses, Looks, Deadline
  <2> QED
    BY <1>1, <1>3, <2>1, <2>2, LaunchEffects DEF WindowInv
<1>9. ASSUME NEW p \in Launches, Killed(p) PROVE WindowInv'
  <2>1. UNCHANGED <<request, windows>> /\ (UNCHANGED launch \/ (launch[p].pc # "done" /\ Ends(p, "killed")))
    BY <1>9 DEF Killed, askVars
  <2> QED
    BY <1>1, <1>2, <1>3, <2>1, LaunchEffects
<1>10. ASSUME NEW p \in Launches, Reads(p) \/ Wakes(p) \/ Answers(p) PROVE WindowInv'
  <2>1. UNCHANGED <<launch, windows>>
    BY <1>10 DEF Reads, Wakes, Answers
  <2>2. /\ \A r \in Launches : r # p => request'[r] = request[r]
        /\ request[p].reply = "none" /\ request'[p].ok = request[p].ok
    BY <1>1, <1>10, RequestEffects DEF AskInv
  <2> QED
    BY <2>1, <2>2 DEF WindowInv
<1>11. ASSUME NEW p \in Launches, OpensParked(p) PROVE WindowInv'
  <2>1. /\ launch' = launch
        /\ windows' = [r \in Launches |->
             IF r \in ParkedAt(request[p].to) THEN windows[r] + 1 ELSE windows[r]]
    BY <1>11 DEF OpensParked
  <2>2. ASSUME NEW r \in Launches
        PROVE  /\ request'[r].reply = request[r].reply
               /\ r \in ParkedAt(request[p].to) => request'[r].ok /\ ~request[r].ok
               /\ r \notin ParkedAt(request[p].to) => request'[r].ok = request[r].ok
    BY <1>1, <1>11, HandledEffects DEF AskInv
  <2> QED
    BY <2>1, <2>2 DEF WindowInv
<1>12. ASSUME NEW p \in Launches,
              \/ ClaimStep(p) \/ DaemonRuns(p) \/ Paints(p)
              \/ Quits(p) \/ UnlinksSocket(p) \/ UnlinksLock(p) \/ Leaves(p)
       PROVE  UNCHANGED <<launch, request, windows>>
  BY <1>12 DEF ClaimStep, OpensLock, Flocks, UnlinksStale, Binds, DaemonRuns, Paints, Quits, UnlinksSocket,
               UnlinksLock, Leaves, askVars
<1> QED
  BY <1>2, <1>4, <1>5, <1>6, <1>7, <1>8, <1>9, <1>10, <1>11, <1>12 DEF Next, LaunchStep, vars

-----------------------------------------------------------------------------
LEMMA InitEstablishes ==
  ASSUME Init
  PROVE  IInv
<1>1. scene \in Scenes /\ LaunchType /\ ServerType
  <2>1. 0 \in 0..MaxTries
    BY EndpointAssumption
  <2> QED
    BY <2>1 DEF Init, LaunchType, ServerType, LaunchPCs, Outcomes, ServerStates
<1>2. LockType
  <2>1. Cardinality(Launches) \in Nat
    BY EndpointAssumption, FS_CardinalityType
  <2>2. 0 \in Files
    BY <2>1 DEF Files
  <2> QED
    BY <2>2 DEF Init, LockType
<1>3. SocketType /\ AskType
  BY DEF Init, SocketType, AskType, Unasked
<1>4. LockInv /\ LifeInv
  BY DEF Init, LockInv, LifeInv, HasOpen, Claimed, Listening
<1>5. PathInv
  BY DEF Init, PathInv
<1>6. AskInv /\ EarlyInv
  BY DEF Init, AskInv, EarlyInv, Unasked
<1>7. WindowInv
  BY DEF Init, WindowInv, Unasked
<1> QED
  BY <1>1, <1>2, <1>3, <1>4, <1>5, <1>6, <1>7, TypeParts DEF IInv

LEMMA IInvIsInvariant == Spec => []IInv
<1>1. Init => IInv
  BY InitEstablishes
<1>2. IInv /\ [Next]_vars => IInv'
  BY TypeStep, LockStep, LifeStep, PathStep, AskStep, EarlyStep, WindowsStep DEF IInv
<1> QED
  BY <1>1, <1>2, PTL DEF Spec

(* Type correctness of the endpoint, and that every flock belongs to a process
   that has the file open, for any number of processes: LocalListener's Lock is
   let go of with its file, on every way out of bind_exclusive and of the
   process. *)
THEOREM EndpointTypeCorrect == Spec => []TypeOK
<1>1. IInv => TypeOK
  BY DEF IInv
<1> QED
  BY <1>1, IInvIsInvariant, PTL

(* bind_exclusive takes the flock before it unlinks, so while nobody quits
   whoever serves is whom the path leads to, however many processes start at
   once, are killed, or leave a lock file and a socket behind. *)
THEOREM EveryServerIsReachable == Spec => []ServesAtItsPath
<1>1. IInv => ServesAtItsPath
  BY DEF IInv, PathInv, NobodyQuits, ServesAtItsPath
<1> QED
  BY <1>1, IInvIsInvariant, PTL

(* A launch that forwards its request, is answered late, or asks again where its
   request was not read, ends with the windows it was told of, a refused one apart:
   its request was parked before its wake failed (instance.rs), and the wake of
   another launch may have had it opened (process.rs open_requested). *)
THEOREM WindowsAreCounted == Spec => []OneWindowEach
<1>1. ASSUME IInv PROVE OneWindowEach
  <2> SUFFICES ASSUME NEW p \in Launches
               PROVE  /\ launch[p].outcome = "opened" => windows[p] = 1
                      /\ launch[p].outcome = "own" => windows[p] \in 1..2
                      /\ launch[p].outcome = "refused" =>
                           windows[p] = 0 \/ (windows[p] = 1 /\ TakenAlong(p))
    BY DEF OneWindowEach, TakenAlong
  <2>1. windows[p] = (IF launch[p].outcome = "own" THEN 1 ELSE 0) + (IF request[p].ok THEN 1 ELSE 0)
    BY <1>1 DEF IInv, WindowInv
  <2>2. launch[p].outcome = "opened" => request[p].ok
    BY <1>1 DEF IInv, WindowInv, AskInv
  <2>3. CASE launch[p].outcome = "refused"
    <3>1. request[p].reply = "refused" /\ request[p].at = "over"
      BY <1>1, <2>3 DEF IInv, WindowInv, AskInv
    <3>2. request[p].ok => TakenAlong(p)
      BY <1>1, <3>1 DEF IInv, EarlyInv, Woke
    <3> QED
      BY <2>1, <2>3, <3>2
  <2> QED
    BY <2>1, <2>2, <2>3
<1> QED
  BY <1>1, IInvIsInvariant, PTL
=============================================================================
