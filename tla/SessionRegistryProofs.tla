----------------------- MODULE SessionRegistryProofs -----------------------
(***************************************************************************)
(* Proofs about SessionRegistry: its types, and that it implements          *)
(* SessionLife, for any connections, any number of sessions and whoever     *)
(* may ask for what.                                                        *)
(***************************************************************************)
EXTENDS SessionRegistry, TLAPS

(* TypeOK in three parts, each with what the steps need of it besides: a session
   whose reader thread runs has been made ... *)
SessionsOK ==
  /\ scene \in Scenes
  /\ made \in 0..MaxSessions /\ kept \subseteq 1..made /\ asked \subseteq 1..made
  /\ exited \subseteq 1..made /\ hung \subseteq 1..made /\ ever \subseteq 1..made
  /\ subs \in [Ids -> [Conns -> Nat]]
  /\ facts \in [Ids -> Nat]
  /\ reader \in [Ids -> {"unborn", "reading", "report", "threadless", "touch", "wake", "eof", "done"}]
  /\ \A id \in Ids : reader[id] # "unborn" => id \in 1..made

PulseOK ==
  /\ stale \subseteq Conns /\ watchers \subseteq scene.watching
  /\ recent \in BOOLEAN /\ armed \in BOOLEAN /\ timer \in BOOLEAN /\ firing \in Nat

(* ... and a sweep goes only for sessions that have ended and been attached to,
   and reaps one it took out of the map. *)
LockOK(l, m, d) ==
  /\ l \in LockState
  /\ l.op \in {"attach", "close", "create"} => l.id \in 1..m
  /\ l.pc \in {"close", "reap"} => l.op \in {"poll", "drop"}
  /\ l.pc = "reap" => l.id \in 1..m
  /\ l.dead \subseteq d

ClientOK(k, a, m) ==
  /\ k.on \in BOOLEAN /\ DOMAIN k = {"on", "listing", "told", "overtaken", "ops"}
  /\ a \subseteq 1..m

Quiet(c, w, l, a, q, r) ==
  a = {} /\ c \notin w /\ l.op \in {"free", "drop"} /\ q = <<>> /\ r = <<>>

ConnOK(c) ==
  /\ LockOK(lock[c], made, exited \cap ever)
  /\ ClientOK(client[c], att[c], made)
  /\ client[c].on \/ Quiet(c, watchers, lock[c], att[c], queue[c], reply[c])

Indexed(f) == DOMAIN f = Conns /\ f = [c \in Conns |-> f[c]]
TablesOK == Indexed(lock) /\ Indexed(att) /\ Indexed(client) /\ Indexed(reply) /\ Indexed(queue)

RegistryInv == SessionsOK /\ PulseOK /\ TablesOK /\ \A c \in Conns : ConnOK(c)

LEMMA InvTypes == RegistryInv => TypeOK
BY DEF RegistryInv, SessionsOK, PulseOK, ConnOK, LockOK, ClientOK, Quiet, TablesOK, Indexed,
   TypeOK

LEMMA RegistryInit == Init => RegistryInv
<1> SUFFICES ASSUME Init PROVE RegistryInv
  OBVIOUS
<1>1. SessionsOK
  BY LimitsAssumption DEF Init, SessionsOK, Ids
<1>2. PulseOK
  BY DEF Init, PulseOK
<1>3. TablesOK
  BY DEF Init, TablesOK, Indexed
<1>4. ASSUME NEW c \in Conns PROVE ConnOK(c)
  <2>1. /\ lock[c] = Free /\ att[c] = {} /\ client[c] = NewClient /\ reply[c] = <<>>
        /\ queue[c] = <<>> /\ watchers = {}
    BY DEF Init
  <2>2. Free \in LockState /\ Free.op = "free" /\ Free.pc = "-" /\ Free.dead = {}
    BY DEF Free, LockState
  <2>3. /\ NewClient.on = FALSE
        /\ DOMAIN NewClient = {"on", "listing", "told", "overtaken", "ops"}
    BY DEF NewClient
  <2> QED BY <2>1, <2>2, <2>3 DEF ConnOK, LockOK, ClientOK, Quiet
<1> QED BY <1>1, <1>2, <1>3, <1>4 DEF RegistryInv

(* A wake reaches only connections that are up. *)
LEMMA WokenTable ==
  ASSUME Indexed(queue), NEW who
  PROVE  /\ Indexed(Woken(who))
         /\ \A d \in Conns : ~client[d].on => Woken(who)[d] = queue[d]
BY DEF Indexed, Woken

LEMMA Bystander ==
  ASSUME RegistryInv, NEW d \in Conns,
         lock'[d] = lock[d], att'[d] = att[d], client'[d] = client[d], reply'[d] = reply[d],
         client[d].on \/ queue'[d] = queue[d], d \in watchers' => d \in watchers,
         made' \in Nat, made <= made', exited \subseteq exited', ever \subseteq ever'
  PROVE  ConnOK(d)'
<1>1. ConnOK(d) /\ made \in Nat /\ 1..made \subseteq 1..made'
  BY LimitsAssumption DEF RegistryInv, SessionsOK
<1> QED BY <1>1 DEF ConnOK, LockOK, ClientOK, Quiet

(* A step of a thread that holds no connection's lock. *)
LEMMA QuietConns ==
  ASSUME RegistryInv, UNCHANGED <<lock, att, client, reply, watchers, made>>,
         queue' = queue \/ \E who : queue' = Woken(who),
         exited \subseteq exited', ever \subseteq ever'
  PROVE  TablesOK' /\ \A c \in Conns : ConnOK(c)'
<1>1. TablesOK /\ made \in Nat
  BY LimitsAssumption DEF RegistryInv, SessionsOK
<1>2. Indexed(queue') /\ \A d \in Conns : client[d].on \/ queue'[d] = queue[d]
  <2>1. CASE queue' = queue
    BY <1>1, <2>1 DEF TablesOK
  <2>2. CASE \E who : queue' = Woken(who)
    BY <1>1, <2>2, WokenTable DEF TablesOK
  <2> QED BY <2>1, <2>2
<1>3. TablesOK'
  BY <1>1, <1>2 DEF TablesOK, Indexed
<1> QED BY <1>1, <1>2, <1>3, Bystander

(* A step of connection c leaves every other one alone. *)
Alone(f, c) == f' = [f EXCEPT ![c] = f'[c]]

LEMMA OneConn ==
  ASSUME RegistryInv, NEW c \in Conns, ConnOK(c)',
         Alone(lock, c), Alone(att, c), Alone(client, c), Alone(reply, c),
         Alone(queue, c) \/ \E who : queue' = Woken(who),
         watchers' \subseteq watchers \cup {c},
         made' \in Nat, made <= made', exited \subseteq exited', ever \subseteq ever'
  PROVE  TablesOK' /\ \A d \in Conns : ConnOK(d)'
<1>1. TablesOK
  BY DEF RegistryInv
<1>2. /\ Indexed(queue')
      /\ \A d \in Conns \ {c} : client[d].on \/ queue'[d] = queue[d]
  <2>1. CASE Alone(queue, c)
    BY <1>1, <2>1 DEF TablesOK, Indexed, Alone
  <2>2. CASE \E who : queue' = Woken(who)
    BY <1>1, <2>2, WokenTable DEF TablesOK
  <2> QED BY <2>1, <2>2
<1>3. Indexed(lock') /\ Indexed(att') /\ Indexed(client') /\ Indexed(reply')
  BY <1>1 DEF TablesOK, Indexed, Alone
<1>4. ASSUME NEW d \in Conns \ {c}
      PROVE  /\ lock'[d] = lock[d] /\ att'[d] = att[d] /\ client'[d] = client[d]
             /\ reply'[d] = reply[d]
  BY <1>1 DEF TablesOK, Indexed, Alone
<1>5. ASSUME NEW d \in Conns \ {c} PROVE ConnOK(d)'
  BY <1>2, <1>4, Bystander
<1>6. TablesOK'
  BY <1>2, <1>3 DEF TablesOK, Indexed
<1> QED BY <1>5, <1>6
-----------------------------------------------------------------------------
(* The pulse and the sessions' reader threads. *)
LEMMA ThreadSteps ==
  ASSUME RegistryInv,
         \/ WindowPasses \/ Disarm \/ Bump
         \/ \E id \in Ids : \/ FactMoves(id) \/ Report(id) \/ DisarmThreadless(id)
                            \/ ReaderTouch(id) \/ ReaderWake(id) \/ ReaderEof(id)
  PROVE  RegistryInv'
<1>0. SessionsOK /\ PulseOK
  BY DEF RegistryInv
<1>1. CASE WindowPasses \/ Disarm \/ Bump
  <2>1. UNCHANGED <<mapVars, sessVars, factVars, lock, att, client, reply, watchers>>
    BY <1>1 DEF WindowPasses, Disarm, Bump
  <2>2. queue' = queue \/ \E who : queue' = Woken(who)
    BY <1>1 DEF WindowPasses, Disarm, Bump, Touch
  <2>3. SessionsOK'
    BY <1>0, <2>1 DEF SessionsOK, mapVars, sessVars, factVars
  <2>4. PulseOK'
    <3>1. UNCHANGED <<scene, watchers>> /\ (stale' = stale \/ stale' = Conns)
      BY <1>1, <2>1 DEF WindowPasses, Disarm, Bump, Touch, mapVars
    <3>2. recent' \in BOOLEAN /\ armed' \in BOOLEAN /\ timer' \in BOOLEAN /\ firing' \in Nat
      <4>1. CASE WindowPasses
        BY <1>0, <4>1 DEF PulseOK, WindowPasses
      <4>2. CASE Disarm
        <5>1. firing \in Nat /\ firing' = firing + 1
          BY <1>0, <4>2 DEF PulseOK, Disarm
        <5>2. recent' = TRUE /\ armed' = FALSE /\ timer' = FALSE
          BY <4>2 DEF Disarm
        <5>3. firing' \in Nat
          BY <5>1
        <5> QED BY <5>2, <5>3, Zenon
      <4>3. CASE Bump
        BY <1>0, <4>3 DEF PulseOK, Bump
      <4> QED BY <1>1, <4>1, <4>2, <4>3
    <3> QED BY <1>0, <3>1, <3>2 DEF PulseOK
  <2>5. TablesOK' /\ \A c \in Conns : ConnOK(c)'
    BY <2>1, <2>2, QuietConns DEF mapVars, sessVars
  <2> QED BY <2>3, <2>4, <2>5 DEF RegistryInv
<1>2. ASSUME NEW id \in Ids,
             \/ FactMoves(id) \/ Report(id) \/ DisarmThreadless(id)
             \/ ReaderTouch(id) \/ ReaderWake(id) \/ ReaderEof(id)
      PROVE  RegistryInv'
  <2>1. UNCHANGED <<mapVars, hung, ever, subs, lock, att, client, reply, watchers>>
    BY <1>2 DEF FactMoves, Report, DisarmThreadless, ReaderTouch, ReaderWake, ReaderEof, sessVars
  <2>2. queue' = queue \/ \E who : queue' = Woken(who)
    BY <1>2 DEF FactMoves, Report, DisarmThreadless, ReaderTouch, ReaderWake, ReaderEof, Touch
  <2>3. PICK from, to : /\ reader[id] = from /\ reader' = [reader EXCEPT ![id] = to]
                        /\ from # "unborn"
                        /\ to \in {"reading", "report", "threadless", "touch", "wake", "eof", "done"}
    BY <1>2 DEF FactMoves, Report, DisarmThreadless, ReaderTouch, ReaderWake, ReaderEof, Reader
  <2>4. /\ exited' = exited \/ exited' = exited \cup {id}
        /\ facts' = facts \/ facts' = [facts EXCEPT ![id] = @ + 1]
    BY <1>2 DEF FactMoves, Report, DisarmThreadless, ReaderTouch, ReaderWake, ReaderEof, sessVars
  <2>5. SessionsOK'
    <3>1. id \in 1..made /\ facts' \in [Ids -> Nat]
      BY <1>0, <2>3, <2>4 DEF SessionsOK
    <3>2. /\ reader' \in [Ids -> {"unborn", "reading", "report", "threadless", "touch", "wake",
                                  "eof", "done"}]
          /\ \A o \in Ids : reader'[o] # "unborn" => o \in 1..made
      BY <1>0, <2>3, <3>1 DEF SessionsOK
    <3> QED BY <1>0, <2>1, <2>4, <3>1, <3>2 DEF SessionsOK, mapVars
  <2>6. PulseOK'
    BY <1>0, <1>2, <2>1 DEF PulseOK, FactMoves, Report, DisarmThreadless, ReaderTouch, ReaderWake,
       ReaderEof, Touch, pulseVars, mapVars
  <2>7. TablesOK' /\ \A c \in Conns : ConnOK(c)'
    BY <2>1, <2>2, <2>4, QuietConns DEF mapVars
  <2> QED BY <2>5, <2>6, <2>7 DEF RegistryInv
<1> QED BY <1>1, <1>2
-----------------------------------------------------------------------------
(* What connection c's step makes of its own entries. *)
StepOf(c, l, a, k, r) ==
  /\ lock' = [lock EXCEPT ![c] = l] /\ att' = [att EXCEPT ![c] = a]
  /\ client' = [client EXCEPT ![c] = k] /\ reply' = [reply EXCEPT ![c] = r]

Queues(c) == \/ queue' = queue
             \/ \E q : queue' = [queue EXCEPT ![c] = q]
             \/ \E who : queue' = Woken(who)

LEMMA Itself == ASSUME NEW f, NEW c \in Conns, Indexed(f) PROVE f = [f EXCEPT ![c] = f[c]]
BY DEF Indexed

LEMMA ConnParts ==
  ASSUME RegistryInv, NEW c \in Conns
  PROVE  /\ SessionsOK /\ PulseOK /\ ConnOK(c) /\ made \in Nat
         /\ lock = [lock EXCEPT ![c] = lock[c]] /\ att = [att EXCEPT ![c] = att[c]]
         /\ client = [client EXCEPT ![c] = client[c]] /\ reply = [reply EXCEPT ![c] = reply[c]]
         /\ Indexed(queue)
         /\ \A who : ~client[c].on => Woken(who)[c] = queue[c]
<1>1. TablesOK /\ SessionsOK /\ made \in Nat
  BY LimitsAssumption DEF RegistryInv, SessionsOK
<1>2. \A who : ~client[c].on => Woken(who)[c] = queue[c]
  BY <1>1, WokenTable DEF TablesOK
<1>3. lock = [lock EXCEPT ![c] = lock[c]] /\ att = [att EXCEPT ![c] = att[c]]
  BY <1>1, Itself DEF TablesOK
<1>4. client = [client EXCEPT ![c] = client[c]] /\ reply = [reply EXCEPT ![c] = reply[c]]
  BY <1>1, Itself DEF TablesOK
<1> QED BY <1>1, <1>2, <1>3, <1>4 DEF RegistryInv, TablesOK

LEMMA ConnDone ==
  ASSUME RegistryInv, NEW c \in Conns, NEW l, NEW a, NEW k, NEW r,
         StepOf(c, l, a, k, r), Queues(c), watchers' \subseteq watchers \cup {c},
         SessionsOK', PulseOK', made <= made', exited \subseteq exited', ever \subseteq ever',
         LockOK(l, made', exited' \cap ever'), ClientOK(k, a, made'),
         k.on \/ Quiet(c, watchers', l, a, queue'[c], r)
  PROVE  RegistryInv'
<1>1. TablesOK
  BY DEF RegistryInv
<1>2. /\ Alone(lock, c) /\ Alone(att, c) /\ lock'[c] = l /\ att'[c] = a
  BY <1>1 DEF TablesOK, Indexed, Alone, StepOf
<1>3. /\ Alone(client, c) /\ Alone(reply, c) /\ client'[c] = k /\ reply'[c] = r
  BY <1>1 DEF TablesOK, Indexed, Alone, StepOf
<1>4. Alone(queue, c) \/ \E who : queue' = Woken(who)
  BY <1>1 DEF TablesOK, Indexed, Alone, Queues
<1>5. ConnOK(c)'
  BY <1>2, <1>3 DEF ConnOK, Quiet
<1>6. made' \in Nat
  BY LimitsAssumption DEF SessionsOK
<1>7. TablesOK' /\ \A d \in Conns : ConnOK(d)'
  BY <1>2, <1>3, <1>4, <1>5, <1>6, OneConn
<1> QED BY <1>7 DEF RegistryInv

LEMMA LockKept ==
  ASSUME NEW l, NEW m \in Nat, NEW n \in Nat, m <= n, NEW d, NEW e, d \subseteq e, LockOK(l, m, d)
  PROVE  LockOK(l, n, e)
BY DEF LockOK

LEMMA LockFree == \A m, d : LockOK(Free, m, d) /\ Free.op = "free"
BY DEF LockOK, Free, LockState

LEMMA LockHeld ==
  ASSUME NEW op \in {"serve", "create", "attach", "close", "poll", "drop"},
         NEW pc \in {"watch", "list", "mark", "subscribe", "hangup", "told", "sweep"},
         NEW m \in Nat, NEW id \in Nat, op \in {"attach", "close", "create"} => id \in 1..m, NEW d
  PROVE  LockOK(Held(op, pc, id), m, d) /\ Held(op, pc, id).op = op
<1>1. /\ Held(op, pc, id) \in LockState /\ Held(op, pc, id).op = op /\ Held(op, pc, id).pc = pc
      /\ Held(op, pc, id).id = id /\ Held(op, pc, id).dead = {}
  BY DEF Held, LockState
<1> QED BY <1>1 DEF LockOK

(* Whoever holds the lock, but for a sweep, or has anything to send is up. *)
LEMMA Up ==
  ASSUME NEW c \in Conns, ConnOK(c),
         lock[c].op \notin {"free", "drop"} \/ reply[c] # <<>> \/ queue[c] # <<>>
  PROVE  client[c].on
BY DEF ConnOK, Quiet

(* A connection opens, and its reader thread registers what it watches. *)
LEMMA ServeSteps ==
  ASSUME RegistryInv, NEW c \in Conns, Connect(c) \/ Watch(c)
  PROVE  RegistryInv'
<1>0. /\ SessionsOK /\ PulseOK /\ ConnOK(c) /\ made \in Nat
      /\ lock = [lock EXCEPT ![c] = lock[c]] /\ att = [att EXCEPT ![c] = att[c]]
      /\ client = [client EXCEPT ![c] = client[c]] /\ reply = [reply EXCEPT ![c] = reply[c]]
  BY ConnParts
<1>1. CASE Connect(c)
  <2> DEFINE k == [NewClient EXCEPT !.on = TRUE, !.ops = client[c].ops + 1]
  <2>1. /\ client' = [client EXCEPT ![c] = k]
        /\ lock' = [lock EXCEPT ![c] = Held("serve", "watch", 0)] /\ stale' = stale \ {c}
        /\ UNCHANGED <<mapVars, sessVars, factVars, watchers, pulseVars, att, reply, queue>>
    BY <1>1 DEF Connect, Takes
  <2>2. StepOf(c, Held("serve", "watch", 0), att[c], k, reply[c])
    BY <1>0, <2>1 DEF StepOf
  <2>3. SessionsOK' /\ PulseOK'
    BY <1>0, <2>1 DEF SessionsOK, PulseOK, mapVars, sessVars, factVars, pulseVars
  <2>4. LockOK(Held("serve", "watch", 0), made', exited' \cap ever')
    BY <1>0, <2>1, LockHeld DEF mapVars
  <2>5. ClientOK(k, att[c], made') /\ k.on
    BY <1>0, <2>1 DEF ConnOK, ClientOK, NewClient, mapVars
  <2>6. /\ Queues(c) /\ made <= made' /\ exited \subseteq exited' /\ ever \subseteq ever'
        /\ watchers' \subseteq watchers \cup {c}
    BY <1>0, <2>1 DEF mapVars, sessVars, Queues
  <2> HIDE DEF k
  <2> QED BY <2>2, <2>3, <2>4, <2>5, <2>6, ConnDone
<1>2. CASE Watch(c)
  <2>1. /\ lock[c].op = "serve" /\ lock' = [lock EXCEPT ![c] = Free]
        /\ reply' = [reply EXCEPT ![c] = <<<<>>>>]
        /\ watchers' = IF c \in scene.watching THEN watchers \cup {c} ELSE watchers
        /\ UNCHANGED <<mapVars, sessVars, factVars, stale, pulseVars, att, queue, client>>
    BY <1>2 DEF Watch, At, Answers
  <2>2. StepOf(c, Free, att[c], client[c], <<<<>>>>)
    BY <1>0, <2>1 DEF StepOf
  <2>3. SessionsOK' /\ PulseOK'
    BY <1>0, <2>1 DEF SessionsOK, PulseOK, mapVars, sessVars, factVars, pulseVars
  <2>4. client[c].on /\ ClientOK(client[c], att[c], made')
    BY <1>0, <2>1, Up DEF ConnOK, mapVars
  <2>5. LockOK(Free, made', exited' \cap ever') /\ watchers' \subseteq watchers \cup {c}
    BY <2>1, LockFree
  <2>6. Queues(c) /\ made <= made' /\ exited \subseteq exited' /\ ever \subseteq ever'
    BY <1>0, <2>1 DEF mapVars, sessVars, Queues
  <2> QED BY <2>2, <2>3, <2>4, <2>5, <2>6, ConnDone
<1> QED BY <1>1, <1>2

(* What asking leaves of the client's record. *)
LEMMA CountedClient ==
  ASSUME NEW c \in Conns, NEW what, ConnOK(c), Asking(c, what), Counted(c)
  PROVE  \E k : /\ client' = [client EXCEPT ![c] = k] /\ k.on
                /\ \A a, m : a \subseteq 1..m => ClientOK(k, a, m)
<1> DEFINE k == [client[c] EXCEPT !.ops = @ + 1]
<1>1. client' = [client EXCEPT ![c] = k] /\ client[c].on
  BY DEF Counted, Asking
<1>2. k.on /\ DOMAIN k = {"on", "listing", "told", "overtaken", "ops"} /\ k.on \in BOOLEAN
  BY <1>1 DEF ConnOK, ClientOK
<1> HIDE DEF k
<1> QED BY <1>1, <1>2 DEF ClientOK

(* Requests answered at once, and an answer put in the queue. *)
LEMMA AnswerSteps ==
  ASSUME RegistryInv, NEW c \in Conns, List(c) \/ Send(c) \/ CloseHangsUp(c)
  PROVE  RegistryInv'
<1>0. /\ SessionsOK /\ PulseOK /\ ConnOK(c) /\ made \in Nat
      /\ lock = [lock EXCEPT ![c] = lock[c]] /\ att = [att EXCEPT ![c] = att[c]]
      /\ client = [client EXCEPT ![c] = client[c]] /\ reply = [reply EXCEPT ![c] = reply[c]]
  BY ConnParts
<1>1. CASE List(c)
  <2>1. PICK k : /\ client' = [client EXCEPT ![c] = k] /\ k.on /\ ClientOK(k, att[c], made)
    <3>1. CASE Asking(c, "list") /\ Counted(c)
      <4>1. att[c] \subseteq 1..made
        BY <1>0 DEF ConnOK, ClientOK
      <4> QED BY <1>0, <3>1, <4>1, CountedClient
    <3>2. CASE At(c, "create", "list") /\ client' = client
      <4>1. client[c].on /\ ClientOK(client[c], att[c], made)
        BY <1>0, <3>2, Up DEF At, ConnOK
      <4> QED BY <1>0, <3>2, <4>1
    <3> QED BY <1>1, <3>1, <3>2 DEF List
  <2>2. /\ lock' = [lock EXCEPT ![c] = Free] /\ reply' = [reply EXCEPT ![c] = <<<<Listing>>>>]
        /\ UNCHANGED <<mapVars, sessVars, factVars, stale, watchers, pulseVars, att, queue>>
    BY <1>1 DEF List, Answers
  <2>3. StepOf(c, Free, att[c], k, <<<<Listing>>>>)
    BY <1>0, <2>1, <2>2 DEF StepOf
  <2>4. SessionsOK' /\ PulseOK'
    BY <1>0, <2>2 DEF SessionsOK, PulseOK, mapVars, sessVars, factVars, pulseVars
  <2>5. LockOK(Free, made', exited' \cap ever')
    BY LockFree
  <2>6. /\ Queues(c) /\ made <= made' /\ exited \subseteq exited' /\ ever \subseteq ever'
        /\ watchers' \subseteq watchers \cup {c} /\ made' = made
    BY <1>0, <2>2 DEF mapVars, sessVars, Queues
  <2> QED BY <2>1, <2>3, <2>4, <2>5, <2>6, ConnDone
<1>2. CASE Send(c)
  <2>1. /\ reply[c] # <<>>
        /\ queue' = [queue EXCEPT ![c] = Enqueued(@, reply[c][1])]
        /\ reply' = [reply EXCEPT ![c] = <<>>]
        /\ UNCHANGED <<mapVars, sessVars, factVars, stale, watchers, pulseVars, lock, att, client>>
    BY <1>2 DEF Send
  <2> DEFINE sent == <<>>
  <2>2. StepOf(c, lock[c], att[c], client[c], sent)
    BY <1>0, <2>1 DEF StepOf
  <2>3. SessionsOK' /\ PulseOK'
    BY <1>0, <2>1 DEF SessionsOK, PulseOK, mapVars, sessVars, factVars, pulseVars
  <2>4. client[c].on /\ made' = made /\ exited' = exited /\ ever' = ever
    BY <1>0, <2>1, Up DEF mapVars, sessVars
  <2>5. LockOK(lock[c], made', exited' \cap ever') /\ ClientOK(client[c], att[c], made')
    BY <1>0, <2>4 DEF ConnOK
  <2>6. /\ made <= made' /\ exited \subseteq exited' /\ ever \subseteq ever'
        /\ watchers' \subseteq watchers \cup {c}
    BY <1>0, <2>1, <2>4
  <2>7. Queues(c)
    BY <2>1, Zenon DEF Queues
  <2> HIDE DEF sent
  <2> QED BY <2>2, <2>3, <2>4, <2>5, <2>6, <2>7, ConnDone
<1>3. CASE CloseHangsUp(c)
  <2>1. /\ lock[c].op = "close" /\ hung' = hung \cup {lock[c].id}
        /\ lock' = [lock EXCEPT ![c] = Free] /\ reply' = [reply EXCEPT ![c] = <<<<>>>>]
        /\ stale' = Conns /\ queue' = Woken(watchers)
        /\ UNCHANGED <<mapVars, exited, ever, subs, factVars, watchers, pulseVars, att, client>>
    BY <1>3 DEF CloseHangsUp, At, HangsUp, Touch, Answers
  <2>2. StepOf(c, Free, att[c], client[c], <<<<>>>>)
    BY <1>0, <2>1 DEF StepOf
  <2>3. SessionsOK' /\ PulseOK'
    <3>1. lock[c].id \in 1..made
      BY <1>0, <2>1 DEF ConnOK, LockOK
    <3> QED BY <1>0, <2>1, <3>1 DEF SessionsOK, PulseOK, mapVars, factVars, pulseVars
  <2>4. client[c].on /\ made' = made /\ ClientOK(client[c], att[c], made)
    BY <1>0, <2>1, Up DEF mapVars, ConnOK
  <2>5. LockOK(Free, made', exited' \cap ever')
    BY LockFree
  <2>6. /\ Queues(c) /\ made <= made' /\ exited \subseteq exited' /\ ever \subseteq ever'
        /\ watchers' \subseteq watchers \cup {c}
    BY <1>0, <2>1, <2>4 DEF Queues
  <2> QED BY <2>2, <2>3, <2>4, <2>5, <2>6, ConnDone
<1> QED BY <1>1, <1>2, <1>3

(* A new session, the next id. *)
LEMMA CreateSteps ==
  ASSUME RegistryInv, NEW c \in Conns, Create(c)
  PROVE  RegistryInv'
<1>0. /\ SessionsOK /\ PulseOK /\ ConnOK(c) /\ made \in Nat
      /\ att = [att EXCEPT ![c] = att[c]] /\ reply = [reply EXCEPT ![c] = reply[c]]
  BY ConnParts
<1>1. /\ made < MaxSessions /\ made' = made + 1 /\ kept' = kept \cup {made + 1}
      /\ reader' = [reader EXCEPT ![made + 1] = "reading"]
      /\ lock' = [lock EXCEPT ![c] = Held("create", "list", made + 1)]
      /\ stale' = Conns /\ queue' = Woken(watchers)
      /\ UNCHANGED <<scene, asked, sessVars, facts, watchers, pulseVars, att, reply>>
  BY DEF Create, NextId, Touch, Takes
<1>2. PICK k : /\ client' = [client EXCEPT ![c] = k] /\ k.on
               /\ \A a, m : a \subseteq 1..m => ClientOK(k, a, m)
  BY <1>0, CountedClient DEF Create
<1>3. StepOf(c, Held("create", "list", made + 1), att[c], k, reply[c])
  BY <1>0, <1>1, <1>2 DEF StepOf
<1>4. SessionsOK'
  <2>1. made' \in 0..MaxSessions /\ 1..made \subseteq 1..made' /\ made + 1 \in 1..made'
    BY <1>1, LimitsAssumption, <1>0 DEF SessionsOK
  <2>2. /\ kept' \subseteq 1..made' /\ asked' \subseteq 1..made' /\ exited' \subseteq 1..made'
        /\ hung' \subseteq 1..made' /\ ever' \subseteq 1..made'
    BY <1>0, <1>1, <2>1 DEF SessionsOK, sessVars
  <2>3. /\ reader' \in [Ids -> {"unborn", "reading", "report", "threadless", "touch", "wake",
                                "eof", "done"}]
        /\ \A id \in Ids : reader'[id] # "unborn" => id \in 1..made'
    BY <1>0, <1>1, <2>1 DEF SessionsOK
  <2> QED BY <1>0, <1>1, <2>1, <2>2, <2>3 DEF SessionsOK, sessVars
<1>5. PulseOK'
  BY <1>0, <1>1 DEF PulseOK, pulseVars
<1>6. LockOK(Held("create", "list", made + 1), made', exited' \cap ever')
  <2>1. made' \in Nat /\ made + 1 \in Nat /\ made + 1 \in 1..made'
    BY <1>0, <1>1
  <2> QED BY <2>1, LockHeld
<1>7. /\ made <= made' /\ exited \subseteq exited' /\ ever \subseteq ever'
      /\ watchers' \subseteq watchers \cup {c}
  BY <1>0, <1>1 DEF sessVars
<1>8. ClientOK(k, att[c], made')
  BY <1>0, <1>1, <1>2 DEF ConnOK, ClientOK
<1>9. Queues(c)
  BY <1>1 DEF Queues
<1> QED BY <1>2, <1>3, <1>4, <1>5, <1>6, <1>7, <1>8, <1>9, ConnDone

LEMMA PartedTable ==
  ASSUME NEW s \in [Ids -> [Conns -> Nat]], NEW id \in Ids, NEW c \in Conns
  PROVE  /\ Parted(s, id, c) \in [Ids -> [Conns -> Nat]]
         /\ [s EXCEPT ![id][c] = @ + 1] \in [Ids -> [Conns -> Nat]]
BY DEF Parted

(* Requests that look for a session, and find it or answer at once. *)
LEMMA LookingSteps ==
  ASSUME RegistryInv, NEW c \in Conns, NEW id \in Ids,
         AttachFinds(c, id) \/ Detach(c, id) \/ Close(c, id)
  PROVE  RegistryInv'
<1>0. /\ SessionsOK /\ PulseOK /\ ConnOK(c) /\ made \in Nat
      /\ lock = [lock EXCEPT ![c] = lock[c]] /\ att = [att EXCEPT ![c] = att[c]]
      /\ reply = [reply EXCEPT ![c] = reply[c]]
  BY ConnParts
<1>1. /\ UNCHANGED <<scene, made, exited, hung, ever, factVars, watchers, pulseVars>>
      /\ kept' \subseteq kept /\ (asked' = asked \/ (asked' = asked \cup {id} /\ id \in 1..made))
      /\ subs' = subs \/ subs' = Parted(subs, id, c)
      /\ (stale' = stale /\ queue' = queue) \/ (stale' = Conns /\ queue' = Woken(watchers))
  BY DEF AttachFinds, Detach, Close, Touch, NoTouch, mapVars, sessVars
<1>2. PICK k : /\ client' = [client EXCEPT ![c] = k] /\ k.on
               /\ \A a, m : a \subseteq 1..m => ClientOK(k, a, m)
  BY <1>0, CountedClient DEF AttachFinds, Detach, Close
<1>3. /\ att' = att \/ att' = [att EXCEPT ![c] = att[c] \ {id}]
      /\ \/ reply' = reply /\ id \in 1..made
            /\ \E op \in {"attach", "close"}, pc \in {"mark", "hangup"} :
                 lock' = [lock EXCEPT ![c] = Held(op, pc, id)]
         \/ lock' = lock /\ reply' = [reply EXCEPT ![c] = <<<<>>>>]
  BY DEF AttachFinds, Detach, Close, Takes
<1>4. SessionsOK'
  <2>1. subs' \in [Ids -> [Conns -> Nat]]
    BY <1>0, <1>1, PartedTable DEF SessionsOK
  <2> QED BY <1>0, <1>1, <2>1 DEF SessionsOK, factVars
<1>5. PulseOK'
  BY <1>0, <1>1 DEF PulseOK, pulseVars
<1>6. PICK a : att' = [att EXCEPT ![c] = a] /\ a \subseteq 1..made
  BY <1>0, <1>3 DEF ConnOK, ClientOK
<1>7. PICK l, r : /\ lock' = [lock EXCEPT ![c] = l] /\ reply' = [reply EXCEPT ![c] = r]
                  /\ LockOK(l, made, exited \cap ever)
  <2>1. CASE lock' = lock
    BY <1>0, <1>3, <2>1 DEF ConnOK
  <2>2. ASSUME NEW op \in {"attach", "close"}, NEW pc \in {"mark", "hangup"}, id \in 1..made,
               lock' = [lock EXCEPT ![c] = Held(op, pc, id)], reply' = reply
        PROVE  \E l, r : /\ lock' = [lock EXCEPT ![c] = l] /\ reply' = [reply EXCEPT ![c] = r]
                         /\ LockOK(l, made, exited \cap ever)
    <3>1. LockOK(Held(op, pc, id), made, exited \cap ever)
      BY <1>0, <2>2, LockHeld
    <3> QED BY <1>0, <2>2, <3>1
  <2> QED BY <1>3, <2>1, <2>2
<1>8. StepOf(c, l, a, k, r)
  BY <1>2, <1>6, <1>7 DEF StepOf
<1>9. Queues(c)
  BY <1>1 DEF Queues
<1>10. /\ made <= made' /\ exited \subseteq exited' /\ ever \subseteq ever'
       /\ watchers' \subseteq watchers \cup {c} /\ ClientOK(k, a, made')
       /\ LockOK(l, made', exited' \cap ever')
  BY <1>0, <1>1, <1>2, <1>6, <1>7
<1> QED BY <1>2, <1>4, <1>5, <1>8, <1>9, <1>10, ConnDone

(* The rest of an attach. *)
LEMMA AttachSteps ==
  ASSUME RegistryInv, NEW c \in Conns, AttachMarks(c) \/ AttachSubscribes(c)
  PROVE  RegistryInv'
<1>0. /\ SessionsOK /\ PulseOK /\ ConnOK(c) /\ made \in Nat
      /\ att = [att EXCEPT ![c] = att[c]]
      /\ client = [client EXCEPT ![c] = client[c]] /\ reply = [reply EXCEPT ![c] = reply[c]]
  BY ConnParts
<1>1. /\ lock[c].op = "attach" /\ lock[c].pc \in {"mark", "subscribe"}
      /\ UNCHANGED <<mapVars, exited, hung, factVars, watchers, pulseVars, client>>
  BY DEF AttachMarks, AttachSubscribes, At
<1>2. /\ lock[c].id \in 1..made /\ lock[c].id \in Ids /\ client[c].on
      /\ LockOK(lock[c], made, exited \cap ever) /\ ClientOK(client[c], att[c], made)
  <2>1. lock[c].id \in 1..made
    BY <1>0, <1>1 DEF ConnOK, LockOK
  <2>2. client[c].on
    BY <1>0, <1>1, Up
  <2> QED BY <1>0, <2>1, <2>2, LimitsAssumption DEF ConnOK, SessionsOK, Ids
<1>3. PulseOK'
  BY <1>0, <1>1 DEF PulseOK, AttachMarks, AttachSubscribes, Touch, pulseVars, mapVars
<1>4. SessionsOK'
  <2>1. ever' = ever \/ ever' = ever \cup {lock[c].id}
    BY DEF AttachMarks, AttachSubscribes
  <2> DEFINE id == lock[c].id
  <2>2. subs' = subs \/ subs' = [subs EXCEPT ![id][c] = @ + 1]
    BY DEF AttachMarks, AttachSubscribes
  <2>3. subs' \in [Ids -> [Conns -> Nat]]
    <3>1. id \in Ids /\ subs \in [Ids -> [Conns -> Nat]]
      BY <1>0, <1>2 DEF SessionsOK
    <3> HIDE DEF id
    <3>2. [subs EXCEPT ![id][c] = @ + 1] \in [Ids -> [Conns -> Nat]]
      BY <3>1, PartedTable
    <3> QED BY <3>1, <2>2, <3>2
  <2> QED BY <1>0, <1>1, <1>2, <2>1, <2>3 DEF SessionsOK, mapVars, factVars
<1>5. CASE AttachMarks(c)
  <2> DEFINE l == [lock[c] EXCEPT !.pc = "subscribe"]
  <2>1. /\ lock' = [lock EXCEPT ![c] = l] /\ ever' = ever \cup {lock[c].id}
        /\ UNCHANGED <<att, reply, queue>>
    BY <1>5 DEF AttachMarks, Goes
  <2>2. StepOf(c, l, att[c], client[c], reply[c])
    BY <1>0, <1>1, <2>1 DEF StepOf
  <2>3. LockOK(l, made', exited' \cap ever')
    <3>1. /\ l \in LockState /\ l.op = "attach" /\ l.id = lock[c].id /\ l.pc = "subscribe"
          /\ l.dead = lock[c].dead
      BY <1>1, <1>2 DEF LockOK, LockState
    <3>2. made' = made /\ exited \cap ever \subseteq exited' \cap ever'
      BY <1>1, <2>1 DEF mapVars
    <3> HIDE DEF l
    <3> QED BY <1>2, <3>1, <3>2 DEF LockOK
  <2>4. /\ Queues(c) /\ made <= made' /\ exited \subseteq exited' /\ ever \subseteq ever'
        /\ watchers' \subseteq watchers \cup {c} /\ ClientOK(client[c], att[c], made')
    BY <1>0, <1>1, <1>2, <2>1 DEF mapVars, Queues
  <2> HIDE DEF l
  <2> QED BY <1>2, <1>3, <1>4, <2>2, <2>3, <2>4, ConnDone
<1>6. CASE AttachSubscribes(c)
  <2>1. /\ lock' = [lock EXCEPT ![c] = Free] /\ reply' = [reply EXCEPT ![c] = <<<<>>>>]
        /\ att' = [att EXCEPT ![c] = att[c] \cup {lock[c].id}]
        /\ ever' = ever /\ queue' = Woken(watchers)
    BY <1>6 DEF AttachSubscribes, Answers, Touch
  <2>2. StepOf(c, Free, att[c] \cup {lock[c].id}, client[c], <<<<>>>>)
    BY <1>0, <1>1, <2>1 DEF StepOf
  <2>3. ClientOK(client[c], att[c] \cup {lock[c].id}, made')
    BY <1>1, <1>2 DEF ClientOK, mapVars
  <2>4. /\ Queues(c) /\ made <= made' /\ exited \subseteq exited' /\ ever \subseteq ever'
        /\ watchers' \subseteq watchers \cup {c}
    BY <1>0, <1>1, <2>1 DEF mapVars, Queues
  <2>5. LockOK(Free, made', exited' \cap ever')
    BY LockFree
  <2> QED BY <1>2, <1>3, <1>4, <2>2, <2>3, <2>4, <2>5, ConnDone
<1> QED BY <1>5, <1>6

(* A poll, up to its sweep. *)
LEMMA PollSteps ==
  ASSUME RegistryInv, NEW c \in Conns, PollBegins(c) \/ PollLists(c) \/ PollTells(c)
  PROVE  RegistryInv'
<1>0. /\ SessionsOK /\ PulseOK /\ ConnOK(c) /\ made \in Nat
      /\ att = [att EXCEPT ![c] = att[c]] /\ reply = [reply EXCEPT ![c] = reply[c]]
  BY ConnParts
<1>1. /\ UNCHANGED <<mapVars, sessVars, factVars, watchers, pulseVars, att, reply>>
      /\ stale' \subseteq stale /\ (queue' = queue \/ queue' = [queue EXCEPT ![c] = Tail(@)])
  BY DEF PollBegins, PollLists, PollTells
<1>2. client[c].on
  BY <1>0, Up DEF PollBegins, PollLists, PollTells, At
<1>3. PICK k : /\ client' = [client EXCEPT ![c] = k] /\ k.on /\ ClientOK(k, att[c], made)
  <2>0. ClientOK(client[c], att[c], made)
    BY <1>0 DEF ConnOK
  <2>1. CASE PollBegins(c)
    <3> DEFINE k == [client[c] EXCEPT !.listing =
                       IF Head(queue[c]) = <<>> THEN @ ELSE Head(queue[c])[1]]
    <3>1. client' = [client EXCEPT ![c] = k]
      BY <2>1 DEF PollBegins
    <3>2. k.on /\ ClientOK(k, att[c], made)
      BY <1>2, <2>0 DEF ClientOK
    <3> QED BY <3>1, <3>2
  <2>2. CASE PollLists(c)
    <3> DEFINE k == [client[c] EXCEPT !.listing = Listing,
                                      !.overtaken = HoldsListing(reply[c] \o queue[c])]
    <3>1. client' = [client EXCEPT ![c] = k]
      BY <2>2 DEF PollLists
    <3>2. k.on /\ ClientOK(k, att[c], made)
      BY <1>2, <2>0 DEF ClientOK
    <3> QED BY <3>1, <3>2
  <2>3. CASE PollTells(c)
    <3> DEFINE k == [client[c] EXCEPT !.told = @ \cup (att[c] \cap kept \cap exited)]
    <3>1. client' = [client EXCEPT ![c] = k]
      BY <2>3 DEF PollTells
    <3>2. k.on /\ ClientOK(k, att[c], made)
      BY <1>2, <2>0 DEF ClientOK
    <3> QED BY <3>1, <3>2
  <2> QED BY <2>1, <2>2, <2>3
<1>4. PICK l : lock' = [lock EXCEPT ![c] = l] /\ LockOK(l, made, exited \cap ever)
  <2>1. CASE PollBegins(c)
    <3>1. PICK pc \in {"list", "told"} : lock' = [lock EXCEPT ![c] = Held("poll", pc, 0)]
      BY <2>1 DEF PollBegins, Takes
    <3>2. LockOK(Held("poll", pc, 0), made, exited \cap ever)
      BY <1>0, LockHeld
    <3> QED BY <3>1, <3>2
  <2>2. CASE PollLists(c) \/ PollTells(c)
    <3>1. PICK pc \in {"told", "sweep"} : lock' = [lock EXCEPT ![c] = [lock[c] EXCEPT !.pc = pc]]
      BY <2>2 DEF PollLists, PollTells, Goes
    <3> DEFINE l == [lock[c] EXCEPT !.pc = pc]
    <3>2. LockOK(lock[c], made, exited \cap ever)
      BY <1>0 DEF ConnOK
    <3>3. /\ l \in LockState /\ l.op = lock[c].op /\ l.id = lock[c].id /\ l.pc = pc
          /\ l.dead = lock[c].dead
      BY <3>2 DEF LockOK, LockState
    <3>4. lock' = [lock EXCEPT ![c] = l]
      BY <3>1
    <3> HIDE DEF l
    <3>5. LockOK(l, made, exited \cap ever)
      BY <3>2, <3>3 DEF LockOK
    <3> QED BY <3>4, <3>5
  <2> QED BY <2>1, <2>2
<1>5. StepOf(c, l, att[c], k, reply[c])
  BY <1>0, <1>1, <1>3, <1>4 DEF StepOf
<1>6. SessionsOK' /\ PulseOK'
  BY <1>0, <1>1 DEF SessionsOK, PulseOK, mapVars, sessVars, factVars, pulseVars
<1>7. Queues(c)
  BY <1>1 DEF Queues
<1>8. /\ made' = made /\ exited' = exited /\ ever' = ever /\ made <= made'
      /\ watchers' \subseteq watchers \cup {c}
  BY <1>0, <1>1 DEF mapVars, sessVars
<1> QED BY <1>3, <1>4, <1>5, <1>6, <1>7, <1>8, ConnDone

(* A sweep, at the end of a poll or of a connection that has gone. *)
LEMMA SweepSteps ==
  ASSUME RegistryInv, NEW c \in Conns,
         SweepLooks(c) \/ (\E id \in Ids : SweepRemoves(c, id)) \/ SweepReaps(c)
  PROVE  RegistryInv'
<1>0. /\ SessionsOK /\ PulseOK /\ ConnOK(c) /\ made \in Nat
      /\ att = [att EXCEPT ![c] = att[c]] /\ Indexed(queue)
      /\ client = [client EXCEPT ![c] = client[c]] /\ reply = [reply EXCEPT ![c] = reply[c]]
      /\ \A who : ~client[c].on => Woken(who)[c] = queue[c]
  BY ConnParts
<1>1. /\ UNCHANGED <<scene, made, asked, exited, ever, subs, factVars, watchers, pulseVars, att,
                     reply, client>>
      /\ kept' \subseteq kept
      /\ (stale' = stale /\ queue' = queue) \/ (stale' = Conns /\ queue' = Woken(watchers))
  BY DEF SweepLooks, SweepRemoves, SweepReaps, HangsUp, Touch, mapVars, sessVars
<1>2. PICK l : /\ lock' = [lock EXCEPT ![c] = l] /\ LockOK(l, made, exited \cap ever)
               /\ l.op \in {"poll", "drop"} /\ l.op = lock[c].op
  <2>0. LockOK(lock[c], made, exited \cap ever)
    BY <1>0 DEF ConnOK
  <2>1. CASE SweepLooks(c)
    <3> DEFINE l == [lock[c] EXCEPT !.dead = Sweepable, !.pc = "close"]
    <3>1. lock' = [lock EXCEPT ![c] = l] /\ lock[c].op \in {"poll", "drop"}
      BY <2>1 DEF SweepLooks
    <3>2. Sweepable \subseteq exited \cap ever /\ Sweepable \subseteq Ids
      BY <1>0, LimitsAssumption DEF Sweepable, SessionsOK, Ids
    <3>3. /\ l \in LockState /\ l.op = lock[c].op /\ l.id = lock[c].id /\ l.pc = "close"
          /\ l.dead = Sweepable
      BY <2>0, <3>2 DEF LockOK, LockState
    <3> HIDE DEF l
    <3>4. LockOK(l, made, exited \cap ever)
      BY <3>1, <3>2, <3>3 DEF LockOK
    <3> QED BY <3>1, <3>3, <3>4
  <2>2. ASSUME NEW id \in Ids, SweepRemoves(c, id)
        PROVE  \E l : /\ lock' = [lock EXCEPT ![c] = l] /\ LockOK(l, made, exited \cap ever)
                      /\ l.op \in {"poll", "drop"} /\ l.op = lock[c].op
    <3> DEFINE l == [lock[c] EXCEPT !.dead = @ \ {id}, !.id = id,
                                    !.pc = IF id \in kept THEN "reap" ELSE "close"]
    <3>1. lock' = [lock EXCEPT ![c] = l] /\ lock[c].pc = "close" /\ id \in lock[c].dead
      BY <2>2 DEF SweepRemoves
    <3>2. id \in 1..made /\ id \in Nat /\ lock[c].op \in {"poll", "drop"}
      BY <1>0, <2>0, <3>1 DEF LockOK, SessionsOK
    <3>3. /\ l \in LockState /\ l.op = lock[c].op /\ l.id = id /\ l.pc \in {"reap", "close"}
          /\ l.dead = lock[c].dead \ {id}
      BY <2>0, <3>2 DEF LockOK, LockState
    <3> HIDE DEF l
    <3>4. LockOK(l, made, exited \cap ever)
      BY <2>0, <3>2, <3>3 DEF LockOK
    <3> QED BY <3>1, <3>2, <3>3, <3>4
  <2>3. CASE SweepReaps(c)
    <3> DEFINE l == [lock[c] EXCEPT !.pc = "close"]
    <3>1. lock' = [lock EXCEPT ![c] = l] /\ lock[c].pc = "reap"
      BY <2>3 DEF SweepReaps, Goes
    <3>2. lock[c].op \in {"poll", "drop"}
      BY <2>0, <3>1 DEF LockOK
    <3>3. /\ l \in LockState /\ l.op = lock[c].op /\ l.id = lock[c].id /\ l.pc = "close"
          /\ l.dead = lock[c].dead
      BY <2>0 DEF LockOK, LockState
    <3> HIDE DEF l
    <3>4. LockOK(l, made, exited \cap ever)
      BY <2>0, <3>2, <3>3 DEF LockOK
    <3> QED BY <3>1, <3>2, <3>3, <3>4
  <2> QED BY <2>1, <2>2, <2>3
<1>3. StepOf(c, l, att[c], client[c], reply[c])
  BY <1>0, <1>1, <1>2 DEF StepOf
<1>4. SessionsOK'
  <2>1. hung' = hung \/ (SweepReaps(c) /\ hung' = hung \cup {lock[c].id})
    BY DEF SweepLooks, SweepRemoves, SweepReaps, HangsUp, sessVars
  <2>2. hung' \subseteq 1..made
    BY <1>0, <2>1 DEF SessionsOK, SweepReaps, ConnOK, LockOK
  <2> QED BY <1>0, <1>1, <2>2 DEF SessionsOK, factVars
<1>5. PulseOK'
  BY <1>0, <1>1 DEF PulseOK, pulseVars
<1>6. Queues(c)
  BY <1>1 DEF Queues
<1>7. /\ LockOK(l, made', exited' \cap ever') /\ ClientOK(client[c], att[c], made')
      /\ made <= made' /\ exited \subseteq exited' /\ ever \subseteq ever'
      /\ watchers' \subseteq watchers \cup {c}
  BY <1>0, <1>1, <1>2 DEF ConnOK
<1>8. client[c].on \/ Quiet(c, watchers', l, att[c], queue'[c], reply[c])
  <2>1. CASE ~client[c].on
    <3>1. Quiet(c, watchers, lock[c], att[c], queue[c], reply[c])
      BY <1>0, <2>1 DEF ConnOK
    <3>2. queue'[c] = queue[c] /\ watchers' = watchers
      BY <1>0, <1>1, <2>1
    <3> QED BY <1>2, <3>1, <3>2 DEF Quiet
  <2> QED BY <2>1
<1> QED BY <1>3, <1>4, <1>5, <1>6, <1>7, <1>8, ConnDone

LEMMA ReleasedTable ==
  ASSUME NEW s \in [Ids -> [Conns -> Nat]], NEW c \in Conns
  PROVE  Released(s, c) \in [Ids -> [Conns -> Nat]]
<1>1. ASSUME NEW id \in Ids PROVE Parted(s, id, c)[id] \in [Conns -> Nat]
  BY PartedTable
<1> QED BY <1>1 DEF Released

(* A poll or a connection ends, or a link dies. *)
LEMMA EndSteps ==
  ASSUME RegistryInv, NEW c \in Conns, PollEnds(c) \/ Drop(c) \/ DropEnds(c)
  PROVE  RegistryInv'
<1>0. /\ SessionsOK /\ PulseOK /\ ConnOK(c) /\ made \in Nat
      /\ att = [att EXCEPT ![c] = att[c]] /\ Indexed(queue)
      /\ client = [client EXCEPT ![c] = client[c]] /\ reply = [reply EXCEPT ![c] = reply[c]]
      /\ \A who : ~client[c].on => Woken(who)[c] = queue[c]
  BY ConnParts
<1>1. CASE PollEnds(c) \/ DropEnds(c)
  <2>1. /\ lock' = [lock EXCEPT ![c] = Free]
        /\ UNCHANGED <<mapVars, sessVars, factVars, watchers, pulseVars, att, reply, client>>
        /\ (stale' = stale /\ queue' = queue) \/ (stale' = Conns /\ queue' = Woken(watchers))
    BY <1>1 DEF PollEnds, DropEnds, Touch, NoTouch
  <2>2. StepOf(c, Free, att[c], client[c], reply[c])
    BY <1>0, <2>1 DEF StepOf
  <2>3. SessionsOK' /\ PulseOK'
    BY <1>0, <2>1 DEF SessionsOK, PulseOK, mapVars, sessVars, factVars, pulseVars
  <2>4. Queues(c)
    BY <2>1 DEF Queues
  <2>5. /\ ClientOK(client[c], att[c], made') /\ made <= made' /\ exited \subseteq exited'
        /\ ever \subseteq ever' /\ watchers' \subseteq watchers \cup {c}
    BY <1>0, <2>1 DEF ConnOK, mapVars, sessVars
  <2>6. client[c].on \/ Quiet(c, watchers', Free, att[c], queue'[c], reply[c])
    BY <1>0, <2>1, LockFree DEF ConnOK, Quiet
  <2>7. LockOK(Free, made', exited' \cap ever')
    BY LockFree
  <2> QED BY <2>2, <2>3, <2>4, <2>5, <2>6, <2>7, ConnDone
<1>2. CASE Drop(c)
  <2> DEFINE k == [client[c] EXCEPT !.on = FALSE]
             l == [Held("drop", "sweep", 0) EXCEPT !.had = att[c] # {}]
             none == <<>>
  <2>1. /\ lock' = [lock EXCEPT ![c] = l] /\ client' = [client EXCEPT ![c] = k]
        /\ watchers' = watchers \ {c}
        /\ att' = [att EXCEPT ![c] = {}] /\ reply' = [reply EXCEPT ![c] = none]
        /\ queue' = [queue EXCEPT ![c] = none] /\ subs' = Released(subs, c)
        /\ UNCHANGED <<mapVars, exited, hung, ever, factVars, stale, pulseVars>>
    BY <1>2 DEF Drop
  <2>2. StepOf(c, l, {}, k, none)
    BY <2>1 DEF StepOf
  <2>3. SessionsOK' /\ PulseOK'
    <3>1. subs' \in [Ids -> [Conns -> Nat]]
      BY <1>0, <2>1, ReleasedTable DEF SessionsOK
    <3> QED BY <1>0, <2>1, <3>1 DEF SessionsOK, PulseOK, mapVars, factVars, pulseVars
  <2>4. l \in LockState /\ l.op = "drop" /\ l.pc = "sweep" /\ l.dead = {}
    BY DEF Held, LockState
  <2>5. ClientOK(k, {}, made')
    BY <1>0 DEF ConnOK, ClientOK
  <2> HIDE DEF l, k
  <2>6. LockOK(l, made', exited' \cap ever')
    BY <2>4 DEF LockOK
  <2>7. /\ made <= made' /\ exited \subseteq exited'
        /\ ever \subseteq ever' /\ watchers' \subseteq watchers \cup {c}
    BY <1>0, <2>1 DEF mapVars
  <2>8. Queues(c)
    BY <2>1, Zenon DEF Queues
  <2>9. Quiet(c, watchers', l, {}, queue'[c], none)
    BY <1>0, <2>1, <2>4 DEF Quiet, Indexed
  <2> HIDE DEF none
  <2> QED BY <2>2, <2>3, <2>5, <2>6, <2>7, <2>8, <2>9, ConnDone
<1> QED BY <1>1, <1>2

LEMMA RegistryNext == RegistryInv /\ [Next]_vars => RegistryInv'
<1> SUFFICES ASSUME RegistryInv, [Next]_vars PROVE RegistryInv'
  OBVIOUS
<1>1. CASE UNCHANGED vars
  BY <1>1 DEF vars, RegistryInv, SessionsOK, PulseOK, TablesOK, Indexed, ConnOK
<1>2. CASE \/ WindowPasses \/ Disarm \/ Bump
           \/ \E id \in Ids : \/ FactMoves(id) \/ Report(id) \/ DisarmThreadless(id)
                              \/ ReaderTouch(id) \/ ReaderWake(id) \/ ReaderEof(id)
  BY <1>2, ThreadSteps
<1>3. ASSUME NEW c \in Conns,
             \/ Connect(c) \/ Watch(c) \/ List(c) \/ Create(c)
             \/ AttachMarks(c) \/ AttachSubscribes(c) \/ CloseHangsUp(c) \/ Send(c)
             \/ PollBegins(c) \/ PollLists(c) \/ PollTells(c) \/ PollEnds(c)
             \/ SweepLooks(c) \/ SweepReaps(c) \/ Drop(c) \/ DropEnds(c)
      PROVE  RegistryInv'
  BY <1>3, ServeSteps, AnswerSteps, CreateSteps, AttachSteps, PollSteps, SweepSteps, EndSteps
<1>4. ASSUME NEW c \in Conns, NEW id \in Ids,
             AttachFinds(c, id) \/ Detach(c, id) \/ Close(c, id) \/ SweepRemoves(c, id)
      PROVE  RegistryInv'
  BY <1>4, LookingSteps, SweepSteps
<1> QED BY <1>1, <1>2, <1>3, <1>4 DEF Next

LEMMA RegistryInvariant == Spec => []RegistryInv
BY RegistryInit, RegistryNext, PTL DEF Spec

(* Every variable keeps its type, and what is kept, over, met or asked for is a
   session that was made; a connection that is down holds nothing.  server.rs
   Registry, Pulse and Connection. *)
THEOREM RegistryTypeCorrect == Spec => []TypeOK
BY RegistryInvariant, InvTypes, PTL
-----------------------------------------------------------------------------
(* The registry implements SessionLife.  Its steps that show there: *)
LEMMA LifeBegins ==
  ASSUME RegistryInv, NEW c \in Conns, Create(c) PROVE Life!Begin(made + 1) /\ made + 1 \in Ids
<1>1. made \in Nat /\ kept \subseteq 1..made /\ made < MaxSessions /\ MaxSessions \in Nat
  BY LimitsAssumption DEF RegistryInv, SessionsOK, Create
<1>2. /\ made' = made + 1 /\ kept' = kept \cup {made + 1}
      /\ exited' = exited /\ ever' = ever /\ asked' = asked
  BY DEF Create, NextId, sessVars
<1>3. made + 1 \notin kept \cup ((1..made) \ kept) /\ made + 1 \in Ids
  BY <1>1 DEF Ids
<1>4. (1..made') \ kept' = (1..made) \ kept
  BY <1>1, <1>2
<1> QED BY <1>2, <1>3, <1>4 DEF Life!Begin

LEMMA LifeFinishes ==
  ASSUME RegistryInv, NEW id \in Ids, ReaderEof(id) PROVE Life!Finish(id)
<1>1. id \in 1..made
  BY DEF RegistryInv, SessionsOK, ReaderEof, Reader
<1>2. UNCHANGED <<kept, made, ever, asked>> /\ exited' = exited \cup {id}
  BY DEF ReaderEof, mapVars
<1> QED BY <1>1, <1>2 DEF Life!Finish

LEMMA LifeMeets ==
  ASSUME RegistryInv, NEW c \in Conns, AttachMarks(c)
  PROVE  Life!Meet(lock[c].id) /\ lock[c].id \in Ids
<1>1. lock[c].id \in 1..made /\ 1..made \subseteq Ids
  BY LimitsAssumption DEF RegistryInv, SessionsOK, ConnOK, LockOK, AttachMarks, At, Ids
<1>2. UNCHANGED <<kept, made, exited, asked>> /\ ever' = ever \cup {lock[c].id}
  BY DEF AttachMarks, mapVars
<1> QED BY <1>1, <1>2 DEF Life!Meet

LEMMA LifeDooms ==
  ASSUME RegistryInv, NEW c \in Conns, NEW id \in Ids, Close(c, id) PROVE Life!Doom(id)
<1>1. id \in 1..made
  BY DEF Close
<1>2. /\ UNCHANGED <<made, exited, ever>> /\ asked' = asked \cup {id} /\ kept' = kept \ {id}
  BY DEF Close, sessVars
<1> QED BY <1>1, <1>2 DEF Life!Doom

LEMMA LifeCollects ==
  ASSUME RegistryInv, NEW c \in Conns, NEW id \in Ids, SweepRemoves(c, id)
  PROVE  Life!Collect(id) \/ UNCHANGED Life!vars
<1>1. id \in exited \cap ever /\ kept \subseteq 1..made
  BY DEF RegistryInv, SessionsOK, ConnOK, LockOK, SweepRemoves
<1>2. UNCHANGED <<made, asked, exited, ever>> /\ kept' = kept \ {id}
  BY DEF SweepRemoves, sessVars
<1>3. CASE id \in kept
  BY <1>1, <1>2, <1>3 DEF Life!Collect
<1>4. CASE id \notin kept
  <2>1. kept' = kept
    BY <1>2, <1>4
  <2> QED BY <1>2, <2>1 DEF Life!vars
<1> QED BY <1>3, <1>4

(* The sessions' lives, and the steps that leave them alone. *)
Lives == <<made, kept, asked, exited, ever>>

LEMMA LifeStutters ==
  ASSUME \/ WindowPasses \/ Disarm \/ Bump
         \/ \E id \in Ids : \/ FactMoves(id) \/ Report(id) \/ DisarmThreadless(id)
                            \/ ReaderTouch(id) \/ ReaderWake(id)
         \/ \E c \in Conns :
              \/ Connect(c) \/ Watch(c) \/ List(c)
              \/ AttachSubscribes(c) \/ CloseHangsUp(c) \/ Send(c)
              \/ PollBegins(c) \/ PollLists(c) \/ PollTells(c) \/ PollEnds(c)
              \/ SweepLooks(c) \/ SweepReaps(c) \/ Drop(c) \/ DropEnds(c)
              \/ \E id \in Ids : AttachFinds(c, id) \/ Detach(c, id)
         \/ UNCHANGED vars
  PROVE  UNCHANGED Life!vars
<1>1. UNCHANGED Lives
  <2>1. CASE \/ WindowPasses \/ Disarm \/ Bump \/ UNCHANGED vars
             \/ \E id \in Ids : \/ FactMoves(id) \/ Report(id) \/ DisarmThreadless(id)
                                \/ ReaderTouch(id) \/ ReaderWake(id)
    BY <2>1 DEF WindowPasses, Disarm, Bump, FactMoves, Report, DisarmThreadless, ReaderTouch,
       ReaderWake, Lives, vars, mapVars, sessVars
  <2>2. ASSUME NEW c \in Conns,
               \/ Connect(c) \/ Watch(c) \/ List(c)
               \/ AttachSubscribes(c) \/ CloseHangsUp(c) \/ Send(c)
        PROVE  UNCHANGED Lives
    BY <2>2 DEF Connect, Watch, List, AttachSubscribes, CloseHangsUp, Send, Lives, mapVars, sessVars
  <2>3. ASSUME NEW c \in Conns,
               \/ PollBegins(c) \/ PollLists(c) \/ PollTells(c) \/ PollEnds(c)
               \/ SweepLooks(c) \/ SweepReaps(c) \/ Drop(c) \/ DropEnds(c)
               \/ \E id \in Ids : AttachFinds(c, id) \/ Detach(c, id)
        PROVE  UNCHANGED Lives
    BY <2>3 DEF PollBegins, PollLists, PollTells, PollEnds, SweepLooks, SweepReaps, Drop, DropEnds,
       AttachFinds, Detach, Lives, mapVars, sessVars
  <2> QED BY <2>1, <2>2, <2>3
<1> QED BY <1>1 DEF Lives, Life!vars

LEMMA LifeStep == RegistryInv /\ [Next]_vars => [Life!Next]_(Life!vars)
<1> SUFFICES ASSUME RegistryInv, [Next]_vars PROVE Life!Next \/ UNCHANGED Life!vars
  OBVIOUS
<1>1. ASSUME NEW c \in Conns, Create(c) PROVE Life!Next
  BY <1>1, LifeBegins DEF Life!Next
<1>2. ASSUME NEW id \in Ids, ReaderEof(id) PROVE Life!Next
  BY <1>2, LifeFinishes DEF Life!Next
<1>3. ASSUME NEW c \in Conns, AttachMarks(c) PROVE Life!Next
  BY <1>3, LifeMeets DEF Life!Next
<1>4. ASSUME NEW c \in Conns, NEW id \in Ids, Close(c, id) PROVE Life!Next
  BY <1>4, LifeDooms DEF Life!Next
<1>5. ASSUME NEW c \in Conns, NEW id \in Ids, SweepRemoves(c, id)
      PROVE  Life!Next \/ UNCHANGED Life!vars
  BY <1>5, LifeCollects DEF Life!Next
<1> QED BY <1>1, <1>2, <1>3, <1>4, <1>5, LifeStutters DEF Next

(* No session goes that nobody asked to close unless its shell has ended and
   somebody had attached to it, however sweeps, closes and attaches interleave:
   the registry implements SessionLife.  server.rs create, close and sweep. *)
THEOREM RegistryLivesItsLife == Spec => LivesItsLife
<1>1. Init => Life!Init
  BY DEF Init, Life!Init
<1> QED BY <1>1, RegistryInvariant, LifeStep, PTL DEF Spec, LivesItsLife, Life!Spec
=============================================================================
