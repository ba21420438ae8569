-------------------------- MODULE SessionRegistry --------------------------
(***************************************************************************)
(* The registry of a daemon's sessions (zest-daemon/server.rs): creating,   *)
(* attaching to, closing and collecting them, and the pulse that tells      *)
(* watching connections when a listing would read differently.             *)
(*                                                                         *)
(* Every step is one critical section: of the registry's session map, of a *)
(* session's subscriber map, of the pulse's coalescing window, or none for *)
(* an atomic flag.  A connection's lock is held over several of them, by   *)
(* its reader handling one message or by its writer polling; `lock[c]` says *)
(* who and how far.  Touch, a bump and then the wakes, is one step: whoever *)
(* comes between reads the new generation.  So is what changes a session    *)
(* and the touch that announces it, and a poll's look at its attachments.   *)
(* Screens, sizes and the coalescing floor of updates are SessionSync's; a  *)
(* shell that cannot be started, host offers, pairings and the context      *)
(* engine's touches are left out.                                           *)
(*                                                                         *)
(* An operator named Mutant... is a bug the properties have to catch; no   *)
(* other definition uses it.                                               *)
(***************************************************************************)
EXTENDS Integers, Sequences, FiniteSets

CONSTANTS
  Conns,       \* the clients, each with at most one connection at a time
  MaxSessions, \* bound: sessions created
  Scenes       \* bound: who may do what, one scene per behaviour

AllRequests == {"list", "create", "attach", "detach", "close", "leave"}

ASSUME LimitsAssumption ==
  /\ MaxSessions \in Nat
  /\ \A s \in Scenes :
       /\ s.watching \subseteq Conns                  \* whose Hello sets watch_sessions
       /\ s.asks \in [Conns -> SUBSET AllRequests]    \* what each may ask or do
       /\ s.ops \in [Conns -> Nat]                    \* connections and requests of each
       /\ s.facts \in Nat                             \* how often a session's facts move

VARIABLES
  scene,     \* the scene of this behaviour; it never changes
  made,      \* next_id: sessions are 1..made
  kept,      \* the ids in the registry's map
  asked,     \* history: sessions a client asked to close
  exited,    \* sessions whose `exited` flag is set
  hung,      \* sessions whose child has been hung up
  ever,      \* sessions whose `ever_attached` flag is set
  subs,      \* [Ids -> [Conns -> how many subscribers of the session are c's]]
  facts,     \* [Ids -> Nat]: what a listing says of it (title, cwd, busy)
  reader,    \* [Ids -> the session's reader thread]
  stale,     \* the connections whose seen_generation is not Pulse.generation
  watchers,  \* Pulse.watchers
  recent,    \* less than COALESCE_WINDOW has passed since Coalesce.last
  armed,     \* Coalesce.armed
  timer,     \* the trailing thread sleeps
  firing,    \* trailing threads that have disarmed and not yet bumped
  lock,      \* [Conns -> who holds the connection lock, and how far it is]
  att,       \* [Conns -> Connection.attached]
  reply,     \* [Conns -> what on_bytes returned, not yet sent to the writer]
  queue,     \* [Conns -> the writer's channel; <<>> is a Wake::Poll]
  client     \* [Conns -> [on, listing, told, overtaken, ops]]

vars == <<scene, made, kept, asked, exited, hung, ever, subs, facts, reader, stale, watchers,
          recent, armed, timer, firing, lock, att, reply, queue, client>>

mapVars   == <<scene, made, kept, asked>>
sessVars  == <<exited, hung, ever, subs>>
factVars  == <<facts, reader>>
pulseVars == <<recent, armed, timer, firing>>

Ids == 1..MaxSessions
-----------------------------------------------------------------------------
Free == [op |-> "free", pc |-> "-", id |-> 0, dead |-> {}, had |-> FALSE]
Held(op, pc, id) == [op |-> op, pc |-> pc, id |-> id, dead |-> {}, had |-> FALSE]

(* A listing: the registered sessions, each with its facts and whether anyone
   is attached to it.  Unlisted is a client that holds no listing yet. *)
Unlisted == [ids |-> {0}, facts |-> <<>>, attached |-> {}]
Watched(id) == \E c \in Conns : subs[id][c] > 0
Listing == [ids |-> kept, facts |-> [id \in kept |-> facts[id]],
            attached |-> {id \in kept : Watched(id)}]

NewClient == [on |-> FALSE, listing |-> Unlisted, told |-> {},
              overtaken |-> FALSE, ops |-> 0]

Init ==
  /\ scene \in Scenes
  /\ made = 0 /\ kept = {} /\ asked = {}
  /\ exited = {} /\ hung = {} /\ ever = {}
  /\ subs = [id \in Ids |-> [c \in Conns |-> 0]]
  /\ facts = [id \in Ids |-> 0]
  /\ reader = [id \in Ids |-> "unborn"]
  /\ stale = {} /\ watchers = {}
  /\ recent = FALSE /\ armed = FALSE /\ timer = FALSE /\ firing = 0
  /\ lock = [c \in Conns |-> Free]
  /\ att = [c \in Conns |-> {}]
  /\ reply = [c \in Conns |-> <<>>]
  /\ queue = [c \in Conns |-> <<>>]
  /\ client = [c \in Conns |-> NewClient]
-----------------------------------------------------------------------------
(* The pulse. *)

(* A waker whose connection has gone sends into a channel nobody reads. *)
Enqueued(q, r) == IF r = <<>> /\ q # <<>> /\ q[Len(q)] = <<>> THEN q ELSE Append(q, r)
Woken(who) == [c \in Conns |-> IF c \in who /\ client[c].on THEN Enqueued(queue[c], <<>>) ELSE queue[c]]

Touch == stale' = Conns /\ queue' = Woken(watchers)
NoTouch == UNCHANGED <<stale, queue>>

WindowPasses ==
  /\ recent /\ recent' = FALSE
  /\ UNCHANGED <<mapVars, sessVars, factVars, stale, watchers, armed, timer, firing,
                 lock, att, reply, queue, client>>

(* The trailing thread wakes, disarms, and only then bumps. *)
Disarm ==
  /\ timer /\ ~recent
  /\ timer' = FALSE /\ armed' = FALSE /\ recent' = TRUE /\ firing' = firing + 1
  /\ UNCHANGED <<mapVars, sessVars, factVars, stale, watchers, lock, att, reply, queue, client>>

Bump ==
  /\ firing > 0 /\ firing' = firing - 1
  /\ Touch
  /\ UNCHANGED <<mapVars, sessVars, factVars, watchers, recent, armed, timer,
                 lock, att, reply, client>>
-----------------------------------------------------------------------------
(* A session's reader thread. *)

Reader(id, from, to) == reader[id] = from /\ reader' = [reader EXCEPT ![id] = to]

FactMoves(id) ==
  /\ facts[id] < scene.facts
  /\ Reader(id, "reading", "report")
  /\ facts' = [facts EXCEPT ![id] = @ + 1]
  /\ UNCHANGED <<mapVars, sessVars, stale, watchers, pulseVars, lock, att, reply, queue, client>>

(* touch_coalesced under the coalescing lock: covered by a bump already armed,
   or the window is open and this one bumps at once, or it arms a trailing one -
   for which a thread may not be had. *)
MutantLeadingOnly(id) ==
  /\ \/ (armed \/ recent) /\ Reader(id, "report", "wake") /\ UNCHANGED pulseVars
     \/ /\ ~armed /\ ~recent /\ Reader(id, "report", "touch")
        /\ recent' = TRUE /\ UNCHANGED <<armed, timer, firing>>
  /\ UNCHANGED <<mapVars, sessVars, facts, stale, watchers, lock, att, reply, queue, client>>

Report(id) ==
  /\ \/ armed /\ Reader(id, "report", "wake") /\ UNCHANGED pulseVars
     \/ /\ ~armed /\ ~recent /\ Reader(id, "report", "touch")
        /\ recent' = TRUE /\ UNCHANGED <<armed, timer, firing>>
     \/ /\ ~armed /\ recent /\ Reader(id, "report", "wake")
        /\ armed' = TRUE /\ timer' = TRUE /\ UNCHANGED <<recent, firing>>
     \/ /\ ~armed /\ recent /\ Reader(id, "report", "threadless")
        /\ armed' = TRUE /\ UNCHANGED <<recent, timer, firing>>
  /\ UNCHANGED <<mapVars, sessVars, facts, stale, watchers, lock, att, reply, queue, client>>

DisarmThreadless(id) ==
  /\ Reader(id, "threadless", "touch")
  /\ armed' = FALSE /\ recent' = TRUE
  /\ UNCHANGED <<mapVars, sessVars, facts, stale, watchers, timer, firing,
                 lock, att, reply, queue, client>>

ReaderTouch(id) ==
  /\ Reader(id, "touch", "wake")
  /\ Touch
  /\ UNCHANGED <<mapVars, sessVars, facts, watchers, pulseVars, lock, att, reply, client>>

MutantEofWakesNobody(id) ==
  /\ \/ Reader(id, "wake", "reading") /\ queue' = Woken({c \in Conns : subs[id][c] > 0})
     \/ Reader(id, "eof", "done") /\ UNCHANGED queue
  /\ UNCHANGED <<mapVars, sessVars, facts, stale, watchers, pulseVars, lock, att, reply, client>>

ReaderWake(id) ==
  /\ Reader(id, "wake", "reading") \/ Reader(id, "eof", "done")
  /\ queue' = Woken({c \in Conns : subs[id][c] > 0})
  /\ UNCHANGED <<mapVars, sessVars, facts, stale, watchers, pulseVars, lock, att, reply, client>>

(* The shell ends by itself or because it was hung up. *)
ReaderEof(id) ==
  /\ Reader(id, "reading", "eof")
  /\ exited' = exited \cup {id}
  /\ UNCHANGED <<mapVars, hung, ever, subs, facts, stale, watchers, pulseVars,
                 lock, att, reply, queue, client>>
-----------------------------------------------------------------------------
(* A connection's reader thread: one message, under the connection lock, its
   answer held back until the lock is free. *)

Asking(c, what) == client[c].on /\ client[c].ops < scene.ops[c] /\ what \in scene.asks[c]
Idle(c) == lock[c].op = "free" /\ reply[c] = <<>>
Counted(c) == client' = [client EXCEPT ![c].ops = @ + 1]
Takes(c, op, pc, id) == lock' = [lock EXCEPT ![c] = Held(op, pc, id)]
Goes(c, pc) == lock' = [lock EXCEPT ![c].pc = pc]
Answers(c, r) ==
  /\ lock' = [lock EXCEPT ![c] = Free]
  /\ reply' = [reply EXCEPT ![c] = <<r>>]
At(c, op, pc) == lock[c].op = op /\ lock[c].pc = pc

(* The gate opens: the generation is read before the watcher is registered. *)
Connect(c) ==
  /\ ~client[c].on /\ client[c].ops < scene.ops[c] /\ Idle(c)
  /\ client' = [client EXCEPT ![c] = [NewClient EXCEPT !.on = TRUE, !.ops = client[c].ops + 1]]
  /\ stale' = stale \ {c}
  /\ Takes(c, "serve", "watch", 0)
  /\ UNCHANGED <<mapVars, sessVars, factVars, watchers, pulseVars, att, reply, queue>>

Watch(c) ==
  /\ At(c, "serve", "watch")
  /\ watchers' = IF c \in scene.watching THEN watchers \cup {c} ELSE watchers
  /\ Answers(c, <<>>)
  /\ UNCHANGED <<mapVars, sessVars, factVars, stale, pulseVars, att, queue, client>>

(* ListSessions, and the end of CreateSession. *)
List(c) ==
  /\ \/ Idle(c) /\ Asking(c, "list") /\ Counted(c)
     \/ At(c, "create", "list") /\ UNCHANGED client
  /\ Answers(c, <<Listing>>)
  /\ UNCHANGED <<mapVars, sessVars, factVars, stale, watchers, pulseVars, att, queue>>

MutantFromZero == made

NextId == made + 1

Create(c) ==
  /\ Idle(c) /\ Asking(c, "create") /\ made < MaxSessions
  /\ made' = made + 1 /\ kept' = kept \cup {NextId}
  /\ reader' = [reader EXCEPT ![NextId] = "reading"]
  /\ Touch /\ Counted(c)
  /\ Takes(c, "create", "list", NextId)
  /\ UNCHANGED <<scene, asked, sessVars, facts, watchers, pulseVars, att, reply>>

(* Attach: the session is looked up, told it has been attached to, and only
   then given the subscriber that shows it. *)
Parted(s, id, c) == [s EXCEPT ![id][c] = IF @ > 0 THEN @ - 1 ELSE 0]

AttachFinds(c, id) ==
  /\ Idle(c) /\ Asking(c, "attach") /\ id \in 1..made
  /\ IF id \in kept
     THEN /\ subs' = IF id \in att[c] THEN Parted(subs, id, c) ELSE subs
          /\ att' = [att EXCEPT ![c] = @ \ {id}]
          /\ Takes(c, "attach", "mark", id) /\ UNCHANGED reply
     ELSE reply' = [reply EXCEPT ![c] = <<<<>>>>] /\ UNCHANGED <<subs, att, lock>>
  /\ Counted(c)
  /\ UNCHANGED <<mapVars, exited, hung, ever, factVars, stale, watchers, pulseVars, queue>>

AttachMarks(c) ==
  /\ At(c, "attach", "mark")
  /\ ever' = ever \cup {lock[c].id}
  /\ Goes(c, "subscribe")
  /\ UNCHANGED <<mapVars, exited, hung, subs, factVars, stale, watchers, pulseVars,
                 att, reply, queue, client>>

AttachSubscribes(c) ==
  LET id == lock[c].id IN
  /\ At(c, "attach", "subscribe")
  /\ subs' = [subs EXCEPT ![id][c] = @ + 1]
  /\ att' = [att EXCEPT ![c] = @ \cup {id}]
  /\ Touch
  /\ Answers(c, <<>>)
  /\ UNCHANGED <<mapVars, exited, hung, ever, factVars, watchers, pulseVars, client>>

Detach(c, id) ==
  /\ Idle(c) /\ Asking(c, "detach") /\ id \in att[c]
  /\ att' = [att EXCEPT ![c] = @ \ {id}]
  /\ IF id \in kept
     THEN subs' = Parted(subs, id, c) /\ Touch
     ELSE UNCHANGED subs /\ NoTouch
  /\ Counted(c)
  /\ reply' = [reply EXCEPT ![c] = <<<<>>>>]
  /\ UNCHANGED <<mapVars, exited, hung, ever, factVars, watchers, pulseVars, lock>>

(* CloseSession: this connection's attachment is forgotten with the session. *)
Close(c, id) ==
  /\ Idle(c) /\ Asking(c, "close") /\ id \in 1..made
  /\ att' = [att EXCEPT ![c] = @ \ {id}]
  /\ kept' = kept \ {id} /\ asked' = asked \cup {id}
  /\ Counted(c)
  /\ IF id \in kept
     THEN Takes(c, "close", "hangup", id) /\ UNCHANGED reply
     ELSE reply' = [reply EXCEPT ![c] = <<<<>>>>] /\ UNCHANGED lock
  /\ UNCHANGED <<scene, made, sessVars, factVars, stale, watchers, pulseVars, queue>>

HangsUp(id) == hung' = hung \cup {id}

CloseHangsUp(c) ==
  /\ At(c, "close", "hangup")
  /\ HangsUp(lock[c].id) /\ Touch
  /\ Answers(c, <<>>)
  /\ UNCHANGED <<mapVars, exited, ever, subs, factVars, watchers, pulseVars, att, client>>

(* tx.send, after the unlock. *)
Send(c) ==
  /\ reply[c] # <<>>
  /\ queue' = [queue EXCEPT ![c] = Enqueued(@, reply[c][1])]
  /\ reply' = [reply EXCEPT ![c] = <<>>]
  /\ UNCHANGED <<mapVars, sessVars, factVars, stale, watchers, pulseVars, lock, att, client>>
-----------------------------------------------------------------------------
(* A connection's writer thread: the replies of the wake, then poll_with. *)

Behind(c) == c \in scene.watching \cap stale

(* The generation is read before the listing it is remembered for. *)
PollBegins(c) ==
  /\ lock[c].op = "free" /\ queue[c] # <<>>
  /\ queue' = [queue EXCEPT ![c] = Tail(@)]
  /\ stale' = IF Behind(c) THEN stale \ {c} ELSE stale
  /\ Takes(c, "poll", IF Behind(c) THEN "list" ELSE "told", 0)
  /\ client' = [client EXCEPT ![c].listing =
       IF Head(queue[c]) = <<>> THEN @ ELSE Head(queue[c])[1]]
  /\ UNCHANGED <<mapVars, sessVars, factVars, watchers, pulseVars, att, reply>>

HoldsListing(rs) == \E i \in 1..Len(rs) : rs[i] # <<>>

PollLists(c) ==
  /\ At(c, "poll", "list")
  /\ client' = [client EXCEPT ![c].listing = Listing,
                  ![c].overtaken = HoldsListing(reply[c] \o queue[c])]
  /\ Goes(c, "told")
  /\ UNCHANGED <<mapVars, sessVars, factVars, stale, watchers, pulseVars, att, reply, queue>>

(* Exited, for every attachment the registry still knows. *)
PollTells(c) ==
  /\ At(c, "poll", "told")
  /\ client' = [client EXCEPT ![c].told = @ \cup (att[c] \cap kept \cap exited)]
  /\ Goes(c, "sweep")
  /\ UNCHANGED <<mapVars, sessVars, factVars, stale, watchers, pulseVars, att, reply, queue>>

(* sweep, at the end of a poll and of a connection. *)
MutantSweepUnseen == {id \in kept : id \in exited /\ ~Watched(id)}

Sweepable == {id \in kept : id \in exited /\ id \in ever /\ ~Watched(id)}

MutantDropSweepsNothing(c) ==
  /\ lock[c].op \in {"poll", "drop"} /\ lock[c].pc = "sweep"
  /\ lock' = [lock EXCEPT ![c].dead = IF lock[c].op = "poll" THEN Sweepable ELSE {},
                ![c].pc = "close"]
  /\ UNCHANGED <<mapVars, sessVars, factVars, stale, watchers, pulseVars,
                 att, reply, queue, client>>

SweepLooks(c) ==
  /\ lock[c].op \in {"poll", "drop"} /\ lock[c].pc = "sweep"
  /\ lock' = [lock EXCEPT ![c].dead = Sweepable, ![c].pc = "close"]
  /\ UNCHANGED <<mapVars, sessVars, factVars, stale, watchers, pulseVars,
                 att, reply, queue, client>>

SweepRemoves(c, id) ==
  /\ lock[c].pc = "close" /\ id \in lock[c].dead
  /\ kept' = kept \ {id}
  /\ lock' = [lock EXCEPT ![c].dead = @ \ {id}, ![c].id = id,
                ![c].pc = IF id \in kept THEN "reap" ELSE "close"]
  /\ UNCHANGED <<scene, made, asked, sessVars, factVars, stale, watchers, pulseVars,
                 att, reply, queue, client>>

SweepReaps(c) ==
  /\ lock[c].pc = "reap"
  /\ HangsUp(lock[c].id) /\ Touch
  /\ Goes(c, "close")
  /\ UNCHANGED <<mapVars, exited, ever, subs, factVars, watchers, pulseVars,
                 att, reply, client>>

PollEnds(c) ==
  /\ At(c, "poll", "close") /\ lock[c].dead = {}
  /\ lock' = [lock EXCEPT ![c] = Free]
  /\ UNCHANGED <<mapVars, sessVars, factVars, stale, watchers, pulseVars,
                 att, reply, queue, client>>
-----------------------------------------------------------------------------
(* The link dies and the connection is dropped. *)
Released(s, c) ==
  [id \in Ids |-> IF id \in att[c] \cap kept THEN Parted(s, id, c)[id] ELSE s[id]]

Drop(c) ==
  /\ client[c].on /\ "leave" \in scene.asks[c] /\ lock[c].op = "free"
  /\ client' = [client EXCEPT ![c].on = FALSE]
  /\ watchers' = watchers \ {c}
  /\ reply' = [reply EXCEPT ![c] = <<>>] /\ queue' = [queue EXCEPT ![c] = <<>>]
  /\ subs' = Released(subs, c)
  /\ att' = [att EXCEPT ![c] = {}]
  /\ lock' = [lock EXCEPT ![c] = [Held("drop", "sweep", 0) EXCEPT !.had = att[c] # {}]]
  /\ UNCHANGED <<mapVars, exited, hung, ever, factVars, stale, pulseVars>>

DropEnds(c) ==
  /\ At(c, "drop", "close") /\ lock[c].dead = {}
  /\ IF lock[c].had THEN Touch ELSE NoTouch
  /\ lock' = [lock EXCEPT ![c] = Free]
  /\ UNCHANGED <<mapVars, sessVars, factVars, watchers, pulseVars, att, reply, client>>
-----------------------------------------------------------------------------
SessionStep(id) ==
  Report(id) \/ DisarmThreadless(id) \/ ReaderTouch(id) \/ ReaderWake(id)
  \/ (id \in hung /\ ReaderEof(id))

Progress(c) ==
  \/ Watch(c) \/ (At(c, "create", "list") /\ List(c))
  \/ AttachMarks(c) \/ AttachSubscribes(c) \/ CloseHangsUp(c)
  \/ PollLists(c) \/ PollTells(c) \/ PollEnds(c)
  \/ SweepLooks(c) \/ (\E id \in Ids : SweepRemoves(c, id)) \/ SweepReaps(c) \/ DropEnds(c)

Next ==
  \/ WindowPasses \/ Disarm \/ Bump
  \/ \E id \in Ids :
       FactMoves(id) \/ Report(id) \/ DisarmThreadless(id) \/ ReaderTouch(id)
       \/ ReaderWake(id) \/ ReaderEof(id)
  \/ \E c \in Conns :
       \/ Connect(c) \/ Watch(c) \/ List(c) \/ Create(c)
       \/ AttachMarks(c) \/ AttachSubscribes(c) \/ CloseHangsUp(c) \/ Send(c)
       \/ PollBegins(c) \/ PollLists(c) \/ PollTells(c) \/ PollEnds(c)
       \/ SweepLooks(c) \/ SweepReaps(c) \/ Drop(c) \/ DropEnds(c)
       \/ \E id \in Ids : AttachFinds(c, id) \/ Detach(c, id) \/ Close(c, id) \/ SweepRemoves(c, id)

Spec == Init /\ [][Next]_vars

(* Threads run, the window passes, a hung-up child ends.  Requests, output,
   lost links and a shell's own end are nobody's promise. *)
Fairness ==
  /\ WF_vars(WindowPasses) /\ WF_vars(Disarm) /\ WF_vars(Bump)
  /\ \A id \in Ids : WF_vars(SessionStep(id))
  /\ \A c \in Conns : WF_vars(Progress(c)) /\ WF_vars(Send(c)) /\ WF_vars(PollBegins(c))

FairSpec == Spec /\ Fairness
-----------------------------------------------------------------------------
(* Every variable keeps its type; only a connection that is up holds
   attachments, watches or has anything to send.  server.rs Registry, Pulse and
   Connection. *)
LockState ==
  [op : {"free", "serve", "create", "attach", "close", "poll", "drop"},
   pc : {"-", "watch", "list", "mark", "subscribe", "hangup", "told", "sweep", "close", "reap"},
   id : Nat, dead : SUBSET Ids, had : BOOLEAN]

TypeOK ==
  /\ scene \in Scenes
  /\ made \in 0..MaxSessions /\ kept \subseteq 1..made /\ asked \subseteq 1..made
  /\ exited \subseteq 1..made /\ hung \subseteq 1..made /\ ever \subseteq 1..made
  /\ subs \in [Ids -> [Conns -> Nat]]
  /\ facts \in [Ids -> Nat]
  /\ reader \in [Ids -> {"unborn", "reading", "report", "threadless", "touch", "wake", "eof", "done"}]
  /\ stale \subseteq Conns /\ watchers \subseteq scene.watching
  /\ recent \in BOOLEAN /\ armed \in BOOLEAN /\ timer \in BOOLEAN /\ firing \in Nat
  /\ lock \in [Conns -> LockState]
  /\ att \in [Conns -> SUBSET (1..made)]
  /\ \A c \in Conns :
       /\ lock[c].op \in {"attach", "close", "create"} => lock[c].id \in 1..made
       /\ ~client[c].on => /\ att[c] = {} /\ c \notin watchers /\ lock[c].op \in {"free", "drop"}
                          /\ queue[c] = <<>> /\ reply[c] = <<>>

(* The registry implements SessionLife: whatever sweeps and closes interleave,
   no session goes that nobody asked to close unless its shell has ended and
   somebody had attached to it.  server.rs create, close and sweep. *)
Life == INSTANCE SessionLife WITH
          Sessions <- Ids, over <- exited, met <- ever, doomed <- asked,
          gone <- (1..made) \ kept

LivesItsLife == Life!Spec
-----------------------------------------------------------------------------
(* A watching client's listing comes to say what a listing would say - unless
   an answer of its own, built earlier, was written behind the push.
   server.rs touch, touch_coalesced and poll_with's listing push. *)
ListingFresh ==
  <>[](\A c \in scene.watching :
         client[c].on /\ client[c].listing # Unlisted /\ ~client[c].overtaken
           => client[c].listing = Listing)

(* A session that has ended, whose last watcher leaves, is collected: no shell
   that is done stays listed because the sweep that could collect it looked too
   early.  server.rs sweep from poll_with and Drop. *)
CollectedWhenLeft ==
  \A id \in Ids :
    [](id \in exited /\ Watched(id) => <>(id \notin kept \/ []Watched(id)))

(* An attached client is told that the shell ended, while the registry keeps
   the session.  server.rs poll_with. *)
ToldWhileKept ==
  \A id \in Ids : \A c \in Conns :
    id \in att[c] \cap exited ~> id \in client[c].told \/ id \notin att[c] \cap kept

(* A shell that ends is settled both ways: its watchers hear of it and the
   registry lets it go.  server.rs poll_with, sweep and Drop. *)
EndsAreSettled == CollectedWhenLeft /\ ToldWhileKept
-----------------------------------------------------------------------------
(* What the repository says of this program and the program does not do. *)

(* sweep: sweeping on exit alone "would drop the session before an attached
   client had been told, and a client that never learns its shell exited waits
   for output that will never come" - so an attached client does learn it. *)
ToldOfTheEnd ==
  \A id \in Ids : \A c \in Conns :
    id \in att[c] \cap exited ~> id \in client[c].told \/ id \notin att[c]
=============================================================================
