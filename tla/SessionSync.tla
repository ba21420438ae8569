---------------------------- MODULE SessionSync ----------------------------
(***************************************************************************)
(* One daemon-owned terminal session and the connections that watch it.    *)
(*                                                                         *)
(* Actors and the locks they take:                                         *)
(*   - the session's reader thread (zest-daemon/session.rs) parses pty     *)
(*     output under the terminal lock, then - after releasing it -         *)
(*     dispatches the events the parse raised, then wakes every subscriber;*)
(*   - per connection, a reader thread (server.rs, serve_with) handles one *)
(*     client message under the connection lock, releases it, and only     *)
(*     then hands the replies to the writer's queue;                       *)
(*   - per connection, a writer thread takes a wake, and under the         *)
(*     connection lock polls the session for what this client lacks;       *)
(*   - the client applies keyframes and deltas to its replica.             *)
(*                                                                         *)
(* What is drawn is abstracted to a "picture": `view` counts observable    *)
(* changes, `rows` is the arbitrated size and `epoch` counts the changes   *)
(* no delta can carry (a rebased viewport, a cleared history).             *)
(*                                                                         *)
(* An operator named Mutant... is a bug the properties have to catch; no   *)
(* other definition uses it.                                               *)
(***************************************************************************)
EXTENDS Integers, Sequences, FiniteSets

CONSTANTS
  Clients,    \* the connections; each carries one client program
  Kind,       \* [Clients -> {"app", "web", "mcp"}]: which client program
  Throttled,  \* the connections whose transport has a nonzero coalescing floor
  Sizes,      \* the sizes a client may ask for
  InitRows,   \* the size the session was created at
  Threshold,  \* KEYFRAME_THRESHOLD of zest-core/subscribe.rs
  Happenings, \* which events a parsed chunk may raise, of AllHappenings
  MaxBurst,   \* bound: how far one chunk moves the sequence
  MaxSeq,     \* bound: output stops moving the sequence past this
  MaxTitle,   \* bound: how often the title changes
  Window,     \* bound: messages on the wire at which the writer's write blocks
  Plans       \* bound: attaches, detaches, resizes and link losses of each client,
              \*   one plan per behaviour

AllHappenings == {"title", "rebase", "bell", "stamp"}

ASSUME KindAssumption == Kind \in [Clients -> {"app", "web", "mcp"}]
ASSUME ThrottledAssumption == Throttled \subseteq Clients
ASSUME SizesAssumption == Sizes \subseteq Nat \ {0} /\ InitRows \in Nat \ {0}
ASSUME HappeningsAssumption == Happenings \subseteq AllHappenings
ASSUME BoundsAssumption ==
  Threshold \in Nat /\ MaxBurst \in Nat /\ MaxSeq \in Nat /\ MaxTitle \in Nat
  /\ Window \in Nat \ {0} /\ Plans \subseteq [Clients -> Nat]

VARIABLES
  term,     \* [seq, pic]: the Terminal behind the session's terminal lock
  log,      \* history: the picture the terminal had at each sequence it showed
  title,    \* the title slot, a mutex of its own; 0 is the empty title
  reader,   \* [pc, ev]: the session's reader thread
  exited,   \* the session's `exited` flag
  attached, \* the clients that have a Subscriber (subs map and Connection.attached)
  subs,     \* [Clients -> Subscriber]; NoSub unless attached
  queue,    \* [Clients -> Seq(replies)]: the writer's mpsc channel; <<>> is Wake::Poll
  held,     \* [Clients -> Seq(replies)]: on_bytes' result, before tx.send (0 or 1 of them)
  pass,     \* [Clients -> writer pass]: what the writer took before it polled
  recent,   \* [Clients -> BOOLEAN]: less than the floor has elapsed since last_update
  owed,     \* [Clients -> BOOLEAN]: owed_at is Some
  up,       \* [Clients -> Seq(client message)]: the wire towards the daemon
  down,     \* [Clients -> Seq(host message)]: the wire towards the client
  client,   \* [Clients -> replica and client state]
  overtaken \* history: the last keyframe reply was overtaken by a poll's output

vars == <<term, log, title, reader, exited, attached, subs, queue, held, pass,
          recent, owed, up, down, client, overtaken>>

sessVars == <<term, log, title, reader, exited>>
connVars == <<queue, held, pass, recent, owed, overtaken>>
-----------------------------------------------------------------------------
Corrupt == -1  \* a view no host ever showed

Blank == [view |-> 0, rows |-> 0, epoch |-> 0]
NoSub == [sent |-> 0, needs |-> FALSE, bell |-> FALSE, vote |-> 0,
          shadow |-> [view |-> 0, title |-> 0]]
Idle  == [on |-> FALSE, out |-> <<>>, updates |-> FALSE, ended |-> FALSE]
NewClient == [mode |-> "off", applied |-> -1, pic |-> Blank, title |-> 0,
              awaiting |-> FALSE, ackDue |-> FALSE, ops |-> 0]

(* HostMessage and ClientMessage, the ones this conversation uses. *)
Keyframe(q, p, t) == [t |-> "Keyframe", seq |-> q, pic |-> p, title |-> t]
Update(b, q, was, now, rows, t) ==
  [t |-> "Update", base |-> b, seq |-> q, was |-> was, now |-> now, rows |-> rows, title |-> t]
Exited    == [t |-> "Exited"]
Attention == [t |-> "Attention"]
Error     == [t |-> "Error"]

Attach(v)       == [t |-> "Attach", vote |-> v]
RequestKeyframe == [t |-> "RequestKeyframe"]
Detach          == [t |-> "Detach"]
Resize(v)       == [t |-> "Resize", vote |-> v]
Ack(q)          == [t |-> "Ack", seq |-> q]

Picture == [view : Nat, rows : Nat, epoch : Nat]
HostMessage ==
  [t : {"Keyframe"}, seq : Nat, pic : Picture, title : Nat]
  \cup [t : {"Update"}, base : Nat, seq : Nat, was : Nat, now : Nat, rows : Nat, title : Nat]
  \cup [t : {"Exited", "Attention", "Error"}]
ClientMessage ==
  [t : {"Attach", "Resize"}, vote : Nat] \cup [t : {"Ack"}, seq : Nat]
  \cup [t : {"RequestKeyframe", "Detach"}]

Subscriber == [sent : Nat, needs : BOOLEAN, bell : BOOLEAN, vote : Nat,
               shadow : [view : Nat, title : Nat]]

Replica == [mode : {"off", "attaching", "live", "done", "gone"},
            applied : Nat \cup {-1}, pic : [view : Int, rows : Nat, epoch : Nat],
            title : Nat, awaiting : BOOLEAN, ackDue : BOOLEAN, ops : Nat]

Has(s, kind) == \E i \in 1..Len(s) : s[i].t = kind
-----------------------------------------------------------------------------
Init ==
  /\ term = [seq |-> 0, pic |-> [view |-> 0, rows |-> InitRows, epoch |-> 0]]
  /\ log = [s \in {0} |-> [view |-> 0, rows |-> InitRows, epoch |-> 0]]
  /\ title = 0
  /\ reader = [pc |-> "reading", ev |-> {}]
  /\ exited = FALSE
  /\ attached = {}
  /\ subs = [c \in Clients |-> NoSub]
  /\ queue = [c \in Clients |-> <<>>]
  /\ held = [c \in Clients |-> <<>>]
  /\ pass = [c \in Clients |-> Idle]
  /\ recent = [c \in Clients |-> FALSE]
  /\ owed = [c \in Clients |-> FALSE]
  /\ up = [c \in Clients |-> <<>>]
  /\ down = [c \in Clients |-> <<>>]
  /\ client = [c \in Clients |-> NewClient]
  /\ overtaken = [c \in Clients |-> FALSE]
-----------------------------------------------------------------------------
(* The writer's channel.  A Wake::Poll behind a Wake::Poll adds nothing: the
   pass that takes the first sees whatever the second was sent for. *)
Enqueued(q, replies) ==
  IF replies = <<>> /\ q # <<>> /\ q[Len(q)] = <<>> THEN q ELSE Append(q, replies)

WakeAll(q, who) == [c \in Clients |-> IF c \in who THEN Enqueued(q[c], <<>>) ELSE q[c]]

Owing(sub, who) == [c \in Clients |-> IF c \in who THEN [sub[c] EXCEPT !.needs = TRUE] ELSE sub[c]]

Recorded(l, q, p) == [s \in DOMAIN l \cup {q} |-> IF s = q THEN p ELSE l[s]]
-----------------------------------------------------------------------------
(* The session's reader thread. *)

(* One chunk of pty output, parsed under the terminal lock.  It moves the
   sequence by n, not always visibly: re-asserting a mode touches the sequence
   and changes nothing, and a title alone does not touch it. *)
ReaderParse(n, visible, ev) ==
  /\ reader.pc = "reading"
  /\ term.seq + n <= MaxSeq
  /\ n > 0 \/ (~visible /\ ev # {} /\ ev \subseteq {"title", "bell"})
  /\ ev \cap {"rebase", "stamp"} # {} => visible
  /\ "title" \in ev => title < MaxTitle
  /\ LET p == [view  |-> term.pic.view + (IF visible THEN 1 ELSE 0),
               rows  |-> term.pic.rows,
               epoch |-> term.pic.epoch + (IF "rebase" \in ev THEN 1 ELSE 0)]
     IN /\ term' = [seq |-> term.seq + n, pic |-> p]
        /\ log' = Recorded(log, term.seq + n, p)
  /\ reader' = [pc |-> "parsed", ev |-> ev]
  /\ UNCHANGED <<title, exited, attached, subs, connVars, up, down, client>>

(* The context engine's answer for a block that just began running, written
   back under a terminal lock taken again. *)
ReaderStamp ==
  /\ reader.pc = "parsed" /\ "stamp" \in reader.ev
  /\ LET p == [term.pic EXCEPT !.view = @ + 1]
     IN /\ term' = [seq |-> term.seq + 1, pic |-> p]
        /\ log' = Recorded(log, term.seq + 1, p)
  /\ reader' = [reader EXCEPT !.ev = @ \ {"stamp"}]
  /\ UNCHANGED <<title, exited, attached, subs, connVars, up, down, client>>

(* One event of the batch, each under the lock its own handler takes. *)
DispatchTitle ==
  /\ reader.pc = "parsed" /\ "title" \in reader.ev /\ "stamp" \notin reader.ev
  /\ title' = title + 1
  /\ reader' = [reader EXCEPT !.ev = @ \ {"title"}]
  /\ UNCHANGED <<term, log, exited, attached, subs, connVars, up, down, client>>

MutantRebaseForgotten ==
  /\ reader.pc = "parsed" /\ "rebase" \in reader.ev /\ "stamp" \notin reader.ev
  /\ reader' = [reader EXCEPT !.ev = @ \ {"rebase"}]
  /\ UNCHANGED <<term, log, title, exited, attached, subs, connVars, up, down, client>>

KeyframeEveryone ==
  /\ reader.pc = "parsed" /\ "rebase" \in reader.ev /\ "stamp" \notin reader.ev
  /\ subs' = Owing(subs, attached)
  /\ reader' = [reader EXCEPT !.ev = @ \ {"rebase"}]
  /\ UNCHANGED <<term, log, title, exited, attached, connVars, up, down, client>>

TellEveryone ==
  /\ reader.pc = "parsed" /\ "bell" \in reader.ev /\ "stamp" \notin reader.ev
  /\ subs' = [c \in Clients |-> IF c \in attached THEN [subs[c] EXCEPT !.bell = TRUE] ELSE subs[c]]
  /\ reader' = [reader EXCEPT !.ev = @ \ {"bell"}]
  /\ UNCHANGED <<term, log, title, exited, attached, connVars, up, down, client>>

MutantExitUnannounced ==
  /\ reader.pc = "parsed" /\ reader.ev = {}
  /\ queue' = WakeAll(queue, attached)
  /\ reader' = [reader EXCEPT !.pc = "reading"]
  /\ UNCHANGED <<term, log, title, exited, attached, subs, held, pass, recent, owed, overtaken,
                 up, down, client>>

(* wake_subscribers, at the end of a chunk and after the end of the output. *)
ReaderWake ==
  /\ \/ reader.pc = "parsed" /\ reader.ev = {}
     \/ reader.pc = "eof"
  /\ queue' = WakeAll(queue, attached)
  /\ reader' = [reader EXCEPT !.pc = IF @ = "eof" THEN "done" ELSE "reading"]
  /\ UNCHANGED <<term, log, title, exited, attached, subs, held, pass, recent, owed, overtaken,
                 up, down, client>>

ReaderEof ==
  /\ reader.pc = "reading"
  /\ exited' = TRUE
  /\ reader' = [reader EXCEPT !.pc = "eof"]
  /\ UNCHANGED <<term, log, title, attached, subs, connVars, up, down, client>>
-----------------------------------------------------------------------------
(* The subscriber map's operations, as functions of the state the subscriber
   lock protects. *)
Shared(t, l, a, sub, q) == [term |-> t, log |-> l, attached |-> a, subs |-> sub, queue |-> q]
Locked == Shared(term, log, attached, subs, queue)

Votes(s) == {s.subs[c].vote : c \in {d \in s.attached : s.subs[d].vote # 0}}
Smallest(S) == CHOOSE v \in S : \A w \in S : v <= w

(* reconcile_size: the smallest declared size wins; on a change everyone but
   the subscriber being attached owes a keyframe and is woken. *)
Resized(s, rows) ==
  [seq |-> s.term.seq + 1,
   pic |-> [view |-> s.term.pic.view + 1, rows |-> rows, epoch |-> s.term.pic.epoch]]

MutantResizeUnwoken(s, exempt) ==
  IF Votes(s) = {} \/ Smallest(Votes(s)) = s.term.pic.rows THEN s
  ELSE LET t == Resized(s, Smallest(Votes(s)))
       IN Shared(t, Recorded(s.log, t.seq, t.pic), s.attached,
                 Owing(s.subs, s.attached \ exempt), s.queue)

MutantResizeByDelta(s, exempt) ==
  IF Votes(s) = {} \/ Smallest(Votes(s)) = s.term.pic.rows THEN s
  ELSE LET t == Resized(s, Smallest(Votes(s)))
       IN Shared(t, Recorded(s.log, t.seq, t.pic), s.attached,
                 s.subs, WakeAll(s.queue, s.attached \ exempt))

Reconcile(s, exempt) ==
  IF Votes(s) = {} \/ Smallest(Votes(s)) = s.term.pic.rows THEN s
  ELSE LET t == Resized(s, Smallest(Votes(s)))
           others == s.attached \ exempt
       IN Shared(t, Recorded(s.log, t.seq, t.pic), s.attached,
                 Owing(s.subs, others), WakeAll(s.queue, others))

(* Rebase subscriber c on the terminal as it stands: what every keyframe does. *)
Rebased(s, c) ==
  Shared(s.term, s.log, s.attached,
         [s.subs EXCEPT ![c] = [@ EXCEPT !.sent = s.term.seq, !.needs = FALSE,
            !.shadow = [view |-> s.term.pic.view, title |-> title]]],
         s.queue)

Without(s, c) ==
  Shared(s.term, s.log, s.attached \ {c}, [s.subs EXCEPT ![c] = NoSub], s.queue)

MutantNoParting(s, c) == Without(s, c)

DoDetach(s, c) == Reconcile(Without(s, c), {})

With(s, c, vote) ==
  Shared(s.term, s.log, s.attached \cup {c},
         [s.subs EXCEPT ![c] = [NoSub EXCEPT !.vote = vote]], s.queue)

(* A second Attach on a connection releases the first one's subscriber. *)
DoAttach(s, c, vote) ==
  LET freed == IF c \in s.attached THEN DoDetach(s, c) ELSE s
  IN Rebased(Reconcile(With(freed, c, vote), {c}), c)

Voted(s, c, vote) ==
  Shared(s.term, s.log, s.attached, [s.subs EXCEPT ![c] = [@ EXCEPT !.vote = vote]], s.queue)

DoResize(s, c, vote) == Reconcile(Voted(s, c, vote), {})

(* An acknowledgement of what was never sent owes a full state. *)
DoAck(s, c, q) ==
  IF q > s.subs[c].sent
  THEN Shared(s.term, s.log, s.attached, Owing(s.subs, {c}), s.queue)
  ELSE s

Install(s) ==
  /\ term' = s.term /\ log' = s.log /\ attached' = s.attached
  /\ subs' = s.subs /\ queue' = s.queue

StateOf(s) == Keyframe(s.term.seq, s.term.pic, title)
-----------------------------------------------------------------------------
(* A connection's reader thread: one message, under the connection lock. *)

Receive(c, kind) ==
  /\ held[c] = <<>> /\ ~pass[c].on
  /\ up[c] # <<>> /\ Head(up[c]).t = kind
  /\ up' = [up EXCEPT ![c] = Tail(@)]
  /\ UNCHANGED <<title, reader, exited, pass, recent, owed, down, client>>

Reply(c, replies) == held' = [held EXCEPT ![c] = <<replies>>]

HandleAttach(c) ==
  LET s == DoAttach(Locked, c, Head(up[c]).vote) IN
  /\ Receive(c, "Attach")
  /\ Install(s)
  /\ Reply(c, <<StateOf(s)>>)
  /\ overtaken' = [overtaken EXCEPT ![c] = FALSE]

HandleRequestKeyframe(c) ==
  /\ Receive(c, "RequestKeyframe")
  /\ IF c \in attached
     THEN /\ Install(Rebased(Locked, c))
          /\ Reply(c, <<StateOf(Locked)>>)
          /\ overtaken' = [overtaken EXCEPT ![c] = FALSE]
     ELSE /\ Install(Locked)
          /\ Reply(c, <<Error>>)
          /\ UNCHANGED overtaken

HandleDetach(c) ==
  /\ Receive(c, "Detach")
  /\ Install(IF c \in attached THEN DoDetach(Locked, c) ELSE Locked)
  /\ Reply(c, <<>>)
  /\ UNCHANGED overtaken

HandleResize(c) ==
  /\ Receive(c, "Resize")
  /\ Install(IF c \in attached THEN DoResize(Locked, c, Head(up[c]).vote) ELSE Locked)
  /\ Reply(c, <<>>)
  /\ UNCHANGED overtaken

HandleAck(c) ==
  /\ Receive(c, "Ack")
  /\ Install(IF c \in attached THEN DoAck(Locked, c, Head(up[c]).seq) ELSE Locked)
  /\ Reply(c, <<>>)
  /\ UNCHANGED overtaken

(* tx.send(Wake::Send(..)), after the connection lock has been released. *)
Enqueue(c) ==
  /\ held[c] # <<>>
  /\ queue' = [queue EXCEPT ![c] = Enqueued(@, held[c][1])]
  /\ held' = [held EXCEPT ![c] = <<>>]
  /\ UNCHANGED <<sessVars, attached, subs, pass, recent, owed, overtaken, up, down, client>>
-----------------------------------------------------------------------------
(* A connection's writer thread. *)

(* A writer whose last write has not drained takes no further wake. *)
Begin(c, out) ==
  /\ ~pass[c].on /\ Len(down[c]) < Window
  /\ pass' = [pass EXCEPT ![c] = [on |-> TRUE, out |-> out, updates |-> ~recent[c], ended |-> exited]]

TakeWake(c) ==
  /\ queue[c] # <<>>
  /\ Begin(c, Head(queue[c]))
  /\ queue' = [queue EXCEPT ![c] = Tail(@)]
  /\ UNCHANGED <<sessVars, attached, subs, held, recent, owed, overtaken, up, down, client>>

MutantNoTimer(c) == TakeWake(c)

(* recv_timeout ran out on a poll the floor skipped. *)
TakeOwed(c) ==
  /\ owed[c] /\ ~recent[c] /\ queue[c] = <<>>
  /\ Begin(c, <<>>)
  /\ UNCHANGED <<sessVars, attached, subs, queue, held, recent, owed, overtaken, up, down, client>>

FloorElapses(c) ==
  /\ recent[c]
  /\ recent' = [recent EXCEPT ![c] = FALSE]
  /\ UNCHANGED <<sessVars, attached, subs, queue, held, pass, owed, overtaken, up, down, client>>

(* Session::poll: what subscriber c is sent, if anything.  `lost` is
   blocks_need_keyframe: the shadow holds a block the host has destroyed. *)
Behind(c) == subs[c].sent # term.seq \/ subs[c].needs
Changed(c) == subs[c].shadow # [view |-> term.pic.view, title |-> title]

Polled(c, lost) ==
  LET s == subs[c] IN
  IF ~Behind(c) THEN <<>>
  ELSE IF s.needs \/ lost \/ term.seq - s.sent > Threshold
       THEN <<Keyframe(term.seq, term.pic, title)>>
  ELSE IF Changed(c)
       THEN <<Update(s.sent, term.seq, s.shadow.view, term.pic.view, term.pic.rows,
                     IF s.shadow.title # title THEN title ELSE 0)>>
  ELSE <<>>

(* What poll leaves of the subscriber map: an empty delta advances the baseline
   too, and the signal is drained by every pass. *)
MutantBellFloored(c, polls) ==
  IF polls /\ Behind(c) THEN [Rebased(Locked, c).subs EXCEPT ![c].bell = FALSE]
  ELSE IF polls THEN [subs EXCEPT ![c].bell = FALSE]
  ELSE subs

AfterPoll(c, polls) ==
  IF polls /\ Behind(c) THEN [Rebased(Locked, c).subs EXCEPT ![c].bell = FALSE]
  ELSE [subs EXCEPT ![c].bell = FALSE]

MutantEndedReread(c) == c \in attached /\ exited

(* The snapshot taken when the pass began, not a fresh read. *)
Ending(c) == c \in attached /\ pass[c].ended

(* poll_with for this session, then encode and write: replies first, then the
   update, the signal, and Exited. *)
Poll(c, lost) ==
  LET polls  == c \in attached /\ (pass[c].updates \/ pass[c].ended)
      update == IF polls THEN Polled(c, lost) ELSE <<>>
      bell   == IF c \in attached /\ subs[c].bell THEN <<Attention>> ELSE <<>>
      ended  == IF Ending(c) THEN <<Exited>> ELSE <<>>
  IN
  /\ pass[c].on
  /\ lost => polls /\ Behind(c) /\ subs[c].shadow.view # term.pic.view
  /\ down' = [down EXCEPT ![c] = @ \o pass[c].out \o update \o bell \o ended]
  /\ subs' = AfterPoll(c, polls)
  /\ recent' = [recent EXCEPT ![c] = @ \/ (c \in Throttled /\ pass[c].updates /\ update # <<>>)]
  /\ owed' = [owed EXCEPT ![c] = ~pass[c].updates]
  /\ overtaken' = [overtaken EXCEPT ![c] = @ \/ (update # <<>> /\
         \E i \in 1..Len(held[c] \o queue[c]) : Has((held[c] \o queue[c])[i], "Keyframe"))]
  /\ pass' = [pass EXCEPT ![c] = Idle]
  /\ UNCHANGED <<sessVars, attached, queue, held, up, client>>
-----------------------------------------------------------------------------
(* The clients: zest-app's RemoteSession, the browser's SessionClient and
   zest-mcp's Conn.  Rust clients discard everything until the keyframe that
   answers their attach; the browser does not, and relies on `base`. *)

Send(c, msgs) == up' = [up EXCEPT ![c] = @ \o msgs]
Op(c) == \E plan \in Plans :
  client[c].ops < plan[c] /\ \A d \in Clients \ {c} : client[d].ops <= plan[d]
Counted(r, mode) == [r EXCEPT !.mode = mode, !.ops = r.ops + 1]
Linked(c) == client[c].mode \in {"attaching", "live"}

ClientAttach(c, v) ==
  /\ Op(c)
  /\ client[c].mode = "off" \/ (Kind[c] = "mcp" /\ client[c].mode = "live")
  /\ v = 0 <=> Kind[c] = "mcp"
  /\ Send(c, <<Attach(v)>>)
  /\ client' = [client EXCEPT ![c] =
       Counted(@, IF @.mode = "off" THEN "attaching" ELSE @.mode)]
  /\ UNCHANGED <<sessVars, attached, subs, connVars, down>>

MutantDetachKeepsReplica(c) ==
  /\ Op(c) /\ Kind[c] = "mcp" /\ client[c].mode = "live"
  /\ Send(c, <<Detach>>)
  /\ client' = [client EXCEPT ![c].ops = @ + 1]
  /\ UNCHANGED <<sessVars, attached, subs, connVars, down>>

(* zest-mcp: unwanted and replica-less before the Detach is queued. *)
ClientDetach(c) ==
  /\ Op(c) /\ Kind[c] = "mcp" /\ client[c].mode = "live"
  /\ Send(c, <<Detach>>)
  /\ client' = [client EXCEPT ![c] = [NewClient EXCEPT !.ops = client[c].ops + 1]]
  /\ UNCHANGED <<sessVars, attached, subs, connVars, down>>

(* A window's resize asks for the whole state back; the browser's does not. *)
ClientResize(c, v) ==
  /\ Op(c)
  /\ \/ Kind[c] = "app" /\ client[c].mode = "live" /\ Send(c, <<Resize(v), RequestKeyframe>>)
     \/ Kind[c] = "web" /\ Linked(c) /\ Send(c, <<Resize(v)>>)
  /\ client' = [client EXCEPT ![c].ops = @ + 1]
  /\ UNCHANGED <<sessVars, attached, subs, connVars, down>>

MutantAckUndue(c) ==
  /\ Linked(c) /\ Kind[c] # "mcp" /\ ~Has(up[c], "Ack")
  /\ Send(c, <<Ack(client[c].applied)>>)
  /\ UNCHANGED <<client, sessVars, attached, subs, connVars, down>>

(* Acknowledgements are coalesced: at most one is on the wire.  zest-mcp sends
   none. *)
ClientAck(c) ==
  /\ Linked(c) /\ Kind[c] # "mcp" /\ client[c].ackDue /\ ~Has(up[c], "Ack")
  /\ Send(c, <<Ack(client[c].applied)>>)
  /\ client' = [client EXCEPT ![c].ackDue = FALSE]
  /\ UNCHANGED <<sessVars, attached, subs, connVars, down>>

Adopt(r, m) ==
  [mode |-> "live", applied |-> m.seq, pic |-> m.pic,
   title |-> IF m.title = 0 THEN r.title ELSE m.title,
   awaiting |-> FALSE, ackDue |-> TRUE, ops |-> r.ops]

(* apply_delta past its base check.  Neither rows nor epoch travel in a delta,
   and a change to a picture the replica does not hold draws a third one. *)
Applied(r, m) ==
  [mode |-> r.mode, applied |-> m.seq,
   pic |-> [r.pic EXCEPT !.view = IF @ = m.was THEN m.now ELSE Corrupt],
   title |-> IF m.title = 0 THEN r.title ELSE m.title,
   awaiting |-> r.awaiting, ackDue |-> TRUE, ops |-> r.ops]

MutantBaseUnchecked(r, m) == FALSE

(* A delta against a state the replica does not hold. *)
Stale(r, m) == m.base # r.applied

(* A row past the end of a Rust replica's grid: drawn in part, not advanced. *)
Torn(r, m) == [r EXCEPT !.pic.view = Corrupt]

RecvKeyframe(c) ==
  /\ Head(down[c]).t = "Keyframe"
  /\ client' = [client EXCEPT ![c] = IF @.mode = "off" THEN @ ELSE Adopt(@, Head(down[c]))]
  /\ UNCHANGED up

(* One request per gap, not one per refused delta. *)
MutantNeverAsks(r) == TRUE

AskedAlready(r) == r.awaiting

RecvUpdate(c) ==
  LET r == client[c]
      m == Head(down[c])
      web == Kind[c] = "web"
      listens == r.mode = "live" \/ (web /\ r.mode = "attaching")
      stale == Stale(r, m)
      torn == ~web /\ m.rows > r.pic.rows
  IN
  /\ m.t = "Update"
  /\ \/ ~listens /\ UNCHANGED <<client, up>>
     \/ /\ listens /\ web /\ stale
        /\ client' = [client EXCEPT ![c].awaiting = TRUE]
        /\ Send(c, IF AskedAlready(r) THEN <<>> ELSE <<RequestKeyframe>>)
     \/ listens /\ web /\ ~stale /\ r.awaiting /\ UNCHANGED <<client, up>>
     \/ /\ listens /\ ~web /\ (stale \/ torn)
        /\ client' = [client EXCEPT ![c] = IF stale THEN @ ELSE Torn(@, m)]
        /\ Send(c, <<RequestKeyframe>>)
     \/ /\ listens /\ ~stale /\ ~torn /\ ~(web /\ r.awaiting)
        /\ client' = [client EXCEPT ![c] = Applied(@, m)]
        /\ UNCHANGED up

(* zest-app's reader returns out of its thread on Exited. *)
RecvOther(c) ==
  /\ Head(down[c]).t \in {"Exited", "Attention", "Error"}
  /\ client' = [client EXCEPT ![c].mode =
       IF Head(down[c]).t = "Exited" /\ Kind[c] = "app" /\ @ = "live" THEN "done" ELSE @]
  /\ UNCHANGED up

ClientRecv(c) ==
  /\ down[c] # <<>> /\ client[c].mode # "done"
  /\ down' = [down EXCEPT ![c] = Tail(@)]
  /\ RecvKeyframe(c) \/ RecvUpdate(c) \/ RecvOther(c)
  /\ UNCHANGED <<sessVars, attached, subs, connVars>>

(* The link dies, or a window that saw Exited closes it: Connection::drop
   releases the subscriber.  Windows and browsers keep their replica. *)
LinkDown(c) ==
  LET s == IF c \in attached THEN DoDetach(Locked, c) ELSE Locked
      r == client[c]
      closed == r.mode = "done"
  IN
  /\ closed \/ (Linked(c) /\ Op(c))
  /\ term' = s.term /\ log' = s.log /\ attached' = s.attached /\ subs' = s.subs
  /\ queue' = [s.queue EXCEPT ![c] = <<>>]
  /\ held' = [held EXCEPT ![c] = <<>>]
  /\ pass' = [pass EXCEPT ![c] = Idle]
  /\ recent' = [recent EXCEPT ![c] = FALSE]
  /\ owed' = [owed EXCEPT ![c] = FALSE]
  /\ overtaken' = [overtaken EXCEPT ![c] = FALSE]
  /\ up' = [up EXCEPT ![c] = <<>>]
  /\ down' = [down EXCEPT ![c] = <<>>]
  /\ client' = [client EXCEPT ![c] =
       IF closed THEN [r EXCEPT !.mode = "gone"]
       ELSE IF Kind[c] = "mcp" THEN [NewClient EXCEPT !.ops = r.ops + 1]
       ELSE Counted(r, "off")]
  /\ UNCHANGED <<title, reader, exited>>
-----------------------------------------------------------------------------
HandleMsg(c) ==
  \/ HandleAttach(c) \/ HandleRequestKeyframe(c) \/ HandleDetach(c)
  \/ HandleResize(c) \/ HandleAck(c)

ReaderStep ==
  ReaderStamp \/ DispatchTitle \/ KeyframeEveryone \/ TellEveryone \/ ReaderWake

Next ==
  \/ \E n \in 0..MaxBurst, visible \in BOOLEAN, ev \in SUBSET Happenings : ReaderParse(n, visible, ev)
  \/ ReaderStamp \/ DispatchTitle \/ KeyframeEveryone \/ TellEveryone \/ ReaderWake \/ ReaderEof
  \/ \E c \in Clients :
       \/ HandleAttach(c) \/ HandleRequestKeyframe(c) \/ HandleDetach(c)
       \/ HandleResize(c) \/ HandleAck(c)
       \/ Enqueue(c) \/ TakeWake(c) \/ TakeOwed(c) \/ FloorElapses(c)
       \/ \E lost \in BOOLEAN : Poll(c, lost)
       \/ \E v \in Sizes \cup {0} : ClientAttach(c, v)
       \/ ClientDetach(c)
       \/ \E v \in Sizes : ClientResize(c, v)
       \/ ClientAck(c) \/ ClientRecv(c) \/ LinkDown(c)

Spec == Init /\ [][Next]_vars

(* Threads run and the wire delivers; output, people and link losses are the
   environment's and promise nothing.  An acknowledgement is not promised
   either: the window's is sent only when something else arrives. *)
Fairness ==
  /\ WF_vars(ReaderStep)
  /\ \A c \in Clients :
       /\ WF_vars(HandleMsg(c)) /\ WF_vars(Enqueue(c))
       /\ WF_vars(TakeWake(c) \/ TakeOwed(c)) /\ WF_vars(FloorElapses(c))
       /\ WF_vars(\E lost \in BOOLEAN : Poll(c, lost))
       /\ WF_vars(ClientRecv(c))

FairSpec == Spec /\ Fairness
-----------------------------------------------------------------------------
(* Every variable keeps its type, and a client acknowledges only what it has
   applied.  session.rs, server.rs serve_with and the clients' own state. *)
SharedOK(s) ==
  /\ s.term \in [seq : Nat, pic : Picture]
  /\ DOMAIN s.log \subseteq Nat
  /\ \A q \in DOMAIN s.log : s.log[q] \in Picture
  /\ s.attached \subseteq Clients
  /\ s.subs \in [Clients -> Subscriber]
  /\ s.queue \in [Clients -> Seq(Seq(HostMessage))]

TypeOK ==
  /\ SharedOK(Locked)
  /\ title \in Nat
  /\ reader \in [pc : {"reading", "parsed", "eof", "done"}, ev : SUBSET AllHappenings]
  /\ exited \in BOOLEAN
  /\ held \in [Clients -> Seq(Seq(HostMessage))]
  /\ pass \in [Clients -> [on : BOOLEAN, out : Seq(HostMessage),
                           updates : BOOLEAN, ended : BOOLEAN]]
  /\ recent \in [Clients -> BOOLEAN]
  /\ owed \in [Clients -> BOOLEAN]
  /\ up \in [Clients -> Seq(ClientMessage)]
  /\ down \in [Clients -> Seq(HostMessage)]
  /\ client \in [Clients -> Replica]
  /\ \A c \in Clients : client[c].ackDue => client[c].applied # -1
  /\ overtaken \in [Clients -> BOOLEAN]

(* Someone will still look: a wake is in the writer's channel or on its way
   into it, or the writer is inside a pass, or the session's reader has yet to
   wake its subscribers. *)
WakePending(c) ==
  queue[c] # <<>> \/ held[c] # <<>> \/ pass[c].on \/ reader.pc \in {"parsed", "eof"}

(* Output a subscriber lacks, or a keyframe it is owed, always has a wake or
   the floor's timer coming: no frame waits for the next keystroke.
   session.rs wake_subscribers, keyframe_everyone, reconcile_size; server.rs
   serve_with's owed_at. *)
NoLostWakeup ==
  \A c \in attached : Behind(c) => WakePending(c) \/ owed[c]

(* A bell never waits for the floor, nor for output that may not come: it is
   drained by every pass, throttled or not.  server.rs poll_with. *)
BellNeverWaits ==
  \A c \in attached : subs[c].bell => WakePending(c)

(* A replica that holds sequence s shows what the host showed at s, at the
   size it had: no client renders a grid the host never showed, whatever was
   refused, resent, overtaken or reattached.  encode.rs delta against
   apply.rs apply_delta, session.rs poll and reconcile_size. *)
ReplicaFaithful ==
  \A c \in Clients : client[c].applied # -1 =>
    /\ client[c].applied \in DOMAIN log
    /\ client[c].pic.view = log[client[c].applied].view
    /\ client[c].pic.rows = log[client[c].applied].rows

(* The session is exactly as large as its smallest voter, at every moment any
   lock is free.  session.rs reconcile_size. *)
SmallestWins ==
  Votes(Locked) # {} => term.pic.rows = Smallest(Votes(Locked))

(* What makes ReplicaFaithful inductive.  The terminal is the newest entry of
   its own history ... *)
Logged(s) ==
  /\ s.term.seq \in DOMAIN s.log /\ s.log[s.term.seq] = s.term.pic
  /\ \A q \in DOMAIN s.log : q <= s.term.seq

(* ... a subscriber's shadow is what the host showed at `sent`, and only a
   subscriber owed a keyframe may have seen another size ... *)
ShadowsTrue(s, who) ==
  \A c \in who :
    /\ s.subs[c].sent \in DOMAIN s.log
    /\ s.subs[c].shadow.view = s.log[s.subs[c].sent].view
    /\ s.subs[c].needs \/ s.log[s.subs[c].sent].rows = s.term.pic.rows

(* ... and every message on its way says what the host showed, a delta between
   two pictures of one size. *)
Honest(l, m) ==
  /\ m.t = "Keyframe" => m.seq \in DOMAIN l /\ m.pic = l[m.seq]
  /\ m.t = "Update" =>
       /\ m.base \in DOMAIN l /\ m.was = l[m.base].view /\ m.rows = l[m.base].rows
       /\ m.seq \in DOMAIN l /\ m.now = l[m.seq].view /\ m.rows = l[m.seq].rows

AllHonest(l, msgs) == \A i \in 1..Len(msgs) : Honest(l, msgs[i])
BatchesHonest(l, batches) == \A i \in 1..Len(batches) : AllHonest(l, batches[i])

MessagesHonest ==
  \A c \in Clients :
    /\ AllHonest(log, down[c]) /\ AllHonest(log, pass[c].out)
    /\ BatchesHonest(log, held[c]) /\ BatchesHonest(log, queue[c])

(* Every delta the daemon writes, and every keyframe it answers with, is about
   pictures the host has shown: the inductive invariant behind ReplicaFaithful.
   session.rs attach_with, keyframe_for, poll and reconcile_size. *)
SyncInv ==
  /\ Logged(Locked) /\ ShadowsTrue(Locked, attached)
  /\ MessagesHonest /\ ReplicaFaithful

(* No client is ever told it is not attached: a recovery that races a Detach
   is answered before it, or never sent.  zest-mcp/conn.rs detach and
   on_message against server.rs RequestKeyframe. *)
NoOrphanError ==
  \A c \in Clients :
    /\ ~Has(down[c], "Error") /\ ~Has(pass[c].out, "Error")
    /\ \A i \in 1..Len(held[c] \o queue[c]) : ~Has((held[c] \o queue[c])[i], "Error")

(* Exited is written only behind everything the session had to show: the flag
   is read before the poll, so the delta it would outrun is polled with it.
   server.rs poll_with's `ended` snapshot. *)
ExitedAfterOutput ==
  [][\A c \in attached :
       (pass[c].on /\ ~pass'[c].on /\ Len(down'[c]) > 0 /\ down'[c][Len(down'[c])].t = "Exited"
        /\ Len(down'[c]) > Len(down[c]))
       => subs'[c].sent = term.seq /\ ~subs'[c].needs]_vars

(* Watching is looking at screens the host has shown (SharedScreen): a replica
   jumps between them by keyframe or delta, and host history is only extended.
   session.rs against zest-app/remote.rs, session-client.ts, zest-mcp/conn.rs. *)
Screen(p) == [view |-> p.view, rows |-> p.rows]
Unwatched == [at |-> -1, screen |-> Screen(Blank)]

Screens ==
  INSTANCE SharedScreen WITH
    Watchers <- Clients, Nothing <- Unwatched,
    shown <- [q \in DOMAIN log |-> Screen(log[q])],
    seen <- [c \in Clients |->
               IF client[c].applied = -1 THEN Unwatched
               ELSE [at |-> client[c].applied, screen |-> Screen(client[c].pic)]]

WatchesSharedScreen == Screens!Spec
-----------------------------------------------------------------------------
(* A window whose shell ended is told so, however the end raced its attach.
   server.rs poll_with, zest-app/remote.rs. *)
ExitIsSeen ==
  \A c \in Clients : Kind[c] = "app" =>
    (exited /\ client[c].mode = "live" ~> client[c].mode # "live")

(* A delta applied over a change no delta carries does not last: the keyframe
   that change owes everyone arrives.  session.rs keyframe_everyone. *)
Rebases(c) == client[c].mode = "live" /\ client[c].pic.epoch # log[client[c].applied].epoch
RebaseHeals == \A c \in Clients : Rebases(c) ~> ~Rebases(c)

(* When output stops, every replica comes to show the host's picture - unless
   the keyframe that answered its last request was overtaken on the way; and a
   delta applied over a change no delta carries is healed, output or none.
   serve_with's writer loop and the clients' recovery. *)
Converges ==
  /\ <>[](\A c \in Clients : client[c].mode = "live" /\ ~overtaken[c]
                             => client[c].pic = term.pic)
  /\ RebaseHeals
-----------------------------------------------------------------------------
(* What the repository says of this program and the program does not do. *)

(* serve_with, on owed_at: "Without this the last frame of every burst waits
   for the next keystroke" - so a burst's last frame does not wait. *)
CatchesUp ==
  <>[](\A c \in Clients : client[c].mode = "live" => client[c].pic.view = term.pic.view)
=============================================================================
