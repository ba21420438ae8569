---------------------------- MODULE PairingGate ----------------------------
(***************************************************************************)
(* The gate of a daemon's public port: the mid-handshake slots and the     *)
(* failure limit (zest-daemon/lan.rs), the handshake watchdog, the         *)
(* handshake and the queue of devices waiting for a person (zest-mesh/      *)
(* pairing.rs), the connection that carries them (zest-daemon/server.rs),   *)
(* and those who answer: windows on this machine, told by their connection *)
(* what waits, and the prompt on the daemon's terminal (main.rs).           *)
(*                                                                         *)
(* A step is one critical section, of a connection, of the queue, or one   *)
(* atomic operation.  A request or its leaving is announced (touch) in a    *)
(* step after the one that changes the queue.  What a handler answers is    *)
(* taken for delivered when the handler is done: the writer's channel is    *)
(* SessionSync's.  A window's own connection is served from the start, and  *)
(* it never dies; signatures, codes and clocks are abstract: a request's    *)
(* code is the connection that asks, and age[c] is how long it has been    *)
(* open in the watchdog's terms.                                            *)
(*                                                                         *)
(* An operator named Mutant... is a bug the properties have to catch; no   *)
(* other definition uses it.                                               *)
(***************************************************************************)
EXTENDS Integers, Sequences, FiniteSets, SequencesExt

CONSTANTS
  Conns,       \* the connections that will ever be dialled
  Device,      \* [Conns -> the device that dials]
  Peer,        \* [Conns -> the address it is counted against]
  Windows,     \* the windows that watch for pairings and may answer
  MaxSlots,    \* MAX_UNAUTHENTICATED
  MaxFailures, \* MAX_FAILURES
  Scenarios    \* bound: what clients and people will do, one set per behaviour

Terminal == "terminal"
Deeds == {"bad", "again", "leave", "cool", "storefails", "type", "stall"}
Scenario == [dial : SUBSET Conns, watch : SUBSET Windows, others : 0..MaxSlots, may : SUBSET Deeds]

ASSUME GateAssumption ==
  /\ IsFiniteSet(Conns) /\ Terminal \notin Windows
  /\ MaxSlots \in Nat /\ MaxFailures \in Nat \ {0}
  /\ Scenarios \subseteq Scenario

VARIABLES
  deeds,           \* the scenario of this behaviour; it never changes
  conn,            \* [Conns -> gate, threads, busy, decided, wake]
  dog,             \* [Conns -> the watchdog of the connection]
  unauthenticated, \* Gate.unauthenticated
  seen,            \* [peers -> RateLimiter.seen]
  trust,           \* the devices in the trust store
  queue,           \* PairingQueue.pending: the connections that ask, in order
  hand,            \* [who answers -> a decision on its way through resolve]
  window,          \* [Windows -> the watching connection and the modal]
  prompter         \* the approver thread: woken, to ask about, asking about

vars == <<deeds, conn, dog, unauthenticated, seen, trust, queue, hand, window, prompter>>

Devices == {Device[c] : c \in Conns}
Peers == {Peer[c] : c \in Conns}
Answerers == Windows \cup {Terminal}
Nobody == "nobody"
-----------------------------------------------------------------------------
(* threads: "new", "up", then "down" (the socket is dead or cut), "dropping"
   and "closing" (serve has returned), "over".  busy: how far the reader is in
   a handler that holds the connection lock. *)
NewConn == [gate |-> "greeting", threads |-> "new", busy |-> "free",
            decided |-> Nobody, wake |-> FALSE]
(* state is armed, fired and the cut in one: "armed"; "off", disarmed by the
   handshake or by the end; "won", between the swap and the store; "cut". *)
NewDog == [state |-> "armed", slot |-> FALSE, watched |-> TRUE, extended |-> FALSE, age |-> "young"]
Clean == [failures |-> 0, recent |-> FALSE]
Idle == [pc |-> "idle", device |-> Nobody, says |-> Nobody, taken |-> {}]
NewWindow == [on |-> FALSE, dirty |-> FALSE, wake |-> FALSE, listing |-> FALSE,
              announced |-> {}, modal |-> [d \in Devices |-> Nobody]]

Init ==
  /\ deeds \in Scenarios
  /\ conn = [c \in Conns |-> NewConn]
  /\ dog = [c \in Conns |-> NewDog]
  /\ unauthenticated = deeds.others
  /\ seen = [p \in Peers |-> Clean]
  /\ trust \in SUBSET Devices
  /\ queue = <<>>
  /\ hand = [a \in Answerers |-> Idle]
  /\ window = [w \in Windows |-> NewWindow]
  /\ prompter = [bell |-> FALSE, list |-> <<>>, asking |-> Nobody]

gateVars  == <<unauthenticated, seen>>
queueVars == <<queue, hand, window, prompter>>

Gate(c, g) == conn' = [conn EXCEPT ![c].gate = g]
Free(c) == conn[c].threads = "up" /\ conn[c].busy = "free"
-----------------------------------------------------------------------------
(* The queue: touch tells who watches; on_request tells the prompter. *)

Bumped(w) == [window[w] EXCEPT !.dirty = TRUE, !.wake = @ \/ window[w].on]
Touch == window' = [w \in Windows |-> Bumped(w)]

(* Requests are removed where they stand and the others close up, in order. *)
Nth(S, n) == CHOOSE i \in S : Cardinality({j \in S : j < i}) = n - 1
Rest(some) ==
  LET stay == {i \in DOMAIN queue : queue[i] \notin some}
  IN [n \in 1..Cardinality(stay) |-> queue[Nth(stay, n)]]
Without(c) == Rest({c})
OfDevice(d) == {r \in ToSet(queue) : Device[r] = d}
Notified(some, says) ==
  conn' = [c \in Conns |-> IF c \in some THEN [conn[c] EXCEPT !.decided = says, !.wake = TRUE]
                           ELSE conn[c]]
-----------------------------------------------------------------------------
(* Accepting. *)

Blocked(p) == seen[p].failures >= MaxFailures /\ seen[p].recent

(* A slot is one bounded increment; who is turned away is closed at once. *)
MutantNoCap(c) ==
  /\ c \in deeds.dial /\ conn[c].threads = "new" /\ ~Blocked(Peer[c])
  /\ conn' = [conn EXCEPT ![c].threads = "up"]
  /\ dog' = [dog EXCEPT ![c].slot = TRUE]
  /\ unauthenticated' = unauthenticated + 1
  /\ UNCHANGED <<deeds, seen, trust, queueVars>>

Admit(c) ==
  /\ c \in deeds.dial /\ conn[c].threads = "new"
  /\ \/ /\ ~Blocked(Peer[c]) /\ unauthenticated < MaxSlots
        /\ conn' = [conn EXCEPT ![c].threads = "up"]
        /\ dog' = [dog EXCEPT ![c].slot = TRUE]
        /\ unauthenticated' = unauthenticated + 1
     \/ /\ Blocked(Peer[c]) \/ unauthenticated >= MaxSlots
        /\ conn' = [conn EXCEPT ![c].threads = "over"]
        /\ UNCHANGED <<dog, unauthenticated>>
  /\ UNCHANGED <<deeds, seen, trust, queueVars>>

Cools(p) ==
  /\ "cool" \in deeds.may /\ seen[p].recent
  /\ seen' = [seen EXCEPT ![p].recent = FALSE]
  /\ UNCHANGED <<deeds, conn, dog, unauthenticated, trust, queueVars>>
-----------------------------------------------------------------------------
(* The handshake, under the connection lock. *)

(* welcome: on_ready stands the watchdog down, when it wins the swap, and gives
   the slot back, once. *)
MutantStandsDown(d) == [d EXCEPT !.state = IF @ = "armed" THEN "off" ELSE @,
                                 !.watched = FALSE, !.slot = FALSE]
Readied(d) ==
  [d EXCEPT !.state = IF @ = "armed" THEN "off" ELSE @,
            !.watched = @ /\ d.state # "armed",
            !.slot = FALSE]
Released(c) == unauthenticated' = unauthenticated - (IF dog[c].slot THEN 1 ELSE 0)

Welcome(c, taken) ==
  /\ conn' = [conn EXCEPT ![c] = [taken EXCEPT !.gate = "served"]]
  /\ dog' = [dog EXCEPT ![c] = Readied(dog[c])]
  /\ Released(c)

(* refuse drops the handle on the request, which cancels it; its end is RefuseTells. *)
Refuse(c, taken) ==
  /\ conn' = [conn EXCEPT ![c] = [taken EXCEPT !.gate = "refused",
                !.busy = IF c \in ToSet(queue) THEN "cancelled" ELSE "free"]]
  /\ queue' = Without(c)
  /\ UNCHANGED <<dog, unauthenticated>>

(* A Hello that cannot be answered, or comes a second time, is refused. *)
Hello(c) ==
  /\ Free(c) /\ conn[c].gate \in {"greeting", "challenged", "pending"}
  /\ \/ /\ conn[c].gate = "greeting"
        /\ conn' = [conn EXCEPT ![c].gate = "challenged"]
        /\ UNCHANGED <<dog, unauthenticated, queue>>
     \/ /\ IF conn[c].gate = "greeting" THEN "bad" \in deeds.may ELSE "again" \in deeds.may
        /\ Refuse(c, conn[c])
  /\ UNCHANGED <<deeds, seen, trust, hand, window, prompter>>

(* The proof first, then the trust store: a device that is not in it asks. *)
Auth(c) ==
  /\ Free(c) /\ conn[c].gate \in {"greeting", "challenged", "pending"}
  /\ \/ /\ conn[c].gate = "challenged" /\ Device[c] \in trust
        /\ Welcome(c, conn[c]) /\ UNCHANGED queue
     \/ /\ conn[c].gate = "challenged" /\ Device[c] \notin trust
        /\ conn' = [conn EXCEPT ![c].gate = "pending", ![c].busy = "asked"]
        /\ queue' = Append(queue, c) /\ UNCHANGED <<dog, unauthenticated>>
     \/ /\ \/ conn[c].gate = "challenged" /\ "bad" \in deeds.may
           \/ conn[c].gate = "challenged" /\ "storefails" \in deeds.may
           \/ conn[c].gate # "challenged" /\ "again" \in deeds.may
        /\ Refuse(c, conn[c])
  /\ UNCHANGED <<deeds, seen, trust, hand, window, prompter>>

(* submit announces; then the handle is kept and the deadline moves. *)
MutantAskDisarms(c) ==
  /\ conn[c].busy = "asked"
  /\ conn' = [conn EXCEPT ![c].busy = "free"]
  /\ dog' = [dog EXCEPT ![c].state = IF @ = "armed" THEN "off" ELSE @]
  /\ Touch /\ prompter' = [prompter EXCEPT !.bell = TRUE]
  /\ UNCHANGED <<deeds, gateVars, trust, queue, hand>>

AskForApproval(c) ==
  /\ conn[c].busy = "asked"
  /\ conn' = [conn EXCEPT ![c].busy = "free"]
  /\ dog' = [dog EXCEPT ![c].extended = TRUE]
  /\ Touch /\ prompter' = [prompter EXCEPT !.bell = TRUE]
  /\ UNCHANGED <<deeds, gateVars, trust, queue, hand>>

(* cancel, after it has taken the request out: touch, then notify. *)
RefuseTells(c) ==
  /\ conn[c].busy = "cancelled"
  /\ conn' = [conn EXCEPT ![c].busy = "free", ![c].decided = "deny", ![c].wake = TRUE]
  /\ Touch
  /\ UNCHANGED <<deeds, dog, gateVars, trust, queue, hand, prompter>>

(* The writer, woken: a decision counts while this connection still waits. *)
MutantTakesStale(c) ==
  /\ conn[c].threads \in {"up", "down"} /\ conn[c].busy = "free" /\ conn[c].wake
  /\ LET taken == [conn[c] EXCEPT !.decided = Nobody, !.wake = FALSE]
         waits == conn[c].decided # Nobody
     IN \/ /\ ~waits \/ conn[c].decided = Nobody
           /\ conn' = [conn EXCEPT ![c] = taken]
           /\ UNCHANGED <<dog, unauthenticated, trust, queue>>
        \/ /\ waits /\ conn[c].decided = "approve"
           /\ trust' = trust \cup {Device[c]}
           /\ Welcome(c, taken) /\ UNCHANGED queue
        \/ /\ waits
           /\ conn[c].decided = "deny" \/ (conn[c].decided = "approve" /\ "storefails" \in deeds.may)
           /\ Refuse(c, taken) /\ UNCHANGED trust
  /\ UNCHANGED <<deeds, seen, hand, window, prompter>>

TakeDecision(c) ==
  /\ conn[c].threads \in {"up", "down"} /\ conn[c].busy = "free" /\ conn[c].wake
  /\ LET taken == [conn[c] EXCEPT !.decided = Nobody, !.wake = FALSE]
         waits == conn[c].gate = "pending"
     IN \/ /\ ~waits \/ conn[c].decided = Nobody
           /\ conn' = [conn EXCEPT ![c] = taken]
           /\ UNCHANGED <<dog, unauthenticated, trust, queue>>
        \/ /\ waits /\ conn[c].decided = "approve"
           /\ trust' = trust \cup {Device[c]}
           /\ Welcome(c, taken) /\ UNCHANGED queue
        \/ /\ waits
           /\ conn[c].decided = "deny" \/ (conn[c].decided = "approve" /\ "storefails" \in deeds.may)
           /\ Refuse(c, taken) /\ UNCHANGED trust
  /\ UNCHANGED <<deeds, seen, hand, window, prompter>>
-----------------------------------------------------------------------------
(* The watchdog's thread: its deadline passes, it wins the swap, then it cuts. *)

Ages(c) ==
  /\ "stall" \in deeds.may /\ conn[c].threads = "up" /\ dog[c].state = "armed" /\ dog[c].age # "old"
  /\ dog' = [dog EXCEPT ![c].age = IF @ = "young" THEN "late" ELSE "old"]
  /\ UNCHANGED <<deeds, conn, gateVars, trust, queueVars>>

Due(c) == dog[c].age = "old" \/ (dog[c].age = "late" /\ ~dog[c].extended)

DogWins(c) ==
  /\ Due(c) /\ dog[c].state = "armed"
  /\ dog' = [dog EXCEPT ![c].state = "won"]
  /\ UNCHANGED <<deeds, conn, gateVars, trust, queueVars>>

DogCuts(c) ==
  /\ dog[c].state = "won" /\ dog' = [dog EXCEPT ![c].state = "cut"]
  /\ UNCHANGED <<deeds, conn, gateVars, trust, queueVars>>

(* The reader ends: its peer has left, or it surfaces from a poll and finds
   itself cut. *)
ReaderEnds(c) ==
  /\ Free(c)
  /\ "leave" \in deeds.may \/ (dog[c].state = "cut" /\ dog[c].watched)
  /\ conn' = [conn EXCEPT ![c].threads = "down"]
  /\ UNCHANGED <<deeds, dog, gateVars, trust, queueVars>>

(* The connection is dropped: the slot comes back, if it is still held, and a
   request is cancelled.  Which thread drops it last is all the same. *)
MutantSlotTwice(c) ==
  /\ conn[c].threads = "down" /\ conn[c].busy = "free"
  /\ conn' = [conn EXCEPT ![c].threads = IF c \in ToSet(queue) THEN "dropping" ELSE "closing"]
  /\ queue' = Without(c)
  /\ unauthenticated' = unauthenticated - 1 /\ dog' = [dog EXCEPT ![c].slot = FALSE]
  /\ UNCHANGED <<deeds, seen, trust, hand, window, prompter>>

Dropped(c) ==
  /\ conn[c].threads = "down" /\ conn[c].busy = "free"
  /\ conn' = [conn EXCEPT ![c].threads = IF c \in ToSet(queue) THEN "dropping" ELSE "closing"]
  /\ queue' = Without(c)
  /\ Released(c) /\ dog' = [dog EXCEPT ![c].slot = FALSE]
  /\ UNCHANGED <<deeds, seen, trust, hand, window, prompter>>

MutantDropUntold(c) ==
  /\ conn[c].threads = "dropping"
  /\ conn' = [conn EXCEPT ![c].threads = "closing"]
  /\ UNCHANGED <<deeds, dog, gateVars, trust, queueVars>>

DropTells(c) ==
  /\ conn[c].threads = "dropping"
  /\ conn' = [conn EXCEPT ![c].threads = "closing", ![c].decided = "deny"]
  /\ Touch
  /\ UNCHANGED <<deeds, dog, gateVars, trust, queue, hand, prompter>>

(* serve has returned: read whether it was authenticated, disarm, settle. *)
Authenticated(d) == d.state \in {"off", "won"}
Failed(s) == [failures |-> IF s.failures = MaxFailures THEN MaxFailures ELSE s.failures + 1, recent |-> TRUE]

MutantDisarmsFirst(c) ==
  /\ conn[c].threads = "closing"
  /\ conn' = [conn EXCEPT ![c].threads = "over"]
  /\ dog' = [dog EXCEPT ![c].state = IF @ = "armed" THEN "off" ELSE @]
  /\ seen' = [seen EXCEPT ![Peer[c]] = IF Authenticated(dog'[c]) THEN Clean ELSE Failed(@)]
  /\ UNCHANGED <<deeds, unauthenticated, trust, queueVars>>

Settles(c) ==
  /\ conn[c].threads = "closing"
  /\ conn' = [conn EXCEPT ![c].threads = "over"]
  /\ dog' = [dog EXCEPT ![c].state = IF @ = "armed" THEN "off" ELSE @]
  /\ seen' = [seen EXCEPT ![Peer[c]] = IF Authenticated(dog[c]) THEN Clean ELSE Failed(@)]
  /\ UNCHANGED <<deeds, unauthenticated, trust, queueVars>>
-----------------------------------------------------------------------------
(* A window watches: nothing is assumed seen, so what waits already is replayed. *)
MutantJoinsSeen(w) ==
  /\ w \in deeds.watch /\ ~window[w].on
  /\ window' = [window EXCEPT ![w].on = TRUE, ![w].wake = TRUE, ![w].dirty = FALSE]
  /\ UNCHANGED <<deeds, conn, dog, gateVars, trust, queue, hand, prompter>>

Joins(w) ==
  /\ w \in deeds.watch /\ ~window[w].on
  /\ window' = [window EXCEPT ![w].on = TRUE, ![w].wake = TRUE, ![w].dirty = TRUE]
  /\ UNCHANGED <<deeds, conn, dog, gateVars, trust, queue, hand, prompter>>

(* poll: the generation is read, and then what waits. *)
PollLooks(w) ==
  /\ window[w].wake /\ ~window[w].listing
  /\ window' = [window EXCEPT ![w].wake = FALSE, ![w].dirty = FALSE, ![w].listing = window[w].dirty]
  /\ UNCHANGED <<deeds, conn, dog, gateVars, trust, queue, hand, prompter>>

(* What is new is announced and what has gone is withdrawn; the modal keeps one
   request per device, the last it was told. *)
FirstOf(d) == Head(Rest(ToSet(queue) \ OfDevice(d)))
PollLists(w) ==
  /\ window[w].listing
  /\ LET waiting == {Device[r] : r \in ToSet(queue)}
         fresh == waiting \ window[w].announced
         shown == [d \in Devices |-> IF d \in fresh THEN FirstOf(d)
                                     ELSE IF d \in waiting THEN window[w].modal[d] ELSE Nobody]
     IN window' = [window EXCEPT ![w].listing = FALSE, ![w].announced = waiting, ![w].modal = shown]
  /\ UNCHANGED <<deeds, conn, dog, gateVars, trust, queue, hand, prompter>>

(* The person at a window answers what the modal shows; it closes at once. *)
Clicks(w, d, says) ==
  /\ hand[w].pc = "idle" /\ window[w].modal[d] # Nobody
  /\ window' = [window EXCEPT ![w].modal[d] = Nobody]
  /\ hand' = [hand EXCEPT ![w] = [Idle EXCEPT !.pc = "decides", !.device = d, !.says = says]]
  /\ UNCHANGED <<deeds, conn, dog, gateVars, trust, queue, prompter>>

(* The approver thread goes through what waits, one prompt at a time. *)
PrompterWakes ==
  /\ "type" \in deeds.may /\ prompter.bell
  /\ prompter.list = <<>> /\ prompter.asking = Nobody /\ hand[Terminal].pc = "idle"
  /\ prompter' = [prompter EXCEPT !.bell = FALSE, !.list = queue]
  /\ UNCHANGED <<deeds, conn, dog, gateVars, trust, queue, hand, window>>

PrompterAsks ==
  /\ prompter.list # <<>> /\ prompter.asking = Nobody /\ hand[Terminal].pc = "idle"
  /\ prompter' = [prompter EXCEPT !.asking = Head(prompter.list), !.list = Tail(prompter.list)]
  /\ UNCHANGED <<deeds, conn, dog, gateVars, trust, queue, hand, window>>

(* An answer whose device waits no more is discarded. *)
PrompterReads(says) ==
  /\ prompter.asking # Nobody
  /\ prompter' = [prompter EXCEPT !.asking = Nobody]
  /\ LET d == Device[prompter.asking]
     IN hand' = IF OfDevice(d) = {} THEN hand
                ELSE [hand EXCEPT ![Terminal] = [Idle EXCEPT !.pc = "decides", !.device = d, !.says = says]]
  /\ UNCHANGED <<deeds, conn, dog, gateVars, trust, queue, window>>

(* resolve: every request of the device is taken, then touch, then notify. *)
Resolves(a) ==
  /\ hand[a].pc = "decides"
  /\ LET taken == OfDevice(hand[a].device)
     IN /\ queue' = Rest(taken)
        /\ hand' = [hand EXCEPT ![a] = IF taken = {} THEN Idle
                                       ELSE [@ EXCEPT !.pc = "touches", !.taken = taken]]
  /\ UNCHANGED <<deeds, conn, dog, gateVars, trust, window, prompter>>

ResolveTouches(a) ==
  /\ hand[a].pc = "touches"
  /\ Touch /\ hand' = [hand EXCEPT ![a].pc = "notifies"]
  /\ UNCHANGED <<deeds, conn, dog, gateVars, trust, queue, prompter>>

MutantNotifyUnwoken(a) ==
  /\ hand[a].pc = "notifies"
  /\ conn' = [c \in Conns |-> IF c \in hand[a].taken THEN [conn[c] EXCEPT !.decided = hand[a].says]
                              ELSE conn[c]]
  /\ hand' = [hand EXCEPT ![a] = Idle]
  /\ UNCHANGED <<deeds, dog, gateVars, trust, queue, window, prompter>>

ResolveNotifies(a) ==
  /\ hand[a].pc = "notifies"
  /\ Notified(hand[a].taken, hand[a].says)
  /\ hand' = [hand EXCEPT ![a] = Idle]
  /\ UNCHANGED <<deeds, dog, gateVars, trust, queue, window, prompter>>
-----------------------------------------------------------------------------
DogStep(c) == Ages(c) \/ DogWins(c) \/ DogCuts(c)
HostStep(c) ==
  \/ AskForApproval(c) \/ RefuseTells(c) \/ TakeDecision(c)
  \/ Dropped(c) \/ DropTells(c) \/ Settles(c)
PollStep(w) == PollLooks(w) \/ PollLists(w)
ResolveStep(a) == Resolves(a) \/ ResolveTouches(a) \/ ResolveNotifies(a)
Client(c) == Admit(c) \/ Hello(c) \/ Auth(c)

Next ==
  \/ \E c \in Conns : Client(c) \/ DogStep(c) \/ ReaderEnds(c) \/ HostStep(c)
  \/ \E p \in Peers : Cools(p)
  \/ \E w \in Windows : Joins(w) \/ PollStep(w)
  \/ \E w \in Windows, d \in Devices, says \in {"approve", "deny"} : Clicks(w, d, says)
  \/ PrompterWakes \/ PrompterAsks
  \/ \E says \in {"approve", "deny"} : PrompterReads(says)
  \/ \E a \in Answerers : ResolveStep(a)

(* Time passes and the daemon's threads run; clients and people owe nothing. *)
Fairness ==
  /\ \A c \in Conns : WF_vars(DogStep(c)) /\ WF_vars(HostStep(c))
                       /\ WF_vars(dog[c].state = "cut" /\ ReaderEnds(c))
  /\ \A w \in Windows : WF_vars(PollStep(w))
  /\ \A a \in Answerers : WF_vars(ResolveStep(a))

Spec == Init /\ [][Next]_vars
FairSpec == Spec /\ Fairness
-----------------------------------------------------------------------------
(* The gate's variables keep to their types. *)
TypeOK ==
  /\ deeds \in Scenarios
  /\ conn \in [Conns -> [gate : {"greeting", "challenged", "pending", "served", "refused"},
                         threads : {"new", "up", "down", "dropping", "closing", "over"},
                         busy : {"free", "asked", "cancelled"},
                         decided : {Nobody, "approve", "deny"}, wake : BOOLEAN]]
  /\ dog \in [Conns -> [state : {"armed", "off", "won", "cut"}, slot : BOOLEAN,
                        watched : BOOLEAN, extended : BOOLEAN, age : {"young", "late", "old"}]]
  /\ unauthenticated \in 0..MaxSlots
  /\ seen \in [Peers -> [failures : 0..MaxFailures, recent : BOOLEAN]]
  /\ trust \subseteq Devices
  /\ ToSet(queue) \subseteq Conns /\ Len(queue) = Cardinality(ToSet(queue))
  /\ hand \in [Answerers -> [pc : {"idle", "decides", "touches", "notifies"},
                             device : Devices \cup {Nobody}, says : {Nobody, "approve", "deny"},
                             taken : SUBSET Conns]]
  /\ window \in [Windows -> [on : BOOLEAN, dirty : BOOLEAN, wake : BOOLEAN, listing : BOOLEAN,
                             announced : SUBSET Devices,
                             modal : [Devices -> Conns \cup {Nobody}]]]
  /\ prompter.bell \in BOOLEAN /\ ToSet(prompter.list) \subseteq Conns
  /\ prompter.asking \in Conns \cup {Nobody}

(* The mid-handshake count is the slots held, by connections that are open and
   not served: each is given back once, by the handshake or by the end
   (Countdown::release), and never twice. *)
SlotsAreCounted ==
  /\ unauthenticated = deeds.others + Cardinality({c \in Conns : dog[c].slot})
  /\ \A c \in Conns : dog[c].slot =>
        conn[c].threads \in {"up", "down"} /\ conn[c].gate # "served"

(* The handshake and the watchdog race for one swap: a connection whose watchdog
   won is still polled, so the cut can land on its reader, and one that stood
   down is never cut (WatchdogHandle::completed, Watchdog::start_with). *)
OneOfThemWins ==
  \A c \in Conns : dog[c].state \in {"won", "cut"} => dog[c].watched

(* The failure limit counts what happened: a peer's failures grow only by a
   connection that was not served or was cut, and are forgotten only when one
   that was served ends - or one that ended between the watchdog's swap and its
   store (accept_hardened's order of authenticated, disarm and settle). *)
SettledTruly ==
  [][\A c \in Conns : conn[c].threads = "closing" /\ conn'[c].threads = "over" =>
       LET grows == seen'[Peer[c]].recent
       IN /\ grows => conn[c].gate # "served" \/ dog[c].state = "cut"
          /\ ~grows => conn[c].gate = "served" \/ dog[c].state = "won"]_vars

(* The gate implements DeviceTrust: whoever is served proved a trusted device or
   was granted while it waited, on the decision of somebody who answered, and a
   decision that comes late opens nothing. *)
GrantedTo(c) ==
  \/ conn[c].decided = "approve"
  \/ \E a \in Answerers : hand[a].says = "approve" /\ c \in hand[a].taken
Standing(c) ==
  IF conn[c].gate = "refused" \/ conn[c].threads \in {"dropping", "closing", "over"} THEN "out"
  ELSE IF conn[c].gate = "served" THEN "served"
  ELSE IF conn[c].gate # "pending" THEN "stranger"
  ELSE IF GrantedTo(c) THEN "granted" ELSE "waiting"
Trust == INSTANCE DeviceTrust WITH standing <- [c \in Conns |-> Standing(c)]
KeepsDeviceTrust == Trust!Spec

(* A slot taken comes back though the client says nothing more and nobody
   answers: the deadline of a connection that waits moves, and still falls. *)
SlotComesBack ==
  \A c \in Conns : "stall" \in deeds.may /\ dog[c].slot ~> ~dog[c].slot

(* A device that waits becomes known to every window that watches, also one
   that came when it was waiting already (Hello.watch_pairings). *)
WaitingIsAnnounced ==
  \A w \in Windows : \A d \in Devices :
    window[w].on /\ OfDevice(d) # {} ~> d \in window[w].announced \/ OfDevice(d) = {}

(* A prompt is withdrawn from every window once its device waits no more. *)
PromptIsWithdrawn ==
  \A w \in Windows : \A d \in Devices :
    window[w].modal[d] # Nobody /\ OfDevice(d) = {} ~>
      window[w].modal[d] = Nobody \/ OfDevice(d) # {}

(* Who is granted or denied hears of it, or its connection ends. *)
DecisionIsAnswered ==
  \A c \in Conns : conn[c].gate = "pending" /\ conn[c].decided # Nobody ~>
    conn[c].gate # "pending" \/ conn[c].threads = "over"

(* Windows follow the registry: what they show comes and goes with the devices
   that wait (PairingRegistry's Updates, as watch_pairings hears them). *)
PromptsFollow == WaitingIsAnnounced /\ PromptIsWithdrawn

(* Nobody is left at the gate: a stalled client loses its slot, a decided one
   hears its decision (the watchdog's deadline, await_approval). *)
NobodyIsLeft == SlotComesBack /\ DecisionIsAnswered
=============================================================================
