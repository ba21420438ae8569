------------------------- MODULE SessionSyncProofs -------------------------
(***************************************************************************)
(* Proofs about SessionSync, for every set of clients, every size, floor   *)
(* and bound: its types, that no wakeup is lost and no bell waits, that    *)
(* the session is always as large as its smallest voter, that no client is *)
(* told it is not attached, that Exited comes behind the output, and that  *)
(* whatever is refused, resent, overtaken or reattached, a replica shows a *)
(* screen the host showed, at the size it was shown at; so SessionSync     *)
(* implements SharedScreen.                                                *)
(***************************************************************************)
EXTENDS SessionSync, WellFoundedInduction, TLAPS

(* A nonempty set of sizes has a smallest one, and Smallest finds it: the
   minimum reconcile_size folds out of the votes. *)
LEMMA SmallestIn ==
  ASSUME NEW S, S \subseteq Nat, S # {}
  PROVE  Smallest(S) \in S /\ \A w \in S : Smallest(S) <= w
<1>1. PICK x \in S : \A y \in S : ~(<<y, x>> \in OpToRel(<, Nat))
  BY WFMin, NatLessThanWellFounded
<1>2. ASSUME NEW y \in S PROVE x <= y
  <2>1. ~(y < x)
    BY <1>1, <1>2 DEF OpToRel
  <2> QED BY <2>1, <1>2
<1> QED BY <1>1, <1>2 DEF Smallest

(* A wake or a reply in the writer's channel leaves it a channel, not empty. *)
LEMMA EnqueuedType ==
  ASSUME NEW q \in Seq(Seq(HostMessage)), NEW r \in Seq(HostMessage)
  PROVE  Enqueued(q, r) \in Seq(Seq(HostMessage)) /\ Enqueued(q, r) # <<>>
<1> DEFINE Batch == Seq(HostMessage)
<1> HIDE DEF Batch
<1>1. q \in Seq(Batch) /\ r \in Batch
  BY DEF Batch
<1>2. Append(q, r) \in Seq(Batch) /\ Append(q, r) # <<>>
  BY <1>1
<1> QED BY <1>1, <1>2 DEF Enqueued, Batch

LEMMA EmptyReplies == <<>> \in Seq(HostMessage)
  OBVIOUS

LEMMA WakeAllType ==
  ASSUME NEW q \in [Clients -> Seq(Seq(HostMessage))], NEW who
  PROVE  /\ WakeAll(q, who) \in [Clients -> Seq(Seq(HostMessage))]
         /\ \A c \in Clients : c \in who => WakeAll(q, who)[c] # <<>>
         /\ \A c \in Clients : q[c] # <<>> => WakeAll(q, who)[c] # <<>>
<1>1. ASSUME NEW c \in Clients
      PROVE  Enqueued(q[c], <<>>) \in Seq(Seq(HostMessage)) /\ Enqueued(q[c], <<>>) # <<>>
  BY EnqueuedType, EmptyReplies
<1> QED BY <1>1 DEF WakeAll

LEMMA OwingType ==
  ASSUME NEW sub \in [Clients -> Subscriber], NEW who
  PROVE  Owing(sub, who) \in [Clients -> Subscriber]
BY DEF Owing, Subscriber

LEMMA NoSubType == NoSub \in Subscriber
BY DEF NoSub, Subscriber

(* Every operation of the subscriber map keeps the types of what it holds. *)
LEMMA ReconcileType ==
  ASSUME NEW s, SharedOK(s), NEW exempt
  PROVE  SharedOK(Reconcile(s, exempt))
<1>1. CASE Votes(s) = {} \/ Smallest(Votes(s)) = s.term.pic.rows
  BY <1>1 DEF Reconcile
<1>2. CASE ~(Votes(s) = {} \/ Smallest(Votes(s)) = s.term.pic.rows)
  <2> DEFINE t == Resized(s, Smallest(Votes(s)))
             others == s.attached \ exempt
  <2>1. Votes(s) \subseteq Nat
    BY DEF Votes, SharedOK, Subscriber
  <2>2. Smallest(Votes(s)) \in Nat
    BY <1>2, <2>1, SmallestIn
  <2>3. t \in [seq : Nat, pic : Picture]
    BY <2>2 DEF Resized, SharedOK, Picture
  <2>4. DOMAIN Recorded(s.log, t.seq, t.pic) \subseteq Nat
        /\ \A q \in DOMAIN Recorded(s.log, t.seq, t.pic) : Recorded(s.log, t.seq, t.pic)[q] \in Picture
    BY <2>3 DEF Recorded, SharedOK
  <2>5. Owing(s.subs, others) \in [Clients -> Subscriber]
    BY OwingType DEF SharedOK
  <2>6. WakeAll(s.queue, others) \in [Clients -> Seq(Seq(HostMessage))]
    BY WakeAllType DEF SharedOK
  <2>7. Reconcile(s, exempt) = Shared(t, Recorded(s.log, t.seq, t.pic), s.attached,
                                      Owing(s.subs, others), WakeAll(s.queue, others))
    BY <1>2 DEF Reconcile
  <2> HIDE DEF t, others
  <2> QED BY <2>3, <2>4, <2>5, <2>6, <2>7 DEF SharedOK, Shared
<1> QED BY <1>1, <1>2

LEMMA RebasedType ==
  ASSUME NEW s, SharedOK(s), NEW c \in Clients, title \in Nat
  PROVE  SharedOK(Rebased(s, c))
<1>1. [s.subs EXCEPT ![c] = [@ EXCEPT !.sent = s.term.seq, !.needs = FALSE,
          !.shadow = [view |-> s.term.pic.view, title |-> title]]] \in [Clients -> Subscriber]
  <2>1. s.subs \in [Clients -> Subscriber] /\ s.term.seq \in Nat /\ s.term.pic.view \in Nat
    BY DEF SharedOK, Picture
  <2>2. [s.subs[c] EXCEPT !.sent = s.term.seq, !.needs = FALSE,
           !.shadow = [view |-> s.term.pic.view, title |-> title]] \in Subscriber
    BY <2>1 DEF Subscriber
  <2> QED BY <2>1, <2>2
<1> QED BY <1>1 DEF Rebased, Shared, SharedOK

LEMMA WithoutType ==
  ASSUME NEW s, SharedOK(s), NEW c \in Clients
  PROVE  SharedOK(Without(s, c))
<1>1. [s.subs EXCEPT ![c] = NoSub] \in [Clients -> Subscriber]
  BY NoSubType DEF SharedOK
<1> QED BY <1>1 DEF Without, Shared, SharedOK

LEMMA WithType ==
  ASSUME NEW s, SharedOK(s), NEW c \in Clients, NEW v \in Nat
  PROVE  SharedOK(With(s, c, v))
<1>1. [NoSub EXCEPT !.vote = v] \in Subscriber
  BY DEF NoSub, Subscriber
<1> QED BY <1>1 DEF With, Shared, SharedOK

LEMMA VotedType ==
  ASSUME NEW s, SharedOK(s), NEW c \in Clients, NEW v \in Nat
  PROVE  SharedOK(Voted(s, c, v))
<1>1. [s.subs EXCEPT ![c] = [@ EXCEPT !.vote = v]] \in [Clients -> Subscriber]
  <2>1. s.subs \in [Clients -> Subscriber]
    BY DEF SharedOK
  <2>2. [s.subs[c] EXCEPT !.vote = v] \in Subscriber
    BY <2>1 DEF Subscriber
  <2> QED BY <2>1, <2>2
<1> QED BY <1>1 DEF Voted, Shared, SharedOK

LEMMA OperationsType ==
  ASSUME NEW s, SharedOK(s), NEW c \in Clients, NEW n \in Nat, title \in Nat
  PROVE  /\ SharedOK(DoDetach(s, c))
         /\ SharedOK(DoAttach(s, c, n))
         /\ SharedOK(DoResize(s, c, n))
         /\ SharedOK(DoAck(s, c, n))
<1>1. SharedOK(DoDetach(s, c))
  BY WithoutType, ReconcileType DEF DoDetach
<1>2. SharedOK(DoAttach(s, c, n))
  <2> DEFINE freed == IF c \in s.attached THEN DoDetach(s, c) ELSE s
  <2>1. SharedOK(freed)
    BY <1>1
  <2> HIDE DEF freed
  <2>2. SharedOK(Reconcile(With(freed, c, n), {c}))
    BY <2>1, WithType, ReconcileType
  <2>3. SharedOK(Rebased(Reconcile(With(freed, c, n), {c}), c))
    BY <2>2, RebasedType
  <2> QED BY <2>3 DEF DoAttach, freed
<1>3. SharedOK(DoResize(s, c, n))
  BY VotedType, ReconcileType DEF DoResize
<1>4. SharedOK(DoAck(s, c, n))
  <2>1. Owing(s.subs, {c}) \in [Clients -> Subscriber]
    BY OwingType DEF SharedOK
  <2> QED BY <2>1 DEF DoAck, Shared, SharedOK
<1> QED BY <1>1, <1>2, <1>3, <1>4
-----------------------------------------------------------------------------
(* Messages and replicas. *)
LEMMA MessageTypes ==
  /\ \A q \in Nat, p \in Picture, t \in Nat : Keyframe(q, p, t) \in HostMessage
  /\ \A b, q, was, now, rows, t \in Nat : Update(b, q, was, now, rows, t) \in HostMessage
  /\ Exited \in HostMessage /\ Attention \in HostMessage /\ Error \in HostMessage
  /\ \A v \in Nat : Attach(v) \in ClientMessage /\ Resize(v) \in ClientMessage
                    /\ Ack(v) \in ClientMessage
  /\ RequestKeyframe \in ClientMessage /\ Detach \in ClientMessage
BY DEF Keyframe, Update, Exited, Attention, Error, Attach, Resize, Ack, RequestKeyframe, Detach,
       HostMessage, ClientMessage

LEMMA KeyframeFields ==
  ASSUME NEW m \in HostMessage, m.t = "Keyframe"
  PROVE  m.seq \in Nat /\ m.pic \in Picture /\ m.title \in Nat
BY DEF HostMessage

LEMMA UpdateFields ==
  ASSUME NEW m \in HostMessage, m.t = "Update"
  PROVE  /\ m.base \in Nat /\ m.seq \in Nat /\ m.was \in Nat
         /\ m.now \in Nat /\ m.rows \in Nat /\ m.title \in Nat
BY DEF HostMessage

LEMMA VoteFields ==
  ASSUME NEW m \in ClientMessage
  PROVE  /\ m.t \in {"Attach", "Resize"} => m.vote \in Nat
         /\ m.t = "Ack" => m.seq \in Nat
BY DEF ClientMessage

LEMMA AdoptType ==
  ASSUME NEW r \in Replica, NEW m \in HostMessage, m.t = "Keyframe"
  PROVE  /\ Adopt(r, m) \in Replica /\ Adopt(r, m).applied # -1
         /\ Adopt(r, m).applied = m.seq /\ Adopt(r, m).pic = m.pic
<1>1. m.seq \in Nat /\ m.pic \in [view : Int, rows : Nat, epoch : Nat] /\ m.title \in Nat
  BY KeyframeFields DEF Picture
<1>2. (IF m.title = 0 THEN r.title ELSE m.title) \in Nat
  BY <1>1 DEF Replica
<1> QED BY <1>1, <1>2 DEF Adopt, Replica

LEMMA AppliedType ==
  ASSUME NEW r \in Replica, NEW m \in HostMessage, m.t = "Update"
  PROVE  /\ Applied(r, m) \in Replica /\ Applied(r, m).applied # -1
         /\ Applied(r, m).applied = m.seq
         /\ Applied(r, m).pic.rows = r.pic.rows
         /\ r.pic.view = m.was => Applied(r, m).pic.view = m.now
<1>1. m.seq \in Nat /\ m.was \in Nat /\ m.now \in Nat /\ m.title \in Nat
  BY UpdateFields
<1>2. (IF m.title = 0 THEN r.title ELSE m.title) \in Nat
  BY <1>1 DEF Replica
<1>3. (IF r.pic.view = m.was THEN m.now ELSE Corrupt) \in Int
  BY <1>1 DEF Corrupt
<1>4. [r.pic EXCEPT !.view = IF @ = m.was THEN m.now ELSE Corrupt]
        \in [view : Int, rows : Nat, epoch : Nat]
  BY <1>3 DEF Replica
<1> QED BY <1>1, <1>2, <1>4 DEF Applied, Replica

LEMMA TornType ==
  ASSUME NEW r \in Replica, NEW m
  PROVE  Torn(r, m) \in Replica /\ Torn(r, m).applied = r.applied /\ Torn(r, m).ackDue = r.ackDue
BY DEF Torn, Replica, Corrupt

(* What poll has for a subscriber is at most one message. *)
LEMMA PolledType ==
  ASSUME TypeOK, NEW c \in Clients, NEW lost \in BOOLEAN
  PROVE  Polled(c, lost) \in Seq(HostMessage)
<1>1. Keyframe(term.seq, term.pic, title) \in HostMessage
  BY MessageTypes DEF TypeOK, SharedOK, Locked, Shared
<1>2. Update(subs[c].sent, term.seq, subs[c].shadow.view, term.pic.view, term.pic.rows,
             IF subs[c].shadow.title # title THEN title ELSE 0) \in HostMessage
  <2>1. subs[c] \in Subscriber /\ term.seq \in Nat /\ term.pic \in Picture /\ title \in Nat
    BY DEF TypeOK, SharedOK, Locked, Shared
  <2>2. /\ subs[c].sent \in Nat /\ subs[c].shadow.view \in Nat
        /\ term.pic.view \in Nat /\ term.pic.rows \in Nat
    BY <2>1 DEF Subscriber, Picture
  <2>3. (IF subs[c].shadow.title # title THEN title ELSE 0) \in Nat
    BY <2>1
  <2> QED BY <2>1, <2>2, <2>3, MessageTypes
<1> QED BY <1>1, <1>2 DEF Polled
-----------------------------------------------------------------------------
LEMMA TypeInit == Init => TypeOK
<1> SUFFICES ASSUME Init PROVE TypeOK
  OBVIOUS
<1>1. SharedOK(Locked)
  BY NoSubType, SizesAssumption DEF Init, SharedOK, Locked, Shared, Picture
<1>2. NewClient \in Replica
  BY DEF NewClient, Replica, Blank
<1>3. Idle \in [on : BOOLEAN, out : Seq(HostMessage), updates : BOOLEAN, ended : BOOLEAN]
  BY DEF Idle
<1>4. \A c \in Clients : client[c].ackDue => client[c].applied # -1
  BY DEF Init, NewClient
<1>5. reader \in [pc : {"reading", "parsed", "eof", "done"}, ev : SUBSET AllHappenings]
  BY DEF Init
<1>6. /\ held \in [Clients -> Seq(Seq(HostMessage))]
      /\ up \in [Clients -> Seq(ClientMessage)] /\ down \in [Clients -> Seq(HostMessage)]
  BY DEF Init
<1>7. /\ pass \in [Clients -> [on : BOOLEAN, out : Seq(HostMessage),
                               updates : BOOLEAN, ended : BOOLEAN]]
      /\ client \in [Clients -> Replica]
  BY <1>2, <1>3 DEF Init
<1>8. /\ title \in Nat /\ exited \in BOOLEAN /\ recent \in [Clients -> BOOLEAN]
      /\ owed \in [Clients -> BOOLEAN] /\ overtaken \in [Clients -> BOOLEAN]
  BY DEF Init
<1> QED BY <1>1, <1>4, <1>5, <1>6, <1>7, <1>8 DEF TypeOK

LEMMA InstallType ==
  ASSUME NEW s, SharedOK(s), Install(s)
  PROVE  SharedOK(Locked)'
BY DEF SharedOK, Install, Locked, Shared

(* Everything of TypeOK but the shared state, which only the reader thread and
   the connection handlers touch. *)
RestOK ==
  /\ title \in Nat
  /\ reader \in [pc : {"reading", "parsed", "eof", "done"}, ev : SUBSET AllHappenings]
  /\ exited \in BOOLEAN
  /\ held \in [Clients -> Seq(Seq(HostMessage))]
  /\ pass \in [Clients -> [on : BOOLEAN, out : Seq(HostMessage),
                           updates : BOOLEAN, ended : BOOLEAN]]
  /\ recent \in [Clients -> BOOLEAN]
  /\ owed \in [Clients -> BOOLEAN]
  /\ up \in [Clients -> Seq(ClientMessage)]
  /\ down \in [Clients -> Seq(HostMessage)]
  /\ client \in [Clients -> Replica]
  /\ \A c \in Clients : client[c].ackDue => client[c].applied # -1
  /\ overtaken \in [Clients -> BOOLEAN]

LEMMA TypeParts == TypeOK <=> SharedOK(Locked) /\ RestOK
BY DEF TypeOK, RestOK

LEMMA TypePartsNext == TypeOK' <=> SharedOK(Locked)' /\ RestOK'
BY DEF TypeOK, RestOK

(* The session's reader thread. *)
LEMMA TypeReader ==
  ASSUME TypeOK,
         \/ \E n \in 0..MaxBurst, visible \in BOOLEAN, ev \in SUBSET Happenings :
              ReaderParse(n, visible, ev)
         \/ ReaderStamp \/ DispatchTitle \/ KeyframeEveryone \/ TellEveryone \/ ReaderWake
         \/ ReaderEof
  PROVE  TypeOK'
<1> USE TypeParts, TypePartsNext
<1>1. ASSUME NEW n \in 0..MaxBurst, NEW visible \in BOOLEAN, NEW ev \in SUBSET Happenings,
             ReaderParse(n, visible, ev)
      PROVE  TypeOK'
  <2> DEFINE p == [view  |-> term.pic.view + (IF visible THEN 1 ELSE 0),
                   rows  |-> term.pic.rows,
                   epoch |-> term.pic.epoch + (IF "rebase" \in ev THEN 1 ELSE 0)]
  <2>0. n \in Nat
    BY BoundsAssumption
  <2>1. p \in Picture /\ term.seq + n \in Nat
    BY <2>0 DEF SharedOK, Locked, Shared, Picture
  <2>2. term' = [seq |-> term.seq + n, pic |-> p] /\ log' = Recorded(log, term.seq + n, p)
    BY <1>1 DEF ReaderParse
  <2>3. ev \in SUBSET AllHappenings
    BY HappeningsAssumption
  <2> HIDE DEF p
  <2>4. SharedOK(Locked)'
    <3>1. UNCHANGED <<attached, subs, queue>>
      BY <1>1 DEF ReaderParse, connVars
    <3>2. term' \in [seq : Nat, pic : Picture] /\ DOMAIN log' \subseteq Nat
          /\ \A q \in DOMAIN log' : log'[q] \in Picture
      BY <2>1, <2>2 DEF SharedOK, Locked, Shared, Recorded
    <3> QED BY <3>1, <3>2 DEF SharedOK, Locked, Shared
  <2>5. RestOK'
    BY <1>1, <2>3 DEF ReaderParse, RestOK, connVars
  <2> QED BY <2>4, <2>5
<1>2. CASE ReaderStamp
  <2> DEFINE p == [term.pic EXCEPT !.view = @ + 1]
  <2>1. p \in Picture /\ term.seq + 1 \in Nat
    <3>1. term.seq \in Nat /\ term.pic \in Picture
      BY DEF SharedOK, Locked, Shared
    <3> QED BY <3>1 DEF Picture
  <2>2. term' = [seq |-> term.seq + 1, pic |-> p] /\ log' = Recorded(log, term.seq + 1, p)
    BY <1>2 DEF ReaderStamp
  <2> HIDE DEF p
  <2>3. SharedOK(Locked)'
    <3>1. UNCHANGED <<attached, subs, queue>>
      BY <1>2 DEF ReaderStamp, connVars
    <3>2. term' \in [seq : Nat, pic : Picture] /\ DOMAIN log' \subseteq Nat
          /\ \A q \in DOMAIN log' : log'[q] \in Picture
      BY <2>1, <2>2 DEF SharedOK, Locked, Shared, Recorded
    <3> QED BY <3>1, <3>2 DEF SharedOK, Locked, Shared
  <2>4. RestOK'
    BY <1>2 DEF ReaderStamp, RestOK, connVars
  <2> QED BY <2>3, <2>4
<1>3. CASE DispatchTitle
  <2>1. SharedOK(Locked)'
    BY <1>3 DEF DispatchTitle, SharedOK, Locked, Shared, connVars
  <2>2. title' \in Nat
        /\ reader' \in [pc : {"reading", "parsed", "eof", "done"}, ev : SUBSET AllHappenings]
    <3>1. title' \in Nat
      BY <1>3 DEF DispatchTitle, RestOK
    <3>2. reader' \in [pc : {"reading", "parsed", "eof", "done"}, ev : SUBSET AllHappenings]
      BY <1>3 DEF DispatchTitle, RestOK
    <3> QED BY <3>1, <3>2
  <2>3. RestOK'
    BY <1>3, <2>2 DEF DispatchTitle, RestOK, connVars
  <2> QED BY <2>1, <2>3
<1>4. CASE KeyframeEveryone
  <2>1. subs' \in [Clients -> Subscriber]
    BY <1>4, OwingType DEF KeyframeEveryone, SharedOK, Locked, Shared
  <2>2. SharedOK(Locked)'
    BY <1>4, <2>1 DEF KeyframeEveryone, SharedOK, Locked, Shared, connVars
  <2>3. RestOK'
    BY <1>4 DEF KeyframeEveryone, RestOK, connVars
  <2> QED BY <2>2, <2>3
<1>5. CASE TellEveryone
  <2>1. subs' \in [Clients -> Subscriber]
    <3>1. subs \in [Clients -> Subscriber]
      BY DEF SharedOK, Locked, Shared
    <3>2. \A c \in Clients : [subs[c] EXCEPT !.bell = TRUE] \in Subscriber
      BY <3>1 DEF Subscriber
    <3> QED BY <1>5, <3>1, <3>2 DEF TellEveryone
  <2>2. SharedOK(Locked)'
    BY <1>5, <2>1 DEF TellEveryone, SharedOK, Locked, Shared, connVars
  <2>3. RestOK'
    BY <1>5 DEF TellEveryone, RestOK, connVars
  <2> QED BY <2>2, <2>3
<1>6. CASE ReaderWake
  <2>1. queue' \in [Clients -> Seq(Seq(HostMessage))]
    BY <1>6, WakeAllType DEF ReaderWake, SharedOK, Locked, Shared
  <2>2. SharedOK(Locked)'
    BY <1>6, <2>1 DEF ReaderWake, SharedOK, Locked, Shared
  <2>3. RestOK'
    BY <1>6 DEF ReaderWake, RestOK
  <2> QED BY <2>2, <2>3
<1>7. CASE ReaderEof
  <2>1. SharedOK(Locked)'
    BY <1>7 DEF ReaderEof, SharedOK, Locked, Shared, connVars
  <2>2. RestOK'
    BY <1>7 DEF ReaderEof, RestOK, connVars
  <2> QED BY <2>1, <2>2
<1> QED BY <1>1, <1>2, <1>3, <1>4, <1>5, <1>6, <1>7

(* A connection's reader thread. *)
LEMMA RepliesType ==
  ASSUME RestOK, NEW c \in Clients, NEW m \in HostMessage,
         \/ Reply(c, <<m>>) \/ Reply(c, <<>>)
  PROVE  held' \in [Clients -> Seq(Seq(HostMessage))]
<1>1. <<m>> \in Seq(HostMessage) /\ <<>> \in Seq(HostMessage)
  OBVIOUS
<1> DEFINE Batch == Seq(HostMessage)
<1>2. /\ <<m>> \in Batch /\ <<>> \in Batch
      /\ held \in [Clients -> Seq(Batch)]
  BY <1>1 DEF RestOK
<1> HIDE DEF Batch
<1>3. <<<<m>>>> \in Seq(Batch) /\ << <<>> >> \in Seq(Batch)
  BY <1>2
<1>4. held' \in [Clients -> Seq(Batch)]
  BY <1>2, <1>3 DEF Reply
<1> QED BY <1>4 DEF Batch

LEMMA ReceiveType ==
  ASSUME RestOK, NEW c \in Clients, NEW kind, Receive(c, kind)
  PROVE  /\ Head(up[c]) \in ClientMessage /\ Head(up[c]).t = kind
         /\ up' \in [Clients -> Seq(ClientMessage)]
<1>1. up[c] \in Seq(ClientMessage) /\ up[c] # <<>>
  BY DEF RestOK, Receive
<1>2. Head(up[c]) \in ClientMessage /\ Tail(up[c]) \in Seq(ClientMessage)
  BY <1>1
<1> QED BY <1>2 DEF RestOK, Receive

(* What is left of RestOK once a handler has taken its message and replied. *)
LEMMA HandledRest ==
  ASSUME RestOK, NEW c \in Clients, NEW kind, Receive(c, kind),
         held' \in [Clients -> Seq(Seq(HostMessage))],
         overtaken' \in [Clients -> BOOLEAN]
  PROVE  RestOK'
BY ReceiveType DEF RestOK, Receive

LEMMA TypeHandler ==
  ASSUME TypeOK, NEW c \in Clients, HandleMsg(c)
  PROVE  TypeOK'
<1> USE TypeParts, TypePartsNext
<1>0. SharedOK(Locked) /\ RestOK /\ title \in Nat /\ overtaken \in [Clients -> BOOLEAN]
  BY DEF RestOK
<1>a. \A s : SharedOK(s) => StateOf(s) \in HostMessage
  BY <1>0, MessageTypes DEF StateOf, SharedOK
<1>b. Error \in HostMessage /\ Exited \in HostMessage
  BY MessageTypes
<1>1. CASE HandleAttach(c)
  <2> DEFINE v == Head(up[c]).vote
             s == DoAttach(Locked, c, v)
  <2>1. Receive(c, "Attach") /\ Install(s) /\ Reply(c, <<StateOf(s)>>)
        /\ overtaken' \in [Clients -> BOOLEAN]
    BY <1>0, <1>1 DEF HandleAttach
  <2>2. v \in Nat
    BY <1>0, <2>1, ReceiveType, VoteFields
  <2>3. SharedOK(s)
    BY <1>0, <2>2, OperationsType
  <2> HIDE DEF s
  <2>4. SharedOK(Locked)'
    BY <2>1, <2>3, InstallType
  <2>5. held' \in [Clients -> Seq(Seq(HostMessage))]
    BY <1>0, <1>a, <2>1, <2>3, RepliesType
  <2> QED BY <1>0, <2>1, <2>4, <2>5, HandledRest
<1>2. CASE HandleRequestKeyframe(c)
  <2>1. Receive(c, "RequestKeyframe") /\ overtaken' \in [Clients -> BOOLEAN]
    BY <1>0, <1>2 DEF HandleRequestKeyframe
  <2>2. CASE c \in attached
    <3>1. Install(Rebased(Locked, c)) /\ Reply(c, <<StateOf(Locked)>>)
      BY <1>2, <2>2 DEF HandleRequestKeyframe
    <3>2. SharedOK(Locked)'
      BY <1>0, <3>1, RebasedType, InstallType
    <3>3. held' \in [Clients -> Seq(Seq(HostMessage))]
      BY <1>0, <1>a, <3>1, RepliesType
    <3> QED BY <1>0, <2>1, <3>2, <3>3, HandledRest
  <2>3. CASE c \notin attached
    <3>1. Install(Locked) /\ Reply(c, <<Error>>)
      BY <1>2, <2>3 DEF HandleRequestKeyframe
    <3>2. SharedOK(Locked)'
      BY <1>0, <3>1, InstallType
    <3>3. held' \in [Clients -> Seq(Seq(HostMessage))]
      BY <1>0, <1>b, <3>1, RepliesType
    <3> QED BY <1>0, <2>1, <3>2, <3>3, HandledRest
  <2> QED BY <2>2, <2>3
<1>3. CASE HandleDetach(c)
  <2>1. Receive(c, "Detach") /\ Reply(c, <<>>) /\ overtaken' \in [Clients -> BOOLEAN]
    BY <1>0, <1>3 DEF HandleDetach
  <2>2. SharedOK(IF c \in attached THEN DoDetach(Locked, c) ELSE Locked)
    BY <1>0, OperationsType
  <2>3. SharedOK(Locked)'
    BY <1>3, <2>2, InstallType DEF HandleDetach
  <2>4. held' \in [Clients -> Seq(Seq(HostMessage))]
    BY <1>0, <1>b, <2>1, RepliesType
  <2> QED BY <1>0, <2>1, <2>3, <2>4, HandledRest
<1>4. CASE HandleResize(c)
  <2>1. Receive(c, "Resize") /\ Reply(c, <<>>) /\ overtaken' \in [Clients -> BOOLEAN]
    BY <1>0, <1>4 DEF HandleResize
  <2>2. Head(up[c]).vote \in Nat
    BY <1>0, <2>1, ReceiveType, VoteFields
  <2>3. SharedOK(IF c \in attached THEN DoResize(Locked, c, Head(up[c]).vote) ELSE Locked)
    BY <1>0, <2>2, OperationsType
  <2>4. SharedOK(Locked)'
    BY <1>4, <2>3, InstallType DEF HandleResize
  <2>5. held' \in [Clients -> Seq(Seq(HostMessage))]
    BY <1>0, <1>b, <2>1, RepliesType
  <2> QED BY <1>0, <2>1, <2>4, <2>5, HandledRest
<1>5. CASE HandleAck(c)
  <2>1. Receive(c, "Ack") /\ Reply(c, <<>>) /\ overtaken' \in [Clients -> BOOLEAN]
    BY <1>0, <1>5 DEF HandleAck
  <2>2. Head(up[c]).seq \in Nat
    BY <1>0, <2>1, ReceiveType, VoteFields
  <2>3. SharedOK(IF c \in attached THEN DoAck(Locked, c, Head(up[c]).seq) ELSE Locked)
    BY <1>0, <2>2, OperationsType
  <2>4. SharedOK(Locked)'
    BY <1>5, <2>3, InstallType DEF HandleAck
  <2>5. held' \in [Clients -> Seq(Seq(HostMessage))]
    BY <1>0, <1>b, <2>1, RepliesType
  <2> QED BY <1>0, <2>1, <2>4, <2>5, HandledRest
<1> QED BY <1>1, <1>2, <1>3, <1>4, <1>5 DEF HandleMsg

(* A connection's writer thread. *)
LEMMA BeginType ==
  ASSUME RestOK, NEW c \in Clients, NEW out \in Seq(HostMessage), Begin(c, out)
  PROVE  pass' \in [Clients -> [on : BOOLEAN, out : Seq(HostMessage),
                                updates : BOOLEAN, ended : BOOLEAN]]
<1>1. recent[c] \in BOOLEAN /\ exited \in BOOLEAN
  BY DEF RestOK
<1>2. [on |-> TRUE, out |-> out, updates |-> ~recent[c], ended |-> exited]
        \in [on : BOOLEAN, out : Seq(HostMessage), updates : BOOLEAN, ended : BOOLEAN]
  BY <1>1
<1> QED BY <1>2 DEF Begin, RestOK

LEMMA QueueParts ==
  ASSUME NEW q \in Seq(Seq(HostMessage)), q # <<>>
  PROVE  Head(q) \in Seq(HostMessage) /\ Tail(q) \in Seq(Seq(HostMessage))
<1> DEFINE Batch == Seq(HostMessage)
<1>1. q \in Seq(Batch)
  OBVIOUS
<1> HIDE DEF Batch
<1>2. Head(q) \in Batch /\ Tail(q) \in Seq(Batch)
  BY <1>1
<1> QED BY <1>2 DEF Batch

LEMMA TypeWriter ==
  ASSUME TypeOK, NEW c \in Clients,
         \/ Enqueue(c) \/ TakeWake(c) \/ TakeOwed(c) \/ FloorElapses(c)
         \/ \E lost \in BOOLEAN : Poll(c, lost)
  PROVE  TypeOK'
<1>0. /\ SharedOK(Locked) /\ RestOK
      /\ queue \in [Clients -> Seq(Seq(HostMessage))]
      /\ subs \in [Clients -> Subscriber]
      /\ queue[c] \in Seq(Seq(HostMessage)) /\ held[c] \in Seq(Seq(HostMessage))
  BY TypeParts DEF SharedOK, Locked, Shared, RestOK
<1> SUFFICES SharedOK(Locked)' /\ RestOK'
  BY TypePartsNext
<1>1. CASE Enqueue(c)
  <2>1. held[c][1] \in Seq(HostMessage)
    <3>1. held[c][1] = Head(held[c])
      BY <1>0, <1>1 DEF Enqueue
    <3> QED BY <1>0, <1>1, <3>1, QueueParts DEF Enqueue
  <2>2. Enqueued(queue[c], held[c][1]) \in Seq(Seq(HostMessage))
    BY <1>0, <2>1, EnqueuedType
  <2>3. queue' \in [Clients -> Seq(Seq(HostMessage))]
    BY <1>0, <1>1, <2>2 DEF Enqueue
  <2>4. SharedOK(Locked)'
    BY <1>0, <1>1, <2>3 DEF Enqueue, SharedOK, Locked, Shared, sessVars
  <2>5. RestOK'
    BY <1>0, <1>1 DEF Enqueue, RestOK, sessVars
  <2> QED BY <2>4, <2>5
<1>2. CASE TakeWake(c)
  <2>1. Head(queue[c]) \in Seq(HostMessage) /\ Tail(queue[c]) \in Seq(Seq(HostMessage))
    BY <1>0, <1>2, QueueParts DEF TakeWake
  <2>2. queue' \in [Clients -> Seq(Seq(HostMessage))]
    BY <1>0, <1>2, <2>1 DEF TakeWake
  <2>3. SharedOK(Locked)'
    BY <1>0, <1>2, <2>2 DEF TakeWake, SharedOK, Locked, Shared, sessVars
  <2>4. pass' \in [Clients -> [on : BOOLEAN, out : Seq(HostMessage),
                               updates : BOOLEAN, ended : BOOLEAN]]
    BY <1>0, <1>2, <2>1, BeginType DEF TakeWake
  <2>5. RestOK'
    BY <1>0, <1>2, <2>4 DEF TakeWake, RestOK, sessVars
  <2> QED BY <2>3, <2>5
<1>3. CASE TakeOwed(c)
  <2>1. SharedOK(Locked)'
    BY <1>0, <1>3 DEF TakeOwed, SharedOK, Locked, Shared, sessVars
  <2>2. pass' \in [Clients -> [on : BOOLEAN, out : Seq(HostMessage),
                               updates : BOOLEAN, ended : BOOLEAN]]
    BY <1>0, <1>3, EmptyReplies, BeginType DEF TakeOwed
  <2>3. RestOK'
    BY <1>0, <1>3, <2>2 DEF TakeOwed, RestOK, sessVars
  <2> QED BY <2>1, <2>3
<1>4. CASE FloorElapses(c)
  <2>1. SharedOK(Locked)'
    BY <1>0, <1>4 DEF FloorElapses, SharedOK, Locked, Shared, sessVars
  <2>2. RestOK'
    BY <1>0, <1>4 DEF FloorElapses, RestOK, sessVars
  <2> QED BY <2>1, <2>2
<1>5. ASSUME NEW lost \in BOOLEAN, Poll(c, lost) PROVE SharedOK(Locked)' /\ RestOK'
  <2> DEFINE polls == c \in attached /\ (pass[c].updates \/ pass[c].ended)
             update == IF polls THEN Polled(c, lost) ELSE <<>>
             bell == IF c \in attached /\ subs[c].bell THEN <<Attention>> ELSE <<>>
             ended == IF Ending(c) THEN <<Exited>> ELSE <<>>
  <2>1. update \in Seq(HostMessage) /\ bell \in Seq(HostMessage) /\ ended \in Seq(HostMessage)
    BY <1>0, PolledType, MessageTypes
  <2>2. pass[c].out \in Seq(HostMessage) /\ down[c] \in Seq(HostMessage)
        /\ pass[c].updates \in BOOLEAN
    BY <1>0 DEF RestOK
  <2>3. down' = [down EXCEPT ![c] = @ \o pass[c].out \o update \o bell \o ended]
    BY <1>5, Zenon DEF Poll
  <2>4. subs' = AfterPoll(c, polls)
    BY <1>5, Zenon DEF Poll
  <2>5. /\ recent' = [recent EXCEPT ![c] = @ \/ (c \in Throttled /\ pass[c].updates /\ update # <<>>)]
        /\ owed' = [owed EXCEPT ![c] = ~pass[c].updates]
        /\ overtaken' \in [Clients -> BOOLEAN]
    <3>1. /\ recent' = [recent EXCEPT ![c] = @ \/ (c \in Throttled /\ pass[c].updates /\ update # <<>>)]
          /\ owed' = [owed EXCEPT ![c] = ~pass[c].updates]
          /\ \E now : overtaken' = [overtaken EXCEPT ![c] = @ \/ (update # <<>> /\ now)]
      BY <1>5, Zenon DEF Poll
    <3>2. overtaken \in [Clients -> BOOLEAN]
      BY <1>0 DEF RestOK
    <3> QED BY <3>1, <3>2
  <2>6. pass' = [pass EXCEPT ![c] = Idle]
        /\ UNCHANGED <<sessVars, attached, queue, held, up, client>>
    BY <1>5, Zenon DEF Poll
  <2> HIDE DEF polls, update, bell, ended
  <2>7. down' \in [Clients -> Seq(HostMessage)]
    BY <1>0, <2>1, <2>2, <2>3 DEF RestOK
  <2>8. subs' \in [Clients -> Subscriber]
    <3>1. Rebased(Locked, c).subs \in [Clients -> Subscriber]
      BY <1>0, RebasedType DEF SharedOK, RestOK
    <3>2. \A sub \in [Clients -> Subscriber] : [sub EXCEPT ![c].bell = FALSE] \in [Clients -> Subscriber]
      BY DEF Subscriber
    <3> QED BY <1>0, <2>4, <3>1, <3>2 DEF AfterPoll
  <2>9. SharedOK(Locked)'
    BY <1>0, <2>6, <2>8 DEF SharedOK, Locked, Shared, sessVars
  <2>10. recent' \in [Clients -> BOOLEAN] /\ owed' \in [Clients -> BOOLEAN]
    BY <1>0, <2>2, <2>5 DEF RestOK
  <2>11. pass' \in [Clients -> [on : BOOLEAN, out : Seq(HostMessage),
                                updates : BOOLEAN, ended : BOOLEAN]]
    BY <1>0, <2>6 DEF RestOK, Idle
  <2>12. RestOK'
    BY <1>0, <2>5, <2>6, <2>7, <2>10, <2>11 DEF RestOK, sessVars
  <2> QED BY <2>9, <2>12
<1> QED BY <1>1, <1>2, <1>3, <1>4, <1>5

(* The clients and their links. *)
LEMMA SendType ==
  ASSUME RestOK, NEW c \in Clients, NEW msgs \in Seq(ClientMessage), Send(c, msgs)
  PROVE  up' \in [Clients -> Seq(ClientMessage)]
BY DEF RestOK, Send

(* What is left of RestOK when a client acts on its own. *)
LEMMA ActedRest ==
  ASSUME RestOK, UNCHANGED <<sessVars, connVars>>,
         up' \in [Clients -> Seq(ClientMessage)], down' \in [Clients -> Seq(HostMessage)],
         client' \in [Clients -> Replica],
         \A c \in Clients : client'[c].ackDue => client'[c].applied # -1
  PROVE  RestOK'
BY DEF RestOK, sessVars, connVars

LEMMA UntouchedShared ==
  ASSUME SharedOK(Locked), UNCHANGED <<sessVars, attached, subs, connVars>>
  PROVE  SharedOK(Locked)'
BY DEF SharedOK, Locked, Shared, sessVars, connVars

(* Counting an operation or changing mode leaves the rest of a replica alone. *)
LEMMA CountedType ==
  ASSUME NEW r \in Replica, NEW mode \in {"off", "attaching", "live", "done", "gone"}
  PROVE  /\ Counted(r, mode) \in Replica /\ Counted(r, mode).ackDue = r.ackDue
         /\ Counted(r, mode).applied = r.applied /\ Counted(r, mode).pic = r.pic
<1>1. PICK n \in Nat : n = r.ops + 1
  BY DEF Replica
<1>2. Counted(r, mode) = [r EXCEPT !.mode = mode, !.ops = n]
  BY <1>1 DEF Counted
<1> QED BY <1>2 DEF Replica

LEMMA NewClientType == NewClient \in Replica /\ ~NewClient.ackDue
BY DEF NewClient, Replica, Blank

LEMMA TypeClient ==
  ASSUME TypeOK, NEW c \in Clients,
         \/ \E v \in Sizes \cup {0} : ClientAttach(c, v)
         \/ ClientDetach(c)
         \/ \E v \in Sizes : ClientResize(c, v)
         \/ ClientAck(c)
  PROVE  TypeOK'
<1> USE TypeParts, TypePartsNext
<1>0. /\ SharedOK(Locked) /\ RestOK /\ client \in [Clients -> Replica] /\ client[c] \in Replica
      /\ down \in [Clients -> Seq(HostMessage)]
      /\ \A d \in Clients : client[d].ackDue => client[d].applied # -1
  BY DEF RestOK
<1>1. ASSUME NEW v \in Sizes \cup {0}, ClientAttach(c, v) PROVE TypeOK'
  <2>1. <<Attach(v)>> \in Seq(ClientMessage)
    BY SizesAssumption, MessageTypes
  <2>2. up' \in [Clients -> Seq(ClientMessage)] /\ SharedOK(Locked)'
    BY <1>0, <1>1, <2>1, SendType, UntouchedShared DEF ClientAttach
  <2>3. /\ client' \in [Clients -> Replica]
        /\ \A d \in Clients : client'[d].ackDue => client'[d].applied # -1
    <3> DEFINE mode == IF client[c].mode = "off" THEN "attaching" ELSE client[c].mode
    <3>1. mode \in {"off", "attaching", "live", "done", "gone"}
      BY <1>0 DEF Replica
    <3>2. client' = [client EXCEPT ![c] = Counted(client[c], mode)]
      BY <1>0, <1>1 DEF ClientAttach
    <3> HIDE DEF mode
    <3> QED BY <1>0, <3>1, <3>2, CountedType
  <2>4. UNCHANGED <<sessVars, connVars, down>>
    BY <1>1 DEF ClientAttach
  <2> QED BY <1>0, <2>2, <2>3, <2>4, ActedRest
<1>2. CASE ClientDetach(c)
  <2>1. <<Detach>> \in Seq(ClientMessage)
    BY MessageTypes
  <2>2. up' \in [Clients -> Seq(ClientMessage)] /\ SharedOK(Locked)'
    BY <1>0, <1>2, <2>1, SendType, UntouchedShared DEF ClientDetach
  <2>3. client[c].ops + 1 \in Nat
    BY <1>0 DEF Replica
  <2>4. /\ client' \in [Clients -> Replica]
        /\ \A d \in Clients : client'[d].ackDue => client'[d].applied # -1
    BY <1>0, <1>2, <2>3, NewClientType DEF ClientDetach, Replica
  <2>5. UNCHANGED <<sessVars, connVars, down>>
    BY <1>2 DEF ClientDetach
  <2> QED BY <1>0, <2>2, <2>4, <2>5, ActedRest
<1>3. ASSUME NEW v \in Sizes, ClientResize(c, v) PROVE TypeOK'
  <2>1. <<Resize(v), RequestKeyframe>> \in Seq(ClientMessage) /\ <<Resize(v)>> \in Seq(ClientMessage)
    BY SizesAssumption, MessageTypes
  <2>2. up' \in [Clients -> Seq(ClientMessage)] /\ SharedOK(Locked)'
    BY <1>0, <1>3, <2>1, SendType, UntouchedShared DEF ClientResize
  <2>3. /\ client' \in [Clients -> Replica]
        /\ \A d \in Clients : client'[d].ackDue => client'[d].applied # -1
    <3>1. PICK n \in Nat : n = client[c].ops + 1
      BY <1>0 DEF Replica
    <3>2. client' = [client EXCEPT ![c] = [client[c] EXCEPT !.ops = n]]
      BY <1>3, <3>1 DEF ClientResize
    <3>3. LET q == [client[c] EXCEPT !.ops = n]
          IN q \in Replica /\ q.ackDue = client[c].ackDue /\ q.applied = client[c].applied
      BY <1>0 DEF Replica
    <3> QED BY <1>0, <3>2, <3>3
  <2>4. UNCHANGED <<sessVars, connVars, down>>
    BY <1>3 DEF ClientResize
  <2> QED BY <1>0, <2>2, <2>3, <2>4, ActedRest
<1>4. CASE ClientAck(c)
  <2>1. client[c].applied \in Nat
    BY <1>0, <1>4 DEF ClientAck, Replica
  <2>2. <<Ack(client[c].applied)>> \in Seq(ClientMessage)
    BY <2>1, MessageTypes
  <2>3. up' \in [Clients -> Seq(ClientMessage)] /\ SharedOK(Locked)'
    BY <1>0, <1>4, <2>2, SendType, UntouchedShared DEF ClientAck
  <2>4. /\ client' \in [Clients -> Replica]
        /\ \A d \in Clients : client'[d].ackDue => client'[d].applied # -1
    BY <1>0, <1>4 DEF ClientAck, Replica
  <2>5. UNCHANGED <<sessVars, connVars, down>>
    BY <1>4 DEF ClientAck
  <2> QED BY <1>0, <2>3, <2>4, <2>5, ActedRest
<1> QED BY <1>1, <1>2, <1>3, <1>4

(* What a client may become on one message from the host. *)
LEMMA RecvCases ==
  ASSUME RestOK, NEW c \in Clients, ClientRecv(c)
  PROVE  LET r == client[c]
             m == Head(down[c])
         IN /\ m \in HostMessage /\ Tail(down[c]) \in Seq(HostMessage)
            /\ down[c] # <<>> /\ r \in Replica
            /\ \/ client' = client
               \/ m.t = "Keyframe" /\ client' = [client EXCEPT ![c] = Adopt(r, m)]
               \/ m.t = "Update" /\ client' = [client EXCEPT ![c].awaiting = TRUE]
               \/ /\ m.t = "Update" /\ ~Stale(r, m) /\ m.rows > r.pic.rows
                  /\ client' = [client EXCEPT ![c] = Torn(r, m)]
               \/ /\ m.t = "Update" /\ ~Stale(r, m)
                  /\ client' = [client EXCEPT ![c] = Applied(r, m)]
               \/ client' = [client EXCEPT ![c].mode = "done"]
            /\ \/ up' = up \/ Send(c, <<>>) \/ Send(c, <<RequestKeyframe>>)
<1> DEFINE r == client[c]
           m == Head(down[c])
<1>1. down[c] # <<>> /\ down[c] \in Seq(HostMessage) /\ r \in Replica
      /\ client \in [Clients -> Replica]
  BY DEF ClientRecv, RestOK
<1>2. m \in HostMessage /\ Tail(down[c]) \in Seq(HostMessage)
  BY <1>1
<1>3. CASE RecvKeyframe(c)
  <2>1. m.t = "Keyframe" /\ up' = up
        /\ client' = [client EXCEPT ![c] = IF r.mode = "off" THEN r ELSE Adopt(r, m)]
    BY <1>3 DEF RecvKeyframe
  <2>2. client' = client \/ client' = [client EXCEPT ![c] = Adopt(r, m)]
    BY <1>1, <2>1
  <2> QED BY <1>1, <1>2, <2>1, <2>2
<1>4. CASE RecvUpdate(c)
  <2>1. m.t = "Update"
    BY <1>4 DEF RecvUpdate
  <2>2. \/ client' = client
        \/ client' = [client EXCEPT ![c].awaiting = TRUE]
        \/ /\ ~Stale(r, m) /\ m.rows > r.pic.rows
           /\ client' = [client EXCEPT ![c] = Torn(r, m)]
        \/ ~Stale(r, m) /\ client' = [client EXCEPT ![c] = Applied(r, m)]
    <3>1. ASSUME ~Stale(r, m), m.rows > r.pic.rows, Kind[c] # "web",
                 client' = [client EXCEPT ![c] = IF Stale(r, m) THEN @ ELSE Torn(@, m)]
          PROVE  client' = [client EXCEPT ![c] = Torn(r, m)]
      BY <1>1, <3>1
    <3>2. ASSUME Stale(r, m),
                 client' = [client EXCEPT ![c] = IF Stale(r, m) THEN @ ELSE Torn(@, m)]
          PROVE  client' = client
      BY <1>1, <3>2
    <3> QED BY <1>4, <1>1, <3>1, <3>2 DEF RecvUpdate
  <2>3. up' = up \/ Send(c, <<>>) \/ Send(c, <<RequestKeyframe>>)
    BY <1>4 DEF RecvUpdate
  <2> QED BY <1>1, <1>2, <2>1, <2>2, <2>3
<1>5. CASE RecvOther(c)
  <2>1. client' = client \/ client' = [client EXCEPT ![c].mode = "done"]
    <3>1. client = [client EXCEPT ![c].mode = @]
      BY <1>1 DEF Replica
    <3>2. \/ client' = [client EXCEPT ![c].mode = "done"]
          \/ client' = [client EXCEPT ![c].mode = @]
      BY <1>5, Zenon DEF RecvOther
    <3> QED BY <3>1, <3>2
  <2>2. up' = up
    BY <1>5 DEF RecvOther
  <2> QED BY <1>1, <1>2, <2>1, <2>2
<1> QED BY <1>3, <1>4, <1>5 DEF ClientRecv

LEMMA TypeRecv ==
  ASSUME TypeOK, NEW c \in Clients, ClientRecv(c)
  PROVE  TypeOK'
<1> USE TypeParts, TypePartsNext
<1> DEFINE r == client[c]
           m == Head(down[c])
<1>0. /\ SharedOK(Locked) /\ RestOK /\ client \in [Clients -> Replica]
      /\ \A d \in Clients : client[d].ackDue => client[d].applied # -1
      /\ up \in [Clients -> Seq(ClientMessage)] /\ down \in [Clients -> Seq(HostMessage)]
  BY DEF RestOK
<1>1. /\ m \in HostMessage /\ Tail(down[c]) \in Seq(HostMessage)
      /\ down[c] # <<>> /\ r \in Replica
  BY <1>0, RecvCases
<1>2. /\ \/ client' = client
         \/ m.t = "Keyframe" /\ client' = [client EXCEPT ![c] = Adopt(r, m)]
         \/ client' = [client EXCEPT ![c].awaiting = TRUE]
         \/ client' = [client EXCEPT ![c] = Torn(r, m)]
         \/ m.t = "Update" /\ client' = [client EXCEPT ![c] = Applied(r, m)]
         \/ client' = [client EXCEPT ![c].mode = "done"]
      /\ up' = up \/ Send(c, <<>>) \/ Send(c, <<RequestKeyframe>>)
  BY <1>0, RecvCases
<1>3. up' \in [Clients -> Seq(ClientMessage)]
  <2>1. <<>> \in Seq(ClientMessage) /\ <<RequestKeyframe>> \in Seq(ClientMessage)
    BY MessageTypes
  <2> QED BY <1>0, <1>2, <2>1, SendType
<1>4. down' \in [Clients -> Seq(HostMessage)]
  BY <1>0, <1>1 DEF ClientRecv
<1>5. /\ client' \in [Clients -> Replica]
      /\ \A d \in Clients : client'[d].ackDue => client'[d].applied # -1
  <2>1. CASE client' = client
    BY <1>0, <2>1
  <2>2. CASE m.t = "Keyframe" /\ client' = [client EXCEPT ![c] = Adopt(r, m)]
    BY <1>0, <1>1, <2>2, AdoptType
  <2>3. CASE client' = [client EXCEPT ![c].awaiting = TRUE]
    <3>1. /\ [r EXCEPT !.awaiting = TRUE] \in Replica
          /\ [r EXCEPT !.awaiting = TRUE].ackDue = r.ackDue
          /\ [r EXCEPT !.awaiting = TRUE].applied = r.applied
      BY <1>1 DEF Replica
    <3>2. client' = [client EXCEPT ![c] = [r EXCEPT !.awaiting = TRUE]]
      BY <1>0, <2>3
    <3> QED BY <1>0, <3>1, <3>2
  <2>4. CASE client' = [client EXCEPT ![c] = Torn(r, m)]
    BY <1>0, <1>1, <2>4, TornType
  <2>5. CASE m.t = "Update" /\ client' = [client EXCEPT ![c] = Applied(r, m)]
    BY <1>0, <1>1, <2>5, AppliedType
  <2>6. CASE client' = [client EXCEPT ![c].mode = "done"]
    <3>1. /\ [r EXCEPT !.mode = "done"] \in Replica
          /\ [r EXCEPT !.mode = "done"].ackDue = r.ackDue
          /\ [r EXCEPT !.mode = "done"].applied = r.applied
      BY <1>1 DEF Replica
    <3>2. client' = [client EXCEPT ![c] = [r EXCEPT !.mode = "done"]]
      BY <1>0, <2>6
    <3> QED BY <1>0, <3>1, <3>2
  <2> QED BY <1>2, <2>1, <2>2, <2>3, <2>4, <2>5, <2>6
<1>6. UNCHANGED <<sessVars, attached, subs, connVars>>
  BY DEF ClientRecv
<1> QED BY <1>0, <1>3, <1>4, <1>5, <1>6, ActedRest, UntouchedShared

LEMMA TypeLinkDown ==
  ASSUME TypeOK, NEW c \in Clients, LinkDown(c)
  PROVE  TypeOK'
<1> USE TypeParts, TypePartsNext
<1> DEFINE s == IF c \in attached THEN DoDetach(Locked, c) ELSE Locked
<1>0. /\ SharedOK(Locked) /\ RestOK /\ client \in [Clients -> Replica] /\ client[c] \in Replica
      /\ \A d \in Clients : client[d].ackDue => client[d].applied # -1
  BY DEF RestOK
<1>1. SharedOK(s)
  BY <1>0, OperationsType DEF RestOK
<1>2. /\ term' = s.term /\ log' = s.log /\ attached' = s.attached /\ subs' = s.subs
      /\ queue' = [s.queue EXCEPT ![c] = <<>>]
  BY DEF LinkDown
<1> HIDE DEF s
<1>3. SharedOK(Locked)'
  BY <1>1, <1>2 DEF SharedOK, Locked, Shared
<1>4. /\ client' \in [Clients -> Replica]
      /\ \A d \in Clients : client'[d].ackDue => client'[d].applied # -1
  <2>1. /\ [client[c] EXCEPT !.mode = "gone"] \in Replica
        /\ [client[c] EXCEPT !.mode = "gone"].ackDue = client[c].ackDue
        /\ [client[c] EXCEPT !.mode = "gone"].applied = client[c].applied
    BY <1>0 DEF Replica
  <2>2. /\ [NewClient EXCEPT !.ops = client[c].ops + 1] \in Replica
        /\ ~[NewClient EXCEPT !.ops = client[c].ops + 1].ackDue
    BY <1>0, NewClientType DEF Replica
  <2>3. /\ Counted(client[c], "off") \in Replica
        /\ Counted(client[c], "off").ackDue = client[c].ackDue
        /\ Counted(client[c], "off").applied = client[c].applied
    BY <1>0, CountedType
  <2>4. \/ client' = [client EXCEPT ![c] = [client[c] EXCEPT !.mode = "gone"]]
        \/ client' = [client EXCEPT ![c] = [NewClient EXCEPT !.ops = client[c].ops + 1]]
        \/ client' = [client EXCEPT ![c] = Counted(client[c], "off")]
    BY DEF LinkDown
  <2> QED BY <1>0, <2>1, <2>2, <2>3, <2>4
<1>5. /\ held' \in [Clients -> Seq(Seq(HostMessage))]
      /\ pass' \in [Clients -> [on : BOOLEAN, out : Seq(HostMessage),
                                updates : BOOLEAN, ended : BOOLEAN]]
      /\ recent' \in [Clients -> BOOLEAN] /\ owed' \in [Clients -> BOOLEAN]
      /\ overtaken' \in [Clients -> BOOLEAN]
  BY <1>0 DEF LinkDown, RestOK, Idle
<1>6. /\ up' \in [Clients -> Seq(ClientMessage)] /\ down' \in [Clients -> Seq(HostMessage)]
      /\ UNCHANGED <<title, reader, exited>>
  BY <1>0 DEF LinkDown, RestOK
<1>7. RestOK'
  BY <1>0, <1>4, <1>5, <1>6 DEF RestOK
<1> QED BY <1>3, <1>7

LEMMA TypeNext == TypeOK /\ [Next]_vars => TypeOK'
<1> SUFFICES ASSUME TypeOK, [Next]_vars PROVE TypeOK'
  OBVIOUS
<1>1. CASE UNCHANGED vars
  BY <1>1 DEF vars, TypeOK, SharedOK, Locked, Shared
<1>2. CASE Next
  <2>1. CASE \/ \E n \in 0..MaxBurst, visible \in BOOLEAN, ev \in SUBSET Happenings :
                  ReaderParse(n, visible, ev)
             \/ ReaderStamp \/ DispatchTitle \/ KeyframeEveryone \/ TellEveryone \/ ReaderWake
             \/ ReaderEof
    BY <2>1, TypeReader
  <2>2. ASSUME NEW c \in Clients, HandleMsg(c) PROVE TypeOK'
    BY <2>2, TypeHandler
  <2>3. ASSUME NEW c \in Clients,
               \/ Enqueue(c) \/ TakeWake(c) \/ TakeOwed(c) \/ FloorElapses(c)
               \/ \E lost \in BOOLEAN : Poll(c, lost)
        PROVE  TypeOK'
    BY <2>3, TypeWriter
  <2>4. ASSUME NEW c \in Clients,
               \/ \E v \in Sizes \cup {0} : ClientAttach(c, v)
               \/ ClientDetach(c)
               \/ \E v \in Sizes : ClientResize(c, v)
               \/ ClientAck(c)
        PROVE  TypeOK'
    BY <2>4, TypeClient
  <2>5. ASSUME NEW c \in Clients, ClientRecv(c) PROVE TypeOK'
    BY <2>5, TypeRecv
  <2>6. ASSUME NEW c \in Clients, LinkDown(c) PROVE TypeOK'
    BY <2>6, TypeLinkDown
  <2> QED BY <1>2, <2>1, <2>2, <2>3, <2>4, <2>5, <2>6 DEF Next, HandleMsg
<1> QED BY <1>1, <1>2

(* In every reachable state of any instance every variable keeps its type, and
   no client acknowledges a sequence it never applied. *)
THEOREM TypeCorrect == Spec => []TypeOK
<1>1. Init => TypeOK
  BY TypeInit
<1>2. TypeOK /\ [Next]_vars => TypeOK'
  BY TypeNext
<1> QED BY <1>1, <1>2, PTL DEF Spec
-----------------------------------------------------------------------------
(* No wakeup is lost and no bell waits, and the session is always as large as
   its smallest voter. *)

(* Whatever one client waits for, someone is still going to look. *)
Answered(c) ==
  /\ Behind(c) => WakePending(c) \/ owed[c]
  /\ subs[c].bell => WakePending(c)

WakeInv == \A c \in attached : Answered(c)

LEMMA WakeParts == WakeInv <=> NoLostWakeup /\ BellNeverWaits
BY DEF WakeInv, Answered, NoLostWakeup, BellNeverWaits

LEMMA Roused ==
  ASSUME NEW c \in Clients, WakePending(c)'
  PROVE  Answered(c)'
BY DEF Answered

LEMMA Unmoved ==
  ASSUME NEW c \in Clients, Answered(c),
         subs'[c] = subs[c], term'.seq = term.seq, queue'[c] = queue[c], held'[c] = held[c],
         pass'[c] = pass[c], owed'[c] = owed[c], reader' = reader
  PROVE  Answered(c)'
BY DEF Answered, Behind, WakePending

(* An operation on the subscriber map either leaves a bystander alone or wakes
   it, and never takes a wake away. *)
Bystander(s, t, d) ==
  \/ t.queue[d] # <<>>
  \/ t.queue[d] = s.queue[d] /\ t.subs[d] = s.subs[d] /\ t.term.seq = s.term.seq

LEMMA ReconcileWakes ==
  ASSUME NEW s, SharedOK(s), NEW exempt, NEW d \in Clients, d \in s.attached \ exempt
  PROVE  Bystander(s, Reconcile(s, exempt), d)
<1>1. CASE Votes(s) = {} \/ Smallest(Votes(s)) = s.term.pic.rows
  BY <1>1 DEF Reconcile, Bystander
<1>2. CASE ~(Votes(s) = {} \/ Smallest(Votes(s)) = s.term.pic.rows)
  <2>1. Reconcile(s, exempt).queue = WakeAll(s.queue, s.attached \ exempt)
    BY <1>2 DEF Reconcile, Shared
  <2>2. WakeAll(s.queue, s.attached \ exempt)[d] # <<>>
    BY WakeAllType DEF SharedOK
  <2> QED BY <2>1, <2>2 DEF Bystander
<1> QED BY <1>1, <1>2

LEMMA ReconcileAttached ==
  ASSUME NEW s, NEW exempt
  PROVE  Reconcile(s, exempt).attached = s.attached
BY DEF Reconcile, Shared

LEMMA DetachWakes ==
  ASSUME NEW s, SharedOK(s), NEW c \in Clients, NEW d \in Clients \ {c}, d \in s.attached
  PROVE  Bystander(s, DoDetach(s, c), d) /\ d \in DoDetach(s, c).attached
<1>1. SharedOK(Without(s, c)) /\ d \in Without(s, c).attached
  BY WithoutType DEF Without, Shared
<1>2. Bystander(Without(s, c), DoDetach(s, c), d)
  BY <1>1, ReconcileWakes DEF DoDetach
<1>3. /\ Without(s, c).queue = s.queue /\ Without(s, c).term = s.term
      /\ Without(s, c).subs[d] = s.subs[d]
  BY DEF Without, Shared, SharedOK
<1> QED BY <1>1, <1>2, <1>3, ReconcileAttached DEF DoDetach, Bystander

LEMMA AttachWakes ==
  ASSUME NEW s, SharedOK(s), NEW c \in Clients, NEW v \in Nat, title \in Nat,
         NEW d \in Clients \ {c}, d \in s.attached
  PROVE  Bystander(s, DoAttach(s, c, v), d)
<1> DEFINE freed == IF c \in s.attached THEN DoDetach(s, c) ELSE s
           grown == With(freed, c, v)
           fitted == Reconcile(grown, {c})
<1>1. SharedOK(freed) /\ d \in freed.attached /\ Bystander(s, freed, d)
  BY DetachWakes, OperationsType DEF Bystander
<1> HIDE DEF freed
<1>2. SharedOK(grown) /\ d \in grown.attached
  BY <1>1, WithType DEF With, Shared
<1>3. /\ grown.queue = freed.queue /\ grown.term = freed.term
      /\ grown.subs[d] = freed.subs[d]
  BY <1>1 DEF With, Shared, SharedOK
<1> HIDE DEF grown
<1>4. Bystander(grown, fitted, d) /\ SharedOK(fitted)
  BY <1>2, ReconcileWakes, ReconcileType
<1> HIDE DEF fitted
<1>5. /\ Rebased(fitted, c).queue = fitted.queue /\ Rebased(fitted, c).term = fitted.term
      /\ Rebased(fitted, c).subs[d] = fitted.subs[d]
  BY <1>4 DEF Rebased, Shared, SharedOK
<1>6. DoAttach(s, c, v) = Rebased(fitted, c)
  BY DEF DoAttach, freed, grown, fitted
<1> QED BY <1>1, <1>3, <1>4, <1>5, <1>6 DEF Bystander

LEMMA ResizeWakes ==
  ASSUME NEW s, SharedOK(s), NEW c \in Clients, NEW v \in Nat,
         NEW d \in Clients \ {c}, d \in s.attached
  PROVE  Bystander(s, DoResize(s, c, v), d)
<1>1. SharedOK(Voted(s, c, v)) /\ d \in Voted(s, c, v).attached
  BY VotedType DEF Voted, Shared
<1>2. Bystander(Voted(s, c, v), DoResize(s, c, v), d)
  BY <1>1, ReconcileWakes DEF DoResize
<1>3. /\ Voted(s, c, v).queue = s.queue /\ Voted(s, c, v).term = s.term
      /\ Voted(s, c, v).subs[d] = s.subs[d]
  BY DEF Voted, Shared, SharedOK
<1> QED BY <1>2, <1>3 DEF Bystander

LEMMA AckWakes ==
  ASSUME NEW s, SharedOK(s), NEW c \in Clients, NEW q, NEW d \in Clients \ {c}
  PROVE  Bystander(s, DoAck(s, c, q), d)
BY DEF DoAck, Owing, Shared, Bystander, SharedOK

(* A handler wakes its own client by replying to it. *)
LEMMA HandledWakes ==
  ASSUME TypeOK, WakeInv, NEW c \in Clients, NEW kind, Receive(c, kind),
         NEW s, Install(s), s.attached \subseteq attached \cup {c},
         NEW replies, Reply(c, replies),
         \A d \in attached \ {c} : Bystander(Locked, s, d)
  PROVE  WakeInv'
<1> SUFFICES ASSUME NEW d \in attached' PROVE Answered(d)'
  BY DEF WakeInv
<1>0. attached \subseteq Clients /\ held \in [Clients -> Seq(Seq(HostMessage))]
  BY DEF TypeOK, SharedOK, Locked, Shared
<1>1. CASE d = c
  <2>1. held'[c] = <<replies>>
    BY <1>0 DEF Reply
  <2>2. WakePending(c)'
    BY <2>1 DEF WakePending
  <2> QED BY <1>1, <2>2, Roused
<1>2. CASE d # c
  <2>1. d \in attached \ {c} /\ d \in Clients /\ Answered(d)
    BY <1>0, <1>2 DEF Install, WakeInv
  <2>2. Bystander(Locked, s, d)
    BY <2>1
  <2>3. /\ queue' = s.queue /\ subs' = s.subs /\ term' = s.term
        /\ UNCHANGED <<reader, pass, owed>> /\ held'[d] = held[d]
    BY <1>0, <1>2, <2>1 DEF Install, Receive, Reply
  <2>4. CASE queue'[d] # <<>>
    <3>1. WakePending(d)'
      BY <2>4 DEF WakePending
    <3> QED BY <2>1, <3>1, Roused
  <2>5. CASE queue'[d] = <<>>
    <3>1. queue'[d] = queue[d] /\ subs'[d] = subs[d] /\ term'.seq = term.seq
      BY <2>2, <2>3, <2>5 DEF Bystander, Locked, Shared
    <3> QED BY <2>1, <2>3, <3>1, Unmoved
  <2> QED BY <2>4, <2>5
<1> QED BY <1>1, <1>2

LEMMA Detached ==
  ASSUME NEW s, NEW c
  PROVE  DoDetach(s, c).attached = s.attached \ {c}
BY ReconcileAttached DEF DoDetach, Without, Shared

LEMMA Attached ==
  ASSUME NEW s, NEW c, NEW v
  PROVE  DoAttach(s, c, v).attached = s.attached \cup {c}
<1> DEFINE freed == IF c \in s.attached THEN DoDetach(s, c) ELSE s
<1>1. freed.attached \cup {c} = s.attached \cup {c}
  BY Detached
<1> HIDE DEF freed
<1>2. Reconcile(With(freed, c, v), {c}).attached = s.attached \cup {c}
  BY <1>1, ReconcileAttached DEF With, Shared
<1> QED BY <1>2 DEF DoAttach, Rebased, Shared, freed

LEMMA Resettled ==
  ASSUME NEW s, NEW c, NEW v
  PROVE  DoResize(s, c, v).attached = s.attached /\ DoAck(s, c, v).attached = s.attached
BY ReconcileAttached DEF DoResize, Voted, DoAck, Shared

LEMMA WakeHandler ==
  ASSUME TypeOK, WakeInv, NEW c \in Clients, HandleMsg(c)
  PROVE  WakeInv'
<1>0. SharedOK(Locked) /\ RestOK /\ title \in Nat /\ attached \subseteq Clients
      /\ Locked.attached = attached
  BY DEF TypeOK, RestOK, SharedOK, Locked, Shared
<1>a. \A d \in Clients : Bystander(Locked, Locked, d)
  BY DEF Bystander
<1>b. \A d \in attached \ {c} : Bystander(Locked, DoDetach(Locked, c), d)
  BY <1>0, DetachWakes
<1>1. CASE HandleAttach(c)
  <2> DEFINE v == Head(up[c]).vote
  <2>1. Receive(c, "Attach") /\ Install(DoAttach(Locked, c, v))
        /\ Reply(c, <<StateOf(DoAttach(Locked, c, v))>>)
    BY <1>1 DEF HandleAttach
  <2>2. v \in Nat
    BY <1>0, <2>1, ReceiveType, VoteFields
  <2> HIDE DEF v
  <2>3. \A d \in attached \ {c} : Bystander(Locked, DoAttach(Locked, c, v), d)
    BY <1>0, <2>2, AttachWakes
  <2>4. DoAttach(Locked, c, v).attached = attached \cup {c}
    BY <1>0, Attached
  <2> QED BY <2>1, <2>3, <2>4, HandledWakes
<1>2. CASE HandleRequestKeyframe(c)
  <2> DEFINE s == IF c \in attached THEN Rebased(Locked, c) ELSE Locked
  <2>1. Receive(c, "RequestKeyframe") /\ Install(s) /\ \E replies : Reply(c, replies)
    BY <1>2 DEF HandleRequestKeyframe
  <2>2. \A d \in attached \ {c} : Bystander(Locked, s, d)
    BY <1>0 DEF Rebased, Shared, Bystander, SharedOK
  <2>3. s.attached = attached
    BY <1>0 DEF Rebased, Shared
  <2> HIDE DEF s
  <2> QED BY <2>1, <2>2, <2>3, HandledWakes
<1>3. CASE HandleDetach(c)
  <2> DEFINE s == IF c \in attached THEN DoDetach(Locked, c) ELSE Locked
  <2>1. Receive(c, "Detach") /\ Install(s) /\ Reply(c, <<>>)
    BY <1>3 DEF HandleDetach
  <2>2. \A d \in attached \ {c} : Bystander(Locked, s, d)
    BY <1>0, <1>a, <1>b
  <2>3. s.attached \subseteq attached
    BY <1>0, Detached
  <2> HIDE DEF s
  <2> QED BY <2>1, <2>2, <2>3, HandledWakes
<1>4. CASE HandleResize(c)
  <2> DEFINE v == Head(up[c]).vote
             s == IF c \in attached THEN DoResize(Locked, c, v) ELSE Locked
  <2>1. Receive(c, "Resize") /\ Install(s) /\ Reply(c, <<>>)
    BY <1>4 DEF HandleResize
  <2>2. v \in Nat
    BY <1>0, <2>1, ReceiveType, VoteFields
  <2>3. \A d \in attached \ {c} : Bystander(Locked, s, d)
    BY <1>0, <1>a, <2>2, ResizeWakes
  <2>4. s.attached \subseteq attached
    BY <1>0, Resettled
  <2> HIDE DEF s
  <2> QED BY <2>1, <2>3, <2>4, HandledWakes
<1>5. CASE HandleAck(c)
  <2> DEFINE s == IF c \in attached THEN DoAck(Locked, c, Head(up[c]).seq) ELSE Locked
  <2>1. Receive(c, "Ack") /\ Install(s) /\ Reply(c, <<>>)
    BY <1>5 DEF HandleAck
  <2>2. \A d \in attached \ {c} : Bystander(Locked, s, d)
    BY <1>0, <1>a, AckWakes
  <2>3. s.attached \subseteq attached
    BY <1>0, Resettled
  <2> HIDE DEF s
  <2> QED BY <2>1, <2>2, <2>3, HandledWakes
<1> QED BY <1>1, <1>2, <1>3, <1>4, <1>5 DEF HandleMsg

(* A step of the session's reader leaves it with a wake to send, or sends it. *)
LEMMA WakeReader ==
  ASSUME TypeOK, WakeInv,
         \/ \E n \in 0..MaxBurst, visible \in BOOLEAN, ev \in SUBSET Happenings :
              ReaderParse(n, visible, ev)
         \/ ReaderStamp \/ DispatchTitle \/ KeyframeEveryone \/ TellEveryone \/ ReaderWake
         \/ ReaderEof
  PROVE  WakeInv'
<1>0. /\ attached \subseteq Clients /\ queue \in [Clients -> Seq(Seq(HostMessage))]
      /\ reader \in [pc : {"reading", "parsed", "eof", "done"}, ev : SUBSET AllHappenings]
  BY DEF TypeOK, SharedOK, Locked, Shared
<1> SUFFICES ASSUME NEW d \in attached' PROVE WakePending(d)'
  <2>1. attached' = attached
    BY DEF ReaderParse, ReaderStamp, DispatchTitle, KeyframeEveryone, TellEveryone, ReaderWake,
           ReaderEof
  <2> QED BY <1>0, <2>1, Roused DEF WakeInv
<1>1. CASE ReaderWake
  <2>1. attached' = attached /\ queue' = WakeAll(queue, attached)
    BY <1>1 DEF ReaderWake
  <2>2. queue'[d] # <<>>
    BY <1>0, <2>1, WakeAllType
  <2> QED BY <2>2 DEF WakePending
<1>2. CASE ~ReaderWake
  <2>1. CASE \E n \in 0..MaxBurst, visible \in BOOLEAN, ev \in SUBSET Happenings :
               ReaderParse(n, visible, ev)
    BY <2>1 DEF ReaderParse, WakePending
  <2>2. CASE ReaderStamp
    BY <1>0, <2>2 DEF ReaderStamp, WakePending
  <2>3. CASE DispatchTitle
    BY <1>0, <2>3 DEF DispatchTitle, WakePending
  <2>4. CASE KeyframeEveryone
    BY <1>0, <2>4 DEF KeyframeEveryone, WakePending
  <2>5. CASE TellEveryone
    BY <1>0, <2>5 DEF TellEveryone, WakePending
  <2>6. CASE ReaderEof
    BY <1>0, <2>6 DEF ReaderEof, WakePending
  <2> QED BY <1>2, <2>1, <2>2, <2>3, <2>4, <2>5, <2>6
<1> QED BY <1>1, <1>2

(* A pass that skips what the floor forbids owes a timer; any other leaves its
   client with nothing to wait for. *)
LEMMA WakeWriter ==
  ASSUME TypeOK, WakeInv, NEW c \in Clients,
         \/ Enqueue(c) \/ TakeWake(c) \/ TakeOwed(c) \/ FloorElapses(c)
         \/ \E lost \in BOOLEAN : Poll(c, lost)
  PROVE  WakeInv'
<1>0. /\ attached \subseteq Clients /\ queue \in [Clients -> Seq(Seq(HostMessage))]
      /\ held \in [Clients -> Seq(Seq(HostMessage))]
      /\ pass \in [Clients -> [on : BOOLEAN, out : Seq(HostMessage),
                               updates : BOOLEAN, ended : BOOLEAN]]
      /\ owed \in [Clients -> BOOLEAN] /\ subs \in [Clients -> Subscriber]
      /\ recent \in [Clients -> BOOLEAN]
  BY DEF TypeOK, SharedOK, Locked, Shared
<1>1. attached' = attached /\ reader' = reader /\ term' = term
  BY DEF Enqueue, TakeWake, TakeOwed, FloorElapses, Poll, sessVars
<1> SUFFICES ASSUME NEW d \in attached PROVE Answered(d)'
  BY <1>1 DEF WakeInv
<1>2. d \in Clients /\ Answered(d)
  BY <1>0 DEF WakeInv
<1>3. CASE Enqueue(c)
  <2>1. CASE d = c
    <3>1. queue'[c] = Enqueued(queue[c], held[c][1])
      BY <1>0, <1>3 DEF Enqueue
    <3>2. held[c][1] \in Seq(HostMessage)
      <4>1. held[c] \in Seq(Seq(HostMessage)) /\ held[c] # <<>>
        BY <1>0, <1>3 DEF Enqueue
      <4>2. held[c][1] = Head(held[c])
        BY <4>1
      <4> QED BY <4>1, <4>2, QueueParts
    <3>3. queue'[c] # <<>>
      BY <1>0, <3>1, <3>2, EnqueuedType
    <3>4. WakePending(c)'
      BY <3>3 DEF WakePending
    <3> QED BY <2>1, <3>4, Roused
  <2>2. CASE d # c
    <3>1. /\ UNCHANGED <<subs, pass, owed>>
          /\ queue'[d] = queue[d] /\ held'[d] = held[d]
      BY <1>0, <1>2, <1>3, <2>2 DEF Enqueue
    <3> QED BY <1>1, <1>2, <3>1, Unmoved
  <2> QED BY <2>1, <2>2
<1>4. CASE TakeWake(c) \/ TakeOwed(c)
  <2>1. CASE d = c
    <3>1. pass'[c].on
      BY <1>0, <1>4 DEF TakeWake, TakeOwed, Begin
    <3>2. WakePending(c)'
      BY <3>1 DEF WakePending
    <3> QED BY <2>1, <3>2, Roused
  <2>2. CASE d # c
    <3>1. /\ UNCHANGED <<subs, held, owed>>
          /\ queue'[d] = queue[d] /\ pass'[d] = pass[d]
      BY <1>0, <1>2, <1>4, <2>2 DEF TakeWake, TakeOwed, Begin
    <3> QED BY <1>1, <1>2, <3>1, Unmoved
  <2> QED BY <2>1, <2>2
<1>5. CASE FloorElapses(c)
  <2>1. UNCHANGED <<subs, queue, held, pass, owed>>
    BY <1>5 DEF FloorElapses
  <2> QED BY <1>1, <1>2, <2>1, Unmoved
<1>6. ASSUME NEW lost \in BOOLEAN, Poll(c, lost) PROVE Answered(d)'
  <2> DEFINE polls == c \in attached /\ (pass[c].updates \/ pass[c].ended)
  <2>1. /\ subs' = AfterPoll(c, polls) /\ owed' = [owed EXCEPT ![c] = ~pass[c].updates]
        /\ UNCHANGED <<queue, held>> /\ pass' = [pass EXCEPT ![c] = Idle]
    BY <1>6 DEF Poll
  <2>2. CASE d = c
    <3>1. ~subs'[c].bell
      <4>1. \A sub \in [Clients -> Subscriber] : ~[sub EXCEPT ![c].bell = FALSE][c].bell
        BY DEF Subscriber
      <4>2. Rebased(Locked, c).subs \in [Clients -> Subscriber]
        <5>1. SharedOK(Locked) /\ title \in Nat
          BY DEF TypeOK
        <5> QED BY <5>1, RebasedType DEF SharedOK
      <4> QED BY <1>0, <2>1, <4>1, <4>2 DEF AfterPoll
    <3>2. CASE polls /\ Behind(c)
      <4>1. subs'[c].sent = term.seq /\ subs'[c].needs = FALSE
        BY <1>0, <2>1, <3>2 DEF AfterPoll, Rebased, Shared, Locked, Subscriber
      <4> QED BY <1>1, <2>2, <3>1, <4>1 DEF Answered, Behind
    <3>3. CASE ~Behind(c)
      <4>1. subs'[c].sent = subs[c].sent /\ subs'[c].needs = subs[c].needs
        BY <1>0, <2>1, <3>3 DEF AfterPoll, Subscriber
      <4> QED BY <1>1, <2>2, <3>1, <3>3, <4>1 DEF Answered, Behind
    <3>4. CASE ~polls
      <4>1. owed'[c]
        BY <1>0, <2>1, <2>2, <3>4
      <4> QED BY <2>2, <3>1, <4>1 DEF Answered
    <3> QED BY <3>2, <3>3, <3>4
  <2>3. CASE d # c
    <3>1. subs'[d] = subs[d] /\ owed'[d] = owed[d] /\ pass'[d] = pass[d]
      BY <1>0, <1>2, <2>1, <2>3 DEF AfterPoll, Rebased, Shared, Locked
    <3> QED BY <1>1, <1>2, <2>1, <3>1, Unmoved
  <2> QED BY <2>2, <2>3, Zenon
<1> QED BY <1>3, <1>4, <1>5, <1>6

LEMMA WakeLinkDown ==
  ASSUME TypeOK, WakeInv, NEW c \in Clients, LinkDown(c)
  PROVE  WakeInv'
<1> DEFINE s == IF c \in attached THEN DoDetach(Locked, c) ELSE Locked
<1>0. /\ SharedOK(Locked) /\ attached \subseteq Clients /\ Locked.attached = attached
      /\ held \in [Clients -> Seq(Seq(HostMessage))] /\ owed \in [Clients -> BOOLEAN]
      /\ pass \in [Clients -> [on : BOOLEAN, out : Seq(HostMessage),
                               updates : BOOLEAN, ended : BOOLEAN]]
  BY DEF TypeOK, SharedOK, Locked, Shared
<1>1. /\ attached' = s.attached /\ subs' = s.subs /\ term' = s.term
      /\ queue' = [s.queue EXCEPT ![c] = <<>>]
      /\ held' = [held EXCEPT ![c] = <<>>] /\ pass' = [pass EXCEPT ![c] = Idle]
      /\ owed' = [owed EXCEPT ![c] = FALSE] /\ reader' = reader
  BY DEF LinkDown
<1>2. s.attached = attached \ {c} /\ SharedOK(s)
  <2>1. title \in Nat
    BY DEF TypeOK
  <2> QED BY <1>0, <2>1, Detached, OperationsType
<1>3. \A d \in attached \ {c} : Bystander(Locked, s, d)
  <2>1. \A d \in Clients : Bystander(Locked, Locked, d)
    BY DEF Bystander
  <2> QED BY <1>0, <2>1, DetachWakes
<1> HIDE DEF s
<1> SUFFICES ASSUME NEW d \in attached \ {c} PROVE Answered(d)'
  BY <1>1, <1>2 DEF WakeInv
<1>4. d \in Clients /\ Answered(d) /\ Bystander(Locked, s, d)
  BY <1>0, <1>3 DEF WakeInv
<1>5. queue'[d] = s.queue[d] /\ held'[d] = held[d] /\ pass'[d] = pass[d] /\ owed'[d] = owed[d]
  BY <1>0, <1>1, <1>2, <1>4 DEF SharedOK
<1>6. CASE s.queue[d] # <<>>
  <2>1. WakePending(d)'
    BY <1>5, <1>6 DEF WakePending
  <2> QED BY <1>4, <2>1, Roused
<1>7. CASE s.queue[d] = <<>>
  <2>1. s.queue[d] = queue[d] /\ s.subs[d] = subs[d] /\ s.term.seq = term.seq
    BY <1>4, <1>7 DEF Bystander, Locked, Shared
  <2> QED BY <1>1, <1>4, <1>5, <2>1, Unmoved
<1> QED BY <1>6, <1>7

(* The clients' own steps touch nothing a wake depends on. *)
LEMMA WakeClient ==
  ASSUME WakeInv,
         UNCHANGED <<term, reader, attached, subs, queue, held, pass, owed>>
  PROVE  WakeInv'
BY DEF WakeInv, Answered, Behind, WakePending

LEMMA WakeNext == TypeOK /\ WakeInv /\ [Next]_vars => WakeInv'
<1> SUFFICES ASSUME TypeOK, WakeInv, [Next]_vars PROVE WakeInv'
  OBVIOUS
<1>1. CASE UNCHANGED vars
  BY <1>1, WakeClient DEF vars
<1>2. CASE Next
  <2>1. CASE \/ \E n \in 0..MaxBurst, visible \in BOOLEAN, ev \in SUBSET Happenings :
                  ReaderParse(n, visible, ev)
             \/ ReaderStamp \/ DispatchTitle \/ KeyframeEveryone \/ TellEveryone \/ ReaderWake
             \/ ReaderEof
    BY <2>1, WakeReader
  <2>2. ASSUME NEW c \in Clients, HandleMsg(c) PROVE WakeInv'
    BY <2>2, WakeHandler
  <2>3. ASSUME NEW c \in Clients,
               \/ Enqueue(c) \/ TakeWake(c) \/ TakeOwed(c) \/ FloorElapses(c)
               \/ \E lost \in BOOLEAN : Poll(c, lost)
        PROVE  WakeInv'
    BY <2>3, WakeWriter
  <2>4. ASSUME NEW c \in Clients,
               \/ \E v \in Sizes \cup {0} : ClientAttach(c, v)
               \/ ClientDetach(c)
               \/ \E v \in Sizes : ClientResize(c, v)
               \/ ClientAck(c) \/ ClientRecv(c)
        PROVE  WakeInv'
    <3>1. UNCHANGED <<sessVars, attached, subs, connVars>>
      BY <2>4 DEF ClientAttach, ClientDetach, ClientResize, ClientAck, ClientRecv
    <3> QED BY <3>1, WakeClient DEF sessVars, connVars
  <2>5. ASSUME NEW c \in Clients, LinkDown(c) PROVE WakeInv'
    BY <2>5, WakeLinkDown
  <2> QED BY <1>2, <2>1, <2>2, <2>3, <2>4, <2>5 DEF Next, HandleMsg
<1> QED BY <1>1, <1>2

LEMMA WakeCorrect == Spec => []WakeInv
<1>1. Init => WakeInv
  BY DEF Init, WakeInv
<1>2. TypeOK /\ WakeInv /\ [Next]_vars => WakeInv'
  BY WakeNext
<1> QED BY <1>1, <1>2, TypeCorrect, PTL DEF Spec

(* However many clients, whatever floors: output a subscriber lacks, or a
   keyframe it is owed, always has a wake or the floor's timer coming. *)
THEOREM NoWakeupIsLost == Spec => []NoLostWakeup
<1>1. WakeInv => NoLostWakeup
  BY WakeParts
<1> QED BY <1>1, WakeCorrect, PTL

(* A rung bell always has a pass coming that drains it, floor or no floor. *)
THEOREM NoBellWaits == Spec => []BellNeverWaits
<1>1. WakeInv => BellNeverWaits
  BY WakeParts
<1> QED BY <1>1, WakeCorrect, PTL
-----------------------------------------------------------------------------
(* The session's size.  `s` is whatever the subscriber lock protects. *)
VotesFit(s) == Votes(s) # {} => s.term.pic.rows = Smallest(Votes(s))

LEMMA VotesSame ==
  ASSUME NEW s, NEW t, t.attached = s.attached,
         \A d \in s.attached : t.subs[d].vote = s.subs[d].vote
  PROVE  Votes(t) = Votes(s)
BY DEF Votes

LEMMA FitSame ==
  ASSUME NEW s, NEW t, VotesFit(s), t.attached = s.attached,
         t.term.pic.rows = s.term.pic.rows,
         \A d \in s.attached : t.subs[d].vote = s.subs[d].vote
  PROVE  VotesFit(t)
BY VotesSame DEF VotesFit

LEMMA OwingVotes ==
  ASSUME NEW sub \in [Clients -> Subscriber], NEW who, NEW d \in Clients
  PROVE  Owing(sub, who)[d].vote = sub[d].vote
BY DEF Owing, Subscriber

(* However the votes changed, reconciling leaves the size at the smallest. *)
LEMMA ReconcileFits ==
  ASSUME NEW s, SharedOK(s), NEW exempt
  PROVE  VotesFit(Reconcile(s, exempt))
<1>1. CASE Votes(s) = {} \/ Smallest(Votes(s)) = s.term.pic.rows
  BY <1>1 DEF Reconcile, VotesFit
<1>2. CASE ~(Votes(s) = {} \/ Smallest(Votes(s)) = s.term.pic.rows)
  <2> DEFINE t == Reconcile(s, exempt)
  <2>1. /\ t.attached = s.attached /\ t.subs = Owing(s.subs, s.attached \ exempt)
        /\ t.term = Resized(s, Smallest(Votes(s)))
    BY <1>2 DEF Reconcile, Shared
  <2> HIDE DEF t
  <2>2. \A d \in s.attached : t.subs[d].vote = s.subs[d].vote
    <3>1. s.subs \in [Clients -> Subscriber] /\ s.attached \subseteq Clients
      BY DEF SharedOK
    <3>2. \A who : \A d \in Clients : Owing(s.subs, who)[d].vote = s.subs[d].vote
      BY <3>1, OwingVotes
    <3> QED BY <2>1, <3>1, <3>2
  <2>3. Votes(t) = Votes(s)
    BY <2>1, <2>2, VotesSame
  <2>4. t.term.pic.rows = Smallest(Votes(s))
    BY <2>1 DEF Resized
  <2> QED BY <2>3, <2>4 DEF VotesFit, t
<1> QED BY <1>1, <1>2

LEMMA RebasedFits ==
  ASSUME NEW s, SharedOK(s), VotesFit(s), NEW c \in Clients
  PROVE  VotesFit(Rebased(s, c))
<1>1. /\ Rebased(s, c).attached = s.attached /\ Rebased(s, c).term = s.term
      /\ \A d \in Clients : Rebased(s, c).subs[d].vote = s.subs[d].vote
  BY DEF Rebased, Shared, SharedOK, Subscriber
<1> QED BY <1>1, FitSame DEF SharedOK

LEMMA OperationsFit ==
  ASSUME NEW s, SharedOK(s), NEW c \in Clients, NEW v \in Nat, title \in Nat
  PROVE  /\ VotesFit(DoDetach(s, c)) /\ VotesFit(DoResize(s, c, v))
         /\ VotesFit(DoAttach(s, c, v))
         /\ VotesFit(s) => VotesFit(DoAck(s, c, v))
<1>1. VotesFit(DoDetach(s, c)) /\ VotesFit(DoResize(s, c, v))
  BY ReconcileFits, WithoutType, VotedType DEF DoDetach, DoResize
<1>2. VotesFit(DoAttach(s, c, v))
  <2> DEFINE freed == IF c \in s.attached THEN DoDetach(s, c) ELSE s
  <2>1. SharedOK(With(freed, c, v))
    BY OperationsType, WithType
  <2> HIDE DEF freed
  <2>2. /\ SharedOK(Reconcile(With(freed, c, v), {c}))
        /\ VotesFit(Reconcile(With(freed, c, v), {c}))
    BY <2>1, ReconcileType, ReconcileFits
  <2> QED BY <2>2, RebasedFits DEF DoAttach, freed
<1>3. ASSUME VotesFit(s) PROVE VotesFit(DoAck(s, c, v))
  <2> DEFINE t == Shared(s.term, s.log, s.attached, Owing(s.subs, {c}), s.queue)
  <2>1. /\ t.attached = s.attached /\ t.term = s.term /\ t.subs = Owing(s.subs, {c})
    BY DEF Shared
  <2> HIDE DEF t
  <2>2. \A d \in s.attached : t.subs[d].vote = s.subs[d].vote
    <3>1. s.subs \in [Clients -> Subscriber] /\ s.attached \subseteq Clients
      BY DEF SharedOK
    <3>2. \A who : \A d \in Clients : Owing(s.subs, who)[d].vote = s.subs[d].vote
      BY <3>1, OwingVotes
    <3> QED BY <2>1, <3>1, <3>2
  <2>3. VotesFit(t)
    BY <1>3, <2>1, <2>2, FitSame
  <2> QED BY <1>3, <2>3 DEF DoAck, t
<1> QED BY <1>1, <1>2, <1>3

LEMMA SizeSame ==
  ASSUME SmallestWins, attached' = attached, term'.pic.rows = term.pic.rows,
         \A d \in attached : subs'[d].vote = subs[d].vote
  PROVE  SmallestWins'
<1>1. Votes(Locked)' = Votes(Locked)
  BY DEF Votes, Locked, Shared
<1> QED BY <1>1 DEF SmallestWins

LEMMA SizeInstalled ==
  ASSUME NEW s, VotesFit(s), attached' = s.attached, term' = s.term, subs' = s.subs
  PROVE  SmallestWins'
<1>1. Votes(Locked)' = Votes(s)
  BY DEF Votes, Locked, Shared
<1> QED BY <1>1 DEF SmallestWins, VotesFit

LEMMA SizeNext == TypeOK /\ SmallestWins /\ [Next]_vars => SmallestWins'
<1> SUFFICES ASSUME TypeOK, SmallestWins, [Next]_vars PROVE SmallestWins'
  OBVIOUS
<1>0. /\ SharedOK(Locked) /\ RestOK /\ title \in Nat /\ VotesFit(Locked)
      /\ attached \subseteq Clients /\ subs \in [Clients -> Subscriber]
      /\ term \in [seq : Nat, pic : Picture]
  BY TypeParts DEF TypeOK, SharedOK, Locked, Shared, SmallestWins, VotesFit
<1>1. CASE UNCHANGED vars
  BY <1>1, SizeSame DEF vars
<1>2. ASSUME NEW n \in 0..MaxBurst, NEW visible \in BOOLEAN, NEW ev \in SUBSET Happenings,
             ReaderParse(n, visible, ev)
      PROVE  SmallestWins'
  BY <1>2, SizeSame DEF ReaderParse
<1>3. CASE ReaderStamp
  <2>1. term'.pic.rows = term.pic.rows /\ attached' = attached /\ subs' = subs
    BY <1>0, <1>3 DEF ReaderStamp, Picture
  <2> QED BY <2>1, SizeSame
<1>4. CASE DispatchTitle \/ ReaderWake \/ ReaderEof
  BY <1>4, SizeSame DEF DispatchTitle, ReaderWake, ReaderEof
<1>5. CASE KeyframeEveryone
  <2>1. \A d \in attached : subs'[d].vote = subs[d].vote
    BY <1>0, <1>5, OwingVotes DEF KeyframeEveryone
  <2> QED BY <1>5, <2>1, SizeSame DEF KeyframeEveryone
<1>6. CASE TellEveryone
  <2>1. \A d \in attached : subs'[d].vote = subs[d].vote
    BY <1>0, <1>6 DEF TellEveryone, Subscriber
  <2> QED BY <1>6, <2>1, SizeSame DEF TellEveryone
<1>7. ASSUME NEW c \in Clients, HandleMsg(c) PROVE SmallestWins'
  <2>1. CASE HandleAttach(c)
    <3>1. Receive(c, "Attach") /\ Install(DoAttach(Locked, c, Head(up[c]).vote))
      BY <2>1 DEF HandleAttach
    <3>2. Head(up[c]).vote \in Nat
      BY <1>0, <3>1, ReceiveType, VoteFields
    <3>3. VotesFit(DoAttach(Locked, c, Head(up[c]).vote))
      BY <1>0, <3>2, OperationsFit
    <3> QED BY <3>1, <3>3, SizeInstalled DEF Install
  <2>2. CASE HandleRequestKeyframe(c)
    <3>1. VotesFit(Rebased(Locked, c))
      BY <1>0, RebasedFits
    <3> QED BY <1>0, <2>2, <3>1, SizeInstalled DEF HandleRequestKeyframe, Install
  <2>3. CASE HandleDetach(c)
    <3>1. VotesFit(IF c \in attached THEN DoDetach(Locked, c) ELSE Locked)
      BY <1>0, OperationsFit
    <3> QED BY <2>3, <3>1, SizeInstalled DEF HandleDetach, Install
  <2>4. CASE HandleResize(c)
    <3>1. Head(up[c]).vote \in Nat
      BY <1>0, <2>4, ReceiveType, VoteFields DEF HandleResize
    <3>2. VotesFit(IF c \in attached THEN DoResize(Locked, c, Head(up[c]).vote) ELSE Locked)
      BY <1>0, <3>1, OperationsFit
    <3> QED BY <2>4, <3>2, SizeInstalled DEF HandleResize, Install
  <2>5. CASE HandleAck(c)
    <3>1. Head(up[c]).seq \in Nat
      BY <1>0, <2>5, ReceiveType, VoteFields DEF HandleAck
    <3>2. VotesFit(IF c \in attached THEN DoAck(Locked, c, Head(up[c]).seq) ELSE Locked)
      BY <1>0, <3>1, OperationsFit
    <3> QED BY <2>5, <3>2, SizeInstalled DEF HandleAck, Install
  <2> QED BY <1>7, <2>1, <2>2, <2>3, <2>4, <2>5 DEF HandleMsg
<1>8. ASSUME NEW c \in Clients, Enqueue(c) \/ TakeWake(c) \/ TakeOwed(c) \/ FloorElapses(c)
      PROVE  SmallestWins'
  BY <1>8, SizeSame DEF Enqueue, TakeWake, TakeOwed, FloorElapses, sessVars
<1>9. ASSUME NEW c \in Clients, NEW lost \in BOOLEAN, Poll(c, lost) PROVE SmallestWins'
  <2>1. \A sub \in [Clients -> Subscriber] : \A d \in Clients :
          [sub EXCEPT ![c].bell = FALSE][d].vote = sub[d].vote
    BY DEF Subscriber
  <2>2. /\ Rebased(Locked, c).subs \in [Clients -> Subscriber]
        /\ \A d \in Clients : Rebased(Locked, c).subs[d].vote = subs[d].vote
    <3>1. SharedOK(Rebased(Locked, c))
      BY <1>0, RebasedType
    <3> QED BY <1>0, <3>1 DEF Rebased, Shared, Locked, SharedOK, Subscriber
  <2>3. \/ subs' = [subs EXCEPT ![c].bell = FALSE]
        \/ subs' = [Rebased(Locked, c).subs EXCEPT ![c].bell = FALSE]
    BY <1>9 DEF Poll, AfterPoll
  <2>4. \A d \in attached : subs'[d].vote = subs[d].vote
    BY <1>0, <2>1, <2>2, <2>3
  <2>5. attached' = attached /\ term' = term
    BY <1>9 DEF Poll, sessVars
  <2> QED BY <2>4, <2>5, SizeSame
<1>10. ASSUME NEW c \in Clients,
              \/ \E v \in Sizes \cup {0} : ClientAttach(c, v)
              \/ ClientDetach(c)
              \/ \E v \in Sizes : ClientResize(c, v)
              \/ ClientAck(c) \/ ClientRecv(c)
       PROVE  SmallestWins'
  <2>1. UNCHANGED <<sessVars, attached, subs>>
    BY <1>10 DEF ClientAttach, ClientDetach, ClientResize, ClientAck, ClientRecv
  <2> QED BY <2>1, SizeSame DEF sessVars
<1>11. ASSUME NEW c \in Clients, LinkDown(c) PROVE SmallestWins'
  <2>1. VotesFit(IF c \in attached THEN DoDetach(Locked, c) ELSE Locked)
    BY <1>0, OperationsFit
  <2> QED BY <1>11, <2>1, SizeInstalled DEF LinkDown
<1> QED BY <1>1, <1>2, <1>3, <1>4, <1>5, <1>6, <1>7, <1>8, <1>9, <1>10, <1>11
        DEF Next, HandleMsg

(* Whoever attaches, detaches, resizes, dies or is detached by a lost link: the
   session is as large as its smallest voter at every moment its lock is free. *)
THEOREM SmallestAlwaysWins == Spec => []SmallestWins
<1>1. Init => SmallestWins
  BY DEF Init, SmallestWins, Votes, Locked, Shared
<1>2. TypeOK /\ SmallestWins /\ [Next]_vars => SmallestWins'
  BY SizeNext
<1> QED BY <1>1, <1>2, TypeCorrect, PTL DEF Spec
-----------------------------------------------------------------------------
(* No client is told it is not attached, and Exited comes after the output. *)

(* Client c of the attached `a` is attached when message i of its wire `q` is
   handled: it is now, or an Attach comes first, and no Detach comes between. *)
Kept(c, q, a, i) ==
  \E j \in 0..(i - 1) :
    /\ IF j = 0 THEN c \in a ELSE q[j].t = "Attach"
    /\ \A k \in (j + 1)..(i - 1) : q[k].t # "Detach"

(* Every request on the wire finds its client attached, and so would one more
   from a client that holds itself for attached. *)
InTime(c, q, a, mode) ==
  /\ \A i \in 1..Len(q) : q[i].t = "RequestKeyframe" => Kept(c, q, a, i)
  /\ mode \in {"attaching", "live"} => Kept(c, q, a, Len(q) + 1)

(* A window that has closed left nothing behind. *)
Closed(c) ==
  /\ c \notin attached /\ queue[c] = <<>> /\ held[c] = <<>> /\ ~pass[c].on /\ ~owed[c]
  /\ up[c] = <<>> /\ down[c] = <<>>

Asks(c) == InTime(c, up[c], attached, client[c].mode) /\ (client[c].mode = "gone" => Closed(c))
AskInv == \A c \in Clients : Asks(c)

(* One more message at the end of the wire: a request only from a client that
   holds itself for attached, which it does until it sends a Detach. *)
LEMMA SaysMore ==
  ASSUME NEW c, NEW q \in Seq(ClientMessage), NEW a, NEW mode, InTime(c, q, a, mode),
         NEW m \in ClientMessage, NEW next,
         m.t = "RequestKeyframe" => mode \in {"attaching", "live"},
         next \in {"attaching", "live"} =>
           m.t = "Attach" \/ (m.t # "Detach" /\ mode \in {"attaching", "live"})
  PROVE  InTime(c, Append(q, m), a, next)
<1> DEFINE r == Append(q, m)
<1>1. /\ Len(q) \in Nat /\ Len(r) = Len(q) + 1 /\ r[Len(q) + 1] = m
      /\ \A i \in 1..Len(q) : r[i] = q[i]
  OBVIOUS
<1> HIDE DEF r
<1>2. ASSUME NEW i \in 1..(Len(q) + 1), Kept(c, q, a, i) PROVE Kept(c, r, a, i)
  <2>1. PICK j \in 0..(i - 1) : /\ IF j = 0 THEN c \in a ELSE q[j].t = "Attach"
                               /\ \A k \in (j + 1)..(i - 1) : q[k].t # "Detach"
    BY <1>2 DEF Kept
  <2>2. IF j = 0 THEN c \in a ELSE r[j].t = "Attach"
    <3>1. CASE j = 0
      BY <2>1, <3>1
    <3>2. CASE j # 0
      <4>1. j \in 1..Len(q)
        BY <1>1, <3>2
      <4> QED BY <1>1, <2>1, <3>2, <4>1
    <3> QED BY <3>1, <3>2
  <2>3. ASSUME NEW k \in (j + 1)..(i - 1) PROVE r[k].t # "Detach"
    <3>1. k \in 1..Len(q)
      BY <1>1
    <3> QED BY <1>1, <2>1, <3>1
  <2> QED BY <2>2, <2>3 DEF Kept
<1>3. ASSUME NEW i \in 1..Len(r), r[i].t = "RequestKeyframe" PROVE Kept(c, r, a, i)
  <2>1. CASE i \in 1..Len(q)
    BY <1>1, <1>2, <1>3, <2>1 DEF InTime
  <2>2. CASE i = Len(q) + 1
    BY <1>1, <1>2, <1>3, <2>2 DEF InTime
  <2> QED BY <1>1, <2>1, <2>2
<1>4. ASSUME m.t = "Attach" PROVE Kept(c, r, a, Len(r) + 1)
  <2>1. Len(r) \in 0..((Len(r) + 1) - 1) /\ Len(r) # 0 /\ r[Len(r)].t = "Attach"
    BY <1>1, <1>4
  <2>2. \A k \in (Len(r) + 1)..((Len(r) + 1) - 1) : r[k].t # "Detach"
    BY <1>1
  <2> QED BY <2>1, <2>2 DEF Kept
<1>5. ASSUME m.t # "Detach", Kept(c, r, a, Len(r)) PROVE Kept(c, r, a, Len(r) + 1)
  <2>1. PICK j \in 0..(Len(r) - 1) : /\ IF j = 0 THEN c \in a ELSE r[j].t = "Attach"
                                     /\ \A k \in (j + 1)..(Len(r) - 1) : r[k].t # "Detach"
    BY <1>5 DEF Kept
  <2>2. \A k \in (j + 1)..((Len(r) + 1) - 1) : r[k].t # "Detach"
    BY <1>1, <1>5, <2>1
  <2>3. j \in 0..((Len(r) + 1) - 1)
    BY <1>1, <2>1
  <2> QED BY <2>1, <2>2, <2>3 DEF Kept
<1>6. next \in {"attaching", "live"} => Kept(c, r, a, Len(r) + 1)
  BY <1>1, <1>2, <1>4, <1>5 DEF InTime
<1> QED BY <1>3, <1>6 DEF InTime, r

(* The daemon takes the first message: an Attach attaches, a Detach releases, and
   no other message does either. *)
LEMMA Taken ==
  ASSUME NEW c, NEW q \in Seq(ClientMessage), q # <<>>, NEW a, NEW mode, InTime(c, q, a, mode),
         NEW b, q[1].t = "Attach" => c \in b,
         q[1].t \notin {"Attach", "Detach"} => (c \in a <=> c \in b)
  PROVE  InTime(c, Tail(q), b, mode)
<1> DEFINE r == Tail(q)
<1>1. /\ Len(q) \in Nat \ {0} /\ Len(r) \in Nat /\ Len(r) = Len(q) - 1
      /\ \A i \in 1..Len(r) : r[i] = q[i + 1]
  OBVIOUS
<1> HIDE DEF r
<1>2. ASSUME NEW i \in 1..(Len(r) + 1), Kept(c, q, a, i + 1) PROVE Kept(c, r, b, i)
  <2>1. PICK j \in 0..((i + 1) - 1) : /\ IF j = 0 THEN c \in a ELSE q[j].t = "Attach"
                                      /\ \A k \in (j + 1)..((i + 1) - 1) : q[k].t # "Detach"
    BY <1>2 DEF Kept
  <2>2. CASE j \in {0, 1}
    <3>1. c \in b
      <4>1. CASE j = 0
        <5>1. 1 \in (j + 1)..((i + 1) - 1)
          BY <1>1, <4>1
        <5>2. c \in a /\ q[1].t # "Detach"
          BY <2>1, <4>1, <5>1
        <5> QED BY <5>2
      <4>2. CASE j = 1
        BY <2>1, <4>2
      <4> QED BY <2>2, <4>1, <4>2
    <3>2. ASSUME NEW k \in (0 + 1)..(i - 1) PROVE r[k].t # "Detach"
      <4>1. k + 1 \in (j + 1)..((i + 1) - 1) /\ r[k] = q[k + 1]
        BY <1>1, <2>2
      <4> QED BY <2>1, <4>1
    <3>3. 0 \in 0..(i - 1)
      BY <1>1
    <3> QED BY <3>1, <3>2, <3>3 DEF Kept
  <2>3. CASE j \notin {0, 1}
    <3>1. j - 1 \in 0..(i - 1) /\ j - 1 # 0 /\ r[j - 1] = q[j]
      BY <1>1, <2>1, <2>3
    <3>2. r[j - 1].t = "Attach"
      BY <2>1, <2>3, <3>1
    <3>3. ASSUME NEW k \in ((j - 1) + 1)..(i - 1) PROVE r[k].t # "Detach"
      <4>1. k + 1 \in (j + 1)..((i + 1) - 1) /\ r[k] = q[k + 1]
        BY <1>1, <2>1, <2>3
      <4> QED BY <2>1, <4>1
    <3> QED BY <3>1, <3>2, <3>3 DEF Kept
  <2> QED BY <2>2, <2>3
<1>3. ASSUME NEW i \in 1..Len(r), r[i].t = "RequestKeyframe" PROVE Kept(c, r, b, i)
  <2>1. i + 1 \in 1..Len(q) /\ q[i + 1].t = "RequestKeyframe"
    BY <1>1, <1>3
  <2>2. Kept(c, q, a, i + 1)
    BY <2>1 DEF InTime
  <2> QED BY <1>1, <1>2, <2>2
<1>4. mode \in {"attaching", "live"} => Kept(c, r, b, Len(r) + 1)
  <2>1. Len(q) + 1 = (Len(r) + 1) + 1
    BY <1>1
  <2> QED BY <1>1, <1>2, <2>1 DEF InTime
<1> QED BY <1>3, <1>4 DEF InTime, r

(* Nothing is on the wire of a client that is not attached and does not think so. *)
LEMMA NothingSaid ==
  ASSUME NEW c, NEW a, NEW mode, mode \notin {"attaching", "live"}
  PROVE  InTime(c, <<>>, a, mode)
BY DEF InTime

LEMMA InTimeSame ==
  ASSUME NEW c, NEW q, NEW a, NEW b, c \in a <=> c \in b, NEW mode, NEW next,
         InTime(c, q, a, mode), next \in {"attaching", "live"} => mode \in {"attaching", "live"}
  PROVE  InTime(c, q, b, next)
BY DEF InTime, Kept

(* A request finds its client attached. *)
LEMMA RequestsFit ==
  ASSUME TypeOK, AskInv, NEW c \in Clients, Receive(c, "RequestKeyframe")
  PROVE  c \in attached
<1>1. up[c] \in Seq(ClientMessage) /\ up[c] # <<>> /\ Head(up[c]).t = "RequestKeyframe"
  BY DEF TypeOK, Receive
<1>2. 1 \in 1..Len(up[c]) /\ up[c][1].t = "RequestKeyframe"
  BY <1>1
<1>3. Kept(c, up[c], attached, 1)
  BY <1>2 DEF AskInv, Asks, InTime
<1> QED BY <1>3 DEF Kept

(* What an operation of the subscriber map does to the writers' channels: it
   leaves a wake with some of the clients in `who`, and nothing else. *)
WakesOnly(s, t, who) ==
  \A d \in Clients :
    t.queue[d] = s.queue[d] \/ (d \in who /\ t.queue[d] = Enqueued(s.queue[d], <<>>))

LEMMA ReconcileWakesOnly ==
  ASSUME NEW s, SharedOK(s), NEW exempt
  PROVE  WakesOnly(s, Reconcile(s, exempt), s.attached \ exempt)
<1>1. CASE Votes(s) = {} \/ Smallest(Votes(s)) = s.term.pic.rows
  BY <1>1 DEF Reconcile, WakesOnly
<1>2. CASE ~(Votes(s) = {} \/ Smallest(Votes(s)) = s.term.pic.rows)
  <2>1. Reconcile(s, exempt).queue = WakeAll(s.queue, s.attached \ exempt)
    BY <1>2 DEF Reconcile, Shared
  <2> QED BY <2>1 DEF WakesOnly, WakeAll
<1> QED BY <1>1, <1>2

LEMMA DetachWakesOnly ==
  ASSUME NEW s, SharedOK(s), NEW c \in Clients
  PROVE  WakesOnly(s, DoDetach(s, c), s.attached \ {c})
<1>1. /\ SharedOK(Without(s, c)) /\ Without(s, c).queue = s.queue
      /\ Without(s, c).attached \ {} = s.attached \ {c}
  BY WithoutType DEF Without, Shared
<1> QED BY <1>1, ReconcileWakesOnly DEF DoDetach, WakesOnly

(* A wake behind a wake adds nothing. *)
LEMMA WokenTwice ==
  ASSUME NEW q \in Seq(Seq(HostMessage))
  PROVE  Enqueued(Enqueued(q, <<>>), <<>>) = Enqueued(q, <<>>)
<1> DEFINE Batch == Seq(HostMessage)
<1>1. q \in Seq(Batch) /\ <<>> \in Batch
  OBVIOUS
<1> HIDE DEF Batch
<1>2. ASSUME NEW e \in Batch PROVE Append(q, e) # <<>> /\ Append(q, e)[Len(Append(q, e))] = e
  BY <1>1
<1>3. Append(q, <<>>) # <<>> /\ Append(q, <<>>)[Len(Append(q, <<>>))] = <<>>
  BY <1>1, <1>2
<1> QED BY <1>3 DEF Enqueued

LEMMA OperationsWakeOnly ==
  ASSUME NEW s, SharedOK(s), NEW c \in Clients, NEW v \in Nat, title \in Nat
  PROVE  /\ WakesOnly(s, s, s.attached)
         /\ WakesOnly(s, Rebased(s, c), s.attached)
         /\ WakesOnly(s, DoDetach(s, c), s.attached)
         /\ WakesOnly(s, DoAttach(s, c, v), s.attached)
         /\ WakesOnly(s, DoResize(s, c, v), s.attached)
         /\ WakesOnly(s, DoAck(s, c, v), s.attached)
<1>1. WakesOnly(s, s, s.attached) /\ WakesOnly(s, Rebased(s, c), s.attached)
  BY DEF WakesOnly, Rebased, Shared
<1>2. WakesOnly(s, DoDetach(s, c), s.attached)
  BY DetachWakesOnly DEF WakesOnly
<1>3. WakesOnly(s, DoAttach(s, c, v), s.attached)
  <2> DEFINE freed == IF c \in s.attached THEN DoDetach(s, c) ELSE s
             grown == With(freed, c, v)
             fitted == Reconcile(grown, {c})
  <2>1. /\ SharedOK(freed) /\ WakesOnly(s, freed, s.attached)
        /\ freed.attached \ {c} \subseteq s.attached
    BY <1>1, <1>2, OperationsType, Detached
  <2> HIDE DEF freed
  <2>2. SharedOK(grown) /\ grown.queue = freed.queue /\ grown.attached \ {c} \subseteq s.attached
    BY <2>1, WithType DEF With, Shared
  <2> HIDE DEF grown
  <2>3. WakesOnly(grown, fitted, grown.attached \ {c})
    BY <2>2, ReconcileWakesOnly
  <2>4. Rebased(fitted, c).queue = fitted.queue
    BY DEF Rebased, Shared
  <2> HIDE DEF fitted
  <2>5. DoAttach(s, c, v) = Rebased(fitted, c)
    BY DEF DoAttach, freed, grown, fitted
  <2>6. ASSUME NEW d \in Clients
        PROVE  \/ fitted.queue[d] = s.queue[d]
               \/ d \in s.attached /\ fitted.queue[d] = Enqueued(s.queue[d], <<>>)
    <3>1. s.queue[d] \in Seq(Seq(HostMessage))
      BY DEF SharedOK
    <3>2. \/ freed.queue[d] = s.queue[d]
          \/ d \in s.attached /\ freed.queue[d] = Enqueued(s.queue[d], <<>>)
      BY <2>1 DEF WakesOnly
    <3>3. \/ fitted.queue[d] = freed.queue[d]
          \/ d \in s.attached /\ fitted.queue[d] = Enqueued(freed.queue[d], <<>>)
      BY <2>2, <2>3 DEF WakesOnly
    <3> QED BY <3>1, <3>2, <3>3, WokenTwice
  <2> QED BY <2>4, <2>5, <2>6 DEF WakesOnly
<1>4. WakesOnly(s, DoResize(s, c, v), s.attached)
  <2>1. /\ SharedOK(Voted(s, c, v)) /\ Voted(s, c, v).queue = s.queue
        /\ Voted(s, c, v).attached = s.attached
    BY VotedType DEF Voted, Shared
  <2> QED BY <2>1, ReconcileWakesOnly DEF DoResize, WakesOnly
<1>5. WakesOnly(s, DoAck(s, c, v), s.attached)
  BY DEF DoAck, WakesOnly, Shared
<1> QED BY <1>1, <1>2, <1>3, <1>4, <1>5

(* The operation a handler installs, and who is attached after it: nobody else
   than its client comes or goes, and that one by an Attach or a Detach. *)
Operation(c, kind, s) ==
  /\ WakesOnly(Locked, s, attached)
  /\ \A d \in Clients : d # c => (d \in s.attached <=> d \in attached)
  /\ kind = "Attach" => c \in s.attached
  /\ kind \notin {"Attach", "Detach"} => s.attached = attached

LEMMA HandlerCases ==
  ASSUME TypeOK, NEW c \in Clients, HandleMsg(c)
  PROVE  \E kind, s :
           /\ kind \in {"Attach", "RequestKeyframe", "Detach", "Resize", "Ack"}
           /\ Receive(c, kind) /\ Install(s) /\ Operation(c, kind, s)
           /\ \/ Reply(c, <<>>)
              \/ kind \in {"Attach", "RequestKeyframe"} /\ \E t : Reply(c, <<StateOf(t)>>) /\ SharedOK(t)
              \/ kind = "RequestKeyframe" /\ c \notin attached /\ Reply(c, <<Error>>)
<1>0. SharedOK(Locked) /\ RestOK /\ title \in Nat /\ Locked.attached = attached
  BY DEF TypeOK, RestOK, Locked, Shared
<1>1. CASE HandleAttach(c)
  <2> DEFINE v == Head(up[c]).vote
             s == DoAttach(Locked, c, v)
  <2>1. Receive(c, "Attach") /\ Install(s) /\ Reply(c, <<StateOf(s)>>)
    BY <1>1 DEF HandleAttach
  <2>2. v \in Nat
    BY <1>0, <2>1, ReceiveType, VoteFields
  <2> HIDE DEF v
  <2>3. SharedOK(s) /\ WakesOnly(Locked, s, attached) /\ s.attached = attached \cup {c}
    BY <1>0, <2>2, OperationsType, OperationsWakeOnly, Attached
  <2> HIDE DEF s
  <2>4. Operation(c, "Attach", s)
    BY <2>3 DEF Operation
  <2> QED BY <2>1, <2>3, <2>4
<1>2. CASE HandleRequestKeyframe(c)
  <2>1. Receive(c, "RequestKeyframe")
    BY <1>2 DEF HandleRequestKeyframe
  <2>2. CASE c \in attached
    <3>1. Install(Rebased(Locked, c)) /\ Reply(c, <<StateOf(Locked)>>)
      BY <1>2, <2>2 DEF HandleRequestKeyframe
    <3>2. Rebased(Locked, c).attached = attached /\ WakesOnly(Locked, Rebased(Locked, c), attached)
      BY <1>0, OperationsWakeOnly, Zenon DEF Rebased, Shared
    <3>3. Operation(c, "RequestKeyframe", Rebased(Locked, c))
      BY <3>2 DEF Operation
    <3> QED BY <1>0, <2>1, <3>1, <3>3
  <2>3. CASE c \notin attached
    <3>1. Install(Locked) /\ Reply(c, <<Error>>)
      BY <1>2, <2>3 DEF HandleRequestKeyframe
    <3>2. Operation(c, "RequestKeyframe", Locked)
      BY <1>0, OperationsWakeOnly DEF Operation
    <3> QED BY <2>1, <2>3, <3>1, <3>2
  <2> QED BY <2>2, <2>3
<1>3. CASE HandleDetach(c)
  <2> DEFINE s == IF c \in attached THEN DoDetach(Locked, c) ELSE Locked
  <2>1. Receive(c, "Detach") /\ Install(s) /\ Reply(c, <<>>)
    BY <1>3 DEF HandleDetach
  <2>2. WakesOnly(Locked, s, attached) /\ s.attached = attached \ {c}
    BY <1>0, OperationsWakeOnly, Detached
  <2> HIDE DEF s
  <2>3. Operation(c, "Detach", s)
    BY <2>2 DEF Operation
  <2> QED BY <2>1, <2>3
<1>4. CASE HandleResize(c)
  <2> DEFINE v == Head(up[c]).vote
             s == IF c \in attached THEN DoResize(Locked, c, v) ELSE Locked
  <2>1. Receive(c, "Resize") /\ Install(s) /\ Reply(c, <<>>)
    BY <1>4 DEF HandleResize
  <2>2. v \in Nat
    BY <1>0, <2>1, ReceiveType, VoteFields
  <2> HIDE DEF v
  <2>3. WakesOnly(Locked, s, attached) /\ s.attached = attached
    BY <1>0, <2>2, OperationsWakeOnly, Resettled
  <2> HIDE DEF s
  <2>4. Operation(c, "Resize", s)
    BY <2>3 DEF Operation
  <2> QED BY <2>1, <2>4
<1>5. CASE HandleAck(c)
  <2> DEFINE v == Head(up[c]).seq
             s == IF c \in attached THEN DoAck(Locked, c, v) ELSE Locked
  <2>1. Receive(c, "Ack") /\ Install(s) /\ Reply(c, <<>>)
    BY <1>5 DEF HandleAck
  <2>2. v \in Nat
    BY <1>0, <2>1, ReceiveType, VoteFields
  <2> HIDE DEF v
  <2>3. WakesOnly(Locked, s, attached) /\ s.attached = attached
    BY <1>0, <2>2, OperationsWakeOnly, Resettled
  <2> HIDE DEF s
  <2>4. Operation(c, "Ack", s)
    BY <2>3 DEF Operation
  <2> QED BY <2>1, <2>4
<1> QED BY <1>1, <1>2, <1>3, <1>4, <1>5 DEF HandleMsg
-----------------------------------------------------------------------------
(* AskInv, step by step.  A step that leaves a client's wire, its standing and
   whether it is attached alone keeps its requests in time; a window that has
   closed stays so while nothing of its connection moves. *)
LEMMA AsksKept ==
  ASSUME NEW d \in Clients, Asks(d), up'[d] = up[d], client'[d].mode = client[d].mode,
         d \in attached' <=> d \in attached,
         Closed(d) => /\ queue'[d] = queue[d] /\ held'[d] = held[d] /\ pass'[d] = pass[d]
                      /\ owed'[d] = owed[d] /\ down'[d] = down[d]
  PROVE  Asks(d)'
<1>1. InTime(d, up'[d], attached', client'[d].mode)
  BY InTimeSame DEF Asks
<1>2. client'[d].mode = "gone" => Closed(d)'
  BY DEF Asks, Closed
<1> QED BY <1>1, <1>2 DEF Asks

LEMMA AsksReader ==
  ASSUME TypeOK, AskInv,
         \/ \E n \in 0..MaxBurst, visible \in BOOLEAN, ev \in SUBSET Happenings :
              ReaderParse(n, visible, ev)
         \/ ReaderStamp \/ DispatchTitle \/ KeyframeEveryone \/ TellEveryone \/ ReaderWake
         \/ ReaderEof
  PROVE  AskInv'
<1>1. UNCHANGED <<attached, held, pass, owed, up, down, client>>
  BY DEF ReaderParse, ReaderStamp, DispatchTitle, KeyframeEveryone, TellEveryone, ReaderWake,
         ReaderEof, connVars
<1>2. queue' = queue \/ queue' = WakeAll(queue, attached)
  BY DEF ReaderParse, ReaderStamp, DispatchTitle, KeyframeEveryone, TellEveryone, ReaderWake,
         ReaderEof, connVars
<1>3. ASSUME NEW d \in Clients, d \notin attached PROVE queue'[d] = queue[d]
  BY <1>2, <1>3 DEF WakeAll
<1>4. ASSUME NEW d \in Clients PROVE Asks(d)'
  <2>1. Closed(d) => queue'[d] = queue[d]
    BY <1>3 DEF Closed
  <2>2. Asks(d)
    BY DEF AskInv
  <2> QED BY <1>1, <2>1, <2>2, AsksKept
<1> QED BY <1>4 DEF AskInv

LEMMA AsksHandler ==
  ASSUME TypeOK, AskInv, NEW c \in Clients, HandleMsg(c)
  PROVE  AskInv'
<1>0. PICK kind, s :
        /\ kind \in {"Attach", "RequestKeyframe", "Detach", "Resize", "Ack"}
        /\ Receive(c, kind) /\ Install(s) /\ Operation(c, kind, s)
        /\ \/ Reply(c, <<>>)
           \/ kind \in {"Attach", "RequestKeyframe"} /\ \E t : Reply(c, <<StateOf(t)>>) /\ SharedOK(t)
           \/ kind = "RequestKeyframe" /\ c \notin attached /\ Reply(c, <<Error>>)
  BY HandlerCases
<1>1. /\ kind \in {"Attach", "RequestKeyframe", "Detach", "Resize", "Ack"}
      /\ Receive(c, kind) /\ Install(s) /\ Operation(c, kind, s) /\ \E r : Reply(c, r)
  BY <1>0, Zenon
<1>2. /\ up[c] \in Seq(ClientMessage) /\ up[c] # <<>> /\ Head(up[c]).t = kind
      /\ up' = [up EXCEPT ![c] = Tail(up[c])] /\ UNCHANGED <<pass, owed, down, client>>
      /\ attached' = s.attached /\ queue' = s.queue
      /\ up \in [Clients -> Seq(ClientMessage)] /\ held \in [Clients -> Seq(Seq(HostMessage))]
  BY <1>1 DEF TypeOK, Receive, Install
<1>3. Asks(c)'
  <2>1. Asks(c) /\ client[c].mode # "gone"
    BY <1>2 DEF AskInv, Asks, Closed
  <2>2. up[c][1].t = kind
    BY <1>2
  <2>3. InTime(c, Tail(up[c]), attached', client[c].mode)
    <3>1. kind = "Attach" => c \in attached'
      BY <1>1, <1>2 DEF Operation
    <3>2. kind \notin {"Attach", "Detach"} => (c \in attached <=> c \in attached')
      BY <1>1, <1>2 DEF Operation
    <3>3. InTime(c, up[c], attached, client[c].mode)
      BY <2>1 DEF Asks
    <3> QED BY <1>2, <2>2, <3>1, <3>2, <3>3, Taken
  <2>4. up'[c] = Tail(up[c])
    BY <1>2
  <2> QED BY <1>2, <2>1, <2>3, <2>4 DEF Asks
<1>4. ASSUME NEW d \in Clients, d # c PROVE Asks(d)'
  <2>1. Asks(d) /\ up'[d] = up[d] /\ held'[d] = held[d] /\ (d \in attached' <=> d \in attached)
    BY <1>1, <1>2, <1>4 DEF AskInv, Reply, Operation
  <2>2. d \notin attached => queue'[d] = queue[d]
    <3>1. \/ s.queue[d] = Locked.queue[d]
          \/ d \in attached
      BY <1>1 DEF Operation, WakesOnly
    <3> QED BY <1>2, <3>1 DEF Locked, Shared
  <2>3. Closed(d) => queue'[d] = queue[d]
    BY <2>2 DEF Closed
  <2> QED BY <1>2, <2>1, <2>3, AsksKept
<1> QED BY <1>3, <1>4 DEF AskInv

(* The writer's steps begin with something that a closed window does not have. *)
LEMMA AsksWriter ==
  ASSUME TypeOK, AskInv, NEW c \in Clients,
         \/ Enqueue(c) \/ TakeWake(c) \/ TakeOwed(c) \/ FloorElapses(c)
         \/ \E lost \in BOOLEAN : Poll(c, lost)
  PROVE  AskInv'
<1>0. /\ queue \in [Clients -> Seq(Seq(HostMessage))] /\ held \in [Clients -> Seq(Seq(HostMessage))]
      /\ pass \in [Clients -> [on : BOOLEAN, out : Seq(HostMessage),
                               updates : BOOLEAN, ended : BOOLEAN]]
      /\ owed \in [Clients -> BOOLEAN] /\ down \in [Clients -> Seq(HostMessage)]
  BY DEF TypeOK, SharedOK, Locked, Shared
<1>1. UNCHANGED <<attached, up, client>>
  BY DEF Enqueue, TakeWake, TakeOwed, FloorElapses, Poll
<1>2. ASSUME NEW d \in Clients, Closed(d)
      PROVE  /\ queue'[d] = queue[d] /\ held'[d] = held[d] /\ pass'[d] = pass[d]
             /\ owed'[d] = owed[d] /\ down'[d] = down[d]
  <2>1. CASE d = c
    <3>1. FloorElapses(c)
      BY <1>2, <2>1 DEF Closed, Enqueue, TakeWake, TakeOwed, Poll
    <3> QED BY <3>1 DEF FloorElapses
  <2>2. CASE d # c
    <3>1. CASE Enqueue(c)
      BY <1>0, <2>2, <3>1 DEF Enqueue
    <3>2. CASE TakeWake(c)
      BY <1>0, <2>2, <3>2 DEF TakeWake, Begin
    <3>3. CASE TakeOwed(c)
      BY <1>0, <2>2, <3>3 DEF TakeOwed, Begin
    <3>4. CASE FloorElapses(c)
      BY <3>4, SMTT(60) DEF FloorElapses
    <3>5. ASSUME NEW lost \in BOOLEAN, Poll(c, lost)
          PROVE  /\ queue'[d] = queue[d] /\ held'[d] = held[d] /\ pass'[d] = pass[d]
                 /\ owed'[d] = owed[d] /\ down'[d] = down[d]
      BY <1>0, <2>2, <3>5 DEF Poll
    <3> QED BY <3>1, <3>2, <3>3, <3>4, <3>5
  <2> QED BY <2>1, <2>2
<1>3. ASSUME NEW d \in Clients PROVE Asks(d)'
  <2>1. Asks(d)
    BY DEF AskInv
  <2> QED BY <1>1, <1>2, <2>1, AsksKept
<1> QED BY <1>3 DEF AskInv

(* One client acts: its wire and its standing change, and no other's. *)
LEMMA OneSpeaks ==
  ASSUME TypeOK, AskInv, NEW c \in Clients, UNCHANGED <<attached, queue, held, pass, owed>>,
         \A d \in Clients : d # c => up'[d] = up[d] /\ client'[d] = client[d] /\ down'[d] = down[d],
         InTime(c, up'[c], attached, client'[c].mode), client'[c].mode # "gone"
  PROVE  AskInv'
<1>1. ASSUME NEW d \in Clients, d # c PROVE Asks(d)'
  <2>1. Asks(d)
    BY DEF AskInv
  <2> QED BY <1>1, <2>1, AsksKept
<1>2. Asks(c)'
  BY DEF Asks
<1> QED BY <1>1, <1>2 DEF AskInv

LEMMA AsksClient ==
  ASSUME TypeOK, AskInv, NEW c \in Clients,
         \/ \E v \in Sizes \cup {0} : ClientAttach(c, v)
         \/ ClientDetach(c)
         \/ \E v \in Sizes : ClientResize(c, v)
         \/ ClientAck(c)
  PROVE  AskInv'
<1>0. /\ up \in [Clients -> Seq(ClientMessage)] /\ up[c] \in Seq(ClientMessage)
      /\ client \in [Clients -> Replica] /\ client[c] \in Replica
      /\ InTime(c, up[c], attached, client[c].mode)
  BY DEF TypeOK, AskInv, Asks
<1>1. UNCHANGED <<attached, queue, held, pass, owed, down>>
  BY DEF ClientAttach, ClientDetach, ClientResize, ClientAck, connVars
<1>2. \A d \in Clients : d # c => up'[d] = up[d] /\ client'[d] = client[d]
  BY <1>0 DEF ClientAttach, ClientDetach, ClientResize, ClientAck, Send
<1>3. \A m \in ClientMessage : up[c] \o <<m>> = Append(up[c], m)
  BY <1>0
<1>4. ASSUME NEW v \in Sizes \cup {0}, ClientAttach(c, v) PROVE AskInv'
  <2>1. Attach(v) \in ClientMessage /\ Attach(v).t = "Attach"
    BY SizesAssumption, MessageTypes DEF Attach
  <2>2. up'[c] = Append(up[c], Attach(v)) /\ client'[c].mode # "gone"
    <3>1. up'[c] = up[c] \o <<Attach(v)>>
      BY <1>0, <1>4 DEF ClientAttach, Send
    <3>2. client[c].mode \in {"off", "live"}
      BY <1>4 DEF ClientAttach
    <3>3. client'[c] = Counted(client[c], IF client[c].mode = "off" THEN "attaching" ELSE client[c].mode)
      BY <1>0, <1>4 DEF ClientAttach
    <3>4. client'[c].mode = IF client[c].mode = "off" THEN "attaching" ELSE client[c].mode
      BY <1>0, <3>3 DEF Counted, Replica
    <3> QED BY <1>3, <2>1, <3>1, <3>2, <3>4
  <2>3. InTime(c, Append(up[c], Attach(v)), attached, client'[c].mode)
    BY <1>0, <2>1, SaysMore
  <2> QED BY <1>1, <1>2, <2>2, <2>3, OneSpeaks
<1>5. CASE ClientDetach(c)
  <2>1. Detach \in ClientMessage /\ Detach.t = "Detach"
    BY MessageTypes DEF Detach
  <2>2. up'[c] = Append(up[c], Detach) /\ client'[c].mode = "off"
    <3>1. up'[c] = up[c] \o <<Detach>>
      BY <1>0, <1>5 DEF ClientDetach, Send
    <3>2. client'[c] = [NewClient EXCEPT !.ops = client[c].ops + 1]
      BY <1>0, <1>5 DEF ClientDetach
    <3> QED BY <1>3, <2>1, <3>1, <3>2 DEF NewClient
  <2>3. InTime(c, Append(up[c], Detach), attached, client'[c].mode)
    BY <1>0, <2>1, <2>2, SaysMore
  <2> QED BY <1>1, <1>2, <2>2, <2>3, OneSpeaks
<1>6. ASSUME NEW v \in Sizes, ClientResize(c, v) PROVE AskInv'
  <2>1. /\ Resize(v) \in ClientMessage /\ Resize(v).t = "Resize"
        /\ RequestKeyframe \in ClientMessage /\ RequestKeyframe.t = "RequestKeyframe"
    BY SizesAssumption, MessageTypes DEF Resize, RequestKeyframe
  <2>2. client[c].mode \in {"attaching", "live"} /\ client'[c].mode = client[c].mode
    <3>1. client'[c] = [client[c] EXCEPT !.ops = client[c].ops + 1]
      BY <1>0, <1>6 DEF ClientResize
    <3>2. client'[c].mode = client[c].mode
      BY <1>0, <3>1 DEF Replica
    <3>3. client[c].mode \in {"attaching", "live"}
      BY <1>6 DEF ClientResize, Linked
    <3> QED BY <3>2, <3>3
  <2> DEFINE q == Append(up[c], Resize(v))
  <2>3. q \in Seq(ClientMessage) /\ InTime(c, q, attached, client[c].mode)
    BY <1>0, <2>1, <2>2, SaysMore
  <2>4. InTime(c, Append(q, RequestKeyframe), attached, client[c].mode)
    <3> HIDE DEF q
    <3> QED BY <2>1, <2>2, <2>3, SaysMore
  <2>5. up'[c] = q \/ up'[c] = Append(q, RequestKeyframe)
    <3>1. \/ up'[c] = up[c] \o <<Resize(v)>>
          \/ up'[c] = up[c] \o <<Resize(v), RequestKeyframe>>
      BY <1>0, <1>6 DEF ClientResize, Send
    <3>2. ASSUME NEW m \in ClientMessage, NEW n \in ClientMessage
          PROVE  up[c] \o <<m, n>> = Append(Append(up[c], m), n)
      BY <1>0
    <3> QED BY <1>3, <2>1, <3>1, <3>2
  <2> HIDE DEF q
  <2>6. InTime(c, up'[c], attached, client'[c].mode) /\ client'[c].mode # "gone"
    BY <2>2, <2>3, <2>4, <2>5
  <2> QED BY <1>1, <1>2, <2>6, OneSpeaks
<1>7. CASE ClientAck(c)
  <2>1. client[c].applied \in Nat /\ client[c].mode \in {"attaching", "live"}
    BY <1>0, <1>7 DEF ClientAck, Linked, TypeOK, Replica
  <2>2. Ack(client[c].applied) \in ClientMessage /\ Ack(client[c].applied).t = "Ack"
    BY <2>1, MessageTypes DEF Ack
  <2>3. up'[c] = Append(up[c], Ack(client[c].applied))
    <3>1. up'[c] = up[c] \o <<Ack(client[c].applied)>>
      BY <1>0, <1>7 DEF ClientAck, Send
    <3> QED BY <1>3, <2>2, <3>1
  <2>4. client'[c].mode = client[c].mode
    <3>1. client'[c] = [client[c] EXCEPT !.ackDue = FALSE]
      BY <1>0, <1>7 DEF ClientAck
    <3> QED BY <1>0, <3>1 DEF Replica
  <2>5. InTime(c, up'[c], attached, client'[c].mode)
    BY <1>0, <2>1, <2>2, <2>3, <2>4, SaysMore
  <2> QED BY <1>1, <1>2, <2>1, <2>4, <2>5, OneSpeaks
<1> QED BY <1>4, <1>5, <1>6, <1>7

LEMMA AsksRecv ==
  ASSUME TypeOK, AskInv, NEW c \in Clients, ClientRecv(c)
  PROVE  AskInv'
<1> DEFINE r == client[c]
           m == Head(down[c])
<1>0. /\ up \in [Clients -> Seq(ClientMessage)] /\ up[c] \in Seq(ClientMessage)
      /\ client \in [Clients -> Replica] /\ r \in Replica
      /\ down \in [Clients -> Seq(HostMessage)] /\ down[c] # <<>>
      /\ InTime(c, up[c], attached, r.mode)
      /\ r.mode \notin {"done", "gone"}
  BY DEF TypeOK, AskInv, Asks, ClientRecv, Closed
<1>1. /\ UNCHANGED <<attached, queue, held, pass, owed>> /\ down' = [down EXCEPT ![c] = Tail(down[c])]
      /\ RecvKeyframe(c) \/ RecvUpdate(c) \/ RecvOther(c)
  BY DEF ClientRecv, connVars
<1>2. \A d \in Clients : d # c => up'[d] = up[d] /\ client'[d] = client[d] /\ down'[d] = down[d]
  BY <1>0, <1>1 DEF RecvKeyframe, RecvUpdate, RecvOther, Send
<1>3. CASE RecvKeyframe(c)
  <2>1. up' = up /\ client'[c] = IF r.mode = "off" THEN r ELSE Adopt(r, m)
    BY <1>0, <1>3 DEF RecvKeyframe
  <2>2. \/ client'[c].mode = r.mode
        \/ client'[c].mode = "live" /\ r.mode \in {"attaching", "live"}
    BY <1>0, <2>1 DEF Adopt, Replica
  <2>3. InTime(c, up'[c], attached, client'[c].mode) /\ client'[c].mode # "gone"
    BY <1>0, <2>1, <2>2, InTimeSame
  <2> QED BY <1>1, <1>2, <2>3, OneSpeaks
<1>4. CASE RecvUpdate(c)
  <2>1. client'[c].mode = r.mode
    <3>1. \/ client' = client
          \/ client' = [client EXCEPT ![c] = [r EXCEPT !.awaiting = TRUE]]
          \/ client' = [client EXCEPT ![c] = Torn(r, m)]
          \/ client' = [client EXCEPT ![c] = Applied(r, m)]
      <4>1. ASSUME client' = [client EXCEPT ![c] = IF Stale(r, m) THEN r ELSE Torn(r, m)]
            PROVE  client' = client \/ client' = [client EXCEPT ![c] = Torn(r, m)]
        BY <1>0, <4>1
      <4> QED BY <1>4, <1>0, <4>1 DEF RecvUpdate
    <3>2. /\ [r EXCEPT !.awaiting = TRUE].mode = r.mode
          /\ Torn(r, m).mode = r.mode /\ Applied(r, m).mode = r.mode
      BY <1>0 DEF Torn, Applied, Replica
    <3> QED BY <1>0, <3>1, <3>2
  <2>2. \/ up'[c] = up[c]
        \/ up'[c] = Append(up[c], RequestKeyframe) /\ r.mode \in {"attaching", "live"}
    <3>1. \/ up' = up \/ Send(c, <<>>)
          \/ Send(c, <<RequestKeyframe>>) /\ r.mode \in {"attaching", "live"}
      BY <1>4 DEF RecvUpdate
    <3>2. up[c] \o <<>> = up[c] /\ up[c] \o <<RequestKeyframe>> = Append(up[c], RequestKeyframe)
      BY <1>0, MessageTypes
    <3> QED BY <1>0, <3>1, <3>2 DEF Send
  <2>3. InTime(c, up'[c], attached, r.mode)
    <3>1. RequestKeyframe \in ClientMessage /\ RequestKeyframe.t = "RequestKeyframe"
      BY MessageTypes DEF RequestKeyframe
    <3> QED BY <1>0, <2>2, <3>1, SaysMore
  <2> QED BY <1>0, <1>1, <1>2, <2>1, <2>3, OneSpeaks
<1>5. CASE RecvOther(c)
  <2>1. up' = up /\ client'[c].mode \in {r.mode, "done"}
    <3>1. client' = [client EXCEPT ![c].mode = "done"] \/ client' = [client EXCEPT ![c].mode = @]
      BY <1>5, Zenon DEF RecvOther
    <3> QED BY <1>0, <1>5, <3>1 DEF RecvOther, Replica
  <2>2. client'[c].mode \in {"attaching", "live"} => r.mode \in {"attaching", "live"}
    BY <2>1
  <2>3. InTime(c, up[c], attached, client'[c].mode)
    BY <1>0, <2>2, InTimeSame
  <2>4. up'[c] = up[c] /\ client'[c].mode # "gone"
    BY <1>0, <2>1
  <2> QED BY <1>1, <1>2, <2>3, <2>4, OneSpeaks
<1> QED BY <1>1, <1>3, <1>4, <1>5

(* Connection::drop: what is left of the link says nothing any more. *)
LEMMA AsksLinkDown ==
  ASSUME TypeOK, AskInv, NEW c \in Clients, LinkDown(c)
  PROVE  AskInv'
<1> DEFINE s == IF c \in attached THEN DoDetach(Locked, c) ELSE Locked
<1>0. /\ SharedOK(Locked) /\ title \in Nat /\ Locked.attached = attached /\ Locked.queue = queue
      /\ queue \in [Clients -> Seq(Seq(HostMessage))] /\ held \in [Clients -> Seq(Seq(HostMessage))]
      /\ pass \in [Clients -> [on : BOOLEAN, out : Seq(HostMessage),
                               updates : BOOLEAN, ended : BOOLEAN]]
      /\ owed \in [Clients -> BOOLEAN] /\ down \in [Clients -> Seq(HostMessage)]
      /\ up \in [Clients -> Seq(ClientMessage)] /\ client \in [Clients -> Replica]
      /\ client[c] \in Replica
  BY DEF TypeOK, SharedOK, Locked, Shared
<1>1. /\ attached' = s.attached /\ queue' = [s.queue EXCEPT ![c] = <<>>]
      /\ held' = [held EXCEPT ![c] = <<>>] /\ pass' = [pass EXCEPT ![c] = Idle]
      /\ owed' = [owed EXCEPT ![c] = FALSE] /\ up' = [up EXCEPT ![c] = <<>>]
      /\ down' = [down EXCEPT ![c] = <<>>]
  BY DEF LinkDown
<1>2. s.attached = attached \ {c} /\ WakesOnly(Locked, s, attached) /\ SharedOK(s)
  BY <1>0, Detached, OperationsType, OperationsWakeOnly
<1> HIDE DEF s
<1>3. /\ client'[c].mode \notin {"attaching", "live"}
      /\ \A d \in Clients : d # c => client'[d] = client[d]
  <2>1. \/ client' = [client EXCEPT ![c] = [client[c] EXCEPT !.mode = "gone"]]
        \/ client' = [client EXCEPT ![c] = [NewClient EXCEPT !.ops = client[c].ops + 1]]
        \/ client' = [client EXCEPT ![c] = Counted(client[c], "off")]
    BY DEF LinkDown
  <2>2. /\ [client[c] EXCEPT !.mode = "gone"].mode = "gone"
        /\ [NewClient EXCEPT !.ops = client[c].ops + 1].mode = "off"
        /\ Counted(client[c], "off").mode = "off"
    BY <1>0 DEF NewClient, Counted, Replica
  <2> QED BY <1>0, <2>1, <2>2
<1>4. Asks(c)'
  <2>1. /\ c \notin attached' /\ held'[c] = <<>> /\ ~pass'[c].on
        /\ ~owed'[c] /\ up'[c] = <<>> /\ down'[c] = <<>>
    BY <1>0, <1>1, <1>2 DEF Idle
  <2>2. queue'[c] = <<>>
    BY <1>1, <1>2 DEF SharedOK
  <2>3. InTime(c, up'[c], attached', client'[c].mode)
    BY <1>3, <2>1, NothingSaid
  <2> QED BY <2>1, <2>2, <2>3 DEF Asks, Closed
<1>5. ASSUME NEW d \in Clients, d # c PROVE Asks(d)'
  <2>1. /\ Asks(d) /\ up'[d] = up[d] /\ client'[d] = client[d] /\ held'[d] = held[d]
        /\ pass'[d] = pass[d] /\ owed'[d] = owed[d] /\ down'[d] = down[d]
        /\ (d \in attached' <=> d \in attached)
    BY <1>0, <1>1, <1>2, <1>3, <1>5 DEF AskInv
  <2>2. d \notin attached => queue'[d] = queue[d]
    <3>1. s.queue[d] = queue[d] \/ d \in attached
      BY <1>0, <1>2 DEF WakesOnly
    <3>2. queue'[d] = s.queue[d]
      BY <1>1, <1>2, <1>5 DEF SharedOK
    <3> QED BY <3>1, <3>2
  <2>3. Closed(d) => queue'[d] = queue[d]
    BY <2>2 DEF Closed
  <2> QED BY <2>1, <2>3, AsksKept
<1> QED BY <1>4, <1>5 DEF AskInv

LEMMA AskNext == TypeOK /\ AskInv /\ [Next]_vars => AskInv'
<1> SUFFICES ASSUME TypeOK, AskInv, [Next]_vars PROVE AskInv'
  OBVIOUS
<1>1. CASE UNCHANGED vars
  <2>1. UNCHANGED <<attached, queue, held, pass, owed, up, down, client>>
    BY <1>1 DEF vars
  <2> QED BY <2>1, AsksKept DEF AskInv
<1>2. CASE Next
  <2>1. CASE \/ \E n \in 0..MaxBurst, visible \in BOOLEAN, ev \in SUBSET Happenings :
                  ReaderParse(n, visible, ev)
             \/ ReaderStamp \/ DispatchTitle \/ KeyframeEveryone \/ TellEveryone \/ ReaderWake
             \/ ReaderEof
    BY <2>1, AsksReader
  <2>2. ASSUME NEW c \in Clients, HandleMsg(c) PROVE AskInv'
    BY <2>2, AsksHandler
  <2>3. ASSUME NEW c \in Clients,
               \/ Enqueue(c) \/ TakeWake(c) \/ TakeOwed(c) \/ FloorElapses(c)
               \/ \E lost \in BOOLEAN : Poll(c, lost)
        PROVE  AskInv'
    BY <2>3, AsksWriter
  <2>4. ASSUME NEW c \in Clients,
               \/ \E v \in Sizes \cup {0} : ClientAttach(c, v)
               \/ ClientDetach(c)
               \/ \E v \in Sizes : ClientResize(c, v)
               \/ ClientAck(c)
        PROVE  AskInv'
    BY <2>4, AsksClient
  <2>5. ASSUME NEW c \in Clients, ClientRecv(c) PROVE AskInv'
    BY <2>5, AsksRecv
  <2>6. ASSUME NEW c \in Clients, LinkDown(c) PROVE AskInv'
    BY <2>6, AsksLinkDown
  <2> QED BY <1>2, <2>1, <2>2, <2>3, <2>4, <2>5, <2>6 DEF Next, HandleMsg
<1> QED BY <1>1, <1>2
-----------------------------------------------------------------------------
(* What is said to a client.  Replies carry keyframes and nothing else, and what
   is written is one of four messages. *)
Among(kinds, msgs) == \A i \in 1..Len(msgs) : msgs[i].t \in kinds
BatchesAmong(kinds, batches) == \A i \in 1..Len(batches) : Among(kinds, batches[i])
Answers == {"Keyframe"}
Told == {"Keyframe", "Update", "Attention", "Exited"}

TalkInv ==
  \A c \in Clients :
    /\ BatchesAmong(Answers, held[c]) /\ BatchesAmong(Answers, queue[c])
    /\ Among(Answers, pass[c].out) /\ Among(Told, down[c])

LEMMA NothingAmong == Among(Answers, <<>>) /\ Among(Told, <<>>) /\ BatchesAmong(Answers, <<>>)
BY DEF Among, BatchesAmong

LEMMA AmongJoined ==
  ASSUME NEW kinds, NEW a \in Seq(HostMessage), NEW b \in Seq(HostMessage),
         Among(kinds, a), Among(kinds, b)
  PROVE  Among(kinds, a \o b) /\ a \o b \in Seq(HostMessage)
<1> SUFFICES ASSUME NEW i \in 1..Len(a \o b) PROVE (a \o b)[i].t \in kinds
  BY DEF Among
<1>1. CASE i <= Len(a)
  BY <1>1 DEF Among
<1>2. CASE i > Len(a)
  <2>1. i - Len(a) \in 1..Len(b) /\ (a \o b)[i] = b[i - Len(a)]
    BY <1>2
  <2> QED BY <2>1 DEF Among
<1> QED BY <1>1, <1>2

LEMMA AmongTail ==
  ASSUME NEW kinds, NEW a \in Seq(HostMessage), a # <<>>, Among(kinds, a)
  PROVE  Among(kinds, Tail(a))
<1>1. ASSUME NEW i \in 1..Len(Tail(a)) PROVE Tail(a)[i].t \in kinds
  <2>1. i + 1 \in 1..Len(a) /\ Tail(a)[i] = a[i + 1]
    OBVIOUS
  <2> QED BY <2>1 DEF Among
<1> QED BY <1>1 DEF Among

LEMMA AmongEnqueued ==
  ASSUME NEW q \in Seq(Seq(HostMessage)), BatchesAmong(Answers, q),
         NEW r \in Seq(HostMessage), Among(Answers, r)
  PROVE  BatchesAmong(Answers, Enqueued(q, r))
<1> DEFINE Batch == Seq(HostMessage)
<1>1. q \in Seq(Batch) /\ r \in Batch
  OBVIOUS
<1> HIDE DEF Batch
<1>2. ASSUME NEW i \in 1..Len(Append(q, r)) PROVE Among(Answers, Append(q, r)[i])
  <2>1. CASE i <= Len(q)
    <3>1. i \in 1..Len(q) /\ Append(q, r)[i] = q[i]
      BY <1>1, <2>1
    <3> QED BY <3>1 DEF BatchesAmong
  <2>2. CASE i > Len(q)
    <3>1. Append(q, r)[i] = r
      BY <1>1, <2>2
    <3> QED BY <3>1
  <2> QED BY <1>1, <2>1, <2>2
<1> QED BY <1>2 DEF Enqueued, BatchesAmong

LEMMA AmongTaken ==
  ASSUME NEW q \in Seq(Seq(HostMessage)), q # <<>>, BatchesAmong(Answers, q)
  PROVE  Among(Answers, q[1]) /\ Among(Answers, Head(q)) /\ BatchesAmong(Answers, Tail(q))
<1> DEFINE Batch == Seq(HostMessage)
<1>1. q \in Seq(Batch)
  OBVIOUS
<1> HIDE DEF Batch
<1>2. 1 \in 1..Len(q) /\ Head(q) = q[1]
  BY <1>1
<1>3. ASSUME NEW i \in 1..Len(Tail(q)) PROVE Among(Answers, Tail(q)[i])
  <2>1. i + 1 \in 1..Len(q) /\ Tail(q)[i] = q[i + 1]
    BY <1>1
  <2> QED BY <2>1 DEF BatchesAmong
<1> QED BY <1>2, <1>3 DEF BatchesAmong

LEMMA TalkTypes ==
  ASSUME TypeOK
  PROVE  /\ queue \in [Clients -> Seq(Seq(HostMessage))] /\ held \in [Clients -> Seq(Seq(HostMessage))]
         /\ pass \in [Clients -> [on : BOOLEAN, out : Seq(HostMessage),
                                  updates : BOOLEAN, ended : BOOLEAN]]
         /\ down \in [Clients -> Seq(HostMessage)] /\ subs \in [Clients -> Subscriber]
         /\ Locked.queue = queue
BY DEF TypeOK, SharedOK, Locked, Shared

(* A wake carries nothing. *)
LEMMA WokenTalk ==
  ASSUME TypeOK, TalkInv, NEW d \in Clients,
         queue'[d] = queue[d] \/ queue'[d] = Enqueued(queue[d], <<>>)
  PROVE  BatchesAmong(Answers, queue'[d])
BY TalkTypes, AmongEnqueued, NothingAmong, EmptyReplies DEF TalkInv

LEMMA TalkHandler ==
  ASSUME TypeOK, AskInv, TalkInv, NEW c \in Clients, HandleMsg(c)
  PROVE  TalkInv'
<1>1. PICK kind, s :
        /\ kind \in {"Attach", "RequestKeyframe", "Detach", "Resize", "Ack"}
        /\ Receive(c, kind) /\ Install(s) /\ Operation(c, kind, s)
        /\ \/ Reply(c, <<>>)
           \/ kind \in {"Attach", "RequestKeyframe"} /\ \E t : Reply(c, <<StateOf(t)>>) /\ SharedOK(t)
           \/ kind = "RequestKeyframe" /\ c \notin attached /\ Reply(c, <<Error>>)
  BY HandlerCases
<1>2. kind = "RequestKeyframe" => c \in attached
  BY <1>1, RequestsFit
<1>3. \E r : Reply(c, r) /\ Among(Answers, r)
  <2>1. \A t : Among(Answers, <<StateOf(t)>>)
    BY DEF Among, Answers, StateOf, Keyframe
  <2>2. Reply(c, <<>>) \/ \E t : Reply(c, <<StateOf(t)>>)
    BY <1>1, <1>2
  <2> QED BY <2>1, <2>2, NothingAmong
<1>4. PICK r : held' = [held EXCEPT ![c] = <<r>>] /\ Among(Answers, r)
  BY <1>3 DEF Reply
<1>5. BatchesAmong(Answers, <<r>>)
  BY <1>4 DEF BatchesAmong
<1>6. ASSUME NEW d \in Clients PROVE BatchesAmong(Answers, held'[d]) /\ BatchesAmong(Answers, queue'[d])
  <2>1. BatchesAmong(Answers, held'[d])
    BY <1>4, <1>5, TalkTypes DEF TalkInv
  <2>2. queue'[d] = queue[d] \/ queue'[d] = Enqueued(queue[d], <<>>)
    BY <1>1, TalkTypes DEF Install, Operation, WakesOnly
  <2> QED BY <2>1, <2>2, WokenTalk
<1>7. UNCHANGED <<pass, down>>
  BY <1>1 DEF Receive
<1> QED BY <1>6, <1>7 DEF TalkInv

(* What a pass writes: the replies it took, then what poll has, then the bell,
   then Exited when the pass is to end. *)
LEMMA PollSays ==
  ASSUME TypeOK, NEW c \in Clients, NEW lost \in BOOLEAN, Poll(c, lost)
  PROVE  \E update, bell, end \in Seq(HostMessage) :
           /\ down'[c] = down[c] \o pass[c].out \o update \o bell \o end
           /\ Among({"Keyframe", "Update"}, update) /\ Among({"Attention"}, bell)
           /\ end = IF Ending(c) THEN <<Exited>> ELSE <<>>
<1> DEFINE polls == c \in attached /\ (pass[c].updates \/ pass[c].ended)
           update == IF polls THEN Polled(c, lost) ELSE <<>>
           bell == IF c \in attached /\ subs[c].bell THEN <<Attention>> ELSE <<>>
           end == IF Ending(c) THEN <<Exited>> ELSE <<>>
<1>1. down'[c] = down[c] \o pass[c].out \o update \o bell \o end
  BY TalkTypes DEF Poll
<1>2. Polled(c, lost) \in Seq(HostMessage) /\ Among({"Keyframe", "Update"}, Polled(c, lost))
  <2>1. \A q, p, t : Among({"Keyframe", "Update"}, <<Keyframe(q, p, t)>>)
    BY DEF Among, Keyframe
  <2>2. \A b, q, was, now, rows, t : Among({"Keyframe", "Update"}, <<Update(b, q, was, now, rows, t)>>)
    BY DEF Among, Update
  <2>3. Among({"Keyframe", "Update"}, <<>>)
    BY DEF Among
  <2> QED BY <2>1, <2>2, <2>3, PolledType DEF Polled
<1>3. update \in Seq(HostMessage) /\ Among({"Keyframe", "Update"}, update)
  <2>1. <<>> \in Seq(HostMessage) /\ Among({"Keyframe", "Update"}, <<>>)
    BY DEF Among
  <2> QED BY <1>2, <2>1
<1>4. bell \in Seq(HostMessage) /\ Among({"Attention"}, bell)
  <2>1. <<>> \in Seq(HostMessage) /\ Among({"Attention"}, <<>>)
    BY DEF Among
  <2>2. <<Attention>> \in Seq(HostMessage) /\ Among({"Attention"}, <<Attention>>)
    BY MessageTypes DEF Among, Attention
  <2> QED BY <2>1, <2>2
<1>5. end \in Seq(HostMessage)
  BY MessageTypes
<1> HIDE DEF update, bell, end
<1>6. end = IF Ending(c) THEN <<Exited>> ELSE <<>>
  BY DEF end
<1> QED BY <1>1, <1>3, <1>4, <1>5, <1>6

LEMMA AmongWider ==
  ASSUME NEW kinds, NEW wider, kinds \subseteq wider, NEW msgs, Among(kinds, msgs)
  PROVE  Among(wider, msgs)
BY DEF Among

LEMMA TalkPoll ==
  ASSUME TypeOK, TalkInv, NEW c \in Clients, NEW lost \in BOOLEAN, Poll(c, lost)
  PROVE  TalkInv'
<1>1. PICK update, bell, end \in Seq(HostMessage) :
        /\ down'[c] = down[c] \o pass[c].out \o update \o bell \o end
        /\ Among({"Keyframe", "Update"}, update) /\ Among({"Attention"}, bell)
        /\ end = IF Ending(c) THEN <<Exited>> ELSE <<>>
  BY PollSays
<1>2. Among(Told, end)
  <2>1. Among(Told, <<Exited>>)
    BY DEF Among, Told, Exited
  <2> QED BY <1>1, <2>1, NothingAmong
<1>3. Among(Told, down[c]) /\ Among(Told, pass[c].out) /\ Among(Told, update) /\ Among(Told, bell)
  <2>1. Answers \subseteq Told /\ {"Keyframe", "Update"} \subseteq Told /\ {"Attention"} \subseteq Told
    BY DEF Answers, Told
  <2> QED BY <1>1, <2>1, AmongWider DEF TalkInv
<1>4. Among(Told, down'[c])
  <2>0. down[c] \in Seq(HostMessage) /\ pass[c].out \in Seq(HostMessage)
    BY TalkTypes
  <2>1. down[c] \o pass[c].out \in Seq(HostMessage) /\ Among(Told, down[c] \o pass[c].out)
    BY <1>3, <2>0, AmongJoined
  <2>2. /\ (down[c] \o pass[c].out) \o update \in Seq(HostMessage)
        /\ Among(Told, (down[c] \o pass[c].out) \o update)
    BY <1>3, <2>1, AmongJoined
  <2>3. /\ ((down[c] \o pass[c].out) \o update) \o bell \in Seq(HostMessage)
        /\ Among(Told, ((down[c] \o pass[c].out) \o update) \o bell)
    BY <1>3, <2>2, AmongJoined, Zenon
  <2>4. Among(Told, (((down[c] \o pass[c].out) \o update) \o bell) \o end)
    BY <1>1, <1>2, <2>3, AmongJoined, Zenon
  <2> QED BY <1>1, <2>4, Zenon
<1>5. /\ UNCHANGED <<queue, held>> /\ pass' = [pass EXCEPT ![c] = Idle]
      /\ \A d \in Clients : d # c => down'[d] = down[d]
  BY TalkTypes DEF Poll
<1>6. \A d \in Clients : Among(Answers, pass'[d].out)
  <2>1. Idle.out = <<>>
    BY DEF Idle
  <2> QED BY <1>5, <2>1, TalkTypes, NothingAmong DEF TalkInv
<1> QED BY <1>4, <1>5, <1>6 DEF TalkInv

LEMMA TalkWriter ==
  ASSUME TypeOK, TalkInv, NEW c \in Clients, Enqueue(c) \/ TakeWake(c) \/ TakeOwed(c) \/ FloorElapses(c)
  PROVE  TalkInv'
<1>1. CASE Enqueue(c)
  <2>1. held[c] \in Seq(Seq(HostMessage)) /\ held[c] # <<>> /\ queue[c] \in Seq(Seq(HostMessage))
    BY <1>1, TalkTypes DEF Enqueue
  <2>2. held[c][1] \in Seq(HostMessage)
    <3>1. held[c][1] = Head(held[c])
      BY <2>1
    <3> QED BY <2>1, <3>1, QueueParts
  <2>3. BatchesAmong(Answers, Enqueued(queue[c], held[c][1]))
    BY <2>1, <2>2, AmongTaken, AmongEnqueued DEF TalkInv
  <2>4. /\ queue' = [queue EXCEPT ![c] = Enqueued(queue[c], held[c][1])]
        /\ held' = [held EXCEPT ![c] = <<>>] /\ UNCHANGED <<pass, down>>
    BY <1>1 DEF Enqueue
  <2> QED BY <2>3, <2>4, TalkTypes, NothingAmong DEF TalkInv
<1>2. ASSUME NEW out \in Seq(HostMessage), Among(Answers, out), Begin(c, out)
      PROVE  \A d \in Clients : Among(Answers, pass'[d].out)
  <2>1. pass' = [pass EXCEPT ![c] = [on |-> TRUE, out |-> out, updates |-> ~recent[c], ended |-> exited]]
    BY <1>2 DEF Begin
  <2>2. \A d \in Clients : pass'[d].out = IF d = c THEN out ELSE pass[d].out
    BY <2>1, TalkTypes
  <2> QED BY <1>2, <2>2 DEF TalkInv
<1>3. CASE TakeWake(c)
  <2>1. queue[c] \in Seq(Seq(HostMessage)) /\ queue[c] # <<>>
    BY <1>3, TalkTypes DEF TakeWake
  <2>2. /\ Head(queue[c]) \in Seq(HostMessage) /\ Among(Answers, Head(queue[c]))
        /\ BatchesAmong(Answers, Tail(queue[c]))
    BY <2>1, QueueParts, AmongTaken DEF TalkInv
  <2>3. /\ Begin(c, Head(queue[c])) /\ queue' = [queue EXCEPT ![c] = Tail(queue[c])]
        /\ UNCHANGED <<held, down>>
    BY <1>3 DEF TakeWake
  <2>4. \A d \in Clients : BatchesAmong(Answers, queue'[d])
    BY <2>2, <2>3, TalkTypes DEF TalkInv
  <2>5. \A d \in Clients : Among(Answers, pass'[d].out)
    BY <1>2, <2>2, <2>3
  <2> QED BY <2>3, <2>4, <2>5 DEF TalkInv
<1>4. CASE TakeOwed(c)
  <2>1. Begin(c, <<>>) /\ UNCHANGED <<queue, held, down>>
    BY <1>4 DEF TakeOwed
  <2>2. \A d \in Clients : Among(Answers, pass'[d].out)
    BY <1>2, <2>1, EmptyReplies, NothingAmong
  <2> QED BY <2>1, <2>2 DEF TalkInv
<1>5. CASE FloorElapses(c)
  BY <1>5 DEF FloorElapses, TalkInv
<1> QED BY <1>1, <1>3, <1>4, <1>5

LEMMA TalkReader ==
  ASSUME TypeOK, TalkInv,
         \/ \E n \in 0..MaxBurst, visible \in BOOLEAN, ev \in SUBSET Happenings :
              ReaderParse(n, visible, ev)
         \/ ReaderStamp \/ DispatchTitle \/ KeyframeEveryone \/ TellEveryone \/ ReaderWake
         \/ ReaderEof
  PROVE  TalkInv'
<1>1. UNCHANGED <<held, pass, down>> /\ (queue' = queue \/ queue' = WakeAll(queue, attached))
  BY DEF ReaderParse, ReaderStamp, DispatchTitle, KeyframeEveryone, TellEveryone, ReaderWake,
         ReaderEof, connVars
<1>2. ASSUME NEW d \in Clients PROVE queue'[d] = queue[d] \/ queue'[d] = Enqueued(queue[d], <<>>)
  BY <1>1 DEF WakeAll
<1> QED BY <1>1, <1>2, WokenTalk DEF TalkInv

LEMMA TalkLinkDown ==
  ASSUME TypeOK, TalkInv, NEW c \in Clients, LinkDown(c)
  PROVE  TalkInv'
<1> DEFINE s == IF c \in attached THEN DoDetach(Locked, c) ELSE Locked
<1>1. /\ queue' = [s.queue EXCEPT ![c] = <<>>] /\ held' = [held EXCEPT ![c] = <<>>]
      /\ pass' = [pass EXCEPT ![c] = Idle] /\ down' = [down EXCEPT ![c] = <<>>]
  BY DEF LinkDown
<1>2. WakesOnly(Locked, s, Locked.attached) /\ SharedOK(s)
  <2>1. SharedOK(Locked) /\ title \in Nat
    BY DEF TypeOK
  <2> QED BY <2>1, OperationsType, OperationsWakeOnly
<1> HIDE DEF s
<1>3. ASSUME NEW d \in Clients PROVE BatchesAmong(Answers, queue'[d])
  <2>1. CASE d = c
    <3>1. queue'[d] = <<>>
      BY <1>1, <1>2, <2>1 DEF SharedOK
    <3> QED BY <3>1, NothingAmong
  <2>2. CASE d # c
    <3>1. queue'[d] = s.queue[d]
      BY <1>1, <1>2, <2>2 DEF SharedOK
    <3>2. s.queue[d] = queue[d] \/ s.queue[d] = Enqueued(queue[d], <<>>)
      BY <1>2, TalkTypes DEF WakesOnly
    <3> QED BY <3>1, <3>2, WokenTalk
  <2> QED BY <2>1, <2>2
<1>4. \A d \in Clients : Among(Answers, pass'[d].out)
  <2>1. Idle.out = <<>>
    BY DEF Idle
  <2> QED BY <1>1, <2>1, TalkTypes, NothingAmong DEF TalkInv
<1>5. \A d \in Clients : BatchesAmong(Answers, held'[d]) /\ Among(Told, down'[d])
  BY <1>1, TalkTypes, NothingAmong DEF TalkInv
<1> QED BY <1>3, <1>4, <1>5 DEF TalkInv

LEMMA TalkNext == TypeOK /\ AskInv /\ TalkInv /\ [Next]_vars => TalkInv'
<1> SUFFICES ASSUME TypeOK, AskInv, TalkInv, [Next]_vars PROVE TalkInv'
  OBVIOUS
<1>1. CASE UNCHANGED vars
  BY <1>1 DEF vars, TalkInv
<1>2. CASE Next
  <2>1. CASE \/ \E n \in 0..MaxBurst, visible \in BOOLEAN, ev \in SUBSET Happenings :
                  ReaderParse(n, visible, ev)
             \/ ReaderStamp \/ DispatchTitle \/ KeyframeEveryone \/ TellEveryone \/ ReaderWake
             \/ ReaderEof
    BY <2>1, TalkReader
  <2>2. ASSUME NEW c \in Clients, HandleMsg(c) PROVE TalkInv'
    BY <2>2, TalkHandler
  <2>3. ASSUME NEW c \in Clients, Enqueue(c) \/ TakeWake(c) \/ TakeOwed(c) \/ FloorElapses(c)
        PROVE  TalkInv'
    BY <2>3, TalkWriter
  <2>4. ASSUME NEW c \in Clients, NEW lost \in BOOLEAN, Poll(c, lost) PROVE TalkInv'
    BY <2>4, TalkPoll
  <2>5. ASSUME NEW c \in Clients,
               \/ \E v \in Sizes \cup {0} : ClientAttach(c, v)
               \/ ClientDetach(c)
               \/ \E v \in Sizes : ClientResize(c, v)
               \/ ClientAck(c)
        PROVE  TalkInv'
    <3>1. UNCHANGED <<queue, held, pass, down>>
      BY <2>5 DEF ClientAttach, ClientDetach, ClientResize, ClientAck, connVars
    <3> QED BY <3>1 DEF TalkInv
  <2>6. ASSUME NEW c \in Clients, ClientRecv(c) PROVE TalkInv'
    <3>1. /\ down[c] \in Seq(HostMessage) /\ down[c] # <<>>
          /\ down' = [down EXCEPT ![c] = Tail(down[c])] /\ UNCHANGED <<queue, held, pass>>
      BY <2>6, TalkTypes DEF ClientRecv, connVars
    <3>2. Among(Told, Tail(down[c]))
      BY <3>1, AmongTail DEF TalkInv
    <3> QED BY <3>1, <3>2, TalkTypes DEF TalkInv
  <2>7. ASSUME NEW c \in Clients, LinkDown(c) PROVE TalkInv'
    BY <2>7, TalkLinkDown
  <2> QED BY <1>2, <2>1, <2>2, <2>3, <2>4, <2>5, <2>6, <2>7 DEF Next, HandleMsg
<1> QED BY <1>1, <1>2

LEMMA TalkCorrect == Spec => [](TypeOK /\ AskInv /\ TalkInv)
<1>1. Init => TypeOK /\ AskInv /\ TalkInv
  <2> SUFFICES ASSUME Init PROVE AskInv /\ TalkInv
    BY TypeInit
  <2>1. ASSUME NEW c \in Clients
        PROVE  /\ up[c] = <<>> /\ client[c].mode = "off" /\ held[c] = <<>> /\ queue[c] = <<>>
               /\ pass[c].out = <<>> /\ down[c] = <<>>
    BY DEF Init, NewClient, Idle
  <2> QED BY <2>1, NothingSaid, NothingAmong DEF AskInv, Asks, TalkInv
<1>2. TypeOK /\ AskInv /\ TalkInv /\ [Next]_vars => (TypeOK /\ AskInv /\ TalkInv)'
  BY TypeNext, AskNext, TalkNext
<1> QED BY <1>1, <1>2, PTL DEF Spec

LEMMA BehindTheFirst ==
  ASSUME NEW S, NEW a \in Seq(S), NEW b \in Seq(S), NEW i \in 1..Len(a \o b), i > Len(a)
  PROVE  i - Len(a) \in 1..Len(b) /\ (a \o b)[i] = b[i - Len(a)]
<1>1. Len(a) \in Nat /\ Len(b) \in Nat /\ Len(a \o b) = Len(a) + Len(b)
  OBVIOUS
<1>2. i - Len(a) \in 1..Len(b)
  BY <1>1
<1> QED BY <1>1, <1>2

(* A client's request never finds it released: on every wire an Attach comes
   before it and no Detach between, whatever was attached again, resized or
   detached meanwhile, so the error that tells a client it is not attached is
   never written. *)
THEOREM NobodyIsOrphaned == Spec => []NoOrphanError
<1>1. TypeOK /\ TalkInv => NoOrphanError
  <2> SUFFICES ASSUME TypeOK, TalkInv, NEW c \in Clients
               PROVE  /\ ~Has(down[c], "Error") /\ ~Has(pass[c].out, "Error")
                      /\ \A i \in 1..Len(held[c] \o queue[c]) : ~Has((held[c] \o queue[c])[i], "Error")
    BY DEF NoOrphanError
  <2>1. \A msgs : Among(Answers, msgs) \/ Among(Told, msgs) => ~Has(msgs, "Error")
    BY DEF Among, Answers, Told, Has
  <2>2. ASSUME NEW i \in 1..Len(held[c] \o queue[c]) PROVE Among(Answers, (held[c] \o queue[c])[i])
    <3> DEFINE Batch == Seq(HostMessage)
    <3>1. held[c] \in Seq(Batch) /\ queue[c] \in Seq(Batch)
      BY TalkTypes
    <3> HIDE DEF Batch
    <3>2. CASE i <= Len(held[c])
      <4>1. i \in 1..Len(held[c]) /\ (held[c] \o queue[c])[i] = held[c][i]
        BY <3>1, <3>2
      <4> QED BY <4>1 DEF TalkInv, BatchesAmong
    <3>3. CASE i > Len(held[c])
      <4>1. i - Len(held[c]) \in 1..Len(queue[c]) /\ (held[c] \o queue[c])[i] = queue[c][i - Len(held[c])]
        BY <3>1, <3>3, BehindTheFirst
      <4> QED BY <4>1 DEF TalkInv, BatchesAmong
    <3>4. i \in Nat /\ Len(held[c]) \in Nat
      BY <3>1
    <3> QED BY <3>2, <3>3, <3>4
  <2> QED BY <2>1, <2>2 DEF TalkInv
<1> QED BY <1>1, TalkCorrect, PTL

(* What a wire gained past its first n messages. *)
GainedAmong(kinds, n, msgs) == n <= Len(msgs) /\ \A i \in (n + 1)..Len(msgs) : msgs[i].t \in kinds

LEMMA GainsMore ==
  ASSUME NEW kinds, NEW n \in Nat, NEW a \in Seq(HostMessage), NEW b \in Seq(HostMessage),
         GainedAmong(kinds, n, a), Among(kinds, b)
  PROVE  GainedAmong(kinds, n, a \o b) /\ a \o b \in Seq(HostMessage)
<1>1. Len(a) \in Nat /\ Len(b) \in Nat /\ Len(a \o b) = Len(a) + Len(b) /\ a \o b \in Seq(HostMessage)
  OBVIOUS
<1>2. n <= Len(a) /\ \A i \in (n + 1)..Len(a) : a[i].t \in kinds
  BY DEF GainedAmong
<1>3. ASSUME NEW i \in (n + 1)..Len(a \o b) PROVE (a \o b)[i].t \in kinds
  <2>1. CASE i <= Len(a)
    <3>1. i \in (n + 1)..Len(a) /\ (a \o b)[i] = a[i]
      BY <1>1, <2>1
    <3> QED BY <1>2, <3>1
  <2>2. CASE i > Len(a)
    <3>1. i - Len(a) \in 1..Len(b) /\ (a \o b)[i] = b[i - Len(a)]
      BY <1>1, <2>2
    <3> QED BY <3>1 DEF Among
  <2> QED BY <1>1, <2>1, <2>2
<1> QED BY <1>1, <1>2, <1>3 DEF GainedAmong

(* The last message a pass writes is Exited only when the pass is to end. *)
LEMMA LastIsExited ==
  ASSUME TypeOK, TalkInv, NEW c \in Clients, NEW lost \in BOOLEAN, Poll(c, lost), ~Ending(c),
         Len(down'[c]) > Len(down[c])
  PROVE  down'[c][Len(down'[c])].t # "Exited"
<1>1. PICK update, bell, end \in Seq(HostMessage) :
        /\ down'[c] = down[c] \o pass[c].out \o update \o bell \o end
        /\ Among({"Keyframe", "Update"}, update) /\ Among({"Attention"}, bell)
        /\ end = IF Ending(c) THEN <<Exited>> ELSE <<>>
  BY PollSays
<1> DEFINE kinds == {"Keyframe", "Update", "Attention"}
           n == Len(down[c])
           w1 == down[c] \o pass[c].out
           w2 == w1 \o update
           w3 == w2 \o bell
           w4 == w3 \o end
<1>2. down[c] \in Seq(HostMessage) /\ pass[c].out \in Seq(HostMessage) /\ n \in Nat
  BY TalkTypes
<1>3. /\ Among(kinds, pass[c].out) /\ Among(kinds, update) /\ Among(kinds, bell)
      /\ Among(kinds, end)
  <2>1. Answers \subseteq kinds /\ {"Keyframe", "Update"} \subseteq kinds /\ {"Attention"} \subseteq kinds
    BY DEF Answers
  <2>2. Among(kinds, end)
    <3>1. end = <<>>
      BY <1>1
    <3>2. Among(kinds, <<>>)
      BY DEF Among
    <3> QED BY <3>1, <3>2, Zenon
  <2> HIDE DEF kinds
  <2>3. Among(kinds, pass[c].out)
    BY <2>1, AmongWider DEF TalkInv
  <2> QED BY <1>1, <2>1, <2>2, <2>3, AmongWider
<1>4. GainedAmong(kinds, n, down[c])
  BY <1>2 DEF GainedAmong
<1>5. down'[c] = w4
  BY <1>1
<1> HIDE DEF kinds, w4
<1>6. GainedAmong(kinds, n, w1) /\ w1 \in Seq(HostMessage)
  <2> HIDE DEF n
  <2> QED BY <1>2, <1>3, <1>4, GainsMore
<1> HIDE DEF n, w1
<1>7. GainedAmong(kinds, n, w2) /\ w2 \in Seq(HostMessage)
  BY <1>2, <1>3, <1>6, GainsMore
<1> HIDE DEF w2
<1>8. GainedAmong(kinds, n, w3) /\ w3 \in Seq(HostMessage)
  BY <1>2, <1>3, <1>7, GainsMore
<1> HIDE DEF w3
<1>9. GainedAmong(kinds, n, w4) /\ w4 \in Seq(HostMessage)
  BY <1>2, <1>3, <1>8, GainsMore DEF w4
<1>10. Len(w4) \in Nat /\ Len(w4) > n
  BY <1>2, <1>5, <1>9 DEF n
<1>11. Len(w4) \in (n + 1)..Len(w4)
  BY <1>2, <1>10
<1> QED BY <1>5, <1>9, <1>11 DEF GainedAmong, kinds

(* A pass that ends with something more on the wire ended in poll. *)
LEMMA PassEnds ==
  ASSUME TypeOK, [Next]_vars, NEW c \in Clients, pass[c].on, ~pass'[c].on,
         Len(down'[c]) > Len(down[c])
  PROVE  \E lost \in BOOLEAN : Poll(c, lost)
<1>0. pass' # pass
  OBVIOUS
<1>1. Next
  BY <1>0 DEF vars
<1>2. CASE \/ \E n \in 0..MaxBurst, visible \in BOOLEAN, ev \in SUBSET Happenings :
               ReaderParse(n, visible, ev)
          \/ ReaderStamp \/ DispatchTitle \/ KeyframeEveryone \/ TellEveryone \/ ReaderWake
          \/ ReaderEof
  <2>1. pass' = pass
    BY <1>2 DEF ReaderParse, ReaderStamp, DispatchTitle, KeyframeEveryone, TellEveryone,
                ReaderWake, ReaderEof, connVars
  <2> QED BY <1>0, <2>1
<1>3. ASSUME NEW d \in Clients, HandleMsg(d) PROVE FALSE
  <2>1. \A kind : Receive(d, kind) => pass' = pass
    BY DEF Receive
  <2> QED BY <1>0, <1>3, <2>1 DEF HandleMsg, HandleAttach, HandleRequestKeyframe, HandleDetach,
                                  HandleResize, HandleAck
<1>4. ASSUME NEW d \in Clients, Enqueue(d) \/ FloorElapses(d) PROVE FALSE
  BY <1>0, <1>4 DEF Enqueue, FloorElapses
<1>5. ASSUME NEW d \in Clients, TakeWake(d) \/ TakeOwed(d) PROVE FALSE
  <2>1. /\ ~pass[d].on
        /\ pass' = [pass EXCEPT ![d] = [on |-> TRUE, out |-> pass'[d].out, updates |-> ~recent[d],
                                        ended |-> exited]]
    BY <1>5, TalkTypes DEF TakeWake, TakeOwed, Begin
  <2>2. pass'[c] = pass[c]
    BY <2>1, TalkTypes
  <2> QED BY <2>2
<1>6. ASSUME NEW d \in Clients, d # c, NEW lost \in BOOLEAN, Poll(d, lost) PROVE FALSE
  <2>1. pass' = [pass EXCEPT ![d] = Idle]
    BY <1>6 DEF Poll
  <2> QED BY <1>6, <2>1, TalkTypes
<1>7. ASSUME NEW d \in Clients,
             \/ \E v \in Sizes \cup {0} : ClientAttach(d, v)
             \/ ClientDetach(d)
             \/ \E v \in Sizes : ClientResize(d, v)
             \/ ClientAck(d) \/ ClientRecv(d)
      PROVE  FALSE
  BY <1>0, <1>7 DEF ClientAttach, ClientDetach, ClientResize, ClientAck, ClientRecv, connVars
<1>8. ASSUME NEW d \in Clients, LinkDown(d) PROVE FALSE
  <2>1. pass' = [pass EXCEPT ![d] = Idle] /\ down' = [down EXCEPT ![d] = <<>>]
    BY <1>8 DEF LinkDown
  <2>2. CASE d = c
    <3>1. Len(down'[c]) = 0 /\ Len(down[c]) \in Nat
      BY <2>1, <2>2, TalkTypes
    <3> QED BY <3>1
  <2>3. CASE d # c
    BY <2>1, <2>3, TalkTypes
  <2> QED BY <2>2, <2>3
<1> QED BY <1>1, <1>2, <1>3, <1>4, <1>5, <1>6, <1>7, <1>8 DEF Next, HandleMsg

(* A pass that is to end polls, and what it polls leaves its subscriber lacking
   nothing. *)
LEMMA PolledAll ==
  ASSUME TypeOK, NEW c \in Clients, NEW lost \in BOOLEAN, Poll(c, lost), Ending(c)
  PROVE  subs'[c].sent = term.seq /\ ~subs'[c].needs
<1>1. subs' = AfterPoll(c, TRUE)
  BY TalkTypes DEF Poll, Ending
<1>2. subs \in [Clients -> Subscriber]
  BY TalkTypes
<1>3. CASE Behind(c)
  BY <1>1, <1>2, <1>3 DEF AfterPoll, Rebased, Shared, Locked, Subscriber
<1>4. CASE ~Behind(c)
  <2>1. subs'[c].sent = subs[c].sent /\ subs'[c].needs = subs[c].needs
    BY <1>1, <1>2, <1>4 DEF AfterPoll, Subscriber
  <2> QED BY <1>4, <2>1 DEF Behind
<1> QED BY <1>3, <1>4

(* Exited is written only by a pass that polled the session after it had seen the
   end of its output: when the pass is over, its subscriber lacks nothing, so no
   client hears of the exit before the last of the output. *)
THEOREM OutputComesFirst == Spec => ExitedAfterOutput
<1> DEFINE Step(c) ==
      (pass[c].on /\ ~pass'[c].on /\ Len(down'[c]) > 0 /\ down'[c][Len(down'[c])].t = "Exited"
        /\ Len(down'[c]) > Len(down[c]))
       => subs'[c].sent = term.seq /\ ~subs'[c].needs
<1>1. ASSUME TypeOK, TalkInv, [Next]_vars, NEW c \in attached PROVE Step(c)
  <2>0. c \in Clients
    BY <1>1 DEF TypeOK, SharedOK, Locked, Shared
  <2> SUFFICES ASSUME pass[c].on, ~pass'[c].on, Len(down'[c]) > Len(down[c]),
                      down'[c][Len(down'[c])].t = "Exited"
               PROVE  subs'[c].sent = term.seq /\ ~subs'[c].needs
    OBVIOUS
  <2>1. PICK lost \in BOOLEAN : Poll(c, lost)
    BY <1>1, <2>0, PassEnds
  <2>2. Ending(c)
    BY <1>1, <2>0, <2>1, LastIsExited
  <2> QED BY <1>1, <2>0, <2>1, <2>2, PolledAll
<1>2. TypeOK /\ TalkInv /\ [Next]_vars => \A c \in attached : Step(c)
  BY <1>1
<1> HIDE DEF Step
<1>3. Spec => [][TypeOK /\ TalkInv /\ [Next]_vars]_vars
  BY TalkCorrect, PTL DEF Spec
<1> USE DEF Step
<1> QED BY <1>2, <1>3, PTL DEF ExitedAfterOutput
-----------------------------------------------------------------------------

(* The host's history only grows at its end, so what was true of it stays. *)
LEMMA ExtendsItself ==
  ASSUME NEW l
  PROVE  Screens!Extends(l, l)
BY DEF Screens!Extends

LEMMA ExtendsFurther ==
  ASSUME NEW l, NEW m, NEW n, DOMAIN n \subseteq Nat, DOMAIN l # {},
         Screens!Extends(m, l), Screens!Extends(n, m)
  PROVE  Screens!Extends(n, l)
BY DEF Screens!Extends

LEMMA HonestLater ==
  ASSUME NEW l, NEW k, Screens!Extends(k, l), NEW m, Honest(l, m)
  PROVE  Honest(k, m)
BY DEF Honest, Screens!Extends

LEMMA AllHonestLater ==
  ASSUME NEW l, NEW k, Screens!Extends(k, l), NEW msgs, AllHonest(l, msgs)
  PROVE  AllHonest(k, msgs)
BY HonestLater DEF AllHonest

LEMMA BatchesHonestLater ==
  ASSUME NEW l, NEW k, Screens!Extends(k, l), NEW q, BatchesHonest(l, q)
  PROVE  BatchesHonest(k, q)
BY AllHonestLater DEF BatchesHonest

(* Queues of honest messages, of honest batches, stay so. *)
LEMMA NothingHonest ==
  ASSUME NEW l
  PROVE  /\ AllHonest(l, <<>>) /\ BatchesHonest(l, <<>>)
         /\ AllHonest(l, <<Exited>>) /\ AllHonest(l, <<Attention>>) /\ AllHonest(l, <<Error>>)
BY DEF AllHonest, BatchesHonest, Honest, Exited, Attention, Error

LEMMA HonestJoined ==
  ASSUME NEW l, NEW a \in Seq(HostMessage), NEW b \in Seq(HostMessage),
         AllHonest(l, a), AllHonest(l, b)
  PROVE  AllHonest(l, a \o b)
<1> SUFFICES ASSUME NEW i \in 1..Len(a \o b) PROVE Honest(l, (a \o b)[i])
  BY DEF AllHonest
<1>1. CASE i <= Len(a)
  BY <1>1 DEF AllHonest
<1>2. CASE i > Len(a)
  <2>1. i - Len(a) \in 1..Len(b) /\ (a \o b)[i] = b[i - Len(a)]
    BY <1>2
  <2> QED BY <2>1 DEF AllHonest
<1> QED BY <1>1, <1>2

LEMMA HonestParts ==
  ASSUME NEW l, NEW a \in Seq(HostMessage), a # <<>>, AllHonest(l, a)
  PROVE  Honest(l, Head(a)) /\ AllHonest(l, Tail(a))
<1>1. Honest(l, Head(a))
  BY DEF AllHonest
<1>2. ASSUME NEW i \in 1..Len(Tail(a)) PROVE Honest(l, Tail(a)[i])
  <2>1. i + 1 \in 1..Len(a) /\ Tail(a)[i] = a[i + 1]
    OBVIOUS
  <2> QED BY <2>1 DEF AllHonest
<1> QED BY <1>1, <1>2 DEF AllHonest

LEMMA BatchesEnqueued ==
  ASSUME NEW l, NEW q \in Seq(Seq(HostMessage)), BatchesHonest(l, q),
         NEW r \in Seq(HostMessage), AllHonest(l, r)
  PROVE  BatchesHonest(l, Enqueued(q, r))
<1> DEFINE Batch == Seq(HostMessage)
<1>1. q \in Seq(Batch) /\ r \in Batch
  OBVIOUS
<1> HIDE DEF Batch
<1>2. ASSUME NEW i \in 1..Len(Append(q, r)) PROVE AllHonest(l, Append(q, r)[i])
  <2>1. CASE i <= Len(q)
    <3>1. i \in 1..Len(q) /\ Append(q, r)[i] = q[i]
      BY <1>1, <2>1
    <3> QED BY <3>1 DEF BatchesHonest
  <2>2. CASE i > Len(q)
    <3>1. Append(q, r)[i] = r
      BY <1>1, <2>2
    <3> QED BY <3>1
  <2> QED BY <1>1, <2>1, <2>2
<1> QED BY <1>2 DEF Enqueued, BatchesHonest

LEMMA BatchesParts ==
  ASSUME NEW l, NEW q \in Seq(Seq(HostMessage)), q # <<>>, BatchesHonest(l, q)
  PROVE  AllHonest(l, Head(q)) /\ BatchesHonest(l, Tail(q))
<1> DEFINE Batch == Seq(HostMessage)
<1>1. q \in Seq(Batch)
  OBVIOUS
<1> HIDE DEF Batch
<1>2. AllHonest(l, Head(q))
  BY <1>1 DEF BatchesHonest
<1>3. ASSUME NEW i \in 1..Len(Tail(q)) PROVE AllHonest(l, Tail(q)[i])
  <2>1. i + 1 \in 1..Len(q) /\ Tail(q)[i] = q[i + 1]
    BY <1>1
  <2> QED BY <2>1 DEF BatchesHonest
<1> QED BY <1>2, <1>3 DEF BatchesHonest

LEMMA BatchOfOne ==
  ASSUME NEW l, NEW r, AllHonest(l, r)
  PROVE  BatchesHonest(l, <<r>>)
BY DEF BatchesHonest

LEMMA MessageOfOne ==
  ASSUME NEW l, NEW m, Honest(l, m)
  PROVE  AllHonest(l, <<m>>)
BY DEF AllHonest

LEMMA BatchesWoken ==
  ASSUME NEW l, NEW q \in [Clients -> Seq(Seq(HostMessage))], NEW who,
         \A d \in Clients : BatchesHonest(l, q[d])
  PROVE  \A d \in Clients : BatchesHonest(l, WakeAll(q, who)[d])
<1>1. ASSUME NEW d \in Clients PROVE BatchesHonest(l, Enqueued(q[d], <<>>))
  BY BatchesEnqueued, EmptyReplies, NothingHonest
<1> QED BY <1>1 DEF WakeAll
-----------------------------------------------------------------------------
(* What the operations of the subscriber map keep: the part of SyncInv the
   subscriber lock protects, `who` being the subscribers it holds for. *)
Sound(s, who) ==
  /\ Logged(s) /\ ShadowsTrue(s, who)
  /\ \A d \in Clients : BatchesHonest(s.log, s.queue[d])

(* Soundness is about what was sent and shown: an operation that leaves that
   alone and cancels no debt keeps it. *)
LEMMA SoundKept ==
  ASSUME NEW s, NEW who, who \subseteq Clients, Sound(s, who), NEW w,
         w.term = s.term, w.log = s.log,
         \A d \in Clients : BatchesHonest(s.log, w.queue[d]),
         \A d \in who : /\ w.subs[d].sent = s.subs[d].sent
                        /\ w.subs[d].shadow = s.subs[d].shadow
                        /\ s.subs[d].needs => w.subs[d].needs
  PROVE  Sound(w, who)
<1>1. Logged(w)
  BY DEF Sound, Logged
<1>2. ShadowsTrue(w, who)
  BY DEF Sound, ShadowsTrue
<1> QED BY <1>1, <1>2 DEF Sound

Newer(s, q, p) == q > s.term.seq \/ (q = s.term.seq /\ p = s.term.pic)

LEMMA RecordedExtends ==
  ASSUME NEW s, SharedOK(s), Logged(s), NEW q \in Nat, NEW p, Newer(s, q, p)
  PROVE  /\ Screens!Extends(Recorded(s.log, q, p), s.log)
         /\ DOMAIN Recorded(s.log, q, p) = DOMAIN s.log \cup {q}
         /\ Recorded(s.log, q, p)[q] = p
<1>1. /\ DOMAIN s.log \subseteq Nat /\ s.term.seq \in Nat /\ s.term.seq \in DOMAIN s.log
      /\ \A r \in DOMAIN s.log : r <= s.term.seq
      /\ s.log[s.term.seq] = s.term.pic
      /\ q > s.term.seq \/ (q = s.term.seq /\ p = s.term.pic)
  BY DEF SharedOK, Logged, Newer
<1>2. /\ DOMAIN Recorded(s.log, q, p) = DOMAIN s.log \cup {q}
      /\ \A r \in DOMAIN s.log \cup {q} :
           Recorded(s.log, q, p)[r] = IF r = q THEN p ELSE s.log[r]
  BY DEF Recorded
<1>3. \A r \in DOMAIN s.log : Recorded(s.log, q, p)[r] = s.log[r]
  BY <1>1, <1>2
<1>4. \A n \in (DOMAIN s.log \cup {q}) \ DOMAIN s.log : \A r \in DOMAIN s.log : n > r
  BY <1>1
<1> QED BY <1>2, <1>3, <1>4 DEF Screens!Extends

LEMMA ReconcileSound ==
  ASSUME NEW s, SharedOK(s), NEW exempt, Sound(s, s.attached \ exempt)
  PROVE  /\ Sound(Reconcile(s, exempt), s.attached \ exempt)
         /\ Screens!Extends(Reconcile(s, exempt).log, s.log)
         /\ Reconcile(s, exempt).attached = s.attached
<1>1. CASE Votes(s) = {} \/ Smallest(Votes(s)) = s.term.pic.rows
  BY <1>1, ExtendsItself DEF Reconcile
<1>2. CASE ~(Votes(s) = {} \/ Smallest(Votes(s)) = s.term.pic.rows)
  <2> DEFINE t == Resized(s, Smallest(Votes(s)))
             others == s.attached \ exempt
             l == Recorded(s.log, t.seq, t.pic)
  <2>1. Reconcile(s, exempt) = Shared(t, l, s.attached, Owing(s.subs, others),
                                      WakeAll(s.queue, others))
    BY <1>2 DEF Reconcile
  <2>2. t.seq = s.term.seq + 1 /\ s.term.seq \in Nat
    BY DEF Resized, SharedOK
  <2> HIDE DEF t
  <2>3. /\ Screens!Extends(l, s.log) /\ DOMAIN l = DOMAIN s.log \cup {t.seq} /\ l[t.seq] = t.pic
    <3>1. t.seq \in Nat /\ t.seq > s.term.seq /\ Logged(s)
      BY <2>2 DEF Sound
    <3>2. \A q \in Nat : \A p :
            q > s.term.seq =>
              /\ Screens!Extends(Recorded(s.log, q, p), s.log)
              /\ DOMAIN Recorded(s.log, q, p) = DOMAIN s.log \cup {q}
              /\ Recorded(s.log, q, p)[q] = p
      BY <3>1, RecordedExtends DEF Newer
    <3> QED BY <3>1, <3>2
  <2> HIDE DEF l
  <2>4. Logged(Reconcile(s, exempt))
    <3>1. \A q \in DOMAIN l : q <= t.seq
      BY <2>2, <2>3 DEF Sound, Logged, SharedOK
    <3> QED BY <2>1, <2>3, <3>1 DEF Logged, Shared
  <2>5. ShadowsTrue(Reconcile(s, exempt), others)
    <3> SUFFICES ASSUME NEW d \in others
                 PROVE  /\ Owing(s.subs, others)[d].sent \in DOMAIN l
                        /\ Owing(s.subs, others)[d].shadow.view
                             = l[Owing(s.subs, others)[d].sent].view
                        /\ Owing(s.subs, others)[d].needs
      <4>1. /\ Reconcile(s, exempt).subs = Owing(s.subs, others)
            /\ Reconcile(s, exempt).log = l
        BY <2>1 DEF Shared
      <4> QED BY <4>1 DEF ShadowsTrue
    <3>1. d \in Clients /\ s.subs[d] \in Subscriber
      BY DEF SharedOK
    <3>2. /\ Owing(s.subs, others)[d].sent = s.subs[d].sent
          /\ Owing(s.subs, others)[d].shadow = s.subs[d].shadow
          /\ Owing(s.subs, others)[d].needs
      BY <3>1 DEF Owing, Subscriber
    <3>3. s.subs[d].sent \in DOMAIN s.log /\ s.subs[d].shadow.view = s.log[s.subs[d].sent].view
      BY DEF Sound, ShadowsTrue
    <3> QED BY <2>3, <3>2, <3>3 DEF Screens!Extends
  <2>6. \A d \in Clients : BatchesHonest(l, WakeAll(s.queue, others)[d])
    <3>1. \A d \in Clients : BatchesHonest(l, s.queue[d])
      BY <2>3, BatchesHonestLater DEF Sound
    <3> QED BY <3>1, BatchesWoken DEF SharedOK
  <2> QED BY <2>1, <2>3, <2>4, <2>5, <2>6 DEF Sound, Shared
<1> QED BY <1>1, <1>2

(* A keyframe rebases its subscriber on the terminal as it stands. *)
LEMMA RebasedSound ==
  ASSUME NEW s, SharedOK(s), NEW c \in Clients, Sound(s, s.attached \ {c})
  PROVE  /\ Sound(Rebased(s, c), s.attached)
         /\ Rebased(s, c).log = s.log /\ Rebased(s, c).attached = s.attached
<1> DEFINE sub == Rebased(s, c).subs
<1>1. /\ Rebased(s, c).log = s.log /\ Rebased(s, c).attached = s.attached
      /\ Rebased(s, c).term = s.term /\ Rebased(s, c).queue = s.queue
  BY DEF Rebased, Shared
<1>2. /\ sub[c].sent = s.term.seq /\ sub[c].shadow.view = s.term.pic.view
  BY DEF Rebased, Shared, SharedOK, Subscriber
<1>3. \A d \in Clients \ {c} : sub[d] = s.subs[d]
  BY DEF Rebased, Shared, SharedOK
<1> HIDE DEF sub
<1>4. ASSUME NEW d \in s.attached
      PROVE  /\ sub[d].sent \in DOMAIN s.log
             /\ sub[d].shadow.view = s.log[sub[d].sent].view
             /\ sub[d].needs \/ s.log[sub[d].sent].rows = s.term.pic.rows
  <2>1. CASE d = c
    BY <1>2, <2>1 DEF Sound, Logged
  <2>2. CASE d # c
    <3>1. d \in s.attached \ {c} /\ d \in Clients
      BY <2>2 DEF SharedOK
    <3> QED BY <1>3, <3>1 DEF Sound, ShadowsTrue
  <2> QED BY <2>1, <2>2
<1>5. ShadowsTrue(Rebased(s, c), s.attached)
  BY <1>1, <1>4 DEF ShadowsTrue, sub
<1> QED BY <1>1, <1>5 DEF Sound, Logged

LEMMA DetachSound ==
  ASSUME NEW s, SharedOK(s), NEW c \in Clients, Sound(s, s.attached)
  PROVE  /\ Sound(DoDetach(s, c), s.attached \ {c})
         /\ DoDetach(s, c).attached = s.attached \ {c}
         /\ Screens!Extends(DoDetach(s, c).log, s.log)
<1> DEFINE w == Without(s, c)
<1>1. /\ w.term = s.term /\ w.log = s.log /\ w.queue = s.queue /\ w.attached = s.attached \ {c}
      /\ \A d \in Clients \ {c} : w.subs[d] = s.subs[d]
  BY DEF Without, Shared, SharedOK
<1>2. SharedOK(w)
  BY WithoutType
<1> HIDE DEF w
<1>3. Sound(w, w.attached \ {})
  <2>1. w.attached \ {} = s.attached \ {c} /\ s.attached \subseteq Clients
    BY <1>1 DEF SharedOK
  <2>2. Sound(s, s.attached \ {c}) /\ \A d \in Clients : BatchesHonest(s.log, s.queue[d])
    BY DEF Sound, ShadowsTrue
  <2> QED BY <1>1, <2>1, <2>2, SoundKept
<1> QED BY <1>1, <1>2, <1>3, ReconcileSound DEF DoDetach, w

LEMMA FreedSound ==
  ASSUME NEW s, SharedOK(s), NEW c \in Clients, Sound(s, s.attached)
  PROVE  LET freed == IF c \in s.attached THEN DoDetach(s, c) ELSE s
         IN  /\ SharedOK(freed) /\ Sound(freed, freed.attached)
             /\ Screens!Extends(freed.log, s.log)
<1>1. SharedOK(DoDetach(s, c))
  BY WithoutType, ReconcileType DEF DoDetach
<1>2. /\ Sound(DoDetach(s, c), DoDetach(s, c).attached)
      /\ Screens!Extends(DoDetach(s, c).log, s.log)
  BY DetachSound
<1>3. CASE c \in s.attached
  BY <1>1, <1>2, <1>3
<1>4. CASE c \notin s.attached
  BY <1>4, ExtendsItself
<1> QED BY <1>3, <1>4

LEMMA AttachSound ==
  ASSUME NEW s, SharedOK(s), NEW c \in Clients, NEW v \in Nat, title \in Nat,
         Sound(s, s.attached)
  PROVE  /\ Sound(DoAttach(s, c, v), DoAttach(s, c, v).attached)
         /\ Screens!Extends(DoAttach(s, c, v).log, s.log)
<1> DEFINE freed == IF c \in s.attached THEN DoDetach(s, c) ELSE s
           grown == With(freed, c, v)
           fitted == Reconcile(grown, {c})
<1>1. /\ SharedOK(freed) /\ Sound(freed, freed.attached)
      /\ Screens!Extends(freed.log, s.log)
  BY FreedSound
<1> HIDE DEF freed
<1>2. /\ grown.term = freed.term /\ grown.log = freed.log /\ grown.queue = freed.queue
      /\ grown.attached = freed.attached \cup {c}
      /\ \A d \in Clients \ {c} : grown.subs[d] = freed.subs[d]
  BY <1>1 DEF With, Shared, SharedOK
<1>3. SharedOK(grown)
  BY <1>1, WithType
<1> HIDE DEF grown
<1>4. Sound(grown, grown.attached \ {c})
  <2>1. grown.attached \ {c} \subseteq freed.attached \ {c} /\ freed.attached \subseteq Clients
    BY <1>1, <1>2 DEF SharedOK
  <2>2. /\ Sound(freed, grown.attached \ {c})
        /\ \A d \in Clients : BatchesHonest(freed.log, freed.queue[d])
    BY <1>1, <2>1 DEF Sound, ShadowsTrue
  <2> QED BY <1>2, <2>1, <2>2, SoundKept
<1>5. /\ Sound(fitted, fitted.attached \ {c}) /\ Screens!Extends(fitted.log, grown.log)
      /\ SharedOK(fitted)
  BY <1>3, <1>4, ReconcileSound, ReconcileType
<1> HIDE DEF fitted
<1>6. /\ Sound(Rebased(fitted, c), fitted.attached)
      /\ Rebased(fitted, c).log = fitted.log /\ Rebased(fitted, c).attached = fitted.attached
  BY <1>5, RebasedSound
<1>7. Screens!Extends(fitted.log, s.log)
  <2>1. DOMAIN fitted.log \subseteq Nat /\ DOMAIN s.log # {}
    BY <1>5 DEF SharedOK, Sound, Logged
  <2> QED BY <1>1, <1>2, <1>5, <2>1, ExtendsFurther
<1> QED BY <1>6, <1>7 DEF DoAttach, freed, grown, fitted

LEMMA VoteKeeps ==
  ASSUME NEW sub \in [Clients -> Subscriber], NEW c \in Clients, NEW v
  PROVE  \A d \in Clients :
           LET u == [sub EXCEPT ![c] = [@ EXCEPT !.vote = v]][d]
           IN  u.sent = sub[d].sent /\ u.shadow = sub[d].shadow /\ u.needs = sub[d].needs
BY DEF Subscriber

LEMMA ResizeSound ==
  ASSUME NEW s, SharedOK(s), NEW c \in Clients, NEW v \in Nat, Sound(s, s.attached)
  PROVE  /\ Sound(DoResize(s, c, v), DoResize(s, c, v).attached)
         /\ Screens!Extends(DoResize(s, c, v).log, s.log)
<1> DEFINE w == Voted(s, c, v)
<1>1. /\ w.term = s.term /\ w.log = s.log /\ w.queue = s.queue /\ w.attached = s.attached
      /\ w.subs = [s.subs EXCEPT ![c] = [@ EXCEPT !.vote = v]]
  BY DEF Voted, Shared
<1>2. SharedOK(w)
  BY VotedType
<1> HIDE DEF w
<1>3. Sound(w, w.attached \ {})
  <2>1. s.subs \in [Clients -> Subscriber] /\ s.attached \subseteq Clients
        /\ \A d \in Clients : BatchesHonest(s.log, s.queue[d])
    BY DEF SharedOK, Sound
  <2>2. \A d \in Clients : /\ w.subs[d].sent = s.subs[d].sent
                           /\ w.subs[d].shadow = s.subs[d].shadow
                           /\ w.subs[d].needs = s.subs[d].needs
    BY <1>1, <2>1, VoteKeeps
  <2>3. Sound(w, s.attached)
    <3>1. \A d \in Clients : BatchesHonest(s.log, w.queue[d])
      BY <1>1, <2>1
    <3>2. \A d \in s.attached : /\ w.subs[d].sent = s.subs[d].sent
                                /\ w.subs[d].shadow = s.subs[d].shadow
                                /\ s.subs[d].needs => w.subs[d].needs
      BY <2>1, <2>2
    <3> QED BY <1>1, <2>1, <3>1, <3>2, SoundKept
  <2>4. w.attached \ {} = s.attached
    BY <1>1
  <2> QED BY <2>3, <2>4
<1>4. /\ Sound(Reconcile(w, {}), w.attached \ {}) /\ Screens!Extends(Reconcile(w, {}).log, w.log)
      /\ Reconcile(w, {}).attached = w.attached /\ w.attached \ {} = w.attached
  BY <1>2, <1>3, ReconcileSound
<1> QED BY <1>1, <1>4 DEF DoResize, w

LEMMA AckSound ==
  ASSUME NEW s, SharedOK(s), NEW c \in Clients, NEW q, Sound(s, s.attached)
  PROVE  /\ Sound(DoAck(s, c, q), DoAck(s, c, q).attached)
         /\ Screens!Extends(DoAck(s, c, q).log, s.log)
<1>1. \A d \in Clients : /\ Owing(s.subs, {c})[d].sent = s.subs[d].sent
                         /\ Owing(s.subs, {c})[d].shadow = s.subs[d].shadow
                         /\ s.subs[d].needs => Owing(s.subs, {c})[d].needs
  BY DEF Owing, SharedOK, Subscriber
<1>2. CASE q > s.subs[c].sent
  <2>1. DoAck(s, c, q) = Shared(s.term, s.log, s.attached, Owing(s.subs, {c}), s.queue)
    BY <1>2 DEF DoAck
  <2> DEFINE w == Shared(s.term, s.log, s.attached, Owing(s.subs, {c}), s.queue)
  <2>2. /\ w.term = s.term /\ w.log = s.log /\ w.attached = s.attached
        /\ w.queue = s.queue /\ w.subs = Owing(s.subs, {c})
    BY DEF Shared
  <2> HIDE DEF w
  <2>3. Sound(w, w.attached)
    <3>1. s.attached \subseteq Clients /\ \A d \in Clients : BatchesHonest(s.log, s.queue[d])
      BY DEF SharedOK, Sound
    <3> QED BY <1>1, <2>2, <3>1, SoundKept
  <2> QED BY <2>1, <2>2, <2>3, ExtendsItself DEF w
<1>3. CASE ~(q > s.subs[c].sent)
  BY <1>3, ExtendsItself DEF DoAck
<1> QED BY <1>2, <1>3
-----------------------------------------------------------------------------
(* SyncInv in two halves: what the subscriber lock protects, and what is on its
   way outside it. *)
WireHonest ==
  \A c \in Clients :
    AllHonest(log, down[c]) /\ AllHonest(log, pass[c].out) /\ BatchesHonest(log, held[c])

LEMMA SyncParts == SyncInv <=> Sound(Locked, attached) /\ WireHonest /\ ReplicaFaithful
BY DEF SyncInv, Sound, WireHonest, MessagesHonest, Locked, Shared

LEMMA SyncPartsNext ==
  SyncInv' <=> Sound(Locked, attached)' /\ WireHonest' /\ ReplicaFaithful'
BY SyncParts, PTL

LEMMA WireLater ==
  ASSUME WireHonest, Screens!Extends(log', log), UNCHANGED <<down, pass, held>>
  PROVE  WireHonest'
BY AllHonestLater, BatchesHonestLater DEF WireHonest

LEMMA FaithfulLater ==
  ASSUME ReplicaFaithful, Screens!Extends(log', log), client' = client
  PROVE  ReplicaFaithful'
BY DEF ReplicaFaithful, Screens!Extends

LEMMA InstallSound ==
  ASSUME NEW s, Install(s), Sound(s, s.attached)
  PROVE  Sound(Locked, attached)'
<1>1. /\ Locked'.term = s.term /\ Locked'.log = s.log /\ Locked'.subs = s.subs
      /\ Locked'.queue = s.queue /\ attached' = s.attached
  BY DEF Install, Locked, Shared
<1> QED BY <1>1 DEF Sound, Logged, ShadowsTrue

(* The terminal moves on, or stays where it was, at the size it had. *)
LEMMA RecordedSound ==
  ASSUME NEW s, SharedOK(s), Sound(s, s.attached), NEW q \in Nat, NEW p,
         p.rows = s.term.pic.rows,
         \/ q > s.term.seq
         \/ q = s.term.seq /\ p = s.term.pic
  PROVE  /\ Sound(Shared([seq |-> q, pic |-> p], Recorded(s.log, q, p),
                         s.attached, s.subs, s.queue), s.attached)
         /\ Screens!Extends(Recorded(s.log, q, p), s.log)
<1>s. /\ Screens!Extends(Recorded(s.log, q, p), s.log)
      /\ DOMAIN Recorded(s.log, q, p) = DOMAIN s.log \cup {q}
      /\ Recorded(s.log, q, p)[q] = p
  <2>1. Logged(s) /\ Newer(s, q, p)
    BY DEF Sound, Newer
  <2>2. \A r \in Nat : \A z :
          Newer(s, r, z) =>
            /\ Screens!Extends(Recorded(s.log, r, z), s.log)
            /\ DOMAIN Recorded(s.log, r, z) = DOMAIN s.log \cup {r}
            /\ Recorded(s.log, r, z)[r] = z
    BY <2>1, RecordedExtends
  <2> QED BY <2>1, <2>2
<1> DEFINE l == Recorded(s.log, q, p)
<1>1. Screens!Extends(l, s.log) /\ DOMAIN l = DOMAIN s.log \cup {q} /\ l[q] = p
  BY <1>s
<1> DEFINE t == Shared([seq |-> q, pic |-> p], l, s.attached, s.subs, s.queue)
<1> HIDE DEF l
<1>2. /\ t.term.seq = q /\ t.term.pic = p /\ t.log = l /\ t.subs = s.subs
      /\ t.queue = s.queue
  BY DEF Shared
<1> HIDE DEF t
<1>3. /\ DOMAIN s.log \subseteq Nat /\ s.term.seq \in Nat
      /\ \A r \in DOMAIN s.log : r <= s.term.seq
  BY DEF SharedOK, Sound, Logged
<1>4. \A r \in DOMAIN l : r <= q
  BY <1>1, <1>3
<1>5. Logged(t)
  BY <1>1, <1>2, <1>4 DEF Logged
<1>6. ShadowsTrue(t, s.attached)
  BY <1>1, <1>2 DEF Sound, ShadowsTrue, Screens!Extends
<1>7. \A d \in Clients : BatchesHonest(l, s.queue[d])
  BY <1>1, BatchesHonestLater DEF Sound
<1>8. Sound(t, s.attached)
  BY <1>2, <1>5, <1>6, <1>7 DEF Sound
<1> QED BY <1>1, <1>8 DEF t, l

LEMMA SyncReader ==
  ASSUME TypeOK, SyncInv,
         \/ \E n \in 0..MaxBurst, visible \in BOOLEAN, ev \in SUBSET Happenings :
              ReaderParse(n, visible, ev)
         \/ ReaderStamp \/ DispatchTitle \/ KeyframeEveryone \/ TellEveryone \/ ReaderWake
         \/ ReaderEof
  PROVE  SyncInv' /\ Screens!Extends(log', log)
<1>0. /\ SharedOK(Locked) /\ Sound(Locked, attached) /\ WireHonest /\ ReplicaFaithful
      /\ Locked.attached = attached /\ Locked.term = term /\ Locked.log = log
      /\ Locked.subs = subs /\ Locked.queue = queue
      /\ term.seq \in Nat /\ term.pic \in Picture
      /\ subs \in [Clients -> Subscriber] /\ attached \subseteq Clients
      /\ queue \in [Clients -> Seq(Seq(HostMessage))]
  BY SyncParts DEF TypeOK, SharedOK, Locked, Shared
<1>a. UNCHANGED <<down, pass, held, client, attached>>
  BY DEF ReaderParse, ReaderStamp, DispatchTitle, KeyframeEveryone, TellEveryone, ReaderWake,
         ReaderEof, connVars
<1> SUFFICES Sound(Locked, attached)' /\ Screens!Extends(log', log)
  BY <1>0, <1>a, SyncPartsNext, WireLater, FaithfulLater
<1>b. ASSUME NEW q \in Nat, NEW p, p.rows = term.pic.rows,
             q > term.seq \/ (q = term.seq /\ p = term.pic),
             term' = [seq |-> q, pic |-> p], log' = Recorded(log, q, p),
             UNCHANGED <<subs, queue>>
      PROVE  Sound(Locked, attached)' /\ Screens!Extends(log', log)
  <2>1. /\ Sound(Shared([seq |-> q, pic |-> p], Recorded(log, q, p), attached, subs, queue),
                 attached)
        /\ Screens!Extends(Recorded(log, q, p), log)
    BY <1>0, <1>b, RecordedSound
  <2> QED BY <1>a, <1>b, <2>1 DEF Locked
<1>1. ASSUME NEW n \in 0..MaxBurst, NEW visible \in BOOLEAN, NEW ev \in SUBSET Happenings,
             ReaderParse(n, visible, ev)
      PROVE  Sound(Locked, attached)' /\ Screens!Extends(log', log)
  <2> DEFINE p == [view  |-> term.pic.view + (IF visible THEN 1 ELSE 0),
                   rows  |-> term.pic.rows,
                   epoch |-> term.pic.epoch + (IF "rebase" \in ev THEN 1 ELSE 0)]
  <2>0. n \in Nat
    BY BoundsAssumption
  <2>1. term' = [seq |-> term.seq + n, pic |-> p] /\ log' = Recorded(log, term.seq + n, p)
        /\ UNCHANGED <<subs, queue>>
    BY <1>1 DEF ReaderParse, connVars
  <2>2. CASE n = 0
    <3>1. ~visible /\ "rebase" \notin ev
      BY <1>1, <2>2 DEF ReaderParse
    <3>2. term.pic.view \in Nat /\ term.pic.epoch \in Nat
          /\ term.pic = [view |-> term.pic.view, rows |-> term.pic.rows, epoch |-> term.pic.epoch]
      BY <1>0 DEF Picture
    <3>3. p = term.pic
      BY <3>1, <3>2
    <3>4. term.seq + n = term.seq
      BY <1>0, <2>2
    <3> HIDE DEF p
    <3> QED BY <1>0, <1>b, <2>1, <3>3, <3>4
  <2>3. CASE n > 0
    <3>1. term.seq + n \in Nat /\ term.seq + n > term.seq /\ p.rows = term.pic.rows
      BY <1>0, <2>0, <2>3
    <3> HIDE DEF p
    <3> QED BY <1>b, <2>1, <3>1
  <2> QED BY <2>0, <2>2, <2>3
<1>2. CASE ReaderStamp
  <2> DEFINE p == [term.pic EXCEPT !.view = @ + 1]
  <2>1. term' = [seq |-> term.seq + 1, pic |-> p] /\ log' = Recorded(log, term.seq + 1, p)
        /\ UNCHANGED <<subs, queue>>
    BY <1>2 DEF ReaderStamp, connVars
  <2>2. term.seq + 1 \in Nat /\ term.seq + 1 > term.seq
    BY <1>0
  <2>3. p.rows = term.pic.rows
    BY <1>0 DEF Picture
  <2> HIDE DEF p
  <2> QED BY <1>b, <2>1, <2>2, <2>3
<1>3. CASE DispatchTitle \/ ReaderEof
  <2>1. UNCHANGED <<term, log, subs, queue>>
    BY <1>3 DEF DispatchTitle, ReaderEof, connVars
  <2> QED BY <1>0, <1>a, <2>1, ExtendsItself DEF Locked
<1>4. CASE KeyframeEveryone \/ TellEveryone
  <2>1. UNCHANGED <<term, log, queue>>
    BY <1>4 DEF KeyframeEveryone, TellEveryone, connVars
  <2>2. \A d \in Clients : /\ subs'[d].sent = subs[d].sent /\ subs'[d].shadow = subs[d].shadow
                           /\ subs[d].needs => subs'[d].needs
    <3>1. CASE KeyframeEveryone
      BY <1>0, <3>1 DEF KeyframeEveryone, Owing, Subscriber
    <3>2. CASE TellEveryone
      BY <1>0, <3>2 DEF TellEveryone, Subscriber
    <3> QED BY <1>4, <3>1, <3>2
  <2>3. Sound(Locked, attached)'
    <3>1. UNCHANGED attached
      BY <1>4 DEF KeyframeEveryone, TellEveryone
    <3>2. /\ Locked.term = term /\ Locked.log = log /\ Locked.queue = queue /\ Locked.subs = subs
          /\ Locked'.term = term /\ Locked'.log = log /\ Locked'.queue = queue /\ Locked'.subs = subs'
      BY <2>1 DEF Locked, Shared
    <3>3. /\ attached \subseteq Clients
          /\ \A d \in Clients : BatchesHonest(Locked.log, Locked'.queue[d])
      BY <1>0, <3>2 DEF Sound
    <3>4. Sound(Locked', attached)
      <4>1. \A d \in attached : /\ Locked'.subs[d].sent = Locked.subs[d].sent
                                /\ Locked'.subs[d].shadow = Locked.subs[d].shadow
                                /\ Locked.subs[d].needs => Locked'.subs[d].needs
        BY <2>2, <3>2, <3>3
      <4>2. Locked'.term = Locked.term /\ Locked'.log = Locked.log
        BY <3>2
      <4> QED BY <1>0, <3>3, <4>1, <4>2, SoundKept
    <3> QED BY <3>1, <3>4
  <2> QED BY <2>1, <2>3, ExtendsItself
<1>5. CASE ReaderWake
  <2>1. UNCHANGED <<term, log, subs>> /\ queue' = WakeAll(queue, attached)
    BY <1>5 DEF ReaderWake
  <2>2. \A d \in Clients : BatchesHonest(log, queue'[d])
    BY <1>0, <2>1, BatchesWoken DEF Sound
  <2>3. Sound(Locked, attached)'
    BY <1>0, <1>a, <2>1, <2>2 DEF Sound, Logged, ShadowsTrue, Locked, Shared
  <2> QED BY <2>1, <2>3, ExtendsItself
<1> QED BY <1>1, <1>2, <1>3, <1>4, <1>5

LEMMA SyncHandled ==
  ASSUME TypeOK, SyncInv, NEW c \in Clients, NEW kind, Receive(c, kind),
         NEW s, Install(s), Sound(s, s.attached), Screens!Extends(s.log, log),
         NEW m, Honest(s.log, m), Reply(c, <<m>>) \/ Reply(c, <<>>)
  PROVE  SyncInv' /\ Screens!Extends(log', log)
<1>1. log' = s.log /\ UNCHANGED <<down, pass, client>>
      /\ (held' = [held EXCEPT ![c] = <<<<m>>>>] \/ held' = [held EXCEPT ![c] = << <<>> >>])
  BY DEF Install, Receive, Reply
<1>2. WireHonest /\ ReplicaFaithful /\ held \in [Clients -> Seq(Seq(HostMessage))]
  BY SyncParts DEF TypeOK
<1>3. Screens!Extends(log', log)
  BY <1>1
<1>4. Sound(Locked, attached)' /\ ReplicaFaithful'
  BY <1>1, <1>2, <1>3, InstallSound, FaithfulLater
<1>5. BatchesHonest(log', <<<<m>>>>) /\ BatchesHonest(log', << <<>> >>)
  BY <1>1, NothingHonest, MessageOfOne, BatchOfOne
<1>6. ASSUME NEW d \in Clients
      PROVE  /\ AllHonest(log', down'[d]) /\ AllHonest(log', pass'[d].out)
             /\ BatchesHonest(log', held'[d])
  <2>1. AllHonest(log', down'[d]) /\ AllHonest(log', pass'[d].out)
    BY <1>1, <1>2, <1>3, AllHonestLater DEF WireHonest
  <2>2. BatchesHonest(log', held[d])
    BY <1>2, <1>3, BatchesHonestLater DEF WireHonest
  <2>3. held'[d] = held[d] \/ held'[d] = <<<<m>>>> \/ held'[d] = << <<>> >>
    BY <1>1, <1>2
  <2> QED BY <1>5, <2>1, <2>2, <2>3
<1>7. WireHonest'
  BY <1>6 DEF WireHonest
<1> QED BY <1>3, <1>4, <1>7, SyncPartsNext

(* What every reply with a full state says: the terminal, as it is in the
   history. *)
LEMMA StateHonest ==
  ASSUME NEW s, Logged(s)
  PROVE  Honest(s.log, StateOf(s))
BY DEF Logged, Honest, StateOf, Keyframe

LEMMA SyncHandler ==
  ASSUME TypeOK, SyncInv, NEW c \in Clients, HandleMsg(c)
  PROVE  SyncInv' /\ Screens!Extends(log', log)
<1>0. /\ SharedOK(Locked) /\ RestOK /\ title \in Nat
      /\ Sound(Locked, attached) /\ Sound(Locked, Locked.attached)
      /\ Locked.attached = attached /\ Locked.log = log
  BY SyncParts DEF TypeOK, RestOK, Locked, Shared
<1>1. Screens!Extends(log, log) /\ Logged(Locked)
  BY <1>0, ExtendsItself DEF Sound
<1>2. \A l : Honest(l, Error)
  BY DEF Honest, Error
<1>3. CASE HandleAttach(c)
  <2> DEFINE v == Head(up[c]).vote
             s == DoAttach(Locked, c, v)
  <2>1. Receive(c, "Attach") /\ Install(s) /\ Reply(c, <<StateOf(s)>>)
    BY <1>3 DEF HandleAttach
  <2>2. v \in Nat
    BY <1>0, <2>1, ReceiveType, VoteFields
  <2> HIDE DEF v
  <2>3. Sound(s, s.attached) /\ Screens!Extends(s.log, log)
    BY <1>0, <2>2, AttachSound
  <2> HIDE DEF s
  <2>4. Honest(s.log, StateOf(s))
    BY <2>3, StateHonest DEF Sound
  <2> QED BY <2>1, <2>3, <2>4, SyncHandled
<1>4. CASE HandleRequestKeyframe(c)
  <2>1. Receive(c, "RequestKeyframe")
    BY <1>4 DEF HandleRequestKeyframe
  <2>2. CASE c \in attached
    <3> DEFINE s == Rebased(Locked, c)
    <3>1. Install(s) /\ Reply(c, <<StateOf(Locked)>>)
      BY <1>4, <2>2 DEF HandleRequestKeyframe
    <3>2. Sound(Locked, Locked.attached \ {c})
      BY <1>0 DEF Sound, ShadowsTrue
    <3>3. Sound(s, s.attached) /\ s.log = log
      BY <1>0, <3>2, RebasedSound
    <3>4. Honest(s.log, StateOf(Locked))
      BY <1>0, <1>1, <3>3, StateHonest
    <3> HIDE DEF s
    <3> QED BY <1>1, <2>1, <3>1, <3>3, <3>4, SyncHandled
  <2>3. CASE c \notin attached
    <3>1. Install(Locked) /\ Reply(c, <<Error>>)
      BY <1>4, <2>3 DEF HandleRequestKeyframe
    <3> QED BY <1>0, <1>1, <1>2, <2>1, <3>1, SyncHandled
  <2> QED BY <2>2, <2>3
<1>5. CASE HandleDetach(c)
  <2> DEFINE s == IF c \in attached THEN DoDetach(Locked, c) ELSE Locked
  <2>1. Receive(c, "Detach") /\ Install(s) /\ Reply(c, <<>>)
    BY <1>5 DEF HandleDetach
  <2>2. Sound(s, s.attached) /\ Screens!Extends(s.log, log)
    BY <1>0, <1>1, DetachSound
  <2> HIDE DEF s
  <2> QED BY <1>2, <2>1, <2>2, SyncHandled
<1>6. CASE HandleResize(c)
  <2> DEFINE v == Head(up[c]).vote
             s == IF c \in attached THEN DoResize(Locked, c, v) ELSE Locked
  <2>1. Receive(c, "Resize") /\ Install(s) /\ Reply(c, <<>>)
    BY <1>6 DEF HandleResize
  <2>2. v \in Nat
    BY <1>0, <2>1, ReceiveType, VoteFields
  <2> HIDE DEF v
  <2>3. Sound(s, s.attached) /\ Screens!Extends(s.log, log)
    BY <1>0, <1>1, <2>2, ResizeSound
  <2> HIDE DEF s
  <2> QED BY <1>2, <2>1, <2>3, SyncHandled
<1>7. CASE HandleAck(c)
  <2> DEFINE s == IF c \in attached THEN DoAck(Locked, c, Head(up[c]).seq) ELSE Locked
  <2>1. Receive(c, "Ack") /\ Install(s) /\ Reply(c, <<>>)
    BY <1>7 DEF HandleAck
  <2>2. Sound(s, s.attached) /\ Screens!Extends(s.log, log)
    BY <1>0, <1>1, AckSound
  <2> HIDE DEF s
  <2> QED BY <1>2, <2>1, <2>2, SyncHandled
<1> QED BY <1>3, <1>4, <1>5, <1>6, <1>7 DEF HandleMsg

(* Whatever poll sends is a full state, or a change between two pictures the
   host has shown at one size. *)
LEMMA PolledHonest ==
  ASSUME TypeOK, SyncInv, NEW c \in attached, NEW lost \in BOOLEAN
  PROVE  AllHonest(log, Polled(c, lost))
<1>1. /\ term.seq \in DOMAIN log /\ log[term.seq] = term.pic
      /\ subs[c].sent \in DOMAIN log
      /\ subs[c].shadow.view = log[subs[c].sent].view
      /\ subs[c].needs \/ log[subs[c].sent].rows = term.pic.rows
  BY DEF SyncInv, Logged, ShadowsTrue, Locked, Shared
<1>2. Honest(log, Keyframe(term.seq, term.pic, title))
  BY <1>1 DEF Honest, Keyframe
<1>3. ASSUME ~subs[c].needs, NEW t
      PROVE  Honest(log, Update(subs[c].sent, term.seq, subs[c].shadow.view, term.pic.view,
                                term.pic.rows, t))
  BY <1>1, <1>3 DEF Honest, Update
<1>4. AllHonest(log, <<Keyframe(term.seq, term.pic, title)>>) /\ AllHonest(log, <<>>)
  BY <1>2, MessageOfOne, NothingHonest
<1>5. ASSUME ~subs[c].needs, NEW t
      PROVE  AllHonest(log, <<Update(subs[c].sent, term.seq, subs[c].shadow.view, term.pic.view,
                                     term.pic.rows, t)>>)
  BY <1>3, <1>5, MessageOfOne
<1> QED BY <1>4, <1>5 DEF Polled

LEMMA SyncWriter ==
  ASSUME TypeOK, SyncInv, NEW c \in Clients,
         \/ Enqueue(c) \/ TakeWake(c) \/ TakeOwed(c) \/ FloorElapses(c)
         \/ \E lost \in BOOLEAN : Poll(c, lost)
  PROVE  SyncInv' /\ log' = log
<1>0. /\ Sound(Locked, attached) /\ WireHonest /\ ReplicaFaithful
      /\ SharedOK(Locked) /\ title \in Nat
      /\ Locked.attached = attached /\ Locked.term = term /\ Locked.log = log
      /\ Locked.subs = subs /\ Locked.queue = queue
      /\ attached \subseteq Clients /\ subs \in [Clients -> Subscriber]
      /\ queue \in [Clients -> Seq(Seq(HostMessage))]
      /\ held \in [Clients -> Seq(Seq(HostMessage))]
      /\ down \in [Clients -> Seq(HostMessage)]
      /\ pass \in [Clients -> [on : BOOLEAN, out : Seq(HostMessage),
                               updates : BOOLEAN, ended : BOOLEAN]]
  <2>1. SharedOK(Locked) /\ Locked = Shared(term, log, attached, subs, queue)
    BY DEF TypeOK, Locked
  <2>2. /\ Locked.attached = attached /\ Locked.term = term /\ Locked.log = log
        /\ Locked.subs = subs /\ Locked.queue = queue
    BY DEF Locked, Shared
  <2>3. /\ Locked.attached \subseteq Clients /\ Locked.subs \in [Clients -> Subscriber]
        /\ Locked.queue \in [Clients -> Seq(Seq(HostMessage))]
    BY <2>1, Zenon DEF SharedOK
  <2> QED BY <2>1, <2>2, <2>3, SyncParts DEF TypeOK
<1>1. UNCHANGED <<term, log, attached, client>>
  BY DEF Enqueue, TakeWake, TakeOwed, FloorElapses, Poll, sessVars
<1>2. Screens!Extends(log', log) /\ ReplicaFaithful'
  BY <1>0, <1>1, ExtendsItself, FaithfulLater
<1>a. ASSUME \A d \in Clients : BatchesHonest(log, queue'[d]), subs' = subs
      PROVE  Sound(Locked, attached)'
  BY <1>0, <1>1, <1>a DEF Sound, Logged, ShadowsTrue, Locked, Shared
<1>b. \A d \in Clients : BatchesHonest(log, queue[d])
  BY <1>0 DEF Sound
<1>3. CASE Enqueue(c)
  <2>1. /\ queue' = [queue EXCEPT ![c] = Enqueued(queue[c], held[c][1])]
        /\ held' = [held EXCEPT ![c] = <<>>] /\ UNCHANGED <<subs, down, pass>> /\ held[c] # <<>>
    BY <1>3 DEF Enqueue
  <2>2. held[c] \in Seq(Seq(HostMessage)) /\ held[c][1] = Head(held[c])
    BY <1>0, <2>1
  <2>3. Head(held[c]) \in Seq(HostMessage) /\ AllHonest(log, Head(held[c]))
    BY <1>0, <2>1, <2>2, QueueParts, BatchesParts DEF WireHonest
  <2>4. BatchesHonest(log, Enqueued(queue[c], held[c][1]))
    BY <1>0, <1>b, <2>2, <2>3, BatchesEnqueued
  <2>5. \A d \in Clients : BatchesHonest(log, queue'[d])
    BY <1>0, <1>b, <2>1, <2>4
  <2>6. \A d \in Clients : BatchesHonest(log, held'[d])
    BY <1>0, <2>1, NothingHonest DEF WireHonest
  <2>7. WireHonest'
    BY <1>0, <1>1, <2>1, <2>6 DEF WireHonest
  <2> QED BY <1>1, <1>2, <1>a, <2>1, <2>5, <2>7, SyncPartsNext
<1>4. CASE TakeWake(c)
  <2>1. /\ queue' = [queue EXCEPT ![c] = Tail(queue[c])] /\ queue[c] # <<>>
        /\ pass' = [pass EXCEPT ![c] = [on |-> TRUE, out |-> Head(queue[c]),
                                       updates |-> ~recent[c], ended |-> exited]]
        /\ UNCHANGED <<subs, down, held>>
    BY <1>4 DEF TakeWake, Begin
  <2>2. AllHonest(log, Head(queue[c])) /\ BatchesHonest(log, Tail(queue[c]))
    BY <1>0, <1>b, <2>1, BatchesParts
  <2>3. \A d \in Clients : BatchesHonest(log, queue'[d])
    BY <1>0, <1>b, <2>1, <2>2
  <2>4. \A d \in Clients : AllHonest(log, pass'[d].out)
    BY <1>0, <2>1, <2>2 DEF WireHonest
  <2>5. WireHonest'
    BY <1>0, <1>1, <2>1, <2>4 DEF WireHonest
  <2> QED BY <1>1, <1>2, <1>a, <2>1, <2>3, <2>5, SyncPartsNext
<1>5. CASE TakeOwed(c) \/ FloorElapses(c)
  <2>1. UNCHANGED <<subs, queue, down, held>>
        /\ (pass' = pass \/ pass' = [pass EXCEPT ![c] = [on |-> TRUE, out |-> <<>>,
                                       updates |-> ~recent[c], ended |-> exited]])
    BY <1>5 DEF TakeOwed, FloorElapses, Begin
  <2>2. \A d \in Clients : AllHonest(log, pass'[d].out)
    <3>1. CASE pass' = pass
      BY <1>0, <3>1 DEF WireHonest
    <3>2. CASE pass' = [pass EXCEPT ![c] = [on |-> TRUE, out |-> <<>>,
                                          updates |-> ~recent[c], ended |-> exited]]
      <4>1. pass'[c].out = <<>> /\ \A d \in Clients \ {c} : pass'[d] = pass[d]
        BY <1>0, <3>2
      <4>2. AllHonest(log, <<>>) /\ \A d \in Clients : AllHonest(log, pass[d].out)
        BY <1>0, NothingHonest DEF WireHonest
      <4> QED BY <4>1, <4>2
    <3> QED BY <2>1, <3>1, <3>2
  <2>3. WireHonest'
    BY <1>0, <1>1, <2>1, <2>2 DEF WireHonest
  <2> QED BY <1>1, <1>2, <1>a, <1>b, <2>1, <2>3, SyncPartsNext
<1>6. ASSUME NEW lost \in BOOLEAN, Poll(c, lost) PROVE SyncInv' /\ log' = log
  <2> DEFINE polls  == c \in attached /\ (pass[c].updates \/ pass[c].ended)
             update == IF polls THEN Polled(c, lost) ELSE <<>>
             bell   == IF c \in attached /\ subs[c].bell THEN <<Attention>> ELSE <<>>
             ended  == IF Ending(c) THEN <<Exited>> ELSE <<>>
  <2>1. /\ down' = [down EXCEPT ![c] = down[c] \o pass[c].out \o update \o bell \o ended]
        /\ subs' = AfterPoll(c, polls) /\ pass' = [pass EXCEPT ![c] = Idle]
        /\ UNCHANGED <<queue, held>>
    BY <1>6, Zenon DEF Poll
  <2>2. /\ update \in Seq(HostMessage) /\ AllHonest(log, update)
        /\ bell \in Seq(HostMessage) /\ AllHonest(log, bell)
        /\ ended \in Seq(HostMessage) /\ AllHonest(log, ended)
    BY PolledType, PolledHonest, MessageTypes, NothingHonest
  <2>3. /\ down[c] \in Seq(HostMessage) /\ AllHonest(log, down[c])
        /\ pass[c].out \in Seq(HostMessage) /\ AllHonest(log, pass[c].out)
    BY <1>0 DEF WireHonest
  <2> HIDE DEF polls, update, bell, ended
  <2>4. AllHonest(log, down[c] \o pass[c].out \o update \o bell \o ended)
    <3> DEFINE one == down[c] \o pass[c].out
               two == one \o update
               three == two \o bell
    <3>1. one \in Seq(HostMessage) /\ AllHonest(log, one)
      BY <2>3, HonestJoined
    <3> HIDE DEF one
    <3>2. two \in Seq(HostMessage) /\ AllHonest(log, two)
      BY <2>2, <3>1, HonestJoined
    <3> HIDE DEF two
    <3>3. three \in Seq(HostMessage) /\ AllHonest(log, three)
      BY <2>2, <3>2, HonestJoined
    <3> HIDE DEF three
    <3>4. AllHonest(log, three \o ended)
      BY <2>2, <3>3, HonestJoined
    <3> QED BY <3>4 DEF three, two, one
  <2>5. WireHonest'
    <3>1. \A d \in Clients : AllHonest(log, down'[d])
      BY <1>0, <2>1, <2>4 DEF WireHonest
    <3>2. \A d \in Clients : AllHonest(log, pass'[d].out)
      BY <1>0, <2>1, NothingHonest DEF WireHonest, Idle
    <3> QED BY <1>0, <1>1, <2>1, <3>1, <3>2 DEF WireHonest
  <2>6. Sound(Locked, attached)'
    <3> DEFINE r == Rebased(Locked, c)
    <3>1. Sound(Locked, Locked.attached \ {c})
      BY <1>0 DEF Sound, ShadowsTrue
    <3>2. /\ Sound(r, attached) /\ r.log = log /\ r.term = term /\ SharedOK(r)
      <4>1. r.log = log /\ r.term = term
        BY <1>0 DEF Rebased, Shared
      <4>2. SharedOK(r) /\ Sound(r, attached)
        BY <1>0, <3>1, RebasedSound, RebasedType
      <4> QED BY <4>1, <4>2
    <3> HIDE DEF r
    <3>3. \A sub \in [Clients -> Subscriber] : \A d \in Clients :
            /\ [sub EXCEPT ![c].bell = FALSE][d].sent = sub[d].sent
            /\ [sub EXCEPT ![c].bell = FALSE][d].shadow = sub[d].shadow
            /\ [sub EXCEPT ![c].bell = FALSE][d].needs = sub[d].needs
      BY DEF Subscriber
    <3>4. PICK sub \in [Clients -> Subscriber] :
            /\ subs' = [sub EXCEPT ![c].bell = FALSE]
            /\ sub = subs \/ sub = r.subs
      BY <1>0, <2>1, <3>2 DEF AfterPoll, SharedOK, r
    <3>5. \A d \in attached :
            /\ sub[d].sent \in DOMAIN log /\ sub[d].shadow.view = log[sub[d].sent].view
            /\ sub[d].needs \/ log[sub[d].sent].rows = term.pic.rows
      <4>1. ShadowsTrue(Locked, attached) /\ ShadowsTrue(r, attached)
        BY <1>0, <3>2 DEF Sound
      <4>2. CASE sub = subs
        BY <1>0, <4>1, <4>2 DEF ShadowsTrue
      <4>3. CASE sub = r.subs
        BY <3>2, <4>1, <4>3 DEF ShadowsTrue
      <4> QED BY <3>4, <4>2, <4>3
    <3>6. /\ Locked'.term = term /\ Locked'.log = log /\ Locked'.queue = queue
          /\ Locked'.subs = subs' /\ attached' = attached
      BY <1>1, <2>1 DEF Locked, Shared
    <3>7. \A d \in attached : /\ subs'[d].sent = sub[d].sent /\ subs'[d].shadow = sub[d].shadow
                              /\ subs'[d].needs = sub[d].needs
      BY <1>0, <3>3, <3>4
    <3>8. ShadowsTrue(Locked', attached)
      BY <3>5, <3>6, <3>7 DEF ShadowsTrue
    <3>9. Logged(Locked')
      BY <1>0, <3>6 DEF Sound, Logged
    <3>10. \A d \in Clients : BatchesHonest(Locked'.log, Locked'.queue[d])
      BY <1>b, <3>6
    <3>11. Sound(Locked', attached)
      BY <3>8, <3>9, <3>10 DEF Sound
    <3> QED BY <3>6, <3>11
  <2> QED BY <1>1, <1>2, <2>5, <2>6, SyncPartsNext
<1> QED BY <1>3, <1>4, <1>5, <1>6

(* What a client shows after a step of its own, or of its link. *)
LEMMA FaithfulStep ==
  ASSUME ReplicaFaithful, Screens!Extends(log', log), NEW c \in Clients, NEW r,
         client \in [Clients -> Replica], client' = [client EXCEPT ![c] = r],
         \/ r.applied = -1
         \/ r.applied = client[c].applied /\ r.pic = client[c].pic
         \/ /\ r.applied \in DOMAIN log' /\ r.pic.view = log'[r.applied].view
            /\ r.pic.rows = log'[r.applied].rows
  PROVE  ReplicaFaithful'
<1> SUFFICES ASSUME NEW d \in Clients, client'[d].applied # -1
             PROVE  /\ client'[d].applied \in DOMAIN log'
                    /\ client'[d].pic.view = log'[client'[d].applied].view
                    /\ client'[d].pic.rows = log'[client'[d].applied].rows
  BY DEF ReplicaFaithful
<1>1. ASSUME NEW e \in Clients, client[e].applied # -1
      PROVE  /\ client[e].applied \in DOMAIN log'
             /\ client[e].pic.view = log'[client[e].applied].view
             /\ client[e].pic.rows = log'[client[e].applied].rows
  BY <1>1 DEF ReplicaFaithful, Screens!Extends
<1>2. CASE d = c
  <2>1. client'[d] = r
    BY <1>2
  <2> QED BY <1>1, <2>1
<1>3. CASE d # c
  <2>1. client'[d] = client[d]
    BY <1>3
  <2> QED BY <1>1, <2>1
<1> QED BY <1>2, <1>3

(* One client's step, and nobody else's: at most its replica changes. *)
Alone(c) == client' = [client EXCEPT ![c] = client'[c]]

LEMMA SyncClient ==
  ASSUME TypeOK, SyncInv, NEW c \in Clients,
         \/ \E v \in Sizes \cup {0} : ClientAttach(c, v)
         \/ ClientDetach(c)
         \/ \E v \in Sizes : ClientResize(c, v)
         \/ ClientAck(c)
  PROVE  SyncInv' /\ log' = log /\ Alone(c)
<1>0. /\ Sound(Locked, attached) /\ WireHonest /\ ReplicaFaithful
      /\ client \in [Clients -> Replica] /\ client[c] \in Replica
  BY SyncParts DEF TypeOK
<1>1. UNCHANGED <<sessVars, attached, subs, connVars, down>>
  BY DEF ClientAttach, ClientDetach, ClientResize, ClientAck
<1>2. log' = log /\ Screens!Extends(log', log)
  BY <1>1, ExtendsItself DEF sessVars
<1>3. Sound(Locked, attached)' /\ WireHonest'
  BY <1>0, <1>1 DEF Sound, Logged, ShadowsTrue, Locked, Shared, WireHonest, sessVars, connVars
<1>4. PICK r : /\ client' = [client EXCEPT ![c] = r]
               /\ \/ r.applied = -1
                  \/ r.applied = client[c].applied /\ r.pic = client[c].pic
  <2>1. ASSUME NEW v \in Sizes \cup {0}, ClientAttach(c, v)
        PROVE  \E r : /\ client' = [client EXCEPT ![c] = r]
                      /\ r.applied = client[c].applied /\ r.pic = client[c].pic
    <3> DEFINE mode == IF client[c].mode = "off" THEN "attaching" ELSE client[c].mode
    <3>1. mode \in {"off", "attaching", "live", "done", "gone"}
      BY <1>0 DEF Replica
    <3>2. client' = [client EXCEPT ![c] = Counted(client[c], mode)]
      BY <1>0, <2>1 DEF ClientAttach
    <3> HIDE DEF mode
    <3>3. /\ Counted(client[c], mode).applied = client[c].applied
          /\ Counted(client[c], mode).pic = client[c].pic
      BY <1>0, <3>1, CountedType
    <3> QED BY <3>2, <3>3
  <2>2. CASE ClientDetach(c)
    <3>1. [NewClient EXCEPT !.ops = client[c].ops + 1].applied = -1
      BY DEF NewClient
    <3> QED BY <2>2, <3>1 DEF ClientDetach
  <2>3. ASSUME NEW v \in Sizes, ClientResize(c, v)
        PROVE  \E r : /\ client' = [client EXCEPT ![c] = r]
                      /\ r.applied = client[c].applied /\ r.pic = client[c].pic
    <3>1. client' = [client EXCEPT ![c] = [client[c] EXCEPT !.ops = client[c].ops + 1]]
      BY <1>0, <2>3 DEF ClientResize
    <3>2. /\ [client[c] EXCEPT !.ops = client[c].ops + 1].applied = client[c].applied
          /\ [client[c] EXCEPT !.ops = client[c].ops + 1].pic = client[c].pic
      BY <1>0 DEF Replica
    <3> QED BY <3>1, <3>2
  <2>4. CASE ClientAck(c)
    <3>1. client' = [client EXCEPT ![c] = [client[c] EXCEPT !.ackDue = FALSE]]
      BY <1>0, <2>4 DEF ClientAck
    <3>2. /\ [client[c] EXCEPT !.ackDue = FALSE].applied = client[c].applied
          /\ [client[c] EXCEPT !.ackDue = FALSE].pic = client[c].pic
      BY <1>0 DEF Replica
    <3> QED BY <3>1, <3>2
  <2> QED BY <2>1, <2>2, <2>3, <2>4
<1>5. ReplicaFaithful'
  BY <1>0, <1>2, <1>4, FaithfulStep
<1>6. Alone(c)
  BY <1>0, <1>4 DEF Alone
<1> QED BY <1>2, <1>3, <1>5, <1>6, SyncPartsNext

LEMMA SyncRecv ==
  ASSUME TypeOK, SyncInv, NEW c \in Clients, ClientRecv(c)
  PROVE  SyncInv' /\ log' = log /\ Alone(c)
<1> DEFINE r == client[c]
           m == Head(down[c])
<1>0. /\ Sound(Locked, attached) /\ WireHonest /\ ReplicaFaithful /\ RestOK
      /\ client \in [Clients -> Replica] /\ down \in [Clients -> Seq(HostMessage)]
  BY SyncParts, TypeParts DEF TypeOK
<1>1. /\ UNCHANGED <<sessVars, attached, subs, connVars>>
      /\ down' = [down EXCEPT ![c] = Tail(down[c])]
  BY DEF ClientRecv
<1>2. /\ m \in HostMessage /\ down[c] # <<>> /\ r \in Replica
      /\ \/ client' = client
         \/ m.t = "Keyframe" /\ client' = [client EXCEPT ![c] = Adopt(r, m)]
         \/ client' = [client EXCEPT ![c].awaiting = TRUE]
         \/ /\ m.t = "Update" /\ ~Stale(r, m) /\ m.rows > r.pic.rows
            /\ client' = [client EXCEPT ![c] = Torn(r, m)]
         \/ /\ m.t = "Update" /\ ~Stale(r, m)
            /\ client' = [client EXCEPT ![c] = Applied(r, m)]
         \/ client' = [client EXCEPT ![c].mode = "done"]
  BY <1>0, RecvCases
<1>3. log' = log /\ Screens!Extends(log', log)
  BY <1>1, ExtendsItself DEF sessVars
<1>4. Honest(log, m) /\ AllHonest(log, Tail(down[c]))
  BY <1>0, <1>2, HonestParts DEF WireHonest
<1>5. WireHonest'
  <2>1. \A d \in Clients : AllHonest(log, down'[d])
    BY <1>0, <1>1, <1>4 DEF WireHonest
  <2> QED BY <1>0, <1>1, <1>3, <2>1 DEF WireHonest, connVars
<1>6. Sound(Locked, attached)'
  BY <1>0, <1>1 DEF Sound, Logged, ShadowsTrue, Locked, Shared, sessVars, connVars
(* A delta the replica does not refuse starts at the picture it shows. *)
<1>7. ASSUME m.t = "Update", ~Stale(r, m)
      PROVE  /\ r.pic.rows = m.rows /\ r.pic.view = m.was
             /\ m.seq \in DOMAIN log /\ m.now = log[m.seq].view /\ m.rows = log[m.seq].rows
  <2>1. m.base = r.applied /\ m.base \in Nat
    BY <1>2, <1>7, UpdateFields DEF Stale
  <2>2. /\ m.was = log[m.base].view /\ m.rows = log[m.base].rows
        /\ m.seq \in DOMAIN log /\ m.now = log[m.seq].view /\ m.rows = log[m.seq].rows
    BY <1>4, <1>7 DEF Honest
  <2>3. r.pic.view = log[r.applied].view /\ r.pic.rows = log[r.applied].rows
    <3>1. r.applied # -1
      BY <2>1
    <3> QED BY <1>0, <3>1 DEF ReplicaFaithful
  <2> QED BY <2>1, <2>2, <2>3
<1> HIDE DEF m
<1>8. PICK q : /\ client' = [client EXCEPT ![c] = q]
               /\ \/ q.applied = r.applied /\ q.pic = r.pic
                  \/ /\ q.applied \in DOMAIN log /\ q.pic.view = log[q.applied].view
                     /\ q.pic.rows = log[q.applied].rows
  <2>1. CASE client' = client
    <3>1. client' = [client EXCEPT ![c] = r]
      BY <1>0, <2>1
    <3> QED BY <3>1
  <2>2. CASE m.t = "Keyframe" /\ client' = [client EXCEPT ![c] = Adopt(r, m)]
    <3>1. Adopt(r, m).applied = m.seq /\ Adopt(r, m).pic = m.pic
      BY <1>2, <2>2, AdoptType
    <3>2. m.seq \in DOMAIN log /\ m.pic = log[m.seq]
      BY <1>4, <2>2 DEF Honest
    <3> QED BY <2>2, <3>1, <3>2
  <2>3. CASE client' = [client EXCEPT ![c].awaiting = TRUE]
    <3>1. client' = [client EXCEPT ![c] = [r EXCEPT !.awaiting = TRUE]]
      BY <1>0, <2>3
    <3>2. /\ [r EXCEPT !.awaiting = TRUE].applied = r.applied
          /\ [r EXCEPT !.awaiting = TRUE].pic = r.pic
      BY <1>2 DEF Replica
    <3> QED BY <3>1, <3>2
  <2>4. ~(m.t = "Update" /\ ~Stale(r, m) /\ m.rows > r.pic.rows)
    BY <1>2, <1>7, UpdateFields
  <2>5. CASE m.t = "Update" /\ ~Stale(r, m) /\ client' = [client EXCEPT ![c] = Applied(r, m)]
    <3>1. /\ Applied(r, m).applied = m.seq /\ Applied(r, m).pic.rows = r.pic.rows
          /\ Applied(r, m).pic.view = m.now
      BY <1>2, <1>7, <2>5, AppliedType
    <3> QED BY <1>7, <2>5, <3>1
  <2>6. CASE client' = [client EXCEPT ![c].mode = "done"]
    <3>1. client' = [client EXCEPT ![c] = [r EXCEPT !.mode = "done"]]
      BY <1>0, <2>6
    <3>2. /\ [r EXCEPT !.mode = "done"].applied = r.applied
          /\ [r EXCEPT !.mode = "done"].pic = r.pic
      BY <1>2 DEF Replica
    <3> QED BY <3>1, <3>2
  <2> QED BY <1>2, <2>1, <2>2, <2>3, <2>4, <2>5, <2>6
<1>9. ReplicaFaithful'
  BY <1>0, <1>3, <1>8, FaithfulStep
<1>10. Alone(c)
  BY <1>0, <1>8 DEF Alone
<1> QED BY <1>3, <1>5, <1>6, <1>9, <1>10, SyncPartsNext

LEMMA SyncLinkDown ==
  ASSUME TypeOK, SyncInv, NEW c \in Clients, LinkDown(c)
  PROVE  SyncInv' /\ Screens!Extends(log', log) /\ Alone(c)
<1> DEFINE s == IF c \in attached THEN DoDetach(Locked, c) ELSE Locked
<1>0. /\ Sound(Locked, attached) /\ WireHonest /\ ReplicaFaithful /\ SharedOK(Locked)
      /\ Locked.attached = attached /\ Locked.log = log /\ title \in Nat
      /\ client \in [Clients -> Replica] /\ client[c] \in Replica
      /\ held \in [Clients -> Seq(Seq(HostMessage))]
      /\ down \in [Clients -> Seq(HostMessage)]
      /\ pass \in [Clients -> [on : BOOLEAN, out : Seq(HostMessage),
                               updates : BOOLEAN, ended : BOOLEAN]]
  BY SyncParts DEF TypeOK, Locked, Shared
<1>1. /\ term' = s.term /\ log' = s.log /\ attached' = s.attached /\ subs' = s.subs
      /\ queue' = [s.queue EXCEPT ![c] = <<>>] /\ held' = [held EXCEPT ![c] = <<>>]
      /\ pass' = [pass EXCEPT ![c] = Idle] /\ down' = [down EXCEPT ![c] = <<>>]
  BY DEF LinkDown
<1>2. /\ Sound(s, s.attached) /\ SharedOK(s) /\ Screens!Extends(s.log, log)
  <2>1. Sound(Locked, Locked.attached) /\ SharedOK(Locked)
    BY <1>0
  <2>2. LET freed == IF c \in Locked.attached THEN DoDetach(Locked, c) ELSE Locked
        IN  SharedOK(freed) /\ Sound(freed, freed.attached) /\ Screens!Extends(freed.log, Locked.log)
    BY <2>1, FreedSound
  <2> QED BY <1>0, <2>2
<1> HIDE DEF s
<1>3. Sound(Locked, attached)'
  <2>1. \A d \in Clients : BatchesHonest(s.log, queue'[d])
    BY <1>1, <1>2, NothingHonest DEF Sound, SharedOK
  <2> QED BY <1>1, <1>2, <2>1 DEF Sound, Logged, ShadowsTrue, Locked, Shared
<1>4. WireHonest'
  <2> SUFFICES ASSUME NEW d \in Clients
               PROVE  /\ AllHonest(log', down'[d]) /\ AllHonest(log', pass'[d].out)
                      /\ BatchesHonest(log', held'[d])
    BY DEF WireHonest
  <2>1. CASE d = c
    BY <1>0, <1>1, <2>1, NothingHonest DEF Idle
  <2>2. CASE d # c
    <3>1. down'[d] = down[d] /\ pass'[d] = pass[d] /\ held'[d] = held[d]
      BY <1>0, <1>1, <2>2
    <3>2. /\ AllHonest(log, down[d]) /\ AllHonest(log, pass[d].out)
          /\ BatchesHonest(log, held[d])
      BY <1>0 DEF WireHonest
    <3>3. Screens!Extends(log', log)
      BY <1>1, <1>2
    <3> QED BY <3>1, <3>2, <3>3, AllHonestLater, BatchesHonestLater
  <2> QED BY <2>1, <2>2
<1>5. PICK r : /\ client' = [client EXCEPT ![c] = r]
               /\ \/ r.applied = -1
                  \/ r.applied = client[c].applied /\ r.pic = client[c].pic
  <2>1. \/ client' = [client EXCEPT ![c] = [client[c] EXCEPT !.mode = "gone"]]
        \/ client' = [client EXCEPT ![c] = [NewClient EXCEPT !.ops = client[c].ops + 1]]
        \/ client' = [client EXCEPT ![c] = Counted(client[c], "off")]
    BY DEF LinkDown
  <2>2. /\ [client[c] EXCEPT !.mode = "gone"].applied = client[c].applied
        /\ [client[c] EXCEPT !.mode = "gone"].pic = client[c].pic
    BY <1>0 DEF Replica
  <2>3. [NewClient EXCEPT !.ops = client[c].ops + 1].applied = -1
    BY DEF NewClient
  <2>4. /\ Counted(client[c], "off").applied = client[c].applied
        /\ Counted(client[c], "off").pic = client[c].pic
    BY <1>0, CountedType
  <2> QED BY <2>1, <2>2, <2>3, <2>4
<1>6. Screens!Extends(log', log)
  BY <1>1, <1>2
<1>7. ReplicaFaithful'
  BY <1>0, <1>5, <1>6, FaithfulStep
<1>8. Alone(c)
  BY <1>0, <1>5 DEF Alone
<1> QED BY <1>3, <1>4, <1>6, <1>7, <1>8, SyncPartsNext

(* Every step keeps SyncInv, extends the host's history, and moves at most one
   replica. *)
LEMMA SyncNext ==
  ASSUME TypeOK, SyncInv, [Next]_vars
  PROVE  /\ SyncInv' /\ Screens!Extends(log', log)
         /\ client' = client \/ \E c \in Clients : Alone(c)
<1>0. Screens!Extends(log, log)
  BY ExtendsItself
<1>1. CASE UNCHANGED vars
  <2>1. SyncInv'
    BY <1>1 DEF vars, SyncInv, Logged, ShadowsTrue, MessagesHonest, ReplicaFaithful, Locked, Shared
  <2> QED BY <1>0, <1>1, <2>1 DEF vars
<1>2. CASE Next
  <2>1. CASE \/ \E n \in 0..MaxBurst, visible \in BOOLEAN, ev \in SUBSET Happenings :
                  ReaderParse(n, visible, ev)
             \/ ReaderStamp \/ DispatchTitle \/ KeyframeEveryone \/ TellEveryone \/ ReaderWake
             \/ ReaderEof
    <3>1. client' = client
      BY <2>1, Zenon DEF ReaderParse, ReaderStamp, DispatchTitle, KeyframeEveryone, TellEveryone,
                  ReaderWake, ReaderEof
    <3> QED BY <2>1, <3>1, SyncReader
  <2>2. ASSUME NEW c \in Clients, HandleMsg(c)
        PROVE  SyncInv' /\ Screens!Extends(log', log) /\ client' = client
    <3>1. client' = client
      BY <2>2 DEF HandleMsg, HandleAttach, HandleRequestKeyframe, HandleDetach, HandleResize,
                  HandleAck, Receive
    <3> QED BY <2>2, <3>1, SyncHandler
  <2>3. ASSUME NEW c \in Clients,
               \/ Enqueue(c) \/ TakeWake(c) \/ TakeOwed(c) \/ FloorElapses(c)
               \/ \E lost \in BOOLEAN : Poll(c, lost)
        PROVE  SyncInv' /\ log' = log /\ client' = client
    <3>1. client' = client
      BY <2>3 DEF Enqueue, TakeWake, TakeOwed, FloorElapses, Poll
    <3> QED BY <2>3, <3>1, SyncWriter
  <2>4. ASSUME NEW c \in Clients,
               \/ \E v \in Sizes \cup {0} : ClientAttach(c, v)
               \/ ClientDetach(c)
               \/ \E v \in Sizes : ClientResize(c, v)
               \/ ClientAck(c)
        PROVE  SyncInv' /\ log' = log /\ Alone(c)
    BY <2>4, SyncClient
  <2>5. ASSUME NEW c \in Clients, ClientRecv(c)
        PROVE  SyncInv' /\ log' = log /\ Alone(c)
    BY <2>5, SyncRecv
  <2>6. ASSUME NEW c \in Clients, LinkDown(c)
        PROVE  SyncInv' /\ Screens!Extends(log', log) /\ Alone(c)
    BY <2>6, SyncLinkDown
  <2>7. ASSUME NEW c \in Clients,
               \/ HandleMsg(c)
               \/ Enqueue(c) \/ TakeWake(c) \/ TakeOwed(c) \/ FloorElapses(c)
               \/ \E lost \in BOOLEAN : Poll(c, lost)
               \/ \E v \in Sizes \cup {0} : ClientAttach(c, v)
               \/ ClientDetach(c)
               \/ \E v \in Sizes : ClientResize(c, v)
               \/ ClientAck(c) \/ ClientRecv(c) \/ LinkDown(c)
        PROVE  /\ SyncInv' /\ Screens!Extends(log', log)
               /\ client' = client \/ Alone(c)
    <3>1. CASE HandleMsg(c)
      BY <3>1, <2>2
    <3>2. CASE \/ Enqueue(c) \/ TakeWake(c) \/ TakeOwed(c) \/ FloorElapses(c)
               \/ \E lost \in BOOLEAN : Poll(c, lost)
      BY <1>0, <3>2, <2>3
    <3>3. CASE \/ \E v \in Sizes \cup {0} : ClientAttach(c, v)
               \/ ClientDetach(c)
               \/ \E v \in Sizes : ClientResize(c, v)
               \/ ClientAck(c)
      BY <1>0, <3>3, <2>4
    <3>4. CASE ClientRecv(c)
      BY <1>0, <3>4, <2>5
    <3>5. CASE LinkDown(c)
      BY <3>5, <2>6
    <3> QED BY <2>7, <3>1, <3>2, <3>3, <3>4, <3>5
  <2>8. CASE \E c \in Clients :
               \/ HandleMsg(c)
               \/ Enqueue(c) \/ TakeWake(c) \/ TakeOwed(c) \/ FloorElapses(c)
               \/ \E lost \in BOOLEAN : Poll(c, lost)
               \/ \E v \in Sizes \cup {0} : ClientAttach(c, v)
               \/ ClientDetach(c)
               \/ \E v \in Sizes : ClientResize(c, v)
               \/ ClientAck(c) \/ ClientRecv(c) \/ LinkDown(c)
    BY <2>7, <2>8
  <2> QED BY <1>2, <2>1, <2>8 DEF Next, HandleMsg
<1> QED BY <1>1, <1>2

LEMMA SyncInit == Init => SyncInv
<1> SUFFICES ASSUME Init PROVE SyncInv
  OBVIOUS
<1>1. Sound(Locked, attached)
  BY NothingHonest DEF Init, Sound, Logged, ShadowsTrue, Locked, Shared
<1>2. WireHonest
  BY NothingHonest DEF Init, WireHonest, Idle
<1>3. ReplicaFaithful
  BY DEF Init, ReplicaFaithful, NewClient
<1> QED BY <1>1, <1>2, <1>3, SyncParts

(* The inductive invariant: subscribers' shadows are pictures the host showed,
   and every message on its way is about such pictures. *)
THEOREM SyncCorrect == Spec => []SyncInv
<1>1. Init => SyncInv
  BY SyncInit
<1>2. TypeOK /\ SyncInv /\ [Next]_vars => SyncInv'
  BY SyncNext
<1> QED BY <1>1, <1>2, TypeCorrect, PTL DEF Spec

(* No client draws a screen the host did not show: a replica that holds
   sequence s shows what the host showed at s, at the size it had. *)
THEOREM NoTornScreen == Spec => []ReplicaFaithful
<1>1. SyncInv => ReplicaFaithful
  BY DEF SyncInv
<1> QED BY <1>1, SyncCorrect, PTL
-----------------------------------------------------------------------------
(* SessionSync implements SharedScreen. *)
Shown == [q \in DOMAIN log |-> Screen(log[q])]
Seen == [c \in Clients |->
           IF client[c].applied = -1 THEN Unwatched
           ELSE [at |-> client[c].applied, screen |-> Screen(client[c].pic)]]

LEMMA ShownExtends ==
  ASSUME Screens!Extends(log', log)
  PROVE  Screens!Extends(Shown', Shown)
BY DEF Screens!Extends, Shown

(* A faithful replica looks at a screen of the host's, or at nothing. *)
LEMMA FaithfulLooks ==
  ReplicaFaithful => \A c \in Clients : Screens!LooksAt(Seen[c], Shown)
<1> SUFFICES ASSUME ReplicaFaithful, NEW c \in Clients
             PROVE  Screens!LooksAt(Seen[c], Shown)
  OBVIOUS
<1>1. CASE client[c].applied = -1
  BY <1>1 DEF Seen, Screens!LooksAt
<1>2. CASE client[c].applied # -1
  <2>1. /\ client[c].applied \in DOMAIN Shown
        /\ Shown[client[c].applied] = Screen(client[c].pic)
    BY <1>2 DEF ReplicaFaithful, Shown, Screen
  <2> QED BY <1>2, <2>1 DEF Seen, Screens!LooksAt
<1> QED BY <1>1, <1>2

LEMMA FaithfulLooksNext ==
  ReplicaFaithful' => (\A c \in Clients : Screens!LooksAt(Seen[c], Shown))'
BY FaithfulLooks, PTL

LEMMA ScreensStep ==
  ASSUME TypeOK, SyncInv, [Next]_vars
  PROVE  Screens!Next
<1>1. /\ SyncInv' /\ Screens!Extends(log', log)
      /\ client' = client \/ \E c \in Clients : Alone(c)
  BY SyncNext
<1>2. Screens!Extends(Shown', Shown)
  BY <1>1, ShownExtends
<1>3. CASE client' = client
  <2>1. UNCHANGED Seen
    BY <1>3 DEF Seen
  <2> QED BY <1>2, <2>1 DEF Screens!Next, Shown, Seen
<1>4. CASE \E c \in Clients : Alone(c)
  <2>1. PICK c \in Clients : Alone(c)
    BY <1>4
  <2>2. ReplicaFaithful'
    BY <1>1 DEF SyncInv
  <2>3. Screens!LooksAt(Seen'[c], Shown')
    BY <2>2, FaithfulLooksNext
  <2>4. Seen' = [Seen EXCEPT ![c] = Seen'[c]]
    <3>1. \A d \in Clients \ {c} : client'[d] = client[d]
      BY <2>1 DEF Alone, TypeOK
    <3> QED BY <3>1 DEF Seen
  <2> QED BY <1>2, <2>3, <2>4 DEF Screens!Next, Shown, Seen
<1> QED BY <1>1, <1>3, <1>4

LEMMA ScreensInit == Init => Screens!Init
BY DEF Init, Screens!Init, NewClient

(* A session with all its threads, queues, refusals and recoveries implements
   what SharedScreen promises its watchers. *)
THEOREM ImplementsSharedScreen == Spec => WatchesSharedScreen
<1>1. Init => Screens!Init
  BY ScreensInit
<1>2. TypeOK /\ SyncInv /\ [Next]_vars => [Screens!Next]_(Screens!vars)
  BY ScreensStep
<1> QED BY <1>1, <1>2, TypeCorrect, SyncCorrect, PTL DEF Spec, WatchesSharedScreen, Screens!Spec
=============================================================================
