------------------------- MODULE PairingGateProofs -------------------------
(***************************************************************************)
(* Proofs about PairingGate, for any number of connections, devices, peers *)
(* and windows.  The slots are counted, the handshake and the watchdog     *)
(* never both win, and a connection's end is settled as what it was: these *)
(* follow from what a step may do to one connection (Moves).               *)
(*                                                                         *)
(* The gate keeps to its types and implements DeviceTrust: these follow    *)
(* from what is true of a request, in the queue and taken out of it        *)
(* (Asks, Answers), and every action is mapped to a step of DeviceTrust or *)
(* to none (...Maps).                                                      *)
(***************************************************************************)
EXTENDS PairingGate, FiniteSetTheorems, SequenceTheorems, TLAPS

(* The types the proofs need.  A decision on its way is known to be a record,
   and what it says; whom it takes along is the queue's affair. *)
Gates == {"greeting", "challenged", "pending", "served", "refused"}
Threads == {"new", "up", "down", "dropping", "closing", "over"}
Says == {Nobody, "approve", "deny"}
ConnRecord == [gate : Gates, threads : Threads, busy : {"free", "asked", "cancelled"},
               decided : Says, wake : BOOLEAN]
DogRecord == [state : {"armed", "off", "won", "cut"}, slot : BOOLEAN,
              watched : BOOLEAN, extended : BOOLEAN, age : {"young", "late", "old"}]
ConnType == conn \in [Conns -> ConnRecord]
DogType == dog \in [Conns -> DogRecord]
SeenType == seen \in [Peers -> [failures : 0..MaxFailures, recent : BOOLEAN]]
HandType ==
  /\ DOMAIN hand = Answerers
  /\ \A a \in Answerers : hand[a].says \in Says

(* What a step may do to a connection and to its watchdog. *)
DogKept(c) == dog'[c].state = dog[c].state /\ dog'[c].watched = dog[c].watched
SlotKept(c) == dog'[c].slot = dog[c].slot
From(c, g, t) == conn[c].gate = g /\ conn[c].threads = t
Into(c, g, t) == conn'[c].gate = g /\ conn'[c].threads = t
Open == {"up", "down"}

IsAdmitted(c) ==
  /\ conn[c].threads = "new" /\ conn'[c].gate = conn[c].gate /\ DogKept(c)
  /\ \/ conn'[c].threads = "up" /\ dog'[c].slot
     \/ conn'[c].threads = "over" /\ SlotKept(c)
Shakes(c) ==
  /\ conn[c].gate # "served" /\ conn'[c].gate # "served"
  /\ conn'[c].threads = conn[c].threads /\ DogKept(c) /\ SlotKept(c)
IsWelcomed(c) ==
  /\ conn[c].threads \in Open /\ conn'[c].threads = conn[c].threads
  /\ conn[c].gate # "served" /\ conn'[c].gate = "served"
  /\ dog'[c].state = (IF dog[c].state = "armed" THEN "off" ELSE dog[c].state)
  /\ dog'[c].watched = (dog[c].watched /\ dog[c].state # "armed")
  /\ ~dog'[c].slot
IsCut(c) ==
  /\ conn'[c].gate = conn[c].gate /\ conn'[c].threads = conn[c].threads /\ SlotKept(c)
  /\ dog'[c].watched = dog[c].watched
  /\ \/ dog[c].state = "armed" /\ dog'[c].state = "won"
     \/ dog[c].state = "won" /\ dog'[c].state = "cut"
Winds(c) ==
  /\ conn'[c].gate = conn[c].gate /\ DogKept(c)
  /\ \/ conn[c].threads = "up" /\ conn'[c].threads = "down" /\ SlotKept(c)
     \/ conn[c].threads = "down" /\ conn'[c].threads \in {"dropping", "closing"} /\ ~dog'[c].slot
     \/ conn[c].threads = "dropping" /\ conn'[c].threads = "closing" /\ SlotKept(c)
IsSettled(c) ==
  /\ conn'[c].gate = conn[c].gate /\ conn[c].threads = "closing" /\ conn'[c].threads = "over"
  /\ dog'[c].state = (IF dog[c].state = "armed" THEN "off" ELSE dog[c].state)
  /\ dog'[c].watched = dog[c].watched /\ SlotKept(c)
  /\ seen'[Peer[c]].recent = ~Authenticated(dog[c])
Keeps(c) ==
  conn'[c].gate = conn[c].gate /\ conn'[c].threads = conn[c].threads /\ DogKept(c) /\ SlotKept(c)
Moves(c) ==
  \/ Keeps(c) \/ IsAdmitted(c) \/ Shakes(c) \/ IsWelcomed(c) \/ IsCut(c) \/ Winds(c) \/ IsSettled(c)
-----------------------------------------------------------------------------
LEMMA OneMoves ==
  ASSUME ConnType, DogType, NEW c \in Conns, NEW r \in ConnRecord, NEW e \in DogRecord,
         conn' = [conn EXCEPT ![c] = r], dog' = [dog EXCEPT ![c] = e]
  PROVE  /\ ConnType' /\ DogType' /\ conn'[c] = r /\ dog'[c] = e
         /\ \A o \in Conns : o # c => Keeps(o) /\ SlotKept(o)
BY DEF ConnType, DogType, Keeps, DogKept, SlotKept

(* What the count has to do with the slots, over a step. *)
Counted ==
  \/ unauthenticated' = unauthenticated /\ \A c \in Conns : SlotKept(c)
  \/ \E c \in Conns :
       /\ \A o \in Conns : o # c => SlotKept(o)
       /\ \/ ~dog[c].slot /\ dog'[c].slot /\ unauthenticated' = unauthenticated + 1
          \/ dog[c].slot /\ ~dog'[c].slot /\ unauthenticated' = unauthenticated - 1

Types == ConnType /\ DogType /\ SeenType /\ HandType /\ unauthenticated \in Int
Sound == Types' /\ (\A c \in Conns : Moves(c)) /\ Counted

(* A connection holds a slot only while it is open and not served; whoever
   stands in the race is polled. *)
RaceInv ==
  \A c \in Conns :
    /\ dog[c].state # "off" => dog[c].watched
    /\ dog[c].state = "armed" => conn[c].gate # "served"
    /\ dog[c].state = "off" /\ conn[c].threads # "over" => conn[c].gate = "served"
    /\ dog[c].slot => conn[c].threads \in Open /\ conn[c].gate # "served"
    /\ conn[c].threads = "new" => conn[c].gate # "served"

LEMMA Untouched ==
  ASSUME Types, UNCHANGED <<conn, dog, unauthenticated>>
  PROVE  ConnType' /\ DogType' /\ (\A c \in Conns : Moves(c)) /\ Counted
BY DEF Types, ConnType, DogType, Moves, Keeps, DogKept, SlotKept, Counted

(* One connection moves, and the watchdog and the count stay. *)
LEMMA OneConnMoves ==
  ASSUME Types, NEW c \in Conns, NEW r \in ConnRecord, conn' = [conn EXCEPT ![c] = r],
         UNCHANGED <<dog, unauthenticated>>
  PROVE  ConnType' /\ DogType' /\ conn'[c] = r /\ dog'[c] = dog[c] /\ (\A o \in Conns : o # c => Keeps(o)) /\ Counted
<1>1. dog[c] \in DogRecord /\ dog' = [dog EXCEPT ![c] = dog[c]]
  BY DEF Types, DogType
<1>2. \A o \in Conns : SlotKept(o)
  BY DEF SlotKept
<1> QED
  BY <1>1, <1>2, OneMoves DEF Types, Counted

(* One watchdog moves, and the connections and the count stay. *)
LEMMA OneDogMoves ==
  ASSUME Types, NEW c \in Conns, NEW e \in DogRecord, dog' = [dog EXCEPT ![c] = e], e.slot = dog[c].slot,
         UNCHANGED <<conn, unauthenticated>>
  PROVE  ConnType' /\ DogType' /\ conn'[c] = conn[c] /\ dog'[c] = e /\ (\A o \in Conns : o # c => Keeps(o)) /\ Counted
<1>1. conn[c] \in ConnRecord /\ conn' = [conn EXCEPT ![c] = conn[c]]
  BY DEF Types, ConnType
<1>2. /\ ConnType' /\ DogType' /\ conn'[c] = conn[c] /\ dog'[c] = e
      /\ \A o \in Conns : o # c => Keeps(o) /\ SlotKept(o)
  BY <1>1, OneMoves DEF Types
<1>3. \A o \in Conns : SlotKept(o)
  BY <1>2 DEF SlotKept
<1> QED
  BY <1>2, <1>3 DEF Counted

LEMMA SeenKept == ASSUME SeenType, UNCHANGED seen PROVE SeenType'
BY DEF SeenType
LEMMA HandKept == ASSUME HandType, UNCHANGED hand PROVE HandType'
BY DEF HandType
LEMMA CountStaysInt == ASSUME unauthenticated \in Int, Counted PROVE unauthenticated' \in Int
BY DEF Counted

(* Only one connection moved, and it did what it may. *)
LEMMA AllMove ==
  ASSUME NEW c \in Conns, Moves(c), \A o \in Conns : o # c => Keeps(o)
  PROVE  \A o \in Conns : Moves(o)
BY DEF Moves
-----------------------------------------------------------------------------
(* The slot comes back with the welcome or with the end, if it is held. *)
LEMMA ReleaseCounts ==
  ASSUME Types, DogType', NEW c \in Conns, Released(c), ~dog'[c].slot, \A o \in Conns : o # c => SlotKept(o)
  PROVE  Counted
<1>1. dog[c].slot \in BOOLEAN /\ dog'[c].slot \in BOOLEAN /\ unauthenticated \in Int
  BY DEF Types, DogType, DogRecord
<1>2. CASE dog[c].slot
  BY <1>1, <1>2 DEF Released, Counted
<1>3. CASE ~dog[c].slot
  <2>1. unauthenticated' = unauthenticated
    BY <1>1, <1>3 DEF Released
  <2>2. \A o \in Conns : SlotKept(o)
    <3>1. dog'[c].slot = dog[c].slot
      BY <1>1, <1>3
    <3> QED
      BY <3>1 DEF SlotKept
  <2> QED
    BY <2>1, <2>2 DEF Counted
<1> QED
  BY <1>2, <1>3

LEMMA WelcomeStep ==
  ASSUME Types, NEW c \in Conns, NEW taken \in ConnRecord, taken.threads = conn[c].threads,
         conn[c].threads \in Open, conn[c].gate # "served", Welcome(c, taken)
  PROVE  ConnType' /\ DogType' /\ (\A o \in Conns : Moves(o)) /\ Counted
<1> DEFINE r == [taken EXCEPT !.gate = "served"]
           e == Readied(dog[c])
<1>1. r \in ConnRecord /\ r.gate = "served" /\ r.threads = conn[c].threads
  BY DEF ConnRecord, Gates
<1>2. dog[c] \in DogRecord
  BY DEF Types, DogType
<1>3. /\ e \in DogRecord /\ ~e.slot
      /\ e.state = (IF dog[c].state = "armed" THEN "off" ELSE dog[c].state)
      /\ e.watched = (dog[c].watched /\ dog[c].state # "armed")
  BY <1>2 DEF Readied, DogRecord
<1>4. conn' = [conn EXCEPT ![c] = r] /\ dog' = [dog EXCEPT ![c] = e] /\ Released(c)
  BY DEF Welcome
<1> HIDE DEF r, e
<1>5. /\ ConnType' /\ DogType' /\ conn'[c] = r /\ dog'[c] = e
      /\ \A o \in Conns : o # c => Keeps(o) /\ SlotKept(o)
  BY <1>1, <1>3, <1>4, OneMoves DEF Types
<1>6. Moves(c)
  BY <1>1, <1>3, <1>5 DEF Moves, IsWelcomed
<1> QED
  BY <1>3, <1>4, <1>5, <1>6, AllMove, ReleaseCounts

LEMMA RefuseStep ==
  ASSUME Types, NEW c \in Conns, NEW taken \in ConnRecord, taken.threads = conn[c].threads,
         conn[c].gate # "served", Refuse(c, taken)
  PROVE  ConnType' /\ DogType' /\ (\A o \in Conns : Moves(o)) /\ Counted
<1> DEFINE r == [taken EXCEPT !.gate = "refused", !.busy = IF c \in ToSet(queue) THEN "cancelled" ELSE "free"]
<1>1. r \in ConnRecord /\ r.gate = "refused" /\ r.threads = conn[c].threads
  BY DEF ConnRecord, Gates
<1>2. conn' = [conn EXCEPT ![c] = r] /\ UNCHANGED <<dog, unauthenticated>>
  BY DEF Refuse
<1> HIDE DEF r
<1>3. ConnType' /\ DogType' /\ conn'[c] = r /\ dog'[c] = dog[c] /\ (\A o \in Conns : o # c => Keeps(o)) /\ Counted
  BY <1>1, <1>2, OneConnMoves
<1>4. Moves(c)
  BY <1>1, <1>3 DEF Moves, Shakes, DogKept, SlotKept
<1> QED
  BY <1>3, <1>4, AllMove

LEMMA AdmitStep ==
  ASSUME Types, RaceInv, NEW c \in Conns, Admit(c)
  PROVE  ConnType' /\ DogType' /\ (\A o \in Conns : Moves(o)) /\ Counted
<1>1. conn[c] \in ConnRecord /\ dog[c] \in DogRecord /\ conn[c].threads = "new" /\ unauthenticated \in Int
  BY DEF Types, ConnType, DogType, Admit
<1>2. CASE /\ conn' = [conn EXCEPT ![c].threads = "up"] /\ dog' = [dog EXCEPT ![c].slot = TRUE]
           /\ unauthenticated' = unauthenticated + 1
  <2> DEFINE r == [conn[c] EXCEPT !.threads = "up"]
             e == [dog[c] EXCEPT !.slot = TRUE]
  <2>1. r \in ConnRecord /\ r.gate = conn[c].gate /\ r.threads = "up"
    BY <1>1 DEF ConnRecord, Threads
  <2>2. e \in DogRecord /\ e.slot /\ e.state = dog[c].state /\ e.watched = dog[c].watched
    BY <1>1 DEF DogRecord
  <2>3. conn' = [conn EXCEPT ![c] = r] /\ dog' = [dog EXCEPT ![c] = e]
    BY <1>2
  <2> HIDE DEF r, e
  <2>4. /\ ConnType' /\ DogType' /\ conn'[c] = r /\ dog'[c] = e
        /\ \A o \in Conns : o # c => Keeps(o) /\ SlotKept(o)
    BY <2>1, <2>2, <2>3, OneMoves DEF Types
  <2>5. Moves(c)
    BY <1>1, <2>1, <2>2, <2>4 DEF Moves, IsAdmitted, DogKept
  <2>6. ~dog[c].slot
    BY <1>1 DEF RaceInv, Open
  <2>7. Counted
    BY <1>2, <2>2, <2>4, <2>6 DEF Counted
  <2> QED
    BY <2>4, <2>5, <2>7, AllMove
<1>3. CASE conn' = [conn EXCEPT ![c].threads = "over"] /\ UNCHANGED <<dog, unauthenticated>>
  <2> DEFINE r == [conn[c] EXCEPT !.threads = "over"]
  <2>1. r \in ConnRecord /\ r.gate = conn[c].gate /\ r.threads = "over"
    BY <1>1 DEF ConnRecord, Threads
  <2>2. conn' = [conn EXCEPT ![c] = r]
    BY <1>3
  <2> HIDE DEF r
  <2>3. ConnType' /\ DogType' /\ conn'[c] = r /\ dog'[c] = dog[c] /\ (\A o \in Conns : o # c => Keeps(o)) /\ Counted
    BY <1>3, <2>1, <2>2, OneConnMoves
  <2>4. Moves(c)
    BY <1>1, <2>1, <2>3 DEF Moves, IsAdmitted, DogKept, SlotKept
  <2> QED
    BY <2>3, <2>4, AllMove
<1> QED
  BY <1>2, <1>3 DEF Admit

(* Hello and Auth, and the writer that takes a decision: the handshake moves on,
   ends in a refusal, or is done. *)
LEMMA HandshakeStep ==
  ASSUME Types, NEW c \in Conns, Hello(c) \/ Auth(c)
  PROVE  ConnType' /\ DogType' /\ (\A o \in Conns : Moves(o)) /\ Counted
<1>1. conn[c] \in ConnRecord /\ conn[c].threads \in Open /\ conn[c].gate # "served"
  BY DEF Types, ConnType, Hello, Auth, Free, Open
<1>2. ASSUME NEW g \in {"challenged", "pending"}, NEW b \in {"free", "asked", "cancelled"},
             conn' = [conn EXCEPT ![c].gate = g, ![c].busy = b], UNCHANGED <<dog, unauthenticated>>
      PROVE  ConnType' /\ DogType' /\ (\A o \in Conns : Moves(o)) /\ Counted
  <2> DEFINE r == [conn[c] EXCEPT !.gate = g, !.busy = b]
  <2>1. r \in ConnRecord /\ r.gate = g /\ r.threads = conn[c].threads
    BY <1>1, <1>2 DEF ConnRecord, Gates
  <2>2. conn' = [conn EXCEPT ![c] = r]
    BY <1>2
  <2> HIDE DEF r
  <2>3. ConnType' /\ DogType' /\ conn'[c] = r /\ dog'[c] = dog[c] /\ (\A o \in Conns : o # c => Keeps(o)) /\ Counted
    BY <1>2, <2>1, <2>2, OneConnMoves
  <2>4. Moves(c)
    BY <1>1, <1>2, <2>1, <2>3 DEF Moves, Shakes, DogKept, SlotKept
  <2> QED
    BY <2>3, <2>4, AllMove
<1>3. CASE conn' = [conn EXCEPT ![c].gate = "challenged"] /\ UNCHANGED <<dog, unauthenticated>>
  <2>1. conn' = [conn EXCEPT ![c].gate = "challenged", ![c].busy = conn[c].busy]
    BY <1>1, <1>3 DEF ConnRecord, Types, ConnType
  <2>2. conn[c].busy \in {"free", "asked", "cancelled"}
    BY <1>1 DEF ConnRecord
  <2> QED
    BY <1>2, <1>3, <2>1, <2>2
<1>4. CASE conn' = [conn EXCEPT ![c].gate = "pending", ![c].busy = "asked"] /\ UNCHANGED <<dog, unauthenticated>>
  BY <1>2, <1>4
<1>5. CASE Refuse(c, conn[c])
  BY <1>1, <1>5, RefuseStep
<1>6. CASE Welcome(c, conn[c])
  BY <1>1, <1>6, WelcomeStep
<1> QED
  BY <1>3, <1>4, <1>5, <1>6 DEF Hello, Auth

LEMMA DecisionStep ==
  ASSUME Types, NEW c \in Conns, TakeDecision(c)
  PROVE  ConnType' /\ DogType' /\ (\A o \in Conns : Moves(o)) /\ Counted
<1> DEFINE taken == [conn[c] EXCEPT !.decided = Nobody, !.wake = FALSE]
<1>1. conn[c] \in ConnRecord /\ conn[c].threads \in Open
  BY DEF Types, ConnType, TakeDecision, Open
<1>2. taken \in ConnRecord /\ taken.gate = conn[c].gate /\ taken.threads = conn[c].threads
  BY <1>1 DEF ConnRecord, Says
<1>3. \/ conn' = [conn EXCEPT ![c] = taken] /\ UNCHANGED <<dog, unauthenticated>>
      \/ conn[c].gate = "pending" /\ Welcome(c, taken)
      \/ conn[c].gate = "pending" /\ Refuse(c, taken)
  BY DEF TakeDecision
<1> HIDE DEF taken
<1>4. CASE conn' = [conn EXCEPT ![c] = taken] /\ UNCHANGED <<dog, unauthenticated>>
  <2>1. ConnType' /\ DogType' /\ conn'[c] = taken /\ dog'[c] = dog[c] /\ (\A o \in Conns : o # c => Keeps(o)) /\ Counted
    BY <1>2, <1>4, OneConnMoves
  <2>2. Moves(c)
    BY <1>2, <2>1 DEF Moves, Keeps, DogKept, SlotKept
  <2> QED
    BY <2>1, <2>2, AllMove
<1>5. CASE conn[c].gate = "pending" /\ Welcome(c, taken)
  BY <1>1, <1>2, <1>5, WelcomeStep
<1>6. CASE conn[c].gate = "pending" /\ Refuse(c, taken)
  BY <1>1, <1>2, <1>6, RefuseStep
<1> QED
  BY <1>3, <1>4, <1>5, <1>6

(* A request is announced: the deadline moves, the race does not. *)
LEMMA AskStep ==
  ASSUME Types, NEW c \in Conns, AskForApproval(c)
  PROVE  ConnType' /\ DogType' /\ (\A o \in Conns : Moves(o)) /\ Counted
<1> DEFINE r == [conn[c] EXCEPT !.busy = "free"]
           e == [dog[c] EXCEPT !.extended = TRUE]
<1>1. conn[c] \in ConnRecord /\ dog[c] \in DogRecord
  BY DEF Types, ConnType, DogType
<1>2. r \in ConnRecord /\ r.gate = conn[c].gate /\ r.threads = conn[c].threads
  BY <1>1 DEF ConnRecord
<1>3. e \in DogRecord /\ e.state = dog[c].state /\ e.watched = dog[c].watched /\ e.slot = dog[c].slot
  BY <1>1 DEF DogRecord
<1>4. conn' = [conn EXCEPT ![c] = r] /\ dog' = [dog EXCEPT ![c] = e] /\ UNCHANGED unauthenticated
  BY DEF AskForApproval, gateVars
<1> HIDE DEF r, e
<1>5. /\ ConnType' /\ DogType' /\ conn'[c] = r /\ dog'[c] = e
      /\ \A o \in Conns : o # c => Keeps(o) /\ SlotKept(o)
  BY <1>2, <1>3, <1>4, OneMoves DEF Types
<1>6. Moves(c) /\ SlotKept(c)
  BY <1>2, <1>3, <1>5 DEF Moves, Keeps, DogKept, SlotKept
<1>7. Counted
  BY <1>4, <1>5, <1>6 DEF Counted
<1> QED
  BY <1>5, <1>6, <1>7, AllMove

LEMMA TellStep ==
  ASSUME Types, NEW c \in Conns, RefuseTells(c) \/ DropTells(c) \/ ReaderEnds(c)
  PROVE  ConnType' /\ DogType' /\ (\A o \in Conns : Moves(o)) /\ Counted
<1>1. conn[c] \in ConnRecord /\ UNCHANGED <<dog, unauthenticated>>
  BY DEF Types, ConnType, RefuseTells, DropTells, ReaderEnds, gateVars
<1>2. PICK r \in ConnRecord :
        /\ conn' = [conn EXCEPT ![c] = r] /\ r.gate = conn[c].gate
        /\ \/ r.threads = conn[c].threads
           \/ conn[c].threads = "dropping" /\ r.threads = "closing"
           \/ conn[c].threads = "up" /\ r.threads = "down"
  <2>1. CASE RefuseTells(c)
    <3> DEFINE q == [conn[c] EXCEPT !.busy = "free", !.decided = "deny", !.wake = TRUE]
    <3>1. q \in ConnRecord /\ q.gate = conn[c].gate /\ q.threads = conn[c].threads
      BY <1>1 DEF ConnRecord, Says
    <3>2. conn' = [conn EXCEPT ![c] = q]
      BY <2>1 DEF RefuseTells
    <3> QED
      BY <3>1, <3>2
  <2>2. CASE DropTells(c)
    <3> DEFINE q == [conn[c] EXCEPT !.threads = "closing", !.decided = "deny"]
    <3>1. q \in ConnRecord /\ q.gate = conn[c].gate /\ q.threads = "closing"
      BY <1>1 DEF ConnRecord, Says, Threads
    <3>2. conn' = [conn EXCEPT ![c] = q] /\ conn[c].threads = "dropping"
      BY <2>2 DEF DropTells
    <3> QED
      BY <3>1, <3>2
  <2>3. CASE ReaderEnds(c)
    <3> DEFINE q == [conn[c] EXCEPT !.threads = "down"]
    <3>1. q \in ConnRecord /\ q.gate = conn[c].gate /\ q.threads = "down"
      BY <1>1 DEF ConnRecord, Threads
    <3>2. conn' = [conn EXCEPT ![c] = q] /\ conn[c].threads = "up"
      BY <2>3 DEF ReaderEnds, Free
    <3> QED
      BY <3>1, <3>2
  <2> QED
    BY <2>1, <2>2, <2>3
<1>3. ConnType' /\ DogType' /\ conn'[c] = r /\ dog'[c] = dog[c] /\ (\A o \in Conns : o # c => Keeps(o)) /\ Counted
  BY <1>1, <1>2, OneConnMoves
<1>4. Moves(c)
  BY <1>2, <1>3 DEF Moves, Keeps, Winds, DogKept, SlotKept
<1> QED
  BY <1>3, <1>4, AllMove

LEMMA DogSteps ==
  ASSUME Types, NEW c \in Conns, DogStep(c)
  PROVE  ConnType' /\ DogType' /\ (\A o \in Conns : Moves(o)) /\ Counted
<1>1. dog[c] \in DogRecord /\ UNCHANGED <<conn, unauthenticated>>
  BY DEF Types, DogType, DogStep, Ages, DogWins, DogCuts, gateVars
<1>2. PICK e \in DogRecord :
        /\ dog' = [dog EXCEPT ![c] = e] /\ e.slot = dog[c].slot /\ e.watched = dog[c].watched
        /\ \/ e.state = dog[c].state
           \/ dog[c].state = "armed" /\ e.state = "won"
           \/ dog[c].state = "won" /\ e.state = "cut"
  <2>1. CASE Ages(c)
    <3> DEFINE q == [dog[c] EXCEPT !.age = IF dog[c].age = "young" THEN "late" ELSE "old"]
    <3>1. q \in DogRecord /\ q.slot = dog[c].slot /\ q.watched = dog[c].watched /\ q.state = dog[c].state
      BY <1>1 DEF DogRecord
    <3>2. dog' = [dog EXCEPT ![c] = q]
      BY <2>1 DEF Ages
    <3> QED
      BY <3>1, <3>2
  <2>2. ASSUME NEW s \in {"won", "cut"}, dog' = [dog EXCEPT ![c].state = s],
               dog[c].state = (IF s = "won" THEN "armed" ELSE "won")
        PROVE  \E e \in DogRecord :
                 /\ dog' = [dog EXCEPT ![c] = e] /\ e.slot = dog[c].slot /\ e.watched = dog[c].watched
                 /\ \/ dog[c].state = "armed" /\ e.state = "won"
                    \/ dog[c].state = "won" /\ e.state = "cut"
    <3> DEFINE q == [dog[c] EXCEPT !.state = s]
    <3>1. q \in DogRecord /\ q.slot = dog[c].slot /\ q.watched = dog[c].watched /\ q.state = s
      BY <1>1 DEF DogRecord
    <3>2. dog' = [dog EXCEPT ![c] = q]
      BY <2>2
    <3> QED
      BY <2>2, <3>1, <3>2
  <2>3. CASE DogWins(c)
    BY <2>2, <2>3 DEF DogWins
  <2>4. CASE DogCuts(c)
    BY <2>2, <2>4 DEF DogCuts
  <2> QED
    BY <2>1, <2>3, <2>4 DEF DogStep
<1>3. ConnType' /\ DogType' /\ conn'[c] = conn[c] /\ dog'[c] = e /\ (\A o \in Conns : o # c => Keeps(o)) /\ Counted
  BY <1>1, <1>2, OneDogMoves
<1>4. Moves(c)
  BY <1>2, <1>3 DEF Moves, Keeps, IsCut, DogKept, SlotKept
<1> QED
  BY <1>3, <1>4, AllMove

LEMMA DropStep ==
  ASSUME Types, NEW c \in Conns, Dropped(c)
  PROVE  ConnType' /\ DogType' /\ (\A o \in Conns : Moves(o)) /\ Counted
<1> DEFINE t == IF c \in ToSet(queue) THEN "dropping" ELSE "closing"
           r == [conn[c] EXCEPT !.threads = t]
           e == [dog[c] EXCEPT !.slot = FALSE]
<1>1. conn[c] \in ConnRecord /\ dog[c] \in DogRecord /\ conn[c].threads = "down"
  BY DEF Types, ConnType, DogType, Dropped
<1>2. r \in ConnRecord /\ r.gate = conn[c].gate /\ r.threads \in {"dropping", "closing"}
  BY <1>1 DEF ConnRecord, Threads
<1>3. e \in DogRecord /\ e.state = dog[c].state /\ e.watched = dog[c].watched /\ ~e.slot
  BY <1>1 DEF DogRecord
<1>4. conn' = [conn EXCEPT ![c] = r] /\ dog' = [dog EXCEPT ![c] = e] /\ Released(c)
  BY DEF Dropped
<1> HIDE DEF r, e
<1>5. /\ ConnType' /\ DogType' /\ conn'[c] = r /\ dog'[c] = e
      /\ \A o \in Conns : o # c => Keeps(o) /\ SlotKept(o)
  BY <1>2, <1>3, <1>4, OneMoves DEF Types
<1>6. Moves(c)
  BY <1>1, <1>2, <1>3, <1>5 DEF Moves, Winds, DogKept
<1> QED
  BY <1>3, <1>4, <1>5, <1>6, AllMove, ReleaseCounts

(* A connection's end is settled before its watchdog is disarmed. *)
LEMMA SettleStep ==
  ASSUME Types, NEW c \in Conns, Settles(c)
  PROVE  ConnType' /\ DogType' /\ SeenType' /\ (\A o \in Conns : Moves(o)) /\ Counted
<1> DEFINE r == [conn[c] EXCEPT !.threads = "over"]
           e == [dog[c] EXCEPT !.state = IF dog[c].state = "armed" THEN "off" ELSE dog[c].state]
           s == IF Authenticated(dog[c]) THEN Clean ELSE Failed(seen[Peer[c]])
<1>1. conn[c] \in ConnRecord /\ dog[c] \in DogRecord /\ conn[c].threads = "closing" /\ Peer[c] \in Peers
  BY DEF Types, ConnType, DogType, Settles, Peers
<1>2. r \in ConnRecord /\ r.gate = conn[c].gate /\ r.threads = "over"
  BY <1>1 DEF ConnRecord, Threads
<1>3. /\ e \in DogRecord /\ e.watched = dog[c].watched /\ e.slot = dog[c].slot
      /\ e.state = (IF dog[c].state = "armed" THEN "off" ELSE dog[c].state)
  BY <1>1 DEF DogRecord
<1>4. s \in [failures : 0..MaxFailures, recent : BOOLEAN] /\ s.recent = ~Authenticated(dog[c])
  <2>1. seen[Peer[c]].failures \in 0..MaxFailures /\ MaxFailures \in Nat
    BY <1>1, GateAssumption DEF Types, SeenType, GateAssumption
  <2>2. Clean \in [failures : 0..MaxFailures, recent : BOOLEAN] /\ ~Clean.recent
    BY <2>1 DEF Clean
  <2>3. Failed(seen[Peer[c]]) \in [failures : 0..MaxFailures, recent : BOOLEAN] /\ Failed(seen[Peer[c]]).recent
    BY <2>1 DEF Failed
  <2>4. CASE Authenticated(dog[c])
    BY <2>2, <2>4 DEF Clean
  <2>5. CASE ~Authenticated(dog[c])
    BY <2>3, <2>5 DEF Failed
  <2> QED
    BY <2>4, <2>5
<1>5. /\ conn' = [conn EXCEPT ![c] = r] /\ dog' = [dog EXCEPT ![c] = e]
      /\ seen' = [seen EXCEPT ![Peer[c]] = s] /\ UNCHANGED unauthenticated
  BY DEF Settles
<1> HIDE DEF r, e, s
<1>6. /\ ConnType' /\ DogType' /\ conn'[c] = r /\ dog'[c] = e
      /\ \A o \in Conns : o # c => Keeps(o) /\ SlotKept(o)
  BY <1>2, <1>3, <1>5, OneMoves DEF Types
<1>7. SeenType' /\ seen'[Peer[c]] = s
  BY <1>1, <1>4, <1>5 DEF Types, SeenType
<1>8. Moves(c) /\ SlotKept(c)
  BY <1>1, <1>2, <1>3, <1>4, <1>6, <1>7 DEF Moves, IsSettled, SlotKept
<1>9. Counted
  BY <1>5, <1>6, <1>8 DEF Counted
<1> QED
  BY <1>6, <1>7, <1>8, <1>9, AllMove

(* Whoever is notified is told, and nothing else of it changes. *)
LEMMA NotifyStep ==
  ASSUME Types, NEW a \in Answerers, ResolveNotifies(a)
  PROVE  ConnType' /\ DogType' /\ (\A o \in Conns : Moves(o)) /\ Counted
<1>1. UNCHANGED <<dog, unauthenticated>> /\ hand[a].says \in Says
  BY DEF ResolveNotifies, gateVars, Types, HandType
<1>2. ASSUME NEW c \in Conns
      PROVE  conn'[c] \in ConnRecord /\ conn'[c].gate = conn[c].gate /\ conn'[c].threads = conn[c].threads
  <2> DEFINE r == [conn[c] EXCEPT !.decided = hand[a].says, !.wake = TRUE]
  <2>1. conn[c] \in ConnRecord
    BY DEF Types, ConnType
  <2>2. r \in ConnRecord /\ r.gate = conn[c].gate /\ r.threads = conn[c].threads
    BY <1>1, <2>1 DEF ConnRecord
  <2>3. conn'[c] = r \/ conn'[c] = conn[c]
    BY DEF ResolveNotifies, Notified
  <2> QED
    BY <2>1, <2>2, <2>3
<1>3. ConnType'
  BY <1>2 DEF ResolveNotifies, Notified, ConnType
<1>4. \A o \in Conns : Keeps(o) /\ SlotKept(o)
  BY <1>1, <1>2 DEF Keeps, DogKept, SlotKept
<1> QED
  BY <1>1, <1>3, <1>4 DEF Types, DogType, Moves, Counted

-----------------------------------------------------------------------------
(* What a decision on its way says. *)
LEMMA HandSteps ==
  ASSUME HandType, [Next]_vars
  PROVE  HandType'
<1>1. CASE UNCHANGED hand
  BY <1>1, HandKept
<1>2. ASSUME NEW a \in Answerers, NEW h, h.says \in Says, hand' = [hand EXCEPT ![a] = h] PROVE HandType'
  BY <1>2 DEF HandType
<1>3. Idle.says \in Says
  BY DEF Idle, Says
<1>4. ASSUME NEW w \in Windows, NEW d \in Devices, NEW says \in {"approve", "deny"}, Clicks(w, d, says)
      PROVE  HandType'
  <2> DEFINE h == [Idle EXCEPT !.pc = "decides", !.device = d, !.says = says]
  <2>1. h.says \in Says
    BY DEF Idle, Says
  <2>2. hand' = [hand EXCEPT ![w] = h] /\ w \in Answerers
    BY <1>4 DEF Clicks, Answerers
  <2> HIDE DEF h
  <2> QED
    BY <1>2, <2>1, <2>2
<1>5. ASSUME NEW says \in {"approve", "deny"}, PrompterReads(says) PROVE HandType'
  <2> DEFINE h == [Idle EXCEPT !.pc = "decides", !.device = Device[prompter.asking], !.says = says]
  <2>1. h.says \in Says
    BY DEF Idle, Says
  <2>2. hand' = hand \/ hand' = [hand EXCEPT ![Terminal] = h]
    BY <1>5 DEF PrompterReads
  <2> HIDE DEF h
  <2> QED
    BY <1>1, <1>2, <2>1, <2>2 DEF Answerers
<1>6. ASSUME NEW a \in Answerers, ResolveStep(a) PROVE HandType'
  <2>1. CASE ResolveNotifies(a)
    BY <1>2, <1>3, <2>1 DEF ResolveNotifies
  <2>2. CASE ResolveTouches(a)
    BY <2>2 DEF ResolveTouches, HandType
  <2>3. CASE Resolves(a)
    BY <1>3, <2>3 DEF Resolves, HandType
  <2> QED
    BY <1>6, <2>1, <2>2, <2>3 DEF ResolveStep
<1>7. ASSUME NEW c \in Conns, Client(c) \/ DogStep(c) \/ ReaderEnds(c) \/ HostStep(c) PROVE UNCHANGED hand
  BY <1>7 DEF Client, Admit, Hello, Auth, DogStep, Ages, DogWins, DogCuts, ReaderEnds, HostStep, AskForApproval,
              RefuseTells, TakeDecision, Dropped, DropTells, Settles, queueVars
<1>8. ASSUME \/ \E p \in Peers : Cools(p)
             \/ \E w \in Windows : Joins(w) \/ PollStep(w)
             \/ PrompterWakes \/ PrompterAsks
      PROVE  UNCHANGED hand
  BY <1>8 DEF Cools, Joins, PollStep, PollLooks, PollLists, PrompterWakes, PrompterAsks, queueVars
<1> QED
  BY <1>1, <1>4, <1>5, <1>6, <1>7, <1>8 DEF Next, vars
-----------------------------------------------------------------------------
LEMMA EveryStepIsSound ==
  ASSUME Types, RaceInv, [Next]_vars
  PROVE  Sound
<1>1. HandType'
  BY HandSteps DEF Types
<1>2. SUFFICES ConnType' /\ DogType' /\ SeenType' /\ (\A c \in Conns : Moves(c)) /\ Counted
  BY <1>1, CountStaysInt DEF Sound, Types
<1>3. CASE UNCHANGED vars
  BY <1>3, Untouched, SeenKept DEF vars, Types
<1>4. ASSUME NEW c \in Conns, Client(c) \/ DogStep(c) \/ ReaderEnds(c) \/ HostStep(c)
      PROVE  ConnType' /\ DogType' /\ SeenType' /\ (\A o \in Conns : Moves(o)) /\ Counted
  <2>1. CASE Settles(c)
    BY <2>1, SettleStep
  <2>2. CASE Client(c) \/ DogStep(c) \/ ReaderEnds(c) \/ (HostStep(c) /\ ~Settles(c))
    <3>1. UNCHANGED seen
      BY <2>2 DEF Client, Admit, Hello, Auth, DogStep, Ages, DogWins, DogCuts, ReaderEnds, HostStep, AskForApproval,
                  RefuseTells, TakeDecision, Dropped, DropTells, gateVars
    <3> QED
      BY <2>2, <3>1, SeenKept, AdmitStep, HandshakeStep, DecisionStep, AskStep, TellStep, DogSteps, DropStep
         DEF Types, Client, HostStep
  <2> QED
    BY <1>4, <2>1, <2>2
<1>5. ASSUME NEW p \in Peers, Cools(p)
      PROVE  ConnType' /\ DogType' /\ SeenType' /\ (\A o \in Conns : Moves(o)) /\ Counted
  <2>1. SeenType'
    BY <1>5 DEF Cools, Types, SeenType
  <2> QED
    BY <1>5, <2>1, Untouched DEF Cools
<1>6. ASSUME NEW a \in Answerers, ResolveStep(a)
      PROVE  ConnType' /\ DogType' /\ SeenType' /\ (\A o \in Conns : Moves(o)) /\ Counted
  <2>1. UNCHANGED seen
    BY <1>6 DEF ResolveStep, Resolves, ResolveTouches, ResolveNotifies, gateVars
  <2>2. CASE ResolveNotifies(a)
    BY <2>1, <2>2, NotifyStep, SeenKept DEF Types
  <2>3. CASE Resolves(a) \/ ResolveTouches(a)
    <3>1. UNCHANGED <<conn, dog, unauthenticated>>
      BY <2>3 DEF Resolves, ResolveTouches, gateVars
    <3> QED
      BY <2>1, <3>1, Untouched, SeenKept DEF Types
  <2> QED
    BY <1>6, <2>2, <2>3 DEF ResolveStep
<1>7. ASSUME \/ \E w \in Windows : Joins(w) \/ PollStep(w)
             \/ \E w \in Windows, d \in Devices, says \in {"approve", "deny"} : Clicks(w, d, says)
             \/ PrompterWakes \/ PrompterAsks \/ \E says \in {"approve", "deny"} : PrompterReads(says)
      PROVE  ConnType' /\ DogType' /\ SeenType' /\ (\A o \in Conns : Moves(o)) /\ Counted
  <2>1. UNCHANGED <<conn, dog, unauthenticated, seen>>
    BY <1>7 DEF Joins, PollStep, PollLooks, PollLists, Clicks, PrompterWakes, PrompterAsks, PrompterReads, gateVars
  <2> QED
    BY <2>1, Untouched, SeenKept DEF Types
<1> QED
  BY <1>3, <1>4, <1>5, <1>6, <1>7 DEF Next

LEMMA RaceStep ==
  ASSUME Types, Types', RaceInv, \A c \in Conns : Moves(c)
  PROVE  RaceInv'
<1> SUFFICES ASSUME NEW c \in Conns
             PROVE  /\ dog'[c].state # "off" => dog'[c].watched
                    /\ dog'[c].state = "armed" => conn'[c].gate # "served"
                    /\ dog'[c].state = "off" /\ conn'[c].threads # "over" => conn'[c].gate = "served"
                    /\ dog'[c].slot => conn'[c].threads \in Open /\ conn'[c].gate # "served"
                    /\ conn'[c].threads = "new" => conn'[c].gate # "served"
  BY DEF RaceInv
<1> USE DEF RaceInv, DogKept, SlotKept, Open
<1>1. dog[c].watched \in BOOLEAN /\ dog'[c].watched \in BOOLEAN /\ dog[c].slot \in BOOLEAN /\ dog'[c].slot \in BOOLEAN
  BY DEF Types, DogType, DogRecord
<1>2. CASE Keeps(c)
  BY <1>1, <1>2 DEF Keeps
<1>3. CASE IsAdmitted(c)
  BY <1>1, <1>3 DEF IsAdmitted
<1>4. CASE Shakes(c)
  BY <1>1, <1>4 DEF Shakes
<1>5. CASE IsWelcomed(c)
  BY <1>1, <1>5 DEF IsWelcomed
<1>6. CASE IsCut(c)
  BY <1>1, <1>6 DEF IsCut
<1>7. CASE Winds(c)
  BY <1>1, <1>7 DEF Winds
<1>8. CASE IsSettled(c)
  BY <1>1, <1>8 DEF IsSettled
<1> QED
  BY <1>2, <1>3, <1>4, <1>5, <1>6, <1>7, <1>8 DEF Moves

Held == {c \in Conns : dog[c].slot}
CountInv == unauthenticated = deeds.others + Cardinality(Held)

LEMMA CountStep ==
  ASSUME deeds \in Scenario, Types, Types', CountInv, Counted, UNCHANGED deeds
  PROVE  CountInv'
<1>1. /\ deeds.others \in Nat /\ IsFiniteSet(Conns)
      /\ \A c \in Conns : dog[c].slot \in BOOLEAN /\ dog'[c].slot \in BOOLEAN
  BY GateAssumption DEF GateAssumption, Scenario, Types, DogType, DogRecord
<1>2. IsFiniteSet(Held) /\ Cardinality(Held) \in Nat
  BY <1>1, FS_Subset, FS_CardinalityType DEF Held
<1>3. CASE unauthenticated' = unauthenticated /\ \A c \in Conns : SlotKept(c)
  <2>1. Held' = Held
    BY <1>3 DEF Held, SlotKept
  <2> QED
    BY <1>3, <2>1 DEF CountInv
<1>4. ASSUME NEW c \in Conns, \A o \in Conns : o # c => SlotKept(o),
             ~dog[c].slot, dog'[c].slot, unauthenticated' = unauthenticated + 1
      PROVE  CountInv'
  <2>1. Held' = Held \cup {c} /\ c \notin Held
    BY <1>4 DEF Held, SlotKept
  <2>2. Cardinality(Held') = Cardinality(Held) + 1
    BY <1>2, <2>1, FS_AddElement
  <2> QED
    BY <1>1, <1>2, <1>4, <2>2 DEF CountInv
<1>5. ASSUME NEW c \in Conns, \A o \in Conns : o # c => SlotKept(o),
             dog[c].slot, ~dog'[c].slot, unauthenticated' = unauthenticated - 1
      PROVE  CountInv'
  <2>1. Held' = Held \ {c} /\ c \in Held
    BY <1>5 DEF Held, SlotKept
  <2>2. Cardinality(Held') = Cardinality(Held) - 1
    BY <1>2, <2>1, FS_RemoveElement
  <2> QED
    BY <1>1, <1>2, <1>5, <2>2 DEF CountInv
<1> QED
  BY <1>3, <1>4, <1>5 DEF Counted

GateInv == deeds \in Scenarios /\ Types /\ RaceInv /\ CountInv

LEMMA GateInvHolds == Spec => []GateInv
<1>1. Init => GateInv
  <2> SUFFICES ASSUME Init PROVE GateInv
    OBVIOUS
  <2>1. deeds \in Scenarios /\ deeds.others \in Nat
    BY GateAssumption DEF Init, GateAssumption, Scenario
  <2>2. ConnType /\ DogType
    BY DEF Init, ConnType, DogType, ConnRecord, DogRecord, NewConn, NewDog, Gates, Threads, Says
  <2>3. SeenType
    BY GateAssumption DEF Init, SeenType, Clean, GateAssumption
  <2>4. HandType
    BY DEF Init, HandType, Idle, Says
  <2>5. RaceInv
    BY DEF Init, RaceInv, NewConn, NewDog
  <2>6. Cardinality(Held) = 0
    <3>1. Held = {}
      BY DEF Init, Held, NewDog
    <3> QED
      BY <3>1, FS_EmptySet
  <2> QED
    BY <2>1, <2>2, <2>3, <2>4, <2>5, <2>6 DEF GateInv, Types, CountInv, Init
<1>2. GateInv /\ [Next]_vars => GateInv'
  <2> SUFFICES ASSUME GateInv, [Next]_vars PROVE GateInv'
    OBVIOUS
  <2>1. Sound
    BY EveryStepIsSound DEF GateInv
  <2>2. deeds' = deeds
    BY DEF Next, vars, Client, Admit, Hello, Auth, DogStep, Ages, DogWins, DogCuts, ReaderEnds, HostStep,
           AskForApproval, RefuseTells, TakeDecision, Dropped, DropTells, Settles, Cools, Joins, PollStep, PollLooks,
           PollLists, Clicks, PrompterWakes, PrompterAsks, PrompterReads, ResolveStep, Resolves, ResolveTouches,
           ResolveNotifies
  <2>3. deeds \in Scenario
    BY GateAssumption DEF GateInv, GateAssumption
  <2> QED
    BY <2>1, <2>2, <2>3, RaceStep, CountStep DEF GateInv, Sound
<1> QED
  BY <1>1, <1>2, PTL DEF Spec

(* The mid-handshake count of lan.rs is the slots held, whoever comes, waits, is
   welcomed or goes: admit takes one, and Countdown::release gives it back once. *)
THEOREM SlotsCounted == Spec => []SlotsAreCounted
<1>1. GateInv => SlotsAreCounted
  BY DEF GateInv, CountInv, RaceInv, Held, Open, SlotsAreCounted
<1> QED
  BY <1>1, GateInvHolds, PTL

(* One swap decides between the handshake that is done and the watchdog that
   cuts: who lost it is still polled, and can still be cut. *)
THEOREM OneWins == Spec => []OneOfThemWins
<1>1. GateInv => OneOfThemWins
  BY DEF GateInv, RaceInv, OneOfThemWins
<1> QED
  BY <1>1, GateInvHolds, PTL

(* accept_hardened settles a connection as what it was: failures grow only by
   one that was not served or was cut, and are forgotten only by one that was
   served, or that ended between the watchdog's swap and its store. *)
THEOREM SettlesTruly == Spec => SettledTruly
<1> DEFINE Settled ==
      \A c \in Conns : conn[c].threads = "closing" /\ conn'[c].threads = "over" =>
        LET grows == seen'[Peer[c]].recent
        IN /\ grows => conn[c].gate # "served" \/ dog[c].state = "cut"
           /\ ~grows => conn[c].gate = "served" \/ dog[c].state = "won"
<1>1. GateInv /\ [Next]_vars => Settled
  <2> SUFFICES ASSUME GateInv, [Next]_vars, NEW c \in Conns, conn[c].threads = "closing", conn'[c].threads = "over"
               PROVE  /\ seen'[Peer[c]].recent => conn[c].gate # "served" \/ dog[c].state = "cut"
                      /\ ~seen'[Peer[c]].recent => conn[c].gate = "served" \/ dog[c].state = "won"
    OBVIOUS
  <2>1. Moves(c)
    BY EveryStepIsSound DEF GateInv, Sound
  <2>2. seen'[Peer[c]].recent = ~Authenticated(dog[c])
    BY <2>1 DEF Moves, Keeps, IsAdmitted, Shakes, IsWelcomed, IsCut, Winds, IsSettled
  <2>3. dog[c].state \in {"armed", "off", "won", "cut"}
    BY DEF GateInv, Types, DogType, DogRecord
  <2> QED
    BY <2>2, <2>3 DEF GateInv, RaceInv, Authenticated
<1>2. Spec => [][GateInv /\ [Next]_vars]_vars
  BY GateInvHolds, PTL DEF Spec
<1> QED
  BY <1>1, <1>2, PTL DEF SettledTruly
-----------------------------------------------------------------------------
(* In a finite set of numbers there is one of each rank. *)
LEMMA Ranked ==
  ASSUME NEW S \in SUBSET Nat, IsFiniteSet(S), NEW n \in 1..Cardinality(S)
  PROVE  Nth(S, n) \in S /\ Cardinality({j \in S : j < Nth(S, n)}) = n - 1
<1> DEFINE below(i) == {j \in S : j < i}
           rank == [i \in S |-> Cardinality(below(i))]
           T == 0..(Cardinality(S) - 1)
<1>1. Cardinality(S) \in Nat
  BY FS_CardinalityType
<1>2. ASSUME NEW i \in S PROVE IsFiniteSet(below(i)) /\ Cardinality(below(i)) \in T
  <2>1. below(i) \subseteq S /\ i \in S \ below(i)
    OBVIOUS
  <2>2. IsFiniteSet(below(i)) /\ Cardinality(below(i)) <= Cardinality(S) /\ Cardinality(below(i)) # Cardinality(S)
    BY <2>1, FS_Subset
  <2>3. Cardinality(below(i)) \in Nat
    BY <2>2, FS_CardinalityType
  <2> QED
    BY <1>1, <2>2, <2>3
<1>3. ASSUME NEW i \in S, NEW j \in S, i < j PROVE Cardinality(below(i)) # Cardinality(below(j))
  <2>1. i \in Nat /\ j \in Nat
    OBVIOUS
  <2>2. \A k \in Nat : k < i => k < j
    BY <1>3, <2>1
  <2>3. below(i) \subseteq below(j)
    BY <2>2
  <2>4. i \in below(j) \ below(i)
    BY <1>3, <2>1
  <2> QED
    BY <1>2, <2>3, <2>4, FS_Subset
<1>4. rank \in [S -> T]
  BY <1>2
<1>5. \A i, j \in S : rank[i] = rank[j] => i = j
  <2> SUFFICES ASSUME NEW i \in S, NEW j \in S, i # j PROVE rank[i] # rank[j]
    OBVIOUS
  <2>1. i < j \/ j < i
    OBVIOUS
  <2> QED
    BY <1>3, <2>1
<1>6. rank \in Injection(S, T)
  BY <1>4, <1>5 DEF Injection, IsInjective
<1>7. IsFiniteSet(T) /\ Cardinality(T) = Cardinality(S)
  <2> DEFINE b == Cardinality(S) - 1
  <2>1. b \in Int /\ (IF 0 > b THEN 0 ELSE b - 0 + 1) = Cardinality(S)
    BY <1>1
  <2> HIDE DEF b
  <2>2. IsFiniteSet(0..b) /\ Cardinality(0..b) = IF 0 > b THEN 0 ELSE b - 0 + 1
    BY <2>1, FS_Interval
  <2> QED
    BY <2>1, <2>2 DEF b
<1>8. rank \in Surjection(S, T)
  BY <1>6, <1>7, FS_Injection
<1>9. \E i \in S : rank[i] = n - 1
  <2>1. n - 1 \in T
    BY <1>1
  <2> QED
    BY <1>8, <2>1 DEF Surjection
<1>10. \E i \in S : Cardinality({j \in S : j < i}) = n - 1
  BY <1>9
<1> HIDE DEF below, rank
<1> QED
  BY <1>10 DEF Nth

Distinct(q) == \A i, j \in DOMAIN q : q[i] = q[j] => i = j

(* What is left when some requests are removed. *)
LEMMA RestIs ==
  ASSUME queue \in Seq(Conns), Distinct(queue), NEW some
  PROVE  /\ Rest(some) \in Seq(Conns) /\ Distinct(Rest(some))
         /\ ToSet(Rest(some)) \subseteq ToSet(queue) \ some
         /\ \A c \in ToSet(queue) : c \notin some => Rest(some) # <<>>
<1> DEFINE stay == {i \in DOMAIN queue : queue[i] \notin some}
           left == [n \in 1..Cardinality(stay) |-> queue[Nth(stay, n)]]
<1>1. Len(queue) \in Nat /\ DOMAIN queue = 1..Len(queue) /\ \A i \in DOMAIN queue : queue[i] \in Conns
  BY LenProperties, ElementOfSeq
<1>2. stay \subseteq 1..Len(queue)
  BY <1>1
<1>3. IsFiniteSet(stay) /\ Cardinality(stay) \in Nat
  <2>1. IsFiniteSet(1..Len(queue))
    BY <1>1, FS_Interval
  <2>2. stay \in SUBSET (1..Len(queue))
    BY <1>2
  <2> HIDE DEF stay
  <2>3. IsFiniteSet(stay)
    BY <2>1, <2>2, FS_Subset
  <2> QED
    BY <2>3, FS_CardinalityType
<1>4. stay \in SUBSET Nat
  BY <1>1, <1>2
<1> HIDE DEF stay
<1>5. ASSUME NEW n \in 1..Cardinality(stay)
      PROVE  Nth(stay, n) \in stay /\ Cardinality({j \in stay : j < Nth(stay, n)}) = n - 1
  BY <1>3, <1>4, Ranked
<1>6. ASSUME NEW i \in stay PROVE i \in DOMAIN queue /\ queue[i] \notin some /\ queue[i] \in Conns
  BY <1>1 DEF stay
<1>7. Rest(some) = left
  BY DEF Rest, stay
<1>8. left \in Seq(Conns)
  <2>1. left \in [1..Cardinality(stay) -> Conns]
    BY <1>5, <1>6
  <2> QED
    BY <1>3, <2>1, SeqDef
<1>9. DOMAIN left = 1..Cardinality(stay)
  OBVIOUS
<1>10. Distinct(left)
  <2> SUFFICES ASSUME NEW n \in 1..Cardinality(stay), NEW m \in 1..Cardinality(stay), left[n] = left[m]
               PROVE  n = m
    BY DEF Distinct
  <2>1. queue[Nth(stay, n)] = queue[Nth(stay, m)]
    OBVIOUS
  <2>2. Nth(stay, n) \in DOMAIN queue /\ Nth(stay, m) \in DOMAIN queue
    BY <1>5, <1>6
  <2>3. Nth(stay, n) = Nth(stay, m)
    BY <2>1, <2>2 DEF Distinct
  <2>4. n - 1 = m - 1
    BY <1>5, <2>3
  <2> QED
    BY <1>3, <2>4
<1>11. ToSet(left) \subseteq ToSet(queue) \ some
  BY <1>5, <1>6 DEF ToSet
<1>12. ASSUME NEW c \in ToSet(queue), c \notin some PROVE left # <<>>
  <2>1. stay # {}
    BY <1>12 DEF stay, ToSet
  <2>2. Cardinality(stay) # 0
    BY <1>3, <2>1, FS_EmptySet
  <2>3. 1 \in DOMAIN left
    BY <1>3, <2>2
  <2> QED
    BY <2>3
<1> HIDE DEF left
<1> QED
  BY <1>7, <1>8, <1>10, <1>11, <1>12
-----------------------------------------------------------------------------
HandRecord == [pc : {"idle", "decides", "touches", "notifies"}, device : Devices \cup {Nobody},
               says : Says, taken : SUBSET Conns]
HandsType == hand \in [Answerers -> HandRecord]
QueueType == queue \in Seq(Conns) /\ Distinct(queue)

(* What holds of a connection that asks: in the queue, nobody has decided; taken
   out of it by an answerer, nobody else decides, and it waits or was refused.
   A decision finds nobody who has not asked. *)
Asks(c) ==
  /\ c \in ToSet(queue) =>
       conn[c].gate = "pending" /\ conn[c].threads \in Open /\ conn[c].decided = Nobody
  /\ (\E a \in Answerers : c \in hand[a].taken) =>
       /\ c \notin ToSet(queue) /\ conn[c].gate \in {"pending", "refused"} /\ conn[c].threads # "new"
       /\ conn[c].gate = "pending" /\ conn[c].threads \in Open => conn[c].decided = Nobody
  /\ conn[c].gate \in {"greeting", "challenged"} => conn[c].decided = Nobody
  /\ conn[c].busy = "cancelled" => conn[c].gate = "refused"
  /\ conn[c].threads = "dropping" => conn[c].gate = "pending"
  /\ conn[c].threads = "new" => conn[c].gate = "greeting"

(* No two answerers hold the same request. *)
Answers ==
  /\ \A a \in Answerers : hand[a].pc \in {"idle", "decides"} => hand[a].taken = {}
  /\ \A a, b \in Answerers : a # b => hand[a].taken \cap hand[b].taken = {}

WaitInv == ConnType /\ HandsType /\ QueueType /\ (\A c \in Conns : Asks(c)) /\ Answers

LEMMA SameQueue ==
  ASSUME QueueType, UNCHANGED queue PROVE QueueType' /\ ToSet(queue)' = ToSet(queue)
BY DEF QueueType, Distinct

(* Whoever did not move and was not answered stands where it stood. *)
LEMMA StandsStill ==
  ASSUME NEW c \in Conns, conn'[c] = conn[c], UNCHANGED hand PROVE Standing(c)' = Standing(c)
BY DEF Standing, GrantedTo

(* One connection moves, and leaves the queue to the others or joins it. *)
LEMMA OneAsks ==
  ASSUME WaitInv, NEW c \in Conns, NEW r \in ConnRecord, conn' = [conn EXCEPT ![c] = r],
         UNCHANGED hand,
         QueueType', ToSet(queue)' \subseteq ToSet(queue) \cup {c}, Asks(c)'
  PROVE  WaitInv' /\ \A o \in Conns : o # c => Standing(o)' = Standing(o)
<1>1. ConnType' /\ HandsType' /\ Answers' /\ (\A o \in Conns : o # c => conn'[o] = conn[o])
  BY DEF WaitInv, ConnType, HandsType, Answers
<1>2. ASSUME NEW o \in Conns, o # c PROVE Asks(o)'
  BY <1>1, <1>2 DEF WaitInv, Asks
<1>3. \A o \in Conns : o # c => Standing(o)' = Standing(o)
  BY <1>1, StandsStill
<1> QED
  BY <1>1, <1>2, <1>3 DEF WaitInv

(* Requests are taken out where they stand. *)
LEMMA Removed ==
  ASSUME QueueType, NEW some, queue' = Rest(some)
  PROVE  QueueType' /\ ToSet(queue)' \subseteq ToSet(queue) \ some
<1>1. /\ Rest(some) \in Seq(Conns) /\ Distinct(Rest(some))
      /\ ToSet(Rest(some)) \subseteq ToSet(queue) \ some
  BY RestIs DEF QueueType
<1>2. ToSet(queue)' = ToSet(queue') /\ Distinct(queue)' = Distinct(queue')
  BY DEF ToSet, Distinct
<1> QED
  BY <1>1, <1>2 DEF QueueType

LEMMA Appended ==
  ASSUME QueueType, NEW c \in Conns, c \notin ToSet(queue), queue' = Append(queue, c)
  PROVE  QueueType' /\ ToSet(queue)' \subseteq ToSet(queue) \cup {c}
<1>1. queue \in Seq(Conns) /\ Len(queue) \in Nat /\ DOMAIN queue = 1..Len(queue)
  BY LenProperties DEF QueueType
<1>2. /\ queue' \in Seq(Conns) /\ DOMAIN queue' = 1..(Len(queue) + 1)
      /\ \A i \in 1..Len(queue) : queue'[i] = queue[i]
      /\ queue'[Len(queue) + 1] = c
  BY <1>1
<1>3. \A i \in 1..Len(queue) : queue[i] # c
  BY <1>1 DEF ToSet
<1>4. \A i \in DOMAIN queue' : i \in 1..Len(queue) \/ i = Len(queue) + 1
  BY <1>1, <1>2
<1>5. Distinct(queue)'
  BY <1>1, <1>2, <1>3, <1>4 DEF Distinct, QueueType
<1>6. ToSet(queue)' \subseteq ToSet(queue) \cup {c}
  BY <1>1, <1>2, <1>4 DEF ToSet
<1> QED
  BY <1>2, <1>5, <1>6 DEF QueueType
-----------------------------------------------------------------------------
Mapped == [Trust!Next]_(Trust!vars)

LEMMA StutterMaps ==
  ASSUME \A c \in Conns : Standing(c)' = Standing(c), UNCHANGED trust PROVE Mapped
BY DEF Mapped, Trust!vars

LEMMA LeaveMaps ==
  ASSUME NEW c \in Conns, Standing(c)' = "out", \A o \in Conns : o # c => Standing(o)' = Standing(o), UNCHANGED trust
  PROVE  Mapped
BY DEF Mapped, Trust!Next, Trust!Leave

LEMMA ProveMaps ==
  ASSUME NEW c \in Conns, Standing(c) = "stranger", \A o \in Conns : o # c => Standing(o)' = Standing(o),
         Standing(c)' = (IF Device[c] \in trust THEN "served" ELSE "waiting"), UNCHANGED trust
  PROVE  Mapped
BY DEF Mapped, Trust!Next, Trust!Prove

LEMMA EnterMaps ==
  ASSUME NEW c \in Conns, Standing(c) = "granted", \A o \in Conns : o # c => Standing(o)' = Standing(o),
         Standing(c)' = "served", trust' = trust \cup {Device[c]}
  PROVE  Mapped
BY DEF Mapped, Trust!Next, Trust!Enter

LEMMA GrantMaps ==
  ASSUME NEW some \in SUBSET Conns, \A c \in some : Standing(c) = "waiting" /\ Standing(c)' = "granted",
         \A c, d \in some : Device[c] = Device[d],
         \A o \in Conns : o \notin some => Standing(o)' = Standing(o), UNCHANGED trust
  PROVE  Mapped
<1>1. Trust!Grant(some)
  BY DEF Trust!Grant
<1> QED
  BY <1>1 DEF Mapped, Trust!Next

LEMMA RefuseMaps ==
  ASSUME WaitInv, NEW c \in Conns, NEW taken \in ConnRecord, taken.threads = conn[c].threads,
         conn[c].threads \in Open, Refuse(c, taken), UNCHANGED <<hand, trust>>
  PROVE  WaitInv' /\ Mapped
<1> DEFINE r == [taken EXCEPT !.gate = "refused", !.busy = IF c \in ToSet(queue) THEN "cancelled" ELSE "free"]
<1>1. r \in ConnRecord /\ r.gate = "refused" /\ r.threads = conn[c].threads
  BY DEF ConnRecord, Gates
<1>2. conn' = [conn EXCEPT ![c] = r] /\ queue' = Rest({c})
  BY DEF Refuse, Without
<1> HIDE DEF r
<1>3. conn'[c] = r
  BY <1>2 DEF WaitInv, ConnType
<1>4. QueueType' /\ ToSet(queue)' \subseteq ToSet(queue) \ {c}
  BY <1>2, Removed DEF WaitInv
<1>5. Asks(c)'
  BY <1>1, <1>3, <1>4 DEF Asks, WaitInv, Open
<1>6. WaitInv' /\ \A o \in Conns : o # c => Standing(o)' = Standing(o)
  BY <1>1, <1>2, <1>4, <1>5, OneAsks
<1>7. Standing(c)' = "out"
  BY <1>1, <1>3 DEF Standing
<1> QED
  BY <1>6, <1>7, LeaveMaps

LEMMA WelcomeServes ==
  ASSUME WaitInv, NEW c \in Conns, NEW taken \in ConnRecord, taken.threads = conn[c].threads,
         conn[c].threads \in Open, taken.busy = "free", c \notin ToSet(queue), \A a \in Answerers : c \notin hand[a].taken,
         Welcome(c, taken), UNCHANGED <<queue, hand>>
  PROVE  WaitInv' /\ Standing(c)' = "served" /\ \A o \in Conns : o # c => Standing(o)' = Standing(o)
<1> DEFINE r == [taken EXCEPT !.gate = "served"]
<1>1. r \in ConnRecord /\ r.gate = "served" /\ r.threads = conn[c].threads /\ r.busy = "free"
  BY DEF ConnRecord, Gates
<1>2. conn' = [conn EXCEPT ![c] = r]
  BY DEF Welcome
<1> HIDE DEF r
<1>3. conn'[c] = r
  BY <1>2 DEF WaitInv, ConnType
<1>4. QueueType' /\ ToSet(queue)' = ToSet(queue)
  BY SameQueue DEF WaitInv
<1>5. Asks(c)'
  BY <1>1, <1>3, <1>4 DEF Asks, WaitInv, Open
<1>6. WaitInv' /\ \A o \in Conns : o # c => Standing(o)' = Standing(o)
  BY <1>1, <1>2, <1>4, <1>5, OneAsks
<1>7. Standing(c)' = "served"
  BY <1>1, <1>3 DEF Standing, Open
<1> QED
  BY <1>6, <1>7

(* A connection that moves with its queue place, its gate and its standing kept:
   it is still open, or it was out already. *)
LEMMA KeptMaps ==
  ASSUME WaitInv, NEW c \in Conns, NEW r \in ConnRecord, conn' = [conn EXCEPT ![c] = r],
         r.gate = conn[c].gate, r.decided = conn[c].decided,
         r.busy \in {conn[c].busy, "free"},
         r.threads = conn[c].threads \/ (conn[c].threads \in {"new", "up"} /\ r.threads \in Open),
         UNCHANGED <<queue, hand, trust>>
  PROVE  WaitInv' /\ Mapped
<1>1. conn'[c] = r
  BY DEF WaitInv, ConnType
<1>2. QueueType' /\ ToSet(queue)' = ToSet(queue)
  BY SameQueue DEF WaitInv
<1>3. Asks(c)'
  BY <1>1, <1>2 DEF Asks, WaitInv, Open
<1>4. WaitInv' /\ \A o \in Conns : o # c => Standing(o)' = Standing(o)
  BY <1>2, <1>3, OneAsks
<1>5. Standing(c)' = Standing(c)
  BY <1>1 DEF Standing, GrantedTo, Open
<1> QED
  BY <1>4, <1>5, StutterMaps

(* A connection that is out, or goes out now, and is decided as it may be. *)
LEMMA OutMaps ==
  ASSUME WaitInv, NEW c \in Conns, NEW r \in ConnRecord, conn' = [conn EXCEPT ![c] = r],
         r.gate = conn[c].gate, r.busy \in {conn[c].busy, "free"},
         r.decided = conn[c].decided \/ conn[c].gate \notin {"greeting", "challenged"},
         \/ r.threads = conn[c].threads /\ conn[c].gate = "refused"
         \/ r.threads \in {"closing", "over"}
         \/ r.threads = "dropping" /\ conn[c].gate = "pending",
         r.threads = "over" \/ conn[c].threads # "new",
         \A a \in Answerers : conn[c].threads = "new" => c \notin hand[a].taken,
         QueueType', ToSet(queue)' \subseteq ToSet(queue) \ {c},
         UNCHANGED <<hand, trust>>
  PROVE  WaitInv' /\ Mapped
<1>1. conn'[c] = r
  BY DEF WaitInv, ConnType
<1>2. Asks(c)'
  BY <1>1 DEF Asks, WaitInv, Open
<1>3. WaitInv' /\ \A o \in Conns : o # c => Standing(o)' = Standing(o)
  BY <1>2, OneAsks
<1>4. Standing(c)' = "out"
  BY <1>1 DEF Standing
<1> QED
  BY <1>3, <1>4, LeaveMaps
-----------------------------------------------------------------------------
LEMMA AdmitMaps == ASSUME WaitInv, NEW c \in Conns, Admit(c) PROVE WaitInv' /\ Mapped
<1>1. conn[c] \in ConnRecord /\ conn[c].threads = "new" /\ UNCHANGED <<queue, hand, trust>>
  BY DEF Admit, queueVars, WaitInv, ConnType
<1>2. conn[c].gate = "greeting" /\ c \notin ToSet(queue) /\ \A a \in Answerers : c \notin hand[a].taken
  BY <1>1 DEF WaitInv, Asks
<1>3. CASE conn' = [conn EXCEPT ![c].threads = "up"]
  <2> DEFINE r == [conn[c] EXCEPT !.threads = "up"]
  <2>1. /\ r \in ConnRecord /\ r.threads = "up"
        /\ r.gate = conn[c].gate /\ r.busy = conn[c].busy /\ r.decided = conn[c].decided
    BY <1>1 DEF ConnRecord, Threads
  <2>2. conn' = [conn EXCEPT ![c] = r]
    BY <1>3
  <2> HIDE DEF r
  <2> QED
    BY <1>1, <2>1, <2>2, KeptMaps DEF Open
<1>4. CASE conn' = [conn EXCEPT ![c].threads = "over"]
  <2> DEFINE r == [conn[c] EXCEPT !.threads = "over"]
  <2>1. /\ r \in ConnRecord /\ r.threads = "over"
        /\ r.gate = conn[c].gate /\ r.busy = conn[c].busy /\ r.decided = conn[c].decided
    BY <1>1 DEF ConnRecord, Threads
  <2>2. conn' = [conn EXCEPT ![c] = r]
    BY <1>4
  <2> HIDE DEF r
  <2>3. QueueType' /\ ToSet(queue)' \subseteq ToSet(queue) \ {c}
    BY <1>1, <1>2, SameQueue DEF WaitInv
  <2> QED
    BY <1>1, <1>2, <2>1, <2>2, <2>3, OutMaps
<1> QED
  BY <1>3, <1>4 DEF Admit

LEMMA HelloMaps == ASSUME WaitInv, NEW c \in Conns, Hello(c) PROVE WaitInv' /\ Mapped
<1>1. conn[c] \in ConnRecord /\ conn[c].threads = "up" /\ UNCHANGED <<hand, trust>>
  BY DEF Hello, Free, WaitInv, ConnType
<1>2. CASE /\ conn[c].gate = "greeting" /\ conn' = [conn EXCEPT ![c].gate = "challenged"]
           /\ UNCHANGED queue
  <2> DEFINE r == [conn[c] EXCEPT !.gate = "challenged"]
  <2>1. /\ r \in ConnRecord /\ r.gate = "challenged"
        /\ r.threads = conn[c].threads /\ r.busy = conn[c].busy /\ r.decided = conn[c].decided
    BY <1>1 DEF ConnRecord, Gates
  <2>2. conn' = [conn EXCEPT ![c] = r]
    BY <1>2
  <2> HIDE DEF r
  <2>3. conn'[c] = r
    BY <2>2 DEF WaitInv, ConnType
  <2>4. QueueType' /\ ToSet(queue)' = ToSet(queue)
    BY <1>2, SameQueue DEF WaitInv
  <2>5. Asks(c)'
    BY <1>1, <1>2, <2>1, <2>3, <2>4 DEF Asks, WaitInv, Open
  <2>6. WaitInv' /\ \A o \in Conns : o # c => Standing(o)' = Standing(o)
    BY <1>1, <2>1, <2>2, <2>4, <2>5, OneAsks
  <2>7. Standing(c)' = Standing(c)
    BY <1>1, <1>2, <2>1, <2>3 DEF Standing
  <2> QED
    BY <1>1, <2>6, <2>7, StutterMaps
<1>3. CASE Refuse(c, conn[c])
  BY <1>1, <1>3, RefuseMaps DEF Open
<1> QED
  BY <1>2, <1>3 DEF Hello

LEMMA AuthMaps == ASSUME WaitInv, NEW c \in Conns, Auth(c) PROVE WaitInv' /\ Mapped
<1>1. conn[c] \in ConnRecord /\ conn[c].threads = "up" /\ conn[c].busy = "free" /\ UNCHANGED <<hand, trust>>
  BY DEF Auth, Free, WaitInv, ConnType
<1>2. ASSUME conn[c].gate = "challenged"
      PROVE  /\ c \notin ToSet(queue) /\ \A a \in Answerers : c \notin hand[a].taken
             /\ conn[c].decided = Nobody /\ Standing(c) = "stranger"
  BY <1>1, <1>2 DEF WaitInv, Asks, Standing
<1>3. CASE conn[c].gate = "challenged" /\ Device[c] \in trust /\ Welcome(c, conn[c]) /\ UNCHANGED queue
  <2>1. WaitInv' /\ Standing(c)' = "served" /\ \A o \in Conns : o # c => Standing(o)' = Standing(o)
    BY <1>1, <1>2, <1>3, WelcomeServes DEF Open
  <2> QED
    BY <1>1, <1>2, <1>3, <2>1, ProveMaps
<1>4. CASE /\ conn[c].gate = "challenged" /\ Device[c] \notin trust
           /\ conn' = [conn EXCEPT ![c].gate = "pending", ![c].busy = "asked"] /\ queue' = Append(queue, c)
  <2> DEFINE r == [conn[c] EXCEPT !.gate = "pending", !.busy = "asked"]
  <2>1. /\ r \in ConnRecord /\ r.gate = "pending" /\ r.busy = "asked"
        /\ r.threads = "up" /\ r.decided = Nobody
    BY <1>1, <1>2, <1>4 DEF ConnRecord, Gates
  <2>2. conn' = [conn EXCEPT ![c] = r]
    BY <1>4
  <2> HIDE DEF r
  <2>3. conn'[c] = r
    BY <2>2 DEF WaitInv, ConnType
  <2>4. QueueType' /\ ToSet(queue)' \subseteq ToSet(queue) \cup {c}
    BY <1>2, <1>4, Appended DEF WaitInv
  <2>5. Asks(c)'
    BY <1>1, <1>2, <1>4, <2>1, <2>3 DEF Asks, Open
  <2>6. WaitInv' /\ \A o \in Conns : o # c => Standing(o)' = Standing(o)
    BY <1>1, <2>1, <2>2, <2>4, <2>5, OneAsks
  <2>7. Standing(c)' = "waiting"
    BY <1>1, <1>2, <1>4, <2>1, <2>3 DEF Standing, GrantedTo, Nobody
  <2> QED
    BY <1>1, <1>2, <1>4, <2>6, <2>7, ProveMaps
<1>5. CASE Refuse(c, conn[c])
  BY <1>1, <1>5, RefuseMaps DEF Open
<1> QED
  BY <1>3, <1>4, <1>5 DEF Auth

LEMMA TakesMaps == ASSUME WaitInv, NEW c \in Conns, TakeDecision(c) PROVE WaitInv' /\ Mapped
<1> DEFINE taken == [conn[c] EXCEPT !.decided = Nobody, !.wake = FALSE]
<1>1. /\ conn[c] \in ConnRecord /\ conn[c].threads \in Open /\ conn[c].busy = "free"
      /\ UNCHANGED hand
  BY DEF TakeDecision, WaitInv, ConnType, Open
<1>2. /\ taken \in ConnRecord /\ taken.gate = conn[c].gate /\ taken.threads = conn[c].threads
      /\ taken.busy = conn[c].busy /\ taken.decided = Nobody
  BY <1>1 DEF ConnRecord, Says
<1>3. \/ /\ conn[c].gate # "pending" \/ conn[c].decided = Nobody
         /\ conn' = [conn EXCEPT ![c] = taken] /\ UNCHANGED <<trust, queue>>
      \/ /\ conn[c].gate = "pending" /\ conn[c].decided = "approve"
         /\ trust' = trust \cup {Device[c]} /\ Welcome(c, taken) /\ UNCHANGED queue
      \/ Refuse(c, taken) /\ UNCHANGED trust
  BY DEF TakeDecision
<1> HIDE DEF taken
<1>4. CASE /\ conn[c].gate # "pending" \/ conn[c].decided = Nobody
           /\ conn' = [conn EXCEPT ![c] = taken] /\ UNCHANGED <<trust, queue>>
  <2>1. conn'[c] = taken
    BY <1>4 DEF WaitInv, ConnType
  <2>2. QueueType' /\ ToSet(queue)' = ToSet(queue)
    BY <1>4, SameQueue DEF WaitInv
  <2>3. Asks(c)'
    BY <1>1, <1>2, <1>4, <2>1, <2>2 DEF Asks, WaitInv, Open
  <2>4. WaitInv' /\ \A o \in Conns : o # c => Standing(o)' = Standing(o)
    BY <1>1, <1>2, <1>4, <2>2, <2>3, OneAsks
  <2>5. Standing(c)' = Standing(c)
    BY <1>1, <1>2, <1>4, <2>1 DEF Standing, GrantedTo
  <2> QED
    BY <1>4, <2>4, <2>5, StutterMaps
<1>5. CASE /\ conn[c].gate = "pending" /\ conn[c].decided = "approve"
           /\ trust' = trust \cup {Device[c]} /\ Welcome(c, taken) /\ UNCHANGED queue
  <2>1. c \notin ToSet(queue) /\ \A a \in Answerers : c \notin hand[a].taken
    BY <1>1, <1>5 DEF WaitInv, Asks, Nobody
  <2>2. Standing(c) = "granted"
    BY <1>1, <1>5 DEF Standing, GrantedTo, Open
  <2>3. WaitInv' /\ Standing(c)' = "served" /\ \A o \in Conns : o # c => Standing(o)' = Standing(o)
    BY <1>1, <1>2, <1>5, <2>1, WelcomeServes
  <2> QED
    BY <1>5, <2>2, <2>3, EnterMaps
<1>6. CASE Refuse(c, taken) /\ UNCHANGED trust
  BY <1>1, <1>2, <1>6, RefuseMaps
<1> QED
  BY <1>3, <1>4, <1>5, <1>6

LEMMA AskMaps ==
  ASSUME WaitInv, NEW c \in Conns, AskForApproval(c) \/ ReaderEnds(c) PROVE WaitInv' /\ Mapped
<1>1. /\ conn[c] \in ConnRecord /\ UNCHANGED <<queue, hand, trust>> 
  BY DEF AskForApproval, ReaderEnds, queueVars, WaitInv, ConnType
<1>2. CASE AskForApproval(c)
  <2> DEFINE r == [conn[c] EXCEPT !.busy = "free"]
  <2>1. /\ r \in ConnRecord /\ r.busy = "free"
        /\ r.gate = conn[c].gate /\ r.threads = conn[c].threads /\ r.decided = conn[c].decided
    BY <1>1 DEF ConnRecord
  <2>2. conn' = [conn EXCEPT ![c] = r]
    BY <1>2 DEF AskForApproval
  <2> HIDE DEF r
  <2> QED
    BY <1>1, <2>1, <2>2, KeptMaps
<1>3. CASE ReaderEnds(c)
  <2> DEFINE r == [conn[c] EXCEPT !.threads = "down"]
  <2>1. /\ r \in ConnRecord /\ r.threads = "down"
        /\ r.gate = conn[c].gate /\ r.busy = conn[c].busy /\ r.decided = conn[c].decided
    BY <1>1 DEF ConnRecord, Threads
  <2>2. conn' = [conn EXCEPT ![c] = r] /\ conn[c].threads = "up"
    BY <1>3 DEF ReaderEnds, Free
  <2> HIDE DEF r
  <2> QED
    BY <1>1, <2>1, <2>2, KeptMaps DEF Open
<1> QED
  BY <1>2, <1>3
-----------------------------------------------------------------------------
(* The end of a request or of a connection: nobody who is out comes back. *)
LEMMA TellsMaps ==
  ASSUME WaitInv, NEW c \in Conns, RefuseTells(c) \/ DropTells(c) \/ Settles(c) PROVE WaitInv' /\ Mapped
<1>1. conn[c] \in ConnRecord /\ UNCHANGED <<queue, hand, trust>>
  BY DEF RefuseTells, DropTells, Settles, queueVars, WaitInv, ConnType
<1>2. /\ conn[c].busy = "cancelled" => conn[c].gate = "refused"
      /\ conn[c].threads = "dropping" => conn[c].gate = "pending"
      /\ conn[c].threads = "new" => conn[c].gate = "greeting"
  BY DEF WaitInv, Asks
<1>3. conn[c].gate = "refused" \/ conn[c].threads \notin Open => c \notin ToSet(queue)
  BY DEF WaitInv, Asks
<1>4. c \notin ToSet(queue) => QueueType' /\ ToSet(queue)' \subseteq ToSet(queue) \ {c}
  BY <1>1, SameQueue DEF WaitInv
<1>5. CASE RefuseTells(c)
  <2> DEFINE r == [conn[c] EXCEPT !.busy = "free", !.decided = "deny", !.wake = TRUE]
  <2>1. r \in ConnRecord /\ r.busy = "free" /\ r.gate = conn[c].gate /\ r.threads = conn[c].threads
    BY <1>1 DEF ConnRecord, Says
  <2>2. conn' = [conn EXCEPT ![c] = r] /\ conn[c].gate = "refused"
    BY <1>2, <1>5 DEF RefuseTells
  <2> HIDE DEF r
  <2> QED
    BY <1>1, <1>2, <1>3, <1>4, <2>1, <2>2, OutMaps
<1>6. CASE DropTells(c)
  <2> DEFINE r == [conn[c] EXCEPT !.threads = "closing", !.decided = "deny"]
  <2>1. r \in ConnRecord /\ r.busy = conn[c].busy /\ r.gate = conn[c].gate /\ r.threads = "closing"
    BY <1>1 DEF ConnRecord, Says, Threads
  <2>2. conn' = [conn EXCEPT ![c] = r] /\ conn[c].gate = "pending" /\ conn[c].threads = "dropping"
    BY <1>2, <1>6 DEF DropTells
  <2> HIDE DEF r
  <2> QED
    BY <1>1, <1>3, <1>4, <2>1, <2>2, OutMaps DEF Open
<1>7. CASE Settles(c)
  <2> DEFINE r == [conn[c] EXCEPT !.threads = "over"]
  <2>1. /\ r \in ConnRecord /\ r.busy = conn[c].busy /\ r.gate = conn[c].gate /\ r.decided = conn[c].decided
        /\ r.threads = "over"
    BY <1>1 DEF ConnRecord, Threads
  <2>2. conn' = [conn EXCEPT ![c] = r] /\ conn[c].threads = "closing"
    BY <1>7 DEF Settles
  <2> HIDE DEF r
  <2> QED
    BY <1>1, <1>3, <1>4, <2>1, <2>2, OutMaps DEF Open
<1> QED
  BY <1>5, <1>6, <1>7

LEMMA DropMaps == ASSUME WaitInv, NEW c \in Conns, Dropped(c) PROVE WaitInv' /\ Mapped
<1> DEFINE r == [conn[c] EXCEPT !.threads = IF c \in ToSet(queue) THEN "dropping" ELSE "closing"]
<1>1. conn[c] \in ConnRecord /\ conn[c].threads = "down" /\ UNCHANGED <<hand, trust>>
  BY DEF Dropped, WaitInv, ConnType
<1>2. /\ r \in ConnRecord /\ r.busy = conn[c].busy /\ r.gate = conn[c].gate /\ r.decided = conn[c].decided
      /\ r.threads = (IF c \in ToSet(queue) THEN "dropping" ELSE "closing")
  BY <1>1 DEF ConnRecord, Threads
<1>3. conn' = [conn EXCEPT ![c] = r] /\ queue' = Rest({c})
  BY DEF Dropped, Without
<1> HIDE DEF r
<1>4. QueueType' /\ ToSet(queue)' \subseteq ToSet(queue) \ {c}
  BY <1>3, Removed DEF WaitInv
<1>5. c \in ToSet(queue) => conn[c].gate = "pending"
  BY DEF WaitInv, Asks
<1> QED
  BY <1>1, <1>2, <1>3, <1>4, <1>5, OutMaps

(* A step that touches no connection, no request and no decision. *)
LEMMA AsideMaps == ASSUME WaitInv, UNCHANGED <<conn, queue, hand, trust>> PROVE WaitInv' /\ Mapped
<1>1. WaitInv'
  <2>1. QueueType' /\ ToSet(queue)' = ToSet(queue)
    BY SameQueue DEF WaitInv
  <2>2. ConnType' /\ HandsType' /\ Answers'
    BY DEF WaitInv, ConnType, HandsType, Answers
  <2>3. ASSUME NEW c \in Conns PROVE Asks(c)'
    BY <2>1 DEF WaitInv, Asks
  <2> QED
    BY <2>1, <2>2, <2>3 DEF WaitInv
<1> QED
  BY <1>1, StandsStill, StutterMaps

(* A decision that holds no request is replaced by another that holds none: at a
   window, at the terminal, or on its way to its end. *)
LEMMA EmptyHandMaps ==
  ASSUME WaitInv, NEW a \in Answerers, NEW h \in HandRecord, hand' = [hand EXCEPT ![a] = h],
         h.taken = hand[a].taken, h.taken = {} \/ (h.pc \in {"touches", "notifies"} /\ h.says = hand[a].says),
         UNCHANGED <<conn, queue, trust>>
  PROVE  WaitInv' /\ Mapped
<1>1. HandsType' /\ hand'[a] = h /\ (\A b \in Answerers : b # a => hand'[b] = hand[b])
  BY DEF WaitInv, HandsType
<1>2. \A b \in Answerers : hand'[b].taken = hand[b].taken
  BY <1>1
<1>3. QueueType' /\ ToSet(queue)' = ToSet(queue) /\ ConnType'
  BY SameQueue DEF WaitInv, ConnType
<1>4. ASSUME NEW c \in Conns PROVE Asks(c)'
  BY <1>2, <1>3 DEF WaitInv, Asks
<1>5. Answers'
  BY <1>1, <1>2 DEF WaitInv, Answers
<1>6. ASSUME NEW c \in Conns PROVE Standing(c)' = Standing(c)
  <2>1. \A b \in Answerers : c \in hand[b].taken => hand'[b].says = hand[b].says
    BY <1>1
  <2>2. GrantedTo(c)' <=> GrantedTo(c)
    BY <1>2, <2>1 DEF GrantedTo
  <2> QED
    BY <2>2 DEF Standing
<1> QED
  BY <1>1, <1>3, <1>4, <1>5, <1>6, StutterMaps DEF WaitInv
-----------------------------------------------------------------------------
LEMMA IdleIsRecord == Idle \in HandRecord /\ Idle.taken = {} /\ Idle.pc = "idle"
BY DEF Idle, HandRecord, Says

(* A person decides. *)
LEMMA ClickMaps ==
  ASSUME WaitInv, NEW w \in Windows, NEW d \in Devices, NEW says \in {"approve", "deny"}, Clicks(w, d, says)
  PROVE  WaitInv' /\ Mapped
<1> DEFINE h == [Idle EXCEPT !.pc = "decides", !.device = d, !.says = says]
<1>1. h \in HandRecord /\ h.taken = {}
  BY DEF Idle, HandRecord, Says
<1>2. w \in Answerers /\ hand[w].taken = {}
  BY DEF Answerers, Clicks, WaitInv, Answers
<1>3. hand' = [hand EXCEPT ![w] = h] /\ UNCHANGED <<conn, queue, trust>>
  BY DEF Clicks
<1> HIDE DEF h
<1> QED
  BY <1>1, <1>2, <1>3, EmptyHandMaps

LEMMA ReadMaps ==
  ASSUME WaitInv, NEW says \in {"approve", "deny"}, PrompterReads(says), prompter.asking \in Conns,
         hand[Terminal].pc = "idle"
  PROVE  WaitInv' /\ Mapped
<1> DEFINE h == [Idle EXCEPT !.pc = "decides", !.device = Device[prompter.asking], !.says = says]
<1>1. h \in HandRecord /\ h.taken = {}
  BY DEF Idle, HandRecord, Says, Devices
<1>2. Terminal \in Answerers
  BY DEF Answerers
<1>3. hand[Terminal].taken = {}
  BY <1>2 DEF WaitInv, Answers
<1>4. hand' = hand \/ hand' = [hand EXCEPT ![Terminal] = h]
  BY DEF PrompterReads
<1>5. UNCHANGED <<conn, queue, trust>>
  BY DEF PrompterReads
<1> HIDE DEF h
<1>6. CASE hand' = hand
  BY <1>5, <1>6, AsideMaps
<1>7. CASE hand' = [hand EXCEPT ![Terminal] = h]
  BY <1>1, <1>2, <1>3, <1>5, <1>7, EmptyHandMaps
<1> QED
  BY <1>4, <1>6, <1>7

LEMMA TouchMaps == ASSUME WaitInv, NEW a \in Answerers, ResolveTouches(a) PROVE WaitInv' /\ Mapped
<1> DEFINE h == [hand[a] EXCEPT !.pc = "notifies"]
<1>1. hand[a] \in HandRecord
  BY DEF WaitInv, HandsType
<1>2. h \in HandRecord /\ h.taken = hand[a].taken /\ h.pc = "notifies" /\ h.says = hand[a].says
  BY <1>1 DEF HandRecord
<1>3. hand' = [hand EXCEPT ![a] = h] /\ UNCHANGED <<conn, queue, trust>>
  BY DEF ResolveTouches
<1> HIDE DEF h
<1> QED
  BY <1>2, <1>3, EmptyHandMaps

(* The decision takes every request of its device: these wait, and are granted
   if that is what it says. *)
LEMMA ResolveMaps == ASSUME WaitInv, NEW a \in Answerers, Resolves(a) PROVE WaitInv' /\ Mapped
<1> DEFINE taken == OfDevice(hand[a].device)
           h == IF taken = {} THEN Idle ELSE [hand[a] EXCEPT !.pc = "touches", !.taken = taken]
<1>1. hand[a] \in HandRecord /\ hand[a].pc = "decides" /\ hand[a].taken = {}
  BY DEF Resolves, WaitInv, HandsType, Answers
<1>2. taken \subseteq ToSet(queue) /\ ToSet(queue) \subseteq Conns /\ \A c, d \in taken : Device[c] = Device[d]
  <2>1. ToSet(queue) \subseteq Conns
    BY LenProperties, ElementOfSeq DEF ToSet, WaitInv, QueueType
  <2> QED
    BY <2>1 DEF OfDevice
<1>3. /\ h \in HandRecord /\ h.taken = taken /\ h.pc # "decides"
      /\ h.pc = "idle" => taken = {}
      /\ taken # {} => h.says = hand[a].says
  <2>1. CASE taken = {}
    BY <2>1, IdleIsRecord
  <2>2. CASE taken # {}
    <3> DEFINE q == [hand[a] EXCEPT !.pc = "touches", !.taken = taken]
    <3>1. taken \in SUBSET Conns
      BY <1>2
    <3> HIDE DEF taken
    <3>2. q \in HandRecord /\ q.taken = taken /\ q.pc = "touches" /\ q.says = hand[a].says
      BY <1>1, <3>1 DEF HandRecord
    <3> QED
      BY <2>2, <3>2
  <2> QED
    BY <2>1, <2>2
<1>4. hand' = [hand EXCEPT ![a] = h] /\ queue' = Rest(taken) /\ UNCHANGED <<conn, trust>>
  BY DEF Resolves
<1> HIDE DEF taken, h
<1>5. HandsType' /\ hand'[a] = h /\ (\A b \in Answerers : b # a => hand'[b] = hand[b])
  BY <1>3, <1>4 DEF WaitInv, HandsType
<1>6. QueueType' /\ ToSet(queue)' \subseteq ToSet(queue) \ taken
  BY <1>4, Removed DEF WaitInv
<1>7. ASSUME NEW c \in taken
      PROVE  /\ conn[c].gate = "pending" /\ conn[c].threads \in Open /\ conn[c].decided = Nobody
             /\ \A b \in Answerers : c \notin hand[b].taken
  BY <1>2 DEF WaitInv, Asks
<1>8. ASSUME NEW c \in Conns PROVE Asks(c)'
  <2>1. CASE c \in taken
    <3>1. conn[c].busy = "cancelled" => conn[c].gate = "refused"
      BY DEF WaitInv, Asks
    <3>2. c \notin ToSet(queue)'
      BY <1>6, <2>1
    <3> QED
      BY <1>4, <1>7, <2>1, <3>1, <3>2 DEF Asks, Open
  <2>2. CASE c \notin taken
    <3>1. (\E b \in Answerers : c \in hand'[b].taken) => \E b \in Answerers : c \in hand[b].taken
      BY <1>3, <1>5, <2>2
    <3> QED
      BY <1>4, <1>6, <3>1 DEF WaitInv, Asks
  <2> QED
    BY <2>1, <2>2
<1>9. Answers'
  <2>1. \A b \in Answerers : hand'[b].pc \in {"idle", "decides"} => hand'[b].taken = {}
    BY <1>3, <1>5 DEF WaitInv, Answers
  <2>2. \A b \in Answerers : b # a => hand[b].taken \cap taken = {}
    BY <1>7
  <2>3. \A b, e \in Answerers : b # e => hand'[b].taken \cap hand'[e].taken = {}
    BY <1>3, <1>5, <2>2 DEF WaitInv, Answers
  <2> QED
    BY <2>1, <2>3 DEF Answers
<1>10. WaitInv'
  BY <1>4, <1>5, <1>6, <1>8, <1>9 DEF WaitInv, ConnType
<1>11. ASSUME NEW c \in Conns, c \notin taken PROVE Standing(c)' = Standing(c)
  <2>1. GrantedTo(c)' <=> GrantedTo(c)
    BY <1>1, <1>3, <1>4, <1>5, <1>11 DEF GrantedTo
  <2> QED
    BY <1>4, <2>1 DEF Standing
<1>12. ASSUME NEW c \in taken PROVE /\ Standing(c) = "waiting"
                                  /\ Standing(c)' = (IF hand[a].says = "approve" THEN "granted" ELSE "waiting")
  <2>1. ~GrantedTo(c)
    BY <1>7 DEF GrantedTo, Nobody
  <2>2. GrantedTo(c)' <=> hand[a].says = "approve"
    BY <1>3, <1>4, <1>5, <1>7, <1>12 DEF GrantedTo, Nobody
  <2> QED
    BY <1>4, <1>7, <2>1, <2>2 DEF Standing, Open
<1>13. CASE hand[a].says = "approve"
  <2>1. taken \in SUBSET Conns
    BY <1>2
  <2> QED
    BY <1>2, <1>4, <1>10, <1>11, <1>12, <1>13, <2>1, GrantMaps
<1>14. CASE hand[a].says # "approve"
  BY <1>4, <1>10, <1>11, <1>12, <1>14, StutterMaps
<1> QED
  BY <1>13, <1>14

(* Whoever was granted is told so, and is granted still. *)
LEMMA NotifyMaps == ASSUME WaitInv, NEW a \in Answerers, ResolveNotifies(a) PROVE WaitInv' /\ Mapped
<1> DEFINE some == hand[a].taken
<1>1. hand' = [hand EXCEPT ![a] = Idle] /\ UNCHANGED <<queue, trust>> /\ Notified(some, hand[a].says)
  BY DEF ResolveNotifies
<1>2. hand[a] \in HandRecord
  BY DEF WaitInv, HandsType
<1>3. some \subseteq Conns /\ hand[a].says \in Says
  BY <1>2 DEF HandRecord
<1>4. HandsType' /\ hand'[a] = Idle /\ (\A b \in Answerers : b # a => hand'[b] = hand[b])
  BY <1>1, IdleIsRecord DEF WaitInv, HandsType
<1>5. \A b \in Answerers : b # a => hand[b].taken \cap some = {}
  BY DEF WaitInv, Answers
<1> HIDE DEF some
<1>6. ASSUME NEW c \in Conns
      PROVE  /\ conn'[c] \in ConnRecord /\ conn'[c].gate = conn[c].gate /\ conn'[c].threads = conn[c].threads
             /\ conn'[c].busy = conn[c].busy
             /\ conn'[c].decided = (IF c \in some THEN hand[a].says ELSE conn[c].decided)
  <2> DEFINE r == [conn[c] EXCEPT !.decided = hand[a].says, !.wake = TRUE]
  <2>1. conn[c] \in ConnRecord
    BY DEF WaitInv, ConnType
  <2>2. /\ r \in ConnRecord /\ r.gate = conn[c].gate /\ r.threads = conn[c].threads /\ r.busy = conn[c].busy
        /\ r.decided = hand[a].says
    BY <1>3, <2>1 DEF ConnRecord
  <2>3. conn'[c] = IF c \in some THEN r ELSE conn[c]
    BY <1>1 DEF Notified
  <2> HIDE DEF r
  <2> QED
    BY <2>1, <2>2, <2>3
<1>7. ConnType'
  <2>1. DOMAIN conn' = Conns /\ conn' = [c \in Conns |-> conn'[c]]
    BY <1>1 DEF Notified
  <2> QED
    BY <1>6, <2>1 DEF ConnType
<1>8. QueueType' /\ ToSet(queue)' = ToSet(queue)
  BY <1>1, SameQueue DEF WaitInv
<1>9. ASSUME NEW c \in some
      PROVE  /\ c \notin ToSet(queue) /\ conn[c].gate \in {"pending", "refused"} /\ conn[c].threads # "new"
             /\ conn[c].gate = "pending" /\ conn[c].threads \in Open => conn[c].decided = Nobody
             /\ \A b \in Answerers : c \notin hand'[b].taken
  <2>1. c \in Conns /\ c \in hand[a].taken
    BY <1>3 DEF some
  <2>2. \A b \in Answerers : c \notin hand'[b].taken
    BY <1>4, <1>5, IdleIsRecord
  <2> QED
    BY <2>1, <2>2 DEF WaitInv, Asks
<1>10. ASSUME NEW c \in Conns PROVE Asks(c)'
  <2>1. CASE c \in some
    <3>1. conn[c].busy = "cancelled" => conn[c].gate = "refused"
      BY DEF WaitInv, Asks
    <3>2. conn[c].threads = "dropping" => conn[c].gate = "pending"
      BY DEF WaitInv, Asks
    <3> QED
      BY <1>6, <1>8, <1>9, <2>1, <3>1, <3>2 DEF Asks
  <2>2. CASE c \notin some
    <3>1. (\E b \in Answerers : c \in hand'[b].taken) => \E b \in Answerers : c \in hand[b].taken
      BY <1>4, IdleIsRecord
    <3> QED
      BY <1>6, <1>8, <2>2, <3>1 DEF WaitInv, Asks
  <2> QED
    BY <2>1, <2>2
<1>11. Answers'
  BY <1>4, IdleIsRecord DEF WaitInv, Answers
<1>12. WaitInv'
  BY <1>4, <1>7, <1>8, <1>10, <1>11 DEF WaitInv
<1>13. ASSUME NEW c \in Conns, c \notin some PROVE Standing(c)' = Standing(c)
  <2>1. GrantedTo(c)' <=> GrantedTo(c)
    BY <1>4, <1>6, <1>13, IdleIsRecord DEF GrantedTo, some
  <2> QED
    BY <1>6, <2>1 DEF Standing
<1>14. ASSUME NEW c \in Conns, c \in some PROVE Standing(c)' = Standing(c)
  <2>1. CASE conn[c].gate = "pending" /\ conn[c].threads \in Open
    <3>1. conn[c].decided = Nobody
      BY <1>9, <1>14, <2>1
    <3>2. GrantedTo(c) <=> hand[a].says = "approve"
      BY <1>5, <1>14, <3>1 DEF GrantedTo, some, Nobody
    <3>3. GrantedTo(c)' <=> hand[a].says = "approve"
      BY <1>6, <1>9, <1>14 DEF GrantedTo
    <3> QED
      BY <1>6, <2>1, <3>2, <3>3 DEF Standing
  <2>2. CASE ~(conn[c].gate = "pending" /\ conn[c].threads \in Open)
    <3>1. conn[c].threads \in Threads /\ conn[c].threads # "new" /\ conn[c].gate \in {"pending", "refused"}
      BY <1>9, <1>14 DEF WaitInv, ConnType, ConnRecord
    <3> QED
      BY <1>6, <2>2, <3>1 DEF Standing, Open, Threads
  <2> QED
    BY <2>1, <2>2
<1> QED
  BY <1>1, <1>12, <1>13, <1>14, StutterMaps
-----------------------------------------------------------------------------
WindowRecord == [on : BOOLEAN, dirty : BOOLEAN, wake : BOOLEAN, listing : BOOLEAN,
                 announced : SUBSET Devices, modal : [Devices -> Conns \cup {Nobody}]]
WindowType == window \in [Windows -> WindowRecord]
(* The terminal asks only when its last answer is through. *)
PromptInv ==
  /\ prompter \in [bell : BOOLEAN, list : Seq(Conns), asking : Conns \cup {Nobody}]
  /\ prompter.asking # Nobody => hand[Terminal].pc = "idle"
TrustType == trust \subseteq Devices
SlotBound == unauthenticated <= MaxSlots

LEMMA PromptStep == ASSUME WaitInv, PromptInv, [Next]_vars PROVE PromptInv'
<1> DEFINE Record == [bell : BOOLEAN, list : Seq(Conns), asking : Conns \cup {Nobody}]
<1>1. prompter \in Record /\ (prompter.asking # Nobody => hand[Terminal].pc = "idle")
  BY DEF PromptInv
<1>2. Terminal \in Answerers /\ hand \in [Answerers -> HandRecord]
  BY DEF Answerers, WaitInv, HandsType
<1>3. queue \in Seq(Conns)
  BY DEF WaitInv, QueueType
<1>4. ASSUME prompter' \in Record, prompter'.asking = prompter.asking, hand' = hand PROVE PromptInv'
  BY <1>1, <1>4 DEF PromptInv
<1>5. CASE UNCHANGED <<prompter, hand>>
  BY <1>1, <1>4, <1>5
<1>6. ASSUME NEW c \in Conns, AskForApproval(c) PROVE PromptInv'
  <2>1. prompter' = [prompter EXCEPT !.bell = TRUE] /\ hand' = hand
    BY <1>6 DEF AskForApproval
  <2>2. prompter' \in Record /\ prompter'.asking = prompter.asking
    BY <1>1, <2>1
  <2> QED
    BY <1>4, <2>1, <2>2
<1>7. CASE PrompterWakes
  <2>1. prompter' = [prompter EXCEPT !.bell = FALSE, !.list = queue] /\ hand' = hand
    BY <1>7 DEF PrompterWakes
  <2>2. prompter' \in Record /\ prompter'.asking = prompter.asking
    BY <1>1, <1>3, <2>1
  <2> QED
    BY <1>4, <2>1, <2>2
<1>8. CASE PrompterAsks
  <2>1. /\ prompter.list # <<>> /\ prompter.list \in Seq(Conns) /\ hand[Terminal].pc = "idle" /\ hand' = hand
        /\ prompter' = [prompter EXCEPT !.asking = Head(prompter.list), !.list = Tail(prompter.list)]
    BY <1>1, <1>8 DEF PrompterAsks
  <2>2. Head(prompter.list) \in Conns /\ Tail(prompter.list) \in Seq(Conns)
    BY <2>1
  <2>3. prompter' \in Record
    BY <1>1, <2>1, <2>2
  <2> QED
    BY <2>1, <2>3 DEF PromptInv
<1>9. ASSUME NEW says \in {"approve", "deny"}, PrompterReads(says) PROVE PromptInv'
  <2>1. prompter' = [prompter EXCEPT !.asking = Nobody]
    BY <1>9 DEF PrompterReads
  <2>2. prompter' \in Record /\ prompter'.asking = Nobody
    BY <1>1, <2>1
  <2> QED
    BY <2>2 DEF PromptInv
<1>10. ASSUME UNCHANGED prompter, hand'[Terminal] = hand[Terminal] \/ prompter.asking = Nobody PROVE PromptInv'
  BY <1>1, <1>10 DEF PromptInv
<1>11. ASSUME NEW a \in Answerers, ResolveStep(a) PROVE PromptInv'
  <2>1. UNCHANGED prompter /\ hand[a].pc # "idle"
    BY <1>11 DEF ResolveStep, Resolves, ResolveTouches, ResolveNotifies
  <2>2. CASE a = Terminal
    BY <1>1, <1>10, <2>1, <2>2
  <2>3. CASE a # Terminal
    <3>1. hand'[Terminal] = hand[Terminal]
      BY <1>2, <1>11, <2>3 DEF ResolveStep, Resolves, ResolveTouches, ResolveNotifies
    <3> QED
      BY <1>10, <2>1, <3>1
  <2> QED
    BY <2>2, <2>3
<1>12. ASSUME NEW w \in Windows, NEW d \in Devices, NEW says \in {"approve", "deny"}, Clicks(w, d, says)
       PROVE  PromptInv'
  <2>1. w # Terminal
    BY GateAssumption DEF GateAssumption
  <2>2. UNCHANGED prompter /\ hand'[Terminal] = hand[Terminal]
    BY <1>2, <1>12, <2>1 DEF Clicks
  <2> QED
    BY <1>10, <2>2
<1>13. CASE \/ UNCHANGED vars
            \/ \E c \in Conns : Client(c) \/ DogStep(c) \/ ReaderEnds(c) \/ (HostStep(c) /\ ~AskForApproval(c))
            \/ \E p \in Peers : Cools(p)
            \/ \E w \in Windows : Joins(w) \/ PollStep(w)
  <2>1. UNCHANGED <<prompter, hand>>
    BY <1>13 DEF vars, queueVars, Client, Admit, Hello, Auth, DogStep, Ages, DogWins, DogCuts, ReaderEnds, HostStep,
         RefuseTells, TakeDecision, Dropped, DropTells, Settles, Cools, Joins, PollStep, PollLooks, PollLists
  <2> QED
    BY <1>5, <2>1
<1> QED
  BY <1>6, <1>7, <1>8, <1>9, <1>11, <1>12, <1>13 DEF Next, HostStep

LEMMA EveryStepMaps == ASSUME WaitInv, PromptInv, [Next]_vars PROVE WaitInv' /\ Mapped
<1>1. ASSUME NEW c \in Conns, Client(c) \/ DogStep(c) \/ ReaderEnds(c) \/ HostStep(c) PROVE WaitInv' /\ Mapped
  <2>1. CASE DogStep(c)
    <3>1. UNCHANGED <<conn, queue, hand, trust>>
      BY <2>1 DEF DogStep, Ages, DogWins, DogCuts, queueVars
    <3> QED
      BY <3>1, AsideMaps
  <2> QED
    BY <1>1, <2>1, AdmitMaps, HelloMaps, AuthMaps, AskMaps, TakesMaps, TellsMaps, DropMaps DEF Client, HostStep
<1>2. CASE \/ UNCHANGED vars \/ PrompterWakes \/ PrompterAsks
           \/ \E p \in Peers : Cools(p)
           \/ \E w \in Windows : Joins(w) \/ PollStep(w)
  <2>1. UNCHANGED <<conn, queue, hand, trust>>
    BY <1>2 DEF vars, queueVars, Cools, Joins, PollStep, PollLooks, PollLists, PrompterWakes, PrompterAsks
  <2> QED
    BY <2>1, AsideMaps
<1>3. ASSUME NEW says \in {"approve", "deny"}, PrompterReads(says) PROVE WaitInv' /\ Mapped
  <2>1. prompter.asking # Nobody /\ prompter.asking \in Conns /\ hand[Terminal].pc = "idle"
    BY <1>3 DEF PrompterReads, PromptInv
  <2> QED
    BY <1>3, <2>1, ReadMaps
<1>4. ASSUME NEW a \in Answerers, ResolveStep(a) PROVE WaitInv' /\ Mapped
  BY <1>4, ResolveMaps, TouchMaps, NotifyMaps DEF ResolveStep
<1> QED
  BY <1>1, <1>2, <1>3, <1>4, ClickMaps DEF Next

LEMMA TrustStep == ASSUME TrustType, [Next]_vars PROVE TrustType'
<1>1. ASSUME NEW c \in Conns, TakeDecision(c) PROVE TrustType'
  <2>1. trust' = trust \/ trust' = trust \cup {Device[c]}
    BY <1>1 DEF TakeDecision
  <2> QED
    BY <2>1 DEF TrustType, Devices
<1>2. ASSUME [Next]_vars, ~\E c \in Conns : TakeDecision(c) PROVE UNCHANGED trust
  BY <1>2 DEF Next, vars, queueVars, Client, Admit, Hello, Auth, DogStep, Ages, DogWins, DogCuts, ReaderEnds, HostStep,
       AskForApproval, RefuseTells, Dropped, DropTells, Settles, Cools, Joins, PollStep, PollLooks, PollLists,
       Clicks, PrompterWakes, PrompterAsks, PrompterReads, ResolveStep, Resolves, ResolveTouches, ResolveNotifies
<1> QED
  BY <1>1, <1>2 DEF TrustType

(* Only a connection that is admitted takes a slot, and only below the cap. *)
LEMMA BoundStep == ASSUME Types, SlotBound, [Next]_vars PROVE SlotBound'
<1>1. unauthenticated \in Int /\ MaxSlots \in Int
  BY GateAssumption DEF Types, GateAssumption
<1>2. ASSUME NEW c \in Conns, Released(c) PROVE SlotBound'
  BY <1>1, <1>2 DEF Released, SlotBound
<1>3. CASE UNCHANGED unauthenticated
  BY <1>3 DEF SlotBound
<1>4. ASSUME NEW c \in Conns, Admit(c) PROVE SlotBound'
  BY <1>1, <1>4 DEF Admit, SlotBound
<1>5. ASSUME NEW c \in Conns, Hello(c) \/ Auth(c) \/ TakeDecision(c) \/ Dropped(c)
      PROVE  UNCHANGED unauthenticated \/ Released(c)
  BY <1>5 DEF Hello, Auth, TakeDecision, Dropped, Refuse, Welcome
<1>6. ASSUME NEW c \in Conns, DogStep(c) \/ ReaderEnds(c) \/ AskForApproval(c) \/ RefuseTells(c) \/ DropTells(c) \/ Settles(c)
      PROVE  UNCHANGED unauthenticated
  BY <1>6 DEF gateVars, DogStep, Ages, DogWins, DogCuts, ReaderEnds, AskForApproval, RefuseTells, DropTells, Settles
<1>7. CASE \/ UNCHANGED vars \/ PrompterWakes \/ PrompterAsks
           \/ \E p \in Peers : Cools(p)
           \/ \E w \in Windows : Joins(w) \/ PollStep(w)
           \/ \E w \in Windows, d \in Devices, says \in {"approve", "deny"} : Clicks(w, d, says)
           \/ \E says \in {"approve", "deny"} : PrompterReads(says)
           \/ \E a \in Answerers : ResolveStep(a)
  <2>1. UNCHANGED unauthenticated
    BY <1>7 DEF vars, gateVars, Cools, Joins, PollStep, PollLooks, PollLists, PrompterWakes, PrompterAsks,
         Clicks, PrompterReads, ResolveStep, Resolves, ResolveTouches, ResolveNotifies
  <2> QED
    BY <1>3, <2>1
<1> QED
  BY <1>2, <1>3, <1>4, <1>5, <1>6, <1>7 DEF Next, Client, HostStep
-----------------------------------------------------------------------------
LEMMA WindowStep == ASSUME WindowType, WaitInv, [Next]_vars PROVE WindowType'
<1>1. \A w \in Windows : window[w] \in WindowRecord
  BY DEF WindowType
<1>2. ASSUME NEW w \in Windows, NEW r \in WindowRecord, window' = [window EXCEPT ![w] = r] PROVE WindowType'
  BY <1>2 DEF WindowType
<1>3. CASE UNCHANGED window
  BY <1>3 DEF WindowType
<1>4. CASE Touch
  <2>1. ASSUME NEW w \in Windows PROVE Bumped(w) \in WindowRecord
    <3>1. window[w].wake \in BOOLEAN /\ window[w].on \in BOOLEAN
      BY <1>1 DEF WindowRecord
    <3> DEFINE b == window[w].wake \/ window[w].on
    <3>2. b \in BOOLEAN
      OBVIOUS
    <3>3. Bumped(w) = [window[w] EXCEPT !.dirty = TRUE, !.wake = b]
      BY DEF Bumped
    <3> HIDE DEF b
    <3> QED
      BY <1>1, <3>2, <3>3 DEF WindowRecord
  <2> QED
    BY <1>4, <2>1 DEF Touch, WindowType
<1>5. ASSUME NEW w \in Windows, Joins(w) PROVE WindowType'
  <2> DEFINE r == [window[w] EXCEPT !.on = TRUE, !.wake = TRUE, !.dirty = TRUE]
  <2>1. r \in WindowRecord
    BY <1>1 DEF WindowRecord
  <2>2. window' = [window EXCEPT ![w] = r]
    BY <1>5 DEF Joins
  <2> HIDE DEF r
  <2> QED
    BY <1>2, <2>1, <2>2
<1>6. ASSUME NEW w \in Windows, PollLooks(w) PROVE WindowType'
  <2> DEFINE r == [window[w] EXCEPT !.wake = FALSE, !.dirty = FALSE, !.listing = window[w].dirty]
  <2>1. r \in WindowRecord
    BY <1>1 DEF WindowRecord
  <2>2. window' = [window EXCEPT ![w] = r]
    BY <1>6 DEF PollLooks
  <2> HIDE DEF r
  <2> QED
    BY <1>2, <2>1, <2>2
<1>7. ASSUME NEW w \in Windows, PollLists(w) PROVE WindowType'
  <2> DEFINE waiting == {Device[c] : c \in ToSet(queue)}
             fresh == waiting \ window[w].announced
             shown == [d \in Devices |-> IF d \in fresh THEN FirstOf(d)
                                         ELSE IF d \in waiting THEN window[w].modal[d] ELSE Nobody]
             r == [window[w] EXCEPT !.listing = FALSE, !.announced = waiting, !.modal = shown]
  <2>1. queue \in Seq(Conns) /\ Distinct(queue) /\ ToSet(queue) \subseteq Conns
    <3>1. queue \in Seq(Conns) /\ Distinct(queue)
      BY DEF WaitInv, QueueType
    <3>2. ToSet(queue) \subseteq Conns
      BY <3>1, LenProperties, ElementOfSeq DEF ToSet
    <3> QED
      BY <3>1, <3>2
  <2>2. waiting \in SUBSET Devices
    BY <2>1 DEF Devices
  <2>3. ASSUME NEW d \in waiting PROVE FirstOf(d) \in Conns
    <3> DEFINE others == ToSet(queue) \ OfDevice(d)
    <3>1. PICK c \in ToSet(queue) : Device[c] = d
      OBVIOUS
    <3>2. c \notin others
      BY <3>1 DEF OfDevice
    <3> HIDE DEF others
    <3>3. Rest(others) \in Seq(Conns) /\ Rest(others) # <<>>
      BY <2>1, <3>2, RestIs
    <3> QED
      BY <3>3 DEF FirstOf, others
  <2>4. window[w].modal \in [Devices -> Conns \cup {Nobody}]
    BY <1>1 DEF WindowRecord
  <2> HIDE DEF waiting
  <2>5. shown \in [Devices -> Conns \cup {Nobody}]
    BY <2>3, <2>4
  <2>6. window' = [window EXCEPT ![w] = r]
    BY <1>7 DEF PollLists, waiting
  <2> HIDE DEF shown
  <2>7. r \in WindowRecord
    BY <1>1, <2>2, <2>5 DEF WindowRecord
  <2> HIDE DEF r
  <2> QED
    BY <1>2, <2>6, <2>7
<1>8. ASSUME NEW w \in Windows, NEW d \in Devices, NEW says \in {"approve", "deny"}, Clicks(w, d, says)
      PROVE  WindowType'
  <2> DEFINE r == [window[w] EXCEPT !.modal = [window[w].modal EXCEPT ![d] = Nobody]]
  <2>1. r \in WindowRecord
    BY <1>1 DEF WindowRecord
  <2>2. window' = [window EXCEPT ![w] = r]
    BY <1>8 DEF Clicks
  <2> HIDE DEF r
  <2> QED
    BY <1>2, <2>1, <2>2
<1>9. ASSUME NEW c \in Conns, Client(c) \/ DogStep(c) \/ ReaderEnds(c) \/ HostStep(c)
      PROVE  Touch \/ UNCHANGED window
  BY <1>9 DEF queueVars, Client, Admit, Hello, Auth, DogStep, Ages, DogWins, DogCuts, ReaderEnds, HostStep,
       AskForApproval, RefuseTells, TakeDecision, Dropped, DropTells, Settles
<1>10. CASE \/ UNCHANGED vars \/ PrompterWakes \/ PrompterAsks
            \/ \E p \in Peers : Cools(p)
            \/ \E says \in {"approve", "deny"} : PrompterReads(says)
  <2>1. UNCHANGED window
    BY <1>10 DEF vars, queueVars, Cools, PrompterWakes, PrompterAsks, PrompterReads
  <2> QED
    BY <1>3, <2>1
<1>11. ASSUME NEW a \in Answerers, ResolveStep(a) PROVE Touch \/ UNCHANGED window
  BY <1>11 DEF ResolveStep, Resolves, ResolveTouches, ResolveNotifies
<1> QED
  BY <1>3, <1>4, <1>5, <1>6, <1>7, <1>8, <1>9, <1>10, <1>11 DEF Next, PollStep

FullInv == GateInv /\ WaitInv /\ PromptInv /\ WindowType /\ TrustType /\ SlotBound

LEMMA FullInvHolds == Spec => []FullInv
<1>1. Init => WaitInv /\ PromptInv /\ WindowType /\ TrustType /\ SlotBound
  <2> SUFFICES ASSUME Init PROVE WaitInv /\ PromptInv /\ WindowType /\ TrustType /\ SlotBound
    OBVIOUS
  <2>1. ConnType
    BY DEF Init, ConnType, ConnRecord, NewConn, Gates, Threads, Says
  <2>2. HandsType
    BY IdleIsRecord DEF Init, HandsType
  <2>3. QueueType /\ ToSet(queue) = {}
    BY DEF Init, QueueType, Distinct, ToSet
  <2>4. \A c \in Conns : Asks(c)
    BY <2>3, IdleIsRecord DEF Init, Asks, NewConn
  <2>5. Answers
    BY IdleIsRecord DEF Init, Answers
  <2>6. PromptInv
    BY DEF Init, PromptInv
  <2>7. WindowType
    BY DEF Init, WindowType, WindowRecord, NewWindow
  <2>8. TrustType /\ SlotBound
    BY GateAssumption DEF Init, TrustType, SlotBound, GateAssumption, Scenario
  <2> QED
    BY <2>1, <2>2, <2>3, <2>4, <2>5, <2>6, <2>7, <2>8 DEF WaitInv
<1>2. /\ WaitInv /\ PromptInv /\ WindowType /\ TrustType /\ SlotBound
      /\ GateInv /\ [Next]_vars
      => (WaitInv /\ PromptInv /\ WindowType /\ TrustType /\ SlotBound)'
  BY EveryStepMaps, PromptStep, WindowStep, TrustStep, BoundStep DEF GateInv
<1> QED
  BY <1>1, <1>2, GateInvHolds, PTL DEF Spec, FullInv

(* Whatever the clients, the people and the threads do, the gate's variables keep
   to their types: PairingQueue::pending never holds one request twice, and no
   more than MAX_UNAUTHENTICATED connections are ever mid-handshake. *)
THEOREM GateTypeCorrect == Spec => []TypeOK
<1>1. FullInv => TypeOK
  <2> SUFFICES ASSUME FullInv PROVE TypeOK
    OBVIOUS
  <2>1. unauthenticated \in 0..MaxSlots
    <3>1. deeds.others \in Nat /\ IsFiniteSet(Held) /\ MaxSlots \in Nat
      BY GateAssumption, FS_Subset DEF GateAssumption, Scenario, FullInv, GateInv, Held
    <3>2. unauthenticated = deeds.others + Cardinality(Held) /\ unauthenticated <= MaxSlots
      BY DEF FullInv, GateInv, CountInv, SlotBound
    <3> QED
      BY <3>1, <3>2, FS_CardinalityType
  <2>2. ToSet(queue) \subseteq Conns /\ Len(queue) = Cardinality(ToSet(queue))
    <3>1. queue \in Seq(Conns) /\ Distinct(queue)
      BY DEF FullInv, WaitInv, QueueType
    <3>2. Len(queue) \in Nat /\ DOMAIN queue = 1..Len(queue) /\ \A i \in DOMAIN queue : queue[i] \in Conns
      BY <3>1, LenProperties, ElementOfSeq
    <3>3. ToSet(queue) \subseteq Conns /\ queue \in [1..Len(queue) -> ToSet(queue)]
      BY <3>1, <3>2, LenProperties DEF ToSet
    <3>4. queue \in Bijection(1..Len(queue), ToSet(queue))
      BY <3>1, <3>2, <3>3 DEF Bijection, Injection, IsInjective, Surjection, ToSet, Distinct
    <3>5. ExistsBijection(1..Len(queue), ToSet(queue))
      BY <3>4 DEF ExistsBijection
    <3>6. Cardinality(ToSet(queue)) = Len(queue)
      BY <3>2, <3>5, FS_CountingElements
    <3> QED
      BY <3>3, <3>6
  <2>3. /\ prompter.bell \in BOOLEAN /\ ToSet(prompter.list) \subseteq Conns
        /\ prompter.asking \in Conns \cup {Nobody}
    <3>1. prompter.bell \in BOOLEAN /\ prompter.list \in Seq(Conns) /\ prompter.asking \in Conns \cup {Nobody}
      BY DEF FullInv, PromptInv
    <3> QED
      BY <3>1, LenProperties, ElementOfSeq DEF ToSet
  <2>4. /\ conn \in [Conns -> ConnRecord] /\ dog \in [Conns -> DogRecord] /\ deeds \in Scenarios
        /\ seen \in [Peers -> [failures : 0..MaxFailures, recent : BOOLEAN]]
        /\ trust \subseteq Devices /\ hand \in [Answerers -> HandRecord] /\ window \in [Windows -> WindowRecord]
    BY DEF FullInv, GateInv, Types, ConnType, DogType, SeenType, WaitInv, HandsType, WindowType, TrustType
  <2> QED
    BY <2>1, <2>2, <2>3, <2>4 DEF TypeOK, ConnRecord, DogRecord, HandRecord, WindowRecord, Gates, Threads, Says
<1> QED
  BY <1>1, FullInvHolds, PTL

(* The whole gate implements DeviceTrust: handshake_step serves a device only
   when it is in the trust store, or when this very connection waited, somebody
   said yes to its device, and the writer took that answer while it still waited;
   a decision on its way opens nothing for who was refused, left or came later. *)
THEOREM KeepsTrust == Spec => KeepsDeviceTrust
<1>1. Init => Trust!Init
  <2> SUFFICES ASSUME Init PROVE Trust!Init
    OBVIOUS
  <2>1. \A c \in Conns : Standing(c) = "stranger"
    BY DEF Init, Standing, NewConn
  <2> QED
    BY <2>1 DEF Init, Trust!Init, Devices
<1>2. FullInv /\ [Next]_vars => [Trust!Next]_(Trust!vars)
  BY EveryStepMaps DEF FullInv, Mapped
<1> QED
  BY <1>1, <1>2, FullInvHolds, PTL DEF Spec, KeepsDeviceTrust, Trust!Spec
=============================================================================
