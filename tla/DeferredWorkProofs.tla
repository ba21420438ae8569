------------------------ MODULE DeferredWorkProofs ------------------------
(***************************************************************************)
(* Proofs about DeferredWork, for any number of questions and of slots:    *)
(* the slots a connection has given out are exactly the workers that have  *)
(* not settled up, and an enrolment's answer is never overwritten.         *)
(***************************************************************************)
EXTENDS DeferredWork, FiniteSetTheorems, TLAPS

(* Only a running enrolment, or one whose answer lies unread, keeps the next
   one out: this is what makes the guard of AskEnroll enough. *)
Guarded == ~enrolling => Enrols = {} /\ mailbox = Nothing

WorkType ==
  /\ kind \in [Questions -> Kinds \cup {"unasked"}]
  /\ work \in [Questions -> {"none", "runs", "settled", "freed", "over"}]
  /\ running \in Int /\ mailbox \in Questions \cup {Nothing} /\ enrolling \in BOOLEAN
  /\ \A q \in Questions : kind[q] = "unasked" => work[q] = "none"

WorkInv == WorkType /\ WorkIsCounted /\ Guarded
-----------------------------------------------------------------------------
LEMMA QuestionsFinite == IsFiniteSet(Questions) /\ Nothing \notin Questions
<1>1. MaxAsks \in Int /\ 1 \in Int
  BY DeferredAssumption DEF DeferredAssumption
<1> QED
  BY <1>1, FS_Interval DEF Questions, Nothing

LEMMA HoldsFinite == IsFiniteSet(Holds)
<1>1. Holds \subseteq Questions
  BY DEF Holds
<1> QED
  BY <1>1, QuestionsFinite, FS_Subset

(* The answer is given by the handler, and no worker is concerned. *)
LEMMA AnsweredNow ==
  ASSUME WorkInv, NEW q \in Questions, NEW k \in Kinds, Hears(q, k), AnswersNow(q)
  PROVE  WorkInv'
<1>1. /\ kind' = [kind EXCEPT ![q] = k] /\ kind[q] = "unasked" /\ work[q] = "none"
      /\ UNCHANGED <<work, running, enrolling, mailbox>>
  BY DEF Hears, AnswersNow, WorkInv, WorkType
<1>2. WorkType'
  BY <1>1 DEF WorkInv, WorkType
<1>3. Holds' = Holds /\ Enrols' = Enrols
  BY <1>1 DEF Holds, Enrols, WorkInv, WorkType, Slotted
<1> QED
  BY <1>1, <1>2, <1>3 DEF WorkInv, WorkIsCounted, Guarded

(* A slot is claimed for a worker of its own. *)
LEMMA Claimed ==
  ASSUME WorkInv, NEW q \in Questions, NEW k \in Slotted, Hears(q, k), Claims, Spawns(q),
         running' = running + 1, UNCHANGED enrolling
  PROVE  WorkInv'
<1>1. /\ kind' = [kind EXCEPT ![q] = k] /\ work' = [work EXCEPT ![q] = "runs"]
      /\ kind[q] = "unasked" /\ work[q] = "none" /\ UNCHANGED mailbox
  BY DEF Hears, Spawns, WorkInv, WorkType
<1>2. WorkType'
  BY <1>1 DEF WorkInv, WorkType, Slotted, Kinds
<1>3. Holds' = Holds \cup {q} /\ q \notin Holds /\ Enrols' = Enrols
  BY <1>1 DEF Holds, Enrols, WorkInv, WorkType, Slotted
<1>4. Cardinality(Holds') = Cardinality(Holds) + 1
  BY <1>3, HoldsFinite, FS_AddElement
<1>5. running' <= MaxWorkers
  BY DeferredAssumption DEF DeferredAssumption, WorkInv, WorkType, Claims
<1> QED
  BY <1>1, <1>2, <1>3, <1>4, <1>5 DEF WorkInv, WorkIsCounted, Guarded

LEMMA Enrolled ==
  ASSUME WorkInv, NEW q \in Questions, Hears(q, "enroll"), ~enrolling, Spawns(q),
         enrolling' = TRUE, UNCHANGED running
  PROVE  WorkInv'
<1>1. /\ kind' = [kind EXCEPT ![q] = "enroll"] /\ work' = [work EXCEPT ![q] = "runs"]
      /\ kind[q] = "unasked" /\ work[q] = "none" /\ UNCHANGED mailbox
  BY DEF Hears, Spawns, WorkInv, WorkType
<1>2. WorkType'
  BY <1>1 DEF WorkInv, WorkType, Kinds
<1>3. Holds' = Holds
  BY <1>1 DEF Holds, WorkInv, WorkType, Slotted
<1>4. Enrols' = {q} /\ mailbox = Nothing
  BY <1>1 DEF Enrols, WorkInv, WorkType, Guarded
<1> QED
  BY <1>1, <1>2, <1>3, <1>4 DEF WorkInv, WorkIsCounted, Guarded

LEMMA AskStep ==
  ASSUME WorkInv, NEW q \in Questions, Asks(q)
  PROVE  WorkInv'
<1>1. CASE AskFile(q)
  BY <1>1, AnsweredNow DEF AskFile, Kinds
<1>2. CASE AskEnroll(q)
  <2>1. CASE AnswersNow(q)
    BY <1>2, <2>1, AnsweredNow DEF AskEnroll, Kinds
  <2>2. CASE ~enrolling /\ Spawns(q) /\ enrolling' = TRUE /\ UNCHANGED running
    BY <1>2, <2>2, Enrolled DEF AskEnroll
  <2> QED
    BY <1>2, <2>1, <2>2 DEF AskEnroll
<1>3. ASSUME NEW k \in Slotted, AskDeferred(q, k) PROVE WorkInv'
  <2>1. CASE AnswersNow(q)
    BY <1>3, <2>1, AnsweredNow DEF AskDeferred, Kinds
  <2>2. CASE Claims /\ Spawns(q) /\ running' = running + 1 /\ UNCHANGED enrolling
    BY <1>3, <2>2, Claimed DEF AskDeferred
  <2> QED
    BY <1>3, <2>1, <2>2 DEF AskDeferred
<1> QED
  BY <1>1, <1>2, <1>3 DEF Asks
-----------------------------------------------------------------------------
LEMMA SettleStep ==
  ASSUME WorkInv, NEW q \in Questions, Settles(q)
  PROVE  WorkInv'
<1>1. /\ work' = [work EXCEPT ![q] = "settled"] /\ work[q] = "runs"
      /\ UNCHANGED <<kind, running, enrolling>>
  BY DEF Settles
<1>2. mailbox' = (IF kind[q] = "enroll" THEN q ELSE mailbox)
  BY DEF Settles
<1>3. WorkType'
  BY <1>1, <1>2 DEF WorkInv, WorkType
<1>4. Holds' = Holds
  BY <1>1 DEF Holds, WorkInv, WorkType
<1>5. Enrols' = Enrols \ {q}
  BY <1>1 DEF Enrols, WorkInv, WorkType
<1>6. CASE kind[q] = "enroll"
  <2>1. q \in Enrols /\ Enrols' = {} /\ enrolling
    BY <1>1, <1>5, <1>6 DEF Enrols, WorkInv, WorkIsCounted, Guarded
  <2> QED
    BY <1>1, <1>3, <1>4, <2>1 DEF WorkInv, WorkIsCounted, Guarded
<1>7. CASE kind[q] # "enroll"
  BY <1>1, <1>2, <1>3, <1>4, <1>5, <1>7 DEF WorkInv, WorkIsCounted, Guarded
<1> QED
  BY <1>6, <1>7

LEMMA FreeStep ==
  ASSUME WorkInv, NEW q \in Questions, Frees(q)
  PROVE  WorkInv'
<1>1. /\ work' = [work EXCEPT ![q] = "freed"] /\ work[q] = "settled" /\ kind[q] \in Slotted
      /\ running' = running - 1 /\ UNCHANGED <<kind, enrolling, mailbox>>
  BY DEF Frees
<1>2. WorkType'
  BY <1>1 DEF WorkInv, WorkType, Slotted
<1>3. Holds' = Holds \ {q} /\ q \in Holds /\ Enrols' = Enrols
  BY <1>1 DEF Holds, Enrols, WorkInv, WorkType, Slotted
<1>4. Cardinality(Holds') = Cardinality(Holds) - 1
  BY <1>3, HoldsFinite, FS_RemoveElement
<1>5. running' <= MaxWorkers
  BY <1>1, DeferredAssumption DEF DeferredAssumption, WorkInv, WorkType, WorkIsCounted
<1> QED
  BY <1>1, <1>2, <1>3, <1>4, <1>5 DEF WorkInv, WorkIsCounted, Guarded

LEMMA WakeStep ==
  ASSUME WorkInv, NEW q \in Questions, WakesWriter(q)
  PROVE  WorkInv'
<1>1. /\ work' = [work EXCEPT ![q] = "over"]
      /\ \/ kind[q] = "enroll" /\ work[q] = "settled"
         \/ work[q] = "freed"
      /\ UNCHANGED <<kind, running, enrolling, mailbox>>
  BY DEF WakesWriter
<1>2. WorkType'
  BY <1>1 DEF WorkInv, WorkType
<1>3. Holds' = Holds /\ Enrols' = Enrols
  BY <1>1 DEF Holds, Enrols, WorkInv, WorkType, Slotted
<1> QED
  BY <1>1, <1>2, <1>3 DEF WorkInv, WorkIsCounted, Guarded

LEMMA DrainStep ==
  ASSUME WorkInv, Drains
  PROVE  WorkInv'
<1>1. /\ UNCHANGED <<kind, work, running>> /\ mailbox' = Nothing
      /\ enrolling' = (enrolling /\ mailbox = Nothing)
  BY DEF Drains
<1>2. WorkType'
  BY <1>1 DEF WorkInv, WorkType
<1>3. Holds' = Holds /\ Enrols' = Enrols
  BY <1>1 DEF Holds, Enrols
<1>4. ~enrolling' => Enrols = {}
  BY <1>1 DEF WorkInv, WorkIsCounted, Guarded
<1> QED
  BY <1>1, <1>2, <1>3, <1>4 DEF WorkInv, WorkIsCounted, Guarded

LEMMA OtherStep ==
  ASSUME WorkInv, UNCHANGED <<kind, work, running, enrolling, mailbox>>
  PROVE  WorkInv'
BY DEF WorkInv, WorkType, WorkIsCounted, Guarded, Holds, Enrols
-----------------------------------------------------------------------------
LEMMA WorkInit == Init => WorkInv
<1> SUFFICES ASSUME Init PROVE WorkInv
  OBVIOUS
<1>1. Holds = {} /\ Enrols = {}
  BY DEF Init, Holds, Enrols
<1>2. Cardinality(Holds) = 0
  BY <1>1, FS_EmptySet
<1>3. WorkType
  <2>1. /\ kind = [q \in Questions |-> "unasked"] /\ work = [q \in Questions |-> "none"]
        /\ running = 0 /\ mailbox = Nothing /\ enrolling = FALSE
    BY DEF Init
  <2>2. kind \in [Questions -> Kinds \cup {"unasked"}]
    BY <2>1
  <2>3. work \in [Questions -> {"none", "runs", "settled", "freed", "over"}]
    BY <2>1
  <2>4. running \in Int /\ mailbox \in Questions \cup {Nothing}
    BY <2>1
  <2>5. enrolling \in BOOLEAN
    BY <2>1
  <2>6. \A q \in Questions : kind[q] = "unasked" => work[q] = "none"
    BY <2>1
  <2> QED
    BY <2>2, <2>3, <2>4, <2>5, <2>6 DEF WorkType
<1> QED
  BY <1>1, <1>2, <1>3, DeferredAssumption
     DEF Init, WorkInv, WorkIsCounted, Guarded, DeferredAssumption

LEMMA WorkNext == WorkInv /\ [Next]_vars => WorkInv'
<1> SUFFICES ASSUME WorkInv, [Next]_vars PROVE WorkInv'
  OBVIOUS
<1>1. ASSUME NEW q \in Questions, Asks(q) PROVE WorkInv'
  BY <1>1, AskStep
<1>2. ASSUME NEW q \in Questions, WorkerStep(q) PROVE WorkInv'
  BY <1>2, SettleStep, FreeStep, WakeStep DEF WorkerStep
<1>3. CASE Drains
  BY <1>3, DrainStep
<1>4. CASE Sends \/ Leaves \/ Receives \/ Writes \/ WriteFails
  BY <1>4, OtherStep DEF Sends, Leaves, Receives, Writes, WriteFails, workVars
<1>5. CASE UNCHANGED vars
  BY <1>5, OtherStep DEF vars
<1> QED
  BY <1>1, <1>2, <1>3, <1>4, <1>5 DEF Next, WriterStep

LEMMA WorkInvHolds == Spec => []WorkInv
BY WorkInit, WorkNext, PTL DEF Spec

(* deferred_running is the workers that have not settled up, and never more
   than MAX_DEFERRED; enroll_running lets one enrolment in at a time, so no
   answer in the mailbox is overwritten before it is read. *)
THEOREM WorkCounted == Spec => []WorkIsCounted
<1>1. WorkInv => WorkIsCounted
  BY DEF WorkInv
<1> QED
  BY <1>1, WorkInvHolds, PTL
-----------------------------------------------------------------------------
(* An answer lies in one place at a time.  The questions a sequence of replies
   answers, and whether it answers none of them twice. *)
In(q, s) == \E i \in 1..Len(s) : s[i] = q
Distinct(s) == \A i, j \in 1..Len(s) : s[i] = s[j] => i = j

Carry(ws, q) == \E i \in 1..Len(ws) : In(q, ws[i].msgs)
CarryOnce(ws) ==
  /\ \A i \in 1..Len(ws) : Distinct(ws[i].msgs)
  /\ \A i, j \in 1..Len(ws) : \A q \in Questions :
       In(q, ws[i].msgs) /\ In(q, ws[j].msgs) => i = j

QueueType ==
  /\ scene \in Scenes
  /\ deferred \in Seq(Questions)
  /\ reader \in [pc : {"reads", "sends", "over"}, built : Seq(Questions)]
  /\ wakes \in Seq([closed : BOOLEAN, msgs : Seq(Questions)])
  /\ writer \in [pc : {"waits", "drains", "writes", "over"}, out : Seq(Questions)]
  /\ writer.pc = "writes" => writer.out # <<>>
  /\ wire \in Seq(Questions)

Sent(q) == In(q, wire) \/ In(q, writer.out)

(* Where the answer to q may lie: with the handler, on its way to the writer,
   with its worker, in the mailbox; and none of it once it was handed over. *)
PlaceOf(q) ==
  /\ ~(In(q, wire) /\ In(q, writer.out))
  /\ Sent(q) => kind[q] # "unasked" /\ work[q] # "runs"
  /\ In(q, reader.built) \/ Carry(wakes, q)
       => kind[q] # "unasked" /\ work[q] = "none" /\ ~Sent(q)
  /\ ~(In(q, reader.built) /\ Carry(wakes, q))
  /\ In(q, deferred) => kind[q] # "enroll" /\ work[q] \notin {"none", "runs"} /\ ~Sent(q)
  /\ mailbox = q => kind[q] = "enroll" /\ work[q] \notin {"none", "runs"} /\ ~Sent(q)

Once ==
  /\ Distinct(deferred) /\ Distinct(writer.out) /\ Distinct(reader.built) /\ CarryOnce(wakes)
  /\ \A q \in Questions : PlaceOf(q)

OnceInv == WorkInv /\ QueueType /\ Once

LEMMA TypesFollow == OnceInv => TypeOK
<1> SUFFICES ASSUME OnceInv PROVE TypeOK
  OBVIOUS
<1>1. running \in Nat
  BY HoldsFinite, FS_CardinalityType DEF OnceInv, WorkInv, WorkIsCounted
<1> QED BY <1>1 DEF OnceInv, WorkInv, WorkType, QueueType, TypeOK

(* What the operators on sequences do to what a sequence holds. *)
LEMMA InAppend ==
  ASSUME NEW S, NEW s \in Seq(S), NEW x \in S
  PROVE  /\ \A q : In(q, Append(s, x)) <=> In(q, s) \/ q = x
         /\ Distinct(s) /\ ~In(x, s) => Distinct(Append(s, x))
<1>1. /\ \A i \in 1..Len(s) : i \in 1..Len(Append(s, x)) /\ Append(s, x)[i] = s[i]
      /\ \A i \in 1..Len(Append(s, x)) : i \in 1..Len(s) \/ (i = Len(s) + 1 /\ Append(s, x)[i] = x)
      /\ Append(s, x)[Len(s) + 1] = x /\ Len(s) + 1 \in 1..Len(Append(s, x))
  OBVIOUS
<1>2. \A q : In(q, Append(s, x)) <=> In(q, s) \/ q = x
  BY <1>1 DEF In
<1>3. Distinct(s) /\ ~In(x, s) => Distinct(Append(s, x))
  BY <1>1 DEF In, Distinct
<1> QED BY <1>2, <1>3

LEMMA InTail ==
  ASSUME NEW S, NEW s \in Seq(S), s # <<>>
  PROVE  /\ \A q : In(q, Tail(s)) => In(q, s)
         /\ In(Head(s), s) /\ Head(s) \in S /\ Tail(s) \in Seq(S)
         /\ Distinct(s) => Distinct(Tail(s)) /\ ~In(Head(s), Tail(s))
<1>1. \A i \in 1..Len(Tail(s)) : Tail(s)[i] = s[i + 1] /\ i + 1 \in 1..Len(s)
  OBVIOUS
<1>2. Head(s) = s[1] /\ 1 \in 1..Len(s) /\ Head(s) \in S /\ Tail(s) \in Seq(S)
  OBVIOUS
<1> QED BY <1>1, <1>2 DEF In, Distinct

LEMMA InConcat ==
  ASSUME NEW S, NEW s \in Seq(S), NEW t \in Seq(S)
  PROVE  /\ \A q : In(q, s \o t) <=> In(q, s) \/ In(q, t)
         /\ Distinct(s) /\ Distinct(t) /\ (\A q : ~(In(q, s) /\ In(q, t))) => Distinct(s \o t)
<1>1. \A i \in 1..Len(s) : (s \o t)[i] = s[i] /\ i \in 1..Len(s \o t)
  OBVIOUS
<1>2. \A i \in 1..Len(t) : (s \o t)[Len(s) + i] = t[i] /\ Len(s) + i \in 1..Len(s \o t)
  OBVIOUS
<1>3. ASSUME NEW i \in 1..Len(s \o t)
      PROVE  \/ i \in 1..Len(s)
             \/ i - Len(s) \in 1..Len(t) /\ (s \o t)[i] = t[i - Len(s)]
  <2>1. Len(s \o t) = Len(s) + Len(t) /\ Len(s) \in Nat /\ Len(t) \in Nat /\ i \in Int
    OBVIOUS
  <2>2. CASE i > Len(s)
    <3>1. i - Len(s) \in 1..Len(t)
      BY <2>1, <2>2
    <3> QED BY <2>1, <2>2, <3>1
  <2> QED BY <2>1, <2>2
<1>4. \A q : In(q, s \o t) <=> In(q, s) \/ In(q, t)
  BY <1>1, <1>2, <1>3 DEF In
<1>5. ASSUME Distinct(s), Distinct(t), \A q : ~(In(q, s) /\ In(q, t)),
             NEW i \in 1..Len(s \o t), NEW j \in 1..Len(s \o t), (s \o t)[i] = (s \o t)[j]
      PROVE  i = j
  <2>1. CASE i \in 1..Len(s) /\ j \in 1..Len(s)
    BY <1>1, <1>5, <2>1 DEF Distinct
  <2>2. CASE i \notin 1..Len(s) /\ j \notin 1..Len(s)
    <3>1. i - Len(s) = j - Len(s)
      BY <1>3, <1>5, <2>2 DEF Distinct
    <3> QED BY <3>1
  <2>3. CASE i \in 1..Len(s) /\ j \notin 1..Len(s)
    BY <1>1, <1>3, <1>5, <2>3 DEF In
  <2>4. CASE i \notin 1..Len(s) /\ j \in 1..Len(s)
    BY <1>1, <1>3, <1>5, <2>4 DEF In
  <2> QED BY <2>1, <2>2, <2>3, <2>4
<1>6. Distinct(s) /\ Distinct(t) /\ (\A q : ~(In(q, s) /\ In(q, t))) => Distinct(s \o t)
  BY <1>5 DEF Distinct
<1> QED BY <1>4, <1>6

LEMMA InFew ==
  /\ Distinct(<<>>) /\ \A q : ~In(q, <<>>)
  /\ \A p, q : Distinct(<<p>>) /\ (In(q, <<p>>) <=> q = p)
BY DEF In, Distinct

Messages == [closed : BOOLEAN, msgs : Seq(Questions)]

LEMMA CarryAppend ==
  ASSUME NEW ws \in Seq(Messages), NEW w \in Messages, CarryOnce(ws), Distinct(w.msgs),
         \A q \in Questions : ~(In(q, w.msgs) /\ Carry(ws, q))
  PROVE  /\ Append(ws, w) \in Seq(Messages) /\ CarryOnce(Append(ws, w))
         /\ \A q : Carry(Append(ws, w), q) <=> Carry(ws, q) \/ In(q, w.msgs)
<1>1. /\ Append(ws, w) \in Seq(Messages)
      /\ \A i \in 1..Len(ws) : i \in 1..Len(Append(ws, w)) /\ Append(ws, w)[i] = ws[i]
      /\ \A i \in 1..Len(Append(ws, w)) : i \in 1..Len(ws) \/ (i = Len(ws) + 1 /\ Append(ws, w)[i] = w)
      /\ Append(ws, w)[Len(ws) + 1] = w /\ Len(ws) + 1 \in 1..Len(Append(ws, w))
  OBVIOUS
<1>2. \A q : Carry(Append(ws, w), q) <=> Carry(ws, q) \/ In(q, w.msgs)
  BY <1>1 DEF Carry
<1>3. CarryOnce(Append(ws, w))
  BY <1>1 DEF CarryOnce, Carry
<1> QED BY <1>1, <1>2, <1>3

LEMMA CarryTail ==
  ASSUME NEW ws \in Seq(Messages), ws # <<>>, CarryOnce(ws)
  PROVE  /\ Tail(ws) \in Seq(Messages) /\ CarryOnce(Tail(ws))
         /\ Head(ws) \in Messages /\ Distinct(Head(ws).msgs)
         /\ \A q : In(q, Head(ws).msgs) => Carry(ws, q)
         /\ \A q \in Questions :
              Carry(Tail(ws), q) => Carry(ws, q) /\ ~In(q, Head(ws).msgs)
<1>1. \A i \in 1..Len(Tail(ws)) : Tail(ws)[i] = ws[i + 1] /\ i + 1 \in 1..Len(ws) /\ i + 1 # 1
  OBVIOUS
<1>2. Head(ws) = ws[1] /\ 1 \in 1..Len(ws) /\ Head(ws) \in Messages /\ Tail(ws) \in Seq(Messages)
  OBVIOUS
<1>3. CarryOnce(Tail(ws)) /\ Distinct(Head(ws).msgs)
  BY <1>1, <1>2 DEF CarryOnce
<1>4. \A q : In(q, Head(ws).msgs) => Carry(ws, q)
  BY <1>2 DEF Carry
<1>5. \A q \in Questions : Carry(Tail(ws), q) => Carry(ws, q) /\ ~In(q, Head(ws).msgs)
  BY <1>1, <1>2 DEF Carry, CarryOnce
<1> QED BY <1>2, <1>3, <1>4, <1>5
-----------------------------------------------------------------------------
(* A question is heard once, so nothing answers it yet. *)
LEMMA AskOnce ==
  ASSUME OnceInv, NEW q \in Questions, Asks(q)
  PROVE  QueueType' /\ Once'
<1>1. PICK k \in Kinds :
        /\ kind' = [kind EXCEPT ![q] = k] /\ kind[q] = "unasked"
        /\ UNCHANGED <<scene, deferred, mailbox, wakes, writer, wire>>
        /\ \/ work' = work /\ reader' = [pc |-> "sends", built |-> <<q>>]
           \/ /\ work' = [work EXCEPT ![q] = "runs"]
              /\ reader' = [pc |-> "sends", built |-> <<>>]
  BY DEF Asks, AskFile, AskEnroll, AskDeferred, Hears, AnswersNow, Spawns, Kinds
<1>2. /\ WorkType /\ QueueType /\ Once /\ PlaceOf(q) /\ work[q] = "none" /\ q # Nothing
      /\ ~Sent(q) /\ ~Carry(wakes, q) /\ ~In(q, deferred) /\ mailbox # q
  <2>1. WorkType /\ QueueType /\ Once /\ PlaceOf(q) /\ work[q] = "none" /\ q # Nothing
    BY <1>1, QuestionsFinite DEF OnceInv, WorkInv, WorkType, Once
  <2> QED BY <1>1, <2>1 DEF PlaceOf
<1>3. /\ reader' \in [pc : {"reads", "sends", "over"}, built : Seq(Questions)]
      /\ Distinct(reader'.built) /\ \A p \in Questions \ {q} : ~In(p, reader'.built)
      /\ In(q, reader'.built) => work' = work
  <2>1. CASE work' = work /\ reader' = [pc |-> "sends", built |-> <<q>>]
    <3>1. reader'.built = <<q>> /\ <<q>> \in Seq(Questions) /\ reader'.pc = "sends"
      BY <2>1
    <3> QED BY <2>1, <3>1, InFew
  <2>2. CASE reader' = [pc |-> "sends", built |-> <<>>]
    <3>1. reader'.built = <<>> /\ <<>> \in Seq(Questions) /\ reader'.pc = "sends"
      BY <2>2
    <3> QED BY <2>2, <3>1, InFew
  <2> QED BY <1>1, <2>1, <2>2
<1>4. UNCHANGED <<scene, deferred, mailbox, wakes, writer, wire>>
  BY <1>1
<1>5. QueueType'
  BY <1>2, <1>3, <1>4 DEF QueueType
<1>6. ASSUME NEW p \in Questions PROVE PlaceOf(p)'
  <2>1. CASE p = q
    <3>1. kind'[q] # "unasked" /\ (In(q, reader'.built) => work'[q] = "none")
      BY <1>1, <1>2, <1>3 DEF WorkType, Kinds, Slotted
    <3> QED BY <1>2, <1>4, <2>1, <3>1 DEF PlaceOf, Sent
  <2>2. CASE p # q
    <3>1. kind'[p] = kind[p] /\ work'[p] = work[p] /\ PlaceOf(p) /\ ~In(p, reader'.built)
      BY <1>1, <1>2, <1>3, <2>2 DEF WorkType, Once
    <3> QED BY <1>4, <3>1 DEF PlaceOf, Sent
  <2> QED BY <2>1, <2>2
<1> QED BY <1>2, <1>3, <1>4, <1>5, <1>6 DEF Once

(* What leaves every place but the channel and the reader alone. *)
LEMMA Passed ==
  ASSUME OnceInv, UNCHANGED <<scene, kind, workVars, wire>>,
         writer'.out = writer.out,
         reader' \in [pc : {"reads", "sends", "over"}, built : Seq(Questions)],
         wakes' \in Seq(Messages), writer' = writer,
         Distinct(reader'.built), CarryOnce(wakes'),
         \A q \in Questions :
           /\ In(q, reader'.built) \/ Carry(wakes', q) => In(q, reader.built) \/ Carry(wakes, q)
           /\ ~(In(q, reader'.built) /\ Carry(wakes', q))
  PROVE  QueueType' /\ Once'
<1>1. QueueType /\ Once /\ \A q \in Questions : PlaceOf(q)
  BY DEF OnceInv, Once
<1>2. QueueType'
  BY <1>1 DEF QueueType, Messages, workVars
<1>3. ASSUME NEW q \in Questions PROVE PlaceOf(q)'
  BY <1>1 DEF PlaceOf, Sent, workVars
<1> QED BY <1>1, <1>2, <1>3 DEF Once, workVars

LEMMA SendsOnce ==
  ASSUME OnceInv, Sends \/ Leaves PROVE QueueType' /\ Once'
<1>0. QueueType /\ Once /\ wakes \in Seq(Messages) /\ reader.built \in Seq(Questions)
  BY DEF OnceInv, QueueType, Messages
<1>1. UNCHANGED <<scene, kind, workVars, writer, wire>>
  BY DEF Sends, Leaves
<1>2. ASSUME NEW q \in Questions PROVE ~(In(q, reader.built) /\ Carry(wakes, q))
  BY <1>0 DEF Once, PlaceOf
<1>3. CASE Sends
  <2>1. /\ reader'.built = <<>> /\ wakes' \in {wakes, Append(wakes, Wake(reader.built))}
        /\ reader' \in [pc : {"reads", "sends", "over"}, built : Seq(Questions)]
    BY <1>3 DEF Sends, Wakes
  <2>2. Wake(reader.built) \in Messages /\ Wake(reader.built).msgs = reader.built
    BY <1>0 DEF Wake, Messages
  <2>3. /\ wakes' \in Seq(Messages) /\ CarryOnce(wakes')
        /\ \A q \in Questions : Carry(wakes', q) => Carry(wakes, q) \/ In(q, reader.built)
    <3>1. CASE wakes' = wakes
      BY <1>0, <3>1 DEF Once
    <3>2. CASE wakes' = Append(wakes, Wake(reader.built))
      BY <1>0, <1>2, <2>2, <3>2, CarryAppend DEF Once
    <3> QED BY <2>1, <3>1, <3>2
  <2> QED BY <1>1, <2>1, <2>3, InFew, Passed
<1>4. CASE Leaves
  <2>1. /\ reader'.built = reader.built /\ wakes' \in {wakes, Append(wakes, Close)}
        /\ reader' \in [pc : {"reads", "sends", "over"}, built : Seq(Questions)]
    BY <1>0, <1>4 DEF Leaves, Wakes, QueueType
  <2>2. Close \in Messages /\ Close.msgs = <<>>
    BY DEF Close, Messages
  <2>3. /\ wakes' \in Seq(Messages) /\ CarryOnce(wakes')
        /\ \A q \in Questions : Carry(wakes', q) => Carry(wakes, q)
    <3>1. CASE wakes' = wakes
      BY <1>0, <3>1 DEF Once
    <3>2. CASE wakes' = Append(wakes, Close)
      BY <1>0, <2>2, <3>2, CarryAppend, InFew DEF Once
    <3> QED BY <2>1, <3>1, <3>2
  <2> QED BY <1>0, <1>1, <1>2, <2>1, <2>3, Passed DEF Once
<1> QED BY <1>3, <1>4

(* A worker's answer goes where it alone puts one. *)
LEMMA SettlesOnce ==
  ASSUME OnceInv, NEW q \in Questions, Settles(q) PROVE QueueType' /\ Once'
<1>1. /\ WorkType /\ QueueType /\ Once /\ PlaceOf(q) /\ q # Nothing
      /\ \A p \in Questions : PlaceOf(p)
  BY QuestionsFinite DEF OnceInv, WorkInv, Once
<1>2. /\ work[q] = "runs" /\ work' = [work EXCEPT ![q] = "settled"]
      /\ \/ kind[q] = "enroll" /\ mailbox' = q /\ deferred' = deferred
         \/ kind[q] # "enroll" /\ mailbox' = mailbox /\ deferred' = Append(deferred, q)
      /\ UNCHANGED <<scene, kind, reader, wakes, writer, wire>>
  BY DEF Settles
<1>3. /\ deferred' \in Seq(Questions) /\ Distinct(deferred')
      /\ \A p \in Questions : In(p, deferred') <=> In(p, deferred) \/ (p = q /\ kind[q] # "enroll")
  <2>1. CASE deferred' = deferred /\ kind[q] = "enroll"
    BY <1>1, <2>1 DEF QueueType, Once
  <2>2. CASE deferred' = Append(deferred, q) /\ kind[q] # "enroll"
    <3>1. ~In(q, deferred) /\ Distinct(deferred) /\ deferred \in Seq(Questions)
      BY <1>1, <1>2 DEF PlaceOf, QueueType, Once
    <3>2. deferred' \in Seq(Questions)
      BY <2>2, <3>1
    <3> QED BY <2>2, <3>1, <3>2, InAppend
  <2> QED BY <1>2, <2>1, <2>2
<1>4. QueueType'
  BY <1>1, <1>2, <1>3 DEF QueueType
<1>5. ASSUME NEW p \in Questions PROVE PlaceOf(p)'
  <2>1. CASE p = q
    BY <1>1, <1>2, <1>3, <2>1 DEF PlaceOf, Sent, WorkType
  <2>2. CASE p # q
    <3>1. work'[p] = work[p] /\ kind'[p] = kind[p] /\ PlaceOf(p) /\ (mailbox' = p => mailbox = p)
      BY <1>1, <1>2, <2>2 DEF WorkType
    <3>2. In(p, deferred') <=> In(p, deferred)
      BY <1>3, <2>2
    <3> QED BY <1>2, <3>1, <3>2 DEF PlaceOf, Sent
  <2> QED BY <2>1, <2>2
<1> QED BY <1>1, <1>2, <1>3, <1>4, <1>5 DEF Once

(* ... and it moves nothing when it gives its slot back and wakes the writer. *)
LEMMA WorkerOnce ==
  ASSUME OnceInv, NEW q \in Questions, Frees(q) \/ WakesWriter(q) PROVE QueueType' /\ Once'
<1>1. /\ WorkType /\ QueueType /\ Once /\ wakes \in Seq(Messages)
      /\ \A p \in Questions : PlaceOf(p)
  BY DEF OnceInv, WorkInv, Once, QueueType, Messages
<1>2. /\ UNCHANGED <<scene, kind, deferred, mailbox, reader, writer, wire>>
      /\ \E to \in {"freed", "over"} : work' = [work EXCEPT ![q] = to]
      /\ work[q] \notin {"none", "runs"} /\ wakes' \in {wakes, Append(wakes, Wake(<<>>))}
  BY DEF Frees, WakesWriter, Wakes
<1>3. /\ wakes' \in Seq(Messages) /\ CarryOnce(wakes')
      /\ \A p \in Questions : Carry(wakes', p) => Carry(wakes, p)
  <2>1. CASE wakes' = wakes
    BY <1>1, <2>1 DEF Once
  <2>2. CASE wakes' = Append(wakes, Wake(<<>>))
    <3>1. Wake(<<>>) \in Messages /\ Wake(<<>>).msgs = <<>>
      BY DEF Wake, Messages
    <3> QED BY <1>1, <2>2, <3>1, CarryAppend, InFew DEF Once
  <2> QED BY <1>2, <2>1, <2>2
<1>4. QueueType'
  BY <1>1, <1>2, <1>3 DEF QueueType, Messages
<1>5. ASSUME NEW p \in Questions PROVE PlaceOf(p)'
  <2>1. /\ PlaceOf(p) /\ kind'[p] = kind[p] /\ (work'[p] = "none" <=> work[p] = "none")
        /\ (work'[p] = "runs" <=> work[p] = "runs")
    BY <1>1, <1>2 DEF WorkType
  <2> QED BY <1>2, <1>3, <2>1 DEF PlaceOf, Sent
<1> QED BY <1>1, <1>2, <1>3, <1>4, <1>5 DEF Once

(* The writer takes over a message, or everything that lies ready. *)
LEMMA ReceivesOnce ==
  ASSUME OnceInv, Receives PROVE QueueType' /\ Once'
<1>1. /\ QueueType /\ Once /\ wakes \in Seq(Messages) /\ wakes # <<>> /\ CarryOnce(wakes)
      /\ \A p \in Questions : PlaceOf(p)
  BY DEF OnceInv, Once, QueueType, Messages, Receives
<1>2. /\ UNCHANGED <<scene, kind, work, deferred, mailbox, reader, wire>> /\ wakes' = Tail(wakes)
      /\ writer'.out = Head(wakes).msgs /\ writer'.pc \in {"drains", "over"}
      /\ writer' = [pc |-> writer'.pc, out |-> writer'.out]
  BY DEF Receives, workVars
<1>3. /\ Tail(wakes) \in Seq(Messages) /\ CarryOnce(Tail(wakes))
      /\ Head(wakes) \in Messages /\ Distinct(Head(wakes).msgs)
      /\ \A q : In(q, Head(wakes).msgs) => Carry(wakes, q)
      /\ \A q \in Questions : Carry(Tail(wakes), q) => Carry(wakes, q) /\ ~In(q, Head(wakes).msgs)
  BY <1>1, CarryTail
<1>4. QueueType'
  <2>1. writer'.out \in Seq(Questions)
    BY <1>2, <1>3 DEF Messages
  <2> QED BY <1>1, <1>2, <1>3, <2>1 DEF QueueType, Messages
<1>5. ASSUME NEW p \in Questions PROVE PlaceOf(p)'
  <2>1. /\ In(p, writer'.out) => Carry(wakes, p) /\ ~Carry(wakes', p)
        /\ Carry(wakes', p) => Carry(wakes, p)
    BY <1>2, <1>3
  <2> QED BY <1>1, <1>2, <2>1 DEF PlaceOf, Sent
<1> QED BY <1>1, <1>2, <1>3, <1>4, <1>5 DEF Once

LEMMA LetterIs ==
  ASSUME mailbox \in Questions \cup {Nothing}
  PROVE  /\ Letter \in Seq(Questions) /\ Distinct(Letter)
         /\ \A q \in Questions : In(q, Letter) <=> mailbox = q
<1>1. CASE mailbox = Nothing
  BY <1>1, InFew, QuestionsFinite DEF Letter
<1>2. CASE mailbox \in Questions
  <2>1. Letter = <<mailbox>> /\ <<mailbox>> \in Seq(Questions)
    BY <1>2, QuestionsFinite DEF Letter
  <2> QED BY <2>1, InFew
<1> QED BY <1>1, <1>2

LEMMA InAre == ASSUME NEW s \in Seq(Questions), NEW q, In(q, s) PROVE q \in Questions
BY DEF In

LEMMA DrainsOnce ==
  ASSUME OnceInv, Drains PROVE QueueType' /\ Once'
<1>1. /\ QueueType /\ Once /\ \A p \in Questions : PlaceOf(p)
      /\ writer.out \in Seq(Questions) /\ deferred \in Seq(Questions)
      /\ mailbox \in Questions \cup {Nothing} /\ Distinct(writer.out) /\ Distinct(deferred)
  BY DEF OnceInv, WorkInv, WorkType, Once, QueueType
<1> DEFINE out == writer.out \o Letter \o deferred
<1>2. /\ UNCHANGED <<scene, kind, work, reader, wakes, wire>>
      /\ mailbox' = Nothing /\ deferred' = <<>>
      /\ writer' = [pc |-> IF out = <<>> THEN "waits" ELSE "writes", out |-> out]
  BY DEF Drains
<1>3. /\ out \in Seq(Questions) /\ Distinct(out)
      /\ \A q \in Questions : In(q, out) <=> In(q, writer.out) \/ mailbox = q \/ In(q, deferred)
  <2>1. /\ Letter \in Seq(Questions) /\ Distinct(Letter)
        /\ \A q \in Questions : In(q, Letter) <=> mailbox = q
    BY <1>1, LetterIs
  <2>2. /\ \A q : ~(In(q, writer.out) /\ In(q, Letter))
        /\ \A q : ~((In(q, writer.out) \/ In(q, Letter)) /\ In(q, deferred))
    BY <1>1, <2>1, InAre DEF PlaceOf, Sent
  <2> DEFINE s == writer.out \o Letter
  <2>3. s \in Seq(Questions) /\ Distinct(s) /\ \A q : In(q, s) <=> In(q, writer.out) \/ In(q, Letter)
    BY <1>1, <2>1, <2>2, InConcat
  <2>4. out = s \o deferred
    OBVIOUS
  <2> HIDE DEF s, out
  <2>5. \A q : ~(In(q, s) /\ In(q, deferred))
    BY <2>2, <2>3
  <2>6. out \in Seq(Questions)
    BY <1>1, <2>3, <2>4
  <2>7. Distinct(out) /\ \A q : In(q, out) <=> In(q, s) \/ In(q, deferred)
    BY <1>1, <2>3, <2>4, <2>5, InConcat
  <2> QED BY <2>1, <2>3, <2>6, <2>7
<1> HIDE DEF out
<1>4. /\ writer'.out = out /\ (writer'.pc = "writes" => writer'.out # <<>>)
      /\ writer' \in [pc : {"waits", "drains", "writes", "over"}, out : Seq(Questions)]
  BY <1>2, <1>3
<1>5. QueueType'
  BY <1>1, <1>2, <1>4 DEF QueueType
<1>6. ASSUME NEW p \in Questions PROVE PlaceOf(p)'
  <2>1. /\ In(p, writer'.out) => In(p, writer.out) \/ mailbox = p \/ In(p, deferred)
        /\ ~In(p, deferred') /\ mailbox' # p
    BY <1>2, <1>3, <1>4, InFew, QuestionsFinite
  <2>2. PlaceOf(p) /\ UNCHANGED <<kind, work, reader, wakes, wire>>
    BY <1>1, <1>2
  <2>3. In(p, writer'.out) => /\ kind[p] # "unasked" /\ work[p] # "runs" /\ ~In(p, wire)
                             /\ ~In(p, reader.built) /\ ~Carry(wakes, p)
    <3>1. kind[p] = "unasked" => work[p] = "none"
      BY DEF OnceInv, WorkInv, WorkType
    <3> QED BY <2>1, <2>2, <3>1 DEF PlaceOf, Sent
  <2> QED BY <2>1, <2>2, <2>3 DEF PlaceOf, Sent
<1>7. Distinct(deferred') /\ Distinct(writer'.out)
  BY <1>2, <1>3, <1>4, InFew
<1>8. Distinct(reader'.built) /\ CarryOnce(wakes')
  BY <1>1, <1>2 DEF Once
<1> QED BY <1>5, <1>6, <1>7, <1>8 DEF Once

LEMMA WritesOnce ==
  ASSUME OnceInv, Writes
  PROVE  /\ QueueType' /\ Once'
         /\ Head(writer.out) \in Questions /\ kind[Head(writer.out)] # "unasked"
         /\ ~In(Head(writer.out), wire)
<1> DEFINE h == Head(writer.out)
<1>1. /\ QueueType /\ Once /\ \A p \in Questions : PlaceOf(p)
      /\ writer.out \in Seq(Questions) /\ writer.out # <<>> /\ Distinct(writer.out)
      /\ wire \in Seq(Questions)
  BY DEF OnceInv, Once, QueueType, Writes
<1>2. /\ UNCHANGED <<scene, kind, work, deferred, mailbox, reader, wakes>>
      /\ wire' = Append(wire, h)
      /\ writer' = [pc |-> IF Tail(writer.out) = <<>> THEN "waits" ELSE "writes",
                    out |-> Tail(writer.out)]
  BY DEF Writes, workVars
<1>3. /\ \A q : In(q, Tail(writer.out)) => In(q, writer.out)
      /\ In(h, writer.out) /\ h \in Questions /\ Tail(writer.out) \in Seq(Questions)
      /\ Distinct(Tail(writer.out)) /\ ~In(h, Tail(writer.out))
  BY <1>1, InTail
<1>4. /\ writer'.out = Tail(writer.out) /\ (writer'.pc = "writes" => writer'.out # <<>>)
      /\ writer' \in [pc : {"waits", "drains", "writes", "over"}, out : Seq(Questions)]
  BY <1>2, <1>3
<1> HIDE DEF h
<1>5. /\ wire' \in Seq(Questions)
      /\ \A q : In(q, wire') <=> In(q, wire) \/ q = h
  BY <1>1, <1>2, <1>3, InAppend
<1>6. QueueType'
  BY <1>1, <1>2, <1>4, <1>5 DEF QueueType
<1>7. ASSUME NEW p \in Questions PROVE PlaceOf(p)'
  <2>1. /\ In(p, writer'.out) => In(p, writer.out) /\ p # h
        /\ In(p, wire') => In(p, wire) \/ (p = h /\ In(p, writer.out))
    BY <1>3, <1>4, <1>5
  <2>2. PlaceOf(p) /\ UNCHANGED <<kind, work, deferred, mailbox, reader, wakes>>
    BY <1>1, <1>2
  <2> QED BY <2>1, <2>2 DEF PlaceOf, Sent
<1>8. kind[h] # "unasked" /\ ~In(h, wire)
  BY <1>1, <1>3 DEF PlaceOf, Sent
<1> QED BY <1>1, <1>2, <1>3, <1>4, <1>6, <1>7, <1>8 DEF Once, h

LEMMA FailsOnce ==
  ASSUME OnceInv, WriteFails PROVE QueueType' /\ Once'
<1>1. /\ UNCHANGED <<scene, kind, work, deferred, mailbox, reader, wakes, wire>>
      /\ writer'.pc = "over" /\ writer'.out = <<>> /\ writer' = [pc |-> "over", out |-> <<>>]
  BY DEF WriteFails, workVars
<1>2. QueueType /\ Once /\ \A p \in Questions : PlaceOf(p)
  BY DEF OnceInv, Once
<1>3. QueueType'
  BY <1>1, <1>2 DEF QueueType
<1>4. ASSUME NEW p \in Questions PROVE PlaceOf(p)'
  BY <1>1, <1>2, InFew DEF PlaceOf, Sent
<1> QED BY <1>1, <1>2, <1>3, <1>4, InFew DEF Once

LEMMA OnceInit == Init => OnceInv
<1> SUFFICES ASSUME Init PROVE OnceInv
  OBVIOUS
<1>1. /\ scene \in Scenes /\ deferred = <<>> /\ wakes = <<>> /\ wire = <<>>
      /\ reader = [pc |-> "reads", built |-> <<>>] /\ writer = [pc |-> "waits", out |-> <<>>]
      /\ mailbox = Nothing
  BY DEF Init
<1>2. reader.built = <<>> /\ writer.out = <<>> /\ writer.pc = "waits"
  BY <1>1
<1>3. QueueType
  BY <1>1 DEF QueueType
<1>4. Once
  <2>1. CarryOnce(wakes) /\ \A q : ~Carry(wakes, q)
    BY <1>1 DEF CarryOnce, Carry
  <2>2. \A q : ~In(q, wire) /\ ~In(q, writer.out) /\ ~In(q, reader.built) /\ ~In(q, deferred)
    BY <1>1, <1>2, InFew
  <2>3. ASSUME NEW q \in Questions PROVE PlaceOf(q)
    BY <1>1, <2>1, <2>2, QuestionsFinite DEF PlaceOf, Sent
  <2>4. Distinct(deferred) /\ Distinct(writer.out) /\ Distinct(reader.built)
    BY <1>1, <1>2, InFew
  <2> QED BY <2>1, <2>3, <2>4 DEF Once
<1> QED BY <1>3, <1>4, WorkInit DEF OnceInv

LEMMA OnceNext == OnceInv /\ [Next]_vars => OnceInv'
<1> SUFFICES ASSUME OnceInv, [Next]_vars PROVE QueueType' /\ Once'
  BY WorkNext DEF OnceInv
<1>1. ASSUME NEW q \in Questions, Asks(q) PROVE QueueType' /\ Once'
  BY <1>1, AskOnce
<1>2. ASSUME NEW q \in Questions, WorkerStep(q) PROVE QueueType' /\ Once'
  BY <1>2, SettlesOnce, WorkerOnce DEF WorkerStep
<1>3. CASE Sends \/ Leaves
  BY <1>3, SendsOnce
<1>4. CASE WriterStep \/ WriteFails
  BY <1>4, ReceivesOnce, DrainsOnce, WritesOnce, FailsOnce DEF WriterStep
<1>5. CASE UNCHANGED vars
  BY <1>5 DEF vars, OnceInv, QueueType, Once, PlaceOf, Sent
<1> QED BY <1>1, <1>2, <1>3, <1>4, <1>5 DEF Next

LEMMA OnceHolds == Spec => []OnceInv
BY OnceInit, OnceNext, PTL DEF Spec

(* Every variable of the connection keeps its type.  server.rs Connection. *)
THEOREM DeferredTypeCorrect == Spec => []TypeOK
BY OnceHolds, TypesFollow, PTL
-----------------------------------------------------------------------------
(* The connection implements Answering. *)
Asked == {q \in Questions : kind[q] # "unasked"}

LEMMA WiredAre == \A q : q \in Whole!Answered <=> In(q, wire)
BY DEF Whole!Answered, Whole!ToSet, In

LEMMA AskShows ==
  ASSUME OnceInv, NEW q \in Questions, Asks(q) PROVE Whole!Ask(q)
<1>1. PICK k \in Kinds :
        /\ kind' = [kind EXCEPT ![q] = k] /\ kind[q] = "unasked" /\ UNCHANGED <<wire, writer>>
  BY DEF Asks, AskFile, AskEnroll, AskDeferred, Hears, Kinds
<1>2. kind'[q] # "unasked" /\ \A p \in Questions \ {q} : kind'[p] = kind[p]
  BY <1>1 DEF OnceInv, WorkInv, WorkType, Kinds, Slotted
<1>3. Asked' = Asked \cup {q} /\ q \notin Asked
  BY <1>1, <1>2 DEF Asked
<1> QED BY <1>1, <1>3 DEF Whole!Ask, Asked

LEMMA WriteShows ==
  ASSUME OnceInv, Writes PROVE \E q \in Questions : Whole!Answer(q)
<1> DEFINE q == Head(writer.out)
<1>1. q \in Questions /\ kind[q] # "unasked" /\ q \notin Whole!Answered
  BY WritesOnce, WiredAre
<1>2. /\ wire' = Append(wire, q) /\ kind' = kind
      /\ writer.pc # "over" /\ writer'.pc # "over"
  BY DEF Writes
<1> HIDE DEF q
<1>3. (writer'.pc # "over") = (writer.pc # "over") /\ Asked' = Asked
  BY <1>2 DEF Asked
<1>4. Whole!Answer(q)
  BY <1>1, <1>2, <1>3 DEF Whole!Answer, Asked
<1> QED BY <1>1, <1>4

LEMMA EndShows ==
  ASSUME Receives \/ WriteFails PROVE Whole!Ends \/ UNCHANGED <<Asked, wire, writer.pc # "over">>
<1>1. UNCHANGED <<kind, wire>> /\ writer.pc # "over"
  BY DEF Receives, WriteFails
<1>2. CASE writer'.pc = "over"
  BY <1>1, <1>2 DEF Whole!Ends
<1>3. CASE writer'.pc # "over"
  BY <1>1, <1>3 DEF Asked
<1> QED BY <1>2, <1>3

LEMMA QuietShows ==
  ASSUME (\E q \in Questions : WorkerStep(q)) \/ Sends \/ Leaves \/ Drains \/ UNCHANGED vars
  PROVE  UNCHANGED <<Asked, wire, writer.pc # "over">>
<1>1. UNCHANGED <<kind, wire>> /\ (writer.pc = "over" <=> writer'.pc = "over")
  BY DEF WorkerStep, Settles, Frees, WakesWriter, Sends, Leaves, Drains, vars
<1> QED BY <1>1 DEF Asked

LEMMA AnsweringStep == OnceInv /\ [Next]_vars => [Whole!Next]_<<Asked, wire, writer.pc # "over">>
<1> SUFFICES ASSUME OnceInv, [Next]_vars
             PROVE  Whole!Next \/ UNCHANGED <<Asked, wire, writer.pc # "over">>
  OBVIOUS
<1>1. ASSUME NEW q \in Questions, Asks(q) PROVE Whole!Next
  BY <1>1, AskShows DEF Whole!Next
<1>2. CASE Writes
  BY <1>2, WriteShows DEF Whole!Next
<1>3. CASE Receives \/ WriteFails
  BY <1>3, EndShows DEF Whole!Next
<1> QED BY <1>1, <1>2, <1>3, QuietShows DEF Next, WriterStep

(* Whoever works a question out, and however its answer gets to the writer,
   the client reads it at most once and for a question it asked: the
   connection implements Answering.  server.rs on_bytes, take_deferred and
   take_enroll_result. *)
THEOREM DeferredAnswers == Spec => Whole!Spec
<1>1. Init => Whole!Init
  BY DEF Init, Whole!Init
<1> QED BY <1>1, OnceHolds, AnsweringStep, PTL DEF Spec, Whole!Spec, Asked
=============================================================================
