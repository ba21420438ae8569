-------------------------- MODULE DeltaCodecProofs --------------------------
(***************************************************************************)
(* The safety of DeltaCodec for every plan: every height, every limit of    *)
(* history at either end, every page size, every finite set of texts that   *)
(* is no larger than the ids there are.                                     *)
(*                                                                         *)
(* First what each operator on rows, grids and terminals returns and keeps; *)
(* then what an encoder's table and shadow say and what is made of them;    *)
(* then what each action does; then IInv, the inductive invariant, one      *)
(* lemma for each action; and the four properties, that follow from it.     *)
(***************************************************************************)
EXTENDS DeltaCodec, FiniteSetTheorems, SequenceTheorems, WellFoundedInduction, TLAPS

(* A function from 1..n is a sequence of length n. *)
LEMMA FcnIsSeq ==
  ASSUME NEW R, NEW n \in Nat, NEW s, s \in [1..n -> R]
  PROVE  s \in Seq(R) /\ Len(s) = n
OBVIOUS

(* The rows of a are some of b's, in their order. *)
Within(a, b) ==
  \E f \in [1..Len(a) -> 1..Len(b)] :
    /\ \A i, j \in 1..Len(a) : i < j => f[i] < f[j]
    /\ \A i \in 1..Len(a) : a[i] = b[f[i]]

(* Grids by the texts they hold. *)
Rows(S) == [id : Nat, text : S]
Grid(g, S) ==
  g \in [lines : Seq(Rows(S)), back : Nat, next : Nat] /\ g.back < Len(g.lines)

Extended(g, n) == g.lines \o Minted(g, n)

(* A row made of an id and a text is a row of such texts. *)
LEMMA RowType ==
  ASSUME NEW S, NEW id \in Nat, NEW text \in S
  PROVE  Row(id, text) \in Rows(S) /\ Row(id, text).id = id /\ Row(id, text).text = text
BY DEF Row, Rows

(* The rows a grid makes below are blank, with ids from its counter on (Grid::next_line_id). *)
LEMMA MintedIs ==
  ASSUME NEW S, Blank \in S, NEW g, Grid(g, S), NEW n \in Nat
  PROVE  /\ Minted(g, n) \in Seq(Rows(S)) /\ Len(Minted(g, n)) = n
         /\ \A i \in 1..n : Minted(g, n)[i] = Row(g.next + i - 1, Blank)
<1>1. \A i \in 1..n : Row(g.next + i - 1, Blank) \in Rows(S)
  <2>1. ASSUME NEW i \in 1..n PROVE g.next + i - 1 \in Nat
    BY DEF Grid
  <2> QED BY <2>1, RowType
<1>2. Minted(g, n) \in [1..n -> Rows(S)]
  BY <1>1 DEF Minted
<1> QED BY <1>2, FcnIsSeq DEF Minted

(* What stands where in two sequences joined. *)
LEMMA ConcatIs ==
  ASSUME NEW R, NEW a \in Seq(R), NEW b \in Seq(R)
  PROVE  /\ a \o b \in Seq(R) /\ Len(a \o b) = Len(a) + Len(b)
         /\ \A i \in 1..Len(a) : (a \o b)[i] = a[i]
         /\ \A i \in 1..Len(b) : (a \o b)[i + Len(a)] = b[i]
<1>1. Len(a) \in Nat /\ Len(b) \in Nat
  BY LenProperties
<1>2. /\ a \o b \in Seq(R) /\ Len(a \o b) = Len(a) + Len(b)
      /\ \A i \in 1..(Len(a) + Len(b)) :
           (a \o b)[i] = IF i <= Len(a) THEN a[i] ELSE b[i - Len(a)]
  BY ConcatProperties
<1>3. \A i \in 1..Len(b) : i + Len(a) \in 1..(Len(a) + Len(b)) /\ ~(i + Len(a) <= Len(a))
                           /\ (i + Len(a)) - Len(a) = i
  BY <1>1
<1>4. \A i \in 1..Len(a) : i \in 1..(Len(a) + Len(b)) /\ i <= Len(a)
  BY <1>1
<1> QED BY <1>2, <1>3, <1>4

(* A grid's rows with n new ones below them. *)
LEMMA ExtendedIs ==
  ASSUME NEW S, Blank \in S, NEW g, Grid(g, S), NEW n \in Nat
  PROVE  /\ Extended(g, n) \in Seq(Rows(S)) /\ Len(Extended(g, n)) = Len(g.lines) + n
         /\ \A i \in 1..Len(g.lines) : Extended(g, n)[i] = g.lines[i]
         /\ \A i \in 1..n : Extended(g, n)[i + Len(g.lines)] = Row(g.next + i - 1, Blank)
<1>1. g.lines \in Seq(Rows(S))
  BY DEF Grid
<1>2. /\ Minted(g, n) \in Seq(Rows(S)) /\ Len(Minted(g, n)) = n
      /\ \A i \in 1..n : Minted(g, n)[i] = Row(g.next + i - 1, Blank)
  BY MintedIs
<1> DEFINE a == g.lines
           b == Minted(g, n)
<1>3. a \in Seq(Rows(S)) /\ b \in Seq(Rows(S))
  BY <1>1, <1>2
<1> HIDE DEF a, b
<1>4. /\ a \o b \in Seq(Rows(S)) /\ Len(a \o b) = Len(a) + Len(b)
      /\ \A i \in 1..Len(a) : (a \o b)[i] = a[i]
      /\ \A i \in 1..Len(b) : (a \o b)[i + Len(a)] = b[i]
  BY <1>3, ConcatIs
<1>5. /\ Len(b) = n /\ \A i \in 1..n : b[i] = Row(g.next + i - 1, Blank)
  BY <1>2 DEF b
<1>6. Extended(g, n) = a \o b
  BY DEF Extended, a, b
<1>7. Extended(g, n) \in Seq(Rows(S)) /\ Len(Extended(g, n)) = Len(a) + n
  BY <1>4, <1>5, <1>6
<1>8. \A i \in 1..n : Extended(g, n)[i + Len(a)] = Row(g.next + i - 1, Blank)
  BY <1>4, <1>5, <1>6, Zenon
<1>9. \A i \in 1..Len(a) : Extended(g, n)[i] = a[i]
  BY <1>4, <1>6, Zenon
<1> QED BY <1>7, <1>8, <1>9, Zenon DEF a

(* The same, said once by name. *)
Lengthens(e, g, n, S) ==
  /\ e \in Seq(Rows(S)) /\ Len(e) = Len(g.lines) + n
  /\ \A i \in 1..Len(g.lines) : e[i] = g.lines[i]
  /\ \A i \in 1..n : e[i + Len(g.lines)] = Row(g.next + i - 1, Blank)

LEMMA ExtendedLengthens ==
  ASSUME NEW S, Blank \in S, NEW g, Grid(g, S), NEW n \in Nat
  PROVE  Lengthens(Extended(g, n), g, n, S)
BY ExtendedIs DEF Lengthens

(* The tail of a sequence. *)
LEMMA KeepLastIs ==
  ASSUME NEW R, NEW s \in Seq(R), NEW n \in 0..Len(s)
  PROVE  /\ KeepLast(s, n) \in Seq(R) /\ Len(KeepLast(s, n)) = n
         /\ \A i \in 1..n : KeepLast(s, n)[i] = s[i + (Len(s) - n)]
         /\ Within(KeepLast(s, n), s)
<1> DEFINE t == KeepLast(s, n)
<1>1. t \in Seq(R) /\ Len(t) = n /\ \A i \in 1..n : t[i] = s[i + (Len(s) - n)]
  BY DEF KeepLast
<1>2. [i \in 1..n |-> i + (Len(s) - n)] \in [1..n -> 1..Len(s)]
  OBVIOUS
<1> HIDE DEF t
<1>3. Within(t, s)
  <2> DEFINE f == [i \in 1..n |-> i + (Len(s) - n)]
  <2>1. f \in [1..Len(t) -> 1..Len(s)] /\ \A i \in 1..Len(t) : t[i] = s[f[i]]
    BY <1>1, <1>2
  <2>2. \A i, j \in 1..Len(t) : i < j => f[i] < f[j]
    BY <1>1
  <2> HIDE DEF f
  <2> QED BY <2>1, <2>2 DEF Within
<1> QED BY <1>1, <1>3 DEF t

(* A sequence of rows is within itself: none is taken away. *)
LEMMA WithinItself ==
  ASSUME NEW R, NEW s \in Seq(R)
  PROVE  Within(s, s)
<1> DEFINE f == [i \in 1..Len(s) |-> i]
<1>1. f \in [1..Len(s) -> 1..Len(s)] /\ \A i \in 1..Len(s) : f[i] = i
  OBVIOUS
<1> HIDE DEF f
<1> QED BY <1>1 DEF Within

(* How many numbers of a finite set come before one of it. *)
Before(S, i) == {j \in S : j < i}

(* The ranks of a finite set of numbers: fewer come before the lesser of two. *)
LEMMA BeforeIs ==
  ASSUME NEW S \in SUBSET Nat, IsFiniteSet(S), NEW i \in S
  PROVE  /\ IsFiniteSet(Before(S, i)) /\ Cardinality(Before(S, i)) \in 0..(Cardinality(S) - 1)
         /\ \A j \in S : i # j => Cardinality(Before(S, i)) # Cardinality(Before(S, j))
<1>1. Cardinality(S) \in Nat
  BY FS_CardinalityType
<1>2. ASSUME NEW k \in S
      PROVE  IsFiniteSet(Before(S, k)) /\ Cardinality(Before(S, k)) \in 0..(Cardinality(S) - 1)
  <2>1. Before(S, k) \subseteq S /\ k \in S \ Before(S, k)
    BY DEF Before
  <2>2. /\ IsFiniteSet(Before(S, k)) /\ Cardinality(Before(S, k)) <= Cardinality(S)
        /\ Cardinality(Before(S, k)) # Cardinality(S)
    BY <2>1, FS_Subset
  <2>3. Cardinality(Before(S, k)) \in Nat
    BY <2>2, FS_CardinalityType
  <2> QED BY <1>1, <2>2, <2>3
<1>3. ASSUME NEW k \in S, NEW j \in S, k < j
      PROVE  Cardinality(Before(S, k)) # Cardinality(Before(S, j))
  <2>1. k \in Nat /\ j \in Nat
    OBVIOUS
  <2>2. \A n \in Nat : n < k => n < j
    BY <1>3, <2>1
  <2>3. Before(S, k) \subseteq Before(S, j)
    BY <2>2 DEF Before
  <2>4. k \in Before(S, j) \ Before(S, k)
    BY <1>3, <2>1 DEF Before
  <2> QED BY <1>2, <2>3, <2>4, FS_Subset
<1>4. ASSUME NEW j \in S, i # j PROVE Cardinality(Before(S, i)) # Cardinality(Before(S, j))
  <2>1. i < j \/ j < i
    BY <1>4
  <2> QED BY <1>3, <2>1
<1> QED BY <1>2, <1>4

(* In a finite set of numbers there is one of each rank. *)
LEMMA Ranked ==
  ASSUME NEW S \in SUBSET Nat, IsFiniteSet(S), NEW n \in 1..Cardinality(S)
  PROVE  Nth(S, n) \in S /\ Cardinality({j \in S : j < Nth(S, n)}) = n - 1
<1> DEFINE rank == [i \in S |-> Cardinality(Before(S, i))]
           T == 0..(Cardinality(S) - 1)
<1>1. Cardinality(S) \in Nat
  BY FS_CardinalityType
<1>2. rank \in [S -> T]
  BY BeforeIs
<1>3. \A i, j \in S : rank[i] = rank[j] => i = j
  BY BeforeIs
<1>4. rank \in Injection(S, T)
  BY <1>2, <1>3 DEF Injection, IsInjective
<1>5. IsFiniteSet(T) /\ Cardinality(T) = Cardinality(S)
  <2> DEFINE b == Cardinality(S) - 1
  <2>1. b \in Int /\ (IF 0 > b THEN 0 ELSE b - 0 + 1) = Cardinality(S)
    BY <1>1
  <2> HIDE DEF b
  <2>2. IsFiniteSet(0..b) /\ Cardinality(0..b) = IF 0 > b THEN 0 ELSE b - 0 + 1
    BY <2>1, FS_Interval
  <2> QED
    BY <2>1, <2>2 DEF b
<1>6. rank \in Surjection(S, T)
  BY <1>4, <1>5, FS_Injection
<1>7. \E i \in S : rank[i] = n - 1
  <2>1. n - 1 \in T
    BY <1>1
  <2> QED
    BY <1>6, <2>1 DEF Surjection
<1>8. \E i \in S : Cardinality({j \in S : j < i}) = n - 1
  BY <1>7 DEF Before
<1> HIDE DEF rank
<1> QED
  BY <1>8 DEF Nth

(* Picking keeps the order. *)
LEMMA PickedIs ==
  ASSUME NEW R, NEW rows \in Seq(R), NEW S \in SUBSET (1..Len(rows))
  PROVE  /\ Picked(rows, S) \in Seq(R) /\ Len(Picked(rows, S)) = Cardinality(S)
         /\ Cardinality(S) \in Nat
         /\ \A n \in 1..Cardinality(S) : Nth(S, n) \in S /\ Picked(rows, S)[n] = rows[Nth(S, n)]
         /\ \A n, m \in 1..Cardinality(S) : n < m => Nth(S, n) < Nth(S, m)
<1>1. Len(rows) \in Nat /\ S \in SUBSET Nat /\ IsFiniteSet(S) /\ Cardinality(S) \in Nat
  <2>1. Len(rows) \in Nat
    BY LenProperties
  <2>2. IsFiniteSet(1..Len(rows))
    BY <2>1, FS_Interval
  <2>3. IsFiniteSet(S)
    BY <2>2, FS_Subset
  <2>4. \A i \in S : i \in Nat
    BY <2>1
  <2> QED BY <2>1, <2>3, <2>4, FS_CardinalityType
<1>2. ASSUME NEW n \in 1..Cardinality(S)
      PROVE  Nth(S, n) \in S /\ Cardinality({j \in S : j < Nth(S, n)}) = n - 1
  BY <1>1, Ranked
<1>3. \A n \in 1..Cardinality(S) : rows[Nth(S, n)] \in R
  <2>1. \A i \in S : rows[i] \in R
    BY ElementOfSeq
  <2> QED BY <1>2, <2>1
<1>4. Picked(rows, S) \in [1..Cardinality(S) -> R]
  BY <1>3 DEF Picked
<1>5. Picked(rows, S) \in Seq(R) /\ Len(Picked(rows, S)) = Cardinality(S)
  BY <1>1, <1>4, FcnIsSeq
<1>6. ASSUME NEW n \in 1..Cardinality(S), NEW m \in 1..Cardinality(S), n < m
      PROVE  Nth(S, n) < Nth(S, m)
  <2> SUFFICES ASSUME ~(Nth(S, n) < Nth(S, m)) PROVE FALSE
    OBVIOUS
  <2> DEFINE a == Nth(S, n)
             b == Nth(S, m)
             below(i) == {j \in S : j < i}
  <2>1. a \in Nat /\ b \in Nat
    BY <1>1, <1>2
  <2>6. b <= a
    BY <2>1
  <2>2. Cardinality(below(a)) = n - 1 /\ Cardinality(below(b)) = m - 1
    BY <1>2
  <2> HIDE DEF a, b
  <2>3. below(b) \subseteq below(a)
    <3>1. \A j \in S : j \in Nat
      BY <1>1
    <3>2. \A j \in S : j < b => j < a
      BY <3>1, <2>1, <2>6
    <3> QED BY <3>2
  <2>4. IsFiniteSet(below(a))
    BY <1>1, FS_Subset
  <2>5. Cardinality(below(b)) <= Cardinality(below(a))
    BY <2>3, <2>4, FS_Subset
  <2> QED BY <1>1, <1>6, <2>2, <2>5 DEF a, b
<1>7. \A n \in 1..Cardinality(S) : Picked(rows, S)[n] = rows[Nth(S, n)]
  BY DEF Picked
<1> QED BY <1>1, <1>2, <1>5, <1>6, <1>7

(* What rows keep when some are taken away. *)
AllFrom(lines, low) == \A i \in 1..Len(lines) : lines[i].id >= low
AllUnder(lines, high) == \A i \in 1..Len(lines) : lines[i].id < high
Turned(lines, alive) ==
  \A i, j \in 1..Len(lines) :
    i < j /\ lines[i].id > lines[j].id => lines[i].id \notin alive

(* The fields of every row of a sequence of rows. *)
LEMMA SeqOfRows ==
  ASSUME NEW S, NEW s \in Seq(Rows(S))
  PROVE  /\ Len(s) \in Nat /\ DOMAIN s = 1..Len(s)
         /\ \A i \in 1..Len(s) : s[i] \in Rows(S) /\ s[i].id \in Nat /\ s[i].text \in S
<1>1. Len(s) \in Nat /\ DOMAIN s = 1..Len(s)
  BY LenProperties
<1>2. \A i \in 1..Len(s) : s[i] \in Rows(S)
  BY ElementOfSeq
<1>3. \A r \in Rows(S) : r.id \in Nat /\ r.text \in S
  BY DEF Rows
<1> QED BY <1>1, <1>2, <1>3

(* Taking rows away neither repeats an id, nor turns an order, nor passes a bound. *)
LEMMA WithinKeeps ==
  ASSUME NEW S, NEW a \in Seq(Rows(S)), NEW b \in Seq(Rows(S)), Within(a, b)
  PROVE  /\ HeldOnce(b) => HeldOnce(a)
         /\ Ascending(b) => Ascending(a)
         /\ \A low : AllFrom(b, low) => AllFrom(a, low)
         /\ \A high : AllUnder(b, high) => AllUnder(a, high)
         /\ \A alive : Turned(b, alive) => Turned(a, alive)
         /\ \A i \in 1..Len(a) : \E j \in 1..Len(b) : a[i] = b[j]
<1>1. PICK f \in [1..Len(a) -> 1..Len(b)] :
        /\ \A i, j \in 1..Len(a) : i < j => f[i] < f[j]
        /\ \A i \in 1..Len(a) : a[i] = b[f[i]]
  BY DEF Within
<1>2. /\ Len(a) \in Nat /\ Len(b) \in Nat /\ DOMAIN a = 1..Len(a) /\ DOMAIN b = 1..Len(b)
      /\ \A i \in 1..Len(a) : a[i].id \in Nat
      /\ \A i \in 1..Len(b) : b[i].id \in Nat
  BY SeqOfRows
<1>3. \A i, j \in 1..Len(a) : i # j => f[i] # f[j]
  <2> SUFFICES ASSUME NEW i \in 1..Len(a), NEW j \in 1..Len(a), i # j PROVE f[i] # f[j]
    OBVIOUS
  <2>1. i < j \/ j < i
    BY <1>2
  <2>2. f[i] \in 1..Len(b) /\ f[j] \in 1..Len(b)
    BY <1>1
  <2> QED BY <1>1, <1>2, <2>1, <2>2
<1>4. \A i \in 1..Len(a) : f[i] \in 1..Len(b) /\ a[i] = b[f[i]]
  BY <1>1
<1>5. HeldOnce(b) => HeldOnce(a)
  BY <1>2, <1>3, <1>4 DEF HeldOnce
<1>6. Ascending(b) => Ascending(a)
  BY <1>1, <1>2, <1>4 DEF Ascending
<1>7. \A low : AllFrom(b, low) => AllFrom(a, low)
  BY <1>4 DEF AllFrom
<1>8. \A high : AllUnder(b, high) => AllUnder(a, high)
  BY <1>4 DEF AllUnder
<1>9. \A alive : Turned(b, alive) => Turned(a, alive)
  BY <1>1, <1>4 DEF Turned
<1> QED BY <1>4, <1>5, <1>6, <1>7, <1>8, <1>9

-----------------------------------------------------------------------------
(* What the operations on a grid return. *)
Level(g) == AllUnder(g.lines, g.next)
Low(g, low) == g.next >= low /\ AllFrom(g.lines, low)

(* h is g with some rows taken away and n made below. *)
Descends(h, g) ==
  \E n \in Nat : h.next = g.next + n /\ Within(h.lines, Extended(g, n))

(* The fields of a grid: it has a screen of at least one row, and history before it. *)
LEMMA GridIs ==
  ASSUME NEW S, NEW g, Grid(g, S)
  PROVE  /\ g.lines \in Seq(Rows(S)) /\ Len(g.lines) \in Nat /\ g.back \in Nat /\ g.next \in Nat
         /\ DOMAIN g.lines = 1..Len(g.lines) /\ g.back < Len(g.lines)
         /\ Height(g) \in Nat \ {0} /\ g.back + Height(g) = Len(g.lines)
         /\ \A i \in 1..Len(g.lines) : /\ g.lines[i] \in Rows(S)
                                       /\ g.lines[i].id \in Nat /\ g.lines[i].text \in S
<1>1. g.lines \in Seq(Rows(S)) /\ g.back \in Nat /\ g.next \in Nat /\ g.back < Len(g.lines)
  BY DEF Grid
<1>2. Len(g.lines) \in Nat /\ DOMAIN g.lines = 1..Len(g.lines)
  BY <1>1, LenProperties
<1>3. \A i \in 1..Len(g.lines) : /\ g.lines[i] \in Rows(S)
                                 /\ g.lines[i].id \in Nat /\ g.lines[i].text \in S
  BY <1>1, SeqOfRows
<1> QED BY <1>1, <1>2, <1>3 DEF Height

(* A record of rows, a history shorter than them and a counter is a grid. *)
LEMMA GridOf ==
  ASSUME NEW S, NEW e \in Seq(Rows(S)), NEW b \in Nat, NEW n \in Nat, b < Len(e),
         NEW h, h = [lines |-> e, back |-> b, next |-> n]
  PROVE  Grid(h, S) /\ h.lines = e /\ h.back = b /\ h.next = n /\ Height(h) = Len(e) - b
<1>1. h.lines = e /\ h.back = b /\ h.next = n
  OBVIOUS
<1>2. h \in [lines : Seq(Rows(S)), back : Nat, next : Nat]
  OBVIOUS
<1> QED BY <1>1, <1>2 DEF Grid, Height

(* New rows below a level grid are in order, once each and above every bound: they are newer. *)
LEMMA ExtendedKeeps ==
  ASSUME NEW S, Blank \in S, NEW g, Grid(g, S), NEW n \in Nat
  PROVE  /\ Level(g) => AllUnder(Extended(g, n), g.next + n)
         /\ Level(g) /\ HeldOnce(g.lines) => HeldOnce(Extended(g, n))
         /\ Level(g) /\ Ascending(g.lines) => Ascending(Extended(g, n))
         /\ \A alive : Level(g) /\ Turned(g.lines, alive) => Turned(Extended(g, n), alive)
         /\ \A low \in Nat : Low(g, low) => AllFrom(Extended(g, n), low)
         /\ \A i \in 1..Len(Extended(g, n)) :
              \/ i <= Len(g.lines) /\ Extended(g, n)[i] = g.lines[i]
              \/ i > Len(g.lines) /\ Extended(g, n)[i].id >= g.next
<1> DEFINE e == Extended(g, n)
           l == Len(g.lines)
<1>1. /\ l \in Nat /\ g.next \in Nat /\ DOMAIN g.lines = 1..l
      /\ \A i \in 1..l : g.lines[i].id \in Nat
  BY GridIs
<1>2. /\ e \in Seq(Rows(S)) /\ Len(e) = l + n
      /\ \A i \in 1..l : e[i] = g.lines[i]
      /\ \A i \in 1..n : e[i + l] = Row(g.next + i - 1, Blank)
  BY ExtendedIs
<1>3. DOMAIN e = 1..(l + n)
  BY <1>2, SeqOfRows
<1> HIDE DEF e, l
<1>4. \A i \in (l + 1)..(l + n) : e[i].id = g.next + (i - l) - 1
  <2> SUFFICES ASSUME NEW i \in (l + 1)..(l + n) PROVE e[i].id = g.next + (i - l) - 1
    OBVIOUS
  <2>1. i - l \in 1..n /\ (i - l) + l = i
    BY <1>1
  <2>2. e[i] = Row(g.next + (i - l) - 1, Blank)
    BY <1>2, <2>1
  <2> QED BY <2>2 DEF Row
<1>5. \A i \in 1..(l + n) : /\ i <= l => i \in 1..l /\ e[i].id = g.lines[i].id
                            /\ i > l => e[i].id = g.next + (i - l) - 1
  BY <1>1, <1>2, <1>4
<1>6. Level(g) <=> \A i \in 1..l : g.lines[i].id < g.next
  BY DEF Level, AllUnder, l
<1>7. Level(g) => AllUnder(e, g.next + n)
  <2> SUFFICES ASSUME Level(g), NEW i \in 1..(l + n) PROVE e[i].id < g.next + n
    BY <1>2 DEF AllUnder
  <2>1. CASE i <= l
    BY <1>1, <1>5, <1>6, <2>1
  <2>2. CASE i > l
    BY <1>1, <1>5, <2>2
  <2> QED BY <1>1, <2>1, <2>2
<1>13. Level(g) => \A i, j \in 1..(l + n) : i < j /\ j > l => e[i].id < e[j].id
  <2> SUFFICES ASSUME Level(g), NEW i \in 1..(l + n), NEW j \in 1..(l + n), i < j, j > l
               PROVE  e[i].id < e[j].id
    OBVIOUS
  <2>1. CASE i <= l
    BY <1>1, <1>5, <1>6, <2>1, SMTT(30)
  <2>2. CASE i > l
    BY <1>1, <1>5, <2>2
  <2> QED BY <1>1, <2>1, <2>2
<1>14. \A i \in 1..(l + n) : e[i].id \in Int
  <2> SUFFICES ASSUME NEW i \in 1..(l + n) PROVE e[i].id \in Int
    OBVIOUS
  <2>1. CASE i <= l
    BY <1>1, <1>5, <2>1
  <2>2. CASE i > l
    BY <1>1, <1>5, <2>2
  <2> QED BY <1>1, <2>1, <2>2
<1>8. Level(g) /\ HeldOnce(g.lines) => HeldOnce(e)
  <2> SUFFICES ASSUME Level(g), HeldOnce(g.lines), NEW i \in 1..(l + n), NEW j \in 1..(l + n), i < j
               PROVE  e[i].id # e[j].id
    BY <1>1, <1>3 DEF HeldOnce
  <2>1. CASE j > l
    BY <1>13, <1>14, <2>1
  <2>2. CASE j <= l
    BY <1>1, <1>5, <2>2 DEF HeldOnce
  <2> QED BY <1>1, <2>1, <2>2
<1>9. Level(g) /\ Ascending(g.lines) => Ascending(e)
  <2> SUFFICES ASSUME Level(g), Ascending(g.lines), NEW i \in 1..(l + n), NEW j \in 1..(l + n), i < j
               PROVE  e[i].id < e[j].id
    BY <1>3 DEF Ascending
  <2>1. CASE j > l
    BY <1>13, <2>1
  <2>2. CASE j <= l
    BY <1>1, <1>5, <2>2, SMTT(30) DEF Ascending
  <2> QED BY <1>1, <2>1, <2>2
<1>10. \A alive : Level(g) /\ Turned(g.lines, alive) => Turned(e, alive)
  <2> SUFFICES ASSUME NEW alive, Level(g), Turned(g.lines, alive),
                      NEW i \in 1..(l + n), NEW j \in 1..(l + n), i < j, e[i].id > e[j].id
               PROVE  e[i].id \notin alive
    BY <1>2 DEF Turned
  <2>1. j <= l /\ i <= l
    BY <1>1, <1>13, <1>14
  <2>2. e[i].id = g.lines[i].id /\ e[j].id = g.lines[j].id /\ i \in 1..l /\ j \in 1..l
    BY <1>5, <2>1
  <2> QED BY <2>2 DEF Turned, l
<1>11. \A low \in Nat : Low(g, low) => AllFrom(e, low)
  <2> SUFFICES ASSUME NEW low \in Nat, Low(g, low), NEW i \in 1..(l + n) PROVE e[i].id >= low
    BY <1>2 DEF AllFrom
  <2>1. g.next >= low /\ \A k \in 1..l : g.lines[k].id >= low
    BY DEF Low, AllFrom, l
  <2>2. CASE i <= l
    BY <1>1, <1>5, <2>1, <2>2
  <2>3. CASE i > l
    BY <1>1, <1>5, <2>1, <2>3
  <2> QED BY <1>1, <2>2, <2>3
<1>12. \A i \in 1..Len(e) : \/ i <= l /\ e[i] = g.lines[i]
                            \/ i > l /\ e[i].id >= g.next
  BY <1>1, <1>2, <1>5
<1> QED BY <1>7, <1>8, <1>9, <1>10, <1>11, <1>12 DEF e, l

(* A grid that scrolled or was resized keeps what was said of its ids, and its other rows are new. *)
LEMMA DescendsKeeps ==
  ASSUME NEW S, Blank \in S, NEW g, Grid(g, S), NEW h, Grid(h, S), Descends(h, g)
  PROVE  /\ h.next >= g.next
         /\ Level(g) => Level(h)
         /\ Level(g) /\ HeldOnce(g.lines) => HeldOnce(h.lines)
         /\ Level(g) /\ Ascending(g.lines) => Ascending(h.lines)
         /\ \A alive : Level(g) /\ Turned(g.lines, alive) => Turned(h.lines, alive)
         /\ \A low \in Nat : Low(g, low) => Low(h, low)
         /\ \A i \in 1..Len(h.lines) :
              \/ \E j \in 1..Len(g.lines) : h.lines[i] = g.lines[j]
              \/ h.lines[i].id >= g.next
<1>1. PICK n \in Nat : h.next = g.next + n /\ Within(h.lines, Extended(g, n))
  BY DEF Descends
<1>2. h.lines \in Seq(Rows(S)) /\ Extended(g, n) \in Seq(Rows(S)) /\ g.next \in Nat
  BY GridIs, ExtendedIs
<1> DEFINE a == h.lines
           b == Extended(g, n)
<1>3. /\ HeldOnce(b) => HeldOnce(a)
      /\ Ascending(b) => Ascending(a)
      /\ \A low : AllFrom(b, low) => AllFrom(a, low)
      /\ \A high : AllUnder(b, high) => AllUnder(a, high)
      /\ \A alive : Turned(b, alive) => Turned(a, alive)
      /\ \A i \in 1..Len(a) : \E j \in 1..Len(b) : a[i] = b[j]
  <2>1. a \in Seq(Rows(S)) /\ b \in Seq(Rows(S)) /\ Within(a, b)
    BY <1>1, <1>2
  <2> HIDE DEF a, b
  <2> QED BY <2>1, WithinKeeps
<1>4. /\ Level(g) => AllUnder(b, g.next + n)
      /\ Level(g) /\ HeldOnce(g.lines) => HeldOnce(b)
      /\ Level(g) /\ Ascending(g.lines) => Ascending(b)
      /\ \A alive : Level(g) /\ Turned(g.lines, alive) => Turned(b, alive)
      /\ \A low \in Nat : Low(g, low) => AllFrom(b, low)
      /\ \A i \in 1..Len(b) :
           \/ i <= Len(g.lines) /\ b[i] = g.lines[i]
           \/ i > Len(g.lines) /\ b[i].id >= g.next
  BY ExtendedKeeps
<1>5. Len(b) \in Nat /\ Len(g.lines) \in Nat
  BY <1>2, LenProperties, GridIs
<1> HIDE DEF b
<1>6. Level(g) => Level(h)
  BY <1>1, <1>3, <1>4 DEF Level
<1>7. \A low \in Nat : Low(g, low) => Low(h, low)
  BY <1>1, <1>2, <1>3, <1>4 DEF Low
<1>8. \A i \in 1..Len(h.lines) : \/ \E j \in 1..Len(g.lines) : h.lines[i] = g.lines[j]
                                 \/ h.lines[i].id >= g.next
  BY <1>3, <1>4, <1>5
<1> QED BY <1>1, <1>2, <1>3, <1>4, <1>6, <1>7, <1>8

(* The lesser of two numbers. *)
LEMMA LeastIs ==
  ASSUME NEW a \in Int, NEW b \in Int
  PROVE  Least(a, b) \in {a, b} /\ Least(a, b) <= a /\ Least(a, b) <= b
BY DEF Least

(* A tail of a grid's rows with n more below them. *)
LEMMA TailDescends ==
  ASSUME NEW S, Blank \in S, NEW g, Grid(g, S), NEW n \in Nat,
         NEW h, h.next = g.next + n, NEW m \in 0..(Len(g.lines) + n),
         h.lines = KeepLast(Extended(g, n), m)
  PROVE  /\ h.lines \in Seq(Rows(S)) /\ Len(h.lines) = m
         /\ \A i \in 1..m : h.lines[i] = Extended(g, n)[i + (Len(g.lines) + n - m)]
         /\ Descends(h, g)
<1> DEFINE e == Extended(g, n)
<1>1. e \in Seq(Rows(S)) /\ Len(e) = Len(g.lines) + n
  BY ExtendedIs
<1> HIDE DEF e
<1>2. /\ KeepLast(e, m) \in Seq(Rows(S)) /\ Len(KeepLast(e, m)) = m
      /\ \A i \in 1..m : KeepLast(e, m)[i] = e[i + (Len(e) - m)]
      /\ Within(KeepLast(e, m), e)
  BY <1>1, KeepLastIs
<1>3. h.lines = KeepLast(e, m)
  BY DEF e
<1>4. Descends(h, g)
  BY <1>2, <1>3 DEF Descends, e
<1> QED BY <1>1, <1>2, <1>3, <1>4 DEF e

(* scroll_up: the screen moves up, blank rows come below, and history is of rows the grid had. *)
LEMMA ScrollUpIs ==
  ASSUME NEW S, Blank \in S, NEW g, Grid(g, S), NEW n \in 0..Height(g), NEW limit \in Nat
  PROVE  LET h == ScrollUp(g, n, limit)
         IN /\ Grid(h, S) /\ Height(h) = Height(g) /\ Descends(h, g)
            /\ h.back = Least(g.back + n, limit) /\ h.next = g.next + n
            /\ \A i \in 1..Height(g) :
                 /\ i + n <= Height(g) => h.lines[h.back + i] = g.lines[g.back + i + n]
                 /\ i + n > Height(g) =>
                      h.lines[h.back + i] = Row(g.next + (i + n - Height(g)) - 1, Blank)
            /\ \A i \in 1..h.back : \E j \in 1..(g.back + n) :
                 j >= i /\ h.lines[i] = g.lines[j]
            /\ h.back <= g.back + n
<1> DEFINE h == ScrollUp(g, n, limit)
           l == Len(g.lines)
           m == h.back + Height(g)
<1>1. /\ l \in Nat /\ g.back \in Nat /\ g.next \in Nat /\ Height(g) \in Nat \ {0}
      /\ g.back + Height(g) = l /\ n \in Nat
  BY GridIs
<1>2. /\ h.lines = KeepLast(Extended(g, n), m) /\ h.back = Least(g.back + n, limit)
      /\ h.next = g.next + n /\ h = [lines |-> h.lines, back |-> h.back, next |-> h.next]
  BY DEF ScrollUp, Extended
<1> HIDE DEF h
<1>10. n \in Nat
  BY <1>1
<1>3. h.back \in Nat /\ h.back <= g.back + n
  <2>1. g.back + n \in Int /\ limit \in Int
    BY <1>1
  <2> QED BY <1>1, <1>2, <2>1, LeastIs
<1>4. m \in 0..(l + n)
  BY <1>1, <1>3
<1>5. /\ h.lines \in Seq(Rows(S)) /\ Len(h.lines) = m /\ Descends(h, g)
      /\ \A i \in 1..m : h.lines[i] = Extended(g, n)[i + (l + n - m)]
  <2>1. m \in 0..(Len(g.lines) + n)
    BY <1>4
  <2> HIDE DEF m, l
  <2> QED BY <1>10, <1>2, <2>1, TailDescends DEF l
<1>6. Grid(h, S) /\ Height(h) = Height(g)
  BY <1>1, <1>2, <1>3, <1>5, SMTT(30) DEF Grid, Height
<1>7. /\ \A i \in 1..l : Extended(g, n)[i] = g.lines[i]
      /\ \A i \in 1..n : Extended(g, n)[i + l] = Row(g.next + i - 1, Blank)
  <2> HIDE DEF m
  <2>1. /\ \A i \in 1..Len(g.lines) : Extended(g, n)[i] = g.lines[i]
        /\ \A i \in 1..n : Extended(g, n)[i + Len(g.lines)] = Row(g.next + i - 1, Blank)
    <3> HIDE DEF l
    <3>1. Lengthens(Extended(g, n), g, n, S)
      BY <1>10, ExtendedLengthens
    <3> QED BY <3>1 DEF Lengthens
  <2> QED BY <2>1
<1>8. ASSUME NEW i \in 1..Height(g)
      PROVE  /\ i + n <= Height(g) => h.lines[h.back + i] = g.lines[g.back + i + n]
             /\ i + n > Height(g) =>
                  h.lines[h.back + i] = Row(g.next + (i + n - Height(g)) - 1, Blank)
  <2>1. h.back + i \in 1..m /\ (h.back + i) + (l + n - m) = g.back + i + n
    BY <1>1, <1>3, SMTT(30)
  <2>2. h.lines[h.back + i] = Extended(g, n)[g.back + i + n]
    BY <1>5, <2>1
  <2>3. CASE i + n <= Height(g)
    <3>1. g.back + i + n \in 1..l
      BY <1>1, <2>3
    <3> QED BY <1>1, <1>7, <2>2, <2>3, <3>1, SMTT(30)
  <2>4. CASE i + n > Height(g)
    <3>1. i + n - Height(g) \in 1..n /\ (i + n - Height(g)) + l = g.back + i + n
      BY <1>1, <2>4
    <3> QED BY <1>1, <1>7, <2>2, <2>4, <3>1, SMTT(30)
  <2> QED BY <1>1, <2>3, <2>4
<1>9. ASSUME NEW i \in 1..h.back
      PROVE  \E j \in 1..(g.back + n) : j >= i /\ h.lines[i] = g.lines[j]
  <2> DEFINE j == i + (l + n - m)
  <2>1. i \in 1..m /\ j \in 1..(g.back + n) /\ j >= i /\ j \in 1..l
    BY <1>1, <1>3, SMTT(30)
  <2>2. h.lines[i] = Extended(g, n)[j]
    BY <1>5, <2>1
  <2> HIDE DEF j
  <2>3. h.lines[i] = g.lines[j]
    BY <1>7, <2>1, <2>2
  <2> QED BY <2>1, <2>3
<1> QED BY <1>2, <1>3, <1>5, <1>6, <1>8, <1>9 DEF h

(* A grid that only lost rows descends from what it was. *)
LEMMA WithinDescends ==
  ASSUME NEW S, Blank \in S, NEW g, Grid(g, S), NEW h, h.next = g.next, Within(h.lines, g.lines)
  PROVE  Descends(h, g)
<1> DEFINE e == Extended(g, 0)
           l == Len(g.lines)
<1>1. l \in Nat /\ g.next \in Nat
  BY GridIs
<1>2. Len(e) = l /\ \A i \in 1..l : e[i] = g.lines[i]
  <2>1. 0 \in Nat
    OBVIOUS
  <2>2. /\ Len(Extended(g, 0)) = Len(g.lines) + 0
        /\ \A i \in 1..Len(g.lines) : Extended(g, 0)[i] = g.lines[i]
    BY <2>1, ExtendedIs, Zenon
  <2> HIDE DEF e, l
  <2>3. Len(e) = l + 0 /\ \A i \in 1..l : e[i] = g.lines[i]
    BY <2>2, Zenon DEF e, l
  <2> QED BY <1>1, <2>3
<1> HIDE DEF e
<1>3. Within(h.lines, e)
  <2>1. PICK f \in [1..Len(h.lines) -> 1..l] :
          /\ \A i, j \in 1..Len(h.lines) : i < j => f[i] < f[j]
          /\ \A i \in 1..Len(h.lines) : h.lines[i] = g.lines[f[i]]
    BY DEF Within
  <2>2. \A i \in 1..Len(h.lines) : h.lines[i] = e[f[i]]
    BY <1>2, <2>1
  <2> QED BY <1>2, <2>1, <2>2 DEF Within
<1>4. h.next = g.next + 0
  BY <1>1
<1> QED BY <1>2, <1>3, <1>4 DEF Descends, e

(* A grid made lower has only lost rows. *)
LEMMA ShrinkIs ==
  ASSUME NEW S, Blank \in S, NEW g, Grid(g, S), NEW height \in Nat \ {0}, height < Height(g),
         NEW below \in Nat, NEW limit \in Nat
  PROVE  LET h == Shrink(g, height, below, limit)
         IN /\ Grid(h, S) /\ Height(h) = height /\ h.next = g.next
            /\ Within(h.lines, g.lines) /\ (limit = 0 => h.back = 0)
<1> DEFINE h == Shrink(g, height, below, limit)
           l == Len(g.lines)
           gone == Least(Height(g) - height, below)
           held == SubSeq(g.lines, 1, l - gone)
           m == h.back + height
<1>1. /\ l \in Nat /\ g.back \in Nat /\ g.next \in Nat /\ Height(g) \in Nat
      /\ g.back + Height(g) = l /\ g.lines \in Seq(Rows(S))
      /\ g \in [lines : Seq(Rows(S)), back : Nat, next : Nat]
  BY GridIs DEF Grid
<1>2. /\ h.lines = KeepLast(held, m)
      /\ h.back = Least(g.back + Height(g) - height - gone, limit)
      /\ h.next = g.next /\ h = [lines |-> h.lines, back |-> h.back, next |-> h.next]
  <2>1. h = [g EXCEPT !.lines = KeepLast(held, Least(g.back + Height(g) - height - gone, limit) + height),
                      !.back = Least(g.back + Height(g) - height - gone, limit)]
    BY DEF Shrink
  <2> HIDE DEF h, gone, held, l
  <2> DEFINE b == Least(g.back + Height(g) - height - gone, limit)
  <2>2. h = [g EXCEPT !.lines = KeepLast(held, b + height), !.back = b]
    BY <2>1
  <2> HIDE DEF b
  <2>3. h = [lines |-> KeepLast(held, b + height), back |-> b, next |-> g.next]
    BY <1>1, <2>2
  <2>4. h.lines = KeepLast(held, b + height) /\ h.back = b /\ h.next = g.next
    BY <2>3
  <2> QED BY <2>3, <2>4 DEF b
<1>3. gone \in Nat /\ gone <= Height(g) - height
  <2>1. Height(g) - height \in Nat
    BY <1>1
  <2> QED BY <2>1, LeastIs
<1> HIDE DEF h, gone
<1>4. h.back \in Nat /\ h.back <= g.back + Height(g) - height - gone /\ (limit = 0 => h.back = 0)
  <2> DEFINE a == g.back + Height(g) - height - gone
  <2>1. a \in Nat
    BY <1>1, <1>3
  <2> HIDE DEF a
  <2>2. h.back \in {a, limit} /\ h.back <= a /\ h.back <= limit
    BY <1>2, <2>1, LeastIs DEF a
  <2> QED BY <2>1, <2>2 DEF a
<1>5. held \in Seq(Rows(S)) /\ Len(held) = l - gone /\ \A i \in 1..(l - gone) : held[i] = g.lines[i]
  <2>1. \A i \in 1..(l - gone) : g.lines[i] \in Rows(S)
    BY <1>1, <1>3, GridIs
  <2>2. 1 \in Int /\ l - gone \in Int /\ 1 <= l - gone
    BY <1>1, <1>3
  <2> DEFINE s == g.lines
             n == l - gone
             R == Rows(S)
  <2>3. s \in Seq(R) /\ n \in 0..Len(s)
    BY <1>1, <1>3
  <2>4. held = SubSeq(s, 1, n)
    BY DEF held
  <2> HIDE DEF s, n, R, held
  <2>5. SubSeq(s, 1, n) \in Seq(R) /\ Len(SubSeq(s, 1, n)) = n
        /\ \A i \in 1..n : SubSeq(s, 1, n)[i] = s[i]
    BY <2>3
  <2>6. held \in Seq(R) /\ Len(held) = n /\ \A i \in 1..n : held[i] = s[i]
    BY <2>4, <2>5, Zenon
  <2> QED BY <2>6 DEF s, n, R
<1>6. m \in 0..(l - gone)
  BY <1>1, <1>3, <1>4
<1> HIDE DEF held
<1>7. /\ KeepLast(held, m) \in Seq(Rows(S)) /\ Len(KeepLast(held, m)) = m
      /\ \A i \in 1..m : KeepLast(held, m)[i] = held[i + (Len(held) - m)]
  <2> HIDE DEF m
  <2> QED BY <1>5, <1>6, KeepLastIs
<1> HIDE DEF m
<1>8. Within(h.lines, g.lines)
  <2> DEFINE f == [i \in 1..m |-> i + (l - gone - m)]
  <2>1. f \in [1..m -> 1..l] /\ \A i \in 1..m : f[i] = i + (l - gone - m) /\ f[i] \in 1..(l - gone)
    BY <1>1, <1>3, <1>6
  <2> HIDE DEF f
  <2>2. \A i \in 1..m : h.lines[i] = g.lines[f[i]]
    <3>1. Len(held) = l - gone
      BY <1>5
    <3>2. \A i \in 1..m : f[i] = i + (Len(held) - m)
      BY <1>1, <1>3, <1>6, <2>1, <3>1
    <3>3. \A i \in 1..m : held[f[i]] = g.lines[f[i]]
      BY <1>5, <2>1, Zenon
    <3>4. \A i \in 1..m : h.lines[i] = held[i + (Len(held) - m)]
      BY <1>2, <1>7, Zenon
    <3> QED BY <3>2, <3>3, <3>4, Zenon
  <2>3. \A i, j \in 1..m : i < j => f[i] < f[j]
    BY <1>1, <1>3, <1>6, <2>1
  <2>4. Len(h.lines) = m
    BY <1>2, <1>7
  <2> HIDE DEF l
  <2> QED BY <2>1, <2>2, <2>3, <2>4 DEF Within, l
<1>9. h.lines \in Seq(Rows(S)) /\ Len(h.lines) = h.back + height
  BY <1>2, <1>7 DEF m
<1>10. Grid(h, S) /\ Height(h) = height
  BY <1>1, <1>2, <1>4, <1>9, SMTT(30) DEF Grid, Height
<1> QED BY <1>2, <1>4, <1>8, <1>10 DEF h

(* A grid made higher descends from what it was, whether it took rows back from history or not. *)
LEMMA GrowIs ==
  ASSUME NEW S, Blank \in S, NEW g, Grid(g, S), NEW height \in Nat, height > Height(g),
         NEW restated \in BOOLEAN
  PROVE  LET h == Grow(g, height, restated)
         IN /\ Grid(h, S) /\ Height(h) = height /\ Descends(h, g) /\ (g.back = 0 => h.back = 0)
            /\ h.back <= g.back /\ \A i \in 1..g.back : h.lines[i] = g.lines[i]
<1> DEFINE h == Grow(g, height, restated)
           l == Len(g.lines)
           more == h.back + height - l
           from == Least(height - Height(g), g.back)
<1>1. /\ l \in Nat /\ g.back \in Nat /\ g.next \in Nat /\ Height(g) \in Nat
      /\ g.back + Height(g) = l /\ g.lines \in Seq(Rows(S))
  BY GridIs
<1>2. /\ h.lines = Extended(g, more) /\ h.back = (IF restated THEN g.back ELSE g.back - from)
      /\ h.next = g.next + more /\ h = [lines |-> h.lines, back |-> h.back, next |-> h.next]
  BY DEF Grow, Extended
<1>3. from \in Nat /\ from <= g.back /\ from <= height - Height(g)
  <2>1. height - Height(g) \in Nat
    BY <1>1
  <2> QED BY <1>1, <2>1, LeastIs
<1> HIDE DEF h, from
<1>4. h.back \in Nat /\ h.back <= g.back /\ more \in Nat
  <2>1. h.back \in Nat /\ h.back <= g.back
    <3> DEFINE b == h.back
    <3>1. b = g.back \/ b = g.back - from
      BY <1>2, Zenon
    <3> HIDE DEF b, l, more
    <3>2. b \in Nat /\ b <= g.back
      BY <1>1, <1>3, <3>1
    <3> QED BY <3>2 DEF b
  <2>2. h.back + height >= l
    BY <1>1, <1>2, <1>3
  <2> HIDE DEF l
  <2> QED BY <1>1, <2>1, <2>2
<1> HIDE DEF more
<1>5. /\ Extended(g, more) \in Seq(Rows(S)) /\ Len(Extended(g, more)) = l + more
      /\ \A i \in 1..l : Extended(g, more)[i] = g.lines[i]
  <2>1. more \in Nat
    BY <1>4
  <2> HIDE DEF l
  <2>2. /\ Extended(g, more) \in Seq(Rows(S)) /\ Len(Extended(g, more)) = Len(g.lines) + more
        /\ \A i \in 1..Len(g.lines) : Extended(g, more)[i] = g.lines[i]
    <3>1. Lengthens(Extended(g, more), g, more, S)
      BY <2>1, ExtendedLengthens
    <3> QED BY <3>1 DEF Lengthens
  <2> QED BY <2>2 DEF l
<1>6. Descends(h, g)
  BY <1>2, <1>4, <1>5, WithinItself DEF Descends
<1>7. h.lines \in Seq(Rows(S)) /\ Len(h.lines) = h.back + height
  <2>1. h.lines \in Seq(Rows(S)) /\ Len(h.lines) = l + more
    BY <1>2, <1>5
  <2>2. l + more = h.back + height
    <3> HIDE DEF l
    <3> QED BY <1>1, <1>4 DEF more
  <2> QED BY <2>1, <2>2
<1>8. h.next \in Nat
  BY <1>1, <1>2, <1>4
<1>9. Grid(h, S) /\ Height(h) = height
  BY <1>1, <1>2, <1>4, <1>7, <1>8 DEF Grid, Height
<1>10. \A i \in 1..g.back : h.lines[i] = g.lines[i]
  <2>1. \A i \in 1..g.back : i \in 1..l
    BY <1>1
  <2> QED BY <1>2, <1>5, <2>1, Zenon
<1> QED BY <1>1, <1>4, <1>6, <1>9, <1>10 DEF h

(* The history of a grid that lost rows is of rows it had. *)
LEMMA WithinFrom ==
  ASSUME NEW S, NEW g, Grid(g, S), NEW h, Grid(h, S), Within(h.lines, g.lines)
  PROVE  \A i \in 1..h.back : \E j \in 1..Len(g.lines) : h.lines[i] = g.lines[j]
<1>1. PICK f \in [1..Len(h.lines) -> 1..Len(g.lines)] :
        \A i \in 1..Len(h.lines) : h.lines[i] = g.lines[f[i]]
  BY DEF Within
<1>2. \A i \in 1..h.back : i \in 1..Len(h.lines)
  BY GridIs
<1> QED BY <1>1, <1>2

HistoryFrom(h, g) ==
  \A i \in 1..h.back : \E j \in 1..Len(g.lines) : h.lines[i] = g.lines[j]

(* resize: the height asked for, no row that was not there but new ones below, history of old rows. *)
LEMMA ResizedIs ==
  ASSUME NEW S, Blank \in S, NEW g, Grid(g, S), NEW height \in Nat \ {0},
         NEW below \in Nat, NEW limit \in Nat, NEW restated \in BOOLEAN
  PROVE  LET h == Resized(g, height, below, limit, restated)
         IN /\ Grid(h, S) /\ Height(h) = height /\ Descends(h, g)
            /\ (limit = 0 /\ g.back = 0 => h.back = 0)
            /\ (height <= Height(g) => h.next = g.next /\ Within(h.lines, g.lines))
            /\ HistoryFrom(h, g)
<1> DEFINE h == Resized(g, height, below, limit, restated)
<1>1. Height(g) \in Nat /\ g.lines \in Seq(Rows(S))
  BY GridIs
<1>2. CASE height < Height(g)
  <2>1. h = Shrink(g, height, below, limit)
    BY <1>2 DEF Resized
  <2> HIDE DEF h
  <2>2. /\ Grid(h, S) /\ Height(h) = height /\ h.next = g.next
        /\ Within(h.lines, g.lines) /\ (limit = 0 => h.back = 0)
    BY <1>2, <2>1, ShrinkIs
  <2>3. Descends(h, g)
    BY <2>2, WithinDescends
  <2>4. HistoryFrom(h, g)
    BY <2>2, WithinFrom DEF HistoryFrom
  <2> QED BY <2>2, <2>3, <2>4 DEF h
<1>3. CASE height > Height(g)
  <2>1. h = Grow(g, height, restated)
    BY <1>1, <1>3 DEF Resized
  <2> HIDE DEF h
  <2>2. /\ Grid(h, S) /\ Height(h) = height /\ Descends(h, g) /\ (g.back = 0 => h.back = 0)
        /\ h.back <= g.back /\ \A i \in 1..g.back : h.lines[i] = g.lines[i]
    BY <1>3, <2>1, GrowIs
  <2>3. \A i \in 1..h.back : i \in 1..g.back /\ i \in 1..Len(g.lines)
    BY <2>2, GridIs
  <2>4. HistoryFrom(h, g)
    BY <2>2, <2>3 DEF HistoryFrom
  <2> QED BY <1>1, <1>3, <2>2, <2>4 DEF h
<1>4. CASE height = Height(g)
  <2>1. h = g
    BY <1>1, <1>4 DEF Resized
  <2> HIDE DEF h
  <2>2. Within(h.lines, g.lines)
    BY <1>1, <2>1, WithinItself
  <2>3. Descends(h, g)
    BY <2>1, <2>2, WithinDescends
  <2>4. HistoryFrom(h, g)
    BY <2>1, <2>2, WithinFrom DEF HistoryFrom
  <2> QED BY <1>4, <2>1, <2>2, <2>3, <2>4 DEF h
<1> QED BY <1>1, <1>2, <1>3, <1>4

(* The viewport. *)
LEMMA ScreenIs ==
  ASSUME NEW S, NEW g, Grid(g, S)
  PROVE  /\ Screen(g) \in Seq(Rows(S)) /\ Len(Screen(g)) = Height(g)
         /\ \A i \in 1..Height(g) : Screen(g)[i] = g.lines[g.back + i]
         /\ Within(Screen(g), g.lines)
<1> DEFINE s == g.lines
           n == Height(g)
<1>1. /\ s \in Seq(Rows(S)) /\ Len(s) \in Nat /\ g.back \in Nat /\ n \in 0..Len(s)
      /\ g.back + n = Len(s)
  BY GridIs
<1>2. Screen(g) = KeepLast(s, n)
  <2>1. Len(s) - n + 1 = g.back + 1
    BY <1>1
  <2> HIDE DEF n
  <2> QED BY <2>1 DEF Screen, KeepLast
<1> HIDE DEF s, n
<1>3. /\ KeepLast(s, n) \in Seq(Rows(S)) /\ Len(KeepLast(s, n)) = n
      /\ \A i \in 1..n : KeepLast(s, n)[i] = s[i + (Len(s) - n)]
      /\ Within(KeepLast(s, n), s)
  BY <1>1, KeepLastIs
<1>4. \A i \in 1..n : i + (Len(s) - n) = g.back + i
  BY <1>1
<1> QED BY <1>2, <1>3, <1>4 DEF s, n

(* The rows shown have ids below the counter of a level grid. *)
LEMMA ScreenUnder ==
  ASSUME NEW S, NEW g, Grid(g, S), Level(g), NEW i \in 1..Height(g)
  PROVE  Screen(g)[i].id < g.next
<1>1. g.back + i \in 1..Len(g.lines) /\ Screen(g)[i] = g.lines[g.back + i]
  BY ScreenIs, GridIs
<1> QED BY <1>1 DEF Level, AllUnder

(* clear_scrollback: the screen stays and nothing is before it. *)
LEMMA WithoutHistoryIs ==
  ASSUME NEW S, NEW g, Grid(g, S)
  PROVE  LET h == WithoutHistory(g)
         IN /\ Grid(h, S) /\ Height(h) = Height(g) /\ h.back = 0 /\ h.next = g.next
            /\ Within(h.lines, g.lines)
            /\ \A i \in 1..Height(g) : h.lines[i] = g.lines[g.back + i]
<1> DEFINE h == WithoutHistory(g)
<1>1. h = [lines |-> Screen(g), back |-> 0, next |-> g.next]
  <2> DEFINE s == Screen(g)
  <2>1. h = [g EXCEPT !.lines = s, !.back = 0] /\ g \in [lines : Seq(Rows(S)), back : Nat, next : Nat]
    BY DEF WithoutHistory, Grid
  <2> HIDE DEF s, h
  <2>2. h = [lines |-> s, back |-> 0, next |-> g.next]
    BY <2>1
  <2> QED BY <2>2 DEF s
<1>2. h.lines = Screen(g) /\ h.back = 0 /\ h.next = g.next
  BY <1>1
<1> HIDE DEF h
<1>3. Height(g) \in Nat \ {0} /\ g.next \in Nat
  BY GridIs
<1>4. h.lines \in Seq(Rows(S)) /\ Len(h.lines) = Height(g)
  BY <1>2, ScreenIs
<1>5. Grid(h, S)
  BY <1>1, <1>2, <1>3, <1>4 DEF Grid
<1>6. Height(h) = Height(g)
  BY <1>2, <1>3, <1>4 DEF Height
<1> QED BY <1>2, <1>5, <1>6, ScreenIs DEF h

(* Rows picked from history, and the screen after them. *)
Joined(g, kept) ==
  [lines |-> Picked(g.lines, kept) \o Screen(g), back |-> Cardinality(kept), next |-> g.next]

(* A grid of history picked and the screen as it was. *)
LEMMA JoinedIs ==
  ASSUME NEW S, NEW g, Grid(g, S), NEW kept \in SUBSET (1..g.back)
  PROVE  LET h == Joined(g, kept)
         IN /\ Grid(h, S) /\ Height(h) = Height(g) /\ h.next = g.next
            /\ Within(h.lines, g.lines)
            /\ \A i \in 1..Height(g) : h.lines[h.back + i] = g.lines[g.back + i]
            /\ \A i \in 1..h.back : \E j \in kept : h.lines[i] = g.lines[j]
<1> DEFINE h == Joined(g, kept)
           p == Picked(g.lines, kept)
           c == Cardinality(kept)
           s == Screen(g)
           l == Len(g.lines)
           e == p \o s
           f == [i \in 1..(c + Height(g)) |-> IF i <= c THEN Nth(kept, i) ELSE g.back + (i - c)]
<1>1. /\ g.lines \in Seq(Rows(S)) /\ l \in Nat /\ g.back \in Nat /\ g.next \in Nat
      /\ g.back < l /\ Height(g) \in Nat \ {0} /\ g.back + Height(g) = l
  BY GridIs
<1>2. kept \in SUBSET (1..Len(g.lines)) /\ \A j \in kept : j \in 1..l /\ j <= g.back
  <2>1. \A j \in 1..g.back : j \in 1..l /\ j <= g.back
    BY <1>1
  <2> QED BY <2>1
<1>3. /\ p \in Seq(Rows(S)) /\ Len(p) = c /\ c \in Nat
      /\ \A n \in 1..c : Nth(kept, n) \in kept /\ p[n] = g.lines[Nth(kept, n)]
      /\ \A n, m \in 1..c : n < m => Nth(kept, n) < Nth(kept, m)
  BY <1>1, <1>2, PickedIs
<1>4. /\ s \in Seq(Rows(S)) /\ Len(s) = Height(g)
      /\ \A i \in 1..Height(g) : s[i] = g.lines[g.back + i]
  BY ScreenIs
<1> HIDE DEF p, c, s, h
<1>5. /\ e \in Seq(Rows(S)) /\ Len(e) = Len(p) + Len(s)
      /\ \A i \in 1..Len(p) : e[i] = p[i]
      /\ \A i \in 1..Len(s) : e[i + Len(p)] = s[i]
  <2>1. p \in Seq(Rows(S)) /\ s \in Seq(Rows(S))
    BY <1>3, <1>4
  <2> QED BY <2>1, ConcatIs
<1> HIDE DEF e
<1>6. h = [lines |-> e, back |-> c, next |-> g.next] /\ h.lines = e /\ h.back = c /\ h.next = g.next
  <2>1. h = [lines |-> e, back |-> c, next |-> g.next]
    BY DEF e, p, s, c, h, Joined
  <2> QED BY <2>1
<1>7. Len(e) = c + Height(g)
  BY <1>3, <1>4, <1>5
<1>8. Grid(h, S) /\ Height(h) = Height(g)
  <2>1. e \in Seq(Rows(S)) /\ c \in Nat /\ g.next \in Nat /\ c < Len(e) /\ Len(e) - c = Height(g)
    BY <1>1, <1>3, <1>5, <1>7
  <2>2. h = [lines |-> e, back |-> c, next |-> g.next]
    BY <1>6
  <2> QED BY <2>1, <2>2, GridOf
<1>9. \A i \in 1..c : e[i] = g.lines[Nth(kept, i)]
  BY <1>3, <1>5
<1>10. \A i \in 1..Height(g) : e[i + c] = g.lines[g.back + i]
  BY <1>3, <1>4, <1>5
<1>11. \A i \in 1..Height(g) : h.lines[h.back + i] = g.lines[g.back + i]
  <2>1. \A i \in 1..Height(g) : h.back + i = i + c
    BY <1>1, <1>3, <1>6
  <2> QED BY <1>6, <1>10, <2>1
<1>12. \A i \in 1..(c + Height(g)) :
         /\ f[i] \in 1..l /\ e[i] = g.lines[f[i]]
         /\ i <= c => f[i] = Nth(kept, i) /\ f[i] <= g.back
         /\ i > c => f[i] = g.back + (i - c)
  <2> SUFFICES ASSUME NEW i \in 1..(c + Height(g))
               PROVE  /\ f[i] \in 1..l /\ e[i] = g.lines[f[i]]
                      /\ i <= c => f[i] = Nth(kept, i) /\ f[i] <= g.back
                      /\ i > c => f[i] = g.back + (i - c)
    OBVIOUS
  <2>1. CASE i <= c
    <3>1. i \in 1..c /\ f[i] = Nth(kept, i)
      BY <1>1, <1>3, <2>1
    <3>2. Nth(kept, i) \in kept
      BY <1>3, <3>1
    <3>3. Nth(kept, i) \in 1..l /\ Nth(kept, i) <= g.back
      BY <1>2, <3>2, Zenon
    <3> QED BY <1>3, <1>9, <2>1, <3>1, <3>3
  <2>2. CASE i > c
    <3>1. i - c \in 1..Height(g) /\ (i - c) + c = i /\ f[i] = g.back + (i - c)
      <4>1. i - c \in 1..Height(g) /\ (i - c) + c = i /\ ~(i <= c)
        BY <1>1, <1>3, <2>2
      <4> QED BY <4>1
    <3>2. g.back + (i - c) \in 1..l
      BY <1>1, <3>1
    <3> QED BY <1>3, <1>10, <2>2, <3>1, <3>2
  <2> QED BY <1>1, <1>3, <2>1, <2>2
<1>13. \A i, j \in 1..(c + Height(g)) : i < j => f[i] < f[j]
  <2> SUFFICES ASSUME NEW i \in 1..(c + Height(g)), NEW j \in 1..(c + Height(g)), i < j
               PROVE  f[i] < f[j]
    OBVIOUS
  <2>1. CASE j <= c
    <3>1. i \in 1..c /\ j \in 1..c
      BY <1>1, <1>3, <2>1
    <3> QED BY <1>3, <1>12, <2>1, <3>1
  <2>2. CASE i > c
    BY <1>1, <1>3, <1>12, <2>2
  <2>3. CASE i <= c /\ j > c
    BY <1>1, <1>3, <1>12, <2>3
  <2> QED BY <1>1, <1>3, <2>1, <2>2, <2>3
<1>14. f \in [1..(c + Height(g)) -> 1..l]
  BY <1>12
<1> HIDE DEF f
<1>15. Within(h.lines, g.lines)
  BY <1>6, <1>7, <1>12, <1>13, <1>14 DEF Within, l
<1>16. \A i \in 1..h.back : \E j \in kept : h.lines[i] = g.lines[j]
  BY <1>3, <1>6, <1>9
<1> QED BY <1>6, <1>8, <1>11, <1>15, <1>16 DEF h

(* drop_scrollback_rows: what history still holds is not named, or came before a
   row older than all that is named. *)
LEMMA DropHistoryIs ==
  ASSUME NEW S, NEW g, Grid(g, S), NEW named
  PROVE  LET h == DropHistory(g, named)
         IN /\ Grid(h, S) /\ Height(h) = Height(g) /\ h.next = g.next
            /\ Within(h.lines, g.lines)
            /\ \A i \in 1..Height(g) : h.lines[h.back + i] = g.lines[g.back + i]
            /\ (g.back = 0 => h.back = 0)
            /\ \A i \in 1..h.back : \E j \in 1..g.back :
                 /\ h.lines[i] = g.lines[j]
                 /\ \/ g.lines[j].id \notin named
                    \/ \E k \in j..g.back : \A id \in named : g.lines[k].id < id
<1> DEFINE old(i) == \A id \in named : g.lines[i].id < id
           kept == {i \in 1..g.back : g.lines[i].id \notin named \/ \E j \in i..g.back : old(j)}
           h == DropHistory(g, named)
<1>1. kept \in SUBSET (1..g.back)
  OBVIOUS
<1>2. h = [g EXCEPT !.lines = Picked(g.lines, kept) \o Screen(g), !.back = Cardinality(kept)]
  BY DEF DropHistory
<1>3. \A j \in kept : \/ g.lines[j].id \notin named
                      \/ \E k \in j..g.back : \A id \in named : g.lines[k].id < id
  OBVIOUS
<1>4. g.back \in Nat
  BY GridIs
<1> HIDE DEF kept, h, old
<1>5. h = Joined(g, kept)
  BY <1>2 DEF Grid, Joined
<1>6. /\ Grid(h, S) /\ Height(h) = Height(g) /\ h.next = g.next
      /\ Within(h.lines, g.lines)
      /\ \A i \in 1..Height(g) : h.lines[h.back + i] = g.lines[g.back + i]
      /\ \A i \in 1..h.back : \E j \in kept : h.lines[i] = g.lines[j]
  <2> DEFINE u == Joined(g, kept)
  <2>1. /\ Grid(u, S) /\ Height(u) = Height(g) /\ u.next = g.next
        /\ Within(u.lines, g.lines)
        /\ \A i \in 1..Height(g) : u.lines[u.back + i] = g.lines[g.back + i]
        /\ \A i \in 1..u.back : \E j \in kept : u.lines[i] = g.lines[j]
    BY <1>1, JoinedIs
  <2> HIDE DEF u
  <2>2. h = u
    BY <1>5 DEF u
  <2> QED BY <2>1, <2>2
<1>7. g.back = 0 => h.back = 0
  <2> SUFFICES ASSUME g.back = 0, h.back # 0 PROVE FALSE
    OBVIOUS
  <2>1. h.back \in Nat
    BY <1>6, GridIs
  <2>2. 1 \in 1..h.back
    BY <2>1
  <2>3. \E j \in kept : TRUE
    BY <1>6, <2>2
  <2> QED BY <1>1, <2>3
<1> QED BY <1>1, <1>3, <1>6, <1>7 DEF h

(* push_history leaves the screen alone. *)
LEMMA PrependIs ==
  ASSUME NEW S, NEW g, Grid(g, S), NEW rows \in Seq(Rows(S)), NEW limit \in Nat
  PROVE  LET h == Prepend(g, rows, limit)
         IN /\ Grid(h, S) /\ Height(h) = Height(g) /\ h.next = g.next
            /\ (limit = 0 => h.back = g.back)
            /\ \A i \in 1..Height(g) : h.lines[h.back + i] = g.lines[g.back + i]
            /\ \A i \in 1..Len(h.lines) : \/ \E j \in 1..Len(rows) : h.lines[i] = rows[j]
                                          \/ \E j \in 1..Len(g.lines) : h.lines[i] = g.lines[j]
<1> DEFINE h == Prepend(g, rows, limit)
           room == IF g.back < limit THEN limit - g.back ELSE 0
           take == Least(Len(rows), room)
           p == KeepLast(rows, take)
           l == g.lines
           e == p \o l
<1>1. /\ l \in Seq(Rows(S)) /\ Len(l) \in Nat /\ g.back \in Nat /\ g.next \in Nat
      /\ g.back < Len(l) /\ Height(g) \in Nat \ {0} /\ g.back + Height(g) = Len(l)
      /\ g \in [lines : Seq(Rows(S)), back : Nat, next : Nat]
  BY GridIs DEF Grid
<1>2. Len(rows) \in Nat
  BY LenProperties
<1>3. room \in Nat /\ (limit = 0 => room = 0)
  BY <1>1
<1> HIDE DEF room
<1>4. take \in 0..Len(rows) /\ (limit = 0 => take = 0)
  BY <1>2, <1>3, LeastIs
<1>5. h = [g EXCEPT !.lines = e, !.back = @ + take]
  BY DEF Prepend, room
<1> HIDE DEF take, h
<1>6. p \in Seq(Rows(S)) /\ Len(p) = take /\ \A i \in 1..take : p[i] = rows[i + (Len(rows) - take)]
  BY <1>4, KeepLastIs
<1> HIDE DEF p, l
<1>7. /\ e \in Seq(Rows(S)) /\ Len(e) = Len(p) + Len(l)
      /\ \A i \in 1..Len(p) : e[i] = p[i]
      /\ \A i \in 1..Len(l) : e[i + Len(p)] = l[i]
  <2>1. p \in Seq(Rows(S)) /\ l \in Seq(Rows(S))
    BY <1>1, <1>6
  <2> QED BY <2>1, ConcatIs
<1> HIDE DEF e
<1>8. h = [lines |-> e, back |-> g.back + take, next |-> g.next]
  BY <1>1, <1>5
<1>9. /\ g.back + take \in Nat /\ g.back + take < Len(e) /\ Len(e) - (g.back + take) = Height(g)
  <2>1. Len(e) = take + Len(l) /\ take \in Nat
    BY <1>2, <1>4, <1>6, <1>7
  <2> QED BY <1>1, <2>1
<1>10. /\ Grid(h, S) /\ h.lines = e /\ h.back = g.back + take /\ h.next = g.next
       /\ Height(h) = Height(g)
  <2> DEFINE b == g.back + take
  <2>1. b \in Nat /\ b < Len(e) /\ Len(e) - b = Height(g) /\ h = [lines |-> e, back |-> b, next |-> g.next]
    BY <1>8, <1>9
  <2> HIDE DEF b
  <2>2. Grid(h, S) /\ h.lines = e /\ h.back = b /\ h.next = g.next /\ Height(h) = Len(e) - b
    <3>1. e \in Seq(Rows(S)) /\ g.next \in Nat
      BY <1>1, <1>7
    <3> QED BY <2>1, <3>1, GridOf
  <2> QED BY <2>1, <2>2 DEF b
<1>11. ASSUME NEW i \in 1..Height(g) PROVE h.lines[h.back + i] = l[g.back + i]
  <2>1. g.back + i \in 1..Len(l) /\ (g.back + i) + Len(p) = h.back + i
    BY <1>1, <1>4, <1>6, <1>10
  <2> QED BY <1>7, <1>10, <2>1
<1>12. ASSUME NEW i \in 1..Len(e)
       PROVE  (\E j \in 1..Len(rows) : e[i] = rows[j]) \/ (\E j \in 1..Len(l) : e[i] = l[j])
  <2>1. CASE i <= Len(p)
    <3>1. i \in 1..take /\ i \in 1..Len(p) /\ i + (Len(rows) - take) \in 1..Len(rows)
      BY <1>2, <1>4, <1>6, <2>1
    <3> QED BY <1>6, <1>7, <3>1
  <2>2. CASE i > Len(p)
    <3>1. i - Len(p) \in 1..Len(l) /\ (i - Len(p)) + Len(p) = i
      BY <1>1, <1>4, <1>6, <1>7, <2>2
    <3> QED BY <1>7, <3>1
  <2> QED BY <1>4, <1>6, <2>1, <2>2
<1>13. limit = 0 => h.back = g.back
  BY <1>1, <1>4, <1>10
<1> QED BY <1>10, <1>11, <1>12, <1>13 DEF h, l

(* A set of naturals has a least one, and a bounded set of numbers a greatest. *)
LEMMA LowestIs ==
  ASSUME NEW S, S \subseteq Nat, S # {}
  PROVE  \E x \in S : \A y \in S : x <= y
<1>1. PICK x \in S : \A y \in S : ~(<<y, x>> \in OpToRel(<, Nat))
  BY WFMin, NatLessThanWellFounded
<1>2. ASSUME NEW y \in S PROVE x <= y
  <2>1. ~(y < x)
    BY <1>1, <1>2 DEF OpToRel
  <2> QED BY <2>1, <1>2
<1> QED BY <1>2

(* A finite set of integers that is not empty has a greatest one. *)
LEMMA GreatestIs ==
  ASSUME NEW T \in SUBSET Int, NEW x \in T, NEW high \in Int, \A l \in T : l <= high
  PROVE  LET top == CHOOSE l \in T : \A m \in T : m <= l
         IN top \in T /\ \A m \in T : m <= top
<1> DEFINE D == {high - l : l \in T}
<1>1. D \subseteq Nat /\ D # {}
  OBVIOUS
<1> HIDE DEF D
<1>2. PICK d \in D : \A e \in D : d <= e
  BY <1>1, LowestIs
<1>3. PICK l \in T : d = high - l
  BY DEF D
<1>4. ASSUME NEW m \in T PROVE m <= l
  <2>1. high - m \in D
    BY DEF D
  <2>2. d <= high - m
    BY <1>2, <2>1
  <2> QED BY <1>3, <2>2
<1> QED BY <1>4

(* A set of numbers from 1 on without a hole. *)
LEMMA PrefixIs ==
  ASSUME NEW n \in Nat, NEW A \in SUBSET (1..n), \A i \in A : \A j \in 1..i : j \in A
  PROVE  Cardinality(A) \in 0..n /\ A = 1..Cardinality(A)
<1>1. PICK m \in 0..n : A = 1..m
  <2>1. CASE A = 1..n
    BY <2>1
  <2>2. CASE A # 1..n
    <3> DEFINE C == (1..n) \ A
    <3>1. C \subseteq Nat
      OBVIOUS
    <3>2. C # {}
      BY <2>2
    <3> HIDE DEF C
    <3>3. PICK k \in C : \A j \in C : k <= j
      BY <3>1, <3>2, LowestIs
    <3>4. k \in 1..n /\ k \notin A
      BY DEF C
    <3>5. \A j \in 1..(k - 1) : j \in A
      BY <3>3, <3>4 DEF C
    <3>6. ASSUME NEW j \in A PROVE j \in 1..(k - 1)
      <4>1. j \in 1..n /\ ~(k \in 1..j)
        BY <3>4
      <4> QED BY <3>4, <4>1
    <3>7. A \subseteq 1..(k - 1) /\ 1..(k - 1) \subseteq A
      BY <3>5, <3>6
    <3>8. A = 1..(k - 1)
      BY <3>7
    <3>9. k - 1 \in 0..n
      BY <3>4
    <3> QED BY <3>8, <3>9
  <2> QED BY <2>1, <2>2
<1>2. Cardinality(1..m) = m
  <2>1. Cardinality(1..m) = IF 1 > m THEN 0 ELSE m - 1 + 1
    BY FS_Interval
  <2> QED BY <2>1
<1> QED BY <1>1, <1>2

(* Rows that fit on the screen of a grid, and say what a grid may say. *)
Parcel(rows, g, S, ids, high) ==
  \A i \in DOMAIN rows : /\ i \in 1..Height(g) /\ rows[i].line \in Nat /\ rows[i].line < high
                         /\ Decoded(rows[i], ids) \in Rows(S)

(* Rows written at their places: the others stay, history too, and the counter passes each id (apply.rs,
   sync_next_line_id). *)
LEMMA WrittenIs ==
  ASSUME NEW S, NEW g, Grid(g, S), NEW ids, NEW rows, NEW high \in Nat,
         Parcel(rows, g, S, ids, high)
  PROVE  LET h == Written(g, rows, ids)
         IN /\ Grid(h, S) /\ Height(h) = Height(g) /\ h.back = g.back /\ h.next >= g.next
            /\ Len(h.lines) = Len(g.lines)
            /\ \A i \in 1..g.back : h.lines[i] = g.lines[i]
            /\ \A r \in 1..Height(g) :
                 /\ r \in DOMAIN rows => h.lines[g.back + r] = Decoded(rows[r], ids)
                 /\ r \notin DOMAIN rows => h.lines[g.back + r] = g.lines[g.back + r]
            /\ \A r \in DOMAIN rows : rows[r].line < h.next
            /\ (g.next <= high => h.next <= high)
<1> DEFINE h == Written(g, rows, ids)
           inside == {i \in DOMAIN rows : i <= Height(g)}
           l == [i \in DOMAIN g.lines |->
                  IF i - g.back \in inside THEN Decoded(rows[i - g.back], ids) ELSE g.lines[i]]
           T == {rows[i].line : i \in inside} \cup {-1}
           top == CHOOSE x \in T : \A m \in T : m <= x
           next == IF 1 + top > g.next THEN 1 + top ELSE g.next
<1>1. /\ g.lines \in Seq(Rows(S)) /\ Len(g.lines) \in Nat /\ g.back \in Nat /\ g.next \in Nat
      /\ DOMAIN g.lines = 1..Len(g.lines)
      /\ g.back < Len(g.lines) /\ Height(g) \in Nat \ {0} /\ g.back + Height(g) = Len(g.lines)
  BY GridIs
<1>2. /\ \A i \in DOMAIN rows : /\ i \in 1..Height(g) /\ rows[i].line \in Nat /\ rows[i].line < high
                                /\ Decoded(rows[i], ids) \in Rows(S)
      /\ \A i \in 1..Len(g.lines) : g.lines[i] \in Rows(S)
  BY GridIs DEF Parcel
<1>3. inside = DOMAIN rows
  <2>1. \A i \in 1..Height(g) : i <= Height(g)
    BY <1>1
  <2> QED BY <1>2, <2>1
<1>4. top \in T /\ \A m \in T : m <= top
  <2>1. T \in SUBSET Int /\ -1 \in T /\ \A x \in T : x <= high
    BY <1>2
  <2> HIDE DEF T
  <2> QED BY <2>1, GreatestIs, SMTT(30)
<1>5. \A r \in DOMAIN rows : rows[r].line \in T
  BY <1>3
<1>6. T \subseteq Int /\ \A x \in T : 1 + x \in Nat /\ 1 + x <= high
  BY <1>2
<1> HIDE DEF T, top
<1>7. /\ next \in Nat /\ next >= g.next /\ (g.next <= high => next <= high)
      /\ \A r \in DOMAIN rows : rows[r].line < next
  BY <1>1, <1>2, <1>4, <1>5, <1>6
<1>8. /\ l \in [1..Len(g.lines) -> Rows(S)]
      /\ \A i \in 1..Len(g.lines) :
           l[i] = IF i - g.back \in DOMAIN rows THEN Decoded(rows[i - g.back], ids) ELSE g.lines[i]
  <2> HIDE DEF inside
  <2>1. \A i \in 1..Len(g.lines) :
          l[i] = IF i - g.back \in DOMAIN rows THEN Decoded(rows[i - g.back], ids) ELSE g.lines[i]
    BY <1>1, <1>3
  <2>2. \A i \in 1..Len(g.lines) : l[i] \in Rows(S)
    BY <1>2, <2>1
  <2>3. l = [i \in 1..Len(g.lines) |-> l[i]]
    BY <1>1
  <2> HIDE DEF l
  <2> QED BY <2>1, <2>2, <2>3
<1>9. l \in Seq(Rows(S)) /\ Len(l) = Len(g.lines)
  <2> HIDE DEF l
  <2> QED BY <1>1, <1>8, FcnIsSeq
<1>10. h = [lines |-> l, back |-> g.back, next |-> next]
  <2>1. h = SyncNext([g EXCEPT !.lines = l], 1 + top)
    BY DEF Written, l, inside, top, T
  <2> HIDE DEF l, h
  <2>2. [g EXCEPT !.lines = l] = [lines |-> l, back |-> g.back, next |-> g.next]
    BY DEF Grid
  <2>3. h = [[lines |-> l, back |-> g.back, next |-> g.next] EXCEPT !.next = IF 1 + top > @ THEN 1 + top ELSE @]
    BY <2>1, <2>2 DEF SyncNext
  <2> QED BY <2>3
<1> HIDE DEF h, l, next
<1>11. /\ Grid(h, S) /\ h.lines = l /\ h.back = g.back /\ h.next = next
       /\ Height(h) = Len(l) - g.back
  <2>1. l \in Seq(Rows(S)) /\ g.back \in Nat /\ next \in Nat /\ g.back < Len(l)
    BY <1>1, <1>7, <1>9
  <2> QED BY <1>10, <2>1, GridOf
<1>12. \A i \in 1..g.back : h.lines[i] = g.lines[i]
  <2> SUFFICES ASSUME NEW i \in 1..g.back PROVE l[i] = g.lines[i]
    BY <1>11
  <2>1. i \in 1..Len(g.lines) /\ i - g.back \notin 1..Height(g)
    BY <1>1
  <2>2. i - g.back \notin DOMAIN rows
    BY <1>2, <2>1
  <2> QED BY <1>8, <2>1, <2>2
<1>13. ASSUME NEW r \in 1..Height(g)
       PROVE  /\ r \in DOMAIN rows => h.lines[g.back + r] = Decoded(rows[r], ids)
              /\ r \notin DOMAIN rows => h.lines[g.back + r] = g.lines[g.back + r]
  <2>1. g.back + r \in 1..Len(g.lines) /\ (g.back + r) - g.back = r
    BY <1>1
  <2> QED BY <1>8, <1>11, <2>1
<1>14. Height(h) = Height(g) /\ Len(h.lines) = Len(g.lines)
  BY <1>1, <1>9, <1>11
<1> QED BY <1>7, <1>11, <1>12, <1>13, <1>14 DEF h

(* A row of the grid written is one it had, or one of those written. *)
LEMMA WrittenFrom ==
  ASSUME NEW S, NEW g, Grid(g, S), NEW ids, NEW rows, NEW high \in Nat,
         Parcel(rows, g, S, ids, high), NEW h, h = Written(g, rows, ids)
  PROVE  /\ \A i \in 1..Len(h.lines) : \/ h.lines[i] = g.lines[i] /\ i \in 1..Len(g.lines)
                                       \/ \E r \in DOMAIN rows : h.lines[i] = Decoded(rows[r], ids)
         /\ Level(g) => Level(h)
         /\ \A low \in Nat : Low(g, low) /\ (\A r \in DOMAIN rows : rows[r].line >= low) => Low(h, low)
<1>1. /\ Grid(h, S) /\ Height(h) = Height(g) /\ h.back = g.back /\ h.next >= g.next
      /\ Len(h.lines) = Len(g.lines)
      /\ \A i \in 1..g.back : h.lines[i] = g.lines[i]
      /\ \A r \in 1..Height(g) :
           /\ r \in DOMAIN rows => h.lines[g.back + r] = Decoded(rows[r], ids)
           /\ r \notin DOMAIN rows => h.lines[g.back + r] = g.lines[g.back + r]
      /\ \A r \in DOMAIN rows : rows[r].line < h.next
  BY WrittenIs
<1>2. /\ Len(g.lines) \in Nat /\ g.back \in Nat /\ g.next \in Nat /\ h.next \in Nat
      /\ Height(g) \in Nat /\ g.back + Height(g) = Len(g.lines)
      /\ \A i \in 1..Len(g.lines) : g.lines[i].id \in Nat
  BY <1>1, GridIs
<1>3. \A p : Decoded(p, ids).id = p.line
  BY DEF Decoded, Row
<1>4. ASSUME NEW i \in 1..Len(g.lines)
      PROVE  \/ h.lines[i] = g.lines[i]
             \/ \E r \in DOMAIN rows : h.lines[i] = Decoded(rows[r], ids)
  <2>1. CASE i <= g.back
    BY <1>1, <1>2, <2>1
  <2>2. CASE i > g.back
    <3>1. i - g.back \in 1..Height(g) /\ g.back + (i - g.back) = i
      BY <1>2, <2>2
    <3> QED BY <1>1, <3>1
  <2> QED BY <1>2, <2>1, <2>2
<1>5. \A i \in 1..Len(h.lines) : \/ h.lines[i] = g.lines[i] /\ i \in 1..Len(g.lines)
                                 \/ \E r \in DOMAIN rows : h.lines[i] = Decoded(rows[r], ids)
  BY <1>1, <1>4
<1>6. Level(g) => Level(h)
  <2> SUFFICES ASSUME Level(g), NEW i \in 1..Len(g.lines) PROVE h.lines[i].id < h.next
    BY <1>1 DEF Level, AllUnder
  <2>1. g.lines[i].id < h.next
    BY <1>1, <1>2 DEF Level, AllUnder
  <2> QED BY <1>1, <1>3, <1>4, <2>1
<1>7. ASSUME NEW low \in Nat, Low(g, low), \A r \in DOMAIN rows : rows[r].line >= low
      PROVE  Low(h, low)
  <2>1. h.next >= low
    BY <1>1, <1>2, <1>7 DEF Low
  <2>2. \A i \in 1..Len(h.lines) : h.lines[i].id >= low
    <3> SUFFICES ASSUME NEW i \in 1..Len(g.lines) PROVE h.lines[i].id >= low
      BY <1>1
    <3>1. g.lines[i].id >= low
      BY <1>7 DEF Low, AllFrom
    <3>2. CASE h.lines[i] = g.lines[i]
      BY <3>1, <3>2
    <3>3. ASSUME NEW r \in DOMAIN rows, h.lines[i] = Decoded(rows[r], ids)
          PROVE  h.lines[i].id >= low
      BY <1>3, <1>7, <3>3
    <3> QED BY <1>4, <3>2, <3>3
  <2> QED BY <2>1, <2>2 DEF Low, AllFrom
<1> QED BY <1>5, <1>6, <1>7

(* The rows that a keyframe starts after: the first of the screen, each older than
   all it names and newer than what history ends with. *)
LEMMA DisplacedIs ==
  ASSUME NEW S, NEW g, Grid(g, S), NEW named
  PROVE  /\ Displaced(g, named) \in 0..Height(g)
         /\ \A i \in 1..Displaced(g, named) :
              /\ \A id \in named : g.lines[g.back + i].id < id
              /\ g.back > 0 => g.lines[g.back + i].id > g.lines[g.back].id
<1> DEFINE older(i) == /\ \A id \in named : g.lines[g.back + i].id < id
                       /\ g.back > 0 => g.lines[g.back + i].id > g.lines[g.back].id
           A == {n \in 1..Height(g) : \A i \in 1..n : older(i)}
<1>1. Height(g) \in Nat
  BY GridIs
<1>2. \A i \in A : \A j \in 1..i : j \in A
  <2> SUFFICES ASSUME NEW i \in A, NEW j \in 1..i PROVE j \in A
    OBVIOUS
  <2>1. j \in 1..Height(g) /\ \A k \in 1..j : k \in 1..i
    BY <1>1
  <2> QED BY <2>1
<1>3. \A i \in A : \A j \in 1..i : older(j)
  OBVIOUS
<1>4. Displaced(g, named) = Cardinality(A)
  BY DEF Displaced
<1> DEFINE n == Height(g)
<1>5. A \in SUBSET (1..n) /\ n \in Nat
  BY <1>1
<1> HIDE DEF A, n, older
<1>6. Cardinality(A) \in 0..n /\ A = 1..Cardinality(A)
  BY <1>2, <1>5, PrefixIs
<1>7. \A i \in 1..Cardinality(A) : older(i)
  <2> SUFFICES ASSUME NEW i \in 1..Cardinality(A) PROVE older(i)
    OBVIOUS
  <2>1. i \in A /\ i \in 1..i
    BY <1>5, <1>6
  <2> QED BY <1>3, <2>1
<1> QED BY <1>4, <1>6, <1>7 DEF n, older

-----------------------------------------------------------------------------
(* Terminals. *)
Main == Texts \cup {Blank}
All == Texts \cup AltTexts \cup {Blank}
Printed(t) == IF InAlt(t) THEN All ELSE Main

Term(t) ==
  /\ Grid(t[1], Main)
  /\ \/ t = <<t[1]>>
     \/ t = <<t[1], t[2]>> /\ Grid(t[2], All) /\ t[2].back = 0 /\ Height(t[2]) = Height(t[1])

(* A grid of some texts is a grid of more. *)
LEMMA GridWider ==
  ASSUME NEW S, NEW R, S \subseteq R, NEW g, Grid(g, S)
  PROVE  Grid(g, R)
<1>1. /\ g.lines \in Seq(Rows(S)) /\ g.back \in Nat /\ g.next \in Nat /\ g.back < Len(g.lines)
      /\ g = [lines |-> g.lines, back |-> g.back, next |-> g.next]
  BY DEF Grid
<1>2. Rows(S) \subseteq Rows(R)
  BY DEF Rows
<1> DEFINE s == g.lines
<1>3. s \in Seq(Rows(S))
  BY <1>1
<1> HIDE DEF s
<1>4. s \in Seq(Rows(R))
  BY <1>2, <1>3
<1>5. g = [lines |-> s, back |-> g.back, next |-> g.next] /\ g.back < Len(s)
  BY <1>1 DEF s
<1> QED BY <1>1, <1>4, <1>5, GridOf

(* A terminal of a main screen only. *)
LEMMA OneScreen ==
  ASSUME NEW a, Grid(a, Main)
  PROVE  /\ Term(<<a>>) /\ ~InAlt(<<a>>) /\ Active(<<a>>) = a /\ Len(<<a>>) = 1 /\ <<a>>[1] = a
         /\ DOMAIN <<a>> = {1}
BY DEF Term, InAlt, Active

(* A terminal that shows an alternate screen, as high as the main one and without history. *)
LEMMA TwoScreens ==
  ASSUME NEW a, Grid(a, Main), NEW b, Grid(b, All), b.back = 0, Height(b) = Height(a)
  PROVE  /\ Term(<<a, b>>) /\ InAlt(<<a, b>>) /\ Active(<<a, b>>) = b /\ Len(<<a, b>>) = 2
         /\ <<a, b>>[1] = a /\ <<a, b>>[2] = b /\ DOMAIN <<a, b>> = {1, 2}
<1>1. <<a, b>>[1] = a /\ <<a, b>>[2] = b /\ Len(<<a, b>>) = 2 /\ DOMAIN <<a, b>> = {1, 2}
  OBVIOUS
<1>2. Term(<<a, b>>)
  BY <1>1 DEF Term
<1> QED BY <1>1, <1>2 DEF InAlt, Active

(* The parts of a terminal, on either screen. *)
LEMMA TermIs ==
  ASSUME NEW t, Term(t)
  PROVE  /\ Grid(t[1], Main) /\ Grid(Active(t), Printed(t)) /\ Grid(Active(t), All)
         /\ Height(Active(t)) = Height(t[1]) /\ Height(t[1]) \in Nat \ {0}
         /\ InAlt(t) \in BOOLEAN /\ Len(t) \in {1, 2} /\ DOMAIN t = 1..Len(t)
         /\ ~InAlt(t) => t = <<t[1]>> /\ Active(t) = t[1] /\ Len(t) = 1 /\ Printed(t) = Main
         /\ InAlt(t) => /\ t = <<t[1], t[2]>> /\ Active(t) = t[2] /\ Len(t) = 2 /\ t[2].back = 0
                        /\ Printed(t) = All /\ Grid(t[2], All) /\ Height(t[2]) = Height(t[1])
<1> DEFINE a == t[1]
           b == t[2]
<1>1. Grid(a, Main) /\ Height(a) \in Nat \ {0} /\ Main \subseteq All
  BY GridIs DEF Term, Main, All
<1>2. Grid(a, All)
  BY <1>1, GridWider
<1>3. CASE t = <<a>>
  <2> HIDE DEF a
  <2>1. ~InAlt(<<a>>) /\ Active(<<a>>) = a /\ Len(<<a>>) = 1 /\ DOMAIN <<a>> = {1}
    BY <1>1, OneScreen
  <2>2. ~InAlt(t) /\ Active(t) = a /\ Len(t) = 1 /\ DOMAIN t = 1..1
    BY <1>3, <2>1
  <2>3. Printed(t) = Main /\ InAlt(t) \in BOOLEAN
    BY <2>2, Zenon DEF Printed, InAlt
  <2> QED BY <1>1, <1>2, <1>3, <2>2, <2>3 DEF a
<1>4. CASE t = <<a, b>> /\ Grid(b, All) /\ b.back = 0 /\ Height(b) = Height(a)
  <2> HIDE DEF a, b
  <2>1. InAlt(<<a, b>>) /\ Active(<<a, b>>) = b /\ Len(<<a, b>>) = 2 /\ DOMAIN <<a, b>> = {1, 2}
    BY <1>1, <1>4, TwoScreens
  <2>2. InAlt(t) /\ Active(t) = b /\ Len(t) = 2 /\ DOMAIN t = 1..2
    BY <1>4, <2>1
  <2>3. Printed(t) = All /\ InAlt(t) \in BOOLEAN
    BY <2>2, Zenon DEF Printed, InAlt
  <2>4. /\ Grid(a, Main) /\ Grid(Active(t), Printed(t)) /\ Grid(Active(t), All)
        /\ Height(Active(t)) = Height(a) /\ Height(a) \in Nat \ {0}
        /\ InAlt(t) \in BOOLEAN /\ Len(t) \in {1, 2} /\ DOMAIN t = 1..Len(t)
    BY <1>1, <1>4, <2>2, <2>3
  <2>5. /\ t = <<a, b>> /\ Active(t) = b /\ Len(t) = 2 /\ b.back = 0
        /\ Printed(t) = All /\ Grid(b, All) /\ Height(b) = Height(a)
    BY <1>4, <2>2, <2>3
  <2> QED BY <2>2, <2>4, <2>5, Zenon DEF a, b
<1> QED BY <1>3, <1>4 DEF Term

(* A terminal whose active screen is replaced by one as high is a terminal. *)
LEMMA WithActiveIs ==
  ASSUME NEW t, Term(t), NEW g, Grid(g, Printed(t)), Height(g) = Height(t[1]), InAlt(t) => g.back = 0
  PROVE  LET u == WithActive(t, g)
         IN /\ Term(u) /\ InAlt(u) = InAlt(t) /\ Active(u) = g /\ Height(u[1]) = Height(t[1])
            /\ (InAlt(t) => u[1] = t[1]) /\ (~InAlt(t) => u[1] = g)
<1> DEFINE a == t[1]
           b == t[2]
           u == WithActive(t, g)
<1>1. Grid(a, Main)
  BY TermIs
<1>2. CASE ~InAlt(t)
  <2>1. t = <<a>> /\ Len(t) = 1 /\ Grid(g, Main)
    BY <1>2, TermIs
  <2>2. u = [<<a>> EXCEPT ![1] = g]
    BY <2>1 DEF WithActive
  <2> HIDE DEF a, u
  <2>3. u = <<g>>
    BY <2>2
  <2>4. Term(<<g>>) /\ ~InAlt(<<g>>) /\ Active(<<g>>) = g /\ <<g>>[1] = g
    BY <2>1, OneScreen
  <2>5. Term(u) /\ ~InAlt(u) /\ Active(u) = g /\ u[1] = g
    BY <2>3, <2>4
  <2>6. InAlt(u) = InAlt(t)
    BY <1>2, <2>5, TermIs
  <2> QED BY <1>2, <2>5, <2>6 DEF u
<1>3. CASE InAlt(t)
  <2>1. t = <<a, b>> /\ Len(t) = 2 /\ Grid(g, All)
    BY <1>3, TermIs
  <2>2. u = [<<a, b>> EXCEPT ![2] = g]
    BY <2>1 DEF WithActive
  <2>3. Height(g) = Height(a) /\ g.back = 0
    BY <1>3
  <2> HIDE DEF a, b, u
  <2>4. u = <<a, g>>
    BY <2>2
  <2>5. Term(<<a, g>>) /\ InAlt(<<a, g>>) /\ Active(<<a, g>>) = g /\ <<a, g>>[1] = a
    BY <1>1, <2>1, <2>3, TwoScreens
  <2>6. Term(u) /\ InAlt(u) /\ Active(u) = g /\ u[1] = a
    BY <2>4, <2>5
  <2>7. InAlt(u) = InAlt(t)
    BY <1>3, <2>6, TermIs
  <2> QED BY <1>3, <2>6, <2>7 DEF u, a
<1>4. InAlt(t) \in BOOLEAN
  BY TermIs
<1> QED BY <1>2, <1>3, <1>4

(* A new grid: blank rows with the ids from 0 on. *)
LEMMA FreshIs ==
  ASSUME NEW height \in Nat \ {0}, NEW S, Blank \in S
  PROVE  LET g == Fresh(height)
         IN /\ Grid(g, S) /\ Height(g) = height /\ g.back = 0 /\ g.next = height
            /\ Level(g) /\ Ascending(g.lines)
            /\ \A i \in 1..height : g.lines[i] = Row(i - 1, Blank)
<1> DEFINE g == Fresh(height)
           l == [i \in 1..height |-> Row(i - 1, Blank)]
<1>1. g = [lines |-> l, back |-> 0, next |-> height]
  BY DEF Fresh
<1>2. l \in [1..height -> Rows(S)]
  <2>1. ASSUME NEW i \in 1..height PROVE Row(i - 1, Blank) \in Rows(S)
    <3>1. i - 1 \in Nat
      OBVIOUS
    <3> QED BY <3>1, RowType
  <2> QED BY <2>1
<1>3. \A i \in 1..height : l[i] = Row(i - 1, Blank) /\ l[i].id = i - 1
  BY DEF Row
<1> HIDE DEF l, g
<1>4. l \in Seq(Rows(S)) /\ Len(l) = height /\ DOMAIN l = 1..height
  BY <1>2, FcnIsSeq
<1>5. Grid(g, S) /\ g.lines = l /\ g.back = 0 /\ g.next = height /\ Height(g) = Len(l) - 0
  <2>1. 0 \in Nat /\ height \in Nat /\ 0 < Len(l) /\ l \in Seq(Rows(S))
    BY <1>4
  <2> QED BY <1>1, <2>1, GridOf
<1>6. Height(g) = height
  BY <1>4, <1>5
<1>7. Ascending(l)
  BY <1>3, <1>4 DEF Ascending
<1>8. Level(g)
  BY <1>3, <1>4, <1>5 DEF Level, AllUnder
<1> QED BY <1>3, <1>5, <1>6, <1>7, <1>8 DEF g

(* A switch of screens leaves the main one alone. *)
LEMMA SwitchedIs ==
  ASSUME NEW t, Term(t), NEW alt \in BOOLEAN
  PROVE  LET u == Switched(t, alt)
         IN Term(u) /\ InAlt(u) = alt /\ u[1] = t[1] /\ (alt = InAlt(t) => u = t)
<1> DEFINE a == t[1]
           u == Switched(t, alt)
<1>1. Grid(a, Main) /\ InAlt(t) \in BOOLEAN
  BY TermIs
<1>2. CASE alt = InAlt(t)
  <2>1. u = t
    BY <1>2 DEF Switched
  <2> QED BY <1>2, <2>1
<1>3. CASE alt /\ ~InAlt(t)
  <2> DEFINE b == Fresh(Height(t[1]))
  <2>1. t = <<a>> /\ Grid(b, All) /\ b.back = 0 /\ Height(b) = Height(a)
    BY <1>3, TermIs, FreshIs DEF All
  <2>2. u = Append(t, b)
    BY <1>3 DEF Switched
  <2> HIDE DEF a, b, u
  <2>3. u = <<a, b>>
    <3>1. u = Append(<<a>>, b)
      BY <2>1, <2>2
    <3>2. <<a>> \in Seq({a, b}) /\ b \in {a, b} /\ Len(<<a>>) = 1
      OBVIOUS
    <3>3. /\ Append(<<a>>, b) \in Seq({a, b}) /\ Len(Append(<<a>>, b)) = 2
          /\ Append(<<a>>, b)[1] = a /\ Append(<<a>>, b)[2] = b
      BY <3>2, AppendProperties
    <3> DEFINE v == Append(<<a>>, b)
    <3>4. v \in Seq({a, b}) /\ Len(v) = 2 /\ v[1] = a /\ v[2] = b
      BY <3>3
    <3> HIDE DEF v
    <3>5. v = <<a, b>>
      BY <3>4
    <3> QED BY <3>1, <3>5 DEF v
  <2>4. Term(<<a, b>>) /\ InAlt(<<a, b>>) /\ <<a, b>>[1] = a
    BY <1>1, <2>1, TwoScreens
  <2>5. Term(u) /\ InAlt(u) /\ u[1] = a
    BY <2>3, <2>4
  <2>6. InAlt(u) = alt
    BY <1>3, <2>5, TermIs
  <2> QED BY <1>1, <1>3, <2>5, <2>6 DEF u, a
<1>4. CASE ~alt /\ InAlt(t)
  <2>1. u = <<a>>
    BY <1>4 DEF Switched
  <2> HIDE DEF a, u
  <2>2. Term(<<a>>) /\ ~InAlt(<<a>>) /\ <<a>>[1] = a
    BY <1>1, OneScreen
  <2>3. Term(u) /\ ~InAlt(u) /\ u[1] = a
    BY <2>1, <2>2
  <2>4. InAlt(u) = alt
    BY <1>4, <2>3, TermIs
  <2> QED BY <1>1, <1>4, <2>3, <2>4 DEF u, a
<1> QED BY <1>1, <1>2, <1>3, <1>4

(* A terminal whose screens are all resized is a terminal of that height. *)
LEMMA AllResizedIs ==
  ASSUME NEW t, Term(t), NEW height \in Nat \ {0}, NEW below, \A i \in {1, 2} : below[i] \in Nat,
         NEW keep \in Nat, NEW restated \in BOOLEAN
  PROVE  LET u == AllResized(t, height, below, keep, restated)
         IN /\ Term(u) /\ InAlt(u) = InAlt(t) /\ Height(u[1]) = height
            /\ u[1] = Resized(t[1], height, below[1], keep, restated)
            /\ (InAlt(t) => u[2] = Resized(t[2], height, below[2], 0, restated))
<1> DEFINE a == t[1]
           b == t[2]
           u == AllResized(t, height, below, keep, restated)
           c == Resized(a, height, below[1], keep, restated)
           d == Resized(b, height, below[2], 0, restated)
<1>1. Grid(a, Main) /\ InAlt(t) \in BOOLEAN /\ Blank \in Main /\ Blank \in All
  BY TermIs DEF Main, All
<1>2. below[1] \in Nat /\ below[2] \in Nat /\ 0 \in Nat
  OBVIOUS
<1>3. Grid(c, Main) /\ Height(c) = height
  <2> DEFINE w == below[1]
  <2>1. w \in Nat
    BY <1>2
  <2> HIDE DEF a, w
  <2>2. Grid(Resized(a, height, w, keep, restated), Main) /\ Height(Resized(a, height, w, keep, restated)) = height
    BY <1>1, <2>1, ResizedIs, SMTT(30)
  <2> QED BY <2>2 DEF w
<1>4. CASE ~InAlt(t)
  <2>1. DOMAIN t = {1}
    BY <1>4, TermIs
  <2>2. u = [i \in {1} |-> c]
    BY <2>1 DEF AllResized
  <2> HIDE DEF c, u
  <2>3. u = <<c>>
    BY <2>2
  <2>4. Term(<<c>>) /\ ~InAlt(<<c>>) /\ <<c>>[1] = c
    BY <1>3, OneScreen
  <2>5. Term(u) /\ ~InAlt(u) /\ u[1] = c
    BY <2>3, <2>4
  <2>6. InAlt(u) = InAlt(t)
    BY <1>4, <2>5, TermIs
  <2> QED BY <1>3, <1>4, <2>5, <2>6 DEF u, c
<1>5. CASE InAlt(t)
  <2>1. DOMAIN t = {1, 2} /\ Grid(b, All) /\ b.back = 0
    BY <1>5, TermIs
  <2>2. Grid(d, All) /\ Height(d) = height /\ d.back = 0
    <3> DEFINE w == below[2]
               z == 0
    <3>1. w \in Nat /\ z \in Nat /\ z = 0
      BY <1>2
    <3>2. Grid(b, All) /\ b.back = 0
      BY <2>1
    <3> HIDE DEF b, w, z
    <3> DEFINE e == Resized(b, height, w, z, restated)
    <3>3. Blank \in All
      BY <1>1
    <3>4. Grid(e, All) /\ Height(e) = height
      BY <3>1, <3>2, <3>3, ResizedIs
    <3>5. z = 0 /\ b.back = 0 => e.back = 0
      BY <3>1, <3>2, <3>3, ResizedIs
    <3> HIDE DEF e
    <3>6. Grid(e, All) /\ Height(e) = height /\ e.back = 0
      BY <3>1, <3>2, <3>4, <3>5
    <3> QED BY <3>6 DEF e, w, z
  <2>3. u = [i \in {1, 2} |-> IF i = 1 THEN c ELSE d]
    BY <2>1 DEF AllResized
  <2> HIDE DEF c, d, u
  <2>4. u = <<c, d>>
    BY <2>3
  <2>5. Term(<<c, d>>) /\ InAlt(<<c, d>>) /\ <<c, d>>[1] = c /\ <<c, d>>[2] = d
    BY <1>3, <2>2, TwoScreens
  <2>6. Term(u) /\ InAlt(u) /\ u[1] = c /\ u[2] = d
    BY <2>4, <2>5
  <2>7. InAlt(u) = InAlt(t)
    BY <1>5, <2>6, TermIs
  <2> QED BY <1>3, <1>5, <2>6, <2>7 DEF u, c, d
<1> QED BY <1>1, <1>4, <1>5

(* A terminal whose main history is destroyed is a terminal, with the screens it had. *)
LEMMA ForgottenIs ==
  ASSUME NEW t, Term(t), NEW fresh \in BOOLEAN
  PROVE  LET u == Forgotten(t, fresh)
         IN /\ Term(u) /\ InAlt(u) = InAlt(t) /\ Height(u[1]) = Height(t[1])
            /\ u[1] = IF fresh THEN WithoutHistory(t[1]) ELSE t[1]
<1> DEFINE a == t[1]
           b == t[2]
           c == WithoutHistory(a)
           u == Forgotten(t, fresh)
<1>1. Grid(a, Main) /\ InAlt(t) \in BOOLEAN
  BY TermIs
<1>2. Grid(c, Main) /\ Height(c) = Height(a)
  <2> HIDE DEF a
  <2> QED BY <1>1, WithoutHistoryIs
<1>3. CASE ~fresh
  <2>1. u = t
    BY <1>3 DEF Forgotten
  <2> QED BY <1>3, <2>1
<1>4. CASE fresh /\ ~InAlt(t)
  <2>1. t = <<a>>
    BY <1>4, TermIs
  <2>2. u = [t EXCEPT ![1] = c]
    BY <1>4 DEF Forgotten
  <2> HIDE DEF a, c, u
  <2>3. u = <<c>>
    BY <2>1, <2>2
  <2>4. Term(<<c>>) /\ ~InAlt(<<c>>) /\ <<c>>[1] = c
    BY <1>2, OneScreen
  <2>5. Term(u) /\ ~InAlt(u) /\ u[1] = c
    BY <2>3, <2>4
  <2>6. InAlt(u) = InAlt(t)
    BY <1>4, <2>5, TermIs
  <2> QED BY <1>2, <1>4, <2>5, <2>6 DEF u, c, a
<1>5. CASE fresh /\ InAlt(t)
  <2>1. t = <<a, b>> /\ Grid(b, All) /\ b.back = 0 /\ Height(b) = Height(a)
    BY <1>5, TermIs
  <2>2. u = [t EXCEPT ![1] = c]
    BY <1>5 DEF Forgotten
  <2> HIDE DEF a, b, c, u
  <2>3. u = <<c, b>>
    BY <2>1, <2>2
  <2>4. Term(<<c, b>>) /\ InAlt(<<c, b>>) /\ <<c, b>>[1] = c
    BY <1>2, <2>1, TwoScreens
  <2>5. Term(u) /\ InAlt(u) /\ u[1] = c
    BY <2>3, <2>4
  <2>6. InAlt(u) = InAlt(t)
    BY <1>5, <2>5, TermIs
  <2> QED BY <1>2, <1>5, <2>5, <2>6 DEF u, c, a
<1> QED BY <1>1, <1>3, <1>4, <1>5

-----------------------------------------------------------------------------
(* Attribute tables. *)
AttrTable(attrs) ==
  /\ attrs = [t \in DOMAIN attrs |-> attrs[t]] /\ DOMAIN attrs \subseteq Texts \cup AltTexts
  /\ \A t \in DOMAIN attrs : attrs[t] \in 0..(Cardinality(DOMAIN attrs) - 1)
  /\ \A t, u \in DOMAIN attrs : attrs[t] = attrs[u] => t = u

(* The first place of a text that a row has. *)
LEMMA FirstPlace ==
  ASSUME NEW S, NEW rows \in Seq(Rows(S)), NEW i \in 1..Len(rows)
  PROVE  \E f \in 1..i : /\ rows[f].text = rows[i].text
                         /\ \A j \in 1..(f - 1) : rows[j].text # rows[i].text
<1> DEFINE C == {j \in 1..i : rows[j].text = rows[i].text}
<1>1. i \in Nat /\ i \in C /\ C \subseteq Nat
  BY LenProperties
<1>2. C # {}
  BY <1>1
<1>3. \A j \in C : j \in 1..i /\ rows[j].text = rows[i].text
  OBVIOUS
<1>4. \A j \in 1..i : j \notin C => rows[j].text # rows[i].text
  OBVIOUS
<1> HIDE DEF C
<1>5. PICK f \in C : \A j \in C : f <= j
  BY <1>1, <1>2, LowestIs
<1>6. f \in 1..i /\ rows[f].text = rows[i].text
  BY <1>3
<1>7. ASSUME NEW j \in 1..(f - 1) PROVE rows[j].text # rows[i].text
  <2>1. j \in 1..i /\ ~(f <= j)
    BY <1>1, <1>6
  <2> QED BY <1>4, <1>5, <2>1
<1> QED BY <1>6, <1>7

(* attr(): ids stay, a new rendition gets one nobody has, and there are enough. *)
LEMMA InternedIs ==
  ASSUME NEW attrs, AttrTable(attrs), NEW rows \in Seq(Rows(All))
  PROVE  LET a == Interned(attrs, rows)
         IN /\ AttrTable(a) /\ DOMAIN attrs \subseteq DOMAIN a
            /\ \A t \in DOMAIN attrs : a[t] = attrs[t]
            /\ \A i \in 1..Len(rows) : rows[i].text = Blank \/ rows[i].text \in DOMAIN a
            /\ \A t \in DOMAIN a : t \in DOMAIN attrs \/ \E i \in 1..Len(rows) : t = rows[i].text
<1> DEFINE a == Interned(attrs, rows)
           known == DOMAIN attrs \cup {Blank}
           firsts == {i \in DOMAIN rows : /\ rows[i].text \notin known
                                          /\ \A j \in 1..(i - 1) : rows[j].text # rows[i].text}
           rank(t) == Cardinality({i \in firsts : \A j \in 1..i : rows[j].text # t})
           N == {rows[i].text : i \in firsts}
           D == DOMAIN attrs
           c == Cardinality(D)
<1>1. /\ Len(rows) \in Nat /\ DOMAIN rows = 1..Len(rows)
      /\ \A i \in 1..Len(rows) : rows[i].text \in All
  BY SeqOfRows
<1>2. /\ firsts \in SUBSET Nat /\ firsts \subseteq 1..Len(rows) /\ IsFiniteSet(firsts)
      /\ Cardinality(firsts) \in Nat
  <2>1. IsFiniteSet(1..Len(rows)) /\ firsts \subseteq 1..Len(rows)
    BY <1>1, FS_Interval
  <2>2. IsFiniteSet(firsts)
    BY <2>1, FS_Subset
  <2>3. firsts \in SUBSET Nat
    BY <1>1, <2>1
  <2> QED BY <2>1, <2>2, <2>3, FS_CardinalityType
<1>3. \A i \in firsts : /\ i \in 1..Len(rows) /\ rows[i].text \notin D /\ rows[i].text # Blank
                        /\ rows[i].text \in Texts \cup AltTexts
                        /\ \A j \in 1..(i - 1) : rows[j].text # rows[i].text
  BY <1>1 DEF All
<1>4. \A i \in 1..Len(rows) :
        rows[i].text \notin known /\ (\A j \in 1..(i - 1) : rows[j].text # rows[i].text) => i \in firsts
  BY <1>1
<1>5. a = [t \in D \cup N |-> IF t \in D THEN attrs[t] ELSE (c + rank(t)) % AttrIds]
  BY DEF Interned
<1> HIDE DEF firsts, a
<1>6. ASSUME NEW f \in firsts PROVE rank(rows[f].text) = Cardinality(Before(firsts, f))
  <2>1. \A i \in firsts : i < f => \A j \in 1..i : rows[j].text # rows[f].text
    <3> SUFFICES ASSUME NEW i \in firsts, i < f, NEW j \in 1..i PROVE rows[j].text # rows[f].text
      OBVIOUS
    <3>1. j \in 1..(f - 1)
      BY <1>2
    <3> QED BY <1>3, <3>1
  <2>2. \A i \in firsts : ~(i < f) => f \in 1..i
    BY <1>2, <1>3
  <2>3. \A i \in firsts : (\A j \in 1..i : rows[j].text # rows[f].text) <=> i < f
    BY <2>1, <2>2
  <2>4. {i \in firsts : \A j \in 1..i : rows[j].text # rows[f].text} = {i \in firsts : i < f}
    BY <2>3
  <2> QED BY <2>4 DEF Before
<1>7. \A f \in firsts : rank(rows[f].text) \in 0..(Cardinality(firsts) - 1)
  BY <1>2, <1>6, BeforeIs
<1>8. \A f, g \in firsts : rank(rows[f].text) = rank(rows[g].text) => f = g
  <2> SUFFICES ASSUME NEW f \in firsts, NEW g \in firsts, f # g
               PROVE  rank(rows[f].text) # rank(rows[g].text)
    OBVIOUS
  <2>1. rank(rows[f].text) = Cardinality(Before(firsts, f)) /\ rank(rows[g].text) = Cardinality(Before(firsts, g))
    BY <1>6
  <2>2. Cardinality(Before(firsts, f)) # Cardinality(Before(firsts, g))
    BY <1>2, BeforeIs
  <2> QED BY <2>1, <2>2
<1> HIDE DEF rank
<1>9. \A f, g \in firsts : rows[f].text = rows[g].text => f = g
  BY <1>8
<1>10. IsFiniteSet(D) /\ c \in Nat /\ IsFiniteSet(N) /\ Cardinality(N) = Cardinality(firsts)
  <2>1. D \subseteq Texts \cup AltTexts /\ IsFiniteSet(Texts \cup AltTexts)
    BY CodecAssumption DEF AttrTable
  <2>2. IsFiniteSet(D) /\ c \in Nat
    BY <2>1, FS_Subset, FS_CardinalityType
  <2> DEFINE m == [f \in firsts |-> rows[f].text]
  <2>3. m \in Bijection(firsts, N)
    BY <1>9 DEF Bijection, Injection, Surjection, IsInjective
  <2>4. IsFiniteSet(N) /\ Cardinality(N) = Cardinality(firsts)
    <3>1. ExistsBijection(firsts, N)
      BY <2>3 DEF ExistsBijection
    <3> HIDE DEF N, m
    <3> QED BY <1>2, <3>1, FS_Bijection
  <2> QED BY <2>2, <2>4
<1>11. Cardinality(D \cup N) = c + Cardinality(firsts) /\ Cardinality(D \cup N) <= AttrIds
  <2>1. D \cap N = {} /\ D \cup N \subseteq Texts \cup AltTexts
    BY <1>3 DEF AttrTable
  <2>2. Cardinality(D \cup N) = Cardinality(D) + Cardinality(N)
    <3>1. Cardinality(D \cup N) = Cardinality(D) + Cardinality(N) - Cardinality(D \cap N)
      BY <1>10, FS_Union
    <3>2. Cardinality(D \cap N) = 0
      BY <2>1, FS_EmptySet
    <3> QED BY <1>2, <1>10, <3>1, <3>2
  <2>3. Cardinality(D \cup N) <= Cardinality(Texts \cup AltTexts)
    BY <2>1, CodecAssumption, FS_Subset
  <2>4. /\ Cardinality(Texts \cup AltTexts) \in Nat /\ AttrIds \in Nat
        /\ Cardinality(Texts \cup AltTexts) <= AttrIds
    BY CodecAssumption, FS_CardinalityType
  <2>5. Cardinality(D \cup N) \in Nat
    BY <1>2, <1>10, <2>2
  <2> QED BY <1>10, <2>2, <2>3, <2>4, <2>5
<1>12. \A f \in firsts : (c + rank(rows[f].text)) % AttrIds = c + rank(rows[f].text)
  <2> SUFFICES ASSUME NEW f \in firsts
               PROVE  (c + rank(rows[f].text)) % AttrIds = c + rank(rows[f].text)
    OBVIOUS
  <2> DEFINE x == c + rank(rows[f].text)
  <2>1. x \in 0..(AttrIds - 1) /\ AttrIds \in Nat \ {0}
    BY <1>2, <1>7, <1>10, <1>11, CodecAssumption
  <2> HIDE DEF x
  <2>2. x % AttrIds = x
    BY <2>1
  <2> QED BY <2>2 DEF x
<1>13. /\ DOMAIN a = D \cup N
       /\ \A t \in D : a[t] = attrs[t] /\ a[t] \in 0..(c - 1)
       /\ \A f \in firsts : a[rows[f].text] = c + rank(rows[f].text)
  <2>1. \A t \in D : a[t] = attrs[t] /\ a[t] \in 0..(c - 1)
    BY <1>5 DEF AttrTable
  <2>2. \A f \in firsts : rows[f].text \in N /\ rows[f].text \notin D
    BY <1>3
  <2> HIDE DEF D, N
  <2>3. \A f \in firsts : a[rows[f].text] = c + rank(rows[f].text)
    BY <1>5, <1>12, <2>2
  <2> QED BY <1>5, <2>1, <2>3
<1>14. /\ a = [t \in DOMAIN a |-> a[t]]
       /\ DOMAIN a \subseteq Texts \cup AltTexts
  <2>1. D \cup N \subseteq Texts \cup AltTexts
    BY <1>3 DEF AttrTable
  <2> HIDE DEF D, N
  <2> QED BY <1>5, <2>1
<1>15. \A t \in DOMAIN a : a[t] \in 0..(Cardinality(DOMAIN a) - 1)
  <2> DEFINE k == Cardinality(firsts)
  <2>1. Cardinality(DOMAIN a) = c + k /\ c \in Nat /\ k \in Nat
    BY <1>2, <1>10, <1>11, <1>13
  <2> HIDE DEF c, k
  <2> SUFFICES ASSUME NEW t \in DOMAIN a PROVE a[t] \in 0..(c + k - 1)
    BY <2>1
  <2>2. CASE t \in D
    <3>1. a[t] \in 0..(c - 1)
      BY <1>13, <2>2
    <3> QED BY <2>1, <3>1
  <2>3. CASE t \in N
    <3>1. PICK f \in firsts : t = rows[f].text
      BY <2>3
    <3>2. a[t] = c + rank(rows[f].text)
      BY <1>13, <3>1
    <3>3. rank(rows[f].text) \in 0..(k - 1)
      BY <1>7 DEF k
    <3> QED BY <2>1, <3>2, <3>3
  <2> QED BY <1>13, <2>2, <2>3
<1>16. \A t, u \in DOMAIN a : a[t] = a[u] => t = u
  <2> SUFFICES ASSUME NEW t \in DOMAIN a, NEW u \in DOMAIN a, a[t] = a[u] PROVE t = u
    OBVIOUS
  <2>1. CASE t \in D /\ u \in D
    BY <1>13, <2>1 DEF AttrTable
  <2>2. CASE t \in N /\ u \in N
    <3>1. PICK f \in firsts : t = rows[f].text
      BY <2>2
    <3>2. PICK g \in firsts : u = rows[g].text
      BY <2>2
    <3>3. rank(rows[f].text) \in Nat /\ rank(rows[g].text) \in Nat
      BY <1>2, <1>7
    <3>4. rank(rows[f].text) = rank(rows[g].text)
      BY <1>10, <1>13, <3>1, <3>2, <3>3, SMTT(30)
    <3> QED BY <1>8, <3>1, <3>2, <3>4
  <2>3. ASSUME NEW x \in D, NEW y \in N PROVE a[x] # a[y]
    <3>1. PICK f \in firsts : y = rows[f].text
      OBVIOUS
    <3>2. a[x] \in 0..(c - 1) /\ a[y] = c + rank(rows[f].text) /\ rank(rows[f].text) \in Nat
      BY <1>2, <1>7, <1>13, <3>1
    <3> QED BY <1>10, <3>2
  <2> QED BY <1>13, <2>1, <2>2, <2>3
<1>17. \A i \in 1..Len(rows) : rows[i].text = Blank \/ rows[i].text \in DOMAIN a
  <2> SUFFICES ASSUME NEW i \in 1..Len(rows), rows[i].text \notin known PROVE rows[i].text \in N
    BY <1>13
  <2>1. PICK f \in 1..i : /\ rows[f].text = rows[i].text
                          /\ \A j \in 1..(f - 1) : rows[j].text # rows[i].text
    BY FirstPlace
  <2>2. f \in 1..Len(rows)
    BY <1>1
  <2>3. f \in firsts
    BY <1>4, <2>1, <2>2
  <2> QED BY <2>1, <2>3
<1>18. \A t \in DOMAIN a : t \in DOMAIN attrs \/ \E i \in 1..Len(rows) : t = rows[i].text
  BY <1>3, <1>13
<1> QED BY <1>13, <1>14, <1>15, <1>16, <1>17, <1>18 DEF AttrTable, a

(* DefineAttr: an id that is defined says the text it is defined as, the others what they said. *)
LEMMA LearnIs ==
  ASSUME NEW attrs, AttrTable(attrs), NEW defs \in SUBSET Defs(attrs), NEW known
  PROVE  LET ids == Learn(known, defs)
         IN /\ DOMAIN ids = DOMAIN known \cup {d.id : d \in defs}
            /\ \A d \in defs : ids[d.id] = d.text
            /\ \A id \in DOMAIN known : (\A d \in defs : d.id # id) => ids[id] = known[id]
<1>1. \A d \in defs : \E t \in DOMAIN attrs : d.id = attrs[t] /\ d.text = t
  BY DEF Defs
<1>2. \A d, e \in defs : d.id = e.id => d.text = e.text
  BY <1>1 DEF AttrTable
<1> DEFINE ids == Learn(known, defs)
<1>3. /\ DOMAIN ids = DOMAIN known \cup {d.id : d \in defs}
      /\ \A id \in DOMAIN ids :
           ids[id] = IF \E d \in defs : d.id = id THEN (CHOOSE d \in defs : d.id = id).text ELSE known[id]
  BY DEF Learn
<1>4. ASSUME NEW d \in defs PROVE ids[d.id] = d.text
  <2> DEFINE e == CHOOSE x \in defs : x.id = d.id
  <2>1. e \in defs /\ e.id = d.id
    OBVIOUS
  <2>2. d.id \in DOMAIN ids
    BY <1>3
  <2> HIDE DEF ids
  <2>3. ids[d.id] = e.text
    BY <1>3, <2>2
  <2> HIDE DEF e
  <2> QED BY <1>2, <2>1, <2>3
<1>5. ASSUME NEW id \in DOMAIN known, \A d \in defs : d.id # id PROVE ids[id] = known[id]
  <2>1. id \in DOMAIN ids
    BY <1>3
  <2> HIDE DEF ids
  <2> QED BY <1>3, <1>5, <2>1
<1> QED BY <1>3, <1>4, <1>5

(* What an encoder has said of some rows. *)
Runs(attrs) == {NoRun} \cup {attrs[t] : t \in DOMAIN attrs}
Pays(attrs) == [line : Nat, run : Runs(attrs)]
Covers(attrs, rows) == \A i \in 1..Len(rows) : rows[i].text = Blank \/ rows[i].text \in DOMAIN attrs

(* What somebody who learnt makes of it: what it says, or, when a page of history
   gave an id away, what that page says. *)
Knows(attrs, ids) ==
  \A t \in DOMAIN attrs : attrs[t] \in DOMAIN ids /\ (ids[attrs[t]] = t \/ ids[attrs[t]] \in Texts)
KnowsWell(attrs, ids) == \A t \in DOMAIN attrs : attrs[t] \in DOMAIN ids /\ ids[attrs[t]] = t

(* A row that an encoder's table covers is decoded, by whoever knows the table, as a row; by whoever
   knows it well, as that row. *)
LEMMA PayloadIs ==
  ASSUME NEW attrs, AttrTable(attrs), NEW row \in Rows(All), row.text = Blank \/ row.text \in DOMAIN attrs
  PROVE  /\ Payload(attrs, row) \in Pays(attrs) /\ Payload(attrs, row).line = row.id
         /\ \A ids : KnowsWell(attrs, ids) => Decoded(Payload(attrs, row), ids) = row
         /\ \A ids : \A S : Knows(attrs, ids) /\ Main \subseteq S /\ row.text \in S =>
              Decoded(Payload(attrs, row), ids) \in Rows(S)
         /\ \A ids : Knows(attrs, ids) => Known(Payload(attrs, row), ids)
<1> DEFINE p == Payload(attrs, row)
           t == row.text
<1>1. row = [id |-> row.id, text |-> t] /\ row.id \in Nat
  BY DEF Rows
<1>2. \A u \in DOMAIN attrs : u \in Texts \cup AltTexts /\ attrs[u] \in Int /\ attrs[u] >= 0
  <2>1. IsFiniteSet(DOMAIN attrs)
    <3>1. DOMAIN attrs \in SUBSET (Texts \cup AltTexts)
      BY DEF AttrTable
    <3> QED BY <3>1, CodecAssumption, FS_Subset
  <2>2. Cardinality(DOMAIN attrs) \in Nat
    BY <2>1, FS_CardinalityType
  <2> DEFINE c == Cardinality(DOMAIN attrs)
  <2>3. c \in Nat /\ \A u \in DOMAIN attrs : u \in Texts \cup AltTexts /\ attrs[u] \in 0..(c - 1)
    BY <2>2 DEF AttrTable
  <2> HIDE DEF c
  <2> QED BY <2>3
<1>3. CASE t = Blank
  <2>1. p = [line |-> row.id, run |-> NoRun] /\ p.line = row.id /\ p.run = NoRun
    BY <1>3 DEF Payload
  <2>2. p \in Pays(attrs)
    BY <1>1, <2>1 DEF Pays, Runs
  <2> HIDE DEF p
  <2>3. ASSUME NEW ids PROVE Decoded(p, ids) = Row(row.id, Blank) /\ Known(p, ids)
    BY <2>1 DEF Decoded, Known
  <2>4. Row(row.id, Blank) = row
    BY <1>1, <1>3 DEF Row
  <2>5. \A S : Main \subseteq S => row \in Rows(S)
    BY <1>1, <1>3 DEF Rows, Main
  <2> QED BY <2>1, <2>2, <2>3, <2>4, <2>5 DEF p
<1>4. CASE t # Blank
  <2>1. t \in DOMAIN attrs
    BY <1>4
  <2>2. p = [line |-> row.id, run |-> attrs[t]] /\ p.line = row.id /\ p.run = attrs[t]
    BY <1>4 DEF Payload
  <2>3. p \in Pays(attrs)
    BY <1>1, <2>1, <2>2 DEF Pays, Runs
  <2>4. attrs[t] # NoRun
    BY <1>2, <2>1 DEF NoRun
  <2> HIDE DEF p
  <2>5. ASSUME NEW ids, attrs[t] \in DOMAIN ids
        PROVE  Decoded(p, ids) = Row(row.id, ids[attrs[t]]) /\ Known(p, ids)
    BY <2>2, <2>4, <2>5 DEF Decoded, Known
  <2>6. ASSUME NEW ids, KnowsWell(attrs, ids) PROVE Decoded(p, ids) = row
    <3>1. attrs[t] \in DOMAIN ids /\ ids[attrs[t]] = t
      BY <2>1, <2>6 DEF KnowsWell
    <3>2. Decoded(p, ids) = Row(row.id, t)
      BY <2>5, <3>1
    <3> QED BY <1>1, <3>2 DEF Row
  <2>7. ASSUME NEW ids, Knows(attrs, ids), NEW S, Main \subseteq S, t \in S
        PROVE  Decoded(p, ids) \in Rows(S)
    <3>1. attrs[t] \in DOMAIN ids /\ (ids[attrs[t]] = t \/ ids[attrs[t]] \in Texts)
      BY <2>1, <2>7 DEF Knows
    <3>2. ids[attrs[t]] \in S
      BY <2>7, <3>1 DEF Main
    <3> QED BY <1>1, <2>5, <3>1, <3>2, RowType
  <2>8. ASSUME NEW ids, Knows(attrs, ids) PROVE Known(p, ids)
    BY <2>1, <2>5, <2>8 DEF Knows
  <2> QED BY <2>2, <2>3, <2>6, <2>7, <2>8 DEF p
<1> QED BY <1>3, <1>4

(* The payloads of rows that a table covers. *)
LEMMA PayloadsIs ==
  ASSUME NEW attrs, AttrTable(attrs), NEW rows \in Seq(Rows(All)), Covers(attrs, rows)
  PROVE  /\ Payloads(attrs, rows) \in Seq(Pays(attrs)) /\ Len(Payloads(attrs, rows)) = Len(rows)
         /\ DOMAIN Payloads(attrs, rows) = 1..Len(rows)
         /\ \A i \in 1..Len(rows) : /\ Payloads(attrs, rows)[i] = Payload(attrs, rows[i])
                                    /\ Payloads(attrs, rows)[i].line = rows[i].id
<1> DEFINE p == Payloads(attrs, rows)
           n == Len(rows)
<1>1. n \in Nat /\ DOMAIN rows = 1..n /\ \A i \in 1..n : rows[i] \in Rows(All)
  BY SeqOfRows
<1>2. ASSUME NEW i \in 1..n
      PROVE  Payload(attrs, rows[i]) \in Pays(attrs) /\ Payload(attrs, rows[i]).line = rows[i].id
  <2>1. rows[i] \in Rows(All) /\ (rows[i].text = Blank \/ rows[i].text \in DOMAIN attrs)
    BY <1>1 DEF Covers
  <2> QED BY <2>1, PayloadIs
<1>3. p \in [1..n -> Pays(attrs)] /\ \A i \in 1..n : p[i] = Payload(attrs, rows[i])
  BY <1>1, <1>2 DEF Payloads
<1> HIDE DEF p
<1>4. p \in Seq(Pays(attrs)) /\ Len(p) = n
  <2> HIDE DEF n
  <2> QED BY <1>1, <1>3, FcnIsSeq
<1> QED BY <1>2, <1>3, <1>4 DEF p

Grows(a, b) == DOMAIN a \subseteq DOMAIN b /\ \A t \in DOMAIN a : b[t] = a[t]

(* keyframe() and delta(): the table grows, covers the screen, and the shadow is of the screen. *)
LEMMA EncodedIs ==
  ASSUME NEW e, AttrTable(e.attrs), NEW t, Term(t)
  PROVE  LET f == Encoded(e, t)
             rows == Screen(Active(t))
         IN /\ AttrTable(f.attrs) /\ Grows(e.attrs, f.attrs) /\ Covers(f.attrs, rows)
            /\ f.pending = e.pending \cup (Defs(f.attrs) \ Defs(e.attrs))
            /\ f.seen = Payloads(f.attrs, rows) /\ f.alt = InAlt(t)
            /\ f.seen \in Seq(Pays(f.attrs)) /\ Len(f.seen) = Height(t[1]) /\ DOMAIN f.seen = 1..Height(t[1])
            /\ rows \in Seq(Rows(Printed(t))) /\ Len(rows) = Height(t[1])
            /\ \A i \in 1..Height(t[1]) : /\ f.seen[i] = Payload(f.attrs, rows[i])
                                          /\ f.seen[i].line = rows[i].id
<1> DEFINE f == Encoded(e, t)
           rows == Screen(Active(t))
           a == Interned(e.attrs, rows)
<1>1. Grid(Active(t), Printed(t)) /\ Grid(Active(t), All) /\ Height(Active(t)) = Height(t[1])
  BY TermIs
<1>2. rows \in Seq(Rows(Printed(t))) /\ Len(rows) = Height(t[1]) /\ rows \in Seq(Rows(All))
  BY <1>1, ScreenIs
<1>3. /\ f.attrs = a /\ f.pending = e.pending \cup (Defs(a) \ Defs(e.attrs))
      /\ f.seen = Payloads(a, rows) /\ f.alt = InAlt(t)
  BY DEF Encoded
<1> HIDE DEF f, rows
<1>4. AttrTable(a) /\ Grows(e.attrs, a) /\ Covers(a, rows)
  BY <1>2, InternedIs DEF Grows, Covers
<1> HIDE DEF a
<1>5. /\ Payloads(a, rows) \in Seq(Pays(a)) /\ Len(Payloads(a, rows)) = Len(rows)
      /\ DOMAIN Payloads(a, rows) = 1..Len(rows)
      /\ \A i \in 1..Len(rows) : /\ Payloads(a, rows)[i] = Payload(a, rows[i])
                                 /\ Payloads(a, rows)[i].line = rows[i].id
  BY <1>2, <1>4, PayloadsIs
<1> QED BY <1>2, <1>3, <1>4, <1>5 DEF f, rows

-----------------------------------------------------------------------------
(* What a keyframe does to a replica's screen. *)
Past(g, named, j) ==
  \/ \A id \in named : g.lines[j].id < id
  \/ /\ j <= g.back
     /\ \/ g.lines[j].id \notin named
        \/ \E k \in j..g.back : \A id \in named : g.lines[k].id < id

FiledFrom(r, g, named) ==
  \A i \in 1..r.back : \E j \in 1..Len(g.lines) : r.lines[i] = g.lines[j] /\ Past(g, named, j)

(* The boundary of a keyframe: the screen keeps its height, and history is of rows not named, or
   older than all that is named. *)
LEMMA ReboundedIs ==
  ASSUME NEW S, Blank \in S, NEW g, Grid(g, S), NEW named \in SUBSET Nat, NEW keep \in Nat, NEW fresh \in BOOLEAN
  PROVE  LET r == Rebounded(g, named, keep, fresh)
         IN /\ Grid(r, S) /\ Height(r) = Height(g) /\ Descends(r, g)
            /\ (keep = 0 /\ g.back = 0 => r.back = 0)
            /\ FiledFrom(r, g, named)
<1> DEFINE r == Rebounded(g, named, keep, fresh)
           d == Displaced(g, named)
<1>1. /\ Len(g.lines) \in Nat /\ g.back \in Nat /\ Height(g) \in Nat \ {0}
      /\ g.back + Height(g) = Len(g.lines)
      /\ \A i \in 1..Len(g.lines) : g.lines[i].id \in Nat
  BY GridIs
<1>2. /\ d \in 0..Height(g)
      /\ \A i \in 1..d : /\ \A id \in named : g.lines[g.back + i].id < id
                         /\ g.back > 0 => g.lines[g.back + i].id > g.lines[g.back].id
  BY DisplacedIs
<1> HIDE DEF d
<1>3. CASE ~fresh /\ d > 0
  <2>1. r = ScrollUp(g, d, keep)
    BY <1>3 DEF Rebounded, Boundary, d
  <2> HIDE DEF r
  <2>2. /\ Grid(r, S) /\ Height(r) = Height(g) /\ Descends(r, g)
        /\ r.back = Least(g.back + d, keep)
        /\ \A i \in 1..r.back : \E j \in 1..(g.back + d) : j >= i /\ r.lines[i] = g.lines[j]
    <3> DEFINE u == ScrollUp(g, d, keep)
    <3>1. /\ Grid(u, S) /\ Height(u) = Height(g) /\ Descends(u, g)
          /\ u.back = Least(g.back + d, keep)
      BY <1>2, ScrollUpIs
    <3>2. \A i \in 1..u.back : \E j \in 1..(g.back + d) : j >= i /\ u.lines[i] = g.lines[j]
      BY <1>2, ScrollUpIs
    <3> HIDE DEF u
    <3>3. r = u
      BY <2>1 DEF u
    <3> QED BY <3>1, <3>2, <3>3
  <2>3. keep = 0 /\ g.back = 0 => r.back = 0
    <3> SUFFICES ASSUME keep = 0, g.back = 0 PROVE r.back = 0
      OBVIOUS
    <3>1. r.back = Least(g.back + d, 0) /\ g.back + d > 0
      BY <1>1, <1>2, <1>3, <2>2
    <3> QED BY <1>1, <1>2, <3>1 DEF Least
  <2>4. ASSUME NEW j \in 1..(g.back + d) PROVE j \in 1..Len(g.lines) /\ Past(g, named, j)
    <3>1. j \in 1..Len(g.lines)
      BY <1>1, <1>2
    <3>2. CASE j > g.back
      <4>1. j - g.back \in 1..d /\ g.back + (j - g.back) = j
        BY <1>1, <1>2, <3>2
      <4>2. \A id \in named : g.lines[j].id < id
        BY <1>2, <4>1
      <4> QED BY <3>1, <4>2 DEF Past
    <3>3. CASE j <= g.back
      <4>1. g.back > 0 /\ 1 \in 1..d /\ g.back \in j..g.back
        BY <1>1, <1>2, <1>3, <3>3
      <4>2. g.lines[g.back + 1].id > g.lines[g.back].id /\ \A id \in named : g.lines[g.back + 1].id < id
        BY <1>2, <4>1
      <4>3. g.back + 1 \in 1..Len(g.lines) /\ g.back \in 1..Len(g.lines)
        BY <1>1, <4>1
      <4>4. g.lines[g.back + 1].id \in Nat /\ g.lines[g.back].id \in Nat
        BY <1>1, <4>3
      <4> DEFINE x == g.lines[g.back + 1].id
                 y == g.lines[g.back].id
      <4>5. \A id \in named : x < id
        BY <4>2
      <4>6. y < x /\ x \in Nat /\ y \in Nat
        BY <4>2, <4>4
      <4> HIDE DEF x, y
      <4>7. \A id \in named : y < id
        <5> SUFFICES ASSUME NEW id \in named PROVE y < id
          OBVIOUS
        <5>1. id \in Nat /\ x < id
          BY <4>5
        <5> QED BY <4>6, <5>1
      <4>8. \A id \in named : g.lines[g.back].id < id
        BY <4>7 DEF y
      <4> QED BY <3>1, <3>3, <4>1, <4>8 DEF Past
    <3> QED BY <1>1, <3>1, <3>2, <3>3
  <2>5. FiledFrom(r, g, named)
    BY <2>2, <2>4 DEF FiledFrom
  <2> QED BY <2>2, <2>3, <2>5 DEF r
<1>4. CASE fresh \/ ~(d > 0)
  <2>1. r = DropHistory(g, named)
    BY <1>4 DEF Rebounded, Boundary, d
  <2> HIDE DEF r
  <2>2. /\ Grid(r, S) /\ Height(r) = Height(g) /\ r.next = g.next /\ Within(r.lines, g.lines)
        /\ (g.back = 0 => r.back = 0)
        /\ \A i \in 1..r.back : \E j \in 1..g.back :
             /\ r.lines[i] = g.lines[j]
             /\ \/ g.lines[j].id \notin named
                \/ \E k \in j..g.back : \A id \in named : g.lines[k].id < id
    BY <2>1, DropHistoryIs
  <2>3. Descends(r, g)
    BY <2>2, WithinDescends
  <2>4. FiledFrom(r, g, named)
    <3>1. \A j \in 1..g.back : j \in 1..Len(g.lines) /\ j <= g.back
      BY <1>1
    <3> QED BY <2>2, <3>1 DEF Past, FiledFrom
  <2> QED BY <2>2, <2>3, <2>4 DEF r
<1> QED BY <1>2, <1>3, <1>4

(* Payloads that say every row of a screen. *)
Restates(rows, ids, shown, g, named, keep, fresh, high, S) ==
  /\ Blank \in S /\ Grid(g, S) /\ named \in SUBSET Nat /\ keep \in Nat /\ fresh \in BOOLEAN
  /\ high \in Nat /\ shown \in Seq(Rows(S)) /\ Len(shown) = Height(g) /\ DOMAIN rows = 1..Height(g)
  /\ \A i \in 1..Height(g) : /\ Decoded(rows[i], ids) = shown[i] /\ rows[i].line \in Nat
                              /\ rows[i].line < high

(* A keyframe's rows written on a screen of their number: it shows those rows. *)
LEMMA RestatedIs ==
  ASSUME NEW S, NEW g, NEW named, NEW keep, NEW fresh, NEW ids, NEW rows, NEW high, NEW shown,
         Restates(rows, ids, shown, g, named, keep, fresh, high, S)
  PROVE  LET r == Rebounded(g, named, keep, fresh)
             h == Written(r, rows, ids)
         IN /\ Grid(h, S) /\ Height(h) = Height(g)
            /\ (keep = 0 /\ g.back = 0 => h.back = 0)
            /\ \A i \in 1..Height(g) : h.lines[h.back + i] = shown[i]
            /\ Parcel(rows, r, S, ids, high)
<1> DEFINE r == Rebounded(g, named, keep, fresh)
           h == Written(r, rows, ids)
<1>1. /\ Grid(r, S) /\ Height(r) = Height(g)
      /\ (keep = 0 /\ g.back = 0 => r.back = 0)
  BY ReboundedIs DEF Restates
<1> HIDE DEF r
<1>2. Parcel(rows, r, S, ids, high)
  <2>1. \A i \in 1..Height(g) : shown[i] \in Rows(S)
    BY SeqOfRows DEF Restates
  <2> QED BY <1>1, <2>1 DEF Parcel, Restates
<1>3. /\ Grid(h, S) /\ Height(h) = Height(r) /\ h.back = r.back
      /\ \A i \in 1..Height(r) : i \in DOMAIN rows => h.lines[r.back + i] = Decoded(rows[i], ids)
  BY <1>1, <1>2, WrittenIs DEF Restates
<1> HIDE DEF h
<1>4. \A i \in 1..Height(g) : h.lines[h.back + i] = shown[i]
  BY <1>1, <1>3 DEF Restates
<1> QED BY <1>1, <1>2, <1>3, <1>4 DEF h, r

-----------------------------------------------------------------------------
(* The inductive invariant of the types.  An encoder's table is injective and has
   the texts of what it has sent; its shadow is of the host's height, unless a
   keyframe is owed; a replica that has not asked for a keyframe is on the screen
   and of the height of the shadow and knows its ids; it asks only when it is
   behind. *)
EncoderOk(e) ==
  /\ AttrTable(e.attrs) /\ e.pending = {} /\ e.seen \in Seq(Pays(e.attrs)) /\ e.alt \in BOOLEAN

(* A terminal whose counters are past its ids. *)
Sound(t) == Term(t) /\ Level(t[1]) /\ Level(Active(t))

Following ==
  ~asked => /\ Len(enc.seen) = Height(view[1]) /\ enc.alt = InAlt(view)
            /\ Knows(enc.attrs, table)
            /\ "restyled" \notin marks => KnowsWell(enc.attrs, table)

Counters ==
  /\ plan \in Plans /\ deeds \in Nat /\ clears \in 0..deeds /\ cleared \in 0..clears
  /\ marks \subseteq AllMarks
  /\ moved \in BOOLEAN /\ owed \in BOOLEAN /\ event \in BOOLEAN
  /\ behind \in BOOLEAN /\ asked \in BOOLEAN

TypeInv ==
  /\ Counters /\ Sound(host) /\ Term(view) /\ EncoderOk(enc)
  /\ owed \/ Len(enc.seen) = Height(host[1])
  /\ asked => behind
  /\ Following

(* Where a cursor may stand is a natural number. *)
LEMMA BelowIs ==
  ASSUME plan \in Plans, NEW below \in Belows
  PROVE  \A i \in {1, 2} : below[i] \in Nat
<1>1. plan.heights \subseteq Nat \ {0}
  BY CodecAssumption
<1>2. {0} \cup {h - 1 : h \in plan.heights} \subseteq Nat
  BY <1>1
<1> QED BY <1>2 DEF Belows

(* The main screen a keyframe starts from. *)
Base(low) ==
  LET g == Resized(view[1], Height(host[1]), low, Keep, TRUE)
  IN IF clears > cleared THEN WithoutHistory(g) ELSE g
Rebased(low) == Rebounded(Base(low), Ids(Screen(host[1])), Keep, clears > cleared)

(* What a keyframe does: the replica is on the host's screen, of its height, knows the table well and
   shows what the host shows; the main screen beneath an alternate one is resized and no more. *)
LEMMA KeyframeIs ==
  ASSUME Counters, Sound(host), Term(view), NEW e, AttrTable(e.attrs), e.pending = {},
         NEW below \in Belows, SendKeyframe(e, below)
  PROVE  /\ EncoderOk(enc') /\ enc'.alt = InAlt(host)
         /\ enc'.seen = Payloads(enc'.attrs, Screen(Active(host)))
         /\ Covers(enc'.attrs, Screen(Active(host)))
         /\ Len(enc'.seen) = Height(host[1]) /\ KnowsWell(enc'.attrs, table')
         /\ Term(view') /\ InAlt(view') = InAlt(host) /\ Height(view'[1]) = Height(host[1])
         /\ \A i \in 1..Height(host[1]) : Screen(Active(view'))[i] = Screen(Active(host))[i]
         /\ InAlt(host) => /\ view'[1] = Resized(view[1], Height(host[1]), below[1], Keep, TRUE)
                           /\ cleared' = cleared
         /\ ~InAlt(host) => /\ Grid(Base(below[1]), Main) /\ Height(Base(below[1])) = Height(host[1])
                            /\ view'[1] = Written(Rebased(below[1]), enc'.seen, table')
                            /\ Parcel(enc'.seen, Rebased(below[1]), Main, table', host[1].next)
                            /\ cleared' = clears
         /\ marks' = (marks \ {"crossed", "restyled"})
              \cup (IF InAlt(host) /\ Height(host[1]) > Height(view[1]) THEN {"padded"} ELSE {})
         /\ ~moved' /\ ~owed' /\ ~behind' /\ ~asked'
         /\ UNCHANGED <<plan, deeds, host, clears, floor, event>>
<1> DEFINE f == Encoded(e, host)
           k == Keyframe(f, host)
           alt == InAlt(host)
           H == Height(host[1])
           rows == Screen(Active(host))
           fresh == k.clears > cleared
           sized == AllResized(view, H, below, Keep, TRUE)
           shown == Forgotten(Switched(sized, alt), fresh)
           g == Active(shown)
           named == {k.rows[i].line : i \in DOMAIN k.rows}
           keep == Room(shown, Keep)
           ready == Rebounded(g, named, keep, fresh)
           ids == Learn(table, Defs(f.attrs))
           h == Written(ready, f.seen, ids)
           S == Printed(host)
           high == Active(host).next
<1>1. /\ Term(host) /\ alt \in BOOLEAN /\ H \in Nat \ {0} /\ clears \in Nat /\ cleared \in Nat
      /\ cleared <= clears /\ Keep \in Nat /\ 1 \in {1, 2} /\ 0 \in Nat /\ TRUE \in BOOLEAN
      /\ \A i \in {1, 2} : below[i] \in Nat
      /\ high \in Nat /\ Level(Active(host)) /\ Grid(Active(host), S) /\ Height(Active(host)) = H
      /\ Main \subseteq S /\ Blank \in S /\ Blank \in Main
  <2>1. deeds \in Nat /\ clears \in 0..deeds /\ cleared \in 0..clears /\ plan \in Plans
    BY DEF Counters
  <2>2. Term(host) /\ Level(Active(host))
    BY DEF Sound
  <2>3. /\ alt \in BOOLEAN /\ H \in Nat \ {0} /\ Grid(Active(host), S) /\ Height(Active(host)) = H
        /\ S \in {Main, All}
    BY <2>2, TermIs DEF Printed
  <2>4. Active(host).next \in Nat
    BY <2>3, GridIs
  <2>5. \A i \in {1, 2} : below[i] \in Nat
    BY <2>1, BelowIs
  <2>6. Main \subseteq S /\ Blank \in S /\ Blank \in Main
    BY <2>3 DEF Main, All
  <2> QED BY <2>1, <2>2, <2>3, <2>4, <2>5, <2>6, CodecAssumption
<1>2. /\ AttrTable(f.attrs) /\ Grows(e.attrs, f.attrs) /\ Covers(f.attrs, rows)
      /\ f.seen = Payloads(f.attrs, rows) /\ f.alt = alt
      /\ f.seen \in Seq(Pays(f.attrs)) /\ Len(f.seen) = H /\ DOMAIN f.seen = 1..H
      /\ rows \in Seq(Rows(S)) /\ Len(rows) = H
      /\ \A i \in 1..H : f.seen[i] = Payload(f.attrs, rows[i]) /\ f.seen[i].line = rows[i].id
  BY <1>1, EncodedIs
<1>3. /\ k.rows = f.seen /\ k.attrs = Defs(f.attrs) /\ k.alt = alt
      /\ k.clears = IF alt THEN 0 ELSE clears
  BY <1>2 DEF Keyframe
<1>4. /\ enc' = Drained(f) /\ table' = ids
      /\ view' = WithActive(shown, h) /\ cleared' = (IF fresh THEN k.clears ELSE cleared)
      /\ marks' = (marks \ {"crossed", "restyled"})
           \cup (IF alt /\ H > Height(view[1]) THEN {"padded"} ELSE {})
      /\ ~moved' /\ ~owed' /\ ~behind' /\ ~asked'
      /\ UNCHANGED <<plan, deeds, host, clears, floor, event>>
  BY <1>2, <1>3 DEF SendKeyframe, ApplyKeyframe, hostVars
<1>5. fresh = (~alt /\ clears > cleared) /\ fresh \in BOOLEAN
  BY <1>1, <1>3
<1>6. /\ Term(sized) /\ InAlt(sized) = InAlt(view) /\ Height(sized[1]) = H
      /\ sized[1] = Resized(view[1], H, below[1], Keep, TRUE)
  <2> DEFINE yes == TRUE
             c == below[1]
             v == view
             u == AllResized(v, H, below, Keep, yes)
  <2>1. yes \in BOOLEAN /\ H \in Nat \ {0} /\ Keep \in Nat /\ Term(v) /\ \A i \in {1, 2} : below[i] \in Nat
    BY <1>1
  <2> HIDE DEF H, yes, v
  <2>2. Term(u) /\ InAlt(u) = InAlt(v) /\ Height(u[1]) = H
    BY <2>1, AllResizedIs
  <2>3. u[1] = Resized(v[1], H, below[1], Keep, yes)
    BY <2>1, AllResizedIs
  <2> HIDE DEF u
  <2>4. sized = u
    BY DEF u, yes, v
  <2> HIDE DEF sized
  <2> QED BY <2>2, <2>3, <2>4 DEF yes, v
<1> HIDE DEF sized, fresh, f, k, ids, H, alt
<1>7. /\ Term(shown) /\ InAlt(shown) = alt /\ Height(shown[1]) = H
      /\ shown[1] = IF fresh THEN WithoutHistory(sized[1]) ELSE sized[1]
  <2> DEFINE u == Switched(sized, alt)
  <2>1. Term(u) /\ InAlt(u) = alt /\ u[1] = sized[1]
    BY <1>1, <1>6, SwitchedIs
  <2> HIDE DEF u
  <2> DEFINE v == Forgotten(u, fresh)
  <2>2. /\ Term(v) /\ InAlt(v) = InAlt(u) /\ Height(v[1]) = Height(u[1])
        /\ v[1] = IF fresh THEN WithoutHistory(u[1]) ELSE u[1]
    BY <1>5, <2>1, ForgottenIs
  <2>3. shown = v
    BY DEF u
  <2> HIDE DEF v, shown
  <2> QED BY <1>6, <2>1, <2>2, <2>3
<1> HIDE DEF shown
<1>8. /\ Grid(g, S) /\ Height(g) = H /\ (alt => g.back = 0) /\ (~alt => g = shown[1])
      /\ keep \in Nat /\ (alt => keep = 0) /\ (~alt => keep = Keep) /\ Printed(shown) = S
  <2>1. Printed(shown) = S
    BY <1>7 DEF Printed, alt
  <2>2. /\ Grid(g, Printed(shown)) /\ Height(g) = H
        /\ (alt => g.back = 0) /\ (~alt => g = shown[1])
    BY <1>7, TermIs
  <2>3. keep = IF alt THEN 0 ELSE Keep
    BY <1>7 DEF Room
  <2> QED BY <1>1, <2>1, <2>2, <2>3
<1>9. KnowsWell(f.attrs, ids)
  <2>1. /\ DOMAIN ids = DOMAIN table \cup {d.id : d \in Defs(f.attrs)}
        /\ \A d \in Defs(f.attrs) : ids[d.id] = d.text
    <3> DEFINE attrs == f.attrs
               defs == Defs(attrs)
               u == Learn(table, defs)
    <3>1. AttrTable(attrs) /\ defs \in SUBSET Defs(attrs)
      BY <1>2
    <3> HIDE DEF attrs, defs
    <3>2. DOMAIN u = DOMAIN table \cup {d.id : d \in defs}
      BY <3>1, LearnIs
    <3>3. \A d \in defs : u[d.id] = d.text
      BY <3>1, LearnIs
    <3> HIDE DEF u
    <3>4. ids = u
      BY DEF u, ids, defs, attrs
    <3> QED BY <3>2, <3>3, <3>4 DEF defs, attrs
  <2>2. ASSUME NEW t \in DOMAIN f.attrs PROVE f.attrs[t] \in DOMAIN ids /\ ids[f.attrs[t]] = t
    <3> DEFINE d == [id |-> f.attrs[t], text |-> t]
    <3>1. d \in Defs(f.attrs) /\ d.id = f.attrs[t] /\ d.text = t
      BY DEF Defs
    <3> HIDE DEF d
    <3> QED BY <2>1, <3>1
  <2> QED BY <2>2 DEF KnowsWell
<1>10. \A i \in 1..H : /\ Decoded(f.seen[i], ids) = rows[i] /\ f.seen[i].line \in Nat
                       /\ f.seen[i].line < high
  <2> SUFFICES ASSUME NEW i \in 1..H
               PROVE  /\ Decoded(f.seen[i], ids) = rows[i] /\ f.seen[i].line \in Nat
                      /\ f.seen[i].line < high
    OBVIOUS
  <2>1. rows[i] \in Rows(S) /\ rows[i] \in Rows(All) /\ rows[i].id \in Nat
    <3>1. Rows(S) \subseteq Rows(All)
      BY DEF Rows, Printed, Main, All
    <3> QED BY <1>2, <3>1, SeqOfRows
  <2>2. rows[i].text = Blank \/ rows[i].text \in DOMAIN f.attrs
    BY <1>2 DEF Covers
  <2>3. Decoded(f.seen[i], ids) = rows[i]
    BY <1>2, <1>9, <2>1, <2>2, PayloadIs
  <2>4. rows[i].id < high
    BY <1>1, ScreenUnder
  <2> QED BY <1>2, <2>1, <2>3, <2>4
<1>11. named \in SUBSET Nat
  BY <1>2, <1>3, <1>10
<1>12. /\ Grid(h, S) /\ Height(h) = H
       /\ (keep = 0 /\ g.back = 0 => h.back = 0)
       /\ \A i \in 1..H : h.lines[h.back + i] = rows[i]
       /\ Parcel(f.seen, ready, S, ids, high)
  <2> DEFINE seen == f.seen
             u == Written(Rebounded(g, named, keep, fresh), seen, ids)
  <2>1. Restates(seen, ids, rows, g, named, keep, fresh, high, S)
    BY <1>1, <1>2, <1>5, <1>8, <1>10, <1>11 DEF Restates
  <2> HIDE DEF g, named, keep, rows, S, high, seen
  <2>2. Grid(u, S) /\ Height(u) = Height(g)
    BY <2>1, RestatedIs
  <2>3. keep = 0 /\ g.back = 0 => u.back = 0
    BY <2>1, RestatedIs
  <2>4. \A i \in 1..Height(g) : u.lines[u.back + i] = rows[i]
    BY <2>1, RestatedIs
  <2>5. Parcel(seen, Rebounded(g, named, keep, fresh), S, ids, high)
    BY <2>1, RestatedIs
  <2> HIDE DEF u
  <2>6. h = u
    BY DEF u, seen
  <2> HIDE DEF h
  <2> QED BY <1>8, <2>2, <2>3, <2>4, <2>5, <2>6 DEF seen
<1> HIDE DEF h, ready
<1>13. /\ Term(view') /\ InAlt(view') = alt /\ Active(view') = h /\ Height(view'[1]) = H
       /\ (alt => view'[1] = shown[1]) /\ (~alt => view'[1] = h)
  BY <1>4, <1>7, <1>8, <1>12, WithActiveIs
<1>14. \A i \in 1..H : Screen(Active(view'))[i] = rows[i]
  BY <1>12, <1>13, ScreenIs
<1>15. /\ enc'.attrs = f.attrs /\ enc'.pending = {} /\ enc'.seen = f.seen /\ enc'.alt = alt
  BY <1>2, <1>4 DEF Drained, Encoded, f
<1>16. EncoderOk(enc')
  BY <1>1, <1>2, <1>15 DEF EncoderOk
<1>17. alt => /\ view'[1] = Resized(view[1], H, below[1], Keep, TRUE)
              /\ cleared' = cleared
  BY <1>4, <1>5, <1>6, <1>7, <1>13
<1>18. ~alt => /\ Grid(Base(below[1]), Main) /\ Height(Base(below[1])) = H
               /\ view'[1] = Written(Rebased(below[1]), enc'.seen, table')
               /\ Parcel(enc'.seen, Rebased(below[1]), Main, table', host[1].next)
               /\ cleared' = clears
  <2> SUFFICES ASSUME ~alt PROVE /\ Grid(Base(below[1]), Main) /\ Height(Base(below[1])) = H
               /\ view'[1] = Written(Rebased(below[1]), enc'.seen, table')
               /\ Parcel(enc'.seen, Rebased(below[1]), Main, table', host[1].next)
               /\ cleared' = clears
    OBVIOUS
  <2>1. Active(host) = host[1] /\ S = Main
    BY <1>1, TermIs DEF alt
  <2>2. fresh = (clears > cleared)
    BY <1>5
  <2>3. Base(below[1]) = g
    BY <1>6, <1>7, <1>8, <2>2 DEF Base, H
  <2>4. named = Ids(Screen(host[1]))
    <3>1. named = {f.seen[i].line : i \in 1..H}
      BY <1>2, <1>3
    <3>2. DOMAIN rows = 1..H
      BY <1>2, SeqOfRows
    <3>3. Ids(rows) = {rows[i].id : i \in 1..H}
      BY <3>2 DEF Ids
    <3>4. {f.seen[i].line : i \in 1..H} = {rows[i].id : i \in 1..H}
      BY <1>2
    <3> QED BY <2>1, <3>1, <3>3, <3>4
  <2>5. Rebased(below[1]) = ready
    BY <1>8, <2>2, <2>3, <2>4 DEF Rebased, ready
  <2>6. cleared' = clears
    <3>1. CASE fresh
      <4>1. cleared' = k.clears
        BY <1>4, <3>1
      <4>2. k.clears = clears
        BY <1>3
      <4> QED BY <4>1, <4>2
    <3>2. CASE ~fresh
      <4>1. cleared' = cleared
        BY <1>4, <3>2
      <4>2. ~(clears > cleared)
        BY <2>2, <3>2
      <4> QED BY <1>1, <4>1, <4>2
    <3> QED BY <3>1, <3>2
  <2> QED BY <1>4, <1>8, <1>12, <1>13, <1>15, <2>1, <2>3, <2>5, <2>6 DEF h
<1> QED BY <1>2, <1>4, <1>9, <1>13, <1>14, <1>15, <1>16, <1>17, <1>18 DEF H, alt

-----------------------------------------------------------------------------
(* What a step of the host may do to a grid, and to its screen: rows keep their
   ids, and new ones have ids that no row has had. *)
Later(h, g) ==
  /\ h.next >= g.next
  /\ Level(g) => Level(h)
  /\ Level(g) /\ Ascending(g.lines) => Ascending(h.lines)
  /\ \A low \in Nat : Low(g, low) => Low(h, low)
  /\ \A i \in 1..Len(h.lines) : \/ \E j \in 1..Len(g.lines) : h.lines[i].id = g.lines[j].id
                                \/ h.lines[i].id >= g.next
LaterScreen(h, g) ==
  \A i \in 1..Height(h) : \/ \E j \in 1..Height(g) : h.lines[h.back + i].id = g.lines[g.back + j].id
                          \/ h.lines[h.back + i].id >= g.next

(* A grid whose rows descend from another's is later than it. *)
LEMMA DescendsLater ==
  ASSUME NEW S, Blank \in S, NEW g, Grid(g, S), NEW h, Grid(h, S), Descends(h, g)
  PROVE  Later(h, g)
<1>1. /\ h.next >= g.next
      /\ Level(g) => Level(h)
      /\ Level(g) /\ Ascending(g.lines) => Ascending(h.lines)
      /\ \A low \in Nat : Low(g, low) => Low(h, low)
  BY DescendsKeeps
<1>2. \A i \in 1..Len(h.lines) : \/ \E j \in 1..Len(g.lines) : h.lines[i] = g.lines[j]
                                 \/ h.lines[i].id >= g.next
  BY DescendsKeeps
<1>3. \A i \in 1..Len(h.lines) : \/ \E j \in 1..Len(g.lines) : h.lines[i].id = g.lines[j].id
                                 \/ h.lines[i].id >= g.next
  BY <1>2
<1> QED BY <1>1, <1>3 DEF Later

(* Rows that get other texts in their places. *)
Retouched(lines, g, S) ==
  /\ lines \in Seq(Rows(S)) /\ Len(lines) = Len(g.lines)
  /\ \A i \in 1..Len(g.lines) : lines[i].id = g.lines[i].id

(* A grid whose rows get other texts is the same in its ids. *)
LEMMA RetouchedIs ==
  ASSUME NEW S, NEW g, Grid(g, S), NEW lines, Retouched(lines, g, S)
  PROVE  LET h == [g EXCEPT !.lines = lines]
         IN /\ Grid(h, S) /\ Height(h) = Height(g) /\ h.back = g.back
            /\ Later(h, g) /\ LaterScreen(h, g) /\ FirstId(h) = FirstId(g)
<1> DEFINE h == [g EXCEPT !.lines = lines]
<1>1. h = [lines |-> lines, back |-> g.back, next |-> g.next]
  BY DEF Grid
<1>2. lines \in Seq(Rows(S)) /\ Len(lines) = Len(g.lines) /\ Len(lines) \in Nat
  BY DEF Retouched
<1>3. g.back \in Nat /\ g.next \in Nat /\ g.back < Len(g.lines) /\ DOMAIN g.lines = 1..Len(g.lines)
  BY GridIs
<1> HIDE DEF h
<1>4. /\ Grid(h, S) /\ h.lines = lines /\ h.back = g.back /\ h.next = g.next
      /\ Height(h) = Len(lines) - g.back
  BY <1>1, <1>2, <1>3, GridOf
<1>5. Height(h) = Height(g)
  BY <1>2, <1>4 DEF Height
<1>6. \A i \in 1..Len(g.lines) : h.lines[i].id = g.lines[i].id
  BY <1>4 DEF Retouched
<1>7. DOMAIN h.lines = 1..Len(g.lines) /\ Len(h.lines) = Len(g.lines)
  BY <1>2, <1>4, SeqOfRows
<1>8. Level(g) => Level(h)
  BY <1>4, <1>6, <1>7 DEF Level, AllUnder
<1>9. Ascending(g.lines) => Ascending(h.lines)
  BY <1>3, <1>6, <1>7 DEF Ascending
<1>10. \A low \in Nat : Low(g, low) => Low(h, low)
  BY <1>4, <1>6, <1>7 DEF Low, AllFrom
<1>11. h.next >= g.next
  BY <1>3, <1>4
<1>12. Later(h, g)
  BY <1>6, <1>7, <1>8, <1>9, <1>10, <1>11 DEF Later
<1>13. LaterScreen(h, g)
  <2> SUFFICES ASSUME NEW i \in 1..Height(h)
               PROVE  \E j \in 1..Height(g) : h.lines[h.back + i].id = g.lines[g.back + j].id
    BY DEF LaterScreen
  <2>1. g.back + i \in 1..Len(g.lines)
    BY <1>3, <1>5, GridIs
  <2> QED BY <1>4, <1>5, <1>6, <2>1
<1>14. FirstId(h) = FirstId(g)
  <2>1. g.back + 1 \in 1..Len(g.lines)
    BY <1>2, <1>3
  <2> QED BY <1>4, <1>6, <2>1 DEF FirstId
<1> QED BY <1>4, <1>5, <1>12, <1>13, <1>14 DEF h

(* A row that gets a text, or the screen that is erased, is retouched. *)
LEMMA WriteRowIs ==
  ASSUME NEW S, NEW g, Grid(g, S), NEW r \in 1..Height(g), NEW text \in S
  PROVE  LET h == WriteRow(g, r, Row(Screen(g)[r].id, text))
         IN /\ Grid(h, S) /\ Height(h) = Height(g) /\ h.back = g.back
            /\ Later(h, g) /\ LaterScreen(h, g)
<1> DEFINE row == Row(Screen(g)[r].id, text)
           p == g.back + r
           lines == [g.lines EXCEPT ![p] = row]
<1>1. /\ g.lines \in Seq(Rows(S)) /\ DOMAIN g.lines = 1..Len(g.lines) /\ p \in 1..Len(g.lines)
      /\ Len(g.lines) \in Nat
      /\ \A i \in 1..Len(g.lines) : g.lines[i] \in Rows(S) /\ g.lines[i].id \in Nat
  BY GridIs
<1>2. Screen(g)[r].id = g.lines[p].id
  BY ScreenIs
<1>3. row \in Rows(S) /\ row.id = g.lines[p].id
  BY <1>1, <1>2, RowType
<1> HIDE DEF row, p
<1>4. lines \in Seq(Rows(S)) /\ Len(lines) = Len(g.lines)
  <2>1. lines \in [1..Len(g.lines) -> Rows(S)]
    BY <1>1, <1>3
  <2> HIDE DEF lines
  <2> QED BY <1>1, <2>1, FcnIsSeq
<1>5. \A i \in 1..Len(g.lines) : lines[i].id = g.lines[i].id
  BY <1>1, <1>3
<1>6. Retouched(lines, g, S)
  BY <1>4, <1>5 DEF Retouched
<1>7. WriteRow(g, r, row) = [g EXCEPT !.lines = lines]
  BY DEF WriteRow, p
<1> HIDE DEF lines
<1>8. LET h == [g EXCEPT !.lines = lines]
      IN /\ Grid(h, S) /\ Height(h) = Height(g) /\ h.back = g.back
         /\ Later(h, g) /\ LaterScreen(h, g)
  BY <1>6, RetouchedIs
<1> QED BY <1>7, <1>8 DEF row

(* ED 2 and ED 3 erase the texts of a screen, and no more of it. *)
LEMMA EraseIs ==
  ASSUME NEW S, Blank \in S, NEW g, Grid(g, S)
  PROVE  LET rows == [i \in 1..Height(g) |-> Row(Screen(g)[i].id, Blank)]
             h == [g EXCEPT !.lines = History(g) \o rows]
         IN /\ Grid(h, S) /\ Height(h) = Height(g) /\ h.back = g.back
            /\ Later(h, g) /\ LaterScreen(h, g) /\ FirstId(h) = FirstId(g)
<1> DEFINE rows == [i \in 1..Height(g) |-> Row(Screen(g)[i].id, Blank)]
           b == g.back
           lines == History(g) \o rows
<1>1. /\ g.lines \in Seq(Rows(S)) /\ Len(g.lines) \in Nat /\ b \in Nat /\ b < Len(g.lines)
      /\ Height(g) \in Nat \ {0} /\ b + Height(g) = Len(g.lines)
      /\ \A i \in 1..Len(g.lines) : g.lines[i] \in Rows(S) /\ g.lines[i].id \in Nat
  BY GridIs
<1>2. \A i \in 1..Height(g) : Screen(g)[i] = g.lines[b + i]
  BY ScreenIs
<1>3. rows \in [1..Height(g) -> Rows(S)]
  <2>1. ASSUME NEW i \in 1..Height(g) PROVE Row(Screen(g)[i].id, Blank) \in Rows(S)
    <3>1. b + i \in 1..Len(g.lines)
      BY <1>1
    <3>2. Screen(g)[i].id \in Nat
      BY <1>1, <1>2, <3>1
    <3> QED BY <3>2 DEF Row, Rows
  <2> QED BY <2>1
<1>4. \A i \in 1..Height(g) : rows[i].id = g.lines[b + i].id
  BY <1>1, <1>2 DEF Row
<1> HIDE DEF rows
<1>5. rows \in Seq(Rows(S)) /\ Len(rows) = Height(g)
  BY <1>1, <1>3, FcnIsSeq
<1>6. History(g) \in Seq(Rows(S)) /\ Len(History(g)) = b /\ \A i \in 1..b : History(g)[i] = g.lines[i]
  BY <1>1, SubSeqProperties DEF History
<1>7. /\ lines \in Seq(Rows(S)) /\ Len(lines) = b + Height(g)
      /\ \A i \in 1..b : lines[i] = g.lines[i]
      /\ \A i \in 1..Height(g) : lines[i + b] = rows[i]
  <2> DEFINE a == History(g)
             R == Rows(S)
  <2>1. a \in Seq(R) /\ Len(a) = b /\ rows \in Seq(R) /\ R = Rows(S)
    BY <1>5, <1>6
  <2> HIDE DEF a, R
  <2>2. /\ a \o rows \in Seq(R) /\ Len(a \o rows) = Len(a) + Len(rows)
        /\ \A i \in 1..Len(a) : (a \o rows)[i] = a[i]
        /\ \A i \in 1..Len(rows) : (a \o rows)[i + Len(a)] = rows[i]
    BY <2>1, ConcatIs
  <2> DEFINE s == a \o rows
  <2> HIDE DEF s
  <2>3. s = lines
    BY DEF s, a
  <2> HIDE DEF lines
  <2>4. /\ s \in Seq(Rows(S)) /\ Len(s) = b + Height(g)
        /\ \A i \in 1..b : s[i] = a[i]
        /\ \A i \in 1..Height(g) : s[i + b] = rows[i]
    BY <1>5, <2>1, <2>2 DEF s
  <2> QED BY <1>6, <2>3, <2>4 DEF a
<1> HIDE DEF lines
<1>8. \A i \in 1..Len(g.lines) : lines[i].id = g.lines[i].id
  <2> SUFFICES ASSUME NEW i \in 1..Len(g.lines) PROVE lines[i].id = g.lines[i].id
    OBVIOUS
  <2>1. CASE i <= b
    BY <1>1, <1>7, <2>1
  <2>2. CASE i > b
    <3> DEFINE j == i - b
    <3>1. j \in 1..Height(g) /\ i = j + b /\ i = b + j
      BY <1>1, <2>2
    <3> HIDE DEF j
    <3>2. lines[j + b] = rows[j] /\ rows[j].id = g.lines[b + j].id
      BY <1>4, <1>7, <3>1
    <3> QED BY <3>1, <3>2
  <2> QED BY <1>1, <2>1, <2>2
<1>9. Retouched(lines, g, S)
  BY <1>1, <1>7, <1>8 DEF Retouched
<1>10. LET h == [g EXCEPT !.lines = lines]
       IN /\ Grid(h, S) /\ Height(h) = Height(g) /\ h.back = g.back
          /\ Later(h, g) /\ LaterScreen(h, g) /\ FirstId(h) = FirstId(g)
  BY <1>9, RetouchedIs
<1> QED BY <1>10 DEF lines, rows

(* A grid is no earlier than itself. *)
LEMMA LaterItself ==
  ASSUME NEW g
  PROVE  g.next \in Nat => Later(g, g) /\ LaterScreen(g, g)
BY DEF Later, LaterScreen

(* What is later than a grid is later than one with the same ids. *)
LEMMA LaterThan ==
  ASSUME NEW S, NEW a, Grid(a, S), NEW b, Grid(b, S), NEW c, Grid(c, S),
         Later(b, a), LaterScreen(b, a), Later(c, b), LaterScreen(c, b)
  PROVE  Later(c, a) /\ LaterScreen(c, a)
<1>1. /\ a.next \in Nat /\ b.next \in Nat /\ c.next \in Nat
      /\ \A i \in 1..Len(c.lines) : c.lines[i].id \in Nat
      /\ c.back \in Nat /\ Height(c) \in Nat /\ c.back + Height(c) = Len(c.lines)
  BY GridIs
<1>2. c.next >= a.next /\ b.next >= a.next
  BY <1>1 DEF Later
<1>3. /\ Level(a) => Level(c)
      /\ Level(a) /\ Ascending(a.lines) => Ascending(c.lines)
      /\ \A low \in Nat : Low(a, low) => Low(c, low)
  BY DEF Later
<1>4. \A i \in 1..Len(c.lines) : \/ \E j \in 1..Len(a.lines) : c.lines[i].id = a.lines[j].id
                                 \/ c.lines[i].id >= a.next
  <2> SUFFICES ASSUME NEW i \in 1..Len(c.lines), ~(c.lines[i].id >= a.next)
               PROVE  \E j \in 1..Len(a.lines) : c.lines[i].id = a.lines[j].id
    OBVIOUS
  <2>1. ~(c.lines[i].id >= b.next)
    BY <1>1, <1>2
  <2>2. PICK j \in 1..Len(b.lines) : c.lines[i].id = b.lines[j].id
    BY <2>1 DEF Later
  <2>3. ~(b.lines[j].id >= a.next)
    BY <2>2
  <2> QED BY <2>2, <2>3 DEF Later
<1>5. \A i \in 1..Height(c) :
        \/ \E j \in 1..Height(a) : c.lines[c.back + i].id = a.lines[a.back + j].id
        \/ c.lines[c.back + i].id >= a.next
  <2> SUFFICES ASSUME NEW i \in 1..Height(c), ~(c.lines[c.back + i].id >= a.next)
               PROVE  \E j \in 1..Height(a) : c.lines[c.back + i].id = a.lines[a.back + j].id
    OBVIOUS
  <2>1. ~(c.lines[c.back + i].id >= b.next)
    <3>1. c.back + i \in 1..Len(c.lines)
      BY <1>1
    <3> DEFINE x == c.lines[c.back + i].id
    <3>2. x \in Nat /\ ~(x >= a.next)
      BY <1>1, <3>1
    <3> HIDE DEF x
    <3>3. ~(x >= b.next)
      BY <1>1, <1>2, <3>2
    <3> QED BY <3>3 DEF x
  <2>2. PICK j \in 1..Height(b) : c.lines[c.back + i].id = b.lines[b.back + j].id
    BY <2>1 DEF LaterScreen
  <2>3. ~(b.lines[b.back + j].id >= a.next)
    BY <2>2
  <2> QED BY <2>2, <2>3 DEF LaterScreen
<1> QED BY <1>2, <1>3, <1>4, <1>5 DEF Later, LaterScreen

(* A grid that scrolls is later, and so is its screen. *)
LEMMA ScrolledLater ==
  ASSUME NEW S, Blank \in S, NEW g, Grid(g, S), NEW limit \in Nat
  PROVE  LET h == ScrollUp(g, 1, limit)
         IN /\ Grid(h, S) /\ Height(h) = Height(g) /\ (limit = 0 => h.back = 0)
            /\ Later(h, g) /\ LaterScreen(h, g)
<1> DEFINE one == 1
           h == ScrollUp(g, one, limit)
<1>1. /\ one \in 0..Height(g) /\ one = 1 /\ Height(g) \in Nat \ {0} /\ g.next \in Nat /\ g.back \in Nat
      /\ \A i \in 1..Len(g.lines) : g.lines[i].id \in Nat
      /\ g.back + Height(g) = Len(g.lines)
  BY GridIs
<1>0. one \in 0..Height(g)
  BY <1>1
<1> HIDE DEF one
<1>2. /\ Grid(h, S) /\ Height(h) = Height(g) /\ Descends(h, g) /\ h.back = Least(g.back + one, limit)
  BY <1>0, ScrollUpIs
<1>3. \A i \in 1..Height(g) :
        /\ i + one <= Height(g) => h.lines[h.back + i] = g.lines[g.back + i + one]
        /\ i + one > Height(g) => h.lines[h.back + i] = Row(g.next + (i + one - Height(g)) - 1, Blank)
  BY <1>0, ScrollUpIs
<1>4. limit = 0 => h.back = 0
  BY <1>1, <1>2 DEF Least
<1> HIDE DEF h
<1>5. Later(h, g)
  BY <1>2, DescendsLater
<1>6. LaterScreen(h, g)
  <2> SUFFICES ASSUME NEW i \in 1..Height(g)
               PROVE  \/ \E j \in 1..Height(g) : h.lines[h.back + i].id = g.lines[g.back + j].id
                      \/ h.lines[h.back + i].id >= g.next
    BY <1>2 DEF LaterScreen
  <2>1. CASE i + one <= Height(g)
    <3> DEFINE j == i + one
    <3>1. j \in 1..Height(g)
      BY <1>1, <2>1
    <3>2. g.back + j = g.back + i + one
      <4> DEFINE b == g.back
      <4>1. b \in Int /\ i \in Int /\ one \in Int
        BY <1>1
      <4> HIDE DEF b
      <4>2. b + (i + one) = b + i + one
        BY <4>1
      <4> QED BY <4>2 DEF b
    <3>3. h.lines[h.back + i] = g.lines[g.back + i + one]
      BY <1>3, <2>1
    <3> HIDE DEF j
    <3> QED BY <3>1, <3>2, <3>3
  <2>2. CASE i + one > Height(g)
    <3>1. h.lines[h.back + i] = Row(g.next + (i + one - Height(g)) - 1, Blank)
      BY <1>3, <2>2
    <3>2. Row(g.next + (i + one - Height(g)) - 1, Blank).id = g.next + (i + one - Height(g)) - 1
      BY DEF Row
    <3>3. h.lines[h.back + i].id = g.next + (i + one - Height(g)) - 1
      BY <3>1, <3>2
    <3> QED BY <1>1, <2>2, <3>3
  <2> QED BY <1>1, <2>1, <2>2
<1> QED BY <1>2, <1>4, <1>5, <1>6 DEF h, one

(* A grid that has lost its history is later, and above its first row. *)
LEMMA WithoutHistoryLater ==
  ASSUME NEW S, Blank \in S, NEW g, Grid(g, S)
  PROVE  LET h == WithoutHistory(g)
         IN /\ Grid(h, S) /\ Later(h, g) /\ LaterScreen(h, g)
            /\ Level(g) /\ Ascending(g.lines) => Low(h, FirstId(g)) /\ FirstId(g) \in Nat
<1> DEFINE h == WithoutHistory(g)
<1>1. /\ Grid(h, S) /\ Height(h) = Height(g) /\ h.back = 0 /\ h.next = g.next
      /\ Within(h.lines, g.lines)
      /\ \A i \in 1..Height(g) : h.lines[i] = g.lines[g.back + i]
  BY WithoutHistoryIs
<1> HIDE DEF h
<1>2. Descends(h, g)
  BY <1>1, WithinDescends
<1>3. Later(h, g)
  BY <1>1, <1>2, DescendsLater
<1>4. \A i \in 1..Height(h) : h.lines[h.back + i] = g.lines[g.back + i]
  BY <1>1, GridIs
<1>5. LaterScreen(h, g)
  BY <1>1, <1>4 DEF LaterScreen
<1>6. ASSUME Level(g), Ascending(g.lines)
      PROVE  Low(h, FirstId(g)) /\ FirstId(g) \in Nat
  <2>1. /\ g.back \in Nat /\ Height(g) \in Nat \ {0} /\ g.back + Height(g) = Len(g.lines)
        /\ DOMAIN g.lines = 1..Len(g.lines) /\ \A i \in 1..Len(g.lines) : g.lines[i].id \in Nat
        /\ g.next \in Nat
    BY GridIs
  <2>2. g.back + 1 \in 1..Len(g.lines) /\ FirstId(g) = g.lines[g.back + 1].id
    BY <2>1 DEF FirstId
  <2>3. FirstId(g) \in Nat /\ FirstId(g) < g.next
    BY <1>6, <2>1, <2>2 DEF Level, AllUnder
  <2>4. Len(h.lines) = Height(g)
    <3>1. h.back + Height(h) = Len(h.lines) /\ Len(h.lines) \in Nat
      BY <1>1, GridIs
    <3> QED BY <1>1, <2>1, <3>1
  <2>5. ASSUME NEW i \in 1..Height(g) PROVE h.lines[i].id >= FirstId(g)
    <3>1. g.back + i \in 1..Len(g.lines) /\ (g.back + 1 < g.back + i \/ g.back + 1 = g.back + i)
      BY <2>1
    <3>2. g.lines[g.back + i].id >= FirstId(g)
      BY <1>6, <2>1, <2>2, <3>1, SMTT(30) DEF Ascending
    <3> QED BY <1>1, <3>2
  <2> QED BY <1>1, <2>1, <2>3, <2>4, <2>5 DEF Low, AllFrom
<1> QED BY <1>1, <1>3, <1>5, <1>6 DEF h

(* A terminal whose active screen moves on. *)
MovesOn(u, t) ==
  /\ Sound(u) /\ Height(u[1]) = Height(t[1]) /\ Later(u[1], t[1]) /\ LaterScreen(u[1], t[1])

(* A terminal whose active screen moves on moves on. *)
LEMMA ActiveMoves ==
  ASSUME NEW t, Sound(t), NEW g, Grid(g, Printed(t)), Height(g) = Height(t[1]),
         InAlt(t) => g.back = 0, Later(g, Active(t)), LaterScreen(g, Active(t))
  PROVE  LET u == WithActive(t, g)
         IN MovesOn(u, t) /\ InAlt(u) = InAlt(t) /\ Active(u) = g
<1> DEFINE u == WithActive(t, g)
<1>1. Term(t) /\ Level(t[1]) /\ Level(Active(t))
  BY DEF Sound
<1>2. /\ Term(u) /\ InAlt(u) = InAlt(t) /\ Active(u) = g /\ Height(u[1]) = Height(t[1])
      /\ (InAlt(t) => u[1] = t[1]) /\ (~InAlt(t) => u[1] = g)
  BY <1>1, WithActiveIs
<1> HIDE DEF u
<1>3. Level(g)
  BY <1>1 DEF Later
<1>4. CASE InAlt(t)
  <2>1. t[1].next \in Nat
    BY <1>1, TermIs, GridIs
  <2>2. Later(t[1], t[1]) /\ LaterScreen(t[1], t[1])
    BY <2>1, LaterItself
  <2> QED BY <1>1, <1>2, <1>3, <1>4, <2>2 DEF MovesOn, Sound, u
<1>5. CASE ~InAlt(t)
  <2>1. Active(t) = t[1]
    BY <1>1, <1>5, TermIs
  <2> QED BY <1>1, <1>2, <1>3, <1>5, <2>1 DEF MovesOn, Sound, u
<1> QED BY <1>4, <1>5

(* What every step of the host but EraseAll, Resize and TellCleared does. *)
Programs ==
  /\ MovesOn(host', host) /\ moved' = TRUE /\ deeds' = deeds + 1
  /\ UNCHANGED <<plan, owed, enc, behind, view, table, cleared, asked, wanted, drained, marks,
                 clears, floor, event>>

(* A program that writes moves the host on. *)
LEMMA DrawIs ==
  ASSUME Sound(host), NEW text \in Texts \cup AltTexts \cup {Blank},
         NEW r \in 1..Height(Active(host)), Draw(r, text)
  PROVE  Programs
<1> DEFINE g == Active(host)
           S == Printed(host)
           h == WriteRow(g, r, Row(Screen(g)[r].id, text))
<1>1. Term(host)
  BY DEF Sound
<1>2. /\ Grid(g, S) /\ Height(g) = Height(host[1])
      /\ InAlt(host) => g.back = 0
  BY <1>1, TermIs
<1>3. text \in S
  <2>1. text \in {Blank} \cup (IF InAlt(host) THEN AltTexts ELSE Texts)
    BY DEF Draw
  <2>2. CASE InAlt(host)
    BY <2>1, <2>2 DEF Printed, Main, All
  <2>3. CASE ~InAlt(host)
    BY <2>1, <2>3 DEF Printed, Main, All
  <2> QED BY <2>2, <2>3
<1>4. host' = WithActive(host, h)
  BY DEF Draw, Becomes
<1>5. moved' = TRUE /\ deeds' = deeds + 1
      /\ UNCHANGED <<plan, owed, enc, behind, view, table, cleared, asked, wanted, drained, marks,
                     clears, floor, event>>
  BY DEF Draw, Becomes, HostOnly, replicaVars
<1> HIDE DEF g, S
<1>6. /\ Grid(h, S) /\ Height(h) = Height(g) /\ h.back = g.back
      /\ Later(h, g) /\ LaterScreen(h, g)
  BY <1>2, <1>3, WriteRowIs DEF g
<1> HIDE DEF h
<1>7. MovesOn(host', host)
  BY <1>2, <1>4, <1>6, ActiveMoves DEF g, S
<1> QED BY <1>5, <1>7 DEF Programs

(* A line feed on the last row moves the host on. *)
LEMMA LineFeedIs ==
  ASSUME Sound(host), LineFeed
  PROVE  Programs
<1> DEFINE g == Active(host)
           S == Printed(host)
           limit == Room(host, Limit)
           h == ScrollUp(g, 1, limit)
<1>1. Term(host)
  BY DEF Sound
<1>2. /\ Grid(g, S) /\ Height(g) = Height(host[1])
      /\ InAlt(host) => g.back = 0
  BY <1>1, TermIs
<1>3. Blank \in S /\ limit \in Nat /\ (InAlt(host) => limit = 0)
  BY CodecAssumption DEF Room, Printed, Main, All
<1>4. host' = WithActive(host, h)
  BY DEF LineFeed, Becomes
<1>5. moved' = TRUE /\ deeds' = deeds + 1
      /\ UNCHANGED <<plan, owed, enc, behind, view, table, cleared, asked, wanted, drained, marks,
                     clears, floor, event>>
  BY DEF LineFeed, Becomes, HostOnly, replicaVars
<1> HIDE DEF g, S, limit
<1>6. /\ Grid(h, S) /\ Height(h) = Height(g) /\ (limit = 0 => h.back = 0)
      /\ Later(h, g) /\ LaterScreen(h, g)
  BY <1>2, <1>3, ScrolledLater
<1> HIDE DEF h
<1>7. MovesOn(host', host)
  BY <1>2, <1>3, <1>4, <1>6, ActiveMoves DEF g, S
<1> QED BY <1>5, <1>7 DEF Programs

(* A program that switches screens moves the host on. *)
LEMMA SwitchScreenIs ==
  ASSUME Sound(host), SwitchScreen
  PROVE  Programs
<1> DEFINE alt == ~InAlt(host)
           u == Switched(host, alt)
<1>1. Term(host) /\ Level(host[1])
  BY DEF Sound
<1>2. alt \in BOOLEAN /\ Height(host[1]) \in Nat \ {0} /\ host[1].next \in Nat
  BY <1>1, TermIs, GridIs
<1>3. host' = u
  BY DEF SwitchScreen, Becomes
<1>4. moved' = TRUE /\ deeds' = deeds + 1
      /\ UNCHANGED <<plan, owed, enc, behind, view, table, cleared, asked, wanted, drained, marks,
                     clears, floor, event>>
  BY DEF SwitchScreen, Becomes, HostOnly, replicaVars
<1>5. Term(u) /\ InAlt(u) = alt /\ u[1] = host[1]
  BY <1>1, <1>2, SwitchedIs
<1>6. Level(Active(u))
  <2>1. CASE InAlt(host)
    <3>1. ~InAlt(u)
      BY <1>5, <2>1
    <3>2. Active(u) = u[1]
      BY <1>5, <3>1, TermIs
    <3> QED BY <1>1, <1>5, <3>2
  <2>2. CASE ~InAlt(host)
    <3> DEFINE f == Fresh(Height(host[1]))
               m == host[1]
    <3>1. Level(f)
      BY <1>2, FreshIs
    <3> HIDE DEF f, m
    <3>2. u = Append(host, f) /\ host = <<m>>
      BY <1>1, <2>2, TermIs DEF Switched, f, m
    <3> HIDE DEF u
    <3>3. <<m>> \in Seq({m, f}) /\ f \in {m, f} /\ Len(<<m>>) = 1
      OBVIOUS
    <3>4. Len(Append(<<m>>, f)) = 2 /\ Append(<<m>>, f)[2] = f
      BY <3>3, AppendProperties
    <3>5. Active(u) = f
      BY <3>2, <3>4 DEF Active
    <3> QED BY <3>1, <3>5
  <2> QED BY <2>1, <2>2
<1>7. Later(host[1], host[1]) /\ LaterScreen(host[1], host[1])
  BY <1>2, LaterItself
<1> HIDE DEF u
<1>8. MovesOn(host', host)
  BY <1>1, <1>3, <1>5, <1>6, <1>7 DEF MovesOn, Sound
<1> QED BY <1>4, <1>8 DEF Programs

(* ED 3 moves the host on, and what is left is above the floor that it sets. *)
LEMMA EraseAllIs ==
  ASSUME Sound(host), Ascending(host[1].lines), EraseAll
  PROVE  /\ MovesOn(host', host) /\ moved' = TRUE /\ deeds' = deeds + 1
         /\ clears' = clears + 1 /\ event' = TRUE /\ floor' \in Nat /\ Low(host'[1], floor')
         /\ UNCHANGED <<plan, owed, enc, behind, view, table, cleared, asked, wanted, drained, marks>>
<1> DEFINE g == Active(host)
           S == Printed(host)
           rows == [i \in 1..Height(Active(host)) |-> Row(Screen(Active(host))[i].id, Blank)]
           h == [g EXCEPT !.lines = History(g) \o rows]
           t == WithActive(host, h)
           yes == TRUE
           u == Forgotten(t, yes)
<1>1. Term(host) /\ Level(host[1]) /\ Level(g)
  BY DEF Sound
<1>2. /\ Grid(g, S) /\ Height(g) = Height(host[1])
      /\ InAlt(host) => g.back = 0
      /\ Grid(host[1], Main) /\ Blank \in S /\ Blank \in Main /\ yes \in BOOLEAN
  BY <1>1, TermIs DEF Printed, Main, All
<1>3. host' = [t EXCEPT ![1] = WithoutHistory(@)]
  BY DEF EraseAll, Becomes
<1>4. /\ moved' = TRUE /\ deeds' = deeds + 1 /\ clears' = clears + 1 /\ event' = TRUE
      /\ floor' = FirstId(host[1])
      /\ UNCHANGED <<plan, owed, enc, behind, view, table, cleared, asked, wanted, drained, marks>>
  BY DEF EraseAll, Becomes, HostOnly, replicaVars
<1>5. host' = u
  BY <1>3 DEF Forgotten
<1> HIDE DEF S
<1>6. /\ Grid(h, S) /\ Height(h) = Height(g) /\ h.back = g.back
      /\ Later(h, g) /\ LaterScreen(h, g) /\ FirstId(h) = FirstId(g)
  BY <1>2, EraseIs
<1> HIDE DEF g, h
<1>7. MovesOn(t, host) /\ InAlt(t) = InAlt(host) /\ Active(t) = h
  BY <1>2, <1>6, ActiveMoves DEF g, S
<1> HIDE DEF t, yes
<1>8. Term(t) /\ Level(t[1]) /\ Level(Active(t)) /\ Grid(t[1], Main)
  BY <1>7, TermIs DEF MovesOn, Sound
<1>9. /\ Term(u) /\ InAlt(u) = InAlt(t) /\ Height(u[1]) = Height(t[1])
      /\ u[1] = WithoutHistory(t[1])
  BY <1>2, <1>8, ForgottenIs DEF yes
<1>10. /\ Grid(u[1], Main) /\ Later(u[1], t[1]) /\ LaterScreen(u[1], t[1])
       /\ Level(t[1]) /\ Ascending(t[1].lines) => Low(u[1], FirstId(t[1])) /\ FirstId(t[1]) \in Nat
  <2> DEFINE a == t[1]
             b == WithoutHistory(a)
  <2>1. Grid(a, Main)
    BY <1>8
  <2> HIDE DEF a
  <2>2. Grid(b, Main) /\ Later(b, a) /\ LaterScreen(b, a)
    BY <1>2, <2>1, WithoutHistoryLater
  <2>3. Level(a) /\ Ascending(a.lines) => Low(b, FirstId(a)) /\ FirstId(a) \in Nat
    BY <1>2, <2>1, WithoutHistoryLater
  <2> HIDE DEF b
  <2>4. u[1] = b
    BY <1>9 DEF b, a
  <2> HIDE DEF u
  <2> QED BY <2>2, <2>3, <2>4 DEF a
<1>11. Later(u[1], host[1]) /\ LaterScreen(u[1], host[1])
  <2> DEFINE a == host[1]
             b == t[1]
             c == u[1]
  <2>1. /\ Grid(a, Main) /\ Grid(b, Main) /\ Grid(c, Main)
        /\ Later(b, a) /\ LaterScreen(b, a) /\ Later(c, b) /\ LaterScreen(c, b)
    BY <1>2, <1>7, <1>8, <1>10 DEF MovesOn
  <2> HIDE DEF a, b, c
  <2>2. Later(c, a) /\ LaterScreen(c, a)
    BY <2>1, LaterThan
  <2> QED BY <2>2 DEF a, c
<1>12. Level(u[1])
  BY <1>8, <1>10 DEF Later
<1>13. Level(Active(u))
  <2>1. CASE InAlt(u)
    <3>1. Active(u) = u[2] /\ Active(t) = t[2] /\ DOMAIN t = 1..2
      BY <1>8, <1>9, <2>1, TermIs
    <3>2. u[2] = t[2]
      BY <3>1 DEF u, Forgotten, yes
    <3> QED BY <1>8, <3>1, <3>2
  <2>2. CASE ~InAlt(u)
    <3>1. Active(u) = u[1]
      BY <1>9, <2>2, TermIs
    <3> QED BY <1>12, <3>1
  <2> QED BY <2>1, <2>2
<1>14. MovesOn(u, host)
  BY <1>7, <1>9, <1>11, <1>12, <1>13 DEF MovesOn, Sound
<1>15. FirstId(host[1]) \in Nat /\ Low(u[1], FirstId(host[1]))
  <2> DEFINE a == host[1]
             b == WithoutHistory(a)
  <2>1. Grid(a, Main) /\ Level(a) /\ Ascending(a.lines)
    BY <1>1, <1>2
  <2> HIDE DEF a
  <2>2. Low(b, FirstId(a)) /\ FirstId(a) \in Nat /\ Grid(b, Main)
    BY <1>2, <2>1, WithoutHistoryLater
  <2>3. CASE InAlt(host)
    <3>1. t[1] = host[1]
      BY <1>1, <1>2, <1>6, <2>3, WithActiveIs DEF t, g, S
    <3>2. u[1] = b
      BY <1>9, <3>1 DEF a, b
    <3> HIDE DEF b
    <3> QED BY <2>2, <3>2 DEF a
  <2>4. CASE ~InAlt(host)
    <3>1. t[1] = h /\ g = a
      <4>1. ~InAlt(t) /\ Active(t) = h
        BY <1>7, <2>4
      <4>2. t[1] = h
        BY <1>8, <4>1, TermIs
      <4>3. g = a
        BY <1>1, <2>4, TermIs DEF g, a
      <4> QED BY <4>2, <4>3
    <3>2. Level(h) /\ Ascending(h.lines)
      BY <1>6, <2>1, <3>1 DEF Later
    <3>3. FirstId(h) = FirstId(a)
      BY <1>6, <3>1
    <3> QED BY <1>8, <1>10, <2>2, <3>1, <3>2, <3>3 DEF a
  <2> QED BY <2>3, <2>4 DEF a
<1> QED BY <1>4, <1>5, <1>14, <1>15

(* A resize moves the host on, in its main screen's ids, and owes the subscriber a keyframe. *)
LEMMA ResizeIs ==
  ASSUME Counters, Sound(host), NEW below \in Belows, NEW height \in plan.heights,
         Resize(height, below)
  PROVE  /\ Sound(host') /\ Later(host'[1], host[1])
         /\ moved' = TRUE /\ owed' = TRUE /\ deeds' = deeds + 1
         /\ UNCHANGED <<plan, enc, behind, view, table, cleared, asked, wanted, drained, marks,
                        clears, floor, event>>
<1> DEFINE no == FALSE
           t == host
           low(i) == below[i]
           u == AllResized(t, height, below, Limit, no)
<1>1. /\ Term(t) /\ Level(t[1]) /\ Level(Active(t)) /\ plan \in Plans
      /\ no \in BOOLEAN /\ Limit \in Nat /\ 0 \in Nat /\ Grid(t[1], Main) /\ Blank \in Main /\ Blank \in All
      /\ InAlt(t) \in BOOLEAN
  BY CodecAssumption, TermIs DEF Sound, Counters, Main, All
<1>2. height \in Nat \ {0} /\ \A i \in {1, 2} : below[i] \in Nat
  BY <1>1, CodecAssumption, BelowIs
<1>3. /\ host' = u /\ moved' = TRUE /\ owed' = TRUE /\ deeds' = deeds + 1
      /\ UNCHANGED <<plan, enc, behind, view, table, cleared, asked, wanted, drained, marks,
                     clears, floor, event>>
  BY DEF Resize, Becomes, replicaVars
<1> HIDE DEF no
<1>0. /\ Term(t) /\ height \in Nat \ {0} /\ Limit \in Nat /\ no \in BOOLEAN
      /\ \A i \in {1, 2} : below[i] \in Nat
  BY <1>1, <1>2
<1> HIDE DEF t
<1>4. Term(u) /\ InAlt(u) = InAlt(t) /\ Height(u[1]) = height
  BY <1>0, AllResizedIs
<1>5. u[1] = Resized(t[1], height, below[1], Limit, no)
  BY <1>0, AllResizedIs, SMTT(30)
<1>6. InAlt(t) => u[2] = Resized(t[2], height, below[2], 0, no)
  BY <1>0, AllResizedIs
<1> HIDE DEF u
<1>7. ASSUME NEW S, Blank \in S, NEW g, Grid(g, S), NEW i \in {1, 2}, NEW limit \in Nat
      PROVE  /\ Descends(Resized(g, height, below[i], limit, no), g)
             /\ Grid(Resized(g, height, below[i], limit, no), S)
  <2> DEFINE l == below[i]
  <2>1. l \in Nat
    BY <1>2
  <2> HIDE DEF l
  <2>2. Descends(Resized(g, height, l, limit, no), g) /\ Grid(Resized(g, height, l, limit, no), S)
    BY <1>1, <1>2, <1>7, <2>1, ResizedIs
  <2> QED BY <2>2 DEF l
<1>8. Later(u[1], t[1])
  <2> DEFINE a == t[1]
             i == 1
             r == Resized(a, height, below[i], Limit, no)
  <2>1. Grid(a, Main) /\ i \in {1, 2} /\ Blank \in Main
    BY <1>1
  <2> HIDE DEF a, i
  <2>2. Descends(r, a) /\ Grid(r, Main)
    BY <1>1, <1>7, <2>1
  <2> HIDE DEF r
  <2>3. Later(r, a)
    BY <2>1, <2>2, DescendsLater
  <2> QED BY <1>5, <2>3 DEF r, a, i
<1>9. Level(u[1])
  BY <1>1, <1>8 DEF Later
<1>10. Level(Active(u))
  <2>1. CASE InAlt(t)
    <3> DEFINE a == t[2]
               i == 2
               z == 0
               r == Resized(a, height, below[i], z, no)
    <3>1. Grid(a, All) /\ i \in {1, 2} /\ z \in Nat /\ Level(a) /\ Active(t) = a
      BY <1>1, <2>1, TermIs
    <3> HIDE DEF a, i, z
    <3>2. Descends(r, a) /\ Grid(r, All)
      BY <1>1, <1>7, <3>1
    <3> HIDE DEF r
    <3>3. Level(r)
      BY <1>1, <3>1, <3>2, DescendsLater DEF Later
    <3>4. Active(u) = u[2]
      BY <1>4, <2>1, TermIs
    <3>5. u[2] = r
      BY <1>6, <2>1 DEF r, a, i, z
    <3> QED BY <3>3, <3>4, <3>5
  <2>2. CASE ~InAlt(t)
    <3>1. Active(u) = u[1]
      BY <1>4, <2>2, TermIs
    <3> QED BY <1>9, <3>1
  <2> QED BY <2>1, <2>2
<1> QED BY <1>3, <1>4, <1>8, <1>9, <1>10 DEF Sound, t

-----------------------------------------------------------------------------
(* The encoder after a message. *)
Sent(e, t) ==
  /\ EncoderOk(e) /\ e.alt = InAlt(t) /\ e.seen = Payloads(e.attrs, Screen(Active(t)))
  /\ Covers(e.attrs, Screen(Active(t))) /\ Len(e.seen) = Height(t[1]) /\ DOMAIN e.seen = 1..Height(t[1])
  /\ \A i \in 1..Height(t[1]) : /\ e.seen[i] = Payload(e.attrs, Screen(Active(t))[i])
                                /\ e.seen[i].line = Screen(Active(t))[i].id

(* After a message the encoder stands for what the host shows, and its table has grown. *)
LEMMA SentIs ==
  ASSUME NEW e, EncoderOk(e), NEW t, Term(t)
  PROVE  LET f == Encoded(e, t)
         IN /\ Sent(Drained(f), t) /\ Drained(f).attrs = f.attrs /\ Drained(f).seen = f.seen
            /\ Grows(e.attrs, f.attrs) /\ f.pending = Defs(f.attrs) \ Defs(e.attrs)
            /\ f.alt = InAlt(t)
<1> DEFINE f == Encoded(e, t)
           rows == Screen(Active(t))
           z == Drained(f)
<1>1. AttrTable(e.attrs) /\ e.pending = {}
  BY DEF EncoderOk
<1>2. /\ AttrTable(f.attrs) /\ Grows(e.attrs, f.attrs) /\ Covers(f.attrs, rows)
      /\ f.pending = e.pending \cup (Defs(f.attrs) \ Defs(e.attrs))
      /\ f.seen = Payloads(f.attrs, rows) /\ f.alt = InAlt(t)
      /\ f.seen \in Seq(Pays(f.attrs)) /\ Len(f.seen) = Height(t[1]) /\ DOMAIN f.seen = 1..Height(t[1])
  BY <1>1, EncodedIs
<1>3. \A i \in 1..Height(t[1]) : f.seen[i] = Payload(f.attrs, rows[i]) /\ f.seen[i].line = rows[i].id
  BY <1>1, EncodedIs
<1>4. z.attrs = f.attrs /\ z.pending = {} /\ z.seen = f.seen /\ z.alt = f.alt
  BY DEF Drained, Encoded
<1>5. InAlt(t) \in BOOLEAN
  BY TermIs
<1> HIDE DEF f, rows
<1>6. f.pending = Defs(f.attrs) \ Defs(e.attrs)
  BY <1>1, <1>2
<1> HIDE DEF z
<1>7. EncoderOk(z)
  BY <1>2, <1>4, <1>5 DEF EncoderOk
<1>8. Sent(z, t)
  BY <1>2, <1>3, <1>4, <1>7 DEF Sent, rows
<1> QED BY <1>2, <1>4, <1>6, <1>8 DEF z, f

(* What was known of a table's ids is known as it was. *)
Undisturbed(attrs, known, ids) ==
  \A t \in DOMAIN attrs : /\ attrs[t] \in DOMAIN known /\ attrs[t] \in DOMAIN ids
                          /\ ids[attrs[t]] = known[attrs[t]]

(* The definitions that are new take nothing from what is known. *)
LEMMA LearnNew ==
  ASSUME NEW a, AttrTable(a), NEW b, AttrTable(b), Grows(a, b), NEW known, Knows(a, known)
  PROVE  LET ids == Learn(known, Defs(b) \ Defs(a))
         IN /\ Knows(b, ids) /\ (KnowsWell(a, known) => KnowsWell(b, ids))
            /\ Undisturbed(a, known, ids)
<1> DEFINE defs == Defs(b) \ Defs(a)
           ids == Learn(known, defs)
<1>1. defs \in SUBSET Defs(b)
  OBVIOUS
<1>2. \A t \in DOMAIN a : t \in DOMAIN b /\ b[t] = a[t]
  BY DEF Grows
<1>3. \A t, u \in DOMAIN b : b[t] = b[u] => t = u
  BY DEF AttrTable
<1>4. ASSUME NEW t \in DOMAIN a PROVE \A d \in defs : d.id # a[t]
  <2> SUFFICES ASSUME NEW d \in defs, d.id = a[t] PROVE FALSE
    OBVIOUS
  <2>1. PICK u \in DOMAIN b : d = [id |-> b[u], text |-> u]
    BY DEF Defs
  <2>2. u = t
    BY <1>2, <1>3, <2>1
  <2>3. d = [id |-> a[t], text |-> t]
    BY <1>2, <2>1, <2>2
  <2> QED BY <2>3 DEF Defs
<1>5. ASSUME NEW t \in DOMAIN b, t \notin DOMAIN a
      PROVE  \E d \in defs : d.id = b[t] /\ d.text = t
  <2> DEFINE d == [id |-> b[t], text |-> t]
  <2>1. d \in Defs(b) /\ d.id = b[t] /\ d.text = t
    BY DEF Defs
  <2>2. d \notin Defs(a)
    BY <1>5 DEF Defs
  <2> QED BY <2>1, <2>2
<1> HIDE DEF defs
<1>6. DOMAIN ids = DOMAIN known \cup {d.id : d \in defs}
  BY <1>1, LearnIs
<1>7. \A d \in defs : ids[d.id] = d.text
  BY <1>1, LearnIs
<1>8. ASSUME NEW id \in DOMAIN known, \A d \in defs : d.id # id
      PROVE  ids[id] = known[id]
  BY <1>8 DEF Learn
<1> HIDE DEF ids
<1>9. \A t \in DOMAIN a : /\ a[t] \in DOMAIN known /\ a[t] \in DOMAIN ids
                          /\ ids[a[t]] = known[a[t]]
  BY <1>4, <1>6, <1>8 DEF Knows
<1>10. \A t \in DOMAIN b : t \notin DOMAIN a => b[t] \in DOMAIN ids /\ ids[b[t]] = t
  BY <1>5, <1>6, <1>7
<1>11. Knows(b, ids)
  <2> SUFFICES ASSUME NEW t \in DOMAIN b
               PROVE  b[t] \in DOMAIN ids /\ (ids[b[t]] = t \/ ids[b[t]] \in Texts)
    BY DEF Knows
  <2>1. CASE t \in DOMAIN a
    BY <1>2, <1>9, <2>1 DEF Knows
  <2>2. CASE t \notin DOMAIN a
    BY <1>10, <2>2
  <2> QED BY <2>1, <2>2
<1>12. KnowsWell(a, known) => KnowsWell(b, ids)
  <2> SUFFICES ASSUME KnowsWell(a, known), NEW t \in DOMAIN b
               PROVE  b[t] \in DOMAIN ids /\ ids[b[t]] = t
    BY DEF KnowsWell
  <2>1. CASE t \in DOMAIN a
    BY <1>2, <1>9, <2>1 DEF KnowsWell
  <2>2. CASE t \notin DOMAIN a
    BY <1>10, <2>2
  <2> QED BY <2>1, <2>2
<1> QED BY <1>9, <1>11, <1>12 DEF ids, defs, Undisturbed

(* What a delta says of the rows, and how far it scrolls. *)
Differ(e, f, t) == {i \in DOMAIN f.seen : Shifted(e, t)[i] # f.seen[i]}
Changes(e, f, t) == [i \in Differ(e, f, t) |-> f.seen[i]]

(* What a delta says it scrolled is less than the height. *)
LEMMA ScrolledByIs ==
  ASSUME NEW e, NEW n \in Nat \ {0}, e.seen \in Seq(Pays(e.attrs)), Len(e.seen) = n, NEW t, Term(t)
  PROVE  ScrolledBy(e, t) \in 0..(n - 1)
<1>1. FirstId(Active(t)) \in Nat
  <2> DEFINE g == Active(t)
  <2>1. Grid(g, All)
    BY TermIs
  <2> HIDE DEF g
  <2>2. g.back \in Nat /\ g.back < Len(g.lines) /\ \A i \in 1..Len(g.lines) : g.lines[i].id \in Nat
        /\ Len(g.lines) \in Nat
    BY <2>1, GridIs
  <2>3. g.back + 1 \in 1..Len(g.lines)
    BY <2>2
  <2>4. FirstId(g) \in Nat
    BY <2>2, <2>3 DEF FirstId
  <2> QED BY <2>4 DEF g
<1>2. e.seen[1].line \in Nat
  <2>1. e.seen[1] \in Pays(e.attrs)
    <3>1. 1 \in 1..Len(e.seen)
      OBVIOUS
    <3> QED BY <3>1, ElementOfSeq
  <2> QED BY <2>1 DEF Pays
<1> DEFINE x == FirstId(Active(t))
           y == e.seen[1].line
           l == Len(e.seen)
<1>3. ScrolledBy(e, t) = IF x - y > 0 /\ x - y < l THEN x - y ELSE 0
  BY DEF ScrolledBy
<1>4. x \in Nat /\ y \in Nat /\ l = n
  BY <1>1, <1>2
<1> HIDE DEF x, y, l
<1> QED BY <1>3, <1>4

(* The replica shows what the shadow stands for: the rows by their ids, and to
   the letter when no page of history has given an id away. *)
Shows(e, t) == \A i \in 1..Len(e.seen) : Screen(Active(t))[i].id = e.seen[i].line
ShowsWell(e, t, ids) == \A i \in 1..Len(e.seen) : Screen(Active(t))[i] = Decoded(e.seen[i], ids)

(* A screen that scrolls and is written to. *)
LEMMA ChangedIs ==
  ASSUME NEW S, Blank \in S, NEW g, Grid(g, S), NEW limit \in Nat,
         NEW e, EncoderOk(e), NEW t, Term(t), Height(g) = Height(t[1]), Len(e.seen) = Height(t[1]),
         NEW f, Sent(f, t), NEW ids, NEW high \in Nat,
         Parcel(Changes(e, f, t), ScrollUp(g, ScrolledBy(e, t), limit), S, ids, high)
  PROVE  LET by == ScrolledBy(e, t)
             h == Written(ScrollUp(g, by, limit), Changes(e, f, t), ids)
         IN /\ Grid(h, S) /\ Height(h) = Height(g) /\ (limit = 0 /\ g.back = 0 => h.back = 0)
            /\ \A i \in 1..Height(g) : Screen(h)[i] = Decoded(f.seen[i], ids) \/
                 \E j \in 1..Height(g) : Screen(h)[i] = Screen(g)[j] /\ f.seen[i] = e.seen[j]
<1> DEFINE by == ScrolledBy(e, t)
           r == ScrollUp(g, by, limit)
           rows == Changes(e, f, t)
           h == Written(r, rows, ids)
           H == Height(g)
<1>1. H \in Nat \ {0} /\ Height(t[1]) = H /\ g.back \in Nat /\ g.back + H = Len(g.lines)
  BY GridIs
<1>2. /\ e.seen \in Seq(Pays(e.attrs)) /\ Len(e.seen) = H
      /\ f.seen \in Seq(Pays(f.attrs)) /\ Len(f.seen) = H /\ DOMAIN f.seen = 1..H
  BY <1>1 DEF EncoderOk, Sent
<1>3. by \in 0..(H - 1) /\ by \in 0..Height(g)
  <2>1. by \in 0..(H - 1)
    BY <1>1, <1>2, ScrolledByIs
  <2> QED BY <1>1, <2>1
<1>4. \A i \in 1..H : Shifted(e, t)[i] = IF i + by <= H THEN e.seen[i + by] ELSE Unseen
  <2>1. Height(Active(t)) = H
    BY <1>1, TermIs
  <2> QED BY <1>1, <1>2, <2>1 DEF Shifted
<1>5. Parcel(rows, r, S, ids, high)
  OBVIOUS
<1> HIDE DEF by
<1>6. /\ Grid(r, S) /\ Height(r) = H /\ r.back = Least(g.back + by, limit)
  BY <1>3, ScrollUpIs
<1>7. \A i \in 1..Height(g) : i + by <= Height(g) => r.lines[r.back + i] = g.lines[g.back + i + by]
  BY <1>3, ScrollUpIs
<1> HIDE DEF r
<1>8. DOMAIN rows = {i \in 1..H : Shifted(e, t)[i] # f.seen[i]}
      /\ \A i \in DOMAIN rows : rows[i] = f.seen[i]
  BY <1>2 DEF Changes, Differ
<1> HIDE DEF rows
<1>9. /\ Grid(h, S) /\ Height(h) = Height(r) /\ h.back = r.back
  BY <1>5, <1>6, WrittenIs
<1>10. \A i \in 1..Height(r) : /\ i \in DOMAIN rows => h.lines[r.back + i] = Decoded(rows[i], ids)
                               /\ i \notin DOMAIN rows => h.lines[r.back + i] = r.lines[r.back + i]
  BY <1>5, <1>6, WrittenIs
<1> HIDE DEF h
<1>11. limit = 0 /\ g.back = 0 => h.back = 0
  BY <1>1, <1>3, <1>6, <1>9 DEF Least
<1>12. \A i \in 1..H : Screen(h)[i] = h.lines[h.back + i]
  BY <1>6, <1>9, ScreenIs
<1>13. \A i \in 1..H : Screen(g)[i] = g.lines[g.back + i]
  BY ScreenIs
<1>14. ASSUME NEW i \in 1..H
       PROVE  Screen(h)[i] = Decoded(f.seen[i], ids) \/
                \E j \in 1..H : Screen(h)[i] = Screen(g)[j] /\ f.seen[i] = e.seen[j]
  <2>1. CASE i \in DOMAIN rows
    BY <1>6, <1>8, <1>9, <1>10, <1>12, <2>1
  <2>2. CASE i \notin DOMAIN rows
    <3>1. Shifted(e, t)[i] = f.seen[i]
      BY <1>8, <2>2
    <3>2. f.seen[i] # Unseen
      <4>1. f.seen[i] \in Pays(f.attrs)
        BY <1>2, ElementOfSeq
      <4> QED BY <4>1 DEF Pays, Unseen
    <3>3. i + by <= H
      BY <1>4, <3>1, <3>2
    <3> DEFINE j == i + by
    <3>4. j \in 1..H /\ j <= H
      BY <1>1, <1>3, <3>3
    <3>5. f.seen[i] = e.seen[j]
      BY <1>4, <3>1, <3>3
    <3>6. g.back + i + by = g.back + j
      <4> DEFINE b == g.back
      <4>1. b \in Int /\ i \in Int /\ by \in Int
        BY <1>1, <1>3
      <4> HIDE DEF b
      <4>2. b + i + by = b + (i + by)
        BY <4>1
      <4> QED BY <4>2 DEF b
    <3>7. r.lines[r.back + i] = g.lines[g.back + i + by]
      BY <1>7, <3>3
    <3> HIDE DEF j
    <3>8. Screen(h)[i] = Screen(g)[j]
      BY <1>6, <1>9, <1>10, <1>12, <1>13, <2>2, <3>4, <3>6, <3>7
    <3> QED BY <3>4, <3>5, <3>8
  <2> QED BY <2>1, <2>2
<1>15. Height(h) = H
  BY <1>6, <1>9
<1> QED BY <1>9, <1>11, <1>14, <1>15 DEF h, r, rows, by

DeltaNow(other) == DeltaOf(enc, Encoded(enc, host), host, other)
Spill == Ids(SubSeq(Screen(Active(Switched(view, InAlt(host)))), 1, ScrolledBy(enc, host)))
           \cap Ids(Screen(Active(host)))

(* What a delta that is applied does: no operation of it fails, the replica is on the host's screen
   and of its height, learns the table, and shows what the shadow stands for if it did before and no
   screen was crossed. *)
LEMMA DeltaIs ==
  ASSUME Sound(host), Term(view), EncoderOk(enc), Len(enc.seen) = Height(host[1]), Following, ~asked,
         NEW other, enc' = Drained(Encoded(enc, host)), ApplyDelta(DeltaNow(other)), UNCHANGED host
  PROVE  /\ Term(view') /\ InAlt(view') = InAlt(host) /\ Height(view'[1]) = Height(host[1])
         /\ Knows(enc'.attrs, table') /\ (KnowsWell(enc.attrs, table) => KnowsWell(enc'.attrs, table'))
         /\ ~behind' /\ ~asked'
         /\ (InAlt(host) => view'[1] = view[1])
         /\ (~InAlt(host) =>
               /\ ScrolledBy(enc, host) \in 0..Height(view[1])
               /\ view'[1] = Written(ScrollUp(view[1], ScrolledBy(enc, host), Keep),
                                     Changes(enc, enc', host), table')
               /\ Parcel(Changes(enc, enc', host), ScrollUp(view[1], ScrolledBy(enc, host), Keep),
                         Main, table', host[1].next))
         /\ marks' = marks \cup (IF InAlt(host) # enc.alt THEN {"crossed", "mixed"} ELSE {})
                           \cup (IF Spill # {} THEN {"misfiled"} ELSE {})
         /\ (InAlt(host) = enc.alt /\ Shows(enc, view) => Shows(enc', view'))
         /\ (InAlt(host) = enc.alt /\ ShowsWell(enc, view, table) => ShowsWell(enc', view', table'))
         /\ UNCHANGED <<cleared, drained>>
<1> DEFINE f == Encoded(enc, host)
           d == DeltaNow(other)
           alt == InAlt(host)
           H == Height(host[1])
           z == enc'
           by == ScrolledBy(enc, host)
           rows == Changes(enc, z, host)
           shown == Switched(view, alt)
           A == Active(shown)
           keep == Room(shown, Keep)
           ids == Learn(table, Defs(z.attrs) \ Defs(enc.attrs))
           g == ScrollUp(A, by, keep)
           h == Written(g, rows, ids)
           S == Printed(host)
           high == Active(host).next
<1>1. /\ Term(host) /\ alt \in BOOLEAN /\ H \in Nat \ {0} /\ Keep \in Nat
      /\ high \in Nat /\ Level(Active(host)) /\ Grid(Active(host), S) /\ Height(Active(host)) = H
      /\ Main \subseteq S /\ Blank \in S /\ Blank \in Main /\ S \subseteq All
      /\ (~alt => Active(host) = host[1] /\ S = Main)
  <2>1. Term(host) /\ Level(Active(host))
    BY DEF Sound
  <2>2. /\ alt \in BOOLEAN /\ H \in Nat \ {0} /\ Grid(Active(host), S) /\ Height(Active(host)) = H
        /\ S \in {Main, All} /\ (~alt => Active(host) = host[1] /\ S = Main)
    BY <2>1, TermIs DEF Printed
  <2>3. Active(host).next \in Nat
    BY <2>2, GridIs
  <2>4. Main \subseteq S /\ Blank \in S /\ Blank \in Main /\ S \subseteq All
    BY <2>2 DEF Main, All
  <2> QED BY <2>1, <2>2, <2>3, <2>4, CodecAssumption
<1>2. /\ Sent(z, host) /\ z.attrs = f.attrs /\ z.seen = f.seen
      /\ Grows(enc.attrs, z.attrs) /\ f.pending = Defs(z.attrs) \ Defs(enc.attrs)
      /\ f.alt = alt
  BY <1>1, SentIs
<1>3. rows = Changes(enc, f, host)
  BY <1>2 DEF Changes, Differ
<1> HIDE DEF f
<1>4. /\ d.attrs = Defs(z.attrs) \ Defs(enc.attrs) /\ d.alt = alt /\ d.scroll = by /\ d.rows = rows
      /\ d.switch = (alt # enc.alt)
  BY <1>2, <1>3 DEF DeltaNow, DeltaOf, Changes, Differ, f
<1> HIDE DEF d
<1>5. /\ view' = WithActive(shown, h) /\ table' = ids
      /\ LET clean == \A i \in DOMAIN rows : i <= Height(g) /\ Known(rows[i], ids)
         IN behind' = ~clean /\ asked' = ~clean
      /\ marks' = marks \cup (IF alt # enc.alt THEN {"crossed", "mixed"} ELSE {})
                        \cup (IF Spill # {} THEN {"misfiled"} ELSE {})
      /\ UNCHANGED <<cleared, drained>>
  BY <1>4 DEF ApplyDelta, Spill, d
<1>6. /\ Len(enc.seen) = Height(view[1]) /\ enc.alt = InAlt(view) /\ Knows(enc.attrs, table)
      /\ H = Height(view[1])
  BY DEF Following
<1>7. AttrTable(enc.attrs) /\ AttrTable(z.attrs) /\ EncoderOk(z)
  BY <1>2 DEF EncoderOk, Sent
<1>8. /\ Knows(z.attrs, ids) /\ (KnowsWell(enc.attrs, table) => KnowsWell(z.attrs, ids))
  <2> DEFINE a == enc.attrs
             b == z.attrs
  <2>1. AttrTable(a) /\ AttrTable(b) /\ Grows(a, b) /\ Knows(a, table)
    BY <1>2, <1>6, <1>7
  <2> HIDE DEF a, b
  <2>2. LET u == Learn(table, Defs(b) \ Defs(a))
        IN Knows(b, u) /\ (KnowsWell(a, table) => KnowsWell(b, u))
    BY <2>1, LearnNew
  <2> QED BY <2>2 DEF a, b
<1>9. \A t \in DOMAIN enc.attrs : /\ enc.attrs[t] \in DOMAIN table /\ enc.attrs[t] \in DOMAIN ids
                                  /\ ids[enc.attrs[t]] = table[enc.attrs[t]]
  <2> DEFINE a == enc.attrs
             b == z.attrs
  <2>1. AttrTable(a) /\ AttrTable(b) /\ Grows(a, b) /\ Knows(a, table)
    BY <1>2, <1>6, <1>7
  <2> HIDE DEF a, b
  <2>2. LET u == Learn(table, Defs(b) \ Defs(a))
        IN Undisturbed(a, table, u)
    BY <2>1, LearnNew
  <2> QED BY <2>2 DEF a, b, Undisturbed
<1> HIDE DEF ids, z, by, alt, H, S, high
<1>10. Term(shown) /\ InAlt(shown) = alt /\ shown[1] = view[1] /\ (alt = InAlt(view) => shown = view)
  BY <1>1, SwitchedIs
<1> HIDE DEF shown
<1>11. /\ Grid(A, S) /\ Height(A) = H /\ (alt => A.back = 0) /\ (~alt => A = view[1])
       /\ keep \in Nat /\ (alt => keep = 0) /\ (~alt => keep = Keep) /\ Printed(shown) = S
  <2>1. Printed(shown) = S
    BY <1>10 DEF Printed, S, alt
  <2>2. /\ Grid(A, Printed(shown)) /\ Height(A) = H
        /\ (alt => A.back = 0) /\ (~alt => A = shown[1])
    BY <1>6, <1>10, TermIs
  <2>3. keep = IF alt THEN 0 ELSE Keep
    BY <1>10 DEF Room
  <2> QED BY <1>1, <1>10, <2>1, <2>2, <2>3
<1> HIDE DEF A, keep
<1>12. by \in 0..Height(A)
  <2>1. enc.seen \in Seq(Pays(enc.attrs)) /\ Len(enc.seen) = H
    BY DEF EncoderOk, H
  <2>2. by \in 0..(H - 1)
    BY <1>1, <2>1, ScrolledByIs DEF by
  <2> QED BY <1>1, <1>11, <2>2
<1>13. Height(g) = H
  <2>1. Blank \in S /\ Grid(A, S) /\ by \in 0..Height(A) /\ keep \in Nat /\ Height(A) = H
    BY <1>1, <1>11, <1>12
  <2>2. Height(g) = Height(A)
    BY <2>1, ScrollUpIs
  <2> QED BY <2>1, <2>2
<1>14. \A i \in DOMAIN rows : i \in 1..H /\ rows[i] = z.seen[i]
  BY <1>2 DEF Changes, Differ, Sent, H
<1> HIDE DEF rows, g
<1>15. \A i \in 1..H : /\ Known(z.seen[i], ids) /\ Decoded(z.seen[i], ids) \in Rows(S)
                       /\ z.seen[i].line \in Nat /\ z.seen[i].line < high
                       /\ Decoded(z.seen[i], ids).id = z.seen[i].line
  <2> SUFFICES ASSUME NEW i \in 1..H
               PROVE  /\ Known(z.seen[i], ids) /\ Decoded(z.seen[i], ids) \in Rows(S)
                      /\ z.seen[i].line \in Nat /\ z.seen[i].line < high
                      /\ Decoded(z.seen[i], ids).id = z.seen[i].line
    OBVIOUS
  <2> DEFINE row == Screen(Active(host))[i]
             attrs == z.attrs
  <2>1. /\ z.seen[i] = Payload(attrs, row) /\ z.seen[i].line = row.id
        /\ Covers(attrs, Screen(Active(host)))
    BY <1>2 DEF Sent, H
  <2>2. row \in Rows(S) /\ row.id \in Nat /\ row.text \in S /\ row.id < high
    <3>1. /\ Screen(Active(host)) \in Seq(Rows(S)) /\ Len(Screen(Active(host))) = H
      BY <1>1, ScreenIs
    <3>2. row.id < high
      BY <1>1, ScreenUnder DEF high
    <3> QED BY <3>1, <3>2, SeqOfRows
  <2>3. row.text = Blank \/ row.text \in DOMAIN attrs
    <3>1. Len(Screen(Active(host))) = H
      BY <1>1, ScreenIs
    <3> QED BY <2>1, <3>1 DEF Covers
  <2>4. row \in Rows(All)
    BY <1>1, <2>2 DEF Rows
  <2>5. AttrTable(attrs) /\ Knows(attrs, ids)
    BY <1>7, <1>8
  <2> HIDE DEF row, attrs
  <2>6. Decoded(Payload(attrs, row), ids) \in Rows(S)
    BY <1>1, <2>2, <2>3, <2>4, <2>5, PayloadIs
  <2>7. Known(Payload(attrs, row), ids)
    BY <2>3, <2>4, <2>5, PayloadIs
  <2>8. Decoded(z.seen[i], ids).id = z.seen[i].line
    BY DEF Decoded, Row
  <2> QED BY <2>1, <2>2, <2>6, <2>7, <2>8
<1>16. Parcel(rows, g, S, ids, high)
  BY <1>13, <1>14, <1>15 DEF Parcel
<1>17. ~behind' /\ ~asked'
  <2>1. \A i \in DOMAIN rows : i <= Height(g) /\ Known(rows[i], ids)
    BY <1>1, <1>13, <1>14, <1>15
  <2> QED BY <1>5, <2>1
<1>18. /\ Grid(h, S) /\ Height(h) = H /\ (keep = 0 /\ A.back = 0 => h.back = 0)
  <2> DEFINE e == enc
  <2>1. /\ Height(A) = Height(host[1]) /\ Len(e.seen) = Height(host[1]) /\ EncoderOk(e)
        /\ Parcel(Changes(e, z, host), ScrollUp(A, ScrolledBy(e, host), keep), S, ids, high)
    BY <1>11, <1>16 DEF H, rows, g, by
  <2> HIDE DEF e
  <2> DEFINE u == Written(ScrollUp(A, ScrolledBy(e, host), keep), Changes(e, z, host), ids)
  <2>2. Grid(u, S) /\ Height(u) = Height(A)
    BY <1>1, <1>2, <1>11, <2>1, ChangedIs
  <2>3. keep = 0 /\ A.back = 0 => u.back = 0
    BY <1>1, <1>2, <1>11, <2>1, ChangedIs
  <2> HIDE DEF u
  <2>4. h = u
    BY DEF u, g, rows, by, e
  <2> HIDE DEF h
  <2> QED BY <1>11, <2>2, <2>3, <2>4
<1>19. \A i \in 1..H : Screen(h)[i] = Decoded(z.seen[i], ids) \/
                         \E j \in 1..H : Screen(h)[i] = Screen(A)[j] /\ z.seen[i] = enc.seen[j]
  <2> DEFINE e == enc
  <2>1. /\ Height(A) = Height(host[1]) /\ Len(e.seen) = Height(host[1]) /\ EncoderOk(e)
        /\ Parcel(Changes(e, z, host), ScrollUp(A, ScrolledBy(e, host), keep), S, ids, high)
    BY <1>11, <1>16 DEF H, rows, g, by
  <2> HIDE DEF e
  <2> DEFINE u == Written(ScrollUp(A, ScrolledBy(e, host), keep), Changes(e, z, host), ids)
  <2>2. \A i \in 1..Height(A) : Screen(u)[i] = Decoded(z.seen[i], ids) \/
                         \E j \in 1..Height(A) : Screen(u)[i] = Screen(A)[j] /\ z.seen[i] = e.seen[j]
    BY <1>1, <1>2, <1>11, <2>1, ChangedIs
  <2> HIDE DEF u
  <2>3. h = u
    BY DEF u, g, rows, by, e
  <2> HIDE DEF h
  <2> QED BY <1>11, <2>2, <2>3 DEF e
<1> HIDE DEF h
<1>20. /\ Term(view') /\ InAlt(view') = alt /\ Active(view') = h /\ Height(view'[1]) = H
       /\ (alt => view'[1] = view[1]) /\ (~alt => view'[1] = h)
  <2>1. Height(h) = Height(shown[1])
    BY <1>6, <1>10, <1>18
  <2> QED BY <1>5, <1>6, <1>10, <1>11, <1>18, <2>1, WithActiveIs
<1>21. alt = enc.alt => Active(view) = A
  BY <1>6, <1>10 DEF A
<1>22. Len(z.seen) = H /\ Len(enc.seen) = H
  BY <1>2 DEF Sent, H
<1>23. ASSUME alt = enc.alt, Shows(enc, view) PROVE Shows(z, view')
  BY <1>15, <1>19, <1>20, <1>21, <1>22, <1>23 DEF Shows
<1>24. ASSUME alt = enc.alt, ShowsWell(enc, view, table) PROVE ShowsWell(z, view', ids)
  <2>1. ASSUME NEW j \in 1..H PROVE Decoded(enc.seen[j], ids) = Decoded(enc.seen[j], table)
    <3> DEFINE p == enc.seen[j]
    <3>1. p \in Pays(enc.attrs)
      <4>1. enc.seen \in Seq(Pays(enc.attrs))
        BY DEF EncoderOk
      <4> QED BY <1>22, <4>1, ElementOfSeq
    <3>2. p.run = NoRun \/ \E t \in DOMAIN enc.attrs : p.run = enc.attrs[t]
      BY <3>1 DEF Pays, Runs
    <3> HIDE DEF p
    <3>3. Decoded(p, ids) = Decoded(p, table)
      BY <1>9, <3>2 DEF Decoded, Known
    <3> QED BY <3>3 DEF p
  <2>2. ASSUME NEW i \in 1..H PROVE Screen(h)[i] = Decoded(z.seen[i], ids)
    <3>1. CASE \E j \in 1..H : Screen(h)[i] = Screen(A)[j] /\ z.seen[i] = enc.seen[j]
      <4>1. PICK j \in 1..H : Screen(h)[i] = Screen(A)[j] /\ z.seen[i] = enc.seen[j]
        BY <3>1
      <4>2. Screen(A)[j] = Decoded(enc.seen[j], table)
        BY <1>21, <1>22, <1>24 DEF ShowsWell
      <4> QED BY <2>1, <4>1, <4>2
    <3> QED BY <1>19, <3>1
  <2> QED BY <1>20, <1>22, <2>2 DEF ShowsWell
<1>25. ~alt => /\ by \in 0..Height(view[1])
               /\ view'[1] = Written(ScrollUp(view[1], by, Keep), rows, ids)
               /\ Parcel(rows, ScrollUp(view[1], by, Keep), Main, ids, host[1].next)
  <2> SUFFICES ASSUME ~alt
               PROVE  /\ by \in 0..Height(view[1])
                      /\ view'[1] = Written(ScrollUp(view[1], by, Keep), rows, ids)
                      /\ Parcel(rows, ScrollUp(view[1], by, Keep), Main, ids, host[1].next)
    OBVIOUS
  <2>1. A = view[1] /\ keep = Keep /\ S = Main /\ high = host[1].next
    BY <1>1, <1>11 DEF high
  <2>2. g = ScrollUp(view[1], by, Keep)
    BY <2>1 DEF g
  <2>3. h = Written(ScrollUp(view[1], by, Keep), rows, ids)
    BY <2>2 DEF h
  <2> QED BY <1>12, <1>16, <1>20, <2>1, <2>2, <2>3
<1> QED BY <1>5, <1>8, <1>17, <1>20, <1>23, <1>24, <1>25 DEF z, by, rows, alt, H

-----------------------------------------------------------------------------
(* An encoder that has said nothing has a table. *)
LEMMA EmptyTable ==
  AttrTable(<<>>)
<1>1. DOMAIN <<>> = {}
  OBVIOUS
<1>2. <<>> = [t \in DOMAIN <<>> |-> <<>>[t]]
  OBVIOUS
<1> QED BY <1>1, <1>2 DEF AttrTable

(* Whoever learns a whole table knows it well, and has lost what it gave away. *)
LEMMA LearnAll ==
  ASSUME NEW attrs, AttrTable(attrs), NEW known
  PROVE  LET ids == Learn(known, Defs(attrs))
         IN /\ KnowsWell(attrs, ids)
            /\ \A id \in DOMAIN known :
                 id \in DOMAIN ids /\ (ids[id] = known[id] \/ ids[id] \in DOMAIN attrs)
<1> DEFINE defs == Defs(attrs)
           ids == Learn(known, defs)
<1>1. defs \in SUBSET Defs(attrs)
  OBVIOUS
<1>2. \A t \in DOMAIN attrs : \E d \in defs : d.id = attrs[t] /\ d.text = t
  <2> SUFFICES ASSUME NEW t \in DOMAIN attrs PROVE \E d \in defs : d.id = attrs[t] /\ d.text = t
    OBVIOUS
  <2> DEFINE d == [id |-> attrs[t], text |-> t]
  <2>1. d \in defs /\ d.id = attrs[t] /\ d.text = t
    BY DEF Defs
  <2> QED BY <2>1
<1>3. \A d \in defs : d.text \in DOMAIN attrs
  BY DEF Defs
<1> HIDE DEF defs
<1>4. DOMAIN ids = DOMAIN known \cup {d.id : d \in defs}
  BY <1>1, LearnIs
<1>5. \A d \in defs : ids[d.id] = d.text
  BY <1>1, LearnIs
<1>6. ASSUME NEW id \in DOMAIN known, \A d \in defs : d.id # id
      PROVE  ids[id] = known[id]
  BY <1>6 DEF Learn
<1> HIDE DEF ids
<1>7. KnowsWell(attrs, ids)
  BY <1>2, <1>4, <1>5 DEF KnowsWell
<1>8. \A id \in DOMAIN known :
        id \in DOMAIN ids /\ (ids[id] = known[id] \/ ids[id] \in DOMAIN attrs)
  BY <1>3, <1>4, <1>5, <1>6
<1> QED BY <1>7, <1>8 DEF ids, defs

(* A page of history is of rows that have left the host's main screen. *)
LEMMA HistoryPageIs ==
  ASSUME Sound(host)
  PROVE  /\ HistoryPage \in Seq(Rows(Main))
         /\ InAlt(host) => Len(HistoryPage) = 0
         /\ ~InAlt(host) => \A i \in 1..Len(HistoryPage) :
              \E j \in 1..host[1].back : HistoryPage[i] = host[1].lines[j]
<1> DEFINE g == Active(host)
           S == Printed(host)
           history == History(g)
           L == {i \in DOMAIN history : history[i].id >= wanted}
           past == Picked(history, L)
           n == Least(Len(past), Page)
           page == SubSeq(past, 1, n)
           R == Rows(S)
<1>1. Term(host) /\ Grid(g, S) /\ InAlt(host) \in BOOLEAN
      /\ (InAlt(host) => g.back = 0) /\ (~InAlt(host) => g = host[1] /\ S = Main)
  BY TermIs DEF Sound
<1> HIDE DEF S, g
<1>2. g.lines \in Seq(R) /\ g.back \in Nat /\ g.back < Len(g.lines)
  BY <1>1, GridIs
<1> HIDE DEF R
<1>3. /\ history \in Seq(R) /\ Len(history) = g.back
      /\ \A i \in 1..g.back : history[i] = g.lines[i]
  BY <1>2, SubSeqProperties DEF History
<1> HIDE DEF history
<1>4. L \in SUBSET (1..Len(history))
  BY <1>3
<1> HIDE DEF L
<1>5. /\ past \in Seq(R) /\ Len(past) = Cardinality(L)
      /\ \A i \in 1..Cardinality(L) : Nth(L, i) \in L /\ past[i] = history[Nth(L, i)]
  BY <1>3, <1>4, PickedIs
<1>6. Len(past) \in Nat /\ Page \in Nat
  BY <1>5, CodecAssumption
<1>7. \A i \in 1..Len(past) : \E j \in 1..g.back : past[i] = g.lines[j]
  <2> SUFFICES ASSUME NEW i \in 1..Len(past) PROVE \E j \in 1..g.back : past[i] = g.lines[j]
    OBVIOUS
  <2>1. Nth(L, i) \in 1..g.back /\ past[i] = history[Nth(L, i)]
    BY <1>3, <1>4, <1>5
  <2> QED BY <1>3, <2>1
<1> HIDE DEF past
<1>8. n \in Nat /\ n <= Len(past)
  BY <1>6 DEF Least
<1> HIDE DEF n
<1>9. page \in Seq(R) /\ Len(page) = n /\ \A i \in 1..n : page[i] = past[i]
  BY <1>5, <1>6, <1>8, SubSeqProperties
<1> HIDE DEF page
<1>10. \A i \in 1..Len(page) : \E j \in 1..g.back : page[i] = g.lines[j]
  BY <1>6, <1>7, <1>8, <1>9
<1>11. HistoryPage = page
  BY DEF HistoryPage, page, n, past, L, history, g
<1>12. CASE InAlt(host)
  <2>1. \A i \in 1..Len(page) : FALSE
    BY <1>1, <1>10, <1>12
  <2>2. Len(page) \in Nat
    BY <1>8, <1>9
  <2>3. Len(page) = 0
    BY <2>1, <2>2
  <2>4. page \in Seq(Rows(Main))
    <3>1. page = <<>>
      BY <1>9, <2>3, EmptySeq
    <3> QED BY <3>1
  <2> QED BY <1>11, <1>12, <2>3, <2>4
<1>13. CASE ~InAlt(host)
  <2>1. g = host[1] /\ R = Rows(Main)
    BY <1>1, <1>13 DEF R
  <2> QED BY <1>9, <1>10, <1>11, <1>13, <2>1
<1> QED BY <1>12, <1>13

(* What a page of history does to a replica. *)
LEMMA PageIs ==
  ASSUME Sound(host), Term(view), TakeHistory
  PROVE  /\ Term(view') /\ InAlt(view') = InAlt(view) /\ Height(view'[1]) = Height(view[1])
         /\ \A i \in 1..Height(view[1]) : Screen(Active(view'))[i] = Screen(Active(view))[i]
         /\ (InAlt(view) => view'[1] = view[1])
         /\ view'[1].next = view[1].next
         /\ \A i \in 1..Len(view'[1].lines) :
              \/ \E j \in 1..Len(view[1].lines) : view'[1].lines[i] = view[1].lines[j]
              \/ ~InAlt(host) /\ \E j \in 1..host[1].back : view'[1].lines[i] = host[1].lines[j]
         /\ \A id \in DOMAIN table :
              id \in DOMAIN table' /\ (table'[id] = table[id] \/ table'[id] \in Texts)
         /\ marks \subseteq marks' /\ marks' \subseteq marks \cup {"restyled", "spilled"}
         /\ ("restyled" \notin marks' => \A id \in DOMAIN table : table'[id] = table[id])
         /\ ("spilled" \notin marks' => Ascending(Active(view').lines))
         /\ UNCHANGED <<plan, hostVars, moved, owed, enc, behind, cleared, asked>>
<1> DEFINE rows == HistoryPage
           attrs == Interned(<<>>, rows)
           ids == Learn(table, Defs(attrs))
           page == [i \in DOMAIN rows |-> Decoded(Payload(attrs, rows[i]), ids)]
           g == Active(view)
           S == Printed(view)
           keep == Room(view, Keep)
           named == Ids(page)
           r == DropHistory(g, named)
           h == Prepend(r, page, keep)
<1>1. /\ rows \in Seq(Rows(Main)) /\ Len(rows) \in Nat
      /\ InAlt(host) => Len(rows) = 0
      /\ ~InAlt(host) => \A i \in 1..Len(rows) : \E j \in 1..host[1].back : rows[i] = host[1].lines[j]
  BY HistoryPageIs
<1>2. /\ view' = WithActive(view, h) /\ table' = ids
      /\ marks' = marks
          \cup (IF \E id \in DOMAIN table : ids[id] # table[id] THEN {"restyled"} ELSE {})
          \cup (IF Ascending(Active(view').lines) THEN {} ELSE {"spilled"})
      /\ UNCHANGED <<plan, hostVars, moved, owed, enc, behind, cleared, asked>>
  BY DEF TakeHistory, Paged
<1> HIDE DEF rows
<1>3. Main \subseteq All /\ Main \subseteq S /\ Rows(Main) \subseteq Rows(All) /\ Rows(Main) \subseteq Rows(S)
  BY DEF Main, All, S, Printed, Rows
<1>4. rows \in Seq(Rows(All)) /\ rows \in Seq(Rows(S))
  <2> DEFINE A == Rows(Main)
             B == Rows(All)
             C == Rows(S)
  <2>1. rows \in Seq(A) /\ A \subseteq B /\ A \subseteq C
    BY <1>1, <1>3
  <2> HIDE DEF A, B, C
  <2>2. rows \in Seq(B) /\ rows \in Seq(C)
    BY <2>1
  <2> QED BY <2>2 DEF B, C
<1>5. /\ AttrTable(attrs)
      /\ \A i \in 1..Len(rows) : rows[i].text = Blank \/ rows[i].text \in DOMAIN attrs
      /\ \A t \in DOMAIN attrs : \E i \in 1..Len(rows) : t = rows[i].text
  <2> DEFINE none == <<>>
  <2>1. AttrTable(none) /\ DOMAIN none = {}
    BY EmptyTable
  <2> HIDE DEF none
  <2> DEFINE a == Interned(none, rows)
  <2>2. AttrTable(a)
    BY <1>4, <2>1, InternedIs
  <2>3. \A i \in 1..Len(rows) : rows[i].text = Blank \/ rows[i].text \in DOMAIN a
    BY <1>4, <2>1, InternedIs
  <2>4. \A t \in DOMAIN a : t \in DOMAIN none \/ \E i \in 1..Len(rows) : t = rows[i].text
    BY <1>4, <2>1, InternedIs
  <2> HIDE DEF a
  <2>5. attrs = a
    BY DEF a, none
  <2> HIDE DEF attrs
  <2> QED BY <2>1, <2>2, <2>3, <2>4, <2>5
<1> HIDE DEF attrs
<1>6. DOMAIN attrs \subseteq Texts
  <2>1. Blank \notin DOMAIN attrs
    BY <1>5, CodecAssumption DEF AttrTable
  <2>2. \A i \in 1..Len(rows) : rows[i].text \in Main
    BY <1>1, SeqOfRows
  <2> QED BY <1>5, <2>1, <2>2 DEF Main
<1>7. /\ KnowsWell(attrs, ids)
      /\ \A id \in DOMAIN table : id \in DOMAIN ids /\ (ids[id] = table[id] \/ ids[id] \in Texts)
  BY <1>5, <1>6, LearnAll
<1> HIDE DEF ids
<1>8. page = rows
  <2>1. DOMAIN rows = 1..Len(rows) /\ \A i \in 1..Len(rows) : rows[i] \in Rows(All)
    BY <1>4, SeqOfRows
  <2>2. ASSUME NEW i \in 1..Len(rows) PROVE Decoded(Payload(attrs, rows[i]), ids) = rows[i]
    <3> DEFINE row == rows[i]
    <3>1. row \in Rows(All) /\ (row.text = Blank \/ row.text \in DOMAIN attrs)
      BY <1>5, <2>1
    <3> HIDE DEF row
    <3>2. Decoded(Payload(attrs, row), ids) = row
      BY <1>5, <1>7, <3>1, PayloadIs
    <3> QED BY <3>2 DEF row
  <2>3. rows = [i \in 1..Len(rows) |-> rows[i]]
    BY <1>1
  <2> QED BY <2>1, <2>2, <2>3
<1> HIDE DEF page, named
<1>9. /\ Grid(g, S) /\ keep \in Nat /\ (InAlt(view) => g.back = 0 /\ keep = 0)
      /\ (~InAlt(view) => g = view[1] /\ view = <<view[1]>>) /\ Height(g) = Height(view[1])
      /\ InAlt(view) \in BOOLEAN
  BY CodecAssumption, TermIs DEF Room
<1> HIDE DEF g, S, keep
<1>10. /\ Grid(r, S) /\ Height(r) = Height(g) /\ r.next = g.next
       /\ (g.back = 0 => r.back = 0)
  BY <1>9, DropHistoryIs
<1>11. \A i \in 1..Height(g) : r.lines[r.back + i] = g.lines[g.back + i]
  BY <1>9, DropHistoryIs
<1>12. \A i \in 1..Len(r.lines) : \E j \in 1..Len(g.lines) : r.lines[i] = g.lines[j]
  <2>1. Within(r.lines, g.lines)
    BY <1>9, DropHistoryIs
  <2>2. r.lines \in Seq(Rows(S)) /\ g.lines \in Seq(Rows(S))
    BY <1>9, <1>10, GridIs
  <2> HIDE DEF r
  <2> DEFINE a == r.lines
             b == g.lines
  <2>3. a \in Seq(Rows(S)) /\ b \in Seq(Rows(S)) /\ Within(a, b)
    BY <2>1, <2>2
  <2> HIDE DEF a, b
  <2>4. \A i \in 1..Len(a) : \E j \in 1..Len(b) : a[i] = b[j]
    BY <2>3, WithinKeeps
  <2> QED BY <2>4 DEF a, b
<1> HIDE DEF r
<1>13. rows \in Seq(Rows(S)) /\ page \in Seq(Rows(S))
  BY <1>4, <1>8
<1>14. /\ Grid(h, S) /\ Height(h) = Height(r) /\ h.next = r.next
       /\ (keep = 0 => h.back = r.back)
  BY <1>9, <1>10, <1>13, PrependIs
<1>15. \A i \in 1..Height(r) : h.lines[h.back + i] = r.lines[r.back + i]
  BY <1>9, <1>10, <1>13, PrependIs
<1>16. \A i \in 1..Len(h.lines) : \/ \E j \in 1..Len(page) : h.lines[i] = page[j]
                                  \/ \E j \in 1..Len(r.lines) : h.lines[i] = r.lines[j]
  BY <1>9, <1>10, <1>13, PrependIs, SMTT(30)
<1> HIDE DEF h
<1>17. /\ Grid(h, S) /\ Height(h) = Height(view[1]) /\ (InAlt(view) => h.back = 0)
  BY <1>9, <1>10, <1>14
<1>18. /\ Term(view') /\ InAlt(view') = InAlt(view) /\ Active(view') = h /\ Height(view'[1]) = Height(view[1])
       /\ (InAlt(view) => view'[1] = view[1]) /\ (~InAlt(view) => view'[1] = h)
  BY <1>2, <1>17, WithActiveIs DEF S
<1>19. ASSUME NEW i \in 1..Height(view[1]) PROVE Screen(Active(view'))[i] = Screen(Active(view))[i]
  <2>1. Screen(h)[i] = h.lines[h.back + i]
    BY <1>17, ScreenIs
  <2>2. Screen(g)[i] = g.lines[g.back + i]
    BY <1>9, ScreenIs
  <2>3. Screen(h)[i] = Screen(g)[i]
    BY <1>9, <1>10, <1>11, <1>14, <1>15, <2>1, <2>2
  <2> QED BY <1>18, <2>3 DEF g
<1>20. ASSUME NEW i \in 1..Len(view'[1].lines)
       PROVE  \/ \E j \in 1..Len(view[1].lines) : view'[1].lines[i] = view[1].lines[j]
              \/ ~InAlt(host) /\ \E j \in 1..host[1].back : view'[1].lines[i] = host[1].lines[j]
  <2>1. CASE InAlt(view)
    BY <1>18, <2>1
  <2>2. CASE ~InAlt(view)
    <3>1. view'[1] = h /\ g = view[1]
      BY <1>9, <1>18, <2>2
    <3>2. CASE \E j \in 1..Len(r.lines) : h.lines[i] = r.lines[j]
      BY <1>12, <3>1, <3>2
    <3>3. CASE \E j \in 1..Len(page) : h.lines[i] = page[j]
      <4>1. PICK j \in 1..Len(rows) : h.lines[i] = rows[j]
        BY <1>8, <3>3
      <4>2. ~InAlt(host)
        BY <1>1, <4>1
      <4> QED BY <1>1, <3>1, <4>1, <4>2
    <3> QED BY <1>16, <3>1, <3>2, <3>3
  <2> QED BY <2>1, <2>2
<1>21. view'[1].next = view[1].next
  BY <1>9, <1>10, <1>14, <1>18
<1>22. /\ marks \subseteq marks' /\ marks' \subseteq marks \cup {"restyled", "spilled"}
       /\ ("restyled" \notin marks' => \A id \in DOMAIN table : table'[id] = table[id])
       /\ ("spilled" \notin marks' => Ascending(Active(view').lines))
  BY <1>2
<1> QED BY <1>2, <1>7, <1>18, <1>19, <1>20, <1>21, <1>22

-----------------------------------------------------------------------------
(* The inductive invariant.  An encoder whose session has not moved stands for
   what the host shows; a replica that has not asked for a keyframe shows what
   the encoder stands for, the crossing of screens apart; the rows of both ends
   are above the floor of ED 3, the replica's once it has been told; and a replica
   that none of the excepted things has happened to has each row once, out of
   order only where the host has lost the row, with no row the host is yet to
   make, and every row that the host shows and the shadow does not is newer than
   all that the replica has. *)
Upto == ~moved => Sent(enc, host)

Shown ==
  ~asked /\ "crossed" \notin marks =>
    Shows(enc, view) /\ ("restyled" \notin marks => ShowsWell(enc, view, table))

Erased ==
  /\ Ascending(host[1].lines) /\ floor \in Nat /\ Low(host[1], floor)
  /\ cleared = clears => Low(view[1], floor)
  /\ ~event /\ ~owed /\ ~asked /\ "crossed" \notin marks /\ ~enc.alt => cleared = clears

Clean(m) == m \cap {"mixed", "misfiled", "spilled", "padded"} = {}

Fresher(v, m, seen) ==
  \A i \in 1..Height(m) :
    \/ \E j \in 1..Len(seen) : seen[j].line = m.lines[m.back + i].id
    \/ \A k \in 1..Len(v.lines) : v.lines[k].id < m.lines[m.back + i].id

(* The rows of a replica's main screen beside those of the host's. *)
Orderly(v, m) ==
  HeldOnce(v.lines) /\ Turned(v.lines, Ids(m.lines)) /\ AllUnder(v.lines, m.next) /\ Level(v)

Held ==
  /\ "crossed" \in marks => "mixed" \in marks
  /\ Clean(marks) => /\ Orderly(view[1], host[1])
                     /\ ~owed /\ ~enc.alt => Fresher(view[1], host[1], enc.seen)

IInv == TypeInv /\ Upto /\ Shown /\ Erased /\ Held

(* A replica is no worse beside a host that has moved on. *)
LEMMA OrderlyLater ==
  ASSUME NEW a, Grid(a, Main), NEW b, Grid(b, Main), Later(b, a), NEW v, Grid(v, Main), Orderly(v, a)
  PROVE  Orderly(v, b)
<1>1. /\ a.next \in Nat /\ b.next \in Nat /\ b.next >= a.next
      /\ DOMAIN a.lines = 1..Len(a.lines) /\ DOMAIN b.lines = 1..Len(b.lines)
      /\ \A i \in 1..Len(v.lines) : v.lines[i].id \in Nat
  BY GridIs DEF Later
<1>2. \A i \in 1..Len(v.lines) : v.lines[i].id < a.next
  BY DEF Orderly, AllUnder
<1>3. AllUnder(v.lines, b.next)
  <2> SUFFICES ASSUME NEW i \in 1..Len(v.lines) PROVE v.lines[i].id < b.next
    BY DEF AllUnder
  <2> DEFINE x == v.lines[i].id
  <2>1. x \in Nat /\ x < a.next
    BY <1>1, <1>2
  <2> HIDE DEF x
  <2>2. x < b.next
    BY <1>1, <2>1
  <2> QED BY <2>2 DEF x
<1>4. ASSUME NEW x \in Nat, x < a.next, x \in Ids(b.lines) PROVE x \in Ids(a.lines)
  <2>1. PICK i \in 1..Len(b.lines) : x = b.lines[i].id
    BY <1>1, <1>4 DEF Ids
  <2>2. PICK j \in 1..Len(a.lines) : b.lines[i].id = a.lines[j].id
    <3>1. ~(b.lines[i].id >= a.next)
      BY <1>1, <1>4, <2>1
    <3> QED BY <3>1 DEF Later
  <2> QED BY <1>1, <2>1, <2>2 DEF Ids
<1>5. Turned(v.lines, Ids(b.lines))
  <2>1. \A i \in 1..Len(v.lines) : v.lines[i].id \in Ids(b.lines) => v.lines[i].id \in Ids(a.lines)
    BY <1>1, <1>2, <1>4
  <2>2. Turned(v.lines, Ids(a.lines))
    BY DEF Orderly
  <2> QED BY <2>1, <2>2 DEF Turned
<1> QED BY <1>3, <1>5 DEF Orderly

(* What the host shows and the shadow does not is newer than the replica's rows, still, when the
   host has moved on: its other rows are new. *)
LEMMA FresherLater ==
  ASSUME NEW a, Grid(a, Main), NEW b, Grid(b, Main), LaterScreen(b, a), NEW v, Grid(v, Main),
         AllUnder(v.lines, a.next), NEW seen, Fresher(v, a, seen)
  PROVE  Fresher(v, b, seen)
<1> SUFFICES ASSUME NEW i \in 1..Height(b)
             PROVE  \/ \E j \in 1..Len(seen) : seen[j].line = b.lines[b.back + i].id
                    \/ \A k \in 1..Len(v.lines) : v.lines[k].id < b.lines[b.back + i].id
  BY DEF Fresher
<1>1. /\ a.next \in Nat /\ \A k \in 1..Len(v.lines) : v.lines[k].id \in Nat /\ v.lines[k].id < a.next
  BY GridIs DEF AllUnder
<1>2. b.lines[b.back + i].id \in Nat
  <2>1. /\ b.back \in Nat /\ Height(b) \in Nat /\ b.back + Height(b) = Len(b.lines)
        /\ \A k \in 1..Len(b.lines) : b.lines[k].id \in Nat
    BY GridIs
  <2>2. b.back + i \in 1..Len(b.lines)
    BY <2>1
  <2> QED BY <2>1, <2>2
<1> DEFINE x == b.lines[b.back + i].id
<1>3. x \in Nat /\ ((\E j \in 1..Height(a) : x = a.lines[a.back + j].id) \/ x >= a.next)
  BY <1>2 DEF LaterScreen
<1> HIDE DEF x
<1>4. CASE x >= a.next
  <2>1. \A k \in 1..Len(v.lines) : v.lines[k].id < x
    BY <1>1, <1>3, <1>4
  <2> QED BY <2>1 DEF x
<1>5. CASE \E j \in 1..Height(a) : x = a.lines[a.back + j].id
  <2>1. \/ \E j \in 1..Len(seen) : seen[j].line = x
        \/ \A k \in 1..Len(v.lines) : v.lines[k].id < x
    BY <1>5 DEF Fresher
  <2> QED BY <2>1 DEF x
<1> QED BY <1>3, <1>4, <1>5

(* The main screens of both ends are grids of what is printed on a main screen. *)
LEMMA HostGrids ==
  ASSUME Sound(host), Term(view)
  PROVE  Grid(host[1], Main) /\ Grid(view[1], Main)
BY TermIs DEF Sound

(* The host's programs keep the invariant: what they do shows in `moved` only. *)
LEMMA ProgramsKeep ==
  ASSUME IInv, Programs
  PROVE  IInv'
<1>1. /\ TypeInv /\ Upto /\ Shown /\ Erased /\ Held
      /\ Counters /\ Sound(host) /\ Term(view) /\ EncoderOk(enc)
      /\ (owed \/ Len(enc.seen) = Height(host[1]))
      /\ (asked => behind) /\ Following
  BY DEF IInv, TypeInv
<1>2. /\ MovesOn(host', host) /\ moved' = TRUE /\ deeds' = deeds + 1
      /\ UNCHANGED <<plan, owed, enc, behind, view, table, cleared, asked, wanted, drained, marks,
                     clears, floor, event>>
  BY DEF Programs
<1>3. /\ Sound(host') /\ Height(host'[1]) = Height(host[1])
      /\ Later(host'[1], host[1]) /\ LaterScreen(host'[1], host[1])
  BY <1>2 DEF MovesOn
<1>4. /\ Grid(host[1], Main) /\ Grid(view[1], Main) /\ Grid(host'[1], Main)
  BY <1>1, <1>3, HostGrids, TermIs DEF Sound
<1>5. Counters'
  BY <1>1, <1>2 DEF Counters
<1>6. TypeInv'
  BY <1>1, <1>2, <1>3, <1>5 DEF TypeInv, Following
<1>7. Upto'
  BY <1>2 DEF Upto
<1>8. Shown'
  BY <1>1, <1>2 DEF Shown
<1>9. Erased'
  <2>1. Level(host[1])
    BY <1>1 DEF Sound
  <2>2. Ascending(host'[1].lines) /\ Low(host'[1], floor)
    BY <1>1, <1>3, <2>1 DEF Later, Erased
  <2> QED BY <1>1, <1>2, <2>2 DEF Erased
<1>10. Held'
  <2> SUFFICES ASSUME Clean(marks)
               PROVE  /\ Orderly(view[1], host'[1])
                      /\ ~owed /\ ~enc.alt => Fresher(view[1], host'[1], enc.seen)
    BY <1>1, <1>2 DEF Held
  <2>1. Orderly(view[1], host[1]) /\ AllUnder(view[1].lines, host[1].next)
        /\ (~owed /\ ~enc.alt => Fresher(view[1], host[1], enc.seen))
    BY <1>1 DEF Held, Orderly
  <2> DEFINE a == host[1]
             b == host'[1]
             v == view[1]
             seen == enc.seen
  <2>2. /\ Grid(a, Main) /\ Grid(b, Main) /\ Grid(v, Main) /\ Later(b, a) /\ LaterScreen(b, a)
        /\ Orderly(v, a) /\ AllUnder(v.lines, a.next)
        /\ (~owed /\ ~enc.alt => Fresher(v, a, seen))
    BY <1>3, <1>4, <2>1
  <2> HIDE DEF a, b, v, seen
  <2>3. Orderly(v, b)
    BY <2>2, OrderlyLater
  <2>4. ~owed /\ ~enc.alt => Fresher(v, b, seen)
    BY <2>2, FresherLater
  <2> QED BY <2>3, <2>4 DEF b, v, seen
<1> QED BY <1>6, <1>7, <1>8, <1>9, <1>10 DEF IInv

(* ED 3 keeps the invariant: the replica is behind in its count of clears until it is told. *)
LEMMA EraseAllKeeps ==
  ASSUME IInv, EraseAll
  PROVE  IInv'
<1>1. /\ TypeInv /\ Upto /\ Shown /\ Erased /\ Held
      /\ Counters /\ Sound(host) /\ Term(view) /\ EncoderOk(enc)
      /\ (owed \/ Len(enc.seen) = Height(host[1]))
      /\ (asked => behind) /\ Following
  BY DEF IInv, TypeInv
<1>2. /\ MovesOn(host', host) /\ moved' = TRUE /\ deeds' = deeds + 1
      /\ clears' = clears + 1 /\ event' = TRUE /\ floor' \in Nat /\ Low(host'[1], floor')
      /\ UNCHANGED <<plan, owed, enc, behind, view, table, cleared, asked, wanted, drained, marks>>
  BY <1>1, EraseAllIs DEF Erased
<1>3. /\ Sound(host') /\ Height(host'[1]) = Height(host[1])
      /\ Later(host'[1], host[1]) /\ LaterScreen(host'[1], host[1])
  BY <1>2 DEF MovesOn
<1>4. /\ Grid(host[1], Main) /\ Grid(view[1], Main) /\ Grid(host'[1], Main)
  BY <1>1, <1>3, HostGrids, TermIs DEF Sound
<1>5. Counters' /\ cleared' # clears'
  BY <1>1, <1>2 DEF Counters
<1>6. TypeInv'
  BY <1>1, <1>2, <1>3, <1>5 DEF TypeInv, Following
<1>7. Upto'
  BY <1>2 DEF Upto
<1>8. Shown'
  BY <1>1, <1>2 DEF Shown
<1>9. Erased'
  <2>1. Level(host[1])
    BY <1>1 DEF Sound
  <2>2. Ascending(host'[1].lines)
    BY <1>1, <1>3, <2>1 DEF Later, Erased
  <2> QED BY <1>1, <1>2, <1>5, <2>2 DEF Erased
<1>10. Held'
  <2> SUFFICES ASSUME Clean(marks)
               PROVE  /\ Orderly(view[1], host'[1])
                      /\ ~owed /\ ~enc.alt => Fresher(view[1], host'[1], enc.seen)
    BY <1>1, <1>2 DEF Held
  <2>1. Orderly(view[1], host[1]) /\ AllUnder(view[1].lines, host[1].next)
        /\ (~owed /\ ~enc.alt => Fresher(view[1], host[1], enc.seen))
    BY <1>1 DEF Held, Orderly
  <2> DEFINE a == host[1]
             b == host'[1]
             v == view[1]
             seen == enc.seen
  <2>2. /\ Grid(a, Main) /\ Grid(b, Main) /\ Grid(v, Main) /\ Later(b, a) /\ LaterScreen(b, a)
        /\ Orderly(v, a) /\ AllUnder(v.lines, a.next)
        /\ (~owed /\ ~enc.alt => Fresher(v, a, seen))
    BY <1>3, <1>4, <2>1
  <2> HIDE DEF a, b, v, seen
  <2>3. Orderly(v, b)
    BY <2>2, OrderlyLater
  <2>4. ~owed /\ ~enc.alt => Fresher(v, b, seen)
    BY <2>2, FresherLater
  <2> QED BY <2>3, <2>4 DEF b, v, seen
<1> QED BY <1>6, <1>7, <1>8, <1>9, <1>10 DEF IInv

(* A resize of the host keeps the invariant: a keyframe is owed from then on. *)
LEMMA ResizeKeeps ==
  ASSUME IInv, NEW below \in Belows, NEW height \in plan.heights, Resize(height, below)
  PROVE  IInv'
<1>1. /\ TypeInv /\ Upto /\ Shown /\ Erased /\ Held
      /\ Counters /\ Sound(host) /\ Term(view) /\ EncoderOk(enc)
      /\ (asked => behind) /\ Following
  BY DEF IInv, TypeInv
<1>2. /\ Sound(host') /\ Later(host'[1], host[1])
      /\ moved' = TRUE /\ owed' = TRUE /\ deeds' = deeds + 1
      /\ UNCHANGED <<plan, enc, behind, view, table, cleared, asked, wanted, drained, marks,
                     clears, floor, event>>
  BY <1>1, ResizeIs
<1>4. /\ Grid(host[1], Main) /\ Grid(view[1], Main) /\ Grid(host'[1], Main)
  BY <1>1, <1>2, HostGrids, TermIs DEF Sound
<1>5. Counters'
  BY <1>1, <1>2 DEF Counters
<1>6. TypeInv'
  BY <1>1, <1>2, <1>5 DEF TypeInv, Following
<1>7. Upto'
  BY <1>2 DEF Upto
<1>8. Shown'
  BY <1>1, <1>2 DEF Shown
<1>9. Erased'
  <2>1. Level(host[1])
    BY <1>1 DEF Sound
  <2>2. Ascending(host'[1].lines) /\ Low(host'[1], floor)
    BY <1>1, <1>2, <2>1 DEF Later, Erased
  <2> QED BY <1>1, <1>2, <2>2 DEF Erased
<1>10. Held'
  <2> SUFFICES ASSUME Clean(marks)
               PROVE  Orderly(view[1], host'[1])
    BY <1>1, <1>2 DEF Held
  <2> DEFINE a == host[1]
             b == host'[1]
             v == view[1]
  <2>2. /\ Grid(a, Main) /\ Grid(b, Main) /\ Grid(v, Main) /\ Later(b, a) /\ Orderly(v, a)
    BY <1>1, <1>2, <1>4 DEF Held
  <2> HIDE DEF a, b, v
  <2>3. Orderly(v, b)
    BY <2>2, OrderlyLater
  <2> QED BY <2>3 DEF b, v
<1> QED BY <1>6, <1>7, <1>8, <1>9, <1>10 DEF IInv

(* keyframe_everyone keeps the invariant. *)
LEMMA TellClearedKeeps ==
  ASSUME IInv, TellCleared
  PROVE  IInv'
<1>1. /\ TypeInv /\ Upto /\ Shown /\ Erased /\ Held
      /\ Counters /\ Sound(host) /\ Term(view) /\ EncoderOk(enc)
      /\ (asked => behind) /\ Following
  BY DEF IInv, TypeInv
<1>2. /\ event' = FALSE /\ owed' = TRUE
      /\ UNCHANGED <<plan, deeds, host, clears, floor, moved, enc, behind, view, table, cleared,
                     asked, wanted, drained, marks>>
  BY DEF TellCleared, replicaVars
<1>3. Counters'
  BY <1>1, <1>2 DEF Counters
<1>4. TypeInv'
  BY <1>1, <1>2, <1>3 DEF TypeInv, Following
<1>5. Upto' /\ Shown'
  BY <1>1, <1>2 DEF Upto, Shown
<1>6. Erased'
  BY <1>1, <1>2 DEF Erased
<1>7. Held'
  BY <1>1, <1>2 DEF Held
<1> QED BY <1>4, <1>5, <1>6, <1>7 DEF IInv

(* History that the host does not show, before a screen of the host's rows. *)
LEMMA FiledIs ==
  ASSUME NEW m, Grid(m, Main), Ascending(m.lines), Level(m),
         NEW r, Grid(r, Main), HeldOnce(r.lines), Turned(r.lines, Ids(m.lines)),
         \A i \in 1..r.back : /\ r.lines[i].id < m.next
                              /\ \A k \in 1..Height(m) : r.lines[i].id # m.lines[m.back + k].id,
         NEW h, Grid(h, Main), Level(h), h.back = r.back, Height(h) = Height(m),
         \A i \in 1..r.back : h.lines[i] = r.lines[i],
         \A k \in 1..Height(m) : h.lines[h.back + k].id = m.lines[m.back + k].id
  PROVE  Orderly(h, m)
<1> DEFINE b == h.back
           c == m.back
           H == Height(m)
           x(i) == h.lines[i].id
           y(i) == m.lines[i].id
<1>1. /\ b \in Nat /\ H \in Nat \ {0} /\ Len(h.lines) = b + H /\ DOMAIN h.lines = 1..(b + H)
      /\ \A i \in 1..(b + H) : x(i) \in Nat
  <2>1. /\ h.back \in Nat /\ Height(h) \in Nat \ {0} /\ h.back + Height(h) = Len(h.lines)
        /\ DOMAIN h.lines = 1..Len(h.lines) /\ \A i \in 1..Len(h.lines) : h.lines[i].id \in Nat
    BY GridIs
  <2> QED BY <2>1
<1>2. /\ c \in Nat /\ Len(m.lines) = c + H /\ DOMAIN m.lines = 1..(c + H) /\ m.next \in Nat
      /\ \A i \in 1..(c + H) : y(i) \in Nat
  <2>1. /\ m.back \in Nat /\ m.back + Height(m) = Len(m.lines) /\ m.next \in Nat
        /\ DOMAIN m.lines = 1..Len(m.lines) /\ \A i \in 1..Len(m.lines) : m.lines[i].id \in Nat
    BY GridIs
  <2> QED BY <2>1
<1>3. DOMAIN r.lines = 1..Len(r.lines) /\ r.back < Len(r.lines) /\ r.back \in Nat /\ Len(r.lines) \in Nat
  BY GridIs
<1>4. \A i \in 1..b : i \in 1..Len(r.lines) /\ x(i) = r.lines[i].id
  BY <1>3
<1>5. \A i, j \in 1..b : x(i) = x(j) => i = j
  BY <1>3, <1>4 DEF HeldOnce
<1>6. \A i, j \in 1..b : i < j /\ x(i) > x(j) => x(i) \notin Ids(m.lines)
  BY <1>4 DEF Turned
<1>7. \A i \in 1..b : x(i) < m.next /\ \A k \in 1..H : x(i) # y(c + k)
  BY <1>4
<1>8. \A k \in 1..H : x(b + k) = y(c + k) /\ c + k \in 1..(c + H)
  BY <1>1, <1>2, SMTT(30)
<1>9. \A i, j \in 1..(c + H) : i < j => y(i) < y(j)
  BY <1>2 DEF Ascending
<1>10. \A i \in 1..(c + H) : y(i) < m.next
  BY <1>2 DEF Level, AllUnder
<1>11. Ids(m.lines) = {y(i) : i \in 1..(c + H)}
  BY <1>2 DEF Ids
<1> DEFINE alive == Ids(m.lines)
           next == m.next
<1>12. Level(h)
  OBVIOUS
<1> HIDE DEF x, y, b, c, H, alive, next
<1>13. \A i \in 1..(b + H) : i \in 1..b \/ \E k \in 1..H : i = b + k
  <2> SUFFICES ASSUME NEW i \in 1..(b + H), ~(i \in 1..b) PROVE \E k \in 1..H : i = b + k
    OBVIOUS
  <2>1. i - b \in 1..H /\ i = b + (i - b)
    BY <1>1
  <2> QED BY <2>1
<1>14. \A i, j \in 1..(b + H) : x(i) = x(j) => i = j
  <2> SUFFICES ASSUME NEW i \in 1..(b + H), NEW j \in 1..(b + H), x(i) = x(j) PROVE i = j
    OBVIOUS
  <2>1. CASE i \in 1..b /\ j \in 1..b
    BY <1>5, <2>1
  <2>2. ASSUME NEW k \in 1..H, i = b + k, j \in 1..b PROVE FALSE
    BY <1>7, <1>8, <2>2
  <2>3. ASSUME NEW k \in 1..H, j = b + k, i \in 1..b PROVE FALSE
    BY <1>7, <1>8, <2>3
  <2>4. ASSUME NEW k \in 1..H, NEW l \in 1..H, i = b + k, j = b + l PROVE i = j
    <3>1. y(c + k) = y(c + l)
      BY <1>8, <2>4
    <3>2. k = l
      <4>1. c + k \in 1..(c + H) /\ c + l \in 1..(c + H)
        BY <1>8
      <4>2. ~(c + k < c + l) /\ ~(c + l < c + k)
        BY <1>2, <1>9, <3>1, <4>1
      <4> QED BY <1>1, <1>2, <4>2
    <3> QED BY <2>4, <3>2
  <2> QED BY <1>13, <2>1, <2>2, <2>3, <2>4
<1>15. \A i, j \in 1..(b + H) : i < j /\ x(i) > x(j) => x(i) \notin alive
  <2> SUFFICES ASSUME NEW i \in 1..(b + H), NEW j \in 1..(b + H), i < j, x(i) > x(j), x(i) \in alive
               PROVE  FALSE
    OBVIOUS
  <2>1. CASE i \in 1..b /\ j \in 1..b
    BY <1>6, <2>1 DEF alive
  <2>2. ASSUME NEW k \in 1..H, i = b + k, j \in 1..b PROVE FALSE
    BY <1>1, <2>2
  <2>3. ASSUME NEW k \in 1..H, j = b + k, i \in 1..b PROVE FALSE
    <3>1. PICK n \in 1..(c + H) : x(i) = y(n)
      BY <1>11 DEF alive
    <3>2. n <= c
      <4>1. ASSUME n > c PROVE FALSE
        <5>1. n - c \in 1..H /\ c + (n - c) = n
          BY <1>1, <1>2, <4>1
        <5> QED BY <1>7, <2>3, <3>1, <5>1
      <4> QED BY <1>2, <4>1
    <3>3. n < c + k /\ c + k \in 1..(c + H)
      BY <1>1, <1>2, <3>2
    <3>4. y(n) < y(c + k) /\ y(c + k) = x(j)
      BY <1>8, <1>9, <2>3, <3>3
    <3> QED BY <1>1, <1>2, <3>1, <3>3, <3>4
  <2>4. ASSUME NEW k \in 1..H, NEW l \in 1..H, i = b + k, j = b + l PROVE FALSE
    <3>1. c + k < c + l /\ c + k \in 1..(c + H) /\ c + l \in 1..(c + H)
      BY <1>1, <1>2, <2>4
    <3>2. y(c + k) < y(c + l) /\ x(i) = y(c + k) /\ x(j) = y(c + l)
      BY <1>8, <1>9, <2>4, <3>1
    <3> QED BY <1>2, <3>1, <3>2
  <2> QED BY <1>13, <2>1, <2>2, <2>3, <2>4
<1>16. \A i \in 1..(b + H) : x(i) < next
  BY <1>7, <1>8, <1>10, <1>13 DEF next
<1>17. HeldOnce(h.lines)
  BY <1>1, <1>14 DEF HeldOnce, x
<1>18. Turned(h.lines, Ids(m.lines))
  BY <1>1, <1>15 DEF Turned, x, alive
<1>19. AllUnder(h.lines, m.next)
  BY <1>1, <1>16 DEF AllUnder, x, next
<1> QED BY <1>12, <1>17, <1>18, <1>19 DEF Orderly

(* The main screen a keyframe starts from keeps what was said of the replica's. *)
LEMMA BaseIs ==
  ASSUME Sound(host), Term(view), NEW low \in Nat
  PROVE  LET v == view[1]
             g == Base(low)
         IN /\ Grid(g, Main) /\ Height(g) = Height(host[1])
            /\ (clears > cleared => g.back = 0)
            /\ (Level(v) => Level(g))
            /\ (Level(v) /\ HeldOnce(v.lines) => HeldOnce(g.lines))
            /\ \A alive : Level(v) /\ Turned(v.lines, alive) => Turned(g.lines, alive)
            /\ (~(clears > cleared) => \A from \in Nat : Low(v, from) => Low(g, from))
            /\ HistoryFrom(g, v)
<1> DEFINE v == view[1]
           H == Height(host[1])
           yes == TRUE
           r == Resized(v, H, low, Keep, yes)
           w == WithoutHistory(r)
           g == Base(low)
<1>1. /\ Grid(v, Main) /\ H \in Nat \ {0} /\ Keep \in Nat /\ Blank \in Main /\ yes \in BOOLEAN
  BY CodecAssumption, TermIs DEF Sound, Main
<1>2. g = IF clears > cleared THEN w ELSE r
  BY DEF Base
<1> HIDE DEF v, H, yes
<1>3. Grid(r, Main) /\ Height(r) = H /\ Descends(r, v)
  BY <1>1, ResizedIs
<1>4. HistoryFrom(r, v)
  BY <1>1, ResizedIs
<1> HIDE DEF r
<1>5. /\ Level(v) => Level(r)
      /\ Level(v) /\ HeldOnce(v.lines) => HeldOnce(r.lines)
      /\ \A from \in Nat : Low(v, from) => Low(r, from)
  BY <1>1, <1>3, DescendsKeeps
<1>6. \A alive : Level(v) /\ Turned(v.lines, alive) => Turned(r.lines, alive)
  BY <1>1, <1>3, DescendsKeeps
<1>7. Grid(w, Main) /\ Height(w) = H /\ w.back = 0 /\ w.next = r.next /\ Within(w.lines, r.lines)
  BY <1>1, <1>3, WithoutHistoryIs
<1> HIDE DEF w
<1>8. Descends(w, r)
  BY <1>1, <1>3, <1>7, WithinDescends
<1>9. /\ Level(r) => Level(w)
      /\ Level(r) /\ HeldOnce(r.lines) => HeldOnce(w.lines)
  BY <1>1, <1>3, <1>7, <1>8, DescendsKeeps
<1>10. \A alive : Level(r) /\ Turned(r.lines, alive) => Turned(w.lines, alive)
  BY <1>1, <1>3, <1>7, <1>8, DescendsKeeps
<1> HIDE DEF g
<1>11. CASE clears > cleared
  <2>1. g = w
    BY <1>2, <1>11
  <2>2. HistoryFrom(g, v)
    BY <1>7, <2>1 DEF HistoryFrom
  <2> QED BY <1>5, <1>6, <1>7, <1>9, <1>10, <1>11, <2>1, <2>2 DEF v, H, g
<1>12. CASE ~(clears > cleared)
  <2>1. g = r
    BY <1>2, <1>12
  <2> QED BY <1>3, <1>4, <1>5, <1>6, <1>12, <2>1 DEF v, H, g
<1> QED BY <1>11, <1>12

(* What a keyframe files is not among the rows it names, and the host has made it. *)
LEMMA RebasedIs ==
  ASSUME Sound(host), Term(view), Ascending(host[1].lines), NEW low \in Nat
  PROVE  LET m == host[1]
             r == Rebased(low)
         IN /\ Grid(r, Main) /\ Height(r) = Height(m)
            /\ (clears > cleared => r.back = 0)
            /\ (~(clears > cleared) => \A from \in Nat : Low(view[1], from) => Low(r, from))
            /\ (Orderly(view[1], m) =>
                  /\ HeldOnce(r.lines) /\ Turned(r.lines, Ids(m.lines)) /\ Level(r)
                  /\ \A i \in 1..r.back : /\ r.lines[i].id < m.next
                                          /\ \A k \in 1..Height(m) : r.lines[i].id # m.lines[m.back + k].id)
<1> DEFINE m == host[1]
           v == view[1]
           g == Base(low)
           named == Ids(Screen(m))
           fresh == clears > cleared
           r == Rebounded(g, named, Keep, fresh)
           alive == Ids(m.lines)
           H == Height(m)
<1>1. /\ Grid(m, Main) /\ Level(m) /\ Grid(v, Main) /\ Keep \in Nat /\ Blank \in Main /\ fresh \in BOOLEAN
  <2>1. Blank \in Main
    BY DEF Main
  <2>2. Term(host) /\ Level(host[1])
    BY DEF Sound
  <2> QED BY <2>1, <2>2, CodecAssumption, TermIs
<1>2. /\ Grid(g, Main) /\ Height(g) = H /\ (fresh => g.back = 0)
      /\ (Level(v) => Level(g)) /\ (Level(v) /\ HeldOnce(v.lines) => HeldOnce(g.lines))
  BY BaseIs
<1>3. Level(v) /\ Turned(v.lines, alive) => Turned(g.lines, alive)
  BY BaseIs
<1>4. ~fresh => \A from \in Nat : Low(v, from) => Low(g, from)
  BY BaseIs
<1>5. HistoryFrom(g, v)
  BY BaseIs
<1>6. /\ H \in Nat \ {0} /\ m.back \in Nat /\ m.back + H = Len(m.lines) /\ m.next \in Nat
      /\ DOMAIN m.lines = 1..Len(m.lines) /\ \A i \in 1..Len(m.lines) : m.lines[i].id \in Nat
  BY <1>1, GridIs
<1>7. /\ named = {m.lines[m.back + k].id : k \in 1..H} /\ named \in SUBSET Nat
      /\ named \subseteq alive /\ \A id \in named : id < m.next
  <2>1. Screen(m) \in Seq(Rows(Main)) /\ Len(Screen(m)) = H
        /\ \A k \in 1..H : Screen(m)[k] = m.lines[m.back + k]
    BY <1>1, ScreenIs
  <2>2. DOMAIN Screen(m) = 1..H
    BY <2>1, SeqOfRows
  <2>3. named = {m.lines[m.back + k].id : k \in 1..H}
    BY <2>1, <2>2 DEF Ids
  <2>4. \A k \in 1..H : m.back + k \in 1..Len(m.lines)
    BY <1>6
  <2>5. \A i \in 1..Len(m.lines) : m.lines[i].id < m.next
    BY <1>1 DEF Level, AllUnder
  <2> QED BY <1>6, <2>3, <2>4, <2>5 DEF Ids
<1>8. Rebased(low) = r
  BY DEF Rebased
<1> HIDE DEF m, v, g, named, alive, H, fresh
<1>9. Grid(r, Main) /\ Height(r) = H /\ Descends(r, g)
  BY <1>1, <1>2, <1>7, ReboundedIs
<1>10. FiledFrom(r, g, named)
  BY <1>1, <1>2, <1>7, ReboundedIs
<1>11. fresh => r.back = 0
  <2> SUFFICES ASSUME fresh PROVE r.back = 0
    OBVIOUS
  <2> DEFINE q == DropHistory(g, named)
  <2>1. r = q
    BY DEF Rebounded
  <2>2. g.back = 0 => q.back = 0
    BY <1>2, DropHistoryIs
  <2> HIDE DEF r, q
  <2> QED BY <1>2, <2>1, <2>2
<1> HIDE DEF r
<1>12. /\ Level(g) => Level(r)
       /\ Level(g) /\ HeldOnce(g.lines) => HeldOnce(r.lines)
       /\ \A from \in Nat : Low(g, from) => Low(r, from)
  BY <1>1, <1>2, <1>9, DescendsKeeps
<1>13. Level(g) /\ Turned(g.lines, alive) => Turned(r.lines, alive)
  BY <1>1, <1>2, <1>9, DescendsKeeps
<1>14. ~fresh => \A from \in Nat : Low(v, from) => Low(r, from)
  BY <1>4, <1>12
<1>15. ASSUME Orderly(v, m), NEW i \in 1..r.back
       PROVE  r.lines[i].id < m.next /\ r.lines[i].id \notin named
  <2>1. PICK j \in 1..Len(g.lines) : r.lines[i] = g.lines[j] /\ Past(g, named, j)
    BY <1>10 DEF FiledFrom
  <2>2. /\ g.back \in Nat /\ g.back < Len(g.lines) /\ Len(g.lines) \in Nat
        /\ \A n \in 1..Len(g.lines) : g.lines[n].id \in Nat
    BY <1>2, GridIs
  <2> DEFINE x == g.lines[j].id
  <2>3. x \in Nat /\ r.lines[i].id = x
    BY <2>1, <2>2
  <2>4. CASE \A id \in named : x < id
    <3>1. x \notin named
      BY <2>3, <2>4
    <3>2. PICK id \in named : TRUE
      <4>1. 1 \in 1..H
        BY <1>6
      <4> QED BY <1>7, <4>1
    <3>3. x < id /\ id < m.next /\ id \in Nat
      BY <1>7, <2>4, <3>2
    <3> HIDE DEF x
    <3>4. x < m.next
      BY <1>6, <2>3, <3>3
    <3> QED BY <2>3, <3>1, <3>4
  <2>5. CASE ~(\A id \in named : x < id)
    <3>1. /\ j \in 1..g.back
          /\ (x \notin named \/ \E k \in j..g.back : \A id \in named : g.lines[k].id < id)
      <4>1. j <= g.back /\ (x \notin named \/ \E k \in j..g.back : \A id \in named : g.lines[k].id < id)
        BY <2>1, <2>5 DEF Past
      <4> QED BY <2>2, <4>1
    <3>2. x < m.next
      <4>1. PICK n \in 1..Len(v.lines) : g.lines[j] = v.lines[n]
        BY <1>5, <3>1 DEF HistoryFrom
      <4> QED BY <1>15, <4>1 DEF Orderly, AllUnder
    <3>3. x \notin named
      <4> SUFFICES ASSUME x \in named PROVE FALSE
        OBVIOUS
      <4>1. PICK k \in j..g.back : \A id \in named : g.lines[k].id < id
        BY <3>1
      <4>2. k \in 1..Len(g.lines) /\ g.lines[k].id < x
        BY <2>2, <3>1, <4>1
      <4>3. g.lines[k].id \in Nat /\ j # k /\ j < k
        BY <2>2, <2>3, <4>1, <4>2
      <4>4. Turned(g.lines, alive)
        BY <1>3, <1>15 DEF Orderly, alive
      <4>5. x \notin alive
        <5> DEFINE y == g.lines[k].id
        <5>1. y \in Nat /\ x > y
          BY <2>3, <4>2, <4>3
        <5> QED BY <4>2, <4>3, <4>4, <5>1 DEF Turned
      <4> QED BY <1>7, <4>5
    <3> QED BY <2>3, <3>2, <3>3
  <2> QED BY <2>4, <2>5
<1>16. Orderly(v, m) =>
         /\ HeldOnce(r.lines) /\ Turned(r.lines, Ids(m.lines)) /\ Level(r)
         /\ \A i \in 1..r.back : /\ r.lines[i].id < m.next
                                 /\ \A k \in 1..Height(m) : r.lines[i].id # m.lines[m.back + k].id
  <2> SUFFICES ASSUME Orderly(v, m)
               PROVE  /\ HeldOnce(r.lines) /\ Turned(r.lines, Ids(m.lines)) /\ Level(r)
                      /\ \A i \in 1..r.back :
                           /\ r.lines[i].id < m.next
                           /\ \A k \in 1..Height(m) : r.lines[i].id # m.lines[m.back + k].id
    OBVIOUS
  <2>1. Level(g) /\ HeldOnce(g.lines) /\ Turned(g.lines, alive)
    BY <1>2, <1>3 DEF Orderly, alive
  <2>2. HeldOnce(r.lines) /\ Turned(r.lines, Ids(m.lines)) /\ Level(r)
    BY <1>12, <1>13, <2>1 DEF alive
  <2>3. \A k \in 1..H : m.lines[m.back + k].id \in named
    BY <1>7
  <2> QED BY <1>15, <2>2, <2>3 DEF H
<1> QED BY <1>8, <1>9, <1>11, <1>14, <1>16 DEF m, v, fresh, H

(* What was sent says what the host shows to whoever knows its table. *)
LEMMA SentShows ==
  ASSUME Sound(host), NEW e, Sent(e, host), NEW i \in 1..Height(host[1])
  PROVE  /\ e.seen[i].line = Screen(Active(host))[i].id
         /\ \A ids : KnowsWell(e.attrs, ids) => Decoded(e.seen[i], ids) = Screen(Active(host))[i]
<1> DEFINE row == Screen(Active(host))[i]
           attrs == e.attrs
<1>1. /\ e.seen[i] = Payload(attrs, row) /\ e.seen[i].line = row.id
      /\ AttrTable(attrs) /\ Covers(attrs, Screen(Active(host)))
  BY DEF Sent, EncoderOk
<1>2. /\ Screen(Active(host)) \in Seq(Rows(All)) /\ Len(Screen(Active(host))) = Height(host[1])
  <2> DEFINE g == Active(host)
  <2>1. Grid(g, All) /\ Height(g) = Height(host[1])
    BY TermIs DEF Sound
  <2> HIDE DEF g
  <2>2. Screen(g) \in Seq(Rows(All)) /\ Len(Screen(g)) = Height(host[1])
    BY <2>1, ScreenIs
  <2> QED BY <2>2 DEF g
<1>3. row \in Rows(All) /\ (row.text = Blank \/ row.text \in DOMAIN attrs)
  BY <1>1, <1>2, SeqOfRows DEF Covers
<1> HIDE DEF row, attrs
<1>4. \A ids : KnowsWell(attrs, ids) => Decoded(Payload(attrs, row), ids) = row
  BY <1>1, <1>3, PayloadIs
<1> QED BY <1>1, <1>4 DEF row, attrs

(* A keyframe keeps the invariant, of the encoder there was or of a new one. *)
LEMMA KeyframeKeeps ==
  ASSUME IInv, NEW e, EncoderOk(e), NEW below \in Belows, SendKeyframe(e, below)
  PROVE  IInv'
<1> DEFINE H == Height(host[1])
           m == host[1]
           v == view[1]
           alt == InAlt(host)
           low == below[1]
           r == Rebased(low)
           rows == enc'.seen
           ids == table'
           h == view'[1]
<1>1. /\ TypeInv /\ Upto /\ Shown /\ Erased /\ Held
      /\ Counters /\ Sound(host) /\ Term(view) /\ EncoderOk(enc)
  BY DEF IInv, TypeInv
<1>2. AttrTable(e.attrs) /\ e.pending = {}
  BY DEF EncoderOk
<1>3. /\ Len(enc'.seen) = H /\ KnowsWell(enc'.attrs, table') /\ enc'.alt = alt
      /\ Term(view') /\ InAlt(view') = alt /\ Height(h) = H
      /\ \A i \in 1..H : Screen(Active(view'))[i] = Screen(Active(host))[i]
  BY <1>1, <1>2, KeyframeIs
<1>4. alt => h = Resized(v, H, low, Keep, TRUE) /\ cleared' = cleared
  BY <1>1, <1>2, KeyframeIs
<1>5. ~alt => /\ h = Written(r, rows, ids) /\ Parcel(rows, r, Main, ids, m.next)
              /\ cleared' = clears
  BY <1>1, <1>2, KeyframeIs
<1>6. /\ marks' = (marks \ {"crossed", "restyled"})
           \cup (IF alt /\ H > Height(v) THEN {"padded"} ELSE {})
      /\ ~moved' /\ ~owed' /\ ~behind' /\ ~asked'
      /\ UNCHANGED <<plan, deeds, host, clears, floor, event>>
  BY <1>1, <1>2, KeyframeIs
<1>7. Sent(enc', host)
  <2>1. enc' = Drained(Encoded(e, host))
    BY DEF SendKeyframe
  <2>2. Term(host)
    BY <1>1 DEF Sound
  <2> QED BY <2>1, <2>2, SentIs
<1>8. /\ moved' \in BOOLEAN /\ owed' \in BOOLEAN /\ behind' \in BOOLEAN /\ asked' \in BOOLEAN
      /\ moved' = FALSE /\ owed' = FALSE /\ behind' = FALSE /\ asked' = FALSE
  BY DEF SendKeyframe, ApplyKeyframe
<1>9. Counters'
  <2>1. cleared' \in {cleared, clears}
    BY <1>4, <1>5
  <2>2. marks' \subseteq AllMarks
    BY <1>1, <1>6 DEF Counters, AllMarks
  <2>3. cleared' \in 0..clears'
    BY <1>1, <1>6, <2>1 DEF Counters
  <2> QED BY <1>1, <1>6, <1>8, <2>2, <2>3 DEF Counters
<1>10. TypeInv'
  <2>1. EncoderOk(enc')
    BY <1>7 DEF Sent
  <2>2. Following'
    BY <1>3 DEF Following, Knows, KnowsWell
  <2> QED BY <1>1, <1>3, <1>6, <1>8, <1>9, <2>1, <2>2 DEF TypeInv
<1>11. Upto'
  BY <1>6, <1>7 DEF Upto
<1>12. Shown'
  <2>1. \A i \in 1..H : /\ enc'.seen[i].line = Screen(Active(host))[i].id
                        /\ Decoded(enc'.seen[i], table') = Screen(Active(host))[i]
    BY <1>1, <1>3, <1>7, SentShows
  <2>2. Shows(enc', view')
    BY <1>3, <2>1 DEF Shows
  <2>3. ShowsWell(enc', view', table')
    BY <1>3, <2>1 DEF ShowsWell
  <2> QED BY <2>2, <2>3 DEF Shown
<1>13. /\ Grid(m, Main) /\ Grid(v, Main) /\ Grid(h, Main) /\ Level(m) /\ Ascending(m.lines)
       /\ H \in Nat \ {0} /\ low \in Nat /\ Keep \in Nat /\ Blank \in Main /\ m.next \in Nat
       /\ floor \in Nat /\ Low(m, floor) /\ alt \in BOOLEAN
  <2>1. Grid(m, Main) /\ H \in Nat \ {0} /\ alt \in BOOLEAN
    BY <1>1, TermIs DEF Sound
  <2>2. Grid(v, Main) /\ Grid(h, Main)
    BY <1>1, <1>3, TermIs
  <2>3. low \in Nat
    BY <1>1, BelowIs DEF Counters
  <2>4. m.next \in Nat
    BY <2>1, GridIs
  <2>5. Blank \in Main
    BY DEF Main
  <2> QED BY <1>1, <2>1, <2>2, <2>3, <2>4, <2>5, CodecAssumption DEF Sound, Erased
<1>14. alt => /\ Descends(h, v)
              /\ H <= Height(v) => h.next = v.next /\ Within(h.lines, v.lines)
  <2> DEFINE yes == TRUE
             u == Resized(v, H, low, Keep, yes)
  <2>1. yes \in BOOLEAN
    OBVIOUS
  <2> HIDE DEF yes, v, H, low, m
  <2>2. Descends(u, v)
    BY <1>13, <2>1, ResizedIs
  <2>3. H <= Height(v) => u.next = v.next /\ Within(u.lines, v.lines)
    BY <1>13, <2>1, ResizedIs, SMTT(30)
  <2> HIDE DEF u
  <2>4. alt => h = u
    BY <1>4 DEF u, yes
  <2> HIDE DEF h, alt
  <2> QED BY <2>2, <2>3, <2>4 DEF v, H
<1>15. \A k \in 1..H : ~alt => h.lines[h.back + k] = m.lines[m.back + k]
  <2> SUFFICES ASSUME NEW k \in 1..H, ~alt PROVE h.lines[h.back + k] = m.lines[m.back + k]
    OBVIOUS
  <2>1. Active(view') = h /\ Active(host) = m
    BY <1>1, <1>3, TermIs DEF Sound
  <2>2. Screen(h)[k] = Screen(m)[k]
    BY <1>3, <2>1
  <2> HIDE DEF h, m
  <2>3. Screen(h)[k] = h.lines[h.back + k] /\ Screen(m)[k] = m.lines[m.back + k]
    <3>1. Height(h) = H /\ Height(m) = H
      BY <1>3 DEF h, m
    <3> QED BY <1>13, <3>1, ScreenIs
  <2> QED BY <2>2, <2>3
<1>16. ~alt => /\ Grid(r, Main) /\ Height(r) = H /\ h.back = r.back
               /\ (clears > cleared => r.back = 0)
               /\ (~(clears > cleared) => \A from \in Nat : Low(v, from) => Low(r, from))
               /\ \A i \in 1..r.back : h.lines[i] = r.lines[i]
               /\ \A i \in DOMAIN rows : rows[i].line < h.next
  <2> SUFFICES ASSUME ~alt
               PROVE  /\ Grid(r, Main) /\ Height(r) = H /\ h.back = r.back
                      /\ (clears > cleared => r.back = 0)
                      /\ (~(clears > cleared) => \A from \in Nat : Low(v, from) => Low(r, from))
                      /\ \A i \in 1..r.back : h.lines[i] = r.lines[i]
                      /\ \A i \in DOMAIN rows : rows[i].line < h.next
    OBVIOUS
  <2>1. /\ Grid(r, Main) /\ Height(r) = H
        /\ (clears > cleared => r.back = 0)
        /\ (~(clears > cleared) => \A from \in Nat : Low(v, from) => Low(r, from))
    BY <1>1, <1>13, RebasedIs
  <2> DEFINE high == m.next
             u == Written(r, rows, ids)
  <2>2. Parcel(rows, r, Main, ids, high) /\ high \in Nat
    BY <1>5, <1>13
  <2> HIDE DEF r, rows, ids, high
  <2>3. /\ u.back = r.back /\ \A i \in 1..r.back : u.lines[i] = r.lines[i]
        /\ \A i \in DOMAIN rows : rows[i].line < u.next
    BY <2>1, <2>2, WrittenIs
  <2> HIDE DEF u
  <2>4. h = u
    BY <1>5 DEF u
  <2> HIDE DEF h
  <2> QED BY <2>1, <2>3, <2>4
<1>17. Erased'
  <2>1. ASSUME cleared' = clears PROVE Low(h, floor)
    <3>1. CASE alt
      <4>1. Low(v, floor)
        BY <1>1, <1>4, <2>1, <3>1 DEF Erased
      <4>2. Descends(h, v)
        BY <1>14, <3>1
      <4> HIDE DEF h, v
      <4> QED BY <1>13, <4>1, <4>2, DescendsKeeps
    <3>2. CASE ~alt
      <4>1. /\ Len(h.lines) = r.back + H /\ r.back \in Nat /\ h.next \in Nat
            /\ \A i \in 1..Len(h.lines) : h.lines[i].id \in Nat
        <5>1. /\ h.back \in Nat /\ h.back + Height(h) = Len(h.lines) /\ h.next \in Nat
              /\ \A i \in 1..Len(h.lines) : h.lines[i].id \in Nat
          BY <1>13, GridIs
        <5> QED BY <1>3, <1>16, <3>2, <5>1
      <4>2. ASSUME NEW k \in 1..H PROVE h.lines[r.back + k].id >= floor
        <5>1. m.back + k \in 1..Len(m.lines)
          <6>1. m.back \in Nat /\ m.back + Height(m) = Len(m.lines)
            BY <1>13, GridIs
          <6> QED BY <1>13, <6>1
        <5>2. m.lines[m.back + k].id >= floor
          BY <1>13, <5>1 DEF Low, AllFrom
        <5> QED BY <1>15, <1>16, <3>2, <5>2
      <4>3. h.next >= floor
        <5>1. rows[1].line < h.next
          <6>1. DOMAIN rows = 1..H /\ 1 \in 1..H
            BY <1>7, <1>13 DEF Sent
          <6> QED BY <1>16, <3>2, <6>1
        <5>2. rows[1].line = h.lines[r.back + 1].id
          <6>1. 1 \in 1..H
            BY <1>13
          <6>2. rows[1].line = Screen(Active(host))[1].id
            BY <1>1, <1>7, <6>1, SentShows
          <6>3. Active(host) = m
            BY <1>1, <3>2, TermIs DEF Sound
          <6>4. Screen(m)[1] = m.lines[m.back + 1]
            <7> HIDE DEF m
            <7>1. 1 \in 1..Height(m)
              BY <6>1 DEF m
            <7> QED BY <1>13, <7>1, ScreenIs
          <6>5. h.lines[r.back + 1] = m.lines[m.back + 1]
            BY <1>15, <1>16, <3>2, <6>1
          <6> QED BY <6>2, <6>3, <6>4, <6>5
        <5>3. h.lines[r.back + 1].id >= floor /\ h.lines[r.back + 1].id \in Nat
          BY <1>13, <4>1, <4>2, SMTT(30)
        <5> DEFINE x == h.lines[r.back + 1].id
        <5>4. x \in Nat /\ x >= floor /\ x < h.next
          BY <5>1, <5>2, <5>3
        <5> HIDE DEF x, h
        <5> QED BY <1>13, <4>1, <5>4
      <4>4. \A i \in 1..r.back : h.lines[i].id >= floor
        <5>1. CASE clears > cleared
          BY <1>16, <3>2, <5>1
        <5>2. CASE ~(clears > cleared)
          <6>1. cleared = clears
            BY <1>1, <5>2 DEF Counters
          <6>2. Low(r, floor)
            BY <1>1, <1>13, <1>16, <3>2, <5>2, <6>1 DEF Erased
          <6>3. r.back < Len(r.lines) /\ Len(r.lines) \in Nat
            BY <1>16, <3>2, GridIs
          <6> QED BY <1>16, <3>2, <4>1, <6>2, <6>3 DEF Low, AllFrom
        <5> QED BY <5>1, <5>2
      <4>5. \A i \in 1..Len(h.lines) : h.lines[i].id >= floor
        <5> SUFFICES ASSUME NEW i \in 1..Len(h.lines), ~(i \in 1..r.back)
                     PROVE  h.lines[i].id >= floor
          BY <4>4
        <5> DEFINE b == r.back
                   k == i - b
        <5>1. k \in 1..H /\ i = b + k
          BY <1>13, <4>1
        <5> HIDE DEF k
        <5> QED BY <4>2, <5>1
      <4> QED BY <4>3, <4>5 DEF Low, AllFrom
    <3> QED BY <3>1, <3>2
  <2>2. ~alt => cleared' = clears
    BY <1>5
  <2> QED BY <1>1, <1>3, <1>6, <2>1, <2>2 DEF Erased
<1>18. Held'
  <2>1. "crossed" \notin marks'
    BY <1>6
  <2> SUFFICES ASSUME Clean(marks')
               PROVE  Orderly(h, m) /\ (~alt => Fresher(h, m, rows))
    BY <1>3, <1>6, <2>1 DEF Held
  <2>2. Clean(marks) /\ (alt => ~(H > Height(v)))
    BY <1>6 DEF Clean
  <2>3. Orderly(v, m)
    BY <1>1, <2>2 DEF Held
  <2>4. CASE alt
    <3>1. H <= Height(v)
      <4>1. Height(v) \in Nat
        BY <1>13, GridIs
      <4> QED BY <1>13, <2>2, <2>4, <4>1
    <3>2. h.next = v.next /\ Within(h.lines, v.lines) /\ Descends(h, v)
      BY <1>14, <2>4, <3>1
    <3>3. HeldOnce(v.lines) /\ Turned(v.lines, Ids(m.lines)) /\ AllUnder(v.lines, m.next) /\ Level(v)
      BY <2>3 DEF Orderly
    <3> DEFINE a == h.lines
               b == v.lines
               alive == Ids(m.lines)
               high == m.next
    <3>4. a \in Seq(Rows(Main)) /\ b \in Seq(Rows(Main)) /\ Within(a, b)
      BY <1>13, <3>2, GridIs
    <3>5. HeldOnce(b) /\ Turned(b, alive) /\ AllUnder(b, high)
      BY <3>3
    <3> HIDE DEF a, b, alive, high
    <3>6. HeldOnce(a) /\ Turned(a, alive) /\ AllUnder(a, high)
      BY <3>4, <3>5, WithinKeeps
    <3>7. Level(h)
      <4> HIDE DEF h, v
      <4> QED BY <1>13, <3>2, <3>3, DescendsKeeps
    <3> QED BY <2>4, <3>6, <3>7 DEF Orderly, a, alive, high
  <2>5. CASE ~alt
    <3>1. /\ Grid(r, Main) /\ HeldOnce(r.lines) /\ Turned(r.lines, Ids(m.lines)) /\ Level(r)
          /\ \A i \in 1..r.back : /\ r.lines[i].id < m.next
                                  /\ \A k \in 1..Height(m) : r.lines[i].id # m.lines[m.back + k].id
      BY <1>1, <1>13, <2>3, RebasedIs
    <3>2. Level(h)
      <4> DEFINE high == m.next
                 u == Written(r, rows, ids)
      <4>1. Parcel(rows, r, Main, ids, high) /\ high \in Nat /\ Grid(r, Main) /\ Level(r)
        BY <1>5, <1>13, <2>5, <3>1
      <4>2. h = u
        BY <1>5, <2>5
      <4> HIDE DEF r, rows, ids, high, h
      <4>3. Level(h)
        BY <4>1, <4>2, WrittenFrom
      <4> QED BY <4>3
    <3>3. \A k \in 1..H : h.lines[h.back + k].id = m.lines[m.back + k].id
      BY <1>15, <2>5
    <3>4. h.back = r.back /\ Height(h) = Height(m) /\ \A i \in 1..r.back : h.lines[i] = r.lines[i]
      BY <1>3, <1>16, <2>5
    <3>5. Fresher(h, m, rows)
      <4> SUFFICES ASSUME NEW k \in 1..H
                   PROVE  \E j \in 1..Len(rows) : rows[j].line = m.lines[m.back + k].id
        BY DEF Fresher
      <4>1. rows[k].line = Screen(Active(host))[k].id
        BY <1>1, <1>7, SentShows
      <4>2. Active(host) = m
        BY <1>1, <2>5, TermIs DEF Sound
      <4>3. Screen(m)[k] = m.lines[m.back + k]
        BY <1>13, ScreenIs
      <4> QED BY <1>3, <4>1, <4>2, <4>3
    <3> HIDE DEF h, m, r
    <3>6. Orderly(h, m)
      <4>1. Height(m) = H
        BY DEF m
      <4> QED BY <1>13, <3>1, <3>2, <3>3, <3>4, <4>1, FiledIs
    <3> QED BY <3>5, <3>6
  <2> QED BY <2>4, <2>5
<1> QED BY <1>10, <1>11, <1>12, <1>17, <1>18 DEF IInv

(* The shadow of an encoder that has sent what a main screen shows has its ids. *)
LEMMA SentFresher ==
  ASSUME Sound(host), NEW e, Sent(e, host), ~InAlt(host), NEW v
  PROVE  Fresher(v, host[1], e.seen)
<1> DEFINE m == host[1]
<1>1. Grid(m, Main) /\ Active(host) = m
  BY TermIs DEF Sound
<1>2. Len(e.seen) = Height(m)
  BY DEF Sent
<1> SUFFICES ASSUME NEW k \in 1..Height(m)
             PROVE  \E j \in 1..Len(e.seen) : e.seen[j].line = m.lines[m.back + k].id
  BY DEF Fresher
<1>3. e.seen[k].line = Screen(Active(host))[k].id
  BY SentShows
<1> HIDE DEF m
<1>4. Screen(m)[k] = m.lines[m.back + k]
  BY <1>1, ScreenIs
<1> QED BY <1>1, <1>2, <1>3, <1>4

(* A delta with nothing in it finds the shadow as it was. *)
LEMMA NothingIs ==
  ASSUME EncoderOk(enc), Sound(host), Len(enc.seen) = Height(host[1]), NEW other,
         enc' = Drained(Encoded(enc, host)), NothingIn(DeltaNow(other))
  PROVE  Sent(enc', host) /\ enc'.attrs = enc.attrs /\ enc'.seen = enc.seen /\ enc'.alt = enc.alt
<1> DEFINE f == Encoded(enc, host)
           d == DeltaNow(other)
           z == enc'
           H == Height(host[1])
<1>1. Term(host) /\ H \in Nat \ {0} /\ Height(Active(host)) = H
  BY TermIs DEF Sound
<1>2. /\ Sent(z, host) /\ z.attrs = f.attrs /\ z.seen = f.seen
      /\ Grows(enc.attrs, z.attrs) /\ f.pending = Defs(z.attrs) \ Defs(enc.attrs)
      /\ f.alt = InAlt(host)
  BY <1>1, SentIs
<1>3. /\ f.pending = {} /\ f.alt = enc.alt /\ ScrolledBy(enc, host) = 0
      /\ DOMAIN [i \in {i \in DOMAIN f.seen : Shifted(enc, host)[i] # f.seen[i]} |-> f.seen[i]] = {}
  BY DEF NothingIn, DeltaNow, DeltaOf
<1>4. \A i \in DOMAIN f.seen : Shifted(enc, host)[i] = f.seen[i]
  BY <1>3
<1> HIDE DEF f, z, d
<1>5. z.attrs = enc.attrs
  <2> DEFINE a == enc.attrs
             b == z.attrs
  <2>1. AttrTable(a) /\ AttrTable(b)
    BY <1>2 DEF EncoderOk, Sent
  <2>2. DOMAIN a \subseteq DOMAIN b /\ (\A t \in DOMAIN a : b[t] = a[t]) /\ Defs(b) \ Defs(a) = {}
    BY <1>2, <1>3 DEF Grows
  <2> HIDE DEF a, b
  <2>3. ASSUME NEW t \in DOMAIN b PROVE t \in DOMAIN a
    <3>1. [id |-> b[t], text |-> t] \in Defs(b)
      BY DEF Defs
    <3>2. [id |-> b[t], text |-> t] \in Defs(a)
      BY <2>2, <3>1
    <3> QED BY <3>2 DEF Defs
  <2>4. DOMAIN a = DOMAIN b
    BY <2>2, <2>3
  <2>5. a = [t \in DOMAIN a |-> a[t]] /\ b = [t \in DOMAIN b |-> b[t]]
    BY <2>1 DEF AttrTable
  <2>6. a = b
    BY <2>2, <2>4, <2>5
  <2> QED BY <2>6 DEF a, b
<1>6. z.seen = enc.seen
  <2>1. /\ enc.seen \in Seq(Pays(enc.attrs)) /\ Len(enc.seen) = H
        /\ z.seen \in Seq(Pays(z.attrs)) /\ Len(z.seen) = H /\ DOMAIN z.seen = 1..H
    BY <1>2 DEF EncoderOk, Sent
  <2>2. ASSUME NEW i \in 1..H PROVE z.seen[i] = enc.seen[i]
    <3>1. Shifted(enc, host)[i] = IF i + 0 <= Len(enc.seen) THEN enc.seen[i + 0] ELSE Unseen
      BY <1>1, <1>3 DEF Shifted
    <3>2. i + 0 = i /\ i <= Len(enc.seen)
      BY <1>1, <2>1
    <3> QED BY <1>2, <1>4, <2>1, <3>1, <3>2
  <2> DEFINE p == z.seen
             q == enc.seen
             A == Pays(enc.attrs)
  <2>3. p \in Seq(A) /\ q \in Seq(A) /\ Len(p) = Len(q) /\ \A i \in 1..Len(p) : p[i] = q[i]
    BY <1>5, <2>1, <2>2
  <2> HIDE DEF p, q, A
  <2>4. p = q
    BY <2>3, SeqEqual
  <2> QED BY <2>4 DEF p, q
<1>7. z.alt = enc.alt
  BY <1>2, <1>3 DEF Sent
<1> QED BY <1>2, <1>5, <1>6, <1>7 DEF z

(* A delta with nothing in it, or one that is refused. *)
LEMMA SilentKeeps ==
  ASSUME IInv, NEW other, PollDelta(other), NothingIn(DeltaNow(other)) \/ behind
  PROVE  IInv'
<1>1. /\ TypeInv /\ Upto /\ Shown /\ Erased /\ Held
      /\ Counters /\ Sound(host) /\ Term(view) /\ EncoderOk(enc)
      /\ (asked => behind) /\ Following /\ owed \in BOOLEAN
      /\ (owed \/ Len(enc.seen) = Height(host[1]))
  BY DEF IInv, TypeInv, Counters
<1>2. /\ ~owed /\ moved' = FALSE /\ enc' = Drained(Encoded(enc, host))
      /\ UNCHANGED <<plan, deeds, host, clears, floor, event, owed>>
  BY DEF PollDelta, hostVars
<1>3. Sent(enc', host) /\ Len(enc.seen) = Height(host[1])
  <2>1. Term(host)
    BY <1>1 DEF Sound
  <2>2. Sent(Drained(Encoded(enc, host)), host)
    BY <1>1, <2>1, SentIs
  <2> QED BY <1>1, <1>2, <2>2
<1>4. EncoderOk(enc') /\ enc'.alt = InAlt(host) /\ Len(enc'.seen) = Height(host[1])
  BY <1>3 DEF Sent
<1>5. Upto'
  BY <1>2, <1>3 DEF Upto
<1>6. CASE NothingIn(DeltaNow(other))
  <2>1. behind' = TRUE /\ UNCHANGED <<view, table, cleared, asked, wanted, drained, marks>>
    BY <1>6 DEF PollDelta, DeltaNow, replicaVars
  <2>2. enc'.attrs = enc.attrs /\ enc'.seen = enc.seen /\ enc'.alt = enc.alt
    BY <1>1, <1>2, <1>3, <1>6, NothingIs
  <2>3. Counters'
    BY <1>1, <1>2, <2>1 DEF Counters
  <2>4. TypeInv'
    BY <1>1, <1>2, <1>4, <2>1, <2>2, <2>3 DEF TypeInv, Following
  <2>5. Shown'
    BY <1>1, <2>1, <2>2 DEF Shown, Shows, ShowsWell
  <2>6. Erased'
    BY <1>1, <1>2, <2>1, <2>2 DEF Erased
  <2>7. Held'
    BY <1>1, <1>2, <2>1, <2>2 DEF Held
  <2> QED BY <1>5, <2>4, <2>5, <2>6, <2>7 DEF IInv
<1>7. CASE behind /\ ~NothingIn(DeltaNow(other))
  <2>1. asked' = TRUE /\ UNCHANGED <<behind, view, table, cleared, wanted, drained, marks>>
    BY <1>7 DEF PollDelta, DeltaNow
  <2>2. Counters'
    BY <1>1, <1>2, <2>1 DEF Counters
  <2>3. TypeInv'
    BY <1>1, <1>2, <1>4, <1>7, <2>1, <2>2 DEF TypeInv, Following
  <2>4. Shown'
    BY <2>1 DEF Shown
  <2>5. Erased'
    BY <1>1, <1>2, <2>1 DEF Erased
  <2>6. ~enc'.alt => Fresher(view[1], host[1], enc'.seen)
    BY <1>1, <1>3, <1>4, SentFresher
  <2>7. Held'
    BY <1>1, <1>2, <2>1, <2>6 DEF Held
  <2> QED BY <1>5, <2>3, <2>4, <2>5, <2>7 DEF IInv
<1> QED BY <1>6, <1>7

(* History after a scroll is of rows that were there and were not below those that left. *)
LEMMA ScrolledFrom ==
  ASSUME NEW v, Grid(v, Main), NEW by \in 0..Height(v), NEW keep \in Nat,
         NEW r, r = ScrollUp(v, by, keep)
  PROVE  \A n \in 1..r.back : \E j \in 1..(v.back + by) : r.lines[n] = v.lines[j]
<1>1. Blank \in Main
  BY DEF Main
<1>2. \A n \in 1..r.back : \E j \in 1..(v.back + by) : j >= n /\ r.lines[n] = v.lines[j]
  BY <1>1, ScrollUpIs
<1> QED BY <1>2

(* What a scroll files is older than what the host shows, unless it took rows
   that the host shows still. *)
LEMMA ScrolledFiles ==
  ASSUME NEW v, Grid(v, Main), NEW m, Grid(m, Main), Orderly(v, m),
         NEW by \in 0..Height(v), NEW keep \in Nat, NEW seen, Fresher(v, m, seen),
         Len(seen) = Height(v), \A n \in 1..Height(v) : v.lines[v.back + n].id = seen[n].line,
         \A n \in 1..by : \A k \in 1..Height(m) : v.lines[v.back + n].id # m.lines[m.back + k].id,
         NEW r, r = ScrollUp(v, by, keep)
  PROVE  \A i \in 1..r.back : /\ r.lines[i].id < m.next
                              /\ \A k \in 1..Height(m) : r.lines[i].id # m.lines[m.back + k].id
<1> SUFFICES ASSUME NEW i \in 1..r.back
             PROVE  /\ r.lines[i].id < m.next
                    /\ \A k \in 1..Height(m) : r.lines[i].id # m.lines[m.back + k].id
  OBVIOUS
<1> DEFINE b == v.back
           H == Height(v)
           x(j) == v.lines[j].id
<1>1. /\ b \in Nat /\ H \in Nat \ {0} /\ b + H = Len(v.lines) /\ DOMAIN v.lines = 1..(b + H)
      /\ \A j \in 1..(b + H) : x(j) \in Nat
  <2>1. /\ v.back \in Nat /\ Height(v) \in Nat \ {0} /\ v.back + Height(v) = Len(v.lines)
        /\ DOMAIN v.lines = 1..Len(v.lines) /\ \A j \in 1..Len(v.lines) : v.lines[j].id \in Nat
    BY GridIs
  <2> QED BY <2>1
<1>2. PICK j \in 1..(b + by) : r.lines[i] = v.lines[j]
  BY ScrolledFrom
<1>3. j \in 1..(b + H) /\ by \in Nat /\ by <= H
  BY <1>1
<1>4. \A n \in 1..Len(v.lines) : v.lines[n].id < m.next
  BY DEF Orderly, AllUnder
<1>5. ASSUME NEW k \in 1..Height(m), x(j) = m.lines[m.back + k].id PROVE FALSE
  <2> DEFINE y == m.lines[m.back + k].id
  <2>1. CASE j > b
    <3>1. j - b \in 1..by /\ b + (j - b) = j
      BY <1>1, <1>3, <2>1
    <3>2. v.lines[v.back + (j - b)].id # y
      BY <3>1
    <3> QED BY <1>5, <3>1, <3>2
  <2>2. CASE j <= b
    <3>1. \/ \E n \in 1..Len(seen) : seen[n].line = y
          \/ \A n \in 1..Len(v.lines) : v.lines[n].id < y
      BY DEF Fresher
    <3> HIDE DEF y
    <3>2. ASSUME NEW n \in 1..Len(seen), seen[n].line = y PROVE FALSE
      <4>1. n \in 1..H /\ x(b + n) = y
        BY <3>2
      <4>2. b + n \in 1..(b + H) /\ b + n # j
        BY <1>1, <2>2, <4>1, SMTT(30)
      <4>3. x(b + n) = x(j)
        BY <1>5, <4>1 DEF y
      <4>4. HeldOnce(v.lines)
        BY DEF Orderly
      <4> QED BY <1>1, <1>3, <4>2, <4>3, <4>4 DEF HeldOnce
    <3>3. ASSUME \A n \in 1..Len(v.lines) : v.lines[n].id < y PROVE FALSE
      <4>1. x(j) < y /\ x(j) = y
        BY <1>1, <1>3, <1>5, <3>3 DEF y
      <4>2. x(j) \in Nat
        BY <1>1, <1>3
      <4> HIDE DEF x
      <4> QED BY <4>1, <4>2
    <3> QED BY <3>1, <3>2, <3>3
  <2> QED BY <1>1, <1>3, <2>1, <2>2
<1> QED BY <1>1, <1>2, <1>3, <1>4, <1>5

(* What a scroll takes is what the host shows no longer, if no mark was made. *)
LEMMA SpillIs ==
  ASSUME Sound(host), Term(view), ~InAlt(host), ~InAlt(view), Spill = {},
         ScrolledBy(enc, host) \in 0..Height(view[1])
  PROVE  LET v == view[1]
             m == host[1]
         IN \A n \in 1..ScrolledBy(enc, host) : \A k \in 1..Height(m) :
              v.lines[v.back + n].id # m.lines[m.back + k].id
<1> DEFINE v == view[1]
           m == host[1]
           by == ScrolledBy(enc, host)
           s == Screen(v)
           t == Screen(m)
<1>1. Grid(v, Main) /\ Grid(m, Main) /\ Active(view) = v /\ Active(host) = m
      /\ InAlt(host) \in BOOLEAN /\ InAlt(view) \in BOOLEAN
  BY TermIs DEF Sound
<1>2. Switched(view, InAlt(host)) = view
  BY <1>1 DEF Switched
<1>3. Ids(SubSeq(s, 1, by)) \cap Ids(t) = {}
  BY <1>1, <1>2 DEF Spill
<1>4. by \in Nat /\ by <= Height(v)
  <2>1. Height(v) \in Nat
    BY <1>1, GridIs
  <2> QED BY <2>1
<1> HIDE DEF v, m, by
<1>5. /\ s \in Seq(Rows(Main)) /\ Len(s) = Height(v) /\ \A i \in 1..Height(v) : s[i] = v.lines[v.back + i]
      /\ t \in Seq(Rows(Main)) /\ Len(t) = Height(m) /\ \A i \in 1..Height(m) : t[i] = m.lines[m.back + i]
  BY <1>1, ScreenIs
<1> HIDE DEF s, t
<1>6. Len(s) \in Nat /\ DOMAIN t = 1..Len(t)
  BY <1>5, LenProperties
<1>7. DOMAIN SubSeq(s, 1, by) = 1..by /\ \A i \in 1..by : SubSeq(s, 1, by)[i] = s[i] /\ i \in 1..Height(v)
  BY <1>4, <1>5, <1>6, SubSeqProperties
<1>8. ASSUME NEW n \in 1..by, NEW k \in 1..Height(m), v.lines[v.back + n].id = m.lines[m.back + k].id
      PROVE  FALSE
  <2>1. s[n].id \in Ids(SubSeq(s, 1, by))
    BY <1>7 DEF Ids
  <2>2. t[k].id \in Ids(t)
    BY <1>5, <1>6 DEF Ids
  <2> QED BY <1>3, <1>5, <1>7, <1>8, <2>1, <2>2
<1> QED BY <1>8 DEF v, m, by

(* A scroll of a main screen that is written to. *)
LEMMA ScrolledIs ==
  ASSUME NEW v, Grid(v, Main), NEW by \in 0..Height(v), NEW ids, NEW rows, NEW high \in Nat,
         NEW r, r = ScrollUp(v, by, Keep), Parcel(rows, r, Main, ids, high), NEW h, h = Written(r, rows, ids)
  PROVE  /\ Grid(r, Main) /\ Grid(h, Main) /\ Height(r) = Height(v) /\ h.back = r.back
         /\ \A i \in 1..r.back : h.lines[i] = r.lines[i]
         /\ (Level(v) => Level(r) /\ Level(h))
         /\ (Level(v) /\ HeldOnce(v.lines) => HeldOnce(r.lines))
         /\ \A alive : Level(v) /\ Turned(v.lines, alive) => Turned(r.lines, alive)
         /\ \A low \in Nat : Low(v, low) /\ (\A i \in DOMAIN rows : rows[i].line >= low) => Low(h, low)
<1>1. Blank \in Main /\ Keep \in Nat
  BY CodecAssumption DEF Main
<1>2. Grid(r, Main) /\ Height(r) = Height(v) /\ Descends(r, v)
  BY <1>1, ScrollUpIs
<1>3. Grid(h, Main) /\ h.back = r.back /\ \A i \in 1..r.back : h.lines[i] = r.lines[i]
  BY <1>2, WrittenIs
<1>4. /\ Level(r) => Level(h)
      /\ \A low \in Nat : Low(r, low) /\ (\A i \in DOMAIN rows : rows[i].line >= low) => Low(h, low)
  BY <1>2, WrittenFrom
<1>5. /\ Level(v) => Level(r)
      /\ Level(v) /\ HeldOnce(v.lines) => HeldOnce(r.lines)
      /\ \A low \in Nat : Low(v, low) => Low(r, low)
  BY <1>1, <1>2, DescendsKeeps
<1>6. \A alive : Level(v) /\ Turned(v.lines, alive) => Turned(r.lines, alive)
  BY <1>1, <1>2, DescendsKeeps
<1> QED BY <1>2, <1>3, <1>4, <1>5, <1>6

(* A delta that is applied. *)
LEMMA AppliedKeeps ==
  ASSUME IInv, NEW other, PollDelta(other), ~NothingIn(DeltaNow(other)), ~behind
  PROVE  IInv'
<1> DEFINE m == host[1]
           v == view[1]
           h == view'[1]
           H == Height(host[1])
           alt == InAlt(host)
           by == ScrolledBy(enc, host)
           r == ScrollUp(v, by, Keep)
           rows == Changes(enc, enc', host)
           ids == table'
<1>1. /\ TypeInv /\ Upto /\ Shown /\ Erased /\ Held
      /\ Counters /\ Sound(host) /\ Term(view) /\ EncoderOk(enc)
      /\ ~asked /\ Following /\ owed \in BOOLEAN
      /\ (owed \/ Len(enc.seen) = Height(host[1]))
  BY DEF IInv, TypeInv, Counters
<1>2. /\ ~owed /\ moved' = FALSE /\ enc' = Drained(Encoded(enc, host))
      /\ ApplyDelta(DeltaNow(other))
      /\ UNCHANGED <<plan, deeds, host, clears, floor, event, owed>>
  BY DEF PollDelta, hostVars, DeltaNow
<1>3. Len(enc.seen) = Height(host[1]) /\ UNCHANGED host
  BY <1>1, <1>2
<1>4. /\ Term(view') /\ InAlt(view') = alt /\ Height(h) = H
      /\ Knows(enc'.attrs, table') /\ (KnowsWell(enc.attrs, table) => KnowsWell(enc'.attrs, table'))
      /\ ~behind' /\ ~asked'
      /\ (alt => h = v)
  BY <1>1, <1>2, <1>3, DeltaIs
<1>5. ~alt => by \in 0..Height(v) /\ h = Written(r, rows, ids) /\ Parcel(rows, r, Main, ids, m.next)
  BY <1>1, <1>2, <1>3, DeltaIs
<1>6. /\ marks' = marks \cup (IF alt # enc.alt THEN {"crossed", "mixed"} ELSE {})
                        \cup (IF Spill # {} THEN {"misfiled"} ELSE {})
      /\ (alt = enc.alt /\ Shows(enc, view) => Shows(enc', view'))
      /\ (alt = enc.alt /\ ShowsWell(enc, view, table) => ShowsWell(enc', view', table'))
      /\ UNCHANGED cleared
  BY <1>1, <1>2, <1>3, DeltaIs
<1>7. Sent(enc', host)
  <2>1. Term(host)
    BY <1>1 DEF Sound
  <2> QED BY <1>1, <1>2, <2>1, SentIs
<1>8. EncoderOk(enc') /\ enc'.alt = alt /\ Len(enc'.seen) = H /\ DOMAIN enc'.seen = 1..H
  BY <1>7 DEF Sent
<1>9. Counters'
  <2>1. behind' \in BOOLEAN /\ asked' \in BOOLEAN
    BY <1>2 DEF ApplyDelta
  <2>2. marks' \subseteq AllMarks
    BY <1>1, <1>6 DEF Counters, AllMarks
  <2> QED BY <1>1, <1>2, <1>6, <2>1, <2>2 DEF Counters
<1>10. TypeInv'
  <2>1. Following'
    <3>1. "restyled" \notin marks' => KnowsWell(enc'.attrs, table')
      BY <1>1, <1>4, <1>6 DEF Following
    <3> QED BY <1>4, <1>8, <3>1 DEF Following
  <2> QED BY <1>1, <1>2, <1>3, <1>4, <1>8, <1>9, <2>1 DEF TypeInv
<1>11. Upto'
  BY <1>2, <1>7 DEF Upto
<1>12. Shown'
  BY <1>1, <1>6 DEF Shown
<1>13. /\ Grid(m, Main) /\ Grid(v, Main) /\ Grid(h, Main) /\ Level(m) /\ Ascending(m.lines)
       /\ H \in Nat \ {0} /\ m.next \in Nat /\ floor \in Nat /\ Low(m, floor)
       /\ alt \in BOOLEAN /\ enc.alt \in BOOLEAN /\ H = Height(v) /\ enc.alt = InAlt(view)
  <2>1. Grid(m, Main) /\ H \in Nat \ {0} /\ alt \in BOOLEAN
    BY <1>1, TermIs DEF Sound
  <2>2. Grid(v, Main) /\ Grid(h, Main)
    BY <1>1, <1>4, TermIs
  <2>3. m.next \in Nat
    BY <2>1, GridIs
  <2> QED BY <1>1, <1>3, <2>1, <2>2, <2>3 DEF Sound, Erased, EncoderOk, Following
<1>14. ASSUME NEW k \in 1..H, ~alt
       PROVE  /\ enc'.seen[k].line = m.lines[m.back + k].id
              /\ Screen(Active(view'))[k] = h.lines[h.back + k]
  <2>1. Active(host) = m /\ Active(view') = h
    BY <1>1, <1>4, <1>14, TermIs DEF Sound
  <2>2. enc'.seen[k].line = Screen(Active(host))[k].id
    BY <1>1, <1>7, SentShows
  <2>3. Height(m) = H /\ Height(h) = H
    BY <1>4
  <2> HIDE DEF m, h, H
  <2>4. Screen(m)[k] = m.lines[m.back + k] /\ Screen(h)[k] = h.lines[h.back + k]
    BY <1>13, <2>3, ScreenIs
  <2> QED BY <2>1, <2>2, <2>4
<1>15. ~alt => /\ Grid(r, Main) /\ Height(r) = H /\ h.back = r.back
               /\ \A i \in 1..r.back : h.lines[i] = r.lines[i]
               /\ (Level(v) => Level(r) /\ Level(h))
               /\ (Level(v) /\ HeldOnce(v.lines) => HeldOnce(r.lines))
               /\ \A alive : Level(v) /\ Turned(v.lines, alive) => Turned(r.lines, alive)
               /\ \A low \in Nat :
                    Low(v, low) /\ (\A i \in DOMAIN rows : rows[i].line >= low) => Low(h, low)
  <2> DEFINE high == m.next
  <2>1. ~alt => by \in 0..Height(v) /\ h = Written(r, rows, ids) /\ Parcel(rows, r, Main, ids, high)
    BY <1>5
  <2>2. high \in Nat /\ Grid(v, Main) /\ Height(v) = H /\ r = ScrollUp(v, by, Keep)
    BY <1>13
  <2> HIDE DEF m, v, h, H, alt, by, r, rows, ids, high
  <2> SUFFICES ASSUME ~alt
               PROVE  /\ Grid(r, Main) /\ Height(r) = Height(v) /\ h.back = r.back
                      /\ \A i \in 1..r.back : h.lines[i] = r.lines[i]
                      /\ (Level(v) => Level(r) /\ Level(h))
                      /\ (Level(v) /\ HeldOnce(v.lines) => HeldOnce(r.lines))
                      /\ \A alive : Level(v) /\ Turned(v.lines, alive) => Turned(r.lines, alive)
                      /\ \A low \in Nat :
                           Low(v, low) /\ (\A i \in DOMAIN rows : rows[i].line >= low) => Low(h, low)
    BY <2>2
  <2> QED BY <2>1, <2>2, ScrolledIs
<1>16. Erased'
  <2>1. ASSUME cleared = clears PROVE Low(h, floor)
    <3>1. Low(v, floor)
      BY <1>1, <2>1 DEF Erased
    <3>2. CASE alt
      BY <1>4, <3>1, <3>2
    <3>3. CASE ~alt
      <4>1. ASSUME NEW i \in DOMAIN rows PROVE rows[i].line >= floor
        <5>1. i \in 1..H /\ rows[i] = enc'.seen[i]
          BY <1>8 DEF Changes, Differ
        <5>2. rows[i].line = m.lines[m.back + i].id
          BY <1>14, <3>3, <5>1
        <5>3. m.back + i \in 1..Len(m.lines)
          <6>1. m.back \in Nat /\ m.back + Height(m) = Len(m.lines)
            BY <1>13, GridIs
          <6> QED BY <1>13, <5>1, <6>1
        <5> QED BY <1>13, <5>2, <5>3 DEF Low, AllFrom
      <4> HIDE DEF rows
      <4> QED BY <1>13, <1>15, <3>1, <3>3, <4>1
    <3> QED BY <3>2, <3>3
  <2>2. ASSUME ~event, "crossed" \notin marks', ~enc'.alt PROVE cleared = clears
    <3>1. "crossed" \notin marks /\ ~enc.alt
      BY <1>6, <1>8, <1>13, <2>2
    <3> QED BY <1>1, <1>2, <2>2, <3>1 DEF Erased
  <2> QED BY <1>1, <1>2, <1>6, <2>1, <2>2 DEF Erased
<1>17. Held'
  <2>1. "crossed" \in marks' => "mixed" \in marks'
    BY <1>1, <1>6 DEF Held
  <2> SUFFICES ASSUME Clean(marks')
               PROVE  Orderly(h, m) /\ (~enc'.alt => Fresher(h, m, enc'.seen))
    BY <1>2, <2>1 DEF Held
  <2>2. Clean(marks) /\ alt = enc.alt /\ Spill = {} /\ "crossed" \notin marks
    <3>1. "mixed" \notin marks' /\ "misfiled" \notin marks'
      BY DEF Clean
    <3>2. alt = enc.alt /\ Spill = {}
      BY <1>6, <3>1
    <3>3. marks' = marks
      BY <1>6, <3>2
    <3> QED BY <1>1, <3>1, <3>2, <3>3 DEF Held
  <2>3. Orderly(v, m) /\ (~enc.alt => Fresher(v, m, enc.seen))
    BY <1>1, <1>2, <2>2 DEF Held
  <2>4. CASE alt
    BY <1>4, <1>8, <2>3, <2>4
  <2>5. CASE ~alt
    <3>1. Shows(enc, view) /\ Shows(enc', view')
      BY <1>1, <1>6, <2>2 DEF Shown
    <3>2. \A k \in 1..H : h.lines[h.back + k].id = m.lines[m.back + k].id
      BY <1>8, <1>14, <2>5, <3>1 DEF Shows
    <3>3. \A n \in 1..H : v.lines[v.back + n].id = enc.seen[n].line
      <4>1. Active(view) = v
        BY <1>1, <1>13, <2>2, <2>5, TermIs
      <4>2. \A n \in 1..H : Screen(v)[n].id = enc.seen[n].line
        BY <1>3, <3>1, <4>1 DEF Shows
      <4> HIDE DEF v, H
      <4>3. \A n \in 1..H : Screen(v)[n] = v.lines[v.back + n]
        BY <1>13, ScreenIs
      <4> QED BY <4>2, <4>3
    <3>4. \A n \in 1..by : \A k \in 1..Height(m) : v.lines[v.back + n].id # m.lines[m.back + k].id
      BY <1>1, <1>5, <1>13, <2>2, <2>5, SpillIs
    <3>5. by \in 0..Height(v) /\ Fresher(v, m, enc.seen) /\ Len(enc.seen) = Height(v) /\ Keep \in Nat
      BY <1>3, <1>5, <1>13, <2>2, <2>3, <2>5, CodecAssumption
    <3>6. \A i \in 1..r.back : /\ r.lines[i].id < m.next
                               /\ \A k \in 1..Height(m) : r.lines[i].id # m.lines[m.back + k].id
      <4> DEFINE seen == enc.seen
      <4>1. /\ by \in 0..Height(v) /\ Fresher(v, m, seen) /\ Len(seen) = Height(v) /\ Keep \in Nat
            /\ Grid(v, Main) /\ Grid(m, Main) /\ Orderly(v, m) /\ r = ScrollUp(v, by, Keep)
        BY <1>13, <2>3, <3>5
      <4>2. \A n \in 1..Height(v) : v.lines[v.back + n].id = seen[n].line
        BY <1>13, <3>3
      <4> HIDE DEF seen, v, m, by, r
      <4> QED BY <3>4, <4>1, <4>2, ScrolledFiles
    <3>7. HeldOnce(v.lines) /\ Turned(v.lines, Ids(m.lines)) /\ Level(v)
      BY <2>3 DEF Orderly
    <3>8. /\ Grid(r, Main) /\ h.back = r.back /\ (\A i \in 1..r.back : h.lines[i] = r.lines[i])
          /\ Level(h) /\ HeldOnce(r.lines) /\ Turned(r.lines, Ids(m.lines))
      BY <1>15, <2>5, <3>7
    <3>9. Fresher(h, m, enc'.seen)
      BY <1>1, <1>7, <2>5, SentFresher
    <3>10. Height(m) = H /\ Height(h) = H
      BY <1>4
    <3> HIDE DEF h, m, r, v, H
    <3>11. Orderly(h, m)
      BY <1>13, <3>2, <3>6, <3>8, <3>10, FiledIs
    <3> QED BY <3>9, <3>11
  <2> QED BY <2>4, <2>5
<1> QED BY <1>10, <1>11, <1>12, <1>16, <1>17 DEF IInv

(* A delta keeps the invariant, silent, refused or applied. *)
LEMMA PollDeltaKeeps ==
  ASSUME IInv, NEW other, PollDelta(other)
  PROVE  IInv'
BY SilentKeeps, AppliedKeeps

(* What a page of history leaves on a screen is read as it was. *)
LEMMA RereadIs ==
  ASSUME NEW attrs, NEW ids, Knows(attrs, ids), NEW p \in Pays(attrs),
         NEW more, \A id \in DOMAIN ids : id \in DOMAIN more /\ more[id] = ids[id]
  PROVE  Decoded(p, more) = Decoded(p, ids)
<1>1. p.run = NoRun \/ p.run \in DOMAIN ids
  BY DEF Pays, Runs, Knows
<1>2. CASE p.run = NoRun
  BY <1>2 DEF Decoded
<1>3. CASE p.run # NoRun /\ p.run \in DOMAIN ids
  <2>1. p.run \in DOMAIN more /\ more[p.run] = ids[p.run]
    BY <1>3
  <2> QED BY <1>3, <2>1 DEF Decoded, Known
<1> QED BY <1>1, <1>2, <1>3

(* Rows in order, the replica's own and ones that the host has filed. *)
LEMMA PagedKeeps ==
  ASSUME NEW m, Grid(m, Main), Ascending(m.lines), Level(m),
         NEW v, Grid(v, Main), Orderly(v, m),
         NEW h, Grid(h, Main), Height(h) = Height(v), h.next = v.next, Ascending(h.lines),
         h.lines[h.back + Height(v)] = v.lines[v.back + Height(v)],
         \A i \in 1..Len(h.lines) : \/ \E j \in 1..Len(v.lines) : h.lines[i] = v.lines[j]
                                    \/ \E j \in 1..m.back : h.lines[i] = m.lines[j]
  PROVE  Orderly(h, m) /\ \A seen : Fresher(v, m, seen) => Fresher(h, m, seen)
<1>1. /\ Len(h.lines) \in Nat \ {0} /\ DOMAIN h.lines = 1..Len(h.lines) /\ h.next \in Nat
      /\ \A i \in 1..Len(h.lines) : h.lines[i].id \in Nat
      /\ h.back + Height(v) = Len(h.lines)
  BY GridIs
<1>2. /\ Len(v.lines) \in Nat \ {0} /\ v.back + Height(v) = Len(v.lines)
      /\ \A i \in 1..Len(v.lines) : v.lines[i].id \in Nat
  BY GridIs
<1>3. /\ Len(m.lines) \in Nat /\ m.back \in Nat /\ Height(m) \in Nat /\ m.back + Height(m) = Len(m.lines)
      /\ DOMAIN m.lines = 1..Len(m.lines) /\ m.next \in Nat
      /\ \A i \in 1..Len(m.lines) : m.lines[i].id \in Nat
  BY GridIs
<1>4. \A i, j \in 1..Len(h.lines) : i < j => h.lines[i].id < h.lines[j].id
  BY <1>1 DEF Ascending
<1>5. \A i, j \in 1..Len(m.lines) : i < j => m.lines[i].id < m.lines[j].id
  BY <1>3 DEF Ascending
<1>6. /\ \A i \in 1..Len(v.lines) : v.lines[i].id < m.next /\ v.lines[i].id < v.next
      /\ \A i \in 1..Len(m.lines) : m.lines[i].id < m.next
  BY DEF Orderly, AllUnder, Level
<1>7. HeldOnce(h.lines)
  <2> SUFFICES ASSUME NEW i \in 1..Len(h.lines), NEW j \in 1..Len(h.lines), h.lines[i].id = h.lines[j].id
               PROVE  i = j
    BY <1>1 DEF HeldOnce
  <2>1. ~(i < j) /\ ~(j < i)
    BY <1>1, <1>4
  <2> QED BY <1>1, <2>1
<1>8. Turned(h.lines, Ids(m.lines))
  <2>1. ASSUME NEW i \in 1..Len(h.lines), NEW j \in 1..Len(h.lines), i < j, h.lines[i].id > h.lines[j].id
        PROVE  FALSE
    <3> DEFINE x == h.lines[i].id
               y == h.lines[j].id
    <3>1. x \in Nat /\ y \in Nat /\ x < y /\ x > y
      BY <1>1, <1>4, <2>1
    <3> HIDE DEF x, y
    <3> QED BY <3>1
  <2> QED BY <2>1 DEF Turned
<1>9. AllUnder(h.lines, m.next)
  <2> SUFFICES ASSUME NEW i \in 1..Len(h.lines) PROVE h.lines[i].id < m.next
    BY DEF AllUnder
  <2>1. CASE \E j \in 1..Len(v.lines) : h.lines[i] = v.lines[j]
    BY <1>6, <2>1
  <2>2. CASE \E j \in 1..m.back : h.lines[i] = m.lines[j]
    <3>1. PICK j \in 1..m.back : h.lines[i] = m.lines[j]
      BY <2>2
    <3>2. j \in 1..Len(m.lines)
      BY <1>3
    <3> QED BY <1>6, <3>1, <3>2
  <2> QED BY <2>1, <2>2
<1>10. Level(h)
  <2> DEFINE n == Len(h.lines)
             z == h.lines[n].id
  <2>1. z < h.next
    <3>1. Len(v.lines) \in 1..Len(v.lines) /\ h.lines[n] = v.lines[Len(v.lines)]
      BY <1>1, <1>2
    <3> QED BY <1>6, <3>1
  <2> SUFFICES ASSUME NEW i \in 1..n PROVE h.lines[i].id < h.next
    BY DEF Level, AllUnder
  <2>2. n \in 1..n /\ (i = n \/ i < n)
    BY <1>1
  <2>3. CASE i = n
    BY <2>1, <2>3
  <2>4. CASE i < n
    <3> DEFINE x == h.lines[i].id
    <3>1. x < z /\ x \in Nat /\ z \in Nat
      BY <1>1, <1>4, <2>2, <2>4
    <3> HIDE DEF x, z
    <3>2. x < h.next
      BY <1>1, <2>1, <3>1
    <3> QED BY <3>2 DEF x
  <2> QED BY <2>2, <2>3, <2>4
<1>11. ASSUME NEW seen, Fresher(v, m, seen), NEW i \in 1..Height(m)
       PROVE  \/ \E j \in 1..Len(seen) : seen[j].line = m.lines[m.back + i].id
              \/ \A k \in 1..Len(h.lines) : h.lines[k].id < m.lines[m.back + i].id
  <2> DEFINE y == m.lines[m.back + i].id
  <2>1. (\E j \in 1..Len(seen) : seen[j].line = y) \/ \A k \in 1..Len(v.lines) : v.lines[k].id < y
    BY <1>11 DEF Fresher
  <2>2. ASSUME NEW j \in 1..m.back PROVE m.lines[j].id < y
    <3>1. j \in 1..Len(m.lines) /\ m.back + i \in 1..Len(m.lines) /\ j < m.back + i
      BY <1>3
    <3> QED BY <1>5, <3>1
  <2> HIDE DEF y
  <2>3. CASE \A k \in 1..Len(v.lines) : v.lines[k].id < y
    <3>1. \A k \in 1..Len(h.lines) : h.lines[k].id < y
      BY <2>2, <2>3
    <3> QED BY <3>1 DEF y
  <2>4. CASE \E j \in 1..Len(seen) : seen[j].line = y
    BY <2>4 DEF y
  <2> QED BY <2>1, <2>3, <2>4
<1> QED BY <1>7, <1>8, <1>9, <1>10, <1>11 DEF Orderly, Fresher

(* A page of history keeps the invariant: the screen is read as it was, unless the page gave an id
   away, which it marks, and the rows are in order, which it checks. *)
LEMMA TakeHistoryKeeps ==
  ASSUME IInv, TakeHistory
  PROVE  IInv'
<1> DEFINE m == host[1]
           v == view[1]
           h == view'[1]
<1>1. /\ TypeInv /\ Upto /\ Shown /\ Erased /\ Held
      /\ Counters /\ Sound(host) /\ Term(view) /\ EncoderOk(enc) /\ Following
      /\ (asked => behind) /\ (owed \/ Len(enc.seen) = Height(host[1]))
  BY DEF IInv, TypeInv
<1>2. /\ Term(view') /\ InAlt(view') = InAlt(view) /\ Height(h) = Height(v)
      /\ \A i \in 1..Height(v) : Screen(Active(view'))[i] = Screen(Active(view))[i]
      /\ (InAlt(view) => h = v) /\ h.next = v.next
  BY <1>1, PageIs
<1>3. \A i \in 1..Len(h.lines) :
        \/ \E j \in 1..Len(v.lines) : h.lines[i] = v.lines[j]
        \/ \E j \in 1..m.back : h.lines[i] = m.lines[j]
  <2>1. \A i \in 1..Len(view'[1].lines) :
          \/ \E j \in 1..Len(view[1].lines) : view'[1].lines[i] = view[1].lines[j]
          \/ ~InAlt(host) /\ \E j \in 1..host[1].back : view'[1].lines[i] = host[1].lines[j]
    BY <1>1, PageIs
  <2> QED BY <2>1
<1>4. /\ \A id \in DOMAIN table : id \in DOMAIN table' /\ (table'[id] = table[id] \/ table'[id] \in Texts)
      /\ ("restyled" \notin marks' => \A id \in DOMAIN table : table'[id] = table[id])
      /\ ("spilled" \notin marks' => Ascending(Active(view').lines))
      /\ marks \subseteq marks' /\ marks' \subseteq marks \cup {"restyled", "spilled"}
      /\ UNCHANGED <<plan, deeds, host, clears, floor, event, moved, owed, enc, behind, cleared, asked>>
  BY <1>1, PageIs DEF hostVars
<1>5. Counters'
  <2>1. marks' \subseteq AllMarks
    BY <1>1, <1>4 DEF Counters, AllMarks
  <2> QED BY <1>1, <1>4, <2>1 DEF Counters
<1>6. TypeInv'
  <2>1. Following'
    <3> SUFFICES ASSUME ~asked
                 PROVE  /\ Len(enc.seen) = Height(h) /\ enc.alt = InAlt(view') /\ Knows(enc.attrs, table')
                        /\ "restyled" \notin marks' => KnowsWell(enc.attrs, table')
      BY <1>4 DEF Following
    <3>1. /\ Len(enc.seen) = Height(v) /\ enc.alt = InAlt(view) /\ Knows(enc.attrs, table)
          /\ "restyled" \notin marks => KnowsWell(enc.attrs, table)
      BY <1>1 DEF Following
    <3>2. Knows(enc.attrs, table')
      <4> SUFFICES ASSUME NEW t \in DOMAIN enc.attrs
                   PROVE  /\ enc.attrs[t] \in DOMAIN table'
                          /\ table'[enc.attrs[t]] = t \/ table'[enc.attrs[t]] \in Texts
        BY DEF Knows
      <4>1. enc.attrs[t] \in DOMAIN table /\ (table[enc.attrs[t]] = t \/ table[enc.attrs[t]] \in Texts)
        BY <3>1 DEF Knows
      <4> QED BY <1>4, <4>1
    <3>3. ASSUME "restyled" \notin marks' PROVE KnowsWell(enc.attrs, table')
      <4>1. KnowsWell(enc.attrs, table)
        BY <1>4, <3>1, <3>3
      <4> QED BY <1>4, <3>3, <4>1 DEF KnowsWell
    <3> QED BY <1>2, <3>1, <3>2, <3>3
  <2> QED BY <1>1, <1>2, <1>4, <1>5, <2>1 DEF TypeInv
<1>7. Upto'
  BY <1>1, <1>4 DEF Upto
<1>8. Shown'
  <2> SUFFICES ASSUME ~asked, "crossed" \notin marks'
               PROVE  /\ Shows(enc, view')
                      /\ "restyled" \notin marks' => ShowsWell(enc, view', table')
    BY <1>4 DEF Shown
  <2>1. /\ Shows(enc, view) /\ ("restyled" \notin marks => ShowsWell(enc, view, table))
        /\ Len(enc.seen) = Height(v) /\ Knows(enc.attrs, table) /\ enc.seen \in Seq(Pays(enc.attrs))
    BY <1>1, <1>4 DEF Shown, Following, EncoderOk
  <2>2. Shows(enc, view')
    BY <1>2, <2>1 DEF Shows
  <2>3. ASSUME "restyled" \notin marks', NEW i \in 1..Len(enc.seen)
        PROVE  Screen(Active(view'))[i] = Decoded(enc.seen[i], table')
    <3>1. Screen(Active(view'))[i] = Decoded(enc.seen[i], table)
      BY <1>2, <1>4, <2>1, <2>3 DEF ShowsWell
    <3> DEFINE attrs == enc.attrs
               p == enc.seen[i]
    <3>2. p \in Pays(attrs) /\ Knows(attrs, table)
      BY <2>1, ElementOfSeq
    <3>3. \A id \in DOMAIN table : id \in DOMAIN table' /\ table'[id] = table[id]
      BY <1>4, <2>3
    <3> HIDE DEF attrs, p
    <3>4. Decoded(p, table') = Decoded(p, table)
      BY <3>2, <3>3, RereadIs
    <3> QED BY <3>1, <3>4 DEF p
  <2> QED BY <2>2, <2>3 DEF ShowsWell
<1>9. /\ Grid(m, Main) /\ Grid(v, Main) /\ Grid(h, Main) /\ Level(m) /\ Ascending(m.lines)
      /\ floor \in Nat /\ Low(m, floor)
  <2>1. Grid(m, Main) /\ Grid(v, Main) /\ Grid(h, Main)
    BY <1>1, <1>2, TermIs DEF Sound
  <2> QED BY <1>1, <2>1 DEF Sound, Erased
<1>10. Erased'
  <2>1. ASSUME cleared = clears PROVE Low(h, floor)
    <3>1. Low(v, floor)
      BY <1>1, <2>1 DEF Erased
    <3>2. \A j \in 1..m.back : j \in 1..Len(m.lines)
      BY <1>9, GridIs
    <3>3. \A i \in 1..Len(h.lines) : h.lines[i].id >= floor
      BY <1>3, <1>9, <3>1, <3>2 DEF Low, AllFrom
    <3> QED BY <1>2, <3>1, <3>3 DEF Low, AllFrom
  <2> QED BY <1>1, <1>4, <2>1 DEF Erased
<1>11. Held'
  <2>1. "crossed" \in marks' => "mixed" \in marks'
    BY <1>1, <1>4 DEF Held
  <2> SUFFICES ASSUME Clean(marks')
               PROVE  Orderly(h, m) /\ (~owed /\ ~enc.alt => Fresher(h, m, enc.seen))
    BY <1>4, <2>1 DEF Held
  <2>2. Clean(marks) /\ "spilled" \notin marks'
    BY <1>4 DEF Clean
  <2>3. Orderly(v, m) /\ (~owed /\ ~enc.alt => Fresher(v, m, enc.seen))
    BY <1>1, <2>2 DEF Held
  <2>4. CASE InAlt(view)
    BY <1>2, <2>3, <2>4
  <2>5. CASE ~InAlt(view)
    <3>1. Active(view') = h /\ Active(view) = v
      BY <1>1, <1>2, <2>5, TermIs
    <3>2. Ascending(h.lines)
      BY <1>4, <2>2, <3>1
    <3>3. \A i \in 1..Height(v) : Screen(h)[i] = Screen(v)[i]
      BY <1>2, <3>1
    <3>4. Height(h) = Height(v) /\ h.next = v.next
      BY <1>2
    <3> DEFINE seen == enc.seen
    <3>5. ~owed /\ ~enc.alt => Fresher(v, m, seen)
      BY <2>3
    <3> HIDE DEF h, v, m, seen
    <3>6. h.lines[h.back + Height(v)] = v.lines[v.back + Height(v)]
      <4>1. Height(v) \in 1..Height(v)
        BY <1>9, GridIs
      <4>2. Screen(h)[Height(v)] = h.lines[h.back + Height(v)]
        BY <1>9, <3>4, <4>1, ScreenIs
      <4>3. Screen(v)[Height(v)] = v.lines[v.back + Height(v)]
        BY <1>9, <4>1, ScreenIs
      <4> QED BY <3>3, <4>1, <4>2, <4>3
    <3>7. Orderly(h, m) /\ \A s : Fresher(v, m, s) => Fresher(h, m, s)
      BY <1>3, <1>9, <2>3, <3>2, <3>4, <3>6, PagedKeeps
    <3> QED BY <3>5, <3>7 DEF seen
  <2> QED BY <2>4, <2>5
<1> QED BY <1>6, <1>7, <1>8, <1>10, <1>11 DEF IInv

(* A step that asks for a page, or none at all. *)
LEMMA IdleKeeps ==
  ASSUME IInv, AskHistory \/ UNCHANGED vars
  PROVE  IInv'
<1>1. UNCHANGED <<plan, deeds, host, clears, floor, event, moved, owed, enc, behind, view, table, cleared,
                  asked, drained, marks>>
  BY DEF AskHistory, hostVars, vars
<1>2. TypeInv /\ Upto /\ Shown /\ Erased /\ Held
  BY DEF IInv
<1>3. TypeInv'
  BY <1>1, <1>2 DEF TypeInv, Counters, Following
<1>4. Upto' /\ Shown' /\ Erased' /\ Held'
  BY <1>1, <1>2 DEF Upto, Shown, Erased, Held
<1> QED BY <1>3, <1>4 DEF IInv

(* The encoder of a subscriber that is attached to blank rows. *)
LEMMA BlankSent ==
  ASSUME NEW t, Term(t), ~InAlt(t), \A i \in 1..Height(t[1]) : Screen(t[1])[i].text = Blank,
         NEW e, e = [NewEncoder EXCEPT !.seen = Payloads(<<>>, Screen(t[1]))]
  PROVE  Sent(e, t)
<1> DEFINE none == <<>>
           rows == Screen(t[1])
           p == Payloads(none, rows)
<1>1. Active(t) = t[1] /\ Grid(t[1], Main) /\ Grid(t[1], All) /\ InAlt(t) = FALSE
  <2>1. Active(t) = t[1] /\ Grid(Active(t), All) /\ Grid(t[1], Main) /\ InAlt(t) \in BOOLEAN
    BY TermIs
  <2> QED BY <2>1
<1>2. rows \in Seq(Rows(All)) /\ Len(rows) = Height(t[1])
  <2> DEFINE g == t[1]
  <2>1. Grid(g, All)
    BY <1>1
  <2> HIDE DEF g
  <2>2. Screen(g) \in Seq(Rows(All)) /\ Len(Screen(g)) = Height(g)
    BY <2>1, ScreenIs
  <2> QED BY <2>2 DEF g
<1>3. AttrTable(none) /\ DOMAIN none = {}
  BY EmptyTable
<1>4. e.attrs = none /\ e.pending = {} /\ e.seen = p /\ e.alt = FALSE
  BY DEF NewEncoder
<1>5. \A i \in 1..Len(rows) : rows[i].text = Blank
  BY <1>2
<1> HIDE DEF none, rows, p
<1>6. Covers(none, rows)
  BY <1>5 DEF Covers
<1>7. /\ p \in Seq(Pays(none)) /\ Len(p) = Len(rows) /\ DOMAIN p = 1..Len(rows)
      /\ \A i \in 1..Len(rows) : p[i] = Payload(none, rows[i]) /\ p[i].line = rows[i].id
  BY <1>2, <1>3, <1>6, PayloadsIs DEF p
<1>8. EncoderOk(e)
  BY <1>3, <1>4, <1>7 DEF EncoderOk
<1>9. rows = Screen(Active(t)) /\ p = Payloads(none, rows)
  BY <1>1 DEF rows, p
<1> QED BY <1>1, <1>2, <1>4, <1>6, <1>7, <1>8, <1>9 DEF Sent

(* An attachment to a session that has just begun has the invariant. *)
LEMMA InitKeeps ==
  ASSUME Init
  PROVE  IInv
<1> DEFINE g == Fresh(plan.first)
<1>1. /\ plan \in Plans /\ deeds = 0 /\ host = <<g>> /\ view = <<g>>
      /\ clears = 0 /\ floor = 0 /\ cleared = 0
      /\ enc = [NewEncoder EXCEPT !.seen = Payloads(<<>>, Screen(g))]
      /\ moved = FALSE /\ owed = FALSE /\ event = FALSE
      /\ behind = FALSE /\ asked = FALSE /\ marks = {}
  BY DEF Init
<1>2. plan.first \in Nat \ {0}
  BY <1>1, CodecAssumption
<1>3. /\ Grid(g, Main) /\ Height(g) = plan.first /\ g.back = 0 /\ g.next = plan.first
      /\ Level(g) /\ Ascending(g.lines)
      /\ \A i \in 1..plan.first : g.lines[i] = Row(i - 1, Blank)
  <2>1. Blank \in Main
    BY DEF Main
  <2> QED BY <1>2, <2>1, FreshIs
<1> HIDE DEF g
<1>4. /\ Term(host) /\ ~InAlt(host) /\ Active(host) = g /\ host[1] = g
      /\ Term(view) /\ ~InAlt(view) /\ Active(view) = g /\ view[1] = g
      /\ InAlt(host) = FALSE /\ InAlt(view) = FALSE
  <2>1. Term(<<g>>) /\ ~InAlt(<<g>>) /\ Active(<<g>>) = g /\ <<g>>[1] = g
    BY <1>3, OneScreen
  <2>2. InAlt(<<g>>) = FALSE
    BY DEF InAlt
  <2> QED BY <1>1, <2>1, <2>2
<1>5. Sound(host)
  BY <1>3, <1>4 DEF Sound
<1>6. \A i \in 1..plan.first : Screen(g)[i] = Row(i - 1, Blank)
  <2>1. \A i \in 1..plan.first : Screen(g)[i] = g.lines[g.back + i]
    BY <1>3, ScreenIs
  <2> QED BY <1>2, <1>3, <2>1
<1>7. Sent(enc, host)
  <2>1. \A i \in 1..Height(host[1]) : Screen(host[1])[i].text = Blank
    <3>1. \A i \in 1..plan.first : Screen(g)[i].text = Blank
      <4> SUFFICES ASSUME NEW i \in 1..plan.first PROVE Screen(g)[i].text = Blank
        OBVIOUS
      <4>1. Screen(g)[i] = [id |-> i - 1, text |-> Blank]
        BY <1>6 DEF Row
      <4> QED BY <4>1
    <3> QED BY <1>3, <1>4, <3>1
  <2>2. enc = [NewEncoder EXCEPT !.seen = Payloads(<<>>, Screen(host[1]))]
    BY <1>1, <1>4
  <2> QED BY <1>4, <2>1, <2>2, BlankSent
<1>8. EncoderOk(enc) /\ enc.alt = FALSE /\ Len(enc.seen) = plan.first
  BY <1>3, <1>4, <1>7 DEF Sent
<1>9. enc.attrs = <<>> /\ DOMAIN <<>> = {}
  BY <1>1 DEF NewEncoder
<1>10. TypeInv
  <2>1. Counters
    <3>1. deeds \in Nat /\ clears \in 0..deeds /\ cleared \in 0..clears
      BY <1>1
    <3>2. /\ moved \in BOOLEAN /\ owed \in BOOLEAN /\ event \in BOOLEAN
          /\ behind \in BOOLEAN /\ asked \in BOOLEAN /\ marks \subseteq AllMarks
      BY <1>1
    <3> QED BY <1>1, <3>1, <3>2 DEF Counters
  <2>2. Following
    BY <1>3, <1>4, <1>8, <1>9 DEF Following, Knows, KnowsWell
  <2> QED BY <1>1, <1>3, <1>4, <1>5, <1>8, <2>1, <2>2 DEF TypeInv
<1>11. Upto
  BY <1>7 DEF Upto
<1>12. Shown
  <2> DEFINE attrs == enc.attrs
  <2>1. KnowsWell(attrs, table)
    BY <1>9 DEF KnowsWell
  <2>2. ASSUME NEW i \in 1..Len(enc.seen)
        PROVE  /\ Screen(Active(view))[i].id = enc.seen[i].line
               /\ Screen(Active(view))[i] = Decoded(enc.seen[i], table)
    <3>1. i \in 1..Height(host[1])
      BY <1>3, <1>4, <1>8
    <3>2. /\ enc.seen[i].line = Screen(Active(host))[i].id
          /\ \A ids : KnowsWell(attrs, ids) => Decoded(enc.seen[i], ids) = Screen(Active(host))[i]
      BY <1>5, <1>7, <3>1, SentShows
    <3> QED BY <1>4, <2>1, <3>2
  <2> QED BY <2>2 DEF Shown, Shows, ShowsWell
<1>13. \A i \in 1..Len(g.lines) : g.lines[i].id \in Nat
  BY <1>3, GridIs
<1>14. Erased
  <2>1. Low(g, 0)
    BY <1>2, <1>3, <1>13 DEF Low, AllFrom
  <2> QED BY <1>1, <1>3, <1>4, <2>1 DEF Erased
<1>15. Held
  <2>1. DOMAIN g.lines = 1..Len(g.lines) /\ Len(g.lines) \in Nat
    BY <1>3, GridIs
  <2>2. \A i, j \in 1..Len(g.lines) : i < j => g.lines[i].id < g.lines[j].id
    BY <1>3, <2>1 DEF Ascending
  <2>3. HeldOnce(g.lines)
    <3> SUFFICES ASSUME NEW i \in 1..Len(g.lines), NEW j \in 1..Len(g.lines), g.lines[i].id = g.lines[j].id
                 PROVE  i = j
      BY <2>1 DEF HeldOnce
    <3>1. ~(i < j) /\ ~(j < i)
      BY <1>13, <2>2
    <3> QED BY <2>1, <3>1
  <2>4. Turned(g.lines, Ids(g.lines))
    <3> SUFFICES ASSUME NEW i \in 1..Len(g.lines), NEW j \in 1..Len(g.lines),
                        i < j, g.lines[i].id > g.lines[j].id
                 PROVE  FALSE
      BY DEF Turned
    <3>1. /\ g.lines[i].id < g.lines[j].id /\ g.lines[i].id \in Nat /\ g.lines[j].id \in Nat
      BY <1>13, <2>2
    <3> QED BY <3>1
  <2>5. Orderly(g, g)
    BY <1>3, <2>3, <2>4 DEF Orderly, Level
  <2>6. Fresher(view[1], host[1], enc.seen)
    BY <1>4, <1>5, <1>7, SentFresher
  <2> QED BY <1>1, <1>4, <2>5, <2>6 DEF Held
<1> QED BY <1>10, <1>11, <1>12, <1>14, <1>15 DEF IInv

(* Every step keeps the invariant, whatever the plan. *)
LEMMA StepKeeps ==
  ASSUME IInv, [Next]_vars
  PROVE  IInv'
<1>1. /\ Counters /\ Sound(host) /\ EncoderOk(enc) /\ EncoderOk(NewEncoder)
  <2>1. NewEncoder.attrs = <<>> /\ NewEncoder.pending = {} /\ NewEncoder.seen = <<>> /\ NewEncoder.alt = FALSE
    BY DEF NewEncoder
  <2>2. AttrTable(NewEncoder.attrs) /\ NewEncoder.seen \in Seq(Pays(NewEncoder.attrs))
    BY <2>1, EmptyTable
  <2>3. EncoderOk(NewEncoder)
    BY <2>1, <2>2 DEF EncoderOk
  <2> QED BY <2>3 DEF IInv, TypeInv
<1>2. ASSUME NEW text \in Texts \cup AltTexts \cup {Blank}, NEW r \in 1..Height(Active(host)), Draw(r, text)
      PROVE  IInv'
  <2>1. Programs
    BY <1>1, <1>2, DrawIs
  <2> QED BY <2>1, ProgramsKeep
<1>3. CASE LineFeed
  <2>1. Programs
    BY <1>1, <1>3, LineFeedIs
  <2> QED BY <2>1, ProgramsKeep
<1>4. CASE SwitchScreen
  <2>1. Programs
    BY <1>1, <1>4, SwitchScreenIs
  <2> QED BY <2>1, ProgramsKeep
<1>5. CASE EraseAll
  BY <1>5, EraseAllKeeps
<1>6. CASE TellCleared
  BY <1>6, TellClearedKeeps
<1>7. ASSUME NEW other \in BOOLEAN, PollDelta(other) PROVE IInv'
  BY <1>7, PollDeltaKeeps
<1>8. ASSUME NEW below \in Belows, NEW height \in plan.heights, Resize(height, below) PROVE IInv'
  BY <1>8, ResizeKeeps
<1>9. ASSUME NEW below \in Belows, PollKeyframe(below) \/ Answer(below) \/ Reattach(below) PROVE IInv'
  <2>1. SendKeyframe(enc, below) \/ SendKeyframe(NewEncoder, below)
    BY <1>9 DEF PollKeyframe, Answer, Reattach
  <2>2. CASE SendKeyframe(enc, below)
    BY <1>1, <2>2, KeyframeKeeps
  <2>3. CASE SendKeyframe(NewEncoder, below)
    BY <1>1, <2>3, KeyframeKeeps
  <2> QED BY <2>1, <2>2, <2>3
<1>10. CASE AskHistory \/ UNCHANGED vars
  BY <1>10, IdleKeeps
<1>11. CASE TakeHistory
  BY <1>11, TakeHistoryKeeps
<1> QED BY <1>2, <1>3, <1>4, <1>5, <1>6, <1>7, <1>8, <1>9, <1>10, <1>11 DEF Next

-----------------------------------------------------------------------------
(* Every state of every behaviour has the invariant, for every height, history limit, page size and
   set of texts no larger than the ids there are (encode.rs, apply.rs, grid/mod.rs, session.rs). *)
THEOREM CodecInvariant == Spec => []IInv
<1>1. Init => IInv
  BY InitKeeps
<1>2. IInv /\ [Next]_vars => IInv'
  BY StepKeeps
<1> QED BY <1>1, <1>2, PTL DEF Spec

(* A terminal of typed grids is a terminal as the model states it. *)
LEMMA SoundTerminal ==
  ASSUME NEW t, Term(t)
  PROVE  Terminal(t)
<1> DEFINE a == t[1]
           b == Active(t)
<1>1. /\ Grid(a, Main) /\ Grid(b, All) /\ Height(b) = Height(a)
      /\ Height(a) \in Nat \ {0} /\ Len(t) \in {1, 2}
  BY TermIs
<1> HIDE DEF a, b
<1>2. \A i \in DOMAIN a.lines : a.lines[i].text \in Texts \cup {Blank}
  <2>1. DOMAIN a.lines = 1..Len(a.lines) /\ \A i \in 1..Len(a.lines) : a.lines[i].text \in Main
    BY <1>1, GridIs
  <2> QED BY <2>1 DEF Main
<1>3. \A i \in DOMAIN b.lines : b.lines[i].text \in Texts \cup AltTexts \cup {Blank}
  <2>1. DOMAIN b.lines = 1..Len(b.lines) /\ \A i \in 1..Len(b.lines) : b.lines[i].text \in All
    BY <1>1, GridIs
  <2> QED BY <2>1 DEF All
<1>4. Height(a) > 0
  BY <1>1
<1> QED BY <1>1, <1>2, <1>3, <1>4 DEF Terminal, a, b

(* Both ends are terminals whose main screens hold nothing of the alternate one, and every operation
   of a delta that is sent to a replica that is not behind applies: the shadow is of its height, on its
   screen and of renditions it knows (apply.rs: an operation that fails costs a keyframe). *)
THEOREM CodecTypeCorrect == Spec => []TypeOK
<1>1. IInv => TypeOK
  <2> SUFFICES ASSUME IInv PROVE TypeOK
    OBVIOUS
  <2>1. /\ Counters /\ Sound(host) /\ Term(host) /\ Term(view) /\ EncoderOk(enc)
        /\ (asked => behind) /\ Following
    BY DEF IInv, TypeInv, Sound
  <2>2. Terminal(host) /\ Terminal(view)
    BY <2>1, SoundTerminal
  <2>3. marks \subseteq AllMarks /\ clears \in 0..deeds /\ cleared \in 0..clears
    BY <2>1 DEF Counters
  <2>4. ASSUME ~behind
        PROVE  /\ Len(enc.seen) = Height(Active(view)) /\ enc.alt = InAlt(view)
               /\ \A i \in DOMAIN enc.seen : enc.seen[i].run \in DOMAIN table \cup {NoRun}
    <3>1. Len(enc.seen) = Height(view[1]) /\ enc.alt = InAlt(view) /\ Knows(enc.attrs, table)
      BY <2>1, <2>4 DEF Following
    <3>2. Height(Active(view)) = Height(view[1])
      BY <2>1, TermIs
    <3>3. ASSUME NEW i \in DOMAIN enc.seen PROVE enc.seen[i].run \in DOMAIN table \cup {NoRun}
      <4>1. enc.seen[i] \in Pays(enc.attrs)
        <5>1. enc.seen \in Seq(Pays(enc.attrs)) /\ DOMAIN enc.seen = 1..Len(enc.seen)
          BY <2>1, LenProperties DEF EncoderOk
        <5> QED BY <5>1, ElementOfSeq
      <4>2. enc.seen[i].run \in Runs(enc.attrs)
        BY <4>1 DEF Pays
      <4> QED BY <3>1, <4>2 DEF Runs, Knows
    <3> QED BY <3>1, <3>2, <3>3
  <2> QED BY <2>2, <2>3, <2>4 DEF TypeOK
<1> QED BY <1>1, CodecInvariant, PTL

(* What ED 3 destroyed is gone from a replica that has been told (encode.rs, history_clears in a
   keyframe; session.rs, keyframe_everyone). *)
THEOREM ClearsReachReplica == Spec => []ClearsReach
<1>1. IInv => ClearsReach
  <2> SUFFICES ASSUME IInv PROVE ClearsReach
    OBVIOUS
  <2> SUFFICES ASSUME Settled, "crossed" \notin marks, ~InAlt(host), NEW i \in 1..view[1].back
               PROVE  view[1].lines[i].id >= floor
    BY DEF ClearsReach
  <2>1. /\ Upto /\ Erased /\ Term(view)
    BY DEF IInv, TypeInv
  <2>2. ~enc.alt
    BY <2>1 DEF Settled, Upto, Sent
  <2>3. Low(view[1], floor)
    BY <2>1, <2>2 DEF Erased, Settled
  <2>4. i \in 1..Len(view[1].lines)
    <3>1. Grid(view[1], Main)
      BY <2>1, TermIs
    <3> QED BY <3>1, GridIs
  <2> QED BY <2>3, <2>4 DEF Low, AllFrom
<1> QED BY <1>1, CodecInvariant, PTL

(* A replica that has been sent all there is shows what the host shows, row for row with its id
   (encode.rs, diffing against what was sent; apply.rs), the marked exceptions apart. *)
THEOREM ScreensAgree == Spec => []ScreenAgrees
<1>1. IInv => ScreenAgrees
  <2> SUFFICES ASSUME IInv PROVE ScreenAgrees
    OBVIOUS
  <2> SUFFICES ASSUME Settled, marks \cap {"crossed", "restyled"} = {}
               PROVE  Screen(Active(view)) = Screen(Active(host))
    BY DEF ScreenAgrees
  <2>1. /\ Upto /\ Shown /\ Following /\ Sound(host) /\ Term(host) /\ Term(view)
    BY DEF IInv, TypeInv, Sound
  <2>2. Sent(enc, host) /\ ~asked /\ "crossed" \notin marks /\ "restyled" \notin marks
    BY <2>1 DEF Settled, Upto
  <2>3. ShowsWell(enc, view, table) /\ KnowsWell(enc.attrs, table) /\ Len(enc.seen) = Height(view[1])
    BY <2>1, <2>2 DEF Shown, Following
  <2>4. Len(enc.seen) = Height(host[1])
    BY <2>2 DEF Sent
  <2> DEFINE a == Active(view)
             b == Active(host)
             R == Rows(All)
  <2>5. /\ Grid(a, All) /\ Grid(b, All) /\ Height(a) = Len(enc.seen) /\ Height(b) = Len(enc.seen)
    BY <2>1, <2>3, <2>4, TermIs
  <2>6. \A i \in 1..Len(enc.seen) : Screen(a)[i] = Screen(b)[i]
    <3> SUFFICES ASSUME NEW i \in 1..Len(enc.seen) PROVE Screen(a)[i] = Screen(b)[i]
      OBVIOUS
    <3>1. i \in 1..Height(host[1])
      BY <2>4
    <3>2. \A ids : KnowsWell(enc.attrs, ids) => Decoded(enc.seen[i], ids) = Screen(Active(host))[i]
      BY <2>1, <2>2, <3>1, SentShows
    <3> QED BY <2>3, <3>2 DEF ShowsWell
  <2> HIDE DEF a, b, R
  <2>7. Screen(a) \in Seq(R) /\ Screen(b) \in Seq(R) /\ Len(Screen(a)) = Height(a) /\ Len(Screen(b)) = Height(b)
    BY <2>5, ScreenIs DEF R
  <2> DEFINE s == Screen(a)
             t == Screen(b)
  <2>8. s \in Seq(R) /\ t \in Seq(R) /\ Len(s) = Len(t) /\ \A i \in 1..Len(s) : s[i] = t[i]
    BY <2>5, <2>6, <2>7
  <2> HIDE DEF s, t
  <2>9. s = t
    BY <2>8, SeqEqual
  <2> QED BY <2>9 DEF s, t, a, b
<1> QED BY <1>1, CodecInvariant, PTL

(* No row is twice among a replica's rows (grid/mod.rs, drop_scrollback_rows; apply.rs, the boundary
   of a keyframe), the marked exceptions apart. *)
THEOREM LinesHeldOnce == Spec => []NoLineTwice
<1>1. IInv => NoLineTwice
  <2> SUFFICES ASSUME IInv PROVE NoLineTwice
    OBVIOUS
  <2>1. Held
    BY DEF IInv
  <2> QED BY <2>1 DEF NoLineTwice, Held, Clean, Orderly
<1> QED BY <1>1, CodecInvariant, PTL
=============================================================================
