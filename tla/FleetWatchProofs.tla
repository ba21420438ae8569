------------------------- MODULE FleetWatchProofs -------------------------
(***************************************************************************)
(* Proofs about FleetWatch, for any fleet, any number of watcher threads   *)
(* and any depth of a lane: a watcher that was retired leaves nothing of   *)
(* its host behind, whatever it still hears.                               *)
(*                                                                         *)
(* The argument is one fact, ThreadInv: a host's entry in `watchers` and   *)
(* the unset flag of a thread name each other, because both change under   *)
(* the one lock every write is made under.                                 *)
(***************************************************************************)
EXTENDS FleetWatch, TLAPS

Records == [pc : {"none", "tops", "marks", "dials", "publishes", "registers", "serves", "handles",
                  "leaves", "fails"},
            host : Hosts, route : Routes, stop : BOOLEAN, dead : BOOLEAN,
            msg : Queries \cup {NoQuery}]

FleetType ==
  /\ plan \in [pc : {"idle", "retires", "starts"}, stop : SUBSET Hosts,
               start : [Hosts -> Routes \cup {"none"}]]
  /\ watchers \in [Hosts -> Watchers \cup {Nobody}] /\ links \in [Hosts -> Watchers \cup {Nobody}]
  /\ sessions \in [Hosts -> {"unknown", "fetching", "fresh", "failed"}]
  /\ search \in [query : Queries \cup {NoQuery}, asked : SUBSET Hosts,
                 answers : [Hosts -> Queries \cup {NoQuery}]]
  /\ watcher \in [Watchers -> Records]

ThreadInv ==
  /\ \A h \in Hosts : watchers[h] # Nobody =>
       /\ watcher[watchers[h]].host = h /\ ~watcher[watchers[h]].stop
       /\ watcher[watchers[h]].pc # "none"
  /\ \A w \in Watchers : watcher[w].pc # "none" /\ ~watcher[w].stop
       => watchers[watcher[w].host] = w

(* What the supervisor is about to start nobody watches. *)
PlanInv == plan.pc # "idle" => \A h \in ToStart : watchers[h] = Nobody

FleetInv == FleetType /\ ThreadInv /\ PlanInv /\ NoGhost
-----------------------------------------------------------------------------
LEMMA NobodyIsNoWatcher == Nobody \notin Watchers
<1>1. MaxWatchers \in Int /\ 1 \in Int
  BY FleetAssumption DEF FleetAssumption
<1> QED
  BY <1>1 DEF Watchers, Nobody

LEMMA NoThreadIsARecord == NoThread \in Records /\ NoThread.pc = "none"
<1>1. (CHOOSE h \in Hosts : TRUE) \in Hosts
  BY FleetAssumption DEF FleetAssumption
<1> QED
  BY <1>1 DEF NoThread, Records, Routes

(* A thread that only moves on leaves the threads as they were. *)
LEMMA GoingOn ==
  ASSUME FleetInv, NEW w \in Watchers, NEW r \in Records,
         watcher[w].pc # "none",
         r.host = watcher[w].host, r.stop = watcher[w].stop, r.pc # "none" \/ r.stop,
         watcher' = [watcher EXCEPT ![w] = r], UNCHANGED <<plan, watchers>>
  PROVE  watcher' \in [Watchers -> Records] /\ ThreadInv' /\ PlanInv'
<1>1. watcher' \in [Watchers -> Records]
  BY DEF FleetInv, FleetType
<1>2. ThreadInv'
  BY DEF FleetInv, FleetType, ThreadInv
<1>3. PlanInv'
  BY DEF FleetInv, PlanInv, ToStart
<1> QED
  BY <1>1, <1>2, <1>3

LEMMA Going ==
  ASSUME FleetInv, NEW w \in Watchers, NEW p, watcher[w].pc # "none",
         p \in {"tops", "marks", "dials", "publishes", "registers", "serves", "handles",
                "leaves", "fails"},
         Goes(w, p), UNCHANGED <<plan, watchers>>
  PROVE  watcher' \in [Watchers -> Records] /\ ThreadInv' /\ PlanInv'
<1> DEFINE r == [watcher[w] EXCEPT !.pc = p]
<1>1. watcher[w] \in Records
  BY DEF FleetInv, FleetType
<1>2. r \in Records /\ r.host = watcher[w].host /\ r.stop = watcher[w].stop /\ r.pc # "none"
  BY <1>1 DEF Records
<1>3. watcher' = [watcher EXCEPT ![w] = r]
  BY DEF Goes
<1> HIDE DEF r
<1> QED
  BY <1>2, <1>3, GoingOn

(* Whoever writes a host's listing under the lock with the flag unset is the
   host's watcher. *)
LEMMA Unretired ==
  ASSUME FleetInv, NEW w \in Watchers, watcher[w].pc # "none", ~Retired(w)
  PROVE  Host(w) \in Hosts /\ watchers[Host(w)] = w /\ watchers[Host(w)] # Nobody
BY NobodyIsNoWatcher DEF FleetInv, FleetType, ThreadInv, Records, Retired, Host

LEMMA ListingStep ==
  ASSUME FleetInv, NEW w \in Watchers, watcher[w].pc # "none", Listing(w),
         UNCHANGED <<watchers, links, search, declined>>
  PROVE  NoGhost' /\ sessions' \in [Hosts -> {"unknown", "fetching", "fresh", "failed"}]
<1>1. CASE Retired(w)
  BY <1>1 DEF Listing, FleetInv, FleetType, NoGhost
<1>2. CASE ~Retired(w)
  <2>1. Host(w) \in Hosts /\ watchers[Host(w)] # Nobody
    BY <1>2, Unretired
  <2>2. /\ sessions' = [sessions EXCEPT ![Host(w)] = "fresh"]
        /\ offers' = offers \cup {Host(w)}
    BY <1>2 DEF Listing
  <2> QED
    BY <2>1, <2>2 DEF FleetInv, FleetType, NoGhost
<1> QED
  BY <1>1, <1>2
-----------------------------------------------------------------------------
LEMMA PlansStep ==
  ASSUME FleetInv, Plans
  PROVE  FleetInv'
<1> DEFINE stop == {h \in Hosts : watchers[h] # Nobody /\ BestRoute(h) = "none"}
           start == [h \in Hosts |-> IF watchers[h] = Nobody THEN BestRoute(h) ELSE "none"]
<1>1. plan' = [pc |-> "retires", stop |-> stop, start |-> start]
  BY DEF Plans
<1>2. UNCHANGED <<watchers, sessions, offers, links, search, declined, watcher>>
  BY DEF Plans, stateVars
<1>3. start \in [Hosts -> Routes \cup {"none"}]
  BY DEF BestRoute, Routes
<1>4. \A h \in Hosts : start[h] # "none" => watchers[h] = Nobody
  OBVIOUS
<1> HIDE DEF start
<1>5. FleetType'
  BY <1>1, <1>2, <1>3 DEF FleetInv, FleetType
<1>6. PlanInv'
  BY <1>1, <1>2, <1>4 DEF PlanInv, ToStart
<1> QED
  BY <1>2, <1>5, <1>6 DEF FleetInv, ThreadInv, NoGhost

LEMMA RetiresStep ==
  ASSUME FleetInv, Retires
  PROVE  FleetInv'
<1> DEFINE Flag(w) == watcher[w].stop \/ \E h \in plan.stop : watchers[h] = w
           W(w) == [watcher[w] EXCEPT !.stop = Flag(w)]
<1>1. /\ watcher' = [w \in Watchers |-> W(w)]
      /\ watchers' = [h \in Hosts |-> IF h \in plan.stop THEN Nobody ELSE watchers[h]]
      /\ sessions' = [h \in Hosts |-> IF h \in plan.stop THEN "unknown" ELSE sessions[h]]
      /\ links' = [h \in Hosts |-> IF h \in plan.stop THEN Nobody ELSE links[h]]
      /\ offers' = offers \ plan.stop
      /\ search' = [search EXCEPT !.asked = @ \ plan.stop]
      /\ UNCHANGED declined
  BY DEF Retires
<1>2. plan.pc = "retires" /\ \E p \in {"idle", "starts"} : plan' = [plan EXCEPT !.pc = p]
  BY DEF Retires
<1>3. \A w \in Watchers : /\ W(w) \in Records
                         /\ W(w).pc = watcher[w].pc /\ W(w).host = watcher[w].host
                         /\ W(w).stop = Flag(w)
  <2> TAKE w \in Watchers
  <2>1. Flag(w) \in BOOLEAN
    BY DEF FleetInv, FleetType, Records
  <2>2. watcher[w] \in Records
    BY DEF FleetInv, FleetType
  <2>3. PICK b \in BOOLEAN : Flag(w) = b
    BY <2>1
  <2> HIDE DEF Flag
  <2>4. /\ [watcher[w] EXCEPT !.stop = b] \in Records
        /\ [watcher[w] EXCEPT !.stop = b].pc = watcher[w].pc
        /\ [watcher[w] EXCEPT !.stop = b].host = watcher[w].host
        /\ [watcher[w] EXCEPT !.stop = b].stop = b
    BY <2>2 DEF Records
  <2>5. W(w) = [watcher[w] EXCEPT !.stop = b]
    BY <2>3, Zenon
  <2> QED
    BY <2>4, <2>5
<1> HIDE DEF W
<1>4. \A w \in Watchers : /\ watcher'[w] \in Records
                         /\ watcher'[w].pc = watcher[w].pc /\ watcher'[w].host = watcher[w].host
                         /\ watcher'[w].stop = Flag(w)
  <2> HIDE DEF Flag
  <2> QED
    BY <1>1, <1>3
<1>5. FleetType'
  <2>1. watcher' \in [Watchers -> Records]
    BY <1>1, <1>3
  <2>2. plan' \in [pc : {"idle", "retires", "starts"}, stop : SUBSET Hosts,
                   start : [Hosts -> Routes \cup {"none"}]]
    BY <1>2 DEF FleetInv, FleetType
  <2>3. /\ watchers' \in [Hosts -> Watchers \cup {Nobody}]
        /\ links' \in [Hosts -> Watchers \cup {Nobody}]
        /\ sessions' \in [Hosts -> {"unknown", "fetching", "fresh", "failed"}]
    BY <1>1 DEF FleetInv, FleetType
  <2>4. search' \in [query : Queries \cup {NoQuery}, asked : SUBSET Hosts,
                     answers : [Hosts -> Queries \cup {NoQuery}]]
    BY <1>1 DEF FleetInv, FleetType
  <2> QED
    BY <2>1, <2>2, <2>3, <2>4 DEF FleetType
<1>6. ThreadInv'
  <2>1. ASSUME NEW h \in Hosts, watchers'[h] # Nobody
        PROVE  /\ watcher'[watchers'[h]].host = h /\ ~watcher'[watchers'[h]].stop
               /\ watcher'[watchers'[h]].pc # "none"
    <3>1. h \notin plan.stop /\ watchers'[h] = watchers[h] /\ watchers[h] # Nobody
      BY <1>1, <2>1
    <3>2. watchers[h] \in Watchers
      BY <3>1 DEF FleetInv, FleetType
    <3>3. ~\E g \in plan.stop : watchers[g] = watchers[h]
      BY <3>1 DEF FleetInv, FleetType, ThreadInv
    <3>4. ~watcher[watchers[h]].stop /\ watcher[watchers[h]].host = h
          /\ watcher[watchers[h]].pc # "none"
      BY <3>1 DEF FleetInv, ThreadInv
    <3>5. ~Flag(watchers[h])
      BY <3>3, <3>4
    <3> HIDE DEF Flag
    <3> QED
      BY <1>4, <3>1, <3>2, <3>4, <3>5
  <2>2. ASSUME NEW w \in Watchers, watcher'[w].pc # "none", ~watcher'[w].stop
        PROVE  watchers'[watcher'[w].host] = w
    <3>1. watchers[watcher[w].host] = w /\ ~\E h \in plan.stop : watchers[h] = w
      BY <1>4, <2>2 DEF FleetInv, ThreadInv
    <3>2. watcher[w].host \in Hosts
      BY DEF FleetInv, FleetType, Records
    <3> QED
      BY <1>1, <1>4, <3>1, <3>2
  <2> QED
    BY <2>1, <2>2 DEF ThreadInv
<1>7. PlanInv'
  <2>1. \A h \in ToStart : h \in Hosts /\ watchers[h] = Nobody
    BY <1>2 DEF FleetInv, PlanInv, ToStart
  <2>2. ToStart' = ToStart
    BY <1>2 DEF FleetInv, FleetType, ToStart
  <2> QED
    BY <1>1, <2>1, <2>2 DEF PlanInv
<1>8. NoGhost'
  <2>1. \A h \in Hosts : watchers'[h] = Nobody => sessions'[h] = "unknown" /\ h \notin offers'
    BY <1>1 DEF FleetInv, NoGhost
  <2>2. \A h \in Hosts : links'[h] \in {Nobody, watchers'[h]}
    BY <1>1 DEF FleetInv, NoGhost
  <2>3. search'.answers = search.answers /\ search'.query = search.query
        /\ search'.asked = search.asked \ plan.stop
    BY <1>1 DEF FleetInv, FleetType
  <2>4. search'.asked \subseteq {h \in Hosts : links'[h] # Nobody} \ declined'
    BY <1>1, <2>3 DEF FleetInv, NoGhost
  <2> QED
    BY <2>1, <2>2, <2>3, <2>4 DEF FleetInv, NoGhost
<1> QED
  BY <1>5, <1>6, <1>7, <1>8 DEF FleetInv

LEMMA StartsStep ==
  ASSUME FleetInv, NEW h \in Hosts, Starts(h)
  PROVE  FleetInv'
<1>1. /\ plan.pc = "starts" /\ h \in ToStart /\ watchers[h] = Nobody
      /\ UNCHANGED <<sessions, offers, links, search, declined>>
  BY DEF Starts, FleetInv, PlanInv
<1>2. /\ plan' \in [pc : {"idle", "retires", "starts"}, stop : SUBSET Hosts,
                    start : [Hosts -> Routes \cup {"none"}]]
      /\ plan'.start = [plan.start EXCEPT ![h] = "none"]
  BY DEF Starts, FleetInv, FleetType
<1>3. ToStart' = ToStart \ {h}
  BY <1>2 DEF FleetInv, FleetType, ToStart
<1>4. CASE UNCHANGED <<watchers, watcher>>
  <2>1. PlanInv'
    BY <1>1, <1>3, <1>4 DEF FleetInv, PlanInv
  <2> QED
    BY <1>1, <1>2, <1>4, <2>1 DEF FleetInv, FleetType, ThreadInv, NoGhost
<1>5. ASSUME NEW w \in Watchers, watcher[w].pc = "none", watchers' = [watchers EXCEPT ![h] = w],
             watcher' = [watcher EXCEPT ![w] = [NoThread EXCEPT
               !.pc = "tops", !.host = h, !.route = plan.start[h]]]
      PROVE  FleetInv'
  <2> DEFINE r == [NoThread EXCEPT !.pc = "tops", !.host = h, !.route = plan.start[h]]
  <2>1. plan.start[h] \in Routes
    BY <1>1 DEF FleetInv, FleetType, ToStart
  <2>2. r \in Records /\ r.pc = "tops" /\ r.host = h /\ ~r.stop
    BY <2>1, NoThreadIsARecord DEF NoThread, Records
  <2>3. watcher' = [watcher EXCEPT ![w] = r]
    BY <1>5
  <2> HIDE DEF r
  <2>4. FleetType'
    BY <1>1, <1>2, <1>5, <2>2, <2>3 DEF FleetInv, FleetType
  <2>5. ThreadInv'
    <3>1. ASSUME NEW g \in Hosts, watchers'[g] # Nobody
          PROVE  /\ watcher'[watchers'[g]].host = g /\ ~watcher'[watchers'[g]].stop
                 /\ watcher'[watchers'[g]].pc # "none"
      <4>1. CASE g = h
        BY <1>5, <2>2, <2>3, <4>1 DEF FleetInv, FleetType
      <4>2. CASE g # h
        <5>1. watchers'[g] = watchers[g] /\ watchers[g] \in Watchers /\ watchers[g] # w
          BY <1>5, <3>1, <4>2 DEF FleetInv, FleetType, ThreadInv
        <5>2. watcher'[watchers[g]] = watcher[watchers[g]]
          BY <2>3, <5>1 DEF FleetInv, FleetType
        <5> QED
          BY <3>1, <5>1, <5>2 DEF FleetInv, ThreadInv
      <4> QED
        BY <4>1, <4>2
    <3>2. ASSUME NEW v \in Watchers, watcher'[v].pc # "none", ~watcher'[v].stop
          PROVE  watchers'[watcher'[v].host] = v
      <4>1. CASE v = w
        BY <1>5, <2>2, <2>3, <4>1 DEF FleetInv, FleetType
      <4>2. CASE v # w
        <5>1. watcher'[v] = watcher[v]
          BY <2>3, <4>2 DEF FleetInv, FleetType
        <5>2. watchers[watcher[v].host] = v /\ watcher[v].host \in Hosts
          BY <3>2, <5>1 DEF FleetInv, FleetType, ThreadInv, Records
        <5>3. watcher[v].host # h
          BY <1>1, <5>2, NobodyIsNoWatcher
        <5> QED
          BY <1>5, <5>1, <5>2, <5>3 DEF FleetInv, FleetType
      <4> QED
        BY <4>1, <4>2
    <3> QED
      BY <3>1, <3>2 DEF ThreadInv
  <2>6. PlanInv'
    BY <1>1, <1>3, <1>5 DEF FleetInv, FleetType, PlanInv, ToStart
  <2>7. NoGhost'
    BY <1>1, <1>5, NobodyIsNoWatcher DEF FleetInv, FleetType, NoGhost
  <2> QED
    BY <2>4, <2>5, <2>6, <2>7 DEF FleetInv
<1> QED
  BY <1>4, <1>5 DEF Starts
-----------------------------------------------------------------------------
LEMMA QuietStep ==
  ASSUME FleetInv, watcher' \in [Watchers -> Records] /\ ThreadInv' /\ PlanInv',
         UNCHANGED <<plan, stateVars>>
  PROVE  FleetInv'
BY DEF FleetInv, FleetType, stateVars, NoGhost

LEMMA TopsStep ==
  ASSUME FleetInv, NEW w \in Watchers, Tops(w)
  PROVE  FleetInv'
<1> DEFINE p == IF Retired(w) THEN "none" ELSE "marks"
           r == [watcher[w] EXCEPT !.pc = p]
<1>1. watcher[w] \in Records /\ watcher[w].pc # "none" /\ UNCHANGED <<plan, stateVars>>
  BY DEF Tops, FleetInv, FleetType
<1>2. r \in Records /\ r.host = watcher[w].host /\ r.stop = watcher[w].stop
  BY <1>1 DEF Records
<1>3. r.pc # "none" \/ r.stop
  BY <1>1 DEF Records, Retired
<1>4. watcher' = [watcher EXCEPT ![w] = r] /\ UNCHANGED watchers
  BY DEF Tops, Goes, stateVars
<1> HIDE DEF r
<1> QED
  BY <1>1, <1>2, <1>3, <1>4, GoingOn, QuietStep

LEMMA MarksStep ==
  ASSUME FleetInv, NEW w \in Watchers, Marks(w)
  PROVE  FleetInv'
<1>1. watcher[w].pc # "none" /\ UNCHANGED <<plan, watchers, offers, links, search, declined>>
  BY DEF Marks
<1>2. watcher' \in [Watchers -> Records] /\ ThreadInv' /\ PlanInv'
  BY <1>1, Going DEF Marks
<1>3. CASE UNCHANGED sessions
  BY <1>1, <1>2, <1>3 DEF FleetInv, FleetType, NoGhost
<1>4. CASE ~Retired(w) /\ sessions' = [sessions EXCEPT ![Host(w)] = "fetching"]
  <2>1. Host(w) \in Hosts /\ watchers[Host(w)] # Nobody
    BY <1>1, <1>4, Unretired
  <2> QED
    BY <1>1, <1>2, <1>4, <2>1 DEF FleetInv, FleetType, NoGhost
<1> QED
  BY <1>3, <1>4 DEF Marks

LEMMA DialsStep ==
  ASSUME FleetInv, NEW w \in Watchers, Dials(w)
  PROVE  FleetInv'
<1>1. watcher[w].pc # "none" /\ UNCHANGED <<plan, stateVars, watchers>>
  BY DEF Dials, stateVars
<1>2. watcher' \in [Watchers -> Records] /\ ThreadInv' /\ PlanInv'
  BY <1>1, Going DEF Dials
<1> QED
  BY <1>1, <1>2, QuietStep

LEMMA PublishesStep ==
  ASSUME FleetInv, NEW w \in Watchers,
         Publishes(w) \/ HandlesListing(w)
  PROVE  FleetInv'
<1>1. /\ watcher[w].pc # "none" /\ Listing(w)
      /\ UNCHANGED <<plan, watchers, links, search, declined>>
  BY DEF Publishes, HandlesListing
<1>2. watcher' \in [Watchers -> Records] /\ ThreadInv' /\ PlanInv'
  BY <1>1, Going DEF Publishes, HandlesListing
<1> QED
  BY <1>1, <1>2, ListingStep DEF FleetInv, FleetType

LEMMA RegistersStep ==
  ASSUME FleetInv, NEW w \in Watchers, Registers(w)
  PROVE  FleetInv'
<1>1. watcher[w].pc # "none" /\ UNCHANGED <<plan, watchers, sessions, offers, search, declined>>
  BY DEF Registers
<1>2. watcher' \in [Watchers -> Records] /\ ThreadInv' /\ PlanInv'
  BY <1>1, Going DEF Registers
<1>3. CASE UNCHANGED links
  BY <1>1, <1>2, <1>3 DEF FleetInv, FleetType, NoGhost
<1>4. CASE ~Retired(w) /\ links' = [links EXCEPT ![Host(w)] = w]
  <2>1. Host(w) \in Hosts /\ watchers[Host(w)] = w
    BY <1>1, <1>4, Unretired
  <2> QED
    BY <1>1, <1>2, <1>4, <2>1, NobodyIsNoWatcher DEF FleetInv, FleetType, NoGhost
<1> QED
  BY <1>3, <1>4 DEF Registers

LEMMA HearsStep ==
  ASSUME FleetInv, NEW w \in Watchers, NEW m \in Queries \cup {NoQuery}, Hears(w, m)
  PROVE  FleetInv'
<1> DEFINE r == [watcher[w] EXCEPT !.pc = IF Retired(w) THEN "leaves" ELSE "handles", !.msg = m]
<1>1. watcher[w] \in Records /\ watcher[w].pc # "none" /\ UNCHANGED <<plan, stateVars, watchers>>
  BY DEF Hears, FleetInv, FleetType, stateVars
<1>2. r \in Records /\ r.host = watcher[w].host /\ r.stop = watcher[w].stop /\ r.pc # "none"
  BY <1>1 DEF Records
<1>3. watcher' = [watcher EXCEPT ![w] = r]
  BY DEF Hears
<1> HIDE DEF r
<1> QED
  BY <1>1, <1>2, <1>3, GoingOn, QuietStep

LEMMA BreaksStep ==
  ASSUME FleetInv, NEW w \in Watchers, Breaks(w)
  PROVE  FleetInv'
<1>1. watcher[w].pc # "none" /\ UNCHANGED <<plan, stateVars, watchers>>
  BY DEF Breaks, stateVars
<1>2. watcher' \in [Watchers -> Records] /\ ThreadInv' /\ PlanInv'
  BY <1>1, Going DEF Breaks
<1> QED
  BY <1>1, <1>2, QuietStep

LEMMA MatchesStep ==
  ASSUME FleetInv, NEW w \in Watchers, HandlesMatches(w)
  PROVE  FleetInv'
<1>1. watcher[w].pc # "none" /\ UNCHANGED <<plan, watchers, sessions, offers, links, declined>>
  BY DEF HandlesMatches
<1>2. watcher' \in [Watchers -> Records] /\ ThreadInv' /\ PlanInv'
  BY <1>1, Going DEF HandlesMatches
<1>3. CASE UNCHANGED search
  BY <1>1, <1>2, <1>3 DEF FleetInv, FleetType, NoGhost
<1>4. CASE /\ search.query = watcher[w].msg
           /\ search' = [search EXCEPT !.answers[Host(w)] = watcher[w].msg]
  <2>1. Host(w) \in Hosts /\ watcher[w].msg \in Queries \cup {NoQuery}
    BY DEF FleetInv, FleetType, Records, Host
  <2>2. /\ search'.asked = search.asked /\ search'.query = search.query
        /\ search'.answers = [search.answers EXCEPT ![Host(w)] = search.query]
        /\ search' \in [query : Queries \cup {NoQuery}, asked : SUBSET Hosts,
                        answers : [Hosts -> Queries \cup {NoQuery}]]
    BY <1>4, <2>1 DEF FleetInv, FleetType
  <2> QED
    BY <1>1, <1>2, <2>1, <2>2 DEF FleetInv, FleetType, NoGhost
<1> QED
  BY <1>3, <1>4 DEF HandlesMatches

LEMMA RefusalStep ==
  ASSUME FleetInv, NEW w \in Watchers, HandlesRefusal(w)
  PROVE  FleetInv'
<1>1. watcher[w].pc # "none" /\ UNCHANGED <<plan, watchers, sessions, offers, links>>
  BY DEF HandlesRefusal
<1>2. watcher' \in [Watchers -> Records] /\ ThreadInv' /\ PlanInv'
  BY <1>1, Going DEF HandlesRefusal
<1>3. CASE UNCHANGED <<search, declined>>
  BY <1>1, <1>2, <1>3 DEF FleetInv, FleetType, NoGhost
<1>4. CASE /\ declined' = declined \cup {Host(w)}
           /\ search' = [search EXCEPT !.asked = @ \ {Host(w)}]
  <2>1. /\ search'.asked = search.asked \ {Host(w)} /\ search'.query = search.query
        /\ search'.answers = search.answers
        /\ search' \in [query : Queries \cup {NoQuery}, asked : SUBSET Hosts,
                        answers : [Hosts -> Queries \cup {NoQuery}]]
    BY <1>4 DEF FleetInv, FleetType
  <2> QED
    BY <1>1, <1>2, <1>4, <2>1 DEF FleetInv, FleetType, NoGhost
<1> QED
  BY <1>3, <1>4 DEF HandlesRefusal

LEMMA LeavesStep ==
  ASSUME FleetInv, NEW w \in Watchers, Leaves(w)
  PROVE  FleetInv'
<1>1. /\ watcher[w].pc # "none" /\ UNCHANGED <<plan, watchers, sessions, offers>>
      /\ declined' = declined \ {Host(w)}
  BY DEF Leaves
<1>2. watcher' \in [Watchers -> Records] /\ ThreadInv' /\ PlanInv'
  BY <1>1, Going DEF Leaves
<1>3. /\ search'.asked = search.asked \ {Host(w)} /\ search'.query = search.query
      /\ search'.answers = search.answers
      /\ search' \in [query : Queries \cup {NoQuery}, asked : SUBSET Hosts,
                      answers : [Hosts -> Queries \cup {NoQuery}]]
  BY DEF Leaves, FleetInv, FleetType
<1>4. /\ links' \in [Hosts -> Watchers \cup {Nobody}]
      /\ \A h \in Hosts : links'[h] \in {links[h], Nobody}
      /\ \A h \in Hosts : h # Host(w) => links'[h] = links[h]
  BY DEF Leaves, FleetInv, FleetType
<1> QED
  BY <1>1, <1>2, <1>3, <1>4 DEF FleetInv, FleetType, NoGhost

LEMMA FailsStep ==
  ASSUME FleetInv, NEW w \in Watchers, Fails(w)
  PROVE  FleetInv'
<1>1. watcher[w].pc # "none" /\ UNCHANGED <<plan, watchers, offers, links, search, declined>>
  BY DEF Fails
<1>2. watcher' \in [Watchers -> Records] /\ ThreadInv' /\ PlanInv'
  BY <1>1, Going DEF Fails
<1>3. CASE UNCHANGED sessions
  BY <1>1, <1>2, <1>3 DEF FleetInv, FleetType, NoGhost
<1>4. CASE ~Retired(w) /\ sessions' = [sessions EXCEPT ![Host(w)] = "failed"]
  <2>1. Host(w) \in Hosts /\ watchers[Host(w)] # Nobody
    BY <1>1, <1>4, Unretired
  <2> QED
    BY <1>1, <1>2, <1>4, <2>1 DEF FleetInv, FleetType, NoGhost
<1> QED
  BY <1>3, <1>4 DEF Fails

LEMMA RunsStep ==
  ASSUME FleetInv, NEW w \in Watchers, Runs(w) \/ HearsListing(w) \/ Breaks(w)
  PROVE  FleetInv'
<1>1. CASE HearsAnswer(w)
  BY <1>1, HearsStep DEF HearsAnswer
<1>2. CASE HearsListing(w)
  BY <1>2, HearsStep DEF HearsListing
<1> QED
  BY <1>1, <1>2, TopsStep, MarksStep, DialsStep, PublishesStep, RegistersStep, BreaksStep,
     MatchesStep, RefusalStep, LeavesStep, FailsStep DEF Runs
-----------------------------------------------------------------------------
LEMMA UnwatchedStep ==
  ASSUME FleetInv, UNCHANGED <<plan, stateVars, watcher>>
  PROVE  FleetInv'
BY DEF FleetInv, FleetType, ThreadInv, PlanInv, ToStart, NoGhost, stateVars

LEMMA UpgradesStep ==
  ASSUME FleetInv, NEW h \in Hosts, Upgrades(h)
  PROVE  FleetInv'
<1> DEFINE Flag(w) == watcher[w].dead \/ (Host(w) = h /\ Connected(w))
           W(w) == [watcher[w] EXCEPT !.dead = Flag(w)]
<1>1. watcher' = [w \in Watchers |-> W(w)] /\ UNCHANGED <<plan, stateVars, watchers>>
  BY DEF Upgrades, stateVars
<1>2. \A w \in Watchers : /\ W(w) \in Records /\ W(w).pc = watcher[w].pc
                         /\ W(w).host = watcher[w].host /\ W(w).stop = watcher[w].stop
  <2> TAKE w \in Watchers
  <2>1. Flag(w) \in BOOLEAN
    BY DEF FleetInv, FleetType, Records
  <2>2. watcher[w] \in Records
    BY DEF FleetInv, FleetType
  <2>3. PICK b \in BOOLEAN : Flag(w) = b
    BY <2>1
  <2> HIDE DEF Flag
  <2>4. /\ [watcher[w] EXCEPT !.dead = b] \in Records
        /\ [watcher[w] EXCEPT !.dead = b].pc = watcher[w].pc
        /\ [watcher[w] EXCEPT !.dead = b].host = watcher[w].host
        /\ [watcher[w] EXCEPT !.dead = b].stop = watcher[w].stop
    BY <2>2 DEF Records
  <2>5. W(w) = [watcher[w] EXCEPT !.dead = b]
    BY <2>3, Zenon
  <2> QED
    BY <2>4, <2>5
<1> HIDE DEF W
<1>3. watcher' \in [Watchers -> Records]
  BY <1>1, <1>2
<1>4. \A w \in Watchers : /\ watcher'[w].pc = watcher[w].pc
                         /\ watcher'[w].host = watcher[w].host /\ watcher'[w].stop = watcher[w].stop
  BY <1>1, <1>2
<1>5. ThreadInv'
  BY <1>1, <1>4 DEF FleetInv, FleetType, ThreadInv
<1>6. PlanInv'
  BY <1>1 DEF FleetInv, PlanInv, ToStart
<1> QED
  BY <1>1, <1>3, <1>5, <1>6, QuietStep

LEMMA SearchStep ==
  ASSUME FleetInv, NEW q \in Queries, SearchBlocks(q)
  PROVE  FleetInv'
<1>1. /\ search' = [query |-> q, asked |-> Asked, answers |-> NoSearch.answers]
      /\ UNCHANGED <<plan, watchers, sessions, offers, links, declined, watcher>>
  BY DEF SearchBlocks
<1>2. NoSearch.answers = [h \in Hosts |-> NoQuery]
  BY DEF NoSearch
<1>3. Asked \subseteq {h \in Hosts : links[h] # Nobody} \ declined
  BY DEF Asked
<1>4. FleetType'
  BY <1>1, <1>2, <1>3 DEF FleetInv, FleetType
<1>5. NoGhost'
  BY <1>1, <1>2, <1>3 DEF FleetInv, NoGhost
<1> QED
  BY <1>1, <1>4, <1>5 DEF FleetInv, ThreadInv, PlanInv, ToStart
-----------------------------------------------------------------------------
LEMMA FleetInvHolds == Spec => []FleetInv
<1>1. Init => FleetInv
  <2> SUFFICES ASSUME Init PROVE FleetInv
    OBVIOUS
  <2>1. /\ plan = [pc |-> "idle", stop |-> {}, start |-> [h \in Hosts |-> "none"]]
        /\ watchers = [h \in Hosts |-> Nobody] /\ links = [h \in Hosts |-> Nobody]
        /\ sessions = [h \in Hosts |-> "unknown"] /\ offers = {} /\ declined = {}
        /\ search = [query |-> NoQuery, asked |-> {}, answers |-> [h \in Hosts |-> NoQuery]]
        /\ watcher = [w \in Watchers |-> NoThread]
    BY DEF Init, NoSearch
  <2>2. FleetType
    BY <2>1, NoThreadIsARecord DEF FleetType
  <2>3. ThreadInv /\ PlanInv
    BY <2>1, NoThreadIsARecord DEF ThreadInv, PlanInv
  <2>4. NoGhost
    BY <2>1 DEF NoGhost
  <2> QED
    BY <2>2, <2>3, <2>4 DEF FleetInv
<1>2. FleetInv /\ [Next]_vars => FleetInv'
  <2> SUFFICES ASSUME FleetInv, [Next]_vars PROVE FleetInv'
    OBVIOUS
  <2>1. CASE Supervises
    BY <2>1, PlansStep, RetiresStep, StartsStep DEF Supervises
  <2>2. ASSUME NEW w \in Watchers, Runs(w) \/ HearsListing(w) \/ Breaks(w) PROVE FleetInv'
    BY <2>2, RunsStep
  <2>3. ASSUME NEW w \in Watchers, Takes(w) PROVE FleetInv'
    BY <2>3, UnwatchedStep DEF Takes
  <2>4. ASSUME NEW q \in Queries, SearchBlocks(q) PROVE FleetInv'
    BY <2>4, SearchStep
  <2>5. ASSUME NEW h \in Hosts, Moves(h) \/ Upgrades(h) PROVE FleetInv'
    BY <2>5, UnwatchedStep, UpgradesStep DEF Moves
  <2>6. CASE UNCHANGED vars
    BY <2>6, UnwatchedStep DEF vars, stateVars
  <2> QED
    BY <2>1, <2>2, <2>3, <2>4, <2>5, <2>6 DEF Next
<1> QED
  BY <1>1, <1>2, PTL DEF Spec

(* fleet.rs: a listing, an offer or a lane belongs to a host that is watched
   now, an answer to the question that is asked now, and nobody is waited for
   who has no lane or declined; the flag read under the lock is what makes it
   so (publish, serve_watch, receive_matches, reconcile_watchers). *)
THEOREM NothingHaunts == Spec => []NoGhost
<1>1. FleetInv => NoGhost
  BY DEF FleetInv
<1> QED
  BY <1>1, FleetInvHolds, PTL
-----------------------------------------------------------------------------
(* The rest of TypeOK: where hosts are, what lies in a lane, and what is owed. *)
WorldType ==
  /\ life.ways \subseteq SUBSET Routes /\ life.hosts \subseteq Hosts
  /\ reach \in [Hosts -> SUBSET Routes] /\ old \subseteq Hosts
  /\ offers \subseteq Hosts /\ declined \subseteq Hosts

WireType ==
  /\ lane \in [Watchers -> Seq(Queries)] /\ \A w \in Watchers : Len(lane[w]) <= LaneDepth
  /\ owed \in [Watchers -> [Queries -> Nat]]

LEMMA TypesFollow == FleetInv /\ WorldType /\ WireType => TypeOK
BY DEF FleetInv, FleetType, WorldType, WireType, Records, TypeOK

LEMMA WorldInit == Init => WorldType /\ WireType
<1> SUFFICES ASSUME Init PROVE WorldType /\ WireType
  OBVIOUS
<1>1. life.ways \subseteq SUBSET Routes /\ life.hosts \subseteq Hosts
  BY FleetAssumption DEF FleetAssumption, Init
<1>2. WorldType
  BY <1>1 DEF Init, WorldType
<1>3. NothingOwed \in [Queries -> Nat] /\ Len(<<>>) <= LaneDepth /\ <<>> \in Seq(Queries)
  BY FleetAssumption DEF FleetAssumption, NothingOwed
<1>4. lane = [w \in Watchers |-> <<>>] /\ owed = [w \in Watchers |-> NothingOwed]
  BY DEF Init
<1>5. WireType
  BY <1>3, <1>4 DEF WireType
<1> QED BY <1>2, <1>5

LEMMA HostOf == ASSUME FleetInv, NEW w \in Watchers PROVE Host(w) \in Hosts
BY DEF FleetInv, FleetType, Records, Host

(* Whatever trouble comes, where a host may be found stays what it was. *)
Same == life'.ways = life.ways /\ life'.hosts = life.hosts

LEMMA TroubleSame == ASSUME NEW t, Trouble(t) PROVE Same
BY DEF Trouble, Same

LEMMA LifeKept ==
  ASSUME \/ \E h \in Hosts : Starts(h) \/ Moves(h) \/ Upgrades(h)
         \/ Plans \/ Retires
         \/ \E q \in Queries : SearchBlocks(q)
         \/ \E w \in Watchers : Runs(w) \/ HearsListing(w) \/ Breaks(w) \/ Takes(w)
         \/ UNCHANGED vars
  PROVE  Same
<1>1. CASE UNCHANGED life
  BY <1>1 DEF Same
<1>2. CASE \E t : Trouble(t)
  BY <1>2, TroubleSame
<1>3. ASSUME NEW h \in Hosts, Moves(h) PROVE Same
  BY <1>3 DEF Moves, Same
<1>4. ASSUME NEW q \in Queries, SearchBlocks(q) PROVE Same
  BY <1>4 DEF SearchBlocks, Same
<1>5. ASSUME NEW h \in Hosts, Starts(h) \/ Upgrades(h) PROVE Same
  BY <1>1, <1>2, <1>5 DEF Starts, Upgrades
<1>6. ASSUME NEW w \in Watchers, Runs(w) \/ HearsListing(w) \/ Breaks(w) \/ Takes(w) PROVE Same
  BY <1>1, <1>2, <1>6 DEF Runs, HearsListing, Breaks, Takes, Tops, Marks, Dials, Publishes, Registers,
     HearsAnswer, HandlesListing, HandlesMatches, HandlesRefusal, Leaves, Fails, world
<1>7. CASE Plans \/ Retires
  BY <1>1, <1>2, <1>7 DEF Plans, Retires, world
<1> QED BY <1>1, <1>3, <1>4, <1>5, <1>6, <1>7 DEF vars

LEMMA WorldNext == FleetInv /\ WorldType /\ [Next]_vars => WorldType'
<1> SUFFICES ASSUME FleetInv, WorldType, [Next]_vars PROVE WorldType'
  OBVIOUS
<1>1. Same
  BY LifeKept DEF Next, Supervises
<1>2. reach' \in [Hosts -> SUBSET Routes] /\ old' \subseteq Hosts
  <2>1. ASSUME NEW h \in Hosts, Moves(h) PROVE reach' \in [Hosts -> SUBSET Routes] /\ old' = old
    BY <2>1 DEF Moves, WorldType
  <2>2. ASSUME NEW h \in Hosts, Upgrades(h) PROVE reach' = reach /\ old' \subseteq old
    BY <2>2 DEF Upgrades
  <2>3. CASE Supervises \/ \E q \in Queries : SearchBlocks(q)
    BY <2>3 DEF Supervises, Plans, Retires, Starts, SearchBlocks, world, WorldType
  <2>4. ASSUME NEW w \in Watchers, Runs(w) \/ HearsListing(w) \/ Breaks(w) \/ Takes(w)
        PROVE  UNCHANGED <<reach, old>>
    BY <2>4 DEF Runs, HearsListing, Hears, Breaks, Takes, Tops, Marks, Dials, Publishes, Registers,
       HearsAnswer, HandlesListing, HandlesMatches, HandlesRefusal, Leaves, Fails, world
  <2>5. CASE UNCHANGED vars
    BY <2>5 DEF vars, WorldType
  <2> QED BY <2>1, <2>2, <2>3, <2>4, <2>5 DEF Next, WorldType
<1>3. offers' \subseteq Hosts /\ declined' \subseteq Hosts
  <2>1. CASE \/ Supervises \/ (\E q \in Queries : SearchBlocks(q)) \/ UNCHANGED vars
             \/ \E h \in Hosts : Moves(h) \/ Upgrades(h)
    BY <2>1 DEF Supervises, Plans, Retires, Starts, SearchBlocks, Moves, Upgrades, stateVars, vars,
       WorldType
  <2>2. ASSUME NEW w \in Watchers, Runs(w) \/ HearsListing(w) \/ Breaks(w) \/ Takes(w)
        PROVE  offers' \subseteq offers \cup {Host(w)} /\ declined' \subseteq declined \cup {Host(w)}
    <3>1. CASE Listing(w) /\ UNCHANGED declined
      BY <3>1 DEF Listing
    <3> QED BY <2>2, <3>1 DEF Runs, HearsListing, Hears, Breaks, Takes, Tops, Marks, Dials, Publishes,
       Registers, HearsAnswer, HandlesListing, HandlesMatches, HandlesRefusal, Leaves, Fails, stateVars
  <2> QED BY <2>1, <2>2, HostOf DEF Next, WorldType
<1> QED BY <1>1, <1>2, <1>3 DEF WorldType, Same
-----------------------------------------------------------------------------
LEMMA TakesKeeps ==
  ASSUME WireType, NEW w \in Watchers, Takes(w) PROVE WireType'
<1>1. lane[w] \in Seq(Queries) /\ lane[w] # <<>> /\ Len(lane[w]) <= LaneDepth
  BY DEF WireType, Takes
<1> DEFINE q == Head(lane[w])
<1>2. /\ q \in Queries /\ Tail(lane[w]) \in Seq(Queries) /\ Len(Tail(lane[w])) <= Len(lane[w])
      /\ Len(Tail(lane[w])) <= LaneDepth
  BY <1>1, FleetAssumption DEF FleetAssumption
<1>3. owed' = [owed EXCEPT ![w][q] = @ + 1] /\ lane' = [lane EXCEPT ![w] = Tail(@)]
  BY DEF Takes
<1> HIDE DEF q
<1>4. owed' \in [Watchers -> [Queries -> Nat]]
  BY <1>2, <1>3 DEF WireType
<1>5. lane' \in [Watchers -> Seq(Queries)] /\ \A v \in Watchers : Len(lane'[v]) <= LaneDepth
  BY <1>2, <1>3 DEF WireType
<1> QED BY <1>4, <1>5 DEF WireType

LEMMA AnswerKeeps ==
  ASSUME WireType, NEW w \in Watchers, HearsAnswer(w) PROVE WireType'
<1>1. PICK q \in Queries : owed[w][q] > 0 /\ owed' = [owed EXCEPT ![w][q] = @ - 1]
  BY DEF HearsAnswer
<1>2. owed' \in [Watchers -> [Queries -> Nat]]
  BY <1>1 DEF WireType
<1>3. lane' = lane
  BY DEF HearsAnswer, Hears
<1> QED BY <1>2, <1>3 DEF WireType

LEMMA LeaveKeeps ==
  ASSUME WireType, NEW w \in Watchers, Leaves(w) PROVE WireType'
<1>1. lane' = [lane EXCEPT ![w] = <<>>] /\ owed' = [owed EXCEPT ![w] = NothingOwed]
  BY DEF Leaves
<1>2. NothingOwed \in [Queries -> Nat] /\ Len(<<>>) <= LaneDepth /\ <<>> \in Seq(Queries)
  BY FleetAssumption DEF FleetAssumption, NothingOwed
<1> HIDE DEF NothingOwed
<1> QED BY <1>1, <1>2 DEF WireType

(* A question goes down a lane only where there is room for one more. *)
LEMMA SearchKeeps ==
  ASSUME WireType, NEW q \in Queries, SearchBlocks(q) PROVE WireType'
<1>1. /\ owed' = owed
      /\ lane' = [w \in Watchers |->
                    IF \E h \in Asked : links[h] = w THEN Append(lane[w], q) ELSE lane[w]]
  BY DEF SearchBlocks
<1>2. ASSUME NEW w \in Watchers
      PROVE  /\ lane'[w] \in Seq(Queries) /\ Len(lane'[w]) <= LaneDepth
  <2>1. lane[w] \in Seq(Queries) /\ Len(lane[w]) <= LaneDepth
    BY DEF WireType
  <2>2. CASE \E h \in Asked : links[h] = w
    <3>1. Len(lane[w]) < LaneDepth /\ LaneDepth \in Nat
      BY <2>2, FleetAssumption DEF FleetAssumption, Asked
    <3>2. lane'[w] = Append(lane[w], q)
      BY <1>1, <2>2
    <3> QED BY <2>1, <3>1, <3>2
  <2>3. CASE ~\E h \in Asked : links[h] = w
    BY <1>1, <2>1, <2>3
  <2> QED BY <2>2, <2>3
<1>3. lane' \in [Watchers -> Seq(Queries)]
  BY <1>1, <1>2
<1> QED BY <1>1, <1>2, <1>3 DEF WireType

LEMMA WireNext == WireType /\ [Next]_vars => WireType'
<1> SUFFICES ASSUME WireType, [Next]_vars PROVE WireType'
  OBVIOUS
<1>1. CASE UNCHANGED wireVars
  BY <1>1 DEF wireVars, WireType
<1>2. ASSUME NEW w \in Watchers, Runs(w) \/ HearsListing(w) \/ Breaks(w) \/ Takes(w)
      PROVE  WireType'
  <2>1. CASE HearsAnswer(w) \/ Leaves(w) \/ Takes(w)
    BY <2>1, AnswerKeeps, LeaveKeeps, TakesKeeps
  <2>2. CASE ~(HearsAnswer(w) \/ Leaves(w) \/ Takes(w))
    <3>1. UNCHANGED wireVars
      BY <1>2, <2>2 DEF Runs, HearsListing, Hears, Breaks, Tops, Marks, Dials, Publishes, Registers,
         HandlesListing, HandlesMatches, HandlesRefusal, Fails, wireVars
    <3> QED BY <1>1, <3>1
  <2> QED BY <2>1, <2>2
<1>3. CASE Supervises \/ UNCHANGED vars \/ \E h \in Hosts : Moves(h) \/ Upgrades(h)
  <2>1. UNCHANGED wireVars
    BY <1>3 DEF Supervises, Plans, Retires, Starts, Moves, Upgrades, vars, wireVars
  <2> QED BY <1>1, <2>1
<1> QED BY <1>2, <1>3, SearchKeeps DEF Next

(* Every variable of the fleet keeps its type, and no lane holds more questions
   than it has room for.  fleet.rs State, LANE_DEPTH. *)
THEOREM FleetTypeCorrect == Spec => []TypeOK
<1>1. Spec => []WireType
  BY WorldInit, WireNext, PTL DEF Spec
<1>2. Spec => []WorldType
  BY WorldInit, WorldNext, FleetInvHolds, PTL DEF Spec
<1> QED BY <1>1, <1>2, FleetInvHolds, TypesFollow, PTL
=============================================================================
