----------------------------- MODULE FleetWatch -----------------------------
(***************************************************************************)
(* How a window keeps the fleet's listing and asks it for blocks            *)
(* (zest-app fleet.rs; the rule for routes is zest-fleet's best_route).     *)
(*                                                                         *)
(* The supervisor starts a watcher for every remote host that has a route   *)
(* and retires the watcher of one that has none; a watcher dials, lists,    *)
(* registers a lane and parks in read; the palette sends its question down  *)
(* every lane.  They share one State behind one lock: a step is a critical  *)
(* section, or the work of one thread between two of them.                  *)
(*                                                                         *)
(* A retired watcher lives until its socket says something, and a host that *)
(* comes back meanwhile has another.  What discovery and the account report *)
(* is the set of routes that work; the supervisor's doorbell is left to its *)
(* backstop; a lane's writer is one step with the host that reads the       *)
(* question, and how hosts answer is Answering: each question once, in any  *)
(* order.  The window's own host is watched by the same code, never retired.*)
(*                                                                         *)
(* An operator named Mutant... is a bug the properties have to catch; no   *)
(* other definition uses it.                                               *)
(***************************************************************************)
EXTENDS Integers, Sequences, FiniteSets

CONSTANTS
  Hosts,       \* the machines that are not this one
  Queries,     \* what is typed into the palette
  LaneDepth,   \* LANE_DEPTH, what a lane holds before try_send fails
  MaxWatchers, \* bound: the watcher threads alive at once
  Lives        \* bound: where hosts start and what may happen, one per behaviour

Routes == {"lan", "relay"}
Troubles == {"breaks", "push", "nokey", "nothread", "old"}
Watchers == 1..MaxWatchers
Nobody == 0
NoQuery == "no query"

ASSUME FleetAssumption ==
  /\ Hosts # {} /\ LaneDepth \in Nat \ {0} /\ MaxWatchers \in Nat
  /\ NoQuery \notin Queries
  /\ Lives \subseteq [hosts : SUBSET Hosts, queries : SUBSET Queries, asks : Nat, moves : Nat,
                      troubles : Nat, may : SUBSET Troubles, ways : SUBSET SUBSET Routes]

VARIABLES
  life,     \* what this behaviour may still do
  reach,    \* [Hosts -> the routes that work, as discovery and the account tell]
  old,      \* the hosts whose daemon cannot search
  plan,     \* the supervisor's thread and its WatcherPlan
  watchers, \* State: [Hosts -> the watcher held open, or Nobody]
  sessions, \* State: [Hosts -> what is known of its sessions]
  offers,   \* State: the hosts whose offer is kept
  links,    \* State: [Hosts -> the watcher whose lane it is, or Nobody]
  search,   \* State: the question, whom it reached, and the query each answer echoed
  declined, \* State: the hosts too old to be asked
  watcher,  \* [Watchers -> its thread: host, route, stop flag, message in hand]
  lane,     \* [Watchers -> questions nobody has taken]
  owed      \* [Watchers -> how often its host owes an answer to each question]

vars == <<life, reach, old, plan, watchers, sessions, offers, links, search, declined,
          watcher, lane, owed>>

stateVars == <<watchers, sessions, offers, links, search, declined>>
world == <<life, reach, old>>
wireVars == <<lane, owed>>
-----------------------------------------------------------------------------
NoThread == [pc |-> "none", host |-> CHOOSE h \in Hosts : TRUE, route |-> "lan",
             stop |-> FALSE, dead |-> FALSE, msg |-> NoQuery]
NoSearch == [query |-> NoQuery, asked |-> {}, answers |-> [h \in Hosts |-> NoQuery]]
NothingOwed == [q \in Queries |-> 0]

Init ==
  /\ life \in Lives
  /\ reach \in [Hosts -> life.ways] /\ \A h \in Hosts \ life.hosts : reach[h] = {}
  /\ old = IF "old" \in life.may THEN life.hosts ELSE {}
  /\ plan = [pc |-> "idle", stop |-> {}, start |-> [h \in Hosts |-> "none"]]
  /\ watchers = [h \in Hosts |-> Nobody] /\ sessions = [h \in Hosts |-> "unknown"]
  /\ offers = {} /\ links = [h \in Hosts |-> Nobody]
  /\ search = NoSearch /\ declined = {}
  /\ watcher = [w \in Watchers |-> NoThread]
  /\ lane = [w \in Watchers |-> <<>>] /\ owed = [w \in Watchers |-> NothingOwed]

(* best_route: evidence of the LAN beats the relay. *)
BestRoute(h) ==
  IF "lan" \in reach[h] THEN "lan" ELSE IF "relay" \in reach[h] THEN "relay" ELSE "none"

Trouble(t) ==
  /\ t \in life.may /\ life.troubles > 0
  /\ life' = [life EXCEPT !.troubles = @ - 1]

Goes(w, pc) == watcher' = [watcher EXCEPT ![w].pc = pc]
Host(w) == watcher[w].host
Retired(w) == watcher[w].stop
Connected(w) == watcher[w].pc \in {"publishes", "registers", "serves", "handles"}
-----------------------------------------------------------------------------
(* The world: routes come and go, and an unwatched host is upgraded. *)

Moves(h) ==
  /\ h \in life.hosts /\ life.moves > 0
  /\ life' = [life EXCEPT !.moves = @ - 1]
  /\ \E rs \in life.ways \ {reach[h]} : reach' = [reach EXCEPT ![h] = rs]
  /\ UNCHANGED <<old, plan, stateVars, watcher, wireVars>>

(* Its daemon restarts: the sockets of retired watchers stay, half open. *)
Upgrades(h) ==
  /\ h \in old /\ Trouble("old")
  /\ \A w \in Watchers : Host(w) = h /\ Connected(w) => Retired(w)
  /\ old' = old \ {h}
  /\ watcher' = [w \in Watchers |->
                   [watcher[w] EXCEPT !.dead = @ \/ (Host(w) = h /\ Connected(w))]]
  /\ UNCHANGED <<reach, plan, stateVars, wireVars>>
-----------------------------------------------------------------------------
(* The supervisor: reconcile_watchers. *)

(* watcher_plan, over one look at the fleet. *)
Plans ==
  /\ plan.pc = "idle"
  /\ \E h \in Hosts : (watchers[h] = Nobody) # (BestRoute(h) = "none")
  /\ plan' = [pc |-> "retires",
              stop |-> {h \in Hosts : watchers[h] # Nobody /\ BestRoute(h) = "none"},
              start |-> [h \in Hosts |->
                           IF watchers[h] = Nobody THEN BestRoute(h) ELSE "none"]]
  /\ UNCHANGED <<world, stateVars, watcher, wireVars>>

ToStart == {h \in Hosts : plan.start[h] # "none"}

(* The flags are set and everything of those hosts is cleared in one critical
   section; then the device key is read, which the store may refuse. *)
Retires ==
  /\ plan.pc = "retires"
  /\ watcher' = [w \in Watchers |-> [watcher[w] EXCEPT
       !.stop = @ \/ \E h \in plan.stop : watchers[h] = w]]
  /\ watchers' = [h \in Hosts |-> IF h \in plan.stop THEN Nobody ELSE watchers[h]]
  /\ sessions' = [h \in Hosts |-> IF h \in plan.stop THEN "unknown" ELSE sessions[h]]
  /\ links' = [h \in Hosts |-> IF h \in plan.stop THEN Nobody ELSE links[h]]
  /\ offers' = offers \ plan.stop
  /\ search' = [search EXCEPT !.asked = @ \ plan.stop]
  /\ \/ plan' = [plan EXCEPT !.pc = IF ToStart = {} THEN "idle" ELSE "starts"] /\ UNCHANGED life
     \/ ToStart # {} /\ Trouble("nokey") /\ plan' = [plan EXCEPT !.pc = "idle"]
  /\ UNCHANGED <<reach, old, declined, wireVars>>

(* A thread that cannot be started leaves no watcher, and is tried again. *)
Starts(h) ==
  /\ plan.pc = "starts" /\ h \in ToStart
  /\ plan' = [plan EXCEPT !.start[h] = "none", !.pc = IF ToStart = {h} THEN "idle" ELSE @]
  /\ \/ \E w \in Watchers :
          /\ watcher[w].pc = "none" /\ \A v \in 1..(w - 1) : watcher[v].pc # "none"
          /\ watchers' = [watchers EXCEPT ![h] = w]
          /\ watcher' = [watcher EXCEPT ![w] = [NoThread EXCEPT
               !.pc = "tops", !.host = h, !.route = plan.start[h]]]
          /\ UNCHANGED life
     \/ Trouble("nothread") /\ UNCHANGED <<watchers, watcher>>
  /\ UNCHANGED <<reach, old, sessions, offers, links, search, declined, wireVars>>
-----------------------------------------------------------------------------
(* A watcher's thread: spawn_host_watcher's loop. *)

Tops(w) ==
  /\ watcher[w].pc = "tops"
  /\ Goes(w, IF Retired(w) THEN "none" ELSE "marks")
  /\ UNCHANGED <<world, plan, stateVars, wireVars>>

Marks(w) ==
  /\ watcher[w].pc = "marks" /\ Goes(w, "dials")
  /\ sessions' = IF Retired(w) \/ sessions[Host(w)] # "unknown" THEN sessions
                 ELSE [sessions EXCEPT ![Host(w)] = "fetching"]
  /\ UNCHANGED <<world, plan, watchers, offers, links, search, declined, wireVars>>

(* The dial and the listing, over the route the watcher was started with. *)
Dials(w) ==
  /\ watcher[w].pc = "dials"
  /\ \/ watcher[w].route \in reach[Host(w)] /\ Goes(w, "publishes") /\ UNCHANGED life
     \/ watcher[w].route \notin reach[Host(w)] /\ Goes(w, "fails") /\ UNCHANGED life
     \/ Trouble("breaks") /\ Goes(w, "fails")
  /\ UNCHANGED <<reach, old, plan, stateVars, wireVars>>

(* publish, apply_listing: the flag is read under the lock. *)
Listing(w) ==
  IF Retired(w) THEN UNCHANGED <<sessions, offers>>
  ELSE /\ sessions' = [sessions EXCEPT ![Host(w)] = "fresh"]
       /\ offers' = offers \cup {Host(w)}

Publishes(w) ==
  /\ watcher[w].pc = "publishes" /\ Listing(w)
  /\ Goes(w, IF Retired(w) THEN "fails" ELSE "registers")
  /\ UNCHANGED <<world, plan, watchers, links, search, declined, wireVars>>

MutantRegisters(w) ==
  /\ watcher[w].pc = "registers"
  /\ Goes(w, "serves") /\ links' = [links EXCEPT ![Host(w)] = w]
  /\ UNCHANGED <<world, plan, watchers, sessions, offers, search, declined, wireVars>>

(* serve_watch: the lane is registered, unless the watcher was retired - or no
   thread can be had to write what comes down it. *)
Registers(w) ==
  /\ watcher[w].pc = "registers"
  /\ \/ Retired(w) /\ Goes(w, "fails") /\ UNCHANGED <<life, links>>
     \/ Trouble("nothread") /\ Goes(w, "fails") /\ UNCHANGED links
     \/ /\ ~Retired(w) /\ Goes(w, "serves")
        /\ links' = [links EXCEPT ![Host(w)] = w] /\ UNCHANGED life
  /\ UNCHANGED <<reach, old, plan, watchers, sessions, offers, search, declined, wireVars>>

(* read_frames up to the message: the flag is read outside the lock. *)
Hears(w, msg) ==
  /\ watcher[w].pc = "serves" /\ ~watcher[w].dead
  /\ watcher' = [watcher EXCEPT ![w].pc = IF Retired(w) THEN "leaves" ELSE "handles",
                                ![w].msg = msg]
  /\ UNCHANGED <<reach, old, plan, stateVars, lane>>

HearsListing(w) == Hears(w, NoQuery) /\ Trouble("push") /\ UNCHANGED owed

HearsAnswer(w) ==
  \E q \in Queries :
    /\ owed[w][q] > 0 /\ owed' = [owed EXCEPT ![w][q] = @ - 1]
    /\ Hears(w, q) /\ UNCHANGED life

Breaks(w) ==
  /\ watcher[w].pc = "serves" /\ Trouble("breaks") /\ Goes(w, "leaves")
  /\ UNCHANGED <<reach, old, plan, stateVars, wireVars>>

HandlesListing(w) ==
  /\ watcher[w].pc = "handles" /\ watcher[w].msg = NoQuery
  /\ Listing(w) /\ Goes(w, IF Retired(w) THEN "leaves" ELSE "serves")
  /\ UNCHANGED <<world, plan, watchers, links, search, declined, wireVars>>

(* receive_matches: an answer parks unless it is late in either way. *)
HandlesMatches(w) ==
  /\ watcher[w].pc = "handles" /\ watcher[w].msg # NoQuery /\ Host(w) \notin old
  /\ search' = IF Retired(w) \/ search.query # watcher[w].msg THEN search
               ELSE [search EXCEPT !.answers[Host(w)] = watcher[w].msg]
  /\ Goes(w, "serves")
  /\ UNCHANGED <<world, plan, watchers, sessions, offers, links, declined, wireVars>>

MutantRefusal(w) ==
  /\ watcher[w].pc = "handles" /\ watcher[w].msg # NoQuery /\ Host(w) \in old
  /\ IF Retired(w) THEN UNCHANGED declined ELSE declined' = declined \cup {Host(w)}
  /\ Goes(w, "serves")
  /\ UNCHANGED <<world, plan, watchers, sessions, offers, links, search, wireVars>>

(* decline_search: a host that did not understand is terminal for its lane. *)
HandlesRefusal(w) ==
  /\ watcher[w].pc = "handles" /\ watcher[w].msg # NoQuery /\ Host(w) \in old
  /\ IF Retired(w) THEN UNCHANGED <<search, declined>>
     ELSE /\ declined' = declined \cup {Host(w)}
          /\ search' = [search EXCEPT !.asked = @ \ {Host(w)}]
  /\ Goes(w, "serves")
  /\ UNCHANGED <<world, plan, watchers, sessions, offers, links, wireVars>>

(* serve_watch's end: its own lane only, but the host's marks whoever set them. *)
Leaves(w) ==
  /\ watcher[w].pc = "leaves" /\ Goes(w, "fails")
  /\ links' = IF links[Host(w)] = w THEN [links EXCEPT ![Host(w)] = Nobody] ELSE links
  /\ search' = [search EXCEPT !.asked = @ \ {Host(w)}]
  /\ declined' = declined \ {Host(w)}
  /\ lane' = [lane EXCEPT ![w] = <<>>] /\ owed' = [owed EXCEPT ![w] = NothingOwed]
  /\ UNCHANGED <<world, plan, watchers, sessions, offers>>

(* Only a listing that was never there reads failed (and a watcher that ends
   well has been retired: it changes nothing here). *)
Fails(w) ==
  /\ watcher[w].pc = "fails" /\ Goes(w, "tops")
  /\ sessions' = IF Retired(w) \/ sessions[Host(w)] # "fetching" THEN sessions
                 ELSE [sessions EXCEPT ![Host(w)] = "failed"]
  /\ UNCHANGED <<world, plan, watchers, offers, links, search, declined, wireVars>>
-----------------------------------------------------------------------------
(* The palette asks (ask_lanes), and a host takes a question off its lane. *)

MutantAsked == {h \in Hosts \ declined : links[h] # Nobody}
Asked == {h \in Hosts \ declined : links[h] # Nobody /\ Len(lane[links[h]]) < LaneDepth}
SearchBlocks(q) ==
  /\ q \in life.queries /\ life.asks > 0 /\ life' = [life EXCEPT !.asks = @ - 1]
  /\ search' = [query |-> q, asked |-> Asked, answers |-> NoSearch.answers]
  /\ lane' = [w \in Watchers |->
                IF \E h \in Asked : links[h] = w THEN Append(lane[w], q) ELSE lane[w]]
  /\ UNCHANGED <<reach, old, plan, watchers, sessions, offers, links, declined, watcher, owed>>

Takes(w) ==
  /\ watcher[w].pc \in {"serves", "handles"} /\ ~watcher[w].dead /\ lane[w] # <<>>
  /\ owed' = [owed EXCEPT ![w][Head(lane[w])] = @ + 1]
  /\ lane' = [lane EXCEPT ![w] = Tail(@)]
  /\ UNCHANGED <<world, plan, stateVars, watcher>>
-----------------------------------------------------------------------------
Supervises == Plans \/ Retires \/ \E h \in Hosts : Starts(h)
Runs(w) ==
  \/ Tops(w) \/ Marks(w) \/ Dials(w) \/ Publishes(w) \/ Registers(w) \/ HearsAnswer(w)
  \/ HandlesListing(w) \/ HandlesMatches(w) \/ HandlesRefusal(w) \/ Leaves(w) \/ Fails(w)

Next ==
  \/ Supervises
  \/ \E w \in Watchers : Runs(w) \/ HearsListing(w) \/ Breaks(w) \/ Takes(w)
  \/ \E q \in Queries : SearchBlocks(q)
  \/ \E h \in Hosts : Moves(h) \/ Upgrades(h)

(* Threads run, backoffs end, and a host that is connected answers what it is
   asked (DeferredWork); routes, links and people owe nothing. *)
Fairness ==
  /\ WF_vars(Supervises)
  /\ \A w \in Watchers : WF_vars(Runs(w)) /\ WF_vars(Takes(w))

Spec == Init /\ [][Next]_vars
FairSpec == Spec /\ Fairness
-----------------------------------------------------------------------------
(* The fleet's variables keep to their types. *)
TypeOK ==
  /\ reach \in [Hosts -> SUBSET Routes] /\ old \subseteq Hosts
  /\ plan \in [pc : {"idle", "retires", "starts"}, stop : SUBSET Hosts,
               start : [Hosts -> Routes \cup {"none"}]]
  /\ watchers \in [Hosts -> Watchers \cup {Nobody}] /\ links \in [Hosts -> Watchers \cup {Nobody}]
  /\ sessions \in [Hosts -> {"unknown", "fetching", "fresh", "failed"}]
  /\ offers \subseteq Hosts /\ declined \subseteq Hosts
  /\ search \in [query : Queries \cup {NoQuery}, asked : SUBSET Hosts,
                 answers : [Hosts -> Queries \cup {NoQuery}]]
  /\ watcher \in [Watchers ->
       [pc : {"none", "tops", "marks", "dials", "publishes", "registers", "serves", "handles",
              "leaves", "fails"},
        host : Hosts, route : Routes, stop : BOOLEAN, dead : BOOLEAN,
        msg : Queries \cup {NoQuery}]]
  /\ lane \in [Watchers -> Seq(Queries)] /\ \A w \in Watchers : Len(lane[w]) <= LaneDepth
  /\ owed \in [Watchers -> [Queries -> Nat]]

(* A host that lost its watcher is not haunted by it: it has no listing, no
   offer and no lane, however late the watcher hears of its retirement; the
   palette waits only for hosts with a lane, never for one that declined, and
   shows only answers to its own question (publish, receive_matches,
   decline_search, reconcile_watchers' critical section). *)
NoGhost ==
  /\ \A h \in Hosts :
       /\ links[h] \in {Nobody, watchers[h]}
       /\ watchers[h] = Nobody => sessions[h] = "unknown" /\ h \notin offers
       /\ search.answers[h] \in {NoQuery, search.query}
  /\ search.asked \subseteq {h \in Hosts : links[h] # Nobody} \ declined

(* When the fleet stops changing: exactly the hosts that have a route are
   watched, each has its listing and its lane if the route its watcher knows
   works, and everyone who was asked and can answer has answered. *)
Served(h) == links[h] = watchers[h] /\ sessions[h] = "fresh"
Answers == {h \in Hosts : search.answers[h] # NoQuery}
Settles ==
  <>[](/\ \A h \in Hosts : (watchers[h] # Nobody) <=> (BestRoute(h) # "none")
       /\ \A h \in Hosts : watchers[h] # Nobody /\ watcher[watchers[h]].route \in reach[h]
                           => Served(h)
       /\ search.asked \subseteq Answers)
-----------------------------------------------------------------------------
(* What the repository says of this program and the program does not do. *)

(* "Keep one watching connection open to every remote host that has a route":
   but a watcher keeps the route it was started with. *)
RouteIsWatched == <>[](\A h \in Hosts : BestRoute(h) # "none" => Served(h))

(* HostsSearched: "While `answered < asked` the row says `2 of 3 hosts
   searched`, so a slow relay reads as pending" - so a row that waits for a
   host reads as pending: but a link that ends takes its mark and leaves its
   answer. *)
WaitingReadsPending ==
  search.asked \ Answers # {} => Cardinality(Answers) < Cardinality(search.asked)

(* declined: "too old to be asked, until their lane is replaced": but a retired
   lane is replaced without clearing its mark. *)
DeclinedAreOld == \A h \in declined : links[h] # Nobody => h \in old
=============================================================================
