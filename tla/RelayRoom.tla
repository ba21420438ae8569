------------------------------ MODULE RelayRoom ------------------------------
(***************************************************************************)
(* The relay's room for one host (cloud/packages/relay/src/room.ts and      *)
(* room/), the daemon that parks a control link in it and dials back        *)
(* (zest-daemon/relay.rs), and the browsers that attach through it.         *)
(*                                                                         *)
(* A step of the room is what a handler does up to an await that lets other *)
(* events in: a signature or enrolment check, a write to D1, the dial-back. *)
(* A storage call keeps the platform's input gate shut and is inside a      *)
(* step.  The daemon answers a challenge once, so a link has one hello.  A  *)
(* frame down a control link is delivered with the step that sends it, or   *)
(* lost with the link.  Time passes in ticks, in which everything with a    *)
(* deadline moves on; bytes in a pipe matter only where they find no peer   *)
(* or exceed the cap, and who may write which is PairingGate's.             *)
(*                                                                         *)
(* An operator named Mutant... is a bug the properties have to catch; no   *)
(* other definition uses it.                                               *)
(***************************************************************************)
EXTENDS Integers, FiniteSets

CONSTANTS
  MaxLinks,  \* bound: how often the daemon dials a control link
  Attaches,  \* the attaches that browsers make
  Ticket,    \* [Attaches -> the ticket each of them carries]
  Lifetime,  \* ATTACH_TICKET_TTL_MS, in ticks
  Retention, \* SPENT_RETENTION_MS, in ticks
  Refresh,   \* CONTROL_SEEN_REFRESH_MS, in ticks
  Bound,     \* CONTROL_SEEN_BOUND_MS, in ticks
  Scenarios  \* bound: what happens to the room, one set per behaviour

Links == 1..MaxLinks
Deeds == {"time", "bad", "lose", "sleep", "leave", "flood", "busy", "storagefails", "dbfails", "crash"}
Scenario == [links : 0..MaxLinks, attach : SUBSET Attaches, may : SUBSET Deeds]

ASSUME RelayAssumption ==
  /\ MaxLinks \in Nat /\ Scenarios \subseteq Scenario
  /\ Attaches \subseteq Nat
  /\ Lifetime \in Nat /\ Retention \in Nat /\ Retention > Lifetime /\ Refresh \in Nat \ {0} /\ Bound \in Nat \ {0}

Tickets == {Ticket[a] : a \in Attaches}
None == -1  \* no alarm, no entry

VARIABLES
  deeds,    \* the scenario of this behaviour; it never changes
  link,     \* [Links -> the room's socket, its attachment, its hello, its pings]
  daemon,   \* the link it holds, whether it is parked and awake, and how often it dialled
  good,     \* [Tickets -> in how many ticks it verifies at the edge, counted once presented]
  spent,    \* [Tickets -> ticks until the entry in storage expires, or None]
  alarm,    \* ticks until the object's one alarm, or None
  waking,   \* the alarm's handler waits for its write
  seen,     \* ticks for which hosts.control_seen_at still reads online
  writes,   \* the writes to that column in flight: by whom, and what they say
  attach,   \* [Attaches -> the handler and the two legs of the pipe]
  dialling, \* #dialling: the attaches whose resolver waits
  pipe      \* [Attaches -> the daemon's side: its thread for this pipe]

vars == <<deeds, link, daemon, good, spent, alarm, waking, seen, writes, attach, dialling, pipe>>

timeVars == <<good, spent, alarm, waking, seen>>
pipeVars == <<attach, dialling, pipe>>
-----------------------------------------------------------------------------
NewLink == [socket |-> "new", says |-> "nothing", hello |-> "none", ping |-> "never"]
NewAttach == [pc |-> "new", scheduled |-> FALSE, client |-> "none", host |-> "none"]

Init ==
  /\ deeds \in Scenarios
  /\ link = [l \in Links |-> NewLink]
  /\ daemon = [link |-> 0, parked |-> FALSE, awake |-> TRUE, dials |-> 0]
  /\ good = [t \in Tickets |-> Lifetime + 1]
  /\ spent = [t \in Tickets |-> None]
  /\ alarm = None /\ waking = FALSE
  /\ seen = 0 /\ writes = {}
  /\ attach = [a \in Attaches |-> NewAttach]
  /\ dialling = {}
  /\ pipe = [a \in Attaches |-> "none"]

Write(by, says) == [by |-> by, says |-> says]
Waits(by) == \E w \in writes : w.by = by /\ w.says # "gone"
Waker == <<"alarm", 0>>
Closed(socket) == IF socket = "up" THEN "closing" ELSE socket

(* getWebSockets lists a socket until its peer has closed it too. *)
Listed(l) == link[l].socket \in {"up", "closing"}
Ready == {l \in Links : Listed(l) /\ link[l].says = "ready"}

(* armSweep and armPresenceRefresh only ever move the one alarm earlier. *)
Earlier(at) == IF alarm = None \/ alarm > at THEN at ELSE alarm
Arms(at) == alarm' = Earlier(at) \/ ("storagefails" \in deeds.may /\ alarm' = alarm)
-----------------------------------------------------------------------------
(* The control link: openControlLink, the hello, and its end. *)

Dial(l) ==
  /\ l <= deeds.links /\ daemon.link = 0 /\ l = daemon.dials + 1
  /\ daemon' = [daemon EXCEPT !.link = l, !.parked = FALSE, !.dials = l]
  /\ link' = [link EXCEPT ![l].socket = "up", ![l].says = "challenged"]
  /\ UNCHANGED <<deeds, timeVars, writes, pipeVars>>

Refuse(l) == link' = [link EXCEPT ![l].socket = Closed(@), ![l].hello = "over"]

(* A hello that is malformed, late or for another room is refused at once. *)
Hello(l) ==
  /\ link[l].socket = "up" /\ link[l].says = "challenged" /\ link[l].hello = "none"
  /\ daemon.link = l
  /\ \/ link' = [link EXCEPT ![l].hello = "checks"]
     \/ "bad" \in deeds.may /\ Refuse(l)
  /\ UNCHANGED <<deeds, daemon, timeVars, writes, pipeVars>>

(* The signature and the enrolment have been checked; touchHost writes. *)
Checked(l) ==
  /\ link[l].hello = "checks"
  /\ \/ /\ link' = [link EXCEPT ![l].hello = "touches"]
        /\ writes' = writes \cup {Write(<<"link", l>>, "seen")}
     \/ "bad" \in deeds.may /\ Refuse(l) /\ UNCHANGED writes
  /\ UNCHANGED <<deeds, daemon, timeVars, pipeVars>>

(* touchHost has returned: every link that was ready is hung up and disowned,
   and this one is ready, whatever became of it meanwhile. *)
Parked(l) ==
  /\ link[l].hello = "touches" /\ ~Waits(<<"link", l>>)
  /\ daemon' = [daemon EXCEPT !.parked = @ \/ (daemon.link = l /\ link[l].socket = "up")]
  /\ IF link[l].socket = "up" THEN Arms(Refresh) ELSE UNCHANGED alarm
  /\ UNCHANGED <<deeds, good, spent, waking, seen, writes, pipeVars>>
Supersedes(l) ==
  link' = [k \in Links |->
    IF k = l THEN [link[k] EXCEPT !.says = "ready", !.hello = "over"]
    ELSE IF k \in Ready THEN [link[k] EXCEPT !.says = "nothing", !.socket = Closed(@)]
    ELSE link[k]]

MutantParks(l) ==
  /\ Parked(l)
  /\ link' = [link EXCEPT ![l].says = "ready", ![l].hello = "over"]

Parks(l) == Parked(l) /\ Supersedes(l)

(* The link dies under the daemon: it is gone there, and the room is not told. *)
Loses ==
  /\ "lose" \in deeds.may /\ daemon.link # 0
  /\ daemon' = [daemon EXCEPT !.link = 0, !.parked = FALSE]
  /\ UNCHANGED <<deeds, link, timeVars, writes, pipeVars>>

Hears(l) ==
  /\ daemon.link = l /\ link[l].socket \in {"closing", "gone"}
  /\ daemon' = [daemon EXCEPT !.link = 0, !.parked = FALSE]
  /\ UNCHANGED <<deeds, link, timeVars, writes, pipeVars>>

(* webSocketClose of a control link: a ready one is cleared, in a write nobody
   waits for. *)
LinkCloses(l) ==
  /\ Listed(l) /\ daemon.link # l
  /\ LET ready == link[l].says = "ready"
     IN /\ link' = [link EXCEPT ![l].socket = "gone", ![l].says = IF ready THEN "nothing" ELSE @]
        /\ writes' = IF ready THEN writes \cup {Write(<<"link", l>>, "gone")} ELSE writes
  /\ UNCHANGED <<deeds, daemon, timeVars, pipeVars>>

(* A laptop sleeps with its link half alive, and wakes up. *)
Naps ==
  /\ "sleep" \in deeds.may
  /\ daemon' = [daemon EXCEPT !.awake = ~@]
  /\ UNCHANGED <<deeds, link, timeVars, writes, pipeVars>>
-----------------------------------------------------------------------------
(* Presence. *)

(* parkedLiveness: a link that was never pinged counts as alive. *)
MutantAlive(l) == link[l].socket = "up"
Alive(l) == link[l].ping # "stale"
RefreshStarts(by) ==
  writes' = writes \cup {Write(by, IF Alive(l) THEN "seen" ELSE "silent") : l \in Ready}

Lands(w) ==
  /\ writes' = writes \ {w}
  /\ \/ seen' = IF w.says = "seen" THEN Bound ELSE 0
     \/ "dbfails" \in deeds.may /\ UNCHANGED seen
  /\ UNCHANGED <<deeds, link, daemon, good, spent, alarm, waking, pipeVars>>

(* alarm: what has expired is swept, and the presence refreshed. *)
Expired == {t \in Tickets : spent[t] = 0}
Left == {spent[t] : t \in Tickets} \ {None, 0}
Alarm ==
  /\ alarm = 0 /\ ~waking
  /\ spent' = [t \in Tickets |-> IF t \in Expired THEN None ELSE spent[t]]
  /\ alarm' = IF Left = {} THEN None ELSE CHOOSE s \in Left : \A r \in Left : s <= r
  /\ RefreshStarts(Waker) /\ waking' = (Ready # {})
  /\ UNCHANGED <<deeds, link, daemon, good, seen, pipeVars>>

(* It is armed again whether the link answers or not. *)
MutantAlarmArms ==
  /\ waking /\ ~Waits(Waker)
  /\ waking' = FALSE
  /\ IF \E l \in Ready : Alive(l) THEN Arms(Refresh) ELSE UNCHANGED alarm
  /\ UNCHANGED <<deeds, link, daemon, good, spent, seen, writes, pipeVars>>

AlarmArms ==
  /\ waking /\ ~Waits(Waker)
  /\ waking' = FALSE /\ Arms(Refresh)
  /\ UNCHANGED <<deeds, link, daemon, good, spent, seen, writes, pipeVars>>

(* A tick: tickets and entries age, the alarm nears, the column decays, and a
   parked daemon that is awake has pinged. *)
Less(n) == IF n > 0 THEN n - 1 ELSE n
Presented(t) == \E a \in Attaches : Ticket[a] = t /\ attach[a].pc # "new"
Pinged(l) ==
  IF daemon.link = l /\ daemon.parked /\ daemon.awake THEN "fresh"
  ELSE IF link[l].ping = "fresh" THEN "stale" ELSE link[l].ping
Tick ==
  /\ "time" \in deeds.may /\ alarm # 0
  /\ good' = [t \in Tickets |-> IF Presented(t) THEN Less(good[t]) ELSE good[t]]
  /\ spent' = [t \in Tickets |-> Less(spent[t])]
  /\ alarm' = Less(alarm) /\ seen' = Less(seen)
  /\ link' = [l \in Links |-> [link[l] EXCEPT !.ping = Pinged(l)]]
  /\ UNCHANGED <<deeds, daemon, waking, writes, pipeVars>>
-----------------------------------------------------------------------------
(* An attach: openAttach. *)

(* claimAttachTicket: read, then write; a failure admits nobody. *)
Recorded(t) == spent' = [spent EXCEPT ![t] = Retention]
Turned(a, pc) == attach' = [attach EXCEPT ![a].pc = pc, ![a].client = "closing"]
Spent(t) == spent[t] # None

Replays(a) ==
  /\ a \in deeds.attach /\ attach[a].pc = "new" /\ good[Ticket[a]] > 0
  /\ Spent(Ticket[a]) /\ Turned(a, "replayed")
  /\ UNCHANGED <<deeds, link, daemon, timeVars, writes, dialling, pipe>>

Unclaimable(a) ==
  /\ a \in deeds.attach /\ attach[a].pc = "new" /\ good[Ticket[a]] > 0
  /\ "storagefails" \in deeds.may /\ ~Spent(Ticket[a])
  /\ Recorded(Ticket[a]) \/ UNCHANGED spent
  /\ Turned(a, "replayed")
  /\ UNCHANGED <<deeds, link, daemon, good, alarm, waking, seen, writes, dialling, pipe>>

(* The ticket is spent; then the link is asked for, the client's leg accepted,
   and `open` sent: it throws on a link that is closing. *)
Asked(a) ==
  \/ /\ \E l \in Ready : link[l].socket = "up"
     /\ \E scheduled \in {alarm # None, alarm # None \/ "storagefails" \in deeds.may} :
          attach' = [attach EXCEPT ![a] =
            [pc |-> "dialling", client |-> "up", host |-> "none", scheduled |-> scheduled]]
     /\ dialling' = dialling \cup {a}
     /\ pipe' = IF daemon.link \in Ready THEN [pipe EXCEPT ![a] = "asked"] ELSE pipe
  \/ /\ \A l \in Ready : link[l].socket # "up"
     /\ Turned(a, "absent") /\ UNCHANGED <<dialling, pipe>>
Claims(a) ==
  /\ a \in deeds.attach /\ attach[a].pc = "new" /\ good[Ticket[a]] > 0
  /\ ~Spent(Ticket[a]) /\ Recorded(Ticket[a]) /\ Arms(Retention)
  /\ Asked(a)
  /\ UNCHANGED <<deeds, link, daemon, good, waking, seen, writes>>

(* The deadline of the dial-back: the entry goes with the answer. *)
MutantTimesOut(a) ==
  /\ a \in dialling /\ attach[a].pc = "dialling"
  /\ attach' = [attach EXCEPT ![a].pc = "late"]
  /\ UNCHANGED <<deeds, link, daemon, timeVars, writes, dialling, pipe>>

MutantTimesOutMute(a) ==
  /\ a \in dialling
  /\ dialling' = dialling \ {a}
  /\ UNCHANGED <<deeds, link, daemon, timeVars, writes, attach, pipe>>

TimesOut(a) ==
  /\ a \in dialling
  /\ dialling' = dialling \ {a}
  /\ attach' = [attach EXCEPT ![a].pc = "late"]
  /\ UNCHANGED <<deeds, link, daemon, timeVars, writes, pipe>>

(* The daemon's thread for the pipe dials, unless too many are mid-handshake. *)
DialsBack(a) ==
  /\ pipe[a] = "asked"
  /\ IF a \in dialling
     THEN /\ dialling' = dialling \ {a} /\ pipe' = [pipe EXCEPT ![a] = "greeting"]
          /\ attach' = [attach EXCEPT ![a].pc = "arrived", ![a].host = "up"]
     ELSE /\ pipe' = [pipe EXCEPT ![a] = "over"] /\ UNCHANGED <<attach, dialling>>
  /\ UNCHANGED <<deeds, link, daemon, timeVars, writes>>

Busy(a) ==
  /\ "busy" \in deeds.may /\ pipe[a] = "asked"
  /\ pipe' = [pipe EXCEPT ![a] = "over"]
  /\ UNCHANGED <<deeds, link, daemon, timeVars, writes, attach, dialling>>

(* The attach goes on: with a code for the browser, or, when nothing kept the
   presence fresh on arrival, with a refresh of its own. *)
Resumes(a) ==
  /\ \/ /\ attach[a].pc = "late"
        /\ attach' = [attach EXCEPT ![a].pc = "timedout", ![a].client = Closed(@)]
        /\ UNCHANGED writes
     \/ /\ attach[a].pc = "arrived" /\ (attach[a].scheduled \/ Ready = {})
        /\ attach' = [attach EXCEPT ![a].pc = "open"] /\ UNCHANGED writes
     \/ /\ attach[a].pc = "arrived" /\ ~attach[a].scheduled /\ Ready # {}
        /\ attach' = [attach EXCEPT ![a].pc = "heals"] /\ RefreshStarts(<<"attach", a>>)
  /\ UNCHANGED <<deeds, link, daemon, timeVars, dialling, pipe>>

Heals(a) ==
  /\ attach[a].pc = "heals" /\ ~Waits(<<"attach", a>>)
  /\ attach' = [attach EXCEPT ![a].pc = "open"] /\ Arms(Refresh)
  /\ UNCHANGED <<deeds, link, daemon, good, spent, waking, seen, writes, dialling, pipe>>
-----------------------------------------------------------------------------
(* The pipe.  A message beyond the cap ends it; one that finds no peer does not
   come, for a leg whose peer is gone is closing (PipeEndsTogether). *)

Other(leg) == IF leg = "client" THEN "host" ELSE "client"
Talks(a, leg) ==
  attach[a][leg] = "up" /\ IF leg = "client" THEN attach[a].pc = "open" ELSE pipe[a] = "served"

Floods(a, leg) ==
  /\ "flood" \in deeds.may /\ Talks(a, leg) /\ attach[a][Other(leg)] = "up"
  /\ attach' = [attach EXCEPT ![a].client = "closing", ![a].host = "closing"]
  /\ UNCHANGED <<deeds, link, daemon, timeVars, writes, dialling, pipe>>

(* webSocketClose of a leg: the survivor is told. *)
MutantEnds(a, leg) == attach' = [attach EXCEPT ![a][leg] = "gone"]
Ends(a, leg) ==
  attach' = [attach EXCEPT ![a][leg] = "gone", ![a][Other(leg)] = Closed(@)]

ClientLeaves(a) ==
  /\ attach[a].client = "closing" \/ (attach[a].client = "up" /\ "leave" \in deeds.may)
  /\ Ends(a, "client")
  /\ UNCHANGED <<deeds, link, daemon, timeVars, writes, dialling, pipe>>

(* The daemon's handshake in the pipe ends, or its watchdog cuts the socket;
   later the session ends or hears that the leg is closing. *)
Greets(a) ==
  /\ pipe[a] = "greeting" /\ attach[a].pc = "open"
  /\ attach[a].client = "up" /\ attach[a].host = "up"
  /\ pipe' = [pipe EXCEPT ![a] = "served"]
  /\ UNCHANGED <<deeds, link, daemon, timeVars, writes, attach, dialling>>

HostLeaves(a) ==
  /\ \/ pipe[a] = "greeting"
     \/ pipe[a] = "served" /\ (attach[a].host # "up" \/ "leave" \in deeds.may)
  /\ pipe' = [pipe EXCEPT ![a] = "over"]
  /\ IF attach[a].host = "gone" THEN UNCHANGED attach ELSE Ends(a, "host")
  /\ UNCHANGED <<deeds, link, daemon, timeVars, writes, dialling>>
-----------------------------------------------------------------------------
(* Between two events an idle object is evicted: what its fields held is gone,
   and so is, perhaps, a write nobody waits for. *)
Idle ==
  /\ ~waking /\ \A l \in Links : link[l].hello \in {"none", "over"}
  /\ \A a \in Attaches : attach[a].pc \notin {"dialling", "late", "arrived", "heals"}
MutantEvicted ==
  /\ Idle /\ dialling' = {} /\ writes' \in SUBSET writes
  /\ spent' = [t \in Tickets |-> None]
  /\ UNCHANGED <<deeds, link, daemon, good, alarm, waking, seen, attach, pipe>>

Evicted ==
  /\ Idle /\ dialling' = {} /\ writes' \in SUBSET writes
  /\ UNCHANGED <<deeds, link, daemon, timeVars, attach, pipe>>

(* A room that dies takes its sockets and its handlers with it; storage and the
   alarm stay, and an alarm whose handler died is retried. *)
Lost(socket) == IF socket \in {"up", "closing"} THEN "gone" ELSE socket
Crashes ==
  /\ "crash" \in deeds.may
  /\ link' = [l \in Links |-> [link[l] EXCEPT !.socket = Lost(@),
                !.hello = IF @ \in {"checks", "touches"} THEN "over" ELSE @]]
  /\ attach' = [a \in Attaches |-> [attach[a] EXCEPT !.client = Lost(@), !.host = Lost(@),
                !.pc = IF @ \in {"dialling", "late", "arrived", "heals"} THEN "died" ELSE @]]
  /\ dialling' = {} /\ waking' = FALSE
  /\ alarm' = IF waking THEN 0 ELSE alarm
  /\ writes' \in SUBSET writes
  /\ UNCHANGED <<deeds, daemon, good, spent, seen, pipe>>
-----------------------------------------------------------------------------
LinkStep(l) == Dial(l) \/ Hello(l) \/ Checked(l) \/ Parks(l) \/ Hears(l) \/ LinkCloses(l)
AttachStep(a) ==
  \/ Replays(a) \/ Unclaimable(a) \/ Claims(a)
  \/ DialsBack(a) \/ Busy(a) \/ TimesOut(a) \/ Resumes(a) \/ Heals(a)
PipeStep(a) ==
  \/ \E leg \in {"client", "host"} : Floods(a, leg)
  \/ ClientLeaves(a) \/ Greets(a) \/ HostLeaves(a)

Next ==
  \/ \E l \in Links : LinkStep(l)
  \/ \E a \in Attaches : AttachStep(a) \/ PipeStep(a)
  \/ \E w \in writes : Lands(w)
  \/ Loses \/ Naps \/ Alarm \/ AlarmArms \/ Tick \/ Evicted \/ Crashes

(* The room's handlers run, writes land, time passes and a watchdog falls; the
   network, the daemon and browsers owe nothing. *)
Fairness ==
  /\ WF_vars(Tick) /\ WF_vars(Alarm) /\ WF_vars(AlarmArms)
  /\ WF_vars(\E w \in writes : Lands(w))
  /\ \A l \in Links : WF_vars(Checked(l)) /\ WF_vars(Parks(l)) /\ WF_vars(Hears(l))
  /\ \A a \in Attaches :
        /\ WF_vars(TimesOut(a)) /\ WF_vars(Resumes(a)) /\ WF_vars(Heals(a))
        /\ WF_vars(pipe[a] = "greeting" /\ HostLeaves(a))

Spec == Init /\ [][Next]_vars
FairSpec == Spec /\ Fairness
-----------------------------------------------------------------------------
(* The room's variables keep to their types. *)
TypeOK ==
  /\ deeds \in Scenarios
  /\ link \in [Links -> [socket : {"new", "up", "closing", "gone"},
                         says : {"nothing", "challenged", "ready"},
                         hello : {"none", "checks", "touches", "over"},
                         ping : {"never", "fresh", "stale"}]]
  /\ daemon \in [link : 0..MaxLinks, parked : BOOLEAN, awake : BOOLEAN, dials : 0..MaxLinks]
  /\ good \in [Tickets -> 0..(Lifetime + 1)] /\ spent \in [Tickets -> None..Retention]
  /\ alarm \in None..(IF Refresh > Retention THEN Refresh ELSE Retention)
  /\ waking \in BOOLEAN /\ seen \in 0..Bound
  /\ dialling = {a \in Attaches : attach[a].pc = "dialling"}

(* One way back to the host: however its hellos overlap, at most one link is
   ready, and the one the daemon holds for parked is that one (readyControlLink). *)
OneWayBack ==
  /\ Cardinality(Ready) <= 1
  /\ daemon.parked /\ link[daemon.link].socket = "up" => Ready = {daemon.link}

(* The room implements Rendezvous: a ticket lets one attach in, though the room
   is evicted, dies, or cannot write, and a dial that comes after the deadline
   claims nothing (claimAttachTicket, sweepSpentTickets, #dialBack, openPipeLeg). *)
Stage(a) ==
  IF attach[a].host # "none" THEN "met"
  ELSE IF attach[a].pc = "new" THEN "new"
  ELSE IF attach[a].pc = "dialling" THEN "asks" ELSE "refused"
Meeting == INSTANCE Rendezvous
  WITH stage <- [a \in Attaches |-> Stage(a)],
       used <- {t \in Tickets : Spent(t) \/ good[t] = 0}
KeepsRendezvous == Meeting!Spec

(* Every attach is answered, by a pipe or by a code the browser can read,
   unless the room dies under it. *)
AttachIsAnswered ==
  \A a \in Attaches : attach[a].pc # "new" ~>
    attach[a].pc \in {"open", "died"} \/ attach[a].client \in {"closing", "gone"}

(* No half of a pipe is left behind: when one leg has gone, the other is closed,
   though it came after its peer had left (webSocketClose, Watchdog). *)
PipeEndsTogether ==
  \A a \in Attaches : \A leg \in {"client", "host"} :
    attach[a][leg] = "gone" /\ attach[a][Other(leg)] = "up" ~> attach[a][Other(leg)] # "up"

(* An attach comes to its end, whichever half fails: answered, and closed as
   one (#dialBack, the attach timeout, webSocketClose). *)
PipesEnd == AttachIsAnswered /\ PipeEndsTogether

(* A parked daemon that answers reads online, also after it was asleep or took
   the place of a link that closed late - while storage and D1 work. *)
Reachable ==
  daemon.parked /\ daemon.awake /\ link[daemon.link].socket = "up" /\ daemon.link \in Ready
ReadsOnline ==
  deeds.may \cap {"time", "storagefails", "dbfails"} = {"time"} => []<>(seen > 0 \/ ~Reachable)

(* A daemon that has gone for good reads asleep in the end, whether its socket
   closed, fell silent or died with the room (refreshPresence, the bound). *)
Gone == daemon.link = 0 /\ \A l \in Ready : link[l].ping # "never"
ReadsAsleep == "time" \in deeds.may /\ <>[]Gone => <>[](seen = 0)

(* The directory tells the truth about the daemon both ways (refreshPresence). *)
PresenceIsTrue == ReadsOnline /\ ReadsAsleep
=============================================================================
