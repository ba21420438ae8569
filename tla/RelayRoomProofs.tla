-------------------------- MODULE RelayRoomProofs --------------------------
(***************************************************************************)
(* Proofs about RelayRoom, for any number of links, attaches and tickets   *)
(* and any lifetimes: there is one way back to the host, the room          *)
(* implements Rendezvous, and its clocks keep to their bounds.             *)
(***************************************************************************)
EXTENDS RelayRoom, FiniteSetTheorems, WellFoundedInduction, TLAPS

Sockets == {"new", "up", "closing", "gone"}
LinkRecord == [socket : Sockets, says : {"nothing", "challenged", "ready"},
               hello : {"none", "checks", "touches", "over"}, ping : {"never", "fresh", "stale"}]
LinkType == link \in [Links -> LinkRecord]
DaemonType == daemon \in [link : 0..MaxLinks, parked : BOOLEAN, awake : BOOLEAN, dials : 0..MaxLinks]

(* At most one link is ready, and the daemon's, once parked, is it while its
   socket is up. *)
OneReady == \A k, l \in Ready : k = l
ParkedIsReady ==
  daemon.parked => daemon.link \in Links /\ (link[daemon.link].socket = "up" => daemon.link \in Ready)
WayInv == LinkType /\ DaemonType /\ OneReady /\ ParkedIsReady
-----------------------------------------------------------------------------
(* One link changes and gains no readiness, and the daemon stays. *)
LEMMA OneLinkChanges ==
  ASSUME WayInv, NEW l \in Links, NEW r \in LinkRecord, link' = [link EXCEPT ![l] = r], UNCHANGED daemon,
         r.says = "ready" /\ r.socket \in {"up", "closing"} => l \in Ready,
         daemon.link = l => r.socket # "up" \/ (link[l].socket = "up" /\ r.says = link[l].says)
  PROVE  WayInv'
<1>1. \A k \in Links : link'[k] = IF k = l THEN r ELSE link[k]
  BY DEF WayInv, LinkType
<1>2. LinkType' /\ DaemonType'
  BY DEF WayInv, LinkType, DaemonType
<1>3. Ready' \subseteq Ready
  BY <1>1 DEF Ready, Listed
<1>4. OneReady'
  BY <1>3 DEF WayInv, OneReady
<1>5. ParkedIsReady'
  BY <1>1 DEF WayInv, ParkedIsReady, Ready, Listed
<1> QED
  BY <1>2, <1>4, <1>5 DEF WayInv

(* The daemon lets go of its link. *)
LEMMA DaemonLetsGo ==
  ASSUME WayInv, daemon' = [daemon EXCEPT !.link = 0, !.parked = FALSE], UNCHANGED link
  PROVE  WayInv'
<1>1. DaemonType' /\ ~daemon'.parked
  <2>1. 0 \in 0..MaxLinks
    BY RelayAssumption DEF RelayAssumption
  <2> QED
    BY <2>1 DEF WayInv, DaemonType
<1>2. LinkType' /\ OneReady'
  BY DEF WayInv, LinkType, OneReady, Ready, Listed
<1> QED
  BY <1>1, <1>2 DEF WayInv, ParkedIsReady

LEMMA WayKept == ASSUME WayInv, UNCHANGED <<link, daemon>> PROVE WayInv'
BY DEF WayInv, LinkType, DaemonType, OneReady, ParkedIsReady, Ready, Listed

LEMMA DialStep ==
  ASSUME WayInv, NEW l \in Links, Dial(l)
  PROVE  WayInv'
<1> DEFINE r == [link[l] EXCEPT !.socket = "up", !.says = "challenged"]
<1>1. r \in LinkRecord /\ r.says = "challenged"
  BY DEF WayInv, LinkType, LinkRecord, Sockets
<1>2. link' = [link EXCEPT ![l] = r]
  BY DEF Dial
<1>3. DaemonType' /\ ~daemon'.parked
  <2>1. l \in 0..MaxLinks
    BY RelayAssumption DEF RelayAssumption, Links
  <2> QED
    BY <2>1 DEF Dial, WayInv, DaemonType
<1> HIDE DEF r
<1>4. LinkType' /\ Ready' \subseteq Ready
  BY <1>1, <1>2 DEF WayInv, LinkType, Ready, Listed
<1> QED
  BY <1>3, <1>4 DEF WayInv, OneReady, ParkedIsReady

(* A link becomes ready and takes the place of every other. *)
LEMMA ParksStep ==
  ASSUME WayInv, NEW l \in Links, Parks(l)
  PROVE  WayInv'
<1> DEFINE new(k) == IF k = l THEN [link[k] EXCEPT !.says = "ready", !.hello = "over"]
                     ELSE IF k \in Ready THEN [link[k] EXCEPT !.says = "nothing", !.socket = Closed(link[k].socket)]
                     ELSE link[k]
<1>1. link' = [k \in Links |-> new(k)]
  BY DEF Parks, Supersedes
<1>2. ASSUME NEW k \in Links
      PROVE  /\ new(k) \in LinkRecord
             /\ k = l => new(k).says = "ready" /\ new(k).socket = link[k].socket
             /\ k # l /\ k \in Ready => new(k).says = "nothing" /\ new(k).socket # "up"
             /\ k # l /\ k \notin Ready => new(k) = link[k]
  <2>1. link[k] \in LinkRecord
    BY DEF WayInv, LinkType
  <2> QED
    BY <2>1 DEF LinkRecord, Sockets, Closed
<1> HIDE DEF new
<1>3. LinkType'
  BY <1>1, <1>2 DEF LinkType
<1>4. \A k \in Ready' : k = l
  BY <1>1, <1>2 DEF Ready, Listed
<1>5. daemon' = [daemon EXCEPT !.parked = daemon.parked \/ (daemon.link = l /\ link[l].socket = "up")]
  BY DEF Parks, Parked
<1>6. DaemonType' /\ daemon'.link = daemon.link
  BY <1>5 DEF WayInv, DaemonType
<1>7. daemon'.parked = (daemon.parked \/ (daemon.link = l /\ link[l].socket = "up"))
  BY <1>5 DEF WayInv, DaemonType
<1>8. ParkedIsReady'
  <2> SUFFICES ASSUME daemon'.parked
               PROVE  daemon.link \in Links /\ (link'[daemon.link].socket = "up" => daemon.link \in Ready')
    BY <1>6 DEF ParkedIsReady
  <2>1. daemon.link \in Links /\ (link[daemon.link].socket = "up" => daemon.link = l \/ daemon.link \in Ready)
    BY <1>7 DEF WayInv, ParkedIsReady
  <2>2. CASE daemon.link = l
    BY <1>1, <1>2, <2>1, <2>2 DEF Ready, Listed
  <2>3. CASE daemon.link # l
    BY <1>1, <1>2, <2>1, <2>3
  <2> QED
    BY <2>2, <2>3
<1> QED
  BY <1>3, <1>4, <1>6, <1>8 DEF WayInv, OneReady

LEMMA HelloStep ==
  ASSUME WayInv, NEW l \in Links, Hello(l) \/ Checked(l)
  PROVE  WayInv'
<1>1. link[l] \in LinkRecord /\ UNCHANGED daemon
  BY DEF WayInv, LinkType, Hello, Checked
<1>2. ASSUME NEW h \in {"checks", "touches"}, link' = [link EXCEPT ![l].hello = h] PROVE WayInv'
  <2> DEFINE r == [link[l] EXCEPT !.hello = h]
  <2>1. r \in LinkRecord /\ r.says = link[l].says /\ r.socket = link[l].socket
    BY <1>1 DEF LinkRecord
  <2>2. link' = [link EXCEPT ![l] = r]
    BY <1>2
  <2> HIDE DEF r
  <2> QED
    BY <1>1, <2>1, <2>2, OneLinkChanges DEF Ready, Listed
<1>3. CASE Refuse(l)
  <2> DEFINE r == [link[l] EXCEPT !.socket = Closed(link[l].socket), !.hello = "over"]
  <2>1. r \in LinkRecord /\ r.says = link[l].says /\ r.socket # "up" /\ (r.socket = "closing" => link[l].socket \in {"up", "closing"})
    BY <1>1 DEF LinkRecord, Sockets, Closed
  <2>2. link' = [link EXCEPT ![l] = r]
    BY <1>3 DEF Refuse
  <2> HIDE DEF r
  <2> QED
    BY <1>1, <2>1, <2>2, OneLinkChanges DEF Ready, Listed
<1> QED
  BY <1>2, <1>3 DEF Hello, Checked

LEMMA ClosesStep ==
  ASSUME WayInv, NEW l \in Links, LinkCloses(l)
  PROVE  WayInv'
<1> DEFINE r == [link[l] EXCEPT !.socket = "gone",
                                !.says = IF link[l].says = "ready" THEN "nothing" ELSE link[l].says]
<1>1. r \in LinkRecord /\ r.socket = "gone"
  BY DEF WayInv, LinkType, LinkRecord, Sockets
<1>2. link' = [link EXCEPT ![l] = r] /\ UNCHANGED daemon
  BY DEF LinkCloses
<1> HIDE DEF r
<1> QED
  BY <1>1, <1>2, OneLinkChanges

(* Pings and a crash touch every link; neither makes one ready. *)
LEMMA AllLinksChange ==
  ASSUME WayInv, UNCHANGED daemon, LinkType',
         \A k \in Links : /\ link'[k].says = link[k].says
                          /\ \/ link'[k].socket = link[k].socket
                             \/ link'[k].socket \notin {"up", "closing"}
  PROVE  WayInv'
<1>1. Ready' \subseteq Ready
  BY DEF Ready, Listed
<1>2. \A k \in Links : link'[k].socket = "up" => link[k].socket = "up"
  OBVIOUS
<1>3. ParkedIsReady'
  BY <1>2 DEF WayInv, ParkedIsReady, Ready, Listed
<1> QED
  BY <1>1, <1>3 DEF WayInv, OneReady, DaemonType

LEMMA TickKeepsWay == ASSUME WayInv, Tick PROVE WayInv'
<1>1. ASSUME NEW k \in Links
      PROVE  link'[k] \in LinkRecord /\ link'[k].says = link[k].says /\ link'[k].socket = link[k].socket
  <2> DEFINE r == [link[k] EXCEPT !.ping = Pinged(k)]
  <2>1. link[k] \in LinkRecord
    BY DEF WayInv, LinkType
  <2>2. r \in LinkRecord /\ r.says = link[k].says /\ r.socket = link[k].socket
    BY <2>1 DEF LinkRecord, Pinged
  <2>3. link'[k] = r
    BY DEF Tick
  <2> QED
    BY <2>2, <2>3
<1>2. LinkType' /\ UNCHANGED daemon
  BY <1>1 DEF Tick, LinkType
<1> QED
  BY <1>1, <1>2, AllLinksChange

LEMMA CrashKeepsWay == ASSUME WayInv, Crashes PROVE WayInv'
<1>1. ASSUME NEW k \in Links
      PROVE  /\ link'[k] \in LinkRecord /\ link'[k].says = link[k].says
             /\ link'[k].socket \in {"new", "gone"}
  <2> DEFINE r == [link[k] EXCEPT !.socket = Lost(link[k].socket),
                    !.hello = IF link[k].hello \in {"checks", "touches"} THEN "over" ELSE link[k].hello]
  <2>1. link[k] \in LinkRecord
    BY DEF WayInv, LinkType
  <2>2. r \in LinkRecord /\ r.says = link[k].says /\ r.socket \in {"new", "gone"}
    BY <2>1 DEF LinkRecord, Sockets, Lost
  <2>3. link'[k] = r
    BY DEF Crashes
  <2> QED
    BY <2>2, <2>3
<1>2. LinkType' /\ UNCHANGED daemon
  BY <1>1 DEF Crashes, LinkType
<1> QED
  BY <1>1, <1>2, AllLinksChange

LEMMA WayStep ==
  ASSUME WayInv, [Next]_vars
  PROVE  WayInv'
<1>1. ASSUME NEW l \in Links, LinkStep(l) PROVE WayInv'
  <2>1. CASE Hears(l)
    BY <2>1, DaemonLetsGo DEF Hears
  <2> QED
    BY <1>1, <2>1, DialStep, HelloStep, ParksStep, ClosesStep DEF LinkStep
<1>2. CASE Loses
  BY <1>2, DaemonLetsGo DEF Loses
<1>3. CASE Naps
  <2>1. daemon' = [daemon EXCEPT !.awake = ~daemon.awake] /\ UNCHANGED link
    BY <1>3 DEF Naps
  <2>2. DaemonType' /\ daemon'.link = daemon.link /\ daemon'.parked = daemon.parked
    BY <2>1 DEF WayInv, DaemonType
  <2> QED
    BY <2>1, <2>2 DEF WayInv, LinkType, OneReady, ParkedIsReady, Ready, Listed
<1>4. ASSUME NEW a \in Attaches, AttachStep(a) \/ PipeStep(a) PROVE UNCHANGED <<link, daemon>>
  BY <1>4 DEF AttachStep, Replays, Unclaimable, Claims, DialsBack, Busy, TimesOut, Resumes, Heals, PipeStep, Floods,
              ClientLeaves, Greets, HostLeaves
<1>5. ASSUME (\E w \in writes : Lands(w)) \/ Alarm \/ AlarmArms \/ Evicted PROVE UNCHANGED <<link, daemon>>
  BY <1>5 DEF Lands, Alarm, AlarmArms, Evicted
<1>6. CASE UNCHANGED vars
  BY <1>6, WayKept DEF vars
<1> QED
  BY <1>1, <1>2, <1>3, <1>4, <1>5, <1>6, WayKept, TickKeepsWay, CrashKeepsWay DEF Next

LEMMA WayStarts == ASSUME Init PROVE WayInv
<1>1. 0 \in 0..MaxLinks
  BY RelayAssumption DEF RelayAssumption
<1>2. LinkType /\ DaemonType
  BY <1>1 DEF Init, LinkType, DaemonType, LinkRecord, Sockets, NewLink
<1>3. Ready = {}
  BY DEF Init, Ready, Listed, NewLink
<1> QED
  BY <1>2, <1>3 DEF Init, WayInv, OneReady, ParkedIsReady

LEMMA WayHolds == Spec => []WayInv
<1>1. Init => WayInv
  BY WayStarts
<1>2. WayInv /\ [Next]_vars => WayInv'
  BY WayStep
<1> QED
  BY <1>1, <1>2, PTL DEF Spec

(* A hello that was checked supersedes every link that is ready in one turn of the
   room, so there is never a choice of whom to ask for a host, and the daemon
   that holds itself for parked is the one that is asked. *)
THEOREM OneWay == Spec => []OneWayBack
<1>1. ASSUME WayInv PROVE OneWayBack
  <2>1. Cardinality(Ready) <= 1
    <3>1. CASE Ready = {}
      BY <3>1, FS_EmptySet
    <3>2. ASSUME NEW l \in Ready PROVE Cardinality(Ready) = 1
      <4>1. Ready = {l}
        BY <1>1, <3>2 DEF WayInv, OneReady
      <4> QED
        BY <4>1, FS_Singleton
    <3> QED
      BY <3>1, <3>2
  <2>2. daemon.parked /\ link[daemon.link].socket = "up" => Ready = {daemon.link}
    BY <1>1 DEF WayInv, OneReady, ParkedIsReady
  <2> QED
    BY <2>1, <2>2 DEF OneWayBack
<1> QED
  BY <1>1, WayHolds, PTL
-----------------------------------------------------------------------------
(* The attaches, their tickets and their pipes. *)
Legs == {"none", "up", "closing", "gone"}
AttachRecord ==
  [pc : {"new", "replayed", "absent", "dialling", "late", "arrived", "heals", "open", "timedout", "died"},
   scheduled : BOOLEAN, client : Legs, host : Legs]
AttachType ==
  /\ attach \in [Attaches -> AttachRecord]
  /\ pipe \in [Attaches -> {"none", "asked", "greeting", "served", "over"}]
AgeType == spent \in [Tickets -> None..Retention] /\ good \in [Tickets -> 0..(Lifetime + 1)]
Dialling == dialling = {a \in Attaches : attach[a].pc = "dialling"}

(* The host's leg is there once the daemon's thread is past its dial, and not
   before. *)
LegInv ==
  \A a \in Attaches : /\ pipe[a] \in {"greeting", "served"} => attach[a].host # "none"
                      /\ attach[a].pc \in {"new", "dialling"} => attach[a].host = "none"

(* An entry outlives its ticket: it was made when the ticket was presented, for
   longer than any ticket lives. *)
AgeInv == \A t \in Tickets : spent[t] # None => Presented(t) /\ good[t] <= spent[t]
MeetInv == AttachType /\ AgeType /\ Dialling /\ LegInv /\ AgeInv
-----------------------------------------------------------------------------
(* One attach changes, and the rest of the pipe's state fits. *)
LEMMA OneAttachChanges ==
  ASSUME MeetInv, NEW a \in Attaches, NEW r \in AttachRecord, attach' = [attach EXCEPT ![a] = r],
         NEW q \in {"none", "asked", "greeting", "served", "over"}, pipe' = [pipe EXCEPT ![a] = q],
         dialling' = (IF r.pc = "dialling" THEN dialling \cup {a} ELSE dialling \ {a}),
         q \in {"greeting", "served"} => r.host # "none", r.pc \in {"new", "dialling"} => r.host = "none"
  PROVE  /\ AttachType' /\ Dialling' /\ LegInv' /\ attach'[a] = r
         /\ \A o \in Attaches : o # a => attach'[o] = attach[o]
<1>1. /\ \A o \in Attaches : attach'[o] = IF o = a THEN r ELSE attach[o]
      /\ \A o \in Attaches : pipe'[o] = IF o = a THEN q ELSE pipe[o]
  BY DEF MeetInv, AttachType
<1>2. AttachType'
  BY DEF MeetInv, AttachType
<1>3. Dialling'
  BY <1>1 DEF MeetInv, Dialling
<1>4. LegInv'
  BY <1>1 DEF MeetInv, LegInv
<1> QED
  BY <1>1, <1>2, <1>3, <1>4

(* The same, when its pipe and whether it dials stay. *)
LEMMA OneAttachMoves ==
  ASSUME MeetInv, NEW a \in Attaches, NEW r \in AttachRecord, attach' = [attach EXCEPT ![a] = r],
         UNCHANGED <<dialling, pipe>>, r.pc = "dialling" <=> attach[a].pc = "dialling",
         r.pc = "new" => attach[a].pc = "new", r.host = "none" <=> attach[a].host = "none"
  PROVE  /\ AttachType' /\ Dialling' /\ LegInv' /\ attach'[a] = r
         /\ \A o \in Attaches : o # a => attach'[o] = attach[o]
<1>1. pipe[a] \in {"none", "asked", "greeting", "served", "over"} /\ pipe' = [pipe EXCEPT ![a] = pipe[a]]
  BY DEF MeetInv, AttachType
<1>2. dialling' = (IF r.pc = "dialling" THEN dialling \cup {a} ELSE dialling \ {a})
  BY DEF MeetInv, Dialling
<1>3. /\ pipe[a] \in {"greeting", "served"} => r.host # "none"
      /\ r.pc \in {"new", "dialling"} => r.host = "none"
  BY DEF MeetInv, LegInv
<1> QED
  BY <1>1, <1>2, <1>3, OneAttachChanges

(* No attach is new again, so a ticket once presented stays so. *)
LEMMA AgesKept ==
  ASSUME MeetInv, \A a \in Attaches : attach'[a].pc = "new" => attach[a].pc = "new", UNCHANGED <<good, spent>>
  PROVE  AgeType' /\ AgeInv'
BY DEF MeetInv, AgeType, AgeInv, Presented

LEMMA Recording ==
  ASSUME MeetInv, NEW a \in Attaches, Recorded(Ticket[a]), UNCHANGED good, attach'[a].pc # "new",
         \A o \in Attaches : attach'[o].pc = "new" => attach[o].pc = "new"
  PROVE  AgeType' /\ AgeInv' /\ Spent(Ticket[a])' /\ \A t \in Tickets : t # Ticket[a] => spent'[t] = spent[t]
<1>1. Ticket[a] \in Tickets /\ Retention \in None..Retention /\ Retention # None
  BY RelayAssumption DEF RelayAssumption, Tickets, None
<1>2. spent' = [spent EXCEPT ![Ticket[a]] = Retention]
  BY DEF Recorded
<1>3. \A t \in Tickets : spent'[t] = IF t = Ticket[a] THEN Retention ELSE spent[t]
  BY <1>2 DEF MeetInv, AgeType
<1>4. AgeType'
  BY <1>1, <1>2 DEF MeetInv, AgeType
<1>5. \A t \in Tickets : Presented(t) => Presented(t)'
  BY DEF Presented
<1>6. good[Ticket[a]] <= Retention /\ Presented(Ticket[a])'
  <2>1. good[Ticket[a]] \in 0..(Lifetime + 1)
    BY <1>1 DEF MeetInv, AgeType
  <2>2. Lifetime + 1 <= Retention /\ Lifetime \in Nat /\ Retention \in Nat
    BY RelayAssumption DEF RelayAssumption
  <2>3. Presented(Ticket[a])'
    BY DEF Presented
  <2> QED
    BY <2>1, <2>2, <2>3
<1>7. AgeInv'
  BY <1>3, <1>5, <1>6 DEF MeetInv, AgeInv
<1> QED
  BY <1>1, <1>3, <1>4, <1>7 DEF Spent
-----------------------------------------------------------------------------
(* The mapping: where each attach stands, and what opens nothing any more. *)
Stages == [a \in Attaches |-> Stage(a)]
Used == {t \in Tickets : Spent(t) \/ good[t] = 0}

(* Nobody gets anywhere, and a ticket that opens nothing goes on to. *)
LEMMA QuietStep ==
  ASSUME \A a \in Attaches : Stage(a)' = Stage(a), Used \subseteq Used'
  PROVE  Meeting!Next
<1>1. Stages' = Stages
  BY DEF Stages
<1>2. PICK ts \in SUBSET Tickets : Used' = Used \cup ts
  BY DEF Used
<1>3. Meeting!Expire(ts)
  BY <1>1, <1>2 DEF Meeting!Expire, Stages, Used
<1>4. Meeting!Tickets = Tickets
  BY DEF Meeting!Tickets, Tickets
<1> QED
  BY <1>3, <1>4 DEF Meeting!Next

(* One attach gets somewhere; the others stay where they are. *)
LEMMA OneStage ==
  ASSUME NEW a \in Attaches, \A o \in Attaches : o # a => attach'[o] = attach[o]
  PROVE  Stages' = [Stages EXCEPT ![a] = Stage(a)']
BY DEF Stages, Stage

LEMMA SameStage ==
  ASSUME NEW a \in Attaches, attach'[a].host = "none" <=> attach[a].host = "none",
         \/ attach'[a].pc = attach[a].pc
         \/ attach[a].pc \notin {"new", "dialling"} /\ attach'[a].pc \notin {"new", "dialling"}
  PROVE  Stage(a)' = Stage(a)
BY DEF Stage

LEMMA UsedKept == ASSUME UNCHANGED <<good, spent>> PROVE Used' = Used
BY DEF Used, Spent
-----------------------------------------------------------------------------
(* Steps that leave every attach where it is. *)
LEMMA QuietActions ==
  ASSUME MeetInv, UNCHANGED <<attach, dialling, pipe, good, spent>>
  PROVE  MeetInv' /\ Meeting!Next
<1>1. MeetInv'
  BY DEF MeetInv, AttachType, AgeType, Dialling, LegInv, AgeInv, Presented
<1>2. \A a \in Attaches : Stage(a)' = Stage(a)
  BY DEF Stage
<1> QED
  BY <1>1, <1>2, QuietStep, UsedKept

LEMMA TickStep ==
  ASSUME MeetInv, Tick
  PROVE  MeetInv' /\ Meeting!Next
<1>1. UNCHANGED <<attach, dialling, pipe>>
  BY DEF Tick, pipeVars
<1>2. ASSUME NEW t \in Tickets
      PROVE  /\ good'[t] \in 0..(Lifetime + 1) /\ spent'[t] \in None..Retention
             /\ good[t] = 0 => good'[t] = 0
             /\ spent[t] # None <=> spent'[t] # None
             /\ spent[t] # None => Presented(t)' /\ good'[t] <= spent'[t]
  <2>1. good[t] \in 0..(Lifetime + 1) /\ spent[t] \in None..Retention /\ Lifetime \in Nat /\ Retention \in Nat
    BY RelayAssumption DEF RelayAssumption, MeetInv, AgeType
  <2>2. spent[t] # None => Presented(t) /\ good[t] <= spent[t]
    BY DEF MeetInv, AgeInv
  <2>3. /\ good'[t] = (IF Presented(t) THEN Less(good[t]) ELSE good[t])
        /\ spent'[t] = Less(spent[t])
    BY DEF Tick
  <2>4. Presented(t)' <=> Presented(t)
    BY <1>1 DEF Presented
  <2> QED
    BY <2>1, <2>2, <2>3, <2>4 DEF Less, None
<1>3. AgeType' /\ AgeInv'
  BY <1>2 DEF AgeType, AgeInv, Tick
<1>4. AttachType' /\ Dialling' /\ LegInv'
  BY <1>1 DEF MeetInv, AttachType, Dialling, LegInv
<1>5. Used \subseteq Used'
  BY <1>2 DEF Used, Spent
<1>6. \A a \in Attaches : Stage(a)' = Stage(a)
  BY <1>1 DEF Stage
<1> QED
  BY <1>3, <1>4, <1>5, <1>6, QuietStep DEF MeetInv

(* What the sweep forgets had outlived its ticket. *)
LEMMA AlarmStep ==
  ASSUME MeetInv, Alarm
  PROVE  MeetInv' /\ Meeting!Next
<1>1. UNCHANGED <<attach, dialling, pipe, good>>
  BY DEF Alarm, pipeVars
<1>2. ASSUME NEW t \in Tickets
      PROVE  /\ spent'[t] \in None..Retention
             /\ spent'[t] = spent[t] \/ (spent'[t] = None /\ good[t] = 0)
  <2>1. good[t] \in 0..(Lifetime + 1) /\ spent[t] \in None..Retention /\ Retention \in Nat /\ Lifetime \in Nat
    BY RelayAssumption DEF RelayAssumption, MeetInv, AgeType
  <2>2. spent'[t] = IF spent[t] = 0 THEN None ELSE spent[t]
    BY DEF Alarm, Expired
  <2>3. spent[t] = 0 => good[t] <= 0
    BY DEF MeetInv, AgeInv, None
  <2> QED
    BY <2>1, <2>2, <2>3 DEF None
<1>3. AgeType'
  BY <1>1, <1>2 DEF Alarm, MeetInv, AgeType
<1>4. AgeInv'
  BY <1>1, <1>2 DEF MeetInv, AgeInv, Presented
<1>5. AttachType' /\ Dialling' /\ LegInv'
  BY <1>1 DEF MeetInv, AttachType, Dialling, LegInv
<1>6. Used \subseteq Used'
  BY <1>1, <1>2 DEF Used, Spent
<1>7. \A a \in Attaches : Stage(a)' = Stage(a)
  BY <1>1 DEF Stage
<1> QED
  BY <1>3, <1>4, <1>5, <1>6, <1>7, QuietStep DEF MeetInv

(* The attach goes on, or a leg closes: neither lets anybody in. *)
LEMMA LegSteps ==
  ASSUME MeetInv, NEW a \in Attaches, NEW r \in AttachRecord, attach' = [attach EXCEPT ![a] = r],
         UNCHANGED <<dialling, pipe, good, spent>>, r.host = "none" <=> attach[a].host = "none",
         r.pc = attach[a].pc \/ (attach[a].pc \notin {"new", "dialling"} /\ r.pc \notin {"new", "dialling"})
  PROVE  MeetInv' /\ Meeting!Next
<1>1. /\ AttachType' /\ Dialling' /\ LegInv' /\ attach'[a] = r
      /\ \A o \in Attaches : o # a => attach'[o] = attach[o]
  BY OneAttachMoves
<1>2. AgeType' /\ AgeInv'
  BY <1>1, AgesKept
<1>3. \A o \in Attaches : Stage(o)' = Stage(o)
  <2>1. Stage(a)' = Stage(a)
    BY <1>1, SameStage
  <2> QED
    BY <1>1, <2>1 DEF Stage
<1> QED
  BY <1>1, <1>2, <1>3, QuietStep, UsedKept DEF MeetInv

LEMMA GoingOn ==
  ASSUME MeetInv, NEW a \in Attaches, Resumes(a) \/ Heals(a) \/ ClientLeaves(a) \/ \E leg \in {"client", "host"} : Floods(a, leg)
  PROVE  MeetInv' /\ Meeting!Next
<1>1. attach[a] \in AttachRecord /\ UNCHANGED <<dialling, pipe, good, spent>>
  BY DEF MeetInv, AttachType, Resumes, Heals, ClientLeaves, Floods, timeVars
<1>2. ASSUME NEW pc \in {"timedout", "open", "heals"}, NEW s \in Legs,
             attach' = [attach EXCEPT ![a].pc = pc, ![a].client = s], attach[a].pc \in {"late", "arrived", "heals"}
      PROVE  MeetInv' /\ Meeting!Next
  <2> DEFINE r == [attach[a] EXCEPT !.pc = pc, !.client = s]
  <2>1. r \in AttachRecord /\ r.pc = pc /\ r.host = attach[a].host
    BY <1>1 DEF AttachRecord
  <2>2. attach' = [attach EXCEPT ![a] = r]
    BY <1>2
  <2> HIDE DEF r
  <2>3. r.host = "none" <=> attach[a].host = "none"
    BY <2>1
  <2>4. attach[a].pc \notin {"new", "dialling"} /\ r.pc \notin {"new", "dialling"}
    BY <1>2, <2>1
  <2> QED
    BY <1>1, <2>1, <2>2, <2>3, <2>4, LegSteps
<1>3. ASSUME NEW c \in Legs, NEW h \in Legs, h = "none" <=> attach[a].host = "none",
             attach' = [attach EXCEPT ![a].client = c, ![a].host = h]
      PROVE  MeetInv' /\ Meeting!Next
  <2> DEFINE r == [attach[a] EXCEPT !.client = c, !.host = h]
  <2>1. r \in AttachRecord /\ r.pc = attach[a].pc /\ r.host = h
    BY <1>1 DEF AttachRecord
  <2>2. attach' = [attach EXCEPT ![a] = r]
    BY <1>3
  <2> HIDE DEF r
  <2> QED
    BY <1>1, <1>3, <2>1, <2>2, LegSteps
<1>4. attach[a].client \in Legs /\ attach[a].host \in Legs
  BY <1>1 DEF AttachRecord
<1>5. CASE Resumes(a) \/ Heals(a)
  <2>1. \E pc \in {"timedout", "open", "heals"} : \E s \in Legs :
          attach' = [attach EXCEPT ![a].pc = pc, ![a].client = s]
    <3>1. CASE attach' = [attach EXCEPT ![a].pc = "timedout", ![a].client = Closed(attach[a].client)]
      <4>1. Closed(attach[a].client) \in Legs
        BY <1>4 DEF Closed, Legs
      <4> QED
        BY <3>1, <4>1
    <3>2. ASSUME NEW pc \in {"open", "heals"}, attach' = [attach EXCEPT ![a].pc = pc]
          PROVE  attach' = [attach EXCEPT ![a].pc = pc, ![a].client = attach[a].client]
      BY <1>1, <3>2 DEF MeetInv, AttachType, AttachRecord
    <3>3. \/ attach' = [attach EXCEPT ![a].pc = "timedout", ![a].client = Closed(attach[a].client)]
          \/ \E pc \in {"open", "heals"} : attach' = [attach EXCEPT ![a].pc = pc]
      BY <1>1, <1>5 DEF Resumes, Heals, MeetInv, AttachType
    <3> QED
      BY <1>4, <3>1, <3>2, <3>3
  <2>2. attach[a].pc \in {"late", "arrived", "heals"}
    BY <1>5 DEF Resumes, Heals
  <2> QED
    BY <1>2, <2>1, <2>2
<1>6. CASE ClientLeaves(a)
  <2>1. attach' = [attach EXCEPT ![a].client = "gone", ![a].host = Closed(attach[a].host)]
    BY <1>6 DEF ClientLeaves, Ends, Other
  <2> QED
    BY <1>3, <1>4, <2>1 DEF Closed, Legs
<1>7. CASE \E leg \in {"client", "host"} : Floods(a, leg)
  <2>1. attach' = [attach EXCEPT ![a].client = "closing", ![a].host = "closing"] /\ attach[a].host = "up"
    BY <1>7 DEF Floods, Talks, Other
  <2> QED
    BY <1>3, <2>1 DEF Legs
<1> QED
  BY <1>5, <1>6, <1>7

(* The daemon's thread for a pipe goes on, and the leg may go with it. *)
LEMMA ThreadSteps ==
  ASSUME MeetInv, NEW a \in Attaches, Greets(a) \/ Busy(a) \/ HostLeaves(a)
  PROVE  MeetInv' /\ Meeting!Next
<1>1. attach[a] \in AttachRecord /\ UNCHANGED <<dialling, good, spent>> /\ pipe[a] \in {"asked", "greeting", "served"}
  BY DEF MeetInv, AttachType, Greets, Busy, HostLeaves, timeVars
<1>2. ASSUME NEW r \in AttachRecord, attach' = [attach EXCEPT ![a] = r],
             NEW q \in {"served", "over"}, pipe' = [pipe EXCEPT ![a] = q], q = "served" => r.host # "none",
             r.pc = attach[a].pc, r.host = "none" <=> attach[a].host = "none"
      PROVE  MeetInv' /\ Meeting!Next
  <2>1. dialling' = (IF r.pc = "dialling" THEN dialling \cup {a} ELSE dialling \ {a})
    BY <1>1, <1>2 DEF MeetInv, Dialling
  <2>2. r.pc \in {"new", "dialling"} => r.host = "none"
    BY <1>2 DEF MeetInv, LegInv
  <2>3. /\ AttachType' /\ Dialling' /\ LegInv' /\ attach'[a] = r
        /\ \A o \in Attaches : o # a => attach'[o] = attach[o]
    BY <1>2, <2>1, <2>2, OneAttachChanges
  <2>4. AgeType' /\ AgeInv'
    BY <1>1, <1>2, <2>3, AgesKept
  <2>5. \A o \in Attaches : Stage(o)' = Stage(o)
    <3>1. Stage(a)' = Stage(a)
      BY <1>2, <2>3, SameStage
    <3> QED
      BY <2>3, <3>1 DEF Stage
  <2> QED
    BY <1>1, <2>3, <2>4, <2>5, QuietStep, UsedKept DEF MeetInv
<1>3. attach = [attach EXCEPT ![a] = attach[a]]
  BY DEF MeetInv, AttachType
<1>4. CASE Greets(a)
  BY <1>1, <1>2, <1>3, <1>4 DEF Greets
<1>5. CASE Busy(a)
  BY <1>1, <1>2, <1>3, <1>5 DEF Busy
<1>6. CASE HostLeaves(a) /\ attach[a].host = "gone"
  BY <1>1, <1>2, <1>3, <1>6 DEF HostLeaves
<1>7. CASE HostLeaves(a) /\ attach[a].host # "gone"
  <2> DEFINE r == [attach[a] EXCEPT !.host = "gone", !.client = Closed(attach[a].client)]
  <2>1. r \in AttachRecord /\ r.pc = attach[a].pc /\ r.host = "gone"
    BY <1>1 DEF AttachRecord, Legs, Closed
  <2>2. attach' = [attach EXCEPT ![a] = r] /\ pipe' = [pipe EXCEPT ![a] = "over"]
    BY <1>7 DEF HostLeaves, Ends, Other
  <2>3. attach[a].host # "none"
    BY <1>7 DEF HostLeaves, MeetInv, LegInv
  <2> HIDE DEF r
  <2> QED
    BY <1>2, <2>1, <2>2, <2>3
<1> QED
  BY <1>4, <1>5, <1>6, <1>7

(* The daemon dials back: it meets who asks, and after the deadline nobody. *)
LEMMA DialBackStep ==
  ASSUME MeetInv, NEW a \in Attaches, DialsBack(a)
  PROVE  MeetInv' /\ Meeting!Next
<1>1. attach[a] \in AttachRecord /\ UNCHANGED <<good, spent>>
  BY DEF MeetInv, AttachType, DialsBack, timeVars
<1>2. CASE a \in dialling
  <2> DEFINE r == [attach[a] EXCEPT !.pc = "arrived", !.host = "up"]
  <2>1. r \in AttachRecord /\ r.pc = "arrived" /\ r.host = "up"
    BY <1>1 DEF AttachRecord, Legs
  <2>2. /\ attach' = [attach EXCEPT ![a] = r] /\ pipe' = [pipe EXCEPT ![a] = "greeting"]
        /\ dialling' = dialling \ {a}
    BY <1>2 DEF DialsBack
  <2> HIDE DEF r
  <2>3. /\ AttachType' /\ Dialling' /\ LegInv' /\ attach'[a] = r
        /\ \A o \in Attaches : o # a => attach'[o] = attach[o]
    BY <2>1, <2>2, OneAttachChanges
  <2>4. AgeType' /\ AgeInv'
    BY <1>1, <2>1, <2>3, AgesKept
  <2>5. Stage(a) = "asks" /\ Stage(a)' = "met"
    BY <1>2, <2>1, <2>3 DEF Stage, MeetInv, Dialling, LegInv
  <2>6. Meeting!Meets(a)
    BY <1>1, <2>3, <2>5, OneStage, UsedKept DEF Meeting!Meets, Stages, Used
  <2> QED
    BY <2>3, <2>4, <2>6 DEF MeetInv, Meeting!Next
<1>3. CASE a \notin dialling
  <2>1. attach' = attach /\ dialling' = dialling /\ pipe' = [pipe EXCEPT ![a] = "over"]
    BY <1>3 DEF DialsBack
  <2>2. MeetInv'
    BY <1>1, <2>1 DEF MeetInv, AttachType, AgeType, Dialling, LegInv, AgeInv, Presented
  <2>3. \A o \in Attaches : Stage(o)' = Stage(o)
    BY <2>1 DEF Stage
  <2> QED
    BY <1>1, <2>2, <2>3, QuietStep, UsedKept
<1> QED
  BY <1>2, <1>3

LEMMA TimesOutStep ==
  ASSUME MeetInv, NEW a \in Attaches, TimesOut(a)
  PROVE  MeetInv' /\ Meeting!Next
<1> DEFINE r == [attach[a] EXCEPT !.pc = "late"]
<1>1. attach[a] \in AttachRecord /\ UNCHANGED <<good, spent>> /\ attach[a].pc = "dialling" /\ attach[a].host = "none"
  BY DEF MeetInv, AttachType, Dialling, LegInv, TimesOut, timeVars
<1>2. r \in AttachRecord /\ r.pc = "late" /\ r.host = "none"
  BY <1>1 DEF AttachRecord
<1>3. attach' = [attach EXCEPT ![a] = r] /\ dialling' = dialling \ {a} /\ pipe' = pipe
  BY DEF TimesOut
<1>4. /\ pipe[a] \in {"none", "asked", "greeting", "served", "over"} /\ pipe' = [pipe EXCEPT ![a] = pipe[a]]
      /\ pipe[a] \notin {"greeting", "served"}
  BY <1>1, <1>3 DEF MeetInv, AttachType, LegInv
<1> HIDE DEF r
<1>5. /\ AttachType' /\ Dialling' /\ LegInv' /\ attach'[a] = r
      /\ \A o \in Attaches : o # a => attach'[o] = attach[o]
  BY <1>2, <1>3, <1>4, OneAttachChanges
<1>6. AgeType' /\ AgeInv'
  BY <1>1, <1>2, <1>5, AgesKept
<1>7. Stage(a) = "asks" /\ Stage(a)' = "refused"
  BY <1>1, <1>2, <1>5 DEF Stage
<1>8. Meeting!GivesUp(a)
  BY <1>1, <1>5, <1>7, OneStage, UsedKept DEF Meeting!GivesUp, Stages, Used
<1> QED
  BY <1>5, <1>6, <1>8 DEF MeetInv, Meeting!Next
-----------------------------------------------------------------------------
(* Presenting a ticket: the attach is turned away or asks, and the ticket is
   used from then on if it was recorded. *)
LEMMA PresentStep ==
  ASSUME MeetInv, NEW a \in Attaches, attach[a].pc = "new",
         NEW r \in AttachRecord, attach' = [attach EXCEPT ![a] = r], r.host = "none",
         \/ r.pc \in {"replayed", "absent"} /\ UNCHANGED <<dialling, pipe>>
         \/ /\ r.pc = "dialling" /\ dialling' = dialling \cup {a}
            /\ \E q \in {pipe[a], "asked"} : pipe' = [pipe EXCEPT ![a] = q]
  PROVE  /\ AttachType' /\ Dialling' /\ LegInv' /\ attach'[a] = r
         /\ \A o \in Attaches : o # a => attach'[o] = attach[o]
         /\ Stage(a) = "new" /\ Stage(a)' = (IF r.pc = "dialling" THEN "asks" ELSE "refused")
<1>1. attach[a].host = "none" /\ pipe[a] \in {"none", "asked", "greeting", "served", "over"} /\ pipe[a] \notin {"greeting", "served"}
  BY DEF MeetInv, AttachType, LegInv
<1>2. PICK q \in {pipe[a], "asked"} : pipe' = [pipe EXCEPT ![a] = q]
  BY DEF MeetInv, AttachType
<1>3. dialling' = (IF r.pc = "dialling" THEN dialling \cup {a} ELSE dialling \ {a})
  BY DEF MeetInv, Dialling
<1>4. /\ AttachType' /\ Dialling' /\ LegInv' /\ attach'[a] = r
      /\ \A o \in Attaches : o # a => attach'[o] = attach[o]
  BY <1>1, <1>2, <1>3, OneAttachChanges
<1> QED
  BY <1>1, <1>4 DEF Stage

LEMMA TurnedStep ==
  ASSUME MeetInv, NEW a \in Attaches, Replays(a) \/ Unclaimable(a)
  PROVE  MeetInv' /\ Meeting!Next
<1>1. /\ attach[a] \in AttachRecord /\ attach[a].pc = "new" /\ attach[a].host = "none"
      /\ UNCHANGED <<dialling, pipe, good>>
      /\ UNCHANGED spent \/ Recorded(Ticket[a])
  BY DEF MeetInv, AttachType, LegInv, Replays, Unclaimable, timeVars
<1> DEFINE r == [attach[a] EXCEPT !.pc = "replayed", !.client = "closing"]
<1>2. r \in AttachRecord /\ r.pc = "replayed" /\ r.host = "none"
  BY <1>1 DEF AttachRecord, Legs
<1>3. attach' = [attach EXCEPT ![a] = r]
  BY DEF Replays, Unclaimable, Turned
<1> HIDE DEF r
<1>4. /\ AttachType' /\ Dialling' /\ LegInv' /\ attach'[a] = r
      /\ \A o \in Attaches : o # a => attach'[o] = attach[o]
      /\ Stage(a) = "new" /\ Stage(a)' = "refused"
  BY <1>1, <1>2, <1>3, PresentStep
<1>5. Stages' = [Stages EXCEPT ![a] = "refused"] /\ Stages[a] = "new"
  <2>1. Stages' = [Stages EXCEPT ![a] = Stage(a)']
    BY <1>4, OneStage
  <2> QED
    BY <1>4, <2>1 DEF Stages
<1>6. AgeType' /\ AgeInv' /\ (Used' = Used \/ Used' = Used \cup {Ticket[a]})
  <2>1. CASE UNCHANGED spent
    BY <1>1, <1>2, <1>4, <2>1, AgesKept, UsedKept
  <2>2. CASE Recorded(Ticket[a])
    <3>1. AgeType' /\ AgeInv' /\ Spent(Ticket[a])' /\ \A t \in Tickets : t # Ticket[a] => spent'[t] = spent[t]
      BY <1>1, <1>2, <1>4, <2>2, Recording
    <3>2. Ticket[a] \in Tickets
      BY DEF Tickets
    <3> QED
      BY <1>1, <3>1, <3>2 DEF Used, Spent
  <2> QED
    BY <1>1, <2>1, <2>2
<1>7. Meeting!TurnedAway(a)
  BY <1>5, <1>6 DEF Meeting!TurnedAway, Stages, Used
<1> QED
  BY <1>4, <1>6, <1>7 DEF MeetInv, Meeting!Next

LEMMA ClaimsStep ==
  ASSUME MeetInv, NEW a \in Attaches, Claims(a)
  PROVE  MeetInv' /\ Meeting!Next
<1>1. /\ attach[a] \in AttachRecord /\ attach[a].pc = "new" /\ attach[a].host = "none"
      /\ UNCHANGED good /\ Recorded(Ticket[a]) /\ ~Spent(Ticket[a]) /\ good[Ticket[a]] > 0
  BY DEF MeetInv, AttachType, LegInv, Claims
<1>2. PICK r \in AttachRecord :
        /\ attach' = [attach EXCEPT ![a] = r] /\ r.host = "none"
        /\ \/ r.pc \in {"replayed", "absent"} /\ UNCHANGED <<dialling, pipe>>
           \/ /\ r.pc = "dialling" /\ dialling' = dialling \cup {a}
              /\ \E q \in {pipe[a], "asked"} : pipe' = [pipe EXCEPT ![a] = q]
  <2>1. CASE Turned(a, "absent") /\ UNCHANGED <<dialling, pipe>>
    <3> DEFINE r == [attach[a] EXCEPT !.pc = "absent", !.client = "closing"]
    <3>1. r \in AttachRecord /\ r.pc = "absent" /\ r.host = "none"
      BY <1>1 DEF AttachRecord, Legs
    <3>2. attach' = [attach EXCEPT ![a] = r]
      BY <2>1 DEF Turned
    <3> HIDE DEF r
    <3> QED
      BY <2>1, <3>1, <3>2
  <2>2. CASE ~(Turned(a, "absent") /\ UNCHANGED <<dialling, pipe>>)
    <3>1. PICK s \in {alarm # None, alarm # None \/ "storagefails" \in deeds.may} :
            attach' = [attach EXCEPT ![a] = [pc |-> "dialling", client |-> "up", host |-> "none", scheduled |-> s]]
      BY <2>2 DEF Claims, Asked
    <3> DEFINE r == [pc |-> "dialling", client |-> "up", host |-> "none", scheduled |-> s]
    <3>2. r \in AttachRecord /\ r.pc = "dialling" /\ r.host = "none"
      BY <3>1 DEF AttachRecord, Legs
    <3>3. dialling' = dialling \cup {a} /\ \E q \in {pipe[a], "asked"} : pipe' = [pipe EXCEPT ![a] = q]
      <4>1. dialling' = dialling \cup {a} /\ (pipe' = [pipe EXCEPT ![a] = "asked"] \/ pipe' = pipe)
        BY <2>2 DEF Claims, Asked
      <4> QED
        BY <4>1 DEF MeetInv, AttachType
    <3>4. attach' = [attach EXCEPT ![a] = r]
      BY <3>1
    <3> HIDE DEF r
    <3> QED
      BY <3>2, <3>3, <3>4
  <2> QED
    BY <2>1, <2>2
<1>3. /\ AttachType' /\ Dialling' /\ LegInv' /\ attach'[a] = r
      /\ \A o \in Attaches : o # a => attach'[o] = attach[o]
      /\ Stage(a) = "new" /\ Stage(a)' \in {"asks", "refused"}
  BY <1>1, <1>2, PresentStep
<1>4. /\ AgeType' /\ AgeInv' /\ Spent(Ticket[a])'
      /\ \A t \in Tickets : t # Ticket[a] => spent'[t] = spent[t]
  BY <1>1, <1>2, <1>3, Recording
<1>5. Used' = Used \cup {Ticket[a]} /\ Ticket[a] \notin Used
  <2>1. Ticket[a] \in Tickets /\ ~(good[Ticket[a]] = 0)
    BY <1>1 DEF Tickets
  <2> QED
    BY <1>1, <1>4, <2>1 DEF Used, Spent
<1>6. Stages' = [Stages EXCEPT ![a] = Stage(a)'] /\ Stages[a] = "new"
  <2>1. Stages' = [Stages EXCEPT ![a] = Stage(a)']
    BY <1>3, OneStage
  <2> QED
    BY <1>3, <2>1 DEF Stages
<1>7. Meeting!Enter(a)
  BY <1>3, <1>5, <1>6 DEF Meeting!Enter, Stages, Used
<1> QED
  BY <1>3, <1>4, <1>7 DEF MeetInv, Meeting!Next
-----------------------------------------------------------------------------
(* The room dies: who asks is refused, and a pipe keeps its leg's name. *)
LEMMA CrashStep ==
  ASSUME MeetInv, Crashes
  PROVE  MeetInv' /\ Meeting!Next
<1>1. dialling' = {} /\ UNCHANGED <<good, spent, pipe>>
  BY DEF Crashes
<1>2. ASSUME NEW a \in Attaches
      PROVE  /\ attach'[a] \in AttachRecord /\ (attach'[a].host = "none" <=> attach[a].host = "none")
             /\ attach'[a].pc = (IF attach[a].pc \in {"dialling", "late", "arrived", "heals"} THEN "died" ELSE attach[a].pc)
  <2>1. attach[a] \in AttachRecord
    BY DEF MeetInv, AttachType
  <2> DEFINE r == [attach[a] EXCEPT !.client = Lost(attach[a].client), !.host = Lost(attach[a].host),
                !.pc = IF attach[a].pc \in {"dialling", "late", "arrived", "heals"} THEN "died" ELSE attach[a].pc]
  <2>2. /\ r \in AttachRecord /\ (r.host = "none" <=> attach[a].host = "none")
        /\ r.pc = (IF attach[a].pc \in {"dialling", "late", "arrived", "heals"} THEN "died" ELSE attach[a].pc)
    BY <2>1 DEF AttachRecord, Legs, Lost
  <2>3. attach'[a] = r
    BY DEF Crashes
  <2> QED
    BY <2>2, <2>3
<1>3. AttachType'
  BY <1>1, <1>2 DEF MeetInv, AttachType, Crashes
<1>4. Dialling' /\ LegInv'
  BY <1>1, <1>2 DEF MeetInv, Dialling, LegInv
<1>5. AgeType' /\ AgeInv'
  BY <1>1, <1>2, AgesKept
<1>6. ASSUME NEW a \in Attaches PROVE Stage(a)' = IF Stage(a) = "asks" THEN "refused" ELSE Stage(a)
  BY <1>2 DEF Stage
<1>7. Stages' = [a \in Attaches |-> IF Stages[a] = "asks" THEN "refused" ELSE Stages[a]]
  BY <1>6 DEF Stages
<1>8. Meeting!Dies
  BY <1>1, <1>7, UsedKept DEF Meeting!Dies, Stages, Used
<1> QED
  BY <1>3, <1>4, <1>5, <1>8 DEF MeetInv, Meeting!Next

(* An idle object that is evicted loses an empty map. *)
LEMMA EvictedStep ==
  ASSUME MeetInv, Evicted
  PROVE  MeetInv' /\ Meeting!Next
<1>1. dialling = {}
  BY DEF MeetInv, Dialling, Evicted, Idle
<1> QED
  BY <1>1, QuietActions DEF Evicted, timeVars

LEMMA MeetStep ==
  ASSUME MeetInv, [Next]_vars
  PROVE  MeetInv' /\ [Meeting!Next]_<<Stages, Used>>
<1>1. ASSUME NEW l \in Links, LinkStep(l) PROVE UNCHANGED <<attach, dialling, pipe, good, spent>>
  BY <1>1 DEF LinkStep, Dial, Hello, Checked, Parks, Parked, Hears, LinkCloses, timeVars, pipeVars
<1>2. ASSUME NEW w \in writes, Lands(w) PROVE UNCHANGED <<attach, dialling, pipe, good, spent>>
  BY <1>2 DEF Lands, pipeVars
<1>3. ASSUME Loses \/ Naps \/ AlarmArms PROVE UNCHANGED <<attach, dialling, pipe, good, spent>>
  BY <1>3 DEF Loses, Naps, AlarmArms, timeVars, pipeVars
<1>4. ASSUME NEW a \in Attaches, AttachStep(a) \/ PipeStep(a) PROVE MeetInv' /\ Meeting!Next
  BY <1>4, TurnedStep, ClaimsStep, DialBackStep, TimesOutStep, GoingOn, ThreadSteps DEF AttachStep, PipeStep
<1>5. CASE UNCHANGED vars
  <2>1. MeetInv' /\ Stages' = Stages /\ Used' = Used
    BY <1>5 DEF vars, MeetInv, AttachType, AgeType, Dialling, LegInv, AgeInv, Presented, Stages, Stage, Used, Spent
  <2> QED
    BY <2>1
<1> QED
  BY <1>1, <1>2, <1>3, <1>4, <1>5, QuietActions, TickStep, AlarmStep, CrashStep, EvictedStep DEF Next

LEMMA MeetStarts == ASSUME Init PROVE MeetInv /\ Meeting!Init
<1>1. /\ \A a \in Attaches : attach[a] = NewAttach
      /\ \A t \in Tickets : good[t] = Lifetime + 1 /\ spent[t] = None
  BY DEF Init
<1>2. NewAttach \in AttachRecord /\ NewAttach.pc = "new" /\ NewAttach.host = "none"
  BY DEF NewAttach, AttachRecord, Legs
<1>3. None \in None..Retention /\ Lifetime + 1 \in 0..(Lifetime + 1) /\ Lifetime + 1 # 0
  BY RelayAssumption DEF RelayAssumption, None
<1>4. AttachType /\ AgeType
  BY <1>2, <1>3 DEF Init, AttachType, AgeType
<1>5. Dialling /\ LegInv /\ AgeInv
  BY <1>1, <1>2 DEF Init, Dialling, LegInv, AgeInv
<1>6. Stages = [a \in Attaches |-> "new"] /\ Used = {}
  BY <1>1, <1>2, <1>3 DEF Stages, Stage, Used, Spent
<1> QED
  BY <1>4, <1>5, <1>6 DEF MeetInv, Meeting!Init, Stages, Used

(* A ticket is recorded, for longer than any ticket lives, in the step that lets
   its attach in, and an attach leaves #dialling in the step that answers it: so
   a ticket lets one attach in and a late dial meets nobody, though the room is
   evicted, dies, sleeps or cannot write in between. *)
THEOREM ImplementsRendezvous == Spec => KeepsRendezvous
<1>1. Init => MeetInv /\ Meeting!Init
  BY MeetStarts
<1>2. MeetInv /\ [Next]_vars => MeetInv' /\ [Meeting!Next]_<<Stages, Used>>
  BY MeetStep
<1> QED
  BY <1>1, <1>2, PTL DEF Spec, KeepsRendezvous, Meeting!Spec, Stages, Used
-----------------------------------------------------------------------------
(* The clocks: the alarm, what the column still says, and the scenario. *)
Latest == IF Refresh > Retention THEN Refresh ELSE Retention
ClockType == deeds \in Scenarios /\ alarm \in None..Latest /\ waking \in BOOLEAN /\ seen \in 0..Bound
RoomInv == WayInv /\ MeetInv /\ ClockType

LEMMA Periods ==
  /\ Refresh \in Nat /\ Retention \in Nat /\ Bound \in Nat /\ None = -1
  /\ Latest \in Nat /\ Refresh <= Latest /\ Retention <= Latest
BY RelayAssumption DEF RelayAssumption, Latest, None

(* A set of ages that is not empty has a least one: what CHOOSE takes. *)
LEMMA FirstOfAges ==
  ASSUME NEW S \in SUBSET Nat, S # {}
  PROVE  (CHOOSE s \in S : \A r \in S : s <= r) \in S
<1>1. PICK s \in S : \A r \in S : ~(<<r, s>> \in OpToRel(<, Nat))
  BY WFMin, NatLessThanWellFounded
<1>2. \A r \in S : s <= r
  <2> TAKE r \in S
  <2>1. ~(r < s)
    BY <1>1 DEF OpToRel
  <2> QED
    BY <2>1
<1> QED
  BY <1>1, <1>2

(* Setting the alarm earlier keeps it within the longest period. *)
LEMMA ArmsType ==
  ASSUME ClockType, NEW at \in {Refresh, Retention}, Arms(at)
  PROVE  alarm' \in None..Latest
BY Periods DEF ClockType, Arms, Earlier

LEMMA AlarmType ==
  ASSUME ClockType, AgeType, Alarm
  PROVE  alarm' \in None..Latest
<1>1. Left \in SUBSET (0..Retention)
  BY Periods DEF Left, AgeType
<1>2. CASE Left = {}
  BY <1>2, Periods DEF Alarm
<1>3. CASE Left # {}
  <2>1. Left \in SUBSET Nat
    BY <1>1, Periods
  <2>2. alarm' \in Left
    BY <1>3, <2>1, FirstOfAges DEF Alarm
  <2> QED
    BY <1>1, <2>2, Periods
<1> QED
  BY <1>2, <1>3

LEMMA ClockStep ==
  ASSUME ClockType, AgeType, [Next]_vars
  PROVE  ClockType'
<1>1. UNCHANGED deeds
  BY DEF Next, vars, LinkStep, Dial, Hello, Checked, Parks, Parked, Hears, LinkCloses, AttachStep, Replays, Unclaimable,
         Claims, DialsBack, Busy, TimesOut, Resumes, Heals, PipeStep, Floods, ClientLeaves, Greets, HostLeaves, Lands,
         Loses, Naps, Alarm, AlarmArms, Tick, Evicted, Crashes
<1>2. ASSUME UNCHANGED <<waking, seen>>, alarm' \in None..Latest PROVE ClockType'
  BY <1>1, <1>2 DEF ClockType
<1>3. ASSUME NEW l \in Links, LinkStep(l) PROVE ClockType'
  <2>1. CASE Parks(l)
    <3>1. UNCHANGED <<waking, seen>> /\ (UNCHANGED alarm \/ Arms(Refresh))
      BY <2>1 DEF Parks, Parked
    <3> QED
      BY <1>2, <3>1, ArmsType DEF ClockType
  <2> QED
    BY <1>2, <1>3, <2>1 DEF LinkStep, Dial, Hello, Checked, Hears, LinkCloses, timeVars, ClockType
<1>4. ASSUME NEW a \in Attaches, AttachStep(a) PROVE ClockType'
  <2>1. CASE Claims(a)
    BY <1>2, <2>1, ArmsType DEF Claims
  <2>2. CASE Heals(a)
    BY <1>2, <2>2, ArmsType DEF Heals
  <2> QED
    BY <1>2, <1>4, <2>1, <2>2 DEF AttachStep, Replays, Unclaimable, DialsBack, Busy, TimesOut, Resumes, timeVars, ClockType
<1>5. ASSUME NEW a \in Attaches, PipeStep(a) PROVE ClockType'
  BY <1>2, <1>5 DEF PipeStep, Floods, ClientLeaves, Greets, HostLeaves, timeVars, ClockType
<1>6. ASSUME NEW w \in writes, Lands(w) PROVE ClockType'
  BY <1>1, <1>6, Periods DEF Lands, ClockType
<1>7. CASE Alarm
  BY <1>1, <1>7, AlarmType DEF Alarm, ClockType
<1>8. CASE AlarmArms
  BY <1>1, <1>8, ArmsType DEF AlarmArms, ClockType
<1>9. CASE Tick
  BY <1>1, <1>9, Periods DEF Tick, Less, ClockType
<1>10. CASE Crashes
  <2>1. alarm' = 0 \/ alarm' = alarm
    BY <1>10 DEF Crashes
  <2>2. alarm' \in None..Latest
    BY <2>1, Periods DEF ClockType
  <2>3. seen' = seen /\ waking' = FALSE
    BY <1>10 DEF Crashes
  <2> QED
    BY <1>1, <2>2, <2>3 DEF ClockType
<1>11. CASE Loses \/ Naps \/ Evicted \/ UNCHANGED vars
  BY <1>2, <1>11 DEF Loses, Naps, Evicted, timeVars, vars, ClockType
<1> QED
  BY <1>3, <1>4, <1>5, <1>6, <1>7, <1>8, <1>9, <1>10, <1>11 DEF Next

(* The room's variables keep to their types: the alarm never lies further off
   than the longest period it is armed for, entries and tickets run out and no
   further, and #dialling holds exactly the attaches that wait for their dial. *)
THEOREM RoomTypeCorrect == Spec => []TypeOK
<1>1. Init => RoomInv
  <2> SUFFICES ASSUME Init PROVE RoomInv
    OBVIOUS
  <2>1. ClockType
    <3>1. None \in None..Latest /\ 0 \in 0..Bound
      BY Periods
    <3> QED
      BY <3>1 DEF Init, ClockType
  <2> QED
    BY <2>1, WayStarts, MeetStarts DEF RoomInv
<1>2. RoomInv /\ [Next]_vars => RoomInv'
  BY WayStep, MeetStep, ClockStep DEF RoomInv, MeetInv
<1>3. RoomInv => TypeOK
  <2> SUFFICES ASSUME RoomInv PROVE TypeOK
    OBVIOUS
  <2>1. LinkType /\ DaemonType /\ AgeType /\ Dialling /\ ClockType
    BY DEF RoomInv, WayInv, MeetInv
  <2> QED
    BY <2>1 DEF LinkType, LinkRecord, Sockets, DaemonType, AgeType, Dialling, ClockType, Latest, TypeOK
<1> QED
  BY <1>1, <1>2, <1>3, PTL DEF Spec
=============================================================================
