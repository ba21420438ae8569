----------------------------- MODULE DeltaCodec -----------------------------
(***************************************************************************)
(* What one subscriber of a session is sent and what it makes of it: the    *)
(* host's terminal, the subscriber's Encoder with its shadow of the rows    *)
(* last sent, and the Applier that writes into the replica's terminal       *)
(* (zest-proto encode.rs and apply.rs, zest-core apply.rs and grid,         *)
(* zest-daemon session.rs).                                                 *)
(*                                                                         *)
(* A message is applied in the step that encodes it: the link is in order,  *)
(* the encoder never looks at the replica, and nothing the replica does by  *)
(* itself is read by the host; what may come between, and a reply that is   *)
(* overtaken, is SessionSync's.  A row is one run, so its text is also its  *)
(* rendition and is interned.  Columns, the cursor, titles and blocks are   *)
(* left out, save that a cursor that moved makes a delta that is not empty. *)
(*                                                                         *)
(* An operator named Mutant... is a bug the properties have to catch; no   *)
(* other definition uses it.                                               *)
(***************************************************************************)
EXTENDS TermGrid

CONSTANTS
  Texts,      \* what programs print on the main screen
  AltTexts,   \* what full-screen programs draw on the alternate one
  AttrIds,    \* how many attribute ids there are: 2^16
  Limit,      \* rows of scrollback the host keeps
  Keep,       \* rows of scrollback the replica keeps
  Page,       \* rows of a history page
  Plans       \* bound: the heights, the first of them, how often the host's screen
              \* changes, and what may happen

(* Since the last keyframe a delta carried a screen switch, or a history page
   bound an attribute id anew; ever, a delta carried a switch, one filed as history
   a row that the host still shows, a page left the replica's rows out of order, or
   the replica made rows of its own below a main screen that is not the one shown. *)
AllMarks == {"crossed", "restyled", "mixed", "misfiled", "spilled", "padded"}

AllDeeds == {"alt", "clear", "page", "resize", "attach"}

ASSUME CodecAssumption ==
  /\ Blank \notin Texts \cup AltTexts /\ Texts \cap AltTexts = {}
  /\ {Limit, Keep} \subseteq Nat /\ {AttrIds, Page} \subseteq Nat \ {0}
  /\ IsFiniteSet(Texts \cup AltTexts) /\ Cardinality(Texts \cup AltTexts) <= AttrIds
  /\ \A p \in Plans : p.heights \subseteq Nat \ {0} /\ p.first \in p.heights /\ p.may \subseteq AllDeeds
                      /\ p.deeds \in Nat

VARIABLES
  plan,      \* the plan of this behaviour; it never changes
  deeds,     \* bound: how often the host's screen has changed
  host,      \* the session's screens: <<main>>, or <<main, alternate>>
  clears,    \* history_clears of the host's main grid
  floor,     \* history: no row with an id below it survived an ED 3
  moved,     \* the sequence is past Subscriber.sent
  owed,      \* Subscriber.needs_keyframe
  event,     \* the reader thread has a HistoryCleared event to act on
  enc,       \* the Encoder: [attrs, pending, seen, alt]
  view,      \* the replica's screens
  table,     \* Applier.attrs: id -> text
  cleared,   \* Applier.history_clears
  behind,    \* Applier.applied is not Subscriber.sent
  asked,     \* the replica has asked for a keyframe
  wanted,    \* the from_line of a history page asked for, or NoPage
  drained,   \* a page brought nothing new: the replica asks for no more
  marks      \* history: what the properties make an exception of, of AllMarks

vars == <<plan, deeds, host, clears, floor, moved, owed, event, enc, view, table, cleared, behind,
          asked, wanted, drained, marks>>
hostVars == <<deeds, host, clears, floor, event>>
replicaVars == <<view, table, cleared, asked, wanted, drained, marks>>

NoRun == -1      \* the payload of a row that is all blank
Unseen == [line |-> -1, run |-> NoRun]
Unstyled == "unstyled"
NoPage == -1

May(deed) == deed \in plan.may
-----------------------------------------------------------------------------
(* A terminal: the active screen is the last; only the main one has history. *)
InAlt(t) == Len(t) = 2
Active(t) == t[Len(t)]
WithActive(t, g) == [t EXCEPT ![Len(t)] = g]
Room(t, keep) == IF InAlt(t) THEN 0 ELSE keep
Switched(t, alt) ==
  IF alt = InAlt(t) THEN t ELSE IF alt THEN Append(t, Fresh(Height(t[1]))) ELSE <<t[1]>>
AllResized(t, height, below, keep, restated) ==
  [i \in DOMAIN t |-> Resized(t[i], height, below[i], IF i = 1 THEN keep ELSE 0, restated)]

(* A cursor may stand on any row of either screen, each end's where it likes. *)
Belows == [1..2 -> {0} \cup {h - 1 : h \in plan.heights}]
-----------------------------------------------------------------------------
(* The encoder. *)
NewEncoder == [attrs |-> <<>>, pending |-> {}, seen |-> <<>>, alt |-> FALSE]

Defs(attrs) == {[id |-> attrs[t], text |-> t] : t \in DOMAIN attrs}

(* attr(), row by row: a rendition met for the first time gets the next id. *)
Interned(attrs, rows) ==
  LET known == DOMAIN attrs \cup {Blank}
      firsts == {i \in DOMAIN rows : /\ rows[i].text \notin known
                                     /\ \A j \in 1..(i - 1) : rows[j].text # rows[i].text}
      rank(t) == Cardinality({i \in firsts : \A j \in 1..i : rows[j].text # t})
  IN [t \in DOMAIN attrs \cup {rows[i].text : i \in firsts} |->
       IF t \in DOMAIN attrs THEN attrs[t] ELSE (Cardinality(DOMAIN attrs) + rank(t)) % AttrIds]

Payload(attrs, row) ==
  [line |-> row.id, run |-> IF row.text = Blank THEN NoRun ELSE attrs[row.text]]
Payloads(attrs, rows) == [i \in DOMAIN rows |-> Payload(attrs, rows[i])]

MutantNothingPending(e, t) ==
  LET rows == Screen(Active(t))
      attrs == Interned(e.attrs, rows)
  IN [attrs |-> attrs, pending |-> {}, seen |-> Payloads(attrs, rows), alt |-> InAlt(t)]

Encoded(e, t) ==
  LET rows == Screen(Active(t))
      attrs == Interned(e.attrs, rows)
  IN [attrs |-> attrs, pending |-> e.pending \cup (Defs(attrs) \ Defs(e.attrs)),
      seen |-> Payloads(attrs, rows), alt |-> InAlt(t)]

(* keyframe() and delta() leave nothing pending. *)
Drained(e) == [e EXCEPT !.pending = {}]

Keyframe(e, t) ==
  [rows |-> e.seen, attrs |-> Defs(e.attrs), alt |-> e.alt,
   clears |-> IF InAlt(t) THEN 0 ELSE clears]

(* A viewport that moved is one whose first line id increased, by less than its
   height; the shadow moves with it. *)
ScrolledBy(e, t) ==
  LET by == FirstId(Active(t)) - e.seen[1].line
  IN IF by > 0 /\ by < Len(e.seen) THEN by ELSE 0

Shifted(e, t) ==
  [i \in 1..Height(Active(t)) |->
     IF i + ScrolledBy(e, t) <= Len(e.seen) THEN e.seen[i + ScrolledBy(e, t)] ELSE Unseen]

(* `fresh` is the encoder after this encoding; `other` says that the cursor, a
   mode or the title changed too. *)
MutantContentOnly(e, fresh, t, other) ==
  LET shadow == Shifted(e, t)
      differ == {i \in DOMAIN fresh.seen : shadow[i] = Unseen \/ shadow[i].run # fresh.seen[i].run}
  IN [attrs |-> fresh.pending, alt |-> fresh.alt, switch |-> fresh.alt # e.alt,
      scroll |-> ScrolledBy(e, t), rows |-> [i \in differ |-> fresh.seen[i]], other |-> other]

DeltaOf(e, fresh, t, other) ==
  LET shadow == Shifted(e, t)
      differ == {i \in DOMAIN fresh.seen : shadow[i] # fresh.seen[i]}
  IN [attrs |-> fresh.pending, alt |-> fresh.alt, switch |-> fresh.alt # e.alt,
      scroll |-> ScrolledBy(e, t), rows |-> [i \in differ |-> fresh.seen[i]], other |-> other]

NothingIn(d) ==
  d.attrs = {} /\ ~d.switch /\ d.scroll = 0 /\ DOMAIN d.rows = {} /\ ~d.other
-----------------------------------------------------------------------------
(* The applier. *)
Learn(known, defs) ==
  [id \in DOMAIN known \cup {d.id : d \in defs} |->
     IF \E d \in defs : d.id = id THEN (CHOOSE d \in defs : d.id = id).text ELSE known[id]]

Ids(rows) == {rows[i].id : i \in DOMAIN rows}
Known(p, ids) == p.run = NoRun \/ p.run \in DOMAIN ids
Decoded(p, ids) ==
  Row(p.line, IF p.run = NoRun THEN Blank ELSE IF Known(p, ids) THEN ids[p.run] ELSE Unstyled)

(* Rows at their positions, and the line counter level with the host's. *)
Written(g, rows, ids) ==
  LET inside == {i \in DOMAIN rows : i <= Height(g)}
      lines == [i \in DOMAIN g.lines |->
                 IF i - g.back \in inside THEN Decoded(rows[i - g.back], ids) ELSE g.lines[i]]
      top == {rows[i].line : i \in inside} \cup {-1}
  IN SyncNext([g EXCEPT !.lines = lines], 1 + (CHOOSE l \in top : \A m \in top : m <= l))

(* Rows still shown that a keyframe starts after are filed as history; rows that
   it names and history holds are history no longer. *)
Displaced(g, named) ==
  LET older(i) == /\ \A id \in named : g.lines[g.back + i].id < id
                  /\ g.back > 0 => g.lines[g.back + i].id > g.lines[g.back].id
  IN Cardinality({n \in 1..Height(g) : \A i \in 1..n : older(i)})

Boundary(g, named, keep) ==
  IF Displaced(g, named) > 0 THEN ScrollUp(g, Displaced(g, named), keep)
  ELSE DropHistory(g, named)

MutantStaleCopies(g, named, keep, fresh) ==
  IF fresh \/ Displaced(g, named) = 0 THEN g ELSE Boundary(g, named, keep)

(* On a clearing keyframe what is shown is from before the destruction. *)
Rebounded(g, named, keep, fresh) ==
  IF fresh THEN DropHistory(g, named) ELSE Boundary(g, named, keep)

Forgotten(t, fresh) == IF fresh THEN [t EXCEPT ![1] = WithoutHistory(@)] ELSE t

ApplyKeyframe(k, below) ==
  LET ids == Learn(table, k.attrs)
      sized == AllResized(view, Len(k.rows), below, Keep, TRUE)
      fresh == k.clears > cleared
      shown == Forgotten(Switched(sized, k.alt), fresh)
      named == {k.rows[i].line : i \in DOMAIN k.rows}
      ready == Rebounded(Active(shown), named, Room(shown, Keep), fresh)
  IN /\ view' = WithActive(shown, Written(ready, k.rows, ids))
     /\ table' = ids
     /\ cleared' = IF fresh THEN k.clears ELSE cleared
     /\ behind' = FALSE /\ asked' = FALSE /\ drained' = FALSE
     /\ marks' = (marks \ {"crossed", "restyled"})
          \cup (IF k.alt /\ Len(k.rows) > Height(view[1]) THEN {"padded"} ELSE {})

(* A scroll files the rows it moves as history; the SbPush that repeats them is
   passed over. *)
ApplyDelta(d) ==
  LET ids == Learn(table, d.attrs)
      shown == Switched(view, d.alt)
      g == ScrollUp(Active(shown), d.scroll, Room(shown, Keep))
      clean == \A i \in DOMAIN d.rows : i <= Height(g) /\ Known(d.rows[i], ids)
  IN /\ view' = WithActive(shown, Written(g, d.rows, ids))
     /\ table' = ids
     /\ behind' = ~clean /\ asked' = ~clean
     /\ marks' = marks
          \cup (IF d.switch THEN {"crossed", "mixed"} ELSE {})
          \cup (IF Ids(SubSeq(Screen(Active(shown)), 1, d.scroll)) \cap Ids(Screen(Active(host))) # {}
               THEN {"misfiled"} ELSE {})
     /\ UNCHANGED <<cleared, drained>>
-----------------------------------------------------------------------------
(* The host's programs and its reader thread. *)

Becomes(t) ==
  /\ deeds < plan.deeds /\ deeds' = deeds + 1
  /\ host' = t /\ moved' = TRUE
HostOnly == UNCHANGED <<plan, owed, enc, behind, replicaVars>>

(* A row of the screen a program writes on gets a text, or is erased. *)
Draw(r, text) ==
  /\ r <= Height(Active(host))
  /\ text \in {Blank} \cup (IF InAlt(host) THEN AltTexts ELSE Texts)
  /\ Becomes(WithActive(host, WriteRow(Active(host), r, Row(Screen(Active(host))[r].id, text))))
  /\ HostOnly /\ UNCHANGED <<clears, floor, event>>

(* linefeed() on the last row. *)
LineFeed ==
  /\ Becomes(WithActive(host, ScrollUp(Active(host), 1, Room(host, Limit))))
  /\ HostOnly /\ UNCHANGED <<clears, floor, event>>

SwitchScreen ==
  /\ May("alt")
  /\ Becomes(Switched(host, ~InAlt(host)))
  /\ HostOnly /\ UNCHANGED <<clears, floor, event>>

(* ED 3: the live screen is erased, and the main one's scrollback is destroyed
   whichever screen is live. *)
EraseAll ==
  /\ May("clear")
  /\ LET rows == [i \in 1..Height(Active(host)) |-> Row(Screen(Active(host))[i].id, Blank)]
         erased == WithActive(host, [Active(host) EXCEPT !.lines = History(Active(host)) \o rows])
     IN Becomes([erased EXCEPT ![1] = WithoutHistory(@)])
  /\ clears' = clears + 1 /\ floor' = FirstId(host[1])
  /\ event' = TRUE
  /\ HostOnly

MutantUntold ==
  /\ event
  /\ event' = FALSE
  /\ UNCHANGED <<plan, deeds, host, clears, floor, moved, owed, enc, behind, replicaVars>>

(* keyframe_everyone, after the terminal lock was released. *)
TellCleared ==
  /\ event
  /\ event' = FALSE /\ owed' = TRUE
  /\ UNCHANGED <<plan, deeds, host, clears, floor, moved, enc, behind, replicaVars>>

(* A client's vote changes the size, under the subscribers' lock. *)
Resize(height, below) ==
  /\ May("resize") /\ height # Height(Active(host))
  /\ Becomes(AllResized(host, height, below, Limit, FALSE))
  /\ owed' = TRUE
  /\ UNCHANGED <<plan, clears, floor, event, enc, behind, replicaVars>>
-----------------------------------------------------------------------------
(* The subscriber. *)

SendKeyframe(e, below) ==
  /\ enc' = Drained(Encoded(e, host))
  /\ ApplyKeyframe(Keyframe(Encoded(e, host), host), below)
  /\ moved' = FALSE /\ owed' = FALSE
  /\ UNCHANGED <<plan, hostVars>>

(* Owed, or too far behind for a delta; or a block was destroyed. *)
PollKeyframe(below) == (moved \/ owed) /\ SendKeyframe(enc, below) /\ UNCHANGED wanted

(* A delta with nothing in it advances the baseline in silence; one that builds
   on what the replica does not hold is refused, and the whole state asked for. *)
PollDelta(other) ==
  LET fresh == Encoded(enc, host)
      d == DeltaOf(enc, fresh, host, other)
  IN /\ moved /\ ~owed
     /\ moved' = FALSE
     /\ enc' = Drained(fresh)
     /\ IF NothingIn(d) THEN behind' = TRUE /\ UNCHANGED replicaVars
        ELSE IF behind
        THEN asked' = TRUE
             /\ UNCHANGED <<behind, view, table, cleared, wanted, drained, marks>>
        ELSE ApplyDelta(d) /\ UNCHANGED wanted
     /\ UNCHANGED <<plan, hostVars, owed>>

(* RequestKeyframe. *)
Answer(below) == asked /\ SendKeyframe(enc, below) /\ UNCHANGED wanted

(* A link that was lost and dialled again attaches anew, with a vote of its own,
   to the replica it had. *)
Reattach(below) ==
  /\ May("attach") /\ SendKeyframe(NewEncoder, below)
  /\ wanted' = NoPage

(* RequestScrollback: a page that ends where the replica's rows begin. *)
AskHistory ==
  /\ May("page") /\ wanted = NoPage /\ ~drained /\ Active(view).back < Room(view, Keep)
  /\ wanted' = IF OldestId(Active(view)) > Page THEN OldestId(Active(view)) - Page ELSE 0
  /\ UNCHANGED <<plan, hostVars, moved, owed, enc, behind, view, table, cleared, asked,
                 drained, marks>>

(* Rows of the live screen's scrollback, from an encoder of its own. *)
HistoryPage ==
  LET history == History(Active(host))
      past == Picked(history, {i \in DOMAIN history : history[i].id >= wanted})
  IN SubSeq(past, 1, Least(Len(past), Page))

Paged(g, page, keep) ==
  Prepend(DropHistory(g, Ids(page)), page, keep)

Ascending(rows) == \A i, j \in DOMAIN rows : i < j => rows[i].id < rows[j].id
Gained(old, new) == OldestId(new) < OldestId(old) \/ new.back > old.back

(* The definitions it brings are learnt with the stream's own. *)
TakeHistory ==
  LET attrs == Interned(<<>>, HistoryPage)
      ids == Learn(table, Defs(attrs))
      page == [i \in DOMAIN HistoryPage |-> Decoded(Payload(attrs, HistoryPage[i]), ids)]
  IN /\ wanted # NoPage
     /\ wanted' = NoPage
     /\ table' = ids
     /\ view' = WithActive(view, Paged(Active(view), page, Room(view, Keep)))
     /\ marks' = marks
          \cup (IF \E id \in DOMAIN table : ids[id] # table[id] THEN {"restyled"} ELSE {})
          \cup (IF Ascending(Active(view').lines) THEN {} ELSE {"spilled"})
     /\ drained' = ~Gained(Active(view), Active(view'))
     /\ UNCHANGED <<plan, hostVars, moved, owed, enc, behind, cleared, asked>>
-----------------------------------------------------------------------------
(* Attached to a session that has just begun. *)
Init ==
  /\ plan \in Plans /\ deeds = 0
  /\ host = <<Fresh(plan.first)>> /\ view = <<Fresh(plan.first)>>
  /\ clears = 0 /\ floor = 0 /\ cleared = 0
  /\ enc = [NewEncoder EXCEPT !.seen = Payloads(<<>>, Screen(Fresh(plan.first)))]
  /\ table = <<>> /\ wanted = NoPage /\ drained = FALSE
  /\ moved = FALSE /\ owed = FALSE /\ event = FALSE
  /\ behind = FALSE /\ asked = FALSE /\ marks = {}

Next ==
  \/ \E text \in Texts \cup AltTexts \cup {Blank} :
       \E r \in 1..Height(Active(host)) : Draw(r, text)
  \/ LineFeed \/ SwitchScreen \/ EraseAll \/ TellCleared
  \/ \E other \in BOOLEAN : PollDelta(other)
  \/ \E below \in Belows :
       \/ \E height \in plan.heights : Resize(height, below)
       \/ PollKeyframe(below) \/ Answer(below) \/ Reattach(below)
  \/ AskHistory \/ TakeHistory

Spec == Init /\ [][Next]_vars
-----------------------------------------------------------------------------
Terminal(t) ==
  /\ Len(t) \in {1, 2} /\ Height(t[1]) = Height(Active(t)) /\ Height(t[1]) > 0
  /\ \A i \in DOMAIN t[1].lines : t[1].lines[i].text \in Texts \cup {Blank}
  /\ \A i \in DOMAIN Active(t).lines : Active(t).lines[i].text \in Texts \cup AltTexts \cup {Blank}

(* The main screen and its history hold nothing that was drawn on the other one,
   and the shadow an encoder keeps is as high and on the same screen as what it
   stands for, of renditions that the replica knows: what makes every operation
   of a delta apply (apply.rs: an operation that fails costs a keyframe). *)
TypeOK ==
  /\ Terminal(host) /\ Terminal(view)
  /\ marks \subseteq AllMarks /\ clears \in 0..deeds /\ cleared \in 0..clears
  /\ ~behind => /\ Len(enc.seen) = Height(Active(view)) /\ enc.alt = InAlt(view)
                /\ \A i \in DOMAIN enc.seen : enc.seen[i].run \in DOMAIN table \cup {NoRun}

Settled == ~moved /\ ~owed /\ ~event /\ ~asked

(* A replica that has been sent all there is shows what the host shows, row for
   row with its id (encode.rs: diffing against what was sent misses nothing),
   unless a delta crossed from one screen to the other or a history page bound
   an attribute id anew since its last keyframe. *)
ScreenAgrees ==
  Settled /\ marks \cap {"crossed", "restyled"} = {} => Screen(Active(view)) = Screen(Active(host))

HeldOnce(rows) == \A i, j \in DOMAIN rows : rows[i].id = rows[j].id => i = j

(* No row is both in a replica's history and on its screen, or twice in either,
   however keyframes, scrolls and pages filed and took back rows (grid/mod.rs:
   the same line in both halves, shown twice by all that walks the session),
   unless a delta carried a screen switch or scrolled by more than the host did,
   a page came out of order, or the main screen grew while the other was shown. *)
NoLineTwice ==
  marks \cap {"mixed", "misfiled", "spilled", "padded"} = {} => HeldOnce(view[1].lines)

(* What ED 3 destroyed on the host is gone from the replica's history once it is
   told, whatever was in flight (encode.rs history_clears), the crossing of
   screens apart. *)
ClearsReach ==
  Settled /\ "crossed" \notin marks /\ ~InAlt(host) =>
    \A i \in 1..view[1].back : view[1].lines[i].id >= floor

(* A row of history that the host holds too says what the host's says (encode.rs
   header: diffing against what was sent cannot miss a change).  It does not hold:
   a scroll files the rows as they were last sent, not as they left. *)
HistoryTells ==
  Settled => \A i \in 1..view[1].back : \A j \in 1..host[1].back :
    view[1].lines[i].id = host[1].lines[j].id => view[1].lines[i].text = host[1].lines[j].text

(* NoLineTwice with no exception made: a scroll is told by the line id alone
   (encode.rs header: no guessing, no false positive).  It does not hold: ids of
   two screens are compared, and ids have gaps. *)
LineHeldOnce == Settled => HeldOnce(view[1].lines)

(* Whatever a replica has filed is a row the host has made (zest-core apply.rs: the
   rows a replica stamps itself are re-sent and restamped), were it only that no
   delta ever took it from one screen to the other.  It does not hold: the
   keyframe of an alternate screen makes rows of the main one that nobody restates,
   and a later one, of a lower screen, files them. *)
HistoryIsHosts ==
  Settled /\ "mixed" \notin marks =>
    \A i \in 1..view[1].back : view[1].lines[i].id < host[1].next
=============================================================================
