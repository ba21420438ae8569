------------------------------ MODULE TermGrid ------------------------------
(***************************************************************************)
(* A terminal's grid (zest-core/grid): one sequence of rows, the viewport   *)
(* at its end and scrollback before it.  Each row carries the absolute id   *)
(* it was given when it was made; ids have gaps where rows were destroyed.  *)
(* A row's text is one value, Blank for a row of default cells.  Widths,    *)
(* scroll regions smaller than the screen, reading positions and the        *)
(* restating pty of Windows are left out.                                   *)
(***************************************************************************)
EXTENDS Integers, Sequences, FiniteSets

CONSTANT Blank   \* the text of an erased row

Row(id, text) == [id |-> id, text |-> text]
Least(a, b) == IF a < b THEN a ELSE b
KeepLast(s, n) == SubSeq(s, Len(s) - n + 1, Len(s))

(* The rows at the places in S, closed up in order. *)
Nth(S, n) == CHOOSE i \in S : Cardinality({j \in S : j < i}) = n - 1
Picked(rows, S) == [n \in 1..Cardinality(S) |-> rows[Nth(S, n)]]

(* back is scrollback_len, next the id of the next row to be made. *)
Fresh(height) ==
  [lines |-> [i \in 1..height |-> Row(i - 1, Blank)], back |-> 0, next |-> height]

Height(g)  == Len(g.lines) - g.back
History(g) == SubSeq(g.lines, 1, g.back)
Screen(g)  == SubSeq(g.lines, g.back + 1, Len(g.lines))
FirstId(g) == g.lines[g.back + 1].id
OldestId(g) == g.lines[1].id
Minted(g, n) == [i \in 1..n |-> Row(g.next + i - 1, Blank)]

WriteRow(g, r, row) == [g EXCEPT !.lines[g.back + r] = row]
SyncNext(g, id) == [g EXCEPT !.next = IF id > @ THEN id ELSE @]

(* n rows leave over the top into scrollback, which keeps at most `limit`, and
   n blank ones are made below. *)
ScrollUp(g, n, limit) ==
  LET back == Least(g.back + n, limit)
  IN [lines |-> KeepLast(g.lines \o Minted(g, n), back + Height(g)),
      back |-> back, next |-> g.next + n]

(* The rows under the cursor go first - `below` of them -, then the top ones,
   which become history. *)
Shrink(g, height, below, limit) ==
  LET gone == Least(Height(g) - height, below)
      back == Least(g.back + Height(g) - height - gone, limit)
      held == SubSeq(g.lines, 1, Len(g.lines) - gone)
  IN [g EXCEPT !.lines = KeepLast(held, back + height), !.back = back]

(* A grid of its own takes rows back from scrollback before it makes blank ones;
   one that somebody else restates leaves scrollback alone. *)
Grow(g, height, restated) ==
  LET back == IF restated THEN g.back ELSE g.back - Least(height - Height(g), g.back)
      more == back + height - Len(g.lines)
  IN [lines |-> g.lines \o Minted(g, more), back |-> back, next |-> g.next + more]

Resized(g, height, below, limit, restated) ==
  IF height < Height(g) THEN Shrink(g, height, below, limit)
  ELSE IF height > Height(g) THEN Grow(g, height, restated) ELSE g

WithoutHistory(g) == [g EXCEPT !.lines = Screen(g), !.back = 0]

(* Every history row named, back to the newest one older than all that is named. *)
DropHistory(g, named) ==
  LET old(i) == \A id \in named : g.lines[i].id < id
      kept == {i \in 1..g.back : \/ g.lines[i].id \notin named
                                 \/ \E j \in i..g.back : old(j)}
  IN [g EXCEPT !.lines = Picked(g.lines, kept) \o Screen(g), !.back = Cardinality(kept)]

(* As much of `rows` as there is room for, the newest of it. *)
Prepend(g, rows, limit) ==
  LET room == IF g.back < limit THEN limit - g.back ELSE 0
      take == Least(Len(rows), room)
  IN [g EXCEPT !.lines = KeepLast(rows, take) \o @, !.back = @ + take]
=============================================================================
