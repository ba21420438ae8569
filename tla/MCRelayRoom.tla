---------------------------- MODULE MCRelayRoom ----------------------------
(* Small instances of RelayRoom: what may happen to the room. *)
EXTENDS RelayRoom

OneTicket == [a \in {1, 2} |-> "t"]
Room(dials, browsers, deed) == [links |-> dials, attach |-> browsers, may |-> deed]

(* The presence of a daemon that redials, sleeps and dies with the room; one
   ticket presented twice; faults of storage and of D1; the life of a pipe; and,
   in one stretch of time, an attach while links take each other's place. *)
Rooms == {
  Room(2, {}, {"time", "lose", "sleep"}),
  Room(2, {}, {"time", "lose", "bad", "crash", "dbfails", "storagefails"}),
  Room(1, {1, 2}, {"time", "leave"}),
  Room(1, {1, 2}, {"time", "crash"}),
  Room(1, {1}, {"time", "lose", "leave", "dbfails", "storagefails", "bad"}),
  Room(1, {1}, {"leave", "flood", "busy"}),
  Room(2, {1}, {"lose", "leave", "crash"})}
===========================================================================
