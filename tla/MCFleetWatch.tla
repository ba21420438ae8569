---------------------------- MODULE MCFleetWatch ----------------------------
(* Small instances of FleetWatch: where the hosts are and what may happen. *)
EXTENDS FleetWatch

Life(hosts, queries, asks, moves, troubles, may, ways) ==
  [hosts |-> hosts, queries |-> queries, asks |-> asks, moves |-> moves,
   troubles |-> troubles, may |-> may, ways |-> ways]

Lan == {{}, {"lan"}}
Both == SUBSET Routes

Fleets == {
  Life({"a"}, {"x", "y"}, 3, 3, 2, {"breaks", "push"}, Lan),
  Life({"a"}, {"x"}, 1, 3, 1, {"nokey", "nothread"}, Both),
  Life({"a"}, {"x"}, 2, 2, 2, {"old", "breaks"}, Lan),
  Life({"a", "b"}, {"x"}, 1, 1, 1, {"push"}, Lan)}

Routing == {Life({"a"}, {}, 0, 1, 0, {}, Both)}
Counting == {Life({"a", "b"}, {"x"}, 1, 0, 1, {"breaks"}, {{"lan"}})}
Upgrading == {Life({"a"}, {"x"}, 1, 2, 1, {"old"}, Lan)}
=============================================================================
