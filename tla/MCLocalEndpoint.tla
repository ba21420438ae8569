-------------------------- MODULE MCLocalEndpoint --------------------------
(* Small instances of LocalEndpoint: what is launched and what may happen. *)
EXTENDS LocalEndpoint

Scene(a, b, c, deeds) ==
  [kind |-> [p \in {1, 2, 3} |-> IF p = 1 THEN a ELSE IF p = 2 THEN b ELSE c], may |-> deeds]

AllScenes == {
  Scene("window", "window", "window", {"kill", "stale", "broken"}),
  Scene("plain", "plain", "plain", {"kill", "stale"}),
  Scene("plain", "plain", "separate", {"quit", "broken"}),
  Scene("plain", "profile", "plain", {"quit", "otherbuild"})}
===========================================================================
