------------------------- MODULE MCSessionRegistry -------------------------
(* Small instances of SessionRegistry: who may ask for what, and how often. *)
EXTENDS SessionRegistry

(* The asks and the number of operations of "a" and of "b". *)
Two(asksA, opsA, asksB, opsB, watching, moves) ==
  [watching |-> watching, facts |-> moves,
   asks |-> [c \in {"a", "b"} |-> IF c = "a" THEN asksA ELSE asksB],
   ops |-> [c \in {"a", "b"} |-> IF c = "a" THEN opsA ELSE opsB]]

OwnerAndGuest ==
  Two({"create", "attach", "detach", "close"}, 4, {"attach", "leave"}, 2, {}, 0)
Lister == Two({"create", "attach", "list"}, 3, {}, 0, {"a"}, 2)
TwoVisitors == {Two({"create", "attach"}, 3, {"attach", "leave"}, 3, {}, 0)}

GuestsAndListings == {OwnerAndGuest, Lister}
=============================================================================
