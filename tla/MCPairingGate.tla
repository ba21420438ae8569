--------------------------- MODULE MCPairingGate ---------------------------
(* Small instances of PairingGate. *)
EXTENDS PairingGate

OneDevice == [c \in Conns |-> "phone"]
OnePeer == [c \in Conns |-> "lan"]

Does(dial, watch, others, may) ==
  [dial |-> dial, watch |-> watch, others |-> others, may |-> may]
(* One client that does anything, answered at a window or at the terminal; a
   device that asks twice; two connections for one free slot. *)
Several ==
  {Does({"a"}, {"w"}, 0, may) : may \in {{"stall", "leave", "bad"}, {"stall", "again"},
                                        {"stall", "leave", "type"}, {"stall", "storefails"}}}
  \cup {Does({"a", "b"}, {"w"}, 0, {"leave"}), Does({"a", "b"}, {"w"}, 0, {"type"}),
        Does({"a", "b"}, {}, 0, {"type", "leave"}),
        Does({"a", "b"}, {}, 1, {"stall", "leave", "bad", "cool"})}
=============================================================================
