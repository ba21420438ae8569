--------------------------- MODULE MCSessionSync ---------------------------
(* Small instances of SessionSync: which client programs are connected, and how
   often each of them acts. *)
EXTENDS SessionSync

AppAndWeb == [c \in {"a", "w"} |-> IF c = "a" THEN "app" ELSE "web"]
OneApp    == [c \in {"a"} |-> "app"]
OneMcp    == [c \in {"m"} |-> "mcp"]

Acts(app, web) == [c \in {"a", "w"} |-> IF c = "a" THEN app ELSE web]
BothOrOne == {Acts(1, 1), Acts(2, 0), Acts(0, 2)}
OneAtATime == {Acts(1, 0), Acts(0, 1)}
AppOnce == {[c \in {"a"} |-> 1]}
McpTwice == {[c \in {"m"} |-> 2]}
============================================================================
