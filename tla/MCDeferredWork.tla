--------------------------- MODULE MCDeferredWork ---------------------------
(* Small instances of DeferredWork: what is asked, and what may go wrong. *)
EXTENDS DeferredWork

Scene(asks, trouble) == [asks |-> asks, may |-> trouble]
Connections == {
  Scene({"diff"}, {}),
  Scene({"file", "search"}, {"nohistory"}),
  Scene({"diff", "enroll"}, {"nothread"}),
  Scene({"search", "enroll"}, {"leave"}),
  Scene({"enroll"}, {"remote"})}
=============================================================================
