---------------------------- MODULE SharedScreen ----------------------------
(***************************************************************************)
(* What a session promises the people who watch it, with no threads, locks *)
(* or messages: the host shows one screen after another and never rewrites *)
(* one it has shown, and whoever watches looks at one of those screens,    *)
(* whole and at the size it was shown at, or at nothing.                   *)
(*                                                                         *)
(* It does not promise the latest screen (that is SessionSync's liveness)  *)
(* nor that a watcher only moves forward: a keyframe that answers a        *)
(* request may arrive behind output that is newer than it.                 *)
(***************************************************************************)
EXTENDS Naturals

CONSTANTS
  Watchers,
  Nothing     \* what a watcher without a replica looks at

VARIABLES
  shown,      \* the screens the host has shown, by sequence
  seen        \* [Watchers -> what each looks at]: Nothing or [at, screen]

vars == <<shown, seen>>

Init ==
  /\ DOMAIN shown = {0}
  /\ seen = [w \in Watchers |-> Nothing]

(* The host shows newer screens; the ones already shown stay what they were. *)
Extends(new, old) ==
  /\ DOMAIN old \subseteq DOMAIN new
  /\ \A q \in DOMAIN old : new[q] = old[q]
  /\ \A q \in DOMAIN new \ DOMAIN old : \A r \in DOMAIN old : q > r

LooksAt(what, screens) ==
  \/ what = Nothing
  \/ \E q \in DOMAIN screens : what = [at |-> q, screen |-> screens[q]]

(* One watcher looks elsewhere, or away; the host may show more meanwhile. *)
Next ==
  /\ Extends(shown', shown)
  /\ \/ UNCHANGED seen
     \/ \E w \in Watchers :
          /\ LooksAt(seen'[w], shown')
          /\ seen' = [seen EXCEPT ![w] = seen'[w]]

Spec == Init /\ [][Next]_vars
=============================================================================
