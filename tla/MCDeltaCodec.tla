---------------------------- MODULE MCDeltaCodec ----------------------------
(* Small instances of DeltaCodec: how high the screens are and what may happen. *)
EXTENDS DeltaCodec

Life(heights, first, may, most) ==
  [heights |-> heights, first |-> first, may |-> may, deeds |-> most]

Lives == {Life({2, 3}, 3, AllDeeds, 3), Life({2}, 2, {"alt", "clear"}, 5),
          Life({2, 3}, 3, {"resize"}, 5), Life({2, 3}, 2, {"page", "resize", "attach"}, 4),
          Life({2}, 2, {"page", "clear"}, 4)}
Scrolling == {Life({2}, 2, {}, 4)}
Switching == {Life({2}, 2, {"alt"}, 4)}
Padding == {Life({1, 2}, 1, {"alt", "resize"}, 6)}
=============================================================================
