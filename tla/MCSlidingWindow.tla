-------------------------- MODULE MCSlidingWindow --------------------------
(***************************************************************************)
(* SlidingWindow for TLC, with mixed rounding: for one count, an integral  *)
(* weighted count comes out low at one time of the window and not at a     *)
(* later one, as 100 * (1 - 0.9) does and 100 * (1 - 0.95) does not.  (In  *)
(* binary64 that takes longer windows than TLC can run; the sets stand for *)
(* what those do.)                                                         *)
(***************************************************************************)
EXTENDS SlidingWindow

MixedDown == {<<4, 1>>, <<2, 2>>}
MixedUp == {<<4, 2, 1>>, <<3, 1, 3>>}
Exact == {}
=============================================================================
