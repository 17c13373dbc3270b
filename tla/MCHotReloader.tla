--------------------------- MODULE MCHotReloader ---------------------------
(***************************************************************************)
(* HotReloader for TLC: policy texts are interchangeable, and so are the   *)
(* admin connections.  The safety runs use the symmetry, the liveness runs *)
(* do not.                                                                 *)
(***************************************************************************)
EXTENDS HotReloader, TLC

Symmetry == Permutations(Contents) \cup Permutations(Admins)
=============================================================================
