--------------------------- MODULE MCStateReaper ---------------------------
(***************************************************************************)
(* Instances of StateReaper for TLC: a batch of one, two ids, and one or   *)
(* two passes at a time.                                                   *)
(***************************************************************************)
EXTENDS StateReaper, TLC

Symmetry == Permutations(Ids) \cup Permutations(Passes)
=============================================================================
