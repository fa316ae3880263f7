---------------------------- MODULE MC_Campaign ----------------------------
EXTENDS Campaign, TLC
(***************************************************************************)
(* Two threads play two games a seed; one game of the first seed is kept   *)
(* for validation.  A phase may take four seconds, one step costs the      *)
(* credit of one training game, and the window holds fewer records than    *)
(* two shards.                                                             *)
(***************************************************************************)
MC_Validation == {<<1, 1>>}
MC_Symmetry == Permutations(Threads)
=============================================================================
