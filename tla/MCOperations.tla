---------------------------- MODULE MCOperations ----------------------------
(* Two requests at a time, either of payments or on one destination. *)
EXTENDS Operations, TLC

Symmetry == Permutations(Ids)
=============================================================================
