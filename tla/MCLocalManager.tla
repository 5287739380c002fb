--------------------------- MODULE MCLocalManager ---------------------------
(* Instances of LocalManager for TLC. *)
EXTENDS LocalManager, TLC

Symmetry == Permutations(Email)
=============================================================================
