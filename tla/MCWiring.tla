------------------------------ MODULE MCWiring ------------------------------
(* An instance of Wiring for TLC. *)
EXTENDS Wiring, TLC

Symmetry == Permutations(Managers) \cup Permutations(Configs)
            \cup Permutations(Handlers) \cup Permutations(Storages)
=============================================================================
