----------------------------- MODULE MCMailing -----------------------------
(* An instance of Mailing for TLC. *)
EXTENDS Mailing, TLC

\* No template, one or both, of different files; a From address alone, or in the
\* Configs that set a body.
VariedSettings ==
    {set \in AllSettings : /\ set.subject = Nil \/ set.subject # set.body
                           /\ set.body # Nil => set.from # Nil
                           /\ set.body = Nil /\ set.subject # Nil => set.from = Nil}

Symmetry == Permutations(Managers) \cup Permutations(Configs) \cup Permutations(Path)
=============================================================================
