------------------------------- MODULE MCPool -------------------------------
(* Small instances of Pool. *)
EXTENDS Pool, TLC

Symmetry == Permutations(Conns) \cup Permutations(Items)
=============================================================================
