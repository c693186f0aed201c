------------------------ MODULE MCProjectContainers ------------------------
(* Small instances of ProjectContainers. *)
EXTENDS ProjectContainers, TLC
ContainersSymmetry == Permutations(Calls)
=============================================================================
