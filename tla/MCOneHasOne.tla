---------------------------- MODULE MCOneHasOne ----------------------------
EXTENDS OneHasOne, TLC
Symmetry == Permutations(Owners) \cup Permutations(Inverses)
=============================================================================
