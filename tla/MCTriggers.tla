------------------------------ MODULE MCTriggers ------------------------------
EXTENDS Triggers, TLC
TriggersSymmetry == Permutations(Roots) \cup Permutations(Nodes)
================================================================================
