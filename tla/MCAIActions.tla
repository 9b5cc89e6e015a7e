---------------------------- MODULE MCAIActions ----------------------------
EXTENDS AIActions, TLC

Symmetry == Permutations(Actions) \cup Permutations(Requests)
=============================================================================
