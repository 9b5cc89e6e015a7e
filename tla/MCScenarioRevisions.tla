------------------------ MODULE MCScenarioRevisions ------------------------
EXTENDS ScenarioRevisions, TLC

Symmetry == Permutations(Threads) \cup Permutations(Definitions)
=============================================================================
