---------------------------- MODULE MCNetworkTask ----------------------------
EXTENDS NetworkTask, TLC
Symmetry == Permutations(Readings)
=============================================================================
