---------------------------- MODULE MCAppBuilds ----------------------------
EXTENDS AppBuilds, TLC
Symmetric == Permutations(Isolate)
=============================================================================
