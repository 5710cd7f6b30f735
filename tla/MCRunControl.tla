---------------------------- MODULE MCRunControl ----------------------------
EXTENDS RunControl, TLC

Symmetry == Permutations(Requests)
=============================================================================
