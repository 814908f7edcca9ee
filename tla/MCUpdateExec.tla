---------------------------- MODULE MCUpdateExec ----------------------------
EXTENDS UpdateExec, TLC

Symmetry == Permutations(Sessions)
=============================================================================
