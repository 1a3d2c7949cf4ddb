------------------------------ MODULE MCServer ------------------------------
EXTENDS Server, TLC

ConnSymmetry == Permutations(Conns)
=============================================================================
