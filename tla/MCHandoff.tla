------------------------------ MODULE MCHandoff ------------------------------
EXTENDS Handoff, TLC
Symmetry == Permutations(Acks)
=============================================================================
