----------------------------- MODULE MCAfmWriter -----------------------------
EXTENDS AfmWriter, TLC

Symmetry == Permutations(Candidates) \cup Permutations(Compiles)
=============================================================================
