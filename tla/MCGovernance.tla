----------------------------- MODULE MCGovernance -----------------------------
EXTENDS Governance, TLC

Symmetry == Permutations(Candidates) \cup Permutations(Threads) \cup Permutations(Texts)
=============================================================================
