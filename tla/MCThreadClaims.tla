---------------------------- MODULE MCThreadClaims ----------------------------
EXTENDS ThreadClaims, TLC

Symmetry == Permutations(Workers) \cup Permutations(ClaimKeys) \cup Permutations(UpdateKeys)
=============================================================================
