--------------------------- MODULE MCHrCandidate ---------------------------
EXTENDS HrCandidate, TLC
Symm == Permutations(HrRequests)
=============================================================================
