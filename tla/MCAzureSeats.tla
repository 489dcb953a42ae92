---------------------------- MODULE MCAzureSeats ----------------------------
EXTENDS AzureSeats, TLC
Symm == Permutations(Groups) \cup Permutations(Invites) \cup Permutations(Requests)
=============================================================================
