--------------------------- MODULE MCCommunities ---------------------------
EXTENDS Communities, TLC

Symmetry == Permutations(Users) \cup Permutations(Channels) \cup Permutations(Requests)
=============================================================================
