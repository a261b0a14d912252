-------------------------- MODULE MCRefreshTokens --------------------------
EXTENDS RefreshTokens, TLC

Symmetry == Permutations(Tokens) \cup Permutations(Requests)
=============================================================================
