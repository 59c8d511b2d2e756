-------------------------- MODULE MCRefreshTokens --------------------------
EXTENDS RefreshTokens, TLC

\* Sound: no liveness property is checked with it.
Symmetry == Permutations(Requests)
=============================================================================
