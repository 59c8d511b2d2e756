--------------------------- MODULE MCRecallQuota ---------------------------
EXTENDS RecallQuota, TLC

\* Sound: no liveness property is checked with it.
Symmetry == Permutations(Requests) \cup Permutations(Addresses)
=============================================================================
