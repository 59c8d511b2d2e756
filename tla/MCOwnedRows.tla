----------------------------- MODULE MCOwnedRows -----------------------------
EXTENDS OwnedRows, TLC

\* Sound: no liveness property is checked with it.  Names are told apart by Samples.
Symmetry == Permutations(Requests) \cup Permutations(Users) \cup Permutations(Ids)
=============================================================================
