-------------------------- MODULE MCAdministration --------------------------
EXTENDS Administration, TLC

Symmetry == Permutations(Admins) \cup Permutations(Notes) \cup Permutations(Requests)
=============================================================================
