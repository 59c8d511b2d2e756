---------------------------- MODULE MCLogUpdates ----------------------------
EXTENDS LogUpdates, TLC

\* Every list of at most two tags.
ShortLists == UNION {[1 .. n -> Tags] : n \in 0 .. 2}

\* Sound: no liveness property is checked with it.
Symmetry == Permutations(Requests) \cup Permutations(Tags)
=============================================================================
