-------------------------- MODULE MCRecallRetrieval --------------------------
(* Two users; the first has two contexts.                                  *)
EXTENDS RecallRetrieval, TLC

CONSTANTS l1, l2, c1, c2, c3, u1, u2, a1, a2

MCOwner  == c1 :> u1 @@ c2 :> u1 @@ c3 :> u2
\* Owner does not tell c1 from c2.
Symmetry == Permutations(Logs) \cup Permutations(Apis) \cup Permutations({c1, c2})
=============================================================================
