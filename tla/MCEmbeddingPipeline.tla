------------------------ MODULE MCEmbeddingPipeline ------------------------
EXTENDS EmbeddingPipeline, TLC

\* Requests and workers are interchangeable; so are the entries.  Sound for
\* the runs without liveness properties only.
Symmetry == Permutations(Requests) \cup Permutations(Workers) \cup Permutations(Logs)
=============================================================================
