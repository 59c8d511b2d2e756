---------------------------- MODULE VectorIndex ----------------------------
(***************************************************************************)
(* What may be in the vector index, and when: all that a reader of the     *)
(* index can count on.                                                     *)
(*                                                                         *)
(* An entry gets a point only after a worker has seen it live, as often as *)
(* it is edited and its task delivered; the point may come when the entry  *)
(* is long gone, or never.  A point goes only when its entry is gone, or   *)
(* stays.  Requests, broker, retries and the content a point was computed  *)
(* from are left out.  EmbeddingPipeline implements this specification;    *)
(* RecallRetrieval reads the index it describes.                           *)
(***************************************************************************)
CONSTANTS Logs, Contexts, None

VARIABLES
    contexts,  \* contexts that exist
    rows,      \* table log_entries
    inflight,  \* entries some worker has loaded and not yet upserted
    points     \* entries with a point in the collection

vars == <<contexts, rows, inflight, points>>

Row == [phase : {"absent", "live", "deleted", "purged"},
        ctx   : Contexts \cup {None}]

Init ==
    /\ contexts = Contexts
    /\ rows     = [l \in Logs |-> [phase |-> "absent", ctx |-> None]]
    /\ inflight = {}
    /\ points   = {}

CreateLog(l, c) ==
    /\ c \in contexts
    /\ rows[l].phase = "absent"
    /\ rows' = [rows EXCEPT ![l] = [phase |-> "live", ctx |-> c]]
    /\ UNCHANGED <<contexts, inflight, points>>

DeleteLog(l) ==
    /\ rows[l].phase = "live"
    /\ rows' = [rows EXCEPT ![l].phase = "deleted"]
    /\ UNCHANGED <<contexts, inflight, points>>

\* The cascade takes every row of the context, those deleted before included.
DeleteContext(c) ==
    /\ c \in contexts
    /\ contexts' = contexts \ {c}
    /\ rows' = [l \in Logs |->
                  IF rows[l].phase \in {"live", "deleted"} /\ rows[l].ctx = c
                  THEN [rows[l] EXCEPT !.phase = "purged"]
                  ELSE rows[l]]
    /\ UNCHANGED <<inflight, points>>

\* A worker starts the task of an entry that was created or edited.
LoadEntry(l) ==
    /\ rows[l].phase = "live"
    /\ inflight' = inflight \cup {l}
    /\ UNCHANGED <<contexts, rows, points>>

\* By id alone: the row is not looked at again.  Another worker may still hold
\* the entry.
Upsert(l) ==
    /\ l \in inflight
    /\ inflight' \in {inflight, inflight \ {l}}
    /\ points' = points \cup {l}
    /\ UNCHANGED <<contexts, rows>>

\* The worker dies, or its upsert raises.
UpsertFails(l) ==
    /\ l \in inflight
    /\ inflight' = inflight \ {l}
    /\ UNCHANGED <<contexts, rows, points>>

\* The task of a deletion; the context may have gone before it runs.
Unindex(l) ==
    /\ rows[l].phase \in {"deleted", "purged"}
    /\ l \in points
    /\ points' = points \ {l}
    /\ UNCHANGED <<contexts, rows, inflight>>

Next ==
    \/ \E l \in Logs : \/ \E c \in Contexts : CreateLog(l, c)
                       \/ DeleteLog(l) \/ LoadEntry(l) \/ Upsert(l)
                       \/ UpsertFails(l) \/ Unindex(l)
    \/ \E c \in Contexts : DeleteContext(c)

Spec == Init /\ [][Next]_vars
=============================================================================
