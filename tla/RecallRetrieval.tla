--------------------------- MODULE RecallRetrieval ---------------------------
(***************************************************************************)
(* What a recall query reads: the vector collection and the log entries.   *)
(*                                                                         *)
(* run_recall_query (app/ai/rag_pipeline.py) searches Qdrant and only then *)
(* reads the rows of the hits from PostgreSQL; between the two, and before *)
(* them, entries are deleted, contexts go with their rows, and workers     *)
(* write and remove points late or never.  The collection itself is built  *)
(* call by call by every API process that starts (ensure_collection, from  *)
(* the lifespan of app/main.py).                                           *)
(*                                                                         *)
(* VectorIndex says what may be in the collection and when; that the       *)
(* workers of EmbeddingPipeline keep to it is a theorem there.  What a     *)
(* point was computed from does not matter to a query, whose ranking is    *)
(* left open.                                                              *)
(***************************************************************************)
EXTENDS Naturals, FiniteSets

CONSTANTS
    Logs,        \* ids of log entries
    Contexts,    \* contexts of all users
    Users,
    Owner,       \* Owner[c] is the user of context c
    Queries,     \* the recall queries of a behaviour
    Apis,        \* API processes; two overlap while one replaces the other
    TopK,        \* _TOP_K (8 in the code)
    MaxFaults,   \* bound: crashes of an API process and failed set-up calls
    None

ASSUME RetrievalAssumption ==
    /\ IsFiniteSet(Logs)
    /\ Owner \in [Contexts -> Users]
    /\ None \notin Contexts
    /\ TopK \in Nat \ {0}
    /\ MaxFaults \in Nat

VARIABLES
    contexts,    \* contexts that exist
    rows,        \* table log_entries
    inflight,    \* entries a worker has loaded and not yet upserted
    points,      \* entries with a point in the collection
    collection,  \* what exists of the collection: the vectors and its indices
    apis,        \* how far each API process got
    queries,
    faults

vars == <<contexts, rows, inflight, points, collection, apis, queries, faults>>

Index == INSTANCE VectorIndex

entries == <<contexts, rows, inflight, points>>

Parts == {"vectors", "user_id", "context_id"}
Query == [pc : {"idle", "asked", "searched", "read", "done"},
          api     : Apis \cup {None},
          ctx     : Contexts \cup {None},
          hits    : {S \in SUBSET Logs : Cardinality(S) <= TopK},  \* of the search
          sources : SUBSET Logs,   \* whose content went into the prompt
          dead    : SUBSET Logs,   \* history: deleted before the query began
          steady  : SUBSET Logs]   \* history: live and searchable ever since

TypeOK ==
    /\ contexts   \in SUBSET Contexts
    /\ rows       \in [Logs -> Index!Row]
    /\ inflight   \in SUBSET Logs
    /\ points     \in SUBSET Logs
    /\ collection \in SUBSET Parts
    /\ apis       \in [Apis -> {"down", "listing", "creating", "index_user",
                                "index_context", "up", "degraded"}]
    /\ queries    \in [Queries -> Query]
    /\ faults     \in 0..MaxFaults

Idle == [pc |-> "idle", api |-> None, ctx |-> None, hits |-> {}, sources |-> {},
         dead |-> {}, steady |-> {}]
Finished == [Idle EXCEPT !.pc = "done"]

Init ==
    /\ Index!Init
    /\ collection = {}
    /\ apis       = [a \in Apis |-> "down"]
    /\ queries    = [q \in Queries |-> Idle]
    /\ faults     = MaxFaults

Live(l)    == rows[l].phase = "live"
Serving(a) == apis[a] \in {"up", "degraded"}
Open(q)    == queries[q].pc \in {"asked", "searched", "read"}

Fault == /\ faults > 0
         /\ faults' = faults - 1

\* History: the entries gone are no longer there for the queries under way.
Unsteady(gone) ==
    queries' = [q \in Queries |-> IF queries[q].pc \in {"asked", "searched"}
                                  THEN [queries[q] EXCEPT !.steady = @ \ gone]
                                  ELSE queries[q]]

-----------------------------------------------------------------------------
(* An API process starts.  Each call to Qdrant is a step.                  *)

Advance(a, from, to) ==
    /\ apis[a] = from
    /\ apis' = [apis EXCEPT ![a] = to]

Start(a) ==
    /\ Advance(a, "down", "listing")
    /\ UNCHANGED <<entries, collection, queries, faults>>

\* A collection that exists is taken to be complete.
ListCollections(a) ==
    /\ Advance(a, "listing", IF "vectors" \in collection THEN "up" ELSE "creating")
    /\ UNCHANGED <<entries, collection, queries, faults>>

CreateCollection(a) ==
    /\ "vectors" \notin collection
    /\ Advance(a, "creating", "index_user")
    /\ collection' = collection \cup {"vectors"}
    /\ UNCHANGED <<entries, queries, faults>>

\* Faulty variant: serving starts once the first index is there.
CreateIndexOnce(a) ==
    /\ Advance(a, "index_user", "up")
    /\ collection' = collection \cup {"user_id"}
    /\ UNCHANGED <<entries, queries, faults>>

CreateIndex(a) ==
    /\ \/ /\ Advance(a, "index_user", "index_context")
          /\ collection' = collection \cup {"user_id"}
       \/ /\ Advance(a, "index_context", "up")
          /\ collection' = collection \cup {"context_id"}
    /\ UNCHANGED <<entries, queries, faults>>

\* Another process created the collection meanwhile: creating it again raises,
\* the lifespan logs the error and goes on to serve.
CreateConflicts(a) ==
    /\ "vectors" \in collection
    /\ Advance(a, "creating", "degraded")
    /\ UNCHANGED <<entries, collection, queries, faults>>

\* Qdrant does not answer a call of the set-up.
SetUpFails(a) ==
    /\ Fault
    /\ apis[a] \in {"listing", "creating", "index_user", "index_context"}
    /\ apis' = [apis EXCEPT ![a] = "degraded"]
    /\ UNCHANGED <<entries, collection, queries>>

\* A crash or a stop takes the queries of the process with it.
Crash(a) ==
    /\ Fault
    /\ apis[a] # "down"
    /\ apis' = [apis EXCEPT ![a] = "down"]
    /\ queries' = [q \in Queries |->
                     IF Open(q) /\ queries[q].api = a
                     THEN Finished ELSE queries[q]]
    /\ UNCHANGED <<entries, collection>>

-----------------------------------------------------------------------------
(* Entries and their points.                                               *)

CreateLog(l, c) ==
    /\ \E a \in Apis : Serving(a)
    /\ Index!CreateLog(l, c)
    /\ UNCHANGED <<collection, apis, queries, faults>>

DeleteLog(l) ==
    /\ \E a \in Apis : Serving(a)
    /\ Index!DeleteLog(l)
    /\ Unsteady({l})
    /\ UNCHANGED <<collection, apis, faults>>

DeleteContext(c) ==
    /\ \E a \in Apis : Serving(a)
    /\ Index!DeleteContext(c)
    /\ Unsteady({l \in Logs : rows[l].ctx = c})
    /\ UNCHANGED <<collection, apis, faults>>

\* Without a collection every upsert raises.
Work(l) ==
    /\ \/ Index!LoadEntry(l)
       \/ Index!Upsert(l) /\ "vectors" \in collection
       \/ Index!UpsertFails(l)
       \/ Index!Unindex(l)
    /\ UNCHANGED <<collection, apis, queries, faults>>

-----------------------------------------------------------------------------
(* A recall query.                                                         *)

\* The payload of a point: that of its row, whose owner and context never change.
Belongs(l, c) == /\ Owner[rows[l].ctx] = Owner[c]
                 /\ rows[l].ctx = c

\* The route and recall_query let a user ask in a context of his own only.
Ask(q, a, c) ==
    /\ queries[q].pc = "idle"
    /\ Serving(a)
    /\ c \in contexts
    /\ queries' = [queries EXCEPT ![q] =
         [Idle EXCEPT !.pc = "asked", !.api = a, !.ctx = c,
                      !.dead   = {l \in Logs : rows[l].phase \in {"deleted", "purged"}},
                      !.steady = {l \in points : Live(l) /\ rows[l].ctx = c}]]
    /\ UNCHANGED <<entries, collection, apis, faults>>

\* The nearest of the points given, by an order that is left open.
Nearest(found, k) ==
    {S \in SUBSET found : Cardinality(S) = IF Cardinality(found) < k
                                           THEN Cardinality(found) ELSE k}

\* Faulty variant: the filter is given the user and not the context.
HitsOfUser(c) ==
    Nearest({l \in points : Owner[rows[l].ctx] = Owner[c]}, TopK)

\* Faulty variant: the hits are filtered after the nearest ones were taken.
HitsFilteredLate(c) ==
    {{l \in S : Belongs(l, c)} : S \in Nearest(points, TopK)}

\* Faulty variant: the limit of the search is left out.
HitsUnlimited(c) == {{l \in points : Belongs(l, c)}}

Hits(c) == Nearest({l \in points : Belongs(l, c)}, TopK)

Search(q) ==
    /\ queries[q].pc = "asked"
    /\ "vectors" \in collection
    /\ \E S \in Hits(queries[q].ctx) :
         queries' = [queries EXCEPT ![q].pc = "searched", ![q].hits = S]
    /\ UNCHANGED <<entries, collection, apis, faults>>

\* Faulty variant: is_deleted is left out of the query.
FoundDeleted(c) ==
    {l \in Logs : rows[l].phase \in {"live", "deleted"} /\ Owner[rows[l].ctx] = Owner[c]}

Found(c) == {l \in Logs : Live(l) /\ Owner[rows[l].ctx] = Owner[c]}

\* One SELECT for all hits; a hit whose row is not found is skipped.
Read(q) ==
    /\ queries[q].pc = "searched"
    /\ queries' = [queries EXCEPT ![q].pc = "read",
                     ![q].sources = queries[q].hits \cap Found(queries[q].ctx)]
    /\ UNCHANGED <<entries, collection, apis, faults>>

\* The answer of the model goes out with the ids of the sources as they were
\* read; nothing looks at them again.
Answer(q) ==
    /\ queries[q].pc = "read"
    /\ queries' = [queries EXCEPT ![q] = Finished]
    /\ UNCHANGED <<entries, collection, apis, faults>>

\* Embedding the question, Qdrant or the model fails; a search without a
\* collection always does.
QueryFails(q) ==
    /\ Open(q)
    /\ queries' = [queries EXCEPT ![q] = Finished]
    /\ UNCHANGED <<entries, collection, apis, faults>>

-----------------------------------------------------------------------------
SetUp ==
    \E a \in Apis : \/ Start(a) \/ ListCollections(a) \/ CreateCollection(a)
                    \/ CreateIndex(a) \/ CreateConflicts(a) \/ SetUpFails(a)
                    \/ Crash(a)

Indexing ==
    \E l \in Logs : \/ \E c \in Contexts : CreateLog(l, c)
                    \/ DeleteLog(l) \/ Work(l)

Recall ==
    \E q \in Queries : \/ \E a \in Apis, c \in Contexts : Ask(q, a, c)
                       \/ Search(q) \/ Read(q) \/ Answer(q) \/ QueryFails(q)

Next == \/ SetUp \/ Indexing \/ Recall
        \/ \E c \in Contexts : DeleteContext(c)

Spec == Init /\ [][Next]_vars

-----------------------------------------------------------------------------
(* Properties.                                                             *)

\* An entry that was deleted, or went with its context, before the query began
\* never reaches the prompt or the list of sources, even where its point is
\* still in the collection or was written again by a late worker.
DeletedNeverCited ==
    \A q \in Queries : queries[q].sources \cap queries[q].dead = {}

\* The sources of an answer all lie in the context the question was asked in,
\* and so belong to the user who asked, whatever else was searched or indexed
\* meanwhile.
CitedAsAsked ==
    \A q \in Queries : \A l \in queries[q].sources : Belongs(l, queries[q].ctx)

\* An entry of the context that was live and in the index all through the query
\* is left out only where the search returned TopK hits: points of deleted
\* entries can take places, but no entry is lost to those of another context.
MissedOnlyWhenFull ==
    \A q \in Queries : queries[q].pc = "read" =>
        \/ queries[q].steady \subseteq queries[q].sources
        \/ Cardinality(queries[q].hits) = TopK

\* A process that came up without an error finds the collection with both its
\* indices, or another process is just now building them: overlapping starts
\* leave nothing out.  Only a crash or an error half-way does, and then for
\* good, since the next start takes the collection to be complete.
IndicesAfterStart ==
    (faults = MaxFaults /\ \E a \in Apis : apis[a] = "up") =>
        \/ collection = Parts
        \/ \E a \in Apis : apis[a] \in {"index_user", "index_context"}
=============================================================================
