------------------------ MODULE RecallRetrievalProofs ------------------------
(***************************************************************************)
(* What an answer cites, and how the collection comes about, for any       *)
(* number of entries, contexts, users, queries and API processes.          *)
(*                                                                         *)
(* The ground is that an entry never changes its context and never comes   *)
(* back once deleted: so what the search matched by a point still matches  *)
(* the row when it is read, and what was gone when the query began is not  *)
(* found by the SELECT.                                                    *)
(***************************************************************************)
EXTENDS RecallRetrieval, FiniteSetTheorems, TLAPS

\* A row has no context before it is there.
RowInv == \A l \in Logs : rows[l].phase = "absent" => rows[l].ctx = None

\* What one query knows: the hits and the sources are the context's, what was
\* gone is still gone, and what is steady can still be found.
QueryInvOf(q) ==
    LET query == queries[q]
    IN  /\ query.pc \in {"asked", "searched", "read"} => query.ctx \in Contexts
        /\ query.pc \notin {"asked", "searched", "read"} => query.dead = {}
        /\ query.pc \notin {"searched", "read"} => query.hits = {}
        /\ query.pc # "read" => query.sources = {}
        /\ \A l \in query.hits : Belongs(l, query.ctx)
        /\ query.sources \subseteq query.hits
        /\ \A l \in query.dead : rows[l].phase \in {"deleted", "purged"}
        /\ query.sources \cap query.dead = {}
        /\ query.pc \in {"asked", "searched"} =>
              \A l \in query.steady : Live(l) /\ rows[l].ctx = query.ctx
        /\ query.pc = "asked" => query.steady \subseteq points
        /\ query.pc = "searched" =>
              query.steady \subseteq query.hits \/ Cardinality(query.hits) = TopK
        /\ query.pc = "read" =>
              query.steady \subseteq query.sources \/ Cardinality(query.hits) = TopK

QueryInv == \A q \in Queries : QueryInvOf(q)

\* Without a fault, an index that is missing has a process on its way to it.
SetUpInv ==
    /\ \A a \in Apis : apis[a] \in {"index_user", "index_context"} => "vectors" \in collection
    /\ faults = MaxFaults =>
          /\ \A a \in Apis : apis[a] \in {"up", "degraded"} => "vectors" \in collection
          /\ "vectors" \in collection =>
                \/ collection = Parts
                \/ \E a \in Apis : apis[a] = "index_user"
                \/ "user_id" \in collection /\ \E a \in Apis : apis[a] = "index_context"

IInv == TypeOK /\ RowInv /\ QueryInv /\ SetUpInv

-----------------------------------------------------------------------------
\* The search returns TopK hits, or all there are if they are fewer.
LEMMA NearestOnes ==
    ASSUME NEW found \in SUBSET Logs, NEW S \in Nearest(found, TopK)
    PROVE  /\ S \in SUBSET found
           /\ Cardinality(S) <= TopK
           /\ S = found \/ Cardinality(S) = TopK
<1>1. S \in SUBSET found
  BY DEF Nearest
<1>2. IsFiniteSet(found) /\ IsFiniteSet(S)
  BY <1>1, FS_Subset, RetrievalAssumption
<1>3. Cardinality(found) \in Nat /\ Cardinality(S) \in Nat
  BY <1>2, FS_CardinalityType
<1>4. Cardinality(S) = IF Cardinality(found) < TopK THEN Cardinality(found) ELSE TopK
  BY DEF Nearest
<1>5. Cardinality(S) = Cardinality(found) => S = found
  BY <1>1, <1>2, FS_Subset
<1> QED
  BY <1>1, <1>3, <1>4, <1>5, RetrievalAssumption

\* The hits of a search in context c.
LEMMA HitsOf ==
    ASSUME TypeOK, NEW c \in Contexts, NEW S \in Hits(c)
    PROVE  /\ S \in SUBSET Logs
           /\ Cardinality(S) <= TopK
           /\ \A l \in S : Belongs(l, c)
           /\ Cardinality(S) = TopK \/ \A l \in points \cap Logs : Belongs(l, c) => l \in S
<1> DEFINE found == {l \in points : Belongs(l, c)}
<1>1. found \in SUBSET Logs /\ S \in Nearest(found, TopK)
  BY DEF TypeOK, Hits
<1>2. \A l \in points : Belongs(l, c) => l \in found
  OBVIOUS
<1>3. \A l \in found : Belongs(l, c)
  OBVIOUS
<1> HIDE DEF found
<1>4. /\ S \in SUBSET found
      /\ Cardinality(S) <= TopK
      /\ S = found \/ Cardinality(S) = TopK
  BY <1>1, NearestOnes
<1> QED
  BY <1>1, <1>2, <1>3, <1>4

LEMMA QueryType ==
    ASSUME NEW query \in Query, NEW T \in SUBSET Logs
    PROVE  [query EXCEPT !.steady = T] \in Query
  BY DEF Query

LEMMA IdleType == Idle \in Query /\ Finished \in Query
<1>1. Cardinality({}) <= TopK
  BY FS_EmptySet, RetrievalAssumption
<1> QED
  BY <1>1 DEF Idle, Finished, Query

\* The history of steady entries only shrinks.
LEMMA UnsteadyType ==
    ASSUME TypeOK, NEW gone, Unsteady(gone)
    PROVE  /\ queries' \in [Queries -> Query]
           /\ \A q \in Queries : \E T \in SUBSET queries[q].steady :
                /\ queries'[q] = [queries[q] EXCEPT !.steady = T]
                /\ queries[q].pc \in {"asked", "searched"} => T \cap gone = {}
<1>1. \A q \in Queries : queries[q] \in Query /\ queries[q].steady \in SUBSET Logs
  BY DEF TypeOK, Query
<1>2. ASSUME NEW q \in Queries
      PROVE  \E T \in SUBSET queries[q].steady :
                /\ queries'[q] = [queries[q] EXCEPT !.steady = T]
                /\ queries[q].pc \in {"asked", "searched"} => T \cap gone = {}
  <2>1. CASE queries[q].pc \in {"asked", "searched"}
    <3> WITNESS queries[q].steady \ gone \in SUBSET queries[q].steady
    <3> QED
      BY <2>1 DEF Unsteady
  <2>2. CASE queries[q].pc \notin {"asked", "searched"}
    <3> WITNESS queries[q].steady \in SUBSET queries[q].steady
    <3> QED
      BY <1>1, <2>2 DEF Unsteady, Query
  <2> QED
    BY <2>1, <2>2
<1>3. \A q \in Queries : queries'[q] \in Query
  <2> SUFFICES ASSUME NEW q \in Queries PROVE queries'[q] \in Query
    OBVIOUS
  <2>1. PICK T \in SUBSET Logs : queries'[q] = [queries[q] EXCEPT !.steady = T]
    BY <1>1, <1>2
  <2> QED
    BY <1>1, <2>1, QueryType
<1> QED
  BY <1>2, <1>3 DEF Unsteady

-----------------------------------------------------------------------------
LEMMA TypeInit == Init => TypeOK
  BY IdleType, RetrievalAssumption DEF Init, Index!Init, TypeOK, Index!Row, Parts

\* Every step keeps the types.
LEMMA TypeStep == TypeOK /\ [Next]_vars => TypeOK'
<1> SUFFICES ASSUME TypeOK, [Next]_vars PROVE TypeOK'
  OBVIOUS
<1>1. CASE SetUp
  <2>1. ASSUME NEW a \in Apis, Crash(a) PROVE TypeOK'
    <3>1. queries' \in [Queries -> Query]
      BY <2>1, IdleType DEF TypeOK, Crash
    <3> QED
      BY <2>1, <3>1, RetrievalAssumption DEF TypeOK, Crash, Fault, entries
  <2>2. ASSUME NEW a \in Apis,
               \/ Start(a) \/ ListCollections(a) \/ CreateCollection(a)
               \/ CreateIndex(a) \/ CreateConflicts(a)
        PROVE  TypeOK'
    BY <2>2 DEF TypeOK, Start, ListCollections, CreateCollection, CreateIndex,
                CreateConflicts, Advance, entries, Parts
  <2>3. ASSUME NEW a \in Apis, SetUpFails(a) PROVE TypeOK'
    BY <2>3, RetrievalAssumption DEF TypeOK, SetUpFails, Fault, entries
  <2> QED
    BY <1>1, <2>1, <2>2, <2>3 DEF SetUp
<1>2. CASE Indexing
  <2>1. ASSUME NEW l \in Logs, NEW c \in Contexts, CreateLog(l, c) PROVE TypeOK'
    BY <2>1 DEF TypeOK, CreateLog, Index!CreateLog, Index!Row
  <2>2. ASSUME NEW l \in Logs, DeleteLog(l) PROVE TypeOK'
    <3>1. queries' \in [Queries -> Query]
      BY <2>2, UnsteadyType DEF DeleteLog
    <3> QED
      BY <2>2, <3>1 DEF TypeOK, DeleteLog, Index!DeleteLog, Index!Row
  <2>3. ASSUME NEW l \in Logs, Work(l) PROVE TypeOK'
    BY <2>3 DEF TypeOK, Work, Index!LoadEntry, Index!Upsert, Index!UpsertFails,
                Index!Unindex
  <2> QED
    BY <1>2, <2>1, <2>2, <2>3 DEF Indexing
<1>3. CASE Recall
  <2>1. ASSUME NEW q \in Queries, NEW a \in Apis, NEW c \in Contexts, Ask(q, a, c)
        PROVE  TypeOK'
    <3>1. PICK dead \in SUBSET Logs, steady \in SUBSET Logs :
            queries' = [queries EXCEPT ![q] =
              [Idle EXCEPT !.pc = "asked", !.api = a, !.ctx = c, !.dead = dead, !.steady = steady]]
      BY <2>1 DEF Ask, TypeOK
    <3>2. [Idle EXCEPT !.pc = "asked", !.api = a, !.ctx = c, !.dead = dead, !.steady = steady]
            \in Query
      BY IdleType DEF Query
    <3> QED
      BY <2>1, <3>1, <3>2 DEF TypeOK, Ask, entries
  <2>2. ASSUME NEW q \in Queries, Search(q) \/ Read(q)
        PROVE  TypeOK'
    <3>1. PICK rec \in Query : queries' = [queries EXCEPT ![q] = rec]
      <4>1. queries[q] \in Query
        BY DEF TypeOK
      <4>2. CASE Search(q)
        <5>1. queries[q].ctx \in Contexts \cup {None}
          BY <4>1 DEF Query
        <5>2. PICK S \in Hits(queries[q].ctx) :
                queries' = [queries EXCEPT ![q].pc = "searched", ![q].hits = S]
          BY <4>2 DEF Search
        <5>3. S \in SUBSET Logs /\ Cardinality(S) <= TopK
          BY <5>1, NearestOnes DEF Hits, TypeOK
        <5>4. [queries[q] EXCEPT !.pc = "searched", !.hits = S] \in Query
          BY <4>1, <5>3 DEF Query
        <5> QED
          BY <5>2, <5>4
      <4>3. CASE Read(q)
        <5>1. [queries[q] EXCEPT !.pc = "read",
                  !.sources = queries[q].hits \cap Found(queries[q].ctx)] \in Query
          BY <4>1 DEF Query
        <5> QED
          BY <4>3, <5>1 DEF Read
      <4> QED
        BY <2>2, <4>2, <4>3
    <3> QED
      BY <2>2, <3>1 DEF TypeOK, Search, Read, entries
  <2>3. ASSUME NEW q \in Queries, Answer(q) \/ QueryFails(q) PROVE TypeOK'
    BY <2>3, IdleType DEF TypeOK, Answer, QueryFails, entries
  <2> QED
    BY <1>3, <2>1, <2>2, <2>3 DEF Recall
<1>4. ASSUME NEW c \in Contexts, DeleteContext(c) PROVE TypeOK'
  <2>1. queries' \in [Queries -> Query]
    BY <1>4, UnsteadyType DEF DeleteContext
  <2> QED
    BY <1>4, <2>1 DEF TypeOK, DeleteContext, Index!DeleteContext, Index!Row
<1>5. CASE UNCHANGED vars
  BY <1>5 DEF TypeOK, vars
<1> QED
  BY <1>1, <1>2, <1>3, <1>4, <1>5 DEF Next

-----------------------------------------------------------------------------
\* Entries keep their context and stay deleted; RowInv is what this rests on.
LEMMA RowStep ==
    ASSUME TypeOK, RowInv, [Next]_vars
    PROVE  /\ RowInv'
           /\ \A l \in Logs :
                /\ rows[l].ctx # None => rows'[l].ctx = rows[l].ctx
                /\ rows[l].phase \in {"deleted", "purged"} =>
                      rows'[l].phase \in {"deleted", "purged"}
<1>1. CASE UNCHANGED rows
  BY <1>1 DEF RowInv
<1>2. ASSUME NEW l \in Logs, NEW c \in Contexts, CreateLog(l, c)
      PROVE  /\ rows' = [rows EXCEPT ![l] = [phase |-> "live", ctx |-> c]]
             /\ rows[l].phase = "absent" /\ rows[l].ctx = None
  BY <1>2 DEF CreateLog, Index!CreateLog, RowInv
<1>3. ASSUME NEW l \in Logs, DeleteLog(l)
      PROVE  /\ rows' = [rows EXCEPT ![l].phase = "deleted"]
             /\ rows[l].phase = "live"
  BY <1>3 DEF DeleteLog, Index!DeleteLog
<1>4. ASSUME NEW c \in Contexts, DeleteContext(c)
      PROVE  \A l \in Logs :
               \/ rows'[l] = rows[l]
               \/ /\ rows[l].phase \in {"live", "deleted"}
                  /\ rows'[l] = [rows[l] EXCEPT !.phase = "purged"]
  BY <1>4 DEF DeleteContext, Index!DeleteContext
<1>5. \/ UNCHANGED rows
      \/ \E l \in Logs : DeleteLog(l)
      \/ \E l \in Logs, c \in Contexts : CreateLog(l, c)
      \/ \E c \in Contexts : DeleteContext(c)
  BY DEF Next, SetUp, Indexing, Recall, vars, entries, Start, ListCollections,
         CreateCollection, CreateIndex, CreateConflicts, SetUpFails, Crash, Work,
         Index!LoadEntry, Index!Upsert, Index!UpsertFails, Index!Unindex,
         Ask, Search, Read, Answer, QueryFails
<1>6. \A l \in Logs : rows[l] \in Index!Row
  BY DEF TypeOK
<1>7. CASE \E l \in Logs : DeleteLog(l)
  <2>1. PICK l \in Logs : /\ rows' = [rows EXCEPT ![l].phase = "deleted"]
                          /\ rows[l].phase = "live"
    BY <1>3, <1>7
  <2>2. /\ rows'[l].phase = "deleted" /\ rows'[l].ctx = rows[l].ctx
        /\ \A k \in Logs \ {l} : rows'[k] = rows[k]
    BY <1>6, <2>1 DEF TypeOK, Index!Row
  <2> QED
    BY <2>1, <2>2 DEF RowInv
<1>8. CASE \E l \in Logs, c \in Contexts : CreateLog(l, c)
  BY <1>2, <1>6, <1>8 DEF TypeOK, RowInv, Index!Row
<1>9. CASE \E c \in Contexts : DeleteContext(c)
  <2>1. \A l \in Logs :
          \/ rows'[l] = rows[l]
          \/ /\ rows[l].phase \in {"live", "deleted"}
             /\ rows'[l].phase = "purged" /\ rows'[l].ctx = rows[l].ctx
    <3> SUFFICES ASSUME NEW l \in Logs, rows'[l] # rows[l]
                 PROVE  /\ rows[l].phase \in {"live", "deleted"}
                        /\ rows'[l].phase = "purged" /\ rows'[l].ctx = rows[l].ctx
      OBVIOUS
    <3>1. /\ rows[l].phase \in {"live", "deleted"}
          /\ rows'[l] = [rows[l] EXCEPT !.phase = "purged"]
      BY <1>4, <1>9
    <3> QED
      BY <1>6, <3>1 DEF Index!Row
  <2> QED
    BY <2>1 DEF RowInv
<1> QED
  BY <1>1, <1>5, <1>7, <1>8, <1>9

-----------------------------------------------------------------------------
\* A query that is not touched, but for entries that are no longer steady.
LEMMA QueryKept ==
    ASSUME IInv, [Next]_vars, NEW q \in Queries, NEW T \in SUBSET queries[q].steady,
           queries'[q] = [queries[q] EXCEPT !.steady = T],
           queries[q].pc = "asked" => T \subseteq points',
           queries[q].pc \in {"asked", "searched"} => \A l \in T : Live(l)'
    PROVE  QueryInvOf(q)'
<1> DEFINE query == queries[q]
<1>1. query \in Query /\ QueryInvOf(q)
  BY DEF IInv, TypeOK, QueryInv
<1>2. /\ queries'[q].pc = query.pc /\ queries'[q].ctx = query.ctx
      /\ queries'[q].hits = query.hits /\ queries'[q].sources = query.sources
      /\ queries'[q].dead = query.dead /\ queries'[q].steady = T
  BY <1>1 DEF Query
<1>3. \A l \in Logs :
        /\ rows[l].ctx # None => rows'[l].ctx = rows[l].ctx
        /\ rows[l].phase \in {"deleted", "purged"} => rows'[l].phase \in {"deleted", "purged"}
  BY RowStep DEF IInv
<1>4. /\ query.hits \subseteq Logs /\ query.dead \subseteq Logs /\ T \subseteq Logs
  BY <1>1 DEF Query
<1>5. query.pc \in {"asked", "searched", "read"} => query.ctx \in Contexts
  BY <1>1 DEF QueryInvOf
<1>6. \A l \in query.hits : Belongs(l, query.ctx)'
  BY <1>1, <1>3, <1>4, <1>5, RetrievalAssumption DEF QueryInvOf, Belongs, Query
<1>7. query.pc \in {"asked", "searched"} => \A l \in T : rows'[l].ctx = query.ctx
  BY <1>1, <1>3, <1>4, <1>5, RetrievalAssumption DEF QueryInvOf
<1>8. \A l \in query.dead : rows'[l].phase \in {"deleted", "purged"}
  BY <1>1, <1>3, <1>4 DEF QueryInvOf
<1> QED
  BY <1>1, <1>2, <1>5, <1>6, <1>7, <1>8 DEF QueryInvOf, Belongs

\* A query that has ended holds nothing.
LEMMA QueryEnded ==
    ASSUME NEW q \in Queries, queries'[q] = Finished
    PROVE  QueryInvOf(q)'
  BY DEF QueryInvOf, Finished, Idle

\* A step that leaves the queries alone, or ends some, and takes no row or point
\* of a live entry.
LEMMA QueriesAlone ==
    ASSUME IInv, [Next]_vars,
           \A q \in Queries : queries'[q] \in {queries[q], Finished},
           \A l \in Logs : Live(l) => Live(l)',
           \A l \in Logs : Live(l) /\ l \in points => l \in points'
    PROVE  QueryInv'
<1> SUFFICES ASSUME NEW q \in Queries PROVE QueryInvOf(q)'
  BY DEF QueryInv
<1>1. CASE queries'[q] = Finished
  BY <1>1, QueryEnded
<1>2. CASE queries'[q] = queries[q]
  <2>1. queries[q] \in Query /\ QueryInvOf(q)
    BY DEF IInv, TypeOK, QueryInv
  <2> DEFINE T == queries[q].steady
  <2>2. queries'[q] = [queries[q] EXCEPT !.steady = T]
    BY <1>2, <2>1 DEF Query
  <2>3. T \subseteq Logs
    BY <2>1 DEF Query
  <2>4. queries[q].pc \in {"asked", "searched"} => \A l \in T : Live(l) /\ Live(l)'
    BY <2>1, <2>3 DEF QueryInvOf
  <2>5. queries[q].pc = "asked" => T \subseteq points'
    BY <2>1, <2>3, <2>4 DEF QueryInvOf
  <2> QED
    BY <2>2, <2>4, <2>5, QueryKept
<1> QED
  BY <1>1, <1>2

\* Entries that go are no longer steady.
LEMMA QueriesUnsteady ==
    ASSUME IInv, [Next]_vars, NEW gone \in SUBSET Logs, Unsteady(gone), points' = points,
           \A l \in Logs \ gone : Live(l) => Live(l)'
    PROVE  QueryInv'
<1> SUFFICES ASSUME NEW q \in Queries PROVE QueryInvOf(q)'
  BY DEF QueryInv
<1>1. queries[q] \in Query /\ QueryInvOf(q)
  BY DEF IInv, TypeOK, QueryInv
<1>2. PICK T \in SUBSET queries[q].steady :
        /\ queries'[q] = [queries[q] EXCEPT !.steady = T]
        /\ queries[q].pc \in {"asked", "searched"} => T \cap gone = {}
  BY UnsteadyType DEF IInv
<1>3. T \subseteq Logs
  BY <1>1, <1>2 DEF Query
<1>4. queries[q].pc \in {"asked", "searched"} => \A l \in T : Live(l)'
  BY <1>1, <1>2, <1>3 DEF QueryInvOf
<1>5. queries[q].pc = "asked" => T \subseteq points'
  BY <1>1, <1>2 DEF QueryInvOf
<1> QED
  BY <1>2, <1>4, <1>5, QueryKept

\* Asking fixes what the query is held to.
LEMMA AskKeeps ==
    ASSUME IInv, [Next]_vars, NEW p \in Queries, NEW a \in Apis, NEW c \in Contexts,
           Ask(p, a, c)
    PROVE  QueryInv'
<1> SUFFICES ASSUME NEW q \in Queries PROVE QueryInvOf(q)'
  BY DEF QueryInv
<1>1. CASE q # p
  <2>1. queries'[q] = queries[q] /\ rows' = rows /\ points' = points
    BY <1>1 DEF Ask, entries, IInv, TypeOK
  <2>2. QueryInvOf(q)
    BY DEF IInv, QueryInv
  <2> QED
    BY <2>1, <2>2 DEF QueryInvOf, Belongs, Live
<1>2. CASE q = p
  <2>1. /\ queries'[q].pc = "asked" /\ queries'[q].ctx = c
        /\ queries'[q].hits = {} /\ queries'[q].sources = {}
        /\ queries'[q].dead = {l \in Logs : rows[l].phase \in {"deleted", "purged"}}
        /\ queries'[q].steady = {l \in points : Live(l) /\ rows[l].ctx = c}
        /\ rows' = rows /\ points' = points
    BY <1>2 DEF Ask, entries, Idle, IInv, TypeOK
  <2> QED
    BY <2>1 DEF QueryInvOf, Live
<1> QED
  BY <1>1, <1>2

\* A search finds all that is steady, or as much as it may return.
LEMMA SearchKeeps ==
    ASSUME IInv, NEW q \in Queries, Search(q)
    PROVE  QueryInvOf(q)'
<1> DEFINE query == queries[q]
<1>1. query \in Query /\ QueryInvOf(q) /\ query.pc = "asked"
  BY DEF IInv, TypeOK, QueryInv, Search
<1>2. query.ctx \in Contexts
  BY <1>1 DEF QueryInvOf
<1>3. PICK S \in Hits(query.ctx) :
        queries' = [queries EXCEPT ![q].pc = "searched", ![q].hits = S]
  BY DEF Search
<1>4. /\ \A l \in S : Belongs(l, query.ctx)
      /\ Cardinality(S) = TopK \/ \A l \in points \cap Logs : Belongs(l, query.ctx) => l \in S
  BY <1>2, HitsOf DEF IInv
<1>5. /\ queries'[q].pc = "searched" /\ queries'[q].ctx = query.ctx
      /\ queries'[q].hits = S /\ queries'[q].sources = query.sources
      /\ queries'[q].dead = query.dead /\ queries'[q].steady = query.steady
  BY <1>1, <1>3 DEF IInv, TypeOK, Query
<1>6. rows' = rows /\ points' = points
  BY DEF Search, entries
<1>7. query.steady \subseteq points \cap Logs /\ \A l \in query.steady : Belongs(l, query.ctx)
  BY <1>1 DEF QueryInvOf, Belongs, Query
<1>8. query.hits = {} /\ query.sources = {}
  BY <1>1 DEF QueryInvOf
<1>9. query.steady \subseteq S \/ Cardinality(S) = TopK
  BY <1>4, <1>7
<1> QED
  BY <1>1, <1>2, <1>4, <1>5, <1>6, <1>8, <1>9 DEF QueryInvOf, Belongs, Live

\* What is read is live, the context's, and all of the hits that is steady.
LEMMA ReadKeeps ==
    ASSUME IInv, NEW q \in Queries, Read(q)
    PROVE  QueryInvOf(q)'
<1> DEFINE query   == queries[q]
           sources == query.hits \cap Found(query.ctx)
<1>1. query \in Query /\ QueryInvOf(q) /\ query.pc = "searched"
  BY DEF IInv, TypeOK, QueryInv, Read
<1>2. /\ queries'[q].pc = "read" /\ queries'[q].ctx = query.ctx
      /\ queries'[q].hits = query.hits /\ queries'[q].sources = sources
      /\ queries'[q].dead = query.dead /\ queries'[q].steady = query.steady
  BY <1>1 DEF Read, IInv, TypeOK, Query
<1>3. rows' = rows /\ points' = points
  BY DEF Read, entries
<1>4. \A l \in sources : Live(l)
  BY DEF Found
<1>5. sources \cap query.dead = {}
  BY <1>1, <1>4 DEF QueryInvOf, Live
<1>6. query.steady \subseteq Found(query.ctx)
  BY <1>1 DEF QueryInvOf, Found, Query
<1>7. query.steady \subseteq sources \/ Cardinality(query.hits) = TopK
  BY <1>1, <1>6 DEF QueryInvOf
<1> QED
  BY <1>1, <1>2, <1>3, <1>5, <1>7 DEF QueryInvOf, Belongs

LEMMA QueryStep == IInv /\ [Next]_vars => QueryInv'
<1> SUFFICES ASSUME IInv, [Next]_vars PROVE QueryInv'
  OBVIOUS
<1>1. ASSUME UNCHANGED <<rows, points, queries>> PROVE QueryInv'
  BY <1>1 DEF IInv, QueryInv, QueryInvOf, Belongs, Live
<1>2. CASE SetUp
  <2>1. ASSUME NEW a \in Apis, Crash(a) PROVE QueryInv'
    <3>1. \A q \in Queries : queries'[q] \in {queries[q], Finished}
      BY <2>1 DEF Crash
    <3>2. rows' = rows /\ points' = points
      BY <2>1 DEF Crash, entries
    <3> QED
      BY <3>1, <3>2, QueriesAlone DEF Live
  <2>2. ASSUME NEW a \in Apis,
               \/ Start(a) \/ ListCollections(a) \/ CreateCollection(a)
               \/ CreateIndex(a) \/ CreateConflicts(a) \/ SetUpFails(a)
        PROVE  UNCHANGED <<rows, points, queries>>
    BY <2>2 DEF Start, ListCollections, CreateCollection, CreateIndex, CreateConflicts,
                SetUpFails, entries
  <2> QED
    BY <1>1, <1>2, <2>1, <2>2 DEF SetUp
<1>3. CASE Indexing
  <2>1. ASSUME NEW l \in Logs, NEW c \in Contexts, CreateLog(l, c) PROVE QueryInv'
    <3>1. queries' = queries /\ points' = points /\ \A k \in Logs : Live(k) => Live(k)'
      BY <2>1 DEF CreateLog, Index!CreateLog, Live, IInv, TypeOK
    <3> QED
      BY <3>1, QueriesAlone
  <2>2. ASSUME NEW l \in Logs, DeleteLog(l) PROVE QueryInv'
    <3>1. points' = points /\ Unsteady({l}) /\ \A k \in Logs \ {l} : Live(k) => Live(k)'
      BY <2>2 DEF DeleteLog, Index!DeleteLog, Live, IInv, TypeOK
    <3> QED
      BY <3>1, QueriesUnsteady
  <2>3. ASSUME NEW l \in Logs, Work(l) PROVE QueryInv'
    <3>1. /\ queries' = queries /\ rows' = rows
          /\ \A k \in Logs : Live(k) /\ k \in points => k \in points'
      BY <2>3 DEF Work, Index!LoadEntry, Index!Upsert, Index!UpsertFails,
                  Index!Unindex, Live
    <3> QED
      BY <3>1, QueriesAlone DEF Live
  <2> QED
    BY <1>3, <2>1, <2>2, <2>3 DEF Indexing
<1>4. CASE Recall
  <2>1. ASSUME NEW q \in Queries, NEW a \in Apis, NEW c \in Contexts, Ask(q, a, c)
        PROVE  QueryInv'
    BY <2>1, AskKeeps
  <2>2. ASSUME NEW q \in Queries,
               Search(q) \/ Read(q) \/ Answer(q) \/ QueryFails(q)
        PROVE  QueryInv'
    <3>1. /\ UNCHANGED <<rows, points>>
          /\ \A p \in Queries \ {q} : queries'[p] = queries[p]
      BY <2>2 DEF Search, Read, Answer, QueryFails, entries, IInv, TypeOK
    <3>2. QueryInvOf(q)'
      BY <2>2, SearchKeeps, ReadKeeps, QueryEnded DEF Answer, QueryFails, IInv, TypeOK
    <3>3. ASSUME NEW p \in Queries \ {q} PROVE QueryInvOf(p)'
      <4>1. QueryInvOf(p)
        BY DEF IInv, QueryInv
      <4> QED
        BY <3>1, <3>3, <4>1 DEF QueryInvOf, Belongs, Live
    <3> QED
      BY <3>2, <3>3 DEF QueryInv
  <2> QED
    BY <1>4, <2>1, <2>2 DEF Recall
<1>5. ASSUME NEW c \in Contexts, DeleteContext(c) PROVE QueryInv'
  <2> DEFINE gone == {l \in Logs : rows[l].ctx = c}
  <2>1. /\ points' = points /\ Unsteady(gone) /\ gone \in SUBSET Logs
        /\ \A k \in Logs \ gone : Live(k) => Live(k)'
    BY <1>5 DEF DeleteContext, Index!DeleteContext, Live
  <2> HIDE DEF gone
  <2> QED
    BY <2>1, QueriesUnsteady
<1>6. CASE UNCHANGED vars
  BY <1>1, <1>6 DEF vars
<1> QED
  BY <1>2, <1>3, <1>4, <1>5, <1>6 DEF Next

-----------------------------------------------------------------------------
LEMMA SetUpStep == IInv /\ [Next]_vars => SetUpInv'
<1> SUFFICES ASSUME IInv, [Next]_vars PROVE SetUpInv'
  OBVIOUS
<1>1. ASSUME UNCHANGED <<collection, apis, faults>> PROVE SetUpInv'
  BY <1>1 DEF IInv, SetUpInv
<1>2. CASE SetUp
  <2> USE DEF IInv, TypeOK, SetUpInv, Parts
  <2>1. ASSUME NEW a \in Apis,
               \/ Start(a) \/ ListCollections(a) \/ CreateConflicts(a)
        PROVE  SetUpInv'
    BY <2>1 DEF Start, ListCollections, CreateConflicts, Advance
  <2>2. ASSUME NEW a \in Apis, CreateCollection(a) PROVE SetUpInv'
    BY <2>2 DEF CreateCollection, Advance
  <2>3. ASSUME NEW a \in Apis, CreateIndex(a) PROVE SetUpInv'
    BY <2>3 DEF CreateIndex, Advance
  <2>4. ASSUME NEW a \in Apis, SetUpFails(a) \/ Crash(a) PROVE SetUpInv'
    <3>1. faults' # MaxFaults
      BY <2>4, RetrievalAssumption DEF SetUpFails, Crash, Fault
    <3> QED
      BY <2>4, <3>1 DEF SetUpFails, Crash
  <2> QED
    BY <1>2, <2>1, <2>2, <2>3, <2>4 DEF SetUp
<1>3. CASE Indexing
  BY <1>1, <1>3 DEF Indexing, CreateLog, DeleteLog, Work
<1>4. CASE Recall
  BY <1>1, <1>4 DEF Recall, Ask, Search, Read, Answer, QueryFails
<1>5. ASSUME NEW c \in Contexts, DeleteContext(c) PROVE SetUpInv'
  BY <1>1, <1>5 DEF DeleteContext
<1>6. CASE UNCHANGED vars
  BY <1>1, <1>6 DEF vars
<1> QED
  BY <1>2, <1>3, <1>4, <1>5, <1>6 DEF Next

-----------------------------------------------------------------------------
LEMMA InitIInv == Init => IInv
<1> SUFFICES ASSUME Init PROVE IInv
  OBVIOUS
<1>1. RowInv /\ SetUpInv
  BY DEF Init, Index!Init, RowInv, SetUpInv
<1>2. QueryInv
  BY DEF Init, QueryInv, QueryInvOf, Idle
<1> QED
  BY <1>1, <1>2, TypeInit DEF IInv

LEMMA StepIInv == IInv /\ [Next]_vars => IInv'
  BY TypeStep, RowStep, QueryStep, SetUpStep DEF IInv

LEMMA Invariance == Spec => []IInv
  BY InitIInv, StepIInv, PTL DEF Spec

\* Every variable keeps its type; a search never returns more than TopK hits.
THEOREM TypeCorrect == Spec => []TypeOK
<1>1. IInv => TypeOK
  BY DEF IInv
<1> QED
  BY <1>1, Invariance, PTL

\* rag_pipeline.py:88-106: what was deleted before a query began is in no prompt
\* and no list of sources, whatever late workers put into the index.
THEOREM DeletedEntriesNeverCited == Spec => []DeletedNeverCited
<1>1. IInv => DeletedNeverCited
  BY DEF IInv, QueryInv, QueryInvOf, DeletedNeverCited
<1> QED
  BY <1>1, Invariance, PTL

\* qdrant_store.py:181-195: the sources of an answer are entries of the context
\* that was asked about.
THEOREM SourcesAreOfTheContext == Spec => []CitedAsAsked
<1>1. IInv => CitedAsAsked
  BY DEF IInv, QueryInv, QueryInvOf, CitedAsAsked
<1> QED
  BY <1>1, Invariance, PTL

\* An entry searchable all along is missed only by a search that was full, for
\* every TopK.
THEOREM SteadyEntriesFound == Spec => []MissedOnlyWhenFull
<1>1. IInv => MissedOnlyWhenFull
  BY DEF IInv, QueryInv, QueryInvOf, MissedOnlyWhenFull
<1> QED
  BY <1>1, Invariance, PTL

\* qdrant_store.py:80-114: without a fault, any number of processes that start
\* together build the collection whole.
THEOREM CollectionIsBuilt == Spec => []IndicesAfterStart
<1>1. IInv => IndicesAfterStart
  BY DEF IInv, SetUpInv, IndicesAfterStart
<1> QED
  BY <1>1, Invariance, PTL

=============================================================================
