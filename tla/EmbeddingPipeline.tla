------------------------- MODULE EmbeddingPipeline -------------------------
(***************************************************************************)
(* How a log entry gets into, and out of, the vector index.                *)
(*                                                                         *)
(* API requests (app/services/logs.py, contexts.py) change rows of         *)
(* log_entries in one transaction and AFTER the commit hand a Celery task  *)
(* to the broker (app/workers/dispatch.py).  Worker processes              *)
(* (app/workers/embedding_tasks.py) run the tasks: load the row, compute   *)
(* the vector, upsert it into Qdrant, mark the row.  PostgreSQL, Qdrant    *)
(* and the broker share no transaction, so every arrow between them is a   *)
(* step of its own here.                                                   *)
(*                                                                         *)
(* A request runs once.  It dispatches at most one task, so a task bears   *)
(* the name of its request, and a content is named after the request that  *)
(* wrote it (encrypt_content never yields the same ciphertext twice).      *)
(***************************************************************************)
EXTENDS Naturals

CONSTANTS
    Logs,        \* ids of log entries (uuid4, never reused)
    Contexts,    \* the contexts of the user at the start
    Self,        \* the Self context, which cannot be deleted
    Requests,    \* the API requests of a behaviour
    Workers,     \* Celery worker processes (--concurrency=2)
    MaxRetries,  \* max_retries of both tasks (3 in the code)
    MaxFaults,   \* bound: crashes and errors in a behaviour
    None

ASSUME PipelineAssumption ==
    /\ Self \in Contexts
    /\ None \notin Requests
    /\ MaxRetries \in Nat
    /\ MaxFaults \in Nat

VARIABLES
    contexts,  \* contexts that exist
    rows,      \* table log_entries
    points,    \* Qdrant collection: the content each point was computed from
    requests,  \* API side: what each request does and how far it got
    queue,     \* broker: how many copies of each message wait
    workers,   \* worker processes and the task each one runs
    lost,      \* history: tasks of which a delivery was dropped unfinished
    exhausted, \* history: those of them that had used up their retries
    faults     \* faults still allowed

vars == <<contexts, rows, points, requests, queue, workers, lost, exhausted,
          faults>>

-----------------------------------------------------------------------------
Status   == {"pending", "embedded", "failed"}
\* "purged" is a row removed by the ON DELETE CASCADE of its context.
Phase    == {"absent", "live", "deleted", "purged"}
Row      == [phase : Phase, ctx : Contexts \cup {None},
             content : Requests \cup {None}, status : Status]
EmbedOps == {"create", "update"}
Op       == EmbedOps \cup {"delete", "purge", "none"}
Request  == [op : Op, pc : {"idle", "loaded", "committed", "done"},
             log : Logs \cup {None}, seen : Status]
\* The same task id may wait several times: a retry keeps the id of its task.
Message  == [task : Requests, retries : 0..MaxRetries]
Worker   == [pc : {"idle", "taken", "loaded", "upserted", "finishing", "acking"},
             msg : Message \cup {None}, snap : Requests \cup {None}]

TypeOK ==
    /\ contexts \in SUBSET Contexts
    /\ rows     \in [Logs -> Row]
    /\ points   \in [Logs -> Requests \cup {None}]
    /\ requests \in [Requests -> Request]
    /\ queue    \in [Message -> Nat]
    /\ workers  \in [Workers -> Worker]
    /\ lost     \in SUBSET Requests
    /\ exhausted \in SUBSET Requests
    /\ faults   \in 0..MaxFaults

Idle == [pc |-> "idle", msg |-> None, snap |-> None]

Init ==
    /\ contexts = Contexts
    /\ rows     = [l \in Logs |-> [phase |-> "absent", ctx |-> None,
                                   content |-> None, status |-> "pending"]]
    /\ points   = [l \in Logs |-> None]
    /\ requests = [r \in Requests |-> [op |-> "none", pc |-> "idle",
                                       log |-> None, seen |-> "pending"]]
    /\ queue    = [m \in Message |-> 0]
    /\ workers  = [w \in Workers |-> Idle]
    /\ lost     = {}
    /\ exhausted = {}
    /\ faults   = MaxFaults

history == <<lost, exhausted>>

Live(l)    == rows[l].phase = "live"
Present(l) == rows[l].phase \in {"live", "deleted"}

Fault == /\ faults > 0
         /\ faults' = faults - 1

-----------------------------------------------------------------------------
(* API requests.  A load and the commit that follows are separate          *)
(* transactions' statements under READ COMMITTED: nothing locks the row in *)
(* between, and the commit finds its row by primary key only.              *)

CreateLog(r, l, c) ==
    /\ requests[r].pc = "idle"
    /\ c \in contexts
    /\ rows[l].phase = "absent"
    /\ rows' = [rows EXCEPT ![l] = [phase |-> "live", ctx |-> c,
                                    content |-> r, status |-> "pending"]]
    /\ requests' = [requests EXCEPT ![r] = [op |-> "create", pc |-> "committed",
                                            log |-> l, seen |-> "pending"]]
    /\ UNCHANGED <<contexts, points, queue, workers, history, faults>>

\* _get_or_404 of update_log and delete_log.
LoadLog(r, l, op) ==
    /\ requests[r].pc = "idle"
    /\ Live(l)
    /\ requests' = [requests EXCEPT ![r] = [op |-> op, pc |-> "loaded",
                                            log |-> l, seen |-> rows[l].status]]
    /\ UNCHANGED <<contexts, rows, points, queue, workers, history, faults>>

\* Faulty variant: the edit is stored and its task forgotten.
CommitUpdateNoDispatch(r) ==
    LET q == requests[r]
    IN  /\ q.pc = "loaded" /\ q.op = "update"
        /\ Present(q.log)
        /\ rows' = [rows EXCEPT ![q.log].content = r, ![q.log].status = "pending"]
        /\ requests' = [requests EXCEPT ![r].pc = "done"]
        /\ UNCHANGED <<contexts, points, queue, workers, history, faults>>

\* Faulty variant: the loaded row is written back whole, is_deleted included.
CommitUpdateWholeRow(r) ==
    LET q == requests[r]
    IN  /\ q.pc = "loaded" /\ q.op = "update"
        /\ Present(q.log)
        /\ rows' = [rows EXCEPT ![q.log].phase = "live", ![q.log].content = r,
                                ![q.log].status = "pending"]
        /\ requests' = [requests EXCEPT ![r].pc = "committed"]
        /\ UNCHANGED <<contexts, points, queue, workers, history, faults>>

\* The UPDATE statement carries the columns that differ from the loaded row:
\* "pending" over a loaded "pending" is no change and is not written.
CommitUpdate(r) ==
    LET q == requests[r]
    IN  /\ q.pc = "loaded" /\ q.op = "update"
        /\ Present(q.log)
        /\ rows' = [rows EXCEPT ![q.log].content = r,
                                ![q.log].status = IF q.seen = "pending" THEN @
                                                  ELSE "pending"]
        /\ requests' = [requests EXCEPT ![r].pc = "committed"]
        /\ UNCHANGED <<contexts, points, queue, workers, history, faults>>

CommitDelete(r) ==
    LET q == requests[r]
    IN  /\ q.pc = "loaded" /\ q.op = "delete"
        /\ Present(q.log)
        /\ rows' = [rows EXCEPT ![q.log].phase = "deleted"]
        /\ requests' = [requests EXCEPT ![r].pc = "committed"]
        /\ UNCHANGED <<contexts, points, queue, workers, history, faults>>

\* The row went with its context: the UPDATE matches nothing (StaleDataError),
\* or the refresh after the commit of a create or update finds no row.
RowGone(r) ==
    LET q == requests[r]
    IN  /\ \/ q.pc = "loaded"
           \/ q.pc = "committed" /\ q.op \in EmbedOps
        /\ rows[q.log].phase = "purged"
        /\ requests' = [requests EXCEPT ![r].pc = "done"]
        /\ UNCHANGED <<contexts, rows, points, queue, workers, history, faults>>

\* delete_context: the rows go by cascade, no task is dispatched.
DeleteContext(r, c) ==
    /\ requests[r].pc = "idle"
    /\ c \in contexts \ {Self}
    /\ contexts' = contexts \ {c}
    /\ rows' = [l \in Logs |-> IF Present(l) /\ rows[l].ctx = c
                               THEN [rows[l] EXCEPT !.phase = "purged"]
                               ELSE rows[l]]
    /\ requests' = [requests EXCEPT ![r].op = "purge", ![r].pc = "done"]
    /\ UNCHANGED <<points, queue, workers, history, faults>>

FirstDelivery(r) == [task |-> r, retries |-> 0]

Dispatch(r) ==
    /\ requests[r].pc = "committed"
    /\ queue' = [queue EXCEPT ![FirstDelivery(r)] = @ + 1]
    /\ requests' = [requests EXCEPT ![r].pc = "done"]
    /\ UNCHANGED <<contexts, rows, points, workers, history, faults>>

\* The broker refuses the task, or the API process dies after its commit.
DispatchFails(r) ==
    /\ Fault
    /\ requests[r].pc = "committed"
    /\ lost' = lost \cup {r}
    /\ requests' = [requests EXCEPT ![r].pc = "done"]
    /\ UNCHANGED <<contexts, rows, points, queue, workers, exhausted>>

-----------------------------------------------------------------------------
(* Worker processes.                                                       *)

TaskOf(w) == workers[w].msg.task
OpOf(w)   == requests[TaskOf(w)].op
LogOf(w)  == requests[TaskOf(w)].log
Goto(w, pc) == workers' = [workers EXCEPT ![w].pc = pc]

Take(w, m) ==
    /\ workers[w].pc = "idle"
    /\ queue[m] > 0
    /\ queue' = [queue EXCEPT ![m] = @ - 1]
    /\ workers' = [workers EXCEPT ![w] = [pc |-> "taken", msg |-> m, snap |-> None]]
    /\ UNCHANGED <<contexts, rows, points, requests, history, faults>>

\* Faulty variant: the is_deleted condition is left out of the query.
LoadDeleted(w) ==
    /\ workers[w].pc = "taken"
    /\ OpOf(w) \in EmbedOps
    /\ workers' = [workers EXCEPT ![w] =
                     IF Present(LogOf(w))
                     THEN [@ EXCEPT !.pc = "loaded", !.snap = rows[LogOf(w)].content]
                     ELSE [@ EXCEPT !.pc = "finishing"]]
    /\ UNCHANGED <<contexts, rows, points, requests, queue, history, faults>>

\* Faulty variant: the task waits for its row to show up.
LoadWaits(w) ==
    /\ workers[w].pc = "taken"
    /\ OpOf(w) \in EmbedOps
    /\ Live(LogOf(w))
    /\ workers' = [workers EXCEPT ![w].pc = "loaded",
                                  ![w].snap = rows[LogOf(w)].content]
    /\ UNCHANGED <<contexts, rows, points, requests, queue, history, faults>>

\* A row that is gone or deleted is "skipped".
Load(w) ==
    /\ workers[w].pc = "taken"
    /\ OpOf(w) \in EmbedOps
    /\ workers' = [workers EXCEPT ![w] =
                     IF Live(LogOf(w))
                     THEN [@ EXCEPT !.pc = "loaded", !.snap = rows[LogOf(w)].content]
                     ELSE [@ EXCEPT !.pc = "finishing"]]
    /\ UNCHANGED <<contexts, rows, points, requests, queue, history, faults>>

\* Faulty variant: an insert, which leaves a point that exists as it is.
InsertOnly(w) ==
    /\ workers[w].pc = "loaded"
    /\ points' = [points EXCEPT ![LogOf(w)] = IF @ = None THEN workers[w].snap ELSE @]
    /\ Goto(w, "upserted")
    /\ UNCHANGED <<contexts, rows, requests, queue, history, faults>>

Upsert(w) ==
    /\ workers[w].pc = "loaded"
    /\ points' = [points EXCEPT ![LogOf(w)] = workers[w].snap]
    /\ Goto(w, "upserted")
    /\ UNCHANGED <<contexts, rows, requests, queue, history, faults>>

\* Faulty variant: the row may be marked before the upsert is done.
MarkFirst(w) ==
    /\ workers[w].pc = "loaded"
    /\ rows' = IF Present(LogOf(w))
               THEN [rows EXCEPT ![LogOf(w)].status = "embedded"]
               ELSE rows
    /\ UNCHANGED <<contexts, points, requests, queue, workers, history, faults>>

\* Faulty variant: a status that the enum does not have.
MarkReady(w) ==
    /\ workers[w].pc = "upserted"
    /\ rows' = IF Present(LogOf(w))
               THEN [rows EXCEPT ![LogOf(w)].status = "ready"]
               ELSE rows
    /\ Goto(w, "finishing")
    /\ UNCHANGED <<contexts, points, requests, queue, history, faults>>

\* The row is found by id alone: deleted or edited since, it is marked too.
Mark(w) ==
    /\ workers[w].pc = "upserted"
    /\ rows' = IF Present(LogOf(w))
               THEN [rows EXCEPT ![LogOf(w)].status = "embedded"]
               ELSE rows
    /\ Goto(w, "finishing")
    /\ UNCHANGED <<contexts, points, requests, queue, history, faults>>

RemovePoint(w) ==
    /\ workers[w].pc = "taken"
    /\ OpOf(w) = "delete"
    /\ points' = [points EXCEPT ![LogOf(w)] = None]
    /\ Goto(w, "finishing")
    /\ UNCHANGED <<contexts, rows, requests, queue, history, faults>>

\* acks_late: the message leaves the broker only now.
Ack(w) ==
    /\ workers[w].pc \in {"finishing", "acking"}
    /\ workers' = [workers EXCEPT ![w] = Idle]
    /\ UNCHANGED <<contexts, rows, points, requests, queue, history, faults>>

Running(w) == workers[w].pc \in {"taken", "loaded", "upserted"}

\* An exception anywhere in the task, its finally block included: self.retry
\* publishes the next attempt under the same task id.
Retry(w) ==
    LET m == workers[w].msg
    IN  /\ Fault
        /\ Running(w) \/ workers[w].pc = "finishing"
        /\ m.retries < MaxRetries
        /\ queue' = [queue EXCEPT ![[m EXCEPT !.retries = @ + 1]] = @ + 1]
        /\ Goto(w, "acking")
        /\ UNCHANGED <<contexts, rows, points, requests, history>>

Forget(w) ==
    /\ Fault
    /\ Running(w) \/ workers[w].pc = "finishing"
    /\ lost' = IF Running(w) THEN lost \cup {TaskOf(w)} ELSE lost
    /\ Goto(w, "acking")
    /\ UNCHANGED <<contexts, rows, points, requests, queue>>

\* self.retry on the last attempt raises the task's own exception again (it is
\* called with exc=), so the MaxRetriesExceededError branch, which would set
\* "failed", is not reached.  The failure is acknowledged.
GiveUp(w) ==
    /\ workers[w].pc # "idle" /\ workers[w].msg.retries = MaxRetries
    /\ exhausted' = IF Running(w) THEN exhausted \cup {TaskOf(w)} ELSE exhausted
    /\ Forget(w)

\* The hard time limit kills the task, or the broker refuses its retry: the
\* message is acknowledged or rejected without being requeued.
Drop(w) ==
    /\ Forget(w)
    /\ UNCHANGED exhausted

\* Faulty variant: the message was acknowledged when the task started.
CrashAckedEarly(w) ==
    /\ Fault
    /\ workers[w].pc # "idle"
    /\ workers' = [workers EXCEPT ![w] = Idle]
    /\ UNCHANGED <<contexts, rows, points, requests, queue, history>>

\* The process dies before its ack: the broker delivers the message again.
Crash(w) ==
    /\ Fault
    /\ workers[w].pc # "idle"
    /\ queue' = [queue EXCEPT ![workers[w].msg] = @ + 1]
    /\ workers' = [workers EXCEPT ![w] = Idle]
    /\ UNCHANGED <<contexts, rows, points, requests, history>>

-----------------------------------------------------------------------------
ApiNext ==
    \E r \in Requests :
        \/ \E l \in Logs, c \in Contexts : CreateLog(r, l, c)
        \/ \E l \in Logs, op \in {"update", "delete"} : LoadLog(r, l, op)
        \/ CommitUpdate(r)
        \/ CommitDelete(r)
        \/ RowGone(r)
        \/ \E c \in Contexts : DeleteContext(r, c)
        \/ Dispatch(r)
        \/ DispatchFails(r)

WorkerStep(w) ==
    \/ \E m \in Message : Take(w, m)
    \/ Load(w)
    \/ Upsert(w)
    \/ Mark(w)
    \/ RemovePoint(w)
    \/ Ack(w)

WorkerFault(w) == Retry(w) \/ GiveUp(w) \/ Drop(w) \/ Crash(w)

Next == ApiNext \/ \E w \in Workers : WorkerStep(w) \/ WorkerFault(w)

Spec == Init /\ [][Next]_vars

\* A request that committed reaches its dispatch, a worker that can step steps.
\* No client has to send anything and no fault has to happen.
Fairness ==
    /\ \A r \in Requests : WF_vars(Dispatch(r))
    /\ \A w \in Workers : WF_vars(WorkerStep(w))

FairSpec == Spec /\ Fairness

-----------------------------------------------------------------------------
(* Properties.                                                             *)

\* Request r still has a dispatch to do, a message waiting or a worker at work.
Outstanding(r) ==
    \/ requests[r].pc = "committed"
    \/ \E m \in Message : m.task = r /\ queue[m] > 0
    \/ \E w \in Workers : Running(w) /\ TaskOf(w) = r

Settled(r) == r \notin lost /\ ~Outstanding(r)

\* log_entry.py:9, "embedded: Celery task successfully upserted vector in
\* Qdrant": an entry that is shown as embedded and not deleted has a point,
\* whatever edits, deletions, retries and crashes surround its task.
EmbeddedHasPoint ==
    \A l \in Logs : Live(l) /\ rows[l].status = "embedded" => points[l] # None

\* log_entry.py:8, "pending: row created or edited (Celery task dispatched)": an
\* entry stays pending only while the task of its last writer is outstanding,
\* unless a delivery of that task was dropped.
PendingHasTask ==
    \A l \in Logs :
        Live(l) /\ rows[l].status = "pending" => ~Settled(rows[l].content)

\* The delete task races every other task, and yet no step takes the point of
\* an entry that can still be listed out of the index.
NoLivePointLost ==
    [][\A l \in Logs : points[l] # None /\ points'[l] = None => ~Live(l)]_vars

\* A point is computed from a content its own entry has had: a late or repeated
\* task never puts the vector of one entry under the id of another
\* (embedding_tasks.py:68-86).
PointsAreOwn ==
    \A l \in Logs :
        points[l] # None => /\ requests[points[l]].op \in EmbedOps
                            /\ requests[points[l]].log = l

\* Without faults nothing is lost: a pending entry's task is on its way.
PendingOutstanding ==
    \A l \in Logs :
        Live(l) /\ rows[l].status = "pending" => Outstanding(rows[l].content)

\* PRD.md:165, "Edited entries are re-embedded": once the task of the last writer
\* is settled, the point is the one of the current content.
EditsReembedded ==
    \A l \in Logs :
        Live(l) /\ Settled(rows[l].content) => points[l] = rows[l].content

\* log_entry.py:12, "On soft delete: Celery delete_embedding task removes the
\* Qdrant vector": no point outlives the settled delete tasks of its entry.
DeletedHasNoPoint ==
    \A l \in Logs :
        /\ rows[l].phase = "deleted"
        /\ \A r \in Requests : requests[r].log = l => Settled(r)
        => points[l] = None

\* embedding_tasks.py:138, "Sets embedding_status='failed' after all retries are
\* exhausted": such an entry does not stay pending.  The code does not hold to
\* it: GiveUp leaves the row alone.
ExhaustedIsFailed ==
    \A l \in Logs :
        /\ Live(l) /\ rows[l].content \in exhausted
        /\ ~Outstanding(rows[l].content)
        => rows[l].status # "pending"

\* DB_DESIGN.md:262, "On edit: reset embedding_status to pending so Celery
\* re-embeds": right after the commit of an edit the row is pending.  The code
\* does not hold to it: a mark may come between load and commit.
EditResetsStatus ==
    [][\A l \in Logs : Live(l) /\ Live(l)' /\ rows'[l].content # rows[l].content
                         => rows'[l].status = "pending"]_vars

\* An entry does not stay pending for ever: it gets embedded, is deleted, or a
\* delivery of the task that should embed it was dropped.
PendingResolved ==
    \A l \in Logs :
        (Live(l) /\ rows[l].status = "pending")
            ~> (~Live(l) \/ rows[l].status = "embedded" \/ rows[l].content \in lost)

\* Every task that was dispatched ends: broker and workers come to rest.
TasksDrain ==
    \A r \in Requests : Outstanding(r) ~> ~Outstanding(r)

\* The pipeline implements the documented lifecycle: every interleaving of
\* requests, tasks, retries and crashes is one of its behaviours
\* (log_entry.py:7-13).
PhaseMap   == [l \in Logs |-> IF Live(l) THEN rows[l].status ELSE rows[l].phase]
IndexedMap == [l \in Logs |-> points[l] # None]
Lifecycle  == INSTANCE EntryLifecycle WITH phase <- PhaseMap, indexed <- IndexedMap

ImplementsLifecycle == Lifecycle!Spec

\* What a query can count on, whatever requests, tasks, retries and crashes lie
\* between: a point is written only for an entry some worker has seen live, and
\* removed only once its entry is gone (embedding_tasks.py:54-86, 182).
IndexRows == [l \in Logs |-> [phase |-> rows[l].phase, ctx |-> rows[l].ctx]]
Carried   == {LogOf(w) : w \in {v \in Workers : workers[v].pc = "loaded"}}
Indexed   == {l \in Logs : points[l] # None}
Index     == INSTANCE VectorIndex WITH rows <- IndexRows, inflight <- Carried,
                                       points <- Indexed

ImplementsIndex == Index!Spec

=============================================================================
