---------------------- MODULE EmbeddingPipelineProofs ----------------------
(***************************************************************************)
(* Proofs about EmbeddingPipeline, for any number of entries, contexts,    *)
(* requests and workers and any retry and fault budget.                    *)
(***************************************************************************)
EXTENDS EmbeddingPipeline, TLAPS

-----------------------------------------------------------------------------
(* The inductive invariant, by the part of the system it speaks of.        *)

\* A request that knows its entry got it from the table, where ids are never
\* forgotten, and only create, update and delete ever commit to a row.
LogOps == EmbedOps \cup {"delete"}
RequestOk(r) ==
    /\ requests[r].pc \in {"loaded", "committed"} => requests[r].op \in LogOps
    /\ requests[r].op \in LogOps => /\ requests[r].pc # "idle"
                                    /\ requests[r].log \in Logs
                                    /\ rows[requests[r].log].phase # "absent"
    /\ requests[r].op = "delete" /\ requests[r].pc \in {"committed", "done"}
           => ~Live(requests[r].log)
RequestInv == \A r \in Requests : RequestOk(r)

\* The content of a row is that of a committed create or update of that row,
\* and no code path the worker reaches writes "failed".
RowInv ==
    \A l \in Logs :
        /\ rows[l].status # "failed"
        /\ rows[l].phase # "absent" =>
               /\ rows[l].content \in Requests
               /\ requests[rows[l].content].op \in EmbedOps
               /\ requests[rows[l].content].log = l

\* Only dispatched requests have messages and only messages have workers.
Dispatched(r) == requests[r].op \in LogOps /\ requests[r].pc = "done"
QueueInv == \A m \in Message : queue[m] > 0 => Dispatched(m.task)
WorkerOk(w) ==
    workers[w].pc # "idle" =>
        /\ workers[w].msg \in Message
        /\ Dispatched(TaskOf(w))
        /\ workers[w].pc \in {"loaded", "upserted"} =>
               /\ OpOf(w) \in EmbedOps
               /\ workers[w].snap \in Requests
        /\ workers[w].pc = "upserted" /\ Live(LogOf(w)) => points[LogOf(w)] # None
WorkerInv == \A w \in Workers : WorkerOk(w)

IInv == TypeOK /\ RequestInv /\ RowInv /\ QueueInv /\ WorkerInv /\ EmbeddedHasPoint

-----------------------------------------------------------------------------
LEMMA InitIInv == Init => IInv
<1> SUFFICES ASSUME Init PROVE IInv
  OBVIOUS
<1>1. TypeOK
  BY PipelineAssumption DEF Init, TypeOK, Row, Request, Worker, Idle, Status, Phase, Op
<1>2. RequestInv /\ RowInv /\ QueueInv /\ WorkerInv /\ EmbeddedHasPoint
  BY DEF Init, RequestInv, RequestOk, RowInv, QueueInv, WorkerInv, WorkerOk, EmbeddedHasPoint, Live,
         LogOps, EmbedOps, Idle
<1> QED
  BY <1>1, <1>2 DEF IInv

\* What the assignments of the actions do to the types.
LEMMA RequestPcType ==
    ASSUME requests \in [Requests -> Request], NEW r \in Requests,
           NEW pc \in {"committed", "done"}
    PROVE  [requests EXCEPT ![r].pc = pc] \in [Requests -> Request]
<1> DEFINE q == [requests[r] EXCEPT !.pc = pc]
<1>1. q \in Request
  BY DEF Request
<1> QED
  BY <1>1

LEMMA WorkerPcType ==
    ASSUME workers \in [Workers -> Worker], NEW w \in Workers,
           NEW pc \in {"loaded", "upserted", "finishing", "acking"}
    PROVE  [workers EXCEPT ![w].pc = pc] \in [Workers -> Worker]
<1> DEFINE v == [workers[w] EXCEPT !.pc = pc]
<1>1. v \in Worker
  BY DEF Worker
<1> QED
  BY <1>1

LEMMA RowType ==
    ASSUME rows \in [Logs -> Row], NEW l \in Logs, NEW row \in Row
    PROVE  [rows EXCEPT ![l] = row] \in [Logs -> Row]
OBVIOUS

LEMMA QueueType ==
    ASSUME queue \in [Message -> Nat], NEW m \in Message
    PROVE  [queue EXCEPT ![m] = @ + 1] \in [Message -> Nat]
OBVIOUS

LEMMA FirstDeliveryType == ASSUME NEW r \in Requests PROVE FirstDelivery(r) \in Message
BY PipelineAssumption DEF FirstDelivery, Message

\* The message self.retry publishes is one the broker can hold.
LEMMA NextAttempt ==
    ASSUME NEW m \in Message, m.retries < MaxRetries
    PROVE  [m EXCEPT !.retries = @ + 1] \in Message
BY PipelineAssumption DEF Message

LEMMA ApiType ==
    ASSUME TypeOK, RequestInv, ApiNext PROVE TypeOK'
<1> USE PipelineAssumption DEF TypeOK, history
<1> PICK r \in Requests :
        \/ \E l \in Logs, c \in Contexts : CreateLog(r, l, c)
        \/ \E l \in Logs, op \in {"update", "delete"} : LoadLog(r, l, op)
        \/ CommitUpdate(r) \/ CommitDelete(r) \/ RowGone(r)
        \/ \E c \in Contexts : DeleteContext(r, c)
        \/ Dispatch(r) \/ DispatchFails(r)
  BY DEF ApiNext
<1>1. ASSUME NEW l \in Logs, NEW c \in Contexts, CreateLog(r, l, c) PROVE TypeOK'
  <2>1. rows' \in [Logs -> Row]
    BY <1>1 DEF CreateLog, Row, Phase, Status
  <2>2. requests' \in [Requests -> Request]
    BY <1>1 DEF CreateLog, Request, Op, EmbedOps, Status
  <2> QED
    BY <1>1, <2>1, <2>2 DEF CreateLog
<1>2. ASSUME NEW l \in Logs, NEW op \in {"update", "delete"}, LoadLog(r, l, op)
      PROVE  TypeOK'
  <2>1. rows[l].status \in Status
    BY DEF Row
  <2>2. requests' \in [Requests -> Request]
    BY <1>2, <2>1 DEF LoadLog, Request, Op, EmbedOps
  <2> QED
    BY <1>2, <2>2 DEF LoadLog
<1>3. CASE CommitUpdate(r)
  <2> DEFINE l == requests[r].log
             status == IF requests[r].seen = "pending" THEN rows[l].status ELSE "pending"
             row == [rows[l] EXCEPT !.content = r, !.status = status]
  <2>1. l \in Logs
    BY <1>3 DEF CommitUpdate, RequestInv, RequestOk, LogOps
  <2>2. status \in Status
    BY <2>1 DEF Row, Status
  <2>3. rows' = [rows EXCEPT ![l] = row]
    BY <1>3, <2>1 DEF CommitUpdate, Row
  <2> HIDE DEF status
  <2>5. rows[l] \in Row
    BY <2>1
  <2>6. row \in Row
    <3> HIDE DEF l, TypeOK
    <3> QED
      BY <2>2, <2>5 DEF Row
  <2>4. requests' \in [Requests -> Request]
    BY <1>3, RequestPcType DEF CommitUpdate
  <2> HIDE DEF row
  <2>7. rows' \in [Logs -> Row]
    BY <2>1, <2>6, <2>3, RowType
  <2> QED
    BY <1>3, <2>4, <2>7 DEF CommitUpdate
<1>4. CASE CommitDelete(r)
  <2> DEFINE l == requests[r].log
             row == [rows[l] EXCEPT !.phase = "deleted"]
  <2>1. l \in Logs
    BY <1>4 DEF CommitDelete, RequestInv, RequestOk, LogOps
  <2>2. row \in Row
    BY <2>1 DEF Row, Phase
  <2>3. rows' = [rows EXCEPT ![l] = row]
    BY <1>4, <2>1 DEF CommitDelete
  <2>4. requests' \in [Requests -> Request]
    BY <1>4, RequestPcType DEF CommitDelete
  <2> HIDE DEF row
  <2>5. rows' \in [Logs -> Row]
    BY <2>1, <2>2, <2>3, RowType
  <2> QED
    BY <1>4, <2>4, <2>5 DEF CommitDelete
<1>5. CASE RowGone(r)
  BY <1>5, RequestPcType DEF RowGone
<1>6. ASSUME NEW c \in Contexts, DeleteContext(r, c) PROVE TypeOK'
  <2>1. rows' \in [Logs -> Row]
    BY <1>6 DEF DeleteContext, Row, Phase
  <2>2. requests' \in [Requests -> Request]
    BY <1>6 DEF DeleteContext, Request, Op
  <2> QED
    BY <1>6, <2>1, <2>2 DEF DeleteContext
<1>7. CASE Dispatch(r)
  BY <1>7, FirstDeliveryType, QueueType, RequestPcType DEF Dispatch
<1>8. CASE DispatchFails(r)
  <2>1. requests' \in [Requests -> Request]
    BY <1>8, RequestPcType DEF DispatchFails
  <2>2. lost' \in SUBSET Requests /\ faults' \in 0..MaxFaults
    BY <1>8 DEF DispatchFails, Fault
  <2> QED
    BY <1>8, <2>1, <2>2 DEF DispatchFails
<1> QED
  BY <1>1, <1>2, <1>3, <1>4, <1>5, <1>6, <1>7, <1>8

LEMMA WorkerType ==
    ASSUME TypeOK, RequestInv, WorkerInv, NEW w \in Workers,
           WorkerStep(w) \/ WorkerFault(w)
    PROVE  TypeOK'
<1> USE PipelineAssumption DEF TypeOK, history
<1>0. workers[w].pc # "idle" =>
        /\ workers[w].msg \in Message
        /\ TaskOf(w) \in Requests
        /\ LogOf(w) \in Logs
  BY DEF WorkerInv, WorkerOk, Dispatched, TaskOf, LogOf, Message, RequestInv, RequestOk
<1>1. ASSUME NEW m \in Message, Take(w, m) PROVE TypeOK'
  <2>1. [pc |-> "taken", msg |-> m, snap |-> None] \in Worker
    BY DEF Worker
  <2> QED
    BY <1>1, <2>1 DEF Take
<1>2. CASE Load(w)
  <2>1. rows[LogOf(w)].content \in Requests \cup {None}
    BY <1>0, <1>2 DEF Load, Row
  <2>2. /\ [workers[w] EXCEPT !.pc = "loaded", !.snap = rows[LogOf(w)].content] \in Worker
        /\ [workers[w] EXCEPT !.pc = "finishing"] \in Worker
    BY <2>1 DEF Worker
  <2> QED
    BY <1>2, <2>2 DEF Load
<1>3. CASE Upsert(w)
  <2>1. workers[w].snap \in Requests \cup {None}
    BY DEF Worker
  <2> QED
    BY <1>3, <2>1, WorkerPcType DEF Upsert, Goto
<1>4. CASE Mark(w)
  <2> DEFINE row == [rows[LogOf(w)] EXCEPT !.status = "embedded"]
  <2>1. LogOf(w) \in Logs /\ row \in Row
    BY <1>0, <1>4 DEF Mark, Row, Status
  <2>2. rows' = [rows EXCEPT ![LogOf(w)] = row] \/ rows' = rows
    BY <1>4, <2>1 DEF Mark
  <2> HIDE DEF row
  <2>3. rows' \in [Logs -> Row]
    BY <2>1, <2>2, RowType
  <2> QED
    BY <1>4, <2>3, WorkerPcType DEF Mark, Goto
<1>5. CASE RemovePoint(w)
  BY <1>5, WorkerPcType DEF RemovePoint, Goto
<1>6. CASE Ack(w)
  BY <1>6 DEF Ack, Idle, Worker
<1>7. CASE Retry(w)
  <2> DEFINE n == [workers[w].msg EXCEPT !.retries = @ + 1]
  <2>1. workers[w].msg \in Message /\ workers[w].msg.retries < MaxRetries
    BY <1>0, <1>7 DEF Retry, Running
  <2>2. n \in Message
    BY <2>1, NextAttempt
  <2>3. queue' = [queue EXCEPT ![n] = @ + 1] /\ faults' \in 0..MaxFaults
    BY <1>7 DEF Retry, Fault
  <2> HIDE DEF n
  <2>4. queue' \in [Message -> Nat]
    BY <2>2, <2>3, QueueType
  <2> QED
    BY <1>7, <2>3, <2>4, WorkerPcType DEF Retry, Goto
<1>8. CASE GiveUp(w) \/ Drop(w)
  <2>1. TaskOf(w) \in Requests
    BY <1>0, <1>8 DEF GiveUp, Drop, Forget, Running
  <2>2. /\ lost' \in SUBSET Requests /\ exhausted' \in SUBSET Requests
        /\ faults' \in 0..MaxFaults
    BY <1>8, <2>1 DEF GiveUp, Drop, Forget, Fault
  <2> QED
    BY <1>8, <2>2, WorkerPcType, ZenonT(30) DEF GiveUp, Drop, Forget, Goto
<1>9. CASE Crash(w)
  <2>1. queue' \in [Message -> Nat] /\ faults' \in 0..MaxFaults
    BY <1>0, <1>9, QueueType DEF Crash, Fault
  <2> QED
    BY <1>9, <2>1 DEF Crash, Idle, Worker
<1> QED
  BY <1>1, <1>2, <1>3, <1>4, <1>5, <1>6, <1>7, <1>8, <1>9 DEF WorkerStep, WorkerFault


-----------------------------------------------------------------------------
(* The rest of the invariant, the requests' actions first.                 *)

Rest == RequestInv /\ RowInv /\ QueueInv /\ WorkerInv /\ EmbeddedHasPoint

\* An action of a request that is not dispatched yet leaves the other requests
\* alone, so what the broker and the workers hold stays dispatched.
LEMMA OthersDispatched ==
    ASSUME IInv, NEW r \in Requests, ~Dispatched(r),
           \A t \in Requests \ {r} : requests'[t] = requests[t],
           queue' = queue, workers' = workers
    PROVE  /\ QueueInv'
           /\ \A w \in Workers : workers[w].pc # "idle" =>
                  /\ Dispatched(TaskOf(w))'
                  /\ TaskOf(w)' = TaskOf(w)
                  /\ OpOf(w)' = OpOf(w)
                  /\ LogOf(w)' = LogOf(w)
                  /\ LogOf(w) \in Logs
                  /\ rows[LogOf(w)].phase # "absent"
<1>1. \A m \in Message : m.task \in Requests
  BY DEF Message
<1>2. QueueInv'
  BY <1>1 DEF IInv, QueueInv, Dispatched
<1>3. ASSUME NEW w \in Workers, workers[w].pc # "idle"
      PROVE  TaskOf(w) \in Requests \ {r} /\ Dispatched(TaskOf(w))
  BY <1>1, <1>3 DEF IInv, WorkerInv, WorkerOk, TaskOf
<1> QED
  BY <1>2, <1>3 DEF Dispatched, TaskOf, OpOf, LogOf, IInv, RequestInv, RequestOk

LEMMA ApiRest ==
    ASSUME IInv, NEW r \in Requests,
           \/ \E l \in Logs, c \in Contexts : CreateLog(r, l, c)
           \/ \E l \in Logs, op \in {"update", "delete"} : LoadLog(r, l, op)
           \/ CommitUpdate(r) \/ CommitDelete(r) \/ RowGone(r)
           \/ \E c \in Contexts : DeleteContext(r, c)
           \/ Dispatch(r) \/ DispatchFails(r)
    PROVE  Rest'
<1> USE PipelineAssumption DEF history
<1>0. /\ requests \in [Requests -> Request]
      /\ rows \in [Logs -> Row]
      /\ queue \in [Message -> Nat]
      /\ TypeOK /\ RequestInv /\ RowInv /\ QueueInv /\ WorkerInv /\ EmbeddedHasPoint
  BY DEF IInv, TypeOK
<1>1. ASSUME NEW l \in Logs, NEW c \in Contexts, CreateLog(r, l, c) PROVE Rest'
  <2>1. /\ requests' = [requests EXCEPT ![r] = [op |-> "create", pc |-> "committed",
                                                log |-> l, seen |-> "pending"]]
        /\ rows' = [rows EXCEPT ![l] = [phase |-> "live", ctx |-> c,
                                        content |-> r, status |-> "pending"]]
        /\ requests[r].pc = "idle" /\ rows[l].phase = "absent"
        /\ points' = points /\ queue' = queue /\ workers' = workers
    BY <1>1 DEF CreateLog
  <2>2. RequestInv'
    BY <1>0, <2>1 DEF RequestInv, RequestOk, LogOps, EmbedOps, Live
  <2>3. RowInv'
    BY <1>0, <2>1 DEF RowInv, RequestInv, RequestOk, LogOps, EmbedOps
  <2>4. ~Dispatched(r) /\ \A t \in Requests \ {r} : requests'[t] = requests[t]
    BY <1>0, <2>1 DEF Dispatched
  <2>5. QueueInv' /\ WorkerInv'
    BY <1>0, <2>1, <2>4, OthersDispatched DEF WorkerInv, WorkerOk, Live
  <2>6. EmbeddedHasPoint'
    BY <1>0, <2>1 DEF EmbeddedHasPoint, Live
  <2> QED
    BY <2>2, <2>3, <2>5, <2>6 DEF Rest
<1>2. ASSUME NEW l \in Logs, NEW op \in {"update", "delete"}, LoadLog(r, l, op)
      PROVE  Rest'
  <2>1. /\ requests' = [requests EXCEPT ![r] = [op |-> op, pc |-> "loaded",
                                                log |-> l, seen |-> rows[l].status]]
        /\ requests[r].pc = "idle" /\ Live(l) /\ rows' = rows
        /\ points' = points /\ queue' = queue /\ workers' = workers
    BY <1>2 DEF LoadLog
  <2>2. RequestInv'
    BY <1>0, <2>1 DEF RequestInv, RequestOk, LogOps, EmbedOps, Live
  <2>3. RowInv'
    BY <1>0, <2>1 DEF RowInv, RequestInv, RequestOk, LogOps, EmbedOps
  <2>4. ~Dispatched(r) /\ \A t \in Requests \ {r} : requests'[t] = requests[t]
    BY <1>0, <2>1 DEF Dispatched
  <2>5. QueueInv' /\ WorkerInv'
    BY <1>0, <2>1, <2>4, OthersDispatched DEF WorkerInv, WorkerOk, Live
  <2>6. EmbeddedHasPoint'
    BY <1>0, <2>1 DEF EmbeddedHasPoint, Live
  <2> QED
    BY <2>2, <2>3, <2>5, <2>6 DEF Rest
<1>3. ASSUME CommitUpdate(r) \/ CommitDelete(r) \/ RowGone(r) \/ DispatchFails(r) PROVE Rest'
  <2> DEFINE log == requests[r].log
  <2>1. /\ requests[r].op \in LogOps /\ requests[r].pc \in {"loaded", "committed"}
        /\ log \in Logs
    BY <1>0, <1>3 DEF CommitUpdate, CommitDelete, RowGone, DispatchFails, RequestInv, RequestOk
  <2>2. /\ \E pc \in {"committed", "done"} : requests' = [requests EXCEPT ![r].pc = pc]
        /\ points' = points /\ queue' = queue /\ workers' = workers
    BY <1>3 DEF CommitUpdate, CommitDelete, RowGone, DispatchFails
  <2>3. /\ \A t \in Requests \ {r} : requests'[t] = requests[t]
        /\ requests'[r].op = requests[r].op
        /\ requests'[r].log = log
        /\ requests'[r].pc \in {"committed", "done"}
    BY <1>0, <2>2 DEF Request
  <2>4. /\ rows' \in [Logs -> Row]
        /\ \A l \in Logs : /\ rows'[l].phase = "absent" <=> rows[l].phase = "absent"
                           /\ Live(l)' => Live(l)
                           /\ rows'[l].status # rows[l].status =>
                                  rows'[l].status = "pending"
                           /\ \/ rows'[l].content = rows[l].content
                              \/ /\ rows'[l].content = r /\ l = log
                                 /\ requests[r].op = "update"
    <3>1. CASE CommitUpdate(r)
      BY <1>0, <2>1, <3>1 DEF CommitUpdate, Row, Live
    <3>2. CASE CommitDelete(r)
      <4>1. rows[log] \in Row /\ rows[log].phase \in {"live", "deleted"}
        BY <1>0, <2>1, <3>2 DEF CommitDelete, Present
      <4>2. rows' = [rows EXCEPT ![log] = [rows[log] EXCEPT !.phase = "deleted"]]
        BY <3>2 DEF CommitDelete
      <4> HIDE DEF log
      <4>3. rows' \in [Logs -> Row]
        BY <1>0, <2>1, <4>1, <4>2 DEF Row, Phase
      <4> QED
        BY <1>0, <2>1, <4>1, <4>2, <4>3 DEF Row, Live
    <3>3. CASE RowGone(r) \/ DispatchFails(r)
      BY <1>0, <3>3 DEF RowGone, DispatchFails, Live
    <3> QED
      BY <1>3, <3>1, <3>2, <3>3
  <2>5. requests[r].op = "delete" => rows'[log].phase # "live"
    <3>1. CASE CommitUpdate(r)
      BY <3>1 DEF CommitUpdate
    <3>2. CASE CommitDelete(r)
      BY <1>0, <2>1, <3>2 DEF CommitDelete, Row
    <3>3. CASE RowGone(r)
      BY <3>3 DEF RowGone
    <3>4. CASE DispatchFails(r)
      BY <1>0, <3>4 DEF DispatchFails, RequestInv, RequestOk, Live
    <3> QED
      BY <1>3, <3>1, <3>2, <3>3, <3>4
  <2>6. RequestInv'
    <3> SUFFICES ASSUME NEW t \in Requests
                 PROVE  RequestOk(t)'
      BY DEF RequestInv
    <3>1. CASE t = r
      BY <2>1, <1>0, <2>3, <2>4, <2>5, <3>1 DEF RequestInv, RequestOk, Live
    <3>2. CASE t # r
      <4>1. RequestOk(t) /\ requests'[t] = requests[t]
        BY <1>0, <2>3, <3>2 DEF RequestInv
      <4> QED
        BY <2>4, <4>1 DEF RequestOk, Live, LogOps, EmbedOps
    <3> QED
      BY <3>1, <3>2
  <2>7. RowInv'
    BY <1>0, <2>1, <2>3, <2>4 DEF RowInv, EmbedOps
  <2>8. QueueInv' /\ WorkerInv'
    BY <1>0, <2>1, <2>2, <2>3, <2>4, OthersDispatched DEF WorkerInv, WorkerOk, Dispatched
  <2>9. EmbeddedHasPoint'
    BY <1>0, <2>2, <2>4 DEF EmbeddedHasPoint
  <2> QED
    BY <2>6, <2>7, <2>8, <2>9 DEF Rest
<1>4. ASSUME NEW c \in Contexts, DeleteContext(r, c) PROVE Rest'
  <2>1. /\ requests' = [requests EXCEPT ![r].op = "purge", ![r].pc = "done"]
        /\ requests[r].pc = "idle"
        /\ points' = points /\ queue' = queue /\ workers' = workers
    BY <1>4 DEF DeleteContext
  <2>2. /\ \A t \in Requests \ {r} : requests'[t] = requests[t]
        /\ requests'[r].op = "purge" /\ requests'[r].pc = "done"
        /\ requests[r].op \notin LogOps
    BY <1>0, <2>1 DEF Request, RequestInv, RequestOk
  <2>3. ASSUME NEW l \in Logs
        PROVE  /\ rows'[l].phase = "absent" <=> rows[l].phase = "absent"
               /\ rows'[l].phase = "live" => rows[l].phase = "live"
               /\ rows'[l].status = rows[l].status
               /\ rows'[l].content = rows[l].content
    <3> DEFINE gone == Present(l) /\ rows[l].ctx = c
    <3>0. rows'[l] = IF gone THEN [rows[l] EXCEPT !.phase = "purged"] ELSE rows[l]
      BY <1>4, Zenon DEF DeleteContext
    <3>1. rows[l] \in Row
      BY <1>0
    <3>2. CASE gone
      BY <3>0, <3>1, <3>2 DEF Row, Present
    <3>3. CASE ~gone
      BY <3>0, <3>3, Zenon
    <3> QED
      BY <3>2, <3>3
  <2>4. RequestInv'
    BY <1>0, <2>2, <2>3 DEF RequestInv, RequestOk, LogOps, EmbedOps, Live
  <2>5. RowInv'
    BY <1>0, <2>2, <2>3 DEF RowInv, LogOps
  <2>6. QueueInv' /\ WorkerInv'
    <3>1. ~Dispatched(r)
      BY <2>2 DEF Dispatched
    <3> QED
      BY <1>0, <2>1, <2>2, <2>3, <3>1, OthersDispatched DEF WorkerInv, WorkerOk, Live
  <2>7. EmbeddedHasPoint'
    BY <1>0, <2>1, <2>3 DEF EmbeddedHasPoint, Live
  <2> QED
    BY <2>4, <2>5, <2>6, <2>7 DEF Rest
<1>5. CASE Dispatch(r)
  <2>1. /\ requests' = [requests EXCEPT ![r].pc = "done"]
        /\ queue' = [queue EXCEPT ![FirstDelivery(r)] = @ + 1]
        /\ requests[r].pc = "committed" /\ requests[r].op \in LogOps
        /\ rows' = rows /\ points' = points /\ workers' = workers
    BY <1>0, <1>5 DEF Dispatch, RequestInv, RequestOk
  <2>2. /\ \A t \in Requests \ {r} : requests'[t] = requests[t]
        /\ requests'[r].op = requests[r].op
        /\ requests'[r].log = requests[r].log
        /\ requests'[r].pc = "done"
    BY <1>0, <2>1 DEF Request
  <2>3. RequestInv'
    BY <1>0, <2>1, <2>2 DEF RequestInv, RequestOk, Live
  <2>4. RowInv'
    BY <1>0, <2>1, <2>2 DEF RowInv
  <2>5. \A t \in Requests : Dispatched(t) => Dispatched(t)'
    BY <2>2 DEF Dispatched
  <2>6. QueueInv'
    <3>1. FirstDelivery(r) \in Message /\ FirstDelivery(r).task = r /\ Dispatched(r)'
      BY <2>1, <2>2, FirstDeliveryType DEF FirstDelivery, Dispatched
    <3>2. \A m \in Message : m.task \in Requests
      BY DEF Message
    <3> QED
      BY <1>0, <2>1, <2>5, <3>1, <3>2 DEF QueueInv
  <2>7. WorkerInv'
    <3>1. \A w \in Workers : workers[w].msg \in Message => TaskOf(w) \in Requests
      BY DEF TaskOf, Message
    <3> QED
      BY <1>0, <2>1, <2>2, <2>5, <3>1 DEF WorkerInv, WorkerOk, TaskOf, OpOf, LogOf, Live
  <2>8. EmbeddedHasPoint'
    BY <1>0, <2>1 DEF EmbeddedHasPoint, Live
  <2> QED
    BY <2>3, <2>4, <2>6, <2>7, <2>8 DEF Rest
<1> QED
  BY <1>1, <1>2, <1>3, <1>4, <1>5


\* The workers' actions leave the requests alone and no phase or content of a
\* row; all but Mark leave the rows alone.
LEMMA RowsKept ==
    ASSUME IInv, requests' = requests, rows' = rows
    PROVE  RequestInv' /\ RowInv'
BY DEF IInv, RequestInv, RequestOk, RowInv, Live

\* An action of one worker does not disturb what the others hold.
LEMMA OtherWorkers ==
    ASSUME IInv, NEW w \in Workers,
           requests' = requests,
           \A l \in Logs : Live(l)' => Live(l) /\ (points[l] # None => points'[l] # None),
           \A v \in Workers \ {w} : workers'[v] = workers[v],
           WorkerOk(w)'
    PROVE  WorkerInv'
<1> SUFFICES ASSUME NEW v \in Workers PROVE WorkerOk(v)'
  BY DEF WorkerInv, WorkerOk
<1>1. CASE v = w
  BY <1>1
<1>2. CASE v # w
  <2>1. WorkerOk(v) /\ workers'[v] = workers[v]
    BY <1>2 DEF IInv, WorkerInv, WorkerOk
  <2>2. workers[v].pc # "idle" => LogOf(v) \in Logs
    BY <2>1 DEF WorkerOk, IInv, RequestInv, RequestOk, Dispatched, LogOf, TaskOf, Message
  <2> QED
    BY <2>1, <2>2 DEF WorkerOk, Dispatched, TaskOf, OpOf, LogOf
<1> QED
  BY <1>1, <1>2

LEMMA WorkerRest ==
    ASSUME IInv, NEW w \in Workers, WorkerStep(w) \/ WorkerFault(w)
    PROVE  Rest'
<1> USE PipelineAssumption DEF history
<1>0. /\ TypeOK /\ RequestInv /\ RowInv /\ QueueInv /\ WorkerInv /\ EmbeddedHasPoint
      /\ workers \in [Workers -> Worker] /\ rows \in [Logs -> Row]
      /\ points \in [Logs -> Requests \cup {None}] /\ queue \in [Message -> Nat]
  BY DEF IInv, TypeOK
<1>1. workers[w].pc # "idle" =>
        /\ workers[w].msg \in Message
        /\ TaskOf(w) \in Requests /\ Dispatched(TaskOf(w))
        /\ LogOf(w) \in Logs /\ rows[LogOf(w)].phase # "absent"
  BY <1>0 DEF WorkerInv, WorkerOk, Dispatched, TaskOf, LogOf, Message, RequestInv, RequestOk
<1>2. ASSUME NEW m \in Message, Take(w, m) PROVE Rest'
  <2>1. /\ requests' = requests /\ rows' = rows /\ points' = points
        /\ queue' = [queue EXCEPT ![m] = @ - 1] /\ queue[m] > 0
        /\ workers' = [workers EXCEPT ![w] = [pc |-> "taken", msg |-> m, snap |-> None]]
    BY <1>2 DEF Take
  <2>2. QueueInv'
    BY <1>0, <2>1 DEF QueueInv, Dispatched
  <2>3. WorkerOk(w)'
    BY <1>0, <2>1 DEF WorkerOk, QueueInv, TaskOf, Dispatched
  <2>4. WorkerInv' /\ EmbeddedHasPoint'
    BY <1>0, <2>1, <2>3, OtherWorkers DEF EmbeddedHasPoint, Live
  <2> QED
    BY <2>1, <2>2, <2>4, RowsKept DEF Rest
<1>3. CASE Load(w)
  <2>1. /\ requests' = requests /\ rows' = rows /\ points' = points /\ queue' = queue
        /\ workers[w].pc = "taken" /\ OpOf(w) \in EmbedOps
    BY <1>3 DEF Load
  <2>2. QueueInv' /\ EmbeddedHasPoint'
    BY <1>0, <2>1 DEF QueueInv, Dispatched, EmbeddedHasPoint, Live
  <2>3. \/ workers' = [workers EXCEPT ![w] = [@ EXCEPT !.pc = "loaded",
                                                      !.snap = rows[LogOf(w)].content]]
        \/ workers' = [workers EXCEPT ![w] = [@ EXCEPT !.pc = "finishing"]]
    BY <1>3 DEF Load
  <2>4. rows[LogOf(w)].content \in Requests
    BY <1>0, <1>1, <2>1 DEF RowInv
  <2>5. WorkerOk(w)'
    <3>1. /\ workers'[w].msg = workers[w].msg
          /\ \/ workers'[w].pc = "loaded" /\ workers'[w].snap \in Requests
             \/ workers'[w].pc = "finishing"
      BY <1>0, <2>3, <2>4, ZenonT(30) DEF Worker
    <3> QED
      BY <1>1, <2>1, <3>1 DEF WorkerOk, TaskOf, OpOf, Dispatched
  <2>6. WorkerInv'
    BY <1>0, <2>1, <2>3, <2>5, OtherWorkers DEF Live
  <2> QED
    BY <2>1, <2>2, <2>6, RowsKept DEF Rest
<1>4. CASE Upsert(w)
  <2>1. /\ requests' = requests /\ rows' = rows /\ queue' = queue
        /\ workers[w].pc = "loaded" /\ workers' = [workers EXCEPT ![w].pc = "upserted"]
        /\ points' = [points EXCEPT ![LogOf(w)] = workers[w].snap]
    BY <1>4 DEF Upsert, Goto
  <2>2. workers[w].snap \in Requests /\ workers[w].snap # None /\ OpOf(w) \in EmbedOps
    BY <1>0, <2>1 DEF WorkerInv, WorkerOk
  <2>3. \A l \in Logs : points[l] # None => points'[l] # None
    BY <1>0, <2>1, <2>2
  <2>4. QueueInv' /\ EmbeddedHasPoint'
    BY <1>0, <2>1, <2>3 DEF QueueInv, Dispatched, EmbeddedHasPoint, Live
  <2>5. WorkerOk(w)'
    BY <1>0, <1>1, <2>1, <2>2 DEF WorkerOk, Worker, TaskOf, OpOf, LogOf, Dispatched
  <2>6. WorkerInv'
    BY <1>0, <2>1, <2>3, <2>5, OtherWorkers DEF Live
  <2> QED
    BY <2>1, <2>4, <2>6, RowsKept DEF Rest
<1>5. CASE Mark(w)
  <2>1. /\ requests' = requests /\ points' = points /\ queue' = queue
        /\ workers[w].pc = "upserted" /\ workers' = [workers EXCEPT ![w].pc = "finishing"]
    BY <1>5 DEF Mark, Goto
  <2>2. ASSUME NEW l \in Logs
        PROVE  /\ rows'[l].phase = rows[l].phase /\ rows'[l].content = rows[l].content
               /\ \/ rows'[l].status = rows[l].status
                  \/ rows'[l].status = "embedded" /\ l = LogOf(w)
    BY <1>0, <1>5 DEF Mark, Row
  <2>3. RequestInv'
    BY <1>0, <2>1, <2>2 DEF RequestInv, RequestOk, LogOps, EmbedOps, Live
  <2>8. RowInv' /\ QueueInv'
    BY <1>0, <2>1, <2>2 DEF RowInv, QueueInv, Dispatched
  <2>4. Live(LogOf(w)) => points[LogOf(w)] # None
    BY <1>0, <2>1 DEF WorkerInv, WorkerOk
  <2>5. EmbeddedHasPoint'
    BY <1>0, <2>1, <2>2, <2>4 DEF EmbeddedHasPoint, Live
  <2>6. WorkerOk(w)'
    BY <1>0, <1>1, <2>1 DEF WorkerOk, Worker, TaskOf, OpOf, Dispatched
  <2>7. WorkerInv'
    BY <1>0, <2>1, <2>2, <2>6, OtherWorkers DEF Live
  <2> QED
    BY <2>3, <2>5, <2>7, <2>8 DEF Rest
<1>6. CASE RemovePoint(w)
  <2>1. /\ requests' = requests /\ rows' = rows /\ queue' = queue
        /\ workers[w].pc = "taken" /\ workers' = [workers EXCEPT ![w].pc = "finishing"]
        /\ points' = [points EXCEPT ![LogOf(w)] = None]
    BY <1>6 DEF RemovePoint, Goto
  <2>2. ~Live(LogOf(w))
    BY <1>0, <1>1, <1>6, <2>1 DEF RemovePoint, OpOf, LogOf, Dispatched, RequestInv, RequestOk
  <2>3. \A l \in Logs : Live(l) => points'[l] = points[l]
    BY <1>0, <2>1, <2>2
  <2>4. QueueInv' /\ EmbeddedHasPoint'
    BY <1>0, <2>1, <2>3 DEF QueueInv, Dispatched, EmbeddedHasPoint, Live
  <2>5. WorkerOk(w)'
    BY <1>0, <1>1, <2>1 DEF WorkerOk, Worker, TaskOf, Dispatched
  <2>6. WorkerInv'
    BY <1>0, <2>1, <2>3, <2>5, OtherWorkers DEF Live
  <2> QED
    BY <2>1, <2>4, <2>6, RowsKept DEF Rest
<1>7. CASE Ack(w) \/ GiveUp(w) \/ Drop(w)
  <2>1. /\ requests' = requests /\ rows' = rows /\ queue' = queue /\ points' = points
        /\ \/ workers' = [workers EXCEPT ![w] = Idle]
           \/ workers[w].pc # "idle" /\ workers' = [workers EXCEPT ![w].pc = "acking"]
    BY <1>7 DEF Ack, GiveUp, Drop, Forget, Running, Goto
  <2>2. QueueInv' /\ EmbeddedHasPoint'
    BY <1>0, <2>1 DEF QueueInv, Dispatched, EmbeddedHasPoint, Live
  <2>3. WorkerOk(w)'
    BY <1>0, <1>1, <2>1 DEF WorkerOk, Worker, TaskOf, Dispatched, Idle
  <2>4. WorkerInv'
    BY <1>0, <2>1, <2>3, OtherWorkers DEF Live
  <2> QED
    BY <2>1, <2>2, <2>4, RowsKept DEF Rest
<1>8. CASE Retry(w)
  <2> DEFINE n == [workers[w].msg EXCEPT !.retries = @ + 1]
  <2>1. /\ requests' = requests /\ rows' = rows /\ points' = points
        /\ queue' = [queue EXCEPT ![n] = @ + 1]
        /\ workers[w].pc # "idle" /\ workers' = [workers EXCEPT ![w].pc = "acking"]
        /\ workers[w].msg.retries < MaxRetries
    BY <1>8 DEF Retry, Running, Goto
  <2>2. n \in Message /\ n.task = TaskOf(w)
    BY <1>1, <2>1, NextAttempt DEF TaskOf, Message
  <2> HIDE DEF n
  <2>3. QueueInv' /\ EmbeddedHasPoint'
    BY <1>0, <1>1, <2>1, <2>2 DEF QueueInv, Dispatched, EmbeddedHasPoint, Live
  <2>4. WorkerOk(w)'
    BY <1>0, <1>1, <2>1 DEF WorkerOk, Worker, TaskOf, Dispatched
  <2>5. WorkerInv'
    BY <1>0, <2>1, <2>4, OtherWorkers DEF Live
  <2> QED
    BY <2>1, <2>3, <2>5, RowsKept DEF Rest
<1>9. CASE Crash(w)
  <2>1. /\ requests' = requests /\ rows' = rows /\ points' = points
        /\ queue' = [queue EXCEPT ![workers[w].msg] = @ + 1]
        /\ workers[w].pc # "idle" /\ workers' = [workers EXCEPT ![w] = Idle]
    BY <1>9 DEF Crash
  <2>2. QueueInv' /\ EmbeddedHasPoint'
    BY <1>0, <1>1, <2>1 DEF QueueInv, Dispatched, EmbeddedHasPoint, Live, TaskOf
  <2>3. WorkerOk(w)'
    BY <1>0, <2>1 DEF WorkerOk, Idle
  <2>4. WorkerInv'
    BY <1>0, <2>1, <2>3, OtherWorkers DEF Live
  <2> QED
    BY <2>1, <2>2, <2>4, RowsKept DEF Rest
<1> QED
  BY <1>2, <1>3, <1>4, <1>5, <1>6, <1>7, <1>8, <1>9 DEF WorkerStep, WorkerFault

-----------------------------------------------------------------------------
(* The theorems.                                                           *)

LEMMA NextIInv == IInv /\ [Next]_vars => IInv'
<1> SUFFICES ASSUME IInv, [Next]_vars PROVE IInv'
  OBVIOUS
<1>1. CASE ApiNext
  BY <1>1, ApiType, ApiRest DEF ApiNext, IInv, Rest
<1>2. ASSUME NEW w \in Workers, WorkerStep(w) \/ WorkerFault(w) PROVE IInv'
  BY <1>2, WorkerType, WorkerRest DEF IInv, Rest
<1>3. CASE UNCHANGED vars
  BY <1>3 DEF vars, IInv, TypeOK, RequestInv, RequestOk, RowInv, QueueInv, WorkerInv, WorkerOk,
              EmbeddedHasPoint, Dispatched, TaskOf, OpOf, LogOf, Live
<1> QED
  BY <1>1, <1>2, <1>3 DEF Next

THEOREM Invariance == Spec => []IInv
BY InitIInv, NextIInv, PTL DEF Spec

\* Every variable keeps its type.
THEOREM TypeCorrect == Spec => []TypeOK
<1>1. IInv => TypeOK
  BY DEF IInv
<1> QED
  BY <1>1, Invariance, PTL

\* log_entry.py:9: an entry shown as embedded and not deleted has a point.
THEOREM EmbeddedEntriesHavePoints == Spec => []EmbeddedHasPoint
<1>1. IInv => EmbeddedHasPoint
  BY DEF IInv
<1> QED
  BY <1>1, Invariance, PTL


\* The delete task takes a point away only of an entry that is no longer live,
\* and an upsert never writes an empty point.
LEMMA PointStep ==
    ASSUME IInv, Next, NEW l \in Logs, points[l] # None, points'[l] = None
    PROVE  ~Live(l)
<1>1. CASE ApiNext
  BY <1>1 DEF ApiNext, CreateLog, LoadLog, CommitUpdate, CommitDelete, RowGone,
              DeleteContext, Dispatch, DispatchFails
<1>2. ASSUME NEW w \in Workers, WorkerStep(w) \/ WorkerFault(w) PROVE ~Live(l)
  <2>1. CASE Upsert(w)
    <3>1. workers[w].snap \in Requests
      BY <2>1 DEF IInv, WorkerInv, WorkerOk, Upsert
    <3> QED
      BY <2>1, <3>1, PipelineAssumption DEF Upsert, IInv, TypeOK
  <2>2. CASE RemovePoint(w)
    <3>1. l = LogOf(w)
      BY <2>2 DEF RemovePoint, IInv, TypeOK
    <3>2. TaskOf(w) \in Requests /\ Dispatched(TaskOf(w)) /\ RequestOk(TaskOf(w))
      BY <2>2 DEF RemovePoint, IInv, WorkerInv, WorkerOk, RequestInv, TaskOf, Message
    <3> QED
      BY <2>2, <3>1, <3>2 DEF RemovePoint, OpOf, LogOf, Dispatched, RequestOk
  <2>3. CASE points' = points
    BY <2>3
  <2> QED
    BY <1>2, <2>1, <2>2, <2>3 DEF WorkerStep, WorkerFault, Take, Load, Mark, Ack, Retry,
       GiveUp, Drop, Forget, Crash
<1> QED
  BY <1>1, <1>2 DEF Next

\* No step takes the point of a live entry out of the index.
THEOREM LivePointsKept == Spec => NoLivePointLost
<1>1. IInv /\ [Next]_vars => [\A l \in Logs : points[l] # None /\ points'[l] = None
                                              => ~Live(l)]_vars
  BY PointStep
<1> QED
  BY <1>1, Invariance, PTL DEF Spec, NoLivePointLost

-----------------------------------------------------------------------------
(* Pending entries have a task.                                            *)

\* A task that is outstanding for a row that stays live and pending stays
\* outstanding, is dropped, or marks the row.
LEMMA OutstandingStep ==
    ASSUME IInv, Next, NEW r \in Requests, Outstanding(r),
           requests[r].op \in EmbedOps,
           NEW l \in Logs, l = requests[r].log, Live(l)'
    PROVE  Outstanding(r)' \/ r \in lost' \/ rows'[l].status = "embedded"
<1> USE DEF history
<1>0. /\ requests \in [Requests -> Request] /\ rows \in [Logs -> Row]
      /\ queue \in [Message -> Nat] /\ workers \in [Workers -> Worker]
      /\ requests[r].log \in Logs /\ lost \in SUBSET Requests
      /\ RequestInv /\ RowInv /\ WorkerInv
  BY DEF IInv, TypeOK, RequestInv, RequestOk, LogOps
<1> DEFINE Waiting == \E m \in Message : m.task = r /\ queue[m] > 0
           At(w) == Running(w) /\ TaskOf(w) = r
<1>1. ASSUME ApiNext PROVE Outstanding(r)' \/ r \in lost'
  <2> PICK q \in Requests :
        \/ \E k \in Logs, c \in Contexts : CreateLog(q, k, c)
        \/ \E k \in Logs, op \in {"update", "delete"} : LoadLog(q, k, op)
        \/ CommitUpdate(q) \/ CommitDelete(q) \/ RowGone(q)
        \/ \E c \in Contexts : DeleteContext(q, c)
        \/ Dispatch(q) \/ DispatchFails(q)
    BY <1>1 DEF ApiNext
  <2>1. /\ workers' = workers
        /\ \A m \in Message : queue[m] > 0 => queue'[m] > 0
    BY <1>0, FirstDeliveryType DEF CreateLog, LoadLog, CommitUpdate, CommitDelete, RowGone,
       DeleteContext, Dispatch, DispatchFails
  <2>2. CASE Waiting \/ \E w \in Workers : At(w)
    <3>1. CASE Waiting
      BY <2>1, <3>1 DEF Outstanding
    <3>2. ASSUME NEW w \in Workers, At(w) PROVE Outstanding(r)'
      BY <2>1, <3>2 DEF Outstanding, Running, TaskOf
    <3> QED
      BY <2>2, <3>1, <3>2
  <2>3. CASE requests[r].pc = "committed"
    <3>1. CASE r # q
      BY <1>0, <2>3, <3>1 DEF CreateLog, LoadLog, CommitUpdate, CommitDelete, RowGone,
         DeleteContext, Dispatch, DispatchFails, Outstanding
    <3>2. CASE r = q
      <4>1. CASE Dispatch(q)
        <5>1. /\ FirstDelivery(r) \in Message /\ FirstDelivery(r).task = r
              /\ queue'[FirstDelivery(r)] > 0
          BY <1>0, <3>2, <4>1, FirstDeliveryType DEF Dispatch, FirstDelivery
        <5> QED
          BY <5>1 DEF Outstanding
      <4>2. CASE DispatchFails(q)
        BY <3>2, <4>2 DEF DispatchFails
      <4>3. ~RowGone(q)
        BY <3>2 DEF RowGone, Live
      <4> QED
        BY <2>3, <3>2, <4>1, <4>2, <4>3 DEF CreateLog, LoadLog, CommitUpdate, CommitDelete,
           DeleteContext
    <3> QED
      BY <3>1, <3>2
  <2> QED
    BY <2>2, <2>3 DEF Outstanding
<1>2. ASSUME NEW w \in Workers, WorkerStep(w) \/ WorkerFault(w)
      PROVE  Outstanding(r)' \/ r \in lost' \/ rows'[l].status = "embedded"
  <2>0. /\ workers[w].pc # "idle" => workers[w].msg \in Message
        /\ requests' = requests
    BY <1>0, <1>2 DEF WorkerInv, WorkerOk, WorkerStep, WorkerFault, Take, Load, Upsert, Mark,
       RemovePoint, Ack, Retry, GiveUp, Drop, Forget, Crash
  <2>1. CASE requests[r].pc = "committed"
    BY <2>0, <2>1 DEF Outstanding
  <2>2. ASSUME NEW v \in Workers, v # w, At(v) PROVE Outstanding(r)'
    <3>1. workers'[v] = workers[v]
      BY <1>0, <1>2, <2>2 DEF WorkerStep, WorkerFault, Take, Load, Upsert, Mark,
         RemovePoint, Ack, Retry, GiveUp, Drop, Forget, Crash, Goto
    <3> QED
      BY <2>2, <3>1 DEF Outstanding, Running, TaskOf
  <2>3. ASSUME NEW m \in Message, m.task = r, queue[m] > 0
        PROVE  Outstanding(r)' \/ r \in lost'
    <3>1. CASE Take(w, m)
      <4>1. workers'[w].pc = "taken" /\ workers'[w].msg = m
        BY <1>0, <3>1 DEF Take
      <4> QED
        BY <2>3, <4>1 DEF Outstanding, Running, TaskOf
    <3>2. CASE queue'[m] > 0
      BY <2>3, <3>2 DEF Outstanding
    <3>3. ASSUME NEW k \in Message, Take(w, k), k # m PROVE queue'[m] > 0
      BY <1>0, <2>3, <3>3 DEF Take
    <3>4. ASSUME Retry(w) PROVE queue'[m] > 0
      <4>1. [workers[w].msg EXCEPT !.retries = @ + 1] \in Message
        BY <2>0, <3>4, NextAttempt DEF Retry, Running
      <4> QED
        BY <1>0, <2>3, <3>4, <4>1 DEF Retry
    <3>5. ASSUME Crash(w) PROVE queue'[m] > 0
      BY <1>0, <2>0, <2>3, <3>5 DEF Crash
    <3>6. ASSUME queue' = queue PROVE queue'[m] > 0
      BY <2>3, <3>6
    <3> QED
      BY <1>2, <3>1, <3>2, <3>3, <3>4, <3>5, <3>6 DEF WorkerStep, WorkerFault, Load, Upsert,
         Mark, RemovePoint, Ack, GiveUp, Drop, Forget
  <2>4. ASSUME At(w)
        PROVE  Outstanding(r)' \/ r \in lost' \/ rows'[l].status = "embedded"
    <3>0. workers[w].pc \in {"taken", "loaded", "upserted"} /\ LogOf(w) = l
          /\ OpOf(w) \in EmbedOps
      BY <2>4 DEF Running, LogOf, OpOf
    <3>1. CASE Load(w)
      <4>1. rows' = rows
        BY <3>1 DEF Load
      <4>2. workers'[w].pc = "loaded" /\ workers'[w].msg = workers[w].msg
        BY <1>0, <3>0, <3>1, <4>1 DEF Load, Live, Worker
      <4> QED
        BY <2>4, <4>2 DEF Outstanding, Running, TaskOf
    <3>2. CASE Upsert(w)
      <4>1. workers'[w].pc = "upserted" /\ workers'[w].msg = workers[w].msg
        BY <1>0, <3>2 DEF Upsert, Goto, Worker
      <4> QED
        BY <2>4, <4>1 DEF Outstanding, Running, TaskOf
    <3>3. CASE Mark(w)
      BY <1>0, <3>0, <3>3 DEF Mark, Row, Present, Live
    <3>4. CASE Retry(w)
      <4> DEFINE n == [workers[w].msg EXCEPT !.retries = @ + 1]
      <4>1. n \in Message /\ n.task = r
        BY <2>0, <2>4, <3>0, <3>4, NextAttempt DEF Retry, TaskOf, Message
      <4>2. queue' = [queue EXCEPT ![n] = @ + 1]
        BY <3>4 DEF Retry
      <4> HIDE DEF n
      <4>3. queue'[n] > 0
        BY <1>0, <4>1, <4>2
      <4> QED
        BY <4>1, <4>3 DEF Outstanding
    <3>5. CASE Crash(w)
      <4>1. workers[w].msg \in Message /\ workers[w].msg.task = r
        BY <2>0, <2>4, <3>0 DEF TaskOf
      <4>2. queue'[workers[w].msg] > 0
        BY <1>0, <3>5, <4>1 DEF Crash
      <4> QED
        BY <4>1, <4>2 DEF Outstanding
    <3>6. CASE GiveUp(w) \/ Drop(w)
      BY <2>4, <3>6 DEF GiveUp, Drop, Forget
    <3>7. ~(RemovePoint(w) \/ Ack(w) \/ \E m \in Message : Take(w, m))
      BY <3>0 DEF RemovePoint, Ack, Take, EmbedOps
    <3> QED
      BY <1>2, <3>1, <3>2, <3>3, <3>4, <3>5, <3>6, <3>7 DEF WorkerStep, WorkerFault
  <2> QED
    BY <2>1, <2>2, <2>3, <2>4 DEF Outstanding
<1> QED
  BY <1>1, <1>2 DEF Next


\* A step that leaves an entry live changes its content or makes it pending only
\* as the commit of a create or update whose dispatch is still to come.
LEMMA ContentStep ==
    ASSUME IInv, Next, NEW l \in Logs, Live(l)'
    PROVE  \/ /\ Live(l)
              /\ rows'[l].content = rows[l].content
              /\ rows'[l].status = rows[l].status \/ rows'[l].status = "embedded"
           \/ requests'[rows'[l].content].pc = "committed"
<1> USE DEF history
<1>0. /\ requests \in [Requests -> Request] /\ rows \in [Logs -> Row]
      /\ RequestInv
  BY DEF IInv, TypeOK
<1>1. ASSUME NEW r \in Requests, NEW k \in Logs, NEW c \in Contexts, CreateLog(r, k, c)
      PROVE  requests'[r].pc = "committed" /\ (k = l => rows'[l].content = r)
             /\ (k # l => rows'[l] = rows[l])
  BY <1>0, <1>1 DEF CreateLog
<1>2. ASSUME NEW r \in Requests, CommitUpdate(r)
      PROVE  \/ rows'[l] = rows[l]
             \/ rows'[l].content = r /\ requests'[r].pc = "committed"
  <2>1. requests[r].log \in Logs
    BY <1>0, <1>2 DEF CommitUpdate, RequestInv, RequestOk, LogOps, EmbedOps
  <2> QED
    BY <1>0, <1>2, <2>1 DEF CommitUpdate, Row, Request
<1>3. ASSUME NEW r \in Requests, CommitDelete(r) PROVE rows'[l] = rows[l]
  BY <1>0, <1>3 DEF CommitDelete, Row, Live
<1>4. ASSUME NEW r \in Requests, NEW c \in Contexts, DeleteContext(r, c)
      PROVE  rows'[l] = rows[l]
  <2> DEFINE gone == Present(l) /\ rows[l].ctx = c
  <2>1. rows'[l] = IF gone THEN [rows[l] EXCEPT !.phase = "purged"] ELSE rows[l]
    BY <1>4, Zenon DEF DeleteContext
  <2>2. ~gone
    BY <1>0, <2>1 DEF Row, Live
  <2> QED
    BY <2>1, <2>2, Zenon
<1>5. ASSUME NEW w \in Workers, Mark(w)
      PROVE  /\ rows'[l].content = rows[l].content /\ rows'[l].phase = rows[l].phase
             /\ rows'[l].status = rows[l].status \/ rows'[l].status = "embedded"
  BY <1>0, <1>5 DEF Mark, Row
<1>6. \/ rows' = rows
      \/ \E r \in Requests :
            \/ \E k \in Logs, c \in Contexts : CreateLog(r, k, c)
            \/ CommitUpdate(r) \/ CommitDelete(r)
            \/ \E c \in Contexts : DeleteContext(r, c)
      \/ \E w \in Workers : Mark(w)
  BY DEF Next, ApiNext, WorkerStep, WorkerFault, LoadLog, RowGone, Dispatch, DispatchFails,
     Take, Load, Upsert, RemovePoint, Ack, Retry, GiveUp, Drop, Forget, Crash
<1> QED
  BY <1>1, <1>2, <1>3, <1>4, <1>5, <1>6 DEF Live

LEMMA PendingStep ==
    ASSUME IInv, IInv', PendingHasTask, Next PROVE PendingHasTask'
<1>1. \A l \in Logs : Live(l)' => rows'[l].content \in Requests
  BY DEF IInv, RowInv, Live
<1> SUFFICES ASSUME NEW l \in Logs, NEW r \in Requests, r = rows'[l].content,
                    Live(l)', rows'[l].status = "pending", r \notin lost'
             PROVE  Outstanding(r)'
  BY <1>1 DEF PendingHasTask, Settled
<1>2. CASE requests'[r].pc = "committed"
  BY <1>2 DEF Outstanding
<1>3. CASE Live(l) /\ rows[l].content = r /\ rows[l].status = "pending"
  <2>1. requests[r].op \in EmbedOps /\ requests[r].log = l
    BY <1>3 DEF IInv, RowInv, Live
  <2>2. lost \subseteq lost'
    BY DEF history, Next, ApiNext, WorkerStep, WorkerFault, CreateLog, LoadLog, CommitUpdate,
       CommitDelete, RowGone, DeleteContext, Dispatch, DispatchFails, Take, Load, Upsert,
       Mark, RemovePoint, Ack, Retry, GiveUp, Drop, Forget, Crash
  <2>3. Outstanding(r)
    BY <1>3, <2>2 DEF PendingHasTask, Settled
  <2> QED
    BY <2>1, <2>3, OutstandingStep
<1> QED
  BY <1>2, <1>3, ContentStep

\* log_entry.py:8: a live entry is pending only while the task of its last writer
\* is outstanding, unless a delivery of that task was dropped.
THEOREM PendingEntriesHaveTasks == Spec => []PendingHasTask
<1>1. Init => PendingHasTask
  BY DEF Init, PendingHasTask, Live
<1>2. IInv /\ IInv' /\ PendingHasTask /\ [Next]_vars => PendingHasTask'
  <2>1. CASE Next
    BY <2>1, PendingStep
  <2>2. CASE UNCHANGED vars
    BY <2>2 DEF vars, PendingHasTask, Live, Settled, Outstanding, Running, TaskOf
  <2> QED
    BY <2>1, <2>2
<1> QED
  BY <1>1, <1>2, Invariance, PTL DEF Spec


-----------------------------------------------------------------------------
(* The pipeline implements the documented lifecycle.                       *)

\* A step that changes neither a phase, a status nor a point is a stutter, and
\* one that changes a single row moves a single entry.
LEMMA PhaseMove ==
    ASSUME rows \in [Logs -> Row], NEW l \in Logs, NEW row \in Row,
           rows' = [rows EXCEPT ![l] = row]
    PROVE  PhaseMap' = [PhaseMap EXCEPT ![l] =
                            IF row.phase = "live" THEN row.status ELSE row.phase]
BY DEF PhaseMap, Live

\* Shown and kept: the phase an entry maps to, when its row is changed.
PhaseOf(row) == IF row.phase = "live" THEN row.status ELSE row.phase

LEMMA PhaseKept ==
    ASSUME rows \in [Logs -> Row], NEW l \in Logs, NEW row \in Row,
           rows' = [rows EXCEPT ![l] = row], PhaseOf(row) = PhaseOf(rows[l])
    PROVE  PhaseMap' = PhaseMap
<1>1. PhaseMap' = [PhaseMap EXCEPT ![l] = PhaseMap[l]]
  BY PhaseMove DEF PhaseOf, PhaseMap, Live
<1> QED
  BY <1>1 DEF PhaseMap

LEMMA LifecycleInit == Init => Lifecycle!Init
<1> SUFFICES ASSUME Init PROVE Lifecycle!Init
  OBVIOUS
<1>1. PhaseMap = [l \in Logs |-> "absent"]
  BY DEF Init, PhaseMap, Live
<1>2. IndexedMap = [l \in Logs |-> FALSE]
  <2>1. \A l \in Logs : (points[l] # None) = FALSE
    BY DEF Init
  <2> QED
    BY <2>1, Zenon DEF IndexedMap
<1> QED
  BY <1>1, <1>2 DEF Lifecycle!Init

LEMMA ApiRefines ==
    ASSUME IInv, IInv', ApiNext PROVE [Lifecycle!Next]_(Lifecycle!vars)
<1> USE DEF history
<1>0. /\ rows \in [Logs -> Row] /\ rows' \in [Logs -> Row] /\ RequestInv /\ RowInv
      /\ IndexedMap' = IndexedMap
  BY DEF IInv, TypeOK, IndexedMap, ApiNext, CreateLog, LoadLog, CommitUpdate, CommitDelete,
         RowGone, DeleteContext, Dispatch, DispatchFails
<1>1. ASSUME NEW r \in Requests, NEW l \in Logs, NEW c \in Contexts, CreateLog(r, l, c)
      PROVE  Lifecycle!Create(l)
  <2>1. rows' = [rows EXCEPT ![l] = rows'[l]] /\ rows'[l] \in Row
        /\ rows'[l].phase = "live" /\ rows'[l].status = "pending"
    BY <1>0, <1>1 DEF CreateLog
  <2>2. PhaseMap[l] = "absent" /\ PhaseMap' = [PhaseMap EXCEPT ![l] = "pending"]
    BY <1>0, <1>1, <2>1, PhaseMove DEF PhaseMap, Live, CreateLog
  <2> QED
    BY <1>0, <2>2 DEF Lifecycle!Create, Lifecycle!Move
<1>2. ASSUME NEW r \in Requests, CommitUpdate(r)
      PROVE  \/ Lifecycle!Edit(requests[r].log) /\ requests[r].log \in Logs
             \/ PhaseMap' = PhaseMap
  <2> DEFINE l == requests[r].log
             row == rows'[l]
  <2>1. l \in Logs
    BY <1>0, <1>2 DEF CommitUpdate, RequestInv, RequestOk, LogOps, EmbedOps
  <2>2. /\ rows' = [rows EXCEPT ![l] = row] /\ row \in Row
        /\ row.phase = rows[l].phase
        /\ row.status = rows[l].status \/ row.status = "pending"
    BY <1>0, <1>2, <2>1 DEF CommitUpdate, Row
  <2>3. CASE PhaseOf(row) = PhaseOf(rows[l])
    BY <1>0, <2>1, <2>2, <2>3, PhaseKept
  <2>4. CASE PhaseOf(row) # PhaseOf(rows[l])
    <3>1. /\ rows[l].phase = "live" /\ row.phase = "live" /\ row.status = "pending"
          /\ rows[l].status = "embedded"
      BY <1>0, <2>1, <2>2, <2>4 DEF PhaseOf, RowInv, Row, Status
    <3>2. PhaseMap[l] = "embedded" /\ PhaseMap' = [PhaseMap EXCEPT ![l] = "pending"]
      BY <1>0, <2>1, <2>2, <3>1, PhaseMove DEF PhaseMap, Live
    <3> QED
      BY <1>0, <2>1, <3>2 DEF Lifecycle!Edit, Lifecycle!Move
  <2> QED
    BY <2>3, <2>4
<1>3. ASSUME NEW r \in Requests, CommitDelete(r)
      PROVE  \/ Lifecycle!Delete(requests[r].log) /\ requests[r].log \in Logs
             \/ PhaseMap' = PhaseMap
  <2> DEFINE l == requests[r].log
             row == rows'[l]
  <2>1. l \in Logs
    BY <1>0, <1>3 DEF CommitDelete, RequestInv, RequestOk, LogOps, EmbedOps
  <2>2. rows' = [rows EXCEPT ![l] = row] /\ row \in Row /\ row.phase = "deleted"
    BY <1>0, <1>3, <2>1 DEF CommitDelete, Row
  <2>3. CASE rows[l].phase = "deleted"
    BY <1>0, <2>1, <2>2, <2>3, PhaseKept DEF PhaseOf
  <2>4. CASE rows[l].phase = "live"
    <3>1. PhaseMap[l] \in Lifecycle!Visible
      BY <1>0, <2>1, <2>4 DEF PhaseMap, Live, RowInv, Row, Status, Lifecycle!Visible
    <3>2. PhaseMap' = [PhaseMap EXCEPT ![l] = "deleted"]
      BY <1>0, <2>1, <2>2, PhaseMove
    <3> QED
      BY <1>0, <2>1, <3>1, <3>2 DEF Lifecycle!Delete, Lifecycle!Move
  <2> QED
    BY <1>3, <2>3, <2>4 DEF CommitDelete, Present
<1>4. ASSUME NEW r \in Requests, NEW c \in Contexts, DeleteContext(r, c)
      PROVE  Lifecycle!Purge({l \in Logs : Present(l) /\ rows[l].ctx = c})
  <2> DEFINE S == {l \in Logs : Present(l) /\ rows[l].ctx = c}
  <2>1. ASSUME NEW l \in S PROVE PhaseMap[l] \in Lifecycle!Visible \cup {"deleted"}
    BY <1>0 DEF PhaseMap, Present, Live, RowInv, Row, Status, Lifecycle!Visible
  <2>2. ASSUME NEW l \in Logs
        PROVE  PhaseMap'[l] = IF l \in S THEN "purged" ELSE PhaseMap[l]
    <3>1. rows'[l] = IF l \in S THEN [rows[l] EXCEPT !.phase = "purged"] ELSE rows[l]
      BY <1>4, Zenon DEF DeleteContext
    <3>2. rows[l] \in Row
      BY <1>0
    <3> HIDE DEF S
    <3>3. CASE l \in S
      BY <3>1, <3>2, <3>3 DEF PhaseMap, Live, Row
    <3>4. CASE l \notin S
      BY <3>1, <3>4 DEF PhaseMap, Live
    <3> QED
      BY <3>3, <3>4
  <2>3. PhaseMap' = [l \in Logs |-> IF l \in S THEN "purged" ELSE PhaseMap[l]]
    <3> HIDE DEF S
    <3>1. PhaseMap' = [l \in Logs |-> PhaseMap'[l]]
      BY DEF PhaseMap
    <3> QED
      BY <2>2, <3>1, Zenon
  <2> QED
    BY <1>0, <2>1, <2>3 DEF Lifecycle!Purge
<1>5. CASE rows' = rows
  BY <1>0, <1>5 DEF PhaseMap, Live, Lifecycle!vars
<1>6. \/ rows' = rows
      \/ \E r \in Requests :
            \/ \E l \in Logs, c \in Contexts : CreateLog(r, l, c)
            \/ CommitUpdate(r) \/ CommitDelete(r)
            \/ \E c \in Contexts : DeleteContext(r, c)
  BY DEF ApiNext, LoadLog, RowGone, Dispatch, DispatchFails
<1> QED
  BY <1>0, <1>1, <1>2, <1>3, <1>4, <1>5, <1>6 DEF Lifecycle!Next, Lifecycle!vars


LEMMA WorkerRefines ==
    ASSUME IInv, IInv', NEW w \in Workers, WorkerStep(w) \/ WorkerFault(w)
    PROVE  [Lifecycle!Next]_(Lifecycle!vars)
<1> USE PipelineAssumption DEF history
<1>0. /\ rows \in [Logs -> Row] /\ rows' \in [Logs -> Row] /\ RequestInv /\ RowInv
      /\ points \in [Logs -> Requests \cup {None}]
      /\ workers[w].pc # "idle" =>
             /\ WorkerOk(w) /\ LogOf(w) \in Logs /\ RequestOk(TaskOf(w))
             /\ Dispatched(TaskOf(w)) /\ rows[LogOf(w)].phase # "absent"
  BY DEF IInv, TypeOK, WorkerInv, WorkerOk, RequestInv, RequestOk, Dispatched, TaskOf,
         LogOf, Message
<1> DEFINE l == LogOf(w)
<1>1. CASE Upsert(w)
  <2>1. l \in Logs /\ rows[l].phase # "absent" /\ rows' = rows
        /\ workers[w].snap # None /\ points' = [points EXCEPT ![l] = workers[w].snap]
    BY <1>0, <1>1 DEF Upsert, WorkerOk
  <2>2. \A k \in Logs : (points'[k] # None) = IF k = l THEN TRUE ELSE points[k] # None
    BY <1>0, <2>1
  <2>3. IndexedMap' = [IndexedMap EXCEPT ![l] = TRUE]
    BY <2>1, <2>2, Zenon DEF IndexedMap
  <2>4. PhaseMap' = PhaseMap /\ PhaseMap[l] # "absent"
    BY <1>0, <2>1 DEF PhaseMap, Live, Row, Status
  <2>5. Lifecycle!Index(l)
    BY <2>3, <2>4 DEF Lifecycle!Index
  <2> QED
    BY <2>1, <2>5 DEF Lifecycle!Next
<1>2. CASE RemovePoint(w)
  <2>1. l \in Logs /\ rows' = rows /\ points' = [points EXCEPT ![l] = None]
        /\ ~Live(l) /\ rows[l].phase # "absent"
    BY <1>0, <1>2 DEF RemovePoint, OpOf, LogOf, Dispatched, RequestOk
  <2>2. \A k \in Logs : (points'[k] # None) = IF k = l THEN FALSE ELSE points[k] # None
    BY <1>0, <2>1
  <2>3. IndexedMap' = [IndexedMap EXCEPT ![l] = FALSE]
    BY <2>1, <2>2, Zenon DEF IndexedMap
  <2>4. PhaseMap' = PhaseMap /\ PhaseMap[l] \in {"deleted", "purged"}
    BY <1>0, <2>1 DEF PhaseMap, Live, Row, Phase
  <2>5. Lifecycle!Unindex(l)
    BY <2>3, <2>4 DEF Lifecycle!Unindex
  <2> QED
    BY <2>1, <2>5 DEF Lifecycle!Next
<1>3. CASE Mark(w)
  <2>1. l \in Logs /\ points' = points /\ (Live(l) => points[l] # None)
    BY <1>0, <1>3 DEF Mark, WorkerOk
  <2>2. IndexedMap' = IndexedMap /\ (Live(l) => IndexedMap[l])
    BY <2>1 DEF IndexedMap
  <2>3. CASE rows' = rows
    BY <2>2, <2>3 DEF PhaseMap, Live, Lifecycle!vars
  <2>4. CASE rows' # rows
    <3> DEFINE row == rows'[l]
    <3>1. /\ rows' = [rows EXCEPT ![l] = row] /\ row \in Row /\ Present(l)
          /\ row.phase = rows[l].phase /\ row.status = "embedded"
      BY <1>0, <1>3, <2>1, <2>4 DEF Mark, Row
    <3>2. CASE PhaseOf(row) = PhaseOf(rows[l])
      BY <1>0, <2>1, <2>2, <3>1, <3>2, PhaseKept DEF Lifecycle!vars
    <3>3. CASE PhaseOf(row) # PhaseOf(rows[l])
      <4>1. Live(l) /\ rows[l].status = "pending"
        BY <1>0, <2>1, <3>1, <3>3 DEF PhaseOf, RowInv, Row, Status, Live
      <4>2. PhaseMap[l] = "pending" /\ PhaseMap' = [PhaseMap EXCEPT ![l] = "embedded"]
        BY <1>0, <2>1, <3>1, <4>1, PhaseMove DEF PhaseMap, Live
      <4>3. Lifecycle!Confirm(l)
        BY <2>2, <4>1, <4>2 DEF Lifecycle!Confirm, Lifecycle!Move
      <4> QED
        BY <2>1, <4>3 DEF Lifecycle!Next
    <3> QED
      BY <3>2, <3>3
  <2> QED
    BY <2>3, <2>4
<1>4. CASE rows' = rows /\ points' = points
  BY <1>4 DEF PhaseMap, IndexedMap, Live, Lifecycle!vars
<1> QED
  BY <1>1, <1>2, <1>3, <1>4 DEF WorkerStep, WorkerFault, Take, Load, Ack, Retry, GiveUp,
     Drop, Forget, Crash

\* Every behaviour of requests, broker and workers is one of the lifecycle that
\* log_entry.py documents: "embedded" only with a point in the index, points taken
\* out only of entries nobody can see.
THEOREM PipelineRefinesLifecycle == Spec => ImplementsLifecycle
<1>1. IInv /\ IInv' /\ [Next]_vars => [Lifecycle!Next]_(Lifecycle!vars)
  <2> SUFFICES ASSUME IInv, IInv', [Next]_vars PROVE [Lifecycle!Next]_(Lifecycle!vars)
    OBVIOUS
  <2>1. CASE UNCHANGED vars
    BY <2>1 DEF vars, Lifecycle!vars, PhaseMap, IndexedMap, Live
  <2> QED
    BY <2>1, ApiRefines, WorkerRefines DEF Next
<1> QED
  BY <1>1, LifecycleInit, Invariance, PTL DEF Spec, ImplementsLifecycle, Lifecycle!Spec

-----------------------------------------------------------------------------
(* The pipeline implements the index that the queries read.                *)

\* A row that changes moves the one entry of the index.
LEMMA IndexRow ==
    ASSUME NEW l \in Logs, NEW row, rows' = [rows EXCEPT ![l] = row],
           rows \in [Logs -> Row]
    PROVE  IndexRows' = [IndexRows EXCEPT ![l] = [phase |-> row.phase, ctx |-> row.ctx]]
BY DEF IndexRows

LEMMA IndexRowKept ==
    ASSUME \A l \in Logs : rows'[l].phase = rows[l].phase /\ rows'[l].ctx = rows[l].ctx
    PROVE  IndexRows' = IndexRows
BY DEF IndexRows

\* A request changes its own row only until its task is dispatched; what a worker
\* carries, it carries for a dispatched task.
LEMMA CarriedKept ==
    ASSUME IInv, NEW r \in Requests, ~Dispatched(r), workers' = workers,
           \A t \in Requests \ {r} : requests'[t] = requests[t]
    PROVE  Carried' = Carried
<1>1. ASSUME NEW w \in Workers, workers[w].pc = "loaded"
      PROVE  LogOf(w)' = LogOf(w)
  <2>1. TaskOf(w) \in Requests \ {r}
    BY <1>1 DEF IInv, WorkerInv, WorkerOk, TaskOf, Message
  <2> QED
    BY <2>1 DEF LogOf, TaskOf
<1> QED
  BY <1>1, Zenon DEF Carried

LEMMA IndexInit == Init => Index!Init
<1> SUFFICES ASSUME Init PROVE Index!Init
  OBVIOUS
<1>1. IndexRows = [l \in Logs |-> [phase |-> "absent", ctx |-> None]]
  BY DEF Init, IndexRows
<1>2. Carried = {} /\ Indexed = {}
  BY DEF Init, Carried, Indexed, Idle
<1> QED
  BY <1>1, <1>2 DEF Init, Index!Init

LEMMA ApiIndexes ==
    ASSUME IInv, ApiNext PROVE [Index!Next]_(Index!vars)
<1> USE DEF history
<1>0. /\ rows \in [Logs -> Row] /\ requests \in [Requests -> Request] /\ RequestInv
      /\ points' = points /\ workers' = workers /\ Indexed' = Indexed
  BY DEF IInv, TypeOK, Indexed, ApiNext, CreateLog, LoadLog, CommitUpdate, CommitDelete,
         RowGone, DeleteContext, Dispatch, DispatchFails
<1> PICK r \in Requests :
        \/ \E l \in Logs, c \in Contexts : CreateLog(r, l, c)
        \/ \E l \in Logs, op \in {"update", "delete"} : LoadLog(r, l, op)
        \/ CommitUpdate(r) \/ CommitDelete(r) \/ RowGone(r)
        \/ \E c \in Contexts : DeleteContext(r, c)
        \/ Dispatch(r) \/ DispatchFails(r)
  BY DEF ApiNext
<1>1. Carried' = Carried
  <2>1. ~Dispatched(r) /\ \A t \in Requests \ {r} : requests'[t] = requests[t]
    BY <1>0 DEF Dispatched, RequestInv, RequestOk, CreateLog, LoadLog, CommitUpdate,
       CommitDelete, RowGone, DeleteContext, Dispatch, DispatchFails
  <2> QED
    BY <1>0, <2>1, CarriedKept
<1>2. ASSUME NEW l \in Logs, NEW c \in Contexts, CreateLog(r, l, c)
      PROVE  Index!CreateLog(l, c)
  <2>1. IndexRows' = [IndexRows EXCEPT ![l] = [phase |-> "live", ctx |-> c]]
    BY <1>0, <1>2, IndexRow DEF CreateLog
  <2>2. IndexRows[l].phase = "absent"
    BY <1>2 DEF CreateLog, IndexRows
  <2>3. c \in contexts /\ contexts' = contexts
    BY <1>2 DEF CreateLog
  <2> QED
    BY <1>0, <1>1, <2>1, <2>2, <2>3 DEF Index!CreateLog
<1>3. CASE CommitUpdate(r)
  <2>1. \A l \in Logs : rows'[l].phase = rows[l].phase /\ rows'[l].ctx = rows[l].ctx
    BY <1>0, <1>3 DEF CommitUpdate, Row
  <2>2. IndexRows' = IndexRows /\ contexts' = contexts
    BY <1>3, <2>1, IndexRowKept DEF CommitUpdate
  <2> QED
    BY <1>0, <1>1, <2>2 DEF Index!vars
<1>4. CASE CommitDelete(r)
  <2> DEFINE l == requests[r].log
  <2>1. l \in Logs
    BY <1>0, <1>4 DEF CommitDelete, RequestInv, RequestOk, LogOps
  <2>2. CASE Live(l)
    <3>1. /\ rows' = [rows EXCEPT ![l] = [rows[l] EXCEPT !.phase = "deleted"]]
          /\ [rows[l] EXCEPT !.phase = "deleted"].phase = "deleted"
          /\ [rows[l] EXCEPT !.phase = "deleted"].ctx = rows[l].ctx
      BY <1>0, <1>4, <2>1 DEF CommitDelete, Row
    <3>2. IndexRows' = [IndexRows EXCEPT ![l] = [phase |-> "deleted", ctx |-> rows[l].ctx]]
      BY <1>0, <2>1, <3>1, IndexRow
    <3>3. IndexRows' = [IndexRows EXCEPT ![l].phase = "deleted"]
      BY <2>1, <3>2 DEF IndexRows
    <3>4. IndexRows[l].phase = "live" /\ contexts' = contexts
      BY <1>4, <2>1, <2>2 DEF IndexRows, Live, CommitDelete
    <3>5. Index!DeleteLog(l)
      BY <1>0, <1>1, <3>3, <3>4 DEF Index!DeleteLog
    <3> QED
      BY <2>1, <3>5 DEF Index!Next
  <2>3. CASE rows[l].phase = "deleted"
    <3>1. \A k \in Logs : rows'[k].phase = rows[k].phase /\ rows'[k].ctx = rows[k].ctx
      BY <1>0, <1>4, <2>1, <2>3 DEF CommitDelete, Row
    <3>2. IndexRows' = IndexRows /\ contexts' = contexts
      BY <1>4, <3>1, IndexRowKept DEF CommitDelete
    <3> QED
      BY <1>0, <1>1, <3>2 DEF Index!vars
  <2> QED
    BY <1>4, <2>2, <2>3 DEF CommitDelete, Present, Live
<1>5. ASSUME NEW c \in Contexts, DeleteContext(r, c)
      PROVE  Index!DeleteContext(c)
  <2> DEFINE Purged(row) == IF row.phase \in {"live", "deleted"} /\ row.ctx = c
                            THEN [row EXCEPT !.phase = "purged"] ELSE row
  <2>1. ASSUME NEW l \in Logs
        PROVE  [phase |-> rows'[l].phase, ctx |-> rows'[l].ctx] = Purged(IndexRows[l])
    <3>1. rows'[l] = IF Present(l) /\ rows[l].ctx = c
                     THEN [rows[l] EXCEPT !.phase = "purged"] ELSE rows[l]
      BY <1>5, Zenon DEF DeleteContext
    <3>2. rows[l] \in Row /\ IndexRows[l] = [phase |-> rows[l].phase, ctx |-> rows[l].ctx]
      BY <1>0 DEF IndexRows
    <3>3. CASE Present(l) /\ rows[l].ctx = c
      BY <3>1, <3>2, <3>3 DEF Present, Row
    <3>4. CASE ~(Present(l) /\ rows[l].ctx = c)
      BY <3>1, <3>2, <3>4 DEF Present
    <3> QED
      BY <3>3, <3>4
  <2> HIDE DEF Purged
  <2>2. IndexRows' = [l \in Logs |-> Purged(IndexRows[l])]
    BY <2>1, Zenon DEF IndexRows
  <2>3. c \in contexts /\ contexts' = contexts \ {c}
    BY <1>5 DEF DeleteContext
  <2> QED
    BY <1>0, <1>1, <2>2, <2>3 DEF Index!DeleteContext, Purged
<1>6. CASE rows' = rows /\ contexts' = contexts
  BY <1>0, <1>1, <1>6 DEF IndexRows, Index!vars
<1>7. \/ rows' = rows /\ contexts' = contexts
      \/ \E l \in Logs, c \in Contexts : CreateLog(r, l, c)
      \/ CommitUpdate(r) \/ CommitDelete(r)
      \/ \E c \in Contexts : DeleteContext(r, c)
  BY DEF LoadLog, RowGone, Dispatch, DispatchFails
<1>8. CASE \E l \in Logs, c \in Contexts : CreateLog(r, l, c)
  BY <1>2, <1>8 DEF Index!Next
<1>9. CASE \E c \in Contexts : DeleteContext(r, c)
  BY <1>5, <1>9 DEF Index!Next
<1> QED
  BY <1>3, <1>4, <1>6, <1>7, <1>8, <1>9

\* What the workers carry after a step of one of them.
LEMMA CarriedStep ==
    ASSUME NEW w \in Workers, requests' = requests,
           \A v \in Workers \ {w} : workers'[v] = workers[v]
    PROVE  /\ workers[w].pc = "loaded" => LogOf(w) \in Carried
           /\ workers[w].pc = "loaded" /\ workers'[w].pc # "loaded"
                  => Carried' \in {Carried, Carried \ {LogOf(w)}}
           /\ workers[w].pc # "loaded" /\ workers'[w].pc # "loaded" => Carried' = Carried
           /\ workers[w].pc # "loaded" /\ workers'[w].pc = "loaded"
                  => Carried' = Carried \cup {LogOf(w)'}
<1> DEFINE others == {LogOf(v) : v \in {u \in Workers \ {w} : workers[u].pc = "loaded"}}
<1>1. Carried = others \cup (IF workers[w].pc = "loaded" THEN {LogOf(w)} ELSE {})
  BY DEF Carried
<1>2. \A v \in Workers \ {w} : LogOf(v)' = LogOf(v)
  BY DEF LogOf, TaskOf
<1>3. Carried' = others \cup (IF workers'[w].pc = "loaded" THEN {LogOf(w)'} ELSE {})
  BY <1>2 DEF Carried
<1> HIDE DEF others
<1> QED
  BY <1>1, <1>3

LEMMA WorkerIndexes ==
    ASSUME IInv, NEW w \in Workers, WorkerStep(w) \/ WorkerFault(w)
    PROVE  [Index!Next]_(Index!vars)
<1> USE PipelineAssumption DEF history
<1> DEFINE l == LogOf(w)
<1>0. /\ points \in [Logs -> Requests \cup {None}] /\ workers \in [Workers -> Worker]
      /\ workers[w].pc # "idle" =>
             /\ WorkerOk(w) /\ l \in Logs /\ RequestOk(TaskOf(w))
             /\ Dispatched(TaskOf(w)) /\ rows[l].phase # "absent" /\ rows[l] \in Row
  BY DEF IInv, TypeOK, WorkerInv, WorkerOk, RequestInv, RequestOk, Dispatched, TaskOf,
         LogOf, Message
<1>1. /\ requests' = requests /\ contexts' = contexts
      /\ \A v \in Workers \ {w} : workers'[v] = workers[v]
  BY <1>0 DEF WorkerStep, WorkerFault, Take, Load, Upsert, Mark, RemovePoint, Ack, Retry, GiveUp,
     Drop, Forget, Crash, Goto
<1>2. IndexRows' = IndexRows
  <2>1. \A k \in Logs : rows'[k].phase = rows[k].phase /\ rows'[k].ctx = rows[k].ctx
    <3>1. CASE Mark(w)
      BY <3>1 DEF Mark, IInv, TypeOK, Row
    <3>2. CASE rows' = rows
      BY <3>2
    <3> QED
      BY <3>1, <3>2 DEF WorkerStep, WorkerFault, Take, Load, Upsert, RemovePoint, Ack, Retry,
         GiveUp, Drop, Forget, Crash
  <2> QED
    BY <2>1, IndexRowKept
<1>3. CASE Load(w)
  <2>1. points' = points /\ Indexed' = Indexed /\ workers[w].pc = "taken"
    BY <1>3 DEF Load, Indexed
  <2>2. CASE Live(l)
    <3>1. workers'[w].pc = "loaded" /\ LogOf(w)' = l
      BY <1>0, <1>1, <1>3, <2>2 DEF Load, LogOf, TaskOf, Worker
    <3>2. Carried' = Carried \cup {l}
      BY <1>1, <2>1, <3>1, CarriedStep
    <3>3. l \in Logs /\ IndexRows[l].phase = "live"
      BY <1>0, <2>1, <2>2 DEF IndexRows, Live
    <3>4. Index!LoadEntry(l)
      BY <1>1, <1>2, <2>1, <3>2, <3>3 DEF Index!LoadEntry
    <3> QED
      BY <3>3, <3>4 DEF Index!Next
  <2>3. CASE ~Live(l)
    <3>1. workers'[w].pc = "finishing"
      BY <1>0, <1>3, <2>3 DEF Load, Worker
    <3>2. Carried' = Carried
      BY <1>1, <2>1, <3>1, CarriedStep
    <3> QED
      BY <1>1, <1>2, <2>1, <3>2 DEF Index!vars
  <2> QED
    BY <2>2, <2>3
<1>4. CASE Upsert(w)
  <2>1. /\ workers[w].pc = "loaded" /\ workers'[w].pc = "upserted"
        /\ l \in Logs /\ workers[w].snap # None
        /\ points' = [points EXCEPT ![l] = workers[w].snap]
    BY <1>0, <1>4 DEF Upsert, Goto, WorkerOk
  <2>2. Indexed' = Indexed \cup {l}
    BY <1>0, <2>1 DEF Indexed
  <2>3. l \in Carried /\ Carried' \in {Carried, Carried \ {l}}
    BY <1>1, <2>1, CarriedStep
  <2>4. Index!Upsert(l)
    BY <1>1, <1>2, <2>2, <2>3 DEF Index!Upsert
  <2> QED
    BY <2>1, <2>4 DEF Index!Next
<1>5. CASE RemovePoint(w)
  <2>1. /\ workers[w].pc = "taken" /\ workers'[w].pc = "finishing"
        /\ l \in Logs /\ points' = [points EXCEPT ![l] = None]
        /\ rows[l].phase \in {"deleted", "purged"}
    BY <1>0, <1>5 DEF RemovePoint, Goto, OpOf, LogOf, Dispatched, RequestOk, Live, Row, Phase
  <2>2. Carried' = Carried
    BY <1>1, <2>1, CarriedStep
  <2>3. Indexed' = Indexed \ {l}
    BY <1>0, <2>1 DEF Indexed
  <2>4. CASE l \in Indexed
    <3>1. IndexRows[l].phase \in {"deleted", "purged"}
      BY <2>1 DEF IndexRows
    <3>2. Index!Unindex(l)
      BY <1>1, <1>2, <2>2, <2>3, <2>4, <3>1 DEF Index!Unindex
    <3> QED
      BY <2>1, <3>2 DEF Index!Next
  <2>5. CASE l \notin Indexed
    <3>1. Indexed' = Indexed
      BY <2>3, <2>5
    <3> QED
      BY <1>1, <1>2, <2>2, <3>1 DEF Index!vars
  <2> QED
    BY <2>4, <2>5
<1>6. CASE points' = points /\ workers'[w].pc # "loaded"
  <2>1. Indexed' = Indexed
    BY <1>6 DEF Indexed
  <2>2. CASE workers[w].pc = "loaded"
    <3>1. l \in Logs /\ l \in Carried /\ Carried' \in {Carried, Carried \ {l}}
      BY <1>0, <1>1, <1>6, <2>2, CarriedStep
    <3>2. CASE Carried' = Carried
      BY <1>1, <1>2, <2>1, <3>2 DEF Index!vars
    <3>3. CASE Carried' = Carried \ {l}
      <4>1. Index!UpsertFails(l)
        BY <1>1, <1>2, <2>1, <3>1, <3>3 DEF Index!UpsertFails
      <4> QED
        BY <3>1, <4>1 DEF Index!Next
    <3> QED
      BY <3>1, <3>2, <3>3
  <2>3. CASE workers[w].pc # "loaded"
    <3>1. Carried' = Carried
      BY <1>1, <1>6, <2>3, CarriedStep
    <3> QED
      BY <1>1, <1>2, <2>1, <3>1 DEF Index!vars
  <2> QED
    BY <2>2, <2>3
<1>7. \/ Load(w) \/ Upsert(w) \/ RemovePoint(w)
      \/ points' = points /\ workers'[w].pc # "loaded"
  BY <1>0 DEF WorkerStep, WorkerFault, Take, Mark, Ack, Retry, GiveUp, Drop, Forget, Crash, Goto,
     Idle, Worker
<1> QED
  BY <1>3, <1>4, <1>5, <1>6, <1>7

\* Every behaviour of the pipeline is one of the index RecallRetrieval reads: a
\* point is written only after its entry was seen live, and removed only once its
\* entry is gone (embedding_tasks.py:54-86, 182).
THEOREM PipelineRefinesIndex == Spec => ImplementsIndex
<1>1. IInv /\ [Next]_vars => [Index!Next]_(Index!vars)
  <2> SUFFICES ASSUME IInv, [Next]_vars PROVE [Index!Next]_(Index!vars)
    OBVIOUS
  <2>1. CASE UNCHANGED vars
    BY <2>1 DEF vars, Index!vars, IndexRows, Carried, Indexed, LogOf, TaskOf
  <2> QED
    BY <2>1, ApiIndexes, WorkerIndexes DEF Next
<1> QED
  BY <1>1, IndexInit, Invariance, PTL DEF Spec, ImplementsIndex, Index!Spec

-----------------------------------------------------------------------------
(* Points hold contents of their own entry, and only faults strand one.     *)

\* What a worker carries is a content of the entry it works on.
CarriesOwn ==
    \A w \in Workers :
        workers[w].pc = "loaded" => /\ requests[workers[w].snap].op \in EmbedOps
                                    /\ requests[workers[w].snap].log = LogOf(w)

\* A create or update keeps its entry.
LEMMA WritersKept ==
    ASSUME IInv, [Next]_vars, NEW t \in Requests, requests[t].op \in EmbedOps
    PROVE  requests'[t].op = requests[t].op /\ requests'[t].log = requests[t].log
<1> USE DEF history
<1>0. requests \in [Requests -> Request] /\ RequestOk(t)
  BY DEF IInv, TypeOK, RequestInv
<1>1. requests[t].pc # "idle"
  BY <1>0 DEF RequestOk, LogOps
<1>2. CASE UNCHANGED vars
  BY <1>2 DEF vars
<1>3. CASE ApiNext
  <2>1. PICK r \in Requests :
          \/ \E l \in Logs, c \in Contexts : CreateLog(r, l, c)
          \/ \E l \in Logs, op \in {"update", "delete"} : LoadLog(r, l, op)
          \/ CommitUpdate(r) \/ CommitDelete(r) \/ RowGone(r)
          \/ \E c \in Contexts : DeleteContext(r, c)
          \/ Dispatch(r) \/ DispatchFails(r)
    BY <1>3 DEF ApiNext
  <2>2. CASE r # t
    BY <1>0, <2>1, <2>2 DEF CreateLog, LoadLog, CommitUpdate, CommitDelete, RowGone,
       DeleteContext, Dispatch, DispatchFails
  <2>3. CASE r = t
    <3>1. CommitUpdate(r) \/ CommitDelete(r) \/ RowGone(r) \/ Dispatch(r) \/ DispatchFails(r)
      BY <1>1, <2>1, <2>3 DEF CreateLog, LoadLog, DeleteContext
    <3>2. requests[t] \in Request
      BY <1>0
    <3> QED
      BY <1>0, <2>3, <3>1, <3>2 DEF CommitUpdate, CommitDelete, RowGone, Dispatch,
         DispatchFails, Request
  <2> QED
    BY <2>2, <2>3
<1>4. ASSUME NEW w \in Workers, WorkerStep(w) \/ WorkerFault(w) PROVE requests' = requests
  BY <1>4 DEF WorkerStep, WorkerFault, Take, Load, Upsert, Mark, RemovePoint, Ack, Retry, GiveUp,
     Drop, Forget, Crash
<1> QED
  BY <1>2, <1>3, <1>4 DEF Next

\* The requests touch no point and no worker.
LEMMA OwnApi ==
    ASSUME IInv, PointsAreOwn, CarriesOwn, ApiNext PROVE PointsAreOwn' /\ CarriesOwn'
<1> USE PipelineAssumption DEF history
<1>1. points' = points /\ workers' = workers /\ Next
  BY DEF Next, ApiNext, CreateLog, LoadLog, CommitUpdate, CommitDelete, RowGone, DeleteContext,
     Dispatch, DispatchFails
<1>2. PointsAreOwn'
  <2> SUFFICES ASSUME NEW l \in Logs, points[l] # None
               PROVE  /\ requests'[points[l]].op \in EmbedOps
                      /\ requests'[points[l]].log = l
    BY <1>1 DEF PointsAreOwn
  <2>1. points[l] \in Requests
    BY DEF IInv, TypeOK
  <2> QED
    BY <1>1, <2>1, WritersKept DEF PointsAreOwn
<1>3. CarriesOwn'
  <2> SUFFICES ASSUME NEW w \in Workers, workers[w].pc = "loaded"
               PROVE  /\ requests'[workers[w].snap].op \in EmbedOps
                      /\ requests'[workers[w].snap].log = LogOf(w)'
    BY <1>1 DEF CarriesOwn
  <2>1. /\ workers[w].snap \in Requests /\ TaskOf(w) \in Requests
        /\ requests[TaskOf(w)].op \in EmbedOps
    BY DEF IInv, WorkerInv, WorkerOk, TaskOf, OpOf, Message
  <2>2. LogOf(w)' = LogOf(w)
    BY <1>1, <2>1, WritersKept DEF LogOf, TaskOf
  <2> QED
    BY <1>1, <2>1, <2>2, WritersKept DEF CarriesOwn
<1> QED
  BY <1>2, <1>3

\* A worker embeds what it read of its entry, and upserts under that entry's id.
LEMMA OwnWorker ==
    ASSUME IInv, PointsAreOwn, CarriesOwn, NEW w \in Workers, WorkerStep(w) \/ WorkerFault(w)
    PROVE  PointsAreOwn' /\ CarriesOwn'
<1> USE PipelineAssumption DEF history
<1>0. /\ workers \in [Workers -> Worker] /\ points \in [Logs -> Requests \cup {None}]
      /\ WorkerInv /\ RowInv /\ RequestInv
  BY DEF IInv, TypeOK
<1>1. /\ requests' = requests
      /\ \A v \in Workers \ {w} : workers'[v] = workers[v]
  BY <1>0 DEF WorkerStep, WorkerFault, Take, Load, Upsert, Mark, RemovePoint, Ack, Retry, GiveUp,
     Drop, Forget, Crash, Goto
<1>2. CASE Load(w)
  <2>1. CASE Live(LogOf(w))
    <3> DEFINE l == LogOf(w)
    <3>1. /\ points' = points /\ LogOf(w)' = l
          /\ workers'[w].snap = rows[l].content
      BY <1>0, <1>1, <1>2, <2>1 DEF Load, LogOf, TaskOf, Worker
    <3>2. l \in Logs
      BY <1>0, <1>2 DEF Load, WorkerInv, WorkerOk, Dispatched, RequestInv, RequestOk, LogOf, TaskOf,
         Message
    <3>3. requests[rows[l].content].op \in EmbedOps /\ requests[rows[l].content].log = l
      BY <1>0, <2>1, <3>2 DEF RowInv, Live
    <3>4. PointsAreOwn'
      BY <1>1, <3>1 DEF PointsAreOwn
    <3>5. \A v \in Workers \ {w} : LogOf(v)' = LogOf(v)
      BY <1>1 DEF LogOf, TaskOf
    <3> HIDE DEF l
    <3>6. CarriesOwn'
      BY <1>1, <3>1, <3>3, <3>5 DEF CarriesOwn
    <3> QED
      BY <3>4, <3>6
  <2>2. CASE ~Live(LogOf(w))
    <3>1. points' = points /\ workers'[w].pc = "finishing"
      BY <1>0, <1>2, <2>2 DEF Load, Worker
    <3> QED
      BY <1>1, <3>1 DEF PointsAreOwn, CarriesOwn, LogOf, TaskOf
  <2> QED
    BY <2>1, <2>2
<1>3. CASE Upsert(w)
  <2>1. /\ workers[w].pc = "loaded" /\ workers'[w].pc = "upserted"
        /\ points' = [points EXCEPT ![LogOf(w)] = workers[w].snap]
    BY <1>0, <1>3 DEF Upsert, Goto, Worker
  <2>2. PointsAreOwn'
    BY <1>0, <1>1, <2>1 DEF PointsAreOwn, CarriesOwn
  <2>3. CarriesOwn'
    BY <1>1, <2>1 DEF CarriesOwn, LogOf, TaskOf
  <2> QED
    BY <2>2, <2>3
<1>4. CASE /\ \A l \in Logs : points'[l] \in {points[l], None}
           /\ workers'[w].pc # "loaded"
  BY <1>1, <1>4 DEF PointsAreOwn, CarriesOwn, LogOf, TaskOf
<1>5. \/ Load(w) \/ Upsert(w)
      \/ /\ \A l \in Logs : points'[l] \in {points[l], None}
         /\ workers'[w].pc # "loaded"
  BY <1>0 DEF WorkerStep, WorkerFault, Take, Mark, RemovePoint, Ack, Retry, GiveUp, Drop, Forget,
     Crash, Goto, Idle, Worker
<1> QED
  BY <1>2, <1>3, <1>4, <1>5

\* No vector of one entry under the id of another, for any number of workers and
\* however late or often a task runs (embedding_tasks.py:68-86).
THEOREM PointsComeFromOwnEntry == Spec => []PointsAreOwn
<1>1. Init => PointsAreOwn /\ CarriesOwn
  BY DEF Init, PointsAreOwn, CarriesOwn, Idle
<1>2. IInv /\ PointsAreOwn /\ CarriesOwn /\ [Next]_vars => PointsAreOwn' /\ CarriesOwn'
  <2> SUFFICES ASSUME IInv, PointsAreOwn, CarriesOwn, [Next]_vars
               PROVE  PointsAreOwn' /\ CarriesOwn'
    OBVIOUS
  <2>1. CASE UNCHANGED vars
    BY <2>1 DEF vars, PointsAreOwn, CarriesOwn, LogOf, TaskOf
  <2> QED
    BY <2>1, OwnApi, OwnWorker DEF Next
<1> QED
  BY <1>1, <1>2, Invariance, PTL DEF Spec

\* No task was lost: neither to a refused dispatch, a crash nor the last retry.
NothingLost == lost = {}

\* Every loss is a fault, and MaxFaults bounds those.
LEMMA NoFaultNoLoss == MaxFaults = 0 /\ IInv /\ NothingLost /\ [Next]_vars => NothingLost'
<1> SUFFICES ASSUME MaxFaults = 0, IInv, NothingLost, [Next]_vars PROVE lost' = {}
  BY DEF NothingLost
<1>1. ~Fault
  BY DEF IInv, TypeOK, Fault
<1> QED
  BY <1>1 DEF NothingLost, Next, ApiNext, WorkerStep, WorkerFault, CreateLog, LoadLog,
     CommitUpdate, CommitDelete, RowGone, DeleteContext, Dispatch, DispatchFails, Take, Load,
     Upsert, Mark, RemovePoint, Ack, Retry, GiveUp, Drop, Forget, Crash, history, vars

\* Without faults every pending entry has its task on the way (log_entry.py:8,
\* "Celery task dispatched"): only crashes, refused dispatches and exhausted
\* retries strand one.
THEOREM FaultlessTasksAreKept == MaxFaults = 0 /\ Spec => []PendingOutstanding
<1>1. Init => NothingLost
  BY DEF Init, NothingLost
<1>2. NothingLost /\ PendingHasTask => PendingOutstanding
  BY DEF NothingLost, PendingHasTask, PendingOutstanding, Settled
<1>3. ASSUME MaxFaults = 0 PROVE Spec => []PendingOutstanding
  <2>1. IInv /\ NothingLost /\ [Next]_vars => NothingLost'
    BY <1>3, NoFaultNoLoss
  <2> QED
    BY <1>1, <1>2, <2>1, Invariance, PendingEntriesHaveTasks, PTL DEF Spec
<1> QED
  BY <1>3

-----------------------------------------------------------------------------
(* One worker: the point follows the content, and goes with the entry.     *)
(*                                                                         *)
(* Tasks then run one after the other.  What a worker has loaded is the    *)
(* content, or was replaced by a request whose task still waits; that task *)
(* upserts, or removes, after the one at work.                             *)

OneWorker == \A v, w \in Workers : v = w

\* The task of r is not taken yet, or will not be finished.
Waiting(r) ==
    \/ r \in lost
    \/ requests[r].pc = "committed"
    \/ \E m \in Message : m.task = r /\ queue[m] > 0
Holds(w, r)      == workers[w].pc = "taken" /\ TaskOf(w) = r
Embeds(w, l)     == workers[w].pc = "loaded" /\ LogOf(w) = l
Deletes(r, l)    == requests[r].op = "delete" /\ requests[r].log = l
\* w is about to write r, the content of r's own task.
Carries(w, r)    == workers[w].pc = "loaded" /\ TaskOf(w) = r /\ workers[w].snap = r

EditOk(l) ==
    LET r == rows[l].content
    IN  Live(l) =>
          /\ points[l] # r => \/ Waiting(r)
                              \/ \E w \in Workers : Holds(w, r) \/ Carries(w, r)
          /\ \A w \in Workers : Embeds(w, l) /\ workers[w].snap # r => Waiting(r)

DeleteOk(l) ==
    rows[l].phase = "deleted" =>
        /\ points[l] # None => \E r \in Requests :
              Deletes(r, l) /\ (Waiting(r) \/ \E w \in Workers : Holds(w, r))
        /\ \A w \in Workers : Embeds(w, l) => \E r \in Requests : Deletes(r, l) /\ Waiting(r)

SerialInv == \A l \in Logs : EditOk(l) /\ DeleteOk(l)

\* A task that waits is taken, or waits on.
LEMMA WaitingStep ==
    ASSUME IInv, Next, NEW r \in Requests, Waiting(r), requests[r].op \in LogOps,
           requests[r].op \in EmbedOps => rows[requests[r].log].phase # "purged"
    PROVE  Waiting(r)' \/ \E w \in Workers, m \in Message : Take(w, m) /\ m.task = r
<1> USE DEF history
<1>0. /\ requests \in [Requests -> Request] /\ queue \in [Message -> Nat]
      /\ lost \in SUBSET Requests /\ WorkerInv
  BY DEF IInv, TypeOK
<1>1. CASE r \in lost
  <2>1. lost \subseteq lost'
    BY DEF Next, ApiNext, WorkerStep, WorkerFault, CreateLog, LoadLog, CommitUpdate,
       CommitDelete, RowGone, DeleteContext, Dispatch, DispatchFails, Take, Load, Upsert,
       Mark, RemovePoint, Ack, Retry, GiveUp, Drop, Forget, Crash
  <2> QED
    BY <1>1, <2>1 DEF Waiting
<1>2. CASE requests[r].pc = "committed"
  <2>1. CASE ApiNext
    <3> PICK q \in Requests :
          \/ \E k \in Logs, c \in Contexts : CreateLog(q, k, c)
          \/ \E k \in Logs, op \in {"update", "delete"} : LoadLog(q, k, op)
          \/ CommitUpdate(q) \/ CommitDelete(q) \/ RowGone(q)
          \/ \E c \in Contexts : DeleteContext(q, c)
          \/ Dispatch(q) \/ DispatchFails(q)
      BY <2>1 DEF ApiNext
    <3>1. CASE r # q
      BY <1>0, <1>2, <3>1 DEF CreateLog, LoadLog, CommitUpdate, CommitDelete, RowGone,
         DeleteContext, Dispatch, DispatchFails, Waiting
    <3>2. CASE r = q /\ Dispatch(q)
      <4>1. /\ FirstDelivery(r) \in Message /\ FirstDelivery(r).task = r
            /\ queue'[FirstDelivery(r)] > 0
        BY <1>0, <3>2, FirstDeliveryType DEF Dispatch, FirstDelivery
      <4> QED
        BY <4>1 DEF Waiting
    <3>3. CASE r = q /\ DispatchFails(q)
      BY <3>3 DEF DispatchFails, Waiting
    <3>4. r = q => ~RowGone(q)
      BY <1>2 DEF RowGone
    <3> QED
      BY <1>2, <3>1, <3>2, <3>3, <3>4 DEF CreateLog, LoadLog, CommitUpdate, CommitDelete,
         DeleteContext
  <2>2. CASE requests' = requests
    BY <1>2, <2>2 DEF Waiting
  <2> QED
    BY <2>1, <2>2 DEF Next, WorkerStep, WorkerFault, Take, Load, Upsert, Mark, RemovePoint, Ack,
       Retry, GiveUp, Drop, Forget, Crash
<1>3. ASSUME NEW m \in Message, m.task = r, queue[m] > 0
      PROVE  Waiting(r)' \/ \E w \in Workers, k \in Message : Take(w, k) /\ k.task = r
  <2>1. CASE ApiNext
    <3>1. queue'[m] > 0
      BY <1>0, <1>3, <2>1, FirstDeliveryType DEF ApiNext, CreateLog, LoadLog, CommitUpdate,
         CommitDelete, RowGone, DeleteContext, Dispatch, DispatchFails
    <3> QED
      BY <1>3, <3>1 DEF Waiting
  <2>2. ASSUME NEW w \in Workers, WorkerStep(w) \/ WorkerFault(w), ~Take(w, m)
        PROVE  queue'[m] > 0
    <3>0. workers[w].pc # "idle" => workers[w].msg \in Message
      BY <1>0 DEF WorkerInv, WorkerOk
    <3>1. ASSUME NEW k \in Message, Take(w, k) PROVE queue'[m] > 0
      BY <1>0, <1>3, <2>2, <3>1 DEF Take
    <3>2. ASSUME Retry(w) PROVE queue'[m] > 0
      <4>1. [workers[w].msg EXCEPT !.retries = @ + 1] \in Message
        BY <3>0, <3>2, NextAttempt DEF Retry, Running
      <4> QED
        BY <1>0, <1>3, <3>2, <4>1 DEF Retry
    <3>3. ASSUME Crash(w) PROVE queue'[m] > 0
      BY <1>0, <1>3, <3>0, <3>3 DEF Crash
    <3>4. ASSUME queue' = queue PROVE queue'[m] > 0
      BY <1>3, <3>4
    <3> QED
      BY <2>2, <3>1, <3>2, <3>3, <3>4 DEF WorkerStep, WorkerFault, Load, Upsert,
         Mark, RemovePoint, Ack, GiveUp, Drop, Forget
  <2> QED
    BY <1>3, <2>1, <2>2 DEF Next, Waiting
<1> QED
  BY <1>1, <1>2, <1>3 DEF Waiting

\* A task that fails while it runs waits again, or is lost.
LEMMA FaultStep ==
    ASSUME IInv, NEW w \in Workers, WorkerFault(w), Running(w), NEW r \in Requests, r = TaskOf(w)
    PROVE  Waiting(r)'
<1>0. queue \in [Message -> Nat] /\ workers[w].msg \in Message /\ workers[w].msg.task = r
  BY DEF IInv, TypeOK, WorkerInv, WorkerOk, Running, TaskOf
<1>1. CASE Retry(w)
  <2> DEFINE n == [workers[w].msg EXCEPT !.retries = @ + 1]
  <2>1. n \in Message /\ n.task = r
    BY <1>0, <1>1, NextAttempt DEF Retry, Message
  <2>2. queue' = [queue EXCEPT ![n] = @ + 1]
    BY <1>1 DEF Retry
  <2> HIDE DEF n
  <2>3. queue'[n] > 0
    BY <1>0, <2>1, <2>2
  <2> QED
    BY <2>1, <2>3 DEF Waiting
<1>2. CASE Crash(w)
  <2>1. queue'[workers[w].msg] > 0
    BY <1>0, <1>2 DEF Crash
  <2> QED
    BY <1>0, <2>1 DEF Waiting
<1>3. CASE GiveUp(w) \/ Drop(w)
  BY <1>3 DEF GiveUp, Drop, Forget, Waiting
<1> QED
  BY <1>1, <1>2, <1>3 DEF WorkerFault

LEMMA ApiSerial ==
    ASSUME IInv, IInv', ApiNext, SerialInv
    PROVE  SerialInv'
<1> USE DEF history
<1>0. /\ requests \in [Requests -> Request] /\ rows \in [Logs -> Row]
      /\ WorkerInv /\ RequestInv /\ RowInv
      /\ Next
  BY DEF IInv, TypeOK, Next
<1>1. /\ workers' = workers /\ points' = points
      /\ \A t \in Requests : requests[t].pc # "idle" =>
            requests'[t].op = requests[t].op /\ requests'[t].log = requests[t].log
  BY <1>0 DEF ApiNext, CreateLog, LoadLog, CommitUpdate, CommitDelete, RowGone, DeleteContext,
     Dispatch, DispatchFails, Request
<1>2. ASSUME NEW w \in Workers, workers[w].pc # "idle"
      PROVE  TaskOf(w)' = TaskOf(w) /\ LogOf(w)' = LogOf(w)
  <2>1. TaskOf(w) \in Requests /\ Dispatched(TaskOf(w))
    BY <1>0, <1>2 DEF WorkerInv, WorkerOk, TaskOf, Message
  <2> QED
    BY <1>1, <2>1 DEF Dispatched, TaskOf, LogOf
<1>3. \A r \in Requests :
         /\ Waiting(r) /\ requests[r].op \in LogOps
         /\ requests[r].op \in EmbedOps => rows[requests[r].log].phase # "purged"
         => Waiting(r)'
  <2>1. ~\E w \in Workers, m \in Message : Take(w, m)
    BY <1>1 DEF Take, IInv, TypeOK
  <2> QED
    BY <1>0, <2>1, WaitingStep
<1>4. ASSUME NEW l \in Logs PROVE EditOk(l)'
  <2> SUFFICES ASSUME Live(l)', NEW r, r = rows'[l].content
               PROVE  /\ points'[l] # r => \/ Waiting(r)'
                                          \/ \E w \in Workers : Holds(w, r)' \/ Carries(w, r)'
                      /\ \A w \in Workers : Embeds(w, l)' /\ workers'[w].snap # r => Waiting(r)'
    BY DEF EditOk
  <2>1. CASE requests'[r].pc = "committed"
    BY <2>1 DEF Waiting
  <2>2. CASE Live(l) /\ r = rows[l].content
    <3>1. r \in Requests /\ requests[r].op \in EmbedOps /\ requests[r].log = l /\ rows[l].phase # "purged"
      BY <1>0, <2>2 DEF RowInv, Live
    <3>2. Waiting(r) => Waiting(r)'
      BY <1>3, <3>1 DEF LogOps
    <3>3. \A w \in Workers : (Holds(w, r) => Holds(w, r)') /\ (Carries(w, r) => Carries(w, r)')
      BY <1>1, <1>2 DEF Holds, Carries
    <3>4. \A w \in Workers : Embeds(w, l)' => Embeds(w, l)
      BY <1>1, <1>2 DEF Embeds
    <3>5. EditOk(l)
      BY DEF SerialInv
    <3> QED
      BY <1>1, <2>2, <3>2, <3>3, <3>4, <3>5 DEF EditOk
  <2> QED
    BY <1>0, <2>1, <2>2, ContentStep
<1>5. ASSUME NEW l \in Logs PROVE DeleteOk(l)'
  <2> SUFFICES ASSUME rows'[l].phase = "deleted" PROVE DeleteOk(l)'
    BY DEF DeleteOk
  <2>1. CASE rows[l].phase = "deleted"
    <3>1. ASSUME NEW r \in Requests, Deletes(r, l)
          PROVE  Deletes(r, l)' /\ (Waiting(r) => Waiting(r)')
      <4>1. requests[r].pc # "idle" /\ requests[r].op \in LogOps /\ requests[r].op \notin EmbedOps
        BY <1>0, <3>1 DEF Deletes, RequestInv, RequestOk, LogOps, EmbedOps
      <4> QED
        BY <1>1, <1>3, <3>1, <4>1 DEF Deletes
    <3>2. \A w \in Workers, r \in Requests : Holds(w, r) => Holds(w, r)'
      BY <1>1, <1>2 DEF Holds
    <3>3. \A w \in Workers : Embeds(w, l)' => Embeds(w, l)
      BY <1>1, <1>2 DEF Embeds
    <3>4. DeleteOk(l)
      BY DEF SerialInv
    <3> QED
      BY <1>1, <2>1, <3>1, <3>2, <3>3, <3>4 DEF DeleteOk
  <2>2. CASE rows[l].phase # "deleted"
    <3>1. PICK r \in Requests : CommitDelete(r) /\ requests[r].log = l
      <4>1. ASSUME NEW r \in Requests, CommitUpdate(r) PROVE rows'[l].phase = rows[l].phase
        BY <1>0, <4>1 DEF CommitUpdate, Row
      <4>2. ASSUME NEW r \in Requests, NEW k \in Logs, NEW c \in Contexts, CreateLog(r, k, c)
            PROVE  rows'[l].phase \in {"live", rows[l].phase}
        BY <1>0, <4>2 DEF CreateLog
      <4>3. ASSUME NEW r \in Requests, NEW c \in Contexts, DeleteContext(r, c)
            PROVE  rows'[l].phase \in {"purged", rows[l].phase}
        <5>1. rows'[l] = IF Present(l) /\ rows[l].ctx = c THEN [rows[l] EXCEPT !.phase = "purged"] ELSE rows[l]
          BY <4>3, Zenon DEF DeleteContext
        <5> QED
          BY <1>0, <5>1 DEF Row
      <4>4. ASSUME NEW r \in Requests, CommitDelete(r), requests[r].log # l PROVE rows'[l] = rows[l]
        BY <1>0, <4>4 DEF CommitDelete
      <4> QED
        BY <2>2, <4>1, <4>2, <4>3, <4>4 DEF ApiNext, LoadLog, RowGone, Dispatch, DispatchFails
    <3>2. Deletes(r, l)' /\ Waiting(r)'
      <4>1. requests[r].op = "delete" /\ requests[r].pc = "loaded"
        BY <3>1 DEF CommitDelete
      <4>2. requests'[r].pc = "committed"
        BY <1>0, <3>1 DEF CommitDelete
      <4> QED
        BY <1>1, <3>1, <4>1, <4>2 DEF Deletes, Waiting
    <3> QED
      BY <3>2 DEF DeleteOk
  <2> QED
    BY <2>1, <2>2
<1> QED
  BY <1>4, <1>5 DEF SerialInv

LEMMA WorkerSerial ==
    ASSUME IInv, OneWorker, NEW w \in Workers, WorkerStep(w) \/ WorkerFault(w), SerialInv
    PROVE  SerialInv'
<1> USE DEF history
<1>0. /\ requests \in [Requests -> Request] /\ rows \in [Logs -> Row]
      /\ points \in [Logs -> Requests \cup {None}] /\ workers \in [Workers -> Worker]
      /\ WorkerInv /\ RequestInv /\ RowInv
      /\ Next
      /\ \A v \in Workers : v = w
  BY DEF IInv, TypeOK, Next, OneWorker
<1>1. requests' = requests
  BY DEF WorkerStep, WorkerFault, Take, Load, Upsert, Mark, RemovePoint, Ack, Retry, GiveUp, Drop,
     Forget, Crash
<1>2. \A l \in Logs : rows'[l].phase = rows[l].phase /\ rows'[l].content = rows[l].content
  <2>1. CASE Mark(w)
    BY <1>0, <2>1 DEF Mark, Row
  <2>2. CASE rows' = rows
    BY <2>2
  <2> QED
    BY <2>1, <2>2 DEF WorkerStep, WorkerFault, Take, Load, Upsert, RemovePoint, Ack, Retry, GiveUp, Drop,
       Forget, Crash
<1>3. ASSUME NEW r \in Requests, Waiting(r), requests[r].op \in LogOps,
             requests[r].op \in EmbedOps => rows[requests[r].log].phase # "purged"
      PROVE  Waiting(r)' \/ (workers[w].pc = "idle" /\ Holds(w, r)')
  <2>1. ASSUME NEW v \in Workers, NEW m \in Message, Take(v, m), m.task = r
        PROVE  workers[w].pc = "idle" /\ Holds(w, r)'
    BY <1>0, <2>1 DEF Take, Holds, TaskOf
  <2> QED
    BY <1>0, <1>3, <2>1, WaitingStep
\* The last writer of an entry that is live, and the delete requests of one that is deleted.
<1>4. ASSUME NEW l \in Logs, Live(l), NEW r, r = rows[l].content
      PROVE  /\ r \in Requests /\ requests[r].log = l /\ requests[r].op \in EmbedOps
             /\ Waiting(r) => Waiting(r)' \/ (workers[w].pc = "idle" /\ Holds(w, r)')
  BY <1>0, <1>3, <1>4 DEF RowInv, Live, LogOps
<1>5. ASSUME NEW l \in Logs, NEW r \in Requests, Deletes(r, l)
      PROVE  /\ Deletes(r, l)'
             /\ Waiting(r) => Waiting(r)' \/ (workers[w].pc = "idle" /\ Holds(w, r)')
  BY <1>1, <1>3, <1>5 DEF Deletes, LogOps, EmbedOps
<1>6. ASSUME NEW l \in Logs PROVE EditOk(l)'
  <2> SUFFICES ASSUME Live(l)', NEW r, r = rows[l].content
               PROVE  /\ points'[l] # r => \/ Waiting(r)'
                                          \/ Holds(w, r)' \/ Carries(w, r)'
                      /\ Embeds(w, l)' /\ workers'[w].snap # r => Waiting(r)'
    BY <1>0, <1>2 DEF EditOk
  <2>0. /\ Live(l) /\ r \in Requests /\ requests[r].log = l /\ requests[r].op \in EmbedOps
        /\ Waiting(r) => Waiting(r)' \/ (workers[w].pc = "idle" /\ Holds(w, r)')
        /\ points[l] # r => Waiting(r) \/ Holds(w, r) \/ Carries(w, r)
        /\ Embeds(w, l) /\ workers[w].snap # r => Waiting(r)
    <3>1. Live(l)
      BY <1>2 DEF Live
    <3>2. EditOk(l)
      BY DEF SerialInv
    <3> QED
      BY <1>0, <1>4, <3>1, <3>2 DEF EditOk
  <2>1. CASE workers[w].pc = "idle"
    <3>1. points' = points /\ workers'[w].pc \in {"idle", "taken"}
      BY <1>0, <2>1 DEF WorkerStep, WorkerFault, Take, Load, Upsert, Mark, RemovePoint, Ack, Retry,
         GiveUp, Drop, Forget, Crash, Running
    <3> QED
      BY <2>0, <2>1, <3>1 DEF Holds, Carries, Embeds
  <2>2. CASE Load(w)
    <3>1. /\ points' = points /\ workers[w].pc = "taken" /\ TaskOf(w)' = TaskOf(w)
          /\ LogOf(w)' = LogOf(w)
          /\ IF Live(LogOf(w))
                THEN workers'[w].pc = "loaded" /\ workers'[w].snap = rows[LogOf(w)].content
                ELSE workers'[w].pc = "finishing"
      BY <1>0, <1>1, <2>2 DEF Load, TaskOf, LogOf, Worker
    <3>2. Holds(w, r) => LogOf(w) = l
      BY <2>0 DEF Holds, LogOf
    <3>3. Holds(w, r) => Carries(w, r)'
      BY <2>0, <3>1, <3>2 DEF Holds, Carries
    <3>4. ~Carries(w, r)
      BY <3>1 DEF Carries
    <3>5. Embeds(w, l)' => workers'[w].snap = r
      BY <3>1 DEF Embeds
    <3> QED
      BY <2>0, <3>1, <3>3, <3>4, <3>5
  <2>3. CASE Upsert(w)
    <3>1. /\ workers[w].pc = "loaded" /\ workers'[w].pc = "upserted"
          /\ points' = [points EXCEPT ![LogOf(w)] = workers[w].snap]
      BY <1>0, <2>3 DEF Upsert, Goto, Worker
    <3>2. CASE l = LogOf(w)
      <4>1. points'[l] = workers[w].snap /\ Embeds(w, l)
        BY <1>0, <3>1, <3>2 DEF Embeds
      <4> QED
        BY <2>0, <3>1, <4>1 DEF Embeds
    <3>3. CASE l # LogOf(w)
      <4>1. points'[l] = points[l] /\ ~Carries(w, r) /\ ~Holds(w, r)
        BY <1>0, <2>0, <3>1, <3>3 DEF Carries, Holds, LogOf
      <4> QED
        BY <2>0, <3>1, <4>1 DEF Embeds
    <3> QED
      BY <3>2, <3>3
  <2>4. CASE RemovePoint(w)
    <3>1. /\ workers[w].pc = "taken" /\ workers'[w].pc = "finishing" /\ OpOf(w) = "delete"
          /\ points' = [points EXCEPT ![LogOf(w)] = None]
      BY <1>0, <2>4 DEF RemovePoint, Goto, Worker
    <3>2. ~Live(LogOf(w))
      BY <1>0, <3>1 DEF WorkerInv, WorkerOk, Dispatched, RequestInv, RequestOk, OpOf, LogOf, TaskOf,
         Message
    <3>3. points'[l] = points[l] /\ ~Carries(w, r) /\ ~Holds(w, r)
      BY <1>0, <2>0, <3>1, <3>2 DEF Carries, Holds, OpOf, EmbedOps
    <3> QED
      BY <2>0, <3>1, <3>3 DEF Embeds
  <2>5. CASE workers[w].pc # "idle" /\ (Mark(w) \/ Ack(w) \/ WorkerFault(w))
    <3>1. points' = points /\ workers'[w].pc \in {"finishing", "acking", "idle"}
      BY <1>0, <2>5 DEF Mark, Ack, WorkerFault, Retry, GiveUp, Drop, Forget, Crash, Goto, Idle, Worker
    <3>2. Holds(w, r) \/ Carries(w, r) => Waiting(r)'
      <4>1. Holds(w, r) \/ Carries(w, r) => Running(w) /\ r = TaskOf(w)
        BY DEF Holds, Carries, Running
      <4>2. Holds(w, r) \/ Carries(w, r) => WorkerFault(w)
        BY <2>5 DEF Holds, Carries, Mark, Ack
      <4> QED
        BY <2>0, <4>1, <4>2, FaultStep
    <3> QED
      BY <2>0, <2>5, <3>1, <3>2 DEF Embeds
  <2> QED
    BY <2>1, <2>2, <2>3, <2>4, <2>5 DEF WorkerStep, Take
<1>7. ASSUME NEW l \in Logs PROVE DeleteOk(l)'
  <2> SUFFICES ASSUME rows'[l].phase = "deleted"
               PROVE  /\ points'[l] # None => \E r \in Requests :
                            Deletes(r, l)' /\ (Waiting(r)' \/ Holds(w, r)')
                      /\ Embeds(w, l)' => \E r \in Requests : Deletes(r, l)' /\ Waiting(r)'
    BY <1>0 DEF DeleteOk
  <2>0. /\ rows[l].phase = "deleted"
        /\ points[l] # None => \E r \in Requests : Deletes(r, l) /\ (Waiting(r) \/ Holds(w, r))
        /\ Embeds(w, l) => \E r \in Requests : Deletes(r, l) /\ Waiting(r)
    <3>1. DeleteOk(l)
      BY DEF SerialInv
    <3> QED
      BY <1>0, <1>2, <3>1 DEF DeleteOk
  <2>1. CASE workers[w].pc = "idle"
    <3>1. points' = points /\ workers'[w].pc \in {"idle", "taken"}
      BY <1>0, <2>1 DEF WorkerStep, WorkerFault, Take, Load, Upsert, Mark, RemovePoint, Ack, Retry,
         GiveUp, Drop, Forget, Crash, Running
    <3> QED
      BY <1>5, <2>0, <2>1, <3>1 DEF Holds, Embeds
  <2>2. CASE Load(w)
    <3>1. /\ points' = points /\ workers[w].pc = "taken" /\ LogOf(w)' = LogOf(w)
          /\ OpOf(w) \in EmbedOps
          /\ workers'[w].pc = "loaded" => Live(LogOf(w))
      BY <1>0, <1>1, <2>2 DEF Load, TaskOf, LogOf, Worker
    <3>2. \A r \in Requests : Deletes(r, l) => ~Holds(w, r)
      BY <3>1 DEF Holds, Deletes, OpOf, EmbedOps
    <3>3. ~Embeds(w, l)'
      BY <2>0, <3>1 DEF Embeds, Live
    <3> QED
      BY <1>5, <2>0, <3>1, <3>2, <3>3
  <2>3. CASE Upsert(w)
    <3>1. /\ workers[w].pc = "loaded" /\ workers'[w].pc = "upserted"
          /\ points' = [points EXCEPT ![LogOf(w)] = workers[w].snap]
      BY <1>0, <2>3 DEF Upsert, Goto, Worker
    <3>2. l = LogOf(w) => Embeds(w, l)
      BY <3>1 DEF Embeds
    <3>3. l # LogOf(w) => points'[l] = points[l]
      BY <1>0, <3>1
    <3> QED
      BY <1>5, <2>0, <3>1, <3>2, <3>3 DEF Embeds, Holds
  <2>4. CASE RemovePoint(w)
    <3>1. /\ workers[w].pc = "taken" /\ workers'[w].pc = "finishing"
          /\ points' = [points EXCEPT ![LogOf(w)] = None]
      BY <1>0, <2>4 DEF RemovePoint, Goto, Worker
    <3>2. points'[l] # None => points'[l] = points[l] /\ l # LogOf(w)
      BY <1>0, <3>1
    <3>3. l # LogOf(w) => \A r \in Requests : Deletes(r, l) => ~Holds(w, r)
      BY DEF Deletes, Holds, LogOf
    <3> QED
      BY <1>5, <2>0, <3>1, <3>2, <3>3 DEF Embeds
  <2>5. CASE workers[w].pc # "idle" /\ (Mark(w) \/ Ack(w) \/ WorkerFault(w))
    <3>1. points' = points /\ workers'[w].pc \in {"finishing", "acking", "idle"}
      BY <1>0, <2>5 DEF Mark, Ack, WorkerFault, Retry, GiveUp, Drop, Forget, Crash, Goto, Idle, Worker
    <3>2. ASSUME NEW r \in Requests, Holds(w, r) PROVE Waiting(r)'
      <4>1. Running(w) /\ r = TaskOf(w)
        BY <3>2 DEF Holds, Running
      <4>2. WorkerFault(w)
        BY <2>5, <3>2 DEF Holds, Mark, Ack
      <4> QED
        BY <4>1, <4>2, FaultStep
    <3> QED
      BY <1>5, <2>0, <2>5, <3>1, <3>2 DEF Embeds
  <2> QED
    BY <2>1, <2>2, <2>3, <2>4, <2>5 DEF WorkerStep, Take
<1> QED
  BY <1>6, <1>7 DEF SerialInv

LEMMA SerialInvariance == OneWorker /\ Spec => []SerialInv
<1>1. Init => SerialInv
  <2> SUFFICES ASSUME Init, NEW l \in Logs PROVE EditOk(l) /\ DeleteOk(l)
    BY DEF SerialInv
  <2>1. rows[l].phase = "absent"
    BY DEF Init
  <2> QED
    BY <2>1 DEF EditOk, DeleteOk, Live
<1>2. ASSUME OneWorker PROVE IInv /\ IInv' /\ SerialInv /\ [Next]_vars => SerialInv'
  <2> SUFFICES ASSUME IInv, IInv', SerialInv, [Next]_vars PROVE SerialInv'
    OBVIOUS
  <2>1. CASE UNCHANGED vars
    BY <2>1 DEF vars, SerialInv, EditOk, DeleteOk, Live, Embeds, Waiting, Holds, Carries, Deletes,
       TaskOf, LogOf
  <2> QED
    BY <1>2, <2>1, ApiSerial, WorkerSerial DEF Next
<1>3. ASSUME OneWorker PROVE Spec => []SerialInv
  <2>1. IInv /\ IInv' /\ SerialInv /\ [Next]_vars => SerialInv'
    BY <1>2, <1>3
  <2> QED
    BY <1>1, <2>1, Invariance, PTL DEF Spec
<1> QED
  BY <1>3

\* With one worker process no request is answered from an index that missed an
\* edit: once the task of the last writer is settled the point is its content
\* ("Edited entries are re-embedded", PRD.md:165; the reload of
\* embedding_tasks.py:57-64).
THEOREM OneWorkerReembeds == OneWorker /\ Spec => []EditsReembedded
<1>1. IInv /\ SerialInv => EditsReembedded
  <2> SUFFICES ASSUME IInv, SerialInv, NEW l \in Logs, Live(l), Settled(rows[l].content)
               PROVE  points[l] = rows[l].content
    BY DEF EditsReembedded
  <2>1. EditOk(l) /\ ~Waiting(rows[l].content)
    BY DEF SerialInv, Settled, Outstanding, Waiting
  <2>2. ~\E w \in Workers : Holds(w, rows[l].content) \/ Carries(w, rows[l].content)
    BY DEF Settled, Outstanding, Holds, Carries, Running
  <2> QED
    BY <2>1, <2>2 DEF EditOk
<1> QED
  BY <1>1, Invariance, SerialInvariance, PTL

\* With one worker process a deleted entry is out of the index once its delete
\* tasks are settled (log_entry.py:12, "Celery delete_embedding task removes the
\* Qdrant vector"), however its own tasks were retried.
THEOREM OneWorkerRemovesPoints == OneWorker /\ Spec => []DeletedHasNoPoint
<1>1. IInv /\ SerialInv => DeletedHasNoPoint
  <2> SUFFICES ASSUME IInv, SerialInv, NEW l \in Logs, rows[l].phase = "deleted",
                      \A r \in Requests : requests[r].log = l => Settled(r)
               PROVE  points[l] = None
    BY DEF DeletedHasNoPoint
  <2>1. DeleteOk(l)
    BY DEF SerialInv
  <2>2. \A r \in Requests : Deletes(r, l) => ~Waiting(r) /\ ~\E w \in Workers : Holds(w, r)
    BY DEF Deletes, Settled, Outstanding, Waiting, Holds, Running
  <2> QED
    BY <2>1, <2>2 DEF DeleteOk
<1> QED
  BY <1>1, Invariance, SerialInvariance, PTL

=============================================================================
