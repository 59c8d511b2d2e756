--------------------------- MODULE LogUpdatesProofs ---------------------------
(***************************************************************************)
(* Dates and tags of LogUpdates for any number of entries, tags, contexts, *)
(* dates and requests.                                                     *)
(*                                                                         *)
(* The tables stay consistent by what the database accepts at a commit,    *)
(* and by the cascades.  That a commit changes only what was asked for     *)
(* rests on PendingInv: an update that has no value for a column leaves    *)
(* it, and an entry under creation is nobody else's.                       *)
(***************************************************************************)
EXTENDS LogUpdates, TLAPS

Pending(r) == requests[r].pc \in {"resolve", "commit"}

\* What a request under way is going to write, and where.
PendingInv ==
    \A r \in Requests : Pending(r) =>
        /\ requests[r].log \in Logs
        /\ requests[r].op \in {"create", "update", "delete"}
        /\ requests[r].pc = "resolve" => requests[r].ids \in TagLists
        /\ requests[r].op = "create" =>
              /\ requests[r].ctx \in Contexts
              /\ requests[r].start \in Dates /\ requests[r].end \in Dates
              /\ rows[requests[r].log].phase = "absent"
              /\ \A q \in Requests \ {r} : requests[q].log # requests[r].log
        /\ requests[r].op # "create" =>
              /\ requests[r].ctx = None
              /\ rows[requests[r].log].phase # "absent"

IInv == TypeOK /\ PendingInv /\ TablesConsistent

-----------------------------------------------------------------------------
LEMMA TypeInit == Init => TypeOK
  BY DEF Init, TypeOK, Row, Request, Idle

LEMMA AnswerType ==
    ASSUME TypeOK, NEW r \in Requests, NEW pc \in {"done", "failed"}, Answer(r, pc)
    PROVE  requests' \in [Requests -> Request]
<1>1. [Idle EXCEPT !.pc = pc] \in Request
  BY DEF Idle, Request
<1> QED
  BY <1>1 DEF Answer, Put, TypeOK

\* What WithTags adds to a request.
LEMMA WithTagsType ==
    ASSUME NEW rec \in Request, NEW ids \in TagLists \cup {None}, NEW seen \in SUBSET Tags
    PROVE  LET new == WithTags(rec, ids, seen)
           IN  /\ new \in Request
               /\ new.pc \in {"resolve", "commit"}
               /\ new.op = rec.op /\ new.log = rec.log /\ new.ctx = rec.ctx
               /\ new.start = rec.start /\ new.end = rec.end
               /\ new.pc = "resolve" => new.ids \in TagLists
<1>1. CASE ids = None
  BY <1>1, ZenonT(30) DEF WithTags, Request
<1>2. CASE ids # None /\ ids = <<>>
  <2>1. WithTags(rec, ids, seen) = [rec EXCEPT !.pc = "commit", !.want = {}, !.seen = seen]
    BY <1>2 DEF WithTags
  <2> QED
    BY <2>1 DEF Request
<1>3. CASE ids # None /\ ids # <<>>
  <2>1. WithTags(rec, ids, seen) = [rec EXCEPT !.pc = "resolve", !.ids = ids, !.seen = seen]
    BY <1>3 DEF WithTags
  <2>2. ids \in TagLists
    BY <1>3
  <2> QED
    BY <2>1, <2>2 DEF Request
<1> QED
  BY <1>1, <1>2, <1>3

\* The row a commit writes.
LEMMA WrittenRow ==
    ASSUME IInv, NEW r \in Requests, requests[r].pc = "commit", Accepted(r)
    PROVE  LET q == requests[r]
           IN  /\ q.log \in Logs /\ q \in Request /\ rows[q.log] \in Row
               /\ Written(r) \in Row
               /\ Written(r).phase \in {"live", "deleted"}
               /\ Written(r).start <= Written(r).end
               /\ q.op # "create" =>
                    /\ Present(q.log)
                    /\ Written(r).phase \in {rows[q.log].phase, "deleted"}
                    /\ Written(r).phase # rows[q.log].phase => q.op = "delete"
                    /\ Written(r).start \in {q.start, rows[q.log].start}
                    /\ Written(r).end \in {q.end, rows[q.log].end}
<1> DEFINE q   == requests[r]
           row == rows[q.log]
<1>1. q \in Request /\ q.log \in Logs /\ row \in Row
  BY DEF IInv, TypeOK, PendingInv, Pending
<1>2. CASE q.op = "create"
  <2>1. q.ctx \in Contexts /\ q.start \in Dates /\ q.end \in Dates
    BY <1>2 DEF IInv, PendingInv, Pending
  <2>2. Written(r) = [phase |-> "live", ctx |-> q.ctx, start |-> q.start, end |-> q.end]
    BY <1>2, <2>1, UpdatesAssumption DEF Written, Or
  <2> QED
    BY <1>1, <1>2, <2>1, <2>2 DEF Accepted, Row
<1>3. CASE q.op # "create"
  <2>1. Present(q.log) /\ q.ctx = None
    BY <1>3 DEF Accepted, IInv, PendingInv, Pending
  <2>2. row.ctx \in Contexts /\ row.start \in Dates /\ row.end \in Dates
        /\ row.phase \in {"live", "deleted"}
    BY <1>1, <2>1, UpdatesAssumption DEF Present, Row, Absent
  <2>3. q.start \in Dates \cup {None} /\ q.end \in Dates \cup {None}
    BY <1>1 DEF Request
  <2>4. Written(r) = [phase |-> IF q.op = "delete" THEN "deleted" ELSE row.phase,
                      ctx |-> row.ctx, start |-> Or(q.start, row.start), end |-> Or(q.end, row.end)]
    BY <1>3, <2>1 DEF Written, Or
  <2>5. /\ Or(q.start, row.start) \in Dates /\ Or(q.end, row.end) \in Dates
        /\ Or(q.start, row.start) \in {q.start, row.start}
        /\ Or(q.end, row.end) \in {q.end, row.end}
    BY <2>2, <2>3 DEF Or
  <2> QED
    BY <1>1, <1>3, <2>1, <2>2, <2>4, <2>5 DEF Accepted, Row
<1> QED
  BY <1>2, <1>3

\* Tags that a request adds or removes.
LEMMA AddedTags ==
    ASSUME TypeOK, NEW r \in Requests
    PROVE  /\ Added(r) \in SUBSET Tags /\ Removed(r) \in SUBSET Tags
           /\ requests[r].want = None => Added(r) = {} /\ Removed(r) = {}
           /\ requests[r].want # None => /\ requests[r].want \in SUBSET Tags
                                         /\ Added(r) = requests[r].want \ requests[r].seen
                                         /\ Removed(r) = requests[r].seen \ requests[r].want
<1>1. requests[r] \in Request
  BY DEF TypeOK
<1> QED
  BY <1>1 DEF Added, Removed, Request

-----------------------------------------------------------------------------
\* Every step keeps the types.
LEMMA TypeStep == IInv /\ [Next]_vars => TypeOK'
<1> SUFFICES ASSUME IInv, TypeOK, [Next]_vars PROVE TypeOK'
  BY DEF IInv
<1>1. ASSUME NEW r \in Requests, NEW l \in Logs, NEW c \in Contexts, NEW s \in Dates,
             NEW e \in Dates, NEW ids \in TagLists, CreateLog(r, l, c, s, e, ids)
      PROVE  TypeOK'
  <2>1. [Idle EXCEPT !.op = "create", !.log = l, !.ctx = c, !.start = s, !.end = e] \in Request
    BY DEF Idle, Request
  <2> QED
    BY <1>1, <2>1, WithTagsType DEF CreateLog, Put, TypeOK
<1>2. ASSUME NEW r \in Requests, NEW l \in Logs, NEW s \in Dates \cup {None},
             NEW e \in Dates \cup {None}, NEW ids \in TagLists \cup {None},
             LoadUpdate(r, l, s, e, ids)
      PROVE  TypeOK'
  <2> DEFINE rec == [Idle EXCEPT !.op = "update", !.log = l, !.start = Diff(s, rows[l].start),
                            !.end = Diff(e, rows[l].end)]
  <2>1. rec \in Request
    BY DEF Idle, Request, Diff
  <2>2. WithTags(rec, ids, TagsOf(l)) \in Request
    BY <2>1, WithTagsType DEF TagsOf
  <2>3. [Idle EXCEPT !.pc = "failed"] \in Request
    BY DEF Idle, Request
  <2> QED
    BY <1>2, <2>2, <2>3 DEF LoadUpdate, Put, TypeOK
<1>3. ASSUME NEW r \in Requests, NEW l \in Logs, LoadDelete(r, l)
      PROVE  TypeOK'
  <2>1. [Idle EXCEPT !.op = "delete", !.pc = "commit", !.log = l] \in Request
    BY DEF Idle, Request
  <2> QED
    BY <1>3, <2>1 DEF LoadDelete, Put, TypeOK
<1>4. ASSUME NEW r \in Requests, Resolve(r)
      PROVE  TypeOK'
  <2> DEFINE ids == requests[r].ids
  <2>1. CASE Answer(r, "failed")
    BY <1>4, <2>1, AnswerType DEF Resolve, TypeOK
  <2>2. CASE Put(r, [requests[r] EXCEPT !.pc = "commit", !.ids = None, !.want = Range(ids)])
    <3>1. requests[r] \in Request /\ ids \in Seq(Tags)
      BY <1>4, UpdatesAssumption DEF Resolve, IInv, TypeOK, PendingInv, Pending
    <3>2. Range(ids) \in SUBSET Tags
      BY <3>1 DEF Range
    <3>3. [requests[r] EXCEPT !.pc = "commit", !.ids = None, !.want = Range(ids)] \in Request
      BY <3>1, <3>2 DEF Request
    <3> QED
      BY <1>4, <2>2, <3>3 DEF Resolve, Put, TypeOK
  <2> QED
    BY <1>4, <2>1, <2>2 DEF Resolve
<1>5. ASSUME NEW r \in Requests, Commit(r)
      PROVE  TypeOK'
  <2>1. requests' \in [Requests -> Request]
    BY <1>5, AnswerType DEF Commit
  <2>2. Written(r) \in Row /\ requests[r].log \in Logs
    BY <1>5, WrittenRow DEF Commit
  <2>3. Pairs(requests[r].log, Added(r)) \subseteq Logs \X Tags
    BY <2>2, AddedTags DEF Pairs
  <2> QED
    BY <1>5, <2>1, <2>2, <2>3 DEF Commit, TypeOK
<1>6. ASSUME NEW r \in Requests, Fail(r)
      PROVE  TypeOK'
  BY <1>6, AnswerType DEF Fail, TypeOK
<1>7. ASSUME NEW r \in Requests, NEW t \in Tags, DeleteTag(r, t)
      PROVE  TypeOK'
  BY <1>7, AnswerType DEF DeleteTag, TypeOK
<1>8. ASSUME NEW r \in Requests, NEW c \in Contexts, DeleteContext(r, c)
      PROVE  TypeOK'
  <2>1. \A l \in Logs : Present(l) => [rows[l] EXCEPT !.phase = "purged"] \in Row
    BY DEF Present, TypeOK, Row, Absent
  <2> QED
    BY <1>8, <2>1, AnswerType DEF DeleteContext, TypeOK
<1>9. CASE UNCHANGED vars
  BY <1>9 DEF vars, TypeOK
<1> QED
  BY <1>1, <1>2, <1>3, <1>4, <1>5, <1>6, <1>7, <1>8, <1>9 DEF Next

-----------------------------------------------------------------------------
\* The request of one who answers, and those of the others.
LEMMA Answered ==
    ASSUME TypeOK, NEW r \in Requests, NEW pc \in {"done", "failed"}, Answer(r, pc)
    PROVE  /\ requests'[r].pc = pc /\ requests'[r].log = None
           /\ \A q \in Requests \ {r} : requests'[q] = requests[q]
  BY DEF TypeOK, Answer, Put, Idle

\* Where the requests are, entry by entry, is all that PendingInv speaks of.
LEMMA PendingKept ==
    ASSUME IInv, NEW r \in Requests,
           \A q \in Requests \ {r} : requests'[q] = requests[q],
           ~Pending(r)', requests'[r].log = None,
           \A l \in Logs : rows'[l].phase = "absent" <=> rows[l].phase = "absent"
    PROVE  PendingInv'
<1> SUFFICES ASSUME NEW q \in Requests, Pending(q)'
             PROVE  /\ requests'[q].log \in Logs
                    /\ requests'[q].op \in {"create", "update", "delete"}
                    /\ requests'[q].pc = "resolve" => requests'[q].ids \in TagLists
                    /\ requests'[q].op = "create" =>
                          /\ requests'[q].ctx \in Contexts
                          /\ requests'[q].start \in Dates /\ requests'[q].end \in Dates
                          /\ rows'[requests'[q].log].phase = "absent"
                          /\ \A p \in Requests \ {q} : requests'[p].log # requests'[q].log
                    /\ requests'[q].op # "create" =>
                          /\ requests'[q].ctx = None
                          /\ rows'[requests'[q].log].phase # "absent"
  BY DEF PendingInv
<1>1. q # r /\ requests'[q] = requests[q] /\ Pending(q)
  BY DEF Pending
<1>2. requests[q].log \in Logs
  BY <1>1 DEF IInv, PendingInv
<1>3. \A p \in Requests : requests'[p].log \in {requests[p].log, None}
  OBVIOUS
<1> QED
  BY <1>1, <1>2, <1>3, UpdatesAssumption DEF IInv, PendingInv

LEMMA PendingStep == IInv /\ [Next]_vars => PendingInv'
<1> SUFFICES ASSUME IInv, [Next]_vars PROVE PendingInv'
  OBVIOUS
<1>1. ASSUME NEW r \in Requests, NEW pc \in {"done", "failed"}, Answer(r, pc),
             \A l \in Logs : rows'[l].phase = "absent" <=> rows[l].phase = "absent"
      PROVE  PendingInv'
  BY <1>1, Answered, PendingKept DEF IInv, Pending
\* A request that begins, or goes on, on an entry that is not being created.
<1>2. ASSUME NEW r \in Requests, NEW q \in Request, requests' = [requests EXCEPT ![r] = q],
             rows' = rows, q.log \in Logs, q.op \in {"create", "update", "delete"},
             q.pc = "resolve" => q.ids \in TagLists,
             \A p \in Requests \ {r} : Pending(p) /\ requests[p].op = "create" => requests[p].log # q.log,
             q.op = "create" => /\ q.ctx \in Contexts
                                /\ q.start \in Dates /\ q.end \in Dates
                                /\ rows[q.log].phase = "absent"
                                /\ \A p \in Requests \ {r} : requests[p].log # q.log,
             q.op # "create" => q.ctx = None /\ rows[q.log].phase # "absent"
      PROVE  PendingInv'
  <2>1. requests'[r] = q /\ \A p \in Requests \ {r} : requests'[p] = requests[p]
    BY <1>2 DEF IInv, TypeOK
  <2> QED
    BY <1>2, <2>1 DEF IInv, PendingInv, Pending
<1>3. ASSUME NEW r \in Requests, NEW l \in Logs, NEW c \in Contexts, NEW s \in Dates,
             NEW e \in Dates, NEW ids \in TagLists, CreateLog(r, l, c, s, e, ids)
      PROVE  PendingInv'
  <2> DEFINE rec == [Idle EXCEPT !.op = "create", !.log = l, !.ctx = c, !.start = s, !.end = e]
             q   == WithTags(rec, ids, {})
  <2>1. rec \in Request /\ rec.op = "create" /\ rec.log = l /\ rec.ctx = c
        /\ rec.start = s /\ rec.end = e
    BY DEF Idle, Request
  <2>2. /\ q \in Request /\ q.op = "create" /\ q.log = l /\ q.ctx = c
        /\ q.start = s /\ q.end = e /\ (q.pc = "resolve" => q.ids \in TagLists)
    <3> HIDE DEF rec
    <3>1. {} \in SUBSET Tags /\ ids \in TagLists \cup {None}
      OBVIOUS
    <3> QED
      BY <2>1, <3>1, WithTagsType
  <2>3. requests' = [requests EXCEPT ![r] = q] /\ rows' = rows
        /\ rows[l].phase = "absent" /\ \A p \in Requests : requests[p].log # l
    BY <1>3 DEF CreateLog, Put
  <2> HIDE DEF q
  <2> QED
    BY <1>2, <2>2, <2>3
<1>4. ASSUME NEW r \in Requests, NEW l \in Logs, NEW s \in Dates \cup {None},
             NEW e \in Dates \cup {None}, NEW ids \in TagLists \cup {None},
             LoadUpdate(r, l, s, e, ids)
      PROVE  PendingInv'
  <2> DEFINE rec == [Idle EXCEPT !.op = "update", !.log = l, !.start = Diff(s, rows[l].start),
                            !.end = Diff(e, rows[l].end)]
             q   == WithTags(rec, ids, TagsOf(l))
  <2>1. rec \in Request /\ rec.op = "update" /\ rec.log = l /\ rec.ctx = None
    BY DEF Idle, Request, Diff
  <2>2. /\ q \in Request /\ q.op = "update" /\ q.log = l /\ q.ctx = None
        /\ (q.pc = "resolve" => q.ids \in TagLists)
    <3> HIDE DEF rec
    <3>1. TagsOf(l) \in SUBSET Tags
      BY DEF TagsOf
    <3> QED
      BY <2>1, <3>1, WithTagsType
  <2>3. rows' = rows /\ rows[l].phase = "live"
        /\ (requests' = [requests EXCEPT ![r] = q] \/ Answer(r, "failed"))
    BY <1>4 DEF LoadUpdate, Put, Answer, Live
  <2>4. \A p \in Requests \ {r} : Pending(p) /\ requests[p].op = "create" => requests[p].log # l
    BY <2>3 DEF IInv, PendingInv
  <2> HIDE DEF q
  <2>5. CASE Answer(r, "failed")
    BY <1>1, <2>3, <2>5
  <2>6. CASE requests' = [requests EXCEPT ![r] = q]
    BY <1>2, <2>2, <2>3, <2>4, <2>6
  <2> QED
    BY <2>3, <2>5, <2>6
<1>5. ASSUME NEW r \in Requests, NEW l \in Logs, LoadDelete(r, l)
      PROVE  PendingInv'
  <2> DEFINE q == [Idle EXCEPT !.op = "delete", !.pc = "commit", !.log = l]
  <2>1. /\ q \in Request /\ q.op = "delete" /\ q.log = l /\ q.ctx = None /\ q.pc = "commit"
        /\ requests' = [requests EXCEPT ![r] = q] /\ rows' = rows /\ rows[l].phase = "live"
    BY <1>5 DEF LoadDelete, Put, Idle, Request, Live
  <2>2. \A p \in Requests \ {r} : Pending(p) /\ requests[p].op = "create" => requests[p].log # l
    BY <2>1 DEF IInv, PendingInv
  <2> HIDE DEF q
  <2> QED
    BY <1>2, <2>1, <2>2
<1>6. ASSUME NEW r \in Requests, Resolve(r)
      PROVE  PendingInv'
  <2>1. rows' = rows /\ Pending(r)
    BY <1>6 DEF Resolve, Pending
  <2>2. CASE Answer(r, "failed")
    BY <1>1, <2>1, <2>2
  <2>3. ASSUME NEW want,
               requests' = [requests EXCEPT ![r] =
                              [requests[r] EXCEPT !.pc = "commit", !.ids = None, !.want = want]]
        PROVE  PendingInv'
    <3>1. requests[r] \in Request
      BY DEF IInv, TypeOK
    <3>2. /\ requests'[r].pc = "commit" /\ requests'[r].log = requests[r].log
          /\ requests'[r].op = requests[r].op /\ requests'[r].ctx = requests[r].ctx
          /\ requests'[r].start = requests[r].start /\ requests'[r].end = requests[r].end
      BY <2>3, <3>1 DEF IInv, TypeOK, Request
    <3>3. \A p \in Requests \ {r} : requests'[p] = requests[p]
      BY <2>3 DEF IInv, TypeOK
    <3>4. \A p \in Requests : /\ requests'[p].log = requests[p].log
                              /\ Pending(p)' => Pending(p)
      BY <2>1, <3>2, <3>3 DEF Pending
    <3> QED
      BY <2>1, <3>2, <3>3, <3>4 DEF IInv, PendingInv
  <2> QED
    BY <1>6, <2>2, <2>3 DEF Resolve, Put
<1>7. ASSUME NEW r \in Requests, Commit(r)
      PROVE  PendingInv'
  <2> DEFINE l == requests[r].log
  <2>1. /\ l \in Logs /\ Written(r).phase # "absent" /\ requests[r].pc = "commit"
        /\ rows' = [rows EXCEPT ![l] = Written(r)]
        /\ Answer(r, "done")
    BY <1>7, WrittenRow DEF Commit
  <2>2. CASE requests[r].op # "create"
    <3>1. rows[l].phase # "absent"
      BY <2>1, <2>2 DEF IInv, PendingInv, Pending
    <3>2. \A k \in Logs : rows'[k].phase = "absent" <=> rows[k].phase = "absent"
      BY <2>1, <3>1 DEF IInv, TypeOK
    <3> QED
      BY <1>1, <2>1, <3>2
  <2>3. CASE requests[r].op = "create"
    <3>1. \A p \in Requests \ {r} : requests[p].log # l
      BY <2>1, <2>3 DEF IInv, PendingInv, Pending
    <3>2. /\ ~Pending(r)' /\ requests'[r].log = None
          /\ \A p \in Requests \ {r} : requests'[p] = requests[p]
      BY <2>1, Answered DEF IInv, Pending
    <3>3. \A k \in Logs \ {l} : rows'[k] = rows[k]
      BY <2>1 DEF IInv, TypeOK
    <3>4. \A p \in Requests \ {r} : /\ Pending(p)' <=> Pending(p)
                                   /\ requests[p].log \in Logs =>
                                        rows'[requests[p].log] = rows[requests[p].log]
      BY <3>1, <3>2, <3>3 DEF Pending
    <3>5. \A p \in Requests : requests[p].log \in Logs => requests[p].log # None
      BY UpdatesAssumption
    <3>6. \A p \in Requests : requests'[p].log \in {requests[p].log, None}
      BY <3>2
    <3> SUFFICES ASSUME NEW p \in Requests, Pending(p)'
                 PROVE  /\ requests'[p].log \in Logs
                        /\ requests'[p].op \in {"create", "update", "delete"}
                        /\ requests'[p].pc = "resolve" => requests'[p].ids \in TagLists
                        /\ requests'[p].op = "create" =>
                              /\ requests'[p].ctx \in Contexts
                              /\ requests'[p].start \in Dates /\ requests'[p].end \in Dates
                              /\ rows'[requests'[p].log].phase = "absent"
                              /\ \A q \in Requests \ {p} : requests'[q].log # requests'[p].log
                        /\ requests'[p].op # "create" =>
                              /\ requests'[p].ctx = None
                              /\ rows'[requests'[p].log].phase # "absent"
      BY DEF PendingInv
    <3>7. p # r /\ requests'[p] = requests[p] /\ Pending(p)
      <4>1. CASE p = r
        BY <3>2, <4>1 DEF Pending
      <4>2. CASE p # r
        BY <3>2, <3>4, <4>2 DEF Pending
      <4> QED
        BY <4>1, <4>2
    <3>8. requests[p].log \in Logs /\ rows'[requests[p].log] = rows[requests[p].log]
      BY <3>4, <3>7 DEF IInv, PendingInv
    <3>9. \A q \in Requests \ {p} : requests[p].op = "create" => requests'[q].log # requests[p].log
      BY <3>5, <3>6, <3>7, <3>8 DEF IInv, PendingInv
    <3> QED
      BY <3>7, <3>8, <3>9 DEF IInv, PendingInv
  <2> QED
    BY <2>2, <2>3
<1>8. ASSUME NEW r \in Requests, Fail(r)
      PROVE  PendingInv'
  BY <1>1, <1>8 DEF Fail
<1>9. ASSUME NEW r \in Requests, NEW t \in Tags, DeleteTag(r, t)
      PROVE  PendingInv'
  BY <1>1, <1>9 DEF DeleteTag
<1>10. ASSUME NEW r \in Requests, NEW c \in Contexts, DeleteContext(r, c)
      PROVE  PendingInv'
  <2>1. \A l \in Logs : Present(l) => [rows[l] EXCEPT !.phase = "purged"].phase = "purged"
    BY DEF Present, IInv, TypeOK, Row, Absent
  <2>2. \A l \in Logs : rows'[l].phase = "absent" <=> rows[l].phase = "absent"
    BY <1>10, <2>1 DEF DeleteContext, Present
  <2> QED
    BY <1>1, <1>10, <2>2 DEF DeleteContext
<1>11. CASE UNCHANGED vars
  BY <1>11 DEF vars, IInv, PendingInv, Pending
<1> QED
  BY <1>3, <1>4, <1>5, <1>6, <1>7, <1>8, <1>9, <1>10, <1>11 DEF Next

-----------------------------------------------------------------------------
\* What the database accepts, and what it cascades, keeps dates and links whole.
LEMMA TablesStep == IInv /\ [Next]_vars => TablesConsistent'
<1> SUFFICES ASSUME IInv, [Next]_vars PROVE TablesConsistent'
  OBVIOUS
<1> USE DEF TablesConsistent, RangeHolds, LinksExist, Present
<1>1. CASE UNCHANGED <<rows, links, tags>>
  BY <1>1 DEF IInv
<1>2. ASSUME NEW r \in Requests, Commit(r)
      PROVE  TablesConsistent'
  <2> DEFINE l == requests[r].log
  <2>1. /\ l \in Logs /\ Written(r).phase \in {"live", "deleted"}
        /\ Written(r).start <= Written(r).end
    BY <1>2, WrittenRow DEF Commit
  <2>2. rows'[l] = Written(r) /\ \A k \in Logs \ {l} : rows'[k] = rows[k]
    BY <1>2, <2>1 DEF Commit, IInv, TypeOK
  <2>3. RangeHolds'
    BY <2>1, <2>2 DEF IInv
  <2>4. Added(r) \subseteq tags /\ tags' = tags
    BY <1>2 DEF Commit, Accepted
  <2>5. ASSUME NEW link \in links' PROVE Present(link[1])' /\ link[2] \in tags'
    <3>1. CASE link \in links
      <4>1. link[1] \in Logs
        BY <3>1 DEF IInv, TypeOK
      <4> QED
        BY <2>1, <2>2, <2>4, <3>1, <4>1 DEF IInv
    <3>2. CASE link \in Pairs(l, Added(r))
      BY <2>1, <2>2, <2>4, <3>2 DEF Pairs
    <3> QED
      BY <1>2, <3>1, <3>2 DEF Commit
  <2> QED
    BY <2>3, <2>5
<1>3. ASSUME NEW r \in Requests, NEW t \in Tags, DeleteTag(r, t)
      PROVE  TablesConsistent'
  BY <1>3 DEF DeleteTag, IInv
<1>4. ASSUME NEW r \in Requests, NEW c \in Contexts, DeleteContext(r, c)
      PROVE  TablesConsistent'
  <2> DEFINE gone == {l \in Logs : Present(l) /\ rows[l].ctx = c}
  <2>1. \A l \in gone : [rows[l] EXCEPT !.phase = "purged"].phase = "purged"
    BY DEF IInv, TypeOK, Row, Absent
  <2>2. /\ \A l \in Logs : rows'[l] = IF l \in gone THEN [rows[l] EXCEPT !.phase = "purged"] ELSE rows[l]
        /\ links' = {link \in links : link[1] \notin gone}
        /\ tags' = tags
    BY <1>4 DEF DeleteContext
  <2>3. \A l \in Logs : rows'[l].phase = "purged" \/ rows'[l] = rows[l]
    BY <2>1, <2>2
  <2>4. \A l \in Logs \ gone : rows'[l] = rows[l]
    BY <2>2
  <2>5. \A link \in links' : link \in links /\ link[1] \in Logs \ gone
    BY <2>2 DEF IInv, TypeOK
  <2> HIDE DEF gone
  <2> QED
    BY <2>2, <2>3, <2>4, <2>5 DEF IInv
<1> QED
  BY <1>1, <1>2, <1>3, <1>4, ZenonT(30)
  DEF Next, vars, CreateLog, LoadUpdate, LoadDelete, Resolve, Fail

-----------------------------------------------------------------------------
LEMMA InitIInv == Init => IInv
<1> SUFFICES ASSUME Init PROVE IInv
  OBVIOUS
<1>1. PendingInv
  BY DEF Init, PendingInv, Pending, Idle
<1>2. TablesConsistent
  BY DEF Init, TablesConsistent, RangeHolds, LinksExist, Present, Absent
<1> QED
  BY <1>1, <1>2, TypeInit DEF IInv

LEMMA StepIInv == IInv /\ [Next]_vars => IInv'
  BY TypeStep, PendingStep, TablesStep DEF IInv

LEMMA Invariance == Spec => []IInv
  BY InitIInv, StepIInv, PTL DEF Spec

\* Every variable keeps its type.
THEOREM TypeCorrect == Spec => []TypeOK
<1>1. IInv => TypeOK
  BY DEF IInv
<1> QED
  BY <1>1, Invariance, PTL

\* logs.py:281 and log_entry_tag.py:5: no race commits a range that ends before
\* it starts, or a link to what is not there, for any entries, tags and dates.
THEOREM TablesStayConsistent == Spec => []TablesConsistent
<1>1. IInv => TablesConsistent
  BY DEF IInv
<1> QED
  BY <1>1, Invariance, PTL

-----------------------------------------------------------------------------
\* What one commit may change, and that nothing else changes as much.
LEMMA CommitChanges ==
    ASSUME IInv, NEW r \in Requests, Commit(r)
    PROVE  LET q == requests[r]
           IN  /\ q.log \in Logs /\ requests'[r].pc = "done"
               /\ rows'[q.log] = Written(r)
               /\ \A l \in Logs \ {q.log} :
                    /\ rows'[l] = rows[l]
                    /\ \A t \in Tags : <<l, t>> \in links' <=> <<l, t>> \in links
               /\ \A t \in Tags : <<q.log, t>> \in links' <=>
                    \/ t \in Added(r)
                    \/ <<q.log, t>> \in links /\ t \notin Removed(r)
<1> DEFINE q == requests[r]
<1>1. q.log \in Logs
  BY WrittenRow DEF Commit
<1>2. requests'[r].pc = "done"
  BY Answered DEF Commit, IInv
<1>3. rows'[q.log] = Written(r) /\ \A l \in Logs \ {q.log} : rows'[l] = rows[l]
  BY <1>1 DEF Commit, IInv, TypeOK
<1>4. links' = (links \ Pairs(q.log, Removed(r))) \cup Pairs(q.log, Added(r))
  BY DEF Commit
<1>5. \A l \in Logs, t \in Tags :
        /\ <<l, t>> \in Pairs(q.log, Added(r)) <=> l = q.log /\ t \in Added(r)
        /\ <<l, t>> \in Pairs(q.log, Removed(r)) <=> l = q.log /\ t \in Removed(r)
  BY DEF Pairs
<1> QED
  BY <1>1, <1>2, <1>3, <1>4, <1>5

\* Entries and links as steps other than commits leave them.
LEMMA OtherChanges ==
    ASSUME IInv, [Next]_vars, \A r \in Requests : ~Commit(r), NEW l \in Logs, Present(l)
    PROVE  /\ rows'[l] # rows[l] => /\ rows'[l].phase = "purged"
                                    /\ rows'[l].start = rows[l].start
                                    /\ rows'[l].end = rows[l].end
           /\ \A t \in Tags \cap tags' :
                 <<l, t>> \in links \ links' => rows'[l].phase = "purged"
           /\ links' \subseteq links
<1>1. CASE UNCHANGED <<rows, links>>
  BY <1>1
<1>2. ASSUME NEW r \in Requests, NEW t \in Tags, DeleteTag(r, t)
      PROVE  rows' = rows /\ links' = {link \in links : link[2] # t} /\ t \notin tags'
  BY <1>2 DEF DeleteTag
<1>3. ASSUME NEW r \in Requests, NEW c \in Contexts, DeleteContext(r, c)
      PROVE  /\ rows'[l] = rows[l] \/ rows'[l] = [rows[l] EXCEPT !.phase = "purged"]
             /\ rows'[l] = rows[l] \/ \A t \in Tags : <<l, t>> \in links => rows'[l].phase = "purged"
             /\ links' \subseteq links
             /\ \A t \in Tags : <<l, t>> \in links \ links' => rows'[l].phase = "purged"
  <2> DEFINE gone == {k \in Logs : Present(k) /\ rows[k].ctx = c}
  <2>1. /\ rows'[l] = IF l \in gone THEN [rows[l] EXCEPT !.phase = "purged"] ELSE rows[l]
        /\ links' = {link \in links : link[1] \notin gone}
    BY <1>3 DEF DeleteContext
  <2>2. l \in gone => rows'[l].phase = "purged"
    BY <2>1 DEF Present, IInv, TypeOK, Row, Absent
  <2> QED
    BY <2>1, <2>2
<1>4. rows[l] \in Row /\ rows[l] # Absent
  BY DEF Present, Absent, IInv, TypeOK
<1>5. [rows[l] EXCEPT !.phase = "purged"].phase = "purged"
  /\ [rows[l] EXCEPT !.phase = "purged"].start = rows[l].start
  /\ [rows[l] EXCEPT !.phase = "purged"].end = rows[l].end
  BY <1>4 DEF Row
<1>6. ASSUME NEW r \in Requests, NEW c \in Contexts, DeleteContext(r, c)
      PROVE  /\ rows'[l] # rows[l] => /\ rows'[l].phase = "purged"
                                      /\ rows'[l].start = rows[l].start
                                      /\ rows'[l].end = rows[l].end
             /\ \A t \in Tags \cap tags' :
                   <<l, t>> \in links \ links' => rows'[l].phase = "purged"
             /\ links' \subseteq links
  BY <1>3, <1>5, <1>6
<1>7. ASSUME NEW r \in Requests, NEW t \in Tags, DeleteTag(r, t)
      PROVE  /\ rows'[l] = rows[l]
             /\ \A k \in Tags \cap tags' : <<l, k>> \notin links \ links'
             /\ links' \subseteq links
  BY <1>2, <1>7
<1>8. CASE \E r \in Requests, t \in Tags : DeleteTag(r, t)
  BY <1>7, <1>8
<1>9. CASE \E r \in Requests, c \in Contexts : DeleteContext(r, c)
  BY <1>6, <1>9
<1> QED
  BY <1>1, <1>8, <1>9, ZenonT(30)
  DEF Next, vars, CreateLog, LoadUpdate, LoadDelete, Resolve, Fail

\* schemas/logs.py:52: for any number of requests, an entry, its dates and its
\* tags change only by a request that asked for just that.
THEOREM OnlyAskedIsWritten == Spec => OnlyAskedFieldsChange
<1> DEFINE Asked ==
      \A l \in Logs : Present(l) =>
        LET by(ask(_)) == \E r \in Requests :
                /\ requests[r].log = l /\ requests'[r].pc = "done" /\ ask(requests[r])
        IN  /\ rows'[l].start # rows[l].start => by(LAMBDA q : q.start = rows'[l].start)
            /\ rows'[l].end # rows[l].end     => by(LAMBDA q : q.end = rows'[l].end)
            /\ rows'[l].phase # rows[l].phase => \/ by(LAMBDA q : q.op = "delete")
                                                 \/ rows'[l].phase = "purged"
            /\ \A t \in tags' : <<l, t>> \in links \ links' =>
                  rows'[l].phase = "purged"
                    \/ by(LAMBDA q : q.want # None /\ t \in q.seen \ q.want)
            /\ \A t \in tags' : <<l, t>> \in links' \ links =>
                  by(LAMBDA q : q.want # None /\ t \in q.want)
<1>1. IInv /\ IInv' /\ [Next]_vars => [Asked]_vars
  <2> SUFFICES ASSUME IInv, IInv', [Next]_vars, NEW l \in Logs, Present(l)
               PROVE
        /\ rows'[l].start # rows[l].start => \E r \in Requests :
              requests[r].log = l /\ requests'[r].pc = "done" /\ requests[r].start = rows'[l].start
        /\ rows'[l].end # rows[l].end => \E r \in Requests :
              requests[r].log = l /\ requests'[r].pc = "done" /\ requests[r].end = rows'[l].end
        /\ rows'[l].phase # rows[l].phase =>
              \/ \E r \in Requests :
                    requests[r].log = l /\ requests'[r].pc = "done" /\ requests[r].op = "delete"
              \/ rows'[l].phase = "purged"
        /\ \A t \in tags' : <<l, t>> \in links \ links' =>
              \/ rows'[l].phase = "purged"
              \/ \E r \in Requests :
                    /\ requests[r].log = l /\ requests'[r].pc = "done"
                    /\ requests[r].want # None /\ t \in requests[r].seen \ requests[r].want
        /\ \A t \in tags' : <<l, t>> \in links' \ links =>
              \E r \in Requests :
                    /\ requests[r].log = l /\ requests'[r].pc = "done"
                    /\ requests[r].want # None /\ t \in requests[r].want
    OBVIOUS
  <2>1. tags' \subseteq Tags
    BY DEF IInv, TypeOK
  <2>2. CASE \A r \in Requests : ~Commit(r)
    BY <2>1, <2>2, OtherChanges
  <2>3. ASSUME NEW r \in Requests, Commit(r), requests[r].log # l
        PROVE  /\ rows'[l] = rows[l]
               /\ \A t \in Tags : <<l, t>> \in links' <=> <<l, t>> \in links
    BY <2>3, CommitChanges
  <2>4. ASSUME NEW r \in Requests, Commit(r), requests[r].log = l
        PROVE  /\ requests'[r].pc = "done"
               /\ rows'[l].start \in {requests[r].start, rows[l].start}
               /\ rows'[l].end \in {requests[r].end, rows[l].end}
               /\ rows'[l].phase # rows[l].phase => requests[r].op = "delete"
               /\ \A t \in Tags : <<l, t>> \in links \ links' =>
                     requests[r].want # None /\ t \in requests[r].seen \ requests[r].want
               /\ \A t \in Tags : <<l, t>> \in links' \ links =>
                     requests[r].want # None /\ t \in requests[r].want
    <3>1. requests[r].op # "create"
      BY <2>4 DEF Commit, Present, IInv, PendingInv, Pending
    <3>2. /\ requests[r].pc = "commit" /\ Accepted(r)
      BY <2>4 DEF Commit
    <3>3. /\ requests'[r].pc = "done" /\ rows'[l] = Written(r)
          /\ \A t \in Tags : <<l, t>> \in links' <=>
                    \/ t \in Added(r)
                    \/ <<l, t>> \in links /\ t \notin Removed(r)
      BY <2>4, CommitChanges
    <3>4. /\ Written(r).start \in {requests[r].start, rows[l].start}
          /\ Written(r).end \in {requests[r].end, rows[l].end}
          /\ Written(r).phase # rows[l].phase => requests[r].op = "delete"
      BY <2>4, <3>1, <3>2, WrittenRow
    <3>5. /\ Added(r) \in SUBSET Tags /\ Removed(r) \in SUBSET Tags
          /\ requests[r].want = None => Added(r) = {} /\ Removed(r) = {}
          /\ requests[r].want # None => /\ Added(r) = requests[r].want \ requests[r].seen
                                        /\ Removed(r) = requests[r].seen \ requests[r].want
      BY AddedTags DEF IInv
    <3> QED
      BY <3>3, <3>4, <3>5
  <2>5. ASSUME NEW r \in Requests, Commit(r), requests[r].log = l
        PROVE
        /\ rows'[l].start # rows[l].start => \E q \in Requests :
              requests[q].log = l /\ requests'[q].pc = "done" /\ requests[q].start = rows'[l].start
        /\ rows'[l].end # rows[l].end => \E q \in Requests :
              requests[q].log = l /\ requests'[q].pc = "done" /\ requests[q].end = rows'[l].end
        /\ rows'[l].phase # rows[l].phase => \E q \in Requests :
              requests[q].log = l /\ requests'[q].pc = "done" /\ requests[q].op = "delete"
        /\ \A t \in tags' : <<l, t>> \in links \ links' =>
              \E q \in Requests :
                    /\ requests[q].log = l /\ requests'[q].pc = "done"
                    /\ requests[q].want # None /\ t \in requests[q].seen \ requests[q].want
        /\ \A t \in tags' : <<l, t>> \in links' \ links =>
              \E q \in Requests :
                    /\ requests[q].log = l /\ requests'[q].pc = "done"
                    /\ requests[q].want # None /\ t \in requests[q].want
    BY <2>1, <2>4, <2>5
  <2> QED
    BY <2>1, <2>2, <2>3, <2>5
<1>2. Spec => [][Asked]_vars
  BY <1>1, Invariance, PTL DEF Spec
<1> QED
  BY <1>2 DEF OnlyAskedFieldsChange

\* logs.py:319: whatever else is committed in between, a replacement of an
\* entry's tags differs from what it was given by others' changes alone.
THEOREM ReplacedButForRaces == Spec => ReplacedUpToRaces
<1> DEFINE Exact ==
      \A r \in Requests :
        LET q   == requests[r]
            now == {t \in Tags : <<q.log, t>> \in links'}
        IN  /\ q.pc = "commit" /\ q.op = "update" /\ q.want # None
            /\ requests'[r].pc = "done"
            => /\ now \ q.want \subseteq TagsOf(q.log) \ q.seen
               /\ q.want \ now \subseteq q.seen \ TagsOf(q.log)
<1>1. IInv /\ [Next]_vars => [Exact]_vars
  <2> SUFFICES ASSUME IInv, [Next]_vars, NEW r \in Requests,
                      requests[r].pc = "commit", requests[r].want # None,
                      requests'[r].pc = "done"
               PROVE  LET q   == requests[r]
                          now == {t \in Tags : <<q.log, t>> \in links'}
                      IN  /\ now \ q.want \subseteq TagsOf(q.log) \ q.seen
                          /\ q.want \ now \subseteq q.seen \ TagsOf(q.log)
    OBVIOUS
  <2>1. Commit(r)
    <3>1. \A q \in Requests : \A rec : Put(q, rec) => q = r
      BY DEF Put, IInv, TypeOK
    <3>2. ~Free(r)
      BY DEF Free
    <3>3. ~Fail(r)
      BY Answered DEF Fail, IInv
    <3>4. ASSUME NEW q \in Requests, Commit(q) PROVE q = r
      BY <3>1, <3>4 DEF Commit, Answer
    <3>5. ASSUME NEW q \in Requests, Fail(q) PROVE q = r
      BY <3>1, <3>5 DEF Fail, Answer
    <3>6. ASSUME NEW q \in Requests, Resolve(q) PROVE q = r
      BY <3>1, <3>6 DEF Resolve, Answer
    <3>7. ~Resolve(r)
      BY DEF Resolve
    <3>8. ASSUME NEW q \in Requests, NEW l \in Logs, NEW c \in Contexts, NEW s \in Dates,
                 NEW e \in Dates, NEW ids \in TagLists, CreateLog(q, l, c, s, e, ids)
          PROVE  FALSE
      BY <3>1, <3>2, <3>8 DEF CreateLog
    <3>9. ASSUME NEW q \in Requests, NEW l \in Logs, NEW s \in Dates \cup {None},
                 NEW e \in Dates \cup {None}, NEW ids \in TagLists \cup {None},
                 LoadUpdate(q, l, s, e, ids)
          PROVE  FALSE
      BY <3>1, <3>2, <3>9 DEF LoadUpdate
    <3>10. ASSUME NEW q \in Requests, NEW l \in Logs, LoadDelete(q, l) PROVE FALSE
      BY <3>1, <3>2, <3>10 DEF LoadDelete
    <3>11. ASSUME NEW q \in Requests, NEW t \in Tags, DeleteTag(q, t) PROVE FALSE
      BY <3>1, <3>2, <3>11 DEF DeleteTag, Answer
    <3>12. ASSUME NEW q \in Requests, NEW c \in Contexts, DeleteContext(q, c) PROVE FALSE
      BY <3>1, <3>2, <3>12 DEF DeleteContext, Answer
    <3>13. ~(UNCHANGED vars)
      BY DEF vars
    <3> QED
      BY <3>3, <3>4, <3>5, <3>6, <3>7, <3>8, <3>9, <3>10, <3>11, <3>12, <3>13 DEF Next
  <2>2. /\ requests[r].log \in Logs
        /\ \A t \in Tags : <<requests[r].log, t>> \in links' <=>
             \/ t \in Added(r)
             \/ <<requests[r].log, t>> \in links /\ t \notin Removed(r)
    BY <2>1, CommitChanges
  <2>3. /\ requests[r].want \in SUBSET Tags
        /\ Added(r) = requests[r].want \ requests[r].seen
        /\ Removed(r) = requests[r].seen \ requests[r].want
    BY AddedTags DEF IInv
  <2> QED
    BY <2>2, <2>3 DEF TagsOf
<1>2. Spec => [][Exact]_vars
  BY <1>1, Invariance, PTL DEF Spec
<1> QED
  BY <1>2, PTL DEF ReplacedUpToRaces

=============================================================================
