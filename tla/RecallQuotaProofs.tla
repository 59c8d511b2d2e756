------------------------- MODULE RecallQuotaProofs -------------------------
(***************************************************************************)
(* What holds of recall queries for any number of requests, any quota and  *)
(* any pool: how far a day can overrun its quota, and that the history is  *)
(* whole.                                                                  *)
(*                                                                         *)
(* The quota argument: a counted query has a connection until it commits,  *)
(* so the queries used today and those that may still be added to them are *)
(* together less than Limit + PoolSize.  A check lets a query in only      *)
(* below Limit, a commit moves one query from the second set to the first, *)
(* and midnight empties the first.                                         *)
(***************************************************************************)
EXTENDS RecallQuota, FiniteSetTheorems, TLAPS

\* The audit row is written by the commit, on a day that has begun.
AuditInv ==
    /\ \A r \in Requests : audit[r] # None <=> requests[r].pc = "done"
    /\ \A r \in Requests : audit[r] # None => audit[r] <= day

QuotaInv ==
    /\ Cardinality(Holding) <= PoolSize
    /\ Cardinality(Used(day)) + Cardinality(Counted) < Limit + PoolSize

\* Only a committed request has messages, both of them, and keeps them as long
\* as its session lives.
MessageInv ==
    \A r \in Requests :
        /\ requests[r].pc \in {"open", "answered", "done"} => requests[r].session # None
        /\ requests[r].pc # "done" => Stored(r) \cap messages = {}
        /\ <<r, "user">> \in messages <=> <<r, "assistant">> \in messages
        /\ requests[r].pc = "done" /\ sessions[requests[r].session].phase = "live"
             => Stored(r) \subseteq messages

\* A session's row appears with the commit of the request that created it, and
\* only then can another request ask for it.
SessionInv ==
    \A s \in Requests :
        /\ requests[s].session \in Requests \ {s} =>
               requests[requests[s].session].pc = "done"
        /\ sessions[s].phase # "absent" =>
               requests[s].pc = "done" /\ requests[s].session = s
        /\ sessions[s].ctx \in contexts \cup {None}

IInv == TypeOK /\ AuditInv /\ QuotaInv /\ MessageInv /\ SessionInv

-----------------------------------------------------------------------------
\* Sets of requests are finite, and their sizes are ordered by inclusion.
LEMMA RequestSets ==
    ASSUME NEW S \in SUBSET Requests
    PROVE  /\ IsFiniteSet(S)
           /\ Cardinality(S) \in Nat
           /\ \A T \in SUBSET S : /\ IsFiniteSet(T)
                                  /\ Cardinality(T) \in Nat
                                  /\ Cardinality(T) <= Cardinality(S)
<1>1. IsFiniteSet(S)
  BY QuotaAssumption, FS_Subset
<1>2. \A T \in SUBSET S : IsFiniteSet(T) /\ Cardinality(T) <= Cardinality(S)
  BY <1>1, FS_Subset
<1> QED
  BY <1>1, <1>2, FS_CardinalityType

LEMMA TypeInit == Init => TypeOK
BY QuotaAssumption DEF Init, TypeOK, Session, Request, Days

\* Every step keeps the types.
LEMMA TypeStep == TypeOK /\ [Next]_vars => TypeOK'
<1> SUFFICES ASSUME TypeOK, [Next]_vars PROVE TypeOK'
  OBVIOUS
<1> USE QuotaAssumption DEF TypeOK, Session, Request, Days
<1>1. ASSUME NEW r \in Requests, NEW a \in Addresses, NEW c \in Contexts,
             NEW s \in Requests \cup {None}, Admit(r, a, c, s)
      PROVE  TypeOK'
  <2>1. hits' \in [Addresses -> 0..Limit]
    BY <1>1 DEF Admit
  <2> QED
    BY <1>1, <2>1 DEF Admit
<1>2. ASSUME NEW r \in Requests, Count(r)
      PROVE  TypeOK'
  BY <1>2 DEF Count, Goto
<1>3. ASSUME NEW r \in Requests, Open(r)
      PROVE  TypeOK'
  <2>1. PICK pc \in {"open", "failed"}, s \in Requests :
           requests' = [requests EXCEPT ![r].pc = pc, ![r].session = s]
    BY <1>3 DEF Open
  <2> DEFINE q == [requests[r] EXCEPT !.pc = pc, !.session = s]
  <2>2. q \in Request
    <3>1. requests[r] \in Request
      OBVIOUS
    <3> HIDE DEF TypeOK
    <3> QED
      BY <3>1
  <2>3. requests' = [requests EXCEPT ![r] = q]
    BY <2>1
  <2>4. requests' \in [Requests -> Request]
    BY <2>2, <2>3
  <2> QED
    BY <1>3, <2>4 DEF Open
<1>4. ASSUME NEW r \in Requests, Answer(r) \/ Rollback(r)
      PROVE  TypeOK'
  <2>1. requests' \in [Requests -> Request]
    BY <1>4, SMTT(30) DEF Answer, Rollback, Goto
  <2> QED
    BY <1>4, <2>1 DEF Answer, Rollback
<1>5. ASSUME NEW r \in Requests, Commit(r)
      PROVE  TypeOK'
  BY <1>5 DEF Commit, Goto, Stored, Roles
<1>6. ASSUME NEW c \in Contexts, DeleteContext(c)
      PROVE  TypeOK'
  BY <1>6 DEF DeleteContext
<1>7. ASSUME NEW s \in Requests, DeleteSession(s)
      PROVE  TypeOK'
  BY <1>7 DEF DeleteSession
<1>8. ASSUME NEW a \in Addresses, ResetWindow(a)
      PROVE  TypeOK'
  BY <1>8 DEF ResetWindow
<1>9. CASE Midnight
  BY <1>9 DEF Midnight
<1>10. CASE UNCHANGED vars
  BY <1>10 DEF vars
<1> QED
  BY <1>1, <1>2, <1>3, <1>4, <1>5, <1>6, <1>7, <1>8, <1>9, <1>10 DEF Next

-----------------------------------------------------------------------------
LEMMA InitIInv == Init => IInv
<1> SUFFICES ASSUME Init PROVE IInv
  OBVIOUS
<1>1. TypeOK
  BY TypeInit
<1>2. Holding = {} /\ Counted = {} /\ Used(day) = {}
  BY QuotaAssumption DEF Init, Holding, Counted, Used, At, Days
<1>3. QuotaInv
  BY <1>2, FS_EmptySet, QuotaAssumption DEF QuotaInv
<1>4. AuditInv /\ MessageInv /\ SessionInv
  BY QuotaAssumption DEF Init, AuditInv, MessageInv, SessionInv
<1> QED
  BY <1>1, <1>3, <1>4 DEF IInv

\* The quota part, for a step that lets no query in and commits none.
LEMMA QuotaKept ==
    ASSUME IInv, day' = day, audit' = audit,
           Holding' \subseteq Holding, Counted' \subseteq Counted
    PROVE  QuotaInv'
<1> DEFINE used == Used(day)
<1>1. Used(day)' = used
  BY DEF Used
<1>2. Holding \in SUBSET Requests /\ Counted \in SUBSET Requests /\ used \in SUBSET Requests
  BY DEF Holding, Counted, Used
<1> HIDE DEF used
<1>3. Cardinality(Holding') <= Cardinality(Holding)
  BY <1>2, RequestSets
<1>4. Cardinality(Counted') <= Cardinality(Counted)
  BY <1>2, RequestSets
<1>5. /\ Cardinality(Holding') \in Nat /\ Cardinality(Holding) \in Nat
      /\ Cardinality(Counted') \in Nat /\ Cardinality(Counted) \in Nat
      /\ Cardinality(used) \in Nat
  BY <1>2, RequestSets
<1>6. /\ Cardinality(Holding) <= PoolSize
      /\ Cardinality(used) + Cardinality(Counted) < Limit + PoolSize
  BY DEF IInv, QuotaInv, used
<1> QED
  BY <1>1, <1>3, <1>4, <1>5, <1>6, QuotaAssumption DEF QuotaInv

\* Letting a query into the pool.
LEMMA AdmitQuota ==
    ASSUME IInv, NEW r \in Requests, NEW a \in Addresses, NEW c \in Contexts,
           NEW s \in Requests \cup {None}, Admit(r, a, c, s)
    PROVE  QuotaInv'
<1>1. Holding' = Holding \cup {r} /\ Counted' = Counted /\ Used(day)' = Used(day)
  BY DEF IInv, TypeOK, Request, Admit, Holding, Counted, Used, At
<1>2. Holding \in SUBSET Requests
  BY DEF Holding
<1>3. /\ Cardinality(Holding) \in Nat
      /\ Cardinality(Holding \cup {r}) <= Cardinality(Holding) + 1
  BY <1>2, RequestSets, FS_AddElement
<1>4. Cardinality(Holding) < PoolSize
  BY DEF Admit
<1>5. Cardinality(Holding \cup {r}) \in Nat
  BY <1>2, RequestSets
<1> QED
  BY <1>1, <1>3, <1>4, <1>5, QuotaAssumption DEF IInv, QuotaInv

\* The check: below the quota there is room for every connection of the pool.
LEMMA CountQuota ==
    ASSUME IInv, NEW r \in Requests, Count(r)
    PROVE  QuotaInv'
<1>1. CASE Cardinality(Used(day)) < Limit
  <2>1. Holding' = Holding /\ Used(day)' = Used(day) /\ Counted' \in SUBSET Holding
    BY <1>1 DEF IInv, TypeOK, Request, Count, Goto, Holding, Counted, Used, At
  <2>2. Holding \in SUBSET Requests /\ Used(day) \in SUBSET Requests
    BY DEF Holding, Used
  <2>3. /\ Cardinality(Counted') \in Nat /\ Cardinality(Counted') <= Cardinality(Holding)
        /\ Cardinality(Holding) \in Nat /\ Cardinality(Used(day)) \in Nat
    BY <2>1, <2>2, RequestSets
  <2>4. Cardinality(Holding) <= PoolSize
    BY DEF IInv, QuotaInv
  <2> QED
    BY <1>1, <2>1, <2>3, <2>4, QuotaAssumption DEF QuotaInv
<1>2. CASE ~(Cardinality(Used(day)) < Limit)
  <2>1. /\ day' = day /\ audit' = audit
        /\ Holding' \subseteq Holding /\ Counted' \subseteq Counted
    BY <1>2 DEF IInv, TypeOK, Request, Count, Goto, Holding, Counted, At
  <2> QED
    BY <2>1, QuotaKept
<1> QED
  BY <1>1, <1>2

\* A commit moves one query from the counted ones to the used ones.
LEMMA CommitQuota ==
    ASSUME IInv, NEW r \in Requests, Commit(r)
    PROVE  QuotaInv'
<1>1. /\ Holding' \in SUBSET Holding
      /\ r \in Counted /\ Counted' = Counted \ {r}
  BY DEF IInv, TypeOK, Request, Commit, Goto, Holding, Counted, At
<1>2. r \notin Used(day) /\ Used(day)' = Used(day) \cup {r}
  BY QuotaAssumption DEF IInv, TypeOK, Days, AuditInv, Commit, Used, At
<1>3. Holding \in SUBSET Requests /\ Counted \in SUBSET Requests /\ Used(day) \in SUBSET Requests
  BY DEF Holding, Counted, Used
<1>4. Cardinality(Counted \ {r}) = Cardinality(Counted) - 1
  BY <1>1, <1>3, RequestSets, FS_RemoveElement
<1>5. Cardinality(Used(day) \cup {r}) = Cardinality(Used(day)) + 1
  BY <1>2, <1>3, RequestSets, FS_AddElement
<1>6. /\ Cardinality(Counted) \in Nat /\ Cardinality(Used(day)) \in Nat
      /\ Cardinality(Holding) \in Nat /\ Cardinality(Holding') \in Nat
      /\ Cardinality(Holding') <= Cardinality(Holding)
  BY <1>1, <1>3, RequestSets
<1>7. /\ Cardinality(Holding) <= PoolSize
      /\ Cardinality(Used(day)) + Cardinality(Counted) < Limit + PoolSize
  BY DEF IInv, QuotaInv
<1>8. Cardinality(Used(day)') + Cardinality(Counted') < Limit + PoolSize
  BY <1>1, <1>2, <1>4, <1>5, <1>6, <1>7, QuotaAssumption
<1> QED
  BY <1>6, <1>7, <1>8, QuotaAssumption DEF QuotaInv

\* A new day has used nothing yet.
LEMMA MidnightQuota ==
    ASSUME IInv, Midnight
    PROVE  QuotaInv'
<1>1. Holding' = Holding /\ Counted' = Counted /\ Counted \in SUBSET Holding
  BY DEF Midnight, Holding, Counted, At
<1>2. Used(day)' = {}
  <2> SUFFICES ASSUME NEW q \in Requests, audit[q] = day + 1 PROVE FALSE
    BY DEF Midnight, Used
  <2> QED
    BY QuotaAssumption DEF IInv, TypeOK, Days, AuditInv
<1>3. Holding \in SUBSET Requests
  BY DEF Holding
<1>4. /\ Cardinality(Counted) <= Cardinality(Holding)
      /\ Cardinality(Counted) \in Nat /\ Cardinality(Holding) \in Nat
  BY <1>1, <1>3, RequestSets
<1>5. Cardinality(Holding) <= PoolSize
  BY DEF IInv, QuotaInv
<1> QED
  BY <1>1, <1>2, <1>4, <1>5, FS_EmptySet, QuotaAssumption DEF QuotaInv

-----------------------------------------------------------------------------
\* The history part, for a step of one request that is not its commit.
LEMMA OneRequest ==
    ASSUME IInv, NEW r \in Requests, requests[r].pc # "done",
           NEW q \in Request, q.pc # "done",
           q.pc \in {"open", "answered"} => q.session # None,
           q.session \in Requests \ {r} => requests[q.session].pc = "done",
           requests' = [requests EXCEPT ![r] = q],
           UNCHANGED <<day, contexts, sessions, messages, audit>>
    PROVE  AuditInv' /\ MessageInv' /\ SessionInv'
<1>1. /\ requests'[r] = q
      /\ \A p \in Requests \ {r} : requests'[p] = requests[p]
  BY DEF IInv, TypeOK
<1>2. AuditInv'
  BY <1>1 DEF IInv, AuditInv
<1>3. MessageInv'
  BY <1>1 DEF IInv, MessageInv, Stored
<1>4. SessionInv'
  BY <1>1 DEF IInv, SessionInv
<1> QED
  BY <1>2, <1>3, <1>4

\* The commit writes everything a request has to show, at once.
LEMMA CommitHistory ==
    ASSUME IInv, NEW r \in Requests, Commit(r)
    PROVE  AuditInv' /\ MessageInv' /\ SessionInv'
<1> DEFINE q == [requests[r] EXCEPT !.pc = "done"]
<1>1. /\ requests[r] \in Request /\ requests[r].pc = "answered"
      /\ requests[r].session \in Requests
      /\ requests' = [requests EXCEPT ![r] = q]
  BY DEF IInv, TypeOK, Request, MessageInv, Commit, Goto, At
<1>2. /\ requests'[r].pc = "done" /\ requests'[r].session = requests[r].session
      /\ \A p \in Requests \ {r} : requests'[p] = requests[p]
  BY <1>1 DEF IInv, TypeOK, Request
<1>3. AuditInv'
  <2>1. /\ audit' = [audit EXCEPT ![r] = day] /\ day' = day /\ day \in Days
        /\ audit \in [Requests -> Days \cup {None}]
    BY DEF IInv, TypeOK, Commit
  <2> QED
    BY <1>2, <2>1, QuotaAssumption DEF IInv, AuditInv, Days
<1>4. /\ <<r, "user">> \in messages' /\ <<r, "assistant">> \in messages'
      /\ \A p \in Requests \ {r}, role \in Roles :
             <<p, role>> \in messages' <=> <<p, role>> \in messages
  BY DEF Commit, Stored, Roles
<1>5. \A s \in Requests : s # r => sessions'[s] = sessions[s]
  BY DEF IInv, TypeOK, Commit
<1>6. \A s \in Requests : sessions'[s].phase = "live" => sessions[s].phase = "live" \/ s = r
  BY <1>5
\* Nobody can have asked for the session of r before r commits.
<1>7. \A p \in Requests \ {r} : requests[p].session # r
  BY <1>1 DEF IInv, SessionInv
<1>8. MessageInv'
  <2> SUFFICES ASSUME NEW p \in Requests
               PROVE  /\ requests'[p].pc \in {"open", "answered", "done"}
                            => requests'[p].session # None
                      /\ requests'[p].pc # "done" => Stored(p) \cap messages' = {}
                      /\ <<p, "user">> \in messages' <=> <<p, "assistant">> \in messages'
                      /\ requests'[p].pc = "done"
                            /\ sessions'[requests'[p].session].phase = "live"
                            => Stored(p) \subseteq messages'
    BY DEF MessageInv, Stored
  <2>1. CASE p = r
    BY <1>1, <1>2, <1>4, <2>1, QuotaAssumption DEF Stored, Roles
  <2>2. CASE p # r
    <3>1. requests'[p] = requests[p] /\ requests[p] \in Request
      BY <1>2, <2>2 DEF IInv, TypeOK
    <3>2. Stored(p) \cap messages' = Stored(p) \cap messages
      BY <1>4, <2>2 DEF Stored
    <3>3. requests[p].pc = "done" => requests[p].session \in Requests \ {r}
      BY <1>7, <2>2, <3>1 DEF IInv, MessageInv, Request
    <3>4. requests[p].pc = "done" =>
            sessions'[requests[p].session] = sessions[requests[p].session]
      BY <1>5, <3>3
    <3> QED
      BY <1>4, <2>2, <3>1, <3>2, <3>4 DEF IInv, MessageInv, Stored, Roles
  <2> QED
    BY <2>1, <2>2
<1>9. SessionInv'
  <2>1. contexts' = contexts /\ sessions \in [Requests -> Session] /\ requests[r].ctx \in contexts
    BY DEF IInv, TypeOK, Commit
  <2>2. sessions'[r] # sessions[r] => sessions'[r].ctx = requests[r].ctx /\ requests[r].session = r
    BY <2>1 DEF Commit, Fresh
  <2> SUFFICES ASSUME NEW s \in Requests
               PROVE  /\ requests'[s].session \in Requests \ {s} =>
                            requests'[requests'[s].session].pc = "done"
                      /\ sessions'[s].phase # "absent" =>
                            requests'[s].pc = "done" /\ requests'[s].session = s
                      /\ sessions'[s].ctx \in contexts' \cup {None}
    BY DEF SessionInv
  <2>3. requests'[s].session = requests[s].session
    BY <1>2
  <2>4. \A t \in Requests : requests[t].pc = "done" => requests'[t].pc = "done"
    BY <1>2
  <2> QED
    BY <1>2, <1>5, <2>1, <2>2, <2>3, <2>4 DEF IInv, SessionInv
<1> QED
  BY <1>3, <1>8, <1>9

LEMMA RequestSteps ==
    ASSUME IInv, NEW r \in Requests,
           \/ \E a \in Addresses, c \in Contexts, s \in Requests \cup {None} :
                  Admit(r, a, c, s)
           \/ Count(r) \/ Open(r) \/ Answer(r) \/ Rollback(r)
    PROVE  AuditInv' /\ MessageInv' /\ SessionInv'
<1> USE DEF At
<1>0. requests \in [Requests -> Request] /\ requests[r] \in Request
  BY DEF IInv, TypeOK
<1>1. ASSUME NEW a \in Addresses, NEW c \in Contexts, NEW s \in Requests \cup {None},
             Admit(r, a, c, s)
      PROVE  AuditInv' /\ MessageInv' /\ SessionInv'
  <2> DEFINE q == [pc |-> "asserted", ctx |-> c, session |-> s]
  <2>1. q \in Request /\ q.pc = "asserted" /\ q.session = s
    BY DEF Request
  <2>2. s \in Requests \ {r} => requests[s].pc = "done"
    BY <1>1, QuotaAssumption DEF Admit, IInv, SessionInv
  <2>3. /\ requests' = [requests EXCEPT ![r] = q] /\ requests[r].pc # "done"
        /\ UNCHANGED <<day, contexts, sessions, messages, audit>>
    BY <1>1 DEF Admit
  <2> HIDE DEF q
  <2> QED
    BY <2>1, <2>2, <2>3, OneRequest
<1>2. ASSUME NEW pc \in {"counted", "failed", "answered"}, Goto(r, pc),
             requests[r].pc # "done",
             pc = "answered" => requests[r].pc = "open",
             UNCHANGED <<day, contexts, sessions, messages, audit>>
      PROVE  AuditInv' /\ MessageInv' /\ SessionInv'
  <2> DEFINE q == [requests[r] EXCEPT !.pc = pc]
  <2>1. q \in Request /\ q.pc = pc /\ q.session = requests[r].session
    BY <1>0 DEF Request
  <2>2. requests' = [requests EXCEPT ![r] = q]
    BY <1>2 DEF Goto
  <2>3. q.pc \in {"open", "answered"} => q.session # None
    BY <1>2, <2>1 DEF IInv, MessageInv
  <2>4. q.session \in Requests \ {r} => requests[q.session].pc = "done"
    BY <2>1 DEF IInv, SessionInv
  <2> HIDE DEF q
  <2> QED
    BY <1>2, <2>1, <2>2, <2>3, <2>4, OneRequest
<1>3. CASE Open(r)
  <2>1. PICK pc \in {"open", "failed"}, s \in Requests :
           /\ requests' = [requests EXCEPT ![r].pc = pc, ![r].session = s]
           /\ s = IF requests[r].session = None THEN r ELSE requests[r].session
    BY <1>0, <1>3 DEF Open, Request
  <2> DEFINE q == [requests[r] EXCEPT !.pc = pc, !.session = s]
  <2>2. q \in Request /\ q.pc = pc /\ q.session = s
    BY <1>0 DEF Request
  <2>3. requests' = [requests EXCEPT ![r] = q]
    BY <2>1
  <2>4. s \in Requests \ {r} => requests[s].pc = "done"
    BY <2>1 DEF IInv, SessionInv
  <2>5. s # None
    BY QuotaAssumption
  <2>6. requests[r].pc # "done" /\ UNCHANGED <<day, contexts, sessions, messages, audit>>
    BY <1>3 DEF Open
  <2> HIDE DEF q
  <2> QED
    BY <2>2, <2>3, <2>4, <2>5, <2>6, OneRequest
<1>4. CASE Count(r)
  BY <1>2, <1>4 DEF Count
<1>5. CASE Answer(r)
  BY <1>2, <1>5 DEF Answer
<1>6. CASE Rollback(r)
  BY <1>2, <1>6 DEF Rollback, Holding
<1> QED
  BY <1>1, <1>3, <1>4, <1>5, <1>6

\* The locks are not needed for what is proved here: a delete takes a session
\* with all its messages, or a context out of every session.
LEMMA DeleteSteps ==
    ASSUME IInv,
           \/ \E c \in Contexts : DeleteContext(c)
           \/ \E s \in Requests : DeleteSession(s)
    PROVE  AuditInv' /\ MessageInv' /\ SessionInv'
<1>1. ASSUME NEW c \in Contexts, DeleteContext(c)
      PROVE  AuditInv' /\ MessageInv' /\ SessionInv'
  <2>1. UNCHANGED <<day, messages, audit, requests>> /\ contexts' = contexts \ {c}
    BY <1>1 DEF DeleteContext
  <2>2. \A s \in Requests : /\ sessions'[s].phase = sessions[s].phase
                            /\ sessions'[s].ctx = IF sessions[s].ctx = c THEN None
                                                  ELSE sessions[s].ctx
    BY <1>1 DEF DeleteContext, IInv, TypeOK, Session
  <2>3. AuditInv'
    BY <2>1 DEF IInv, AuditInv
  <2>4. MessageInv'
    BY <2>1, <2>2 DEF IInv, TypeOK, Request, MessageInv, Stored
  <2>5. SessionInv'
    BY <2>1, <2>2 DEF IInv, SessionInv
  <2> QED
    BY <2>3, <2>4, <2>5
<1>2. ASSUME NEW s \in Requests, DeleteSession(s)
      PROVE  AuditInv' /\ MessageInv' /\ SessionInv'
  <2>1. UNCHANGED <<day, contexts, audit, requests>>
    BY <1>2 DEF DeleteSession
  <2>2. /\ sessions[s].phase = "live"
        /\ sessions'[s].phase = "deleted" /\ sessions'[s].ctx = None
        /\ \A t \in Requests \ {s} : sessions'[t] = sessions[t]
    BY <1>2 DEF DeleteSession, IInv, TypeOK
  <2>3. \A p \in Requests, role \in Roles :
           <<p, role>> \in messages' <=>
               <<p, role>> \in messages /\ requests[p].session # s
    BY <1>2 DEF DeleteSession
  <2>4. AuditInv'
    BY <2>1 DEF IInv, AuditInv
  <2>5. MessageInv'
    <3> SUFFICES ASSUME NEW p \in Requests
                 PROVE  /\ requests[p].pc \in {"open", "answered", "done"}
                              => requests[p].session # None
                        /\ requests[p].pc # "done" => Stored(p) \cap messages' = {}
                        /\ <<p, "user">> \in messages' <=> <<p, "assistant">> \in messages'
                        /\ requests[p].pc = "done"
                              /\ sessions'[requests[p].session].phase = "live"
                              => Stored(p) \subseteq messages'
      BY <2>1 DEF MessageInv, Stored
    <3>1. requests[p].pc = "done" => requests[p].session \in Requests
      BY DEF IInv, TypeOK, Request, MessageInv
    <3> QED
      BY <2>2, <2>3, <3>1 DEF IInv, MessageInv, Stored, Roles
  <2>6. SessionInv'
    BY <2>1, <2>2 DEF IInv, SessionInv
  <2> QED
    BY <2>4, <2>5, <2>6
<1> QED
  BY <1>1, <1>2

LEMMA StepIInv == IInv /\ [Next]_vars => IInv'
<1> SUFFICES ASSUME IInv, [Next]_vars PROVE IInv'
  OBVIOUS
<1>t. TypeOK'
  BY TypeStep DEF IInv
<1>1. ASSUME NEW r \in Requests, NEW a \in Addresses, NEW c \in Contexts,
             NEW s \in Requests \cup {None}, Admit(r, a, c, s)
      PROVE  IInv'
  BY <1>t, <1>1, AdmitQuota, RequestSteps DEF IInv
<1>2. ASSUME NEW r \in Requests, Count(r)
      PROVE  IInv'
  BY <1>t, <1>2, CountQuota, RequestSteps DEF IInv
<1>3. ASSUME NEW r \in Requests, Open(r) \/ Answer(r) \/ Rollback(r)
      PROVE  IInv'
  <2>1. /\ day' = day /\ audit' = audit
        /\ Holding' \subseteq Holding /\ Counted' \subseteq Counted
    <3>0. requests \in [Requests -> Request]
      BY DEF IInv, TypeOK
    <3>1. \A q \in Requests \ {r} : requests'[q] = requests[q]
      BY <1>3, <3>0 DEF Open, Answer, Rollback, Goto
    <3>2. r \in Holding
      BY <1>3 DEF Open, Answer, Rollback, Holding, At
    <3>3. r \in Counted' => r \in Counted
      BY <1>3, <3>0 DEF Open, Answer, Rollback, Goto, Counted, At, Request
    <3> QED
      BY <1>3, <3>1, <3>2, <3>3 DEF Open, Answer, Rollback, Holding, Counted, At
  <2> QED
    BY <1>t, <1>3, <2>1, QuotaKept, RequestSteps DEF IInv
<1>4. ASSUME NEW r \in Requests, Commit(r)
      PROVE  IInv'
  BY <1>t, <1>4, CommitQuota, CommitHistory DEF IInv
<1>5. ASSUME NEW c \in Contexts, DeleteContext(c)
      PROVE  IInv'
  <2>1. day' = day /\ audit' = audit /\ Holding' = Holding /\ Counted' = Counted
    BY <1>5 DEF DeleteContext, Holding, Counted, At
  <2> QED
    BY <1>t, <1>5, <2>1, QuotaKept, DeleteSteps DEF IInv
<1>6. ASSUME NEW s \in Requests, DeleteSession(s)
      PROVE  IInv'
  <2>1. day' = day /\ audit' = audit /\ Holding' = Holding /\ Counted' = Counted
    BY <1>6 DEF DeleteSession, Holding, Counted, At
  <2> QED
    BY <1>t, <1>6, <2>1, QuotaKept, DeleteSteps DEF IInv
<1>7. ASSUME \/ \E a \in Addresses : ResetWindow(a)
             \/ UNCHANGED vars
      PROVE  IInv'
  <2>1. UNCHANGED <<day, contexts, sessions, messages, audit, requests>>
    BY <1>7 DEF ResetWindow, vars
  <2>2. Holding' = Holding /\ Counted' = Counted
    BY <2>1 DEF Holding, Counted, At
  <2>3. QuotaInv'
    BY <2>1, <2>2, QuotaKept
  <2>4. AuditInv' /\ MessageInv' /\ SessionInv'
    BY <2>1 DEF IInv, AuditInv, MessageInv, SessionInv, Stored
  <2> QED
    BY <1>t, <2>3, <2>4 DEF IInv
<1>8. CASE Midnight
  <2>1. UNCHANGED <<contexts, sessions, messages, audit, requests>> /\ day' = day + 1
    BY <1>8 DEF Midnight
  <2>2. AuditInv'
    BY <2>1, QuotaAssumption DEF IInv, TypeOK, Days, AuditInv
  <2>3. MessageInv' /\ SessionInv'
    BY <2>1 DEF IInv, MessageInv, SessionInv, Stored
  <2> QED
    BY <1>t, <1>8, <2>2, <2>3, MidnightQuota DEF IInv
<1> QED
  BY <1>1, <1>2, <1>3, <1>4, <1>5, <1>6, <1>7, <1>8 DEF Next

-----------------------------------------------------------------------------
\* The inductive invariant holds in every reachable state.
THEOREM Invariance == Spec => []IInv
BY InitIInv, StepIInv, PTL DEF Spec

\* Every variable keeps its type.
THEOREM TypeCorrect == Spec => []TypeOK
<1>1. IInv => TypeOK
  BY DEF IInv
<1> QED
  BY <1>1, Invariance, PTL

\* A day overruns its quota by less than the connection pool's size: what is left
\* of "50 AI queries/user/day" when the check in recall.py:155-157 takes no lock.
THEOREM OverrunIsBounded == Spec => []OverrunBounded
<1>1. IInv => OverrunBounded
  <2> SUFFICES ASSUME IInv PROVE OverrunBounded
    OBVIOUS
  <2>1. Used(day) \in SUBSET Requests /\ Counted \in SUBSET Requests
    BY DEF Used, Counted
  <2>2. Cardinality(Used(day)) \in Nat /\ Cardinality(Counted) \in Nat
    BY <2>1, RequestSets
  <2> QED
    BY <2>2, QuotaAssumption DEF IInv, QuotaInv, OverrunBounded
<1> QED
  BY <1>1, Invariance, PTL

\* Where queries cannot overlap, with a single connection, the quota holds as it is
\* written (PRD.md:182): the overlap is all that is wrong with it.
THEOREM OneConnectionKeepsLimit == PoolSize = 1 /\ Spec => []DailyLimit
<1>1. ASSUME PoolSize = 1 PROVE IInv => DailyLimit
  <2> SUFFICES ASSUME IInv PROVE DailyLimit
    OBVIOUS
  <2>1. Used(day) \in SUBSET Requests /\ Counted \in SUBSET Requests
    BY DEF Used, Counted
  <2>2. Cardinality(Used(day)) \in Nat /\ Cardinality(Counted) \in Nat
    BY <2>1, RequestSets
  <2> QED
    BY <1>1, <2>2, QuotaAssumption DEF IInv, QuotaInv, DailyLimit
<1>2. ASSUME PoolSize = 1 PROVE Spec => []DailyLimit
  <2>1. IInv => DailyLimit
    BY <1>1, <1>2
  <2> QED
    BY <2>1, Invariance, PTL
<1> QED
  BY <1>2

\* Questions, answers and audit rows appear together or not at all, and stay
\* together while their session lives (recall.py:163-205).
THEOREM HistoryIsAudited == Spec => []HistoryMatchesAudit
<1>1. IInv => HistoryMatchesAudit
  BY ZenonT(30) DEF IInv, TypeOK, AuditInv, MessageInv, HistoryMatchesAudit, Stored, Roles
<1> QED
  BY <1>1, Invariance, PTL

\* A session that can be listed has its first exchange and no dangling context.
THEOREM SessionsStayWhole == Spec => []SessionsAreWhole
<1>1. IInv => SessionsAreWhole
  BY DEF IInv, MessageInv, SessionInv, SessionsAreWhole
<1> QED
  BY <1>1, Invariance, PTL

\* Deleting a context takes no message away, and a counted query stays counted
\* (chat_session.py:48, ai_query_log.py:48).
THEOREM ContextsLeaveHistory == Spec => HistoryOutlivesContexts
<1> DEFINE Keeps == /\ contexts' # contexts => messages' = messages
                    /\ \A r \in Requests : audit[r] # None => audit'[r] = audit[r]
<1>1. IInv /\ [Next]_vars => [Keeps]_vars
  <2> SUFFICES ASSUME IInv, Next PROVE Keeps
    OBVIOUS
  <2>1. contexts' # contexts => messages' = messages
    BY DEF Next, Admit, Count, Open, Answer, Commit, Rollback, DeleteContext, DeleteSession,
           ResetWindow, Midnight
  <2>2. ASSUME NEW r \in Requests, Commit(r)
        PROVE  \A q \in Requests : audit[q] # None => audit'[q] = audit[q]
    BY <2>2 DEF Commit, At, IInv, TypeOK, AuditInv
  <2>3. (\E r \in Requests : Commit(r)) \/ audit' = audit
    BY DEF Next, Admit, Count, Open, Answer, Rollback, DeleteContext, DeleteSession,
           ResetWindow, Midnight
  <2> QED
    BY <2>1, <2>2, <2>3
<1> QED
  BY <1>1, Invariance, PTL DEF Spec, HistoryOutlivesContexts

-----------------------------------------------------------------------------
(* A query of many steps implements one of a single step.                  *)

\* The session a transaction continues is locked, and so still there.
LockInv == \A r \in InSession : ~Fresh(r) => sessions[requests[r].session].phase = "live"

LEMMA LockInvariance == Spec => []LockInv
<1>1. Init => LockInv
  BY DEF Init, LockInv, InSession, At
<1>2. IInv /\ IInv' /\ LockInv /\ [Next]_vars => LockInv'
  <2> SUFFICES ASSUME IInv, IInv', LockInv, [Next]_vars,
                      NEW r \in Requests, At(r, {"open", "answered"})', ~Fresh(r)'
               PROVE  sessions'[requests'[r].session].phase = "live"
    BY DEF LockInv, InSession
  <2> DEFINE s == requests'[r].session
  <2>0. /\ requests \in [Requests -> Request] /\ sessions \in [Requests -> Session]
        /\ requests[r] \in Request
        /\ s \in Requests \ {r} /\ requests'[r].pc \in {"open", "answered"}
    BY DEF IInv, TypeOK, MessageInv, Fresh, At, Request
  <2>1. CASE sessions' = sessions /\ requests'[r] = requests[r]
    BY <2>0, <2>1 DEF LockInv, InSession, At, Fresh
  <2>2. CASE Open(r)
    BY <2>0, <2>2 DEF Open, At, Request
  <2>3. CASE Answer(r)
    <3>1. requests[r].pc = "open" /\ requests'[r].session = requests[r].session /\ sessions' = sessions
      BY <2>0, <2>3 DEF Answer, Goto, At, Request
    <3> QED
      BY <2>0, <3>1 DEF LockInv, InSession, At, Fresh
  <2>4. ASSUME NEW q \in Requests, Commit(q) PROVE sessions'[s].phase = "live"
    <3>1. q # r /\ requests'[r] = requests[r]
      BY <2>0, <2>4 DEF Commit, Goto, At, Request
    <3>2. sessions[s].phase = "live"
      BY <2>0, <3>1 DEF LockInv, InSession, At, Fresh
    <3>3. sessions'[s].phase \in {sessions[s].phase, "live"}
      BY <2>0, <2>4 DEF Commit
    <3> QED
      BY <3>2, <3>3
  <2>5. ASSUME NEW c \in Contexts, DeleteContext(c) PROVE sessions'[s].phase = "live"
    <3>1. requests' = requests
      BY <2>5 DEF DeleteContext
    <3>2. sessions[s].phase = "live"
      BY <2>0, <3>1 DEF LockInv, InSession, At, Fresh
    <3>3. sessions'[s].phase = sessions[s].phase
      BY <2>0, <2>5 DEF DeleteContext, Session
    <3> QED
      BY <3>2, <3>3
  <2>6. ASSUME NEW t \in Requests, DeleteSession(t) PROVE sessions'[s].phase = "live"
    <3>1. requests' = requests /\ t \notin LockedSessions
      BY <2>6 DEF DeleteSession
    <3>2. sessions[s].phase = "live" /\ s \in LockedSessions
      BY <2>0, <3>1 DEF LockInv, InSession, At, Fresh, LockedSessions
    <3>3. sessions'[s] = sessions[s]
      BY <2>0, <2>6, <3>1, <3>2 DEF DeleteSession
    <3> QED
      BY <3>2, <3>3
  <2>7. CASE \E q \in Requests :
                \/ \E a \in Addresses, c \in Contexts, t \in Requests \cup {None} :
                      Admit(q, a, c, t)
                \/ Count(q) \/ Open(q) \/ Answer(q) \/ Rollback(q)
    <3>1. PICK q \in Requests :
                \/ \E a \in Addresses, c \in Contexts, t \in Requests \cup {None} :
                      Admit(q, a, c, t)
                \/ Count(q) \/ Open(q) \/ Answer(q) \/ Rollback(q)
      BY <2>7
    <3>2. CASE q # r
      BY <2>0, <2>1, <3>1, <3>2 DEF Admit, Count, Open, Answer, Rollback, Goto
    <3>3. CASE q = r
      BY <2>0, <2>2, <2>3, <3>1, <3>3 DEF Admit, Count, Rollback, Goto, Request
    <3> QED
      BY <3>2, <3>3
  <2>8. \/ sessions' = sessions /\ requests' = requests
        \/ \E q \in Requests : Commit(q)
        \/ \E c \in Contexts : DeleteContext(c)
        \/ \E t \in Requests : DeleteSession(t)
        \/ \E q \in Requests :
                \/ \E a \in Addresses, c \in Contexts, t \in Requests \cup {None} :
                      Admit(q, a, c, t)
                \/ Count(q) \/ Open(q) \/ Answer(q) \/ Rollback(q)
    BY DEF Next, vars, ResetWindow, Midnight
  <2> QED
    BY <2>1, <2>4, <2>5, <2>6, <2>7, <2>8
<1> QED
  BY <1>1, <1>2, Invariance, PTL DEF Spec

\* Where a query was answered: nowhere until it is counted.
LEMMA HomeOf ==
    ASSUME IInv, NEW r \in Requests
    PROVE  Home[r] = IF requests[r].pc = "done" THEN requests[r].session ELSE None
BY DEF IInv, AuditInv, Home

LEMMA HomeKept ==
    ASSUME audit' = audit,
           \A r \in Requests : audit[r] # None => requests'[r].session = requests[r].session
    PROVE  Home' = Home
BY DEF Home

LEMMA HistoryInit == Init => History!Init
<1> SUFFICES ASSUME Init PROVE History!Init
  OBVIOUS
<1>1. Home = [r \in Requests |-> None]
  BY DEF Init, Home
<1> QED
  BY <1>1 DEF Init, History!Init

\* The size of a set is the same in both modules.
LEMMA SameSize == \A S : History!Cardinality(S) = Cardinality(S)
BY DEF History!Cardinality, Cardinality

\* The commit is the step: the queries counted before it are few enough, and the
\* session is the query's own or locked.
LEMMA CommitRecords ==
    ASSUME IInv, LockInv, NEW r \in Requests, Commit(r)
    PROVE  History!Next
<1> DEFINE s == requests[r].session
           c == requests[r].ctx
<1>1. /\ requests[r] \in Request /\ requests[r].pc = "answered" /\ s \in Requests
      /\ r \in InSession
  BY DEF IInv, TypeOK, Request, MessageInv, Commit, At, InSession
<1>2. /\ audit[r] = None /\ audit' = [audit EXCEPT ![r] = day]
      /\ day \in Days /\ day' = day /\ contexts' = contexts /\ c \in contexts
      /\ audit \in [Requests -> Days \cup {None}]
  BY <1>1 DEF Commit, IInv, TypeOK, AuditInv
<1>3. Cardinality(Used(day)) < Limit + PoolSize - 1
  <2>1. r \in Counted /\ Counted \in SUBSET Requests /\ Used(day) \in SUBSET Requests
    BY <1>1 DEF Counted, At, Used
  <2>2. {r} \in SUBSET Counted /\ Cardinality({r}) = 1
    BY <2>1, FS_Singleton
  <2>3. Cardinality(Counted) \in Nat /\ Cardinality(Counted) >= 1 /\ Cardinality(Used(day)) \in Nat
    BY <2>1, <2>2, RequestSets
  <2>4. Cardinality(Used(day)) + Cardinality(Counted) < Limit + PoolSize
    BY DEF IInv, QuotaInv
  <2> QED
    BY <2>3, <2>4, QuotaAssumption
<1>4. Home' = [Home EXCEPT ![r] = s]
  <2>1. \A q \in Requests : requests'[q].session = requests[q].session
    BY <1>1 DEF Commit, Goto, IInv, TypeOK, Request
  <2>2. \A q \in Requests : audit'[q] = IF q = r THEN day ELSE audit[q]
    BY <1>2
  <2>3. day # None
    BY <1>2, QuotaAssumption DEF Days
  <2>4. \A q \in Requests : Home'[q] = IF q = r THEN s ELSE Home[q]
    BY <2>1, <2>2, <2>3 DEF Home
  <2>5. Home' = [q \in Requests |-> Home'[q]]
    BY DEF Home
  <2> QED
    BY <2>4, <2>5, Zenon DEF Home
<1>5. messages' = messages \cup ({r} \X {"user", "assistant"})
  BY DEF Commit, Stored, Roles
<1>6. \/ /\ s = r
         /\ sessions[s].phase = "absent"
         /\ sessions' = [sessions EXCEPT ![s] = [phase |-> "live", ctx |-> c]]
      \/ /\ s # r
         /\ sessions[s].phase = "live"
         /\ sessions' = sessions
  <2>1. CASE s = r
    BY <1>1, <2>1 DEF IInv, SessionInv, Commit, Fresh
  <2>2. CASE s # r
    BY <1>1, <2>2 DEF LockInv, Commit, Fresh
  <2> QED
    BY <2>1, <2>2
<1>7. History!Record(r, s, c)
  BY <1>2, <1>3, <1>4, <1>5, <1>6, SameSize DEF History!Record, Used
<1>8. c \in Contexts
  BY <1>2 DEF IInv, TypeOK
<1> QED
  BY <1>1, <1>7, <1>8 DEF History!Next

\* Every interleaving of queries that count, wait, answer and fail, with sessions
\* and contexts deleted under them, is one of queries answered in a single step
\* (recall.py:163-205): what a query leaves is whole, in a session that exists,
\* and on a day that holds fewer than Limit + PoolSize.
THEOREM QueriesAreAtomic == Spec => ImplementsHistory
<1>1. IInv /\ LockInv /\ [Next]_vars => [History!Next]_(History!vars)
  <2> SUFFICES ASSUME IInv, LockInv, [Next]_vars PROVE [History!Next]_(History!vars)
    OBVIOUS
  <2>0. requests \in [Requests -> Request] /\ AuditInv /\ MessageInv
    BY DEF IInv, TypeOK
  <2>1. ASSUME NEW r \in Requests,
               \/ \E a \in Addresses, c \in Contexts, s \in Requests \cup {None} :
                      Admit(r, a, c, s)
               \/ Count(r) \/ Open(r) \/ Answer(r) \/ Rollback(r)
        PROVE  UNCHANGED History!vars
    <3>1. UNCHANGED <<day, contexts, sessions, messages, audit>>
      BY <2>1 DEF Admit, Count, Open, Answer, Rollback
    <3>2. requests[r].pc # "done" /\ \A q \in Requests \ {r} : requests'[q] = requests[q]
      BY <2>0, <2>1 DEF Admit, Count, Open, Answer, Rollback, Goto, At, Holding
    <3>3. Home' = Home
      BY <2>0, <3>1, <3>2, HomeKept DEF AuditInv
    <3> QED
      BY <3>1, <3>3 DEF History!vars
  <2>2. ASSUME NEW c \in Contexts, DeleteContext(c) PROVE History!Next
    <3>1. Home' = Home
      BY <2>2, HomeKept DEF DeleteContext
    <3>2. History!DeleteContext(c)
      BY <2>2, <3>1 DEF DeleteContext, History!DeleteContext
    <3> QED
      BY <3>2 DEF History!Next
  <2>3. ASSUME NEW s \in Requests, DeleteSession(s) PROVE History!Next
    <3>1. Home' = Home
      BY <2>3, HomeKept DEF DeleteSession
    <3>2. ASSUME NEW m \in messages PROVE Home[m[1]] = requests[m[1]].session
      <4>1. m[1] \in Requests /\ m[2] \in Roles /\ m = <<m[1], m[2]>>
        BY DEF IInv, TypeOK
      <4>2. requests[m[1]].pc = "done"
        BY <2>0, <4>1 DEF MessageInv, Stored
      <4> QED
        BY <4>1, <4>2, HomeOf
    <3>3. messages' = {m \in messages : Home[m[1]] # s}
      BY <2>3, <3>2 DEF DeleteSession
    <3>4. History!DeleteSession(s)
      BY <2>3, <3>1, <3>3 DEF DeleteSession, History!DeleteSession
    <3> QED
      BY <3>4 DEF History!Next
  <2>4. ASSUME \/ \E a \in Addresses : ResetWindow(a)
               \/ UNCHANGED vars
        PROVE  UNCHANGED History!vars
    BY <2>4 DEF ResetWindow, vars, History!vars, Home
  <2>5. CASE Midnight
    <3>1. Home' = Home
      BY <2>5, HomeKept DEF Midnight
    <3>2. History!Midnight
      BY <2>5, <3>1 DEF Midnight, History!Midnight
    <3> QED
      BY <3>2 DEF History!Next
  <2> QED
    BY <2>1, <2>2, <2>3, <2>4, <2>5, CommitRecords DEF Next
<1> QED
  BY <1>1, HistoryInit, Invariance, LockInvariance, PTL
     DEF Spec, ImplementsHistory, History!Spec

=============================================================================
