---------------------------- MODULE RecallQuota ----------------------------
(***************************************************************************)
(* The recall queries of one user: daily quota, chat history and the one   *)
(* database transaction that spans a query (app/services/recall.py).       *)
(*                                                                         *)
(* A query counts today's queries, stores the question, waits for the LLM  *)
(* and only then writes answer and audit row and commits.  What it flushed *)
(* before that is invisible to the others, but its foreign keys lock their *)
(* parents (FOR KEY SHARE): a delete of such a parent waits.               *)
(*                                                                         *)
(* A new chat session bears the name of the request that creates it.       *)
(***************************************************************************)
EXTENDS Naturals, FiniteSets

CONSTANTS
    Requests,   \* the recall requests of the user in a behaviour
    Contexts,   \* contexts of the user at the start
    Self,       \* the one that cannot be deleted
    Addresses,  \* remote addresses the user's requests come from
    Limit,      \* AI_QUERY_DAILY_LIMIT
    PoolSize,   \* database connections of the API process (5 + 10)
    MaxDay,     \* bound: days in a behaviour
    None

ASSUME QuotaAssumption ==
    /\ IsFiniteSet(Requests)
    /\ None \notin Requests \cup Nat
    /\ Self \in Contexts
    /\ Limit \in Nat \ {0}
    /\ PoolSize \in Nat \ {0}
    /\ MaxDay \in Nat

VARIABLES
    day,       \* today, UTC
    contexts,  \* contexts that exist
    sessions,  \* table chat_sessions
    messages,  \* table chat_messages: the request and the role
    audit,     \* table ai_query_logs: the day a request was counted on
    requests,  \* how far each request got
    hits       \* slowapi's counter of each address

vars == <<day, contexts, sessions, messages, audit, requests, hits>>

Days     == 0..MaxDay
Roles    == {"user", "assistant"}
Session  == [phase : {"absent", "live", "deleted"}, ctx : Contexts \cup {None}]
Request  == [pc : {"idle", "asserted", "counted", "open", "answered", "done", "failed"},
             ctx : Contexts \cup {None}, session : Requests \cup {None}]

TypeOK ==
    /\ day      \in Days
    /\ contexts \in SUBSET Contexts
    /\ sessions \in [Requests -> Session]
    /\ messages \in SUBSET (Requests \X Roles)
    /\ audit    \in [Requests -> Days \cup {None}]
    /\ requests \in [Requests -> Request]
    /\ hits     \in [Addresses -> 0..Limit]

Init ==
    /\ day      = 0
    /\ contexts = Contexts
    /\ sessions = [s \in Requests |-> [phase |-> "absent", ctx |-> None]]
    /\ messages = {}
    /\ audit    = [r \in Requests |-> None]
    /\ requests = [r \in Requests |-> [pc |-> "idle", ctx |-> None, session |-> None]]
    /\ hits     = [a \in Addresses |-> 0]

-----------------------------------------------------------------------------
At(r, pcs) == requests[r].pc \in pcs

\* From the authentication to the end of its transaction a request keeps one
\* connection; from the count on it may still add to the quota's use.
Holding   == {r \in Requests : At(r, {"asserted", "counted", "open", "answered"})}
Counted   == {r \in Requests : At(r, {"counted", "open", "answered"})}
InSession == {r \in Requests : At(r, {"open", "answered"})}

Used(d) == {r \in Requests : audit[r] = d}

Fresh(r) == requests[r].session = r

\* Key-share locks on the parents of the rows a transaction has inserted.
LockedContexts == {requests[r].ctx : r \in {q \in InSession : Fresh(q)}}

\* Faulty variant: messages have no foreign key on their session.
LockedSessionsNone == {}

LockedSessions == {requests[r].session : r \in {q \in InSession : ~Fresh(q)}}

Stored(r)  == {<<r, role>> : role \in Roles}
Goto(r, pc) == requests' = [requests EXCEPT ![r].pc = pc]

-----------------------------------------------------------------------------
\* Faulty variant: the address is counted but not limited.
AdmitUnlimited(r, a, c, s) ==
    /\ At(r, {"idle"})
    /\ Cardinality(Holding) < PoolSize
    /\ c \in contexts
    /\ s \in {None} \cup {q \in Requests : sessions[q].phase # "absent"}
    /\ hits' = [hits EXCEPT ![a] = @ + 1]
    /\ requests' = [requests EXCEPT ![r] = [pc |-> "asserted", ctx |-> c, session |-> s]]
    /\ UNCHANGED <<day, contexts, sessions, messages, audit>>

\* slowapi lets the address in, the context is the user's; s is the session to
\* continue, any the client ever saw, or None for a new one.
Admit(r, a, c, s) ==
    /\ At(r, {"idle"})
    /\ Cardinality(Holding) < PoolSize
    /\ hits[a] < Limit
    /\ c \in contexts
    /\ s \in {None} \cup {q \in Requests : sessions[q].phase # "absent"}
    /\ hits' = [hits EXCEPT ![a] = @ + 1]
    /\ requests' = [requests EXCEPT ![r] = [pc |-> "asserted", ctx |-> c, session |-> s]]
    /\ UNCHANGED <<day, contexts, sessions, messages, audit>>

\* Faulty variant: > for >= in the quota check.
CountOffByOne(r) ==
    /\ At(r, {"asserted"})
    /\ Goto(r, IF Cardinality(Used(day)) <= Limit THEN "counted" ELSE "failed")
    /\ UNCHANGED <<day, contexts, sessions, messages, audit, hits>>

\* The quota check, on what is committed at this moment.
Count(r) ==
    /\ At(r, {"asserted"})
    /\ Goto(r, IF Cardinality(Used(day)) < Limit THEN "counted" ELSE "failed")
    /\ UNCHANGED <<day, contexts, sessions, messages, audit, hits>>

\* Faulty variant: a commit where the code flushes the question.
OpenCommitsQuestion(r) ==
    LET s == requests[r].session
    IN  /\ At(r, {"counted"})
        /\ s # None => sessions[s].phase = "live"
        /\ requests' = [requests EXCEPT ![r].pc = "open",
                                        ![r].session = IF @ = None THEN r ELSE @]
        /\ messages' = messages \cup {<<r, "user">>}
        /\ UNCHANGED <<day, contexts, sessions, audit, hits>>

\* Faulty variant: a commit where the code flushes the new session.
OpenCommitsSession(r) ==
    LET q == requests[r]
    IN  /\ At(r, {"counted"})
        /\ q.session = None /\ q.ctx \in contexts
        /\ requests' = [requests EXCEPT ![r].pc = "open", ![r].session = r]
        /\ sessions' = [sessions EXCEPT ![r] = [phase |-> "live", ctx |-> q.ctx]]
        /\ UNCHANGED <<day, contexts, messages, audit, hits>>

\* _get_or_create_session and the flush of the question.  A foreign key without
\* its parent, or a session that is gone, fails the request.
Open(r) ==
    LET q == requests[r]
        parent == IF q.session = None THEN q.ctx \in contexts
                  ELSE sessions[q.session].phase = "live"
    IN  /\ At(r, {"counted"})
        /\ requests' = [requests EXCEPT
              ![r].pc = IF parent THEN "open" ELSE "failed",
              ![r].session = IF @ = None THEN r ELSE @]
        /\ UNCHANGED <<day, contexts, sessions, messages, audit, hits>>

Answer(r) ==
    /\ At(r, {"open"})
    /\ Goto(r, "answered")
    /\ UNCHANGED <<day, contexts, sessions, messages, audit, hits>>

\* Answer, audit row and commit.  The audit row needs its context, which only
\* the transaction of a new session has locked.
Commit(r) ==
    LET q == requests[r]
    IN  /\ At(r, {"answered"})
        /\ q.ctx \in contexts
        /\ sessions' = IF Fresh(r)
                       THEN [sessions EXCEPT ![r] = [phase |-> "live", ctx |-> q.ctx]]
                       ELSE sessions
        /\ messages' = messages \cup Stored(r)
        /\ audit' = [audit EXCEPT ![r] = day]
        /\ Goto(r, "done")
        /\ UNCHANGED <<day, contexts, hits>>

\* The RAG pipeline or the LLM raises, the audit row's context is gone, or the
\* process dies: the transaction is rolled back and has written nothing.
Rollback(r) ==
    /\ r \in Holding
    /\ Goto(r, "failed")
    /\ UNCHANGED <<day, contexts, sessions, messages, audit, hits>>

\* delete_context: chat sessions keep their rows and lose their context.
DeleteContext(c) ==
    /\ c \in contexts \ {Self}
    /\ c \notin LockedContexts
    /\ contexts' = contexts \ {c}
    /\ sessions' = [s \in Requests |-> IF sessions[s].ctx = c
                                       THEN [sessions[s] EXCEPT !.ctx = None]
                                       ELSE sessions[s]]
    /\ UNCHANGED <<day, messages, audit, requests, hits>>

\* delete_chat_session: the messages go, the audit rows stay.
DeleteSession(s) ==
    /\ sessions[s].phase = "live"
    /\ s \notin LockedSessions
    /\ sessions' = [sessions EXCEPT ![s] = [phase |-> "deleted", ctx |-> None]]
    /\ messages' = {m \in messages : requests[m[1]].session # s}
    /\ UNCHANGED <<day, contexts, audit, requests, hits>>

\* slowapi's window of an address starts with its first hit, not at midnight,
\* and its counters die with the process.
ResetWindow(a) ==
    /\ hits[a] > 0
    /\ hits' = [hits EXCEPT ![a] = 0]
    /\ UNCHANGED <<day, contexts, sessions, messages, audit, requests>>

Midnight ==
    /\ day < MaxDay
    /\ day' = day + 1
    /\ UNCHANGED <<contexts, sessions, messages, audit, requests, hits>>

Next ==
    \/ \E r \in Requests :
        \/ \E a \in Addresses, c \in Contexts, s \in Requests \cup {None} :
              Admit(r, a, c, s)
        \/ Count(r) \/ Open(r) \/ Answer(r) \/ Commit(r) \/ Rollback(r)
    \/ \E c \in Contexts : DeleteContext(c)
    \/ \E s \in Requests : DeleteSession(s)
    \/ \E a \in Addresses : ResetWindow(a)
    \/ Midnight

Spec == Init /\ [][Next]_vars

-----------------------------------------------------------------------------
(* Properties.                                                             *)

\* PRD.md:182, "50 AI queries/user/day".
DailyLimit == Cardinality(Used(day)) <= Limit

\* What holds of the quota instead: every query that is between its count and
\* its commit has a connection of the pool, so a day is overrun by less than
\* the pool's size, whatever the addresses, windows and midnights.
OverrunBounded == Cardinality(Used(day)) < Limit + PoolSize

\* recall.py:163-205 is one transaction: no question without its answer or an
\* answer without its question, no message that was not counted, and a query
\* that was counted is in its session as long as that lives.
HistoryMatchesAudit ==
    \A r \in Requests :
        /\ \/ Stored(r) \subseteq messages
           \/ Stored(r) \cap messages = {}
        /\ Stored(r) \subseteq messages => audit[r] # None
        /\ audit[r] # None /\ sessions[requests[r].session].phase = "live"
             => Stored(r) \subseteq messages

\* A session shows up with its first exchange, and shows up under a context that
\* exists or under none: never as an empty shell of a query that failed.
SessionsAreWhole ==
    \A s \in Requests :
        sessions[s].phase = "live" =>
            /\ \E r \in Requests : requests[r].session = s /\ Stored(r) \subseteq messages
            /\ sessions[s].ctx \in contexts \cup {None}

\* chat_session.py:48 and ai_query_log.py:48, "SET NULL when context deleted":
\* deleting a context takes no message away, and nothing gives a query back.
HistoryOutlivesContexts ==
    [][/\ contexts' # contexts => messages' = messages
       /\ \A r \in Requests : audit[r] # None => audit'[r] = audit[r]]_vars

\* Seen from outside a query is one step: recall.py:163-205 is one transaction,
\* and the locks of its foreign keys hold off what would tear it apart.
Home    == [r \in Requests |-> IF audit[r] = None THEN None ELSE requests[r].session]
History == INSTANCE RecallHistory WITH home <- Home, MostPerDay <- Limit + PoolSize - 1

ImplementsHistory == History!Spec

=============================================================================
