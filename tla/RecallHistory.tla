--------------------------- MODULE RecallHistory ---------------------------
(***************************************************************************)
(* What recall promises its user: a query leaves its question, its answer, *)
(* its place in a session and its mark on the day's account, all at once,  *)
(* or nothing at all; a session appears with its first exchange; messages  *)
(* go only with their session, and what was counted stays counted.         *)
(*                                                                         *)
(* The count, the flushes and the call of the model that a query goes      *)
(* through on the way, locks, connections and rate limits are RecallQuota. *)
(***************************************************************************)
EXTENDS Naturals, FiniteSets

CONSTANTS
    Requests,    \* recall queries
    Contexts,
    Self,        \* the context that cannot be deleted
    MostPerDay,  \* queries a day takes at most
    None

VARIABLES
    day,
    contexts,
    sessions,  \* phase and context of each chat session
    messages,  \* a query and a role
    audit,     \* the day a query was counted on
    home       \* the session a query was answered in

vars == <<day, contexts, sessions, messages, audit, home>>

Init ==
    /\ day      = 0
    /\ contexts = Contexts
    /\ sessions = [s \in Requests |-> [phase |-> "absent", ctx |-> None]]
    /\ messages = {}
    /\ audit    = [r \in Requests |-> None]
    /\ home     = [r \in Requests |-> None]

\* Query r is answered in session s, a new one in context c or one that is there.
Record(r, s, c) ==
    /\ audit[r] = None
    /\ c \in contexts
    /\ Cardinality({q \in Requests : audit[q] = day}) < MostPerDay
    /\ \/ /\ s = r
          /\ sessions[s].phase = "absent"
          /\ sessions' = [sessions EXCEPT ![s] = [phase |-> "live", ctx |-> c]]
       \/ /\ s # r
          /\ sessions[s].phase = "live"
          /\ UNCHANGED sessions
    /\ messages' = messages \cup ({r} \X {"user", "assistant"})
    /\ audit' = [audit EXCEPT ![r] = day]
    /\ home' = [home EXCEPT ![r] = s]
    /\ UNCHANGED <<day, contexts>>

\* Sessions outlive their context.
DeleteContext(c) ==
    /\ c \in contexts \ {Self}
    /\ contexts' = contexts \ {c}
    /\ sessions' = [s \in Requests |-> IF sessions[s].ctx = c
                                       THEN [sessions[s] EXCEPT !.ctx = None]
                                       ELSE sessions[s]]
    /\ UNCHANGED <<day, messages, audit, home>>

DeleteSession(s) ==
    /\ sessions[s].phase = "live"
    /\ sessions' = [sessions EXCEPT ![s] = [phase |-> "deleted", ctx |-> None]]
    /\ messages' = {m \in messages : home[m[1]] # s}
    /\ UNCHANGED <<day, contexts, audit, home>>

Midnight ==
    /\ day' = day + 1
    /\ UNCHANGED <<contexts, sessions, messages, audit, home>>

Next ==
    \/ \E r, s \in Requests, c \in Contexts : Record(r, s, c)
    \/ \E c \in Contexts : DeleteContext(c)
    \/ \E s \in Requests : DeleteSession(s)
    \/ Midnight

Spec == Init /\ [][Next]_vars
=============================================================================
