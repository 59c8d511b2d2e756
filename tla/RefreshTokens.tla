--------------------------- MODULE RefreshTokens ---------------------------
(***************************************************************************)
(* The one session of one account: the refresh token whose hash is stored  *)
(* in users.refresh_token_hash (app/services/auth.py, app/core/security.py)*)
(*                                                                         *)
(* Every request loads the user row, decides on what it loaded and commits *)
(* later; nothing locks the row in between.  The ORM writes the columns    *)
(* that differ from the loaded ones, so that setting a loaded NULL to NULL *)
(* or a loaded hash to the same hash writes nothing.                       *)
(*                                                                         *)
(* A token is a JWT of user, type and two times in whole seconds: of one   *)
(* account's refresh tokens each is named by the second of its issue, and  *)
(* two of the same second are the same token.  Times are in such seconds.  *)
(* Requests with a wrong password change nothing and are left out.         *)
(***************************************************************************)
EXTENDS Naturals

CONSTANTS
    Requests,    \* API requests that touch the account
    TokenLife,   \* life of a refresh token (7 days)
    AccessLife,  \* life of an access token (15 minutes)
    ResetLife,   \* life of a reset token (15 minutes)
    MaxTime,     \* bound: seconds in a behaviour
    None

ASSUME TokenAssumption ==
    /\ None \notin Nat
    /\ {TokenLife, AccessLife, ResetLife, MaxTime} \subseteq Nat

VARIABLES
    now,       \* wall clock
    hash,      \* the token whose hash is stored, None for NULL
    active,    \* users.is_active
    provider,  \* users.auth_provider
    requests,  \* what each request does, what it loaded and what it made
    issued,    \* refresh (and access) tokens handed to clients
    resets,    \* reset tokens mailed
    spent,     \* history: tokens that were stored and have been replaced
    fence,     \* history: when the last undisturbed revocation committed
    clean      \* history: revocations under way that no issue has overlapped

vars == <<now, hash, active, provider, requests, issued, resets, spent, fence, clean>>

Time    == 0..MaxTime
Token   == Time \cup {None}
Issues  == {"login", "google", "refresh"}
Revokes == {"logout", "password", "reset"}
Request == [op : Issues \cup Revokes \cup {"toggle", "none"},
            pc : {"idle", "loaded", "built", "done", "failed"},
            seen : Token, sawActive : BOOLEAN, token : Token]

TypeOK ==
    /\ now      \in Time
    /\ hash     \in Token
    /\ active   \in BOOLEAN
    /\ provider \in {"local", "google"}
    /\ requests \in [Requests -> Request]
    /\ issued   \in SUBSET Time
    /\ resets   \in SUBSET Time
    /\ spent    \in SUBSET Time
    /\ fence    \in Time
    /\ clean    \in SUBSET Requests

\* An account of either kind, signed out.
Init ==
    /\ now      = 0
    /\ hash     = None
    /\ active   = TRUE
    /\ provider \in {"local", "google"}
    /\ requests = [r \in Requests |-> [op |-> "none", pc |-> "idle", seen |-> None,
                                       sawActive |-> TRUE, token |-> None]]
    /\ issued   = {}
    /\ resets   = {}
    /\ spent    = {}
    /\ fence    = 0
    /\ clean    = {}

-----------------------------------------------------------------------------
Issuing  == {r \in Requests : requests[r].op \in Issues /\ requests[r].pc \in {"loaded", "built"}}

Alive(t, life) == now < t + life

\* get_current_user: some access token is still good and the user is active.
SignedIn == active /\ \E t \in issued : Alive(t, AccessLife)

Loaded(r, op, t) ==
    /\ requests[r].pc = "idle"
    /\ requests' = [requests EXCEPT ![r] = [op |-> op, pc |-> "loaded", seen |-> hash,
                                            sawActive |-> active, token |-> t]]
    /\ UNCHANGED <<now, hash, active, provider, issued, resets, spent, fence>>

StartIssue(r, op)  == Loaded(r, op, None) /\ clean' = {}
StartRevoke(r, op, t) ==
    /\ Loaded(r, op, t)
    /\ clean' = IF Issuing = {} THEN clean \cup {r} ELSE clean

Login(r)   == provider = "local" /\ active /\ StartIssue(r, "login")

\* Signs in by Google account, or by e-mail and links the account on the way.
Google(r)  == active /\ StartIssue(r, "google")

\* The presented token must be the stored one.
Refresh(r) ==
    /\ active
    /\ hash \in issued /\ Alive(hash, TokenLife)
    /\ StartIssue(r, "refresh")

Logout(r)  == SignedIn /\ StartRevoke(r, "logout", None)

UpdatePassword(r) == SignedIn /\ provider = "local" /\ StartRevoke(r, "password", None)

\* Neither the provider nor is_active is asked, nor whether t was used before.
ResetPassword(r, t) ==
    /\ t \in resets /\ Alive(t, ResetLife)
    /\ StartRevoke(r, "reset", t)

\* toggle_user_active, by an administrator.
Toggle(r) == Loaded(r, "toggle", None) /\ UNCHANGED clean

ForgotPassword ==
    /\ provider = "local"
    /\ resets' = resets \cup {now}
    /\ UNCHANGED <<now, hash, active, provider, requests, issued, spent, fence, clean>>

\* Faulty variant: the time of issue is rounded up.
BuildAhead(r) ==
    /\ requests[r].op \in Issues /\ requests[r].pc = "loaded"
    /\ requests' = [requests EXCEPT ![r].pc = "built", ![r].token = now + 1]
    /\ UNCHANGED <<now, hash, active, provider, issued, resets, spent, fence, clean>>

\* create_refresh_token, after the checks.
Build(r) ==
    /\ requests[r].op \in Issues /\ requests[r].pc = "loaded"
    /\ requests' = [requests EXCEPT ![r].pc = "built", ![r].token = now]
    /\ UNCHANGED <<now, hash, active, provider, issued, resets, spent, fence, clean>>

\* Stores new over what the request loaded.
Store(r, new) ==
    LET seen == requests[r].seen
    IN  /\ hash' = IF new = seen THEN hash ELSE new
        /\ spent' = (spent \cup {IF new = seen THEN seen ELSE hash}) \ {None}

CommitIssue(r) ==
    /\ requests[r].pc = "built"
    /\ Store(r, requests[r].token)
    /\ issued' = issued \cup {requests[r].token}
    /\ provider' = IF requests[r].op = "google" THEN "google" ELSE provider
    /\ requests' = [requests EXCEPT ![r].pc = "done"]
    /\ UNCHANGED <<now, active, resets, fence, clean>>

\* Faulty variant: the stored hash is forgotten.
CommitRevokeKeepsHash(r) ==
    /\ requests[r].op \in Revokes /\ requests[r].pc = "loaded"
    /\ requests' = [requests EXCEPT ![r].pc = "done"]
    /\ fence' = IF r \in clean THEN now ELSE fence
    /\ clean' = clean \ {r}
    /\ UNCHANGED <<now, hash, active, provider, issued, resets, spent>>

CommitRevoke(r) ==
    /\ requests[r].op \in Revokes /\ requests[r].pc = "loaded"
    /\ Store(r, None)
    /\ requests' = [requests EXCEPT ![r].pc = "done"]
    /\ fence' = IF r \in clean THEN now ELSE fence
    /\ clean' = clean \ {r}
    /\ UNCHANGED <<now, active, provider, issued, resets>>

\* Faulty variant: the administrator's request writes the loaded row back whole.
CommitToggleWholeRow(r) ==
    /\ requests[r].op = "toggle" /\ requests[r].pc = "loaded"
    /\ active' = ~requests[r].sawActive
    /\ hash' = requests[r].seen
    /\ requests' = [requests EXCEPT ![r].pc = "done"]
    /\ UNCHANGED <<now, provider, issued, resets, spent, fence, clean>>

CommitToggle(r) ==
    /\ requests[r].op = "toggle" /\ requests[r].pc = "loaded"
    /\ active' = ~requests[r].sawActive
    /\ requests' = [requests EXCEPT ![r].pc = "done"]
    /\ UNCHANGED <<now, hash, provider, issued, resets, spent, fence, clean>>

\* An exception or the death of the process before the commit.
Abort(r) ==
    /\ requests[r].pc \in {"loaded", "built"}
    /\ requests' = [requests EXCEPT ![r].pc = "failed"]
    /\ clean' = clean \ {r}
    /\ UNCHANGED <<now, hash, active, provider, issued, resets, spent, fence>>

Tick ==
    /\ now < MaxTime
    /\ now' = now + 1
    /\ UNCHANGED <<hash, active, provider, requests, issued, resets, spent, fence, clean>>

Next ==
    \/ \E r \in Requests :
        \/ Login(r) \/ Google(r) \/ Refresh(r)
        \/ Logout(r) \/ UpdatePassword(r) \/ Toggle(r)
        \/ \E t \in Time : ResetPassword(r, t)
        \/ Build(r) \/ CommitIssue(r) \/ CommitRevoke(r) \/ CommitToggle(r)
        \/ Abort(r)
    \/ ForgotPassword
    \/ Tick

Spec == Init /\ [][Next]_vars

-----------------------------------------------------------------------------
(* Properties.                                                             *)

\* auth.py:320, 373 and 433 promise that logout, password reset and password
\* change end the session.  They do, for good, when no sign-in or refresh
\* overlaps them: no token of an earlier second is ever stored again.
RevocationHolds == hash # None => hash >= fence

\* auth.py:283, "prevents replay of revoked tokens": a token that was replaced
\* is never stored again, unless two requests stored it, made in the same second.
SpentStaysSpent ==
    hash \in spent =>
        \E r1, r2 \in Requests :
            /\ r1 # r2
            /\ \A r \in {r1, r2} : /\ requests[r].op \in Issues
                                   /\ requests[r].pc = "done"
                                   /\ requests[r].token = hash

\* ARCHITECTURE.md:335, "On refresh, both tokens reissued. Old refresh
\* invalidated."  The code does not hold to it within one second.
OldTokenInvalidated == hash \notin spent

\* auth.py:283, "Stored hash matches (prevents replay of revoked tokens)": a
\* refresh takes effect only while the token it was given is the stored one.  The
\* code does not hold to it: a logout may commit after the comparison.
RefreshReplacesItsToken ==
    [][\A r \in Requests :
          /\ requests[r].op = "refresh"
          /\ requests[r].pc = "built" /\ requests'[r].pc = "done"
          => hash = requests[r].seen]_vars

=============================================================================
