------------------------------ MODULE Accounts ------------------------------
(***************************************************************************)
(* Accounts and their unique keys: signup, Google sign-in and linking,     *)
(* profile changes (app/services/auth.py) and the seeded administrator     *)
(* (app/db/seed.py), with every account's Self context.                    *)
(*                                                                         *)
(* A request reads committed rows in one statement (READ COMMITTED, no     *)
(* lock) and decides on them; later it writes one row.  It writes in the   *)
(* order of PostgreSQL: an UPDATE locks its row first, then the row's new  *)
(* keys go into the unique indexes one after the other, in the order in    *)
(* which the migration creates them.  A key that another transaction has   *)
(* written, or may be giving up, makes the writer wait for its end; a key  *)
(* of a committed row fails the statement.  Sessions have autoflush off:   *)
(* what a handler sets is written by flush() and commit() alone.           *)
(*                                                                         *)
(* An account is named by the request that creates it.                     *)
(***************************************************************************)
EXTENDS Naturals

CONSTANTS
    Requests,    \* API requests and runs of the seed script
    Usernames, Emails, Identities,  \* Identities: Google's "sub" claims
    None         \* NULL, and "not given"

Columns == {"email", "google", "username"}
Keys    == Requests \cup Usernames \cup Emails \cup Identities
Row     == [Columns -> Keys \cup {None}]

ASSUME AccountAssumption ==
    None \notin Keys \cup Row

VARIABLES
    users,     \* committed rows of table users, by account
    selves,    \* accounts with a committed Self context
    requests   \* what each request does, and its uncommitted work

vars == <<users, selves, requests>>

\* want: the keys the request sets; dirty: the columns its statement writes;
\* claimed: those of them already in their index; self: a flushed Self context.
Request == [op : {"none", "signup", "google", "profile", "seed"},
            pc : {"idle", "email", "name", "checkName", "checkEmail", "lock",
                  "keys", "flushed", "ready", "done", "conflict", "failed"},
            user : Requests \cup {None},
            want : Row, dirty : SUBSET Columns, claimed : SUBSET Columns,
            self : BOOLEAN]

TypeOK ==
    /\ users    \in [Requests -> {row \in Row : row["username"] # None} \cup {None}]
    /\ selves   \in SUBSET Requests
    /\ requests \in [Requests -> Request]

-----------------------------------------------------------------------------
Exists(a) == users[a] # None
HasKey(a, c, k) == Exists(a) /\ k # None /\ users[a][c] = k

Keyed(e, g, u) == [c \in Columns |-> CASE c = "email"  -> e
                                       [] c = "google" -> g
                                       [] OTHER        -> u]
Given(row) == {c \in Columns : row[c] # None}

\* The ORM writes what differs from the row it loaded.
Differing(a, row) == {c \in Given(row) : users[a][c] # row[c]}

Idle == [op |-> "none", pc |-> "idle", user |-> None, want |-> Keyed(None, None, None),
         dirty |-> {}, claimed |-> {}, self |-> FALSE]

Init ==
    /\ users    = [a \in Requests |-> None]
    /\ selves   = {}
    /\ requests = [r \in Requests |-> Idle]

Put(r, rec)  == requests' = [requests EXCEPT ![r] = rec]
Start(r, rec) == requests[r].pc = "idle" /\ Put(r, rec)
Answer(r, pc) == Put(r, [requests[r] EXCEPT !.pc = pc, !.dirty = {}, !.claimed = {}, !.self = FALSE])

Inserting(r, row, op) ==
    [Idle EXCEPT !.op = op, !.pc = "keys", !.user = r, !.want = row, !.dirty = Given(row)]
Updating(r, a, row, op) ==
    [Idle EXCEPT !.op = op, !.pc = "lock", !.user = a, !.want = row, !.dirty = Differing(a, row)]
Ended(pc, op, row) == [Idle EXCEPT !.op = op, !.pc = pc, !.want = row]

-----------------------------------------------------------------------------
(* The requests up to the statement that writes.                           *)

\* signup: the check matches username or e-mail.  Two matches are one too
\* many for scalar_one_or_none, whose MultipleResultsFound nobody catches.
Signup(r, u, e) ==
    LET row     == Keyed(e, None, u)
        matches == {a \in Requests : HasKey(a, "username", u) \/ HasKey(a, "email", e)}
    IN  /\ Start(r, IF matches = {} THEN Inserting(r, row, "signup")
                    ELSE IF \A a, b \in matches : a = b THEN Ended("conflict", "signup", row)
                    ELSE Ended("failed", "signup", row))
        /\ UNCHANGED <<users, selves>>

\* google_auth: first by identity; a known one only has its login recorded.
Google(r, g, e) ==
    LET link == Keyed(None, g, None)
    IN  /\ \/ \E a \in Requests :
                 HasKey(a, "google", g) /\ Start(r, Updating(r, a, link, "google"))
           \/ /\ \A a \in Requests : ~HasKey(a, "google", g)
              /\ Start(r, Ended(IF e = None THEN "name" ELSE "email", "google", Keyed(e, g, None)))
        /\ UNCHANGED <<users, selves>>

\* Faulty variant: the account found by e-mail is signed in to, not linked.
FindEmailNoLink(r) ==
    LET row == requests[r].want
        found == {a \in Requests : HasKey(a, "email", row["email"])}
    IN  /\ requests[r].pc = "email"
        /\ \/ \E a \in found :
                 Put(r, [Updating(r, a, Keyed(None, row["google"], None), "google") EXCEPT !.dirty = {}])
           \/ found = {} /\ Put(r, [requests[r] EXCEPT !.pc = "name"])
        /\ UNCHANGED <<users, selves>>

\* ... then by e-mail, which links the identity to the account found.
FindEmail(r) ==
    LET row == requests[r].want
        found == {a \in Requests : HasKey(a, "email", row["email"])}
    IN  /\ requests[r].pc = "email"
        /\ \/ \E a \in found :
                 Put(r, Updating(r, a, Keyed(None, row["google"], None), "google"))
           \/ found = {} /\ Put(r, [requests[r] EXCEPT !.pc = "name"])
        /\ UNCHANGED <<users, selves>>

\* Faulty variant: no name is made up when every candidate is taken.
PickNameNoFallback(r) ==
    LET row == requests[r].want
    IN  /\ requests[r].pc = "name"
        /\ \E u \in Usernames \cup {None} :
              /\ \A a \in Requests : ~HasKey(a, "username", u)
              /\ Put(r, Inserting(r, Keyed(row["email"], row["google"], u), "google"))
        /\ UNCHANGED <<users, selves>>

\* ... then a new account: _unique_username returns a candidate that was free
\* when it asked, or at last a name made of a fresh UUID, here r itself.
PickName(r) ==
    LET row == requests[r].want
    IN  /\ requests[r].pc = "name"
        /\ \E u \in Usernames \cup {r} :
              /\ \A a \in Requests : ~HasKey(a, "username", u)
              /\ Put(r, Inserting(r, Keyed(row["email"], row["google"], u), "google"))
        /\ UNCHANGED <<users, selves>>

\* update_profile: get_current_user loads the row, each new key is checked.
UpdateProfile(r, a, u, e) ==
    LET row == Keyed(e, None, u)
    IN  /\ Exists(a)
        /\ Start(r, [Updating(r, a, row, "profile") EXCEPT
                        !.pc = IF u = None THEN "checkEmail" ELSE "checkName"])
        /\ UNCHANGED <<users, selves>>

Taken(r, c) ==
    \E b \in Requests \ {requests[r].user} : HasKey(b, c, requests[r].want[c])

CheckName(r) ==
    /\ requests[r].pc = "checkName"
    /\ IF Taken(r, "username") THEN Answer(r, "conflict")
       ELSE Put(r, [requests[r] EXCEPT !.pc = "checkEmail"])
    /\ UNCHANGED <<users, selves>>

\* Nothing to write: the commit sends no UPDATE.
CheckEmail(r) ==
    /\ requests[r].pc = "checkEmail"
    /\ IF Taken(r, "email") THEN Answer(r, "conflict")
       ELSE IF requests[r].dirty = {} THEN Answer(r, "done")
       ELSE Put(r, [requests[r] EXCEPT !.pc = "lock"])
    /\ UNCHANGED <<users, selves>>

\* _seed_admin: skipped when the e-mail is known.
SeedAdmin(r, u, e) ==
    LET row == Keyed(e, None, u)
    IN  /\ Start(r, IF \E a \in Requests : HasKey(a, "email", e)
                    THEN Ended("done", "seed", row)
                    ELSE Inserting(r, row, "seed"))
        /\ UNCHANGED <<users, selves>>

-----------------------------------------------------------------------------
(* Writing: row lock, keys, Self context, commit.                          *)

Writing(q)  == requests[q].pc \in {"keys", "flushed", "ready"}
Locks(q, a) == Writing(q) /\ requests[q].user = a
\* Faulty variant: new Google accounts get no Self context.
OpensLocal(r) == requests[r].user = r /\ requests[r].op = "signup"
Opens(r)    == requests[r].user = r /\ requests[r].op # "seed"

\* Faulty variant: with autoflush on, update_profile's new username is written
\* by a statement of its own, before its new e-mail.
NextKeyAutoflush(r) ==
    LET open == requests[r].dirty \ requests[r].claimed
    IN  IF requests[r].op = "profile" /\ "username" \in open THEN "username"
        ELSE IF "email" \in open THEN "email" ELSE IF "google" \in open THEN "google" ELSE "username"

\* The column whose index the statement of r goes to next.
NextKey(r) ==
    LET open == requests[r].dirty \ requests[r].claimed
    IN  IF "email" \in open THEN "email" ELSE IF "google" \in open THEN "google" ELSE "username"

\* q is changing a committed account that holds the next key of r, and may be
\* giving that key up.
Obstructs(q, r) ==
    \E b \in Requests \ {requests[r].user} :
        Locks(q, b) /\ HasKey(b, NextKey(r), requests[r].want[NextKey(r)])

\* Transactions r has to wait for before its next step.
WaitsFor(r) ==
    LET c == NextKey(r)
    IN  CASE requests[r].pc = "lock" -> {q \in Requests \ {r} : Locks(q, requests[r].user)}
          [] requests[r].pc = "keys" ->
                {q \in Requests \ {r} :
                    \/ c \in requests[q].claimed /\ requests[q].want[c] = requests[r].want[c]
                    \/ Obstructs(q, r)}
          [] OTHER -> {}

\* r with these keys in their indexes, and on its way to the next thing to do.
Claimed(r, keys) ==
    [requests[r] EXCEPT !.claimed = keys,
        !.pc = IF keys # requests[r].dirty THEN "keys" ELSE IF Opens(r) THEN "flushed" ELSE "ready"]

LockRow(r) ==
    /\ requests[r].pc = "lock"
    /\ WaitsFor(r) = {}
    /\ Put(r, Claimed(r, {}))
    /\ UNCHANGED <<users, selves>>

\* A taken key is an IntegrityError.  Only the commit stands in a try that
\* turns it into a conflict: a signup or a new Google account writes its keys
\* at the flush before, and the seed script has no try at all.
ClaimKey(r) ==
    /\ requests[r].pc = "keys"
    /\ WaitsFor(r) = {}
    /\ IF Taken(r, NextKey(r))
       THEN Answer(r, IF requests[r].user = r THEN "failed" ELSE "conflict")
       ELSE Put(r, Claimed(r, requests[r].claimed \cup {NextKey(r)}))
    /\ UNCHANGED <<users, selves>>

Written(r) ==
    IF requests[r].user = r THEN requests[r].want
    ELSE [c \in Columns |-> IF c \in requests[r].dirty THEN requests[r].want[c]
                            ELSE users[requests[r].user][c]]

Publish(r) ==
    /\ users'  = [users EXCEPT ![requests[r].user] = Written(r)]
    /\ selves' = IF requests[r].self THEN selves \cup {r} ELSE selves

\* Faulty variant: _create_self_context commits instead of flushing.
CreateSelfCommits(r) ==
    /\ requests[r].pc = "flushed"
    /\ Put(r, [requests[r] EXCEPT !.pc = "ready", !.self = TRUE])
    /\ users'  = [users EXCEPT ![r] = Written(r)]
    /\ selves' = selves \cup {r}

CreateSelf(r) ==
    /\ requests[r].pc = "flushed"
    /\ Put(r, [requests[r] EXCEPT !.pc = "ready", !.self = TRUE])
    /\ UNCHANGED <<users, selves>>

\* A death between the commit and the answer is the answer not arriving: the
\* tables are the same.
Commit(r) ==
    /\ requests[r].pc = "ready"
    /\ Publish(r)
    /\ Answer(r, "done")

\* Faulty variant: the Self context is committed in a session of its own.
AbortKeepsSelf(r) ==
    /\ requests[r].pc \notin {"idle", "done", "conflict", "failed"}
    /\ Answer(r, "failed")
    /\ selves' = IF requests[r].self THEN selves \cup {r} ELSE selves
    /\ UNCHANGED users

\* An exception, a disabled account, or the death of the process: the
\* transaction is rolled back.
Abort(r) ==
    /\ requests[r].pc \notin {"idle", "done", "conflict", "failed"}
    /\ Answer(r, "failed")
    /\ UNCHANGED <<users, selves>>

Next ==
    \E r \in Requests :
        \/ \E u \in Usernames, e \in Emails : Signup(r, u, e) \/ SeedAdmin(r, u, e)
        \/ \E g \in Identities, e \in Emails \cup {None} : Google(r, g, e)
        \/ \E a \in Requests, u \in Usernames \cup {None}, e \in Emails \cup {None} :
              UpdateProfile(r, a, u, e)
        \/ FindEmail(r) \/ PickName(r) \/ CheckName(r) \/ CheckEmail(r)
        \/ LockRow(r) \/ ClaimKey(r) \/ CreateSelf(r) \/ Commit(r)
        \/ Abort(r)

Spec == Init /\ [][Next]_vars

-----------------------------------------------------------------------------
(* Properties.                                                             *)

\* deps.py:119: no account opened by a signup or a Google sign-in is ever seen
\* without its Self context, nor a Self context without its account, wherever
\* the request that makes both is cut off.
SelfWithAccount ==
    selves = {a \in Requests : Exists(a) /\ requests[a].op # "seed"}

\* Sign-ins of one Google identity reach one account, even if they race for
\* its first sign-in, unless another identity was linked to the account since.
OneAccountPerIdentity ==
    LET Reached(r, a) == /\ requests[r].op = "google"
                         /\ requests[r].pc = "done"
                         /\ requests[r].user = a
        identity(r) == requests[r].want["google"]
    IN  \A r, q, a, b \in Requests :
            Reached(r, a) /\ Reached(q, b) /\ identity(r) = identity(q) /\ a # b =>
                \E s \in Requests : /\ Reached(s, a) \/ Reached(s, b)
                                   /\ identity(s) # identity(r)

\* What a request that was refused or failed wanted is nowhere: every key of
\* every account was asked for by a request on it that was answered.
RefusedLeavesNoTrace ==
    \A a \in Requests, c \in Columns :
        Exists(a) /\ users[a][c] # None =>
            \E r \in Requests : /\ requests[r].pc = "done"
                               /\ requests[r].user = a
                               /\ requests[r].want[c] = users[a][c]

\* The order in which keys are written leaves one kind of circle of waits, which
\* PostgreSQL's deadlock detector breaks: a committed account has got the next key
\* of some request since that request looked for it, and another request of the
\* circle is changing that very account.  Row locks and keys being written close
\* no circle by themselves.
NoCircularWait ==
    \A S \in (SUBSET Requests) \ {{}} : \E r \in S :
        \/ WaitsFor(r) \cap S = {}
        \/ /\ requests[r].pc = "keys"
           /\ \E q \in S : requests[q].user # q /\ Obstructs(q, r)

\* Requests that create accounts - signups, first Google sign-ins, the seed - never
\* wait for one another in a circle, whatever was committed since they looked.
CreationsGetThrough ==
    \A S \in (SUBSET {r \in Requests : requests[r].user = r}) \ {{}} :
        \E r \in S : WaitsFor(r) \cap S = {}

\* The registry of accounts is what the requests make of the two tables.
Registry == INSTANCE AccountRegistry WITH Ids <- Requests
ImplementsRegistry == Registry!Spec
=============================================================================
