---------------------------- MODULE AccountsProofs ----------------------------
(***************************************************************************)
(* Accounts for any number of requests, names, e-mails and identities: the *)
(* unique keys, the Self contexts, what refused requests leave, where a    *)
(* Google identity leads, and which requests alone can block each other.   *)
(*                                                                         *)
(* A writer's claimed keys are its own: no other writer has claimed them,  *)
(* and no committed row but its own holds them (ClaimInv).  This is what a *)
(* commit publishes.  A row has one writer (LockInv); an account that is   *)
(* being created is not there yet, so nobody else can speak of it.         *)
(***************************************************************************)
EXTENDS Accounts, TLAPS

Terminal == {"done", "conflict", "failed"}
WritingPcs == {"keys", "flushed", "ready"}

\* An account carries an identity, or one who signed in with another one since
\* has taken it off.
Linked(a, g) ==
    \/ HasKey(a, "google", g)
    \/ \E s \in Requests : /\ requests[s].op = "google" /\ requests[s].pc = "done"
                           /\ requests[s].user = a /\ requests[s].want["google"] # g

\* What holds of the record q of request r.
RecordInv(r, q) ==
    /\ q.op # "google" => q.want["google"] = None
    /\ q.pc \in {"email", "name"} => q.op = "google" /\ q.want["google"] # None
    /\ q.pc \in {"checkName", "checkEmail"} => q.op = "profile"
    /\ q.pc \in {"checkName", "checkEmail", "lock"} =>
          q.user \in Requests \ {r} /\ Exists(q.user)
    /\ q.pc \in {"checkName", "checkEmail", "lock"} \cup WritingPcs => q.dirty \subseteq Given(q.want)
    /\ q.pc \in WritingPcs =>
          /\ q.user \in Requests
          /\ q.user # r => Exists(q.user)
          /\ q.user = r => /\ ~Exists(r)
                           /\ q.dirty = Given(q.want)
                           /\ q.want["username"] # None
          /\ q.claimed \subseteq q.dirty
          /\ q.pc = "keys" <=> q.claimed # q.dirty
          /\ "google" \in q.claimed => q.dirty \cap {"email"} \subseteq q.claimed
          /\ "username" \in q.claimed => q.claimed = q.dirty
    /\ q.pc \notin WritingPcs => q.claimed = {}
    /\ q.pc = "flushed" => q.user = r /\ q.op # "seed"
    /\ q.self <=> q.pc = "ready" /\ q.user = r /\ q.op # "seed"
    /\ /\ q.op = "google"
       /\ \/ q.pc = "done"
          \/ q.pc \in {"lock"} \cup WritingPcs /\ "google" \notin q.dirty
       => q.user \in Requests /\ Linked(q.user, q.want["google"])

RequestInv == \A r \in Requests : RecordInv(r, requests[r])

\* An account is there once the request that creates it is done.
AccountInv == \A a \in Requests : Exists(a) => requests[a].pc = "done" /\ requests[a].user = a

LockInv ==
    \A p, q \in Requests : p # q /\ Writing(p) /\ Writing(q) => requests[p].user # requests[q].user

ClaimInv ==
    \A q \in Requests : \A c \in requests[q].claimed :
        /\ \A b \in Requests \ {requests[q].user} : ~HasKey(b, c, requests[q].want[c])
        /\ \A p \in Requests \ {q} :
              c \in requests[p].claimed => requests[p].want[c] # requests[q].want[c]

KeysUnique ==
    \A a, b \in Requests, c \in Columns :
        a # b /\ Exists(a) /\ Exists(b) /\ users[a][c] # None => users[a][c] # users[b][c]

IInv == /\ TypeOK /\ RequestInv /\ AccountInv /\ LockInv /\ ClaimInv /\ KeysUnique
        /\ SelfWithAccount /\ RefusedLeavesNoTrace

-----------------------------------------------------------------------------
\* A row of three columns.
LEMMA KeyedRow ==
    ASSUME NEW e \in Emails \cup {None}, NEW g \in Identities \cup {None},
           NEW u \in Usernames \cup Requests \cup {None}
    PROVE  /\ Keyed(e, g, u) \in Row
           /\ Keyed(e, g, u)["email"] = e /\ Keyed(e, g, u)["google"] = g
           /\ Keyed(e, g, u)["username"] = u
  BY DEF Keyed, Row, Columns, Keys

LEMMA IdleType == Idle \in Request
<1>1. Keyed(None, None, None) \in Row
  BY KeyedRow
<1> QED
  BY <1>1 DEF Idle, Request

\* A step that changes the record of one request, not yet ended, and no row.
LEMMA OneRequest ==
    ASSUME IInv, NEW r \in Requests, NEW q \in Request,
           requests' = [requests EXCEPT ![r] = q], users' = users, selves' = selves,
           requests[r].pc \notin Terminal,
           RecordInv(r, q),
           q.pc \in WritingPcs => \A p \in Requests \ {r} : Writing(p) => requests[p].user # q.user,
           \A c \in q.claimed :
              /\ \A b \in Requests \ {q.user} : ~HasKey(b, c, q.want[c])
              /\ \A p \in Requests \ {r} : c \in requests[p].claimed => requests[p].want[c] # q.want[c]
    PROVE  IInv'
<1>1. /\ requests'[r] = q
      /\ \A p \in Requests \ {r} : requests'[p] = requests[p]
      /\ requests' \in [Requests -> Request]
  BY DEF IInv, TypeOK
<1>2. /\ \A a : Exists(a)' <=> Exists(a)
      /\ \A a, c, k : HasKey(a, c, k)' <=> HasKey(a, c, k)
  BY DEF Exists, HasKey
<1>3. TypeOK'
  BY <1>1 DEF IInv, TypeOK
\* Requests that are done stay so, and the identities they reached with them.
<1>4. \A s \in Requests : requests[s].pc \in Terminal => requests'[s] = requests[s]
  BY <1>1
<1>5. \A a, g : Linked(a, g) => Linked(a, g)'
  BY <1>2, <1>4 DEF Linked, Terminal
<1>6. RequestInv'
  <2>1. \A p, rec : RecordInv(p, rec) => RecordInv(p, rec)'
    BY <1>2, <1>5 DEF RecordInv
  <2>2. ASSUME NEW p \in Requests PROVE RecordInv(p, requests'[p])
    BY <1>1 DEF IInv, RequestInv
  <2> QED
    BY <2>1, <2>2 DEF RequestInv
<1>7. AccountInv'
  BY <1>1, <1>2, <1>4 DEF IInv, AccountInv, Terminal
<1>8. LockInv'
  BY <1>1 DEF IInv, LockInv, Writing, WritingPcs
<1>9. ClaimInv'
  BY <1>1, <1>2 DEF IInv, ClaimInv
<1>10. KeysUnique'
  BY <1>2 DEF IInv, KeysUnique
<1>11. SelfWithAccount'
  BY <1>1, <1>2, <1>4 DEF IInv, SelfWithAccount, AccountInv, Terminal
<1>12. RefusedLeavesNoTrace'
  BY <1>2, <1>4 DEF IInv, RefusedLeavesNoTrace, Terminal
<1> QED
  BY <1>3, <1>6, <1>7, <1>8, <1>9, <1>10, <1>11, <1>12 DEF IInv

\* A request that has not ended has no account of its own, and nobody writes one.
LEMMA NotThere ==
    ASSUME IInv, NEW r \in Requests, requests[r].pc \notin Terminal
    PROVE  /\ ~Exists(r)
           /\ \A p \in Requests \ {r} : Writing(p) => requests[p].user # r
  BY DEF IInv, AccountInv, RequestInv, RecordInv, Writing, WritingPcs, Terminal

\* A request that holds nothing: it has ended, or is still looking.
LEMMA Passive ==
    ASSUME IInv, NEW r \in Requests, NEW q \in Request,
           requests' = [requests EXCEPT ![r] = q], users' = users, selves' = selves,
           requests[r].pc \notin Terminal,
           \/ q.pc \in {"conflict", "failed"}
           \/ q.pc = "done" /\ q.op # "google"
           \/ q.pc \in {"email", "name"} /\ q.op = "google" /\ q.want["google"] # None,
           q.claimed = {}, q.self = FALSE, q.op # "google" => q.want["google"] = None
    PROVE  IInv'
<1>1. RecordInv(r, q)
  BY DEF RecordInv, WritingPcs
<1>2. q.pc \notin WritingPcs
  BY DEF WritingPcs
<1> QED
  BY <1>1, <1>2, OneRequest

\* The refusal of a request, and the end of one that wrote nothing.
LEMMA AnswerKeeps ==
    ASSUME IInv, NEW r \in Requests, NEW pc \in Terminal, Answer(r, pc),
           pc = "done" => requests[r].op # "google",
           users' = users, selves' = selves, requests[r].pc \notin Terminal
    PROVE  IInv'
<1> DEFINE q == [requests[r] EXCEPT !.pc = pc, !.dirty = {}, !.claimed = {}, !.self = FALSE]
<1>1. requests[r] \in Request
  BY DEF IInv, TypeOK
<1>2. /\ q \in Request /\ q.pc = pc /\ q.op = requests[r].op
      /\ q.claimed = {} /\ q.self = FALSE /\ q.want = requests[r].want
  BY <1>1 DEF Request, Terminal
<1>3. requests' = [requests EXCEPT ![r] = q]
  BY DEF Answer, Put
<1>4. q.op # "google" => q.want["google"] = None
  BY <1>2 DEF IInv, RequestInv, RecordInv
<1> HIDE DEF q
<1> QED
  BY <1>2, <1>3, <1>4, Passive DEF Terminal

LEMMA EndedKeeps ==
    ASSUME IInv, NEW r \in Requests, NEW row \in Row, NEW op \in {"signup", "google", "seed"},
           NEW pc \in {"conflict", "failed", "done", "email", "name"},
           requests[r].pc = "idle",
           pc = "done" => op # "google",
           op # "google" => row["google"] = None,
           pc \in {"email", "name"} => op = "google" /\ row["google"] # None,
           Put(r, Ended(pc, op, row)), users' = users, selves' = selves
    PROVE  IInv'
<1> DEFINE q == Ended(pc, op, row)
<1>1. /\ q \in Request /\ q.pc = pc /\ q.op = op /\ q.want = row
      /\ q.claimed = {} /\ q.self = FALSE
  BY IdleType DEF Ended, Idle, Request
<1>2. requests' = [requests EXCEPT ![r] = q]
  BY DEF Put
<1> HIDE DEF q
<1> QED
  BY <1>1, <1>2, Passive DEF Terminal

\* A request that begins to insert its account.
LEMMA InsertKeeps ==
    ASSUME IInv, NEW r \in Requests, NEW row \in Row, NEW op \in {"signup", "google", "seed"},
           requests[r].pc \notin Terminal,
           row["username"] # None, op = "google" <=> row["google"] # None,
           Put(r, Inserting(r, row, op)), users' = users, selves' = selves
    PROVE  IInv'
<1> DEFINE q == Inserting(r, row, op)
<1>1. Given(row) \in SUBSET Columns /\ "username" \in Given(row)
      /\ (op = "google" => "google" \in Given(row))
  BY DEF Given, Columns
<1>2. /\ q \in Request /\ q.pc = "keys" /\ q.op = op /\ q.want = row /\ q.user = r
      /\ q.dirty = Given(row) /\ q.claimed = {} /\ q.self = FALSE
  BY <1>1, IdleType DEF Inserting, Idle, Request
<1>3. requests' = [requests EXCEPT ![r] = q]
  BY DEF Put
<1> HIDE DEF q
<1>4. RecordInv(r, q)
  BY <1>1, <1>2, NotThere DEF RecordInv, WritingPcs
<1> QED
  BY <1>2, <1>3, <1>4, NotThere, OneRequest

\* A request that has found the account it is to change.
LEMMA UpdateKeeps ==
    ASSUME IInv, NEW r \in Requests, NEW a \in Requests, Exists(a), NEW row \in Row,
           NEW op \in {"google", "profile"}, NEW pc \in {"lock", "checkName", "checkEmail"},
           requests[r].pc \notin Terminal,
           op = "google" => pc = "lock", op = "google" <=> row["google"] # None,
           Put(r, [Updating(r, a, row, op) EXCEPT !.pc = pc]), users' = users, selves' = selves
    PROVE  IInv'
<1> DEFINE q == [Updating(r, a, row, op) EXCEPT !.pc = pc]
<1>1. /\ Differing(a, row) \in SUBSET Columns /\ Differing(a, row) \subseteq Given(row)
      /\ row["google"] # None /\ "google" \notin Differing(a, row) => users[a]["google"] = row["google"]
  BY DEF Differing, Given, Columns
<1>2. /\ q \in Request /\ q.pc = pc /\ q.op = op /\ q.want = row /\ q.user = a
      /\ q.dirty = Differing(a, row) /\ q.claimed = {} /\ q.self = FALSE
  BY <1>1, IdleType DEF Updating, Idle, Request
<1>3. requests' = [requests EXCEPT ![r] = q]
  BY DEF Put
<1> HIDE DEF q
<1>4. a # r
  BY NotThere
<1>5. op = "google" /\ "google" \notin q.dirty => Linked(a, row["google"])
  BY <1>1, <1>2 DEF Linked, HasKey
<1>6. RecordInv(r, q)
  BY <1>1, <1>2, <1>4, <1>5 DEF RecordInv, WritingPcs
<1>7. q.pc \notin WritingPcs
  BY <1>2 DEF WritingPcs
<1> QED
  BY <1>2, <1>3, <1>6, <1>7, OneRequest

-----------------------------------------------------------------------------
\* A request whose row, after some keys, has gone on to the next thing to do.
LEMMA ClaimedType ==
    ASSUME IInv, NEW r \in Requests, NEW keys \in SUBSET Columns
    PROVE  LET q == Claimed(r, keys)
           IN  /\ q \in Request
               /\ q.op = requests[r].op /\ q.user = requests[r].user
               /\ q.want = requests[r].want /\ q.dirty = requests[r].dirty
               /\ q.claimed = keys /\ q.self = requests[r].self
               /\ q.pc = IF keys # requests[r].dirty THEN "keys"
                         ELSE IF Opens(r) THEN "flushed" ELSE "ready"
<1>1. requests[r] \in Request
  BY DEF IInv, TypeOK
<1> QED
  BY <1>1 DEF Claimed, Request

\* The row lock: nobody else has the row.
LEMMA LockKeeps ==
    ASSUME IInv, NEW r \in Requests, LockRow(r)
    PROVE  IInv'
<1> DEFINE q == Claimed(r, {})
<1>1. /\ requests[r].pc = "lock" /\ requests[r] \in Request /\ RecordInv(r, requests[r])
      /\ requests' = [requests EXCEPT ![r] = q] /\ users' = users /\ selves' = selves
  BY DEF LockRow, Put, IInv, TypeOK, RequestInv
<1>2. \A p \in Requests \ {r} : Writing(p) => requests[p].user # requests[r].user
  BY <1>1 DEF LockRow, WaitsFor, Locks
<1>3. /\ q \in Request
      /\ q.op = requests[r].op /\ q.user = requests[r].user
      /\ q.want = requests[r].want /\ q.dirty = requests[r].dirty
      /\ q.claimed = {} /\ q.self = requests[r].self
      /\ q.pc = IF {} # requests[r].dirty THEN "keys" ELSE IF Opens(r) THEN "flushed" ELSE "ready"
  BY ClaimedType, ZenonT(30)
<1>4. requests[r].user \in Requests \ {r} /\ ~Opens(r)
  BY <1>1 DEF RecordInv, Opens
<1> HIDE DEF q
<1>5. RecordInv(r, q)
  BY <1>1, <1>3, <1>4 DEF RecordInv, WritingPcs
<1> QED
  BY <1>1, <1>2, <1>3, <1>5, OneRequest DEF Terminal

\* A key goes into its index: nobody has written it, no row holds it.
LEMMA ClaimKeeps ==
    ASSUME IInv, NEW r \in Requests, ClaimKey(r)
    PROVE  IInv'
<1>1. /\ requests[r].pc = "keys" /\ requests[r] \in Request /\ RecordInv(r, requests[r])
      /\ users' = users /\ selves' = selves
  BY DEF ClaimKey, IInv, TypeOK, RequestInv
<1>2. CASE Taken(r, NextKey(r))
  <2>1. PICK pc \in {"failed", "conflict"} : Answer(r, pc)
    BY <1>2 DEF ClaimKey
  <2> QED
    BY <1>1, <2>1, AnswerKeeps DEF Terminal
<1>3. CASE ~Taken(r, NextKey(r))
  <2> DEFINE c == NextKey(r)
             keys == requests[r].claimed \cup {c}
             q == Claimed(r, keys)
  <2>1. requests' = [requests EXCEPT ![r] = q]
    BY <1>3 DEF ClaimKey, Put
  <2>2. /\ requests[r].claimed \subseteq requests[r].dirty
        /\ requests[r].claimed # requests[r].dirty
        /\ requests[r].dirty \subseteq Columns
    BY <1>1 DEF RecordInv, WritingPcs, Request
  <2>3. /\ c \in requests[r].dirty \ requests[r].claimed
        /\ c = "google" => requests[r].dirty \cap {"email"} \subseteq requests[r].claimed
        /\ c = "username" => requests[r].dirty = keys
    BY <2>2 DEF NextKey, Columns
  <2>4. keys \in SUBSET Columns
    BY <2>2, <2>3
  <2>5. /\ \A b \in Requests \ {requests[r].user} : ~HasKey(b, c, requests[r].want[c])
        /\ \A p \in Requests \ {r} :
              c \in requests[p].claimed => requests[p].want[c] # requests[r].want[c]
    BY <1>1, <1>3 DEF ClaimKey, WaitsFor, Obstructs, Taken
  <2> HIDE DEF c
  <2>6. /\ q \in Request
        /\ q.op = requests[r].op /\ q.user = requests[r].user
        /\ q.want = requests[r].want /\ q.dirty = requests[r].dirty
        /\ q.claimed = keys /\ q.self = requests[r].self
        /\ q.pc = IF keys # requests[r].dirty THEN "keys"
                  ELSE IF Opens(r) THEN "flushed" ELSE "ready"
    BY <2>4, ClaimedType
  <2> HIDE DEF q
  <2>7. requests[r].self = FALSE
    BY <1>1 DEF RecordInv, Request
  <2>8. RecordInv(r, q)
    <3>1. q.pc \in WritingPcs /\ requests[r].pc \in WritingPcs
      BY <1>1, <2>6 DEF WritingPcs
    <3>2. /\ q.claimed \subseteq q.dirty
          /\ q.pc = "keys" <=> q.claimed # q.dirty
      BY <2>2, <2>3, <2>6
    <3>3. /\ "google" \in q.claimed => q.dirty \cap {"email"} \subseteq q.claimed
          /\ "username" \in q.claimed => q.claimed = q.dirty
      BY <1>1, <2>2, <2>3, <2>6, <3>1 DEF RecordInv
    <3>4. q.pc = "flushed" => q.user = r /\ q.op # "seed"
      BY <2>6 DEF Opens
    <3>5. q.self <=> q.pc = "ready" /\ q.user = r /\ q.op # "seed"
      BY <2>6, <2>7 DEF Opens
    <3> QED
      BY <1>1, <2>6, <3>1, <3>2, <3>3, <3>4, <3>5 DEF RecordInv
  <2>9. \A p \in Requests \ {r} : Writing(p) => requests[p].user # q.user
    BY <1>1, <2>6 DEF IInv, LockInv, Writing
  <2>10. \A d \in q.claimed :
            /\ \A b \in Requests \ {q.user} : ~HasKey(b, d, q.want[d])
            /\ \A p \in Requests \ {r} : d \in requests[p].claimed => requests[p].want[d] # q.want[d]
    BY <2>5, <2>6 DEF IInv, ClaimInv
  <2> QED
    BY <1>1, <2>1, <2>6, <2>8, <2>9, <2>10, OneRequest DEF Terminal
<1> QED
  BY <1>2, <1>3

\* A new account's Self context.
LEMMA SelfKeeps ==
    ASSUME IInv, NEW r \in Requests, CreateSelf(r)
    PROVE  IInv'
<1> DEFINE q == [requests[r] EXCEPT !.pc = "ready", !.self = TRUE]
<1>1. /\ requests[r].pc = "flushed" /\ requests[r] \in Request /\ RecordInv(r, requests[r])
      /\ requests' = [requests EXCEPT ![r] = q] /\ users' = users /\ selves' = selves
  BY DEF CreateSelf, Put, IInv, TypeOK, RequestInv
<1>2. /\ q \in Request /\ q.pc = "ready" /\ q.self = TRUE
      /\ q.op = requests[r].op /\ q.user = requests[r].user
      /\ q.want = requests[r].want /\ q.dirty = requests[r].dirty
      /\ q.claimed = requests[r].claimed
  BY <1>1 DEF Request
<1> HIDE DEF q
<1>3. RecordInv(r, q)
  BY <1>1, <1>2 DEF RecordInv, WritingPcs
<1>4. \A p \in Requests \ {r} : Writing(p) => requests[p].user # q.user
  BY <1>1, <1>2 DEF IInv, LockInv, Writing
<1>5. \A d \in q.claimed :
         /\ \A b \in Requests \ {q.user} : ~HasKey(b, d, q.want[d])
         /\ \A p \in Requests \ {r} : d \in requests[p].claimed => requests[p].want[d] # q.want[d]
  BY <1>2 DEF IInv, ClaimInv
<1> QED
  BY <1>1, <1>2, <1>3, <1>4, <1>5, OneRequest DEF Terminal

-----------------------------------------------------------------------------
\* What a commit publishes: claimed keys, and keys the row already had.
LEMMA WrittenRow ==
    ASSUME IInv, NEW r \in Requests, requests[r].pc = "ready"
    PROVE  /\ requests[r].user \in Requests
           /\ Written(r) \in {row \in Row : row["username"] # None}
           /\ \A c \in requests[r].claimed :
                 c \in Columns /\ Written(r)[c] = requests[r].want[c] /\ Written(r)[c] # None
           /\ \A c \in Columns \ requests[r].claimed : Written(r)[c] # None =>
                 /\ requests[r].user # r /\ Exists(requests[r].user)
                 /\ Written(r)[c] = users[requests[r].user][c]
<1> DEFINE q == requests[r]
           a == q.user
<1>1. /\ q \in Request /\ q.want \in Row /\ RecordInv(r, q)
  BY DEF IInv, TypeOK, RequestInv, Request
<1>2. /\ q.dirty \subseteq Given(q.want) /\ a \in Requests /\ q.claimed = q.dirty
      /\ a = r => q.dirty = Given(q.want) /\ q.want["username"] # None
      /\ a # r => Exists(a)
  BY <1>1 DEF RecordInv, WritingPcs
<1>3. \A c \in q.dirty : c \in Columns /\ q.want[c] # None
  BY <1>2 DEF Given
<1>4. CASE a = r
  <2>1. Written(r) = q.want
    BY <1>4 DEF Written
  <2>2. \A c \in Columns \ q.claimed : Written(r)[c] = None
    BY <1>2, <1>4, <2>1 DEF Given
  <2> QED
    BY <1>1, <1>2, <1>3, <1>4, <2>1, <2>2
<1>5. CASE a # r
  <2>1. users[a] \in Row /\ users[a]["username"] # None
    BY <1>2, <1>5 DEF IInv, TypeOK, Exists
  <2>2. Written(r) = [c \in Columns |-> IF c \in q.dirty THEN q.want[c] ELSE users[a][c]]
    BY <1>5 DEF Written
  <2>3. Written(r) \in Row
    BY <1>1, <2>1, <2>2 DEF Row
  <2>4. Written(r)["username"] # None
    BY <1>3, <2>1, <2>2 DEF Columns
  <2> QED
    BY <1>2, <1>3, <1>5, <2>2, <2>3, <2>4
<1> QED
  BY <1>4, <1>5

LEMMA CommitKeeps ==
    ASSUME IInv, NEW r \in Requests, Commit(r)
    PROVE  IInv'
<1>a. PICK a \in Requests : a = requests[r].user
  BY WrittenRow DEF Commit
<1>b. PICK row \in Row : row = Written(r)
  BY WrittenRow DEF Commit
<1>c. PICK q : q = [requests[r] EXCEPT !.pc = "done", !.dirty = {}, !.claimed = {}, !.self = FALSE]
  OBVIOUS
<1>1. /\ requests[r].pc = "ready" /\ requests[r] \in Request /\ RecordInv(r, requests[r])
      /\ selves' = IF requests[r].self THEN selves \cup {r} ELSE selves
      /\ requests[r].self <=> a = r /\ requests[r].op # "seed"
      /\ a = r => ~Exists(r)
      /\ a # r => Exists(a)
  <2>1. /\ requests[r].pc = "ready" /\ requests[r] \in Request /\ RecordInv(r, requests[r])
    BY DEF Commit, IInv, TypeOK, RequestInv
  <2> QED
    BY <1>a, <2>1 DEF Commit, Publish, RecordInv, WritingPcs
<1>2. /\ q \in Request /\ q.pc = "done" /\ q.op = requests[r].op /\ q.user = a
      /\ q.want = requests[r].want /\ q.dirty = {} /\ q.claimed = {} /\ q.self = FALSE
  BY <1>a, <1>c, <1>1 DEF Request
<1>3. /\ requests' = [requests EXCEPT ![r] = q]
      /\ users' = [users EXCEPT ![a] = row]
  BY <1>a, <1>b, <1>c DEF Commit, Publish, Answer, Put
<1>4. /\ row \in {x \in Row : x["username"] # None}
      /\ \A c \in requests[r].claimed : c \in Columns /\ row[c] = requests[r].want[c] /\ row[c] # None
      /\ \A c \in Columns \ requests[r].claimed :
            row[c] # None => a # r /\ Exists(a) /\ row[c] = users[a][c]
  BY <1>a, <1>b, <1>1, WrittenRow
<1>5. row # None
  BY <1>4, AccountAssumption
<1>6. /\ requests'[r] = q /\ \A p \in Requests \ {r} : requests'[p] = requests[p]
      /\ users'[a] = row /\ \A b \in Requests \ {a} : users'[b] = users[b]
  BY <1>1, <1>3 DEF IInv, TypeOK
<1>7. /\ \A b \in Requests : Exists(b)' <=> b = a \/ Exists(b)
      /\ \A b \in Requests \ {a} : \A c, k : HasKey(b, c, k)' <=> HasKey(b, c, k)
      /\ \A c, k : HasKey(a, c, k)' <=> k # None /\ row[c] = k
  BY <1>1, <1>5, <1>6 DEF Exists, HasKey
<1>8. \A p \in Requests \ {r} : Writing(p) => requests[p].user # a
  BY <1>a, <1>1 DEF IInv, LockInv, Writing
<1>9. TypeOK'
  BY <1>1, <1>2, <1>3, <1>4 DEF IInv, TypeOK
\* No other request loses the identity it reached but to this one.
<1>10. \A b \in Requests : \A g : Linked(b, g) => Linked(b, g)'
  <2> SUFFICES ASSUME NEW b \in Requests, NEW g, Linked(b, g) PROVE Linked(b, g)'
    OBVIOUS
  <2>1. CASE \E s \in Requests : /\ requests[s].op = "google" /\ requests[s].pc = "done"
                                 /\ requests[s].user = b /\ requests[s].want["google"] # g
    BY <1>1, <1>6, <2>1 DEF Linked
  <2>2. CASE HasKey(b, "google", g) /\ ~HasKey(b, "google", g)'
    <3>1. b = a /\ row["google"] # g /\ users[a]["google"] = g /\ Exists(a) /\ g # None
      BY <1>7, <2>2 DEF HasKey
    <3>2. "google" \in Columns
      BY DEF Columns
    <3>3. a # r
      BY <1>1, <3>1
    <3>4. "google" \in requests[r].claimed
      <4>1. "google" \notin requests[r].dirty => row["google"] = users[a]["google"]
        BY <1>a, <1>b, <3>2, <3>3 DEF Written
      <4>2. requests[r].claimed = requests[r].dirty
        BY <1>1 DEF RecordInv, WritingPcs
      <4> QED
        BY <3>1, <4>1, <4>2
    <3>5. requests[r].want["google"] # g /\ requests[r].want["google"] # None
      BY <1>4, <3>1, <3>4
    <3>6. requests[r].op = "google"
      BY <1>1, <3>5 DEF RecordInv
    <3> QED
      BY <1>2, <1>6, <3>1, <3>5, <3>6 DEF Linked
  <2> QED
    BY <2>1, <2>2 DEF Linked
<1>11. RequestInv'
  <2>1. ASSUME NEW p \in Requests \ {r}, NEW rec \in Request, rec = requests[p] PROVE RecordInv(p, rec)'
    <3>1. RecordInv(p, rec)
      BY <2>1 DEF IInv, RequestInv
    <3>2. rec.pc \in WritingPcs => rec.user # a
      BY <1>8, <2>1 DEF Writing, WritingPcs
    <3>3. rec.user = p /\ rec.pc \in WritingPcs => ~Exists(p)'
      BY <1>7, <3>1, <3>2 DEF RecordInv
    <3>4. rec.user \in Requests /\ Linked(rec.user, rec.want["google"])
             => Linked(rec.user, rec.want["google"])'
      BY <1>10
    <3>5. \A b \in Requests : Exists(b) => Exists(b)'
      BY <1>7
    <3> QED
      BY <3>1, <3>3, <3>4, <3>5 DEF RecordInv, WritingPcs
  <2>2. RecordInv(r, q)'
    <3>1. q.op = "google" => Linked(a, q.want["google"])'
      <4> SUFFICES ASSUME q.op = "google" PROVE Linked(a, q.want["google"])'
        OBVIOUS
      <4>1. requests[r].claimed = requests[r].dirty
        BY <1>1 DEF RecordInv, WritingPcs
      <4>2. CASE "google" \in requests[r].dirty
        <5>1. row["google"] = q.want["google"] /\ q.want["google"] # None
          BY <1>2, <1>4, <4>1, <4>2
        <5>2. HasKey(a, "google", q.want["google"])'
          BY <1>2, <1>7, <5>1, <1>5, <1>6 DEF HasKey, Exists
        <5> QED
          BY <5>2 DEF Linked
      <4>3. CASE "google" \notin requests[r].dirty
        <5>1. Linked(a, q.want["google"])
          BY <1>a, <1>1, <1>2, <4>3 DEF RecordInv, WritingPcs
        <5> QED
          BY <1>1, <1>10, <5>1
      <4> QED
        BY <4>2, <4>3
    <3>2. q.op # "google" => q.want["google"] = None
      BY <1>1, <1>2 DEF RecordInv
    <3> QED
      BY <1>2, <3>1, <3>2 DEF RecordInv, WritingPcs
  <2> QED
    BY <1>6, <2>1, <2>2 DEF RequestInv, IInv, TypeOK
<1>12. AccountInv'
  BY <1>1, <1>2, <1>6, <1>7 DEF IInv, AccountInv
<1>13. LockInv'
  BY <1>2, <1>6 DEF IInv, LockInv, Writing
<1>14. ClaimInv'
  <2>1. ASSUME NEW p \in Requests \ {r}, NEW c \in requests[p].claimed,
               NEW b \in Requests \ {requests[p].user}, NEW k, k = requests[p].want[c]
        PROVE  ~HasKey(b, c, k)'
    <3>1. c \in requests[r].claimed => requests[r].want[c] # k
      BY <2>1 DEF IInv, ClaimInv
    <3>2. ~HasKey(b, c, k)
      BY <2>1 DEF IInv, ClaimInv
    <3>3. c \in Columns
      BY DEF IInv, TypeOK, Request
    <3>4. CASE b = a
      BY <1>4, <1>7, <3>1, <3>2, <3>3, <3>4 DEF HasKey
    <3> QED
      BY <1>7, <3>2, <3>4
  <2>2. ASSUME NEW p \in Requests \ {r}, NEW c \in requests[p].claimed, NEW s \in Requests \ {p},
               c \in requests'[s].claimed
        PROVE  requests'[s].want[c] # requests[p].want[c]
    BY <1>2, <1>6, <2>2 DEF IInv, ClaimInv
  <2> QED
    BY <1>2, <1>6, <2>1, <2>2 DEF ClaimInv
<1>15. KeysUnique'
  <2>1. \A b \in Requests \ {a}, c \in Columns :
           Exists(b) /\ (row[c] # None \/ users[b][c] # None) => row[c] # users[b][c]
    <3> SUFFICES ASSUME NEW b \in Requests \ {a}, NEW c \in Columns, Exists(b),
                        row[c] # None, row[c] = users[b][c]
                 PROVE  FALSE
      OBVIOUS
    <3>1. CASE c \in requests[r].claimed
      <4>1. HasKey(b, c, requests[r].want[c])
        BY <1>4, <3>1 DEF HasKey
      <4> QED
        BY <1>a, <3>1, <4>1 DEF IInv, ClaimInv
    <3>2. CASE c \notin requests[r].claimed
      BY <1>1, <1>4, <3>2 DEF IInv, KeysUnique
    <3> QED
      BY <3>1, <3>2
  <2> QED
    BY <1>6, <1>7, <2>1 DEF IInv, KeysUnique
<1>16. SelfWithAccount'
  <2>1. \A p \in Requests : requests'[p].op = requests[p].op
    BY <1>2, <1>6
  <2>2. selves = {b \in Requests : Exists(b) /\ requests[b].op # "seed"}
    BY DEF IInv, SelfWithAccount
  <2>3. selves' = {b \in Requests : Exists(b)' /\ requests'[b].op # "seed"}
    BY <1>1, <1>7, <2>1, <2>2
  <2> QED
    BY <2>3 DEF SelfWithAccount
<1>17. RefusedLeavesNoTrace'
  <2> SUFFICES ASSUME NEW b \in Requests, NEW c \in Columns, Exists(b)', users'[b][c] # None
               PROVE  \E s \in Requests : /\ requests'[s].pc = "done" /\ requests'[s].user = b
                                         /\ requests'[s].want[c] = users'[b][c]
    BY DEF RefusedLeavesNoTrace
  <2>1. CASE b = a /\ c \in requests[r].claimed
    BY <1>2, <1>4, <1>6, <2>1
  <2>2. CASE ~(b = a /\ c \in requests[r].claimed)
    <3>1. Exists(b) /\ users[b][c] # None /\ users'[b][c] = users[b][c]
      BY <1>4, <1>6, <1>7, <2>2
    <3>2. PICK s \in Requests : /\ requests[s].pc = "done" /\ requests[s].user = b
                                /\ requests[s].want[c] = users[b][c]
      BY <3>1 DEF IInv, RefusedLeavesNoTrace
    <3> QED
      BY <1>1, <1>6, <3>1, <3>2
  <2> QED
    BY <2>1, <2>2
<1> QED
  BY <1>9, <1>11, <1>12, <1>13, <1>14, <1>15, <1>16, <1>17 DEF IInv

-----------------------------------------------------------------------------
\* A profile change that passes one of its checks.
LEMMA CheckKeeps ==
    ASSUME IInv, NEW r \in Requests, requests[r].pc \in {"checkName", "checkEmail"},
           NEW pc \in {"checkEmail", "lock"},
           Put(r, [requests[r] EXCEPT !.pc = pc]), users' = users, selves' = selves
    PROVE  IInv'
<1>1. requests[r] \in Request /\ RecordInv(r, requests[r])
  BY DEF IInv, TypeOK, RequestInv
<1>2. PICK q : q = [requests[r] EXCEPT !.pc = pc]
  OBVIOUS
<1>3. /\ q \in Request /\ q.pc = pc
      /\ q.op = requests[r].op /\ q.user = requests[r].user /\ q.want = requests[r].want
      /\ q.dirty = requests[r].dirty /\ q.claimed = {} /\ q.self = FALSE
  BY <1>1, <1>2 DEF RecordInv, Request, WritingPcs
<1>4. RecordInv(r, q)
  BY <1>1, <1>3 DEF RecordInv, WritingPcs
<1>5. q.pc \notin WritingPcs
  BY <1>3 DEF WritingPcs
<1> QED
  BY <1>2, <1>3, <1>4, <1>5, OneRequest DEF Put, Terminal

LEMMA SignupKeeps ==
    ASSUME IInv, NEW r \in Requests, NEW u \in Usernames, NEW e \in Emails,
           Signup(r, u, e) \/ SeedAdmin(r, u, e)
    PROVE  IInv'
<1>1. PICK row : row = Keyed(e, None, u)
  OBVIOUS
<1>2. row \in Row /\ row["google"] = None /\ row["username"] = u /\ u # None
  BY <1>1, KeyedRow, AccountAssumption DEF Keys
<1>3. requests[r].pc = "idle" /\ users' = users /\ selves' = selves
  BY DEF Signup, SeedAdmin, Start
<1>4. CASE \E op \in {"signup", "seed"} : Put(r, Inserting(r, row, op))
  BY <1>2, <1>3, <1>4, InsertKeeps DEF Terminal
<1>5. CASE \E op \in {"signup", "seed"}, pc \in {"conflict", "failed", "done"} : Put(r, Ended(pc, op, row))
  BY <1>2, <1>3, <1>5, EndedKeeps
<1>6. \/ \E op \in {"signup", "seed"} : Put(r, Inserting(r, row, op))
      \/ \E op \in {"signup", "seed"}, pc \in {"conflict", "failed", "done"} : Put(r, Ended(pc, op, row))
  <2>1. CASE Signup(r, u, e)
    BY <1>1, <2>1 DEF Signup, Start
  <2>2. CASE SeedAdmin(r, u, e)
    BY <1>1, <2>2 DEF SeedAdmin, Start
  <2> QED
    BY <2>1, <2>2
<1> QED
  BY <1>4, <1>5, <1>6

LEMMA GoogleKeeps ==
    ASSUME IInv, NEW r \in Requests, NEW g \in Identities, NEW e \in Emails \cup {None},
           Google(r, g, e)
    PROVE  IInv'
<1>1. g # None
  BY AccountAssumption DEF Keys
<1>2. requests[r].pc = "idle" /\ users' = users /\ selves' = selves
  BY DEF Google, Start
<1>3. PICK link, row : link = Keyed(None, g, None) /\ row = Keyed(e, g, None)
  OBVIOUS
<1>4. link \in Row /\ row \in Row /\ link["google"] = g /\ row["google"] = g
  BY <1>3, KeyedRow
<1>5. CASE \E a \in Requests : Exists(a) /\ Put(r, Updating(r, a, link, "google"))
  <2>1. PICK a \in Requests : Exists(a) /\ Put(r, Updating(r, a, link, "google"))
    BY <1>5
  <2>2. Updating(r, a, link, "google") = [Updating(r, a, link, "google") EXCEPT !.pc = "lock"]
    BY DEF Updating, Idle
  <2> QED
    BY <1>1, <1>2, <1>4, <2>1, <2>2, UpdateKeeps DEF Terminal
<1>6. CASE \E pc \in {"email", "name"} : Put(r, Ended(pc, "google", row))
  BY <1>1, <1>2, <1>4, <1>6, EndedKeeps
<1>7. \/ \E a \in Requests : Exists(a) /\ Put(r, Updating(r, a, link, "google"))
      \/ \E pc \in {"email", "name"} : Put(r, Ended(pc, "google", row))
  BY <1>3 DEF Google, Start, HasKey
<1> QED
  BY <1>5, <1>6, <1>7

LEMMA FindEmailKeeps ==
    ASSUME IInv, NEW r \in Requests, FindEmail(r)
    PROVE  IInv'
<1>1. /\ requests[r].pc = "email" /\ requests[r] \in Request /\ RecordInv(r, requests[r])
      /\ users' = users /\ selves' = selves
  BY DEF FindEmail, IInv, TypeOK, RequestInv
<1>2. PICK g : g = requests[r].want["google"]
  OBVIOUS
<1>3. PICK link : link = Keyed(None, g, None)
  OBVIOUS
<1>4. link \in Row /\ link["google"] = g /\ g # None
  <2>1. g # None
    BY <1>1, <1>2 DEF RecordInv
  <2>2. link = [c \in Columns |-> IF c = "google" THEN g ELSE None]
    BY <1>3 DEF Keyed, Columns
  <2>3. g \in Keys \cup {None}
    BY <1>1, <1>2 DEF Request, Row, Columns
  <2> QED
    BY <2>1, <2>2, <2>3 DEF Row, Columns
<1>5. CASE \E a \in Requests : Exists(a) /\ Put(r, Updating(r, a, link, "google"))
  <2>1. PICK a \in Requests : Exists(a) /\ Put(r, Updating(r, a, link, "google"))
    BY <1>5
  <2>2. Updating(r, a, link, "google") = [Updating(r, a, link, "google") EXCEPT !.pc = "lock"]
    BY DEF Updating, Idle
  <2> QED
    BY <1>1, <1>4, <2>1, <2>2, UpdateKeeps, ZenonT(30) DEF Terminal
<1>6. CASE Put(r, [requests[r] EXCEPT !.pc = "name"])
  <2>1. PICK q : q = [requests[r] EXCEPT !.pc = "name"]
    OBVIOUS
  <2>2. /\ q \in Request /\ q.pc = "name" /\ q.op = "google" /\ q.want["google"] # None
        /\ q.claimed = {} /\ q.self = FALSE
    BY <1>1, <2>1 DEF RecordInv, Request, WritingPcs
  <2> QED
    BY <1>1, <1>6, <2>1, <2>2, Passive DEF Put, Terminal
<1>7. \/ \E a \in Requests : Exists(a) /\ Put(r, Updating(r, a, link, "google"))
      \/ Put(r, [requests[r] EXCEPT !.pc = "name"])
  BY <1>2, <1>3 DEF FindEmail, HasKey
<1> QED
  BY <1>5, <1>6, <1>7

LEMMA PickNameKeeps ==
    ASSUME IInv, NEW r \in Requests, PickName(r)
    PROVE  IInv'
<1>1. /\ requests[r].pc = "name" /\ requests[r] \in Request /\ RecordInv(r, requests[r])
      /\ users' = users /\ selves' = selves
  BY DEF PickName, IInv, TypeOK, RequestInv
<1>2. PICK u \in Usernames \cup {r} :
         Put(r, Inserting(r, Keyed(requests[r].want["email"], requests[r].want["google"], u), "google"))
  BY DEF PickName
<1>3. PICK row : row = Keyed(requests[r].want["email"], requests[r].want["google"], u)
  OBVIOUS
<1>4. row \in Row /\ row["google"] # None /\ row["username"] # None
  <2>1. requests[r].want \in [Columns -> Keys \cup {None}]
    BY <1>1 DEF Request, Row
  <2>2. /\ requests[r].want["email"] \in Keys \cup {None}
        /\ requests[r].want["google"] \in Keys \cup {None} /\ requests[r].want["google"] # None
    BY <1>1, <2>1 DEF RecordInv, Columns
  <2>3. u \in Keys /\ u # None
    BY AccountAssumption DEF Keys
  <2>4. \A c \in Columns : row[c] \in Keys \cup {None}
    BY <1>3, <2>2, <2>3 DEF Keyed
  <2>5. row \in Row
    BY <1>3, <2>4 DEF Row, Keyed
  <2> QED
    BY <1>3, <2>2, <2>3, <2>5 DEF Keyed, Columns
<1> QED
  BY <1>1, <1>2, <1>3, <1>4, InsertKeeps DEF Terminal

LEMMA ProfileKeeps ==
    ASSUME IInv, NEW r \in Requests, NEW a \in Requests,
           NEW u \in Usernames \cup {None}, NEW e \in Emails \cup {None}, UpdateProfile(r, a, u, e)
    PROVE  IInv'
<1>1. PICK row : row = Keyed(e, None, u)
  OBVIOUS
<1>2. row \in Row /\ row["google"] = None
  BY <1>1, KeyedRow
<1>3. PICK pc \in {"checkName", "checkEmail"} :
         Put(r, [Updating(r, a, row, "profile") EXCEPT !.pc = pc])
  BY <1>1 DEF UpdateProfile, Start
<1>4. Exists(a) /\ requests[r].pc = "idle" /\ users' = users /\ selves' = selves
  BY DEF UpdateProfile, Start
<1> QED
  BY <1>2, <1>3, <1>4, UpdateKeeps DEF Terminal

LEMMA ChecksKeep ==
    ASSUME IInv, NEW r \in Requests, CheckName(r) \/ CheckEmail(r)
    PROVE  IInv'
<1>1. /\ requests[r].pc \in {"checkName", "checkEmail"} /\ RecordInv(r, requests[r])
      /\ users' = users /\ selves' = selves
  BY DEF CheckName, CheckEmail, IInv, RequestInv
<1>2. requests[r].op # "google"
  BY <1>1 DEF RecordInv
<1>3. CASE \E pc \in {"conflict", "done"} : Answer(r, pc)
  BY <1>1, <1>2, <1>3, AnswerKeeps DEF Terminal
<1>4. CASE \E pc \in {"checkEmail", "lock"} : Put(r, [requests[r] EXCEPT !.pc = pc])
  BY <1>1, <1>4, CheckKeeps
<1>5. \/ \E pc \in {"conflict", "done"} : Answer(r, pc)
      \/ \E pc \in {"checkEmail", "lock"} : Put(r, [requests[r] EXCEPT !.pc = pc])
  BY DEF CheckName, CheckEmail
<1> QED
  BY <1>3, <1>4, <1>5

LEMMA AbortKeeps ==
    ASSUME IInv, NEW r \in Requests, Abort(r)
    PROVE  IInv'
  BY AnswerKeeps DEF Abort, Terminal

LEMMA StutterKeeps == IInv /\ UNCHANGED vars => IInv'
<1> SUFFICES ASSUME IInv, UNCHANGED vars PROVE IInv'
  OBVIOUS
<1>1. users' = users /\ selves' = selves /\ requests' = requests
  BY DEF vars
<1>2. /\ \A a : Exists(a)' <=> Exists(a)
      /\ \A a, c, k : HasKey(a, c, k)' <=> HasKey(a, c, k)
      /\ \A a, g : Linked(a, g)' <=> Linked(a, g)
  BY <1>1 DEF Exists, HasKey, Linked
<1>3. \A p, rec : RecordInv(p, rec) => RecordInv(p, rec)'
  BY <1>2 DEF RecordInv
<1>4. TypeOK' /\ RequestInv' /\ AccountInv' /\ LockInv'
  BY <1>1, <1>2, <1>3 DEF IInv, TypeOK, RequestInv, AccountInv, LockInv, Writing
<1>5. ClaimInv' /\ KeysUnique' /\ SelfWithAccount' /\ RefusedLeavesNoTrace'
  BY <1>1, <1>2 DEF IInv, ClaimInv, KeysUnique, SelfWithAccount, RefusedLeavesNoTrace
<1> QED
  BY <1>4, <1>5 DEF IInv

LEMMA InitIInv == Init => IInv
<1> SUFFICES ASSUME Init PROVE IInv
  OBVIOUS
<1>1. /\ \A a \in Requests : ~Exists(a)
      /\ \A r \in Requests : requests[r] = Idle
      /\ selves = {}
  BY DEF Init, Exists
<1>2. /\ Idle.pc = "idle" /\ Idle.op = "none" /\ Idle.claimed = {} /\ Idle.self = FALSE
      /\ Idle.want["google"] = None
  BY KeyedRow DEF Idle
<1>3. TypeOK
  BY <1>1, IdleType DEF Init, TypeOK
<1>4. RequestInv
  BY <1>1, <1>2 DEF RequestInv, RecordInv, WritingPcs
<1>5. AccountInv /\ KeysUnique /\ RefusedLeavesNoTrace
  BY <1>1 DEF AccountInv, KeysUnique, RefusedLeavesNoTrace
<1>6. LockInv /\ ClaimInv
  BY <1>1, <1>2 DEF LockInv, ClaimInv, Writing
<1>7. SelfWithAccount
  BY <1>1 DEF SelfWithAccount
<1> QED
  BY <1>3, <1>4, <1>5, <1>6, <1>7 DEF IInv

LEMMA StepIInv == IInv /\ [Next]_vars => IInv'
  BY SignupKeeps, GoogleKeeps, FindEmailKeeps, PickNameKeeps, ProfileKeeps, ChecksKeep,
     LockKeeps, ClaimKeeps, SelfKeeps, CommitKeeps, AbortKeeps, StutterKeeps DEF Next

LEMMA Invariance == Spec => []IInv
  BY InitIInv, StepIInv, PTL DEF Spec

-----------------------------------------------------------------------------
\* Every reachable state is well typed.
THEOREM TypeCorrect == Spec => []TypeOK
<1>1. IInv => TypeOK
  BY DEF IInv
<1> QED
  BY <1>1, Invariance, PTL

\* An account of the API and its Self context appear together (deps.py:119).
THEOREM SelfContextWithAccount == Spec => []SelfWithAccount
<1>1. IInv => SelfWithAccount
  BY DEF IInv
<1> QED
  BY <1>1, Invariance, PTL

\* No row holds a key that only refused, failed or aborted requests asked for.
THEOREM RefusedRequestsLeaveNoTrace == Spec => []RefusedLeavesNoTrace
<1>1. IInv => RefusedLeavesNoTrace
  BY DEF IInv
<1> QED
  BY <1>1, Invariance, PTL

\* Two sign-ins of one identity reach two accounts only if one of them has had
\* another identity linked since (auth.py:209).
THEOREM IdentityReachesOneAccount == Spec => []OneAccountPerIdentity
<1>1. IInv => OneAccountPerIdentity
  <2> SUFFICES ASSUME IInv, NEW r \in Requests, NEW q \in Requests, NEW a \in Requests, NEW b \in Requests,
                      requests[r].op = "google", requests[r].pc = "done", requests[r].user = a,
                      requests[q].op = "google", requests[q].pc = "done", requests[q].user = b,
                      requests[r].want["google"] = requests[q].want["google"], a # b
               PROVE  \E s \in Requests :
                         /\ requests[s].op = "google" /\ requests[s].pc = "done"
                         /\ requests[s].user = a \/ requests[s].user = b
                         /\ requests[s].want["google"] # requests[r].want["google"]
    BY DEF OneAccountPerIdentity
  <2> DEFINE g == requests[r].want["google"]
  <2>1. Linked(a, g) /\ Linked(b, g)
    BY DEF IInv, RequestInv, RecordInv
  <2>2. ~(HasKey(a, "google", g) /\ HasKey(b, "google", g))
    BY DEF IInv, KeysUnique, HasKey, Columns
  <2> QED
    BY <2>1, <2>2 DEF Linked
<1> QED
  BY <1>1, Invariance, PTL

\* Who changes a committed account did not create it.
LEMMA ObstructorChanges ==
    ASSUME IInv, NEW q \in Requests, NEW r \in Requests, Obstructs(q, r)
    PROVE  requests[q].user # q
<1>1. PICK b \in Requests : Locks(q, b) /\ Exists(b)
  BY DEF Obstructs, HasKey
<1> QED
  BY <1>1 DEF IInv, AccountInv, Locks, Writing

\* The order email, google, username leaves no circle among writers that wait for
\* locks and for keys being written: the one furthest along waits for nobody of
\* the circle.  What is left is a wait for a change of the account that was given
\* the key after the check (auth.py:403; user.py:39-42).
THEOREM CirclesNeedOvertakenCheck == Spec => []NoCircularWait
<1>1. IInv => NoCircularWait
  <2> SUFFICES ASSUME IInv, NEW S \in SUBSET Requests, S # {},
                      \A r, q \in S : requests[r].pc = "keys" =>
                                          ~(requests[q].user # q /\ Obstructs(q, r))
               PROVE  \E r \in S : WaitsFor(r) \cap S = {}
    BY DEF NoCircularWait
  <2> DEFINE Open(r) == requests[r].dirty \ requests[r].claimed
  <2>1. CASE \E r \in S : requests[r].pc \notin {"lock", "keys"}
    BY <2>1 DEF WaitsFor
  \* Those at their row lock wait only for writers.
  <2>2. CASE \A r \in S : requests[r].pc = "lock"
    <3>1. \A r \in S : WaitsFor(r) \cap S = {}
      BY <2>2 DEF WaitsFor, Locks, Writing
    <3> QED
      BY <3>1
  \* Those at their keys wait only for writers that have claimed that key.
  <2>3. ASSUME NEW r \in S, requests[r].pc = "keys", NEW q \in WaitsFor(r) \cap S,
               requests[q].pc \in {"lock", "keys"}
        PROVE  /\ requests[q].pc = "keys" /\ NextKey(r) \in requests[q].claimed
               /\ "google" \in requests[q].claimed => "email" \notin Open(q)
               /\ "username" \notin requests[q].claimed
               /\ Open(q) \subseteq Columns
    <3>1. q \in Requests \ {r} /\ NextKey(r) \in requests[q].claimed
      BY <2>3, ObstructorChanges DEF WaitsFor
    <3>2. RecordInv(q, requests[q]) /\ requests[q] \in Request
      BY <3>1 DEF IInv, RequestInv, TypeOK
    <3> QED
      BY <2>3, <3>1, <3>2 DEF RecordInv, WritingPcs, Request
  <2>4. ASSUME \A r \in S : requests[r].pc \in {"lock", "keys"},
               NEW k \in S, requests[k].pc = "keys"
        PROVE  \E r \in S : WaitsFor(r) \cap S = {}
    <3>1. CASE \E r \in S : requests[r].pc = "keys" /\ NextKey(r) = "username"
      <4>1. PICK r \in S : requests[r].pc = "keys" /\ NextKey(r) = "username"
        BY <3>1
      <4>2. \A q \in WaitsFor(r) : q \notin S
        BY <2>3, <2>4, <4>1
      <4> QED
        BY <4>1, <4>2
    <3>2. CASE /\ \E r \in S : requests[r].pc = "keys" /\ NextKey(r) = "google"
               /\ \A r \in S : requests[r].pc = "keys" => NextKey(r) # "username"
      <4>1. PICK r \in S : requests[r].pc = "keys" /\ NextKey(r) = "google"
        BY <3>2
      <4>2. ASSUME NEW q \in WaitsFor(r), q \in S PROVE FALSE
        <5>1. /\ requests[q].pc = "keys" /\ "google" \in requests[q].claimed
              /\ "email" \notin Open(q)
          BY <2>3, <2>4, <4>1, <4>2
        <5>2. NextKey(q) = "username"
          BY <5>1 DEF NextKey
        <5> QED
          BY <3>2, <4>2, <5>1, <5>2
      <4> QED
        BY <4>1, <4>2
    <3>3. CASE \A r \in S : requests[r].pc = "keys" => NextKey(r) \notin {"google", "username"}
      <4>1. \A r \in S : requests[r].pc = "keys" => NextKey(r) = "email"
        BY <3>3 DEF NextKey
      <4>2. ASSUME NEW q \in WaitsFor(k), q \in S PROVE FALSE
        <5>1. requests[q].pc = "keys" /\ "email" \in requests[q].claimed
          BY <2>3, <2>4, <4>1, <4>2
        <5>2. NextKey(q) # "email"
          BY <5>1 DEF NextKey
        <5> QED
          BY <4>1, <4>2, <5>1, <5>2
      <4> QED
        BY <4>2
    <3> QED
      BY <3>1, <3>2, <3>3
  <2> QED
    BY <2>1, <2>2, <2>4
<1> QED
  BY <1>1, Invariance, PTL

\* Among requests that create accounts nobody changes one, so that they close no
\* circle by themselves, overtaken or not (auth.py:122, 219; seed.py:182).
THEOREM AccountCreationsGetThrough == Spec => []CreationsGetThrough
<1>1. NoCircularWait => CreationsGetThrough
  <2> SUFFICES ASSUME NoCircularWait,
                      NEW S \in SUBSET {r \in Requests : requests[r].user = r}, S # {}
               PROVE  \E r \in S : WaitsFor(r) \cap S = {}
    BY DEF CreationsGetThrough
  <2>1. S \in (SUBSET Requests) \ {{}} /\ \A q \in S : requests[q].user = q
    OBVIOUS
  <2> QED
    BY <2>1 DEF NoCircularWait
<1> QED
  BY <1>1, CirclesNeedOvertakenCheck, PTL

-----------------------------------------------------------------------------
\* Only a commit is seen from outside: it opens or changes one account.
LEMMA StepImplements ==
    ASSUME IInv, IInv', [Next]_vars
    PROVE  [Registry!Next]_<<users, selves>>
<1>1. CASE \E r \in Requests : Commit(r)
  <2>1. PICK r \in Requests : Commit(r)
    BY <1>1
  <2>2. PICK a \in Requests : a = requests[r].user
    BY <2>1, WrittenRow DEF Commit
  <2>3. /\ users' = [users EXCEPT ![a] = Written(r)]
        /\ selves' = IF requests[r].self THEN selves \cup {r} ELSE selves
        /\ Written(r) \in Row
    BY <2>1, <2>2, WrittenRow DEF Commit, Publish
  <2>4. /\ requests[r].self <=> a = r /\ requests[r].op # "seed"
        /\ a = r => ~Exists(r)
        /\ a # r => Exists(a)
    BY <2>1, <2>2 DEF Commit, IInv, RequestInv, RecordInv, WritingPcs
  <2>5. Registry!Sets(a)
    <3>1. users' \in [Requests -> Row \cup {None}]
      BY DEF IInv, TypeOK
    <3>2. users'[a] # None /\ \A b \in Requests \ {a} : users'[b] = users[b]
      BY <2>3, AccountAssumption DEF IInv, TypeOK
    <3>3. ASSUME NEW b \in Requests \ {a}, NEW c \in Columns, users[b] # None, users[b][c] # None
          PROVE  users'[a][c] # users[b][c]
      <4>1. Exists(b)' /\ Exists(a)' /\ users'[b][c] # None
        BY <3>2, <3>3 DEF Exists
      <4>2. users'[b][c] # users'[a][c]
        BY <4>1 DEF IInv, KeysUnique
      <4> QED
        BY <3>2, <4>2
    <3> QED
      BY <3>1, <3>2, <3>3 DEF Registry!Sets, Registry!Exists, Row
  <2>6. CASE a = r
    BY <2>3, <2>4, <2>5, <2>6 DEF Registry!Next, Registry!Open, Registry!Exists, Exists
  <2>7. CASE a # r
    BY <2>3, <2>4, <2>5, <2>7 DEF Registry!Next, Registry!Change, Registry!Exists, Exists
  <2> QED
    BY <2>6, <2>7
<1>2. CASE UNCHANGED <<users, selves>>
  BY <1>2
<1>3. (\E r \in Requests : Commit(r)) \/ UNCHANGED <<users, selves>>
  BY ZenonT(30) DEF Next, vars, Signup, SeedAdmin, Google, UpdateProfile, FindEmail, PickName, CheckName,
         CheckEmail, LockRow, ClaimKey, CreateSelf, Abort
<1> QED
  BY <1>1, <1>2, <1>3

\* Whatever the requests do, table users is a registry: keys are never shared,
\* and a Self context appears only with its account.
THEOREM AccountsAreRegistry == Spec => ImplementsRegistry
<1>1. Init => Registry!Init
  BY DEF Init, Registry!Init
<1>2. Registry!vars = <<users, selves>>
  BY DEF Registry!vars
<1>3. IInv /\ IInv' /\ [Next]_vars => [Registry!Next]_(Registry!vars)
  BY <1>2, StepImplements DEF Registry!vars
<1>4. Registry!Init /\ [][Registry!Next]_(Registry!vars) => Registry!Spec
  BY DEF Registry!Spec
<1> QED
  BY <1>1, <1>3, <1>4, Invariance, PTL DEF Spec, ImplementsRegistry
=============================================================================
