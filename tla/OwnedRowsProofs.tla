--------------------------- MODULE OwnedRowsProofs ---------------------------
(***************************************************************************)
(* The names, owners and samples of OwnedRows, for any number of users,    *)
(* rows, names and requests.                                               *)
(*                                                                         *)
(* Names are unique at every commit because the keys judge it.  That only  *)
(* owners change rows rests on what a loaded request still knows at its    *)
(* commit: the row it speaks of is gone, or is the one it looked at.  The  *)
(* samples are there after a seed since no request can take one away; and  *)
(* runs that do not overlap insert only names that are missing.            *)
(***************************************************************************)
EXTENDS OwnedRows, TLAPS

\* Who is about to change a row, and which.
Changing(r) == requests[r].pc = "loaded" /\ requests[r].op \in {"rename", "delete"}

\* A request that loaded a row may still change it: it is gone, or its own.
LoadInv ==
    \A r \in Requests :
        /\ requests[r].pc = "loaded" => requests[r].op \in {"rename", "delete", "seed"}
        /\ Changing(r) =>
              /\ requests[r].id \in Keys
              /\ Exists(requests[r].id) =>
                    /\ ~Protected(requests[r].id)
                    /\ rows[requests[r].id].owner = requests[r].user

\* A run of the seed will add, or has added, what was missing; runs that do not
\* overlap are one at a time, and add only what is missing still.
SeedInv ==
    /\ \A r \in Requests : Seeding(r) => Samples \subseteq SampleNames \cup requests[r].missing
    /\ SeededComplete
    /\ ~overlapped =>
          /\ \A r, q \in Requests : Seeding(r) /\ Seeding(q) => r = q
          /\ \A r \in Requests : Seeding(r) => requests[r].missing \cap SampleNames = {}

\* Samples belong to nobody.
SampleInv == \A i \in Keys : Exists(i) /\ rows[i].kind = "sample" => rows[i].owner = None

IInv == TypeOK /\ LoadInv /\ NamesUnique /\ SampleInv /\ SeedInv /\ SamplesOnce

-----------------------------------------------------------------------------
\* What a run of the seed puts into the table: each missing name once.
LEMMA SeededRows ==
    ASSUME TypeOK, NEW r \in Requests, SeedCommit(r)
    PROVE  \E id \in [requests[r].missing -> Fresh] :
             /\ rows' = [i \in Keys |-> rows'[i]]
             /\ \A m, n \in requests[r].missing : id[m] = id[n] => m = n
             /\ \A n \in requests[r].missing :
                  rows'[id[n]] = [kind |-> "sample", owner |-> None, name |-> n]
             /\ \A i \in Keys : (\A n \in requests[r].missing : id[n] # i) => rows'[i] = rows[i]
<1> DEFINE missing == requests[r].missing
<1>1. PICK id \in Injection(missing, Fresh) :
        rows' = [i \in Keys |-> IF i \in Range(id)
                                THEN [kind |-> "sample", owner |-> None, name |-> AntiFunction(id)[i]]
                                ELSE rows[i]]
  BY DEF SeedCommit
<1>2. /\ id \in [missing -> Fresh]
      /\ \A m, n \in missing : id[m] = id[n] => m = n
  BY DEF Injection, IsInjective
<1>3. \A n \in missing : id[n] \in Range(id) /\ id[n] \in Keys
  BY <1>2 DEF Range, Fresh, Keys
<1>4. ASSUME NEW n \in missing PROVE AntiFunction(id)[id[n]] = n
  <2> DEFINE k == CHOOSE s \in DOMAIN id : id[n] \in Range(id) => id[s] = id[n]
  <2>1. AntiFunction(id)[id[n]] = k
    BY <1>3 DEF AntiFunction, Inverse
  <2>2. k \in missing /\ id[k] = id[n]
    BY <1>2, <1>3
  <2> QED
    BY <1>2, <2>1, <2>2
<1>5. \A n \in missing : rows'[id[n]] = [kind |-> "sample", owner |-> None, name |-> n]
  BY <1>1, <1>3, <1>4
<1>6. \A i \in Keys : (\A n \in missing : id[n] # i) => rows'[i] = rows[i]
  BY <1>1, <1>2 DEF Range
<1>7. rows' = [i \in Keys |-> rows'[i]]
  BY <1>1
<1> QED
  BY <1>2, <1>5, <1>6, <1>7

LEMMA IdleType == Idle \in Request
  BY DEF Idle, Request

LEMMA TypeInit == Init => TypeOK
<1> SUFFICES ASSUME Init PROVE TypeOK
  OBVIOUS
<1>1. PICK n \in Names :
        rows = [i \in Keys |-> IF i \in Users THEN [kind |-> "self", owner |-> i, name |-> n] ELSE None]
  BY DEF Init
<1>2. rows \in [Keys -> Row \cup {None}]
  BY <1>1 DEF Row, Kinds
<1> QED
  BY <1>2, IdleType DEF Init, TypeOK

\* Every step keeps the types.
LEMMA TypeStep == TypeOK /\ [Next]_vars => TypeOK'
<1> SUFFICES ASSUME TypeOK, [Next]_vars PROVE TypeOK'
  OBVIOUS
<1>1. ASSUME NEW r \in Requests, NEW pc \in {"done", "refused", "conflict", "failed"},
             Answer(r, pc)
      PROVE  requests' \in [Requests -> Request]
  <2>1. [Idle EXCEPT !.pc = pc] \in Request
    BY DEF Idle, Request
  <2> QED
    BY <1>1, <2>1 DEF TypeOK, Answer, Put
<1>2. ASSUME NEW r \in Requests, NEW u \in Users, NEW k \in Kinds \ {"sample"}, NEW n \in Names,
             Create(r, u, k, n)
      PROVE  TypeOK'
  <2>1. requests' \in [Requests -> Request]
    BY <1>1, <1>2 DEF Create
  <2>2. rows' \in [Keys -> Row \cup {None}]
    <3>1. [kind |-> k, owner |-> u, name |-> n] \in Row
      BY DEF Row
    <3> QED
      BY <1>2, <3>1 DEF Create, TypeOK
  <2> QED
    BY <1>2, <2>1, <2>2 DEF Create, TypeOK
<1>3. ASSUME NEW r \in Requests, NEW u \in Users, NEW i \in Keys, NEW op \in {"rename", "delete"},
             NEW n \in Names \cup {None}, Load(r, u, i, op, n)
      PROVE  TypeOK'
  <2>1. CASE Protected(i)
    <3>1. requests' = [requests EXCEPT ![r] = [Idle EXCEPT !.pc = "refused"]]
      BY <1>3, <2>1 DEF Load, Put
    <3>2. [Idle EXCEPT !.pc = "refused"] \in Request
      BY DEF Idle, Request
    <3> QED
      BY <1>3, <3>1, <3>2 DEF Load, TypeOK
  <2>2. CASE ~Protected(i)
    <3> DEFINE name == IF op = "delete" \/ n = rows[i].name THEN None ELSE n
               rec  == [Idle EXCEPT !.op = op, !.pc = "loaded", !.user = u, !.id = i, !.name = name]
    <3>1. requests' = [requests EXCEPT ![r] = rec]
      BY <1>3, <2>2 DEF Load, Put
    <3>2. rec \in Request
      BY DEF Idle, Request
    <3> QED
      BY <1>3, <3>1, <3>2 DEF Load, TypeOK
  <2> QED
    BY <2>1, <2>2
<1>4. ASSUME NEW r \in Requests, CommitRename(r) PROVE TypeOK'
  <2> DEFINE q   == requests[r]
             row == [rows[q.id] EXCEPT !.name = IF q.name = None THEN @ ELSE q.name]
  <2>1. requests' \in [Requests -> Request] /\ overlapped' = overlapped
    BY <1>1, <1>4 DEF CommitRename
  <2>2. rows' = rows \/ (Exists(q.id) /\ rows' = [rows EXCEPT ![q.id] = row])
    BY <1>4 DEF CommitRename
  <2>3. CASE Exists(q.id) /\ rows' = [rows EXCEPT ![q.id] = row]
    <3>1. CASE q.id \in Keys
      <4>1. rows[q.id] \in Row /\ q.name \in Names \cup {None}
        BY <2>3, <3>1 DEF TypeOK, Exists, Request
      <4>2. row \in Row
        BY <4>1 DEF Row
      <4> QED
        BY <2>1, <2>3, <4>2 DEF TypeOK
    <3>2. CASE q.id \notin Keys
      BY <2>1, <2>3, <3>2 DEF TypeOK
    <3> QED
      BY <3>1, <3>2
  <2> QED
    BY <2>1, <2>2, <2>3 DEF TypeOK
<1>5. ASSUME NEW r \in Requests, CommitDelete(r) \/ Fail(r) PROVE TypeOK'
  <2>1. requests' \in [Requests -> Request]
    BY <1>1, <1>5 DEF CommitDelete, Fail
  <2> QED
    BY <1>5, <2>1 DEF CommitDelete, Fail, TypeOK
<1>6. ASSUME NEW r \in Requests, SeedLoad(r) PROVE TypeOK'
  <2>1. [Idle EXCEPT !.op = "seed", !.pc = "loaded", !.missing = Samples \ SampleNames] \in Request
    BY DEF Idle, Request
  <2> QED
    BY <1>6, <2>1 DEF SeedLoad, Put, TypeOK
<1>7. ASSUME NEW r \in Requests, SeedCommit(r) PROVE TypeOK'
  <2>1. [Idle EXCEPT !.op = "seed", !.pc = "done"] \in Request
    BY DEF Idle, Request
  <2>2. rows' \in [Keys -> Row \cup {None}]
    <3>1. PICK id \in [requests[r].missing -> Fresh] :
             /\ rows' = [i \in Keys |-> rows'[i]]
             /\ \A n \in requests[r].missing :
                  rows'[id[n]] = [kind |-> "sample", owner |-> None, name |-> n]
             /\ \A i \in Keys : (\A n \in requests[r].missing : id[n] # i) => rows'[i] = rows[i]
      BY <1>7, SeededRows
    <3>2. requests[r].missing \subseteq Names
      BY RowsAssumption DEF TypeOK, Request
    <3>3. ASSUME NEW i \in Keys PROVE rows'[i] \in Row \cup {None}
      <4>1. CASE \A n \in requests[r].missing : id[n] # i
        BY <3>1, <4>1 DEF TypeOK
      <4>2. ASSUME NEW n \in requests[r].missing, id[n] = i PROVE rows'[i] \in Row
        <5>1. n \in Names /\ rows'[i] = [kind |-> "sample", owner |-> None, name |-> n]
          BY <3>1, <3>2, <4>2
        <5> QED
          BY <5>1 DEF Row, Kinds
      <4> QED
        BY <4>1, <4>2
    <3> QED
      BY <3>1, <3>3
  <2> QED
    BY <1>7, <2>1, <2>2 DEF SeedCommit, Put, TypeOK
<1>8. CASE UNCHANGED vars
  BY <1>8 DEF vars, TypeOK
<1> QED
  BY <1>2, <1>3, <1>4, <1>5, <1>6, <1>7, <1>8 DEF Next

-----------------------------------------------------------------------------
\* A request that ends leaves the others as they are.
LEMMA Answered ==
    ASSUME TypeOK, NEW r \in Requests, NEW pc \in {"done", "refused", "conflict", "failed"},
           Answer(r, pc)
    PROVE  /\ requests'[r].pc # "loaded" /\ requests'[r].op = "none"
           /\ \A q \in Requests \ {r} : requests'[q] = requests[q]
  BY DEF TypeOK, Answer, Put, Idle

\* What one step may do to the table.
LEMMA RowsChange ==
    ASSUME IInv, [Next]_vars
    PROVE  \/ rows' = rows
           \/ \E i \in Fresh, row \in Row :
                /\ row.kind \in {"team", "tag", "template"} /\ ~Taken(i, row)
                /\ rows' = [rows EXCEPT ![i] = row]
           \/ \E r \in Requests, n \in Names :
                /\ Changing(r) /\ Exists(requests[r].id)
                /\ ~Taken(requests[r].id, [rows[requests[r].id] EXCEPT !.name = n])
                /\ rows' = [rows EXCEPT ![requests[r].id].name = n]
           \/ \E r \in Requests : Changing(r) /\ rows' = [rows EXCEPT ![requests[r].id] = None]
           \/ \E r \in Requests : SeedCommit(r)
<1>1. ASSUME NEW r \in Requests, NEW u \in Users, NEW k \in Kinds \ {"sample"}, NEW n \in Names,
             Create(r, u, k, n), rows' # rows
      PROVE  \E i \in Fresh, row \in Row :
                /\ row.kind \in {"team", "tag", "template"} /\ ~Taken(i, row)
                /\ rows' = [rows EXCEPT ![i] = row]
  <2> DEFINE row == [kind |-> k, owner |-> u, name |-> n]
  <2>1. row \in Row /\ row.kind = k
    BY DEF Row
  <2>2. PICK i \in Fresh : /\ k \in {"team", "tag", "template"} /\ ~Taken(i, row)
                           /\ rows' = [rows EXCEPT ![i] = row]
    BY <1>1 DEF Create
  <2> QED
    BY <2>1, <2>2
<1>2. ASSUME NEW r \in Requests, CommitRename(r), rows' # rows
      PROVE  \E n \in Names :
                /\ Changing(r) /\ Exists(requests[r].id)
                /\ ~Taken(requests[r].id, [rows[requests[r].id] EXCEPT !.name = n])
                /\ rows' = [rows EXCEPT ![requests[r].id].name = n]
  <2> DEFINE q == requests[r]
             n == IF q.name = None THEN rows[q.id].name ELSE q.name
  <2>1. /\ Changing(r) /\ Exists(q.id)
        /\ ~Taken(q.id, [rows[q.id] EXCEPT !.name = n])
        /\ rows' = [rows EXCEPT ![q.id] = [rows[q.id] EXCEPT !.name = n]]
    BY <1>2 DEF CommitRename, Changing
  <2>2. q \in Request /\ q.id \in Keys /\ rows[q.id] \in Row
    BY <2>1 DEF IInv, LoadInv, TypeOK, Exists
  <2>3. n \in Names
    BY <2>2 DEF Request, Row
  <2> QED
    BY <2>1, <2>3
<1>3. ASSUME NEW r \in Requests, CommitDelete(r)
      PROVE  Changing(r) /\ rows' = [rows EXCEPT ![requests[r].id] = None]
  BY <1>3 DEF CommitDelete, Changing
<1> QED
  BY <1>1, <1>2, <1>3 DEF Next, vars, Load, SeedLoad, Fail

\* A table in which a row is inserted, renamed or deleted keeps its keys.
LEMMA NamesStep == IInv /\ [Next]_vars => NamesUnique'
<1> SUFFICES ASSUME IInv, [Next]_vars PROVE NamesUnique'
  OBVIOUS
<1>1. CASE rows' = rows
  BY <1>1 DEF IInv, NamesUnique, Exists
<1>2. ASSUME NEW i \in Keys, NEW row, ~Taken(i, row), row # None,
             rows' = [rows EXCEPT ![i] = row]
      PROVE  NamesUnique'
  <2>1. rows'[i] = row /\ \A j \in Keys \ {i} : rows'[j] = rows[j]
    BY <1>2 DEF IInv, TypeOK
  <2>2. row.kind \in UniqueKinds => \A j \in Keys \ {i} : rows[j] # row
    BY <1>2 DEF Taken
  <2> QED
    BY <2>1, <2>2 DEF IInv, NamesUnique, Exists
<1>3. CASE \E i \in Fresh, row \in Row :
             /\ row.kind \in {"team", "tag", "template"} /\ ~Taken(i, row)
             /\ rows' = [rows EXCEPT ![i] = row]
  <2>1. PICK i \in Fresh, row \in Row :
             ~Taken(i, row) /\ rows' = [rows EXCEPT ![i] = row]
    BY <1>3
  <2>2. i \in Keys
    BY DEF Fresh, Keys
  <2> QED
    BY <1>2, <2>1, <2>2, RowsAssumption
<1>4. ASSUME NEW r \in Requests, NEW n \in Names,
             Changing(r), Exists(requests[r].id),
             ~Taken(requests[r].id, [rows[requests[r].id] EXCEPT !.name = n]),
             rows' = [rows EXCEPT ![requests[r].id].name = n]
      PROVE  NamesUnique'
  <2> DEFINE i   == requests[r].id
             row == [rows[i] EXCEPT !.name = n]
  <2>1. i \in Keys /\ rows[i] \in Row
    BY <1>4 DEF IInv, LoadInv, TypeOK, Exists
  <2>2. rows'[i] = row /\ \A j \in Keys \ {i} : rows'[j] = rows[j]
    BY <1>4, <2>1 DEF IInv, TypeOK
  <2>3. row.kind \in UniqueKinds => \A j \in Keys \ {i} : rows[j] # row
    BY <1>4 DEF Taken
  <2> QED
    BY <2>2, <2>3 DEF IInv, NamesUnique, Exists
<1>5. ASSUME NEW r \in Requests, Changing(r), rows' = [rows EXCEPT ![requests[r].id] = None]
      PROVE  NamesUnique'
  <2>1. requests[r].id \in Keys
    BY <1>5 DEF IInv, LoadInv
  <2> QED
    BY <1>5, <2>1 DEF IInv, NamesUnique, TypeOK, Exists
<1>6. ASSUME NEW r \in Requests, SeedCommit(r) PROVE NamesUnique'
  <2>1. \A i \in Keys : rows'[i] = rows[i] \/ rows'[i].kind = "sample"
    BY <1>6 DEF SeedCommit
  <2> QED
    BY <2>1 DEF IInv, NamesUnique, Exists, UniqueKinds
<1> QED
  BY <1>1, <1>3, <1>4, <1>5, <1>6, RowsChange

\* Samples stay, and new ones come from the seed alone.
LEMMA SamplesKept ==
    ASSUME IInv, [Next]_vars
    PROVE  /\ \A i \in Keys : Exists(i) /\ rows[i].kind = "sample" => rows'[i] = rows[i]
           /\ \A i \in Keys : /\ Exists(i)' /\ rows'[i].kind = "sample"
                              /\ \A r \in Requests : ~SeedCommit(r)
                              => Exists(i) /\ rows'[i] = rows[i]
           /\ SampleInv'
<1> USE DEF Exists, SampleInv
<1>1. CASE rows' = rows
  BY <1>1 DEF IInv
<1>2. CASE \E i \in Fresh, row \in Row :
             /\ row.kind \in {"team", "tag", "template"} /\ ~Taken(i, row)
             /\ rows' = [rows EXCEPT ![i] = row]
  <2>1. PICK i \in Fresh, row \in Row :
             row.kind \in {"team", "tag", "template"} /\ rows' = [rows EXCEPT ![i] = row]
    BY <1>2
  <2>2. rows[i] = None /\ i \in Keys
    BY DEF Fresh, Keys
  <2>3. rows'[i] = row /\ \A j \in Keys \ {i} : rows'[j] = rows[j]
    BY <2>1, <2>2 DEF IInv, TypeOK
  <2> QED
    BY <2>1, <2>2, <2>3 DEF IInv
<1>3. ASSUME NEW r \in Requests, Changing(r), NEW row,
             rows' = [rows EXCEPT ![requests[r].id] = row],
             row = None \/ (row.kind = rows[requests[r].id].kind /\ Exists(requests[r].id))
      PROVE  /\ \A i \in Keys : Exists(i) /\ rows[i].kind = "sample" => rows'[i] = rows[i]
             /\ \A i \in Keys : Exists(i)' /\ rows'[i].kind = "sample"
                                => Exists(i) /\ rows'[i] = rows[i]
             /\ SampleInv'
  <2> DEFINE i == requests[r].id
  <2>1. i \in Keys /\ (Exists(i) => rows[i].kind # "sample")
    BY <1>3 DEF IInv, LoadInv, Protected
  <2>2. rows'[i] = row /\ \A j \in Keys \ {i} : rows'[j] = rows[j]
    BY <1>3, <2>1 DEF IInv, TypeOK
  <2> QED
    BY <1>3, <2>1, <2>2 DEF IInv
<1>4. ASSUME NEW r \in Requests, NEW n \in Names, Changing(r), Exists(requests[r].id),
             rows' = [rows EXCEPT ![requests[r].id].name = n]
      PROVE  \E row : /\ rows' = [rows EXCEPT ![requests[r].id] = row]
                      /\ row.kind = rows[requests[r].id].kind
  <2>1. requests[r].id \in Keys /\ rows[requests[r].id] \in Row
    BY <1>4 DEF IInv, LoadInv, TypeOK
  <2>2. [rows[requests[r].id] EXCEPT !.name = n].kind = rows[requests[r].id].kind
    BY <2>1 DEF Row
  <2> QED
    BY <1>4, <2>2
<1>5. ASSUME NEW r \in Requests, SeedCommit(r)
      PROVE  /\ \A i \in Keys : Exists(i) /\ rows[i].kind = "sample" => rows'[i] = rows[i]
             /\ SampleInv'
  <2>1. PICK id \in [requests[r].missing -> Fresh] :
             /\ \A n \in requests[r].missing :
                  rows'[id[n]] = [kind |-> "sample", owner |-> None, name |-> n]
             /\ \A i \in Keys : (\A n \in requests[r].missing : id[n] # i) => rows'[i] = rows[i]
    BY <1>5, SeededRows DEF IInv
  <2>2. \A n \in requests[r].missing : rows[id[n]] = None
    BY <2>1 DEF Fresh
  <2>3. \A i \in Keys : Exists(i) => rows'[i] = rows[i]
    BY <2>1, <2>2
  <2>4. ASSUME NEW i \in Keys PROVE rows'[i] = rows[i] \/ rows'[i].owner = None
    <3>1. ASSUME NEW n \in requests[r].missing, id[n] = i PROVE rows'[i].owner = None
      <4>1. rows'[i] = [kind |-> "sample", owner |-> None, name |-> n]
        BY <2>1, <3>1
      <4> QED
        BY <4>1
    <3> QED
      BY <2>1, <3>1
  <2>5. SampleInv'
    BY <2>4 DEF IInv
  <2> QED
    BY <2>3, <2>5
<1>6. ASSUME NEW r \in Requests, Changing(r), rows' = [rows EXCEPT ![requests[r].id] = None]
      PROVE  /\ \A i \in Keys : Exists(i) /\ rows[i].kind = "sample" => rows'[i] = rows[i]
             /\ \A i \in Keys : Exists(i)' /\ rows'[i].kind = "sample"
                                => Exists(i) /\ rows'[i] = rows[i]
             /\ SampleInv'
  <2>1. None = None \/ (None.kind = rows[requests[r].id].kind /\ Exists(requests[r].id))
    OBVIOUS
  <2> HIDE DEF Exists, SampleInv
  <2> QED
    BY <1>3, <1>6, <2>1
<1>7. ASSUME NEW r \in Requests, NEW n \in Names, Changing(r), Exists(requests[r].id),
             rows' = [rows EXCEPT ![requests[r].id].name = n]
      PROVE  /\ \A i \in Keys : Exists(i) /\ rows[i].kind = "sample" => rows'[i] = rows[i]
             /\ \A i \in Keys : Exists(i)' /\ rows'[i].kind = "sample"
                                => Exists(i) /\ rows'[i] = rows[i]
             /\ SampleInv'
  BY <1>3, <1>4, <1>7
<1> QED
  BY <1>1, <1>2, <1>5, <1>6, <1>7, RowsChange

-----------------------------------------------------------------------------
\* A request that loaded a row still has it before it, or nothing.
LEMMA LoadStep == IInv /\ [Next]_vars => LoadInv'
<1> SUFFICES ASSUME IInv, [Next]_vars PROVE LoadInv'
  OBVIOUS
<1>1. ASSUME NEW i \in Keys, NEW u,
             rows'[i] = rows[i] \/ rows'[i] = None
                \/ (rows[i] # None /\ rows'[i].kind = rows[i].kind /\ rows'[i].owner = rows[i].owner),
             rows[i] # None => ~Protected(i) /\ rows[i].owner = u
      PROVE  rows'[i] # None => ~Protected(i)' /\ rows'[i].owner = u
  BY <1>1 DEF Protected
\* The row of another request is as it was, gone, or renamed.
<1>2. ASSUME NEW q \in Requests, Changing(q)
      PROVE  LET i == requests[q].id
             IN  \/ rows'[i] = rows[i] \/ rows'[i] = None
                 \/ /\ rows[i] # None
                    /\ rows'[i].kind = rows[i].kind /\ rows'[i].owner = rows[i].owner
  <2> DEFINE i == requests[q].id
  <2>1. i \in Keys /\ i \notin Fresh
    BY <1>2 DEF IInv, LoadInv, Fresh
  <2>2. ASSUME NEW j \in Fresh, NEW row \in Row, rows' = [rows EXCEPT ![j] = row]
        PROVE  rows'[i] = rows[i]
    BY <2>1, <2>2 DEF IInv, TypeOK
  <2>3. ASSUME NEW r \in Requests, NEW n \in Names, Changing(r), Exists(requests[r].id),
               rows' = [rows EXCEPT ![requests[r].id].name = n]
        PROVE  \/ rows'[i] = rows[i]
               \/ /\ rows[i] # None
                  /\ rows'[i].kind = rows[i].kind /\ rows'[i].owner = rows[i].owner
    <3>1. CASE requests[r].id # i
      BY <2>1, <2>3, <3>1 DEF IInv, TypeOK
    <3>2. CASE requests[r].id = i
      <4>1. rows[i] \in Row /\ rows[i] # None
        BY <2>1, <2>3, <3>2 DEF IInv, TypeOK, Exists
      <4>2. rows'[i] = [rows[i] EXCEPT !.name = n]
        BY <2>1, <2>3, <3>2 DEF IInv, TypeOK
      <4> QED
        BY <4>1, <4>2 DEF Row
    <3> QED
      BY <3>1, <3>2
  <2>4. ASSUME NEW r \in Requests, rows' = [rows EXCEPT ![requests[r].id] = None]
        PROVE  rows'[i] = rows[i] \/ rows'[i] = None
    BY <2>1, <2>4 DEF IInv, TypeOK
  <2>5. ASSUME NEW r \in Requests, SeedCommit(r)
        PROVE  rows'[i] = rows[i]
    <3>1. PICK id \in [requests[r].missing -> Fresh] :
             \A k \in Keys : (\A n \in requests[r].missing : id[n] # k) => rows'[k] = rows[k]
      BY <2>5, SeededRows DEF IInv
    <3> QED
      BY <2>1, <3>1
  <2> QED
    BY <2>2, <2>3, <2>4, <2>5, RowsChange
<1>3. ASSUME NEW q \in Requests, requests'[q] = requests[q]
      PROVE  /\ requests'[q].pc = "loaded" => requests'[q].op \in {"rename", "delete", "seed"}
             /\ Changing(q)' =>
                   /\ requests'[q].id \in Keys
                   /\ Exists(requests[q].id)' =>
                         /\ ~Protected(requests[q].id)'
                         /\ rows'[requests[q].id].owner = requests'[q].user
  <2>1. Changing(q)' <=> Changing(q)
    BY <1>3 DEF Changing
  <2>2. Changing(q) => /\ requests[q].id \in Keys
                       /\ rows[requests[q].id] # None =>
                            ~Protected(requests[q].id) /\ rows[requests[q].id].owner = requests[q].user
    BY DEF IInv, LoadInv, Exists
  <2>3. requests[q].pc = "loaded" => requests[q].op \in {"rename", "delete", "seed"}
    BY DEF IInv, LoadInv
  <2> QED
    BY <1>1, <1>2, <1>3, <2>1, <2>2, <2>3 DEF Exists
\* What a request has just loaded is its own, or a seed's nothing.
<1>4. ASSUME NEW r \in Requests, requests'[r] # requests[r], requests'[r].pc = "loaded"
      PROVE  /\ rows' = rows
             /\ requests'[r].op \in {"rename", "delete", "seed"}
             /\ requests'[r].op # "seed" =>
                   /\ requests'[r].id \in Keys
                   /\ ~Protected(requests'[r].id)
                   /\ rows[requests'[r].id].owner = requests'[r].user
  <2>1. ASSUME NEW q \in Requests, NEW pc \in {"done", "refused", "conflict", "failed"}, Answer(q, pc)
        PROVE  FALSE
    BY <1>4, <2>1, Answered DEF IInv
  <2>2. ASSUME NEW q \in Requests, NEW u \in Users, NEW i \in Keys, NEW op \in {"rename", "delete"},
               NEW n \in Names \cup {None}, Load(q, u, i, op, n), ~Protected(i)
        PROVE  /\ rows' = rows /\ requests'[r].op = op /\ requests'[r].id = i
               /\ requests'[r].user = u /\ rows[i].owner = u
    <3>1. q = r
      BY <1>4, <2>2 DEF Load, Put, IInv, TypeOK
    <3>2. rows[i].owner = u
      BY <2>2 DEF Load, MayFind, Protected
    <3>3. requests'[r] = [Idle EXCEPT !.op = op, !.pc = "loaded", !.user = u, !.id = i,
                       !.name = IF op = "delete" \/ n = rows[i].name THEN None ELSE n]
      BY <2>2, <3>1 DEF Load, Put, IInv, TypeOK
    <3> QED
      BY <2>2, <3>2, <3>3 DEF Load, Idle
  <2>3. ASSUME NEW q \in Requests, NEW u \in Users, NEW i \in Keys, NEW op \in {"rename", "delete"},
               NEW n \in Names \cup {None}, Load(q, u, i, op, n), Protected(i)
        PROVE  FALSE
    <3>1. Answer(q, "refused")
      BY <2>3 DEF Load, Answer
    <3> QED
      BY <2>1, <3>1
  <2>4. ASSUME NEW q \in Requests, SeedLoad(q)
        PROVE  rows' = rows /\ requests'[r].op = "seed"
    <3>1. q = r
      BY <1>4, <2>4 DEF SeedLoad, Put, IInv, TypeOK
    <3> QED
      BY <2>4, <3>1 DEF SeedLoad, Put, Idle, IInv, TypeOK
  <2>5. ASSUME NEW q \in Requests, SeedCommit(q)
        PROVE  FALSE
    <3>1. requests' = [requests EXCEPT ![q] = [Idle EXCEPT !.op = "seed", !.pc = "done"]]
      BY <2>5 DEF SeedCommit, Put
    <3>2. requests'[q].pc = "done" /\ \A p \in Requests \ {q} : requests'[p] = requests[p]
      BY <3>1 DEF Idle, IInv, TypeOK
    <3> QED
      BY <1>4, <3>2
  <2>6. ASSUME NEW q \in Requests, NEW u \in Users, NEW k \in Kinds \ {"sample"}, NEW n \in Names,
               Create(q, u, k, n)
        PROVE  FALSE
    BY <2>1, <2>6 DEF Create
  <2>7. ASSUME NEW q \in Requests, CommitRename(q) \/ CommitDelete(q) \/ Fail(q)
        PROVE  FALSE
    BY <2>1, <2>7 DEF CommitRename, CommitDelete, Fail
  <2>8. \/ \E q \in Requests : SeedLoad(q)
        \/ \E q \in Requests, u \in Users, i \in Keys, op \in {"rename", "delete"},
              n \in Names \cup {None} : Load(q, u, i, op, n)
    BY <1>4, <2>5, <2>6, <2>7 DEF Next, vars
  <2>9. CASE \E q \in Requests : SeedLoad(q)
    BY <2>4, <2>9
  <2>10. ASSUME NEW q \in Requests, NEW u \in Users, NEW i \in Keys, NEW op \in {"rename", "delete"},
                NEW n \in Names \cup {None}, Load(q, u, i, op, n)
         PROVE  /\ rows' = rows /\ requests'[r].op = op /\ requests'[r].id = i
                /\ requests'[r].user = u /\ rows[i].owner = u /\ ~Protected(i)
    BY <2>2, <2>3, <2>10
  <2> QED
    BY <2>8, <2>9, <2>10
<1> QED
  BY <1>3, <1>4 DEF LoadInv, Changing, Exists, Protected

-----------------------------------------------------------------------------
\* A step that is no seed's leaves the names of the samples as they are.
LEMMA NamesKept ==
    ASSUME IInv, [Next]_vars
    PROVE  /\ SampleNames \subseteq SampleNames'
           /\ (\A r \in Requests : ~SeedCommit(r)) => SampleNames' = SampleNames
<1>1. \A n \in SampleNames : \E i \in Keys : Exists(i) /\ rows[i].kind = "sample" /\ rows[i].name = n
  BY DEF SampleNames
<1>2. \A i \in Keys : Exists(i) /\ rows[i].kind = "sample" => Exists(i)' /\ rows'[i] = rows[i]
  BY SamplesKept DEF Exists
<1>3. \A i \in Keys : Exists(i)' /\ rows'[i].kind = "sample" => rows'[i].name \in SampleNames'
  BY DEF SampleNames
<1>4. SampleNames \subseteq SampleNames'
  BY <1>1, <1>2, <1>3
<1>5. ASSUME \A r \in Requests : ~SeedCommit(r), NEW n \in SampleNames' PROVE n \in SampleNames
  <2>1. PICK i \in Keys : Exists(i)' /\ rows'[i].kind = "sample" /\ rows'[i].name = n
    BY DEF SampleNames
  <2>2. Exists(i) /\ rows'[i] = rows[i]
    BY <1>5, <2>1, SamplesKept
  <2> QED
    BY <2>1, <2>2 DEF SampleNames
<1> QED
  BY <1>4, <1>5

\* What a run of the seed adds.
LEMMA SeedAdds ==
    ASSUME IInv, NEW r \in Requests, SeedCommit(r)
    PROVE  /\ SampleNames' \subseteq SampleNames \cup requests[r].missing
           /\ requests[r].missing \subseteq SampleNames'
<1>1. PICK id \in [requests[r].missing -> Fresh] :
             /\ \A n \in requests[r].missing :
                  rows'[id[n]] = [kind |-> "sample", owner |-> None, name |-> n]
             /\ \A i \in Keys : (\A n \in requests[r].missing : id[n] # i) => rows'[i] = rows[i]
  BY SeededRows DEF IInv
<1>2. requests[r].missing \subseteq Names
  BY RowsAssumption DEF IInv, TypeOK, Request
<1>3. ASSUME NEW n \in requests[r].missing PROVE n \in SampleNames'
  <2>1. /\ id[n] \in Keys
        /\ rows'[id[n]] = [kind |-> "sample", owner |-> None, name |-> n]
    BY <1>1 DEF Fresh, Keys
  <2>2. [kind |-> "sample", owner |-> None, name |-> n] \in Row
    BY <1>2 DEF Row, Kinds
  <2>3. rows'[id[n]] # None
    BY <2>1, <2>2, RowsAssumption
  <2> QED
    BY <2>1, <2>3 DEF SampleNames, Exists
<1>4. ASSUME NEW n \in SampleNames' PROVE n \in SampleNames \cup requests[r].missing
  <2>1. PICK i \in Keys : Exists(i)' /\ rows'[i].kind = "sample" /\ rows'[i].name = n
    BY DEF SampleNames
  <2>2. CASE \A m \in requests[r].missing : id[m] # i
    BY <1>1, <2>1, <2>2 DEF SampleNames, Exists
  <2>3. ASSUME NEW m \in requests[r].missing, id[m] = i PROVE n = m
    <3>1. rows'[i] = [kind |-> "sample", owner |-> None, name |-> m]
      BY <1>1, <2>3
    <3> QED
      BY <2>1, <3>1
  <2> QED
    BY <2>2, <2>3
<1> QED
  BY <1>3, <1>4

\* Only SeedLoad begins a run of the seed, and only SeedCommit ends one well.
LEMMA SeedRequests ==
    ASSUME IInv, [Next]_vars, NEW q \in Requests
    PROVE  /\ Seeding(q)' =>
                \/ Seeding(q) /\ requests'[q] = requests[q]
                \/ SeedLoad(q)
           /\ requests'[q].op = "seed" /\ requests'[q].pc = "done" =>
                requests'[q] = requests[q] \/ SeedCommit(q)
<1>1. CASE requests'[q] = requests[q]
  BY <1>1 DEF Seeding
<1>2. ASSUME NEW r \in Requests, NEW pc \in {"done", "refused", "conflict", "failed"}, Answer(r, pc)
      PROVE  requests'[q] = requests[q] \/ requests'[q].op = "none"
  BY <1>2, Answered DEF IInv
<1>3. ASSUME NEW r \in Requests, NEW u \in Users, NEW i \in Keys, NEW op \in {"rename", "delete"},
             NEW n \in Names \cup {None}, Load(r, u, i, op, n)
      PROVE  requests'[q] = requests[q] \/ requests'[q].op # "seed"
  <2>1. CASE Protected(i)
    <3>1. Answer(r, "refused")
      BY <1>3, <2>1 DEF Load, Answer
    <3> QED
      BY <1>2, <3>1
  <2>2. CASE ~Protected(i)
    <3>1. requests' = [requests EXCEPT ![r] =
                         [Idle EXCEPT !.op = op, !.pc = "loaded", !.user = u, !.id = i,
                          !.name = IF op = "delete" \/ n = rows[i].name THEN None ELSE n]]
      BY <1>3, <2>2 DEF Load, Put
    <3> QED
      BY <3>1 DEF Idle, IInv, TypeOK
  <2> QED
    BY <2>1, <2>2
<1>4. ASSUME NEW r \in Requests, SeedLoad(r)
      PROVE  \/ requests'[q] = requests[q]
             \/ q = r /\ requests'[q].pc = "loaded"
  BY <1>4 DEF SeedLoad, Put, Idle, IInv, TypeOK
<1>5. ASSUME NEW r \in Requests, SeedCommit(r)
      PROVE  \/ requests'[q] = requests[q]
             \/ q = r /\ requests'[q].pc = "done"
  <2>1. requests' = [requests EXCEPT ![r] = [Idle EXCEPT !.op = "seed", !.pc = "done"]]
    BY <1>5 DEF SeedCommit, Put
  <2> QED
    BY <2>1 DEF Idle, IInv, TypeOK
<1>6. ASSUME NEW r \in Requests, NEW u \in Users, NEW k \in Kinds \ {"sample"}, NEW n \in Names,
             Create(r, u, k, n)
      PROVE  requests'[q] = requests[q] \/ requests'[q].op = "none"
  BY <1>2, <1>6 DEF Create
<1>7. ASSUME NEW r \in Requests, CommitRename(r) \/ CommitDelete(r) \/ Fail(r)
      PROVE  requests'[q] = requests[q] \/ requests'[q].op = "none"
  BY <1>2, <1>7 DEF CommitRename, CommitDelete, Fail
<1>8. \/ requests'[q] = requests[q]
      \/ requests'[q].op # "seed"
      \/ SeedLoad(q) /\ requests'[q].pc = "loaded"
      \/ SeedCommit(q) /\ requests'[q].pc = "done"
  <2>1. ASSUME NEW r \in Requests, SeedLoad(r)
        PROVE  requests'[q] = requests[q] \/ (SeedLoad(q) /\ requests'[q].pc = "loaded")
    <3>1. CASE q = r
      BY <1>4, <2>1, <3>1
    <3>2. CASE q # r
      BY <1>4, <2>1, <3>2
    <3> QED
      BY <3>1, <3>2
  <2>2. ASSUME NEW r \in Requests, SeedCommit(r)
        PROVE  requests'[q] = requests[q] \/ (SeedCommit(q) /\ requests'[q].pc = "done")
    <3>1. CASE q = r
      BY <1>5, <2>2, <3>1
    <3>2. CASE q # r
      BY <1>5, <2>2, <3>2
    <3> QED
      BY <3>1, <3>2
  <2>3. ASSUME NEW r \in Requests,
               \/ \E u \in Users, k \in Kinds \ {"sample"}, n \in Names : Create(r, u, k, n)
               \/ CommitRename(r) \/ CommitDelete(r) \/ Fail(r)
        PROVE  requests'[q] = requests[q] \/ requests'[q].op # "seed"
    BY <1>6, <1>7, <2>3
  <2>4. CASE UNCHANGED vars
    BY <2>4 DEF vars
  <2> QED
    BY <1>3, <2>1, <2>2, <2>3, <2>4 DEF Next
<1> QED
  BY <1>1, <1>8 DEF Seeding

LEMMA SeedStep == IInv /\ [Next]_vars => SeedInv' /\ SamplesOnce'
<1> SUFFICES ASSUME IInv, [Next]_vars PROVE SeedInv' /\ SamplesOnce'
  OBVIOUS
<1>1. ASSUME NEW q \in Requests, Seeding(q)'
      PROVE  Samples \subseteq SampleNames' \cup requests'[q].missing
  <2>1. CASE Seeding(q) /\ requests'[q] = requests[q]
    BY <2>1, NamesKept DEF IInv, SeedInv
  <2>2. CASE SeedLoad(q)
    <3>1. requests'[q].missing = Samples \ SampleNames
      BY <2>2 DEF SeedLoad, Put, Idle, IInv, TypeOK
    <3> QED
      BY <3>1, NamesKept
  <2> QED
    BY <1>1, <2>1, <2>2, SeedRequests
<1>2. SeededComplete'
  <2> SUFFICES ASSUME NEW q \in Requests, requests'[q].op = "seed", requests'[q].pc = "done"
               PROVE  Samples \subseteq SampleNames'
    BY DEF SeededComplete
  <2>1. CASE requests'[q] = requests[q]
    BY <2>1, NamesKept DEF IInv, SeedInv, SeededComplete
  <2>2. CASE SeedCommit(q)
    <3>1. Samples \subseteq SampleNames \cup requests[q].missing
      BY <2>2 DEF IInv, SeedInv, SeedCommit
    <3> QED
      BY <2>2, <3>1, NamesKept, SeedAdds
  <2> QED
    BY <2>1, <2>2, SeedRequests
\* Once two runs have overlapped there is nothing more to show.
<1>3. overlapped => overlapped'
  BY ZenonT(30) DEF Next, vars, Create, Load, CommitRename, CommitDelete, SeedLoad, SeedCommit, Fail
<1>4. ASSUME ~overlapped', NEW q \in Requests, NEW r \in Requests, Seeding(q)', Seeding(r)', q # r
      PROVE  FALSE
  <2>1. ASSUME NEW p \in Requests, SeedLoad(p), NEW o \in Requests, Seeding(o) PROVE FALSE
    BY <1>4, <2>1 DEF SeedLoad
  <2>2. ~(Seeding(q) /\ Seeding(r))
    BY <1>3, <1>4 DEF IInv, SeedInv
  <2>3. CASE SeedLoad(q)
    <3>1. Seeding(r) \/ SeedLoad(r)
      BY <1>4, SeedRequests
    <3>2. ~SeedLoad(r)
      BY <1>4, <2>3 DEF SeedLoad, Put, Idle, Seeding, IInv, TypeOK, Free
    <3> QED
      BY <2>1, <2>3, <3>1, <3>2
  <2>4. CASE SeedLoad(r)
    <3>1. Seeding(q) \/ SeedLoad(q)
      BY <1>4, SeedRequests
    <3> QED
      BY <2>1, <2>3, <2>4, <3>1
  <2> QED
    BY <1>4, <2>2, <2>3, <2>4, SeedRequests
<1>5. ASSUME ~overlapped', NEW q \in Requests, Seeding(q)'
      PROVE  requests'[q].missing \cap SampleNames' = {}
  <2>1. CASE Seeding(q) /\ requests'[q] = requests[q]
    <3>1. ASSUME NEW r \in Requests, SeedCommit(r) PROVE FALSE
      <4>1. r = q
        BY <1>3, <1>5, <2>1, <3>1 DEF IInv, SeedInv, SeedCommit
      <4>2. requests'[r].pc = "done"
        BY <3>1 DEF SeedCommit, Put, Idle, IInv, TypeOK
      <4> QED
        BY <2>1, <4>1, <4>2 DEF Seeding
    <3>2. SampleNames' = SampleNames
      BY <3>1, NamesKept
    <3> QED
      BY <1>3, <1>5, <2>1, <3>2 DEF IInv, SeedInv
  <2>2. CASE SeedLoad(q)
    <3>1. requests'[q].missing = Samples \ SampleNames /\ rows' = rows
      BY <2>2 DEF SeedLoad, Put, Idle, IInv, TypeOK
    <3>2. SampleNames' = SampleNames
      BY <3>1 DEF SampleNames, Exists
    <3> QED
      BY <3>1, <3>2
  <2> QED
    BY <1>5, <2>1, <2>2, SeedRequests
<1>6. SamplesOnce'
  <2> SUFFICES ASSUME ~overlapped', NEW i \in Keys, NEW j \in Keys, i # j,
                      Exists(i)', rows'[i].kind = "sample", rows'[i] = rows'[j]
               PROVE  FALSE
    BY DEF SamplesOnce
  <2>1. ~overlapped /\ SamplesOnce
    BY <1>3 DEF IInv
  <2>2. CASE \A r \in Requests : ~SeedCommit(r)
    <3>1. Exists(j)' /\ rows'[j].kind = "sample"
      BY DEF Exists
    <3>2. Exists(i) /\ rows'[i] = rows[i] /\ rows'[j] = rows[j]
      BY <2>2, <3>1, SamplesKept
    <3> QED
      BY <2>1, <3>2 DEF SamplesOnce
  <2>3. ASSUME NEW r \in Requests, SeedCommit(r) PROVE FALSE
    <3>1. PICK id \in [requests[r].missing -> Fresh] :
             /\ \A m, n \in requests[r].missing : id[m] = id[n] => m = n
             /\ \A n \in requests[r].missing :
                  rows'[id[n]] = [kind |-> "sample", owner |-> None, name |-> n]
             /\ \A k \in Keys : (\A n \in requests[r].missing : id[n] # k) => rows'[k] = rows[k]
      BY <2>3, SeededRows DEF IInv
    <3>2. requests[r].missing \cap SampleNames = {}
      BY <2>1, <2>3 DEF IInv, SeedInv, SeedCommit
    <3>3. ASSUME NEW k \in Keys, Exists(k)', rows'[k].kind = "sample",
                 \A n \in requests[r].missing : id[n] # k
          PROVE  Exists(k) /\ rows[k] = rows'[k] /\ rows'[k].name \in SampleNames
      BY <3>1, <3>3 DEF Exists, SampleNames
    <3>4. ASSUME NEW k \in Keys, NEW n \in requests[r].missing, id[n] = k
          PROVE  rows'[k].name = n
      <4>1. rows'[k] = [kind |-> "sample", owner |-> None, name |-> n]
        BY <3>1, <3>4
      <4> QED
        BY <4>1
    <3>5. Exists(j)' /\ rows'[j].kind = "sample"
      BY DEF Exists
    <3>6. CASE \A n \in requests[r].missing : id[n] # i /\ id[n] # j
      <4>1. Exists(i) /\ rows[i] = rows'[i] /\ rows[j] = rows'[j]
        BY <3>3, <3>5, <3>6
      <4> QED
        BY <2>1, <4>1 DEF SamplesOnce
    <3>7. ASSUME NEW n \in requests[r].missing, id[n] = i, \A m \in requests[r].missing : id[m] # j
          PROVE  FALSE
      <4>1. rows'[i].name = n /\ rows'[j].name \in SampleNames
        BY <3>3, <3>4, <3>5, <3>7
      <4> QED
        BY <3>2, <4>1
    <3>8. ASSUME NEW n \in requests[r].missing, id[n] = j, \A m \in requests[r].missing : id[m] # i
          PROVE  FALSE
      <4>1. rows'[j].name = n /\ rows'[i].name \in SampleNames
        BY <3>3, <3>4, <3>8
      <4> QED
        BY <3>2, <4>1
    <3>9. ASSUME NEW m \in requests[r].missing, id[m] = i, NEW n \in requests[r].missing, id[n] = j
          PROVE  FALSE
      BY <3>4, <3>9
    <3> QED
      BY <3>6, <3>7, <3>8, <3>9
  <2> QED
    BY <2>2, <2>3
<1> QED
  BY <1>1, <1>2, <1>4, <1>5, <1>6 DEF SeedInv

-----------------------------------------------------------------------------
LEMMA InitIInv == Init => IInv
<1> SUFFICES ASSUME Init PROVE IInv
  OBVIOUS
<1>1. PICK n \in Names :
        rows = [i \in Keys |-> IF i \in Users THEN [kind |-> "self", owner |-> i, name |-> n] ELSE None]
  BY DEF Init
<1>2. \A i \in Keys : Exists(i) => rows[i].kind = "self" /\ rows[i].owner = i
  BY <1>1 DEF Exists
<1>3. NamesUnique /\ SampleInv /\ SamplesOnce
  <2>1. \A i, j \in Keys : i # j /\ Exists(i) => rows[i] # rows[j]
    BY <1>2 DEF Exists
  <2> QED
    BY <1>2, <2>1 DEF NamesUnique, SampleInv, SamplesOnce
<1>4. LoadInv /\ SeedInv
  BY DEF Init, Idle, LoadInv, Changing, SeedInv, Seeding, SeededComplete
<1> QED
  BY <1>3, <1>4, TypeInit DEF IInv

LEMMA StepIInv == IInv /\ [Next]_vars => IInv'
  BY TypeStep, LoadStep, NamesStep, SamplesKept, SeedStep DEF IInv

LEMMA Invariance == Spec => []IInv
  BY InitIInv, StepIInv, PTL DEF Spec

\* Every variable keeps its type.
THEOREM TypeCorrect == Spec => []TypeOK
<1>1. IInv => TypeOK
  BY DEF IInv
<1> QED
  BY <1>1, Invariance, PTL

\* context.py:35 and tag.py:32: whatever creates and renames race, no user has
\* two contexts of one type, or two tags, with one name.
THEOREM NamesStayUnique == Spec => []NamesUnique
<1>1. IInv => NamesUnique
  BY DEF IInv
<1> QED
  BY <1>1, Invariance, PTL

\* seed.py:5: runs of the seed leave every sample, and runs that do not overlap
\* leave it once, for any set of samples.
THEOREM SeedingIsIdempotent == Spec => []SeedIdempotent
<1>1. IInv => SeedIdempotent
  BY DEF IInv, SeedInv, SeedIdempotent
<1> QED
  BY <1>1, Invariance, PTL

\* contexts.py:114-145, templates.py:61-77: only its owner, who loaded it, changes or
\* deletes a row, and nobody a Self context or a sample.
THEOREM OnlyOwnersChangeRows == Spec => OwnersOnly
<1> DEFINE Owned ==
      \A i \in Keys :
        Exists(i) /\ rows'[i] # rows[i] =>
            /\ rows[i].kind \notin {"self", "sample"}
            /\ \E r \in Requests : /\ requests[r].pc = "loaded" /\ requests[r].id = i
                                   /\ requests[r].user = rows[i].owner
<1>1. IInv /\ [Next]_vars => [Owned]_vars
  <2> SUFFICES ASSUME IInv, [Next]_vars, NEW i \in Keys, Exists(i), rows'[i] # rows[i]
               PROVE  /\ rows[i].kind \notin {"self", "sample"}
                      /\ \E r \in Requests : /\ requests[r].pc = "loaded" /\ requests[r].id = i
                                             /\ requests[r].user = rows[i].owner
    OBVIOUS
  <2>1. i \notin Fresh
    BY DEF Fresh
  <2>2. PICK r \in Requests : Changing(r) /\ requests[r].id = i
    <3>1. ASSUME NEW j \in Fresh, NEW row \in Row, rows' = [rows EXCEPT ![j] = row] PROVE FALSE
      BY <2>1, <3>1 DEF IInv, TypeOK
    <3>2. ASSUME NEW r \in Requests, SeedCommit(r) PROVE FALSE
      <4>1. PICK id \in [requests[r].missing -> Fresh] :
               \A k \in Keys : (\A n \in requests[r].missing : id[n] # k) => rows'[k] = rows[k]
        BY <3>2, SeededRows DEF IInv
      <4> QED
        BY <2>1, <4>1
    <3>3. ASSUME NEW r \in Requests, NEW row, rows' = [rows EXCEPT ![requests[r].id] = row]
          PROVE  requests[r].id = i
      BY <3>3 DEF IInv, TypeOK
    <3>4. ASSUME NEW r \in Requests, NEW n \in Names,
                 rows' = [rows EXCEPT ![requests[r].id].name = n]
          PROVE  requests[r].id = i
      BY <3>4 DEF IInv, TypeOK
    <3> QED
      BY <3>1, <3>2, <3>3, <3>4, RowsChange
  <2> QED
    BY <2>2 DEF IInv, LoadInv, Changing, Protected
<1>2. Spec => [][Owned]_vars
  BY <1>1, Invariance, PTL DEF Spec
<1> QED
  BY <1>2 DEF OwnersOnly

=============================================================================
