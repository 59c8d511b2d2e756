------------------------------ MODULE OwnedRows ------------------------------
(***************************************************************************)
(* The rows users own by name: contexts, tags and templates                *)
(* (app/services/contexts.py, tags.py, templates.py), together with the    *)
(* Self contexts nobody may touch and the sample templates that the seed   *)
(* script adds (app/db/seed.py).                                           *)
(*                                                                         *)
(* A create is one INSERT, judged by the unique keys alone.  A rename or a *)
(* deletion loads the row, checks whose it is and commits later; nothing   *)
(* is locked in between.  The seed reads the names of the samples and      *)
(* inserts those it misses.  The Self context of a user goes by the user's *)
(* own name here; other rows have ids, free again once a row is gone and   *)
(* no request speaks of it.                                                *)
(***************************************************************************)
EXTENDS Naturals, FiniteSets, Functions

CONSTANTS
    Users, Ids, Names, Requests,
    Samples,   \* names of SAMPLE_TEMPLATES
    None

Kinds == {"self", "team", "tag", "template", "sample"}
UniqueKinds == {"self", "team", "tag"}   \* templates have no unique key
Keys  == Users \cup Ids
Row   == [kind : Kinds, owner : Users \cup {None}, name : Names]

ASSUME RowsAssumption ==
    /\ Samples \subseteq Names
    /\ Users \cap Ids = {}
    /\ None \notin Users \cup Ids \cup Names \cup Row

VARIABLES
    rows,       \* tables contexts, tags and templates
    requests,
    overlapped  \* history: two runs of the seed looked before either wrote

vars == <<rows, requests, overlapped>>

\* name: the new name, None for "as it is"; missing: samples to add.
Request == [op : {"none", "create", "rename", "delete", "seed"},
            pc : {"idle", "loaded", "done", "refused", "conflict", "failed"},
            user : Users \cup {None}, id : Keys \cup {None}, name : Names \cup {None},
            missing : SUBSET Samples]

TypeOK ==
    /\ rows       \in [Keys -> Row \cup {None}]
    /\ requests   \in [Requests -> Request]
    /\ overlapped \in BOOLEAN

Idle == [op |-> "none", pc |-> "idle", user |-> None, id |-> None, name |-> None, missing |-> {}]

\* Users have signed up; the name of their Self context is any.
Init ==
    /\ \E n \in Names :
          rows = [i \in Keys |-> IF i \in Users THEN [kind |-> "self", owner |-> i, name |-> n] ELSE None]
    /\ requests   = [r \in Requests |-> Idle]
    /\ overlapped = FALSE

-----------------------------------------------------------------------------
Exists(i) == rows[i] # None
Fresh == {i \in Ids : ~Exists(i) /\ \A r \in Requests : requests[r].id # i}

Put(r, rec) == requests' = [requests EXCEPT ![r] = rec]
Free(r)     == requests[r].pc # "loaded"
Answer(r, pc) == Put(r, [Idle EXCEPT !.pc = pc])

\* Faulty variant: uq_tags_user_name is missing.
TakenNoTagKey(i, row) ==
    /\ row.kind \in UniqueKinds \ {"tag"}
    /\ \E j \in Keys \ {i} : rows[j] = row

\* Another row has the key (user_id, type, name) or (user_id, name).
Taken(i, row) ==
    /\ row.kind \in UniqueKinds
    /\ \E j \in Keys \ {i} : rows[j] = row

\* create_context, create_tag, create_template.
Create(r, u, k, n) ==
    LET row == [kind |-> k, owner |-> u, name |-> n]
    IN  /\ Free(r)
        /\ \/ /\ k = "self"
              /\ Answer(r, "refused")
              /\ UNCHANGED rows
           \/ \E i \in Fresh :
                /\ k \in {"team", "tag", "template"}
                /\ Answer(r, IF Taken(i, row) THEN "conflict" ELSE "done")
                /\ rows' = IF Taken(i, row) THEN rows ELSE [rows EXCEPT ![i] = row]
        /\ UNCHANGED overlapped

\* Faulty variant: templates are looked up as for reading.
MayReadForWrite(u, i) == rows[i].owner = u \/ rows[i].kind \in {"template", "sample"}

\* The row is the user's own; a sample is found by everyone, to be refused.
MayFind(u, i) == rows[i].owner = u \/ rows[i].kind = "sample"
Protected(i)  == rows[i].kind \in {"self", "sample"}

\* The first half of update_... and delete_...: _get_or_404, _get_owned_or_404
\* and the assignment.  Only a template may be updated without a new name.
Load(r, u, i, op, n) ==
    /\ Free(r)
    /\ Exists(i) /\ MayFind(u, i)
    /\ op \in {"rename", "delete"}
    /\ n = None => op = "delete" \/ rows[i].kind \in {"template", "sample"}
    /\ Put(r, IF Protected(i) THEN [Idle EXCEPT !.pc = "refused"]
              ELSE [Idle EXCEPT !.op = op, !.pc = "loaded", !.user = u, !.id = i,
                       !.name = IF op = "delete" \/ n = rows[i].name THEN None ELSE n])
    /\ UNCHANGED <<rows, overlapped>>

\* A row deleted since is a StaleDataError, or is missed by the refresh.
CommitRename(r) ==
    LET q   == requests[r]
        row == [rows[q.id] EXCEPT !.name = IF q.name = None THEN @ ELSE q.name]
    IN  /\ q.pc = "loaded" /\ q.op = "rename"
        /\ \/ ~Exists(q.id) /\ Answer(r, "failed") /\ UNCHANGED rows
           \/ Exists(q.id) /\ Taken(q.id, row) /\ Answer(r, "conflict") /\ UNCHANGED rows
           \/ /\ Exists(q.id) /\ ~Taken(q.id, row)
              /\ Answer(r, "done")
              /\ rows' = [rows EXCEPT ![q.id] = row]
        /\ UNCHANGED overlapped

\* Faulty variant: the row stays, without its name.
CommitDeleteBlanks(r) ==
    /\ requests[r].pc = "loaded" /\ requests[r].op = "delete"
    /\ Answer(r, "done")
    /\ rows' = IF Exists(requests[r].id) THEN [rows EXCEPT ![requests[r].id].name = None] ELSE rows
    /\ UNCHANGED overlapped

\* Deleted by another request since: the DELETE matches nothing, with a warning.
CommitDelete(r) ==
    /\ requests[r].pc = "loaded" /\ requests[r].op = "delete"
    /\ Answer(r, "done")
    /\ rows' = [rows EXCEPT ![requests[r].id] = None]
    /\ UNCHANGED overlapped

SampleNames == {rows[i].name : i \in {j \in Keys : Exists(j) /\ rows[j].kind = "sample"}}
Seeding(r)  == requests[r].op = "seed" /\ requests[r].pc = "loaded"

\* Faulty variant: the names of all templates are read, not of the samples.
SeedLoadAll(r) ==
    LET names == {rows[i].name : i \in {j \in Keys : Exists(j) /\ rows[j].kind \in {"sample", "template"}}}
    IN  /\ Free(r)
        /\ Put(r, [Idle EXCEPT !.op = "seed", !.pc = "loaded", !.missing = Samples \ names])
        /\ overlapped' = (overlapped \/ \E q \in Requests : Seeding(q))
        /\ UNCHANGED rows

\* _seed_templates, the names that exist.  (A run whose administrator cannot be
\* added, because the name "admin" is taken, raises before it gets here.)
SeedLoad(r) ==
    /\ Free(r)
    /\ Put(r, [Idle EXCEPT !.op = "seed", !.pc = "loaded", !.missing = Samples \ SampleNames])
    /\ overlapped' = (overlapped \/ \E q \in Requests : Seeding(q))
    /\ UNCHANGED rows

\* ... and the missing ones, in one transaction.
SeedCommit(r) ==
    /\ Seeding(r)
    /\ \E id \in Injection(requests[r].missing, Fresh) :
          rows' = [i \in Keys |-> IF i \in Range(id)
                                  THEN [kind |-> "sample", owner |-> None, name |-> AntiFunction(id)[i]]
                                  ELSE rows[i]]
    /\ Put(r, [Idle EXCEPT !.op = "seed", !.pc = "done"])
    /\ UNCHANGED overlapped

\* An exception or the death of the process before the commit.
Fail(r) ==
    /\ requests[r].pc = "loaded"
    /\ Answer(r, "failed")
    /\ UNCHANGED <<rows, overlapped>>

Next ==
    \E r \in Requests :
        \/ \E u \in Users, k \in Kinds \ {"sample"}, n \in Names : Create(r, u, k, n)
        \/ \E u \in Users, i \in Keys, op \in {"rename", "delete"}, n \in Names \cup {None} :
              Load(r, u, i, op, n)
        \/ CommitRename(r) \/ CommitDelete(r)
        \/ SeedLoad(r) \/ SeedCommit(r)
        \/ Fail(r)

Spec == Init /\ [][Next]_vars

-----------------------------------------------------------------------------
(* Properties.                                                             *)

\* context.py:35, tag.py:32: no user ever has two contexts of one type, or two
\* tags, of the same name, however creates and renames race.
NamesUnique ==
    \A i, j \in Keys :
        i # j /\ Exists(i) /\ rows[i].kind \in UniqueKinds => rows[i] # rows[j]

\* contexts.py:5, templates.py:10-11: a row changes or goes only for a request of
\* its owner that loaded it; Self contexts and samples stay as they are, whoever
\* asks and whatever happened between the check and the commit.
OwnersOnly ==
    [][\A i \in Keys :
        Exists(i) /\ rows'[i] # rows[i] =>
            /\ rows[i].kind \notin {"self", "sample"}
            /\ \E r \in Requests : /\ requests[r].pc = "loaded" /\ requests[r].id = i
                                   /\ requests[r].user = rows[i].owner]_vars

\* seed.py:200: once a run of the seed has ended well, every sample is there,
\* even where users have templates of the same names.
SeededComplete ==
    \A r \in Requests :
        requests[r].op = "seed" /\ requests[r].pc = "done" => Samples \subseteq SampleNames

\* seed.py:5, "Idempotent ... no duplicates": runs one after the other, any
\* number of them, failed ones included, leave one sample of each name.
SamplesOnce ==
    ~overlapped => \A i, j \in Keys :
        i # j /\ Exists(i) /\ rows[i].kind = "sample" => rows[i] # rows[j]

\* What the seed promises of the samples: all are there, and none twice.
SeedIdempotent == SeededComplete /\ SamplesOnce

=============================================================================
