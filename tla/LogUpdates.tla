------------------------------ MODULE LogUpdates ------------------------------
(***************************************************************************)
(* The dates and the tags of one user's log entries (app/services/logs.py) *)
(* under concurrent requests, with tags and contexts deleted under them    *)
(* (app/services/tags.py, app/services/contexts.py).                       *)
(*                                                                         *)
(* A handler loads the entry with its tags, checks the dates it would have *)
(* then, looks up the tags it was given and commits.  Nothing is locked in *)
(* between.  The commit sends what differs from what was loaded: the       *)
(* changed columns, a DELETE of the links no longer wanted, an INSERT of   *)
(* the new ones.  What the database refuses undoes all of it.              *)
(*                                                                         *)
(* Content, status and index are EmbeddingPipeline's; date_type is any     *)
(* value of its enum, whatever the dates, and is left out.                 *)
(***************************************************************************)
EXTENDS Naturals, FiniteSets, Sequences, Functions

CONSTANTS
    Logs, Tags, Contexts, Requests,
    Self,      \* the context that cannot be deleted
    Dates,     \* calendar days
    TagLists,  \* what "tag_ids" may hold: sequences of tags, repeated ones too
    None       \* absent, "not given"

ASSUME UpdatesAssumption ==
    /\ Self \in Contexts
    /\ Dates \subseteq Nat
    /\ TagLists \subseteq Seq(Tags)
    /\ None \notin Nat \cup TagLists \cup Logs \cup Contexts

VARIABLES
    rows,      \* table log_entries
    links,     \* table log_entry_tags
    tags,      \* rows of table tags
    contexts,  \* rows of table contexts
    requests

vars == <<rows, links, tags, contexts, requests>>

Absent == [phase |-> "absent", ctx |-> None, start |-> None, end |-> None]
Row    == {Absent} \cup [phase : {"live", "deleted", "purged"}, ctx : Contexts,
                          start : Dates, end : Dates]

\* start, end: the columns to write; ids: the tags still to be looked up; want:
\* the tags to leave, None for "as they are"; seen: those the entry was loaded with.
Request == [op : {"none", "create", "update", "delete"},
            pc : {"idle", "resolve", "commit", "done", "failed"},
            log : Logs \cup {None}, ctx : Contexts \cup {None},
            start : Dates \cup {None}, end : Dates \cup {None},
            ids : TagLists \cup {None},
            want : (SUBSET Tags) \cup {None}, seen : SUBSET Tags]

TypeOK ==
    /\ rows     \in [Logs -> Row]
    /\ links    \in SUBSET (Logs \X Tags)
    /\ tags     \in SUBSET Tags
    /\ contexts \in SUBSET Contexts
    /\ requests \in [Requests -> Request]

Idle   == [op |-> "none", pc |-> "idle", log |-> None, ctx |-> None, start |-> None,
           end |-> None, ids |-> None, want |-> None, seen |-> {}]

Init ==
    /\ rows     = [l \in Logs |-> Absent]
    /\ links    = {}
    /\ tags     = Tags
    /\ contexts = Contexts
    /\ requests = [r \in Requests |-> Idle]

-----------------------------------------------------------------------------
Live(l)    == rows[l].phase = "live"
Present(l) == rows[l].phase \in {"live", "deleted"}
TagsOf(l)  == {t \in Tags : <<l, t>> \in links}

Put(r, rec)   == requests' = [requests EXCEPT ![r] = rec]
Answer(r, pc) == Put(r, [Idle EXCEPT !.pc = pc])

\* Requests are named by who sends them, one after the other.
Free(r) == requests[r].pc \in {"idle", "done", "failed"}

\* _resolve_tags asks the database only when there are tags to look up.
WithTags(rec, ids, seen) ==
    CASE ids = None -> [rec EXCEPT !.pc = "commit"]
      [] ids = <<>> -> [rec EXCEPT !.pc = "commit", !.want = {}, !.seen = seen]
      [] OTHER      -> [rec EXCEPT !.pc = "resolve", !.ids = ids, !.seen = seen]

\* create_log up to its look at the context; the schema has checked the dates.
CreateLog(r, l, c, start, end, ids) ==
    LET rec == [Idle EXCEPT !.op = "create", !.log = l, !.ctx = c, !.start = start, !.end = end]
    IN  /\ Free(r)
        /\ c \in contexts
        /\ rows[l].phase = "absent"
        /\ \A q \in Requests : requests[q].log # l   \* its id is a fresh UUID
        /\ start <= end
        /\ Put(r, WithTags(rec, ids, {}))
        /\ UNCHANGED <<rows, links, tags, contexts>>

\* The dates the entry has in the handler's session after the assignments, and
\* what of them the ORM will write: only what differs from the loaded row.
Or(given, loaded)   == IF given = None THEN loaded ELSE given
Diff(given, loaded) == IF given = loaded THEN None ELSE given

\* update_log up to its range check; assign_tags is the case of no dates.
LoadUpdate(r, l, start, end, ids) ==
    LET rec == [Idle EXCEPT !.op = "update", !.log = l, !.start = Diff(start, rows[l].start),
                            !.end = Diff(end, rows[l].end)]
    IN  /\ Free(r)
        /\ Live(l)
        /\ start # None /\ end # None => start <= end
        /\ Put(r, IF Or(end, rows[l].end) < Or(start, rows[l].start)
                  THEN [Idle EXCEPT !.pc = "failed"]
                  ELSE WithTags(rec, ids, TagsOf(l)))
        /\ UNCHANGED <<rows, links, tags, contexts>>

LoadDelete(r, l) ==
    /\ Free(r)
    /\ Live(l)
    /\ Put(r, [Idle EXCEPT !.op = "delete", !.pc = "commit", !.log = l])
    /\ UNCHANGED <<rows, links, tags, contexts>>

\* A tag that is not there, or is named twice, makes the counts differ.
Resolve(r) ==
    LET ids == requests[r].ids
    IN  /\ requests[r].pc = "resolve"
        /\ IF Cardinality(Range(ids) \cap tags) # Len(ids) THEN Answer(r, "failed")
           ELSE Put(r, [requests[r] EXCEPT !.pc = "commit", !.ids = None, !.want = Range(ids)])
        /\ UNCHANGED <<rows, links, tags, contexts>>

-----------------------------------------------------------------------------
(* The commit.                                                             *)

Added(r)   == IF requests[r].want = None THEN {} ELSE requests[r].want \ requests[r].seen
Removed(r) == IF requests[r].want = None THEN {} ELSE requests[r].seen \ requests[r].want

Pairs(l, T) == {<<l, t>> : t \in T}

\* Faulty variant: the UPDATE carries the whole row as loaded, is_deleted included.
WrittenWhole(r) ==
    LET q == requests[r]
    IN  [phase |-> IF q.op = "delete" THEN "deleted" ELSE "live",
         ctx   |-> Or(q.ctx, rows[q.log].ctx),
         start |-> Or(q.start, rows[q.log].start), end |-> Or(q.end, rows[q.log].end)]

Written(r) ==
    LET q   == requests[r]
        row == rows[q.log]
    IN  [phase |-> CASE q.op = "create" -> "live" [] q.op = "delete" -> "deleted" [] OTHER -> row.phase,
         ctx   |-> Or(q.ctx, row.ctx), start |-> Or(q.start, row.start), end |-> Or(q.end, row.end)]

\* Faulty variant: the table has no ck_log_entries_date_range.
AcceptedUnchecked(r) ==
    LET q == requests[r]
    IN  /\ IF q.op = "create" THEN q.ctx \in contexts ELSE Present(q.log)
        /\ Added(r) \subseteq tags
        /\ Pairs(q.log, Added(r)) \cap links = {}

\* What the database accepts: the context of a new entry exists, the entry to
\* change was not purged (StaleDataError, or a refresh that finds nothing), the
\* CHECK on the dates holds, new links have their tag and are not there yet.
Accepted(r) ==
    LET q == requests[r]
    IN  /\ IF q.op = "create" THEN q.ctx \in contexts ELSE Present(q.log)
        /\ Written(r).start <= Written(r).end
        /\ Added(r) \subseteq tags
        /\ Pairs(q.log, Added(r)) \cap links = {}

\* Faulty variant: tags are added, never removed.
CommitAddsOnly(r) ==
    LET q == requests[r]
    IN  /\ q.pc = "commit"
        /\ Accepted(r)
        /\ rows'  = [rows EXCEPT ![q.log] = Written(r)]
        /\ links' = links \cup Pairs(q.log, Added(r))
        /\ Answer(r, "done")
        /\ UNCHANGED <<tags, contexts>>

\* A link to delete that is gone already is no error.
Commit(r) ==
    LET q == requests[r]
    IN  /\ q.pc = "commit"
        /\ Accepted(r)
        /\ rows'  = [rows EXCEPT ![q.log] = Written(r)]
        /\ links' = (links \ Pairs(q.log, Removed(r))) \cup Pairs(q.log, Added(r))
        /\ Answer(r, "done")
        /\ UNCHANGED <<tags, contexts>>

\* The database refuses, or the request dies: the transaction is rolled back.
Fail(r) ==
    /\ requests[r].pc \in {"resolve", "commit"}
    /\ Answer(r, "failed")
    /\ UNCHANGED <<rows, links, tags, contexts>>

\* delete_tag: its links go with it, the entries stay.
DeleteTag(r, t) ==
    /\ Free(r)
    /\ t \in tags
    /\ tags'  = tags \ {t}
    /\ links' = {link \in links : link[2] # t}
    /\ Answer(r, "done")
    /\ UNCHANGED <<rows, contexts>>

\* Faulty variant: the foreign key of an entry is ON DELETE SET NULL.
DeleteContextSetsNull(r, c) ==
    /\ Free(r)
    /\ c \in contexts \ {Self}
    /\ contexts' = contexts \ {c}
    /\ rows' = [l \in Logs |-> IF Present(l) /\ rows[l].ctx = c THEN [rows[l] EXCEPT !.ctx = None] ELSE rows[l]]
    /\ Answer(r, "done")
    /\ UNCHANGED <<tags, links>>

\* delete_context: its entries go with it, and their links.
DeleteContext(r, c) ==
    LET gone == {l \in Logs : Present(l) /\ rows[l].ctx = c}
    IN  /\ Free(r)
        /\ c \in contexts \ {Self}
        /\ contexts' = contexts \ {c}
        /\ rows'  = [l \in Logs |-> IF l \in gone THEN [rows[l] EXCEPT !.phase = "purged"] ELSE rows[l]]
        /\ links' = {link \in links : link[1] \notin gone}
        /\ Answer(r, "done")
        /\ UNCHANGED tags

Next ==
    \E r \in Requests :
        \/ \E l \in Logs, c \in Contexts, s, e \in Dates, ids \in TagLists :
              CreateLog(r, l, c, s, e, ids)
        \/ \E l \in Logs, s, e \in Dates \cup {None}, ids \in TagLists \cup {None} :
              LoadUpdate(r, l, s, e, ids)
        \/ \E l \in Logs : LoadDelete(r, l)
        \/ Resolve(r) \/ Commit(r) \/ Fail(r)
        \/ \E t \in Tags : DeleteTag(r, t)
        \/ \E c \in Contexts : DeleteContext(r, c)

Spec == Init /\ [][Next]_vars

-----------------------------------------------------------------------------
(* Properties.                                                             *)

\* logs.py:281, "date_end must be >= date_start": two updates that each passed
\* the check on the row they loaded, one moving the start and one the end, never
\* commit a range that ends before it starts.
RangeHolds ==
    \A l \in Logs : Present(l) => rows[l].start <= rows[l].end

\* log_entry_tag.py:5, a link joins an entry and a tag that exist, however tags
\* and contexts are deleted between the look at a tag and the insert of its link.
LinksExist ==
    \A link \in links : Present(link[1]) /\ link[2] \in tags

\* What the checks of the handlers leave to the database holds after every race.
TablesConsistent == RangeHolds /\ LinksExist

\* schemas/logs.py:52, "only provided fields are changed": a step changes a
\* field of an entry, or its tags, only for a request that asked for just that
\* change and is answered in this step; a deletion is undone by none.
OnlyAskedFieldsChange ==
    [][\A l \in Logs : Present(l) =>
        LET by(ask(_)) == \E r \in Requests :
                /\ requests[r].log = l /\ requests'[r].pc = "done" /\ ask(requests[r])
        IN  /\ rows'[l].start # rows[l].start => by(LAMBDA q : q.start = rows'[l].start)
            /\ rows'[l].end # rows[l].end     => by(LAMBDA q : q.end = rows'[l].end)
            /\ rows'[l].phase # rows[l].phase => \/ by(LAMBDA q : q.op = "delete")
                                                 \/ rows'[l].phase = "purged"
            /\ \A t \in tags' : <<l, t>> \in links \ links' =>
                  rows'[l].phase = "purged"
                    \/ by(LAMBDA q : q.want # None /\ t \in q.seen \ q.want)
            /\ \A t \in tags' : <<l, t>> \in links' \ links =>
                  by(LAMBDA q : q.want # None /\ t \in q.want)]_vars

\* logs.py:319, "Replace the full set of tags": an answered replacement leaves
\* the tags it was given, up to those that others added or removed since its load.
ReplacedUpToRaces ==
    [][\A r \in Requests :
        LET q   == requests[r]
            now == {t \in Tags : <<q.log, t>> \in links'}
        IN  /\ q.pc = "commit" /\ q.op = "update" /\ q.want # None
            /\ requests'[r].pc = "done"
            => /\ now \ q.want \subseteq TagsOf(q.log) \ q.seen
               /\ q.want \ now \subseteq q.seen \ TagsOf(q.log)]_vars

=============================================================================
