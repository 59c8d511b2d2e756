# Verification of the MyLogMate API

TLA+ modules, TLC runs and TLAPS proofs for the back end in `app/`: a FastAPI
service on PostgreSQL, with Celery workers that keep a Qdrant vector index, and
an LLM behind "recall" queries. `PROJECT.json` lists the components, the runs,
the mutants that show each property can fail, the source lines behind every
definition, the findings, the hazards and the theorems.

Run from this directory: `tlc -config PipelineSafety.cfg MCEmbeddingPipeline`
checks a run, `tlapm EmbeddingPipelineProofs.tla` checks proofs.

## 1. Inventory

| component | state | operations | what makes it correct |
|---|---|---|---|
| log entries (`services/logs.py`) | `log_entries`, `log_entry_tags` | create, update, soft delete, assign tags, list, calendar | an entry is indexed under its current content while it can be seen; its dates are a range; its tags are the ones asked for |
| contexts (`services/contexts.py`) | `contexts` | create, rename, delete with cascades | one Self context per user, never deleted; nothing dangles after a deletion |
| embedding pipeline (`workers/`) | broker queues, Qdrant points, `embedding_status` | `embed_log_entry`, `delete_log_embedding`, retries, redelivery | every task ends; status and index agree; no seen entry loses its point |
| vector store client (`ai/qdrant_store.py`) | collection, a module-level client | upsert, delete, search | one point per entry, found only by its owner |
| recall (`services/recall.py`, `ai/rag_pipeline.py`) | `chat_sessions`, `chat_messages`, `ai_query_logs` | query, list, read and delete sessions | daily quota; question, answer and audit row together |
| authentication (`services/auth.py`, `core/security.py`) | `users` | signup, login, Google, refresh, logout, reset, profile | a revoked session stays revoked; identities are unique; every account has its Self context |
| admin (`services/admin.py`) | `users.is_active`, `feedback.is_read` | dashboard, list, toggle, mark read | a toggle has its effect; figures add up |
| tags, templates | a table each | create, rename, delete | names unique per owner, samples read-only |
| feedback (`services/feedback.py`) | `feedback` | submit, list, mark read | an item is seen by whoever reads the list to its end |
| seed (`db/seed.py`) | none of its own | administrator, sample templates | idempotent, whatever failed before |
| shell (`main.py`), rate limiter | the collection's set-up, slowapi's counters | start, stop, limit | a process that serves finds a whole collection |
| LLM adapters, email task | none | ask, send | errors mapped, a mail retried |

How they interact. A request runs in one asyncio process (`--workers 1`) with one
database session; between its statements other requests run. The service commits
first and hands a Celery task to the broker afterwards (`dispatch`). Two worker
processes (`Dockerfile.worker`, `--concurrency=2`) take tasks, load the row, call
the embedding model and Qdrant, and write the status back in a session of their
own. Database, broker and index share no transaction.

What is hard here:

* **Stale rows.** A handler loads an ORM object, awaits, and commits. Nothing
  locks the row in between; the `UPDATE` finds it by primary key and carries only
  the columns that *differ from the loaded ones*.
* **Two stores.** A row and its vector are changed by different processes in any
  order, with at-least-once delivery (`acks_late`, redelivery after a crash).
* **Check, wait, act.** The recall quota is read before a call of many seconds to
  the LLM and used up after it; the refresh token is compared at the load and
  overwritten at the commit.
* **Checks that decide nothing.** Names, e-mails and dates are checked by a read
  that locks nothing; the unique keys, the `CHECK` and the foreign keys decide, and
  what a handler makes of their refusal depends on the statement it comes from.
* **Reports from several statements.** Under READ COMMITTED the figures of one
  dashboard, and the pages of one list, each see another state.
* **Whole seconds.** Refresh tokens carry no unique claim, only times in seconds.
* **Failures half-way.** A process dies between commit and dispatch, a worker
  between upsert and mark, an LLM call raises after the question was flushed.

## 2. Modules

| module | models | built on |
|---|---|---|
| `EntryLifecycle` | what indexing promises of an entry (abstract) | |
| `VectorIndex` | what may be in the index, and when (abstract) | |
| `EmbeddingPipeline` | requests that change entries, broker, workers, index | refines `EntryLifecycle` and `VectorIndex` |
| `RecallRetrieval` | set-up of the collection; search, read and answer of a query | composed with `VectorIndex`, whose actions it takes |
| `RecallHistory` | what recall promises its user (abstract) | |
| `RecallQuota` | recall queries of one user, deletions under them | refines `RecallHistory` |
| `RefreshTokens` | the session of one account | |
| `AccountRegistry` | what accounts, keys and Self contexts promise (abstract) | |
| `Accounts` | signup, Google sign-in, profile changes, seeded administrator | refines `AccountRegistry` |
| `LogUpdates` | dates and tags of entries, tags and contexts deleted under them | |
| `OwnedRows` | contexts, tags, templates; the seed's samples | |
| `Administration` | dashboard, lists, toggles, feedback | |
| `MC...` | symmetry sets and small constants for TLC | one per module |
| `...Proofs` | theorems, for all values of the constants | `TLAPS` |

`EmbeddingPipeline`, `RecallQuota`, `RefreshTokens` and `LogUpdates` describe one
user or account: the services filter every query by user id, and no operation of
one user touches rows of another, except the administrator's toggle, which
`RefreshTokens` includes. Where users do meet - unique keys of `users`, one
collection for all, samples everybody finds, lists of administrators - the module
has several: `Accounts`, `RecallRetrieval`, `OwnedRows`, `Administration`.

Definitions named after a fault (`MarkFirst`, `OpenCommitsQuestion`, ...) and headed
"Faulty variant" are not part of any specification. Each replaces one action or
operator in a mutation test of one property.

### EmbeddingPipeline

State: `rows` (table `log_entries`: phase, context, status, and as `content` the
request that wrote it), `points` (per entry the content its vector was computed
from, `None` for no point), `contexts`, `requests` (API side), `queue` (how many
copies of each message wait), `workers`. `lost` and `exhausted` are history: tasks
a delivery of which was dropped unfinished, and which of them had no retry left.

| action | code |
|---|---|
| `CreateLog` | `create_log` up to its commit |
| `LoadLog`, `CommitUpdate`, `CommitDelete` | `_get_or_404`, then the commit of `update_log` with new content, or of `delete_log` |
| `RowGone` | `StaleDataError` or a failing `refresh`: the context was deleted in between |
| `DeleteContext` | `delete_context` with its cascade; no task is dispatched |
| `Dispatch`, `DispatchFails` | `dispatch` after the commit; the broker refuses or the process dies |
| `Take`, `Load`, `Upsert`, `Mark`, `Ack` | `embed_log_entry`: select with `is_deleted = false`, embed and upsert, select by id and mark, acknowledge late |
| `RemovePoint` | `delete_log_embedding` |
| `Retry`, `GiveUp`, `Drop`, `Crash` | `self.retry`, the last attempt, the hard time limit, the death of a worker process |

Choices worth knowing. `CommitUpdate` writes the status only if the loaded one was
not `pending` (ORM diff). `create_log`'s ownership check and its insert are one
step: a context that goes in between fails the insert. `GiveUp` does not set
`failed`: `self.retry(exc=...)` raises that exception, not
`MaxRetriesExceededError`. The queue is a bag without order (two queues, two
consumers, prefetch 1). Redelivery after the visibility timeout looks like
`Crash`. The eager mode (`CELERY_TASK_ALWAYS_EAGER`) is the case of one worker per
request and adds no behaviour. A Qdrant call that takes effect after its client
timed out is not modelled. Updates that leave the content alone dispatch nothing and change
neither status nor index: they are in `LogUpdates`.

### VectorIndex

What a reader of the index can count on: an entry gets a point only after a worker
has seen it live (`LoadEntry`, then `Upsert`, any number of times and as late as
may be), and loses it only when it is deleted or gone with its context
(`Unindex`), or never. Two modules meet here. `EmbeddingPipeline` implements it
(`ImplementsIndex`): `rows` without status and content, `inflight` what its
workers hold loaded, `points` the entries that have one. `RecallRetrieval` has the
same variables and takes its actions, so what it shows of a query rests only on
what the pipeline is proved to provide.

### RecallQuota and RecallHistory

State: `day`, `contexts`, `sessions`, `messages` and `audit` (the committed rows),
`requests` (how far each query got), `hits` (slowapi's counter per address). A new
session bears the name of the request that creates it.

| action | code |
|---|---|
| `Admit` | the limiter, authentication, `_assert_context_owned` |
| `Count` | `_count_queries_today` and the comparison with the limit |
| `Open` | `_get_or_create_session` and the flush of the question |
| `Answer` | `run_recall_query`: embed, search, read the entries, ask the LLM |
| `Commit` | answer, audit row, commit |
| `Rollback` | an exception anywhere, or the death of the process |
| `DeleteContext`, `DeleteSession` | the two deletions that can meet a query |
| `ResetWindow`, `Midnight` | slowapi's window of an address, and the day (UTC) |

A query holds its connection from the first statement to the end of its
transaction, so at most `PoolSize` (5 + 10) are under way. Rows it has inserted
and not committed are seen by nobody, but their foreign keys hold `FOR KEY SHARE`
on their parents (`LockedContexts`, `LockedSessions`): a deletion of a parent
waits. The audit row is dated when it is inserted, at the commit. slowapi's window
starts with the first hit and its counters are in memory, so `ResetWindow` may
happen at any time.

`PoolSize` is what one process holds (`--workers 1`). Where one API process replaces
another, the day's bound is that of both pools together, and an address that meets
both counters is two of the model: `OverrunIsBounded` is proved for any `PoolSize`
and any addresses.

`RecallHistory` has no requests under way: `Record` writes a query's question,
answer, session and audit row in one step, or continues a session that is there.
`home`, the session of a query, is read off the requests (`Home`), and its
`MostPerDay` is `Limit + PoolSize - 1`: atomic up to that overrun.

### RefreshTokens

State: `hash` (the stored token, `None` for NULL), `active`, `provider`, `now`,
`requests` (what each loaded and made), `issued` and `resets` (tokens that
clients hold). A token is named by its second of issue. History: `spent`
(replaced tokens), `fence` (when the last revocation that no issue overlapped
committed), `clean` (such revocations under way).

`Login`, `Google`, `Refresh`, `Logout`, `UpdatePassword`, `ResetPassword` and
`Toggle` are the load and the checks of the handlers; `Build` makes the tokens;
`CommitIssue`, `CommitRevoke` and `CommitToggle` are the commits; `Store` is the
ORM's diff. Requests with a wrong password end without a change and are left out.
`Abort` is an exception or the death of the process before the commit.

### Accounts and AccountRegistry

State: `users` (committed rows by account; an account bears the name of the request
that creates it), `selves` (accounts with a committed Self context), `requests`
(how far each got, the keys it sets, the columns its statement writes, the keys it
has already put into their index, a flushed Self context).

| action | code |
|---|---|
| `Signup` | the check of `signup` for username or e-mail; two rows that match are one too many for `scalar_one_or_none` |
| `Google`, `FindEmail`, `PickName` | `google_auth`: by identity, then by e-mail (links), then `_unique_username` and a new account |
| `UpdateProfile`, `CheckName`, `CheckEmail` | `update_profile`; what does not differ is not written |
| `SeedAdmin` | `_seed_admin` |
| `LockRow`, `ClaimKey` | the row lock of an `UPDATE`, then the new keys in the order of the indexes; a key written by an open transaction makes the writer wait, a committed one is an `IntegrityError` |
| `CreateSelf`, `Commit`, `Abort` | `_create_self_context` and its flush, the commit, an exception or death before it |

Reads are READ COMMITTED and lock nothing. Only the commit stands in a `try` that
makes a conflict of an `IntegrityError`: a new account's keys are written at the
flush before it, so a lost race is answered 500 (`failed`), a profile change's 409.
Sessions have autoflush off, so all changed columns go in one statement; the order
email, google, username is that in which the migration creates the indexes.
Commit and answer are one step: a death between them leaves the same tables.
`AccountRegistry` has no requests: accounts appear with all their keys, keys are
never shared, a Self context appears with its account.

### LogUpdates

State: `rows` (phase, context, dates), `links`, `tags`, `contexts`, `requests`.
`LoadUpdate` is `update_log` up to the range check on the row as loaded
(`assign_tags` is the case without dates), `CreateLog` and `LoadDelete` the same of
`create_log` and `delete_log`; `Resolve` is `_resolve_tags`; `Commit` writes what
differs from the loaded row and tag set, if the database accepts it (`Accepted`: the
row is there, its `CHECK`, the keys of the links); `Fail` is a refusal, an
exception or a death. `DeleteTag` and `DeleteContext` cascade. The load of an entry
and of its tags are one step, and so are flush and commit: the second statement of
each pair follows at once, and a change in between acts like one just before or
after. `date_type` takes part in no check and is left out.

### OwnedRows

State: `rows` by id (kind, owner, name), `requests`, and as history `overlapped`
(two runs of the seed were under way together). `Create` is one `INSERT` judged by
the unique keys; `Load`, `CommitRename` and `CommitDelete` are the handlers' check
of owner and protection and their later commit by id; `SeedLoad` and `SeedCommit`
are `_seed_templates`; `Fail` ends any of them. Ids are used again once a row is
gone and no request names it, as in a table that has seen many rows.

### RecallRetrieval

State: `apis` (how far each API process got with `ensure_collection`),
`collection` (the vectors and the two payload indices that exist), `contexts`,
`rows`, `inflight`, `points`, `queries`. `Start` to `SetUpFails` are the lifespan of
`main.py`, one call to Qdrant each; `Crash` takes the queries of its process along.
`CreateLog`, `DeleteLog`, `DeleteContext` and `Work` are the steps of `VectorIndex`
under the conditions of this side: some API process serves, an upsert needs the
collection. `Ask`, `Search`, `Read`, `Answer`, `QueryFails` are the route and
`run_recall_query`; the ranking of the hits is left open (`Nearest`). A Self context
is not told from others: that one may be deleted here only adds behaviours.

### Administration

State: `clock`, `users` (created, last login, active), `joined` and `feedback` (the
ids by `created_at`), `unread`, `requests` (toggles), `report` (the dashboard or
list being read). `BeginToggle`, `LoadToggle`, `CommitToggle` are the guard of the
route, the load and the commit of `toggle_user_active`. `OpenDashboard`,
`ReadFigure`, `ReadSeries` are `get_dashboard`, statement by statement: total, active
in a week, in a month, signups of the period, the chart from midnight on.
`BeginList` and `ReadPage` are a client that reads a list by its pages until one is
short. A list is what is in it (`Items`) in an order (`Sorted`); a page is the items
whose place from the newest falls into its window (`Place`, `Window`). Rows of one
`created_at` keep one order here; PostgreSQL promises none for them (admin.py:229,
382), but its timestamps have microseconds, and a tick is a coarse name for many. An
account may appear behind newer ones, as its time is taken before its commit. One
report at a time suffices, as reports change nothing. Figures on AI queries and log entries are counted by the same statements as those on users. A
sign-in is one step here (`RefreshTokens` and `Accounts` take it apart), days are UTC
for Python and for `func.date` alike, as the containers are configured.

## 3. Runs

| run | instance | shows |
|---|---|---|
| `pipeline_safety` | 1 entry, 3 requests, 2 workers, 1 retry, 2 faults | `EmbeddedHasPoint`, `PendingHasTask`, and the refinements `ImplementsLifecycle`, `ImplementsIndex` |
| `pipeline_one_worker` | the same with 1 worker | with a single worker the index converges: `EditsReembedded`, `DeletedHasNoPoint` |
| `pipeline_liveness` | 1 entry, 2 requests, 2 workers, fair | `PendingResolved`, `TasksDrain` |
| `recall_quota` | 4 queries, 2 contexts, 2 addresses, limit 2, pool 2, 2 days | `OverrunBounded`, `HistoryMatchesAudit`, `SessionsAreWhole`, and the refinement `ImplementsHistory` |
| `recall_retrieval` | 2 entries, 3 contexts of 2 users, 1 query, 2 API processes, top 1, 1 fault | `DeletedNeverCited`, `CitedAsAsked`, `MissedOnlyWhenFull`, `IndicesAfterStart` |
| `refresh_tokens` | 3 requests, 4 seconds, lives 2/1/1 | `RevocationHolds`, `SpentStaysSpent` |
| `accounts` | 3 requests, 2 usernames, e-mails and identities | `SelfWithAccount`, `OneAccountPerIdentity`, `RefusedLeavesNoTrace`, `NoCircularWait`, and `ImplementsRegistry` |
| `log_updates` | 1 entry, 2 tags, 2 contexts, 2 clients, 2 days | `TablesConsistent`, `OnlyAskedFieldsChange`, `ReplacedUpToRaces` |
| `owned_rows` | 2 users, 3 ids, 2 names, 1 sample, 2 clients | `NamesUnique`, `OwnersOnly`, `SeedIdempotent` |
| `administration` | 2 administrators, 1 user, 2 items, 2 toggles, pages of 1, days of 2 ticks, week 1 and month 2 days, 2 writes | `FiguresAgree`, `NothingSkipped`, `LockoutNeedsRace` |

One run of each module checks its `TypeOK` too. Runs that end in a
counterexample, each against a sentence of the repository:

| run | the sentence | what happens |
|---|---|---|
| `pipeline_stale_edit` | PRD.md:165, edited entries are re-embedded | the create task's upsert lands after the edit task's |
| `recall_overrun` | PRD.md:182, 50 queries a day | two queries pass the check together |

### Other disagreements

Four more are stated as properties and fail when put into a cfg, but have no run of
their own:

* `EmbeddingPipeline!ExhaustedIsFailed` (embedding_tasks.py:138, sets 'failed'): the
  branch is never entered, the entry stays pending.
* `EmbeddingPipeline!EditResetsStatus` (DB_DESIGN.md:262, reset to pending on edit):
  the ORM leaves the unchanged column out and the old task's mark stays.
* `RefreshTokens!OldTokenInvalidated` (ARCHITECTURE.md:335): a token refreshed within
  its second is the same token.
* `RefreshTokens!RefreshReplacesItsToken` (auth.py:283, prevents replay of revoked
  tokens): a logout commits between check and commit of a refresh.

Others are visible in the actions:

* `DeleteContext` dispatches no cleanup although contexts.py:140 says so (the TODO at
  line 152 admits it): its points stay, and take places among the hits of a search.
  So do those of deleted entries until their task has run. `MissedOnlyWhenFull` says
  how much is lost to them. `DeletedHasNoPoint` fails with two workers as
  `EditsReembedded` does: an upsert after the delete task.
* `ResetPassword` may be repeated with the token security.py:125 calls one-time.
* templates.py:117 and 147 catch a conflict no unique key ever raises.
* Runs of the seed that overlap duplicate the samples (seed.py:5 says idempotent);
  a run whose administrator cannot be added raises before it adds any template; and
  the administrator it adds has no Self context, the state deps.py:119 excludes.
* Two simultaneous replacements of a tag set leave a mixture (logs.py:319): each
  writes the difference to what it loaded. `ReplacedUpToRaces` is what remains true.
* A daily entry's end is not held to its start (log_entry.py:107), and a tag's use
  count includes soft-deleted entries (tags.py:54).
* The dates in a prompt come from the point, which an update of dates alone does not
  write again (rag_pipeline.py:106, logs.py:293).
* A crash, or a failed call, between the three calls of `ensure_collection` leaves a
  collection that lacks an index for good (qdrant_store.py:80-87): `IndicesAfterStart`
  is claimed without faults only.
* Profile changes and links can deadlock, and PostgreSQL then breaks one off with an
  error that is no `IntegrityError`, so 500 (auth.py:403, here `Abort`). Three
  requests do: a signup has checked its keys and written its e-mail; another account
  with its username is committed; a profile change of that account takes the signup's
  e-mail. Each waits for the other. The run `accounts` reaches such states, and
  `NoCircularWait` says that there is no other kind.
* Two administrators let in together can deactivate each other
  (`LockoutNeedsRace`), and a reader of unread feedback skips items when some are
  marked as read meanwhile (`NothingSkipped`).

**Bounds, and why they are enough.** Entries do not influence one another, except
that a context takes all of its own: one entry shows every interleaving, and the
proofs cover any number. Three requests are create, edit and delete (or deletion
of the context) of it, and also two edits in a race; two workers are what the
Dockerfile starts. `MaxRetries = 1` has a first, a repeated and a last attempt;
`MaxFaults` (2) bounds crashes, errors and refused dispatches together. For recall,
four queries exceed a limit of 2 and a pool of 2 at the bound that is claimed
(`Limit + PoolSize - 1`), two addresses get round the address limit, `MaxDay = 1`
has one midnight. For tokens, three requests are a sign-in and two that race;
`MaxTime = 3` lets a token of life 2 expire and two tokens fall into one or into
different seconds.

For `accounts`, three requests are two that race for a key and one that overtakes or
changes the account in between; two values per column make equal and different
choices. Two clients suffice for `log_updates` and `owned_rows`, whose requests are
taken again and again: a race is between a load and the commits of others, and these
may be any number. Two days order both ways, two tags are one to add and one to
remove. Three ids hold a row of each of two users and a sample. For
`recall_retrieval`, with `TopK = 1` one orphan point already fills the search (a search that is neither
full nor empty needs a third entry, and is the theorem's: it holds for every `TopK`),
three
contexts are one's own, another of one's own and another user's, and two API
processes overlap while one replaces the other. For `administration`, a page of one
item makes every list several pages long, two ticks a day have a midnight inside the
windows, and the accounts' ages are any up to the start.

Deadlock checking is off where clients may stop sending
requests: all requests done is a legitimate end.

**Fairness** (`pipeline_liveness` only). `WF` of each worker's steps: a Celery
worker process that has a message and is not killed goes on, and an idle one takes
a waiting message; fairness is of the worker's whole step, not of each message, so no queue
order is assumed. `WF` of `Dispatch`: a handler that has committed goes on to the
next line. No fairness on requests, crashes or retries. Without the bound on faults a worker could
crash for ever; `MaxFaults` stands for "finitely many".

## 4. Proofs

All theorems hold for every value of the constants under the modules'
assumptions: `PipelineAssumption` (Self is a context, `None` is no request,
retries and faults are naturals), `QuotaAssumption` (finitely many requests, a
positive limit and pool), `TokenAssumption` (times are naturals, `None` is none),
`AccountAssumption` (`None` is no key and no row), `UpdatesAssumption` (days are
naturals, tag lists are sequences of tags), `RowsAssumption` (users and ids differ,
samples have names), `RetrievalAssumption` (finitely many entries, a positive
`TopK`, every context has an owner) and `AdministrationAssumption` (finitely many
users and items, at least one administrator, lengths of pages, days and ranges are
positive, a week is no longer than a month).

* `EmbeddingPipelineProofs`: `TypeCorrect`, `EmbeddedEntriesHavePoints`,
  `LivePointsKept`, `PendingEntriesHaveTasks`, `PipelineRefinesLifecycle`,
  `PipelineRefinesIndex`, `PointsComeFromOwnEntry`, `FaultlessTasksAreKept`.
  `EmbeddedHasPoint` is not inductive: one must know that a worker about to mark
  has upserted *and* that nobody removed the point since. That is `WorkerInv`: a
  delete task exists only for an entry whose deletion is committed
  (`QueueInv`, `RequestInv`), so it never takes the point of a live entry. `RowInv`
  ties a row's content to the request that wrote it and, on the way, shows that
  `failed` is never stored. Both refinements go step by step over the same
  invariant: a worker's load is a sighting of a live row, its death drops what it
  carried, unless the other worker carries the same entry (`CarriedStep`), and
  what touches neither entries nor points is a stutter. `CarriesOwn` - what a worker has loaded is a content
  of the entry of its task - gives `PointsComeFromOwnEntry`. Without faults nothing
  is lost, so that `PendingEntriesHaveTasks` loses its exception
  (`FaultlessTasksAreKept`).
* `RecallQuotaProofs`: `TypeCorrect`, `OverrunIsBounded`, `HistoryIsAudited`,
  `SessionsStayWhole`, `ContextsLeaveHistory`, `OneConnectionKeepsLimit`,
  `QueriesAreAtomic`. The counting argument (`QuotaInv`): queries recorded today
  and queries between count and commit are together fewer than
  `Limit + PoolSize`, as the second set fits into the pool; a check adds to it only
  below `Limit`, a commit moves one query across, midnight empties the first.
  `MessageInv` and `SessionInv` say that only a committed query has rows, both
  messages of them, and that a session is named only after it was committed. The
  refinement maps `Commit` to `Record` and all steps before it to stutters. It needs
  the count, for `MostPerDay`, and `LockInv`: the session a transaction continues is
  still there at its commit, because its foreign key keeps `DeleteSession` waiting.
  With one connection the bound is the limit itself, the hypothesis `PoolSize = 1`
  of `OneConnectionKeepsLimit`: the overrun is due to overlapping queries only.
* `RefreshTokensProofs`: `TypeCorrect`, `RevocationIsFinal`,
  `SpentTokensStaySpent`. `CleanInv`: while an undisturbed revocation is under way
  no token is being made, and a NULL it loaded is still NULL, so the ORM's skipped
  write does no harm. `FenceInv`: a token made and not stored is as young as the
  fence. `MadeInv`: every stored, replaced or loaded token was stored by a request
  that is done, hence a returning one was stored twice.

* `AccountsProofs`: `TypeCorrect`, `SelfContextWithAccount`,
  `RefusedRequestsLeaveNoTrace`, `IdentityReachesOneAccount`,
  `CirclesNeedOvertakenCheck`, `AccountCreationsGetThrough`, `AccountsAreRegistry`. That committed rows share no key
  (`KeysUnique`) needs the open transactions: no two have claimed one key, none has
  claimed a committed one it would not overwrite (`ClaimInv`), and one at most has a
  row locked (`LockInv`). Circles of waits: among requests that wait for row locks
  and for keys being written, one is furthest along the order of the indexes, and it
  waits for nobody of the set. So every circle has a request that waits for the
  change of an account that got its next key after it had looked (`Obstructs`).
  Nobody who creates an account changes one (`ObstructorChanges`), hence creations
  alone close no circle. The refinement maps every step but a commit to a stutter.
* `LogUpdatesProofs`: `TypeCorrect`, `TablesStayConsistent`, `OnlyAskedIsWritten`,
  `ReplacedButForRaces`, from `PendingInv`: an entry about to be created is still
  absent and no other request speaks of it, one about to be changed is in the table,
  and what is to be written has a legal type.
* `OwnedRowsProofs`: `TypeCorrect`, `NamesStayUnique`, `SeedingIsIdempotent`,
  `OnlyOwnersChangeRows`. `LoadInv`: an id a request has loaded still names the row
  whose owner and kind were checked, or no row, since ids under way are not used
  again. `SeedInv`: without overlap, what a run is about to add is still missing.
* `RecallRetrievalProofs`: `TypeCorrect`, `DeletedEntriesNeverCited`,
  `SourcesAreOfTheContext`, `SteadyEntriesFound`, `CollectionIsBuilt`. `QueryInv`
  relates hits and sources to the entries that were dead at the start or are steady
  since; `RowInv` says that an entry has no context before it exists, so that an
  entry a query knows never changes its context; `SetUpInv` follows
  the one process that created the collection to its end.
* `AdministrationProofs`: `TypeCorrect`, `OnlyRacesLockOut`, `DashboardsAgree`,
  `NothingIsSkipped`. `UserInv` and `ToggleInv`: without a race every toggle was
  committed by an active administrator, who is not its target and so stays active.
  `FigureInv`: sign-ins only move logins forward, so a user counted for the week is
  counted for the month later (`WeekIsWithinMonth`). `ChartInv`: the accounts known
  when the dashboard was asked for are among those counted, day by day; that the
  window begins at a midnight (`Days`, `ChartStart`) makes its first bar whole.
  `ListInv`: an item listed from the beginning and not read yet lies behind the pages
  read. Places of distinct items are distinct (`Places`), so a page with an item
  behind it is full and does not end the reading (`FullWindow`); insertions move a
  place only towards the end (`TablesGrow`, `PlaceKept`).

The one-worker section of `EmbeddingPipelineProofs` (`OneWorkerReembeds`,
`OneWorkerRemovesPoints`) assumes `OneWorker` beside the specification. With two
workers both statements are false (`pipeline_stale_edit`). `SerialInv`: where the
point, or what the worker has loaded, is not the current content, the task of the
last writer still waits or is just taken; tasks then run one after the other, so it
writes last. The same holds of a deleted entry's delete task.

Only model-checked: `PendingResolved` and `TasksDrain`, as liveness under fairness is
out of the prover's reach. The invariants of every passing run are proved, and its
action properties and refinements. The two runs that end in a counterexample state
what is false in general; what remains true of their properties is proved for one
worker and for one connection.

## 5. Not modelled, and what is left

Not modelled, for good: prompt texts, embedding arithmetic, encryption, LLM HTTP
adapters (`llm_provider.py`, calls with a mapping of errors), response formatting,
logging, settings, migrations. They are data or pure I/O, and no property here
depends on them. Reads that change nothing and relate nothing across statements -
listing entries, tags, templates and sessions, the calendar - are left out, and so is
the search of the user list.

The email task (`email_tasks.py`) is one SMTP conversation with a retry and shares no
state with the rest. Two things a reader should know of it: only `SMTPException` is
retried, so a refused connection loses the mail at once, and a session that fails
after the message was accepted sends it again.

The client object of `qdrant_store.py:71` is shared by threads only in the eager mode
for development, where one task may close it under another; threads inside a
process are not modelled.

What could be added: abstract specifications of the session (`RefreshTokens`) and of
an entry with its tags (`LogUpdates`), as `RecallHistory` is one of recall, and the
searches of the user list, whose filter changes with what it filters.
