# Honcho: a TLA+ model of the memory service

Honcho stores the messages of multi-peer conversations in Postgres and derives
knowledge about the peers in the background. The API process writes messages and
queue rows; any number of *deriver* processes work the queue, derive conclusions
with an LLM, summarise sessions, schedule "dreams" and keep an external vector
store in step with the database. This directory models the parts of it whose
correctness depends on interleaving, failure and order. Paths are those of the
repository below `src/`.

## 1. The system

| component (code under `src/src/`) | state | operations | what makes it correct |
|---|---|---|---|
| **work queue** `deriver/queue_manager.py`, `deriver/__main__.py` | tables `queue`, `active_queue_sessions` (AQS); per process `worker_ownership`, semaphore, `shutdown_event` | poll, sweep stale leases, claim, fetch, handle, mark, release, publish `queue.empty`, signals | one lease per unit; no row lost or skipped; rows are resolved; capacity respected |
| **batching** `queue_manager.get_queue_item_batch`, `deriver/deriver.py` | rows of one representation unit, the session's messages | choose batch, context and configuration; save conclusions per observer | longest run that fits; gapless context; only observed messages |
| **enqueueing** `deriver/enqueue.py`, `utils/queue_payload.py`, `utils/work_unit.py` | rows | records per message, dream and deletion | every message has its row; keys group what must be serial |
| **dream scheduler** `dreamer/dream_scheduler.py`, `enqueue_dream` | dictionary of timers per process, collection metadata, dream rows | schedule, cancel, fire, enqueue, shutdown | one pending dream; no lost or ghost timer |
| **vector sync** `crud/document.py`, `crud/message.py`, `reconciler/sync_vectors.py`, `vector_store/utils.py` | `sync_state`, `sync_attempts`, `deleted_at`, `embedding`; the external store | create, upsert with retry, soft delete, reconcile, clean up | synced means stored; no orphan vectors; pending heals |
| **sessions** `crud/session.py`, `crud/message.py`, `cache/client.py`, `routers/sessions.py`, `deriver/consumer.py` | the row, its cache entries, numbered messages, deletion rows | get-or-create, update, post messages, mark as deleted, erase | a stale entry has a cause and an end; a mark stays and is followed by the deletion; unique numbers |
| **members** `crud/session.py` | table `session_peers` | add, set, remove, configure, clone | the limit of observers |
| **summaries** `utils/summarizer.py` | two summaries in a session's metadata | create when due, merge, save | no lost update, coverage without gaps |
| **agents** `utils/clients.py`, `dialectic/core.py`, `dreamer/orchestrator.py`, `dreamer/specialists.py` | the conversation with the model, attempt and iteration counters, the report | call, retry, fall back, execute tools, truncate, synthesise, report | calls and results stay together; the backup is the last resort; the report adds up; it ends |
| **reconciler scheduler** `reconciler/scheduler.py`, `queue_cleanup.py` | next run per task | enqueue periodic tasks once | one pending task per kind; tasks keep running |
| **telemetry** `telemetry/emitter.py` | bounded buffer, batch in flight | emit, flush, retry, shutdown | every event is somewhere, in order |
| **observations** `crud/document.py`, `crud/representation.py`, `utils/agent_tools.py` | the documents of a collection, their vectors, a lock per process and collection | create with duplicate detection, delete, clean up | a duplicate is dropped only for one that says as much; concurrent tools see each other's documents |
| **SDKs** `sdks/python`, `sdks/typescript` | retry counters, pages, objects with cached metadata and configuration | requests with timeouts and retries, iteration, every method of the objects | what returned is stored; iterations are exhaustive; caches were true; updates survive |
| **migrations** `migrations/versions` | all tables | upgrade, downgrade, the application's writes in between | messages, documents and queued work keep what they were written for |
| webhooks `webhooks/`, `crud/webhook.py` | endpoints, webhook rows | publish, deliver | delivery attempts; endpoint limit |
| reading tools, embedding, search, formatting | none across calls | query building, requests to services | not a state machine |

Interactions. The API inserts queue rows (`enqueue`), derivers poll them. A
representation task saves documents (`save_representation`, through the same `create_documents` as
the agents' tools), which may set a dream
timer (`check_and_schedule_dream`); a timer or the `schedule_dream` route inserts a
dream row, which the same queue serves. Saving documents writes the vector store;
a periodic queue row runs the reconciliation that repairs what that missed.
Deleting a session marks its row in the API and queues its erasure. Messages are numbered
in the API; every tenth and sixtieth (by default) has a queue row for a summary. Dreams
and questions run the same tool loop. Tasks of one process share memory and switch at `await`; processes share only
the database, the vector store and Redis.

What is hard: leases that are swept while their task still runs; claims computed
before they are tracked; batches that fail half-way; cancellation delivered in the
middle of a transaction; checks separated from the inserts they guard; stores that
do not take part in the database's transactions; work that goes on with a cached copy of
any age; counters that outlive the call they count; batches cut off by the end of a process. `PROJECT.json` lists each hazard
at its line, with the property that covers it or the reason none does.

## 2. Modules

| module | models | runs |
|---|---|---|
| `WorkQueue` | `QueueManager`: one action per transaction and the code up to the next `await`; what a deletion of a session does to queue and leases | `MCWorkQueue.cfg`, `MCQueueDeletions.cfg` |
| `WorkLedger` | the abstract promise to producers; `WorkQueue` implements it (`status <- queue`) | as the property `ImplementsLedger` |
| `WorkQueueProofs` | theorems about `WorkQueue` | checked with tlapm |
| `RepresentationBatch` | what one fetch of a representation unit serves and whom it is saved for | through `MCRepresentation`, `MCRepresentationObservers.cfg` |
| `Observations` | the documents of a collection: duplicate detection, its lock, failures, deletion | through `MCRepresentation` |
| `ObservationsProofs` | theorems about `Observations` and `RepresentationBatch` | checked with tlapm |
| `MCRepresentation` | one run for the batches and the documents | `MCRepresentation.cfg` |
| `DreamScheduler` | timers, savers, `enqueue_dream`, shutdown | through `MCDreams`, `MCDreamActivity.cfg` |
| `VectorSync` | records between Postgres and the vector store | `MCVectorSync.cfg` |
| `VectorSyncProofs` | theorems about `VectorSync` | checked with tlapm |
| `Sessions` | one session name: row, caches, messages, deletion | through `Summaries` |
| `Summaries` | extends `Sessions` by the summary tasks | `MCSummaries.cfg` |
| `SessionPeers` | the members of a session and their limit | `MCSessionPeers.cfg` |
| `SessionsProofs` | theorems about the three | checked with tlapm |
| `AgentLoop` | `honcho_llm_call`: providers, single calls and the loop with tools | through `DreamRun` |
| `DreamRun` | extends `AgentLoop` by its callers: a question, a dream of two specialists, a derivation, a summary | through `MCDreams` |
| `MCDreams` | one run for `DreamRun` and `DreamScheduler` | `MCDreams.cfg` |
| `DreamProofs` | theorems about both | checked with tlapm |
| `TelemetryEmitter` | the event buffer of a process | through `DeriverServices` |
| `ReconcilerScheduler` | the schedulers of all derivers and their rows | through `DeriverServices` |
| `DeriverServices` | composes the two in a deriver, from start to exit | `MCDeriverServices.cfg` |
| `DeriverServicesProofs` | theorem about the emitter in it | checked with tlapm |
| `SdkCalls` | `add_messages` of both SDKs: the HTTP client, the network, the server | through `MCSdk` |
| `SdkPages` | an iteration over a paginated list while others write | through `MCSdk` |
| `SdkHandles` | the objects of the three SDKs: every method, their caches, the record | through `MCSdk` |
| `MCSdk` | one run for the three | `MCSdk.cfg` |
| `SdkProofs` | theorems about the three | checked with tlapm |
| `Migrations` | a database through all revisions and back | `MCMigrations.cfg` |
| `MigrationsProofs` | theorems about `Migrations` | checked with tlapm |

`MC<module>.tla` names the model values and gives the function-valued constants. `MCRepresentation`,
`MCDreams` and `MCSdk` hold modules that share no state: the variable `part` says which of them a behaviour is about, the
others keep one initial state. Nothing is composed by that; it only saves a run.
A definition with the comment `mutant` is not part of the model: it is a
plausible wrong version of the definition that follows it, kept to show that the
properties notice the difference.

### WorkQueue

A lease is a pair of key and serial number and stands for the AQS row (its id),
the worker id created for it and the asyncio task that runs `process_work_unit`.
`queue` is the row's `processed`/`error` pair; `aqs` the rows of
`active_queue_sessions`; `stale` those whose `last_updated` is past the cutoff
(time is the action `Expire`, a mark of the unit makes the row fresh again);
`poll`, `task` are program counters, `available_units` a local variable that
lives across an await, `worker_ownership` the dictionary of that name,
`counted` is `queue_item_count > 0`. `handled` and `failed` are histories.

* A turn of `polling_loop` is `PollBegin` (the capacity test and the sweep),
  `PollSelect` (the SELECT), `PollClaim` (INSERT ... ON CONFLICT DO NOTHING) and
  `PollTrack`; `PollError` is the `except`.
* A task is `Acquire` (semaphore), `Leave`/`Fetch`, `Handle`/`HandleRaises`,
  `MarkProcessed`/`MarkErrored` or their failures, `Close`/`CloseRaises` (the
  `finally` block), `Publish`. The errors that the loop logs and retries (line 501)
  change nothing and are stuttering.
* `Shutdown` sets the event; `Cleanup` deletes every tracked lease, running or
  not; `Exit` cancels the remaining tasks; `Crash` may come at any time.
* `DeleteScope` is what the transaction of `delete_session` (`crud/session.py:465-483`) or
  `delete_workspace` does here, in whichever process: the leases of the units named in its DELETE go,
  fresh ones and those of other processes included, and so do the queue rows. `Scopes` says which units and rows
  belong together, `MaxDeletions` bounds the calls. A lease claimed between its two statements may
  survive. Nobody tells the tasks: they go on, and mark rows that are no longer there.

Two abstractions matter. Handlers are atomic outcomes (they return or raise): what a handler
writes is the business of other modules. And rows are numbered in the order a
unit serves them; whether they also become *visible* in that order is a
fact about the producers, so `OrderedKeys` names the units for which it holds (one API
process serialises a session's messages) and `FinishedInOrder` speaks of those only.

### WorkLedger

Rows are submitted, attempted, and struck off as processed (only what an attempt
returned from) or errored (only what an attempt blamed), from the front of serially fed
units, or withdrawn together with their session or workspace (`Withdrawable`). The refinement mapping is the identity on rows and histories: every lease,
sweep, crash and steal is a stuttering step of the ledger.

### RepresentationBatch

Messages are records of sender, token count, resolved configuration and the observers recorded
in the row at enqueue time (`generate_queue_records`). The three nested subqueries are
`First`, `Start`, `Tokens`, `Allowed`; the loop over configurations is
`Homogeneous`; the trim of the context is `Context`. `BatchIsLongestRun` compares the result
with a declarative reference: the longest run of first pending rows that shares one
configuration and fits the budget together with its conversation, a single row in any case.

### DreamScheduler

Savers are the representation tasks of a process. `cancel_dream`'s await makes two
steps of it (`ScheduleCancels`, `ScheduleResumes`); between them the cancelled
timer may be anywhere in `enqueue_dream` and others may register timers. `at` gives
the await a coroutine is in; `Callback` is the done callback, which removes
whatever entry is there. `metadata[k].fresh` stands for the cooldown (`Age` ends it).
`Cancellable` is empty: it is the set of timers that `get_dream_scheduler()` finds in the
process which enqueues messages, and only the deriver ever sets a scheduler.
The dream itself is `Claim`, `Dream`, `Release`, with the interleavings of `WorkQueue`
reduced to what `enqueue_dream`'s checks read. One dream type is enabled (the default).

### VectorSync

A record is a document or a message embedding (which is never soft-deleted). Its creator commits
the row (`Create`) and then upserts the vector, records success or failure, or dies.
A reconciler holds the locks of its batch from `Select...` to `Commit...`; what it
writes to Postgres happens at the commit, what it does to the store at once, so `Abort` rolls
back one and not the other. Creators and deletions wait for those locks. A creator is modelled
per record; `create_documents` shares one outcome among the records of a call, which is a
special case. A request that is under way when its process dies may or may not be served at that
moment; one served much later is not modelled. Mode `TYPE = "pgvector"` has no external
store and nothing to check.

`delete_session` (`crud/session.py:483-615`) is `EraseList`, `EraseNamespace` and `EraseCommit` or
`EraseFails`, over the records of `SessionRecord` and at most `MaxErasures` times: it lists the rows, deletes their vectors from the
store at once, namespace by namespace, and only logs what fails (`:518`, `:569`); then it deletes the rows, whether or not
their vectors are gone and whether or not they were listed, or a statement raises and all rows are back
(`:614`), without their vectors. Two histories say what that costs: `erased` has the records whose vector it removed
and that have not been stored again, `late` those whose row went while their vector was, or could still come to be, in the store. `SyncedIsStored`
excuses the first, `NoOrphanVectors` the second; neither excuses a record whose session nobody deleted. Two calls for one session at
a time, and the namespaces that `delete_workspace` drops, are not modelled.

### Sessions and Summaries

A process is an API request, the deriver's deletion task or one of the two savers of a
summary task. Every operation starts from `_fetch_session`: `Lookup` (the cache), `ReadRow`
(the database), `Fill` (the cache again), each a step of its own, and goes on with the copy
it got (`snap`). What follows is one action per statement or cache call: `CreateRow`,
`UseExisting`, `Refresh...`, `Store`, `Merge`, `Invalidate` for `get_or_create_session` and
`update_session`; `AcquireLock`, `ReadLastSeq`, `InsertMessages` for `create_messages`; `MarkDeleted`,
`TakeDeletion`, `EraseMessages`, `DropSession` for deletion. `WriteConfig` writes the one column
that changed, by primary key, as the ORM does, so a copy of an earlier session of the name
matches no row. A cache call may fail at every step. The variable `shared` says which cache there is:
Redis, one for all, or the memory of each process (`init_cache` sets it up when the cache is disabled
and when Redis does not answer at the start); then the API and the deriver have an entry each.

Configurations are sets of keys, and a summary is the set of messages that went into it, together with
the last of them. How many messages a summary takes is resolved for each message, from workspace, session and message, when
its row is enqueued: `task` has the message (`of`) and its intervals (`per`), any of `Intervals`. `Due` decides by them
whether there is a row, `Window` which messages are read. A task that outlives its lease becomes a `Straggler`: `SweepLease`
gives the same row to the savers anew, and what they were doing is done beside them, and at any later time, by the stragglers, who keep
their copies, drafts and the task (`swept`).

`outdated` and `gap` are histories. `outdated`: a saver worked with a copy whose summaries were not the row's, or a straggler wrote one.
`gap`: a summary was not written; or it was made before the one that ends where its window begins, or for a message whose session had been
deleted before it was read. A changed interval is no excuse of its own: `gap` then holds only of a window that begins after a message which
had no row under the interval before (20 lowered to 10 after the 30th message: the summary at the 40th begins behind the 30th, which had none).

The run has two scenes, since all at once is too much for TLC. "cache": three requests of every kind, both kinds of cache, the intervals 2 and 4
where the program has 20 and 60, no sweep; two calls of two messages bring two short summaries and a long one. Two requests are under way at once while there is no
summary task, one beside a task (with private caches one of the first two). "tasks": Redis refuses everything, one client posts or deletes, twice at
most, intervals change from 4 to 2 and back, and one task loses its lease. Asking a Redis that does not answer changes nothing, so it comes first there. A row that a *crashed* worker leaves to the next is
retaken in `WorkQueue`; here a crash is a summary that is not written. What `EraseMessages` does to vectors and documents is in `VectorSync`, to
leases and queue rows in `WorkQueue`.

### SessionPeers

A request counts in one statement and writes in a later one of the same transaction (READ
COMMITTED): `Count` then `Upsert`, `ReadMember` and `CountOne` then `WriteMember`. `set_peers_for_session` first
ends all active rows and holds their locks (`cleared`); an UPDATE sees the rows of its
snapshot (`SelectActive`) and re-checks them when it gets their locks (`Clear`). Of a
configuration only `observe_others` is kept. `raced` is a history: the requests since whose count somebody else has written a member.

### AgentLoop and DreamRun

`conversation` is the list of messages; a message has a kind, the format of the provider that made
it, the tool calls it makes or answers, and a size in tokens. `Truncated` is
`truncate_messages_to_fit` with its units as sets of positions: the loop that removes the oldest unit
while too much is left becomes the choice of the longest sequence of last units that fits.
`attempt` is the context variable `_current_attempt`, `tries` what the retry object itself counts: that they
agree is what has to be shown. `billed` is a history, the responses that were used; each counts
for one token.

`Prompted` is what of the conversation reaches the provider that is asked: google does not get the blocks of
anthropic and reads openai's calls as text, and streams an answer to the first message only. `Replies` is what the caller
gets of the responses that a provider may give, one operator for each branch of `honcho_llm_call_inner`: a response
without content, with JSON that does not parse, or blocked is an empty answer for one provider and raises for another,
and what raises is retried. Groq never gets tools. Temperature, caching marks, thinking and token limits of
the requests are left out. Whatever the provider, its request may also raise (`CallFails`).

`DreamRun` starts the loop once for a question and twice for a dream; a derivation (a structured answer) and a
summary (text) make a single call. What comes before the loop can raise too (`SpecialistRaises`, `QueryRaises`), except the
prefetch of observations, which is left out when it does.

### Observations

A call of `create_documents` is one transaction, from `Begin` to `Commit` or `Abort`. `QueryRows` is
`query_documents` with the embeddings in Postgres; with an external store it is `QueryVectors`
and `ReadRow`, since the store answers with a document that may have been deleted. `Decide` is
`is_rejected_duplicate`: the scores, as the code computes them. `Supersede` is its flush, an UPDATE by id whose row
stays locked (`Unlocked`); other transactions see the deletion after the commit, so `docs` changes only
there. `kept` remembers with each document which duplicate its check found. A document's `heirs` are those that superseded it (two, if two
calls found the same), `hit` the duplicate that its check found, `explicit` says that somebody deleted it on purpose. `Writer` has a
kind: a tool of an agent holds the lock of its process (`get_observation_lock`), a deriver's
representation compares without the lock, the API compares nothing.

Texts are model values with a set of tokens each and a relation `Similar` (cosine distance up to
0.05), which need not be transitive. The store's answer with `top_k = 1` is any of the nearest; equal texts are nearest. Which
of several equally near rows the query returns is open. The order of the observations of a call is left open too,
which is more than the code does. Deletion by an agent's tool takes the lock that `Delete` does without:
more interleavings again.

### SdkCalls, SdkPages and SdkHandles

`SdkCalls` follows one user, call after call: the creation of the workspace before the first one
(a flag in Python, a memoized promise in TypeScript), each attempt, its timeout, what is retried and what raises, the abort
signal of TypeScript. The network holds requests and answers; a request that was given up may be served at any later moment, an answer
may be lost, cut off, or come from a proxy.

`SdkPages` gives rows an id and the time their transaction began, which is what `created_at` holds; `Fetch` may return rows
with equal keys in any order. In `SdkHandles` each method of `Honcho`, `Peer` and `Session` in the
three SDKs is a row of a table: the sequence of its steps (check, ensure, fetch, put, create,
echo, list, delete, adopt). What tells the SDKs apart is in these sequences: where the workspace is ensured, and whose constructors
send what they are given. A value is a version number, `intended` what the programs' own updates made of the record. A check of arguments
that fails, and a request about other records, only ends the call or not. The server's task that deletes a workspace later is `Purge`.

### Migrations

`db` has the tables as sets of rows, `rev` the revisions that change rows or that rows can hinder;
those that only add columns, indexes or constraints that hold anyhow are left out. `Up` and `Down` list
the revisions, each as what its statements do to the tables in their order. A constraint that the rows do not satisfy makes the
transaction fail: the step is not enabled. `Application` is what the program of that revision
writes. `said`, `noted` and `promised` are histories of what was written.

Names of peers and collections are sequences of letters, since `08894082221a` reads the pair of a collection out of its name
(`:192-198`): `BeginsLike` and `EndsLike` are its `LIKE` patterns, in which the underscore (`Underscore`) stands for any letter; `ObservedBy` takes the forward
form `observer_observed` first, the reversed one otherwise, and what `substring` leaves of the name is the observed peer (`Behind`, `InFront`). A name may thus tell another peer than the one it
was made for, or one that does not exist: then the foreign key refuses the upgrade. The downgrade joins the names again and is refused where two collections would get
one (`NamesAreUnique`). `DocumentsKeepTheirPair` excuses the documents of `LedAstray`, by the name their collection had when they were written, and on the way back those of `JoinedAstray`.
`%`, the other wildcard, is not among the letters: the API admits letters, digits, `_` and `-` only.

### TelemetryEmitter, ReconcilerScheduler and DeriverServices

Events are numbered. `flusher` holds where each flush stands: the periodic task's, those that `emit`
spawned, and the final one of `shutdown`; `holder` is the lock of `flush`, `batch` what it has taken
from the deque. A failed request may have arrived nevertheless; the endpoint knows ids it has seen, so `received`
is a set; that events arrive in their order is said of what is still to arrive (`EventsAccounted`). `overflowed` and `cut` are histories of what was dropped.

A scheduler's turn for a task is the check of leases, the check of rows and the insert, with other
instances between them. `WorkQueue`'s treatment of the rows is reduced to claim, handle, release and
the loss of a lease. `DeriverServices` runs one instance's emitter beside the schedulers:
handlers emit an event, the signal stops the scheduler, the exit ends both.

## 3. Runs

All runs set `CHECK_DEADLOCK FALSE`: producers, savers and creators may stop, and a system
with nothing to do is at rest.

| run | shows | bounds and why they are enough |
|---|---|---|
| `work_queue` | leases, capacity and rows; what is resolved in the end | two processes with one worker each race for a representation unit (two rows: the first stays below the token threshold, the second reaches it) and the webhook unit which only `queue.empty` feeds; 5 leases per unit allow a steal, a late finisher and re-claims; one fault (crash, signal, slow handler, failed write) at any point |
| `queue_deletions` | order, ends of leases and the refinement while the session goes | two processes with one worker each, one unit of three rows (the first below the threshold, then two that reach it alone: two batches), 4 leases, one deletion at any point and one fault |
| `representation_batch` | the batch query equals its reference; context; drain; or: duplicates merge without loss | every conversation of 3 messages over 2 peers, 2 configurations, tokens 1 and 3 for a budget of 3: rows that fit together, alone, or not at all. Or 2 calls by two tools of a process, a tool and its deriver, or a deriver and the API; 3 texts of which one says more than another and one is similar without; 1 deletion; 637 thousand states in about 1 min. Two calls are what a race needs; chains of heirs (a row, its heir, and the heir's) appear with the row of an earlier call |
| `dreams` | scheduler: one pending dream row, no ghost entry, no stuck saver, no lost dream; agents: pairs, fallback, truncation, report, termination | `MCDreams` takes either the scheduler or a run of agents. Scheduler: one process, 2 savers, 1 API request, 2 timer identities (reused once nobody refers to them), 2 documents (`dream_activity` needs 3), 1 fault. Agents: 14 configurations: 6 with tools (each format, with and without a backup of another format, streamed or not, no limit, a limit of two or three units, one below the system prompt) and 8 single calls (each provider, structured or not); 3 attempts, up to 2 tools per response, results of 1 and 3 tokens; 251 thousand states together in about 1 min |
| `vector_sync` | synced is stored and final; no orphans; pending and deleted records are resolved | a document and a message embedding in their own namespaces, 2 reconcilers, batches of 2, 2 attempts, one deletion of the document's session, 1 fault (crash, refused deletion, rollback); failing upserts are not bounded, the attempts are. With the message embedding in the same session the safety properties were checked as well (1.4 million states) |
| `sessions` | numbers, marks, stale entries, summaries of one session | 2 requests, the deletion task, both savers, a straggler of the short summary; the two scenes above; 3 requests in all (create, mark, and one that meets them, or three posts), batches of 2; 1.5 million states in about 1 min. With 4 requests there are more than 20 million and no new kind of overlap, since at most two are under way |
| `services` | no event unaccounted for, tasks recur | 2 derivers; buffer and batches of 2 and 3 events, so that a returned batch meets a full buffer; 2 retries; a spawned, the periodic and the final flush; 520 thousand states in about 2 min |
| `sdk` | calls are stored and end, iterations are exhaustive, caches and updates of objects | 2 clients, 1 retry, 2 calls (the second meets what is left of the first); pages of 2, 5 rows, 2 writers: three pages, rows before and after the reader; 2 programs in each pair of SDKs, 2 uses; 749 thousand states in under 1 min |
| `migrations` | messages, documents and work through all revisions and back | 2 workspaces; peers `b`, `b_a` and `a_b` in one, so that `b_a_b` is the name of two pairs, and a `b` in the other; old collections named like no pair, like a pair with a nameless peer (the upgrade is refused) and `b_a_b`; 3 old messages for batches of 3, 2 writes; databases with and without leases; 196 thousand states in about 2 min |

**Safety.** `OneLeasePerUnit`, `WithinCapacity`, `NoRowLost`, `FinishedInOrder`,
`OnlyOwnersRelease`; `BatchIsLongestRun`, `ContextIsTheConversation`; `DuplicatesMerge`; `DreamsAreSingle`; `SyncedIsStored`, `NoOrphanVectors`, `SyncedIsFinal`; `StaleHasACause`,
`NumbersAreFree`, `MarkedIsQueued`, `MarkIsFinal`, `WindowsJoin`, `SummariesAdvance`; `PairsKept`,
`PrimaryFirst`, `ContextIsRecent`, `ReportAddsUp`; `EventsAccounted`; `StoredAsCalled`, `IterationIsExhaustive`,
`CachesWereTrue`, `UpdatesSurvive`; `MessagesKept`, `DocumentsKeepTheirPair`, `WorkIsKept`. Each is explained where it is
defined.

Some of them excuse what the code does not exclude, and name it. `OnlyOwnersRelease`: the deletion of the unit's session. `SyncedIsStored`: a vector that
a deletion of the session removed, until its commit or after its rollback. `NoOrphanVectors`: an upsert that outlasts the grace period or that deletion, and vectors that it
failed to remove or did not list. `DocumentsKeepTheirPair`: names that tell another pair (`LedAstray`, `JoinedAstray`). `StaleHasACause`: a read-through fill
that an update overtakes, and a cache that refuses a call. `MarkedIsQueued`: a deletion that raised or
found another session. `WindowsJoin` and `SummariesAdvance`: an outdated copy, a task that
saved after its lease was swept; the former also a summary that was never written, came out of order, or was made under an interval that does not
join the one before. `CallsEnd`: a body that stops to arrive. `TimersLeadToDreams`: any fault; it is checked for one process. `PairsKept`: google's format together with a limit, see below. `StoredAsCalled`: a call is stored twice only after an attempt that
ended without an answer of the server. `IterationIsExhaustive`: `MayBeMissed`. `UpdatesSurvive`: objects of the Python SDK that were made of a
listing or a clone. `MessagesKept`: token counts beyond the first batch. What the excuses allow is listed below.

**Liveness and fairness.** The properties are `EveryRowIsResolved`, `AbandonedLeasesEnd`, `RowsDrain`,
`CancellersResume`, `TimersLeadToDreams`, `RecordsSettle`, `AgentsEnd` (`AgentEnds` of `DreamRun`), `TasksKeepRunning` and `CallsEnd`. `WorkQueue` assumes that each polling loop comes around, that some
task steps while some can (awaited calls return or raise: LLM calls have timeouts), and that
time passes for the leases of tasks that are gone. Nothing obliges a producer to enqueue or anyone to
restart a process (the deriver service of docker-compose has no restart policy), so
`EveryRowIsResolved` promises nothing when no process with a free slot is left, and nothing for
units below the threshold. `RepresentationBatch` assumes that the holder goes on. `DreamScheduler` assumes only that
some saver or timer steps while one can. `VectorSync` assumes that reconciliation cycles keep
being run (the scheduler enqueues them periodically) and that time passes; creators owe
nothing. `DreamRun` assumes that the agent goes on (a call of a provider returns or raises); `AgentEnds`
then follows from the bounds of the loop alone. `DeriverServices` assumes for each instance that time passes and its
loop comes around, that its check and insert do not fail for ever when they are tried again and again, and that a worker
takes the rows and succeeds now and then. `MCSdk` assumes of
the client alone that it goes on (a request times out if nothing comes): `CallsEnd` holds whatever network and server do, but for a body that
stops to arrive. Faults are bounded, so liveness is about what happens after the last one.

### Where documents and code differ

Each of these runs checks one sentence of the repository and TLC finds it violated.

* `representation_observers` — *"based only on messages they've observed"*
  (`docs/v3/documentation/core-concepts/representation.mdx:32`). The observers of the first row
  stand for the whole batch.
* `dream_activity` — *"When new messages arrive for a peer, any pending (not yet started)
  dream for that peer is cancelled"* (`docs/v3/documentation/features/advanced/dreaming.mdx:92`).
  Messages are enqueued in the API process, which has no dream scheduler.
* `observer_limit` — *"Maximum number of observers per session"*
  (`docs/v3/contributing/configuration.mdx:128`). The count leaves out the peers it was given,
  taking their new configurations for granted; the upsert keeps the old ones of those that are
  active. Two requests, one after the other, are enough, and the run has one at a time. Two at once exceed the limit as well, each
  counting before the other has written; `CountedLimit`, below, leaves such requests out (`raced`).

Others were met while modelling and have no run of their own. In the deriver and the API:

* *"tasks within the same work_unit are processed sequentially"*
  (`docs/v3/documentation/features/advanced/queue-status.mdx:72`). A lease is swept by age alone; the
  slow task runs on beside its successor. `NoRowLost`, `FinishedInOrder` and
  `OnlyOwnersRelease` hold nevertheless: rows may be handled twice but none is lost. Handlers are less
  patient: a summary task that lost its lease may save its older summary over a newer one.
* *"Try to delete from external vector store (best effort)"* (`src/crud/session.py:508`): when it fails, the rows are deleted all the same, and only the deletion
  of the workspace gets at the vectors; when the transaction is rolled back afterwards (`:614`), records count as synced without a vector. An upsert of a
  document's creator that ends after the deletion leaves a vector as well.
* *"the combination of recent messages and summary should cover the entire
  conversation"* (`docs/v3/documentation/features/advanced/summarizer.mdx:9`). A summary takes the last
  N messages, not those after the previous summary: one that failed leaves its messages in
  no summary, and so does a number of messages that is lowered in the course of a session.
* *"Determine which has more information using token set difference"* (`src/crud/document.py:827`): the score compares
  only how many distinct tokens there are, as the theorem `ScoreComparesSizes` shows; the weighted difference never decides. A
  longer text that lacks what the shorter one says replaces it, if their embeddings are close.
* *"Count levels from actually-created observations"* (`src/utils/agent_tools.py:1084`): the counts are those of the observations
  given to `create_documents`, the rejected and skipped ones included; its result is not used.
* `create_documents` goes on after a duplicate check that raised: the observation is skipped, and the call succeeds.
  Observations of one call are not compared with each other, and of several duplicates only the nearest is merged.
  With an external store the vector of a deleted document may be nearest and hide the others. Two calls
  that supersede two documents in opposite order deadlock, and one of them stores nothing.
* The messages of a session with `message_count_limit` get a second ORDER BY after *"we order by id desc to get most
  recent"* (`src/crud/message.py:384`); the first one wins.
* *"with retry support"* (`src/routers/sessions.py:353`): a deletion that raises, because a message was
  inserted between the two DELETEs (foreign key), has its row marked errored and is not retried; the
  session stays inactive. Two queued deletions of one name: the second may work with a cached
  copy of the first session, match no row, and erase the messages of a session created since.
* *"properly merge JSONB"* (`src/utils/summarizer.py:649`): `||` replaces the whole `summaries` object,
  by that of a cached copy; the saver of the other kind, or of an erased session of the same name, may be overwritten or
  revived.
* `CACHE_ENABLED=false` (`docs/v3/contributing/configuration.mdx:230`) does not disable the cache but makes it private to
  each process: the API may act on a session that the deriver has deleted, for up to the TTL.
* `set_peers_for_session` *"will fully replace the current set of Peers"* (`src/routers/sessions.py:465`):
  of two at once, the second does not see the rows that the first adds, and both lists stay.
  `clone_session` makes members of peers who had left, without counting observers, and returns a
  session that was never committed when there are no messages to copy.
* *"Total LLM iterations across all specialists"* (`src/telemetry/events/dream.py:62`): iterations that ended
  with an answer or a synthesis are not counted, so a dream's iterations are at least two below its responses.
* A failing deduction specialist ends the dream: `SpecialistExecutionError` and `SurprisalError`
  (`src/dreamer/orchestrator.py:162`, `:188`, `:213`) are never raised by what is called there, so the handlers that
  would let the dream go on do not run; the row is marked processed and no event is sent.
* *"pairs are never broken"* (`src/utils/clients.py:206`) for google: its messages have `parts`, which
  `_group_into_units` does not recognise. `tool_calls` of openai's messages are not counted as tokens
  (`:106`). The synthesis call is not truncated, nor is a question kept by truncation. Without a limit the
  pairs reach google whole, or both not at all when another provider began them.
* *"a streaming LLM call with the accumulated conversation messages (which include all tool call results)"*
  (`src/utils/clients.py:626`): for google only `messages[0]` is sent (`:2590`), the system prompt, without the question
  and without the results (`StreamPrompt`).
* A structured answer that is not JSON is retried by all providers but vllm, for which it is a representation without
  observations (`src/utils/clients.py:2060`): the deriver's messages are done with nothing learned from them.
  `max_input_tokens`, which the deriver passes (`src/deriver/deriver.py:139`), has no effect on a call without tools.
* The buffer's comment says the oldest events are dropped when it is full; a batch that is returned with
  `appendleft` drops the newest (`src/telemetry/emitter.py:229`).

In the SDKs:

* *"Optional custom timeout for the HTTP client"* (`sdks/typescript/src/client.ts:141`): it ends with the headers;
  a body that stops to arrive is awaited for ever (`sdks/typescript/src/http/client.ts:86`). An abort of the user is taken for
  a timeout and the request is sent again (`:350`). A failed creation of the workspace is memoized: all later calls of the object fail.
* *"Iterate over all transformed items across all pages"* (`sdks/python/src/honcho/pagination.py:59`): lists ordered by `created_at`
  skip or repeat rows that share it (those of one transaction do) or that move up after a deletion.
* *"transforms inner client Peer objects to SDK Peer objects as they are consumed"* (`sdks/python/src/honcho/client.py:336`): the
  constructor sends the listed values back and overwrites what was changed meanwhile; so do `sessions`, `clone` and, in `aio`, `peer`
  and `session` with values. The TypeScript SDK does not.
* *"Set configuration on the server and update the cache"* (`sdks/python/src/honcho/mixins.py:117`): the cache gets what was
  given, while the server merges it with what it had.
* `Session.messages` of the Python SDK describes another order than the server's ascending ids
  (`src/crud/message.py:409`). `mcp/package.json` requires another major version of the SDK than `mcp/bun.lock` has.

In the migrations:

* *"They ensure reversibility"* (`tests/alembic/README.md:2`): downgrades revive soft-deleted documents (`119a52b73c60`),
  name authors as users of another meaning (`d429de0e5338`), and find a session by its name alone
  (`versions/d429de0e5338_adopt_peer_paradigm.py:1560`), which fails when two workspaces share one.
* *"Backfill token counts for existing messages using batch updates"* (`:1162`): LIMIT and OFFSET without ORDER BY over the table that is
  being updated may skip rows. *"is_user based on whether peer_name matches session's user"* (`:1604`) compares an id with a name.
* *"set to observer value"* (`versions/08894082221a_replace_collection_name_with_observer_.py:572`): it is set to the observed (`:592`).
  The upgrade reads names with `LIKE`, in which `_` matches any character, and tries the forward form first: what `b` observed of `b_a`, under the reversed name `b_a_b`,
  becomes an observation of `a_b`, if there is such a peer, and refuses the upgrade otherwise (so does the name `user10_user1` of `user1`'s collection about `user10`).
* Rows of the queue without a workspace are deleted (`ec8f94139b02`), and leases whose task type cannot be read refuse an upgrade.

## 4. Proofs

`WorkQueueProofs` proves, from `ConstantsAssumption` alone and for any number of processes,
keys, rows, workers, leases and faults:

* `TypeCorrect`: `Spec => []TypeOK`. `TypeOK` is inductive; its last conjunct (a
  task holds a non-empty batch of its own unit) is what the proofs below need.
* `LeasesAreExclusive`: `OneLeasePerUnit` is inductive given `TypeOK`; only `PollClaim` adds leases,
  and only for keys that have none.
* `RowsAreAttempted`: `NoRowLost` is not inductive, because nothing in it says that what a task
  is about to mark has been attempted. `AttemptInv` adds: the batch of a task in `marking` is in
  `handled`, and the blamed row of one in `failing` is in `failed`.
* `OrderedUnitsFinishInOrder`: `FrontInv` adds that the known rows of a serially fed unit are its
  first rows and that what a task holds has only finished rows (or rows of the same batch)
  before it. The second part survives a steal because finished rows never become pending
  again, and that is why two tasks on one unit still finish it in order.
* `QueueIsALedger`: `Spec => ImplementsLedger`, the refinement of `WorkLedger`. Each of the row
  steps is one of the ledger's; that a mark is one (the ledger settles only what was attempted, from the
  front of serially fed units) follows from `AttemptInv` and `FrontInv`. A deletion withdraws rows; a mark that comes after it finds none. All the rest stutters.
* `LeasesEndAtHome`: `Spec => OnlyOwnersRelease`: a lease that is still fresh ends only in a step in which the process that took it, and tracked it, ceases to, or with
  the session of its unit. `LeaseInv` says that what a process tracks are leases that
  it took itself and whose tasks have started, and that ids of leases are not used twice; a release is guarded by the dictionary, or sweeps
  stale rows, or is `Cleanup` of its own process. A task that removed its successor's lease by key would break it (the mutant of the run).
* `CapacityIsKept`: `Spec => []WithinCapacity`. `CapacityInv` bounds what is tracked or claimed (`Booked`), and while a
  loop waits to claim, what is tracked together with the units it selected: tasks only untrack
  meanwhile, and only the loop itself claims.

To keep the case analysis small, `QuietOrRowStep` shows once that every step either leaves rows and
histories alone and changes what tasks hold in harmless ways (`Quiet`), or is one of the few
actions that touch rows (`RowStep`); the later proofs look at the latter only.

`DreamProofs`, of `DreamRun`, from its assumptions on constants and for any configurations, attempts, tools and iterations:

* `PrimaryComesFirst`: `AttemptIsCounted` says that while a model is asked the context variable and the retry
  object count the same; every action that goes on to ask one sets both or neither.
* `ReportsAddUp`: `LoopCounters` relates the tokens of one loop to its iterations (`total` is the number of
  responses), `RunCounters` adds up the loops of a dream; a single call has no iteration and one response.
* `PairsAreKept`, for conversations of any length: neither truncation nor a change of the provider in between tears a
  call from its results. `PairsKept` itself is not inductive, because a prompt is computed from a
  conversation that was truncated before and because google is told something else; `AgentInv` says of the conversation
  that every call is answered by the messages right behind it, *in its own format*, that every result follows such a
  call (`Well`), and while tools are executed that this is so up to the last message, the call, whose ids
  are those asked for and those with results (`AwaitsResults`). The formats matter: what google does not get (anthropic's) or reads as text
  (openai's) goes by whole pairs only because of them (`OtherFormatsAreClosed`, `ReadIsWell`). Truncation is seen as a thinning, an increasing
  numbering of the messages that stay; a thinning that takes calls with their runs (`Closed`) keeps a conversation
  well formed (`ThinnedIsWell`), and units are such (`UnitsAreClosed`) if google's format, which `_is_tool_use_message` does not
  recognise, is absent or there is no limit: the condition of the property.
* `ContextsAreRecent`: `RecentInv` adds that after an iteration with tools the conversation ends with its call and the
  results (`EndsAnswered`); they are the unit with the last position, which is never removed (`NewestStays`). That the
  truncated conversation fits (`TruncationFits`) needs that tokens are additive over the system prompt and the
  units, which are disjoint (`SumOfBoth`, `UnitsAreApart`), and that a sum does not change when its terms are
  renumbered (`SumRenumbered`). `AgentsLoop` is needed as well: the first message is the system prompt, and the only one.

  What a recursive function computes is proved by induction over the length, with the library's induction
  theorems out of reach: `Induction` is stated for a set of numbers, from `LeastNumber`, and is used with the set of
  lengths for which the claim holds. For the same reason the sum of sizes and the messages that stay are recursive functions
  in `AgentLoop` (`SumOf`, `Keep`), not the folds of the community modules, of which the provers know nothing.

`SessionsProofs` also proves `LimitIsKept` of `SessionPeers` for any finite set of peers, any limit, any number of requests and any
interleaving of them, whatever members there were before: a request that adds observers, and since whose count nobody else has written (`raced`), leaves at
most `Limit` of them, but for the active observers whom it names as non-observers (`Overlooked`). `LimitInvariant` carries the result of the count to the write.
Its parts are the types, `AbsentAreNoObservers`, `SeenAreThere` (what was read of a member is still so unless somebody wrote),
`ClearsAreNoConfigures` and `CountsHold` (who has counted and was not raced will write no more than fit). `CountsStay` and `SeenStay` say
which steps of others keep a count, `UpsertKeepsLimit` and `WriteMemberKeepsLimit` what the two writes do with it,
`LimitPreserved` puts them together; the lemmas on cardinalities rest on `FiniteSetTheorems`. The run `observer_limit`
shows what the exception costs. The theorem says nothing of `clone_session`, which revives observers without a count.

`ObservationsProofs`, for any texts, similarity, writers, processes, and any number of calls and deletions:

* `ScoreComparesSizes`: `score_new >= score_existing` exactly if the new text has at least as many distinct
  tokens. The intersection cancels; the proof is arithmetic on cardinalities.
* `DuplicatesAreMerged`: `Spec => []DuplicatesMerge`. `InformationKept` needs `CallsAreSound`: what a call has rejected or superseded
  so far was decided for the larger text, and what it superseded is among what it keeps. `LockedToolsSee` needs `WorkersHoldLock`
  (a tool at work holds its process's lock, so there is one) and `NothingMissed`: nothing similar was added by the
  process since the check of what the call keeps. Most actions change a call only (`JobStepsChangeTheCall`); commits, aborts, deletions and
  cleanup have a lemma each.

Also in `ObservationsProofs`, of `RepresentationBatch` (the instance `Unit` of `MCRepresentation`, its assumption is `UnitAssumed`) for any conversation,
peers, configurations, token counts and budget:

* `BatchesAreLongestRuns`: every batch the query returns is the longest run of rows of one configuration, from the first one that waits, whose
  messages and the conversation between them stay within the budget, or the first row alone. The query's running sum only grows, so what it cuts off is not
  within the budget; that there is a longest run is a least counterexample.
* `ContextsAreGapless`: `ContextIsTheConversation`. `ServedWell` says of every batch taken so far, and of the one that the worker holds, that what the model is shown
  is all of the conversation from the first of its messages to its last.

`SessionsProofs`, for any requests, configuration keys, intervals of the two kinds of summary, batch sizes and operations, from
`SessionsAssumption`, `SummariesAssumption` and `NoRowAssumption` (that no session is the value that stands for none). Cached copies, deletions and requests may
be of any age in all of it:

* `SessionTypes`: `TypeInv` adds to the types that ids and numbers in use are below their counters (`Numbered`)
  and that who fills the cache or merges has a copy.
* `MarksAreQueued`: `MarkedIsQueued` is not inductive, because the deletion that is under way might be the one
  the mark waits for or an older one. `DeletionInv`: if the worker found no session, its row of the queue does not count.
* `MarksAreFinal`: a step property of `TypeInv`; the one column that a merge writes is not `is_active`.
* `NumbersStayFree`: `NumberInv`: who numbers or inserts holds the advisory lock, and what is stored when it
  inserts is part of what it read. Deletions only make it smaller.
* `StalenessIsExplained`: `CacheInv` adds that with Redis nothing is in the deriver's own memory; one lemma per kind of step says that it leaves the entry right,
  excused, or owed by someone (`Covered`).
* `SummariesGrow`: `MessageInv` (numbers are contiguous and in the order of ids; a deletion takes a prefix), `TaskInv` (the task's message is known; if it is gone,
  all messages up to its number are younger) and `AdvanceInv` (what a saver holds is no shorter than what it will replace). Stragglers may hold
  anything, at any time: what they write is `outdated`, and the invariant speaks of the savers with the lease.
* `WindowsMeet`: `CopyInv` (no copy is ahead of its session, and that of an earlier session has nothing of the messages that are there) and `JoinInv`
  (drafts and stored summaries cover what is before their last message; the message where the task's window begins was served, under whatever interval, and what was served is
  in a summary). A sweep starts the savers anew for a message that was served already (`SweepsRestart`). The attempt to prove this found that the property was false as it stood: a task whose message was deleted together with its
  session goes on after the name was created and filled anew, and summarises a window of the new messages
  (`utils/summarizer.py:366`, by number, with the copy it read at the start). TLC's bounds had been too small to reach it. `gap` now counts such a
  summary, too.

`VectorSyncProofs`, for any records, namespaces, reconcilers, batch sizes, attempts and faults, from `SyncAssumption`:

* `SyncTypes`: `LockInv` says that a row held by a reconciler is pending and not deleted (to be synced) or deleted and past the
  grace period (to be cleaned up), that no two hold it, and how many attempts it can have (one more than the limit when the creator's failure came late).
* `SyncedStays`: a step property of `LockInv`: what is committed as pending or failed was held, hence pending.
* `SyncedAreStored`: `StoreInv` adds that who is about to record a success (a creator that has `succeeded`, a
  reconciler's `done`) has stored the vector, or the record was deleted since; vectors are removed of deleted records, and by the deletion of their session,
  which puts them into `erased` until the next upsert.
* `NoOrphansRemain`: `OrphanInv`: an upsert that is still under way at the end of the grace period, or when the session is deleted, is in `late`; what cleanup counts as
  done and what is gone has no vector but such a late one. `EraseLeaves` is the step of `delete_session`: a record whose vector it removed and which nobody is storing leaves none.

They are about `Spec`; the run checks `FairSpec`, which implies it.

`DreamProofs`, of `DreamScheduler` for any processes, collections, savers, callers, thresholds and faults, from `DreamsAssumed` (the module is an instance in `MCDreams`, so its assumption is stated there; timers and
other callers of `enqueue_dream` are different things, which the proof needs and the module did not say):

* `TimerTypes` and `DreamsStaySingle`: `TimerInv` is `TypeOK`, `DreamsAreSingle` and `Alive` (a coroutine that runs has a collection and a process).
  `TypeOK` already says that a saver waits only for a timer that it cancelled or that is gone, so identities are never reused under a waiting saver.
  An entry is set in the step that creates the task and deleted before the task is forgotten, whichever callback does it.

`DeriverServicesProofs`, for any instances, flushes, sizes of buffer and batch, retries and events:

* `EventsStayAccounted`: `EmitterInv` is the types, `EventsAccounted` and `LockInv` (who sends holds the lock; without a holder there is no batch). An
  account has a lemma for each way it changes: events arrive, the buffer's front becomes the batch, a returned batch loses its end to
  the limit, a new event drops the oldest. To reason about it, what has arrived became a set, and the order of
  arrival the statement that all that waits is younger; this implies the property checked before.

`SdkProofs`, of what a user of an SDK sees.

Of `SdkCalls`, for any number of calls, retries and packets under way:

* `CallsHaveTheirType`: `TypeInv` adds to `TypeOK` that attempts are counted per request: those of a call that had no answer are at most
  the ones of its two requests.
* `StoredAsTheyWereCalled`: `CallsInv`. `Fresh`: what is in the network was sent before the attempt that waits, so an old packet is never taken for its
  answer. `ReturnedInv`: nothing belongs to a later call, and an answer that says "ok" has its messages stored. `FailuresInv`: in Python only a call that
  tried can fail, since a failed creation of the workspace is not remembered. `Counted` says what repetition is: the copies of a call and the requests that may
  still become one are no more than the attempts without an answer, and one while the last attempt may have stored it.

Of `SdkPages` (an instance in `MCSdk`), for any rows, writers and size of pages:

* `IterationsAreExhaustive`: `RowsInv` says that ids and times are given in order and that messages, whose writers take turns, become visible in the order
  of their ids. `MessagesInv`: an iteration over messages has yielded the first rows, and whole pages of them. `AheadInv`: a row that was there from the start and whose place
  nothing makes doubtful is behind the pages read so far, by the number of rows before it, until it is yielded. A page that ends
  after the last row is the last.

Of `SdkHandles` (an instance as well), for any programs, tasks and number of uses; its tables of methods are the code's:

* `UpdatesAreKept`: a record is what the programs' updates made of it, unless an object of the Python SDK wrote back what it was told. `TasksAreSound` says of a
  call that what uses an answer comes right after its request; the answer is among the values the record had during the call, and unless the call was overtaken
  it still is the value of a record that is there. So an echo that was not overtaken changes nothing.
* `CachesWereOnceTrue`: the action property `CachesWereTrue`, from the same invariant: whatever a cache takes, it takes from an answer or from a body that was handled.
* That every method's steps are in such an order is a fact about finite tables, which are filtered with `SelectSeq`; the prover cannot compute it. It is
  `PlansAssumption`, part of the module's assumption, and TLC evaluates it for all rows of the table in the run `sdk`. The proof also found an omission of the model: the
  first call on a clone was not aware of what calls on the original object had begun.

`MigrationsProofs`, for any workspaces, users, rows of the first revision, sizes of the backfill's pages and number of writes, and for all ways up, down and back, from
`InitialAssumption`, which is what the schema before the first of the migrations demands of its rows (keys, foreign keys, uniqueness), and the distinctness of generated ids:

* `QueuedWorkIsKept`: `WorkInv`; each migration maps the rows of the queue to rows that say the same of workspace and message, in a payload or in columns.
* `DocumentsStayOfTheirPair`, for peers with any names: `DocumentsKeepTheirPair` is not inductive, since a document's pair is told by the name of its collection at some revisions, by columns at
  others. `DocumentInv`: while names tell and nothing was downgraded, the collection exists with one of the names of the pair; after a downgrade the collection found by the name
  leads back to it. `NamesInv` adds that all names are sequences of letters. What the migration reads out of a name is in three lemmas: of a forward name the
  observed peer (`ForwardName`), of a reversed one too unless it begins like the observer's (`ReversedName`), and of a name that the downgrade joins, unless it begins with the observed peer's (`SharedName`).
  These are the excuses of the property, and TLC finds a counterexample without either. `JoinTells` is the step in between, the join that fills the columns.
* `MessagesKeepTheirOrigin`: `MessageInv` says before the peers that a message was said by the user of its session or by the agent of that user's application
  (`EarlyMessages`); from then on that its workspace, author and session are those of when it was written and exist (`AsSaid`), with ids of
  sessions that are their names or made of workspace and name (`SessionIds`). After the last downgrade nothing is enabled any more, so the property itself is enough.

**Only model-checked.** All liveness, which is out of the proof system's reach, as is `ENABLED`. Of the invariants and action
properties of the runs each is stated by a theorem. `AgentLoop`'s type invariant bounds the tool calls by the largest number of
iterations, which exists for finitely many configurations only; `AgentInv` includes the types without that bound. Type
invariants are checked while a module is developed and are not listed as runs' properties; the theorems `TypeCorrect`,
`DuplicatesAreMerged`, `SessionTypes`, `SyncTypes` and `TimerTypes` prove or include those of their modules.

## 5. Not modelled

The tools of the agents that read (`utils/agent_tools.py`), surprisal sampling, JSON repair and the
parameters of the providers' requests compute a value and keep no state. Peers and workspaces are read
through the same cache as sessions and are only ever added to. Hard deletion of workspaces, the rest of
`clone_session` (messages are copied as they are), the namespaces of the vector store that `delete_workspace` drops, `get_session_context` and its token budget, embedding
batches, webhook delivery, search, filters and formatting are left out: one statement, one request or a
query. Of the SDKs the bodies of requests about other records, streams and the text of a context are left out, of the migrations
those that rows neither change under nor hinder. The emitter catches failed requests and statuses only (`telemetry/emitter.py:279-292`); another
exception would lose the batch it has taken, while the process goes on. Frontend, MCP server, examples and scripts are clients of the
service or tools of the repository. Redis, Postgres, the endpoints and the vector stores are external and appear as the
guarantees the code relies on: atomic transactions, unique indexes, row locks, upserts that store
all or raise, idempotent events.

## 6. Plan

Done: all modules above, and the theorems of section 4, which state every invariant and action property that the runs check.
Next to model would be the budget of `get_session_context` and the batches of embeddings.
