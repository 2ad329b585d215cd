# Academic Pipeline Engine: specification and proofs

TLA+ modules of the Academic Pipeline Engine: of the parts that run
concurrently, retry, crash or are cancelled, and of the algorithms that decide
what becomes of a document; with the TLC configurations that check small
instances of them, and TLAPS proofs for every value of the constants. Paths and
line numbers refer to `src/academic_pe/` unless they say otherwise.

Contents: [the system](#1-the-system), [the plan](#2-the-plan),
[the modules](#3-the-modules-and-the-code), [the runs](#4-the-runs-and-what-they-show),
[disagreements found](#5-where-code-and-documents-disagree),
[the proofs](#6-the-proofs), [what is not covered](#7-what-is-not-covered).

## 1. The system

The engine turns a request into a formatted document. It has two shapes that
share the pipeline: a *local server* (`server.py`), one process with one
current run, JSON records and a SQLite registry for history, and a *service*
with a job API, a relational database, RabbitMQ/Celery workers and object
storage. One web interface serves both, chosen when it is built.

### Components

| Component | State it keeps | Operations | What makes it correct | Module |
|---|---|---|---|---|
| Job lifecycle (`jobs/lifecycle.py`, `persistence/models.py`) | rows of jobs, attempts, stages, checkpoints, events | begin/complete attempt, heartbeat, stage, checkpoint, cancellation, recovery | the rows stay in step, one result, closed attempts are final, a silent worker does not hold a job | `JobContract`, `JobLifecycle` |
| Outbox and delivery (`queueing/`) | outbox rows with lease and back-off, the broker's queue, receipts | create job with event, publish batch, execute once, redelivery | no event is lost, the handler commits once, everything is handled in the end | `OutboxDelivery` |
| Pipeline orchestrator (`core/orchestrator.py`) | `_state`, the document, the cancel event | plan, draft, assemble, validate, review, revise, gate, render | legal route, nothing rendered unchecked, prompt cancellation, termination | `Orchestrator`, `DocumentRounds` |
| Local run server (`server.py`, `core/revision.py`) | `current_run`, `_current_orchestrator`, a record per document | run, cancel, revise, archive, delete, reset | the status never outlives its thread, versions of a document survive | `RunServer`, `RunHistory` |
| Local registry (`core/registry/`) | SQLite rows mirroring records | every method of the store, import at each save and at the start | agrees with the records, also after a crash | `RunRegistry`, `RunHistory` |
| Event stream (`jobs/router.py`), jobs page (`ui/app/components/jobs-workspace.tsx`) | resume point and ids seen; shown job, snapshot, last event, timers | poll, send, serve; select, receive, reconnect | events arrive in order, an active job is always watched | `JobEventStream`, `WebInterface` |
| Live page (`ui/app/components/search-interface.tsx`) | the shown status, stream, timer, requests under way | start, follow, be told | a text shown as completed is whole, a page never waits for a run that is over | `LivePage`, `WebInterface` |
| Sign-in (`auth/`, `admin_bootstrap.py`) | users, sessions, invites, identities, cached keys | register, log in, refresh, log out, bootstrap, activate, provision | logout is final, tokens name the present role, one administrator per invite, one user per subject | `Accounts` |
| Workspace cleanup and artifacts (`workspaces/`, `storage/`) | requests, rows, objects | request, confirm, fail, repeat | a half done cleanup can be repeated, and is completed when it is | `WorkspaceCleanup` |
| Credentials (`secrets/`, `user_settings/`) | sealed secret and wrapped key, the member's selection | create, replace, use, rewrap, delete, select | a deleted credential stays unusable | `Credentials`, `ProviderAccess` |
| Provider resources (`providers/`) | budgets, reservations, counts | reserve, settle, recover, route | no promise beyond the budget, routes that the policy allows | `ProviderResources`, `ProviderAccess` |
| Skill routing (`routing/`) | the vector collection, the search in flight | upsert, delete, scroll, query, fuse, rerank, decide | no version that is gone comes back, confident only on real retrieval | `RoutingDecision`, `RoutingCards`, `SkillRouting`, `ProviderAccess` |
| Model clients (`core/llm.py`, `agents/`) | circuit breakers, memory of rejected options | call, retry, probe | one failed probe reopens, a recovered endpoint is used | `ModelCalls` |
| Research (`core/researcher.py`, `agents/researcher.py`) | threads of the pool, their files | search, crawl, curate, register | a supported claim rests on pages that were found | `ResearchPool` |
| Documents (`core/continuation.py`, `merge_operations.py`, `document_assembly.py`, `section_patch.py`, `document_state.py`, `document_ledger.py`) | the document, its ledger | plan, merge, assemble, patch | nothing is lost that no operation replaces | `DocumentText`, `DocumentEditing` |
| Gates, audit, review (`core/quality_gate.py`, `calculation_audit.py`, `review_payload.py`) | records of calculations | check, upsert, audit, judge | accepted versions keep their order and their results | `QualityGate`, `CalculationLedger`, `Reviewing` |
| Artifact contracts (`manifests/`, `contracts/`) | the contract of a run | resolve, compile, validate, scan for drift | a document stays the kind of artifact it is | `ArtifactContracts` |

`PROJECT.json` lists these and every other part with its status. Not modelled
are the code sandbox, observability and retention, exports and rendering, OCR,
local backup, prompts, templates and configuration, agent adapters, benchmarks,
migrations of the database and the remaining pages: see section 7.

### How the parts interact

* The API commits a job together with an outbox event; a publisher sends it to
  the broker; a worker receives it, runs a handler and commits the handler's
  writes with a receipt. The handler drives the job through
  `JobLifecycleRepository`, and a maintenance process interrupts jobs whose
  heartbeat is old. A cancellation is a flag the worker sees later. The job's
  events are polled by a generator and streamed to the jobs page.
* `POST /api/run` starts a thread that runs an `Orchestrator`; `/api/cancel`
  reaches it through a global and an event object; the thread saves a record,
  which is imported into the registry and which revisions, exports, archive
  requests and deletions read and rewrite, each in a thread of its own. The live
  page follows by a stream and by requests.
* Inside a run the manifest resolver decides the artifact, a pool of threads
  searches the web, a writer drafts or sends merge operations, reviewers answer,
  and gates and audit decide whether the result becomes the next version. Every
  call of a model goes through breaker and retries; credentials, budgets and
  routes say with whose key.

### What is hard

Redelivery and late calls of workers presumed dead; leases that run out while
their holder works; a commit and an acknowledgement that are not one step;
status tested under a lock and used after it is released; rows and files read,
changed and written back by several requests; imports cut short by a crash; a
cancel event tested only at certain places; nested retry loops; answers that
overtake each other; searches over a collection that changes; operations that
are validated against one document and applied to another; numbering that is
rebuilt while the text keeps the numbers. The `hazards` of `PROJECT.json` list
these at their lines with the properties that would notice them going wrong.

## 2. The plan

Written, in this order: `JobContract` and `JobLifecycle`; `OutboxDelivery`;
`Orchestrator`; `RunServer`; `JobEventStream`; `RunRegistry` and `RunHistory`;
`Accounts`; `WorkspaceCleanup`; `Credentials`, `ProviderResources` and
`SkillRouting`, composed by `ProviderAccess`; `ModelCalls`; the document
algorithms, composed by `DocumentRounds`; `LivePage`, composed with
`JobEventStream` by `WebInterface`.

Left, by importance:

1. `JobService`, the composition of `JobLifecycle` and `OutboxDelivery`: is a
   recovered job ever handed out again, given that recovery writes no event and
   the receipt may exist? Today no caller in the repository writes one.
2. Local backup and rollback (`runtime/migration.py`): the data directory is
   replaced by two renames and may be left between them.
3. The heading tree of uploaded documents and the dossier of a continuation.
4. The rendering queue of exports.

Theorems left: none. Every safety property a run checks is a theorem; liveness is
not (section 6 says why).

Modules keep their parameters as CONSTANTS with a named assumption, have one
action per operation and no RECURSIVE operator, so that they can be proved
about. Definitions whose comment begins with "Fault:" are deliberately wrong
variants of the definition that follows them, each a plausible bug of that code.
Nothing uses them; substituting one for its original makes a property of its run
fail, which shows that the property can.

## 3. The modules and the code

### JobContract, JobLifecycle

`JobContract` is what a client of the jobs API may rely on: a phase per job, a
numbered series of executions, and at most one execution that provides the
result. It knows no worker, heartbeat or attempt row.

`JobLifecycle` has one variable per column or child table that the operations
write:

| Variable | Code |
|---|---|
| `status`, `active_attempt`, `cancel_requested` | columns of `jobs`; an attempt is known by its number |
| `heartbeat` | `heartbeat_at` as "none", "fresh" or "stale" (older than `stale_before`) |
| `current` | `current_stage`, `progress` |
| `attempts`, `stages`, `checkpoints` | `job_attempts`, `job_stages`, `job_checkpoints` |
| `reported` | the newest row of `job_events` |
| `on`, `done` | the worker processes: the job each believes to execute, the units it has counted |

Each operation of `JobLifecycleRepository` locks the job row and runs in one
transaction, so each is one action, named after its method; `Transition` is
`transition()` with its idempotent repeat, and `TRANSITIONS` is the table of
the source. Not in the code, and modelled from how it is meant to be called: a
worker takes a job, calls back, lets go at any moment (`Abandon`), and a worker
that was superseded keeps calling until it is told. The payload of a checkpoint
is the number of durable units. `HeartbeatExpires` is the passage of time.

### OutboxDelivery

`SelectBatch`, `SkipPublished`, `ReadEvent`, `Publish`/`PublishRaises`,
`CommitSent`/`CommitRefused` are the steps of `publish_batch`, split where its
transactions end; `ReadReceipt` and `CommitHandler` are those of
`execute_once`. A row is its columns `published_at`, `available_at` (`due`) and
`locked_until` (`lease`). The unit of work writes only columns that differ from
what it loaded, which decides whether a late publisher clears another one's
lease; `locked` in `pub[p]` remembers it. The broker is external: bounded counts
of copies per retry, late acknowledgement, `max_retries`. A lease may expire at
any time when nobody works on the event, and by a *fault* while somebody does;
`overrun` remembers for which events that happened. `faults` also counts
crashes, lost workers, and refusals after the broker took the message.

### Orchestrator

One execution of `run_pipeline` with its place (`pc`), its state machine
(`state`, `DefaultTransitions`), the loops' counters (`sec`, `try`, `round`)
and the document abstracted to what the control flow depends on: which sections
have text, whether the present text would pass the deterministic gates
(`sound`), whether the reviewers approved that very text (`approved`). Any
change of the text makes `sound` arbitrary and withdraws `approved`. A call of
an agent together with the code up to the next test of the cancel event is one
step; `AtCheck` lists the places of these tests. Where turns follow each other
without a test each has a place of its own: `queries`, `research`, `plan` and
`merge` in the planning, `review` and `editorial` when both special reviewers are
configured. `Ends` is the three exception handlers with their best-effort registry
update. `asked` and `extra` record where the run was when it was cancelled and how
many agent turns began since; `TurnsLeft` is how many may, and each of its numbers
is reached.

### RunServer

Threads of requests, pipelines and revisions over `status`
(`current_run["status"]`), `orchestrator` (`_current_orchestrator`) and
`record` (the metadata files). A lock held for one block is one action; a
read-modify-write of a file is a read action that fills `copy[c]` and a write
action that stores it. A version of a document carries its status and who
produced it (`by`), which stands for its snapshot. Deletion and the hard reset
remove a record at any time.

### RunRegistry, RunHistory

In `RunRegistry` a database is a value (the rows of runs, and how many relations
of each kind a run has) and every method of `SQLiteRegistryStore` is an operator
that gives the database its transaction leaves behind; uniqueness and foreign
keys refuse what the schema refuses. The run reads and writes it only through
these operators.

`RunHistory` puts the three stores of the local server beside each other: the
records (`files`, `order`), the directory of each run (`dirs`) and the registry
(`db`). A request is a thread whose place is in `req[t]`: the pipeline writes
registry rows while it runs, then the record, then imports it; an export of any
run renders a file, writes a record of that run which names the file and, for the
other format, the document of `current_run`, and then rewrites and imports the record
that was its latest; archiving, deletion and reset rewrite, remove and empty. A document is named
by the directory and the topic it was rendered under (`DocumentName`), `has` are
the documents a directory holds; runs have distinct topics, as documents of one
directory that share a name overwrite each other, and a page sends the draft of the
run it shows. `FirstOp` and `NextOp` say which transaction of
`import_metadata_json` comes next; `Import` takes them one by one, so that a
`Crash` leaves any part of them; `Start`, `ImportNext` and `Serve` are the start of the process.
`damaged`, `deleted` and `wiped` are bookkeeping of the properties: what was
promised only holds for runs whose requests did not overlap, and of a reset only if
it was not cut short and met no other request.

### Accounts

Users, login sessions, invites and external identities, with the requests that
read and write them. What a request has loaded is in `req[t]`; a later commit
writes only the columns the code assigns, and a token is made from the user *as
loaded* (the session does not expire what it has loaded). The one lock is the
invite's, `MayLock`. Passwords, digests and signatures are abstracted to whether
they match; a session or an invite expires at any time. `mode` chooses between
passwords and external identities, which share the tables; the key cache of the
verifier (`keys`) is refreshed when it is old or when a key is unknown, while
the provider may rotate (`published`). Unique constraints are `Collides`.

### WorkspaceCleanup

A confirmation deletes objects one at a time, then rows statement by statement
in one transaction, and may fail at any step or be repeated, by `Abort` and
`Confirm`. Rows that refer to a job hold it (`Held`), as foreign keys do. The
service goes on: jobs are created and reported on, artifacts are uploaded, object
first and row later. `overlapped` remembers that two confirmations were at work
at once. `FairSpec` adds a user who repeats the confirmation.

### Credentials, ProviderResources, SkillRouting, ProviderAccess

`Credentials`: a secret is sealed with a data key of its own, which is wrapped
with a master key; both are named by the number of the seal, and `Opens` says
when a row can be read. Each request reads its row without a lock, computes, and
writes the columns that differ (`Written`). `ProviderResources`: `ResourceCoordinator`,
whose methods hold a lock and are one action each, and `ProviderRouter.route`,
a pure operator over models, policy, the switches that exclude a kind of key, keys,
and the health of the providers as the sort has seen it and as it is when their
turn comes. `SkillRouting`: a
collection (`points`) that is reindexed while a search scrolls the scopes page by
page, asks every channel, fuses, reranks and decides; every request is answered
at a moment of its own, or fails. `RoutingCards` has visibility and scores of
the cards, `RoutingDecision` the ranking and the confidence bands, which the
manifest resolver uses too. `ProviderAccess` composes the three, which have one
client but no shared state: one of them moves only while the others are where
they began, so that their state spaces add up and do not multiply.

### ModelCalls

Every agent has a client of its own: a circuit breaker around retries around the
provider. `call[a]` is where its call is, `breaker[a]` its breaker with whether
the recovery timeout is over, and `unsupported` the memory, shared by agents, of
endpoints that rejected the reasoning effort. Endpoints fail, recover and change
their mind at any time.

### Documents

A text is a sequence of lines, a line its key (the wording, normalised) and its
marks: what the patterns of the code find in it. Nothing is spelled.
`DocumentText` has sections, terminal sections, reference merging, assembly and
the extraction of state; `DocumentEditing` the intent of a request, the default
plan, validation and application of merge operations, and line patches;
`CalculationLedger` the audit; `QualityGate` the checks; `ArtifactContracts` the
resolver, the compiled contract and the drift checks; `ResearchPool` the threads
of a search, their files, and what of the researcher's answer is registered;
`Reviewing` the reviewers' answers. `DocumentRounds` lets a document go through
rounds: `Continue` starts one (or refuses), `SearchWeb` and `Curate` do the
research, `Merge` or `DraftSection` write, `Assemble`, `Review`, `PatchDraft`,
`RewriteDraft`, `Verified` and `Correct` revise and verify section by section,
`Gate` publishes or refuses; `Revise` is the revision in place. What models write
is chosen from the sets of `MCDocuments`.

### JobEventStream

The server's generator of one connection (`jobs/router.py`) and the jobs page of
the browser (`ui/app/components/jobs-workspace.tsx`), over jobs that change by
the steps of `JobContract`, so that what holds here holds of the jobs that
`JobLifecycle` produces.

| Variable | Code |
|---|---|
| `history` | what each committed row of `job_events` announces, in the order of the commits |
| `listed` | the same rows in the order of `created_at`, in which they are read |
| `stream` | the generator of `stream_events`: resume point, ids seen, rows still to send, the job its session has loaded |
| `wire` | messages sent and not yet dispatched |
| `selected`, `view` | the shown job; how old the shown snapshot of each job is |
| `lastEvent`, `live`, `polling`, `retrying` | the references and timers of the page |
| `asked`, `answers`, `failed` | snapshot requests, their answers under way, the error the page shows |
| `errors` | bounds the errors of the network |

`Commit` is a change of a job with its event. `created_at` is the start of the
transaction and not its commit, so a row can be listed one place before an
earlier one. `Poll` and `Send` are the loop of the generator: a poll reads its
rows in one session, which loads the job once, for the first row it sends
(`Loaded`), and forgets it at the end (`Kept`). `Serve` answers a request for a
snapshot; answers arrive in any order. `Render` is the effect that depends on
the selected job and its status: it closes the old stream, clears the timers and
opens a stream for an active job. `Select`, `TryAgain`, `ReceiveAnswer`,
`RequestFails`, `OnOpen`, `OnMessage`, `OnError`, `Retry` and `PollTimer` are the
page's handlers. Accepting a connection and opening it in the browser are one
event; a new job and the answers to "create" and "cancel" are left out, as they
only replace a snapshot like any other answer.

### LivePage, WebInterface

`LivePage` is the page of the local profile over what `server.py` publishes.

| Variable | Code |
|---|---|
| `current`, `thread` | `current_run` (status, run, and whether the text is a draft or final), and where the thread of each run is |
| `page`, `sse` | the state of the component; its `EventSource` is open |
| `request` | a request for the status: asked, being read, answered |
| `starting` | where `handleStartGeneration` is |

`ReadStatus` and `ReadRest` are the two halves of an answer: `get_status` returns
the dictionary itself, which is written out after the lock is released. `of`
remembers the run whose status was read; `run` is the `run_id` that came with
it. `Show` is `setStatus` with the effect that depends on it. Runs also begin in
other windows (`BeginsElsewhere`), and requests, starts and the stream are lost
(`Incident`). `WebInterface` is `page.tsx`: the profile, fixed at build time,
says which of the two pages there is.

## 4. The runs and what they show

Bounds are CONSTANTS of the configurations and are named in the modules' guards.
States are the distinct ones TLC finds.

| Run | Instance | Shows | States |
|---|---|---|---|
| `job_lifecycle` | 1 job, 2 workers, 1 stage, 3 attempts, 2 units | the rows stay in step (`RowsInStep`); closed attempts are final; the repository implements `JobContract`; an abandoned attempt ends | 141,845 |
| `outbox_delivery` | 1 event, 2 publishers, 2 workers, 1 retry, 3 faults | one commit, nothing vanishes, publication and handling in the end | 55,066 |
| `orchestrator` | up to 2 sections, the code's limits of 3 rounds, 3 sandbox tries and 2 verifications, every configuration | what is rendered was checked; a cancelled run begins only the turns left of the stretch it is in, and is not delivered unless its last review had begun; every run ends, none by an illegal transition | 346,936 |
| `run_server` | 2 pipelines, 1 revision, 1 archiver | the status belongs to a live thread; the first version survives; the server becomes free again | 143,689 |
| `web_interface` | service: 2 jobs, 2 changes, 1 answer under way, 2 errors; local: 2 runs, 1 poll besides the start, 1 loss | the stream is current, the jobs page keeps watch, news of the own job arrives; a completed text is whole, a started run is followed | 178,522 |
| `run_history` | 2 runs with 2 records, 2 threads, 3 requests, 1 crash | the registry mirrors the records, a finished run is listed after any crash, a reset is final | 2,072,898 |
| `accounts` | 2 threads, 2 addresses, 2 subjects, 1 session each, 3 tokens, 1 rotation | logout is final, tokens name the present role, invites are single use, sign-ins agree | 1,591,229 |
| `workspace_cleanup` | 2 requests, 2 confirmers, 1 job, 2 artifacts, 2 reports | half deleted is retryable; a cleanup that is confirmed again and again is completed | 188,665 |
| `provider_access` | 1 credential with 2 seals, 2 threads; 2 providers, 2 jobs, 2 units; 5 cards, 2 writes | deleted stays unusable, the budget is kept, routes are justified, nothing is resurrected, trust needs stored evidence | 383,443 |
| `model_calls` | 2 agents, 1 endpoint, 2 attempts, threshold 2 | the probe decides; a recovered endpoint is used | 4,352 |
| `documents` | 4 documents, 2 rounds, 2 queries | nothing else is lost, terminal sections stay last as far as assembly and gate know them, shown results hold, supported claims rest on found pages, the artifact is inherited | 215,133 |
| `documents_citations` | the same | section 5 | stops at the counterexample |

The properties are defined at the end of each module with a comment each. Typing
invariants are in no run: theorems or lemmas establish them for every module with
proofs (section 6). Two of them say more in an instance than what is proved:
`TypeOK` of `JobEventStream` bounds the numbers of events by `MaxEvents`, which
would need a sum over the jobs, where the proof knows only naturals
(`DatabaseTyped`, `ClientTyped`, `StreamTyped`); and `HistoryTypeOK` of
`RunHistory` bounds what `HistoryTyped` leaves to the other parts of its
invariant. Both can be added as an INVARIANT to their runs.

*Why the bounds are enough.* Jobs interact only in the recovery pass, which
treats each alone; two jobs with two attempts were checked without stages. Two
workers and three attempts let a worker be declared dead, be superseded, come
back, and be superseded again. Outbox events interact only through a batch; two
events with one fault were checked. Three faults allow a duplicate by the
publisher and another by the broker in one behaviour. Two sections exercise every
loop more than once; the retry limits are the code's. Two pipelines overlap while
the first saves; two revisions and an archiver with one document were also
checked. Two changes let a job's events be listed in another order than they were
committed, and a stream be between them when it breaks; two errors let it break
again after it resumed. In the local profile one late answer and one run that
begins meanwhile are what makes a page wait for the wrong run. Two requests are
every race on one row; the third lets one of them follow. Three refresh tokens
are a token, its successor and the one after. Two artifacts are one whose object
is gone and one whose is not; two jobs with one request were also checked. One card per page makes the scroll cross every
write; a card may be replaced, retired or overridden between two pages. Two
rounds make the second round continue what the first has produced, with another
request, which is where inherited contracts, rebuilt ledgers and kept
calculations meet.

*Fairness.* `JobLifecycle` assumes only that time passes and that the
maintenance process makes its passes (Celery beat schedules it); nothing is
assumed of workers. `OutboxDelivery` assumes that publishers and workers are
restarted and scheduled, that time passes, and that a broker asked infinitely
often takes the message some day (strong fairness of `Publish`); `MaxFaults`
bounds the faults, as eventual delivery needs. `Orchestrator` assumes weak
fairness of the one thread that executes: agents' clients and the sandbox have
timeouts, so a call returns or raises. `RunServer` assumes weak fairness of each
background thread; that a pipeline leaves `executing` is `Terminates` of
`Orchestrator`. `WebInterface` assumes that the generator's loop turns, that
requests are answered, that the browser dispatches what arrives and fires its
timers, and that a pipeline ends; nothing of users, jobs, network errors or of
the local profile's stream, whose messages may never come, as a timer is there
for that. `ModelCalls` assumes that an agent that is asked calls, that requests
come back or time out, and that the recovery timeout passes; its liveness
property is conditional on an endpoint that answers from some time on.
`WorkspaceCleanup` assumes that the user repeats the confirmation of a request that
is still pending, that the threads of confirmations run, and that storage and
processes cease to fail some day; `MaxReports` and the identifiers bound the rows
that make a transaction roll back.

`CHECK_DEADLOCK FALSE` in every configuration but `ModelCalls.cfg`: these
systems may stop with nothing left to do (the job ended, everything handled, the
run over, every job ended and shown, both rounds made) or at a bound of the
configuration (all tokens, requests, seals used).

## 5. Where code and documents disagree

**`documents_citations`** is a run of the project. A continuation builds its
evidence ledger from the list of references of the source
(`core/document_ledger.py:184`) and never reads the ledger that was saved with
it. Cards are numbered anew while lines that are kept still say `[SRC-002]`. In the
counterexample the version has the ledger B, A and the references A, B: the marker
of a line that is kept names A before and B after.

The following properties are defined in the modules and violated as well; adding
the property to the configuration named shows it.

| Property | Add to | What the code does |
|---|---|---|
| `EveryAttemptHasAnOutcome` | `JobLifecycle.cfg` | `begin_attempt` on a RUNNING job opens a second attempt and leaves the first row RUNNING for ever; `acknowledge_cancellation` leaves the attempt it cancels open (`jobs/lifecycle.py:59`) |
| `DurableUnitsStayCounted` | `JobLifecycle.cfg` | a superseded worker overwrites the checkpoint of the newer attempt, and durable units are repeated |
| `ErrorsEndInFailed` | `Orchestrator.cfg` | the `PipelineError` handler re-raises without setting FAILED; `docs/ORCHESTRATION.md` draws that edge from every state |
| `RefusedCancelIsTrue` | `RunServer.cfg` | the `finally` clause of an earlier run clears `_current_orchestrator` of the one that executes, which then cannot be cancelled (`server.py:1333`) |
| `ReadyVersionsKept` | `RunServer.cfg` | archive requests and revision threads rewrite a record without a lock: a ready revision can disappear |
| `NewsIsReceived` | `WebInterface.cfg` | the jobs page keeps one `lastEvent` for all jobs; a stream that resumes after another job's event takes every row for seen and stays silent |
| `ShownJobIsRefreshed` | `WebInterface.cfg` | a stream without a resume point takes the rows of its first poll for seen (`jobs/router.py:152`); a change between snapshot and poll is shown never |
| `RestartKeepsRow` | `RunHistory.cfg` | the start imports every record over the registry, the record of an export last: an archived run is active again (`server.py:49`; `docs/ARCHITECTURE.md:170` calls the registry the single source of truth) |
| `SourcesAreKept` | `RunHistory.cfg` | the import after a run deletes the sources registered for its attachments and adds only that of a continuation (`docs/REGISTRY_SYSTEM.md:133`) |
| `OnlyMissingAreDropped` | `RunHistory.cfg`, with 1 thread and 4 requests | the record of an export names the document of the other format as `current_run` has it, which may lie in another run's directory (`server.py:1858`); the listing looks for it in the run's own (`server.py:2029`) and leaves the run out, though the comment there speaks of files "that no longer exist on disk" |
| `ReuseFails` | `Accounts.cfg` | two requests with one refresh token are both answered with new tokens, one of which no row stores (`auth/router.py:246`; `AUTH_MODEL.md:6`) |
| `DeletedIsDestroyed` | `ProviderAccess.cfg` | a replacement that read the row before writes a new secret into the deleted row (`secrets/store.py:75`; `SECRET_MODEL.md:24`); `DeletedIsUnusable` holds |
| `ActiveIsReadable` | `ProviderAccess.cfg` | a rewrap and a replacement that meet leave the wrapped key of one with the payload of the other: an active secret nobody can open |
| `SelectionIsOffered` | `ProviderAccess.cfg` | two updates that meet each write only the columns that differ from what they have read: a provider is stored with another's model |
| `NoSilentOrphan` | `WorkspaceCleanup.cfg` | a row that is inserted after a confirmation has listed the artifacts goes with the job, its object stays and no request names it (`DATA_MODEL.md:114`) |

Met while modelling, and described here only:

* *Documents.* Assembly takes body sections such as `data_sources` for lists of
  references. A document with two lists of references can never be continued,
  and one with `[CALC-…]` markers always ends in a refusal. "Rebuild the
  references" is read as a restructuring (`core/continuation.py:34`), and
  restructuring or revising in place may drop entries that `[n]` still cites,
  because the gate counts the registry of the source. A patch revision passes the
  quality gate but not the drift checks of the contract.
* *Contracts.* The page prefills the topic of a continued document
  (`ui/app/components/search-interface.tsx:943`), whose cues outrank the inherited
  manifest (`manifests/resolver.py:119`), so an override of the artifact is lost.
  A manifest that is refused leaves the run without drift checks.
* *Research.* One truncated file of the pool stops the registration of all cards
  and claims, while the planner still sees the cards
  (`core/orchestrator.py:1392`); in mock mode pages that failed become cards.
* *Orchestrator.* A self-verification takes over a correction whose code failed in
  the sandbox (`core/orchestrator.py:1935`).
* *Routing.* Reindexing never deletes superseded versions, so a scope outgrows the
  page limit in the end, and that error is not answered by the fallback
  (`routing/qdrant.py:369`).
* *Credentials.* A worker that has read a credential before its deletion gets the
  secret also after it (`secrets/store.py:96`).
* *Exports.* The record of an older run's export carries the logs, ledgers and
  revisions of `current_run`. Deleting a run deletes the document its record names in
  whichever run's directory it lies (`server.py:585`).
* *Terminal sections.* A writer's references put before a section such as
  `glossary_of_terms`, which assembly takes for a terminal section and the gate for
  body text, stay there: `TerminalsStayLast` allows that, and
  `core/merge_operations.py:289` names no such exception.
* *Local server and page.* The record of a finished run reads `current_run` after
  the lock is released (`server.py:1286`), so a run that begins in between puts
  its values into the other's record. COMPLETED is published before the record is
  written, so the sidebar's one refresh may miss the new work. A late answer of an
  older run can hide a running one; a start that is refused or whose answer is
  lost shows FAILED, and nobody follows the run that executes. An answer that
  mixes two runs can show COMPLETED with the empty text of the next. A failure to
  save an earlier run sets FAILED while another executes. A section that is saved
  sends the page's whole context and may land in another run. Run ids have a
  resolution of one second (`server.py:1345`).

## 6. The proofs

Every theorem holds for all values of the constants, under the named assumption
of its module: that bounds are naturals, that null values are not members of the
sets they are added to, and what the modules' comments name. Each proof module
has an inductive invariant, because what a property says is seldom enough to show
that a step keeps it. TLC checked each invariant before it was proved.

* `JobLifecycle_proofs`: `Inv` is typing, `RunningJobIsHeld`, `SingleResult`,
  `AttemptsAreNumbered`, `HistoryMatchesStatus`. That a closed attempt cannot be
  closed again needs that a running job's active attempt is the open one; that a
  new attempt overwrites nothing needs that higher numbers are unused. The proof
  restates it per job (`InvByJob`), shows that a job whose rows do not change
  keeps it (`Frame`) and treats each action for the job it touches. From it
  follow `RowsStayInStep`, the action properties `AttemptsAreFinal` and
  `StageProgressIsMonotonic`, and `Implements`: `Spec => KeepsContract`, with the
  result of a job mapped to the number of its succeeded attempt.
* `OutboxDelivery_proofs`: to typing and `NothingVanishes` it adds what publishers
  and workers may believe (`PublishersKnow`, `WorkersKnow`) and that what a
  publisher has sent and not yet marked leaves a trace (`SentIsTraced`), since the
  mark is set from the publisher's memory. `HandlerExecutesOnce` rests on the
  receipt, `LeasesExclude` on the invariant that a worked-on event is leased by its
  publisher or counted as overrun.
* `Orchestrator_proofs`: where the thread is fixes the state (`StateAt`), how far
  counters have come (`Counted`), what was judged (`Judged`) and how many turns
  followed a cancellation, against those left of where it came (`Interrupted`). Legality of transitions and the promptness
  of cancellation need all of them.
* `RunServer_proofs`: `StatusIsHeld` needs only the places of the threads.
  `FirstVersionKept` needs that every record *and every copy in a thread's hands*
  begins with the generated version (`FilesBegin`, `CopiesBegin`): any of the
  copies may be written back.
* `Accounts_proofs`: eight parts. The central ones say that what a request has read
  may be old but was true (`RequestsHold`, `TokensHold` by `WasRead`), and that a
  user who was never promoted has version 0 (`UsersHold`): lost updates of the
  version never bring back the one a user's token names.
* `Workspaces_proofs`, in three parts. Records: `AuditIsExact`: the loop of the audit
  evaluates exactly the records that follow from their inputs. What its passes keep
  (`AuditKeeps`) is that a record that has left was judged by inputs that do not
  change any more (`HoldsIsStable`, as no two records share an identifier), that a
  pass takes a record or there is none to take, and that nothing is evaluated
  that some closed set does without. `RecordsInv` carries this through the rounds:
  whatever drafts, revisions and corrections record, what `CanUpsert` lets through is
  a ledger, and the records a version carries are the ones its gate has seen;
  `ShownResultsHold` follows. `ContractInv` (the contract of a run is that of its
  request and of the version it continues) gives `ArtifactIsInherited`, by a lemma on
  the resolver that needs the best cue to exist (`BestCueExists`). `ResearchInv` (the
  references a search starts from have no address) gives `SupportedIsFound` also where
  a curation without cards is let through unchecked. Assumed is that a document starts
  as what a gate has let pass or as an upload without records and shown results.
  Documents: `DocInv` gives `NothingElseIsEverLost` and `TerminalsAlwaysStayLast`. It
  says that versions and drafts are documents (`DocumentsInv`: sections with
  distinct names, texts that are sequences of lines), where a run stands in its
  draft (`PlacesInv`: while it drafts, the draft has the first sections of its
  version; once assembled, the names that go last are last), and that a merged
  draft holds what no operation of the plan replaces (`MergedInv`), which the
  property says only of the step after. A line survives the plan because it
  survives each operation (`EditedKeeps`, one case per kind of operation, from
  what appending, inserting, deduplicating and partitioning keep) and the loop is
  a function on the numbers of operations done (`AppliedKeeps`); that it survives
  the assembly (`AssembledKeeps`) uses that a section has one name and a place in
  the order, or else is appended. The recursive functions of the model (the
  selection of places, the loop over a plan or over the blocks of a patch) exist by
  an argument on the least place where a function that agrees so far cannot be
  extended (`StepsExist`), which takes no induction theorem with an operator as
  parameter. `TerminalsAlwaysStayLast` assumes nothing of the two lists of names:
  continuation goes by a set of aliases (`continuation.py:92`), assembly by a pattern
  (`document_assembly.py:54`), which differ, for example on "works cited". Terminal
  sections of the source are the gate's (`PlacementRefuses`, with `SourceInv`: a run
  goes by the version it started from), those a round has added are assembly's. Of an
  instance it is assumed that a run's
  documents, outputs and patches are texts, that an override is a
  `ContinuationIntent`, and that the list of terminal names holds "references" and
  no empty name.
  Titles and roles may make a section terminal as well: a member of either list is a
  name that has such a title or role wherever it occurs.
  Deletion: `Tracked` (what is on its way is not in the hands of a confirmation) and
  `OneAtWork` (as long as confirmations have not overlapped, the one at work holds a
  pending request).
* `ProviderAccess_proofs`, in four parts. Search: `SearchInv`. While the scopes are
  read, a card that was stored all the time is read or still ahead of the page
  (`ScrollHolds`), and keys do not repeat; while the channels are asked, everything
  that counts is read and every hit was vouched for by a card of the collection
  (`QueryHolds`). The lemmas about the operators say what is returned: a rank below
  the number of results belongs to exactly one of them, as no two share a key
  (`OrderedResults`), fusion adds numbers (`RanksAreNumbers`) and returns visible
  cards with the channels that hit them (`FusedResults`). Credentials: `DeletionHolds`: a thread
  that has read a row as deleted or is about to change it cannot make a deleted row
  another, since it writes only columns that differ; and a worker is only given the
  secret of a deleted row if it had read the row before. Resources: `Reserved(p)` is
  the number of units reserved on `p`, a cardinality, so that what `Reserve` adds
  and `Release` takes away is one lemma about finite sets (`OneReservation`);
  `BudgetIsKept` is inductive once a waiting job's grant is known to be reserved
  (`GrantsAreReserved`). `RoutesAreAlwaysJustified` is about the pure function
  `Route`, for any answers of the two lookups of the health, and needs no invariant: the first provider by the keys of the
  ranking exists when one is eligible (`FirstExists`), and no eligible one is before
  it. Model calls: `InFlight`: an agent with a call under way has a circuit that is
  not open; it makes `ProbeDecides` inductive.
* `WebInterface_proofs`: `JobsInv` adds to `StreamIsCurrent` and `ClientKeepsWatch`
  that the batch of the generator holds only rows that were not sent, at versions
  the session's job covers (`BatchIsCovered`), and that every message was marked as
  seen before it went out (`MessagesAreSeen`). `Fresh` gives a new stream, `From`
  the rows after a resume point: `FromIsNew` shows that a list with each row once
  never yields a row twice, in whatever order rows were inserted. `PageInv` follows
  the text on its way: what is published under COMPLETED is the run's result
  (`ResultIsPublished`), an answer that was read in one piece of state is whole
  (`AnswersAreWhole`), and so is the page.
* `RunServer_proofs`, second part (`RunHistory`): `HistoryInv`. While exactly one
  request works on a run that is not damaged, its place says how far the run's
  rows, relations and files have come (`Fits`): before the record is written the
  registry still mirrors the old one, during an import the relations cleared so
  far are empty and those added are there once (`Progress`), afterwards it mirrors
  the new one. `BootFits` says the same of the start, which works on every run
  while nobody else does; `Wiped` that nothing in anybody's hands can write after a
  reset; `WritesAreNamed` that a record is only written back under a name that was
  used. `ThreadStep` reduces a step of a request to what becomes of its own run. A
  crash is the step that needs all of it: whatever part of a plan it leaves must
  be something the next start repairs.

Only model-checked:

* liveness (`AbandonedAttemptEnds`, `EventuallyPublished`, `EventuallyHandled`,
  `Terminates`, `RunningEnds`, `OwnNewsIsReceived`, `StartedRunIsFollowed`,
  `RecoveredEndpointIsUsed`, `CleanupCompletes`), since the installed provers handle neither fairness
  nor ENABLED;
* that event numbers stay below `MaxEvents`.

## 7. What is not covered

* Text: prompts, what agents answer, wording, layout. A line is a key with marks;
  a pattern finds a mark or not.
* Clock values: a heartbeat is fresh or stale, a lease held or expired, a timeout
  over or not. That the lifetime of a token or the length of a back-off is what it
  should be does not appear.
* Database behaviour below transactions: a transaction is atomic and a row lock
  excludes; where the code reads without a lock the read is an action of its own.
* Cryptography: whether a signature, a digest or a cipher matches is an outcome.
* Jobs: a request of cancellation that is never cleared; that recovery writes no
  outbox event (section 2); an `IntegrityError` of a handler's own rows, which is
  taken for a duplicate delivery (`queueing/worker.py:32`); deletion of a job whose
  stream is open; the order of an event in the batch of a publisher.
* Server: logs, previews and plans in `current_run`; template and settings
  endpoints; torn reads of a record that is being written; saving of single
  sections.
* Pages: history, uploads, exports, revisions and settings of the web interface;
  several tabs share nothing but the server.
* Documents: the heading tree of uploads, dossier and terminology; provenance
  that nothing reads back; templates and instruction compilers.
* Without state that interacts, and left out: the sandbox (it succeeds or fails),
  rendering and its checks, OCR, observability and retention, prompts and
  configuration, agent adapters, benchmarks and smoke runners, migrations.
  `runtime/migration.py` is in section 2.
