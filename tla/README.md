# milpbookLM: verification development

TLA+ models of milpbookLM (a private research notebook: a FastAPI server, worker
processes, PostgreSQL, a content-addressed blob store and a React client), TLC
configurations that check them on small instances, and TLAPS proofs of what matters
most for every value of the constants: all safety properties of the passing runs.
Paths below are relative to `src/`; `jobs/`, `blobs/` and `sources/` stand for the
directories of
`packages/adapters/src/milpbooklm_adapters/`, `application/` and `domain/` for the
packages of that name, `workers/` for `workers/src/milpbooklm_workers/`, `api/` for
`apps/api/src/milpbooklm_api/`.

## 1. The system

| Component | State it keeps | Operations | Talks to |
|---|---|---|---|
| durable job queue (`jobs/pg_jobs.py`, `domain/jobs.py`, `application/job_usecases.py`) | tables `jobs`, `job_attempts`, `idempotency_keys` | enqueue, claim, transition, record_progress, complete, cancel, recover_expired | the outbox, in the same transaction |
| worker loop (`workers/loop.py`) | per process, the `JobRecord` it last read | poll, claim, check authorization, run a handler, publish | the queue; handlers |
| job routes (`api/job_routes.py`) | none | enqueue, cancel, read, event stream | queue, outbox, browser |
| outbox (`jobs/pg_outbox.py`) | table `outbox_events` (`seq` is an identity column) | append, read after a position | event stream |
| event stream (`_event_frames`) | per connection, a cursor and a batch | open (tail, resume, gap), fetch, yield | browsers |
| web job store (`apps/web/src/state/jobs.tsx`) | jobs shown, watched ids; the EventSource's Last-Event-ID | watch, resync | stream, routes |
| blob store (`blobs/filesystem_store.py`, `blobs/pg_repository.py`) | files under `objects/`, tables `blob_objects`, `blob_references` | put, get, delete_final, list_finals | everything that stores bytes |
| blob GC (`application/blob_usecases.py`) | none | reconcile, collect | blob store |
| source acquisition (`application/source_acquisition.py`, `sources/pg_sources.py`) | `sources`, `source_versions` | put and acquire | blob store, queue |
| source purge (`sources/pg_purge.py`, `api/source_lifecycle_routes.py`) | `purge_tasks`, tombstones | preview, mark, enqueue, erase | queue, blob store, nearly every table |
| source versions and activation (`sources/pg_source_activation.py`, `adapters/parsers/`, `workers/handlers.py`) | status of sources, versions and documents | refresh, parse, fail, activate, rename, select | parse and index jobs |
| index generations (`application/indexing.py`, adapters `indexing/`) | `index_generations`, `index_chunks` | build, resume, swap_ready, mark_failed | queue, retrieval |
| chunking (`application/chunking.py`) | none | document to chunks | index builds |
| web fetch (`adapters/fetch/`) | the connection pool | fetch along redirects | sources, research |
| web search (`application/web_search_cache.py`) | the cache of one process | search | the search service |
| grounded chat (`application/chat.py`, `grounding.py`) | conversations, messages; cancellation marks in memory | turn, cancel, reset, delete | retrieval, providers |
| notes (`application/note_lifecycle.py`, `NotesPanel.tsx`) | `note_revisions`; two queries and a draft in the client | fetch, edit, save, resend | routes |
| artifacts (`application/artifact_lifecycle.py`) | `artifacts`, `artifact_versions` | create, generate, edit, regenerate, cancel, mark | blob store |
| study and export (`application/artifact_study.py`, `artifact_export.py`) | `user_artifact_state`, snapshots, exports | write, freeze, request, download | access policy |
| research runs (`application/research*.py`) | `research_runs`, steps, evidence, budgets | create, start, pause, resume, cancel, execute | queue, web, sources |
| browser session (adapters `research/browser_worker.py`, `browser_worker.mjs`) | a Node process, the posture it has proven, the call under way; in Node, what it has noted and not yet told | start, open, observe, interact, aclose | research runs; Node over a pipe |
| execution broker (adapters `execution/`) | socket, replay guard, quarantine | serve, run, collect, publish | worker, blob store |
| inference manager (`workers/inference.py`) | references, locks and processes of models | serial_session, load, unload | GPU |
| credentials (adapters `security/`) | ciphertexts; the keyring file | store, dispatch, rotate | providers |
| identity, sessions, custody (`application/authn.py`, `custody_usecases.py`) | accounts, sessions, notebook ownership | bootstrap, log in, rotate, disable, take and transfer custody | every route |
| policy engine, providers, telemetry, wiring | none | pure functions and I/O | the above |

What is hard here. Several workers and API processes write the same rows under READ
COMMITTED; each use case is a sequence of separate transactions, so the record an
actor holds is stale when it writes it back. Workers are restarted whenever they die
and a job is handed out again once its lease has run out, whether or not its worker
still lives. Erasure and garbage collection act on files and rows without a common
lock. Events are numbered in one order and become visible in another. Clients
reconnect, lose frames and apply answers in any order.

What makes each of them correct:

* queue: one settlement and one event per job, whoever settles it; bounded attempts;
  budgets; one job per idempotency key; no lost report; every accepted job settles.
* worker: publishes only what it may, never dies of a lost race.
* stream and web store: at least once, no silent stall, the view converges.
* blob store, GC, purge: a live source is readable; a completed purge has erased.
* sources and index: what is served is the current version, whole, and nothing that
  fails takes it away; chunks tile the document.
* research, execution, fetch: nothing is done without its approval, budget or right,
  also by two workers at once.
* artifacts, notes, study state: no version or revision is lost, mixed up or repeated.
* chat: a cancelled turn does not answer, and an answer cites only what may be read.
* models, credentials, accounts: exclusive use of the GPU, no secret lost by a
  rotation, no session of a disabled account, no notebook without an owner or a lock.
* all of them: what was begun ends, as far as the code sees to it.

The `hazards` of `PROJECT.json` list where each can go wrong.

## 2. Modules

| Module | Content |
|---|---|
| `JobStates` | the logical state machine and its physical encoding (`domain/jobs.py`, `jobs/_rows.py`) |
| `JobLifecycle` | abstract: what the queue promises for one job |
| `JobQueue` | tables, workers and API requests; refines `JobLifecycle` for every job |
| `EventFeed` | abstract: what the event stream promises one subscriber |
| `Outbox` | transactions that end jobs, the event stream, the browser; implements `EventFeed` for every browser |
| `BlobStore` | one content: writers, erasers, collector, power failure |
| `SourceIngest` | one source: its versions, parse jobs, requests and workers |
| `SourceIndex` | the generations of one version and their builds |
| `Chunking` | the walk over one document, and the loop that turns its units into chunks |
| `WebFetch`, `WebSearch` | the fetch service with its pool; the search cache |
| `GroundedChat` | conversations and turns of one actor |
| `Notes` | one note, its revisions and its editors in the web client |
| `StudyExport` | study state, snapshots and exports of one artifact version |
| `ResearchRun` | one run: row, steps, evidence, jobs, requests, executors |
| `BrowserSession` | the browser of one run: the session object and the Node processes it starts |
| `Artifacts` | one artifact: row, versions, requests |
| `Execution` | workers, their brokers, the shared execution root, jobs and outputs |
| `Inference` | references, gate and locks of the local models |
| `Credentials` | rows, keyring file and commands |
| `Accounts` | accounts, sessions, ownership and custody |
| `MCJobQueue`, `MCOutbox`, `MCBlobStore`, `MCAccounts` | names and symmetries for the instances |
| `MCNotebook`, `MCServices`, `MCProgress` | harnesses of several components each |
| `JobQueueProofs` | theorems about `JobQueue` and its refinement of `JobLifecycle` |
| `OutboxProofs` | theorems about `Outbox` and its refinement of `EventFeed` |
| `BlobProofs`, `AccountsProofs`, `ResearchProofs` | theorems about one module each |
| `SourceProofs` | theorems about `SourceIngest` and `SourceIndex` |
| `NotebookProofs` | theorems about `Notes`, `StudyExport` and `GroundedChat` |
| `ServiceProofs` | theorems about `Artifacts`, `Inference`, `WebSearch`, `WebFetch`, `Credentials`, `Execution` and `BrowserSession` |

Three harnesses check the component modules: `MCNotebook` what a user touches
(`GroundedChat`, `Notes`, `StudyExport`, `SourceIngest`, `Accounts`), `MCServices` what
works behind it (`JobQueue` with two jobs, `SourceIndex`, `Chunking`, `WebFetch`,
`WebSearch`, `ResearchRun`, `Artifacts`, `Execution`, `Inference`, `Credentials`,
`BrowserSession`), `MCProgress` what must end (`SourceIngest`, `SourceIndex`,
`ResearchRun`, `Artifacts`, `Execution`, `Inference`, `Credentials`). Components that
meet only through a choice (retrieval finds something, a provider answers) need no
product of their states, so a harness has a variable `focus`, chosen at the start: a
behaviour takes the steps of the component in focus and leaves the others where they
are. What does meet is inside one module: requests, workers and jobs of a source;
turns, resets and restrictions; workers, brokers and the socket they share.

### JobQueue

`rows`, `log` and `outbox` are the tables, one entry per job; `request` is the
immutable part of a job row together with its idempotency key. A row's `lease` is
`live` or `expired`; `LeaseExpires` is time. `stage` stands for progress and
checkpoint, which `record_progress` and the settling writes replace by what the
writer held.

A worker's `pc` names the next transaction of `_poll_once` and `_execute`, `held` is
the `JobRecord` in its hands. The claim is three steps, because the budgets are
counted on the snapshot of the statement (`Snapshot`), the batch is locked row by row
with SKIP LOCKED (`LockBatch`), and only then the chosen row is written (`ClaimJob`).
`Recover` is the reaper that every poll begins with. `Report` and `ReportRefused`
are `_LoopContext._update`; a handler may ignore `should_stop` and end with a result
anyway (`HandlerEnds`), which is how a stale worker comes to publish. `PublishRead`,
`Revalidate`, `Complete` and the cancel steps are `_publish_result`, `_succeed`,
`_fail` and `_cancel_job`; `Abort` is the exception they do not catch. A client's
`cpc` walks through `_with_capacity_check` and `cancel_job` the same way.

Reduced: one capacity class; the idempotency key never expires (the TTL is stored and
never read); the kind and the payload of a job are its `body`. A row that another
transaction has locked is never an expired one that stays expired, so SKIP LOCKED in
the reaper needs no choice.

### Outbox

An event is its `seq`. `AppendOutbox` takes a number, `Commit` shows the row,
`Rollback` burns the number. Since only terminal events are appended and a job has
one (proved of `JobQueue`), the set of committed events is also the state of the jobs
that a read returns. `Open`, `Fetch` and `Yield` are `_event_frames`; `Receive`,
`Drop`, `Watch`, `Serve` and `SetJobs` are the EventSource and `resync`. `Restore`
is a database restored from a backup, the case the gap branch is written for. `late`,
`start`, `got` and `seen` are history variables.

A gap's frame carries no id (`job_routes.py:311`), so the browser keeps the position
from before the restore; should the table pass that position before another event
reaches the browser, a reconnect resumes there and the events below it are not sent.
`Resumes` counts such a connection as a new subscription.

`EventFeed` states the promise without connections, batches or frames: a log of events,
a subscriber that has heard some of them and has a place from which it would go on. It
hears the events of the log after `from` in order, each once, and none is left out but
one that appeared behind a later one. `ImplementsFeed` maps the
committed events to the log, `got` to what was heard and the Last-Event-ID to the place:
a dropped connection, a poll and a frame under way are stutters of the feed.

### BlobStore

`file` is `absent`, `volatile` (linked, its directory not fsynced) or `durable`;
`row` the `blob_objects` row, `ref` the reference of each writer's source. A writer's
steps are those of `put` (exists?, verify, link, fsync, read row, write row) and
`acquire`; the writers of `Direct` commit their reference with the row, the others
create it in the next transaction. `EraseScan`, `EraseCommit`, `Unlink` and `Drop` are
`erase`; `Redelivered` hands the job out twice. `GcList`, `GcRows`, `GcRefs` and
`GcDelete` are the collector. `DelayElapses` lets a day pass, at a time when nothing
is under way. `raced` remembers that a put ran at the same time as an eraser or a
collector pass, or reused a file before it was durable.

### SourceIngest

`source` is the row, `sv` the versions with the state of their document, `parseJob`
the job of each. A client's `pc` walks through the transactions of an acquisition, a
refresh, a rename or an activation (the catalog under its lock, the job in a second
transaction, the view that the route reads again before it enqueues an index job).
A worker claims a parse, marks, persists or fails, and finishes; the claim may be a
second one. A row of `parseJob` is `queued`, `claimed` or `settled`. Its lease runs out
under a worker that lives (`ParseLeaseLost`) or dies (`ParserDies`); the reaper queues it
again or, after the last attempt, fails it. The owner cancels it (`CancelParse`), and it
is given up at dispatch or by an exception that no handler expects (`ParseAbandoned`).
Whoever ends a parse settles the job if it is open, whoever holds it by then
(`ParseEnds`): the loop reads the row again and compares with what it has just read.
`stranded` remembers that a job was settled without an outcome of its version. An ETag
is the `revision` its author saw, and `title` counts renames.

### SourceIndex, Chunking

`gen` holds status, chunk rows and embedded rows of each generation; a build is the
handler's path (status, create or resume, insert, embed in batches, swap or fail).
`buildJob` is lost, reaped, cancelled, given up and settled as a parse job is;
`mark_failed` and the settlement after it are two steps.

`Chunking` has one action per turn of the code's loops. `Visit` is a call of
`_walk_units`: `stack` holds the ids the recursion has still to visit, `walked` those it
has visited (kept for the properties), `units` what it collected. `_group_units` then
keeps a unit whole, attaches a heading, gathers units into a `cursor`, or splits one
window after the other. A character is `w` of a word or `_` of white space, so that a
token is a run of `w`, and the documents are chosen so that units are merged, split by
words, and overflow a window. A table has the text of its flattened cells; language and
section ancestry are left out.

### WebFetch, WebSearch

A fetch goes hop by hop: the name is resolved and every address checked, the chosen
one dialled or an idle connection of that host reused, and the answer redirects, is
captured or fails; names change between any two. A search looks into the cache, waits
for the service, and stores what it gets with the time it *began*, as the code does.

### GroundedChat

A turn reads its conversation, freezes a manifest, retrieves, drafts and publishes or
abstains; each is a transaction or an access to the set `marks`. `reading` may change
between any two. A conversation may be reset, deleted or cancelled at any time.

### Notes, StudyExport

An editor has a `seen` revision of the note and a `listed` one of the history, by two
queries; it drafts from what it shows, sends with an ETag, and may lose the answer.
`upsert_user_state` is two actions, its SELECT and its write. `held` and `replaced`
are history variables.

### ResearchRun

`run` is the row with budgets and counters, `orchestrator` the job of each
idempotency key. Requests read, enqueue and compare-and-swap, in that order. An
executor claims in two steps: `BeginClaim` is the snapshot, on which no job of the user
is in flight (one is allowed) and one is queued, `ClaimExecution` takes that job if it
is still queued, so two executors may claim two jobs of a run. `DispatchExecution` is
the authorization and the step to running. The executor looks at the run, lets the
planner propose, is denied or calls the tool, and records step, evidence and promotion;
planner, tool or store may raise (`HandlerRaises`), which ends the job and not the run.
`PublishExecution` settles the job for whoever holds it. The job is also ended by its
owner (`CancelJob`) and by the reaper after the last attempt (`ReapedJob` leaves open
how many there were). `stranded` remembers why a running run may be without a job, for
`RunningIsDriven`; section 6 lists the eight cases.

### BrowserSession

`driver` is the session object in Python: its process, whether it holds a posture, the
next id and the call under way; `chrome` are the Node processes that were launched, with
the lines each handles and has written. Python waits for one line and takes the next one
it reads for its answer, whatever its id (`_rpc`), or gives up (`GiveUp`) and leaves the
answer to come. Node begins to handle every line at once and answers in any order;
`Note` is a request its route guard denies or a download it captures, told with the next
answer. `happened`, what a process has ever noted, is a history variable. Nothing
outside the tests calls `start`, although the module says "launches lazily on first use"
(`browser_worker.py:168`): the worker's research executor holds a session that refuses
every operation. The model is the session the tests start.

### Artifacts

A request reads the row, swaps its status, generates, swaps to `validating`, publishes
a version and swaps to `ready`; edit and regeneration start from what they read. A
request may raise or die between any two. `abandoned` remembers that one did.

### Execution

Each worker is a client of `broker.sock` and serves it in a thread; `socketOf` says
whose socket the name denotes. The broker takes one connection at a time, refuses what
its own key does not verify, runs the sandbox and collects into quarantine; the handler
is authorized for each output, puts them, discards the quarantine and settles its job,
and may lose its lease on the way, the last attempt included. `SettleExecJob` settles
the job for whoever holds it by then, cancels it if access was withdrawn, and finds
itself refused if the job has ended or moved. `CancelExecJob` is the owner's cancel.

### Inference

One event loop, so a step is what lies between two awaits. `references` counts,
`entry` is the process table, `alive` the processes there really are; `gate`,
`modelLock` and `serial` are the locks. `Abandon` is a failed start or a cancellation,
`Crash` the death of a model's process.

### Credentials, Accounts

A command stores or rotates; it keeps the keyring it read when it began, a rotation the
rows of its batch. `dispatch` only reads a secret and is left out.
`Accounts` has logins, rotations, logouts and requests on one side, disablement,
custody, transfer and deletion on the other, each a row of short transactions that may
be cut.

## 3. Runs

| Run | Instance | Checks |
|---|---|---|
| `one` | 1 job enqueued twice under its key, 2 workers, 2 attempts, 1 progress report, 1 client cancel, 1 crash, 1 revocation | TypeOK, OneTerminalEvent, AttemptAccounting, LeaseIffActive, RevisionIsVersion, TerminalIsFinal, NoReportIsLost, ImplementsLifecycle |
| `live` | 1 job, 2 workers, 2 attempts, 2 crashes, 1 revocation, fair | EventuallySettled, RevokedNeverSucceeds |
| `stream` | 1 browser, 3 events, 2 transactions open, batches of 2, 2 reads in flight, 2 faults, fair | TypeOK, StreamSafe, EventuallyReceived, ImplementsFeed |
| `maintenance` | 2 writers, 2 erasers, 2 crashes, 1 double delivery, 1 power failure, 1 collector pass | TypeOK, ReadableUnlessRaced |
| `purge` | 2 writers, 1 eraser, 1 crash, 1 double delivery, fair | UndisturbedPurgeErases, EventuallyErased |
| `notebook` | harness `MCNotebook`: two actors of each component, one custody operation at a time | NotesSafe, StudySafe, ChatSafe, IngestSafe, AccountsSafe |
| `services` | harness `MCServices`: two actors of each, three sessions of two models, two users with one key, two launches of the browser | BoundedOvershoot, OneJobPerKey, IndexSafe, ChunkingSafe, WebFetchSafe, WebSearchSafe, ResearchRights, RunningIsDriven, BudgetsKept, BrowserSafe, ArtifactSafe, ArtifactEnds, ExecSafe, InferenceSafe, CredentialsSafe |
| `progress` | harness `MCProgress`: two workers or requests, three sessions, fair | UserWorkEnds, ServicesAnswer |
| `staleowner` | as `one` without faults | PublisherOwnsJob: violated |
| `overtaken` | 1 browser, 2 events, no faults | AtLeastOnce: violated |
| `purgecrash` | 1 writer, 1 eraser and a crash | CompletedMeansErased: violated |
| `twotransfers` | 4 people, 1 notebook, 2 custody operations at a time | OwnedOrLocked: violated |

A property of a harness, and `StreamSafe`, is the conjunction of what one component promises:

| Property | Its parts |
|---|---|
| StreamSafe | NothingSkipped, ReadAfterEvent |
| IngestSafe | ServedIsCurrent, RefreshKeepsServing, RenameSeesTitle |
| IndexSafe | OneReadyAndComplete, SwapKeepsServing |
| ChunkingSafe | DocumentOrder, UnitsAreLeaves, SpansTile, CitedText, ChunkFitsBudget, ChunksAreDistinct |
| WebFetchSafe | types, DialsPublicOnly, RecordTellsTheTrip |
| WebSearchSafe | types, SearchIsRecent, DegradedIsAskedAgain |
| ChatSafe | types, CancelHeeded, CitedIsReadable, ClosedGainsNoQuestion |
| NotesSafe | SaveKeepsOthers, NoRevisionRepeats |
| StudySafe | StudyStateIsOwn, RevisionCountsWrites, ReleasedWhileAllowed |
| ResearchRights, BudgetsKept | SideEffectsApproved, EndedRunIsFinal; types, StepOvershootBounded, PromotionsBounded, ImportedOnce |
| BrowserSafe | types, ProvenBeforeUse, UsedIsDriven, ReportedOnce, AnswersOwnRequest |
| ArtifactSafe, ArtifactEnds | OnePassAtATime, ReadyShowsNewest; EndedArtifactIsFinal, CancelledGainsOne |
| ExecSafe | types, DeniedWritesNothing, ResultIsStored, QuarantineDrains |
| InferenceSafe | GpuIsExclusive, SingleFlight, ServedWhileHeld |
| CredentialsSafe | types, RetirableMeansRotated, RotationKeepsSecrets |
| AccountsSafe | types, OwnedOrLocked, DisabledAreShutOut, CustodyGivesNoContent, DisablementLocks |
| UserWorkEnds | AcceptedIsParsed, BuildsEnd, RunningIsLeft, GenerationSettles |
| ServicesAnswer | CallerAnswered, WaiterAdmitted, RotationEnds |

What they say is written above each, with the exceptions the code makes (a parse handed
out twice, a job settled without an outcome, a note shown before its revisions, a
request that died).

Why the bounds suffice. A lost race needs the actor that loses and the one that wins:
two workers, requests, turns or editors. A retry needs two attempts. The row, the event
and the attempts of one job do not depend on another job, and two jobs suffice for what
does (budgets and keys). In the stream, three events let one be fetched with the next
while a third commits between them. Two writers share a content; a third adds another
copy of either, and row ids go up to 2, so that a row can be erased and inserted again.
Two versions of a source are one served and one on its way; two generations one ready
and one that builds; three revisions of a note let one editor miss another's and save
again; two redirects and one change of a name let a connection be reused after its name
moved; a cache of one entry is at its limit with two keys. Three inference sessions are
one that holds, one that waits and one of the same model. Three keys are one retired
while another is rotated to. `services` lets a planner propose anything of four kinds,
so that budgets and approvals are met in every order; the discovery program has five
steps: one import with its search and fetch takes six, and the check before a plan lets
the last of them, the tool's, come on top. Two launches of the
browser are one that fails and the one that is used, with four calls between them. The
queue's three requests are one key under one user with two bodies and under another.
`MaxParses` and `MaxBuilds` are `max_attempts`: two let a job be handed out again and
then be given up. `MaxIngestFaults` and `MaxBuildFaults` bound together the leases that
run out, the deaths, exceptions and, of a build, the cancellations; two of them let a
stale worker settle the job of its successor and that successor die (`progress`), and
`notebook`, which checks what a single one can disturb among four requests, has one
because its deliveries already overlap then. `MaxFaults` is the same for a research run, whose
claims may overlap besides without a fault.
With two clerks `Accounts` violates `OwnedOrLocked` (`twotransfers`), so `notebook` has
one.

Distinct states: `one` 1 977 973, `live` 73 298, `stream` 313 414, `maintenance`
3 679 133, `purge` 199 430, `notebook` 1 758 614, `services` 1 768 219, `progress` 116 190.

Deadlock is checked for the job queue, whose workers poll for ever. In all other
modules the model may stop: every bound can be used up, and nothing obliges a request
to be made.

Symmetry: workers in `one`, erasers in `maintenance`, clerks in `twotransfers`, the
actors `a1`, `a2` in `notebook` and `services`. None of these runs checks liveness;
their temporal properties are invariants and action properties, which tell no actor
from another. `MCNotebook` also starts from one of the installations that differ only by
the names of people and notebooks (`OneInstallation`) and from one note's first text:
`Accounts` and `Notes` never compare two names but for equality, and their properties
quantify over all of them. The fair runs use no symmetry.

Every property of a passing run has a mutant in `PROJECT.json`: a changed definition,
kept in the module under the mark "mutated form", with which TLC finds that property
violated. A property with parts has one mutant there; the other mutated forms of its
module each break one of its other parts and are kept beside what they change, so that
every part is known to be breakable.

## 4. Fairness

* `JobQueue!Fairness`: a worker that can take a step takes one (`run_forever` loops,
  a dead container is restarted by `restart: unless-stopped`, a handler returns or
  raises); an UPDATE that waits for a row lock obtains it between two claims (strong
  fairness of `Cancel` and `ClientCancel`); a request runs to its answer; a lease runs
  out unless it is renewed or given up. No fairness for crashes, revocations or new
  requests.
* `Outbox!LiveSpec`: the generator polls, the EventSource reconnects, bytes written to
  a live connection arrive, reads are answered. No transaction is obliged to end.
* `BlobStore!LiveSpec`: an enqueued erase job is delivered until it is done, which is
  what `EventuallySettled` says of the queue as long as attempts are left, and a
  worker that has it goes on unless it dies. The number of crashes is bounded by
  `max_attempts - 1` in the code and by `MaxCrashes` here.
* The harness `progress` uses the weak fairness of each module's own specification:
  parsers, builders and executors poll for jobs and carry on (`IngestSpec`,
  `IndexSpec`, `ResearchSpec`; a job is queued again by the reaper with every step that
  takes its lease, and a claim finds it as long as attempts are left), a request that was begun carries on unless it breaks
  (`ArtifactSpec`, the control requests of `ResearchSpec`), the broker's thread serves
  one connection after the other while its worker lives (`ExecSpec`), a coroutine of
  the event loop is resumed when what it awaits is there (`InferenceSpec`), and a
  command runs until it is killed (`CredentialsSpec`). Nobody is obliged to begin
  anything, and a worker's death is never fair. In one behaviour an actor plays one
  role, so the fairness of its step is the fairness of that role.

## 5. Proofs

A theorem here holds for every value of the constants that satisfies the assumptions
named in the module it is about; those are the bounds' types, what the code guarantees
of identities (of the ids of a document, `DocumentAssumption`: the parsers number their
blocks, give each one parent, and derive the id from the number), and what a model value
must differ from. Three of them have a hypothesis
more, named and explained below: `NoReportIsLostAlways` (`DistinctIds`), `AccountsAreSafe`
(`OneClerk`) and `UndisturbedPurges` (`OneEraser` and no power failure). Every
invariant was first checked by TLC on the runs' instances.

`JobQueueProofs` proves, for any finite set of workers and any number of clients,
users, jobs and attempts, from the assumptions named in `JobQueue`
(`WorkersAssumption`, `BudgetAssumption`, `BoundsAssumption`, `RequestsAssumption`):

* `TypeCorrect`: `Spec => []TypeOK`;
* `InductiveInvariant`: `Spec => []IInv`, with `IInv` the conjunction of `TypeOK` and
  - `TableInv`: for each job, row, event and attempts fit (`RowOK`), which is
    `OneTerminalEvent`, `AttemptAccounting` and `LeaseIffActive` together with the
    facts they need of each other: a queued row has an attempt left, and the waiting
    marker is never one that would make a row `waiting_external`;
  - `LockInv`: the rows a claim has locked are queued, no two claims hold the same
    row, and only a claim holds any;
  - `HeldInv`: a record that a worker or a request is about to compare with its row is
    behind the row in revision or equal to it but for the lease, it was read from an
    inserted row, and the record a worker dispatches or starts is a leased one;
* `OneTerminalEventAlways`, `AttemptAccountingAlways`, `LeaseIffActiveAlways`,
  `RevisionIsVersionAlways`: the invariants of run `one`, from `IInv`;
* `TerminalIsFinalAlways`: `Spec => [][...]_vars`, from `IInv`.

`TableInv` alone is not inductive: that a settling write finds a row that is not
terminal follows from the compare-and-swap only if the held record with the same
revision has the same status, which is `HeldInv`; and that `ClaimJob` leases a queued
row follows from `LockInv`, because the snapshot is old by then. Each action is one
step of the proof; the writes are lemmas about one row (`SettledOK`, `RequeuedOK`,
`LeasedOK`, `StartedOK`, `ReportedOK`, `NewRowOK`).

It adds, from the same invariant, `LifecycleImplemented`: the queue
implements `JobLifecycle` for every job (each row starts as the promise does, and each
write of a row is a step of it, `Promise`), and three results about several actors:

* `OneJobPerKeyAlways`;
* `BoundedOvershootAlways`: the bound is inductive beside `IInv`, because a claim that
  writes leaves `PassingClaims` as its job enters `InFlight` (`ClaimTradesPlaces`), and
  a snapshot that passes found room in the class, with only the other workers passing
  beside it (`SnapshotCounts`); no other step adds to either set;
* `NoReportIsLostAlways`, under `DistinctIds` (no two worker processes share a
  `--worker-id`). `ReportInv` says that a row which names a running worker holds the
  stage that worker last wrote: the owner guard of `record_progress` protects a payload
  only because nobody else writes such a row (`OwnedRowStands`). Run `staleowner` shows
  what the guard does not cover.

The other proof modules each establish one inductive invariant of a component, for any
number of actors, versions, faults and requests; the parts of the safety property are
among its conjuncts or follow from it.

| Component (module) | Theorems | The invariant, and why the property needs it |
|---|---|---|
| sources (`SourceProofs`) | `IngestSafety` | `IngestInv`: a worker parses a version that is there, by a delivery of its own (`OwnParses`), and no document comes before the first delivery has persisted one (`DocumentsAreParsed`). So a worker whose job was delivered once never writes the served version: that one has a document. A current ETag saw the title (`EtagsSawTitles`), because no title moves without the revision. |
| index (`SourceProofs`) | `IndexSafety` | `IndexInv`: rows are never deleted, so a build past its insertion is complete whoever inserted (`RowsComplete`); deliveries of one job are distinct (`OwnDeliveries`); the first one finds its generation as it left it (`FirstDelivery`), so its swap promotes what it demotes for. |
| chunking (`SourceProofs`) | `ChunkingSafety` | `ChunkingInv`, of the walk: nothing is walked or waits twice (`WalkedOnce`), what waits has been reached (`ReachedAll`), what was reached waits or is walked (`NoneLeftOut`), and a node waits until the descendants of its previous sibling are done (`SiblingsWait`). Of the loop: the chunks so far, with the unit that is growing, are sound and in the order of the units (`DraftsSound`) and cover all units before the next one, and of a unit that is being split the characters before the cut (`Splitting`). The identities are distinct because every chunk has a first span of its own. |
| event stream (`OutboxProofs`) | `OutboxTypeCorrect`, `NothingIsSkipped`, `JobsAreReadAfterEvents`, `StreamSafety`, `FeedImplemented` | `OutboxInv`: a fetched batch has no hole among the events visible in order (`BatchIsWhole`), the frames under way ascend (`WireAscends`), so one that arrives leaves no earlier one behind, and up to its Last-Event-ID the browser has heard everything (`HeardUpTo`): that is why a reconnect may begin there. A read that was asked for or answered covers every event received (`ReadsCover`).`FeedImplemented` adds `FeedInv`: what is under way or still to be fetched comes after the place where the subscription began and after all the browser has got, because no Last-Event-ID lies below it (`IdBehind`); so every frame is news. A commit is then an event that appears, a connection that does not resume a subscription, and a frame that arrives hears the next event; every other step of the server or the browser leaves the feed alone. |
| blobs (`BlobProofs`) | `BlobTypeCorrect`, `LiveStaysReadable`, `UndisturbedPurges` | `BlobInv`: a reference has its row and an eraser works for a deleted source. Unless raced: nobody else refers to what an eraser has doomed (`DoomedIsUnused`), a put past its fsync has a durable file and a finalized row (`PutsAreSafe`), and the collector has seen row and reference of whatever lives (`CollectorSawTheLive`). `UndisturbedPurges` assumes one eraser and no power failure, as run `purge` does: two purges may each leave a content to the other (section 6). |
| notes (`NotebookProofs`) | `NotesSafety` | `NotesInv`: an editor's baseline is what it was shown (`BaselineShown`), and what is sent comes from the ETag sent with it (`SentFromEtag`). |
| study state (`NotebookProofs`) | `StudySafety` | `StudyInv`: every write carries a state of its own (`NewStates`), so the states a row has had count its revision (`RowsCount`); downloads have seen what they checked (`DownloadsSaw`). |
| chat (`NotebookProofs`) | `ChatSafety` | `ChatInv`: a turn's evidence and the rows it read come from what its manifest froze, and until its answer is complete a turn that was asked to stop still finds its mark, unless another wiped it (`TurnKept`); so a streaming turn that comes to publish was not asked, or its mark was wiped. The messages of a conversation are counted by the turns that passed (`Counted`): questions by turns accepted, answers by questions, with the turns under way between them. |
| artifacts (`ServiceProofs`) | `ArtifactTypeCorrect`, `ArtifactSafety`, `ArtifactEndings` | `AInv`: at most one request is between its swaps (`OneBusy`), the row is as that request left it (`RowDuringPass`, `VersionsDuringPass`) or at rest (`AtRest`), and the version it points to exists (`CurrentExists`). |
| local models (`ServiceProofs`) | `InferenceSafety` | `InferenceInv`: an evicting session holds the gate and no hot model is referenced (`GateHeld`); locks are held where the code holds them (`LocksHeld`); each holder is counted (`RefsCover`, by cardinality). |
| web search (`ServiceProofs`) | `SearchSafety` | `SearchInv`: the cache has one entry per key, each complete and dated no later than it was asked for; what a removal leaves of a sequence is `RemovalProperties`. |
| web fetch (`ServiceProofs`) | `FetchSafety` | `FetchInv`: at each point of its trip (`Trip`) a fetch has a host it admitted and, once it has dialled or reused a connection, an address that passed; the pool has connections to such addresses only; its record lists the hops it made. |
| credentials (`ServiceProofs`) | `CredentialsSafety` | `CredInv`: the newest key of a ring is its active one, and a command's ring is no newer than the file (`CommandKept`); the rows a rotation has in hand are one per record, readable with its ring and not yet under its active key (`HandKept`). That a rotation whose batch came back short has left no row behind needs a bound of the batch, an injection into `0..RotationBatch - 1` (`LowestFit`). |
| execution (`ServiceProofs`) | `ExecutionSafety` | `ExecInv`: a broker that is at work serves the waiting handler of its own process (`Serves`); an execution is in the hands of one process (`OneHolds`); a handler has put nothing before everything was checked and leaves no file when it ends (`TaskKept`); a job refers only to executions that succeeded and were not denied, and while one is in hand, to what was put (`RefsKept`). Two lemmas reduce a step to what it concerns: no execution (`OthersKeepInv`) or that of one process (`OwnStepKeepsInv`). |
| browser session (`ServiceProofs`) | `BrowserSafety` | `SessionInv`: a process on which no call was given up handles the call under way, has answered it with the one line on its pipe, or has lost it (`InStep`); a page is only in a process that is proven, and in one that runs only if the session drives it; what a process has noted is waiting, in one line, or recorded (`Reported`). That a posture is held only of the process that proved it needs `InStep`: the answer `start` reads for the check must be the check's. |
| research (`ResearchProofs`) | `RunRights`, `RunIsDriven`, `BudgetsAreKept` | `RunInv`: keys lie behind the row's revision, and an executor acts under a step that is its own. `Driving`, of an open run that is not stranded: whoever was handed a job holds it (`JobsHeld`), jobs are entered and settled behind the revision they are the key of (`JobsBehind`), and the job of the last start is open and nobody is about to settle it (`LastJobOpen`). `Counts`: while the run is open, executors at work are at most the claimed jobs and those that were lost or cancelled, and at most one more than came beside another (`ActiveBound`; the second bound needs the first at a claim, which overlaps unless no job is claimed), and each count is bounded by what they can still add (`StepsBound`, `ImportingBound`, `ToImportBound`). |
| accounts (`AccountsProofs`) | `AccountsTypeCorrect`, `DisabledStayOut`, `NoContentByCustody`, `AccountsAreSafe` | `KnownInv`: sessions, roles and operations under way are of accounts and notebooks there are, for any number of custody operations. `CustodyInv`, under `OneClerk`: a transfer works at a locked notebook until it has added its owner, and a disablement has passed no notebook over. Run `twotransfers` shows why one at a time is assumed for `OwnedOrLocked`. |

Functions that recurse or loop over data (the walk over a document, the windows of a
unit) are steps of the models, so that what they compute is an invariant and no
induction over data is needed.

Only model-checked are `EventuallySettled`, `RevokedNeverSucceeds`, `EventuallyReceived`,
`EventuallyErased`, `UserWorkEnds` and `ServicesAnswer`: liveness under fairness is
beyond the prover.

## 6. Where the code departs from what it says

Shown by a violated run (`findings` of `PROJECT.json` quotes the line):

* `staleowner`: a worker that overran its lease publishes over the new owner.
* `overtaken`: an event that commits after a later one is never sent.
* `purgecrash`: a purge is reported completed while bytes and row remain.
* `twotransfers`: two transfers leave a notebook with neither owner nor lock.

Met while modelling and described here only. Where a module has the behaviour, its
properties say what is still guaranteed.

Queue, stream and browser
* A worker without its lease settles the job of whoever holds it (`staleowner`), be it a
  parse, a build, a research run or an execution. If that one then dies, the job is not
  handed out again, and a version stays in parsing or a generation in building; so does
  one whose job is cancelled, or given up after its last attempt. `AcceptedIsParsed` and
  `BuildsEnd` leave these aside (`stranded` of the job), `RunningIsLeft` those of a run.
* A job settled between the two reads of `_publish_result` raises out of the loop and
  ends the worker process (`workers/loop.py:243`; `Abort`).
* `api/job_routes.py:221` documents 409 for a terminal job; if the job ends between
  the route's read and `CancelJob`'s, the answer is 500 (`ClientCancelFails`).
* A cancel that loses against a mere progress report is answered "job is already
  terminal" (`job_routes.py:237`, `pg_jobs.py:386`; `ClientCancelRefused`).
* The class budget is exceeded by concurrent claims (`pg_jobs.py:174-178` against
  `application/job_capacity.py:10-11`). `BoundedOvershoot` says by how much.
* `claim` leases a job parked in `waiting_capacity`, a step that is not in the table
  of `domain/jobs.py`.
* `LIMIT 50` precedes the budgets (`pg_jobs.py:165-179`), so jobs behind fifty that
  have no room starve (against `application/job_capacity.py:4-6`).
* Two containers may both call their worker `worker-1` (`workers/run.py:531`); the
  owner guard of `record_progress` cannot tell them apart.
* A view fetched before an event and applied after it stays until the next event of
  that job (`apps/web/src/state/jobs.tsx:35`).

Blobs and purge
* `put` does not fsync an object it finds (`blobs/filesystem_store.py:141` against
  `:21-24`). Trace: one writer links, a second finds the file and commits its
  reference, power fails before the first one's fsync.
* The collector reads before it deletes. Trace: it sees an old unreferenced object, a
  put reuses it and commits, the collector deletes the file.
* `erase` against `put`: its transaction leaves the row `purged`, a put finds the file
  still there and finalizes the row, `erase` unlinks the file and drops the row.
* Two purges that share a content may each leave it to the other
  (`sources/pg_purge.py:326`). `ReadableUnlessRaced` and `UndisturbedPurgeErases` state
  what remains guaranteed.
* The source is marked in one transaction and the erase job enqueued in another
  (`api/source_lifecycle_routes.py:228`).
* `erase` deletes every artifact without a version, in every notebook
  (`pg_purge.py:373`), and misses renditions, whose blobs are referenced under the
  artifact's id (`application/artifact_lifecycle.py:173`).

Sources and index
* `mark_parsing` and `persist` look at no status: a parse handed out twice takes the
  served version out of service until it is activated again. `RefreshKeepsServing`
  therefore speaks of first deliveries.
* `mark_refresh_failed` and `persist_failure` make a removed source stale, and
  `set_selected(True)` makes any source active.
* The index job is keyed by the version in view and carries an active document of any
  version; a job of that key blocks a rebuild. A request that dies between catalog and
  enqueue leaves a version without a job.
* A resumed build embeds the chunks that have no row (`application/indexing.py:294`,
  documented at `:192`): after a crash between rows and embeddings a ready generation
  has rows without a vector. `OneReadyAndComplete` is about rows.
* A failed build whose `mark_failed` raises itself stays in building
  (`workers/indexing_handler.py:94`; `BuildAbandoned`).
* `mark_failed` has no status guard (`indexing/pg_generations.py:107`) and `swap_ready`
  supersedes the ready generation even if its own no longer builds (`:91`).
* A unit that overflows the window and ends in white space yields blank chunks of one
  character (`application/chunking.py:279`); body text of adjacent pages is merged. Each
  of these chunks still shows what it cites (`CitedText`).
* The header row of a Markdown table is kept in a node's extra fields only
  (`parsers/markdown.py:284`), which `_table_text` does not read: it is in no chunk. A
  paragraph that begins with a line like a table row but has no separator row below it
  is never left (`parsers/markdown.py:228`), and its parse ends by the time-out.

Web search and fetch
* An answer is stored with the time it was asked for (`web_search_cache.py:81`), so a
  slow older answer replaces a newer one; the key has no budget in it; equal searches
  are all sent.

Chat and notes
* A cancellation that comes after the turn it was meant for cancels the next one
  (`application/chat.py:103`), and clearing the mark (`:196`) wipes that of another
  turn. `CancelHeeded` speaks of turns whose mark nobody wiped.
* Publishing does not ask whether the conversation is still open, and a provider's
  error leaves the stream without a terminal frame.
* A note refetched before its revisions is shown empty (`NotesPanel.tsx:329`, `:360`)
  and a save then replaces what was never seen, with a current ETag.

Research
* A running run may be without a job (`stranded`). The job is enqueued before the run is
  set to running (`application/research.py:297`), and a faster worker that finds it
  created or paused returns (`early`); a request dies after the enqueue and its key is
  used up for the next one (`reused`); a lease runs out under a live executor, whose
  job another may settle or the reaper fail (`expired`); the compare-and-swap compares
  the status alone, so one of a request that read an earlier revision goes through on a
  later one (`moved`). Nothing that ends the job by itself touches the run: the owner's
  cancel (`api/job_routes.py:233`; `job_cancelled`), the one at dispatch
  (`workers/loop.py:207`; `revoked`), the reaper after the last attempt
  (`pg_jobs.py:408`; `exhausted`), and an exception of the planner that is not a parse
  error or of the store (`research_executor.py:264`, `loop.py:225`; `raised`).
* A run may have two executors: after pause and resume before the first one looks
  (`research.py:348`), a lost lease or a cancelled job, and because `claim` counts the
  jobs of a user on its snapshot (`pg_jobs.py:176`), also without any of them. They
  collide on the step number, or each counts for itself. `StepOvershootBounded`,
  `PromotionsBounded` and `ImportedOnce` say by how much: one for each executor that
  came beside another (`Beside`). A death between import and record imports twice
  (`research_executor.py:290`).
* `_succeed` and `_fail` of the executor ignore a lost compare-and-swap.
* Nothing outside the tests starts a browser session (`browser_worker.py:168` says it
  launches on first use): operations are refused with "browser worker not started".
* Ids of requests are never compared with those of answers (`_rpc`): after a call that
  was given up, each later one gets the answer to an earlier one. `AnswersOwnRequest`
  speaks of processes on which none was given up. A failed start leaves its process
  running (`UsedIsDriven` says no page was opened in it).

Artifacts and study state
* `artifact_lifecycle.py:287` says "Optimistic edit … (etag CAS)": the etag is compared
  with a row read earlier, the swap is on the status. Two edits of one etag that follow
  each other both succeed, and the first is lost.
* A regeneration from a version that does not exist, a crash or any other exception
  leaves the row generating (`:277`); the swap to validating is not looked at (`:127`).
* `upsert_user_state` compares a revision it read without a lock
  (`artifact_store.py:279`): two writers of one revision both succeed.

Execution
* Workers share `broker.sock` (`workers/run.py:562`): the second to listen unlinks the
  first's (`execution/broker.py:384`) and the first to close removes the second's
  (`:402`). A request in the wrong backlog is refused; one whose broker's thread has
  ended by an `OSError` waits for ever, because the client has no timeout (`:396`).
* Two first installs race, and the loser exits (`execution/images.py:127`).
* An `OSError` in collect leaves the quarantine (`execution/outputs.py:149`), a failed
  put leaves the references made before it, and a lost lease goes unnoticed.

Models, credentials, accounts
* A failed start or a cancellation leaks its reference (`workers/inference.py:151`);
  media gives its reference up before the process is stopped (`:163`), so a hot model
  may be loaded while it still has the GPU: `GpuIsExclusive` forbids the other
  direction only. `WaiterAdmitted` excludes runs with a leak. Overlapping sessions of hot models may starve a media one.
* Rotation takes no row lock (`security/pg_credentials.py:155`), and a command with an
  older keyring stores under a key already called retirable.
* A login or a rotation that races a disablement leaves a live session
  (`application/authn.py:106`, `security/session_store.py:136`); it resolves to nothing
  while the account stays disabled. Two bootstraps may make two administrators
  (`authn.py:162`).
* A disablement that dies after the status leaves notebooks unlocked
  (`custody_usecases.py:89`), one that dies before its audit event a lock without a
  phase (`:105`). Two transfers of one notebook (`:182`) both add an owner. UUIDs are
  compared by identity (`:176`, `custody.py:106`).

## 7. Not modelled

Left out because there is nothing for a state machine to say: text and format work
(parsers, ranking scores, prompts, rendering), network and host I/O (HTTP, cgroups,
bubblewrap), cryptography, wiring, configuration, telemetry, and the views of the web
client that hold no state of their own. The authorization decision is a pure table; the
models take its answer as a variable that may change at any time. Provenance is edges
that the transactions of others append, and the source guide a cached summary of a
version with one writer: neither has a step of its own that could interleave.

Left out of components that are modelled (their status is `partly`):

* queue: several capacity classes, and the preemption of media jobs, which the worker
  wires to nothing;
* accounts: the rate limiter, CSRF, the onboarding seed, activity tracking and the
  check before an account is deleted;
* notes: transforms, saved responses and promotion to a source;
* parsers: what a format contains is the choice between a document and a failure, and
  an error of the database inside the parse handler is `ParseAbandoned`;
* research browser: what a page contains and how it is acted on; `BrowserSession` has
  its process and its protocol;
* purge: one content at a time; the rows `erase` deletes elsewhere are not followed.

## 8. Plan

Done: every module of section 2, a theorem for every safety property of a passing run,
and the two refinements (`JobLifecycle`, `EventFeed`).

To come, in this order:

1. `PurgeClosure`: the rows `erase` deletes against jobs, artifacts and renditions.
2. An atomic store that `BlobStore` implements outside its races.
3. The remaining operations of accounts and notes, and `JobQueue` with several classes.

## 9. Running

    tlc -workers 2 -config MCJobQueue_one.cfg MCJobQueue
    tlc -workers 2 -config MCNotebook_safety.cfg MCNotebook
    tlapm JobQueueProofs.tla

On two cores the passing runs take between fifteen seconds and three minutes each, the proofs
of a module up to eight minutes (`ServiceProofs`).
