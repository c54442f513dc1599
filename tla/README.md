# Formal models of the media engine

This directory holds TLA+ models of the repository's own logic, the TLC configurations that
check them and the proofs that TLAPS checks. Paths below are relative to the repository.
`PROJECT.json` is the machine-readable index: components, runs, the source lines of every
definition, the hazards and the theorems.

    tlc -config DurableWorkers.cfg MCDurablePublishing.tla     # one run
    tlapm DurablePublishingProofs.tla                          # the proofs

## 1. The system

The repository is a TypeScript monorepo: an API server, a worker process, a dashboard and
the packages they share, with PostgreSQL (through Prisma) and Redis (through BullMQ)
underneath. Content takes one of two ways out.

* **Durable publishing.** A generated artifact is reviewed, an approved review becomes a
  handoff package, `enqueueHandoff` writes it to the outbox table, and a worker that runs
  one cycle per invocation claims a row, reserves it in the idempotency table, calls the
  target's adapter and settles reservation and row.
* **Queue publishing.** An upload creates an asset and a processing job, the BullMQ
  `processing` worker makes a thumbnail and enqueues a job on the `publishing` queue, and
  the publishing worker uploads the media, creates a post and writes the history.

| component | state it keeps | operations | hard behaviour | what makes it correct |
|---|---|---|---|---|
| Outbox repository (`packages/database/.../publishing-outbox.repository.ts`) | a row per handoff: status, version, lock, attempt count, schedule; an append-only attempt table | enqueue, claimNext, markSucceeded, markFailed, moveToDeadLetter, cancel, appendAttempt | workers race for a row; optimistic versions; backoff; terminal states | one owner per row, the attempt table agrees with the counter, nothing leaves a terminal state |
| Idempotency repository (`.../publishing-idempotency.repository.ts`) | a row per (target, handoff): status, request hash, expiry, remote id | reserve, markCompleted, markFailed, releaseExpired | read and write in one read-committed transaction; expiry while the owner still works | at most one publisher at a time, only the reserved payload is published, a stored remote id is real |
| Durable worker (`packages/publishing/src/worker/publishing-worker.ts`) | none between cycles | runOnce | crashes between any two calls, lost answers, two tables settled one after the other | each handoff posted once, success only with a post, every row settled |
| Enqueue service, handoff creation | none | enqueueHandoff, createPublishingHandoff | the same handoff enqueued twice; packages built from copies that have aged | same handoff, same row; a ready package belongs to an approval |
| WordPress handoff adapter and guard (`plugins/wordpress/src`) | in-process cache; the idempotency table when configured | validate, publish | shares the table with workers; settles inside its own error handling | as for the idempotency repository |
| Processing (`apps/api/src/routes/media.ts`, `apps/worker/src/processors`) | assets, processing jobs (one per asset and type), attempts, artifacts, stored files | upload, scheduleDefaultJobs, dispatchJob, thumbnail | redelivered jobs, colliding attempt numbers, partial failure without compensation | what a row says exists does; one owner per attempt; a job that is enqueued is made or given up |
| Queue publishing (`apps/worker/src/publishing-worker.ts`, `packages/publishing/src/publishing-orchestrator.ts`) | the queue; the publishing history | processPublishingJob, publish, retry | check-then-act duplicate detection, retries after partial success | no post without its media, history only of posts, a recorded slug is left alone |
| Queue management (`apps/api/src/queue`) | the queue's pause flag and jobs | pause, resume, drain, retry, remove | commands race with workers and with each other | only failed jobs are retried |
| Content workflow (`content-workflow.repository.ts`, `packages/ai/src/generation/review`) | artifacts with a status, reviews with versions, an append-only list of events | save, updateStatus, create, appendDecision, reopenAfterRevision | transactions that validate on what they read and write later; copies of a status | an approval is never overwritten, invalid content is never approved or handed over |
| Editorial loop and revision (`packages/ai/src/generation/editorial-loop`, `revision`) | lineage of artifacts, the review, revision requests | prepareInitialReview, requestRevision, executeRevision, submitHumanDecision, reopen | a generation is awaited while others decide, reopen or run it again | an artifact is never replaced, the lineage is a chain, what is approved was ready |
| Editorial intelligence (`.../editorial-intelligence`) | none | five analyzers of some eighty rules, deduplication, readiness | rules that shadow one another | nothing that blocks is lost; readiness says what the draft is |
| Content pipeline (`packages/publishing/src/pipeline`) | per run: plan, content, package; its outbox | runContentPipelineDryRun | one lazily loaded knowledge service and one outbox under several runs | plans say what the repository holds, posts are earned, a success is in the outbox |
| Knowledge graph and prompts (`packages/content`) | collections held, the index over them | load, traverse, prepare, build | loads of two callers cross; limits cut a walk short | the walk reaches what is reachable, what is left out is warned of |
| Composer (`apps/api/src/composer`) | none | validate, publish, schedule, bulkPublish | several pairs in one request, a failure between two | the answer tells each pair once and truly |
| Calendar (`apps/api/src/calendar`) | none (a view) | events, timeline | reads the queue state by state and then the history | published means recorded |
| Authentication, permissions (`apps/api/src/auth`) | settings | authenticate, requirePermission | several credentials at once, guards of two processes | nothing is enqueued without the permission |
| Provider configuration (`apps/api/src/providers`) | overlay of settings | read, save, validate, health | forms that have aged, masked secrets sent back | what was saved is in effect, a mask never replaces a secret |
| Audit, notifications (`apps/api/src/audit`, `notifications`) | lists in memory, a count of failed logins | record, list, mark read | requests cross; a restart forgets | the outcomes of every answered publication are told, alarms are due |
| Dashboard (`apps/dashboard`) | none | pages, forms | acts on a page that has aged, on what its reads left out | an operator confirms what was chosen |

How they interact: the API writes PostgreSQL and enqueues on Redis; the workers of the two
ways share nothing but the database and the remote site. Inside durable publishing the
only shared state is the two tables and the remote target; every call in between may fail
and the process may die between any two. The dashboard keeps nothing and calls the API, whose
handlers interleave wherever they await something. The content pipeline calls the knowledge
packages, the generation packages and durable publishing's service and worker in one
process, and several runs may share its knowledge service, its outbox and its worker.

## 2. The modules

| module | models | extends |
|---|---|---|
| `PublishingDomain` | handoffs, request hashes, the bounded clock | |
| `PublishingOutbox` | the outbox table and the repository's operations as actions on it | `PublishingDomain` |
| `PublishingIdempotency` | the idempotency table and the repository's operations | `PublishingDomain` |
| `DurablePublishing` | the composition: worker processes, direct publishers, the remote target, an operator, the clock; the specification and its properties | both |
| `DurablePublishingProofs` | proofs of type correctness and the safety properties | `DurablePublishing`, `TLAPS` |
| `MCDurablePublishing` | outcome sets and symmetry for TLC | `DurablePublishing` |
| `JobQueue` | a BullMQ queue as the code uses it: retries with a delay, locks that expire, the commands of the management service | |
| `QueuePublishing` | the composition: composer and thumbnail hook that enqueue, the slots of the publishing worker, the remote target and the history, an operator; the specification and its properties | `JobQueue` |
| `JobQueueProofs` | what the queue's operations do to jobs and locks, proved once for both uses of the queue | `JobQueue`, `TLAPS` |
| `QueuePublishingProofs` | proofs of type correctness and the safety properties | `QueuePublishing`, `JobQueueProofs` |
| `MCQueuePublishing` | slugs, assets and symmetry for TLC | `QueuePublishing` |
| `MediaProcessing` | upload requests, the processing queue and its worker's slots, the rows and files they write | `JobQueue` |
| `MediaProcessingProofs` | proofs of type correctness and the safety properties | `MediaProcessing`, `JobQueueProofs` |
| `Review` | the abstract review: opened, changes requested and made, decided once | |
| `ContentWorkflow` | artifact, review and event tables under clients whose transactions interleave, and hand-off packages; implements `Review` | |
| `ContentWorkflowProofs` | proofs of the safety properties and of the refinement of `Review` | `ContentWorkflow`, `TLAPS` |
| `MCContentWorkflow` | symmetry for TLC | `ContentWorkflow` |
| `Drafts` | what analyzers read (sections, paragraphs, phrases) and report (findings) | |
| `EditorialRules`, `SeoRules`, `CommercialRules` | the rules of the five analyzers, one operator per rule | `Drafts` |
| `RuleRegistry` | which rules an analyzer registers and runs | |
| `EditorialReport` | validation, the analyzers together, deduplication between them, readiness | the rules, `RuleRegistry` |
| `EditorialLoop` | the loop of generation, report, decision and revision in memory; implements `Review` | `EditorialReport` |
| `EditorialLoopProofs` | proofs of the lineage, of approval, of the refinement of `Review`, and that no report leaves out what blocks | `EditorialLoop`, `TLAPS` |
| `MCEditorialLoop` | sample drafts, rule settings | `EditorialLoop` |
| `KnowledgeGraph` | collections, relations, index and walk of a context recipe, with the reference definition of what a recipe reaches | |
| `ContentPlan` | refusals, projection, warnings and prompt of a plan | `KnowledgeGraph` |
| `MemoryPublishing` | the outbox and the idempotency store kept in memory, as operators | |
| `ContentPipeline` | pipeline runs side by side over one knowledge service and shared or own outboxes | `ContentPlan`, `MemoryPublishing` |
| `ContentPipelineProofs` | proofs of the safety properties | `ContentPipeline`, `TLAPS` |
| `MCContentPipeline` | repositories, requests, texts and deliveries for TLC | `ContentPipeline` |
| `Access` | roles, permissions, settings, what a guard makes of a credential | |
| `ReadRoutes` | the routes that only read: permission, service, subject | `Access` |
| `Trail` | audit events, notices, the count of failed logins | |
| `ProviderConfig` | loaders, overlay, saving, masking, health | |
| `Composer` | readiness of an asset, what a publisher lacks for it | `ProviderConfig` |
| `Dashboard` | what each page reads and offers, what its handlers let through, how its forms are parsed | `ReadRoutes` |
| `Console` | the composition: requests through the API and the dashboard, the queue, the workers, restarts | `Composer`, `Trail`, `Dashboard` |
| `ConsoleProofs` | proofs of the safety properties that hold | `Console`, `TLAPS` |
| `MCConsole` | assets, calls, callers and deployments for TLC | `Console` |

### Durable publishing: state and code

* `outbox[h]` is the row of handoff `h`. The row's id is a hash of the handoff, so the
  handoff names the row. `lockedAt` and `lockedBy` are written together, so `lockedBy`
  stands for both. Timestamps that only inform (createdAt, completedAt) are left out.
* `attempts[h]` is the set of attempt records of `h`, with the unique index on the attempt
  number as a guard of every insert.
* `idem[h]` is the idempotency row; the key is (target, handoff) and a handoff has one
  target. `remote` says whether a remote id is stored.
* `posts[h]` counts the posts the remote target created for `h` (external).
* `proc[p]` is where process `p` stands between two of its calls, with what it remembers
  in local variables: the row as claimed, the idempotency row as read, the time taken at
  the start, whether its failure is retryable.

Each repository method that is a single statement or a serialised update is one step.
`claimNext` is two steps, its two queries, because another worker may commit between them;
`reserve` likewise. The remote call is one step whose outcome is chosen from `Outcomes`:

| outcome | at the target | what the adapter reports |
|---|---|---|
| created | a post | success |
| rejected | nothing | a retryable error (5xx, rate limit, network) |
| refused | nothing | validation |
| unauthorized | nothing | authentication |
| lost | a post | timeout or error status |
| malformed | a post | malformed-response |

`Crash(p)` ends a cycle at any point between two calls: a process that dies, or a call
that throws where nothing catches it. `Succeed` and `Fail` include the refusal of
markSucceeded and markFailed (version, terminal state, attempt number), which throws out
of `runOnce`.

A *direct publisher* is one call of the WordPress adapter with its persistent guard, an
exported configuration that the worker's bootstrap does not use. It takes the same table,
reserves, validates only afterwards, publishes and settles; it is what makes more than one
publisher per handoff possible, because a worker owns its row.

*Operator* actions (cancel, moveToDeadLetter, appendAttempt, releaseExpired) are methods
of the repositories that no code of the repository calls yet; `OperatorOps` says which a
run allows.

### Durable publishing: abstractions and bounds

* `Horizon` bounds the clock: `Tick` stops there, and a delay beyond it is clamped to it
  (`AtMostHorizon`), so that a backoff never disables a row for ever. With `BaseDelay = 1`
  and `Horizon = 2` rows become available before, at and after the current instant. In
  `DurableLiveness` `Horizon = 1` is enough: a row is due now or at the next instant, which
  is what its progress depends on.
* `MaxVersion` bounds how often operators may act on a row; workers are bounded by
  `MaxAttempts`. `DurableWorkers` uses 4, so that an operator may still cancel a row that was
  enqueued, claimed and settled: with 3 it never happened, and a property that such a row
  breaks (the attempt table has one success more than the counter counts) passed. The proof
  of `AttemptsMatchCount` showed it; the property now tells failures and the success apart.
* Two workers, two handoffs and two payloads are enough for every race the code has a
  guard against: a guard compares one process with one row.
* One request hash per payload; two payloads per handoff when the conflict matters. A
  payload in `Unpublishable` is an invalid package or has no adapter.
* A read and the decision it leads to are one step when nothing else of the cycle lies
  between them. The guard's cache look-up and reserve's first read are merged: the reserve
  decides.
* PostgreSQL aborts a transaction whose insert violates a unique index, so the queries
  after a lost insert may throw: `ReserveAnswer` allows the answer the code wants and the
  exception.
* The guard's in-process cache is not modelled; a direct publisher is one call in a fresh
  process.

### Queue publishing: state and code

* `jobs[j]` is the queue's record of job `j`: its state, the attempts that failed (`made`,
  BullMQ's attemptsMade), the locks it lost (`stalls`), how often the operator retried it
  (`manual`) and the slot that holds its lock. `paused` is the queue's flag. Jobs that are
  drained or removed are "removed".
* `run[s]` is where a slot (one of the worker's five concurrent places) stands between two
  calls in `processPublishingJob` and the publishing orchestrator. It is not the queue's
  view: a slot whose lock expired goes on running, and what it reports of the job is then
  refused (`Complete`, `FailAttempt`).
* `media[j]`, `posts[j]` count what the runs of `j` created at the target (external),
  `history[j]` the rows they wrote. History is searched by project, publisher and slug,
  which is what an element of `Slugs` stands for.
* `request[j]` tells how far the composer's request for `j` has come: it looks at the
  history in one step and enqueues in another.
* `result[j]` is the way the run ended whose report the queue accepted.

| label of a run | code |
|---|---|
| checking | the duplicate check (skipped without a project), then the publisher is built |
| uploading | `uploadMedia` |
| posting | `createPost` |
| persisting | the history row (only with project, organization and asset) |
| published, skipped, failed | returned to BullMQ, which completes the job, or thrown, which fails the attempt |

The target's outcomes are "created", "rejected" (nothing made), "lost" (made, the answer
never arrives) and, for a post, "unlinked" (made, but answered without its address: the
result is a success and no row is written).

### Queue publishing: abstractions and bounds

* The queue's scripts are atomic in Redis, so each is one step. The order of waiting jobs
  and the length of delays are left open: any waiting job may be taken and any delay may
  end, which allows every order that priorities and backoff can produce.
* A worker that stops at a signal finishes its runs; a worker that dies leaves them, and
  each slot that died starts again empty. A death of the process is a death of several
  slots one after the other, with nothing in between.
* `MayOutlive` allows a lock to expire under a live run (a blocked event loop, a lost Redis
  connection). `MayThrow` allows a call of the database to fail.
* `MaxManual` bounds how often the operator retries a job; two failed attempts, one lost
  lock and one manual retry reach every branch of the queue. `MaxStalls = 1` is BullMQ's
  default, which the worker does not change.
* Two slots and two jobs of one slug show every race of the duplicate check; a third job
  adds a slug of its own, or a job without its scope.

### Media processing: state and code

An upload gives its asset a fresh id and schedules one job, so an asset stands for its
request, its row, its processing job and the queue's job. `upload[a]` is how far the request
in `routes/media.ts` has come; `files` is the storage; `asset`, `job`, `attempts` and
`artifacts` are the tables; `handed[a]` counts the publishing jobs enqueued for it; `run[s]`
is where a slot stands in `dispatchJob`. Every call of storage, database or queue is a step
of its own that may fail before or after its effect, a slot may die between two, and a lost
lock lets the queue deliver the job to another slot while the first goes on.

* The attempt's number is read in one step (`NumberAttempt`) and inserted in another
  (`CreateAttempt`), under the unique index; the insert that loses throws where nothing
  catches it.
* The asset's own status is a constant once created: no code moves it on. Reading the file,
  converting and storing the thumbnail are one step.
* Two assets, one of them refused, two slots and two lost locks (`MaxStalls = 2`, one more
  than the queue's default) let three runs of one job meet.

### Reviews: state and code

`Review` is what a review promises: it is opened on a subject, changes may be requested and
made, it is reopened only then, and it is decided once. Two components keep it.

`ContentWorkflow` is the database. Each query of a transaction is a step, because at the
isolation level used another transaction may commit between the read a decision is validated
on and the write that makes it; `call[c]` holds what client `c` has read. The update asks for
the version, and its event commits with it, so these are one step (`Write`). An artifact's
status has no version: `ReadStatus` and `WriteStatus` are two steps without a guard in
between. A client builds a package from a review and an artifact it read one after the other
(`HandOff`); `ready` keeps the packages that were ready. The list of findings of a decision is
its worst severity, and the expiry of a review passes once. `MaxEvents = 4` events of a review
are enough to create it, decide or request, reopen and decide again.

`EditorialLoop` keeps the review in memory. Its calls are atomic but for the awaited
generation, which is `BeginRevision` and then `FinishRevision` or `FailRevision`; callers
pass the artifacts, requests and reports they hold, also old ones. Artifacts are identified by
what they were generated for, which is what their ids are made of. Two callers, two rounds
and two revision numbers are enough for one caller to overtake the other at each await.

The analyzers are pure functions and are modelled as operators, one per rule, over drafts of
sections, paragraphs and phrases. A phrase is a word or a sentence by what the rules tell
apart: a configured pattern is the phrase it matches, and a phrase carries the number of its
words where a rule counts. The sample drafts contain, one by one and in pairs, an occasion
for each rule; `MCEditorialLoop` also assumes, evaluated by TLC, that each finding has a
registered rule and that comparing two reports agrees with their readiness. Rules that read
configuration no default sets are modelled with the defaults.

### The content pipeline: state and code

`run[r]` is a run of `runContentPipelineDryRun`: its stage, its request, the walk over the
knowledge graph, the plan, the content, the package and the row its worker claimed. A run that
ends before its package is made keeps only its result. A step ends where the code awaits
something another run can change: a collection being read (`StartLoad`, `FinishLoad`), the
provider, the outbox, the adapter. Between two loads a walk goes on in one step: meanwhile
the index can only grow by types that walk does not need, or is stuck.

* `held[type]` counts how often a collection was added to what the adapter holds, `covered`
  is what the last index was built over. Two runs that load the same type at once add it
  twice; from then on no index can be built.
* `sharing` says whether the enqueue service and the worker were injected; else each run has a
  store of its own (`Stores`).
* The caller's options are chosen where they are first read.
* Contents are told apart by their length, because the request hash is, and by whether
  validation accepts them.
* Two runs, five repositories (one sound, four with a defect each), seven requests, four
  contents and eight deliveries. `NodeLimit = 5` cuts one of the walks short; two attempts
  reach every branch of the in-memory outbox. The time a row waits for may pass at any moment.
* The expiry of reservations, `releaseExpired`, `cancel` and `moveToDeadLetter` are not called
  in this mode and are left out; database storage and the WordPress target are the matter of
  `DurablePublishing`.

### The console: state and code

`setup` is what the processes were started with, `overrides` the overlay of provider
settings, `jobs`, `paused` and `published` the queue and the history, `request[r]` a request
and how far its handler has come, `trail` the audit events, the notices and the count of
failed logins, `page` what the dashboard last rendered. A handler takes one step per await:
`LoadAsset`, `CheckPair`, `LookUp`, `Enqueue` for each pair of a publication, `FindJob` and
`RetryFound` or `RemoveFound` for a job, one `ScanState` per state of the queue and
`ReadHistory` for the timeline. `Open`, `Choose`, `Confirm` and `Press` are the dashboard's
handlers with the operator's choices between them.

* A request that was refused leaves only its code, a finished one forgets its form, and a page
  that offers nothing is forgotten. Removed jobs are kept as removed, so that properties can
  tell of them. One page is open at a time.
* The asset's row and its thumbnail are read in one step. Publishing and recording are one
  step, since `QueuePublishing` has the detail. Removing a job that is already gone answers
  200, as the queue does.
* Every deployment has the database and a default project; whether it has Redis varies, and
  with it the queue and the calendar. The routes for the root and the version are left out.
* Events and notices are kept per request, in order; the order between requests is left out.
  Timestamps are, too: the window of failed logins may pass at any time (`WindowPasses`).
* Two requests and eleven kinds of direct call (a publication to two publishers, bulks of
  one and two assets, one refused for its size, schedules in the future and in the past, a
  validation, the calendar, two saves of settings), the queue commands on every job, the
  health checks and what the dashboard offers. Three assets (ready, ready without its
  thumbnail, still processing), three callers (an author with a token, an operator with a
  key, one whose forged token comes with a good key), three deployments (open, with
  authentication, without Redis). `MaxAssets = 2` and `MaxPublishers = 1` stand for the limits
  of a bulk, one view, one fault (a restart, or a failing call). One slot of the publishing
  worker suffices: the console never asks which slot runs a job.

## 3. The runs

`CHECK_DEADLOCK FALSE` everywhere: the system stops. The clock of durable publishing is
bounded, and when it stands and every row is settled nothing is left to do; a queue whose
jobs have all ended is idle; requests, reviews and pipeline runs come to an end.

| run | instance | question and result |
|---|---|---|
| `DurableWorkers` | two workers, two rows, crashes, cancellation, a target that answers what it accepts (1,053,717 states) | `TypeOK`, `ClaimExclusive`, `AttemptsMatchCount`, `GivenUpForCause`, `PublishedOnce`, `SuccessIsPublished`, `TerminalIsFinal` hold |
| `DurableShared` | a worker and a direct publisher, a publishable and an unpublishable payload, every outcome, every operator command (181,015) | `PublishMatchesReservation`, `RemoteIdIsReal` hold |
| `DurableLiveness` | no crash, fair workers, two priorities, an unpublishable row (221,944) | `EventuallySettled` holds |
| `QueueFaults` | two slots, two jobs of one slug, every fault: lost answers, failing calls, deaths, locks that expire under a live run (728,543) | `TypeOK`, `EvidenceChain`, `CompletedIsPublished`, `EffortIsBounded`, `HistoryStopsPublishing` hold |
| `QueueClean` | one slot, an answering target, four jobs (one refused, one without a publisher), every command of the operator | `PublishedOnce`, `FailureIsGenuine`, `SkipIsIdempotent` hold, the last because each asset has its own slug |
| `QueueLiveness` | deaths, expiring locks, throwing calls, jobs that leave no history, a queue that may be paused | `JobsEnd` holds |
| `MediaFaults` | two uploads, one refused, two slots, every fault, three runs of one job (133,892) | `RecordsAreBacked`, `AttemptsAreOwned`, `AttemptsAccount`, `ProcessingEnds` hold |
| `WorkflowRaces` | two clients, one review, two artifacts, one of them saved as invalid or not | `HistoryTellsAll`, `InvalidIsNeverPublished`, `ReadyStaysApproved` hold; the tables implement `Review` (`ImplementsReview`) |
| `EditorialLoop` | one review, two callers, every sample draft first, two drafts as revisions (788,101) | `NothingBlockingIsLost`, `ReadinessIsSound`, `ApprovedIsReady`, `LineageHolds` hold; the loop implements `Review` |
| `Pipeline` | two runs, five repositories, seven requests (1,333,364) | `ContextIsComplete`, `PostsAreEarned`, `SuccessIsEnqueued` hold |
| `Console` | two requests through the API or the dashboard, three assets, three deployments, one fault | `AnswersAreTrue`, `TrailTellsTrue`, `TimelineIsTrue`, `SavedConfigHolds`, `OnlyWhatWasAsked` hold |
| `ConsoleSelection` | the same | `SelectionIsAskedFor` fails: of several ticked assets or publishers only the last reaches the handler |

The `Durable` runs check `MCDurablePublishing`, the `Queue` runs `MCQueuePublishing`, the others
the MC module of their name, and `MediaFaults` `MediaProcessing` itself.

`PublishedOnce` and `SuccessIsPublished` of durable publishing are checked without direct
publishers and with a target that answers what it accepts, because the code does not promise
more: a request that times out after the target accepted it is reported as retryable, and
the next attempt posts again. `TerminalIsFinal` says that a row never leaves the terminal
states, not that it keeps the one it reached: cancel and moveToDeadLetter check the version
and not the status, and turn a succeeded row into a cancelled one.

`PublishedOnce` and `FailureIsGenuine` of queue publishing hold with one slot and a target
that answers what it accepts. What survives every fault is that the evidence is complete
(`EvidenceChain`), that the damage is bounded (`EffortIsBounded`) and that it ends with the
first recorded post (`HistoryStopsPublishing`).

`ContextIsComplete` is what survives two runs that load the same collection at once: a
plan that lists its missing references wrongly is possible then, one without a warning is not.
`ApprovedIsReady` is about reviewers who give the report of the draft under review;
`SuccessIsEnqueued` says less of runs that share an outbox, as the next section tells.

### What the code does not promise

Behaviours met while modelling, which the models contain and which bound what can be stated:

* *Durable publishing.* Two publishers that read the same failed reservation both proceed
  (`publishing-idempotency.repository.ts:91`, the update is by id). A final failure is stored
  as "completed", so the next publish of the same payload is told success (`:201`). Nothing
  releases the claim of a worker that died: its row stays in processing
  (`publishing-outbox.repository.ts:203`), which is also why a crash between the remote call
  and the settling does not publish twice.
* *Queue publishing.* Two jobs of one slug that pass the duplicate check before either has
  recorded its post both post (`publishing.processor.ts:67`). A post whose history row cannot
  be written fails the job and is posted again by the retry (`:93`). Two files of one base
  name share a slug, and the second is skipped though it was never published.
* *Processing.* No code sets an asset to "ready" once its thumbnail is made; the composer, which
  publishes only ready assets, depends on someone else for that.
* *Reviews.* A status written after another transaction's write can undo an approval of the
  artifact (`content-workflow.repository.ts:301`). The findings an approval is checked
  against are the caller's, who may give none. A revision whose generation throws leaves the
  review in revision. The revision limit is that of the artifact the caller passes. The
  findings of a revision request are deduplicated by a coarser key than the report's, so a
  request for all findings may lack one of high severity.
* *Editorial rules.* A repeated heading shares its section's id, so the second section's
  findings are dropped; two long sentences at the same place of two paragraphs share theirs;
  readiness asks for high confidence and approval does not; one promotional finding stands for
  the whole document.
* *Pipeline.* Two first loads of one collection that cross poison the service: every later
  index is refused for duplicate identifiers, and collections loaded since answer "not found".
  The request hash of a handoff is made of the length of its content. A worker of a shared
  outbox executes the row that waits longest, and finding none is a success. A canonical URL
  always blocks the handoff. What the adapter throws leaves the row claimed and its key
  reserved for ever.
* *Console.* A publication of one blank publisher passes every check and answers with one
  failed pair "*" and no job; the attempt to prove the specification found that the model
  lacked this case. The dashboard reads its composer, publisher and asset pages without its key, so
  with authentication they stay empty and each view counts as a failed login of "anonymous",
  which ends in an alarm. A lookup that throws after earlier pairs were enqueued answers 500
  and leaves those jobs without an audit event. A saved form overwrites what another operator
  saved after it was opened. "Mark all read" marks notices that came after the list was read.
  A job that moves to a state already scanned is missing from the timeline; one that waits for
  its retry is shown as scheduled.

**Fairness.** `FairSpec` assumes weak fairness of each worker's steps and of the clock:
someone (a scheduler, an operator) invokes run-once again and again for each worker
identity, each call returns, and time passes. The run-once script takes no more than that
for granted. No fairness is assumed for operators, for direct publishers, for the
enqueueing client, or for a particular outcome of the target: a row whose every attempt
fails ends in dead-letter.

For the publishing queue and, in `MediaFaults`, for the processing queue, `Fairness` assumes
of each slot that it goes on (takes a job when one waits and it is idle, returns from each
call), of each delayed job that its delay ends, and of each job whose run is gone that the
queue notices the expired lock: the worker's event loop and BullMQ's stalled check, which runs
in every worker. Nobody has to enqueue, to resume a
paused queue, to retry or to upload; a slot may die as often as it likes, since lost locks
are counted. The other specifications assume no fairness: what they promise is safety, and
whether a human decides, a caller calls again or an operator asks is nobody's duty.

**Refinement.** `ContentWorkflow` and `EditorialLoop` instantiate `Review` with a mapping of the
review's row to its stage and of the artifact it judges to its subject. Reads, refused
writes and everything about artifacts stutter; a step that decided a review twice, reopened a
decided one or changed what an open one is about would be no step of `Review`.

**Faulty variants.** Definitions commented "Faulty variant" are the bugs the properties
are measured against: each differs from the definition after it in one plausible mistake
(a guard dropped, a lock not released, a counter off by one), and with it in place the
property named in `PROJECT.json` fails.

## 4. What is proved

The theorems hold for every value of the constants: any number of workers, slots, jobs,
handoffs, assets, reviews, clients and attempts, any outcomes, faults and commands, unless a
theorem names a hypothesis. The assumptions are those beside the constants, which TLC evaluates
in every run. Each proof rests on an inductive invariant, found and first checked with TLC,
and has one step per action; a last step combines them by the temporal rule for invariants.

### Durable publishing (`DurablePublishingProofs`)

Assumptions: `DomainConstants`, `OutboxConstants`, `ReservationTTLInNat`,
`DurablePublishingConstants`, and `RetryDelayInNat`, which states that the backoff of an allowed
attempt is a natural number, because exponentiation has no library facts.

* `TypeCorrect`: `TypeOK`. `TypeInv` adds that a process past its first step has a handoff,
  without which `outbox[proc[p].handoff]` means nothing.
* `ClaimsExclude`: `ClaimExclusive`. `ClaimInv` adds two facts about what a worker remembers.
  Through its whole cycle the row it remembers is the row it claimed: "processing" and locked
  by itself (`HoldsClaim`). Between the two queries of claimNext the row it read first was
  claimable (`SawClaimable`), so a claim that compares the version is a claim of a row still
  claimable.
* `TerminalStays`: `TerminalIsFinal`, from the same invariant: a claim needs a claimable
  status, which a terminal row never regains.
* `RemoteIdsAreReal` and `PublishesWhatWasReserved`: from `ReservationInv`, which says of
  every process that has reserved that the row exists with the hash of its payload, and of
  every process whose post was accepted that there is one. The hash of a row never changes
  once inserted, so the race in reserve cannot mix payloads.
* `GivenUpWithCause`: `GivenUpForCause`. What a step may do to a row is one of seven things
  (`RowMoves`), each of which keeps the cause where it was recorded: the count below the limit
  while the row may be tried, and in dead-letter the limit reached or a final failure.
* `AttemptsTellTheStory`: `AttemptsMatchCount`, where operators only cancel. The other two
  commands take the number of their attempt from the operator, and the row's counter does not
  count it. Each row is looked at on its own (`Told`), and only the owner of a claim writes.
* `SuccessHasItsPost`: `SuccessIsPublished`, without direct publishers, whatever the target
  loses. The danger is a final failure, whose reservation is completed: whoever took it for a
  success would mark an unpublished row. `PostInv` says that a row with a completed reservation
  is never up for a claim again, and that a worker at work has found none (`Backed`, `Honest`).
* `PostsOnce`: `PublishedOnce`, where moreover the target answers what it accepts (`Answers`).
  The same invariant then says of a posted handoff that its row is not up for a claim.

The hypotheses of the last two are the behaviours listed above under what the code does not
promise: without them TLC finds the second post.

### Queue publishing (`JobQueueProofs`, `QueuePublishingProofs`)

Assumptions: `JobQueueConstants`, `QueuePublishingConstants`.

* `TypeCorrect`: `TypeOK`; `Busy` adds that a slot that is not idle has a job.
* `CompletedJobsArePublished`: `CompletedIsPublished`. A completed job says nothing of the run
  that completed it, so `CompletedInv` carries the evidence along: a history row has a post
  (`HistoryIsPosted`), a run about to write its row has posted (`PersistsPosted`), and a run
  about to report success has posted or has found a row of its slug (`ReportsPublished`).
  Counters only grow (`CountersGrow`), so evidence stays, and only such a report completes a
  job (`OnlyReportsComplete`).
* `HistoryGuardsSlugs`: `HistoryStopsPublishing`. A recorded slug stays recorded, and a run
  that searches the history gets beyond the search only when the slug is not.
* `EvidenceIsComplete`: `EvidenceChain`. With several slots on one job the inequality between
  posts and media is not inductive: `EvidenceInv` adds to the posts the number of slots that
  have uploaded and not yet posted, and to the history rows the number of slots that have
  posted and not yet recorded (`Holding`).
* `EffortHasAnEnd`: `EffortIsBounded`. Uploads alone are not bounded by what a job has used
  up: `EffortInv` adds the runs that may still upload (`Early`), and `Effort` (in
  `JobQueueProofs`) says for each state of the job how many deliveries it has had at most.
* `SkipsAreDuplicates`: `SkipIsIdempotent`, where jobs of one slug are of one asset. This is the
  hypothesis the code does not guarantee (two files of one base name share a slug).
* `FailuresAreGenuine`: `FailureIsGenuine` for any number of slots where nothing is lost
  (`Reliable`: calls of the database return, slots live on with their locks, and no answer of
  the target gets lost). `HeldInv` says that a slot holds what it runs, and that a job with a
  post is done or in the hands of a run that will report success.
* `SlugsArePostedOnce`: `PublishedOnce` where one slot works alone, loses no answer and every
  success is recorded (`Alone`); a lock may expire under it. `OnceInv` says that a post is in
  the history or about to be, and that a run beyond the check finds its slug unposted. Two
  slots, a throwing history or a lost answer each break it, as `EvidenceChain` and
  `EffortIsBounded` then still hold.

### Media processing (`JobQueueProofs`, `MediaProcessingProofs`)

Assumptions: `JobQueueConstants`, `MediaProcessingConstants`. No hypotheses: calls fail, slots
die and two slots run one job.

* `TypeCorrect`: `TypeOK`; `TypeInv` adds that numbers of attempts have no gap and that a run
  knows the number it was told (`Numbered`, `KnowsItsNumber`).
* `NothingIsPretended`: `RecordsAreBacked`. `BackedInv` ties how far a request or a run has come
  to what must exist by then (`AssetBacked`, `RunBacked`); nothing that exists is taken back.
* `EachRunHasItsAttempt`: `AttemptsAreOwned`, from `Distinct`: two runs past the insert have
  different numbers, because the insert needs its number to be free.
* `EveryAttemptIsAccountedFor`: `AttemptsAccount`. `AccountInv` counts, beside the attempts made
  and the publications handed over, the runs that are about to make one (`EarlyRuns`,
  `HandingRuns`), and uses the same `Effort` as the publishing queue.

### Reviews (`ContentWorkflowProofs`, `EditorialLoopProofs`)

Assumptions: `ContentWorkflowConstants`, `EditorialLoopConstants`, and `EnabledAnalyzers`: a
profile lists analyzers that exist, in some order.

* `TypeCorrect` of the tables; `TypeInv` adds that copies and rows name what exists.
* `HistoriesTellAll`: `HistoryTellsAll`. `FreshInv`: a client that is about to write holds a
  version the row had, and if the row still has it, its status too. So the conditional update
  either changes the row that was read or nothing.
* `ReadyIsApproved`: `ReadyStaysApproved`. A decided review stays as it is (`VerdictStands`, from
  `FreshInv`), so an approval read once (`TrueCopy`) is true for ever.
* `InvalidIsKeptBack`: `InvalidIsNeverPublished`. `InvalidInv` bounds what a client may be about
  to write to an artifact saved as invalid, and to its review.
* `TablesKeepThePromise`, `LoopKeepsThePromise`: `ImplementsReview`, that is `Spec` of each
  implies `Review`'s: initial states map to initial states, every step to a step or a stutter
  (`PromiseInv` adds that only a review whose changes were requested is put back).
* `TypeCorrect` of the loop; `LoopInv` adds that a review is of its own draft and an awaited
  generation fits its plan.
* `LineageIsKept`: `LineageHolds`, an action property, from `LoopInv`: an identifier says of
  which review, request and number a draft is, and what is in store is not generated again.
* `ApprovedOnReadiness`: `ApprovedIsReady`. It compares the threshold of approval with the one
  of readiness for every report the analyzers may make, and keeps it while drafts stay.
* `BlockingIsHeard`: `NothingBlockingIsLost`, which is a fact about drafts (`NoneUnheard`) and needs
  no invariant: for every draft, every profile and every choice of rules switched off. It rests on
  the code and severity of each of the eighty rules (`EditorialKinds` and its like): a code that
  two analyzers use, or that is in a semantic group, either always blocks (`Loud`) or never does
  (`Quiet`), and all others are one analyzer's own (`OwnIsOwn`). A group of one code and place
  keeps one of its findings (`PrimaryIs`); if it is of several analyzers, its code is loud, so what
  is kept blocks as well (`LocationKeeps`). The semantic groups only take quiet findings, in
  whatever order the fold visits them (`CrossModuleKeeps`). A rule added later with a severity of
  its own under a shared code would break `InKey`, and the proof with it.

### Content pipeline (`ContentPipelineProofs`)

Assumptions: `NodeLimitIsPositive`, `MaxAttemptsIsPositive`, `ContentPipelineConstants`, and
`RepositoriesHoldFiles`: a repository holds finitely many files of each type, and a file refers to
finitely many others. Any number of runs, any repositories, requests, contents and deliveries.

The invariant `IInv` has two halves. `Publication` is about outboxes and what has been posted:

* `RunGood` says of a run what lies behind it at its stage: a package is made only of a plan whose
  prompt is clean, of valid content and of an approval (`Made`, `Safe`). `RunStored`: a run that is
  past `Enqueue`, or reports success, has its handoff in the outbox.
* `StoreGood`: the rows of a store come of its runs' packages, each handoff has one row, and a
  handoff that was posted has its key completed or reserved, so that nobody posts it again.
* `Alone`: of a run that does not share its store, the one row, the one key and the one post are
  its own, stage by stage. Without this half of `SuccessIsEnqueued` would not be inductive.

`Prepared` is about knowledge and plans:

* `KnowledgeOK`: what the index covers is held, and as long as an index can be built, what is
  held is covered.
* `WalkOK` of a walk under way: its nodes exist and are reached from the root (`WalkBase`), its
  queue is in the order of depth (`QueueOK`), and what it has expanded has been followed to the end
  but for what is still queued or was cut off (`Complete`), unless the index is spoiled (`Clean`).
* `ContextTold`: a plan that has been made says what `ContextIsComplete` asks.

Between two steps of one run another may load collections. This only makes more of the repository
known (`MoreKnown`), which keeps what a walk has seen and
what a plan has told, except that an index built over a collection held twice is spoiled for good;
this is why `Clean` is in the invariant and a spoiled index in the property. One step of the walk
follows a relation, which is a fold over the references of a field: `FollowIsChain` unfolds it to
a chain of `Reach`, one reference at a time, and `ReachGrows` says what each adds to nodes, missing
references and queue (`Grown`). At the end of a walk nothing is queued before the last depth, so
that `Complete` closes the nodes under the steps that define `Reached`.

* `PublishedOnlyWhatWasEarned`: `PostsAreEarned`.
* `SuccessMeansEnqueued`: `SuccessIsEnqueued`.
* `PlansTellWhatIsHeld`: `ContextIsComplete`.

### Console (`ConsoleProofs`)

Assumptions, each about what a deployment or a call can be:

* `RequestsAreFinite`: a process has received finitely many requests at any time.
* `CallsAreCalls`: the fields are those of a call, its assets and publishers are lists; the routes
  for one asset take one; a form gives each field of its provider a value or none.
* `EnvironmentsAreReal`: a deployment gives every variable a value or none, and no secret is the
  placeholder it is shown as.
* `StarIsNoName`: no call names an asset or a publisher "*". The code does not see to this: it
  answers "*" for all assets or all publishers
  (`apps/api/src/composer/content-composer-service.ts:398`), so that of a request with a
  publisher of that name nobody could read the answer.

`ConsoleInv` is what the five theorems rest on. It says of every request that it has the fields of
one and a code exactly when it is answered (`Whole`), that a publication has assets and publishers
left without repetitions and among those asked for (`PubReq`), and that whoever publishes may
(`Allowed`); of the page that it offers forms of providers and pairs; of the trail `TrailInv`,
explained below; of the settings `ConfigOK`; and of every job
`JobIsAsked`: it is of a pair that was asked for and is settled, timed exactly for a schedule,
recorded only if the slug is, delayed only for a time or after a fault. The proof goes in two
steps. First each handler is shown to take one of six kinds of step (`Moved`, `Stepped`): a request
comes, goes on, publishes, saves, all are lost, or none moves; with what the kind does to the
request and to the queue (`Outcome`, `JobsMove`). Then each part of the invariant is shown for the
kinds, and not for thirty actions.

* `SavedStays`: `SavedConfigHolds`. The overlays of two providers concern disjoint fields, so
  merging one leaves the other's loader the values it had (`OthersLoad`); the preview that
  validation looks at agrees with what is then in effect (`SavedLoads`). `ConfigOK` carries a
  saved provider from the step that saved it: the overlay is sound, and whoever was told 200 is
  enabled.
* `QueueIsAsked`: `OnlyWhatWasAsked`, with the type invariant. A pair cannot come from anywhere but
  the call, because what `Unique` leaves of its lists is among them (`UniqueIsSimple`), and what
  the guard let in at the start is remembered with the request to the end.
* `TimelineTellsTrue`: `TimelineIsTrue`. `Tells` says of a state that was met what is still so of
  the job now: states change, but a job that is through never publishes again, a recorded slug
  stays recorded and a fault stays counted. So the history, read later than the states, cannot
  contradict them.
* `AnswersTellTrue`: `AnswersAreTrue`. While an answer is being made `ToldSoFar` holds of it: of the
  pairs asked for, those still left are told nowhere and each of the others in one list; those
  told as queued are the ones with a job. An outcome can be told of a pair, of an asset or of the
  whole request, and an asset is only given up before any of its pairs is settled.
* `TrailTells`: `TrailTellsTrue`. `TrailInv` says of a request that may still publish that the
  trail tells no outcome of it, and of one that was answered that the trail tells the three lists
  of its answer, as events and as notices (`Recounts`). That nothing was told before the answer
  has to be part of it, or what is recorded with the answer could be too much. A step either
  records events of no outcome, or changes marks and the count of failed logins, or
  answers a publication (`Alike`, `AnswerRecounted`). The alarms follow from `Balance`: three
  times their number plus the logins counted towards the next is at most the number of failed
  logins. A recorded event keeps it, the window only forgets logins, and a restart starts with
  neither. With `AnswersInv` the outcomes are those of the jobs.

Folds, with which the code's loops are modelled (`Unique`, `RecordedAll`, `ChoiceOf`), are within
reach of the prover: a fold over a sequence is unfolded by `DEF FoldLeft, MapThenFoldSet`, and the
induction is over a set of numbers with a least element outside it (`Inductive`, from
`NatLessThanWellFounded` and `WFMin`), so that no theorem with an operator parameter is needed.
`RecordedOneByOne` restates the fold of the trail as a chain of trails, each with one event more,
which is how everything about it is proved. The sum over the requests in `Count` is a fold over a
set, whose order the definition leaves open: `CountIs` shows it to be the cardinality of the set of
places, whatever the order, by induction on the size of the set.

### Model-checked only

* Liveness (`EventuallySettled`, `JobsEnd`, `ProcessingEnds`): the prover has no rule for fairness.
* `ReadinessIsSound` of the editorial reports: it compares the rules with a definition of a sound
  draft that is simpler than they are, and the two agree on the drafts and the profile of the run
  only. With an analyzer or a blocking rule switched off, or a draft whose headings are themselves
  configured patterns, which rules on bodies do not read, they differ, so that it is not a theorem
  about every profile and draft.

## 5. What is not modelled, and the plan

* HTML layout, the wording of prompts, findings and warnings, identifiers and timestamps that
  only inform.
* Signatures, hashes and encodings of tokens; a token is sound or not.
* The Storage and AI providers and the remote sites, but for the outcomes their callers
  distinguish.
* Ingestion and the repositories of projects, content and media: scoped reads and writes of
  single rows without transitions.
* In the WordPress handoff adapter the in-process cache, the mapping of payloads and media.
* The affiliate analyzer, which is an empty stub.
* Metrics and logs.

Planned, most important first:

1. Proofs: the two halves of `ReadinessIsSound`, each under the conditions on profile and draft
   that it needs.
