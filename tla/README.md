# Verification of letletme_data

TLA+ specifications of the concurrent core of the Data service, the TLC runs that check them on small
instances, and TLAPS proofs of their main safety properties. The modules are translated from the
TypeScript under `src/src`; `PROJECT.json` names, for each definition, the lines it models.

## 1. The system

The Data service fetches Fantasy Premier League (FPL), Understat and editorial sources, keeps them
canonical in PostgreSQL and publishes rebuildable copies in Redis (`llm:data:*`) for readers. It runs
as several processes that share nothing but the database, Redis and the BullMQ queues in Redis:

- the **API** (`index.ts`): HTTP requests, manual triggers; in compatibility mode it also runs scheduler passes;
- the **worker** (`worker.ts`): the BullMQ workers `data-sync`, `entry-sync`, `live-data`, `league-sync`,
  `tournament-sync`, `tournament-setup`, `tournament-repair`, `understat-team`, `understat-player`, `maintenance`;
- the **scheduler** (`scheduler.ts`): every 30 s it reconciles the published pointers with PostgreSQL,
  sweeps at most 20 undelivered receipts, runs the live lifecycle and then one pass over the job registry;
- the **content worker** (`content-worker.ts`): every 30 s a pass over the acquisition schedules and the
  planner of triggered work, next to an outbox dispatcher and the X, HTTP and media workers.

No process ever holds a lock over a call to another one. What keeps them consistent is a handful of
protocols built from row locks, leases with owners, generations, revisions and Redis scripts, and those are
what the models are about.

### 1.1 Inventory

| Component (module) | State | Operations | What is hard | What makes it correct |
|---|---|---|---|---|
| Data publication (`DataPublication`, `RevisionStore`) | publication rows, manifests, receipts, sync runs; Redis pointer and items | prepare, stage, activate, deliver, reconcile, sweep, heartbeat | two stores without a common transaction; overlapping publishers and dispatchers; expiring items; crashes at every gap | the pointer always serves, never leads PostgreSQL, revisions only grow, Redis converges, receipts settle |
| Scheduler obligations (`SchedulerObligations`) | `ops.scheduler_obligations`, BullMQ jobs | reserve, mark, claim, enqueue, confirm, fail, renew, complete | two passes over the same rows; jobs of reclaimed generations still running; lost reports | a success is evidence of work, healthy work is not restarted, closed stays closed, everything is closed in the end |
| Entry synchronisation (`EntryScan`) | entries, per-entry checkpoints, the obligation, the chain of jobs | read a chunk, sync, retry a list, renew, enqueue the successor, complete | chunk boundaries, partial failures, jobs that run twice, deterministic job IDs | a completed scan has covered every entry; the chain does not break silently |
| Formal X acquisition (`FormalRuns`) | schedules, runs, budget reservations, gaps, outbox, queue | claim, hand over, begin, probe, execute, persist, follow up, fail, defer, reclaim | a worker that outlives its lease; capped results; two reservations per run; reopened outbox rows | one active run per schedule; no instant lost silently; every call paid; follow-ups end |
| Receipts, HTTP and media workers (`ContentIntake`) | receipts and revisions, triggered runs, provider jobs, media budget | poll, plan, dispatch, submit, park, poll the provider, persist, recover, reclaim | a text that arrives after its item changed; a run that fails although the provider works on it | the newest item is kept; one provider job per text; every unit charged is recorded once |
| Manifest and X identity (`SourceRegistry`) | endpoints, partitions, schedules, checkpoints, identity runs | reconcile a manifest, look an account up, scan, resolve an author | a manifest changes handles and members while runs use the old ones | runs and checkpoints follow the contract in force; an account is one user, a user one account |
| Editorial workflow (`Editorial`) | candidates, stories, evidence, editions | create, accept, merge, draft, attach, mark ready, freeze | commands that read without locks and write later | a frozen edition holds cleared evidence only; merges lose no receipt |
| Week publication (`WeekPublication`) | publications, payloads, idempotency keys, outbox; Redis payloads and pointer | publish, replay, stage, compare and set, dispatch | staging is not transactional; clients repeat; two dispatchers | a pointer names a complete pair, never goes back; one revision per edition; the web is told |
| Bug reports (`BugReports`) | reports, retention backups, migrations, stored objects | submit, change status, clean up, migrate, purge | remote deletes between transactions; shared objects; jobs that die | a shown screenshot exists, a stored one is known to somebody, public ids are not reused, scrubbed reports go |
| Tournament setup and roster (`TournamentSetup`) | the tournament's row, setup and reconcile jobs | set up, claim, fetch, publish a roster, watch, pause, resume, retry, delete | a reconcile works outside the lock that the others hold | standings fit the roster, the roster is fixed during a gameweek, readiness is kept, setups end |
| Tournament competition (`TournamentCompetition`) | plan, groups, standings, ties, legs | plan, draw, sync groups, sync the knockout | byes, odd groups, ties, corrections, events synced in any order | fair draw; nobody qualifies before a better one; the stored bracket is the one the results determine |
| Tournament cascade (`TournamentCascade`) | jobs per role, slots and lease in Redis | fan out, record, claim, refresh | the last of several jobs starts the next stage, and may die doing it | a refresh only after every role, and always after it |
| Event synchronisation (`EventSync`) | results, transfers, league results of a gameweek | fetch and store, finalize, enrich, audit | overlapping attempts and a gameweek that is finalized meanwhile | accepted rows are final; a stored attempt is not undone; a checkpoint means a complete history |
| Live lifecycle (`LiveLifecycle`) | phases, polls, the fence, facts, cache, core sync | plan, poll, store, publish, deliver, finalize | overlapping polls, cache-only polls, a core sync next to them | final facts are final; a durable poll is kept |
| My FPL snapshots (`MyFplRefresh`, `MyFplSnapshot`) | refresh jobs and their set; snapshot revisions, outbox, manifest | enqueue, track, wait; capture, deliver, delete a tournament | jobs tracked after they were added; snapshots older than the lock | phases do not overlap; a final snapshot is not downgraded; no snapshot of a deleted tournament |
| Understat (`Understat`) | runs, items, staged payloads, canonical rows | discover, fan out, fetch, finalize, record failures | jobs that survive a rollback; a listener outside the lock | one active run, published whole, details not older than the league |
| FPL client and admission (`FplRequests`) | counters and leases in Redis, the request loop | acquire, wait, request, retry, release | lost answers and dead holders | counters equal leases; limits hold; the answer is of the last status |

Not modelled:

| Component | Why |
|---|---|
| Mutation scopes over several rows (`utils/mutation-scopes.ts`) | each module uses the scope of its own row; the lexical lock order over several rows has no model |
| Season promotion and identity alignment of the core snapshot | `LiveLifecycle` has the part that meets live jobs; the rest is one transaction under one lock |
| Market publication, manager live reads, trends, audits, derived views | the publication protocol is that of `DataPublication`; what is left is computation over rows |
| League membership sync, the tournament repair worker, head-to-head leagues, battle races | upsert loops and modes next to the modelled ones, under the same queue protocol |
| Source adapters, transformers, row mappers | field-by-field conversion and network I/O |
| HTTP API, guards, rate limits, runtime utilities | parsing, delegation, logging, configuration |

### 1.2 How the components interact

```
 scheduler pass ──obligation──▶ BullMQ ──job──▶ worker ──▶ services ──▶ PostgreSQL rows + receipts
      ▲   │                                         │                         │
      │   └── reconciler and sweep ─────────────────┼────────────▶ Redis pointer and items ──▶ readers
      └───────────── report (obligation, generation)┘
 content pass ──run──▶ BullMQ ──▶ X worker ──▶ receipts, checkpoint, follow-up ──▶ outbox ──▶ dispatcher ──▶ BullMQ
```

`EntryScan` is the inside of one kind of job of `SchedulerObligations`, whose part it reduces to claims and
lease expiry. `DataPublication` is what the jobs of the data and live queues end with; `LiveLifecycle` reduces
it to one delivery step. The gameweek's finalization that `LiveLifecycle` decides is an input of `EventSync`, and
a finished `EventSync` job is what starts a `TournamentCascade`, whose roles run the syncs of
`TournamentCompetition`. `TournamentSetup` decides the roster and the standings those work on, and `MyFplRefresh`
waits for such jobs before `MyFplSnapshot` captures. `SourceRegistry` makes the schedules `FormalRuns` claims;
`ContentIntake` takes the items they find; `Editorial` turns receipts into the frozen editions that
`WeekPublication` publishes. All FPL reads go through `FplRequests`.

## 2. Plan

Done: the protocols that carry the system (`DataPublication`, `SchedulerObligations`, `EntryScan`, `FormalRuns`) with
their faults; the store of revisions as an abstract specification that `DataPublication` implements; one module for each
further component that keeps state, checked together in the runs `progress` and `operations`. Every safety property
the passing runs check is a theorem (section 5).

Left: mutation scopes over several rows; battle races and official head-to-head leagues.

## 3. The models

In every module one step is one database transaction, one Redis script or pipeline, one call of the queue or
one call of the provider. Payloads, names and wording are left out. Clock time is kept only where the
code computes with it; otherwise a lease is live or has run out, a row is due or not. Failures (crashes, lost
calls, leases that turn out too short) count against `MaxFaults`, so that a behaviour has finitely many but
they may happen anywhere. Where the code ends a lease only because nobody is working any more, its expiry is
ordinary passage of time; while somebody still works it is counted as a fault.

### 3.1 `DataPublication`

One publication scope: a dataset, a season and, for `fpl:live`, an event. `Pub` is the set of publication
attempts; an attempt is also its publisher and its sync run.

| Variables | Code |
|---|---|
| `row`, `manifest`, `rev`, `src`, `nextRev` | `ops.dataset_publications` and its revision sequence (`sync-operations.ts`) |
| `run` | `ops.sync_runs` |
| `outbox`, `owner`, `held` | the delivery receipt with its lease or retry delay (`data-publication-outbox.ts`) |
| `fence` | `events.live_snapshot_checked_at`, the ordering fence of `fpl:live` |
| `pointer`, `beat`, `item` | the active pointer, a refreshed fetch time in it, and the lifetime of the items (`cache/data-publication.ts`) |
| `pubPc`, `lane`, `schedPc`, `recDb`, `recRedis` | where publishers, dispatchers and the scheduler pass are, and what the reconciler has read |
| `served` | history: what the pointer has ever named |

Publisher actions: `PubStart` (run and upstream reads), `PubPersist` (the mutation transaction with the
staging row and, for live, the fence), `PubStage` (items), `PubActivate` (the activation transaction, which
also writes the receipt), `PubDispatch`, and their failures. Dispatcher actions (`Lane...`): stage, activate,
acknowledge, deliver, fail, each guarded by the receipt's owner; the publisher and the scheduler each
have a lane per receipt. Scheduler actions: `RecReadDb` to `RecReceipt` (the reconciler) and `Sweep`.
Environment: `Tick`, `HoldEnds`, `ItemsExpire`, `Heartbeat`, `RedisLost`, `SeasonRolls`, crashes.

### 3.2 `SchedulerObligations`

Overlapping passes of the scheduler and of an API process over `ops.scheduler_obligations`.

| Variables | Code |
|---|---|
| `status`, `gen`, `due`, `leaseOwner`, `leased` | the row (`repositories/scheduler-obligations.ts`) |
| `open` | is the obligation's day or bucket still current (`job-registry.ts`) |
| `job` | state of the BullMQ job of each generation; the queue keeps settled jobs, so an ID is used once |
| `task`, `claimed` | where a pass is with each obligation, and the generation it claimed (`scheduler.service.ts`) |
| `worked` | history: generations whose job did its work |

A pass plans (`PassStart`), reserves, marks, claims, enqueues, confirms or fails; a job starts, runs,
renews, reports; every call may be lost. `FailGeneration` and `Complete` are the guarded updates.

### 3.3 `EntryScan`

The chain of chunk and retry jobs of one entry-sync obligation (`entry-sync.worker.ts`,
`entry-sync-enqueue.ts`, `entry-sync-chain.ts`). `JobData` is the payload that matters: generation, chunk
or list, cursor, entry IDs, retry cycle. `SameId` is the equality of BullMQ job IDs. A job reads
and syncs its chunk in one transaction (`JobSyncs`, or `JobSyncsSome` when some entries fail), renews the
obligation, enqueues its successor, completes the obligation at the end, and may stall or throw anywhere, in
which case BullMQ runs it again up to `Attempts` times. Entries are added at any time.

### 3.4 `FormalRuns`

One recurring X keyword partition (`formal-run-repository.ts`, `formal-scheduler.ts`, `formal-x.worker.ts`,
`receipt-repository.ts`, `job-outbox.ts`, `triggered-work-planner.ts`, `x-budget.ts`).

| Variables | Code |
|---|---|
| `sched` | the schedule: lease owner, due, failure streak, checkpoint |
| `run` | acquisition runs: recurring or follow-up, status, window, lease |
| `res` | budget reservations: the scan's, the probe's, what is spent |
| `gaps`, `outbox` | declared gaps; outbox rows with owner and job ID |
| `pass`, `disp`, `waiting`, `added`, `worker` | the pass, the dispatcher, the queue and the workers |
| `fetched`, `calls`, `lost` | history: instants answered for, calls made, runs taken from a working worker |

`Claim` claims a due schedule, `ClaimStale` first fails the run whose lease ran out. `Begin`, `Probe`,
`ExecuteAnswers` or `ExecuteFails`, then `Persist`, `Fail`, `ReleaseProbe` or `DeferForCapacity` are the
worker. A capped result (`Capped`) advances the checkpoint and leaves the unseen part of the window to a
follow-up, or declares it a gap when the budget is spent. `ClaimOutbox` and `Dispatch...` deliver
follow-ups, `RecoverStaleTriggeredRun` reclaims them.

Left out: HTTP and media runs, X identity and semantic partitions, receipts themselves, the manifest
reconciler (which may reset a checkpoint), and a changed profile, which only makes a schedule due later. The
horizon is shorter than the rolling budget windows and the 24 h lookback. The window of a follow-up is
assumed never to equal that of a recurring run: one ends at a post's second, the other at the database clock's
millisecond (see observation 6).

### 3.5 `RevisionStore`

What a reader may rely on, with no rows, receipts or leases: revisions are committed in ascending order and for
good, and the visible one has been committed. `DataPublication` implements it (`ImplementsStore`) under the
mapping `committed` = the revisions of publications with a full manifest, `visible` = the revision of the
pointer, or 0. The pointer may show an older committed revision for a while: a reconciler that read
the active row before a newer publication was activated and served swaps the older one back, until its next
pass. That is why the store promises no more; that revisions of rows only grow is `RevisionNeverRegresses`, and
that the pointer ends at the active one is `RedisConverges`.

### 3.6 Editorial: `Editorial` and `WeekPublication`

`Editorial` keeps candidates with their receipts, stories with their evidence, and editions with items, source runs
and the frozen snapshot (`editorial-repository.ts`). A command is one transaction; where it reads rows without
locking them and writes on the strength of that read (`DraftReads`, `AddReads`, `FreezeReads`), the read is a
step of its own. `WeekPublication` starts from frozen editions: a publisher's command commits a revision under its
idempotency key, stages both locales, moves the pointer with a compare-and-set script and dispatches the outbox
(`week-publication.ts`, `revalidation.ts`); it may crash or fail anywhere and be repeated, and the content worker
dispatches as well. Redis keeps its keys here.

### 3.7 `BugReports`

Rows, retention backups (`claim`), storage migrations, and the objects that are stored. Each repository function
takes the advisory locks of the public id and the locator first, so it is one action; the calls to the storage lie
between two of them, so the cleaner, the migrator and the purger have a program counter and may be lost at any
point. A legacy object may be shared by reports.

### 3.8 Tournaments: `TournamentSetup`, `TournamentCascade`, `TournamentCompetition`, `EventSync`

`TournamentSetup` is the life of one tournament row: creation, the setup job with its attempts and the failed
listener, the reconcile job that fetches the official roster, the watchdog, and the owner's commands. A marker
(`setup_progress_updated_at`) is compared for equality only, so a marker that nobody holds stands for now().

`TournamentCascade` is the barrier: each role's job commits, records its slot and, when the barrier is
complete, takes the lease and adds the refresh; every Redis call is a step. Keys contain the cascade's id, so the
cascade of a failed fan-out and that of its retry share no state.

`TournamentCompetition` takes a request through plan, draw, group standings and knockout. A sync is one transaction
under the tournament's scope. Syncs happen for any event, in any order and again after a correction. Its reference
definition is `TrueWinner`: the winner of a tie computed from the draw and the results alone.

`EventSync` is one gameweek of an entry: two result jobs, the transfers before and after the deadline, the league job
and the entry's own history. Fetch and store are two steps; timestamps are taken from the database clock before
the fetch; a transaction that was given up may commit later (`LateCommit`).

### 3.9 `LiveLifecycle`

A gameweek of two fixtures: what FPL shows (`source`), what the tables hold (`gw`), what Redis serves. The
planner is the timer or the standalone scheduler; two workers skip, poll, store behind the fence, publish, and
finalize; the core sync takes its timestamp, fetches, and stores the events, keeping the fixtures of a later live
poll (`LiveOwned`, `FixturesOf`).

### 3.10 My FPL: `MyFplRefresh` and `MyFplSnapshot`

`MyFplRefresh` is the coordinator with its phases and the Redis set of job references: a job is added first and
tracked afterwards, and may be over in between. `MyFplSnapshot` is a REPEATABLE READ capture whose snapshot may be older
than its lock, the outbox and its dispatchers, the activation script, and `deleteOwned`, which takes the same locks in the
other order (PostgreSQL breaks the deadlock: `CaptureAborts`, `DeleteFails`).

### 3.11 `Understat`

Both lanes. A job's body is one scoped transaction (`tx`), so at most one is open; the BullMQ jobs it
adds survive its rollback, its own job may stall while it runs on (`TxJobStalls`), and the failed listener writes
outside the scope. Content is a version number.

### 3.12 Content: `ContentIntake` and `SourceRegistry`

`ContentIntake` follows one item, an article, an episode or a video, through its receipt revisions and triggered runs.
A run may be parked at the provider and polled again; the planner retries, recovers and reclaims.
`SourceRegistry` reconciles manifests while identity runs and scans are under way. A source entity has one endpoint
there, a partition one schedule; leases and budgets are those of `FormalRuns`.

### 3.13 `FplRequests`

The acquire and release scripts with their counters and leases, the adaptive bulk limit, and the retry loop of a
request under its deadline. Time is a tick; timers fire before the next one. The token bucket only delays a
grant, so it is the choice to wait.

## 4. Runs

Every property of a passing run has a mutant in `PROJECT.json`: a plausible mistake in the
code with which TLC finds the property violated.

| Run | Instance | Shows |
|---|---|---|
| `publication_faults` | core, 2 publications, 1 fault of any kind | `PointerServable`; `PointerOrdered` (`RedisNeverLeads`, `LatestActive`); `ReceiptsTruthful` (`DeliveredWasServed`, `PublishedHasReceipt`); `RevisionNeverRegresses`; `ImplementsStore` |
| `publication_live` | live, 2 publications, 2 clock values, heartbeats | `LiveSourceOrder`: the fence makes revisions follow their sources |
| `publication_race` | core, 2 publications, 2 clock values, fair | `RedisConverges`, `ReceiptsSettle` |
| `publication_delayed` | core | violation of `SourceNeverRegresses` (finding 1) |
| `publication_heartbeat` | live, 1 publication, 1 fault, fair | violation of `ReceiptsSettle` (finding 2) |
| `obligations` | 1 obligation, scheduler and API passes, 3 generations, 2 faults, fair | `SucceededDidWork`, `FailuresAccounted` (`RetriesHaveCauses`, `FailuresAreOwn`), `TerminalIsFinal`, `ObligationsSettle` |
| `obligations_expired` | 1 obligation, 1 pass, no fault | violation of `SuccessIsEvidence` (finding 3) |
| `entry_scan` | 3 entries, chunks of 2, 1 retry cycle, 2 attempts, 2 faults, fair | `ScanCoversEntries`, `ScanSurvivesRetries`, `ScanCompletes` |
| `formal_runs` | 2 workers, 3 runs, 3 instants, 2 faults, fair | `RunsAccounted` (`OneActiveRun`, `CheckpointAccounted`, `BudgetMatchesCalls`), `CheckpointNeverGoesBack`, `FollowupsSettle` |
| `formal_runs_crash` | as `formal_runs` | violation of `CrashesAreRecovered` (finding 4) |
| `progress` | see 4.2, fair | `WeekInv`, `WeekPointerNeverGoesBack`, `CascadeInv`, `EventSyncInv`, `LiveInv`, `RegistryInv`, `SetupSteps`, `WorkIsFinished` |
| `operations` | see 4.2 | `EditorialInv`, `ReportInv`, `SetupInv`, `CompetitionInv`, `IntakeInv`, `RefreshInv`, `SnapInv`, `SnapSteps`, `UnderstatInv`, `FplInv` |

A property named `...Inv` is the component's types together with the named properties of its module: for example
`ReportInv` is `LiveScreenshotReadable`, `PublicIdNeverReused` and `NoScreenshotForgotten`. `SetupSteps` is
`RosterFrozenInGameweek` and `ReadyIsKept`; `SnapSteps` is `FinalNeverDowngraded` and `PromotedWhenActive`.
`WorkIsFinished` is the liveness of four components: `WebIsTold`, `ScrubbedIsDeleted`, `CascadeIsRefreshed` and
`SetupSettles`.

### 4.1 The runs `progress` and `operations`

`MCProgress` and `MCOperations` put several components side by side. They share no state, so their product would say
nothing that they do not say alone: `focus`, chosen at the start, says which one moves, and the others rest in an
initial state. A behaviour of the run is a behaviour of one component, and the states of the run are the sum, not
the product, of theirs.

### 4.2 Bounds

- **Publications.** The protocol compares one publication with the active one, so two overlapping attempts
  reach every case of a comparison; both have a publisher lane and a scheduler lane, so up to four
  dispatchers overlap. Two clock values suffice to make source order and revision order disagree. The proofs
  cover any number of publications, clock values and faults, so the faults of the safety run are kept at one. Symmetry
  of publications is used only in the runs that check safety.
- **Obligations.** They do not interact except through the limit of a claim, which is left out, so one is
  enough; the two passes are what matters. Two faults reach a third generation, in which the jobs of the
  two earlier ones are still alive.
- **Entries.** Every subset of three keys, with chunks of two, has a chunk that is full and not last, one
  that is exactly full and last, one that is partly filled, and an empty one; `EntryAdded` makes entries appear
  behind, at and ahead of the cursor. The proof covers any entries and chunk sizes.
- **Formal runs.** Three runs are a recurring run, its follow-up and the next recurring run, or three
  attempts at one window. `Threshold` is 2 instead of the code's 3, so that an exhausted window and a
  follow-up fit in three runs; three instants let a window overlap, be capped and be continued. `CallLimit`
  3 lets the budget run out with a probe or a follow-up outstanding. 868 034 states.
- **Week publication**: two editions and two commands, one fault: two publishers in opposite orders, or one that dies
  and is repeated. **Cascade**: one structure role with the transfers and the statistics, one fault; roles are
  alike, and cascades share no state (with two, `CascadeInv` holds in 1 449 878 states). **Registry**: two accounts, two handles, so that handles can be swapped; three users, one of them
  of an older source; two manifests, lookups and scans.
- **Event sync**: one entry (entries are independent) and, per behaviour, one of six combinations of jobs
  (`MCSyncCase`): two result jobs, a result job with a fault, and a result job with each of the other writers.
  **Live**: one of three starts (`MCLiveCase`): a whole gameweek from its first kickoff with two polls,
  the last fixture with a failing job under the standalone scheduler, and the review with overlapping polls.
- **Setup**: in `progress` one command, one fault and one deadline; in `operations` two commands and no fault.
  Two attempts instead of the code's three.
- **Editorial**: two candidates, a story and an edition over three receipts of two runs, one of them not
  publishable. **Reports**: two reports, one with a private screenshot, one shared legacy object, one fault; in
  `progress` one public id and a reopening, in `operations` two ids.
- **Competition**: 2 to 9 teams without groups, up to 8 with one to three groups; all draws, and the results
  of fields of up to four entries; a season of 4 gameweeks and one correction. Ranks and results contain ties.
- **Intake**: an article and an episode with a fault and a video without; two workers, three runs, two units.
  **Refresh**: two generations of children and a second phase, two faults. **Snapshot**: two captures, one
  dispatcher, two revisions, one override key, one fault; `OverrideOrFault` leaves out captures of an override after a
  fault. **Understat**: two runs of one lane (`OneLane`), a team and a match, one fault, two versions.
  **FPL**: two bulk requests and a live one, two slots, one retry, one death.

`progress` has 280 425 distinct states and `operations` 592 844. Deadlock is not checked where the bounded
environment may simply be finished (all publications published, the scan done, no run left). The obligation runs do
check it.

### 4.3 Fairness

Weak fairness only, and only of what a timer, a BullMQ worker or the passage of time guarantees:

- `DataPublication`: started publishers with their dispatchers; the scheduler pass with its dispatchers (the
  30 s interval); leases and retry delays of receipts end. Nobody has to start publishing.
- `SchedulerObligations`: the scheduler process starts passes (the API's need not), a pass and a job once
  started go on, delays and leases end. Periods need not end.
- `EntryScan`: some job takes a step while one can, the scheduler claims, leases end.
- `FormalRuns`: the hand-over of a claimed run, the dispatcher, some worker, the ends of outbox and run
  leases, and the planner's recovery of triggered runs. Claiming new runs is not forced, nor is a crash.
- `WeekPublication`: the content worker's dispatcher (every 30 s). Publishers may stop anywhere.
- `BugReports`: the clean-up, which the maintenance schedule starts again and again.
- `TournamentCascade`: BullMQ runs jobs that wait, and hands out again those that stalled; the lease ends.
- `TournamentSetup`: setup and reconcile jobs that wait are run, the watchdog's interval, the commit of a resume.

No fault is fair, and faults are finite, so liveness says: once faults stop, the system recovers. The other modules have
safety properties only.

## 5. Proofs

There are eight modules of proofs, with one or more components each:

| Module | Components | Theorems |
|---|---|---|
| `DataPublicationProofs` | `DataPublication`, `RevisionStore` | `TypeCorrect`, `Invariance`, `LatestActiveHolds`, `RedisNeverLeadsHolds`, `PointerServableHolds`, `DeliveredWasServedHolds`, `PublishedHasReceiptHolds`, `RevisionNeverRegressesHolds`, `PointerOrderedHolds`, `ReceiptsTruthfulHolds`, `LiveSourceOrderHolds`, `ImplementsStoreHolds` |
| `SchedulerObligationsProofs` | `SchedulerObligations` | `TypeCorrect`, `Invariance`, `RetriesHaveCausesHolds`, `SucceededDidWorkHolds`, `TerminalIsFinalHolds`, `FailuresAreOwnHolds`, `FailuresAccountedHolds` |
| `FormalRunsProofs` | `FormalRuns` | `TypeOKHolds`, `RunsAccountedHolds`, `CheckpointNeverGoesBackHolds` |
| `ContentProofs` | `WeekPublication`, `Editorial`, `SourceRegistry`, `BugReports`, `ContentIntake` | `WeekInvariance`, `WeekInvHolds`, `WeekPointerNeverGoesBackHolds`, `EditorialInvHolds`, `RegistryInvHolds`, `ReportInvHolds`, `IntakeInvHolds` |
| `TournamentProofs` | `TournamentCascade`, `EventSync`, `TournamentSetup`, `EntryScan` | `CascadeInvHolds`, `EventSyncInvHolds`, `SetupInvHolds`, `SetupStepsHold`, `ScanTypeCorrect`, `ScanCoversEntriesHolds`, `ScanSurvivesRetriesHolds` |
| `CompetitionProofs` | `TournamentCompetition` | `CompetitionInvHolds` |
| `PipelineProofs` | `MyFplRefresh`, `MyFplSnapshot`, `Understat` | `RefreshInvHolds`, `SnapInvHolds`, `SnapStepsHold`, `UnderstatInvHolds` |
| `LiveProofs` | `LiveLifecycle`, `FplRequests` | `LiveInvHolds`, `FplInvHolds` |

The theorems hold for every value of the constants that satisfies the assumptions the modules name
(`BoundsAssumption` and the others whose names end in `Assumption`; TLC evaluates each of them in a run). They say of which
kind a constant is (a set of positive numbers, a natural bound, a value outside a set, a set of cases), and a few say
more, because the code does: `FplAssumption` that a lease outlasts its request's deadline as the defaults do (observation 13),
`RefreshAssumption` that the jobs of a refresh form trees whose children belong to their parent's phase. The
bounds of section 4.2 are therefore not bounds of the theorems: they hold for any number of publications, obligations,
entries, runs, workers, attempts, faults. `WeekAssumption` and `WorkerAssumption` ask for finite sets, since
revisions and reservations are counted.

Each proof has an invariant that is inductive, one lemma per
action (or one per kind of step, when several actions make the same move), and the theorem that joins them. What
the invariants say beyond the property, and why it is needed:

**`DataPublicationProofs`.** The inductive
invariant is `TypeOK /\ Rows /\ Delivery`. `Rows` ties a row to where its publisher is (a staging row
holds the marker manifest, an active one the full manifest), says that a scope which ever had an
active row still has one, and contains `LatestActive`. `Delivery` says that receipts, dispatchers and Redis only know activated
publications, that a dispatcher past the activation script has seen the pointer name its own publication,
and that the reconciler's stale read is at least of something that was active once. Without the last two, nothing
would stop a late dispatcher or a reconciler with an old read from delivering what was never served. `Rows` is inductive alone,
since only publishers write rows; `Delivery` needs `Rows`. `LiveSourceOrder` needs `Fenced` as well: among the publications that
passed the fence, activated or not, revisions follow source timestamps, and the fence is behind none of them.
`ImplementsStoreHolds` is the refinement: a step of the protocol activates one publication, moves the served one forward, or
does nothing the store can see; that it never moves backward is `LatestActive` together with `RedisNeverLeads`.

**`SchedulerObligationsProofs`.** `RetriesHaveCauses` rests on an invariant per obligation:
`Causes` (whoever may be claimed again already stands for a fault), `Claims` (a pass that is still the
lease owner holds the current generation) and `Jobs` (no job of a future generation; a broken or lost one
stands for a fault). `SucceededDidWork` has an invariant of its own, `Evidence`: a job that ran has
worked, or has found its date ended.

**`FormalRunsProofs`.** The invariant has two halves. `Timeline` says that run numbers are taken in order, that the run that
holds the lease is the latest recurring one and the only active one, that its window, or the one that the next claim
will retry, touches the checkpoint on both sides (`WindowsSpan`), and that every instant behind the checkpoint was fetched,
declared a gap, or lies in the window of a follow-up that is still to run. Without `WindowsSpan` a failed window would leave a
hole. `Budget` gives every run that was never taken away at most one worker, which owns its reservations and knows of
each call not charged yet (`Owned`). The parts take the tables as parameters, because a claim over a stale run and a result
that plans a follow-up do two things in one transaction, and the proof goes through the state in between. That a crash hands
out a job again and never adds one needs that the queue remembers each worker's job (`JobsRemembered`).

**`ContentProofs`.** *Week*: revisions are numbered without gaps over editions and commands (`Numbered`), and a publisher that
stages has written what it believes (`Staged`). *Editorial*: an absent candidate is empty, and the runs of an edition are verified
from the first step of its freeze. *Registry*: an id once attributed is what the endpoint still says
(`IdsPermanent`); the property alone would allow a late identity run to rename a user. *Bug reports*: what a row and its
retention claim may be together (`Together`), that no live row names an object whose deletion has begun (`Fenced`), and that an
object can only be gone after its locator was retired, so that no upload brings it back. *Intake*: `OneOpen` (one run of a target revision
may still ask its provider) and `Accounted`: a run nobody disturbed is either without a worker and its books are closed, or
has exactly one, and what the worker holds is what the books still lack.

**`TournamentProofs`.** *Cascade*: a position of a role's job says what it has committed and that its slots are taken
(`BarrierOf`). *Event sync*: `StampsTaken`, `FinalScores` (what an attempt fetched is final if the freshness test will accept its
timestamp), `ScoresInOrder` (later timestamps go with later scores, among the attempts, what they fetched, what was given up
and may commit later, and the rows) and `TransfersComplete` (a poll of transfers from before the deadline is overtaken by whoever may
vouch for them). The steps are proved once for a general move of an attempt (`SyncMoves`, `MovesKeep`). *Setup*: the standings of
every row version are of its roster (`Sound`), a running setup job is alone (`Exclusive`), and nobody finishes a setup whose resume
is running (`ResumeUnfinished`). *Entry scan*: the invariant of `ScanCoversEntries` gives each job of the current
generation a meaning: all entries of the base up to its cursor are synced, except those its own retry
list names (`Passed`), and a job about to complete has seen the whole base. The chunk lemmas show
that a full chunk moves the cursor without skipping a key and that a chunk that is not full was the last.
`ScanSurvivesRetries` is about a chain of jobs with deterministic IDs, where an ID the queue already knows is silently not
added. Its invariant (`ChainInv`) orders the jobs of a generation by the entry they start from, retry lists before the chunk that
starts at the same entry (`Before`), and says that a successor is further on and that every job that has finished without a fault
has handed on. Then the furthest job cannot have finished, for its successor would be further: somebody works, and the
chain does not end early.

**`CompetitionProofs`.** `CompetitionIInv` is the inductive invariant behind `CompetitionInv`. Its parts:

- *Standings* (`StandingsIInv`). `NotBehind` is a total order, so that the worst rank among the qualifiers bounds their number
  (`PlacesSuffice`).
- *Draw* (`DrawKept`: it is still the one of the first day). `SeedOrder[k]` is a permutation whose pairs add up to one more than
  the places, with the better seed first, seed 1 at the top and seed 2 at the start of the second half (`SeedOrderIs`, by the least
  bracket where it fails); more than half of the places are taken, so the better seed of a pair exists and only the best meet a bye
  (`BracketDrawFair`). A sort by a strict order lists its set (`SortedLists`, by pigeonhole). In a group of the snake the cycle of
  an entry is unique, and all but the last cycle are full (`GroupSizes`).
- *Bracket* (`BracketIs(ts, ls, p)`, a statement about rows and a pass `p`): the legs' sides are those of the ties,
  swapped for the second leg (`LegsFollow`), and for all events up to `p` the winners have entered the next round (`Entered`), the legs
  hold their event's results (`LegsPlayed`) and the rounds their winners (`RoundsDecided`). A sync of an event that was passed
  writes what is there (`SameAgain`); the sync of any other event writes only rows the statement says nothing of yet, and the next one
  in order extends it (`NextInOrder`). A correction takes the pass back before its event. Before round one is seeded nothing was
  passed (`PassFits`), so the late seeding of a tournament with groups disturbs nothing (`SeedingKeeps`).
- *Results*. The first tie with a stored winner that is not `TrueWinner` would have the right sides, because both ties that feed it
  have smaller numbers, and the right results; and the order in which `resolveMatchWinner` compares scores is compatible with addition, so whoever
  wins both legs has the better total (`BothLegsWon`, `RoundToTotals`).

`Places`, `SeedOrder`, `Totals` and `TrueWinner` are recursive functions. That a function has its defining equation is a lemma each
time (`TotalsExist`; for the others from `RecursionExists`): a rule that computes a value in a fixed set from a
number and the values before it has a table.
`CompetitionAssumption` says that requests are records of natural numbers with at most two legs (`planTournamentStructure`: a
knockout is played over one leg or two), that results are triples of integers, and that overall ranks are integers.

**`PipelineProofs`.** *Refresh*: what a job and the coordinator's phase know of the children between queue and set (`JobOf`,
`PhaseOfJob`). *Snapshot*: the row that a capture saw is unchanged while it is active, its own revision is one that no other
capture has seen, and its key share lock keeps a deletion away (`CaptureOf`, `RevisionsNew`). *Understat*: what the open
transaction may still do (`TxOf`): the finalizer holds the lane's only active run when it opens, the failed listener
can end runs meanwhile but start none, and content of a run that may still be published is not older than what is stored
(`InForce`).

**`LiveProofs`.** *Live*: attempts that began later saw no older points (`AttemptsInOrder`), every snapshot, served, staged or
read, is of points that a later attempt does not miss (`SnapshotsBehind`), and a job that knows the gameweek final began after FPL was
final (`FinalKnown`). *Admission*: the counters are the numbers of leases per priority (`Matches`), and a request that may call
FPL has a lease that ends after its deadline (`CallOf`).

What made the model change for the proofs: definitions whose CASE arms overlapped are disjoint now, some tuple binders and
nested `SUBSET` expressions are written in a form both tools read alike, the names of the assumptions were added, and the places of a bracket
are a function that doubles (`Places`) where they were a power of two, of which the prover knows nothing. One proof
attempt failed because the model was wrong: in `Understat`, a transaction carries the item rows it will write (`tx.rows`),
where it read them from the table at commit before.

Only model-checked: all liveness (`RedisConverges`, `ReceiptsSettle`, `ObligationsSettle`, `ScanCompletes`, `FollowupsSettle`,
`WorkIsFinished`), since fairness and `ENABLED` are beyond the prover.

Induction over data is not available either: the induction theorems take an operator as a parameter. Where a proof needs
an induction over numbers, it takes the least or greatest element of a set of counterexamples instead
(`LeastNumber`, `GreatestRun`, `GreatestExists`, `LeastOf`), which follows from the well-foundedness of the naturals.

## 6. Findings

1. **Core revisions do not follow their reads** (`publication_delayed`). `README.md:101-102` says that core
   snapshots reserve a revision before their two upstream reads, so that "an older delayed attempt cannot
   overwrite a newer one". The revision is allocated by `preparePublication` inside the mutation
   transaction, after both reads (`core-snapshot.service.ts:141`); a delayed older read gets the later revision.
2. **A heartbeat breaks idempotence** (`publication_heartbeat`). `docs/redis-contract.md:57` says that
   repeating a publication ID is idempotent. A heartbeat rewrites the active manifest; if the
   dispatcher died after the activation, each later delivery of the same ID is refused as a conflict
   (`cache/data-publication.ts:196`) and its receipt is retried for ever.
3. **An expired market date succeeds** (`obligations_expired`). `docs/job-schedule.md:62-64` says older dates are
   recorded as `irrecoverable`. A `market-daily` job that runs after its date ended does nothing
   (`player-values.service.ts:182`) and the obligation is recorded as succeeded.
4. **A follow-up without a lease is never reclaimed** (`formal_runs_crash`). The acquisition plan (line 637)
   says the lease reclaimer recovers a crash. The dispatcher clears the lease when an enqueue fails, the
   job may have been added nevertheless and begins without a lease, and when its worker dies nothing
   selects the run again (`job-outbox.ts:218`, `triggered-work-planner.ts:377`). `FollowupsSettle` exempts exactly that state.

Observations met while modelling, not stated as runs:

1. The compare-and-swap script makes the new items persistent and leaves the replaced ones persistent too
   (`cache/data-publication.ts:279`); `docs/redis-contract.md:65` speaks of 24 hours.
2. The reconciler reads the row before the pointer (`data-publication-reconciler.ts:34`) and may for one
   pass swap an older publication back; `RedisConverges` shows that the next pass repairs it.
3. A staging row holds only a marker manifest, so an interrupted publication is replaced by the next
   one and never completed by recovery (`data-publication-reconciler.ts:41`).
4. A follow-up that fails is neither retried nor declared a gap although its parent's checkpoint has passed
   its window (`formal-run-repository.ts:1413`); `CheckpointAccounted` exempts exactly this case.
5. An X result with unavailable media and no rejected item is `PARTIAL` (`x-post-adapter.ts:272`), which
   `persistAcquisitionResult` refuses without rejected items (`receipt-repository.ts:194`), so that run fails.
6. The search for an existing follow-up (`receipt-repository.ts:996`) does not ask for its parent, so any run
   with the same request would suppress it.
7. Reclaiming a stale run releases its budget although its call may have been made
   (`formal-run-repository.ts:691`); `BudgetMatchesCalls` exempts runs taken from a working worker.
8. A schedule that was down for more than 24 h starts its next window 24 h back
   (`formal-run-repository.ts:281`) and passes the instants before it without a gap.

Further observations of the modules added later, each a behaviour of the model that TLC or the translation showed:

9. **Setup.** After a roster retry was queued, a pause during the creation's setup is undone: the reconcile claims
   the row, and the setup job without a marker that ends last marks it ready and active. The comment at
   `tournament-management.service.ts:342-344` says that a queued worker cannot do this. `setup_finished_at` is not
   cleared by a roster change, so the failure of a later attempt may go unrecorded. The reconcile job of a resume is
   enqueued before the resume commits; a faster worker finds nothing to do, and the watchdog starts it again.
10. **Understat.** `refreshRun` counts and writes in two statements, and the listener's is outside the scope: both it and a
    job's can write "running" from counts the other has outdated, and the run stays active (`understat-sync.ts:274`).
    A discovery rolled back after its fan-out leaves detail jobs whose kept ids swallow the enqueues of the retry.
    A run can be published and recorded as failed.
11. **Competition.** Entries level on points and overall rank both get the later rank, so that fewer may qualify
    than places exist, and then the knockout is never seeded. Corrections of a group after the seeding do not reseed. A
    re-sync of a first leg alone does not recompute the round's winner; syncing the events in order does
    (`BracketFollowsResults`).
12. **Intake.** A poll that reads an enriched item again with a smaller payload makes a revision without the transcript and
    orders a new one. A run whose enqueue was accepted and its answer lost has no lease; when its worker dies, nothing
    reclaims it (`job-outbox.ts:216`). A worker that goes on after a reclaim may submit again or leave a charge unrecorded:
    `UnitsAccounted` exempts exactly these runs (`disturbed`).
13. **Admission.** The lease may be configured shorter than the request's deadline; then a request outlasts its lease and the
    limit is exceeded. `FplAssumption` states the order of the defaults (40 s and 45 s). With `MAX_INFLIGHT` of 2 or less no
    slot is reserved for live requests, for bulk requests always have one.
14. **Event sync.** `upsertCoreFromHistory` writes points without comparing timestamps, so a history read before the
    finalization may overwrite final points; `AcceptedRowIsFinal` exempts rows it wrote. Rows are ordered by the
    attempt's timestamp, not by its fetch.
15. **Live.** Between fixtures, polls are enqueued cache-only and the worker skips cache-only jobs outside a match
    window, so the new revision that the comment at `live-lifecycle-orchestrator.ts:191` expects is not observed until the next
    window. The core sync keeps the fixtures of a live poll with a later timestamp, but stores the events' `data_checked`
    flag unconditionally. A durable job whose cascade check runs after `data_checked` enqueues the final league
    results before the facts are final, under the slot's job id. A finalize job that loses the fence succeeds as "stale".
16. **Registry.** An identity run that looked up the old handle is stored after the manifest changed it: the new
    handle is verified with the old user for 30 days (`x-identity-repository.ts:212`). A bound id is never replaced,
    which `OneUserPerAccount` shows. An observed author who is later added to a manifest leaves two endpoints with one
    handle, and `resolveOne` then throws for each scan that returns that author.
17. **My FPL.** Refresh jobs are tracked after they were added, contrary to the comment at
    `my-fpl-refresh-tracker.ts:27`; the coordinator's second
    reading of the set is what closes the gap. The Redis manifest may keep naming an older revision that
    was deleted; readers then fall back. Capture and deletion may deadlock, which PostgreSQL resolves.
18. **Bug reports.** Migration 0020 fills `scrubbed_at`, so the branch of `updateStatus` that restores an unscrubbed
    claimed report cannot be reached.
