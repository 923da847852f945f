# Verification of quant-data

TLA+ models of the quant-data pipeline, checked by TLC on small instances and
proved by TLAPS for all of them where that is marked below. Paths are relative
to the repository (`src/src/...` is its Python code).

## 1. The system

quant-data fetches one-minute bars of a ticker from several providers,
compares them, and publishes one set of values per bar. It is a set of one-shot
command-line programs that meet only in Postgres databases. Each process has
one connection, runs READ COMMITTED, and holds no state between invocations.

| Part | State it keeps | Operations | Correct when |
|---|---|---|---|
| **quant-schedule** (`schedule/cli.py`, `schedule/algorithm.py`, `schedule_writer.py`) | none; inserts into `jobs`, `job_dependencies` | turn a work item (ticker, days, providers) into ingest, stage and reconcile jobs; insert all of them or none | the table holds whole work items only |
| **quant-dispatch** (`dispatch/cli.py`, `dispatch/algorithm.py`, `schedule.py`) | `jobs`: enabled, status, next_run_at, last_exit_code | fetch all due jobs once; for each: mark running, run the subprocess, record the result | stages in order; nothing twice at once; failures retried; no success rerun; every work item finishes |
| **quant-ingest** (`ingest/cli.py`, `provider_source_archive.py`) | `provider_source_archive`, `archive_coverage` (day ranges) | connect the providers; per day, provider and method: fetch and archive, or mark a weekend covered; both merge the day into the ranges; exit code | ranges are exact, disjoint, apart; what is archived is covered; a job that succeeds leaves no gap |
| rate limiter (`ingest/rate_limiter.py`) | the times of the last calls, in memory, per process | acquire | at most N calls in any window; no wait longer than needed |
| provider clients (`providers/*.py`) | the connection of ibkr | connect, fetch the bars of one day; massive tries again after a 429 | requests stay bounded |
| **quant-stage** (`stage/cli.py`, `stage/parsers/`) | `staging_market_data_1min`, `ingestion_coverage` | per day and provider: read the latest archived payload, merge the supplementary methods into it, upsert the rows, then record the day as covered, in two commits; weekends are covered only; exit code | coverage is never ahead of the rows; a job that succeeds has staged every weekday |
| **quant-reconcile** (`reconcile/cli.py`, `reconcile/algorithm.py`) | `fact_reconciliation`, `fact_pending_manual_resolution`, `fact_market_data_1min`, `market_data_archive`, `provider_pair_disagreement` | plain: reject outliers, decide bars by tiers until nothing changes, hand the rest over, publish, purge; `--finalize`: force the handed-over ones; `--reevaluate-unadjudicated`: relabel | a bar is decided once and published as decided; no row leaves staging unarchived; absence is never guessed; nothing is stuck |
| main database client (`postgres.py`) | the connection | one method per query or transaction | commits what its caller thinks it does |
| public client (`client/market_data.py`) | none | `fetch_bars`, `fetch_pending_resolution_bars`, `fetch_rejected_whistleblower_bars` | a bar is published or pending, never both; a pending bar shows every value in dispute |
| settings, diagnostics, transports | — | configuration parsing, logging, connection plumbing | — |

How they interact: quant-schedule and quant-dispatch share `jobs`; dispatch
starts ingest, stage and reconcile as subprocesses and sees only exit codes;
ingest and stage share the archive; stage and reconcile share staging and
`ingestion_coverage`, and may run at the same time. Every tool may also be
started by hand or by a `--catch-up` schedule beside the jobs of a work item.
Clients read what is committed, whenever they like.

What is hard here, and where each item is listed with its line in
`PROJECT.json` under "hazards":

- **Interleaving.** Two dispatchers, two ingest transactions on one key, staging
  beside a purge. All read first and write later by id or key.
- **Crashes between commits.** A reconcile run commits every bar's decision,
  publication and purge separately; a dispatcher commits "running" and the
  result separately and its subprocess survives it.
- **Stale snapshots.** Reconcile reads coverage, then rows, then resolutions,
  once, and decides everything from these, also whether an adjacent minute
  still needs a row it is about to purge.
- **Order of two commits.** Staged rows before coverage on one side, coverage
  before rows on the other, is what makes "confirmed absent" true.
- **Partial failure.** Providers, methods, days and the two databases fail one
  by one, most failures are only logged, and the exit code, the one thing the
  dispatcher sees, adds them up.
- **Time.** The limiter forgets with its process, does not see retries, and
  appends after a sleep without another look.
- **Dates.** A bar belongs to a session, to the day it was fetched for, and to
  the UTC date it is filed under; these differ.
- **Liveness.** Work items finish through failures; the reconcile queue
  empties; resolved rows leave staging.

## 2. Modules

| Module | Models | State and actions |
|---|---|---|
| `CoveredDates` | what a coverage table promises: a set of days per key that grows by what is recorded | `covered`; `Record` |
| `Coverage` | `ProviderSourceArchiveWriter`: `record_fetch`, `mark_covered_without_data`, `_record_coverage` | rows of `archive_coverage` with ids, the archive, one transaction per writer as `Select` then `Commit` or `Rollback`; refines `CoveredDates` and commits as `CoverageCommit` says. `record_ingestion_coverage` of `postgres.py` is the same algorithm over date ids |
| `CoverageCommit` | what one commit of that algorithm may leave of the days of its key | pure: `LeftBy` |
| `JobRuns` | what quant-schedule and quant-dispatch promise the tools they run: stages in order, one process of a job at a time, none after a success | `accepted`, `running`, `finished`; `Accept`, `Start`, `End` |
| `JobPlan` | `build_job_plan` | pure: names and dependencies of the jobs of a work item |
| `Dispatch` | `jobs`, `job_dependencies`, quant-schedule's insertion, each round trip and subprocess event of every quant-dispatch | `CreateJobs`, `FetchDueJobs`, `MarkJobRunning`, `Launch`, `LaunchFails`, `ProcessEnds`, `RecordJobResult`, `Abort`, `OrphanEnds`, `Tick`; refines `JobRuns` |
| `RateLimiter` | `RateLimiter.acquire`, the process it lives in, the attempts of the Massive client | clock, deque, what was called and sent; `AcquireAtOnce`, `AcquireWaits`, `Wake`, `Send`, `Retry`, `Start`, `Tick` |
| `Handover` | what staging and its coverage promise quant-reconcile: what is confirmed has landed completely, what has landed stays, and a confirmation is withdrawn only of a key whose coverage two writers committed over each other | `landed`, `confirmed`, `contended`; `Land`, `Confirm` |
| `Pipeline` | quant-ingest and quant-stage with their main loops, over the plan of `JobPlan`, beside runs started by hand | archive, the two coverage tables, staging, finished jobs, a process and a coverage transaction per slot; see the table below; refines `Handover` |
| `Tiers` | `resolve_automatic`, `resolve_finalize` | pure: the set of resolutions a bar's rows allow |
| `Publication` | what reconciliation promises readers: decided once, published as decided | `decided`, `published`; `Decide`, `Publish` |
| `Reconcile` | all three modes of quant-reconcile beside quant-stage, for one ticker and date | one action per read or commit, see the table below; refines `Publication` and `Handover` |
| `MCCoverage`, `MCDispatch`, `MCPipeline`, `MCReconcile` | instances for TLC (`RateLimiter` needs none) | |
| `CoverageProofs`, `DispatchProofs`, `RateLimiterProofs`, `PipelineProofs`, `ReconcileProofs` | theorems | |

How the modules meet: where two components meet there is one abstract module, and
the detailed module on each side implements it.

- `JobRuns`, between the dispatcher and the tools. `Dispatch` implements it for invocations
  that do not overlap. `Pipeline` runs the jobs of one work item step by step and has the
  dispatcher as one action, whose guard is that of `JobRuns`; both take the jobs from `JobPlan`.
- `Handover`, between quant-stage and quant-reconcile. `Pipeline` implements it with
  one key per provider and session, `Reconcile`, which has of quant-stage only its
  two commits, with one per provider of its date, and there beside the purges.
- `CoverageCommit`, between the ranges of `Coverage` and the sets of days `Pipeline` has.
  `Coverage` is shown to commit like `LeftBy`, on every key and from selections however
  stale; `Pipeline` commits both coverage tables by it. `CoveredDates` is what is left of
  it for a key on which no transactions overlap: a set of days that only grows.

Reconcile's actions, in the order of the code:

| Phase of a run | Actions | Code |
|---|---|---|
| plain, prologue | `RejectOutliers`, `ReadCoverage`, `ReadRows`, `Graduate` | `_run_outlier_detection_pass`, then the head of `_run_automatic_pass` |
| plain, loop | `Resolve`, `StopResolving`, `MarkPending` | the fixed-point loop; the two `for` loops after it |
| finalize | `ReadPending`, `ForceResolve`, `ClearPending` | `_run_finalize_pass` |
| both | `BeginPromoting`, `Promote`, `SelectForArchive`, `ArchiveAndDelete`, `Finish` | `_promote_and_lazily_purge`, `purge_staging_bar` as its SELECT and its DELETE |
| reevaluate | `Reevaluate` | `_run_reevaluate_unadjudicated_pass` |
| any | `Start`, `Crash` | `main` |
| quant-stage | `StageProvider`, `RecordCoverage`, `CoverageFails` | `_stage_one` |

The reads of a client are the operators `FetchBars`, `FetchPendingResolutionBars`
and `FetchRejectedWhistleblowerBars`: one SELECT each, over the committed tables.

Pipeline's actions:

| Part | Actions | Code |
|---|---|---|
| start of a process | `Dispatch`, `StartByHand` (both `Begin`) | a due job of the plan; a run by hand; `main` up to its loop, where a provider that does not connect is dropped |
| quant-ingest | `MarkWeekend`, `Fetch`, `RecordFetch`, `CommitFetch` | `_ingest_one`; `record_fetch` and `mark_covered_without_data` as their SELECT and their commit |
| quant-stage | `CoverWeekend`, `ReadArchive`, `MergeSupplementary`, `WriteStaging`, `RecordIngestionCoverage`, `CommitIngestionCoverage` | the weekend branch of `main`; `_stage_one`; `record_ingestion_coverage` as its SELECT and its commit |
| end | `End`, `Crash` | the exit code and what the dispatcher does with it; a process that dies |

### What is abstracted

- **Coverage.** Payloads are left out: a payload is there or not. A transaction
  is two steps because READ COMMITTED lets the SELECT go stale and the later
  writes, by id, wait for no one who has committed.
- **Dispatch.** `dueIn` counts `next_run_at` down and stops at zero, since due is
  due. `age` is how old an invocation's `current_time` is, up to `Interval`.
  The due jobs of an invocation are a set: the code orders them by
  `next_run_at`, the model takes every order. Names are records of the parts
  they are formatted from. `Abort` stands for a dispatcher that dies and for an
  `AppError`, which ends the invocation in the same state. Commands, error
  texts and jobs deleted by hand are left out.
- **RateLimiter.** Time is whole ticks that may pass at any point, so a sleep
  lasts at least as long as asked and a request is sent some time after it was
  admitted. `calls` and `sent` are history variables.
- **Pipeline.** A bar is the day and the minute of a session and the methods
  merged into it; there are two minutes, one filed under the session's date and
  one past midnight UTC. A payload is what the provider has of a session by the method
  it is asked for, and the methods of a provider may differ in their minutes:
  ibkr answers with the last session up to the day it is asked for, the others
  with that day's or with none; of a session that is still running any part.
  A coverage transaction is its SELECT and its commit. If the other process committed on the
  same key in between, the selection is stale and the commit may lose days of that key
  and bring selected ones back (`LeftBy`); the history `raced` collects these keys. Any
  commit in between counts, also of a day that is far from the selected rows, which
  allows more than the code does.
  Of the archive only the latest row of a key is kept, the only one that is
  read. Every failure that is not "no data" takes one of `MaxFaults`. quant-ingest
  and quant-stage started by hand have the second slot.
- **Tiers and Reconcile.** Prices, tolerances, the MAD band and Welford
  statistics are left out: a comparison may come out either way. Kept is
  everything else: which rows exist, which of them are usable, which
  comparison is made at all and in which order. `'ohlc'` is the only field group
  since migration 005, so a bar has one resolution. The supplement columns,
  the participant table and the Welford updates are left out.
  `preferredProvider` is always configured. At most one quant-reconcile runs at
  a time (dispatch runs jobs one after another); one quant-stage runs beside it at
  will, so that no two commit coverage over each other here; `Pipeline` has those. A day's archived payload does not change. The MAD band of a ticker is
  seeded only between runs: a run reads it once, before anything it is used for.

## 3. Runs

| Run | Question | Instance |
|---|---|---|
| `coverage` | Are the ranges exact, apart and complete, and do they implement a set of days? What is left of that on a key whose transactions overlap, and what does one commit there lose? | 2 keys, 3 days, 2 writers, which overlap on the second key only |
| `dispatch_serial` | Does every accepted work item finish, does no job stay "running", with no deadlock? | 1 dispatcher that does not die, an ibkr and yfinance work item, a conflicting one, a recurring job |
| `dispatch_faults` | What holds when the one dispatcher may die or fail anywhere? | 1 dispatcher, 3 work items of which some collide and one repeats a name, a recurring job |
| `dispatch_overlap` | What holds when invocations also overlap? | 2 dispatchers, 2 colliding work items |
| `dispatch_twice` | Can two invocations run a job at once? **Yes.** | 2 dispatchers, 1 work item |
| `rate_limiter` | Does one process keep to its window, wait no longer than it must, and send a bounded number of requests? | 2 calls per 5 ticks, 2 attempts, 7 clock readings, 2 processes |
| `limiter_restart` | Does the ceiling hold for processes one after another? **No.** | 1 call per 3 ticks, 1 attempt, 3 processes |
| `pipeline` | Is what is covered staged, what is finished without gaps, and is it finished in the end? Does staging keep `Handover`? | yfinance and ibkr (2 methods, of which one lacks a minute), a Friday that yfinance is still adding minutes to, a Saturday, 1 fault, a catch-up of one tool by hand |
| `session_date` | Does the coverage of a bar's date say that its session was staged? **No.** | as `pipeline`, Thursday not ingested, no faults |
| `reconcile` | Every safety property of reconciliation, all modes, crashes | 3 minutes, 3 providers, 3 kinds of day, 1 mishap |
| `reconcile_live` | Is the queue emptied, does staging drain? | 3 minutes, 4 kinds of day, no mishap |
| `finalize_poison` | Does `--finalize` survive one crash? **No.** | 1 minute, 1 mishap |

The runs marked **No**/**Yes** are expected violations; each has an entry under
"findings" that quotes the sentence of the repository it contradicts.

### The bounds, and why they are enough

- Three days let a new day bridge two ranges, extend one on either side, fall
  inside one, or stand alone: every branch of `_record_coverage`. Two writers
  are needed for a stale selection; two keys for an effect across keys.
- Overlapping writers of one key can lose a day and insert it again without end, so
  the table of `coverage` is cut off after three inserted rows (`MaxId` = 4), which
  is enough for two ranges of either key to be bridged, or merged away under another
  writer's selection, beside one of the other. What the second key archives is left out:
  only `ArchivedIsCovered` is about it, and only for the first.
- `Interval` = 1 tick distinguishes "due" from "not due yet"; ages and
  countdowns beyond it cannot be told apart by the code. `MaxOrphans` = 1
  subprocess left behind per job suffices to run one job twice.
- Three minutes are one Tier 3 window: a bar with both neighbors. The kinds of
  day are chosen so that each tier, a confirmed absence of each provider, a
  pending bar, and each path without a whistleblower occurs. `Threshold` = 1
  stands for 1400 matched bars: only crossing it matters.
- The limiter: windows of two calls have an oldest and a newest one, seven clock
  readings are more than one window of five ticks, two attempts make the first
  retry, a second process makes the first forgetting.
- `pipeline`: two methods are the least that must be merged, two providers the
  least of which one can fail while the other is staged, a weekday and a weekend
  day the two branches of both tools. One fault can fall on any step of any process, and the
  retry after it is free of faults; the proofs below cover any number. One run by hand
  overlaps any job, also on its coverage keys and between its SELECT and its commit. One
  method of ibkr has a minute the other lacks, so that a bar without quotes is staged. Bars of a third
  day are needed only by `session_date`.
- `MaxMishaps` counts crashes, failed coverage writes and re-stagings together.
  One can fall anywhere in a run and between any two steps of quant-stage; the
  proofs below cover any number of them.
- `coverage` runs under symmetry of its writers; none of the other modules does,
  because their values have roles. No liveness is checked under symmetry.

### Deadlock

Checked in `coverage`, `dispatch_serial` and `reconcile_live`. The other dispatch
runs may stop: a job left "running" by a dead dispatcher is never due again, and
if all are, nothing happens any more. `rate_limiter` ends with its clock and
the pipeline runs with their work item and their runs by hand. The cfgs of the other
reconcile runs leave it off, where only safety, or the queue of a run that has
been stopped, is in question.

### Fairness

- `Dispatch`: the external trigger keeps invoking quant-dispatch and an
  invocation keeps going (weak fairness of its steps and of the clock). Strong
  fairness per job says only that a job that is tried again and again is
  launched, and succeeds, eventually; without it a job may fail forever and no
  dispatcher could help. `Abort` never has to happen or not to happen: the
  liveness run has `Faults` = FALSE.
- `Pipeline`: the dispatcher starts what may start, and the process it started
  goes on (`WF_vars(Dispatch \/ Step("dispatch"))`). Nothing is assumed of runs by
  hand, and faults stop only because there are `MaxFaults` of them: a provider that
  fails forever keeps its job failing forever. That every weekday has a session
  is an assumption of the instance (see the limits below).
- `RateLimiter`: none, only safety is stated.
- `Reconcile`: both plain runs and `--finalize` runs are started again and again
  (strong fairness, as a start is disabled while another run is going on), a
  started run goes on, and each provider is staged once. Re-staging and
  reevaluation are not assumed.

## 4. Properties

Each property's comment in its module names the code it is about. Briefly:

- `RangesSeparated`, `CoverageIsExact`, `ArchivedIsCovered`: the range table is
  canonical, exact, and not behind the archive. `ImplementsCoveredDates`:
  every commit is one abstract `Record`.
- `NothingInvented`: however writers overlap on a key, no day is claimed that nobody
  recorded. quant-ingest fetches a lost day once more, but would skip an invented
  one for ever. `RaceInv` is the invariant behind it: a stale selection holds
  recorded days only, and its ids have not passed to another key.
  `CommitsAsPromised`: a commit loses days only if its selection is stale, then only of its
  own key, and brings back only days it had selected. It holds on every key, and is what
  `Pipeline` builds on.
- `StagesInOrder`: a staging or reconcile subprocess runs only if everything
  before it has succeeded, although the gate is read long before. `GateInv` is
  the invariant behind it. `NeverTwiceAtOnce`, `FailureIsRetried`, `DisabledOnlyAfterSuccess`, `NoRerunAfterSuccess`,
  `WorkItemsFinish`, `NeverStuckRunning` as named; `SerialInv` says that the
  status column tells the truth while one invocation runs at a time.
- `ImplementsJobRuns`: these together, as one specification, of `Dispatch` with one
  invocation at a time.
- `ImplementsHandover`: for `Pipeline`, a session is confirmed only when it has landed,
  whichever process read or wrote what in between and whatever a commit from a stale
  selection brings back; a confirmation is lost only on a key two runs committed over each
  other on. For `Reconcile`, a purge does not
  take back what has landed: a row counts as landed in staging or in the archive,
  and no row is in neither for a moment.
- `AbsenceIsReal`: a bar judged without a provider really has no row there.
  It depends on both orders: rows before coverage in quant-stage, coverage
  before rows in quant-reconcile.
- `RowsLeaveOnlyToArchive`: also for rows staged while the purge runs. It holds
  because archived payloads do not change: a row that appears between the SELECT
  and the DELETE is one that is archived already, or one whose absence had not
  been confirmed, in which case the bar was not ready.
- `PlainPurgeKeepsWindows`: a plain run never takes a row next to a bar that may
  yet be judged by it, according to the tables at that moment.
- `ArchivedIsPublished`, `ImplementsPublication`: whatever stops and retries
  there are, a winner is decided once, only its values are published, and no
  minute leaves staging before.
- `PathsAreEarned`: the path of a resolution is true of everything the providers
  report for the day, not only of what the run had read: "completeness" means that
  nobody else has the minute, however late the others are staged.
- `InsertsNeverCollide`: `record_reconciliation` is a plain INSERT. A plain run never
  makes it for a resolved bar, although it decides from a snapshot, and `--finalize`
  only after a mishap (`finalize_poison` shows what then happens).
- `DisputeIsVisible`: who reads the pending bars gets every provider's row of each
  of them, although purges of other bars, and of other runs, go on in staging.
  `PublishedIsSettled`: a bar is never both published and pending, wherever
  a run stopped between its commits. `RejectionIsVisible`: a bar decided without
  the whistleblower although it had a value shows that value as rejected, after
  everything else of the bar has been purged.
- `PendingIsFinalized`, `ResolvedBarsLeaveStaging`: the queue and staging drain.
- `CallsInWindow`, `NeverWaitsInVain`: the limiter admits no call too many and
  delays none for nothing; the deque alone shows neither, since it is popped and
  appended to at different readings of the clock. `RequestsInWindow`: with retries
  and late sending the provider gets at most (N + 1) times the attempts.
- `CoveredIsStaged`: the two databases have no transaction in common, yet
  a covered day is staged, through every failure, crash and concurrent run.
- `NoGaps`, `EverySessionStaged`: what the exit codes, which add up many tolerated
  failures, really promise once the staging job is done. Each relies on the shape of
  the plan: an ingest job of several methods succeeds when one does.
  `NoGaps` excepts the keys in
  `raced`, and no others. `QuotesAreMerged`: the staging job waits for the supplementary
  methods too, and a bar has the quotes of each method that has its minute.
  `StagedEventually`: the work item gets there.

### Limits of the code the properties are stated around

These are true of the code; the models have them, and the properties above are
stated so that they hold beside them.

- Two ingest transactions that overlap on one key can lose a day:
  `_record_coverage` updates by id a range the other has merged away
  (`provider_source_archive.py:168`). Both commits succeed, the second puts back the
  range it had read, and an archived day is in no range, which the docstring of
  `record_fetch` (`provider_source_archive.py:79`) excludes. `Exclusive` is the set of
  keys this does not happen to: those that one dispatcher at a time ingests.
  `NothingInvented` and `CommitsAsPromised` hold of all keys.
  `record_ingestion_coverage` (`postgres.py:583-624`) has the same race, between two
  quant-stage. A catch-up or a run by hand beside the job of a work item is what overlaps,
  so after it an archived day may be in no range, and a staged one may be unconfirmed,
  until it is ingested or staged again; quant-reconcile then waits for the row of a provider
  that has none. `Pipeline` has both races, and `NoGaps` and `Handover` except their keys.
- A method without a minute that the primary method has (`provider_source_archive.py:137`)
  leaves the bar without its quotes, although nothing failed.
- After a double start (`dispatch_twice`), a failure recorded over a success
  leaves a run_once job disabled with a failure: it is never retried and its
  dependents never run. `FailureIsRetried` is stated for one dispatcher.
- A dispatcher that dies, or fails to record a result, after marking a job
  running leaves it "running" for good: `fetch_due_jobs` never selects it and nothing
  resets it. `docs/ARCHITECTURE.md:1005` promises the opposite for failed jobs;
  `NeverStuckRunning` holds as long as the dispatcher lives.
- `--finalize` sees pending neighbors only, so it may purge the rows beside
  a bar that is not ready yet and will be judged without them.
- A pending bar without a row of the preferred provider is never finalized:
  `resolve_finalize` returns None each time.
- Re-staging only some providers after a purge can leave rows that no run
  promotes, and re-staging the whistleblower turns a rejected row into an accepted
  one until the next outlier check.
- With a MAD band, two candidates that disagree become pending although the
  whistleblower's row is rejected; the docstring of
  `fetch_rejected_whistleblower_bars` (`postgres.py:348`) says such a bar resolves in
  Tier 1, which needs a single candidate.
- A weekday without a session keeps the ingest job of a provider that has no
  data for it failing, and the staging job waiting.
- A session fetched before its end counts as covered; nothing tells it from
  a whole one.
- Weekend coverage fails as long as the ticker has no bar at all, and is not tried again by that
  job. A bar of Friday's last hour in winter is filed under the Saturday, so until a later
  run of quant-stage covers it no provider counts as absent there.

## 5. Proofs

TLC checks the instances above; the theorems hold for every value of the
constants that meets the `ASSUME`s of the modules (all of them evaluated by the
runs).

**`CoverageProofs`**, for any keys, days (any set of integers) and writers, and any
set `Exclusive` of keys on which no two transactions overlap:

- `RaceInvariant`: `RaceInv`, about all keys, is inductive. A selection may be stale,
  but whatever it held was recorded, so the range a commit writes from it and its own
  day is made of recorded days (`StaleRange`, `StaleMerge`); the write is by id, and
  ids are unique and never pass to another key. A stale selection is any finite set of
  rows, so that it has a last day is a lemma too (`FiniteHasGreatest`).
  `NothingIsInvented` follows.
- `CoverageInvariant`: `CoverageInv` adds the exclusive keys. `RangesSeparated`,
  `CoverageIsExact` and `ArchivedIsCovered` are not inductive alone: a commit
  writes what its SELECT computed, so one needs `SnapshotsFresh` (what a
  transaction selected is still what the table says), which needs `OneTxnPerKey`;
  and a stale commit on another key must not touch these rows, which is what
  `RaceInv` knows of its ids (`OtherKeysKept`).
- `RangesStaySeparated`, `CoverageStaysExact`, `ArchivedStaysCovered` follow.
- `CommitsKeepTheirPromise`: `CommitsAsPromised`, of every key. A commit writes rows of its own
  key only (`OtherKeysUntouched`, from `RaceInv`); if the selection is what the table has,
  the days it leaves are those before and its own (`MergeCovers`), and if not, they are
  made of rows of the key and of the merged range, which spans selected days and its own
  (`StaleRange`).
- `CoverageRefinement`: the exclusive keys of `Coverage` implement `CoveredDates`.
- The argument about one commit is `RecordCoverageCorrect`, over lemmas about
  the touching ranges: there are at most two, one on each side (`TouchingSides`),
  and merging them with the day spans exactly their days and the new one
  (`MergedSpan`), next to nothing that is left (`NewRange`).

**`DispatchProofs`**, for any dispatchers, work items, intervals and faults:

- `GateInvariant`: `GateInv` is inductive, however many invocations overlap and
  whenever they die. `StagesRunInOrder` follows: the invariant carries "the dependencies have succeeded" from the fetch
  through the queue to the process, and into `done`, so that it is transitive.
- Under `OneAtATime` (there is at most one dispatcher): `SerialInv` is inductive
  relative to `GateInv`; `NoDoubleDispatch`, `FailuresAreRetried` and `NoRerun`
  follow. An orphan keeps its row "running", which is what keeps the next
  invocation from starting the job again. `SerialInvariant` states it as a theorem.
- `DispatchRuns`: under `OneAtATime`, `Dispatch` implements `JobRuns`. A run_once job
  has a process only if its row is enabled or an orphan's (`SerialInv`), so has not
  succeeded; what stands before it in the plan has (`GateInv`). Actions that touch
  recurring jobs or rows only are stutters.
- `DisabledHadSucceeded` needs no `OneAtATime`: a row is disabled only in the commit that
  records exit code 0 of a run_once job, and the history of successes only grows.

**`RateLimiterProofs`**, for any limit, window, number of attempts, retry delay,
clock and number of processes:

- `LimiterInvariant`: `LimiterInv` is inductive. `CallsInWindow` is not inductive
  alone: `DequeInv` ties the deque to the history (it is its end, what was
  popped is expired for good, and a sleeper waits for exactly its oldest entry).
  While asleep nothing is appended, so after the sleep that entry has expired,
  and the append without another look at the length keeps the limit.
- `CallsStayInWindow` and `WaitsAreNeeded` follow at once.
- `RequestsStayInWindow` counts: requests whose calls are more than a window of
  calls apart are a window of time apart (`PacedRequests`), so those within
  a window belong to at most N + 1 calls and are told apart by call and attempt
  (`SentInv`); the bound is the cardinality of that product.

**`PipelineProofs`**, for any work item, calendar, weekend, providers, methods,
sessions, runs by hand and numbers of faults:

- `PipelineInvariant`: `PipelineInv` is inductive. It follows a payload through the
  two processes: what is archived is an answer for its day (`ArchiveInv`), what
  a process holds between two commits is one, and before it covers the day the
  minutes are in staging (`HeldInv`), where an upsert never removes a minute; what
  its coverage transaction has selected, which may be stale but is staged all the same, so
  that a commit may bring it back (`TxnInv`, `FetchCommitted`, `CoverageCommitted`); why a day counts as handled (`HandledInv`); that the dispatcher's process works
  for a job whose dependencies are done (`JobInv`); what a finished job leaves
  behind (`DoneInv`).
- `CoveredStaysStaged` is part of it; `CoverageHasNoGaps` and `SessionsAreStaged`
  follow from `DoneInv` and the plan: every planned method has a job of its own.
- A day that was recorded stays in the archive's coverage, or its key is in `raced`
  (`MarkedUnlessRaced`): a commit from a selection that is not stale only adds, and one that
  is stale puts its key there.
- `NoSecondPass` rests on a second invariant beside it, `QuotesInv`: as long as
  nothing fails the dispatcher's staging process has merged each method it has dealt with
  into the bars whose minute the method has. Its job waits for every planned method, so
  each is archived (`DoneInv`). Two answers for one day are of one session, so the minutes
  the method has match (`PayloadsMatch`).
- `HandoverHolds`: `Pipeline` implements `Handover`. Staging only grows
  (`AlwaysGrows`, `LandedStays`), coverage is written by one action (`Writers`), and what
  that confirms, be it its own day or one it had selected, is staged by then (`HeldInv`,
  `TxnInv`).

**`ReconcileProofs`**, for any minutes (any set of integers), candidates, days,
outlier verdicts and number of mishaps:

- `ReconcileInvariant`: `ReconcileInv` is inductive. It relates what a run read
  to what the tables say when the run acts on it, and has three parts.
  `DecisionInv`: what a run counts as resolved is resolved, in the loop it knows
  of every resolved bar, and what is about to be purged has been published;
  without it a bar could be decided twice. `RowsInv`: every row of a provider
  that was staged is in staging or in the archive, and so is every row of a bar
  that is resolved or pending. `SnapshotInv`: a plain run that found a bar ready
  has seen the whole day (`WholeDaySeen`), rows it misses do not exist
  (`AbsenceSeen`), and while a purge is between its SELECT and its DELETE, every
  row it would delete was selected or is archived already (`PurgeInv`).
- `TypesKept`, `ConfirmedAbsence` and `PublishedBeforeArchived` follow at once.
  `NoRowLost` and `WindowsKept` look at the four kinds of step that write staging.
  `WindowsKept` needs `WholeDaySeen`: a neighbor that was staged after the run
  read its rows would be one the run knows nothing of, but then some provider
  had not been covered and no bar was ready.
- `NothingPublishedIsPending` and `DisputesStayVisible` rest on a second invariant
  beside `ReconcileInv`: by `PendingInv`, no run has a bar that is pending among
  those it counts as resolved and may publish, and what it is about to hand over is
  unresolved. A pending bar's rows were all kept (`RowsInv`), and what is in the
  archive is published (`DecisionInv`), so they are in staging.
- `RejectionsStayVisible` rests on a third, `RejectionInv`: a run that decides a
  bar without the whistleblower has read its row (`AbsenceSeen`), so read it as
  rejected, and until a mishap has the day staged again that row stays.
- `PublicationRefinement`: `Reconcile` implements `Publication`, with the winner
  of the resolution as the decision and the fact table as what is published.

- `PathsStayEarned` rests on `EarnedInv`: the rows of staging, of a snapshot and of
  the archive are ones the providers reported (`Reported`). The other direction, that
  a row a run missed was not reported, is `AbsenceSeen` of `ReconcileInv`, and
  `WholeDaySeen` for the bar's neighbors.
- `NoSecondInsert` rests on `CollisionInv`: without a mishap, only the bar `--finalize`
  is between its two commits for is both pending and resolved, and what it has
  still to do is pending. That a plain run knows every resolved bar is part of
  `DecisionInv`.
- `HandoverKept`: `Reconcile` implements `Handover`, from `RowsInv`.

The assumption the proofs about `Reconcile` rest on is the model's own, and the
code's (`reconcile/cli.py:535`): an archived payload does not change between two
stagings of a day.

Out of the prover's reach, and left to TLC: liveness (`WorkItemsFinish`,
`NeverStuckRunning`, `StagedEventually`, `PendingIsFinalized`,
`ResolvedBarsLeaveStaging`), since fairness needs ENABLED. No module uses
RECURSIVE. What induction there is, over the size of a finite set in
`FiniteHasGreatest`, is by its smallest counterexample, from the library's fact that
`<` is well founded on the naturals.

## 6. Not modelled

- **Settings, diagnostics, transports, command lines**: parsing, logging and
  connection plumbing without state the pipeline depends on. The ranges the parser
  admits are the `ASSUME`s.
- **Requests and payload formats of the providers, dim tables**: external, or
  conversions one to one; where one is not (the UTC date of a bar), it is modelled.
- **Price arithmetic** (tolerances, MAD bands, outlier detection, Welford
  updates): floating point over prices; TLA+ integers would model another
  function. Their results are nondeterministic where they decide anything, so the
  commit of the statistics after a decision is not modelled either.
- **The supplement columns after staging, the participant table**: written beside
  the resolution in the same commit, and read by nobody.
- **Revised payloads, two quant-reconcile at once, several dates in
  `Reconcile`**: see the plan.
- **The scripts under `src/.exp`**: experiments over a copy of the data.

## 7. Plan

Done: `CoveredDates`, `CoverageCommit`, `Coverage`, `CoverageProofs`; `JobPlan`, `JobRuns`, `Dispatch`,
`DispatchProofs`; `Tiers`, `Publication`, `Reconcile` with its client reads,
`ReconcileProofs`; `RateLimiter`, `RateLimiterProofs`; `Handover`, `Pipeline`,
`PipelineProofs`; their runs.

What would come next, in this order:

1. Revised payloads in `Reconcile`: what a re-staged day does to bars that are
   published.
2. Two quant-reconcile at once, over the same tables.
3. The time between two runs of a recurring job (`current_time` is taken once
   per invocation).
