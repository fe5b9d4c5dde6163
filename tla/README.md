# Formal models of kb-sync

kb-sync stages documentation packs, pushes them to NotebookLM notebooks, keeps a
local knowledge cache behind an MCP daemon, and gates merges of graph snapshots.
Nearly all of the repository is content (wiki, docs, generated data).  Its program
is a few dozen Node scripts that share files, locks and remote notebooks with each
other and with earlier, possibly killed, runs of themselves.  This directory models
the parts where the order of steps decides whether the result is right.

All paths below are relative to the repository root.

## Inventory

| Component | State it keeps | Operations | Why it is hard | What makes it correct |
|---|---|---|---|---|
| **Pack replace gate** `scripts/nlm-pack-replace-gate.mjs` | the notebook's sources (remote), locals of a run | list, reuse, upload, poll, cut over, roll back | answers get lost, deletes fail, indexing is asynchronous, runs die, several writers | one complete generation is always queryable; success leaves one pack; residue is reported; a run ends |
| **Cluster sweep** `scripts/pipeline/cluster-sync-runner.mjs` | `.nlm-quarantine.json` | sweep notebooks, record and clear quarantine | unlocked read-modify-write, clear after a second look at the directory, a count taken from what is staged | the file lists what failed; what failed is swept again; a registered notebook serves no partial pack |
| **Idempotency ledger** `scripts/mcp-idempotency.mjs` (in `scripts/mcp-memory-daemon.mjs`) | one row per client request id, in memory; a chain of jobs as its lock | decide, run handler, record | handlers overlap with duplicates and retries; a handler may throw after it executed, and so may a job | one handler per id at a time, bounded attempts, one answer, every request answered |
| **Graph sync queue** `modules/graph-sync/queue.mjs`, `cli.mjs` | JSON file of items | enqueue, preflight, retry, merge | whole-file saves after awaits, no lock, crashes between saves | fails closed; a recorded merge happened; nothing enqueued is lost |
| **Loopback watchdog** `scripts/mcp/loopback-watchdog.mjs` | child process, status, restart times | probe, restart, stop | late exit events, stop racing restart, a child that ignores its signal | at most one child, the owned one; none after stop; a hung child is replaced |
| **Ingest runner, stale lock sweeper** `scripts/notebooklm/ingest-nlm-runner.mjs`, `scripts/reconciler/stale-lock-sweeper.mjs` | lock file, receipt file, the notebook (remote) | acquire, upload, verify, save receipt, release; reap | check-then-write; reaping by age; death between upload and receipt | one run at a time, with its exceptions named; nothing uploaded twice; receipts are true |
| **TRM drive exchange** `scripts/trm-ingest-drive.mjs`, `scripts/trm-export-gaps.mjs` | directories, RFCs, registry, leases | export gap, gate cards, ingest finding, archive | death between any two file operations; files written over; leases matched by prefix; a registry in two formats | evidence is kept once, and up for review where the registry has a table row; a signalled finding is consumed |
| **TRM closed loop** `scripts/run-closed-loop-research-v2.mjs`, `modules/trm/storage/transaction-manager.mjs`, `scripts/schedule-task-wrapper-TRM-Triage.ps1` | fingerprints, cadence, facts, mined tables, lock files | choose mode, list, compare, mine, cascade, save | five tables written one after the other, lock files of dead runs, failing listings, one text for a whole listing, modes that leave notebooks to each other | a source is remembered only after a mining of its notebook; facts follow removals; what is added is taken up |
| **Cloud budget** `modules/trm/evaluators/cloud-budget.mjs` | counter | check, count | check before count | budget is respected |
| **Gated climb** `modules/wiki/gated-climb-repair.mjs` | staging, quarantine and target trees | repair, validate, promote, quarantine | bounded retries, renames under a lock | only validated files are promoted |
| **Sigil approvals** `watch-competitors-v2.mjs`, `scripts/process-sigil-approvals.mjs` | JSONL queue, baselines | append envelope, decide, rewrite | the queue is rewritten from an old copy | no envelope is lost |
| **Knowledge cache** `modules/cache/*.mjs`, `modules/wiki/generated-ownership.mjs` | files, document rows, vectors, ownership manifest | upsert, sync, owned removal | three stores written one after the other | disk is the truth; edits are not removed |
| **Orchestrator** `core/*` | none between runs | order modules, run, roll back | cycles | a topological order |

How they interact: the sweep calls the gate for each notebook and records what the
gate's quarantine handler reports; the master pipeline and the toolforge miner call
the same gate for the same notebooks without any common lock.  The watchdog owns the
daemon process in which the ledger lives.  Export, ingest and agents of TRM gaps meet
only in directories.  The drive ingest runs the stale lock sweeper before it starts,
which may take the lock of an ingest runner.  The scheduled task of the closed loop
reads the cadence file the runner writes.  The graph queue meets git, and itself in
other processes, only through one file.

Everything else (text processing, validators, report writers, drivers of external
tools) is listed in `PROJECT.json` with the reason why it is not modelled.

## Modules

| Module | Role |
|---|---|
| `PackServing` | abstract: what replacing a pack promises to whoever queries the notebook |
| `PackReplaceGate` | the gate, any number of writers, and the notebook service |
| `MCPackReplaceGate` | constants for TLC |
| `PackReplaceGateProofs` | TLAPS proofs about it |
| `MutationCell` | abstract: bounded attempts, then one verdict |
| `IdempotencyLedger` | the ledger, run by TLC directly |
| `IdempotencyLedgerProofs` | TLAPS proofs about it |
| `GraphSyncQueue` | the queue file and its command line processes, run by TLC directly |
| `GraphSyncQueueProofs` | TLAPS proofs about it |
| `ClusterSyncProofs`, `IngestRunnerProofs`, `LoopbackWatchdogProofs` | TLAPS proofs about the three modules that follow |
| `ClusterSync`, `MCClusterSync` | sweeps, the quarantine file, the gate seen from outside; constants for TLC |
| `IngestRunner` | ingest runners, receipts, the notebook and the sweeper, run by TLC directly |
| `LoopbackWatchdog` | the watchdog, its children and the port, run by TLC directly |
| `DriveExchange`, `MCDriveExchange` | ingest, export, gate and agents over the shared drive; constants for TLC |
| `DriveExchangeProofs` | TLAPS proofs about it |
| `ClosedLoopResearch`, `MCClosedLoopResearch` | the closed loop runner, its storage and its schedule; constants for TLC |
| `ClosedLoopResearchProofs` | TLAPS proofs about it |

### PackReplaceGate

`status` and `title` are the remote notebook; every id is unborn, live (processing,
active, without a status but with a size, error) or deleted.  `pc` and the variables
named after the code's locals are one call of `replacePackFamilyAtomic` per writer,
and `ReuseChoices` what callers pass as `allowReuse` (in the repository only a test
turns it on).
Each `await` of the code is a step boundary: `List`, one `Reuse`, `Upload`,
`UploadFails` or `UploadAnswerLost` per file, then `StartPoll`, the verdicts of
`pollFamilyUntilActive` (`PollActive`, `PollError`, `PollListFails`, `PollInFlight`
with `PollAgain`, `PollTimeout`), one `Delete` or `DeleteFails` per source, and the
three ways out (`FinishCutover`, `PartialCutover`, `FinishRollback`).  `Reject` and
`ListFails` are the early errors; only the former calls the quarantine handler, as in
the code.  `Crash` ends a call anywhere.  `ClearQuarantine` is the sweep's.  `Index`
is the service.

`served` and `unreported` are history: the generation of the last run that passed its
poll, and whether a crash may have left residue that no handler saw.

Abstractions: files may be uploaded in any order; the sources of a title are told
apart by the title alone (the regular expressions of `matchesPackFamily` become the
set `PackTitles`); `DeleteFails` leaves open whether the last attempt took effect; a
delete is leased to exactly the ids the run listed or uploaded, so that leases never
refuse; a call without `expectedPartCount` is one that passes the count of its files.

### IdempotencyLedger

`rows` is `ledger.rows`, and `chain` the promise chain of `withLock`: a request appends
its first job when it arrives (`Arrive`) and its second when its handler is back
(`HandlerReturns`), a job runs when it is at the head, and it leaves the chain whether it
returns or throws, since `then` is given the next job for both cases.  A job has no
`await` inside, so each is one action (`Insert`, `Mismatch`, `Replay`, `Busy`, `Retry`,
`Exhaust`; `RecordFailure`, `RecordError`, `Commit`, `CommitThrows`).  Between them a slot
is at "run", outside the chain, where the handler comes back with one of four outcomes: a
result, an error, nothing readable (it threw, perhaps after executing), or a body that
makes the recording itself throw.  `NullBody` is the fifth: a body that is the JSON value
null throws before the second job, where its error is read
(`scripts/mcp-idempotency.mjs:193`), and leaves the row `IN_PROGRESS` like `CommitThrows`.
A stored answer is abstracted to its kind and the number of the execution it came
from, which is what lets AnswersAgree tell a replay from a second execution.

### GraphSyncQueue

`items` is the file.  A process loads it (`Enqueue`, `Retry`, `Preflight`, `Merge`),
then saves the array it *holds* - `held`, not the file as it is by then - once or
twice, with `Inspect` or `Apply` in between.  `Die` ends it between any two steps;
`save` is a rename and atomic.  A command that only reads its item and returns
(retry of a queued item, merge of a merged one, any refusal) changes nothing and is no
action.  Tokens are a function of id, versions and hash: one per id.  `Rebase`
rewrites the base directory.  `acknowledged`, `inspected`, `applied` and `overlapped`
are history.

### ClusterSync

`quarantined` is what `loadQuarantine` returns: a file that is being written, or was cut
short by a death, reads as empty.  A sweep is one process; `Take` is its first look at
the staging directories (`findStagedPackFiles`), `GateSucceeds` and `GateFails` are the
call of the gate, `Settle` is the second look and the decision to clear.  Every change
of the file is `Load`, `Truncate`, `Fill`; a failing gate may do it twice, once from its
quarantine handler and once from the catch block (`again`).  `due` is history: the
notebooks whose last decisive sweep failed.

Abstractions: the order of the notebooks is free; all notebooks have the same number
of parts, and a pack of one file is the case of one part; question mining, the
status file and the manifest merge change nothing a sweep decides on, and mining is
taken never to throw; entries for notebooks that are not in the manifest are left out.

### IngestRunner

The lock's age is one of three classes (up to 15 minutes, up to 30, more), the pid is
that of a live slot or nobody's.  `FindNoLock`, `FindStaleLock`, `UnlinkStale`,
`WriteLock` are the separate steps of `acquireLock`; `ReleaseOwn` and `RemoveLock` the
two of the `finally` block.  `Prepare` reads the receipts and the listing; then each
file is `Upload`ed, `Verify`ed against a fresh listing, and its receipt saved by a
truncation (in `Verify`) and a write (`SaveReceipt`) of all receipts the run holds.
`FindOrphan` and `Reap` are the sweeper.  `raced` records that two acquisitions, or an
acquisition or release and a removal, overlapped, or that a live run lost its lock to
its age; `unsure` the files an upload of which no run could verify.

Not modelled: `--force`; a lock file read while half written; a pid used again by
another process; the other files the sweeper looks at; the dead-letter copies.

### LoopbackWatchdog

`daemon` is what each child process does, `child` the handle the watchdog keeps.
`at` holds where the check and the stop are, since both may be inside `stopOwnedChild`
(`SendTerm`, then `StopSeesExit` or `StopTimesOut`) at once.  `Probing` ends in `ProbeOk`,
`ProbeFailsOnce`, `AlertOnly` or `Restart`; a probe may fail although the child is up.
`Spawn` and `SpawnRefused` are `start()` after its look at the port.  `ExitEvent` is the
handler of a child, which drops whatever handle is kept by then.  `raced` records that
a stop came during a check or an event dropped the handle of a live child.

### DriveExchange

`inbox` and `sidecars` are `03_grok_completed`, `card` is `01_actionable_gaps`, `lease`
is `_locks`.  The ingest takes the files one by one; each file operation is an action,
and a write in place is two (`Truncate`/`Fill` of the RFC, `OpenRegistry`/`FillRegistry`),
so that `Die` can fall between any of them.  The export is `Gate` and `UnlinkCard` for
damaged cards and `Export` for the others, and overlaps with the ingest, as do the
agents (`Claim`, `Drop`, `Signal`), who may drop a finding for any gap.

`row` is the line of each gap in `trm-research-gaps.md`.  The export reads table rows and
list lines (`- [ ] [GAP-03] **...`); `updateRegistryRow` marks table rows and nothing else
(`MarkRow`), and returns at once without a file (`SkipRegistry`; a registry without a line
for any gap does as a missing one).  All gaps of the repository's own
`trm-research-gaps.md` are list lines, so that none of them is ever marked: the evidence
goes to the RFC and nothing says that there is something to review.
`EvidenceIsUpForReview` is therefore about gaps with a table row.  `lost`, `unmarked` and `swapped` are history and
name the three ways in which evidence goes astray: a death during the write of an RFC,
a death between the two writes, and a file written over by the gate while it is being
ingested.

Abstractions and omissions: one ingest and one export at a time, as the scheduled task
starts them; a registry that a dying run left truncated stays lost; the archive of
rejected findings, the triage that rewrites the registry
(`modules/trm/gap-triage-engine.mjs:475`), context packs, the log line, the mobile inbox
and the git commit are left out (the command line of the ingest passes no options on, so the `--commit`
of its task wrapper has no effect).  Leases go when a finding is ingested and at no
other time, although `scripts/schedule-task-wrapper-TRM-Drive-Sync.ps1:7` says that the
task purges expired ones; and they go by prefix, so that a finding for `GAP-03` also
frees `GAP-03-VIDEOS`.

### ClosedLoopResearch

`fp`, `keys`, `cadence`, `flagged`, `spans`, `hashes` are the five tables (`keys` is the
key order of the first; of a span the model keeps the source it names, of a paragraph the
notebook it was hashed with), `stuck` those with a young lock file of a dead run.  A run
(`Begin`) walks over its notebooks: `Visit` applies the cadence rules, `ListRemote`,
`ListLocal` or `ListNothing` the listing, `Compare` the source delta; `Evaluate`,
`CommitSpans`, `CommitHashes`, `SaveFingerprint`, `SaveCadence` mine a notebook, `Cascade`
and `Forget` follow a removal.  `gaps` are the notebooks the registry has a gap for, which
anyone may edit (`EditRegistry`); a notebook without such a gap and without a local file
has no text to mine, and the exception ends the run (`Grounded`, `NoGap`).  Each write
needs its lock file (`MayWrite`) or ends the run (`LockTimesOut`), and a run may die in it (`Die`).  `Schedule` is the scheduled task.

A mining takes one text, the gap's or that of the first local file, whatever was listed.
It puts one span into the table, under the id of the source that comes first in the
listing, and one paragraph, and then the fingerprint remembers all ids of the listing.
So the code does not mine every source it remembers: a source that is listed second is
remembered by a span under another name, of a text that need not be its own.
`MinedBeforeRemembered` says what the code does promise: no id is remembered unless both
tables got a row for a listing with that id, and a notebook with a fingerprint has a
paragraph, and a span under an id of its own.  Hence too the name of `AddedIsTakenUp`,
which ends at the fingerprint.

What else the model shows of the code: the generation that
`commitTransaction` compares is compared with itself; the write-ahead log is written
and never read, although
`docs/superpowers/plans/2026-09-29-trm-diff-only-ingestion.md:10` promises recovery
from it; `inventory_hash` is stored and never compared, so that a source changed in
place is no delta; a source replaced by another in one delta never has its facts
flagged (`replaced`); a notebook without a fingerprint is never visited once another
has one; a notebook without local files whose sources are gone, or whose gaps are when
there is something to mine, ends every run at its place in the walk (`EndsRuns`).  The
paragraph hash is looked up under a key it is not stored under, so that mining is never skipped as a duplicate, and the model has no such case.

Not modelled: two runs at once, which would contend for the tables; dry runs; a notebook
given by hand that `DOMAIN_DISCOVERY` does not configure, for which the code makes up a
text; what the evaluator answers (it never throws and nothing of it is saved) and the
claim triage, which is only a column of the span.

## Runs

| Run | Question | Result |
|---|---|---|
| `pack_single` | Does a lone writer serve a complete generation at every step (`ImplementsServing`), leave one pack on success (`NeverStackSecondPack`), report what it leaves behind (`ResidueIsQuarantined`) and end (`EveryRunEnds`)? | holds, 192 835 states |
| `pack_two_writers` | Can two writers leave a notebook that had the pack without a queryable one (`NeverWithoutPack`)? | no, 2.2 million states |
| `pack_stacking` | Can two writers stack two packs? | **yes** |
| `ledger` | Does the ledger implement `MutationCell`, exclude handlers, give one answer, and answer every request through one chain of jobs, some of which throw (`EveryRequestAnswered`)? | holds, 35 328 states |
| `graph_queue` | Does the drift gate fail closed under overlap and crashes, and are merges and enqueues durable while commands run one at a time? | holds, 1.9 million states |
| `graph_queue_double` | Can the merge adapter be called for an item the file records as merged? | **yes** |
| `cluster_sync` | Does the quarantine file tell the truth between undisturbed sweeps (`FileMatchesSweeps`), does no registered notebook serve a partial pack (`RegisteredServedWhole`), is a failure swept again (`FailureIsRetried`)? | holds |
| `ingest_runner` | In which overlaps is exclusion lost, and in no other (`OneRunUnlessRaced`)? Is nothing uploaded twice (`UploadedOnce`), are receipts true even in a race (`ReceiptsAreTrue`), is a dead lock broken (`DeadLockIsBroken`)? | holds |
| `watchdog` | One owned daemon (`OneOwnedDaemon`), none after stop (`StopLeavesNothing`), a hung one replaced or reported (`HungDaemonIsReplaced`), does stop end (`StopEnds`)? | holds |
| `drive_exchange` | Is evidence kept once (`EvidenceKeptOnce`), up for review if its gap has a table row (`EvidenceIsUpForReview`), every signalled finding consumed (`SignalledIsConsumed`)? | holds, 640 428 states |
| `closed_loop` | Is a source remembered only after a mining of a listing with it (`MinedBeforeRemembered`), do facts follow removals (`FactsFollowRemovals`), does an added source get into the fingerprint (`AddedIsTakenUp`)? | holds, 533 597 states |
| `closed_loop_idle` | Is a source taken up that is added to a notebook that is idle and left to the weekly runs (`DemotedIsTakenUp`)? | **no** |

The three that fail are disagreements of code and text:

* `scripts/nlm-pack-replace-gate.mjs:5` promises "never stack a second pack".  The
  gate deletes what one listing showed before it uploaded; two writers that both list
  first both succeed.  Alone, a writer keeps the promise (proved).
* `docs/issue-94-graph-drift-gate-design.md:15` calls merge idempotent "at its durable
  boundaries".  Two merge processes that both load the item as ready both call git, the
  second after the first has recorded the merge.  (Git itself then has nothing to do;
  the queue does not know that.)
* `scripts/run-closed-loop-research-v2.mjs:481` says "Active mode demotes > 72h idle to
  weekly delta mode".  The scheduled task decides between the modes by
  `$cadenceState.last_source_delta_utc` (`schedule-task-wrapper-TRM-Triage.ps1:70`), but
  the runner keeps that time per notebook, one level further down.  The key is never
  there, weekly is never chosen, and a demoted notebook is passed over by every
  scheduled run: in TLC's trace it is mined, becomes idle, and only then gets a second
  source, which no run ever lists.

### Bounds, and why they are enough

* `PackSingle.cfg`: a pack of two parts, so that partial uploads, reuse of one part
  and a partial cutover exist; an old generation and a legacy pack to delete; three
  fresh ids, so that a complete replacement is followed by another one that fails
  halfway, or a failure by a success.  Which fresh id the service picks does not
  matter and is fixed (`Ingest`).  The proofs lift all of these bounds.
* `PackTwoWriters.cfg`: one part, one old source and three uploads: each writer can
  replace, and one of them again, so a stale listing can outlive a whole run of the
  other.  `PackStacking.cfg` (nobody reuses) needs two uploads.
* `Ledger.cfg`: three slots, so that a job waits behind one that throws, and one key (keys do not interact, every property speaks
  of one key), two fingerprints, the source's own cap of 3.
* `GraphQueue.cfg`: two processes are what it takes to overwrite; two ids, so that
  one item is lost by saving another; two snapshots and an unreadable base.
* `ClusterSync.cfg`: two sweeps overlap; a registered notebook and one that the master
  pipeline writes, which catchup has to visit all the same; packs of two parts, so that
  one can be staged in part; one crash.
* `Ingest.cfg`: two slots and the sweeper are what a race takes; a slot that died
  starts again, so that the number of runs is not bounded.  Two source ids: each file
  is uploaded, or one of them twice.
* `Watchdog.cfg`: three children, so that one may be dying, one being stopped and one
  new; the source's own limit of three restarts.
* `Drive.cfg`: one gap and two file names, one of which the gate writes; two drops
  and one death, so that a finding comes twice around a death.  The gap starts
  with a table row, with a list line, or with no line.  Two gaps only multiply
  the states: nothing but the registry file and the prefix of leases is shared by gaps.
* `ClosedLoop.cfg`: two notebooks, since one can end a run before the other.  The first
  has one source and a local file to stand in for it.  The second has two sources, so that
  one of them is not listed first, no file, and a gap that may be missing from the start,
  written or dropped.  Three changes allow to add, add and remove, or to add, add and drop
  the gap; one death.  `ClosedLoopIdle.cfg` needs two changes: a source that is mined, and
  one that comes when the notebook is idle.

### Fairness

* `WF(Serve(r))` of the ledger: the event loop runs the job at the head of the chain, and
  a handler comes back (the daemon's handlers are local SQLite and file operations).  A job
  further down is not enabled, so that nothing but the chain itself brings it to the head.
* `WF(Progress(w))` of the gate: a started call is scheduled.  Every remote call ends,
  for its subprocess is killed after 120 s.
* `SF(PollTimeout(w))`: the loop compares `Date.now()` with a fixed deadline, so one
  cannot sleep again and again without it passing; "wait" is left and entered again,
  hence strong fairness.
* `WF(Step(p))` and `SF(StartCatchup)` of the sweep: a started sweep goes on, the gate
  ends (`EveryRunEnds`), and the catchup task is scheduled daily; it is strong since the
  file is empty now and then.
* `WF(Acquire)`, `WF(Step)` of the ingest runner: its callers start it again and again,
  and every remote call has a timeout.  `SF(UnlinkStale)`: a run is not killed between
  its look at a stale lock and the removal every single time.
* `WF(Check)`, `WF` of the end of a stop, `WF(ExitEvent)`, `WF(Killed)` of the watchdog:
  timers and events are delivered, and SIGKILL kills.
* `WF(Ingest)` of the drive: the task is scheduled, and a run goes on until it ends or
  dies.
* `WF(Step)`, `WF(LocksAge)`, `SF(Schedule)` of the closed loop: a run goes on, lock
  files get old, and the task is scheduled again and again, also if runs by hand come
  between.  `SF(ListRemote)` in runs that are not aimed at one notebook: the listing of
  a notebook is not down for ever.  Nothing is assumed of runs by hand.
* No fairness for indexing (`Index`), callers, crashes, agents, or the graph queue.

## Proofs

All proof modules are checked by `tlapm` for every value of the constants.  The
assumptions on constants are the named `ASSUME`s of the modules (`GateAssumption`,
`LedgerAssumption`, `QueueAssumption`, `LoopAssumption`, `ExchangeAssumption`,
`WatchdogAssumption`, `ClusterAssumption`, `IngestAssumption`), which TLC evaluates in
the runs.

**PackReplaceGateProofs.**  `TypeCorrect` for any number of writers.  The other results
are about callers that count the whole pack (`WholePack`): a call with an incomplete
staging directory and a count to match would replace the pack by less than a pack.  The
first ones are for a lone writer (`LoneWriter`): two can stack packs, as
`pack_stacking` shows.  `NeverStackSecondPack` is not inductive, since it speaks of idle
writers only.  `LoneInv` says in addition what
a run has staged is born and has one source for each part done (`StagedInv`), that what
is served is queryable, complete and on nobody's list of deletions (`ServedInv`), and
that every live pack source is in the listing, among the uploads, or - unless a delete
failed - still to be deleted (`StackInv`).  `LoneWriterNeverStacks` follows, and
`LoneWriterServes`, the refinement of `PackServing`: only `PollActive` moves `served`,
which is `Promote`; every other step is `Churn` or a stutter.  `LoneResidueIsQuarantined`
needs no more than `LoneInv`: a run ends without an entry only if it has deleted all that
was listed.

`WritersKeepAPack` is `NeverWithoutPack` for any number of writers, if nobody reuses
sources (`NoReuse`) or the notebook has the pack from the start (`PackAtStart`).  Without
either it is false, as the first attempt to prove it showed and TLC confirms on
`PackTwoWriters.cfg` with `Existing <- MCExistingNone`: a run with `allowReuse`
(`scripts/nlm-pack-replace-gate.mjs:700`) takes over the only ACTIVE source of a title
without a way to tell whether the run that uploaded it has promoted it; if that one fails
its poll, its rollback deletes what the second run serves, with nothing staged in its
place.  A notebook that has the pack is safe, since the upload is then not the only source
of its title, and so are the callers in the repository, which leave `allowReuse` off.

A run about to cut over knows nothing of the others, and the source it promotes may be on
the list of one that listed later.  What saves the pack is the order of the listings,
which the state shows: of two listings the later one contains what is left of the earlier one (`OrderInv`).  A run that deletes my upload has
listed later than I have, so that the source which is kept for that run is younger than
my listing too.  `KeptInv` says that there is one such source for each part and each run
that is deleting; `OwnedInv` whose sources are whose.

**IdempotencyLedgerProofs.**  `IInv` ties a running handler to an `IN_PROGRESS` row and
its number to the count of executions (`FlightInv`), the row's retries to the executions
there were (`RowInv`), answers to the row they came from (`AnswerInv`), and an
`IN_PROGRESS` row to a handler or to one of the two places that throw (`OwnedInv`).  From it follow
`HandlersExclude`, `DuplicatesAgree`, `NothingLeftInProgress`, and
`LedgerImplementsCell`, the refinement of `MutationCell` with limit
`FAILED_RETRY_CAP + 1`.

**GraphSyncQueueProofs.**  A stale array may overwrite anything, and yet the gate fails
closed: every array, in the file or held, only *vouches* for what has happened
(`Vouched`: an item that is ready was inspected, one that is merged was applied), and
replacing one such array by another keeps that true.  `GateFailsClosed` and
`RecordedMergesHappened` hold for any number of overlapping and dying processes.

The other three properties speak of commands that never overlapped.  `SerialInv` says why
that is enough: at most one process is under way, the array it holds differs from the file
at most in the item it works on, that item is not recorded as merged, and the array still
has it, so that a save takes nothing back.  `MergesAreAnnounced`, `EnqueuedIsKept` and
the action property `MergedIsFinal` follow, with a death at any step.

**LoopbackWatchdogProofs.**  `OneOwnedDaemon` counts daemons that are not being killed
(`Running`); to keep it, `OwnerInv` says where the one there may be is referred to: by the
handle, by who is stopping it, and by nobody once a restart is about to spawn or a stop is
over.  That rests on `SignalInv`: a child that was signalled is killed by the time nobody
waits for it.  `OwnsTheDaemon` and `StopLeavesNobody` follow, both unless `raced`.

**ClusterSyncProofs.**  `RegisteredIsWhole` needs little: the gate refuses a count that
is not the registered one, and only a call that got past that check, failed or not,
replaces what is served.  `FileIsTrue` is about
three steps of reading, truncating and writing: `Owes` says at each place of a sweep how
the file, the data in hand and what is due differ, and `FileInv` that one sweep at a time
owes anything unless one was disturbed.

**IngestRunnerProofs.**  `ReceiptsAreBacked` holds in every race, because every copy of
the receipts, on disk or in hand, is backed by the notebook by itself (`ReceiptInv`).
`RunsExclude` follows from `LockInv`: who works owns the lock, and of those who look at it
or remove it there is one, alone.  `EachIsUploadedOnce` is not inductive, since it does
not say why a later run will recognise a source.  `CoverInv` does: a source of a file that
is sure has its receipt in the file, in the hands of the run writing the file, or is the
one about to be verified; and `WorkInv` says that what a run has still to upload is in the
notebook only if it is unsure.

**ClosedLoopResearchProofs.**  `MinedBeforeRemembered` is not inductive: between the
commits and the fingerprint it is the run's program counter that says how far the
listing in hand has been mined.  `Inductive` adds that (`TablesAhead`), that a listing in
use is of the notebook's own ids, so that the span is the notebook's whichever id comes
first, and that what is being forgotten was flagged or is about to be; `RememberedIsMined` and `RemovalsAreFollowed` follow for
any number of notebooks, sources, changes and deaths.

**DriveExchangeProofs.**  `EvidenceKeptOnce` says where the evidence of an archived
finding is, but not why the run may append without looking again.  `EvidenceInv` does:
nobody else writes RFCs, so what was read is what is truncated, and the finding in hand
is not in it; and `RowsInv` says that the rows held while the registry is empty are as
good as those that were read.  The second part (`Content`) rests on the first
(`Shape`), which stands alone: a file that was listed stays until the run itself moves
it away, whatever agents and the gate write meanwhile.  `EvidenceKept` and `ForReview`
follow for any number of gaps, findings, files, deliveries and deaths, and so lift the
single gap of `Drive.cfg`: a registry may mix table rows, list lines and missing lines.

Model-checked only: liveness (`EveryRunEnds`, `EveryRequestAnswered`,
`FailureIsRetried`, `DeadLockIsBroken`, `HungDaemonIsReplaced`, `StopEnds`,
`SignalledIsConsumed`, `AddedIsTakenUp`), which these provers cannot do.  Every invariant,
action property and refinement of a passing run is a theorem, with the hypotheses named
above.

## What is not modelled

Parsing and matching of titles, canonicalisation and hashing of snapshots and calls,
HTTP and authentication of the daemon, resolution of the command line tool, the older
purge-before-upload path of the gate (only tests call it).  A file system that refuses
a write is modelled nowhere.  The ledger's loss at a restart of the daemon is by design,
and outside a behaviour of the model.

Components left out, with the reason:

* Gated climb: one process under a lock that works on one directory.  Reading it shows
  one thing no model is needed for: `lessonError` is declared inside the quarantine
  branch (`modules/wiki/gated-climb-repair.mjs:416`) and read after it for the audit
  entry, so that every run ends in a ReferenceError after it has promoted or
  quarantined.
* Sigil approvals: the queue file is rewritten from an old copy, by a command started
  by hand; `GraphSyncQueue` and `ClusterSync` model that pattern where it matters.
* Knowledge cache and file ownership: derived data that the next sync repairs from
  disk, and one synchronous pass.
* Cloud budget: one caller, which makes its calls one after the other.
* Algorithms over text (reconcilers, validators, triage, compaction, telemetry): no
  state outlives a call.  Most lines of code in the repository are of this kind, so
  that the models cover a small share of its lines.

## Plan

1. Two closed loop runs at once, over one table lock, and the sigil approval queue.
2. A common lemma module for the steps the proofs repeat (whole-file saves, locals that
   are reset), if the proofs of new modules need them again.
