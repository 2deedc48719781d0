# A TLA+ model of prism-coder

prism-coder is an MCP server (TypeScript, `src/src`) that gives coding agents a
persistent session memory and a background *Dark Factory* that runs a pipeline of
agent steps over a working directory. Several server processes ("host windows")
run side by side on one machine, share one config database, and talk to one
storage backend (SQLite file, Supabase, or Synalux), often shared by several
machines. What is hard about the program happens between those processes. This
directory models that part.

## 1. Inventory

| Component | State | Operations | Talks to |
|---|---|---|---|
| Pipeline row and its store (`storage/sqlite.ts`, `storage/supabase.ts`, `darkfactory/safetyController.ts`) | one row per pipeline: status, step, iteration, revision, `updated_at`, heartbeat | `savePipeline`, `getPipeline`, `listPipelines` | everything below |
| Dark Factory step machine (`safetyController.ts`, `runner.ts`) | position in INIT, PLAN, PLAN_CONTRACT, EXECUTE, EVALUATE, VERIFY, FINALIZE | `getNextStep`, judgement of a step, abort | row, workspace, verification harness |
| Dark Factory runner (`runner.ts`, `actionExecutor.ts`) | the tick in progress, heartbeat timer, `startupRecoveryPending` | `runnerTick`, `recoverStalePipelines`, `sweepZombies`, `pulseHeartbeat`, `executeActions` | row, lease |
| Execution lease (`storage/configStorage.ts`) | token, expiry, `reclaimed` per pipeline | claim, renew, isHeld, acknowledgeRecovery, release | runner |
| Discovery (`configStorage.ts`, `runner.ts`, `tools/pipelineHandlers.ts`) | one schedule row per scope: token, expiry, next poll, idle time, wake version, snapshot; authority table | `claimFactoryPoll`, `finish`, `readFactoryPollSnapshot`, `wakeFactoryPolling`, `session_start_pipeline` | runner, row |
| Verification harness (`verification/*`) | assertions and their severities | run a suite, severity gates | VERIFY step |
| Session handoffs (`sqlite.ts`, `ledgerHandlers.ts`, `crdtMerge.ts`) | versioned handoff per project and role, its history | save with expected version, three-way merge, checkout, delete | agents, reconcile |
| Session ledger, search, graph | append-only entries, links, embeddings | save, search, traverse | agents |
| Memory life cycle (`compactionHandler.ts`, `hygieneHandlers.ts`, `accessLogBuffer.ts`) | `archived_at`, `deleted_at`, rollups, access log | compact, expire, forget, flush | ledger, scheduler |
| Background scheduler (`backgroundScheduler.ts`, `supabaseMigrations.ts`) | a row of `scheduler_locks`, timers | acquire, heartbeat, sweep tasks, release | storage |
| Hivemind watchdog (`hivemindWatchdog.ts`, registry in `sqlite.ts`) | status, heartbeat and loop count of agents, verifications in flight | sweep, verify, prune, alert | agents, verification harness |
| Local inference device (`omlxJobControl.ts`, `omlxOwned.ts`, `omlxProvider.ts`, `prismInferHandler.ts`) | a listening port as lease, a durable marker per provider, jobs that drain | acquire, recover, run an owned job, observe, settle | the provider's control endpoints |
| Panel metrics (`panelMetricsSpool.ts`, `inferMetricsLedger.ts`) | spool files, lock file, `infer_metrics` | claim, insert, put back, delete | the editor extension that writes the files |
| Cross-device sync (`sync/*`, `crypto/*`) | file of pinned devices, encrypted blobs | push, pull, warn | portal |
| Process life cycle (`lifecycle.ts`, `server.ts`) | PID file, signal handlers | acquire, shut down | operating system |
| Dashboard (`dashboard/*`) | none of its own | render, settings, kill switch | storage |
| Model adapters and routing, scholar, SDM, skills, onboarding, updates, vm, scm | files, caches, counters | adapters and I/O | network |

What is hard about it: a save is a read, a test and a conditional write, with
other windows in between; a request whose caller timed out may be applied later;
an owner may stall past its lease and come back; a process may die inside a step
that has changed half of its files; heartbeats, sweeps, aborts and results all
write one row; discovery is shared and has to miss no announcement.
PROJECT.json lists each of these hazards at its line, with the properties aimed
at it, and the ones no property covers yet.

What makes each component correct:

- *Row*: no lost update, legal transitions only, a time stamp that identifies the version.
- *Step machine*: completed means verified; no position twice; it ends.
- *Runner and lease*: one actor at a time; no step replayed over a crash; the
  kill switch stops work; the pipeline is finished in the end.
- *Discovery*: an announced pipeline is found within one base interval, and ends.
- *Handoffs*: a version stands for one content; merging keeps what both wrote; a
  call gives up only when it really lost the race.
- *Ledger*: what compaction archives is in a saved rollup; what was used last stays.
- *Scheduler*: one sweeper as long as its lock is renewed; maintenance goes on.
- *Watchdog*: no agent is stuck in verification, or called looping without a count
  that says so; a count says no more than what happened.
- *Inference device*: one operation at a time, and nothing else beside it, even
  with requests that arrive late; the device is given back.
- *Panel metrics*: no metric that was written is lost, and it arrives.
- *Verification harness*: exactly what may run runs; skipping is no way around a gate.
- *Sync*: no device is sealed to without a warning, unless the process dies over it.

## 2. Plan

1. `PipelineStatus`, `PipelineRow`, `PipelineStore`: the row and its abstract promise. **Done.**
2. `FactorySteps`: the step machine. **Done.**
3. `FactoryRunner`: ticks, lease, crashes around one pipeline. It takes one fact
   from 1 (equal stamps, equal rows) and one from 2 (positions never repeat) to
   keep its state small; both are proved there. **Done.**
4. `FactoryPoll`: discovery and submission. **Done.**
5. `HandoffStore`: versioned handoffs, their history and the three-way merge. It
   shares nothing with 1 to 4. **Done.**
6. `MetricsSpool` and `OwnedDevice`: exclusion and recovery across processes with
   files, ports and requests that outlive their sender. **Done.**
7. `LedgerCompaction` and `SweepLock`: what the scheduler runs, and who may run it. **Done.**
8. `VerificationSuite`: the verdict that FactorySteps takes as an input. **Done.**
9. `HivemindWatchdog` and `DeviceTrust`. **Done.**
10. `PipelineJob`, what the runners of one pipeline promise together, and the
    proof that they keep it. **Done.**
11. Proofs for every component of 7 to 9. **Done.**

Components 6 to 9 share no state with each other, nor with 1 to 5 except where
one's result is another's input.

Left: several pipelines in one process (`FactoryQueue`); that in `FactoryPoll`
nothing is worked on that was not authorised and that a scan which lost its lease
stores nothing over a later one; and a promise of `HandoffStore` in the style of
`PipelineJob`: what one agent sees of a handoff as others write it.

## 3. Modules

`MC...` modules instantiate the modules for TLC, several of those that share no
state in one behaviour each (see the end of this section); where theorems are
stated, a `...Proofs` module extends the module, or the five of `ServicesProofs`.

### PipelineStatus, PipelineRow, PipelineStore

`PipelineStatus` is the vocabulary and `LEGAL_TRANSITIONS`. `PipelineRow` is the
abstract specification: created once as PENDING, legal transitions only, a
growing `updated_at`. `PipelineStore` is the code: `BeginSave(c)` is
`savePipeline` up to its conditional write (read, guards, choice of the stamp),
`ApplySave(r)` is the moment the database applies the write or matches no row.
Writes wait in `wire`, in no order, which stands for other windows in between,
slow requests, and requests whose caller gave up. `backend` chooses the WHERE
clause: SQLite repeats the status guard, Supabase compares the status it read.
`Clock` is what `Date.now()` may return; hosts are not related. `revision` is a
history variable that tells rows apart without looking at the stamp.
The rows that clients modify are only told apart by status; the other columns
travel with the row. `LandsIffCurrent` is what `FactoryRunner` takes from here.

### FactorySteps

One action is one tick that keeps its lease. `Follows` is `getNextStep` as a
relation, with `Candidate` one past each limit so that the guards of the code
keep the limits. `RunAgentStep` has every answer of the agent as input,
`RunVerifyStep` every result of the test command and the harness. `workspace` and
`plans` are history variables.

### FactoryRunner

One action is what happens between two awaits of `runnerTick`. `proc[p]` is the
tick in progress: `pc` is the place in the code, `purpose` tells startup recovery,
zombie sweep and normal run apart, `snap` is what the scan saw, `seen` and `write`
the row read and the row to be saved, `fresh` whether the row is still the one
read. `beat[p]` is the heartbeat pulse in flight, `wire` the writes whose sender
gave up. `Stall` lets a living owner lose its lease, `Crash` kills a process
anywhere; `HeartbeatLapses` may happen at any time, which stands for the five
minutes without a pulse. `lost` remembers attempts without result.

A position is the number of advances made. This is sound because positions never
repeat (`FactorySteps!PositionsNeverRepeat`, proved). A save lands exactly when
the row is unchanged since it was read, which is
`PipelineStore!LandsIffCurrent`, proved too.
A PENDING pipeline that the tick does not promote, the PAUSED status that no code
sets, and ledger events are left out.

`PipelineJob` is the abstract specification of it all: a status and a number of
advances, promoted once, advanced one by one, and final once finished. `Job`
reads it off the row; `KeepsJob` says that the writes of all processes together
(saves, pulses, sweeps, recovery, the kill switch, requests that land late) are
its steps, or leave it where it is. A failure may record an earlier position,
because startup recovery writes the position of its scan, or the last one,
because a failed last step is stored as FINALIZE.

### FactoryPoll

`sched` is the row of `dark_factory_poll_schedule`, with times counted from now.
The listing of a scan is two actions (`ListRunning`, `ListPending`) because it is
two queries. `Submit`, `Register`, `Wake` are the three calls of
`session_start_pipeline`, in any interleaving with scans. Execution is reduced to
what discovery sees: a candidate is picked, promoted, and ends after `Steps`
ticks; one whose owner died is failed by the next owner.

### HandoffStore

One action is what happens between two awaits of the handlers in
`ledgerHandlers.ts` and of the SQLite backend. `rows` is `session_handoffs` by
role, `history` is `session_handoffs_history`, `patches` the background saves a
context load leaves behind (the morning briefing; saving an image does the same).
`session[a]` is one agent: `view` is what it was shown or told last, the rest is
the call in progress. `Save` is the first statement of `saveHandoff`, `ForceUpdate`
the update after a UNIQUE constraint, `Check` the read after an update that
matched nothing, `FetchBase` and `FetchCurrent` the two reads of a merge attempt,
`SaveSnapshot` the entry in the history. `BeginCheckout` and `CheckoutVersion` are
`memory_checkout`, `Forget` is `deleteHandoff`.

Four history fields serve the properties only. `life` numbers the handoffs of a
role that were forgotten in between, because versions start again at 1. `exact`
is false for a copy that a merged save left behind: the code stores and reports
what was *submitted*, the row holds what was *merged*. `held` is the life in
which the version of a save was read, `good` whether the base of every merge so far
was the handoff the agent had been shown (the code looks a base up by project and
version, so it may find another role's or another life's snapshot).

A handoff is one list field as a set; the other list fields go through the same
`mergeArray`. Left out: the scalar fields, which are last-writer-wins by design;
`FactMerger`, which reads a field that its own load does not return and
never does anything on SQLite; the save function of Supabase, which is SQL on
the server; `reconcile.ts`, which copies rows between backends.

### MetricsSpool

One action is one file operation of `panelMetricsSpool.ts`. `spool[f]` follows a
file through its renames (live, pending, or the claim of a call), `ingest[p]` is
the call of process `p`: the listing it works from (`todo`), the claims it holds,
the one it inserts from (`cur`, `left`). `TakeLock`, `SeeStaleLock`,
`RemoveStaleLock`, `ReadToken`, `DropLock` are the statements of the lock file:
the removal and the release look first and unlink later, so either may unlink a
newer lock. `Abandoned` and `ToReturn` are the two ways out of a claim. `AgeFile`
and `AgeLock` let the mtime grow old, `StallLock` does so under a living holder.
The rows of a batch are one transaction; a row inserted twice is ignored, so the
ledger is a set.

### OwnedDevice

`lease` is the port `acquireOmlxLease` listens on, `marker` the durable file,
`call[p]` the tool call that holds the lease, `job[j]` an owned generation from
`StartJob` to `Settle`, `watch[x]` an `observeOwned` in progress (for a recovery,
for the probe of an earlier marker, or for the cleanup of a job's own marker),
`provider` what the provider's store says of an operation, `inflight` the requests
that may still arrive, also those whose sender died. `Deliver`, `Finish` and
`Cancelled` are the provider, which is outside the repository; they follow what
`omlxOwned.ts` relies on and the tests' synthetic server does: an operation
withdrawn before its claim is never claimed. The call may use the device otherwise only when every
generation was answered (`Answered`), which is earlier than settled
(`guardedOmlxGenerate` races with its failure).

### LedgerCompaction

`row[i]` is the state of a ledger row, `forgotten` the tombstones, `covers[r]` what
rollup `r` summarises. `CountEntries`, `FetchOldest`, `SaveRollup`, `ArchiveEntry`
are the awaits of `compactLedgerHandler`; `AbortCompaction` is any failure or crash
between them. `ToCompact` and `Fetched` keep the arithmetic of the limit: 0 is
dropped by `parsePostgRESTFilters`, a negative LIMIT is none. Any number of
compactions run side by side, because the tool takes no lock. `used` is
`last_accessed_at`; `UseEntries` is `updateLastAccessed`, called after a search or a
load without being waited for. Entries are numbered in the order of `created_at`,
and `UsedBefore` is the order of the query: by last use, nulls first, then by
age. So `SparesLastUsed` speaks of the entries used last, which is what the code
keeps; `KeepsNewest` speaks of the most recent ones, which is what the docs promise,
and is refuted. `alone` is a history field for `SparesLastUsed`. The `is_rollup`
flag is the split of the ids into `Entry` and `Rollup`; links, principles and
embeddings are left out.

### VerificationSuite

`suite` is the dependency of each assertion and whether it is filtered; TLC starts
from every suite of three assertions. `Visited` is what Kahn's algorithm has
visited in the end, the least set closed under the edges; `StartRound` is one turn of the `while` of `runSuite`, whose assertions
finish in any order. `GateAction` is `evaluateSeverityGates`, `Verdict` adds
`executeGate` and the pass rate. Severities do not influence the run, so
`PassedMeansCritical` quantifies over all of them at the end. A skipped assertion is
judged by its own severity, a failed one by the floor too (`severityPolicy.ts:61`
and `:86`); the property claims no more for the floor than that nothing it makes
critical has *failed*, and `FloorHoldsForSkipped`, that it has *passed*, is refuted.
`GuardNeverActs` is
about the branch of `runSuite` that skips the rest when nothing is ready: the
model has the branch, and the property says that it is dead code.

### HivemindWatchdog

`registry[a]` is a row of `agent_registry`, `sweep[w]` what is left of the listing
a sweep works from, `check[w, a]` a detached verification of process `w`.
`ReadBeat` and `WriteBeat` are the two statements of `heartbeatAgent`. `NewStatus`
keeps the order of the transitions. `PruneFails`, a failing status update in
`Examine` and a lost verdict in `WriteVerdict` are the caught storage errors.
Every row is listed with its status of that moment and judged by it later.
Heartbeats and verifications count in one field, `loop_count`. The history variables
`repeats` and `failures` count what happened, the one repetitions of a task, the
other verifications that did not pass. `NoFalseLoop` says what holds of the
shared count, whoever writes it over whom: *looping* stands beside a count that reached
`loopThreshold`, or the bail-out when a verification failed, and no count is higher
than what happened, the two taken together. That one of them alone reached its
threshold is `LoopingMeansItsThreshold`, and refuted.

### SweepLock

`mainLock` is the row `main` of `scheduler_locks`, `stage` where an instance is,
`late` the requests whose sender gave up and which the database may still apply.
A crash turns what the instance left behind into that of `dead`, because
`INSTANCE_ID` is drawn anew. `Expire` may happen at any time: expiry is computed
from the clock of the renewing client and tested against the clock of the database.

### DeviceTrust

`pushHandoff` between its awaits, and its caller. `pins` is the file, read and
rewritten whole; `warned` is the history of what any push has named. The portal's
list is any set. `Accepted` writes the pins, `Warn` prints the warning back in the
caller, and the process may die between them (`DieUnheard`): then the devices are
pinned and no later push names them, although `handoffSync.ts:20-22` says that the
warning repeats until the user has seen it. `unheard` collects them, and
`NoSilentDevice` names them as its one exception.

### MCFactory, MCServices and MCDaemons

PipelineStore, FactorySteps and FactoryPoll share no state as they are modelled, nor
do the seven modules from MetricsSpool to DeviceTrust. Checking them in one behaviour
each, rather than as a product, these MC modules give every behaviour a `subject`: it
moves, the others keep their initial state. The invariants of all are checked in
every state. MCFactory has the first three, MCServices the safety of the seven,
MCDaemons the liveness of four, the watchdog being in both. The fairness is stated
in MCFactory and MCDaemons, conjunct by conjunct for its subject.
MCFactorySteps, MCLedgerCompaction, MCVerificationSuite and MCHivemindWatchdog take one
module alone, for the runs that refute a statement about it.

## 4. Runs

| Run | Module, cfg | Question | Distinct states |
|---|---|---|---|
| factory | MCFactory | row: a write lands exactly on what its caller read, stamps are versions, no lost update, PipelineRow is implemented; steps: completed is verified, positions never repeat, it ends; discovery: announced pipelines are found within a base interval, and end | 391,556 |
| cycles | MCFactorySteps, MCFactoryCycles.cfg | finding: max_iterations + 1 cycles | violated |
| runner | MCFactoryRunner | one actor, no replay after a crash, PipelineJob is implemented | 3,978,896 |
| progress | MCFactoryRunner, MCFactoryProgress.cfg | the pipeline is finished; work stops | 56,494 |
| replay | MCFactoryRunner, MCFactoryReplay.cfg | finding: an expired owner's step runs again | violated |
| handoff | MCHandoffStore | versions identify contents, merging keeps both sides, giving up means contention | 930,821 |
| clobber | MCHandoffStore, MCHandoffClobber.cfg | finding: the save after a merged save erases what the merge kept | violated |
| services | MCServices | safety of spool, compaction, suite, device, sweep lock, device trust, watchdog | 4,897,077 |
| recent | MCLedgerCompaction, MCLedgerRecent.cfg | finding: the most recent entry is compacted | violated |
| floor | MCVerificationSuite, MCSuiteFloor.cfg | finding: what the floor makes critical can be skipped | violated |
| loops | MCHivemindWatchdog, MCWatchdogLoops.cfg | finding: looping, although neither threshold was reached | violated |
| daemons | MCDaemons | metrics arrive, the device is given back, verification ends, sweeps go on | 103,752 |

Bounds and why they are enough:

- *factory*, row: two clients and three writes in flight, so that one write can overtake
  two others, one of them of its own client; stamps up to 4 let an abort, an
  advance and a heartbeat chain on one row; two clock readings include a clock
  that stands still and one that runs back. The proofs drop all these bounds.
- *factory*, steps: two further iterations and the default of three revisions reach every
  limit from both sides.
- *runner*: two processes and two positions; two faults allow a stall followed by
  a crash, or a crash of the owner and of the one that took over. The
  processes are symmetric and the symmetry is used for safety only.
- *progress*: one process, which is restarted after each crash, so it plays owner
  and successor; two faults. Two processes are beyond a five-minute liveness
  check; competition of two owners is covered by the safety runs and proofs.
- *factory*, discovery: two windows, one scanning while the other follows, one pipeline of two
  steps (promoted, dropped from a snapshot, found again); the longest idle
  interval is three base intervals, so that it grows twice; two faults.
- *handoff*: two agents, the global role and another one, one todo, four
  saving calls and one incident (crash, lost snapshot, background save or
  forgotten project). One merge attempt instead of three, so that four
  calls exhaust it. One todo suffices because `mergeArray` treats each entry
  by itself. The proofs drop all these bounds.

- *services*. Spool: two processes, two files, two valid lines and an invalid one,
  batches of one, one fault (crash, stall or failed insert), so that a claim is
  taken over while its owner works on, between two batches. Ledger: three entries,
  two rollups, two compactions side by side, a limit of two, one expiry or deletion,
  one time of use, so that an entry is used or not; keep_recent below and equal to what
  was counted. Suite: every dependency
  graph of three assertions, with cycles, missing ids and filters. Device: two
  processes, two jobs, crashes and late requests without a bound. Sweep lock: two
  instances, three faults. Trust: two windows, two devices. Watchdog: one agent and one
  process, with a loop threshold of two and a bail-out of one, so that a count can pass
  one and not the other. The proofs drop all these bounds.
- *daemons*. The liveness checks take smaller instances: one line but two faults for
  the spool, so that a takeover may itself be interrupted; one process with one
  job at a time, restarted after each crash, for the device; one agent and one
  server process for the watchdog, both thresholds one, because counts do not matter
  to the end of a verification; two instances and two faults for the sweep lock.
- *recent*, *floor*, *loops* are as small as their traces: three entries and one call,
  two assertions, one agent with the thresholds of the code (5 and 3).

Fairness, and why the code justifies it:

- `FactorySteps` (stated in MCFactory): the poll loop is a `setInterval`
  (`runner.ts:1093`), so a pipeline that is RUNNING gets its next tick: weak fairness.
  That a pending one is picked up, aborts and failures are never owed, so
  `Terminates` starts from RUNNING.
- `FactoryRunner`: weak fairness of each process's own next step (every await has
  a timeout) and of its pulse; time passes for the lease of a dead owner. The
  agent's list of actions is finite, so the step ends: `FinishStep` and `Judge`
  are strongly fair because each action check disables them for a moment.
  `Unspoilt` states the one assumption about rates: a heartbeat fires every
  fifteen seconds, the window between the last read of a tick and its save is
  milliseconds, so a pulse does not overtake the end of *every* step. Without it
  the code may livelock, each time discarding a finished step.
- `FactoryPoll` (stated in MCFactory): clocks run and each window's own next step
  happens. Wakes and submissions are not owed.
- `HandoffStore` states no fairness and no liveness: a call may stop anywhere, as
  its host may die.

- `MetricsSpool`: a call runs to its end (file operations and inserts return or
  throw); *some* process calls again at its next request; time passes for files
  and for the lock of a dead holder. `MetricsArrive` assumes that in the end only
  one process asks (`LoneIngester`): two may take a stale claim from each other
  without end, since taking over does not renew the mtime.
- `OwnedDevice`: every await of a call and of a job ends by itself or by its
  deadline (ten seconds, or the budget of the job). `Release` and `Settle` are
  strongly fair because a job may start another observation in between, for which
  the drain budget sets a limit. The provider owes nothing at all.
- `HivemindWatchdog`: time passes, `setInterval` fires although the process may
  crash in between, and a failed write is tried again until it works: strong
  fairness. No heartbeat, no verdict and no restart of the agent is owed.
- `SweepLock`: the loop of `startScheduler` re-arms itself in a `finally`, requests
  are answered or time out, and time passes. Faults are bounded.

`CHECK_DEADLOCK FALSE` appears for factory and cycles, as a pipeline stops when it has
ended, for services, daemons, recent and floor: a suite ends, a ledger with no more
entries is at rest, and a device may stand still when all jobs were used up.

## 5. Findings

1. *cycles*: `max_iterations` is inclusive and iterations count from 0
   (`safetyController.ts:45`), so one cycle more runs than
   `pipelineDefinitions.ts:9` promises.
2. *replay*: ARCHITECTURE.md:579 promises that expired owners cannot silently
   replay an unfinished step. An owner that notices the expiry releases its token
   (`configStorage.ts:564`), which removes the evidence of the interruption; the
   next owner runs the step again.
3. *clobber*: COMPACTION.md:118-123 promises that versions and merging prevent
   silent clobber. After a merge the handler tells the agent the new version
   but not the merged lists (`ledgerHandlers.ts:1492`), and stores the submitted
   lists as the snapshot of that version. The agent's next save has the right
   version, needs no merge, and erases what the merge had kept for another agent.

4. *recent*: COMPACTION.md:159 promises always to keep the N most recent entries
   untouched, WOW_FEATURES.md:222 to preserve the N newest. The order of the query is
   by last use, nulls first (`compactionHandler.ts:260`), so a new entry nobody has
   used yet goes before an older one that was. When `keep_recent` is at or above the
   count, the limit is 0 or negative and everything is compacted. And two calls side
   by side may compact more than either counted, into overlapping rollups.
5. *floor*: `severityPolicy.ts:59-60` says that skipping critical checks must not
   neutralize the gate, and `:11-12` that the default severity is a floor. The test
   for skipped assertions looks at their own severity (`:61`): what only the floor
   makes critical may be skipped, and the verdict is passed.
6. *loops*: `hivemindWatchdog.ts:52`, `storage/interface.ts:194` and
   ARCHITECTURE.md:506 say that LOOPING means repetitions of one task, the alert of the
   bail-out (`:364`) that a validation failed so many times. Both count in
   `loop_count`: a verification takes the repetitions it finds there for failures
   (`:279`), and one failed suite after three heartbeats makes the agent looping.

Met while modelling and contradicting a text, without a run of its own: a process killed
between pinning and warning loses the warning of `handoffSync.ts:20-22` for good
(`DieUnheard`, the exception in `NoSilentDevice`); and `runSuite` reports `passed` with
critical assertions skipped (`verification/runner.ts:481`), which the pipeline's gate
catches and the watchdog, which tests `passed` first, does not, although
`severityPolicy.ts:59-60` counts skipped critical assertions as failures.

Behaviour that no text of the repository contradicts: a scan is two listings, and a
pipeline promoted in between is in neither, so an empty scan lengthens the interval
beside an active pipeline (`configStorage.ts:501` speaks of the scan alone, and
`PromptDiscovery` bounds the delay); the SQLite scheduler lock is read
from a per-process cache; the watchdog writes a late verdict over a newer status.

## 6. Proofs

All theorems hold for every value of the constants allowed by the named
assumptions: clocks and bounds are natural numbers, limits are natural numbers
with at least one revision, the null tokens are not processes, intervals are
positive. Each invariant theorem is Init, step, PTL.

- `PipelineStoreProofs`. `StoreTypeOK /\ StampsAreVersions` is inductive. The stamp
  alone does not show that an applied write was based on the current row; the
  invariant says that every row held by anyone is an earlier version and that
  equal stamps are equal rows, so the comparison in the WHERE clause does. From
  it follow `LandsIffCurrent`, `NoLostUpdate` and the refinement of `PipelineRow`.
- `FactoryStepsProofs`. The invariant adds what the position says of the
  workspace before VERIFY (`Waiting`, `Tested`). `FollowsForward` is the
  lemma about `getNextStep` from which `PositionsNeverRepeat` follows.
- `FactoryRunnerProofs`. A *threat* is a process that could still do something
  for the pipeline: it is inside a checked action or about to send a save that
  may succeed and does not fail the pipeline. `Fenced` says a threat holds the
  token or the lease is marked reclaimed; `Alone` that an owner within the step
  is the only threat; `Scarred` that after a lost attempt whoever owns the
  pipeline can only fail it. `OneActor` and `NoReplayAfterCrash` are
  not inductive without these: the danger is an old owner that still acts while
  a new one has claimed the lease and not yet read the mark.
  For the refinement of `PipelineJob` a second invariant, `JobInv`, follows the
  data: as long as what a tick has read is still good, the step it works on is the
  row's and the save it prepares `CanBecome` the row's successor, its scan saw no
  position still to come (`Honest`), and every request in flight can follow too.
  Each writer then takes one step of the job, and everything else none.
- `FactoryPollProofs`. `Restless` (a raised wake version or a schedule due
  within a base interval), `Seen` (what a scan that started after the wake has
  listed) and `Handled` (an announced job is authorised) strengthen
  `PromptDiscovery`.
- `HandoffStoreProofs`. Within a life a row's version only grows and changes
  with every write (`Grows`), so what is known of a version stays true
  (`KnownOK`) and what a call has read is a lower bound of what is there
  (`SessionOK`). `CountOK` counts the saves of others that a merging call has
  seen, which gives `GivesUpOnlyUnderContention`. `MergedOK` says that the write
  of a retry is a merge with the very row it will replace, if the row still has
  the expected version, which gives `SavesKeepBoth`.

- `ServicesProofs` holds five smaller components. *Suite*: `Visited` is the least
  set closed under the edges, so what is left over after `prepareAssertions`
  always has a ready member (`SomeReady`): otherwise the visited assertions without
  those still waiting would be a smaller closed set. With it `RanRightly` and
  `SkippedRightly`, which say why each result so far is what it is, are inductive
  and give `RanIffAllowed` and `GuardNeverActs`. *Sweep lock*: `SweeperHolds` (who
  sweeps with a lock that never ran out has it) needs `LateRelease`, because the
  danger is a release that arrives late. `PassedMeansCritical` follows from the
  types of the results and the gate alone, and claims of the floor only what failed assertions owe it.
  *Trust*: `PinnedIsHeard` says that a device is in the file only when it is heard
  of: named, about to be named, or left unnamed by a death. *Watchdog*: `CountsStand`
  says of every copy of a count what `NoFalseLoop` says of a row: of the count a
  heartbeat is about to write, of the rows of a listing, and of a verification's
  count and verdict. Each of these copies was taken when it was true, and the histories
  only grow.
  *Compaction*: `BatchCovered` says that what an archiving call still
  holds is in a saved rollup, so each single archival is covered whatever happens
  in between; `CountStands` that as long as nobody took an entry away, no
  fewer entries are active than were counted. So the limit ends where the
  `keep_recent` entries used last begin, in any order of use, which gives
  `SparesLastUsed`.
- `OwnedDeviceProofs`. An operation is `Harmless` when it is finished or
  withdrawn, or unclaimed with no execution on its way and none to be sent.
  `MarkerGuards` says that any other operation has its name in an active marker;
  `AdmitClear` and `UseClear` that around an admitted job, and around a call that
  uses the device, all (other) operations are harmless. `DeviceExclusive` alone is
  not inductive: the danger is a request sent before and delivered after the
  device was handed on.
- `MetricsSpoolProofs`. `Inserted` says that as long as the name of the claim a
  call works on still resolves, each of its valid lines is in the ledger or still to
  be inserted; so the deletion of that name loses nothing.

Every safety property that a run checks is proved. Only model-checked are the
liveness properties (`Terminates`, `Settles`, `Quiesces`, `AnnouncedEnds`,
`MetricsArrive`, `LeaseReturned`, `VerifyingEnds`, `SweepsGoOn`), which need fairness
and ENABLED, out of the prover's reach, and the six refuted statements. That
`Visited` is what the queue of the code computes is a translation, not a theorem:
that would take an induction over the loop, which the prover cannot do either.
The types of row store, suite, sweep lock and watchdog are only proved, no run
checks them.

## 7. Not modelled

PROJECT.json gives the reason for each component. In short: prompt texts, parsing
of answers, scope patterns and readiness probes are inputs; search and ranking are
SQL and numeric scoring; SDM is vector arithmetic; model adapters, scholar, vm and
scm are I/O; encryption and table sync are cryptography and row copying; skills,
onboarding and updates write files on request; the dashboard's page is rendering.
The PID file (`lifecycle.ts`) depends on signals and reused process ids, the access
log is telemetry its file declares expendable, and the SQLite scheduler lock
excludes nobody reliably, so nothing is stated of it.
