# Cloud-AV-Agent-Lab in TLA+

Cloud-AV-Agent-Lab tests security products on a Tencent Lighthouse instance.  A
controller restores the instance's snapshot, waits for two agents inside it,
uploads a sample, has it launched, watches it, collects the product's logs,
exports the evidence and restores the snapshot again; `multi-run` does so for a
batch of samples.  What can go wrong lies between these steps: a process
dies, an answer is lost, two controllers meet on one instance, an operation of
the cloud half succeeds.  This directory states what must hold then, checks it
with TLC on small instances and proves the central parts with TLAPS.

Contents: 1 inventory, 2 modules, 3 runs, 4 proofs, 5 disagreements between the
documents and the code, 6 what is left out, 7 plan.

Paths below are relative to `src/src/cloud_av_agent_lab/`.

## 1. Inventory

| component | state it keeps | operations | talks to |
|---|---|---|---|
| multi-run (`orchestration/multi_run.py`) | `batch_plan.json`, `multi_run_state.json`, `multi_run_events.jsonl`, sample mirrors under `sample_index/indexed` | index, plan, run, `--resume`, `--rerun-failed`, `--force-rerun` | single-run by a function call; sibling batches through their state files |
| single-run (`orchestration/single_run.py`, `run_state.py`) | `run_state.json`, the case directory | one case from lock to release | instance lock, cloud adapter, Guest Agent |
| instance lock (`orchestration/locks.py`) | one file per `instance_id` | acquire, heartbeat, release | other controllers through the file |
| cloud adapter (`adapters/tencent_lighthouse/`) | none; the state is the cloud's | stop, start, restore, status, each polled until settled | Tencent API |
| Guest Agent client (`adapters/guest_agent_client.py`) | none | one HTTP request per call | Guest Agent |
| Guest Agent (`guest_agent_server/`) | the case workspace: manifest, sample, status, collection, reports | prepare, upload, status, readiness, execute, collect, summary, export | Desktop Worker; signs one lease per execution |
| Desktop Worker (`desktop_worker/`) | memory: consumed nonces, the open window, Popen handles; disk: `worker_execution_state.json` per case | execute, execution-status, restart | operating system processes |
| readiness, collectors (`guest_agent_server/...`) | baselines and copies of product logs in the workspace | product checks, collection of a log or a quarantine | the product, through its files and event channels |
| evaluation, evidence, reporting | none | verdict, bundle, redaction, Markdown | called by the others |

The hard behaviours, by component (`PROJECT.json` lists each with its line):

* *Instance lock.* Files are the only synchronisation.  The check and the write
  are separate; locks expire and go stale while their owner lives; owners die.
* *Desktop Worker.* Requests run on a thread pool and two short blocks are
  locked.  Launching, registering and recording a process are three steps; the
  worker may die after each; polls decide from what they read earlier.
* *Multi-run.* The controller may die between persisting a result, destroying
  its sample mirror and persisting that; four modes re-enter one state file;
  `fastmode` and deferred cleanup hand a used instance to the next case.
* *Single-run.* Requests are lost, served without an answer, or served after
  the client gave up; cloud operations fail half way; the `finally` block may
  itself be broken off.
* *Guest case.* Every request rewrites whole files of one workspace; a request
  begun over an unfinished one acts on what it read; the product acts between.
* *Cloud adapter.* A write is accepted now and carried out later, by a cloud
  whose description of the instance may lag; waits time out while the operation
  goes on; nobody refreshes the lock during a cleanup.
* *Between batches.* Each batch announces itself and looks for the others in an
  order of file operations; a case locks a file in its own directory.
* *Collectors.* The product writes while it is read; its database keeps what
  earlier cases left; files are copied one after the other; a query has a limit.
* *Batch inputs.* Manifest, plan, state and mirror are read several times each,
  by one process or the next, with hours in between and people at the files.

What makes each correct: no two controllers on one instance; a sample starts at
most once per case; it starts on a clean instance; no result is claimed that was
not obtained; nothing is destroyed before what it supports is persisted;
evidence leaves the instance before the restore wipes it; every run ends, and
says truthfully how it left the instance.

## 2. Modules

One module per component; each action is one step of the code between which
another process, thread or crash can come.  `PROJECT.json` maps every
definition to its lines.  Operators introduced by a comment "Seeded bug" are
not part of a specification: each is a plausible mistake that replaces one
definition to show that a property would notice it.

### InstanceLock

`file` is the lock file (owner, remaining life, heartbeat age), `at[r]` where a
controller is, `left[r]` the expiry in its in-memory payload.  `LookForLock`,
`ReadLock`, `ArchiveLock`, `WriteLock` are the file operations of
`acquire_lock`; `Heartbeat` rewrites the file with the run's own payload;
`BeginCleanup`/`EndCleanup` stand for the `finally` block of single-run, which
sends no heartbeat; `ReleaseCheck`, `ReleaseUnlink` are `release`.  Time is the
age of the timestamps, saturating at the code's two limits, so that no clock
bound is needed.  The code keeps neither two acquisitions from overlapping nor a
live run's lock from lapsing, and the model does neither: `breaches`, a history,
counts the acquisitions that overlapped with another and the takeovers of a live
run's lock, and the property says how far each of them can go.

### DesktopWorker

`consumed`, `active`, `registered` are the registry's memory, `record[c]` the
state file of a case, `process[l]` what the operating system knows of the
process launched with lease `l`.  A request is `Reserve` (validation and the
locked block), `Popen` or `PopenFails`, `Register`, `WriteRunning`, or after a
failure `WriteLaunchFailed`, `Clear`; a poll is `ReadState`, `Observe`,
`WriteObserved`, `CloseWindow`.  `Restart` forgets memory and threads, may tear
the files being written, and leaves files and processes.  `Prepare` is the
Guest Agent deleting and recreating a case workspace.  A read of a state file
and the computation from it are separate actions, so polls act on stale reads.
With `Patient`, a case is neither polled nor prepared again while its launch is
served, which is how single-run uses the worker; polls of one case may overlap
one another.  Without it polls may come while the case's launch is served.
`Snapshots` is what psutil may say of a PID: since another process may have got
it, or `psutil` may fail, the answer tells nothing of the sample, and a recorded
exit may turn into "running" again.  `Unwatched` are the cases nobody polls:
after a lost answer to the execution request single-run records "not started"
and never asks again.

### MultiRun

The state file is `disk`, the execution's copy is `mem`; `mirror`, `log` and
`vm` are the sample mirrors, the event log and the cases whose samples may have
run on the instance since its last restore.  An execution is `Start` (loading or
creating the state, refusing what may not be executed), preflight, then per case
`Select`, the single run, `Record`, `Burn`, `Rewrite`, and at the end
`BurnRest`, `FinishStopped` or `FinishCompleted`.  The single run is
`CaseContract` (`stage <- pc, this <- index, used <- vm, outcome <- result`), one
action of the contract each: it raises, fails before it has an adapter, prepares
the instance or fails to, launches, comes to the end of its steps (`EndSteps`),
and defers, restores or fails to clean up.  `Crash` ends the process between any
two steps and may tear the event line being written; the next `Start` finds
what is on disk.

### BatchExclusion and InstanceUse

Several controllers, one batch each.  `Open` writes "running" into the batch's
own state file, `List` takes the siblings that have one, `Read` reads them one
by one at moments of their own, `PassOver` is a read that fails and is ignored,
`Pass` or `Refuse` ends preflight.  `Crash` leaves the file saying "running".

`InstanceUse` extends it with what an execution does then: the cases it runs
(`BeginCase`, `CaseLocked`, `EndCase`), attempts in memory (`mine`) and in the
state file (`saved`), and beside the batches standalone `single-run`s.  Both
take a lock file, and a lock file is a directory and an instance: the operator's
`--runs-dir` for a standalone run, the directory of the attempt for a case,
because `RealSingleRunRunner` passes that as `runs_dir`.  Acquiring is one step
here, and a lock file is taken to exclude: there is no breach in the sense of
`InstanceLock`, whose subject that is.  What `instance_shared` finds it finds even
so.

### SingleRun

One case under the lock.  `run` is `run_state.json`, `steps` its steps marked
"ok", `guest` the case workspace, `vm` whether the instance is on and used.
Each step of `_run_single_case_locked` is an action.  Those that call the guest
share `Call`: answered, refused, lost and repeated after a reconnect, or given
up.  A lost request may have been served, may be lost, or is kept in `late` and
served at any later moment (`ServeLate`), until a restore or a stop.  Cloud
operations fail after all, part or none of their work.  `LocalError`,
`Interrupt` (Ctrl-C), `Escape` (either of them inside `finally`) and `Die` end
or divert a run at every step.

### CaseContract

What a batch may expect of the single run of a case: `stage` is how far it is,
`used` whose samples may have run on the instance since its restore, `outcome`
the result as `multi_run.py` reads it.  `SingleRun` implements it
(`KeepsPromise`) under the mapping `Stage`, `Used`, `CaseError`, `Returned`.  A
sample counts from the moment its launch is asked for, answered or not, because
a request on its way may be served at any time.  A failure before the adapter
exists is not an error to clean up after; an interrupted or killed run is gone
(`Dies`), since no result of it reaches the batch; whether an emergency stop
followed a failed restore makes no difference to the result.

### GuestCase and Evaluator

The workspace of one prepared case: `state` is `case_state.json`, `collection`,
`report`, `summary`, `readiness` the other files, `sample` and `metadata` what
is under `sample/`, `worker` the Desktop Worker's record, `logged` whether the
product's log holds evidence.  `request[t]` is what thread `t` serves, at which
file operation it is, and what it has read.  A step is one file operation, so
that a collection, for instance, reads the state (`BeginCollect`), stamps its
window, queries the log, writes back the state it read (`WriteBack`), writes its
result and then the report.  `Prepare` may come late or again while requests are
served: it removes the files they are at, some break off and the others write
what they hold into the new workspace.  A request begun over another
one counts as an overlap; the properties of whole reports and bundles are about
cases without one, those of the verdict about all.  The worker may answer, fail,
or start the sample after its client gave up (`LateLaunch`); `Protect` is the
product logging or removing.  `ran` and `clearLog` are histories of a start and of
a clear log read after it, since the last preparation with no request at work.  `Evaluator` is the decision of `_decide_verdict` as an operator.
`DesktopWorker` models how the worker comes to its answers; here it is its
record.

### Attribution, Collectors and CollectionContract

`Attribution` holds what the collectors of Huorong, Defender, 360 and Tencent
compute: which rows of a log they take for the case (`HuorongEvent`,
`DefenderLevel`, `QihooLevel`), when a quarantined container counts
(`ContainerCounts`) and the state and verdict of each.  A row is reduced to its
number, its time (perhaps unparseable), the fields that agree with the case, the
product's action and whether its XML can be parsed (`Parsed`); the time of a
container may be unknown.  `Collectors` has the product on the other side: `log` and
`container` grow while readiness, upload and collection look at them at moments
of their own.  A collection is two steps where the code reads twice (log.db
then its write-ahead files; the container before and after its digest), and a
checkpoint between the two may tear the copy.  The log and the quarantine may
hold anything from before the case, of the same sample too.  `CollectionContract`
is the abstract collection: it may stay inconclusive, but "detected" means that
the log held evidence of this case at one moment of the collection and "clear"
that it held none, unless the collection `overlooked` rows without noticing: a
torn copy, or an event that cannot be parsed.  What is evidence is each
collector's rule (`Evidence`): for 360 a row that names the sample's path or hash
counts whatever its time.  `KeepsContract` says that `Collectors` implements the
contract, under `logged <- Logged, finding <- Finding`.

### BatchInputs

The files of a batch, `samples`, `mirror`, `source` and `copy` (the manifest),
`plan` and `state`, and what the process has in memory of each.  A digest is the
content it is the digest of.  Every file read of indexing, planning, loading
and opening is an action (`ParseManifest` and `HashManifest` are two, as in
`load_sample_manifest`), and between any two of them someone may edit a file or
the process may die.  A case is `Validate` (the mirror against the manifest),
`HashSample`, `Upload` and `Launch`, where the worker compares what it launches
with what was declared.  An edit may come between any two actions, may be undone,
and may be of a file edited before.  In two places nothing compares the readings
on either side of an edit: the manifest copy is parsed and then read again for
its digest, and the mirror is checked against the manifest
(`multi_run.py:2253`) and then read again for the hash the run declares
(`single_run.py:579`), with the lock and the creation of files between.  `slips`
records the edits that fell there.  Assumed: one process at a time.  `Record` abstracts the burning that `MultiRun` details, and
`--rerun-failed` is, like `--resume`, a subset of the selection.

### CloudAdapter

`cloud` is the instance and its latest operation, `shown` what
`DescribeInstances` answers, a copy brought up to date at any later time
(`Sync`).  `Succeed` and `GoWrong` end an operation at any time or never.  `phase`
and `step` follow a run through the initial restore, the cleanup and the
emergency stop, as `single_run.py` strings the adapter's calls together:
`Check`, `Stop`/`AwaitStop`, `Precheck`, `Apply`/`AwaitRestore`,
`Start`/`AwaitStart`.  A look that is not answered, `FAILED`, and the deadline
raise (`Raise`); a request may be refused, or accepted and its answer lost
(`Submit`).  Request ids are only ever compared with the one waited for, so a
status has a flag, `mine`, for "the latest operation is that one", forgotten when
the wait ends.  A killed run leaves its operation to the next.  `Operator` is a
`cloud-*` command, which takes no lock.  The start after a restore in
`_restore_and_start_clean_instance` never comes about in real mode, since
`restore_snapshot` only returns when the instance runs.  Of the cloud the model
assumes what the adapter's prechecks do: one operation at a time, and a restore
only of a stopped instance; and that `DescribeInstances` leaves the operation's
state empty, which counts as ready, only for an instance that never had one.  A
request whose answer names no request id is matched by the name of its operation
(`named`).  `silent` counts the adapter's own sleeps since the
lock was refreshed, not the time of requests and salvage.

### How they fit together

`CaseContract` is the seam between a batch and its cases: the single run that
`MultiRun` steps through is the contract's, and `SingleRun`, with its requests,
retries and faults, implements it (`RunKeepsPromise`).  That a case deferred is
complete and a used instance never left in silence is shown by `SingleRun`
itself (`DeferredIsComplete`, `EndsSafe`).  What `SingleRun` assumes
of a cloud operation that returns, a restored instance that runs or a stopped
one, is what `CloudAdapter` shows (`CaseStartsRestored`, `OutcomeIsTrue`), as long
as no operator interferes.  `SingleRun` runs under
the lock of `InstanceLock` and uses of the Desktop Worker that one request
starts at most one process (`LeaseLaunchesOnce`).  `InstanceUse` composes the
preflight check with the locks of the cases, and `BatchesExclude` is proved of the
composition.  `GuestCase` takes from a collection what
`CollectionContract` says, which `Collectors` implements (`CollectorsKeepContract`).
`BatchInputs` says which bytes the cases are about whose results `MultiRun` keeps.

## 3. Runs

| run | question | result |
|---|---|---|
| `lock_exclusion` | how many runs do races and lapses let work at once, and is a dead run's lock replaced? | holds |
| `desktop_worker` | one launch at a time, one launch per lease and case, no invented exit, no window shut for ever? | holds |
| `desktop_worker_window` | is the window single if a case is polled during its launch? | violated |
| `multi_run` | clean launches, burns after results, kept results, final unsafe, ends? | holds |
| `multi_run_cleanup_claim` | is a batch reported restored really restored? | violated |
| `batch_exclusion` | do two batches on one instance exclude one another, with their cases and a standalone run? | holds |
| `instance_shared` | does the lock keep any two runs off one instance? | violated |
| `batch_inputs` | is what is launched what the plan lists, and a batch about one input? | holds |
| `single_run` | the contract's case, one launch, earned completion, reported end state, evidence first, ends? | holds |
| `guest_case` | is an all-clear backed, are reports and bundles current, is the execution kept? | holds |
| `collectors` | do the collectors keep the contract, report evidence, ignore old containers? | holds |
| `cloud_adapter` | does a case start restored, is the recorded cleanup so, how long is the lock silent, do runs end? | holds |

**Properties.**  Each is commented at its definition.  The type invariants are
conjuncts of the inductive ones.  `BatchInv`, `InputsInv` and `LockInv` are
checked by the runs.  `WorkerInv`, `ExclusionInv`, `RunInv`, `CaseInv`,
`AdapterInv` and `CollectorInv` are proved for every instance (section 4) and not
repeated as invariants of a run.

**Bounds.**

* `lock_exclusion`: three runs (a holder, a waiter and a taker are the most that
  meet in one takeover), one of which the operator may force; lifetime 2 and
  staleness 2 units, so that a lock goes stale and expires, together or apart
  (a heartbeat renews one and not the other); two crashes, so that the run that
  takes over from a dead run may die too.  Breaches are counted up to the number
  of runs, beyond which the bound says nothing.
* `desktop_worker`: two cases, two leases for the first (a repeated request with
  a new lease) and one for the second, two launch threads, one poller per case,
  one fault: a failed write, a restart or a new preparation.  Two faults
  exhaust the same outcomes in separate parts of the worker but not in five
  minutes; the theorems hold for any number.  The controller polls a case with
  one request after the other, hence one poller; the theorems hold for any number
  of pollers of a case, so that stale polls are covered by them.  The second case
  is not polled.
* `multi_run`: three cases (a first, a last and one between), all eight plans,
  two executions in all modes, two crashes or failed burns.
* `batch_exclusion`: two batches of one case and a standalone run on one instance,
  two attempts per case, so that a case can be run again after a crash; no bound
  on executions, crashes or expired locks.  The theorems hold for any number.
* `batch_inputs`: two files that are two samples or twice the same, two
  invocations in any mode, two edits of any files, one crash.  An edit and its
  undoing, an edit and a crash, or edits of two files that are compared with one
  another, meet in every order; the selection takes one of the samples or both.
* `collectors`: one case on each product, a log of two rows of the kinds the
  collector tells apart, each of before the case or since, three
  instants, a lag of one, and a query limit of one row so that the limit bites.
* `single_run`: one case, all options, any number of lost requests and
  reconnections.
* `guest_case`: two threads and one overlap, of a collection over another or over
  an execution, or a preparation over a collection, which read and rewrite the
  same files; and a second part without
  overlaps in which the sample may vanish and the product may not be ready.
  Every other choice (requests, their order and repetition, detections,
  removals, new preparations) is unbounded.
* `cloud_adapter`: two runs, so that the second meets what the first left under way
  or failed, one operator's command in the time of each, and three looks per wait
  (a first, one between, the last): an operation can end before, between and
  after them.
* The `violation` runs use the smallest instance with a counterexample.

**Deadlock** is checked where the system never stops (`lock_exclusion`,
`batch_exclusion`, `instance_shared`, `guest_case`, `collectors`).  In the others it does stop: the bound on
executions is used up and the run is over, or every case was launched.

**Fairness.**

* `InstanceLock`: runs take their next file operation and time passes; nothing
  is promised of heartbeats, failures or crashes.
* `DesktopWorker`: request threads and polls in flight go on (they are the thread
  pool's).  New polls and the controller's timeout come for the cases whose
  controller got its answer (`_poll_execution_status` loops until a terminal state
  or the timeout), not for the `Unwatched`, which may keep the window shut.
  Nothing is promised of the sample.
* `MultiRun`, `SingleRun`: the controller is one sequential program, weakly fair
  as a whole.  `CloudAdapter`: likewise, and the cloud need not do anything.  No
  outcome of a request or a cloud operation is promised, nor is
  any fault.

`RunEnds` names the one way in which a run does not end: in
`_poll_upload_status` (`single_run.py:1519-1544`) a query that is lost and
reconnects goes back to the start of the loop without testing the timeout, so
that a connection that flaps for ever keeps the run polling.  Every other
sequence of lost, refused and failed steps ends.

## 4. Proofs

`*_proofs.tla` hold the theorems; all are machine-checked to the last leaf, and
assume of the constants what the `ASSUME` of the component's module says and
what the theorem itself names.  The pattern is the same: an inductive invariant
`Inv`, `Init => Inv`, one step per action for `Inv /\ [Next]_vars => Inv'`, and
the properties as consequences of the invariant or of a step taken under it.

* **Exclusion_proofs**, the lock.  `OverlapIsBounded`: no more runs are at work on
  the instance than one and one for every breach, for any number of runs, limits,
  forced runs and crashes; without a breach, runs exclude one another.  It is not
  inductive: a run that lost its lock still refreshes and unlinks whatever file
  is there.  `LockInv` (`LockCorrect`) counts the runs at work that do not find
  their own file, and one more while a live run's lock is about to be taken over
  or written over, and says that they are no more than the breaches.  A stray
  heartbeat or release exchanges one such run for another.
* **DesktopWorker_proofs.** `WorkerCorrect`, `OneLaunchAtATime`, `LeaseOnce`,
  `CaseOnce`, for any cases, leases, threads and faults, if `Patient`.  The
  invariant ties the window to its launcher, nonces to launches, and the state
  file of a case to its launches.  `WindowKept` adds that a launch that is not
  stored yet, or has failed, leaves no handle behind.  `RecordedExitsAreTrue`:
  an exit on disk, or in what a poll of any number is about to
  write, was first seen by a handle of that very process.  The converse, that a
  recorded exit stays, is false (section 5).
* **MultiRun_proofs.** `BatchCorrect` and, from it, `LaunchesAreClean`,
  `BurnedMirrorsAreGone`, `LastCaseIsCleanedUp`, `EligibleResultsAreKept`,
  `UnsafeStaysUnused` and `BurnsArePersisted`, for any number of cases, executions
  and crashes.  The
  invariant says which cases the instance may have been used by at each step,
  that the state file is never ahead of the mirrors, and that an execution in
  progress never reaches a launch with an unsafe state.  Of the single run the
  proofs use `CaseContract` and nothing else.
* **Exclusion_proofs**, its users.  `ExclusionCorrect`, `OneBatchPerInstance`,
  assuming `OneProcessPerBatch`.  The invariant is the flag principle: of two
  processes past their listing, one still has the other to read, has seen it, or
  could not read it.  `OneBatchPerInstance` says it of `InstanceUse`, with the cases,
  their locks and standalone runs, whose steps the lemma `CasesKeepTheCheck` maps
  to steps of the check or to none.
* **BatchInputs_proofs.** `InputsCorrect`, `LaunchesAreListed` and
  `LaunchesShareInput`, for any samples, files, selections, executions, edits and
  crashes.  No digest is compared with the file it is about, only with another
  reading, so the invariant is about readings: where two that must agree were
  taken and no edit came between, they are equal, and `slips` says whether one
  came (`ReadingsAgree`); a state file once
  written keeps its manifest and plan (`StateSettles`); a planning process still
  holds what it wrote (`PlanningWhole`).  `OneInput` is then a property of the
  state file alone.  Indexing and selecting by rank in finite sets of numbers
  rest on `NthIsMember`, that every rank up to the size is attained: an
  injection of a finite set into one of its size is onto.
* **SingleRun_proofs.** `RunCorrect`, the four state properties and
  `NothingWipedUnsaved`, however often the connection is lost; "completed" includes
  that no request was given up to the network, and that the request to collect
  was answered, not that logs were obtained (section 5).  The invariant follows the one execution request
  (unsent, on its way, or served), what the flow has established at each step, and
  what the cleanup has done to the instance.  `RunKeepsPromise` is the refinement
  of `CaseContract`, any step of which is taken at one moment of the run: a launch
  when it is asked for, a return when the cleanup is over.  Its invariant
  `StageInv` says which steps are behind a run at each point; the proof sorts the
  steps by what the contract sees of them (`Advances`, `Fails`, `Settles`, `Still`).
  `UseIsAccountedFor`: the contract's `used` is no less than the truth, so that a
  dirty instance, a launch on its way and a sample launched are all in it, whatever
  the guest answered.
* **GuestCase_proofs.** `AllClearBacked`, for any number of threads and overlaps:
  no file and no request ever claims a start the worker did not make, or a clear
  log nobody read.  That a request may write back what it read long ago makes the
  invariant range over what requests hold as well as over files.
  `AllClearConditions` reads off the evaluator, for every input, what an
  all-clear implies.  `ReportsAreFresh`, `BundlesAgree` and `ExecutionIsKept` follow
  from a second invariant, `SequentialInv`: as long as no two requests have
  overlapped, one request is at work at most, what it holds is still on disk, and
  where it may end without a report of its own the last report is right.
* **CloudAdapter_proofs.** `CasesStartRestored`, `OutcomesAreTrue` and
  `SilenceIsBounded`, for any number of runs and looks.  `AdapterInv` adds that a
  status showing the end of one's own request is up to date, and that between the
  precheck and the restore no out-of-date status shows a running instance, which
  is why `already_running` may do without the request id.
* **Collectors_proofs.** `CollectorsKeepContract`, the refinement, with `EvidenceReported`
  and `OldContainerStaysIgnored`, for any products, rows, query limits, lags and
  window sizes.  `CollectorInv` says what a collection in progress has already
  missed or seen: a row it does not hold was written later, is behind the limit
  with an error, or was torn away.  The refinement assumes nothing of what earlier
  cases left; what a collection overlooks is part of the contract.

Model-checked only: the liveness properties (`OrphanIsReplaced`, `WindowReopens`,
`ExecutionEnds`, `RunEnds`, `RunReturns`), which this prover does not handle under
fairness.  Every other property of a passing run is a theorem.  The use of
`CaseContract` by `MultiRun` is by definition.

## 5. Where documents and code disagree

1. *One run per instance* (`instance_shared`).  ARCHITECTURE.md:145-146 says the
   lock prevents two runs from testing one instance.  It lies under `runs_dir`,
   and that is the attempt's own directory for every case of a batch.
2. *Single window* (`desktop_worker_window`).  The registry's docstring promises
   a single active execution window; a failed launch clears the window without
   looking at its owner.
3. *Restored means restored* (`multi_run_cleanup_claim`).  ARCHITECTURE.md says
   the batch end must still clean up after deferrals; if the last case fails
   before it has a cloud adapter, nothing does, and the state file says
   "restored".

Seven more were met on the way; none has a run of its own:

* *Lock race.*  `acquire_lock` looks for the file and writes it in two steps
  (`locks.py:55`, `:79`): two runs that start together both acquire.  Nor does a
  lock stay while its run cleans up, for the cleanup sends no heartbeat, and
  `release` (`locks.py:36`) unlinks a successor's file.  ARCHITECTURE.md:145-146
  has no such exceptions.  `BreachesBoundOverlap` says what remains of its promise.
* *Network errors.*  DEVELOPMENT.md:364-365 says they enter the failure path; a
  lost execution request does not (`single_run.py:2125`).  `CompletedMeansDone`
  shows that such a case is never plainly "completed".
* *Delivery stayed stable.*  GUEST_AGENT.md:426 allows an all-clear only if it
  did; the evaluator sees the last status query (`evaluator.py:193`).
* *Old rows of 360.*  COLLECTION_MODEL.md:248-251 ignores rows outside the window.
  360's collector takes a match by hash or path at any time
  (`qihoo_360/attribution.py:68-75`), as QIHOO_360_COLLECTOR.md:76-78, where time is
  only supporting evidence, would have it; the baseline that could tell old rows
  is never supplied.  So an earlier case of the same sample in the database is
  detected again.  The contract takes the collector's rule, and promises of 360
  no more than that such a row is there.
* *Silent gaps.*  COLLECTION_MODEL.md:275-276 prefers "unknown" to a confident false
  negative.  An event of Defender whose XML cannot be parsed is dropped without an
  error (`windows_defender/collector.py:133-135`), and a log.db copied across a
  checkpoint lacks rows: `overlooked` marks both, and both may end "clear".
* *Collected.*  The case goes on after any answer to the request to collect, one
  with `collection_state` "failed" or "partial" included, without a warning
  (`single_run.py:1136-1151`): a case is "completed" with no log read.  The
  evaluator sees the difference (`Incomplete`); `CompletedMeansDone` claims the
  answer and no more.
* *The launched bytes.*  The batch checks the mirror against the manifest, and the
  single run hashes it anew (`multi_run.py:2253`, `single_run.py:579`).  A mirror
  edited between is launched as what the single run declares, and no reading
  compares that with the manifest: the exception `slips` in `LaunchedAsListed`.

Five observations that contradict no document:

* `SilenceBounded` is exact, and with the defaults (ten minutes per wait, stale
  after fifteen) six waits are an hour: during a slow cleanup another run may take
  the lock over, a breach in the sense of `InstanceLock`.
* Two controllers of one batch also share its state file: the one that ends
  first writes "completed" while the other executes, and a third batch then
  passes preflight.  `OneBatchPerInstance` assumes one process per batch.
* A recorded exit of a sample can be lost again: a poll that read "running" earlier
  writes it back, and children of a process that got the same PID make the state
  "running" and the exit code None (`execution.py:302-315`).  So
  `RecordedExitHappened` holds and its converse does not.
* An execution request whose answer is lost is taken for "not started" and never
  polled (`single_run.py:1964-1995`).  If the worker did launch, its window stays
  shut until it restarts, which the restore of the cleanup does;
  `WindowReopens` excepts these cases (`Unwatched`).
* An operation that failed on a stopped instance makes every later restore fail
  at its precheck, and the emergency stop succeeds only if the cloud accepts a
  stop of a stopped instance.  Until then each run ends with both failed, as
  failing closed demands, and an operator has to start the instance.

## 6. What is left out

* Timing figures, aggregate statistics, report texts, redaction, archive layout:
  nothing reads them back.
* Authentication, signatures and validation of inputs: a refusal changes
  nothing; the models contain the requests that pass.
* Collectors: row formats and message texts, events that are only weak evidence
  (Tencent's icon and cache, 360's time matches) beyond their level, a stale
  write-ahead file that outlives its database, size levels of a cache, the
  dry-run probe.
* Readiness checks: the services, processes and registry keys they query.
* Execution launched by the Guest Agent itself: `main.py` always requires the
  Desktop Worker.  A preparation whose removal of the old workspace fails half way
  (`case_workspace.py:41`).
* The adapter's dry-run and mock modes, its confirmation gates (a refusal that
  changes nothing), and restricted instances, which are never ready.
* The grammar of a selection and the fields of a manifest line: reduced to the
  samples they choose.  Two processes that index or plan at the same time.
* More than two edits of a batch's files, in the run; the theorems know no bound.

## 7. Plan

Done, in the order of importance: InstanceLock, DesktopWorker, MultiRun,
BatchExclusion with InstanceUse, SingleRun, GuestCase with Evaluator,
CloudAdapter, Collectors with its contract, BatchInputs, CaseContract; all with
proofs.  What would come next:

1. **Refinements**: CollectionContract used by GuestCase as a component; what
   SingleRun assumes of the cloud as a contract that CloudAdapter implements.
2. **Preparation** of a case workspace that fails half way.
