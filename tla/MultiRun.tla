------------------------------ MODULE MultiRun ------------------------------
(***************************************************************************)
(* One multi-run batch: execute_multi_run_batch and what it calls in       *)
(* src/src/cloud_av_agent_lab/orchestration/multi_run.py.                  *)
(*                                                                         *)
(* An execution of the batch (run, --resume, --rerun-failed, --force-rerun)*)
(* loads multi_run_state.json, runs the selected cases one after the other *)
(* through the single-run primitive, persists each result, burns the       *)
(* indexed sample mirror of the case and persists again.  The controller   *)
(* may die between any two steps; what survives is the state file, the     *)
(* event log, the mirrors and the instance.                                *)
(*                                                                         *)
(* Cases are 1..N in selected order.  The instance is the set of cases     *)
(* whose sample may have run on it since its last snapshot restore.  What  *)
(* the single run of a case does is CaseContract, which SingleRun          *)
(* implements.                                                             *)
(***************************************************************************)
EXTENDS Naturals

CONSTANTS
  N,              \* number of selected samples
  MaxExecutions,  \* bound on executions of the batch
  MaxFaults,      \* bound on crashes and failed burns
  NoState         \* multi_run_state.json does not exist

Cases == 1..N
None == 0

Modes == {"run", "resume", "rerun_failed", "force_rerun"}

Plan == [deferred: BOOLEAN,   \* cleanup_strategy = "deferred"
         fastmode: BOOLEAN,   \* execution.fastmode
         stop: BOOLEAN]       \* failure_policy = "stop-on-case-failure"

CaseState ==
  [status: {"planned", "completed", "failed", "stopped_environment_failure"},
   cleanup: {"not_started", "skipped", "restored", "restore_failed",
             "deferred_to_next_case"},
   kind: {"none", "case_failure", "environment_failure"},
   indexed: {"available", "burned", "burn_failed"},
   eligible: BOOLEAN]         \* fastmode_eligible

Stopped == {"stopped_for_case_failure", "stopped_for_environment_failure"}
Completed == {"completed", "completed_with_case_failures"}

BatchState ==
  [batch: {"created", "running", "failed_preflight"} \cup Stopped \cup Completed,
   cases: [Cases -> CaseState],
   unsafe: BOOLEAN,           \* unsafe_to_continue
   cleanup: {"not_started", "restored", "restore_failed", "not_required"}]

ASSUME MultiRunAssumption ==
  /\ N \in Nat \ {0}
  /\ MaxExecutions \in Nat
  /\ MaxFaults \in Nat
  /\ NoState \notin BatchState

VARIABLES
  plan,        \* batch_plan.json, immutable
  disk,        \* multi_run_state.json
  log,         \* multi_run_events.jsonl: "whole", or "torn" by a crash
  mirror,      \* sample_index/indexed: "present" or "gone", per case
  vm,          \* samples that may have run on the instance since its restore
  pc,          \* where the execution is; "idle" when there is none
  mode,        \* its execution_mode
  mem,         \* its MultiRunState
  todo,        \* the run_indexes it has not begun
  index,       \* the case it is at
  reuse,       \* reuse_environment_from_case_id
  request,     \* skip_initial_restore and defer_final_cleanup of the case
  result,      \* the SingleRunRunnerResult of the case
  error,       \* case_error of the single run in progress
  executions, faults

files == <<disk, log, mirror>>
bounds == <<executions, faults>>
memory == <<mode, mem, todo, index, reuse, request, result, error>>
vars == <<plan, disk, log, mirror, vm, pc, mode, mem, todo, index, reuse,
          request, result, error, executions, faults>>

Case == INSTANCE CaseContract WITH
  stage <- pc, this <- index, used <- vm, outcome <- result

InSingleRun == Case!InSingleRun
NoResult == Case!NoOutcome

Running == {"preflight", "select", "record", "burn", "rewrite", "burn_rest"}
             \cup InSingleRun

Planned == [status |-> "planned", cleanup |-> "not_started", kind |-> "none",
            indexed |-> "available", eligible |-> FALSE]

Initial == [batch |-> "created", cases |-> [c \in Cases |-> Planned],
            unsafe |-> FALSE, cleanup |-> "not_started"]

TypeOK ==
  /\ plan \in Plan
  /\ disk \in BatchState \cup {NoState}
  /\ log \in {"whole", "torn"}
  /\ mirror \in [Cases -> {"present", "gone"}]
  /\ vm \subseteq Cases
  /\ pc \in Running \cup {"idle"}
  /\ mode \in Modes
  /\ mem \in BatchState
  /\ todo \subseteq Cases
  /\ index \in Cases \cup {None}
  /\ reuse \in Cases \cup {None}
  /\ request \in [skip: BOOLEAN, defer: BOOLEAN]
  /\ result \in Case!Outcomes
  /\ error \in BOOLEAN
  /\ executions \in 0..MaxExecutions
  /\ faults \in 0..MaxFaults

NoRequest == [skip |-> FALSE, defer |-> FALSE]

\* The process has ended; what it had in memory is gone.
End ==
  /\ pc' = "idle"
  /\ mode' = "run" /\ mem' = Initial /\ todo' = {} /\ index' = None
  /\ reuse' = None /\ request' = NoRequest /\ result' = NoResult /\ error' = FALSE

Init ==
  /\ plan \in Plan
  /\ disk = NoState
  /\ log = "whole"
  /\ mirror = [c \in Cases |-> "present"]
  /\ vm = {}
  /\ pc = "idle"
  /\ mode = "run"
  /\ mem = Initial
  /\ todo = {}
  /\ index = None
  /\ reuse = None
  /\ request = NoRequest
  /\ result = NoResult
  /\ error = FALSE
  /\ executions = 0
  /\ faults = 0

-----------------------------------------------------------------------------
(* Starting an execution *)

\* _case_resume_eligible
ResumeEligible(case) ==
  case.status = "completed" /\ case.kind = "none" /\ case.cleanup = "restored"

\* Seeded bug: resume runs a completed case again.
ShouldRunAll(case, m) == m # "rerun_failed" \/ case.kind = "case_failure"

\* _should_run_case_for_mode
ShouldRun(case, m) ==
  CASE m \in {"run", "force_rerun"} -> TRUE
    [] m = "resume" -> ~ResumeEligible(case)
    [] m = "rerun_failed" -> case.kind # "environment_failure"
                             /\ (case.kind = "case_failure" \/ case.status = "failed")

\* Seeded bug: the safety verdict of an earlier execution is not looked at.
MayExecuteUnsafe(m) ==
  IF m = "run" THEN disk = NoState
  ELSE /\ disk # NoState
       /\ \A c \in Cases : ShouldRun(disk.cases[c], m) => disk.cases[c].indexed # "burned"

\* `run` plans a batch directory only once; the other modes go through
\* _ensure_existing_batch_can_execute, which never looks at batch_state.
MayExecute(m) ==
  IF m = "run" THEN disk = NoState
  ELSE /\ disk # NoState
       /\ ~disk.unsafe
       /\ \A c \in Cases : ShouldRun(disk.cases[c], m) => disk.cases[c].indexed # "burned"

Opened(m) == [(IF m = "run" THEN Initial ELSE disk) EXCEPT !.batch = "running"]

\* The state file says "running" before the first event is appended, and a
\* torn event log raises there.
Start(m) ==
  /\ pc = "idle"
  /\ executions < MaxExecutions
  /\ MayExecute(m)
  /\ executions' = executions + 1
  /\ disk' = Opened(m)
  /\ IF log = "torn" THEN End
     ELSE /\ mode' = m
          /\ mem' = Opened(m)
          /\ todo' = {c \in Cases : ShouldRun(Opened(m).cases[c], m)}
          /\ pc' = "preflight"
          /\ UNCHANGED <<index, reuse, request, result, error>>
  /\ UNCHANGED <<plan, log, mirror, vm, faults>>

PreflightPasses ==
  /\ pc = "preflight"
  /\ pc' = "select"
  /\ UNCHANGED <<plan, files, vm, memory, bounds>>

PreflightFails ==
  /\ pc = "preflight"
  /\ disk' = [mem EXCEPT !.batch = "failed_preflight", !.cleanup = "not_required"]
  /\ End
  /\ UNCHANGED <<plan, log, mirror, vm, bounds>>

-----------------------------------------------------------------------------
(* One case: the request and the single run *)

\* Seeded bug: the last selected case, not the last one to run, is never
\* deferred.
DefersSelected(c, rest) == (plan.deferred \/ plan.fastmode) /\ c # N

\* _should_defer_case_cleanup: rest is what runs after c.
Defers(c, rest) == (plan.deferred \/ plan.fastmode) /\ rest # {}

First(c, S) == c \in S /\ \A x \in S : c <= x

\* Seeded bug: the reuse of an environment is not forgotten once requested.
SelectKeepsReuse(c) ==
  /\ pc = "select"
  /\ First(c, todo)
  /\ index' = c
  /\ todo' = todo \ {c}
  /\ request' = [skip |-> reuse # None, defer |-> Defers(c, todo')]
  /\ result' = NoResult
  /\ error' = FALSE
  /\ pc' = "single"
  /\ UNCHANGED <<plan, files, vm, mode, mem, reuse, bounds>>

\* The next case of run_indexes, its attempt directory and its request.
Select(c) ==
  /\ pc = "select"
  /\ First(c, todo)
  /\ index' = c
  /\ todo' = todo \ {c}
  /\ request' = [skip |-> reuse # None, defer |-> Defers(c, todo')]
  /\ reuse' = None
  /\ result' = NoResult
  /\ error' = FALSE
  /\ pc' = "single"
  /\ UNCHANGED <<plan, files, vm, mode, mem, bounds>>

\* What the batch has besides and the single run does not touch.
scheduler == <<plan, files, mode, mem, todo, reuse, bounds>>

RunnerRaises == Case!Raises /\ UNCHANGED scheduler

\* The runner raises if the mirror is missing, before anything else.
MirrorFound == mirror[index] = "present" /\ UNCHANGED scheduler

FailBeforeAdapter == Case!FailsEarly /\ MirrorFound

\* _restore_and_start_clean_instance, or the fastmode reuse in its place.
PrepareInstance == Case!Prepares /\ MirrorFound

PrepareInstanceFails == Case!PrepareFails /\ MirrorFound

LaunchSample == Case!Launches /\ UNCHANGED scheduler

\* The steps of the case end, with an error or without.
EndSteps == Case!Closes /\ UNCHANGED scheduler

DeferCleanup == Case!Defers /\ UNCHANGED scheduler

CleanupRestores == Case!Restores /\ UNCHANGED scheduler

CleanupFails == Case!CleanupFails /\ UNCHANGED scheduler

-----------------------------------------------------------------------------
(* One case: what the batch makes of the result *)

\* to_case_state: the mirror's own mark is set later.
CaseOf(outcome, gate) ==
  [status |-> outcome.status, cleanup |-> outcome.cleanup, kind |-> outcome.kind,
   indexed |-> "available", eligible |-> gate]

WithCase(m, c, case) == [m EXCEPT !.cases = [m.cases EXCEPT ![c] = case]]
Marked(case, mark) == [case EXCEPT !.indexed = mark]

\* The batch state with the result of the current case in it.
WithResult(case) ==
  WithCase([mem EXCEPT !.unsafe = @ \/ case.cleanup = "restore_failed"], index, case)

\* Seeded bugs: the burn is attempted before the result is persisted, and the
\* state says "burned" before the mirror is gone.
RecordAndBurn ==
  /\ pc = "record"
  /\ mem' = WithResult(CaseOf(result, FALSE))
  /\ mirror' = [mirror EXCEPT ![index] = "gone"]
  /\ pc' = "burn"
  /\ UNCHANGED <<plan, disk, log, vm, mode, todo, index, reuse, request, result, error, bounds>>

RecordBurned ==
  /\ pc = "record"
  /\ mem' = WithResult(Marked(CaseOf(result, FALSE), "burned"))
  /\ disk' = mem'
  /\ pc' = "burn"
  /\ UNCHANGED <<plan, log, mirror, vm, mode, todo, index, reuse, request, result, error, bounds>>

\* The fastmode gate opens for a result without failure whose verdict is a
\* clean one of high confidence; then the case is persisted.
Record ==
  /\ pc = "record"
  /\ \E clean \in BOOLEAN :
       LET gate == plan.fastmode /\ result.kind = "none" /\ clean
       IN  /\ mem' = WithResult(CaseOf(result, gate))
           /\ reuse' = IF gate /\ todo # {} THEN index ELSE reuse
  /\ disk' = mem'
  /\ pc' = "burn"
  /\ UNCHANGED <<plan, log, mirror, vm, mode, todo, index, request, result, error, bounds>>

\* _burn_indexed_sample_path: unlink the mirror, then write the placeholder or
\* the failed marker; either may raise OSError.
BurnOutcome(c, mark) ==
  \/ /\ mark = "burned"
     /\ mirror' = [mirror EXCEPT ![c] = "gone"]
     /\ UNCHANGED faults
  \/ /\ mark = "burn_failed"
     /\ mirror' \in {mirror, [mirror EXCEPT ![c] = "gone"]}
     /\ faults < MaxFaults
     /\ faults' = faults + 1

\* Every result is terminal and either complete (summary and evidence saved)
\* or a failure, so every result burns its mirror.
Burn ==
  /\ pc = "burn"
  /\ \E mark \in {"burned", "burn_failed"} :
       /\ BurnOutcome(index, mark)
       /\ mem' = WithCase(mem, index, Marked(mem.cases[index], mark))
  /\ pc' = "rewrite"
  /\ UNCHANGED <<plan, disk, log, vm, mode, todo, index, reuse, request, result, error, executions>>

\* Seeded bug: an environment failure does not stop the batch.
StopsOnCaseFailureOnly(case) == case.kind = "case_failure" /\ plan.stop

\* _stop_state_for_result
Stops(case) ==
  \/ case.kind = "environment_failure"
  \/ case.kind = "case_failure" /\ plan.stop

Rewrite ==
  /\ pc = "rewrite"
  /\ disk' = mem
  /\ pc' = IF Stops(result) THEN "burn_rest" ELSE "select"
  /\ UNCHANGED <<plan, log, mirror, vm, mode, mem, todo, index, reuse, request, result, error, bounds>>

Available == {c \in Cases : mem.cases[c].indexed = "available"}

\* Seeded bug: the state does not learn that the mirror was burned.
BurnRestForgets(c) ==
  /\ pc = "burn_rest"
  /\ First(c, Available)
  /\ BurnOutcome(c, "burned")
  /\ UNCHANGED <<plan, disk, log, vm, pc, mode, mem, todo, index, reuse, request, result, error, executions>>

\* _burn_available_indexed_samples_after_batch_stop, one sample at a time.
BurnRest(c) ==
  /\ pc = "burn_rest"
  /\ First(c, Available)
  /\ \E mark \in {"burned", "burn_failed"} :
       /\ BurnOutcome(c, mark)
       /\ mem' = WithCase(mem, c, Marked(mem.cases[c], mark))
  /\ UNCHANGED <<plan, disk, log, vm, pc, mode, todo, index, reuse, request, result, error, executions>>

-----------------------------------------------------------------------------
(* The end of an execution *)

\* _terminal_batch_cleanup_status
TerminalCleanup(batch, m) ==
  IF \/ m.unsafe
     \/ batch = "stopped_for_environment_failure"
     \/ \E c \in Cases : m.cases[c].cleanup = "restore_failed"
  THEN "restore_failed"
  ELSE IF \E c \in Cases : m.cases[c].cleanup \in {"restored", "deferred_to_next_case"}
  THEN "restored"
  ELSE "not_required"

Terminate(batch) ==
  /\ disk' = [mem EXCEPT !.batch = batch, !.cleanup = TerminalCleanup(batch, mem)]
  /\ End
  /\ UNCHANGED <<plan, log, mirror, vm, bounds>>

FinishStopped ==
  /\ pc = "burn_rest"
  /\ Available = {}
  /\ Terminate(IF result.kind = "case_failure" THEN "stopped_for_case_failure"
               ELSE "stopped_for_environment_failure")

\* _completed_batch_state, its "with warnings" variant left out.
FinishCompleted ==
  /\ pc = "select"
  /\ todo = {}
  /\ Terminate(IF \E c \in Cases : mem.cases[c].kind = "case_failure"
                                   \/ mem.cases[c].status = "failed"
               THEN "completed_with_case_failures" ELSE "completed")

\* The controller dies (or an exception that nothing catches ends it), perhaps
\* in the middle of a line of the event log.  An in-flight single run is gone
\* with it and leaves the instance as it is.
Crash ==
  /\ pc # "idle"
  /\ faults < MaxFaults
  /\ faults' = faults + 1
  /\ log' \in {log, "torn"}
  /\ End
  /\ UNCHANGED <<plan, disk, mirror, vm, executions>>

CaseStep ==
  \/ RunnerRaises \/ FailBeforeAdapter \/ PrepareInstance
  \/ PrepareInstanceFails \/ LaunchSample \/ EndSteps
  \/ DeferCleanup \/ CleanupRestores \/ CleanupFails

RunCase == CaseStep \/ \E c \in Cases : Select(c)

Step ==
  \/ PreflightPasses \/ PreflightFails \/ RunCase
  \/ Record \/ Burn \/ Rewrite \/ (\E c \in Cases : BurnRest(c))
  \/ FinishStopped \/ FinishCompleted

Next ==
  \/ \E m \in Modes : Start(m)
  \/ Step
  \/ Crash

Spec == Init /\ [][Next]_vars

\* The controller is one sequential program: while it lives it goes on.
FairSpec == Spec /\ WF_vars(Step)

-----------------------------------------------------------------------------
(* Properties *)

\* Before a sample is launched, the instance was restored, or used since its
\* last restore only by cases that passed the fastmode gate in this batch: no
\* detection is ever attributed to an environment another sample changed.
CleanLaunch ==
  pc = "sample" => \A c \in vm : mem.cases[c].eligible

\* multi_run_state.json never claims a mirror was burned that still exists,
\* whatever the moment of a crash.
BurnedMirrorIsGone ==
  disk # NoState =>
    \A c \in Cases : disk.cases[c].indexed = "burned" => mirror[c] = "gone"

\* A mirror is destroyed only after a result of its own case was persisted, or
\* when a persisted result of another case stopped the batch.
BurnNeedsPersistedResult ==
  [][ \A c \in Cases :
        mirror[c] = "present" /\ mirror'[c] = "gone" =>
          \/ disk.cases[c].status # "planned"
          \/ \E x \in Cases : Stops(disk.cases[x]) ]_vars

\* A batch never ends with its last case deferred to a next one.
LastCaseNotDeferred ==
  [][ disk' # disk /\ disk'.batch \in Stopped \cup Completed /\ index # None =>
        disk'.cases[index].cleanup # "deferred_to_next_case" ]_vars

\* A complete, restored result in the state file is only ever replaced by an
\* operator's --force-rerun.
EligibleResultKept ==
  [][ \A c \in Cases :
        disk # NoState /\ ResumeEligible(disk.cases[c]) /\ mode # "force_rerun" =>
          ResumeEligible(disk'.cases[c]) ]_vars

\* Once the state file says the environment is unsafe, no sample is launched
\* on the instance in any later execution.
UnsafeIsFinal ==
  [][ disk # NoState /\ disk.unsafe => vm' \subseteq vm ]_vars

\* An execution ends, whatever its cases return.
ExecutionEnds == pc # "idle" ~> pc = "idle"

\* "The batch end / failure path must still perform final cleanup or emergency
\* stop": a batch that ends and reports its instance restored left it restored.
RestoredMeansRestored ==
  pc = "idle" /\ disk # NoState /\ disk.batch \in Stopped \cup Completed
    /\ disk.cleanup = "restored"
  => vm = {}

-----------------------------------------------------------------------------
(* The inductive invariant behind the safety properties.                    *)

Holding == InSingleRun \cup {"record"}

\* The samples on the instance passed the gate, exc apart.
OnlyEligible(exc) == \A c \in vm \ exc : mem.cases[c].eligible

ReuseIsSafe ==
  /\ pc \in Holding \cup {"idle", "preflight"} => reuse = None
  /\ reuse # None => OnlyEligible({})
  /\ pc = "single" /\ request.skip => OnlyEligible({})
  /\ pc = "sample" => OnlyEligible({})
  /\ pc = "launched" => OnlyEligible({index})
  /\ pc = "cleanup" /\ ~error => OnlyEligible({index})
  /\ pc = "record" /\ result.kind = "none" => OnlyEligible({index})

MirrorsMatch ==
  \A c \in Cases :
    /\ mem.cases[c].indexed = "burned" => mirror[c] = "gone"
    /\ disk # NoState /\ disk.cases[c].indexed = "burned" => mirror[c] = "gone"

\* What a result may say.
ResultIsSane ==
  /\ result.cleanup = "restore_failed" => result.kind = "environment_failure"
  /\ result.cleanup = "deferred_to_next_case" => result.kind = "none"
  /\ pc \in {"record", "burn", "rewrite"} /\ result.cleanup = "deferred_to_next_case" =>
       todo # {}
  /\ pc = "burn_rest" => Stops(result)
  /\ pc \in {"burn", "rewrite", "burn_rest"} =>
       /\ mem.cases[index].cleanup = result.cleanup
       /\ mem.cases[index].kind = result.kind
       /\ mem.cases[index].status = result.status

IndexSane ==
  /\ pc \in Holding \cup {"burn", "rewrite", "burn_rest"} => index # None
  /\ pc \in {"idle", "preflight"} => index = None
  /\ index \notin todo
  /\ pc \in Holding => (request.defer => todo # {})
  /\ pc # "idle" => mem.batch = "running"
  /\ pc = "select" /\ index # None =>
       (mem.cases[index].cleanup = "deferred_to_next_case" => todo # {})

UnsafeStops ==
  /\ disk # NoState /\ disk.unsafe => pc \in {"idle", "burn", "rewrite", "burn_rest"}
  /\ pc \in Holding \cup {"preflight", "select"} => ~mem.unsafe
  /\ pc \in {"burn", "rewrite"} /\ mem.unsafe => result.kind = "environment_failure"

EligibleUntouched ==
  pc # "idle" =>
    /\ disk # NoState
    /\ mode # "force_rerun" =>
         /\ \A c \in Cases :
              ResumeEligible(disk.cases[c]) => ResumeEligible(mem.cases[c])
         /\ \A c \in todo : ~ResumeEligible(mem.cases[c])
         /\ pc \in Holding => ~ResumeEligible(mem.cases[index])

BatchInv ==
  /\ TypeOK
  /\ ReuseIsSafe
  /\ MirrorsMatch
  /\ ResultIsSane
  /\ IndexSane
  /\ UnsafeStops
  /\ EligibleUntouched

=============================================================================
