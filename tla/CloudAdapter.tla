---------------------------- MODULE CloudAdapter ----------------------------
(***************************************************************************)
(* The Tencent Lighthouse adapter between a run and its instance:          *)
(* src/src/cloud_av_agent_lab/adapters/tencent_lighthouse/adapter.py, as   *)
(* _restore_and_start_clean_instance and _cleanup_instance of              *)
(* orchestration/single_run.py use it.                                     *)
(*                                                                         *)
(* A write is accepted at once and carried out later; the adapter asks     *)
(* DescribeInstances until it sees the end.  What DescribeInstances        *)
(* answers (`shown`) is a copy that may be out of date, any answer may be  *)
(* lost, a run may die, and an operator's cloud-start, cloud-stop,         *)
(* cloud-reboot and cloud-restore-snapshot take no lock.  Dry runs, the    *)
(* mock mode, unconfirmed instances, restricted instances (never ready)    *)
(* and deferred cleanups are left out.                                     *)
(***************************************************************************)
EXTENDS Naturals

CONSTANTS MaxWait,   \* sleeps between the first look of a wait and its last
          MaxRuns    \* bound on the runs

ASSUME AdapterAssumption == MaxWait \in Nat \ {0} /\ MaxRuns \in Nat

Operations == {"StartInstances", "StopInstances", "RebootInstances",
               "ApplyInstanceSnapshot"}

\* LighthouseInstanceStatus; "other" is every state but these two, and an
\* instance without an operation has an empty one.
Status == [state: {"STOPPED", "RUNNING", "other"},
           operation: Operations \cup {""},
           operationState: {"", "OPERATING", "SUCCESS", "FAILED"},
           mine: BOOLEAN]    \* LatestOperationRequestId is the one waited for

Steps == {"idle", "check", "stop", "stopping", "precheck", "apply", "settling",
          "start", "starting", "use"}

VARIABLES
  cloud,      \* the instance as it is
  shown,      \* the instance as DescribeInstances describes it
  clean,      \* it was restored and no sample has run on it since
  phase,      \* "initial" restore, "cleanup" restore or emergency "poweroff"
  step,       \* what the run does next
  named,      \* the last accepted request was answered with a RequestId
  waited,     \* the sleeps of the wait so far
  silent,     \* sleeps since the run refreshed its lock
  outcome,    \* what the last run recorded of its cleanup
  meddled,    \* an operator has used the instance since the run began
  runs

control == <<phase, step, waited, silent, outcome>>
vars == <<cloud, shown, clean, control, named, meddled, runs>>

TypeOK ==
  /\ cloud \in Status /\ shown \in Status
  /\ clean \in BOOLEAN /\ named \in BOOLEAN /\ meddled \in BOOLEAN
  /\ phase \in {"initial", "cleanup", "poweroff"}
  /\ step \in Steps
  /\ waited \in 0..MaxWait
  /\ silent \in Nat
  /\ outcome \in {"none", "restored", "stopped", "failed"}
  /\ runs \in 0..MaxRuns

Init ==
  /\ cloud \in [state: {"STOPPED", "RUNNING"}, operation: {"ApplyInstanceSnapshot"},
                operationState: {"SUCCESS", "FAILED"}, mine: {FALSE}]
               \cup [state: {"STOPPED", "RUNNING"}, operation: {""},
                     operationState: {""}, mine: {FALSE}]
  /\ shown = cloud
  /\ clean = FALSE
  /\ phase = "initial" /\ step = "idle"
  /\ named = TRUE
  /\ waited = 0
  /\ silent = 0
  /\ outcome = "none"
  /\ meddled = FALSE
  /\ runs = 0

-----------------------------------------------------------------------------
(* The control plane *)

\* One operation at a time, and a restore only of a stopped instance.
Accepts(operation, mine) ==
  /\ cloud.operationState # "OPERATING"
  /\ operation = "ApplyInstanceSnapshot" => cloud.state = "STOPPED"
  /\ \E state \in {cloud.state, "other"} :
       cloud' = [state |-> state, operation |-> operation,
                 operationState |-> "OPERATING", mine |-> mine]

\* Where a successful operation leaves the instance; a restore may start it.
Leaves(operation) ==
  CASE operation = "StopInstances" -> {"STOPPED"}
    [] operation = "ApplyInstanceSnapshot" -> {"STOPPED", "RUNNING"}
    [] OTHER -> {"RUNNING"}

Succeed ==
  /\ cloud.operationState = "OPERATING"
  /\ \E state \in Leaves(cloud.operation) :
       cloud' = [cloud EXCEPT !.operationState = "SUCCESS", !.state = state]
  /\ clean' = (clean \/ cloud.operation = "ApplyInstanceSnapshot")
  /\ UNCHANGED <<shown, control, named, meddled, runs>>

\* A failed operation may have done any part of its work.
GoWrong ==
  /\ cloud.operationState = "OPERATING"
  /\ \E state \in {cloud.state, "STOPPED", "RUNNING"} :
       cloud' = [cloud EXCEPT !.operationState = "FAILED", !.state = state]
  /\ clean' = (clean /\ cloud.operation # "ApplyInstanceSnapshot")
  /\ UNCHANGED <<shown, control, named, meddled, runs>>

Sync ==
  /\ shown # cloud
  /\ shown' = cloud
  /\ UNCHANGED <<cloud, clean, control, named, meddled, runs>>

\* A lifecycle or restore command, at most one in the time of a run.
Operator ==
  /\ runs > 0
  /\ ~meddled
  /\ meddled' = TRUE
  /\ \E operation \in Operations : Accepts(operation, FALSE)
  /\ UNCHANGED <<shown, clean, control, named, runs>>

-----------------------------------------------------------------------------
(* Control flow of a run *)

Goto(next) == step' = next /\ UNCHANGED <<phase, outcome>>

End(result) ==
  /\ step' = "idle"
  /\ outcome' = result
  /\ UNCHANGED phase

\* Seeded bug: a cleanup that fails is tried again.
RaiseAndRetry ==
  \/ phase \in {"initial", "cleanup"} /\ phase' = "cleanup" /\ step' = "check" /\ UNCHANGED outcome
  \/ phase = "poweroff" /\ End("failed")

\* CloudProviderError: the initial restore is followed by the cleanup, that by
\* the emergency stop, and there is nothing after that.
Raise ==
  \/ phase = "initial" /\ phase' = "cleanup" /\ step' = "check" /\ UNCHANGED outcome
  \/ phase = "cleanup" /\ phase' = "poweroff" /\ step' = "stop" /\ UNCHANGED outcome
  \/ phase = "poweroff" /\ End("failed")

\* lock.heartbeat() comes before every step of the initial restore, and the
\* cleanup has none.
Heartbeat == silent' = IF phase = "initial" THEN 0 ELSE silent

\* restore_snapshot returns.
RestoreReturns == IF phase = "initial" THEN Goto("use") ELSE End("restored")

\* A wait is over, and nobody compares with its request id any more.
Forget ==
  /\ cloud' = [cloud EXCEPT !.mine = FALSE]
  /\ shown' = [shown EXCEPT !.mine = FALSE]
  /\ waited' = 0

\* A new run; all that is left of the last one is its request to the cloud.
Begin ==
  /\ step = "idle" /\ runs < MaxRuns
  /\ runs' = runs + 1
  /\ phase' = "initial" /\ step' = "check"
  /\ silent' = 0 /\ outcome' = "none" /\ meddled' = FALSE
  /\ UNCHANGED <<cloud, shown, clean, named, waited>>

\* The run is killed.
Die ==
  /\ step # "idle"
  /\ End("none")
  /\ Forget
  /\ UNCHANGED <<clean, named, silent, meddled, runs>>

\* The case itself, which leaves the instance used.
Use ==
  /\ step = "use"
  /\ clean' \in {clean, FALSE}
  /\ phase' = "cleanup" /\ step' = "check" /\ silent' = 0
  /\ UNCHANGED <<cloud, shown, named, waited, outcome, meddled, runs>>

\* check_instance_status, cleanup_check_instance_status.
Check ==
  /\ step = "check"
  /\ Heartbeat
  /\ \/ Goto(IF shown.state = "RUNNING" THEN "stop" ELSE "precheck")
     \/ Raise
  /\ UNCHANGED <<cloud, shown, clean, named, waited, meddled, runs>>

-----------------------------------------------------------------------------
(* The adapter *)

\* A write request: accepted, its answer with a RequestId or without one; or
\* refused, or its answer lost.
Submit(operation, next) ==
  /\ \/ \E id \in BOOLEAN : named' = id /\ Accepts(operation, id) /\ Goto(next)
     \/ (Accepts(operation, FALSE) \/ UNCHANGED cloud) /\ Raise /\ UNCHANGED named
  /\ UNCHANGED <<shown, clean, waited, meddled, runs>>

\* Seeded bug: any operation of that name will do.
MatchesByName(operation) == shown.operation = operation

\* _matches_expected_operation: without an id, any operation of that name does.
MatchesExpected(operation) ==
  shown.operation = operation /\ (named => shown.mine)

\* Seeded bug: an operation that has not failed is good enough.
NotFailed == shown.operationState # "FAILED"

\* control_plane_ready
Ready == shown.operationState \in {"", "SUCCESS"}

\* Seeded bug: the deadline is counted from the last look.
KeepWaitingForever(seen) ==
  \/ /\ shown.operationState # "FAILED" /\ ~seen
     /\ waited' = 1 - waited
     /\ UNCHANGED <<cloud, shown, phase, step, silent, outcome>>
  \/ shown.operationState = "FAILED" /\ Raise /\ Forget /\ UNCHANGED silent

\* One look of a wait that has not seen what it waits for: FAILED and the
\* deadline raise, and so does a look that is not answered.
KeepWaiting(seen) ==
  \/ /\ shown.operationState # "FAILED" /\ ~seen
     /\ waited < MaxWait
     /\ waited' = waited + 1
     /\ silent' = silent + 1
     /\ UNCHANGED <<cloud, shown, phase, step, outcome>>
  \/ /\ shown.operationState = "FAILED" \/ (~seen /\ waited = MaxWait)
     /\ Raise /\ Forget /\ UNCHANGED silent
  \/ Raise /\ Forget /\ UNCHANGED silent

Wait(seen, next) ==
  /\ \/ seen /\ next /\ Forget /\ UNCHANGED silent
     \/ KeepWaiting(seen)
  /\ UNCHANGED <<clean, named, meddled, runs>>

\* wait_instance_statuses: the state asked for, after one's own request.
Reached(target, operation) ==
  shown.state = target /\ Ready /\ MatchesExpected(operation)

\* stop_vm, of a restore or of the emergency stop.
Stop ==
  /\ step = "stop"
  /\ Heartbeat
  /\ Submit("StopInstances", "stopping")

AwaitStop ==
  /\ step = "stopping"
  /\ Wait(Reached("STOPPED", "StopInstances"),
          IF phase = "poweroff" THEN End("stopped") ELSE Goto("precheck"))

\* _precheck_snapshot_restore
Precheck ==
  /\ step = "precheck"
  /\ Heartbeat
  /\ \/ shown.state = "STOPPED" /\ Ready /\ Goto("apply")
     \/ Raise
  /\ UNCHANGED <<cloud, shown, clean, named, waited, meddled, runs>>

Apply ==
  /\ step = "apply"
  /\ Submit("ApplyInstanceSnapshot", "settling")
  /\ UNCHANGED silent

\* _wait_snapshot_restore_settled: an instance that runs counts as restored,
\* whatever the request.
AwaitRestore ==
  /\ step = "settling"
  /\ LET restoreRequestSettled ==
           /\ shown.operation = "ApplyInstanceSnapshot" /\ shown.mine
           /\ shown.state \in {"STOPPED", "RUNNING"}
           /\ Ready
         alreadyRunning == shown.state = "RUNNING" /\ Ready
     IN  Wait(restoreRequestSettled \/ alreadyRunning,
              IF shown.state = "RUNNING" THEN RestoreReturns ELSE Goto("start"))

\* start_vm after a restore.
Start ==
  /\ step = "start"
  /\ Submit("StartInstances", "starting")
  /\ UNCHANGED silent

AwaitStart ==
  /\ step = "starting"
  /\ Wait(Reached("RUNNING", "StartInstances"), RestoreReturns)

-----------------------------------------------------------------------------
Adapter == Check \/ Stop \/ AwaitStop \/ Precheck \/ Apply \/ AwaitRestore
           \/ Start \/ AwaitStart \/ Use

ControlPlane == Succeed \/ GoWrong \/ Sync

Next == Adapter \/ ControlPlane \/ Operator \/ Begin \/ Die

\* A run takes its steps; the cloud promises nothing.
Spec == Init /\ [][Next]_vars /\ WF_vars(Adapter)

-----------------------------------------------------------------------------
(* Properties *)

Settled(state) == cloud.state = state /\ cloud.operationState = "SUCCESS"

\* When restore_snapshot returns and the case begins, the instance runs, has
\* been restored since a sample last ran on it, and no operation is under way:
\* an old status of DescribeInstances, or an instance that happens to run, is
\* not mistaken for a finished restore.  Only an operator's command may break
\* this, since already_running does not look at the request id.
CaseStartsRestored == step = "use" /\ ~meddled => Settled("RUNNING") /\ clean

\* What a run records of its cleanup is so: "restored" leaves a restored
\* instance running, "stopped" a stopped one, whatever failed, timed out or was
\* lost before.  "stopped" rests on the RequestId of the stop: without one, the
\* old status of an earlier stop is taken for its end.
OutcomeIsTrue ==
  step = "idle" /\ ~meddled =>
    /\ outcome = "restored" => Settled("RUNNING") /\ clean
    /\ outcome = "stopped" /\ named => Settled("STOPPED")

\* The lock is refreshed at least every six waits: two of a restore that fails
\* at the beginning, and then four of a cleanup, which has no heartbeat.  (The
\* adapter's own timeout makes that an hour, and a heartbeat is stale after
\* fifteen minutes.)
SilenceBounded == silent <= 6 * MaxWait

\* Whatever the cloud does or does not do, a run comes to its end.
RunReturns == step # "idle" ~> step = "idle"

-----------------------------------------------------------------------------
(* The invariant the proofs rest on *)

Waiting == step \in {"stopping", "settling", "starting"}

Awaited ==
  CASE step = "stopping" -> "StopInstances"
    [] step = "settling" -> "ApplyInstanceSnapshot"
    [] OTHER -> "StartInstances"

\* An id is compared only while a wait goes on, and then it is the id of the
\* latest operation, if that was answered with one, so that a status that shows
\* it ended is up to date.
RequestInv ==
  /\ ~Waiting => ~cloud.mine /\ ~shown.mine /\ waited = 0
  /\ ~meddled /\ Waiting =>
       /\ cloud.mine = named
       /\ cloud.operation = Awaited /\ cloud.operationState # ""
       /\ shown.mine /\ shown.operationState # "OPERATING" => shown = cloud

\* A status that shows a running instance is up to date when the restore is
\* submitted, and afterwards shows the restore; no start is shown but that which
\* follows it.
RestoreInv ==
  ~meddled =>
    /\ step = "apply" =>
         shown.state = "STOPPED" \/ shown.operationState = "OPERATING" \/ shown = cloud
    /\ step = "settling" =>
         /\ shown.state = "RUNNING" /\ Ready => shown = cloud
         /\ cloud.operationState = "SUCCESS" => clean
    /\ step = "start" =>
         /\ clean /\ cloud.operationState = "SUCCESS"
         /\ cloud.operation # "StartInstances" /\ shown.operation # "StartInstances"
    /\ step = "starting" =>
         /\ clean
         /\ shown.operation = "StartInstances" /\ shown.operationState # "OPERATING"
              => shown = cloud

\* The sleeps that may have passed without a heartbeat before this wait.
SleptBefore ==
  CASE phase = "initial" -> IF step \in {"start", "starting"} THEN MaxWait ELSE 0
    [] phase = "cleanup" /\ step \in {"check", "stop", "stopping"} -> 2 * MaxWait
    [] phase = "cleanup" /\ step \in {"precheck", "apply", "settling"} -> 3 * MaxWait
    [] phase = "cleanup" /\ step \in {"start", "starting"} -> 4 * MaxWait
    [] OTHER -> 5 * MaxWait

SilenceInv ==
  /\ step \notin {"idle", "use"} =>
       (phase = "initial" /\ step \in {"check", "stop", "precheck"})
       \/ silent <= SleptBefore + waited
  /\ SilenceBounded

PhaseInv ==
  /\ phase = "poweroff" => step \in {"stop", "stopping", "idle"}
  /\ step = "use" => phase = "initial"

\* The adapter's inductive invariant.
AdapterInv ==
  /\ TypeOK
  /\ RequestInv
  /\ RestoreInv
  /\ PhaseInv
  /\ SilenceInv
  /\ CaseStartsRestored
  /\ OutcomeIsTrue
=============================================================================
