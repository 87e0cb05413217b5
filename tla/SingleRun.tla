----------------------------- MODULE SingleRun -----------------------------
(***************************************************************************)
(* One real single-run case under the instance lock:                       *)
(* _run_single_case_locked and what it calls in                            *)
(* src/src/cloud_av_agent_lab/orchestration/single_run.py, against a guest *)
(* whose agent answers, refuses, or is not heard of.                       *)
(*                                                                         *)
(* A request whose answer is lost may never have arrived, may have been    *)
(* served, or may be served later (`late`): the guest's worker threads do  *)
(* not know that the client gave up.  The cloud adapter is used through    *)
(* what restore_snapshot and stop_vm promise.  Probes, cooldowns and the   *)
(* timing data of run_state.json are left out.                             *)
(***************************************************************************)
EXTENDS Naturals

Flow == {"config", "restore", "ready", "prepare", "readiness", "upload",
         "poll_upload", "execute", "observe", "delay", "collect", "summary",
         "export"}
Finally == {"finally", "salvage", "cleanup", "poweroff", "finish"}
Ended == {"done", "raised", "dead"}

Requests == {"prepare", "upload", "execute"}

Guest == [case: BOOLEAN,                        \* the case workspace exists
          sample: {"none", "stored", "gone"}]

Run == [started: BOOLEAN,      \* case_started
        evidence: {"skipped", "saved", "failed"},   \* evidence_export_status
        warned: BOOLEAN,       \* warning_count > 0
        error: BOOLEAN,        \* case_error is set
        upload: {"none", "stable", "removed_after_save", "other"},
        action: {"none", "skipped", "not_started", "observed",
                 "observation_unavailable"},
        cleanup: {"skipped", "restored", "restore_failed",
                  "deferred_to_next_case"},
        poweroff: {"not_needed", "skipped", "stopped", "failed"},
        status: {"pending", "completed", "completed_with_warnings",
                 "completed_with_cleanup_warning", "failed",
                 "failed_cleanup_failed"}]

VARIABLES
  options,      \* skip_initial_restore, defer_final_cleanup
  pc,           \* the step of the run
  again,        \* the request of this step was lost and is repeated; while the
                \* upload is polled, its parity
  run,          \* run_state.json
  steps,        \* its steps with status "ok"
  adapter,      \* the cloud adapter has been created
  interrupted,  \* Ctrl-C: finally runs, then the exception goes on
  locked,       \* the instance lock is held
  guest, late,
  vm,           \* the instance: running, and used since its last restore
  launches,     \* how often the sample of this case was launched
  lost          \* a request was given up because the network failed

world == <<guest, late, vm, launches>>
vars == <<options, pc, again, run, steps, adapter, interrupted, locked, guest,
          late, vm, launches, lost>>

TypeOK ==
  /\ options \in [skip: BOOLEAN, defer: BOOLEAN]
  /\ pc \in Flow \cup Finally \cup Ended
  /\ again \in BOOLEAN
  /\ run \in Run
  /\ steps \subseteq Flow
  /\ adapter \in BOOLEAN /\ interrupted \in BOOLEAN
  /\ locked \in BOOLEAN /\ lost \in BOOLEAN
  /\ guest \in Guest
  /\ late \subseteq Requests
  /\ vm \in [on: BOOLEAN, dirty: BOOLEAN]
  /\ launches \in Nat

Clean == [case |-> FALSE, sample |-> "none"]

Init ==
  /\ options \in [skip: BOOLEAN, defer: BOOLEAN]
  /\ pc = "config"
  /\ again = FALSE
  /\ run = [started |-> FALSE, evidence |-> "skipped", warned |-> FALSE,
            error |-> FALSE, upload |-> "none", action |-> "none",
            cleanup |-> "skipped", poweroff |-> "not_needed", status |-> "pending"]
  /\ steps = {}
  /\ adapter = FALSE
  /\ interrupted = FALSE
  /\ locked = TRUE
  /\ guest = Clean
  /\ late = {}
  /\ vm \in [on: BOOLEAN, dirty: BOOLEAN]
  /\ launches = 0
  /\ lost = FALSE

-----------------------------------------------------------------------------
(* Control flow *)

\* The step ends well.
Proceed(next) ==
  /\ pc' = next
  /\ steps' = steps \cup {pc}
  /\ again' = FALSE

\* An exception of the step becomes case_error.
Fail ==
  /\ pc' = "finally"
  /\ run' = [run EXCEPT !.error = TRUE]
  /\ again' = FALSE
  /\ UNCHANGED steps

Warn(w) == [run EXCEPT !.warned = @ \/ w]

\* The evidence may have arrived when the step that exports it breaks off.
Evidence == {run.evidence} \cup (IF pc = "export" THEN {"saved"} ELSE {})

\* A lock heartbeat or a write of run_state.json, the generated configuration
\* or the summary raises OSError; after the collection only the heartbeat is
\* forgiven.
LocalError ==
  /\ pc \in Flow
  /\ \E e \in Evidence : run' = [run EXCEPT !.evidence = e, !.error = TRUE]
  /\ pc' = "finally"
  /\ again' = FALSE
  /\ UNCHANGED <<options, steps, adapter, interrupted, locked, world, lost>>

\* Ctrl-C is not an Exception: it is no case_error.
Interrupt ==
  /\ pc \in Flow
  /\ \E e \in Evidence : run' = [run EXCEPT !.evidence = e]
  /\ pc' = "finally"
  /\ interrupted' = TRUE
  /\ again' = FALSE
  /\ UNCHANGED <<options, steps, adapter, locked, world, lost>>

-----------------------------------------------------------------------------
(* The guest agent *)

\* What the guest does when it serves a request; `prepare` starts the case
\* anew whatever there was, `execute` needs the sample.
Served(request) ==
  CASE request = "prepare" ->
         /\ guest' = [Clean EXCEPT !.case = TRUE]
         /\ UNCHANGED <<vm, launches>>
    [] request = "upload" ->
         /\ guest' = IF guest.case THEN [guest EXCEPT !.sample = "stored"] ELSE guest
         /\ UNCHANGED <<vm, launches>>
    [] request = "execute" /\ guest.sample = "stored" ->
         /\ vm' = [vm EXCEPT !.dirty = TRUE]
         /\ launches' = launches + 1
         /\ UNCHANGED guest
    [] OTHER -> UNCHANGED <<guest, vm, launches>>

\* A request that was given up is served after all.
ServeLate(request) ==
  /\ vm.on
  /\ request \in late
  /\ late' = late \ {request}
  /\ Served(request)
  /\ UNCHANGED <<options, pc, again, run, steps, adapter, interrupted, locked, lost>>

\* The security product removes the uploaded file.
ProductRemoves ==
  /\ vm.on
  /\ guest.sample = "stored"
  /\ guest' = [guest EXCEPT !.sample = "gone"]
  /\ UNCHANGED <<options, pc, again, run, steps, adapter, interrupted, locked,
                 late, vm, launches, lost>>

\* Lost: the answer is, and perhaps the request.
Unheard(request) ==
  \/ vm.on /\ Served(request) /\ UNCHANGED late
  \/ /\ late' = IF vm.on /\ request \in Requests THEN late \cup {request} ELSE late
     /\ UNCHANGED <<guest, vm, launches>>

\* _call_guest_with_reconnect, its first attempt: lost, and the agent's health
\* comes back.
Repeat(request) ==
  /\ ~again
  /\ vm.on
  /\ Unheard(request)
  /\ again' = TRUE
  /\ UNCHANGED <<options, pc, run, steps, adapter, interrupted, locked, lost>>

\* The request is given up.
GiveUp(request) ==
  /\ Unheard(request)
  /\ lost' = TRUE
  /\ Fail
  /\ UNCHANGED <<options, adapter, interrupted, locked>>

\* The guest refuses, changing nothing.
Refused ==
  /\ vm.on
  /\ Fail
  /\ UNCHANGED <<options, adapter, interrupted, locked, world, lost>>

Answered(request, next, record) ==
  /\ vm.on
  /\ Served(request)
  /\ run' = record
  /\ Proceed(next)
  /\ UNCHANGED <<options, adapter, interrupted, locked, late, lost>>

Call(request, next, record) ==
  \/ Answered(request, next, record)
  \/ Refused
  \/ Repeat(request)
  \/ GiveUp(request)

-----------------------------------------------------------------------------
(* The steps *)

\* hash_sample, write_generated_config, and the objects made of it.
Configure ==
  /\ pc = "config"
  /\ adapter' = TRUE
  /\ Proceed("restore")
  /\ UNCHANGED <<options, run, interrupted, locked, world, lost>>

Restored ==
  /\ vm' = [on |-> TRUE, dirty |-> FALSE]
  /\ guest' = Clean
  /\ late' = {}

\* An operation of the cloud fails: nothing of it has been carried out, the stop
\* only, the restore but not the start, or all of it.
CloudFailure ==
  \/ UNCHANGED <<vm, guest, late>>
  \/ vm' = [vm EXCEPT !.on = FALSE] /\ late' = {} /\ UNCHANGED guest
  \/ vm' = [on |-> FALSE, dirty |-> FALSE] /\ late' = {} /\ guest' = Clean
  \/ Restored

\* _restore_and_start_clean_instance, or _mark_initial_restore_skipped.
Restore ==
  /\ pc = "restore"
  /\ \/ options.skip /\ Proceed("ready") /\ UNCHANGED <<run, vm, guest, late>>
     \/ ~options.skip /\ Restored /\ Proceed("ready") /\ UNCHANGED run
     \/ ~options.skip /\ CloudFailure /\ Fail
  /\ UNCHANGED <<options, adapter, interrupted, locked, launches, lost>>

\* wait_guest_agent_ready, wait_desktop_worker_ready and settling_cooldown:
\* the agent answers in time or not; the warm-up only warns.
WaitReady ==
  /\ pc = "ready"
  /\ \/ vm.on /\ Proceed("prepare") /\ (\E w \in BOOLEAN : run' = Warn(w))
     \/ Fail
  /\ UNCHANGED <<options, adapter, interrupted, locked, world, lost>>

Prepare ==
  /\ pc = "prepare"
  /\ Call("prepare", "readiness", [run EXCEPT !.started = TRUE])

\* Readiness is warning-only, whatever happens.
CheckReadiness ==
  /\ pc = "readiness"
  /\ \E w \in BOOLEAN : run' = Warn(w)
  /\ Proceed("upload")
  /\ UNCHANGED <<options, adapter, interrupted, locked, world, lost>>

Upload ==
  /\ pc = "upload"
  /\ Call("upload", "poll_upload", run)

\* _poll_upload_status: it returns at the timeout, or when the file is gone;
\* a lost query is repeated as often as the agent reconnects, the timeout
\* notwithstanding.
PollUpload ==
  /\ pc = "poll_upload"
  /\ \/ \E state \in {"stable", "removed_after_save", "other"} :
          /\ vm.on
          /\ (state = "removed_after_save") = (guest.sample = "gone")
          /\ state = "stable" => guest.sample = "stored"
          /\ run' = [run EXCEPT !.upload = state]
          /\ Proceed("execute")
          /\ UNCHANGED <<world, lost>>
     \/ vm.on /\ Fail /\ UNCHANGED <<world, lost>>
     \/ vm.on /\ again' = ~again /\ UNCHANGED <<run, pc, steps, world, lost>>
     \/ lost' = TRUE /\ Fail /\ UNCHANGED world
  /\ UNCHANGED <<options, adapter, interrupted, locked>>

\* Only a stable upload with an enabled handler is executed.
SkipExecution ==
  /\ pc = "execute"
  /\ run' = [run EXCEPT !.action = "skipped", !.warned = TRUE]
  /\ Proceed("delay")
  /\ UNCHANGED <<options, adapter, interrupted, locked, world, lost>>

NotStarted == [run EXCEPT !.action = "not_started", !.warned = TRUE]

\* Seeded bugs: execution is requested for whatever was uploaded and its
\* request repeated when it is lost; nothing warns of a start that failed.
RequestExecutionTwice ==
  /\ pc = "execute"
  /\ run.upload = "stable"
  /\ guest.sample = "stored"
  /\ Call("execute", "observe", run)

RequestExecutionQuietly ==
  /\ pc = "execute"
  /\ run.upload = "stable"
  /\ \/ guest.sample = "stored" /\ Answered("execute", "observe", run)
     \/ Answered("status", "delay", [NotStarted EXCEPT !.warned = run.warned])
     \/ vm.on /\ Fail /\ UNCHANGED <<options, adapter, interrupted, locked, world, lost>>

\* The request is sent once.  "running" leads to the observation; any other
\* answer, any refusal but one of the credentials, and silence itself let the
\* case go on as "not_started", although the sample may have been launched.
RequestExecution ==
  /\ pc = "execute"
  /\ run.upload = "stable"
  /\ \/ guest.sample = "stored" /\ Answered("execute", "observe", run)
     \/ Answered("status", "delay", NotStarted)
     \/ Answered("execute", "delay", NotStarted)
     \/ Refused
     \/ /\ Unheard("execute")
        /\ lost' = TRUE
        /\ run' = NotStarted
        /\ Proceed("delay")
        /\ UNCHANGED <<options, adapter, interrupted, locked>>

\* _poll_execution_status: a terminal state or the timeout; an error of any
\* kind ends the observation, not the case.
ObserveExecution ==
  /\ pc = "observe"
  /\ \/ /\ vm.on
        /\ \E w \in BOOLEAN : run' = [Warn(w) EXCEPT !.action = "observed"]
        /\ UNCHANGED lost
     \/ /\ run' = [run EXCEPT !.action = "observation_unavailable", !.warned = TRUE]
        /\ lost' \in {lost, TRUE}
  /\ Proceed("delay")
  /\ UNCHANGED <<options, adapter, interrupted, locked, world>>

\* post_execution_collection_delay, with its probes.
Delay ==
  /\ pc = "delay"
  /\ \E w \in BOOLEAN : run' = Warn(w)
  /\ Proceed("collect")
  /\ UNCHANGED <<options, adapter, interrupted, locked, world, lost>>

\* A refusal to collect is a warning.  An answer counts as collected whatever
\* collection_state it reports: what was obtained is not looked at.
CollectLogs ==
  /\ pc = "collect"
  /\ \/ Call("collect", "summary", run)
     \/ Answered("status", "summary", Warn(TRUE))

\* The heartbeat of the lock may warn from here on.
Summarise ==
  /\ pc = "summary"
  /\ \E w \in BOOLEAN : Call("summary", "export", Warn(w))

ExportEvidence ==
  /\ pc = "export"
  /\ \E w \in BOOLEAN : Call("export", "finally", [Warn(w) EXCEPT !.evidence = "saved"])

-----------------------------------------------------------------------------
(* finally *)

Saved == run.evidence = "saved"

Leave(next, record) ==
  /\ pc' = next
  /\ run' = record
  /\ UNCHANGED <<options, again, steps, adapter, interrupted, locked, lost>>

\* Seeded bug: nothing is salvaged.
EnterFinallyInHaste ==
  /\ pc = "finally"
  /\ Leave("cleanup", run)
  /\ UNCHANGED world

EnterFinally ==
  /\ pc = "finally"
  /\ Leave(IF run.started /\ ~Saved THEN "salvage" ELSE "cleanup", run)
  /\ UNCHANGED world

\* _try_fast_fail_salvage: one attempt, its failure is only recorded.
Salvage ==
  /\ pc = "salvage"
  /\ \/ vm.on /\ Leave("cleanup", [run EXCEPT !.evidence = "saved"])
     \/ Leave("cleanup", [Warn(TRUE) EXCEPT !.evidence = "failed"])
  /\ UNCHANGED world

\* Seeded bug: an error of the case does not prevent the deferral.
DefersOnError == options.defer /\ Saved

\* _should_defer_final_cleanup
Defers == options.defer /\ ~run.error /\ Saved

Marked(cleanup, poweroff) == [run EXCEPT !.cleanup = cleanup, !.poweroff = poweroff]

DeferCleanup ==
  /\ pc = "cleanup"
  /\ Defers
  /\ Leave("finish", Marked("deferred_to_next_case", "not_needed"))
  /\ UNCHANGED world

\* _cleanup_instance
SkipCleanup ==
  /\ pc = "cleanup"
  /\ ~Defers /\ ~adapter
  /\ Leave("finish", Marked("skipped", "skipped"))
  /\ UNCHANGED world

\* Seeded bug: a failed restore is not followed by the emergency stop.
CleanupWithoutStop ==
  /\ pc = "cleanup"
  /\ ~Defers /\ adapter
  /\ \/ Restored /\ Leave("finish", Marked("restored", "not_needed"))
     \/ CloudFailure /\ Leave("finish", Marked("restore_failed", "not_needed"))
  /\ UNCHANGED launches

Cleanup ==
  /\ pc = "cleanup"
  /\ ~Defers /\ adapter
  /\ \/ Restored /\ Leave("finish", Marked("restored", "not_needed"))
     \/ CloudFailure /\ Leave("poweroff", [Warn(TRUE) EXCEPT !.cleanup = "restore_failed"])
  /\ UNCHANGED launches

\* Seeded bug: a stop that fails goes back to the restore.
EmergencyStopRetries ==
  /\ pc = "poweroff"
  /\ \/ /\ vm' = [vm EXCEPT !.on = FALSE] /\ late' = {}
        /\ Leave("finish", [run EXCEPT !.poweroff = "stopped"])
     \/ Leave("cleanup", run) /\ UNCHANGED <<vm, late>>
  /\ UNCHANGED <<guest, launches>>

\* emergency_poweroff
EmergencyStop ==
  /\ pc = "poweroff"
  /\ \/ /\ vm' = [vm EXCEPT !.on = FALSE] /\ late' = {}
        /\ Leave("finish", [run EXCEPT !.poweroff = "stopped"])
     \/ /\ vm' \in {vm, [vm EXCEPT !.on = FALSE]}
        /\ late' = IF vm'.on THEN late ELSE {}
        /\ Leave("finish", [run EXCEPT !.poweroff = "failed"])
  /\ UNCHANGED <<guest, launches>>

\* _final_status
FinalStatus ==
  CASE run.poweroff = "failed" ->
         IF run.error THEN "failed_cleanup_failed" ELSE "completed_with_cleanup_warning"
    [] run.poweroff # "failed" /\ run.error -> "failed"
    [] OTHER -> IF run.warned THEN "completed_with_warnings" ELSE "completed"

\* The result is returned and the lock released.
Finish ==
  /\ pc = "finish"
  /\ run' = IF interrupted THEN run ELSE [run EXCEPT !.status = FinalStatus]
  /\ pc' = IF interrupted THEN "raised" ELSE "done"
  /\ locked' = FALSE
  /\ UNCHANGED <<options, again, steps, adapter, interrupted, world, lost>>

\* OSError or Ctrl-C inside finally: the rest of it, the cleanup included, is
\* not done, but the lock is released.
Escape ==
  /\ pc \in Finally
  /\ pc' = "raised"
  /\ locked' = FALSE
  /\ UNCHANGED <<options, again, run, steps, adapter, interrupted, world, lost>>

\* The process is killed.
Die ==
  /\ pc \notin Ended
  /\ pc' = "dead"
  /\ UNCHANGED <<options, again, run, steps, adapter, interrupted, locked, world, lost>>

Controller ==
  \/ Configure \/ Restore \/ WaitReady \/ Prepare \/ CheckReadiness \/ Upload
  \/ PollUpload \/ SkipExecution \/ RequestExecution \/ ObserveExecution
  \/ Delay \/ CollectLogs \/ Summarise \/ ExportEvidence
  \/ EnterFinally \/ Salvage \/ DeferCleanup \/ SkipCleanup \/ Cleanup
  \/ EmergencyStop \/ Finish

Faults == LocalError \/ Interrupt \/ Escape \/ Die

Next ==
  \/ Controller
  \/ Faults
  \/ \E request \in Requests : ServeLate(request)
  \/ ProductRemoves

Spec == Init /\ [][Next]_vars

\* The controller is one sequential program: while it lives it goes on.
FairSpec == Spec /\ WF_vars(Controller)

-----------------------------------------------------------------------------
(* Properties *)

\* A sample is launched at most once in a case, whatever is lost, repeated or
\* served late.
LaunchedOnce == launches <= 1

\* "completed", without warnings, is only said of a case whose sample was
\* launched and observed, whose request to collect the logs was answered, whose
\* summary and evidence were obtained, and no request of which was given up
\* because the network failed.  It does not say that logs were obtained.
CompletedMeansDone ==
  run.status = "completed" =>
    /\ launches = 1 /\ run.action = "observed" /\ Saved /\ ~lost
    /\ {"collect", "summary", "export"} \subseteq steps

\* A run that returns leaves a used instance only in a way it reports: deferred,
\* stopped, or with a stop that failed and a status that says so.  Otherwise the
\* instance is restored, or was never touched.
EndsSafe ==
  pc = "done" =>
    \/ run.cleanup = "restored" /\ ~vm.dirty
    \/ run.cleanup = "deferred_to_next_case"
    \/ run.cleanup = "restore_failed" /\ run.poweroff = "stopped" /\ ~vm.on
    \/ /\ run.poweroff = "failed"
       /\ run.status \in {"failed_cleanup_failed", "completed_with_cleanup_warning"}
    \/ run.cleanup = "skipped" /\ launches = 0 /\ ~adapter

\* A deferred case, which the next one wipes, has its evidence and summary and
\* is one the batch counts as complete.
DeferredIsComplete ==
  pc = "done" /\ run.cleanup = "deferred_to_next_case" =>
    /\ run.status \in {"completed", "completed_with_warnings"}
    /\ {"summary", "export"} \subseteq steps

\* A restore never wipes a case the controller knows of before its evidence was
\* saved or, after a failure, a salvage was tried.
EvidenceBeforeCleanup ==
  [][ run.started /\ guest.case /\ ~guest'.case => run.evidence # "skipped" ]_vars

\* No refusal, loss or failure keeps the run from ending, but for one: an agent
\* that loses the query of the upload and reconnects, again and again, is asked
\* for ever, for no timeout is looked at on that way.
RunEnds == <>(pc \in Ended) \/ <>[](pc = "poll_upload" /\ vm.on)

-----------------------------------------------------------------------------
(* The inductive invariant behind the safety properties. *)

BeforeExecution == {"config", "restore", "ready", "prepare", "readiness", "upload",
                    "poll_upload", "execute"}

\* The one execution request is unsent, on its way, or served.
OneRequest ==
  /\ launches <= 1
  /\ "execute" \in late => launches = 0
  /\ pc \in BeforeExecution => launches = 0 /\ "execute" \notin late
  /\ pc = "observe" => launches = 1

\* A flow that has not warned has observed its launch.
Executed == run.warned \/ (launches = 1 /\ run.action = "observed")

Completing == pc \in Finally \cup {"done"} /\ ~run.error /\ ~interrupted

FlowInv ==
  /\ lost => run.warned \/ run.error
  /\ pc \in {"delay", "collect", "summary", "export"} => Executed
  /\ pc \in {"summary", "export"} => "collect" \in steps
  /\ pc = "export" => "summary" \in steps
  /\ Completing =>
       Executed /\ Saved /\ {"collect", "summary", "export"} \subseteq steps

StatusInv ==
  /\ run.status # "pending" => pc = "done" /\ run.status = FinalStatus
  /\ pc = "done" => run.status # "pending" /\ ~interrupted
  /\ pc \in Flow \cup (Finally \ {"finish"}) => run.poweroff = "not_needed"
  /\ pc \in Flow => run.evidence = "skipped" /\ ~interrupted /\ ~run.error

CleanupInv ==
  /\ pc \in Flow \ {"config"} => adapter
  /\ ~adapter => launches = 0 /\ late = {}
  /\ pc = "poweroff" => run.cleanup = "restore_failed"
  /\ pc \in {"config", "restore", "ready", "prepare"} => ~run.started
  /\ pc = "salvage" => run.evidence # "saved"
  /\ pc = "cleanup" /\ run.started => run.evidence # "skipped"
  /\ pc \in {"finish", "done"} =>
       \/ run.cleanup = "restored" /\ ~vm.dirty /\ late = {}
       \/ run.cleanup = "deferred_to_next_case" /\ ~run.error
       \/ run.cleanup = "restore_failed" /\ run.poweroff = "stopped" /\ ~vm.on
       \/ run.cleanup = "restore_failed" /\ run.poweroff = "failed"
       \/ run.cleanup = "skipped" /\ ~adapter
  /\ pc \in {"finish", "done"} /\ run.poweroff = "failed" => run.cleanup = "restore_failed"

RunInv == TypeOK /\ OneRequest /\ FlowInv /\ StatusInv /\ CleanupInv

-----------------------------------------------------------------------------
(* The run as the case that CaseContract describes.                         *)

Gone == interrupted \/ pc = "dead"

\* A launch was requested: from then on the sample may run, at any time.
Asked == "execute" \in steps /\ run.action # "skipped"

Stage ==
  CASE Gone -> "idle"
    [] ~Gone /\ pc \in {"poweroff", "finish", "done", "raised"} -> "record"
    [] ~Gone /\ pc \in {"finally", "salvage", "cleanup"} /\ adapter -> "cleanup"
    [] ~Gone /\ pc \in Flow /\ "restore" \in steps ->
         IF Asked THEN "launched" ELSE "sample"
    [] OTHER -> "single"

\* Whose samples may have run on the instance since its last restore: those of
\* an earlier case, and this one's.
Used ==
  IF run.cleanup = "restored" /\ ~interrupted THEN {}
  ELSE {user \in {"earlier", "this"} :
          IF user = "this" THEN Asked ELSE options.skip \/ "restore" \notin steps}

\* Seeded bug: an instance that could be stopped counts as cleaned up.
UnsafeIfRunning == run.cleanup = "restore_failed" /\ run.poweroff = "failed"

\* unsafe_to_continue
Unsafe == run.cleanup = "restore_failed"

\* _case_status_from_single_run, _failure_kind_from_single_run
Result ==
  LET status == IF pc = "done" THEN run.status ELSE FinalStatus
      failed == status \in {"failed", "failed_cleanup_failed"}
  IN  [status |-> IF Unsafe THEN "stopped_environment_failure"
                  ELSE IF failed THEN "failed" ELSE "completed",
       cleanup |-> run.cleanup,
       kind |-> IF Unsafe THEN "environment_failure"
                ELSE IF failed THEN "case_failure" ELSE "none"]

\* An exception that leaves the run is a failed case to RealSingleRunRunner.
Raised == [status |-> "failed", cleanup |-> "not_started", kind |-> "case_failure"]

NoResult == [status |-> "planned", cleanup |-> "not_started", kind |-> "none"]

Returned ==
  IF Stage # "record" THEN NoResult ELSE IF pc = "raised" THEN Raised ELSE Result

CaseError == ~Gone /\ adapter /\ run.error

Promise == INSTANCE CaseContract WITH
  stage <- Stage, this <- "this", request <- options, used <- Used,
  error <- CaseError, outcome <- Returned

\* The run, with whatever is lost, late, refused or fails on the way, is the case
\* on which the batch of MultiRun rests: it prepares before it launches, only a
\* restore empties the instance, only a case without an error is deferred, and
\* the result says how the cleanup went.
KeepsPromise == Promise!ContractSpec

\* Used is no less than the truth: a used instance, a launch on its way and a
\* sample launched are all accounted for, a restore of the cleanup excepted.
UseIsKnown ==
  /\ vm.dirty => Used # {}
  /\ "execute" \in late => "this" \in Used
  /\ launches > 0 => "this" \in Used \/ run.cleanup = "restored"

\* How far the run has come when it asks, fails or cleans up.
StageInv ==
  /\ ~adapter => /\ steps = {} /\ run.evidence # "saved" /\ ~run.started
                 /\ pc \in {"config"} \cup (Finally \ {"salvage"}) \cup Ended
  /\ pc \in {"config", "restore"} => "restore" \notin steps
  /\ pc \in Flow \ {"config", "restore"} => "restore" \in steps
  /\ pc \in BeforeExecution => "execute" \notin steps /\ run.action = "none"
  /\ pc = "observe" => Asked
  /\ pc \in Flow \cup {"finally", "salvage", "cleanup"} => run.cleanup = "skipped"
  /\ run.cleanup = "restored" => ~vm.dirty /\ late = {}

PromiseInv == RunInv /\ StageInv /\ UseIsKnown

=============================================================================
