---------------------------- MODULE CaseContract ----------------------------
(***************************************************************************)
(* What the single run of a case promises to whoever asks for it: which    *)
(* samples may have run on the instance at each stage, and what is         *)
(* returned.  The batch of MultiRun is built on it; SingleRun implements   *)
(* it.  Whether a cleanup that failed was followed by a stop makes no      *)
(* difference here.                                                        *)
(***************************************************************************)
VARIABLES
  stage,    \* "single" before the instance is prepared, "sample" before a
            \* launch, "launched", "cleanup", "record" when a result is there,
            \* "idle" when there is no run (any more)
  this,     \* the case
  request,  \* skip: without the initial restore; defer: without the cleanup
  used,     \* whose samples may have run on the instance since its restore
  error,    \* case_error
  outcome   \* the result

InSingleRun == {"single", "sample", "launched", "cleanup"}

Outcomes ==
  [status: {"planned", "completed", "failed", "stopped_environment_failure"},
   cleanup: {"not_started", "skipped", "restored", "restore_failed",
             "deferred_to_next_case"},
   kind: {"none", "case_failure", "environment_failure"}]

Outcome(status, cleanup, kind) ==
  [status |-> status, cleanup |-> cleanup, kind |-> kind]

NoOutcome == Outcome("planned", "not_started", "none")

asked == <<this, request>>
contractVars == <<stage, this, request, used, error, outcome>>

ContractInit ==
  /\ stage = "single"
  /\ error = FALSE
  /\ outcome = NoOutcome

Return(o) == outcome' = o /\ stage' = "record"

\* RealSingleRunRunner turns any exception into a failed case: the sample is
\* missing, the instance is locked, a write of the run state fails, the last
\* one included, when everything is done ...
Raises ==
  /\ stage \in InSingleRun \cup {"record"}
  /\ Return(Outcome("failed", "not_started", "case_failure"))
  /\ UNCHANGED <<asked, used, error>>

\* The case fails before the cloud adapter exists: nothing is cleaned up.
FailsEarly ==
  /\ stage = "single"
  /\ Return(Outcome("failed", "skipped", "case_failure"))
  /\ UNCHANGED <<asked, used, error>>

Prepares ==
  /\ stage = "single"
  /\ stage' = "sample"
  /\ used' = IF request.skip THEN used ELSE {}
  /\ UNCHANGED <<asked, error, outcome>>

\* A restore that fails may have been carried out all the same.
PrepareFails ==
  /\ stage = "single"
  /\ stage' = "cleanup"
  /\ \/ UNCHANGED used
     \/ ~request.skip /\ used' = {}
  /\ error' = TRUE
  /\ UNCHANGED <<asked, outcome>>

\* The sample is launched, or a request to launch it is under way.
Launches ==
  /\ stage = "sample"
  /\ stage' = "launched"
  /\ used' = used \cup {this}
  /\ UNCHANGED <<asked, error, outcome>>

\* The case has come to its end, or fails.
Closes ==
  /\ stage \in {"sample", "launched"}
  /\ stage' = "cleanup"
  /\ error' \in BOOLEAN
  /\ UNCHANGED <<asked, used, outcome>>

\* Only a case without an error leaves its cleanup to the next one.
Defers ==
  /\ stage = "cleanup"
  /\ request.defer /\ ~error
  /\ Return(Outcome("completed", "deferred_to_next_case", "none"))
  /\ UNCHANGED <<asked, used, error>>

Restores ==
  /\ stage = "cleanup"
  /\ ~request.defer \/ error
  /\ used' = {}
  /\ Return(IF error THEN Outcome("failed", "restored", "case_failure")
                     ELSE Outcome("completed", "restored", "none"))
  /\ UNCHANGED <<asked, error>>

CleanupFails ==
  /\ stage = "cleanup"
  /\ ~request.defer \/ error
  /\ used' \in {used, {}}
  /\ Return(Outcome("stopped_environment_failure", "restore_failed",
                    "environment_failure"))
  /\ UNCHANGED <<asked, error>>

\* The run is killed or interrupted.
Dies ==
  /\ stage' = "idle"
  /\ error' = FALSE /\ outcome' = NoOutcome
  /\ UNCHANGED <<asked, used>>

ContractNext ==
  \/ Raises \/ FailsEarly \/ Prepares \/ PrepareFails \/ Launches \/ Closes
  \/ Defers \/ Restores \/ CleanupFails \/ Dies

ContractSpec == ContractInit /\ [][ContractNext]_contractVars
=============================================================================
