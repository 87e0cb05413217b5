----------------------------- MODULE Evaluator -----------------------------
(***************************************************************************)
(* The verdict of a case: _decide_verdict and the summaries it is given in *)
(* src/src/cloud_av_agent_lab/evaluation/evaluator.py.  Confidence, reason *)
(* texts and the timeline are left out.                                    *)
(*                                                                         *)
(* A collection says what the collector found, whether it reported errors, *)
(* and whether its window ends after the recorded start of the sample.     *)
(***************************************************************************)
EXTENDS Naturals

UploadStates == {"not_uploaded", "uploaded", "stable", "removed_after_save",
                 "locked_or_busy"}

ObservedExecution == {"exited_cleanly", "exited_with_error", "running",
                      "timeout_still_running"}
UnobservedExecution == {"", "not_started", "execution_disabled",
                        "execution_dry_run_checked", "unknown"}
FailedExecution == {"desktop_worker_not_ready", "lease_invalid",
                    "lease_expired", "lease_reused", "worker_busy",
                    "sample_missing_before_execution", "sha256_mismatch",
                    "unsupported_file_type", "launch_failed", "not_uploaded"}
ExecutionStates == ObservedExecution \cup UnobservedExecution
                     \cup FailedExecution \cup {"terminated_or_disappeared"}

ReadinessStates == {"not_checked", "ready", "partial", "not_ready", "unknown",
                    "unsupported"}

Collection == [state: {"", "not_collected", "failed", "unknown", "partial",
                       "collected"},
               verdict: {"unknown", "failed", "detected", "intercepted",
                         "detected_only", "detected_with_action_failed",
                         "not_intercepted"},
               intercepted: BOOLEAN,
               evidence: Nat,
               errors: BOOLEAN,
               coversExecution: BOOLEAN]

Verdicts == {"detected_or_blocked", "suspiciously_removed",
             "execution_not_observed", "no_detection_observed", "inconclusive"}

ShowsDetection(collection) ==
  \/ collection.intercepted
  \/ collection.evidence > 0 /\ collection.verdict \in {"intercepted", "detected"}

Unavailable(collection) ==
  collection.state \in {"", "failed", "not_collected", "unknown"}

Incomplete(collection) == collection.state = "partial" \/ collection.errors

\* allows_no_detection_observed
AllowsAllClear(readiness) == readiness = "ready"

FoundNothing(execution, collection) ==
  /\ execution \in ObservedExecution
  /\ collection.state = "collected"
  /\ collection.verdict = "not_intercepted"

\* The conditions under which finding nothing counts.
ObservedClear(execution, collection) ==
  FoundNothing(execution, collection) /\ collection.coversExecution

\* The verdict on a sample that stayed where it was saved.
StableVerdict(execution, collection, readiness) ==
  IF execution \in UnobservedExecution THEN "execution_not_observed"
  ELSE IF /\ execution \notin FailedExecution
          /\ ~Unavailable(collection)
          /\ ~Incomplete(collection)
          /\ ObservedClear(execution, collection)
          /\ AllowsAllClear(readiness)
       THEN "no_detection_observed"
       ELSE "inconclusive"

\* _decide_verdict: the first condition that holds decides.
Verdict(upload, execution, collection, readiness) ==
  IF ShowsDetection(collection) THEN "detected_or_blocked"
  ELSE IF execution = "terminated_or_disappeared" THEN "inconclusive"
  ELSE IF upload = "removed_after_save"
       THEN IF Unavailable(collection) THEN "inconclusive"
            ELSE "suspiciously_removed"
  ELSE IF upload = "stable" /\ collection.evidence = 0
       THEN StableVerdict(execution, collection, readiness)
  ELSE "inconclusive"
=============================================================================
