----------------------------- MODULE GuestCase -----------------------------
(***************************************************************************)
(* The workspace of one prepared case in the Guest Agent                   *)
(* (src/src/cloud_av_agent_lab/guest_agent_server/workspace and app.py).   *)
(*                                                                         *)
(* Every request reads and rewrites whole JSON files, no lock is held, and *)
(* FastAPI serves requests on a thread pool: a client that repeats a       *)
(* request after a lost answer may meet the first one still at work.  A    *)
(* request is therefore the sequence of its file operations.  The security *)
(* product acts on the sample between any two of them.                     *)
(*                                                                         *)
(* Left out: the fields no verdict depends on, the event log, a payload    *)
(* that is refused before any file is touched, and execution launched by   *)
(* the Guest Agent itself, which main.py never configures.                 *)
(***************************************************************************)
EXTENDS Evaluator, FiniteSets

CONSTANTS
  Threads,      \* threads that serve requests
  Scopes,       \* which of the choices below an execution makes
  MaxOverlaps   \* bound on requests begun while another is served

Operations == {"none", "upload", "status", "readiness", "execute", "poll",
               "collect", "summary", "export", "report", "prepare"}

\* What a collector may report besides what it must, how the worker may see a
\* started sample end, what a readiness check may find, and what a client may
\* ask for over a request it gave up.
Scope == [findings: SUBSET {"not_collected", "weak", "partial", "failed"},
          ends: SUBSET {"exited_cleanly", "terminated_or_disappeared"},
          products: SUBSET {"ready", "not_ready"},
          overlapping: SUBSET (Operations \X Operations)]

ASSUME GuestAssumption == Scopes \subseteq Scope /\ MaxOverlaps \in Nat

\* Of each class the evaluator tells apart, the states reached here.
Started == {"running", "exited_cleanly", "terminated_or_disappeared"}
Executions == {"not_started", "launch_failed"} \cup Started
Readiness == {"not_checked", "ready", "not_ready"}
Probes == {"absent", "present", "locked"}

CaseState == [upload: UploadStates, execution: Executions]

\* case_collection.json: the finding, and whether the sample had been started
\* before the window of the collection ended.
CollectionFile ==
  [finding: {"not_collected", "clear", "detected", "weak", "partial", "failed"},
   afterStart: BOOLEAN]
NotCollected == [finding |-> "not_collected", afterStart |-> FALSE]

Report == [state: CaseState, collection: CollectionFile, readiness: Readiness]

Prepared == [upload |-> "not_uploaded", execution |-> "not_started"]
EmptyReport ==
  [state |-> Prepared, collection |-> NotCollected, readiness |-> "not_checked"]

Places == {"idle", "metadata", "read", "probe", "forward", "observe", "stamp",
           "log", "file", "write", "report", "evaluate", "bundle"}

\* A request: its operation, the next file operation, and what it holds.
Request == [op: Operations, at: Places, seen: CaseState, probe: Probes,
            readiness: Readiness, execution: Executions,
            collection: CollectionFile]

Idle == [op |-> "none", at |-> "idle", seen |-> Prepared, probe |-> "absent",
         readiness |-> "not_checked", execution |-> "not_started",
         collection |-> NotCollected]

\* All that is left to do is write the report.
Reporting == [Idle EXCEPT !.op = "report", !.at = "report"]

VARIABLES
  state,       \* case_state.json
  metadata,    \* sample/sample.json exists
  sample,      \* the sample file exists
  readiness,   \* case_security_product_readiness.json
  collection,  \* case_collection.json
  report,      \* case_report.json
  summary,     \* the verdict in case_summary.json, "none" before the first
  worker,      \* worker_execution_state.json of the Desktop Worker
  launching,   \* the worker still serves an execute given up by its client
  logged,      \* the product's log holds evidence of this case in the window
  request,
  client,      \* its scope, and how often it asked over a request being served
  ran,         \* history: the worker started the sample, since the case was last
               \* prepared with no request being served
  clearLog     \* history: since then, a collection read a clear log after a start

files == <<state, metadata, readiness, collection, report, summary>>
vars == <<state, metadata, sample, readiness, collection, report, summary,
          worker, launching, logged, request, client, ran, clearLog>>

TypeOK ==
  /\ state \in CaseState
  /\ metadata \in BOOLEAN
  /\ sample \in BOOLEAN
  /\ readiness \in Readiness
  /\ collection \in CollectionFile
  /\ report \in Report
  /\ summary \in Verdicts \cup {"none"}
  /\ worker \in Executions
  /\ launching \in BOOLEAN
  /\ logged \in BOOLEAN
  /\ request \in [Threads -> Request]
  /\ client \in [scope: Scopes, overlaps: 0..MaxOverlaps]
  /\ ran \in BOOLEAN
  /\ clearLog \in BOOLEAN

Init ==
  /\ state = Prepared
  /\ metadata = FALSE
  /\ sample = FALSE
  /\ readiness = "not_checked"
  /\ collection = NotCollected
  /\ report = EmptyReport
  /\ summary = "none"
  /\ worker = "not_started"
  /\ launching = FALSE
  /\ logged = FALSE
  /\ request = [t \in Threads |-> Idle]
  /\ client \in [scope: Scopes, overlaps: {0}]
  /\ ran = FALSE
  /\ clearLog = FALSE

Quiet == \A t \in Threads : request[t].at = "idle"

\* No two requests have been served at once since the case was last prepared
\* alone.
Sequential == client.overlaps = 0

At(t, op, place) == request[t].op = op /\ request[t].at = place
Goto(t, place) == request' = [request EXCEPT ![t].at = place]
Finish(t) == request' = [request EXCEPT ![t] = Idle]
ToReport(t) == request' = [request EXCEPT ![t] = Reporting]

-----------------------------------------------------------------------------
(* Requests begin, write the report last, and may be refused *)

\* A client asks over a request that is still served.
Overlap(op) ==
  /\ ~Quiet
  /\ \A u \in Threads : request[u].at # "idle" =>
       <<request[u].op, op>> \in client.scope.overlapping
  /\ client.overlaps < MaxOverlaps
  /\ client' = [client EXCEPT !.overlaps = @ + 1]

\* A request begins with its first file operation.
Begin(t, first) ==
  /\ request[t].at = "idle"
  /\ (Quiet /\ UNCHANGED client) \/ Overlap(first.op)
  /\ request' = [request EXCEPT ![t] = first]

\* _build_case_report
CurrentReport ==
  [state |-> state, collection |-> collection, readiness |-> readiness]

\* write_case_report, the last thing a request does that changes the case; the
\* files it shows are read and the report is written in one step.
WriteReport(t) ==
  /\ request[t].at = "report"
  /\ report' = CurrentReport
  /\ Finish(t)
  /\ UNCHANGED <<state, metadata, sample, readiness, collection, summary,
                 worker, launching, logged, client, ran, clearLog>>

\* read_case_report, and the action generate_report; a dry run does no more.
BeginReport(t) ==
  /\ Begin(t, Reporting)
  /\ UNCHANGED <<files, sample, worker, launching, logged, ran, clearLog>>

\* Steps that read JSON, and steps that truncate and rewrite it.
Reads(t) ==
  \/ request[t].at \in {"read", "observe", "stamp", "report", "evaluate"}
  \/ At(t, "collect", "file")
Rewrites(t) == request[t].at \in {"metadata", "file", "write"}

\* _read_json_file meets a file that another request is writing, and refuses.
Refused(t) ==
  /\ Reads(t)
  /\ \E u \in Threads \ {t} : Rewrites(u)
  /\ Finish(t)
  /\ UNCHANGED <<files, sample, worker, launching, logged, client, ran, clearLog>>

-----------------------------------------------------------------------------
(* Upload and status *)

\* save_uploaded_sample runs on the event loop: two uploads never interleave.
BeginUpload(t) ==
  /\ \A u \in Threads : request[u].op # "upload"
  /\ Begin(t, [Idle EXCEPT !.op = "upload", !.at = "metadata"])
  /\ sample' = TRUE
  /\ UNCHANGED <<files, worker, launching, logged, ran, clearLog>>

\* stored_at_utc moves the start of the collection window: evidence of an
\* earlier upload may lie before it.
UploadMetadata(t) ==
  /\ At(t, "upload", "metadata")
  /\ metadata' = TRUE
  /\ logged' \in {logged, FALSE}
  /\ Goto(t, "write")
  /\ UNCHANGED <<state, sample, readiness, collection, report, summary,
                 worker, launching, client, ran, clearLog>>

\* The fresh state has no execution.
UploadState(t) ==
  /\ At(t, "upload", "write")
  /\ state' = [upload |-> "uploaded", execution |-> "not_started"]
  /\ ToReport(t)
  /\ UNCHANGED <<metadata, sample, readiness, collection, report, summary,
                 worker, launching, logged, client, ran, clearLog>>

\* read_case_status; without metadata it changes nothing.
BeginStatus(t) ==
  /\ metadata
  /\ Begin(t, [Idle EXCEPT !.op = "status", !.at = "probe", !.seen = state])
  /\ UNCHANGED <<files, sample, worker, launching, logged, ran, clearLog>>

\* _probe_sample_current_status: a file in use may refuse os.stat.
StatusProbe(t) ==
  /\ At(t, "status", "probe")
  /\ \E probe \in IF sample THEN {"present", "locked"} ELSE {"absent"} :
       request' = [request EXCEPT ![t].at = "file", ![t].probe = probe]
  /\ UNCHANGED <<files, sample, worker, launching, logged, client, ran, clearLog>>

\* sample.json is rewritten.  The start of the window it holds may be that of an
\* upload before the last: evidence comes back into the window, as by Protect.
StatusFile(t) ==
  /\ At(t, "status", "file")
  /\ metadata' = TRUE
  /\ Goto(t, "write")
  /\ UNCHANGED <<state, sample, readiness, collection, report, summary,
                 worker, launching, logged, client, ran, clearLog>>

Observed(probe) ==
  CASE probe = "absent" -> "removed_after_save"
    [] probe = "locked" -> "locked_or_busy"
    [] probe = "present" -> "stable"

\* Seeded bug: the refreshed state forgets the execution.
RefreshedWithoutExecution(seen, probe) ==
  [upload |-> Observed(probe), execution |-> "not_started"]

\* refresh_sample_status: of the state it read only the execution survives.
Refreshed(seen, probe) ==
  [upload |-> Observed(probe), execution |-> seen.execution]

StatusState(t) ==
  /\ At(t, "status", "write")
  /\ state' = Refreshed(request[t].seen, request[t].probe)
  /\ ToReport(t)
  /\ UNCHANGED <<metadata, sample, readiness, collection, report, summary,
                 worker, launching, logged, client, ran, clearLog>>

-----------------------------------------------------------------------------
(* Readiness *)

BeginReadiness(t) ==
  \E found \in client.scope.products :
    /\ Begin(t, [Idle EXCEPT !.op = "readiness", !.at = "read", !.readiness = found])
    /\ UNCHANGED <<files, sample, worker, launching, logged, ran, clearLog>>

ReadinessRead(t) ==
  /\ At(t, "readiness", "read")
  /\ request' = [request EXCEPT ![t].at = "file", ![t].seen = state]
  /\ UNCHANGED <<files, sample, worker, launching, logged, client, ran, clearLog>>

ReadinessFile(t) ==
  /\ At(t, "readiness", "file")
  /\ readiness' = request[t].readiness
  /\ request' = [request EXCEPT ![t].at = "write", ![t].readiness = "not_checked"]
  /\ UNCHANGED <<state, metadata, sample, collection, report, summary,
                 worker, launching, logged, client, ran, clearLog>>

\* Readiness and collection write back the whole state they read.
WriteBack(t) ==
  /\ At(t, "readiness", "write") \/ At(t, "collect", "write")
  /\ state' = request[t].seen
  /\ IF request[t].op = "collect"
     THEN request' = [request EXCEPT ![t].at = "file", ![t].seen = Prepared]
     ELSE ToReport(t)
  /\ UNCHANGED <<metadata, sample, readiness, collection, report, summary,
                 worker, launching, logged, client, ran, clearLog>>

-----------------------------------------------------------------------------
(* Execution, which the Desktop Worker does *)

\* prepare_worker_execute_request: a missing sample only makes a report.
BeginExecute(t) ==
  /\ metadata
  /\ Begin(t, IF ~sample THEN Reporting
              ELSE [Idle EXCEPT !.op = "execute", !.at = "forward"])
  /\ UNCHANGED <<files, sample, worker, launching, logged, ran, clearLog>>

MayStart == worker = "not_started" /\ sample

\* The worker answers that the sample runs.
Launch(t) ==
  /\ At(t, "execute", "forward")
  /\ MayStart
  /\ worker' = "running" /\ ran' = TRUE
  /\ request' = [request EXCEPT ![t].at = "read", ![t].execution = "running"]
  /\ UNCHANGED <<files, sample, launching, logged, client, clearLog>>

\* It answers with an error, having recorded a failed launch or nothing, or it
\* is not heard of and may start the sample later.
LaunchError(t) ==
  /\ At(t, "execute", "forward")
  /\ \/ UNCHANGED <<worker, launching>>
     \/ MayStart /\ worker' = "launch_failed" /\ UNCHANGED launching
     \/ MayStart /\ launching' = TRUE /\ UNCHANGED worker
  /\ Goto(t, "observe")
  /\ UNCHANGED <<files, sample, logged, client, ran, clearLog>>

\* record_worker_execution_state_file, after an error.
RecordWorkerFile(t) ==
  /\ At(t, "execute", "observe")
  /\ IF worker = "not_started"
     THEN Finish(t)
     ELSE request' = [request EXCEPT ![t].at = "read", ![t].execution = worker]
  /\ UNCHANGED <<files, sample, worker, launching, logged, client, ran, clearLog>>

\* What the worker can answer to a poll; DesktopWorker models how it decides,
\* and that a recorded end may give way to "running" again.
Polled == IF worker \in Started THEN {"running"} \cup client.scope.ends ELSE {worker}

\* GET execution-status: what the worker observes is recorded.
BeginPoll(t) ==
  /\ worker' \in Polled
  /\ Begin(t, IF worker = "not_started" THEN Reporting
              ELSE [Idle EXCEPT !.op = "poll", !.at = "read", !.execution = worker'])
  /\ UNCHANGED <<files, sample, launching, logged, ran, clearLog>>

ExecutionRead(t) ==
  /\ At(t, "execute", "read") \/ At(t, "poll", "read")
  /\ request' = [request EXCEPT ![t].at = "write", ![t].seen = state]
  /\ UNCHANGED <<files, sample, worker, launching, logged, client, ran, clearLog>>

\* Seeded bug: the report is not rewritten.
ExecutionStateOnly(t) ==
  /\ At(t, "execute", "write") \/ At(t, "poll", "write")
  /\ state' = [request[t].seen EXCEPT !.execution = request[t].execution]
  /\ Finish(t)
  /\ UNCHANGED <<metadata, sample, readiness, collection, report, summary,
                 worker, launching, logged, client, ran, clearLog>>

\* _record_worker_execution
ExecutionState(t) ==
  /\ At(t, "execute", "write") \/ At(t, "poll", "write")
  /\ state' = [request[t].seen EXCEPT !.execution = request[t].execution]
  /\ ToReport(t)
  /\ UNCHANGED <<metadata, sample, readiness, collection, report, summary,
                 worker, launching, logged, client, ran, clearLog>>

-----------------------------------------------------------------------------
(* Collection *)

BeginCollect(t) ==
  /\ Begin(t, [Idle EXCEPT !.op = "collect", !.at = "stamp", !.seen = state])
  /\ UNCHANGED <<files, sample, worker, launching, logged, ran, clearLog>>

\* Seeded bug: a collection window counts as covering the execution whenever
\* it ends.
CollectWindowOpen(t) ==
  /\ At(t, "collect", "stamp")
  /\ request' = [request EXCEPT ![t].at = "log", ![t].collection.afterStart = TRUE]
  /\ UNCHANGED <<files, sample, worker, launching, logged, client, ran, clearLog>>

\* _build_collection_window: the window ends now.
CollectWindow(t) ==
  /\ At(t, "collect", "stamp")
  /\ request' = [request EXCEPT ![t].at = "log",
                                ![t].collection.afterStart = worker \in Started]
  /\ UNCHANGED <<files, sample, worker, launching, logged, client, ran, clearLog>>

\* A collector reports evidence it finds, and a clear log only if it could
\* read all of it; any attempt may fail or stay without a conclusion.
Found == {IF logged THEN "detected" ELSE "clear"} \cup client.scope.findings

CollectLog(t) ==
  /\ At(t, "collect", "log")
  /\ \E finding \in Found :
       /\ request' = [request EXCEPT ![t].at = "write",
                                     ![t].collection.finding = finding]
       /\ clearLog' = (clearLog \/ (finding = "clear" /\ ran))
  /\ UNCHANGED <<files, sample, worker, launching, logged, client, ran>>

\* write_case_collection
CollectionWrite(t) ==
  /\ At(t, "collect", "file")
  /\ collection' = request[t].collection
  /\ ToReport(t)
  /\ UNCHANGED <<state, metadata, sample, readiness, report, summary,
                 worker, launching, logged, client, ran, clearLog>>

-----------------------------------------------------------------------------
(* Summary and evidence bundle *)

\* What the evaluator sees of a collection.
Evidence(file) ==
  LET finding == file.finding IN
  [state |-> CASE finding = "not_collected" -> "not_collected"
               [] finding = "failed" -> "failed"
               [] finding = "partial" -> "partial"
               [] OTHER -> "collected",
   verdict |-> CASE finding = "detected" -> "intercepted"
                 [] finding = "clear" -> "not_intercepted"
                 [] OTHER -> "unknown",
   intercepted |-> finding = "detected",
   evidence |-> IF finding \in {"detected", "weak"} THEN 1 ELSE 0,
   errors |-> finding \in {"partial", "failed"},
   coversExecution |-> file.afterStart]

\* evaluate_case, of a report and the collection file.
Evaluate(shown, ready, file) ==
  Verdict(shown.upload, shown.execution, Evidence(file), ready)

\* write_case_summary begins with a new report.
BeginSummary(t, op) ==
  /\ Begin(t, [Idle EXCEPT !.op = op, !.at = "evaluate",
                           !.seen = state, !.readiness = readiness])
  /\ report' = CurrentReport
  /\ UNCHANGED <<state, metadata, sample, readiness, collection, summary,
                 worker, launching, logged, ran, clearLog>>

\* Seeded bug: a summary once written is kept.
WriteSummaryOnce(t) ==
  /\ request[t].at = "evaluate"
  /\ summary' = IF summary = "none"
                THEN Evaluate(request[t].seen, request[t].readiness, collection)
                ELSE summary
  /\ IF request[t].op = "export"
     THEN request' = [request EXCEPT ![t] = [Idle EXCEPT !.op = "export",
                                                        !.at = "bundle"]]
     ELSE Finish(t)
  /\ UNCHANGED <<state, metadata, sample, readiness, collection, report,
                 worker, launching, logged, client, ran, clearLog>>

\* The collection file is read again, after the report.
WriteSummary(t) ==
  /\ request[t].at = "evaluate"
  /\ summary' = Evaluate(request[t].seen, request[t].readiness, collection)
  /\ IF request[t].op = "export"
     THEN request' = [request EXCEPT ![t] = [Idle EXCEPT !.op = "export",
                                                        !.at = "bundle"]]
     ELSE Finish(t)
  /\ UNCHANGED <<state, metadata, sample, readiness, collection, report,
                 worker, launching, logged, client, ran, clearLog>>

\* build_evidence_bundle archives the files as they are.
Bundle(t) ==
  /\ At(t, "export", "bundle")
  /\ Finish(t)
  /\ UNCHANGED <<files, sample, worker, launching, logged, client, ran, clearLog>>

-----------------------------------------------------------------------------
(* Preparation, and what happens beside the requests *)

\* Only in the directory that a preparation removes can these files be written.
Homeless(t) == At(t, "upload", "metadata") \/ At(t, "status", "file")

\* prepare_case_workspace removes the workspace, the worker's record in it
\* included, and starts it anew.  It may come late, or again, while requests are
\* served: those that reach for a file while there is none break off, the others
\* go on with what they hold.
Prepare ==
  /\ \/ /\ Quiet /\ client' = [client EXCEPT !.overlaps = 0]
        /\ ran' = FALSE /\ clearLog' = FALSE
     \/ Overlap("prepare") /\ UNCHANGED <<ran, clearLog>>
  /\ \E broken \in SUBSET Threads :
       /\ \A t \in Threads : Homeless(t) => t \in broken
       /\ request' = [t \in Threads |-> IF t \in broken THEN Idle ELSE request[t]]
  /\ state' = Prepared /\ metadata' = FALSE /\ sample' = FALSE
  /\ readiness' = "not_checked" /\ collection' = NotCollected
  /\ report' = EmptyReport /\ summary' = "none"
  /\ worker' = "not_started" /\ logged' = FALSE
  /\ UNCHANGED launching

\* The worker reaches an execute whose client gave up, or never does.
LateLaunch ==
  /\ launching /\ launching' = FALSE
  /\ \/ /\ MayStart /\ worker' \in {"running", "launch_failed"}
        /\ ran' = (ran \/ worker' = "running")
     \/ UNCHANGED <<worker, ran>>
  /\ UNCHANGED <<files, sample, logged, request, client, clearLog>>

\* The security product logs a detection, or removes the sample.
Protect ==
  /\ \/ metadata /\ logged' = TRUE /\ UNCHANGED sample
     \/ sample /\ sample' = FALSE /\ UNCHANGED logged
  /\ UNCHANGED <<files, worker, launching, request, client, ran, clearLog>>

Serve(t) ==
  \/ BeginUpload(t) \/ UploadMetadata(t) \/ UploadState(t)
  \/ BeginStatus(t) \/ StatusProbe(t) \/ StatusFile(t) \/ StatusState(t)
  \/ BeginReadiness(t) \/ ReadinessRead(t) \/ ReadinessFile(t)
  \/ WriteBack(t)
  \/ BeginExecute(t) \/ Launch(t) \/ LaunchError(t) \/ RecordWorkerFile(t)
  \/ BeginPoll(t) \/ ExecutionRead(t) \/ ExecutionState(t)
  \/ BeginCollect(t) \/ CollectWindow(t) \/ CollectLog(t) \/ CollectionWrite(t)
  \/ BeginSummary(t, "summary") \/ BeginSummary(t, "export")
  \/ WriteSummary(t) \/ Bundle(t)
  \/ BeginReport(t) \/ WriteReport(t) \/ Refused(t)

Next ==
  (\E t \in Threads : Serve(t)) \/ Prepare \/ LateLaunch \/ Protect

Spec == Init /\ [][Next]_vars

-----------------------------------------------------------------------------
(* Properties *)

\* A summary that observed no detection rests on a sample that the worker started
\* and on a log read clear after the start -- even when requests overlap, are
\* refused half way, the worker starts the sample late, or the case is prepared
\* again while requests are served (_decide_verdict).  Such a preparation does
\* not part the case from the one before: the start and the log may be of
\* either, as the code leaves requests of the earlier one at work.
AllClearIsBacked == summary = "no_detection_observed" => ran /\ clearLog

\* A collection that found the log clear in a window covering the execution.
Covers(file) == file.finding = "clear" /\ file.afterStart

\* A request knows of an execution only what the worker did, and holds a clear
\* log only if one was read after the start.
Sound(r) ==
  /\ r.at = "idle" => r = Idle
  /\ r.op = "collect" /\ r.at = "stamp" => r.collection = NotCollected
  /\ r.execution \in Started \/ r.seen.execution \in Started \/ r.collection.afterStart
       => ran
  /\ Covers(r.collection) => clearLog

\* The inductive invariant: no file and no request claims a start that the
\* worker did not make or a clear log that no collection read, whatever other
\* requests wrote between its reads and its writes.
CaseInv ==
  /\ TypeOK
  /\ worker \in Started \/ state.execution \in Started => ran
  /\ Covers(collection) => clearLog
  /\ \A t \in Threads : Sound(request[t])
  /\ AllClearIsBacked

\* Between requests case_report.json shows the case as its files have it, as
\* long as no two requests overlapped.
ReportIsFresh == Quiet /\ Sequential => report = CurrentReport

\* The verdict in an evidence bundle is the verdict on the files beside it, as
\* long as no two requests overlapped.
BundleAgrees ==
  \A t \in Threads : Sequential /\ At(t, "export", "bundle") =>
    summary = Evaluate(state, readiness, collection)

\* Only observing the execution, a new upload or a new preparation changes the
\* execution the case state records, as long as no two requests overlapped.
ExecutionKept ==
  [][Sequential /\ Sequential' /\ state'.execution # state.execution =>
       \/ \E t \in Threads : request[t].op \in {"execute", "poll", "upload"}
       \/ ~metadata']_vars

=============================================================================
