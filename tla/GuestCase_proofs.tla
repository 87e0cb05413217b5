-------------------------- MODULE GuestCase_proofs --------------------------
(***************************************************************************)
(* An all-clear verdict rests on a started sample and on a log read clear  *)
(* after the start, for any number of threads and of overlapping requests. *)
(***************************************************************************)
EXTENDS GuestCase, TLAPS

-----------------------------------------------------------------------------
(* The evaluator *)

\* Whatever the evidence, _decide_verdict answers one of the five verdicts.
LEMMA VerdictType ==
  ASSUME NEW upload, NEW execution, NEW file, NEW ready
  PROVE  Verdict(upload, execution, file, ready) \in Verdicts
BY DEF Verdict, StableVerdict, Verdicts

\* No detection is claimed only of a stable upload, an observed execution, a
\* complete collection without evidence whose window covers the execution, and
\* a ready product.
THEOREM AllClearConditions ==
  ASSUME NEW upload, NEW execution, NEW file, NEW ready,
         Verdict(upload, execution, file, ready) = "no_detection_observed"
  PROVE  /\ upload = "stable"
         /\ ready = "ready"
         /\ execution \in ObservedExecution
         /\ file.state = "collected"
         /\ file.verdict = "not_intercepted"
         /\ file.evidence = 0
         /\ file.coversExecution
         /\ ~file.errors
BY DEF Verdict, StableVerdict, ObservedClear, FoundNothing, Incomplete,
       AllowsAllClear

-----------------------------------------------------------------------------
(* Types *)

LEMMA IdleType == Idle \in Request /\ Reporting \in Request
BY DEF Idle, Reporting, Request, Operations, Places, CaseState, UploadStates,
       Executions, Started, Prepared, Probes, Readiness, CollectionFile,
       NotCollected

LEMMA PreparedType ==
  Prepared \in CaseState /\ NotCollected \in CollectionFile /\ EmptyReport \in Report
BY DEF EmptyReport, Report, Prepared, CaseState, UploadStates, Executions,
       Started, Readiness, NotCollected, CollectionFile

LEMMA InitType == Init => TypeOK
<1> SUFFICES ASSUME Init PROVE TypeOK
  OBVIOUS
<1>1. client \in [scope: Scopes, overlaps: 0..MaxOverlaps]
  BY GuestAssumption DEF Init
<1>2. worker \in Executions /\ readiness \in Readiness
  BY DEF Init, Executions, Readiness
<1> QED BY <1>1, <1>2, IdleType, PreparedType DEF Init, TypeOK

\* A request over another that is served is counted.
LEMMA OverlapType ==
  ASSUME TypeOK, NEW op, Overlap(op)
  PROVE  client' \in [scope: Scopes, overlaps: 0..MaxOverlaps] /\ ~Sequential'
<1>1. /\ client.overlaps < MaxOverlaps
      /\ client' = [client EXCEPT !.overlaps = @ + 1]
      /\ client \in [scope: Scopes, overlaps: 0..MaxOverlaps]
  BY DEF Overlap, TypeOK
<1>2. client.overlaps + 1 \in 0..MaxOverlaps /\ client.overlaps + 1 # 0
  BY <1>1, GuestAssumption
<1> QED BY <1>1, <1>2 DEF Sequential

\* A request begins typed if its first file operation is.
LEMMA BeginType ==
  ASSUME TypeOK, NEW t \in Threads, NEW first \in Request, Begin(t, first)
  PROVE  /\ request' \in [Threads -> Request]
         /\ client' \in [scope: Scopes, overlaps: 0..MaxOverlaps]
<1>1. request' \in [Threads -> Request]
  BY DEF Begin, TypeOK
<1>2. CASE UNCHANGED client
  BY <1>1, <1>2 DEF TypeOK
<1>3. CASE Overlap(first.op)
  BY <1>1, <1>3, OverlapType
<1> QED BY <1>1, <1>2, <1>3 DEF Begin

\* The fields of a request, so that the steps below need not open it.
LEMMA RequestFields ==
  ASSUME TypeOK, NEW t \in Threads
  PROVE  /\ request[t].op \in Operations /\ request[t].at \in Places
         /\ request[t].seen \in CaseState /\ request[t].readiness \in Readiness
         /\ request[t].execution \in Executions
         /\ request[t].collection \in CollectionFile
BY DEF TypeOK, Request

LEMMA FinishType ==
  ASSUME TypeOK, NEW t \in Threads
  PROVE  /\ Finish(t) => request' \in [Threads -> Request]
         /\ ToReport(t) => request' \in [Threads -> Request]
         /\ \A place \in Places : Goto(t, place) => request' \in [Threads -> Request]
<1>1. Finish(t) => request' \in [Threads -> Request]
  BY IdleType DEF Finish, TypeOK
<1>2. ToReport(t) => request' \in [Threads -> Request]
  BY IdleType DEF ToReport, TypeOK
<1>3. ASSUME NEW place \in Places, Goto(t, place)
      PROVE  request' \in [Threads -> Request]
  BY <1>3 DEF Goto, TypeOK, Request
<1> QED BY <1>1, <1>2, <1>3

LEMMA ReportType == TypeOK => CurrentReport \in Report
BY DEF TypeOK, CurrentReport, Report

-----------------------------------------------------------------------------
(* The invariant *)

LEMMA InitInv == Init => CaseInv
<1> SUFFICES ASSUME Init PROVE CaseInv
  OBVIOUS
<1>1. \A t \in Threads : request[t] = Idle
  BY DEF Init
<1>2. Sound(Idle)
  BY DEF Sound, Idle, Prepared, NotCollected, Covers, Started
<1> QED BY <1>1, <1>2, InitType
        DEF Init, CaseInv, AllClearIsBacked, Covers, NotCollected, Prepared, Started

\* A step that gives one request a sound value, and takes back neither a start
\* nor a clear log, leaves every request sound.
LEMMA RequestStep ==
  ASSUME CaseInv, NEW t \in Threads, NEW r \in Request,
         request' = [request EXCEPT ![t] = r], Sound(r)',
         ran => ran',
         clearLog => clearLog'
  PROVE  /\ request' \in [Threads -> Request]
         /\ \A u \in Threads : Sound(request[u])'
<1>1. request \in [Threads -> Request] /\ \A u \in Threads : Sound(request[u])
  BY DEF CaseInv, TypeOK
<1>2. request' \in [Threads -> Request]
  BY <1>1
<1>3. ASSUME NEW u \in Threads PROVE Sound(request[u])'
  <2>1. CASE u = t
    BY <1>1, <2>1 DEF Sound
  <2>2. CASE u # t
    <3>1. request'[u] = request[u]
      BY <1>1, <2>2
    <3> QED BY <1>1, <3>1 DEF Sound
  <2> QED BY <2>1, <2>2
<1> QED BY <1>2, <1>3

\* The same for a request that begins.
LEMMA BeginStep ==
  ASSUME CaseInv, NEW t \in Threads, NEW first \in Request, Begin(t, first),
         Sound(first)', ran => ran', UNCHANGED clearLog
  PROVE  /\ request' \in [Threads -> Request]
         /\ client' \in [scope: Scopes, overlaps: 0..MaxOverlaps]
         /\ \A u \in Threads : Sound(request[u])'
<1>1. request' = [request EXCEPT ![t] = first] /\ TypeOK
  BY DEF Begin, CaseInv
<1> QED BY <1>1, RequestStep, BeginType

\* A request that ends, or turns to its report, holds nothing any more.
LEMMA EmptySound == Sound(Idle)' /\ Sound(Reporting)'
BY DEF Sound, Idle, Reporting, Prepared, NotCollected, Covers, Started

\* A request that goes on with what it holds.
LEMMA GotoStep ==
  ASSUME CaseInv, NEW t \in Threads, NEW place \in Places, Goto(t, place),
         place \notin {"idle", "stamp"},
         ran => ran', UNCHANGED clearLog
  PROVE  /\ request' \in [Threads -> Request]
         /\ \A u \in Threads : Sound(request[u])'
<1>1. PICK q \in Request : q = request[t] /\ Sound(q)
  BY DEF CaseInv, TypeOK
<1>2. PICK r : r = [q EXCEPT !.at = place]
  OBVIOUS
<1>3. r \in Request /\ request' = [request EXCEPT ![t] = r]
  BY <1>1, <1>2 DEF Request, Goto
<1>4. /\ r.at = place /\ r.op = q.op /\ r.execution = q.execution
      /\ r.seen = q.seen /\ r.collection = q.collection
  BY <1>1, <1>2 DEF Request
<1>5. Sound(r)'
  BY <1>1, <1>4 DEF Sound, Covers
<1> QED BY <1>3, <1>5, RequestStep

\* Requests that only read, or write what they hold, one lemma for each part of
\* the module.
LEMMA ReportSteps ==
  ASSUME CaseInv, NEW t \in Threads,
         BeginReport(t) \/ WriteReport(t) \/ Refused(t) \/ Bundle(t)
  PROVE  CaseInv'
<1>1. CASE BeginReport(t)
  BY <1>1, BeginStep, IdleType, EmptySound
  DEF BeginReport, files, CaseInv, TypeOK, AllClearIsBacked, Covers
<1>2. CASE WriteReport(t) \/ Refused(t) \/ Bundle(t)
  <2>1. request' = [request EXCEPT ![t] = Idle]
    BY <1>2 DEF WriteReport, Refused, Bundle, Finish
  <2>2. worker' = worker /\ ran' = ran /\ clearLog' = clearLog
    BY <1>2 DEF WriteReport, Refused, Bundle
  <2>3. (ran => ran') /\ (clearLog => clearLog')
    BY <2>2
  <2>4. request' \in [Threads -> Request] /\ \A u \in Threads : Sound(request[u])'
    BY <2>1, <2>3, RequestStep, IdleType, EmptySound
  <2>5. report' \in Report
    BY <1>2, ReportType DEF WriteReport, Refused, Bundle, files, CaseInv, TypeOK
  <2> QED BY <1>2, <2>2, <2>4, <2>5 DEF WriteReport, Refused, Bundle, files, CaseInv,
                                  TypeOK, AllClearIsBacked, Covers
<1> QED BY <1>1, <1>2

LEMMA UploadSteps ==
  ASSUME CaseInv, NEW t \in Threads,
         BeginUpload(t) \/ UploadMetadata(t) \/ UploadState(t)
  PROVE  CaseInv'
<1>1. CASE BeginUpload(t)
  <2> DEFINE first == [Idle EXCEPT !.op = "upload", !.at = "metadata"]
  <2>1. first \in Request /\ Sound(first)'
    BY IdleType, EmptySound DEF Sound, Request, Operations, Places, Covers, Idle
  <2> QED BY <1>1, <2>1, BeginStep DEF BeginUpload, files, CaseInv, TypeOK,
                                       AllClearIsBacked, Covers
<1>2. CASE UploadMetadata(t)
  <2>1. Goto(t, "write") /\ "write" \in Places
    BY <1>2 DEF UploadMetadata, Places
  <2> QED BY <1>2, <2>1, GotoStep
          DEF UploadMetadata, CaseInv, TypeOK, AllClearIsBacked, Covers
<1>3. CASE UploadState(t)
  <2>1. request' = [request EXCEPT ![t] = Reporting]
    BY <1>3 DEF UploadState, ToReport
  <2>2. state' \in CaseState /\ state'.execution \notin Started
    BY <1>3 DEF UploadState, CaseState, UploadStates, Executions, Started
  <2> QED BY <1>3, <2>1, <2>2, RequestStep, IdleType, EmptySound
          DEF UploadState, CaseInv, TypeOK, AllClearIsBacked, Covers
<1> QED BY <1>1, <1>2, <1>3

LEMMA StatusSteps ==
  ASSUME CaseInv, NEW t \in Threads,
         BeginStatus(t) \/ StatusProbe(t) \/ StatusFile(t) \/ StatusState(t)
  PROVE  CaseInv'
<1>1. CASE BeginStatus(t)
  <2>1. PICK first : first = [Idle EXCEPT !.op = "status", !.at = "probe", !.seen = state]
    OBVIOUS
  <2>2. first \in Request
    BY <2>1, IdleType DEF Request, Operations, Places, CaseInv, TypeOK
  <2>3. Sound(first)'
    BY <1>1, <2>1 DEF BeginStatus, Sound, Covers, Idle, NotCollected, Started,
                      CaseInv
  <2> QED BY <1>1, <2>1, <2>2, <2>3, BeginStep
          DEF BeginStatus, files, CaseInv, TypeOK, AllClearIsBacked, Covers
<1>2. CASE StatusProbe(t)
  <2>1. PICK q \in Request : q = request[t] /\ Sound(q)
    BY DEF CaseInv, TypeOK
  <2>2. PICK probe \in Probes :
          request' = [request EXCEPT ![t].at = "file", ![t].probe = probe]
    BY <1>2 DEF StatusProbe, Probes
  <2>3. PICK r : r = [q EXCEPT !.at = "file", !.probe = probe]
    OBVIOUS
  <2>4. r \in Request /\ request' = [request EXCEPT ![t] = r]
    BY <2>1, <2>2, <2>3 DEF Request, Places, CaseInv, TypeOK
  <2>5. /\ r.at = "file" /\ r.op = q.op /\ r.execution = q.execution
        /\ r.seen = q.seen /\ r.collection = q.collection
    BY <2>1, <2>3 DEF Request
  <2>6. Sound(r)'
    BY <1>2, <2>1, <2>5 DEF StatusProbe, Sound, Covers
  <2> QED BY <1>2, <2>4, <2>6, RequestStep
          DEF StatusProbe, files, CaseInv, TypeOK, AllClearIsBacked, Covers
<1>3. CASE StatusState(t)
  <2>1. request' = [request EXCEPT ![t] = Reporting]
    BY <1>3 DEF StatusState, ToReport
  <2>2. /\ request[t].seen \in CaseState
        /\ request[t].seen.execution \in Started => ran
    BY RequestFields DEF CaseInv, Sound
  <2>3. state' \in CaseState /\ state'.execution = request[t].seen.execution
    BY <1>3, <2>2 DEF StatusState, Refreshed, Observed, CaseState, UploadStates,
                      CaseInv, TypeOK, Request, At, Probes
  <2> QED BY <1>3, <2>1, <2>2, <2>3, RequestStep, IdleType, EmptySound
          DEF StatusState, CaseInv, TypeOK, AllClearIsBacked, Covers
<1>4. CASE StatusFile(t)
  <2>1. Goto(t, "write") /\ "write" \in Places
    BY <1>4 DEF StatusFile, Places
  <2> QED BY <1>4, <2>1, GotoStep
          DEF StatusFile, CaseInv, TypeOK, AllClearIsBacked, Covers
<1> QED BY <1>1, <1>2, <1>3, <1>4

LEMMA ReadinessSteps ==
  ASSUME CaseInv, NEW t \in Threads,
         BeginReadiness(t) \/ ReadinessRead(t) \/ ReadinessFile(t) \/ WriteBack(t)
  PROVE  CaseInv'
<1>0. PICK q \in Request : q = request[t] /\ Sound(q)
  BY DEF CaseInv, TypeOK
<1>1. CASE BeginReadiness(t)
  <2>1. PICK found \in Readiness :
          /\ Begin(t, [Idle EXCEPT !.op = "readiness", !.at = "read", !.readiness = found])
          /\ UNCHANGED <<files, sample, worker, launching, logged, ran, clearLog>>
    <3>1. client.scope.products \subseteq Readiness
      BY GuestAssumption DEF CaseInv, TypeOK, Scope, Readiness
    <3> QED BY <1>1, <3>1 DEF BeginReadiness
  <2>2. PICK first :
          first = [Idle EXCEPT !.op = "readiness", !.at = "read", !.readiness = found]
    OBVIOUS
  <2>3. first \in Request
    BY <2>2, IdleType DEF Request, Operations, Places
  <2>4. Sound(first)'
    BY <2>2 DEF Sound, Covers, Idle, NotCollected, Started, Prepared
  <2> QED BY <2>1, <2>2, <2>3, <2>4, BeginStep
          DEF files, CaseInv, TypeOK, AllClearIsBacked, Covers
<1>2. CASE ReadinessRead(t)
  <2>1. PICK r : r = [q EXCEPT !.at = "file", !.seen = state]
    OBVIOUS
  <2>2. r \in Request /\ request' = [request EXCEPT ![t] = r]
    BY <1>0, <1>2, <2>1 DEF ReadinessRead, Request, Places, CaseInv, TypeOK
  <2>3. /\ r.at = "file" /\ r.op = q.op /\ r.execution = q.execution
        /\ r.seen = state /\ r.collection = q.collection
    BY <1>0, <2>1 DEF Request
  <2>4. Sound(r)'
    BY <1>0, <1>2, <2>3 DEF ReadinessRead, Sound, Covers, CaseInv
  <2> QED BY <1>2, <2>2, <2>4, RequestStep
          DEF ReadinessRead, files, CaseInv, TypeOK, AllClearIsBacked, Covers
<1>3. CASE ReadinessFile(t)
  <2>1. PICK r : r = [q EXCEPT !.at = "write", !.readiness = "not_checked"]
    OBVIOUS
  <2>2. r \in Request /\ request' = [request EXCEPT ![t] = r]
    BY <1>0, <1>3, <2>1
    DEF ReadinessFile, Request, Places, Readiness, CaseInv, TypeOK
  <2>3. /\ r.at = "write" /\ r.op = q.op /\ r.execution = q.execution
        /\ r.seen = q.seen /\ r.collection = q.collection
    BY <1>0, <2>1 DEF Request
  <2>4. Sound(r)'
    BY <1>0, <1>3, <2>3 DEF ReadinessFile, Sound, Covers
  <2>5. readiness' \in Readiness
    BY <1>3, RequestFields DEF ReadinessFile, CaseInv
  <2> QED BY <1>3, <2>2, <2>4, <2>5, RequestStep
          DEF ReadinessFile, CaseInv, TypeOK, AllClearIsBacked, Covers
<1>4. CASE WriteBack(t)
  <2>1. state' = q.seen /\ q.seen \in CaseState
    BY <1>0, <1>4 DEF WriteBack, Request
  <2>2. state'.execution \in Started => ran
    BY <1>0, <2>1 DEF Sound
  <2>3. CASE q.op = "collect"
    <3>1. PICK r : r = [q EXCEPT !.at = "file", !.seen = Prepared]
      OBVIOUS
    <3>2. r \in Request /\ request' = [request EXCEPT ![t] = r]
      BY <1>0, <1>4, <2>3, <3>1, PreparedType
      DEF WriteBack, Request, Places, CaseInv, TypeOK
    <3>3. /\ r.at = "file" /\ r.op = q.op /\ r.execution = q.execution
          /\ r.seen = Prepared /\ r.collection = q.collection
      BY <1>0, <3>1 DEF Request
    <3>4. Sound(r)'
      BY <1>0, <1>4, <3>3 DEF WriteBack, Sound, Covers, Prepared, Started
    <3> QED BY <1>4, <2>1, <2>2, <3>2, <3>4, RequestStep
            DEF WriteBack, CaseInv, TypeOK, AllClearIsBacked, Covers
  <2>4. CASE q.op # "collect"
    <3>1. request' = [request EXCEPT ![t] = Reporting]
      BY <1>0, <1>4, <2>4 DEF WriteBack, ToReport
    <3> QED BY <1>4, <2>1, <2>2, <3>1, RequestStep, IdleType, EmptySound
            DEF WriteBack, CaseInv, TypeOK, AllClearIsBacked, Covers
  <2> QED BY <2>3, <2>4
<1> QED BY <1>1, <1>2, <1>3, <1>4

\* Whatever the worker answers, a start it made stays made.
LEMMA WorkerMoves ==
  ASSUME CaseInv
  PROVE  /\ worker' = "running" => worker' \in Executions /\ worker' \in Started
         /\ MayStart => worker \notin Started
         /\ worker' \in Polled =>
              /\ worker' \in Executions
              /\ worker \in Started <=> worker' \in Started
<1>1. client.scope.ends \subseteq Started
  BY GuestAssumption DEF CaseInv, TypeOK, Scope, Started
<1>2. worker \in Executions
  BY DEF CaseInv, TypeOK
<1> QED BY <1>1, <1>2 DEF Polled, MayStart, Executions, Started

LEMMA ExecutionSteps ==
  ASSUME CaseInv, NEW t \in Threads,
         \/ BeginExecute(t) \/ Launch(t) \/ LaunchError(t) \/ RecordWorkerFile(t)
         \/ BeginPoll(t) \/ ExecutionRead(t) \/ ExecutionState(t)
  PROVE  CaseInv'
<1>0. PICK q \in Request : q = request[t] /\ Sound(q)
  BY DEF CaseInv, TypeOK
<1>1. CASE BeginExecute(t)
  <2>1. PICK first : /\ first = IF ~sample THEN Reporting
                                ELSE [Idle EXCEPT !.op = "execute", !.at = "forward"]
                     /\ Begin(t, first)
    BY <1>1 DEF BeginExecute
  <2>2. first \in Request
    BY <2>1, IdleType DEF Request, Operations, Places
  <2>3. Sound(first)'
    BY <2>1, EmptySound DEF Sound, Covers, Idle, NotCollected, Started, Prepared
  <2> QED BY <1>1, <2>1, <2>2, <2>3, BeginStep
          DEF BeginExecute, files, CaseInv, TypeOK, AllClearIsBacked, Covers
<1>2. CASE Launch(t)
  <2>1. PICK r : r = [q EXCEPT !.at = "read", !.execution = "running"]
    OBVIOUS
  <2>2. r \in Request /\ request' = [request EXCEPT ![t] = r]
    BY <1>0, <1>2, <2>1
    DEF Launch, Request, Places, Executions, Started, CaseInv, TypeOK
  <2>3. r.at = "read" /\ r.op = q.op /\ r.collection = q.collection
    BY <1>0, <2>1 DEF Request
  <2>4. worker' \in Started /\ worker' \in Executions
    BY <1>2, WorkerMoves DEF Launch
  <2>5. Sound(r)'
    BY <1>0, <1>2, <2>3, <2>4 DEF Launch, Sound, Covers
  <2> QED BY <1>2, <2>2, <2>4, <2>5, RequestStep
          DEF Launch, files, CaseInv, TypeOK, AllClearIsBacked, Covers
<1>3. CASE LaunchError(t)
  <2>1. /\ worker' \in Executions /\ launching' \in BOOLEAN
        /\ worker' \in Started => worker \in Started
    BY <1>3, WorkerMoves DEF LaunchError, Executions, Started, CaseInv, TypeOK
  <2>2. Goto(t, "observe") /\ "observe" \in Places
    BY <1>3 DEF LaunchError, Places
  <2> QED BY <1>3, <2>1, <2>2, GotoStep
          DEF LaunchError, files, CaseInv, TypeOK, AllClearIsBacked, Covers
<1>4. CASE RecordWorkerFile(t)
  <2>1. CASE worker = "not_started"
    <3>1. request' = [request EXCEPT ![t] = Idle]
      BY <1>4, <2>1 DEF RecordWorkerFile, Finish
    <3> QED BY <1>4, <3>1, RequestStep, IdleType, EmptySound
            DEF RecordWorkerFile, files, CaseInv, TypeOK, AllClearIsBacked, Covers
  <2>2. CASE worker # "not_started"
    <3>1. PICK r : r = [q EXCEPT !.at = "read", !.execution = worker]
      OBVIOUS
    <3>2. r \in Request /\ request' = [request EXCEPT ![t] = r]
      BY <1>0, <1>4, <2>2, <3>1
      DEF RecordWorkerFile, Request, Places, CaseInv, TypeOK
    <3>3. /\ r.at = "read" /\ r.op = q.op /\ r.execution = worker
          /\ r.seen = q.seen /\ r.collection = q.collection
      BY <1>0, <3>1 DEF Request
    <3>4. Sound(r)'
      BY <1>0, <1>4, <3>3 DEF RecordWorkerFile, Sound, Covers, CaseInv
    <3> QED BY <1>4, <3>2, <3>4, RequestStep
            DEF RecordWorkerFile, files, CaseInv, TypeOK, AllClearIsBacked, Covers
  <2> QED BY <2>1, <2>2
<1>5. CASE BeginPoll(t)
  <2>1. /\ worker' \in Executions
        /\ worker \in Started <=> worker' \in Started
    BY <1>5, WorkerMoves DEF BeginPoll
  <2>2. PICK first :
          /\ first = IF worker = "not_started" THEN Reporting
                     ELSE [Idle EXCEPT !.op = "poll", !.at = "read", !.execution = worker']
          /\ Begin(t, first)
    BY <1>5 DEF BeginPoll
  <2>3. first \in Request
    BY <2>1, <2>2, IdleType DEF Request, Operations, Places
  <2>4. Sound(first)'
    <3>1. worker' \in Started => ran'
      BY <1>5, <2>1 DEF BeginPoll, CaseInv
    <3>2. CASE first = Reporting
      BY <3>2, EmptySound DEF Sound
    <3>3. CASE first = [Idle EXCEPT !.op = "poll", !.at = "read", !.execution = worker']
      <4>1. /\ first.at = "read" /\ first.op = "poll" /\ first.execution = worker'
            /\ first.seen = Prepared /\ first.collection = NotCollected
        BY <3>3 DEF Idle
      <4> QED BY <3>1, <4>1 DEF Sound, Covers, NotCollected, Started, Prepared
    <3> QED BY <2>2, <3>2, <3>3
  <2> QED BY <1>5, <2>1, <2>2, <2>3, <2>4, BeginStep
          DEF BeginPoll, files, CaseInv, TypeOK, AllClearIsBacked, Covers
<1>6. CASE ExecutionRead(t)
  <2>1. PICK r : r = [q EXCEPT !.at = "write", !.seen = state]
    OBVIOUS
  <2>2. r \in Request /\ request' = [request EXCEPT ![t] = r]
    BY <1>0, <1>6, <2>1 DEF ExecutionRead, Request, Places, CaseInv, TypeOK
  <2>3. /\ r.at = "write" /\ r.op = q.op /\ r.execution = q.execution
        /\ r.seen = state /\ r.collection = q.collection
    BY <1>0, <2>1 DEF Request
  <2>4. Sound(r)'
    BY <1>0, <1>6, <2>3 DEF ExecutionRead, Sound, Covers, CaseInv
  <2> QED BY <1>6, <2>2, <2>4, RequestStep
          DEF ExecutionRead, files, CaseInv, TypeOK, AllClearIsBacked, Covers
<1>7. CASE ExecutionState(t)
  <2>1. request' = [request EXCEPT ![t] = Reporting]
    BY <1>7 DEF ExecutionState, ToReport
  <2>2. state' = [q.seen EXCEPT !.execution = q.execution]
    BY <1>0, <1>7 DEF ExecutionState
  <2>3. state' \in CaseState /\ state'.execution = q.execution
    BY <1>0, <2>2 DEF Request, CaseState
  <2> QED BY <1>0, <1>7, <2>1, <2>3, RequestStep, IdleType, EmptySound
          DEF ExecutionState, Sound, CaseInv, TypeOK, AllClearIsBacked, Covers
<1> QED BY <1>1, <1>2, <1>3, <1>4, <1>5, <1>6, <1>7

LEMMA CollectionSteps ==
  ASSUME CaseInv, NEW t \in Threads,
         BeginCollect(t) \/ CollectWindow(t) \/ CollectLog(t) \/ CollectionWrite(t)
  PROVE  CaseInv'
<1>0. PICK q \in Request : q = request[t] /\ Sound(q)
  BY DEF CaseInv, TypeOK
<1>1. CASE BeginCollect(t)
  <2>1. PICK first : first = [Idle EXCEPT !.op = "collect", !.at = "stamp", !.seen = state]
    OBVIOUS
  <2>2. first \in Request
    BY <2>1, IdleType DEF Request, Operations, Places, CaseInv, TypeOK
  <2>3. Sound(first)'
    BY <1>1, <2>1 DEF BeginCollect, Sound, Covers, Idle, NotCollected, Started,
                      CaseInv
  <2> QED BY <1>1, <2>1, <2>2, <2>3, BeginStep
          DEF BeginCollect, files, CaseInv, TypeOK, AllClearIsBacked, Covers
<1>2. CASE CollectWindow(t)
  <2>1. q.op = "collect" /\ q.collection = NotCollected
    BY <1>0, <1>2 DEF CollectWindow, At, Sound
  <2>0. PICK after \in BOOLEAN : after <=> worker \in Started
    OBVIOUS
  <2>2. PICK r : r = [q EXCEPT !.at = "log", !.collection.afterStart = after]
    OBVIOUS
  <2>3. /\ r.at = "log" /\ r.op = q.op /\ r.execution = q.execution /\ r.seen = q.seen
        /\ r.collection = [finding |-> "not_collected", afterStart |-> after]
    BY <1>0, <2>1, <2>2 DEF Request, NotCollected
  <2>4. request' = [request EXCEPT ![t] = r]
    <3>1. after = (worker \in Started)
      BY <2>0
    <3> QED BY <1>0, <1>2, <2>2, <3>1 DEF CollectWindow, CaseInv, TypeOK
  <2>5. r.collection \in CollectionFile
    BY <2>3 DEF CollectionFile
  <2>6. r \in Request
    BY <1>0, <2>2, <2>3, <2>5 DEF Request, Places
  <2>7. Sound(r)'
    <3>1. r.collection.afterStart => ran
      BY <2>0, <2>3 DEF CaseInv
    <3>2. r.collection.finding = "not_collected" /\ UNCHANGED ran
      BY <1>2, <2>3 DEF CollectWindow
    <3> QED BY <1>0, <2>3, <3>1, <3>2 DEF Sound, Covers
  <2> QED BY <1>2, <2>4, <2>6, <2>7, RequestStep
          DEF CollectWindow, files, CaseInv, TypeOK, AllClearIsBacked, Covers
<1>3. CASE CollectLog(t)
  <2>0. client.scope.findings \subseteq {"not_collected", "weak", "partial", "failed"}
    BY GuestAssumption DEF CaseInv, TypeOK, Scope
  <2>1. PICK finding \in Found :
          /\ request' = [request EXCEPT ![t].at = "write",
                                        ![t].collection.finding = finding]
          /\ clearLog' = (clearLog \/ (finding = "clear" /\ ran))
    BY <1>3 DEF CollectLog
  <2>2. PICK r : r = [q EXCEPT !.at = "write", !.collection.finding = finding]
    OBVIOUS
  <2>3. /\ r.at = "write" /\ r.op = q.op /\ r.execution = q.execution /\ r.seen = q.seen
        /\ r.collection.finding = finding
        /\ r.collection.afterStart = q.collection.afterStart
    BY <1>0, <2>2 DEF Request, CollectionFile
  <2>4. request' = [request EXCEPT ![t] = r]
    BY <1>0, <2>1, <2>2 DEF CaseInv, TypeOK
  <2>5. r.collection \in CollectionFile
    BY <1>0, <2>0, <2>2 DEF Request, CollectionFile, Found
  <2>6. r \in Request
    BY <1>0, <2>2, <2>5 DEF Request, Places
  <2>7. /\ clearLog => clearLog'
        /\ finding = "clear" /\ ran => clearLog'
        /\ clearLog' \in BOOLEAN
    BY <2>1 DEF CaseInv, TypeOK
  <2>8. Sound(r)'
    BY <1>0, <1>3, <2>3, <2>7 DEF CollectLog, Sound, Covers
  <2> QED BY <1>3, <2>4, <2>6, <2>7, <2>8, RequestStep
          DEF CollectLog, files, CaseInv, TypeOK, AllClearIsBacked, Covers
<1>4. CASE CollectionWrite(t)
  <2>1. request' = [request EXCEPT ![t] = Reporting]
    BY <1>4 DEF CollectionWrite, ToReport
  <2>2. collection' = q.collection /\ q.collection \in CollectionFile
    BY <1>0, <1>4 DEF CollectionWrite, Request
  <2> QED BY <1>0, <1>4, <2>1, <2>2, RequestStep, IdleType, EmptySound
          DEF CollectionWrite, Sound, CaseInv, TypeOK, AllClearIsBacked, Covers
<1> QED BY <1>1, <1>2, <1>3, <1>4

\* An all-clear summary comes from an execution that was recorded and a
\* collection file that covers it.
LEMMA EvaluateClear ==
  ASSUME NEW shown \in CaseState, NEW ready, NEW file \in CollectionFile,
         Evaluate(shown, ready, file) = "no_detection_observed"
  PROVE  shown.execution \in Started /\ Covers(file)
<1>1. shown.execution \in ObservedExecution /\ shown.execution \in Executions
  BY AllClearConditions DEF Evaluate, CaseState
<1>2. Evidence(file).verdict = "not_intercepted" /\ Evidence(file).coversExecution
  BY AllClearConditions DEF Evaluate
<1>3. file.finding = "clear" /\ file.afterStart
  BY <1>2 DEF Evidence
<1> QED BY <1>1, <1>3 DEF ObservedExecution, Executions, Started, Covers

LEMMA SummarySteps ==
  ASSUME CaseInv, NEW t \in Threads,
         \/ BeginSummary(t, "summary") \/ BeginSummary(t, "export")
         \/ WriteSummary(t)
  PROVE  CaseInv'
<1>0. PICK q \in Request : q = request[t] /\ Sound(q)
  BY DEF CaseInv, TypeOK
<1>1. ASSUME NEW op \in {"summary", "export"}, BeginSummary(t, op) PROVE CaseInv'
  <2>1. PICK first : first = [Idle EXCEPT !.op = op, !.at = "evaluate",
                                          !.seen = state, !.readiness = readiness]
    OBVIOUS
  <2>2. first \in Request
    BY <2>1, IdleType DEF Request, Operations, Places, CaseInv, TypeOK
  <2>3. Sound(first)'
    BY <1>1, <2>1 DEF BeginSummary, Sound, Covers, Idle, NotCollected, Started,
                      CaseInv
  <2>4. report' \in Report
    BY <1>1, ReportType DEF BeginSummary, CaseInv
  <2> QED BY <1>1, <2>1, <2>2, <2>3, <2>4, BeginStep
          DEF BeginSummary, CaseInv, TypeOK, AllClearIsBacked, Covers
<1>2. CASE WriteSummary(t)
  <2>1. summary' = Evaluate(q.seen, q.readiness, collection)
    BY <1>0, <1>2 DEF WriteSummary
  <2>2. summary' \in Verdicts
    BY <2>1, VerdictType DEF Evaluate
  <2>3. summary' = "no_detection_observed" => ran /\ clearLog
    <3>1. q.seen \in CaseState /\ collection \in CollectionFile
      BY <1>0 DEF Request, CaseInv, TypeOK
    <3> QED BY <1>0, <2>1, <3>1, EvaluateClear DEF Sound, CaseInv
  <2>4. PICK r : r = IF q.op = "export" THEN [Idle EXCEPT !.op = "export", !.at = "bundle"]
                     ELSE Idle
    OBVIOUS
  <2>5. request' = [request EXCEPT ![t] = r]
    BY <1>0, <1>2, <2>4 DEF WriteSummary, Finish
  <2>6. r \in Request
    BY <2>4, IdleType DEF Request, Operations, Places
  <2>7. Sound(r)'
    BY <2>4, EmptySound DEF Sound, Covers, Idle, NotCollected, Started, Prepared
  <2> QED BY <1>2, <2>2, <2>3, <2>5, <2>6, <2>7, RequestStep
          DEF WriteSummary, CaseInv, TypeOK, AllClearIsBacked, Covers
<1> QED BY <1>1, <1>2

\* Steps that are no request's.
LEMMA OtherSteps ==
  ASSUME CaseInv, Prepare \/ LateLaunch \/ Protect \/ UNCHANGED vars
  PROVE  CaseInv'
<1>0. ASSUME UNCHANGED <<request, clearLog>>, ran => ran'
      PROVE  \A t \in Threads : Sound(request[t])'
  BY <1>0 DEF CaseInv, Sound
<1>1. CASE Prepare
  <2>1. \A t \in Threads : request'[t] \in {Idle, request[t]}
    BY <1>1 DEF Prepare
  <2>2. request' \in [Threads -> Request]
    BY <1>1, <2>1, IdleType DEF Prepare, CaseInv, TypeOK
  <2>3. /\ readiness' \in Readiness /\ worker' \in Executions /\ worker' \notin Started
        /\ state'.execution \notin Started /\ ~Covers(collection)'
    BY <1>1 DEF Prepare, Readiness, Executions, Prepared, Started, NotCollected, Covers
  <2>4. /\ client' \in [scope: Scopes, overlaps: 0..MaxOverlaps]
        /\ ran' \in BOOLEAN /\ clearLog' \in BOOLEAN
        /\ \A t \in Threads : Sound(request[t])'
    <3>1. CASE Quiet /\ client' = [client EXCEPT !.overlaps = 0] /\ ran' = FALSE
               /\ clearLog' = FALSE
      <4>1. client' \in [scope: Scopes, overlaps: 0..MaxOverlaps]
        BY <3>1, GuestAssumption DEF CaseInv, TypeOK
      <4>2. \A t \in Threads : request'[t] = Idle
        BY <2>1, <3>1 DEF Quiet, CaseInv, Sound
      <4>3. \A t \in Threads : Sound(request[t])'
        BY <4>2, EmptySound DEF Sound
      <4> QED BY <3>1, <4>1, <4>3
    <3>2. CASE Overlap("prepare") /\ UNCHANGED <<ran, clearLog>>
      <4>1. ASSUME NEW t \in Threads PROVE Sound(request[t])'
        <5>1. CASE request'[t] = Idle
          BY <5>1, EmptySound DEF Sound
        <5>2. CASE request'[t] = request[t]
          BY <3>2, <5>2 DEF Sound, CaseInv
        <5> QED BY <2>1, <5>1, <5>2
      <4> QED BY <3>2, <4>1, OverlapType DEF CaseInv, TypeOK
    <3> QED BY <1>1, <3>1, <3>2 DEF Prepare
  <2> QED BY <1>1, <2>2, <2>3, <2>4, PreparedType
          DEF Prepare, CaseInv, TypeOK, AllClearIsBacked
<1>2. CASE LateLaunch
  <2>1. /\ worker' \in Executions /\ ran' \in BOOLEAN /\ (ran => ran')
        /\ worker' \in Started => ran'
    <3>1. CASE UNCHANGED <<worker, ran>>
      BY <3>1 DEF CaseInv, TypeOK
    <3>2. CASE worker' = "running" /\ ran'
      BY <3>2 DEF Executions, Started
    <3>3. CASE worker' = "launch_failed" /\ ran' = ran
      BY <3>3 DEF Executions, Started, CaseInv, TypeOK
    <3>4. ran \in BOOLEAN
      BY DEF CaseInv, TypeOK
    <3> QED BY <1>2, <3>1, <3>2, <3>3, <3>4 DEF LateLaunch
  <2> QED BY <1>0, <1>2, <2>1 DEF LateLaunch, files, CaseInv, TypeOK, AllClearIsBacked, Covers
<1>3. CASE Protect
  BY <1>0, <1>3 DEF Protect, files, CaseInv, TypeOK, AllClearIsBacked, Covers
<1>4. CASE UNCHANGED vars
  BY <1>0, <1>4 DEF vars, CaseInv, TypeOK, AllClearIsBacked, Covers
<1> QED BY <1>1, <1>2, <1>3, <1>4

\* The invariant of a case holds for any number of threads and overlapping
\* requests, whatever the collectors find and the worker reports.
THEOREM CaseCorrect == Spec => []CaseInv
<1>1. CaseInv /\ [Next]_vars => CaseInv'
  <2> SUFFICES ASSUME CaseInv, [Next]_vars PROVE CaseInv'
    OBVIOUS
  <2>1. ASSUME NEW t \in Threads, Serve(t) PROVE CaseInv'
    BY <2>1, UploadSteps, StatusSteps, ReadinessSteps, ExecutionSteps,
       CollectionSteps, SummarySteps, ReportSteps DEF Serve
  <2> QED BY <2>1, OtherSteps DEF Next
<1> QED BY <1>1, InitInv, PTL DEF Spec

\* A summary that observed no detection rests on a started sample and on a log
\* read clear after the start, for any number of threads and overlaps.
THEOREM AllClearBacked == Spec => []AllClearIsBacked
<1>1. CaseInv => AllClearIsBacked
  BY DEF CaseInv
<1> QED BY <1>1, CaseCorrect, PTL

-----------------------------------------------------------------------------
(* While no two requests have overlapped, the files agree with each other and *)
(* with what the one request at work has read of them.                        *)

Fresh == report = CurrentReport

HoldsState(r) ==
  \/ r.op = "status" \/ r.at = "evaluate"
  \/ r.op = "collect" /\ r.at \in {"stamp", "log", "write"}
  \/ r.op = "readiness" /\ r.at \in {"file", "write"}

\* What a request holds is still on disk, and where it may end without a
\* report of its own the last report is still right.
Current(r) ==
  /\ HoldsState(r) => r.seen = state
  /\ r.at = "evaluate" => r.readiness = readiness
  /\ r.at \in {"forward", "observe", "evaluate", "bundle"} => Fresh
  /\ r.at = "bundle" => summary = Evaluate(state, readiness, collection)

SequentialInv ==
  Sequential =>
    /\ \A t, u \in Threads :
         request[t].at # "idle" /\ request[u].at # "idle" => t = u
    /\ \A t \in Threads : Current(request[t])
    /\ Quiet => Fresh

\* A step of the one request at work.
LEMMA AloneStep ==
  ASSUME CaseInv, SequentialInv, NEW t \in Threads, UNCHANGED client,
         request[t].at # "idle",
         \A u \in Threads \ {t} : request'[u] = request[u],
         Sequential => Current(request[t])' /\ (request'[t].at = "idle" => Fresh')
  PROVE  SequentialInv'
<1> SUFFICES ASSUME Sequential'
             PROVE  /\ \A u, v \in Threads :
                         request'[u].at # "idle" /\ request'[v].at # "idle" => u = v
                    /\ \A u \in Threads : Current(request[u])'
                    /\ Quiet' => Fresh'
  BY DEF SequentialInv
<1>1. Sequential
  BY DEF Sequential
<1>2. \A u \in Threads \ {t} : request[u] = Idle
  BY <1>1 DEF SequentialInv, CaseInv, Sound
<1>3. \A u \in Threads \ {t} : request'[u] = Idle
  BY <1>2
<1>4. ASSUME NEW u \in Threads \ {t} PROVE Current(request[u])'
  BY <1>3 DEF Current, HoldsState, Idle
<1>5. \A u, v \in Threads : request'[u].at # "idle" /\ request'[v].at # "idle" => u = v
  BY <1>3 DEF Idle
<1>6. \A u \in Threads : Current(request[u])'
  BY <1>1, <1>4
<1> QED BY <1>1, <1>5, <1>6 DEF Quiet

\* A request that begins; one that begins beside another one ends the sequence.
LEMMA AloneBegin ==
  ASSUME CaseInv, SequentialInv, NEW t \in Threads, NEW first, Begin(t, first),
         first.at # "idle", Fresh => Current(first)'
  PROVE  SequentialInv'
<1> SUFFICES ASSUME Sequential'
             PROVE  /\ \A u, v \in Threads :
                         request'[u].at # "idle" /\ request'[v].at # "idle" => u = v
                    /\ \A u \in Threads : Current(request[u])'
                    /\ Quiet' => Fresh'
  BY DEF SequentialInv
<1>0. /\ request' = [request EXCEPT ![t] = first]
      /\ request \in [Threads -> Request]
      /\ client \in [scope: Scopes, overlaps: 0..MaxOverlaps]
  BY DEF Begin, CaseInv, TypeOK
<1>1. Quiet /\ Sequential
  <2>1. CASE Overlap(first.op)
    BY <2>1, OverlapType DEF CaseInv
  <2>2. CASE Quiet /\ UNCHANGED client
    BY <2>2 DEF Sequential
  <2> QED BY <2>1, <2>2 DEF Begin
<1>2. Fresh
  BY <1>1 DEF SequentialInv
<1>3. request'[t] = first /\ \A u \in Threads \ {t} : request'[u] = Idle
  BY <1>0, <1>1 DEF Quiet, CaseInv, Sound
<1>4. \A u \in Threads \ {t} : Current(request[u])'
  BY <1>3 DEF Current, HoldsState, Idle
<1>5. Current(request[t])'
  BY <1>2, <1>3 DEF Current, HoldsState
<1> QED BY <1>3, <1>4, <1>5 DEF Quiet, Idle

\* A request that turns to its report holds nothing any more.
LEMMA AloneReporting ==
  ASSUME CaseInv, SequentialInv, NEW t \in Threads, UNCHANGED client,
         request[t].at # "idle", ToReport(t)
  PROVE  SequentialInv'
<1>1. /\ request'[t] = Reporting
      /\ \A u \in Threads \ {t} : request'[u] = request[u]
  BY DEF ToReport, CaseInv, TypeOK
<1>2. Current(request[t])' /\ request'[t].at # "idle"
  BY <1>1 DEF Current, HoldsState, Reporting, Idle
<1> QED BY <1>1, <1>2, AloneStep

\* The steps that begin a request.
LEMMA SequentialBegins ==
  ASSUME CaseInv, SequentialInv, NEW t \in Threads,
         \/ BeginReport(t) \/ BeginUpload(t) \/ BeginStatus(t) \/ BeginReadiness(t)
         \/ BeginExecute(t) \/ BeginPoll(t) \/ BeginCollect(t)
         \/ BeginSummary(t, "summary") \/ BeginSummary(t, "export")
  PROVE  SequentialInv'
<1> USE DEF Current, HoldsState, Idle, Reporting
<1>1. CASE BeginReport(t)
  BY <1>1, AloneBegin DEF BeginReport
<1>2. CASE BeginUpload(t)
  BY <1>2, AloneBegin DEF BeginUpload
<1>3. CASE BeginStatus(t)
  <2>1. PICK first : first = [Idle EXCEPT !.op = "status", !.at = "probe", !.seen = state]
    OBVIOUS
  <2>2. Begin(t, first) /\ UNCHANGED files
    BY <1>3, <2>1 DEF BeginStatus
  <2>3. first.at = "probe" /\ Current(first)'
    BY <2>1, <2>2 DEF files
  <2> HIDE DEF Current
  <2> QED BY <2>2, <2>3, AloneBegin
<1>4. CASE BeginReadiness(t)
  BY <1>4, AloneBegin DEF BeginReadiness
<1>5. CASE BeginExecute(t)
  <2>1. PICK first : /\ first = IF ~sample THEN Reporting
                                ELSE [Idle EXCEPT !.op = "execute", !.at = "forward"]
                     /\ Begin(t, first) /\ UNCHANGED files
    BY <1>5 DEF BeginExecute
  <2>2. first.at # "idle" /\ (Fresh => Current(first)')
    BY <2>1 DEF files, Fresh, CurrentReport
  <2> HIDE DEF Current
  <2> QED BY <2>1, <2>2, AloneBegin
<1>6. CASE BeginPoll(t)
  <2>1. PICK first :
          /\ first = IF worker = "not_started" THEN Reporting
                     ELSE [Idle EXCEPT !.op = "poll", !.at = "read", !.execution = worker']
          /\ Begin(t, first)
    BY <1>6 DEF BeginPoll
  <2>2. first.at # "idle" /\ Current(first)'
    BY <2>1
  <2> HIDE DEF Current
  <2> QED BY <2>1, <2>2, AloneBegin
<1>7. CASE BeginCollect(t)
  <2>1. PICK first : first = [Idle EXCEPT !.op = "collect", !.at = "stamp", !.seen = state]
    OBVIOUS
  <2>2. Begin(t, first) /\ UNCHANGED files
    BY <1>7, <2>1 DEF BeginCollect
  <2>3. first.at = "stamp" /\ Current(first)'
    BY <2>1, <2>2 DEF files
  <2> HIDE DEF Current
  <2> QED BY <2>2, <2>3, AloneBegin
<1>8. ASSUME NEW op \in {"summary", "export"}, BeginSummary(t, op) PROVE SequentialInv'
  <2>1. PICK first : first = [Idle EXCEPT !.op = op, !.at = "evaluate",
                                          !.seen = state, !.readiness = readiness]
    OBVIOUS
  <2>2. /\ Begin(t, first) /\ report' = CurrentReport
        /\ UNCHANGED <<state, readiness, collection>>
    BY <1>8, <2>1 DEF BeginSummary
  <2>3. /\ first.at = "evaluate" /\ first.op \in {"summary", "export"}
        /\ first.seen = state /\ first.readiness = readiness
    BY <2>1
  <2>4. Fresh'
    BY <2>2 DEF Fresh, CurrentReport
  <2>5. Current(first)'
    BY <2>2, <2>3, <2>4
  <2> HIDE DEF Current
  <2> QED BY <2>2, <2>3, <2>5, AloneBegin
<1> QED BY <1>1, <1>2, <1>3, <1>4, <1>5, <1>6, <1>7, <1>8

\* The steps that turn a request to its report, end it, or go on with it.
LEMMA SequentialSteps ==
  ASSUME CaseInv, SequentialInv, NEW t \in Threads,
         \/ UploadMetadata(t) \/ UploadState(t)
         \/ StatusProbe(t) \/ StatusFile(t) \/ StatusState(t)
         \/ ReadinessRead(t) \/ ReadinessFile(t) \/ WriteBack(t)
         \/ Launch(t) \/ LaunchError(t) \/ RecordWorkerFile(t)
         \/ ExecutionRead(t) \/ ExecutionState(t)
         \/ CollectWindow(t) \/ CollectLog(t) \/ CollectionWrite(t)
         \/ WriteSummary(t) \/ Bundle(t) \/ WriteReport(t) \/ Refused(t)
  PROVE  SequentialInv'
<1>0. /\ request \in [Threads -> Request]
      /\ Sequential => Current(request[t])
  BY DEF CaseInv, TypeOK, SequentialInv
<1>1. CASE UploadState(t) \/ StatusState(t) \/ ExecutionState(t) \/ CollectionWrite(t)
  BY <1>1, AloneReporting DEF UploadState, StatusState, ExecutionState, CollectionWrite, At
<1>2. CASE WriteReport(t)
  <2>1. /\ request'[t] = Idle /\ \A u \in Threads \ {t} : request'[u] = request[u]
        /\ Fresh'
    BY <1>0, <1>2 DEF WriteReport, Finish, Fresh, CurrentReport
  <2>2. Current(request[t])'
    BY <2>1 DEF Current, HoldsState, Idle
  <2> QED BY <1>2, <2>1, <2>2, AloneStep DEF WriteReport
<1>3. CASE Refused(t)
  <2>1. ~Sequential
    BY <1>3 DEF Refused, Reads, Rewrites, At, SequentialInv
  <2> QED BY <1>3, <2>1 DEF Refused, SequentialInv, Sequential
<1>4. CASE Bundle(t)
  <2>1. /\ request'[t] = Idle /\ \A u \in Threads \ {t} : request'[u] = request[u]
        /\ Sequential => Fresh'
    BY <1>0, <1>4 DEF Bundle, Finish, Fresh, CurrentReport, files, Current, At
  <2>2. Current(request[t])'
    BY <2>1 DEF Current, HoldsState, Idle
  <2> QED BY <1>4, <2>1, <2>2, AloneStep DEF Bundle, At
<1>5. CASE WriteSummary(t)
  <2>1. /\ request[t].at = "evaluate" /\ UNCHANGED <<state, readiness, collection, report, client>>
        /\ \A u \in Threads \ {t} : request'[u] = request[u]
        /\ request'[t] \in {Idle, [Idle EXCEPT !.op = "export", !.at = "bundle"]}
        /\ summary' = Evaluate(request[t].seen, request[t].readiness, collection)
    BY <1>0, <1>5 DEF WriteSummary, Finish
  <2>2. Sequential => /\ Fresh'
                      /\ request[t].seen = state /\ request[t].readiness = readiness
    BY <1>0, <2>1 DEF Current, HoldsState, Fresh, CurrentReport
  <2>3. Sequential => summary' = Evaluate(state, readiness, collection)'
    BY <2>1, <2>2 DEF Evaluate
  <2>4. CASE request'[t] = Idle
    <3>1. Current(request[t])'
      BY <2>4 DEF Current, HoldsState, Idle
    <3> QED BY <2>1, <2>2, <3>1, AloneStep
  <2>5. CASE request'[t] = [Idle EXCEPT !.op = "export", !.at = "bundle"]
    <3>1. request'[t].op = "export" /\ request'[t].at = "bundle"
      BY <2>5 DEF Idle
    <3>2. Sequential => Current(request[t])'
      BY <2>2, <2>3, <3>1 DEF Current, HoldsState
    <3> QED BY <2>1, <3>1, <3>2, AloneStep
  <2> QED BY <2>1, <2>4, <2>5
<1>6. CASE RecordWorkerFile(t)
  <2>1. /\ At(t, "execute", "observe") /\ UNCHANGED <<files, client>>
        /\ \A u \in Threads \ {t} : request'[u] = request[u]
        /\ \/ request'[t] = Idle
           \/ request'[t] = [request[t] EXCEPT !.at = "read", !.execution = worker]
    BY <1>0, <1>6 DEF RecordWorkerFile, Finish
  <2>2. Sequential => Fresh'
    BY <1>0, <2>1 DEF Current, Fresh, CurrentReport, files, At
  <2>3. Current(request[t])'
    <3>1. CASE request'[t] = Idle
      BY <3>1 DEF Current, HoldsState, Idle
    <3>2. CASE request'[t] = [request[t] EXCEPT !.at = "read", !.execution = worker]
      <4>1. request'[t].op = "execute" /\ request'[t].at = "read"
        BY <1>0, <2>1, <3>2 DEF At, Request
      <4> QED BY <4>1 DEF Current, HoldsState
    <3> QED BY <2>1, <3>1, <3>2
  <2> QED BY <2>1, <2>2, <2>3, AloneStep DEF At
<1>7. CASE WriteBack(t)
  <2>1. CASE ToReport(t)
    BY <1>7, <2>1, AloneReporting DEF WriteBack, At
  <2>2. CASE /\ request[t].op = "collect" /\ request[t].at = "write"
             /\ request' = [request EXCEPT ![t].at = "file", ![t].seen = Prepared]
    <3>1. /\ request'[t].op = "collect" /\ request'[t].at = "file"
          /\ \A u \in Threads \ {t} : request'[u] = request[u]
      BY <1>0, <2>2 DEF Request
    <3>2. Current(request[t])'
      BY <3>1 DEF Current, HoldsState
    <3> QED BY <1>7, <2>2, <3>1, <3>2, AloneStep DEF WriteBack
  <2> QED BY <1>7, <2>1, <2>2 DEF WriteBack, At
\* Steps that go on without touching a file the request still holds.
<1>8. ASSUME request[t].at # "idle", UNCHANGED client,
             \A u \in Threads \ {t} : request'[u] = request[u],
             request'[t].op = request[t].op,
             \/ request[t].op \in {"execute", "poll", "upload"}
                  /\ request'[t].at \in {"read", "write"}
             \/ /\ UNCHANGED state
                /\ request[t].op \in {"status", "readiness", "collect"}
                /\ request'[t].at \in {"write", "file", "log"}
                /\ request'[t].seen = state \/ (/\ request'[t].seen = request[t].seen
                                                /\ HoldsState(request[t]))
      PROVE  SequentialInv'
  <2>1. Sequential => Current(request[t])'
    BY <1>0, <1>8 DEF Current, HoldsState
  <2> QED BY <1>8, <2>1, AloneStep
<1>9. CASE LaunchError(t)
  <2>1. /\ request'[t].at = "observe" /\ request'[t].op = "execute"
        /\ \A u \in Threads \ {t} : request'[u] = request[u]
        /\ UNCHANGED <<files, client>> /\ request[t].at = "forward"
    BY <1>0, <1>9 DEF LaunchError, Goto, At, Request
  <2>2. Sequential => Current(request[t])'
    BY <1>0, <2>1 DEF Current, HoldsState, Fresh, CurrentReport, files
  <2> QED BY <2>1, <2>2, AloneStep
<1>10. CASE UploadMetadata(t) \/ Launch(t) \/ ExecutionRead(t)
  BY <1>0, <1>8, <1>10 DEF UploadMetadata, Goto, Launch, ExecutionRead, At, Request
<1>11. CASE StatusProbe(t)
  BY <1>0, <1>8, <1>11 DEF StatusProbe, files, At, Request, HoldsState
<1>15. CASE StatusFile(t)
  BY <1>0, <1>8, <1>15 DEF StatusFile, Goto, At, Request, HoldsState
<1>12. CASE ReadinessRead(t) \/ ReadinessFile(t)
  BY <1>0, <1>8, <1>12 DEF ReadinessRead, ReadinessFile, files, At, Request, HoldsState
<1>13. CASE CollectWindow(t)
  BY <1>0, <1>8, <1>13 DEF CollectWindow, files, At, Request, HoldsState
<1>14. CASE CollectLog(t)
  BY <1>0, <1>8, <1>14 DEF CollectLog, files, At, Request, HoldsState
<1> QED BY <1>1, <1>2, <1>3, <1>4, <1>5, <1>6, <1>7, <1>9, <1>10, <1>11, <1>12, <1>13,
          <1>14, <1>15

\* A new preparation starts a new sequence; nothing else that is no request's
\* touches the files.
LEMMA SequentialOthers ==
  ASSUME CaseInv, SequentialInv, Prepare \/ LateLaunch \/ Protect \/ UNCHANGED vars
  PROVE  SequentialInv'
<1>1. CASE Prepare
  <2>1. CASE Quiet
    <3>1. /\ \A t \in Threads : request'[t] = Idle
          /\ Fresh'
      BY <1>1, <2>1 DEF Prepare, Quiet, CaseInv, Sound, Fresh, CurrentReport, EmptyReport
    <3>2. \A t \in Threads : Current(request[t])'
      BY <3>1 DEF Current, HoldsState, Idle
    <3> QED BY <3>1, <3>2 DEF SequentialInv, Idle
  <2>2. CASE Overlap("prepare")
    BY <2>2, OverlapType DEF CaseInv, SequentialInv
  <2> QED BY <1>1, <2>1, <2>2 DEF Prepare
<1>2. CASE LateLaunch \/ Protect \/ UNCHANGED vars
  <2>1. UNCHANGED <<files, request, client>>
    BY <1>2 DEF LateLaunch, Protect, vars, files
  <2> QED BY <2>1 DEF files, SequentialInv, Sequential, Current, HoldsState, Fresh,
                      CurrentReport, Quiet, Evaluate
<1> QED BY <1>1, <1>2

\* With one request at a time the files agree, for any number of threads.
THEOREM SequentialCorrect == Spec => []SequentialInv
<1>1. Init => SequentialInv
  <2> SUFFICES ASSUME Init PROVE SequentialInv
    OBVIOUS
  <2>1. /\ \A t \in Threads : request[t] = Idle
        /\ Fresh
    BY DEF Init, Fresh, CurrentReport, EmptyReport
  <2>2. \A t \in Threads : Current(request[t])
    BY <2>1 DEF Current, HoldsState, Idle
  <2> QED BY <2>1, <2>2 DEF SequentialInv, Idle
<1>2. CaseInv /\ SequentialInv /\ [Next]_vars => SequentialInv'
  BY SequentialBegins, SequentialSteps, SequentialOthers DEF Next, Serve
<1> QED BY <1>1, <1>2, CaseCorrect, PTL DEF Spec

\* Between requests case_report.json shows the case as its files have it, as
\* long as no two requests overlapped.
THEOREM ReportsAreFresh == Spec => []ReportIsFresh
<1>1. SequentialInv => ReportIsFresh
  BY DEF SequentialInv, ReportIsFresh, Fresh
<1> QED BY <1>1, SequentialCorrect, PTL

\* The verdict in an evidence bundle is the verdict on the files beside it, as
\* long as no two requests overlapped.
THEOREM BundlesAgree == Spec => []BundleAgrees
<1>1. SequentialInv => BundleAgrees
  BY DEF SequentialInv, BundleAgrees, Current, At
<1> QED BY <1>1, SequentialCorrect, PTL

\* Of the requests that rewrite the whole case state, only those about the
\* execution and a new upload change the execution it records.
THEOREM ExecutionIsKept == Spec => ExecutionKept
<1> DEFINE A == Sequential /\ Sequential' /\ state'.execution # state.execution =>
                  \/ \E t \in Threads : request[t].op \in {"execute", "poll", "upload"}
                  \/ ~metadata'
<1>1. ASSUME CaseInv, SequentialInv, [Next]_vars PROVE [A]_vars
  <2>1. ASSUME NEW t \in Threads, UploadState(t) \/ ExecutionState(t) PROVE A
    BY <2>1 DEF UploadState, ExecutionState, At
  <2>2. ASSUME NEW t \in Threads, StatusState(t) PROVE A
    BY <1>1, <2>2 DEF StatusState, At, Refreshed, SequentialInv, Current, HoldsState
  <2>3. ASSUME NEW t \in Threads, WriteBack(t) PROVE A
    BY <1>1, <2>3 DEF WriteBack, At, SequentialInv, Current, HoldsState
  <2>4. ASSUME Prepare PROVE A
    BY <2>4 DEF Prepare
  <2>5. ASSUME UNCHANGED state PROVE A
    BY <2>5
  <2>6. ASSUME NEW t \in Threads, Serve(t) PROVE A
    BY <2>1, <2>2, <2>3, <2>5, <2>6 DEF Serve, files, BeginUpload, UploadMetadata,
       BeginStatus, StatusProbe, StatusFile, BeginReadiness, ReadinessRead, ReadinessFile, BeginExecute,
       Launch, LaunchError, RecordWorkerFile, BeginPoll, ExecutionRead, BeginCollect,
       CollectWindow, CollectLog, CollectionWrite, BeginSummary, WriteSummary, Bundle,
       BeginReport, WriteReport, Refused
  <2>7. ASSUME LateLaunch \/ Protect \/ UNCHANGED vars PROVE A
    BY <2>5, <2>7 DEF LateLaunch, Protect, files, vars
  <2> QED BY <1>1, <2>4, <2>6, <2>7 DEF Next
<1> QED BY <1>1, SequentialCorrect, CaseCorrect, PTL DEF Spec, ExecutionKept

=============================================================================
