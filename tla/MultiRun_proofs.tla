--------------------------- MODULE MultiRun_proofs ---------------------------
(* The batch executor's guarantees for any number of samples, executions and *)
(* crashes, under every plan.                                                *)
EXTENDS MultiRun, TLAPS

USE MultiRunAssumption

\* Updating one case of a batch state changes that case and nothing else.
LEMMA WithCaseFields ==
  ASSUME NEW m \in BatchState, NEW c \in Cases, NEW case \in CaseState
  PROVE  /\ WithCase(m, c, case) \in BatchState
         /\ WithCase(m, c, case).cases = [m.cases EXCEPT ![c] = case]
         /\ WithCase(m, c, case).batch = m.batch
         /\ WithCase(m, c, case).unsafe = m.unsafe
         /\ WithCase(m, c, case).cleanup = m.cleanup
  BY DEF WithCase, BatchState

\* Marking a mirror changes the mark and nothing else.
LEMMA MarkedFields ==
  ASSUME NEW case \in CaseState, NEW mark \in {"available", "burned", "burn_failed"}
  PROVE  /\ Marked(case, mark) \in CaseState
         /\ Marked(case, mark).indexed = mark
         /\ Marked(case, mark).status = case.status
         /\ Marked(case, mark).cleanup = case.cleanup
         /\ Marked(case, mark).kind = case.kind
         /\ Marked(case, mark).eligible = case.eligible
  BY DEF Marked, CaseState

LEMMA InitialFields ==
  /\ Initial \in BatchState
  /\ \A c \in Cases : Initial.cases[c] = Planned
  /\ Initial.unsafe = FALSE
  /\ Planned \in CaseState
  /\ Planned.indexed = "available" /\ Planned.status = "planned"
  /\ Planned.cleanup = "not_started" /\ Planned.kind = "none"
  BY DEF Initial, Planned, BatchState, CaseState

\* The state a started execution works on: fresh for `run`, else the file's.
LEMMA OpenedFields ==
  ASSUME TypeOK, NEW m \in Modes, MayExecute(m)
  PROVE  /\ Opened(m) \in BatchState
         /\ Opened(m).unsafe = FALSE
         /\ Opened(m).batch = "running"
         /\ m # "run" => disk \in BatchState /\ Opened(m).cases = disk.cases
         /\ m = "run" => Opened(m).cases = Initial.cases
  BY InitialFields DEF TypeOK, Opened, MayExecute, BatchState

\* The outcome of a single run says what it was given and nothing else.
LEMMA OutcomeFields ==
  ASSUME NEW status \in {"planned", "completed", "failed", "stopped_environment_failure"},
         NEW cleanup \in {"not_started", "skipped", "restored", "restore_failed",
                          "deferred_to_next_case"},
         NEW kind \in {"none", "case_failure", "environment_failure"}
  PROVE  /\ Case!Outcome(status, cleanup, kind) \in Case!Outcomes
         /\ Case!Outcome(status, cleanup, kind).status = status
         /\ Case!Outcome(status, cleanup, kind).cleanup = cleanup
         /\ Case!Outcome(status, cleanup, kind).kind = kind
  BY DEF Case!Outcome, Case!Outcomes

LEMMA NoResultFields ==
  /\ NoResult \in Case!Outcomes
  /\ NoResult.status = "planned" /\ NoResult.cleanup = "not_started" /\ NoResult.kind = "none"
  BY OutcomeFields DEF NoResult, Case!NoOutcome

\* What the batch stores of a result is the result and the gate's answer.
LEMMA CaseOfFields ==
  ASSUME NEW o \in Case!Outcomes, NEW gate \in BOOLEAN
  PROVE  /\ CaseOf(o, gate) \in CaseState
         /\ CaseOf(o, gate).status = o.status /\ CaseOf(o, gate).cleanup = o.cleanup
         /\ CaseOf(o, gate).kind = o.kind /\ CaseOf(o, gate).indexed = "available"
         /\ CaseOf(o, gate).eligible = gate
  BY DEF CaseOf, CaseState, Case!Outcomes

\* A step of the single run touches the instance and its own result, and of
\* the instance it may say that this case used it, or that nobody did.
LEMMA CaseStepFrame ==
  ASSUME TypeOK, CaseStep
  PROVE  /\ pc \in Holding /\ pc' \in Holding \ {"single"}
         /\ UNCHANGED <<plan, disk, log, mirror, mode, mem, todo, index, reuse, request,
                        executions, faults>>
         /\ vm' \in {vm, {}, vm \cup {index}}
         /\ error' \in BOOLEAN /\ result' \in Case!Outcomes
<1> USE DEF TypeOK, Holding, InSingleRun, Case!InSingleRun, Case!asked, Case!Return,
            scheduler, files, bounds, MirrorFound
<1>1. CASE RunnerRaises
  BY <1>1, OutcomeFields DEF RunnerRaises, Case!Raises
<1>2. CASE FailBeforeAdapter
  BY <1>2, OutcomeFields DEF FailBeforeAdapter, Case!FailsEarly
<1>3. CASE PrepareInstance
  BY <1>3 DEF PrepareInstance, Case!Prepares
<1>4. CASE PrepareInstanceFails
  BY <1>4 DEF PrepareInstanceFails, Case!PrepareFails
<1>5. CASE LaunchSample
  BY <1>5 DEF LaunchSample, Case!Launches
<1>6. CASE EndSteps
  BY <1>6 DEF EndSteps, Case!Closes
<1>7. CASE DeferCleanup
  BY <1>7, OutcomeFields DEF DeferCleanup, Case!Defers
<1>8. CASE CleanupRestores
  BY <1>8, OutcomeFields DEF CleanupRestores, Case!Restores
<1>9. CASE CleanupFails
  BY <1>9, OutcomeFields DEF CleanupFails, Case!CleanupFails
<1> QED BY <1>1, <1>2, <1>3, <1>4, <1>5, <1>6, <1>7, <1>8, <1>9 DEF CaseStep

\* Only a completed case without a failure is returned without a restore, and
\* a deferred one was asked for.
LEMMA ReturnedResult ==
  ASSUME TypeOK, CaseStep, pc' = "record"
  PROVE  /\ result'.status # "planned"
         /\ result'.cleanup = "restore_failed" => result'.kind = "environment_failure"
         /\ result'.cleanup = "deferred_to_next_case" =>
              result'.kind = "none" /\ request.defer
         /\ result'.kind = "none" => vm' = {} \/ (pc = "cleanup" /\ ~error /\ vm' = vm)
<1> USE DEF Case!Return
<1>1. CASE RunnerRaises
  BY <1>1, OutcomeFields DEF RunnerRaises, Case!Raises
<1>2. CASE FailBeforeAdapter
  BY <1>2, OutcomeFields DEF FailBeforeAdapter, Case!FailsEarly
<1>3. CASE DeferCleanup
  BY <1>3, OutcomeFields DEF DeferCleanup, Case!Defers
<1>4. CASE CleanupRestores
  BY <1>4, OutcomeFields DEF CleanupRestores, Case!Restores
<1>5. CASE CleanupFails
  BY <1>5, OutcomeFields DEF CleanupFails, Case!CleanupFails
<1> QED BY <1>1, <1>2, <1>3, <1>4, <1>5
        DEF CaseStep, PrepareInstance, Case!Prepares, PrepareInstanceFails,
            Case!PrepareFails, LaunchSample, Case!Launches, EndSteps, Case!Closes

\* Until a result is there: the instance is prepared, the sample launched on
\* what was prepared, and the steps end.
LEMMA BeforeResult ==
  ASSUME CaseStep, pc' # "record"
  PROVE  /\ result' = result
         /\ \/ pc' = "sample" /\ pc = "single" /\ vm' = IF request.skip THEN vm ELSE {}
            \/ pc' = "launched" /\ pc = "sample" /\ vm' = vm \cup {index}
            \/ pc' = "cleanup" /\ error'
            \/ pc' = "cleanup" /\ pc \in {"sample", "launched"} /\ vm' = vm
  BY DEF CaseStep, Case!Return, RunnerRaises, Case!Raises, FailBeforeAdapter,
     Case!FailsEarly, PrepareInstance, Case!Prepares, PrepareInstanceFails,
     Case!PrepareFails, LaunchSample, Case!Launches, EndSteps, Case!Closes,
     DeferCleanup, Case!Defers, CleanupRestores, Case!Restores, CleanupFails,
     Case!CleanupFails

\* Recording a result changes the current case and may set the unsafe flag.
LEMMA WithResultFields ==
  ASSUME mem \in BatchState, index \in Cases, NEW case \in CaseState
  PROVE  /\ WithResult(case) \in BatchState
         /\ WithResult(case).cases = [mem.cases EXCEPT ![index] = case]
         /\ WithResult(case).unsafe = (mem.unsafe \/ case.cleanup = "restore_failed")
         /\ WithResult(case).batch = mem.batch
<1> DEFINE m == [mem EXCEPT !.unsafe = @ \/ case.cleanup = "restore_failed"]
<1>1. /\ m \in BatchState /\ m.cases = mem.cases /\ m.batch = mem.batch
      /\ m.unsafe = (mem.unsafe \/ case.cleanup = "restore_failed")
  BY DEF BatchState
<1>2. WithResult(case) = WithCase(m, index, case)
  BY DEF WithResult
<1> HIDE DEF m
<1> QED BY <1>1, <1>2, WithCaseFields

\* When the process ends, everything the invariant says of its memory holds
\* trivially.
LEMMA EndEstablishes ==
  ASSUME End
  PROVE  /\ pc' = "idle" /\ mode' \in Modes /\ mem' \in BatchState /\ todo' \subseteq Cases
         /\ index' \in Cases \cup {None} /\ reuse' \in Cases \cup {None}
         /\ request' \in [skip: BOOLEAN, defer: BOOLEAN]
         /\ result' \in Case!Outcomes /\ error' \in BOOLEAN
         /\ \A c \in Cases : mem'.cases[c].indexed = "available"
         /\ ReuseIsSafe' /\ ResultIsSane' /\ IndexSane' /\ UnsafeStops' /\ EligibleUntouched'
<1>1. /\ pc' = "idle" /\ mem' = Initial /\ result' = NoResult /\ todo' = {} /\ index' = None
      /\ reuse' = None /\ error' = FALSE /\ mode' = "run" /\ request' = NoRequest
  BY DEF End
<1>2. ReuseIsSafe' /\ IndexSane' /\ UnsafeStops' /\ EligibleUntouched'
  BY <1>1 DEF ReuseIsSafe, IndexSane, UnsafeStops, EligibleUntouched, Holding, InSingleRun, Case!InSingleRun
<1>3. ResultIsSane'
  BY <1>1, InitialFields, NoResultFields DEF ResultIsSane
<1> QED BY <1>1, <1>2, <1>3, InitialFields, NoResultFields DEF Modes, NoRequest

\* A terminated execution leaves the cases of its memory in the file.
LEMMA TerminatePreserves ==
  ASSUME BatchInv, NEW batch \in Stopped \cup Completed, Terminate(batch)
  PROVE  BatchInv'
<1>1. mem \in BatchState /\ End /\ UNCHANGED <<plan, log, mirror, vm, bounds>>
  BY DEF BatchInv, TypeOK, Terminate
<1>2. TerminalCleanup(batch, mem) \in {"restored", "restore_failed", "not_required"}
  BY DEF TerminalCleanup
<1>3. disk' \in BatchState /\ disk'.cases = mem.cases
  BY <1>1, <1>2 DEF Terminate, BatchState
<1>4. TypeOK'
  BY <1>1, <1>3, EndEstablishes DEF BatchInv, TypeOK, bounds
<1>5. MirrorsMatch'
  BY <1>1, <1>3, EndEstablishes DEF BatchInv, MirrorsMatch
<1> QED BY <1>1, <1>4, <1>5, EndEstablishes DEF BatchInv

\* Every step keeps the invariant.
LEMMA BatchInvInductive == BatchInv /\ [Next]_vars => BatchInv'
<1> SUFFICES ASSUME BatchInv, [Next]_vars PROVE BatchInv'
  OBVIOUS
<1> USE DEF BatchInv
<1>1. CASE PreflightPasses
  <2>1. TypeOK'
    BY <1>1 DEF PreflightPasses, TypeOK, Running, InSingleRun, Case!InSingleRun, Cases, None, files, bounds, memory
  <2>2. ReuseIsSafe'
    BY <1>1 DEF PreflightPasses, TypeOK, ReuseIsSafe, Holding, InSingleRun, Case!InSingleRun, OnlyEligible, Cases, None, files, bounds, memory
  <2>3. MirrorsMatch'
    BY <1>1 DEF PreflightPasses, TypeOK, MirrorsMatch, Cases, None, files, bounds, memory
  <2>4. ResultIsSane'
    BY <1>1 DEF PreflightPasses, TypeOK, ResultIsSane, Stops, Cases, None, files, bounds, memory
  <2>5. IndexSane'
    BY <1>1 DEF PreflightPasses, TypeOK, IndexSane, Holding, InSingleRun, Case!InSingleRun, Cases, None, files, bounds, memory
  <2>6. UnsafeStops'
    BY <1>1 DEF PreflightPasses, TypeOK, UnsafeStops, Holding, InSingleRun, Case!InSingleRun, Cases, None, files, bounds, memory
  <2>7. EligibleUntouched'
    BY <1>1 DEF PreflightPasses, TypeOK, EligibleUntouched, Holding, InSingleRun, Case!InSingleRun, ResumeEligible, Cases, None, files, bounds, memory
  <2> QED BY <2>1, <2>2, <2>3, <2>4, <2>5, <2>6, <2>7
<1>2. CASE CaseStep
  <2>1. /\ pc \in Holding /\ pc' \in Holding \ {"single"}
        /\ UNCHANGED <<plan, disk, log, mirror, mode, mem, todo, index, reuse, request,
                       executions, faults>>
        /\ vm' \in {vm, {}, vm \cup {index}}
        /\ error' \in BOOLEAN /\ result' \in Case!Outcomes
    BY <1>2, CaseStepFrame
  <2>2. index \in Cases
    BY <2>1 DEF TypeOK, IndexSane
  <2>3. TypeOK'
    BY <2>1, <2>2 DEF TypeOK, Running, Holding
  <2>4. ReuseIsSafe'
    <3>1. pc' = "sample" => OnlyEligible({})'
      BY <1>2, <2>1, BeforeResult DEF ReuseIsSafe, OnlyEligible
    <3>2. pc' = "launched" => OnlyEligible({index})'
      BY <1>2, <2>1, BeforeResult DEF ReuseIsSafe, OnlyEligible
    <3>3. pc' = "cleanup" /\ ~error' => OnlyEligible({index})'
      BY <1>2, <2>1, BeforeResult DEF ReuseIsSafe, OnlyEligible
    <3>4. pc' = "record" /\ result'.kind = "none" => OnlyEligible({index})'
      BY <1>2, <2>1, ReturnedResult DEF ReuseIsSafe, OnlyEligible
    <3> QED BY <2>1, <3>1, <3>2, <3>3, <3>4
            DEF ReuseIsSafe, OnlyEligible, Holding, InSingleRun, Case!InSingleRun
  <2>5. MirrorsMatch'
    BY <2>1 DEF MirrorsMatch
  <2>6. ResultIsSane'
    <3>1. request.defer => todo # {}
      BY <2>1 DEF IndexSane
    <3>2. pc' = "record" \/ result' = result
      BY <1>2, BeforeResult
    <3>3. CASE pc' = "record"
      BY <1>2, <2>1, <3>1, <3>3, ReturnedResult DEF ResultIsSane
    <3>4. CASE pc' # "record"
      BY <2>1, <3>2, <3>4 DEF ResultIsSane, Holding, InSingleRun, Case!InSingleRun
    <3> QED BY <3>3, <3>4
  <2>7. IndexSane'
    BY <2>1 DEF IndexSane, Holding, InSingleRun, Case!InSingleRun
  <2>8. UnsafeStops'
    BY <2>1 DEF UnsafeStops, Holding, InSingleRun, Case!InSingleRun
  <2>9. EligibleUntouched'
    BY <2>1 DEF EligibleUntouched, Holding, InSingleRun, Case!InSingleRun
  <2> QED BY <2>3, <2>4, <2>5, <2>6, <2>7, <2>8, <2>9
<1>3. CASE PreflightFails
  <2>1. End /\ UNCHANGED <<plan, log, mirror, vm, bounds>> /\ mem \in BatchState
    BY <1>3 DEF PreflightFails, TypeOK
  <2>2. disk' \in BatchState /\ disk'.cases = mem.cases
    BY <1>3, <2>1 DEF PreflightFails, BatchState
  <2>3. TypeOK'
    BY <2>1, <2>2, EndEstablishes DEF TypeOK, bounds
  <2>4. MirrorsMatch'
    BY <2>1, <2>2, EndEstablishes DEF MirrorsMatch
  <2> QED BY <2>1, <2>3, <2>4, EndEstablishes
<1>4. CASE Record
  <2> USE <1>4
  <2>0. PICK clean \in BOOLEAN :
          LET gate == plan.fastmode /\ result.kind = "none" /\ clean
          IN  /\ mem' = WithResult(CaseOf(result, gate))
              /\ reuse' = IF gate /\ todo # {} THEN index ELSE reuse
    BY DEF Record
  <2> DEFINE gate == plan.fastmode /\ result.kind = "none" /\ clean
             case == CaseOf(result, gate)
  <2>01. /\ pc = "record" /\ index \in Cases /\ mem \in BatchState
         /\ result \in Case!Outcomes
         /\ vm \subseteq Cases /\ todo \subseteq Cases /\ reuse = None
    BY DEF Record, TypeOK, IndexSane, ReuseIsSafe, Holding
  <2>02. /\ case \in CaseState /\ case.eligible = gate
         /\ case.status = result.status /\ case.cleanup = result.cleanup
         /\ case.kind = result.kind /\ case.indexed = "available"
    BY <2>01, CaseOfFields DEF Plan, TypeOK
  <2>03. /\ mem' = WithResult(case) /\ disk' = mem' /\ pc' = "burn"
         /\ reuse' = IF gate /\ todo # {} THEN index ELSE None
         /\ UNCHANGED <<plan, log, mirror, vm, mode, todo, index, request, result, error, bounds>>
    BY <2>0, <2>01 DEF Record
  <2> HIDE <1>4 DEF case
  <2>04. /\ mem' \in BatchState
         /\ mem'.cases = [mem.cases EXCEPT ![index] = case]
         /\ mem'.unsafe = (mem.unsafe \/ case.cleanup = "restore_failed")
         /\ mem'.batch = mem.batch
         /\ mem.cases \in [Cases -> CaseState]
    BY <2>01, <2>02, <2>03, WithResultFields DEF BatchState
  <2> HIDE DEF gate
  <2>1. TypeOK'
    BY <2>01, <2>02, <2>03, <2>04 DEF TypeOK, Running, InSingleRun, Case!InSingleRun, bounds
  <2>2. ReuseIsSafe'
    <3>1. result.kind = "none" => \A c \in vm \ {index} : mem.cases[c].eligible
      BY <2>01 DEF ReuseIsSafe, OnlyEligible
    <3>2. reuse' # None => gate /\ result.kind = "none"
      BY <2>01, <2>03 DEF gate
    <3> QED BY <3>1, <3>2, <2>01, <2>02, <2>03, <2>04 DEF ReuseIsSafe, OnlyEligible, Holding, InSingleRun, Case!InSingleRun
  <2>3. MirrorsMatch'
    BY <2>01, <2>02, <2>03, <2>04 DEF MirrorsMatch, bounds, ResultIsSane
  <2>4. ResultIsSane'
    BY <2>01, <2>02, <2>03, <2>04 DEF ResultIsSane, bounds
  <2>5. IndexSane'
    BY <2>01, <2>02, <2>03, <2>04 DEF IndexSane, Holding, InSingleRun, Case!InSingleRun, bounds
  <2>6. UnsafeStops'
    BY <2>01, <2>02, <2>03, <2>04 DEF UnsafeStops, Holding, InSingleRun, Case!InSingleRun, bounds, ResultIsSane, TypeOK, BatchState
  <2>7. EligibleUntouched'
    BY <2>01, <2>02, <2>03, <2>04, MultiRunAssumption DEF EligibleUntouched, Holding, InSingleRun, Case!InSingleRun, ResumeEligible, bounds, IndexSane
  <2> QED BY <2>1, <2>2, <2>3, <2>4, <2>5, <2>6, <2>7
<1>5. CASE Burn
  <2>0. PICK mark \in {"burned", "burn_failed"} :
          /\ BurnOutcome(index, mark)
          /\ mem' = WithCase(mem, index, Marked(mem.cases[index], mark))
    BY <1>5 DEF Burn
  <2>01. /\ mem \in BatchState /\ mem.cases \in [Cases -> CaseState] /\ index \in Cases
         /\ pc = "burn" /\ pc' = "rewrite" /\ index \in Cases
         /\ UNCHANGED <<plan, disk, log, vm, mode, todo, index, reuse, request, result, error, executions>>
    BY <1>5 DEF Burn, TypeOK, IndexSane, BatchState
  <2>02. /\ mem' \in BatchState /\ mem'.unsafe = mem.unsafe /\ mem'.batch = mem.batch
         /\ mem'.cases = [mem.cases EXCEPT ![index] = Marked(mem.cases[index], mark)]
    BY <2>0, <2>01, MarkedFields, WithCaseFields
  <2>03. /\ \A x \in Cases \ {index} : mem'.cases[x] = mem.cases[x]
         /\ mem'.cases[index].indexed = mark
         /\ mem'.cases[index].status = mem.cases[index].status
         /\ mem'.cases[index].cleanup = mem.cases[index].cleanup
         /\ mem'.cases[index].kind = mem.cases[index].kind
         /\ mem'.cases[index].eligible = mem.cases[index].eligible
    BY <2>01, <2>02, MarkedFields
  <2>04. /\ \A x \in Cases : /\ mem'.cases[x].status = mem.cases[x].status
                               /\ mem'.cases[x].cleanup = mem.cases[x].cleanup
                               /\ mem'.cases[x].kind = mem.cases[x].kind
                               /\ mem'.cases[x].eligible = mem.cases[x].eligible
    BY <2>03
  <2>1. TypeOK'
    BY <2>0, <2>01, <2>02, <2>04 DEF TypeOK, Running, InSingleRun, Case!InSingleRun, BurnOutcome
  <2>2. ReuseIsSafe'
    BY <2>01, <2>02, <2>04 DEF ReuseIsSafe, Holding, InSingleRun, Case!InSingleRun, OnlyEligible, TypeOK
  <2>3. MirrorsMatch'
    BY <2>0, <2>01, <2>02, <2>03 DEF MirrorsMatch, TypeOK, BurnOutcome
  <2>4. ResultIsSane'
    BY <2>01, <2>02, <2>04 DEF ResultIsSane, Stops
  <2>5. IndexSane'
    BY <2>01, <2>02, <2>04 DEF IndexSane, Holding, InSingleRun, Case!InSingleRun, TypeOK
  <2>6. UnsafeStops'
    BY <2>01, <2>02, <2>04 DEF UnsafeStops, Holding, InSingleRun, Case!InSingleRun
  <2>7. EligibleUntouched'
    BY <2>01, <2>02, <2>04 DEF EligibleUntouched, Holding, InSingleRun, Case!InSingleRun, ResumeEligible, TypeOK
  <2> QED BY <2>1, <2>2, <2>3, <2>4, <2>5, <2>6, <2>7
<1>6. ASSUME NEW c \in Cases, BurnRest(c) PROVE BatchInv'
  <2>0. PICK mark \in {"burned", "burn_failed"} :
          /\ BurnOutcome(c, mark)
          /\ mem' = WithCase(mem, c, Marked(mem.cases[c], mark))
    BY <1>6 DEF BurnRest
  <2>01. /\ mem \in BatchState /\ mem.cases \in [Cases -> CaseState] /\ index \in Cases
         /\ pc = "burn_rest" /\ pc' = "burn_rest"
         /\ UNCHANGED <<plan, disk, log, vm, mode, todo, index, reuse, request, result, error, executions>>
    BY <1>6 DEF BurnRest, TypeOK, IndexSane, BatchState
  <2>02. /\ mem' \in BatchState /\ mem'.unsafe = mem.unsafe /\ mem'.batch = mem.batch
         /\ mem'.cases = [mem.cases EXCEPT ![c] = Marked(mem.cases[c], mark)]
    BY <2>0, <2>01, MarkedFields, WithCaseFields
  <2>03. /\ \A x \in Cases \ {c} : mem'.cases[x] = mem.cases[x]
         /\ mem'.cases[c].indexed = mark
         /\ mem'.cases[c].status = mem.cases[c].status
         /\ mem'.cases[c].cleanup = mem.cases[c].cleanup
         /\ mem'.cases[c].kind = mem.cases[c].kind
         /\ mem'.cases[c].eligible = mem.cases[c].eligible
    BY <2>01, <2>02, MarkedFields
  <2>04. /\ \A x \in Cases : /\ mem'.cases[x].status = mem.cases[x].status
                               /\ mem'.cases[x].cleanup = mem.cases[x].cleanup
                               /\ mem'.cases[x].kind = mem.cases[x].kind
                               /\ mem'.cases[x].eligible = mem.cases[x].eligible
    BY <2>03
  <2>1. TypeOK'
    BY <2>0, <2>01, <2>02, <2>04 DEF TypeOK, Running, InSingleRun, Case!InSingleRun, BurnOutcome
  <2>2. ReuseIsSafe'
    BY <2>01, <2>02, <2>04 DEF ReuseIsSafe, Holding, InSingleRun, Case!InSingleRun, OnlyEligible, TypeOK
  <2>3. MirrorsMatch'
    BY <2>0, <2>01, <2>02, <2>03 DEF MirrorsMatch, TypeOK, BurnOutcome
  <2>4. ResultIsSane'
    BY <2>01, <2>02, <2>04 DEF ResultIsSane, Stops
  <2>5. IndexSane'
    BY <2>01, <2>02, <2>04 DEF IndexSane, Holding, InSingleRun, Case!InSingleRun, TypeOK
  <2>6. UnsafeStops'
    BY <2>01, <2>02, <2>04 DEF UnsafeStops, Holding, InSingleRun, Case!InSingleRun
  <2>7. EligibleUntouched'
    BY <2>01, <2>02, <2>04 DEF EligibleUntouched, Holding, InSingleRun, Case!InSingleRun, ResumeEligible, TypeOK
  <2> QED BY <2>1, <2>2, <2>3, <2>4, <2>5, <2>6, <2>7
<1>7. CASE Rewrite
  <2>1. TypeOK'
    BY <1>7 DEF Rewrite, TypeOK, Running, InSingleRun, Case!InSingleRun, Stops, Cases, None, files, bounds, memory
  <2>2. ReuseIsSafe'
    BY <1>7 DEF Rewrite, TypeOK, ReuseIsSafe, Holding, InSingleRun, Case!InSingleRun, OnlyEligible, Stops, Cases, None, files, bounds, memory
  <2>3. MirrorsMatch'
    BY <1>7 DEF Rewrite, TypeOK, MirrorsMatch, Stops, Cases, None, files, bounds, memory
  <2>4. ResultIsSane'
    BY <1>7 DEF Rewrite, TypeOK, ResultIsSane, Stops, Stops, Cases, None, files, bounds, memory
  <2>5. IndexSane'
    BY <1>7 DEF Rewrite, TypeOK, IndexSane, Holding, InSingleRun, Case!InSingleRun, Stops, Cases, None, files, bounds, memory, ResultIsSane
  <2>6. UnsafeStops'
    BY <1>7 DEF Rewrite, TypeOK, UnsafeStops, Holding, InSingleRun, Case!InSingleRun, Stops, Cases, None, files, bounds, memory
  <2>7. EligibleUntouched'
    BY <1>7 DEF Rewrite, TypeOK, EligibleUntouched, Holding, InSingleRun, Case!InSingleRun, ResumeEligible, Stops, Cases, None, files, bounds, memory
  <2> QED BY <2>1, <2>2, <2>3, <2>4, <2>5, <2>6, <2>7
<1>8. CASE FinishStopped
  BY <1>8, TerminatePreserves DEF FinishStopped, Stopped
<1>9. CASE FinishCompleted
  BY <1>9, TerminatePreserves DEF FinishCompleted, Completed
<1>10. CASE Crash
  <2>1. End /\ UNCHANGED <<plan, disk, mirror, vm, executions>>
    BY <1>10 DEF Crash
  <2>2. TypeOK'
    BY <1>10, <2>1, EndEstablishes DEF Crash, TypeOK
  <2>3. MirrorsMatch'
    BY <2>1, EndEstablishes DEF MirrorsMatch
  <2> QED BY <2>1, <2>2, <2>3, EndEstablishes
<1>11. ASSUME NEW m \in Modes, Start(m) PROVE BatchInv'
  <2>1. /\ pc = "idle" /\ MayExecute(m) /\ disk' = Opened(m)
        /\ executions' = executions + 1 /\ executions < MaxExecutions
        /\ UNCHANGED <<plan, log, mirror, vm, faults>>
    BY <1>11 DEF Start
  <2>2. /\ disk' \in BatchState /\ disk'.unsafe = FALSE /\ disk'.batch = "running"
        /\ m = "run" => \A c \in Cases : disk'.cases[c] = Planned
        /\ m # "run" => disk \in BatchState /\ disk'.cases = disk.cases
    BY <2>1, OpenedFields, InitialFields
  <2>3. /\ disk' # NoState
        /\ \A c \in Cases : disk'.cases[c].indexed = "burned" => mirror'[c] = "gone"
    BY <2>1, <2>2, InitialFields DEF MirrorsMatch
  <2>4. CASE End
    <3>1. TypeOK'
      BY <2>1, <2>2, <2>4, EndEstablishes DEF TypeOK
    <3>2. MirrorsMatch'
      BY <2>3, <2>4, EndEstablishes DEF MirrorsMatch
    <3> QED BY <2>4, <3>1, <3>2, EndEstablishes
  <2>5. CASE ~End
    <3>1. /\ mode' = m /\ mem' = disk' /\ pc' = "preflight"
          /\ todo' = {c \in Cases : ShouldRun(disk'.cases[c], m)}
          /\ UNCHANGED <<index, reuse, request, result, error>>
      BY <1>11, <2>1, <2>5 DEF Start
    <3>2. index = None /\ reuse = None
      BY <2>1 DEF IndexSane, ReuseIsSafe
    <3>3. TypeOK'
      BY <2>1, <2>2, <3>1 DEF TypeOK, Running
    <3>4. ReuseIsSafe' /\ IndexSane' /\ UnsafeStops'
      BY <2>1, <2>2, <3>1, <3>2 DEF ReuseIsSafe, IndexSane, UnsafeStops, Holding, InSingleRun, Case!InSingleRun, None, Cases
    <3>5. MirrorsMatch' /\ ResultIsSane'
      BY <2>1, <2>3, <3>1 DEF MirrorsMatch, ResultIsSane
    <3>6. m # "force_rerun" => \A c \in todo' : ~ResumeEligible(mem'.cases[c])
      BY <2>2, <3>1, InitialFields DEF ShouldRun, ResumeEligible, Modes
    <3>7. EligibleUntouched'
      BY <2>3, <3>1, <3>6 DEF EligibleUntouched, Holding, InSingleRun, Case!InSingleRun
    <3> QED BY <3>3, <3>4, <3>5, <3>7
  <2> QED BY <2>4, <2>5
<1>12. ASSUME NEW c \in Cases, Select(c) PROVE BatchInv'
  <2>1. TypeOK'
    BY <1>12, InitialFields, NoResultFields DEF Select, First, Defers, TypeOK, Running, InSingleRun, Case!InSingleRun, Cases, None, files, bounds, memory
  <2>2. ReuseIsSafe'
    BY <1>12, InitialFields DEF Select, First, Defers, TypeOK, ReuseIsSafe, Holding, InSingleRun, Case!InSingleRun, OnlyEligible, Cases, None, files, bounds, memory
  <2>3. MirrorsMatch'
    BY <1>12, InitialFields DEF Select, First, Defers, TypeOK, MirrorsMatch, Cases, None, files, bounds, memory
  <2>4. ResultIsSane'
    BY <1>12, InitialFields, NoResultFields DEF Select, First, Defers, TypeOK, ResultIsSane, Stops, Cases, None, files, bounds, memory
  <2>5. IndexSane'
    <3>1. /\ pc' = "single" /\ index' = c /\ todo' = todo \ {c}
          /\ request' = [skip |-> reuse # None, defer |-> Defers(c, todo')]
      BY <1>12 DEF Select
    <3>2. request'.defer = Defers(c, todo')
      BY <3>1
    <3>3. Defers(c, todo') => todo' # {}
      BY DEF Defers
    <3>4. mem' = mem /\ mem.batch = "running" /\ index' # None /\ index' \notin todo'
      BY <1>12, <3>1 DEF Select, IndexSane, None, Cases
    <3> QED BY <3>1, <3>2, <3>3, <3>4 DEF IndexSane, Holding, InSingleRun, Case!InSingleRun
  <2>6. UnsafeStops'
    BY <1>12, InitialFields DEF Select, First, Defers, TypeOK, UnsafeStops, Holding, InSingleRun, Case!InSingleRun, Cases, None, files, bounds, memory
  <2>7. EligibleUntouched'
    BY <1>12, InitialFields DEF Select, First, Defers, TypeOK, EligibleUntouched, Holding, InSingleRun, Case!InSingleRun, ResumeEligible, Cases, None, files, bounds, memory
  <2> QED BY <2>1, <2>2, <2>3, <2>4, <2>5, <2>6, <2>7
<1>13. CASE UNCHANGED vars
  <2>1. TypeOK'
    BY <1>13 DEF vars, TypeOK, Running, InSingleRun, Case!InSingleRun
  <2>2. ReuseIsSafe'
    BY <1>13 DEF vars, ReuseIsSafe, Holding, InSingleRun, Case!InSingleRun, OnlyEligible
  <2>3. MirrorsMatch'
    BY <1>13 DEF vars, MirrorsMatch
  <2>4. ResultIsSane'
    BY <1>13 DEF vars, ResultIsSane, Stops
  <2>5. IndexSane'
    BY <1>13 DEF vars, IndexSane, Holding, InSingleRun, Case!InSingleRun
  <2>6. UnsafeStops'
    BY <1>13 DEF vars, UnsafeStops, Holding, InSingleRun, Case!InSingleRun
  <2>7. EligibleUntouched'
    BY <1>13 DEF vars, EligibleUntouched, Holding, InSingleRun, Case!InSingleRun, ResumeEligible
  <2> QED BY <2>1, <2>2, <2>3, <2>4, <2>5, <2>6, <2>7
<1> HIDE DEF BatchInv
<1> QED
  BY <1>1, <1>2, <1>3, <1>4, <1>5, <1>6, <1>7, <1>8, <1>9, <1>10, <1>11, <1>12, <1>13 DEF Next, Step, RunCase

\* The invariant holds before the first execution.
LEMMA BatchInvInit == Init => BatchInv
<1> SUFFICES ASSUME Init PROVE BatchInv
  OBVIOUS
<1>1. TypeOK
  <2>1. mirror \in [Cases -> {"present", "gone"}] /\ {} \subseteq Cases
    BY DEF Init
  <2>2. executions \in 0..MaxExecutions /\ faults \in 0..MaxFaults
    BY DEF Init
  <2> QED BY <2>1, <2>2, InitialFields, NoResultFields DEF Init, TypeOK, Modes, NoRequest
<1>2. ReuseIsSafe /\ IndexSane /\ UnsafeStops /\ EligibleUntouched
  BY DEF Init, ReuseIsSafe, IndexSane, UnsafeStops, EligibleUntouched, Holding, InSingleRun, Case!InSingleRun
<1>3. MirrorsMatch /\ ResultIsSane
  BY InitialFields, NoResultFields DEF Init, MirrorsMatch, ResultIsSane
<1> QED BY <1>1, <1>2, <1>3 DEF BatchInv

\* The inductive invariant holds in every reachable state.
THEOREM BatchCorrect == Spec => []BatchInv
<1>1. Init => BatchInv
  BY BatchInvInit
<1>2. BatchInv /\ [Next]_vars => BatchInv'
  BY BatchInvInductive
<1> QED BY <1>1, <1>2, PTL DEF Spec

\* Whatever the plan, the resumes and the crashes, no sample is launched on an
\* instance that a case without the fastmode gate has used since its restore.
THEOREM LaunchesAreClean == Spec => []CleanLaunch
<1>1. BatchInv => CleanLaunch
  BY DEF BatchInv, ReuseIsSafe, OnlyEligible, CleanLaunch
<1> QED BY <1>1, BatchCorrect, PTL

\* The state file never says of an existing mirror that it was burned.
THEOREM BurnedMirrorsAreGone == Spec => []BurnedMirrorIsGone
<1>1. BatchInv => BurnedMirrorIsGone
  BY DEF BatchInv, MirrorsMatch, BurnedMirrorIsGone
<1> QED BY <1>1, BatchCorrect, PTL

\* The case an execution ends with is never left deferred to a next one.
THEOREM LastCaseIsCleanedUp == Spec => LastCaseNotDeferred
<1> DEFINE A == disk' # disk /\ disk'.batch \in Stopped \cup Completed /\ index # None =>
                  disk'.cases[index].cleanup # "deferred_to_next_case"
<1>1. ASSUME BatchInv, [Next]_vars PROVE [A]_vars
  <2> SUFFICES ASSUME Next, disk' # disk, disk'.batch \in Stopped \cup Completed, index # None
               PROVE  disk'.cases[index].cleanup # "deferred_to_next_case"
    BY <1>1
  <2>1. /\ mem \in BatchState /\ index \in Cases
    BY <1>1 DEF BatchInv, TypeOK
  <2>2. CASE FinishStopped
    <3>1. disk'.cases = mem.cases /\ pc = "burn_rest"
      BY <2>2, <2>1 DEF FinishStopped, Terminate, BatchState
    <3>2. result.kind # "none" /\ mem.cases[index].cleanup = result.cleanup
      BY <1>1, <3>1 DEF BatchInv, ResultIsSane, Stops
    <3> QED BY <1>1, <3>1, <3>2 DEF BatchInv, ResultIsSane
  <2>3. CASE FinishCompleted
    <3>1. disk'.cases = mem.cases /\ pc = "select" /\ todo = {}
      BY <2>3, <2>1 DEF FinishCompleted, Terminate, BatchState
    <3> QED BY <1>1, <3>1 DEF BatchInv, IndexSane
  <2>4. CASE PreflightFails
    BY <2>4, <2>1 DEF PreflightFails, BatchState, Stopped, Completed
  <2>5. ASSUME NEW m \in Modes, Start(m) PROVE FALSE
    BY <2>5, <1>1 DEF Start, BatchInv, IndexSane
  <2>6. CASE Record
    <3>1. PICK case : mem' = WithResult(case) /\ disk' = mem'
      BY <2>6 DEF Record
    <3>2. disk'.batch = mem.batch
      BY <2>1, <3>1 DEF WithResult, WithCase, BatchState
    <3>3. mem.batch = "running"
      BY <1>1, <2>6 DEF BatchInv, IndexSane, Record, Holding, InSingleRun, Case!InSingleRun
    <3> QED BY <3>2, <3>3 DEF Stopped, Completed
  <2>7. CASE Rewrite
    <3>1. disk'.batch = "running"
      BY <1>1, <2>7 DEF BatchInv, IndexSane, Rewrite, Holding, InSingleRun, Case!InSingleRun
    <3> QED BY <3>1 DEF Stopped, Completed
  <2>8. CASE CaseStep
    BY <1>1, <2>8, CaseStepFrame DEF BatchInv
  <2> QED BY <2>2, <2>3, <2>4, <2>5, <2>6, <2>7, <2>8
        DEF Next, Step, RunCase, PreflightPasses, Select, Burn, BurnRest, Crash, files
<1> QED BY <1>1, BatchCorrect, PTL DEF Spec, LastCaseNotDeferred

\* A completed and restored result survives every resume and every crash; only
\* --force-rerun replaces it.
THEOREM EligibleResultsAreKept == Spec => EligibleResultKept
<1> DEFINE A == \A c \in Cases :
                  disk # NoState /\ ResumeEligible(disk.cases[c]) /\ mode # "force_rerun" =>
                    ResumeEligible(disk'.cases[c])
<1>1. ASSUME BatchInv, [Next]_vars PROVE [A]_vars
  <2> SUFFICES ASSUME Next, NEW c \in Cases, disk # NoState,
                      ResumeEligible(disk.cases[c]), mode # "force_rerun"
               PROVE  ResumeEligible(disk'.cases[c])
    BY <1>1
  <2>1. mem \in BatchState /\ disk \in BatchState
    BY <1>1 DEF BatchInv, TypeOK
  <2>2. pc # "idle" => ResumeEligible(mem.cases[c])
    BY <1>1 DEF BatchInv, EligibleUntouched
  <2>3. pc \in Holding => c # index
    BY <1>1, <2>2 DEF BatchInv, EligibleUntouched, Holding, InSingleRun, Case!InSingleRun
  <2>4. ASSUME pc # "idle", disk'.cases = mem.cases PROVE ResumeEligible(disk'.cases[c])
    BY <2>2, <2>4
  <2>5. CASE FinishStopped \/ FinishCompleted \/ PreflightFails \/ Rewrite
    BY <2>1, <2>4, <2>5
       DEF FinishStopped, FinishCompleted, PreflightFails, Rewrite, Terminate, BatchState
  <2>6. ASSUME NEW m \in Modes, Start(m) PROVE ResumeEligible(disk'.cases[c])
    <3>1. m # "run" /\ disk' = Opened(m)
      BY <2>6 DEF Start, MayExecute
    <3> QED BY <3>1, <2>1 DEF Opened, BatchState
  <2>7. CASE Record
    <3>1. PICK case : mem' = WithResult(case) /\ disk' = mem'
      BY <2>7 DEF Record
    <3>2. mem'.cases[c] = mem.cases[c]
      BY <2>1, <2>3, <2>7, <3>1 DEF Record, Holding, WithResult, WithCase, BatchState
    <3> QED BY <2>2, <2>7, <3>1, <3>2 DEF Record
  <2>8. CASE CaseStep
    BY <1>1, <2>2, <2>8, CaseStepFrame DEF BatchInv, EligibleUntouched, Holding, InSingleRun, Case!InSingleRun
  <2> QED BY <2>5, <2>6, <2>7, <2>8
        DEF Next, Step, RunCase, PreflightPasses, Select, Burn, BurnRest, Crash, files
<1> QED BY <1>1, BatchCorrect, PTL DEF Spec, EligibleResultKept

\* Once the environment is recorded as unsafe, nothing is launched on it again.
THEOREM UnsafeStaysUnused == Spec => UnsafeIsFinal
<1> DEFINE A == disk # NoState /\ disk.unsafe => vm' \subseteq vm
<1>1. ASSUME BatchInv, [Next]_vars PROVE [A]_vars
  <2>1. CASE CaseStep
    BY <1>1, <2>1, CaseStepFrame
       DEF BatchInv, UnsafeStops, Holding, InSingleRun, Case!InSingleRun
  <2> QED BY <1>1, <2>1 DEF vars, Next, Step, RunCase, Start, PreflightPasses,
       PreflightFails, Select, Record, Burn, Rewrite, BurnRest, FinishStopped,
       FinishCompleted, Crash, Terminate
<1> QED BY <1>1, BatchCorrect, PTL DEF Spec, UnsafeIsFinal

\* What is on disk when a mirror may be destroyed.
PersistedInv ==
  /\ pc = "record" => result.status # "planned"
  /\ pc = "burn" => disk.cases[index].status # "planned"
  /\ pc = "burn_rest" => Stops(disk.cases[index])

\* Every result that reaches Record is a verdict, and it is on disk before the
\* burning begins.
LEMMA PersistedInvInductive ==
  /\ Init => PersistedInv
  /\ BatchInv /\ PersistedInv /\ [Next]_vars => PersistedInv'
<1> USE DEF PersistedInv
<1>1. Init => PersistedInv
  BY DEF Init
<1> SUFFICES ASSUME BatchInv, PersistedInv, [Next]_vars PROVE PersistedInv'
  BY <1>1
<1>2. CASE Record
  <2>1. PICK clean \in BOOLEAN :
          disk' = WithResult(CaseOf(result, plan.fastmode /\ result.kind = "none" /\ clean))
    BY <1>2 DEF Record
  <2> DEFINE gate == plan.fastmode /\ result.kind = "none" /\ clean
  <2>2. index \in Cases /\ mem \in BatchState /\ result \in Case!Outcomes
        /\ gate \in BOOLEAN
    BY <1>2 DEF Record, BatchInv, TypeOK, IndexSane, Holding, Plan
  <2> HIDE DEF gate
  <2>3. /\ CaseOf(result, gate) \in CaseState
        /\ CaseOf(result, gate).status = result.status
    BY <2>2, CaseOfFields
  <2>4. disk'.cases = [mem.cases EXCEPT ![index] = CaseOf(result, gate)]
    BY <2>1, <2>2, <2>3, WithResultFields DEF gate
  <2>5. mem.cases \in [Cases -> CaseState]
    BY <2>2 DEF BatchState
  <2>6. disk'.cases[index].status = result.status
    BY <2>2, <2>3, <2>4, <2>5
  <2> QED BY <1>2, <2>6 DEF Record
<1>3. CASE Rewrite
  <2>1. mem.cases[index].kind = result.kind
    BY <1>3 DEF Rewrite, BatchInv, ResultIsSane
  <2> QED BY <1>3, <2>1 DEF Rewrite, Stops
<1>4. ASSUME NEW c \in Cases, BurnRest(c) PROVE PersistedInv'
  BY <1>4 DEF BurnRest, Stops
<1>5. CASE CaseStep
  BY <1>5, CaseStepFrame, ReturnedResult
     DEF BatchInv, Holding, InSingleRun, Case!InSingleRun
<1>6. ASSUME pc' \notin {"record", "burn", "burn_rest"} PROVE PersistedInv'
  BY <1>6
<1>7. CASE UNCHANGED vars
  BY <1>7 DEF vars, Stops
<1> HIDE DEF PersistedInv
<1>8. CASE Next
  BY <1>8, <1>2, <1>3, <1>4, <1>5, <1>6 DEF Next, Step, RunCase, Start, PreflightPasses,
     PreflightFails, Select, Burn, FinishStopped, FinishCompleted, Crash, Terminate, End
<1> QED BY <1>7, <1>8

\* No mirror is destroyed on the strength of a result that a crash could lose.
THEOREM BurnsArePersisted == Spec => BurnNeedsPersistedResult
<1> DEFINE A == \A c \in Cases :
      mirror[c] = "present" /\ mirror'[c] = "gone" =>
        \/ disk.cases[c].status # "planned"
        \/ \E x \in Cases : Stops(disk.cases[x])
<1>1. ASSUME BatchInv, PersistedInv, [Next]_vars PROVE [A]_vars
  <2>0. mirror \in [Cases -> {"present", "gone"}]
        /\ (pc \in {"burn", "burn_rest"} => index \in Cases)
    BY <1>1 DEF BatchInv, TypeOK, IndexSane
  <2>1. CASE Burn
    <3>1. \A c \in Cases : c # index => mirror'[c] = mirror[c]
      BY <2>0, <2>1 DEF Burn, BurnOutcome
    <3> QED BY <1>1, <2>1, <3>1 DEF Burn, PersistedInv
  <2>2. ASSUME NEW c \in Cases, BurnRest(c) PROVE A
    BY <1>1, <2>0, <2>2 DEF BurnRest, PersistedInv
  <2>3. ASSUME UNCHANGED mirror PROVE A
    BY <2>3
  <2>4. CASE CaseStep
    BY <1>1, <2>3, <2>4, CaseStepFrame DEF BatchInv
  <2> QED BY <1>1, <2>1, <2>2, <2>3, <2>4 DEF vars, files, Next, Step, RunCase, Start,
        PreflightPasses, PreflightFails, Select, Record, Rewrite, FinishStopped,
        FinishCompleted, Crash, Terminate
<1> QED BY <1>1, PersistedInvInductive, BatchCorrect, PTL DEF Spec, BurnNeedsPersistedResult

=============================================================================
