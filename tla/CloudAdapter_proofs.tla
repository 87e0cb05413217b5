------------------------- MODULE CloudAdapter_proofs -------------------------
(* What a run knows of its instance after a restore, a cleanup or an         *)
(* emergency stop, for any number of runs and looks.                         *)
EXTENDS CloudAdapter, TLAPS

USE AdapterAssumption

\* Raising goes to the next phase, or ends the run.
LEMMA RaiseEffect ==
  ASSUME TypeOK, Raise
  PROVE  \/ phase = "initial" /\ phase' = "cleanup" /\ step' = "check" /\ outcome' = outcome
         \/ phase = "cleanup" /\ phase' = "poweroff" /\ step' = "stop" /\ outcome' = outcome
         \/ phase = "poweroff" /\ phase' = phase /\ step' = "idle" /\ outcome' = "failed"
BY DEF TypeOK, Raise, End

\* A status whose request is forgotten is otherwise the same.
LEMMA ForgetEffect ==
  ASSUME TypeOK, Forget
  PROVE  /\ cloud' \in Status /\ shown' \in Status /\ waited' = 0
         /\ ~cloud'.mine /\ ~shown'.mine
         /\ cloud'.state = cloud.state /\ cloud'.operation = cloud.operation
         /\ cloud'.operationState = cloud.operationState
         /\ shown'.state = shown.state /\ shown'.operation = shown.operation
         /\ shown'.operationState = shown.operationState
         /\ shown = cloud => shown' = cloud'
BY DEF TypeOK, Forget, Status

\* An accepted request is under way.
LEMMA AcceptEffect ==
  ASSUME TypeOK, NEW operation \in Operations, NEW mine \in BOOLEAN,
         Accepts(operation, mine)
  PROVE  /\ cloud' \in Status /\ cloud'.operation = operation
         /\ cloud'.operationState = "OPERATING" /\ cloud'.mine = mine
         /\ cloud.operationState # "OPERATING"
         /\ operation = "ApplyInstanceSnapshot" => cloud.state = "STOPPED"
<1>1. PICK state \in {cloud.state, "other"} :
        cloud' = [state |-> state, operation |-> operation,
                  operationState |-> "OPERATING", mine |-> mine]
  BY DEF Accepts
<1>2. cloud' \in Status
  BY <1>1 DEF TypeOK, Status
<1>3. /\ cloud.operationState # "OPERATING"
      /\ operation = "ApplyInstanceSnapshot" => cloud.state = "STOPPED"
  BY DEF Accepts
<1> QED BY <1>1, <1>2, <1>3

LEMMA InitInv == Init => AdapterInv
<1> SUFFICES ASSUME Init PROVE AdapterInv
  OBVIOUS
<1>1. cloud \in Status /\ ~cloud.mine /\ shown = cloud
  BY DEF Init, Status, Operations
<1>2. TypeOK
  <2>1. clean \in BOOLEAN /\ named \in BOOLEAN /\ meddled \in BOOLEAN
    BY Zenon DEF Init
  <2>2. step \in Steps /\ phase = "initial" /\ waited = 0 /\ silent = 0
        /\ outcome = "none" /\ runs = 0 /\ cloud \in Status /\ shown \in Status
    BY <1>1 DEF Init, Steps
  <2> QED BY <2>1, <2>2 DEF TypeOK
<1>3. RequestInv /\ RestoreInv /\ PhaseInv
  BY <1>1 DEF Init, RequestInv, RestoreInv, PhaseInv, Waiting
<1>4. SilenceInv /\ CaseStartsRestored /\ OutcomeIsTrue
  <2>1. step = "idle" /\ silent = 0 /\ outcome = "none"
    BY DEF Init
  <2> QED BY <2>1 DEF SilenceInv, SilenceBounded, CaseStartsRestored, OutcomeIsTrue
<1> QED BY <1>2, <1>3, <1>4 DEF AdapterInv

\* The control plane and the operator.
LEMMA CloudKeeps ==
  ASSUME AdapterInv, ControlPlane \/ Operator
  PROVE  AdapterInv'
<1> USE DEF AdapterInv
<1>0. TypeOK /\ RequestInv /\ RestoreInv /\ PhaseInv /\ SilenceInv
      /\ CaseStartsRestored /\ OutcomeIsTrue
  OBVIOUS
<1>1. CASE Succeed
  <2>1. TypeOK'
    <3>1. PICK state \in {"STOPPED", "RUNNING"} :
            cloud' = [cloud EXCEPT !.operationState = "SUCCESS", !.state = state]
      BY <1>1 DEF Succeed, Leaves
    <3>2. cloud' \in Status
      BY <1>0, <3>1 DEF TypeOK, Status
    <3>3. clean' \in BOOLEAN
      BY <1>1, Zenon DEF Succeed
    <3> QED BY <1>0, <1>1, <3>2, <3>3 DEF Succeed, TypeOK, control
  <2>2. RequestInv'
    BY <1>0, <1>1 DEF Succeed, TypeOK, Status, RequestInv, Waiting, Awaited, control
  <2>3. RestoreInv'
    BY <1>0, <1>1 DEF Succeed, TypeOK, Status, RequestInv, Waiting, Awaited,
       RestoreInv, Ready, control
  <2>4. PhaseInv' /\ SilenceInv'
    BY <1>0, <1>1 DEF Succeed, PhaseInv, SilenceInv, SleptBefore, SilenceBounded, control
  <2>5. CaseStartsRestored' /\ OutcomeIsTrue'
    BY <1>0, <1>1 DEF Succeed, CaseStartsRestored, OutcomeIsTrue, Settled, control
  <2> QED BY <2>1, <2>2, <2>3, <2>4, <2>5
<1>2. CASE GoWrong
  <2>1. TypeOK'
    <3>1. PICK state \in {cloud.state, "STOPPED", "RUNNING"} :
            cloud' = [cloud EXCEPT !.operationState = "FAILED", !.state = state]
      BY <1>2 DEF GoWrong
    <3>2. cloud' \in Status
      BY <1>0, <3>1 DEF TypeOK, Status
    <3>3. clean' \in BOOLEAN
      BY <1>2, Zenon DEF GoWrong
    <3> QED BY <1>0, <1>2, <3>2, <3>3 DEF GoWrong, TypeOK, control
  <2>2. RequestInv'
    BY <1>0, <1>2 DEF GoWrong, TypeOK, Status, RequestInv, Waiting, Awaited, control
  <2>3. RestoreInv'
    BY <1>0, <1>2 DEF GoWrong, TypeOK, Status, RequestInv, Waiting, Awaited,
       RestoreInv, Ready, control
  <2>4. PhaseInv' /\ SilenceInv'
    BY <1>0, <1>2 DEF GoWrong, PhaseInv, SilenceInv, SleptBefore, SilenceBounded, control
  <2>5. CaseStartsRestored' /\ OutcomeIsTrue'
    BY <1>0, <1>2 DEF GoWrong, CaseStartsRestored, OutcomeIsTrue, Settled, control
  <2> QED BY <2>1, <2>2, <2>3, <2>4, <2>5
<1>3. CASE Sync
  <2>1. TypeOK'
    BY <1>0, <1>3 DEF Sync, TypeOK, control
  <2>2. RequestInv'
    BY <1>0, <1>3 DEF Sync, TypeOK, RequestInv, Waiting, Awaited, control
  <2>3. RestoreInv'
    BY <1>0, <1>3 DEF Sync, TypeOK, RestoreInv, Ready, control
  <2>4. PhaseInv' /\ SilenceInv'
    BY <1>0, <1>3 DEF Sync, PhaseInv, SilenceInv, SleptBefore, SilenceBounded, control
  <2>5. CaseStartsRestored' /\ OutcomeIsTrue'
    BY <1>0, <1>3 DEF Sync, CaseStartsRestored, OutcomeIsTrue, Settled, control
  <2> QED BY <2>1, <2>2, <2>3, <2>4, <2>5
<1>4. CASE Operator
  <2>0. PICK operation \in Operations : Accepts(operation, FALSE)
    BY <1>4 DEF Operator
  <2>1. cloud' \in Status /\ ~cloud'.mine
    BY <1>0, <2>0, AcceptEffect
  <2>2. TypeOK'
    BY <1>0, <1>4, <2>1 DEF Operator, TypeOK, control
  <2>3. RequestInv' /\ RestoreInv' /\ CaseStartsRestored' /\ OutcomeIsTrue'
    BY <1>0, <1>4, <2>1 DEF Operator, RequestInv, RestoreInv, CaseStartsRestored,
       OutcomeIsTrue, Waiting, control
  <2>4. PhaseInv' /\ SilenceInv'
    BY <1>0, <1>4 DEF Operator, PhaseInv, SilenceInv, SleptBefore, SilenceBounded, control
  <2> QED BY <2>2, <2>3, <2>4
<1> QED BY <1>1, <1>2, <1>3, <1>4 DEF ControlPlane

\* The steps of the run that wait for nothing.
LEMMA RunKeeps ==
  ASSUME AdapterInv, Begin \/ Die \/ Use \/ Check \/ Precheck
  PROVE  AdapterInv'
<1>0. TypeOK /\ RequestInv /\ RestoreInv /\ PhaseInv /\ SilenceInv
      /\ CaseStartsRestored /\ OutcomeIsTrue
  BY DEF AdapterInv
<1>1. CASE Begin
  <2>1. TypeOK'
    <3>1. meddled' \in BOOLEAN
      BY <1>1, Zenon DEF Begin
    <3> QED BY <1>0, <1>1, <3>1 DEF Begin, TypeOK, Steps
  <2>2. RequestInv' /\ RestoreInv' /\ PhaseInv'
    BY <1>0, <1>1 DEF Begin, RequestInv, RestoreInv, PhaseInv, Waiting
  <2>3. SilenceInv' /\ CaseStartsRestored' /\ OutcomeIsTrue'
    BY <1>1 DEF Begin, SilenceInv, SilenceBounded, CaseStartsRestored, OutcomeIsTrue
  <2> QED BY <2>1, <2>2, <2>3 DEF AdapterInv
<1>2. CASE Die
  <2>0. /\ Forget /\ step' = "idle" /\ outcome' = "none" /\ phase' = phase
        /\ clean' = clean /\ named' = named /\ silent' = silent /\ meddled' = meddled
        /\ runs' = runs
    BY <1>2 DEF Die, End
  <2>1. TypeOK'
    BY <1>0, <2>0, ForgetEffect DEF TypeOK, Steps
  <2>2. RequestInv' /\ RestoreInv' /\ PhaseInv'
    BY <1>0, <2>0, ForgetEffect DEF RequestInv, RestoreInv, PhaseInv, Waiting
  <2>3. SilenceInv' /\ CaseStartsRestored' /\ OutcomeIsTrue'
    BY <1>0, <2>0 DEF SilenceInv, SilenceBounded, CaseStartsRestored, OutcomeIsTrue
  <2> QED BY <2>1, <2>2, <2>3 DEF AdapterInv
<1>3. CASE Use
  <2>1. TypeOK'
    BY <1>0, <1>3 DEF Use, TypeOK, Steps
  <2>2. RequestInv' /\ RestoreInv' /\ PhaseInv'
    BY <1>0, <1>3 DEF Use, RequestInv, RestoreInv, PhaseInv, Waiting
  <2>3. SilenceInv' /\ CaseStartsRestored' /\ OutcomeIsTrue'
    BY <1>0, <1>3 DEF Use, TypeOK, SilenceInv, SilenceBounded, SleptBefore,
       CaseStartsRestored, OutcomeIsTrue
  <2> QED BY <2>1, <2>2, <2>3 DEF AdapterInv
<1>4. CASE Check
  <2>0. /\ cloud' = cloud /\ shown' = shown /\ clean' = clean /\ named' = named /\ waited' = waited
        /\ meddled' = meddled /\ runs' = runs /\ step = "check"
        /\ silent' = IF phase = "initial" THEN 0 ELSE silent
    BY <1>4 DEF Check, Heartbeat
  <2>1. CASE Raise
    <3>1. TypeOK'
      BY <1>0, <2>0, <2>1, RaiseEffect DEF TypeOK, Steps
    <3>2. RequestInv' /\ RestoreInv' /\ PhaseInv'
      BY <1>0, <2>0, <2>1, RaiseEffect DEF RequestInv, RestoreInv, PhaseInv, Waiting
    <3>3. SilenceInv' /\ CaseStartsRestored' /\ OutcomeIsTrue'
      BY <1>0, <2>0, <2>1, RaiseEffect DEF TypeOK, PhaseInv, SilenceInv,
         SilenceBounded, SleptBefore, CaseStartsRestored, OutcomeIsTrue
    <3> QED BY <3>1, <3>2, <3>3 DEF AdapterInv
  <2>2. CASE Goto(IF shown.state = "RUNNING" THEN "stop" ELSE "precheck")
    <3>0. phase' = phase /\ outcome' = outcome /\ step' \in {"stop", "precheck"}
      BY <2>2 DEF Goto
    <3>1. TypeOK'
      BY <1>0, <2>0, <3>0 DEF TypeOK, Steps
    <3>2. RequestInv' /\ RestoreInv' /\ PhaseInv'
      BY <1>0, <2>0, <3>0 DEF RequestInv, RestoreInv, PhaseInv, Waiting
    <3>3. SilenceInv' /\ CaseStartsRestored' /\ OutcomeIsTrue'
      BY <1>0, <2>0, <3>0 DEF TypeOK, PhaseInv, SilenceInv, SilenceBounded,
         SleptBefore, CaseStartsRestored, OutcomeIsTrue
    <3> QED BY <3>1, <3>2, <3>3 DEF AdapterInv
  <2> QED BY <1>4, <2>1, <2>2 DEF Check
<1>5. CASE Precheck
  <2>0. /\ cloud' = cloud /\ shown' = shown /\ clean' = clean /\ named' = named /\ waited' = waited
        /\ meddled' = meddled /\ runs' = runs /\ step = "precheck"
        /\ silent' = IF phase = "initial" THEN 0 ELSE silent
    BY <1>5 DEF Precheck, Heartbeat
  <2>1. CASE Raise
    <3>1. TypeOK'
      BY <1>0, <2>0, <2>1, RaiseEffect DEF TypeOK, Steps
    <3>2. RequestInv' /\ RestoreInv' /\ PhaseInv'
      BY <1>0, <2>0, <2>1, RaiseEffect DEF RequestInv, RestoreInv, PhaseInv, Waiting
    <3>3. SilenceInv' /\ CaseStartsRestored' /\ OutcomeIsTrue'
      BY <1>0, <2>0, <2>1, RaiseEffect DEF TypeOK, PhaseInv, SilenceInv,
         SilenceBounded, SleptBefore, CaseStartsRestored, OutcomeIsTrue, RequestInv, Waiting
    <3> QED BY <3>1, <3>2, <3>3 DEF AdapterInv
  <2>2. CASE shown.state = "STOPPED" /\ Goto("apply")
    <3>0. phase' = phase /\ outcome' = outcome /\ step' = "apply"
      BY <2>2 DEF Goto
    <3>1. TypeOK'
      BY <1>0, <2>0, <3>0 DEF TypeOK, Steps
    <3>2. RequestInv' /\ RestoreInv' /\ PhaseInv'
      BY <1>0, <2>0, <2>2, <3>0 DEF RequestInv, RestoreInv, PhaseInv, Waiting
    <3>3. SilenceInv' /\ CaseStartsRestored' /\ OutcomeIsTrue'
      BY <1>0, <2>0, <3>0 DEF TypeOK, PhaseInv, SilenceInv, SilenceBounded,
         SleptBefore, CaseStartsRestored, OutcomeIsTrue
    <3> QED BY <3>1, <3>2, <3>3 DEF AdapterInv
  <2> QED BY <1>5, <2>1, <2>2 DEF Precheck
<1> QED BY <1>1, <1>2, <1>3, <1>4, <1>5

\* A request that is not accepted, or whose answer is lost, or a wait in vain.
LEMMA RaiseKeeps ==
  ASSUME AdapterInv, Raise, step \notin {"idle", "use"},
         cloud' \in Status /\ shown' \in Status /\ ~cloud'.mine /\ ~shown'.mine,
         waited' = 0, silent' = silent \/ (phase = "initial" /\ silent' = 0),
         step \in {"stop", "precheck", "check"} /\ phase = "initial" => silent' = 0,
         UNCHANGED <<clean, named, meddled, runs>>
  PROVE  AdapterInv'
<1>0. TypeOK /\ PhaseInv /\ SilenceInv
  BY DEF AdapterInv
<1>1. TypeOK'
  BY <1>0, RaiseEffect DEF TypeOK, Steps
<1>2. RequestInv' /\ RestoreInv' /\ PhaseInv'
  BY <1>0, RaiseEffect DEF RequestInv, RestoreInv, PhaseInv, Waiting
<1>3. CaseStartsRestored' /\ OutcomeIsTrue'
  BY <1>0, RaiseEffect DEF CaseStartsRestored, OutcomeIsTrue, TypeOK, AdapterInv
<1>4. SilenceInv'
  <2>1. waited \in Nat /\ waited <= MaxWait /\ silent \in Nat /\ MaxWait \in Nat
    BY <1>0 DEF TypeOK
  <2>2. CASE phase = "initial"
    BY <1>0, <2>1, <2>2, RaiseEffect DEF SilenceInv, SilenceBounded, SleptBefore, TypeOK, Steps
  <2>3. CASE phase = "cleanup"
    BY <1>0, <2>1, <2>3, RaiseEffect DEF SilenceInv, SilenceBounded, SleptBefore, TypeOK, Steps
  <2>4. CASE phase = "poweroff"
    BY <1>0, <2>1, <2>4, RaiseEffect DEF SilenceInv, SilenceBounded, SleptBefore, TypeOK, Steps
  <2> QED BY <1>0, <2>2, <2>3, <2>4 DEF TypeOK
<1> QED BY <1>1, <1>2, <1>3, <1>4 DEF AdapterInv

\* The requests.
LEMMA SubmitKeeps ==
  ASSUME AdapterInv, Stop \/ Apply \/ Start
  PROVE  AdapterInv'
<1> DEFINE request == IF step = "stop" THEN "StopInstances"
                     ELSE IF step = "apply" THEN "ApplyInstanceSnapshot"
                     ELSE "StartInstances"
           next == IF step = "stop" THEN "stopping"
                   ELSE IF step = "apply" THEN "settling" ELSE "starting"
<1>0. TypeOK /\ RequestInv /\ RestoreInv /\ PhaseInv /\ SilenceInv
      /\ CaseStartsRestored /\ OutcomeIsTrue
  BY DEF AdapterInv
<1>1. /\ step \in {"stop", "apply", "start"}
      /\ Submit(request, next)
      /\ silent' = IF step = "stop" /\ phase = "initial" THEN 0 ELSE silent
  <2>1. CASE Stop
    BY <2>1 DEF Stop, Heartbeat
  <2>2. CASE Apply
    BY <2>2 DEF Apply
  <2>3. CASE Start
    BY <2>3 DEF Start
  <2> QED BY <2>1, <2>2, <2>3
<1>2. request \in Operations
  BY <1>1 DEF Operations
<1>3. ~cloud.mine /\ ~shown.mine /\ waited = 0
  BY <1>0, <1>1 DEF RequestInv, Waiting
<1>4. UNCHANGED <<shown, clean, waited, meddled, runs>>
  BY <1>1 DEF Submit
<1> HIDE DEF request, next
<1>5. ASSUME NEW id \in BOOLEAN, named' = id, Accepts(request, id), Goto(next)
      PROVE  AdapterInv'
  <2>1. /\ cloud' \in Status /\ cloud'.operation = request
        /\ cloud'.operationState = "OPERATING" /\ cloud'.mine = id
        /\ cloud.operationState # "OPERATING"
        /\ request = "ApplyInstanceSnapshot" => cloud.state = "STOPPED"
    BY <1>0, <1>2, <1>5, AcceptEffect
  <2>2. /\ step' = next /\ phase' = phase /\ outcome' = outcome
    BY <1>5 DEF Goto
  <2>3. \/ step = "stop" /\ request = "StopInstances" /\ next = "stopping"
        \/ step = "apply" /\ request = "ApplyInstanceSnapshot" /\ next = "settling"
        \/ step = "start" /\ request = "StartInstances" /\ next = "starting"
    BY <1>1 DEF request, next
  <2>4. TypeOK'
    BY <1>0, <1>1, <1>4, <1>5, <2>1, <2>2, <2>3 DEF TypeOK, Steps
  <2>5. RequestInv'
    BY <1>0, <1>3, <1>4, <1>5, <2>1, <2>2, <2>3 DEF RequestInv, Waiting, Awaited
  <2>6. RestoreInv'
    BY <1>0, <1>3, <1>4, <2>1, <2>2, <2>3 DEF RestoreInv, Ready, TypeOK, Status
  <2>7. PhaseInv' /\ CaseStartsRestored' /\ OutcomeIsTrue'
    BY <1>0, <2>2, <2>3 DEF PhaseInv, CaseStartsRestored, OutcomeIsTrue
  <2>8. SilenceInv'
    BY <1>0, <1>1, <1>3, <1>4, <2>2, <2>3
       DEF SilenceInv, SilenceBounded, SleptBefore, TypeOK
  <2> QED BY <2>4, <2>5, <2>6, <2>7, <2>8 DEF AdapterInv
<1>6. CASE (Accepts(request, FALSE) \/ UNCHANGED cloud) /\ Raise /\ UNCHANGED named
  <2>1. cloud' \in Status /\ ~cloud'.mine
    BY <1>0, <1>2, <1>3, <1>6, AcceptEffect DEF TypeOK
  <2>2. shown' \in Status /\ ~shown'.mine /\ waited' = 0
    BY <1>0, <1>3, <1>4 DEF TypeOK
  <2> QED BY <1>1, <1>4, <1>6, <2>1, <2>2, RaiseKeeps
<1> QED BY <1>1, <1>5, <1>6 DEF Submit

\* A look that has not seen what it waits for.
LEMMA KeepWaitingKeeps ==
  ASSUME AdapterInv, Waiting, NEW seen, KeepWaiting(seen), UNCHANGED <<clean, named, meddled, runs>>
  PROVE  AdapterInv'
<1>0. TypeOK /\ RequestInv /\ RestoreInv /\ PhaseInv /\ SilenceInv
      /\ CaseStartsRestored /\ OutcomeIsTrue
  BY DEF AdapterInv
<1>1. CASE Raise /\ Forget /\ UNCHANGED silent
  BY <1>0, <1>1, ForgetEffect, RaiseKeeps DEF Waiting
<1>2. CASE /\ waited < MaxWait /\ waited' = waited + 1 /\ silent' = silent + 1
           /\ UNCHANGED <<cloud, shown, phase, step, outcome>>
  <2>1. TypeOK'
    BY <1>0, <1>2 DEF TypeOK
  <2>2. RequestInv' /\ RestoreInv' /\ PhaseInv'
    BY <1>0, <1>2 DEF RequestInv, RestoreInv, PhaseInv, Waiting, Awaited, Ready
  <2>3. CaseStartsRestored' /\ OutcomeIsTrue'
    BY <1>0, <1>2 DEF CaseStartsRestored, OutcomeIsTrue, Waiting
  <2>4. SilenceInv'
    BY <1>0, <1>2 DEF SilenceInv, SilenceBounded, SleptBefore, TypeOK, Waiting
  <2> QED BY <2>1, <2>2, <2>3, <2>4 DEF AdapterInv
<1> QED BY <1>1, <1>2 DEF KeepWaiting

\* A wait that has seen its request end: the status is up to date, unless an
\* operator came between.
LEMMA AwaitStopKeeps ==
  ASSUME AdapterInv, AwaitStop
  PROVE  AdapterInv'
<1>0. TypeOK /\ RequestInv /\ RestoreInv /\ PhaseInv /\ SilenceInv
      /\ CaseStartsRestored /\ OutcomeIsTrue
  BY DEF AdapterInv
<1>1. step = "stopping" /\ UNCHANGED <<clean, named, meddled, runs>>
  BY DEF AwaitStop, Wait
<1>2. CASE KeepWaiting(Reached("STOPPED", "StopInstances"))
  BY <1>1, <1>2, KeepWaitingKeeps DEF Waiting
<1>3. CASE /\ Reached("STOPPED", "StopInstances") /\ Forget /\ UNCHANGED silent
           /\ IF phase = "poweroff" THEN End("stopped") ELSE Goto("precheck")
  <2>1. /\ phase' = phase
        /\ \/ phase = "poweroff" /\ step' = "idle" /\ outcome' = "stopped"
           \/ phase # "poweroff" /\ step' = "precheck" /\ outcome' = outcome
    BY <1>3 DEF End, Goto
  <2>2. ~meddled /\ named => Settled("STOPPED")
    BY <1>0, <1>1, <1>3
       DEF RequestInv, Waiting, Reached, MatchesExpected, Ready, Settled
  <2>3. TypeOK'
    BY <1>0, <1>1, <1>3, <2>1, ForgetEffect DEF TypeOK, Steps
  <2>4. RequestInv' /\ RestoreInv' /\ PhaseInv'
    BY <1>0, <1>1, <1>3, <2>1, ForgetEffect DEF RequestInv, RestoreInv, PhaseInv, Waiting
  <2>5. CaseStartsRestored' /\ OutcomeIsTrue'
    BY <1>0, <1>1, <1>3, <2>1, <2>2, ForgetEffect
       DEF CaseStartsRestored, OutcomeIsTrue, Settled
  <2>6. SilenceInv'
    BY <1>0, <1>1, <1>3, <2>1, ForgetEffect
       DEF SilenceInv, SilenceBounded, SleptBefore, TypeOK
  <2> QED BY <2>3, <2>4, <2>5, <2>6 DEF AdapterInv
<1> QED BY <1>2, <1>3 DEF AwaitStop, Wait

\* restore_snapshot returns to its caller.
LEMMA RestoreReturnsKeeps ==
  ASSUME AdapterInv, step \in {"settling", "starting"}, RestoreReturns,
         Forget, UNCHANGED <<silent, clean, named, meddled, runs>>,
         ~meddled => Settled("RUNNING") /\ clean
  PROVE  AdapterInv'
<1>0. TypeOK /\ PhaseInv /\ SilenceInv
  BY DEF AdapterInv
<1>1. /\ phase' = phase
      /\ \/ phase = "initial" /\ step' = "use" /\ outcome' = outcome
         \/ phase # "initial" /\ step' = "idle" /\ outcome' = "restored"
  BY DEF RestoreReturns, Goto, End
<1>2. TypeOK'
  BY <1>0, <1>1, ForgetEffect DEF TypeOK, Steps
<1>3. RequestInv' /\ RestoreInv' /\ PhaseInv'
  BY <1>0, <1>1, ForgetEffect DEF RequestInv, RestoreInv, PhaseInv, Waiting
<1>4. CaseStartsRestored' /\ OutcomeIsTrue'
  BY <1>0, <1>1, ForgetEffect DEF CaseStartsRestored, OutcomeIsTrue, Settled
<1>5. SilenceInv'
  BY <1>0, <1>1 DEF SilenceInv, SilenceBounded
<1> QED BY <1>2, <1>3, <1>4, <1>5 DEF AdapterInv

LEMMA AwaitRestoreKeeps ==
  ASSUME AdapterInv, AwaitRestore
  PROVE  AdapterInv'
<1> DEFINE settled == /\ shown.operation = "ApplyInstanceSnapshot" /\ shown.mine
                      /\ shown.state \in {"STOPPED", "RUNNING"}
                      /\ Ready
           seen == settled \/ (shown.state = "RUNNING" /\ Ready)
<1>0. TypeOK /\ RequestInv /\ RestoreInv /\ PhaseInv /\ SilenceInv
  BY DEF AdapterInv
<1>1. /\ step = "settling"
      /\ Wait(seen, IF shown.state = "RUNNING" THEN RestoreReturns ELSE Goto("start"))
  BY DEF AwaitRestore
<1>2. UNCHANGED <<clean, named, meddled, runs>>
  BY <1>1 DEF Wait
<1>3. CASE KeepWaiting(seen)
  BY <1>1, <1>2, <1>3, KeepWaitingKeeps DEF Waiting
<1>4. CASE /\ seen /\ Forget /\ UNCHANGED silent
           /\ IF shown.state = "RUNNING" THEN RestoreReturns ELSE Goto("start")
  <2>1. ~meddled => shown = cloud /\ cloud.operationState = "SUCCESS" /\ clean
    BY <1>0, <1>1, <1>4 DEF RequestInv, RestoreInv, Waiting, MatchesExpected, Ready
  <2>2. CASE shown.state = "RUNNING"
    <3>1. RestoreReturns /\ (~meddled => Settled("RUNNING") /\ clean)
      BY <1>4, <2>1, <2>2 DEF Settled
    <3> QED BY <1>1, <1>2, <1>4, <3>1, RestoreReturnsKeeps
  <2>3. CASE shown.state # "RUNNING"
    <3>1. phase' = phase /\ outcome' = outcome /\ step' = "start"
      BY <1>4, <2>3 DEF Goto
    <3>2. TypeOK'
      BY <1>0, <1>2, <1>4, <3>1, ForgetEffect DEF TypeOK, Steps
    <3>3. RequestInv' /\ PhaseInv'
      BY <1>0, <1>1, <3>1, <1>4, ForgetEffect DEF RequestInv, PhaseInv, Waiting
    <3>6. ~meddled => cloud.operation = "ApplyInstanceSnapshot"
      BY <1>0, <1>1 DEF RequestInv, Waiting, Awaited
    <3>7. RestoreInv'
      BY <1>0, <1>2, <1>4, <2>1, <3>1, <3>6, ForgetEffect DEF RestoreInv
    <3>4. CaseStartsRestored' /\ OutcomeIsTrue'
      BY <3>1 DEF CaseStartsRestored, OutcomeIsTrue
    <3>5. SilenceInv'
      BY <1>0, <1>1, <1>4, <3>1, ForgetEffect
         DEF SilenceInv, SilenceBounded, SleptBefore, TypeOK, PhaseInv
    <3> QED BY <3>2, <3>3, <3>4, <3>5, <3>7 DEF AdapterInv
  <2> QED BY <2>2, <2>3
<1> QED BY <1>1, <1>3, <1>4 DEF Wait

LEMMA AwaitStartKeeps ==
  ASSUME AdapterInv, AwaitStart
  PROVE  AdapterInv'
<1>0. TypeOK /\ RequestInv /\ RestoreInv
  BY DEF AdapterInv
<1>1. step = "starting" /\ UNCHANGED <<clean, named, meddled, runs>>
  BY DEF AwaitStart, Wait
<1>2. CASE KeepWaiting(Reached("RUNNING", "StartInstances"))
  BY <1>1, <1>2, KeepWaitingKeeps DEF Waiting
<1>3. CASE /\ Reached("RUNNING", "StartInstances") /\ Forget /\ UNCHANGED silent
           /\ RestoreReturns
  <2>1. ~meddled => Settled("RUNNING") /\ clean
    BY <1>0, <1>1, <1>3
       DEF RequestInv, RestoreInv, Waiting, Reached, MatchesExpected, Ready, Settled
  <2> QED BY <1>1, <1>3, <2>1, RestoreReturnsKeeps
<1> QED BY <1>2, <1>3 DEF AwaitStart, Wait

\* The inductive invariant of adapter.py's three operations as a run uses
\* them: whatever is refused, fails, outlasts a wait or is not answered.
THEOREM AdapterCorrect == Spec => []AdapterInv
<1>1. Init => AdapterInv
  BY InitInv
<1>2. AdapterInv /\ [Next]_vars => AdapterInv'
  <2> SUFFICES ASSUME AdapterInv, [Next]_vars PROVE AdapterInv'
    OBVIOUS
  <2>1. CASE ControlPlane \/ Operator
    BY <2>1, CloudKeeps
  <2>2. CASE Begin \/ Die \/ Use \/ Check \/ Precheck
    BY <2>2, RunKeeps
  <2>3. CASE Stop \/ Apply \/ Start
    BY <2>3, SubmitKeeps
  <2>4. CASE AwaitStop
    BY <2>4, AwaitStopKeeps
  <2>5. CASE AwaitRestore
    BY <2>5, AwaitRestoreKeeps
  <2>6. CASE AwaitStart
    BY <2>6, AwaitStartKeeps
  <2>7. CASE UNCHANGED vars
    <3>1. TypeOK' /\ RequestInv'
      BY <2>7 DEF vars, control, AdapterInv, TypeOK, RequestInv, Waiting, Awaited
    <3>2. RestoreInv' /\ PhaseInv'
      BY <2>7 DEF vars, control, AdapterInv, RestoreInv, PhaseInv, Ready
    <3>3. SilenceInv' /\ CaseStartsRestored' /\ OutcomeIsTrue'
      BY <2>7 DEF vars, control, AdapterInv, SilenceInv, SleptBefore, SilenceBounded,
         CaseStartsRestored, OutcomeIsTrue, Settled
    <3> QED BY <3>1, <3>2, <3>3 DEF AdapterInv
  <2> QED BY <2>1, <2>2, <2>3, <2>4, <2>5, <2>6, <2>7 DEF Next, Adapter
<1> QED BY <1>1, <1>2, PTL DEF Spec

\* _restore_snapshot_operation: the case begins on a restored instance that
\* runs, unless an operator's command came between.
THEOREM CasesStartRestored == Spec => []CaseStartsRestored
<1>1. AdapterInv => CaseStartsRestored
  BY DEF AdapterInv
<1> QED BY <1>1, AdapterCorrect, PTL

\* _cleanup_instance: "restored" and "stopped" are true when they are recorded.
THEOREM OutcomesAreTrue == Spec => []OutcomeIsTrue
<1>1. AdapterInv => OutcomeIsTrue
  BY DEF AdapterInv
<1> QED BY <1>1, AdapterCorrect, PTL

\* lock.heartbeat(): six waits are the longest silence, for any timeout.
THEOREM SilenceIsBounded == Spec => []SilenceBounded
<1>1. AdapterInv => SilenceBounded
  BY DEF AdapterInv, SilenceInv
<1> QED BY <1>1, AdapterCorrect, PTL
=============================================================================
