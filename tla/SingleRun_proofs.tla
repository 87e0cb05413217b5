-------------------------- MODULE SingleRun_proofs --------------------------
(* What a single run guarantees whatever is lost, late, refused or killed.   *)
EXTENDS SingleRun, TLAPS

\* A served request creates no new request and touches the instance only to
\* launch the sample.
LEMMA ServedEffect ==
  ASSUME TypeOK, NEW request, Served(request)
  PROVE  /\ guest' \in Guest /\ vm' \in [on: BOOLEAN, dirty: BOOLEAN]
         /\ launches' \in {launches, launches + 1} /\ launches' \in Nat
         /\ request # "execute" => UNCHANGED <<vm, launches>>
         /\ guest.case => guest'.case
         /\ vm'.on = vm.on
<1>0. guest \in Guest /\ vm \in [on: BOOLEAN, dirty: BOOLEAN] /\ launches \in Nat
  BY DEF TypeOK
<1>1. CASE request = "prepare"
  BY <1>0, <1>1 DEF Served, Guest, Clean
<1>2. CASE request = "upload"
  BY <1>0, <1>2 DEF Served, Guest
<1>3. CASE request = "execute"
  <2>1. CASE guest.sample = "stored"
    <3>1. vm' = [vm EXCEPT !.dirty = TRUE] /\ launches' = launches + 1 /\ guest' = guest
      BY <1>3, <2>1 DEF Served
    <3>2. /\ [vm EXCEPT !.dirty = TRUE] \in [on: BOOLEAN, dirty: BOOLEAN]
          /\ [vm EXCEPT !.dirty = TRUE].on = vm.on
      BY <1>0
    <3> QED BY <1>0, <1>3, <3>1, <3>2
  <2>2. CASE guest.sample # "stored"
    BY <1>0, <1>3, <2>2 DEF Served
  <2> QED BY <2>1, <2>2
<1>4. CASE request \notin {"prepare", "upload", "execute"}
  BY <1>0, <1>4 DEF Served
<1> QED BY <1>1, <1>2, <1>3, <1>4

\* A lost request other than "execute" leaves the launches as they are.
LEMMA UnheardEffect ==
  ASSUME TypeOK, NEW request, Unheard(request)
  PROVE  /\ guest' \in Guest /\ vm' \in [on: BOOLEAN, dirty: BOOLEAN]
         /\ late' \subseteq Requests /\ launches' \in Nat
         /\ guest.case => guest'.case
         /\ \/ launches' \in {launches, launches + 1} /\ late' = late
            \/ launches' = launches /\ late' \subseteq late \cup {request}
         /\ request # "execute" => UNCHANGED <<vm, launches>>
<1>1. CASE vm.on /\ Served(request) /\ UNCHANGED late
  BY <1>1, ServedEffect DEF TypeOK
<1>2. CASE /\ late' = IF vm.on /\ request \in Requests THEN late \cup {request} ELSE late
           /\ UNCHANGED <<guest, vm, launches>>
  BY <1>2 DEF TypeOK
<1> QED BY <1>1, <1>2 DEF Unheard

\* What a request other than "execute" does to the run, in each of its outcomes.
LEMMA CallEffect ==
  ASSUME TypeOK, NEW request, request # "execute", NEW next, NEW record,
         Call(request, next, record)
  PROVE  /\ guest' \in Guest /\ late' \subseteq Requests
         /\ again' \in BOOLEAN /\ lost' \in BOOLEAN
         /\ lost' = lost \/ run' = [run EXCEPT !.error = TRUE]
         /\ ("execute" \in late') = ("execute" \in late)
         /\ guest.case => guest'.case
         /\ UNCHANGED <<options, adapter, interrupted, locked, vm, launches>>
         /\ \/ pc' = next /\ run' = record /\ steps' = steps \cup {pc}
            \/ pc' = "finally" /\ run' = [run EXCEPT !.error = TRUE] /\ steps' = steps
            \/ pc' = pc /\ run' = run /\ steps' = steps
<1>0. /\ guest \in Guest /\ late \subseteq Requests
      /\ again \in BOOLEAN /\ lost \in BOOLEAN
  BY DEF TypeOK
<1>1. CASE Answered(request, next, record)
  BY <1>0, <1>1, ServedEffect DEF Answered, Proceed
<1>2. CASE Refused
  BY <1>0, <1>2 DEF Refused, Fail, world
<1>3. CASE Repeat(request)
  <2>1. Unheard(request) /\ again' = TRUE
        /\ UNCHANGED <<options, pc, run, steps, adapter, interrupted, locked, lost>>
    BY <1>3 DEF Repeat
  <2>2. ("execute" \in late') = ("execute" \in late)
    BY <2>1, UnheardEffect, ServedEffect DEF Unheard
  <2> QED BY <1>0, <2>1, <2>2, UnheardEffect
<1>4. CASE GiveUp(request)
  <2>1. Unheard(request) /\ Fail /\ lost' = TRUE
        /\ UNCHANGED <<options, adapter, interrupted, locked>>
    BY <1>4 DEF GiveUp
  <2>2. ("execute" \in late') = ("execute" \in late)
    BY <2>1, UnheardEffect, ServedEffect DEF Unheard
  <2> QED BY <1>0, <2>1, <2>2, UnheardEffect DEF Fail
<1> QED BY <1>1, <1>2, <1>3, <1>4 DEF Call

\* A restored instance has an empty guest.
LEMMA CleanGuest == Clean \in Guest
  BY DEF Clean, Guest

\* A restore, also one that fails, empties the guest or leaves it, and forgets
\* the requests still on their way or leaves them.
LEMMA CloudEffect ==
  ASSUME TypeOK, CloudFailure \/ Restored
  PROVE  /\ guest' \in Guest /\ vm' \in [on: BOOLEAN, dirty: BOOLEAN]
         /\ late' \in {late, {}}
<1>1. CASE Restored
  BY <1>1, CleanGuest DEF Restored
<1>2. CASE vm' = [vm EXCEPT !.on = FALSE] /\ late' = {} /\ UNCHANGED guest
  BY <1>2 DEF TypeOK
<1>3. CASE UNCHANGED <<vm, guest, late>>
  BY <1>3 DEF TypeOK
<1>4. CASE vm' = [on |-> FALSE, dirty |-> FALSE] /\ late' = {} /\ guest' = Clean
  BY <1>4, CleanGuest
<1> QED BY <1>1, <1>2, <1>3, <1>4 DEF CloudFailure

\* Every update the program makes to run_state.json keeps its type.
LEMMA Updates ==
  ASSUME run \in Run
  PROVE  /\ \A b \in BOOLEAN : Warn(b) \in Run
         /\ [run EXCEPT !.error = TRUE] \in Run
         /\ [run EXCEPT !.started = TRUE] \in Run
         /\ [run EXCEPT !.action = "skipped", !.warned = TRUE] \in Run
         /\ NotStarted \in Run
         /\ \A b \in BOOLEAN : [Warn(b) EXCEPT !.action = "observed"] \in Run
         /\ [run EXCEPT !.action = "observation_unavailable", !.warned = TRUE] \in Run
         /\ \A b \in BOOLEAN : [Warn(b) EXCEPT !.evidence = "saved"] \in Run
         /\ [run EXCEPT !.evidence = "saved"] \in Run
         /\ [Warn(TRUE) EXCEPT !.evidence = "failed"] \in Run
         /\ Marked("deferred_to_next_case", "not_needed") \in Run
         /\ Marked("skipped", "skipped") \in Run
         /\ Marked("restored", "not_needed") \in Run
         /\ [Warn(TRUE) EXCEPT !.cleanup = "restore_failed"] \in Run
         /\ [run EXCEPT !.poweroff = "stopped"] \in Run
         /\ [run EXCEPT !.poweroff = "failed"] \in Run
         /\ [run EXCEPT !.status = FinalStatus] \in Run
         /\ \A e \in {run.evidence, "saved"} : [run EXCEPT !.evidence = e] \in Run
         /\ \A e \in {run.evidence, "saved"} :
              [run EXCEPT !.evidence = e, !.error = TRUE] \in Run
         /\ \A s \in {"stable", "removed_after_save", "other"} : [run EXCEPT !.upload = s] \in Run
<1>1. \A b \in BOOLEAN : Warn(b) \in Run
  BY DEF Warn, Run
<1>2. [run EXCEPT !.error = TRUE] \in Run
  BY DEF Run
<1>3. [run EXCEPT !.started = TRUE] \in Run
  BY DEF Run
<1>4. [run EXCEPT !.action = "skipped", !.warned = TRUE] \in Run
  BY DEF Run
<1>5. NotStarted \in Run
  BY DEF NotStarted, Run
<1>6. \A b \in BOOLEAN : [Warn(b) EXCEPT !.action = "observed"] \in Run
  BY DEF Warn, Run
<1>7. [run EXCEPT !.action = "observation_unavailable", !.warned = TRUE] \in Run
  BY DEF Run
<1>8. \A b \in BOOLEAN : [Warn(b) EXCEPT !.evidence = "saved"] \in Run
  BY DEF Warn, Run
<1>9. [run EXCEPT !.evidence = "saved"] \in Run
  BY DEF Run
<1>10. [Warn(TRUE) EXCEPT !.evidence = "failed"] \in Run
  BY DEF Warn, Run
<1>11. Marked("deferred_to_next_case", "not_needed") \in Run
  BY DEF Marked, Run
<1>12. Marked("skipped", "skipped") \in Run
  BY DEF Marked, Run
<1>13. Marked("restored", "not_needed") \in Run
  BY DEF Marked, Run
<1>14. [Warn(TRUE) EXCEPT !.cleanup = "restore_failed"] \in Run
  BY DEF Warn, Run
<1>15. [run EXCEPT !.poweroff = "stopped"] \in Run
  BY DEF Run
<1>16. [run EXCEPT !.poweroff = "failed"] \in Run
  BY DEF Run
<1>17. [run EXCEPT !.status = FinalStatus] \in Run
  BY DEF FinalStatus, Run
<1>18. \A s \in {"stable", "removed_after_save", "other"} : [run EXCEPT !.upload = s] \in Run
  BY DEF Run
<1>19. \A e \in {run.evidence, "saved"} : [run EXCEPT !.evidence = e] \in Run
  BY DEF Run
<1>20. \A e \in {run.evidence, "saved"} : [run EXCEPT !.evidence = e, !.error = TRUE] \in Run
  BY DEF Run
<1> QED BY <1>19, <1>20, <1>1, <1>2, <1>3, <1>4, <1>5, <1>6, <1>7, <1>8, <1>9, <1>10, <1>11,
   <1>12, <1>13, <1>14, <1>15, <1>16, <1>17, <1>18

\* Every step keeps the invariant.
LEMMA RunInvInductive == RunInv /\ [Next]_vars => RunInv'
<1> SUFFICES ASSUME RunInv, [Next]_vars PROVE RunInv'
  OBVIOUS
<1> USE DEF RunInv
<1>0. TypeOK /\ run \in Run
  BY DEF TypeOK
<1>1. CASE Configure
  <2>0. run' \in Run
    BY <1>1, <1>0, Updates DEF Configure, Proceed, world
  <2>1. TypeOK'
    BY <1>1, <1>0, <2>0
       DEF Configure, Proceed, world, TypeOK, Flow, Finally, Ended, Requests
  <2>2. OneRequest' /\ FlowInv' /\ StatusInv' /\ CleanupInv'
    BY <1>1, <1>0, <2>1
       DEF Configure, Proceed, world, OneRequest, FlowInv, StatusInv, CleanupInv,
           Executed, Completing, Saved, BeforeExecution, Flow, Finally, Ended,
           Requests, Run
  <2> QED BY <2>1, <2>2
<1>2. CASE Restore
  <2>0. run' \in Run
    BY <1>2, <1>0, Updates DEF Restore, Proceed, Restored, CloudFailure, Fail, world
  <2>1. TypeOK'
    BY <1>2, <1>0, <2>0, CloudEffect
       DEF Restore, Proceed, Fail, world, TypeOK, Flow, Finally, Ended, Requests
  <2>2. OneRequest' /\ FlowInv' /\ StatusInv' /\ CleanupInv'
    BY <1>2, <1>0, <2>1
       DEF Restore, Proceed, Restored, CloudFailure, Fail, world, OneRequest,
           FlowInv, StatusInv, CleanupInv, Executed, Completing, Saved,
           BeforeExecution, Flow, Finally, Ended, Requests, Run
  <2> QED BY <2>1, <2>2
<1>3. CASE WaitReady
  <2>0. run' \in Run
    BY <1>3, <1>0, Updates DEF WaitReady, Proceed, Fail, Warn, world
  <2>1. TypeOK'
    BY <1>3, <1>0, <2>0
       DEF WaitReady, Proceed, Fail, Warn, world, TypeOK, Flow, Finally, Ended,
           Requests
  <2>2. OneRequest' /\ FlowInv' /\ StatusInv' /\ CleanupInv'
    BY <1>3, <1>0, <2>1
       DEF WaitReady, Proceed, Fail, Warn, world, OneRequest, FlowInv, StatusInv,
           CleanupInv, Executed, Completing, Saved, BeforeExecution, Flow,
           Finally, Ended, Requests, Run
  <2> QED BY <2>1, <2>2
<1>4. CASE CheckReadiness
  <2>0. run' \in Run
    BY <1>4, <1>0, Updates DEF CheckReadiness, Proceed, Warn, world
  <2>1. TypeOK'
    BY <1>4, <1>0, <2>0
       DEF CheckReadiness, Proceed, Warn, world, TypeOK, Flow, Finally, Ended,
           Requests
  <2>2. OneRequest' /\ FlowInv' /\ StatusInv' /\ CleanupInv'
    BY <1>4, <1>0, <2>1
       DEF CheckReadiness, Proceed, Warn, world, OneRequest, FlowInv, StatusInv,
           CleanupInv, Executed, Completing, Saved, BeforeExecution, Flow,
           Finally, Ended, Requests, Run
  <2> QED BY <2>1, <2>2
<1>5. CASE PollUpload
  <2>a. UNCHANGED world /\ lost' \in BOOLEAN /\ again' \in BOOLEAN
        /\ pc' \in {"finally", "execute", pc} /\ pc = "poll_upload" /\ steps' \in {steps, steps \cup {pc}}
        /\ UNCHANGED <<options, adapter, interrupted, locked>>
    <3>1. lost \in BOOLEAN /\ again \in BOOLEAN
      BY <1>0 DEF TypeOK
    <3>2. CASE again' = ~again /\ UNCHANGED <<run, pc, steps, world, lost>>
      BY <1>5, <3>1, <3>2 DEF PollUpload
    <3>3. CASE Proceed("execute") /\ UNCHANGED <<world, lost>>
      BY <1>5, <3>1, <3>3 DEF PollUpload, Proceed
    <3>4. CASE Fail /\ UNCHANGED world /\ lost' \in {lost, TRUE}
      BY <1>5, <3>1, <3>4 DEF PollUpload, Fail
    <3> QED BY <1>5, <3>2, <3>3, <3>4 DEF PollUpload
  <2>0. run' \in Run
    BY <1>5, <1>0, Updates DEF PollUpload, Proceed, Fail, world
  <2>1. TypeOK'
    BY <1>5, <1>0, <2>0, <2>a
       DEF PollUpload, world, TypeOK, Flow, Finally, Ended, Requests
  <2>2. OneRequest' /\ FlowInv' /\ StatusInv' /\ CleanupInv'
    BY <1>5, <1>0, <2>1
       DEF PollUpload, Proceed, Fail, world, OneRequest, FlowInv,
           StatusInv, CleanupInv, Executed, Completing, Saved, BeforeExecution,
           Flow, Finally, Ended, Requests, Run
  <2> QED BY <2>1, <2>2
<1>6. CASE SkipExecution
  <2>0. run' \in Run
    BY <1>6, <1>0, Updates DEF SkipExecution, Proceed, world
  <2>1. TypeOK'
    BY <1>6, <1>0, <2>0
       DEF SkipExecution, Proceed, world, TypeOK, Flow, Finally, Ended, Requests
  <2>2. OneRequest' /\ FlowInv' /\ StatusInv' /\ CleanupInv'
    BY <1>6, <1>0, <2>1
       DEF SkipExecution, Proceed, world, OneRequest, FlowInv, StatusInv,
           CleanupInv, Executed, Completing, Saved, BeforeExecution, Flow,
           Finally, Ended, Requests, Run
  <2> QED BY <2>1, <2>2
<1>7. CASE ObserveExecution
  <2>0. run' \in Run
    BY <1>7, <1>0, Updates DEF ObserveExecution, Proceed, Warn, world
  <2>1. TypeOK'
    BY <1>7, <1>0, <2>0
       DEF ObserveExecution, Proceed, Warn, world, TypeOK, Flow, Finally, Ended,
           Requests
  <2>2. CASE \E w \in BOOLEAN : run' = [Warn(w) EXCEPT !.action = "observed"]
    <3>0. lost' = lost
      BY <1>7, <2>2, <1>0 DEF ObserveExecution, Run, Warn
    <3>1. run'.action = "observed" /\ (run.warned => run'.warned) /\ run'.error = run.error /\ run'.status = run.status
          /\ run'.poweroff = run.poweroff /\ run'.evidence = run.evidence /\ run'.started = run.started
      BY <2>2, <1>0 DEF Run, Warn
    <3>2. OneRequest'
      BY <1>7, <1>0, <2>1, <2>2, <3>1
         DEF ObserveExecution, Proceed, world, Warn, OneRequest, BeforeExecution,
             Flow, Finally
    <3>3. FlowInv'
      BY <1>7, <1>0, <2>1, <2>2, <3>0, <3>1
         DEF ObserveExecution, Proceed, world, Warn, OneRequest, FlowInv,
             CleanupInv, Executed, Completing, Saved, Flow, Finally
    <3>4. StatusInv'
      BY <1>7, <1>0, <2>1, <2>2, <3>1
         DEF ObserveExecution, Proceed, world, Warn, StatusInv, FinalStatus, Flow,
             Finally
    <3>5. CleanupInv'
      BY <1>7, <1>0, <2>1, <2>2, <3>1
         DEF ObserveExecution, Proceed, world, Warn, CleanupInv, Flow, Finally
    <3> QED BY <2>1, <3>2, <3>3, <3>4, <3>5
  <2>3. CASE run' = [run EXCEPT !.action = "observation_unavailable", !.warned = TRUE]
    <3>1. run'.warned /\ run'.error = run.error /\ run'.status = run.status
          /\ run'.poweroff = run.poweroff /\ run'.evidence = run.evidence /\ run'.started = run.started
      BY <2>3, <1>0 DEF Run, Warn
    <3>2. OneRequest'
      BY <1>7, <1>0, <2>1, <2>3, <3>1
         DEF ObserveExecution, Proceed, world, Warn, OneRequest, BeforeExecution,
             Flow, Finally
    <3>3. FlowInv'
      BY <1>7, <1>0, <2>1, <2>3, <3>1
         DEF ObserveExecution, Proceed, world, Warn, OneRequest, FlowInv,
             CleanupInv, Executed, Completing, Saved, Flow, Finally
    <3>4. StatusInv'
      BY <1>7, <1>0, <2>1, <2>3, <3>1
         DEF ObserveExecution, Proceed, world, Warn, StatusInv, FinalStatus, Flow,
             Finally
    <3>5. CleanupInv'
      BY <1>7, <1>0, <2>1, <2>3, <3>1
         DEF ObserveExecution, Proceed, world, Warn, CleanupInv, Flow, Finally
    <3> QED BY <2>1, <3>2, <3>3, <3>4, <3>5
  <2> QED BY <1>7, <2>2, <2>3 DEF ObserveExecution, Proceed, world
<1>8. CASE Delay
  <2>0. run' \in Run
    BY <1>8, <1>0, Updates DEF Delay, Proceed, Warn, world
  <2>1. TypeOK'
    BY <1>8, <1>0, <2>0
       DEF Delay, Proceed, Warn, world, TypeOK, Flow, Finally, Ended, Requests
  <2>2. OneRequest' /\ FlowInv' /\ StatusInv' /\ CleanupInv'
    BY <1>8, <1>0, <2>1
       DEF Delay, Proceed, Warn, world, OneRequest, FlowInv, StatusInv,
           CleanupInv, Executed, Completing, Saved, BeforeExecution, Flow,
           Finally, Ended, Requests, Run
  <2> QED BY <2>1, <2>2
<1>9. CASE EnterFinally
  <2>0. run' \in Run
    BY <1>9, <1>0, Updates DEF EnterFinally, Leave, world
  <2>1. TypeOK'
    BY <1>9, <1>0, <2>0
       DEF EnterFinally, Leave, world, TypeOK, Flow, Finally, Ended, Requests
  <2>2. OneRequest' /\ FlowInv' /\ StatusInv' /\ CleanupInv'
    BY <1>9, <1>0, <2>1
       DEF EnterFinally, Leave, world, OneRequest, FlowInv, StatusInv, CleanupInv,
           Executed, Completing, Saved, BeforeExecution, Flow, Finally, Ended,
           Requests, Run
  <2> QED BY <2>1, <2>2
<1>10. CASE Salvage
  <2>0. run' \in Run
    BY <1>10, <1>0, Updates DEF Salvage, Leave, Warn, world
  <2>1. TypeOK'
    BY <1>10, <1>0, <2>0
       DEF Salvage, Leave, Warn, world, TypeOK, Flow, Finally, Ended, Requests
  <2>2. CASE run' = [run EXCEPT !.evidence = "saved"]
    <3>1. run'.evidence = "saved" /\ run'.warned = run.warned /\ run'.action = run.action
          /\ run'.poweroff = run.poweroff /\ run'.started = run.started /\ run'.error = run.error /\ run'.status = run.status
      BY <2>2, <1>0 DEF Run, Warn
    <3>2. OneRequest'
      BY <1>10, <1>0, <2>1, <2>2, <3>1
         DEF Salvage, Leave, world, Warn, OneRequest, BeforeExecution, Flow,
             Finally
    <3>3. FlowInv'
      BY <1>10, <1>0, <2>1, <2>2, <3>1
         DEF Salvage, Leave, world, Warn, OneRequest, FlowInv, CleanupInv,
             Executed, Completing, Saved, Flow, Finally
    <3>4. StatusInv'
      BY <1>10, <1>0, <2>1, <2>2, <3>1
         DEF Salvage, Leave, world, Warn, StatusInv, FinalStatus, Flow, Finally
    <3>5. CleanupInv'
      BY <1>10, <1>0, <2>1, <2>2, <3>1
         DEF Salvage, Leave, world, Warn, CleanupInv, Flow, Finally
    <3> QED BY <2>1, <3>2, <3>3, <3>4, <3>5
  <2>3. CASE run' = [Warn(TRUE) EXCEPT !.evidence = "failed"]
    <3>1. run'.evidence = "failed" /\ run'.warned /\ run'.action = run.action
          /\ run'.poweroff = run.poweroff /\ run'.started = run.started /\ run'.error = run.error /\ run'.status = run.status
      BY <2>3, <1>0 DEF Run, Warn
    <3>2. OneRequest'
      BY <1>10, <1>0, <2>1, <2>3, <3>1
         DEF Salvage, Leave, world, Warn, OneRequest, BeforeExecution, Flow,
             Finally
    <3>3. FlowInv'
      BY <1>10, <1>0, <2>1, <2>3, <3>1
         DEF Salvage, Leave, world, Warn, OneRequest, FlowInv, CleanupInv,
             Executed, Completing, Saved, Flow, Finally
    <3>4. StatusInv'
      BY <1>10, <1>0, <2>1, <2>3, <3>1
         DEF Salvage, Leave, world, Warn, StatusInv, FinalStatus, Flow, Finally
    <3>5. CleanupInv'
      BY <1>10, <1>0, <2>1, <2>3, <3>1
         DEF Salvage, Leave, world, Warn, CleanupInv, Flow, Finally
    <3> QED BY <2>1, <3>2, <3>3, <3>4, <3>5
  <2> QED BY <1>10, <2>2, <2>3 DEF Salvage, Leave, world
<1>11. CASE DeferCleanup
  <2>0. run' \in Run
    BY <1>11, <1>0, Updates DEF DeferCleanup, Leave, Defers, Marked, world
  <2>1. TypeOK'
    BY <1>11, <1>0, <2>0
       DEF DeferCleanup, Leave, Defers, Marked, world, TypeOK, Flow, Finally,
           Ended, Requests
  <2>2. OneRequest' /\ FlowInv' /\ StatusInv' /\ CleanupInv'
    BY <1>11, <1>0, <2>1
       DEF DeferCleanup, Leave, Defers, Marked, world, OneRequest, FlowInv,
           StatusInv, CleanupInv, Executed, Completing, Saved, BeforeExecution,
           Flow, Finally, Ended, Requests, Run
  <2> QED BY <2>1, <2>2
<1>12. CASE SkipCleanup
  <2>0. run' \in Run
    BY <1>12, <1>0, Updates DEF SkipCleanup, Leave, Defers, Marked, world
  <2>1. TypeOK'
    BY <1>12, <1>0, <2>0
       DEF SkipCleanup, Leave, Defers, Marked, world, TypeOK, Flow, Finally,
           Ended, Requests
  <2>2. OneRequest' /\ FlowInv' /\ StatusInv' /\ CleanupInv'
    BY <1>12, <1>0, <2>1
       DEF SkipCleanup, Leave, Defers, Marked, world, OneRequest, FlowInv,
           StatusInv, CleanupInv, Executed, Completing, Saved, BeforeExecution,
           Flow, Finally, Ended, Requests, Run
  <2> QED BY <2>1, <2>2
<1>13. CASE Cleanup
  <2>0. run' \in Run
    BY <1>13, <1>0, Updates
       DEF Cleanup, Leave, Defers, Marked, Warn, Restored, CloudFailure
  <2>1. TypeOK'
    BY <1>13, <1>0, <2>0, CloudEffect
       DEF Cleanup, Leave, TypeOK, Flow, Finally, Ended, Requests
  <2>2. CASE Restored /\ Leave("finish", Marked("restored", "not_needed"))
    <3>1. run'.cleanup = "restored" /\ run'.warned = run.warned /\ run'.action = run.action /\ run'.evidence = run.evidence
          /\ run'.poweroff = "not_needed" /\ run'.started = run.started /\ late' = {} /\ ~vm'.dirty /\ run'.error = run.error /\ run'.status = run.status
      BY <2>2, <1>0 DEF Run, Leave, Marked, Restored
    <3>2. OneRequest'
      BY <1>13, <1>0, <2>1, <2>2, <3>1, CloudEffect
         DEF Cleanup, Leave, Leave, Marked, Restored, OneRequest, BeforeExecution,
             Flow, Finally
    <3>3. FlowInv'
      BY <1>13, <1>0, <2>1, <2>2, <3>1, CloudEffect
         DEF Cleanup, Leave, Leave, Marked, Restored, OneRequest, FlowInv,
             CleanupInv, Executed, Completing, Saved, Flow, Finally
    <3>4. StatusInv'
      BY <1>13, <1>0, <2>1, <2>2, <3>1, CloudEffect
         DEF Cleanup, Leave, Leave, Marked, Restored, StatusInv, FinalStatus,
             Flow, Finally
    <3>5. CleanupInv'
      BY <1>13, <1>0, <2>1, <2>2, <3>1, CloudEffect
         DEF Cleanup, Leave, Leave, Marked, Restored, CleanupInv, Flow, Finally
    <3> QED BY <2>1, <3>2, <3>3, <3>4, <3>5
  <2>3. CASE CloudFailure /\ Leave("poweroff", [Warn(TRUE) EXCEPT !.cleanup = "restore_failed"])
    <3>1. run'.cleanup = "restore_failed" /\ run'.warned /\ run'.action = run.action /\ run'.evidence = run.evidence
          /\ run'.poweroff = run.poweroff /\ run'.started = run.started /\ run'.error = run.error /\ run'.status = run.status
      BY <2>3, <1>0 DEF Run, Leave, Warn
    <3>2. OneRequest'
      BY <1>13, <1>0, <2>1, <2>3, <3>1, CloudEffect
         DEF Cleanup, Leave, Leave, Warn, OneRequest, BeforeExecution, Flow,
             Finally
    <3>3. FlowInv'
      BY <1>13, <1>0, <2>1, <2>3, <3>1, CloudEffect
         DEF Cleanup, Leave, Leave, Warn, OneRequest, FlowInv, CleanupInv,
             Executed, Completing, Saved, Flow, Finally
    <3>4. StatusInv'
      BY <1>13, <1>0, <2>1, <2>3, <3>1, CloudEffect
         DEF Cleanup, Leave, Leave, Warn, StatusInv, FinalStatus, Flow, Finally
    <3>5. CleanupInv'
      BY <1>13, <1>0, <2>1, <2>3, <3>1, CloudEffect
         DEF Cleanup, Leave, Leave, Warn, CleanupInv, Flow, Finally
    <3> QED BY <2>1, <3>2, <3>3, <3>4, <3>5
  <2> QED BY <1>13, <2>2, <2>3 DEF Cleanup, Leave
<1>14. CASE EmergencyStop
  <2>0. run' \in Run
    BY <1>14, <1>0, Updates DEF EmergencyStop, Leave
  <2>1. TypeOK'
    BY <1>14, <1>0, <2>0
       DEF EmergencyStop, Leave, TypeOK, Flow, Finally, Ended, Requests
  <2>2. CASE run' = [run EXCEPT !.poweroff = "stopped"] /\ vm' = [vm EXCEPT !.on = FALSE] /\ late' = {}
    <3>1. ~vm'.on /\ run'.cleanup = run.cleanup /\ run'.warned = run.warned /\ run'.action = run.action /\ run'.evidence = run.evidence
          /\ run'.poweroff = "stopped" /\ run'.started = run.started /\ run'.error = run.error /\ run'.status = run.status
      BY <2>2, <1>0 DEF Run, TypeOK, Leave
    <3>2. OneRequest'
      BY <1>14, <1>0, <2>1, <2>2, <3>1
         DEF EmergencyStop, TypeOK, Leave, OneRequest, BeforeExecution, Flow,
             Finally
    <3>3. FlowInv'
      BY <1>14, <1>0, <2>1, <2>2, <3>1
         DEF EmergencyStop, TypeOK, Leave, OneRequest, FlowInv, CleanupInv,
             Executed, Completing, Saved, Flow, Finally
    <3>4. StatusInv'
      BY <1>14, <1>0, <2>1, <2>2, <3>1
         DEF EmergencyStop, TypeOK, Leave, StatusInv, FinalStatus, Flow, Finally
    <3>5. CleanupInv'
      BY <1>14, <1>0, <2>1, <2>2, <3>1
         DEF EmergencyStop, TypeOK, Leave, CleanupInv, Flow, Finally
    <3> QED BY <2>1, <3>2, <3>3, <3>4, <3>5
  <2>3. CASE run' = [run EXCEPT !.poweroff = "failed"] /\ late' \in {late, {}}
    <3>1. run'.cleanup = run.cleanup /\ run'.warned = run.warned /\ run'.action = run.action /\ run'.evidence = run.evidence
          /\ run'.poweroff = "failed" /\ run'.started = run.started /\ run'.error = run.error /\ run'.status = run.status
      BY <2>3, <1>0 DEF Run, TypeOK, Leave
    <3>2. OneRequest'
      BY <1>14, <1>0, <2>1, <2>3, <3>1
         DEF EmergencyStop, TypeOK, Leave, OneRequest, BeforeExecution, Flow,
             Finally
    <3>3. FlowInv'
      BY <1>14, <1>0, <2>1, <2>3, <3>1
         DEF EmergencyStop, TypeOK, Leave, OneRequest, FlowInv, CleanupInv,
             Executed, Completing, Saved, Flow, Finally
    <3>4. StatusInv'
      BY <1>14, <1>0, <2>1, <2>3, <3>1
         DEF EmergencyStop, TypeOK, Leave, StatusInv, FinalStatus, Flow, Finally
    <3>5. CleanupInv'
      BY <1>14, <1>0, <2>1, <2>3, <3>1
         DEF EmergencyStop, TypeOK, Leave, CleanupInv, Flow, Finally
    <3> QED BY <2>1, <3>2, <3>3, <3>4, <3>5
  <2> QED BY <1>14, <2>2, <2>3 DEF EmergencyStop, Leave
<1>15. CASE Finish
  <2>0. run' \in Run
    BY <1>15, <1>0, Updates DEF Finish, FinalStatus, world
  <2>1. TypeOK'
    BY <1>15, <1>0, <2>0
       DEF Finish, FinalStatus, world, TypeOK, Flow, Finally, Ended, Requests
  <2>2. OneRequest' /\ FlowInv' /\ StatusInv' /\ CleanupInv'
    BY <1>15, <1>0, <2>1
       DEF Finish, FinalStatus, world, OneRequest, FlowInv, StatusInv, CleanupInv,
           Executed, Completing, Saved, BeforeExecution, Flow, Finally, Ended,
           Requests, Run
  <2> QED BY <2>1, <2>2
<1>16. CASE LocalError
  <2>0. run' \in Run
    BY <1>16, <1>0, Updates DEF LocalError, Evidence, world
  <2>1. TypeOK'
    BY <1>16, <1>0, <2>0
       DEF LocalError, world, TypeOK, Flow, Finally, Ended, Requests
  <2>a. /\ run'.error /\ run'.status = run.status /\ run'.poweroff = run.poweroff
        /\ run'.started = run.started
    BY <1>16, <1>0 DEF LocalError, Run
  <2>2. OneRequest' /\ FlowInv' /\ StatusInv' /\ CleanupInv'
    BY <1>16, <1>0, <2>1, <2>a
       DEF LocalError, world, OneRequest, FlowInv, StatusInv, CleanupInv,
           Completing, BeforeExecution, Flow, Finally
  <2> QED BY <2>1, <2>2
<1>17. CASE Interrupt
  <2>0. run' \in Run
    BY <1>17, <1>0, Updates DEF Interrupt, Evidence, world
  <2>1. TypeOK'
    BY <1>17, <1>0, <2>0
       DEF Interrupt, world, TypeOK, Flow, Finally, Ended, Requests
  <2>a. /\ run'.error = run.error /\ run'.status = run.status
        /\ run'.poweroff = run.poweroff /\ run'.started = run.started
    BY <1>17, <1>0 DEF Interrupt, Run
  <2>2. OneRequest' /\ FlowInv' /\ StatusInv' /\ CleanupInv'
    BY <1>17, <1>0, <2>1, <2>a
       DEF Interrupt, world, OneRequest, FlowInv, StatusInv, CleanupInv,
           Completing, BeforeExecution, Flow, Finally
  <2> QED BY <2>1, <2>2
<1>18. CASE Escape
  <2>0. run' \in Run
    BY <1>18, <1>0, Updates DEF Escape, world
  <2>1. TypeOK'
    BY <1>18, <1>0, <2>0 DEF Escape, world, TypeOK, Flow, Finally, Ended, Requests
  <2>2. OneRequest' /\ FlowInv' /\ StatusInv' /\ CleanupInv'
    BY <1>18, <1>0, <2>1
       DEF Escape, world, OneRequest, FlowInv, StatusInv, CleanupInv, Executed,
           Completing, Saved, BeforeExecution, Flow, Finally, Ended, Requests, Run
  <2> QED BY <2>1, <2>2
<1>19. CASE Die
  <2>0. run' \in Run
    BY <1>19, <1>0, Updates DEF Die, world
  <2>1. TypeOK'
    BY <1>19, <1>0, <2>0 DEF Die, world, TypeOK, Flow, Finally, Ended, Requests
  <2>2. OneRequest' /\ FlowInv' /\ StatusInv' /\ CleanupInv'
    BY <1>19, <1>0, <2>1
       DEF Die, world, OneRequest, FlowInv, StatusInv, CleanupInv, Executed,
           Completing, Saved, BeforeExecution, Flow, Finally, Ended, Requests, Run
  <2> QED BY <2>1, <2>2
<1>20. CASE ProductRemoves
  <2>a. guest' \in Guest /\ UNCHANGED <<options, pc, again, run, steps, adapter, interrupted, locked,
                                      late, vm, launches, lost>>
    BY <1>20, <1>0 DEF ProductRemoves, TypeOK, Guest
  <2>0. run' \in Run
    BY <1>20, <1>0, Updates DEF ProductRemoves
  <2>1. TypeOK'
    BY <1>20, <1>0, <2>0, <2>a
       DEF ProductRemoves, TypeOK, Flow, Finally, Ended, Requests
  <2>2. OneRequest'
    BY <1>20, <1>0, <2>1, <2>a
       DEF ProductRemoves, OneRequest, BeforeExecution, Flow, Finally
  <2>3. FlowInv'
    BY <1>20, <1>0, <2>1, <2>a
       DEF ProductRemoves, OneRequest, FlowInv, CleanupInv, Executed, Completing,
           Saved, Flow, Finally
  <2>4. StatusInv'
    BY <1>20, <1>0, <2>1, <2>a
       DEF ProductRemoves, StatusInv, FinalStatus, Flow, Finally
  <2>5. CleanupInv'
    BY <1>20, <1>0, <2>1, <2>a DEF ProductRemoves, CleanupInv, Flow, Finally
  <2> QED BY <2>1, <2>2, <2>3, <2>4, <2>5
<1>21. CASE Prepare
  <2>1. pc = "prepare" /\ Call("prepare", "readiness", [run EXCEPT !.started = TRUE])
    BY <1>21 DEF Prepare
  <2>2. /\ guest' \in Guest /\ late' \subseteq Requests
        /\ again' \in BOOLEAN /\ lost' \in BOOLEAN
        /\ lost' = lost \/ run' = [run EXCEPT !.error = TRUE]
        /\ ("execute" \in late') = ("execute" \in late)
        /\ ~adapter => late' = {}
        /\ UNCHANGED <<options, adapter, interrupted, locked, vm, launches>>
        /\ \/ pc' = "readiness" /\ run' = [run EXCEPT !.started = TRUE] /\ steps' = steps \cup {pc}
           \/ pc' = "finally" /\ run' = [run EXCEPT !.error = TRUE] /\ steps' = steps
           \/ pc' = pc /\ run' = run /\ steps' = steps
    BY <1>0, <2>1, CallEffect DEF CleanupInv, Flow
  <2>3. run' \in Run
    BY <1>0, <2>2, Updates
  <2>4. TypeOK'
    BY <1>0, <2>1, <2>2, <2>3 DEF TypeOK, Flow, Finally, Ended, Requests
  <2>5. OneRequest' /\ FlowInv' /\ StatusInv' /\ CleanupInv'
    BY <1>0, <2>1, <2>2
       DEF OneRequest, FlowInv, StatusInv, CleanupInv, Executed, Completing,
           Saved, BeforeExecution, Flow, Finally, Ended, Requests, Run
  <2> QED BY <2>4, <2>5
<1>22. CASE Upload
  <2>1. pc = "upload" /\ Call("upload", "poll_upload", run)
    BY <1>22 DEF Upload
  <2>2. /\ guest' \in Guest /\ late' \subseteq Requests
        /\ again' \in BOOLEAN /\ lost' \in BOOLEAN
        /\ lost' = lost \/ run' = [run EXCEPT !.error = TRUE]
        /\ ("execute" \in late') = ("execute" \in late)
        /\ ~adapter => late' = {}
        /\ UNCHANGED <<options, adapter, interrupted, locked, vm, launches>>
        /\ \/ pc' = "poll_upload" /\ run' = run /\ steps' = steps \cup {pc}
           \/ pc' = "finally" /\ run' = [run EXCEPT !.error = TRUE] /\ steps' = steps
           \/ pc' = pc /\ run' = run /\ steps' = steps
    BY <1>0, <2>1, CallEffect DEF CleanupInv, Flow
  <2>3. run' \in Run
    BY <1>0, <2>2, Updates
  <2>4. TypeOK'
    BY <1>0, <2>1, <2>2, <2>3 DEF TypeOK, Flow, Finally, Ended, Requests
  <2>5. OneRequest' /\ FlowInv' /\ StatusInv' /\ CleanupInv'
    BY <1>0, <2>1, <2>2
       DEF OneRequest, FlowInv, StatusInv, CleanupInv, Executed, Completing,
           Saved, BeforeExecution, Flow, Finally, Ended, Requests, Run
  <2> QED BY <2>4, <2>5
<1>23. CASE Summarise
  <2>1. PICK w \in BOOLEAN : pc = "summary" /\ Call("summary", "export", Warn(w))
    BY <1>23 DEF Summarise
  <2>2. /\ guest' \in Guest /\ late' \subseteq Requests
        /\ again' \in BOOLEAN /\ lost' \in BOOLEAN
        /\ lost' = lost \/ run' = [run EXCEPT !.error = TRUE]
        /\ ("execute" \in late') = ("execute" \in late)
        /\ ~adapter => late' = {}
        /\ UNCHANGED <<options, adapter, interrupted, locked, vm, launches>>
        /\ \/ pc' = "export" /\ run' = Warn(w) /\ steps' = steps \cup {pc}
           \/ pc' = "finally" /\ run' = [run EXCEPT !.error = TRUE] /\ steps' = steps
           \/ pc' = pc /\ run' = run /\ steps' = steps
    BY <1>0, <2>1, CallEffect DEF CleanupInv, Flow
  <2>3. run' \in Run
    BY <1>0, <2>2, Updates
  <2>4. TypeOK'
    BY <1>0, <2>1, <2>2, <2>3 DEF TypeOK, Flow, Finally, Ended, Requests
  <2>5. OneRequest' /\ FlowInv' /\ StatusInv' /\ CleanupInv'
    BY <1>0, <2>1, <2>2
       DEF OneRequest, FlowInv, StatusInv, CleanupInv, Executed, Completing,
           Saved, BeforeExecution, Warn, Flow, Finally, Ended, Requests, Run
  <2> QED BY <2>4, <2>5
<1>24. CASE ExportEvidence
  <2>1. PICK w \in BOOLEAN : pc = "export" /\ Call("export", "finally", [Warn(w) EXCEPT !.evidence = "saved"])
    BY <1>24 DEF ExportEvidence
  <2>2. /\ guest' \in Guest /\ late' \subseteq Requests
        /\ again' \in BOOLEAN /\ lost' \in BOOLEAN
        /\ lost' = lost \/ run' = [run EXCEPT !.error = TRUE]
        /\ ("execute" \in late') = ("execute" \in late)
        /\ ~adapter => late' = {}
        /\ UNCHANGED <<options, adapter, interrupted, locked, vm, launches>>
        /\ \/ pc' = "finally" /\ run' = [Warn(w) EXCEPT !.evidence = "saved"] /\ steps' = steps \cup {pc}
           \/ pc' = "finally" /\ run' = [run EXCEPT !.error = TRUE] /\ steps' = steps
           \/ pc' = pc /\ run' = run /\ steps' = steps
    BY <1>0, <2>1, CallEffect DEF CleanupInv, Flow
  <2>3. run' \in Run
    BY <1>0, <2>2, Updates
  <2>4. TypeOK'
    BY <1>0, <2>1, <2>2, <2>3 DEF TypeOK, Flow, Finally, Ended, Requests
  <2>5. OneRequest' /\ FlowInv' /\ StatusInv' /\ CleanupInv'
    BY <1>0, <2>1, <2>2
       DEF OneRequest, FlowInv, StatusInv, CleanupInv, Executed, Completing,
           Saved, BeforeExecution, Warn, Flow, Finally, Ended, Requests, Run
  <2> QED BY <2>4, <2>5
<1>25. CASE CollectLogs
  <2>1. pc = "collect"
    BY <1>25 DEF CollectLogs
  <2>2. /\ guest' \in Guest /\ late' \subseteq Requests
        /\ again' \in BOOLEAN /\ lost' \in BOOLEAN
        /\ lost' = lost \/ run' = [run EXCEPT !.error = TRUE]
        /\ ("execute" \in late') = ("execute" \in late)
        /\ UNCHANGED <<options, adapter, interrupted, locked, vm, launches>>
        /\ \/ pc' = "summary" /\ run' \in {run, Warn(TRUE)} /\ steps' = steps \cup {pc}
           \/ pc' = "finally" /\ run' = [run EXCEPT !.error = TRUE] /\ steps' = steps
           \/ pc' = pc /\ run' = run /\ steps' = steps
    <3>1. CASE Call("collect", "summary", run)
      BY <1>0, <3>1, CallEffect
    <3>2. CASE Answered("status", "summary", Warn(TRUE))
      BY <1>0, <3>2, CallEffect DEF Call
    <3> QED BY <1>25, <3>1, <3>2 DEF CollectLogs
  <2>3. run' \in Run
    BY <1>0, <2>2, Updates
  <2>4. TypeOK'
    BY <1>0, <2>1, <2>2, <2>3 DEF TypeOK, Flow, Finally, Ended, Requests
  <2>5. OneRequest' /\ FlowInv' /\ StatusInv' /\ CleanupInv'
    BY <1>0, <2>1, <2>2
       DEF OneRequest, FlowInv, StatusInv, CleanupInv, Executed, Completing,
           Saved, BeforeExecution, Warn, Flow, Finally, Ended, Requests, Run
  <2> QED BY <2>4, <2>5
<1>26. CASE RequestExecution
  <2>1. pc = "execute" /\ adapter /\ launches = 0 /\ "execute" \notin late
    BY <1>26 DEF RequestExecution, OneRequest, CleanupInv, BeforeExecution, Flow
  <2>2. /\ guest' \in Guest /\ late' \subseteq Requests /\ vm' \in [on: BOOLEAN, dirty: BOOLEAN]
        /\ again' \in BOOLEAN /\ lost' \in BOOLEAN /\ launches' \in {0, 1}
        /\ lost' = lost \/ run' = NotStarted
        /\ "execute" \in late' => launches' = 0
        /\ UNCHANGED <<options, adapter, interrupted, locked>>
        /\ \/ pc' = "observe" /\ run' = run /\ launches' = 1 /\ steps' = steps \cup {pc}
           \/ pc' = "delay" /\ run' = NotStarted /\ steps' = steps \cup {pc}
           \/ pc' = "finally" /\ run' = [run EXCEPT !.error = TRUE] /\ steps' = steps
    <3>1. /\ again \in BOOLEAN /\ lost \in BOOLEAN /\ guest \in Guest
          /\ vm \in [on: BOOLEAN, dirty: BOOLEAN] /\ late \subseteq Requests
      BY <1>0 DEF TypeOK
    <3>2. CASE guest.sample = "stored" /\ Answered("execute", "observe", run)
      <4>1. launches' = 1 /\ Served("execute") /\ run' = run /\ pc' = "observe" /\ steps' = steps \cup {pc}
            /\ again' = FALSE /\ UNCHANGED <<options, adapter, interrupted, locked, late, lost>>
        BY <2>1, <3>2 DEF Answered, Served, Proceed
      <4>2. guest' \in Guest /\ vm' \in [on: BOOLEAN, dirty: BOOLEAN]
        BY <1>0, <4>1, ServedEffect
      <4> QED BY <2>1, <3>1, <4>1, <4>2
    <3>3. CASE \E request \in {"status", "execute"} : Answered(request, "delay", NotStarted)
      <4>1. PICK request \in {"status", "execute"} : Answered(request, "delay", NotStarted)
        BY <3>3
      <4>2. Served(request) /\ run' = NotStarted /\ pc' = "delay" /\ steps' = steps \cup {pc}
            /\ again' = FALSE /\ UNCHANGED <<options, adapter, interrupted, locked, late, lost>>
        BY <4>1 DEF Answered, Proceed
      <4>3. guest' \in Guest /\ vm' \in [on: BOOLEAN, dirty: BOOLEAN] /\ launches' \in {launches, launches + 1}
        BY <1>0, <4>1, <4>2, ServedEffect
      <4>4. launches' \in {0, 1}
        BY <2>1, <4>3
      <4> QED BY <2>1, <3>1, <4>2, <4>3, <4>4
    <3>4. CASE Refused
      BY <2>1, <3>1, <3>4 DEF Refused, Fail, world
    <3>5. CASE /\ Unheard("execute") /\ lost' = TRUE /\ run' = NotStarted /\ Proceed("delay")
               /\ UNCHANGED <<options, adapter, interrupted, locked>>
      <4>1. pc' = "delay" /\ steps' = steps \cup {pc} /\ again' = FALSE
        BY <3>5 DEF Proceed
      <4>2. /\ guest' \in Guest /\ vm' \in [on: BOOLEAN, dirty: BOOLEAN] /\ late' \subseteq Requests
        BY <1>0, <3>5, UnheardEffect
      <4>3. \/ launches' \in {launches, launches + 1} /\ late' = late
            \/ launches' = launches
        BY <1>0, <3>5, UnheardEffect
      <4>4. launches' \in {0, 1} /\ ("execute" \in late' => launches' = 0)
        BY <2>1, <4>3
      <4> QED BY <2>1, <3>1, <3>5, <4>1, <4>2, <4>4
    <3> QED BY <1>26, <3>2, <3>3, <3>4, <3>5 DEF RequestExecution
  <2>3. run' \in Run
    BY <1>0, <2>2, Updates
  <2>4. TypeOK'
    BY <1>0, <2>1, <2>2, <2>3 DEF TypeOK, Flow, Finally, Ended, Requests
  <2>5. /\ NotStarted.warned /\ NotStarted.error = run.error /\ NotStarted.status = run.status
        /\ NotStarted.poweroff = run.poweroff /\ NotStarted.evidence = run.evidence
        /\ NotStarted.started = run.started
    BY <1>0 DEF NotStarted, Run
  <2>6. /\ [run EXCEPT !.error = TRUE].error /\ [run EXCEPT !.error = TRUE].evidence = run.evidence
         /\ [run EXCEPT !.error = TRUE].status = run.status /\ [run EXCEPT !.error = TRUE].poweroff = run.poweroff
    BY <1>0 DEF Run
  <2>7. OneRequest'
    BY <1>0, <2>5, <2>6, <2>1, <2>2 DEF OneRequest, BeforeExecution, Flow, Finally
  <2>8. FlowInv'
    BY <1>0, <2>5, <2>6, <2>1, <2>2
       DEF OneRequest, FlowInv, CleanupInv, Executed, Completing, Saved, Flow,
           Finally
  <2>9. StatusInv'
    BY <1>0, <2>5, <2>6, <2>1, <2>2 DEF StatusInv, FinalStatus, Flow, Finally
  <2>10. CleanupInv'
    BY <1>0, <2>5, <2>6, <2>1, <2>2 DEF CleanupInv, Flow, Finally
  <2> QED BY <2>4, <2>7, <2>8, <2>9, <2>10
<1>27. ASSUME NEW request \in Requests, ServeLate(request) PROVE RunInv'
  <2>1. /\ vm.on /\ request \in late /\ late' = late \ {request} /\ vm'.on
        /\ UNCHANGED <<options, pc, again, run, steps, adapter, interrupted, locked, lost>>
        /\ guest' \in Guest /\ vm' \in [on: BOOLEAN, dirty: BOOLEAN] /\ launches' \in Nat
        /\ launches' \in {launches, launches + 1}
        /\ request # "execute" => UNCHANGED <<vm, launches>>
    BY <1>27, <1>0, ServedEffect DEF ServeLate
  <2>2. request = "execute" => launches = 0 /\ pc \notin BeforeExecution \cup {"observe"}
    BY <2>1 DEF OneRequest
  <2>3. TypeOK'
    BY <1>0, <2>1 DEF TypeOK
  <2>4. OneRequest'
    BY <1>0, <2>1, <2>2, <2>3 DEF TypeOK, OneRequest, BeforeExecution, Flow, Finally
  <2>5. FlowInv'
    BY <1>0, <2>1, <2>2, <2>3
       DEF TypeOK, OneRequest, FlowInv, CleanupInv, Executed, Completing, Saved,
           Flow, Finally
  <2>6. StatusInv'
    BY <1>0, <2>1, <2>2, <2>3 DEF TypeOK, StatusInv, FinalStatus, Flow, Finally
  <2>7. CleanupInv'
    BY <1>0, <2>1, <2>2, <2>3 DEF TypeOK, CleanupInv, Flow, Finally
  <2> QED BY <2>3, <2>4, <2>5, <2>6, <2>7
<1>28. CASE UNCHANGED vars
  BY <1>28
     DEF vars, world, TypeOK, OneRequest, FlowInv, StatusInv, CleanupInv,
         Executed, Completing, Saved, BeforeExecution, FinalStatus
<1> HIDE DEF RunInv
<1> QED BY <1>1, <1>2, <1>3, <1>4, <1>5, <1>6, <1>7, <1>8, <1>9, <1>10, <1>11,
   <1>12, <1>13, <1>14, <1>15, <1>16, <1>17, <1>18, <1>19, <1>20, <1>21, <1>22,
   <1>23, <1>24, <1>25, <1>26, <1>27, <1>28
  DEF Next, Controller, Faults

\* The inductive invariant holds in every reachable state.
THEOREM RunCorrect == Spec => []RunInv
<1>1. Init => RunInv
  <2> SUFFICES ASSUME Init PROVE RunInv
    OBVIOUS
  <2>0. run \in Run
    BY DEF Init, Run
  <2>01. pc \in Flow /\ steps \subseteq Flow /\ guest \in Guest
    BY CleanGuest DEF Init, Flow
  <2>1. TypeOK
    BY <2>0, <2>01 DEF Init, TypeOK
  <2>2. OneRequest /\ FlowInv /\ StatusInv /\ CleanupInv
    BY
       DEF Init, OneRequest, FlowInv, StatusInv, CleanupInv, Completing,
           BeforeExecution,
       Flow, Finally
  <2> QED BY <2>1, <2>2 DEF RunInv
<1>2. RunInv /\ [Next]_vars => RunInv'
  BY RunInvInductive
<1> QED BY <1>1, <1>2, PTL DEF Spec

\* No loss, repetition or late service launches a sample twice.
THEOREM SampleLaunchedOnce == Spec => []LaunchedOnce
<1>1. RunInv => LaunchedOnce
  BY DEF RunInv, OneRequest, LaunchedOnce
<1> QED BY <1>1, RunCorrect, PTL

\* "completed" is earned.
THEOREM CompletedIsEarned == Spec => []CompletedMeansDone
<1>1. RunInv => CompletedMeansDone
  <2> SUFFICES ASSUME RunInv, run.status = "completed" PROVE CompletedMeansDone
    BY DEF CompletedMeansDone
  <2>1. pc = "done" /\ ~interrupted /\ ~run.error /\ ~run.warned
    BY DEF RunInv, StatusInv, FinalStatus
  <2> QED BY <2>1 DEF RunInv, FlowInv, Completing, Executed, CompletedMeansDone
<1> QED BY <1>1, RunCorrect, PTL

\* A run that returns reports what it leaves on the instance.
THEOREM RunEndsSafe == Spec => []EndsSafe
<1>1. RunInv => EndsSafe
  BY DEF RunInv, StatusInv, FinalStatus, CleanupInv, EndsSafe
<1> QED BY <1>1, RunCorrect, PTL

\* A deferred case is complete.
THEOREM DeferralIsComplete == Spec => []DeferredIsComplete
<1>1. RunInv => DeferredIsComplete
  <2> SUFFICES ASSUME RunInv, pc = "done", run.cleanup = "deferred_to_next_case"
               PROVE  DeferredIsComplete
    BY DEF DeferredIsComplete
  <2>1. ~run.error /\ ~interrupted /\ run.poweroff # "failed" /\ run.status = FinalStatus
    BY DEF RunInv, StatusInv, CleanupInv
  <2> QED BY <2>1 DEF RunInv, FlowInv, Completing, FinalStatus, DeferredIsComplete
<1> QED BY <1>1, RunCorrect, PTL

\* Only the restore before a case and the final cleanup remove the case on the
\* guest.
LEMMA WipingSteps ==
  ASSUME TypeOK, Next, guest.case, ~guest'.case
  PROVE  Restore \/ Cleanup
<1>1. ~(\E request : Served(request)) /\ ~(\E request : Unheard(request))
  BY ServedEffect, UnheardEffect
<1>2. ~UNCHANGED guest
  OBVIOUS
<1>3. ~\E request, next, record : Call(request, next, record) \/ Answered(request, next, record)
  BY <1>1, <1>2 DEF Call, Answered, Refused, Repeat, GiveUp, world
<1>4. ~(Prepare \/ Upload \/ CollectLogs \/ Summarise \/ ExportEvidence)
  BY <1>3 DEF Prepare, Upload, CollectLogs, Summarise, ExportEvidence
<1>5. ~RequestExecution
  BY <1>1, <1>2, <1>3 DEF RequestExecution, Refused, world
<1>6. ~\E request \in Requests : ServeLate(request)
  BY <1>1 DEF ServeLate
<1>7. ~ProductRemoves
  BY DEF ProductRemoves, TypeOK, Guest
<1>8. ~(Configure \/ WaitReady \/ CheckReadiness \/ PollUpload \/ SkipExecution
        \/ ObserveExecution \/ Delay)
  BY <1>2 DEF Configure, WaitReady, CheckReadiness, PollUpload, SkipExecution,
     ObserveExecution, Delay, world
<1>9. ~(EnterFinally \/ Salvage \/ DeferCleanup \/ SkipCleanup \/ EmergencyStop \/ Finish)
  BY <1>2 DEF EnterFinally, Salvage, DeferCleanup, SkipCleanup, EmergencyStop, Finish, world
<1>10. ~Faults
  BY <1>2 DEF Faults, LocalError, Interrupt, Escape, Die, world
<1> QED BY <1>4, <1>5, <1>6, <1>7, <1>8, <1>9, <1>10 DEF Next, Controller

\* What the controller has started is not wiped before its evidence was saved
\* or a salvage was tried.
THEOREM NothingWipedUnsaved == Spec => EvidenceBeforeCleanup
<1> DEFINE Kept == run.started /\ guest.case /\ ~guest'.case => run.evidence # "skipped"
<1>1. ASSUME RunInv, Next PROVE Kept
  <2> SUFFICES ASSUME run.started, guest.case, ~guest'.case
               PROVE  run.evidence # "skipped"
    OBVIOUS
  <2>1. Restore \/ Cleanup
    BY <1>1, WipingSteps DEF RunInv
  <2>2. ~Restore
    BY <1>1 DEF Restore, RunInv, CleanupInv
  <2>3. Cleanup => run.evidence # "skipped"
    BY <1>1 DEF Cleanup, RunInv, CleanupInv
  <2> QED BY <2>1, <2>2, <2>3
<1>2. RunInv /\ [Next]_vars => [Kept]_vars
  BY <1>1
<1>3. EvidenceBeforeCleanup <=> [][Kept]_vars
  BY DEF EvidenceBeforeCleanup
<1> QED BY <1>2, <1>3, RunCorrect, PTL DEF Spec

-----------------------------------------------------------------------------
(* The run as CaseContract describes it                                     *)

SameVerdict ==
  /\ run'.error = run.error /\ run'.cleanup = run.cleanup
  /\ run'.poweroff = run.poweroff /\ run'.status = run.status

\* A step of the flow ends well.
Advances ==
  /\ pc \in Flow /\ steps' = steps \cup {pc}
  /\ UNCHANGED <<options, interrupted>> /\ SameVerdict
  /\ IF pc = "config" THEN pc' = "restore" /\ adapter' ELSE adapter' = adapter
  /\ IF pc = "export" THEN pc' = "finally" ELSE pc' \in Flow \ {"config"}
  /\ pc # "config" => pc' # "restore"
  /\ pc' \in BeforeExecution => pc \in BeforeExecution \ {"execute"}
  /\ pc' = "observe" => pc = "execute" /\ run'.action = run.action
  /\ pc \notin {"execute", "observe"} => run'.action = run.action
  /\ pc = "observe" => run'.action # "skipped"
  /\ pc \notin {"prepare", "export"} =>
       run'.started = run.started /\ run'.evidence = run.evidence

\* It fails, or is interrupted.
Fails ==
  /\ pc \in Flow /\ pc' = "finally"
  /\ UNCHANGED <<options, adapter, steps>>
  /\ \/ run'.error /\ interrupted' = interrupted
     \/ run'.error = run.error /\ interrupted'
  /\ run'.cleanup = run.cleanup /\ run'.poweroff = run.poweroff
  /\ run'.status = run.status /\ run'.action = run.action
  /\ run'.started = run.started
  /\ pc # "export" => run'.evidence = run.evidence

\* finally begins.
Settles ==
  /\ \/ pc = "finally" /\ pc' = (IF run.started /\ ~Saved THEN "salvage" ELSE "cleanup")
        /\ run' = run
     \/ pc = "salvage" /\ pc' = "cleanup"
  /\ UNCHANGED <<options, adapter, steps, interrupted>> /\ SameVerdict
  /\ run'.action = run.action /\ run'.started = run.started

Still == UNCHANGED <<options, pc, adapter, steps, interrupted, run>>

\* Nothing of this step runs the sample, and no request to do so begins.
Harmless ==
  /\ vm'.dirty => vm.dirty
  /\ launches' = launches
  /\ "execute" \in late' => "execute" \in late

\* The steps that ask the guest for something other than the execution.
LEMMA CallMoves ==
  ASSUME RunInv, NEW request, request # "execute", NEW next, NEW record,
         Call(request, next, record), pc \in Flow \ {"config", "execute", "observe"},
         IF pc = "export" THEN next = "finally"
         ELSE next \in Flow \ {"config", "restore", "observe"},
         next \in BeforeExecution => pc \in BeforeExecution \ {"execute"},
         record \in Run, record.error = run.error, record.cleanup = run.cleanup,
         record.poweroff = run.poweroff, record.status = run.status,
         record.action = run.action,
         pc \notin {"prepare", "export"} =>
           record.started = run.started /\ record.evidence = run.evidence
  PROVE  Harmless /\ (Advances \/ Fails \/ Still)
<1>1. run \in Run /\ TypeOK
  BY DEF RunInv, TypeOK
<1>2. /\ [run EXCEPT !.error = TRUE].error
      /\ [run EXCEPT !.error = TRUE].cleanup = run.cleanup
      /\ [run EXCEPT !.error = TRUE].poweroff = run.poweroff
      /\ [run EXCEPT !.error = TRUE].status = run.status
      /\ [run EXCEPT !.error = TRUE].action = run.action
      /\ [run EXCEPT !.error = TRUE].started = run.started
      /\ [run EXCEPT !.error = TRUE].evidence = run.evidence
  BY <1>1 DEF Run
<1>3. Harmless
  BY <1>1, CallEffect DEF Harmless
<1>4. /\ UNCHANGED <<options, adapter, interrupted>>
      /\ \/ pc' = next /\ run' = record /\ steps' = steps \cup {pc}
         \/ pc' = "finally" /\ run' = [run EXCEPT !.error = TRUE] /\ steps' = steps
         \/ pc' = pc /\ run' = run /\ steps' = steps
  BY <1>1, CallEffect
<1>5. CASE pc' = next /\ run' = record /\ steps' = steps \cup {pc}
  <2>1. SameVerdict /\ run'.action = run.action
    BY <1>5 DEF SameVerdict
  <2>2. IF pc = "export" THEN pc' = "finally" ELSE pc' \in Flow \ {"config"}
    BY <1>5
  <2>3. pc' # "observe" /\ pc' # "restore"
    BY <1>5
  <2> QED BY <1>3, <1>4, <1>5, <2>1, <2>2, <2>3 DEF Advances
<1>6. CASE pc' = "finally" /\ run' = [run EXCEPT !.error = TRUE] /\ steps' = steps
  BY <1>2, <1>3, <1>4, <1>6 DEF Fails
<1>7. CASE pc' = pc /\ run' = run /\ steps' = steps
  BY <1>3, <1>4, <1>7 DEF Still
<1> QED BY <1>4, <1>5, <1>6, <1>7

FlowSteps ==
  \/ Configure \/ WaitReady \/ Prepare \/ CheckReadiness \/ Upload \/ PollUpload
  \/ SkipExecution \/ ObserveExecution \/ Delay \/ CollectLogs \/ Summarise
  \/ ExportEvidence \/ LocalError \/ Interrupt

LEMMA FlowStepsInFlow ==
  FlowSteps => pc \in Flow /\ (pc = "restore" => pc' = "finally")
  BY DEF FlowSteps, Flow, Configure, WaitReady, Prepare, CheckReadiness, Upload, PollUpload,
         SkipExecution, ObserveExecution, Delay, CollectLogs, Summarise, ExportEvidence,
         LocalError, Interrupt

\* Except for the restore and the execution request, a step of the flow moves
\* it on, ends it, or repeats a request, and leaves the instance alone.
LEMMA FlowMoves ==
  ASSUME RunInv, FlowSteps
  PROVE  Harmless /\ (Advances \/ Fails \/ Still)
<1>0. run \in Run /\ TypeOK /\ pc \in Flow \cup Finally \cup Ended
  BY DEF RunInv, TypeOK
<1>1. \A w \in BOOLEAN :
        /\ Warn(w) \in Run
        /\ Warn(w).error = run.error /\ Warn(w).cleanup = run.cleanup
        /\ Warn(w).poweroff = run.poweroff /\ Warn(w).status = run.status
        /\ Warn(w).action = run.action /\ Warn(w).started = run.started
        /\ Warn(w).evidence = run.evidence
  BY <1>0 DEF Warn, Run
<1>2. CASE Configure
  BY <1>2 DEF Configure, Proceed, Harmless, Advances, SameVerdict, world, Flow, BeforeExecution
<1>3. CASE WaitReady
  <2>1. CASE pc' = "finally"
    BY <1>0, <1>3, <2>1 DEF WaitReady, Proceed, Fail, Harmless, Fails, world, Flow, Run
  <2>2. CASE pc' = "prepare"
    BY <1>0, <1>1, <1>3, <2>2
       DEF WaitReady, Proceed, Fail, Harmless, Advances, SameVerdict, world, Flow, BeforeExecution
  <2> QED BY <1>3, <2>1, <2>2 DEF WaitReady, Proceed, Fail
<1>4. CASE Prepare
  <2>1. pc = "prepare" /\ Call("prepare", "readiness", [run EXCEPT !.started = TRUE])
    BY <1>4 DEF Prepare
  <2>2. /\ [run EXCEPT !.started = TRUE] \in Run
        /\ [run EXCEPT !.started = TRUE].error = run.error
        /\ [run EXCEPT !.started = TRUE].cleanup = run.cleanup
        /\ [run EXCEPT !.started = TRUE].poweroff = run.poweroff
        /\ [run EXCEPT !.started = TRUE].status = run.status
        /\ [run EXCEPT !.started = TRUE].action = run.action
    BY <1>0 DEF Run
  <2> QED BY <2>1, <2>2, CallMoves DEF Flow, BeforeExecution
<1>5. CASE CheckReadiness \/ Delay
  BY <1>1, <1>5 DEF CheckReadiness, Delay, Proceed, Harmless, Advances, SameVerdict, world,
                    Flow, BeforeExecution
<1>6. CASE Upload
  <2>1. pc = "upload" /\ Call("upload", "poll_upload", run)
    BY <1>6 DEF Upload
  <2> QED BY <1>0, <2>1, CallMoves DEF Flow, BeforeExecution
<1>7. CASE PollUpload
  <2>1. Harmless /\ UNCHANGED <<options, adapter, interrupted>> /\ pc = "poll_upload"
    BY <1>7 DEF PollUpload, Harmless, world
  <2>2. CASE \E state \in {"stable", "removed_after_save", "other"} :
               run' = [run EXCEPT !.upload = state] /\ Proceed("execute")
    BY <1>0, <2>1, <2>2
       DEF Proceed, Advances, SameVerdict, Flow, BeforeExecution, Run
  <2>3. CASE Fail
    BY <1>0, <2>1, <2>3 DEF Fail, Fails, Flow, Run
  <2>4. CASE UNCHANGED <<run, pc, steps, world, lost>>
    BY <2>1, <2>4 DEF Still
  <2> QED BY <1>7, <2>1, <2>2, <2>3, <2>4 DEF PollUpload
<1>8. CASE SkipExecution
  <2>1. run' = [run EXCEPT !.action = "skipped", !.warned = TRUE] /\ pc = "execute"
        /\ Proceed("delay") /\ UNCHANGED <<options, adapter, interrupted, world>>
    BY <1>8 DEF SkipExecution
  <2>2. SameVerdict /\ run'.started = run.started /\ run'.evidence = run.evidence
    BY <1>0, <2>1 DEF SameVerdict, Run
  <2> QED BY <2>1, <2>2 DEF Proceed, Harmless, Advances, world, Flow, BeforeExecution
<1>9. CASE ObserveExecution
  <2>1. pc = "observe" /\ Proceed("delay") /\ UNCHANGED <<options, adapter, interrupted, world>>
    BY <1>9 DEF ObserveExecution
  <2>2. SameVerdict /\ run'.action # "skipped"
        /\ run'.started = run.started /\ run'.evidence = run.evidence
    <3>1. CASE \E w \in BOOLEAN : run' = [Warn(w) EXCEPT !.action = "observed"]
      BY <1>0, <1>1, <3>1 DEF SameVerdict, Run
    <3>2. CASE run' = [run EXCEPT !.action = "observation_unavailable", !.warned = TRUE]
      BY <1>0, <3>2 DEF SameVerdict, Run
    <3> QED BY <1>9, <3>1, <3>2 DEF ObserveExecution
  <2> QED BY <2>1, <2>2 DEF Proceed, Harmless, Advances, world, Flow, BeforeExecution
<1>10. CASE CollectLogs
  <2>1. CASE Call("collect", "summary", run)
    BY <1>0, <1>10, <2>1, CallMoves DEF CollectLogs, Flow, BeforeExecution
  <2>2. CASE Answered("status", "summary", Warn(TRUE))
    <3>1. Call("status", "summary", Warn(TRUE)) /\ pc = "collect"
      BY <1>10, <2>2 DEF Call, CollectLogs
    <3> QED BY <1>1, <3>1, CallMoves DEF Flow, BeforeExecution
  <2> QED BY <1>10, <2>1, <2>2 DEF CollectLogs
<1>11. CASE Summarise
  <2>1. PICK w \in BOOLEAN : pc = "summary" /\ Call("summary", "export", Warn(w))
    BY <1>11 DEF Summarise
  <2> QED BY <1>1, <2>1, CallMoves DEF Flow, BeforeExecution
<1>12. CASE ExportEvidence
  <2>1. PICK w \in BOOLEAN : /\ pc = "export"
                             /\ Call("export", "finally", [Warn(w) EXCEPT !.evidence = "saved"])
    BY <1>12 DEF ExportEvidence
  <2> DEFINE record == [Warn(w) EXCEPT !.evidence = "saved"]
  <2>2. /\ record \in Run
        /\ record.error = run.error /\ record.cleanup = run.cleanup
        /\ record.poweroff = run.poweroff /\ record.status = run.status
        /\ record.action = run.action
    BY <1>1 DEF Run
  <2>3. Call("export", "finally", record)
    BY <2>1
  <2> HIDE DEF record
  <2>4. "finally" \notin BeforeExecution
    BY DEF BeforeExecution
  <2> QED BY <2>1, <2>2, <2>3, <2>4, CallMoves DEF Flow
<1>13. CASE LocalError
  BY <1>0, <1>13 DEF LocalError, Evidence, Harmless, Fails, world, Run
<1>14. CASE Interrupt
  BY <1>0, <1>14 DEF Interrupt, Evidence, Harmless, Fails, world, Run
<1> QED BY <1>2, <1>3, <1>4, <1>5, <1>6, <1>7, <1>8, <1>9, <1>10, <1>11, <1>12, <1>13,
           <1>14 DEF FlowSteps

\* The initial restore empties the instance when it succeeds.
LEMMA RestoreMoves ==
  ASSUME RunInv, Restore
  PROVE  /\ pc = "restore" /\ Harmless
         /\ Fails \/ (Advances /\ (~options.skip => ~vm'.dirty))
<1>1. /\ pc = "restore" /\ UNCHANGED <<options, adapter, interrupted, launches>>
      /\ run \in Run /\ vm \in [on: BOOLEAN, dirty: BOOLEAN]
  BY DEF Restore, RunInv, TypeOK
<1>2. CASE options.skip /\ Proceed("ready") /\ UNCHANGED <<run, vm, guest, late>>
  BY <1>1, <1>2 DEF Proceed, Harmless, Advances, SameVerdict, Flow, BeforeExecution
<1>3. CASE ~options.skip /\ Restored /\ Proceed("ready") /\ UNCHANGED run
  BY <1>1, <1>3
     DEF Restored, Proceed, Harmless, Advances, SameVerdict, Flow, BeforeExecution
<1>4. CASE CloudFailure /\ Fail
  <2>1. Harmless
    BY <1>1, <1>4 DEF CloudFailure, Restored, Harmless
  <2> QED BY <1>1, <1>4, <2>1 DEF Fail, Fails, Flow, Run
<1> QED BY <1>2, <1>3, <1>4 DEF Restore

\* The request for the execution: when anything may come of it, it is recorded.
LEMMA ExecutionMoves ==
  ASSUME RunInv, RequestExecution
  PROVE  /\ pc = "execute"
         /\ (Harmless /\ Fails) \/ (Advances /\ (run.action = "none" => run'.action # "skipped"))
<1>0. run \in Run /\ TypeOK /\ pc = "execute"
  BY DEF RunInv, TypeOK, RequestExecution
<1>1. /\ NotStarted.error = run.error /\ NotStarted.cleanup = run.cleanup
      /\ NotStarted.poweroff = run.poweroff /\ NotStarted.status = run.status
      /\ NotStarted.action = "not_started" /\ NotStarted.started = run.started
      /\ NotStarted.evidence = run.evidence
  BY <1>0 DEF NotStarted, Run
<1>2. CASE Refused
  BY <1>0, <1>2 DEF Refused, Fail, Harmless, Fails, world, Flow, Run
<1>3. CASE ~Refused
  <2>1. /\ UNCHANGED <<options, adapter, interrupted>>
        /\ steps' = steps \cup {pc}
        /\ \/ pc' = "observe" /\ run' = run
           \/ pc' = "delay" /\ run' = NotStarted
    BY <1>3 DEF RequestExecution, Answered, Proceed
  <2>2. SameVerdict /\ run'.started = run.started /\ run'.evidence = run.evidence
        /\ (run.action = "none" => run'.action # "skipped")
    BY <1>1, <2>1 DEF SameVerdict
  <2>3. Advances
    BY <1>0, <2>1, <2>2 DEF Advances, Flow, BeforeExecution
  <2> QED BY <1>0, <2>2, <2>3
<1> QED BY <1>0, <1>2, <1>3

\* The first steps of finally.
LEMMA FinallyMoves ==
  ASSUME RunInv, EnterFinally \/ Salvage
  PROVE  Harmless /\ Settles
<1>0. run \in Run
  BY DEF RunInv, TypeOK
<1>1. CASE EnterFinally
  BY <1>0, <1>1 DEF EnterFinally, Leave, Harmless, Settles, SameVerdict, world, Run
<1>2. CASE Salvage
  BY <1>0, <1>2 DEF Salvage, Leave, Warn, Harmless, Settles, SameVerdict, world, Run
<1> QED BY <1>1, <1>2

\* What the guest does on its own.
GuestSteps == ProductRemoves \/ \E request \in Requests : ServeLate(request)

LEMMA GuestMoves ==
  ASSUME RunInv, GuestSteps
  PROVE  /\ Still /\ late' \subseteq late
         /\ Harmless \/ "execute" \in late
<1>0. TypeOK
  BY DEF RunInv
<1>1. CASE ProductRemoves
  BY <1>1 DEF ProductRemoves, Still, Harmless
<1>2. ASSUME NEW request \in Requests, ServeLate(request)
      PROVE  /\ Still /\ late' \subseteq late
             /\ Harmless \/ "execute" \in late
  <2>1. /\ Still /\ late' = late \ {request} /\ request \in late
        /\ request # "execute" => UNCHANGED <<vm, launches>>
    BY <1>0, <1>2, ServedEffect DEF ServeLate, Still
  <2> QED BY <2>1 DEF Harmless
<1> QED BY <1>1, <1>2 DEF GuestSteps

-----------------------------------------------------------------------------


\* The fields of run_state.json that the end of the run does not touch.
SameCase ==
  /\ UNCHANGED <<options, adapter, steps, interrupted, launches>>
  /\ run'.error = run.error /\ run'.action = run.action
  /\ run'.started = run.started /\ run'.evidence = run.evidence

CleanedUp(cleanup, next) ==
  pc = "cleanup" /\ run'.cleanup = cleanup /\ pc' = next

\* The outcomes of the cleanup.
LEMMA CleanupMoves ==
  ASSUME RunInv, DeferCleanup \/ SkipCleanup \/ Cleanup
  PROVE  /\ SameCase /\ Harmless
         /\ \/ DeferCleanup /\ CleanedUp("deferred_to_next_case", "finish")
            \/ SkipCleanup /\ CleanedUp("skipped", "finish")
            \/ Cleanup /\ CleanedUp("restored", "finish") /\ ~vm'.dirty /\ late' = {}
            \/ Cleanup /\ CleanedUp("restore_failed", "poweroff")
<1>0. run \in Run /\ TypeOK
  BY DEF RunInv, TypeOK
<1>1. CASE DeferCleanup
  BY <1>0, <1>1 DEF DeferCleanup, Leave, Marked, SameCase, Harmless, CleanedUp, world, Run
<1>2. CASE SkipCleanup
  BY <1>0, <1>2 DEF SkipCleanup, Leave, Marked, SameCase, Harmless, CleanedUp, world, Run
<1>3. CASE Cleanup
  <2>1. CASE Restored /\ Leave("finish", Marked("restored", "not_needed"))
    BY <1>0, <1>3, <2>1
       DEF Cleanup, Restored, Leave, Marked, SameCase, Harmless, CleanedUp, Run
  <2>2. CASE CloudFailure /\ Leave("poweroff", [Warn(TRUE) EXCEPT !.cleanup = "restore_failed"])
    <3>1. Harmless
      BY <1>0, <1>3, <2>2 DEF Cleanup, CloudFailure, Restored, Harmless, TypeOK
    <3>2. Warn(TRUE) \in Run /\ Warn(TRUE).error = run.error /\ Warn(TRUE).action = run.action
          /\ Warn(TRUE).started = run.started /\ Warn(TRUE).evidence = run.evidence
      BY <1>0 DEF Warn, Run
    <3> QED BY <1>3, <2>2, <3>1, <3>2 DEF Cleanup, Leave, SameCase, CleanedUp, Run
  <2> QED BY <1>3, <2>1, <2>2 DEF Cleanup
<1> QED BY <1>1, <1>2, <1>3

\* The emergency stop and the ends of the run.
LEMMA EndMoves ==
  ASSUME RunInv, EmergencyStop \/ Finish \/ Escape \/ Die
  PROVE  /\ SameCase /\ Harmless /\ run'.cleanup = run.cleanup
         /\ late' \subseteq late
         /\ \/ EmergencyStop /\ pc = "poweroff" /\ pc' = "finish"
            \/ Finish /\ pc = "finish" /\ pc' = (IF interrupted THEN "raised" ELSE "done")
            \/ Escape /\ pc \in Finally /\ pc' = "raised"
            \/ Die /\ pc' = "dead"
<1>0. run \in Run /\ TypeOK /\ vm \in [on: BOOLEAN, dirty: BOOLEAN]
  BY DEF RunInv, TypeOK
<1>1. CASE EmergencyStop
  BY <1>0, <1>1 DEF EmergencyStop, Leave, SameCase, Harmless, Run
<1>2. CASE Finish
  BY <1>0, <1>2 DEF Finish, SameCase, Harmless, world, Run
<1>3. CASE Escape \/ Die
  BY <1>0, <1>3 DEF Escape, Die, SameCase, Harmless, world
<1> QED BY <1>1, <1>2, <1>3

\* Every step is one of these.
LEMMA StepKinds ==
  ASSUME Next
  PROVE  \/ FlowSteps \/ Restore \/ RequestExecution
         \/ EnterFinally \/ Salvage
         \/ DeferCleanup \/ SkipCleanup \/ Cleanup
         \/ EmergencyStop \/ Finish \/ Escape \/ Die
         \/ GuestSteps
  BY DEF Next, Controller, Faults, FlowSteps, GuestSteps

-----------------------------------------------------------------------------

\* What the stages rest on is kept by every step.
LEMMA StageStep ==
  ASSUME RunInv, StageInv, [Next]_vars
  PROVE  StageInv'
<1>0. run \in Run /\ pc \in Flow \cup Finally \cup Ended
  BY DEF RunInv, TypeOK
<1>1. ASSUME Advances, run.cleanup = "skipped" PROVE StageInv'
  BY <1>0, <1>1 DEF Advances, SameVerdict, StageInv, Asked, BeforeExecution, Flow, Finally,
                    Ended
<1>2. CASE Fails
  BY <1>0, <1>2 DEF Fails, StageInv, Asked, BeforeExecution, Flow, Finally, Ended
<1>3. CASE Still /\ (run.cleanup = "restored" => ~vm'.dirty /\ late' = {})
  BY <1>3 DEF Still, StageInv, Asked
<1>4. ASSUME FlowSteps \/ Restore \/ RequestExecution PROVE StageInv'
  <2>1. pc \in Flow => run.cleanup = "skipped"
    BY DEF StageInv
  <2>2. (Advances /\ pc \in Flow) \/ Fails \/ (Still /\ Harmless /\ pc \in Flow)
    <3>1. CASE FlowSteps
      BY <3>1, FlowMoves, FlowStepsInFlow
    <3>2. CASE Restore \/ RequestExecution
      BY <3>2, RestoreMoves, ExecutionMoves DEF Advances
    <3> QED BY <1>4, <3>1, <3>2
  <2> QED BY <1>1, <1>2, <1>3, <2>1, <2>2
<1>5. ASSUME EnterFinally \/ Salvage PROVE StageInv'
  <2>1. Settles /\ adapter' = adapter /\ steps' = steps
    BY <1>5, FinallyMoves DEF Settles
  <2>2. ~adapter => pc = "finally" /\ run' = run /\ pc' = "cleanup"
    BY <2>1 DEF Settles, StageInv, Flow, Finally, Ended
  <2>3. pc' \in {"salvage", "cleanup"} /\ run'.cleanup = "skipped"
    BY <2>1 DEF Settles, SameVerdict, StageInv
  <2> QED BY <1>0, <2>1, <2>2, <2>3 DEF StageInv, Asked, BeforeExecution, Flow, Finally, Ended
<1>6. ASSUME DeferCleanup \/ SkipCleanup \/ Cleanup PROVE StageInv'
  <2>1. /\ SameCase /\ pc = "cleanup" /\ pc' \in {"finish", "poweroff"}
        /\ run'.cleanup = "restored" => ~vm'.dirty /\ late' = {}
    BY <1>6, CleanupMoves DEF CleanedUp
  <2> QED BY <1>0, <2>1 DEF SameCase, StageInv, Asked, BeforeExecution, Flow, Finally, Ended
<1>7. ASSUME EmergencyStop \/ Finish \/ Escape \/ Die PROVE StageInv'
  <2>1. /\ SameCase /\ pc' \in {"finish"} \cup Ended
        /\ run'.cleanup = run.cleanup /\ late' \subseteq late /\ (vm'.dirty => vm.dirty)
    BY <1>7, EndMoves DEF Harmless, Ended
  <2> QED BY <1>0, <2>1 DEF SameCase, StageInv, Asked, BeforeExecution, Flow, Finally, Ended
<1>8. ASSUME GuestSteps PROVE StageInv'
  <2>1. Still /\ late' \subseteq late /\ (Harmless \/ "execute" \in late)
    BY <1>8, GuestMoves
  <2>2. run.cleanup = "restored" => ~vm'.dirty /\ late' = {}
    BY <2>1 DEF StageInv, Harmless
  <2> QED BY <1>3, <2>1, <2>2
<1>9. CASE UNCHANGED vars
  <2>1. Still /\ vm' = vm /\ late' = late
    BY <1>9 DEF vars, world, Still
  <2> QED BY <1>3, <2>1 DEF StageInv
<1> QED BY <1>4, <1>5, <1>6, <1>7, <1>8, <1>9, StepKinds


\* A step that takes nobody off the list and runs nothing keeps it complete.
LEMMA UseKept ==
  ASSUME UseIsKnown, Harmless, launches \in Nat, Used \subseteq Used',
         run.cleanup = "restored" => run'.cleanup = "restored"
  PROVE  UseIsKnown'
BY DEF UseIsKnown, Harmless

\* What may have run is listed after every step.
LEMMA UseStep ==
  ASSUME RunInv, StageInv, UseIsKnown, [Next]_vars
  PROVE  UseIsKnown'
<1>0. /\ run \in Run /\ pc \in Flow \cup Finally \cup Ended /\ launches \in Nat
      /\ "restore" \in Flow
      /\ pc \in Flow => run.cleanup = "skipped"
  BY DEF RunInv, TypeOK, StageInv, Flow
<1>1. ASSUME FlowSteps PROVE UseIsKnown'
  <2>1. pc \in Flow /\ Harmless /\ (Advances \/ Fails \/ Still)
    BY <1>1, FlowMoves, FlowStepsInFlow
  <2>2. CASE Advances
    <3>1. pc # "restore"
      BY <1>1, <2>2, FlowStepsInFlow DEF Advances, Flow
    <3>2. Asked => Asked'
      BY <2>2 DEF Advances, Asked, StageInv, BeforeExecution
    <3>3. Used \subseteq Used'
      BY <1>0, <2>1, <2>2, <3>1, <3>2 DEF Advances, SameVerdict, Used
    <3> QED BY <1>0, <2>1, <2>2, <3>3, UseKept DEF Advances, SameVerdict
  <2>3. CASE Fails
    BY <1>0, <2>1, <2>3, UseKept DEF Fails, Used, Asked
  <2>4. CASE Still
    BY <1>0, <2>1, <2>4, UseKept DEF Still, Used, Asked
  <2> QED BY <2>1, <2>2, <2>3, <2>4
<1>2. ASSUME Restore PROVE UseIsKnown'
  <2>1. pc = "restore" /\ Harmless /\ (Fails \/ (Advances /\ (~options.skip => ~vm'.dirty)))
    BY <1>2, RestoreMoves
  <2>2. CASE Fails
    BY <1>0, <2>1, <2>2, UseKept DEF Fails, Used, Asked
  <2>3. CASE Advances /\ (~options.skip => ~vm'.dirty)
    <3>1. launches' = 0 /\ "execute" \notin late'
      BY <2>1 DEF RunInv, OneRequest, BeforeExecution, Harmless
    <3>2. options.skip => "earlier" \in Used'
      BY <1>0, <2>1, <2>3 DEF Advances, SameVerdict, Used
    <3> QED BY <2>3, <3>1, <3>2 DEF UseIsKnown
  <2> QED BY <2>1, <2>2, <2>3
<1>3. ASSUME RequestExecution PROVE UseIsKnown'
  <2>1. /\ pc = "execute"
        /\ (Harmless /\ Fails) \/ (Advances /\ (run.action = "none" => run'.action # "skipped"))
    BY <1>3, ExecutionMoves
  <2>2. CASE Harmless /\ Fails
    BY <1>0, <2>1, <2>2, UseKept DEF Fails, Used, Asked
  <2>3. CASE Advances /\ (run.action = "none" => run'.action # "skipped")
    <3>1. Asked' /\ run'.cleanup = "skipped"
      BY <1>0, <2>1, <2>3 DEF Advances, SameVerdict, Asked, StageInv, BeforeExecution, Flow
    <3>2. "this" \in Used'
      BY <3>1 DEF Used
    <3> QED BY <3>2 DEF UseIsKnown
  <2> QED BY <2>1, <2>2, <2>3
<1>4. ASSUME EnterFinally \/ Salvage PROVE UseIsKnown'
  <2>1. Harmless /\ Settles
    BY <1>4, FinallyMoves
  <2> QED BY <1>0, <2>1, UseKept DEF Settles, SameVerdict, Used, Asked
<1>5. ASSUME DeferCleanup \/ SkipCleanup \/ Cleanup PROVE UseIsKnown'
  <2>1. /\ SameCase /\ Harmless /\ run.cleanup = "skipped"
        /\ \/ run'.cleanup = "restored" /\ ~vm'.dirty /\ late' = {}
           \/ run'.cleanup # "restored"
    BY <1>5, CleanupMoves DEF CleanedUp, StageInv
  <2>2. CASE run'.cleanup = "restored" /\ ~vm'.dirty /\ late' = {}
    BY <2>2 DEF UseIsKnown
  <2>3. CASE run'.cleanup # "restored"
    BY <1>0, <2>1, <2>3, UseKept DEF SameCase, Used, Asked
  <2> QED BY <2>1, <2>2, <2>3
<1>6. ASSUME EmergencyStop \/ Finish \/ Escape \/ Die PROVE UseIsKnown'
  <2>1. SameCase /\ Harmless /\ run'.cleanup = run.cleanup
    BY <1>6, EndMoves
  <2> QED BY <1>0, <2>1, UseKept DEF SameCase, Used, Asked
<1>7. ASSUME GuestSteps PROVE UseIsKnown'
  <2>1. /\ Still /\ late' \subseteq late /\ (Harmless \/ "execute" \in late)
    BY <1>7, GuestMoves
  <2>2. Used' = Used /\ run' = run
    BY <2>1 DEF Still, Used, Asked
  <2>3. CASE Harmless
    BY <1>0, <2>2, <2>3, UseKept
  <2>4. CASE "execute" \in late
    <3>1. "this" \in Used'
      BY <2>2, <2>4 DEF UseIsKnown
    <3> QED BY <3>1 DEF UseIsKnown
  <2> QED BY <2>1, <2>3, <2>4
<1>8. CASE UNCHANGED vars
  BY <1>8 DEF vars, world, UseIsKnown, Used, Asked
<1> QED BY <1>1, <1>2, <1>3, <1>4, <1>5, <1>6, <1>7, <1>8, StepKinds

-----------------------------------------------------------------------------

\* What CaseContract sees of the run.
Seen == <<Stage, options, Used, CaseError, Returned>>

\* A step that leaves these alone is none of the contract's.
LEMMA Unseen ==
  ASSUME UNCHANGED <<pc, options, adapter, steps, interrupted, run>>
  PROVE  UNCHANGED Seen
BY DEF Seen, Stage, Gone, Asked, Used, CaseError, Returned, Result, Unsafe, FinalStatus

LEMMA SeenIsAll == UNCHANGED Seen => UNCHANGED Promise!contractVars
  BY DEF Seen, Promise!contractVars

\* Before there is a result, and after the run is gone, nothing is returned.
LEMMA NothingReturned ==
  /\ Stage # "record" => Returned = Promise!NoOutcome
  /\ (Stage # "record")' => Returned' = Promise!NoOutcome
BY DEF Returned, NoResult, Promise!NoOutcome, Promise!Outcome

\* A run in its flow is the contract's case before or after the launch.
LEMMA FlowStages ==
  ASSUME RunInv, StageInv, pc \in Flow
  PROVE  /\ ~Gone /\ CaseError = FALSE /\ run.cleanup = "skipped" /\ ~interrupted
         /\ pc \in {"config", "restore"} => Stage = "single" /\ ~Asked
         /\ pc \notin {"config", "restore"} =>
              Stage = (IF Asked THEN "launched" ELSE "sample") /\ adapter
BY DEF RunInv, TypeOK, StatusInv, CleanupInv, StageInv, Gone, CaseError, Stage, Asked, Flow,
       Finally, BeforeExecution, Run

\* A step of the flow that goes well prepares, launches, closes or is unseen.
LEMMA AdvanceKept ==
  ASSUME RunInv, StageInv, Advances
  PROVE  [Promise!ContractNext]_(Promise!contractVars)
<1>0. /\ run \in Run /\ pc \in Flow /\ options \in [skip: BOOLEAN, defer: BOOLEAN]
      /\ ~Gone /\ CaseError = FALSE /\ run.cleanup = "skipped" /\ ~interrupted
      /\ run.error = FALSE /\ run'.cleanup = "skipped" /\ options' = options
      /\ interrupted' = interrupted
  BY FlowStages DEF Advances, SameVerdict, RunInv, TypeOK, StatusInv, Run
<1>1. ~Gone' /\ CaseError' = FALSE
  BY <1>0 DEF Advances, SameVerdict, Gone, CaseError, Flow
<1>2. CASE pc = "config"
  <2>1. pc' = "restore" /\ "restore" \notin steps' /\ ~Asked' /\ ~Asked
    BY <1>2 DEF Advances, StageInv, Asked, BeforeExecution
  <2>2. Stage = "single" /\ Stage' = "single"
    BY <1>0, <1>1, <1>2, <2>1, FlowStages DEF Stage, Flow, Finally
  <2>3. Used' = Used
    BY <1>0, <1>2, <2>1 DEF Used, StageInv
  <2> QED BY <1>0, <1>1, <2>2, <2>3, NothingReturned, SeenIsAll DEF Seen
<1>3. CASE pc # "config"
  <2>0. "restore" \in steps' /\ adapter' = adapter
    BY <1>3, <1>0 DEF Advances, StageInv
  <2>1. CASE pc = "restore"
    <3>1. pc' \in Flow /\ ~Asked' /\ ~Asked
      BY <2>1 DEF Advances, StageInv, Asked, BeforeExecution
    <3>2. Stage = "single" /\ Stage' = "sample"
      BY <1>0, <1>1, <2>0, <2>1, <3>1, FlowStages DEF Stage, Flow, Finally
    <3>3. Used' = IF options.skip THEN Used ELSE {}
      BY <1>0, <2>0, <2>1, <3>1 DEF Used, StageInv
    <3>4. Promise!Prepares
      BY <1>0, <1>1, <3>2, <3>3, NothingReturned DEF Promise!Prepares, Promise!asked
    <3> QED BY <3>4 DEF Promise!ContractNext
  <2>2. CASE pc # "restore"
    <3>0. /\ Stage = (IF Asked THEN "launched" ELSE "sample") /\ adapter
          /\ "restore" \in steps
      BY <1>0, <1>3, <2>2, FlowStages DEF StageInv
    <3>1. CASE pc = "export"
      <4>1. pc' = "finally" /\ (Asked' <=> Asked)
        BY <3>1 DEF Advances, Asked
      <4>2. Stage' = "cleanup"
        BY <1>0, <1>1, <2>0, <3>0, <4>1 DEF Stage, Flow
      <4>3. Used' = Used
        BY <1>0, <2>0, <3>0, <4>1 DEF Used
      <4>4. Promise!Closes
        BY <1>0, <1>1, <3>0, <4>2, <4>3, NothingReturned DEF Promise!Closes, Promise!asked
      <4> QED BY <4>4 DEF Promise!ContractNext
    <3>2. CASE pc # "export" /\ (Asked' <=> Asked)
      <4>1. pc' \in Flow
        BY <3>2, <1>3 DEF Advances
      <4>2. Stage' = Stage
        BY <1>0, <1>1, <2>0, <3>0, <3>2, <4>1 DEF Stage, Flow, Finally
      <4>3. Used' = Used
        BY <1>0, <2>0, <3>0, <3>2 DEF Used
      <4> QED BY <1>0, <1>1, <3>0, <4>2, <4>3, NothingReturned, SeenIsAll DEF Seen
    <3>3. CASE pc # "export" /\ ~(Asked' <=> Asked)
      <4>1. pc = "execute" /\ ~Asked /\ Asked'
        BY <1>3, <3>3 DEF Advances, Asked, StageInv, BeforeExecution
      <4>2. pc' \in Flow
        BY <4>1 DEF Advances
      <4>3. Stage = "sample" /\ Stage' = "launched"
        BY <1>0, <1>1, <2>0, <3>0, <4>1, <4>2 DEF Stage, Flow, Finally
      <4>4. Used' = Used \cup {"this"}
        BY <1>0, <2>0, <3>0, <4>1 DEF Used
      <4>5. Promise!Launches
        BY <1>0, <1>1, <4>3, <4>4, NothingReturned DEF Promise!Launches, Promise!asked
      <4> QED BY <4>5 DEF Promise!ContractNext
    <3> QED BY <3>1, <3>2, <3>3
  <2> QED BY <2>1, <2>2
<1> QED BY <1>2, <1>3

\* A step that fails, or is interrupted, leads to the cleanup or ends the run.
LEMMA FailureKept ==
  ASSUME RunInv, StageInv, Fails
  PROVE  [Promise!ContractNext]_(Promise!contractVars)
<1>0. /\ pc \in Flow /\ pc' = "finally" /\ CaseError = FALSE /\ ~interrupted
      /\ run.cleanup = "skipped" /\ run'.cleanup = "skipped"
      /\ UNCHANGED <<options, adapter, steps>> /\ (Asked' <=> Asked)
  BY FlowStages DEF Fails, Asked
<1>1. Used' = Used
  BY <1>0 DEF Used
<1>2. CASE interrupted'
  <2>1. Stage' = "idle" /\ CaseError' = FALSE
    BY <1>2 DEF Stage, CaseError, Gone
  <2>2. Promise!Dies
    BY <1>0, <1>1, <2>1, NothingReturned DEF Promise!Dies, Promise!asked
  <2> QED BY <2>2 DEF Promise!ContractNext
<1>3. CASE ~interrupted'
  <2>0. run'.error /\ ~Gone' /\ CaseError' = adapter
    BY <1>0, <1>3 DEF Fails, Gone, CaseError, RunInv, TypeOK
  <2>1. CASE ~adapter
    <3>1. pc = "config"
      BY <1>0, <2>1 DEF StageInv, Finally, Ended, Flow
    <3>2. Stage = "single" /\ Stage' = "single"
      BY <1>0, <2>0, <2>1, <3>1, FlowStages DEF Stage, Flow
    <3> QED BY <1>0, <1>1, <2>0, <2>1, <3>2, NothingReturned, SeenIsAll DEF Seen, CaseError
  <2>2. CASE adapter
    <3>1. Stage' = "cleanup"
      BY <1>0, <2>0, <2>2 DEF Stage, Flow
    <3>2. CASE pc \in {"config", "restore"}
      <4>1. Promise!PrepareFails
        BY <1>0, <1>1, <2>0, <2>2, <3>1, <3>2, FlowStages, NothingReturned
           DEF Promise!PrepareFails, Promise!asked, CaseError
      <4> QED BY <4>1 DEF Promise!ContractNext
    <3>3. CASE pc \notin {"config", "restore"}
      <4>1. Promise!Closes
        BY <1>0, <1>1, <2>0, <2>2, <3>1, <3>3, FlowStages, NothingReturned
           DEF Promise!Closes, Promise!asked, CaseError
      <4> QED BY <4>1 DEF Promise!ContractNext
    <3> QED BY <3>2, <3>3
  <2> QED BY <2>1, <2>2
<1> QED BY <1>2, <1>3

\* finally begins: nothing the contract sees.
LEMMA SettleKept ==
  ASSUME RunInv, StageInv, Settles
  PROVE  UNCHANGED Promise!contractVars
<1>1. /\ pc \in {"finally", "salvage"} /\ pc' \in {"salvage", "cleanup"}
      /\ UNCHANGED <<options, adapter, steps, interrupted>> /\ (Asked' <=> Asked)
      /\ run'.error = run.error /\ run'.cleanup = run.cleanup
  BY DEF Settles, SameVerdict, Asked
<1>2. Used' = Used /\ (Gone' <=> Gone)
  BY <1>1 DEF Used, Gone
<1>3. Stage' = Stage /\ Stage # "record" /\ CaseError' = CaseError
  BY <1>1, <1>2 DEF Stage, CaseError, Flow
<1> QED BY <1>1, <1>2, <1>3, NothingReturned, SeenIsAll DEF Seen

\* The cleanup, as it comes out, is the contract's.
LEMMA CleanupKept ==
  ASSUME RunInv, StageInv, DeferCleanup \/ SkipCleanup \/ Cleanup
  PROVE  [Promise!ContractNext]_(Promise!contractVars)
<1>0. /\ pc = "cleanup" /\ pc' \in {"finish", "poweroff"} /\ SameCase
      /\ run.cleanup = "skipped" /\ (Gone <=> interrupted) /\ (Gone' <=> interrupted)
      /\ interrupted' = interrupted /\ options' = options /\ adapter' = adapter
      /\ run'.error = run.error /\ (Asked' <=> Asked) /\ steps' = steps
      /\ run \in Run /\ options \in [skip: BOOLEAN, defer: BOOLEAN]
  BY CleanupMoves DEF CleanedUp, StageInv, SameCase, Gone, Asked, RunInv, TypeOK
<1>1. ASSUME interrupted PROVE UNCHANGED Promise!contractVars
  <2>1. Used' = Used
    BY <1>0, <1>1 DEF Used
  <2>2. Stage = "idle" /\ Stage' = "idle" /\ CaseError = FALSE /\ CaseError' = FALSE
    BY <1>0, <1>1 DEF Stage, CaseError
  <2> QED BY <1>0, <2>1, <2>2, NothingReturned, SeenIsAll DEF Seen
<1>2. ASSUME ~interrupted PROVE Promise!ContractNext
  <2>1. ~Gone /\ ~Gone' /\ Stage' = "record" /\ CaseError' = CaseError
    BY <1>0, <1>2 DEF Stage, CaseError, Flow
  <2>2. Returned = Promise!NoOutcome /\ Returned' = Result'
    BY <1>0, <2>1, NothingReturned DEF Stage, Returned, Flow, Finally
  <2>3. Completing \/ run.error
    BY <1>0, <1>2 DEF Completing, Finally
  <2>4. /\ adapter => Stage = "cleanup" /\ (CaseError <=> run.error)
        /\ ~adapter => Stage = "single" /\ CaseError = FALSE
    BY <1>0, <2>1 DEF Stage, CaseError, Flow
  <2>5. run'.cleanup # "restored" => Used' = Used
    BY <1>0 DEF Used
  <2>6. CASE DeferCleanup
    <3>1. /\ options.defer /\ ~run.error /\ adapter /\ run'.poweroff = "not_needed"
          /\ run'.cleanup = "deferred_to_next_case"
      BY <1>0, <2>6 DEF DeferCleanup, Defers, Saved, StageInv, Leave, Marked, Run
    <3>2. Result' = Promise!Outcome("completed", "deferred_to_next_case", "none")
      BY <1>0, <3>1 DEF Result, Unsafe, FinalStatus, Promise!Outcome
    <3>3. Promise!Defers
      BY <1>0, <2>1, <2>2, <2>4, <2>5, <3>1, <3>2
         DEF Promise!Defers, Promise!Return, Promise!asked
    <3> QED BY <3>3 DEF Promise!ContractNext
  <2>7. CASE SkipCleanup
    <3>1. /\ ~adapter /\ run'.poweroff = "skipped" /\ run'.cleanup = "skipped"
      BY <1>0, <2>7 DEF SkipCleanup, Leave, Marked, Run
    <3>2. run.error
      BY <2>3, <3>1 DEF RunInv, FlowInv, StageInv
    <3>3. Result' = Promise!Outcome("failed", "skipped", "case_failure")
      BY <1>0, <3>1, <3>2 DEF Result, Unsafe, FinalStatus, Promise!Outcome
    <3>4. Promise!FailsEarly
      BY <1>0, <2>1, <2>2, <2>4, <2>5, <3>1, <3>3
         DEF Promise!FailsEarly, Promise!Return, Promise!asked
    <3> QED BY <3>4 DEF Promise!ContractNext
  <2>8. CASE Cleanup
    <3>1. adapter /\ (~options.defer \/ run.error)
      BY <2>3, <2>8 DEF Cleanup, Defers, RunInv, FlowInv
    <3>2. CASE Restored /\ Leave("finish", Marked("restored", "not_needed"))
      <4>1. run'.poweroff = "not_needed" /\ run'.cleanup = "restored"
        BY <1>0, <3>2 DEF Leave, Marked, Run
      <4>2. Result' = IF run.error THEN Promise!Outcome("failed", "restored", "case_failure")
                                   ELSE Promise!Outcome("completed", "restored", "none")
        BY <1>0, <4>1 DEF Result, Unsafe, FinalStatus, Promise!Outcome
      <4>3. Used' = {}
        BY <1>0, <1>2, <4>1 DEF Used
      <4>4. Promise!Restores
        BY <1>0, <2>1, <2>2, <2>4, <3>1, <4>2, <4>3
           DEF Promise!Restores, Promise!Return, Promise!asked
      <4> QED BY <4>4 DEF Promise!ContractNext
    <3>3. CASE Leave("poweroff", [Warn(TRUE) EXCEPT !.cleanup = "restore_failed"])
      <4>1. run'.cleanup = "restore_failed"
        BY <1>0, <3>3 DEF Leave, Warn, Run
      <4>2. Result' = Promise!Outcome("stopped_environment_failure", "restore_failed",
                                      "environment_failure")
        BY <4>1 DEF Result, Unsafe, Promise!Outcome
      <4>3. Promise!CleanupFails
        BY <1>0, <2>1, <2>2, <2>4, <2>5, <3>1, <4>1, <4>2
           DEF Promise!CleanupFails, Promise!Return, Promise!asked
      <4> QED BY <4>3 DEF Promise!ContractNext
    <3> QED BY <2>8, <3>2, <3>3 DEF Cleanup
  <2> QED BY <2>6, <2>7, <2>8
<1> QED BY <1>1, <1>2

\* The emergency stop and the return are part of what was returned; what breaks
\* out of finally raises, and a killed run is gone.
LEMMA EndKept ==
  ASSUME RunInv, StageInv, EmergencyStop \/ Finish \/ Escape \/ Die
  PROVE  [Promise!ContractNext]_(Promise!contractVars)
<1>0. /\ SameCase /\ UNCHANGED <<options, adapter, interrupted, steps>>
      /\ run'.cleanup = run.cleanup /\ run'.error = run.error
      /\ (Asked' <=> Asked)
  BY EndMoves DEF SameCase, Asked
<1>1. Used' = Used
  BY <1>0 DEF Used
<1>2. CASE Die
  <2>1. Stage' = "idle" /\ CaseError' = FALSE
    BY <1>2 DEF Die, Stage, CaseError, Gone
  <2>2. Promise!Dies
    BY <1>0, <1>1, <2>1, NothingReturned DEF Promise!Dies, Promise!asked
  <2> QED BY <2>2 DEF Promise!ContractNext
<1>3. CASE EmergencyStop \/ Finish \/ Escape
  <2>0. pc \in Finally /\ pc' \in {"finish", "done", "raised"}
    BY <1>3 DEF Finally, EmergencyStop, Leave, Finish, Escape
  <2>1. CASE interrupted
    <3>1. Stage = "idle" /\ Stage' = "idle" /\ CaseError = FALSE /\ CaseError' = FALSE
      BY <1>0, <2>1 DEF Stage, CaseError, Gone
    <3> QED BY <1>0, <1>1, <3>1, NothingReturned, SeenIsAll DEF Seen
  <2>2. CASE ~interrupted
    <3>1. ~Gone /\ ~Gone' /\ Stage' = "record" /\ CaseError' = CaseError
      BY <1>0, <2>0, <2>2 DEF Gone, Stage, CaseError, Finally, Flow
    <3>2. CASE EmergencyStop
      <4>1. pc = "poweroff" /\ pc' = "finish" /\ run.cleanup = "restore_failed"
        BY <3>2 DEF EmergencyStop, Leave, RunInv, CleanupInv
      <4>2. Result' = Result
        BY <1>0, <4>1 DEF Result, Unsafe
      <4>3. Stage = "record" /\ Returned' = Returned
        <5>1. Stage = "record"
          BY <3>1, <4>1 DEF Stage, Flow
        <5> QED BY <3>1, <4>1, <4>2, <5>1 DEF Returned
      <4> QED BY <1>0, <1>1, <3>1, <4>3, SeenIsAll DEF Seen
    <3>3. CASE Finish
      <4>1. /\ pc = "finish" /\ pc' = "done"
            /\ run' = [run EXCEPT !.status = FinalStatus] /\ run \in Run
        BY <2>2, <3>3 DEF Finish, RunInv, TypeOK
      <4>2. run'.status = FinalStatus
        BY <4>1 DEF Run
      <4>3. Result' = Result
        BY <1>0, <4>1, <4>2 DEF Result, Unsafe
      <4>4. Stage = "record" /\ Returned' = Returned
        <5>1. Stage = "record"
          BY <3>1, <4>1 DEF Stage, Flow
        <5> QED BY <3>1, <4>1, <4>3, <5>1 DEF Returned
      <4> QED BY <1>0, <1>1, <3>1, <4>4, SeenIsAll DEF Seen
    <3>4. CASE Escape
      <4>1. pc' = "raised"
        BY <3>4 DEF Escape
      <4>2. Stage \in {"single", "cleanup", "record"}
        BY <2>0, <3>1 DEF Stage, Finally, Flow
      <4>3. Returned' = Promise!Outcome("failed", "not_started", "case_failure")
        BY <3>1, <4>1 DEF Returned, Raised, Promise!Outcome
      <4>4. Promise!Raises
        BY <1>0, <1>1, <3>1, <4>2, <4>3
           DEF Promise!Raises, Promise!Return, Promise!InSingleRun, Promise!asked
      <4> QED BY <4>4 DEF Promise!ContractNext
    <3> QED BY <1>3, <3>2, <3>3, <3>4
  <2> QED BY <2>1, <2>2
<1> QED BY <1>2, <1>3

\* A run starts as the contract's case, and goes on as one.
LEMMA PromiseStart ==
  Init => Promise!ContractInit /\ StageInv /\ UseIsKnown
BY DEF Init, Promise!ContractInit, Stage, Gone, CaseError, Returned, NoResult, StageInv,
       UseIsKnown, Used, Asked, Promise!NoOutcome, Promise!Outcome, Flow, Finally,
       BeforeExecution

LEMMA PromiseStep ==
  ASSUME RunInv, StageInv, [Next]_vars
  PROVE  [Promise!ContractNext]_(Promise!contractVars)
<1>0. Still => UNCHANGED Promise!contractVars
  BY Unseen, SeenIsAll DEF Still
<1>1. CASE FlowSteps
  BY <1>0, <1>1, FlowMoves, AdvanceKept, FailureKept
<1>2. CASE Restore \/ RequestExecution
  BY <1>2, RestoreMoves, ExecutionMoves, AdvanceKept, FailureKept
<1>3. CASE EnterFinally \/ Salvage
  BY <1>3, FinallyMoves, SettleKept
<1>4. CASE DeferCleanup \/ SkipCleanup \/ Cleanup
  BY <1>4, CleanupKept
<1>5. CASE EmergencyStop \/ Finish \/ Escape \/ Die
  BY <1>5, EndKept
<1>6. CASE GuestSteps
  BY <1>0, <1>6, GuestMoves
<1>7. CASE UNCHANGED vars
  BY <1>0, <1>7 DEF vars, world, Still
<1> QED BY <1>1, <1>2, <1>3, <1>4, <1>5, <1>6, <1>7, StepKinds

\* Whatever was launched on the instance since its last restore, or may yet be
\* by a request on its way, is among those that the stages of the run account
\* for: by the requests of the run alone, not by what the guest answered.
THEOREM UseIsAccountedFor == Spec => []UseIsKnown
<1>1. Init => StageInv /\ UseIsKnown
  BY PromiseStart
<1>2. RunInv /\ StageInv /\ UseIsKnown /\ [Next]_vars => StageInv' /\ UseIsKnown'
  BY StageStep, UseStep
<1> QED BY <1>1, <1>2, RunCorrect, PTL DEF Spec

\* The run of single_run.py, with its steps, retries, late requests and faults,
\* is the case that the batch of MultiRun was built on: it prepares before it
\* launches, empties the instance only by a restore, defers only without an
\* error, and returns what CaseContract says of the cleanup.
THEOREM RunKeepsPromise == Spec => KeepsPromise
<1>1. Init => Promise!ContractInit /\ StageInv
  BY PromiseStart
<1>2. RunInv /\ StageInv /\ [Next]_vars => StageInv'
  BY StageStep
<1>3. RunInv /\ StageInv /\ [Next]_vars => [Promise!ContractNext]_(Promise!contractVars)
  BY PromiseStep
<1> QED BY <1>1, <1>2, <1>3, RunCorrect, PTL DEF Spec, KeepsPromise, Promise!ContractSpec

=============================================================================
