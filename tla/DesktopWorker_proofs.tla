------------------------ MODULE DesktopWorker_proofs ------------------------
(* The Desktop Worker's guarantees for any number of cases, leases, threads, *)
(* faults and worker restarts, as long as a case is not polled or prepared   *)
(* again while its launch is being served (Patient).                         *)
EXTENDS DesktopWorker, TLAPS

\* WorkerInv holds initially and every step of the worker, of a sample or of
\* the environment preserves it.
LEMMA WorkerInvInductive ==
  ASSUME Patient
  PROVE  /\ Init => WorkerInv
         /\ WorkerInv /\ [Next]_vars => WorkerInv'
<1> USE WorkerAssumption DEF Record, States, Closing, Exited, Launching, Starting,
      Serving, Polling, RequestCase, memory, history,
      WorkerInv, TypeOK, LauncherOwnsWindow, LeaseLaunchesOnce,
      CaseLaunchesOnce, RequestsHoldLease, PollsBetweenLaunches, NonceGuardsLaunch,
      RecordGuardsCase, LaunchedWriting
<1>1. Init => WorkerInv
  BY DEF Init, Idle, Resting
<1>2. ASSUME WorkerInv, NEW q \in Requests, NEW l \in Leases, Reserve(q, l)
      PROVE  WorkerInv'
  BY <1>2 DEF Reserve, MayReserve, AlreadyRecorded
<1>3. ASSUME WorkerInv, NEW q \in Requests, Popen(q)
      PROVE  WorkerInv'
  BY <1>3 DEF Popen, Goto
<1>4. ASSUME WorkerInv, NEW q \in Requests, PopenFails(q)
      PROVE  WorkerInv'
  <2>1. TypeOK'
    <3>1. TypeOK /\ PopenFails(q)
      BY <1>4
    <3> QED
      BY <3>1 DEF PopenFails, Goto
  <2>2. LauncherOwnsWindow'
    BY <1>4 DEF PopenFails, Goto
  <2>3. LeaseLaunchesOnce'
    BY <1>4 DEF PopenFails, Goto
  <2>4. CaseLaunchesOnce'
    BY <1>4 DEF PopenFails, Goto
  <2>5. RequestsHoldLease'
    BY <1>4 DEF PopenFails, Goto
  <2>6. PollsBetweenLaunches'
    BY <1>4 DEF PopenFails, Goto
  <2>7. NonceGuardsLaunch'
    BY <1>4 DEF PopenFails, Goto
  <2>8. RecordGuardsCase'
    BY <1>4 DEF PopenFails, Goto
  <2> QED
    BY <2>1, <2>2, <2>3, <2>4, <2>5, <2>6, <2>7, <2>8
<1>5. ASSUME WorkerInv, NEW q \in Requests, WriteLaunchFailed(q)
      PROVE  WorkerInv'
  <2>1. TypeOK'
    BY <1>5 DEF WriteLaunchFailed, Goto, Write
  <2>2. LauncherOwnsWindow'
    BY <1>5 DEF WriteLaunchFailed, Goto, Write
  <2>3. LeaseLaunchesOnce'
    BY <1>5 DEF WriteLaunchFailed, Goto, Write
  <2>4. CaseLaunchesOnce'
    BY <1>5 DEF WriteLaunchFailed, Goto, Write
  <2>5. RequestsHoldLease'
    BY <1>5 DEF WriteLaunchFailed, Goto, Write
  <2>6. PollsBetweenLaunches'
    BY <1>5 DEF WriteLaunchFailed, Goto, Write
  <2>7. NonceGuardsLaunch'
    BY <1>5 DEF WriteLaunchFailed, Goto, Write
  <2>8. RecordGuardsCase'
    BY <1>5 DEF WriteLaunchFailed, Goto, Write
  <2> QED
    BY <2>1, <2>2, <2>3, <2>4, <2>5, <2>6, <2>7, <2>8
<1>6. ASSUME WorkerInv, NEW q \in Requests, Register(q)
      PROVE  WorkerInv'
  <2>1. TypeOK'
    BY <1>6 DEF Register, Goto
  <2>2. LauncherOwnsWindow'
    BY <1>6 DEF Register, Goto
  <2>3. LeaseLaunchesOnce'
    BY <1>6 DEF Register, Goto
  <2>4. CaseLaunchesOnce'
    BY <1>6 DEF Register, Goto
  <2>5. RequestsHoldLease'
    BY <1>6 DEF Register, Goto
  <2>6. PollsBetweenLaunches'
    BY <1>6 DEF Register, Goto
  <2>7. NonceGuardsLaunch'
    BY <1>6 DEF Register, Goto
  <2>8. RecordGuardsCase'
    BY <1>6 DEF Register, Goto
  <2> QED
    BY <2>1, <2>2, <2>3, <2>4, <2>5, <2>6, <2>7, <2>8
<1>7. ASSUME WorkerInv, NEW q \in Requests, WriteRunning(q)
      PROVE  WorkerInv'
  <2>1. TypeOK'
    BY <1>7 DEF WriteRunning, Finish, Write, Idle
  <2>2. LauncherOwnsWindow'
    BY <1>7 DEF WriteRunning, Finish, Write, Idle
  <2>3. LeaseLaunchesOnce'
    BY <1>7 DEF WriteRunning, Finish, Write, Idle
  <2>4. CaseLaunchesOnce'
    BY <1>7 DEF WriteRunning, Finish, Write, Idle
  <2>5. RequestsHoldLease'
    BY <1>7 DEF WriteRunning, Finish, Write, Idle
  <2>6. PollsBetweenLaunches'
    BY <1>7 DEF WriteRunning, Finish, Write, Idle
  <2>7. NonceGuardsLaunch'
    BY <1>7 DEF WriteRunning, Finish, Write, Idle
  <2>8. RecordGuardsCase'
    BY <1>7 DEF WriteRunning, Finish, Write, Idle
  <2> QED
    BY <2>1, <2>2, <2>3, <2>4, <2>5, <2>6, <2>7, <2>8
<1>8. ASSUME WorkerInv, NEW q \in Requests, Clear(q)
      PROVE  WorkerInv'
  BY <1>8 DEF Clear, Finish, Idle
<1>9. ASSUME WorkerInv, NEW q \in Requests, WriteFails(q)
      PROVE  WorkerInv'
  BY <1>9 DEF WriteFails, Goto
<1>10. ASSUME WorkerInv, NEW p \in Pollers, ReadState(p)
      PROVE  WorkerInv'
  BY <1>10 DEF ReadState
<1>11. ASSUME WorkerInv, NEW p \in Pollers, Observe(p)
      PROVE  WorkerInv'
  <2>0. PICK s \in Observable(poll[p].seen, registered[Polls[p]]) :
          poll' = [poll EXCEPT ![p] =
                     [at |-> "write", seen |-> [@.seen EXCEPT !.state = Timed(s, Polls[p])]]]
    BY <1>11 DEF Observe
  <2>a. poll[p].seen \in Record /\ record[Polls[p]] # Absent /\ Serving(Polls[p]) = {}
    BY <1>11 DEF Observe
  <2>b. Timed(s, Polls[p]) \in States
    BY <2>0, <2>a DEF Observable, ExitCode, Polled, ExitState, Timed
  <2>c. /\ poll'[p].at = "write" /\ poll'[p].seen \in Record
        /\ \A x \in Pollers : x # p => poll'[x] = poll[x]
    <3>1. poll'[p] = [at |-> "write",
                      seen |-> [poll[p].seen EXCEPT !.state = Timed(s, Polls[p])]]
      BY <1>11, <2>0
    <3>2. [poll[p].seen EXCEPT !.state = Timed(s, Polls[p])] \in Record
      BY <2>a, <2>b
    <3> QED BY <1>11, <2>0, <3>1, <3>2
  <2>1. TypeOK'
    <3>1. poll' \in [Pollers -> [at: {"idle", "observe", "write", "clear"},
                                seen: Record \cup {Absent}]]
      BY <1>11, <2>0, <2>c
    <3> QED
      BY <1>11, <3>1 DEF Observe
  <2>2. LauncherOwnsWindow'
    BY <1>11 DEF Observe
  <2>3. LeaseLaunchesOnce'
    BY <1>11 DEF Observe
  <2>4. CaseLaunchesOnce'
    BY <1>11 DEF Observe
  <2>5. RequestsHoldLease'
    BY <1>11 DEF Observe
  <2>6. PollsBetweenLaunches'
    BY <1>11, <2>a, <2>c DEF Observe
  <2>7. NonceGuardsLaunch'
    BY <1>11 DEF Observe
  <2>8. RecordGuardsCase'
    BY <1>11 DEF Observe
  <2> QED
    BY <2>1, <2>2, <2>3, <2>4, <2>5, <2>6, <2>7, <2>8
<1>12. ASSUME WorkerInv, NEW p \in Pollers, WriteObserved(p)
      PROVE  WorkerInv'
  <2>1. TypeOK'
    BY <1>12 DEF WriteObserved, Write, Resting
  <2>2. LauncherOwnsWindow'
    BY <1>12 DEF WriteObserved, Write, Resting
  <2>3. LeaseLaunchesOnce'
    BY <1>12 DEF WriteObserved, Write, Resting
  <2>4. CaseLaunchesOnce'
    BY <1>12 DEF WriteObserved, Write, Resting
  <2>5. RequestsHoldLease'
    BY <1>12 DEF WriteObserved, Write, Resting
  <2>6. PollsBetweenLaunches'
    BY <1>12 DEF WriteObserved, Write, Resting
  <2>7. NonceGuardsLaunch'
    BY <1>12 DEF WriteObserved, Write, Resting
  <2>8. RecordGuardsCase'
    BY <1>12 DEF WriteObserved, Write, Resting
  <2> QED
    BY <2>1, <2>2, <2>3, <2>4, <2>5, <2>6, <2>7, <2>8
<1>13. ASSUME WorkerInv, NEW p \in Pollers, WriteObservedFails(p)
      PROVE  WorkerInv'
  BY <1>13 DEF WriteObservedFails, Resting
<1>14. ASSUME WorkerInv, NEW p \in Pollers, CloseWindow(p)
      PROVE  WorkerInv'
  BY <1>14 DEF CloseWindow, Resting
<1>15. ASSUME WorkerInv, NEW l \in Leases, Exit(l)
      PROVE  WorkerInv'
  BY <1>15 DEF Exit
<1>16. ASSUME WorkerInv, NEW c \in Cases, BecomeOverdue(c)
      PROVE  WorkerInv'
  BY <1>16 DEF BecomeOverdue
<1>17. ASSUME WorkerInv, NEW c \in Cases, Prepare(c)
      PROVE  WorkerInv'
  BY <1>17 DEF Prepare, Write
<1>18. ASSUME WorkerInv, Restart
      PROVE  WorkerInv'
  <2>1. TypeOK'
    BY <1>18 DEF Restart, Idle, Resting, BeingWritten, LaunchedUnwritten
  <2>2. LauncherOwnsWindow'
    BY <1>18 DEF Restart, Idle, Resting, BeingWritten, LaunchedUnwritten
  <2>3. LeaseLaunchesOnce'
    BY <1>18 DEF Restart, Idle, Resting, BeingWritten, LaunchedUnwritten
  <2>4. CaseLaunchesOnce'
    BY <1>18 DEF Restart, Idle, Resting, BeingWritten, LaunchedUnwritten
  <2>5. RequestsHoldLease'
    BY <1>18 DEF Restart, Idle, Resting, BeingWritten, LaunchedUnwritten
  <2>6. PollsBetweenLaunches'
    BY <1>18 DEF Restart, Idle, Resting, BeingWritten, LaunchedUnwritten
  <2>7. NonceGuardsLaunch'
    BY <1>18 DEF Restart, Idle, Resting, BeingWritten, LaunchedUnwritten
  <2>8. RecordGuardsCase'
    BY <1>18 DEF Restart, Idle, Resting, BeingWritten, LaunchedUnwritten
  <2> QED
    BY <2>1, <2>2, <2>3, <2>4, <2>5, <2>6, <2>7, <2>8
<1>19. ASSUME WorkerInv, UNCHANGED vars
      PROVE  WorkerInv'
  BY <1>19 DEF vars
<1> HIDE DEF WorkerInv
<1> QED
  BY <1>1, <1>2, <1>3, <1>4, <1>5, <1>6, <1>7, <1>8, <1>9, <1>10, <1>11, <1>12, <1>13, <1>14, <1>15, <1>16, <1>17, <1>18, <1>19 DEF Next, ServeStep, PollStep

\* WorkerInv, with the type invariant in it, holds in every reachable state.
THEOREM WorkerCorrect ==
  ASSUME Patient
  PROVE  Spec => []WorkerInv
BY WorkerInvInductive, PTL DEF Spec

\* The registry's docstring, for any number of request threads: one launch at
\* a time.
THEOREM OneLaunchAtATime ==
  ASSUME Patient
  PROVE  Spec => []SingleWindow
<1>1. WorkerInv => SingleWindow
  BY DEF WorkerInv, LauncherOwnsWindow, SingleWindow, Starting, Launching
<1> QED
  BY <1>1, WorkerCorrect, PTL

\* A signed lease starts at most one process in the life of a worker.
THEOREM LeaseOnce ==
  ASSUME Patient
  PROVE  Spec => []LeaseLaunchesOnce
<1>1. WorkerInv => LeaseLaunchesOnce
  BY DEF WorkerInv
<1> QED
  BY <1>1, WorkerCorrect, PTL

\* A prepared case is launched at most once, across worker restarts too,
\* unless the launch itself could not be recorded.
THEOREM CaseOnce ==
  ASSUME Patient
  PROVE  Spec => []CaseLaunchesOnce
<1>1. WorkerInv => CaseLaunchesOnce
  BY DEF WorkerInv
<1> QED
  BY <1>1, WorkerCorrect, PTL

\* A launch that has not stored its handle, or that failed before it, leaves
\* no handle of its case behind.
FreshLaunch ==
  \A q \in Requests :
    request[q].at \in {"popen", "fail_write", "register", "clear"} =>
      registered[RequestCase(q)] = NoLease \/ RequestCase(q) \in unrecorded

WindowInv == RunningHoldsWindow /\ FreshLaunch

\* While a recorded launch keeps its handle the window is its case's: only the
\* poll that forgets the handle, or a restart, gives the window away.
LEMMA WindowInvInductive ==
  ASSUME Patient
  PROVE  /\ Init => WindowInv
         /\ WorkerInv /\ WindowInv /\ [Next]_vars => WindowInv'
<1> USE WorkerAssumption DEF Launching, RequestCase, memory,
      history, WindowInv, RunningHoldsWindow, FreshLaunch
<1>1. Init => WindowInv
  BY DEF Init, Idle, Resting
<1> SUFFICES ASSUME WorkerInv, WindowInv, [Next]_vars
             PROVE  WindowInv'
  BY <1>1
<1> USE DEF WorkerInv, TypeOK, LauncherOwnsWindow
<1>2. ASSUME NEW q \in Requests, NEW l \in Leases, Reserve(q, l)
      PROVE  WindowInv'
  BY <1>2 DEF Reserve, MayReserve, AlreadyRecorded
<1>3. ASSUME NEW q \in Requests, Popen(q)
      PROVE  WindowInv'
  BY <1>3 DEF Popen, Goto
<1>4. ASSUME NEW q \in Requests, PopenFails(q)
      PROVE  WindowInv'
  BY <1>4 DEF PopenFails, Goto
<1>5. ASSUME NEW q \in Requests, WriteLaunchFailed(q)
      PROVE  WindowInv'
  BY <1>5 DEF WriteLaunchFailed, Goto
<1>6. ASSUME NEW q \in Requests, Register(q)
      PROVE  WindowInv'
  BY <1>6 DEF Register, Goto
<1>7. ASSUME NEW q \in Requests, WriteRunning(q)
      PROVE  WindowInv'
  BY <1>7 DEF WriteRunning, Finish, Idle
<1>8. ASSUME NEW q \in Requests, Clear(q)
      PROVE  WindowInv'
  BY <1>8 DEF Clear, Finish, Idle
<1>9. ASSUME NEW q \in Requests, WriteFails(q)
      PROVE  WindowInv'
  BY <1>9 DEF WriteFails, Goto
<1>10. ASSUME NEW p \in Pollers, PollStep(p)
       PROVE  WindowInv'
  <2>1. CASE ReadState(p)
    BY <2>1 DEF ReadState
  <2>2. CASE Observe(p)
    BY <2>2 DEF Observe
  <2>3. CASE WriteObserved(p)
    BY <2>3 DEF WriteObserved
  <2>4. CASE CloseWindow(p)
    <3>1. FreshLaunch'
      BY <2>4 DEF CloseWindow
    <3>2. ASSUME NEW c \in Cases, registered'[c] # NoLease, c \notin unrecorded'
          PROVE  active' = c
      BY <2>4, <3>2 DEF CloseWindow
    <3> QED
      BY <3>1, <3>2
  <2> QED
    BY <1>10, <2>1, <2>2, <2>3, <2>4 DEF PollStep
<1>11. ASSUME NEW p \in Pollers, WriteObservedFails(p)
       PROVE  WindowInv'
  BY <1>11 DEF WriteObservedFails
<1>12. ASSUME NEW l \in Leases, Exit(l)
       PROVE  WindowInv'
  BY <1>12 DEF Exit
<1>13. ASSUME NEW c \in Cases, BecomeOverdue(c) \/ Prepare(c)
       PROVE  WindowInv'
  BY <1>13 DEF BecomeOverdue, Prepare
<1>14. ASSUME Restart
       PROVE  WindowInv'
  BY <1>14 DEF Restart, Idle, LaunchedUnwritten
<1>15. ASSUME UNCHANGED vars
       PROVE  WindowInv'
  BY <1>15 DEF vars
<1> HIDE DEF WindowInv, WorkerInv
<1> QED
  BY <1>2, <1>3, <1>4, <1>5, <1>6, <1>7, <1>8, <1>9, <1>10, <1>11, <1>12, <1>13, <1>14,
     <1>15 DEF Next, ServeStep

\* No other case can be launched while a case is known to run.
THEOREM WindowKept ==
  ASSUME Patient
  PROVE  Spec => []RunningHoldsWindow
<1>1. WindowInv => RunningHoldsWindow
  BY DEF WindowInv
<1> QED
  BY <1>1, WindowInvInductive, WorkerCorrect, PTL DEF Spec

\* A launch that may still be recorded has no state file to be read yet.
NothingRecordedYet ==
  \A q \in Requests :
    request[q].at \in Starting \cup {"fail_write"} => record[RequestCase(q)] = Absent

\* A state, on disk or in the hands of a poll, is that of a launch of its case,
\* and if it says that the sample has exited then so it has.
Truthful(c, seen) ==
  /\ seen.state # "launch_failed" => seen.pid \in Leases /\ CaseOf[seen.pid] = c
  /\ seen.state \in Exited =>
       process[seen.pid] \in {"clean", "error"} /\ seen.state = ExitState(seen.pid)

\* The handle that stands next to a state is that of the same launch.
SameLaunch(c, seen) ==
  seen.state # "launch_failed" => registered[c] \in {NoLease, seen.pid}

StatesTruthful ==
  /\ \A c \in Cases : record[c] \notin {Absent, Torn} =>
       Truthful(c, record[c]) /\ SameLaunch(c, record[c])
  /\ \A p \in Pollers : poll[p].at # "idle" =>
       Truthful(Polls[p], poll[p].seen) /\ SameLaunch(Polls[p], poll[p].seen)
  /\ \A q \in Requests : request[q].at = "write" =>
       registered[RequestCase(q)] = request[q].lease

TruthInv == NothingRecordedYet /\ StatesTruthful

LEMMA TruthInvInductive ==
  ASSUME Patient
  PROVE  /\ Init => TruthInv
         /\ WorkerInv /\ TruthInv /\ [Next]_vars => TruthInv'
<1> USE WorkerAssumption DEF Launching, Starting, RequestCase, memory, history, Record,
      States, Closing, Exited, TruthInv, NothingRecordedYet, StatesTruthful, Truthful,
      SameLaunch, ExitState, Write, Goto
<1>1. Init => TruthInv
  BY DEF Init, Idle, Resting
<1> SUFFICES ASSUME WorkerInv, TruthInv, [Next]_vars
             PROVE  TruthInv'
  BY <1>1
<1> USE DEF WorkerInv, TypeOK, LauncherOwnsWindow, PollsBetweenLaunches, Serving, Polling
<1>2. ASSUME NEW q \in Requests, NEW l \in Leases, Reserve(q, l)
      PROVE  TruthInv'
  BY <1>2 DEF Reserve, MayReserve, AlreadyRecorded
<1>3. ASSUME NEW q \in Requests, Popen(q)
      PROVE  TruthInv'
  BY <1>3 DEF Popen
<1>4. ASSUME NEW q \in Requests, PopenFails(q)
      PROVE  TruthInv'
  BY <1>4 DEF PopenFails
<1>5. ASSUME NEW q \in Requests, WriteLaunchFailed(q)
      PROVE  TruthInv'
  BY <1>5 DEF WriteLaunchFailed
<1>6. ASSUME NEW q \in Requests, Register(q)
      PROVE  TruthInv'
  <2>1. /\ record[RequestCase(q)] = Absent
        /\ \A p \in Pollers : Polls[p] = RequestCase(q) => poll[p].at = "idle"
        /\ \A x \in Requests : request[x].at \in Launching => x = q
    BY <1>6 DEF Register
  <2>2. /\ request' = [request EXCEPT ![q].at = "write"]
        /\ registered' = [registered EXCEPT ![RequestCase(q)] = request[q].lease]
        /\ UNCHANGED <<record, process, poll>>
    BY <1>6 DEF Register
  <2>3. NothingRecordedYet'
    BY <2>1, <2>2
  <2>4. ASSUME NEW c \in Cases, record'[c] \notin {Absent, Torn}
        PROVE  Truthful(c, record[c])' /\ SameLaunch(c, record[c])'
    <3>1. c # RequestCase(q)
      BY <2>1, <2>2, <2>4
    <3> QED BY <2>2, <2>4, <3>1
  <2>5. ASSUME NEW p \in Pollers, poll'[p].at # "idle"
        PROVE  Truthful(Polls[p], poll[p].seen)' /\ SameLaunch(Polls[p], poll[p].seen)'
    <3>1. Polls[p] # RequestCase(q)
      BY <2>1, <2>2, <2>5
    <3> QED BY <2>2, <2>5, <3>1
  <2>6. ASSUME NEW x \in Requests, request'[x].at = "write"
        PROVE  registered'[CaseOf[request'[x].lease]] = request'[x].lease
    <3>1. x = q
      BY <2>1, <2>2, <2>6
    <3>2. request'[q].lease = request[q].lease
      BY <2>2
    <3>3. RequestCase(q) \in Cases
      BY <1>6 DEF Register, RequestsHoldLease
    <3> QED BY <2>2, <3>1, <3>2, <3>3
  <2> QED BY <2>3, <2>4, <2>5, <2>6
<1>7. ASSUME NEW q \in Requests, WriteRunning(q)
      PROVE  TruthInv'
  <2>0. /\ request[q].at = "write" /\ request[q].lease \in Leases
        /\ registered[RequestCase(q)] = request[q].lease
        /\ \A x \in Requests : request[x].at \in Launching => x = q
    BY <1>7 DEF WriteRunning, RequestsHoldLease
  <2>a. PICK l \in Leases : l = request[q].lease
    BY <2>0
  <2>b. PICK n \in Record : n = [state |-> "running", pid |-> l]
    OBVIOUS
  <2>1. /\ record' = [record EXCEPT ![CaseOf[l]] = n]
        /\ request' = [request EXCEPT ![q] = Idle]
        /\ UNCHANGED <<registered, process, poll>>
    BY <1>7, <2>a, <2>b DEF WriteRunning, Finish
  <2>3. NothingRecordedYet' /\ \A x \in Requests : request'[x].at # "write"
    BY <2>0, <2>1 DEF Idle
  <2>4. Truthful(CaseOf[l], n)' /\ SameLaunch(CaseOf[l], n)'
    BY <2>0, <2>a, <2>b, <2>1
  <2>5. ASSUME NEW c \in Cases, record'[c] \notin {Absent, Torn}
        PROVE  Truthful(c, record[c])' /\ SameLaunch(c, record[c])'
    <3>1. CASE c = CaseOf[l]
      <4>1. record'[c] = n
        BY <2>1, <3>1
      <4> QED BY <2>4, <3>1, <4>1
    <3>2. CASE c # CaseOf[l]
      BY <2>1, <2>5, <3>2
    <3> QED BY <3>1, <3>2
  <2>6. ASSUME NEW p \in Pollers, poll'[p].at # "idle"
        PROVE  Truthful(Polls[p], poll[p].seen)' /\ SameLaunch(Polls[p], poll[p].seen)'
    BY <2>1, <2>6
  <2> QED BY <2>3, <2>5, <2>6
<1>8. ASSUME NEW q \in Requests, Clear(q)
      PROVE  TruthInv'
  BY <1>8 DEF Clear, Finish, Idle
<1>9. ASSUME NEW q \in Requests, WriteFails(q)
      PROVE  TruthInv'
  BY <1>9 DEF WriteFails
<1>10. ASSUME NEW p \in Pollers, ReadState(p)
       PROVE  TruthInv'
  BY <1>10 DEF ReadState
<1>11. ASSUME NEW p \in Pollers, Observe(p)
       PROVE  TruthInv'
  <2> DEFINE c == Polls[p]
             seen == poll[p].seen
  <2>1. PICK s \in Observable(seen, registered[c]) :
          poll' = [poll EXCEPT ![p] = [at |-> "write",
                                       seen |-> [@.seen EXCEPT !.state = Timed(s, c)]]]
    BY <1>11 DEF Observe
  <2>2. seen \in Record /\ poll[p].at = "observe"
    BY <1>11 DEF Observe
  <2>3. Truthful(c, seen) /\ SameLaunch(c, seen)
    BY <1>11 DEF Observe
  <2>4. Timed(s, c) \in Exited => s \in Exited /\ Timed(s, c) = s
    BY DEF Timed
  <2>5. seen.state = "launch_failed" <=> s = "launch_failed"
    BY <2>1, <2>2 DEF Observable, ExitCode, Polled
  <2>6. s \in Exited => process[seen.pid] \in {"clean", "error"} /\ s = ExitState(seen.pid)
    BY <2>1, <2>2, <2>3, <2>5 DEF Observable, ExitCode, Polled
  <2>7. Timed(s, c) = "launch_failed" <=> s = "launch_failed"
    BY DEF Timed
  <2>8. poll'[p].seen = [seen EXCEPT !.state = Timed(s, c)]
    BY <2>1
  <2>9. /\ poll'[p].seen.pid = seen.pid /\ poll'[p].seen.state = Timed(s, c)
        /\ UNCHANGED <<registered, record, process, request>>
    BY <1>11, <2>2, <2>8 DEF Observe
  <2>10. Truthful(c, poll'[p].seen) /\ SameLaunch(c, poll'[p].seen)
    BY <2>3, <2>4, <2>5, <2>6, <2>7, <2>9
  <2>11. \A x \in Pollers : x # p => poll'[x] = poll[x]
    BY <2>1
  <2> QED
    BY <2>9, <2>10, <2>11
<1>12. ASSUME NEW p \in Pollers, WriteObserved(p)
       PROVE  TruthInv'
  <2>1. /\ record' = [record EXCEPT ![Polls[p]] = poll[p].seen]
        /\ UNCHANGED <<registered, process, request>>
        /\ poll[p].at = "write" /\ poll[p].seen \in Record
        /\ \A x \in Pollers : poll'[x].at # "idle" =>
              poll[x].at # "idle" /\ poll'[x].seen = poll[x].seen
    BY <1>12 DEF WriteObserved, Resting
  <2>2. NothingRecordedYet'
    BY <2>1
  <2>3. StatesTruthful'
    BY <2>1
  <2> QED
    BY <2>2, <2>3
<1>13. ASSUME NEW p \in Pollers, WriteObservedFails(p)
       PROVE  TruthInv'
  BY <1>13 DEF WriteObservedFails, Resting
<1>14. ASSUME NEW p \in Pollers, CloseWindow(p)
       PROVE  TruthInv'
  BY <1>14 DEF CloseWindow, Resting
<1>15. ASSUME NEW l \in Leases, Exit(l)
       PROVE  TruthInv'
  BY <1>15 DEF Exit
<1>16. ASSUME NEW c \in Cases, BecomeOverdue(c)
       PROVE  TruthInv'
  BY <1>16 DEF BecomeOverdue
<1>17. ASSUME NEW c \in Cases, Prepare(c)
       PROVE  TruthInv'
  BY <1>17 DEF Prepare
<1>18. ASSUME Restart
       PROVE  TruthInv'
  BY <1>18 DEF Restart, Idle, Resting
<1>19. ASSUME UNCHANGED vars
       PROVE  TruthInv'
  BY <1>19 DEF vars
<1> HIDE DEF TruthInv, WorkerInv
<1> QED
  BY <1>2, <1>3, <1>4, <1>5, <1>6, <1>7, <1>8, <1>9, <1>10, <1>11, <1>12, <1>13, <1>14,
     <1>15, <1>16, <1>17, <1>18, <1>19 DEF Next, ServeStep, PollStep

\* A recorded exit is one that happened, with the outcome it had, for any
\* number of overlapping polls, restarts and processes that take over a PID.
THEOREM RecordedExitsAreTrue ==
  ASSUME Patient
  PROVE  Spec => []RecordedExitHappened
<1>1. TruthInv => RecordedExitHappened
  BY DEF TruthInv, StatesTruthful, Truthful, RecordedExitHappened
<1> QED
  BY <1>1, TruthInvInductive, WorkerCorrect, PTL DEF Spec

=============================================================================
