--------------------------- MODULE DesktopWorker ---------------------------
(***************************************************************************)
(* The execution registry of the Desktop Worker, the process that launches *)
(* the uploaded sample in the interactive session of the instance          *)
(* (src/src/cloud_av_agent_lab/desktop_worker/execution.py).               *)
(*                                                                         *)
(* FastAPI serves POST /execute and GET /execution-status/{case} on a      *)
(* thread pool.  Only two short blocks hold the registry lock, so a        *)
(* request is the sequence of actions between which other threads run.     *)
(* The worker keeps the consumed nonces, the open execution window and the *)
(* Popen handles in memory, and one state file per case on disk; the       *)
(* launched processes belong to the operating system and survive it.       *)
(*                                                                         *)
(* A launched process is named by the lease it was launched with.          *)
(***************************************************************************)
EXTENDS Naturals, FiniteSets

CONSTANTS
  Cases,      \* the cases prepared on the instance
  Leases,     \* the execution leases the Guest Agent signs, one nonce each
  CaseOf,     \* the case a lease is bound to
  Requests,   \* threads that serve POST /execute
  Pollers,    \* threads that serve GET /execution-status
  Polls,      \* the case each of them is asked about
  Ends,       \* environment: how the sample launched with a lease ends, if it does
  Unwatched,  \* environment: cases whose controller lost the answer, or died
  Psutil,     \* psutil is installed
  Patient,    \* environment: a case is polled or prepared between its launches
  MaxFaults,  \* bound on failed writes, worker crashes and new preparations
  NoCase, NoLease, Absent, Torn

Exited == {"exited_cleanly", "exited_with_error"}
\* States in which _observe closes the window.
Closing == Exited \cup
  {"launch_failed", "terminated_or_disappeared", "timeout_still_running"}
States == Closing \cup {"running", "unknown"}

Record == [state: States, pid: Leases \cup {NoLease}]

ASSUME WorkerAssumption ==
  /\ CaseOf \in [Leases -> Cases]
  /\ Polls \in [Pollers -> Cases]
  /\ Ends \in [Leases -> {"clean", "error"}]
  /\ Unwatched \subseteq Cases
  /\ Psutil \in BOOLEAN
  /\ Patient \in BOOLEAN
  /\ MaxFaults \in Nat
  /\ NoCase \notin Cases
  /\ NoLease \notin Leases
  /\ Absent \notin Record /\ Torn \notin Record /\ Torn # Absent

VARIABLES
  consumed,    \* consumed_nonces
  active,      \* active_case_id
  registered,  \* processes: the Popen handle kept for a case
  record,      \* worker_execution_state.json of a case
  process,     \* what the operating system knows of a launched process
  request,     \* the /execute threads
  poll,        \* the /execution-status threads
  overdue,     \* cases whose controller now polls with mark_timeout
  faults,      \* failed writes, crashes and new preparations so far
  launches,    \* history: launches with a lease since the worker started
  runs,        \* history: launches of a case since it was prepared
  unrecorded   \* history: cases launched whose record could not be written

memory == <<consumed, active, registered>>
history == <<launches, runs, unrecorded>>
vars == <<consumed, active, registered, record, process, request, poll,
          overdue, faults, launches, runs, unrecorded>>

\* Between the reservation of the window and the end of the request.
Launching == {"popen", "register", "write", "fail_write", "clear"}

\* Of these, the ones of a launch that has not failed.
Starting == {"popen", "register", "write"}

TypeOK ==
  /\ consumed \subseteq Leases
  /\ active \in Cases \cup {NoCase}
  /\ registered \in [Cases -> Leases \cup {NoLease}]
  /\ record \in [Cases -> Record \cup {Absent, Torn}]
  /\ process \in [Leases -> {"none", "running", "clean", "error"}]
  /\ request \in [Requests -> [at: {"idle"} \cup Launching,
                               lease: Leases \cup {NoLease}]]
  /\ poll \in [Pollers -> [at: {"idle", "observe", "write", "clear"},
                               seen: Record \cup {Absent}]]
  /\ overdue \subseteq Cases
  /\ faults \in 0..MaxFaults
  /\ launches \in [Leases -> Nat]
  /\ runs \in [Cases -> Nat]
  /\ unrecorded \subseteq Cases

Idle == [at |-> "idle", lease |-> NoLease]
Resting == [at |-> "idle", seen |-> Absent]

Init ==
  /\ consumed = {}
  /\ active = NoCase
  /\ registered = [c \in Cases |-> NoLease]
  /\ record = [c \in Cases |-> Absent]
  /\ process = [l \in Leases |-> "none"]
  /\ request = [q \in Requests |-> Idle]
  /\ poll = [p \in Pollers |-> Resting]
  /\ overdue = {}
  /\ faults = 0
  /\ launches = [l \in Leases |-> 0]
  /\ runs = [c \in Cases |-> 0]
  /\ unrecorded = {}

RequestCase(q) == CaseOf[request[q].lease]
Serving(c) == {q \in Requests : request[q].at # "idle" /\ RequestCase(q) = c}
Polling(c) == {p \in Pollers : Polls[p] = c /\ poll[p].at # "idle"}

Goto(q, location) == request' = [request EXCEPT ![q].at = location]
Finish(q) == request' = [request EXCEPT ![q] = Idle]
Write(c, content) == record' = [record EXCEPT ![c] = content]

-----------------------------------------------------------------------------
(* WorkerExecutionRegistry.execute *)

AlreadyRecorded(c) == record[c] # Absent

\* Seeded bugs: the nonce, the state file or the window is not checked.
MayReserveReplay(l) == active = NoCase /\ ~AlreadyRecorded(CaseOf[l])
MayReserveAgain(l) == active = NoCase /\ l \notin consumed
MayReserveBusy(l) == ~AlreadyRecorded(CaseOf[l]) /\ l \notin consumed

\* A torn state file raises, which refuses the request as well.
MayReserve(l) ==
  /\ active = NoCase
  /\ ~AlreadyRecorded(CaseOf[l])
  /\ l \notin consumed

\* The payload, the sample on disk, the lease and the hash are verified, then
\* the locked block consumes the nonce and opens the window.  A request that
\* any of this refuses leaves no trace, so only the others are modelled (the
\* lease is presented within its sixty seconds).
Reserve(q, l) ==
  /\ request[q].at = "idle"
  /\ MayReserve(l)
  /\ consumed' = consumed \cup {l}
  /\ active' = CaseOf[l]
  /\ request' = [request EXCEPT ![q] = [at |-> "popen", lease |-> l]]
  /\ UNCHANGED <<registered, record, process, poll, overdue, faults, history>>

\* subprocess.Popen starts the sample ...
Popen(q) ==
  /\ request[q].at = "popen"
  /\ LET l == request[q].lease IN
     /\ process' = [process EXCEPT ![l] = "running"]
     /\ launches' = [launches EXCEPT ![l] = @ + 1]
     /\ runs' = [runs EXCEPT ![CaseOf[l]] = @ + 1]
  /\ Goto(q, "register")
  /\ UNCHANGED <<memory, record, poll, overdue, faults, unrecorded>>

\* ... or raises OSError (the security product blocked the start).
PopenFails(q) ==
  /\ request[q].at = "popen"
  /\ Goto(q, "fail_write")
  /\ UNCHANGED <<memory, record, process, poll, overdue, faults, history>>

WriteLaunchFailed(q) ==
  /\ request[q].at = "fail_write"
  /\ Write(RequestCase(q), [state |-> "launch_failed", pid |-> NoLease])
  /\ Goto(q, "clear")
  /\ UNCHANGED <<memory, process, poll, overdue, faults, history>>

\* The second locked block: keep the Popen handle.
Register(q) ==
  /\ request[q].at = "register"
  /\ registered' = [registered EXCEPT ![RequestCase(q)] = request[q].lease]
  /\ Goto(q, "write")
  /\ UNCHANGED <<consumed, active, record, process, poll, overdue, faults, history>>

WriteRunning(q) ==
  /\ request[q].at = "write"
  /\ Write(RequestCase(q), [state |-> "running", pid |-> request[q].lease])
  /\ overdue' = overdue \ {RequestCase(q)}
  /\ Finish(q)
  /\ UNCHANGED <<memory, process, poll, faults, history>>

\* _write_worker_state raises OSError; the except clause will close the window.
WriteFails(q) ==
  /\ request[q].at \in {"write", "fail_write"}
  /\ faults < MaxFaults
  /\ faults' = faults + 1
  /\ unrecorded' = IF request[q].at = "write"
                   THEN unrecorded \cup {RequestCase(q)} ELSE unrecorded
  /\ Goto(q, "clear")
  /\ UNCHANGED <<memory, record, process, poll, overdue, launches, runs>>

\* except BaseException: active_case_id = "", whatever case is in the window.
Clear(q) ==
  /\ request[q].at = "clear"
  /\ active' = NoCase
  /\ Finish(q)
  /\ UNCHANGED <<consumed, registered, record, process, poll, overdue, faults, history>>

-----------------------------------------------------------------------------
(* WorkerExecutionRegistry.execution_status *)

\* Without a state file the answer is "not_started"; a torn one raises.  In
\* both cases nothing changes, so only a readable file is worth an action.
ReadState(p) ==
  /\ poll[p].at = "idle"
  /\ record[Polls[p]] \notin {Absent, Torn}
  /\ Patient => Serving(Polls[p]) = {}
  /\ poll' = [poll EXCEPT ![p] = [at |-> "observe", seen |-> record[Polls[p]]]]
  /\ UNCHANGED <<memory, record, process, request, overdue, faults, history>>

ExitState(l) == IF process[l] = "clean" THEN "exited_cleanly" ELSE "exited_with_error"

\* What Popen.poll() says of the handle: no exit code while the process runs,
\* and none either when the call fails.
Polled(handle) ==
  {"none"} \cup IF handle # NoLease /\ process[handle] \in {"clean", "error"}
              THEN {ExitState(handle)} ELSE {}

\* What psutil says of the PID: no process (or an OSError), a process, or a
\* process with children that run.  After the sample has ended another process
\* may have its PID, so the answer tells nothing of the sample.
Snapshots ==
  IF Psutil
  THEN {{"available"}, {"available", "exists"}, {"available", "exists", "children"}}
  ELSE {{}}

\* The exit code that an earlier poll wrote to the file stands in for a handle.
ExitCode(seen, polled) ==
  IF polled = "none" /\ seen.state \in Exited THEN seen.state ELSE polled

\* Seeded bug: a process that is gone counts as one that exited cleanly.
ObservableGuesses(seen, handle) ==
  IF seen.state = "launch_failed" THEN {seen.state}
  ELSE { IF ExitCode(seen, polled) # "none" /\ "children" \notin found
           THEN ExitCode(seen, polled)
         ELSE IF (handle # NoLease /\ polled = "none") \/ "exists" \in found THEN "running"
         ELSE "exited_cleanly" : polled \in Polled(handle), found \in Snapshots }

\* The state _observe derives from the file it read, the Popen handle and the
\* snapshot.  Children that run, the sample's or a stranger's, make a recorded
\* exit "running" again and its exit code None.
Observable(seen, handle) ==
  IF seen.state = "launch_failed" THEN {seen.state}
  ELSE { IF ExitCode(seen, polled) # "none" /\ "children" \notin found
           THEN ExitCode(seen, polled)
         ELSE IF (handle # NoLease /\ polled = "none") \/ "exists" \in found THEN "running"
         ELSE IF "available" \in found THEN "terminated_or_disappeared"
         ELSE "unknown" : polled \in Polled(handle), found \in Snapshots }

Timed(state, c) ==
  IF state = "running" /\ c \in overdue THEN "timeout_still_running" ELSE state

Observe(p) ==
  /\ poll[p].at = "observe"
  /\ LET c == Polls[p] IN
     \E s \in Observable(poll[p].seen, registered[c]) :
       poll' = [poll EXCEPT ![p] = [at |-> "write",
                                    seen |-> [@.seen EXCEPT !.state = Timed(s, c)]]]
  /\ UNCHANGED <<memory, record, process, request, overdue, faults, history>>

\* The whole file is written again, whatever another thread wrote meanwhile.
WriteObserved(p) ==
  /\ poll[p].at = "write"
  /\ Write(Polls[p], poll[p].seen)
  /\ poll' = [poll EXCEPT ![p] =
       IF @.seen.state \in Closing THEN [@ EXCEPT !.at = "clear"] ELSE Resting]
  /\ UNCHANGED <<memory, process, request, overdue, faults, history>>

WriteObservedFails(p) ==
  /\ poll[p].at = "write"
  /\ faults < MaxFaults
  /\ faults' = faults + 1
  /\ poll' = [poll EXCEPT ![p] = Resting]
  /\ UNCHANGED <<memory, record, process, request, overdue, history>>

\* Seeded bug: a timed-out execution keeps the window.
CloseWindowUnlessTimeout(p) ==
  /\ poll[p].at = "clear"
  /\ registered' = [registered EXCEPT ![Polls[p]] = NoLease]
  /\ active' = IF active = Polls[p]
                  /\ poll[p].seen.state # "timeout_still_running"
               THEN NoCase ELSE active
  /\ poll' = [poll EXCEPT ![p] = Resting]
  /\ UNCHANGED <<consumed, record, process, request, overdue, faults, history>>

\* Seeded bug: the window is closed whatever case is in it.
CloseWindowAny(p) ==
  /\ poll[p].at = "clear"
  /\ registered' = [registered EXCEPT ![Polls[p]] = NoLease]
  /\ active' = NoCase
  /\ poll' = [poll EXCEPT ![p] = Resting]
  /\ UNCHANGED <<consumed, record, process, request, overdue, faults, history>>

\* The last locked block: forget the handle and close the case's own window.
CloseWindow(p) ==
  /\ poll[p].at = "clear"
  /\ registered' = [registered EXCEPT ![Polls[p]] = NoLease]
  /\ active' = IF active = Polls[p] THEN NoCase ELSE active
  /\ poll' = [poll EXCEPT ![p] = Resting]
  /\ UNCHANGED <<consumed, record, process, request, overdue, faults, history>>

-----------------------------------------------------------------------------
(* The surroundings of the registry *)

Exit(l) ==
  /\ process[l] = "running"
  /\ process' = [process EXCEPT ![l] = Ends[l]]
  /\ UNCHANGED <<memory, record, request, poll, overdue, faults, history>>

\* The controller's execution timeout passes; its polls carry mark_timeout.
BecomeOverdue(c) ==
  /\ c \notin overdue \cup Unwatched
  /\ record[c] \notin {Absent, Torn}
  /\ record[c].state = "running"
  /\ overdue' = overdue \cup {c}
  /\ UNCHANGED <<memory, record, process, request, poll, faults, history>>

\* prepare-case deletes the workspace of the case, its state file included,
\* and the sample is uploaded again.
Prepare(c) ==
  /\ record[c] # Absent
  /\ Patient => active # c /\ Serving(c) = {} /\ Polling(c) = {}
  /\ faults < MaxFaults
  /\ faults' = faults + 1
  /\ Write(c, Absent)
  /\ overdue' = overdue \ {c}
  /\ runs' = [runs EXCEPT ![c] = 0]
  /\ UNCHANGED <<memory, process, request, poll, launches, unrecorded>>

BeingWritten ==
  {RequestCase(q) : q \in {x \in Requests : request[x].at \in {"write", "fail_write"}}}
    \cup {Polls[p] : p \in {x \in Pollers : poll[x].at = "write"}}
LaunchedUnwritten ==
  {RequestCase(q) : q \in {x \in Requests : request[x].at \in {"register", "write"}}}

\* The worker dies, possibly in the middle of a write, and is started again:
\* its memory and its threads are gone, the files and processes are not.
Restart ==
  /\ faults < MaxFaults
  /\ faults' = faults + 1
  /\ consumed' = {}
  /\ active' = NoCase
  /\ registered' = [c \in Cases |-> NoLease]
  /\ request' = [q \in Requests |-> Idle]
  /\ poll' = [p \in Pollers |-> Resting]
  /\ \E broken \in SUBSET BeingWritten :
       record' = [c \in Cases |-> IF c \in broken THEN Torn ELSE record[c]]
  /\ launches' = [l \in Leases |-> 0]
  /\ unrecorded' = unrecorded \cup LaunchedUnwritten
  /\ UNCHANGED <<process, overdue, runs>>

ServeStep(q) ==
  \/ Popen(q) \/ PopenFails(q) \/ WriteLaunchFailed(q)
  \/ Register(q) \/ WriteRunning(q) \/ Clear(q)

PollStep(p) == ReadState(p) \/ Observe(p) \/ WriteObserved(p) \/ CloseWindow(p)

Next ==
  \/ \E q \in Requests :
       ServeStep(q) \/ WriteFails(q) \/ \E l \in Leases : Reserve(q, l)
  \/ \E p \in Pollers : PollStep(p) \/ WriteObservedFails(p)
  \/ \E l \in Leases : Exit(l)
  \/ \E c \in Cases : BecomeOverdue(c) \/ Prepare(c)
  \/ Restart

Spec == Init /\ [][Next]_vars

\* A poll in flight goes on; new ones come from a controller that polls.
KeepPolling(p) ==
  /\ PollStep(p)
  /\ poll[p].at = "idle" => Polls[p] \notin Unwatched

\* Threads that can go on go on; a controller that got the answer to its
\* request and lives keeps polling, and its execution timeout passes.  Without
\* the answer single-run takes the case for not started and never polls it.
\* Nothing is promised of the sample.
FairSpec ==
  /\ Spec
  /\ \A q \in Requests : WF_vars(ServeStep(q))
  /\ \A p \in Pollers : WF_vars(KeepPolling(p))
  /\ \A c \in Cases : WF_vars(BecomeOverdue(c))

-----------------------------------------------------------------------------
(* Properties *)

\* The "single active execution window" of the registry's docstring: no two
\* samples are being launched, from reservation to recorded launch, at a time.
SingleWindow ==
  \A q, x \in Requests :
    request[q].at \in Starting /\ request[x].at \in Starting => x = q

\* As long as a case is known to run (launched, not timed out, handle kept) no
\* other case can be launched.
RunningHoldsWindow ==
  \A c \in Cases :
    registered[c] # NoLease /\ c \notin unrecorded => active = c

\* A lease launches at most one process in the life of the worker, even when
\* the same request is delivered twice or the case is prepared again.
LeaseLaunchesOnce == \A l \in Leases : launches[l] <= 1

\* single_execution_only: a prepared case is launched at most once, whatever
\* leases are signed for it, unless its launch could not be recorded.
CaseLaunchesOnce == \A c \in Cases \ unrecorded : runs[c] <= 1

\* An exit that the state file reports has happened, and with that outcome,
\* whichever polls overlapped, whatever process has the PID by now and however
\* often the worker was restarted: a poll that knows neither handle nor exit
\* code never makes one up.  (The converse fails: a recorded exit can be lost
\* again, to a poll that read the file earlier or to a stranger's children.)
RecordedExitHappened ==
  \A c \in Cases :
    record[c] \notin {Absent, Torn} /\ record[c].state \in Exited =>
      /\ process[record[c].pid] \in {"clean", "error"}
      /\ record[c].state = ExitState(record[c].pid)

\* The window never stays shut for ever on a case that a controller polls: the
\* launch fails, or the sample ends or times out.  Only a launch that nobody
\* asks after, its answer lost or its controller dead, holds the window.
WindowReopens == active # NoCase ~> (active = NoCase \/ active \in Unwatched)

-----------------------------------------------------------------------------
(* Inductive invariant behind SingleWindow, LeaseLaunchesOnce and          *)
(* CaseLaunchesOnce, in a patient environment.                              *)

LauncherOwnsWindow ==
  \A q, x \in Requests :
    request[q].at \in Launching =>
      /\ active = RequestCase(q)
      /\ request[x].at \in Launching => x = q

RequestsHoldLease ==
  \A q \in Requests : request[q].at \in Launching => request[q].lease \in consumed

\* A poll in flight read a state file, so its case cannot be reserved.
PollsBetweenLaunches ==
  \A p \in Pollers :
    poll[p].at # "idle" =>
      /\ poll[p].seen \in Record
      /\ record[Polls[p]] # Absent
      /\ Serving(Polls[p]) = {}

NonceGuardsLaunch ==
  /\ \A l \in Leases \ consumed : launches[l] = 0
  /\ \A q \in Requests : request[q].at = "popen" => launches[request[q].lease] = 0

LaunchedWriting(c) ==
  \E q \in Requests : request[q].at \in {"register", "write"} /\ RequestCase(q) = c

RecordGuardsCase ==
  /\ \A c \in Cases \ unrecorded :
       runs[c] > 0 => record[c] # Absent \/ LaunchedWriting(c)
  /\ \A q \in Requests :
       request[q].at \in {"popen", "fail_write"} /\ RequestCase(q) \notin unrecorded =>
         runs[RequestCase(q)] = 0

WorkerInv ==
  /\ TypeOK
  /\ LauncherOwnsWindow
  /\ LeaseLaunchesOnce
  /\ CaseLaunchesOnce
  /\ RequestsHoldLease
  /\ PollsBetweenLaunches
  /\ NonceGuardsLaunch
  /\ RecordGuardsCase

=============================================================================
