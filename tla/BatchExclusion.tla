--------------------------- MODULE BatchExclusion ---------------------------
(***************************************************************************)
(* Several controller processes, each executing a batch, and the preflight *)
(* check that keeps two batches off one instance:                          *)
(* _check_instance_lock_available in                                       *)
(* src/src/cloud_av_agent_lab/orchestration/multi_run.py, in the order in  *)
(* which execute_multi_run_batch writes its own state file and reads those *)
(* of its siblings.  What an execution does with its cases is module       *)
(* MultiRun; the locks of its cases are module InstanceUse.                *)
(***************************************************************************)
EXTENDS FiniteSets

CONSTANTS
  Procs,        \* controller processes
  Batches,      \* batch directories under one output root
  Instances,    \* Lighthouse instances
  BatchOf,      \* the batch a process executes
  InstanceOf    \* the instance_id of a batch

ASSUME BatchAssumption ==
  /\ BatchOf \in [Procs -> Batches]
  /\ InstanceOf \in [Batches -> Instances]

\* batch_state as the check tells them apart: "over" is any state that is
\* neither "running" nor "stopping" (which no code writes).
States == {"absent", "running", "over"}

VARIABLES
  state,    \* the batch_state in each batch's multi_run_state.json
  pc,       \* "idle", "listing" and "reading" (the check), "executing"
  unread,   \* the siblings the check has still to read
  missed,   \* the siblings it could not read
  busy      \* the check saw a running sibling

vars == <<state, pc, unread, missed, busy>>

TypeOK ==
  /\ state \in [Batches -> States]
  /\ pc \in [Procs -> {"idle", "listing", "reading", "executing"}]
  /\ unread \in [Procs -> SUBSET Batches]
  /\ missed \in [Procs -> SUBSET Batches]
  /\ busy \in [Procs -> BOOLEAN]

Init ==
  /\ state = [b \in Batches |-> "absent"]
  /\ pc = [p \in Procs |-> "idle"]
  /\ unread = [p \in Procs |-> {}]
  /\ missed = [p \in Procs |-> {}]
  /\ busy = [p \in Procs |-> FALSE]

\* The process ends and forgets what it read.
End(p) ==
  /\ pc' = [pc EXCEPT ![p] = "idle"]
  /\ unread' = [unread EXCEPT ![p] = {}]
  /\ missed' = [missed EXCEPT ![p] = {}]
  /\ busy' = [busy EXCEPT ![p] = FALSE]

Own(p) == BatchOf[p]

\* Seeded bug: the state file says "running" only when preflight has passed.
OpenQuietly(p) ==
  /\ pc[p] = "idle"
  /\ state' = [state EXCEPT ![Own(p)] = "over"]
  /\ pc' = [pc EXCEPT ![p] = "listing"]
  /\ UNCHANGED <<unread, missed, busy>>

\* The state file says "running" before preflight looks at any sibling.
Open(p) ==
  /\ pc[p] = "idle"
  /\ state' = [state EXCEPT ![Own(p)] = "running"]
  /\ pc' = [pc EXCEPT ![p] = "listing"]
  /\ UNCHANGED <<unread, missed, busy>>

\* The directories that hold a state file now; one that appears later is not
\* listed.  The batch skips its own.
List(p) ==
  /\ pc[p] = "listing"
  /\ unread' = [unread EXCEPT ![p] = {b \in Batches : state[b] # "absent"} \ {Own(p)}]
  /\ pc' = [pc EXCEPT ![p] = "reading"]
  /\ UNCHANGED <<state, missed, busy>>

\* One sibling's file is read, at a moment of its own.
Read(p, b) ==
  /\ pc[p] = "reading"
  /\ b \in unread[p]
  /\ unread' = [unread EXCEPT ![p] = @ \ {b}]
  /\ busy' = [busy EXCEPT ![p] = @ \/ (/\ InstanceOf[b] = InstanceOf[Own(p)]
                                       /\ state[b] = "running")]
  /\ UNCHANGED <<state, pc, missed>>

\* A sibling's file that cannot be read (OSError) is passed over.
PassOver(p, b) ==
  /\ pc[p] = "reading"
  /\ b \in unread[p]
  /\ unread' = [unread EXCEPT ![p] = @ \ {b}]
  /\ missed' = [missed EXCEPT ![p] = @ \cup {b}]
  /\ UNCHANGED <<state, pc, busy>>

Pass(p) ==
  /\ pc[p] = "reading" /\ unread[p] = {} /\ ~busy[p]
  /\ pc' = [pc EXCEPT ![p] = "executing"]
  /\ UNCHANGED <<state, unread, missed, busy>>

\* This check or any other of preflight fails: nothing is executed.
Refuse(p) ==
  /\ pc[p] = "reading" /\ unread[p] = {}
  /\ state' = [state EXCEPT ![Own(p)] = "over"]
  /\ End(p)

\* The batch ends, by itself or on a failure it handles.
Finish(p) ==
  /\ pc[p] = "executing"
  /\ state' = [state EXCEPT ![Own(p)] = "over"]
  /\ End(p)

\* The controller dies; its batch keeps saying "running".
Crash(p) ==
  /\ pc[p] # "idle"
  /\ End(p)
  /\ UNCHANGED state

Next ==
  \E p \in Procs :
    \/ Open(p) \/ List(p) \/ (\E b \in Batches : Read(p, b) \/ PassOver(p, b))
    \/ Pass(p)
    \/ Refuse(p) \/ Finish(p) \/ Crash(p)

Spec == Init /\ [][Next]_vars

-----------------------------------------------------------------------------
(* Properties *)

Executing == {p \in Procs : pc[p] = "executing"}

Missed(p, q) == Own(q) \in missed[p]

\* Two processes that execute different batches never use one instance at the
\* same time, however their writes and reads of the state files interleave,
\* unless one of them could not read the other's file.
BatchesExclude ==
  \A p, q \in Executing :
    Own(p) # Own(q) /\ ~Missed(p, q) /\ ~Missed(q, p) =>
      InstanceOf[Own(p)] # InstanceOf[Own(q)]

\* The reason, when each batch has one process: a process that lives says so
\* in its state file, and of two that passed each other's files at least one
\* knows of the other, has still to read of it, or could not.
OneProcessPerBatch == \A p, q \in Procs : p # q => Own(p) # Own(q)

Rivals(p, q) == p # q /\ InstanceOf[Own(p)] = InstanceOf[Own(q)]

Past(p) == pc[p] \in {"reading", "executing"}
Knows(p, q) == pc[p] = "reading" /\ (busy[p] \/ Own(q) \in unread[p])

ExclusionInv ==
  /\ TypeOK
  /\ \A p \in Procs : pc[p] # "idle" => state[Own(p)] = "running"
  /\ \A p, q \in Procs :
       Rivals(p, q) /\ Past(p) /\ Past(q) =>
         Knows(p, q) \/ Knows(q, p) \/ Missed(p, q) \/ Missed(q, p)

=============================================================================
