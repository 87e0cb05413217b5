---------------------------- MODULE InstanceUse ----------------------------
(***************************************************************************)
(* Who tests an instance: the batches of module BatchExclusion, now with   *)
(* the cases they run, and standalone `single-run` processes.  Both end in *)
(* run_single_case                                                         *)
(* (src/src/cloud_av_agent_lab/orchestration/single_run.py), which takes   *)
(* the lock file <runs_dir>/.locks/<instance_id>.lock.  A standalone run   *)
(* has the operator's runs_dir; RealSingleRunRunner passes the directory   *)
(* of the case's attempt, so a batch looks for its lock there.             *)
(*                                                                         *)
(* Taking a lock is one step here; the steps inside acquire_lock, and the  *)
(* ageing of a lock, are module InstanceLock; here it has no breaches.     *)
(***************************************************************************)
EXTENDS BatchExclusion, Naturals

CONSTANTS
  Singles,       \* standalone single-run processes
  SingleOn,      \* the instance each of them tests
  Cases,         \* indexes of the selected cases of a batch
  MaxAttempts,   \* bound on the attempts at a case
  RunsDir,       \* their --runs-dir
  NoRun          \* no run in progress

\* Where a lock file lies: the operator's runs directory or an attempt's.
Dirs == [batch: Batches, case: Cases, attempt: 1..MaxAttempts]
LockFiles == [dir: {RunsDir} \cup Dirs, instance: Instances]

ASSUME UseAssumption ==
  /\ Singles \cap Procs = {}
  /\ SingleOn \in [Singles -> Instances]
  /\ Cases \subseteq Nat
  /\ MaxAttempts \in Nat
  /\ RunsDir \notin Dirs
  /\ NoRun \notin LockFiles

VARIABLES
  held,     \* the lock files that exist
  run,      \* the lock file of the run a process has in progress
  saved,    \* attempts at each case, in the batch's state file
  mine,     \* the same, in the controller's memory
  todo      \* the cases the controller has still to run

useVars == <<vars, held, run, saved, mine, todo>>

UseTypeOK ==
  /\ held \subseteq LockFiles
  /\ run \in [Procs \cup Singles -> LockFiles \cup {NoRun}]
  /\ saved \in [Batches -> [Cases -> 0..MaxAttempts]]
  /\ mine \in [Procs -> [Cases -> 0..MaxAttempts]]
  /\ todo \in [Procs -> SUBSET Cases]

UseInit ==
  /\ Init
  /\ held = {}
  /\ run = [x \in Procs \cup Singles |-> NoRun]
  /\ saved = [b \in Batches |-> [c \in Cases |-> 0]]
  /\ mine = [p \in Procs |-> [c \in Cases |-> 0]]
  /\ todo = [p \in Procs |-> {}]

-----------------------------------------------------------------------------
(* A batch *)

\* The controller loads or creates the batch's state and settles which cases
\* this execution runs: all, the incomplete ones, or the failed ones.
Start(p) ==
  /\ Open(p)
  /\ mine' = [mine EXCEPT ![p] = saved[Own(p)]]
  /\ \E cs \in SUBSET Cases :
       /\ \A c \in Cases : saved[Own(p)][c] = 0 => c \in cs
       /\ todo' = [todo EXCEPT ![p] = cs]
  /\ UNCHANGED <<held, run, saved>>

\* The steps of preflight.
Check(p) ==
  /\ \/ List(p)
     \/ \E b \in Batches : Read(p, b) \/ PassOver(p, b)
     \/ Pass(p)
     \/ Refuse(p)
  /\ UNCHANGED <<held, run, saved, mine, todo>>

\* The lock file of the next attempt at a case.
LockOf(p, c) ==
  [dir |-> [batch |-> Own(p), case |-> c, attempt |-> mine[p][c] + 1],
   instance |-> InstanceOf[Own(p)]]

\* The cases are run one after the other, in the order of their indexes.
Due(p, c) ==
  /\ pc[p] = "executing" /\ run[p] = NoRun
  /\ c \in todo[p] /\ \A d \in todo[p] : c <= d
  /\ mine[p][c] < MaxAttempts

\* The attempt is recorded: the whole state file is written from memory.
Record(p, c) ==
  LET now == [mine[p] EXCEPT ![c] = @ + 1]
  IN  /\ mine' = [mine EXCEPT ![p] = now]
      /\ saved' = [saved EXCEPT ![Own(p)] = now]
      /\ todo' = [todo EXCEPT ![p] = @ \ {c}]

BeginCase(p, c) ==
  /\ Due(p, c)
  /\ LockOf(p, c) \notin held
  /\ held' = held \cup {LockOf(p, c)}
  /\ run' = [run EXCEPT ![p] = LockOf(p, c)]
  /\ UNCHANGED <<vars, saved, mine, todo>>

\* The lock is another's: the runner reports a failed case and the batch goes on.
CaseLocked(p, c) ==
  /\ Due(p, c)
  /\ LockOf(p, c) \in held
  /\ Record(p, c)
  /\ UNCHANGED <<vars, held, run>>

\* The run ends, well or badly; its lock file is unlinked if it is still there.
EndCase(p) ==
  /\ run[p] # NoRun
  /\ Record(p, run[p].dir.case)
  /\ held' = held \ {run[p]}
  /\ run' = [run EXCEPT ![p] = NoRun]
  /\ UNCHANGED vars

EndBatch(p) ==
  /\ run[p] = NoRun
  /\ Finish(p)
  /\ UNCHANGED <<held, run, saved, mine, todo>>

\* The controller dies.  A lock file it held stays.
Die(p) ==
  /\ Crash(p)
  /\ run' = [run EXCEPT ![p] = NoRun]
  /\ UNCHANGED <<held, saved, mine, todo>>

-----------------------------------------------------------------------------
(* A standalone run *)

SingleLock(s) == [dir |-> RunsDir, instance |-> SingleOn[s]]

\* A run that finds the lock file ends with an error.
BeginSingle(s) ==
  /\ run[s] = NoRun
  /\ SingleLock(s) \notin held
  /\ held' = held \cup {SingleLock(s)}
  /\ run' = [run EXCEPT ![s] = SingleLock(s)]
  /\ UNCHANGED <<vars, saved, mine, todo>>

EndSingle(s) ==
  /\ run[s] # NoRun
  /\ held' = held \ {run[s]}
  /\ run' = [run EXCEPT ![s] = NoRun]
  /\ UNCHANGED <<vars, saved, mine, todo>>

SingleDies(s) ==
  /\ run[s] # NoRun
  /\ run' = [run EXCEPT ![s] = NoRun]
  /\ UNCHANGED <<vars, held, saved, mine, todo>>

\* The lock of a run that died expires, and the next one archives it.
Expire(f) ==
  /\ f \in held
  /\ \A x \in Procs \cup Singles : run[x] # f
  /\ held' = held \ {f}
  /\ UNCHANGED <<vars, run, saved, mine, todo>>

UseNext ==
  \/ \E p \in Procs :
       \/ Start(p) \/ Check(p) \/ EndCase(p) \/ EndBatch(p) \/ Die(p)
       \/ \E c \in Cases : BeginCase(p, c) \/ CaseLocked(p, c)
  \/ \E s \in Singles : BeginSingle(s) \/ EndSingle(s) \/ SingleDies(s)
  \/ \E f \in held : Expire(f)

UseSpec == UseInit /\ [][UseNext]_useVars

-----------------------------------------------------------------------------
(* Properties *)

Running == {x \in Procs \cup Singles : run[x] # NoRun}

\* What the repository says of the lock: two runs never test one instance at
\* the same time.  It does not hold: a batch's lock file lies in the directory
\* of the attempt, where neither a standalone run nor a second controller of
\* the same batch that is at another case looks for it.
OneRunPerInstance ==
  \A x, y \in Running : x # y => run[x].instance # run[y].instance

=============================================================================
