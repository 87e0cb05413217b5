---------------------------- MODULE InstanceLock ----------------------------
(***************************************************************************)
(* The advisory lock file that `single-run` takes on a Lighthouse instance *)
(* (src/src/cloud_av_agent_lab/orchestration/locks.py), together with the  *)
(* way run_single_case uses it.                                            *)
(*                                                                         *)
(* Every member of Runs is one controller process.  A run looks for the    *)
(* lock file, reads it, archives it when it is expired, stale or the       *)
(* operator forces it, writes its own, refreshes it before the steps of    *)
(* the case, runs the final cleanup without refreshing it, and unlinks it. *)
(* Each of those file operations is one action: other runs may act between *)
(* any two of them.                                                        *)
(*                                                                         *)
(* Nothing keeps two runs from acquiring the lock at the same time, and    *)
(* nothing keeps a live run's lock from lapsing: the cleanup of a case     *)
(* takes as long as the cloud does.  The history variable breaches counts  *)
(* these events; no action reads it.                                       *)
(*                                                                         *)
(* Time is the age of the timestamps in the lock payload, in units of an   *)
(* arbitrary length, and saturates at the two limits of the code, so no    *)
(* clock bound is needed.                                                  *)
(***************************************************************************)
EXTENDS Naturals, FiniteSets

CONSTANTS
  Runs,        \* the controller processes that may test the instance
  Ttl,         \* lock_ttl_seconds: lifetime of a lock file
  Stale,       \* lock_heartbeat_stale_seconds
  Forced,      \* the runs the operator may start with --force-unlock
  MaxCrashes,  \* bound on controller crashes
  NoLock       \* the lock file does not exist

ASSUME LockAssumption ==
  /\ IsFiniteSet(Runs)
  /\ Ttl \in Nat \ {0}
  /\ Stale \in Nat \ {0}
  /\ Forced \subseteq Runs
  /\ MaxCrashes \in Nat
  /\ NoLock \notin [owner: Runs, left: 0..Ttl, age: 0..Stale]

VARIABLES
  file,     \* the lock file: NoLock or its owner, remaining life and heartbeat age
  at,       \* where each run is
  left,     \* remaining life of the payload a run keeps in memory
  crashes,  \* controller crashes so far
  breaches  \* history: how often the lock was opened to one more run, see below

lockVars == <<file, at, left, crashes, breaches>>

Payload == [owner: Runs, left: 0..Ttl, age: 0..Stale]

\* Between lock_path.exists() and the write of the new payload.
Acquiring == {"read", "archive", "write"}
\* Between acquire_lock() returning and the end of lock.release().
Holding == {"run", "cleanup", "release", "unlink"}

Locations == {"idle", "ended"} \cup Acquiring \cup Holding

LockTypeOK ==
  /\ file \in Payload \cup {NoLock}
  /\ at \in [Runs -> Locations]
  /\ left \in [Runs -> 0..Ttl]
  /\ crashes \in 0..MaxCrashes
  /\ breaches \in 0..Cardinality(Runs)

LockInit ==
  /\ file = NoLock
  /\ at = [r \in Runs |-> "idle"]
  /\ left = [r \in Runs |-> 0]
  /\ crashes = 0
  /\ breaches = 0

-----------------------------------------------------------------------------
(* acquire_lock *)

IsExpired(payload) == payload.left = 0

\* Seeded bugs: a heartbeat counts as stale one unit early, or a lock is never
\* taken over.
HeartbeatIsStaleEarly(payload) == payload.age + 1 >= Stale
TakeableNever(payload) == FALSE

HeartbeatIsStale(payload) == payload.age = Stale
Takeable(payload) == IsExpired(payload) \/ HeartbeatIsStale(payload)

\* A breach: while the run that wrote the lock file is alive, another decides
\* to take the file over because a limit has passed or the operator says so;
\* or a run writes the file while another has decided to do the same.  More
\* breaches than there are runs are not told apart.
Lapsed(payload) == payload.left = 0 \/ payload.age = Stale
Breach(here) ==
  breaches' = IF here /\ breaches < Cardinality(Runs) THEN breaches + 1 ELSE breaches

Decided(r) == at[r] \in {"archive", "write"}
LiveLock == file # NoLock /\ at[file.owner] \in Holding

\* lock_path.exists()
LookForLock(r) ==
  /\ at[r] = "idle"
  /\ at' = [at EXCEPT ![r] = IF file = NoLock THEN "write" ELSE "read"]
  /\ UNCHANGED <<file, left, crashes, breaches>>

\* Seeded bug: a refused run still goes through lock.release().
ReadLockReleases(r) ==
  /\ at[r] = "read"
  /\ \E force \in BOOLEAN :
       /\ force => r \in Forced
       /\ at' = [at EXCEPT ![r] =
                  IF force \/ (file # NoLock /\ Takeable(file))
                  THEN "archive" ELSE "release"]
       /\ Breach(LiveLock /\ (force \/ Lapsed(file)))
  /\ UNCHANGED <<file, left, crashes>>

\* An existing lock is archived when it may be taken over; otherwise, or when
\* it vanished before it was read (an empty payload is neither expired nor
\* stale), InstanceLockedError ends the run.
ReadLock(r) ==
  /\ at[r] = "read"
  /\ \E force \in BOOLEAN :
       /\ force => r \in Forced
       /\ at' = [at EXCEPT ![r] =
                  IF force \/ (file # NoLock /\ Takeable(file))
                  THEN "archive" ELSE "ended"]
       /\ Breach(LiveLock /\ (force \/ Lapsed(file)))
  /\ UNCHANGED <<file, left, crashes>>

\* path.replace(archive_path): whatever is there now is moved away, and a
\* missing file raises.
ArchiveLock(r) ==
  /\ at[r] = "archive"
  /\ file' = NoLock
  /\ at' = [at EXCEPT ![r] = IF file = NoLock THEN "ended" ELSE "write"]
  /\ UNCHANGED <<left, crashes, breaches>>

\* The new payload replaces whatever is at the path.
WriteLock(r) ==
  /\ at[r] = "write"
  /\ file' = [owner |-> r, left |-> Ttl, age |-> 0]
  /\ left' = [left EXCEPT ![r] = Ttl]
  /\ at' = [at EXCEPT ![r] = "run"]
  /\ Breach(\E q \in Runs \ {r} : Decided(q))
  /\ UNCHANGED crashes

\* temp_path.replace(path) failed three times.
WriteLockFails(r) ==
  /\ at[r] = "write"
  /\ at' = [at EXCEPT ![r] = "ended"]
  /\ UNCHANGED <<file, left, crashes, breaches>>

-----------------------------------------------------------------------------
(* The locked part of the run *)

\* lock.heartbeat(): the payload of this run, with its own expiry and a fresh
\* heartbeat, replaces whatever is at the path.
Heartbeat(r) ==
  /\ at[r] = "run"
  /\ file' = [owner |-> r, left |-> left[r], age |-> 0]
  /\ UNCHANGED <<at, left, crashes, breaches>>

\* The case ended, normally or by an exception (a failed heartbeat included):
\* the finally block cleans the instance up and sends no heartbeat.
BeginCleanup(r) ==
  /\ at[r] = "run"
  /\ at' = [at EXCEPT ![r] = "cleanup"]
  /\ UNCHANGED <<file, left, crashes, breaches>>

EndCleanup(r) ==
  /\ at[r] = "cleanup"
  /\ at' = [at EXCEPT ![r] = "release"]
  /\ UNCHANGED <<file, left, crashes, breaches>>

\* release(): self.path.exists()
ReleaseCheck(r) ==
  /\ at[r] = "release"
  /\ at' = [at EXCEPT ![r] = IF file = NoLock THEN "ended" ELSE "unlink"]
  /\ UNCHANGED <<file, left, crashes, breaches>>

\* release(): self.path.unlink(), which removes the file whoever wrote it.
ReleaseUnlink(r) ==
  /\ at[r] = "unlink"
  /\ file' = NoLock
  /\ at' = [at EXCEPT ![r] = "ended"]
  /\ UNCHANGED <<left, crashes, breaches>>

\* The controller dies: its lock file stays.
RunDies(r) ==
  /\ at[r] \in Acquiring \cup Holding
  /\ crashes < MaxCrashes
  /\ crashes' = crashes + 1
  /\ at' = [at EXCEPT ![r] = "ended"]
  /\ UNCHANGED <<file, left, breaches>>

\* The operator (or the batch) starts another run.
StartAgain(r) ==
  /\ at[r] = "ended"
  /\ at' = [at EXCEPT ![r] = "idle"]
  /\ UNCHANGED <<file, left, crashes, breaches>>

-----------------------------------------------------------------------------
Older(n, limit) == IF n < limit THEN n + 1 ELSE limit
Less(n) == IF n > 0 THEN n - 1 ELSE 0

Tick ==
  /\ file' = IF file = NoLock THEN NoLock
             ELSE [file EXCEPT !.left = Less(@), !.age = Older(@, Stale)]
  /\ left' = [r \in Runs |-> Less(left[r])]
  /\ UNCHANGED <<at, crashes, breaches>>

Step(r) ==
  \/ LookForLock(r) \/ ReadLock(r) \/ ArchiveLock(r) \/ WriteLock(r)
  \/ BeginCleanup(r) \/ EndCleanup(r) \/ ReleaseCheck(r) \/ ReleaseUnlink(r)
  \/ StartAgain(r)

LockNext ==
  \/ \E r \in Runs : Step(r) \/ WriteLockFails(r) \/ Heartbeat(r) \/ RunDies(r)
  \/ Tick

LockSpec == LockInit /\ [][LockNext]_lockVars

\* A run that can take its next step takes it, runs are started again, and
\* time passes; failures, crashes and heartbeats are not promised.
FairSpec == LockSpec /\ WF_lockVars(Tick) /\ \A r \in Runs : WF_lockVars(Step(r))

-----------------------------------------------------------------------------
(* Properties *)

\* ARCHITECTURE.md:145-146 has one run at a time on an instance.  What the lock
\* gives is this: every acquisition that overlaps with another, and every
\* takeover of a live run's lock, lets in at most one run more.  In between, a
\* run that lost its lock goes on to refresh and to unlink whatever file is
\* there, and so takes the lock from others in turn: that passes the loss on
\* and never adds to it.  Without a breach at most one run holds the lock.
BreachesBoundOverlap == Cardinality({r \in Runs : at[r] \in Holding}) <= 1 + breaches

\* A lock left behind by a dead controller never blocks the instance for
\* ever: it lapses and a later run replaces it.
Orphaned == file # NoLock /\ at[file.owner] \notin Holding
OrphanIsReplaced == Orphaned ~> ~Orphaned

-----------------------------------------------------------------------------
(* Inductive invariant behind BreachesBoundOverlap: the runs at work that    *)
(* do not find their own file, together with the one that is about to lose   *)
(* it, are no more than the breaches.                                        *)

Displaced ==
  {r \in Runs : at[r] \in Holding /\ (file = NoLock \/ file.owner # r)}

Endangered == LiveLock /\ \E q \in Runs : Decided(q)

LockInv ==
  /\ LockTypeOK
  /\ Cardinality(Displaced) + (IF Endangered THEN 1 ELSE 0) <= breaches

=============================================================================
