-------------------------- MODULE Exclusion_proofs --------------------------
(* Proofs about what keeps two runs off one instance: the lock file of       *)
(* module InstanceLock, and the sibling check of module BatchExclusion among *)
(* the cases and standalone runs of module InstanceUse.                      *)
EXTENDS InstanceLock, InstanceUse, FiniteSetTheorems, TLAPS

-----------------------------------------------------------------------------
(* The lock file, for any number of runs and any limits *)

LEMMA BreachType ==
  ASSUME breaches \in 0..Cardinality(Runs), NEW here, Breach(here)
  PROVE  breaches' \in 0..Cardinality(Runs)
<1>1. Cardinality(Runs) \in Nat
  BY LockAssumption, FS_CardinalityType
<1> QED BY <1>1 DEF Breach

LEMMA LockTypeStep == ASSUME LockTypeOK, [LockNext]_lockVars PROVE LockTypeOK'
<1> USE LockAssumption DEF LockTypeOK, Payload, Locations, Acquiring, Holding
<1>1. ASSUME NEW r \in Runs, LookForLock(r) PROVE LockTypeOK'
  BY <1>1 DEF LookForLock
<1>2. ASSUME NEW r \in Runs, ReadLock(r) PROVE LockTypeOK'
  <2>1. breaches' \in 0..Cardinality(Runs)
    BY <1>2, BreachType DEF ReadLock
  <2> QED BY <1>2, <2>1 DEF ReadLock
<1>3. ASSUME NEW r \in Runs, ArchiveLock(r) PROVE LockTypeOK'
  BY <1>3 DEF ArchiveLock
<1>4. ASSUME NEW r \in Runs, WriteLock(r) PROVE LockTypeOK'
  <2>1. breaches' \in 0..Cardinality(Runs)
    BY <1>4, BreachType DEF WriteLock
  <2> QED BY <1>4, <2>1 DEF WriteLock
<1>4a. ASSUME NEW r \in Runs, WriteLockFails(r) PROVE LockTypeOK'
  BY <1>4a DEF WriteLockFails
<1>5. ASSUME NEW r \in Runs, Heartbeat(r) PROVE LockTypeOK'
  BY <1>5 DEF Heartbeat
<1>6. ASSUME NEW r \in Runs, BeginCleanup(r) \/ EndCleanup(r) PROVE LockTypeOK'
  BY <1>6 DEF BeginCleanup, EndCleanup
<1>7. ASSUME NEW r \in Runs, ReleaseCheck(r) \/ ReleaseUnlink(r) PROVE LockTypeOK'
  BY <1>7 DEF ReleaseCheck, ReleaseUnlink
<1>8. ASSUME NEW r \in Runs, RunDies(r) \/ StartAgain(r) PROVE LockTypeOK'
  BY <1>8 DEF RunDies, StartAgain
<1>9. ASSUME Tick PROVE LockTypeOK'
  <2>1. left' \in [Runs -> 0..Ttl]
    BY <1>9 DEF Tick, Less
  <2>2. file' \in Payload \cup {NoLock}
    <3>1. CASE file = NoLock
      BY <1>9, <3>1 DEF Tick
    <3>2. CASE file # NoLock
      <4>1. file' = [file EXCEPT !.left = Less(@), !.age = Older(@, Stale)]
        BY <1>9, <3>2 DEF Tick
      <4>2. Less(file.left) \in 0..Ttl /\ Older(file.age, Stale) \in 0..Stale
        BY <3>2 DEF Less, Older
      <4>3. QED
        BY <3>2, <4>1, <4>2
    <3>3. QED
      BY <3>1, <3>2
  <2>3. QED
    BY <1>9, <2>1, <2>2 DEF Tick
<1>10. CASE UNCHANGED lockVars
  BY <1>10 DEF lockVars
<1>11. QED
  BY <1>1, <1>2, <1>3, <1>4, <1>4a, <1>5, <1>6, <1>7, <1>8, <1>9, <1>10
     DEF LockNext, Step

\* Every variable keeps its type, in every environment: forced or not, racing
\* or not, late or not (locks.py, run_single_case).
THEOREM LockTypeCorrect == LockSpec => []LockTypeOK
<1>1. LockInit => LockTypeOK
  BY LockAssumption, FS_CardinalityType DEF LockInit, LockTypeOK, Locations
<1>2. LockTypeOK /\ [LockNext]_lockVars => LockTypeOK'
  BY LockTypeStep
<1>3. QED
  BY <1>1, <1>2, PTL DEF LockSpec

\* Sets of runs are finite, and a set that leaves one out is smaller.
LEMMA SetsOfRuns ==
  ASSUME NEW S, S \subseteq Runs
  PROVE  /\ IsFiniteSet(S) /\ Cardinality(S) \in Nat /\ Cardinality(Runs) \in Nat
         /\ Cardinality(S) <= Cardinality(Runs)
         /\ \A q \in Runs : q \notin S => Cardinality(S) + 1 <= Cardinality(Runs)
<1>1. S \in SUBSET Runs /\ IsFiniteSet(Runs)
  BY LockAssumption
<1>2. /\ IsFiniteSet(S) /\ Cardinality(S) \in Nat /\ Cardinality(Runs) \in Nat
      /\ Cardinality(S) <= Cardinality(Runs)
  BY <1>1, FS_Subset, FS_CardinalityType
<1>3. ASSUME NEW q \in Runs, q \notin S PROVE Cardinality(S) + 1 <= Cardinality(Runs)
  <2>1. S \cup {q} \in SUBSET Runs
    BY <1>1, <1>3
  <2>2. Cardinality(S \cup {q}) = Cardinality(S) + 1
    BY <1>2, <1>3, FS_AddElement
  <2>3. Cardinality(S \cup {q}) <= Cardinality(Runs)
    BY <1>1, <2>1, FS_Subset
  <2> QED BY <2>2, <2>3
<1> QED BY <1>2, <1>3

\* The runs without their file: a step that removes r from them and adds o.
LEMMA Exchange ==
  ASSUME NEW S, S \subseteq Runs, NEW r \in Runs, NEW o \in Runs
  PROVE  /\ Cardinality(S \cup {o}) <= Cardinality(S) + 1
         /\ r \in S => /\ Cardinality(S \ {r}) = Cardinality(S) - 1
                       /\ Cardinality((S \ {r}) \cup {o}) <= Cardinality(S)
<1>1. IsFiniteSet(S) /\ Cardinality(S) \in Nat
  BY SetsOfRuns
<1>2. Cardinality(S \cup {o}) <= Cardinality(S) + 1
  <2>1. Cardinality(S \cup {o}) = IF o \in S THEN Cardinality(S) ELSE Cardinality(S) + 1
    BY <1>1, FS_AddElement
  <2> QED BY <1>1, <2>1
<1>3. ASSUME r \in S
      PROVE  /\ Cardinality(S \ {r}) = Cardinality(S) - 1
             /\ Cardinality((S \ {r}) \cup {o}) <= Cardinality(S)
  <2>1. IsFiniteSet(S \ {r}) /\ Cardinality(S \ {r}) = Cardinality(S) - 1
    BY <1>1, <1>3, FS_RemoveElement
  <2>2. Cardinality((S \ {r}) \cup {o}) <= Cardinality(S \ {r}) + 1
    <3>1. Cardinality((S \ {r}) \cup {o}) =
            IF o \in S \ {r} THEN Cardinality(S \ {r}) ELSE Cardinality(S \ {r}) + 1
      BY <2>1, FS_AddElement
    <3> QED BY <1>1, <2>1, <3>1
  <2> QED BY <1>1, <2>1, <2>2
<1> QED BY <1>2, <1>3

\* What is lost, against the breaches: a step keeps the invariant when the
\* displaced and endangered runs grow by no more than the breach it is.
Loss == Cardinality(Displaced) + (IF Endangered THEN 1 ELSE 0)

LEMMA Paid ==
  ASSUME LockInv, LockTypeOK', NEW here \in BOOLEAN, Breach(here),
         Loss' <= Loss + (IF here THEN 1 ELSE 0)
  PROVE  LockInv'
<1>1. Displaced \subseteq Runs /\ Displaced' \subseteq Runs
  BY DEF Displaced
<1>2. Loss \in Nat /\ Loss' \in Nat /\ Cardinality(Runs) \in Nat
  BY <1>1, SetsOfRuns DEF Loss
<1>3. Loss' <= Cardinality(Runs)
  <2>1. CASE Endangered'
    <3>1. PICK q \in Runs : at'[q] \in {"archive", "write"}
      BY <2>1 DEF Endangered, Decided
    <3>2. q \notin Displaced'
      BY <3>1 DEF Displaced, Holding
    <3> QED BY <1>1, <2>1, <3>2, SetsOfRuns DEF Loss
  <2>2. CASE ~Endangered'
    BY <1>1, <2>2, SetsOfRuns DEF Loss
  <2> QED BY <2>1, <2>2
<1>4. Loss' <= breaches'
  BY <1>2, <1>3 DEF LockInv, LockTypeOK, Loss, Breach
<1> QED BY <1>4 DEF LockInv, Loss

\* The same for a step that is no breach.
LEMMA Kept ==
  ASSUME LockInv, LockTypeOK', breaches' = breaches, Loss' <= Loss
  PROVE  LockInv'
<1>1. Displaced \subseteq Runs /\ Displaced' \subseteq Runs
  BY DEF Displaced
<1>2. Loss \in Nat /\ Loss' \in Nat /\ Cardinality(Runs) \in Nat
  BY <1>1, SetsOfRuns DEF Loss
<1> QED BY <1>2 DEF LockInv, LockTypeOK, Loss

\* The same for a step in which no run loses its file.
LEMMA Spared ==
  ASSUME LockInv, LockTypeOK', breaches' = breaches,
         Displaced' \subseteq Displaced, Endangered' => Endangered
  PROVE  LockInv'
<1>1. Displaced \subseteq Runs /\ Displaced' \in SUBSET Displaced
  BY DEF Displaced
<1>2. /\ Cardinality(Displaced') <= Cardinality(Displaced)
      /\ Cardinality(Displaced') \in Nat /\ Cardinality(Displaced) \in Nat
  BY <1>1, SetsOfRuns, FS_Subset, FS_CardinalityType
<1>3. Loss' <= Loss
  BY <1>2 DEF Loss
<1> QED BY <1>3, Kept

LEMMA LockInvStep == ASSUME LockInv, [LockNext]_lockVars PROVE LockInv'
<1> USE LockAssumption DEF Payload, Locations, Acquiring, Holding
<1>0. LockTypeOK /\ LockTypeOK' /\ Displaced \subseteq Runs /\ Displaced' \subseteq Runs
  BY LockTypeStep DEF LockInv, Displaced
<1>a. /\ Cardinality(Displaced) \in Nat /\ Cardinality(Displaced') \in Nat
      /\ at \in [Runs -> Locations] /\ at' \in [Runs -> Locations]
      /\ file # NoLock => file.owner \in Runs
      /\ file' # NoLock => file'.owner \in Runs
  BY <1>0, SetsOfRuns DEF LockTypeOK
<1>1. ASSUME NEW r \in Runs, LookForLock(r) PROVE LockInv'
  <2>1. Displaced' \subseteq Displaced
    BY <1>a, <1>1 DEF LookForLock, Displaced
  <2>2. Endangered' => Endangered
    BY <1>a, <1>1 DEF LookForLock, Endangered, LiveLock, Decided
  <2> QED BY <1>0, <1>1, <2>1, <2>2, Spared DEF LookForLock
<1>2. ASSUME NEW r \in Runs, ReadLock(r) PROVE LockInv'
  <2>1. PICK force \in BOOLEAN :
          /\ at' = [at EXCEPT ![r] =
                 IF force \/ (file # NoLock /\ Takeable(file)) THEN "archive" ELSE "ended"]
          /\ Breach(LiveLock /\ (force \/ Lapsed(file)))
    BY <1>2 DEF ReadLock
  <2> DEFINE here == LiveLock /\ (force \/ Lapsed(file))
  <2>2. Displaced' = Displaced
    BY <1>a, <1>2, <2>1 DEF ReadLock, Displaced
  <2>3. Endangered' => Endangered \/ here
    BY <1>a, <1>2, <2>1
       DEF ReadLock, Endangered, LiveLock, Decided, Takeable, IsExpired,
           HeartbeatIsStale, Lapsed
  <2>4. Loss' <= Loss + (IF here THEN 1 ELSE 0)
    BY <1>a, <2>2, <2>3 DEF Loss
  <2>5. here \in BOOLEAN
    BY DEF LiveLock, Lapsed
  <2> QED BY <1>0, <2>1, <2>4, <2>5, Paid
<1>3. ASSUME NEW r \in Runs, ArchiveLock(r) PROVE LockInv'
  <2>1. ~Endangered' /\ file' = NoLock /\ breaches' = breaches
    BY <1>3 DEF ArchiveLock, Endangered, LiveLock
  <2>2. CASE LiveLock
    <3>1. Endangered /\ file.owner \in Runs
      BY <1>a, <1>3, <2>2 DEF ArchiveLock, Endangered, LiveLock, Decided
    <3>2. Displaced' = Displaced \cup {file.owner}
      BY <1>a, <1>3, <2>1, <2>2 DEF ArchiveLock, Displaced, LiveLock
    <3>3. Loss' <= Loss
      <4>1. Cardinality(Displaced') <= Cardinality(Displaced) + 1
        BY <1>0, <3>1, <3>2, Exchange
      <4> QED BY <1>a, <2>1, <3>1, <4>1 DEF Loss
    <3> QED BY <1>0, <2>1, <3>3, Kept
  <2>3. CASE ~LiveLock
    <3>1. Displaced' \subseteq Displaced
      BY <1>a, <1>3, <2>1, <2>3 DEF ArchiveLock, Displaced, LiveLock
    <3> QED BY <1>0, <2>1, <3>1, Spared
  <2> QED BY <2>2, <2>3
<1>4. ASSUME NEW r \in Runs, WriteLock(r) PROVE LockInv'
  <2> DEFINE here == \E q \in Runs \ {r} : Decided(q)
  <2>1. /\ Breach(here) /\ file' # NoLock /\ file'.owner = r /\ at[r] = "write"
        /\ at' = [at EXCEPT ![r] = "run"]
    <3>1. file' = [owner |-> r, left |-> Ttl, age |-> 0] /\ file' \in Payload
      BY <1>4 DEF WriteLock
    <3>2. file' # NoLock /\ file'.owner = r
      BY <3>1
    <3>3. Breach(here)
      BY <1>4 DEF WriteLock
    <3> QED BY <1>4, <3>2, <3>3 DEF WriteLock
  <2>2. Endangered' => here
    BY <1>a, <2>1 DEF Endangered, Decided
  <2>3. Cardinality(Displaced') <= Cardinality(Displaced) + (IF Endangered THEN 1 ELSE 0)
    <3>1. CASE LiveLock
      <4>1. Endangered /\ file.owner \in Runs
        BY <1>a, <2>1, <3>1 DEF Endangered, LiveLock, Decided
      <4>2. Displaced' = Displaced \cup {file.owner}
        BY <1>a, <2>1, <3>1 DEF Displaced, LiveLock
      <4> QED BY <1>0, <1>a, <4>1, <4>2, Exchange
    <3>2. CASE ~LiveLock
      <4>1. Displaced' = Displaced /\ ~Endangered
        BY <1>a, <2>1, <3>2 DEF Displaced, LiveLock, Endangered
      <4> QED BY <1>a, <4>1
    <3> QED BY <3>1, <3>2
  <2>4. here \in BOOLEAN
    OBVIOUS
  <2> HIDE DEF here
  <2>5. Loss' <= Loss + (IF here THEN 1 ELSE 0)
    BY <1>a, <2>2, <2>3, <2>4 DEF Loss
  <2> QED BY <1>0, <2>1, <2>4, <2>5, Paid
<1>5. ASSUME NEW r \in Runs, Heartbeat(r) PROVE LockInv'
  <2>1. /\ breaches' = breaches /\ file' # NoLock /\ file'.owner = r
        /\ at[r] = "run" /\ at' = at
    BY <1>0, <1>5 DEF Heartbeat, LockTypeOK
  <2>2. CASE file # NoLock /\ file.owner = r
    <3>1. Displaced' = Displaced /\ (Endangered' => Endangered)
      BY <1>a, <2>1, <2>2 DEF Displaced, Endangered, LiveLock, Decided
    <3> QED BY <1>0, <2>1, <3>1, Spared
  <2>3. CASE ~(file # NoLock /\ file.owner = r)
    <3>1. r \in Displaced
      BY <2>1, <2>3 DEF Displaced
    <3>2. CASE LiveLock
      <4>1. file.owner \in Runs /\ Displaced' = (Displaced \ {r}) \cup {file.owner}
        BY <1>a, <2>1, <2>3, <3>2 DEF Displaced, LiveLock
      <4>2. Endangered' => Endangered
        BY <1>a, <2>1, <3>2 DEF Endangered, Decided
      <4>3. Loss' <= Loss
        <5>1. Cardinality(Displaced') <= Cardinality(Displaced)
          BY <1>0, <3>1, <4>1, Exchange
        <5> QED BY <1>a, <4>2, <5>1 DEF Loss
      <4> QED BY <1>0, <2>1, <4>3, Kept
    <3>3. CASE ~LiveLock
      <4>1. Displaced' = Displaced \ {r}
        BY <1>a, <2>1, <3>3 DEF Displaced, LiveLock
      <4>2. Cardinality(Displaced') = Cardinality(Displaced) - 1
        BY <1>0, <3>1, <4>1, Exchange
      <4>3. Loss' <= Loss
        BY <1>a, <4>2 DEF Loss
      <4> QED BY <1>0, <2>1, <4>3, Kept
    <3> QED BY <3>2, <3>3
  <2> QED BY <2>2, <2>3
<1>6. ASSUME NEW r \in Runs, ReleaseUnlink(r) PROVE LockInv'
  <2>1. /\ breaches' = breaches /\ file' = NoLock /\ at[r] = "unlink"
        /\ at' = [at EXCEPT ![r] = "ended"] /\ ~Endangered'
    BY <1>6 DEF ReleaseUnlink, Endangered, LiveLock
  <2>2. CASE LiveLock /\ file.owner # r
    <3>1. /\ r \in Displaced /\ file.owner \in Runs
          /\ Displaced' = (Displaced \ {r}) \cup {file.owner}
      BY <1>a, <2>1, <2>2 DEF Displaced, LiveLock
    <3>2. Loss' <= Loss
      <4>1. Cardinality(Displaced') <= Cardinality(Displaced)
        BY <1>0, <3>1, Exchange
      <4> QED BY <1>a, <2>1, <4>1 DEF Loss
    <3> QED BY <1>0, <2>1, <3>2, Kept
  <2>3. CASE ~(LiveLock /\ file.owner # r)
    <3>1. Displaced' \subseteq Displaced
      BY <1>a, <2>1, <2>3 DEF Displaced, LiveLock
    <3> QED BY <1>0, <2>1, <3>1, Spared
  <2> QED BY <2>2, <2>3
<1>7. ASSUME NEW r \in Runs,
             \/ WriteLockFails(r) \/ BeginCleanup(r) \/ EndCleanup(r)
             \/ ReleaseCheck(r) \/ RunDies(r) \/ StartAgain(r)
      PROVE  LockInv'
  <2>1. /\ file' = file /\ breaches' = breaches
        /\ \A q \in Runs : at'[q] \in Holding => at[q] \in Holding
        /\ \A q \in Runs : at'[q] \in {"archive", "write"} => at'[q] = at[q]
    BY <1>a, <1>7 DEF WriteLockFails, BeginCleanup, EndCleanup, ReleaseCheck,
                      RunDies, StartAgain
  <2>2. Displaced' \subseteq Displaced
    BY <2>1 DEF Displaced
  <2>3. Endangered' => Endangered
    BY <1>a, <2>1 DEF Endangered, LiveLock, Decided
  <2> QED BY <1>0, <2>1, <2>2, <2>3, Spared
<1>8. ASSUME Tick PROVE LockInv'
  <2>1. at' = at /\ breaches' = breaches
    BY <1>8 DEF Tick
  <2>2. \/ file = NoLock /\ file' = NoLock
        \/ file # NoLock /\ file' # NoLock /\ file'.owner = file.owner
    <3>1. CASE file = NoLock
      BY <1>8, <3>1 DEF Tick
    <3>2. CASE file # NoLock
      <4>1. file \in Payload
            /\ file' = [file EXCEPT !.left = Less(@), !.age = Older(@, Stale)]
        BY <1>0, <1>8, <3>2 DEF Tick, LockTypeOK
      <4>2. file' \in Payload
        <5>1. Less(file.left) \in 0..Ttl /\ Older(file.age, Stale) \in 0..Stale
          BY <4>1 DEF Less, Older
        <5> QED BY <4>1, <5>1
      <4> QED BY <3>2, <4>1, <4>2
    <3> QED BY <3>1, <3>2
  <2>3. Displaced' \subseteq Displaced
    BY <2>1, <2>2 DEF Displaced
  <2>4. Endangered' => Endangered
    BY <2>1, <2>2 DEF Endangered, LiveLock, Decided
  <2> QED BY <1>0, <2>1, <2>3, <2>4, Spared
<1>9. CASE UNCHANGED lockVars
  BY <1>9, <1>0 DEF lockVars, LockInv, Displaced, Endangered, LiveLock, Decided
<1> QED
  BY <1>1, <1>2, <1>3, <1>4, <1>5, <1>6, <1>7, <1>8, <1>9 DEF LockNext, Step

\* The runs at work that do not find their own lock file, and the one about to
\* lose it, are never more than the breaches, whatever the acquisitions,
\* takeovers, heartbeats, releases and crashes of any number of runs (locks.py).
THEOREM LockCorrect == LockSpec => []LockInv
<1>1. ASSUME LockInit PROVE LockInv
  <2>1. LockTypeOK
    BY <1>1, LockAssumption, SetsOfRuns DEF LockInit, LockTypeOK, Locations
  <2>2. Displaced = {} /\ ~Endangered /\ breaches = 0
    BY <1>1 DEF LockInit, Displaced, Endangered, LiveLock, Holding
  <2>3. Cardinality(Displaced) = 0
    BY <2>2, FS_EmptySet
  <2> QED BY <2>1, <2>2, <2>3 DEF LockInv
<1>2. LockInv /\ [LockNext]_lockVars => LockInv'
  BY LockInvStep
<1> QED BY <1>1, <1>2, PTL DEF LockSpec

\* For any number of runs, any limits and any crashes, no more runs work on the
\* instance at once than one and one for every breach: an acquisition that
\* overlapped with another, or a takeover of a live run's lock.  Refreshing
\* and unlinking by runs that lost their lock let in nobody (locks.py).
THEOREM OverlapIsBounded == LockSpec => []BreachesBoundOverlap
<1>1. ASSUME LockInv PROVE BreachesBoundOverlap
  <2> DEFINE Working == {r \in Runs : at[r] \in Holding}
  <2>0. Displaced \subseteq Runs /\ Working \subseteq Runs
    BY DEF Displaced
  <2>1. Cardinality(Working) <= Cardinality(Displaced) + 1
    <3>1. CASE LiveLock
      <4>1. file.owner \in Runs /\ Working = Displaced \cup {file.owner}
        BY <1>1, <3>1, LockAssumption DEF LockInv, LockTypeOK, Payload, LiveLock, Displaced
      <4> QED BY <2>0, <4>1, Exchange
    <3>2. CASE ~LiveLock
      <4>1. Working = Displaced
        BY <3>2 DEF LiveLock, Displaced
      <4> QED BY <2>0, <4>1, SetsOfRuns
    <3> QED BY <3>1, <3>2
  <2>2. Cardinality(Displaced) \in Nat /\ Cardinality(Working) \in Nat
    BY <2>0, SetsOfRuns
  <2>3. Cardinality(Displaced) <= breaches
    BY <1>1, <2>2, LockAssumption, SetsOfRuns DEF LockInv, LockTypeOK
  <2>4. breaches \in Nat
    BY <1>1, <2>0, SetsOfRuns DEF LockInv, LockTypeOK
  <2> QED BY <2>1, <2>2, <2>3, <2>4 DEF BreachesBoundOverlap
<1> QED BY <1>1, LockCorrect, PTL

-----------------------------------------------------------------------------
(* The sibling check, for any number of batches, instances and processes, as *)
(* long as each batch has one process                                        *)

USE BatchAssumption

\* Every step keeps the invariant.
LEMMA ExclusionInvInductive ==
  ASSUME OneProcessPerBatch, ExclusionInv, [Next]_vars
  PROVE  ExclusionInv'
<1> USE DEF TypeOK, Own, Past, Knows, Rivals, Missed, End, States
<1>1. ASSUME NEW p \in Procs, Open(p) PROVE ExclusionInv'
  BY <1>1 DEF ExclusionInv, Open
<1>2. ASSUME NEW p \in Procs, List(p) PROVE ExclusionInv'
  <2>1. TypeOK'
    BY <1>2 DEF ExclusionInv, List
  <2>2. \A q \in Procs : pc[q] # "idle" => state[Own(q)] = "running" /\ Own(q) \in Batches
    BY DEF ExclusionInv
  <2>3. \A q \in Procs : q # p /\ Past(q)' => Own(q) \in unread'[p]
    BY <1>2, <2>2 DEF ExclusionInv, List, OneProcessPerBatch
  <2> QED BY <1>2, <2>1, <2>3 DEF ExclusionInv, List
<1>3. ASSUME NEW p \in Procs, NEW b \in Batches, Read(p, b) PROVE ExclusionInv'
  <2>1. TypeOK'
    BY <1>3 DEF ExclusionInv, Read
  <2>2. \A q \in Procs : Rivals(p, q) /\ Past(q) /\ Own(q) \in unread[p] =>
          Own(q) \in unread'[p] \/ busy'[p]
    BY <1>3 DEF ExclusionInv, Read
  <2> QED BY <1>3, <2>1, <2>2 DEF ExclusionInv, Read
<1>4. ASSUME NEW p \in Procs, NEW b \in Batches, PassOver(p, b) PROVE ExclusionInv'
  <2>1. TypeOK'
    BY <1>4 DEF ExclusionInv, PassOver
  <2>2. \A q \in Procs : Rivals(p, q) /\ Past(q) /\ Own(q) \in unread[p] =>
          Own(q) \in unread'[p] \/ Own(q) \in missed'[p]
    BY <1>4 DEF ExclusionInv, PassOver
  <2>3. \A q \in Procs : missed[q] \subseteq missed'[q]
    BY <1>4 DEF ExclusionInv, PassOver
  <2> QED BY <1>4, <2>1, <2>2, <2>3 DEF ExclusionInv, PassOver
<1>5. ASSUME NEW p \in Procs, Pass(p) PROVE ExclusionInv'
  BY <1>5 DEF ExclusionInv, Pass
<1>6. ASSUME NEW p \in Procs, Refuse(p) PROVE ExclusionInv'
  BY <1>6 DEF ExclusionInv, Refuse, OneProcessPerBatch
<1>7. ASSUME NEW p \in Procs, Finish(p) PROVE ExclusionInv'
  BY <1>7 DEF ExclusionInv, Finish, OneProcessPerBatch
<1>8. ASSUME NEW p \in Procs, Crash(p) PROVE ExclusionInv'
  BY <1>8 DEF ExclusionInv, Crash
<1>9. CASE UNCHANGED vars
  BY <1>9 DEF ExclusionInv, vars
<1> QED BY <1>1, <1>2, <1>3, <1>4, <1>5, <1>6, <1>7, <1>8, <1>9 DEF Next

\* The invariant that explains the check.
THEOREM ExclusionCorrect == ASSUME OneProcessPerBatch PROVE Spec => []ExclusionInv
<1>1. Init => ExclusionInv
  BY DEF Init, ExclusionInv, TypeOK, States, Own, Past, Knows, Rivals, Missed
<1>2. ExclusionInv /\ [Next]_vars => ExclusionInv'
  BY ExclusionInvInductive
<1> QED BY <1>1, <1>2, PTL DEF Spec

\* A controller with cases is a controller of module BatchExclusion: the
\* cases and the standalone runs are steps in which the check stands still.
LEMMA CasesKeepTheCheck == UseSpec => Spec
<1>1. UseInit => Init
  BY DEF UseInit
<1>2. [UseNext]_useVars => [Next]_vars
  BY DEF UseNext, useVars, vars, Next, Start, Check, EndBatch, Die, BeginCase, CaseLocked,
         EndCase, BeginSingle, EndSingle, SingleDies, Expire
<1> QED BY <1>1, <1>2, PTL DEF UseSpec, Spec

\* Two batches on one instance never execute at the same time, although each
\* check reads its siblings' files one by one, unless one of the two could not
\* be read; for any number of batches, instances, cases and standalone runs.
THEOREM OneBatchPerInstance == ASSUME OneProcessPerBatch PROVE UseSpec => []BatchesExclude
<1>1. ExclusionInv => BatchesExclude
  BY DEF ExclusionInv, BatchesExclude, Executing, Rivals, Past, Knows, Missed
<1> QED BY <1>1, ExclusionCorrect, CasesKeepTheCheck, PTL

=============================================================================
