------------------------- MODULE BatchInputs_proofs -------------------------
(* Proofs about BatchInputs, for any directory of samples, any number of     *)
(* processes that work on the batch after one another, and any edits and     *)
(* crashes in between.                                                       *)
EXTENDS BatchInputs, FiniteSetTheorems, TLAPS

-----------------------------------------------------------------------------
(* Indexing and selecting *)

\* Of a finite set of numbers each rank is attained: the k-th smallest number
\* is there.
LEMMA NthIsMember ==
  ASSUME NEW S \in SUBSET Nat, IsFiniteSet(S), NEW k \in 1..Cardinality(S)
  PROVE  Nth(S, k) \in S
<1> DEFINE Below(x) == {y \in S : y < x}
           Ranks == 0..(Cardinality(S) - 1)
           rank == [x \in S |-> Cardinality(Below(x))]
<1>1. Cardinality(S) \in Nat
  BY FS_CardinalityType
<1>2. \A x \in S : IsFiniteSet(Below(x))
  BY FS_Subset
<1>3. ASSUME NEW x \in S PROVE Cardinality(Below(x)) \in Ranks
  <2>1. Cardinality(Below(x)) \in Nat
    BY <1>2, FS_CardinalityType
  <2>2. IsFiniteSet(S \ {x}) /\ Cardinality(S \ {x}) = Cardinality(S) - 1
    BY FS_RemoveElement
  <2>3. Below(x) \in SUBSET (S \ {x})
    OBVIOUS
  <2>4. Cardinality(Below(x)) <= Cardinality(S \ {x})
    BY <2>2, <2>3, FS_Subset
  <2> HIDE DEF Below
  <2> QED BY <1>1, <2>1, <2>2, <2>4
<1>4. ASSUME NEW x \in S, NEW z \in S, x < z
      PROVE  Cardinality(Below(x)) # Cardinality(Below(z))
  <2>1. x \in Below(z) /\ x \notin Below(x)
    BY <1>4
  <2>2. \A y \in S : y < x => y < z
    BY <1>4
  <2>3. Below(x) \in SUBSET Below(z)
    BY <2>2
  <2> HIDE DEF Below
  <2> QED BY <1>2, <2>1, <2>3, FS_Subset
<1>5. rank \in Injection(S, Ranks)
  <2>1. rank \in [S -> Ranks]
    BY <1>3
  <2>2. ASSUME NEW x \in S, NEW z \in S, x # z PROVE rank[x] # rank[z]
    <3>1. x < z \/ z < x
      BY <2>2
    <3> HIDE DEF Below
    <3> QED BY <1>4, <3>1
  <2> HIDE DEF rank, Ranks
  <2> QED BY <2>1, <2>2 DEF Injection, IsInjective
<1>6. IsFiniteSet(Ranks) /\ Cardinality(Ranks) = Cardinality(S)
  <2>1. Cardinality(S) - 1 \in Int
    BY <1>1
  <2>2. /\ IsFiniteSet(Ranks)
        /\ Cardinality(Ranks) = IF 0 > Cardinality(S) - 1
                                 THEN 0 ELSE (Cardinality(S) - 1) - 0 + 1
    BY <2>1, FS_Interval
  <2> HIDE DEF Ranks
  <2> QED BY <1>1, <2>2
<1>7. rank \in Surjection(S, Ranks)
  <2> HIDE DEF rank, Ranks
  <2> QED BY <1>5, <1>6, FS_Injection
<1>8. PICK x \in S : rank[x] = k - 1
  <2>1. k - 1 \in Ranks
    BY <1>1
  <2> HIDE DEF rank, Ranks
  <2> QED BY <1>7, <2>1 DEF Surjection
<1>9. Cardinality({y \in S : y < x}) = k - 1
  BY <1>8
<1> QED BY <1>9 DEF Nth

\* What may be left of a set of numbers that is not empty has a first one.
LEMMA FirstIsMember ==
  ASSUME NEW S \in SUBSET Nat, IsFiniteSet(S), S # {}
  PROVE  Nth(S, 1) \in S
<1>1. Cardinality(S) \in Nat /\ Cardinality(S) # 0
  BY FS_CardinalityType, FS_EmptySet
<1> QED BY <1>1, NthIsMember

LEMMA IndexesAreFinite ==
  /\ Cardinality(Names) \in Nat
  /\ \A S \in SUBSET Indexes : S \in SUBSET Nat /\ IsFiniteSet(S)
<1>1. Cardinality(Names) \in Nat
  BY InputsAssumption, FS_CardinalityType DEF InputsAssumption
<1>2. IsFiniteSet(Indexes) /\ Indexes \subseteq Nat
  BY <1>1, FS_Interval DEF Indexes
<1> QED BY <1>1, <1>2, FS_Subset

\* The case that comes next is one of those to do.
LEMMA CaseIsToDo ==
  ASSUME todo \in SUBSET Indexes, todo # {}
  PROVE  Case \in todo
BY IndexesAreFinite, FirstIsMember DEF Case

\* A scan that hashed every file yields a manifest with an index per sample.
LEMMA ListedIsManifest ==
  ASSUME found \in [Names -> Hashes]
  PROVE  /\ Listed(Distinct) \in Manifests
         /\ \A k \in DOMAIN Listed(Distinct) : Listed(Distinct)[k] \in Distinct
<1>1. IsFiniteSet(Names) /\ Hashes \subseteq Nat
  BY InputsAssumption DEF InputsAssumption
<1>2. found \in Surjection(Names, Distinct)
  BY DEF Distinct, Surjection
<1>3. IsFiniteSet(Distinct) /\ Cardinality(Distinct) <= Cardinality(Names)
  BY <1>1, <1>2, FS_Surjection
<1>4. Distinct \in SUBSET Hashes
  BY DEF Distinct
<1>5. Cardinality(Distinct) \in Nat /\ Cardinality(Names) \in Nat
  BY <1>1, <1>3, FS_CardinalityType
<1>6. \A k \in 1..Cardinality(Distinct) : Nth(Distinct, k) \in Distinct
  BY <1>1, <1>3, <1>4, NthIsMember
<1>7. 1..Cardinality(Distinct) \in SUBSET Indexes
  BY <1>3, <1>5 DEF Indexes
<1>8. Listed(Distinct) \in [1..Cardinality(Distinct) -> Hashes]
  BY <1>4, <1>6 DEF Listed
<1> QED BY <1>6, <1>7, <1>8 DEF Listed, Manifests

\* The first file by name that holds a scanned sample.
LEMMA PrimaryIsName ==
  ASSUME NEW h \in Distinct
  PROVE  Primary(h) \in Names
<1> DEFINE S == {n \in Names : found[n] = h}
<1>1. S # {} /\ S \in SUBSET Names
  BY DEF Distinct
<1>2. S \in SUBSET Nat /\ IsFiniteSet(S)
  BY <1>1, InputsAssumption, FS_Subset DEF InputsAssumption
<1>3. Nth(S, 1) \in S
  <2> HIDE DEF S
  <2> QED BY <1>1, <1>2, FirstIsMember
<1> QED BY <1>1, <1>3 DEF Primary

\* A torn manifest is a shorter one.
LEMMA BeginningsAreManifests ==
  ASSUME NEW m \in Manifests
  PROVE  Beginnings(m) \subseteq Manifests
<1>1. PICK D \in SUBSET Indexes : m \in [D -> Hashes]
  BY DEF Manifests
<1>2. ASSUME NEW k \in {0} \cup D
      PROVE  [i \in {j \in D : j <= k} |-> m[i]] \in Manifests
  <2> DEFINE E == {j \in D : j <= k}
  <2>1. E \in SUBSET Indexes /\ \A i \in E : m[i] \in Hashes
    BY <1>1
  <2> HIDE DEF E
  <2>2. [i \in E |-> m[i]] \in [E -> Hashes]
    BY <2>1
  <2> QED BY <2>1, <2>2 DEF E, Manifests
<1>3. DOMAIN m = D
  BY <1>1
<1> QED BY <1>2, <1>3 DEF Beginnings

\* A selection is made from what is available.
LEMMA SelectsAvailable ==
  ASSUME NEW r, NEW available
  PROVE  Select(r, available) \subseteq available
BY DEF Select, First, Wanted

-----------------------------------------------------------------------------
(* Types *)

FilesTyped ==
  /\ indexed \in BOOLEAN
  /\ samples \in [Names -> Hashes]
  /\ mirror \in Mirrors \cup {Absent}
  /\ source \in Manifests \cup {Absent}
  /\ copy \in Manifests \cup {Absent}
  /\ plan \in Plans \cup {Absent, Torn}
  /\ state \in States \cup {Absent}
  /\ edited \subseteq {"samples", "mirror", "source", "copy", "plan"}

MemoryTyped ==
  /\ how \in Commands
  /\ found \in [Names -> Hashes \cup {Gone}]
  /\ entries \in Manifests /\ digest \in Manifests
  /\ chosen \subseteq Indexes
  /\ planned \in Plans /\ planDigest \in Plans
  /\ todo \subseteq Indexes
  /\ sample \in [hash: Hashes \cup {Gone}, sent: Hashes \cup {Gone}]
  /\ slips \subseteq {"copy", "mirror"}

Counted ==
  sessions \in 0..MaxSessions /\ edits \in 0..MaxEdits /\ crashes \in 0..MaxCrashes

Places == {"idle", "confirm"} \cup Indexing \cup Planning \cup Loading
          \cup Opening \cup Running

LEMMA TypeOKParts ==
  TypeOK <=> FilesTyped /\ MemoryTyped /\ pc \in Places /\ Counted
BY DEF TypeOK, FilesTyped, MemoryTyped, Places, Counted

\* What is left in memory of a process that has ended or begins to execute.
LEMMA ForgetTyped ==
  /\ Idle \in Commands
  /\ <<>> \in Manifests /\ NoPlan \in Plans
  /\ \A h \in Commands : Forget(h) => MemoryTyped'
<1>1. Idle \in Commands
  BY InputsAssumption DEF InputsAssumption, Idle, Commands
<1>2. <<>> \in [{} -> Hashes] /\ {} \in SUBSET Indexes
  OBVIOUS
<1>3. <<>> \in Manifests
  BY <1>2 DEF Manifests
<1>4. NoPlan \in Plans
  BY <1>3 DEF NoPlan, Plans
<1> QED BY <1>1, <1>3, <1>4 DEF Forget, MemoryTyped, NoSample

LEMMA MemoryStays == MemoryTyped /\ UNCHANGED memory => MemoryTyped'
BY DEF MemoryTyped, memory, mind

\* An edit is of one file, and no process notices.
LEMMA EditTyped ==
  ASSUME TypeOK, NEW file \in {"samples", "mirror", "source", "copy", "plan"},
         NEW slipsIn, slipsIn => file \in {"copy", "mirror"}, Edit(file, slipsIn)
  PROVE  /\ MemoryTyped' /\ pc' \in Places /\ Counted'
         /\ indexed' \in BOOLEAN /\ state' \in States \cup {Absent}
         /\ edited' \subseteq {"samples", "mirror", "source", "copy", "plan"}
<1>1. MemoryTyped'
  BY TypeOKParts DEF Edit, MemoryTyped, mind
<1>2. Counted'
  <2>1. edits' = edits + 1 /\ edits < MaxEdits /\ edits \in 0..MaxEdits
    BY DEF Edit, TypeOK
  <2>2. edits' \in 0..MaxEdits
    BY <2>1, InputsAssumption DEF InputsAssumption
  <2> QED BY <2>2 DEF Counted, TypeOK, Edit
<1> QED BY <1>1, <1>2, TypeOKParts DEF TypeOK, Edit, Places

LEMMA EndTyped == End => MemoryTyped' /\ pc' \in Places
BY ForgetTyped DEF End, Places

\* A result changes the state file in its cases only.
LEMMA ResultIsRecorded ==
  ASSUME TypeOK, FilesInOrder, PlaceFits,
         NEW done \in BOOLEAN, NEW burns \in BOOLEAN, NEW goesOn \in BOOLEAN,
         Record(done, burns, goesOn)
  PROVE  /\ state' \in States /\ mirror' \in Mirrors
         /\ state'.plan = state.plan /\ state'.manifest = state.manifest
         /\ state'.chosen = state.chosen
<1> DEFINE d == IF done THEN state.done \cup {Case} ELSE state.done \ {Case}
           b == IF burns THEN state.burned \cup {Case} ELSE state.burned
<1>1. mirror \in Mirrors /\ state \in States
  BY DEF Record, TypeOK, FilesInOrder, Running
<1>2. Case \in Indexes
  BY CaseIsToDo DEF Record, TypeOK, PlaceFits, Running
<1>3. d \subseteq Indexes /\ b \subseteq Indexes
  BY <1>1, <1>2 DEF States
<1>4. state' = [state EXCEPT !.done = d, !.burned = b]
  BY DEF Record
<1>5. mirror' \in Mirrors
  BY <1>1 DEF Record, Mirrors
<1> HIDE DEF d, b
<1> QED BY <1>1, <1>3, <1>4, <1>5 DEF States

LEMMA MirrorIsCopied ==
  ASSUME TypeOK, PlaceFits, CopyMirror
  PROVE  mirror' \in Mirrors
<1>1. found \in [Names -> Hashes] /\ samples \in [Names -> Hashes]
  BY DEF CopyMirror, PlaceFits, TypeOK
<1>2. \A k \in DOMAIN Listed(Distinct) : samples[Primary(Listed(Distinct)[k])] \in Hashes
  BY <1>1, ListedIsManifest, PrimaryIsName
<1> QED BY <1>2 DEF CopyMirror, Mirrors

LEMMA ManifestIsWritten ==
  ASSUME PlaceFits, WriteManifest
  PROVE  source' \in Manifests
BY ListedIsManifest DEF WriteManifest, PlaceFits

\* Every step keeps the types, where the files of the batch are in order.
LEMMA TypeStep ==
  ASSUME TypeOK, FilesInOrder, PlaceFits, [Next]_vars
  PROVE  TypeOK'
<1> DEFINE Typed == FilesTyped /\ MemoryTyped /\ pc \in Places /\ Counted
<1>0. Typed
  BY TypeOKParts
<1> SUFFICES Typed'
  BY TypeOKParts DEF TypeOK, FilesTyped, MemoryTyped, Places, Counted
<1> USE <1>0 DEF FilesTyped, MemoryTyped, Counted, Places, Indexing, Planning, Loading,
                 Opening, Running, inputs, batch, history, memory, mind, bounds
<1>1. ASSUME NEW h \in Commands, Begin(h) PROVE Typed'
  <2>1. [i \in Indexes |-> Gone] \in Mirrors
    BY DEF Mirrors
  <2>2. sessions' \in 0..MaxSessions
    BY <1>1, InputsAssumption DEF Begin
  <2> QED BY <1>1, <2>1, <2>2 DEF Begin
<1>2. ASSUME Scan PROVE Typed'
  BY <1>2 DEF Scan
<1>3. ASSUME CopyMirror PROVE Typed'
  <2>1. mirror' \in Mirrors
    BY <1>3, MirrorIsCopied
  <2> QED BY <1>3, <2>1 DEF CopyMirror
<1>4. ASSUME WriteManifest PROVE Typed'
  <2>1. source' \in Manifests
    BY <1>4, ManifestIsWritten
  <2> QED BY <1>4, <2>1 DEF WriteManifest
<1>5. ASSUME ParseManifest PROVE Typed'
  <2>1. Manifest \in Manifests
    BY <1>5 DEF ParseManifest, FilesInOrder, Manifest
  <2> QED BY <1>5, <2>1, EndTyped DEF ParseManifest
<1>6. ASSUME HashManifest PROVE Typed'
  <2>1. Manifest \in Manifests
    BY <1>6 DEF HashManifest, FilesInOrder, Manifest
  <2>2. DOMAIN entries \subseteq Indexes
    BY DEF Manifests
  <2>3. Select(how.request, DOMAIN entries) \subseteq Indexes
    BY <2>2, SelectsAvailable
  <2> QED BY <1>6, <2>1, <2>3, EndTyped DEF HashManifest
<1>7. ASSUME CopyManifest PROVE Typed'
  BY <1>7, EndTyped DEF CopyManifest
<1>8. ASSUME WritePlan PROVE Typed'
  BY <1>8 DEF WritePlan, Plans
<1>9. ASSUME WriteState PROVE Typed'
  <2>1. Initial \in States
    BY DEF Initial, States, Plans
  <2> QED BY <1>9, <2>1, EndTyped DEF WriteState
<1>10. ASSUME LoadPlan PROVE Typed'
  BY <1>10, EndTyped DEF LoadPlan
<1>11. ASSUME MatchRequest PROVE Typed'
  BY <1>11, EndTyped DEF MatchRequest
<1>12. ASSUME NEW yes \in BOOLEAN, Confirm(yes) PROVE Typed'
  <2>1. [Idle EXCEPT !.mode = how.mode] \in Commands
    BY ForgetTyped DEF Commands
  <2> QED BY <1>12, <2>1, ForgetTyped, EndTyped DEF Confirm
<1>13. ASSUME ReadPlan PROVE Typed'
  BY <1>13 DEF ReadPlan, FilesInOrder
<1>14. ASSUME HashPlan PROVE Typed'
  BY <1>14 DEF HashPlan, FilesInOrder
<1>15. ASSUME ReadCopy PROVE Typed'
  BY <1>15, EndTyped DEF ReadCopy, FilesInOrder
<1>16. ASSUME HashCopy PROVE Typed'
  BY <1>16, EndTyped DEF HashCopy, FilesInOrder
<1>17. ASSUME Open PROVE Typed'
  <2>1. Initial \in States
    BY DEF Initial, States, Plans
  <2>2. state \in States
    BY <1>17 DEF Open, FilesInOrder
  <2>3. \A t \in States : ToRun(t) \subseteq Indexes
    BY DEF ToRun, Plans
  <2> QED BY <1>17, <2>1, <2>2, <2>3, EndTyped DEF Open
<1>18. ASSUME NEW passes \in BOOLEAN, Preflight(passes) PROVE Typed'
  BY <1>18, EndTyped DEF Preflight
<1>19. ASSUME Validate \/ FailCase PROVE Typed'
  BY <1>19 DEF Validate, FailCase
<1>20. ASSUME HashSample \/ Upload PROVE Typed'
  <2>1. Case \in Indexes
    BY <1>20, CaseIsToDo DEF HashSample, Upload, PlaceFits
  <2>2. mirror \in Mirrors
    BY <1>20 DEF HashSample, Upload, FilesInOrder
  <2>3. mirror[Case] \in Hashes \cup {Gone}
    BY <2>1, <2>2 DEF Mirrors
  <2> QED BY <1>20, <2>3 DEF HashSample, Upload
<1>21. ASSUME Launch PROVE Typed'
  BY <1>21 DEF Launch
<1>22. ASSUME NEW done \in BOOLEAN, NEW burns \in BOOLEAN, NEW goesOn \in BOOLEAN,
              Record(done, burns, goesOn)
       PROVE  Typed'
  <2>1. state' \in States /\ mirror' \in Mirrors
    BY <1>22, ResultIsRecorded
  <2>2. MemoryTyped' /\ pc' \in Places
    <3>1. CASE goesOn /\ todo # {Case}
      BY <1>22, <3>1 DEF Record, NoSample
    <3>2. CASE ~(goesOn /\ todo # {Case})
      <4>1. End
        BY <1>22, <3>2 DEF Record
      <4> QED BY <4>1, EndTyped
    <3> QED BY <3>1, <3>2
  <2> QED BY <1>22, <2>1, <2>2 DEF Record
<1>23. ASSUME Crash PROVE Typed'
  <2>1. source' \in Manifests \cup {Absent}
    BY <1>23, ListedIsManifest, BeginningsAreManifests DEF Crash, PlaceFits
  <2>2. copy' \in Manifests \cup {Absent}
    BY <1>23, BeginningsAreManifests DEF Crash, FilesInOrder
  <2>3. crashes' \in 0..MaxCrashes
    <3>1. crashes' = crashes + 1 /\ crashes < MaxCrashes
      BY <1>23 DEF Crash
    <3>2. crashes \in 0..MaxCrashes /\ MaxCrashes \in Nat
      BY InputsAssumption
    <3> HIDE <1>0 DEF FilesTyped, MemoryTyped, Counted, Typed, Places
    <3> QED BY <3>1, <3>2
  <2>4. plan' \in Plans \cup {Absent, Torn}
    BY <1>23, <2>1, <2>2 DEF Crash
  <2>5. MemoryTyped' /\ pc' \in Places
    BY <1>23, EndTyped DEF Crash
  <2> QED BY <1>23, <2>1, <2>2, <2>3, <2>4, <2>5 DEF Crash
<1>24. ASSUME NEW n \in Names, NEW h \in Hashes, EditSample(n, h) PROVE Typed'
  <2>1. Edit("samples", FALSE) /\ samples' \in [Names -> Hashes]
    BY <1>24 DEF EditSample
  <2> QED BY <1>24, <2>1, EditTyped DEF EditSample
<1>25. ASSUME NEW i \in Indexes, NEW h \in Hashes \cup {Gone}, EditMirror(i, h)
       PROVE  Typed'
  <2>1. Edit("mirror", pc = "hash sample" /\ i = Case) /\ mirror' \in Mirrors
    BY <1>25 DEF EditMirror, Mirrors
  <2> QED BY <1>25, <2>1, EditTyped DEF EditMirror
<1>26. ASSUME NEW m \in Rewritten, EditSource(m) PROVE Typed'
  <2>1. Edit("source", FALSE) /\ m \in Manifests
    BY <1>26, InputsAssumption DEF EditSource
  <2> QED BY <1>26, <2>1, EditTyped DEF EditSource
<1>27. ASSUME NEW m \in Rewritten, EditCopy(m) PROVE Typed'
  <2>1. Edit("copy", pc = "hash copy") /\ m \in Manifests
    BY <1>27, InputsAssumption DEF EditCopy
  <2> QED BY <1>27, <2>1, EditTyped DEF EditCopy
<1>28. ASSUME NEW c \in SUBSET Indexes \ {{}}, NEW fit \in BOOLEAN, EditPlan(c, fit)
       PROVE  Typed'
  <2>1. plan \in Plans /\ copy \in Manifests
    BY <1>28 DEF EditPlan, FilesInOrder
  <2>2. Edit("plan", FALSE) /\ plan' \in Plans
    BY <1>28, <2>1 DEF EditPlan, Plans
  <2> QED BY <1>28, <2>2, EditTyped DEF EditPlan
<1>29. CASE UNCHANGED vars
  <2>1. MemoryTyped'
    BY <1>29, MemoryStays DEF vars
  <2>2. FilesTyped' /\ pc' \in Places
    BY <1>29 DEF vars
  <2>3. Counted'
    BY <1>29 DEF vars
  <2> QED BY <2>1, <2>2, <2>3
<1> HIDE DEF Typed
<1> QED
  BY <1>1, <1>2, <1>3, <1>4, <1>5, <1>6, <1>7, <1>8, <1>9, <1>10, <1>11, <1>12,
     <1>13, <1>14, <1>15, <1>16, <1>17, <1>18, <1>19, <1>20, <1>21, <1>22, <1>23,
     <1>24, <1>25, <1>26, <1>27, <1>28, <1>29 DEF Next

-----------------------------------------------------------------------------
(* The order of the files, and the place of the process *)

LEMMA EndIsIdle ==
  End => pc' = "idle" /\ how'.mode = "run" /\ how'.from = "source"
BY DEF End, Forget, Idle

\* Every step keeps the order of the files.
LEMMA FilesStep ==
  ASSUME TypeOK, FilesInOrder, PlaceFits, [Next]_vars
  PROVE  FilesInOrder'
<1> USE DEF FilesInOrder, Indexing, Opening, Running, inputs, batch
<1>0. /\ Absent \notin Mirrors /\ Absent \notin Manifests
      /\ Absent \notin Plans /\ Absent \notin States /\ Torn \notin Plans
  BY InputsAssumption
<1>1. ASSUME NEW h \in Commands, Begin(h) PROVE FilesInOrder'
  <2>1. [i \in Indexes |-> Gone] # Absent
    BY <1>0 DEF Mirrors
  <2>2. h.from \in {"directory", "source", "copy"}
    BY DEF Commands
  <2> QED BY <1>1, <2>1, <2>2 DEF Begin, Manifest
<1>2. ASSUME Scan PROVE FilesInOrder'
  BY <1>2 DEF Scan
<1>3. ASSUME CopyMirror PROVE FilesInOrder'
  <2>1. mirror' # Absent
    BY <1>0, <1>3, MirrorIsCopied
  <2> QED BY <1>3, <2>1 DEF CopyMirror
<1>4. ASSUME WriteManifest PROVE FilesInOrder'
  <2>1. source' # Absent
    BY <1>0, <1>4, ManifestIsWritten
  <2> QED BY <1>4, <2>1 DEF WriteManifest, Manifest, PlaceFits
<1>5. ASSUME ParseManifest PROVE FilesInOrder'
  BY <1>5, EndIsIdle DEF ParseManifest, Manifest
<1>6. ASSUME HashManifest PROVE FilesInOrder'
  BY <1>6, EndIsIdle DEF HashManifest, Manifest, PlaceFits
<1>7. ASSUME CopyManifest PROVE FilesInOrder'
  BY <1>7, EndIsIdle DEF CopyManifest
<1>8. ASSUME WritePlan PROVE FilesInOrder'
  <2>1. plan' \in Plans
    BY <1>8 DEF WritePlan, Plans, TypeOK
  <2> QED BY <1>0, <1>8, <2>1 DEF WritePlan
<1>9. ASSUME WriteState PROVE FilesInOrder'
  <2>1. state' \in States
    BY <1>9 DEF WriteState, Initial, States, Plans, TypeOK
  <2> QED BY <1>0, <1>9, <2>1, EndIsIdle DEF WriteState
<1>10. ASSUME LoadPlan \/ MatchRequest PROVE FilesInOrder'
  BY <1>10, EndIsIdle DEF LoadPlan, MatchRequest
<1>11. ASSUME NEW yes \in BOOLEAN, Confirm(yes) PROVE FilesInOrder'
  BY <1>11, EndIsIdle DEF Confirm
<1>12. ASSUME ReadPlan \/ HashPlan \/ ReadCopy \/ HashCopy PROVE FilesInOrder'
  BY <1>12, EndIsIdle DEF ReadPlan, HashPlan, ReadCopy, HashCopy
<1>13. ASSUME Open PROVE FilesInOrder'
  <2>1. state' # Absent
    <3>1. Initial \in States
      BY DEF Initial, States, Plans, TypeOK
    <3> QED BY <1>0, <1>13, <3>1 DEF Open
  <2> QED BY <1>13, <2>1, EndIsIdle DEF Open
<1>14. ASSUME NEW passes \in BOOLEAN, Preflight(passes) PROVE FilesInOrder'
  BY <1>14, EndIsIdle DEF Preflight
<1>15. ASSUME Validate \/ HashSample \/ Upload \/ Launch \/ FailCase PROVE FilesInOrder'
  BY <1>15 DEF Validate, HashSample, Upload, Launch, FailCase
<1>16. ASSUME NEW done \in BOOLEAN, NEW burns \in BOOLEAN, NEW goesOn \in BOOLEAN,
              Record(done, burns, goesOn)
       PROVE  FilesInOrder'
  <2>1. state' \in States /\ mirror' \in Mirrors
    BY <1>16, ResultIsRecorded
  <2> QED BY <1>0, <1>16, <2>1, EndIsIdle DEF Record
<1>17. ASSUME Crash PROVE FilesInOrder'
  BY <1>0, <1>17, EndIsIdle, ListedIsManifest, BeginningsAreManifests
     DEF Crash, TypeOK, PlaceFits
<1>18. ASSUME NEW n \in Names, NEW h \in Hashes, EditSample(n, h) PROVE FilesInOrder'
  BY <1>18 DEF EditSample, Edit, memory, mind, Manifest
<1>19. ASSUME NEW i \in Indexes, NEW h \in Hashes \cup {Gone}, EditMirror(i, h)
       PROVE  FilesInOrder'
  <2>1. mirror' \in Mirrors
    BY <1>19 DEF EditMirror, Mirrors, TypeOK
  <2> QED BY <1>0, <1>19, <2>1 DEF EditMirror, Edit, memory, mind, Manifest
<1>20. ASSUME NEW m \in Rewritten, EditSource(m) \/ EditCopy(m) PROVE FilesInOrder'
  <2>1. m # Absent
    BY <1>0, InputsAssumption
  <2> QED BY <1>20, <2>1 DEF EditSource, EditCopy, Edit, memory, mind, Manifest
<1>21. ASSUME NEW c \in SUBSET Indexes \ {{}}, NEW fit \in BOOLEAN, EditPlan(c, fit)
       PROVE  FilesInOrder'
  <2>1. plan' \in Plans
    BY <1>21 DEF EditPlan, Plans, TypeOK
  <2> QED BY <1>0, <1>21, <2>1 DEF EditPlan, Edit, memory, mind, Manifest
<1>22. CASE UNCHANGED vars
  BY <1>22 DEF vars, memory, mind, Manifest
<1> QED
  BY <1>1, <1>2, <1>3, <1>4, <1>5, <1>6, <1>7, <1>8, <1>9, <1>10, <1>11, <1>12,
     <1>13, <1>14, <1>15, <1>16, <1>17, <1>18, <1>19, <1>20, <1>21, <1>22 DEF Next

\* Every step keeps what memory holds at each place.
LEMMA PlaceStep ==
  ASSUME TypeOK, FilesInOrder, PlaceFits, [Next]_vars
  PROVE  PlaceFits'
<1> USE DEF PlaceFits, Indexing, Opening, Running
<1>1. ASSUME NEW h \in Commands, Begin(h) PROVE PlaceFits'
  BY <1>1 DEF Begin
<1>2. ASSUME Scan PROVE PlaceFits'
  BY <1>2 DEF Scan, TypeOK
<1>3. ASSUME CopyMirror \/ WriteManifest PROVE PlaceFits'
  BY <1>3 DEF CopyMirror, WriteManifest, memory, mind
<1>4. ASSUME ParseManifest \/ HashManifest PROVE PlaceFits'
  BY <1>4, EndIsIdle DEF ParseManifest, HashManifest
<1>5. ASSUME CopyManifest \/ WritePlan \/ WriteState PROVE PlaceFits'
  BY <1>5, EndIsIdle DEF CopyManifest, WritePlan, WriteState, memory, mind
<1>6. ASSUME LoadPlan \/ MatchRequest PROVE PlaceFits'
  BY <1>6, EndIsIdle DEF LoadPlan, MatchRequest, memory, mind
<1>7. ASSUME NEW yes \in BOOLEAN, Confirm(yes) PROVE PlaceFits'
  BY <1>7, EndIsIdle DEF Confirm, Forget, Idle
<1>8. ASSUME ReadPlan \/ HashPlan \/ ReadCopy \/ HashCopy PROVE PlaceFits'
  BY <1>8, EndIsIdle DEF ReadPlan, HashPlan, ReadCopy, HashCopy
<1>9. ASSUME Open PROVE PlaceFits'
  BY <1>9, EndIsIdle DEF Open, ToRun
<1>10. ASSUME NEW passes \in BOOLEAN, Preflight(passes) PROVE PlaceFits'
  BY <1>10, EndIsIdle DEF Preflight, memory, mind
<1>11. ASSUME Validate \/ HashSample \/ Upload \/ Launch \/ FailCase PROVE PlaceFits'
  BY <1>11 DEF Validate, HashSample, Upload, Launch, FailCase, memory, mind
<1>12. ASSUME NEW done \in BOOLEAN, NEW burns \in BOOLEAN, NEW goesOn \in BOOLEAN,
              Record(done, burns, goesOn)
       PROVE  PlaceFits'
  <2>1. Case \in todo
    BY <1>12, CaseIsToDo DEF Record, TypeOK
  <2> QED BY <1>12, <2>1, EndIsIdle DEF Record
<1>13. ASSUME Crash PROVE PlaceFits'
  BY <1>13, EndIsIdle DEF Crash
<1>14. ASSUME NEW file, NEW slipsIn, Edit(file, slipsIn) PROVE PlaceFits'
  BY <1>14 DEF Edit, memory, mind
<1>15. CASE UNCHANGED vars
  BY <1>15 DEF vars, memory, mind
<1> QED
  BY <1>1, <1>2, <1>3, <1>4, <1>5, <1>6, <1>7, <1>8, <1>9, <1>10, <1>11, <1>12,
     <1>13, <1>14, <1>15
     DEF Next, EditSample, EditMirror, EditSource, EditCopy, EditPlan

-----------------------------------------------------------------------------
(* Two readings of a file *)

\* Every step keeps the agreement of what was read with what is compared.
LEMMA ReadingStep ==
  ASSUME TypeOK, FilesInOrder, PlaceFits, ReadingsAgree, [Next]_vars
  PROVE  ReadingsAgree'
<1> USE DEF ReadingsAgree, Opening, Running, inputs, batch
<1>1. ASSUME NEW h \in Commands, Begin(h) PROVE ReadingsAgree'
  BY <1>1 DEF Begin, history
<1>2. ASSUME Scan \/ CopyMirror PROVE ReadingsAgree'
  BY <1>2 DEF Scan, CopyMirror, history
<1>3. ASSUME WriteManifest PROVE ReadingsAgree'
  BY <1>3 DEF WriteManifest
<1>4. ASSUME ParseManifest PROVE ReadingsAgree'
  BY <1>4, EndIsIdle DEF ParseManifest, history
<1>5. ASSUME HashManifest PROVE ReadingsAgree'
  BY <1>5, EndIsIdle DEF HashManifest, history
<1>6. ASSUME CopyManifest PROVE ReadingsAgree'
  BY <1>6, EndIsIdle DEF CopyManifest, memory, mind, history
<1>7. ASSUME WritePlan PROVE ReadingsAgree'
  BY <1>7 DEF WritePlan, history
<1>8. ASSUME WriteState PROVE ReadingsAgree'
  BY <1>8, EndIsIdle DEF WriteState, memory, mind, history
<1>9. ASSUME LoadPlan \/ MatchRequest PROVE ReadingsAgree'
  BY <1>9, EndIsIdle DEF LoadPlan, MatchRequest, memory, mind, history
<1>10. ASSUME NEW yes \in BOOLEAN, Confirm(yes) PROVE ReadingsAgree'
  BY <1>10, EndIsIdle DEF Confirm, history
<1>11. ASSUME ReadPlan \/ HashPlan PROVE ReadingsAgree'
  BY <1>11 DEF ReadPlan, HashPlan, FilesInOrder, history
<1>12. ASSUME ReadCopy \/ HashCopy PROVE ReadingsAgree'
  BY <1>12, EndIsIdle DEF ReadCopy, HashCopy, InputsMatch, history
<1>13. ASSUME Open PROVE ReadingsAgree'
  BY <1>13, EndIsIdle DEF Open, history
<1>14. ASSUME NEW passes \in BOOLEAN, Preflight(passes) PROVE ReadingsAgree'
  BY <1>14, EndIsIdle DEF Preflight, memory, mind, history
<1>15. ASSUME Validate PROVE ReadingsAgree'
  BY <1>15 DEF Validate, FitsEntry, Case, memory, mind, history
<1>16. ASSUME HashSample PROVE ReadingsAgree'
  <2>1. sample'.hash = mirror[Case] /\ Case' = Case
    BY <1>16 DEF HashSample, TypeOK, Case
  <2> QED BY <1>16, <2>1 DEF HashSample, history
<1>17. ASSUME Upload PROVE ReadingsAgree'
  <2>1. sample'.hash = sample.hash /\ Case' = Case
    BY <1>17 DEF Upload, TypeOK, Case
  <2> QED BY <1>17, <2>1 DEF Upload, history
<1>18. ASSUME Launch \/ FailCase PROVE ReadingsAgree'
  BY <1>18 DEF Launch, FailCase, memory, mind, history
<1>19. ASSUME NEW done \in BOOLEAN, NEW burns \in BOOLEAN, NEW goesOn \in BOOLEAN,
              Record(done, burns, goesOn)
       PROVE  ReadingsAgree'
  BY <1>19, EndIsIdle DEF Record, history
<1>20. ASSUME Crash PROVE ReadingsAgree'
  BY <1>20, EndIsIdle DEF Crash
<1>21. ASSUME NEW n \in Names, NEW h \in Hashes, EditSample(n, h) PROVE ReadingsAgree'
  BY <1>21 DEF EditSample, Edit, Case, memory, mind
<1>22. ASSUME NEW i \in Indexes, NEW h \in Hashes \cup {Gone}, EditMirror(i, h)
       PROVE  ReadingsAgree'
  <2>1. /\ pc' = pc /\ copy' = copy /\ entries' = entries /\ planned' = planned
        /\ sample' = sample /\ Case' = Case
    BY <1>22 DEF EditMirror, Edit, Case, mind
  <2>2. slips \subseteq slips' /\ (pc = "hash sample" /\ i = Case => "mirror" \in slips')
    BY <1>22 DEF EditMirror, Edit
  <2>3. pc = "hash sample" /\ i # Case => mirror'[Case] = mirror[Case]
    <3>1. pc = "hash sample" => Case \in Indexes
      BY CaseIsToDo DEF TypeOK, PlaceFits
    <3>2. mirror \in Mirrors /\ mirror' = [mirror EXCEPT ![i] = h]
      BY <1>22 DEF EditMirror, TypeOK
    <3> QED BY <3>1, <3>2 DEF Mirrors
  <2> QED BY <2>1, <2>2, <2>3
<1>23. ASSUME NEW m \in Rewritten, EditSource(m) \/ EditCopy(m) PROVE ReadingsAgree'
  <2>1. /\ pc' = pc /\ mirror' = mirror /\ entries' = entries /\ planned' = planned
        /\ sample' = sample /\ Case' = Case
    BY <1>23 DEF EditSource, EditCopy, Edit, Case, mind
  <2>2. slips \subseteq slips' /\ (copy' = copy \/ (pc = "hash copy" => "copy" \in slips'))
    BY <1>23 DEF EditSource, EditCopy, Edit
  <2> QED BY <2>1, <2>2
<1>24. ASSUME NEW c \in SUBSET Indexes \ {{}}, NEW fit \in BOOLEAN, EditPlan(c, fit)
       PROVE  ReadingsAgree'
  BY <1>24 DEF EditPlan, Edit, Case, memory, mind
<1>25. CASE UNCHANGED vars
  BY <1>25 DEF vars, Case, memory, mind, history
<1> QED
  BY <1>1, <1>2, <1>3, <1>4, <1>5, <1>6, <1>7, <1>8, <1>9, <1>10, <1>11, <1>12,
     <1>13, <1>14, <1>15, <1>16, <1>17, <1>18, <1>19, <1>20, <1>21, <1>22, <1>23,
     <1>24, <1>25 DEF Next

\* Every step keeps the state file the one account of what is launched.
LEMMA SettlesStep ==
  ASSUME TypeOK, FilesInOrder, PlaceFits, StateSettles, [Next]_vars
  PROVE  StateSettles'
<1> USE DEF StateSettles, Opening, Running, inputs, batch
<1>1. ASSUME NEW h \in Commands, Begin(h) PROVE StateSettles'
  BY <1>1 DEF Begin, history
<1>2. ASSUME Scan \/ CopyMirror \/ WriteManifest PROVE StateSettles'
  BY <1>2 DEF Scan, CopyMirror, WriteManifest, memory, mind, history
<1>3. ASSUME ParseManifest \/ HashManifest PROVE StateSettles'
  BY <1>3, EndIsIdle DEF ParseManifest, HashManifest, history
<1>4. ASSUME CopyManifest \/ WritePlan PROVE StateSettles'
  BY <1>4, EndIsIdle DEF CopyManifest, WritePlan, memory, mind, history
<1>5. ASSUME WriteState PROVE StateSettles'
  <2>1. launches = {}
    BY <1>5 DEF WriteState, FilesInOrder
  <2> QED BY <1>5, <2>1, EndIsIdle DEF WriteState, memory, mind, history
<1>6. ASSUME LoadPlan \/ MatchRequest PROVE StateSettles'
  BY <1>6, EndIsIdle DEF LoadPlan, MatchRequest, PlaceFits, memory, mind, history
<1>7. ASSUME NEW yes \in BOOLEAN, Confirm(yes) PROVE StateSettles'
  <2>1. pc' = "read plan" => how'.mode = how.mode
    BY <1>7, EndIsIdle DEF Confirm, Forget, Idle
  <2> QED BY <1>7, <2>1, EndIsIdle DEF Confirm, history
<1>8. ASSUME ReadPlan \/ HashPlan \/ ReadCopy \/ HashCopy PROVE StateSettles'
  BY <1>8, EndIsIdle DEF ReadPlan, HashPlan, ReadCopy, HashCopy, history
<1>9. ASSUME Open PROVE StateSettles'
  <2>1. /\ state # Absent /\ launches' = launches
        /\ planned \in Plans /\ planDigest \in Plans
    BY <1>9 DEF Open, FilesInOrder, history, TypeOK
  <2>2. CASE how.mode = "run"
    <3>1. state' = Initial /\ planned' = planned
      BY <1>9, <2>2 DEF Open
    <3>2. state'.manifest = planned'.manifest /\ state'.chosen = planned'.chosen
      BY <3>1 DEF Initial
    <3>3. launches = {} /\ pc' = "preflight" /\ state' # Absent
      <4>1. Initial \in States
        BY <2>1 DEF Initial, States, Plans
      <4> QED BY <1>9, <2>2, <3>1, <4>1, InputsAssumption DEF Open
    <3> QED BY <2>1, <3>2, <3>3
  <2>3. CASE how.mode # "run" /\ ~End
    <3>1. state' = state /\ planned' = planned /\ StateMatches(planned, planDigest)
          /\ pc' = "preflight"
      BY <1>9, <2>3 DEF Open
    <3> QED BY <2>1, <3>1 DEF StateMatches
  <2>4. CASE how.mode # "run" /\ End
    <3>1. state' = state
      BY <1>9, <2>4 DEF Open
    <3> QED BY <2>1, <2>4, <3>1, EndIsIdle
  <2> QED BY <2>2, <2>3, <2>4
<1>10. ASSUME NEW passes \in BOOLEAN, Preflight(passes) PROVE StateSettles'
  BY <1>10, EndIsIdle DEF Preflight, memory, mind, history
<1>11. ASSUME Validate \/ HashSample \/ Upload \/ FailCase PROVE StateSettles'
  BY <1>11 DEF Validate, HashSample, Upload, FailCase, memory, mind, history
<1>12. ASSUME Launch PROVE StateSettles'
  BY <1>12 DEF Launch, FilesInOrder, memory, mind
<1>13. ASSUME NEW done \in BOOLEAN, NEW burns \in BOOLEAN, NEW goesOn \in BOOLEAN,
              Record(done, burns, goesOn)
       PROVE  StateSettles'
  <2>1. state'.manifest = state.manifest /\ state'.chosen = state.chosen
    BY <1>13, ResultIsRecorded
  <2>2. state' # Absent
    BY <1>13, ResultIsRecorded, InputsAssumption
  <2> QED BY <1>13, <2>1, <2>2, EndIsIdle DEF Record, history
<1>14. ASSUME Crash PROVE StateSettles'
  BY <1>14, EndIsIdle DEF Crash, history
<1>15. ASSUME NEW file, NEW slipsIn, Edit(file, slipsIn) PROVE StateSettles'
  BY <1>15 DEF Edit, memory, mind
<1>16. CASE UNCHANGED vars
  BY <1>16 DEF vars, memory, mind, history
<1> QED
  BY <1>1, <1>2, <1>3, <1>4, <1>5, <1>6, <1>7, <1>8, <1>9, <1>10, <1>11, <1>12,
     <1>13, <1>14, <1>15, <1>16
     DEF Next, EditSample, EditMirror, EditSource, EditCopy, EditPlan

\* What the worker launches is what the manifest of the plan lists.
LEMMA LaunchStep ==
  ASSUME TypeOK, PlaceFits, ReadingsAgree, LaunchedAsListed, [Next]_vars
  PROVE  LaunchedAsListed'
<1>1. ASSUME Launch PROVE LaunchedAsListed'
  <2>1. Case \in planned.chosen
    BY <1>1, CaseIsToDo DEF Launch, TypeOK, PlaceFits, Running
  <2>2. WorkerAccepts /\ slips = {} => sample.sent = planned.manifest[Case]
    BY <1>1 DEF Launch, WorkerAccepts, ReadingsAgree, Running
  <2> QED BY <1>1, <2>1, <2>2 DEF Launch, LaunchedAsListed
<1>2. ASSUME Next, ~Launch PROVE launches' = launches
  BY <1>2
     DEF Next, Begin, Scan, CopyMirror, WriteManifest, ParseManifest, HashManifest,
         CopyManifest, WritePlan, WriteState, LoadPlan, MatchRequest, Confirm,
         ReadPlan, HashPlan, ReadCopy, HashCopy, Open, Preflight, Validate, HashSample,
         Upload, FailCase, Record, Crash, EditSample, EditMirror, EditSource,
         EditCopy, EditPlan, Edit, history
<1> QED BY <1>1, <1>2 DEF LaunchedAsListed, vars, history

-----------------------------------------------------------------------------
(* A state file means a whole batch *)

\* Every step keeps planning and its files whole, as long as nobody edits them.
LEMMA WholeStep ==
  ASSUME TypeOK, FilesInOrder, PlaceFits, PlanningWhole, StateMeansWhole, [Next]_vars
  PROVE  PlanningWhole' /\ StateMeansWhole'
<1> DEFINE Untouched == edited \cap {"source", "copy", "plan"} = {}
           Whole == PlanningWhole /\ StateMeansWhole
<1> SUFFICES ASSUME Untouched' PROVE Whole'
  BY DEF PlanningWhole, StateMeansWhole
<1>0. edited \subseteq edited'
  BY DEF Next, vars, Begin, Scan, CopyMirror, WriteManifest, ParseManifest, HashManifest,
         CopyManifest, WritePlan, WriteState, LoadPlan, MatchRequest, Confirm,
         ReadPlan, HashPlan, ReadCopy, HashCopy, Open, Preflight, Validate, HashSample,
         Upload, Launch, FailCase, Record, Crash, EditSample, EditMirror, EditSource,
         EditCopy, EditPlan, Edit, history
<1> USE <1>0 DEF PlanningWhole, StateMeansWhole, StateMatches, Opening, inputs, batch
<1>1. ASSUME NEW h \in Commands, Begin(h) PROVE Whole'
  BY <1>1 DEF Begin
<1>2. ASSUME Scan \/ CopyMirror \/ WriteManifest PROVE Whole'
  BY <1>2 DEF Scan, CopyMirror, WriteManifest
<1>3. ASSUME ParseManifest PROVE Whole'
  BY <1>3, EndIsIdle DEF ParseManifest, Manifest
<1>4. ASSUME HashManifest PROVE Whole'
  <2>1. Select(how.request, DOMAIN entries) \subseteq DOMAIN entries
    BY SelectsAvailable
  <2>2. how.mode = "run" => Manifest = source
    BY <1>4 DEF Manifest, PlaceFits
  <2> QED BY <1>4, <2>1, <2>2, EndIsIdle DEF HashManifest
<1>5. ASSUME CopyManifest PROVE Whole'
  BY <1>5, EndIsIdle DEF CopyManifest, memory, mind
<1>6. ASSUME WritePlan PROVE Whole'
  BY <1>6 DEF WritePlan, FilesInOrder
<1>7. ASSUME WriteState PROVE Whole'
  <2>1. plan \notin {Absent, Torn}
    BY <1>7 DEF WriteState, FilesInOrder
  <2> QED BY <1>7, <2>1, EndIsIdle DEF WriteState, Initial, memory, mind
<1>8. ASSUME LoadPlan \/ MatchRequest PROVE Whole'
  BY <1>8, EndIsIdle DEF LoadPlan, MatchRequest, memory, mind
<1>9. ASSUME NEW yes \in BOOLEAN, Confirm(yes) PROVE Whole'
  BY <1>9, EndIsIdle DEF Confirm
<1>10. ASSUME ReadPlan \/ HashPlan \/ ReadCopy \/ HashCopy PROVE Whole'
  BY <1>10, EndIsIdle DEF ReadPlan, HashPlan, ReadCopy, HashCopy
<1>11. ASSUME Open PROVE Whole'
  <2>1. plan' = plan /\ copy' = copy /\ edited' = edited /\ state # Absent
    BY <1>11 DEF Open, FilesInOrder, history
  <2>2. CASE how.mode = "run"
    <3>1. state' = Initial /\ planned = plan /\ planDigest = plan
      BY <1>11, <2>1, <2>2 DEF Open
    <3>2. state'.plan = plan /\ state'.manifest = plan.manifest /\ state'.chosen = plan.chosen
      BY <3>1 DEF Initial
    <3> QED BY <1>11, <2>1, <2>2, <3>2 DEF Open
  <2>3. CASE how.mode # "run"
    <3>1. state' = state /\ pc' \in {"preflight", "idle"}
      BY <1>11, <2>3, EndIsIdle DEF Open
    <3> QED BY <2>1, <3>1
  <2> QED BY <2>2, <2>3
<1>12. ASSUME NEW passes \in BOOLEAN, Preflight(passes) PROVE Whole'
  BY <1>12, EndIsIdle DEF Preflight, memory, mind
<1>13. ASSUME Validate \/ HashSample \/ Upload \/ Launch \/ FailCase PROVE Whole'
  BY <1>13 DEF Validate, HashSample, Upload, Launch, FailCase, memory, mind
<1>14. ASSUME NEW done \in BOOLEAN, NEW burns \in BOOLEAN, NEW goesOn \in BOOLEAN,
              Record(done, burns, goesOn)
       PROVE  Whole'
  <2>1. /\ state'.plan = state.plan /\ state'.manifest = state.manifest
        /\ state'.chosen = state.chosen
    BY <1>14, ResultIsRecorded
  <2>2. state # Absent
    BY <1>14 DEF Record, FilesInOrder, Running
  <2> QED BY <1>14, <2>1, <2>2, EndIsIdle DEF Record
<1>15. ASSUME Crash PROVE Whole'
  BY <1>15, EndIsIdle DEF Crash, FilesInOrder
<1>16. ASSUME NEW n \in Names, NEW h \in Hashes, EditSample(n, h) PROVE Whole'
  BY <1>16 DEF EditSample, Edit, Manifest, memory, mind
<1>17. ASSUME NEW i \in Indexes, NEW h \in Hashes \cup {Gone}, EditMirror(i, h)
       PROVE  Whole'
  BY <1>17 DEF EditMirror, Edit, Manifest, memory, mind
<1>18. ASSUME NEW m \in Rewritten, EditSource(m) \/ EditCopy(m) PROVE FALSE
  BY <1>18 DEF EditSource, EditCopy, Edit
<1>19. ASSUME NEW c \in SUBSET Indexes \ {{}}, NEW fit \in BOOLEAN, EditPlan(c, fit)
       PROVE  FALSE
  BY <1>19 DEF EditPlan, Edit
<1>20. CASE UNCHANGED vars
  BY <1>20 DEF vars, Manifest, memory, mind
<1> HIDE DEF Whole, Untouched
<1> QED
  BY <1>1, <1>2, <1>3, <1>4, <1>5, <1>6, <1>7, <1>8, <1>9, <1>10, <1>11, <1>12,
     <1>13, <1>14, <1>15, <1>16, <1>17, <1>18, <1>19, <1>20 DEF Next

-----------------------------------------------------------------------------
(* The theorems *)

LEMMA InitCorrect == Init => InputsInv
<1> SUFFICES ASSUME Init PROVE InputsInv
  OBVIOUS
<1>1. samples \in [Names -> Hashes]
  <2>1. CASE indexed
    BY <2>1, InputsAssumption DEF Init
  <2>2. CASE ~indexed
    <3>1. source \in Manifests \ {<<>>}
      BY <2>2, InputsAssumption DEF Init
    <3>2. PICK D \in SUBSET Indexes : source \in [D -> Hashes]
      BY <3>1 DEF Manifests
    <3>3. D # {}
      <4>1. \A f \in [{} -> Hashes] : f = <<>>
        <5> TAKE f \in [{} -> Hashes]
        <5>1. f = [x \in {} |-> f[x]] /\ <<>> = [x \in {} |-> f[x]]
          OBVIOUS
        <5> QED BY <5>1
      <4> QED BY <3>1, <3>2, <4>1
    <3>4. Hashes # {}
      BY <3>2, <3>3
    <3>5. Nth(Hashes, 1) \in Hashes
      BY <3>4, InputsAssumption, FirstIsMember
    <3> QED BY <2>2, <3>5 DEF Init
  <2> QED BY <2>1, <2>2 DEF Init
<1>2. source \in Manifests \cup {Absent}
  BY InputsAssumption DEF Init
<1>3. mirror \in Mirrors \/ (source = Absent /\ mirror = Absent)
  <2>1. CASE indexed
    BY <2>1 DEF Init
  <2>2. CASE ~indexed
    <3>1. source \in Manifests
      BY <2>2, InputsAssumption DEF Init
    <3>2. PICK D \in SUBSET Indexes : source \in [D -> Hashes]
      BY <3>1 DEF Manifests
    <3> DEFINE listed(i) == IF i \in DOMAIN source THEN source[i] ELSE Gone
    <3>3. \A i \in Indexes : listed(i) \in Hashes \cup {Gone}
      BY <3>2
    <3>4. mirror = [i \in Indexes |-> listed(i)]
      BY <2>2 DEF Init
    <3> HIDE DEF listed
    <3>5. mirror \in Mirrors
      BY <3>3, <3>4 DEF Mirrors
    <3> QED BY <3>5
  <2> QED BY <2>1, <2>2 DEF Init
<1>4. TypeOK
  <2>1. FilesTyped
    BY <1>1, <1>2, <1>3 DEF Init, FilesTyped
  <2>2. MemoryTyped
    BY ForgetTyped DEF Init, MemoryTyped, NoSample
  <2>3. pc \in Places /\ Counted
    BY InputsAssumption DEF Init, Places, Counted
  <2> QED BY <2>1, <2>2, <2>3, TypeOKParts
<1>5. mirror = Absent => source = Absent
  BY <1>3, InputsAssumption
<1>6. FilesInOrder
  BY <1>5 DEF Init, FilesInOrder, Indexing, Opening, Running
<1>7. PlaceFits /\ ReadingsAgree
  BY DEF Init, Idle, PlaceFits, ReadingsAgree, Indexing, Opening, Running
<1>8. StateSettles /\ LaunchedAsListed
  BY DEF Init, StateSettles, LaunchedAsListed, Opening, Running
<1>9. PlanningWhole /\ StateMeansWhole
  BY DEF Init, PlanningWhole, StateMeansWhole, Opening
<1> QED BY <1>4, <1>6, <1>7, <1>8, <1>9 DEF InputsInv

\* Every variable has its type; the files of a batch are in order; a state file
\* means a plan and a manifest that can be executed, whatever crashed, unless
\* one of them was edited (plan_multi_run_batch and execute_multi_run_batch).
THEOREM InputsCorrect == Spec => []InputsInv
<1>1. Init => InputsInv
  BY InitCorrect
<1>2. InputsInv /\ [Next]_vars => InputsInv'
  BY TypeStep, FilesStep, PlaceStep, ReadingStep, SettlesStep, WholeStep, LaunchStep
     DEF InputsInv
<1> QED BY <1>1, <1>2, PTL DEF Spec

\* The bytes launched are the ones that the manifest lists, for any number of
\* samples, processes, edits and crashes, unless an edit slipped in between the
\* batch's check of the mirror and the hash that the single run declares, or
\* between the two readings of the copied manifest.
THEOREM LaunchesAreListed == Spec => []LaunchedAsListed
<1>1. InputsInv => LaunchedAsListed
  BY DEF InputsInv
<1> QED BY <1>1, InputsCorrect, PTL

\* All that a batch directory ever launches comes from one manifest and one
\* selection, although the plan can be edited between any two executions: each
\* execution is held to what the state file has.
THEOREM LaunchesShareInput == Spec => []OneInput
<1>1. InputsInv => OneInput
  BY DEF InputsInv, StateSettles, OneInput
<1> QED BY <1>1, InputsCorrect, PTL

=============================================================================
