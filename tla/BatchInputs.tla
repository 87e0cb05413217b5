----------------------------- MODULE BatchInputs -----------------------------
(***************************************************************************)
(* What a multi-run batch runs: from a directory of samples to the bytes   *)
(* that are launched in the guest.  src/src/cloud_av_agent_lab/            *)
(* orchestration/multi_run.py indexes the directory into a mirror and a    *)
(* manifest, selects from the manifest, copies it and writes a plan and a  *)
(* state file beside the copy; an execution, at once or in a later process *)
(* (--resume, --force-rerun), reads them all again.  Every file is read    *)
(* more than once, the first time for what it says and the second for its  *)
(* digest, and people may edit any of them in between; the process may die *)
(* anywhere.                                                               *)
(*                                                                         *)
(* One process works on the batch at a time (two are the subject of        *)
(* BatchExclusion).  A sample is its SHA-256, a number; a manifest lists   *)
(* one sample per index; the digest of a file is the file's content.       *)
(***************************************************************************)
EXTENDS Naturals, FiniteSets

CONSTANTS
  Names,        \* files in the sample directory, numbers
  Hashes,       \* samples, numbers
  Directories,  \* what the sample directory may hold
  Requests,     \* what an operator may select
  Given,        \* the manifests an operator may bring
  Rewritten,    \* the manifests an edit may leave
  MaxSessions,  \* bound on invocations
  MaxEdits,     \* bound on edits by hand
  MaxCrashes,   \* bound on crashes
  Absent,       \* the file does not exist
  Torn          \* the file holds the beginning of what was written

Indexes == 1..Cardinality(Names)
Gone == 0       \* the mirror of an index is not there

Mirrors == [Indexes -> Hashes \cup {Gone}]
Manifests == UNION {[D -> Hashes] : D \in SUBSET Indexes}

\* batch_plan.json: the digest of the manifest and selected_indexes.
Plans == [manifest: Manifests, chosen: SUBSET Indexes]

\* multi_run_state.json: the digest of the plan, what it was built from, and
\* the cases that are complete and those whose mirror is burned.
States == [plan: Plans, manifest: Manifests, chosen: SUBSET Indexes,
           done: SUBSET Indexes, burned: SUBSET Indexes]

\* --all (wants is {}), or the indexes of --range, --indexes or --from/--to;
\* --max-cases.
Selections == [wants: SUBSET Nat, max: Nat \ {0}]

ASSUME InputsAssumption ==
  /\ Names \subseteq Nat /\ IsFiniteSet(Names)
  /\ Hashes \subseteq Nat \ {Gone} /\ IsFiniteSet(Hashes)
  /\ Directories \subseteq [Names -> Hashes]
  /\ Requests # {}
  /\ \A r \in Requests : r.wants \subseteq Nat /\ r.max \in Nat \ {0}
  /\ Given \subseteq Manifests \ {<<>>} /\ Rewritten \subseteq Manifests \ {<<>>}
  /\ MaxSessions \in Nat /\ MaxEdits \in Nat /\ MaxCrashes \in Nat
  /\ Absent \notin Manifests \cup Plans \cup States \cup Mirrors
  /\ Torn \notin Plans

VARIABLES
  indexed,    \* the batch indexes a directory; else its manifest is given
  samples,    \* the sample directory
  mirror,     \* the indexed mirror that the manifest refers to
  source,     \* the manifest that planning reads
  copy,       \* sample_manifest.jsonl in the batch directory
  plan, state,
  edited,     \* the files someone edited
  launches,   \* what was launched: its bytes, what the plan executed says, and
              \* the edits that slipped in before
  pc,         \* where the process is; "idle" when there is none
  how,        \* its command line
  found,      \* what it hashed in the sample directory
  entries,    \* the manifest it parsed
  digest,     \* the digest of the manifest it hashed
  chosen,     \* its selection
  planned,    \* the plan it wrote or parsed
  planDigest, \* the digest of the plan it hashed
  todo,       \* the cases it has not begun
  sample,     \* the sample hash of the case, then the bytes it uploaded
  slips,      \* history: the files edited after the process compared or parsed
              \* them, and before it took their digest
  sessions, edits, crashes

inputs == <<indexed, samples, mirror, source>>
batch == <<copy, plan, state>>
history == <<edited, launches>>
mind == <<how, found, entries, digest, chosen, planned, planDigest, todo, sample>>
memory == <<mind, slips>>
bounds == <<sessions, edits, crashes>>
vars == <<inputs, batch, history, pc, memory, bounds>>

Indexing == {"scan", "mirror", "manifest"}
Planning == {"parse", "hash", "copy", "plan", "state"}
Loading == {"load", "match"}
Opening == {"read plan", "hash plan", "read copy", "hash copy", "open", "preflight"}
Running == {"validate", "hash sample", "upload", "launch", "record"}

Commands == [mode: {"run", "resume", "force_rerun"}, planOnly: BOOLEAN,
             from: {"directory", "source", "copy"}, request: Requests]

NoPlan == [manifest |-> <<>>, chosen |-> {}]
NoSample == [hash |-> Gone, sent |-> Gone]

TypeOK ==
  /\ indexed \in BOOLEAN
  /\ samples \in [Names -> Hashes]
  /\ mirror \in Mirrors \cup {Absent}
  /\ source \in Manifests \cup {Absent}
  /\ copy \in Manifests \cup {Absent}
  /\ plan \in Plans \cup {Absent, Torn}
  /\ state \in States \cup {Absent}
  /\ edited \subseteq {"samples", "mirror", "source", "copy", "plan"}
  /\ pc \in {"idle", "confirm"} \cup Indexing \cup Planning \cup Loading
             \cup Opening \cup Running
  /\ how \in Commands
  /\ found \in [Names -> Hashes \cup {Gone}]
  /\ entries \in Manifests /\ digest \in Manifests
  /\ chosen \subseteq Indexes
  /\ planned \in Plans /\ planDigest \in Plans
  /\ todo \subseteq Indexes
  /\ sample \in [hash: Hashes \cup {Gone}, sent: Hashes \cup {Gone}]
  /\ slips \subseteq {"copy", "mirror"}
  /\ sessions \in 0..MaxSessions /\ edits \in 0..MaxEdits /\ crashes \in 0..MaxCrashes

Idle == [mode |-> "run", planOnly |-> FALSE, from |-> "source",
         request |-> CHOOSE r \in Requests : TRUE]

\* Everything but the command line is dropped from memory.
Forget(h) ==
  /\ how' = h /\ found' = [n \in Names |-> Gone]
  /\ entries' = <<>> /\ digest' = <<>> /\ chosen' = {}
  /\ planned' = NoPlan /\ planDigest' = NoPlan
  /\ todo' = {} /\ sample' = NoSample /\ slips' = {}

\* The process has ended.
End == pc' = "idle" /\ Forget(Idle)

\* The k-th smallest number of a set; the numbers of a set that are among its
\* n smallest.
Nth(S, k) == CHOOSE x \in S : Cardinality({y \in S : y < x}) = k - 1
First(S, n) == {x \in S : Cardinality({y \in S : y < x}) < n}

\* A directory is indexed into mirrors and a manifest that are not there yet;
\* a manifest is given together with the mirror it lists.
Init ==
  /\ indexed \in BOOLEAN
  /\ samples \in IF indexed THEN Directories
                 ELSE {[n \in Names |-> Nth(Hashes, 1)]}
  /\ source \in IF indexed THEN {Absent} ELSE Given
  /\ mirror = IF indexed THEN Absent
              ELSE [i \in Indexes |-> IF i \in DOMAIN source THEN source[i] ELSE Gone]
  /\ copy = Absent /\ plan = Absent /\ state = Absent
  /\ edited = {} /\ launches = {}
  /\ pc = "idle"
  /\ how = Idle /\ found = [n \in Names |-> Gone]
  /\ entries = <<>> /\ digest = <<>> /\ chosen = {}
  /\ planned = NoPlan /\ planDigest = NoPlan
  /\ todo = {} /\ sample = NoSample /\ slips = {}
  /\ sessions = 0 /\ edits = 0 /\ crashes = 0

-----------------------------------------------------------------------------
(* Indexing and selecting *)

\* One index per distinct sample, in the order of their hashes.
Listed(hashes) == [k \in 1..Cardinality(hashes) |-> Nth(hashes, k)]

Distinct == {found[n] : n \in Names}

\* Of files that hold the same sample the first by name is copied.
Primary(h) == Nth({n \in Names : found[n] = h}, 1)

Beginnings(m) == {[i \in {j \in DOMAIN m : j <= k} |-> m[i]] : k \in {0} \cup DOMAIN m}

Wanted(r, available) == IF r.wants = {} THEN available ELSE r.wants

\* parse_sample_selection; {} when it refuses.
Select(r, available) ==
  IF Wanted(r, available) \subseteq available
    THEN First(Wanted(r, available), r.max)
    ELSE {}

Begin(h) ==
  /\ pc = "idle"
  /\ sessions < MaxSessions
  /\ sessions' = sessions + 1
  /\ h.planOnly => h.mode = "run"
  /\ h.from = "directory" => h.mode = "run" /\ indexed /\ mirror = Absent
  /\ h.from = "source" => source # Absent
  /\ h.from = "copy" => h.mode # "run" /\ copy # Absent
  /\ how' = h
  /\ IF h.from = "directory"
       THEN pc' = "scan" /\ mirror' = [i \in Indexes |-> Gone]
       ELSE pc' = "parse" /\ UNCHANGED mirror
  /\ UNCHANGED <<indexed, samples, source, batch, history, found, entries,
                 digest, chosen, planned, planDigest, todo, sample, slips, edits, crashes>>

Scan ==
  /\ pc = "scan"
  /\ found' = samples
  /\ pc' = "mirror"
  /\ UNCHANGED <<inputs, batch, history, how, entries, digest, chosen, planned,
                 planDigest, todo, sample, slips, bounds>>

\* The files are read again; what is copied is not hashed.
CopyMirror ==
  /\ pc = "mirror"
  /\ mirror' = [k \in Indexes |-> IF k \in DOMAIN Listed(Distinct)
                                    THEN samples[Primary(Listed(Distinct)[k])]
                                    ELSE Gone]
  /\ pc' = "manifest"
  /\ UNCHANGED <<indexed, samples, source, batch, history, memory, bounds>>

WriteManifest ==
  /\ pc = "manifest"
  /\ source' = Listed(Distinct)
  /\ found' = [n \in Names |-> Gone]
  /\ pc' = "parse"
  /\ UNCHANGED <<indexed, samples, mirror, batch, history, how, entries,
                 digest, chosen, planned, planDigest, todo, sample, slips, bounds>>

Manifest == IF how.from = "copy" THEN copy ELSE source

ParseManifest ==
  /\ pc = "parse"
  /\ IF Manifest = <<>> THEN End
     ELSE /\ entries' = Manifest
          /\ pc' = "hash"
          /\ UNCHANGED <<how, found, digest, chosen, planned, planDigest, todo, sample, slips>>
  /\ UNCHANGED <<inputs, batch, history, bounds>>

\* load_sample_manifest reads the file again for its digest; then the
\* operator's selection is made from what was parsed.
HashManifest ==
  /\ pc = "hash"
  /\ IF Select(how.request, DOMAIN entries) = {} THEN End
     ELSE /\ digest' = Manifest
          /\ chosen' = Select(how.request, DOMAIN entries)
          /\ pc' = IF how.mode = "run" THEN "copy" ELSE "load"
          /\ UNCHANGED <<how, found, entries, planned, planDigest, todo, sample, slips>>
  /\ UNCHANGED <<inputs, batch, history, bounds>>

-----------------------------------------------------------------------------
(* Planning *)

\* Seeded bug: planning does not look whether the directory holds a batch.
CopyManifestAgain ==
  /\ pc = "copy"
  /\ copy' = source
  /\ pc' = "plan"
  /\ UNCHANGED <<inputs, plan, state, history, memory, bounds>>

\* A batch directory is planned once; the manifest is read a third time.
CopyManifest ==
  /\ pc = "copy"
  /\ IF <<copy, plan, state>> # <<Absent, Absent, Absent>>
       THEN End /\ UNCHANGED copy
       ELSE copy' = source /\ pc' = "plan" /\ UNCHANGED memory
  /\ UNCHANGED <<inputs, plan, state, history, bounds>>

WritePlan ==
  /\ pc = "plan"
  /\ plan' = [manifest |-> digest, chosen |-> chosen]
  /\ planned' = plan'
  /\ planDigest' = plan'
  /\ pc' = "state"
  /\ UNCHANGED <<inputs, copy, state, history, how, found, entries, digest,
                 chosen, todo, sample, slips, bounds>>

\* _initial_multi_run_state
Initial == [plan |-> planDigest, manifest |-> planned.manifest,
            chosen |-> planned.chosen, done |-> {}, burned |-> {}]

WriteState ==
  /\ pc = "state"
  /\ state' = Initial
  /\ IF how.planOnly THEN End ELSE pc' = "confirm" /\ UNCHANGED memory
  /\ UNCHANGED <<inputs, copy, plan, history, bounds>>

-----------------------------------------------------------------------------
(* Coming back to a planned batch *)

\* Seeded bug: what was planned is not compared with the state file.
StateMatchesAny(p, d) == TRUE

\* _ensure_existing_batch_matches_request: the state against the plan p that
\* was parsed and the digest d of the plan.
StateMatches(p, d) ==
  state.plan = d /\ state.chosen = p.chosen /\ state.manifest = p.manifest

LoadPlan ==
  /\ pc = "load"
  /\ IF plan \in {Absent, Torn} THEN End
     ELSE /\ planned' = plan
          /\ pc' = "match"
          /\ UNCHANGED <<how, found, entries, digest, chosen, planDigest, todo, sample, slips>>
  /\ UNCHANGED <<inputs, batch, history, bounds>>

\* load_existing_multi_run_batch: the plan's digest is of a second reading.
MatchRequest ==
  /\ pc = "match"
  /\ IF /\ state # Absent
        /\ digest = planned.manifest
        /\ StateMatches(planned, plan)
        /\ chosen = planned.chosen
       THEN pc' = "confirm" /\ UNCHANGED memory
       ELSE End
  /\ UNCHANGED <<inputs, batch, history, bounds>>

-----------------------------------------------------------------------------
(* Opening the batch: everything is read once more *)

\* The execution is given the batch directory and the mode, nothing else.
Confirm(yes) ==
  /\ pc = "confirm"
  /\ IF yes THEN pc' = "read plan" /\ Forget([Idle EXCEPT !.mode = how.mode])
     ELSE End
  /\ UNCHANGED <<inputs, batch, history, bounds>>

ReadPlan ==
  /\ pc = "read plan"
  /\ planned' = plan
  /\ pc' = "hash plan"
  /\ UNCHANGED <<inputs, batch, history, how, found, entries, digest, chosen,
                 planDigest, todo, sample, slips, bounds>>

HashPlan ==
  /\ pc = "hash plan"
  /\ planDigest' = plan
  /\ pc' = "read copy"
  /\ UNCHANGED <<inputs, batch, history, how, found, entries, digest, chosen,
                 planned, todo, sample, slips, bounds>>

ReadCopy ==
  /\ pc = "read copy"
  /\ IF copy = <<>> THEN End
     ELSE /\ entries' = copy
          /\ pc' = "hash copy"
          /\ UNCHANGED <<how, found, digest, chosen, planned, planDigest, todo, sample, slips>>
  /\ UNCHANGED <<inputs, batch, history, bounds>>

\* _ensure_batch_inputs_match
InputsMatch(p, d) == d = p.manifest /\ p.chosen \subseteq DOMAIN entries

HashCopy ==
  /\ pc = "hash copy"
  /\ IF InputsMatch(planned, copy)
       THEN /\ digest' = copy
            /\ pc' = "open"
            /\ UNCHANGED <<how, found, entries, chosen, planned, planDigest, todo, sample, slips>>
       ELSE End
  /\ UNCHANGED <<inputs, batch, history, bounds>>

\* _should_run_case_for_mode
ToRun(s) == IF how.mode = "resume" THEN planned.chosen \ s.done ELSE planned.chosen

\* `run` starts from the plan it has just read, whatever was planned; the
\* other modes from the state file, if it fits that plan and asks for no case
\* whose mirror is burned.
Open ==
  /\ pc = "open"
  /\ LET s == IF how.mode = "run" THEN Initial ELSE state IN
     IF how.mode = "run" \/ (StateMatches(planned, planDigest)
                             /\ ToRun(state) \cap state.burned = {})
       THEN /\ state' = s
            /\ todo' = ToRun(s)
            /\ pc' = "preflight"
            /\ UNCHANGED <<how, found, entries, digest, chosen, planned, planDigest, sample, slips>>
       ELSE End /\ UNCHANGED state
  /\ UNCHANGED <<inputs, copy, plan, history, bounds>>

\* Digest and selection are compared again, as they were read; the other
\* checks may refuse.
Preflight(passes) ==
  /\ pc = "preflight"
  /\ IF passes /\ InputsMatch(planned, digest) /\ planned.chosen # {} /\ todo # {}
       THEN pc' = "validate" /\ UNCHANGED memory
       ELSE End
  /\ UNCHANGED <<inputs, batch, history, bounds>>

-----------------------------------------------------------------------------
(* One case after the other *)

Case == Nth(todo, 1)

\* Seeded bug: the mirror of a case is launched as it is found.
FitsEntryAny(i) == mirror[i] # Gone

\* _validate_single_run_sample_ref
FitsEntry(i) == mirror[i] # Gone /\ mirror[i] = entries[i]

Validate ==
  /\ pc = "validate"
  /\ pc' = IF FitsEntry(Case) THEN "hash sample" ELSE "record"
  /\ UNCHANGED <<inputs, batch, history, memory, bounds>>

\* The single run hashes the file for itself and declares that hash.
HashSample ==
  /\ pc = "hash sample"
  /\ sample' = [sample EXCEPT !.hash = mirror[Case]]
  /\ pc' = IF mirror[Case] = Gone THEN "record" ELSE "upload"
  /\ UNCHANGED <<inputs, batch, history, how, found, entries, digest, chosen,
                 planned, planDigest, todo, slips, bounds>>

\* The file is read for the upload when the instance has been restored, minutes
\* later.
Upload ==
  /\ pc = "upload"
  /\ sample' = [sample EXCEPT !.sent = mirror[Case]]
  /\ pc' = IF mirror[Case] = Gone THEN "record" ELSE "launch"
  /\ UNCHANGED <<inputs, batch, history, how, found, entries, digest, chosen,
                 planned, planDigest, todo, slips, bounds>>

\* The worker hashes the bytes it is about to launch; the guest agent only
\* records the hash it is told.
WorkerAccepts == sample.sent = sample.hash

Launch ==
  /\ pc = "launch"
  /\ launches' = IF WorkerAccepts
                   THEN launches \cup {[index |-> Case, bytes |-> sample.sent,
                                        manifest |-> planned.manifest,
                                        chosen |-> planned.chosen,
                                        slips |-> slips]}
                   ELSE launches
  /\ pc' = "record"
  /\ UNCHANGED <<inputs, batch, edited, memory, bounds>>

\* The single run fails before it launches.
FailCase ==
  /\ pc \in {"hash sample", "upload", "launch"}
  /\ pc' = "record"
  /\ UNCHANGED <<inputs, batch, history, memory, bounds>>

\* The result is written and, in the batch's own mirror, the file burned (its
\* steps are MultiRun's); the batch goes on or stops.
Record(done, burns, goesOn) ==
  /\ pc = "record"
  /\ burns => indexed
  /\ state' = [state EXCEPT !.done = IF done THEN @ \cup {Case} ELSE @ \ {Case},
                            !.burned = IF burns THEN @ \cup {Case} ELSE @]
  /\ mirror' = IF burns THEN [mirror EXCEPT ![Case] = Gone] ELSE mirror
  /\ IF goesOn /\ todo # {Case}
       THEN /\ todo' = todo \ {Case}
            /\ sample' = NoSample /\ slips' = slips \ {"mirror"}
            /\ pc' = "validate"
            /\ UNCHANGED <<how, found, entries, digest, chosen, planned, planDigest>>
       ELSE End
  /\ UNCHANGED <<indexed, samples, source, copy, plan, history, bounds>>

-----------------------------------------------------------------------------
(* Crashes and edits *)

\* The process dies; a file it was writing holds a beginning of its content.
\* The state file alone is replaced atomically.
Crash ==
  /\ pc # "idle"
  /\ crashes < MaxCrashes
  /\ crashes' = crashes + 1
  /\ IF pc = "manifest" THEN source' \in Beginnings(Listed(Distinct)) ELSE UNCHANGED source
  /\ IF pc = "copy" /\ <<copy, plan, state>> = <<Absent, Absent, Absent>>
       THEN copy' \in Beginnings(source) ELSE UNCHANGED copy
  /\ plan' = IF pc = "plan" THEN Torn ELSE plan
  /\ End
  /\ UNCHANGED <<indexed, samples, mirror, state, history, sessions, edits>>

\* Files are edited by hand, in any order; an edit may undo another.  It slips
\* in when it falls between two readings of the file that belong together.
Edit(file, slipsIn) ==
  /\ edits < MaxEdits
  /\ edits' = edits + 1
  /\ edited' = edited \cup {file}
  /\ slips' = IF slipsIn THEN slips \cup {file} ELSE slips
  /\ UNCHANGED <<indexed, state, launches, pc, mind, sessions, crashes>>

\* Once the mirror is made the directory is not read again.
EditSample(n, h) ==
  /\ Edit("samples", FALSE)
  /\ indexed /\ (mirror = Absent \/ pc \in {"scan", "mirror"})
  /\ h # samples[n]
  /\ samples' = [samples EXCEPT ![n] = h]
  /\ UNCHANGED <<mirror, source, copy, plan>>

\* The mirror of an index is replaced or, by a virus scanner or the batch that
\* shares it, removed.  Between the batch's check of the file and the single
\* run's own hash a lock is taken and a directory made, and that hash is
\* compared with no manifest.
EditMirror(i, h) ==
  /\ Edit("mirror", pc = "hash sample" /\ i = Case)
  /\ mirror # Absent
  /\ mirror[i] # h
  /\ mirror' = [mirror EXCEPT ![i] = h]
  /\ UNCHANGED <<samples, source, copy, plan>>

EditSource(m) ==
  /\ Edit("source", FALSE)
  /\ source \notin {Absent, m}
  /\ source' = m
  /\ UNCHANGED <<samples, mirror, copy, plan>>

\* load_sample_manifest parses the file and then digests it.
EditCopy(m) ==
  /\ Edit("copy", pc = "hash copy")
  /\ copy \notin {Absent, m}
  /\ copy' = m
  /\ UNCHANGED <<samples, mirror, source, plan>>

\* Another selection, and perhaps the digest of the manifest as it now is.
EditPlan(c, fit) ==
  /\ Edit("plan", FALSE)
  /\ plan \notin {Absent, Torn}
  /\ plan' = [manifest |-> IF fit THEN copy ELSE plan.manifest, chosen |-> c]
  /\ plan' # plan
  /\ UNCHANGED <<samples, mirror, source, copy>>

Next ==
  \/ \E h \in Commands : Begin(h)
  \/ Scan \/ CopyMirror \/ WriteManifest
  \/ ParseManifest \/ HashManifest
  \/ CopyManifest \/ WritePlan \/ WriteState
  \/ LoadPlan \/ MatchRequest
  \/ \E yes \in BOOLEAN : Confirm(yes)
  \/ ReadPlan \/ HashPlan \/ ReadCopy \/ HashCopy \/ Open
  \/ \E passes \in BOOLEAN : Preflight(passes)
  \/ Validate \/ HashSample \/ Upload \/ Launch \/ FailCase
  \/ \E done, burns, goesOn \in BOOLEAN : Record(done, burns, goesOn)
  \/ Crash
  \/ \E n \in Names, h \in Hashes : EditSample(n, h)
  \/ \E i \in Indexes, h \in Hashes \cup {Gone} : EditMirror(i, h)
  \/ \E m \in Rewritten : EditSource(m) \/ EditCopy(m)
  \/ \E c \in SUBSET Indexes \ {{}}, fit \in BOOLEAN : EditPlan(c, fit)

Spec == Init /\ [][Next]_vars

-----------------------------------------------------------------------------
(* Properties *)

\* The bytes launched for an index are the sample that the manifest of the
\* plan lists there, although directory, mirror, manifests and plan are each
\* read several times, by several processes, and edited in between, perhaps
\* back to what they were.  Two windows are open: the copied manifest is parsed
\* and then digested (load_sample_manifest), and the mirror is compared by the
\* batch and then hashed by the single run, which launches what it hashed.
LaunchedAsListed ==
  \A l \in launches :
    /\ l.index \in l.chosen
    /\ l.slips = {} => l.bytes = l.manifest[l.index]

\* Whatever is launched in a batch directory, by the process that planned it or
\* by later ones, comes from one manifest and one selection: one aggregate of
\* the batch never mixes two.
OneInput ==
  \A l, m \in launches : l.manifest = m.manifest /\ l.chosen = m.chosen

\* A state file means a batch that can be executed: a crash of the planning
\* process leaves no state file or a whole plan and the manifest it was made
\* from, so that only an edit can refuse a later execution.
StateMeansWhole ==
  state # Absent /\ edited \cap {"source", "copy", "plan"} = {} =>
    /\ plan \notin {Absent, Torn}
    /\ copy = plan.manifest /\ plan.chosen \subseteq DOMAIN copy
    /\ StateMatches(plan, plan)

-----------------------------------------------------------------------------
(* Why: what the files there and the place of the process say of the others *)

\* The files of a batch appear in one order and never disappear.
FilesInOrder ==
  /\ source # Absent \/ copy # Absent \/ pc \in Indexing => mirror # Absent
  /\ plan # Absent => copy # Absent
  /\ state # Absent => plan \notin {Absent, Torn}
  /\ pc \in {"parse", "hash"} => Manifest # Absent
  /\ pc = "copy" => source # Absent
  /\ pc \in {"plan", "state"} => copy # Absent /\ state = Absent
  /\ pc \in {"state", "match"} => plan \notin {Absent, Torn}
  /\ pc \in {"confirm"} \cup Opening \cup Running => state # Absent

\* Where a command line may lead, and what is in memory there.
PlaceFits ==
  /\ pc \in Indexing => how.from = "directory"
  /\ how.from = "copy" \/ pc \in {"load", "match"} => how.mode # "run"
  /\ pc \in {"mirror", "manifest"} => found \in [Names -> Hashes]
  /\ pc \in Running => todo # {}
  /\ pc \in {"preflight"} \cup Running => todo \subseteq planned.chosen

\* Two readings of a file agree, unless an edit slipped in between.
ReadingsAgree ==
  /\ pc = "hash copy" => copy = entries \/ "copy" \in slips
  /\ pc \in {"open", "preflight"} \cup Running =>
       entries = planned.manifest \/ "copy" \in slips
  /\ pc = "hash sample" => mirror[Case] = entries[Case] \/ "mirror" \in slips
  /\ pc \in {"upload", "launch"} => sample.hash = entries[Case] \/ "mirror" \in slips

\* The state file has the one manifest and selection of all launches: only
\* the process that planned the batch settles them, before its first launch.
StateSettles ==
  /\ launches # {} => state # Absent
  /\ \A l \in launches : l.manifest = state.manifest /\ l.chosen = state.chosen
  /\ how.mode = "run" /\ pc \in {"confirm"} \cup (Opening \ {"preflight"}) =>
       launches = {}
  /\ pc \in {"preflight"} \cup Running =>
       state.manifest = planned.manifest /\ state.chosen = planned.chosen

\* While nobody edits what planning reads or writes, each step finds what the
\* steps before it read or wrote.
PlanningWhole ==
  edited \cap {"source", "copy", "plan"} = {} =>
    /\ pc = "hash" => entries = Manifest
    /\ pc \in {"copy", "plan"} => chosen \subseteq DOMAIN digest
    /\ pc = "copy" => digest = source
    /\ pc = "plan" => copy = digest
    /\ pc = "state" => /\ planned = plan /\ planDigest = plan
                       /\ copy = plan.manifest /\ plan.chosen \subseteq DOMAIN copy
    /\ pc \in Opening \ {"read plan", "preflight"} => planned = plan
    /\ pc \in Opening \ {"read plan", "hash plan", "preflight"} => planDigest = plan

\* Every variable has its type, a state file means a whole batch, and the
\* reasons for both and for the two properties of launches.
InputsInv ==
  /\ TypeOK
  /\ FilesInOrder
  /\ PlaceFits
  /\ ReadingsAgree
  /\ StateSettles
  /\ PlanningWhole
  /\ StateMeansWhole
  /\ LaunchedAsListed

=============================================================================
