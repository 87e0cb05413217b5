----------------------------- MODULE Collectors -----------------------------
(***************************************************************************)
(* One case in a guest whose security product writes its log meanwhile:    *)
(* readiness, upload and collection read that log at different moments     *)
(* (src/src/cloud_av_agent_lab/guest_agent_server/collectors,              *)
(* security_product_readiness and workspace/collection.py).                *)
(*                                                                         *)
(* The guest may have been used before, by an earlier attempt at the case  *)
(* or by another case of the batch.  An upload may be repeated, and the    *)
(* window of the next collection then begins later.  How the requests of a *)
(* case overlap is the subject of GuestCase; here they come one at a time, *)
(* but the product goes on writing while a collection reads.               *)
(***************************************************************************)
EXTENDS Attribution

CONSTANTS
  Installed,   \* the products a behaviour may begin with
  Shapes,      \* for each, the rows its log may get, before the case and since
  Limit,       \* events a Defender query returns at most
  Lag,         \* how late the product may write of what it did
  MaxTime,     \* bound on the clock
  MaxRows      \* bound on the rows of the log

\* A row to be: what fits the case, what the product did, and whether its time
\* and the row itself can be parsed.
Shape == [fits: SUBSET Matches, did: Actions, timed: BOOLEAN, legible: BOOLEAN]

ASSUME CollectorsAssumption ==
  /\ Installed \subseteq Products
  /\ Shapes \in [LogProducts -> SUBSET Shape]
  /\ Limit \in Nat \ {0}
  /\ Lag \in Nat /\ MaxTime \in Nat /\ MaxRows \in Nat

\* Channels give every event a time and no hash, 360 logs no process.
ASSUME ShapesAssumption ==
  /\ \A shape \in Shapes["windows-defender"] : shape.timed /\ "hash" \notin shape.fits
  /\ \A shape \in Shapes["qihoo-360"] : "process" \notin shape.fits

ReadinessState == {"not_checked", "not_ready", "unknown", "partial", "ready"}

VARIABLES
  product,     \* the product of the guest
  now,         \* the clock
  case,        \* when it was prepared and uploaded
  present,     \* the product has created its log or its quarantine directory
  log,         \* the rows it has written
  flushed,     \* rows of log.db that are no longer in its write-ahead log
  container,   \* the file of Tencent's quarantine named after the sample
  cached,      \* Tencent's cache exists
  readiness,   \* case_security_product_readiness.json
  artifact,    \* rows of the copy of log.db in the workspace
  collector,   \* the collection being served
  result,      \* case_collection.json, what the last one returned
  overlooked   \* history: that one read a torn copy, or could not parse an event

vars == <<product, now, case, present, log, flushed, container, cached,
          readiness, artifact, collector, result, overlooked>>
file == <<result, overlooked>>
source == <<present, log, flushed, container, cached>>

NoWindow == [start |-> 0, uploaded |-> NoTime, end |-> 0]

\* evident: the source held evidence of the case when the collection began;
\* torn: rows moved from the write-ahead log to log.db between their copies.
Idle == [at |-> "idle", window |-> NoWindow, held |-> {}, errors |-> FALSE,
         seen |-> NoFile, baseline |-> NoBaseline, evident |-> FALSE, torn |-> FALSE]

Collector == [at: {"idle", "first", "second"}, window: Window, held: SUBSET Row,
              errors: BOOLEAN, seen: File, baseline: Baseline,
              evident: BOOLEAN, torn: BOOLEAN]

TypeOK ==
  /\ product \in Products
  /\ now \in Nat
  /\ case \in [prepared: Times, uploaded: Times]
  /\ present \in BOOLEAN
  /\ log \subseteq Row
  /\ flushed \in Nat
  /\ container \in File
  /\ cached \in BOOLEAN
  /\ readiness \in [state: ReadinessState, baseline: Baseline]
  /\ artifact \subseteq Row
  /\ collector \in Collector
  /\ result \in Result
  /\ overlooked \in BOOLEAN

Init ==
  /\ product \in Installed
  /\ now = 0
  /\ case = [prepared |-> NoTime, uploaded |-> NoTime]
  /\ present \in BOOLEAN
  /\ log = {}
  /\ flushed = 0
  /\ container = NoFile
  /\ cached = FALSE
  /\ readiness = [state |-> "not_checked", baseline |-> NoBaseline]
  /\ artifact = {}
  /\ collector = Idle
  /\ result = NotFound
  /\ overlooked = FALSE

Prepared == case.prepared # NoTime
Serving == collector.at # "idle"

\* The rows in the write-ahead log.
Recent == {row \in log : row.no > flushed}

-----------------------------------------------------------------------------
(* The clock and the product *)

Tick ==
  /\ now < MaxTime
  /\ now' = now + 1
  /\ UNCHANGED <<product, case, source, readiness, artifact, collector, file>>

\* A row of the past may be written late.
WriteRow ==
  /\ product \in LogProducts
  /\ Cardinality(log) < MaxRows
  /\ \E shape \in Shapes[product] :
     \E at \in IF shape.timed THEN {t \in 0..now : t >= now - Lag} ELSE {NoTime} :
       log' = log \cup {[no |-> Cardinality(log) + 1, at |-> at,
                         fits |-> shape.fits, did |-> shape.did,
                         legible |-> shape.legible]}
  /\ present' = TRUE
  /\ UNCHANGED <<product, now, case, flushed, container, cached, readiness,
                 artifact, collector, file>>

\* SQLite moves the rows of the write-ahead log into log.db and starts it anew.
Checkpoint ==
  /\ product = "huorong"
  /\ Recent # {}
  /\ flushed' = Cardinality(log)
  /\ collector' = [collector EXCEPT !.torn = @ \/ collector.at = "second"]
  /\ UNCHANGED <<product, now, case, present, log, container, cached, readiness,
                 artifact, file>>

\* Tencent writes the container or its cache; a container written anew hides
\* the one a collection was to see.
WriteQuarantine ==
  /\ product = "tencent-pc-manager"
  /\ present' = TRUE
  /\ \/ /\ \E mtime \in {now, NoTime} :
             container' = [present |-> TRUE, mtime |-> mtime, written |-> now]
        /\ collector' = IF collector.at = "first" /\ container' # container
                        THEN [collector EXCEPT !.evident = FALSE] ELSE collector
        /\ UNCHANGED cached
     \/ cached' = TRUE /\ UNCHANGED <<container, collector>>
  /\ UNCHANGED <<product, now, case, log, flushed, readiness, artifact, file>>

-----------------------------------------------------------------------------
(* The case: preparation, readiness, upload *)

\* prepare_case_workspace
Prepare ==
  /\ ~Prepared
  /\ case' = [prepared |-> now, uploaded |-> NoTime]
  /\ UNCHANGED <<product, now, source, readiness, artifact, collector, file>>

\* save_uploaded_sample, as often as the client asks for it.
Upload ==
  /\ Prepared /\ ~Serving
  /\ case' = [case EXCEPT !.uploaded = now]
  /\ UNCHANGED <<product, now, source, readiness, artifact, collector, file>>

\* What the checks of the four products find: whether the log is there, and
\* whether it or its companions can be read or copied.
HuorongFinds == IF present THEN {"ready", "partial", "unknown"} ELSE {"not_ready"}
DefenderFinds == IF present THEN {"ready", "partial", "unknown"} ELSE {"not_ready"}
QihooFinds == IF present THEN {"ready", "unknown"} ELSE {"not_ready"}
TencentFinds ==
  {"unknown", IF ~present THEN "not_ready" ELSE IF cached THEN "ready" ELSE "partial"}

Checked ==
  CASE product = "huorong" -> HuorongFinds
    [] product = "windows-defender" -> DefenderFinds
    [] product = "qihoo-360" -> QihooFinds
    [] product = "tencent-pc-manager" -> TencentFinds

\* The MD5 comes with the prepared case, or does not.
RecordedBaseline(md5Known) ==
  [recorded |-> TRUE,
   at |-> now,
   md5 |-> md5Known,
   container |-> IF md5Known THEN container ELSE NoFile]

\* check_and_record_case_security_product_readiness
CheckReadiness ==
  /\ Prepared /\ ~Serving
  /\ \E state \in Checked, md5Known \in BOOLEAN :
       readiness' =
         [state |-> state,
          baseline |-> IF product = "tencent-pc-manager" /\ state \in {"ready", "partial"}
                       THEN RecordedBaseline(md5Known) ELSE NoBaseline]
  /\ UNCHANGED <<product, now, case, source, artifact, collector, file>>

-----------------------------------------------------------------------------
(* Collection *)

\* What counts as evidence of the case in the log of a product: a hash, path or
\* process that fits and an action, at a time that is in the window unless it
\* cannot be parsed.  A row of 360 that names the sample counts at any time.
Evidence(by, row, window) ==
  /\ row.fits \cap {"path", "hash", "process"} # {}
  /\ row.did # "none"
  /\ by = "qihoo-360" \/ row.at = NoTime \/ InWindow(row.at, window)

\* The source holds evidence that a collection beginning now has to report.
\* Defender's collector sees only the oldest events of the window.
Evident(window) ==
  CASE product \in {"huorong", "qihoo-360"} ->
         \E row \in log : Evidence(product, row, window)
    [] product = "windows-defender" ->
         LET rows == {row \in log : InWindow(row.at, window)}
         IN \E got \in SUBSET rows :
              Oldest(got, rows, Limit) /\ \E row \in got : Evidence(product, row, window)
    [] product = "tencent-pc-manager" ->
         ContainerCounts(readiness.baseline, container, window)

BeginCollect ==
  /\ Prepared /\ ~Serving
  /\ LET window == WindowAt(case.prepared, case.uploaded, now) IN
     collector' = [Idle EXCEPT !.at = "first", !.window = window,
                               !.evident = Evident(window)]
  /\ UNCHANGED <<product, now, case, source, readiness, artifact, file>>

\* The collection ends with what the collector returns, and has perhaps missed
\* rows without an error.
Return(is, missed) ==
  /\ result' = is
  /\ overlooked' = missed
  /\ collector' = Idle

\* Seeded bug: a copy that fails is not reported.
CopyDatabaseQuietly ==
  /\ product = "huorong" /\ collector.at = "first" /\ present
  /\ artifact' \in {artifact, log \ Recent}
  /\ collector' = [collector EXCEPT !.at = "second"]
  /\ UNCHANGED <<product, now, case, source, readiness, file>>

\* Huorong's log.db is copied over the copy of an earlier collection, which
\* stays when copying fails.
CopyDatabase ==
  /\ product = "huorong" /\ collector.at = "first" /\ present
  /\ \/ /\ artifact' = log \ Recent
        /\ collector' = [collector EXCEPT !.at = "second"]
     \/ /\ UNCHANGED artifact
        /\ collector' = [collector EXCEPT !.at = "second", !.errors = TRUE]
  /\ UNCHANGED <<product, now, case, source, readiness, file>>

\* The write-ahead log is copied next, or not, and the copies are read; a row
\* or a table that cannot be read is an error.
ReadCopies ==
  /\ product = "huorong" /\ collector.at = "second"
  /\ \/ Return(HuorongResult(artifact \cup Recent, collector.errors, collector.window),
               collector.torn)
     \/ \E rows \in SUBSET (artifact \cup Recent) :
          Return(HuorongResult(rows, TRUE, collector.window), collector.torn)
  /\ UNCHANGED <<product, now, case, source, readiness, artifact>>

\* One query, which a channel may refuse and a missing channel does.
QueryChannel ==
  /\ product = "windows-defender" /\ collector.at = "first"
  /\ \/ /\ present
        /\ LET rows == {row \in log : InWindow(row.at, collector.window)} IN
           \E got \in SUBSET rows :
             /\ Oldest(got, rows, Limit)
             /\ Return(Collected(DefenderVerdict(got, collector.window)),
                       got # Parsed(got))
     \/ Return(Unread, FALSE)
  /\ UNCHANGED <<product, now, case, source, readiness, artifact>>

\* Summary.dat is copied while 360 may write; the rows that were there when the
\* copy began are in it.
CopySummary ==
  /\ product = "qihoo-360" /\ collector.at = "first" /\ present
  /\ collector' = [collector EXCEPT !.at = "second", !.held = log]
  /\ UNCHANGED <<product, now, case, source, readiness, artifact, file>>

ReadSummary ==
  /\ product = "qihoo-360" /\ collector.at = "second"
  /\ \/ \E later \in SUBSET (log \ collector.held) :
          Return(Collected(QihooVerdict(collector.held \cup later, collector.window)),
                 FALSE)
     \/ Return(Failure, FALSE)
  /\ UNCHANGED <<product, now, case, source, readiness, artifact>>

\* observe_tav_quarantine and _read_tav_readiness_baseline; the MD5 comes with
\* the upload or with the prepared case, or is missing.
ObserveQuarantine ==
  /\ product = "tencent-pc-manager" /\ collector.at = "first" /\ present
  /\ \/ /\ collector' = [collector EXCEPT !.at = "second", !.seen = container,
                                          !.baseline = readiness.baseline]
        /\ UNCHANGED file
     \/ Return(Collected("unknown"), FALSE) /\ case.uploaded = NoTime
  /\ UNCHANGED <<product, now, case, source, readiness, artifact>>

\* The cache is looked at last; any file may refuse os.stat.
ObserveCache ==
  /\ product = "tencent-pc-manager" /\ collector.at = "second"
  /\ \/ Return(Collected(TencentVerdict(collector.baseline, collector.seen,
                                       collector.window)), FALSE)
     \/ Return(Failure, FALSE)
  /\ UNCHANGED <<product, now, case, source, readiness, artifact>>

\* The product has written nothing yet.
SourceMissing ==
  /\ collector.at = "first" /\ ~present /\ product # "windows-defender"
  /\ Return(IF product = "huorong" THEN Unread ELSE NotFound, FALSE)
  /\ UNCHANGED <<product, now, case, source, readiness, artifact>>

Next ==
  \/ Tick \/ WriteRow \/ Checkpoint \/ WriteQuarantine
  \/ Prepare \/ Upload \/ CheckReadiness
  \/ BeginCollect \/ SourceMissing
  \/ CopyDatabase \/ ReadCopies
  \/ QueryChannel
  \/ CopySummary \/ ReadSummary
  \/ ObserveQuarantine \/ ObserveCache

Spec == Init /\ [][Next]_vars

-----------------------------------------------------------------------------
(* Properties *)

\* The window of the collection under way, or of one that would begin now.
WindowNow ==
  IF Serving THEN collector.window
  ELSE IF Prepared THEN WindowAt(case.prepared, case.uploaded, now) ELSE NoWindow

\* The source holds evidence of the case.
Logged ==
  CASE product \in LogProducts -> \E row \in log : Evidence(product, row, WindowNow)
    [] product = "tencent-pc-manager" ->
         LET shown == IF collector.at = "second" THEN collector.seen ELSE container
         IN shown.present /\ NearWindow(shown.mtime, WindowNow)

Finding ==
  IF Detects(result) THEN "detected"
  ELSE IF IsClear(result) THEN "clear"
  ELSE "inconclusive"

Returns == Serving /\ collector'.at = "idle"

Contract == INSTANCE CollectionContract WITH logged <- Logged, finding <- Finding

\* The collectors implement the contract the rest of the case relies on: what
\* they detect is in the log, in the window of the case (by 360, whose
\* attribution.py:63 leaves the window out, at any time), and what they find
\* clear holds no evidence -- while the product writes between their reads,
\* reads fail, uploads move the window and earlier rows lie in the log.  Not
\* so, when log.db is copied across a checkpoint or the XML of an event cannot
\* be parsed: such a log may be found clear, but nothing is detected in vain.
KeepsContract == Contract!ContractSpec

\* Evidence that was there when a collection began is reported unless the
\* collection says that it failed or was incomplete, or overlooked rows: an
\* error in any of its reads shows, and no later write hides the evidence.
\* Before the upload Tencent's collector may lack the MD5.
EvidenceIsReported ==
  [][/\ Returns /\ result'.state = "collected"
     /\ collector.evident /\ ~overlooked'
     /\ product = "tencent-pc-manager" => collector.window.uploaded # NoTime
     => Detects(result')]_vars

\* A container that was in the quarantine when its baseline was recorded, and
\* was not written since, is not reported, wherever the window begins
\* (_attribute_observation).
OldContainerIgnored ==
  [][/\ Returns /\ product = "tencent-pc-manager" /\ Detects(result')
     /\ collector.baseline.md5
     => collector.seen.written >= collector.baseline.at]_vars

\* Rows are numbered as they were written.
RowsAsWritten ==
  /\ IsFiniteSet(log) /\ flushed <= Cardinality(log)
  /\ \A row \in log : row.no \in 1..Cardinality(log)
  /\ \A row, other \in log : row.no = other.no => row = other

RowsFitProduct ==
  /\ product = "windows-defender" =>
       \A row \in log : row.at # NoTime /\ "hash" \notin row.fits
  /\ product = "qihoo-360" => \A row \in log : "process" \notin row.fits

\* What has been copied is still in the log, and log.db was copied whole.
CopiesHold ==
  /\ artifact \subseteq log /\ collector.held \subseteq log
  /\ collector.at = "second" /\ product = "huorong" =>
       collector.errors \/ collector.torn \/ artifact = log \ Recent

\* A container is the one of the baseline or was written since.
WrittenSince(baseline, copy) ==
  baseline.md5 => /\ baseline.recorded /\ baseline.at <= now
                  /\ copy = baseline.container \/ copy.written >= baseline.at

BaselinesHold ==
  /\ WrittenSince(readiness.baseline, container)
  /\ WrittenSince(collector.baseline, collector.seen)

\* The evidence a collection began with is in what is left for it to read.
EvidentStays ==
  collector.evident =>
    /\ Prepared /\ Serving
    /\ product = "huorong" => \E row \in log : Evidence(product, row, collector.window)
    /\ product = "qihoo-360" =>
         \E row \in IF collector.at = "second" THEN collector.held ELSE log :
           Evidence(product, row, collector.window)
    /\ product = "windows-defender" =>
         \E got \in SUBSET {row \in log : InWindow(row.at, collector.window)} :
           /\ Cardinality(got) <= Limit
           /\ \A row \in got, other \in log :
                InWindow(other.at, collector.window) /\ other.no < row.no => other \in got
           /\ \E row \in got : Evidence(product, row, collector.window)
    /\ product = "tencent-pc-manager" =>
         IF collector.at = "second"
         THEN ContainerCounts(collector.baseline, collector.seen, collector.window)
         ELSE ContainerCounts(readiness.baseline, container, collector.window)

\* The inductive invariant.  Its last part lets the collection under way rest
\* on what was there when it began.
CollectorInv ==
  /\ TypeOK
  /\ RowsAsWritten /\ RowsFitProduct /\ CopiesHold /\ BaselinesHold
  /\ Serving => Prepared /\ collector.window.uploaded = case.uploaded
  /\ EvidentStays
=============================================================================
