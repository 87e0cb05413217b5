-------------------------- MODULE Collectors_proofs --------------------------
(* That the collectors keep their contract and report what was there, for    *)
(* any rows, any window and any number of collections.                       *)
EXTENDS Collectors, FiniteSetTheorems, TLAPS

USE WindowAssumption, CollectorsAssumption

\* A row that is written comes last, with what its shape says.
LEMMA WriteRowEffect ==
  ASSUME CollectorInv, WriteRow
  PROVE  \E row \in Row, shape \in Shapes[product] :
           /\ log' = log \cup {row} /\ row \notin log
           /\ row.no = Cardinality(log) + 1
           /\ row.fits = shape.fits /\ (shape.timed => row.at # NoTime)
           /\ IsFiniteSet(log') /\ Cardinality(log') = Cardinality(log) + 1
<1>1. /\ IsFiniteSet(log) /\ Cardinality(log) \in Nat
      /\ \A row \in log : row.no \in 1..Cardinality(log)
  BY FS_CardinalityType DEF CollectorInv, RowsAsWritten
<1>2. product \in LogProducts /\ now \in Nat
  BY DEF WriteRow, CollectorInv, TypeOK
<1>3. PICK shape \in Shapes[product] :
        \E at \in IF shape.timed THEN {t \in 0..now : t >= now - Lag} ELSE {NoTime} :
          log' = log \cup {[no |-> Cardinality(log) + 1, at |-> at,
                            fits |-> shape.fits, did |-> shape.did,
                            legible |-> shape.legible]}
  BY DEF WriteRow
<1>4. PICK at \in IF shape.timed THEN {t \in 0..now : t >= now - Lag} ELSE {NoTime} :
        log' = log \cup {[no |-> Cardinality(log) + 1, at |-> at,
                          fits |-> shape.fits, did |-> shape.did,
                          legible |-> shape.legible]}
  BY <1>3
<1>5. shape \in Shape
  BY <1>2
<1>6. at \in Times /\ (shape.timed => at # NoTime)
  BY <1>2, <1>4 DEF Times, NoTime
<1> DEFINE row == [no |-> Cardinality(log) + 1, at |-> at,
                   fits |-> shape.fits, did |-> shape.did, legible |-> shape.legible]
<1>7. row \in Row /\ row.no = Cardinality(log) + 1
  BY <1>1, <1>5, <1>6 DEF Row, Shape
<1>8. row \notin log
  BY <1>1, <1>7
<1>10. log' = log \cup {row}
  BY <1>4
<1> HIDE DEF row
<1>9. IsFiniteSet(log') /\ Cardinality(log') = Cardinality(log) + 1
  BY <1>1, <1>8, <1>10, FS_AddElement
<1> USE DEF row
<1> QED BY <1>3, <1>6, <1>7, <1>8, <1>9, <1>10

\* A collection that returns leaves nothing behind.
LEMMA ReturnEffect ==
  ASSUME NEW is \in Result, NEW missed \in BOOLEAN, Return(is, missed)
  PROVE  /\ collector' = Idle /\ result' = is /\ result' \in Result
         /\ overlooked' = missed /\ overlooked' \in BOOLEAN
BY DEF Return

\* What the collectors return is a result.
LEMMA ResultTypes ==
  /\ Unread \in Result /\ Failure \in Result /\ NotFound \in Result
  /\ Collected("unknown") \in Result
  /\ \A rows, window : \A errors \in BOOLEAN : HuorongResult(rows, errors, window) \in Result
  /\ \A got, window : Collected(DefenderVerdict(got, window)) \in Result
  /\ \A rows, window : Collected(QihooVerdict(rows, window)) \in Result
  /\ \A baseline, seen, window :
       Collected(TencentVerdict(baseline, seen, window)) \in Result
<1>1. /\ Unread \in Result /\ Failure \in Result /\ NotFound \in Result
      /\ Collected("unknown") \in Result
  BY DEF Unread, Failure, NotFound, Collected, Result
<1>2. \A rows, window : \A errors \in BOOLEAN : HuorongResult(rows, errors, window) \in Result
  BY DEF HuorongResult, Unread, Collected, Result
<1>3. \A got, window : Collected(DefenderVerdict(got, window)) \in Result
  BY Zenon DEF DefenderVerdict, Collected, Result
<1>4. \A rows, window : Collected(QihooVerdict(rows, window)) \in Result
  BY DEF QihooVerdict, Collected, Result
<1>5. \A baseline, seen, window :
        Collected(TencentVerdict(baseline, seen, window)) \in Result
  BY DEF TencentVerdict, Collected, Result
<1> QED BY <1>1, <1>2, <1>3, <1>4, <1>5

\* Every way a collection can end returns a result and leaves the rest alone.
Ends == ReadCopies \/ QueryChannel \/ ReadSummary \/ ObserveCache \/ SourceMissing
        \/ (ObserveQuarantine /\ collector'.at = "idle")

LEMMA EndEffect ==
  ASSUME CollectorInv, Ends
  PROVE  /\ collector' = Idle /\ result' \in Result
         /\ overlooked' \in BOOLEAN
         /\ UNCHANGED <<product, now, case, present, log, flushed, container, cached,
                        readiness, artifact>>
<1>0. TypeOK /\ collector.errors \in BOOLEAN /\ collector.torn \in BOOLEAN
  BY DEF CollectorInv, TypeOK, Collector
<1>1. CASE ReadCopies
  BY <1>0, <1>1, ReturnEffect, ResultTypes DEF ReadCopies, source
<1>2. CASE QueryChannel
  BY <1>0, <1>2, ReturnEffect, ResultTypes DEF QueryChannel, source
<1>3. CASE ReadSummary
  BY <1>0, <1>3, ReturnEffect, ResultTypes DEF ReadSummary, source
<1>4. CASE ObserveCache
  BY <1>0, <1>4, ReturnEffect, ResultTypes DEF ObserveCache, source
<1>5. CASE SourceMissing
  BY <1>0, <1>5, ReturnEffect, ResultTypes DEF SourceMissing, source
<1>6. CASE ObserveQuarantine /\ collector'.at = "idle"
  <2>1. Return(Collected("unknown"), FALSE)
    BY <1>0, <1>6 DEF ObserveQuarantine, TypeOK, Collector
  <2> QED BY <1>0, <1>6, <2>1, ReturnEffect, ResultTypes DEF ObserveQuarantine, source
<1> QED BY <1>1, <1>2, <1>3, <1>4, <1>5, <1>6 DEF Ends

\* Observing the quarantine, when the collection goes on.
LEMMA ObserveEffect ==
  ASSUME CollectorInv, ObserveQuarantine, collector'.at # "idle"
  PROVE  /\ collector' = [collector EXCEPT !.at = "second", !.seen = container,
                                           !.baseline = readiness.baseline]
         /\ UNCHANGED <<result, overlooked>>
BY DEF ObserveQuarantine, Return, Idle, file

-----------------------------------------------------------------------------
(* The invariant *)

LEMMA InitInv == Init => CollectorInv
<1> SUFFICES ASSUME Init PROVE CollectorInv
  OBVIOUS
<1>1. NoFile \in File /\ NoBaseline \in Baseline /\ NoWindow \in Window
  BY DEF NoFile, File, Times, NoTime, NoBaseline, Baseline, NoWindow, Window, Times, NoTime
<1>2. Idle \in Collector
  BY <1>1 DEF Idle, Collector
<1>3. TypeOK
  <2>1. readiness \in [state: ReadinessState, baseline: Baseline]
    BY <1>1 DEF Init, ReadinessState
  <2>2. case \in [prepared: Times, uploaded: Times]
    BY DEF Init, Times, NoTime
  <2>3. result \in Result
    BY ResultTypes DEF Init
  <2>4. product \in Products
    BY DEF Init
  <2>5. present \in BOOLEAN /\ cached \in BOOLEAN /\ overlooked \in BOOLEAN
    BY Zenon DEF Init
  <2>6. log \subseteq Row /\ artifact \subseteq Row /\ now \in Nat /\ flushed \in Nat
    BY DEF Init
  <2> QED BY <1>1, <1>2, <2>1, <2>2, <2>3, <2>4, <2>5, <2>6 DEF Init, TypeOK
<1>4. RowsAsWritten
  BY FS_EmptySet DEF Init, RowsAsWritten
<1>5. RowsFitProduct /\ CopiesHold /\ BaselinesHold /\ EvidentStays
  BY DEF Init, RowsFitProduct, CopiesHold, BaselinesHold, WrittenSince, EvidentStays,
     Idle, NoBaseline
<1> QED BY <1>3, <1>4, <1>5 DEF Init, CollectorInv, Serving, Idle

LEMMA TypeKeeps == CollectorInv /\ [Next]_vars => TypeOK'
<1> SUFFICES ASSUME CollectorInv, [Next]_vars PROVE TypeOK'
  OBVIOUS
<1>0. TypeOK
  BY DEF CollectorInv
<1>1. CASE Tick
  BY <1>0, <1>1 DEF Tick, TypeOK, source, file
<1>2. CASE WriteRow
  BY <1>0, <1>2, WriteRowEffect DEF WriteRow, TypeOK, source, file
<1>3. CASE Checkpoint
  <2>1. flushed' \in Nat
    BY <1>3, FS_CardinalityType DEF Checkpoint, CollectorInv, RowsAsWritten
  <2>2. collector' \in Collector
    BY <1>0, <1>3 DEF Checkpoint, TypeOK, Collector
  <2> QED BY <1>0, <1>3, <2>1, <2>2 DEF Checkpoint, TypeOK, file
<1>4. CASE WriteQuarantine
  <2>1. container' \in File
    <3>1. \A mtime \in {now, NoTime} :
            [present |-> TRUE, mtime |-> mtime, written |-> now] \in File
      BY <1>0 DEF TypeOK, File, Times
    <3> QED BY <1>0, <1>4, <3>1 DEF WriteQuarantine, TypeOK
  <2>2. collector' \in Collector
    BY <1>0, <1>4 DEF WriteQuarantine, TypeOK, Collector
  <2>3. cached' \in BOOLEAN
    BY <1>0, <1>4 DEF WriteQuarantine, TypeOK
  <2> QED BY <1>0, <1>4, <2>1, <2>2, <2>3 DEF WriteQuarantine, TypeOK, file
<1>5. CASE Prepare
  <2> QED BY <1>0, <1>5 DEF Prepare, TypeOK, Times, source, file
<1>6. CASE Upload
  BY <1>0, <1>6 DEF Upload, TypeOK, Times, source, file
<1>7. CASE CheckReadiness
  <2>1. PICK state \in Checked, md5Known \in BOOLEAN :
          readiness' =
            [state |-> state,
             baseline |-> IF product = "tencent-pc-manager" /\ state \in {"ready", "partial"}
                          THEN RecordedBaseline(md5Known) ELSE NoBaseline]
    BY <1>7 DEF CheckReadiness
  <2>2. state \in ReadinessState
    BY <1>0 DEF Checked, HuorongFinds, DefenderFinds, QihooFinds, TencentFinds,
       ReadinessState, TypeOK, Products, LogProducts
  <2>3. RecordedBaseline(md5Known) \in Baseline /\ NoBaseline \in Baseline
    BY <1>0 DEF RecordedBaseline, NoBaseline, Baseline, NoFile, File, Times, NoTime, TypeOK
  <2> QED BY <1>0, <1>7, <2>1, <2>2, <2>3 DEF CheckReadiness, TypeOK, source, file
<1>8. CASE BeginCollect
  <2>1. WindowAt(case.prepared, case.uploaded, now) \in Window
    BY <1>0 DEF TypeOK, WindowAt, Window, Times, NoTime
  <2>2. Evident(WindowAt(case.prepared, case.uploaded, now)) \in BOOLEAN
    BY <1>0 DEF Evident, TypeOK, Products, LogProducts, ContainerCounts
  <2>3. collector' \in Collector
    BY <1>8, <2>1, <2>2 DEF BeginCollect, Idle, Collector, NoFile, File, Times, NoTime, NoBaseline, Baseline
  <2> QED BY <1>0, <1>8, <2>3 DEF BeginCollect, TypeOK, source, file
<1>9. CASE Ends
  <2>1. Idle \in Collector
    BY DEF Idle, Collector, NoFile, File, Times, NoTime, NoBaseline, Baseline, NoWindow, Window, Times, NoTime
  <2> QED BY <1>0, <1>9, <2>1, EndEffect DEF TypeOK
<1>10. CASE CopyDatabase
  <2>1. collector' \in Collector
    BY <1>0, <1>10 DEF CopyDatabase, TypeOK, Collector
  <2>2. artifact' \subseteq Row
    BY <1>0, <1>10 DEF CopyDatabase, TypeOK
  <2> QED BY <1>0, <1>10, <2>1, <2>2 DEF CopyDatabase, TypeOK, source, file
<1>11. CASE CopySummary
  <2>1. collector' \in Collector
    BY <1>0, <1>11 DEF CopySummary, TypeOK, Collector
  <2> QED BY <1>0, <1>11, <2>1 DEF CopySummary, TypeOK, source, file
<1>12. CASE ObserveQuarantine /\ collector'.at # "idle"
  <2>1. collector' \in Collector
    BY <1>0, <1>12, ObserveEffect DEF TypeOK, Collector
  <2> QED BY <1>0, <1>12, <2>1, ObserveEffect DEF ObserveQuarantine, TypeOK, source
<1>13. CASE UNCHANGED vars
  BY <1>0, <1>13 DEF vars, TypeOK
<1> QED BY <1>1, <1>2, <1>3, <1>4, <1>5, <1>6, <1>7, <1>8, <1>9, <1>10, <1>11, <1>12, <1>13
     DEF Next, Ends

LEMMA RowsKeep ==
  CollectorInv /\ [Next]_vars => RowsAsWritten' /\ RowsFitProduct'
<1> SUFFICES ASSUME CollectorInv, [Next]_vars PROVE RowsAsWritten' /\ RowsFitProduct'
  OBVIOUS
<1>0. TypeOK /\ RowsAsWritten /\ RowsFitProduct /\ Cardinality(log) \in Nat
  BY FS_CardinalityType DEF CollectorInv, RowsAsWritten
<1>1. CASE WriteRow
  <2>1. PICK row \in Row, shape \in Shapes[product] :
          /\ log' = log \cup {row} /\ row \notin log
          /\ row.no = Cardinality(log) + 1
          /\ row.fits = shape.fits /\ (shape.timed => row.at # NoTime)
          /\ IsFiniteSet(log') /\ Cardinality(log') = Cardinality(log) + 1
    BY <1>1, WriteRowEffect
  <2>2. UNCHANGED <<product, case, flushed>>
    BY <1>1 DEF WriteRow
  <2>3. RowsAsWritten'
    <3>1. flushed <= Cardinality(log')
      BY <1>0, <2>1 DEF TypeOK, RowsAsWritten
    <3>2. \A r \in log' : r.no \in 1..Cardinality(log')
      BY <1>0, <2>1 DEF RowsAsWritten
    <3>3. \A r, other \in log' : r.no = other.no => r = other
      BY <1>0, <2>1 DEF RowsAsWritten
    <3> QED BY <2>1, <2>2, <3>1, <3>2, <3>3 DEF RowsAsWritten
  <2>4. RowsFitProduct'
    <3>1. product = "windows-defender" => row.at # NoTime /\ "hash" \notin row.fits
      BY <2>1, ShapesAssumption
    <3>2. product = "qihoo-360" => "process" \notin row.fits
      BY <2>1, ShapesAssumption
    <3> QED BY <1>0, <2>1, <2>2, <3>1, <3>2 DEF RowsFitProduct
  <2> QED BY <2>3, <2>4
<1>2. CASE Checkpoint
  BY <1>0, <1>2 DEF Checkpoint, RowsAsWritten, RowsFitProduct
<1>5. UNCHANGED <<product, log, flushed>> => RowsAsWritten' /\ RowsFitProduct'
  BY <1>0 DEF RowsAsWritten, RowsFitProduct
<1>6. CASE Ends
  BY <1>5, <1>6, EndEffect
<1>7. CASE Tick \/ WriteQuarantine \/ Prepare \/ Upload \/ CheckReadiness \/ BeginCollect
  BY <1>5, <1>7 DEF Tick, WriteQuarantine, Prepare, Upload, CheckReadiness, BeginCollect, source
<1>8. CASE CopyDatabase \/ CopySummary \/ ObserveQuarantine \/ UNCHANGED vars
  BY <1>5, <1>8 DEF CopyDatabase, CopySummary, ObserveQuarantine, vars, source
<1> QED BY <1>1, <1>2, <1>6, <1>7, <1>8 DEF Next, Ends

LEMMA CopiesKeep == CollectorInv /\ [Next]_vars => CopiesHold'
<1> SUFFICES ASSUME CollectorInv, [Next]_vars PROVE CopiesHold'
  OBVIOUS
<1>0. TypeOK /\ RowsAsWritten /\ CopiesHold /\ Cardinality(log) \in Nat
  BY FS_CardinalityType DEF CollectorInv, RowsAsWritten
<1>1. CASE WriteRow
  <2>1. PICK row \in Row :
          log' = log \cup {row} /\ row \notin log /\ row.no = Cardinality(log) + 1
    BY <1>1, WriteRowEffect
  <2>2. UNCHANGED <<product, flushed, artifact, collector>>
    BY <1>1 DEF WriteRow
  <2>3. row.no > flushed
    BY <1>0, <2>1 DEF TypeOK, RowsAsWritten
  <2>4. log' \ Recent' = log \ Recent
    BY <2>1, <2>2, <2>3 DEF Recent
  <2> QED BY <1>0, <2>1, <2>2, <2>4 DEF CopiesHold
<1>2. CASE Checkpoint
  <2>1. /\ collector'.held = collector.held /\ collector'.at = collector.at
        /\ (collector.at = "second" => collector'.torn)
    BY <1>0, <1>2 DEF Checkpoint, TypeOK, Collector
  <2> QED BY <1>0, <1>2, <2>1 DEF Checkpoint, CopiesHold
<1>3. CASE WriteQuarantine
  <2>1. collector'.held = collector.held /\ product' = "tencent-pc-manager"
    BY <1>0, <1>3 DEF WriteQuarantine, TypeOK, Collector
  <2> QED BY <1>0, <1>3, <2>1 DEF WriteQuarantine, CopiesHold
<1>4. CASE BeginCollect
  BY <1>0, <1>4 DEF BeginCollect, CopiesHold, Idle, source
<1>5. CASE Ends
  BY <1>0, <1>5, EndEffect DEF CopiesHold, Idle
<1>6. CASE CopyDatabase
  <2>1. collector'.held = collector.held
    BY <1>0, <1>6 DEF CopyDatabase, TypeOK, Collector
  <2>2. artifact' = log \ Recent \/ (artifact' = artifact /\ collector'.errors)
    BY <1>0, <1>6 DEF CopyDatabase, TypeOK, Collector
  <2> QED BY <1>0, <1>6, <2>1, <2>2 DEF CopyDatabase, CopiesHold, Recent, source
<1>7. CASE CopySummary
  <2>1. collector'.held = log
    BY <1>0, <1>7 DEF CopySummary, TypeOK, Collector
  <2> QED BY <1>0, <1>7, <2>1 DEF CopySummary, CopiesHold, source
<1>8. CASE ObserveQuarantine /\ collector'.at # "idle"
  <2>1. collector'.held = collector.held
    BY <1>0, <1>8, ObserveEffect DEF TypeOK, Collector
  <2> QED BY <1>0, <1>8, <2>1 DEF ObserveQuarantine, CopiesHold, source
<1>9. CASE Tick \/ Prepare \/ Upload \/ CheckReadiness \/ UNCHANGED vars
  BY <1>0, <1>9 DEF Tick, Prepare, Upload, CheckReadiness, vars, source, CopiesHold, Recent
<1> QED BY <1>1, <1>2, <1>3, <1>4, <1>5, <1>6, <1>7, <1>8, <1>9 DEF Next, Ends

LEMMA BaselinesKeep == CollectorInv /\ [Next]_vars => BaselinesHold'
<1> SUFFICES ASSUME CollectorInv, [Next]_vars PROVE BaselinesHold'
  OBVIOUS
<1>0. TypeOK /\ BaselinesHold
  BY DEF CollectorInv
<1>1. CASE Tick
  <2>1. now' = now + 1 /\ UNCHANGED <<readiness, container, collector>>
    BY <1>1 DEF Tick, source
  <2> QED BY <1>0, <2>1 DEF BaselinesHold, WrittenSince, TypeOK, Baseline, Collector
<1>2. CASE WriteQuarantine
  <2>1. /\ UNCHANGED <<now, readiness>>
        /\ collector'.baseline = collector.baseline /\ collector'.seen = collector.seen
    BY <1>0, <1>2 DEF WriteQuarantine, TypeOK, Collector
  <2>2. container' = container \/ container'.written = now
    BY <1>2 DEF WriteQuarantine
  <2> QED BY <1>0, <2>1, <2>2 DEF BaselinesHold, WrittenSince, TypeOK, Baseline
<1>3. CASE CheckReadiness
  <2>1. UNCHANGED <<now, container, collector>>
    BY <1>3 DEF CheckReadiness, source
  <2>2. readiness'.baseline \in
          {NoBaseline, RecordedBaseline(TRUE), RecordedBaseline(FALSE)}
    <3>1. PICK state \in Checked, md5Known \in BOOLEAN :
            readiness' =
              [state |-> state,
               baseline |-> IF product = "tencent-pc-manager" /\ state \in {"ready", "partial"}
                            THEN RecordedBaseline(md5Known) ELSE NoBaseline]
      BY <1>3 DEF CheckReadiness
    <3>2. md5Known = TRUE \/ md5Known = FALSE
      BY <3>1
    <3>3. CASE md5Known = TRUE
      BY <3>1, <3>3
    <3>4. CASE md5Known = FALSE
      BY <3>1, <3>4
    <3> QED BY <3>2, <3>3, <3>4
  <2> QED BY <1>0, <2>1, <2>2 DEF BaselinesHold, WrittenSince, NoBaseline, RecordedBaseline,
             TypeOK
<1>4. CASE BeginCollect
  BY <1>0, <1>4 DEF BeginCollect, BaselinesHold, WrittenSince, Idle, NoBaseline, source
<1>5. CASE Ends
  BY <1>0, <1>5, EndEffect DEF BaselinesHold, WrittenSince, Idle, NoBaseline
<1>6. CASE ObserveQuarantine /\ collector'.at # "idle"
  <2>1. collector'.baseline = readiness.baseline /\ collector'.seen = container
    BY <1>0, <1>6, ObserveEffect DEF TypeOK, Collector
  <2> QED BY <1>0, <1>6, <2>1 DEF ObserveQuarantine, BaselinesHold, WrittenSince, source
<1>7. CASE Checkpoint \/ CopyDatabase \/ CopySummary
  <2>1. collector'.baseline = collector.baseline /\ collector'.seen = collector.seen
    BY <1>0, <1>7 DEF Checkpoint, CopyDatabase, CopySummary, TypeOK, Collector
  <2> QED BY <1>0, <1>7, <2>1 DEF Checkpoint, CopyDatabase, CopySummary, BaselinesHold,
             WrittenSince, source
<1>8. CASE WriteRow \/ Prepare \/ Upload \/ UNCHANGED vars
  BY <1>0, <1>8 DEF WriteRow, Prepare, Upload, vars, source, BaselinesHold, WrittenSince
<1> QED BY <1>1, <1>2, <1>3, <1>4, <1>5, <1>6, <1>7, <1>8 DEF Next, Ends

\* Readiness, the window, the baseline and what was copied stay while a
\* collection is served; evidence stays what it is.
LEMMA EvidentKeeps ==
  CollectorInv /\ [Next]_vars =>
    /\ Serving' => Prepared' /\ collector'.window.uploaded = case'.uploaded
    /\ EvidentStays'
<1> DEFINE ServingInv == Serving => Prepared /\ collector.window.uploaded = case.uploaded
<1> SUFFICES ASSUME CollectorInv, [Next]_vars PROVE ServingInv' /\ EvidentStays'
  OBVIOUS
<1>0. TypeOK /\ RowsAsWritten /\ ServingInv /\ EvidentStays /\ Cardinality(log) \in Nat
  BY FS_CardinalityType DEF CollectorInv, RowsAsWritten
<1> HIDE DEF ServingInv
<1>1. CASE Tick
  BY <1>0, <1>1 DEF Tick, source, ServingInv, EvidentStays, Serving, Prepared
<1>2. CASE WriteRow
  <2>1. PICK row \in Row :
          log' = log \cup {row} /\ row \notin log /\ row.no = Cardinality(log) + 1
    BY <1>2, WriteRowEffect
  <2>2. UNCHANGED <<product, case, collector, container, readiness>>
    BY <1>2 DEF WriteRow
  <2>3. ServingInv'
    BY <1>0, <2>2 DEF ServingInv, Serving, Prepared
  <2>4. ASSUME collector.evident, product = "windows-defender"
        PROVE \E got \in SUBSET {r \in log' : InWindow(r.at, collector.window)} :
                /\ Cardinality(got) <= Limit
                /\ \A r \in got, other \in log' :
                     InWindow(other.at, collector.window) /\ other.no < r.no => other \in got
                /\ \E r \in got : Evidence(product, r, collector.window)
    <3>1. PICK got \in SUBSET {r \in log : InWindow(r.at, collector.window)} :
                /\ Cardinality(got) <= Limit
                /\ \A r \in got, other \in log :
                     InWindow(other.at, collector.window) /\ other.no < r.no => other \in got
                /\ \E r \in got : Evidence(product, r, collector.window)
      BY <1>0, <2>4 DEF EvidentStays
    <3>2. \A r \in got : r.no < row.no
      BY <1>0, <2>1, <3>1 DEF RowsAsWritten
    <3>3. ~ \E r \in got : row.no < r.no
      BY <1>0, <2>1, <3>1, <3>2 DEF RowsAsWritten
    <3>4. got \in SUBSET {r \in log' : InWindow(r.at, collector.window)}
      BY <2>1, <3>1
    <3> QED BY <2>1, <3>1, <3>3, <3>4
  <2>5. EvidentStays'
    BY <1>0, <2>1, <2>2, <2>4 DEF EvidentStays, Serving, Prepared
  <2> QED BY <2>3, <2>5
<1>3. CASE Checkpoint
  <2>1. /\ collector'.window = collector.window /\ collector'.at = collector.at
        /\ collector'.evident = collector.evident /\ collector'.held = collector.held
        /\ collector'.baseline = collector.baseline /\ collector'.seen = collector.seen
    BY <1>0, <1>3 DEF Checkpoint, TypeOK, Collector
  <2>2. product = "huorong" /\ UNCHANGED <<product, case, log>>
    BY <1>3 DEF Checkpoint
  <2> QED BY <1>0, <2>1, <2>2 DEF ServingInv, EvidentStays, Serving, Prepared
<1>4. CASE WriteQuarantine
  <2>1. /\ product = "tencent-pc-manager" /\ UNCHANGED <<product, case, readiness>>
        /\ collector'.window = collector.window /\ collector'.at = collector.at
        /\ collector'.baseline = collector.baseline /\ collector'.seen = collector.seen
        /\ collector'.evident =>
             collector.evident /\ (collector.at = "first" => container' = container)
    BY <1>0, <1>4 DEF WriteQuarantine, TypeOK, Collector
  <2>2. ServingInv'
    BY <1>0, <2>1 DEF ServingInv, Serving, Prepared
  <2>3. collector.at \in {"idle", "first", "second"}
    BY <1>0 DEF TypeOK, Collector
  <2>4. EvidentStays'
    BY <1>0, <2>1, <2>3 DEF EvidentStays, Serving, Prepared
  <2> QED BY <2>2, <2>4
<1>5. CASE Prepare
  BY <1>0, <1>5 DEF Prepare, ServingInv, EvidentStays, Prepared, Serving
<1>6. CASE Upload \/ CheckReadiness
  BY <1>0, <1>6 DEF Upload, CheckReadiness, ServingInv, EvidentStays, Prepared, Serving, source
<1>7. CASE BeginCollect
  <2> DEFINE window == WindowAt(case.prepared, case.uploaded, now)
  <2>1. /\ collector' = [Idle EXCEPT !.at = "first", !.window = window,
                                      !.evident = Evident(window)]
        /\ Prepared /\ UNCHANGED <<product, case, log, readiness, container>>
    BY <1>7 DEF BeginCollect, source
  <2>2. /\ collector'.at = "first" /\ collector'.window = window
        /\ collector'.evident = Evident(window) /\ window.uploaded = case.uploaded
    BY <2>1 DEF Idle, WindowAt
  <2> HIDE DEF window
  <2>3. ServingInv'
    BY <2>1, <2>2 DEF ServingInv, Prepared
  <2>4. ASSUME Evident(window), product = "windows-defender"
        PROVE \E got \in SUBSET {r \in log : InWindow(r.at, window)} :
                /\ Cardinality(got) <= Limit
                /\ \A r \in got, other \in log :
                     InWindow(other.at, window) /\ other.no < r.no => other \in got
                /\ \E r \in got : Evidence(product, r, window)
    BY <2>4 DEF Evident, Oldest
  <2>5. Evident(window) =>
          /\ product = "huorong" => \E row \in log : Evidence(product, row, window)
          /\ product = "qihoo-360" => \E row \in log : Evidence(product, row, window)
          /\ product = "tencent-pc-manager" =>
               ContainerCounts(readiness.baseline, container, window)
    BY DEF Evident
  <2> QED BY <2>1, <2>2, <2>3, <2>4, <2>5 DEF EvidentStays, Serving, Prepared
<1>8. CASE Ends
  BY <1>0, <1>8, EndEffect DEF ServingInv, EvidentStays, Serving, Idle
<1>9. CASE CopyDatabase
  <2>1. /\ product = "huorong" /\ UNCHANGED <<product, case, log>> /\ Serving
        /\ collector'.window = collector.window /\ collector'.at = "second"
        /\ collector'.evident = collector.evident
    BY <1>0, <1>9 DEF CopyDatabase, TypeOK, Collector, source, Serving
  <2> QED BY <1>0, <2>1 DEF ServingInv, EvidentStays, Serving, Prepared
<1>10. CASE CopySummary
  <2>1. /\ product = "qihoo-360" /\ UNCHANGED <<product, case, log>> /\ Serving
        /\ collector'.window = collector.window /\ collector'.at = "second"
        /\ collector'.evident = collector.evident /\ collector'.held = log
        /\ collector.at = "first"
    BY <1>0, <1>10 DEF CopySummary, TypeOK, Collector, source, Serving
  <2> QED BY <1>0, <2>1 DEF ServingInv, EvidentStays, Serving, Prepared
<1>11. CASE ObserveQuarantine /\ collector'.at # "idle"
  <2>1. /\ product = "tencent-pc-manager" /\ UNCHANGED <<product, case>> /\ Serving
        /\ collector'.window = collector.window /\ collector'.at = "second"
        /\ collector'.evident = collector.evident /\ collector'.seen = container
        /\ collector'.baseline = readiness.baseline /\ collector.at = "first"
    BY <1>0, <1>11, ObserveEffect DEF ObserveQuarantine, TypeOK, Collector, Serving
  <2> QED BY <1>0, <2>1 DEF ServingInv, EvidentStays, Serving, Prepared
<1>12. CASE UNCHANGED vars
  BY <1>0, <1>12 DEF vars, ServingInv, EvidentStays, Serving, Prepared
<1> QED BY <1>1, <1>2, <1>3, <1>4, <1>5, <1>6, <1>7, <1>8, <1>9, <1>10, <1>11, <1>12
     DEF Next, Ends

\* Rows are numbered as written, what a collection copied is still in the log,
\* a container that is not the one of the baseline was written since, and the
\* evidence a collection began with is left for it to read.
THEOREM CollectorInvHolds == Spec => []CollectorInv
<1>1. CollectorInv /\ [Next]_vars => CollectorInv'
  BY TypeKeeps, RowsKeep, CopiesKeep, BaselinesKeep, EvidentKeeps DEF CollectorInv
<1> QED BY InitInv, <1>1, PTL DEF Spec

-----------------------------------------------------------------------------
(* What the collectors conclude *)

\* Huorong: untorn copies without an error are the log.
LEMMA HuorongConcludes ==
  ASSUME CollectorInv, ReadCopies
  PROVE  /\ overlooked' = collector.torn
         /\ Detects(result') => \E row \in log : Evidence(product, row, collector.window)
         /\ IsClear(result') /\ ~collector.torn =>
              ~ \E row \in log : Evidence(product, row, collector.window)
         /\ result'.state = "collected" /\ ~collector.torn
            /\ (\E row \in log : Evidence(product, row, collector.window))
              => Detects(result')
<1>0. TypeOK /\ CopiesHold /\ collector.errors \in BOOLEAN
  BY DEF CollectorInv, TypeOK, Collector
<1>1. /\ artifact \cup Recent \subseteq log
      /\ collector.errors \/ collector.torn \/ artifact \cup Recent = log
      /\ product = "huorong"
  BY <1>0 DEF ReadCopies, CopiesHold, Recent
<1>2. \A row : HuorongEvent(row, collector.window) <=> Evidence(product, row, collector.window)
  BY <1>1 DEF HuorongEvent, Evidence
<1>3. PICK rows \in SUBSET log, errors \in BOOLEAN :
        /\ result' = HuorongResult(rows, errors, collector.window)
        /\ errors \/ collector.torn \/ rows = log
        /\ overlooked' = collector.torn
  <2>1. CASE Return(HuorongResult(artifact \cup Recent, collector.errors, collector.window),
                    collector.torn)
    BY <1>0, <1>1, <2>1 DEF Return
  <2>2. CASE \E rows \in SUBSET (artifact \cup Recent) :
               Return(HuorongResult(rows, TRUE, collector.window), collector.torn)
    BY <1>1, <2>2 DEF Return
  <2> QED BY <2>1, <2>2 DEF ReadCopies
<1>4. CASE \E row \in rows : HuorongEvent(row, collector.window)
  <2>1. Detects(result') /\ ~IsClear(result')
    BY <1>3, <1>4 DEF HuorongResult, Collected, Detects, IsClear
  <2> QED BY <1>2, <1>3, <1>4, <2>1
<1>5. CASE ~ \E row \in rows : HuorongEvent(row, collector.window)
  <2>1. CASE errors
    BY <1>3, <1>5, <2>1 DEF HuorongResult, Unread, Detects, IsClear
  <2>2. CASE ~errors /\ ~collector.torn
    <3>1. ~ \E row \in log : Evidence(product, row, collector.window)
      BY <1>2, <1>3, <1>5, <2>2
    <3> QED BY <1>3, <1>5, <2>2, <3>1 DEF HuorongResult, Collected, Detects, IsClear
  <2>3. CASE collector.torn
    BY <1>3, <1>5, <2>3 DEF HuorongResult, Unread, Collected, Detects, IsClear
  <2> QED BY <2>1, <2>2, <2>3
<1> QED BY <1>4, <1>5

\* Defender: what a query returned decides.
LEMMA DefenderConcludes ==
  ASSUME CollectorInv, QueryChannel
  PROVE  /\ Detects(result') => \E row \in log : Evidence(product, row, collector.window)
         /\ IsClear(result') /\ ~overlooked' =>
              ~ \E row \in log : Evidence(product, row, collector.window)
         /\ result'.state = "collected" /\ collector.evident /\ ~overlooked' =>
              Detects(result')
<1> DEFINE window == collector.window
           rows == {row \in log : InWindow(row.at, window)}
<1>0. TypeOK /\ RowsFitProduct /\ RowsAsWritten /\ EvidentStays
  BY DEF CollectorInv
<1>1. product = "windows-defender" /\ Serving
  BY DEF QueryChannel, Serving
<1>2. \A row \in log : row.at # NoTime /\ "hash" \notin row.fits /\ row.did \in Actions
  BY <1>0, <1>1 DEF RowsFitProduct, TypeOK, Row
<1>3. CASE Return(Unread, FALSE)
  BY <1>3 DEF Return, Unread, Detects, IsClear
<1>4. CASE \E got \in SUBSET rows :
             /\ Oldest(got, rows, Limit)
             /\ Return(Collected(DefenderVerdict(got, window)), got # Parsed(got))
  <2>1. PICK got \in SUBSET rows :
          /\ Oldest(got, rows, Limit)
          /\ Return(Collected(DefenderVerdict(got, window)), got # Parsed(got))
    BY <1>4
  <2> DEFINE sure == {r \in Parsed(got) : DefenderLevel(r, window) \in Confident}
             did == {row.did : row \in sure}
  <2>2. \A row \in got :
          DefenderLevel(row, window) \in Confident <=> row.fits \cap {"path", "process"} # {}
    BY <2>1 DEF DefenderLevel, Confident
  <2>0. Parsed(got) \subseteq got /\ (~overlooked' => Parsed(got) = got)
    BY <2>1 DEF Return, Parsed
  <2>3. \A row \in Parsed(got) : Evidence(product, row, window) <=> row \in sure /\ row.did # "none"
    BY <1>1, <1>2, <2>0, <2>1, <2>2 DEF Evidence
  <2>4. result'.verdict = DefenderVerdict(got, window)
    BY <2>1 DEF Return, Collected
  <2>5. Detects(result') <=> did \ {"none"} # {}
    <3>1. did \subseteq Actions
      BY <1>2, <2>0
    <3>2. DefenderVerdict(got, window) =
            IF "removed" \in did THEN "intercepted"
            ELSE IF "detected" \in did THEN "detected"
            ELSE IF "allowed" \in did THEN "detected_only"
            ELSE IF "failed" \in did THEN "detected_with_action_failed"
            ELSE IF Parsed(got) # {} THEN "unknown"
            ELSE "not_intercepted"
      BY DEF DefenderVerdict
    <3> HIDE DEF did
    <3>3. did \ {"none"} # {} <=>
            "removed" \in did \/ "detected" \in did \/ "allowed" \in did \/ "failed" \in did
      <4>1. ASSUME NEW x \in did, x # "none"
            PROVE "removed" \in did \/ "detected" \in did \/ "allowed" \in did \/ "failed" \in did
        BY <3>1, <4>1 DEF Actions
      <4> QED BY <4>1
    <3>4. DefenderVerdict(got, window) \in
            {"intercepted", "detected", "detected_only", "detected_with_action_failed"}
          <=> did \ {"none"} # {}
      BY <3>2, <3>3
    <3> QED BY <2>4, <3>4 DEF Detects
  <2>6. IsClear(result') /\ ~overlooked' => got = {}
    BY <2>0, <2>4 DEF DefenderVerdict, IsClear
  <2>7. Detects(result') => \E row \in log : Evidence(product, row, window)
    BY <2>0, <2>3, <2>5
  <2>8. got = {} => rows = {}
    BY <2>1, FS_EmptySet DEF Oldest
  <2>9. rows = {} => ~ \E row \in log : Evidence(product, row, window)
    BY <1>1, <1>2 DEF Evidence
  <2>10. collector.evident => \E row \in got : Evidence(product, row, window)
    <3> SUFFICES ASSUME collector.evident PROVE \E row \in got : Evidence(product, row, window)
      OBVIOUS
    <3>1. PICK old \in SUBSET rows :
            /\ Cardinality(old) <= Limit
            /\ \A row \in old, other \in log :
                 InWindow(other.at, window) /\ other.no < row.no => other \in old
            /\ \E row \in old : Evidence(product, row, window)
      BY <1>0, <1>1 DEF EvidentStays
    <3>2. CASE old \subseteq got
      BY <3>1, <3>2
    <3>3. CASE ~(old \subseteq got)
      <4>1. PICK row \in old : row \notin got
        BY <3>3
      <4>2. \A r \in log : r.no \in Nat
        BY <1>0 DEF TypeOK, Row
      <4>3. \A r \in got : r.no < row.no
        <5> SUFFICES ASSUME NEW r \in got, ~(r.no < row.no) PROVE FALSE
          OBVIOUS
        <5>1. row.no < r.no \/ row.no = r.no
          BY <3>1, <4>1, <4>2, <2>1
        <5>2. row \in rows /\ row \in log /\ r \in log
          BY <2>1, <3>1, <4>1
        <5> QED BY <1>0, <2>1, <4>1, <5>1, <5>2 DEF Oldest, RowsAsWritten
      <4>4. got \subseteq old
        BY <2>1, <3>1, <4>1, <4>3
      <4>5. IsFiniteSet(old) /\ IsFiniteSet(got)
        BY <1>0, <2>1, <3>1, FS_Subset DEF RowsAsWritten
      <4>6. Cardinality(got) < Cardinality(old)
        <5>1. Cardinality(got) <= Cardinality(old) /\ Cardinality(got) # Cardinality(old)
          BY <4>1, <4>4, <4>5, FS_Subset
        <5> QED BY <4>5, <5>1, FS_CardinalityType
      <4>7. got # rows /\ Cardinality(got) # Limit
        BY <3>1, <4>1, <4>5, <4>6, FS_CardinalityType
      <4> QED BY <2>1, <4>7 DEF Oldest
    <3> QED BY <3>2, <3>3
  <2>11. collector.evident /\ ~overlooked' => Detects(result')
    BY <2>0, <2>3, <2>5, <2>10
  <2> HIDE DEF rows
  <2> QED BY <2>6, <2>7, <2>8, <2>9, <2>11
<1> QED BY <1>3, <1>4 DEF QueryChannel

\* 360: only rows that name the sample or its path are reported.
LEMMA QihooConcludes ==
  ASSUME CollectorInv, ReadSummary
  PROVE  /\ Detects(result') =>
              \E row \in log : Evidence(product, row, collector.window)
         /\ ~IsClear(result')
         /\ result'.state = "collected" /\ collector.evident => Detects(result')
<1>0. TypeOK /\ RowsFitProduct /\ CopiesHold /\ EvidentStays
  BY DEF CollectorInv
<1>1. product = "qihoo-360" /\ Serving /\ collector.at = "second"
  BY DEF ReadSummary, Serving
<1>2. \A row \in log : "process" \notin row.fits /\ row.did \in Actions
  BY <1>0, <1>1 DEF RowsFitProduct, TypeOK, Row
<1>3. CASE Return(Failure, FALSE)
  BY <1>3 DEF Return, Failure, Detects, IsClear
<1>4. CASE \E later \in SUBSET (log \ collector.held) :
             Return(Collected(QihooVerdict(collector.held \cup later, collector.window)), FALSE)
  <2>1. PICK later \in SUBSET (log \ collector.held) :
          Return(Collected(QihooVerdict(collector.held \cup later, collector.window)), FALSE)
    BY <1>4
  <2> DEFINE rows == collector.held \cup later
             did == {row.did : row \in {r \in rows :
                       QihooLevel(r, collector.window) \in Confident}}
  <2>2. rows \subseteq log
    BY <1>0 DEF CopiesHold
  <2>3. result'.verdict = QihooVerdict(rows, collector.window)
    BY <2>1 DEF Return, Collected
  <2>4. Detects(result') <=> did \ {"none"} # {}
    BY <2>3 DEF QihooVerdict, Detects
  <2>5. ~IsClear(result')
    BY <2>3 DEF QihooVerdict, IsClear
  <2>6. \A row \in rows : row.did # "none" =>
          (QihooLevel(row, collector.window) \in Confident
             <=> row.fits \cap {"path", "hash"} # {})
    BY DEF QihooLevel, Confident
  <2>7. collector.evident => \E row \in rows : Evidence(product, row, collector.window)
    BY <1>0, <1>1 DEF EvidentStays
  <2>8. \A row \in rows : Evidence(product, row, collector.window) <=>
          row.fits \cap {"path", "hash"} # {} /\ row.did # "none"
    BY <1>1, <1>2, <2>2 DEF Evidence
  <2> HIDE DEF rows
  <2> QED BY <2>2, <2>4, <2>5, <2>6, <2>7, <2>8
<1> QED BY <1>3, <1>4 DEF ReadSummary

\* Tencent: only a container that was seen counts.
LEMMA TencentConcludes ==
  ASSUME CollectorInv, ObserveCache
  PROVE  /\ Detects(result') =>
              ContainerCounts(collector.baseline, collector.seen, collector.window)
         /\ ~IsClear(result')
         /\ result'.state = "collected" /\ collector.evident => Detects(result')
<1>1. product = "tencent-pc-manager" /\ collector.at = "second"
  BY DEF ObserveCache
<1>2. collector.evident =>
        ContainerCounts(collector.baseline, collector.seen, collector.window)
  BY <1>1 DEF CollectorInv, EvidentStays
<1>3. CASE Return(Failure, FALSE)
  BY <1>3 DEF Return, Failure, Detects, IsClear
<1>4. CASE Return(Collected(TencentVerdict(collector.baseline, collector.seen,
                                           collector.window)), FALSE)
  BY <1>2, <1>4 DEF Return, Collected, TencentVerdict, Detects, IsClear
<1> QED BY <1>3, <1>4 DEF ObserveCache

\* What ends without a conclusion.
LEMMA NothingConcluded ==
  ASSUME CollectorInv, SourceMissing \/ (ObserveQuarantine /\ collector'.at = "idle")
  PROVE  /\ ~Detects(result') /\ ~IsClear(result')
         /\ result'.state = "collected" =>
              product = "tencent-pc-manager" /\ collector.window.uploaded = NoTime
<1>1. CASE SourceMissing
  BY <1>1 DEF SourceMissing, Return, Unread, NotFound, Detects, IsClear
<1>2. CASE ObserveQuarantine /\ collector'.at = "idle"
  <2>1. Return(Collected("unknown"), FALSE) /\ case.uploaded = NoTime
    BY <1>2 DEF ObserveQuarantine, CollectorInv, TypeOK, Collector
  <2>2. Serving /\ product = "tencent-pc-manager"
    BY <1>2 DEF ObserveQuarantine, Serving
  <2> QED BY <2>1, <2>2 DEF Return, Collected, Detects, IsClear, CollectorInv
<1> QED BY <1>1, <1>2

-----------------------------------------------------------------------------
(* The contract *)

LEMMA LoggedIsBoolean == TypeOK => Logged \in BOOLEAN
<1> SUFFICES ASSUME TypeOK PROVE Logged \in BOOLEAN
  OBVIOUS
<1>1. product \in {"huorong", "windows-defender", "qihoo-360", "tencent-pc-manager"}
  BY DEF TypeOK, Products, LogProducts
<1> QED BY <1>1 DEF Logged, LogProducts

\* A collection that ends concludes from the log as it is: the step is one of
\* the contract.
LEMMA EndConcludes ==
  ASSUME CollectorInv, Ends
  PROVE  /\ Finding' \in {"inconclusive", "detected", "clear"}
         /\ Finding' = "detected" => Logged
         /\ Finding' = "clear" => (Logged => overlooked')
<1>1. /\ Finding' \in {"inconclusive", "detected", "clear"}
      /\ Finding' = "detected" => Detects(result')
      /\ Finding' = "clear" => IsClear(result')
  BY DEF Finding
<1>2. (Detects(result') => Logged) /\ (IsClear(result') /\ ~overlooked' => ~Logged)
  <2>1. CASE ReadCopies
    <3>1. product = "huorong" /\ WindowNow = collector.window
      BY <2>1 DEF ReadCopies, WindowNow, Serving
    <3>2. Logged <=> \E row \in log : Evidence(product, row, collector.window)
      BY <3>1 DEF Logged, LogProducts
    <3> QED BY <2>1, <3>2, HuorongConcludes
  <2>2. CASE QueryChannel
    <3>1. product = "windows-defender" /\ WindowNow = collector.window
      BY <2>2 DEF QueryChannel, WindowNow, Serving
    <3>2. Logged <=> \E row \in log : Evidence(product, row, collector.window)
      BY <3>1 DEF Logged, LogProducts
    <3> QED BY <2>2, <3>2, DefenderConcludes
  <2>3. CASE ReadSummary
    <3>1. product = "qihoo-360" /\ WindowNow = collector.window
      BY <2>3 DEF ReadSummary, WindowNow, Serving
    <3>2. Logged <=> \E row \in log : Evidence(product, row, collector.window)
      BY <3>1 DEF Logged, LogProducts
    <3> QED BY <2>3, <3>2, QihooConcludes
  <2>4. CASE ObserveCache
    <3>1. product = "tencent-pc-manager" /\ collector.at = "second"
          /\ WindowNow = collector.window
      BY <2>4 DEF ObserveCache, WindowNow, Serving
    <3>2. Logged <=> collector.seen.present /\ NearWindow(collector.seen.mtime, collector.window)
      BY <3>1 DEF Logged, LogProducts
    <3> QED BY <2>4, <3>2, TencentConcludes DEF ContainerCounts
  <2>5. CASE SourceMissing \/ (ObserveQuarantine /\ collector'.at = "idle")
    BY <2>5, NothingConcluded
  <2> QED BY <2>1, <2>2, <2>3, <2>4, <2>5 DEF Ends
<1> QED BY <1>1, <1>2

LEMMA StepImplements ==
  ASSUME CollectorInv, [Next]_vars
  PROVE  [Contract!ContractNext]_(Contract!contractVars)
<1>0. Logged' \in BOOLEAN
  <2>1. TypeOK'
    BY TypeKeeps
  <2>2. product' \in {"huorong", "windows-defender", "qihoo-360", "tencent-pc-manager"}
    BY <2>1 DEF TypeOK, Products, LogProducts
  <2> QED BY <2>2 DEF Logged, LogProducts
<1>1. CASE Ends
  <2>1. Contract!Conclude
    BY <1>0, <1>1, EndConcludes, EndEffect DEF Contract!Conclude
  <2> QED BY <2>1 DEF Contract!ContractNext
<1>2. CASE UNCHANGED file
  <2>1. Finding' = Finding /\ UNCHANGED overlooked
    BY <1>2 DEF file, Finding
  <2> QED BY <1>0, <2>1 DEF Contract!LogChanges, Contract!ContractNext
<1>3. CASE Tick \/ WriteRow \/ Checkpoint \/ WriteQuarantine \/ Prepare \/ Upload
           \/ CheckReadiness \/ BeginCollect \/ CopyDatabase \/ CopySummary
           \/ UNCHANGED vars
  BY <1>2, <1>3 DEF Tick, WriteRow, Checkpoint, WriteQuarantine, Prepare, Upload,
     CheckReadiness, BeginCollect, CopyDatabase, CopySummary, vars, file
<1>4. CASE ObserveQuarantine /\ collector'.at # "idle"
  BY <1>2, <1>4, ObserveEffect DEF file
<1> QED BY <1>1, <1>3, <1>4 DEF Next, Ends

\* The collectors implement their contract: a detection they report rests on
\* evidence in the log, and a log they find clear holds none, unless its copy
\* was torn or an event could not be parsed.
THEOREM CollectorsKeepContract == Spec => KeepsContract
<1>1. CollectorInv /\ Init => Contract!ContractInit
  BY LoggedIsBoolean DEF CollectorInv, Contract!ContractInit, Init, Finding, NotFound,
     Detects, IsClear
<1>2. CollectorInv /\ [Next]_vars => [Contract!ContractNext]_(Contract!contractVars)
  BY StepImplements
<1> QED BY <1>1, <1>2, CollectorInvHolds, PTL DEF Spec, KeepsContract, Contract!ContractSpec

\* A collection returns by one of the steps that end it.
LEMMA ReturnsByEnding ==
  ASSUME CollectorInv, [Next]_vars, Returns
  PROVE  Ends
<1>1. collector.at \in {"first", "second"} /\ collector'.at = "idle"
  BY DEF Returns, Serving, CollectorInv, TypeOK, Collector
<1>2. ~Checkpoint /\ ~WriteQuarantine
  BY <1>1 DEF Checkpoint, WriteQuarantine, CollectorInv, TypeOK, Collector
<1>3. ~CopyDatabase /\ ~CopySummary /\ ~BeginCollect
  BY <1>1 DEF CopyDatabase, CopySummary, BeginCollect, CollectorInv, TypeOK, Collector,
     Idle, Serving
<1>4. ~Tick /\ ~WriteRow /\ ~Prepare /\ ~Upload /\ ~CheckReadiness /\ ~UNCHANGED vars
  BY <1>1 DEF Tick, WriteRow, Prepare, Upload, CheckReadiness, vars
<1> QED BY <1>1, <1>2, <1>3, <1>4 DEF Next, Ends

\* Evidence that was there when a collection began is reported, unless the
\* collection says that something failed.
THEOREM EvidenceReported == Spec => EvidenceIsReported
<1> DEFINE Reported ==
      Returns /\ result'.state = "collected"
      /\ collector.evident /\ ~overlooked'
      /\ (product = "tencent-pc-manager" => collector.window.uploaded # NoTime)
      => Detects(result')
<1>1. CollectorInv /\ [Next]_vars => [Reported]_vars
  <2> SUFFICES ASSUME CollectorInv, [Next]_vars PROVE Reported \/ UNCHANGED vars
    OBVIOUS
  <2>1. CASE ReadCopies
    BY <2>1, HuorongConcludes DEF ReadCopies, CollectorInv, EvidentStays
  <2>2. CASE QueryChannel \/ ReadSummary \/ ObserveCache
    BY <2>2, DefenderConcludes, QihooConcludes, TencentConcludes
  <2>3. CASE SourceMissing \/ (ObserveQuarantine /\ collector'.at = "idle")
    BY <2>3, NothingConcluded
  <2>4. Returns => Ends
    BY ReturnsByEnding
  <2> QED BY <2>1, <2>2, <2>3, <2>4 DEF Ends
<1> QED BY <1>1, CollectorInvHolds, PTL DEF Spec, EvidenceIsReported

\* Tencent's collector never reports a container that its baseline already
\* showed.
THEOREM OldContainerStaysIgnored == Spec => OldContainerIgnored
<1> DEFINE Ignored ==
      Returns /\ product = "tencent-pc-manager" /\ Detects(result')
      /\ collector.baseline.md5
      => collector.seen.written >= collector.baseline.at
<1>1. CollectorInv /\ [Next]_vars => [Ignored]_vars
  <2> SUFFICES ASSUME CollectorInv, [Next]_vars, Returns, product = "tencent-pc-manager",
                      Detects(result'), collector.baseline.md5
               PROVE  collector.seen.written >= collector.baseline.at \/ UNCHANGED vars
    OBVIOUS
  <2>1. CASE ObserveCache
    <3>1. ContainerCounts(collector.baseline, collector.seen, collector.window)
      BY <2>1, TencentConcludes
    <3>2. WrittenSince(collector.baseline, collector.seen)
      BY DEF CollectorInv, BaselinesHold
    <3> QED BY <3>1, <3>2 DEF ContainerCounts, Unchanged, WrittenSince
  <2>2. CASE SourceMissing \/ (ObserveQuarantine /\ collector'.at = "idle")
    BY <2>2, NothingConcluded
  <2>3. ~ReadCopies /\ ~QueryChannel /\ ~ReadSummary
    BY DEF ReadCopies, QueryChannel, ReadSummary
  <2>4. Ends
    BY ReturnsByEnding
  <2> QED BY <2>1, <2>2, <2>3, <2>4 DEF Ends
<1> QED BY <1>1, CollectorInvHolds, PTL DEF Spec, OldContainerIgnored
=============================================================================
