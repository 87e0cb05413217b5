---------------------------- MODULE Attribution ----------------------------
(***************************************************************************)
(* How the collectors of the four products decide whether what a product   *)
(* recorded concerns the case, and what they conclude from it              *)
(* (src/src/cloud_av_agent_lab/guest_agent_server/collectors).             *)
(*                                                                         *)
(* A row of a log carries a time, the fields that agree with the case, and *)
(* what the product says it did.  Field names, encodings, message texts    *)
(* and the evidence copied into events are left out.                       *)
(***************************************************************************)
EXTENDS Integers, FiniteSets

CONSTANTS
  Buffer,      \* WINDOW_PRE_BUFFER_SECONDS
  Tolerance    \* WINDOW_TOLERANCE_SECONDS

ASSUME WindowAssumption == Buffer \in Nat /\ Tolerance \in Nat

LogProducts == {"huorong", "windows-defender", "qihoo-360"}
Products == LogProducts \cup {"tencent-pc-manager"}

\* A time that is missing or cannot be parsed.
NoTime == -1
Times == Nat \cup {NoTime}

\* The path lies in the case, the hash is the sample's, the process is the
\* case's, the threat name is one the collector knows.
Matches == {"path", "hash", "process", "threat"}
Actions == {"none", "detected", "removed", "allowed", "failed"}

\* Rows are numbered in the order the product writes them.  An event of
\* Defender's channel may be XML that cannot be parsed.
Row == [no: Nat, at: Times, fits: SUBSET Matches, did: Actions, legible: BOOLEAN]

\* uploaded is NoTime before the first upload.
Window == [start: Int, uploaded: Times, end: Nat]

InWindow(at, window) ==
  at # NoTime /\ window.start <= at /\ at <= window.end

\* _build_collection_window, of a collection that starts now.
WindowAt(prepared, uploaded, now) ==
  [start |-> (IF uploaded # NoTime THEN uploaded ELSE prepared) - Buffer,
   uploaded |-> uploaded,
   end |-> now]

Confident == {"strong", "medium"}

\* What a collector returns.  Errors are reported with every state but
\* "collected", and events beside errors make it "partial".
Result == [state: {"not_collected", "failed", "partial", "collected"},
           verdict: {"unknown", "failed", "detected", "detected_only",
                     "detected_with_action_failed", "intercepted",
                     "not_intercepted"}]

NotFound == [state |-> "not_collected", verdict |-> "unknown"]
Unread == [state |-> "failed", verdict |-> "unknown"]
Failure == [state |-> "failed", verdict |-> "failed"]
Collected(verdict) == [state |-> "collected", verdict |-> verdict]

\* A result says that the product acted on the case, or that it did not.
Detects(result) ==
  result.verdict \in {"intercepted", "detected", "detected_only",
                      "detected_with_action_failed"}
IsClear(result) == result.verdict = "not_intercepted"

-----------------------------------------------------------------------------
(* Huorong: rows of log.db *)

\* Seeded bug: the times of the rows are not looked at.
HuorongEventAnyTime(row, window) ==
  row.fits \cap {"hash", "path", "process"} # {} /\ row.did # "none"

\* parse_huorong_row: a row without a time is taken to be in the window.
HuorongEvent(row, window) ==
  /\ row.at = NoTime \/ InWindow(row.at, window)
  /\ row.fits \cap {"hash", "path", "process"} # {}
  /\ row.did # "none"

\* Seeded bug: errors do not matter.
HuorongResultHopeful(rows, errors, window) ==
  IF \E row \in rows : HuorongEvent(row, window) THEN Collected("intercepted")
  ELSE Collected("not_intercepted")

\* collect and _verdict_from_events_and_errors
HuorongResult(rows, errors, window) ==
  IF \E row \in rows : HuorongEvent(row, window)
  THEN [state |-> IF errors THEN "partial" ELSE "collected", verdict |-> "intercepted"]
  ELSE IF errors THEN Unread
  ELSE Collected("not_intercepted")

-----------------------------------------------------------------------------
(* Windows Defender: events of the Operational channel *)

\* _attribute_event
DefenderLevel(row, window) ==
  IF ~InWindow(row.at, window) THEN "unattributed"
  ELSE IF "path" \in row.fits THEN "strong"
  ELSE IF "process" \in row.fits THEN "medium"
  ELSE IF "threat" \in row.fits THEN "weak"
  ELSE "unattributed"

\* EvtNext returns the oldest rows of the window first and the reader stops at
\* its limit.
Oldest(got, rows, limit) ==
  /\ got \subseteq rows
  /\ \A row \in got, other \in rows : other.no < row.no => other \in got
  /\ Cardinality(got) <= limit
  /\ got = rows \/ Cardinality(got) = limit

\* _normalize_record drops the events it cannot parse, and counts no error.
Parsed(got) == {row \in got : row.legible}

\* _verdict_from_events_and_errors, of the rows a query returned.
DefenderVerdict(got, window) ==
  LET did == {row.did : row \in {r \in Parsed(got) : DefenderLevel(r, window) \in Confident}}
  IN IF "removed" \in did THEN "intercepted"
     ELSE IF "detected" \in did THEN "detected"
     ELSE IF "allowed" \in did THEN "detected_only"
     ELSE IF "failed" \in did THEN "detected_with_action_failed"
     ELSE IF Parsed(got) # {} THEN "unknown"
     ELSE "not_intercepted"

-----------------------------------------------------------------------------
(* Qihoo 360: rows of Summary.dat *)

\* attribute_qihoo360_event, without a baseline: _build_case_context never
\* gives the collector one.
QihooLevel(row, window) ==
  IF "path" \in row.fits /\ row.did # "none" THEN "strong"
  ELSE IF "hash" \in row.fits THEN "medium"
  ELSE IF InWindow(row.at, window) /\ row.did # "none" THEN "weak"
  ELSE "unattributed"

\* _verdict_from_events: 360 never finds a log clear.
QihooVerdict(rows, window) ==
  LET did == {row.did : row \in {r \in rows : QihooLevel(r, window) \in Confident}}
  IN IF "removed" \in did THEN "intercepted"
     ELSE IF did \ {"none"} # {} THEN "detected"
     ELSE "unknown"

-----------------------------------------------------------------------------
(* Tencent PC Manager: the quarantine container named after the sample's MD5 *)

\* A file as os.stat sees it, with a time of modification that is perhaps no
\* date, and when it was really written.  The container of one sample has one
\* size; strong or medium evidence counts alike.
File == [present: BOOLEAN, mtime: Times, written: Nat]
NoFile == [present |-> FALSE, mtime |-> NoTime, written |-> 0]

\* What a readiness check recorded of the container; without the sample's MD5
\* it looks for none.
Baseline == [recorded: BOOLEAN, at: Nat, md5: BOOLEAN, container: File]
NoBaseline ==
  [recorded |-> FALSE, at |-> 0, md5 |-> FALSE, container |-> NoFile]

\* _timestamp_relation: the window begins with the upload, and a time that is
\* unknown does not count against the container.
NearWindow(mtime, window) ==
  LET start == IF window.uploaded # NoTime THEN window.uploaded ELSE window.start
  IN mtime = NoTime \/ (start - Tolerance <= mtime /\ mtime <= window.end + Tolerance)

\* _baseline_state_with_observation is "unchanged".
Unchanged(baseline, container) ==
  baseline.recorded /\ baseline.container.present
  /\ baseline.container.mtime = container.mtime

\* Seeded bug: the baseline is not compared.
ContainerCountsAlways(baseline, container, window) ==
  container.present /\ NearWindow(container.mtime, window)

\* _attribute_observation: without a container the icon and the activity of the
\* cache are weak evidence at most.
ContainerCounts(baseline, container, window) ==
  /\ container.present
  /\ ~Unchanged(baseline, container)
  /\ NearWindow(container.mtime, window)

\* _verdict_from_attribution: the quarantine is never found clear.
TencentVerdict(baseline, container, window) ==
  IF ContainerCounts(baseline, container, window) THEN "intercepted" ELSE "unknown"
=============================================================================
