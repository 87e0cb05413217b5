\* Two invocations over one batch directory, two files edited, one crash.
CONSTANTS
  Names = {1, 2}
  Hashes = {1, 2}
  Directories <- Scanned
  Requests <- Selected
  Given <- Brought
  Rewritten <- Edited
  MaxSessions = 2
  MaxEdits = 2
  MaxCrashes = 1
  Absent = Absent
  Torn = Torn
SPECIFICATION Spec
INVARIANTS InputsInv LaunchedAsListed OneInput
CHECK_DEADLOCK FALSE
