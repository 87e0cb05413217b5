\* Calls about one case do not overlap; calls about different cases do.
CHECK_DEADLOCK FALSE
CONSTANTS
  c1 = c1 c2 = c2 l1 = l1 l2 = l2 l3 = l3 p1 = p1 p2 = p2 p3 = p3
  Cases = {c1, c2}
  Leases = {l1, l2, l3}
  CaseOf <- LeaseCases
  Requests = {q1, q2}
  Pollers = {p1, p2}
  Polls <- PolledCases
  Ends <- SecondFails
  Unwatched = {c2}
  Psutil = TRUE
  Patient = TRUE
  MaxFaults = 1
  NoCase = NoCase
  NoLease = NoLease
  Absent = Absent
  Torn = Torn
SPECIFICATION FairSpec
INVARIANTS SingleWindow RunningHoldsWindow LeaseLaunchesOnce CaseLaunchesOnce
INVARIANT RecordedExitHappened
PROPERTY WindowReopens
