\* A case may be polled while its launch is being served.
CONSTANTS
  c1 = c1 c2 = c2 l1 = l1 l2 = l2 l3 = l3 p1 = p1 p2 = p2 p3 = p3
  Cases = {c1, c2}
  Leases = {l1, l2, l3}
  CaseOf <- LeaseCases
  Requests = {q1, q2}
  Pollers = {p1, p3}
  Polls <- PolledCases
  Ends <- SecondFails
  Unwatched = {c2}
  Psutil = TRUE
  Patient = FALSE
  MaxFaults = 0
  NoCase = NoCase
  NoLease = NoLease
  Absent = Absent
  Torn = Torn
SPECIFICATION Spec
INVARIANT SingleWindow
CHECK_DEADLOCK FALSE
