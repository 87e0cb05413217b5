\* One case.  Alone: one request at a time, and a sample that may vanish.
\* Overlapped: one request begins while another is served.
CONSTANTS
  Threads = {t1, t2}
  Scopes <- ScopeSet
  MaxOverlaps = 1
SPECIFICATION Spec
SYMMETRY ThreadSymmetry
INVARIANTS AllClearIsBacked ReportIsFresh BundleAgrees
PROPERTY ExecutionKept
