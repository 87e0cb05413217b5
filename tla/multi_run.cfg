\* One batch of three samples, every plan, executed up to twice, one crash.
CONSTANTS
  N = 3
  MaxExecutions = 2
  MaxFaults = 2
  NoState = NoState
SPECIFICATION FairSpec
INVARIANTS BatchInv CleanLaunch BurnedMirrorIsGone
PROPERTIES LastCaseNotDeferred BurnNeedsPersistedResult EligibleResultKept UnsafeIsFinal ExecutionEnds
CHECK_DEADLOCK FALSE
