\* The end of a batch against what its state file says of the cleanup.
CONSTANTS
  N = 2
  MaxExecutions = 1
  MaxFaults = 0
  NoState = NoState
SPECIFICATION Spec
INVARIANT RestoredMeansRestored
CHECK_DEADLOCK FALSE
