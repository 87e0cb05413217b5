SPECIFICATION Spec
CONSTANTS
  MaxWait = 2
  MaxRuns = 2
INVARIANTS CaseStartsRestored OutcomeIsTrue SilenceBounded
PROPERTY RunReturns
CHECK_DEADLOCK FALSE
