\* One case, every combination of reuse and deferral.
SPECIFICATION FairSpec
INVARIANTS LaunchedOnce CompletedMeansDone EndsSafe DeferredIsComplete
PROPERTIES EvidenceBeforeCleanup KeepsPromise RunEnds
CHECK_DEADLOCK FALSE
