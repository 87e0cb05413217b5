\* Runs race for the lock file, are killed, and lose it while they live.
CONSTANTS
  Runs = {r1, r2, r3}
  Ttl = 2
  Stale = 2
  Forced = {r3}
  MaxCrashes = 2
  NoLock = NoLock
SPECIFICATION FairSpec
INVARIANTS LockInv BreachesBoundOverlap
PROPERTY OrphanIsReplaced
