\* Two batches of one case on one instance, and a standalone run.
CONSTANTS
  p1 = p1
  p2 = p2
  p3 = p3
  b1 = b1
  b2 = b2
  b3 = b3
  i1 = i1
  i2 = i2
  s1 = s1
  NoRun = NoRun
  RunsDir = RunsDir
  Procs = {p1, p2}
  Batches = {b1, b2}
  Instances = {i1}
  BatchOf <- OwnBatches
  InstanceOf <- Shared
  Singles = {s1}
  SingleOn <- OnFirst
  Cases = {1}
  MaxAttempts = 2
SPECIFICATION UseSpec
INVARIANT BatchesExclude
