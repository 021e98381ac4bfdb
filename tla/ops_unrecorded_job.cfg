\* The status write that records the Job is lost.
SPECIFICATION Spec
CONSTANTS
  Ops = {1, 2}
  OpType <- MigrateBootstrap
  NoOp = NoOp
  Mode = "ClusterManaged"
  RegionsConfigured = TRUE
  HasRegions = {}
  RebuildRefused = FALSE
  InitialImpact = "WriteHeavy"
  BackoffLimit = 0
  MaxFaults = 1
  MaxDeletes = 0
  MaxEdits = 0
CHECK_DEADLOCK FALSE
INVARIANTS JobMutex
