\* The first failed pod releases the write plane while the Job retries.
SPECIFICATION Spec
CONSTANTS
  Ops = {1, 2}
  OpType <- MigrateBootstrap
  NoOp = NoOp
  Mode = "ClusterManaged"
  RegionsConfigured = TRUE
  HasRegions = {}
  RebuildRefused = FALSE
  InitialImpact = "WriteHeavy"
  BackoffLimit = 2
  MaxFaults = 0
  MaxDeletes = 0
  MaxEdits = 0
CHECK_DEADLOCK FALSE
INVARIANTS JobMutex
