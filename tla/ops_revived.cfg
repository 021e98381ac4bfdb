\* A gate fails an armed Operation; a later pass revives it.
SPECIFICATION Spec
CONSTANTS
  Ops = {1, 2, 3}
  OpType <- AddBootstrapMigrate
  NoOp = NoOp
  Mode = "ClusterManaged"
  RegionsConfigured = TRUE
  HasRegions = {}
  RebuildRefused = FALSE
  InitialImpact = "WriteHeavy"
  BackoffLimit = 0
  MaxFaults = 0
  MaxDeletes = 1
  MaxEdits = 0
CHECK_DEADLOCK FALSE
INVARIANTS StatusMutexAlways
