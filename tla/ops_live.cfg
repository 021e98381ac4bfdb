\* Liveness with one failed call, when an Operation or the Instance is deleted.
SPECIFICATION FairSpec
CONSTANTS
  Ops = {1, 2}
  OpType <- MigrateBootstrap
  NoOp = NoOp
  Mode = "ClusterManaged"
  RegionsConfigured = TRUE
  HasRegions = {}
  RebuildRefused = FALSE
  InitialImpact = "WriteHeavy"
  BackoffLimit = 0
  MaxFaults = 1
  MaxDeletes = 1
  MaxEdits = 0
CHECK_DEADLOCK FALSE
PROPERTIES OperationsEnd PauseReleased RefsReleased DrainEnds
