\* The Cluster is deleted under a Job of a drained Operation.
SPECIFICATION Spec
CONSTANTS
  Ops = {1, 2}
  OpType <- MigrateBootstrap
  NoOp = NoOp
  Mode = "ClusterManaged"
  RegionsConfigured = TRUE
  HasRegions = {}
  RebuildRefused = FALSE
  InitialImpact = "WriteHeavy"
  BackoffLimit = 0
  MaxFaults = 0
  MaxDeletes = 1
  MaxEdits = 0
CHECK_DEADLOCK FALSE
PROPERTIES TeardownAfterJobs
