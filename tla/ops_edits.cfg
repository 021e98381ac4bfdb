\* Three Operations; the policy, a Job or the Cluster changes under them.
SPECIFICATION Spec
CONSTANTS
  Ops = {1, 2, 3}
  OpType <- UpdateBootstrapMigrate
  NoOp = NoOp
  Mode = "ClusterManaged"
  RegionsConfigured = TRUE
  HasRegions = {}
  RebuildRefused = FALSE
  InitialImpact = "BootstrapRebuild"
  BackoffLimit = 2
  MaxFaults = 0
  MaxDeletes = 0
  MaxEdits = 1
CHECK_DEADLOCK FALSE
INVARIANTS FirstPodMutex ConflictHasNoJob
