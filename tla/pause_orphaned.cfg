\* The policy is edited while an Operation holds the pause.
SPECIFICATION FairSpec
CONSTANTS
  Ops = {1}
  OpType <- Single
  NoOp = NoOp
  Mode = "ClusterAttached"
  RegionsConfigured = TRUE
  HasRegions = {}
  RebuildRefused = FALSE
  InitialImpact = "WriteHeavy"
  BackoffLimit = 0
  MaxFaults = 0
  MaxDeletes = 0
  MaxEdits = 1
CHECK_DEADLOCK FALSE
PROPERTIES PauseReleased
