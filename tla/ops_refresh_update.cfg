\* Refresh and Update are not in conflict for the mutex.
SPECIFICATION Spec
CONSTANTS
  Ops = {1, 2}
  OpType <- RefreshUpdate
  NoOp = NoOp
  Mode = "ClusterManaged"
  RegionsConfigured = FALSE
  HasRegions = {2}
  RebuildRefused = FALSE
  InitialImpact = "WriteHeavy"
  BackoffLimit = 0
  MaxFaults = 0
  MaxDeletes = 0
  MaxEdits = 0
CHECK_DEADLOCK FALSE
INVARIANTS RefreshAlone
