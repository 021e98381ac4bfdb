\* Two write-heavy Operations, a retried Job, one failed call, one deletion.
SPECIFICATION Spec
CONSTANTS
  Ops = {1, 2}
  OpType <- MigrateBootstrap
  NoOp = NoOp
  Mode = "ClusterManaged"
  RegionsConfigured = TRUE
  HasRegions = {}
  RebuildRefused = FALSE
  InitialImpact = "WriteHeavy"
  BackoffLimit = 1
  MaxFaults = 1
  MaxDeletes = 1
  MaxEdits = 0
CHECK_DEADLOCK FALSE
INVARIANTS StatusMutex MutexInv RefsAgree PausedWhileHeld
PROPERTIES TerminalIsFinal ImplementsWriteMutex
