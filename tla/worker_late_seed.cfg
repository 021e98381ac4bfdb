\* A diff is published during an import; nothing fails.
SPECIFICATION Spec
CONSTANTS
  Jobs = {1, 2, 3, 4, 5, 6, 7, 8, 9}
  OpType <- JobType
  OpRegions <- JobRegions
  Plans = {{5}}
  RegionPaths = {1, 2, 3}
  BackoffLimit = 2
  MaxRounds = 2
  MaxHead = 2
  MaxKills = 0
  MaxFailures = 0
INVARIANTS CursorIsApplied
CHECK_DEADLOCK FALSE
