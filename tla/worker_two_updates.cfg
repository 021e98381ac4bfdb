\* Two Updates at once; nothing fails.
SPECIFICATION Spec
CONSTANTS
  Jobs = {1, 2, 3, 4}
  OpType <- PairType
  OpRegions <- PairRegions
  Plans = {{1, 3, 4}}
  RegionPaths = {1, 2, 3}
  BackoffLimit = 2
  MaxRounds = 2
  MaxHead = 3
  MaxKills = 0
  MaxFailures = 0
PROPERTIES DiffsInOrder
CHECK_DEADLOCK FALSE
