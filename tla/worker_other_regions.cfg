\* A Bootstrap fails and the next one asks for other regions.
SPECIFICATION Spec
CONSTANTS
  Jobs = {1, 2, 3, 4}
  OpType <- PairType
  OpRegions <- PairRegions
  Plans = {{1, 2}}
  RegionPaths = {1, 2, 3}
  BackoffLimit = 0
  MaxRounds = 2
  MaxHead = 1
  MaxKills = 1
  MaxFailures = 0
PROPERTIES ResumedBootstrapIsLoaded
CHECK_DEADLOCK FALSE
