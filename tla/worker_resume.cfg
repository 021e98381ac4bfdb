\* A pod of a Bootstrap is killed once.
SPECIFICATION Spec
CONSTANTS
  Jobs = {1, 2, 3, 4, 5, 6, 7, 8, 9}
  OpType <- JobType
  OpRegions <- JobRegions
  Plans = {{1}}
  RegionPaths = {1, 2, 3}
  BackoffLimit = 2
  MaxRounds = 2
  MaxHead = 1
  MaxKills = 1
  MaxFailures = 0
INVARIANTS BootstrapResumes
CHECK_DEADLOCK FALSE
