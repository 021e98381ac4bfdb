\* One add-data of an Update fails.
SPECIFICATION Spec
CONSTANTS
  Jobs = {1, 2, 3, 4, 5, 6, 7, 8, 9}
  OpType <- JobType
  OpRegions <- JobRegions
  Plans = {{5, 6}}
  RegionPaths = {1, 2, 3}
  BackoffLimit = 2
  MaxRounds = 2
  MaxHead = 3
  MaxKills = 0
  MaxFailures = 1
PROPERTIES UpdateReportsFailure
CHECK_DEADLOCK FALSE
