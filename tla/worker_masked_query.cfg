\* One query of a repeated Bootstrap fails, after a Freeze.
SPECIFICATION Spec
CONSTANTS
  Jobs = {1, 2, 3, 4, 5, 6, 7, 8, 9}
  OpType <- JobType
  OpRegions <- JobRegions
  Plans = {{5, 8, 9}}
  RegionPaths = {1, 2, 3}
  BackoffLimit = 2
  MaxRounds = 2
  MaxHead = 1
  MaxKills = 0
  MaxFailures = 1
PROPERTIES ReadySchemaAlwaysSurvives
CHECK_DEADLOCK FALSE
