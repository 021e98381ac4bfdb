\* A Rebuild fails before it clears the bookmarks; a Bootstrap follows.
SPECIFICATION Spec
CONSTANTS
  Jobs = {1, 2, 3, 4, 5, 6, 7, 8, 9}
  OpType <- JobType
  OpRegions <- JobRegions
  Plans = {{1, 2, 3, 4}}
  RegionPaths = {1, 2, 3}
  BackoffLimit = 0
  MaxRounds = 2
  MaxHead = 1
  MaxKills = 2
  MaxFailures = 0
INVARIANTS AlwaysListedIsLoaded
CHECK_DEADLOCK FALSE
