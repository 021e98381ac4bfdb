\* Imports, or updates of an import, whose pods are killed between any two
\* commands while the server publishes diffs.
SPECIFICATION FairSpec
CONSTANTS
  Jobs = {1, 2, 3, 4, 5, 6, 7, 8, 9}
  OpType <- JobType
  OpRegions <- JobRegions
  Plans = {{1, 2, 3}, {1, 4}, {5, 6, 7}, {5, 8, 9}}
  RegionPaths = {1, 2, 3}
  BackoffLimit = 1
  MaxRounds = 1
  MaxHead = 2
  MaxKills = 2
  MaxFailures = 1
INVARIANTS TypeOK ListedIsLoaded
PROPERTIES SucceededImportIsComplete ReadySchemaSurvives BookmarksStartFresh JobsEnd
CHECK_DEADLOCK FALSE
