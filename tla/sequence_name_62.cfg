\* The name of the Bootstrap has 62 characters.
SPECIFICATION FairSpec
CONSTANTS
  Ops = {1, 2, 3, 4}
  OpType <- UpdateType
  OpRegions <- UpdateRegions
  NameLen <- LastCharDash
  Plans = {{1}}
  RegionPaths = {1}
  MaxSeq = 1
  MaxFaults = 0
PROPERTIES EveryWriteObserved
CHECK_DEADLOCK FALSE
