\* The name of an Update has 63 characters.
SPECIFICATION Spec
CONSTANTS
  Ops = {1, 2, 3, 4}
  OpType <- UpdateType
  OpRegions <- UpdateRegions
  NameLen <- NameOfWorker
  Plans = {{1, 2}}
  RegionPaths = {1}
  MaxSeq = 1
  MaxFaults = 0
INVARIANTS ObservedMeansProbed
CHECK_DEADLOCK FALSE
