\* One region and two faults, so that both pods of a probe may fail.
SPECIFICATION FairSpec
CONSTANTS
  Ops = {1, 2, 3, 4}
  OpType <- UpdateType
  OpRegions <- UpdateRegions
  NameLen <- ShortNames
  Plans = {{1, 2}, {1, 4}}
  RegionPaths = {1}
  MaxSeq = 2
  MaxFaults = 2
INVARIANTS TypeOK ObservedMeansProbed ReportHasTarget
PROPERTIES SequenceKept EveryWriteObserved ReportReachesStatus
CHECK_DEADLOCK FALSE
