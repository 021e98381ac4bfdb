\* Probes beside the Operations that rewrite the files; a failed pod, a lost
\* PATCH, an expired Job and a failed call.
SPECIFICATION FairSpec
CONSTANTS
  Ops = {1, 2, 3, 4}
  OpType <- WriteType
  OpRegions <- WriteRegions
  NameLen <- ShortNames
  Plans = {{1, 3}, {1, 2}, {1, 4}}
  RegionPaths = {1, 2}
  MaxSeq = 2
  MaxFaults = 1
INVARIANTS ObservedMeansProbed ReportHasTarget
PROPERTIES SequenceKept EveryWriteObserved ReportReachesStatus
CHECK_DEADLOCK FALSE
