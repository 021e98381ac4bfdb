\* The probe of an older Update reports after that of a newer one; nothing fails.
SPECIFICATION FairSpec
CONSTANTS
  Ops = {1, 2, 3, 4}
  OpType <- UpdateType
  OpRegions <- UpdateRegions
  NameLen <- ShortNames
  Plans = {{1, 2}}
  RegionPaths = {1}
  MaxSeq = 2
  MaxFaults = 0
PROPERTIES StatusShowsFiles
CHECK_DEADLOCK FALSE
