\* Two Rebuilds in the creation race reset the same Database.
SPECIFICATION Spec
CONSTANTS
  Ops = {1, 2}
  OpType <- RebuildTwice
  NoOp = NoOp
  MaxUID = 6
  MaxFaults = 0
  MaxDeletes = 0
PROPERTIES RebuildAlwaysStartsEmpty
