\* A pass ends between the deletion of the Database and its annotation.
SPECIFICATION Spec
CONSTANTS
  Ops = {1, 2}
  OpType <- RebuildFirst
  NoOp = NoOp
  MaxUID = 4
  MaxFaults = 1
  MaxDeletes = 0
PROPERTIES RebuildAlwaysStartsEmpty
