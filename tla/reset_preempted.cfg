\* A competitor with a smaller name arrives in mid-reset.
SPECIFICATION FairSpec
CONSTANTS
  Ops = {1, 2}
  OpType <- RebuildLast
  NoOp = NoOp
  MaxUID = 6
  MaxFaults = 0
  MaxDeletes = 0
PROPERTIES OperationsEnd
