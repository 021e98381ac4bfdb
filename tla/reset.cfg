\* A Rebuild and a competitor that loses the creation race; one failed call and
\* one deleted Operation at any point of the handshake.
SPECIFICATION FairSpec
CONSTANTS
  Ops = {1, 2}
  OpType <- RebuildFirst
  NoOp = NoOp
  MaxUID = 4
  MaxFaults = 1
  MaxDeletes = 1
INVARIANTS ResetInv
PROPERTIES OperationsEnd DatabaseReturns ServesAgain RebuildStartsEmpty DropOnlyForRebuild
