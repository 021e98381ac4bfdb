\* From a new Instance, edited twice.
SPECIFICATION FairSpec
CONSTANTS
  RegionPaths = {1, 2}
  Styles = {"full"}
  Policy = "AddData"
  Bootstrapped = FALSE
  ManualRebuild = {}
  Plans = {"all"}
  MaxGen = 3
  MaxFires = 0
  MaxFailures = 0
  MaxFaults = 1
INVARIANTS TypeOK
PROPERTIES RegionsConverge StatusSettles
