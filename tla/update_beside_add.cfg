\* A fire falls into the pass that creates an AddRegions.
SPECIFICATION Spec
CONSTANTS
  RegionPaths = {1, 2}
  Styles = {"full"}
  Policy = "AddData"
  Bootstrapped = TRUE
  ManualRebuild = {}
  Plans = {"all"}
  MaxGen = 2
  MaxFires = 1
  MaxFailures = 0
  MaxFaults = 0
PROPERTIES UpdateNotBesideHeavy
