\* Three new regions in one edit.
SPECIFICATION FairSpec
CONSTANTS
  RegionPaths = {1, 2, 3, 4}
  Styles = {"full"}
  Policy = "AddData"
  Bootstrapped = TRUE
  ManualRebuild = {}
  Plans = {"all"}
  MaxGen = 2
  MaxFires = 0
  MaxFailures = 0
  MaxFaults = 0
PROPERTIES RegionsConverge
