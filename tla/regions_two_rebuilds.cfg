\* Policy Rebuild and two edits.
SPECIFICATION FairSpec
CONSTANTS
  RegionPaths = {1, 2, 3}
  Styles = {"full"}
  Policy = "Rebuild"
  Bootstrapped = TRUE
  ManualRebuild = {}
  Plans = {"all"}
  MaxGen = 3
  MaxFires = 0
  MaxFailures = 0
  MaxFaults = 0
PROPERTIES StatusSettles
