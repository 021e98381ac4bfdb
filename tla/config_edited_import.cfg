\* The style is edited while Bootstrap runs.
SPECIFICATION Spec
CONSTANTS
  RegionPaths = {1}
  Styles = {"full", "admin"}
  Policy = "AddData"
  Bootstrapped = FALSE
  ManualRebuild = {}
  Plans = {"all"}
  MaxGen = 2
  MaxFires = 0
  MaxFailures = 0
  MaxFaults = 0
INVARIANTS DriftReported
