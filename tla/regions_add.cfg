\* Bootstrap and AddRegions: two edits, a failed Job, a failed call, one fire.
SPECIFICATION Spec
CONSTANTS
  RegionPaths = {1, 2}
  Styles = {"full"}
  Policy = "AddData"
  Bootstrapped = FALSE
  ManualRebuild = {}
  Plans = {"all"}
  MaxGen = 3
  MaxFires = 1
  MaxFailures = 1
  MaxFaults = 1
INVARIANTS StatusReflectsDatabase ReadyMeansImported ApiAfterImport DriftIsSerial
