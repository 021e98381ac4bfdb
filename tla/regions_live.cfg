\* Edits of regions and import style with a failing Job, or two fires beside a
\* user's Rebuild of the same regions; two failed calls.
SPECIFICATION FairSpec
CONSTANTS
  RegionPaths = {1, 2}
  Styles = {"full", "admin"}
  Policy = "AddData"
  Bootstrapped = TRUE
  ManualRebuild = {{1}}
  Plans = {"edits", "schedule"}
  MaxGen = 3
  MaxFires = 2
  MaxFailures = 1
  MaxFaults = 2
INVARIANTS DriftReported
PROPERTIES RegionsConverge StatusSettles FiresTakenUp
