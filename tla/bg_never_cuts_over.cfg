\* Reconcile writes Importing in every pass.
SPECIFICATION FairSpec
CONSTANTS
  Drives <- OneRebuild
  MaxBackoff = 0
  MaxRebuilds = 1
  MaxFaults = 0
PROPERTIES CutsOver
