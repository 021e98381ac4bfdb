\* One failed call after the status write of the failed import.
SPECIFICATION FairSpec
CONSTANTS
  Drives <- OneRebuild
  MaxBackoff = 0
  MaxRebuilds = 1
  MaxFaults = 1
PROPERTIES FailedImportCollected
