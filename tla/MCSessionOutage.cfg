SPECIFICATION FairSpec
CONSTANTS
  Roles = {"viewer"}
  MaxAttempts = 2
  MaxTries = 1
  MaxEpoch = 1
  MaxFaults = 2
  MaxInbox = 2
PROPERTY
  RestoredAfterOutage
CHECK_DEADLOCK FALSE
