CONSTANTS
  Events <- Two
  Quiet <- Oldest
  MaxAttempts = 3
  MaxFaults = 0
  Idle = Idle
SPECIFICATION FairSpec
CHECK_DEADLOCK FALSE
PROPERTIES EveryAlertSettles
