CONSTANTS
  Events <- Three
  Quiet <- Newest
  MaxAttempts = 3
  MaxFaults = 2
  Idle = Idle
SPECIFICATION FairSpec
CHECK_DEADLOCK FALSE
INVARIANTS LedgerDecides
  PostsAreBounded
PROPERTIES OutcomeIsFinal
  NotificationsSettle
