CONSTANTS
  i1 = i1  i2 = i2
  Items = {i1}
  RevisionOf <- OneItem
  Changes = {3}
  Harnesses = {h1, h2}
  Webhooks = {h2}
  Dispatchers = {d1}
  MaxAttempts = 3
  MaxDispatches = 5
  MaxClaims = 3
  MaxFaults = 2
  Nobody = Nobody
  Idle = Idle
SPECIFICATION FairSpec
CHECK_DEADLOCK FALSE
INVARIANTS TypeOK
  VerifiedWorkIsBound
  CurrentTaskIsOpen
  PolledWorkIsClaimedOnce
PROPERTIES PolledWorkIsNotRevived
  DeliveryEnds
