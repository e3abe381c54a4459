CONSTANTS
  p1 = p1  p2 = p2  p3 = p3  s1 = s1  s2 = s2
  Services = {s1, s2}
  Fresh = {s2}
  Promotions = {p1, p2, p3}
  ServiceOf <- TwoAndOne
  MaxOverlap = 2
  MaxCrashes = 1
  MaxFaults = 1
  Initial = Initial
  Checkout = Checkout
  Partial = Partial
  NoDir = NoDir
  NoJournal = NoJournal
SPECIFICATION Spec
SYMMETRY Symmetry
CHECK_DEADLOCK FALSE
INVARIANTS ReleasesPassTheirGate
  JournalCoversMissingLive
  LiveIsNewestHealthy
PROPERTIES HealthyReleasesAreServed
