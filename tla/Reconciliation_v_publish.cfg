CONSTANTS
  c1 = c1  c2 = c2  s1 = s1  s2 = s2
  Tasks = {t1}
  Contracts = {c1}
  Services = {s1}
  ProviderOf <- OneContract
  Events = {e1, e2}
  Workers = {w1}
  MaxAttempts = 3
  MaxFaults = 0
  MaxTaskless = 0
  AutoChoices <- Manual
  ReuseTaskIds = FALSE
  Runners = {}
  NoEvent = NoEvent
  NoDrift = NoDrift
  NoWork = NoWork
SPECIFICATION Spec
SYMMETRY Symmetry
CHECK_DEADLOCK FALSE
INVARIANTS NextRevisionIsPublishable
