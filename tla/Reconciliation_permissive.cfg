CONSTANTS
  c1 = c1  c2 = c2  s1 = s1  s2 = s2
  Tasks = {t1}
  Contracts = {c1, c2}
  Services = {s1, s2}
  ProviderOf <- OneProvider
  Events = {e1, e2}
  Workers = {w1}
  MaxAttempts = 2
  MaxFaults = 1
  MaxTaskless = 1
  AutoChoices <- Either
  ReuseTaskIds = TRUE
  Runners = {t1}
  NoEvent = NoEvent
  NoDrift = NoDrift
  NoWork = NoWork
SPECIFICATION Spec
SYMMETRY RunnerSymmetry
CHECK_DEADLOCK FALSE
INVARIANTS BindingIntegrity
  DriftsAreBackedByWork
PROPERTIES InboxNeverRewinds
