CONSTANTS
  c1 = c1  c2 = c2  s1 = s1  s2 = s2
  Tasks = {t1}
  Contracts = {c1}
  Services = {s1}
  ProviderOf <- OneContract
  Events = {e1, e2}
  Workers = {w1, w2}
  MaxAttempts = 3
  MaxFaults = 1
  MaxTaskless = 1
  AutoChoices <- Manual
  ReuseTaskIds = FALSE
  Runners = {}
  NoEvent = NoEvent
  NoDrift = NoDrift
  NoWork = NoWork
SPECIFICATION FairSpec
CHECK_DEADLOCK FALSE
INVARIANTS SettledTasksHaveNoActiveDrift
  InterruptedTasksHaveActiveDrift
  ReinterruptionsAreBounded
PROPERTIES BindingsNeverRegress
  EventsSettle
  AffectedTasksAreReached
  ImplementsInterventions
