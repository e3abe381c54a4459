CONSTANTS
  c1 = c1  s1 = s1
  Tasks = {t1, t2}
  Contracts = {c1}
  Services = {s1}
  ProviderOf <- OneContract
  Events = {e1, e2, e3}
  Workers = {t1, t2, w1}
  MaxAttempts = 2
  MaxFaults = 0
  MaxTaskless = 0
  AutoChoices <- Either
  ReuseTaskIds = FALSE
  Runners = {t1, t2}
  NoEvent = NoEvent
  NoDrift = NoDrift
  NoWork = NoWork
  Billing = c1
  Background = {w1}
  MaxMishaps = 1
SPECIFICATION FairRunner
CHECK_DEADLOCK FALSE
INVARIANTS AbandonedTasksStayInterrupted
PROPERTIES PlansAnswerTheLastInterruption
  WorkflowsEnd
