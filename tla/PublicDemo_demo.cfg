CONSTANTS
  c1 = c1  s1 = s1
  Tasks = {t1, t2}
  Contracts = {c1}
  Services = {s1}
  ProviderOf <- OneContract
  Events = {e1, e2}
  Workers = {r1, r2, w1}
  MaxAttempts = 3
  MaxFaults = 0
  MaxTaskless = 0
  AutoChoices <- Manual
  ReuseTaskIds = FALSE
  Runners = {}
  NoEvent = NoEvent
  NoDrift = NoDrift
  NoWork = NoWork
  Billing = c1
  Runs = {r1, r2}
  Background = {w1}
  MaxMishaps = 1
  NoRun = NoRun
  NoTask = NoTask
SPECIFICATION FairDemo
CHECK_DEADLOCK FALSE
INVARIANTS DemoTypeOK
  DemoIsBounded
  CompletedDemosReachedApproval
PROPERTIES SupersededRunsAreSilent
  ApprovalsAreFinal
  LaunchedRunsReport
