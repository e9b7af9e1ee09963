SPECIFICATION Spec
CONSTANTS
  Cron <- MCCron
  MinDelay = 1
  Specs <- AllSpecs
  NumTargets = 0
  HistoryLimit = 1
  RetryBackoff = 2
  SuspendDelay = 3
  UnhealthyDelay = 2
  MaxLag = 1
  MaxTime = 2
  MaxAttempts = 2
  Budgets <- Users
INVARIANTS
  FinalizerHoldsPolicy
  NeverForgotten
PROPERTIES
  ManualRequestHonoured
  NoLostEdit
CHECK_DEADLOCK FALSE
