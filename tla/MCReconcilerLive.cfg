SPECIFICATION FairSpec
CONSTANTS
  Cron <- MCCron
  MinDelay = 1
  Specs <- OneSpec
  NumTargets = 0
  HistoryLimit = 1
  RetryBackoff = 2
  SuspendDelay = 3
  UnhealthyDelay = 2
  MaxLag = 0
  MaxTime = 2
  MaxAttempts = 9
  Budgets <- LiveFaults
PROPERTIES
  EventuallyRotated
  EventuallyServed
  EventuallyGone
CHECK_DEADLOCK FALSE
