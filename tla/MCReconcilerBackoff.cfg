SPECIFICATION Spec
CONSTANTS
  Cron <- MCCron
  MinDelay = 1
  Specs <- OneSpec
  NumTargets = 1
  HistoryLimit = 1
  RetryBackoff = 2
  SuspendDelay = 3
  UnhealthyDelay = 2
  MaxLag = 0
  MaxTime = 4
  MaxAttempts = 3
  Budgets <- ProviderOnly
INVARIANTS
  BackoffRespected
CHECK_DEADLOCK FALSE
