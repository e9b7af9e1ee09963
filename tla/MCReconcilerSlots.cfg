SPECIFICATION Spec
CONSTANTS
  Cron <- MCCron
  MinDelay = 1
  Specs <- OneSpec
  NumTargets = 0
  HistoryLimit = 2
  RetryBackoff = 2
  SuspendDelay = 3
  UnhealthyDelay = 2
  MaxLag = 0
  MaxTime = 5
  MaxAttempts = 5
  Budgets <- ProviderOnly
INVARIANTS
  OncePerSlot
CHECK_DEADLOCK FALSE
