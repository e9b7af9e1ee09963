SPECIFICATION Spec
CONSTANTS
  Cron <- MCCron
  MinDelay = 1
  Specs <- OneSpec
  NumTargets = 1
  HistoryLimit = 1
  RetryBackoff = 2
  SuspendDelay = 3
  UnhealthyDelay = 2
  MaxLag = 1
  MaxTime = 2
  MaxAttempts = 2
  Budgets <- Faults
INVARIANTS
  TypeOK
  
  RecordsTellTruth
  
  NeverForgotten
  NotificationsTellTruth
PROPERTIES
  LedgerKept
  LastRotationMonotone
CHECK_DEADLOCK FALSE
