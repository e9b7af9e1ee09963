SPECIFICATION Spec
CONSTANTS
  Cron <- MCCron
  MinDelay = 2
  DegradedDelay = 4
  Plans <- MCSteadyPlans
  MaxTime = 13
  MaxRotations = 4
INVARIANT OneRotationPerSlot
CHECK_DEADLOCK FALSE
