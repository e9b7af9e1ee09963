SPECIFICATION Spec
CONSTANTS
  Cron <- MCCron
  MinDelay = 2
  DegradedDelay = 4
  Plans <- MCPlans
  MaxTime = 18
  MaxRotations = 5
INVARIANTS
  TypeOK
  SlotNotMissed
  OncePerSlotWithoutWindow
CHECK_DEADLOCK FALSE
