SPECIFICATION Spec
CONSTANTS
  Policies = {"p", "q"}
  Asked <- Requests
  MaxCalls = 2
  MaxStarts = 2
INVARIANTS
  HeldAsMapped
  LongEnough
  NotShared
CHECK_DEADLOCK FALSE
