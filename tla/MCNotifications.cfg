SPECIFICATION FairSpec
CONSTANTS
  Endpoints <- Mixed
  URLs = {"a", "b"}
  Timeout = 1
  MaxDispatches = 2
  MaxChanges = 1
INVARIANTS
  TypeOK
  
  EverySubscriberTried
PROPERTY PostsEnd
CHECK_DEADLOCK FALSE
