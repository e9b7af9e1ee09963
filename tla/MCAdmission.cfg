SPECIFICATION FairSpec
CONSTANTS
  Written <- MCWritten
  Guards <- Sometimes
INVARIANTS
  TypeOK
  GuardedIsSound
PROPERTIES
  MeaningKept
  DeletionCompletes
  
CHECK_DEADLOCK FALSE
