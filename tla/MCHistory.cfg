SPECIFICATION Spec
CONSTANTS
  HistoryLimit = 2
  MaxRecords = 4
  MaxTime = 3
  MayCrash = TRUE
INVARIANTS
  TypeOK
  KeepsNewest
  LastRecordThere
  PrunedToLimit
CHECK_DEADLOCK FALSE
