SPECIFICATION FairSpec
CONSTANTS
  NULL = NULL
  WorkerNum = 1
  ConnNum = 2
  MaxClients = 4
  MaxUnused = 1
INVARIANTS TypeOK FreeListExact
PROPERTIES GoneIsNoticed
CHECK_DEADLOCK FALSE
