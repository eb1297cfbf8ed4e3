SPECIFICATION FairSpec
CONSTANTS
  NULL = NULL
  Contexts = {c1, c2}
  Buffers = {b1, b2}
  Workers = {w1}
  InitialReads = 2
  MaxConnections = 1
  MaxFreeContexts = 1
  MaxSends = 0
  WithShutdown = TRUE
  MaxAccepted = 2
INVARIANTS TypeOK
PROPERTIES ClosedIsReleased
CHECK_DEADLOCK FALSE
