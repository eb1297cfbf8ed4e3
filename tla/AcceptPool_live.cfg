SPECIFICATION FairSpec
CONSTANTS
  NULL = NULL
  Buffers = {b1, b2, b3}
  Workers = {w1}
  InitialAccepts = 1
  MaxAccepts = 1
  AcceptBatch = 2
  AcceptExMayFail = TRUE
  MaxBacklog = 1
  MaxRepost = 0
  MaxStarts = 2
INVARIANTS TypeOK PendingCountExact PendingBounded OutstandingRecorded NoLostRepost
PROPERTIES ShutdownCompletes
CHECK_DEADLOCK FALSE
