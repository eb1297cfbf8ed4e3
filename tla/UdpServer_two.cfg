SPECIFICATION FairSpec
CONSTANTS
  Workers = {w1, w2}
  MaxPost = 1
  PoolSize = 2
  MaxContexts = 5
  MaxLen = 2
  MaxDatagrams = 2
  MaxPauses = 1
  MayFail = TRUE
INVARIANTS TypeOK PoolExact ReceivesKept
PROPERTIES StopCompletes
CHECK_DEADLOCK FALSE
