SPECIFICATION FairSpec
CONSTANTS
  NULL = NULL
  Workers = {w1, w2}
  OverlappedCount = 2
  SeqModulus = 16
  MaxData = 2
  MayFail = TRUE
INVARIANTS TypeOK OpsCounted OutlivesUse
PROPERTIES EchoesStream EchoedAndFreed
CHECK_DEADLOCK FALSE
