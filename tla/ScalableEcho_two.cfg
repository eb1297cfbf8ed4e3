SPECIFICATION FairSpec
CONSTANTS
  NULL = NULL
  Workers = {w1, w2}
  Conns = {c1, c2}
  MaxSends = 1
  MaxData = 1
  MayFail = TRUE
INVARIANTS TypeOK SendsBounded SendsCounted IdleWhenFreed
PROPERTIES SentAndFreed
CHECK_DEADLOCK FALSE
