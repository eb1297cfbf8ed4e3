SPECIFICATION ReadsSpec
CONSTANTS
  IOWorkers = {w1, w2}
  InitialReads = 3
  SeqModulus = 8
  MaxReads = 4
INVARIANTS InOrder
CHECK_DEADLOCK FALSE
