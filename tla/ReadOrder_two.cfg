SPECIFICATION ReadsFairSpec
CONSTANTS
  IOWorkers = {w1, w2}
  InitialReads = 4
  SeqModulus = 6
  MaxReads = 6
INVARIANTS InOrderAlone NoStall
PROPERTIES ImplementsStream
CHECK_DEADLOCK FALSE
