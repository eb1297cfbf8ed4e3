SPECIFICATION Spec
CONSTANTS
  NULL = NULL
  Contexts = {c1, c2}
  Buffers = {b1, b2, b3}
  Workers = {w1, w2}
  InitialReads = 2
  MaxConnections = 0
  MaxFreeContexts = 1
  MaxSends = 0
  WithShutdown = TRUE
  MaxAccepted = 2
SYMMETRY Symmetry
INVARIANTS RecvCountExact SendCountExact ConnectionListExact
PROPERTIES OnlyRacesMisuse
CHECK_DEADLOCK FALSE
