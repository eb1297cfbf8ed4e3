SPECIFICATION Spec
CONSTANTS
  NULL = NULL
  Workers = {w1, w2}
  Buffers = {b1, b2, b3}
  InitialAccepts = 1
  MaxAccepts = 2
  Burst = 2
  MaxClients = 3
  MayFail = TRUE
SYMMETRY Symmetry
INVARIANTS TypeOK AcceptsCounted ListsExact NoClientStranded
CHECK_DEADLOCK FALSE
