SPECIFICATION Spec
CONSTANTS
  NULL = NULL
  Sockets = {s1, s2}
  AcceptContexts = {a1, a2}
  ReceiveContexts = {r1, r2}
  SendContexts = {t1}
  Workers = {w1, w2}
  MaxPostAccepts = 1
  MaxClients = 2
  MaxPauses = 1
SYMMETRY Symmetry
INVARIANTS ClosedForCause
CHECK_DEADLOCK FALSE
