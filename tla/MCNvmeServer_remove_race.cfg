CONSTANTS
  h1 = h1
  h2 = h2
  nqnA = nqnA
  Conns = {h1}
  NQNs = {nqnA}
  MaxAdminOps = 2
  HostReconnects = FALSE
SPECIFICATION Spec

INVARIANTS
  RemovedIsUnbound

CHECK_DEADLOCK FALSE
