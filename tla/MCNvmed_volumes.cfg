CONSTANTS
  h1 = h1
  h2 = h2
  v1 = v1
  v2 = v2
  d1 = d1
  d2 = d2
  Conns = {h1}
  NQNs = {v1, v2}
  Dels = {d1, d2}
  MaxAdminOps <- MCMaxAdminOps
  HostReconnects = TRUE
  MaxRestarts = 1
SPECIFICATION NvmedSpec

INVARIANTS
  NvmedTypeOK
  RegisteredIsDurable
  AnsweredIsServed

CHECK_DEADLOCK FALSE
