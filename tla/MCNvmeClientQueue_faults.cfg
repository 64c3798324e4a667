CONSTANTS
  c1 = c1
  c2 = c2
  Callers = {c1, c2}
  NumDescs = 1
  ReqQueueCap = 1
  MaxOps = 2
  TargetStatuses <- Statuses
  PeerMayClose = TRUE
  CloseWhileBusy = TRUE
SPECIFICATION Spec
CHECK_DEADLOCK FALSE
INVARIANTS
  TypeOK
  NoUnknownCid
SYMMETRY CallerSymmetry
