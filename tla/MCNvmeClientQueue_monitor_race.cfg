CONSTANTS
  c1 = c1
  c2 = c2
  Callers = {c1}
  NumDescs = 1
  ReqQueueCap = 1
  MaxOps = 1
  TargetStatuses <- Statuses
  PeerMayClose = FALSE
  CloseWhileBusy = TRUE
SPECIFICATION Spec
CHECK_DEADLOCK FALSE

PROPERTIES
  EveryCallReturns
