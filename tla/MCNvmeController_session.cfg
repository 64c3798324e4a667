CONSTANTS
  NumSlots = 2
  NumBuffers = 4
  MaxPdus = 4
  HostPdus <- SessionPdus
  BackendResults = {"None", "Read", "Aborted"}
  MidPduClose = TRUE
SPECIFICATION Spec
CHECK_DEADLOCK FALSE
INVARIANTS
  TypeOK
  ResponseIntegrity
  PoolConservation
