CONSTANTS
  NumSlots = 2
  NumBuffers = 4
  MaxPdus = 2
  HostPdus <- IdentifyPdus
  BackendResults = {"None"}
  MidPduClose = FALSE
SPECIFICATION Spec

INVARIANTS
  NoProcessExit
