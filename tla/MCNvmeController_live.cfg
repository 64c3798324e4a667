CONSTANTS
  NumSlots = 2
  NumBuffers = 4
  MaxPdus = 3
  HostPdus <- LivenessPdus
  BackendResults = {"None", "Write"}
  MidPduClose = FALSE
SPECIFICATION Spec
PROPERTIES
  EveryCommandAnswered
  CloseDrains
