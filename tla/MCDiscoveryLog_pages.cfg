CONSTANTS
  nqnA = nqnA
  nqnB = nqnB
  nqnC = nqnC
  nqnDisc = nqnDisc
  NQNs = {nqnA, nqnB, nqnC}
  Discovery = nqnDisc
  NqnBytes <- Names
  AddrBytes <- Addr
  PortBytes <- Port
  LogRequests <- HostReads
  ConnectRequests <- Connects
SPECIFICATION Spec
INVARIANTS
  TypeOK
  ReplyIsLogSlice
  ConnectRoundTrip
