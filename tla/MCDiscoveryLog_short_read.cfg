CONSTANTS
  nqnA = nqnA
  nqnB = nqnB
  nqnC = nqnC
  nqnDisc = nqnDisc
  NQNs = {}
  Discovery = nqnDisc
  NqnBytes <- Names
  AddrBytes <- Addr
  PortBytes <- Port
  LogRequests <- ShortRead
  ConnectRequests <- DiscoveryConnect
SPECIFICATION Spec
INVARIANT
  NoCrash
