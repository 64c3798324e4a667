CONSTANTS
  f1 = f1
  r1 = r1
  m1 = m1
  t1 = t1
  NoReqV = NoReqV
  NoReq <- NoReqV
  Tgts <- MCTgts
  KindOf <- MCKindOf
  Blocks <- MCBlocks
  Regions <- MCRegions
  Reqs <- MCReqs
  ReqOf <- MCReqOf
  QueueCap = 2
  Closable <- MCClosable

SPECIFICATION Spec

INVARIANTS
  TypeOK

PROPERTIES
  TargetContract
