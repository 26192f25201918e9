SPECIFICATION Spec
CONSTANTS
  a = a
  b = b
  x1 = x1
  x2 = x2
  f1 = f1
  f2 = f2
  n1 = n1
  n2 = n2
  n3 = n3
  n4 = n4
  n5 = n5
  Peers = {a, b}
  Exchanges = {x1}
  Dialer <- ADials
  StartMetas <- NothingAtA
  Permits = 2
  InboundCap = 1
  Torn = Torn
  NoTask = NoTask
  MaxFaults = 0
INVARIANTS
  CompleteMeansAllHere
CHECK_DEADLOCK FALSE
