SPECIFICATION FairSpec
CONSTANTS
  Clients = {c1, c2}
  Backends = {b1, b2}
  Depth = 2
  OpsPerClient = 2
  TotalOps = 4
INVARIANTS EveryWaiterHasAnAnswer ReapedExactlyOnce
PROPERTY Ends
