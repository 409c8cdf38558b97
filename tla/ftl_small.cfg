SPECIFICATION FairSpec
CONSTANTS
  PageCount = 4
  PagesPerBlock = 2
  HotThreshold = 3
  Granules = 2
  v1 = v1
  v2 = v2
  Zero = zero
  Values = {v1, v2}
  HostRequests <- PartRequests
  MaxWrites = 8
INVARIANTS IInv
PROPERTY RequestsReturn
CHECK_DEADLOCK FALSE
