SPECIFICATION Spec
VIEW LiveView
CONSTANTS
  PageCount = 40
  PagesPerBlock = 20
  HotThreshold = 3
  Granules = 1
  v1 = v1
  v2 = v2
  Zero = zero
  Values = {v1, v2}
  HostRequests <- TwoPages
  MaxWrites = 56
INVARIANTS OwnersMapBack IntactUntilDoubleFree FreeListsSoundUntilDoubleFree
CHECK_DEADLOCK FALSE
