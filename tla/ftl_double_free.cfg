SPECIFICATION Spec
VIEW LiveView
CONSTANTS
  PageCount = 40
  PagesPerBlock = 4
  HotThreshold = 8
  Granules = 1
  v1 = v1
  v2 = v2
  Zero = zero
  Values = {v1, v2}
  HostRequests <- TwoPages
  MaxWrites = 60
INVARIANT MappingsAreInverse
CHECK_DEADLOCK FALSE
