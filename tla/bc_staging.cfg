SPECIFICATION Spec
CONSTANTS
  Depth = 2
  PageParts = 2
  FlashPages = {0, 1, 2}
  Values = {v1, v2}
  Zero = zero
  MaxPages = 1
  MaxPushes = 3
INVARIANTS QueueDepthIsPending LastWritesAreHeld
