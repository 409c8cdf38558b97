SPECIFICATION Spec
CONSTANTS
  Unit = 2
  Limits = {2, 6}
  Capacity = 4
  Wrap = 8
  Offsets <- SomeOffsets
  Lengths = {1, 3}
  a = a
  Values = {a}
  Zero = zero
  Junk = junk
  NoReply = noreply
INVARIANTS BufferHoldsFile OnlyTheDiskCrashes
PROPERTIES ImplementsFlatFile TrimKeepsContent WritesStayInside
CHECK_DEADLOCK FALSE
