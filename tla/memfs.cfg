SPECIFICATION Spec
CONSTANTS
  n1 = n1
  n2 = n2
  n3 = n3
  n4 = n4
  Node = {n1, n2, n3, n4}
  h1 = h1
  h2 = h2
  Handle = {h1, h2}
  Component = {0, 4, 5}
  Disk = 4
  Dot = 2
  DotDot = 3
  MaxLen = 3
  MaxFileNodes = 4
  Room = {1, 2}
  None = none
SYMMETRY Symmetry
INVARIANTS References InsertionsSucceed TreeIsClosed EmptyIsEmpty MovesWhole ReadingIsComplete
PROPERTY DiskStays
