SPECIFICATION FairSpec
CONSTANTS
  Producers = {p1, p2}
  Consumers = {c1, c2}
  Size = 2
  MaxPush = 2
INVARIANTS
  OneOwnerPerCell
  NeverOverfull
  PopReturnsItsEntry
  IInv
PROPERTIES
  RefusedForCause
  ImplementsQueue
  AllDelivered
