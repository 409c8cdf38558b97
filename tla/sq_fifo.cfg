SPECIFICATION Spec
CONSTANTS
  Depth = 4
  Data = {z, r1, r2}
  Zero = z
INVARIANTS
  FullIsNearlyFull
PROPERTY
  ImplementsFifo
