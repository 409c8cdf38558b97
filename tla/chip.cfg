SPECIFICATION FairSpec
CONSTANTS
  MaxRun = 2
  WordBytes = 2
  Words <- SomeWords
  MaxWords = 2
  NumLbas = 2
  Blocks = 3
  FreeRange = 3
  GcThreshold = 1
  MaxPe = 0
INVARIANTS OnlyKnownLosses NeverAhead SharedBlocksAreWorn
PROPERTIES OffersStand BurstsAnswered ReadsAnswered
