SPECIFICATION EccSpec
CONSTANTS
  Words <- SampleWords
  Masks <- FirstBytes
  Drifting <- SomeBits
  Sensing <- EveryBit
  MaxErrors = 2
INVARIANTS NoErrorUnnoticed SingleErrorRestoredOrRefused AcceptedReadsAreTheHosts
