SPECIFICATION EccSpec
CONSTANTS
  Words <- SampleWords
  Masks <- WholeWord
  Drifting <- EveryBit
  Sensing <- SomeBits
  MaxErrors = 1
INVARIANT SingleBitCorrected
