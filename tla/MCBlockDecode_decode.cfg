SPECIFICATION AnySpec
CONSTANTS
  ReadCounts <- AllReads
  PeekCounts = {1, 2}
  SkipCounts = {1, 2, 3, 4, 5, 6, 7, 63}
  FastBits = 2
  MaxNodes = 8
  RangeSize = 2
  GroupSize = 3
  MaxSelectors = 6
  MaxBlocksize = 12
  Blocksize = 11
  BlockMagic <- MCBlockMagic
  FinalMagic <- MCFinalMagic
  HeaderMagic <- MCHeaderMagic
  Inputs <- AllInputs
INVARIANTS DecodeTypeOK RoundTrip CutIsNoticed PointersInRange RunsBounded TablesDecode
PROPERTIES ReaderIsSource Ends
