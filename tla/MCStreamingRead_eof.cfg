SPECIFICATION Spec
CONSTANTS
  ByteBits = 2
  MagicBits = 4
  VerifyBits = 2
  Window = 4
  Stride = 2
  ChunkSize = 24
  HeaderSize = 4
  Units = 2
  BufSizes = {1, 3}
  ErrorsAfter = {}
  Retries = 1
  Inputs <- LongTails
INVARIANTS
  ZeroIsEof
