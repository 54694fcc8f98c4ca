SPECIFICATION Spec
CONSTANTS
  ByteBits = 2
  MagicBits = 4
  VerifyBits = 2
  Window = 4
  Stride = 2
  ChunkSize = 200
  Headroom = 32
  HeaderSize = 3
  WorkerCounts = {4}
  Inputs <- OrdinaryFiles
INVARIANTS
  HeadroomSuffices
