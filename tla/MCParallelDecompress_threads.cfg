SPECIFICATION AnySpec
CONSTANTS
  ByteBits = 2
  MagicBits = 4
  VerifyBits = 2
  Window = 4
  Stride = 2
  WorkerCount = 3
  Parallelism = {1, 2, 3, 5}
  Inputs <- AllFiles
  BatchSize = 2
  BufSizes = {1, 3}
  Retries = 1
INVARIANTS
  TypeOK
  ClaimedOnce
  ResultInOrder
  NoMagicMissed
  IntactDecompresses
  OkIsPrefix
  SliceTypeOK
  DamageStops
PROPERTIES
  Finishes
  SliceKeepsPromise
  SliceArrives
