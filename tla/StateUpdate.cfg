SPECIFICATION Spec
CONSTANTS
  NULL = NULL
  DigestSets <- AllOrOne
  ChunkSize = 3
  ByteRange = 2
  MaxWrite = 10
  MaxBytes = 13
CHECK_DEADLOCK FALSE
INVARIANTS
  TypeOK
  ChunksTileStream
  DigestsOfStream
  GraftCoversFullChunks
