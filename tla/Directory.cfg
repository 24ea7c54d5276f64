SPECIFICATION Spec
CONSTANTS
  NULL = NULL
  b1 = b1
  b2 = b2
  Buffers <- TwoBuffers
  Infos <- SomeInfos
  MaxEntries = 2
INVARIANTS
  TypeOK
  ReadsSnapshot
  NoArrayLost
PROPERTY
  StatIsOfEntry
