SPECIFICATION FairSpec
CONSTANTS
  NULL = NULL
  t1 = t1
  t2 = t2
  f = f
  c = c
  Threads <- TwoThreads
  Paths <- DataFile
  CksumPaths <- NoFile
  OpenModes <- ReadOnly
  BufSize = 2
  MaxLen = 3
  MaxBlen = 3
  MaxFed = 0
  MaxOpens = 2
  ShortWrites = FALSE
INVARIANTS
  TypeOK
  BufferCoherent
PROPERTIES
  ReadDelivers
  ShortReadMeansEOF
  ReadbufProtected
  ReadReturns
