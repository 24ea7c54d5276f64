SPECIFICATION Spec
CONSTANTS
  NULL = NULL
  t1 = t1
  t2 = t2
  f = f
  c = c
  Threads <- OneThread
  Paths <- BothFiles
  CksumPaths <- CksumFile
  OpenModes <- AllModes
  BufSize = 1
  MaxLen = 2
  MaxBlen = 2
  MaxFed = 3
  MaxOpens = 1
  ShortWrites = TRUE
INVARIANTS
  DigestFollowsFile
  WriteLandsAtOffset
  RecordedWasClosed
