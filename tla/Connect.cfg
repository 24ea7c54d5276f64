SPECIFICATION FairSpec
CONSTANTS
  NULL = NULL
  t1 = t1
  t2 = t2
  root = root
  nobody = nobody
  x = x
  xy = xy
  blank = blank
  Root = root
  Nobody = nobody
  NameLength <- Lengths
  Threads <- TwoThreads
  Clients <- SomeClients
  MaxConns = 4
INVARIANTS
  TypeOK
  NoOrphanHandle
  ActsAsCaller
  CmsdHandleIsRoots
PROPERTIES
  ImplementsCache
  SomebodyGetsThrough
