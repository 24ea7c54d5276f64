SPECIFICATION Spec
CONSTANTS
  t1 = t1
  t2 = t2
  Threads <- TwoThreads
  Paths <- Tree
  Ops <- SomeOps
INVARIANTS
  TypeOK
  EnoentMeansAbsent
PROPERTIES
  MkdirHadParent
  OkMeansDone
