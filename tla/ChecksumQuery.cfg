SPECIFICATION Spec
CONSTANTS
  NULL = NULL
  t1 = t1
  t2 = t2
  p1 = p1
  adler32 = adler32
  cvmfs = cvmfs
  Adler = adler32
  Calculable <- Computable
  LongDigests <- Graft
  Threads <- TwoThreads
  Paths <- OnePath
  Digests <- BothDigests
  Asked <- BothAsked
  Workloads <- WriteAndGet
  MaxContent = 1
PROPERTY
  QueryKeepsData
