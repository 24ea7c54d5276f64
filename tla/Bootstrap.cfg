SPECIFICATION FairSpec
CONSTANTS
  Nul = Nul
  Junk = Junk
  CLASSPATH = CLASSPATH
  LIBHDFS_OPTS = LIBHDFS_OPTS
  LD_LIBRARY_PATH = LD_LIBRARY_PATH
  Vars <- ThreeVars
  Lengths <- SomeLengths
  BufSize = 10
  PipeSize = 2
  MaxSignals = 2
INVARIANTS
  ScanInBuffer
  EnvironmentArrives
PROPERTY
  BootstrapEnds
