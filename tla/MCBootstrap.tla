---------------------------- MODULE MCBootstrap ----------------------------
(***************************************************************************)
(* A small instance of XrdHdfsBootstrap: a pipe of two cells.              *)
(***************************************************************************)
EXTENDS XrdHdfsBootstrap

CONSTANTS CLASSPATH, LIBHDFS_OPTS, LD_LIBRARY_PATH

ThreeVars == <<CLASSPATH, LIBHDFS_OPTS, LD_LIBRARY_PATH>>
\* Unset, empty, short, and longer than the buffer.
SomeLengths == {-1, 0, 1, 2, 10}
=============================================================================
