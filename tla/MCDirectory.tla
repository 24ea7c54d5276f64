----------------------------- MODULE MCDirectory -----------------------------
(***************************************************************************)
(* A small instance of XrdHdfsDirectory: a file, a file of another size    *)
(* under the same name, and a subdirectory; two stat buffers.              *)
(***************************************************************************)
EXTENDS XrdHdfsDirectory

CONSTANTS b1, b2

TwoBuffers == {b1, b2}
SomeInfos ==
  {[name |-> "a", dir |-> FALSE, size |-> 1],
   [name |-> "a", dir |-> FALSE, size |-> 2],
   [name |-> "d", dir |-> TRUE, size |-> 0]}
=============================================================================
