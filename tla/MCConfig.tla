------------------------------ MODULE MCConfig ------------------------------
(***************************************************************************)
(* A small instance of XrdHdfsConfig: one library that loads and one that  *)
(* does not.                                                               *)
(***************************************************************************)
EXTENDS XrdHdfsConfig

CONSTANTS l1, bad, p1

TwoLibs == {l1, bad}
BadLib == {bad}
OneParms == {p1}
=============================================================================
