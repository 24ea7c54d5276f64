------------------------------ MODULE MCState ------------------------------
(***************************************************************************)
(* Small instances of ChecksumState: chunks of three bytes, a byte of two  *)
(* values.                                                                 *)
(***************************************************************************)
EXTENDS ChecksumState

\* Close after writing computes all digests; Calc without do_set computes one.
AllDigests == {"CKSUM", "ADLER32", "CRC32", "MD5", "CVMFS"}
AllOrOne == {AllDigests} \cup {{d} : d \in AllDigests}
=============================================================================
