------------------------------- MODULE MCFile -------------------------------
(***************************************************************************)
(* Small instances of XrdHdfsFile.                                         *)
(***************************************************************************)
EXTENDS XrdHdfsFile

CONSTANTS t1, t2, f, c

\* The readers' instance: two threads and one data file, opened O_RDONLY.
TwoThreads == {t1, t2}
DataFile == {f}
NoFile == {}
ReadOnly == {[access |-> "RDONLY", trunc |-> FALSE]}

\* The writer's instance: one thread, a data file and a file under /cksums,
\* every combination of the openMode bits that Open looks at.
OneThread == {t1}
BothFiles == {f, c}
CksumFile == {c}
AllModes == [access : {"RDONLY", "WRONLY", "RDWR", "ACCMODE"}, trunc : BOOLEAN]
=============================================================================
