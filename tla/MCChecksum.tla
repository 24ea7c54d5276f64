----------------------------- MODULE MCChecksum -----------------------------
(***************************************************************************)
(* Small instances of ChecksumManager: adler32, which Calc computes, and   *)
(* the CVMFS graft, which it does not and which is too long for an answer. *)
(***************************************************************************)
EXTENDS ChecksumManager, TLC

CONSTANTS t1, t2, p1, adler32, cvmfs

TwoThreads == {t1, t2}
ThreadSymmetry == Permutations(TwoThreads)
OnePath == {p1}
BothDigests == <<adler32, cvmfs>>
Computable == {adler32}
Graft == {cvmfs}
BothAsked == {adler32, cvmfs}

\* The manager's operations and a writer, one after the other; with a Calc that
\* records one digest and without.
Serial == [ops |-> ManagerOps, serial |-> TRUE, faults |-> FALSE]
SerialFull == [ops |-> ManagerOps \ {"calc0"}, serial |-> TRUE, faults |-> FALSE]
\* Writers, readers and namespace operations at once.
SharedOps == {"write", "get", "ver", "calc", "unlink", "truncate"}
Shared == [ops |-> SharedOps \cup {"del"}, serial |-> FALSE, faults |-> FALSE]
\* Everything, with failures.
Faulty == [ops |-> SharedOps \cup {"set", "del", "calc0"}, serial |-> FALSE, faults |-> TRUE]
\* Writes that HDFS takes only in part.
Short == [ops |-> {"write", "get", "calc", "set", "short"}, serial |-> FALSE, faults |-> FALSE]
AllWorkloads == {Serial, SerialFull, Shared, Faulty, Short}
\* A writer and a client that asks.
WriteAndGet == {[ops |-> {"write", "get"}, serial |-> FALSE, faults |-> FALSE]}
=============================================================================
