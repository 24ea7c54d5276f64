----------------------------- MODULE XrdHdfsSys -----------------------------
(***************************************************************************)
(* The namespace operations of XrdHdfsSys (XrdHdfs.cc): Stat, Chmod, Mkdir, *)
(* Remdir, Rename, Truncate, Unlink and Create, and Emsg, which makes their *)
(* return code out of errno.  Nothing in the plugin orders two of them:     *)
(* server threads meet in the HDFS namespace, one libhdfs call at a time.   *)
(*                                                                         *)
(* A path is the sequence of its names; the root is << >>.  GetRealPath and *)
(* the trailing slashes Mkdir removes are gone by then.  errno belongs to   *)
(* the thread.  Assumed of libhdfs: a call that succeeds leaves errno as it *)
(* was; one that fails sets it or leaves it, except that the hdfsExists by  *)
(* which Unlink asks for a file that is there does not fail without errno.  *)
(*                                                                         *)
(* Left out: running out of memory in GetRealPath, the branch of Mkdir that *)
(* MKDIR_PERFORM_CHMOD (0) disables, and what the files contain.            *)
(***************************************************************************)
EXTENDS Integers, Sequences

CONSTANTS
  Threads,  \* server threads
  Paths,    \* the paths that may exist, closed under prefixes
  Ops       \* Ops[t]: the operations clients ask thread t for

\* errno.h
ENOENT == 2
EIO == 5
EACCES == 13

Root == << >>
Parent(p) == SubSeq(p, 1, Len(p) - 1)
UpTo(p) == {SubSeq(p, 1, i) : i \in 0 .. Len(p)}
Below(p) == {q \in Paths : p \in UpTo(q)}

OpNames == {"stat", "chmod", "mkdir", "remdir", "rename", "truncate", "unlink", "create", "write"}

ASSUME PathsAssumption ==
  Root \in Paths /\ \A p \in Paths : p \in Seq(STRING) /\ UpTo(p) \subseteq Paths
ASSUME OpsAssumption == Ops \in [Threads -> SUBSET OpNames]

VARIABLES
  kind,   \* kind[p]: "dir", "file", or "none" when HDFS has no such path
  errno,  \* errno[t]
  call,   \* call[t]: the operation of thread t
  saw     \* history, saw[t]: what Watched(t) has been during the call

vars == <<kind, errno, call, saw>>

\* op, path, dest and mkpath: the request; ret: what the operation returns (retc).
Idle == [pc |-> "idle", op |-> "none", path |-> Root, dest |-> Root,
         mkpath |-> FALSE, ret |-> 0]

Init ==
  /\ kind \in [Paths -> {"none", "file", "dir"}]
  /\ kind[Root] = "dir"
  /\ \A p \in Paths \ {Root} : kind[p] # "none" => kind[Parent(p)] = "dir"
  /\ errno = [t \in Threads |-> 0]
  /\ call = [t \in Threads |-> Idle]
  /\ saw = [t \in Threads |-> {}]
----------------------------------------------------------------------------
(***************************************************************************)
(* Emsg and the ways out of an operation.                                  *)
(***************************************************************************)

\* Mutants: nothing stands in for an errno of 0; the sign is lost.
EmsgErrno(e) == -e
EmsgPositive(e) == IF e # 0 THEN e ELSE -1

\* The return code comes from errno e; the ecode that callers pass goes into the
\* message only.
Emsg(e) == IF e # 0 THEN -e ELSE -1

\* retc = Emsg(...), and the goto to what the cleanup at pc still has to do.
FailsTo(t, e, pc) ==
  /\ errno' = [errno EXCEPT ![t] = e]
  /\ call' = [call EXCEPT ![t].pc = pc, ![t].ret = Emsg(e)]
  /\ UNCHANGED kind

Fails(t, e) == FailsTo(t, e, "done")

\* On to the next libhdfs call, or to the return of retc; e is errno.
Goes(t, e, pc) ==
  /\ errno' = [errno EXCEPT ![t] = e]
  /\ call' = [call EXCEPT ![t].pc = pc]

\* The errno of a call that fails for reasons of its own, errno being e before.
Errnos(e) == {e, EACCES, EIO}
----------------------------------------------------------------------------
(***************************************************************************)
(* Every operation begins with hadoop_connect.                             *)
(***************************************************************************)

\* Mutant: the parent is not looked for.
FirstCallUnchecked(op, path, mkpath) ==
  CASE op = "mkdir" -> IF ~mkpath /\ path = Root THEN "done" ELSE "mkdirs"
    [] op \in {"remdir", "unlink"} -> "delete"
    [] op \in {"truncate", "create"} -> "open"
    [] OTHER -> op

\* The first libhdfs call after the connection.  Mkdir of the root returns at
\* once, and a directory right under the root needs no check.
FirstCall(op, path, mkpath) ==
  CASE op = "mkdir" -> IF mkpath THEN "mkdirs"
                       ELSE IF path = Root THEN "done"
                       ELSE IF Parent(path) # Root THEN "parent" ELSE "mkdirs"
    [] op \in {"remdir", "unlink"} -> "delete"
    [] op \in {"truncate", "create"} -> "open"
    [] OTHER -> op

\* What errno can be after the connection: hadoop_connect(client) clears it, the
\* Stat of the cmsd, which has no client, does not call that.
ConnectErrnos(t, op) == IF op = "stat" THEN {0, errno[t]} ELSE {0}

Begin(t, op, path, dest, mkpath) ==
  /\ call[t].pc = "idle"
  /\ op \in Ops[t] \ {"write"}
  /\ op # "rename" => dest = Root
  /\ op # "mkdir" => ~mkpath
  /\ call' = [call EXCEPT ![t] =
                [Idle EXCEPT !.pc = FirstCall(op, path, mkpath), !.op = op,
                             !.path = path, !.dest = dest, !.mkpath = mkpath]]
  /\ \E e \in ConnectErrnos(t, op) : errno' = [errno EXCEPT ![t] = e]
  /\ UNCHANGED kind

\* hadoop_connect found no handle, and left an errno or none.
ConnectFails(t, op, path) ==
  /\ call[t].pc = "idle"
  /\ op \in Ops[t] \ {"write"}
  /\ \E e \in ConnectErrnos(t, op) \cup {EACCES, EIO} :
       /\ errno' = [errno EXCEPT ![t] = e]
       /\ call' = [call EXCEPT ![t] =
                     [Idle EXCEPT !.pc = "done", !.op = op, !.path = path, !.ret = Emsg(e)]]
  /\ UNCHANGED kind

\* XrdHdfsFile::Write at another offset than the next one is refused before
\* any libhdfs call, so errno is what the thread's previous call left.
WriteRefused(t) ==
  /\ call[t].pc = "idle"
  /\ "write" \in Ops[t]
  /\ call' = [call EXCEPT ![t] =
                [Idle EXCEPT !.pc = "done", !.op = "write", !.ret = Emsg(errno[t])]]
  /\ UNCHANGED <<kind, errno>>
----------------------------------------------------------------------------
(***************************************************************************)
(* The libhdfs calls.                                                      *)
(***************************************************************************)

\* Mkdir without mkpath: hdfsExists of the parent.  An absent one is reported
\* with ENOENT or, by older libraries, without an errno.
MkdirParent(t) ==
  LET parent == Parent(call[t].path) IN
  /\ call[t].pc = "parent"
  /\ \/ kind[parent] # "none" /\ Goes(t, 0, "mkdirs") /\ UNCHANGED kind
     \/ kind[parent] = "none" /\ Fails(t, ENOENT)
     \/ \E e \in Errnos(0) : Fails(t, e)

\* hdfsCreateDirectory makes the missing parents too.
MkdirCreate(t) ==
  LET p == call[t].path IN
  /\ call[t].pc = "mkdirs"
  /\ \/ /\ \A q \in UpTo(p) : kind[q] # "file"
        /\ kind' = [q \in Paths |-> IF q \in UpTo(p) THEN "dir" ELSE kind[q]]
        /\ Goes(t, 0, "done")
     \/ \E e \in Errnos(0) : Fails(t, e)

\* hdfsDelete, not recursive, of a file or an empty directory.  An absent path
\* is reported as EIO.
Delete(t) ==
  LET p == call[t].path IN
  /\ call[t].pc = "delete"
  /\ \/ /\ p # Root
        /\ kind[p] # "none"
        /\ \A q \in Below(p) \ {p} : kind[q] = "none"
        /\ kind' = [kind EXCEPT ![p] = "none"]
        /\ Goes(t, 0, "done")
     \/ \E e \in IF kind[p] = "none" THEN {EIO} ELSE Errnos(0) :
          IF call[t].op = "unlink" /\ e = EIO
          THEN Goes(t, 0, "exists") /\ UNCHANGED kind
          ELSE Fails(t, e)

\* Mutant: every EIO of hdfsDelete is taken for an absent file.
UnlinkAssumes(t) ==
  /\ call[t].pc = "exists"
  /\ Fails(t, ENOENT)

\* Unlink after an EIO: was the file there at all?
UnlinkExists(t) ==
  LET p == call[t].path IN
  /\ call[t].pc = "exists"
  /\ \E e \in {IF kind[p] = "none" THEN ENOENT ELSE 0, EACCES, EIO} : Fails(t, e)

\* hdfsRename moves a path with all below it, into dest if that is a directory.
Rename(t) ==
  LET src == call[t].path
      dest == IF kind[call[t].dest] = "dir" /\ src # Root
              THEN Append(call[t].dest, src[Len(src)]) ELSE call[t].dest
      Moved(q) == dest \o SubSeq(q, Len(src) + 1, Len(q))
      live == {q \in Below(src) : kind[q] # "none"}
  IN
  /\ call[t].pc = "rename"
  /\ \/ /\ src # Root /\ src \in live
        /\ dest \in Paths /\ dest \notin Below(src)
        /\ kind[dest] = "none" /\ kind[Parent(dest)] = "dir"
        /\ \A q \in live : Moved(q) \in Paths
        /\ kind' = [q \in Paths |->
                      IF q \in live THEN "none"
                      ELSE IF q \in {Moved(r) : r \in live}
                      THEN kind[CHOOSE r \in live : Moved(r) = q]
                      ELSE kind[q]]
        /\ Goes(t, 0, "done")
     \/ \E e \in Errnos(0) : Fails(t, e)

\* Truncate and Create: hdfsOpenFile(O_WRONLY) makes the file and its parents,
\* or empties it.  Truncate goes on to close it, Create to hdfsChmod.
OpenForWriting(t) ==
  LET p == call[t].path IN
  /\ call[t].pc = "open"
  /\ \/ /\ kind[p] # "dir"
        /\ \A q \in UpTo(p) \ {p} : kind[q] # "file"
        /\ kind' = [q \in Paths |-> IF q = p THEN "file"
                                    ELSE IF q \in UpTo(p) THEN "dir" ELSE kind[q]]
        /\ Goes(t, 0, IF call[t].op = "create" THEN "chmod" ELSE "close")
     \/ \E e \in Errnos(0) : Fails(t, e)

\* hdfsChmod, of Chmod and of Create, which has the file open and closes it
\* whether or not hdfsChmod worked.
Chmod(t) ==
  LET after == IF call[t].op = "create" THEN "close" ELSE "done" IN
  /\ call[t].pc = "chmod"
  /\ \/ kind[call[t].path] # "none" /\ Goes(t, 0, after) /\ UNCHANGED kind
     \/ \E e \in Errnos(0) : FailsTo(t, e, after)

\* The cleanup of Truncate and Create: hdfsCloseFile.  It may fail, with or
\* without an errno, and nobody looks: retc is what it was.
Close(t) ==
  /\ call[t].pc = "close"
  /\ \E e \in Errnos(errno[t]) : Goes(t, e, "done")
  /\ UNCHANGED kind

\* hdfsGetPathInfo.  Stat does not clear errno first, so a failure that leaves
\* errno alone is reported with what was there before.
Stat(t) ==
  LET present == kind[call[t].path] # "none" IN
  /\ call[t].pc = "stat"
  /\ \/ present /\ Goes(t, errno[t], "done") /\ UNCHANGED kind
     \/ ~present /\ Fails(t, ENOENT)
     \/ \E e \in Errnos(errno[t]) : Fails(t, e)

\* The caller takes the result.
Return(t) ==
  /\ call[t].pc = "done"
  /\ call' = [call EXCEPT ![t] = Idle]
  /\ UNCHANGED <<kind, errno>>

Step(t) ==
  \/ \E op \in Ops[t], path, dest \in Paths, mkpath \in BOOLEAN : Begin(t, op, path, dest, mkpath)
  \/ \E op \in Ops[t], path \in Paths : ConnectFails(t, op, path)
  \/ WriteRefused(t)
  \/ MkdirParent(t) \/ MkdirCreate(t)
  \/ Delete(t) \/ UnlinkExists(t)
  \/ Rename(t)
  \/ OpenForWriting(t) \/ Chmod(t) \/ Close(t)
  \/ Stat(t)
  \/ Return(t)

\* The path an answer is about: the file of Unlink, Truncate and Create, the
\* parent of Mkdir.
Watched(c) ==
  CASE c.op \in {"unlink", "truncate", "create"} -> {c.path}
    [] c.op = "mkdir" -> {Parent(c.path)}
    [] OTHER -> {}

Next ==
  /\ \E t \in Threads : Step(t)
  /\ saw' = [t \in Threads |->
               IF call'[t].pc = "idle" THEN {}
               ELSE saw[t] \cup UNION {{kind[p], kind'[p]} : p \in Watched(call'[t])}]

Spec == Init /\ [][Next]_vars
----------------------------------------------------------------------------
(***************************************************************************)
(* Properties                                                              *)
(***************************************************************************)

\* Every variable has its type; a return code is 0 or a negated errno.
TypeOK ==
  /\ kind \in [Paths -> {"none", "file", "dir"}]
  /\ errno \in [Threads -> {0, ENOENT, EIO, EACCES}]
  /\ \A t \in Threads :
       /\ call[t].pc \in {"idle", "parent", "mkdirs", "delete", "exists", "rename",
                          "open", "chmod", "close", "stat", "done"}
       /\ call[t].path \in Paths /\ call[t].dest \in Paths
       /\ call[t].ret \in {0, -1, -ENOENT, -EIO, -EACCES}
  /\ saw \in [Threads -> SUBSET {"none", "file", "dir"}]

\* What operation c was asked for has happened, with this step or, where more
\* calls follow the one that does it, at a moment of the call; seen is what
\* Watched(c) has been.
TookEffect(c, seen) ==
  CASE c.op \in {"stat", "chmod"} -> kind[c.path] # "none"
    [] c.op = "mkdir" -> kind'[c.path] = "dir"
    [] c.op \in {"remdir", "unlink"} -> kind[c.path] # "none" /\ kind'[c.path] = "none"
    [] c.op = "rename" ->
         /\ kind[c.path] # "none" /\ kind'[c.path] = "none"
         /\ \E q \in {c.dest, Append(c.dest, c.path[Len(c.path)])} :
              q \in Paths /\ kind[q] = "none" /\ kind'[q] = kind[c.path]
    [] c.op \in {"truncate", "create"} -> "file" \in seen
    [] OTHER -> FALSE

\* An operation returns XrdOssOK only if what it was asked for has happened:
\* none of the ways in which a libhdfs call fails, with an errno, without one,
\* or with one that a later call cleared (Unlink's hdfsExists), comes out as
\* XrdOssOK, and the refused Write never does ("Review to make sure all return
\* values are non-positive", rpm/xrootd-hdfs.spec).  Of the file that Truncate
\* and Create have opened it says that it is there, not that it was closed: the
\* result of hdfsCloseFile is ignored.
OkMeansDone ==
  [][\A t \in Threads :
       (call[t].pc # "done" /\ call'[t].pc = "done" /\ call'[t].ret = 0)
         => TookEffect(call'[t], saw'[t])]_vars

\* Unlink and Mkdir say -ENOENT only if the file, or the parent, was absent at
\* some moment of the call, whatever other threads did between the calls that
\* made up the answer: a client that is told so may rely on it.
EnoentMeansAbsent ==
  \A t \in Threads :
    (call[t].pc = "done" /\ call[t].ret = -ENOENT /\ call[t].op \in {"unlink", "mkdir"})
      => "none" \in saw[t]

\* "there's no way to avoid recursive directory creation, so we must implement
\* the parent-existence logic ourselves" (Mkdir): without mkpath, Mkdir makes
\* a directory only if its parent existed at some moment of the call.  (It may
\* be gone again, and hdfsCreateDirectory then makes it anew.)
MkdirHadParent ==
  [][\A t \in Threads :
       (call[t].pc = "mkdirs" /\ call'[t].pc = "done" /\ call'[t].ret = 0 /\ ~call[t].mkpath)
         => saw[t] # {"none"}]_vars
=============================================================================
