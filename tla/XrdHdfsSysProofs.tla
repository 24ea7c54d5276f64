-------------------------- MODULE XrdHdfsSysProofs --------------------------
(***************************************************************************)
(* XrdHdfsSys for any number of threads and any tree of paths: what the    *)
(* namespace operations answer, whatever the other threads do between the  *)
(* libhdfs calls of one operation.                                         *)
(***************************************************************************)
EXTENDS XrdHdfsSys, TLAPS

USE PathsAssumption, OpsAssumption
----------------------------------------------------------------------------
Kinds == {"none", "file", "dir"}
Errs == {0, ENOENT, EIO, EACCES}
PCs == {"idle", "parent", "mkdirs", "delete", "exists", "rename", "open", "chmod", "close", "stat",
        "done"}
Rets == {0, -1, -ENOENT, -EIO, -EACCES}

CallRecord ==
  [pc : PCs, op : OpNames \cup {"none"}, path : Paths, dest : Paths,
   mkpath : BOOLEAN, ret : Rets]

\* retc is XrdOssOK until the operation fails, and then only the cleanup is left.
Reports(c) == c.pc \notin {"close", "done"} => c.ret = 0

\* Which operation makes which call.
OpFits(c) ==
  /\ c.pc \in {"parent", "mkdirs"} => c.op = "mkdir"
  /\ c.pc = "delete" => c.op \in {"remdir", "unlink"}
  /\ c.pc = "exists" => c.op = "unlink"
  /\ c.pc = "rename" => c.op = "rename"
  /\ c.pc \in {"open", "close"} => c.op \in {"truncate", "create"}
  /\ c.pc = "chmod" => c.op \in {"chmod", "create"}
  /\ c.pc = "stat" => c.op = "stat"

\* With what was seen of the path it is about, call c may answer -ENOENT, may
\* go on to hdfsCreateDirectory, and has opened the file it closes.
Answers(c, seen) ==
  /\ (c.pc = "done" /\ c.ret = -ENOENT /\ c.op \in {"unlink", "mkdir"}) => "none" \in seen
  /\ (c.pc = "mkdirs" /\ ~c.mkpath) => \E k \in seen : k # "none"
  /\ (c.pc \in {"chmod", "close"} /\ c.op \in {"truncate", "create"}) => "file" \in seen

\* The inductive invariant: the types, HDFS's root, and the three of each call.
SysInv ==
  /\ kind \in [Paths -> Kinds] /\ kind[Root] = "dir"
  /\ errno \in [Threads -> Errs]
  /\ call \in [Threads -> CallRecord]
  /\ saw \in [Threads -> SUBSET Kinds]
  /\ \A t \in Threads : Reports(call[t]) /\ OpFits(call[t]) /\ Answers(call[t], saw[t])

\* What call c of thread t has seen after this step.
Seen(t, c) == saw[t] \cup UNION {{kind[p], kind'[p]} : p \in Watched(c)}

\* A call that ends with XrdOssOK has had its effect.
OkIsTrue(c, seen) == c.pc = "done" /\ c.ret = 0 => TookEffect(c, seen)

\* Thread t comes to c, which answers by what it has seen.
Comes(t, c) ==
  /\ c \in CallRecord /\ call' = [call EXCEPT ![t] = c]
  /\ errno' \in [Threads -> Errs]
  /\ kind' \in [Paths -> Kinds] /\ kind'[Root] = "dir"
  /\ Reports(c) /\ OpFits(c)
  /\ c.pc # "idle" => Answers(c, Seen(t, c)) /\ OkIsTrue(c, Seen(t, c))
----------------------------------------------------------------------------
(***************************************************************************)
(* Paths and return codes                                                  *)
(***************************************************************************)

\* A path's parent is a path, the root's being itself.
LEMMA ParentIsPath == ASSUME NEW p \in Paths PROVE Parent(p) \in Paths
<1>1. p \in Seq(STRING) /\ Len(p) \in Nat
  OBVIOUS
<1>2. CASE Len(p) = 0
  <2>1. p = << >>
    BY <1>1, <1>2
  <2>2. SubSeq(p, 1, Len(p) - 1) = << >>
    BY <1>1, <1>2, <2>1
  <2>3. QED BY <2>2 DEF Parent, Root
<1>3. CASE Len(p) > 0
  <2>1. Len(p) - 1 \in 0 .. Len(p)
    BY <1>1, <1>3
  <2>2. Parent(p) \in UpTo(p)
    BY <2>1 DEF Parent, UpTo
  <2>3. QED BY <2>2
<1>4. QED BY <1>1, <1>2, <1>3

LEMMA OwnPrefix == ASSUME NEW p \in Paths PROVE p \in UpTo(p)
<1>1. p \in Seq(STRING) /\ Len(p) \in 0 .. Len(p)
  OBVIOUS
<1>2. p = SubSeq(p, 1, Len(p))
  BY <1>1
<1>3. QED BY <1>1, <1>2 DEF UpTo

LEMMA WatchedPaths == ASSUME NEW c \in CallRecord PROVE Watched(c) \subseteq Paths
<1>1. c.path \in Paths
  BY DEF CallRecord
<1>2. QED BY <1>1, ParentIsPath DEF Watched

\* Emsg's return code is negative, and -ENOENT for ENOENT only.
LEMMA EmsgNegative ==
  ASSUME NEW e \in Errs
  PROVE  Emsg(e) \in Rets /\ Emsg(e) < 0 /\ (Emsg(e) = -ENOENT <=> e = ENOENT)
BY DEF Emsg, Errs, Rets, ENOENT, EIO, EACCES

\* The fields of a call.
LEMMA CallFields ==
  ASSUME SysInv, NEW t \in Threads
  PROVE  /\ call[t] \in CallRecord /\ call[t].path \in Paths /\ call[t].dest \in Paths
         /\ call[t].op \in OpNames \cup {"none"} /\ call[t].mkpath \in BOOLEAN
         /\ Reports(call[t]) /\ OpFits(call[t]) /\ Answers(call[t], saw[t])
BY DEF SysInv, CallRecord

\* What a call watches it sees, and what it has seen it does not forget.
LEMMA SeenNow ==
  ASSUME NEW t, NEW c, NEW p \in Watched(c)
  PROVE  kind[p] \in Seen(t, c) /\ kind'[p] \in Seen(t, c)
<1>1. {kind[p], kind'[p]} \subseteq UNION {{kind[q], kind'[q]} : q \in Watched(c)}
  OBVIOUS
<1>2. QED BY <1>1 DEF Seen

LEMMA SeenBefore == ASSUME NEW t, NEW c PROVE saw[t] \subseteq Seen(t, c)
BY DEF Seen

\* An operation that goes through Emsg, straight to its end or to the close.
LEMMA FailsToComes ==
  ASSUME SysInv, NEW t \in Threads, NEW e \in Errs, NEW pc \in {"done", "close"},
         FailsTo(t, e, pc),
         e = ENOENT => \/ call[t].op \notin {"unlink", "mkdir"}
                       \/ \E p \in Watched(call[t]) : kind[p] = "none",
         pc = "close" => call[t].op = "create" /\ "file" \in saw[t]
  PROVE  \E c : Comes(t, c)
<1> DEFINE c == [call[t] EXCEPT !.pc = pc, !.ret = Emsg(e)]
<1>1. call[t] \in CallRecord /\ call \in [Threads -> CallRecord]
  BY DEF SysInv
<1>2. call' = [call EXCEPT ![t] = c]
  BY <1>1 DEF FailsTo
<1>3. /\ c \in CallRecord /\ c.pc = pc /\ c.ret = Emsg(e)
      /\ c.op = call[t].op /\ c.path = call[t].path
  BY <1>1, EmsgNegative DEF CallRecord, PCs
<1> HIDE DEF c
<1>4. Watched(c) = Watched(call[t])
  BY <1>3 DEF Watched
<1>5. Reports(c) /\ OpFits(c)
  BY <1>3 DEF Reports, OpFits
<1>6. Answers(c, Seen(t, c))
  <2>1. ASSUME c.ret = -ENOENT, c.op \in {"unlink", "mkdir"} PROVE "none" \in Seen(t, c)
    <3>1. e = ENOENT
      BY <1>3, <2>1, EmsgNegative
    <3>2. PICK p \in Watched(c) : kind[p] = "none"
      BY <1>3, <1>4, <2>1, <3>1
    <3>3. QED BY <3>2, SeenNow
  <2>2. pc = "close" => "file" \in Seen(t, c)
    BY SeenBefore
  <2>3. QED BY <1>3, <2>1, <2>2 DEF Answers
<1>7. OkIsTrue(c, Seen(t, c))
  <2>1. Emsg(e) \in Int /\ Emsg(e) < 0
    BY EmsgNegative DEF Rets, ENOENT, EIO, EACCES
  <2>2. Emsg(e) # 0
    BY <2>1
  <2>3. QED BY <1>3, <2>2 DEF OkIsTrue
<1>8. errno' \in [Threads -> Errs] /\ kind' \in [Paths -> Kinds] /\ kind'[Root] = "dir"
  BY DEF FailsTo, SysInv
<1>9. QED BY <1>2, <1>3, <1>5, <1>6, <1>7, <1>8 DEF Comes

LEMMA FailsComes ==
  ASSUME SysInv, NEW t \in Threads, NEW e \in Errs, Fails(t, e),
         e = ENOENT => \/ call[t].op \notin {"unlink", "mkdir"}
                       \/ \E p \in Watched(call[t]) : kind[p] = "none"
  PROVE  \E c : Comes(t, c)
BY FailsToComes DEF Fails

\* An operation that goes on to another call, or ends.
LEMMA GoesComes ==
  ASSUME SysInv, NEW t \in Threads, NEW e \in Errs,
         NEW pc \in {"mkdirs", "exists", "chmod", "close", "done"},
         Goes(t, e, pc), call[t].pc # "done",
         kind' \in [Paths -> Kinds], kind'[Root] = "dir",
         OpFits([call[t] EXCEPT !.pc = pc]), call[t].pc = "close" => pc = "done",
         pc = "mkdirs" => \E p \in Watched(call[t]) : kind[p] # "none",
         pc \in {"chmod", "close"} => "file" \in Seen(t, call[t]),
         pc = "done" => \/ call[t].ret = 0 /\ TookEffect(call[t], Seen(t, call[t]))
                        \/ call[t].op \in {"truncate", "create"} /\ "file" \in Seen(t, call[t])
  PROVE  \E c : Comes(t, c)
<1> DEFINE c == [call[t] EXCEPT !.pc = pc]
<1>1. call[t] \in CallRecord /\ call \in [Threads -> CallRecord]
  BY DEF SysInv
<1>2. call' = [call EXCEPT ![t] = c]
  BY <1>1 DEF Goes
<1>3. /\ c \in CallRecord /\ c.pc = pc /\ c.ret = call[t].ret /\ OpFits(c)
      /\ c.op = call[t].op /\ c.path = call[t].path /\ c.dest = call[t].dest
  BY <1>1 DEF CallRecord, PCs
<1>4. Reports(c)
  BY <1>3, CallFields DEF Reports, OpFits
<1> HIDE DEF c
<1>5. Watched(c) = Watched(call[t]) /\ Seen(t, c) = Seen(t, call[t])
  BY <1>3 DEF Watched, Seen
<1>6. TookEffect(c, Seen(t, c)) <=> TookEffect(call[t], Seen(t, call[t]))
  BY <1>3, <1>5 DEF TookEffect
<1>7. Answers(c, Seen(t, c))
  <2>1. ASSUME pc = "mkdirs" PROVE \E k \in Seen(t, c) : k # "none"
    <3>1. PICK p \in Watched(c) : kind[p] # "none"
      BY <1>5, <2>1
    <3>2. QED BY <3>1, SeenNow
  <2>2. ASSUME pc = "done", c.op \in {"unlink", "mkdir"} PROVE c.ret # -ENOENT
    BY <1>3, <2>2 DEF ENOENT
  <2>3. QED BY <1>3, <1>5, <2>1, <2>2 DEF Answers
<1>8. OkIsTrue(c, Seen(t, c))
  <2>1. c.op \in {"truncate", "create"} /\ "file" \in Seen(t, c) => TookEffect(c, Seen(t, c))
    BY DEF TookEffect
  <2>2. QED BY <1>3, <1>5, <1>6, <2>1 DEF OkIsTrue
<1>9. errno' \in [Threads -> Errs]
  BY DEF Goes, SysInv
<1>10. QED BY <1>2, <1>3, <1>4, <1>7, <1>8, <1>9 DEF Comes
----------------------------------------------------------------------------
(***************************************************************************)
(* The operations                                                          *)
(***************************************************************************)

LEMMA ErrnosTyped == ASSUME NEW e \in Errnos(0) PROVE e \in Errs /\ e # ENOENT
BY DEF Errnos, Errs, ENOENT, EIO, EACCES

\* A call that fails for reasons of its own does not say ENOENT.
LEMMA OtherFailure ==
  ASSUME SysInv, NEW t \in Threads, \E e \in Errnos(0) : Fails(t, e)
  PROVE  \E c : Comes(t, c)
BY ErrnosTyped, FailsComes

LEMMA SameKind ==
  ASSUME SysInv, UNCHANGED kind
  PROVE  kind' \in [Paths -> Kinds] /\ kind'[Root] = "dir"
BY DEF SysInv

LEMMA ConnectErrnosTyped ==
  ASSUME SysInv, NEW t \in Threads, NEW op, NEW e \in ConnectErrnos(t, op) \cup {EACCES, EIO}
  PROVE  e \in Errs /\ (e = ENOENT => op = "stat")
<1>1. errno[t] \in Errs
  BY DEF SysInv
<1>2. QED BY <1>1 DEF ConnectErrnos, Errs, ENOENT, EIO, EACCES

\* The connection, and the way to the first call.
LEMMA BeginComes ==
  ASSUME SysInv, NEW t \in Threads, NEW op \in Ops[t], NEW path \in Paths, NEW dest \in Paths,
         NEW mkpath \in BOOLEAN, Begin(t, op, path, dest, mkpath)
  PROVE  \E c : Comes(t, c)
<1> DEFINE pc == FirstCall(op, path, mkpath)
           c == [Idle EXCEPT !.pc = pc, !.op = op, !.path = path, !.dest = dest,
                             !.mkpath = mkpath]
<1>1. /\ call' = [call EXCEPT ![t] = c] /\ op \in OpNames \ {"write"} /\ UNCHANGED kind
      /\ \E e \in ConnectErrnos(t, op) : errno' = [errno EXCEPT ![t] = e]
  BY DEF Begin
<1>2. /\ pc \in PCs \ {"idle", "exists", "close"}
      /\ pc = "mkdirs" => mkpath \/ (path # Root /\ Parent(path) = Root)
      /\ pc = "done" => op = "mkdir" /\ path = Root
      /\ pc = "chmod" => op = "chmod"
  BY <1>1 DEF FirstCall, PCs, OpNames
<1>3. /\ pc \in {"parent", "mkdirs"} => op = "mkdir"
      /\ pc = "delete" => op \in {"remdir", "unlink"}
      /\ pc = "rename" => op = "rename"
      /\ pc = "open" => op \in {"truncate", "create"}
      /\ pc = "stat" => op = "stat"
  BY <1>1 DEF FirstCall, OpNames
<1> HIDE DEF pc
<1>4. /\ c \in CallRecord /\ c.pc = pc /\ c.op = op /\ c.path = path /\ c.mkpath = mkpath
      /\ c.ret = 0
  BY <1>1, <1>2 DEF Idle, CallRecord, Rets
<1> HIDE DEF c
<1>5. Reports(c) /\ OpFits(c)
  BY <1>2, <1>3, <1>4 DEF Reports, OpFits
<1>6. kind[Root] = "dir" /\ kind'[Root] = "dir"
  BY <1>1 DEF SysInv
<1>7. Answers(c, Seen(t, c))
  <2>1. ASSUME pc = "mkdirs", ~mkpath PROVE \E k \in Seen(t, c) : k # "none"
    <3>1. Watched(c) = {Root}
      BY <1>2, <1>3, <1>4, <2>1 DEF Watched
    <3>2. QED BY <1>6, <3>1, SeenNow
  <2>2. QED BY <1>2, <1>3, <1>4, <2>1 DEF Answers, ENOENT
<1>8. OkIsTrue(c, Seen(t, c))
  BY <1>2, <1>4, <1>6 DEF OkIsTrue, TookEffect
<1>9. errno' \in [Threads -> Errs]
  BY <1>1, ConnectErrnosTyped DEF SysInv
<1>10. QED BY <1>1, <1>4, <1>5, <1>7, <1>8, <1>9, SameKind DEF Comes

\* An operation that is refused before any libhdfs call.
LEMMA RefusedComes ==
  ASSUME SysInv, NEW t \in Threads, NEW e \in Errs, NEW c \in CallRecord,
         c.pc = "done", c.ret = Emsg(e),
         e = ENOENT => c.op \notin {"unlink", "mkdir"},
         call' = [call EXCEPT ![t] = c], errno' \in [Threads -> Errs], UNCHANGED kind
  PROVE  Comes(t, c)
<1>1. Reports(c) /\ OpFits(c)
  BY DEF Reports, OpFits
<1>2. Answers(c, Seen(t, c)) /\ OkIsTrue(c, Seen(t, c))
  BY EmsgNegative DEF Answers, OkIsTrue
<1>3. QED BY <1>1, <1>2, SameKind DEF Comes

LEMMA ConnectFailsComes ==
  ASSUME SysInv, NEW t \in Threads, NEW op \in Ops[t], NEW path \in Paths,
         ConnectFails(t, op, path)
  PROVE  \E c : Comes(t, c)
<1>1. PICK e \in ConnectErrnos(t, op) \cup {EACCES, EIO} :
        /\ errno' = [errno EXCEPT ![t] = e]
        /\ call' = [call EXCEPT ![t] =
                      [Idle EXCEPT !.pc = "done", !.op = op, !.path = path, !.ret = Emsg(e)]]
  BY DEF ConnectFails
<1>2. e \in Errs /\ (e = ENOENT => op = "stat") /\ op \in OpNames /\ UNCHANGED kind
  BY ConnectErrnosTyped DEF ConnectFails
<1> DEFINE c == [Idle EXCEPT !.pc = "done", !.op = op, !.path = path, !.ret = Emsg(e)]
<1>3. c \in CallRecord /\ c.pc = "done" /\ c.op = op /\ c.ret = Emsg(e)
  BY <1>2, EmsgNegative DEF Idle, CallRecord, PCs
<1>4. call' = [call EXCEPT ![t] = c]
  BY <1>1
<1> HIDE DEF c
<1>5. errno' \in [Threads -> Errs]
  BY <1>1, <1>2 DEF SysInv
<1>6. QED BY <1>2, <1>3, <1>4, <1>5, RefusedComes

LEMMA WriteRefusedComes ==
  ASSUME SysInv, NEW t \in Threads, WriteRefused(t) PROVE \E c : Comes(t, c)
<1> DEFINE e == errno[t]
           c == [Idle EXCEPT !.pc = "done", !.op = "write", !.ret = Emsg(e)]
<1>1. call' = [call EXCEPT ![t] = c] /\ UNCHANGED <<kind, errno>>
  BY DEF WriteRefused
<1>2. e \in Errs /\ errno' \in [Threads -> Errs]
  BY <1>1 DEF SysInv
<1> HIDE DEF e
<1>3. c \in CallRecord /\ c.pc = "done" /\ c.op = "write" /\ c.ret = Emsg(e)
  BY <1>2, EmsgNegative DEF Idle, CallRecord, PCs, OpNames
<1> HIDE DEF c
<1>4. QED BY <1>1, <1>2, <1>3, RefusedComes

LEMMA MkdirParentComes ==
  ASSUME SysInv, NEW t \in Threads, MkdirParent(t) PROVE \E c : Comes(t, c)
<1> DEFINE parent == Parent(call[t].path)
<1>1. call[t].pc = "parent" /\ call[t].op = "mkdir" /\ Watched(call[t]) = {parent}
  BY CallFields DEF MkdirParent, OpFits, Watched
<1>2. CASE kind[parent] # "none" /\ Goes(t, 0, "mkdirs") /\ UNCHANGED kind
  <2>1. 0 \in Errs /\ OpFits([call[t] EXCEPT !.pc = "mkdirs"])
    BY <1>1, CallFields DEF Errs, OpFits, CallRecord
  <2>2. QED BY <1>1, <1>2, <2>1, SameKind, GoesComes
<1>3. CASE kind[parent] = "none" /\ Fails(t, ENOENT)
  BY <1>1, <1>3, FailsComes DEF Errs
<1>4. CASE \E e \in Errnos(0) : Fails(t, e)
  BY <1>4, OtherFailure
<1>5. QED BY <1>2, <1>3, <1>4 DEF MkdirParent

\* A step with which an operation that has not failed ends.
LEMMA DoneComes ==
  ASSUME SysInv, NEW t \in Threads, NEW e \in Errs, Goes(t, e, "done"),
         call[t].pc \notin {"close", "done"}, kind' \in [Paths -> Kinds], kind'[Root] = "dir",
         TookEffect(call[t], Seen(t, call[t]))
  PROVE  \E c : Comes(t, c)
<1>1. call[t].ret = 0
  BY CallFields DEF Reports
<1>2. OpFits([call[t] EXCEPT !.pc = "done"])
  BY CallFields DEF OpFits, CallRecord
<1>3. QED BY <1>1, <1>2, GoesComes

LEMMA MkdirCreateComes ==
  ASSUME SysInv, NEW t \in Threads, MkdirCreate(t) PROVE \E c : Comes(t, c)
<1>1. call[t].pc = "mkdirs" /\ call[t].op = "mkdir" /\ call[t].path \in Paths
  BY CallFields DEF MkdirCreate, OpFits
<1>2. CASE \E e \in Errnos(0) : Fails(t, e)
  BY <1>2, OtherFailure
<1>3. CASE /\ kind' = [q \in Paths |-> IF q \in UpTo(call[t].path) THEN "dir" ELSE kind[q]]
           /\ Goes(t, 0, "done")
  <2>1. kind' \in [Paths -> Kinds] /\ kind'[Root] = "dir" /\ 0 \in Errs
    BY <1>3 DEF SysInv, Kinds, Errs
  <2>2. kind'[call[t].path] = "dir"
    BY <1>1, <1>3, OwnPrefix
  <2>3. TookEffect(call[t], Seen(t, call[t]))
    BY <1>1, <2>2 DEF TookEffect
  <2>4. QED BY <1>1, <1>3, <2>1, <2>3, DoneComes
<1>4. QED BY <1>2, <1>3 DEF MkdirCreate

LEMMA DeleteComes ==
  ASSUME SysInv, NEW t \in Threads, Delete(t) PROVE \E c : Comes(t, c)
<1> DEFINE p == call[t].path
<1>1. p \in Paths /\ call[t].pc = "delete" /\ call[t].op \in {"remdir", "unlink"}
  BY CallFields DEF Delete, OpFits
<1>2. CASE /\ p # Root /\ kind[p] # "none"
           /\ kind' = [kind EXCEPT ![p] = "none"] /\ Goes(t, 0, "done")
  <2>1. kind' \in [Paths -> Kinds] /\ kind'[Root] = "dir" /\ kind'[p] = "none" /\ 0 \in Errs
    BY <1>1, <1>2 DEF SysInv, Kinds, Errs
  <2>2. TookEffect(call[t], Seen(t, call[t]))
    BY <1>1, <1>2, <2>1 DEF TookEffect
  <2>3. QED BY <1>1, <1>2, <2>1, <2>2, DoneComes
<1>3. CASE call[t].op = "unlink" /\ Goes(t, 0, "exists") /\ UNCHANGED kind
  <2>1. 0 \in Errs /\ OpFits([call[t] EXCEPT !.pc = "exists"])
    BY <1>3, CallFields DEF Errs, OpFits, CallRecord
  <2>2. QED BY <1>1, <1>3, <2>1, SameKind, GoesComes
<1>4. CASE \E e \in Errnos(0) : Fails(t, e)
  BY <1>4, OtherFailure
<1>5. EIO \in Errnos(0)
  BY DEF Errnos
<1>6. QED BY <1>2, <1>3, <1>4, <1>5 DEF Delete

LEMMA UnlinkExistsComes ==
  ASSUME SysInv, NEW t \in Threads, UnlinkExists(t) PROVE \E c : Comes(t, c)
<1> DEFINE p == call[t].path
<1>1. call[t].pc = "exists" /\ Watched(call[t]) = {p}
  BY CallFields DEF UnlinkExists, OpFits, Watched
<1>2. PICK e \in {IF kind[p] = "none" THEN ENOENT ELSE 0, EACCES, EIO} : Fails(t, e)
  BY DEF UnlinkExists
<1>3. e \in Errs /\ (e = ENOENT => kind[p] = "none")
  BY DEF Errs, ENOENT, EACCES, EIO
<1>4. QED BY <1>1, <1>2, <1>3, FailsComes

\* A rename moves nothing to the root.
LEMMA NotRoot ==
  ASSUME NEW dest \in Paths, dest # Root, NEW q \in Paths, NEW n \in Nat
  PROVE  dest \o SubSeq(q, n + 1, Len(q)) # Root
<1>1. dest \in Seq(STRING) /\ q \in Seq(STRING)
  OBVIOUS
<1>2. SubSeq(q, n + 1, Len(q)) \in Seq(STRING)
  BY <1>1
<1> DEFINE s == SubSeq(q, n + 1, Len(q))
<1> HIDE DEF s
<1>3. Len(dest) > 0 /\ Len(s) \in Nat /\ Len(dest \o s) = Len(dest) + Len(s)
  BY <1>1, <1>2 DEF Root, s
<1>4. dest \o s # << >>
  BY <1>3
<1>5. QED BY <1>4 DEF s, Root

LEMMA LenOfConcat ==
  ASSUME NEW a \in Seq(STRING), NEW b \in Seq(STRING) PROVE Len(a \o b) = Len(a) + Len(b)
OBVIOUS

\* Of all that lies below src only src itself is moved to dest.
LEMMA MovedOnce ==
  ASSUME NEW dest \in Paths, NEW src \in Paths, NEW r \in Paths, src \in UpTo(r)
  PROVE  /\ dest \o SubSeq(src, Len(src) + 1, Len(src)) = dest
         /\ dest \o SubSeq(r, Len(src) + 1, Len(r)) = dest => r = src
<1>1. /\ dest \in Seq(STRING) /\ src \in Seq(STRING) /\ r \in Seq(STRING)
      /\ Len(dest) \in Nat /\ Len(src) \in Nat /\ Len(r) \in Nat
  OBVIOUS
<1>2. SubSeq(src, Len(src) + 1, Len(src)) = << >>
  BY <1>1
<1>3. dest \o << >> = dest
  BY <1>1
<1>4. PICK i \in 0 .. Len(r) : src = SubSeq(r, 1, i)
  BY DEF UpTo
<1>5. Len(src) = i
  BY <1>1, <1>4
<1> DEFINE s == SubSeq(r, Len(src) + 1, Len(r))
<1>6. s \in Seq(STRING) /\ Len(s) = Len(r) - i
  BY <1>1, <1>4, <1>5
<1> HIDE DEF s
<1>7. dest \o s = dest => Len(s) = 0
  <2>1. Len(s) \in Nat
    BY <1>6
  <2>2. Len(dest \o s) = Len(dest) + Len(s)
    BY <1>1, <1>6, LenOfConcat
  <2>3. QED BY <1>1, <2>1, <2>2
<1>8. Len(r) = i => r = src
  BY <1>1, <1>4
<1>9. QED BY <1>1, <1>2, <1>3, <1>5, <1>6, <1>7, <1>8 DEF s

LEMMA RenameComes ==
  ASSUME SysInv, NEW t \in Threads, Rename(t) PROVE \E c : Comes(t, c)
<1> DEFINE src == call[t].path
           dest == IF kind[call[t].dest] = "dir" /\ src # Root
                   THEN Append(call[t].dest, src[Len(src)]) ELSE call[t].dest
           Moved(q) == dest \o SubSeq(q, Len(src) + 1, Len(q))
           live == {q \in Below(src) : kind[q] # "none"}
<1>0. call[t].pc = "rename" /\ call[t].op = "rename"
  BY CallFields DEF Rename, OpFits
<1>1. CASE \E e \in Errnos(0) : Fails(t, e)
  BY <1>1, OtherFailure
<1>2. CASE /\ src # Root /\ src \in live
           /\ dest \in Paths /\ dest \notin Below(src)
           /\ kind[dest] = "none" /\ kind[Parent(dest)] = "dir"
           /\ \A q \in live : Moved(q) \in Paths
           /\ kind' = [q \in Paths |->
                        IF q \in live THEN "none"
                        ELSE IF q \in {Moved(r) : r \in live}
                        THEN kind[CHOOSE r \in live : Moved(r) = q]
                        ELSE kind[q]]
           /\ Goes(t, 0, "done")
  <2>1. dest # Root /\ src \in Seq(STRING) /\ Len(src) \in Nat /\ dest \in Paths
    <3>1. kind[dest] = "none" /\ kind[Root] = "dir" /\ dest \in Paths /\ src \in Paths
      BY <1>2, CallFields DEF SysInv
    <3> HIDE DEF dest, src
    <3>2. dest # Root
      BY <3>1
    <3>3. QED BY <3>1, <3>2
  <2> HIDE DEF dest
  <2>2. live \subseteq Paths
    BY DEF Below
  <2>3. \A r \in live : Moved(r) # Root
    BY <2>1, <2>2, NotRoot
  <2>4. Moved(src) = dest /\ \A r \in live : Moved(r) = dest => r = src
    <3>1. src \in Paths /\ src \in live
      BY <1>2, CallFields
    <3>2. \A r \in live : r \in Paths /\ src \in UpTo(r)
      BY DEF Below
    <3> HIDE DEF live, src
    <3>3. Moved(src) = dest
      BY <2>1, <3>1, <3>2, MovedOnce
    <3>4. ASSUME NEW r \in live, Moved(r) = dest PROVE r = src
      <4>1. dest \in Paths /\ src \in Paths /\ r \in Paths /\ src \in UpTo(r)
        BY <2>1, <3>1, <3>2
      <4>2. dest \o SubSeq(r, Len(src) + 1, Len(r)) = dest => r = src
        BY <4>1, MovedOnce
      <4>3. QED BY <3>4, <4>2
    <3>5. QED BY <3>3, <3>4
  <2>5. dest \notin live /\ dest \in Paths
    BY <1>2
  <2>6. Root \notin live
    <3> SUFFICES ASSUME Root \in live PROVE FALSE
      OBVIOUS
    <3>1. PICK i \in 0 .. 0 : src = SubSeq(Root, 1, i)
      BY DEF Below, UpTo, Root
    <3>2. src = << >>
      BY <3>1 DEF Root
    <3>3. QED BY <1>2, <3>2 DEF Root
  <2> HIDE DEF live, Moved
  <2>7. kind'[Root] = "dir"
    BY <1>2, <2>3, <2>6 DEF SysInv
  <2>8. ASSUME NEW q \in Paths PROVE kind'[q] \in Kinds
    <3>1. CASE q \notin live /\ q \in {Moved(r) : r \in live}
      <4>1. (CHOOSE r \in live : Moved(r) = q) \in live
        BY <3>1
      <4>2. QED BY <1>2, <2>2, <3>1, <4>1 DEF SysInv
    <3>2. CASE q \in live \/ q \notin {Moved(r) : r \in live}
      BY <1>2, <3>2 DEF SysInv, Kinds
    <3>3. QED BY <3>1, <3>2
  <2>9. kind' \in [Paths -> Kinds] /\ 0 \in Errs
    BY <1>2, <2>8 DEF Errs
  <2>10. kind'[src] = "none" /\ kind[src] # "none"
    <3>1. src \in live /\ src \in Paths
      BY <1>2, <2>2
    <3>2. kind'[src] = "none"
      BY <1>2, <3>1
    <3>3. QED BY <3>1, <3>2 DEF live
  <2>11. kind[dest] = "none" /\ kind'[dest] = kind[src]
    <3>1. dest \in {Moved(r) : r \in live} /\ (CHOOSE r \in live : Moved(r) = dest) = src
      BY <1>2, <2>4
    <3>2. QED BY <1>2, <2>5, <3>1
  <2>12. dest \in {call[t].dest, Append(call[t].dest, src[Len(src)])}
    BY DEF dest
  <2>13. TookEffect(call[t], Seen(t, call[t]))
    BY <1>0, <2>5, <2>10, <2>11, <2>12 DEF TookEffect
  <2>14. QED BY <1>2, <1>0, <2>7, <2>9, <2>13, DoneComes
<1>3. QED BY <1>1, <1>2 DEF Rename

LEMMA OpenComes ==
  ASSUME SysInv, NEW t \in Threads, OpenForWriting(t) PROVE \E c : Comes(t, c)
<1> DEFINE p == call[t].path
           next == IF call[t].op = "create" THEN "chmod" ELSE "close"
<1>1. call[t].pc = "open" /\ call[t].op \in {"truncate", "create"} /\ p \in Paths
  BY CallFields DEF OpenForWriting, OpFits
<1>2. CASE \E e \in Errnos(0) : Fails(t, e)
  BY <1>2, OtherFailure
<1>3. CASE /\ kind[p] # "dir"
           /\ kind' = [q \in Paths |-> IF q = p THEN "file"
                                       ELSE IF q \in UpTo(p) THEN "dir" ELSE kind[q]]
           /\ Goes(t, 0, next)
  <2>1. /\ kind' \in [Paths -> Kinds] /\ kind'[Root] = "dir" /\ kind'[p] = "file"
        /\ 0 \in Errs
    BY <1>1, <1>3 DEF SysInv, Kinds, Errs
  <2>2. "file" \in Seen(t, call[t])
    <3>1. p \in Watched(call[t])
      BY <1>1 DEF Watched
    <3>2. kind'[p] \in Seen(t, call[t])
      BY <3>1, SeenNow
    <3>3. QED BY <2>1, <3>2
  <2>3. OpFits([call[t] EXCEPT !.pc = next])
    BY <1>1, CallFields DEF OpFits, CallRecord
  <2>4. QED BY <1>1, <1>3, <2>1, <2>2, <2>3, GoesComes
<1>4. QED BY <1>2, <1>3 DEF OpenForWriting

LEMMA ChmodComes ==
  ASSUME SysInv, NEW t \in Threads, Chmod(t) PROVE \E c : Comes(t, c)
<1>1. /\ 0 \in Errs /\ call[t].pc = "chmod" /\ call[t].op \in {"chmod", "create"}
      /\ call[t].op = "create" => "file" \in saw[t]
  BY CallFields DEF Errs, Chmod, OpFits, Answers
<1>2. CASE call[t].op = "create" /\ Goes(t, 0, "close") /\ UNCHANGED kind
  <2>1. OpFits([call[t] EXCEPT !.pc = "close"])
    BY <1>2, CallFields DEF OpFits, CallRecord
  <2>2. "file" \in Seen(t, call[t])
    BY <1>1, <1>2, SeenBefore
  <2>3. QED BY <1>1, <1>2, <2>1, <2>2, SameKind, GoesComes
<1>3. CASE /\ call[t].op # "create" /\ kind[call[t].path] # "none"
           /\ Goes(t, 0, "done") /\ UNCHANGED kind
  <2>1. TookEffect(call[t], Seen(t, call[t]))
    BY <1>1, <1>3 DEF TookEffect
  <2>2. QED BY <1>1, <1>3, <2>1, SameKind, DoneComes
<1>4. CASE \E e \in Errnos(0) :
             FailsTo(t, e, IF call[t].op = "create" THEN "close" ELSE "done")
  BY <1>1, <1>4, ErrnosTyped, FailsToComes
<1>5. QED BY <1>2, <1>3, <1>4 DEF Chmod

\* Whatever hdfsCloseFile does, the file has been opened.
LEMMA CloseComes ==
  ASSUME SysInv, NEW t \in Threads, Close(t) PROVE \E c : Comes(t, c)
<1>1. /\ call[t].pc = "close" /\ call[t].op \in {"truncate", "create"} /\ "file" \in saw[t]
      /\ UNCHANGED kind
  BY CallFields DEF Close, OpFits, Answers
<1>2. PICK e \in Errnos(errno[t]) : Goes(t, e, "done")
  BY DEF Close
<1>3. e \in Errs /\ OpFits([call[t] EXCEPT !.pc = "done"])
  <2>1. errno[t] \in Errs
    BY DEF SysInv
  <2>2. e \in Errs
    BY <2>1 DEF Errnos, Errs
  <2>3. QED BY <2>2, CallFields DEF OpFits, CallRecord
<1>4. "file" \in Seen(t, call[t])
  BY <1>1, SeenBefore
<1>5. QED BY <1>1, <1>2, <1>3, <1>4, SameKind, GoesComes

LEMMA StatComes ==
  ASSUME SysInv, NEW t \in Threads, Stat(t) PROVE \E c : Comes(t, c)
<1>1. call[t].pc = "stat" /\ call[t].op = "stat" /\ errno[t] \in Errs
  BY CallFields DEF Stat, OpFits, SysInv
<1>2. CASE kind[call[t].path] # "none" /\ Goes(t, errno[t], "done") /\ UNCHANGED kind
  <2>1. TookEffect(call[t], Seen(t, call[t]))
    BY <1>1, <1>2 DEF TookEffect
  <2>2. QED BY <1>1, <1>2, <2>1, SameKind, DoneComes
<1>3. Errnos(errno[t]) \cup {ENOENT} \subseteq Errs
  BY <1>1 DEF Errs, Errnos
<1>4. CASE \E e \in Errnos(errno[t]) \cup {ENOENT} : Fails(t, e)
  BY <1>1, <1>3, <1>4, FailsComes
<1>5. QED BY <1>2, <1>4 DEF Stat

LEMMA IdleComes ==
  /\ Idle \in CallRecord /\ Idle.pc = "idle"
  /\ Reports(Idle) /\ OpFits(Idle) /\ \A seen : Answers(Idle, seen)
<1>1. Idle \in CallRecord /\ Idle.pc = "idle" /\ Idle.ret = 0
  BY DEF Idle, CallRecord, PCs, Rets
<1>2. QED BY <1>1 DEF Reports, OpFits, Answers

LEMMA ReturnComes ==
  ASSUME SysInv, NEW t \in Threads, Return(t) PROVE \E c : Comes(t, c)
<1>1. call' = [call EXCEPT ![t] = Idle] /\ UNCHANGED <<kind, errno>>
  BY DEF Return
<1>2. QED BY <1>1, IdleComes, SameKind DEF Comes, SysInv

\* Whatever an operation does next.
LEMMA StepComes ==
  ASSUME SysInv, NEW t \in Threads, Step(t) PROVE \E c : Comes(t, c)
BY BeginComes, ConnectFailsComes, WriteRefusedComes, MkdirParentComes, MkdirCreateComes,
   DeleteComes, UnlinkExistsComes, RenameComes, OpenComes, ChmodComes, CloseComes, StatComes,
   ReturnComes DEF Step
----------------------------------------------------------------------------
(***************************************************************************)
(* The invariant and the theorems                                          *)
(***************************************************************************)

\* What more has been seen does no harm.
LEMMA AnswersMore ==
  ASSUME NEW c, NEW S, NEW T, Answers(c, S), S \subseteq T PROVE Answers(c, T)
BY DEF Answers

LEMMA InitSys == Init => SysInv
<1> SUFFICES ASSUME Init PROVE SysInv
  OBVIOUS
<1>1. 0 \in Errs
  BY DEF Errs
<1>2. /\ errno \in [Threads -> Errs] /\ call \in [Threads -> CallRecord]
      /\ saw \in [Threads -> SUBSET Kinds] /\ \A t \in Threads : call[t] = Idle
  BY <1>1, IdleComes DEF Init
<1>3. kind \in [Paths -> Kinds] /\ kind[Root] = "dir"
  BY DEF Init, Kinds
<1>4. QED BY <1>2, <1>3, IdleComes DEF SysInv

\* A step of a thread, and what it means for the thread and for the others.
LEMMA NextComes ==
  ASSUME SysInv, Next
  PROVE  \E t \in Threads, c \in CallRecord :
           /\ Comes(t, c) /\ call'[t] = c
           /\ \A u \in Threads : u # t => call'[u] = call[u]
           /\ c.pc # "idle" => saw'[t] = Seen(t, c)
<1>1. PICK t \in Threads : Step(t)
  BY DEF Next
<1>2. PICK c : Comes(t, c)
  BY <1>1, StepComes
<1>3. c \in CallRecord /\ call' = [call EXCEPT ![t] = c]
  BY <1>2 DEF Comes
<1>4. call'[t] = c /\ \A u \in Threads : u # t => call'[u] = call[u]
  BY <1>3 DEF SysInv
<1>5. c.pc # "idle" => saw'[t] = Seen(t, c)
  BY <1>4 DEF Next, Seen
<1>6. QED BY <1>2, <1>3, <1>4, <1>5

LEMMA NextSys == SysInv /\ [Next]_vars => SysInv'
<1> SUFFICES ASSUME SysInv, [Next]_vars PROVE SysInv'
  OBVIOUS
<1>1. CASE UNCHANGED vars
  BY <1>1 DEF vars, SysInv
<1>2. CASE Next
  <2>1. PICK t \in Threads, c \in CallRecord :
           /\ Comes(t, c) /\ call'[t] = c
           /\ \A u \in Threads : u # t => call'[u] = call[u]
           /\ c.pc # "idle" => saw'[t] = Seen(t, c)
    BY <1>2, NextComes
  <2> DEFINE Now(u) == UNION {{kind[p], kind'[p]} : p \in Watched(call'[u])}
  <2>2. saw' = [u \in Threads |-> IF call'[u].pc = "idle" THEN {} ELSE saw[u] \cup Now(u)]
    BY <1>2 DEF Next
  <2>3. /\ call' = [call EXCEPT ![t] = c]
        /\ errno' \in [Threads -> Errs] /\ kind' \in [Paths -> Kinds] /\ kind'[Root] = "dir"
        /\ Reports(c) /\ OpFits(c) /\ (c.pc # "idle" => Answers(c, Seen(t, c)))
    BY <2>1 DEF Comes
  <2>4. call' \in [Threads -> CallRecord]
    BY <2>3 DEF SysInv
  <2>5. ASSUME NEW u \in Threads PROVE Now(u) \subseteq Kinds
    <3>1. call'[u] \in CallRecord
      BY <2>4
    <3>2. Watched(call'[u]) \subseteq Paths
      BY <3>1, WatchedPaths
    <3>3. \A p \in Paths : kind[p] \in Kinds /\ kind'[p] \in Kinds
      BY <2>3 DEF SysInv
    <3>4. QED BY <3>2, <3>3
  <2> HIDE DEF Now
  <2>6. saw' \in [Threads -> SUBSET Kinds]
    BY <2>2, <2>5 DEF SysInv
  <2>7. ASSUME NEW u \in Threads PROVE Reports(call'[u]) /\ OpFits(call'[u])
    BY <2>1, <2>3 DEF SysInv
  <2>8. ASSUME NEW u \in Threads PROVE Answers(call'[u], saw'[u])
    <3>1. CASE call'[u].pc = "idle"
      BY <3>1 DEF Answers
    <3>2. CASE call'[u].pc # "idle" /\ u = t
      BY <2>1, <2>3, <3>2
    <3>3. CASE call'[u].pc # "idle" /\ u # t
      <4>1. saw[u] \subseteq saw'[u]
        BY <2>2, <3>3
      <4>2. Answers(call'[u], saw[u])
        BY <2>1, <3>3 DEF SysInv
      <4>3. QED BY <4>1, <4>2, AnswersMore
    <3>4. QED BY <3>1, <3>2, <3>3
  <2>9. QED BY <2>3, <2>4, <2>6, <2>7, <2>8 DEF SysInv
<1>3. QED BY <1>1, <1>2

\* The invariant, for any number of threads.
THEOREM SysInvHolds == Spec => []SysInv
BY InitSys, NextSys, PTL DEF Spec

\* The variables of XrdHdfsSys have their types; Emsg makes nothing but a negated
\* errno or -1.
THEOREM TypeCorrect == Spec => []TypeOK
<1>1. SysInv => TypeOK
  <2> SUFFICES ASSUME SysInv PROVE TypeOK
    OBVIOUS
  <2>1. \A t \in Threads : /\ call[t].pc \in PCs /\ call[t].path \in Paths
                           /\ call[t].dest \in Paths /\ call[t].ret \in Rets
    BY DEF SysInv, CallRecord
  <2>2. QED BY <2>1 DEF SysInv, TypeOK, PCs, Rets, Kinds, Errs
<1>2. QED BY <1>1, SysInvHolds, PTL

\* However libhdfs calls fail and leave errno, and whatever the other threads do
\* in between, XrdOssOK means that what was asked for has happened.
THEOREM OksAreTrue == Spec => OkMeansDone
<1> DEFINE Ok ==
      \A t \in Threads :
        (call[t].pc # "done" /\ call'[t].pc = "done" /\ call'[t].ret = 0)
          => TookEffect(call'[t], saw'[t])
<1>1. SysInv /\ [Next]_vars => [Ok]_vars
  <2> SUFFICES ASSUME SysInv, Next, NEW t \in Threads, call[t].pc # "done",
                      call'[t].pc = "done", call'[t].ret = 0
               PROVE  TookEffect(call'[t], saw'[t])
    OBVIOUS
  <2>1. PICK u \in Threads, c \in CallRecord :
           /\ Comes(u, c) /\ call'[u] = c
           /\ \A v \in Threads : v # u => call'[v] = call[v]
           /\ c.pc # "idle" => saw'[u] = Seen(u, c)
    BY NextComes
  <2>2. u = t
    BY <2>1
  <2>3. c.pc = "done" /\ c.ret = 0 /\ saw'[t] = Seen(t, c)
    BY <2>1, <2>2
  <2>4. OkIsTrue(c, Seen(t, c))
    BY <2>1, <2>2, <2>3 DEF Comes
  <2>5. QED BY <2>1, <2>2, <2>3, <2>4 DEF OkIsTrue
<1>2. QED BY <1>1, SysInvHolds, PTL DEF Spec, OkMeansDone

\* Unlink's and Mkdir's -ENOENT is true of a moment during the call, although the
\* hdfsDelete and the hdfsExists that make it up are separate calls between which
\* any other thread may create, rename or remove.
THEOREM EnoentIsTrue == Spec => []EnoentMeansAbsent
<1>1. SysInv => EnoentMeansAbsent
  BY DEF SysInv, EnoentMeansAbsent, Answers
<1>2. QED BY <1>1, SysInvHolds, PTL

\* Mkdir without mkpath reaches hdfsCreateDirectory, which makes all parents, only
\* if the parent existed at a moment of the call.
THEOREM MkdirsHadParent == Spec => MkdirHadParent
<1> DEFINE Had ==
      \A t \in Threads :
        (call[t].pc = "mkdirs" /\ call'[t].pc = "done" /\ call'[t].ret = 0 /\ ~call[t].mkpath)
          => saw[t] # {"none"}
<1>1. SysInv /\ [Next]_vars => [Had]_vars
  BY DEF SysInv, Answers
<1>2. QED BY <1>1, SysInvHolds, PTL DEF Spec, MkdirHadParent
=============================================================================
