---------------------------- MODULE XrdHdfsFile ----------------------------
(***************************************************************************)
(* One XrdHdfsFile object (XrdHdfs.cc, XrdHdfs.hh): the file handle that   *)
(* XRootD drives through Open, Read, Write, Close and the destructor,      *)
(* together with the HDFS files it reaches through libhdfs.                *)
(*                                                                         *)
(* Several server threads may be inside Read and Close at once; the code   *)
(* serialises them on readbuf_mutex, and only on it.  Open, Write and the  *)
(* destructor run while no other call is in flight: "this class should not *)
(* be assumed to be thread-safe" (XrdHdfs.hh).                             *)
(*                                                                         *)
(* Bytes.  A byte is named by the offset at which the client that wrote it *)
(* wanted it to be, so a file is in order exactly when position p holds p. *)
(* Junk is memory that malloc returned and nobody has written.             *)
(*                                                                         *)
(* Left out: the hit/miss statistics (they are only logged), the log       *)
(* messages, Fstat (it changes nothing) and the AIO entry points (they     *)
(* forward to Read and Write and are never called).                        *)
(***************************************************************************)
EXTENDS Integers, Sequences

CONSTANTS
  Threads,      \* threads of the server that may call the object
  Paths,        \* the HDFS paths GetRealPath may yield
  CksumPaths,   \* those that start with "/cksums"
  OpenModes,    \* the openMode arguments offered to Open
  BufSize,      \* the size malloc'ed for readbuf (32768 in Open)
  MaxLen,       \* bound: longest file, largest request offset
  MaxBlen,      \* bound: longest request
  MaxFed,       \* bound: bytes fed to one ChecksumState
  MaxOpens,     \* bound: successful Opens of one object (1: never reused)
  ShortWrites,  \* whether hdfsWrite may take fewer bytes than it was given
  NULL

ASSUME ThreadsAssumption == NULL \notin Threads
ASSUME PathsAssumption == NULL \notin Paths /\ CksumPaths \subseteq Paths
ASSUME ModesAssumption ==
  OpenModes \subseteq [access : {"RDONLY", "WRONLY", "RDWR", "ACCMODE"},
                       trunc : BOOLEAN]
ASSUME BoundsAssumption ==
  /\ BufSize \in Nat /\ MaxLen \in Nat /\ MaxBlen \in Nat
  /\ MaxFed \in Nat /\ MaxOpens \in Nat
  /\ ShortWrites \in BOOLEAN

VARIABLES
  \* HDFS
  data,            \* data[p]: the bytes of file p, in order
  \* members of the object
  m_fs,            \* m_fs # NULL
  fh,              \* the hdfsFile: "none", or open for "rd" or for "wr"
  fname,           \* the translated path, or NULL
  m_nextoff,       \* next offset Write accepts
  readbuf,         \* the bytes of the read-ahead buffer
  readbuf_size,    \* its size; 0 exactly when the pointer is NULL
  readbuf_offset,  \* file offset of readbuf[0]
  readbuf_len,     \* number of valid bytes in it
  m_state,         \* m_state # NULL
  fed,             \* the bytes m_state->Update has digested, in order
  \* threads
  lock,            \* the thread that holds readbuf_mutex, or NULL
  call,            \* call[t]: the Read or Close that thread t executes
  \* history
  opens,           \* successful Opens since the object was constructed
  handed,          \* handed[p]: {} or {digest last passed to manager.Set}
  closed           \* closed[p]: {} or {content at p's last good Close}

bufVars == <<readbuf, readbuf_size, readbuf_offset, readbuf_len>>
objVars == <<m_fs, fh, fname, m_nextoff, m_state, fed>>
histVars == <<opens, handed, closed>>
vars == <<data, objVars, bufVars, lock, call, histVars>>

Junk == -1
Cells == 0 .. (BufSize - 1)

\* The bytes a client sends for the n positions that start at offset o.
StreamBytes(o, n) == [i \in 1 .. n |-> o + i - 1]

\* memcpy(dst + d, src + s, n)
Memcpy(dst, d, src, s, n) ==
  [i \in DOMAIN dst |-> IF d <= i /\ i < d + n THEN src[s + i - d] ELSE dst[i]]

Least(a, b) == IF a < b THEN a ELSE b

\* A call: where it is, the arguments off and blen of a Read, how much of the
\* caller's buffer out is filled, and the outcome.
Call(pc, off, blen, nbytes, out, ok) ==
  [pc |-> pc, off |-> off, blen |-> blen, nbytes |-> nbytes, out |-> out, ok |-> ok]

NewOut == [i \in 0 .. (MaxBlen - 1) |-> Junk]
Idle == Call("idle", 0, 0, 0, NewOut, TRUE)

Quiescent == \A t \in Threads : call[t].pc = "idle"
----------------------------------------------------------------------------
(***************************************************************************)
(* Construction and destruction.                                           *)
(***************************************************************************)

\* The constructor's initialiser list, for the primed or unprimed members.
Constructed(fs, h, name, next, state, size, off, len) ==
  /\ fs = FALSE /\ h = "none" /\ name = NULL /\ next = 0 /\ state = FALSE
  /\ size = 0 /\ off = 0 /\ len = 0

Init ==
  /\ data \in [Paths -> {StreamBytes(0, n) : n \in 0 .. MaxLen}]
  /\ Constructed(m_fs, fh, fname, m_nextoff, m_state,
                 readbuf_size, readbuf_offset, readbuf_len)
  /\ readbuf = [i \in Cells |-> Junk]
  /\ fed = << >>
  /\ lock = NULL
  /\ call = [t \in Threads |-> Idle]
  /\ opens = 0
  /\ handed = [p \in Paths |-> {}]
  /\ closed = [p \in Paths |-> {}]

\* The destructor: hdfsCloseFile on a handle still open, then every buffer is
\* freed.  No checksum is recorded.  The next object is constructed afresh.
Destroy ==
  /\ Quiescent
  /\ Constructed(m_fs', fh', fname', m_nextoff', m_state',
                 readbuf_size', readbuf_offset', readbuf_len')
  /\ readbuf' = [i \in Cells |-> Junk]
  /\ fed' = << >>
  /\ opens' = 0
  /\ UNCHANGED <<data, lock, call, handed, closed>>
----------------------------------------------------------------------------
(***************************************************************************)
(* Open                                                                    *)
(***************************************************************************)

\* The switch on openMode and the O_TRUNC override.
OpenFlag(mode) ==
  IF mode.trunc \/ mode.access \in {"WRONLY", "RDWR"} THEN "wr" ELSE "rd"

\* Allocate readbuf unless it is there; malloc may fail and leave size 0.
AllocateReadbuf ==
  IF readbuf_size > 0
  THEN UNCHANGED <<readbuf, readbuf_size>>
  ELSE /\ readbuf_size' \in {0, BufSize}
       /\ readbuf' = [i \in Cells |-> Junk]

\* What every Open does before it talks to HDFS.  GetRealPath's string
\* replaces whatever fname pointed to.
PrepareOpen(path) ==
  /\ Quiescent
  /\ fh = "none"
  /\ opens < MaxOpens
  /\ fname' = path
  /\ AllocateReadbuf
  /\ readbuf_offset' = 0
  /\ readbuf_len' = 0
  /\ UNCHANGED <<m_nextoff, lock, call, handed, closed>>

\* Connect failed (-EIO), or hdfsOpenFile returned NULL and Open reports
\* EISDIR, EEXIST or ENOENT.
OpenFails(path) ==
  /\ PrepareOpen(path)
  /\ m_fs' \in BOOLEAN
  /\ UNCHANGED <<data, fh, m_state, fed, opens>>

\* Mutant: the file is opened for append.
OpenAppends(path, mode) ==
  /\ PrepareOpen(path)
  /\ m_fs' = TRUE
  /\ fh' = OpenFlag(mode)
  /\ IF OpenFlag(mode) = "wr" /\ path \notin CksumPaths
     THEN m_state' = TRUE /\ fed' = << >>
     ELSE UNCHANGED <<m_state, fed>>
  /\ opens' = opens + 1
  /\ UNCHANGED data

\* libhdfs creates, or overwrites with an empty file, what it opens O_WRONLY.
OpenSucceeds(path, mode) ==
  /\ PrepareOpen(path)
  /\ m_fs' = TRUE
  /\ fh' = OpenFlag(mode)
  /\ data' = IF OpenFlag(mode) = "wr" THEN [data EXCEPT ![path] = << >>] ELSE data
  /\ IF OpenFlag(mode) = "wr" /\ path \notin CksumPaths
     THEN m_state' = TRUE /\ fed' = << >>
     ELSE UNCHANGED <<m_state, fed>>
  /\ opens' = opens + 1
----------------------------------------------------------------------------
(***************************************************************************)
(* Read                                                                    *)
(*                                                                         *)
(* Read holds readbuf_mutex from entry to every return.  A request that    *)
(* needs one libhdfs call or none is one step; the load loop is one step   *)
(* per hdfsPread.  An hdfsPread that EINTR interrupts changes nothing.     *)
(***************************************************************************)

\* hdfsPread(offset, want): the numbers of bytes it may deliver.  It may come
\* short anywhere before the end of the file and delivers 0 only at the end.
PreadCounts(offset, want) ==
  IF fh # "rd" \/ want = 0 THEN {}
  ELSE IF offset >= Len(data[fname]) THEN {0}
  ELSE 1 .. Least(want, Len(data[fname]) - offset)

\* hdfsPread's n bytes, stored at dst + d.
PreadInto(dst, d, offset, n) ==
  [i \in DOMAIN dst |->
     IF d <= i /\ i < d + n THEN data[fname][offset + (i - d) + 1] ELSE dst[i]]

\* Mutant: Read without readbuf_mutex.
EnterUnlocked(t, offset, blen) ==
  /\ call[t].pc = "idle"
  /\ fname # NULL
  /\ offset \in 0 .. MaxLen
  /\ blen \in 0 .. MaxBlen

Enter(t, offset, blen) ==
  /\ call[t].pc = "idle"
  /\ lock = NULL
  /\ fname # NULL
  /\ offset \in 0 .. MaxLen
  /\ blen \in 0 .. MaxBlen

\* Larger than readbuf: one hdfsPread straight into the caller's buffer.
ReadBypass(t, offset, blen) ==
  /\ Enter(t, offset, blen)
  /\ blen > readbuf_size
  /\ \/ \E n \in PreadCounts(offset, blen) :
          call' = [call EXCEPT ![t] =
                     Call("done", offset, blen, n, PreadInto(NewOut, 0, offset, n), TRUE)]
     \/ call' = [call EXCEPT ![t] = Call("done", offset, blen, 0, NewOut, FALSE)]
  /\ UNCHANGED <<data, objVars, bufVars, lock, histVars>>

\* Mutant: compares with the size of the buffer, not with what is valid of it.
InReadbufBySize(offset, blen) ==
  /\ offset >= readbuf_offset
  /\ offset + blen <= readbuf_offset + readbuf_size

\* The request lies in the valid part of the buffer.
InReadbuf(offset, blen) ==
  /\ offset >= readbuf_offset
  /\ offset + blen <= readbuf_offset + readbuf_len

\* Satisfied from the read buffer.
ReadHit(t, offset, blen) ==
  /\ Enter(t, offset, blen)
  /\ blen <= readbuf_size
  /\ InReadbuf(offset, blen)
  /\ call' = [call EXCEPT ![t] =
                Call("done", offset, blen, blen,
                     Memcpy(NewOut, 0, readbuf, offset - readbuf_offset, blen), TRUE)]
  /\ UNCHANGED <<data, objVars, bufVars, lock, histVars>>

\* Mutant: the test that the offset lies before the end of the buffer is lost.
TailHitUnbounded(offset) ==
  IF offset >= readbuf_offset THEN readbuf_len - (offset - readbuf_offset) ELSE 0

\* The part of a request that the buffer's tail covers.
TailHit(offset) ==
  IF offset >= readbuf_offset /\ offset < readbuf_offset + readbuf_len
  THEN readbuf_len - (offset - readbuf_offset)
  ELSE 0

\* A miss or a partial hit: copy the tail, then point readbuf at the first
\* byte still missing and start to load it.
ReadMiss(t, offset, blen) ==
  LET n == TailHit(offset) IN
  /\ Enter(t, offset, blen)
  /\ blen <= readbuf_size
  /\ ~InReadbuf(offset, blen)
  /\ lock' = t
  /\ call' = [call EXCEPT ![t] =
                Call("load", offset, blen, n,
                     Memcpy(NewOut, 0, readbuf, offset - readbuf_offset, n), TRUE)]
  /\ readbuf_offset' = offset + n
  /\ readbuf_len' = 0
  /\ UNCHANGED <<data, objVars, readbuf, readbuf_size, histVars>>

Loading(t) == call[t].pc = "load" /\ lock = t

\* Mutant: hdfsPread stores at readbuf, not at readbuf + readbuf_len.
ReadLoadAtStart(t) ==
  /\ Loading(t)
  /\ readbuf_len < readbuf_size
  /\ \E n \in PreadCounts(readbuf_offset + readbuf_len, readbuf_size - readbuf_len) :
       /\ n > 0
       /\ readbuf' = PreadInto(readbuf, 0, readbuf_offset + readbuf_len, n)
       /\ readbuf_len' = readbuf_len + n
  /\ UNCHANGED <<data, objVars, readbuf_size, readbuf_offset, lock, call, histVars>>

\* One turn of the load loop that delivers bytes.
ReadLoad(t) ==
  /\ Loading(t)
  /\ readbuf_len < readbuf_size
  /\ \E n \in PreadCounts(readbuf_offset + readbuf_len, readbuf_size - readbuf_len) :
       /\ n > 0
       /\ readbuf' = PreadInto(readbuf, readbuf_len, readbuf_offset + readbuf_len, n)
       /\ readbuf_len' = readbuf_len + n
  /\ UNCHANGED <<data, objVars, readbuf_size, readbuf_offset, lock, call, histVars>>

\* Mutant: one hdfsPread and no loop.
LoadDoneAtOnce ==
  \/ readbuf_len > 0 \/ readbuf_size = 0
  \/ 0 \in PreadCounts(readbuf_offset + readbuf_len, readbuf_size - readbuf_len)

\* Mutant: the loop asks for more until the buffer is full.
LoadDoneFull == readbuf_len >= readbuf_size

\* The loop is over: the buffer is full, or hdfsPread returned 0.
LoadDone ==
  \/ readbuf_len >= readbuf_size
  \/ 0 \in PreadCounts(readbuf_offset + readbuf_len, readbuf_size - readbuf_len)

\* Copy what the request still needs and return.
ReadFinish(t) ==
  LET nbytes == call[t].nbytes
      bytes_to_copy == Least(readbuf_len, call[t].blen - nbytes)
  IN
  /\ Loading(t)
  /\ LoadDone
  /\ call' = [call EXCEPT ![t] =
                Call("done", call[t].off, call[t].blen, nbytes + bytes_to_copy,
                     Memcpy(call[t].out, nbytes, readbuf, 0, bytes_to_copy), TRUE)]
  /\ lock' = NULL
  /\ UNCHANGED <<data, objVars, bufVars, histVars>>

\* hdfsPread failed: Read returns -errno and keeps what it had loaded.
ReadError(t) ==
  /\ Loading(t)
  /\ readbuf_len < readbuf_size
  /\ call' = [call EXCEPT ![t] = Call("done", @.off, @.blen, @.nbytes, @.out, FALSE)]
  /\ lock' = NULL
  /\ UNCHANGED <<data, objVars, bufVars, histVars>>

\* The caller takes the result.
Return(t) ==
  /\ call[t].pc = "done"
  /\ call' = [call EXCEPT ![t] = Idle]
  /\ UNCHANGED <<data, objVars, bufVars, lock, histVars>>
----------------------------------------------------------------------------
(***************************************************************************)
(* Write                                                                   *)
(***************************************************************************)

\* hdfsWrite's results for blen bytes: the number taken, or -1.
WriteResults(blen) == IF ShortWrites THEN -1 .. blen ELSE {blen}

\* Mutant: m_nextoff moves by what was asked, not by what was written.
AdvanceByRequest(result, buff) ==
  IF result >= 0
  THEN /\ data' = [data EXCEPT ![fname] = @ \o SubSeq(buff, 1, result)]
       /\ m_nextoff' = m_nextoff + Len(buff)
  ELSE UNCHANGED <<data, m_nextoff>>

\* hdfsWrite took result bytes of buff, or failed.
Advance(result, buff) ==
  IF result >= 0
  THEN /\ data' = [data EXCEPT ![fname] = @ \o SubSeq(buff, 1, result)]
       /\ m_nextoff' = m_nextoff + result
  ELSE UNCHANGED <<data, m_nextoff>>

\* A Write at m_nextoff (any other offset is refused and changes nothing).
\* The digests are fed all blen bytes, whatever hdfsWrite returned.
Write(blen) ==
  LET buff == StreamBytes(m_nextoff, blen) IN
  /\ Quiescent
  /\ fh = "wr"
  /\ m_nextoff + blen <= MaxLen
  /\ Len(fed) + blen <= MaxFed
  /\ \E result \in WriteResults(blen) : Advance(result, buff)
  /\ fed' = IF m_state THEN fed \o buff ELSE fed
  /\ UNCHANGED <<m_fs, fh, fname, m_state, bufVars, lock, call, histVars>>

\* Another client's HDFS writer extends a file this object does not write.
OtherAppends(p) ==
  /\ ~(fh = "wr" /\ fname = p)
  /\ Len(data[p]) < MaxLen
  /\ data' = [data EXCEPT ![p] = Append(@, Len(@))]
  /\ UNCHANGED <<objVars, bufVars, lock, call, histVars>>
----------------------------------------------------------------------------
(***************************************************************************)
(* Close                                                                   *)
(***************************************************************************)

\* hdfsCloseFile, outside the mutex; fh is NULL afterwards either way.
CloseHandle(t) ==
  /\ call[t].pc = "idle"
  /\ fname # NULL
  /\ \A u \in Threads : call[u].pc # "closing"
  /\ \E good \in IF fh = "none" THEN {TRUE} ELSE BOOLEAN :
       /\ call' = [call EXCEPT ![t] = Call("closing", 0, 0, 0, NewOut, good)]
       /\ closed' = IF good /\ fh = "wr"
                    THEN [closed EXCEPT ![fname] = {data[fname]}] ELSE closed
  /\ fh' = "none"
  /\ UNCHANGED <<data, m_fs, fname, m_nextoff, m_state, fed, bufVars, lock,
                 opens, handed>>

\* Mutant: the result of hdfsCloseFile is not looked at.
RecordsAlways(t) == m_state

\* "Only write checksum file if close() was successful"
Records(t) == m_state /\ call[t].ok

\* The rest of Close: free readbuf under the mutex, then finalise the digests
\* and hand them to the checksum manager if hdfsCloseFile succeeded.
CloseRest(t) ==
  /\ call[t].pc = "closing"
  /\ lock = NULL
  /\ readbuf_size' = 0
  /\ readbuf_offset' = IF readbuf_size > 0 THEN 0 ELSE readbuf_offset
  /\ readbuf_len' = IF readbuf_size > 0 THEN 0 ELSE readbuf_len
  /\ handed' = IF Records(t)
               THEN [handed EXCEPT ![fname] = {fed}] ELSE handed
  /\ m_state' = FALSE
  /\ fed' = << >>
  /\ fname' = NULL
  /\ call' = [call EXCEPT ![t] = Idle]
  /\ UNCHANGED <<data, m_fs, fh, m_nextoff, readbuf, lock, opens, closed>>
----------------------------------------------------------------------------
ReadCall(t, offset, blen) ==
  \/ ReadBypass(t, offset, blen)
  \/ ReadHit(t, offset, blen)
  \/ ReadMiss(t, offset, blen)

Next ==
  \/ Destroy
  \/ \E path \in Paths : OpenFails(path)
  \/ \E path \in Paths, mode \in OpenModes : OpenSucceeds(path, mode)
  \/ \E t \in Threads, offset \in 0 .. MaxLen, blen \in 0 .. MaxBlen :
       ReadCall(t, offset, blen)
  \/ \E t \in Threads : ReadLoad(t)
  \/ \E t \in Threads : ReadFinish(t)
  \/ \E t \in Threads : ReadError(t)
  \/ \E t \in Threads : Return(t)
  \/ \E blen \in 0 .. MaxBlen : Write(blen)
  \/ \E p \in Paths : OtherAppends(p)
  \/ \E t \in Threads : CloseHandle(t)
  \/ \E t \in Threads : CloseRest(t)

Spec == Init /\ [][Next]_vars

\* A thread in the load loop goes on: hdfsPread returns, and fails if the
\* handle is closed under it.  Nobody has to call, and no error has to come.
LoadGoesOn(t) == ReadLoad(t) \/ ReadFinish(t) \/ (fh # "rd" /\ ReadError(t))

FairSpec == Spec /\ \A t \in Threads : WF_vars(LoadGoesOn(t))
----------------------------------------------------------------------------
(***************************************************************************)
(* Properties                                                              *)
(***************************************************************************)

CallRecord ==
  [pc : {"idle", "load", "done", "closing"},
   off : 0 .. MaxLen, blen : 0 .. MaxBlen, nbytes : Nat,
   out : [0 .. (MaxBlen - 1) -> Nat \cup {Junk}], ok : BOOLEAN]

\* Every variable has its type.
TypeOK ==
  /\ data \in [Paths -> Seq(Nat)]
  /\ m_fs \in BOOLEAN
  /\ fh \in {"none", "rd", "wr"}
  /\ fname \in Paths \cup {NULL}
  /\ m_nextoff \in Nat
  /\ readbuf \in [Cells -> Nat \cup {Junk}]
  /\ readbuf_size \in {0, BufSize}
  /\ readbuf_offset \in Nat
  /\ readbuf_len \in Nat
  /\ m_state \in BOOLEAN
  /\ fed \in Seq(Nat)
  /\ lock \in Threads \cup {NULL}
  /\ call \in [Threads -> CallRecord]
  /\ opens \in Nat
  /\ handed \in [Paths -> SUBSET Seq(Nat)]
  /\ closed \in [Paths -> SUBSET Seq(Nat)]

\* Position p of the file whose name the object holds contains byte b.
Holds(p, b) ==
  /\ fname # NULL
  /\ p < Len(data[fname])
  /\ b = data[fname][p + 1]

\* The valid part of readbuf is always a copy of the file at readbuf_offset:
\* after hits, partial hits, short reads, failed loads (Read returns from the
\* middle of the loop), a racing Close and a new Open.
BufferCoherent ==
  \A i \in Cells : i < readbuf_len => Holds(readbuf_offset + i, readbuf[i])

\* A Read that returns n bytes has put into the caller's buffer the n bytes of
\* the file at the offset asked for, whichever mix of buffer and HDFS they
\* came from and whatever the other threads did meanwhile.
ReadDelivers ==
  [][\A t \in Threads :
       (call[t].pc # "done" /\ call'[t].pc = "done" /\ call'[t].ok)
         => /\ call'[t].nbytes <= call'[t].blen
            /\ \A i \in 0 .. (call'[t].nbytes - 1) :
                 Holds(call'[t].off + i, call'[t].out[i])]_vars

\* A buffered Read returns fewer bytes than asked only at the end of the file
\* ("loop in case of short reads").
ShortReadMeansEOF ==
  [][\A t \in Threads :
       (call[t].pc = "load" /\ call'[t].pc = "done" /\ call'[t].ok /\ fh = "rd")
         => \/ call'[t].nbytes = call'[t].blen
            \/ call'[t].off + call'[t].nbytes >= Len(data[fname])]_vars

\* A Read that entered the load loop, and holds the mutex all the while, comes
\* out of it: at the end of the file, when the buffer is full, when hdfsPread
\* delivers one byte at a time, when the file grows under it, and when a Close
\* takes the handle away.
ReadReturns ==
  \A t \in Threads : call[t].pc = "load" ~> call[t].pc # "load"

\* "at least readbuf is protected by a mutex" (XrdHdfs.hh): while one thread
\* is loading the buffer, no step of a Read or a Close of another changes it.
ReadbufProtected ==
  [][\A t, u \in Threads :
       (t # u /\ call[t].pc = "load" /\ call'[u] # call[u])
         => UNCHANGED bufVars]_vars

\* While a file is being written, and until a Write fails or comes short (the
\* digests are then fed more bytes than m_nextoff counts), the digests have run
\* over the file, from its first byte on.
DigestFollowsFile ==
  (fh = "wr" /\ m_state /\ Len(fed) = m_nextoff) => fed = data[fname]

\* Every byte is at the offset its client wrote it to (Write refuses
\* out-of-order offsets, HDFS files being append-only).
WriteLandsAtOffset ==
  \A p \in Paths : \A i \in 1 .. Len(data[p]) : data[p][i] = i - 1

\* "Only write checksum file if close() was successful": a digest given to the
\* checksum manager belongs to a file HDFS closed, and if it is as long as
\* that file it is the digest of that file.
RecordedWasClosed ==
  \A p \in Paths : \A d \in handed[p] :
    /\ closed[p] # {}
    /\ (\A t \in Threads : call[t].pc # "closing") =>
         \A c \in closed[p] : Len(d) = Len(c) => d = c
============================================================================
