-------------------------- MODULE XrdHdfsFileProofs --------------------------
(***************************************************************************)
(* XrdHdfsFile for any number of threads, any buffer and any file: the     *)
(* invariant that makes the buffer a copy of the file, that every Read     *)
(* delivers the bytes of the file, that Write puts them where they belong  *)
(* and that Close records digests of what was closed.                      *)
(***************************************************************************)
EXTENDS XrdHdfsFile, TLAPS

\* The thread that loads the buffer is the one that holds readbuf_mutex.
LockHeld == \A t \in Threads : call[t].pc = "load" <=> lock = t

\* The valid part fits the buffer, so a freed buffer has none.
LenFits == readbuf_len <= readbuf_size

\* A Read that is loading has delivered the beginning of its request, the
\* buffer is positioned at the first byte still missing, and it is as large as
\* the request.
PartialDelivered ==
  \A t \in Threads : call[t].pc = "load" =>
    /\ fname # NULL
    /\ call[t].nbytes <= call[t].blen
    /\ call[t].blen <= readbuf_size
    /\ readbuf_offset = call[t].off + call[t].nbytes
    /\ \A i \in 0 .. (call[t].nbytes - 1) : Holds(call[t].off + i, call[t].out[i])

\* The inductive invariant.
Inv ==
  /\ TypeOK
  /\ LockHeld
  /\ LenFits
  /\ BufferCoherent
  /\ PartialDelivered

USE ThreadsAssumption, PathsAssumption, ModesAssumption, BoundsAssumption
----------------------------------------------------------------------------
(***************************************************************************)
(* The helpers                                                             *)
(***************************************************************************)

\* The bytes of a Write are bytes.
LEMMA StreamType ==
  ASSUME NEW o \in Nat, NEW n \in Nat
  PROVE  StreamBytes(o, n) \in Seq(Nat) /\ Len(StreamBytes(o, n)) = n
BY DEF StreamBytes

\* What memcpy out of a buffer leaves in the destination.
LEMMA MemcpyType ==
  ASSUME NEW D, NEW dst \in [D -> Nat \cup {Junk}], D \subseteq Int,
         NEW src \in [Cells -> Nat \cup {Junk}],
         NEW d \in Nat, NEW s \in Int, NEW n \in Nat,
         n > 0 => s >= 0 /\ s + n <= BufSize
  PROVE  Memcpy(dst, d, src, s, n) \in [D -> Nat \cup {Junk}]
<1> SUFFICES ASSUME NEW i \in D, d <= i, i < d + n
             PROVE  src[s + i - d] \in Nat \cup {Junk}
  BY DEF Memcpy
<1>1. s + i - d \in Cells
  BY DEF Cells
<1>2. QED BY <1>1

\* What hdfsPread leaves in the destination.
LEMMA PreadType ==
  ASSUME NEW D, NEW dst \in [D -> Nat \cup {Junk}], D \subseteq Int,
         data \in [Paths -> Seq(Nat)], fname \in Paths,
         NEW d \in Nat, NEW offset \in Nat, NEW n \in Nat,
         n > 0 => offset + n <= Len(data[fname])
  PROVE  PreadInto(dst, d, offset, n) \in [D -> Nat \cup {Junk}]
<1> SUFFICES ASSUME NEW i \in D, d <= i, i < d + n
             PROVE  data[fname][offset + (i - d) + 1] \in Nat \cup {Junk}
  BY DEF PreadInto
<1>1. offset + (i - d) + 1 \in 1 .. Len(data[fname])
  OBVIOUS
<1>2. data[fname] \in Seq(Nat)
  OBVIOUS
<1>3. QED BY <1>1, <1>2

\* hdfsPread delivers bytes of the file it reads, and no more than it was
\* asked for.
LEMMA PreadBounds ==
  ASSUME NEW offset \in Nat, NEW want \in Nat, data \in [Paths -> Seq(Nat)],
         fname \in Paths, NEW n \in PreadCounts(offset, want)
  PROVE  /\ n \in Nat /\ n <= want
         /\ n > 0 => offset + n <= Len(data[fname])
         /\ n = 0 => offset >= Len(data[fname])
<1>1. Len(data[fname]) \in Nat
  OBVIOUS
<1>2. QED BY <1>1 DEF PreadCounts, Least

\* Every file is what it was, or longer.
Extends ==
  \A p \in Paths :
    /\ Len(data[p]) <= Len(data'[p])
    /\ \A i \in 1 .. Len(data[p]) : data'[p][i] = data[p][i]

\* A call built from parts of the right types has its type.
LEMMA CallType ==
  ASSUME NEW pc \in {"idle", "load", "done", "closing"},
         NEW off \in 0 .. MaxLen, NEW blen \in 0 .. MaxBlen, NEW nbytes \in Nat,
         NEW out \in [0 .. (MaxBlen - 1) -> Nat \cup {Junk}], NEW ok \in BOOLEAN
  PROVE  Call(pc, off, blen, nbytes, out, ok) \in CallRecord
BY DEF Call, CallRecord

\* The caller's buffer before a Read, and a thread that executes nothing.
LEMMA IdleType ==
  /\ NewOut \in [0 .. (MaxBlen - 1) -> Nat \cup {Junk}]
  /\ Idle \in CallRecord /\ Idle.pc = "idle"
<1>1. NewOut \in [0 .. (MaxBlen - 1) -> Nat \cup {Junk}]
  BY DEF NewOut
<1>2. Idle \in CallRecord
  <2>1. 0 \in 0 .. MaxLen /\ 0 \in 0 .. MaxBlen /\ 0 \in Nat
    OBVIOUS
  <2>2. QED BY <1>1, <2>1 DEF Idle, Call, CallRecord
<1>3. Idle.pc = "idle"
  BY DEF Idle, Call
<1>4. QED BY <1>1, <1>2, <1>3

\* The parts of the invariant when a step leaves the file and the buffer alone
\* and no thread starts or goes on loading but the ones that were.
LEMMA NoLoadStep ==
  ASSUME Inv, UNCHANGED <<data, fname, bufVars>>,
         \A t \in Threads : call'[t].pc = "load" => call'[t] = call[t]
  PROVE  LenFits' /\ BufferCoherent' /\ PartialDelivered'
<1>1. LenFits' /\ BufferCoherent'
  BY DEF Inv, bufVars, LenFits, BufferCoherent, Holds
<1>2. PartialDelivered'
  BY DEF Inv, bufVars, PartialDelivered, Holds
<1>3. QED BY <1>1, <1>2

\* What ReadDelivers asks of a call that is done.
Delivers(r) ==
  r.ok => /\ r.nbytes <= r.blen
          /\ \A i \in 0 .. (r.nbytes - 1) : Holds(r.off + i, r.out[i])

\* A Read that is done in one step, or whose thread ends the loop: its own
\* call changes, and the mutex is free afterwards.
LEMMA DoneStep ==
  ASSUME Inv, NEW t \in Threads, NEW r \in CallRecord, r.pc = "done", Delivers(r),
         call' = [call EXCEPT ![t] = r],
         lock \in {NULL, t}, lock' = NULL,
         UNCHANGED <<data, objVars, bufVars, histVars>>
  PROVE  Inv' /\ Delivers(call'[t])
<1>1. TypeOK'
  BY DEF Inv, TypeOK, objVars, bufVars, histVars
<1>2. LockHeld'
  BY DEF Inv, TypeOK, LockHeld
<1>3. \A u \in Threads : call'[u].pc = "load" => call'[u] = call[u]
  BY DEF Inv, TypeOK
<1>4. LenFits' /\ BufferCoherent' /\ PartialDelivered'
  BY <1>3, NoLoadStep DEF objVars
<1>5. call'[t] = r
  BY DEF Inv, TypeOK
<1>6. QED BY <1>1, <1>2, <1>4, <1>5 DEF Inv
----------------------------------------------------------------------------
(***************************************************************************)
(* The invariant                                                           *)
(***************************************************************************)

\* A new object satisfies the invariant.
LEMMA InitInv == Init => Inv
<1> SUFFICES ASSUME Init PROVE Inv
  OBVIOUS
<1>1. data \in [Paths -> Seq(Nat)]
  <2>1. \A n \in 0 .. MaxLen : StreamBytes(0, n) \in Seq(Nat)
    BY StreamType
  <2>2. QED BY <2>1 DEF Init
<1>2. TypeOK
  <2>1. /\ readbuf \in [Cells -> Nat \cup {Junk}]
        /\ call \in [Threads -> CallRecord]
    BY IdleType DEF Init
  <2>2. handed \in [Paths -> SUBSET Seq(Nat)] /\ closed \in [Paths -> SUBSET Seq(Nat)]
    BY DEF Init
  <2>3. fed \in Seq(Nat)
    BY DEF Init
  <2>4. QED BY <1>1, <2>1, <2>2, <2>3 DEF Init, Constructed, TypeOK
<1>3. LockHeld /\ PartialDelivered
  BY IdleType DEF Init, LockHeld, PartialDelivered
<1>4. LenFits /\ BufferCoherent
  BY DEF Init, Constructed, LenFits, BufferCoherent, Cells
<1>5. QED BY <1>2, <1>3, <1>4 DEF Inv

\* Nobody is loading while the object is quiescent.
LEMMA QuiescentUnlocked ==
  ASSUME Inv, Quiescent PROVE lock = NULL
BY DEF Inv, TypeOK, LockHeld, Quiescent

\* Destruction and construction.
LEMMA DestroyInv == Inv /\ Destroy => Inv'
<1> SUFFICES ASSUME Inv, Destroy PROVE Inv'
  OBVIOUS
<1>1. TypeOK'
  <2>1. readbuf' \in [Cells -> Nat \cup {Junk}] /\ fed' \in Seq(Nat)
    BY DEF Destroy
  <2>2. QED BY <2>1 DEF Inv, TypeOK, Destroy, Constructed
<1>2. LockHeld' /\ PartialDelivered'
  BY DEF Inv, LockHeld, PartialDelivered, Destroy, Quiescent
<1>3. LenFits' /\ BufferCoherent'
  BY DEF Destroy, Constructed, LenFits, BufferCoherent, Cells
<1>4. QED BY <1>1, <1>2, <1>3 DEF Inv

\* What every Open does to the invariant but for data and the handle.
LEMMA PrepareOpenInv ==
  ASSUME Inv, NEW path \in Paths, PrepareOpen(path)
  PROVE  /\ fname' \in Paths
         /\ readbuf' \in [Cells -> Nat \cup {Junk}] /\ readbuf_size' \in {0, BufSize}
         /\ readbuf_offset' \in Nat /\ readbuf_len' \in Nat
         /\ LockHeld' /\ LenFits' /\ BufferCoherent' /\ PartialDelivered'
<1>1. /\ fname' \in Paths
      /\ readbuf_offset' \in Nat /\ readbuf_len' = 0
  BY DEF PrepareOpen
<1>2. readbuf' \in [Cells -> Nat \cup {Junk}] /\ readbuf_size' \in {0, BufSize}
  <2>1. CASE readbuf_size > 0
    BY <2>1 DEF Inv, TypeOK, PrepareOpen, AllocateReadbuf
  <2>2. CASE ~(readbuf_size > 0)
    BY <2>2 DEF PrepareOpen, AllocateReadbuf
  <2>3. QED BY <2>1, <2>2
<1>3. LenFits' /\ BufferCoherent'
  BY <1>1, <1>2 DEF LenFits, BufferCoherent, Cells
<1>4. LockHeld' /\ PartialDelivered'
  BY DEF Inv, LockHeld, PartialDelivered, PrepareOpen, Quiescent
<1>5. QED BY <1>1, <1>2, <1>3, <1>4

LEMMA OpenFailsInv ==
  ASSUME Inv, NEW path \in Paths, OpenFails(path) PROVE Inv'
<1>1. PrepareOpen(path)
  BY DEF OpenFails
<1>2. TypeOK'
  <2>1. m_fs' \in BOOLEAN /\ UNCHANGED <<data, fh, m_state, fed, opens>>
    BY DEF OpenFails
  <2>2. UNCHANGED <<m_nextoff, lock, call, handed, closed>>
    BY <1>1 DEF PrepareOpen
  <2>3. QED BY <1>1, <2>1, <2>2, PrepareOpenInv DEF Inv, TypeOK
<1>3. QED BY <1>1, <1>2, PrepareOpenInv DEF Inv

LEMMA OpenSucceedsInv ==
  ASSUME Inv, NEW path \in Paths, NEW mode \in OpenModes, OpenSucceeds(path, mode)
  PROVE  Inv'
<1>1. PrepareOpen(path)
  BY DEF OpenSucceeds
<1>2. data' \in [Paths -> Seq(Nat)] /\ fed' \in Seq(Nat) /\ m_state' \in BOOLEAN
  <2>1. data \in [Paths -> Seq(Nat)] /\ fed \in Seq(Nat) /\ m_state \in BOOLEAN
    BY DEF Inv, TypeOK
  <2>2. << >> \in Seq(Nat)
    OBVIOUS
  <2>3. data' \in [Paths -> Seq(Nat)]
    BY <2>1, <2>2 DEF OpenSucceeds
  <2>4. (m_state' = TRUE /\ fed' = << >>) \/ (m_state' = m_state /\ fed' = fed)
    BY DEF OpenSucceeds
  <2>5. QED BY <2>1, <2>2, <2>3, <2>4
<1>3. fh' \in {"none", "rd", "wr"} /\ m_fs' \in BOOLEAN /\ opens' \in Nat
  BY DEF Inv, TypeOK, OpenSucceeds, OpenFlag
<1>4. TypeOK'
  BY <1>1, <1>2, <1>3, PrepareOpenInv DEF Inv, TypeOK, PrepareOpen
<1>5. QED BY <1>1, <1>4, PrepareOpenInv DEF Inv

\* Requests that need no loop: they change their own call and nothing else.
LEMMA ReadBypassInv ==
  ASSUME Inv, NEW t \in Threads, NEW offset \in 0 .. MaxLen, NEW blen \in 0 .. MaxBlen,
         ReadBypass(t, offset, blen)
  PROVE  Inv' /\ Delivers(call'[t])
<1>1. PICK r \in CallRecord :
        call' = [call EXCEPT ![t] = r] /\ r.pc = "done" /\ Delivers(r)
  <2>0. fname \in Paths /\ data \in [Paths -> Seq(Nat)] /\ offset \in Nat /\ blen \in Nat
    BY DEF Inv, TypeOK, ReadBypass, Enter
  <2>1. ASSUME NEW n \in PreadCounts(offset, blen),
               call' = [call EXCEPT ![t] =
                          Call("done", offset, blen, n, PreadInto(NewOut, 0, offset, n), TRUE)]
        PROVE  \E r \in CallRecord :
                 call' = [call EXCEPT ![t] = r] /\ r.pc = "done" /\ Delivers(r)
    <3> DEFINE out == PreadInto(NewOut, 0, offset, n)
               r == Call("done", offset, blen, n, out, TRUE)
    <3>1. n \in Nat /\ n <= blen /\ (n > 0 => offset + n <= Len(data[fname]))
      BY <2>0, PreadBounds
    <3>2. out \in [0 .. (MaxBlen - 1) -> Nat \cup {Junk}]
      BY <2>0, <3>1, IdleType, PreadType, SMTT(30)
    <3>3. r \in CallRecord
      BY <3>1, <3>2, CallType
    <3>4. ASSUME NEW i \in 0 .. (n - 1) PROVE Holds(offset + i, out[i])
      <4>1. i \in DOMAIN NewOut
        BY <3>1 DEF NewOut
      <4>2. out[i] = data[fname][offset + i + 1]
        BY <2>0, <3>1, <4>1 DEF PreadInto
      <4>3. Len(data[fname]) \in Nat /\ offset + i < Len(data[fname])
        BY <2>0, <3>1
      <4>4. QED BY <2>0, <4>2, <4>3 DEF Holds
    <3> HIDE DEF out
    <3>5. /\ r.pc = "done" /\ r.nbytes = n /\ r.blen = blen /\ r.off = offset /\ r.out = out
      BY DEF Call
    <3> HIDE DEF r
    <3>6. call' = [call EXCEPT ![t] = r]
      BY <2>1 DEF r, out
    <3>7. QED BY <3>1, <3>3, <3>4, <3>5, <3>6 DEF Delivers
  <2>2. ASSUME call' = [call EXCEPT ![t] = Call("done", offset, blen, 0, NewOut, FALSE)]
        PROVE  \E r \in CallRecord :
                 call' = [call EXCEPT ![t] = r] /\ r.pc = "done" /\ Delivers(r)
    <3> DEFINE r == Call("done", offset, blen, 0, NewOut, FALSE)
    <3>1. r \in CallRecord
      BY IdleType, CallType
    <3>2. r.pc = "done" /\ r.ok = FALSE
      BY DEF Call
    <3> HIDE DEF r
    <3>3. call' = [call EXCEPT ![t] = r]
      BY <2>2 DEF r
    <3>4. QED BY <3>1, <3>2, <3>3 DEF Delivers
  <2>3. QED BY <2>1, <2>2 DEF ReadBypass
<1>2. QED BY <1>1, DoneStep DEF ReadBypass, Enter

LEMMA ReadHitInv ==
  ASSUME Inv, NEW t \in Threads, NEW offset \in 0 .. MaxLen, NEW blen \in 0 .. MaxBlen,
         ReadHit(t, offset, blen)
  PROVE  Inv' /\ Delivers(call'[t])
<1> DEFINE s == offset - readbuf_offset
           out == Memcpy(NewOut, 0, readbuf, s, blen)
           r == Call("done", offset, blen, blen, out, TRUE)
<1>1. /\ offset \in Nat /\ blen \in Nat /\ readbuf_offset \in Nat /\ readbuf_len \in Nat
      /\ readbuf \in [Cells -> Nat \cup {Junk}] /\ readbuf_len <= BufSize
  BY DEF Inv, TypeOK, LenFits
<1>2. s \in Int /\ 0 <= s /\ s + blen <= readbuf_len
  BY <1>1 DEF ReadHit, InReadbuf
<1>3. out \in [0 .. (MaxBlen - 1) -> Nat \cup {Junk}]
  BY <1>1, <1>2, IdleType, MemcpyType
<1>4. ASSUME NEW i \in 0 .. (blen - 1) PROVE Holds(offset + i, out[i])
  <2>1. i \in DOMAIN NewOut
    BY <1>1 DEF NewOut
  <2>2. out[i] = readbuf[s + i]
    BY <1>1, <1>2, <2>1 DEF Memcpy
  <2>3. s + i \in Cells /\ s + i < readbuf_len /\ readbuf_offset + (s + i) = offset + i
    BY <1>1, <1>2 DEF Cells
  <2>4. Holds(readbuf_offset + (s + i), readbuf[s + i])
    BY <2>3 DEF Inv, BufferCoherent
  <2>5. QED BY <2>2, <2>3, <2>4
<1>5. r \in CallRecord
  BY <1>1, <1>3, CallType
<1>6. call' = [call EXCEPT ![t] = r]
  BY DEF ReadHit
<1> HIDE DEF out
<1>7. r.pc = "done" /\ Delivers(r)
  BY <1>1, <1>4 DEF Call, Delivers
<1> HIDE DEF r
<1>8. QED BY <1>5, <1>6, <1>7, DoneStep DEF ReadHit, Enter

LEMMA ReadMissInv ==
  ASSUME Inv, NEW t \in Threads, NEW offset \in 0 .. MaxLen, NEW blen \in 0 .. MaxBlen,
         ReadMiss(t, offset, blen)
  PROVE  Inv'
<1> DEFINE s == offset - readbuf_offset
           n == TailHit(offset)
           out == Memcpy(NewOut, 0, readbuf, s, n)
           r == Call("load", offset, blen, n, out, TRUE)
<1>1. /\ offset \in Nat /\ blen \in Nat /\ readbuf_offset \in Nat /\ readbuf_len \in Nat
      /\ readbuf \in [Cells -> Nat \cup {Junk}] /\ readbuf_len <= BufSize
      /\ readbuf_size \in Nat
  BY DEF Inv, TypeOK, LenFits
<1>2. n \in Nat /\ s \in Int /\ (n > 0 => 0 <= s /\ s + n = readbuf_len)
  BY <1>1 DEF TailHit
<1>3. n <= blen
  BY <1>1 DEF ReadMiss, InReadbuf, TailHit
<1> HIDE DEF n
<1>4. out \in [0 .. (MaxBlen - 1) -> Nat \cup {Junk}]
  BY <1>1, <1>2, IdleType, MemcpyType
<1>5. ASSUME NEW i \in 0 .. (n - 1) PROVE Holds(offset + i, out[i])
  <2>1. i \in DOMAIN NewOut
    BY <1>1, <1>2, <1>3 DEF NewOut
  <2>2. out[i] = readbuf[s + i]
    BY <1>1, <1>2, <2>1 DEF Memcpy
  <2>3. s + i \in Cells /\ s + i < readbuf_len /\ readbuf_offset + (s + i) = offset + i
    BY <1>1, <1>2 DEF Cells
  <2>4. Holds(readbuf_offset + (s + i), readbuf[s + i])
    BY <2>3 DEF Inv, BufferCoherent
  <2>5. QED BY <2>2, <2>3, <2>4
<1>6. r \in CallRecord
  BY <1>1, <1>2, <1>4, CallType
<1>7. /\ call' = [call EXCEPT ![t] = r] /\ lock' = t /\ lock = NULL
      /\ readbuf_offset' = offset + n /\ readbuf_len' = 0 /\ fname # NULL
      /\ UNCHANGED <<data, objVars, readbuf, readbuf_size, histVars>>
  BY DEF ReadMiss, Enter, n
<1> HIDE DEF out
<1>8. /\ r.pc = "load" /\ r.nbytes = n /\ r.blen = blen /\ r.off = offset /\ r.out = out
  BY DEF Call
<1> HIDE DEF r
<1>9. TypeOK'
  BY <1>1, <1>2, <1>6, <1>7 DEF Inv, TypeOK, objVars, histVars
<1>10. LockHeld'
  BY <1>7, <1>8 DEF Inv, TypeOK, LockHeld
<1>11. LenFits' /\ BufferCoherent'
  BY <1>1, <1>7 DEF LenFits, BufferCoherent, Cells
<1>12. PartialDelivered'
  <2> SUFFICES ASSUME NEW u \in Threads, call'[u].pc = "load"
               PROVE  (/\ fname # NULL
                       /\ call[u].nbytes <= call[u].blen
                       /\ call[u].blen <= readbuf_size
                       /\ readbuf_offset = call[u].off + call[u].nbytes
                       /\ \A i \in 0 .. (call[u].nbytes - 1) :
                            Holds(call[u].off + i, call[u].out[i]))'
    BY DEF PartialDelivered
  <2>1. u = t
    BY <1>10, <1>7 DEF LockHeld
  <2>2. call'[u] = r
    BY <1>7, <2>1 DEF Inv, TypeOK
  <2>3. UNCHANGED <<fname, data>>
    BY <1>7 DEF objVars
  <2>4. r.blen <= readbuf_size'
    BY <1>7, <1>8 DEF ReadMiss
  <2>5. QED BY <1>3, <1>5, <1>7, <1>8, <2>2, <2>3, <2>4 DEF Holds
<1>13. QED BY <1>9, <1>10, <1>11, <1>12 DEF Inv

\* A turn of the loop: the new bytes follow the ones that are there.
LEMMA ReadLoadInv ==
  ASSUME Inv, NEW t \in Threads, ReadLoad(t) PROVE Inv'
<1> DEFINE at == readbuf_offset + readbuf_len
           want == readbuf_size - readbuf_len
<1>1. /\ readbuf_offset \in Nat /\ readbuf_len \in Nat /\ readbuf_size \in {0, BufSize}
      /\ readbuf \in [Cells -> Nat \cup {Junk}] /\ data \in [Paths -> Seq(Nat)]
      /\ call[t].pc = "load" /\ at \in Nat /\ want \in Nat
      /\ fname \in Paths
  BY DEF Inv, TypeOK, LenFits, PartialDelivered, ReadLoad, Loading
<1>2. PICK n \in PreadCounts(at, want) :
        /\ n > 0
        /\ readbuf' = PreadInto(readbuf, readbuf_len, at, n)
        /\ readbuf_len' = readbuf_len + n
  BY DEF ReadLoad
<1>3. n \in Nat /\ n <= want /\ at + n <= Len(data[fname])
  BY <1>1, <1>2, PreadBounds
<1>4. Cells \subseteq Int
  BY DEF Cells
<1>5. readbuf' \in [Cells -> Nat \cup {Junk}] /\ readbuf_len' \in Nat
  <2>1. readbuf_len' \in Nat
    BY <1>1, <1>2, <1>3
  <2> HIDE DEF at, want
  <2>2. PreadInto(readbuf, readbuf_len, at, n) \in [Cells -> Nat \cup {Junk}]
    BY <1>1, <1>3, <1>4, PreadType
  <2>3. QED BY <1>2, <2>1, <2>2
<1>6. UNCHANGED <<data, objVars, readbuf_size, readbuf_offset, lock, call, histVars>>
  BY DEF ReadLoad
<1>7. TypeOK'
  BY <1>5, <1>6 DEF Inv, TypeOK, objVars, histVars
<1>8. LockHeld' /\ PartialDelivered'
  BY <1>6 DEF Inv, LockHeld, PartialDelivered, Holds, objVars
<1>9. LenFits'
  BY <1>1, <1>2, <1>3, <1>6 DEF LenFits
<1>10. BufferCoherent'
  <2> SUFFICES ASSUME NEW i \in Cells, i < readbuf_len'
               PROVE  Holds(readbuf_offset + i, readbuf'[i])
    BY <1>6 DEF BufferCoherent, Holds, objVars
  <2>1. i \in Nat
    BY DEF Cells
  <2>2. CASE i < readbuf_len
    <3>1. readbuf'[i] = readbuf[i]
      BY <1>1, <1>2, <1>4, <2>2 DEF PreadInto
    <3>2. QED BY <2>2, <3>1 DEF Inv, BufferCoherent
  <2>3. CASE readbuf_len <= i
    <3>1. readbuf'[i] = data[fname][at + (i - readbuf_len) + 1]
      BY <1>1, <1>2, <1>3, <1>4, <2>1, <2>3 DEF PreadInto
    <3>2. at + (i - readbuf_len) = readbuf_offset + i
      BY <1>1, <2>1
    <3>3. readbuf_offset + i < Len(data[fname])
      <4>1. Len(data[fname]) \in Nat
        BY <1>1
      <4>2. QED BY <1>1, <1>2, <1>3, <2>1, <4>1
    <3>4. QED BY <1>1, <3>1, <3>2, <3>3 DEF Holds
  <2>4. QED BY <1>1, <2>1, <2>2, <2>3
<1>11. QED BY <1>7, <1>8, <1>9, <1>10 DEF Inv

\* The end of the loop: what the buffer adds to the request is what follows
\* what the request has got already.
LEMMA ReadFinishInv ==
  ASSUME Inv, NEW t \in Threads, ReadFinish(t)
  PROVE  Inv' /\ Delivers(call'[t])
<1> DEFINE off == call[t].off
           blen == call[t].blen
           nbytes == call[t].nbytes
           old == call[t].out
           m == Least(readbuf_len, blen - nbytes)
           out == Memcpy(old, nbytes, readbuf, 0, m)
           r == Call("done", off, blen, nbytes + m, out, TRUE)
<1>1. /\ readbuf_len \in Nat /\ readbuf_len <= BufSize
      /\ readbuf \in [Cells -> Nat \cup {Junk}]
      /\ call[t] \in CallRecord
  BY DEF Inv, TypeOK, LenFits
<1>2. /\ off \in 0 .. MaxLen /\ blen \in 0 .. MaxBlen /\ nbytes \in Nat
      /\ old \in [0 .. (MaxBlen - 1) -> Nat \cup {Junk}]
  BY <1>1 DEF CallRecord
<1>3. /\ nbytes <= blen /\ readbuf_offset = off + nbytes
      /\ \A i \in 0 .. (nbytes - 1) : Holds(off + i, old[i])
      /\ call[t].pc = "load" /\ lock = t
  BY DEF Inv, PartialDelivered, ReadFinish, Loading
<1>4. m \in Nat /\ m <= readbuf_len /\ nbytes + m <= blen
  BY <1>1, <1>2, <1>3 DEF Least
<1>5. call' = [call EXCEPT ![t] = r] /\ lock' = NULL
  BY DEF ReadFinish
<1> HIDE DEF off, blen, nbytes, old, m
<1>6. out \in [0 .. (MaxBlen - 1) -> Nat \cup {Junk}]
  <2>1. 0 .. (MaxBlen - 1) \subseteq Int /\ (m > 0 => 0 >= 0 /\ 0 + m <= BufSize)
    BY <1>1, <1>4
  <2>2. QED BY <1>1, <1>2, <1>4, <2>1, MemcpyType
<1>7. ASSUME NEW i \in 0 .. (nbytes + m - 1) PROVE Holds(off + i, out[i])
  <2>1. i \in DOMAIN old
    BY <1>2, <1>4
  <2>2. CASE i < nbytes
    <3>1. out[i] = old[i]
      BY <1>2, <2>1, <2>2 DEF Memcpy
    <3>2. i \in 0 .. (nbytes - 1)
      BY <1>2, <1>4, <2>2
    <3>3. QED BY <1>3, <3>1, <3>2
  <2>3. CASE nbytes <= i
    <3>1. out[i] = readbuf[0 + i - nbytes]
      BY <1>2, <1>4, <2>1, <2>3 DEF Memcpy
    <3>2. /\ 0 + i - nbytes \in Cells /\ 0 + i - nbytes < readbuf_len
          /\ readbuf_offset + (0 + i - nbytes) = off + i
      BY <1>1, <1>2, <1>3, <1>4, <2>3 DEF Cells
    <3>3. Holds(readbuf_offset + (0 + i - nbytes), readbuf[0 + i - nbytes])
      BY <3>2 DEF Inv, BufferCoherent
    <3>4. QED BY <3>1, <3>2, <3>3
  <2>4. QED BY <1>2, <1>4, <2>2, <2>3
<1>8. r \in CallRecord
  <2>1. nbytes + m \in Nat
    BY <1>2, <1>4
  <2> HIDE DEF out
  <2>2. QED BY <1>2, <1>6, <2>1, CallType
<1> HIDE DEF out
<1>9. r.pc = "done" /\ Delivers(r)
  <2>1. r.pc = "done" /\ r.off = off /\ r.blen = blen /\ r.nbytes = nbytes + m /\ r.out = out
    BY DEF Call
  <2> HIDE DEF r
  <2>2. \A i \in 0 .. (nbytes + m - 1) : Holds(off + i, out[i])
    BY <1>7
  <2>3. r.nbytes <= r.blen /\ \A i \in 0 .. (r.nbytes - 1) : Holds(r.off + i, r.out[i])
    BY <1>2, <1>4, <2>1, <2>2
  <2>4. QED BY <2>1, <2>3 DEF Delivers
<1> HIDE DEF r
<1>10. QED BY <1>3, <1>5, <1>8, <1>9, DoneStep DEF ReadFinish

\* A failed load.
LEMMA ReadErrorInv ==
  ASSUME Inv, NEW t \in Threads, ReadError(t)
  PROVE  Inv' /\ Delivers(call'[t])
<1> DEFINE c == call[t]
           r == Call("done", c.off, c.blen, c.nbytes, c.out, FALSE)
<1>1. call' = [call EXCEPT ![t] = r] /\ lock = t /\ lock' = NULL
  BY DEF Inv, TypeOK, ReadError, Loading
<1>2. r \in CallRecord
  <2>1. c \in CallRecord
    BY DEF Inv, TypeOK
  <2> HIDE DEF c
  <2>2. /\ c.off \in 0 .. MaxLen /\ c.blen \in 0 .. MaxBlen /\ c.nbytes \in Nat
        /\ c.out \in [0 .. (MaxBlen - 1) -> Nat \cup {Junk}]
    BY <2>1 DEF CallRecord
  <2>3. QED BY <2>2, CallType
<1>3. r.pc = "done" /\ r.ok = FALSE
  BY DEF Call
<1> HIDE DEF r
<1>4. Delivers(r)
  BY <1>3 DEF Delivers
<1>5. QED BY <1>1, <1>2, <1>3, <1>4, DoneStep DEF ReadError

LEMMA ReturnInv ==
  ASSUME Inv, NEW t \in Threads, Return(t) PROVE Inv'
<1>1. TypeOK'
  BY IdleType DEF Inv, TypeOK, Return, objVars, bufVars, histVars
<1>2. LockHeld'
  BY IdleType DEF Inv, TypeOK, LockHeld, Return
<1>3. \A u \in Threads : call'[u].pc = "load" => call'[u] = call[u]
  BY IdleType DEF Inv, TypeOK, Return
<1>4. LenFits' /\ BufferCoherent' /\ PartialDelivered'
  BY <1>3, NoLoadStep DEF Return, objVars
<1>5. QED BY <1>1, <1>2, <1>4 DEF Inv

\* A step that extends files and leaves the name, the buffer and the calls
\* alone keeps every byte that a buffer or a Read has.
LEMMA ExtendStep ==
  ASSUME Inv, data' \in [Paths -> Seq(Nat)], Extends,
         UNCHANGED <<fname, bufVars, lock, call>>
  PROVE  LockHeld' /\ LenFits' /\ BufferCoherent' /\ PartialDelivered'
<1>1. data \in [Paths -> Seq(Nat)] /\ fname \in Paths \cup {NULL} /\ readbuf_offset \in Nat
      /\ call \in [Threads -> CallRecord]
  BY DEF Inv, TypeOK
<1>2. UNCHANGED <<readbuf, readbuf_size, readbuf_offset, readbuf_len>>
  BY DEF bufVars
<1>3. LockHeld' /\ LenFits'
  BY <1>2 DEF Inv, LockHeld, LenFits
<1>4. BufferCoherent'
  <2> SUFFICES ASSUME NEW i \in Cells, i < readbuf_len
               PROVE  Holds(readbuf_offset + i, readbuf[i])'
    BY <1>2 DEF BufferCoherent
  <2>1. Holds(readbuf_offset + i, readbuf[i])
    BY DEF Inv, BufferCoherent
  <2>2. readbuf_offset + i \in Nat
    BY <1>1 DEF Cells
  <2>3. Holds(readbuf_offset + i, readbuf[i])' <=>
          (fname' # NULL /\ readbuf_offset + i < Len(data'[fname'])
             /\ readbuf[i] = data'[fname'][readbuf_offset + i + 1])
    BY <1>2 DEF Holds
  <2>4. fname \in Paths /\ readbuf_offset + i < Len(data[fname])
          /\ readbuf[i] = data[fname][readbuf_offset + i + 1]
    BY <1>1, <2>1 DEF Holds
  <2>5. readbuf_offset + i + 1 \in 1 .. Len(data[fname])
          /\ Len(data[fname]) \in Nat /\ Len(data'[fname]) \in Nat
    BY <1>1, <2>2, <2>4
  <2>6. /\ Len(data[fname]) <= Len(data'[fname])
        /\ data'[fname][readbuf_offset + i + 1] = data[fname][readbuf_offset + i + 1]
    BY <2>4, <2>5 DEF Extends
  <2>7. readbuf_offset + i < Len(data'[fname])
    BY <2>2, <2>4, <2>5, <2>6
  <2>8. QED BY <2>3, <2>4, <2>6, <2>7
<1>5. PartialDelivered'
  <2> SUFFICES ASSUME NEW t \in Threads, call[t].pc = "load",
                      NEW i \in 0 .. (call[t].nbytes - 1)
               PROVE  Holds(call[t].off + i, call[t].out[i])'
    BY <1>2 DEF Inv, PartialDelivered
  <2>1. Holds(call[t].off + i, call[t].out[i])
    BY DEF Inv, PartialDelivered
  <2>2. call[t].off + i \in Nat
    BY <1>1 DEF CallRecord
  <2>3. fname \in Paths /\ call[t].off + i < Len(data[fname])
          /\ call[t].out[i] = data[fname][call[t].off + i + 1]
    BY <1>1, <2>1 DEF Holds
  <2>4. call[t].off + i + 1 \in 1 .. Len(data[fname])
          /\ Len(data[fname]) \in Nat /\ Len(data'[fname]) \in Nat
    BY <1>1, <2>2, <2>3
  <2>5. /\ Len(data[fname]) <= Len(data'[fname])
        /\ data'[fname][call[t].off + i + 1] = data[fname][call[t].off + i + 1]
    BY <2>3, <2>4 DEF Extends
  <2>6. call[t].off + i < Len(data'[fname])
    BY <2>2, <2>3, <2>4, <2>5
  <2>7. QED BY <2>3, <2>5, <2>6 DEF Holds
<1>6. QED BY <1>3, <1>4, <1>5

\* A Write appends to the file.
LEMMA WriteInv ==
  ASSUME Inv, NEW blen \in 0 .. MaxBlen, Write(blen) PROVE Inv'
<1> DEFINE buff == StreamBytes(m_nextoff, blen)
<1>1. data \in [Paths -> Seq(Nat)] /\ fed \in Seq(Nat) /\ m_nextoff \in Nat /\ blen \in Nat
  BY DEF Inv, TypeOK
<1>2. buff \in Seq(Nat) /\ Len(buff) = blen
  BY <1>1, StreamType
<1>3. PICK result \in WriteResults(blen) :
        IF result >= 0
        THEN /\ data' = [data EXCEPT ![fname] = @ \o SubSeq(buff, 1, result)]
             /\ m_nextoff' = m_nextoff + result
        ELSE UNCHANGED <<data, m_nextoff>>
  BY DEF Write, Advance
<1>4. result \in Int /\ result <= blen
  BY <1>1 DEF WriteResults
<1>5. /\ UNCHANGED <<m_fs, fh, fname, m_state, bufVars, lock, call, histVars>>
      /\ fed' = fed \o buff \/ fed' = fed
  BY DEF Write
<1> HIDE DEF buff
<1>6. data' \in [Paths -> Seq(Nat)] /\ Extends /\ m_nextoff' \in Nat
  <2>1. CASE result >= 0
    <3> DEFINE new == SubSeq(buff, 1, result)
    <3>1. new \in Seq(Nat) /\ Len(new) \in Nat
      BY <1>2, <1>4, <2>1
    <3>2. data' = [data EXCEPT ![fname] = @ \o new] /\ m_nextoff' = m_nextoff + result
      BY <1>3, <2>1
    <3> HIDE DEF new
    <3>3. \A p \in Paths : data'[p] = data[p] \/ data'[p] = data[p] \o new
      BY <1>1, <3>2
    <3>4. \A p \in Paths : data[p] \in Seq(Nat) /\ data[p] \o new \in Seq(Nat)
      BY <1>1, <3>1
    <3>5. data' \in [Paths -> Seq(Nat)]
      BY <1>1, <3>2, <3>3, <3>4
    <3>6. Extends
      BY <3>1, <3>3, <3>4 DEF Extends
    <3>7. QED BY <1>1, <1>4, <2>1, <3>2, <3>5, <3>6
  <2>2. CASE ~(result >= 0)
    BY <1>1, <1>3, <2>2 DEF Extends
  <2>3. QED BY <2>1, <2>2
<1>7. fed' \in Seq(Nat)
  <2>1. fed \o buff \in Seq(Nat)
    BY <1>1, <1>2
  <2>2. QED BY <1>1, <1>5, <2>1
<1>8. TypeOK'
  BY <1>5, <1>6, <1>7 DEF Inv, TypeOK, bufVars, histVars
<1>9. QED BY <1>5, <1>6, <1>8, ExtendStep DEF Inv

\* Another writer appends to a file.
LEMMA OtherAppendsInv ==
  ASSUME Inv, NEW p \in Paths, OtherAppends(p) PROVE Inv'
<1>1. data \in [Paths -> Seq(Nat)]
  BY DEF Inv, TypeOK
<1>2. data' = [data EXCEPT ![p] = Append(data[p], Len(data[p]))]
      /\ UNCHANGED <<objVars, bufVars, lock, call, histVars>>
  BY <1>1 DEF OtherAppends
<1>3. data[p] \in Seq(Nat) /\ Append(data[p], Len(data[p])) \in Seq(Nat)
  BY <1>1
<1>4. data' \in [Paths -> Seq(Nat)]
  BY <1>1, <1>2, <1>3
<1>5. Extends
  <2>1. \A q \in Paths : data[q] \in Seq(Nat) /\ Len(data[q]) \in Nat
    BY <1>1
  <2>2. \A q \in Paths : data'[q] = data[q] \/ data'[q] = Append(data[q], Len(data[q]))
    BY <1>1, <1>2
  <2> SUFFICES ASSUME NEW q \in Paths
               PROVE  /\ Len(data[q]) <= Len(data'[q])
                      /\ \A i \in 1 .. Len(data[q]) : data'[q][i] = data[q][i]
    BY DEF Extends
  <2>3. CASE data'[q] = data[q]
    BY <2>1, <2>3
  <2>4. CASE data'[q] = Append(data[q], Len(data[q]))
    <3> DEFINE s == data[q]
    <3>1. s \in Seq(Nat) /\ Len(s) \in Nat
      BY <2>1
    <3> HIDE DEF s
    <3>2. /\ Len(Append(s, Len(s))) = Len(s) + 1
          /\ \A i \in 1 .. Len(s) : Append(s, Len(s))[i] = s[i]
      BY <3>1
    <3>3. QED BY <2>4, <3>1, <3>2 DEF s
  <2>5. QED BY <2>2, <2>3, <2>4
<1>6. TypeOK'
  BY <1>2, <1>4 DEF Inv, TypeOK, objVars, bufVars, histVars
<1>7. QED BY <1>2, <1>4, <1>5, <1>6, ExtendStep DEF Inv, objVars

LEMMA CloseHandleInv ==
  ASSUME Inv, NEW t \in Threads, CloseHandle(t) PROVE Inv'
<1>1. PICK good \in BOOLEAN :
        /\ call' = [call EXCEPT ![t] = Call("closing", 0, 0, 0, NewOut, good)]
        /\ closed' = closed \/ closed' = [closed EXCEPT ![fname] = {data[fname]}]
  <2>1. PICK good \in IF fh = "none" THEN {TRUE} ELSE BOOLEAN :
          /\ call' = [call EXCEPT ![t] = Call("closing", 0, 0, 0, NewOut, good)]
          /\ closed' = IF good /\ fh = "wr"
                       THEN [closed EXCEPT ![fname] = {data[fname]}] ELSE closed
    BY DEF CloseHandle
  <2>2. good \in BOOLEAN
    OBVIOUS
  <2>3. QED BY <2>1, <2>2
<1> DEFINE r == Call("closing", 0, 0, 0, NewOut, good)
<1>2. r \in CallRecord
  BY IdleType, CallType
<1>3. r.pc = "closing"
  BY DEF Call
<1> HIDE DEF r
<1>4. /\ call[t].pc = "idle" /\ fname # NULL /\ fh' = "none"
      /\ UNCHANGED <<data, m_fs, fname, m_nextoff, m_state, fed, bufVars, lock,
                     opens, handed>>
  BY DEF CloseHandle
<1>5. call' = [call EXCEPT ![t] = r]
  BY <1>1 DEF r
<1>6. closed' \in [Paths -> SUBSET Seq(Nat)]
  <2>1. /\ closed \in [Paths -> SUBSET Seq(Nat)]
        /\ {data[fname]} \in SUBSET Seq(Nat)
    BY <1>4 DEF Inv, TypeOK
  <2>2. QED BY <1>1, <2>1
<1>7. TypeOK'
  BY <1>2, <1>4, <1>5, <1>6 DEF Inv, TypeOK, bufVars
<1>8. LockHeld'
  BY <1>3, <1>4, <1>5 DEF Inv, TypeOK, LockHeld
<1>9. \A u \in Threads : call'[u].pc = "load" => call'[u] = call[u]
  BY <1>3, <1>5 DEF Inv, TypeOK
<1>10. LenFits' /\ BufferCoherent' /\ PartialDelivered'
  BY <1>4, <1>9, NoLoadStep
<1>11. QED BY <1>7, <1>8, <1>10 DEF Inv

\* Close frees the buffer only when nobody is loading it.
LEMMA CloseRestInv ==
  ASSUME Inv, NEW t \in Threads, CloseRest(t) PROVE Inv'
<1>1. /\ lock = NULL /\ lock' = NULL /\ readbuf_size' = 0 /\ call' = [call EXCEPT ![t] = Idle]
      /\ fname' = NULL /\ m_state' = FALSE /\ fed' = << >>
      /\ UNCHANGED <<data, m_fs, fh, m_nextoff, readbuf, opens, closed>>
  BY DEF CloseRest
<1>2. readbuf_len' = 0 /\ readbuf_offset' \in Nat
  BY DEF Inv, TypeOK, LenFits, CloseRest
<1>3. handed' \in [Paths -> SUBSET Seq(Nat)]
  <2>1. handed' = handed \/ handed' = [handed EXCEPT ![fname] = {fed}]
    BY DEF CloseRest
  <2>2. handed \in [Paths -> SUBSET Seq(Nat)] /\ {fed} \in SUBSET Seq(Nat)
    BY DEF Inv, TypeOK
  <2>3. QED BY <2>1, <2>2
<1>4. TypeOK'
  <2>1. fed' \in Seq(Nat)
    BY <1>1
  <2>2. call' \in [Threads -> CallRecord]
    BY <1>1, IdleType DEF Inv, TypeOK
  <2>3. QED BY <1>1, <1>2, <1>3, <2>1, <2>2 DEF Inv, TypeOK
<1>5. \A u \in Threads : call'[u].pc # "load"
  BY <1>1, IdleType DEF Inv, TypeOK, LockHeld
<1>6. LockHeld' /\ PartialDelivered'
  BY <1>1, <1>5 DEF LockHeld, PartialDelivered
<1>7. LenFits' /\ BufferCoherent'
  BY <1>1, <1>2 DEF LenFits, BufferCoherent, Cells
<1>8. QED BY <1>4, <1>6, <1>7 DEF Inv

\* Every step keeps the invariant.
LEMMA NextInv == Inv /\ [Next]_vars => Inv'
<1> SUFFICES ASSUME Inv, [Next]_vars PROVE Inv'
  OBVIOUS
<1>1. CASE Destroy
  BY <1>1, DestroyInv
<1>2. ASSUME NEW path \in Paths, OpenFails(path) PROVE Inv'
  BY <1>2, OpenFailsInv
<1>3. ASSUME NEW path \in Paths, NEW mode \in OpenModes, OpenSucceeds(path, mode) PROVE Inv'
  BY <1>3, OpenSucceedsInv
<1>4. ASSUME NEW t \in Threads, NEW offset \in 0 .. MaxLen, NEW blen \in 0 .. MaxBlen,
             ReadCall(t, offset, blen)
      PROVE  Inv'
  BY <1>4, ReadBypassInv, ReadHitInv, ReadMissInv DEF ReadCall
<1>5. ASSUME NEW t \in Threads, ReadLoad(t) \/ ReadFinish(t) \/ ReadError(t) \/ Return(t)
      PROVE  Inv'
  BY <1>5, ReadLoadInv, ReadFinishInv, ReadErrorInv, ReturnInv
<1>6. ASSUME NEW blen \in 0 .. MaxBlen, Write(blen) PROVE Inv'
  BY <1>6, WriteInv
<1>7. ASSUME NEW p \in Paths, OtherAppends(p) PROVE Inv'
  BY <1>7, OtherAppendsInv
<1>8. ASSUME NEW t \in Threads, CloseHandle(t) \/ CloseRest(t) PROVE Inv'
  BY <1>8, CloseHandleInv, CloseRestInv
<1>9. CASE UNCHANGED vars
  BY <1>9 DEF Inv, TypeOK, LockHeld, LenFits, BufferCoherent, PartialDelivered, Holds,
              vars, objVars, bufVars, histVars
<1>10. QED BY <1>1, <1>2, <1>3, <1>4, <1>5, <1>6, <1>7, <1>8, <1>9 DEF Next
----------------------------------------------------------------------------
(***************************************************************************)
(* The theorems                                                            *)
(***************************************************************************)

\* The invariant holds in every reachable state, whatever the threads, the
\* buffer size, the files and the results of libhdfs.
THEOREM InvHolds == Spec => []Inv
BY InitInv, NextInv, PTL DEF Spec

\* Every variable keeps its type through every call, every failure included.
THEOREM TypeCorrect == Spec => []TypeOK
<1>1. Inv => TypeOK
  BY DEF Inv
<1>2. QED BY <1>1, InvHolds, PTL

\* The valid part of readbuf is a copy of the file at readbuf_offset through
\* Open, Read's hits, misses, short and failed loads, and a racing Close.
THEOREM BufferIsCopy == Spec => []BufferCoherent
<1>1. Inv => BufferCoherent
  BY DEF Inv
<1>2. QED BY <1>1, InvHolds, PTL

\* What a step that completes a Read has delivered.
ReadDeliversStep ==
  \A t \in Threads :
    (call[t].pc # "done" /\ call'[t].pc = "done" /\ call'[t].ok)
      => /\ call'[t].nbytes <= call'[t].blen
         /\ \A i \in 0 .. (call'[t].nbytes - 1) :
              Holds(call'[t].off + i, call'[t].out[i])

\* A step that changes the call of t alone, and not to "done" unless it
\* delivers, satisfies ReadDelivers.
LEMMA OneCallStep ==
  ASSUME Inv, NEW t \in Threads, NEW r, call' = [call EXCEPT ![t] = r],
         r.pc = "done" => Delivers(call'[t])
  PROVE  ReadDeliversStep
BY DEF Inv, TypeOK, ReadDeliversStep, Delivers

\* Every step delivers what it completes.
LEMMA NextDelivers == Inv /\ [Next]_vars => ReadDeliversStep
<1> SUFFICES ASSUME Inv, [Next]_vars PROVE ReadDeliversStep
  OBVIOUS
<1>0. ASSUME UNCHANGED call PROVE ReadDeliversStep
  BY <1>0 DEF ReadDeliversStep
<1>1. CASE Destroy
  BY <1>0, <1>1 DEF Destroy
<1>2. ASSUME NEW path \in Paths, OpenFails(path) PROVE ReadDeliversStep
  BY <1>0, <1>2 DEF OpenFails, PrepareOpen
<1>3. ASSUME NEW path \in Paths, NEW mode \in OpenModes, OpenSucceeds(path, mode)
      PROVE  ReadDeliversStep
  BY <1>0, <1>3 DEF OpenSucceeds, PrepareOpen
<1>4. ASSUME NEW t \in Threads, NEW offset \in 0 .. MaxLen, NEW blen \in 0 .. MaxBlen,
             ReadBypass(t, offset, blen)
      PROVE  ReadDeliversStep
  BY <1>4, ReadBypassInv, OneCallStep DEF ReadBypass
<1>5. ASSUME NEW t \in Threads, NEW offset \in 0 .. MaxLen, NEW blen \in 0 .. MaxBlen,
             ReadHit(t, offset, blen)
      PROVE  ReadDeliversStep
  BY <1>5, ReadHitInv, OneCallStep DEF ReadHit
<1>6. ASSUME NEW t \in Threads, NEW offset \in 0 .. MaxLen, NEW blen \in 0 .. MaxBlen,
             ReadMiss(t, offset, blen)
      PROVE  ReadDeliversStep
  <2> DEFINE n == TailHit(offset)
             r == Call("load", offset, blen, n,
                       Memcpy(NewOut, 0, readbuf, offset - readbuf_offset, n), TRUE)
  <2>1. call' = [call EXCEPT ![t] = r]
    BY <1>6 DEF ReadMiss
  <2>2. r.pc = "load"
    BY DEF Call
  <2> HIDE DEF r
  <2>3. QED BY <2>1, <2>2, OneCallStep
<1>7. ASSUME NEW t \in Threads, ReadLoad(t) PROVE ReadDeliversStep
  BY <1>0, <1>7 DEF ReadLoad
<1>8. ASSUME NEW t \in Threads, ReadFinish(t) PROVE ReadDeliversStep
  BY <1>8, ReadFinishInv, OneCallStep DEF ReadFinish
<1>9. ASSUME NEW t \in Threads, ReadError(t) PROVE ReadDeliversStep
  <2>1. PICK r : call' = [call EXCEPT ![t] = r]
    BY <1>9 DEF ReadError
  <2>2. QED BY <1>9, <2>1, ReadErrorInv, OneCallStep
<1>10. ASSUME NEW t \in Threads, Return(t) \/ CloseRest(t) PROVE ReadDeliversStep
  <2>1. call' = [call EXCEPT ![t] = Idle]
    BY <1>10 DEF Return, CloseRest
  <2>2. QED BY <2>1, IdleType, OneCallStep
<1>11. ASSUME NEW blen \in 0 .. MaxBlen, Write(blen) PROVE ReadDeliversStep
  BY <1>0, <1>11 DEF Write
<1>12. ASSUME NEW p \in Paths, OtherAppends(p) PROVE ReadDeliversStep
  BY <1>0, <1>12 DEF OtherAppends
<1>13. ASSUME NEW t \in Threads, CloseHandle(t) PROVE ReadDeliversStep
  <2>1. PICK good : call' = [call EXCEPT ![t] = Call("closing", 0, 0, 0, NewOut, good)]
    BY <1>13 DEF CloseHandle
  <2> DEFINE r == Call("closing", 0, 0, 0, NewOut, good)
  <2>2. r.pc = "closing"
    BY DEF Call
  <2>3. call' = [call EXCEPT ![t] = r]
    BY <2>1
  <2> HIDE DEF r
  <2>4. QED BY <2>2, <2>3, OneCallStep
<1>14. CASE UNCHANGED vars
  BY <1>0, <1>14 DEF vars
<1>15. QED
  BY <1>1, <1>2, <1>3, <1>4, <1>5, <1>6, <1>7, <1>8, <1>9, <1>10, <1>11, <1>12, <1>13, <1>14
     DEF Next, ReadCall

\* Every Read that returns n bytes returns the n bytes of the file at its
\* offset, for any number of threads that read, close and fail meanwhile.
THEOREM ReadIsCorrect == Spec => ReadDelivers
<1>1. Inv /\ [Next]_vars => [ReadDeliversStep]_vars
  BY NextDelivers
<1>2. QED BY <1>1, InvHolds, PTL DEF Spec, ReadDelivers, ReadDeliversStep

\* What ReadbufProtected and ShortReadMeansEOF ask of one step.
ProtectedStep ==
  \A t, u \in Threads :
    (t # u /\ call[t].pc = "load" /\ call'[u] # call[u]) => UNCHANGED bufVars

ShortStep ==
  \A t \in Threads :
    (call[t].pc = "load" /\ call'[t].pc = "done" /\ call'[t].ok /\ fh = "rd")
      => \/ call'[t].nbytes = call'[t].blen
         \/ call'[t].off + call'[t].nbytes >= Len(data[fname])

\* A step changes no call, or not the buffer, or nobody is loading.
LEMMA NextProtects == Inv /\ [Next]_vars => ProtectedStep
<1> SUFFICES ASSUME Inv, [Next]_vars,
                    NEW t \in Threads, NEW u \in Threads, t # u,
                    call[t].pc = "load", call'[u] # call[u]
             PROVE  UNCHANGED bufVars
  BY DEF ProtectedStep
<1>1. lock = t /\ lock # NULL /\ ~Quiescent
  BY DEF Inv, LockHeld, Quiescent
<1>2. CASE Destroy
  BY <1>1, <1>2 DEF Destroy
<1>3. ASSUME NEW path \in Paths, PrepareOpen(path) PROVE FALSE
  BY <1>1, <1>3 DEF PrepareOpen
<1>4. ASSUME NEW v \in Threads, NEW offset \in 0 .. MaxLen, NEW blen \in 0 .. MaxBlen,
             ReadCall(v, offset, blen)
      PROVE  FALSE
  BY <1>1, <1>4 DEF ReadCall, ReadBypass, ReadHit, ReadMiss, Enter
<1>5. ASSUME NEW v \in Threads, ReadLoad(v) \/ ReadFinish(v) \/ ReadError(v) \/ Return(v)
      PROVE  UNCHANGED bufVars
  BY <1>5 DEF ReadLoad, ReadFinish, ReadError, Return
<1>6. ASSUME NEW blen \in 0 .. MaxBlen, Write(blen) PROVE FALSE
  BY <1>1, <1>6 DEF Write
<1>7. ASSUME NEW p \in Paths, OtherAppends(p) PROVE UNCHANGED bufVars
  BY <1>7 DEF OtherAppends
<1>8. ASSUME NEW v \in Threads, CloseHandle(v) \/ CloseRest(v) PROVE UNCHANGED bufVars
  BY <1>1, <1>8 DEF CloseHandle, CloseRest
<1>9. CASE UNCHANGED vars
  BY <1>9 DEF vars
<1>10. QED BY <1>2, <1>3, <1>4, <1>5, <1>6, <1>7, <1>8, <1>9 DEF Next, OpenFails, OpenSucceeds

\* The loop ends with the request satisfied or at the end of the file.
LEMMA FinishShort ==
  ASSUME Inv, NEW t \in Threads, ReadFinish(t), fh = "rd"
  PROVE  \/ call'[t].nbytes = call'[t].blen
         \/ call'[t].off + call'[t].nbytes >= Len(data[fname])
<1> DEFINE nbytes == call[t].nbytes
           blen == call[t].blen
           off == call[t].off
           m == Least(readbuf_len, blen - nbytes)
<1>1. /\ readbuf_len \in Nat /\ readbuf_size \in Nat /\ readbuf_offset \in Nat
      /\ call[t] \in CallRecord /\ data \in [Paths -> Seq(Nat)]
      /\ call \in [Threads -> CallRecord]
      /\ readbuf_len <= readbuf_size
  BY DEF Inv, TypeOK, LenFits
<1>2. off \in Nat /\ blen \in Nat /\ nbytes \in Nat
  BY <1>1 DEF CallRecord
<1>3. /\ nbytes <= blen /\ blen <= readbuf_size /\ readbuf_offset = off + nbytes
      /\ fname \in Paths
  BY DEF Inv, TypeOK, PartialDelivered, ReadFinish, Loading
<1>4. /\ call'[t].nbytes = nbytes + m /\ call'[t].blen = blen /\ call'[t].off = off
  BY <1>1 DEF ReadFinish, Call
<1>5. CASE blen - nbytes <= readbuf_len
  BY <1>1, <1>2, <1>3, <1>4, <1>5 DEF Least
<1>6. CASE readbuf_len < blen - nbytes
  <2>1. 0 \in PreadCounts(readbuf_offset + readbuf_len, readbuf_size - readbuf_len)
    BY <1>1, <1>2, <1>3, <1>6 DEF ReadFinish, LoadDone
  <2>2. readbuf_offset + readbuf_len >= Len(data[fname])
    BY <1>1, <1>3, <2>1, PreadBounds
  <2>3. m = readbuf_len
    BY <1>1, <1>2, <1>6 DEF Least
  <2>4. call'[t].off + call'[t].nbytes = readbuf_offset + readbuf_len
    BY <1>1, <1>2, <1>3, <1>4, <2>3
  <2>5. QED BY <2>2, <2>4
<1>7. QED BY <1>1, <1>2, <1>5, <1>6

\* Only the end of the loop takes a loading Read to success.
LEMMA NextShort == Inv /\ [Next]_vars => ShortStep
<1> SUFFICES ASSUME Inv, [Next]_vars, NEW t \in Threads,
                    call[t].pc = "load", call'[t].pc = "done", call'[t].ok, fh = "rd"
             PROVE  \/ call'[t].nbytes = call'[t].blen
                    \/ call'[t].off + call'[t].nbytes >= Len(data[fname])
  BY DEF ShortStep
<1>1. lock = t /\ lock # NULL /\ ~Quiescent /\ call \in [Threads -> CallRecord]
  BY DEF Inv, TypeOK, LockHeld, Quiescent
<1>2. ASSUME UNCHANGED call PROVE FALSE
  BY <1>2
<1>3. ASSUME NEW u \in Threads, NEW r, call' = [call EXCEPT ![u] = r] PROVE u = t /\ r = call'[t]
  BY <1>1, <1>3
<1>4. ~Destroy /\ (\A path \in Paths : ~PrepareOpen(path))
  BY <1>1 DEF Destroy, PrepareOpen
<1>5. ASSUME NEW v \in Threads, NEW offset \in 0 .. MaxLen, NEW blen \in 0 .. MaxBlen,
             ReadCall(v, offset, blen)
      PROVE  FALSE
  BY <1>1, <1>5 DEF ReadCall, ReadBypass, ReadHit, ReadMiss, Enter
<1>6. ASSUME NEW v \in Threads, ReadFinish(v) PROVE v = t
  BY <1>1, <1>6 DEF ReadFinish, Loading
<1>7. ASSUME NEW v \in Threads, ReadError(v) PROVE FALSE
  <2>1. PICK r : call' = [call EXCEPT ![v] = Call("done", r.off, r.blen, r.nbytes, r.out, FALSE)]
    BY <1>7 DEF ReadError
  <2>2. call'[t] = Call("done", r.off, r.blen, r.nbytes, r.out, FALSE)
    BY <1>3, <2>1
  <2>3. QED BY <2>2 DEF Call
<1>8. ASSUME NEW v \in Threads, Return(v) \/ CloseRest(v) PROVE FALSE
  <2>1. call' = [call EXCEPT ![v] = Idle]
    BY <1>8 DEF Return, CloseRest
  <2>2. call'[t] = Idle
    BY <1>3, <2>1
  <2>3. QED BY <2>2, IdleType
<1>9. ASSUME NEW v \in Threads, CloseHandle(v) PROVE FALSE
  <2>1. PICK good : call' = [call EXCEPT ![v] = Call("closing", 0, 0, 0, NewOut, good)]
    BY <1>9 DEF CloseHandle
  <2>2. call'[t] = Call("closing", 0, 0, 0, NewOut, good)
    BY <1>3, <2>1
  <2>3. QED BY <2>2 DEF Call
<1>10. ASSUME NEW v \in Threads, ReadLoad(v) PROVE FALSE
  BY <1>2, <1>10 DEF ReadLoad
<1>11. (\A blen \in 0 .. MaxBlen : ~Write(blen)) /\ (\A p \in Paths : ~OtherAppends(p))
  BY <1>1, <1>2 DEF Write, OtherAppends
<1>12. ASSUME UNCHANGED vars PROVE FALSE
  BY <1>2, <1>12 DEF vars
<1>13. PICK v \in Threads : ReadFinish(v)
  <2>1. /\ \A path \in Paths : ~OpenFails(path)
        /\ \A path \in Paths, mode \in OpenModes : ~OpenSucceeds(path, mode)
    BY <1>4 DEF OpenFails, OpenSucceeds
  <2>2. CASE Next
    BY <1>4, <1>5, <1>7, <1>8, <1>9, <1>10, <1>11, <2>1, <2>2 DEF Next
  <2>3. QED BY <1>12, <2>2
<1>14. QED BY <1>6, <1>13, FinishShort

\* "readbuf is protected by a mutex": no Read or Close of another thread
\* changes the buffer that a thread is loading.
THEOREM LoaderIsAlone == Spec => ReadbufProtected
<1>1. Inv /\ [Next]_vars => [ProtectedStep]_vars
  BY NextProtects
<1>2. QED BY <1>1, InvHolds, PTL DEF Spec, ReadbufProtected, ProtectedStep

\* The loop "in case of short reads" does its work: a buffered Read returns
\* less than it was asked for only at the end of the file.
THEOREM ShortOnlyAtEOF == Spec => ShortReadMeansEOF
<1>1. Inv /\ [Next]_vars => [ShortStep]_vars
  BY NextShort
<1>2. QED BY <1>1, InvHolds, PTL DEF Spec, ShortReadMeansEOF, ShortStep
----------------------------------------------------------------------------
(***************************************************************************)
(* The write path: what Close hands to the checksum manager, and where the *)
(* bytes of a Write land.                                                  *)
(***************************************************************************)

\* Digests over as many bytes as the content has are the content's.
SameIfAsLong(d, content) == Len(d) = Len(content) => d = content

Closing(t) == call[t].pc = "closing"

\* A Close in progress is the only one, and has taken the handle away.
OneCloses ==
  \A t \in Threads : Closing(t) =>
    /\ fh = "none" /\ fname # NULL
    /\ \A u \in Threads : Closing(u) => u = t

\* The object has digests exactly from an Open for writing outside /cksums to
\* the end of its Close.
StateFollowsHandle ==
  /\ fh = "wr" => fname # NULL /\ (fname \notin CksumPaths => m_state)
  /\ m_state => /\ fname # NULL /\ fname \notin CksumPaths
                /\ fh = "wr" \/ \E t \in Threads : Closing(t)

\* The digests are fed at least what HDFS takes, so that if they are not ahead
\* of the file no Write has come short.
DigestKeepsUp ==
  (fh = "wr" /\ m_state) =>
    Len(data[fname]) <= Len(fed) /\ SameIfAsLong(fed, data[fname])

\* Between hdfsCloseFile and manager.Set the digests are those of the closed
\* content, whatever another writer does to the file.
DigestWaits ==
  \A t \in Threads : (Closing(t) /\ Records(t)) =>
    /\ closed[fname] # {}
    /\ \A content \in closed[fname] : SameIfAsLong(fed, content)

\* A record matches the content last closed, unless a Close is about to
\* replace it.
HandedMatches ==
  \A p \in Paths : handed[p] # {} =>
    /\ p \notin CksumPaths
    /\ closed[p] # {}
    /\ (\A t \in Threads : (Closing(t) /\ Records(t)) => fname # p) =>
         \A d \in handed[p] : \A content \in closed[p] : SameIfAsLong(d, content)

\* The inductive invariant of the write path.
RecordInv ==
  /\ OneCloses
  /\ StateFollowsHandle
  /\ DigestKeepsUp
  /\ DigestWaits
  /\ HandedMatches

\* A new object satisfies it.
LEMMA InitRecord == Init => RecordInv
<1> SUFFICES ASSUME Init PROVE RecordInv
  OBVIOUS
<1>1. \A t \in Threads : ~Closing(t)
  BY IdleType DEF Init, Closing
<1>2. fh = "none" /\ m_state = FALSE /\ \A p \in Paths : handed[p] = {}
  BY DEF Init, Constructed
<1>3. QED
  BY <1>1, <1>2 DEF RecordInv, OneCloses, StateFollowsHandle, DigestKeepsUp, DigestWaits,
                    HandedMatches

\* Reads, and whatever else leaves the files, the handle, the digests and the
\* calls that are closing alone.
LEMMA QuietRecord ==
  ASSUME RecordInv, UNCHANGED <<data, fh, fname, m_state, fed, handed, closed>>,
         \A t \in Threads : Closing(t) \/ Closing(t)' => call'[t] = call[t]
  PROVE  RecordInv'
<1>1. \A t \in Threads : Closing(t)' <=> Closing(t)
  BY DEF Closing
<1>2. \A t \in Threads : Closing(t) => (Records(t)' <=> Records(t))
  BY DEF Records
<1>3. OneCloses' /\ StateFollowsHandle'
  BY <1>1 DEF RecordInv, OneCloses, StateFollowsHandle
<1>4. DigestKeepsUp'
  BY DEF RecordInv, DigestKeepsUp, SameIfAsLong
<1>5. DigestWaits' /\ HandedMatches'
  BY <1>1, <1>2 DEF RecordInv, DigestWaits, HandedMatches, SameIfAsLong
<1>6. QED BY <1>3, <1>4, <1>5 DEF RecordInv

\* A call that does not close is replaced by one that does not.
LEMMA QuietCall ==
  ASSUME Inv, RecordInv, NEW t \in Threads, NEW r, call' = [call EXCEPT ![t] = r],
         call[t].pc # "closing", r.pc # "closing",
         UNCHANGED <<data, fh, fname, m_state, fed, handed, closed>>
  PROVE  RecordInv'
<1>1. \A u \in Threads : call'[u] = IF u = t THEN r ELSE call[u]
  BY DEF Inv, TypeOK
<1>2. \A u \in Threads : Closing(u) \/ Closing(u)' => call'[u] = call[u]
  BY <1>1 DEF Closing
<1>3. QED BY <1>2, QuietRecord

\* Construction leaves the records of HDFS as they are.
LEMMA DestroyRecord == RecordInv /\ Destroy => RecordInv'
<1> SUFFICES ASSUME RecordInv, Destroy PROVE RecordInv'
  OBVIOUS
<1>1. \A t \in Threads : ~Closing(t) /\ ~Closing(t)'
  BY DEF Destroy, Quiescent, Closing
<1>2. fh' = "none" /\ m_state' = FALSE /\ UNCHANGED <<handed, closed>>
  BY DEF Destroy, Constructed
<1>3. HandedMatches'
  BY <1>1, <1>2 DEF RecordInv, HandedMatches, SameIfAsLong
<1>4. QED
  BY <1>1, <1>2, <1>3 DEF RecordInv, OneCloses, StateFollowsHandle, DigestKeepsUp, DigestWaits

\* What every Open finds: nobody closes, and no digests are left over.
LEMMA OpenFindsNone ==
  ASSUME RecordInv, NEW path \in Paths, PrepareOpen(path)
  PROVE  /\ \A t \in Threads : ~Closing(t) /\ ~Closing(t)'
         /\ fh = "none" /\ ~m_state /\ fname' = path
         /\ UNCHANGED <<handed, closed>>
         /\ HandedMatches'
<1>1. \A t \in Threads : ~Closing(t) /\ ~Closing(t)'
  BY DEF PrepareOpen, Quiescent, Closing
<1>2. fh = "none" /\ fname' = path /\ UNCHANGED <<handed, closed>>
  BY DEF PrepareOpen
<1>3. ~m_state
  BY <1>1, <1>2 DEF RecordInv, StateFollowsHandle
<1>4. HandedMatches'
  BY <1>1, <1>2 DEF RecordInv, HandedMatches, SameIfAsLong
<1>5. QED BY <1>1, <1>2, <1>3, <1>4

LEMMA OpenFailsRecord ==
  ASSUME RecordInv, NEW path \in Paths, OpenFails(path) PROVE RecordInv'
<1>1. PrepareOpen(path) /\ UNCHANGED <<fh, m_state>>
  BY DEF OpenFails
<1>2. QED
  BY <1>1, OpenFindsNone DEF RecordInv, OneCloses, StateFollowsHandle, DigestKeepsUp, DigestWaits

LEMMA OpenSucceedsRecord ==
  ASSUME Inv, RecordInv, NEW path \in Paths, NEW mode \in OpenModes, OpenSucceeds(path, mode)
  PROVE  RecordInv'
<1>1. PrepareOpen(path)
  BY DEF OpenSucceeds
<1>2. /\ \A t \in Threads : ~Closing(t)'
      /\ ~m_state /\ fname' = path /\ HandedMatches'
  BY <1>1, OpenFindsNone
<1>3. OneCloses' /\ DigestWaits'
  BY <1>2 DEF OneCloses, DigestWaits
<1>4. CASE fh' = "wr" /\ path \notin CksumPaths
  <2>1. m_state' = TRUE /\ fed' = << >> /\ data' = [data EXCEPT ![path] = << >>]
    BY <1>4 DEF OpenSucceeds
  <2>2. data'[fname'] = << >>
    BY <1>2, <2>1 DEF Inv, TypeOK
  <2>3. DigestKeepsUp'
    BY <2>1, <2>2 DEF DigestKeepsUp, SameIfAsLong
  <2>4. StateFollowsHandle'
    BY <1>2, <1>4, <2>1 DEF StateFollowsHandle
  <2>5. QED BY <1>2, <1>3, <2>3, <2>4 DEF RecordInv
<1>5. CASE ~(fh' = "wr" /\ path \notin CksumPaths)
  <2>1. ~m_state'
    BY <1>2, <1>5 DEF OpenSucceeds
  <2>2. StateFollowsHandle' /\ DigestKeepsUp'
    BY <1>2, <1>5, <2>1 DEF StateFollowsHandle, DigestKeepsUp
  <2>3. QED BY <1>2, <1>3, <2>2 DEF RecordInv
<1>6. QED BY <1>4, <1>5

\* The length of a concatenation.
LEMMA ConcatLength ==
  ASSUME NEW s \in Seq(Nat), NEW e \in Seq(Nat)
  PROVE  s \o e \in Seq(Nat) /\ Len(s \o e) = Len(s) + Len(e)
OBVIOUS

\* The bytes of a Write, and of its short or failed result, at the end of the
\* digests and of the file: if the digests end up as long as the file they were
\* as long as it before, and hdfsWrite took all.
LEMMA FeedKeepsUp ==
  ASSUME NEW d \in Seq(Nat), NEW s \in Seq(Nat), NEW buff \in Seq(Nat),
         NEW n \in 0 .. Len(buff), Len(s) <= Len(d), SameIfAsLong(d, s)
  PROVE  /\ Len(s \o SubSeq(buff, 1, n)) <= Len(d \o buff)
         /\ SameIfAsLong(d \o buff, s \o SubSeq(buff, 1, n))
         /\ Len(s) <= Len(d \o buff)
         /\ SameIfAsLong(d \o buff, s)
<1> DEFINE part == SubSeq(buff, 1, n)
<1>1. /\ part \in Seq(Nat) /\ Len(part) = n /\ (n = Len(buff) => part = buff)
      /\ Len(buff) \in Nat /\ Len(d) \in Nat /\ Len(s) \in Nat /\ n \in Nat
  OBVIOUS
<1> HIDE DEF part
<1>2. Len(d \o buff) = Len(d) + Len(buff) /\ Len(s \o part) = Len(s) + n
  BY <1>1, ConcatLength
<1>3. Len(s \o part) <= Len(d \o buff) /\ Len(s) <= Len(d \o buff)
  BY <1>1, <1>2
<1>4. SameIfAsLong(d \o buff, s \o part)
  <2> SUFFICES ASSUME Len(d) + Len(buff) = Len(s) + n PROVE d \o buff = s \o part
    BY <1>2 DEF SameIfAsLong
  <2>1. Len(d) = Len(s) /\ n = Len(buff)
    BY <1>1
  <2>2. QED BY <1>1, <2>1 DEF SameIfAsLong
<1>5. SameIfAsLong(d \o buff, s)
  <2> SUFFICES ASSUME Len(d) + Len(buff) = Len(s) PROVE d \o buff = s
    BY <1>2 DEF SameIfAsLong
  <2>1. Len(d) = Len(s) /\ Len(buff) = 0
    BY <1>1
  <2>2. d \o buff = d
    BY <2>1
  <2>3. QED BY <2>1, <2>2 DEF SameIfAsLong
<1>6. QED BY <1>3, <1>4, <1>5 DEF part

\* What a Write does to the file: nothing, or the bytes that HDFS took at its end.
LEMMA WriteStep ==
  ASSUME Inv, fname # NULL, NEW blen \in 0 .. MaxBlen, Write(blen)
  PROVE  \E n \in 0 .. blen :
           LET part == SubSeq(StreamBytes(m_nextoff, blen), 1, n) IN
           \/ data' = [data EXCEPT ![fname] = data[fname] \o part] /\ m_nextoff' = m_nextoff + n
           \/ data' = data /\ m_nextoff' = m_nextoff
<1> DEFINE buff == StreamBytes(m_nextoff, blen)
<1>1. PICK result \in WriteResults(blen) : Advance(result, buff)
  BY DEF Write
<1>2. blen \in Nat /\ result \in -1 .. blen /\ fname \in Paths /\ data \in [Paths -> Seq(Nat)]
  BY DEF WriteResults, Inv, TypeOK
<1> HIDE DEF buff
<1>3. CASE result >= 0
  <2>1. result \in 0 .. blen
    BY <1>2, <1>3
  <2>2. data' = [data EXCEPT ![fname] = data[fname] \o SubSeq(buff, 1, result)]
        /\ m_nextoff' = m_nextoff + result
    BY <1>1, <1>2, <1>3 DEF Advance
  <2>3. QED BY <2>1, <2>2 DEF buff
<1>4. CASE ~(result >= 0)
  <2>1. 0 \in 0 .. blen /\ data' = data /\ m_nextoff' = m_nextoff
    BY <1>1, <1>2, <1>4 DEF Advance
  <2>2. QED BY <2>1
<1>5. QED BY <1>3, <1>4

LEMMA WriteRecord ==
  ASSUME Inv, RecordInv, NEW blen \in 0 .. MaxBlen, Write(blen) PROVE RecordInv'
<1> DEFINE buff == StreamBytes(m_nextoff, blen)
<1>1. /\ fh = "wr" /\ fh' = fh /\ fname' = fname /\ m_state' = m_state /\ call' = call
      /\ handed' = handed /\ closed' = closed
      /\ fed' = IF m_state THEN fed \o buff ELSE fed
  BY DEF Write, histVars
<1>2. fname \in Paths /\ data \in [Paths -> Seq(Nat)] /\ data[fname] \in Seq(Nat) /\ fed \in Seq(Nat)
  BY <1>1 DEF RecordInv, StateFollowsHandle, Inv, TypeOK
<1>3. blen \in Nat /\ buff \in Seq(Nat) /\ Len(buff) = blen
  BY StreamType DEF Inv, TypeOK
<1>4. \A t \in Threads : ~Closing(t) /\ ~Closing(t)'
  BY <1>1 DEF RecordInv, OneCloses, Closing
<1>5. OneCloses' /\ DigestWaits' /\ StateFollowsHandle'
  BY <1>1, <1>4 DEF RecordInv, OneCloses, DigestWaits, StateFollowsHandle
<1>6. HandedMatches'
  BY <1>1, <1>4 DEF RecordInv, HandedMatches, SameIfAsLong
<1>7. DigestKeepsUp'
  <2> SUFFICES ASSUME m_state
               PROVE  Len(data'[fname]) <= Len(fed') /\ SameIfAsLong(fed', data'[fname])
    BY <1>1 DEF DigestKeepsUp, SameIfAsLong
  <2>1. PICK n \in 0 .. blen :
          \/ data' = [data EXCEPT ![fname] = data[fname] \o SubSeq(buff, 1, n)]
          \/ data' = data
    BY <1>2, WriteStep
  <2>2. Len(data[fname]) <= Len(fed) /\ SameIfAsLong(fed, data[fname])
    BY <1>1 DEF RecordInv, DigestKeepsUp
  <2>3. fed' = fed \o buff
    BY <1>1
  <2> HIDE DEF buff
  <2>4. data'[fname] = data[fname] \o SubSeq(buff, 1, n) \/ data'[fname] = data[fname]
    BY <1>2, <2>1
  <2>5. n \in 0 .. Len(buff)
    BY <1>3
  <2>6. /\ Len(data[fname] \o SubSeq(buff, 1, n)) <= Len(fed \o buff)
        /\ SameIfAsLong(fed \o buff, data[fname] \o SubSeq(buff, 1, n))
        /\ Len(data[fname]) <= Len(fed \o buff)
        /\ SameIfAsLong(fed \o buff, data[fname])
    BY <1>2, <1>3, <2>2, <2>5, FeedKeepsUp
  <2>7. CASE data'[fname] = data[fname]
    BY <2>3, <2>6, <2>7
  <2>8. CASE data'[fname] = data[fname] \o SubSeq(buff, 1, n)
    BY <2>3, <2>6, <2>8
  <2>9. QED BY <2>4, <2>7, <2>8
<1>8. QED BY <1>5, <1>6, <1>7 DEF RecordInv

\* Another client's writer does not touch the file this object writes.
LEMMA OtherAppendsRecord ==
  ASSUME Inv, RecordInv, NEW p \in Paths, OtherAppends(p) PROVE RecordInv'
<1>1. /\ ~(fh = "wr" /\ fname = p)
      /\ UNCHANGED <<fh, fname, m_state, fed, call, handed, closed>>
  BY DEF OtherAppends, objVars, histVars
<1>2. fh = "wr" => data'[fname] = data[fname]
  BY <1>1 DEF OtherAppends, Inv, TypeOK, RecordInv, StateFollowsHandle
<1>3. OneCloses' /\ StateFollowsHandle' /\ DigestWaits' /\ HandedMatches'
  BY <1>1 DEF RecordInv, OneCloses, StateFollowsHandle, DigestWaits, HandedMatches,
              SameIfAsLong, Closing, Records
<1>4. DigestKeepsUp'
  BY <1>1, <1>2 DEF RecordInv, DigestKeepsUp, SameIfAsLong
<1>5. QED BY <1>3, <1>4 DEF RecordInv

\* hdfsCloseFile: from here on the digests wait for manager.Set.
LEMMA CloseHandleRecord ==
  ASSUME Inv, RecordInv, NEW t \in Threads, CloseHandle(t) PROVE RecordInv'
<1>1. PICK good \in BOOLEAN :
        /\ call' = [call EXCEPT ![t] = Call("closing", 0, 0, 0, NewOut, good)]
        /\ closed' = IF good /\ fh = "wr"
                     THEN [closed EXCEPT ![fname] = {data[fname]}] ELSE closed
  <2>1. PICK good \in IF fh = "none" THEN {TRUE} ELSE BOOLEAN :
          /\ call' = [call EXCEPT ![t] = Call("closing", 0, 0, 0, NewOut, good)]
          /\ closed' = IF good /\ fh = "wr"
                       THEN [closed EXCEPT ![fname] = {data[fname]}] ELSE closed
    BY DEF CloseHandle
  <2>2. QED BY <2>1
<1> DEFINE r == Call("closing", 0, 0, 0, NewOut, good)
<1>2. r.pc = "closing" /\ r.ok = good
  BY DEF Call
<1>3. call' = [call EXCEPT ![t] = r]
  BY <1>1
<1> HIDE DEF r
<1>4. /\ fname \in Paths /\ fname # NULL /\ fh' = "none" /\ closed \in [Paths -> SUBSET Seq(Nat)]
      /\ UNCHANGED <<data, fname, m_state, fed, handed>>
  BY DEF CloseHandle, Inv, TypeOK
<1>5. \A u \in Threads : call'[u] = IF u = t THEN r ELSE call[u]
  BY <1>3 DEF Inv, TypeOK
<1>6. \A u \in Threads : ~Closing(u) /\ (Closing(u)' <=> u = t)
  BY <1>2, <1>5 DEF CloseHandle, Closing
<1>7. Records(t)' <=> m_state /\ good
  BY <1>2, <1>4, <1>5 DEF Records
<1>8. OneCloses' /\ StateFollowsHandle' /\ DigestKeepsUp'
  BY <1>4, <1>6 DEF RecordInv, OneCloses, StateFollowsHandle, DigestKeepsUp
<1>9. m_state => fh = "wr"
  BY <1>6 DEF RecordInv, StateFollowsHandle
<1>10. m_state /\ good => closed'[fname] = {data[fname]} /\ SameIfAsLong(fed, data[fname])
  BY <1>1, <1>4, <1>9 DEF RecordInv, DigestKeepsUp
<1>11. DigestWaits'
  BY <1>4, <1>6, <1>7, <1>10 DEF DigestWaits, SameIfAsLong
<1>12. ASSUME NEW p \in Paths, handed[p] # {}
       PROVE  /\ p \notin CksumPaths /\ closed'[p] # {}
              /\ ~(m_state /\ good /\ fname = p) =>
                   \A d \in handed[p] : \A content \in closed'[p] : SameIfAsLong(d, content)
  <2>1. /\ p \notin CksumPaths /\ closed[p] # {}
        /\ \A d \in handed[p] : \A content \in closed[p] : SameIfAsLong(d, content)
    BY <1>6, <1>12 DEF RecordInv, HandedMatches
  <2>2. CASE closed'[p] = closed[p]
    BY <2>1, <2>2
  <2>3. CASE closed'[p] # closed[p]
    <3>1. good /\ fh = "wr" /\ fname = p /\ closed'[p] = {data[p]}
      BY <1>1, <1>4, <2>3
    <3>2. m_state
      BY <2>1, <3>1 DEF RecordInv, StateFollowsHandle
    <3>3. QED BY <2>1, <3>1, <3>2
  <2>4. QED BY <2>2, <2>3
<1>13. HandedMatches'
  BY <1>4, <1>6, <1>7, <1>12 DEF HandedMatches, SameIfAsLong
<1>14. QED BY <1>8, <1>11, <1>13 DEF RecordInv

\* manager.Set, or none: Close ends with a record of what was closed.
LEMMA CloseRestRecord ==
  ASSUME Inv, RecordInv, NEW t \in Threads, CloseRest(t) PROVE RecordInv'
<1>1. /\ Closing(t) /\ m_state' = FALSE /\ call' = [call EXCEPT ![t] = Idle]
      /\ UNCHANGED <<data, fh, closed>>
      /\ handed' = IF Records(t) THEN [handed EXCEPT ![fname] = {fed}] ELSE handed
  BY DEF CloseRest, Closing
<1>2. /\ fh = "none" /\ fname \in Paths /\ handed \in [Paths -> SUBSET Seq(Nat)]
      /\ \A u \in Threads : Closing(u) => u = t
  BY <1>1 DEF RecordInv, OneCloses, Inv, TypeOK
<1>3. \A u \in Threads : ~Closing(u)'
  BY <1>1, <1>2, IdleType DEF Inv, TypeOK, Closing
<1>4. OneCloses' /\ StateFollowsHandle' /\ DigestKeepsUp' /\ DigestWaits'
  BY <1>1, <1>2, <1>3 DEF OneCloses, StateFollowsHandle, DigestKeepsUp, DigestWaits
<1>5. ASSUME NEW p \in Paths, handed'[p] # {}
      PROVE  /\ p \notin CksumPaths /\ closed[p] # {}
             /\ \A d \in handed'[p] : \A content \in closed[p] : SameIfAsLong(d, content)
  <2>1. CASE Records(t) /\ p = fname
    <3>1. handed'[p] = {fed}
      BY <1>1, <1>2, <2>1
    <3>2. p \notin CksumPaths
      BY <2>1 DEF Records, RecordInv, StateFollowsHandle
    <3>3. closed[p] # {} /\ \A content \in closed[p] : SameIfAsLong(fed, content)
      BY <1>1, <2>1 DEF RecordInv, DigestWaits
    <3>4. QED BY <3>1, <3>2, <3>3
  <2>2. CASE ~(Records(t) /\ p = fname)
    <3>1. handed'[p] = handed[p]
      BY <1>1, <1>2, <2>2
    <3>2. \A u \in Threads : Closing(u) /\ Records(u) => fname # p
      BY <1>2, <2>2
    <3>3. QED BY <1>5, <3>1, <3>2 DEF RecordInv, HandedMatches
  <2>3. QED BY <2>1, <2>2
<1>6. HandedMatches'
  BY <1>1, <1>5 DEF HandedMatches, SameIfAsLong
<1>7. QED BY <1>4, <1>6 DEF RecordInv

\* The steps of a Read neither write nor close.
LEMMA ReadRecord ==
  ASSUME Inv, RecordInv, NEW t \in Threads,
         \/ \E offset \in 0 .. MaxLen, blen \in 0 .. MaxBlen : ReadCall(t, offset, blen)
         \/ ReadLoad(t) \/ ReadFinish(t) \/ ReadError(t) \/ Return(t)
  PROVE  RecordInv'
<1>1. UNCHANGED <<data, fh, fname, m_state, fed, handed, closed>>
  BY DEF ReadCall, ReadBypass, ReadHit, ReadMiss, ReadLoad, ReadFinish, ReadError, Return,
         objVars, histVars
<1>2. call[t].pc # "closing"
  BY DEF ReadCall, ReadBypass, ReadHit, ReadMiss, ReadLoad, ReadFinish, ReadError, Return,
         Enter, Loading
<1>3. ASSUME NEW offset \in 0 .. MaxLen, NEW blen \in 0 .. MaxBlen, ReadCall(t, offset, blen)
      PROVE  \E r : call' = [call EXCEPT ![t] = r] /\ r.pc # "closing"
  <2>1. \E pc \in {"done", "load"} : \E n, out, ok :
          call' = [call EXCEPT ![t] = Call(pc, offset, blen, n, out, ok)]
    BY <1>3, Zenon DEF ReadCall, ReadBypass, ReadHit, ReadMiss
  <2>2. PICK pc \in {"done", "load"} : \E n, out, ok :
          call' = [call EXCEPT ![t] = Call(pc, offset, blen, n, out, ok)]
    BY <2>1
  <2>3. PICK n, out, ok : call' = [call EXCEPT ![t] = Call(pc, offset, blen, n, out, ok)]
    BY <2>2
  <2>4. Call(pc, offset, blen, n, out, ok).pc # "closing"
    BY <2>2 DEF Call
  <2>5. QED BY <2>3, <2>4
<1>4. ASSUME ReadFinish(t) \/ ReadError(t)
      PROVE  \E r : call' = [call EXCEPT ![t] = r] /\ r.pc # "closing"
  <2>1. \E off, blen, n, out, ok :
          call' = [call EXCEPT ![t] = Call("done", off, blen, n, out, ok)]
    BY <1>4, Zenon DEF ReadFinish, ReadError
  <2>2. PICK off, blen, n, out, ok :
          call' = [call EXCEPT ![t] = Call("done", off, blen, n, out, ok)]
    BY <2>1
  <2>3. Call("done", off, blen, n, out, ok).pc # "closing"
    BY DEF Call
  <2>4. QED BY <2>2, <2>3
<1>5. ASSUME Return(t) PROVE call' = [call EXCEPT ![t] = Idle] /\ Idle.pc # "closing"
  BY <1>5, IdleType DEF Return
<1>6. ASSUME ReadLoad(t) PROVE RecordInv'
  <2>1. call' = call
    BY <1>6 DEF ReadLoad
  <2>2. QED BY <1>1, <2>1, QuietRecord
<1>7. ASSUME NEW r, call' = [call EXCEPT ![t] = r], r.pc # "closing" PROVE RecordInv'
  BY <1>1, <1>2, <1>7, QuietCall
<1>8. QED BY <1>3, <1>4, <1>5, <1>6, <1>7

\* Every step keeps the invariant of the write path.
LEMMA NextRecord == Inv /\ RecordInv /\ [Next]_vars => RecordInv'
<1> SUFFICES ASSUME Inv, RecordInv, [Next]_vars PROVE RecordInv'
  OBVIOUS
<1>1. CASE Destroy
  BY <1>1, DestroyRecord
<1>2. ASSUME NEW path \in Paths, OpenFails(path) PROVE RecordInv'
  BY <1>2, OpenFailsRecord
<1>3. ASSUME NEW path \in Paths, NEW mode \in OpenModes, OpenSucceeds(path, mode)
      PROVE  RecordInv'
  BY <1>3, OpenSucceedsRecord
<1>4. ASSUME NEW t \in Threads,
             \/ \E offset \in 0 .. MaxLen, blen \in 0 .. MaxBlen : ReadCall(t, offset, blen)
             \/ ReadLoad(t) \/ ReadFinish(t) \/ ReadError(t) \/ Return(t)
      PROVE  RecordInv'
  BY <1>4, ReadRecord
<1>5. ASSUME NEW blen \in 0 .. MaxBlen, Write(blen) PROVE RecordInv'
  BY <1>5, WriteRecord
<1>6. ASSUME NEW p \in Paths, OtherAppends(p) PROVE RecordInv'
  BY <1>6, OtherAppendsRecord
<1>7. ASSUME NEW t \in Threads, CloseHandle(t) \/ CloseRest(t) PROVE RecordInv'
  BY <1>7, CloseHandleRecord, CloseRestRecord
<1>8. CASE UNCHANGED vars
  BY <1>8, QuietRecord DEF vars, objVars, histVars
<1>9. QED BY <1>1, <1>2, <1>3, <1>4, <1>5, <1>6, <1>7, <1>8 DEF Next

\* The write path keeps its invariant, however often the object is opened and
\* however short HDFS writes.
THEOREM RecordInvHolds == Spec => []RecordInv
BY InitRecord, NextRecord, InvHolds, PTL DEF Spec

\* "Only write checksum file if close() was successful": what Close hands to the
\* checksum manager belongs to a file that HDFS closed, and digests over as many
\* bytes as that file has are its digests.
THEOREM RecordsAreOfClosed == Spec => []RecordedWasClosed
<1>1. RecordInv => RecordedWasClosed
  BY DEF RecordInv, HandedMatches, RecordedWasClosed, SameIfAsLong, Closing
<1>2. QED BY <1>1, RecordInvHolds, PTL

\* The object is opened at most once before it is destroyed, as XRootD uses it.
OpenedOnce == opens <= 1

\* The invariant of an object that is opened once: before
\* the Open nothing has moved m_nextoff, and while a file is being written it
\* is the length of the file.
UsedOnce ==
  /\ opens = 0 => m_nextoff = 0 /\ fh = "none"
  /\ fh = "wr" => fname # NULL /\ Len(data[fname]) = m_nextoff

OnceInv == UsedOnce /\ WriteLandsAtOffset

\* The file of a stream that starts at 0 is in order, and stays so when the
\* next bytes of the stream follow.
LEMMA InOrder ==
  ASSUME NEW s \in Seq(Nat), \A i \in 1 .. Len(s) : s[i] = i - 1,
         NEW blen \in Nat, NEW n \in 0 .. blen
  PROVE  LET e == s \o SubSeq(StreamBytes(Len(s), blen), 1, n) IN
         Len(e) = Len(s) + n /\ \A i \in 1 .. Len(e) : e[i] = i - 1
<1> DEFINE buff == StreamBytes(Len(s), blen)
           part == SubSeq(buff, 1, n)
<1>1. Len(s) \in Nat /\ n \in Nat /\ n <= blen
  OBVIOUS
<1>2. /\ buff \in Seq(Nat) /\ Len(buff) = blen
      /\ \A i \in 1 .. blen : buff[i] = Len(s) + i - 1
  BY <1>1, StreamType DEF StreamBytes
<1> HIDE DEF buff
<1>3. part \in Seq(Nat) /\ Len(part) = n /\ \A i \in 1 .. n : part[i] = Len(s) + i - 1
  BY <1>1, <1>2
<1> HIDE DEF part
<1>4. Len(s \o part) = Len(s) + n
  BY <1>3, ConcatLength
<1>5. ASSUME NEW i \in 1 .. (Len(s) + n) PROVE (s \o part)[i] = i - 1
  <2>1. CASE i <= Len(s)
    BY <1>1, <1>3, <2>1
  <2>2. CASE i > Len(s)
    <3>1. i - Len(s) \in 1 .. n
      BY <1>1, <2>2
    <3>2. (s \o part)[i] = part[i - Len(s)]
      BY <1>1, <1>3, <2>2, <3>1
    <3>3. part[i - Len(s)] = Len(s) + (i - Len(s)) - 1
      BY <1>3, <3>1
    <3>4. QED BY <1>1, <3>2, <3>3
  <2>3. i <= Len(s) \/ i > Len(s)
    BY <1>1
  <2>4. QED BY <2>1, <2>2, <2>3
<1>6. QED BY <1>4, <1>5 DEF part, buff

LEMMA InitOnce == Init => OnceInv
<1> SUFFICES ASSUME Init PROVE OnceInv
  OBVIOUS
<1>1. UsedOnce
  BY DEF Init, Constructed, UsedOnce
<1>2. ASSUME NEW p \in Paths PROVE \A i \in 1 .. Len(data[p]) : data[p][i] = i - 1
  <2>1. PICK n \in 0 .. MaxLen : data[p] = StreamBytes(0, n)
    BY DEF Init
  <2>2. n \in Nat /\ Len(data[p]) = n
    BY <2>1, StreamType
  <2>3. \A i \in 1 .. n : data[p][i] = i - 1
    BY <2>1, <2>2 DEF StreamBytes
  <2>4. QED BY <2>2, <2>3
<1>3. QED BY <1>1, <1>2 DEF OnceInv, WriteLandsAtOffset

\* Another writer continues its own stream.
LEMMA OtherAppendsOnce ==
  ASSUME Inv, OnceInv, NEW p \in Paths, OtherAppends(p) PROVE OnceInv'
<1>1. /\ ~(fh = "wr" /\ fname = p) /\ UNCHANGED <<fh, fname, m_nextoff, opens>>
      /\ data' = [data EXCEPT ![p] = Append(data[p], Len(data[p]))]
  BY DEF OtherAppends, objVars, histVars, Inv, TypeOK
<1>2. data \in [Paths -> Seq(Nat)] /\ fname \in Paths \cup {NULL}
  BY DEF Inv, TypeOK
<1>3. UsedOnce'
  BY <1>1, <1>2 DEF OnceInv, UsedOnce
<1>4. ASSUME NEW q \in Paths PROVE \A i \in 1 .. Len(data'[q]) : data'[q][i] = i - 1
  <2> DEFINE s == data[q]
  <2>1. s \in Seq(Nat) /\ Len(s) \in Nat /\ \A i \in 1 .. Len(s) : s[i] = i - 1
    BY <1>2 DEF OnceInv, WriteLandsAtOffset
  <2>2. data'[q] = s \/ data'[q] = Append(s, Len(s))
    BY <1>1, <1>2
  <2> HIDE DEF s
  <2>3. /\ Len(Append(s, Len(s))) = Len(s) + 1
        /\ \A i \in 1 .. (Len(s) + 1) : Append(s, Len(s))[i] = i - 1
    BY <2>1
  <2>4. QED BY <2>1, <2>2, <2>3
<1>5. QED BY <1>3, <1>4 DEF OnceInv, WriteLandsAtOffset

\* Write appends at m_nextoff, which is the end of the file.
LEMMA WriteOnce ==
  ASSUME Inv, OnceInv, NEW blen \in 0 .. MaxBlen, Write(blen) PROVE OnceInv'
<1>1. fh = "wr" /\ UNCHANGED <<fh, fname, opens>>
  BY DEF Write, histVars
<1>2. /\ opens # 0 /\ fname \in Paths /\ Len(data[fname]) = m_nextoff
      /\ data \in [Paths -> Seq(Nat)] /\ blen \in Nat
  BY <1>1 DEF OnceInv, UsedOnce, Inv, TypeOK
<1> DEFINE s == data[fname]
           after(n) == s \o SubSeq(StreamBytes(Len(s), blen), 1, n)
<1>3. s \in Seq(Nat) /\ \A i \in 1 .. Len(s) : s[i] = i - 1
  BY <1>2 DEF OnceInv, WriteLandsAtOffset
<1>4. PICK n \in 0 .. blen :
        \/ data' = [data EXCEPT ![fname] = after(n)] /\ m_nextoff' = m_nextoff + n
        \/ data' = data /\ m_nextoff' = m_nextoff
  BY <1>2, WriteStep
<1>5. Len(after(n)) = Len(s) + n /\ \A i \in 1 .. Len(after(n)) : after(n)[i] = i - 1
  BY <1>2, <1>3, InOrder
<1> HIDE DEF after
<1>6. CASE data' = data /\ m_nextoff' = m_nextoff
  BY <1>1, <1>6 DEF OnceInv, UsedOnce, WriteLandsAtOffset
<1>7. CASE data' = [data EXCEPT ![fname] = after(n)] /\ m_nextoff' = m_nextoff + n
  <2>1. data'[fname] = after(n) /\ \A p \in Paths : p # fname => data'[p] = data[p]
    BY <1>2, <1>7
  <2>2. UsedOnce'
    BY <1>1, <1>2, <1>5, <1>7, <2>1 DEF OnceInv, UsedOnce
  <2>3. WriteLandsAtOffset'
    BY <1>5, <2>1 DEF OnceInv, WriteLandsAtOffset
  <2>4. QED BY <2>2, <2>3 DEF OnceInv
<1>8. QED BY <1>4, <1>6, <1>7

\* The one Open of the object finds m_nextoff at 0, where the file begins.
LEMMA OpenSucceedsOnce ==
  ASSUME Inv, OnceInv, NEW path \in Paths, NEW mode \in OpenModes,
         OpenSucceeds(path, mode), OpenedOnce'
  PROVE  OnceInv'
<1>1. /\ opens' = opens + 1 /\ fname' = path /\ m_nextoff' = m_nextoff
      /\ data' = IF fh' = "wr" THEN [data EXCEPT ![path] = << >>] ELSE data
  BY DEF OpenSucceeds, PrepareOpen
<1>2. opens \in Nat /\ data \in [Paths -> Seq(Nat)]
  BY DEF Inv, TypeOK
<1>3. opens = 0 /\ opens' # 0
  BY <1>1, <1>2 DEF OpenedOnce
<1>4. m_nextoff' = 0
  BY <1>1, <1>3 DEF OnceInv, UsedOnce
<1>5. UsedOnce'
  BY <1>1, <1>2, <1>3, <1>4 DEF UsedOnce
<1>6. \A p \in Paths : data'[p] = data[p] \/ data'[p] = << >>
  BY <1>1, <1>2
<1>7. WriteLandsAtOffset'
  BY <1>6 DEF OnceInv, WriteLandsAtOffset
<1>8. QED BY <1>5, <1>7 DEF OnceInv

\* Every step of an object that is opened once.
LEMMA NextOnce ==
  ASSUME Inv, RecordInv, OnceInv, [Next]_vars, OpenedOnce'
  PROVE  OnceInv'
<1>1. CASE Destroy
  BY <1>1 DEF Destroy, Constructed, OnceInv, UsedOnce, WriteLandsAtOffset
<1>2. ASSUME NEW path \in Paths, OpenFails(path) PROVE OnceInv'
  BY <1>2 DEF OpenFails, PrepareOpen, OnceInv, UsedOnce, WriteLandsAtOffset
<1>3. ASSUME NEW path \in Paths, NEW mode \in OpenModes, OpenSucceeds(path, mode)
      PROVE  OnceInv'
  BY <1>3, OpenSucceedsOnce
<1>4. ASSUME UNCHANGED <<data, fh, fname, m_nextoff, opens>> PROVE OnceInv'
  BY <1>4 DEF OnceInv, UsedOnce, WriteLandsAtOffset
<1>5. ASSUME NEW t \in Threads, NEW offset \in 0 .. MaxLen, NEW blen \in 0 .. MaxBlen,
             ReadCall(t, offset, blen)
      PROVE  OnceInv'
  BY <1>4, <1>5 DEF ReadCall, ReadBypass, ReadHit, ReadMiss, objVars, histVars
<1>6. ASSUME NEW t \in Threads, ReadLoad(t) \/ ReadFinish(t) \/ ReadError(t) \/ Return(t)
      PROVE  OnceInv'
  BY <1>4, <1>6 DEF ReadLoad, ReadFinish, ReadError, Return, objVars, histVars
<1>7. ASSUME NEW blen \in 0 .. MaxBlen, Write(blen) PROVE OnceInv'
  BY <1>7, WriteOnce
<1>8. ASSUME NEW p \in Paths, OtherAppends(p) PROVE OnceInv'
  BY <1>8, OtherAppendsOnce
<1>9. ASSUME NEW t \in Threads, CloseHandle(t) PROVE OnceInv'
  BY <1>9 DEF CloseHandle, OnceInv, UsedOnce, WriteLandsAtOffset
<1>10. ASSUME NEW t \in Threads, CloseRest(t) PROVE OnceInv'
  <2>1. fh = "none"
    BY <1>10 DEF CloseRest, Closing, RecordInv, OneCloses
  <2>2. QED BY <1>10, <2>1 DEF CloseRest, OnceInv, UsedOnce, WriteLandsAtOffset
<1>11. CASE UNCHANGED vars
  BY <1>4, <1>11 DEF vars, objVars, histVars
<1>12. QED
  BY <1>1, <1>2, <1>3, <1>5, <1>6, <1>7, <1>8, <1>9, <1>10, <1>11 DEF Next

\* The invariant of an object that is opened once holds; the second Open for
\* writing of one object would break it, Open leaving m_nextoff as it is.
THEOREM OnceInvHolds ==
  Spec /\ []OpenedOnce => []OnceInv
<1>1. Inv /\ RecordInv /\ OnceInv /\ [Next]_vars /\ OpenedOnce' => OnceInv'
  BY NextOnce
<1>2. QED BY <1>1, InitOnce, InvHolds, RecordInvHolds, PTL DEF Spec

\* Write refuses every offset but m_nextoff, so every byte of every file is at
\* the offset its client gave, however short HDFS writes, for objects that are
\* opened once.
THEOREM WritesInPlace ==
  Spec /\ []OpenedOnce => []WriteLandsAtOffset
<1>1. OnceInv => WriteLandsAtOffset
  BY DEF OnceInv
<1>2. QED BY <1>1, OnceInvHolds, PTL

\* While a file is being written and no Write has failed or come short, the
\* digests have run over exactly the bytes of the file, for objects that are
\* opened once.
THEOREM DigestsFollow ==
  Spec /\ []OpenedOnce => []DigestFollowsFile
<1>1. RecordInv /\ OnceInv => DigestFollowsFile
  BY DEF RecordInv, OnceInv, UsedOnce, DigestKeepsUp, SameIfAsLong, DigestFollowsFile
<1>2. QED BY <1>1, RecordInvHolds, OnceInvHolds, PTL
=============================================================================
