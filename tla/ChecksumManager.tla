--------------------------- MODULE ChecksumManager ---------------------------
(***************************************************************************)
(* The checksum manager (XrdHdfsChecksum.cc, Calc and Set of               *)
(* XrdHdfsChecksumCalc.cc): for every data file, a file under /cksums that *)
(* lists its digests, kept by Close of the writer, Calc and Set, and read  *)
(* by Get, List and Ver.  Nothing orders the threads that do so: they meet *)
(* in HDFS, call by call.                                                  *)
(*                                                                         *)
(* A content is a number: 0 the empty file that an open for writing        *)
(* leaves, and a fresh one for every file written.  A digest is the        *)
(* content it was computed from; the bytes that a client wrote are a       *)
(* content too, and not the file's if HDFS took only some of them.  Names  *)
(* of digests are compared without regard to case by the code and are      *)
(* model values here.                                                      *)
(*                                                                         *)
(* Left out: List and Size, which change nothing; the leak of the file     *)
(* object when Open fails; the separate reads of one Calc or Get (they see *)
(* one content, old or new).                                               *)
(***************************************************************************)
EXTENDS Integers, Sequences

CONSTANTS
  Threads,     \* server threads
  Paths,       \* data files
  Digests,     \* the names Set records for ChecksumManager::ALL, in order
  Calculable,  \* the names Calc can compute on its own
  LongDigests, \* the names whose value does not fit an XrdCksData
  Adler,       \* "adler32", what Get assumes when no name is given
  Asked,       \* the names clients ask for
  Workloads,   \* what may go on, see workload
  MaxContent,  \* bound: contents written
  NULL

Absent == -1      \* no such data file
Torn == -3        \* a digest cut short when it was written
NoAnswer == -2    \* the call returns no digest
Told == -4        \* a digest that a caller of Set(pfn, cks) gave

Names == Asked \cup Calculable \cup {Adler}
EntryRecord == [name : Names \cup {NULL}, of : Nat \cup {Torn, Told}]
EntryList == Seq(EntryRecord)

\* The manager's operations, and the writers who call Set.  "calc0" is a Calc
\* with do_set = 0.
ManagerOps == {"write", "get", "ver", "calc", "calc0", "set", "del"}

ASSUME DigestsAssumption == Digests \in Seq(Names) /\ Len(Digests) > 0
ASSUME BoundAssumption == MaxContent \in Nat
\* A serial workload has the manager's operations, one after the other, no
\* failure, and nobody else who touches the files.
ASSUME WorkloadsAssumption ==
  \A w \in Workloads :
    /\ w.serial \in BOOLEAN /\ w.faults \in BOOLEAN
    /\ w.serial => ~w.faults /\ w.ops \subseteq ManagerOps
ASSUME NullAssumption ==
  NULL \notin Threads \cup Paths \cup Names /\ NULL \notin EntryList

VARIABLES
  data,      \* data[p]: the content of file p, or Absent
  dwriter,   \* dwriter[p]: the thread that has p open for writing, or NULL
  csum,      \* csum[p]: the entries of /cksums/p, or NULL
  cwriter,   \* cwriter[p]: the thread that has /cksums/p open for writing
  call,      \* call[t]: the operation of thread t
  fresh,     \* the next content
  workload,  \* the operations there are, whether they follow each other, and
             \* whether HDFS fails and the server crashes; never changes.
             \* "short": HDFS may take less than a client writes
  seen       \* seen[p]: history, the contents p has had

vars == <<data, dwriter, csum, cwriter, call, fresh, seen, workload>>
hdfsData == <<data, dwriter, fresh, seen, workload>>
hdfsCsum == <<csum, cwriter>>

\* path and type: what the operation is about; recalc: a -ESRCH from Get makes
\* the server compute; entries: what SetMultiple shall write; answer: the
\* digest the caller gets.
Idle == [pc |-> "idle", path |-> NULL, type |-> NULL, recalc |-> FALSE,
         entries |-> << >>, answer |-> NoAnswer]

Init ==
  /\ data = [p \in Paths |-> Absent]
  /\ dwriter = [p \in Paths |-> NULL]
  /\ csum = [p \in Paths |-> NULL]
  /\ cwriter = [p \in Paths |-> NULL]
  /\ call = [t \in Threads |-> Idle]
  /\ fresh = 1
  /\ seen = [p \in Paths |-> {}]
  /\ workload \in Workloads

\* File p gets content n, t being left as the one that writes it.
PutData(p, n, t) ==
  /\ data' = [data EXCEPT ![p] = n]
  /\ dwriter' = [dwriter EXCEPT ![p] = t]
  /\ seen' = [seen EXCEPT ![p] = @ \cup ({n} \ {Absent})]
  /\ UNCHANGED workload

Goto(t, pc) == call' = [call EXCEPT ![t].pc = pc]

Begins(t, op) ==
  /\ call[t].pc = "idle"
  /\ op \in workload.ops
  /\ workload.serial => \A u \in Threads : call[u].pc = "idle"
----------------------------------------------------------------------------
(***************************************************************************)
(* The entries of a checksum file.                                         *)
(***************************************************************************)

Entry(name, n) == [name |-> name, of |-> n]

\* What Set(pfn, state) writes when the digests named have run over content n.
Entries(names, n) == [i \in 1 .. Len(names) |-> Entry(names[i], n)]

\* Parse refuses an entry without a colon or without a value.
Parses(entries) == \A i \in DOMAIN entries : entries[i].name # NULL

\* The digests of that name in a file (Get keeps the last one).
Named(entries, name) == {i \in DOMAIN entries : entries[i].name = name}
Last(S) == CHOOSE i \in S : \A j \in S : j <= i

\* Mutant: the other entries are lost.
MergeOnly(entries, name, n) == <<Entry(name, n)>>

\* Set(pfn, cks): replace the entry of that name, or add one.
Merge(entries, name, n) ==
  IF Named(entries, name) # {}
  THEN [i \in DOMAIN entries |->
          IF entries[i].name = name THEN Entry(name, n) ELSE entries[i]]
  ELSE Append(entries, Entry(name, n))

\* What a failed hdfsWrite may leave: whole entries, and perhaps one more with
\* its name (no colon: NULL) or its value cut.
Remains(entries) ==
  {SubSeq(entries, 1, k) : k \in 0 .. (Len(entries) - 1)}
  \cup {Append(SubSeq(entries, 1, k), Entry(NULL, 0)) : k \in 0 .. (Len(entries) - 1)}
  \cup {Append(SubSeq(entries, 1, k), Entry(entries[k + 1].name, Torn)) :
          k \in 0 .. (Len(entries) - 1)}
----------------------------------------------------------------------------
(***************************************************************************)
(* Writing a data file: Open and Close of XrdHdfsFile.                     *)
(***************************************************************************)

WriteOpen(t, p) ==
  /\ Begins(t, "write")
  /\ fresh <= MaxContent
  /\ PutData(p, 0, t)
  /\ call' = [call EXCEPT ![t] = [Idle EXCEPT !.pc = "writing", !.path = p]]
  /\ UNCHANGED <<hdfsCsum, fresh>>

\* The stream that went into the digests: the file, or another one when Write
\* fed bytes to them that hdfsWrite did not take.
Fed == {fresh} \cup IF "short" \in workload.ops THEN {fresh + 1} ELSE {}

\* Mutant: Close does not record the digests.
WriteCloseOnly(t) ==
  /\ call[t].pc = "writing"
  /\ dwriter[call[t].path] = t
  /\ fresh <= MaxContent
  /\ PutData(call[t].path, fresh, NULL)
  /\ fresh' = fresh + 1
  /\ Goto(t, "done")
  /\ UNCHANGED hdfsCsum

\* Mutant: Close updates one digest of the checksum file it finds.
WriteCloseMerges(t) ==
  LET old == csum[call[t].path] IN
  /\ call[t].pc = "writing"
  /\ dwriter[call[t].path] = t
  /\ fresh <= MaxContent
  /\ PutData(call[t].path, fresh, NULL)
  /\ fresh' = fresh + 1
  /\ call' = [call EXCEPT ![t].pc = "open",
                          ![t].entries = IF old = NULL THEN Entries(Digests, fresh)
                                         ELSE Merge(old, Adler, fresh)]
  /\ UNCHANGED hdfsCsum

\* hdfsCloseFile succeeds; Close goes on to manager.Set with every digest,
\* whatever the Writes before it returned.
WriteClose(t) ==
  /\ call[t].pc = "writing"
  /\ dwriter[call[t].path] = t
  /\ PutData(call[t].path, fresh, NULL)
  /\ \E n \in Fed :
       /\ n <= MaxContent
       /\ fresh' = n + 1
       /\ call' = [call EXCEPT ![t].pc = "open", ![t].entries = Entries(Digests, n)]
  /\ UNCHANGED hdfsCsum

\* hdfsCloseFile fails: the file was removed or taken over by another writer,
\* or HDFS reports an error after some bytes arrived.  No digest is recorded.
WriteCloseFails(t) ==
  /\ call[t].pc = "writing"
  /\ \/ /\ dwriter[call[t].path] # t
        /\ UNCHANGED hdfsData
     \/ /\ dwriter[call[t].path] = t
        /\ workload.faults
        /\ fresh <= MaxContent
        /\ PutData(call[t].path, fresh, NULL)
        /\ fresh' = fresh + 1
  /\ call' = [call EXCEPT ![t] = Idle]
  /\ UNCHANGED hdfsCsum
----------------------------------------------------------------------------
(***************************************************************************)
(* SetMultiple: Open for writing empties the checksum file, Write and      *)
(* Close put the entries there.  HDFS lets the last opener win: who was    *)
(* there before writes nothing any more.                                   *)
(***************************************************************************)

SetOpen(t) ==
  /\ call[t].pc = "open"
  /\ csum' = [csum EXCEPT ![call[t].path] = << >>]
  /\ cwriter' = [cwriter EXCEPT ![call[t].path] = t]
  /\ Goto(t, "write")
  /\ UNCHANGED hdfsData

\* The Open fails; Close and Calc ignore that.
SetOpenFails(t) ==
  /\ call[t].pc = "open"
  /\ workload.faults
  /\ Goto(t, "done")
  /\ UNCHANGED <<hdfsData, hdfsCsum>>

\* Mutant: the file is closed before it is written.
SetClosesFirst(t) ==
  LET p == call[t].path IN
  /\ call[t].pc = "write"
  /\ cwriter' = IF cwriter[p] = t THEN [cwriter EXCEPT ![p] = NULL] ELSE cwriter
  /\ Goto(t, "done")
  /\ UNCHANGED <<hdfsData, csum>>

\* The entries arrive, or a Write that fails leaves some of them, or nothing
\* happens since another thread has opened the file since.
SetWrite(t) ==
  LET p == call[t].path IN
  /\ call[t].pc = "write"
  /\ IF cwriter[p] = t
     THEN /\ csum' \in {[csum EXCEPT ![p] = e] :
                          e \in {call[t].entries}
                                \cup IF workload.faults THEN Remains(call[t].entries) ELSE {}}
          /\ cwriter' = [cwriter EXCEPT ![p] = NULL]
     ELSE UNCHANGED hdfsCsum
  /\ Goto(t, "done")
  /\ UNCHANGED hdfsData
----------------------------------------------------------------------------
(***************************************************************************)
(* Get                                                                     *)
(***************************************************************************)

\* What Get does with the checksum file it finds: no file and no sense in it
\* mean -ESRCH; no such digest means Del first; one too long means -EDOM.
GetOutcome(c, type) ==
  IF c = NULL THEN [pc |-> "esrch", answer |-> NoAnswer]
  ELSE IF ~Parses(c) THEN [pc |-> "esrch", answer |-> NoAnswer]
  ELSE IF Named(c, type) = {} THEN [pc |-> "del", answer |-> NoAnswer]
  ELSE IF type \in LongDigests THEN [pc |-> "done", answer |-> NoAnswer]
  ELSE [pc |-> "done", answer |-> c[Last(Named(c, type))].of]

\* A client asks for a digest of p; the server will compute it on -ESRCH.
Get(t, p, type) ==
  LET r == GetOutcome(csum[p], type) IN
  /\ Begins(t, "get")
  /\ call' = [call EXCEPT ![t] =
                [Idle EXCEPT !.pc = r.pc, !.path = p, !.type = type,
                             !.recalc = TRUE, !.answer = r.answer]]
  /\ UNCHANGED <<hdfsData, hdfsCsum>>

\* Ver asks Get for an XrdCksData without a name, hence for adler32, and
\* calls Calc with the same one on failure, which refuses it with -ENOTSUP.
Ver(t, p) ==
  LET r == GetOutcome(csum[p], Adler) IN
  /\ Begins(t, "ver")
  /\ call' = [call EXCEPT ![t] =
                [Idle EXCEPT !.pc = r.pc, !.path = p, !.type = Adler,
                             !.answer = r.answer]]
  /\ UNCHANGED <<hdfsData, hdfsCsum>>

\* Del(pfn): g_hdfs_oss->Unlink(pfn), the data file.  As user "nobody" it may
\* be refused.
GetDel(t) ==
  /\ call[t].pc = "del"
  /\ \/ PutData(call[t].path, Absent, NULL)
     \/ UNCHANGED <<data, dwriter, seen, workload>>
  /\ Goto(t, "esrch")
  /\ UNCHANGED <<hdfsCsum, fresh>>

\* -ESRCH reaches the server, which starts Calc or gives up.
GetReturns(t) ==
  /\ call[t].pc = "esrch"
  /\ Goto(t, IF call[t].recalc THEN "calc" ELSE "done")
  /\ UNCHANGED <<hdfsData, hdfsCsum>>

\* Del called by the server.
Del(t, p) ==
  /\ Begins(t, "del")
  /\ PutData(p, Absent, NULL)
  /\ UNCHANGED <<hdfsCsum, fresh, call>>
----------------------------------------------------------------------------
(***************************************************************************)
(* Calc and Set(pfn, cks)                                                  *)
(***************************************************************************)

\* The server wants a digest computed anew.
CalcBegins(t, p, type) ==
  /\ Begins(t, "calc")
  /\ call' = [call EXCEPT ![t] = [Idle EXCEPT !.pc = "calc", !.path = p, !.type = type]]
  /\ UNCHANGED <<hdfsData, hdfsCsum>>

\* Mutants: a failed Open goes unnoticed; it is taken for an empty file.
DigestedUnchecked(p) == {data[p]}
DigestedOrEmpty(p) == {IF data[p] = Absent THEN 0 ELSE data[p]}

\* What Calc finds in the file, if it can open it.
Digested(p) == {data[p]} \ {Absent}

\* The digests of Calc: all of them to be recorded, or the one asked for.
CalcDigests(do_set, type) == IF do_set THEN Digests ELSE <<type>>

\* -ENOTSUP for a name it does not know, -ENOENT without a file, -EIO if a
\* read fails.
CalcFails(t) ==
  /\ call[t].pc = "calc"
  /\ \/ call[t].type \notin Calculable
     \/ Digested(call[t].path) = {}
     \/ workload.faults
  /\ Goto(t, "done")
  /\ UNCHANGED <<hdfsData, hdfsCsum>>

\* The digests run over the file; Set follows whatever do_set says, with
\* every digest if do_set is set and with the one asked for otherwise.
Calc(t, do_set) ==
  /\ call[t].pc = "calc"
  /\ call[t].type \in Calculable
  /\ do_set \/ "calc0" \in workload.ops
  /\ \E n \in Digested(call[t].path) :
       call' = [call EXCEPT ![t].pc = "open", ![t].answer = n,
                            ![t].entries = Entries(CalcDigests(do_set, call[t].type), n)]
  /\ UNCHANGED <<hdfsData, hdfsCsum>>

\* Set(pfn, cks) with whatever digest its caller gives: it needs a checksum
\* file to begin with, not a data file, and rewrites it with that one digest
\* replaced or added.  (A digest that is there already changes nothing.)
SetCks(t, p, type) ==
  /\ Begins(t, "set")
  /\ csum[p] # NULL
  /\ Parses(csum[p])
  /\ call' = [call EXCEPT ![t] =
                [Idle EXCEPT !.pc = "open", !.path = p, !.type = type,
                             !.entries = Merge(csum[p], type, Told)]]
  /\ UNCHANGED <<hdfsData, hdfsCsum>>

Return(t) ==
  /\ call[t].pc = "done"
  /\ call' = [call EXCEPT ![t] = Idle]
  /\ UNCHANGED <<hdfsData, hdfsCsum>>
----------------------------------------------------------------------------
(***************************************************************************)
(* What else happens to the files.                                         *)
(***************************************************************************)

\* XrdHdfsSys::Unlink leaves the checksum file alone.
Unlink(p) ==
  /\ "unlink" \in workload.ops
  /\ data[p] # Absent
  /\ PutData(p, Absent, NULL)
  /\ UNCHANGED <<hdfsCsum, fresh, call>>

\* XrdHdfsSys::Truncate, whatever the size asked for, and Create: an open for
\* writing and a close.
Truncate(p) ==
  /\ "truncate" \in workload.ops
  /\ PutData(p, 0, NULL)
  /\ UNCHANGED <<hdfsCsum, fresh, call>>

\* The server dies.  HDFS closes what was open, as it is.
Crash ==
  /\ workload.faults
  /\ dwriter' = [p \in Paths |-> NULL]
  /\ cwriter' = [p \in Paths |-> NULL]
  /\ call' = [t \in Threads |-> Idle]
  /\ UNCHANGED <<data, csum, fresh, seen, workload>>

Step(t) ==
  \/ WriteClose(t) \/ WriteCloseFails(t)
  \/ SetOpen(t) \/ SetOpenFails(t) \/ SetWrite(t)
  \/ GetDel(t) \/ GetReturns(t)
  \/ CalcFails(t)
  \/ \E do_set \in BOOLEAN : Calc(t, do_set)
  \/ Return(t)

Next ==
  \/ \E t \in Threads, p \in Paths :
       \/ WriteOpen(t, p)
       \/ Ver(t, p)
       \/ Del(t, p)
       \/ \E type \in Asked : Get(t, p, type)
       \/ \E type \in Asked : CalcBegins(t, p, type)
       \/ \E type \in Asked : SetCks(t, p, type)
  \/ \E t \in Threads : Step(t)
  \/ \E p \in Paths : Unlink(p) \/ Truncate(p)
  \/ Crash

Spec == Init /\ [][Next]_vars
----------------------------------------------------------------------------
CallRecord ==
  [pc : {"idle", "writing", "open", "write", "del", "esrch", "calc", "done"},
   path : Paths \cup {NULL}, type : Names \cup {NULL}, recalc : BOOLEAN,
   entries : EntryList, answer : Nat \cup {Torn, Told, NoAnswer}]

\* Every variable has its type; a thread at work has a path.
TypeOK ==
  /\ data \in [Paths -> Nat \cup {Absent}]
  /\ dwriter \in [Paths -> Threads \cup {NULL}]
  /\ csum \in [Paths -> EntryList \cup {NULL}]
  /\ cwriter \in [Paths -> Threads \cup {NULL}]
  /\ call \in [Threads -> CallRecord]
  /\ \A t \in Threads : call[t].pc # "idle" => call[t].path # NULL
  /\ fresh \in Nat
  /\ seen \in [Paths -> SUBSET Nat]
  /\ workload \in Workloads

\* A checksum file is empty only while a SetMultiple stands between its Open
\* and its Write (two of them racing on the file included): without a failure
\* no empty file is left behind, which Get would take for a missing digest.
EmptyOnlyWhileWritten ==
  ~workload.faults =>
    \A p \in Paths : csum[p] = << >> =>
      \E t \in Threads : cwriter[p] = t /\ call[t].pc = "write" /\ call[t].path = p

\* The entries of a checksum file whose value the plugin computed.
Computed(entries) ==
  {i \in DOMAIN entries : entries[i].name # NULL /\ entries[i].of \notin {Torn, Told}}

\* All digests in a checksum file that the plugin computed are of one content,
\* whichever writers, Calcs and Sets raced to record theirs, and whatever a
\* failed write or a crash has left of them: a client that compares two of
\* them compares digests of the same bytes.
OneContentPerFile ==
  \A p \in Paths : csum[p] # NULL =>
    \A i, j \in Computed(csum[p]) : csum[p][i].of = csum[p][j].of

\* A digest that Get or Calc returns is one of a content the file has had, or
\* the one a caller of Set gave, or, after a failure, one cut short, as long as
\* HDFS takes what clients write: Write feeds the digests before hdfsWrite says
\* how much it took, and after a short or failed one a good Close records
\* digests of bytes the file never had.
AnswerWasContent ==
  "short" \notin workload.ops =>
    \A t \in Threads :
      call[t].answer \in
        {NoAnswer}
        \cup (IF "set" \in workload.ops THEN {Told} ELSE {})
        \cup (IF workload.faults THEN {Torn} ELSE {})
        \cup (IF call[t].path = NULL THEN {} ELSE seen[call[t].path])

\* As long as the manager's operations and the writers follow each other and
\* nothing else touches the file, the digests recorded for a file that is there
\* are those of the file as it is, or what Set was told, whenever nobody is at
\* work.  A Del leaves the record of a file that is gone.
RecordedIsCurrent ==
  (workload.serial /\ \A t \in Threads : call[t].pc = "idle") =>
    \A p \in Paths : csum[p] # NULL /\ data[p] # Absent =>
      \A i \in DOMAIN csum[p] : csum[p][i].of \in {data[p], Told}

DelKeepsData(t) ==
  (call[t].pc = "del" /\ call'[t].pc = "esrch") => data'[call[t].path] = data[call[t].path]

\* A Get that finds no digest leaves the data file in place: "return -ESRCH;
\* in this case, XRootD will recompute the checksum", for which the file has
\* to be there.
QueryKeepsData == [][\A t \in Threads : DelKeepsData(t)]_vars

\* The workloads in which whoever records digests records all of them: nothing
\* fails, no Calc has do_set = 0, and no Set reads the file while another
\* SetMultiple has it empty.
FullRecords ==
  /\ ~workload.faults
  /\ "calc0" \notin workload.ops
  /\ workload.serial \/ "set" \notin workload.ops

Listed(type) == \E i \in DOMAIN Digests : Digests[i] = type

\* In those, the race with a SetMultiple between its Open and its Write is the
\* only way in which Get or Ver, asked for a digest that Close records, comes to
\* unlink the data file: whenever it decides to, the checksum file is empty and
\* another thread is about to fill it.  In particular it does not happen while
\* operations follow each other.  (Asked for a digest that is never recorded,
\* after a Calc with do_set = 0, after a Set that met an empty file, or after a
\* failure, Get unlinks the file without any race.)
DelOnlyWhileWritten ==
  [][FullRecords =>
       \A t \in Threads :
         (call[t].pc # "del" /\ call'[t].pc = "del" /\ Listed(call'[t].type)) =>
           LET p == call'[t].path IN
           /\ csum[p] = << >>
           /\ \E u \in Threads : cwriter[p] = u /\ call[u].pc = "write" /\ call[u].path = p]_vars
=============================================================================
