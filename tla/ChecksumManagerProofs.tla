------------------------ MODULE ChecksumManagerProofs ------------------------
(***************************************************************************)
(* ChecksumManager for any number of threads, files, digests and contents: *)
(* what is in the checksum files, and what Get and Calc answer from them.  *)
(***************************************************************************)
EXTENDS ChecksumManager, TLAPS, WellFoundedInduction

USE DigestsAssumption, BoundAssumption, WorkloadsAssumption, NullAssumption
----------------------------------------------------------------------------
(***************************************************************************)
(* Lists of entries                                                        *)
(***************************************************************************)

\* A set of natural numbers has a least element.
LEMMA LeastNatural ==
  ASSUME NEW T, T \subseteq Nat, T # {}
  PROVE  \E x \in T : \A y \in T : x <= y
<1>1. PICK x \in T : \A y \in T : ~(<<y, x>> \in OpToRel(<, Nat))
  BY NatLessThanWellFounded, WFMin
<1>2. \A y \in T : ~(y < x)
  <2> SUFFICES ASSUME NEW y \in T, y < x PROVE <<y, x>> \in OpToRel(<, Nat)
    BY <1>1
  <2>1. <<y, x>> \in Nat \X Nat
    OBVIOUS
  <2>2. QED BY <2>1 DEF OpToRel
<1>3. QED BY <1>2

\* Get's loop over the entries ends with the last one of the name: there is one
\* if there is any.
LEMMA LastIsOne ==
  ASSUME NEW n \in Nat, NEW S, S \subseteq 1 .. n, S # {}
  PROVE  Last(S) \in S
<1> DEFINE T == {k \in Nat : n - k \in S}
<1>1. PICK i \in S : TRUE
  OBVIOUS
<1>2. n - i \in Nat /\ n - (n - i) = i
  OBVIOUS
<1>3. n - i \in T
  BY <1>1, <1>2
<1>4. PICK m \in T : \A k \in T : m <= k
  BY <1>3, LeastNatural
<1>5. ASSUME NEW j \in S PROVE j <= n - m
  <2>1. n - j \in Nat /\ n - (n - j) = j
    OBVIOUS
  <2>2. n - j \in T
    BY <2>1
  <2>3. m <= n - j
    BY <1>4, <2>2
  <2>4. QED BY <1>4, <2>3
<1>6. n - m \in S
  BY <1>4
<1>7. QED BY <1>5, <1>6 DEF Last

\* The entries of a list.
LEMMA ElementType ==
  ASSUME NEW e \in EntryList
  PROVE  /\ Len(e) \in Nat /\ DOMAIN e = 1 .. Len(e)
         /\ \A i \in DOMAIN e : /\ e[i] \in EntryRecord
                               /\ e[i].name \in Names \cup {NULL}
                               /\ e[i].of \in Nat \cup {Torn, Told}
<1>1. Len(e) \in Nat /\ DOMAIN e = 1 .. Len(e) /\ \A i \in DOMAIN e : e[i] \in EntryRecord
  BY DEF EntryList
<1>2. \A x \in EntryRecord : x.name \in Names \cup {NULL} /\ x.of \in Nat \cup {Torn, Told}
  BY DEF EntryRecord
<1>3. QED BY <1>1, <1>2

\* What Set(pfn, state) writes.
LEMMA EntriesType ==
  ASSUME NEW names \in Seq(Names), NEW n \in Nat
  PROVE  /\ Entries(names, n) \in EntryList
         /\ DOMAIN Entries(names, n) = 1 .. Len(names)
         /\ \A i \in 1 .. Len(names) :
              Entries(names, n)[i].name = names[i] /\ Entries(names, n)[i].of = n
         /\ Len(names) > 0 => Entries(names, n) # << >>
<1>1. /\ DOMAIN Entries(names, n) = 1 .. Len(names)
      /\ \A i \in 1 .. Len(names) :
           /\ Entries(names, n)[i] \in EntryRecord
           /\ Entries(names, n)[i].name = names[i] /\ Entries(names, n)[i].of = n
  BY DEF Entries, Entry, EntryRecord
<1>2. Entries(names, n) \in EntryList
  BY <1>1 DEF Entries, EntryList
<1>3. ASSUME Len(names) > 0 PROVE Entries(names, n) # << >>
  BY <1>1, <1>3
<1>4. QED BY <1>1, <1>2, <1>3

\* What Set(pfn, cks) writes: every name that was there still is.
LEMMA MergeType ==
  ASSUME NEW e \in EntryList, NEW name \in Names, NEW n \in Nat \cup {Told}
  PROVE  /\ Merge(e, name, n) \in EntryList /\ Merge(e, name, n) # << >>
         /\ \A i \in DOMAIN Merge(e, name, n) :
              \/ Merge(e, name, n)[i].of = n
              \/ i \in DOMAIN e /\ Merge(e, name, n)[i] = e[i]
         /\ \A type : Named(e, type) # {} => Named(Merge(e, name, n), type) # {}
<1>1. /\ Entry(name, n) \in EntryRecord /\ Entry(name, n).name = name /\ Entry(name, n).of = n
      /\ e \in Seq(EntryRecord)
  BY DEF Entry, EntryList, EntryRecord
<1> DEFINE x == Entry(name, n)
<1> HIDE DEF x
<1>2. x \in EntryRecord /\ x.name = name /\ x.of = n
  BY <1>1 DEF x
<1>3. CASE Named(e, name) # {}
  <2> DEFINE m == [i \in DOMAIN e |-> IF e[i].name = name THEN x ELSE e[i]]
  <2>1. Merge(e, name, n) = m
    BY <1>3 DEF Merge, x
  <2>2. /\ m \in Seq(EntryRecord) /\ DOMAIN m = DOMAIN e
        /\ \A i \in DOMAIN e : m[i].name = e[i].name /\ (m[i] = x \/ m[i] = e[i])
    <3>1. DOMAIN e = 1 .. Len(e) /\ Len(e) \in Nat /\ \A i \in DOMAIN e : e[i] \in EntryRecord
      BY ElementType
    <3>2. QED BY <1>2, <3>1
  <2>3. DOMAIN e # {}
    BY <1>3 DEF Named
  <2> HIDE DEF m
  <2>4. m # << >>
    BY <2>2, <2>3
  <2>5. \A type : Named(e, type) # {} => Named(m, type) # {}
    BY <2>2 DEF Named
  <2>6. QED BY <1>2, <2>1, <2>2, <2>4, <2>5 DEF EntryList
<1>4. CASE Named(e, name) = {}
  <2> DEFINE m == Append(e, x)
  <2>1. Merge(e, name, n) = m
    BY <1>4 DEF Merge, x
  <2>2. /\ m \in Seq(EntryRecord) /\ DOMAIN m = 1 .. (Len(e) + 1) /\ Len(e) \in Nat
        /\ DOMAIN e = 1 .. Len(e) /\ m[Len(e) + 1] = x
        /\ \A i \in 1 .. Len(e) : m[i] = e[i]
    BY <1>1, <1>2
  <2> HIDE DEF m
  <2>3. m # << >>
    BY <2>2
  <2>4. \A i \in DOMAIN m : m[i] = x \/ (i \in DOMAIN e /\ m[i] = e[i])
    BY <2>2
  <2>5. \A type : Named(e, type) # {} => Named(m, type) # {}
    BY <2>2 DEF Named
  <2>6. QED BY <1>2, <2>1, <2>2, <2>3, <2>4, <2>5 DEF EntryList
<1>5. QED BY <1>3, <1>4

\* What a failed hdfsWrite leaves: entries that were to be written, and
\* perhaps one that is cut.
LEMMA RemainsType ==
  ASSUME NEW e \in EntryList, NEW m \in Remains(e)
  PROVE  /\ m \in EntryList
         /\ \A i \in DOMAIN m :
              \/ m[i].name = NULL \/ m[i].of = Torn
              \/ i \in DOMAIN e /\ m[i] = e[i]
<1>1. PICK k \in 0 .. (Len(e) - 1) :
        \/ m = SubSeq(e, 1, k)
        \/ m = Append(SubSeq(e, 1, k), Entry(NULL, 0))
        \/ m = Append(SubSeq(e, 1, k), Entry(e[k + 1].name, Torn))
  BY DEF Remains
<1> DEFINE s == SubSeq(e, 1, k)
<1>2. e \in Seq(EntryRecord) /\ Len(e) \in Nat /\ k \in Nat /\ k + 1 \in 1 .. Len(e)
  BY DEF EntryList
<1>3. /\ s \in Seq(EntryRecord) /\ Len(s) = k /\ DOMAIN s = 1 .. k
      /\ \A i \in 1 .. k : i \in DOMAIN e /\ s[i] = e[i]
  BY <1>2
<1>4. e[k + 1].name \in Names \cup {NULL}
  BY <1>2, ElementType
<1> HIDE DEF s
<1>5. CASE m = s
  BY <1>3, <1>5 DEF EntryList
<1>6. ASSUME NEW x \in EntryRecord, x.name = NULL \/ x.of = Torn, m = Append(s, x)
      PROVE  /\ m \in EntryList
             /\ \A i \in DOMAIN m :
                  \/ m[i].name = NULL \/ m[i].of = Torn
                  \/ i \in DOMAIN e /\ m[i] = e[i]
  <2>1. /\ m \in Seq(EntryRecord) /\ DOMAIN m = 1 .. (k + 1) /\ m[k + 1] = x
        /\ \A i \in 1 .. k : m[i] = s[i]
    BY <1>2, <1>3, <1>6
  <2>2. QED BY <1>2, <1>3, <1>6, <2>1 DEF EntryList
<1>7. /\ Entry(NULL, 0) \in EntryRecord /\ Entry(NULL, 0).name = NULL
      /\ Entry(e[k + 1].name, Torn) \in EntryRecord /\ Entry(e[k + 1].name, Torn).of = Torn
  BY <1>4 DEF Entry, EntryRecord
<1>8. QED BY <1>1, <1>5, <1>6, <1>7 DEF s

\* What Get makes of a checksum file.
LEMMA GetOutcomeType ==
  ASSUME NEW e \in EntryList \cup {NULL}, NEW type \in Names
  PROVE  LET r == GetOutcome(e, type) IN
         /\ r.pc \in {"esrch", "del", "done"}
         /\ r.answer \in Nat \cup {Torn, Told, NoAnswer}
         /\ \/ r.answer = NoAnswer
            \/ e # NULL /\ \E i \in DOMAIN e : e[i].name = type /\ e[i].of = r.answer
         /\ r.pc = "del" => e # NULL /\ Named(e, type) = {}
<1>1. CASE e = NULL \/ ~Parses(e)
  BY <1>1 DEF GetOutcome
<1>2. CASE e # NULL /\ Parses(e) /\ (Named(e, type) = {} \/ type \in LongDigests)
  BY <1>2 DEF GetOutcome
<1>3. CASE e # NULL /\ Parses(e) /\ Named(e, type) # {} /\ type \notin LongDigests
  <2>1. e \in EntryList /\ e \in Seq(EntryRecord)
    BY <1>3 DEF EntryList
  <2>2. Len(e) \in Nat /\ DOMAIN e = 1 .. Len(e) /\ Named(e, type) \subseteq 1 .. Len(e)
    BY <2>1 DEF Named
  <2> DEFINE k == Last(Named(e, type))
  <2>3. k \in Named(e, type)
    BY <1>3, <2>2, LastIsOne
  <2> HIDE DEF k
  <2>4. k \in DOMAIN e /\ e[k].name = type /\ e[k].of \in Nat \cup {Torn, Told}
    BY <2>1, <2>3, ElementType DEF Named
  <2>5. GetOutcome(e, type) = [pc |-> "done", answer |-> e[k].of]
    BY <1>3 DEF GetOutcome, k
  <2>6. QED BY <1>3, <2>4, <2>5
<1>4. QED BY <1>1, <1>2, <1>3
----------------------------------------------------------------------------
(***************************************************************************)
(* The operations of a thread, and the types                               *)
(***************************************************************************)

PCs == {"idle", "writing", "open", "write", "del", "esrch", "calc", "done"}

\* Thread t goes on to pc with that path, those entries and that answer; the
\* others stay where they are.
Becomes(t, pc, path, entries, answer) ==
  /\ call' \in [Threads -> CallRecord]
  /\ call'[t].pc = pc /\ call'[t].path = path
  /\ call'[t].entries = entries /\ call'[t].answer = answer
  /\ \A u \in Threads : u # t => call'[u] = call[u]

\* The fields of a call have their types.
LEMMA CallFields ==
  ASSUME NEW r \in CallRecord
  PROVE  /\ r.pc \in PCs /\ r.path \in Paths \cup {NULL} /\ r.type \in Names \cup {NULL}
         /\ r.recalc \in BOOLEAN /\ r.entries \in EntryList
         /\ r.answer \in Nat \cup {Torn, Told, NoAnswer}
BY DEF CallRecord, PCs

\* An idle thread.
LEMMA IdleType ==
  /\ Idle \in CallRecord /\ Idle.pc = "idle" /\ Idle.path = NULL
  /\ Idle.entries = << >> /\ Idle.answer = NoAnswer
<1>1. << >> \in EntryList
  BY DEF EntryList
<1>2. QED BY <1>1 DEF Idle, CallRecord

\* A step that replaces the call of t.
LEMMA CallBecomes ==
  ASSUME call \in [Threads -> CallRecord], NEW t \in Threads, NEW r \in CallRecord,
         call' = [call EXCEPT ![t] = r]
  PROVE  Becomes(t, r.pc, r.path, r.entries, r.answer)
BY DEF Becomes

\* A step that only moves t on.
LEMMA GotoBecomes ==
  ASSUME call \in [Threads -> CallRecord], NEW t \in Threads, NEW pc \in PCs, Goto(t, pc)
  PROVE  Becomes(t, pc, call[t].path, call[t].entries, call[t].answer)
BY SMTT(30) DEF Goto, Becomes, CallRecord, PCs

\* A step after which t has nothing to do.
LEMMA IdleBecomes ==
  ASSUME call \in [Threads -> CallRecord], NEW t \in Threads,
         call' = [call EXCEPT ![t] = Idle]
  PROVE  Becomes(t, "idle", NULL, << >>, NoAnswer)
BY IdleType DEF Becomes


\* The types of what the operations on HDFS change.
DataTyped ==
  /\ data \in [Paths -> Nat \cup {Absent}]
  /\ dwriter \in [Paths -> Threads \cup {NULL}]
  /\ fresh \in Nat
  /\ seen \in [Paths -> SUBSET Nat]
  /\ workload \in Workloads
CsumTyped ==
  /\ csum \in [Paths -> EntryList \cup {NULL}]
  /\ cwriter \in [Paths -> Threads \cup {NULL}]
CallTyped ==
  /\ call \in [Threads -> CallRecord]
  /\ \A t \in Threads : call[t].pc # "idle" => call[t].path # NULL

LEMMA TypeParts == TypeOK <=> DataTyped /\ CsumTyped /\ CallTyped
BY DEF TypeOK, DataTyped, CsumTyped, CallTyped

\* What PutData does to the files and to their history.
LEMMA PutDataEffect ==
  ASSUME DataTyped, NEW p \in Paths, NEW n \in Nat \cup {Absent},
         NEW w \in Threads \cup {NULL}, PutData(p, n, w)
  PROVE  /\ data' \in [Paths -> Nat \cup {Absent}]
         /\ dwriter' \in [Paths -> Threads \cup {NULL}]
         /\ seen' \in [Paths -> SUBSET Nat]
         /\ workload' = workload
         /\ data'[p] = n /\ dwriter'[p] = w
         /\ \A q \in Paths : q # p => data'[q] = data[q] /\ dwriter'[q] = dwriter[q]
         /\ \A q \in Paths : seen[q] \subseteq seen'[q]
         /\ n # Absent => n \in seen'[p]
<1>1. {n} \ {Absent} \subseteq Nat
  OBVIOUS
<1>2. QED BY <1>1 DEF DataTyped, PutData

\* A thread at work has a path.
LEMMA BusyPath ==
  ASSUME CallTyped, NEW t \in Threads, call[t].pc # "idle"
  PROVE  /\ call[t].path \in Paths /\ call[t].entries \in EntryList
         /\ call[t].type \in Names \cup {NULL} /\ call[t].recalc \in BOOLEAN
         /\ call[t].answer \in Nat \cup {Torn, Told, NoAnswer}
BY CallFields DEF CallTyped

\* A step of t with a path keeps the types of the calls.
LEMMA BecomesTyped ==
  ASSUME CallTyped, NEW t \in Threads, NEW pc, NEW path, NEW entries, NEW answer,
         Becomes(t, pc, path, entries, answer), pc # "idle" => path # NULL
  PROVE  CallTyped'
BY DEF CallTyped, Becomes

LEMMA WriteOpenMoves ==
  ASSUME TypeOK, NEW t \in Threads, NEW p \in Paths, WriteOpen(t, p)
  PROVE  Becomes(t, "writing", p, << >>, NoAnswer)
<1> DEFINE r == [Idle EXCEPT !.pc = "writing", !.path = p]
<1>1. << >> \in EntryList
  BY DEF EntryList
<1>2. /\ r \in CallRecord /\ r.pc = "writing" /\ r.path = p
      /\ r.entries = << >> /\ r.answer = NoAnswer
  BY <1>1 DEF Idle, CallRecord
<1>3. call' = [call EXCEPT ![t] = r] /\ call \in [Threads -> CallRecord]
  BY DEF WriteOpen, TypeOK
<1> HIDE DEF r
<1>4. Becomes(t, r.pc, r.path, r.entries, r.answer)
  BY <1>2, <1>3, CallBecomes
<1>5. QED BY <1>2, <1>4

\* Close goes on to record the digests of what it was fed, of the file if HDFS
\* took all of it.
LEMMA WriteCloseMoves ==
  ASSUME TypeOK, NEW t \in Threads, WriteClose(t)
  PROVE  \E n \in Nat :
           /\ fresh' = n + 1
           /\ "short" \notin workload.ops => n = fresh
           /\ Becomes(t, "open", call[t].path, Entries(Digests, n), call[t].answer)
<1>1. fresh \in Nat /\ call \in [Threads -> CallRecord]
  BY DEF TypeOK
<1>2. PICK n \in Fed :
        /\ fresh' = n + 1
        /\ call' = [call EXCEPT ![t].pc = "open", ![t].entries = Entries(Digests, n)]
  BY DEF WriteClose
<1>3. n \in Nat /\ ("short" \notin workload.ops => n = fresh)
  BY <1>1 DEF Fed
<1> DEFINE e == Entries(Digests, n)
           r == [call[t] EXCEPT !.pc = "open", !.entries = e]
<1>4. e \in EntryList
  BY <1>3, EntriesType
<1>5. call' = [call EXCEPT ![t].pc = "open", ![t].entries = e]
  BY <1>2
<1> HIDE DEF e
<1>6. /\ r \in CallRecord /\ r.pc = "open" /\ r.path = call[t].path
      /\ r.entries = e /\ r.answer = call[t].answer
  BY <1>1, <1>4, ZenonT(60) DEF CallRecord
<1>7. call' = [call EXCEPT ![t] = r]
  BY <1>5
<1> HIDE DEF r
<1>8. Becomes(t, r.pc, r.path, r.entries, r.answer)
  BY <1>1, <1>6, <1>7, CallBecomes
<1>9. Becomes(t, "open", call[t].path, Entries(Digests, n), call[t].answer)
  BY <1>6, <1>8 DEF e
<1>10. QED BY <1>2, <1>3, <1>9

\* Get and Ver end, or go on to Del or to -ESRCH.
LEMMA QueryMoves ==
  ASSUME TypeOK, NEW t \in Threads, NEW p \in Paths,
         Ver(t, p) \/ \E type \in Asked : Get(t, p, type)
  PROVE  \E type \in Asked \cup {Adler} :
           LET r == GetOutcome(csum[p], type)
           IN  Becomes(t, r.pc, p, << >>, r.answer) /\ call'[t].type = type
<1> DEFINE o(type) == GetOutcome(csum[p], type)
<1>0. call \in [Threads -> CallRecord] /\ csum[p] \in EntryList \cup {NULL} /\ << >> \in EntryList
  BY DEF TypeOK, EntryList
<1>1. ASSUME NEW type \in Asked \cup {Adler}
      PROVE  o(type).pc \in PCs /\ o(type).answer \in Nat \cup {Torn, Told, NoAnswer} /\ type \in Names
  BY <1>0, GetOutcomeType DEF PCs, Names
<1>2. ASSUME NEW type \in Asked, Get(t, p, type)
      PROVE  Becomes(t, o(type).pc, p, << >>, o(type).answer) /\ call'[t].type = type
  <2> DEFINE r == [Idle EXCEPT !.pc = o(type).pc, !.path = p, !.type = type,
                               !.recalc = TRUE, !.answer = o(type).answer]
  <2>1. call' = [call EXCEPT ![t] = r]
    BY <1>2 DEF Get
  <2> HIDE DEF o
  <2>2. /\ r \in CallRecord /\ r.pc = o(type).pc /\ r.path = p /\ r.type = type
        /\ r.entries = << >> /\ r.answer = o(type).answer
    BY <1>0, <1>1 DEF Idle, CallRecord, PCs
  <2> HIDE DEF r
  <2>3. Becomes(t, r.pc, r.path, r.entries, r.answer)
    BY <1>0, <2>1, <2>2, CallBecomes
  <2>4. call'[t] = r
    BY <1>0, <2>1
  <2>5. QED BY <2>2, <2>3, <2>4
<1>3. ASSUME Ver(t, p)
      PROVE  Becomes(t, o(Adler).pc, p, << >>, o(Adler).answer) /\ call'[t].type = Adler
  <2> DEFINE r == [Idle EXCEPT !.pc = o(Adler).pc, !.path = p, !.type = Adler,
                               !.answer = o(Adler).answer]
  <2>1. call' = [call EXCEPT ![t] = r]
    BY <1>3 DEF Ver
  <2>2. Adler \in Asked \cup {Adler}
    OBVIOUS
  <2>3. o(Adler).pc \in PCs /\ o(Adler).answer \in Nat \cup {Torn, Told, NoAnswer} /\ Adler \in Names
    BY <1>1, <2>2
  <2> HIDE DEF o
  <2>4. /\ r \in CallRecord /\ r.pc = o(Adler).pc /\ r.path = p /\ r.type = Adler
        /\ r.entries = << >> /\ r.answer = o(Adler).answer
    BY <1>0, <2>3 DEF Idle, CallRecord, PCs
  <2> HIDE DEF r
  <2>5. Becomes(t, r.pc, r.path, r.entries, r.answer)
    BY <1>0, <2>1, <2>4, CallBecomes
  <2>6. call'[t] = r
    BY <1>0, <2>1
  <2>7. QED BY <2>4, <2>5, <2>6
<1>4. QED BY <1>2, <1>3

LEMMA CalcBeginsMoves ==
  ASSUME TypeOK, NEW t \in Threads, NEW p \in Paths, NEW type \in Asked, CalcBegins(t, p, type)
  PROVE  Becomes(t, "calc", p, << >>, NoAnswer)
<1> DEFINE r == [Idle EXCEPT !.pc = "calc", !.path = p, !.type = type]
<1>1. << >> \in EntryList /\ type \in Names
  BY DEF EntryList, Names
<1>2. /\ r \in CallRecord /\ r.pc = "calc" /\ r.path = p
      /\ r.entries = << >> /\ r.answer = NoAnswer
  BY <1>1 DEF Idle, CallRecord
<1>3. call' = [call EXCEPT ![t] = r] /\ call \in [Threads -> CallRecord]
  BY DEF CalcBegins, TypeOK
<1> HIDE DEF r
<1>4. Becomes(t, r.pc, r.path, r.entries, r.answer)
  BY <1>2, <1>3, CallBecomes
<1>5. QED BY <1>2, <1>4

\* Calc answers with the content it found and has it recorded.
LEMMA CalcMoves ==
  ASSUME TypeOK, NEW t \in Threads, NEW do_set \in BOOLEAN, Calc(t, do_set)
  PROVE  LET n == data[call[t].path]
             names == CalcDigests(do_set, call[t].type)
         IN /\ call[t].path \in Paths /\ n \in Nat /\ names \in Seq(Names) /\ Len(names) > 0
            /\ Becomes(t, "open", call[t].path, Entries(names, n), n)
<1> DEFINE n == data[call[t].path]
           names == CalcDigests(do_set, call[t].type)
           e == Entries(names, n)
<1>1. /\ call[t].pc = "calc" /\ call[t].type \in Calculable
      /\ n # Absent
      /\ call' = [call EXCEPT ![t].pc = "open", ![t].answer = n, ![t].entries = e]
  BY DEF Calc, Digested
<1>2. CallTyped /\ DataTyped
  BY TypeParts
<1>3. call[t].path \in Paths /\ n \in Nat /\ call \in [Threads -> CallRecord]
  BY <1>1, <1>2, BusyPath DEF DataTyped, CallTyped
<1>4. names \in Seq(Names) /\ Len(names) > 0
  <2>1. call[t].type \in Names
    BY <1>1 DEF Names
  <2>2. QED BY <2>1 DEF CalcDigests
<1> HIDE DEF names, n
<1>5. e \in EntryList
  BY <1>3, <1>4, EntriesType
<1> HIDE DEF e
<1> DEFINE r == [call[t] EXCEPT !.pc = "open", !.answer = n, !.entries = e]
<1>6. /\ r \in CallRecord /\ r.pc = "open" /\ r.path = call[t].path
      /\ r.entries = e /\ r.answer = n
  BY <1>3, <1>5, ZenonT(60) DEF CallRecord
<1>7. call' = [call EXCEPT ![t] = r]
  BY <1>1
<1> HIDE DEF r
<1>8. Becomes(t, r.pc, r.path, r.entries, r.answer)
  BY <1>3, <1>6, <1>7, CallBecomes
<1>9. Becomes(t, "open", call[t].path, e, n)
  BY <1>6, <1>8
<1>10. QED BY <1>3, <1>4, <1>9 DEF e, n, names

LEMMA SetCksMoves ==
  ASSUME TypeOK, NEW t \in Threads, NEW p \in Paths, NEW type \in Asked, SetCks(t, p, type)
  PROVE  /\ csum[p] \in EntryList /\ type \in Names
         /\ Becomes(t, "open", p, Merge(csum[p], type, Told), NoAnswer)
<1> DEFINE e == Merge(csum[p], type, Told)
           r == [Idle EXCEPT !.pc = "open", !.path = p, !.type = type, !.entries = e]
<1>1. /\ csum[p] \in EntryList /\ type \in Names
      /\ call \in [Threads -> CallRecord] /\ call' = [call EXCEPT ![t] = r]
  BY DEF SetCks, TypeOK, Names
<1>2. e \in EntryList
  BY <1>1, MergeType
<1> HIDE DEF e
<1>3. /\ r \in CallRecord /\ r.pc = "open" /\ r.path = p
      /\ r.entries = e /\ r.answer = NoAnswer
  BY <1>1, <1>2 DEF Idle, CallRecord
<1> HIDE DEF r
<1>4. Becomes(t, r.pc, r.path, r.entries, r.answer)
  BY <1>1, <1>3, CallBecomes
<1>5. QED BY <1>1, <1>3, <1>4 DEF e

\* Steps of t that go on without touching path, entries or answer.
LEMMA PlainMoves ==
  ASSUME TypeOK, NEW t \in Threads
  PROVE  /\ SetOpen(t) => Becomes(t, "write", call[t].path, call[t].entries, call[t].answer)
         /\ SetOpenFails(t) \/ SetWrite(t) \/ CalcFails(t) =>
              Becomes(t, "done", call[t].path, call[t].entries, call[t].answer)
         /\ GetDel(t) => Becomes(t, "esrch", call[t].path, call[t].entries, call[t].answer)
         /\ GetReturns(t) =>
              \E pc \in {"calc", "done"} :
                Becomes(t, pc, call[t].path, call[t].entries, call[t].answer)
         /\ WriteCloseFails(t) \/ Return(t) => Becomes(t, "idle", NULL, << >>, NoAnswer)
<1>1. call \in [Threads -> CallRecord] /\ {"write", "done", "esrch", "calc"} \subseteq PCs
  BY DEF TypeOK, PCs
<1>2. \A pc \in {"write", "done", "esrch", "calc"} :
        Goto(t, pc) => Becomes(t, pc, call[t].path, call[t].entries, call[t].answer)
  BY <1>1, GotoBecomes
<1>3. /\ SetOpen(t) => Goto(t, "write")
      /\ SetOpenFails(t) \/ SetWrite(t) \/ CalcFails(t) => Goto(t, "done")
      /\ GetDel(t) => Goto(t, "esrch")
      /\ GetReturns(t) => Goto(t, "calc") \/ Goto(t, "done")
  BY DEF SetOpen, SetOpenFails, SetWrite, CalcFails, GetDel, GetReturns
<1>4. WriteCloseFails(t) \/ Return(t) => Becomes(t, "idle", NULL, << >>, NoAnswer)
  BY <1>1, IdleBecomes DEF WriteCloseFails, Return
<1>5. QED BY <1>2, <1>3, <1>4

\* The workload is chosen once.
LEMMA WorkloadStays == [Next]_vars => workload' = workload
BY ZenonT(60) DEF Next, Step, vars, WriteOpen, Ver, Del, Get, CalcBegins, SetCks, WriteClose,
       WriteCloseFails, SetOpen, SetOpenFails, SetWrite, GetDel, GetReturns, CalcFails, Calc,
       Return, Unlink, Truncate, Crash, PutData, hdfsData

LEMMA InitType == Init => TypeOK
BY IdleType DEF Init, TypeOK

\* Every step keeps the types.
LEMMA NextType == TypeOK /\ [Next]_vars => TypeOK'
<1> SUFFICES ASSUME TypeOK, [Next]_vars PROVE TypeOK'
  OBVIOUS
<1>0. DataTyped /\ CsumTyped /\ CallTyped
  BY TypeParts
<1>1. ASSUME UNCHANGED hdfsData PROVE DataTyped'
  BY <1>0, <1>1 DEF DataTyped, hdfsData
<1>2. ASSUME UNCHANGED hdfsCsum PROVE CsumTyped'
  BY <1>0, <1>2 DEF CsumTyped, hdfsCsum
<1>3. ASSUME UNCHANGED call PROVE CallTyped'
  BY <1>0, <1>3 DEF CallTyped
<1>4. ASSUME NEW p \in Paths, NEW n \in Nat \cup {Absent}, NEW w \in Threads \cup {NULL},
             PutData(p, n, w), fresh' \in Nat
      PROVE  DataTyped'
  BY <1>0, <1>4, PutDataEffect DEF DataTyped
<1>5. fresh \in Nat /\ fresh + 1 \in Nat
  BY <1>0 DEF DataTyped
<1>6. DataTyped' /\ CsumTyped' /\ CallTyped' => TypeOK'
  BY DEF TypeOK, DataTyped, CsumTyped, CallTyped
<1>7. ASSUME NEW t \in Threads, NEW p \in Paths, WriteOpen(t, p) PROVE TypeOK'
  <2>1. PutData(p, 0, t) /\ fresh' = fresh /\ UNCHANGED hdfsCsum
    BY <1>7 DEF WriteOpen
  <2>2. DataTyped'
    BY <1>4, <1>5, <2>1
  <2>3. CallTyped'
    BY <1>0, <1>7, WriteOpenMoves, BecomesTyped
  <2>4. QED BY <1>2, <1>6, <2>1, <2>2, <2>3
<1>8. ASSUME NEW t \in Threads, NEW p \in Paths,
             Ver(t, p) \/ \E type \in Asked : Get(t, p, type)
      PROVE  TypeOK'
  <2>1. UNCHANGED <<hdfsData, hdfsCsum>>
    BY <1>8 DEF Ver, Get
  <2>2. PICK type \in Asked \cup {Adler} :
          LET r == GetOutcome(csum[p], type) IN Becomes(t, r.pc, p, << >>, r.answer)
    BY <1>8, QueryMoves
  <2>3. CallTyped'
    BY <1>0, <2>2, BecomesTyped
  <2>4. QED BY <1>1, <1>2, <1>6, <2>1, <2>3
<1>9. ASSUME NEW t \in Threads, NEW p \in Paths, Del(t, p) PROVE TypeOK'
  <2>1. PutData(p, Absent, NULL) /\ fresh' = fresh /\ UNCHANGED hdfsCsum /\ UNCHANGED call
    BY <1>9 DEF Del
  <2>2. QED BY <1>2, <1>3, <1>4, <1>5, <1>6, <2>1
<1>10. ASSUME NEW t \in Threads, NEW p \in Paths, NEW type \in Asked,
              CalcBegins(t, p, type) \/ SetCks(t, p, type)
       PROVE  TypeOK'
  <2>1. UNCHANGED <<hdfsData, hdfsCsum>>
    BY <1>10 DEF CalcBegins, SetCks
  <2>2. CallTyped'
    BY <1>0, <1>10, CalcBeginsMoves, SetCksMoves, BecomesTyped
  <2>3. QED BY <1>1, <1>2, <1>6, <2>1, <2>2
<1>11. ASSUME NEW t \in Threads, WriteClose(t) PROVE TypeOK'
  <2>1. call[t].path \in Paths
    BY <1>0, <1>11, BusyPath DEF WriteClose
  <2>2. PutData(call[t].path, fresh, NULL) /\ UNCHANGED hdfsCsum
    BY <1>11 DEF WriteClose
  <2>a. fresh' \in Nat
    <3>1. PICK n \in Nat : fresh' = n + 1
      BY <1>11, WriteCloseMoves
    <3>2. QED BY <3>1
  <2>3. DataTyped'
    BY <1>4, <1>5, <2>1, <2>2, <2>a
  <2>4. CallTyped'
    BY <1>0, <1>11, <2>1, WriteCloseMoves, BecomesTyped
  <2>5. QED BY <1>2, <1>6, <2>2, <2>3, <2>4
<1>12. ASSUME NEW t \in Threads, WriteCloseFails(t) PROVE TypeOK'
  <2>1. call[t].path \in Paths
    BY <1>0, <1>12, BusyPath DEF WriteCloseFails
  <2>2. /\ UNCHANGED hdfsCsum
        /\ \/ UNCHANGED hdfsData
           \/ PutData(call[t].path, fresh, NULL) /\ fresh' = fresh + 1
    BY <1>12 DEF WriteCloseFails
  <2>3. DataTyped'
    BY <1>1, <1>4, <1>5, <2>1, <2>2
  <2>4. CallTyped'
    BY <1>0, <1>12, PlainMoves, BecomesTyped
  <2>5. QED BY <1>2, <1>6, <2>2, <2>3, <2>4
<1>13. ASSUME NEW t \in Threads, SetOpen(t) \/ SetOpenFails(t) \/ SetWrite(t) \/ GetDel(t)
                                 \/ GetReturns(t) \/ CalcFails(t) \/ Return(t)
       PROVE  CallTyped'
  <2>1. CASE Return(t)
    BY <1>0, <2>1, PlainMoves, BecomesTyped
  <2>2. CASE ~Return(t)
    <3>1. call[t].path # NULL
      BY <1>0, <1>13, <2>2 DEF CallTyped, SetOpen, SetOpenFails, SetWrite, GetDel, GetReturns,
                               CalcFails
    <3>2. \E pc : Becomes(t, pc, call[t].path, call[t].entries, call[t].answer)
      BY <1>13, <2>2, PlainMoves
    <3>3. QED BY <1>0, <3>1, <3>2, BecomesTyped
  <2>3. QED BY <2>1, <2>2
<1>14. ASSUME NEW t \in Threads, SetOpen(t) PROVE TypeOK'
  <2>1. call[t].path \in Paths
    BY <1>0, <1>14, BusyPath DEF SetOpen
  <2>2. << >> \in EntryList
    BY DEF EntryList
  <2>3. CsumTyped' /\ UNCHANGED hdfsData
    BY <1>0, <1>14, <2>1, <2>2 DEF CsumTyped, SetOpen
  <2>4. QED BY <1>1, <1>6, <1>13, <1>14, <2>3
<1>15. ASSUME NEW t \in Threads, SetWrite(t) PROVE TypeOK'
  <2>1. call[t].path \in Paths /\ call[t].entries \in EntryList
    BY <1>0, <1>15, BusyPath DEF SetWrite
  <2>2. CsumTyped' /\ UNCHANGED hdfsData
    <3>1. CASE cwriter[call[t].path] = t
      <4>1. PICK e \in {call[t].entries} \cup Remains(call[t].entries) :
              csum' = [csum EXCEPT ![call[t].path] = e]
        BY <1>15, <3>1 DEF SetWrite
      <4>2. e \in EntryList
        BY <2>1, RemainsType
      <4>3. cwriter' = [cwriter EXCEPT ![call[t].path] = NULL] /\ UNCHANGED hdfsData
        BY <1>15, <3>1 DEF SetWrite
      <4>4. QED BY <1>0, <4>1, <4>2, <4>3 DEF CsumTyped
    <3>2. CASE cwriter[call[t].path] # t
      BY <1>2, <1>15, <3>2 DEF SetWrite
    <3>3. QED BY <3>1, <3>2
  <2>3. QED BY <1>1, <1>6, <1>13, <1>15, <2>2
<1>16. ASSUME NEW t \in Threads, GetDel(t) PROVE TypeOK'
  <2>1. call[t].path \in Paths
    BY <1>0, <1>16, BusyPath DEF GetDel
  <2>2. /\ PutData(call[t].path, Absent, NULL) \/ UNCHANGED <<data, dwriter, seen, workload>>
        /\ fresh' = fresh /\ UNCHANGED hdfsCsum
    BY <1>16 DEF GetDel
  <2>3. DataTyped'
    BY <1>1, <1>4, <1>5, <2>1, <2>2 DEF hdfsData
  <2>4. QED BY <1>2, <1>6, <1>13, <1>16, <2>2, <2>3
<1>17. ASSUME NEW t \in Threads, SetOpenFails(t) \/ GetReturns(t) \/ CalcFails(t) \/ Return(t)
       PROVE  TypeOK'
  <2>1. UNCHANGED <<hdfsData, hdfsCsum>>
    BY <1>17 DEF SetOpenFails, GetReturns, CalcFails, Return
  <2>2. QED BY <1>1, <1>2, <1>6, <1>13, <1>17, <2>1
<1>18. ASSUME NEW t \in Threads, NEW do_set \in BOOLEAN, Calc(t, do_set) PROVE TypeOK'
  <2>1. UNCHANGED <<hdfsData, hdfsCsum>>
    BY <1>18 DEF Calc
  <2>2. CallTyped'
    BY <1>0, <1>18, CalcMoves, BecomesTyped
  <2>3. QED BY <1>1, <1>2, <1>6, <2>1, <2>2
<1>19. ASSUME NEW p \in Paths, Unlink(p) \/ Truncate(p) PROVE TypeOK'
  <2>1. /\ PutData(p, Absent, NULL) \/ PutData(p, 0, NULL)
        /\ fresh' = fresh /\ UNCHANGED hdfsCsum /\ UNCHANGED call
    BY <1>19 DEF Unlink, Truncate
  <2>2. QED BY <1>2, <1>3, <1>4, <1>5, <1>6, <2>1
<1>20. CASE Crash
  BY <1>0, <1>20, IdleType DEF Crash, DataTyped, CsumTyped, CallTyped, TypeOK
<1>21. CASE UNCHANGED vars
  BY <1>21 DEF vars, TypeOK
<1>22. QED
  BY <1>7, <1>8, <1>9, <1>10, <1>11, <1>12, <1>14, <1>15, <1>16, <1>17, <1>18, <1>19,
     <1>20, <1>21 DEF Next, Step

\* Every variable of the checksum manager keeps its type, whatever HDFS, the
\* other threads and the crashes of the server do.
THEOREM TypeCorrect == Spec => []TypeOK
BY InitType, NextType, PTL DEF Spec
----------------------------------------------------------------------------
(***************************************************************************)
(* An empty checksum file is being written                                 *)
(***************************************************************************)

Busy(t) == call[t].pc # "idle"
Setting(t) == call[t].pc \in {"open", "write"}

\* Who has a checksum file open stands before the Write of it.
WriterWrites ==
  \A p \in Paths, t \in Threads :
    cwriter[p] = t => call[t].pc = "write" /\ call[t].path = p

\* SetMultiple has something to write.
HasEntries == \A t \in Threads : Setting(t) => call[t].entries # << >>

\* An empty checksum file is open.
EmptyIsOpen ==
  ~workload.faults => \A p \in Paths : csum[p] = << >> => cwriter[p] # NULL

FileInv == WriterWrites /\ HasEntries /\ EmptyIsOpen

\* A step that leaves the checksum files alone.
LEMMA QuietFile ==
  ASSUME FileInv, UNCHANGED hdfsCsum, workload' = workload,
         NEW t \in Threads, NEW pc, NEW path, NEW entries, NEW answer,
         Becomes(t, pc, path, entries, answer),
         call[t].pc # "write", pc # "write", pc = "open" => entries # << >>
  PROVE  FileInv'
<1>1. \A u \in Threads : u # t => call'[u] = call[u]
  BY DEF Becomes
<1>2. call'[t].pc = pc /\ call'[t].entries = entries
  BY DEF Becomes
<1>3. WriterWrites'
  BY <1>1 DEF FileInv, WriterWrites, hdfsCsum
<1>4. HasEntries'
  BY <1>1, <1>2 DEF FileInv, HasEntries, Setting
<1>5. EmptyIsOpen'
  BY DEF FileInv, EmptyIsOpen, hdfsCsum
<1>6. QED BY <1>3, <1>4, <1>5 DEF FileInv

\* SetMultiple's Open empties the file and takes it.
LEMMA SetOpenFile ==
  ASSUME TypeOK, FileInv, NEW t \in Threads, SetOpen(t) PROVE FileInv'
<1> DEFINE p == call[t].path
<1>1. Becomes(t, "write", p, call[t].entries, call[t].answer)
  BY PlainMoves
<1>2. p \in Paths
  BY TypeParts, BusyPath DEF SetOpen
<1>3. /\ call[t].pc = "open" /\ workload' = workload
      /\ csum' = [csum EXCEPT ![p] = << >>] /\ cwriter' = [cwriter EXCEPT ![p] = t]
  BY DEF SetOpen, hdfsData
<1>4. \A q \in Paths : /\ cwriter'[q] = IF q = p THEN t ELSE cwriter[q]
                       /\ csum'[q] = IF q = p THEN << >> ELSE csum[q]
  BY <1>3 DEF TypeOK
<1>5. /\ call'[t].pc = "write" /\ call'[t].path = p /\ call'[t].entries = call[t].entries
      /\ \A u \in Threads : u # t => call'[u] = call[u]
  BY <1>1 DEF Becomes
<1> HIDE DEF p
<1>6. WriterWrites'
  BY <1>3, <1>4, <1>5 DEF FileInv, WriterWrites
<1>7. HasEntries'
  BY <1>3, <1>5 DEF FileInv, HasEntries, Setting
<1>8. EmptyIsOpen'
  BY <1>3, <1>4 DEF FileInv, EmptyIsOpen
<1>9. QED BY <1>6, <1>7, <1>8 DEF FileInv

\* SetMultiple's Write gives it back with entries in it, unless another thread
\* has taken it.
LEMMA SetWriteFile ==
  ASSUME TypeOK, FileInv, NEW t \in Threads, SetWrite(t) PROVE FileInv'
<1> DEFINE p == call[t].path
<1>1. Becomes(t, "done", p, call[t].entries, call[t].answer)
  BY PlainMoves
<1>2. p \in Paths /\ call[t].pc = "write" /\ workload' = workload
  BY TypeParts, BusyPath DEF SetWrite, hdfsData
<1>3. /\ call'[t].pc = "done" /\ \A u \in Threads : u # t => call'[u] = call[u]
  BY <1>1 DEF Becomes
<1>4. HasEntries'
  BY <1>3 DEF FileInv, HasEntries, Setting
<1>5. CASE cwriter[p] = t
  <2>1. PICK e \in {call[t].entries}
                   \cup IF workload.faults THEN Remains(call[t].entries) ELSE {} :
          csum' = [csum EXCEPT ![p] = e]
    BY <1>5 DEF SetWrite
  <2>2. cwriter' = [cwriter EXCEPT ![p] = NULL]
    BY <1>5 DEF SetWrite
  <2>3. ~workload.faults => e # << >>
    BY <1>2 DEF FileInv, HasEntries, Setting
  <2>4. \A q \in Paths : /\ cwriter'[q] = IF q = p THEN NULL ELSE cwriter[q]
                         /\ csum'[q] = IF q = p THEN e ELSE csum[q]
    BY <2>1, <2>2 DEF TypeOK
  <2> HIDE DEF p
  <2>5. WriterWrites'
    BY <1>3, <2>4 DEF FileInv, WriterWrites, p
  <2>6. EmptyIsOpen'
    BY <1>2, <2>3, <2>4 DEF FileInv, EmptyIsOpen
  <2>7. QED BY <1>4, <2>5, <2>6 DEF FileInv
<1>6. CASE cwriter[p] # t
  <2>1. UNCHANGED hdfsCsum
    BY <1>6 DEF SetWrite
  <2>2. WriterWrites'
    BY <1>3, <1>6, <2>1 DEF FileInv, WriterWrites, hdfsCsum
  <2>3. EmptyIsOpen'
    BY <1>2, <2>1 DEF FileInv, EmptyIsOpen, hdfsCsum
  <2>4. QED BY <1>4, <2>2, <2>3 DEF FileInv
<1>7. QED BY <1>5, <1>6

LEMMA InitFile == Init => FileInv
<1> SUFFICES ASSUME Init PROVE FileInv
  OBVIOUS
<1>1. /\ \A p \in Paths : cwriter[p] = NULL /\ csum[p] = NULL
      /\ \A t \in Threads : call[t] = Idle
  BY DEF Init
<1>2. NULL # << >>
  <2>1. << >> \in EntryList
    BY DEF EntryList
  <2>2. QED BY <2>1
<1>3. QED BY <1>1, <1>2, IdleType DEF FileInv, WriterWrites, HasEntries, EmptyIsOpen, Setting

LEMMA NextFile == TypeOK /\ FileInv /\ [Next]_vars => FileInv'
<1> SUFFICES ASSUME TypeOK, FileInv, [Next]_vars PROVE FileInv'
  OBVIOUS
<1>0. CallTyped /\ DataTyped
  BY TypeParts
<1>1. ASSUME NEW t \in Threads, NEW p \in Paths, WriteOpen(t, p) PROVE FileInv'
  <2>1. call[t].pc = "idle" /\ UNCHANGED hdfsCsum /\ workload' = workload
    BY <1>1 DEF WriteOpen, Begins, PutData
  <2>2. QED BY <1>1, <2>1, WriteOpenMoves, QuietFile
<1>2. ASSUME NEW t \in Threads, NEW p \in Paths,
             Ver(t, p) \/ \E type \in Asked : Get(t, p, type)
      PROVE  FileInv'
  <2>1. call[t].pc = "idle" /\ UNCHANGED hdfsCsum /\ workload' = workload
    BY <1>2 DEF Ver, Get, Begins, hdfsData
  <2>2. PICK type \in Asked \cup {Adler} :
          LET r == GetOutcome(csum[p], type) IN Becomes(t, r.pc, p, << >>, r.answer)
    BY <1>2, QueryMoves
  <2>3. GetOutcome(csum[p], type).pc \in {"esrch", "del", "done"}
    BY GetOutcomeType DEF TypeOK, Names
  <2>4. QED BY <2>1, <2>2, <2>3, QuietFile
<1>3. ASSUME NEW t \in Threads, NEW p \in Paths, NEW type \in Asked, CalcBegins(t, p, type)
      PROVE  FileInv'
  <2>1. call[t].pc = "idle" /\ UNCHANGED hdfsCsum /\ workload' = workload
    BY <1>3 DEF CalcBegins, Begins, hdfsData
  <2>2. QED BY <1>3, <2>1, CalcBeginsMoves, QuietFile
<1>4. ASSUME NEW t \in Threads, NEW p \in Paths, NEW type \in Asked, SetCks(t, p, type)
      PROVE  FileInv'
  <2>1. call[t].pc = "idle" /\ UNCHANGED hdfsCsum /\ workload' = workload
    BY <1>4 DEF SetCks, Begins, hdfsData
  <2>2. Merge(csum[p], type, Told) # << >>
    BY <1>4, SetCksMoves, MergeType
  <2>3. QED BY <1>4, <2>1, <2>2, SetCksMoves, QuietFile
<1>5. ASSUME NEW t \in Threads, WriteClose(t) PROVE FileInv'
  <2>1. call[t].pc = "writing" /\ UNCHANGED hdfsCsum /\ workload' = workload
    BY <1>5 DEF WriteClose, PutData
  <2>2. PICK n \in Nat : Becomes(t, "open", call[t].path, Entries(Digests, n), call[t].answer)
    BY <1>5, WriteCloseMoves
  <2>3. Entries(Digests, n) # << >>
    BY EntriesType
  <2>4. QED BY <2>1, <2>2, <2>3, QuietFile
<1>6. ASSUME NEW t \in Threads, WriteCloseFails(t) \/ SetOpenFails(t) \/ GetDel(t) \/ GetReturns(t)
                                \/ CalcFails(t) \/ Return(t)
      PROVE  FileInv'
  <2>1. call[t].pc # "write" /\ UNCHANGED hdfsCsum /\ workload' = workload
    BY <1>6 DEF WriteCloseFails, SetOpenFails, GetDel, GetReturns, CalcFails, Return, PutData,
                hdfsData
  <2>2. \E pc \in {"done", "esrch", "calc", "idle"} : \E path, entries, answer :
          Becomes(t, pc, path, entries, answer)
    BY <1>6, PlainMoves
  <2>3. QED BY <2>1, <2>2, QuietFile
<1>7. ASSUME NEW t \in Threads, NEW do_set \in BOOLEAN, Calc(t, do_set) PROVE FileInv'
  <2>1. call[t].pc = "calc" /\ UNCHANGED hdfsCsum /\ workload' = workload
    BY <1>7 DEF Calc, hdfsData
  <2> DEFINE e == Entries(CalcDigests(do_set, call[t].type), data[call[t].path])
  <2>2. e # << >> /\ Becomes(t, "open", call[t].path, e, data[call[t].path])
    BY <1>7, CalcMoves, EntriesType
  <2> HIDE DEF e
  <2>3. QED BY <2>1, <2>2, QuietFile
<1>8. ASSUME UNCHANGED <<hdfsCsum, call, workload>> PROVE FileInv'
  BY <1>8 DEF FileInv, WriterWrites, HasEntries, EmptyIsOpen, Setting, hdfsCsum
<1>9. ASSUME NEW t \in Threads, NEW p \in Paths, Del(t, p) PROVE FileInv'
  BY <1>8, <1>9 DEF Del, PutData
<1>10. ASSUME NEW p \in Paths, Unlink(p) \/ Truncate(p) PROVE FileInv'
  BY <1>8, <1>10 DEF Unlink, Truncate, PutData
<1>11. CASE Crash
  <2>1. /\ workload.faults /\ workload' = workload
        /\ \A p \in Paths : cwriter'[p] = NULL
        /\ \A t \in Threads : call'[t] = Idle
    BY <1>11 DEF Crash
  <2>2. QED BY <2>1, IdleType DEF FileInv, WriterWrites, HasEntries, EmptyIsOpen, Setting
<1>12. CASE UNCHANGED vars
  BY <1>8, <1>12 DEF vars, hdfsCsum
<1>13. QED
  BY <1>1, <1>2, <1>3, <1>4, <1>5, <1>6, <1>7, <1>9, <1>10, <1>11, <1>12,
     SetOpenFile, SetWriteFile DEF Next, Step

\* Its invariant holds in every reachable state.
THEOREM FileInvHolds == Spec => []FileInv
BY InitFile, NextFile, TypeCorrect, PTL DEF Spec

\* As long as HDFS does not fail and the server does not crash, SetMultiple
\* leaves no empty checksum file behind, however many threads race on it.
THEOREM NoEmptyFileLeft == Spec => []EmptyOnlyWhileWritten
<1>1. TypeOK /\ FileInv => EmptyOnlyWhileWritten
  BY DEF TypeOK, FileInv, EmptyIsOpen, WriterWrites, EmptyOnlyWhileWritten
<1>2. QED BY <1>1, FileInvHolds, TypeCorrect, PTL
----------------------------------------------------------------------------
(***************************************************************************)
(* Digests are of contents that the file has had                           *)
(***************************************************************************)

\* The values that are no content's: what a caller of Set gave, and what a
\* failed write has cut.
Excused == (IF "set" \in workload.ops THEN {Told} ELSE {})
           \cup (IF workload.faults THEN {Torn} ELSE {})

EntriesSeen(e, p) ==
  \A i \in DOMAIN e : e[i].name # NULL => e[i].of \in seen[p] \cup Excused

\* The content of a file is one it has had; so are those its checksum file
\* names, those a thread is about to record for it and those it answers with.
DataSeen == \A p \in Paths : data[p] # Absent => data[p] \in seen[p]
CsumSeen == \A p \in Paths : csum[p] # NULL => EntriesSeen(csum[p], p)
CallSeen == \A t \in Threads : Busy(t) => EntriesSeen(call[t].entries, call[t].path)

AnswersSeen ==
  \A t \in Threads :
    call[t].answer \in {NoAnswer} \cup Excused
                       \cup (IF call[t].path = NULL THEN {} ELSE seen[call[t].path])

SeenInv == DataSeen /\ CsumSeen /\ CallSeen /\ AnswersSeen

\* HDFS takes all that clients write.
WholeWrites == "short" \notin workload.ops

SeenGrows == workload' = workload /\ \A p \in Paths : seen[p] \subseteq seen'[p]

LEMMA ExcusedStay ==
  ASSUME SeenGrows PROVE Excused' = Excused
BY DEF SeenGrows, Excused

\* What is recorded stays a record of a content the file has had.
LEMMA EntriesStaySeen ==
  ASSUME SeenGrows, NEW p \in Paths, NEW e, EntriesSeen(e, p)
  PROVE  \A i \in DOMAIN e : e[i].name # NULL => e[i].of \in seen'[p] \cup Excused
BY DEF SeenGrows, EntriesSeen

LEMMA CsumStaysSeen ==
  ASSUME SeenGrows, CsumSeen, csum' = csum PROVE CsumSeen'
<1>1. Excused' = Excused
  BY ExcusedStay
<1>2. ASSUME NEW p \in Paths, csum[p] # NULL PROVE EntriesSeen(csum[p], p)'
  <2>1. \A i \in DOMAIN csum[p] :
          csum[p][i].name # NULL => csum[p][i].of \in seen'[p] \cup Excused
    BY <1>2, EntriesStaySeen DEF CsumSeen
  <2>2. QED BY <1>1, <2>1 DEF EntriesSeen
<1>3. QED BY <1>2 DEF CsumSeen

\* A step of t that leaves the history true of the files and brings nothing
\* into the entries or the answer of t that its file has not had.
LEMMA SeenStep ==
  ASSUME CallTyped, SeenInv, SeenGrows, DataSeen', CsumSeen',
         NEW t \in Threads, NEW pc, NEW path, NEW entries, NEW answer,
         Becomes(t, pc, path, entries, answer),
         pc # "idle" =>
           /\ path \in Paths
           /\ \A i \in DOMAIN entries :
                entries[i].name # NULL => entries[i].of \in seen'[path] \cup Excused,
         \/ answer \in {NoAnswer} \cup Excused
         \/ path \in Paths /\ answer \in seen'[path]
  PROVE  SeenInv'
<1>0. Excused' = Excused
  BY ExcusedStay
<1>1. /\ call'[t].pc = pc /\ call'[t].path = path
      /\ call'[t].entries = entries /\ call'[t].answer = answer
      /\ \A u \in Threads : u # t => call'[u] = call[u]
  BY DEF Becomes
<1>2. \A u \in Threads : Busy(u) => call[u].path \in Paths
  BY BusyPath DEF Busy
<1>3. ASSUME NEW u \in Threads, Busy(u)' PROVE EntriesSeen(call[u].entries, call[u].path)'
  <2>1. CASE u = t
    BY <1>0, <1>1, <1>3, <2>1 DEF EntriesSeen, Busy
  <2>2. CASE u # t
    <3>1. call'[u] = call[u] /\ Busy(u) /\ call[u].path \in Paths
      BY <1>1, <1>2, <1>3, <2>2 DEF Busy
    <3>2. EntriesSeen(call[u].entries, call[u].path)
      BY <3>1 DEF SeenInv, CallSeen
    <3>3. \A i \in DOMAIN call[u].entries :
            call[u].entries[i].name # NULL
              => call[u].entries[i].of \in seen'[call[u].path] \cup Excused
      BY <3>1, <3>2, EntriesStaySeen
    <3>4. QED BY <1>0, <3>1, <3>3 DEF EntriesSeen
  <2>3. QED BY <2>1, <2>2
<1>4. ASSUME NEW u \in Threads
      PROVE  call'[u].answer \in {NoAnswer} \cup Excused
               \cup (IF call'[u].path = NULL THEN {} ELSE seen'[call'[u].path])
  <2>1. CASE u = t
    BY <1>1, <2>1
  <2>2. CASE u # t
    <3>1. call'[u] = call[u] /\ call[u].path \in Paths \cup {NULL}
      BY <1>1, <2>2, CallFields DEF CallTyped
    <3>2. call[u].answer \in {NoAnswer} \cup Excused
            \cup (IF call[u].path = NULL THEN {} ELSE seen[call[u].path])
      BY DEF SeenInv, AnswersSeen
    <3>3. QED BY <3>1, <3>2 DEF SeenGrows
  <2>3. QED BY <2>1, <2>2
<1>5. CallSeen' /\ AnswersSeen'
  BY <1>0, <1>3, <1>4 DEF CallSeen, AnswersSeen
<1>6. QED BY <1>5 DEF SeenInv

\* A step of t that keeps its path, entries and answer.
LEMMA SeenPlain ==
  ASSUME CallTyped, SeenInv, SeenGrows, DataSeen', CsumSeen',
         NEW t \in Threads, Busy(t), NEW pc,
         Becomes(t, pc, call[t].path, call[t].entries, call[t].answer)
  PROVE  SeenInv'
<1>1. call[t].path \in Paths
  BY BusyPath DEF Busy
<1>2. EntriesSeen(call[t].entries, call[t].path)
  BY DEF SeenInv, CallSeen
<1>3. call[t].answer \in {NoAnswer} \cup Excused \/ call[t].answer \in seen'[call[t].path]
  BY <1>1 DEF SeenInv, AnswersSeen, SeenGrows
<1>4. \A i \in DOMAIN call[t].entries :
        call[t].entries[i].name # NULL => call[t].entries[i].of \in seen'[call[t].path] \cup Excused
  BY <1>1, <1>2, EntriesStaySeen
<1>5. QED BY <1>1, <1>3, <1>4, SeenStep

\* What PutData and what leaving the data alone do to the history.
LEMMA PutDataSeen ==
  ASSUME DataTyped, SeenInv, NEW p \in Paths, NEW n \in Nat \cup {Absent},
         NEW w \in Threads \cup {NULL}, PutData(p, n, w)
  PROVE  SeenGrows /\ DataSeen'
<1>1. /\ \A q \in Paths : seen[q] \subseteq seen'[q]
      /\ data'[p] = n /\ (n # Absent => n \in seen'[p])
      /\ \A q \in Paths : q # p => data'[q] = data[q]
      /\ workload' = workload
  BY PutDataEffect
<1>2. QED BY <1>1 DEF SeenGrows, DataSeen, SeenInv

LEMMA KeepDataSeen ==
  ASSUME SeenInv, UNCHANGED <<data, seen, workload>> PROVE SeenGrows /\ DataSeen'
BY DEF SeenInv, SeenGrows, DataSeen

\* Steps that leave the calls alone.
LEMMA SeenCalls ==
  ASSUME CallTyped, SeenInv, SeenGrows, DataSeen', CsumSeen', call' = call PROVE SeenInv'
<1>1. \A u \in Threads : call[u].path \in Paths \cup {NULL} /\ (Busy(u) => call[u].path \in Paths)
  BY BusyPath, CallFields DEF CallTyped, Busy
<1>2. Excused' = Excused
  BY ExcusedStay
<1>a. ASSUME NEW u \in Threads, Busy(u)' PROVE EntriesSeen(call[u].entries, call[u].path)'
  <2>1. Busy(u) /\ EntriesSeen(call[u].entries, call[u].path)
    BY <1>a DEF SeenInv, CallSeen, Busy
  <2>2. \A i \in DOMAIN call[u].entries :
          call[u].entries[i].name # NULL
            => call[u].entries[i].of \in seen'[call[u].path] \cup Excused
    BY <1>1, <2>1, EntriesStaySeen
  <2>3. QED BY <1>2, <2>2 DEF EntriesSeen
<1>b. CallSeen'
  BY <1>a DEF CallSeen
<1>3. AnswersSeen'
  BY <1>1, <1>2 DEF SeenInv, AnswersSeen, SeenGrows
<1>4. QED BY <1>b, <1>3 DEF SeenInv

LEMMA InitSeen == Init => SeenInv
<1> SUFFICES ASSUME Init PROVE SeenInv
  OBVIOUS
<1>1. \A p \in Paths : data[p] = Absent /\ csum[p] = NULL
  BY DEF Init
<1>2. \A t \in Threads : call[t] = Idle
  BY DEF Init
<1>3. QED BY <1>1, <1>2, IdleType DEF SeenInv, DataSeen, CsumSeen, CallSeen, AnswersSeen, Busy

LEMMA NextSeen == TypeOK /\ SeenInv /\ WholeWrites /\ [Next]_vars => SeenInv'
<1> SUFFICES ASSUME TypeOK, SeenInv, WholeWrites, [Next]_vars PROVE SeenInv'
  OBVIOUS
<1>0. CallTyped /\ DataTyped /\ CsumTyped /\ DataSeen /\ CsumSeen
  BY TypeParts DEF SeenInv
<1>1. ASSUME UNCHANGED hdfsData PROVE SeenGrows /\ DataSeen'
  BY <1>1, KeepDataSeen DEF hdfsData
<1>2. ASSUME UNCHANGED hdfsCsum, SeenGrows PROVE CsumSeen'
  BY <1>0, <1>2, CsumStaysSeen DEF hdfsCsum
<1>3. ASSUME NEW t \in Threads, NEW p \in Paths, WriteOpen(t, p) PROVE SeenInv'
  <2>1. PutData(p, 0, t) /\ UNCHANGED hdfsCsum
    BY <1>3 DEF WriteOpen
  <2>2. SeenGrows /\ DataSeen' /\ CsumSeen'
    BY <1>0, <1>2, <2>1, PutDataSeen
  <2>3. QED BY <1>0, <1>3, <2>2, WriteOpenMoves, SeenStep
<1>4. ASSUME NEW t \in Threads, NEW p \in Paths,
             Ver(t, p) \/ \E type \in Asked : Get(t, p, type)
      PROVE  SeenInv'
  <2>1. UNCHANGED <<hdfsData, hdfsCsum>>
    BY <1>4 DEF Ver, Get
  <2>2. SeenGrows /\ DataSeen' /\ CsumSeen'
    BY <1>1, <1>2, <2>1
  <2>3. PICK type \in Asked \cup {Adler} :
          LET r == GetOutcome(csum[p], type) IN Becomes(t, r.pc, p, << >>, r.answer)
    BY <1>4, QueryMoves
  <2> DEFINE r == GetOutcome(csum[p], type)
  <2>4. type \in Names /\ type # NULL
    BY DEF Names
  <2>5. \/ r.answer = NoAnswer
        \/ csum[p] # NULL /\ \E i \in DOMAIN csum[p] :
                               csum[p][i].name = type /\ csum[p][i].of = r.answer
    BY <1>0, <2>4, GetOutcomeType DEF CsumTyped
  <2> HIDE DEF r
  <2>6. r.answer \in {NoAnswer} \cup Excused \/ r.answer \in seen[p]
    BY <1>0, <2>4, <2>5 DEF CsumSeen, EntriesSeen
  <2>7. r.answer \in {NoAnswer} \cup Excused \/ r.answer \in seen'[p]
    BY <2>2, <2>6 DEF SeenGrows
  <2>8. Becomes(t, r.pc, p, << >>, r.answer)
    BY <2>3 DEF r
  <2>9. QED BY <1>0, <2>2, <2>7, <2>8, SeenStep
<1>5. ASSUME NEW t \in Threads, NEW p \in Paths, NEW type \in Asked, CalcBegins(t, p, type)
      PROVE  SeenInv'
  <2>1. SeenGrows /\ DataSeen' /\ CsumSeen'
    BY <1>1, <1>2, <1>5 DEF CalcBegins
  <2>2. QED BY <1>0, <1>5, <2>1, CalcBeginsMoves, SeenStep
<1>6. ASSUME NEW t \in Threads, NEW p \in Paths, NEW type \in Asked, SetCks(t, p, type)
      PROVE  SeenInv'
  <2>1. SeenGrows /\ DataSeen' /\ CsumSeen'
    BY <1>1, <1>2, <1>6 DEF SetCks
  <2>2. /\ csum[p] \in EntryList /\ type \in Names
        /\ Becomes(t, "open", p, Merge(csum[p], type, Told), NoAnswer)
    BY <1>6, SetCksMoves
  <2> DEFINE m == Merge(csum[p], type, Told)
  <2>a. Told \in Nat \cup {Told}
    OBVIOUS
  <2>3. \A i \in DOMAIN m : m[i].of = Told \/ (i \in DOMAIN csum[p] /\ m[i] = csum[p][i])
    BY <2>2, <2>a, MergeType, ZenonT(30)
  <2>4. Told \in Excused /\ csum[p] # NULL
    BY <1>6 DEF Excused, SetCks, Begins
  <2> HIDE DEF m
  <2>5. EntriesSeen(m, p)
    BY <1>0, <2>3, <2>4 DEF CsumSeen, EntriesSeen
  <2>6. Becomes(t, "open", p, m, NoAnswer)
    BY <2>2 DEF m
  <2>7. QED BY <1>0, <2>1, <2>5, <2>6, EntriesStaySeen, SeenStep
<1>7. ASSUME NEW t \in Threads, WriteClose(t) PROVE SeenInv'
  <2> DEFINE p == call[t].path
             e == Entries(Digests, fresh)
  <2>1. p \in Paths /\ fresh \in Nat
    BY <1>0, <1>7, BusyPath DEF WriteClose, DataTyped
  <2>2. PutData(p, fresh, NULL) /\ UNCHANGED hdfsCsum
    BY <1>7 DEF WriteClose
  <2>3. SeenGrows /\ DataSeen' /\ CsumSeen'
    BY <1>0, <1>2, <2>1, <2>2, PutDataSeen
  <2>4. fresh \in seen'[p]
    BY <1>0, <2>1, <2>2, PutDataEffect DEF Absent
  <2>5. \A i \in DOMAIN e : e[i].of = fresh
    BY <2>1, EntriesType
  <2>6. Becomes(t, "open", p, e, call[t].answer)
    BY <1>7, WriteCloseMoves DEF WholeWrites
  <2>7. call[t].answer \in {NoAnswer} \cup Excused \/ call[t].answer \in seen'[p]
    BY <2>1, <2>3 DEF SeenInv, AnswersSeen, SeenGrows
  <2> HIDE DEF e, p
  <2>8. QED BY <1>0, <2>1, <2>3, <2>4, <2>5, <2>6, <2>7, SeenStep
<1>8. ASSUME NEW t \in Threads, WriteCloseFails(t) PROVE SeenInv'
  <2>1. call[t].path \in Paths /\ fresh \in Nat
    BY <1>0, <1>8, BusyPath DEF WriteCloseFails, DataTyped
  <2>2. UNCHANGED hdfsCsum /\ (UNCHANGED hdfsData \/ PutData(call[t].path, fresh, NULL))
    BY <1>8 DEF WriteCloseFails
  <2>3. SeenGrows /\ DataSeen' /\ CsumSeen'
    BY <1>0, <1>1, <1>2, <2>1, <2>2, PutDataSeen
  <2>4. QED BY <1>0, <1>8, <2>3, PlainMoves, SeenStep
<1>9. ASSUME NEW t \in Threads, SetOpen(t) PROVE SeenInv'
  <2>1. call[t].path \in Paths /\ Busy(t)
    BY <1>0, <1>9, BusyPath DEF SetOpen, Busy
  <2>2. SeenGrows /\ DataSeen' /\ seen' = seen /\ Excused' = Excused
    BY <1>1, <1>9, ExcusedStay DEF SetOpen, hdfsData
  <2>3. \A q \in Paths : csum'[q] = << >> \/ csum'[q] = csum[q]
    BY <1>0, <1>9, <2>1 DEF SetOpen, CsumTyped
  <2>4. CsumSeen'
    BY <1>0, <2>2, <2>3 DEF CsumSeen, EntriesSeen
  <2>5. QED BY <1>0, <1>9, <2>1, <2>2, <2>4, PlainMoves, SeenPlain
<1>10. ASSUME NEW t \in Threads, SetWrite(t) PROVE SeenInv'
  <2>1. call[t].path \in Paths /\ Busy(t) /\ call[t].entries \in EntryList
    BY <1>0, <1>10, BusyPath DEF SetWrite, Busy
  <2>2. SeenGrows /\ DataSeen' /\ seen' = seen /\ Excused' = Excused
    BY <1>1, <1>10, ExcusedStay DEF SetWrite, hdfsData
  <2>3. CsumSeen'
    <3>1. CASE cwriter[call[t].path] # t
      BY <1>2, <1>10, <2>2, <3>1 DEF SetWrite
    <3>2. CASE cwriter[call[t].path] = t
      <4>1. PICK e \in {call[t].entries}
                       \cup IF workload.faults THEN Remains(call[t].entries) ELSE {} :
              csum' = [csum EXCEPT ![call[t].path] = e]
        BY <1>10, <3>2 DEF SetWrite
      <4>2. \A i \in DOMAIN e :
              \/ e[i].name = NULL \/ (workload.faults /\ e[i].of = Torn)
              \/ i \in DOMAIN call[t].entries /\ e[i] = call[t].entries[i]
        BY <2>1, RemainsType
      <4>3. EntriesSeen(call[t].entries, call[t].path)
        BY <2>1 DEF SeenInv, CallSeen
      <4>4. EntriesSeen(e, call[t].path)
        BY <4>2, <4>3 DEF EntriesSeen, Excused
      <4>5. \A q \in Paths : csum'[q] = IF q = call[t].path THEN e ELSE csum[q]
        BY <1>0, <2>1, <4>1 DEF CsumTyped
      <4>6. QED BY <1>0, <2>2, <4>4, <4>5 DEF CsumSeen, EntriesSeen
    <3>3. QED BY <3>1, <3>2
  <2>4. QED BY <1>0, <1>10, <2>1, <2>2, <2>3, PlainMoves, SeenPlain
<1>11. ASSUME NEW t \in Threads, GetDel(t) PROVE SeenInv'
  <2>1. call[t].path \in Paths /\ Busy(t)
    BY <1>0, <1>11, BusyPath DEF GetDel, Busy
  <2>2. /\ UNCHANGED hdfsCsum
        /\ PutData(call[t].path, Absent, NULL) \/ UNCHANGED <<data, seen, workload>>
    BY <1>11 DEF GetDel
  <2>3. SeenGrows /\ DataSeen' /\ CsumSeen'
    BY <1>0, <1>2, <2>1, <2>2, PutDataSeen, KeepDataSeen
  <2>4. QED BY <1>0, <1>11, <2>1, <2>3, PlainMoves, SeenPlain
<1>12. ASSUME NEW t \in Threads, SetOpenFails(t) \/ GetReturns(t) \/ CalcFails(t) PROVE SeenInv'
  <2>1. Busy(t) /\ UNCHANGED <<hdfsData, hdfsCsum>>
    BY <1>12 DEF SetOpenFails, GetReturns, CalcFails, Busy
  <2>2. SeenGrows /\ DataSeen' /\ CsumSeen'
    BY <1>1, <1>2, <2>1
  <2>3. \E pc : Becomes(t, pc, call[t].path, call[t].entries, call[t].answer)
    BY <1>12, PlainMoves
  <2>4. QED BY <1>0, <2>1, <2>2, <2>3, SeenPlain
<1>13. ASSUME NEW t \in Threads, NEW do_set \in BOOLEAN, Calc(t, do_set) PROVE SeenInv'
  <2> DEFINE p == call[t].path
             n == data[p]
             e == Entries(CalcDigests(do_set, call[t].type), n)
  <2>1. SeenGrows /\ DataSeen' /\ CsumSeen'
    BY <1>1, <1>2, <1>13 DEF Calc
  <2>2. p \in Paths /\ n \in Nat /\ Becomes(t, "open", p, e, n)
    BY <1>13, CalcMoves
  <2>3. \A i \in DOMAIN e : e[i].of = n
    BY <1>13, CalcMoves, EntriesType
  <2>4. n \in seen'[p]
    BY <1>0, <2>1, <2>2 DEF DataSeen, SeenGrows, Absent
  <2> HIDE DEF e, n, p
  <2>5. QED BY <1>0, <2>1, <2>2, <2>3, <2>4, SeenStep
<1>14. ASSUME NEW t \in Threads, Return(t) PROVE SeenInv'
  <2>1. SeenGrows /\ DataSeen' /\ CsumSeen'
    BY <1>1, <1>2, <1>14 DEF Return
  <2>2. QED BY <1>0, <1>14, <2>1, PlainMoves, SeenStep
<1>15. ASSUME NEW p \in Paths, (\E t \in Threads : Del(t, p)) \/ Unlink(p) \/ Truncate(p)
       PROVE  SeenInv'
  <2>1. /\ UNCHANGED hdfsCsum /\ call' = call
        /\ PutData(p, Absent, NULL) \/ PutData(p, 0, NULL)
    BY <1>15 DEF Del, Unlink, Truncate
  <2>2. SeenGrows /\ DataSeen' /\ CsumSeen'
    BY <1>0, <1>2, <2>1, PutDataSeen
  <2>3. QED BY <1>0, <2>1, <2>2, SeenCalls
<1>16. CASE Crash
  <2>1. UNCHANGED <<data, csum, seen, workload>> /\ \A t \in Threads : call'[t] = Idle
    BY <1>16 DEF Crash
  <2>2. SeenGrows /\ DataSeen' /\ CsumSeen'
    BY <1>0, <2>1, KeepDataSeen, CsumStaysSeen
  <2>3. QED BY <2>1, <2>2, IdleType DEF SeenInv, CallSeen, AnswersSeen, Busy
<1>17. CASE UNCHANGED vars
  <2>1. UNCHANGED <<hdfsData, hdfsCsum, call>>
    BY <1>17 DEF vars, hdfsData, hdfsCsum
  <2>2. QED BY <1>0, <1>1, <1>2, <2>1, SeenCalls
<1>18. QED
  BY <1>3, <1>4, <1>5, <1>6, <1>7, <1>8, <1>9, <1>10, <1>11, <1>12, <1>13, <1>14, <1>15,
     <1>16, <1>17 DEF Next, Step

\* A digest that Get or Calc answers with is of a content the file has had,
\* whatever races, failed records and crashes went before, unless a caller of Set
\* gave it, a failed write of the checksum file cut it, or HDFS took less of the
\* data file than its client wrote.
THEOREM AnswersAreOfContents == Spec => []AnswerWasContent
<1>1. Init => (WholeWrites => SeenInv)
  BY InitSeen
<1>2. TypeOK /\ (WholeWrites => SeenInv) /\ [Next]_vars => (WholeWrites => SeenInv)'
  BY NextSeen, WorkloadStays DEF WholeWrites
<1>3. (WholeWrites => SeenInv) => AnswerWasContent
  BY DEF SeenInv, AnswersSeen, Excused, WholeWrites, AnswerWasContent
<1>4. QED BY <1>1, <1>2, <1>3, TypeCorrect, PTL DEF Spec
----------------------------------------------------------------------------
(***************************************************************************)
(* Operations that follow each other                                        *)
(***************************************************************************)

OfContent(e, n) == \A i \in DOMAIN e : e[i].of \in {n, Told}
Recording(t, p) == (call[t].pc = "writing" \/ Setting(t)) /\ call[t].path = p

OneAtWork == \A t, u \in Threads : Busy(t) /\ Busy(u) => t = u

\* A writer and a SetMultiple still have the file they opened.
HoldsFiles ==
  \A t \in Threads :
    /\ call[t].pc = "writing" => dwriter[call[t].path] = t
    /\ call[t].pc = "write" => cwriter[call[t].path] = t

\* What is about to be recorded for a file are digests of it as it is.
EntriesCurrent ==
  \A t \in Threads :
    Setting(t) /\ data[call[t].path] # Absent
      => OfContent(call[t].entries, data[call[t].path])

\* What is recorded are digests of the file as it is, unless it is being
\* written or recorded, or was removed.
FilesCurrent ==
  \A p \in Paths :
    (csum[p] # NULL /\ data[p] # Absent /\ \A t \in Threads : ~Recording(t, p))
      => OfContent(csum[p], data[p])

SerialInv ==
  workload.serial => OneAtWork /\ HoldsFiles /\ EntriesCurrent /\ FilesCurrent

\* What a serial workload has, and has not.
LEMMA SerialOnly ==
  ASSUME TypeOK, workload.serial
  PROVE  /\ ~workload.faults
         /\ {"short", "unlink", "truncate"} \cap workload.ops = {}
BY DEF TypeOK, ManagerOps

\* In a serial workload the thread that takes a step is the only one at work.
LEMMA SerialAlone ==
  ASSUME SerialInv, workload.serial, NEW t \in Threads,
         Busy(t) \/ \E op : Begins(t, op)
  PROVE  \A u \in Threads : u # t => ~Busy(u)
BY DEF SerialInv, OneAtWork, Busy, Begins

\* A step of the one thread at work.
LEMMA SerialStep ==
  ASSUME NEW t \in Threads, \A u \in Threads : u # t => ~Busy(u),
         NEW pc, NEW path, NEW entries, NEW answer, Becomes(t, pc, path, entries, answer),
         pc = "writing" => dwriter'[path] = t,
         pc = "write" => cwriter'[path] = t,
         pc \in {"open", "write"} /\ data'[path] # Absent => OfContent(entries, data'[path]),
         \A p \in Paths :
           (/\ csum'[p] # NULL /\ data'[p] # Absent
            /\ ~(pc \in {"writing", "open", "write"} /\ path = p)) => OfContent(csum'[p], data'[p])
  PROVE  SerialInv'
<1>1. /\ call'[t].pc = pc /\ call'[t].path = path /\ call'[t].entries = entries
      /\ \A u \in Threads : u # t => call'[u] = call[u]
  BY DEF Becomes
<1>2. \A u \in Threads : u # t => call'[u].pc = "idle"
  BY <1>1 DEF Busy
<1>3. OneAtWork' /\ HoldsFiles' /\ EntriesCurrent'
  BY <1>1, <1>2 DEF OneAtWork, Busy, HoldsFiles, EntriesCurrent, Setting, OfContent
<1>4. FilesCurrent'
  <2> SUFFICES ASSUME NEW p \in Paths, csum'[p] # NULL, data'[p] # Absent,
                      \A u \in Threads : ~Recording(u, p)'
               PROVE  OfContent(csum'[p], data'[p])
    BY DEF FilesCurrent, OfContent
  <2>1. ~(pc \in {"writing", "open", "write"} /\ path = p)
    BY <1>1 DEF Recording, Setting
  <2>2. QED BY <2>1
<1>5. QED BY <1>3, <1>4 DEF SerialInv

\* What PutData does to the data, for short.
LEMMA PutDataAt ==
  ASSUME DataTyped, NEW p \in Paths, NEW n, NEW w, PutData(p, n, w)
  PROVE  data'[p] = n /\ \A q \in Paths : q # p => data'[q] = data[q]
BY DEF DataTyped, PutData

\* What holds of the files when t is the one at work.
LEMMA SerialFiles ==
  ASSUME SerialInv, workload.serial, NEW t \in Threads, \A u \in Threads : u # t => ~Busy(u),
         NEW p \in Paths, csum[p] # NULL, data[p] # Absent,
         ~(call[t].pc \in {"writing", "open", "write"} /\ call[t].path = p)
  PROVE  OfContent(csum[p], data[p])
<1>1. \A u \in Threads : ~Recording(u, p)
  BY DEF Recording, Setting, Busy
<1>2. QED BY <1>1 DEF SerialInv, FilesCurrent

\* A step of t that changes neither the files nor what t is about to record.
LEMMA SerialQuiet ==
  ASSUME SerialInv, workload.serial, NEW t \in Threads, \A u \in Threads : u # t => ~Busy(u),
         UNCHANGED <<data, csum>>, call[t].pc \notin {"writing", "open", "write"},
         NEW pc, NEW path, NEW entries, NEW answer, Becomes(t, pc, path, entries, answer),
         pc \notin {"writing", "write"},
         pc = "open" /\ data[path] # Absent => OfContent(entries, data[path])
  PROVE  SerialInv'
<1>1. \A p \in Paths : csum'[p] # NULL /\ data'[p] # Absent => OfContent(csum'[p], data'[p])
  BY SerialFiles
<1>2. QED BY <1>1, SerialStep

\* What a caller gave, merged into a list of digests of one content.
LEMMA MergeCurrent ==
  ASSUME NEW e \in EntryList, NEW name \in Names, NEW n, OfContent(e, n)
  PROVE  OfContent(Merge(e, name, Told), n)
<1>1. Told \in Nat \cup {Told}
  OBVIOUS
<1>2. \A i \in DOMAIN Merge(e, name, Told) :
        \/ Merge(e, name, Told)[i].of = Told
        \/ i \in DOMAIN e /\ Merge(e, name, Told)[i] = e[i]
  BY <1>1, MergeType, ZenonT(30)
<1>3. QED BY <1>2 DEF OfContent

LEMMA InitSerial == Init => SerialInv
<1> SUFFICES ASSUME Init PROVE SerialInv
  OBVIOUS
<1>1. (\A p \in Paths : csum[p] = NULL) /\ \A t \in Threads : call[t].pc = "idle"
  BY IdleType DEF Init
<1>2. QED
  BY <1>1 DEF SerialInv, OneAtWork, HoldsFiles, EntriesCurrent, FilesCurrent, Busy, Setting

LEMMA NextSerial == TypeOK /\ SerialInv /\ [Next]_vars => SerialInv'
<1> SUFFICES ASSUME TypeOK, SerialInv, [Next]_vars, workload.serial PROVE SerialInv'
  BY WorkloadStays DEF SerialInv
<1>0. /\ CallTyped /\ DataTyped /\ CsumTyped
      /\ ~workload.faults /\ {"short", "unlink", "truncate"} \cap workload.ops = {}
  BY TypeParts, SerialOnly
<1>1. ASSUME NEW t \in Threads, NEW p \in Paths, WriteOpen(t, p) PROVE SerialInv'
  <2>1. /\ \A u \in Threads : u # t => ~Busy(u)
        /\ call[t].pc = "idle" /\ UNCHANGED csum /\ PutData(p, 0, t)
    BY <1>1, SerialAlone DEF WriteOpen, Begins, hdfsCsum
  <2>2. dwriter'[p] = t /\ \A q \in Paths : q # p => data'[q] = data[q]
    BY <1>0, <2>1, PutDataEffect
  <2>3. \A q \in Paths : csum'[q] # NULL /\ data'[q] # Absent /\ q # p
                           => OfContent(csum'[q], data'[q])
    BY <2>1, <2>2, SerialFiles
  <2>4. QED BY <1>1, <2>1, <2>2, <2>3, WriteOpenMoves, SerialStep
<1>2. ASSUME NEW t \in Threads, NEW p \in Paths,
             Ver(t, p) \/ \E type \in Asked : Get(t, p, type)
      PROVE  SerialInv'
  <2>1. /\ \A u \in Threads : u # t => ~Busy(u)
        /\ call[t].pc = "idle" /\ UNCHANGED <<data, csum>>
    BY <1>2, SerialAlone DEF Ver, Get, Begins, hdfsCsum, hdfsData
  <2>2. PICK type \in Asked \cup {Adler} :
          LET r == GetOutcome(csum[p], type) IN Becomes(t, r.pc, p, << >>, r.answer)
    BY <1>2, QueryMoves
  <2>3. GetOutcome(csum[p], type).pc \in {"esrch", "del", "done"}
    BY GetOutcomeType DEF TypeOK, Names
  <2>4. QED BY <2>1, <2>2, <2>3, SerialQuiet
<1>3. ASSUME NEW t \in Threads, NEW p \in Paths, NEW type \in Asked, CalcBegins(t, p, type)
      PROVE  SerialInv'
  <2>1. /\ \A u \in Threads : u # t => ~Busy(u)
        /\ call[t].pc = "idle" /\ UNCHANGED <<data, csum>>
    BY <1>3, SerialAlone DEF CalcBegins, Begins, hdfsCsum, hdfsData
  <2>2. QED BY <1>3, <2>1, CalcBeginsMoves, SerialQuiet
<1>4. ASSUME NEW t \in Threads, NEW p \in Paths, NEW type \in Asked, SetCks(t, p, type)
      PROVE  SerialInv'
  <2>1. /\ \A u \in Threads : u # t => ~Busy(u)
        /\ call[t].pc = "idle" /\ UNCHANGED <<data, csum>>
        /\ csum[p] # NULL
    BY <1>4, SerialAlone DEF SetCks, Begins, hdfsCsum, hdfsData
  <2>2. data[p] # Absent => OfContent(csum[p], data[p])
    BY <2>1, SerialFiles
  <2>3. data[p] # Absent => OfContent(Merge(csum[p], type, Told), data[p])
    BY <1>4, <2>2, SetCksMoves, MergeCurrent
  <2>4. QED BY <1>4, <2>1, <2>3, SetCksMoves, SerialQuiet
<1>5. ASSUME NEW t \in Threads, WriteClose(t) PROVE SerialInv'
  <2> DEFINE p == call[t].path
  <2>1. /\ \A u \in Threads : u # t => ~Busy(u)
        /\ UNCHANGED csum /\ PutData(p, fresh, NULL)
    BY <1>5, SerialAlone DEF WriteClose, Busy, hdfsCsum
  <2>2. p \in Paths /\ fresh \in Nat
    BY <1>0, <1>5, BusyPath DEF WriteClose, DataTyped
  <2>3. data'[p] = fresh /\ \A q \in Paths : q # p => data'[q] = data[q]
    BY <1>0, <2>1, <2>2, PutDataAt
  <2>4. OfContent(Entries(Digests, fresh), fresh)
    BY <2>2, EntriesType DEF OfContent
  <2>5. \A q \in Paths : csum'[q] # NULL /\ data'[q] # Absent /\ q # p
                           => OfContent(csum'[q], data'[q])
    BY <2>1, <2>3, SerialFiles
  <2>6. Becomes(t, "open", p, Entries(Digests, fresh), call[t].answer)
    BY <1>0, <1>5, WriteCloseMoves
  <2> HIDE DEF p
  <2>7. QED BY <2>1, <2>3, <2>4, <2>5, <2>6, SerialStep
<1>6. ASSUME NEW t \in Threads, WriteCloseFails(t) \/ SetOpenFails(t) PROVE SerialInv'
  BY <1>0, <1>6 DEF WriteCloseFails, SetOpenFails, SerialInv, HoldsFiles
<1>7. ASSUME NEW t \in Threads, SetOpen(t) PROVE SerialInv'
  <2> DEFINE p == call[t].path
             e == call[t].entries
  <2>1. /\ \A u \in Threads : u # t => ~Busy(u)
        /\ UNCHANGED data /\ call[t].pc = "open" /\ p \in Paths
        /\ csum' = [csum EXCEPT ![p] = << >>] /\ cwriter' = [cwriter EXCEPT ![p] = t]
    BY <1>0, <1>7, SerialAlone, BusyPath DEF SetOpen, Busy, hdfsData
  <2>2. cwriter'[p] = t /\ \A q \in Paths : q # p => csum'[q] = csum[q]
    BY <1>0, <2>1 DEF CsumTyped
  <2>3. data'[p] # Absent => OfContent(e, data'[p])
    BY <2>1 DEF SerialInv, EntriesCurrent, Setting
  <2>4. \A q \in Paths : csum'[q] # NULL /\ data'[q] # Absent /\ q # p
                           => OfContent(csum'[q], data'[q])
    BY <2>1, <2>2, SerialFiles
  <2>5. Becomes(t, "write", p, e, call[t].answer)
    BY <1>7, PlainMoves
  <2> HIDE DEF p, e
  <2>6. QED BY <2>1, <2>2, <2>3, <2>4, <2>5, SerialStep
<1>8. ASSUME NEW t \in Threads, SetWrite(t) PROVE SerialInv'
  <2> DEFINE p == call[t].path
             e == call[t].entries
  <2>1. /\ \A u \in Threads : u # t => ~Busy(u)
        /\ UNCHANGED data /\ call[t].pc = "write" /\ p \in Paths
    BY <1>0, <1>8, SerialAlone, BusyPath DEF SetWrite, Busy, hdfsData
  <2>2. cwriter[p] = t /\ (data[p] # Absent => OfContent(e, data[p]))
    BY <2>1 DEF SerialInv, HoldsFiles, EntriesCurrent, Setting
  <2>3. csum' = [csum EXCEPT ![p] = e]
    BY <1>0, <1>8, <2>2 DEF SetWrite
  <2>4. \A q \in Paths : csum'[q] = IF q = p THEN e ELSE csum[q]
    BY <1>0, <2>3 DEF CsumTyped
  <2>5. \A q \in Paths : csum'[q] # NULL /\ data'[q] # Absent => OfContent(csum'[q], data'[q])
    BY <2>1, <2>2, <2>4, SerialFiles
  <2>6. Becomes(t, "done", p, e, call[t].answer)
    BY <1>8, PlainMoves
  <2> HIDE DEF p, e
  <2>7. QED BY <2>1, <2>5, <2>6, SerialStep
<1>9. ASSUME NEW t \in Threads, GetDel(t) PROVE SerialInv'
  <2> DEFINE p == call[t].path
  <2>1. /\ \A u \in Threads : u # t => ~Busy(u)
        /\ UNCHANGED csum /\ call[t].pc = "del" /\ p \in Paths
        /\ PutData(p, Absent, NULL) \/ UNCHANGED data
    BY <1>0, <1>9, SerialAlone, BusyPath DEF GetDel, Busy, hdfsCsum
  <2>2. \A q \in Paths : data'[q] = data[q] \/ data'[q] = Absent
    <3>1. CASE UNCHANGED data
      BY <3>1
    <3>2. CASE PutData(p, Absent, NULL)
      <4>1. data' = [data EXCEPT ![p] = Absent] /\ data \in [Paths -> Nat \cup {Absent}]
        BY <1>0, <3>2 DEF PutData, DataTyped
      <4> HIDE DEF p
      <4>2. QED BY <4>1
    <3>3. QED BY <2>1, <3>1, <3>2
  <2>3. \A q \in Paths : csum'[q] # NULL /\ data'[q] # Absent => OfContent(csum'[q], data'[q])
    BY <2>1, <2>2, SerialFiles
  <2>4. Becomes(t, "esrch", p, call[t].entries, call[t].answer)
    BY <1>9, PlainMoves
  <2> HIDE DEF p
  <2>5. QED BY <2>1, <2>3, <2>4, SerialStep
<1>10. ASSUME NEW t \in Threads, GetReturns(t) \/ CalcFails(t) \/ Return(t) PROVE SerialInv'
  <2>1. /\ \A u \in Threads : u # t => ~Busy(u)
        /\ call[t].pc \in {"esrch", "calc", "done"} /\ UNCHANGED <<data, csum>>
    BY <1>10, SerialAlone DEF GetReturns, CalcFails, Return, Busy, hdfsCsum, hdfsData
  <2>2. \E pc \in {"calc", "done", "idle"} : \E path, entries, answer :
          Becomes(t, pc, path, entries, answer)
    BY <1>10, PlainMoves
  <2>3. QED BY <2>1, <2>2, SerialQuiet
<1>11. ASSUME NEW t \in Threads, NEW do_set \in BOOLEAN, Calc(t, do_set) PROVE SerialInv'
  <2> DEFINE n == data[call[t].path]
             e == Entries(CalcDigests(do_set, call[t].type), n)
  <2>1. /\ \A u \in Threads : u # t => ~Busy(u)
        /\ call[t].pc = "calc" /\ UNCHANGED <<data, csum>>
    BY <1>11, SerialAlone DEF Calc, Busy, hdfsCsum, hdfsData
  <2>2. OfContent(e, n) /\ Becomes(t, "open", call[t].path, e, n)
    BY <1>11, CalcMoves, EntriesType DEF OfContent
  <2> HIDE DEF e
  <2>3. QED BY <2>1, <2>2, SerialQuiet
<1>12. ASSUME NEW p \in Paths, Unlink(p) \/ Truncate(p) PROVE SerialInv'
  BY <1>0, <1>12 DEF Unlink, Truncate
<1>a. ASSUME NEW t \in Threads, NEW p \in Paths, Del(t, p) PROVE SerialInv'
  <2>1. /\ \A u \in Threads : call[u].pc = "idle" /\ call'[u] = call[u]
        /\ UNCHANGED csum /\ PutData(p, Absent, NULL)
    BY <1>a DEF Del, Begins, hdfsCsum
  <2>2. data'[p] = Absent /\ \A q \in Paths : q # p => data'[q] = data[q]
    BY <1>0, <2>1, PutDataAt
  <2>3. OneAtWork' /\ HoldsFiles' /\ EntriesCurrent'
    BY <2>1 DEF OneAtWork, Busy, HoldsFiles, EntriesCurrent, Setting
  <2>4. \A q \in Paths : csum'[q] # NULL /\ data'[q] # Absent => OfContent(csum'[q], data'[q])
    BY <2>1, <2>2 DEF SerialInv, FilesCurrent, Recording, Setting
  <2>5. FilesCurrent'
    BY <2>4 DEF FilesCurrent, OfContent
  <2>6. QED BY <2>3, <2>5 DEF SerialInv
<1>13. CASE Crash
  BY <1>0, <1>13 DEF Crash
<1>14. CASE UNCHANGED vars
  BY <1>14 DEF vars, SerialInv, OneAtWork, HoldsFiles, EntriesCurrent, FilesCurrent, OfContent,
               Recording, Setting, Busy
<1>15. QED
  BY <1>1, <1>2, <1>3, <1>4, <1>5, <1>6, <1>7, <1>8, <1>9, <1>10, <1>11, <1>12, <1>a, <1>13,
     <1>14 DEF Next, Step

\* In a workload where operations follow each other, what is recorded or about to
\* be are digests of the file as it is, in every reachable state.
THEOREM SerialHolds == Spec => []SerialInv
BY InitSerial, NextSerial, TypeCorrect, PTL DEF Spec

\* As long as the manager's operations and the writers follow each other and
\* nothing else touches the files, what is recorded for a data file are its
\* digests as it is and what Set was told, however many files, clients,
\* rewrites, Dels and Calcs of one digest there are.
THEOREM RecordsAreCurrent == Spec => []RecordedIsCurrent
<1>1. SerialInv => RecordedIsCurrent
  <2> SUFFICES ASSUME SerialInv, workload.serial,
                      \A t \in Threads : call[t].pc = "idle",
                      NEW p \in Paths, csum[p] # NULL, data[p] # Absent,
                      NEW i \in DOMAIN csum[p]
               PROVE  csum[p][i].of \in {data[p], Told}
    BY DEF RecordedIsCurrent
  <2>1. \A t \in Threads : ~Recording(t, p)
    BY DEF Recording, Setting
  <2>2. OfContent(csum[p], data[p])
    BY <2>1 DEF SerialInv, FilesCurrent
  <2>3. QED BY <2>2 DEF OfContent
<1>2. QED BY <1>1, SerialHolds, PTL
----------------------------------------------------------------------------

(***************************************************************************)
(* The digests of one file are of one content                              *)
(***************************************************************************)

Uniform(e) == \A i, j \in Computed(e) : e[i].of = e[j].of

NoMix ==
  /\ \A p \in Paths : csum[p] # NULL => Uniform(csum[p])
  /\ \A t \in Threads : Setting(t) => Uniform(call[t].entries)

\* What adds nothing to a list but what was told or cut mixes nothing into it.
LEMMA PartUniform ==
  ASSUME NEW e, NEW m, Uniform(e),
         \A i \in DOMAIN m :
           \/ m[i].name = NULL \/ m[i].of \in {Torn, Told}
           \/ i \in DOMAIN e /\ m[i] = e[i]
  PROVE  Uniform(m)
<1>1. \A i \in Computed(m) : i \in Computed(e) /\ m[i] = e[i]
  BY DEF Computed
<1>2. QED BY <1>1 DEF Uniform

\* The digests of one run over a content.
LEMMA EntriesUniform ==
  ASSUME NEW names \in Seq(Names), NEW n \in Nat
  PROVE  Uniform(Entries(names, n))
BY EntriesType DEF Uniform, Computed

LEMMA MergeUniform ==
  ASSUME NEW e \in EntryList, NEW name \in Names, Uniform(e)
  PROVE  Uniform(Merge(e, name, Told))
<1>1. Told \in Nat \cup {Told}
  OBVIOUS
<1>2. \A i \in DOMAIN Merge(e, name, Told) :
        \/ Merge(e, name, Told)[i].of = Told
        \/ i \in DOMAIN e /\ Merge(e, name, Told)[i] = e[i]
  BY <1>1, MergeType, ZenonT(30)
<1>3. QED BY <1>2, PartUniform

\* A step that records entries of one content, if any.
LEMMA MixStep ==
  ASSUME NoMix,
         \A p \in Paths : csum'[p] = csum[p] \/ Uniform(csum'[p]),
         NEW t \in Threads, NEW pc, NEW path, NEW entries, NEW answer,
         Becomes(t, pc, path, entries, answer), pc \in {"open", "write"} => Uniform(entries)
  PROVE  NoMix'
<1>1. /\ call'[t].pc = pc /\ call'[t].entries = entries
      /\ \A u \in Threads : u # t => call'[u] = call[u]
  BY DEF Becomes
<1>2. \A p \in Paths : csum'[p] # NULL => Uniform(csum'[p])
  BY DEF NoMix
<1>3. ASSUME NEW u \in Threads, Setting(u)' PROVE Uniform(call'[u].entries)
  BY <1>1, <1>3 DEF NoMix, Setting
<1>4. QED BY <1>2, <1>3 DEF NoMix, Uniform, Computed

LEMMA InitMix == Init => NoMix
BY IdleType DEF Init, NoMix, Setting

LEMMA NextMix == TypeOK /\ NoMix /\ [Next]_vars => NoMix'
<1> SUFFICES ASSUME TypeOK, NoMix, [Next]_vars PROVE NoMix'
  OBVIOUS
<1>0. CallTyped /\ DataTyped /\ CsumTyped
  BY TypeParts
<1>2. ASSUME UNCHANGED hdfsCsum PROVE \A p \in Paths : csum'[p] = csum[p]
  BY <1>2 DEF hdfsCsum
<1>3. ASSUME NEW t \in Threads, NEW p \in Paths, WriteOpen(t, p) PROVE NoMix'
  BY <1>0, <1>2, <1>3, WriteOpenMoves, MixStep DEF WriteOpen
<1>4. ASSUME NEW t \in Threads, NEW p \in Paths,
             Ver(t, p) \/ \E type \in Asked : Get(t, p, type)
      PROVE  NoMix'
  <2>1. UNCHANGED hdfsCsum
    BY <1>4 DEF Ver, Get
  <2>2. PICK type \in Asked \cup {Adler} :
          LET r == GetOutcome(csum[p], type) IN Becomes(t, r.pc, p, << >>, r.answer)
    BY <1>4, QueryMoves
  <2>3. GetOutcome(csum[p], type).pc \in {"esrch", "del", "done"}
    BY GetOutcomeType DEF TypeOK, Names
  <2>4. QED BY <1>0, <1>2, <2>1, <2>2, <2>3, MixStep
<1>5. ASSUME NEW t \in Threads, NEW p \in Paths, NEW type \in Asked, CalcBegins(t, p, type)
      PROVE  NoMix'
  BY <1>0, <1>2, <1>5, CalcBeginsMoves, MixStep DEF CalcBegins
<1>6. ASSUME NEW t \in Threads, NEW p \in Paths, NEW type \in Asked, SetCks(t, p, type)
      PROVE  NoMix'
  <2>1. csum[p] # NULL /\ UNCHANGED hdfsCsum
    BY <1>6 DEF SetCks
  <2>2. Uniform(Merge(csum[p], type, Told))
    BY <1>6, <2>1, SetCksMoves, MergeUniform DEF NoMix
  <2>3. QED BY <1>0, <1>2, <1>6, <2>1, <2>2, SetCksMoves, MixStep
<1>7. ASSUME NEW t \in Threads, WriteClose(t) PROVE NoMix'
  <2>1. UNCHANGED hdfsCsum
    BY <1>7 DEF WriteClose
  <2>2. PICK n \in Nat : Becomes(t, "open", call[t].path, Entries(Digests, n), call[t].answer)
    BY <1>7, WriteCloseMoves
  <2>3. Uniform(Entries(Digests, n))
    BY EntriesUniform
  <2>4. QED BY <1>0, <1>2, <2>1, <2>2, <2>3, MixStep
<1>8. ASSUME NEW t \in Threads, NEW do_set \in BOOLEAN, Calc(t, do_set) PROVE NoMix'
  <2> DEFINE n == data[call[t].path]
             e == Entries(CalcDigests(do_set, call[t].type), n)
  <2>1. Uniform(e) /\ Becomes(t, "open", call[t].path, e, n)
    BY <1>8, CalcMoves, EntriesUniform
  <2>2. UNCHANGED hdfsCsum
    BY <1>8 DEF Calc
  <2> HIDE DEF e
  <2>3. QED BY <1>0, <1>2, <2>1, <2>2, MixStep
<1>9. ASSUME NEW t \in Threads, SetOpen(t) PROVE NoMix'
  <2>1. call[t].path \in Paths /\ Setting(t)
    BY <1>0, <1>9, BusyPath DEF SetOpen, Setting
  <2>2. \A q \in Paths : csum'[q] = << >> \/ csum'[q] = csum[q]
    BY <1>0, <1>9, <2>1 DEF SetOpen, CsumTyped
  <2>3. Uniform(<< >>) /\ Uniform(call[t].entries)
    BY <2>1 DEF Uniform, Computed, NoMix
  <2>4. QED BY <1>0, <1>9, <2>2, <2>3, PlainMoves, MixStep
<1>10. ASSUME NEW t \in Threads, SetWrite(t) PROVE NoMix'
  <2>1. call[t].path \in Paths /\ Setting(t) /\ call[t].entries \in EntryList
    BY <1>0, <1>10, BusyPath DEF SetWrite, Setting
  <2>2. Uniform(call[t].entries)
    BY <2>1 DEF NoMix
  <2>3. CASE cwriter[call[t].path] # t
    BY <1>0, <1>2, <1>10, <2>2, <2>3, PlainMoves, MixStep DEF SetWrite
  <2>4. CASE cwriter[call[t].path] = t
    <3>1. PICK e \in {call[t].entries} \cup Remains(call[t].entries) :
            csum' = [csum EXCEPT ![call[t].path] = e]
      BY <1>10, <2>4 DEF SetWrite
    <3>2. \A i \in DOMAIN e :
            \/ e[i].name = NULL \/ e[i].of = Torn
            \/ i \in DOMAIN call[t].entries /\ e[i] = call[t].entries[i]
      BY <2>1, RemainsType
    <3>3. Uniform(e)
      BY <2>2, <3>2, PartUniform
    <3>4. \A q \in Paths : csum'[q] = e \/ csum'[q] = csum[q]
      BY <1>0, <2>1, <3>1 DEF CsumTyped
    <3>5. QED BY <1>10, <2>2, <3>3, <3>4, PlainMoves, MixStep
  <2>5. QED BY <2>3, <2>4
<1>11. ASSUME NEW t \in Threads, WriteCloseFails(t) \/ SetOpenFails(t) \/ GetDel(t) \/ GetReturns(t)
                                 \/ CalcFails(t) \/ Return(t)
       PROVE  NoMix'
  <2>1. UNCHANGED hdfsCsum
    BY <1>11 DEF WriteCloseFails, SetOpenFails, GetDel, GetReturns, CalcFails, Return
  <2>2. \E pc \in {"done", "esrch", "calc", "idle"} : \E path, entries, answer :
          Becomes(t, pc, path, entries, answer)
    BY <1>11, PlainMoves
  <2>3. QED BY <1>0, <1>2, <2>1, <2>2, MixStep
<1>12. ASSUME UNCHANGED <<csum, call>> PROVE NoMix'
  BY <1>12 DEF NoMix, Uniform, Computed, Setting
<1>13. ASSUME NEW p \in Paths, (\E t \in Threads : Del(t, p)) \/ Unlink(p) \/ Truncate(p)
       PROVE  NoMix'
  BY <1>12, <1>13 DEF Del, Unlink, Truncate, hdfsCsum
<1>14. CASE Crash
  BY <1>14, IdleType DEF Crash, NoMix, Uniform, Computed, Setting
<1>15. CASE UNCHANGED vars
  BY <1>12, <1>15 DEF vars
<1>16. QED
  BY <1>3, <1>4, <1>5, <1>6, <1>7, <1>8, <1>9, <1>10, <1>11, <1>13, <1>14, <1>15
     DEF Next, Step

\* The writers, Calcs and Sets that race to record a file leave the digests of
\* one content, never a mixture, and so do failed writes and crashes.
THEOREM NeverMixed == Spec => []OneContentPerFile
<1>1. NoMix => OneContentPerFile
  BY DEF NoMix, Uniform, OneContentPerFile
<1>2. QED BY <1>1, InitMix, NextMix, TypeCorrect, PTL DEF Spec
----------------------------------------------------------------------------
(***************************************************************************)
(* Every digest is recorded, or none yet                                   *)
(***************************************************************************)

Complete(e) == \A i \in DOMAIN Digests : Named(e, Digests[i]) # {}

\* What is about to be recorded has every digest, and so has a checksum file
\* unless it is empty.
SetsAll == \A t \in Threads : Setting(t) => Complete(call[t].entries)
FilesComplete == \A p \in Paths : csum[p] # NULL /\ csum[p] # << >> => Complete(csum[p])

KnownInv == FullRecords => SetsAll /\ FilesComplete

\* A step that records every digest, if any.
LEMMA KnownStep ==
  ASSUME KnownInv, FullRecords,
         \A p \in Paths : csum'[p] = csum[p] \/ csum'[p] = << >> \/ Complete(csum'[p]),
         NEW t \in Threads, NEW pc, NEW path, NEW entries, NEW answer,
         Becomes(t, pc, path, entries, answer), pc \in {"open", "write"} => Complete(entries)
  PROVE  KnownInv'
<1>1. /\ call'[t].pc = pc /\ call'[t].entries = entries
      /\ \A u \in Threads : u # t => call'[u] = call[u]
  BY DEF Becomes
<1>2. \A p \in Paths : csum'[p] # NULL /\ csum'[p] # << >> => Complete(csum'[p])
  BY DEF KnownInv, FilesComplete
<1>3. ASSUME NEW u \in Threads, Setting(u)' PROVE Complete(call'[u].entries)
  BY <1>1, <1>3 DEF KnownInv, SetsAll, Setting
<1>4. QED BY <1>2, <1>3 DEF KnownInv, SetsAll, FilesComplete, Complete

\* Close and Calc record every digest.
LEMMA AllRecorded ==
  ASSUME NEW n \in Nat PROVE Complete(Entries(Digests, n))
<1> SUFFICES ASSUME NEW i \in DOMAIN Digests PROVE Named(Entries(Digests, n), Digests[i]) # {}
  BY DEF Complete
<1>1. i \in DOMAIN Entries(Digests, n) /\ Entries(Digests, n)[i].name = Digests[i]
  BY EntriesType
<1>2. QED BY <1>1 DEF Named

\* Set of one digest loses none.
LEMMA MergeComplete ==
  ASSUME NEW e \in EntryList, NEW name \in Names, Complete(e)
  PROVE  Complete(Merge(e, name, Told))
<1>1. Told \in Nat \cup {Told}
  OBVIOUS
<1>2. \A type : Named(e, type) # {} => Named(Merge(e, name, Told), type) # {}
  BY <1>1, MergeType, ZenonT(30)
<1>3. QED BY <1>2 DEF Complete

LEMMA InitKnown == Init => KnownInv
BY IdleType DEF Init, KnownInv, SetsAll, FilesComplete, Setting

LEMMA NextKnown == TypeOK /\ FileInv /\ KnownInv /\ [Next]_vars => KnownInv'
<1> SUFFICES ASSUME TypeOK, FileInv, KnownInv, [Next]_vars, FullRecords PROVE KnownInv'
  BY WorkloadStays DEF KnownInv, FullRecords
<1>0. CallTyped /\ DataTyped /\ CsumTyped
  BY TypeParts
<1>1. ASSUME UNCHANGED hdfsCsum PROVE \A p \in Paths : csum'[p] = csum[p]
  BY <1>1 DEF hdfsCsum
<1>2. ASSUME NEW t \in Threads, NEW p \in Paths, WriteOpen(t, p) PROVE KnownInv'
  BY <1>1, <1>2, WriteOpenMoves, KnownStep DEF WriteOpen
<1>3. ASSUME NEW t \in Threads, NEW p \in Paths,
             Ver(t, p) \/ \E type \in Asked : Get(t, p, type)
      PROVE  KnownInv'
  <2>1. UNCHANGED hdfsCsum
    BY <1>3 DEF Ver, Get
  <2>2. PICK type \in Asked \cup {Adler} :
          LET r == GetOutcome(csum[p], type) IN Becomes(t, r.pc, p, << >>, r.answer)
    BY <1>3, QueryMoves
  <2>3. GetOutcome(csum[p], type).pc \in {"esrch", "del", "done"}
    BY GetOutcomeType DEF TypeOK, Names
  <2>4. QED BY <1>1, <2>1, <2>2, <2>3, KnownStep
<1>4. ASSUME NEW t \in Threads, NEW p \in Paths, NEW type \in Asked, CalcBegins(t, p, type)
      PROVE  KnownInv'
  BY <1>1, <1>4, CalcBeginsMoves, KnownStep DEF CalcBegins
<1>5. ASSUME NEW t \in Threads, NEW p \in Paths, NEW type \in Asked, SetCks(t, p, type)
      PROVE  KnownInv'
  <2>1. /\ Begins(t, "set") /\ csum[p] # NULL /\ UNCHANGED hdfsCsum
    BY <1>5 DEF SetCks
  <2>2. ~workload.faults /\ \A u \in Threads : call[u].pc = "idle"
    BY <2>1 DEF Begins, FullRecords
  <2>3. cwriter[p] = NULL
    BY <1>0, <2>2 DEF FileInv, WriterWrites, CsumTyped
  <2>4. csum[p] # << >>
    BY <2>2, <2>3 DEF FileInv, EmptyIsOpen
  <2>5. Complete(Merge(csum[p], type, Told))
    BY <1>5, <2>1, <2>4, SetCksMoves, MergeComplete DEF KnownInv, FilesComplete
  <2>6. QED BY <1>1, <1>5, <2>1, <2>5, SetCksMoves, KnownStep
<1>6. ASSUME NEW t \in Threads, WriteClose(t) PROVE KnownInv'
  <2>1. UNCHANGED hdfsCsum
    BY <1>6 DEF WriteClose
  <2>2. PICK n \in Nat : Becomes(t, "open", call[t].path, Entries(Digests, n), call[t].answer)
    BY <1>6, WriteCloseMoves
  <2>3. Complete(Entries(Digests, n))
    BY AllRecorded
  <2>4. QED BY <1>1, <2>1, <2>2, <2>3, KnownStep
<1>7. ASSUME NEW t \in Threads, NEW do_set \in BOOLEAN, Calc(t, do_set) PROVE KnownInv'
  <2> DEFINE n == data[call[t].path]
  <2>1. UNCHANGED hdfsCsum /\ CalcDigests(do_set, call[t].type) = Digests
    BY <1>7 DEF Calc, CalcDigests, FullRecords
  <2>2. n \in Nat /\ Becomes(t, "open", call[t].path, Entries(Digests, n), n)
    BY <1>7, <2>1, CalcMoves
  <2>3. Complete(Entries(Digests, n))
    BY <2>2, AllRecorded
  <2> HIDE DEF n
  <2>4. QED BY <1>1, <2>1, <2>2, <2>3, KnownStep
<1>8. ASSUME NEW t \in Threads, SetOpen(t) PROVE KnownInv'
  <2>1. call[t].path \in Paths /\ Setting(t)
    BY <1>0, <1>8, BusyPath DEF SetOpen, Setting
  <2>2. \A q \in Paths : csum'[q] = << >> \/ csum'[q] = csum[q]
    BY <1>0, <1>8, <2>1 DEF SetOpen, CsumTyped
  <2>3. Complete(call[t].entries)
    BY <2>1 DEF KnownInv, SetsAll
  <2>4. QED BY <1>8, <2>2, <2>3, PlainMoves, KnownStep
<1>9. ASSUME NEW t \in Threads, SetWrite(t) PROVE KnownInv'
  <2>1. call[t].path \in Paths /\ Setting(t)
    BY <1>0, <1>9, BusyPath DEF SetWrite, Setting
  <2>2. csum' = csum \/ csum' = [csum EXCEPT ![call[t].path] = call[t].entries]
    BY <1>9 DEF SetWrite, hdfsCsum, FullRecords
  <2>3. \A q \in Paths : csum'[q] = call[t].entries \/ csum'[q] = csum[q]
    BY <1>0, <2>1, <2>2 DEF CsumTyped
  <2>4. Complete(call[t].entries)
    BY <2>1 DEF KnownInv, SetsAll
  <2>5. QED BY <1>9, <2>3, <2>4, PlainMoves, KnownStep
<1>10. ASSUME NEW t \in Threads, WriteCloseFails(t) \/ SetOpenFails(t) \/ GetDel(t) \/ GetReturns(t)
                                 \/ CalcFails(t) \/ Return(t)
       PROVE  KnownInv'
  <2>1. UNCHANGED hdfsCsum
    BY <1>10 DEF WriteCloseFails, SetOpenFails, GetDel, GetReturns, CalcFails, Return
  <2>2. \E pc \in {"done", "esrch", "calc", "idle"} : \E path, entries, answer :
          Becomes(t, pc, path, entries, answer)
    BY <1>10, PlainMoves
  <2>3. QED BY <1>1, <2>1, <2>2, KnownStep
<1>11. ASSUME UNCHANGED <<csum, call>> PROVE KnownInv'
  BY <1>11 DEF KnownInv, SetsAll, FilesComplete, Complete, Setting
<1>12. ASSUME NEW p \in Paths, (\E t \in Threads : Del(t, p)) \/ Unlink(p) \/ Truncate(p)
       PROVE  KnownInv'
  BY <1>11, <1>12 DEF Del, Unlink, Truncate, hdfsCsum
<1>13. ~Crash
  BY DEF Crash, FullRecords
<1>14. CASE UNCHANGED vars
  BY <1>11, <1>14 DEF vars
<1>15. QED
  BY <1>2, <1>3, <1>4, <1>5, <1>6, <1>7, <1>8, <1>9, <1>10, <1>12, <1>13, <1>14
     DEF Next, Step

\* Where whoever records digests records all of them, a checksum file that is
\* not empty lists every one, in every reachable state.
THEOREM KnownHolds == Spec => []KnownInv
BY InitKnown, NextKnown, TypeCorrect, FileInvHolds, PTL DEF Spec

\* Only a Get or a Ver that finds no digest of that name goes on to Del.
LEMMA DelStarts ==
  ASSUME TypeOK, Next, NEW t \in Threads, call[t].pc # "del", call'[t].pc = "del"
  PROVE  /\ call'[t].path \in Paths
         /\ csum[call'[t].path] # NULL
         /\ Named(csum[call'[t].path], call'[t].type) = {}
<1>1. ASSUME NEW u \in Threads, NEW pc, NEW path, NEW entries, NEW answer,
             Becomes(u, pc, path, entries, answer)
      PROVE  u = t /\ pc = "del"
  BY <1>1 DEF Becomes
<1>2. ASSUME NEW u \in Threads, NEW p \in Paths,
             Ver(u, p) \/ \E type \in Asked : Get(u, p, type)
      PROVE  /\ call'[t].path \in Paths
             /\ csum[call'[t].path] # NULL
             /\ Named(csum[call'[t].path], call'[t].type) = {}
  <2>1. PICK type \in Asked \cup {Adler} :
          LET r == GetOutcome(csum[p], type)
          IN  Becomes(u, r.pc, p, << >>, r.answer) /\ call'[u].type = type
    BY <1>2, QueryMoves
  <2>2. u = t /\ GetOutcome(csum[p], type).pc = "del"
    BY <1>1, <2>1
  <2>3. call'[t].path = p /\ call'[t].type = type
    BY <2>1, <2>2 DEF Becomes
  <2>4. csum[p] # NULL /\ Named(csum[p], type) = {}
    BY <2>2, GetOutcomeType DEF TypeOK, Names
  <2>5. QED BY <2>3, <2>4
<1>3. ASSUME NEW u \in Threads, NEW p \in Paths PROVE ~WriteOpen(u, p)
  BY <1>1, WriteOpenMoves
<1>4. ASSUME NEW u \in Threads, NEW p \in Paths, NEW type \in Asked
      PROVE  ~CalcBegins(u, p, type) /\ ~SetCks(u, p, type)
  BY <1>1, CalcBeginsMoves, SetCksMoves
<1>5. ASSUME NEW u \in Threads PROVE ~WriteClose(u)
  BY <1>1, WriteCloseMoves
<1>6. ASSUME NEW u \in Threads, NEW do_set \in BOOLEAN PROVE ~Calc(u, do_set)
  BY <1>1, CalcMoves
<1>7. ASSUME NEW u \in Threads
      PROVE  /\ ~SetOpen(u) /\ ~SetOpenFails(u) /\ ~SetWrite(u) /\ ~GetDel(u)
             /\ ~GetReturns(u) /\ ~CalcFails(u) /\ ~Return(u) /\ ~WriteCloseFails(u)
  BY <1>1, PlainMoves
<1>8. ASSUME NEW p \in Paths
      PROVE  ~Unlink(p) /\ ~Truncate(p) /\ \A u \in Threads : ~Del(u, p)
  BY DEF Unlink, Truncate, Del
<1>9. ~Crash
  BY IdleType DEF Crash
<1>10. QED
  BY <1>2, <1>3, <1>4, <1>5, <1>6, <1>7, <1>8, <1>9 DEF Next, Step

\* Where whoever records digests records all of them, the only Get or Ver that
\* unlinks a data file for want of a digest which Close records is one that has
\* met the checksum file between another thread's Open and Write, however many
\* threads, files and digests there are.
THEOREM DelsOnlyWhileWritten == Spec => DelOnlyWhileWritten
<1> DEFINE Raced(t) ==
      LET p == call'[t].path IN
      /\ csum[p] = << >>
      /\ \E u \in Threads : cwriter[p] = u /\ call[u].pc = "write" /\ call[u].path = p
    A == FullRecords =>
           \A t \in Threads :
             (call[t].pc # "del" /\ call'[t].pc = "del" /\ Listed(call'[t].type)) => Raced(t)
<1>1. TypeOK /\ FileInv /\ KnownInv /\ [Next]_vars => [A]_vars
  <2> SUFFICES ASSUME TypeOK, FileInv, KnownInv, Next, FullRecords,
                      NEW t \in Threads, call[t].pc # "del", call'[t].pc = "del",
                      Listed(call'[t].type)
               PROVE  Raced(t)
    OBVIOUS
  <2> DEFINE p == call'[t].path
  <2>1. p \in Paths /\ csum[p] # NULL /\ Named(csum[p], call'[t].type) = {}
    BY DelStarts
  <2>2. ~Complete(csum[p])
    BY <2>1 DEF Complete, Listed
  <2>3. csum[p] = << >>
    BY <2>1, <2>2 DEF KnownInv, FilesComplete
  <2>4. cwriter[p] \in Threads
    BY <2>1, <2>3 DEF FullRecords, FileInv, EmptyIsOpen, TypeOK
  <2>5. call[cwriter[p]].pc = "write" /\ call[cwriter[p]].path = p
    BY <2>1, <2>4 DEF FileInv, WriterWrites
  <2>6. QED BY <2>3, <2>4, <2>5
<1>2. QED BY <1>1, KnownHolds, FileInvHolds, TypeCorrect, PTL DEF Spec, DelOnlyWhileWritten
=============================================================================
