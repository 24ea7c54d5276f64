----------------------- MODULE XrdHdfsBootstrapProofs -----------------------
(***************************************************************************)
(* XrdHdfsBootstrap for buffers, pipes and values of any size: the scan of *)
(* DetermineEnvironment stays inside environ_buffer, and when it returns 0 *)
(* the values of the child's environment are in the server's, whole.       *)
(***************************************************************************)
EXTENDS XrdHdfsBootstrap, TLAPS, FiniteSetTheorems

USE SizesAssumption, LengthsAssumption
----------------------------------------------------------------------------
\* A sequence of whatever.
IsSequence(s) == \E S : s \in Seq(S)

\* Not only the last byte of environ_buffer is 0, the one before is too: fgets
\* writes its Nul there when the line is full, and no further otherwise.  So a
\* string that begins before it ends there at the latest, and cur_pos, one past
\* the end, is still inside.
BufferInv ==
  /\ IsSequence(line) /\ Len(line) <= LineSize
  /\ environ_buffer = [i \in 0 .. (BufSize - 1) |-> environ_buffer[i]]
  /\ environ_buffer[BufSize - 1] = Nul /\ environ_buffer[BufSize - 2] = Nul
  /\ cur_pos \in 0 .. (BufSize - 1)

\* A set of natural numbers has a least element.
LEMMA LeastNatural ==
  ASSUME NEW T, T \subseteq Nat, T # {}
  PROVE  \E x \in T : \A y \in T : x <= y
<1>1. PICK x \in T : \A y \in T : ~(<<y, x>> \in OpToRel(<, Nat))
  BY NatLessThanWellFounded, WFMin
<1>2. \A y \in T : ~(y < x)
  <2> SUFFICES ASSUME NEW y \in T, y < x PROVE <<y, x>> \in OpToRel(<, Nat)
    BY <1>1
  <2>1. <<y, x>> \in Nat \X Nat
    OBVIOUS
  <2>2. QED BY <2>1 DEF OpToRel
<1>3. QED BY <1>2

\* What fgets reads is appended.
LEMMA AppendSequence ==
  ASSUME NEW s, IsSequence(s), NEW x
  PROVE  IsSequence(Append(s, x)) /\ Len(Append(s, x)) = Len(s) + 1 /\ Len(s) \in Nat
<1>1. PICK S : s \in Seq(S)
  BY DEF IsSequence
<1> DEFINE T == S \cup {x}
<1>2. s \in Seq(T) /\ x \in T
  BY <1>1
<1> HIDE DEF T
<1>3. Append(s, x) \in Seq(T) /\ Len(Append(s, x)) = Len(s) + 1 /\ Len(s) \in Nat
  BY <1>2
<1>4. QED BY <1>3 DEF IsSequence

\* The string at cur_pos ends before the last byte.
LEMMA CurStringFits ==
  ASSUME BufferInv, environ_buffer[cur_pos] # Nul
  PROVE  Len(CurString) \in Nat /\ cur_pos + Len(CurString) + 1 \in 0 .. (BufSize - 1)
<1> DEFINE last == BufSize - 1
           EndsAt(j) == /\ environ_buffer[j] = Nul
                      /\ \A k \in cur_pos .. (j - 1) : environ_buffer[k] # Nul
           end == CHOOSE j \in cur_pos .. last : EndsAt(j)
           T == {k \in Nat : k \in cur_pos .. last /\ environ_buffer[k] = Nul}
<1>1. /\ BufSize \in Nat /\ BufSize > 2 /\ cur_pos \in Nat /\ cur_pos < BufSize - 2
  BY DEF BufferInv
<1>2. PICK j \in T : \A k \in T : j <= k
  <2>1. BufSize - 1 \in T
    BY <1>1 DEF BufferInv
  <2>2. QED BY <2>1, LeastNatural
<1>3. j \in cur_pos .. last /\ EndsAt(j)
  <2>1. ASSUME NEW k \in cur_pos .. (j - 1) PROVE environ_buffer[k] # Nul
    <3>1. k \in Nat /\ k \in cur_pos .. last /\ k < j
      BY <1>1, <1>2
    <3>2. k \notin T
      BY <1>2, <3>1
    <3>3. QED BY <3>1, <3>2
  <2>2. QED BY <1>2, <2>1
<1>4. end \in cur_pos .. last /\ EndsAt(end)
  BY <1>3
<1> HIDE DEF end
<1>5. end \in Nat /\ cur_pos <= end /\ end <= BufSize - 2
  <2>1. ASSUME end = BufSize - 1 PROVE FALSE
    <3>1. BufSize - 2 \in cur_pos .. (end - 1)
      BY <1>1, <2>1
    <3>2. QED BY <1>4, <3>1 DEF BufferInv
  <2>2. QED BY <1>1, <1>4, <2>1
<1> DEFINE size == end - cur_pos
           s == [i \in 1 .. size |-> environ_buffer[cur_pos + i - 1]]
           S == {environ_buffer[cur_pos + i - 1] : i \in 1 .. size}
<1>6. CurString = s
  BY DEF CurString, end
<1>7. size \in Nat
  BY <1>1, <1>5
<1> HIDE DEF size
<1>8. s \in [1 .. size -> S]
  OBVIOUS
<1> HIDE DEF S, s
<1>9. s \in Seq(S) /\ Len(s) = size
  BY <1>7, <1>8
<1>10. QED BY <1>1, <1>5, <1>6, <1>9 DEF size

LEMMA InitBuffer == Init => BufferInv
<1> SUFFICES ASSUME Init PROVE BufferInv
  OBVIOUS
<1>1. << >> \in Seq({}) /\ Len(<< >>) = 0
  OBVIOUS
<1>2. IsSequence(line) /\ Len(line) <= LineSize
  BY <1>1 DEF Init, IsSequence, LineSize
<1>3. QED BY <1>2 DEF Init, BufferInv

LEMMA FgetsReadsBuffer == ASSUME BufferInv, FgetsReads PROVE BufferInv'
<1>1. IsSequence(line') /\ Len(line') = Len(line) + 1 /\ Len(line) \in Nat
  BY AppendSequence DEF FgetsReads, BufferInv
<1>2. Len(line') <= LineSize
  BY <1>1 DEF FgetsReads, LineSize
<1>3. QED BY <1>1, <1>2 DEF FgetsReads, BufferInv, LineSize

LEMMA FgetsReturnsBuffer == ASSUME BufferInv, FgetsReturns PROVE BufferInv'
<1>1. Len(line) \in Nat /\ Len(line) <= BufSize - 2
  BY AppendSequence DEF BufferInv, LineSize
<1>2. environ_buffer' = [i \in 0 .. (BufSize - 1) |->
                           IF i < Len(line) THEN line[i + 1]
                           ELSE IF i = Len(line) THEN Nul ELSE environ_buffer[i]]
  BY DEF FgetsReturns, BufferInv
<1>3. /\ environ_buffer' = [i \in 0 .. (BufSize - 1) |-> environ_buffer'[i]]
      /\ environ_buffer'[BufSize - 1] = Nul
  BY <1>1, <1>2 DEF BufferInv
<1>4. environ_buffer'[BufSize - 2] = Nul
  BY <1>1, <1>2 DEF BufferInv
<1>5. << >> \in Seq({}) /\ Len(<< >>) = 0
  OBVIOUS
<1>6. IsSequence(line') /\ Len(line') <= LineSize
  BY <1>5 DEF FgetsReturns, IsSequence, LineSize
<1>7. QED BY <1>3, <1>4, <1>6 DEF FgetsReturns, BufferInv, LineSize

LEMMA ScanBuffer == ASSUME BufferInv, Scan PROVE BufferInv'
<1>1. environ_buffer[cur_pos] # Nul /\ cur_pos' = cur_pos + ScanStep
      /\ UNCHANGED <<line, environ_buffer>>
  BY DEF Scan
<1>2. cur_pos' \in 0 .. (BufSize - 1)
  <2>1. Len(CurString) \in Nat /\ cur_pos + Len(CurString) + 1 \in 0 .. (BufSize - 1)
    BY <1>1, CurStringFits
  <2>2. cur_pos \in Nat
    BY DEF BufferInv
  <2>3. cur_pos' = cur_pos + Len(CurString) + 1
    BY <1>1, <2>1, <2>2 DEF ScanStep
  <2>4. QED BY <2>1, <2>3
<1>3. QED BY <1>1, <1>2 DEF BufferInv, LineSize

LEMMA NextBuffer == BufferInv /\ [Next]_vars => BufferInv'
<1> SUFFICES ASSUME BufferInv, [Next]_vars PROVE BufferInv'
  OBVIOUS
<1>1. CASE UNCHANGED <<line, environ_buffer, cur_pos>>
  BY <1>1 DEF BufferInv, LineSize
<1>2. CASE ChildStep
  BY <1>1, <1>2
     DEF ChildStep, ChildNext, ChildCalls, ChildPushes, ChildWrote, ChildFails, serverVars
<1>3. CASE ScanEnds \/ Pclose \/ Done \/ UNCHANGED vars
  BY <1>1, <1>3 DEF ScanEnds, Pclose, Done, vars, serverVars
<1>4. QED
  BY <1>2, <1>3, FgetsReadsBuffer, FgetsReturnsBuffer, ScanBuffer DEF Next, ServerStep

\* fgets and the scan leave the last two bytes of environ_buffer 0.
THEOREM BufferInvHolds == Spec => []BufferInv
BY InitBuffer, NextBuffer, PTL DEF Spec

\* Whatever comes down the pipe, in however many lines, CheckEnvVar and strlen in
\* DetermineEnvironment never leave environ_buffer.
THEOREM ScanStaysInBuffer == Spec => []ScanInBuffer
<1>1. BufferInv => ScanInBuffer
  BY DEF BufferInv, ScanInBuffer
<1>2. QED BY <1>1, BufferInvHolds, PTL
----------------------------------------------------------------------------
(***************************************************************************)
(* The output of the child: where each record ends                         *)
(***************************************************************************)

\* The cells printed of the first k variables.
Ends(g, k) == Cardinality(Printed(g, k))

LEMMA LengthType ==
  ASSUME NEW g \in [Names -> Lengths], NEW k \in 1 .. Len(Vars)
  PROVE  Vars[k] \in Names /\ g[Vars[k]] \in Nat \cup {-1}
<1>1. Vars[k] \in Names
  BY DEF Names
<1>2. QED BY <1>1

\* Each variable that is set adds its record and a Nul.
LEMMA PrintedStep ==
  ASSUME NEW g \in [Names -> Lengths], NEW k \in 1 .. Len(Vars)
  PROVE  /\ Printed(g, k) = Printed(g, k - 1) \cup
              (IF g[Vars[k]] >= 0 THEN {k} \X (0 .. (g[Vars[k]] + 1)) ELSE {})
         /\ \A c \in Printed(g, k - 1) : c[1] # k
<1>0. Len(Vars) \in Nat
  BY VarsAssumption
<1> DEFINE Cells(i) == {i} \X (0 .. (g[Vars[i]] + 1))
           Set(m) == {i \in 1 .. m : g[Vars[i]] >= 0}
<1>1. Set(k) = Set(k - 1) \cup (IF g[Vars[k]] >= 0 THEN {k} ELSE {})
  BY <1>0
<1>2. Printed(g, k) = UNION {Cells(i) : i \in Set(k)} /\ Printed(g, k - 1) = UNION {Cells(i) : i \in Set(k - 1)}
  BY DEF Printed
<1>3. ASSUME NEW c \in Printed(g, k - 1) PROVE c[1] # k
  <2>1. PICK i \in Set(k - 1) : c \in Cells(i)
    BY <1>2
  <2>2. c[1] = i /\ i \in 1 .. (k - 1)
    BY <2>1
  <2>3. QED BY <2>2, <1>0
<1> HIDE DEF Cells, Set
<1>4. Printed(g, k) = Printed(g, k - 1) \cup (IF g[Vars[k]] >= 0 THEN Cells(k) ELSE {})
  <2>1. CASE g[Vars[k]] >= 0
    <3>1. Set(k) = Set(k - 1) \cup {k}
      BY <1>1, <2>1
    <3>2. QED BY <1>2, <2>1, <3>1
  <2>2. CASE ~(g[Vars[k]] >= 0)
    <3>1. Set(k) = Set(k - 1)
      BY <1>1, <2>2
    <3>2. QED BY <1>2, <2>2, <3>1
  <2>3. QED BY <2>1, <2>2
<1>5. QED BY <1>3, <1>4 DEF Cells

\* Nothing is printed of no variables.
LEMMA PrintedNone == ASSUME NEW g PROVE Printed(g, 0) = {}
<1>1. {i \in 1 .. 0 : g[Vars[i]] >= 0} = {}
  OBVIOUS
<1>2. QED BY <1>1 DEF Printed

\* A record and its Nul.
LEMMA RecordCells ==
  ASSUME NEW k, NEW m \in Nat
  PROVE  IsFiniteSet({k} \X (0 .. (m + 1))) /\ Cardinality({k} \X (0 .. (m + 1))) = m + 2
<1>1. IsFiniteSet(0 .. (m + 1)) /\ Cardinality(0 .. (m + 1)) = m + 2
  <2>1. 0 \in Int /\ m + 1 \in Int /\ ~(0 > m + 1) /\ m + 1 - 0 + 1 = m + 2
    OBVIOUS
  <2>2. QED BY <2>1, FS_Interval
<1>2. IsFiniteSet({k}) /\ Cardinality({k}) = 1
  BY FS_Singleton
<1>3. QED BY <1>1, <1>2, FS_Product

\* The output is finite.
LEMMA PrintedFinite ==
  ASSUME NEW g \in [Names -> Lengths], NEW k \in 0 .. Len(Vars)
  PROVE  IsFiniteSet(Printed(g, k))
<1> DEFINE T == {m \in Nat : m \in 0 .. Len(Vars) /\ ~IsFiniteSet(Printed(g, m))}
<1>0. Len(Vars) \in Nat
  BY VarsAssumption
<1>1. SUFFICES ASSUME T # {} PROVE FALSE
  BY <1>0
<1>2. PICK m \in T : \A y \in T : m <= y
  BY <1>1, LeastNatural
<1>3. m # 0
  BY <1>2, PrintedNone, FS_EmptySet
<1>4. m \in 1 .. Len(Vars) /\ m - 1 \in Nat /\ m - 1 \in 0 .. Len(Vars) /\ ~(m <= m - 1)
  BY <1>0, <1>2, <1>3
<1>5. IsFiniteSet(Printed(g, m - 1))
  BY <1>2, <1>4
<1>6. IsFiniteSet(IF g[Vars[m]] >= 0 THEN {m} \X (0 .. (g[Vars[m]] + 1)) ELSE {})
  <2>1. CASE g[Vars[m]] >= 0
    <3>1. g[Vars[m]] \in Nat
      <4>1. g[Vars[m]] \in Nat \cup {-1}
        BY <1>4, LengthType
      <4>2. QED BY <2>1, <4>1
    <3>2. QED BY <2>1, <3>1, RecordCells
  <2>2. QED BY <2>1, FS_EmptySet
<1>7. IsFiniteSet(Printed(g, m))
  <2> DEFINE S == IF g[Vars[m]] >= 0 THEN {m} \X (0 .. (g[Vars[m]] + 1)) ELSE {}
  <2>1. Printed(g, m) = Printed(g, m - 1) \cup S
    BY <1>4, PrintedStep
  <2>2. IsFiniteSet(S)
    BY <1>6
  <2> HIDE DEF S
  <2>3. QED BY <1>5, <2>1, <2>2, FS_Union, ZenonT(30)
<1>8. QED BY <1>2, <1>7

\* Where the records end.
LEMMA EndsStep ==
  ASSUME NEW g \in [Names -> Lengths], NEW k \in 1 .. Len(Vars)
  PROVE  /\ g[Vars[k]] \in Int /\ Ends(g, k) \in Nat /\ Ends(g, k - 1) \in Nat
         /\ g[Vars[k]] < 0 => Ends(g, k) = Ends(g, k - 1)
         /\ g[Vars[k]] >= 0 => Ends(g, k) = Ends(g, k - 1) + g[Vars[k]] + 2
<1>0. Len(Vars) \in Nat /\ k - 1 \in 0 .. Len(Vars) /\ k \in 0 .. Len(Vars)
  BY VarsAssumption
<1>1. IsFiniteSet(Printed(g, k)) /\ IsFiniteSet(Printed(g, k - 1))
  BY <1>0, PrintedFinite
<1>2. Ends(g, k) \in Nat /\ Ends(g, k - 1) \in Nat
  BY <1>1, FS_CardinalityType DEF Ends
<1>3. g[Vars[k]] \in Nat \cup {-1}
  BY LengthType
<1>4. ASSUME g[Vars[k]] < 0 PROVE Ends(g, k) = Ends(g, k - 1)
  <2>1. Printed(g, k) = Printed(g, k - 1) \cup {}
    <3>1. ~(g[Vars[k]] >= 0)
      BY <1>3, <1>4
    <3>2. QED BY <3>1, PrintedStep
  <2>2. QED BY <2>1 DEF Ends
<1>5. ASSUME g[Vars[k]] >= 0 PROVE Ends(g, k) = Ends(g, k - 1) + g[Vars[k]] + 2
  <2> DEFINE S == {k} \X (0 .. (g[Vars[k]] + 1))
             P == Printed(g, k - 1)
  <2>1. Printed(g, k) = P \cup S
    BY <1>5, PrintedStep
  <2>2. IsFiniteSet(S) /\ Cardinality(S) = g[Vars[k]] + 2
    <3>1. g[Vars[k]] \in Nat
      BY <1>3, <1>5
    <3>2. QED BY <3>1, RecordCells
  <2>3. P \cap S = {}
    <3> SUFFICES ASSUME NEW c \in P, c \in S PROVE FALSE
      OBVIOUS
    <3>1. c[1] = k
      OBVIOUS
    <3>2. QED BY <3>1, PrintedStep
  <2> HIDE DEF S, P
  <2>4. IsFiniteSet(P)
    BY <1>1 DEF P
  <2>5. Cardinality(P \cup S) = Cardinality(P) + Cardinality(S) - Cardinality(P \cap S)
    BY <2>2, <2>4, FS_Union
  <2>6. Cardinality(P \cap S) = 0
    BY <2>3, FS_EmptySet
  <2>7. Ends(g, k) = Cardinality(P \cup S) /\ Ends(g, k - 1) = Cardinality(P)
    BY <2>1 DEF Ends, P
  <2>8. QED BY <1>2, <1>3, <2>2, <2>5, <2>6, <2>7
<1>6. QED BY <1>2, <1>3, <1>4, <1>5

LEMMA EndsNone == ASSUME NEW g PROVE Ends(g, 0) = 0
BY PrintedNone, FS_EmptySet DEF Ends

\* The records come in the order of the variables.
LEMMA EndsGrow ==
  ASSUME NEW g \in [Names -> Lengths], NEW i \in 0 .. Len(Vars), NEW k \in 0 .. Len(Vars),
         i <= k
  PROVE  Ends(g, i) \in Nat /\ Ends(g, k) \in Nat /\ Ends(g, i) <= Ends(g, k)
<1>0. Len(Vars) \in Nat
  BY VarsAssumption
<1>1. IsFiniteSet(Printed(g, i)) /\ IsFiniteSet(Printed(g, k))
  BY PrintedFinite
<1>2. {j \in 1 .. i : g[Vars[j]] >= 0} \subseteq {j \in 1 .. k : g[Vars[j]] >= 0}
  BY <1>0
<1>3. Printed(g, i) \subseteq Printed(g, k)
  BY <1>2 DEF Printed
<1>4. QED BY <1>1, <1>3, FS_Subset, FS_CardinalityType DEF Ends

\* Byte j of the record of variable i, and the Nul after it, are where they
\* should be in the output.
Cell(g, q, c) ==
  \A i \in 1 .. Len(Vars) : g[Vars[i]] >= 0 =>
    /\ \A j \in 0 .. g[Vars[i]] : q = Ends(g, i - 1) + j => c = <<Vars[i], j>>
    /\ q = Ends(g, i) - 1 => c = Nul

\* No two records share a cell.
LEMMA OneRecord ==
  ASSUME NEW g \in [Names -> Lengths], NEW i \in 1 .. Len(Vars), NEW k \in 1 .. Len(Vars),
         NEW q \in Int, Ends(g, i - 1) <= q, q < Ends(g, i), Ends(g, k - 1) <= q, q < Ends(g, k)
  PROVE  i = k
<1>0. Len(Vars) \in Nat
  BY VarsAssumption
<1>1. ASSUME NEW a \in 1 .. Len(Vars), NEW b \in 1 .. Len(Vars), a < b,
             q < Ends(g, a), Ends(g, b - 1) <= q
      PROVE  FALSE
  <2>1. a \in 0 .. Len(Vars) /\ b - 1 \in 0 .. Len(Vars) /\ a <= b - 1
    BY <1>0, <1>1
  <2>2. Ends(g, a) \in Nat /\ Ends(g, b - 1) \in Nat /\ Ends(g, a) <= Ends(g, b - 1)
    BY <2>1, EndsGrow
  <2>3. QED BY <1>1, <2>2
<1>2. ~(i < k) /\ ~(k < i)
  BY <1>1
<1>3. QED BY <1>0, <1>2

LEMMA RecordCell ==
  ASSUME NEW g \in [Names -> Lengths], NEW k \in 1 .. Len(Vars), g[Vars[k]] >= 0,
         NEW j \in 0 .. g[Vars[k]]
  PROVE  Cell(g, Ends(g, k - 1) + j, <<Vars[k], j>>)
<1> DEFINE q == Ends(g, k - 1) + j
<1>1. /\ q \in Int /\ Ends(g, k - 1) <= q /\ q < Ends(g, k) - 1 /\ q < Ends(g, k)
      /\ g[Vars[k]] \in Int /\ Ends(g, k) \in Int /\ Ends(g, k - 1) \in Int
  <2>1. /\ g[Vars[k]] \in Int /\ Ends(g, k) \in Int /\ Ends(g, k - 1) \in Int
        /\ Ends(g, k) = Ends(g, k - 1) + g[Vars[k]] + 2
    BY EndsStep
  <2>2. QED BY <2>1, SMTT(30)
<1> SUFFICES ASSUME NEW i \in 1 .. Len(Vars), g[Vars[i]] >= 0
             PROVE  /\ \A x \in 0 .. g[Vars[i]] : q = Ends(g, i - 1) + x => <<Vars[k], j>> = <<Vars[i], x>>
                    /\ q = Ends(g, i) - 1 => <<Vars[k], j>> = Nul
  BY DEF Cell
<1>2. /\ g[Vars[i]] \in Int /\ Ends(g, i) \in Int /\ Ends(g, i - 1) \in Int
      /\ Ends(g, i) = Ends(g, i - 1) + g[Vars[i]] + 2
  BY EndsStep, SMTT(30)
<1> HIDE DEF q
<1>3. ASSUME NEW x \in 0 .. g[Vars[i]], q = Ends(g, i - 1) + x PROVE <<Vars[k], j>> = <<Vars[i], x>>
  <2>1. Ends(g, i - 1) <= q /\ q < Ends(g, i)
    BY <1>2, <1>3, SMTT(30)
  <2>2. i = k
    BY <1>1, <2>1, OneRecord
  <2>3. x = j
    BY <1>1, <1>3, <2>2 DEF q
  <2>4. QED BY <2>2, <2>3
<1>4. ASSUME q = Ends(g, i) - 1 PROVE FALSE
  <2>1. Ends(g, i - 1) <= q /\ q < Ends(g, i)
    BY <1>2, <1>4
  <2>2. i = k
    BY <1>1, <2>1, OneRecord
  <2>3. QED BY <1>1, <1>4, <2>2
<1>5. QED BY <1>3, <1>4

LEMMA NulCell ==
  ASSUME NEW g \in [Names -> Lengths], NEW k \in 1 .. Len(Vars), g[Vars[k]] >= 0
  PROVE  Cell(g, Ends(g, k) - 1, Nul)
<1> DEFINE q == Ends(g, k) - 1
<1>1. /\ q \in Int /\ Ends(g, k - 1) <= q /\ q < Ends(g, k)
      /\ g[Vars[k]] \in Int /\ Ends(g, k) \in Int /\ Ends(g, k - 1) \in Int
      /\ q = Ends(g, k - 1) + g[Vars[k]] + 1
  BY EndsStep, SMTT(30)
<1> SUFFICES ASSUME NEW i \in 1 .. Len(Vars), g[Vars[i]] >= 0,
                    NEW x \in 0 .. g[Vars[i]], q = Ends(g, i - 1) + x
             PROVE  FALSE
  BY DEF Cell
<1>2. /\ g[Vars[i]] \in Int /\ Ends(g, i) \in Int /\ Ends(g, i - 1) \in Int
      /\ Ends(g, i) = Ends(g, i - 1) + g[Vars[i]] + 2
  BY EndsStep
<1> HIDE DEF q
<1>3. Ends(g, i - 1) <= q /\ q < Ends(g, i)
  BY <1>2, SMTT(30)
<1>4. i = k
  BY <1>1, <1>3, OneRecord
<1>5. QED BY <1>1, <1>2, <1>4
----------------------------------------------------------------------------
(***************************************************************************)
(* The child                                                               *)
(***************************************************************************)

\* The text of a record.
Text(v, m) == <<<<v, 0>>>> \o Value(v, m)

\* The variable whose turn it is.
Cur == Len(Vars) - Len(todo) + 1

Writing == child \in {"call", "write"}

\* What safe_write has written of its text.
Written == pos + (IF child = "write" THEN n ELSE 0)

\* main takes the variables in order.
TodoInv ==
  /\ todo \in Seq(Names) /\ Len(todo) <= Len(Vars)
  /\ \A i \in 1 .. Len(todo) : todo[i] = Vars[Len(Vars) - Len(todo) + i]

\* len is what is left of the text, or -1 once safe_write has written a byte too
\* many after an EINTR; then result is what it has written, and the next
\* count is negative.
SafeWriteInv ==
  /\ todo # << >> /\ given[Head(todo)] >= 0
  /\ text \in {Text(Head(todo), given[Head(todo)]), <<Nul>>}
  /\ pos >= 0 /\ len = Len(text) - pos /\ result >= -1
  /\ len >= 0 \/ (len = -1 /\ result >= 1)
  /\ child = "write" => n >= 0 /\ (n = 0 \/ n <= Wants)

ChildInv ==
  /\ given \in [Names -> Lengths]
  /\ TodoInv
  /\ child \in {"next", "call", "write", "exit"}
  /\ len \in Int /\ result \in Int /\ pos \in Int /\ n \in Int
  /\ status # 0 => child = "exit"
  /\ (child = "exit" /\ status = 0) => todo = << >>
  /\ Writing => SafeWriteInv

\* The child has failed or is bound to: it has written beyond its text.
Bad == status # 0 \/ (Writing /\ Written > Len(text))

\* A variable that is set has a length.
LEMMA SetLength ==
  ASSUME NEW g \in [Names -> Lengths], NEW v \in Names, g[v] >= 0 PROVE g[v] \in Nat
<1> DEFINE l == g[v]
<1>1. l \in Lengths
  OBVIOUS
<1>2. l >= 0
  OBVIOUS
<1> HIDE DEF l
<1>3. l \in Nat
  BY <1>1, <1>2
<1>4. QED BY <1>3 DEF l

LEMMA TextFacts ==
  ASSUME NEW v \in Names, NEW m \in Nat
  PROVE  /\ Len(Text(v, m)) = m + 1
         /\ \A x \in 1 .. (m + 1) : Text(v, m)[x] = <<v, x - 1>>
         /\ Text(v, m) # <<Nul>>
<1>1. Len(Text(v, m)) = m + 1
  BY DEF Text, Value
<1>2. ASSUME NEW x \in 1 .. (m + 1) PROVE Text(v, m)[x] = <<v, x - 1>>
  BY DEF Text, Value
<1>3. Text(v, m)[1] = <<v, 0>> /\ <<v, 0>> \in Names \X Nat
  BY DEF Text, Value
<1>4. Text(v, m)[1] # Nul
  BY <1>3, VarsAssumption
<1>5. <<Nul>>[1] = Nul
  OBVIOUS
<1>6. QED BY <1>1, <1>2, <1>4, <1>5

LEMMA TodoHead ==
  ASSUME TodoInv, todo # << >>
  PROVE  Cur \in 1 .. Len(Vars) /\ Head(todo) = Vars[Cur] /\ Head(todo) \in Names
<1>1. Len(Vars) \in Nat /\ Len(todo) \in Nat /\ Len(todo) >= 1 /\ Head(todo) = todo[1]
  BY VarsAssumption DEF TodoInv
<1>2. Head(todo) \in Names
  BY DEF TodoInv
<1>3. todo[1] = Vars[Len(Vars) - Len(todo) + 1]
  BY <1>1 DEF TodoInv
<1>4. QED BY <1>1, <1>2, <1>3 DEF Cur, TodoInv

LEMMA TodoTail ==
  ASSUME TodoInv, todo # << >>, todo' = Tail(todo)
  PROVE  TodoInv' /\ Cur' = Cur + 1
<1>1. Len(Vars) \in Nat /\ Len(todo) \in Nat /\ Len(todo) >= 1 /\ Len(todo) <= Len(Vars)
  BY VarsAssumption DEF TodoInv
<1>2. todo' \in Seq(Names) /\ Len(todo') = Len(todo) - 1
  BY DEF TodoInv
<1>3. ASSUME NEW i \in 1 .. Len(todo') PROVE todo'[i] = Vars[Len(Vars) - Len(todo') + i]
  <2>1. todo'[i] = todo[i + 1] /\ i + 1 \in 1 .. Len(todo)
    BY <1>1, <1>2 DEF TodoInv
  <2>2. todo[i + 1] = Vars[Len(Vars) - Len(todo) + (i + 1)]
    BY <2>1 DEF TodoInv
  <2>3. Len(Vars) - Len(todo) + (i + 1) = Len(Vars) - Len(todo') + i
    BY <1>1, <1>2
  <2>4. QED BY <2>1, <2>2, <2>3
<1>4. QED BY <1>1, <1>2, <1>3 DEF TodoInv, Cur

LEMMA InitChild == Init => ChildInv
<1> SUFFICES ASSUME Init PROVE ChildInv
  OBVIOUS
<1>1. TodoInv
  <2>1. Len(Vars) \in Nat /\ todo = Vars /\ todo \in Seq(Names)
    BY VarsAssumption DEF Init
  <2>2. QED BY <2>1 DEF TodoInv
<1>2. QED BY <1>1 DEF Init, ChildInv, Writing

\* safe_write is called.
LEMMA SafeWriteBegins ==
  ASSUME ChildInv, todo # << >>, given[Head(todo)] >= 0, NEW t,
         t \in {Text(Head(todo), given[Head(todo)]), <<Nul>>},
         SafeWrite(t, Len(t)), child' = "call", UNCHANGED <<given, todo, status>>, status = 0
  PROVE  ChildInv' /\ ~Bad'
<1>1. Head(todo) \in Names /\ given[Head(todo)] \in Nat
  <2>1. Head(todo) \in Names
    BY TodoHead DEF ChildInv
  <2>2. QED BY <2>1, SetLength DEF ChildInv
<1>2. Len(t) \in Nat
  BY <1>1, TextFacts
<1>3. TodoInv'
  BY DEF ChildInv, TodoInv
<1>4. SafeWriteInv'
  BY <1>2 DEF SafeWrite, SafeWriteInv
<1>5. QED BY <1>2, <1>3, <1>4 DEF ChildInv, SafeWrite, Writing, Bad, Written

LEMMA ChildNextInv == ASSUME ChildInv, ChildNext PROVE ChildInv'
<1>0. status = 0 /\ UNCHANGED <<given, status>>
  BY DEF ChildInv, ChildNext
<1>1. CASE todo = << >> /\ child' = "exit" /\ UNCHANGED <<todo, text, len, result, pos, n>>
  BY <1>0, <1>1 DEF ChildInv, TodoInv, Writing
<1>2. CASE todo # << >> /\ todo' = Tail(todo) /\ UNCHANGED <<child, text, len, result, pos, n>>
  BY <1>0, <1>2, TodoTail DEF ChildInv, Writing, ChildNext
<1>3. CASE /\ todo # << >> /\ given[Head(todo)] >= 0 /\ UNCHANGED todo /\ child' = "call"
           /\ SafeWrite(Record(Head(todo)), Len(Record(Head(todo))))
  <2>1. Record(Head(todo)) = Text(Head(todo), given[Head(todo)])
    BY DEF Record, Text
  <2>2. QED BY <1>0, <1>3, <2>1, SafeWriteBegins
<1>4. QED BY <1>1, <1>2, <1>3 DEF ChildNext

LEMMA ChildCallsInv == ASSUME ChildInv, ChildCalls PROVE ChildInv'
<1>0. status = 0 /\ UNCHANGED <<given, status>> /\ Writing /\ SafeWriteInv
  BY DEF ChildInv, ChildCalls, Writing
<1>1. CASE len # 0 /\ child' = "write" /\ n' = 0 /\ UNCHANGED <<todo, text, len, result, pos>>
  <2>1. SafeWriteInv'
    BY <1>0, <1>1 DEF SafeWriteInv
  <2>2. QED BY <1>0, <1>1, <2>1 DEF ChildInv, TodoInv, Writing
<1>2. CASE text = <<Nul>> /\ child' = "next" /\ todo' = Tail(todo) /\ UNCHANGED <<text, len, result, pos, n>>
  BY <1>0, <1>2, TodoTail DEF ChildInv, Writing, SafeWriteInv
<1>3. CASE child' = "call" /\ SafeWrite(<<Nul>>, 1) /\ UNCHANGED todo
  <2>1. Len(<<Nul>>) = 1
    OBVIOUS
  <2>2. QED BY <1>0, <1>3, <2>1, SafeWriteBegins DEF SafeWriteInv
<1>4. QED BY <1>1, <1>2, <1>3 DEF ChildCalls

LEMMA ChildPushesInv == ASSUME ChildInv, ChildPushes PROVE ChildInv'
<1>0. SafeWriteInv /\ UNCHANGED <<given, todo, child, text, len, result, pos, status>> /\ n' = n + 1 /\ n < Wants
      /\ len \in Int /\ result \in Int /\ n \in Int
  BY DEF ChildInv, ChildPushes, Writing
<1>1. SafeWriteInv'
  BY <1>0 DEF SafeWriteInv, Wants
<1>2. QED BY <1>0, <1>1 DEF ChildInv, TodoInv, Writing

LEMMA ChildWroteInv == ASSUME ChildInv, ChildWrote PROVE ChildInv'
<1>0. /\ SafeWriteInv /\ child = "write" /\ child' = "call"
      /\ UNCHANGED <<given, todo, text, status, n>>
      /\ len \in Int /\ result \in Int /\ n \in Int /\ pos \in Int /\ n <= Wants /\ Wants >= 0
  BY DEF ChildInv, ChildWrote, Writing, Wants
<1>0a. Len(text) \in Int
  <2>1. Len(text) = len + pos
    <3>1. Head(todo) \in Names
      BY <1>0, TodoHead DEF ChildInv, SafeWriteInv
    <3>2. given[Head(todo)] \in Nat
      BY <1>0, <3>1, SetLength DEF ChildInv, SafeWriteInv
    <3>3. Len(text) \in Int
      BY <1>0, <3>1, <3>2, TextFacts DEF SafeWriteInv
    <3>4. QED BY <1>0, <3>3 DEF SafeWriteInv
  <2>2. QED BY <1>0, <2>1
<1>1. CASE result' = -1 /\ UNCHANGED <<len, pos>> /\ n = 0 /\ Wants > 0
  <2>1. len >= 0
    BY <1>0, <1>1 DEF SafeWriteInv, Wants
  <2>2. SafeWriteInv'
    BY <1>0, <1>1, <2>1 DEF SafeWriteInv
  <2>3. QED BY <1>0, <1>1, <2>2 DEF ChildInv, TodoInv, Writing
<1>2. CASE result' = n /\ len' = len - n /\ pos' = pos + n
  <2>1. len >= 0 /\ n >= 0
    BY <1>0 DEF SafeWriteInv, Wants
  <2>2. n <= len \/ (n = len + 1 /\ n >= 1)
    BY <1>0, <2>1 DEF SafeWriteInv, Wants
  <2>3. len' = Len(text) - pos' /\ pos' >= 0 /\ result' >= -1 /\ (len' >= 0 \/ (len' = -1 /\ result' >= 1))
    BY <1>0, <1>0a, <1>2, <2>1, <2>2 DEF SafeWriteInv
  <2>4. SafeWriteInv'
    BY <1>0, <1>2, <2>3 DEF SafeWriteInv
  <2>5. QED BY <1>0, <1>2, <2>4 DEF ChildInv, TodoInv, Writing
<1>3. QED BY <1>1, <1>2 DEF ChildWrote, LenAfter

LEMMA NextChild == ChildInv /\ [Next]_vars => ChildInv'
<1> SUFFICES ASSUME ChildInv, [Next]_vars PROVE ChildInv'
  OBVIOUS
<1>1. CASE UNCHANGED childVars
  BY <1>1 DEF childVars, ChildInv, TodoInv, Writing, SafeWriteInv, Wants
<1>2. CASE ChildFails
  <2>1. child' = "exit" /\ status' = 1 /\ UNCHANGED <<given, todo, len, result, pos, n>>
    BY <1>2 DEF ChildFails
  <2>2. QED BY <2>1 DEF ChildInv, TodoInv, Writing
<1>3. CASE ServerStep \/ Done \/ UNCHANGED vars
  BY <1>1, <1>3 DEF ServerStep, FgetsReads, FgetsReturns, Scan, ScanEnds, Pclose, Done, vars
<1>4. QED
  BY <1>2, <1>3, ChildNextInv, ChildCallsInv, ChildPushesInv, ChildWroteInv DEF Next, ChildStep

\* The length of the text under way.
LEMMA TextLength ==
  ASSUME ChildInv, Writing
  PROVE  /\ Cur \in 1 .. Len(Vars) /\ Head(todo) = Vars[Cur] /\ Head(todo) \in Names
         /\ given[Head(todo)] \in Nat /\ given[Vars[Cur]] >= 0
         /\ Len(text) = IF text = <<Nul>> THEN 1 ELSE given[Head(todo)] + 1
<1>1. SafeWriteInv
  BY DEF ChildInv
<1>2. Cur \in 1 .. Len(Vars) /\ Head(todo) = Vars[Cur] /\ Head(todo) \in Names
  BY <1>1, TodoHead DEF ChildInv, SafeWriteInv
<1>3. given[Head(todo)] \in Nat
  BY <1>1, <1>2, SetLength DEF ChildInv, SafeWriteInv
<1>4. Len(<<Nul>>) = 1
  OBVIOUS
<1>5. Len(text) = IF text = <<Nul>> THEN 1 ELSE given[Head(todo)] + 1
  BY <1>1, <1>2, <1>3, <1>4, TextFacts, ZenonT(30) DEF SafeWriteInv
<1>6. given[Vars[Cur]] >= 0
  BY <1>2, <1>3
<1>7. QED BY <1>2, <1>3, <1>5, <1>6

\* Once the child has written too much it will fail, and pclose reports it.
LEMMA BadStays == ASSUME ChildInv, [Next]_vars, Bad PROVE Bad'
<1>1. CASE UNCHANGED childVars
  BY <1>1 DEF childVars, Bad, Writing, Written
<1>2. CASE ServerStep \/ Done \/ UNCHANGED vars
  BY <1>1, <1>2 DEF ServerStep, FgetsReads, FgetsReturns, Scan, ScanEnds, Pclose, Done, vars
<1>3. CASE ChildStep
  <2>1. child # "exit"
    BY <1>3 DEF ChildStep, ChildNext, ChildCalls, ChildPushes, ChildWrote, ChildFails
  <2>2. Writing /\ Written > Len(text) /\ SafeWriteInv /\ len \in Int /\ pos \in Int /\ n \in Int
    BY <2>1 DEF Bad, ChildInv
  <2>3. Len(text) \in Int
    BY <2>2, TextLength
  <2>4. CASE ChildNext
    BY <2>2, <2>4 DEF ChildNext, Writing
  <2>5. CASE ChildCalls
    <3>1. child = "call" /\ pos > Len(text)
      BY <2>2, <2>5 DEF ChildCalls, Written
    <3>2. len # 0
      BY <2>2, <2>3, <3>1 DEF SafeWriteInv
    <3>3. child' = "write" /\ n' = 0 /\ UNCHANGED <<text, pos>>
      BY <2>5, <3>2 DEF ChildCalls
    <3>4. Written' > Len(text')
      BY <2>2, <2>3, <3>1, <3>3 DEF Written
    <3>5. QED BY <3>3, <3>4 DEF Bad, Writing
  <2>6. CASE ChildPushes
    <3>1. child = "write" /\ n' = n + 1 /\ UNCHANGED <<child, text, pos>>
      BY <2>6 DEF ChildPushes
    <3>2. Written' > Len(text')
      BY <2>2, <2>3, <3>1 DEF Written
    <3>3. QED BY <3>1, <3>2 DEF Bad, Writing
  <2>7. CASE ChildWrote
    <3>1. child = "write" /\ child' = "call" /\ text' = text /\ pos' = pos + n
      BY <2>2, <2>7 DEF ChildWrote
    <3>2. Written' > Len(text')
      BY <2>2, <2>3, <3>1 DEF Written
    <3>3. QED BY <3>1, <3>2 DEF Bad, Writing
  <2>8. CASE ChildFails
    BY <2>8 DEF ChildFails, Bad
  <2>9. QED BY <1>3, <2>4, <2>5, <2>6, <2>7, <2>8 DEF ChildStep
<1>4. QED BY <1>2, <1>3 DEF Next
----------------------------------------------------------------------------
(***************************************************************************)
(* What the child has sent                                                 *)
(***************************************************************************)

\* The cells sent: those of the variables before the current one, and what
\* safe_write has written of its record or of the Nul after it.
SentOfRecord == Written + (IF text = <<Nul>> THEN given[Head(todo)] + 1 ELSE 0)
Sent == Ends(given, Cur - 1) + (IF Writing THEN SentOfRecord ELSE 0)

Fits == OutputLength <= BufSize - 2

LEMMA CurType ==
  ASSUME ChildInv PROVE Cur - 1 \in 0 .. Len(Vars) /\ Cur \in Nat /\ Len(Vars) \in Nat
BY VarsAssumption DEF ChildInv, TodoInv, Cur

\* It is never more than there is to print.
SentInv == ~Bad => Sent \in Nat /\ OutputLength \in Nat /\ Sent <= OutputLength

LEMMA SentBounded == ASSUME ChildInv PROVE SentInv
<1> SUFFICES ASSUME ~Bad PROVE Sent \in Nat /\ OutputLength \in Nat /\ Sent <= OutputLength
  BY DEF SentInv
<1>1. OutputLength = Ends(given, Len(Vars))
  BY DEF OutputLength, Ends
<1>2. /\ Ends(given, Cur - 1) \in Nat /\ Ends(given, Len(Vars)) \in Nat
      /\ Ends(given, Cur - 1) <= Ends(given, Len(Vars))
  <2>1. Len(Vars) \in 0 .. Len(Vars) /\ Cur - 1 <= Len(Vars)
    BY CurType
  <2>2. QED BY <2>1, CurType, EndsGrow DEF ChildInv
<1>3. CASE ~Writing
  BY <1>1, <1>2, <1>3 DEF Sent
<1>4. CASE Writing
  <2>1. /\ Cur \in 1 .. Len(Vars) /\ given[Head(todo)] \in Nat /\ Head(todo) = Vars[Cur]
        /\ Len(text) = IF text = <<Nul>> THEN 1 ELSE given[Head(todo)] + 1
    BY <1>4, TextLength
  <2>2. Written \in Nat /\ Written <= Len(text)
    <3>1. pos \in Nat /\ n \in Int /\ (child = "write" => n \in Nat)
      BY <1>4 DEF ChildInv, SafeWriteInv
    <3>2. Written \in Nat
      BY <3>1 DEF Written
    <3>3. QED BY <1>4, <2>1, <3>2 DEF Bad
  <2>3. SentOfRecord \in Nat /\ SentOfRecord <= given[Head(todo)] + 2
    BY <2>1, <2>2 DEF SentOfRecord
  <2>4. /\ Ends(given, Cur) \in Nat
        /\ Ends(given, Cur) = Ends(given, Cur - 1) + given[Head(todo)] + 2
    BY <2>1, EndsStep DEF ChildInv
  <2>5. Ends(given, Cur) <= Ends(given, Len(Vars))
    <3>1. Len(Vars) \in 0 .. Len(Vars) /\ Cur \in 0 .. Len(Vars) /\ Cur <= Len(Vars)
      BY <2>1, CurType
    <3>2. QED BY <3>1, EndsGrow DEF ChildInv
  <2>6. Sent = Ends(given, Cur - 1) + SentOfRecord
    BY <1>4 DEF Sent
  <2>7. QED BY <1>1, <1>2, <2>1, <2>3, <2>4, <2>5, <2>6, SMTT(30)
<1>5. QED BY <1>3, <1>4

\* A child that has ended well has sent everything.
LEMMA ExitSent ==
  ASSUME ChildInv, child = "exit", status = 0
  PROVE  Sent = OutputLength
<1>1. todo = << >> /\ Len(Vars) \in Nat
  BY VarsAssumption DEF ChildInv
<1>2. Cur - 1 = Len(Vars)
  BY <1>1 DEF Cur
<1>3. Ends(given, Len(Vars)) \in Nat
  <2>1. Len(Vars) \in 0 .. Len(Vars)
    BY <1>1
  <2>2. QED BY <1>1, <2>1, EndsGrow DEF ChildInv
<1>4. QED BY <1>2, <1>3 DEF Sent, Writing, OutputLength, Ends

LEMMA ChildNextSent == ASSUME ChildInv, ChildNext PROVE Sent' = Sent
<1>0. given' = given /\ ~Writing /\ Ends(given, Cur - 1) \in Nat
  <2>1. Ends(given, Cur - 1) \in Nat
    BY CurType, EndsGrow DEF ChildInv
  <2>2. QED BY <2>1 DEF ChildNext, Writing
<1>1. CASE todo = << >> /\ child' = "exit" /\ UNCHANGED todo
  BY <1>0, <1>1 DEF Sent, Writing, Cur
<1>2. CASE todo # << >> /\ given[Head(todo)] < 0 /\ todo' = Tail(todo) /\ UNCHANGED child
  <2>1. Cur' = Cur + 1 /\ Cur \in 1 .. Len(Vars) /\ Head(todo) = Vars[Cur]
    BY <1>2, TodoTail, TodoHead DEF ChildInv
  <2>2. Ends(given, Cur) = Ends(given, Cur - 1) /\ Cur' - 1 = Cur
    BY <1>2, <2>1, EndsStep DEF ChildInv
  <2>3. ~Writing'
    BY <1>0, <1>2 DEF Writing
  <2>4. Sent' = Ends(given, Cur) + 0 /\ Sent = Ends(given, Cur - 1) + 0
    BY <1>0, <2>2, <2>3 DEF Sent
  <2>5. QED BY <2>2, <2>4
<1>3. CASE /\ todo # << >> /\ given[Head(todo)] >= 0 /\ UNCHANGED todo /\ child' = "call"
           /\ SafeWrite(Record(Head(todo)), Len(Record(Head(todo))))
  <2>1. Head(todo) \in Names
    BY <1>3, TodoHead DEF ChildInv
  <2>2. given[Head(todo)] \in Nat
    BY <1>3, <2>1, SetLength DEF ChildInv
  <2>3. text' # <<Nul>> /\ pos' = 0
    BY <1>3, <2>1, <2>2, TextFacts DEF SafeWrite, Record, Text
  <2>4. Writing' /\ SentOfRecord' = 0
    BY <1>3, <2>3 DEF Writing, SentOfRecord, Written
  <2>5. Cur' = Cur
    BY <1>3 DEF Cur
  <2>6. QED BY <1>0, <2>4, <2>5 DEF Sent
<1>4. QED BY <1>1, <1>2, <1>3 DEF ChildNext

LEMMA ChildCallsSent == ASSUME ChildInv, ChildCalls, ~Bad PROVE Sent' = Sent
<1>0. /\ given' = given /\ child = "call" /\ Writing /\ SafeWriteInv
      /\ Ends(given, Cur - 1) \in Nat /\ Written = pos /\ pos \in Nat /\ len \in Int
  <2>1. Ends(given, Cur - 1) \in Nat
    BY CurType, EndsGrow DEF ChildInv
  <2>2. child = "call" /\ Writing /\ SafeWriteInv
    BY DEF ChildCalls, ChildInv, Writing
  <2>3. pos \in Nat /\ len \in Int
    BY <2>2 DEF ChildInv, SafeWriteInv
  <2>4. QED BY <2>1, <2>2, <2>3 DEF ChildCalls, Written
<1>t. /\ Cur \in 1 .. Len(Vars) /\ given[Head(todo)] \in Nat /\ Head(todo) = Vars[Cur]
      /\ Len(text) = IF text = <<Nul>> THEN 1 ELSE given[Head(todo)] + 1
  BY <1>0, TextLength
<1>1. CASE child' = "write" /\ n' = 0 /\ UNCHANGED <<todo, text, pos>>
  <2>1. Writing' /\ Written' = pos /\ Cur' = Cur
    BY <1>0, <1>1 DEF Writing, Written, Cur
  <2>2. SentOfRecord' = SentOfRecord
    BY <1>0, <1>1, <2>1 DEF SentOfRecord
  <2>3. QED BY <1>0, <2>1, <2>2 DEF Sent
<1>2. CASE len = 0 /\ text = <<Nul>> /\ child' = "next" /\ todo' = Tail(todo)
  <2>1. pos = 1
    BY <1>0, <1>2, <1>t DEF SafeWriteInv
  <2>2. Sent = Ends(given, Cur - 1) + (1 + (given[Head(todo)] + 1))
    BY <1>0, <1>2, <2>1 DEF Sent, SentOfRecord
  <2>3. Cur' - 1 = Cur
    BY <1>0, <1>2, <1>t, TodoTail DEF ChildInv, SafeWriteInv
  <2>4. /\ Ends(given, Cur) \in Nat
        /\ Ends(given, Cur) = Ends(given, Cur - 1) + given[Head(todo)] + 2
    BY <1>t, EndsStep DEF ChildInv
  <2>5. Sent' = Ends(given, Cur) + 0
    BY <1>0, <1>2, <2>3 DEF Sent, Writing
  <2>6. QED BY <1>0, <1>t, <2>2, <2>4, <2>5
<1>3. CASE len = 0 /\ text # <<Nul>> /\ child' = "call" /\ SafeWrite(<<Nul>>, 1) /\ UNCHANGED todo
  <2>1. pos = given[Head(todo)] + 1
    BY <1>0, <1>3, <1>t DEF SafeWriteInv
  <2>2. SentOfRecord = given[Head(todo)] + 1
    BY <1>0, <1>3, <1>t, <2>1 DEF SentOfRecord
  <2>3. Writing' /\ Cur' = Cur /\ Written' = 0 /\ text' = <<Nul>>
    BY <1>3 DEF Writing, Cur, Written, SafeWrite
  <2>4. SentOfRecord' = given[Head(todo)] + 1
    BY <1>0, <1>3, <1>t, <2>3 DEF SentOfRecord
  <2>5. QED BY <1>0, <2>2, <2>3, <2>4 DEF Sent
<1>4. QED BY <1>1, <1>2, <1>3 DEF ChildCalls

LEMMA ChildWroteSent == ASSUME ChildInv, ChildWrote PROVE Sent' = Sent
<1>1. /\ given' = given /\ todo' = todo /\ text' = text /\ child = "write" /\ child' = "call"
      /\ pos \in Int /\ n \in Int /\ pos' = pos + n
  BY DEF ChildWrote, ChildInv
<1>2. Writing /\ Writing' /\ Written' = Written /\ Cur' = Cur
  BY <1>1 DEF Writing, Written, Cur
<1>3. SentOfRecord' = SentOfRecord
  BY <1>1, <1>2 DEF SentOfRecord
<1>4. QED BY <1>1, <1>2, <1>3 DEF Sent

\* A write sends the next cell of the output.
LEMMA ChildPushesSent ==
  ASSUME ChildInv, ChildPushes, ~Bad', Fits
  PROVE  \E c : pipe' = Append(pipe, c) /\ Sent' = Sent + 1 /\ Cell(given, Sent, c)
<1> DEFINE x == pos + n + 1
           c == Byte(x)
           m == given[Head(todo)]
<1>1. /\ given' = given /\ todo' = todo /\ text' = text /\ child = "write" /\ child' = "write"
      /\ pos' = pos /\ n' = n + 1 /\ pipe' = Append(pipe, Byte(pos + n + 1))
      /\ pos \in Int /\ n \in Int /\ Writing /\ SafeWriteInv
  BY DEF ChildPushes, ChildInv, Writing
<1>2. /\ Cur \in 1 .. Len(Vars) /\ m \in Nat /\ Head(todo) = Vars[Cur] /\ Head(todo) \in Names
      /\ Len(text) = IF text = <<Nul>> THEN 1 ELSE m + 1
  BY <1>1, TextLength
<1>3. pos >= 0 /\ n >= 0
  BY <1>1 DEF SafeWriteInv
<1>4. x \in 1 .. Len(text)
  <2>1. Writing' /\ Written' = x
    BY <1>1 DEF Writing, Written
  <2>2. ~(x > Len(text))
    BY <1>1, <2>1 DEF Bad
  <2>3. QED BY <1>1, <1>2, <1>3, <2>2
<1>5. /\ Ends(given, Cur) \in Nat /\ Ends(given, Cur - 1) \in Nat
      /\ Ends(given, Cur) = Ends(given, Cur - 1) + m + 2
  BY <1>2, EndsStep DEF ChildInv
<1>6. Len(text) < BufSize
  <2>1. Len(Vars) \in 0 .. Len(Vars) /\ Cur \in 0 .. Len(Vars) /\ Cur <= Len(Vars)
    BY <1>2, CurType
  <2>2. Ends(given, Cur) <= Ends(given, Len(Vars)) /\ Ends(given, Len(Vars)) \in Nat
    BY <2>1, EndsGrow DEF ChildInv
  <2>3. Ends(given, Len(Vars)) <= BufSize - 2
    BY DEF Fits, OutputLength, Ends
  <2>4. QED BY <1>2, <1>5, <2>2, <2>3, SMTT(30)
<1>7. c = text[x]
  BY <1>4, <1>6 DEF Byte
<1>8. Written = x - 1 /\ Written' = Written + 1
  BY <1>1 DEF Written
<1>9. SentOfRecord \in Int /\ SentOfRecord' = SentOfRecord + 1
  BY <1>1, <1>2, <1>4, <1>8 DEF SentOfRecord
<1>10. Sent' = Sent + 1
  <2>1. Sent = Ends(given, Cur - 1) + SentOfRecord
    BY <1>1 DEF Sent
  <2>2. Sent' = Ends(given, Cur - 1) + SentOfRecord'
    BY <1>1 DEF Sent, Writing, Cur
  <2>3. QED BY <1>5, <1>9, <2>1, <2>2
<1>11. Cell(given, Sent, c)
  <2>1. CASE text = <<Nul>>
    <3>1. x = 1
      BY <1>2, <1>4, <2>1
    <3>2. c = Nul
      BY <1>7, <2>1, <3>1
    <3>3. SentOfRecord = 0 + (m + 1)
      BY <1>8, <2>1, <3>1 DEF SentOfRecord
    <3>4. Sent = Ends(given, Cur) - 1
      BY <1>1, <1>2, <1>5, <3>3, SMTT(30) DEF Sent
    <3>5. QED BY <1>2, <3>2, <3>4, NulCell DEF ChildInv
  <2>2. CASE text # <<Nul>>
    <3>1. text = Text(Vars[Cur], m) /\ x \in 1 .. (m + 1)
      BY <1>1, <1>2, <1>4, <2>2 DEF SafeWriteInv
    <3>2. c = <<Vars[Cur], x - 1>>
      BY <1>2, <1>7, <3>1, TextFacts
    <3>3. SentOfRecord = x - 1
      BY <1>4, <1>8, <2>2 DEF SentOfRecord
    <3>4. Sent = Ends(given, Cur - 1) + (x - 1)
      BY <1>1, <3>3 DEF Sent
    <3>5. x - 1 \in 0 .. given[Vars[Cur]] /\ given[Vars[Cur]] >= 0
      BY <1>2, <3>1
    <3> HIDE DEF x, c, m
    <3>6. QED BY <1>2, <3>2, <3>4, <3>5, RecordCell DEF ChildInv
  <2>3. QED BY <2>1, <2>2
<1>12. QED BY <1>1, <1>10, <1>11

\* A step of a child that does not fail sends nothing, or the next cell.
LEMMA ChildSends ==
  ASSUME ChildInv, ChildStep, ~Bad', Fits
  PROVE  /\ UNCHANGED serverVars /\ given' = given /\ ~Bad
         /\ \/ pipe' = pipe /\ Sent' = Sent
            \/ \E c : pipe' = Append(pipe, c) /\ Sent' = Sent + 1 /\ Cell(given, Sent, c)
<1>1. ~Bad
  BY BadStays DEF Next
<1>2. ~ChildFails
  BY DEF ChildFails, Bad
<1>3. UNCHANGED serverVars /\ given' = given
  BY DEF ChildStep, ChildNext, ChildCalls, ChildPushes, ChildWrote, ChildFails
<1>4. ChildPushes \/ pipe' = pipe
  BY DEF ChildStep, ChildNext, ChildCalls, ChildWrote, ChildFails
<1>5. ChildPushes \/ Sent' = Sent
  BY <1>1, <1>2, ChildNextSent, ChildCallsSent, ChildWroteSent DEF ChildStep
<1>6. QED BY <1>1, <1>3, <1>4, <1>5, ChildPushesSent
----------------------------------------------------------------------------
(***************************************************************************)
(* The server                                                              *)
(***************************************************************************)

\* Until the first fgets returns, its line and the pipe hold the output so far.
Arriving ==
  /\ server = "fgets" /\ cur_pos = 0
  /\ environ_buffer = [i \in 0 .. (BufSize - 1) |-> Nul]
  /\ needs = Names /\ env = [v \in Names |-> Unset]
  /\ IsSequence(line) /\ IsSequence(pipe)
  /\ Len(line) + Len(pipe) = Sent
  /\ \A i \in 1 .. Len(line) : Cell(given, i - 1, line[i])
  /\ \A i \in 1 .. Len(pipe) : Cell(given, Len(line) + i - 1, pipe[i])

\* Afterwards nothing comes any more.
Arrived == line = << >> /\ pipe = << >> /\ Sent = OutputLength

\* The buffer holds the output, and zeroes after it.
BufferFilled ==
  \A q \in 0 .. (BufSize - 1) :
    IF q < OutputLength THEN Cell(given, q, environ_buffer[q]) ELSE environ_buffer[q] = Nul

\* The variables whose records are before cur_pos are set, and no others.
VarScanned(i) ==
  IF given[Vars[i]] >= 0 /\ Ends(given, i) <= cur_pos
  THEN env[Vars[i]] = Value(Vars[i], given[Vars[i]])
  ELSE /\ env[Vars[i]] = Unset /\ Vars[i] \in needs
       /\ given[Vars[i]] >= 0 => cur_pos <= Ends(given, i - 1)

Scanning == server = "scan" /\ BufferFilled /\ \A i \in 1 .. Len(Vars) : VarScanned(i)

Complete == \A v \in Names : env[v] = IF given[v] < 0 THEN Unset ELSE Value(v, given[v])

Scanned == server \in {"fgets", "done"} /\ Complete

\* As long as the child is not bound to fail.
StreamInv == (Fits /\ ~Bad) => Arriving \/ (Arrived /\ (Scanning \/ Scanned))

\* pclose waits for the child.
DoneInv == server = "done" => child = "exit" /\ (rc = 0 => status = 0)

LEMMA AppendElements ==
  ASSUME NEW s, IsSequence(s), NEW x
  PROVE  /\ \A i \in 1 .. Len(s) : Append(s, x)[i] = s[i]
         /\ Append(s, x)[Len(s) + 1] = x
<1>1. PICK S : s \in Seq(S)
  BY DEF IsSequence
<1> DEFINE T == S \cup {x}
<1>2. s \in Seq(T) /\ x \in T
  BY <1>1
<1> HIDE DEF T
<1>3. QED BY <1>2

LEMMA TailSequence ==
  ASSUME NEW s, IsSequence(s), s # << >>
  PROVE  /\ IsSequence(Tail(s)) /\ Len(s) \in Nat /\ Len(s) >= 1 /\ Len(Tail(s)) = Len(s) - 1
         /\ Head(s) = s[1] /\ \A i \in 1 .. (Len(s) - 1) : Tail(s)[i] = s[i + 1]
<1>1. PICK S : s \in Seq(S)
  BY DEF IsSequence
<1>2. Tail(s) \in Seq(S)
  BY <1>1
<1>3. QED BY <1>1, <1>2 DEF IsSequence

LEMMA LengthOf == ASSUME NEW s, IsSequence(s) PROVE Len(s) \in Nat /\ (Len(s) = 0 => s = << >>)
<1>1. PICK S : s \in Seq(S)
  BY DEF IsSequence
<1>2. QED BY <1>1

LEMMA EmptySequence == IsSequence(<< >>) /\ Len(<< >>) = 0
<1>1. << >> \in Seq({}) /\ Len(<< >>) = 0
  OBVIOUS
<1>2. QED BY <1>1 DEF IsSequence

\* The server's steps change nothing of the child.
LEMMA ChildAlone ==
  ASSUME UNCHANGED childVars
  PROVE  /\ Sent' = Sent /\ Bad' = Bad /\ Fits' = Fits /\ OutputLength' = OutputLength
         /\ given' = given /\ child' = child /\ status' = status
<1>1. UNCHANGED <<given, todo, child, text, pos, n, status>>
  BY DEF childVars
<1>2. Written' = Written /\ Writing' = Writing /\ Cur' = Cur
  BY <1>1 DEF Written, Writing, Cur
<1>3. SentOfRecord' = SentOfRecord
  BY <1>1, <1>2 DEF SentOfRecord
<1>4. Sent' = Sent
  BY <1>1, <1>2, <1>3 DEF Sent
<1>5. OutputLength' = OutputLength
  BY <1>1 DEF OutputLength
<1>6. QED BY <1>1, <1>2, <1>4, <1>5 DEF Bad, Fits

LEMMA InitStream == Init => StreamInv /\ DoneInv
<1> SUFFICES ASSUME Init PROVE Arriving /\ DoneInv
  BY DEF StreamInv
<1>1. Sent = 0
  <2>1. Len(Vars) \in Nat /\ Cur - 1 = 0 /\ ~Writing
    BY VarsAssumption DEF Init, Cur, Writing
  <2>2. QED BY <2>1, EndsNone DEF Sent
<1>2. QED BY <1>1, EmptySequence DEF Init, Arriving, DoneInv

\* While the child works.
LEMMA ChildStream ==
  ASSUME ChildInv, SentInv', StreamInv, ChildStep PROVE StreamInv'
<1> SUFFICES ASSUME Fits', ~Bad' PROVE (Arriving \/ (Arrived /\ (Scanning \/ Scanned)))'
  BY DEF StreamInv
<1>1. given' = given
  BY DEF ChildStep, ChildNext, ChildCalls, ChildPushes, ChildWrote, ChildFails
<1>2. OutputLength' = OutputLength /\ Fits
  BY <1>1 DEF OutputLength, Fits
<1>3. /\ UNCHANGED serverVars /\ ~Bad
      /\ \/ pipe' = pipe /\ Sent' = Sent
         \/ \E c : pipe' = Append(pipe, c) /\ Sent' = Sent + 1 /\ Cell(given, Sent, c)
  BY <1>2, ChildSends
<1>4. CASE Arriving
  <2>1. CASE pipe' = pipe /\ Sent' = Sent
    BY <1>1, <1>3, <1>4, <2>1 DEF Arriving, serverVars
  <2>2. ASSUME NEW c, pipe' = Append(pipe, c), Sent' = Sent + 1, Cell(given, Sent, c)
        PROVE  Arriving'
    <3>1. IsSequence(line) /\ Len(line) \in Nat /\ Len(pipe) \in Nat /\ Len(line) + Len(pipe) = Sent
      BY <1>4, LengthOf DEF Arriving
    <3>2. IsSequence(pipe') /\ Len(pipe') = Len(pipe) + 1
      BY <1>4, <2>2, AppendSequence DEF Arriving
    <3>3. Len(line') + Len(pipe') = Sent' /\ line' = line
      BY <1>3, <2>2, <3>1, <3>2 DEF serverVars
    <3>4. ASSUME NEW i \in 1 .. Len(pipe') PROVE Cell(given', Len(line') + i - 1, pipe'[i])
      <4>1. CASE i = Len(pipe) + 1
        <5>1. pipe'[i] = c
          BY <1>4, <2>2, <4>1, AppendElements DEF Arriving
        <5>2. Len(line') + i - 1 = Sent
          BY <3>1, <3>3, <4>1
        <5>3. QED BY <1>1, <2>2, <5>1, <5>2
      <4>2. CASE i # Len(pipe) + 1
        <5>1. i \in 1 .. Len(pipe)
          BY <3>1, <3>2, <4>2
        <5>2. pipe'[i] = pipe[i]
          BY <1>4, <2>2, <5>1, AppendElements DEF Arriving
        <5>3. QED BY <1>1, <1>4, <3>3, <5>1, <5>2 DEF Arriving
      <4>3. QED BY <4>1, <4>2
    <3>5. \A i \in 1 .. Len(line') : Cell(given', i - 1, line'[i])
      BY <1>1, <1>4, <3>3 DEF Arriving
    <3>6. UNCHANGED <<server, cur_pos, environ_buffer, needs, env>>
      BY <1>3 DEF serverVars
    <3>7. QED BY <1>4, <3>1, <3>2, <3>3, <3>4, <3>5, <3>6 DEF Arriving
  <2>3. QED BY <1>3, <2>1, <2>2
<1>5. CASE Arrived /\ (Scanning \/ Scanned)
  <2>1. Sent' <= OutputLength' /\ Sent' \in Nat /\ Sent \in Nat /\ OutputLength \in Nat
    BY <1>3, SentBounded DEF SentInv
  <2>2. pipe' = pipe /\ Sent' = Sent
    BY <1>2, <1>3, <1>5, <2>1 DEF Arrived
  <2>3. UNCHANGED <<line, server, cur_pos, environ_buffer, needs, env>>
    BY <1>3 DEF serverVars
  <2>4. Arrived'
    BY <1>2, <1>5, <2>2, <2>3 DEF Arrived
  <2>5. Scanning => Scanning'
    BY <1>1, <1>2, <2>3 DEF Scanning, BufferFilled, VarScanned
  <2>6. Scanned => Scanned'
    BY <1>1, <2>3 DEF Scanned, Complete
  <2>7. QED BY <1>5, <2>4, <2>5, <2>6
<1>6. QED BY <1>2, <1>3, <1>4, <1>5 DEF StreamInv

\* fgets takes a cell from the pipe.
LEMMA ReadsStream == ASSUME StreamInv, FgetsReads PROVE StreamInv'
<1>1. /\ pipe # << >> /\ line' = Append(line, Head(pipe)) /\ pipe' = Tail(pipe)
      /\ UNCHANGED <<childVars, server, environ_buffer, cur_pos, needs, env>>
  BY DEF FgetsReads
<1>2. Sent' = Sent /\ Bad' = Bad /\ Fits' = Fits /\ given' = given
  BY <1>1, ChildAlone
<1> SUFFICES ASSUME Fits, ~Bad PROVE Arriving'
  BY <1>2 DEF StreamInv
<1>3. Arriving
  BY <1>1 DEF StreamInv, Arrived
<1>4. /\ IsSequence(line') /\ Len(line') = Len(line) + 1 /\ Len(line) \in Nat
      /\ \A i \in 1 .. Len(line) : line'[i] = line[i]
      /\ line'[Len(line) + 1] = Head(pipe)
  BY <1>1, <1>3, AppendSequence, AppendElements DEF Arriving
<1>5. /\ IsSequence(pipe') /\ Len(pipe) \in Nat /\ Len(pipe) >= 1 /\ Len(pipe') = Len(pipe) - 1
      /\ Head(pipe) = pipe[1] /\ \A i \in 1 .. (Len(pipe) - 1) : pipe'[i] = pipe[i + 1]
  BY <1>1, <1>3, TailSequence DEF Arriving
<1>6. Len(line') + Len(pipe') = Sent'
  BY <1>2, <1>3, <1>4, <1>5 DEF Arriving
<1>7. ASSUME NEW i \in 1 .. Len(line') PROVE Cell(given', i - 1, line'[i])
  <2>1. CASE i = Len(line) + 1
    <3>1. Cell(given, Len(line) + 1 - 1, pipe[1])
      BY <1>3, <1>5 DEF Arriving
    <3>2. QED BY <1>2, <1>4, <1>5, <2>1, <3>1
  <2>2. CASE i # Len(line) + 1
    <3>1. i \in 1 .. Len(line)
      BY <1>4, <2>2
    <3>2. QED BY <1>2, <1>3, <1>4, <3>1 DEF Arriving
  <2>3. QED BY <2>1, <2>2
<1>8. ASSUME NEW i \in 1 .. Len(pipe') PROVE Cell(given', Len(line') + i - 1, pipe'[i])
  <2>1. i + 1 \in 1 .. Len(pipe) /\ pipe'[i] = pipe[i + 1]
    BY <1>5
  <2>2. Cell(given, Len(line) + (i + 1) - 1, pipe[i + 1])
    BY <1>3, <2>1 DEF Arriving
  <2>3. Len(line) + (i + 1) - 1 = Len(line') + i - 1
    BY <1>4
  <2>4. QED BY <1>2, <2>1, <2>2, <2>3
<1>9. QED BY <1>1, <1>3, <1>4, <1>5, <1>6, <1>7, <1>8 DEF Arriving

\* The first fgets returns with the whole output.
LEMMA ReturnsStream == ASSUME ChildInv, StreamInv, FgetsReturns PROVE StreamInv'
<1>1. /\ server' = "scan" /\ line' = << >>
      /\ Len(line) = LineSize \/ (AtEOF /\ line # << >>)
      /\ UNCHANGED <<childVars, pipe, cur_pos, needs, env>>
      /\ environ_buffer' = [i \in DOMAIN environ_buffer |->
                              IF i < Len(line) THEN line[i + 1]
                              ELSE IF i = Len(line) THEN Nul ELSE environ_buffer[i]]
  BY DEF FgetsReturns
<1>2. Sent' = Sent /\ Bad' = Bad /\ Fits' = Fits /\ given' = given /\ OutputLength' = OutputLength
  BY <1>1, ChildAlone
<1> SUFFICES ASSUME Fits, ~Bad PROVE Arrived' /\ Scanning'
  BY <1>2 DEF StreamInv
<1>3. Arriving
  <2>1. Len(<< >>) # LineSize
    BY EmptySequence DEF LineSize
  <2>2. QED BY <1>1, <2>1 DEF StreamInv, Arrived
<1>4. Len(line) \in Nat /\ Len(pipe) \in Nat /\ Len(line) + Len(pipe) = Sent
  BY <1>3, LengthOf DEF Arriving
<1>5. Sent \in Nat /\ OutputLength \in Nat /\ Sent <= OutputLength /\ OutputLength <= BufSize - 2
  BY SentBounded DEF SentInv, Fits
<1>6. Len(line) = OutputLength /\ Len(pipe) = 0 /\ Sent = OutputLength
  <2>1. CASE Len(line) = LineSize
    BY <1>4, <1>5, <2>1 DEF LineSize
  <2>2. CASE AtEOF
    <3>1. Sent = OutputLength
      BY <2>2, ExitSent DEF AtEOF, Bad
    <3>2. Len(pipe) = 0
      BY <2>2, EmptySequence DEF AtEOF
    <3>3. QED BY <1>4, <3>1, <3>2
  <2>3. QED BY <1>1, <2>1, <2>2
<1>7. pipe = << >>
  BY <1>3, <1>6, LengthOf DEF Arriving
<1>8. Arrived'
  BY <1>1, <1>2, <1>6, <1>7 DEF Arrived
<1>9. ASSUME NEW q \in 0 .. (BufSize - 1)
      PROVE  IF q < OutputLength THEN Cell(given, q, environ_buffer'[q]) ELSE environ_buffer'[q] = Nul
  <2>1. environ_buffer'[q] = IF q < Len(line) THEN line[q + 1]
                             ELSE IF q = Len(line) THEN Nul ELSE environ_buffer[q]
    BY <1>1, <1>3 DEF Arriving
  <2>2. environ_buffer[q] = Nul
    BY <1>3 DEF Arriving
  <2>3. CASE q < OutputLength
    <3>1. environ_buffer'[q] = line[q + 1] /\ q + 1 \in 1 .. Len(line) /\ q + 1 - 1 = q
      BY <1>4, <1>6, <2>1, <2>3
    <3>2. Cell(given, q + 1 - 1, line[q + 1])
      BY <1>3, <3>1 DEF Arriving
    <3>3. QED BY <2>3, <3>1, <3>2
  <2>4. CASE ~(q < OutputLength)
    BY <1>6, <2>1, <2>2, <2>4
  <2>5. QED BY <2>3, <2>4
<1>10. BufferFilled'
  BY <1>2, <1>9 DEF BufferFilled
<1>11. ASSUME NEW i \in 1 .. Len(Vars) PROVE VarScanned(i)'
  <2>1. /\ Vars[i] \in Names /\ given[Vars[i]] \in Int
        /\ Ends(given, i) \in Nat /\ Ends(given, i - 1) \in Nat
        /\ given[Vars[i]] >= 0 => Ends(given, i) = Ends(given, i - 1) + given[Vars[i]] + 2
    BY LengthType, EndsStep DEF ChildInv
  <2>2. ~(given[Vars[i]] >= 0 /\ Ends(given, i) <= 0)
    BY <2>1
  <2>3. cur_pos' = 0 /\ env'[Vars[i]] = Unset /\ Vars[i] \in needs' /\ 0 <= Ends(given, i - 1)
    BY <1>1, <1>3, <2>1 DEF Arriving
  <2>4. Unset' = Unset
    BY DEF Unset
  <2>5. QED BY <1>2, <2>2, <2>3, <2>4 DEF VarScanned
<1>12. QED BY <1>1, <1>8, <1>10, <1>11 DEF Scanning

\* As long as the scan has not come to the end, a record begins at cur_pos.
LEMMA RecordAtCurPos ==
  ASSUME ChildInv, Scanning, cur_pos \in Nat, OutputLength \in Nat, cur_pos < OutputLength
  PROVE  \E i \in 1 .. Len(Vars) : given[Vars[i]] >= 0 /\ Ends(given, i - 1) = cur_pos
<1> DEFINE T == {i \in Nat : i \in 1 .. Len(Vars) /\ Ends(given, i) > cur_pos}
<1>0. Len(Vars) \in Nat /\ OutputLength = Ends(given, Len(Vars)) /\ given \in [Names -> Lengths]
  BY VarsAssumption DEF OutputLength, Ends, ChildInv
<1>1. Len(Vars) \in T
  <2>1. Len(Vars) # 0
    BY <1>0, EndsNone
  <2>2. QED BY <1>0, <2>1
<1>2. PICK i \in T : \A k \in T : i <= k
  BY <1>1, LeastNatural
<1>3. i \in 1 .. Len(Vars) /\ Ends(given, i) > cur_pos
  OBVIOUS
<1>4. /\ given[Vars[i]] \in Int /\ Ends(given, i) \in Nat /\ Ends(given, i - 1) \in Nat
      /\ given[Vars[i]] < 0 => Ends(given, i) = Ends(given, i - 1)
  BY <1>0, <1>3, EndsStep
<1>5. Ends(given, i - 1) <= cur_pos
  <2>1. CASE i = 1
    BY <2>1, EndsNone
  <2>2. CASE i # 1
    <3>1. i - 1 \in Nat /\ i - 1 \in 1 .. Len(Vars) /\ ~(i <= i - 1)
      BY <1>0, <1>3, <2>2
    <3>2. i - 1 \notin T
      BY <1>2, <3>1
    <3>3. QED BY <1>4, <3>1, <3>2
  <2>3. QED BY <2>1, <2>2
<1>6. given[Vars[i]] >= 0
  BY <1>3, <1>4, <1>5
<1>7. cur_pos <= Ends(given, i - 1)
  <2>1. VarScanned(i)
    BY <1>3 DEF Scanning
  <2>2. ~(Ends(given, i) <= cur_pos)
    BY <1>3, <1>4
  <2>3. QED BY <1>6, <2>1, <2>2 DEF VarScanned
<1>8. QED BY <1>3, <1>4, <1>5, <1>6, <1>7

\* The string there is the record.
LEMMA CurRecord ==
  ASSUME ChildInv, BufferFilled, Fits, cur_pos \in Nat, OutputLength \in Nat,
         NEW i \in 1 .. Len(Vars), given[Vars[i]] >= 0, Ends(given, i - 1) = cur_pos
  PROVE  /\ CurString = [x \in 1 .. (given[Vars[i]] + 1) |-> <<Vars[i], x - 1>>]
         /\ environ_buffer[cur_pos] # Nul
<1> DEFINE g == given[Vars[i]]
           j == cur_pos + g + 1
           IsEnd(e) == /\ environ_buffer[e] = Nul
                       /\ \A k \in cur_pos .. (e - 1) : environ_buffer[k] # Nul
           end == CHOOSE e \in cur_pos .. (BufSize - 1) : IsEnd(e)
<1>1. /\ g \in Nat /\ Ends(given, i) \in Nat /\ Ends(given, i) = cur_pos + g + 2
      /\ Vars[i] \in Names
  <2>1. Vars[i] \in Names
    BY LengthType DEF ChildInv
  <2>2. g \in Nat
    BY <2>1, SetLength DEF ChildInv
  <2>3. QED BY <2>1, <2>2, EndsStep DEF ChildInv
<1>2. Ends(given, i) <= OutputLength /\ OutputLength <= BufSize - 2 /\ BufSize \in Nat
  <2>1. Len(Vars) \in Nat
    BY VarsAssumption
  <2>2. Len(Vars) \in 0 .. Len(Vars) /\ i \in 0 .. Len(Vars) /\ i <= Len(Vars)
    BY <2>1
  <2>3. Ends(given, i) <= Ends(given, Len(Vars))
    BY <2>2, EndsGrow DEF ChildInv
  <2>4. QED BY <2>3 DEF Fits, OutputLength, Ends
<1>3. ASSUME NEW q \in cur_pos .. j PROVE Cell(given, q, environ_buffer[q])
  <2>1. q \in 0 .. (BufSize - 1) /\ q < OutputLength
    BY <1>1, <1>2
  <2>2. QED BY <2>1 DEF BufferFilled
<1>4. environ_buffer[j] = Nul /\ j \in cur_pos .. (BufSize - 1)
  <2>1. j \in cur_pos .. j /\ j = Ends(given, i) - 1 /\ j \in cur_pos .. (BufSize - 1)
    BY <1>1, <1>2, SMTT(30)
  <2>2. Cell(given, j, environ_buffer[j])
    BY <1>3, <2>1
  <2>3. QED BY <2>1, <2>2 DEF Cell
<1>5. ASSUME NEW q \in cur_pos .. (j - 1)
      PROVE  environ_buffer[q] = <<Vars[i], q - cur_pos>> /\ environ_buffer[q] # Nul
  <2>1. q \in cur_pos .. j /\ q - cur_pos \in 0 .. g /\ q = cur_pos + (q - cur_pos) /\ q - cur_pos \in Nat
    BY <1>1
  <2>2. Cell(given, q, environ_buffer[q])
    BY <1>3, <2>1
  <2>3. environ_buffer[q] = <<Vars[i], q - cur_pos>>
    BY <2>1, <2>2 DEF Cell
  <2>4. <<Vars[i], q - cur_pos>> \in Names \X Nat
    BY <1>1, <2>1
  <2>5. QED BY <2>3, <2>4, VarsAssumption
<1>6. IsEnd(j)
  BY <1>4, <1>5
<1>7. end \in cur_pos .. (BufSize - 1) /\ IsEnd(end)
  BY <1>4, <1>6
<1>8. CurString = [x \in 1 .. (end - cur_pos) |-> environ_buffer[cur_pos + x - 1]]
  BY DEF CurString
<1> HIDE DEF end
<1>9. end = j
  <2>1. CASE end < j
    <3>1. end \in cur_pos .. (j - 1)
      BY <1>1, <1>7, <2>1
    <3>2. QED BY <1>5, <1>7, <3>1
  <2>2. CASE end > j
    <3>1. j \in cur_pos .. (end - 1)
      BY <1>1, <1>2, <1>4, <1>7, <2>2, SMTT(30)
    <3>2. QED BY <1>4, <1>7, <3>1
  <2>3. QED BY <1>1, <1>2, <1>4, <1>7, <2>1, <2>2, SMTT(30)
<1>10. CurString = [x \in 1 .. (g + 1) |-> environ_buffer[cur_pos + x - 1]]
  <2>1. end - cur_pos = g + 1
    BY <1>1, <1>9
  <2>2. QED BY <1>8, <2>1
<1>11. ASSUME NEW x \in 1 .. (g + 1) PROVE environ_buffer[cur_pos + x - 1] = <<Vars[i], x - 1>>
  <2> DEFINE q == cur_pos + x - 1
  <2>0. x \in Nat /\ 1 <= x /\ x <= g + 1
    BY <1>1
  <2>1. q \in cur_pos .. (j - 1) /\ q - cur_pos = x - 1
    BY <1>1, <2>0
  <2>2. QED BY <1>5, <2>1
<1>12. environ_buffer[cur_pos] # Nul
  <2>1. cur_pos \in cur_pos .. (j - 1)
    BY <1>1
  <2>2. QED BY <1>5, <2>1
<1>13. QED BY <1>10, <1>11, <1>12

\* The name at its head, the value in its tail.
LEMMA RecordParts ==
  ASSUME NEW v, NEW k \in Nat, k > 0, NEW T, NEW s \in [1 .. k -> T],
         \A x \in 1 .. k : s[x] = <<v, x - 1>>
  PROVE  Head(s) = <<v, 0>> /\ Tail(s) = Value(v, k - 1) /\ Len(s) = k
<1>1. s \in Seq(T) /\ Len(s) = k
  OBVIOUS
<1>2. s # << >>
  BY <1>1
<1> DEFINE t == Tail(s)
<1>3. t \in Seq(T) /\ Len(t) = k - 1 /\ Head(s) = s[1]
  BY <1>1, <1>2
<1>4. ASSUME NEW x \in 1 .. (k - 1) PROVE t[x] = <<v, x>>
  <2>1. t[x] = s[x + 1]
    BY <1>1, <1>2
  <2>2. x + 1 \in 1 .. k /\ x + 1 - 1 = x
    OBVIOUS
  <2>3. QED BY <2>1, <2>2
<1> HIDE DEF t
<1>5. t = [x \in 1 .. (k - 1) |-> t[x]]
  BY <1>3
<1>6. t = [x \in 1 .. (k - 1) |-> <<v, x>>]
  BY <1>4, <1>5
<1>7. s[1] = <<v, 0>>
  OBVIOUS
<1>8. QED BY <1>1, <1>3, <1>6, <1>7 DEF Value, t

\* The scan takes one record.
LEMMA ScanStream == ASSUME ChildInv, BufferInv, StreamInv, Scan PROVE StreamInv'
<1>1. /\ server = "scan" /\ environ_buffer[cur_pos] # Nul
      /\ needs' = needs \ CheckEnvVar
      /\ env' = [v \in Names |-> IF v \in CheckEnvVar THEN Tail(CurString) ELSE env[v]]
      /\ cur_pos' = cur_pos + ScanStep
      /\ UNCHANGED <<childVars, pipe, server, line, environ_buffer>>
  BY DEF Scan
<1>2. Sent' = Sent /\ Bad' = Bad /\ Fits' = Fits /\ given' = given /\ OutputLength' = OutputLength
  BY <1>1, ChildAlone
<1> SUFFICES ASSUME Fits, ~Bad PROVE Arrived' /\ Scanning'
  BY <1>2 DEF StreamInv
<1>3. Arrived /\ Scanning
  BY <1>1 DEF StreamInv, Arriving, Scanned
<1>4. cur_pos \in Nat /\ cur_pos \in 0 .. (BufSize - 1) /\ OutputLength \in Nat
  BY SentBounded DEF BufferInv, SentInv
<1>5. cur_pos < OutputLength
  BY <1>1, <1>3, <1>4 DEF Scanning, BufferFilled
<1>6. PICK i \in 1 .. Len(Vars) : given[Vars[i]] >= 0 /\ Ends(given, i - 1) = cur_pos
  BY <1>3, <1>4, <1>5, RecordAtCurPos
<1>7. /\ Vars[i] \in Names /\ given[Vars[i]] \in Nat
      /\ Ends(given, i) \in Nat /\ Ends(given, i) = cur_pos + given[Vars[i]] + 2
  <2>1. Vars[i] \in Names
    BY LengthType DEF ChildInv
  <2>2. given[Vars[i]] \in Nat
    BY <1>6, <2>1, SetLength DEF ChildInv
  <2>3. QED BY <1>6, <2>1, <2>2, EndsStep DEF ChildInv
<1>8. Head(CurString) = <<Vars[i], 0>> /\ Tail(CurString) = Value(Vars[i], given[Vars[i]])
      /\ Len(CurString) = given[Vars[i]] + 1
  <2>1. CurString = [x \in 1 .. (given[Vars[i]] + 1) |-> <<Vars[i], x - 1>>]
    BY <1>3, <1>4, <1>6, CurRecord DEF Scanning
  <2> DEFINE m == given[Vars[i]]
             k == m + 1
             T == {<<Vars[i], x - 1>> : x \in 1 .. k}
  <2>2. CurString \in [1 .. k -> T]
    BY <2>1
  <2>3. \A x \in 1 .. k : CurString[x] = <<Vars[i], x - 1>>
    BY <2>1
  <2>4. k \in Nat /\ k > 0 /\ k - 1 = m
    BY <1>7
  <2> HIDE DEF k, m, T
  <2>5. Head(CurString) = <<Vars[i], 0>> /\ Tail(CurString) = Value(Vars[i], k - 1)
        /\ Len(CurString) = k
    BY <2>2, <2>3, <2>4, RecordParts, ZenonT(30)
  <2>6. QED BY <2>4, <2>5 DEF k, m
<1>9. cur_pos' = Ends(given, i)
  <2>1. cur_pos' = cur_pos + (Len(CurString) + 1)
    BY <1>1 DEF ScanStep
  <2>2. Len(CurString) = given[Vars[i]] + 1
    BY <1>8
  <2>3. QED BY <1>4, <1>7, <2>1, <2>2, SMTT(30)
<1>10. Vars[i] \in needs
  <2>1. VarScanned(i)
    BY <1>3 DEF Scanning
  <2>2. ~(Ends(given, i) <= cur_pos)
    BY <1>4, <1>7
  <2>3. QED BY <2>1, <2>2 DEF VarScanned
<1>11. CheckEnvVar = {Vars[i]}
  BY <1>8, <1>10 DEF CheckEnvVar
<1>12. ASSUME NEW k \in 1 .. Len(Vars) PROVE VarScanned(k)'
  <2>0. /\ Len(Vars) \in Nat /\ Vars[k] \in Names /\ given[Vars[k]] \in Int
        /\ Ends(given, k) \in Nat /\ Ends(given, k - 1) \in Nat
        /\ given[Vars[k]] >= 0 => Ends(given, k) = Ends(given, k - 1) + given[Vars[k]] + 2
    BY LengthType, EndsStep, VarsAssumption DEF ChildInv
  <2>v. VarScanned(k) /\ Unset' = Unset
    BY <1>3 DEF Scanning, Unset
  <2>1. CASE k = i
    <3>1. env'[Vars[k]] = Value(Vars[k], given[Vars[k]])
      BY <1>1, <1>7, <1>8, <1>11, <2>1
    <3>2. given'[Vars[k]] >= 0 /\ Ends(given', k) <= cur_pos'
      BY <1>2, <1>6, <1>7, <1>9, <2>1
    <3>3. QED BY <1>2, <3>1, <3>2 DEF VarScanned, Value
  <2>2. CASE k # i
    <3>1. Vars[k] # Vars[i]
      BY <2>0, <2>2, VarsAssumption
    <3>2. env'[Vars[k]] = env[Vars[k]] /\ (Vars[k] \in needs => Vars[k] \in needs')
      BY <1>1, <1>11, <2>0, <3>1
    <3>3. CASE k < i
      <4>1. k \in 0 .. Len(Vars) /\ i - 1 \in 0 .. Len(Vars) /\ k <= i - 1
        BY <2>0, <3>3
      <4>2. Ends(given, k) <= cur_pos
        BY <1>6, <4>1, EndsGrow DEF ChildInv
      <4>3. Ends(given, k) <= cur_pos'
        BY <1>4, <1>7, <1>9, <2>0, <4>2, SMTT(30)
      <4>4. CASE given[Vars[k]] >= 0
        BY <1>2, <2>v, <3>2, <4>2, <4>3, <4>4 DEF VarScanned, Value
      <4>5. CASE ~(given[Vars[k]] >= 0)
        BY <1>2, <2>v, <3>2, <4>5 DEF VarScanned
      <4>6. QED BY <4>4, <4>5
    <3>4. CASE k > i
      <4>1. i \in 0 .. Len(Vars) /\ k - 1 \in 0 .. Len(Vars) /\ i <= k - 1
        BY <2>0, <3>4
      <4>2. cur_pos' <= Ends(given, k - 1)
        BY <1>9, <4>1, EndsGrow DEF ChildInv
      <4>3. given[Vars[k]] >= 0 => ~(Ends(given, k) <= cur_pos') /\ ~(Ends(given, k) <= cur_pos)
        <5> SUFFICES ASSUME given[Vars[k]] >= 0
                     PROVE  ~(Ends(given, k) <= cur_pos') /\ ~(Ends(given, k) <= cur_pos)
          OBVIOUS
        <5>1. Ends(given, k) > Ends(given, k - 1)
          BY <2>0
        <5>2. cur_pos' \in Nat /\ cur_pos <= cur_pos'
          BY <1>4, <1>7, <1>9
        <5>3. ~(Ends(given, k) <= cur_pos')
          BY <2>0, <4>2, <5>1, <5>2
        <5>4. QED BY <1>4, <2>0, <5>2, <5>3
      <4>4. env[Vars[k]] = Unset /\ Vars[k] \in needs
        BY <2>v, <4>3 DEF VarScanned
      <4>5. QED BY <1>2, <2>v, <3>2, <4>2, <4>3, <4>4 DEF VarScanned
    <3>5. QED BY <2>0, <2>2, <3>3, <3>4
  <2>3. QED BY <2>1, <2>2
<1>13. BufferFilled'
  BY <1>1, <1>2, <1>3 DEF Scanning, BufferFilled
<1>14. QED BY <1>1, <1>2, <1>3, <1>12, <1>13 DEF Scanning, Arrived

\* A scan that ends has taken every record.
LEMMA EndsStream == ASSUME ChildInv, BufferInv, StreamInv, ScanEnds PROVE StreamInv'
<1>1. /\ server = "scan" /\ environ_buffer[cur_pos] = Nul /\ server' = "fgets"
      /\ UNCHANGED <<childVars, pipe, line, env>>
  BY DEF ScanEnds
<1>2. Sent' = Sent /\ Bad' = Bad /\ Fits' = Fits /\ given' = given /\ OutputLength' = OutputLength
  BY <1>1, ChildAlone
<1> SUFFICES ASSUME Fits, ~Bad PROVE Arrived' /\ Scanned'
  BY <1>2 DEF StreamInv
<1>3. Arrived /\ Scanning
  BY <1>1 DEF StreamInv, Arriving, Scanned
<1>4. cur_pos \in Nat /\ OutputLength \in Nat
  BY SentBounded DEF BufferInv, SentInv
<1>5. ~(cur_pos < OutputLength)
  <2> SUFFICES ASSUME cur_pos < OutputLength PROVE FALSE
    OBVIOUS
  <2>1. PICK i \in 1 .. Len(Vars) : given[Vars[i]] >= 0 /\ Ends(given, i - 1) = cur_pos
    BY <1>3, <1>4, RecordAtCurPos
  <2>2. QED BY <1>1, <1>3, <1>4, <2>1, CurRecord DEF Scanning
<1>6. ASSUME NEW v \in Names
      PROVE  env[v] = IF given[v] < 0 THEN Unset ELSE Value(v, given[v])
  <2>1. PICK i \in 1 .. Len(Vars) : v = Vars[i]
    BY DEF Names
  <2>2. Len(Vars) \in Nat /\ given[v] \in Int
    BY <2>1, VarsAssumption, LengthType DEF ChildInv
  <2>3. Len(Vars) \in 0 .. Len(Vars) /\ i \in 0 .. Len(Vars) /\ i <= Len(Vars)
    BY <2>2
  <2>4. Ends(given, i) \in Nat /\ Ends(given, i) <= OutputLength
    BY <2>3, EndsGrow DEF ChildInv, OutputLength, Ends
  <2>5. Ends(given, i) <= cur_pos
    BY <1>4, <1>5, <2>4
  <2>6. VarScanned(i)
    BY <1>3 DEF Scanning
  <2>7. CASE given[v] < 0
    BY <2>1, <2>2, <2>6, <2>7 DEF VarScanned
  <2>8. CASE ~(given[v] < 0)
    BY <2>1, <2>2, <2>5, <2>6, <2>8 DEF VarScanned
  <2>9. QED BY <2>7, <2>8
<1>7. Complete'
  BY <1>1, <1>2, <1>6 DEF Complete, Unset, Value
<1>8. QED BY <1>1, <1>2, <1>3, <1>7 DEF Arrived, Scanned

\* pclose comes after everything, or after nothing if no variable is set.
LEMMA PcloseStream == ASSUME ChildInv, StreamInv, Pclose PROVE StreamInv'
<1>1. /\ child = "exit" /\ pipe = << >> /\ line = << >> /\ server' = "done"
      /\ UNCHANGED <<childVars, pipe, line, env>>
  BY DEF Pclose, AtEOF
<1>2. Sent' = Sent /\ Bad' = Bad /\ Fits' = Fits /\ given' = given /\ OutputLength' = OutputLength
  BY <1>1, ChildAlone
<1> SUFFICES ASSUME Fits, ~Bad PROVE Arrived' /\ Scanned'
  BY <1>2 DEF StreamInv
<1>3. Sent = OutputLength
  BY <1>1, ExitSent DEF Bad
<1>4. Arrived'
  BY <1>1, <1>2, <1>3 DEF Arrived
<1>5. Complete
  <2>1. CASE Arriving
    <3>1. Sent = 0
      BY <1>1, <2>1, EmptySequence DEF Arriving
    <3>2. ASSUME NEW v \in Names PROVE given[v] < 0 /\ env[v] = Unset
      <4>1. PICK i \in 1 .. Len(Vars) : v = Vars[i]
        BY DEF Names
      <4>2. /\ Len(Vars) \in Nat /\ given[v] \in Int
            /\ Ends(given, i) \in Nat /\ Ends(given, i - 1) \in Nat
            /\ given[v] >= 0 => Ends(given, i) = Ends(given, i - 1) + given[v] + 2
        BY <4>1, VarsAssumption, EndsStep DEF ChildInv
      <4>3. Len(Vars) \in 0 .. Len(Vars) /\ i \in 0 .. Len(Vars) /\ i <= Len(Vars)
        BY <4>2
      <4>4. Ends(given, i) <= OutputLength
        BY <4>3, EndsGrow DEF ChildInv, OutputLength, Ends
      <4>5. given[v] < 0
        BY <1>3, <3>1, <4>2, <4>4
      <4>6. QED BY <2>1, <4>5 DEF Arriving
    <3>3. QED BY <3>2 DEF Complete
  <2>2. CASE Scanned
    BY <2>2 DEF Scanned
  <2>3. server = "fgets"
    BY DEF Pclose
  <2>4. QED BY <2>1, <2>2, <2>3 DEF StreamInv, Scanning
<1>6. Complete'
  BY <1>1, <1>2, <1>5 DEF Complete, Unset, Value
<1>7. QED BY <1>1, <1>4, <1>6 DEF Scanned

LEMMA NextStream ==
  ChildInv /\ SentInv' /\ BufferInv /\ StreamInv /\ [Next]_vars => StreamInv'
<1> SUFFICES ASSUME ChildInv, SentInv', BufferInv, StreamInv, [Next]_vars PROVE StreamInv'
  OBVIOUS
<1>1. CASE UNCHANGED vars
  <2>1. UNCHANGED childVars /\ UNCHANGED <<pipe, server, line, environ_buffer, cur_pos, needs, env>>
    BY <1>1 DEF vars, serverVars
  <2>2. Sent' = Sent /\ Bad' = Bad /\ Fits' = Fits /\ given' = given /\ OutputLength' = OutputLength
    BY <2>1, ChildAlone
  <2>3. Arriving => Arriving'
    BY <2>1, <2>2 DEF Arriving, Unset
  <2>4. Arrived => Arrived'
    BY <2>1, <2>2 DEF Arrived
  <2>5. Scanning => Scanning'
    BY <2>1, <2>2 DEF Scanning, BufferFilled, VarScanned
  <2>6. Scanned => Scanned'
    BY <2>1, <2>2 DEF Scanned, Complete
  <2>7. QED BY <2>2, <2>3, <2>4, <2>5, <2>6 DEF StreamInv
<1>2. CASE Done
  BY <1>1, <1>2 DEF Done
<1>3. QED
  BY <1>1, <1>2, ChildStream, ReadsStream, ReturnsStream, ScanStream, EndsStream, PcloseStream
     DEF Next, ServerStep

LEMMA NextDone == ChildInv /\ DoneInv /\ [Next]_vars => DoneInv'
<1> SUFFICES ASSUME ChildInv, DoneInv, [Next]_vars PROVE DoneInv'
  OBVIOUS
<1>1. CASE ChildStep
  BY <1>1 DEF ChildStep, ChildNext, ChildCalls, ChildPushes, ChildWrote, ChildFails, serverVars, DoneInv
<1>2. CASE Pclose
  BY <1>2 DEF Pclose, AtEOF, childVars, DoneInv
<1>3. CASE FgetsReads \/ FgetsReturns \/ Scan \/ ScanEnds
  BY <1>3 DEF FgetsReads, FgetsReturns, Scan, ScanEnds, DoneInv
<1>4. CASE Done \/ UNCHANGED vars
  BY <1>4 DEF Done, vars, childVars, serverVars, DoneInv
<1>5. QED BY <1>1, <1>2, <1>3, <1>4 DEF Next, ServerStep

\* The child's loop, the pipe, fgets and the scan keep to one stream.
THEOREM StreamInvHolds == Spec => [](ChildInv /\ StreamInv /\ DoneInv)
<1>1. ChildInv => SentInv
  BY SentBounded
<1>2. QED
  BY <1>1, InitChild, NextChild, InitStream, NextStream, NextDone, BufferInvHolds, PTL DEF Spec

\* When DetermineEnvironment returns 0 and the output of xrootd_hdfs_envcheck fits
\* one fgets, the server has the child's values, whole, whatever their
\* lengths, the pipe and the signals that interrupt safe_write.
THEOREM ValuesArrive == Spec => []EnvironmentArrives
<1>1. ChildInv /\ StreamInv /\ DoneInv => EnvironmentArrives
  <2> SUFFICES ASSUME ChildInv, StreamInv, DoneInv, server = "done", rc = 0,
                      OutputLength <= BufSize - 2
               PROVE  Complete
    BY DEF EnvironmentArrives, Complete
  <2>1. child = "exit" /\ status = 0
    BY DEF DoneInv
  <2>2. ~Bad /\ Fits
    BY <2>1 DEF Bad, Writing, Fits
  <2>3. QED BY <2>2 DEF StreamInv, Arriving, Scanning, Scanned
<1>2. QED BY <1>1, StreamInvHolds, PTL
=============================================================================
