----------------------- MODULE XrdHdfsDirectoryProofs -----------------------
(***************************************************************************)
(* XrdHdfsDirectory for directories of any size and any sequence of calls: *)
(* what Readdir returns is the directory Opendir listed, and the listing's *)
(* array is freed exactly once.                                            *)
(***************************************************************************)
EXTENDS XrdHdfsDirectory, TLAPS

\* An object that is not open holds no array; one that is open holds the
\* listing, and has returned its first dirPos entries before any EOF.
Position ==
  /\ ~isopen => dh = << >>
  /\ isopen =>
       /\ dh = snapshot /\ numEntries = Len(snapshot)
       /\ dirPos <= Len(snapshot) /\ dirPos <= Len(got)
       /\ dirPos < Len(snapshot) => Len(got) = dirPos

\* The inductive invariant.
Inv ==
  /\ TypeOK
  /\ Position
  /\ ReadsSnapshot
  /\ NoArrayLost

USE InfosAssumption, EntriesAssumption
----------------------------------------------------------------------------
\* A directory is a sequence of entries.
LEMMA ListingType ==
  ASSUME NEW s \in Listings PROVE s \in Seq(Infos)
<1>1. PICK n \in 0 .. MaxEntries : s \in [1 .. n -> Infos]
  BY DEF Listings
<1>2. QED BY <1>1

\* The struct stat of an entry has its type.
LEMMA StatType ==
  ASSUME NEW e \in Infos
  PROVE  ToStat(e) \in [dir : BOOLEAN, nlink : {0, 1}, size : Nat]
<1>1. e.dir \in BOOLEAN /\ e.size \in Nat
  OBVIOUS
<1>2. (IF e.dir THEN 0 ELSE 1) \in {0, 1} /\ (IF e.dir THEN 4096 ELSE e.size) \in Nat
  BY <1>1
<1>3. QED BY <1>1, <1>2 DEF ToStat

\* A new object satisfies the invariant.
LEMMA InitInv == Init => Inv
<1> SUFFICES ASSUME Init PROVE Inv
  OBVIOUS
<1>1. TypeOK
  <2>1. listing \in Seq(Infos)
    BY ListingType DEF Init
  <2>2. stats \in [Buffers -> SUBSET [dir : BOOLEAN, nlink : {0, 1}, size : Nat]]
    BY DEF Init
  <2>3. << >> \in Seq(Infos) /\ << >> \in Seq(Infos \cup {EOF})
    OBVIOUS
  <2>4. QED BY <2>1, <2>2, <2>3 DEF Init, TypeOK
<1>2. Position /\ ReadsSnapshot /\ NoArrayLost
  BY DEF Init, Position, ReadsSnapshot, NoArrayLost
<1>3. QED BY <1>1, <1>2 DEF Inv

LEMMA OpendirInv == Inv /\ Opendir => Inv'
<1> SUFFICES ASSUME Inv, Opendir PROVE Inv'
  OBVIOUS
<1>1. /\ dh' = listing /\ numEntries' = Len(listing) /\ dirPos' = 0
      /\ isopen' = TRUE /\ fname' = TRUE /\ snapshot' = listing /\ got' = << >>
      /\ UNCHANGED <<listing, m_stat_buf, stats>>
  BY DEF Opendir
<1>2. arrays = 0 /\ arrays' = IF listing = << >> THEN 0 ELSE 1
  BY DEF Inv, Opendir, Position, NoArrayLost
<1>3. listing \in Seq(Infos) /\ Len(listing) \in Nat /\ << >> \in Seq(Infos \cup {EOF})
  BY DEF Inv, TypeOK
<1>4. TypeOK'
  BY <1>1, <1>2, <1>3 DEF Inv, TypeOK
<1>5. Position' /\ ReadsSnapshot' /\ NoArrayLost'
  BY <1>1, <1>2, <1>3 DEF Position, ReadsSnapshot, NoArrayLost
<1>6. QED BY <1>4, <1>5 DEF Inv

LEMMA OpendirFailsInv == Inv /\ OpendirFails => Inv'
<1> SUFFICES ASSUME Inv, OpendirFails PROVE Inv'
  OBVIOUS
<1>1. /\ dh' = << >> /\ dirPos' = 0 /\ isopen' = FALSE /\ fname' = TRUE
      /\ UNCHANGED <<listing, numEntries, m_stat_buf, stats, arrays, snapshot, got>>
  BY DEF OpendirFails
<1>2. dh = << >>
  BY DEF Inv, Position, OpendirFails
<1>3. TypeOK'
  <2>1. << >> \in Seq(Infos)
    OBVIOUS
  <2>2. QED BY <1>1, <2>1 DEF Inv, TypeOK
<1>4. Position' /\ ReadsSnapshot' /\ NoArrayLost'
  BY <1>1, <1>2 DEF Inv, Position, ReadsSnapshot, NoArrayLost
<1>5. QED BY <1>3, <1>4 DEF Inv

LEMMA ReaddirInv == Inv /\ Readdir => Inv'
<1> SUFFICES ASSUME Inv, Readdir PROVE Inv'
  OBVIOUS
<1> DEFINE e == dh[dirPos + 1]
<1>1. /\ isopen /\ dirPos < numEntries /\ dirPos' = dirPos + 1
      /\ got' = Append(got, e)
      /\ stats' = IF m_stat_buf = NULL THEN stats
                  ELSE [stats EXCEPT ![m_stat_buf] = {ToStat(e)}]
      /\ UNCHANGED <<listing, dh, numEntries, fname, isopen, m_stat_buf, arrays, snapshot>>
  BY DEF Readdir, FillStat
<1>2. /\ dh = snapshot /\ snapshot \in Seq(Infos) /\ numEntries = Len(snapshot)
      /\ dirPos \in Nat /\ Len(got) = dirPos /\ got \in Seq(Infos \cup {EOF})
      /\ Len(snapshot) \in Nat
  BY <1>1 DEF Inv, TypeOK, Position
<1>3. e \in Infos /\ e = snapshot[dirPos + 1]
  BY <1>1, <1>2
<1> HIDE DEF e
<1>4. TypeOK'
  <2>1. got' \in Seq(Infos \cup {EOF})
    BY <1>1, <1>2, <1>3
  <2>2. stats' \in [Buffers -> SUBSET [dir : BOOLEAN, nlink : {0, 1}, size : Nat]]
    <3> DEFINE St == [dir : BOOLEAN, nlink : {0, 1}, size : Nat]
    <3>1. stats \in [Buffers -> SUBSET St] /\ {ToStat(e)} \in SUBSET St
      BY <1>3, StatType DEF Inv, TypeOK
    <3> HIDE DEF St
    <3>2. stats' \in [Buffers -> SUBSET St]
      BY <1>1, <3>1
    <3>3. QED BY <3>2 DEF St
  <2>3. QED BY <1>1, <1>2, <2>1, <2>2 DEF Inv, TypeOK
<1>5. Len(got') = dirPos + 1
  BY <1>1, <1>2
<1>6. Position'
  BY <1>1, <1>2, <1>5 DEF Position
<1>7. ReadsSnapshot'
  <2> SUFFICES ASSUME NEW i \in 1 .. Len(got')
               PROVE  got'[i] = IF i <= Len(snapshot) THEN snapshot[i] ELSE EOF
    BY <1>1 DEF ReadsSnapshot
  <2>1. CASE i = dirPos + 1
    BY <1>1, <1>2, <1>3, <2>1
  <2>2. CASE i # dirPos + 1
    <3>1. i \in 1 .. Len(got) /\ got'[i] = got[i]
      BY <1>1, <1>2, <1>5, <2>2
    <3>2. QED BY <1>1, <3>1 DEF Inv, ReadsSnapshot
  <2>3. QED BY <2>1, <2>2
<1>8. NoArrayLost'
  BY <1>1 DEF Inv, NoArrayLost
<1>9. QED BY <1>4, <1>6, <1>7, <1>8 DEF Inv

LEMMA ReaddirEOFInv == Inv /\ ReaddirEOF => Inv'
<1> SUFFICES ASSUME Inv, ReaddirEOF PROVE Inv'
  OBVIOUS
<1>1. /\ isopen /\ dirPos >= numEntries
      /\ got' = Append(got, EOF) \/ got' = got
      /\ UNCHANGED <<listing, dh, numEntries, dirPos, fname, isopen, m_stat_buf, stats,
                     arrays, snapshot>>
  BY DEF ReaddirEOF, handle
<1>2. /\ snapshot \in Seq(Infos) /\ Len(snapshot) \in Nat /\ dirPos = Len(snapshot)
      /\ got \in Seq(Infos \cup {EOF}) /\ Len(got) \in Nat /\ dirPos <= Len(got)
      /\ EOF \in Infos \cup {EOF}
  BY <1>1 DEF Inv, TypeOK, Position
<1>3. CASE got' = got
  BY <1>1, <1>3 DEF Inv, TypeOK, Position, ReadsSnapshot, NoArrayLost
<1>4. CASE got' = Append(got, EOF)
  <2>1. /\ got' \in Seq(Infos \cup {EOF}) /\ Len(got') = Len(got) + 1
        /\ got'[Len(got) + 1] = EOF
        /\ \A i \in 1 .. Len(got) : got'[i] = got[i]
    BY <1>2, <1>4
  <2>2. TypeOK'
    BY <1>1, <2>1 DEF Inv, TypeOK
  <2>3. Position' /\ NoArrayLost'
    BY <1>1, <1>2, <2>1 DEF Inv, Position, NoArrayLost
  <2>4. ReadsSnapshot'
    <3> SUFFICES ASSUME NEW i \in 1 .. Len(got')
                 PROVE  got'[i] = IF i <= Len(snapshot) THEN snapshot[i] ELSE EOF
      BY <1>1 DEF ReadsSnapshot
    <3>1. CASE i = Len(got) + 1
      BY <1>2, <2>1, <3>1
    <3>2. CASE i # Len(got) + 1
      <4>1. i \in 1 .. Len(got)
        BY <1>2, <2>1, <3>2
      <4>2. QED BY <1>1, <2>1, <4>1 DEF Inv, ReadsSnapshot
    <3>3. QED BY <3>1, <3>2
  <2>5. QED BY <2>2, <2>3, <2>4 DEF Inv
<1>5. QED BY <1>1, <1>3, <1>4

\* Close and the destructor free the array and forget it.
LEMMA ReleaseInv ==
  ASSUME Inv, FreeArray, dh' = << >>, numEntries' = 0, dirPos' = 0, isopen' = FALSE,
         fname' = FALSE, m_stat_buf' \in {m_stat_buf, NULL},
         UNCHANGED <<listing, stats, snapshot, got>>
  PROVE  Inv'
<1>1. arrays' = 0
  BY DEF Inv, TypeOK, NoArrayLost, FreeArray
<1>2. TypeOK'
  <2>1. << >> \in Seq(Infos) /\ 0 \in Nat /\ m_stat_buf' \in Buffers \cup {NULL}
    BY DEF Inv, TypeOK
  <2>2. QED BY <1>1, <2>1 DEF Inv, TypeOK
<1>3. Position' /\ ReadsSnapshot' /\ NoArrayLost'
  BY <1>1 DEF Position, ReadsSnapshot, NoArrayLost
<1>4. QED BY <1>2, <1>3 DEF Inv

\* Every step keeps the invariant.
LEMMA NextInv == Inv /\ [Next]_vars => Inv'
<1> SUFFICES ASSUME Inv, [Next]_vars PROVE Inv'
  OBVIOUS
<1>1. CASE Opendir \/ OpendirFails \/ Readdir \/ ReaddirEOF
  BY <1>1, OpendirInv, OpendirFailsInv, ReaddirInv, ReaddirEOFInv
<1>2. ASSUME NEW b \in Buffers, StatRet(b) PROVE Inv'
  BY <1>2 DEF Inv, TypeOK, Position, ReadsSnapshot, NoArrayLost, StatRet, handle
<1>3. CASE Close
  BY <1>3, ReleaseInv DEF Close
<1>4. CASE Destroy
  BY <1>4, ReleaseInv DEF Destroy
<1>5. CASE Others
  <2>1. listing' \in Seq(Infos)
    BY <1>5, ListingType DEF Others
  <2>2. UNCHANGED <<dh, numEntries, dirPos, fname, isopen, m_stat_buf, stats, arrays,
                    snapshot, got>>
    BY <1>5 DEF Others, handle
  <2>3. QED BY <2>1, <2>2 DEF Inv, TypeOK, Position, ReadsSnapshot, NoArrayLost
<1>6. CASE UNCHANGED vars
  BY <1>6 DEF vars, handle, Inv, TypeOK, Position, ReadsSnapshot, NoArrayLost
<1>7. QED BY <1>1, <1>2, <1>3, <1>4, <1>5, <1>6 DEF Next
----------------------------------------------------------------------------
\* The invariant holds in every reachable state.
THEOREM InvHolds == Spec => []Inv
BY InitInv, NextInv, PTL DEF Spec

\* The variables of the object keep their types; in particular each stat buffer
\* holds nothing or one whole struct stat.
THEOREM TypeCorrect == Spec => []TypeOK
<1>1. Inv => TypeOK
  BY DEF Inv
<1>2. QED BY <1>1, InvHolds, PTL

\* Between Opendir and Close, Readdir returns the entries that Opendir listed,
\* each once and in order, and EOF from then on.
THEOREM ListsOnce == Spec => []ReadsSnapshot
<1>1. Inv => ReadsSnapshot
  BY DEF Inv
<1>2. QED BY <1>1, InvHolds, PTL

\* The only array of hdfsListDirectory that has not been freed is the one the
\* object holds.
THEOREM FreesOnce == Spec => []NoArrayLost
<1>1. Inv => NoArrayLost
  BY DEF Inv
<1>2. QED BY <1>1, InvHolds, PTL

\* What StatIsOfEntry asks of one step.
StatStep ==
  \A b \in Buffers :
    (m_stat_buf = b /\ dirPos' = dirPos + 1 /\ isopen) =>
      stats'[b] = {ToStat(snapshot[dirPos + 1])}

\* Only Readdir moves on in the directory.
LEMMA NextStat == Inv /\ [Next]_vars => StatStep
<1> SUFFICES ASSUME Inv, [Next]_vars, NEW b \in Buffers,
                    m_stat_buf = b, dirPos' = dirPos + 1, isopen
             PROVE  stats'[b] = {ToStat(snapshot[dirPos + 1])}
  BY DEF StatStep
<1>1. /\ dirPos \in Nat /\ dh = snapshot
      /\ stats \in [Buffers -> SUBSET [dir : BOOLEAN, nlink : {0, 1}, size : Nat]]
  BY DEF Inv, TypeOK, Position
<1>2. ~Opendir /\ ~OpendirFails
  BY DEF Opendir, OpendirFails
<1>3. dirPos' # 0 /\ dirPos' # dirPos
  BY <1>1
<1>4. ~Close /\ ~Destroy
  BY <1>3 DEF Close, Destroy
<1>5. ~ReaddirEOF /\ ~Others /\ (\A c \in Buffers : ~StatRet(c)) /\ ~UNCHANGED vars
  BY <1>3 DEF ReaddirEOF, Others, StatRet, vars, handle
<1>6. Readdir
  BY <1>2, <1>4, <1>5 DEF Next
<1>7. stats' = [stats EXCEPT ![b] = {ToStat(dh[dirPos + 1])}]
  BY <1>6 DEF Readdir, FillStat
<1>8. QED BY <1>1, <1>7

\* The buffer registered with StatRet gets the stat information of the entry
\* that Readdir returns, whatever calls came before.
THEOREM StatMatchesEntry == Spec => StatIsOfEntry
<1>1. Inv /\ [Next]_vars => [StatStep]_vars
  BY NextStat
<1>2. QED BY <1>1, InvHolds, PTL DEF Spec, StatIsOfEntry, StatStep
=============================================================================
