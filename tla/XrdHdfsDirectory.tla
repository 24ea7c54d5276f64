-------------------------- MODULE XrdHdfsDirectory --------------------------
(***************************************************************************)
(* One XrdHdfsDirectory object (XrdHdfs.cc): Opendir, Readdir, StatRet,    *)
(* Close and the destructor.  The object has one caller at a time; the     *)
(* directory itself changes under it whenever other clients like.          *)
(*                                                                         *)
(* A name stands for the last component of mName that Readdir returns, its *)
(* leading slash included.                                                 *)
(*                                                                         *)
(* Connect failures of Opendir change nothing and are left out, and so are *)
(* calls refused with -EINVAL or -EBADF, which change nothing either.      *)
(***************************************************************************)
EXTENDS Integers, Sequences

CONSTANTS
  Infos,       \* the hdfsFileInfo records that occur: name, dir, size
  MaxEntries,  \* bound: entries of the directory
  Buffers,     \* the struct stat buffers the server hands to StatRet
  NULL

ASSUME InfosAssumption == \A e \in Infos : e.dir \in BOOLEAN /\ e.size \in Nat
ASSUME EntriesAssumption == MaxEntries \in Nat /\ NULL \notin Buffers

VARIABLES
  listing,     \* the directory's entries in HDFS
  dh,          \* the array hdfsListDirectory returned; << >> is NULL
  numEntries, dirPos,
  fname,       \* fname # NULL
  isopen,
  m_stat_buf,  \* the buffer Readdir fills, or NULL
  stats,       \* stats[b]: what buffer b holds, {} or {a struct stat}
  arrays,      \* arrays of hdfsListDirectory that nobody has freed
  snapshot,    \* history: the directory when Opendir listed it
  got          \* history: what Readdir has returned since, in order

handle == <<dh, numEntries, dirPos, fname, isopen>>
vars == <<listing, handle, m_stat_buf, stats, arrays, snapshot, got>>

\* Directories with at most MaxEntries entries, no name twice.
Listings ==
  {s \in UNION {[1 .. n -> Infos] : n \in 0 .. MaxEntries} :
     \A i, j \in DOMAIN s : s[i].name = s[j].name => i = j}

\* The struct stat made from an hdfsFileInfo (Readdir, Stat and Fstat alike).
ToStat(e) ==
  [dir |-> e.dir, nlink |-> IF e.dir THEN 0 ELSE 1,
   size |-> IF e.dir THEN 4096 ELSE e.size]

\* What Readdir returns at the end: 0 and an empty name.
EOF == [name |-> "", dir |-> FALSE, size |-> 0]

Init ==
  /\ listing \in Listings
  /\ dh = << >> /\ numEntries = 0 /\ dirPos = 0
  /\ fname = FALSE /\ isopen = FALSE
  /\ m_stat_buf = NULL
  /\ stats = [b \in Buffers |-> {}]
  /\ arrays = 0
  /\ snapshot = << >> /\ got = << >>

\* hdfsListDirectory succeeds; for an empty directory it returns NULL too,
\* with errno 0.
Opendir ==
  /\ ~isopen
  /\ fname' = TRUE
  /\ dirPos' = 0
  /\ dh' = listing
  /\ numEntries' = Len(listing)
  /\ arrays' = arrays + IF listing = << >> THEN 0 ELSE 1
  /\ isopen' = TRUE
  /\ snapshot' = listing /\ got' = << >>
  /\ UNCHANGED <<listing, m_stat_buf, stats>>

\* It fails: NULL with errno set.
OpendirFails ==
  /\ ~isopen
  /\ fname' = TRUE
  /\ dirPos' = 0
  /\ dh' = << >>
  /\ isopen' = FALSE
  /\ UNCHANGED <<listing, numEntries, m_stat_buf, stats, arrays, snapshot, got>>

\* Mutant: the stat information of the first entry every time.
FillStatFirst ==
  stats' = IF m_stat_buf = NULL THEN stats
           ELSE [stats EXCEPT ![m_stat_buf] = {ToStat(dh[1])}]

\* The registered buffer gets the entry's stat information.
FillStat ==
  stats' = IF m_stat_buf = NULL THEN stats
           ELSE [stats EXCEPT ![m_stat_buf] = {ToStat(dh[dirPos + 1])}]

\* The next entry, with its stat information if a buffer is registered.
Readdir ==
  /\ isopen
  /\ dirPos < numEntries
  /\ dh # << >>
  /\ dirPos' = dirPos + 1
  /\ got' = Append(got, dh[dirPos + 1])
  /\ FillStat
  /\ UNCHANGED <<listing, dh, numEntries, fname, isopen, m_stat_buf, arrays, snapshot>>

\* Mutant: the end of the directory rewinds it.
ReaddirRewinds ==
  /\ isopen
  /\ dirPos >= numEntries
  /\ got' = IF Len(got) <= MaxEntries THEN Append(got, EOF) ELSE got
  /\ dirPos' = 0
  /\ UNCHANGED <<listing, dh, numEntries, fname, isopen, m_stat_buf, stats, arrays, snapshot>>

\* "Check if we are at EOF (once there we stay there)"
ReaddirEOF ==
  /\ isopen
  /\ dirPos >= numEntries
  /\ got' = IF Len(got) <= MaxEntries THEN Append(got, EOF) ELSE got
  /\ UNCHANGED <<listing, handle, m_stat_buf, stats, arrays, snapshot>>

StatRet(b) ==
  /\ isopen
  /\ ~(numEntries > 0 /\ dh = << >>)
  /\ m_stat_buf' = b
  /\ UNCHANGED <<listing, handle, stats, arrays, snapshot, got>>

\* Mutants: the array is never freed; it is freed whether there is one or not.
FreeNever == UNCHANGED arrays
FreeUnchecked == arrays' = arrays - 1

\* hdfsFreeFileInfo on the array, if there is one.
FreeArray == arrays' = arrays - IF dh # << >> /\ numEntries >= 0 THEN 1 ELSE 0

\* Everything is reset but the stat buffer.
Close ==
  /\ isopen
  /\ FreeArray
  /\ fname' = FALSE
  /\ dh' = << >> /\ numEntries' = 0 /\ dirPos' = 0 /\ isopen' = FALSE
  /\ UNCHANGED <<listing, m_stat_buf, stats, snapshot, got>>

\* The destructor, and the constructor of the next object.
Destroy ==
  /\ FreeArray
  /\ fname' = FALSE
  /\ dh' = << >> /\ numEntries' = 0 /\ dirPos' = 0 /\ isopen' = FALSE
  /\ m_stat_buf' = NULL
  /\ UNCHANGED <<listing, stats, snapshot, got>>

\* Other clients change the directory.
Others ==
  /\ listing' \in Listings
  /\ UNCHANGED <<handle, m_stat_buf, stats, arrays, snapshot, got>>

Next ==
  \/ Opendir \/ OpendirFails
  \/ Readdir \/ ReaddirEOF
  \/ \E b \in Buffers : StatRet(b)
  \/ Close \/ Destroy
  \/ Others

Spec == Init /\ [][Next]_vars
----------------------------------------------------------------------------
\* Every variable has its type.
TypeOK ==
  /\ listing \in Seq(Infos) /\ dh \in Seq(Infos) /\ snapshot \in Seq(Infos)
  /\ got \in Seq(Infos \cup {EOF})
  /\ numEntries \in Nat /\ dirPos \in Nat /\ arrays \in Nat
  /\ fname \in BOOLEAN /\ isopen \in BOOLEAN
  /\ m_stat_buf \in Buffers \cup {NULL}
  /\ stats \in [Buffers -> SUBSET [dir : BOOLEAN, nlink : {0, 1}, size : Nat]]

\* What Readdir has returned since Opendir is the directory as Opendir found
\* it, entry by entry and none twice or left out, then EOF for as long as it
\* is asked ("once there we stay there"), whatever other clients do to the
\* directory meanwhile.
ReadsSnapshot ==
  isopen =>
    \A i \in 1 .. Len(got) :
      got[i] = IF i <= Len(snapshot) THEN snapshot[i] ELSE EOF

\* The array of hdfsListDirectory is freed once and only once over any
\* sequence of calls: the one the object holds is the only one there is.
NoArrayLost == arrays = IF dh = << >> THEN 0 ELSE 1

\* The stat information in the registered buffer is that of the entry the
\* last Readdir returned ("this allows Xrootd to save a corresponding call to
\* Stat for each directory entry").
StatIsOfEntry ==
  [][\A b \in Buffers :
       (m_stat_buf = b /\ dirPos' = dirPos + 1 /\ isopen) =>
         stats'[b] = {ToStat(snapshot[dirPos + 1])}]_vars
=============================================================================
