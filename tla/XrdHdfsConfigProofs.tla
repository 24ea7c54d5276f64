------------------------- MODULE XrdHdfsConfigProofs -------------------------
(***************************************************************************)
(* XrdHdfsConfig for any libraries, parameters and files of any length:    *)
(* the translation of a plugin that comes up.                              *)
(***************************************************************************)
EXTENDS XrdHdfsConfig, TLAPS

USE LibsAssumption, BoundAssumption
----------------------------------------------------------------------------
\* What the directives read so far leave, if none was refused: the library and
\* the parameters of the last one.
ReadSoFar ==
  IF line = 0 THEN N2N_Lib = NULL
  ELSE /\ N2N_Lib = file[line].lib /\ N2N_Parms = file[line].parms
       /\ N2N_Lib # NULL

\* While the file is read the translation is still empty; after it, and without
\* an error, it is the one the file asks for.  The plugin is not up meanwhile.
ConfigInv ==
  /\ file \in Files
  /\ pc \in {"idle", "read", "end"}
  /\ NoGo \in BOOLEAN
  /\ pc # "idle" => ~g_hdfs_oss
  /\ pc = "read" => line \in 0 .. Len(file) /\ the_N2N = NULL /\ (~NoGo => ReadSoFar)
  /\ (pc = "end" /\ ~NoGo) => the_N2N = Wanted(file)

\* A file is a sequence of directives.
LEMMA FileType ==
  ASSUME NEW f \in Files
  PROVE  f \in Seq(Directives) /\ Len(f) \in Nat /\ \A i \in 1 .. Len(f) : f[i] \in Directives
<1>1. PICK k \in 0 .. MaxLines : f \in [1 .. k -> Directives]
  BY DEF Files
<1>2. f \in Seq(Directives)
  BY <1>1
<1>3. QED BY <1>2

LEMMA InitConfig == Init => ConfigInv
BY DEF Init, ConfigInv

\* xnml replaces library and parameters together, unless it refuses the line.
LEMMA NamelibConfig ==
  ASSUME ConfigInv, Namelib PROVE ConfigInv'
<1> DEFINE d == file[line + 1]
<1>1. /\ pc = "read" /\ line < Len(file) /\ line' = line + 1
      /\ UNCHANGED <<file, pc, ConfigFN, the_N2N, g_hdfs_oss>>
  BY DEF Namelib
<1>2. line \in Nat /\ Len(file) \in Nat /\ line + 1 \in 1 .. Len(file)
  BY <1>1, FileType DEF ConfigInv
<1>3. d \in Directives
  BY <1>2, FileType DEF ConfigInv
<1>4. d.fits \in BOOLEAN
  <2>1. CASE d \in [lib : Libs, parms : Parms \cup {NULL}, fits : BOOLEAN]
    <3> HIDE DEF d
    <3>1. QED BY <2>1
  <2>2. CASE d = [lib |-> NULL, parms |-> NULL, fits |-> TRUE]
    <3> HIDE DEF d
    <3>1. d.fits = TRUE
      BY <2>2
    <3>2. QED BY <3>1
  <2>3. QED BY <1>3, <2>1, <2>2 DEF Directives
<1>5. NoGo' \in BOOLEAN /\ (~NoGo' => /\ d.lib # NULL /\ N2N_Lib' = d.lib /\ N2N_Parms' = d.parms)
  BY <1>4 DEF Namelib, NewParms, ConfigInv
<1>6. ~NoGo' => ReadSoFar'
  <2> SUFFICES ASSUME ~NoGo' PROVE ReadSoFar'
    OBVIOUS
  <2>1. line' # 0 /\ file'[line'] = d
    BY <1>1, <1>2
  <2> HIDE DEF d
  <2>2. QED BY <1>5, <2>1 DEF ReadSoFar
<1>7. line' \in 0 .. Len(file')
  BY <1>1, <1>2
<1>8. QED BY <1>1, <1>5, <1>6, <1>7 DEF ConfigInv

\* ConfigN2N makes the translation the file asks for, or stops the plugin.
LEMMA ConfigEndsConfig ==
  ASSUME ConfigInv, NEW readError \in BOOLEAN, ConfigEnds(readError) PROVE ConfigInv'
<1>1. /\ pc = "read" /\ pc' = "end" /\ UNCHANGED <<file, g_hdfs_oss>>
      /\ NoGo' = (NoGo \/ (N2N_Lib # NULL /\ N2NFailed) \/ readError)
      /\ line = Len(file) \/ readError
  BY DEF ConfigEnds
<1>2. NoGo' \in BOOLEAN
  BY <1>1
<1>3. ASSUME ~NoGo' PROVE the_N2N' = Wanted(file)
  <2>1. ~NoGo /\ ~readError /\ line = Len(file) /\ ReadSoFar /\ the_N2N = NULL
    BY <1>1, <1>3 DEF ConfigInv
  <2>2. file \in Seq(Directives) /\ Len(file) \in Nat
    BY FileType DEF ConfigInv
  <2>3. CASE Len(file) = 0
    <3>1. file = << >> /\ N2N_Lib = NULL
      BY <2>1, <2>2, <2>3 DEF ReadSoFar
    <3>2. QED BY <2>1, <3>1 DEF ConfigEnds, Wanted
  <2>4. CASE Len(file) # 0
    <3>1. file # << >>
      BY <2>2, <2>4
    <3>2. N2N_Lib # NULL /\ N2N_Lib = file[Len(file)].lib /\ N2N_Parms = file[Len(file)].parms
      BY <2>1, <2>4 DEF ReadSoFar
    <3>3. ~N2NFailed
      BY <1>1, <1>3, <3>2
    <3>4. the_N2N' = [lib |-> N2N_Lib, parms |-> N2N_Parms]
      BY <3>2, <3>3 DEF ConfigEnds
    <3>5. QED BY <3>1, <3>2, <3>4 DEF Wanted
  <2>5. QED BY <2>3, <2>4
<1>4. QED BY <1>1, <1>2, <1>3 DEF ConfigInv

LEMMA NextConfig == ConfigInv /\ [Next]_vars => ConfigInv'
<1> SUFFICES ASSUME ConfigInv, [Next]_vars PROVE ConfigInv'
  OBVIOUS
<1>1. CASE Edit
  BY <1>1 DEF Edit, ConfigInv
<1>2. CASE GetAgain \/ LoadFails \/ UNCHANGED vars
  BY <1>2 DEF GetAgain, LoadFails, vars, ConfigInv, ReadSoFar
<1>3. CASE Load
  <2>1. Len(file) \in Nat
    BY FileType DEF ConfigInv
  <2>2. /\ line' = 0 /\ N2N_Lib' = NULL /\ the_N2N' = NULL /\ NoGo' = FALSE /\ pc' = "read"
        /\ UNCHANGED <<file, g_hdfs_oss>> /\ ~g_hdfs_oss
    BY <1>3 DEF Load, MayLoad
  <2>3. ReadSoFar'
    BY <2>2 DEF ReadSoFar
  <2>4. line' \in 0 .. Len(file')
    BY <2>1, <2>2
  <2>5. QED BY <2>2, <2>3, <2>4 DEF ConfigInv
<1>4. CASE OpenFails
  BY <1>4 DEF OpenFails, MayLoad, ConfigInv
<1>5. CASE Loaded
  BY <1>5 DEF Loaded, ConfigInv
<1>6. QED
  BY <1>1, <1>2, <1>3, <1>4, <1>5, NamelibConfig, ConfigEndsConfig DEF Next

\* The invariant of XrdOssGetStorageSystem, Configure and ConfigProc.
THEOREM ConfigInvHolds == Spec => []ConfigInv
BY InitConfig, NextConfig, PTL DEF Spec

\* A plugin that XrdOssGetStorageSystem keeps translates names as the last namelib
\* of its file says, whatever the lines before and the attempts before left in the
\* members of XrdHdfsSS.
THEOREM UpTranslates == Spec => UpMeansTranslated
<1> DEFINE Up == ~g_hdfs_oss /\ g_hdfs_oss' => the_N2N' = Wanted(file)
<1>1. ConfigInv /\ [Next]_vars => [Up]_vars
  <2> SUFFICES ASSUME ConfigInv, Next, ~g_hdfs_oss, g_hdfs_oss' PROVE the_N2N' = Wanted(file)
    OBVIOUS
  <2>1. Loaded
    BY DEF Next, Edit, GetAgain, LoadFails, Load, OpenFails, Namelib, ConfigEnds, vars
  <2>2. QED BY <2>1 DEF Loaded, members, ConfigInv
<1>2. QED BY <1>1, ConfigInvHolds, PTL DEF Spec, UpMeansTranslated

\* Once the plugin is up no call of XrdOssGetStorageSystem changes its translation
\* or takes it down, which operations on other threads are using.
THEOREM TranslationStays == Spec => TranslationStable
<1> DEFINE Stays == g_hdfs_oss => g_hdfs_oss' /\ the_N2N' = the_N2N
<1>1. ConfigInv /\ [Next]_vars => [Stays]_vars
  <2> SUFFICES ASSUME ConfigInv, Next, g_hdfs_oss PROVE g_hdfs_oss' /\ the_N2N' = the_N2N
    OBVIOUS
  <2>1. pc = "idle"
    BY DEF ConfigInv
  <2>2. Edit \/ GetAgain
    BY <2>1 DEF Next, LoadFails, Load, OpenFails, MayLoad, Namelib, ConfigEnds, Loaded
  <2>3. QED BY <2>2 DEF Edit, GetAgain, members, vars
<1>2. QED BY <1>1, ConfigInvHolds, PTL DEF Spec, TranslationStable
=============================================================================
