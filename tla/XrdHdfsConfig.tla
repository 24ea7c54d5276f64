---------------------------- MODULE XrdHdfsConfig ----------------------------
(***************************************************************************)
(* How the plugin comes up: XrdOssGetStorageSystem of the bootstrap library *)
(* (XrdHdfsBootstrap.cc), which loads the plugin proper once and hands the  *)
(* call on, and Init, Configure and the directives of XrdHdfsConfig.cc.     *)
(*                                                                         *)
(* A configuration file is the sequence of its oss. directives.  Only       *)
(* namelib does anything; it may lack its library, or have parameters that  *)
(* do not fit.  The translation object is the pair of the library and the   *)
(* parameters it was made with.  The server may call again after a failure, *)
(* and the file may have been edited by then.                               *)
(***************************************************************************)
EXTENDS Integers, Sequences

CONSTANTS
  Libs,      \* names of translation libraries
  BadLibs,   \* those that cannot be loaded
  Parms,     \* parameter strings other than the empty one
  MaxLines,  \* bound: directives in a file
  NULL       \* a null pointer, or an empty parameter string

ASSUME LibsAssumption == BadLibs \subseteq Libs /\ NULL \notin Libs \cup Parms
ASSUME BoundAssumption == MaxLines \in Nat

\* What namelib may be followed by; fits: the parameters do.  Other directives
\* are ignored.
Directives ==
  [lib : Libs, parms : Parms \cup {NULL}, fits : BOOLEAN]
  \cup {[lib |-> NULL, parms |-> NULL, fits |-> TRUE]}
Files == UNION {[1 .. k -> Directives] : k \in 0 .. MaxLines}

VARIABLES
  file,         \* the configuration file
  line,         \* directives read so far by the call under way
  pc,           \* "idle", "read" while ConfigProc scans, "end" after the file
  NoGo,
  N2N_Lib, N2N_Parms, ConfigFN, the_N2N,  \* members of XrdHdfsSS
  g_hdfs_oss    \* of the bootstrap library: the plugin is up

vars == <<file, line, pc, NoGo, N2N_Lib, N2N_Parms, ConfigFN, the_N2N, g_hdfs_oss>>
members == <<N2N_Lib, N2N_Parms, ConfigFN, the_N2N>>

Init ==
  /\ file \in Files
  /\ line = 0
  /\ pc = "idle"
  /\ NoGo = FALSE
  /\ N2N_Lib = NULL /\ N2N_Parms = NULL /\ ConfigFN = FALSE /\ the_N2N = NULL
  /\ g_hdfs_oss = FALSE

\* Somebody edits the file while nobody reads it.
Edit ==
  /\ pc = "idle"
  /\ file' \in Files
  /\ UNCHANGED <<line, pc, NoGo, members, g_hdfs_oss>>
----------------------------------------------------------------------------
(***************************************************************************)
(* XrdOssGetStorageSystem                                                  *)
(***************************************************************************)

\* The plugin is up already: the call returns it.
GetAgain ==
  /\ pc = "idle"
  /\ g_hdfs_oss
  /\ UNCHANGED vars

\* Mutant: every call initialises the plugin.
MayLoadAlways == pc = "idle"

MayLoad == pc = "idle" /\ ~g_hdfs_oss

\* DetermineEnvironment, loading the library or finding its entry point failed.
LoadFails ==
  /\ MayLoad
  /\ UNCHANGED vars

\* Init and Configure forget the translation; the parameters stay.  ConfigProc
\* opens the file and starts to read.
Load ==
  /\ MayLoad
  /\ N2N_Lib' = NULL /\ the_N2N' = NULL
  /\ ConfigFN' = TRUE
  /\ NoGo' = FALSE
  /\ line' = 0
  /\ pc' = "read"
  /\ UNCHANGED <<file, N2N_Parms, g_hdfs_oss>>

\* There is no file, or it cannot be opened.
OpenFails ==
  /\ MayLoad
  /\ N2N_Lib' = NULL /\ the_N2N' = NULL
  /\ g_hdfs_oss' = FALSE
  /\ UNCHANGED <<file, line, pc, NoGo, N2N_Parms, ConfigFN>>
----------------------------------------------------------------------------
(***************************************************************************)
(* ConfigProc                                                              *)
(***************************************************************************)

\* Mutant: an empty parameter string leaves the old one.
NewParmsKept(d) == IF d.parms = NULL THEN N2N_Parms ELSE d.parms

\* *parms ? strdup(parms) : 0
NewParms(d) == d.parms

\* xnml: the library is recorded before the parameters are looked at.
Namelib ==
  LET d == file[line + 1] IN
  /\ pc = "read"
  /\ line < Len(file)
  /\ line' = line + 1
  /\ IF d.lib = NULL
     THEN NoGo' = TRUE /\ UNCHANGED <<N2N_Lib, N2N_Parms>>
     ELSE /\ N2N_Lib' = d.lib
          /\ NoGo' = (NoGo \/ ~d.fits)
          /\ N2N_Parms' = IF d.fits THEN NewParms(d) ELSE N2N_Parms
  /\ UNCHANGED <<file, pc, ConfigFN, the_N2N, g_hdfs_oss>>

\* ConfigN2N: the library or its object could not be had.
N2NFailed == N2N_Lib \in BadLibs

\* The end of the file: ConfigN2N if a library was named, whatever errors came
\* before.  A read error, which ends the file early, stops the plugin too.
ConfigEnds(readError) ==
  /\ pc = "read"
  /\ line = Len(file) \/ readError
  /\ the_N2N' = IF N2N_Lib = NULL \/ N2NFailed THEN the_N2N
                ELSE [lib |-> N2N_Lib, parms |-> N2N_Parms]
  /\ NoGo' = (NoGo \/ (N2N_Lib # NULL /\ N2NFailed) \/ readError)
  /\ pc' = "end"
  /\ UNCHANGED <<file, line, N2N_Lib, N2N_Parms, ConfigFN, g_hdfs_oss>>

\* XrdOssGetStorageSystem keeps a plugin that came up.
Loaded ==
  /\ pc = "end"
  /\ g_hdfs_oss' = ~NoGo
  /\ pc' = "idle"
  /\ UNCHANGED <<file, line, NoGo, members>>

Next ==
  \/ Edit
  \/ GetAgain \/ LoadFails \/ Load \/ OpenFails
  \/ Namelib
  \/ \E readError \in BOOLEAN : ConfigEnds(readError)
  \/ Loaded

Spec == Init /\ [][Next]_vars
----------------------------------------------------------------------------
(***************************************************************************)
(* Properties                                                              *)
(***************************************************************************)

\* The translation a file asks for: that of its last namelib, with the
\* parameters on that line.
Wanted(f) ==
  IF f = << >> THEN NULL ELSE [lib |-> f[Len(f)].lib, parms |-> f[Len(f)].parms]

\* A plugin that comes up translates names as its file says: the last namelib
\* counts, with its own parameters and not those of an earlier line, of an
\* earlier attempt or of a line that was refused.
UpMeansTranslated ==
  [][~g_hdfs_oss /\ g_hdfs_oss' => the_N2N' = Wanted(file)]_vars

\* Once the plugin is up, a later call for it leaves the translation alone:
\* operations are using it.
TranslationStable ==
  [][g_hdfs_oss => g_hdfs_oss' /\ the_N2N' = the_N2N]_vars
=============================================================================
