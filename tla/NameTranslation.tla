-------------------------- MODULE NameTranslation --------------------------
(***************************************************************************)
(* What the names of the plugin go through.  Every Open and Unlink passes  *)
(* its argument through GetRealPath (XrdHdfs.cc), which asks the           *)
(* translation plugin and falls back on the name as it is.  A checksum     *)
(* query is first translated by Lfn2Pfn, and what the checksum manager     *)
(* makes of the result goes through GetRealPath once more; so do the       *)
(* checksum files, which live under /cksums.                               *)
(*                                                                         *)
(* One thread runs here, with the stack of its Closes: Close records a     *)
(* checksum, for which it opens, writes and closes another file.           *)
(*                                                                         *)
(* A path is the sequence of its components.  A content is a sequence: one *)
(* value for what a client wrote, "digest" in front of a content for the   *)
(* entries of its checksum file.  HDFS does not fail here; the faults are  *)
(* in ChecksumManager.                                                     *)
(***************************************************************************)
EXTENDS Integers, Sequences, TLC

CONSTANTS
  Lfns,           \* the names clients use
  Values,         \* what they write
  Rules,          \* the translation plugins
  lfn2pfn(_, _, _), \* what a plugin makes of a path, given the longest result
                  \* that fits: the set of its one result, or {} for an error
  MaxPath,        \* XrdHdfsMAX_PATH_LEN, in components
  MaxDepth,       \* bound: Closes on the stack
  NULL

ASSUME LfnsAssumption == Lfns \subseteq Seq(STRING)
ASSUME BoundsAssumption == MaxPath \in Nat /\ MaxDepth \in Nat \ {0}

VARIABLES
  the_N2N, \* the translation plugin, or NULL; never changes
  files,   \* the HDFS files there are, with their contents
  stack,   \* the file objects being closed, the innermost last
  answer   \* what the last checksum query returned, or NULL

vars == <<the_N2N, files, stack, answer>>

Init ==
  /\ the_N2N \in Rules \cup {NULL}
  /\ files = << >>
  /\ stack = << >>
  /\ answer = NULL

Digest(content) == <<"digest">> \o content

Fits(path, blen) == IF Len(path) <= blen THEN {path} ELSE {}

\* Mutant: the buffer for the translated name is made long enough.
GetRealPathUnlimited(path) ==
  LET actual_path == IF the_N2N = NULL THEN {} ELSE lfn2pfn(the_N2N, path, Len(path) + 1) IN
  IF actual_path = {} THEN path ELSE CHOOSE p \in actual_path : TRUE

\* "Cannot find a N2N mapping; using path directly."
GetRealPath(path) ==
  LET actual_path == IF the_N2N = NULL THEN {} ELSE lfn2pfn(the_N2N, path, MaxPath) IN
  IF actual_path = {} THEN path ELSE CHOOSE p \in actual_path : TRUE

\* The caller's buffer is as long as any path; an error is the caller's.
Lfn2Pfn(oldp) ==
  IF the_N2N = NULL THEN Fits(oldp, MaxPath) ELSE lfn2pfn(the_N2N, oldp, MaxPath)

\* Mutant: one checksum file for all files of the same last component.
GetChecksumFilenameShort(pfn) == <<"cksums", pfn[Len(pfn)]>>

GetChecksumFilename(pfn) == <<"cksums">> \o pfn

\* Open gives every file but those under /cksums a ChecksumState.
KeepsDigests(fname) == fname[1] # "cksums"

\* Open for writing and Write: the file has its content, and its object, not
\* yet closed, is on top of the stack.  A recursion that reaches MaxDepth stays
\* there.
OpenAndWrite(path, content, below) ==
  LET fname == GetRealPath(path) IN
  /\ files' = (fname :> content) @@ files
  /\ stack' = IF Len(below) >= MaxDepth THEN stack
              ELSE Append(below, [fname |-> fname, m_state |-> KeepsDigests(fname)])

\* A client writes a file and is about to close it.
ClientWrites(lfn, v) ==
  /\ stack = << >>
  /\ OpenAndWrite(lfn, <<v>>, << >>)
  /\ answer' = NULL
  /\ UNCHANGED the_N2N
----------------------------------------------------------------------------
(***************************************************************************)
(* Close                                                                   *)
(***************************************************************************)

\* Finalize, and Set through SetMultiple, which opens the checksum file and
\* writes it; its own Close comes next.
CloseRecords ==
  LET top == Len(stack) IN
  /\ stack # << >>
  /\ stack[top].m_state
  /\ OpenAndWrite(GetChecksumFilename(stack[top].fname),
                  Digest(files[stack[top].fname]),
                  [stack EXCEPT ![top].m_state = FALSE])
  /\ UNCHANGED <<the_N2N, answer>>

\* Nothing to record, or it is recorded: Close returns to whoever called it.
CloseReturn ==
  /\ stack # << >>
  /\ ~stack[Len(stack)].m_state
  /\ stack' = SubSeq(stack, 1, Len(stack) - 1)
  /\ UNCHANGED <<the_N2N, files, answer>>
----------------------------------------------------------------------------
(***************************************************************************)
(* Checksum queries                                                        *)
(***************************************************************************)

Answer(lfn, value) == [lfn |-> lfn, value |-> value]

\* A query of lfn reaches the checksum manager as pfn.
Query(lfn, pfn) ==
  /\ stack = << >>
  /\ pfn \in Lfn2Pfn(lfn)

\* There is no checksum file: -ESRCH, which changes nothing, and XRootD calls
\* Calc.  Otherwise the digest in it.
Get(lfn) ==
  \E pfn \in Lfn2Pfn(lfn) :
    LET path == GetRealPath(GetChecksumFilename(pfn)) IN
    /\ Query(lfn, pfn)
    /\ path \in DOMAIN files
    /\ answer' = Answer(lfn, files[path])
    /\ UNCHANGED <<the_N2N, files, stack>>

\* Calc reads the file and records its digest under pfn.
Calc(lfn) ==
  \E pfn \in Lfn2Pfn(lfn) :
    LET path == GetRealPath(pfn) IN
    /\ Query(lfn, pfn)
    /\ path \in DOMAIN files
    /\ OpenAndWrite(GetChecksumFilename(pfn), Digest(files[path]), << >>)
    /\ answer' = Answer(lfn, Digest(files[path]))
    /\ UNCHANGED the_N2N

\* Del unlinks the file itself (the checksum file stays), as Unlink does.
Unlinks(path) ==
  /\ path \in DOMAIN files
  /\ files' = [p \in DOMAIN files \ {path} |-> files[p]]
  /\ answer' = NULL
  /\ UNCHANGED <<the_N2N, stack>>

Del(lfn) == \E pfn \in Lfn2Pfn(lfn) : Query(lfn, pfn) /\ Unlinks(GetRealPath(pfn))

Unlink(lfn) == stack = << >> /\ Unlinks(GetRealPath(lfn))

CloseSteps == CloseRecords \/ CloseReturn

Next ==
  \/ \E lfn \in Lfns, v \in Values : ClientWrites(lfn, v)
  \/ CloseRecords
  \/ CloseReturn
  \/ \E lfn \in Lfns : Get(lfn)
  \/ \E lfn \in Lfns : Calc(lfn)
  \/ \E lfn \in Lfns : Del(lfn)
  \/ \E lfn \in Lfns : Unlink(lfn)

Spec == Init /\ [][Next]_vars

\* The thread that is inside Close goes on.
FairSpec == Spec /\ WF_vars(CloseSteps)
----------------------------------------------------------------------------
(***************************************************************************)
(* Properties                                                              *)
(***************************************************************************)

OwnFile ==
  (answer' # answer /\ answer' # NULL /\ GetRealPath(answer'.lfn) \in DOMAIN files)
    => answer'.value = Digest(files[GetRealPath(answer'.lfn)])

\* "Implement missing LFN2PFN methods, fixing checksum calculations when name
\* translation is used." (rpm/xrootd-hdfs.spec): the checksum that Get or Calc
\* returns for a name is of the file that an Open of the same name reaches, if
\* there is one.
AnswersOwnFile == [][OwnFile]_vars

\* The same under every translation that leaves the names it has made alone, and
\* without one: the two ways of translating a name, and the place of the
\* checksum file, fit together.
AnswersOwnFileOnce ==
  [][(\A lfn \in Lfns : GetRealPath(GetRealPath(lfn)) = GetRealPath(lfn)) => OwnFile]_vars

\* Every Close returns: the test of the translated name for "/cksums" stops the
\* recursion at the first checksum file.  Under a translation that moves /cksums
\* away the Close of a checksum file opens the checksum file of that one, and
\* what ends the recursion is that lfn2pfn runs out of room.
CloseReturns == stack # << >> ~> stack = << >>
=============================================================================
