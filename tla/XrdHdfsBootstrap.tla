-------------------------- MODULE XrdHdfsBootstrap --------------------------
(***************************************************************************)
(* How the plugin finds its environment: DetermineEnvironment               *)
(* (XrdHdfsBootstrap.cc) starts xrootd_hdfs_envcheck (XrdHdfsEnvCheck.cc),  *)
(* which prints three variables into a pipe, and scans what arrives.        *)
(*                                                                         *)
(* A cell stands for some bytes: <<v, 0>> for "v=", <<v, i>> for part i of  *)
(* v's value, Nul for the byte 0 and Junk for memory past the record.  None *)
(* of them is a newline, so a "line" of fgets ends where its buffer does.   *)
(***************************************************************************)
EXTENDS Integers, Sequences, FiniteSets

CONSTANTS
  Vars,        \* CLASSPATH, LIBHDFS_OPTS, LD_LIBRARY_PATH, in that order
  Lengths,     \* the lengths their values may have; -1: not set
  BufSize,     \* BUFSIZE, of both programs
  PipeSize,    \* what the pipe holds
  MaxSignals,  \* bound: signals that interrupt a write(2)
  Nul, Junk

Names == {Vars[i] : i \in 1 .. Len(Vars)}

ASSUME VarsAssumption ==
  /\ Vars \in Seq(Names) /\ \A i, j \in DOMAIN Vars : Vars[i] = Vars[j] => i = j
  /\ Nul \notin Names \X Nat
ASSUME SizesAssumption == BufSize \in Nat \ {0, 1, 2} /\ PipeSize \in Nat \ {0}
ASSUME LengthsAssumption == Lengths \subseteq Nat \cup {-1} /\ MaxSignals \in Nat

VARIABLES
  \* the process started by popen
  given,           \* given[v]: the length of v's value there, or -1
  todo,            \* the variables main has not printed yet
  child,           \* "next", "call", "write", "exit": where it is
  text,            \* what safe_write writes: the record of Head(todo), or a Nul
  len, result,     \* safe_write's locals
  pos, n,          \* cur_buffer, and what the write(2) under way has written
  status,          \* the exit status
  signals,         \* the signals that came during a write(2)
  \* between them
  pipe,
  \* the server
  server,          \* "fgets", "scan", "done": where it is
  line,            \* what fgets has read so far
  environ_buffer, cur_pos, needs,
  env,             \* env[v]: what setenv was given, or Unset
  rc               \* what DetermineEnvironment returns

childVars == <<given, todo, child, text, len, result, pos, n, status, signals>>
serverVars == <<server, line, environ_buffer, cur_pos, needs, env, rc>>
vars == <<childVars, pipe, serverVars>>

Value(v, k) == [i \in 1 .. k |-> <<v, i>>]
Record(v) == <<<<v, 0>>>> \o Value(v, given[v])
Unset == <<Junk>>

Init ==
  /\ given \in [Names -> Lengths]
  /\ todo = Vars
  /\ child = "next"
  /\ text = << >> /\ len = 0 /\ result = 0 /\ pos = 0 /\ n = 0
  /\ status = 0 /\ signals = 0
  /\ pipe = << >>
  /\ server = "fgets"
  /\ line = << >>
  /\ environ_buffer = [i \in 0 .. (BufSize - 1) |-> Nul]
  /\ cur_pos = 0
  /\ needs = Names
  /\ env = [v \in Names |-> Unset]
  /\ rc = 0
----------------------------------------------------------------------------
(***************************************************************************)
(* xrootd_hdfs_envcheck                                                    *)
(***************************************************************************)

\* XWRITE: safe_write(record, snprintf's result), then safe_write("\0", 1).
SafeWrite(t, l) == text' = t /\ len' = l /\ result' = 0 /\ pos' = 0 /\ n' = 0

\* main skips a variable that is not set; after the last one it returns 0.
ChildNext ==
  /\ child = "next"
  /\ \/ todo = << >> /\ child' = "exit" /\ UNCHANGED <<todo, text, len, result, pos, n>>
     \/ /\ todo # << >> /\ given[Head(todo)] < 0
        /\ todo' = Tail(todo)
        /\ UNCHANGED <<child, text, len, result, pos, n>>
     \/ /\ todo # << >> /\ given[Head(todo)] >= 0
        /\ child' = "call" /\ SafeWrite(Record(Head(todo)), Len(Record(Head(todo))))
        /\ UNCHANGED todo
  /\ UNCHANGED <<given, status, signals, pipe, serverVars>>

\* Memory that write(2) reads: the text as far as snprintf kept it, the Nul it
\* put there, whatever follows, and the last byte of buf, which stays 0.
Byte(i) ==
  LET kept == IF Len(text) < BufSize THEN Len(text) ELSE BufSize - 1 IN
  IF i <= kept THEN text[i] ELSE IF i \in {kept + 1, BufSize + 1} THEN Nul ELSE Junk

\* The count passed to write(2), a size_t.
Wants == len - result

\* while (len) write(1, cur_buffer, len - result)
ChildCalls ==
  /\ child = "call"
  /\ IF len # 0
     THEN child' = "write" /\ n' = 0 /\ UNCHANGED <<todo, text, len, result, pos>>
     ELSE /\ child' = IF text = <<Nul>> THEN "next" ELSE "call"
          /\ IF text = <<Nul>>
             THEN todo' = Tail(todo) /\ UNCHANGED <<text, len, result, pos, n>>
             ELSE SafeWrite(<<Nul>>, 1) /\ UNCHANGED todo
  /\ UNCHANGED <<given, status, signals, pipe, serverVars>>

\* The kernel copies a cell as soon as the pipe has room.
ChildPushes ==
  /\ child = "write"
  /\ Wants >= 0 /\ n < Wants
  /\ Len(pipe) < PipeSize
  /\ pipe' = Append(pipe, Byte(pos + n + 1))
  /\ n' = n + 1
  /\ UNCHANGED <<given, todo, child, text, len, result, pos, status, signals, serverVars>>

\* len -= result
LenAfter(k) == len - k

\* write(2) returns: everything was written, or a signal came.  After an EINTR
\* the loop goes on with a result of -1.
ChildWrote ==
  /\ child = "write"
  /\ Wants >= 0
  /\ \/ n = Wants /\ UNCHANGED signals
     \/ n < Wants /\ signals < MaxSignals /\ signals' = signals + 1
  /\ child' = "call"
  /\ IF n = 0 /\ Wants > 0
     THEN result' = -1 /\ UNCHANGED <<len, pos>>
     ELSE result' = n /\ len' = LenAfter(n) /\ pos' = pos + n
  /\ UNCHANGED <<given, todo, text, n, status, pipe, serverVars>>

\* A count below 0 is a size_t above SSIZE_MAX, which write(2) refuses; main
\* returns 1.
ChildFails ==
  /\ child = "write"
  /\ Wants < 0
  /\ child' = "exit"
  /\ status' = 1
  /\ UNCHANGED <<given, todo, text, len, result, pos, n, signals, pipe, serverVars>>
----------------------------------------------------------------------------
(***************************************************************************)
(* DetermineEnvironment                                                    *)
(***************************************************************************)

\* Mutant: fgets is given the whole buffer.
LineSizeFull == BufSize - 1

\* fgets(environ_buffer, BUFSIZE-1, fp): the most it reads.
LineSize == BufSize - 2

FgetsReads ==
  /\ server = "fgets"
  /\ Len(line) < LineSize
  /\ pipe # << >>
  /\ line' = Append(line, Head(pipe))
  /\ pipe' = Tail(pipe)
  /\ UNCHANGED <<childVars, server, environ_buffer, cur_pos, needs, env, rc>>

AtEOF == child = "exit" /\ pipe = << >>

\* The line is full, or the input ended after some bytes.  cur_pos stays.
FgetsReturns ==
  /\ server = "fgets"
  /\ Len(line) = LineSize \/ (AtEOF /\ line # << >>)
  /\ environ_buffer' = [i \in DOMAIN environ_buffer |->
                          IF i < Len(line) THEN line[i + 1]
                          ELSE IF i = Len(line) THEN Nul ELSE environ_buffer[i]]
  /\ line' = << >>
  /\ server' = "scan"
  /\ UNCHANGED <<childVars, pipe, cur_pos, needs, env, rc>>

\* The string at cur_pos.
CurString ==
  LET end == CHOOSE j \in cur_pos .. (BufSize - 1) :
               /\ environ_buffer[j] = Nul
               /\ \A k \in cur_pos .. (j - 1) : environ_buffer[k] # Nul
  IN [i \in 1 .. (end - cur_pos) |-> environ_buffer[cur_pos + i - 1]]

\* CheckEnvVar: the variables still needed whose name the string begins with.
CheckEnvVar == {v \in needs : Head(CurString) = <<v, 0>>}

\* Mutant: cur_pos is not moved on.
ScanStepNone == 0

\* Mutant: the Nul between two strings is not skipped.
ScanStepShort == Len(CurString)

\* cur_pos += strlen(cur_pos)+1
ScanStep == Len(CurString) + 1

Scan ==
  /\ server = "scan"
  /\ environ_buffer[cur_pos] # Nul
  /\ needs' = needs \ CheckEnvVar
  /\ env' = [v \in Names |-> IF v \in CheckEnvVar THEN Tail(CurString) ELSE env[v]]
  /\ cur_pos' = cur_pos + ScanStep
  /\ UNCHANGED <<childVars, pipe, server, line, environ_buffer, rc>>

ScanEnds ==
  /\ server = "scan"
  /\ environ_buffer[cur_pos] = Nul
  /\ server' = "fgets"
  /\ UNCHANGED <<childVars, pipe, line, environ_buffer, cur_pos, needs, env, rc>>

\* fgets returns NULL; pclose reports the exit status.
Pclose ==
  /\ server = "fgets"
  /\ AtEOF /\ line = << >>
  /\ server' = "done"
  /\ rc' = IF status = 0 THEN 0 ELSE 1
  /\ UNCHANGED <<childVars, pipe, line, environ_buffer, cur_pos, needs, env>>

\* Bootstrap goes on, with the environment or without it.
Done == server = "done" /\ UNCHANGED vars

ChildStep == ChildNext \/ ChildCalls \/ ChildPushes \/ ChildWrote \/ ChildFails
ServerStep == FgetsReads \/ FgetsReturns \/ Scan \/ ScanEnds \/ Pclose
Next == ChildStep \/ ServerStep \/ Done

Spec == Init /\ [][Next]_vars

\* Both processes run; nothing else is assumed.
FairSpec == Spec /\ WF_vars(ChildStep) /\ WF_vars(ServerStep)
----------------------------------------------------------------------------
(***************************************************************************)
(* Properties                                                              *)
(***************************************************************************)

\* The scan stays inside environ_buffer and always finds a Nul there: its last
\* byte is never overwritten, since fgets is given BUFSIZE-1, whatever comes
\* down the pipe and however many lines it takes.
ScanInBuffer ==
  /\ cur_pos \in 0 .. (BufSize - 1)
  /\ environ_buffer[BufSize - 1] = Nul

\* What the child prints of the first k variables, of lengths g, when nothing goes
\* wrong: cell j of the record of variable i, or after its last one the Nul, is <<i, j>>.
Printed(g, k) ==
  UNION {{i} \X (0 .. (g[Vars[i]] + 1)) : i \in {i \in 1 .. k : g[Vars[i]] >= 0}}
OutputLength == Cardinality(Printed(given, Len(Vars)))

\* "look in the output for updated values of LD_LIBRARY_PATH, CLASSPATH, and
\* LIBHDFS_OPTS" (README.md): as long as the output fits one fgets, when
\* DetermineEnvironment returns 0 the server has the values the child had,
\* whole; signals in the middle of a write may make it fail, but not make it
\* succeed with less.
EnvironmentArrives ==
  (server = "done" /\ rc = 0 /\ OutputLength <= BufSize - 2) =>
    \A v \in Names : env[v] = IF given[v] < 0 THEN Unset ELSE Value(v, given[v])

\* The start-up comes to an end: the child is not left waiting on a full pipe,
\* nor the server on an empty one.
BootstrapEnds == <>(server = "done")
=============================================================================
