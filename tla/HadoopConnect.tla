---------------------------- MODULE HadoopConnect ----------------------------
(***************************************************************************)
(* How an operation of the plugin gets its HDFS handle (XrdHdfs.cc):       *)
(* ExtractAuthName, the cache of hadoop_connect under g_fs_mutex, and the  *)
(* second cache that Stat keeps in m_cmsd_fs, under m_fs_mutex, for the    *)
(* client-less calls of the cmsd.  m_fs_mutex is held across               *)
(* hadoop_connect, and g_fs_mutex across hdfsConnectAsUserNewInstance.     *)
(*                                                                         *)
(* Every other operation (Open, Opendir, Chmod, Mkdir, Unlink, ...) calls  *)
(* hadoop_connect(client) and nothing else, so they are one "other".       *)
(* With REUSE_CONNECTION defined hadoop_disconnect does nothing: a handle  *)
(* is never closed.  Handles are numbered from 1; 0 is NULL.               *)
(***************************************************************************)
EXTENDS Naturals, Sequences

CONSTANTS
  Threads,     \* server threads
  NameLength,  \* NameLength[u]: the length of user name u
  Clients,     \* the XrdOucEnv objects that calls may carry
  Root,        \* "root"
  Nobody,      \* "nobody"
  MaxConns,    \* bound: handles HDFS gives out
  NULL

Names == DOMAIN NameLength

\* What ExtractAuthName looks at: is there a security entity, its "request.name"
\* attribute and its name (each NULL if absent).
Env == [secEnv : BOOLEAN, request : Names \cup {NULL}, name : Names \cup {NULL}]

ASSUME ThreadsAssumption == NULL \notin Threads
ASSUME NamesAssumption ==
  /\ NameLength \in [Names -> Nat]
  /\ Root \in Names /\ Nobody \in Names /\ Root # Nobody /\ NULL \notin Names
ASSUME ClientsAssumption == Clients \subseteq Env /\ NULL \notin Clients
ASSUME ConnsAssumption == MaxConns \in Nat

VARIABLES
  g_fs_map,    \* g_fs_map[u]: u's handle, 0 if u is not in the map
  g_fs_mutex,  \* its holder, or NULL
  m_cmsd_fs,   \* the cmsd's handle
  m_fs_mutex,  \* its holder, or NULL
  conns,       \* conns[i]: the user as whom HDFS opened handle i
  call         \* call[t]: what thread t is doing

vars == <<g_fs_map, g_fs_mutex, m_cmsd_fs, m_fs_mutex, conns, call>>

\* op: "stat" or "other"; client: its env argument; user: the name it
\* connects as; fs: the handle it got.
Idle == [pc |-> "idle", op |-> "other", client |-> NULL, user |-> Nobody, fs |-> 0]

Init ==
  /\ g_fs_map = [u \in Names |-> 0]
  /\ g_fs_mutex = NULL
  /\ m_cmsd_fs = 0
  /\ m_fs_mutex = NULL
  /\ conns = << >>
  /\ call = [t \in Threads |-> Idle]
----------------------------------------------------------------------------
\* Mutant: the entity's name is taken although it has none.
ExtractAuthNameUnchecked(client) ==
  IF client = NULL THEN Nobody
  ELSE IF ~client.secEnv THEN Nobody
  ELSE IF client.request # NULL /\ NameLength[client.request] > 1 THEN client.request
  ELSE client.name

\* Mutant: the length test is off by one more, so a name of two characters is
\* ignored too.
ExtractAuthNameLonger(client) ==
  IF client = NULL THEN Nobody
  ELSE IF ~client.secEnv THEN Nobody
  ELSE IF client.request # NULL /\ NameLength[client.request] > 2 THEN client.request
  ELSE IF client.name # NULL THEN client.name
  ELSE Nobody

\* The test of the length is "> 1", so an attribute of one character is ignored
\* like a blank one.
ExtractAuthName(client) ==
  IF client = NULL THEN Nobody
  ELSE IF ~client.secEnv THEN Nobody
  ELSE IF client.request # NULL /\ NameLength[client.request] > 1 THEN client.request
  ELSE IF client.name # NULL THEN client.name
  ELSE Nobody

\* Mutant: every Stat is taken for the cmsd's.
IsCmsdAnyStat(op, client) == op = "stat"

\* Stat without a client: the cmsd is asking.
IsCmsd(op, client) == op = "stat" /\ client = NULL

\* The user an operation connects as.
ConnectsAs(op, client) ==
  IF IsCmsd(op, client) THEN Root ELSE ExtractAuthName(client)

\* An operation starts and is about to take its first mutex.
Call(t, op, client) ==
  /\ call[t].pc = "idle"
  /\ call' = [call EXCEPT ![t] =
                [pc |-> IF IsCmsd(op, client) THEN "stat" ELSE "find",
                 op |-> op, client |-> client,
                 user |-> ConnectsAs(op, client), fs |-> 0]]
  /\ UNCHANGED <<g_fs_map, g_fs_mutex, m_cmsd_fs, m_fs_mutex, conns>>

\* Stat takes m_fs_mutex and finds the cmsd's handle: it is released at once.
CmsdKnown(t) ==
  /\ call[t].pc = "stat"
  /\ m_fs_mutex = NULL
  /\ m_cmsd_fs # 0
  /\ call' = [call EXCEPT ![t].pc = "done", ![t].fs = m_cmsd_fs]
  /\ UNCHANGED <<g_fs_map, g_fs_mutex, m_cmsd_fs, m_fs_mutex, conns>>

\* Stat takes m_fs_mutex, finds none and calls hadoop_connect with it held.
CmsdUnknown(t) ==
  /\ call[t].pc = "stat"
  /\ m_fs_mutex = NULL
  /\ m_cmsd_fs = 0
  /\ m_fs_mutex' = t
  /\ call' = [call EXCEPT ![t].pc = "find"]
  /\ UNCHANGED <<g_fs_map, g_fs_mutex, m_cmsd_fs, conns>>

\* Mutant: a Stat with a client stores its handle in m_cmsd_fs too.
CallerAnyStat(t) == IF call[t].op = "stat" THEN "store" ELSE "done"

\* Where hadoop_connect returns to.
Caller(t) == IF m_fs_mutex = t THEN "store" ELSE "done"

\* Mutant: the handle found is not returned.
FindKnownForgets(t) ==
  /\ call[t].pc = "find"
  /\ g_fs_mutex = NULL
  /\ g_fs_map[call[t].user] # 0
  /\ call' = [call EXCEPT ![t].pc = Caller(t)]
  /\ UNCHANGED <<g_fs_map, g_fs_mutex, m_cmsd_fs, m_fs_mutex, conns>>

\* hadoop_connect takes g_fs_mutex and finds the user in the map.
FindKnown(t) ==
  /\ call[t].pc = "find"
  /\ g_fs_mutex = NULL
  /\ g_fs_map[call[t].user] # 0
  /\ call' = [call EXCEPT ![t].pc = Caller(t), ![t].fs = g_fs_map[call[t].user]]
  /\ UNCHANGED <<g_fs_map, g_fs_mutex, m_cmsd_fs, m_fs_mutex, conns>>

\* Mutant: the mutex is released before the connection is made.
FindUnknownUnlocks(t) ==
  /\ call[t].pc = "find"
  /\ g_fs_mutex = NULL
  /\ g_fs_map[call[t].user] = 0
  /\ call' = [call EXCEPT ![t].pc = "connect"]
  /\ UNCHANGED <<g_fs_map, g_fs_mutex, m_cmsd_fs, m_fs_mutex, conns>>

\* hadoop_connect takes g_fs_mutex, does not find the user, and keeps the
\* mutex while it connects.
FindUnknown(t) ==
  /\ call[t].pc = "find"
  /\ g_fs_mutex = NULL
  /\ g_fs_map[call[t].user] = 0
  /\ g_fs_mutex' = t
  /\ call' = [call EXCEPT ![t].pc = "connect"]
  /\ UNCHANGED <<g_fs_map, m_cmsd_fs, m_fs_mutex, conns>>

\* hdfsConnectAsUserNewInstance gives a handle, which enters the map unless
\* the user is there already (std::map::insert keeps the old entry).
Connected(t) ==
  LET u == call[t].user
      fs == Len(conns) + 1 IN
  /\ call[t].pc = "connect"
  /\ Len(conns) < MaxConns
  /\ conns' = Append(conns, u)
  /\ g_fs_map' = [g_fs_map EXCEPT ![u] = IF @ = 0 THEN fs ELSE @]
  /\ g_fs_mutex' = NULL
  /\ call' = [call EXCEPT ![t].pc = Caller(t), ![t].fs = fs]
  /\ UNCHANGED <<m_cmsd_fs, m_fs_mutex>>

\* Mutant: hadoop_connect tries again until HDFS answers.
ConnectRetries(t) ==
  /\ call[t].pc = "connect"
  /\ g_fs_mutex' = NULL
  /\ call' = [call EXCEPT ![t].pc = "find"]
  /\ UNCHANGED <<g_fs_map, m_cmsd_fs, m_fs_mutex, conns>>

\* It fails: nothing is cached, hadoop_connect returns NULL.
ConnectFailed(t) ==
  /\ call[t].pc = "connect"
  /\ g_fs_mutex' = NULL
  /\ call' = [call EXCEPT ![t].pc = Caller(t)]
  /\ UNCHANGED <<g_fs_map, m_cmsd_fs, m_fs_mutex, conns>>

\* Stat stores what hadoop_connect returned, NULL too, and leaves the block.
CmsdStore(t) ==
  /\ call[t].pc = "store"
  /\ m_cmsd_fs' = call[t].fs
  /\ m_fs_mutex' = NULL
  /\ call' = [call EXCEPT ![t].pc = "done"]
  /\ UNCHANGED <<g_fs_map, g_fs_mutex, conns>>

\* The operation does its work on the handle, or reports EIO, and returns.
Return(t) ==
  /\ call[t].pc = "done"
  /\ call' = [call EXCEPT ![t] = Idle]
  /\ UNCHANGED <<g_fs_map, g_fs_mutex, m_cmsd_fs, m_fs_mutex, conns>>

Step(t) ==
  \/ CmsdKnown(t)
  \/ CmsdUnknown(t)
  \/ FindKnown(t)
  \/ FindUnknown(t)
  \/ Connected(t)
  \/ ConnectFailed(t)
  \/ CmsdStore(t)
  \/ Return(t)

Next ==
  \E t \in Threads :
    \/ \E op \in {"stat", "other"}, client \in Clients \cup {NULL} : Call(t, op, client)
    \/ Step(t)

Spec == Init /\ [][Next]_vars

\* A thread that can run does; nobody is obliged to call.  Nothing is assumed
\* of the order in which a mutex serves the threads that wait for it.
FairSpec == Spec /\ \A t \in Threads : WF_vars(Step(t))
----------------------------------------------------------------------------
CallRecord ==
  [pc : {"idle", "stat", "find", "connect", "store", "done"},
   op : {"stat", "other"}, client : Clients \cup {NULL}, user : Names, fs : Nat]

\* Every variable has its type.
TypeOK ==
  /\ g_fs_map \in [Names -> Nat]
  /\ g_fs_mutex \in Threads \cup {NULL}
  /\ m_cmsd_fs \in Nat
  /\ m_fs_mutex \in Threads \cup {NULL}
  /\ conns \in Seq(Names)
  /\ call \in [Threads -> CallRecord]

\* Every handle HDFS ever gave out is the one its user has in the map: no
\* user gets two handles however many threads connect at once, and none is
\* lost (each costs a client of the Java library for the process's lifetime).
NoOrphanHandle == \A i \in 1 .. Len(conns) : g_fs_map[conns[i]] = i

\* A caller has been authenticated as somebody: "request.name" if that "is not
\* blank", as the comment in ExtractAuthName puts it, or else the entity's name.
IsBlank(name) == name = NULL \/ NameLength[name] = 0
HasRequestName(client) == client # NULL /\ client.secEnv /\ ~IsBlank(client.request)
HasEntityName(client) == client # NULL /\ client.secEnv /\ client.name # NULL

\* The user an operation of this client should be.
Rightful(op, client) ==
  CASE HasRequestName(client) -> client.request
    [] ~HasRequestName(client) /\ HasEntityName(client) -> client.name
    [] OTHER -> IF op = "stat" /\ client = NULL THEN Root ELSE Nobody

\* The one client whom the code does not serve by that rule.
RequestNameOfOne(client) == HasRequestName(client) /\ NameLength[client.request] = 1

\* An operation that has a handle works as the user it should be: the name in
\* the request unless that is blank, else the authenticated entity's, "nobody"
\* without one, and root for a client-less call only if it is a Stat ("not Open
\* or OpenDir - those should remain 'nobody'").  A request.name of one character
\* is the exception: it is not blank and yet ignored, and the operation works
\* as the entity's own name, or as "nobody" if that is missing.
ActsAsCaller ==
  \A t \in Threads : call[t].fs # 0 =>
    LET client == call[t].client IN
    /\ call[t].fs <= Len(conns)
    /\ \/ conns[call[t].fs] = Rightful(call[t].op, client)
       \/ /\ RequestNameOfOne(client)
          /\ conns[call[t].fs] = IF HasEntityName(client) THEN client.name ELSE Nobody

\* The cmsd's static handle is the one the map has for root, so a Stat of a
\* client that is root and a Stat of the cmsd share a connection.
CmsdHandleIsRoots == m_cmsd_fs # 0 => m_cmsd_fs = g_fs_map[Root]

\* Threads are never all stuck: whenever one is inside the code, one gets
\* through, although m_fs_mutex is held while g_fs_mutex is taken and
\* g_fs_mutex while HDFS connects.
SomebodyGetsThrough ==
  (\E t \in Threads : call[t].pc # "idle") ~> (\E t \in Threads : call[t].pc = "done")

\* The phases of the abstract cache.
Phase(t) ==
  CASE call[t].pc = "idle" -> "idle"
    [] call[t].pc \in {"stat", "find", "connect"} -> "asked"
    [] OTHER -> "answered"

Cache == INSTANCE ConnectionCache WITH
  cache <- g_fs_map,
  phase <- [t \in Threads |-> Phase(t)],
  user <- [t \in Threads |-> call[t].user],
  answer <- [t \in Threads |-> call[t].fs]

\* The two caches and their two mutexes look to every caller like one atomic
\* table: hadoop_connect's map and Stat's m_cmsd_fs implement ConnectionCache.
ImplementsCache == Cache!CacheSpec
=============================================================================
