------------------------- MODULE HadoopConnectProofs -------------------------
(***************************************************************************)
(* The safety of the connection cache for any number of threads, users and *)
(* clients, and that it implements ConnectionCache.                        *)
(***************************************************************************)
EXTENDS HadoopConnect, TLAPS

\* Who holds which mutex: a thread holds g_fs_mutex exactly while it connects,
\* and m_fs_mutex only inside Stat's block for the cmsd.
LocksHeld ==
  \A t \in Threads :
    /\ call[t].pc = "connect" <=> g_fs_mutex = t
    /\ m_fs_mutex = t => call[t].pc \in {"find", "connect", "store"} /\ call[t].user = Root
    /\ call[t].pc = "store" => m_fs_mutex = t

\* What a call has worked out so far.
CallConsistent ==
  \A t \in Threads :
    /\ call[t].user = ConnectsAs(call[t].op, call[t].client)
    /\ call[t].pc = "idle" => call[t] = Idle
    /\ call[t].pc = "stat" => call[t].user = Root
    /\ call[t].pc = "connect" => g_fs_map[call[t].user] = 0
    /\ call[t].fs # 0 => call[t].pc \in {"store", "done"}
    /\ call[t].fs # 0 => call[t].fs = g_fs_map[call[t].user]

\* The map and the list of handles are inverse to each other.
MapConsistent ==
  /\ \A u \in Names : g_fs_map[u] # 0 =>
       g_fs_map[u] \in 1 .. Len(conns) /\ conns[g_fs_map[u]] = u
  /\ NoOrphanHandle

\* The inductive invariant.
Inv ==
  /\ TypeOK
  /\ LocksHeld
  /\ CallConsistent
  /\ MapConsistent
  /\ CmsdHandleIsRoots

USE NamesAssumption, ClientsAssumption, ThreadsAssumption

\* ExtractAuthName always yields a user name, and so does every operation.
LEMMA ConnectsAsType ==
  ASSUME NEW op \in {"stat", "other"}, NEW client \in Clients \cup {NULL}
  PROVE  ConnectsAs(op, client) \in Names
<1>1. ExtractAuthName(client) \in Names
  <2>1. CASE client = NULL
    BY <2>1 DEF ExtractAuthName
  <2>2. CASE client # NULL
    <3>1. client \in Env
      BY <2>2
    <3>2. QED
      BY <2>2, <3>1 DEF ExtractAuthName, Env
  <2>3. QED BY <2>1, <2>2
<1>2. QED BY <1>1 DEF ConnectsAs

\* What a step that answers thread t does to the calls.
LEMMA AnswerUpdate ==
  ASSUME NEW t \in Threads, NEW pc \in {"store", "done"}, NEW fs \in Nat,
         call \in [Threads -> CallRecord],
         call' = [call EXCEPT ![t].pc = pc, ![t].fs = fs]
  PROVE  /\ call' \in [Threads -> CallRecord]
         /\ call'[t].pc = pc /\ call'[t].fs = fs /\ call'[t].user = call[t].user
         /\ \A u \in Threads \ {t} : call'[u] = call[u]
<1>1. call[t] \in CallRecord
  OBVIOUS
<1>2. call'[t] = [call[t] EXCEPT !.pc = pc, !.fs = fs]
  BY DEF CallRecord
<1>3. call'[t] \in CallRecord
  BY <1>1, <1>2 DEF CallRecord
<1>4. \A u \in Threads \ {t} : call'[u] = call[u]
  BY DEF CallRecord
<1>5. call'[t].pc = pc /\ call'[t].fs = fs /\ call'[t].user = call[t].user
  BY <1>1, <1>2 DEF CallRecord
<1>6. QED BY <1>1, <1>3, <1>4, <1>5

\* What a step that only moves thread t on does to the calls.
LEMMA MoveUpdate ==
  ASSUME NEW t \in Threads,
         NEW pc \in {"idle", "stat", "find", "connect", "store", "done"},
         call \in [Threads -> CallRecord],
         call' = [call EXCEPT ![t].pc = pc]
  PROVE  /\ call' \in [Threads -> CallRecord]
         /\ call'[t].pc = pc /\ call'[t].fs = call[t].fs /\ call'[t].user = call[t].user
         /\ \A u \in Threads \ {t} : call'[u] = call[u]
<1>1. call[t] \in CallRecord
  OBVIOUS
<1>2. call'[t] = [call[t] EXCEPT !.pc = pc]
  BY DEF CallRecord
<1>3. call'[t] \in CallRecord
  BY <1>1, <1>2 DEF CallRecord
<1>4. \A u \in Threads \ {t} : call'[u] = call[u]
  BY DEF CallRecord
<1>5. call'[t].pc = pc /\ call'[t].fs = call[t].fs /\ call'[t].user = call[t].user
  BY <1>1, <1>2 DEF CallRecord
<1>6. QED BY <1>1, <1>3, <1>4, <1>5

\* The constructor's state satisfies the invariant.
LEMMA InitInv == Init => Inv
<1> SUFFICES ASSUME Init PROVE Inv
  OBVIOUS
<1>1. Idle \in CallRecord
  BY DEF Idle, CallRecord
<1>2. TypeOK
  BY <1>1 DEF Init, TypeOK
<1>3. LocksHeld
  BY DEF Init, LocksHeld, Idle
<1>4. CallConsistent
  BY DEF Init, CallConsistent, Idle, ConnectsAs, IsCmsd, ExtractAuthName
<1>5. MapConsistent /\ CmsdHandleIsRoots
  BY DEF Init, MapConsistent, NoOrphanHandle, CmsdHandleIsRoots
<1>6. QED BY <1>2, <1>3, <1>4, <1>5 DEF Inv

\* A step of any operation of any thread preserves the invariant.
LEMMA NextInv == Inv /\ [Next]_vars => Inv'
<1> SUFFICES ASSUME Inv, [Next]_vars PROVE Inv'
  OBVIOUS
<1> USE DEF Inv
<1>1. ASSUME NEW t \in Threads, NEW op \in {"stat", "other"},
             NEW client \in Clients \cup {NULL}, Call(t, op, client)
      PROVE  Inv'
  <2>1. ConnectsAs(op, client) \in Names
    BY ConnectsAsType
  <2>2. TypeOK'
    BY <1>1, <2>1 DEF TypeOK, CallRecord, Call
  <2>3. LocksHeld'
    BY <1>1 DEF TypeOK, CallRecord, Call, LocksHeld
  <2>4. CallConsistent'
    BY <1>1 DEF TypeOK, CallRecord, Call, CallConsistent, ConnectsAs
  <2>5. MapConsistent' /\ CmsdHandleIsRoots'
    BY <1>1 DEF Call, MapConsistent, NoOrphanHandle, CmsdHandleIsRoots
  <2>6. QED BY <2>2, <2>3, <2>4, <2>5
<1>2. ASSUME NEW t \in Threads, CmsdKnown(t) PROVE Inv'
  <2>1. TypeOK'
    <3>1. call' \in [Threads -> CallRecord]
      BY <1>2, AnswerUpdate DEF TypeOK, CmsdKnown
    <3>2. UNCHANGED <<g_fs_map, g_fs_mutex, m_cmsd_fs, m_fs_mutex, conns>>
      BY <1>2 DEF TypeOK, CallRecord, CmsdKnown
    <3>3. QED BY <3>1, <3>2 DEF TypeOK
  <2>2. LocksHeld'
    BY <1>2 DEF TypeOK, CallRecord, CmsdKnown, LocksHeld
  <2>3. CallConsistent'
    BY <1>2 DEF TypeOK, CallRecord, CmsdKnown, CallConsistent, CmsdHandleIsRoots
  <2>4. MapConsistent' /\ CmsdHandleIsRoots'
    BY <1>2 DEF CmsdKnown, MapConsistent, NoOrphanHandle, CmsdHandleIsRoots
  <2>5. QED BY <2>1, <2>2, <2>3, <2>4
<1>3. ASSUME NEW t \in Threads, CmsdUnknown(t) PROVE Inv'
  <2>1. TypeOK'
    <3>1. call' \in [Threads -> CallRecord]
      BY <1>3, MoveUpdate DEF TypeOK, CmsdUnknown
    <3>2. m_fs_mutex' \in Threads /\ UNCHANGED <<g_fs_map, g_fs_mutex, m_cmsd_fs, conns>>
      BY <1>3 DEF TypeOK, CallRecord, CmsdUnknown
    <3>3. QED BY <3>1, <3>2 DEF TypeOK
  <2>2. LocksHeld'
    BY <1>3 DEF TypeOK, CallRecord, CmsdUnknown, LocksHeld, CallConsistent
  <2>3. CallConsistent'
    BY <1>3 DEF TypeOK, CallRecord, CmsdUnknown, CallConsistent
  <2>4. MapConsistent' /\ CmsdHandleIsRoots'
    BY <1>3 DEF CmsdUnknown, MapConsistent, NoOrphanHandle, CmsdHandleIsRoots
  <2>5. QED BY <2>1, <2>2, <2>3, <2>4
<1>4. ASSUME NEW t \in Threads, FindKnown(t) PROVE Inv'
  <2>0. Caller(t) \in {"store", "done"} /\ g_fs_map[call[t].user] \in Nat
    BY DEF TypeOK, CallRecord, Caller
  <2>1. TypeOK'
    BY <1>4, <2>0, AnswerUpdate DEF TypeOK, FindKnown
  <2>2. LocksHeld'
    BY <1>4 DEF TypeOK, CallRecord, FindKnown, Caller, LocksHeld
  <2>3. CallConsistent'
    BY <1>4 DEF TypeOK, CallRecord, FindKnown, Caller, CallConsistent
  <2>4. MapConsistent' /\ CmsdHandleIsRoots'
    BY <1>4 DEF FindKnown, MapConsistent, NoOrphanHandle, CmsdHandleIsRoots
  <2>5. QED BY <2>1, <2>2, <2>3, <2>4
<1>5. ASSUME NEW t \in Threads, FindUnknown(t) PROVE Inv'
  <2>1. TypeOK'
    <3>1. call' \in [Threads -> CallRecord]
      BY <1>5, MoveUpdate DEF TypeOK, FindUnknown
    <3>2. g_fs_mutex' \in Threads /\ UNCHANGED <<g_fs_map, m_cmsd_fs, m_fs_mutex, conns>>
      BY <1>5 DEF TypeOK, CallRecord, FindUnknown
    <3>3. QED BY <3>1, <3>2 DEF TypeOK
  <2>2. LocksHeld'
    BY <1>5 DEF TypeOK, CallRecord, FindUnknown, LocksHeld
  <2>3. CallConsistent'
    BY <1>5 DEF TypeOK, CallRecord, FindUnknown, CallConsistent
  <2>4. MapConsistent' /\ CmsdHandleIsRoots'
    BY <1>5 DEF FindUnknown, MapConsistent, NoOrphanHandle, CmsdHandleIsRoots
  <2>5. QED BY <2>1, <2>2, <2>3, <2>4
<1>6. ASSUME NEW t \in Threads, Connected(t) PROVE Inv'
  <2> DEFINE u == call[t].user
             new == Len(conns) + 1
  <2>1. /\ u \in Names
        /\ g_fs_map[u] = 0
        /\ g_fs_mutex = t
        /\ conns \in Seq(Names) /\ new \in Nat \ {0}
        /\ g_fs_map \in [Names -> Nat]
    BY <1>6 DEF TypeOK, CallRecord, Connected, CallConsistent, LocksHeld
  <2>2. /\ g_fs_map' = [g_fs_map EXCEPT ![u] = new]
        /\ conns' = Append(conns, u)
        /\ call' = [call EXCEPT ![t].pc = Caller(t), ![t].fs = new]
        /\ g_fs_mutex' = NULL
        /\ UNCHANGED <<m_cmsd_fs, m_fs_mutex>>
    BY <1>6, <2>1 DEF Connected
  <2>3. TypeOK'
    <3>1. Caller(t) \in {"store", "done"}
      BY DEF Caller
    <3>2. call' \in [Threads -> CallRecord]
      BY <2>1, <2>2, <3>1, AnswerUpdate DEF TypeOK
    <3>3. conns' \in Seq(Names) /\ g_fs_map' \in [Names -> Nat]
      BY <2>1, <2>2
    <3>4. QED BY <2>2, <3>2, <3>3 DEF TypeOK
  <2>4. LocksHeld'
    BY <1>6, <2>1, <2>2 DEF TypeOK, CallRecord, Connected, Caller, LocksHeld
  <2>5. CallConsistent'
    BY <1>6, <2>1, <2>2 DEF TypeOK, CallRecord, Connected, Caller, CallConsistent, LocksHeld
  <2>6. MapConsistent'
    <3>1. /\ Len(conns') = new /\ conns'[new] = u
          /\ \A i \in 1 .. Len(conns) : conns'[i] = conns[i]
      BY <2>1, <2>2
    <3>2. ASSUME NEW v \in Names, g_fs_map'[v] # 0
          PROVE  g_fs_map'[v] \in 1 .. Len(conns') /\ conns'[g_fs_map'[v]] = v
      <4>1. CASE v = u
        BY <2>1, <2>2, <3>1, <4>1
      <4>2. CASE v # u
        <5>1. g_fs_map'[v] = g_fs_map[v]
          BY <2>1, <2>2, <4>2
        <5>2. g_fs_map[v] \in 1 .. Len(conns) /\ conns[g_fs_map[v]] = v
          BY <3>2, <5>1 DEF MapConsistent
        <5>3. QED BY <2>1, <3>1, <5>1, <5>2
      <4>3. QED BY <4>1, <4>2
    <3>3. ASSUME NEW i \in 1 .. Len(conns') PROVE g_fs_map'[conns'[i]] = i
      <4>1. CASE i = new
        BY <2>1, <2>2, <3>1, <4>1
      <4>2. CASE i # new
        <5>1. i \in 1 .. Len(conns) /\ conns[i] \in Names /\ conns'[i] = conns[i]
          BY <2>1, <3>1, <3>3, <4>2
        <5>2. g_fs_map[conns[i]] = i /\ i # 0
          BY <5>1 DEF MapConsistent, NoOrphanHandle
        <5>3. QED BY <2>1, <2>2, <5>1, <5>2
      <4>3. QED BY <4>1, <4>2
    <3>4. QED BY <3>2, <3>3 DEF MapConsistent, NoOrphanHandle
  <2>7. CmsdHandleIsRoots'
    BY <2>1, <2>2 DEF TypeOK, CmsdHandleIsRoots
  <2>8. QED BY <2>3, <2>4, <2>5, <2>6, <2>7
<1>7. ASSUME NEW t \in Threads, ConnectFailed(t) PROVE Inv'
  <2>1. TypeOK'
    <3>1. Caller(t) \in {"store", "done"}
      BY DEF Caller
    <3>2. call' \in [Threads -> CallRecord]
      <4>1. call' = [call EXCEPT ![t].pc = Caller(t)]
        BY <1>7 DEF ConnectFailed
      <4>2. QED BY <3>1, <4>1, ZenonT(30) DEF TypeOK, CallRecord
    <3>3. g_fs_mutex' = NULL /\ UNCHANGED <<g_fs_map, m_cmsd_fs, m_fs_mutex, conns>>
      BY <1>7 DEF ConnectFailed
    <3>4. QED BY <3>2, <3>3 DEF TypeOK
  <2>2. LocksHeld'
    BY <1>7 DEF TypeOK, CallRecord, ConnectFailed, Caller, LocksHeld
  <2>3. CallConsistent'
    BY <1>7 DEF TypeOK, CallRecord, ConnectFailed, Caller, CallConsistent
  <2>4. MapConsistent' /\ CmsdHandleIsRoots'
    BY <1>7 DEF ConnectFailed, MapConsistent, NoOrphanHandle, CmsdHandleIsRoots
  <2>5. QED BY <2>1, <2>2, <2>3, <2>4
<1>8. ASSUME NEW t \in Threads, CmsdStore(t) PROVE Inv'
  <2>1. TypeOK'
    <3>1. call' \in [Threads -> CallRecord]
      BY <1>8, MoveUpdate DEF TypeOK, CmsdStore
    <3>2. /\ m_cmsd_fs' \in Nat /\ m_fs_mutex' = NULL
          /\ UNCHANGED <<g_fs_map, g_fs_mutex, conns>>
      BY <1>8 DEF TypeOK, CallRecord, CmsdStore
    <3>3. QED BY <3>1, <3>2 DEF TypeOK
  <2>2. LocksHeld'
    BY <1>8 DEF TypeOK, CallRecord, CmsdStore, LocksHeld
  <2>3. CallConsistent'
    BY <1>8, SMTT(30) DEF TypeOK, CallRecord, CmsdStore, CallConsistent
  <2>4. MapConsistent'
    BY <1>8 DEF CmsdStore, MapConsistent, NoOrphanHandle
  <2>5. CmsdHandleIsRoots'
    BY <1>8 DEF TypeOK, CmsdStore, CmsdHandleIsRoots, CallConsistent, LocksHeld
  <2>6. QED BY <2>1, <2>2, <2>3, <2>4, <2>5
<1>9. ASSUME NEW t \in Threads, Return(t) PROVE Inv'
  <2>1. TypeOK'
    BY <1>9 DEF TypeOK, CallRecord, Return, Idle
  <2>2. LocksHeld'
    BY <1>9 DEF TypeOK, CallRecord, Return, Idle, LocksHeld
  <2>3. CallConsistent'
    BY <1>9, SMTT(30) DEF TypeOK, CallRecord, Return, Idle, CallConsistent, ConnectsAs,
                IsCmsd, ExtractAuthName
  <2>4. MapConsistent' /\ CmsdHandleIsRoots'
    BY <1>9 DEF Return, MapConsistent, NoOrphanHandle, CmsdHandleIsRoots
  <2>5. QED BY <2>1, <2>2, <2>3, <2>4
<1>10. CASE UNCHANGED vars
  BY <1>10 DEF vars, TypeOK, LocksHeld, CallConsistent, MapConsistent,
               NoOrphanHandle, CmsdHandleIsRoots
<1>11. QED
  BY <1>1, <1>2, <1>3, <1>4, <1>5, <1>6, <1>7, <1>8, <1>9, <1>10 DEF Next, Step

\* The invariant holds in every reachable state.
THEOREM InvHolds == Spec => []Inv
BY InitInv, NextInv, PTL DEF Spec

\* Every variable keeps its type; in particular every operation connects as
\* some user, whatever ExtractAuthName finds.
THEOREM TypeCorrect == Spec => []TypeOK
<1>1. Inv => TypeOK
  BY DEF Inv
<1>2. QED BY InvHolds, <1>1, PTL

\* Every handle HDFS gave out is the one its user has in the map.
THEOREM HandlesKept == Spec => []NoOrphanHandle
<1>1. Inv => NoOrphanHandle
  BY DEF Inv, MapConsistent
<1>2. QED BY InvHolds, <1>1, PTL

\* The user an operation connects as is the one it should be, but for the
\* clients whose request.name has one character.
LEMMA ConnectsAsRightful ==
  ASSUME NEW op \in {"stat", "other"}, NEW client \in Clients \cup {NULL}
  PROVE  \/ ConnectsAs(op, client) = Rightful(op, client)
         \/ /\ RequestNameOfOne(client)
            /\ ConnectsAs(op, client) = IF HasEntityName(client) THEN client.name ELSE Nobody
<1>1. CASE client = NULL
  BY <1>1 DEF ConnectsAs, Rightful, IsCmsd, ExtractAuthName, HasRequestName, HasEntityName
<1>2. CASE client # NULL /\ ~HasRequestName(client)
  <2>1. client \in Env
    BY <1>2, ClientsAssumption
  <2>2. client.secEnv /\ client.request # NULL => ~(NameLength[client.request] > 1)
    BY <1>2, <2>1, NamesAssumption DEF HasRequestName, IsBlank, Env
  <2>3. QED
    BY <1>2, <2>2 DEF ConnectsAs, Rightful, IsCmsd, ExtractAuthName, HasEntityName
<1>3. CASE client # NULL /\ HasRequestName(client)
  <2>1. client \in Env /\ client.request \in Names /\ client.secEnv
    BY <1>3, ClientsAssumption DEF HasRequestName, IsBlank, Env
  <2>2. NameLength[client.request] = 1 \/ NameLength[client.request] > 1
    BY <1>3, <2>1, NamesAssumption DEF HasRequestName, IsBlank
  <2>3. CASE NameLength[client.request] > 1
    BY <1>3, <2>1, <2>3, NamesAssumption DEF ConnectsAs, Rightful, IsCmsd, ExtractAuthName
  <2>4. CASE NameLength[client.request] = 1
    BY <1>3, <2>1, <2>4, NamesAssumption
       DEF ConnectsAs, IsCmsd, ExtractAuthName, RequestNameOfOne, HasEntityName
  <2>5. QED BY <2>2, <2>3, <2>4
<1>4. QED BY <1>1, <1>2, <1>3

\* No operation works on the handle of a user it should not be, but for the
\* exception that ActsAsCaller states.
THEOREM CallersSafe == Spec => []ActsAsCaller
<1>1. Inv => ActsAsCaller
  <2> SUFFICES ASSUME Inv, NEW t \in Threads, call[t].fs # 0
               PROVE  /\ call[t].fs <= Len(conns)
                      /\ \/ conns[call[t].fs] = Rightful(call[t].op, call[t].client)
                         \/ /\ RequestNameOfOne(call[t].client)
                            /\ conns[call[t].fs] = IF HasEntityName(call[t].client)
                                                    THEN call[t].client.name ELSE Nobody
    BY DEF ActsAsCaller
  <2>1. /\ call[t].user \in Names /\ conns \in Seq(Names)
        /\ call[t].fs = g_fs_map[call[t].user]
        /\ call[t].user = ConnectsAs(call[t].op, call[t].client)
        /\ call[t].op \in {"stat", "other"} /\ call[t].client \in Clients \cup {NULL}
    BY DEF Inv, TypeOK, CallRecord, CallConsistent
  <2>2. call[t].fs <= Len(conns) /\ conns[call[t].fs] = call[t].user
    BY <2>1 DEF Inv, MapConsistent
  <2>3. QED
    BY <2>1, <2>2, ConnectsAsRightful
<1>2. QED BY InvHolds, <1>1, PTL

\* The static handle of the cmsd is root's handle of the map.
THEOREM CmsdShares == Spec => []CmsdHandleIsRoots
<1>1. Inv => CmsdHandleIsRoots
  BY DEF Inv
<1>2. QED BY InvHolds, <1>1, PTL

----------------------------------------------------------------------------
(***************************************************************************)
(* Refinement                                                              *)
(***************************************************************************)

\* The empty caches are the abstract cache's initial state.
LEMMA InitRefines == Init => Cache!CacheInit
BY DEF Init, Idle, Phase, Cache!CacheInit

\* Every step is a step of the abstract cache or leaves it as it is.
LEMMA NextRefines == Inv /\ [Next]_vars => [Cache!CacheNext]_(Cache!cacheVars)
<1> SUFFICES ASSUME Inv, [Next]_vars
             PROVE  Cache!CacheNext \/ UNCHANGED Cache!cacheVars
  OBVIOUS
<1> USE DEF Inv
<1> DEFINE ph == [t \in Threads |-> Phase(t)]
           us == [t \in Threads |-> call[t].user]
           an == [t \in Threads |-> call[t].fs]
<1>1. ASSUME NEW t \in Threads, NEW op \in {"stat", "other"},
             NEW client \in Clients \cup {NULL}, Call(t, op, client)
      PROVE  Cache!CacheNext
  <2>1. ConnectsAs(op, client) \in Names
    BY ConnectsAsType
  <2>2. call[t].fs = 0
    BY <1>1 DEF Call, CallConsistent, Idle
  <2>3. ph' = [ph EXCEPT ![t] = "asked"] /\ ph[t] = "idle"
    BY <1>1 DEF TypeOK, Call, Phase
  <2>4. us' = [us EXCEPT ![t] = ConnectsAs(op, client)]
    BY <1>1 DEF TypeOK, Call
  <2>5. an' = an
    BY <1>1, <2>2 DEF TypeOK, Call
  <2>6. Cache!Ask(t, ConnectsAs(op, client))
    BY <1>1, <2>3, <2>4, <2>5 DEF Call, Cache!Ask
  <2>7. QED BY <2>1, <2>6 DEF Cache!CacheNext
<1>2. ASSUME NEW t \in Threads, CmsdKnown(t) \/ FindKnown(t)
      PROVE  Cache!CacheNext
  <2> DEFINE fs == g_fs_map[call[t].user]
  <2>1. fs # 0 /\ fs \in Nat /\ call[t].pc \in {"stat", "find"}
    BY <1>2 DEF TypeOK, CallRecord, CmsdKnown, FindKnown, CallConsistent, CmsdHandleIsRoots
  <2>2. UNCHANGED <<conns, g_fs_map>>
    BY <1>2 DEF CmsdKnown, FindKnown
  <2>3. PICK pc \in {"store", "done"} : call' = [call EXCEPT ![t].pc = pc, ![t].fs = fs]
    BY <1>2 DEF CmsdKnown, FindKnown, Caller, CallConsistent, CmsdHandleIsRoots
  <2>4. /\ call'[t].pc = pc /\ call'[t].fs = fs /\ call'[t].user = call[t].user
        /\ \A u \in Threads \ {t} : call'[u] = call[u]
    <3> HIDE DEF fs
    <3> QED BY <2>1, <2>3, AnswerUpdate DEF TypeOK
  <2>5. ph' = [ph EXCEPT ![t] = "answered"] /\ ph[t] = "asked"
    BY <2>1, <2>4 DEF Phase
  <2>6. us' = us /\ an' = [an EXCEPT ![t] = fs]
    BY <2>4
  <2>7. Cache!AnswerKnown(t)
    BY <2>1, <2>2, <2>5, <2>6 DEF Cache!AnswerKnown, Cache!Answered
  <2>8. QED BY <2>7 DEF Cache!CacheNext
<1>3. ASSUME NEW t \in Threads, Connected(t) PROVE Cache!CacheNext
  <2> DEFINE new == Len(conns) + 1
  <2>1. g_fs_map[call[t].user] = 0 /\ call[t].pc = "connect" /\ new \in Nat
    BY <1>3 DEF TypeOK, Connected, CallConsistent
  <2>2. /\ g_fs_map' = [g_fs_map EXCEPT ![call[t].user] = new]
        /\ conns' = Append(conns, call[t].user)
    BY <1>3, <2>1 DEF Connected
  <2>3. PICK pc \in {"store", "done"} : call' = [call EXCEPT ![t].pc = pc, ![t].fs = new]
    BY <1>3 DEF Connected, Caller
  <2>4. /\ call'[t].pc = pc /\ call'[t].fs = new /\ call'[t].user = call[t].user
        /\ \A u \in Threads \ {t} : call'[u] = call[u]
    <3> HIDE DEF new
    <3> QED BY <2>1, <2>3, AnswerUpdate DEF TypeOK
  <2>5. ph' = [ph EXCEPT ![t] = "answered"] /\ ph[t] = "asked"
    BY <2>1, <2>4 DEF Phase
  <2>6. us' = us /\ an' = [an EXCEPT ![t] = new]
    BY <2>4
  <2>7. Cache!AnswerNew(t)
    BY <2>1, <2>2, <2>5, <2>6 DEF Cache!AnswerNew, Cache!Answered
  <2>8. QED BY <2>7 DEF Cache!CacheNext
<1>4. ASSUME NEW t \in Threads, ConnectFailed(t) PROVE Cache!CacheNext
  <2>1. g_fs_map[call[t].user] = 0 /\ call[t].pc = "connect" /\ call[t].fs = 0
    BY <1>4 DEF ConnectFailed, CallConsistent
  <2>2. UNCHANGED <<conns, g_fs_map>>
    BY <1>4 DEF ConnectFailed
  <2>3. PICK pc \in {"store", "done"} : call' = [call EXCEPT ![t].pc = pc]
    BY <1>4 DEF ConnectFailed, Caller
  <2>4. /\ call'[t].pc = pc /\ call'[t].fs = 0 /\ call'[t].user = call[t].user
        /\ \A u \in Threads \ {t} : call'[u] = call[u]
    BY <2>1, <2>3, MoveUpdate DEF TypeOK
  <2>5. ph' = [ph EXCEPT ![t] = "answered"] /\ ph[t] = "asked"
    BY <2>1, <2>4 DEF Phase
  <2>6. us' = us /\ an' = [an EXCEPT ![t] = 0]
    BY <2>4
  <2>7. Cache!AnswerFail(t)
    BY <2>1, <2>2, <2>5, <2>6 DEF Cache!AnswerFail, Cache!Answered
  <2>8. QED BY <2>7 DEF Cache!CacheNext
<1>5. ASSUME NEW t \in Threads, Return(t) PROVE Cache!CacheNext
  <2>1. ph' = [ph EXCEPT ![t] = "idle"] /\ ph[t] = "answered"
    BY <1>5 DEF TypeOK, CallRecord, Return, Idle, Phase
  <2>2. us' = [us EXCEPT ![t] = Nobody]
    BY <1>5 DEF TypeOK, CallRecord, Return, Idle
  <2>3. an' = [an EXCEPT ![t] = 0]
    BY <1>5 DEF TypeOK, CallRecord, Return, Idle
  <2>4. Cache!Release(t)
    BY <1>5, <2>1, <2>2, <2>3 DEF Return, Cache!Release
  <2>5. QED BY <2>4 DEF Cache!CacheNext
<1>6. ASSUME NEW t \in Threads, CmsdUnknown(t) \/ FindUnknown(t) \/ CmsdStore(t)
      PROVE  UNCHANGED Cache!cacheVars
  <2>1. UNCHANGED <<conns, g_fs_map>>
    BY <1>6 DEF CmsdUnknown, FindUnknown, CmsdStore
  <2>2. PICK pc \in {"find", "connect", "done"} :
          /\ call' = [call EXCEPT ![t].pc = pc]
          /\ IF pc = "done" THEN call[t].pc = "store" ELSE call[t].pc \in {"stat", "find"}
    BY <1>6 DEF CmsdUnknown, FindUnknown, CmsdStore
  <2>3. /\ call'[t].pc = pc /\ call'[t].fs = call[t].fs /\ call'[t].user = call[t].user
        /\ \A u \in Threads \ {t} : call'[u] = call[u]
    BY <2>2, MoveUpdate DEF TypeOK
  <2>4. ph' = ph
    BY <2>2, <2>3 DEF Phase
  <2>5. us' = us /\ an' = an
    BY <2>3
  <2>6. QED BY <2>1, <2>4, <2>5 DEF Cache!cacheVars
<1>7. CASE UNCHANGED vars
  BY <1>7 DEF vars, Cache!cacheVars, Phase
<1>8. QED
  BY <1>1, <1>2, <1>3, <1>4, <1>5, <1>6, <1>7 DEF Next, Step

\* hadoop_connect's map and Stat's static handle, with their two mutexes,
\* implement the atomic table of ConnectionCache.
THEOREM Refinement == Spec => ImplementsCache
<1>1. Init => Cache!CacheInit
  BY InitRefines
<1>2. Inv /\ [Next]_vars => [Cache!CacheNext]_(Cache!cacheVars)
  BY NextRefines
<1>3. QED
  BY <1>1, <1>2, InvHolds, PTL DEF Spec, ImplementsCache, Cache!CacheSpec
=============================================================================
