--------------------------- MODULE ConnectionCache ---------------------------
(***************************************************************************)
(* What the connection cache of XrdHdfs.cc promises its callers, with no   *)
(* locks and no intermediate states: a request for a user's HDFS handle is *)
(* answered in one step, by the handle that user already has, by a new one *)
(* that every later request for the user gets as well, or by a failure     *)
(* that leaves nothing behind.  Handles are numbered from 1; 0 is NULL.    *)
(***************************************************************************)
EXTENDS Naturals, Sequences

CONSTANTS
  Threads,    \* the callers
  Names,      \* user names
  Nobody      \* what the request of an idle caller holds

VARIABLES
  conns,      \* conns[i]: the user as whom handle i was opened
  cache,      \* cache[u]: the handle of user u, or 0
  phase,      \* phase[t]: "idle", "asked" or "answered"
  user,       \* user[t]: the user whose handle t wants
  answer      \* answer[t]: the handle t was given, 0 for a failure

cacheVars == <<conns, cache, phase, user, answer>>

CacheInit ==
  /\ conns = << >>
  /\ cache = [u \in Names |-> 0]
  /\ phase = [t \in Threads |-> "idle"]
  /\ user = [t \in Threads |-> Nobody]
  /\ answer = [t \in Threads |-> 0]

\* A caller asks for the handle of user u.
Ask(t, u) ==
  /\ phase[t] = "idle"
  /\ phase' = [phase EXCEPT ![t] = "asked"]
  /\ user' = [user EXCEPT ![t] = u]
  /\ UNCHANGED <<conns, cache, answer>>

Answered(t, fs) ==
  /\ phase[t] = "asked"
  /\ phase' = [phase EXCEPT ![t] = "answered"]
  /\ answer' = [answer EXCEPT ![t] = fs]
  /\ UNCHANGED user

\* The user has a handle.
AnswerKnown(t) ==
  /\ cache[user[t]] # 0
  /\ Answered(t, cache[user[t]])
  /\ UNCHANGED <<conns, cache>>

\* The user has none and gets one.
AnswerNew(t) ==
  /\ cache[user[t]] = 0
  /\ conns' = Append(conns, user[t])
  /\ cache' = [cache EXCEPT ![user[t]] = Len(conns) + 1]
  /\ Answered(t, Len(conns) + 1)

\* The user has none and HDFS refuses to give one.
AnswerFail(t) ==
  /\ cache[user[t]] = 0
  /\ Answered(t, 0)
  /\ UNCHANGED <<conns, cache>>

\* The caller is through with the handle.
Release(t) ==
  /\ phase[t] = "answered"
  /\ phase' = [phase EXCEPT ![t] = "idle"]
  /\ user' = [user EXCEPT ![t] = Nobody]
  /\ answer' = [answer EXCEPT ![t] = 0]
  /\ UNCHANGED <<conns, cache>>

CacheNext ==
  \E t \in Threads :
    \/ \E u \in Names : Ask(t, u)
    \/ AnswerKnown(t)
    \/ AnswerNew(t)
    \/ AnswerFail(t)
    \/ Release(t)

CacheSpec == CacheInit /\ [][CacheNext]_cacheVars
=============================================================================
