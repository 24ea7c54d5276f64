------------------------------ MODULE MCConnect ------------------------------
(***************************************************************************)
(* A small instance of HadoopConnect: the users root, nobody, one with a   *)
(* name of one character, one with two and one whose name is blank.        *)
(***************************************************************************)
EXTENDS HadoopConnect, TLC

CONSTANTS t1, t2, root, nobody, x, xy, blank

TwoThreads == {t1, t2}
Lengths == (root :> 4) @@ (nobody :> 6) @@ (x :> 1) @@ (xy :> 2) @@ (blank :> 0)

\* No security entity; one without a name; root, with and without a name in
\* the request; a request of one character and of two; a blank one.
SomeClients ==
  {[secEnv |-> FALSE, request |-> NULL, name |-> NULL],
   [secEnv |-> TRUE, request |-> NULL, name |-> NULL],
   [secEnv |-> TRUE, request |-> NULL, name |-> root],
   [secEnv |-> TRUE, request |-> nobody, name |-> root],
   [secEnv |-> TRUE, request |-> x, name |-> root],
   [secEnv |-> TRUE, request |-> xy, name |-> root],
   [secEnv |-> TRUE, request |-> blank, name |-> x]}
=============================================================================
