------------------------------- MODULE MCSys -------------------------------
(***************************************************************************)
(* A small instance of XrdHdfsSys: /a, /a/b and /c; one thread that does   *)
(* everything and one that makes and removes files and directories.        *)
(***************************************************************************)
EXTENDS XrdHdfsSys, TLC

CONSTANTS t1, t2

TwoThreads == {t1, t2}
Tree == {<< >>, <<"a">>, <<"a", "b">>, <<"c">>}
SomeOps ==
  (t1 :> {"stat", "chmod", "mkdir", "remdir", "rename", "truncate", "unlink", "create", "write"})
  @@ (t2 :> {"mkdir", "remdir", "create"})
=============================================================================
