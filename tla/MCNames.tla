------------------------------ MODULE MCNames ------------------------------
(***************************************************************************)
(* NameTranslation under two translation plugins: one that knows /store    *)
(* and refuses every other name, as a trivial file catalogue does, and one *)
(* that puts a prefix in front of every name; and without one.             *)
(***************************************************************************)
EXTENDS NameTranslation

CONSTANTS catalogue, prefix, v1, v2

TwoValues == {v1, v2}
BothRules == {catalogue, prefix}
PrefixOnly == {prefix}

Rule(n2n, path, blen) ==
  IF n2n = prefix \/ path[1] = "store" THEN Fits(<<"hdfs">> \o path, blen) ELSE {}

\* Two files with the same last component, and a second name of the first.
SomeLfns == {<<"store", "a">>, <<"store", "u", "a">>, <<"hdfs", "store", "a">>}
TwoLfns == {<<"store", "a">>, <<"hdfs", "store", "a">>}
=============================================================================
