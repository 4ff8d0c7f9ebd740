------------------------------- MODULE MCShell -------------------------------
(***************************************************************************)
(* Scripts that import, one with an error and one that is not there: test, *)
(* which has a main, is imported by nested, and would be by all if the     *)
(* line did not name a script that is not there before it.                 *)
(***************************************************************************)
EXTENDS Shell

ImportsDef ==
    [n \in Scripts |-> CASE n = "all" -> <<<<"lost", "test">>>>
                        [] n = "nested" -> <<<<"all">>, <<"test">>>>
                        [] OTHER -> <<>>]

NoImportsDef == [n \in Scripts |-> <<>>]

=============================================================================
