------------------------------ MODULE MCKeyHash ------------------------------
(* The values of KeyHash's constants for TLC.                              *)
EXTENDS KeyHash, TLC

ThreeKeys == 1 .. 3
TwoTogether == [k \in ThreeKeys |-> IF k = 3 THEN "c" ELSE "b"]

\* Threads, nodes and values are compared for equality only.
Symmetry == Permutations(Threads) \union Permutations(Nodes) \union Permutations(Values)
=============================================================================
