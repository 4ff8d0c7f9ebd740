--------------------------- MODULE MCModBundle ---------------------------
(* Instances of ModBundle for TLC: the shell, and a thread pool that needs  *)
(* an argument and depends on the shell, as in the two desc.json.           *)
EXTENDS ModBundle, TLC

CONSTANTS main, u1, u2, shell, pool, o1, o2, h1, h2, n1, n2, n3

ShellAndPoolDeps == [b \in Bundles |-> IF b = pool THEN {shell} ELSE {}]

Symmetry == Permutations(Users) \union Permutations(Handles)
                \union Permutations(Nodes) \union Permutations(Owners)
=============================================================================
