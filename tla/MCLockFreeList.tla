--------------------------- MODULE MCLockFreeList ---------------------------
(* The values of LockFreeList's constants for TLC.                         *)
EXTENDS LockFreeList

Writer == {1}
BothThreads == {1, 2}
TwoKeys == 1 .. 2
AllRules == Rules
LoadsWait == {"loadsWait"}

\* Nodes are addresses that nothing compares but for equality.
Symmetry == Permutations(Nodes)
=============================================================================
