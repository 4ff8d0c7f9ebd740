------------------------------- MODULE KeySet -------------------------------
(***************************************************************************)
(* What a concurrent set of keys promises to its callers, with no nodes,   *)
(* marks or hazard pointers: an addition or a deletion that succeeds does  *)
(* so at one moment during its call, and every other answer was the truth  *)
(* at some moment during the call that returns it.                         *)
(* LockFreeList.tla is shown to implement this module.                     *)
(***************************************************************************)
EXTENDS Naturals

CONSTANTS Threads, Keys    \* keys are numbers from 1 on

VARIABLES
    keys,     \* the set
    call,     \* each thread's call: none, find, add, del, or its answer: yes, no
    arg,      \* the key of its call, or 0
    seen      \* history: the truth values that "arg \in keys" had during the call

setVars == <<keys, call, arg, seen>>

Init ==
    /\ keys = {}
    /\ call = [t \in Threads |-> "none"]
    /\ arg = [t \in Threads |-> 0]
    /\ seen = [t \in Threads |-> {}]

Begin(t, op, k) ==
    /\ call[t] = "none"
    /\ call' = [call EXCEPT ![t] = op]
    /\ arg' = [arg EXCEPT ![t] = k]
    /\ seen' = [seen EXCEPT ![t] = {(k \in keys)}]
    /\ UNCHANGED keys

\* Whoever has a call under way sees the change.
Update(t, newKeys) ==
    /\ keys' = newKeys
    /\ call' = [call EXCEPT ![t] = "yes"]
    /\ seen' = [u \in Threads |->
                   IF call[u] = "none" THEN {} ELSE seen[u] \union {arg[u] \in newKeys}]
    /\ UNCHANGED arg

Add(t) == call[t] = "add" /\ arg[t] \notin keys /\ Update(t, keys \union {arg[t]})

Delete(t) == call[t] = "del" /\ arg[t] \in keys /\ Update(t, keys \ {arg[t]})

Answer(t, answer) ==
    /\ call' = [call EXCEPT ![t] = answer]
    /\ UNCHANGED <<keys, arg, seen>>

Found(t)    == call[t] = "find" /\ TRUE \in seen[t] /\ Answer(t, "yes")
NotFound(t) == call[t] \in {"find", "del"} /\ FALSE \in seen[t] /\ Answer(t, "no")
NotAdded(t) == call[t] = "add" /\ TRUE \in seen[t] /\ Answer(t, "no")

Return(t) ==
    /\ call[t] \in {"yes", "no"}
    /\ call' = [call EXCEPT ![t] = "none"]
    /\ arg' = [arg EXCEPT ![t] = 0]
    /\ seen' = [seen EXCEPT ![t] = {}]
    /\ UNCHANGED keys

Next ==
    \E t \in Threads :
        \/ \E op \in {"find", "add", "del"}, k \in Keys : Begin(t, op, k)
        \/ Add(t) \/ Delete(t) \/ Found(t) \/ NotFound(t) \/ NotAdded(t)
        \/ Return(t)

Spec == Init /\ [][Next]_setVars
=============================================================================
