------------------------------- MODULE KeyMap -------------------------------
(***************************************************************************)
(* What a concurrent map promises to its callers, with no buckets, nodes   *)
(* or hazard pointers: a call that changes the map does so at one moment   *)
(* between its begin and its return, and what any other call answers was   *)
(* the truth at some moment in between.  KeyHash.tla is shown to implement *)
(* this module.                                                            *)
(***************************************************************************)
CONSTANTS Threads, Keys, Values, Null    \* Null is no value

VARIABLES
    map,      \* the value of each key, or Null
    call,     \* each thread's call: none, add, find, del; done when it has its answer
    arg,      \* the key of its call, or Null
    new,      \* the value an add brings, or Null
    answer,   \* what a call returns: a value or Null, or whether there was a key
    seen      \* history: what map[arg] has been during the call

mapVars == <<map, call, arg, new, answer, seen>>

Init ==
    /\ map = [k \in Keys |-> Null]
    /\ call = [t \in Threads |-> "none"]
    /\ arg = [t \in Threads |-> Null]
    /\ new = [t \in Threads |-> Null]
    /\ answer = [t \in Threads |-> Null]
    /\ seen = [t \in Threads |-> {}]

Begin(t, op, k, v) ==
    /\ call[t] = "none"
    /\ call' = [call EXCEPT ![t] = op]
    /\ arg' = [arg EXCEPT ![t] = k]
    /\ new' = [new EXCEPT ![t] = v]
    /\ seen' = [seen EXCEPT ![t] = {map[k]}]
    /\ UNCHANGED <<map, answer>>

Answer(t, a) ==
    /\ call' = [call EXCEPT ![t] = "done"]
    /\ answer' = [answer EXCEPT ![t] = a]
    /\ UNCHANGED <<arg, new>>

\* Whoever has a call under way sees the change.
Update(t, v) ==
    /\ map' = [map EXCEPT ![arg[t]] = v]
    /\ seen' = [u \in Threads |-> IF call[u] = "none" THEN {} ELSE seen[u] \union {map'[arg[u]]}]
    /\ Answer(t, "yes")

Add(t) == call[t] = "add" /\ Update(t, new[t])

Delete(t) == call[t] = "del" /\ map[arg[t]] # Null /\ Update(t, Null)

NotDeleted(t) ==
    /\ call[t] = "del" /\ Null \in seen[t]
    /\ Answer(t, "no")
    /\ UNCHANGED <<map, seen>>

\* The value, or Null if there is none.
Find(t) ==
    /\ call[t] = "find"
    /\ \E v \in seen[t] : Answer(t, v)
    /\ UNCHANGED <<map, seen>>

Return(t) ==
    /\ call[t] = "done"
    /\ call' = [call EXCEPT ![t] = "none"]
    /\ arg' = [arg EXCEPT ![t] = Null]
    /\ new' = [new EXCEPT ![t] = Null]
    /\ answer' = [answer EXCEPT ![t] = Null]
    /\ seen' = [seen EXCEPT ![t] = {}]
    /\ UNCHANGED map

\* The map is destroyed when nobody uses it.
Destroy ==
    /\ \A t \in Threads : call[t] = "none"
    /\ map' = [k \in Keys |-> Null]
    /\ UNCHANGED <<call, arg, new, answer, seen>>

Next ==
    \/ \E t \in Threads :
           \/ \E k \in Keys : \/ \E v \in Values : Begin(t, "add", k, v)
                              \/ \E op \in {"find", "del"} : Begin(t, op, k, Null)
           \/ Add(t) \/ Delete(t) \/ NotDeleted(t) \/ Find(t) \/ Return(t)
    \/ Destroy

Spec == Init /\ [][Next]_mapVars
=============================================================================
