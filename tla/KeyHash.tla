------------------------------- MODULE KeyHash -------------------------------
(***************************************************************************)
(* std_lock_free_key_hash.c: an array of buckets, each a list of nodes in  *)
(* the order of their keys' hashes (here the keys are their hashes).  A    *)
(* bucket is initialised by the first add that needs it.                   *)
(*                                                                         *)
(* list_add and list_del are one step each: LockFreeList is shown to do    *)
(* what a set of keys does.  But the calls of the hash also walk along the *)
(* next pointers themselves, with one hazard pointer and no second look at *)
(* the pointer it was read from; they ignore marks.  A step is one access  *)
(* of what other threads may change.                                       *)
(***************************************************************************)
EXTENDS Integers, FiniteSets

CONSTANTS
    Threads, Keys, Values, Nodes, Null,
    Buckets, BucketOf,   \* std_full_name_hash of each key
    OneWriter            \* bound: adds and dels in one bucket come one after the other

ASSUME KeyHashAssumption ==
    /\ IsFiniteSet(Threads) /\ IsFiniteSet(Nodes)
    /\ Keys \subseteq Nat \ {0}
    /\ BucketOf \in [Keys -> Buckets]
    /\ Null \notin Nodes /\ Null \notin Values
    /\ OneWriter \in BOOLEAN

VARIABLES
    ready,         \* buckets whose hazard_head is set
    listed,        \* nodes in the list of their bucket
    left,          \* where a node leads to that is no longer in its list
    key, value,    \* of each node
    alloc,         \* nodes that are allocated
    retired,       \* hazard_free_list of each thread, of all buckets
    hp,            \* hazard pointer 0 of each thread, in the bucket of its call
    total_count,
    destroyed,
    pc, call, arg, new, answer,   \* each thread's place, call, parameters and result
    cur,           \* its p_node
    pos,           \* its pos, in a del, which reads it ahead
    entry,         \* the node it has made and not yet added
    seen, met,     \* history: the values its key has had, the nodes that its
                   \* bucket has listed, during the call
    robbed,        \* history: calls under which a node was freed that they had met
    twoWriters     \* history: there were two writers in a bucket at once

localVars == <<arg, new, call, cur, pos, entry>>
listVars == <<ready, listed, left, key, value, alloc, retired, total_count, destroyed>>
mishaps == <<robbed, twoWriters>>
vars == <<listVars, hp, localVars, pc, answer, seen, met, mishaps>>

Init ==
    /\ ready = {} /\ listed = {} /\ alloc = {}
    /\ left = [n \in Nodes |-> Null]
    /\ key = [n \in Nodes |-> 0]
    /\ value = [n \in Nodes |-> Null]
    /\ retired = [t \in Threads |-> {}]
    /\ hp = [t \in Threads |-> Null]
    /\ total_count = 0 /\ destroyed = FALSE
    /\ pc = [t \in Threads |-> "idle"]
    /\ call = [t \in Threads |-> "none"]
    /\ arg = [t \in Threads |-> Null]
    /\ new = [t \in Threads |-> Null]
    /\ answer = [t \in Threads |-> Null]
    /\ cur = [t \in Threads |-> Null]
    /\ pos = [t \in Threads |-> Null]
    /\ entry = [t \in Threads |-> Null]
    /\ seen = [t \in Threads |-> {}]
    /\ met = [t \in Threads |-> {}]
    /\ robbed = {} /\ twoWriters = FALSE

BucketAt(t) == BucketOf[arg[t]]
InBucket(b) == {n \in listed : BucketOf[key[n]] = b}

\* The node behind the keys up to k in the list of a bucket.
Beyond(b, k) == {n \in InBucket(b) : key[n] > k}
Behind(b, k) ==
    IF Beyond(b, k) = {} THEN Null
    ELSE CHOOSE n \in Beyond(b, k) : \A m \in Beyond(b, k) : key[n] <= key[m]

\* A node's next pointer, without its mark.
NextOf(n) == IF n \in listed THEN Behind(BucketOf[key[n]], key[n]) ELSE left[n]

\* Nodes leave their list, and keep their next pointers.
Unlink(S) ==
    /\ listed' = listed \ S
    /\ left' = [n \in Nodes |-> IF n \in S THEN NextOf(n) ELSE left[n]]

\* The value of a key that has a node in its list.
Lookup(k) ==
    IF \E n \in listed : key[n] = k
    THEN value[CHOOSE n \in listed : key[n] = k]
    ELSE Null

\* What the calls under way see of a step.
Watch ==
    /\ seen' = [t \in Threads |->
                   IF call[t] = "none" THEN {} ELSE seen[t] \union {Lookup(arg[t])'}]
    /\ met' = [t \in Threads |->
                   IF call[t] = "none" THEN {} ELSE met[t] \union InBucket(BucketAt(t))']

At(t, place) == pc[t] = place
Goto(t, place) == pc' = [pc EXCEPT ![t] = place]
Clear(t) == hp' = [hp EXCEPT ![t] = Null]

Finish(t, a) ==
    /\ Goto(t, "return")
    /\ answer' = [answer EXCEPT ![t] = a]
    /\ Clear(t)
-----------------------------------------------------------------------------
(* A call begins; find and del are done when the bucket was never used or  *)
(* is empty, add makes its node.                                           *)

Writing(t) == call[t] \in {"add", "del"}

\* There is another writer in the bucket, which nothing in the code sees to.
SecondWriter(op, k) == op # "find" /\ \E u \in Threads : Writing(u) /\ BucketAt(u) = BucketOf[k]

Begin(t, op, k, v) ==
    /\ At(t, "idle") /\ ~destroyed
    /\ twoWriters' = (twoWriters \/ SecondWriter(op, k))
    /\ OneWriter => ~twoWriters'
    /\ Goto(t, "test")
    /\ call' = [call EXCEPT ![t] = op]
    /\ arg' = [arg EXCEPT ![t] = k]
    /\ new' = [new EXCEPT ![t] = v]
    /\ seen' = [seen EXCEPT ![t] = {Lookup(k)}]
    /\ met' = [met EXCEPT ![t] = InBucket(BucketOf[k])]
    /\ UNCHANGED <<listVars, hp, answer, cur, pos, entry, robbed>>

\* The key has no node: what add, find and del do then.
NotThere(t) ==
    \/ call[t] = "add" /\ Goto(t, "make") /\ UNCHANGED <<answer, hp>>
    \/ call[t] = "find" /\ Finish(t, Null)
    \/ call[t] = "del" /\ Finish(t, "no")

\* Mutant: the first test is forgotten.
Faulty_TestHead(t) ==
    /\ At(t, "test")
    /\ \/ call[t] = "add" /\ Goto(t, "init") /\ UNCHANGED <<answer, hp>>
       \/ BucketAt(t) \in ready /\ call[t] # "add" /\ Goto(t, "empty") /\ UNCHANGED <<answer, hp>>
       \/ BucketAt(t) \notin ready /\ call[t] # "add" /\ NotThere(t)
    /\ UNCHANGED <<listVars, localVars, seen, met, mishaps>>

TestHead(t) ==
    /\ At(t, "test")
    /\ \/ BucketAt(t) \in ready /\ Goto(t, "empty") /\ UNCHANGED <<answer, hp>>
       \/ BucketAt(t) \notin ready /\ call[t] = "add" /\ Goto(t, "init") /\ UNCHANGED <<answer, hp>>
       \/ BucketAt(t) \notin ready /\ call[t] # "add" /\ NotThere(t)
    /\ UNCHANGED <<listVars, localVars, seen, met, mishaps>>

\* std_lock_free_list_init empties the list, then sets hazard_head.  (The test
\* and the store of hazard_head are one step; only a hazard_head is lost there.)
InitNext(t) ==
    /\ At(t, "init")
    /\ Unlink(InBucket(BucketAt(t)))
    /\ Goto(t, "initHead")
    /\ UNCHANGED <<ready, key, value, alloc, retired, total_count, destroyed, hp, localVars, answer,
                   mishaps>>
    /\ Watch

InitHead(t) ==
    /\ At(t, "initHead")
    /\ ready' = ready \union {BucketAt(t)}
    /\ Goto(t, "empty")
    /\ UNCHANGED <<listed, left, key, value, alloc, retired, total_count, destroyed,
                   hp, localVars, answer, seen, met, mishaps>>

IsEmpty(t) ==
    /\ At(t, "empty")
    /\ IF InBucket(BucketAt(t)) = {} THEN NotThere(t)
       ELSE Goto(t, "first") /\ UNCHANGED <<answer, hp>>
    /\ UNCHANGED <<listVars, localVars, seen, met, mishaps>>
-----------------------------------------------------------------------------
(* The walk along the list.  A del reads pos->next before it compares.     *)

\* Mutant: the walk stops at the last node.
Faulty_GoOn(t, n) ==
    /\ cur' = [cur EXCEPT ![t] = n]
    /\ IF n = Null \/ NextOf(n) = Null THEN NotThere(t)
       ELSE Goto(t, IF call[t] = "del" THEN "ahead" ELSE "compare") /\ UNCHANGED <<answer, hp>>

GoOn(t, n) ==
    /\ cur' = [cur EXCEPT ![t] = n]
    /\ IF n = Null THEN NotThere(t)
       ELSE Goto(t, IF call[t] = "del" THEN "ahead" ELSE "compare") /\ UNCHANGED <<answer, hp>>

First(t) ==
    /\ At(t, "first")
    /\ GoOn(t, Behind(BucketAt(t), 0))
    /\ UNCHANGED <<listVars, arg, new, call, pos, entry, seen, met, mishaps>>

ReadAhead(t) ==
    /\ At(t, "ahead")
    /\ pos' = [pos EXCEPT ![t] = NextOf(cur[t])]
    /\ Goto(t, "compare")
    /\ UNCHANGED <<listVars, hp, arg, new, call, cur, entry, answer, seen, met, mishaps>>

AtMatch(op) == CASE op = "add" -> "store" [] op = "find" -> "read" [] op = "del" -> "remove"

\* The hazard pointer is set, the key compared.
Match(t) ==
    /\ At(t, "compare") /\ key[cur[t]] = arg[t]
    /\ hp' = [hp EXCEPT ![t] = cur[t]]
    /\ Goto(t, AtMatch(call[t]))
    /\ UNCHANGED <<listVars, localVars, answer, seen, met, mishaps>>

Differ(t) ==
    /\ At(t, "compare") /\ key[cur[t]] # arg[t] /\ call[t] # "del"
    /\ hp' = [hp EXCEPT ![t] = cur[t]]
    /\ Goto(t, "step")
    /\ UNCHANGED <<listVars, localVars, answer, seen, met, mishaps>>

DifferAhead(t) ==
    /\ At(t, "compare") /\ key[cur[t]] # arg[t] /\ call[t] = "del"
    /\ cur' = [cur EXCEPT ![t] = pos[t]]
    /\ IF pos[t] = Null THEN Finish(t, "no")
       ELSE Goto(t, "ahead") /\ hp' = [hp EXCEPT ![t] = cur[t]] /\ UNCHANGED answer
    /\ UNCHANGED <<listVars, arg, new, call, pos, entry, seen, met, mishaps>>

Step(t) ==
    /\ At(t, "step")
    /\ GoOn(t, NextOf(cur[t]))
    /\ UNCHANGED <<listVars, arg, new, call, pos, entry, seen, met, mishaps>>
-----------------------------------------------------------------------------
(* The end of a call whose key was found,                                  *)

ReadValue(t) ==
    /\ At(t, "read")
    /\ Finish(t, value[cur[t]])
    /\ UNCHANGED <<listVars, localVars, seen, met, mishaps>>

StoreValue(t) ==
    /\ At(t, "store")
    /\ value' = [value EXCEPT ![cur[t]] = new[t]]
    /\ Finish(t, "yes")
    /\ UNCHANGED <<ready, listed, left, key, alloc, retired, total_count, destroyed, localVars,
                   mishaps>>
    /\ Watch

\* Mutant: the node is freed at once.
Faulty_Remove(t) ==
    LET S == {n \in listed : key[n] = arg[t]}
    IN  /\ At(t, "remove")
        /\ Unlink(S)
        /\ alloc' = alloc \ S
        /\ Goto(t, "count")
        /\ answer' = [answer EXCEPT ![t] = "yes"]
        /\ UNCHANGED <<ready, key, value, retired, total_count, destroyed, hp, localVars, mishaps>>
        /\ Watch

\* list_del, which looks for the key once more; what it returns is ignored.
Remove(t) ==
    LET S == {n \in listed : key[n] = arg[t]}
    IN  /\ At(t, "remove")
        /\ Unlink(S)
        /\ retired' = [retired EXCEPT ![t] = @ \union S]
        /\ Goto(t, IF S = {} THEN "count" ELSE "collect")
        /\ answer' = [answer EXCEPT ![t] = "yes"]
        /\ UNCHANGED <<ready, key, value, alloc, total_count, destroyed, hp, localVars, mishaps>>
        /\ Watch

\* std_hazard_gc frees the thread's retired nodes of this bucket that no other
\* thread's hazard pointer has.
Collect(t) ==
    LET others == {u \in Threads \ {t} : call[u] # "none" /\ BucketAt(u) = BucketAt(t)}
        freed == {n \in retired[t] : BucketOf[key[n]] = BucketAt(t) /\ \A u \in others : hp[u] # n}
    IN  /\ At(t, "collect")
        /\ alloc' = alloc \ freed
        /\ left' = [n \in Nodes |-> IF n \in freed THEN Null ELSE left[n]]
        /\ key' = [n \in Nodes |-> IF n \in freed THEN 0 ELSE key[n]]
        /\ value' = [n \in Nodes |-> IF n \in freed THEN Null ELSE value[n]]
        /\ retired' = [retired EXCEPT ![t] = @ \ freed]
        /\ robbed' = robbed \union {u \in others : freed \intersect met[u] # {}}
        /\ Goto(t, "count")
        /\ UNCHANGED <<ready, listed, total_count, destroyed, hp, localVars, answer, seen, met,
                       twoWriters>>

\* Mutant: the decrement is forgotten.
Faulty_CountDown(t) ==
    /\ At(t, "count")
    /\ Goto(t, "return")
    /\ Clear(t)
    /\ UNCHANGED <<listVars, localVars, answer, seen, met, mishaps>>

CountDown(t) ==
    /\ At(t, "count")
    /\ total_count' = total_count - 1
    /\ Goto(t, "return")
    /\ Clear(t)
    /\ UNCHANGED <<ready, listed, left, key, value, alloc, retired, destroyed, localVars,
                   answer, seen, met, mishaps>>

(* and of an add whose key was not.                                        *)

MakeEntry(t) ==
    /\ At(t, "make")
    /\ \E n \in Nodes \ alloc :
           /\ alloc' = alloc \union {n}
           /\ key' = [key EXCEPT ![n] = arg[t]]
           /\ value' = [value EXCEPT ![n] = new[t]]
           /\ entry' = [entry EXCEPT ![t] = n]
    /\ total_count' = total_count + 1
    /\ Goto(t, "insert")
    /\ UNCHANGED <<ready, listed, left, retired, destroyed, hp, arg, new, call, cur, pos, answer,
                   seen, met, mishaps>>

\* list_add refuses a key that is there, and the caller takes no notice.
Insert(t) ==
    /\ At(t, "insert")
    /\ listed' = IF \E n \in listed : key[n] = arg[t] THEN listed ELSE listed \union {entry[t]}
    /\ entry' = [entry EXCEPT ![t] = Null]
    /\ Finish(t, "yes")
    /\ UNCHANGED <<ready, left, key, value, alloc, retired, total_count, destroyed,
                   arg, new, call, cur, pos, mishaps>>
    /\ Watch

Return(t) ==
    /\ At(t, "return")
    /\ Goto(t, "idle")
    /\ call' = [call EXCEPT ![t] = "none"]
    /\ arg' = [arg EXCEPT ![t] = Null]
    /\ new' = [new EXCEPT ![t] = Null]
    /\ answer' = [answer EXCEPT ![t] = Null]
    /\ cur' = [cur EXCEPT ![t] = Null]
    /\ pos' = [pos EXCEPT ![t] = Null]
    /\ seen' = [seen EXCEPT ![t] = {}]
    /\ met' = [met EXCEPT ![t] = {}]
    /\ robbed' = robbed \ {t}
    /\ UNCHANGED <<listVars, hp, entry, twoWriters>>
-----------------------------------------------------------------------------
(* std_lock_free_key_hash_destroy: callers see to it that nobody uses the  *)
(* hash.  Every node is deleted and freed, with all that this thread has   *)
(* retired.  What others have retired is not freed, and never will be: the *)
(* lists that hold it go with hazard_head.                                 *)
Destroy(t) ==
    /\ ~destroyed /\ \A u \in Threads : At(u, "idle")
    /\ destroyed' = TRUE
    /\ alloc' = alloc \ (listed \union retired[t])
    /\ retired' = [retired EXCEPT ![t] = {}]
    /\ Unlink(listed)
    /\ ready' = {}
    /\ UNCHANGED <<key, value, total_count, hp, localVars, pc, answer, mishaps>>
    /\ Watch

Call(t) ==
    \E k \in Keys :
        \/ \E v \in Values : Begin(t, "add", k, v)
        \/ \E op \in {"find", "del"} : Begin(t, op, k, Null)

Next ==
    \E t \in Threads :
        \/ Call(t) \/ TestHead(t) \/ InitNext(t) \/ InitHead(t) \/ IsEmpty(t)
        \/ First(t) \/ ReadAhead(t) \/ Match(t) \/ Differ(t) \/ DifferAhead(t) \/ Step(t)
        \/ ReadValue(t) \/ StoreValue(t) \/ Remove(t) \/ Collect(t) \/ CountDown(t)
        \/ MakeEntry(t) \/ Insert(t) \/ Return(t) \/ Destroy(t)

Spec == Init /\ [][Next]_vars
-----------------------------------------------------------------------------
Places == {"idle", "test", "init", "initHead", "empty", "first", "ahead", "compare", "step",
           "read", "store", "remove", "collect", "count", "make", "insert", "return"}

TypeOK ==
    /\ ready \subseteq Buckets
    /\ listed \subseteq Nodes /\ alloc \subseteq Nodes
    /\ left \in [Nodes -> Nodes \union {Null}]
    /\ key \in [Nodes -> Keys \union {0}]
    /\ value \in [Nodes -> Values \union {Null}]
    /\ retired \in [Threads -> SUBSET Nodes]
    /\ hp \in [Threads -> Nodes \union {Null}]
    /\ total_count \in Nat /\ destroyed \in BOOLEAN
    /\ pc \in [Threads -> Places]
    /\ call \in [Threads -> {"none", "add", "find", "del"}]
    /\ arg \in [Threads -> Keys \union {Null}]
    /\ new \in [Threads -> Values \union {Null}]
    /\ cur \in [Threads -> Nodes \union {Null}]
    /\ pos \in [Threads -> Nodes \union {Null}]
    /\ entry \in [Threads -> Nodes \union {Null}]
    /\ seen \in [Threads -> SUBSET (Values \union {Null})]
    /\ met \in [Threads -> SUBSET Nodes]
    /\ robbed \subseteq Threads /\ twoWriters \in BOOLEAN

(* The walks look at no pointer twice, and std_hazard_gc does free nodes   *)
(* under them.  That is the only harm: no step reads or writes a node that *)
(* was freed, or that a later add has made anew, unless a node was freed   *)
(* that had been in the list during the call (those are robbed); so never  *)
(* in an add or del, and never again when the call is over.                *)
NoFreedAccess ==
    /\ \A t \in Threads \ robbed :
           pc[t] \in {"ahead", "compare", "step", "read", "store"} =>
               cur[t] \in listed \union UNION {retired[u] : u \in Threads}
    /\ \A t \in robbed : call[t] = "find"

(* The two ends of a node's life, std_lock_free_list_init at the first use *)
(* of a bucket, and destroy: a node that is allocated is in its list, or   *)
(* waits to be freed, or is about to be added; so destroy leaves only what *)
(* other threads had retired.                                              *)
NoNodeLost ==
    alloc = listed \union (UNION {retired[u] : u \in Threads})
                   \union ({entry[u] : u \in Threads} \ {Null})

(* ATOMIC_INC before list_add, whatever that returns, and ATOMIC_DEC after *)
(* list_del: total_count is the number of keys, give or take the calls     *)
(* between the two.                                                        *)
CountFits ==
    ~destroyed =>
        total_count = Cardinality(listed) + Cardinality({t \in Threads : At(t, "insert")})
                      + Cardinality({t \in Threads : pc[t] \in {"collect", "count"}})

callSeen == [t \in Threads |-> IF pc[t] \in {"collect", "count", "return"} THEN "done" ELSE call[t]]

Map == INSTANCE KeyMap WITH map <- [k \in Keys |-> Lookup(k)], call <- callSeen

(* Adds, finds and dels, the finds walking over nodes that are deleted     *)
(* meanwhile: an atomic map, but that a robbed find may answer anything.   *)
RobbedAnswer(t) ==
    /\ call[t] = "find"
    /\ \E a \in Values \union {Null} : Map!Answer(t, a)
    /\ UNCHANGED <<[k \in Keys |-> Lookup(k)], seen>>

ImplementsKeyMap ==
    /\ Map!Init
    /\ [][~twoWriters' => [Map!Next \/ \E t \in robbed : RobbedAnswer(t)]_(Map!mapVars)]_vars
=============================================================================
