---------------------------- MODULE LockFreeList ----------------------------
(***************************************************************************)
(* std_lock_free_list.c and std_hazard_ptr.c: a sorted linked list whose   *)
(* nodes are marked, then unlinked, then freed when no thread has          *)
(* published their address in one of its hazard pointers.                  *)
(*                                                                         *)
(* A step is one access of shared memory: a load or a CAS of a next        *)
(* pointer, the load of a hazard pointer in hazard_conflict; a thread's    *)
(* stores of hazard pointers go through a buffer, and Flush is the moment  *)
(* one of them is seen.  The key of a node does not change while others    *)
(* can see it, and is read with the access next to it.                     *)
(*                                                                         *)
(* Threads have the numbers that get_thread_id gives out.  Adders may call *)
(* add, Deleters del, and every thread find; free_enable and key_enable    *)
(* are set, as they are in the list of services, the lists of instances    *)
(* and the buckets of the hash.  A caller frees a node that it could not   *)
(* add.                                                                    *)
(***************************************************************************)
EXTENDS Integers, Sequences, FiniteSets, SequencesExt

CONSTANTS
    NumThreads, Adders, Deleters, Keys, Nodes,
    head, Null,
    Kept             \* the rules that the environment of the run keeps

(* What nothing in the code sees to.  A step that does not keep a rule is    *)
(* written down in broken, or not taken if the rule is Kept.                 *)
Rules ==
    {"loadsWait",    \* a load waits until the thread's stores before it have been seen
     "freshEntry"}   \* an add that starts over still has NULL in its entry's next

Threads == 1 .. NumThreads

\* The length of hazard_array, in threads.
HAZARD_MAX_THREAD == 64

ASSUME LockFreeListAssumption ==
    /\ NumThreads \in Nat /\ NumThreads <= HAZARD_MAX_THREAD
    /\ Adders \subseteq Threads /\ Deleters \subseteq Threads
    /\ Keys \subseteq Nat \ {0} /\ IsFiniteSet(Nodes)
    /\ head \notin Nodes /\ Null \notin Nodes /\ head # Null
    /\ Kept \subseteq Rules

VARIABLES
    next,      \* the next pointers without their mark
    marked,    \* nodes whose next pointer carries the mark
    key,
    alloc,     \* nodes that are allocated
    hp,        \* hazard_array: the three pointers of each thread that are used
    late,      \* stores of hazard pointers that each thread has under way, oldest first
    retired,   \* hazard_free_list of each thread, newest first
    th,        \* where each thread is, and its local variables
    seen,      \* history: the truth values "key in the list" had during the call
    broken     \* history: the rules that were broken

vars == <<next, marked, key, alloc, hp, late, retired, th, seen, broken>>
listVars == <<next, marked, key, alloc, seen>>
hazardVars == <<hp, retired>>

HazardSlots == 0 .. 2

\* The size of the store buffer, when it has any effect.
MaxLate == 4

\* A thread that has no call under way.
Idle ==
    [pc |-> "idle", op |-> "none", key |-> 0, entry |-> Null, prev |-> Null,
     cur |-> Null, nxt |-> Null, result |-> FALSE, i |-> 0, slot |-> 0]

Init ==
    /\ next = [n \in Nodes \union {head} |-> Null]
    /\ marked = {}
    /\ key = [n \in Nodes |-> 0]
    /\ alloc = {}
    /\ hp = [t \in Threads |-> [s \in HazardSlots |-> Null]]
    /\ late = [t \in Threads |-> <<>>]
    /\ retired = [t \in Threads |-> <<>>]
    /\ th = [t \in Threads |-> Idle]
    /\ seen = [t \in Threads |-> {}]
    /\ broken = {}

Rule(r, kept) == IF kept THEN {} ELSE {r}
Breaks(rules) == rules \intersect Kept = {} /\ broken' = broken \union rules

\* No rule was broken so far.
Clean == broken = {}

At(t, place) == th[t].pc = place
Goto(t, place) == th' = [th EXCEPT ![t].pc = place]

\* prev, cur and next are kept only until they are read for the last time.
Forget(local) == [local EXCEPT !.prev = Null, !.cur = Null, !.nxt = Null]
Restart(t) == th' = [th EXCEPT ![t] = [Forget(@) EXCEPT !.pc = "start"]]

\* p->next, read as a value, is q without a mark.
PointsTo(p, q) == next[p] = q /\ p \notin marked

\* The nodes that a walk meets that follows the next pointers from n on: those
\* in every set that has n and, with a node, the node behind it.
From(n) ==
    {m \in Nodes : \A S \in SUBSET Nodes :
        n \in S \union {Null} /\ (\A p \in S : next[p] \in S \union {Null}) => m \in S}

Reachable == From(next[head])

\* The set that the list stands for.
Present == {key[n] : n \in Reachable \ marked}

\* What the calls under way see of the set after a step.
Watch ==
    LET present == Present' IN
    seen' = [t \in Threads |->
                IF th[t].op = "none" THEN {} ELSE seen[t] \union {th[t].key \in present}]
-----------------------------------------------------------------------------
(* Stores of hazard pointers: a CAS waits until they have been seen, and a *)
(* load need not, as no fence is between them.                             *)

Store(t, stores) == late' = [late EXCEPT ![t] = @ \o stores]

Drained(t) == late[t] = <<>>
Load(t) == Len(late[t]) < MaxLate /\ Breaks(Rule("loadsWait", Drained(t)))

Flush(t) ==
    /\ late[t] # <<>>
    /\ LET store == late[t][1]
       IN  hp' = [hp EXCEPT ![t][store[1]] = store[2]]
    /\ late' = [late EXCEPT ![t] = Tail(@)]
    /\ UNCHANGED <<listVars, retired, th, broken>>
-----------------------------------------------------------------------------
(* A call begins.                                                          *)

Begin(t, op, k, entry) ==
    /\ At(t, "idle")
    /\ th' = [th EXCEPT ![t] = [Idle EXCEPT !.pc = "start", !.op = op, !.key = k,
                                            !.entry = entry]]
    /\ seen' = [seen EXCEPT ![t] = {(k \in Present)}]
    /\ UNCHANGED <<next, marked, hazardVars, late, broken>>

CallFind(t, k) == Begin(t, "find", k, Null) /\ UNCHANGED <<key, alloc>>
CallDel(t, k) == t \in Deleters /\ Begin(t, "del", k, Null) /\ UNCHANGED <<key, alloc>>

\* The caller has allocated the entry and filled it with zeros.
CallAdd(t, k) ==
    /\ t \in Adders
    /\ \E entry \in Nodes \ alloc :
        /\ Begin(t, "add", k, entry)
        /\ alloc' = alloc \union {entry}
        /\ key' = [key EXCEPT ![entry] = k]
-----------------------------------------------------------------------------
(* std_lock_free_list_inline_find.  The branch that would unlink a marked    *)
(* node is never taken: next has lost its mark before the mark is tested for *)
(* it, and a cur->next with a mark is no longer equal to next.               *)

\* Mutant: an addition of a key that is there is not refused.
Faulty_FindEndsAddsAgain(t, local, found) ==
    LET place ==
            CASE local.op = "add" -> "link"
              [] local.op = "del" /\ found /\ ~local.result -> "mark"
              [] OTHER -> "clear"
        result == IF local.op = "find" THEN found ELSE local.result
        kept == IF place = "clear" THEN Forget(local) ELSE local
    IN  th' = [th EXCEPT ![t] = [kept EXCEPT !.pc = place, !.result = result]]

\* Where the call goes when inline_find has returned; after a deletion that
\* could not unlink its node, what it found is ignored.
FindEnds(t, local, found) ==
    LET place ==
            CASE local.op = "add" /\ ~found -> "link"
              [] local.op = "del" /\ found /\ ~local.result -> "mark"
              [] OTHER -> "clear"
        result == IF local.op = "find" THEN found ELSE local.result
        kept == IF place = "clear" THEN Forget(local) ELSE local
    IN  th' = [th EXCEPT ![t] = [kept EXCEPT !.pc = place, !.result = result]]

GoOn(t, local) ==
    IF local.cur = Null
    THEN FindEnds(t, local, FALSE)
    ELSE th' = [th EXCEPT ![t] = [local EXCEPT !.pc = "load"]]

FindStart(t) ==
    /\ At(t, "start") /\ Load(t)
    /\ th' = [th EXCEPT ![t].prev = head, ![t].cur = next[head], ![t].pc = "checkHead"]
    /\ Store(t, <<<<1, next[head]>>>>)
    /\ UNCHANGED <<listVars, hazardVars>>

\* Mutant: does not read head->next again once the hazard pointer is set.
Faulty_CheckHeadTrusts(t) ==
    /\ At(t, "checkHead") /\ Load(t)
    /\ GoOn(t, th[t])
    /\ UNCHANGED <<listVars, hazardVars, late>>

CheckHead(t) ==
    /\ At(t, "checkHead") /\ Load(t)
    /\ IF PointsTo(head, th[t].cur) THEN GoOn(t, th[t]) ELSE Restart(t)
    /\ UNCHANGED <<listVars, hazardVars, late>>

LoadNext(t) ==
    LET nxt == next[th[t].cur] IN
    /\ At(t, "load") /\ Load(t)
    /\ th' = [th EXCEPT ![t].nxt = nxt, ![t].pc = "checkNext"]
    /\ Store(t, <<<<0, nxt>>>>)
    /\ UNCHANGED <<listVars, hazardVars>>

\* Mutant: compares the pointers without their marks.
Faulty_CheckNextStripsMark(t) ==
    /\ At(t, "checkNext") /\ Load(t)
    /\ IF next[th[t].cur] = th[t].nxt THEN Goto(t, "compare") ELSE Restart(t)
    /\ UNCHANGED <<listVars, hazardVars, late>>

CheckNext(t) ==
    /\ At(t, "checkNext") /\ Load(t)
    /\ IF PointsTo(th[t].cur, th[t].nxt) THEN Goto(t, "compare") ELSE Restart(t)
    /\ UNCHANGED <<listVars, hazardVars, late>>

\* Reads cur's key, and prev->next once more.
PrevLost(t) ==
    /\ At(t, "compare") /\ Load(t)
    /\ ~PointsTo(th[t].prev, th[t].cur)
    /\ Restart(t)
    /\ UNCHANGED <<listVars, hazardVars, late>>

Compare(t) ==
    /\ At(t, "compare") /\ Load(t)
    /\ PointsTo(th[t].prev, th[t].cur)
    /\ key[th[t].cur] >= th[t].key
    /\ FindEnds(t, th[t], key[th[t].cur] = th[t].key)
    /\ UNCHANGED <<listVars, hazardVars, late>>

Advance(t) ==
    LET cur == th[t].cur
        nxt == th[t].nxt IN
    /\ At(t, "compare") /\ Load(t)
    /\ PointsTo(th[t].prev, cur)
    /\ key[cur] < th[t].key
    /\ GoOn(t, [th[t] EXCEPT !.prev = cur, !.cur = nxt, !.nxt = Null])
    /\ Store(t, <<<<2, cur>>, <<1, nxt>>>>)
    /\ UNCHANGED <<listVars, hazardVars>>
-----------------------------------------------------------------------------
(* std_lock_free_list_add                                                  *)

\* entry->next is kept from one round to the next: unless it is still NULL, the
\* node found now is hung behind the last one of the chain it leads to.  A chain
\* that ends in a ring or comes across a mark has no last one.
Chain(t) == From(next[th[t].entry])

LinkAt(t) ==
    IF Chain(t) = {} THEN {th[t].entry}
    ELSE {n \in Chain(t) :
            th[t].cur # Null /\ Chain(t) \intersect marked = {} /\ next[n] = Null}

AddLink(t) ==
    /\ At(t, "link")
    /\ \/ \E n \in LinkAt(t) : next' = [next EXCEPT ![n] = th[t].cur]
       \/ Chain(t) # {} /\ th[t].cur = Null /\ UNCHANGED next
    /\ Goto(t, "cas")
    /\ UNCHANGED <<marked, key, alloc, hazardVars, late, broken>>
    /\ Watch

AddCAS(t) ==
    LET prev == th[t].prev IN
    /\ At(t, "cas") /\ Drained(t)
    /\ IF PointsTo(prev, th[t].cur)
       THEN /\ next' = [next EXCEPT ![prev] = th[t].entry]
            /\ th' = [th EXCEPT ![t] = [Forget(@) EXCEPT !.pc = "clear", !.result = TRUE]]
       ELSE Restart(t) /\ UNCHANGED next
    /\ Breaks(Rule("freshEntry", PointsTo(prev, th[t].cur) \/ Chain(t) = {}))
    /\ UNCHANGED <<marked, key, alloc, hazardVars, late>>
    /\ Watch
-----------------------------------------------------------------------------
(* std_lock_free_list_del                                                  *)

DelMark(t) ==
    LET cur == th[t].cur IN
    /\ At(t, "mark") /\ Drained(t)
    /\ IF PointsTo(cur, th[t].nxt)
       THEN /\ marked' = marked \union {cur}
            /\ th' = [th EXCEPT ![t].pc = "unlink", ![t].result = TRUE]
       ELSE Restart(t) /\ UNCHANGED marked
    /\ UNCHANGED <<next, key, alloc, hazardVars, late, broken>>
    /\ Watch

\* Mutant: retires the node whether or not it could be unlinked.
Faulty_DelUnlinkRetiresAnyway(t) ==
    LET prev == th[t].prev
        cur  == th[t].cur IN
    /\ At(t, "unlink") /\ Drained(t)
    /\ next' = IF PointsTo(prev, cur) THEN [next EXCEPT ![prev] = th[t].nxt] ELSE next
    /\ retired' = [retired EXCEPT ![t] = <<cur>> \o @]
    /\ th' = [th EXCEPT ![t] = [Forget(@) EXCEPT !.pc = "scan", !.i = 1]]
    /\ UNCHANGED <<marked, key, alloc, hp, late, broken>>
    /\ Watch

DelUnlink(t) ==
    LET prev == th[t].prev
        cur  == th[t].cur IN
    /\ At(t, "unlink") /\ Drained(t)
    /\ IF PointsTo(prev, cur)
       THEN /\ next' = [next EXCEPT ![prev] = th[t].nxt]
            /\ retired' = [retired EXCEPT ![t] = <<cur>> \o @]
            /\ th' = [th EXCEPT ![t] = [Forget(@) EXCEPT !.pc = "scan", !.i = 1]]
       ELSE Restart(t) /\ UNCHANGED <<next, retired>>
    /\ UNCHANGED <<marked, key, alloc, hp, late, broken>>
    /\ Watch
-----------------------------------------------------------------------------
(* std_hazard_gc: slot counts the hazard pointers of the other threads, in   *)
(* the order of the array.                                                   *)

LastSlot == 3 * (NumThreads - 1) - 1

HazardPtr(t, slot) ==
    LET u == slot \div 3 + 1
    IN  hp[IF u < t THEN u ELSE u + 1][slot % 3]

\* hazard_conflict finds the node published: on to the next retired node.
Conflict(t) ==
    LET p == retired[t][th[t].i] IN
    /\ At(t, "scan") /\ Load(t)
    /\ th[t].i <= Len(retired[t]) /\ th[t].slot <= LastSlot
    /\ HazardPtr(t, th[t].slot) = p
    /\ th' = [th EXCEPT ![t].i = @ + 1, ![t].slot = 0]
    /\ UNCHANGED <<listVars, hazardVars, late>>

NoConflict(t) ==
    LET p == retired[t][th[t].i] IN
    /\ At(t, "scan") /\ Load(t)
    /\ th[t].i <= Len(retired[t]) /\ th[t].slot < LastSlot
    /\ HazardPtr(t, th[t].slot) # p
    /\ th' = [th EXCEPT ![t].slot = @ + 1]
    /\ UNCHANGED <<listVars, hazardVars, late>>

\* What freed memory holds is not modelled.
Free(t) ==
    LET i == th[t].i
        p == retired[t][i] IN
    /\ At(t, "scan") /\ Load(t)
    /\ i <= Len(retired[t]) /\ th[t].slot >= LastSlot
    /\ LastSlot >= 0 => HazardPtr(t, LastSlot) # p
    /\ alloc' = alloc \ {p}
    /\ next' = [next EXCEPT ![p] = Null]
    /\ marked' = marked \ {p}
    /\ key' = [key EXCEPT ![p] = 0]
    /\ retired' = [retired EXCEPT ![t] = RemoveAt(@, i)]
    /\ th' = [th EXCEPT ![t].slot = 0]
    /\ UNCHANGED <<hp, late, seen>>

GcDone(t) ==
    /\ At(t, "scan") /\ th[t].i > Len(retired[t])
    /\ th' = [th EXCEPT ![t].pc = "clear", ![t].i = 0]
    /\ UNCHANGED <<listVars, hazardVars, late, broken>>
-----------------------------------------------------------------------------
\* The call clears its hazard pointers, in one step here, since it reads nothing
\* through them any more, and returns.
Return(t) ==
    LET unused == (IF th[t].result THEN {} ELSE {th[t].entry}) \ {Null} IN
    /\ At(t, "clear") /\ Drained(t)
    /\ hp' = [hp EXCEPT ![t] = [s \in HazardSlots |-> Null]]
    /\ th' = [th EXCEPT ![t] = Idle]
    /\ seen' = [seen EXCEPT ![t] = {}]
    /\ alloc' = alloc \ unused
    /\ next' = [n \in DOMAIN next |-> IF n \in unused THEN Null ELSE next[n]]
    /\ key' = [n \in Nodes |-> IF n \in unused THEN 0 ELSE key[n]]
    /\ UNCHANGED <<marked, late, retired, broken>>

Step(t) ==
    \/ FindStart(t) \/ CheckHead(t) \/ LoadNext(t) \/ CheckNext(t)
    \/ PrevLost(t) \/ Compare(t) \/ Advance(t)
    \/ AddLink(t) \/ AddCAS(t) \/ DelMark(t) \/ DelUnlink(t)
    \/ Conflict(t) \/ NoConflict(t) \/ Free(t) \/ GcDone(t)
    \/ Return(t)

Call(t) == \E k \in Keys : CallFind(t, k) \/ CallAdd(t, k) \/ CallDel(t, k)

Next == \E t \in Threads : Call(t) \/ Step(t) \/ Flush(t)

Fairness == \A t \in Threads : WF_vars(Step(t)) /\ WF_vars(Flush(t))

SafeSpec == Init /\ [][Next]_vars
Spec == SafeSpec /\ Fairness
-----------------------------------------------------------------------------
Places == {"idle", "start", "checkHead", "load", "checkNext", "compare", "link",
           "cas", "mark", "unlink", "scan", "clear"}

\* Every variable holds what its C declaration and the protocol allow.
TypeOK ==
    LET NodeOrNull == Nodes \union {Null} IN
    /\ next \in [Nodes \union {head} -> NodeOrNull]
    /\ marked \subseteq Nodes /\ alloc \subseteq Nodes
    /\ key \in [Nodes -> Keys \union {0}]
    /\ hp \in [Threads -> [HazardSlots -> NodeOrNull]]
    /\ broken \subseteq Rules
    /\ \A t \in Threads :
        /\ late[t] \in Seq(HazardSlots \X NodeOrNull)
        /\ retired[t] \in Seq(Nodes)
        /\ seen[t] \subseteq BOOLEAN
        /\ th[t] \in [pc : Places, op : {"none", "find", "add", "del"},
                      key : Keys \union {0}, entry : NodeOrNull,
                      prev : NodeOrNull \union {head}, cur : NodeOrNull, nxt : NodeOrNull,
                      result : BOOLEAN, i : 0 .. Cardinality(Nodes) + 1,
                      slot : 0 .. 3 * NumThreads]

\* The nodes whose memory the next step of a thread reads or writes.
Touches(t) ==
    CASE th[t].pc \in {"load", "checkNext", "mark"} -> {th[t].cur}
      [] th[t].pc = "compare" -> {th[t].cur, th[t].prev} \ {head}
      [] th[t].pc = "unlink" -> {th[t].prev} \ {head}
      [] th[t].pc = "cas" -> {th[t].entry, th[t].prev} \ {head}
      [] th[t].pc = "link" -> {th[t].entry}
                                \union (IF th[t].cur = Null THEN {} ELSE Chain(t))
      [] OTHER -> {}

\* "safe to free" (std_hazard_ptr.c:111): nobody reads or writes a node after
\* it has been freed.
NoFreedAccess == \A t \in Threads : Touches(t) \subseteq alloc

\* What a walk meets is allocated memory, in the order of the keys, each
\* address and each key that counts once: the list has no ring, and nothing
\* that was freed hangs in it.
WellFormed ==
    /\ Reachable \subseteq alloc
    /\ \A n \in Reachable : n \notin From(next[n])
    /\ \A m, n \in Reachable \ marked : n \in From(next[m]) => key[m] < key[n]

\* A node waits to be freed in one place only, and only after it has been taken
\* out of the list: what std_hazard_gc frees is freed once.
RetiredOnce ==
    /\ \A t, u \in Threads : \A i \in DOMAIN retired[t], j \in DOMAIN retired[u] :
            retired[t][i] = retired[u][j] => t = u /\ i = j
    /\ \A t \in Threads : ToSet(retired[t]) \subseteq (alloc \intersect marked) \ Reachable

\* The list behaves as one atomic set of keys (KeySet), as long as the rules are
\* kept.  An add has taken effect when its CAS has succeeded, a deletion when it
\* has set the mark.
Abstract ==
    INSTANCE KeySet WITH
        keys <- Present,
        call <- [t \in Threads |->
                    CASE th[t].result -> "yes"
                      [] At(t, "clear") /\ ~th[t].result -> "no"
                      [] OTHER -> th[t].op],
        arg <- [t \in Threads |-> th[t].key]

ImplementsKeySet ==
    /\ Abstract!Init
    /\ [][Clean' => [Abstract!Next]_(Abstract!setVars)]_vars

\* "lock-free": as long as some call is under way and the rules are kept, calls go
\* on returning, if each thread goes on running.
LockFree ==
    \/ <>~Clean
    \/ <>[](\A t \in Threads : At(t, "idle"))
    \/ []<><<\E t \in Threads : Return(t)>>_vars
=============================================================================
