------------------------- MODULE LockFreeListProofs -------------------------
(***************************************************************************)
(* Proofs about LockFreeList: the safety of the list and of its hazard     *)
(* pointers, with any number of threads, keys and nodes.                   *)
(*                                                                         *)
(* The theorems hold as long as no rule has been broken: no load has      *)
(* overtaken a store of a hazard pointer, and no add has started over with *)
(* an entry whose next pointer is set.  The code sees to neither, so a     *)
(* behaviour may break them; what it did before is as the theorems say.    *)
(* Any calls may meet each other in any place of the list until then.      *)
(*                                                                         *)
(* The argument: a node is in one of four states, not allocated, pending   *)
(* (an entry), listed, or retired.  Shape says how the listed ones hang.   *)
(* A hazard pointer is worth something only if it was set while the node   *)
(* was listed: Safe says that everybody who has retired the node since     *)
(* has yet to come to that pointer.  It is handed on upwards, from slot 0  *)
(* to 1 to 2, the way std_hazard_gc goes.                                  *)
(***************************************************************************)
EXTENDS LockFreeList, FiniteSetTheorems, TLAPS

\* A pointer to a node.
NodeOrNull == Nodes \union {Null}

\* What th says of a thread, with i and slot any numbers.
Local == [pc : Places, op : {"none", "find", "add", "del"}, key : Keys \union {0},
          entry : NodeOrNull, prev : NodeOrNull \union {head}, cur : NodeOrNull, nxt : NodeOrNull,
          result : BOOLEAN, i : Nat, slot : Nat]

\* TypeOK, apart from the bounds of i and slot.
Types ==
    /\ next \in [Nodes \union {head} -> NodeOrNull]
    /\ marked \in SUBSET Nodes /\ alloc \in SUBSET Nodes
    /\ key \in [Nodes -> Keys \union {0}]
    /\ hp \in [Threads -> [HazardSlots -> NodeOrNull]]
    /\ late \in [Threads -> Seq(HazardSlots \X NodeOrNull)]
    /\ retired \in [Threads -> Seq(Nodes)]
    /\ seen \in [Threads -> SUBSET BOOLEAN]
    /\ th \in [Threads -> Local]

\* A step of t leaves the other threads where they are, and t's call what it is.
Moves(t, place, result) ==
    /\ \A u \in Threads \ {t} : th'[u] = th[u]
    /\ th'[t].op = th[t].op /\ th'[t].key = th[t].key /\ th'[t].entry = th[t].entry
    /\ th'[t].pc = place /\ th'[t].result = result
    /\ th' \in [Threads -> Local]

\* The three pointers of inline_find that t holds after the step, ...
Walks(t, prev, cur, nxt) ==
    th'[t].prev = prev /\ th'[t].cur = cur /\ th'[t].nxt = nxt

\* ... and where std_hazard_gc stands.
Scans(t, i, slot) == th'[t].i = i /\ th'[t].slot = slot

\* A step that std_hazard_gc has no part in.
Stands(t) == Scans(t, th[t].i, th[t].slot)

\* The stores of hazard pointers that t has under way after the step.
Stores(t, stores) ==
    /\ late' \in [Threads -> Seq(HazardSlots \X NodeOrNull)]
    /\ late'[t] = stores /\ \A u \in Threads \ {t} : late'[u] = late[u]

\* The step writes neither the nodes nor the lists of retired ones.
SameMemory == UNCHANGED <<next, marked, key, alloc, retired>>

\* The step sends t back to try_again.
Restarts(t) == Moves(t, "start", th[t].result) /\ Walks(t, Null, Null, Null) /\ Stands(t)

\* A step that replaces what one thread holds.
LEMMA PutLocal ==
    ASSUME Types, NEW t \in Threads, NEW r \in Local, th' = [th EXCEPT ![t] = r]
    PROVE  /\ \A u \in Threads \ {t} : th'[u] = th[u]
           /\ th'[t] = r /\ th' \in [Threads -> Local]
BY DEF Types

\* Forget clears the three pointers, and nothing else.
LEMMA ForgetIs ==
    ASSUME NEW r \in Local
    PROVE  /\ Forget(r) \in Local
           /\ Forget(r).pc = r.pc /\ Forget(r).op = r.op /\ Forget(r).key = r.key
           /\ Forget(r).entry = r.entry /\ Forget(r).result = r.result
           /\ Forget(r).i = r.i /\ Forget(r).slot = r.slot
           /\ Forget(r).prev = Null /\ Forget(r).cur = Null /\ Forget(r).nxt = Null
BY DEF Local, Forget, NodeOrNull

\* Restart, in these terms.
LEMMA RestartDoes ==
    ASSUME Types, NEW t \in Threads, Restart(t)
    PROVE  Restarts(t)
<1> DEFINE f == Forget(th[t])
<1> DEFINE r == [f EXCEPT !.pc = "start"]
<1>1. th[t] \in Local BY DEF Types
<1>2. f \in Local BY <1>1, ForgetIs
<1>3. /\ r \in Local /\ r.pc = "start" /\ r.op = f.op /\ r.key = f.key /\ r.entry = f.entry
      /\ r.result = f.result /\ r.i = f.i /\ r.slot = f.slot
      /\ r.prev = f.prev /\ r.cur = f.cur /\ r.nxt = f.nxt
    <2> HIDE DEF f
    <2> QED BY <1>2 DEF Local, Places
<1>4. th' = [th EXCEPT ![t] = r] BY <1>1 DEF Restart, Types
<1> HIDE DEF r
<1>5. /\ \A u \in Threads \ {t} : th'[u] = th[u]
      /\ th'[t] = r /\ th' \in [Threads -> Local]
    BY <1>3, <1>4, PutLocal
<1> QED BY <1>1, <1>3, <1>5, ForgetIs DEF Restarts, Moves, Walks, Scans, Stands

\* A load that breaks no rule finds the buffer of its thread empty.
LEMMA Waits ==
    ASSUME Clean', NEW t \in Threads, Load(t)
    PROVE  late[t] = <<>>
BY DEF Load, Drained, Clean, Breaks, Rule

\* What Store does to a buffer that is empty.
LEMMA StoreDoes ==
    ASSUME Types, NEW t \in Threads, late[t] = <<>>,
           NEW stores \in Seq(HazardSlots \X NodeOrNull), Store(t, stores)
    PROVE  Stores(t, stores)
<1>1. late[t] \o stores = stores
  BY DEF Types
<1>2. late' = [late EXCEPT ![t] = stores]
  BY <1>1 DEF Store
<1> QED BY <1>2 DEF Types, Stores

\* What each step of std_lock_free_list_inline_find does, field by field.
LEMMA FindStartDoes ==
    ASSUME Types, Clean', LockFreeListAssumption, NEW t \in Threads, FindStart(t)
    PROVE  /\ th[t].pc = "start" /\ late[t] = <<>>
           /\ Moves(t, "checkHead", th[t].result) /\ Walks(t, head, next[head], th[t].nxt)
           /\ Stands(t) /\ Stores(t, <<<<1, next[head]>>>>)
           /\ SameMemory /\ hp' = hp /\ seen' = seen
<1>1. th[t] \in Local /\ next[head] \in NodeOrNull
  BY DEF Types
<1> DEFINE r == [th[t] EXCEPT !.prev = head, !.cur = next[head], !.pc = "checkHead"]
<1>2. r \in Local
  BY <1>1 DEF Local, Places, NodeOrNull
<1>3. th' = [th EXCEPT ![t] = r]
  BY <1>1 DEF FindStart, Types
<1>4. /\ \A u \in Threads \ {t} : th'[u] = th[u]
      /\ th'[t] = r /\ th' \in [Threads -> Local]
  <2> HIDE DEF r
  <2> QED BY <1>2, <1>3, PutLocal
<1>5. Moves(t, "checkHead", th[t].result) /\ Walks(t, head, next[head], th[t].nxt) /\ Stands(t)
  BY <1>1, <1>4 DEF Moves, Walks, Scans, Stands, Local
<1>6. late[t] = <<>>
  BY Waits DEF FindStart
<1>7. <<<<1, next[head]>>>> \in Seq(HazardSlots \X NodeOrNull)
  BY <1>1 DEF HazardSlots
<1>8. Stores(t, <<<<1, next[head]>>>>)
  BY <1>6, <1>7, StoreDoes DEF FindStart
<1> QED BY <1>5, <1>6, <1>8 DEF FindStart, At, SameMemory, listVars, hazardVars

\* Where find leaves a call.
Ends(t, prev, cur, nxt, found) ==
    \/ /\ th[t].op = "add" /\ ~found
       /\ Moves(t, "link", th[t].result) /\ Walks(t, prev, cur, nxt) /\ Stands(t)
    \/ /\ th[t].op = "del" /\ found /\ ~th[t].result
       /\ Moves(t, "mark", th[t].result) /\ Walks(t, prev, cur, nxt) /\ Stands(t)
    \/ /\ ~(th[t].op = "add" /\ ~found) /\ ~(th[t].op = "del" /\ found /\ ~th[t].result)
       /\ Moves(t, "clear", IF th[t].op = "find" THEN found ELSE th[t].result)
       /\ Walks(t, Null, Null, Null) /\ Stands(t)

\* GoOn, field by field: the walk has come to its end, or reads the next node.
GoesOn(t, prev, cur, nxt) ==
    \/ cur = Null /\ Ends(t, prev, cur, nxt, FALSE)
    \/ /\ cur # Null
       /\ Moves(t, "load", th[t].result) /\ Walks(t, prev, cur, nxt) /\ Stands(t)

\* r is what t holds, apart from the pointers and the place.
SameCall(t, r) ==
    /\ r.op = th[t].op /\ r.key = th[t].key /\ r.entry = th[t].entry
    /\ r.result = th[t].result /\ r.i = th[t].i /\ r.slot = th[t].slot

\* A record with a new place and result.
Updated(r, place, result) == [r EXCEPT !.pc = place, !.result = result]

\* The other fields of the record stay.
LEMMA UpdateIs ==
    ASSUME NEW r \in Local, NEW place \in Places, NEW result \in BOOLEAN,
           NEW q, q = Updated(r, place, result)
    PROVE  
           /\ q \in Local /\ q.pc = place /\ q.result = result
           /\ q.op = r.op /\ q.key = r.key /\ q.entry = r.entry
           /\ q.i = r.i /\ q.slot = r.slot
           /\ q.prev = r.prev /\ q.cur = r.cur /\ q.nxt = r.nxt
BY DEF Local, Updated

\* FindEnds, field by field.
LEMMA FindEndsDoes ==
    ASSUME Types, NEW t \in Threads, NEW r \in Local, SameCall(t, r),
           NEW found \in BOOLEAN, FindEnds(t, r, found)
    PROVE  Ends(t, r.prev, r.cur, r.nxt, found)
<1> DEFINE place == CASE r.op = "add" /\ ~found -> "link"
                      [] r.op = "del" /\ found /\ ~r.result -> "mark"
                      [] OTHER -> "clear"
           result == IF r.op = "find" THEN found ELSE r.result
           kept == IF place = "clear" THEN Forget(r) ELSE r
           q == Updated(kept, place, result)
<1>1. place \in {"link", "mark", "clear"} /\ result \in BOOLEAN
  BY DEF Local
<1>2. kept \in Local /\ SameCall(t, kept)
  BY ForgetIs DEF SameCall
<1>3. /\ q \in Local /\ q.pc = place /\ q.result = result
      /\ q.op = kept.op /\ q.key = kept.key /\ q.entry = kept.entry
      /\ q.i = kept.i /\ q.slot = kept.slot
      /\ q.prev = kept.prev /\ q.cur = kept.cur /\ q.nxt = kept.nxt
  <2>1. place \in Places
    BY <1>1 DEF Places
  <2> HIDE DEF kept, place, result
  <2> QED BY <1>1, <1>2, <2>1, UpdateIs
<1>4. th' = [th EXCEPT ![t] = q]
  BY DEF FindEnds, Types, Updated
<1>5. /\ \A u \in Threads \ {t} : th'[u] = th[u]
      /\ th'[t] = q /\ th' \in [Threads -> Local]
  <2> HIDE DEF q
  <2> QED BY <1>3, <1>4, PutLocal
<1>6. Moves(t, place, result) /\ Stands(t) /\ Walks(t, kept.prev, kept.cur, kept.nxt)
  <2> HIDE DEF q, kept, place, result
  <2> QED BY <1>2, <1>3, <1>5 DEF Moves, Walks, Scans, Stands, SameCall
<1>7. CASE r.op = "add" /\ ~found
  <2>1. place = "link" /\ result = r.result /\ kept = r
    BY <1>7
  <2> HIDE DEF q, kept, place, result
  <2> QED BY <2>1, <1>6, <1>7 DEF Ends, SameCall
<1>8. CASE r.op = "del" /\ found /\ ~r.result
  <2>1. place = "mark" /\ result = r.result /\ kept = r
    BY <1>8
  <2> HIDE DEF q, kept, place, result
  <2> QED BY <2>1, <1>6, <1>8 DEF Ends, SameCall
<1>9. CASE ~(r.op = "add" /\ ~found) /\ ~(r.op = "del" /\ found /\ ~r.result)
  <2>1. place = "clear" /\ kept = Forget(r)
    BY <1>9
  <2>2. Walks(t, Null, Null, Null)
    <3> HIDE DEF q, kept, place, result
    <3> QED BY <2>1, <1>6, ForgetIs
  <2>3. result = IF th[t].op = "find" THEN found ELSE th[t].result
    BY DEF SameCall
  <2> HIDE DEF q, kept, place, result
  <2> QED BY <2>1, <2>2, <2>3, <1>6, <1>9 DEF Ends, SameCall
<1> QED BY <1>7, <1>8, <1>9

\* GoOn, field by field.
LEMMA GoOnDoes ==
    ASSUME Types, NEW t \in Threads, NEW r \in Local, SameCall(t, r), GoOn(t, r)
    PROVE  GoesOn(t, r.prev, r.cur, r.nxt)
<1>1. CASE r.cur = Null
  <2>1. FindEnds(t, r, FALSE)
    BY <1>1 DEF GoOn
  <2>2. Ends(t, r.prev, r.cur, r.nxt, FALSE)
    BY <2>1, FindEndsDoes
  <2> QED BY <1>1, <2>2 DEF GoesOn
<1>2. CASE r.cur # Null
  <2> DEFINE q == [r EXCEPT !.pc = "load"]
  <2>1. /\ q \in Local /\ q.pc = "load" /\ SameCall(t, q)
        /\ q.prev = r.prev /\ q.cur = r.cur /\ q.nxt = r.nxt
    BY DEF Local, Places, SameCall
  <2>2. th' = [th EXCEPT ![t] = q]
    BY <1>2 DEF GoOn, Types
  <2>3. /\ \A u \in Threads \ {t} : th'[u] = th[u]
        /\ th'[t] = q /\ th' \in [Threads -> Local]
    <3> HIDE DEF q
    <3> QED BY <2>1, <2>2, PutLocal
  <2> HIDE DEF q
  <2> QED BY <1>2, <2>1, <2>3 DEF GoesOn, Moves, Walks, Scans, Stands, SameCall
<1> QED BY <1>1, <1>2

\* CheckHead goes on where head still leads to cur.
LEMMA CheckHeadDoes ==
    ASSUME Types, Clean', NEW t \in Threads, CheckHead(t)
    PROVE  /\ th[t].pc = "checkHead" /\ late[t] = <<>> /\ late' = late
           /\ \/ PointsTo(head, th[t].cur) /\ GoesOn(t, th[t].prev, th[t].cur, th[t].nxt)
              \/ Restarts(t)
           /\ SameMemory /\ hp' = hp /\ seen' = seen
<1>1. th[t] \in Local /\ SameCall(t, th[t])
  BY DEF Types, SameCall
<1>2. CASE PointsTo(head, th[t].cur)
  <2>1. GoOn(t, th[t])
    BY <1>2 DEF CheckHead
  <2>2. GoesOn(t, th[t].prev, th[t].cur, th[t].nxt)
    BY <1>1, <2>1, GoOnDoes
  <2> QED BY <1>2, <2>2, Waits DEF CheckHead, At, SameMemory, listVars, hazardVars
<1>3. CASE ~PointsTo(head, th[t].cur)
  <2>1. Restarts(t)
    BY <1>3, RestartDoes DEF CheckHead
  <2> QED BY <2>1, Waits DEF CheckHead, At, SameMemory, listVars, hazardVars
<1> QED BY <1>2, <1>3

\* Goto moves the thread, and nothing else.
LEMMA GotoDoes ==
    ASSUME Types, NEW t \in Threads, NEW place \in Places, Goto(t, place)
    PROVE  Moves(t, place, th[t].result) /\ Walks(t, th[t].prev, th[t].cur, th[t].nxt) /\ Stands(t)
<1> DEFINE r == [th[t] EXCEPT !.pc = place]
<1>1. th[t] \in Local
  BY DEF Types
<1>2. r \in Local
  BY <1>1 DEF Local
<1>3. th' = [th EXCEPT ![t] = r]
  BY <1>1 DEF Goto, Types
<1>4. /\ \A u \in Threads \ {t} : th'[u] = th[u]
      /\ th'[t] = r /\ th' \in [Threads -> Local]
  <2> HIDE DEF r
  <2> QED BY <1>2, <1>3, PutLocal
<1> QED BY <1>1, <1>4 DEF Moves, Walks, Scans, Stands, Local

\* LoadNext publishes what it has read.
LEMMA LoadNextDoes ==
    ASSUME Types, Clean', NEW t \in Threads, th[t].cur # Null, LoadNext(t)
    PROVE  /\ th[t].pc = "load" /\ late[t] = <<>>
           /\ Moves(t, "checkNext", th[t].result)
           /\ Walks(t, th[t].prev, th[t].cur, next[th[t].cur])
           /\ Stands(t) /\ Stores(t, <<<<0, next[th[t].cur]>>>>)
           /\ SameMemory /\ hp' = hp /\ seen' = seen
<1> DEFINE nxt == next[th[t].cur]
<1>1. th[t] \in Local /\ nxt \in NodeOrNull
  <2>1. th[t] \in Local /\ th[t].cur \in Nodes
    BY DEF Types, Local, NodeOrNull
  <2> QED BY <2>1 DEF Types
<1> DEFINE r == [th[t] EXCEPT !.nxt = nxt, !.pc = "checkNext"]
<1>3. r \in Local
  <2> HIDE DEF nxt
  <2> QED BY <1>1 DEF Local, Places
<1>4. th' = [th EXCEPT ![t] = r]
  BY <1>1 DEF LoadNext, Types
<1>5. Store(t, <<<<0, nxt>>>>) /\ late[t] = <<>>
  BY Waits DEF LoadNext
<1> HIDE DEF nxt
<1>6. /\ \A u \in Threads \ {t} : th'[u] = th[u]
      /\ th'[t] = r /\ th' \in [Threads -> Local]
  <2> HIDE DEF r
  <2> QED BY <1>3, <1>4, PutLocal
<1>7. Moves(t, "checkNext", th[t].result) /\ Walks(t, th[t].prev, th[t].cur, nxt) /\ Stands(t)
  BY <1>1, <1>6 DEF Moves, Walks, Scans, Stands, Local
<1>8. <<<<0, nxt>>>> \in Seq(HazardSlots \X NodeOrNull)
  BY <1>1 DEF HazardSlots
<1>9. Stores(t, <<<<0, nxt>>>>)
  BY <1>5, <1>8, StoreDoes
<1> QED BY <1>5, <1>7, <1>9 DEF LoadNext, At, SameMemory, listVars, hazardVars, nxt

\* CheckNext goes on where cur still leads to next, without a mark.
LEMMA CheckNextDoes ==
    ASSUME Types, Clean', NEW t \in Threads, CheckNext(t)
    PROVE  /\ th[t].pc = "checkNext" /\ late[t] = <<>> /\ late' = late
           /\ \/ /\ PointsTo(th[t].cur, th[t].nxt)
                 /\ Moves(t, "compare", th[t].result)
                 /\ Walks(t, th[t].prev, th[t].cur, th[t].nxt) /\ Stands(t)
              \/ Restarts(t)
           /\ SameMemory /\ hp' = hp /\ seen' = seen
<1>1. CASE PointsTo(th[t].cur, th[t].nxt)
  <2>1. Goto(t, "compare") /\ "compare" \in Places
    BY <1>1 DEF CheckNext, Places
  <2>2. Moves(t, "compare", th[t].result) /\ Walks(t, th[t].prev, th[t].cur, th[t].nxt) /\ Stands(t)
    BY <2>1, GotoDoes
  <2> QED BY <1>1, <2>2, Waits DEF CheckNext, At, SameMemory, listVars, hazardVars
<1>2. CASE ~PointsTo(th[t].cur, th[t].nxt)
  <2>1. Restarts(t)
    BY <1>2, RestartDoes DEF CheckNext
  <2> QED BY <2>1, Waits DEF CheckNext, At, SameMemory, listVars, hazardVars
<1> QED BY <1>1, <1>2

\* PrevLost is a restart.
LEMMA PrevLostDoes ==
    ASSUME Types, Clean', NEW t \in Threads, PrevLost(t)
    PROVE  /\ th[t].pc = "compare" /\ late[t] = <<>> /\ late' = late
           /\ Restarts(t)
           /\ SameMemory /\ hp' = hp /\ seen' = seen
BY RestartDoes, Waits DEF PrevLost, At, SameMemory, listVars, hazardVars

\* Compare ends the walk.
LEMMA CompareDoes ==
    ASSUME Types, Clean', NEW t \in Threads, Compare(t)
    PROVE  /\ th[t].pc = "compare" /\ late[t] = <<>> /\ late' = late
           /\ PointsTo(th[t].prev, th[t].cur) /\ key[th[t].cur] >= th[t].key
           /\ Ends(t, th[t].prev, th[t].cur, th[t].nxt, key[th[t].cur] = th[t].key)
           /\ SameMemory /\ hp' = hp /\ seen' = seen
<1>1. th[t] \in Local /\ SameCall(t, th[t])
  BY DEF Types, SameCall
<1> DEFINE found == key[th[t].cur] = th[t].key
<1>2. FindEnds(t, th[t], found) /\ found \in BOOLEAN
  BY DEF Compare
<1> HIDE DEF found
<1>3. Ends(t, th[t].prev, th[t].cur, th[t].nxt, found)
  BY <1>1, <1>2, FindEndsDoes
<1> QED BY <1>3, Waits DEF Compare, At, SameMemory, listVars, hazardVars, found

\* Advance publishes cur as prev, and next as cur.
LEMMA AdvanceDoes ==
    ASSUME Types, Clean', NEW t \in Threads, th[t].cur # Null, Advance(t)
    PROVE  /\ th[t].pc = "compare" /\ late[t] = <<>>
           /\ PointsTo(th[t].prev, th[t].cur) /\ key[th[t].cur] < th[t].key
           /\ GoesOn(t, th[t].cur, th[t].nxt, Null)
           /\ Stores(t, <<<<2, th[t].cur>>, <<1, th[t].nxt>>>>)
           /\ SameMemory /\ hp' = hp /\ seen' = seen
<1>1. th[t] \in Local
  BY DEF Types
<1>2. th[t].cur \in Nodes /\ th[t].nxt \in NodeOrNull
  BY <1>1 DEF Local, NodeOrNull
<1> DEFINE r == [th[t] EXCEPT !.prev = th[t].cur, !.cur = th[t].nxt, !.nxt = Null]
<1>3. /\ r \in Local /\ SameCall(t, r)
      /\ r.prev = th[t].cur /\ r.cur = th[t].nxt /\ r.nxt = Null
  BY <1>1, <1>2 DEF Local, SameCall, NodeOrNull
<1>4. GoOn(t, r)
  BY DEF Advance
<1>5. GoesOn(t, r.prev, r.cur, r.nxt)
  <2> HIDE DEF r
  <2> QED BY <1>3, <1>4, GoOnDoes
<1>6. GoesOn(t, th[t].cur, th[t].nxt, Null)
  <2> HIDE DEF r
  <2> QED BY <1>3, <1>5
<1>7. late[t] = <<>>
  BY Waits DEF Advance
<1>8. <<<<2, th[t].cur>>, <<1, th[t].nxt>>>> \in Seq(HazardSlots \X NodeOrNull)
  BY <1>2 DEF HazardSlots, NodeOrNull
<1>9. Stores(t, <<<<2, th[t].cur>>, <<1, th[t].nxt>>>>)
  BY <1>7, <1>8, StoreDoes DEF Advance
<1> QED BY <1>6, <1>7, <1>9 DEF Advance, At, SameMemory, listVars, hazardVars

\* A walk that starts with NULL meets no node.
LEMMA FromNull == LockFreeListAssumption => From(Null) = {}
<1> SUFFICES ASSUME LockFreeListAssumption, NEW m \in From(Null)
             PROVE  FALSE
  OBVIOUS
<1>1. {} \in SUBSET Nodes /\ Null \in {} \union {Null} /\ \A p \in {} : next[p] \in {} \union {Null}
  OBVIOUS
<1> QED BY <1>1 DEF From

\* A walk that starts with a node meets that node.
LEMMA FromSelf ==
    ASSUME LockFreeListAssumption, NEW n \in Nodes
    PROVE  n \in From(n)
BY DEF From, LockFreeListAssumption

\* AddLink, for an entry whose next pointer is NULL: it has no chain.
LEMMA AddLinkDoes ==
    ASSUME Types, LockFreeListAssumption, NEW t \in Threads, AddLink(t),
           next[th[t].entry] = Null
    PROVE  /\ th[t].pc = "link" /\ late' = late
           /\ next' = [next EXCEPT ![th[t].entry] = th[t].cur]
           /\ Moves(t, "cas", th[t].result)
           /\ Walks(t, th[t].prev, th[t].cur, th[t].nxt) /\ Stands(t)
           /\ UNCHANGED <<marked, key, alloc, hp, retired>> /\ Watch
<1>1. Chain(t) = {} /\ LinkAt(t) = {th[t].entry}
  <2>1. Chain(t) = {}
    BY FromNull DEF Chain
  <2> QED BY <2>1 DEF LinkAt
<1>2. Goto(t, "cas") /\ "cas" \in Places
  BY DEF AddLink, Places
<1>3. Moves(t, "cas", th[t].result) /\ Walks(t, th[t].prev, th[t].cur, th[t].nxt) /\ Stands(t)
  BY <1>2, GotoDoes
<1>4. next' = [next EXCEPT ![th[t].entry] = th[t].cur]
  BY <1>1 DEF AddLink
<1> QED BY <1>3, <1>4 DEF AddLink, At, hazardVars

\* A record with a new place, and the result TRUE.
Succeeded(r, place) == [r EXCEPT !.pc = place, !.result = TRUE]

\* The other fields of the record stay.
LEMMA UpdateTrue ==
    ASSUME NEW r \in Local, NEW place \in Places, NEW q, q = Succeeded(r, place)
    PROVE  /\ q \in Local /\ q.pc = place /\ q.result
           /\ q.op = r.op /\ q.key = r.key /\ q.entry = r.entry
           /\ q.i = r.i /\ q.slot = r.slot
           /\ q.prev = r.prev /\ q.cur = r.cur /\ q.nxt = r.nxt
BY DEF Local, Succeeded

\* What the two outcomes of each CAS do.
LEMMA AddCASDoes ==
    ASSUME Types, NEW t \in Threads, AddCAS(t)
    PROVE  /\ th[t].pc = "cas" /\ late[t] = <<>> /\ late' = late
           /\ \/ /\ PointsTo(th[t].prev, th[t].cur)
                 /\ next' = [next EXCEPT ![th[t].prev] = th[t].entry]
                 /\ Moves(t, "clear", TRUE) /\ Walks(t, Null, Null, Null) /\ Stands(t)
              \/ /\ ~PointsTo(th[t].prev, th[t].cur) /\ (Clean' => Chain(t) = {})
                 /\ next' = next /\ Restarts(t)
           /\ UNCHANGED <<marked, key, alloc, hp, retired>> /\ Watch
<1>1. CASE PointsTo(th[t].prev, th[t].cur)
  <2> DEFINE f == Forget(th[t])
             r == [f EXCEPT !.pc = "clear", !.result = TRUE]
  <2>1. th[t] \in Local
    BY DEF Types
  <2>2. r = Succeeded(f, "clear") /\ f \in Local
    BY <2>1, ForgetIs DEF Succeeded
  <2>3. th' = [th EXCEPT ![t] = r]
    BY <1>1, <2>1 DEF AddCAS, Types
  <2>4. /\ r \in Local /\ r.pc = "clear" /\ r.result
        /\ r.op = f.op /\ r.key = f.key /\ r.entry = f.entry
        /\ r.i = f.i /\ r.slot = f.slot
        /\ r.prev = f.prev /\ r.cur = f.cur /\ r.nxt = f.nxt
    <3>1. "clear" \in Places
      BY DEF Places
    <3> HIDE DEF r, f
    <3> QED BY <2>2, <3>1, UpdateTrue
  <2> HIDE DEF r
  <2>5. /\ \A u \in Threads \ {t} : th'[u] = th[u]
        /\ th'[t] = r /\ th' \in [Threads -> Local]
    BY <2>3, <2>4, PutLocal
  <2>6. Moves(t, "clear", TRUE) /\ Walks(t, Null, Null, Null) /\ Stands(t)
    BY <2>1, <2>4, <2>5, ForgetIs DEF Moves, Walks, Scans, Stands
  <2> QED BY <1>1, <2>6 DEF AddCAS, At, hazardVars, Drained
<1>2. CASE ~PointsTo(th[t].prev, th[t].cur)
  <2>1. Restarts(t)
    BY <1>2, RestartDoes DEF AddCAS
  <2>2. Clean' => Chain(t) = {}
    BY <1>2 DEF AddCAS, Breaks, Rule, Clean
  <2> QED BY <1>2, <2>1, <2>2 DEF AddCAS, At, hazardVars, Drained
<1> QED BY <1>1, <1>2

\* The mark is set, or the call starts again.
LEMMA DelMarkDoes ==
    ASSUME Types, NEW t \in Threads, DelMark(t)
    PROVE  /\ th[t].pc = "mark" /\ late[t] = <<>> /\ late' = late
           /\ \/ /\ PointsTo(th[t].cur, th[t].nxt)
                 /\ marked' = marked \union {th[t].cur}
                 /\ Moves(t, "unlink", TRUE)
                 /\ Walks(t, th[t].prev, th[t].cur, th[t].nxt) /\ Stands(t)
              \/ marked' = marked /\ Restarts(t)
           /\ UNCHANGED <<next, key, alloc, hp, retired>> /\ Watch
<1>1. CASE PointsTo(th[t].cur, th[t].nxt)
  <2> DEFINE r == [th[t] EXCEPT !.pc = "unlink", !.result = TRUE]
  <2>1. th[t] \in Local
    BY DEF Types
  <2>2. r = Succeeded(th[t], "unlink")
    BY DEF Succeeded
  <2>3. th' = [th EXCEPT ![t] = r]
    BY <1>1, <2>1 DEF DelMark, Types
  <2> HIDE DEF r
  <2>4. /\ r \in Local /\ r.pc = "unlink" /\ r.result
        /\ r.op = th[t].op /\ r.key = th[t].key /\ r.entry = th[t].entry
        /\ r.i = th[t].i /\ r.slot = th[t].slot
        /\ r.prev = th[t].prev /\ r.cur = th[t].cur /\ r.nxt = th[t].nxt
    <3>1. "unlink" \in Places
      BY DEF Places
    <3> QED BY <2>1, <2>2, <3>1, UpdateTrue
  <2>5. /\ \A u \in Threads \ {t} : th'[u] = th[u]
        /\ th'[t] = r /\ th' \in [Threads -> Local]
    BY <2>3, <2>4, PutLocal
  <2>6. /\ Moves(t, "unlink", TRUE) /\ Walks(t, th[t].prev, th[t].cur, th[t].nxt)
        /\ Stands(t)
    BY <2>4, <2>5 DEF Moves, Walks, Scans, Stands
  <2> QED BY <1>1, <2>6 DEF DelMark, At, hazardVars, Drained
<1>2. CASE ~PointsTo(th[t].cur, th[t].nxt)
  <2>1. Restarts(t)
    BY <1>2, RestartDoes DEF DelMark
  <2> QED BY <1>2, <2>1 DEF DelMark, At, hazardVars, Drained
<1> QED BY <1>1, <1>2

\* The node is taken out and retired, or the call starts again.
LEMMA DelUnlinkDoes ==
    ASSUME Types, NEW t \in Threads, DelUnlink(t)
    PROVE  /\ th[t].pc = "unlink" /\ late[t] = <<>> /\ late' = late
           /\ \/ /\ PointsTo(th[t].prev, th[t].cur)
                 /\ next' = [next EXCEPT ![th[t].prev] = th[t].nxt]
                 /\ retired' = [retired EXCEPT ![t] = <<th[t].cur>> \o @]
                 /\ Moves(t, "scan", th[t].result) /\ Walks(t, Null, Null, Null)
                 /\ Scans(t, 1, th[t].slot)
              \/ next' = next /\ retired' = retired /\ Restarts(t)
           /\ UNCHANGED <<marked, key, alloc, hp>> /\ Watch
<1>1. CASE PointsTo(th[t].prev, th[t].cur)
  <2> DEFINE f == Forget(th[t])
             r == [f EXCEPT !.pc = "scan", !.i = 1]
  <2>1. th[t] \in Local /\ f \in Local
    BY ForgetIs DEF Types
  <2>3. th' = [th EXCEPT ![t] = r]
    BY <1>1, <2>1 DEF DelUnlink, Types
  <2>4. /\ r \in Local /\ r.pc = "scan" /\ r.result = f.result
        /\ r.op = f.op /\ r.key = f.key /\ r.entry = f.entry
        /\ r.i = 1 /\ r.slot = f.slot
        /\ r.prev = f.prev /\ r.cur = f.cur /\ r.nxt = f.nxt
    <3> HIDE DEF f
    <3> QED BY <2>1 DEF Local, Places
  <2> HIDE DEF r
  <2>5. /\ \A u \in Threads \ {t} : th'[u] = th[u]
        /\ th'[t] = r /\ th' \in [Threads -> Local]
    BY <2>3, <2>4, PutLocal
  <2>6. /\ Moves(t, "scan", th[t].result) /\ Walks(t, Null, Null, Null)
        /\ Scans(t, 1, th[t].slot)
    BY <2>1, <2>4, <2>5, ForgetIs DEF Moves, Walks, Scans, Stands
  <2> QED BY <1>1, <2>6 DEF DelUnlink, At, Drained
<1>2. CASE ~PointsTo(th[t].prev, th[t].cur)
  <2>1. Restarts(t)
    BY <1>2, RestartDoes DEF DelUnlink
  <2> QED BY <1>2, <2>1 DEF DelUnlink, At, Drained
<1> QED BY <1>1, <1>2

\* A step of std_hazard_gc moves i and slot.
LEMMA ScanStepDoes ==
    ASSUME Types, NEW t \in Threads, NEW place \in Places, NEW i \in Nat, NEW slot \in Nat,
           th' = [th EXCEPT ![t] = [th[t] EXCEPT !.pc = place, !.i = i, !.slot = slot]]
    PROVE  /\ Moves(t, place, th[t].result) /\ Walks(t, th[t].prev, th[t].cur, th[t].nxt)
           /\ Scans(t, i, slot)
<1> DEFINE r == [th[t] EXCEPT !.pc = place, !.i = i, !.slot = slot]
<1>1. th[t] \in Local
  BY DEF Types
<1>2. r \in Local
  BY <1>1 DEF Local
<1>4. /\ \A u \in Threads \ {t} : th'[u] = th[u]
      /\ th'[t] = r /\ th' \in [Threads -> Local]
  <2> HIDE DEF r
  <2> QED BY <1>2, PutLocal DEF r
<1> QED BY <1>1, <1>4 DEF Moves, Walks, Scans, Local

\* Conflict goes on to the next retired node.
LEMMA ConflictDoes ==
    ASSUME Types, Clean', NEW t \in Threads, Conflict(t)
    PROVE  /\ th[t].pc = "scan" /\ late[t] = <<>> /\ late' = late
           /\ th[t].i <= Len(retired[t]) /\ th[t].slot <= LastSlot
           /\ Moves(t, "scan", th[t].result) /\ Walks(t, th[t].prev, th[t].cur, th[t].nxt)
           /\ Scans(t, th[t].i + 1, 0)
           /\ SameMemory /\ hp' = hp /\ seen' = seen
<1>1. th[t] \in Local /\ th[t].pc = "scan" /\ "scan" \in Places /\ th[t].i + 1 \in Nat
  BY DEF Types, Local, Conflict, At, Places
<1>2. th' = [th EXCEPT ![t] = [th[t] EXCEPT !.pc = "scan", !.i = th[t].i + 1, !.slot = 0]]
  <2>1. [th[t] EXCEPT !.i = th[t].i + 1, !.slot = 0]
            = [th[t] EXCEPT !.pc = "scan", !.i = th[t].i + 1, !.slot = 0]
    BY <1>1 DEF Local
  <2>2. th' = [th EXCEPT ![t] = [th[t] EXCEPT !.i = th[t].i + 1, !.slot = 0]]
    BY <1>1 DEF Conflict, Types
  <2> QED BY <2>1, <2>2
<1>3. /\ Moves(t, "scan", th[t].result) /\ Walks(t, th[t].prev, th[t].cur, th[t].nxt)
      /\ Scans(t, th[t].i + 1, 0)
  BY <1>1, <1>2, ScanStepDoes
<1> QED BY <1>3, Waits DEF Conflict, At, SameMemory, listVars, hazardVars

\* NoConflict goes on to the next hazard pointer.
LEMMA NoConflictDoes ==
    ASSUME Types, Clean', NEW t \in Threads, NoConflict(t)
    PROVE  /\ th[t].pc = "scan" /\ late[t] = <<>> /\ late' = late
           /\ th[t].i <= Len(retired[t]) /\ th[t].slot < LastSlot
           /\ HazardPtr(t, th[t].slot) # retired[t][th[t].i]
           /\ Moves(t, "scan", th[t].result) /\ Walks(t, th[t].prev, th[t].cur, th[t].nxt)
           /\ Scans(t, th[t].i, th[t].slot + 1)
           /\ SameMemory /\ hp' = hp /\ seen' = seen
<1>1. /\ th[t] \in Local /\ th[t].pc = "scan" /\ "scan" \in Places
      /\ th[t].slot + 1 \in Nat /\ th[t].i \in Nat
  BY DEF Types, Local, NoConflict, At, Places
<1>2. th' = [th EXCEPT ![t] = [th[t] EXCEPT !.pc = "scan", !.i = th[t].i, !.slot = th[t].slot + 1]]
  <2>1. [th[t] EXCEPT !.slot = th[t].slot + 1]
            = [th[t] EXCEPT !.pc = "scan", !.i = th[t].i, !.slot = th[t].slot + 1]
    BY <1>1 DEF Local
  <2>2. th' = [th EXCEPT ![t] = [th[t] EXCEPT !.slot = th[t].slot + 1]]
    BY <1>1 DEF NoConflict, Types
  <2> QED BY <2>1, <2>2
<1>3. /\ Moves(t, "scan", th[t].result) /\ Walks(t, th[t].prev, th[t].cur, th[t].nxt)
      /\ Scans(t, th[t].i, th[t].slot + 1)
  BY <1>1, <1>2, ScanStepDoes
<1> QED BY <1>3, Waits DEF NoConflict, At, SameMemory, listVars, hazardVars

\* Free has come to the last hazard pointer.
LEMMA FreeDoes ==
    ASSUME Types, Clean', NEW t \in Threads, Free(t)
    PROVE  /\ th[t].pc = "scan" /\ late[t] = <<>> /\ late' = late
           /\ th[t].i <= Len(retired[t]) /\ th[t].slot >= LastSlot
           /\ LastSlot >= 0 => HazardPtr(t, LastSlot) # retired[t][th[t].i]
           /\ alloc' = alloc \ {retired[t][th[t].i]}
           /\ next' = [next EXCEPT ![retired[t][th[t].i]] = Null]
           /\ marked' = marked \ {retired[t][th[t].i]}
           /\ key' = [key EXCEPT ![retired[t][th[t].i]] = 0]
           /\ retired' = [retired EXCEPT ![t] = RemoveAt(@, th[t].i)]
           /\ Moves(t, "scan", th[t].result) /\ Walks(t, th[t].prev, th[t].cur, th[t].nxt)
           /\ Scans(t, th[t].i, 0)
           /\ hp' = hp /\ seen' = seen
<1>1. th[t] \in Local /\ th[t].pc = "scan" /\ "scan" \in Places /\ th[t].i \in Nat
  BY DEF Types, Local, Free, At, Places
<1>2. th' = [th EXCEPT ![t] = [th[t] EXCEPT !.pc = "scan", !.i = th[t].i, !.slot = 0]]
  <2>1. [th[t] EXCEPT !.slot = 0]
            = [th[t] EXCEPT !.pc = "scan", !.i = th[t].i, !.slot = 0]
    BY <1>1 DEF Local
  <2>2. th' = [th EXCEPT ![t] = [th[t] EXCEPT !.slot = 0]]
    BY <1>1 DEF Free, Types
  <2> QED BY <2>1, <2>2
<1>3. /\ Moves(t, "scan", th[t].result) /\ Walks(t, th[t].prev, th[t].cur, th[t].nxt)
      /\ Scans(t, th[t].i, 0)
  BY <1>1, <1>2, ScanStepDoes
<1> QED BY <1>3, Waits DEF Free, At

\* GcDone has come to the end of the list of retired nodes.
LEMMA GcDoneDoes ==
    ASSUME Types, NEW t \in Threads, GcDone(t)
    PROVE  /\ th[t].pc = "scan" /\ late' = late
           /\ th[t].i > Len(retired[t])
           /\ Moves(t, "clear", th[t].result) /\ Walks(t, th[t].prev, th[t].cur, th[t].nxt)
           /\ Scans(t, 0, th[t].slot)
           /\ SameMemory /\ hp' = hp /\ seen' = seen
<1>1. th[t] \in Local /\ "clear" \in Places /\ th[t].slot \in Nat
  BY DEF Types, Local, Places
<1>2. th' = [th EXCEPT ![t] = [th[t] EXCEPT !.pc = "clear", !.i = 0, !.slot = th[t].slot]]
  <2>1. [th[t] EXCEPT !.pc = "clear", !.i = 0]
            = [th[t] EXCEPT !.pc = "clear", !.i = 0, !.slot = th[t].slot]
    BY <1>1 DEF Local
  <2>2. th' = [th EXCEPT ![t] = [th[t] EXCEPT !.pc = "clear", !.i = 0]]
    BY <1>1 DEF GcDone, Types
  <2> QED BY <2>1, <2>2
<1>3. /\ Moves(t, "clear", th[t].result) /\ Walks(t, th[t].prev, th[t].cur, th[t].nxt)
      /\ Scans(t, 0, th[t].slot)
  BY <1>1, <1>2, ScanStepDoes
<1> QED BY <1>3 DEF GcDone, At, SameMemory, listVars, hazardVars

\* Flush takes the oldest store into hazard_array.
LEMMA FlushDoes ==
    ASSUME Types, NEW t \in Threads, Flush(t)
    PROVE  /\ late[t] # <<>> /\ late[t][1] \in HazardSlots \X NodeOrNull
           /\ hp' \in [Threads -> [HazardSlots -> NodeOrNull]]
           /\ \A u \in Threads \ {t} : hp'[u] = hp[u]
           /\ hp'[t][late[t][1][1]] = late[t][1][2]
           /\ \A s \in HazardSlots : s # late[t][1][1] => hp'[t][s] = hp[t][s]
           /\ Stores(t, Tail(late[t]))
           /\ SameMemory /\ th' = th /\ seen' = seen
<1>1. late[t] \in Seq(HazardSlots \X NodeOrNull) /\ late[t] # <<>>
  BY DEF Types, Flush
<1>2. /\ late[t][1] \in HazardSlots \X NodeOrNull
      /\ Tail(late[t]) \in Seq(HazardSlots \X NodeOrNull)
  BY <1>1
<1>3. late[t][1][1] \in HazardSlots /\ late[t][1][2] \in NodeOrNull
  BY <1>2
<1>4. hp' = [hp EXCEPT ![t][late[t][1][1]] = late[t][1][2]]
  BY DEF Flush
<1>5. late' = [late EXCEPT ![t] = Tail(late[t])]
  BY DEF Flush
<1>6. Stores(t, Tail(late[t]))
  BY <1>2, <1>5 DEF Types, Stores
<1>7. hp' \in [Threads -> [HazardSlots -> NodeOrNull]]
  BY <1>3, <1>4 DEF Types
<1> QED BY <1>1, <1>2, <1>3, <1>4, <1>6, <1>7 DEF Flush, SameMemory, listVars, Types

\* Return frees an entry that was not added.
LEMMA ReturnDoes ==
    ASSUME Types, NEW t \in Threads, Return(t)
    PROVE  /\ th[t].pc = "clear" /\ late[t] = <<>> /\ late' = late
           /\ \A u \in Threads \ {t} : th'[u] = th[u] /\ hp'[u] = hp[u]
           /\ hp' \in [Threads -> [HazardSlots -> NodeOrNull]]
           /\ th' = [th EXCEPT ![t] = Idle] /\ th' \in [Threads -> Local]
           /\ seen' = [seen EXCEPT ![t] = {}]
           /\ alloc' = alloc \ ((IF th[t].result THEN {} ELSE {th[t].entry}) \ {Null})
           /\ \A n \in Nodes \union {head} :
                 next'[n] = IF n \in (IF th[t].result THEN {} ELSE {th[t].entry}) \ {Null}
                            THEN Null ELSE next[n]
           /\ next' \in [Nodes \union {head} -> NodeOrNull]
           /\ \A n \in Nodes :
                 key'[n] = IF n \in (IF th[t].result THEN {} ELSE {th[t].entry}) \ {Null}
                           THEN 0 ELSE key[n]
           /\ key' \in [Nodes -> Keys \union {0}]
           /\ UNCHANGED <<marked, retired>>
<1>1. Idle \in Local
  BY DEF Idle, Local, Places, NodeOrNull
<1>2. th' = [th EXCEPT ![t] = Idle]
  BY DEF Return
<1>3. /\ \A u \in Threads \ {t} : th'[u] = th[u]
      /\ th'[t] = Idle /\ th' \in [Threads -> Local]
  BY <1>1, <1>2, PutLocal
<1>4. hp' = [hp EXCEPT ![t] = [s \in HazardSlots |-> Null]]
  BY DEF Return
<1>5. hp' \in [Threads -> [HazardSlots -> NodeOrNull]] /\ \A u \in Threads \ {t} : hp'[u] = hp[u]
  BY <1>4 DEF Types, NodeOrNull
<1> DEFINE unused == (IF th[t].result THEN {} ELSE {th[t].entry}) \ {Null}
<1>6. next' = [n \in Nodes \union {head} |-> IF n \in unused THEN Null ELSE next[n]]
  BY DEF Return, Types
<1>7. key' = [n \in Nodes |-> IF n \in unused THEN 0 ELSE key[n]]
  BY DEF Return, Types
<1>8. alloc' = alloc \ unused
  BY DEF Return
<1> HIDE DEF unused
<1>9. /\ \A n \in Nodes \union {head} : next'[n] = IF n \in unused THEN Null ELSE next[n]
      /\ next' \in [Nodes \union {head} -> NodeOrNull]
  BY <1>6 DEF Types, NodeOrNull
<1>10. /\ \A n \in Nodes : key'[n] = IF n \in unused THEN 0 ELSE key[n]
       /\ key' \in [Nodes -> Keys \union {0}]
  BY <1>7 DEF Types
<1> QED BY <1>2, <1>3, <1>5, <1>8, <1>9, <1>10 DEF unused, Return, At, Drained

\* A call begins at the first place of inline_find.
LEMMA BeginDoes ==
    ASSUME Types, NEW t \in Threads, NEW op \in {"find", "add", "del"}, NEW k \in Keys,
           NEW entry \in NodeOrNull, Begin(t, op, k, entry)
    PROVE  /\ th[t].pc = "idle"
           /\ \A u \in Threads \ {t} : th'[u] = th[u]
           /\ th' \in [Threads -> Local]
           /\ th'[t].pc = "start" /\ th'[t].op = op /\ th'[t].key = k
           /\ th'[t].entry = entry /\ ~th'[t].result
           /\ Walks(t, Null, Null, Null) /\ Scans(t, 0, 0)
           /\ seen' = [seen EXCEPT ![t] = {(k \in Present)}]
           /\ UNCHANGED <<next, marked, hp, retired, late>>
<1> DEFINE r == [Idle EXCEPT !.pc = "start", !.op = op, !.key = k, !.entry = entry]
<1>1. Idle \in Local
  BY DEF Idle, Local, Places, NodeOrNull
<1>2. /\ r.pc = "start" /\ r.op = op /\ r.key = k /\ r.entry = entry
      /\ r.prev = Idle.prev /\ r.cur = Idle.cur /\ r.nxt = Idle.nxt /\ r.result = Idle.result
      /\ r.i = Idle.i /\ r.slot = Idle.slot
      /\ r \in Local
  BY <1>1 DEF Local, Places
<1>3. th' = [th EXCEPT ![t] = r]
  BY DEF Begin
<1> HIDE DEF r
<1>4. /\ \A u \in Threads \ {t} : th'[u] = th[u]
      /\ th'[t] = r /\ th' \in [Threads -> Local]
  BY <1>2, <1>3, PutLocal
<1>5. /\ Idle.prev = Null /\ Idle.cur = Null /\ Idle.nxt = Null /\ Idle.result = FALSE
      /\ Idle.i = 0 /\ Idle.slot = 0
  BY DEF Idle
<1> QED BY <1>2, <1>4, <1>5 DEF Begin, At, Walks, Scans, hazardVars

-----------------------------------------------------------------------------
\* The key of head counts as 0.
K(n) == IF n = head THEN 0 ELSE key[n]

\* A call of std_lock_free_list_add.
Adding(t) == th[t].op = "add"

\* t has an entry that is not in the list yet, ...
Entering(t) == Adding(t) /\ ~th[t].result

\* ... the nodes of which there are such entries, ...
Pending == {n \in Nodes : \E t \in Threads : Entering(t) /\ th[t].entry = n}

\* ... those that wait to be freed, ...
Retired == {n \in Nodes : \E t \in Threads : \E j \in 1 .. Len(retired[t]) : retired[t][j] = n}

\* ... those that have been in the list, ...
Old == alloc \ Pending

\* ... and those that are in it.
Listed == Old \ Retired

\* Where a call reads through prev and cur.
Walking == {"load", "checkNext", "compare", "link", "cas", "mark", "unlink"}

\* Which fields a thread uses at which place.
Control(t) ==
    /\ th[t].op = "none" <=> th[t].pc = "idle"
    /\ th[t].op # "none" => th[t].key \in Keys
    /\ th[t].op = "none" => th[t].key = 0
    /\ th[t].op = "add" => th[t].entry \in Nodes
    /\ th[t].op # "add" => th[t].entry = Null
    /\ th[t].pc = "idle" => ~th[t].result
    /\ th[t].op \in {"find", "add"} /\ th[t].result => th[t].pc = "clear"
    /\ th[t].pc \in {"link", "cas"} => th[t].op = "add"
    /\ th[t].pc = "mark" => th[t].op = "del" /\ ~th[t].result
    /\ th[t].pc \in {"unlink", "scan"} => th[t].op = "del" /\ th[t].result
    /\ th[t].pc # "scan" => th[t].slot = 0 /\ th[t].i = 0
    /\ th[t].pc = "scan" =>
          /\ th[t].i \in 1 .. Len(retired[t]) + 1
          /\ th[t].slot = 0 \/ (th[t].i <= Len(retired[t]) /\ th[t].slot <= LastSlot)
    /\ th[t].pc \in Walking \union {"checkHead"} => th[t].prev \in Nodes \union {head}
    /\ th[t].pc \in {"load", "checkNext", "compare", "mark", "unlink"} => th[t].cur \in Nodes

\* The stores of hazard pointers that may be under way, and at which place.
Buffer(t) ==
    late[t] # <<>> =>
        \/ th[t].pc = "clear"
        \/ th[t].pc = "checkHead" /\ late[t] = <<<<1, th[t].cur>>>>
        \/ th[t].pc = "checkNext" /\ late[t] = <<<<0, th[t].nxt>>>>
        \/ /\ th[t].pc \in {"load", "link", "cas"} /\ th[t].prev # head
           /\ \/ late[t] = <<<<2, th[t].prev>>, <<1, th[t].cur>>>>
              \/ late[t] = <<<<1, th[t].cur>>>>

\* A node is marked before it is retired, and retired once.
Memory ==
    /\ Retired \subseteq marked /\ marked \subseteq alloc
    /\ \A n \in Nodes \ alloc : next[n] = Null
    /\ \A t, u \in Threads : \A i \in DOMAIN retired[t], j \in DOMAIN retired[u] :
            retired[t][i] = retired[u][j] => t = u /\ i = j

\* An entry belongs to its caller, and hangs where AddLink has hung it.
EntryOK(t) ==
    Entering(t) =>
        /\ th[t].entry \in alloc \ marked
        /\ key[th[t].entry] = th[t].key
        /\ next[th[t].entry] = IF th[t].pc = "cas" THEN th[t].cur ELSE Null

\* Two calls never have the same entry.
EntriesApart ==
    \A t, u \in Threads : Entering(t) /\ Entering(u) /\ th[t].entry = th[u].entry => t = u

\* The nodes of the list, one after the other: the keys grow, none comes twice,
\* each node has its place between its neighbours, and hangs behind one of them.
Shape ==
    /\ \A n \in Listed : key[n] \in Keys
    /\ \A p \in Listed \union {head} : next[p] # Null => next[p] \in Listed /\ K(p) < K(next[p])
    /\ \A m, n \in Listed : key[m] = key[n] => m = n
    /\ \A p \in Listed \union {head} : \A n \in Listed :
            K(p) < key[n] => next[p] # Null /\ K(next[p]) <= key[n]
    /\ \A n \in Listed : \E p \in Listed \union {head} : next[p] = n

\* Which of u's slots in hazard_conflict the hazard pointer s of t is.
Index(u, t, s) == 3 * (IF t < u THEN t - 1 ELSE t - 2) + s

\* u looks for hazard pointers to n.
Scanning(u, n) == th[u].pc = "scan" /\ th[u].i <= Len(retired[u]) /\ retired[u][th[u].i] = n

\* A hazard pointer holds n, and whoever is about to free n has yet to come to
\* that pointer.
Guards(t, s, n) ==
    hp[t][s] = n /\ \A u \in Threads \ {t} : Scanning(u, n) => th[u].slot <= Index(u, t, s)

\* So the node stays: n is not freed before the hazard pointer is changed.
Safe(t, s, n) == n \in Old /\ Guards(t, s, n)

\* The slot that protects prev, the third one after Advance has been seen.
PrevSafe(t) ==
    \/ th[t].prev = head
    \/ /\ th[t].prev \in Nodes /\ key[th[t].prev] < th[t].key
       /\ Len(late[t]) = 2 => Safe(t, 1, th[t].prev)
       /\ Len(late[t]) # 2 => Safe(t, 2, th[t].prev)

\* The slot that protects cur.
CurSafe(t) ==
    \/ th[t].cur = Null
    \/ /\ late[t] # <<>> /\ th[t].pc # "checkNext" => Safe(t, 0, th[t].cur)
       /\ ~(late[t] # <<>> /\ th[t].pc # "checkNext") => Safe(t, 1, th[t].cur)

\* What a call knows of the nodes it has walked to.
Walk(t) ==
    /\ th[t].pc \in Walking => PrevSafe(t) /\ CurSafe(t)
    /\ th[t].pc = "compare" /\ th[t].nxt # Null =>
          Safe(t, 0, th[t].nxt) /\ key[th[t].cur] < key[th[t].nxt]
    /\ th[t].pc = "checkHead" => th[t].prev = head /\ (late[t] = <<>> => hp[t][1] = th[t].cur)
    /\ th[t].pc = "checkNext" /\ late[t] = <<>> => hp[t][0] = th[t].nxt
    /\ th[t].pc \in {"link", "cas"} /\ th[t].cur # Null => key[th[t].cur] > th[t].key
    /\ th[t].pc = "mark" => key[th[t].cur] = th[t].key
    /\ th[t].pc = "unlink" =>
          th[t].cur \in Listed /\ th[t].cur \in marked /\ next[th[t].cur] = th[t].nxt

\* One thread at most is about to take a node out: the one that has marked it.
Unlinkers ==
    \A t, u \in Threads :
        th[t].pc = "unlink" /\ th[u].pc = "unlink" /\ th[t].cur = th[u].cur => t = u

\* All that holds of one thread.
Sound(t) == Control(t) /\ Buffer(t) /\ EntryOK(t) /\ Walk(t)

\* The inductive invariant.
SafeInv ==
    /\ Types /\ Memory /\ EntriesApart /\ Shape /\ Unlinkers
    /\ \A t \in Threads : Sound(t)

-----------------------------------------------------------------------------
\* Sequences of nodes: what a retirement puts in front ...
LEMMA PushIs ==
    ASSUME NEW s \in Seq(Nodes), NEW c \in Nodes
    PROVE  /\ <<c>> \o s \in Seq(Nodes) /\ Len(<<c>> \o s) = Len(s) + 1
           /\ (<<c>> \o s)[1] = c
           /\ \A j \in 1 .. Len(s) : (<<c>> \o s)[j + 1] = s[j]
           /\ \A j \in 2 .. Len(s) + 1 : (<<c>> \o s)[j] = s[j - 1]
OBVIOUS

\* ... what a concatenation holds ...
LEMMA ConcatIs ==
    ASSUME NEW a \in Seq(Nodes), NEW b \in Seq(Nodes)
    PROVE  /\ a \o b \in Seq(Nodes) /\ Len(a \o b) = Len(a) + Len(b)
           /\ \A j \in 1 .. Len(a) + Len(b) :
                 (a \o b)[j] = IF j <= Len(a) THEN a[j] ELSE b[j - Len(a)]
OBVIOUS

\* ... and what a list holds after an element has been removed.
LEMMA RemoveIs ==
    ASSUME NEW s \in Seq(Nodes), NEW i \in 1 .. Len(s)
    PROVE  /\ RemoveAt(s, i) \in Seq(Nodes) /\ Len(RemoveAt(s, i)) = Len(s) - 1
           /\ \A j \in 1 .. Len(s) - 1 : RemoveAt(s, i)[j] = IF j < i THEN s[j] ELSE s[j + 1]
<1> DEFINE a == SubSeq(s, 1, i - 1)
           b == SubSeq(s, i + 1, Len(s))
<1>1. a \in Seq(Nodes) /\ Len(a) = i - 1 /\ \A j \in 1 .. i - 1 : a[j] = s[j]
  OBVIOUS
<1>2. b \in Seq(Nodes) /\ Len(b) = Len(s) - i /\ \A j \in 1 .. Len(s) - i : b[j] = s[j + i]
  OBVIOUS
<1>3. RemoveAt(s, i) = a \o b
  BY DEF RemoveAt
<1> HIDE DEF a, b
<1>4. /\ a \o b \in Seq(Nodes) /\ Len(a \o b) = Len(a) + Len(b)
      /\ \A j \in 1 .. Len(a) + Len(b) :
            (a \o b)[j] = IF j <= Len(a) THEN a[j] ELSE b[j - Len(a)]
  BY <1>1, <1>2, ConcatIs
<1>5. ASSUME NEW j \in 1 .. Len(s) - 1
      PROVE  (a \o b)[j] = IF j < i THEN s[j] ELSE s[j + 1]
  <2>1. CASE j < i
    BY <2>1, <1>1, <1>2, <1>4
  <2>2. CASE ~(j < i)
    <3>1. (a \o b)[j] = b[j - (i - 1)] /\ j - (i - 1) \in 1 .. Len(s) - i
      BY <2>2, <1>1, <1>2, <1>4
    <3>2. j - (i - 1) + i = j + 1
      OBVIOUS
    <3>3. b[j - (i - 1)] = s[j - (i - 1) + i]
      BY <3>1, <1>2
    <3> QED BY <2>2, <3>1, <3>2, <3>3
  <2> QED BY <2>1, <2>2
<1> QED BY <1>1, <1>2, <1>3, <1>4, <1>5

\* The step begins no add and ends none.
CallsSame ==
    \A u \in Threads : /\ Entering(u)' <=> Entering(u)
                       /\ Entering(u) => th'[u].entry = th[u].entry

\* Then the four sets of nodes stay, if the allocation and the retired do.
LEMMA SetsSame ==
    ASSUME CallsSame, alloc' = alloc, retired' = retired
    PROVE  Pending' = Pending /\ Retired' = Retired /\ Old' = Old /\ Listed' = Listed
<1>1. Pending' = Pending
  BY DEF CallsSame, Pending
<1>2. Retired' = Retired
  BY DEF Retired
<1> QED BY <1>1, <1>2 DEF Old, Listed

\* A step that does not change the result of its call.
LEMMA MovesSame ==
    ASSUME NEW t \in Threads, NEW place, Moves(t, place, th[t].result)
    PROVE  CallsSame
BY DEF Moves, CallsSame, Entering, Adding

\* A step of a call that is not an add.
LEMMA DelMovesSame ==
    ASSUME NEW t \in Threads, NEW place, NEW result, Moves(t, place, result), th[t].op # "add"
    PROVE  CallsSame
BY DEF Moves, CallsSame, Entering, Adding

\* How the sets of nodes lie in each other.
LEMMA SetFacts ==
    ASSUME Types, Memory, \A t \in Threads : EntryOK(t) /\ Control(t)
    PROVE  /\ Pending \in SUBSET Nodes /\ Retired \in SUBSET Nodes
           /\ Old \in SUBSET Nodes /\ Listed \in SUBSET Nodes
           /\ Pending \subseteq alloc /\ Pending \intersect marked = {}
           /\ Pending \intersect Retired = {} /\ Retired \subseteq Old
           /\ marked \subseteq Old
           /\ \A n \in Nodes : n \in Listed <=> n \in alloc /\ n \notin Pending /\ n \notin Retired
           /\ \A n \in Nodes : n \in Old <=> n \in alloc /\ n \notin Pending
           /\ \A t \in Threads : Entering(t) => th[t].entry \in Pending
           /\ Old \ marked \subseteq Listed
<1>1. Pending \in SUBSET Nodes /\ Retired \in SUBSET Nodes
  BY DEF Pending, Retired
<1>2. Pending \subseteq alloc /\ Pending \intersect marked = {}
  BY DEF Pending, EntryOK
<1>3. \A t \in Threads : Entering(t) => th[t].entry \in Pending
  BY DEF Pending, Entering, Adding, Control
<1>4. Retired \subseteq marked /\ marked \subseteq alloc /\ alloc \in SUBSET Nodes
  BY DEF Memory, Types
<1> QED BY <1>1, <1>2, <1>3, <1>4 DEF Old, Listed

\* What a retirement adds to Retired, ...
LEMMA RetiredPushed ==
    ASSUME Types, NEW t \in Threads, NEW c \in Nodes,
           retired' = [retired EXCEPT ![t] = <<c>> \o @]
    PROVE  /\ Retired' = Retired \union {c}
           /\ retired'[t] = <<c>> \o retired[t] /\ \A u \in Threads \ {t} : retired'[u] = retired[u]
           /\ retired' \in [Threads -> Seq(Nodes)]
<1>1. /\ retired[t] \in Seq(Nodes)
      /\ retired'[t] = <<c>> \o retired[t] /\ \A u \in Threads \ {t} : retired'[u] = retired[u]
  BY DEF Types
<1>2. retired' \in [Threads -> Seq(Nodes)]
  BY <1>1, PushIs DEF Types
<1> DEFINE s == retired[t]
           q == retired'[t]
<1>3. /\ Len(s) \in Nat /\ Len(q) = Len(s) + 1 /\ q[1] = c
      /\ \A j \in 1 .. Len(s) : q[j + 1] = s[j]
      /\ \A j \in 2 .. Len(s) + 1 : q[j] = s[j - 1]
  BY <1>1, PushIs
<1>4. ASSUME NEW n \in Retired PROVE n \in Retired'
  <2>0. PICK u \in Threads : \E j \in 1 .. Len(retired[u]) : retired[u][j] = n
    BY DEF Retired
  <2>1. PICK j \in 1 .. Len(retired[u]) : retired[u][j] = n
    BY <2>0
  <2>2. CASE u = t
    <3>1. j + 1 \in 1 .. Len(q) /\ q[j + 1] = n
      BY <2>1, <2>2, <1>3
    <3> QED BY <3>1 DEF Retired
  <2>3. CASE u # t
    BY <2>1, <2>3, <1>1 DEF Retired
  <2> QED BY <2>2, <2>3
<1>5. c \in Retired'
  <2>1. 1 \in 1 .. Len(q)
    BY <1>3
  <2> QED BY <2>1, <1>3 DEF Retired
<1>6. ASSUME NEW n \in Retired', n # c PROVE n \in Retired
  <2>0. PICK u \in Threads : \E j \in 1 .. Len(retired'[u]) : retired'[u][j] = n
    BY DEF Retired
  <2>1. PICK j \in 1 .. Len(retired'[u]) : retired'[u][j] = n
    BY <2>0
  <2>2. CASE u = t
    <3>1. j - 1 \in 1 .. Len(s) /\ s[j - 1] = n
      <4>1. j # 1 /\ j \in 1 .. Len(s) + 1
        BY <2>1, <2>2, <1>3, <1>6
      <4> QED BY <4>1, <2>1, <2>2, <1>3
    <3> QED BY <3>1, <1>6 DEF Retired
  <2>3. CASE u # t
    <3>1. retired[u] = retired'[u]
      BY <2>3, <1>1
    <3> QED BY <2>1, <3>1 DEF Retired
  <2> QED BY <2>2, <2>3
<1> HIDE DEF s, q
<1>7. Retired' = Retired \union {c}
  BY <1>4, <1>5, <1>6
<1> QED BY <1>1, <1>2, <1>7

\* ... and what Free takes away.
LEMMA RetiredRemoved ==
    ASSUME Types, Memory, NEW t \in Threads, NEW i \in 1 .. Len(retired[t]),
           retired' = [retired EXCEPT ![t] = RemoveAt(@, i)]
    PROVE  /\ retired[t][i] \in Nodes /\ retired[t][i] \in Retired
           /\ Retired' = Retired \ {retired[t][i]}
           /\ retired'[t] = RemoveAt(retired[t], i)
           /\ \A u \in Threads \ {t} : retired'[u] = retired[u]
           /\ retired' \in [Threads -> Seq(Nodes)]
<1>1. /\ retired[t] \in Seq(Nodes) /\ retired'[t] = RemoveAt(retired[t], i)
      /\ \A u \in Threads \ {t} : retired'[u] = retired[u]
  BY DEF Types
<1>2. retired' \in [Threads -> Seq(Nodes)]
  BY <1>1, RemoveIs DEF Types
<1> DEFINE s == retired[t]
           q == retired'[t]
           p == retired[t][i]
<1>3. /\ Len(s) \in Nat /\ i \in Nat /\ Len(q) = Len(s) - 1
      /\ \A j \in 1 .. Len(s) - 1 : q[j] = IF j < i THEN s[j] ELSE s[j + 1]
  <2>1. s \in Seq(Nodes) /\ q = RemoveAt(s, i)
    BY <1>1
  <2>2. Len(s) \in Nat /\ i \in Nat /\ i \in 1 .. Len(s)
    OBVIOUS
  <2> HIDE DEF s, q
  <2> QED BY <2>1, <2>2, RemoveIs
<1>4. p \in Nodes /\ p \in Retired
  BY <1>1 DEF Retired
<1>5. ASSUME NEW u \in Threads, NEW j \in 1 .. Len(retired[u]), retired[u][j] = p
      PROVE  u = t /\ j = i
  <2>1. j \in DOMAIN retired[u] /\ i \in DOMAIN retired[t]
    BY DEF Types
  <2> QED BY <1>5, <2>1 DEF Memory
<1>6. ASSUME NEW n \in Retired, n # p PROVE n \in Retired'
  <2>0. PICK u \in Threads : \E j \in 1 .. Len(retired[u]) : retired[u][j] = n
    BY DEF Retired
  <2>1. PICK j \in 1 .. Len(retired[u]) : retired[u][j] = n
    BY <2>0
  <2>2. CASE u = t
    <3>1. j # i
      BY <2>1, <2>2, <1>6
    <3>2. CASE j < i
      <4>1. j \in 1 .. Len(q) /\ q[j] = n
        BY <2>1, <2>2, <1>3, <3>2
      <4> QED BY <4>1 DEF Retired
    <3>3. CASE j > i
      <4>1. j - 1 \in 1 .. Len(q) /\ q[j - 1] = n
        BY <2>1, <2>2, <1>3, <3>3
      <4> QED BY <4>1 DEF Retired
    <3> QED BY <3>1, <3>2, <3>3, <1>3
  <2>3. CASE u # t
    BY <2>1, <2>3, <1>1 DEF Retired
  <2> QED BY <2>2, <2>3
<1>7. ASSUME NEW n \in Retired' PROVE n \in Retired /\ n # p
  <2>0. PICK u \in Threads : \E j \in 1 .. Len(retired'[u]) : retired'[u][j] = n
    BY DEF Retired
  <2>1. PICK j \in 1 .. Len(retired'[u]) : retired'[u][j] = n
    BY <2>0
  <2>2. CASE u = t
    <3>1. PICK k \in 1 .. Len(s) : s[k] = n /\ k # i
      <4>1. CASE j < i
        BY <2>1, <2>2, <1>3, <4>1
      <4>2. CASE ~(j < i)
        <5>1. j + 1 \in 1 .. Len(s) /\ s[j + 1] = n /\ j + 1 # i
          BY <2>1, <2>2, <1>3, <4>2
        <5> QED BY <5>1
      <4> QED BY <4>1, <4>2
    <3>2. n # p
      BY <3>1, <1>5
    <3> QED BY <3>1, <3>2, <1>7 DEF Retired
  <2>3. CASE u # t
    <3>1. retired[u] = retired'[u]
      BY <2>3, <1>1
    <3>2. n # p
      BY <2>1, <2>3, <3>1, <1>5
    <3> QED BY <2>1, <3>1, <3>2 DEF Retired
  <2> QED BY <2>2, <2>3
<1>8. Retired' = Retired \ {p}
  <2> HIDE DEF p
  <2> QED BY <1>4, <1>6, <1>7
<1> QED BY <1>1, <1>2, <1>4, <1>8

-----------------------------------------------------------------------------
\* A step that leaves memory and the entries alone.
Keeps == UNCHANGED <<next, marked, key, alloc, retired>> /\ CallsSame

\* It leaves the four sets alone.
LEMMA KeepsSets ==
    ASSUME Keeps
    PROVE  Pending' = Pending /\ Retired' = Retired /\ Old' = Old /\ Listed' = Listed
BY SetsSame DEF Keeps

\* Keys are numbers, and greater than that of head.
LEMMA KIs ==
    ASSUME Types, LockFreeListAssumption
    PROVE  /\ K(head) = 0 /\ \A n \in Nodes : K(n) = key[n] /\ n # head /\ n # Null
           /\ \A n \in Nodes \union {head} : K(n) \in Nat
           /\ \A n \in Nodes : key[n] \in Nat
           /\ Keys \subseteq Nat /\ 0 \notin Keys
<1>1. Keys \subseteq Nat /\ 0 \notin Keys /\ head \notin Nodes /\ Null \notin Nodes
  BY DEF LockFreeListAssumption
<1>2. \A n \in Nodes : key[n] \in Nat
  <2> SUFFICES ASSUME NEW n \in Nodes PROVE key[n] \in Nat
    OBVIOUS
  <2>1. key[n] \in Keys \union {0}
    BY DEF Types
  <2>2. \A x \in Keys \union {0} : x \in Nat
    BY <1>1
  <2> QED BY <2>1, <2>2
<1> QED BY <1>1, <1>2 DEF K

\* Shape, of a step that leaves the nodes of the list alone, ...
LEMMA ShapeSame ==
    ASSUME Shape, Listed' = Listed, \A n \in Listed : key'[n] = key[n],
           \A p \in Listed \union {head} : next'[p] = next[p]
    PROVE  Shape'
<1>1. \A p \in Listed \union {head} : K(p)' = K(p)
  BY DEF K
<1>2. \A n \in Listed : key'[n] \in Keys
  BY DEF Shape
<1>3. ASSUME NEW p \in Listed \union {head}, next'[p] # Null
      PROVE  next'[p] \in Listed /\ K(p) < K(next'[p])
  BY <1>3 DEF Shape
<1>4. \A m, n \in Listed : key'[m] = key'[n] => m = n
  BY DEF Shape
<1>5. ASSUME NEW p \in Listed \union {head}, NEW n \in Listed, K(p) < key'[n]
      PROVE  next'[p] # Null /\ next'[p] \in Listed /\ K(next'[p]) <= key'[n]
  <2>1. K(p) < key[n] /\ key'[n] = key[n] /\ next'[p] = next[p]
    BY <1>5
  <2>2. next[p] # Null /\ K(next[p]) <= key[n]
    BY <2>1 DEF Shape
  <2>3. next[p] \in Listed
    BY <2>2 DEF Shape
  <2> QED BY <2>1, <2>2, <2>3
<1>6. \A n \in Listed : \E p \in Listed \union {head} : next'[p] = n
  BY DEF Shape
<1> QED BY <1>1, <1>2, <1>3, <1>4, <1>5, <1>6 DEF Shape

\* ... (where two nodes do not lead to the same one) ...
LEMMA OnePred ==
    ASSUME Types, LockFreeListAssumption, Shape, Listed \subseteq Nodes,
           NEW p \in Listed \union {head}, NEW q \in Listed \union {head},
           next[p] = next[q], next[p] # Null
    PROVE  p = q
<1>1. next[p] \in Listed /\ K(p) < K(next[p]) /\ K(q) < K(next[p])
  BY DEF Shape
<1>2. /\ \A n \in Listed : K(n) = key[n] /\ key[n] \in Nat /\ key[n] > 0
      /\ K(head) = 0
  BY KIs DEF Shape
<1>3. ~(K(p) < K(q))
  BY <1>1, <1>2 DEF Shape
<1>4. ~(K(q) < K(p))
  BY <1>1, <1>2 DEF Shape
<1>5. K(p) = K(q)
  BY <1>2, <1>3, <1>4
<1> QED BY <1>2, <1>5 DEF Shape

\* ... of the CAS that hangs a node in ...
LEMMA ShapeAdd ==
    ASSUME Types, LockFreeListAssumption, Shape, Listed \subseteq Nodes, key' = key,
           NEW e \in Nodes, e \notin Listed, Listed' = Listed \union {e}, key[e] \in Keys,
           NEW p \in Listed \union {head}, K(p) < key[e],
           NEW c, c = next[p], c # Null => key[e] < key[c],
           next'[p] = e, next'[e] = c,
           \A q \in Listed \union {head} : q # p => next'[q] = next[q]
    PROVE  Shape'
<1>1. /\ \A n \in Listed : K(n) = key[n] /\ key[n] \in Nat /\ key[n] > 0 /\ n \in Nodes
      /\ K(head) = 0 /\ K(e) = key[e] /\ key[e] \in Nat /\ key[e] > 0 /\ e # Null /\ e # head
      /\ Null \notin Listed
  BY KIs DEF Shape
<1>2. \A n : K(n)' = K(n)
  BY DEF K
<1>3. c # Null => c \in Listed /\ K(p) < key[c]
  BY <1>1 DEF Shape
<1>4. ASSUME NEW n \in Listed, K(p) < key[n]
      PROVE  c # Null /\ key[c] <= key[n] /\ key[e] < key[n]
  <2>1. c # Null /\ K(c) <= key[n]
    BY <1>4 DEF Shape
  <2> QED BY <2>1, <1>1, <1>3
<1>5. ASSUME NEW n \in Listed PROVE key[n] # key[e]
  BY <1>1, <1>4, <1>5
<1>6. ASSUME NEW q \in Listed', q # e PROVE q \in Listed
  BY <1>6
<1>7. \A n \in Listed' : key'[n] \in Keys
  BY DEF Shape
<1>8. ASSUME NEW q \in Listed' \union {head}, next'[q] # Null
      PROVE  next'[q] \in Listed' /\ K(q) < K(next'[q])
  <2>1. CASE q = p
    BY <2>1, <1>1
  <2>2. CASE q = e
    BY <2>2, <1>1, <1>3, <1>4, <1>8
  <2>3. CASE q # p /\ q # e
    BY <2>3, <1>8 DEF Shape
  <2> QED BY <2>1, <2>2, <2>3
<1>9. \A m, n \in Listed' : key'[m] = key'[n] => m = n
  BY <1>5 DEF Shape
<1>10. ASSUME NEW q \in Listed' \union {head}, NEW n \in Listed', K(q) < key[n]
       PROVE  next'[q] # Null /\ K(next'[q]) <= key[n]
  <2>1. CASE q = p
    <3>1. n = e \/ key[e] < key[n]
      BY <2>1, <1>4, <1>10
    <3> QED BY <2>1, <3>1, <1>1
  <2>2. CASE q = e
    <3>1. n \in Listed /\ K(p) < key[n]
      BY <2>2, <1>1, <1>10, KIs
    <3>2. c # Null /\ K(c) <= key[n]
      BY <3>1 DEF Shape
    <3> QED BY <2>2, <3>2
  <2>3. CASE q # p /\ q # e
    <3>1. q \in Listed \union {head} /\ next'[q] = next[q]
      BY <2>3
    <3>2. CASE n \in Listed
      BY <3>1, <3>2, <1>10 DEF Shape
    <3>3. CASE n = e
      <4>1. K(q) # K(p)
        BY <2>3, <3>1, <1>1 DEF Shape
      <4>2. CASE K(q) < K(p)
        <5>1. p \in Listed
          BY <4>2, <3>1, <1>1
        <5>2. next[q] # Null /\ K(next[q]) <= key[p] /\ next[q] \in Listed
          BY <5>1, <4>2, <3>1, <1>1 DEF Shape
        <5> QED BY <5>1, <5>2, <3>1, <3>3, <1>1
      <4>3. CASE K(q) > K(p)
        <5>1. q \in Listed
          BY <4>3, <3>1, <1>1
        <5>2. key[e] < key[q]
          BY <5>1, <4>3, <1>1, <1>4
        <5> QED BY <5>1, <5>2, <3>3, <1>1, <1>10
      <4>4. K(q) \in Nat /\ K(p) \in Nat
        BY <3>1, <1>1
      <4> QED BY <4>1, <4>2, <4>3, <4>4
    <3> QED BY <3>2, <3>3
  <2> QED BY <2>1, <2>2, <2>3
<1>11. ASSUME NEW n \in Listed' PROVE \E q \in Listed' \union {head} : next'[q] = n
  <2>1. CASE n = e
    BY <2>1
  <2>2. CASE n \in Listed
    <3>1. PICK q \in Listed \union {head} : next[q] = n
      BY <2>2 DEF Shape
    <3>2. CASE q = p
      BY <3>1, <3>2
    <3>3. CASE q # p
      BY <3>1, <3>3
    <3> QED BY <3>2, <3>3
  <2> QED BY <2>1, <2>2
<1> QED BY <1>2, <1>7, <1>8, <1>9, <1>10, <1>11 DEF Shape

\* ... and of the one that takes a node out.
LEMMA ShapeDel ==
    ASSUME Types, LockFreeListAssumption, Shape, Listed \subseteq Nodes, key' = key,
           NEW c \in Listed, Listed' = Listed \ {c},
           NEW p \in Listed \union {head}, next[p] = c,
           next'[p] = next[c],
           \A q \in Listed \union {head} : q # p => next'[q] = next[q]
    PROVE  Shape'
<1>1. /\ \A n \in Listed : K(n) = key[n] /\ key[n] \in Nat /\ key[n] > 0 /\ n \in Nodes
      /\ K(head) = 0 /\ Null \notin Listed /\ c # Null
  BY KIs DEF Shape
<1>2. \A n : K(n)' = K(n)
  BY DEF K
<1>3. K(p) < key[c] /\ p # c
  BY <1>1 DEF Shape
<1>4. next[c] # Null => next[c] \in Listed /\ key[c] < key[next[c]]
  BY <1>1 DEF Shape
<1>5. \A n \in Listed' : key'[n] \in Keys
  BY DEF Shape
<1>6. ASSUME NEW q \in Listed' \union {head}, next'[q] # Null
      PROVE  next'[q] \in Listed' /\ K(q) < K(next'[q])
  <2>1. CASE q = p
    <3>1. next[c] \in Listed /\ key[c] < key[next[c]] /\ next'[q] = next[c]
      BY <2>1, <1>4, <1>6
    <3>2. K(p) \in Nat
      BY <1>1
    <3> QED BY <3>1, <3>2, <2>1, <1>1, <1>3
  <2>2. CASE q # p
    <3>1. q \in Listed \union {head} /\ next'[q] = next[q]
      BY <2>2
    <3>2. next[q] # c
      BY <3>1, <2>2, <1>1, OnePred
    <3> QED BY <3>1, <3>2, <1>6 DEF Shape
  <2> QED BY <2>1, <2>2
<1>7. \A m, n \in Listed' : key'[m] = key'[n] => m = n
  BY DEF Shape
<1>8. ASSUME NEW q \in Listed' \union {head}, NEW n \in Listed', K(q) < key[n]
      PROVE  next'[q] # Null /\ K(next'[q]) <= key[n]
  <2>1. CASE q = p
    <3>1. K(c) <= key[n] /\ key[c] # key[n]
      BY <2>1, <1>8 DEF Shape
    <3>2. key[c] < key[n] /\ K(c) < key[n]
      BY <3>1, <1>1
    <3>3. next[c] # Null /\ K(next[c]) <= key[n]
      BY <3>2 DEF Shape
    <3> QED BY <2>1, <3>3
  <2>2. CASE q # p
    BY <2>2, <1>8 DEF Shape
  <2> QED BY <2>1, <2>2
<1>9. ASSUME NEW n \in Listed' PROVE \E q \in Listed' \union {head} : next'[q] = n
  <2>1. PICK q \in Listed \union {head} : next[q] = n
    BY DEF Shape
  <2>2. CASE q = c
    BY <2>1, <2>2, <1>3
  <2>3. CASE q # c
    <3>1. q # p
      BY <2>1
    <3> QED BY <2>1, <2>3, <3>1
  <2> QED BY <2>2, <2>3
<1> QED BY <1>2, <1>5, <1>6, <1>7, <1>8, <1>9 DEF Shape

-----------------------------------------------------------------------------
\* The parts of the invariant.
LEMMA SoundFacts ==
    ASSUME SafeInv
    PROVE  /\ \A t \in Threads : Control(t) /\ Buffer(t) /\ EntryOK(t) /\ Walk(t)
           /\ Types /\ Memory /\ EntriesApart /\ Shape /\ Unlinkers
BY DEF SafeInv, Sound

\* hazard_conflict comes to every hazard pointer of every other thread.
LEMMA IndexIs ==
    ASSUME LockFreeListAssumption, NEW t \in Threads, NEW u \in Threads, t # u,
           NEW s \in HazardSlots
    PROVE  /\ Index(u, t, s) \in 0 .. LastSlot /\ HazardPtr(u, Index(u, t, s)) = hp[t][s]
<1>1. NumThreads \in Nat /\ t \in Nat /\ u \in Nat /\ t >= 1 /\ u >= 1
      /\ t <= NumThreads /\ u <= NumThreads /\ s \in 0 .. 2
  BY DEF LockFreeListAssumption, Threads, HazardSlots
<1> DEFINE a == IF t < u THEN t - 1 ELSE t - 2
<1>2. a \in Nat /\ a <= NumThreads - 2
  BY <1>1
<1>3. (IF a + 1 < u THEN a + 1 ELSE a + 2) = t
  BY <1>1
<1>4. Index(u, t, s) = 3 * a + s
  BY DEF Index
<1> HIDE DEF a
<1>5. (3 * a + s) \div 3 = a /\ (3 * a + s) % 3 = s
  BY <1>1, <1>2
<1>6. Index(u, t, s) \in 0 .. LastSlot
  BY <1>1, <1>2, <1>4 DEF LastSlot
<1>7. HazardPtr(u, Index(u, t, s)) = hp[IF a + 1 < u THEN a + 1 ELSE a + 1 + 1][s]
  BY <1>4, <1>5 DEF HazardPtr
<1>8. a + 1 + 1 = a + 2
  BY <1>2
<1> QED BY <1>3, <1>6, <1>7, <1>8

\* A step of t leaves the nodes that another thread protects safe, ...
LEMMA SafeKept ==
    ASSUME LockFreeListAssumption, NEW t \in Threads, NEW u \in Threads, u # t,
           NEW s \in HazardSlots, NEW n, Safe(u, s, n), n \in Old',
           hp'[u] = hp[u],
           \A w \in Threads \ {t} : th'[w] = th[w] /\ retired'[w] = retired[w],
           Scanning(t, n)' => th'[t].slot = 0 \/ (Scanning(t, n) /\ th'[t].slot <= Index(t, u, s))
    PROVE  Safe(u, s, n)'
<1>1. Index(t, u, s) \in Nat /\ 0 <= Index(t, u, s)
  <2>1. Index(t, u, s) \in 0 .. LastSlot
    BY IndexIs
  <2> QED BY <2>1 DEF LastSlot, LockFreeListAssumption
<1>2. hp'[u][s] = n
  BY DEF Safe, Guards
<1>3. ASSUME NEW w \in Threads \ {u}, Scanning(w, n)'
      PROVE  th'[w].slot <= Index(w, u, s)
  <2>1. CASE w = t
    BY <2>1, <1>1, <1>3
  <2>2. CASE w # t
    <3>1. th'[w] = th[w] /\ retired'[w] = retired[w]
      BY <2>2
    <3>2. Scanning(w, n)
      BY <3>1, <1>3 DEF Scanning
    <3> QED BY <3>1, <3>2 DEF Safe, Guards
  <2> QED BY <2>1, <2>2
<1> QED BY <1>2, <1>3 DEF Safe, Guards, Index

\* ... and those that it protects itself, with a slot it does not write.
LEMMA SafeOwn ==
    ASSUME NEW t \in Threads, NEW s \in HazardSlots, NEW n, Safe(t, s, n), n \in Old',
           hp'[t][s] = hp[t][s],
           \A w \in Threads \ {t} : th'[w] = th[w] /\ retired'[w] = retired[w]
    PROVE  Safe(t, s, n)'
BY DEF Safe, Guards, Scanning, Index

\* Sound, of a thread that does not move.
LEMMA OtherKept ==
    ASSUME SafeInv, LockFreeListAssumption, NEW u \in Threads,
           th'[u] = th[u], hp'[u] = hp[u], late'[u] = late[u], retired'[u] = retired[u],
           \A s \in HazardSlots : \A n \in Nodes : Safe(u, s, n) => Safe(u, s, n)',
           \A n \in Old : n \in Old' => key'[n] = key[n],
           th[u].pc = "unlink" => /\ th[u].cur \in Listed' /\ th[u].cur \in marked'
                                  /\ next'[th[u].cur] = next[th[u].cur],
           Entering(u) => /\ th[u].entry \in alloc' \ marked'
                          /\ key'[th[u].entry] = key[th[u].entry]
                          /\ next'[th[u].entry] = next[th[u].entry]
    PROVE  Sound(u)'
<1>1. Control(u) /\ Buffer(u) /\ EntryOK(u) /\ Walk(u) /\ Types
  BY SoundFacts
<1>2. Control(u)'
  BY <1>1 DEF Control, LastSlot
<1>3. Buffer(u)'
  BY <1>1 DEF Buffer
<1>4. EntryOK(u)'
  BY <1>1 DEF EntryOK, Entering, Adding
<1>6. \A s \in HazardSlots : \A n \in Nodes :
          Safe(u, s, n) => Safe(u, s, n)' /\ key'[n] = key[n]
  BY DEF Safe
<1>7. /\ th[u].prev \in Nodes \union {Null, head} /\ th[u].cur \in Nodes \union {Null}
      /\ th[u].nxt \in Nodes \union {Null}
      /\ 0 \in HazardSlots /\ 1 \in HazardSlots /\ 2 \in HazardSlots
  BY <1>1 DEF Types, Local, NodeOrNull, HazardSlots
<1>8. ASSUME PrevSafe(u) PROVE PrevSafe(u)'
  BY <1>6, <1>7, <1>8 DEF PrevSafe
<1>9. ASSUME CurSafe(u), th[u].cur # Null PROVE CurSafe(u)' /\ key'[th[u].cur] = key[th[u].cur]
  BY <1>6, <1>7, <1>9 DEF CurSafe
<1>10. ASSUME CurSafe(u) PROVE CurSafe(u)'
  BY <1>9, <1>10 DEF CurSafe
<1>11. th[u].pc \in Walking => PrevSafe(u) /\ CurSafe(u)
  BY <1>1 DEF Walk
<1>12. Walk(u)'
  <2>1. th[u].pc \in Walking => PrevSafe(u)' /\ CurSafe(u)'
    BY <1>8, <1>10, <1>11
  <2>2. th[u].pc = "compare" /\ th[u].nxt # Null =>
            Safe(u, 0, th[u].nxt)' /\ key'[th[u].cur] < key'[th[u].nxt]
    <3> SUFFICES ASSUME th[u].pc = "compare", th[u].nxt # Null
                 PROVE  Safe(u, 0, th[u].nxt)' /\ key'[th[u].cur] < key'[th[u].nxt]
      OBVIOUS
    <3>1. th[u].cur # Null /\ CurSafe(u)
      BY <1>1, <1>11 DEF Control, Walking, LockFreeListAssumption
    <3>2. Safe(u, 0, th[u].nxt) /\ key[th[u].cur] < key[th[u].nxt]
      BY <1>1 DEF Walk
    <3>3. key'[th[u].cur] = key[th[u].cur]
      BY <3>1, <1>9
    <3>4. Safe(u, 0, th[u].nxt)' /\ key'[th[u].nxt] = key[th[u].nxt]
      BY <3>2, <1>6, <1>7
    <3> QED BY <3>2, <3>3, <3>4
  <2>3. th[u].pc = "checkHead" =>
            th[u].prev = head /\ (late'[u] = <<>> => hp'[u][1] = th[u].cur)
    BY <1>1 DEF Walk
  <2>4. th[u].pc = "checkNext" /\ late'[u] = <<>> => hp'[u][0] = th[u].nxt
    BY <1>1 DEF Walk
  <2>5. th[u].pc \in {"link", "cas"} /\ th[u].cur # Null => key'[th[u].cur] > th[u].key
    <3> SUFFICES ASSUME th[u].pc \in {"link", "cas"}, th[u].cur # Null
                 PROVE  key'[th[u].cur] > th[u].key
      OBVIOUS
    <3>1. CurSafe(u) /\ key[th[u].cur] > th[u].key
      BY <1>1 DEF Walk, Walking
    <3> QED BY <3>1, <1>9
  <2>6. th[u].pc = "mark" => key'[th[u].cur] = th[u].key
    <3> SUFFICES ASSUME th[u].pc = "mark" PROVE key'[th[u].cur] = th[u].key
      OBVIOUS
    <3>1. CurSafe(u) /\ key[th[u].cur] = th[u].key /\ th[u].cur # Null
      BY <1>1 DEF Walk, Walking, Control, LockFreeListAssumption
    <3> QED BY <3>1, <1>9
  <2>7. th[u].pc = "unlink" =>
            th[u].cur \in Listed' /\ th[u].cur \in marked' /\ next'[th[u].cur] = th[u].nxt
    BY <1>1 DEF Walk
  <2> QED BY <2>1, <2>2, <2>3, <2>4, <2>5, <2>6, <2>7 DEF Walk
<1> QED BY <1>2, <1>3, <1>4, <1>12 DEF Sound

-----------------------------------------------------------------------------
\* The step touches nothing that belongs to another thread.
OthersAside(t) ==
    \A u \in Threads \ {t} :
        th'[u] = th[u] /\ late'[u] = late[u] /\ hp'[u] = hp[u] /\ retired'[u] = retired[u]

\* The key of a node that has been in the list stays until it is freed.
KeysKept == \A n \in Old : n \in Old' => key'[n] = key[n]

\* A scan of t goes on from the first slot, unless it has just passed one.
ScanStarts(t) == th'[t].pc # "scan" \/ th'[t].slot = 0

\* Sound, of all threads that do not move.
LEMMA OthersKept ==
    ASSUME SafeInv, LockFreeListAssumption, NEW t \in Threads, OthersAside(t), ScanStarts(t),
           \A n \in Old : n \in Old' \/ (Scanning(t, n) /\ th[t].slot >= LastSlot
                                         /\ (LastSlot >= 0 => HazardPtr(t, LastSlot) # n)),
           \A n \in Old : n \in Old' => key'[n] = key[n],
           \A u \in Threads \ {t} :
              /\ th[u].pc = "unlink" => /\ th[u].cur \in Listed' /\ th[u].cur \in marked'
                                        /\ next'[th[u].cur] = next[th[u].cur]
              /\ Entering(u) => /\ th[u].entry \in alloc' \ marked'
                                /\ key'[th[u].entry] = key[th[u].entry]
                                /\ next'[th[u].entry] = next[th[u].entry]
    PROVE  \A u \in Threads \ {t} : Sound(u)'
<1> SUFFICES ASSUME NEW u \in Threads \ {t} PROVE Sound(u)'
  OBVIOUS
<1>1. th'[u] = th[u] /\ late'[u] = late[u] /\ hp'[u] = hp[u] /\ retired'[u] = retired[u]
  BY DEF OthersAside
<1>2. \A w \in Threads \ {t} : th'[w] = th[w] /\ retired'[w] = retired[w]
  BY DEF OthersAside
<1>3. ASSUME NEW s \in HazardSlots, NEW n \in Nodes, Safe(u, s, n) PROVE Safe(u, s, n)'
  <2>1. n \in Old'
    <3> SUFFICES ASSUME n \notin Old' PROVE FALSE
      OBVIOUS
    <3>1. /\ Scanning(t, n) /\ th[t].slot >= LastSlot
          /\ LastSlot >= 0 => HazardPtr(t, LastSlot) # n
      BY <1>3 DEF Safe
    <3>2. th[t].slot <= Index(t, u, s) /\ hp[u][s] = n
      BY <3>1, <1>3 DEF Safe, Guards
    <3>3. Index(t, u, s) \in 0 .. LastSlot /\ HazardPtr(t, Index(t, u, s)) = n
      BY <3>2, IndexIs
    <3>4. th[t].slot \in Nat /\ LastSlot \in Int
      <4>1. th[t] \in Local
        BY SoundFacts DEF Types
      <4> QED BY <4>1 DEF Local, LastSlot, LockFreeListAssumption
    <3>5. Index(t, u, s) = LastSlot
      BY <3>1, <3>2, <3>3, <3>4
    <3> QED BY <3>1, <3>3, <3>4, <3>5
  <2>2. Scanning(t, n)' => th'[t].slot = 0
    BY DEF ScanStarts, Scanning
  <2> QED BY <1>1, <1>2, <1>3, <2>1, <2>2, SafeKept
<1> QED BY <1>1, <1>3, OtherKept

\* The facts about threads and sets of nodes that the proofs keep needing.
LEMMA SoundUses ==
    ASSUME SafeInv
    PROVE  /\ \A u \in Threads : th[u].pc = "unlink" =>
                 /\ th[u].cur \in Listed /\ th[u].cur \in marked /\ th[u].cur \in Nodes
                 /\ next[th[u].cur] = th[u].nxt
           /\ \A u \in Threads : Entering(u) =>
                 /\ th[u].entry \in alloc \ marked /\ th[u].entry \in Pending
                 /\ th[u].entry \in Nodes
           /\ \A u \in Threads : th[u].pc \in {"link", "cas"} => Entering(u)
           /\ Pending \in SUBSET Nodes /\ Retired \in SUBSET Nodes
           /\ Old \in SUBSET Nodes /\ Listed \in SUBSET Nodes
           /\ Pending \subseteq alloc /\ Pending \intersect marked = {}
           /\ Pending \intersect Retired = {} /\ Retired \subseteq Old
           /\ marked \subseteq Old /\ Old \ marked \subseteq Listed
           /\ \A n \in Nodes : n \in Listed <=> n \in alloc /\ n \notin Pending /\ n \notin Retired
           /\ \A n \in Nodes : n \in Old <=> n \in alloc /\ n \notin Pending
<1>1. \A u \in Threads : th[u].pc = "unlink" =>
                 /\ th[u].cur \in Listed /\ th[u].cur \in marked /\ th[u].cur \in Nodes
                 /\ next[th[u].cur] = th[u].nxt
  BY SoundFacts DEF Walk, Control
<1>2. \A u \in Threads : Entering(u) =>
                 /\ th[u].entry \in alloc \ marked /\ th[u].entry \in Nodes
  BY SoundFacts DEF EntryOK, Entering, Adding, Control
<1>4. \A u \in Threads : th[u].pc \in {"link", "cas"} => Entering(u)
  BY SoundFacts DEF Control, Entering, Adding
<1>5. Types /\ Memory /\ \A u \in Threads : EntryOK(u) /\ Control(u)
  BY SoundFacts
<1> QED BY <1>1, <1>2, <1>4, <1>5, SetFacts

\* The same, of a step that leaves memory alone.
LEMMA KeptOthers ==
    ASSUME SafeInv, LockFreeListAssumption, NEW t \in Threads, OthersAside(t), ScanStarts(t), Keeps
    PROVE  \A u \in Threads \ {t} : Sound(u)'
<1>1. Listed' = Listed /\ Old' = Old /\ alloc' = alloc /\ marked' = marked
      /\ next' = next /\ key' = key
  BY KeepsSets DEF Keeps
<1>2. \A u \in Threads \ {t} :
              /\ th[u].pc = "unlink" => /\ th[u].cur \in Listed' /\ th[u].cur \in marked'
                                        /\ next'[th[u].cur] = next[th[u].cur]
              /\ Entering(u) => /\ th[u].entry \in alloc' \ marked'
                                /\ key'[th[u].entry] = key[th[u].entry]
                                /\ next'[th[u].entry] = next[th[u].entry]
  BY <1>1, SoundUses
<1>3. \A n \in Old : n \in Old'
  BY <1>1
<1>4. \A n \in Old : n \in Old' => key'[n] = key[n]
  BY <1>1
<1> QED BY <1>2, <1>3, <1>4, OthersKept

\* What such a step leaves of the whole list.
LEMMA KeptWhole ==
    ASSUME SafeInv, Keeps
    PROVE  Memory' /\ EntriesApart' /\ Shape'
<1>1. /\ Listed' = Listed /\ Old' = Old /\ Pending' = Pending /\ Retired' = Retired
      /\ alloc' = alloc /\ marked' = marked /\ next' = next /\ key' = key /\ retired' = retired
  BY KeepsSets DEF Keeps
<1>2. Memory'
  BY <1>1, SoundFacts DEF Memory
<1>3. EntriesApart'
  BY SoundFacts DEF EntriesApart, Keeps, CallsSame
<1>4. Shape'
  BY <1>1, SoundFacts, ShapeSame
<1> QED BY <1>2, <1>3, <1>4

\* The parts of the invariant that speak of two threads.
LEMMA UnlinkersKept ==
    ASSUME SafeInv, NEW t \in Threads, OthersAside(t), th'[t].pc # "unlink"
    PROVE  Unlinkers'
BY SoundFacts DEF Unlinkers, OthersAside

\* SafeInv, of a step that leaves memory alone, once its own thread is sound.
LEMMA KeepStepSeen ==
    ASSUME SafeInv, LockFreeListAssumption, NEW t \in Threads, SameMemory, CallsSame,
           hp' \in [Threads -> [HazardSlots -> NodeOrNull]],
           late' \in [Threads -> Seq(HazardSlots \X NodeOrNull)],
           th' \in [Threads -> Local], seen' \in [Threads -> SUBSET BOOLEAN],
           OthersAside(t), ScanStarts(t), th'[t].pc # "unlink",
           th'[t].op = th[t].op, th'[t].key = th[t].key, Sound(t)'
    PROVE  SafeInv'
<1>1. Keeps
  BY DEF Keeps, SameMemory
<1>2. Types'
  BY SoundFacts DEF Types, SameMemory
<1>3. Memory' /\ EntriesApart' /\ Shape'
  BY <1>1, KeptWhole
<1>4. Unlinkers'
  BY UnlinkersKept
<1>5. \A u \in Threads : Sound(u)'
  BY <1>1, KeptOthers
<1> QED BY <1>2, <1>3, <1>4, <1>5 DEF SafeInv

\* The same, of a step that Watch is no part of.
LEMMA KeepStep ==
    ASSUME SafeInv, LockFreeListAssumption, NEW t \in Threads, SameMemory, CallsSame,
           hp' \in [Threads -> [HazardSlots -> NodeOrNull]],
           late' \in [Threads -> Seq(HazardSlots \X NodeOrNull)],
           th' \in [Threads -> Local], seen' = seen,
           OthersAside(t), ScanStarts(t), th'[t].pc # "unlink",
           th'[t].op = th[t].op, th'[t].key = th[t].key, Sound(t)'
    PROVE  SafeInv'
<1>1. seen' \in [Threads -> SUBSET BOOLEAN]
  BY SoundFacts DEF Types
<1> QED BY <1>1, KeepStepSeen

-----------------------------------------------------------------------------
\* The steps of find, of the scan and of a store that has been seen.

\* A call that starts again has nothing to protect.
LEMMA RestartSound ==
    ASSUME SafeInv, LockFreeListAssumption, NEW t \in Threads, Restarts(t), late'[t] = <<>>,
           th[t].pc \in {"checkHead", "checkNext", "compare", "cas", "mark", "unlink"},
           Entering(t) => /\ th[t].entry \in alloc' \ marked'
                          /\ key'[th[t].entry] = th[t].key /\ next'[th[t].entry] = Null
    PROVE  Sound(t)'
<1>1. Control(t)
  BY SoundFacts
<1>2. Control(t)'
  BY <1>1 DEF Control, Restarts, Moves, Walks, Stands, Scans, Walking
<1>3. Buffer(t)' /\ Walk(t)'
  BY DEF Buffer, Walk, Restarts, Moves, Walking
<1>4. EntryOK(t)'
  BY DEF EntryOK, Entering, Adding, Restarts, Moves
<1> QED BY <1>2, <1>3, <1>4 DEF Sound

\* The entry of a call that is not at the CAS.
LEMMA EntryStays ==
    ASSUME SafeInv, NEW t \in Threads, NEW place, NEW result, Moves(t, place, result), SameMemory,
           th[t].pc # "cas", place # "cas", th[t].op = "add" => result = th[t].result
    PROVE  EntryOK(t)'
<1>1. EntryOK(t)
  BY SoundFacts
<1>2. Entering(t)' => Entering(t)
  BY DEF Entering, Adding, Moves
<1> QED BY <1>1, <1>2 DEF EntryOK, Moves, SameMemory

\* The three hazard pointers.
LEMMA SlotsAre == 0 \in HazardSlots /\ 1 \in HazardSlots /\ 2 \in HazardSlots
BY DEF HazardSlots

\* Buffers of one and of two stores.
LEMMA LateIs ==
    ASSUME NEW a, NEW b
    PROVE  Len(<<a>>) = 1 /\ Len(<<a, b>>) = 2 /\ <<a>> # <<>> /\ <<a, b>> # <<>>
           /\ Tail(<<a, b>>) = <<b>> /\ Tail(<<a>>) = <<>> /\ <<a, b>>[1] = a /\ <<a>>[1] = a
           /\ Len(<<>>) = 0
OBVIOUS

\* What t holds safely it goes on holding when its step takes nothing out of Old.
LEMMA OwnSafe ==
    ASSUME SafeInv, NEW t \in Threads, SameMemory, CallsSame, hp' = hp,
           \A w \in Threads \ {t} : th'[w] = th[w]
    PROVE  \A s \in HazardSlots : \A n : Safe(t, s, n) => Safe(t, s, n)'
<1> SUFFICES ASSUME NEW s \in HazardSlots, NEW n, Safe(t, s, n) PROVE Safe(t, s, n)'
  OBVIOUS
<1>1. n \in Old'
  BY KeepsSets DEF Keeps, SameMemory, Safe
<1>2. \A w \in Threads \ {t} : th'[w] = th[w] /\ retired'[w] = retired[w]
  BY DEF SameMemory
<1>3. hp'[t][s] = hp[t][s]
  OBVIOUS
<1> QED BY <1>1, <1>2, <1>3, SafeOwn

\* SafeInv, one step after the other: the walk.
LEMMA FindStartKeeps ==
    ASSUME SafeInv, LockFreeListAssumption, Clean', NEW t \in Threads, FindStart(t)
    PROVE  SafeInv'
<1>1. /\ th[t].pc = "start" /\ late[t] = <<>>
      /\ Moves(t, "checkHead", th[t].result) /\ Walks(t, head, next[head], th[t].nxt)
      /\ Stands(t) /\ Stores(t, <<<<1, next[head]>>>>)
      /\ SameMemory /\ hp' = hp /\ seen' = seen
  BY SoundFacts, FindStartDoes
<1>2. CallsSame
  BY <1>1, MovesSame
<1>3. Control(t)'
  <2>1. Control(t)
    BY SoundFacts
  <2> QED BY <1>1, <2>1 DEF Control, Moves, Walks, Stands, Scans, Walking
<1>4. Buffer(t)'
  BY <1>1 DEF Buffer, Moves, Walks, Stores
<1>5. Walk(t)'
  <2>1. late'[t] # <<>>
    BY <1>1, LateIs DEF Stores
  <2> QED BY <1>1, <2>1 DEF Walk, Moves, Walks, Walking
<1>6. EntryOK(t)'
  BY <1>1, EntryStays
<1>7. OthersAside(t) /\ ScanStarts(t)
  BY <1>1 DEF OthersAside, ScanStarts, Moves, Stores, SameMemory
<1>8. hp \in [Threads -> [HazardSlots -> NodeOrNull]]
  BY SoundFacts DEF Types
<1>9. Sound(t)'
  BY <1>3, <1>4, <1>5, <1>6 DEF Sound
<1> QED BY <1>1, <1>2, <1>7, <1>8, <1>9, KeepStep DEF Moves, Stores

\* A restart that leaves memory as it is.
LEMMA RestartKeeps ==
    ASSUME SafeInv, LockFreeListAssumption, NEW t \in Threads, Restarts(t),
           late[t] = <<>>, late' = late, SameMemory, hp' = hp, seen' = seen,
           th[t].pc \in {"checkHead", "checkNext", "compare", "mark", "unlink"}
    PROVE  SafeInv'
<1>1. CallsSame
  BY MovesSame DEF Restarts
<1>2. Entering(t) => /\ th[t].entry \in alloc' \ marked'
                     /\ key'[th[t].entry] = th[t].key /\ next'[th[t].entry] = Null
  <2>1. EntryOK(t)
    BY SoundFacts
  <2> QED BY <2>1 DEF EntryOK, SameMemory
<1>3. Sound(t)'
  BY <1>2, RestartSound
<1>4. OthersAside(t) /\ ScanStarts(t)
  BY DEF OthersAside, ScanStarts, Restarts, Moves, SameMemory
<1>5. /\ hp \in [Threads -> [HazardSlots -> NodeOrNull]]
      /\ late \in [Threads -> Seq(HazardSlots \X NodeOrNull)]
  BY SoundFacts DEF Types
<1> QED BY <1>1, <1>3, <1>4, <1>5, KeepStep DEF Restarts, Moves

\* Where find goes on or ends: what the new place needs.
LEMMA ArriveKeeps ==
    ASSUME SafeInv, LockFreeListAssumption, NEW t \in Threads, SameMemory, hp' = hp, seen' = seen,
           NEW place \in {"load", "link", "mark", "clear", "compare"}, NEW result \in BOOLEAN,
           Moves(t, place, result), Stands(t),
           late' \in [Threads -> Seq(HazardSlots \X NodeOrNull)],
           \A u \in Threads \ {t} : late'[u] = late[u],
           th[t].pc \in {"checkHead", "checkNext", "compare"},
           th[t].op # "find" => result = th[t].result, result /\ ~th[t].result => place = "clear",
           place = "link" => th[t].op = "add", place = "mark" => th[t].op = "del" /\ ~result,
           place # "clear" => /\ th'[t].prev \in Nodes \union {head} /\ PrevSafe(t)' /\ CurSafe(t)'
                              /\ place # "link" => th'[t].cur \in Nodes,
           Buffer(t)',
           place = "compare" /\ th'[t].nxt # Null =>
              Safe(t, 0, th[t].nxt)' /\ key[th'[t].cur] < key[th'[t].nxt],
           place = "link" /\ th'[t].cur # Null => key[th'[t].cur] > th[t].key,
           place = "mark" => key[th'[t].cur] = th[t].key
    PROVE  SafeInv'
<1>1. Control(t)
  BY SoundFacts
<1>2. CallsSame
  BY DEF Moves, CallsSame, Entering, Adding
<1>3. Control(t)'
  BY <1>1 DEF Control, Moves, Stands, Scans, Walking
<1>4. Walk(t)'
  <2>1. th'[t].pc = place /\ th'[t].key = th[t].key /\ key' = key
    BY DEF Moves, SameMemory
  <2>2. place # "checkHead" /\ place # "checkNext" /\ place # "unlink" /\ place # "cas"
    OBVIOUS
  <2>3. place \in Walking => PrevSafe(t)' /\ CurSafe(t)'
    BY DEF Walking
  <2>4. CASE place = "clear"
    BY <2>1, <2>4 DEF Walk, Walking
  <2>5. CASE place = "load"
    BY <2>1, <2>3, <2>5 DEF Walk, Walking
  <2>6. CASE place = "compare"
    BY <2>1, <2>3, <2>6 DEF Walk, Walking
  <2>7. CASE place = "link"
    BY <2>1, <2>3, <2>7 DEF Walk, Walking
  <2>8. CASE place = "mark"
    BY <2>1, <2>3, <2>8 DEF Walk, Walking
  <2> QED BY <2>4, <2>5, <2>6, <2>7, <2>8
<1>5. EntryOK(t)'
  BY EntryStays
<1>6. OthersAside(t) /\ ScanStarts(t)
  BY DEF OthersAside, ScanStarts, Moves, SameMemory
<1>7. hp \in [Threads -> [HazardSlots -> NodeOrNull]]
  BY SoundFacts DEF Types
<1>8. Sound(t)'
  BY <1>3, <1>4, <1>5 DEF Sound
<1> QED BY <1>2, <1>6, <1>7, <1>8, KeepStep DEF Moves

\* What the fields of a thread hold.
LEMMA CallShape ==
    ASSUME SafeInv, NEW t \in Threads
    PROVE  /\ th[t] \in Local /\ th[t].result \in BOOLEAN
           /\ th[t].op \in {"find", "add"} /\ th[t].result => th[t].pc = "clear"
           /\ th[t].op = "none" <=> th[t].pc = "idle"
           /\ th[t].op \in {"none", "find", "add", "del"}
           /\ th[t].key \in Nat
           /\ th[t].cur \in NodeOrNull /\ th[t].nxt \in NodeOrNull
           /\ late[t] \in Seq(HazardSlots \X NodeOrNull)
           /\ th[t].pc \in Walking \union {"checkHead"} => th[t].prev \in Nodes \union {head}
           /\ th[t].pc \in {"load", "checkNext", "compare", "mark", "unlink"} =>
                 th[t].cur \in Nodes /\ th[t].cur # Null
<1>1. th[t] \in Local /\ late[t] \in Seq(HazardSlots \X NodeOrNull)
  BY SoundFacts DEF Types
<1>2. Control(t)
  BY SoundFacts
<1>3. th[t].key \in Nat
  <2>1. th[t].key \in Keys \union {0}
    BY <1>1 DEF Local
  <2>2. \A x \in Keys \union {0} : x \in Nat
    BY LockFreeListAssumption
  <2> QED BY <2>1, <2>2
<1> QED BY <1>1, <1>2, <1>3, LockFreeListAssumption DEF Control, Local

\* A node that hangs in the list is not about to be freed.
LEMMA ListedUnscanned ==
    ASSUME SafeInv, NEW n \in Listed, NEW u \in Threads
    PROVE  ~Scanning(u, n)
<1> SUFFICES ASSUME Scanning(u, n) PROVE FALSE
  OBVIOUS
<1>1. th[u].i \in 1 .. Len(retired[u]) /\ retired[u][th[u].i] = n
  BY SoundFacts DEF Scanning, Control, Types
<1>2. n \in Nodes /\ n \notin Retired
  BY SoundUses DEF Listed
<1> QED BY <1>1, <1>2 DEF Retired

\* cur hung in the list after its hazard pointer had been set, so nobody who frees
\* it has come past that pointer.
LEMMA CheckHeadKeeps ==
    ASSUME SafeInv, LockFreeListAssumption, Clean', NEW t \in Threads, CheckHead(t)
    PROVE  SafeInv'
<1>1. /\ th[t].pc = "checkHead" /\ late[t] = <<>> /\ late' = late
      /\ \/ PointsTo(head, th[t].cur) /\ GoesOn(t, th[t].prev, th[t].cur, th[t].nxt)
         \/ Restarts(t)
      /\ SameMemory /\ hp' = hp /\ seen' = seen
  BY SoundFacts, CheckHeadDoes
<1>2. CASE Restarts(t)
  BY <1>1, <1>2, RestartKeeps
<1>3. CASE PointsTo(head, th[t].cur) /\ GoesOn(t, th[t].prev, th[t].cur, th[t].nxt)
  <2>1. /\ th[t].prev = head /\ hp[t][1] = th[t].cur /\ next[head] = th[t].cur
        /\ th[t].cur \in NodeOrNull
    BY <1>1, <1>3, SoundFacts, CallShape DEF Walk, PointsTo
  <2>2. /\ late' \in [Threads -> Seq(HazardSlots \X NodeOrNull)]
        /\ Buffer(t)' /\ late'[t] = <<>>
    BY <1>1, SoundFacts DEF Types, Buffer
  <2>3. CASE th[t].cur = Null
    <3>1. Ends(t, th[t].prev, Null, th[t].nxt, FALSE)
      BY <1>3, <2>3 DEF GoesOn
    <3>2. CASE /\ th[t].op = "add"
               /\ Moves(t, "link", th[t].result) /\ Walks(t, head, Null, th[t].nxt) /\ Stands(t)
      <4>1. PrevSafe(t)' /\ CurSafe(t)'
        BY <3>2 DEF PrevSafe, CurSafe, Walks
      <4>2. th[t].result = FALSE
        BY <1>1, <3>2, CallShape
      <4> QED BY <1>1, <2>2, <3>2, <4>1, <4>2, CallShape, ArriveKeeps DEF Walks
    <3>3. CASE /\ Moves(t, "clear", IF th[t].op = "find" THEN FALSE ELSE th[t].result)
               /\ Stands(t)
      <4> DEFINE result == IF th[t].op = "find" THEN FALSE ELSE th[t].result
      <4>2. result \in BOOLEAN /\ (th[t].op # "find" => result = th[t].result)
        BY CallShape
      <4> HIDE DEF result
      <4>3. Moves(t, "clear", result)
        BY <3>3 DEF result
      <4> QED BY <1>1, <2>2, <3>3, <4>2, <4>3, ArriveKeeps
    <3> QED BY <2>1, <3>1, <3>2, <3>3 DEF Ends
  <2>4. CASE th[t].cur # Null
    <3>1. /\ Moves(t, "load", th[t].result) /\ Walks(t, head, th[t].cur, th[t].nxt)
          /\ Stands(t)
      BY <1>3, <2>1, <2>4 DEF GoesOn
    <3>2. Safe(t, 1, th[t].cur)
      <4>1. th[t].cur \in Listed
        BY <2>1, <2>4, SoundFacts DEF Shape
      <4>2. th[t].cur \in Old /\ th[t].cur \notin Retired
        BY <4>1 DEF Listed
      <4>3. \A u \in Threads : ~Scanning(u, th[t].cur)
        BY <4>1, ListedUnscanned
      <4> QED BY <2>1, <4>2, <4>3 DEF Safe, Guards
    <3>3. Safe(t, 1, th[t].cur)'
      <4>1. CallsSame /\ \A w \in Threads \ {t} : th'[w] = th[w]
        BY <3>1, MovesSame DEF Moves
      <4>2. \A n : Safe(t, 1, n) => Safe(t, 1, n)'
        BY <1>1, <4>1, OwnSafe, SlotsAre
      <4> QED BY <3>1, <3>2, <4>2 DEF Walks
    <3>4. PrevSafe(t)' /\ CurSafe(t)'
      BY <2>2, <3>1, <3>3 DEF PrevSafe, CurSafe, Walks, Moves
    <3>5. th[t].cur \in Nodes
      BY <2>1, <2>4 DEF NodeOrNull
    <3>6. th[t].result \in BOOLEAN
      BY CallShape
    <3> QED BY <1>1, <2>2, <3>1, <3>4, <3>5, <3>6, ArriveKeeps DEF Walks
  <2> QED BY <2>3, <2>4
<1> QED BY <1>1, <1>2, <1>3

\* next is published, and not yet known to be safe.
LEMMA LoadNextKeeps ==
    ASSUME SafeInv, LockFreeListAssumption, Clean', NEW t \in Threads, LoadNext(t)
    PROVE  SafeInv'
<1>0. th[t].pc = "load"
  BY DEF LoadNext, At
<1>1. /\ late[t] = <<>>
      /\ Moves(t, "checkNext", th[t].result)
      /\ Walks(t, th[t].prev, th[t].cur, next[th[t].cur])
      /\ Stands(t) /\ Stores(t, <<<<0, next[th[t].cur]>>>>)
      /\ SameMemory /\ hp' = hp /\ seen' = seen
  BY <1>0, SoundFacts, CallShape, LoadNextDoes
<1>2. CallsSame
  BY <1>1, MovesSame
<1>3. Control(t)'
  <2>1. Control(t)
    BY SoundFacts
  <2> QED BY <1>0, <1>1, <2>1 DEF Control, Moves, Walks, Stands, Scans, Walking
<1>4. Buffer(t)'
  BY <1>1 DEF Buffer, Moves, Walks, Stores
<1>5. late'[t] # <<>> /\ Len(late'[t]) = 1 /\ Len(late[t]) = 0
  BY <1>1, LateIs DEF Stores
<1>6. PrevSafe(t) /\ CurSafe(t) /\ th[t].cur # Null
  BY <1>0, SoundFacts, CallShape DEF Walk, Walking
<1>7. \A s \in HazardSlots : \A n : Safe(t, s, n) => Safe(t, s, n)'
  BY <1>1, <1>2, OwnSafe DEF Moves
<1>8. PrevSafe(t)'
  <2>1. CASE th[t].prev = head
    BY <1>1, <2>1 DEF PrevSafe, Walks
  <2>2. CASE th[t].prev # head
    <3>1. th[t].prev \in Nodes /\ key[th[t].prev] < th[t].key /\ Safe(t, 2, th[t].prev)
      BY <1>5, <1>6, <2>2 DEF PrevSafe
    <3>2. Safe(t, 2, th[t].prev)'
      BY <1>1, <1>7, <3>1, SlotsAre DEF Walks
    <3> QED BY <1>1, <1>5, <3>1, <3>2 DEF PrevSafe, Walks, Moves, SameMemory
  <2> QED BY <2>1, <2>2
<1>9. CurSafe(t)'
  <2>1. Safe(t, 1, th[t].cur)
    BY <1>1, <1>6 DEF CurSafe
  <2>2. Safe(t, 1, th[t].cur)'
    BY <1>1, <1>7, <2>1, SlotsAre DEF Walks
  <2> QED BY <1>1, <2>2 DEF CurSafe, Moves
<1>10. Walk(t)'
  BY <1>1, <1>5, <1>8, <1>9 DEF Walk, Moves
<1>11. EntryOK(t)'
  BY <1>0, <1>1, EntryStays
<1>12. OthersAside(t) /\ ScanStarts(t)
  BY <1>1 DEF OthersAside, ScanStarts, Moves, Stores, SameMemory
<1>13. hp \in [Threads -> [HazardSlots -> NodeOrNull]]
  BY SoundFacts DEF Types
<1>14. Sound(t)'
  BY <1>3, <1>4, <1>10, <1>11 DEF Sound
<1> QED BY <1>1, <1>2, <1>12, <1>13, <1>14, KeepStep DEF Moves, Stores

\* Nothing is in the buffer and t stays: what it held safely it still does.
LEMMA HoldsStill ==
    ASSUME SafeInv, LockFreeListAssumption, NEW t \in Threads, SameMemory, CallsSame, hp' = hp,
           late[t] = <<>>, late'[t] = <<>>, \A w \in Threads \ {t} : th'[w] = th[w],
           th'[t].key = th[t].key, th'[t].prev = th[t].prev, th'[t].cur = th[t].cur,
           th[t].pc \in Walking
    PROVE  PrevSafe(t)' /\ CurSafe(t)'
<1>1. PrevSafe(t) /\ CurSafe(t)
  BY SoundFacts DEF Walk
<1>2. \A s \in HazardSlots : \A n : Safe(t, s, n) => Safe(t, s, n)'
  BY OwnSafe
<1>3. Len(late[t]) = 0 /\ Len(late'[t]) = 0
  BY LateIs
<1>4. PrevSafe(t)'
  <2>1. CASE th[t].prev = head
    BY <2>1 DEF PrevSafe
  <2>2. CASE th[t].prev # head
    <3>1. th[t].prev \in Nodes /\ key[th[t].prev] < th[t].key /\ Safe(t, 2, th[t].prev)
      BY <1>1, <1>3, <2>2 DEF PrevSafe
    <3>2. Safe(t, 2, th[t].prev)'
      BY <1>2, <3>1, SlotsAre
    <3> QED BY <1>3, <3>1, <3>2 DEF PrevSafe, SameMemory
  <2> QED BY <2>1, <2>2
<1>5. CurSafe(t)'
  <2>1. CASE th[t].cur = Null
    BY <2>1 DEF CurSafe
  <2>2. CASE th[t].cur # Null
    <3>1. Safe(t, 1, th[t].cur)
      BY <1>1, <2>2 DEF CurSafe
    <3>2. Safe(t, 1, th[t].cur)'
      BY <1>2, <3>1, SlotsAre
    <3> QED BY <3>2 DEF CurSafe
  <2> QED BY <2>1, <2>2
<1> QED BY <1>4, <1>5

\* cur had no mark when it led to next for the second time, so next is in the
\* list at that moment, and its hazard pointer is set.
LEMMA CheckNextKeeps ==
    ASSUME SafeInv, LockFreeListAssumption, Clean', NEW t \in Threads, CheckNext(t)
    PROVE  SafeInv'
<1>1. /\ th[t].pc = "checkNext" /\ late[t] = <<>> /\ late' = late
      /\ \/ /\ PointsTo(th[t].cur, th[t].nxt)
            /\ Moves(t, "compare", th[t].result)
            /\ Walks(t, th[t].prev, th[t].cur, th[t].nxt) /\ Stands(t)
         \/ Restarts(t)
      /\ SameMemory /\ hp' = hp /\ seen' = seen
  BY SoundFacts, CheckNextDoes
<1>2. CASE Restarts(t)
  BY <1>1, <1>2, RestartKeeps
<1>3. CASE /\ PointsTo(th[t].cur, th[t].nxt)
           /\ Moves(t, "compare", th[t].result)
           /\ Walks(t, th[t].prev, th[t].cur, th[t].nxt) /\ Stands(t)
  <2>1. CallsSame
    BY <1>3, MovesSame
  <2>2. PrevSafe(t)' /\ CurSafe(t)'
    BY <1>1, <1>3, <2>1, HoldsStill DEF Moves, Walks, Walking
  <2>3. /\ late' \in [Threads -> Seq(HazardSlots \X NodeOrNull)]
        /\ Buffer(t)' /\ late'[t] = <<>>
    BY <1>1, SoundFacts DEF Types, Buffer
  <2>5. /\ th[t].cur \in Nodes /\ th[t].prev \in Nodes \union {head} /\ th[t].result \in BOOLEAN
        /\ ~(th[t].op = "add" /\ th[t].result) /\ th[t].nxt \in NodeOrNull
    BY <1>1, CallShape DEF Walking
  <2>6. ASSUME th[t].nxt # Null
        PROVE  Safe(t, 0, th[t].nxt)' /\ key[th[t].cur] < key[th[t].nxt]
    <3>1. hp[t][0] = th[t].nxt /\ CurSafe(t)
      BY <1>1, SoundFacts DEF Walk, Walking
    <3>2. th[t].cur \in Old
      BY <1>1, <2>5, <3>1, CallShape DEF CurSafe, Safe
    <3>3. th[t].cur \in Listed
      BY <1>3, <3>2, SoundUses DEF PointsTo
    <3>4. th[t].nxt \in Listed /\ K(th[t].cur) < K(th[t].nxt)
      BY <1>3, <2>6, <3>3, SoundFacts DEF Shape, PointsTo
    <3>5. key[th[t].cur] < key[th[t].nxt]
      BY <3>3, <3>4, KIs, SoundFacts, SoundUses
    <3>6. th[t].nxt \in Old
      BY <3>4 DEF Listed
    <3>7. Safe(t, 0, th[t].nxt)
      BY <3>1, <3>4, <3>6, ListedUnscanned DEF Safe, Guards
    <3>8. \A n : Safe(t, 0, n) => Safe(t, 0, n)'
      BY <1>1, <1>3, <2>1, OwnSafe, SlotsAre DEF Moves
    <3>9. Safe(t, 0, th[t].nxt)'
      BY <1>3, <3>7, <3>8 DEF Walks
    <3> QED BY <3>5, <3>9
  <2> QED BY <1>1, <1>3, <2>2, <2>3, <2>5, <2>6, ArriveKeeps DEF Walks
<1> QED BY <1>1, <1>2, <1>3

\* A restart.
LEMMA PrevLostKeeps ==
    ASSUME SafeInv, LockFreeListAssumption, Clean', NEW t \in Threads, PrevLost(t)
    PROVE  SafeInv'
BY SoundFacts, PrevLostDoes, RestartKeeps

\* prev leads to cur, so cur is where the key belongs.
LEMMA CompareKeeps ==
    ASSUME SafeInv, LockFreeListAssumption, Clean', NEW t \in Threads, Compare(t)
    PROVE  SafeInv'
<1> DEFINE found == key[th[t].cur] = th[t].key
<1>1. /\ th[t].pc = "compare" /\ late[t] = <<>> /\ late' = late
      /\ PointsTo(th[t].prev, th[t].cur) /\ key[th[t].cur] >= th[t].key
      /\ Ends(t, th[t].prev, th[t].cur, th[t].nxt, found)
      /\ SameMemory /\ hp' = hp /\ seen' = seen
  BY SoundFacts, CompareDoes
<1>2. /\ late' \in [Threads -> Seq(HazardSlots \X NodeOrNull)]
      /\ Buffer(t)' /\ late'[t] = <<>>
  BY <1>1, SoundFacts DEF Types, Buffer
<1>3. /\ th[t].cur \in Nodes /\ th[t].prev \in Nodes \union {head} /\ th[t].result \in BOOLEAN
      /\ ~(th[t].op \in {"find", "add"} /\ th[t].result) /\ th[t].cur # Null
  BY <1>1, CallShape DEF Walking
<1>4. ASSUME NEW place \in {"link", "mark"}, Moves(t, place, th[t].result),
             Walks(t, th[t].prev, th[t].cur, th[t].nxt)
      PROVE  PrevSafe(t)' /\ CurSafe(t)'
  <2>1. CallsSame
    BY <1>4, MovesSame
  <2> QED BY <1>1, <1>2, <1>4, <2>1, HoldsStill DEF Moves, Walks, Walking
<1>5. CASE /\ th[t].op = "add" /\ ~found
           /\ Moves(t, "link", th[t].result) /\ Walks(t, th[t].prev, th[t].cur, th[t].nxt)
           /\ Stands(t)
  <2>1. PrevSafe(t)' /\ CurSafe(t)'
    BY <1>4, <1>5
  <2>2. key[th[t].cur] > th[t].key
    <3>1. key[th[t].cur] \in Nat /\ th[t].key \in Nat
      BY <1>3, KIs, CallShape, SoundFacts
    <3> QED BY <1>1, <1>5, <3>1
  <2> QED BY <1>1, <1>2, <1>3, <1>5, <2>1, <2>2, ArriveKeeps DEF Walks
<1>6. CASE /\ th[t].op = "del" /\ found /\ ~th[t].result
           /\ Moves(t, "mark", th[t].result) /\ Walks(t, th[t].prev, th[t].cur, th[t].nxt)
           /\ Stands(t)
  <2>1. PrevSafe(t)' /\ CurSafe(t)'
    BY <1>4, <1>6
  <2> QED BY <1>1, <1>2, <1>3, <1>6, <2>1, ArriveKeeps DEF Walks
<1>7. CASE /\ Moves(t, "clear", IF th[t].op = "find" THEN found ELSE th[t].result)
           /\ Stands(t)
  <2> DEFINE result == IF th[t].op = "find" THEN found ELSE th[t].result
  <2>2. result \in BOOLEAN /\ (th[t].op # "find" => result = th[t].result)
    BY CallShape
  <2>3. Moves(t, "clear", result)
    BY <1>7
  <2> HIDE DEF result
  <2> QED BY <1>1, <1>2, <1>7, <2>2, <2>3, ArriveKeeps
<1> QED BY <1>1, <1>5, <1>6, <1>7 DEF Ends

\* cur and next are handed on from slot to slot, upwards.
LEMMA AdvanceKeeps ==
    ASSUME SafeInv, LockFreeListAssumption, Clean', NEW t \in Threads, Advance(t)
    PROVE  SafeInv'
<1>0. th[t].pc = "compare"
  BY DEF Advance, At
<1>1. /\ late[t] = <<>>
      /\ PointsTo(th[t].prev, th[t].cur) /\ key[th[t].cur] < th[t].key
      /\ GoesOn(t, th[t].cur, th[t].nxt, Null)
      /\ Stores(t, <<<<2, th[t].cur>>, <<1, th[t].nxt>>>>)
      /\ SameMemory /\ hp' = hp /\ seen' = seen
  BY <1>0, SoundFacts, CallShape, AdvanceDoes
<1>2. /\ th[t].cur \in Nodes /\ th[t].cur # Null /\ th[t].cur # head /\ th[t].nxt \in NodeOrNull
      /\ th[t].result \in BOOLEAN /\ ~(th[t].op \in {"find", "add"} /\ th[t].result)
  BY <1>0, CallShape, LockFreeListAssumption
<1>3. /\ late'[t] = <<<<2, th[t].cur>>, <<1, th[t].nxt>>>> /\ Len(late'[t]) = 2 /\ late'[t] # <<>>
      /\ late' \in [Threads -> Seq(HazardSlots \X NodeOrNull)]
      /\ \A u \in Threads \ {t} : late'[u] = late[u]
  BY <1>1, LateIs DEF Stores
<1>4. CurSafe(t)
  BY <1>0, SoundFacts DEF Walk, Walking
<1>5. Safe(t, 1, th[t].cur)
  BY <1>1, <1>2, <1>4 DEF CurSafe
<1>6. th[t].nxt # Null => Safe(t, 0, th[t].nxt) /\ key[th[t].cur] < key[th[t].nxt]
  BY <1>0, SoundFacts DEF Walk
<1>7. ASSUME NEW place \in {"link", "load"}, Moves(t, place, th[t].result),
             Walks(t, th[t].cur, th[t].nxt, Null)
      PROVE  PrevSafe(t)' /\ CurSafe(t)' /\ Buffer(t)'
  <2>1. CallsSame
    BY <1>7, MovesSame
  <2>2. \A s \in HazardSlots : \A n : Safe(t, s, n) => Safe(t, s, n)'
    BY <1>1, <1>7, <2>1, OwnSafe DEF Moves
  <2>3. PrevSafe(t)'
    <3>1. Safe(t, 1, th[t].prev)'
      BY <1>5, <1>7, <2>2, SlotsAre DEF Walks
    <3>2. key'[th[t].cur] < th[t].key
      BY <1>1 DEF SameMemory
    <3> QED BY <1>2, <1>3, <1>7, <3>1, <3>2 DEF PrevSafe, Walks, Moves
  <2>4. CurSafe(t)'
    <3>1. CASE th[t].nxt = Null
      BY <1>7, <3>1 DEF CurSafe, Walks
    <3>2. CASE th[t].nxt # Null
      <4>1. Safe(t, 0, th[t].cur)'
        BY <1>6, <1>7, <2>2, <3>2, SlotsAre DEF Walks
      <4>2. late'[t] # <<>> /\ th'[t].pc # "checkNext"
        BY <1>3, <1>7 DEF Moves
      <4> QED BY <4>1, <4>2 DEF CurSafe
    <3> QED BY <3>1, <3>2
  <2>5. Buffer(t)'
    BY <1>2, <1>3, <1>7 DEF Buffer, Moves, Walks
  <2> QED BY <2>3, <2>4, <2>5
<1>8. CASE th[t].nxt = Null
  <2>1. Ends(t, th[t].cur, Null, Null, FALSE)
    BY <1>1, <1>8 DEF GoesOn
  <2>2. CASE /\ th[t].op = "add"
             /\ Moves(t, "link", th[t].result) /\ Walks(t, th[t].cur, Null, Null) /\ Stands(t)
    <3>1. PrevSafe(t)' /\ CurSafe(t)' /\ Buffer(t)'
      BY <1>7, <1>8, <2>2
    <3> QED BY <1>0, <1>1, <1>2, <1>3, <2>2, <3>1, ArriveKeeps DEF Walks
  <2>3. CASE /\ Moves(t, "clear", IF th[t].op = "find" THEN FALSE ELSE th[t].result)
             /\ Stands(t)
    <3>1. Buffer(t)'
      BY <2>3 DEF Moves, Buffer
    <3> DEFINE result == IF th[t].op = "find" THEN FALSE ELSE th[t].result
    <3>2. result \in BOOLEAN /\ (th[t].op # "find" => result = th[t].result)
      BY CallShape
    <3>3. Moves(t, "clear", result)
      BY <2>3
    <3> HIDE DEF result
    <3> QED BY <1>0, <1>1, <1>3, <2>3, <3>1, <3>2, <3>3, ArriveKeeps
  <2> QED BY <2>1, <2>2, <2>3 DEF Ends
<1>9. CASE th[t].nxt # Null
  <2>1. /\ Moves(t, "load", th[t].result) /\ Walks(t, th[t].cur, th[t].nxt, Null)
        /\ Stands(t)
    BY <1>1, <1>9 DEF GoesOn
  <2>2. PrevSafe(t)' /\ CurSafe(t)' /\ Buffer(t)'
    BY <1>7, <2>1
  <2>4. th[t].nxt \in Nodes
    BY <1>2, <1>9 DEF NodeOrNull
  <2> QED BY <1>0, <1>1, <1>2, <1>3, <2>1, <2>2, <2>4, ArriveKeeps DEF Walks
<1> QED BY <1>8, <1>9

\* The steps of a scan.
LEMMA ScanControl ==
    ASSUME SafeInv, NEW t \in Threads, NEW place \in {"scan", "clear"}, NEW i, NEW slot,
           th[t].pc = "scan", Moves(t, place, th[t].result), Scans(t, i, slot),
           retired' = retired, late' = late, late[t] = <<>>,
           place = "clear" => i = 0 /\ slot = 0,
           place = "scan" =>
              /\ i \in 1 .. Len(retired[t]) + 1
              /\ slot = 0 \/ (i <= Len(retired[t]) /\ slot <= LastSlot)
    PROVE  Sound(t)'
<1>1. Control(t)
  BY SoundFacts
<1>2. Control(t)'
  BY <1>1 DEF Control, Moves, Scans, Walking, LastSlot
<1>3. Buffer(t)' /\ Walk(t)'
  BY DEF Buffer, Walk, Moves, Walking
<1>4. EntryOK(t)'
  BY <1>1 DEF EntryOK, Entering, Adding, Moves, Control
<1> QED BY <1>2, <1>3, <1>4 DEF Sound

\* Where std_hazard_gc stands.
LEMMA ScanRange ==
    ASSUME SafeInv, NEW t \in Threads, th[t].pc = "scan"
    PROVE  /\ th[t].i \in 1 .. Len(retired[t]) + 1 /\ th[t].i \in Nat
           /\ th[t].slot = 0 \/ (th[t].i <= Len(retired[t]) /\ th[t].slot <= LastSlot)
           /\ th[t].slot \in Nat /\ Len(retired[t]) \in Nat /\ late[t] = <<>>
           /\ LastSlot \in Int
<1>1. Control(t) /\ Buffer(t) /\ th[t] \in Local /\ retired[t] \in Seq(Nodes)
  BY SoundFacts DEF Types
<1>2. LastSlot \in Int
  BY LockFreeListAssumption DEF LastSlot
<1> QED BY <1>1, <1>2 DEF Control, Buffer, Local

\* The collection of retired nodes.
LEMMA ConflictKeeps ==
    ASSUME SafeInv, LockFreeListAssumption, Clean', NEW t \in Threads, Conflict(t)
    PROVE  SafeInv'
<1>1. /\ th[t].pc = "scan" /\ late[t] = <<>> /\ late' = late
      /\ th[t].i <= Len(retired[t]) /\ th[t].slot <= LastSlot
      /\ Moves(t, "scan", th[t].result) /\ Scans(t, th[t].i + 1, 0)
      /\ SameMemory /\ hp' = hp /\ seen' = seen
  BY SoundFacts, ConflictDoes
<1>2. th[t].i + 1 \in 1 .. Len(retired[t]) + 1
  BY <1>1, ScanRange
<1>3. Sound(t)'
  BY <1>1, <1>2, ScanControl DEF SameMemory
<1>4. OthersAside(t) /\ ScanStarts(t)
  BY <1>1 DEF OthersAside, ScanStarts, Moves, Scans, SameMemory
<1>5. hp' \in [Threads -> [HazardSlots -> NodeOrNull]]
      /\ late' \in [Threads -> Seq(HazardSlots \X NodeOrNull)]
  BY <1>1, SoundFacts DEF Types
<1> QED BY <1>1, <1>3, <1>4, <1>5, MovesSame, KeepStep DEF Moves

\* The end of the collection.
LEMMA GcDoneKeeps ==
    ASSUME SafeInv, LockFreeListAssumption, Clean', NEW t \in Threads, GcDone(t)
    PROVE  SafeInv'
<1>1. /\ th[t].pc = "scan" /\ late' = late /\ th[t].i > Len(retired[t])
      /\ Moves(t, "clear", th[t].result) /\ Scans(t, 0, th[t].slot)
      /\ SameMemory /\ hp' = hp /\ seen' = seen
  BY SoundFacts, GcDoneDoes
<1>2. th[t].slot = 0 /\ late[t] = <<>>
  BY <1>1, ScanRange
<1>3. Sound(t)'
  BY <1>1, <1>2, ScanControl DEF SameMemory
<1>4. OthersAside(t) /\ ScanStarts(t)
  BY <1>1 DEF OthersAside, ScanStarts, Moves, SameMemory
<1>5. hp' \in [Threads -> [HazardSlots -> NodeOrNull]]
      /\ late' \in [Threads -> Seq(HazardSlots \X NodeOrNull)]
  BY <1>1, SoundFacts DEF Types
<1> QED BY <1>1, <1>3, <1>4, <1>5, MovesSame, KeepStep DEF Moves

\* A slot is passed only when it does not hold the node.
LEMMA NoConflictKeeps ==
    ASSUME SafeInv, LockFreeListAssumption, Clean', NEW t \in Threads, NoConflict(t)
    PROVE  SafeInv'
<1>1. /\ th[t].pc = "scan" /\ late[t] = <<>> /\ late' = late
      /\ th[t].i <= Len(retired[t]) /\ th[t].slot < LastSlot
      /\ HazardPtr(t, th[t].slot) # retired[t][th[t].i]
      /\ Moves(t, "scan", th[t].result) /\ Scans(t, th[t].i, th[t].slot + 1)
      /\ SameMemory /\ hp' = hp /\ seen' = seen
  BY SoundFacts, NoConflictDoes
<1>2. CallsSame /\ Keeps
  BY <1>1, MovesSame DEF Keeps, SameMemory
<1>3. /\ th[t].slot + 1 <= LastSlot /\ th[t].i \in 1 .. Len(retired[t]) + 1
      /\ th[t].slot \in Nat /\ LastSlot \in Int
  BY <1>1, ScanRange
<1>4. Sound(t)'
  BY <1>1, <1>3, ScanControl DEF SameMemory
<1>5. /\ Listed' = Listed /\ Old' = Old /\ alloc' = alloc /\ marked' = marked
      /\ next' = next /\ key' = key /\ retired' = retired
  BY <1>1, <1>2, KeepsSets DEF SameMemory
<1>6. ASSUME NEW u \in Threads \ {t} PROVE Sound(u)'
  <2>1. th'[u] = th[u] /\ late'[u] = late[u] /\ hp'[u] = hp[u] /\ retired'[u] = retired[u]
    BY <1>1, <1>5 DEF Moves
  <2>2. ASSUME NEW s \in HazardSlots, NEW n \in Nodes, Safe(u, s, n) PROVE Safe(u, s, n)'
    <3>1. n \in Old'
      BY <1>5, <2>2 DEF Safe
    <3>2. ASSUME Scanning(t, n)' PROVE Scanning(t, n) /\ th'[t].slot <= Index(t, u, s)
      <4>1. Scanning(t, n)
        BY <1>1, <1>5, <3>2 DEF Scanning, Moves, Scans
      <4>2. th[t].slot <= Index(t, u, s) /\ hp[u][s] = n
        BY <2>2, <4>1 DEF Safe, Guards
      <4>3. Index(t, u, s) \in 0 .. LastSlot /\ HazardPtr(t, Index(t, u, s)) = n
        BY <4>2, IndexIs
      <4>4. th[t].slot # Index(t, u, s)
        BY <1>1, <4>1, <4>3 DEF Scanning
      <4>5. th[t].slot + 1 <= Index(t, u, s)
        BY <1>3, <4>2, <4>3, <4>4
      <4> QED BY <1>1, <4>1, <4>5 DEF Scans
    <3>3. \A w \in Threads \ {t} : th'[w] = th[w] /\ retired'[w] = retired[w]
      BY <1>1, <1>5 DEF Moves
    <3> QED BY <2>1, <2>2, <3>1, <3>2, <3>3, SafeKept
  <2>3. th[u].pc = "unlink" => /\ th[u].cur \in Listed' /\ th[u].cur \in marked'
                               /\ next'[th[u].cur] = next[th[u].cur]
    BY <1>5, SoundUses
  <2>4. Entering(u) => /\ th[u].entry \in alloc' \ marked'
                       /\ key'[th[u].entry] = key[th[u].entry]
                       /\ next'[th[u].entry] = next[th[u].entry]
    BY <1>5, SoundUses
  <2>5. \A n \in Old : n \in Old' => key'[n] = key[n]
    BY <1>5
  <2> QED BY <2>1, <2>2, <2>3, <2>4, <2>5, OtherKept
<1>7. Memory' /\ EntriesApart' /\ Shape'
  BY <1>2, KeptWhole
<1>8. OthersAside(t)
  BY <1>1 DEF OthersAside, Moves, SameMemory
<1>9. Unlinkers'
  BY <1>1, <1>8, UnlinkersKept DEF Moves
<1>10. Types'
  BY <1>1, SoundFacts DEF Types, SameMemory, Moves
<1> QED BY <1>4, <1>6, <1>7, <1>9, <1>10 DEF SafeInv

\* A copy goes to a later slot, which a scan has not passed if it has not passed
\* the first.
LEMMA GuardUp ==
    ASSUME NEW t \in Threads, NEW a \in HazardSlots, NEW b \in HazardSlots, a < b, NEW n,
           Safe(t, a, n), hp'[t][b] = n, th' = th, retired' = retired, n \in Old',
           \A u \in Threads : th[u].slot \in Nat
    PROVE  Safe(t, b, n)'
<1>1. ASSUME NEW u \in Threads \ {t}, Scanning(u, n)
      PROVE  th[u].slot <= Index(u, t, b)
  <2>1. th[u].slot <= Index(u, t, a)
    BY <1>1 DEF Safe, Guards
  <2>2. Index(u, t, a) <= Index(u, t, b) /\ Index(u, t, a) \in Int /\ Index(u, t, b) \in Int
    BY LockFreeListAssumption DEF Index, HazardSlots, Threads
  <2> QED BY <2>1, <2>2
<1> QED BY <1>1 DEF Safe, Guards, Scanning, Index

\* A node that two slots protect in turn is protected while the second is written.
LEMMA FlushKeeps ==
    ASSUME SafeInv, LockFreeListAssumption, NEW t \in Threads, Flush(t)
    PROVE  SafeInv'
<1>1. /\ late[t] # <<>>
      /\ hp' \in [Threads -> [HazardSlots -> NodeOrNull]]
      /\ \A u \in Threads \ {t} : hp'[u] = hp[u]
      /\ hp'[t][late[t][1][1]] = late[t][1][2]
      /\ \A s \in HazardSlots : s # late[t][1][1] => hp'[t][s] = hp[t][s]
      /\ Stores(t, Tail(late[t]))
      /\ SameMemory /\ th' = th /\ seen' = seen
  BY SoundFacts, FlushDoes
<1>2. CallsSame /\ Keeps
  BY <1>1 DEF CallsSame, Keeps, SameMemory, Entering, Adding
<1>3. Old' = Old /\ key' = key /\ retired' = retired /\ Listed' = Listed /\ marked' = marked
      /\ next' = next /\ alloc' = alloc
  BY <1>1, <1>2, KeepsSets DEF SameMemory
<1>4. Control(t) /\ Buffer(t) /\ EntryOK(t) /\ Walk(t)
      /\ \A u \in Threads : th[u].slot \in Nat
  BY SoundFacts DEF Types, Local
<1>5. Control(t)' /\ EntryOK(t)'
  BY <1>1, <1>3, <1>4 DEF Control, EntryOK, Entering, Adding, LastSlot
<1>6. ASSUME NEW s \in HazardSlots, s # late[t][1][1], NEW n, Safe(t, s, n) PROVE Safe(t, s, n)'
  BY <1>1, <1>3, <1>6, SafeOwn DEF Safe
<1>7. late'[t] = Tail(late[t])
  BY <1>1 DEF Stores
<1>8. th[t].pc # "scan" /\ th[t].pc # "unlink" /\ th[t].pc # "compare" /\ th[t].pc # "mark"
  BY <1>1, <1>4 DEF Buffer
<1>9. Buffer(t)' /\ Walk(t)'
  <2>1. CASE th[t].pc = "clear"
    BY <1>1, <2>1 DEF Buffer, Walk, Walking
  <2>2. CASE th[t].pc = "checkHead" /\ late[t] = <<<<1, th[t].cur>>>>
    <3>1. late'[t] = <<>> /\ hp'[t][1] = th[t].cur
      BY <1>1, <1>7, <2>2, LateIs
    <3>2. th[t].prev = head
      BY <1>4, <2>2 DEF Walk
    <3> QED BY <1>1, <2>2, <3>1, <3>2 DEF Buffer, Walk, Walking
  <2>3. CASE th[t].pc = "checkNext" /\ late[t] = <<<<0, th[t].nxt>>>>
    <3>1. /\ late'[t] = <<>> /\ hp'[t][0] = th[t].nxt /\ late[t][1][1] = 0
          /\ Len(late[t]) = 1 /\ Len(late'[t]) = 0
      BY <1>1, <1>7, <2>3, LateIs
    <3>2. PrevSafe(t) /\ CurSafe(t)
      BY <1>4, <2>3 DEF Walk, Walking
    <3>3. PrevSafe(t)'
      <4>1. CASE th[t].prev = head
        BY <1>1, <4>1 DEF PrevSafe
      <4>2. CASE th[t].prev # head
        <5>1. th[t].prev \in Nodes /\ key[th[t].prev] < th[t].key /\ Safe(t, 2, th[t].prev)
          BY <3>1, <3>2, <4>2 DEF PrevSafe
        <5>2. Safe(t, 2, th[t].prev)'
          BY <1>1, <1>6, <3>1, <5>1, SlotsAre
        <5> QED BY <1>1, <1>3, <3>1, <5>1, <5>2 DEF PrevSafe
      <4> QED BY <4>1, <4>2
    <3>4. CurSafe(t)'
      <4>1. CASE th[t].cur = Null
        BY <1>1, <4>1 DEF CurSafe
      <4>2. CASE th[t].cur # Null
        <5>1. Safe(t, 1, th[t].cur)
          BY <2>3, <3>2, <4>2 DEF CurSafe
        <5>2. Safe(t, 1, th[t].cur)'
          BY <1>1, <1>6, <3>1, <5>1, SlotsAre
        <5> QED BY <1>1, <3>1, <5>2 DEF CurSafe
      <4> QED BY <4>1, <4>2
    <3> QED BY <1>1, <2>3, <3>1, <3>3, <3>4 DEF Buffer, Walk, Walking
  <2>4. CASE /\ th[t].pc \in {"load", "link", "cas"} /\ th[t].prev # head
             /\ \/ late[t] = <<<<2, th[t].prev>>, <<1, th[t].cur>>>>
                \/ late[t] = <<<<1, th[t].cur>>>>
    <3>1. PrevSafe(t) /\ CurSafe(t)
      BY <1>4, <2>4 DEF Walk, Walking
    <3>2. th[t].prev \in Nodes /\ key[th[t].prev] < th[t].key
      BY <2>4, <3>1 DEF PrevSafe
    <3>3. th[t].cur = Null \/ Safe(t, 0, th[t].cur)
      BY <1>1, <2>4, <3>1 DEF CurSafe
    <3>4. PrevSafe(t)' /\ CurSafe(t)' /\ Buffer(t)'
      <4>1. CASE late[t] = <<<<2, th[t].prev>>, <<1, th[t].cur>>>>
        <5>1. /\ late'[t] = <<<<1, th[t].cur>>>> /\ hp'[t][2] = th[t].prev
              /\ late[t][1][1] = 2 /\ Len(late[t]) = 2 /\ Len(late'[t]) = 1 /\ late'[t] # <<>>
          BY <1>1, <1>7, <4>1, LateIs
        <5>2. Safe(t, 1, th[t].prev) /\ th[t].prev \in Old
          BY <2>4, <3>1, <5>1 DEF PrevSafe, Safe
        <5>3. Safe(t, 2, th[t].prev)'
          BY <1>1, <1>3, <1>4, <5>1, <5>2, GuardUp, SlotsAre
        <5>4. PrevSafe(t)'
          BY <1>1, <1>3, <3>2, <5>1, <5>3 DEF PrevSafe
        <5>5. th[t].cur = Null \/ Safe(t, 0, th[t].cur)'
          BY <1>1, <1>6, <3>3, <5>1, SlotsAre
        <5>6. CurSafe(t)'
          BY <1>1, <2>4, <5>1, <5>5 DEF CurSafe
        <5>7. Buffer(t)'
          BY <1>1, <2>4, <5>1 DEF Buffer
        <5> QED BY <5>4, <5>6, <5>7
      <4>2. CASE late[t] = <<<<1, th[t].cur>>>>
        <5>1. /\ late'[t] = <<>> /\ hp'[t][1] = th[t].cur
              /\ late[t][1][1] = 1 /\ Len(late[t]) = 1 /\ Len(late'[t]) = 0
          BY <1>1, <1>7, <4>2, LateIs
        <5>2. Safe(t, 2, th[t].prev)
          BY <2>4, <3>1, <5>1 DEF PrevSafe
        <5>3. Safe(t, 2, th[t].prev)'
          BY <1>1, <1>6, <5>1, <5>2, SlotsAre
        <5>4. PrevSafe(t)'
          BY <1>1, <1>3, <3>2, <5>1, <5>3 DEF PrevSafe
        <5>5. th[t].cur = Null \/ Safe(t, 1, th[t].cur)'
          <6> SUFFICES ASSUME th[t].cur # Null PROVE Safe(t, 1, th[t].cur)'
            OBVIOUS
          <6>1. Safe(t, 0, th[t].cur) /\ th[t].cur \in Old
            BY <3>3 DEF Safe
          <6> QED BY <1>1, <1>3, <1>4, <5>1, <6>1, GuardUp, SlotsAre
        <5>6. CurSafe(t)'
          BY <1>1, <5>1, <5>5 DEF CurSafe
        <5>7. Buffer(t)'
          BY <5>1 DEF Buffer
        <5> QED BY <5>4, <5>6, <5>7
      <4> QED BY <2>4, <4>1, <4>2
    <3>5. th[t].pc \in {"link", "cas"} /\ th[t].cur # Null => key'[th[t].cur] > th[t].key
      BY <1>3, <1>4 DEF Walk
    <3> QED BY <1>1, <2>4, <3>4, <3>5 DEF Walk
  <2> QED BY <1>1, <1>4, <2>1, <2>2, <2>3, <2>4 DEF Buffer
<1>10. OthersAside(t) /\ ScanStarts(t)
  BY <1>1, <1>3, <1>8 DEF OthersAside, ScanStarts, Stores
<1>11. Sound(t)' /\ th' \in [Threads -> Local]
  BY <1>1, <1>5, <1>9, SoundFacts DEF Sound, Types
<1> QED BY <1>1, <1>2, <1>8, <1>10, <1>11, KeepStep DEF Stores

-----------------------------------------------------------------------------
\* A set of numbers has a least one.
LEMMA LeastPlace ==
    ASSUME NEW S \in SUBSET Nat, S # {}
    PROVE  \E i \in S : \A k \in S : i <= k
<1>1. PICK i \in S : \A k \in S : <<k, i>> \notin OpToRel(<, Nat)
  BY NatLessThanWellFounded, WFMin
<1>2. \A k \in S : ~(k < i)
  BY <1>1 DEF OpToRel
<1> QED BY <1>2

\* What a walk from head meets is what the list holds.
LEMMA ReachableIsListed ==
    ASSUME Types, LockFreeListAssumption, Shape, Listed \subseteq Nodes
    PROVE  Reachable = Listed
<1>1. Null \notin Listed /\ \A n \in Listed : K(n) = key[n] /\ key[n] \in Nat
  BY KIs
<1>2. ASSUME NEW m \in Reachable PROVE m \in Listed
  <2>1. next[head] \in Listed \union {Null} /\ \A p \in Listed : next[p] \in Listed \union {Null}
    BY DEF Shape
  <2> QED BY <2>1 DEF Reachable, From
<1>3. ASSUME NEW n \in Listed PROVE n \in Reachable
  <2> SUFFICES ASSUME NEW S \in SUBSET Nodes, next[head] \in S \union {Null},
                      \A p \in S : next[p] \in S \union {Null}, n \notin S
               PROVE  FALSE
    BY DEF Reachable, From
  <2> DEFINE Out == {key[m] : m \in Listed \ S}
  <2>1. Out \in SUBSET Nat /\ Out # {}
    BY <1>1
  <2>2. PICK k \in Out : \A j \in Out : k <= j
    <3> HIDE DEF Out
    <3> QED BY <2>1, LeastPlace
  <2>3. PICK m \in Listed \ S : k = key[m]
    OBVIOUS
  <2>4. PICK p \in Listed \union {head} : next[p] = m
    BY <2>3 DEF Shape
  <2>5. p = head \/ p \in S
    <3> SUFFICES ASSUME p \in Listed, p \notin S PROVE FALSE
      BY <2>4
    <3>1. key[p] \in Out
      OBVIOUS
    <3>2. K(p) < K(m)
      BY <1>1, <2>3, <2>4 DEF Shape
    <3>3. key[p] < key[m] /\ key[p] \in Nat /\ key[m] \in Nat
      BY <1>1, <2>3, <3>2
    <3> QED BY <2>2, <2>3, <3>1, <3>3
  <2> QED BY <1>1, <2>3, <2>4, <2>5
<1> QED BY <1>2, <1>3

-----------------------------------------------------------------------------
\* A call begins.

\* A call begins.
LEMMA BeginSound ==
    ASSUME SafeInv, LockFreeListAssumption, NEW t \in Threads,
           NEW op \in {"find", "add", "del"}, NEW k \in Keys, NEW entry \in NodeOrNull,
           th[t].pc = "idle",
           th'[t].pc = "start", th'[t].op = op, th'[t].key = k, th'[t].entry = entry,
           ~th'[t].result, Scans(t, 0, 0), late' = late,
           op = "add" => entry \in Nodes /\ entry \in alloc' \ marked' /\ key'[entry] = k
                         /\ next'[entry] = Null,
           op # "add" => entry = Null
    PROVE  Sound(t)'
<1>1. late'[t] = <<>>
  BY SoundFacts DEF Buffer
<1>2. Control(t)'
  BY DEF Control, Scans, Walking
<1>3. Buffer(t)' /\ Walk(t)'
  BY <1>1 DEF Buffer, Walk, Walking
<1>4. EntryOK(t)'
  BY DEF EntryOK, Entering, Adding
<1> QED BY <1>2, <1>3, <1>4 DEF Sound

\* The type of what is seen.
LEMMA BeginSeen ==
    ASSUME Types, NEW t \in Threads, NEW k, seen' = [seen EXCEPT ![t] = {(k \in Present)}]
    PROVE  seen' \in [Threads -> SUBSET BOOLEAN]
<1>1. {(k \in Present)} \in SUBSET BOOLEAN
  OBVIOUS
<1> QED BY <1>1 DEF Types

\* A find or a deletion begins.
LEMMA BeginKeeps ==
    ASSUME SafeInv, LockFreeListAssumption, NEW t \in Threads,
           NEW op \in {"find", "del"}, NEW k \in Keys, Begin(t, op, k, Null),
           UNCHANGED <<key, alloc>>
    PROVE  SafeInv'
<1>1. /\ th[t].pc = "idle"
      /\ \A u \in Threads \ {t} : th'[u] = th[u]
      /\ th' \in [Threads -> Local]
      /\ th'[t].pc = "start" /\ th'[t].op = op /\ th'[t].key = k
      /\ th'[t].entry = Null /\ ~th'[t].result
      /\ Walks(t, Null, Null, Null) /\ Scans(t, 0, 0)
      /\ seen' = [seen EXCEPT ![t] = {(k \in Present)}]
      /\ UNCHANGED <<next, marked, hp, retired, late>>
  BY SoundFacts, BeginDoes DEF NodeOrNull
<1>2. th[t].op = "none"
  BY <1>1, SoundFacts DEF Control
<1>3. CallsSame /\ Keeps
  BY <1>1, <1>2 DEF CallsSame, Keeps, Entering, Adding
<1>4. Sound(t)'
  BY <1>1, BeginSound DEF NodeOrNull
<1>5. OthersAside(t) /\ ScanStarts(t)
  BY <1>1 DEF OthersAside, ScanStarts
<1>6. \A u \in Threads : Sound(u)'
  BY <1>3, <1>4, <1>5, KeptOthers
<1>7. Memory' /\ EntriesApart' /\ Shape'
  BY <1>3, KeptWhole
<1>8. Unlinkers'
  BY <1>1, <1>5, UnlinkersKept
<1>9. Types'
  <2>1. seen' \in [Threads -> SUBSET BOOLEAN]
    BY <1>1, BeginSeen, SoundFacts
  <2> QED BY <1>1, <2>1, SoundFacts DEF Types
<1> QED BY <1>6, <1>7, <1>8, <1>9 DEF SafeInv

\* The entry comes from malloc, so no other call has it.
LEMMA CallAddKeeps ==
    ASSUME SafeInv, LockFreeListAssumption, NEW t \in Threads, NEW k \in Keys,
           CallAdd(t, k)
    PROVE  SafeInv' /\ Listed' = Listed /\ KeysKept
<1>0. PICK e \in Nodes \ alloc : /\ Begin(t, "add", k, e)
                                 /\ alloc' = alloc \union {e}
                                 /\ key' = [key EXCEPT ![e] = k]
  BY DEF CallAdd
<1>1. /\ th[t].pc = "idle"
      /\ \A u \in Threads \ {t} : th'[u] = th[u]
      /\ th' \in [Threads -> Local]
      /\ th'[t].pc = "start" /\ th'[t].op = "add" /\ th'[t].key = k
      /\ th'[t].entry = e /\ ~th'[t].result
      /\ Walks(t, Null, Null, Null) /\ Scans(t, 0, 0)
      /\ seen' = [seen EXCEPT ![t] = {(k \in Present)}]
      /\ UNCHANGED <<next, marked, hp, retired, late>>
  BY <1>0, SoundFacts, BeginDoes DEF NodeOrNull
<1>2. th[t].op = "none" /\ ~Entering(t)
  BY <1>1, SoundFacts DEF Control, Entering, Adding
<1>3. /\ \A u \in Threads \ {t} : (Entering(u)' <=> Entering(u)) /\ th'[u].entry = th[u].entry
      /\ Entering(t)'
  BY <1>1 DEF Entering, Adding
<1>4. Pending' = Pending \union {e}
  BY <1>0, <1>1, <1>2, <1>3 DEF Pending
<1>5. Retired' = Retired
  BY <1>1 DEF Retired
<1>6. Old' = Old /\ Listed' = Listed
  BY <1>0, <1>4, <1>5, SoundUses DEF Old, Listed
<1>7. key'[e] = k /\ \A n \in Nodes : n # e => key'[n] = key[n]
  BY <1>0, SoundFacts DEF Types
<1>8. next[e] = Null /\ e \notin marked /\ e \notin Old /\ e \notin Listed
  BY <1>0, <1>6, SoundFacts, SoundUses DEF Memory
<1>9. Sound(t)'
  BY <1>0, <1>1, <1>7, <1>8, BeginSound DEF NodeOrNull
<1>10. OthersAside(t) /\ ScanStarts(t)
  BY <1>1 DEF OthersAside, ScanStarts
<1>11. \A n \in Old : key'[n] = key[n]
  BY <1>7, <1>8, SoundUses
<1>12. \A u \in Threads \ {t} : Sound(u)'
  <2>1. \A n \in Old : n \in Old'
    BY <1>6
  <2>2. ASSUME NEW u \in Threads \ {t}
        PROVE  th[u].pc = "unlink" => /\ th[u].cur \in Listed' /\ th[u].cur \in marked'
                                      /\ next'[th[u].cur] = next[th[u].cur]
    BY <1>1, <1>6, SoundUses
  <2>3. ASSUME NEW u \in Threads \ {t}, Entering(u)
        PROVE  /\ th[u].entry \in alloc' \ marked'
               /\ key'[th[u].entry] = key[th[u].entry]
               /\ next'[th[u].entry] = next[th[u].entry]
    <3>1. th[u].entry \in alloc \ marked /\ th[u].entry \in Nodes
      BY <2>3, SoundUses
    <3> QED BY <1>0, <1>1, <1>7, <3>1
  <2> QED BY <1>10, <1>11, <2>1, <2>2, <2>3, OthersKept
<1>13. Memory'
  BY <1>0, <1>1, <1>5, SoundFacts DEF Memory
<1>14. EntriesApart'
  <2>1. ASSUME NEW u \in Threads \ {t}, Entering(u)' PROVE th'[u].entry # e
    BY <1>0, <1>3, <2>1, SoundUses
  <2> QED BY <1>1, <1>3, <2>1, SoundFacts DEF EntriesApart
<1>15. Shape'
  <2>1. \A n \in Listed : key'[n] = key[n]
    BY <1>11 DEF Listed
  <2> QED BY <1>1, <1>6, <2>1, SoundFacts, ShapeSame
<1>16. Unlinkers'
  BY <1>1, <1>10, UnlinkersKept
<1>17. Types'
  <2>1. seen' \in [Threads -> SUBSET BOOLEAN]
    BY <1>1, BeginSeen, SoundFacts
  <2>2. alloc' \in SUBSET Nodes /\ key' \in [Nodes -> Keys \union {0}]
    BY <1>0, SoundFacts DEF Types
  <2> QED BY <1>1, <2>1, <2>2, SoundFacts DEF Types
<1> QED BY <1>6, <1>9, <1>11, <1>12, <1>13, <1>14, <1>15, <1>16, <1>17
    DEF SafeInv, KeysKept

-----------------------------------------------------------------------------
\* The steps of std_lock_free_list_add.

\* The type of what is seen.
LEMMA WatchTypes ==
    ASSUME Types, Watch
    PROVE  seen' \in [Threads -> SUBSET BOOLEAN]
<1> DEFINE truth(u) == th[u].key \in Present'
<1>1. \A u \in Threads : {truth(u)} \in SUBSET BOOLEAN
  OBVIOUS
<1> HIDE DEF truth
<1>2. seen' = [u \in Threads |-> IF th[u].op = "none" THEN {} ELSE seen[u] \union {truth(u)}]
  BY DEF Watch, truth
<1>3. \A u \in Threads : seen[u] \in SUBSET BOOLEAN
  BY DEF Types
<1>4. \A u \in Threads : (IF th[u].op = "none" THEN {} ELSE seen[u] \union {truth(u)})
                            \in SUBSET BOOLEAN
  BY <1>1, <1>3
<1> QED BY <1>2, <1>4

\* A step of t that leaves its place in the list and its hazard pointers alone.
LEMMA HoldsThrough ==
    ASSUME SafeInv, LockFreeListAssumption, NEW t \in Threads,
           OthersAside(t), hp' = hp, late' = late, retired' = retired,
           \A n \in Old : n \in Old' /\ key'[n] = key[n],
           th'[t].key = th[t].key, th'[t].prev = th[t].prev, th'[t].cur = th[t].cur,
           th[t].pc \in Walking, th[t].pc # "checkNext", th'[t].pc # "checkNext"
    PROVE  PrevSafe(t)' /\ CurSafe(t)' /\ (th[t].cur # Null => key'[th[t].cur] = key[th[t].cur])
<1>1. PrevSafe(t) /\ CurSafe(t)
  BY SoundFacts DEF Walk
<1>2. \A w \in Threads \ {t} : th'[w] = th[w] /\ retired'[w] = retired[w]
  BY DEF OthersAside
<1>3. ASSUME NEW s \in HazardSlots, NEW n, Safe(t, s, n)
      PROVE  Safe(t, s, n)' /\ key'[n] = key[n]
  <2>1. n \in Old' /\ key'[n] = key[n]
    BY <1>3 DEF Safe
  <2> QED BY <1>2, <1>3, <2>1, SafeOwn
<1>4. PrevSafe(t)'
  <2>1. CASE th[t].prev = head
    BY <2>1 DEF PrevSafe
  <2>2. CASE th[t].prev # head
    <3>1. th[t].prev \in Nodes /\ key[th[t].prev] < th[t].key
      BY <1>1, <2>2 DEF PrevSafe
    <3>2. CASE Len(late[t]) = 2
      <4>1. Safe(t, 1, th[t].prev)
        BY <1>1, <2>2, <3>2 DEF PrevSafe
      <4>2. Safe(t, 1, th[t].prev)' /\ key'[th[t].prev] = key[th[t].prev]
        BY <1>3, <4>1, SlotsAre
      <4> QED BY <3>1, <3>2, <4>2 DEF PrevSafe
    <3>3. CASE Len(late[t]) # 2
      <4>1. Safe(t, 2, th[t].prev)
        BY <1>1, <2>2, <3>3 DEF PrevSafe
      <4>2. Safe(t, 2, th[t].prev)' /\ key'[th[t].prev] = key[th[t].prev]
        BY <1>3, <4>1, SlotsAre
      <4> QED BY <3>1, <3>3, <4>2 DEF PrevSafe
    <3> QED BY <3>2, <3>3
  <2> QED BY <2>1, <2>2
<1>5. CurSafe(t)' /\ (th[t].cur # Null => key'[th[t].cur] = key[th[t].cur])
  <2>1. CASE th[t].cur = Null
    BY <2>1 DEF CurSafe
  <2>2. CASE th[t].cur # Null /\ late[t] # <<>>
    <3>1. Safe(t, 0, th[t].cur)
      BY <1>1, <2>2 DEF CurSafe
    <3>2. Safe(t, 0, th[t].cur)' /\ key'[th[t].cur] = key[th[t].cur]
      BY <1>3, <3>1, SlotsAre
    <3> QED BY <2>2, <3>2 DEF CurSafe
  <2>3. CASE th[t].cur # Null /\ late[t] = <<>>
    <3>1. Safe(t, 1, th[t].cur)
      BY <1>1, <2>3 DEF CurSafe
    <3>2. Safe(t, 1, th[t].cur)' /\ key'[th[t].cur] = key[th[t].cur]
      BY <1>3, <3>1, SlotsAre
    <3> QED BY <2>3, <3>2 DEF CurSafe
  <2> QED BY <2>1, <2>2, <2>3
<1> QED BY <1>4, <1>5

\* The entry is hung behind nothing: it is seen by nobody.
LEMMA AddLinkKeeps ==
    ASSUME SafeInv, LockFreeListAssumption, NEW t \in Threads, AddLink(t)
    PROVE  SafeInv'
<1> DEFINE e == th[t].entry
<1>0. th[t].pc = "link" /\ Entering(t)
  BY SoundUses DEF AddLink, At
<1>1. next[e] = Null /\ e \in alloc \ marked /\ e \in Pending /\ e \in Nodes /\ key[e] = th[t].key
  BY <1>0, SoundFacts, SoundUses DEF EntryOK
<1>2. /\ late' = late /\ next' = [next EXCEPT ![e] = th[t].cur]
      /\ Moves(t, "cas", th[t].result)
      /\ Walks(t, th[t].prev, th[t].cur, th[t].nxt) /\ Stands(t)
      /\ UNCHANGED <<marked, key, alloc, hp, retired>> /\ Watch
  BY <1>1, SoundFacts, AddLinkDoes
<1>3. CallsSame
  BY <1>2, MovesSame
<1>4. Pending' = Pending /\ Retired' = Retired /\ Old' = Old /\ Listed' = Listed
  BY <1>2, <1>3, SetsSame
<1>5. /\ e \notin Listed /\ e # head /\ th[t].cur \in NodeOrNull
      /\ next'[e] = th[t].cur /\ \A n \in Nodes \union {head} : n # e => next'[n] = next[n]
      /\ next' \in [Nodes \union {head} -> NodeOrNull]
  BY <1>1, <1>2, SoundFacts, SoundUses, CallShape, LockFreeListAssumption DEF Types
<1>6. OthersAside(t) /\ ScanStarts(t)
  BY <1>2 DEF OthersAside, ScanStarts, Moves
<1>7. \A u \in Threads \ {t} : Sound(u)'
  <2>1. ASSUME NEW u \in Threads \ {t}, Entering(u)
        PROVE  /\ th[u].entry \in alloc' \ marked'
               /\ key'[th[u].entry] = key[th[u].entry]
               /\ next'[th[u].entry] = next[th[u].entry]
    <3>1. th[u].entry # e
      BY <1>0, <2>1, SoundFacts DEF EntriesApart
    <3> QED BY <1>2, <1>5, <2>1, <3>1, SoundUses
  <2>2. ASSUME NEW u \in Threads \ {t}
        PROVE  th[u].pc = "unlink" => /\ th[u].cur \in Listed' /\ th[u].cur \in marked'
                                      /\ next'[th[u].cur] = next[th[u].cur]
    BY <1>2, <1>4, <1>5, SoundUses
  <2>3. \A n \in Old : n \in Old' /\ key'[n] = key[n]
    BY <1>2, <1>4
  <2> QED BY <1>6, <2>1, <2>2, <2>3, OthersKept
<1>8. Sound(t)'
  <2>1. Control(t)'
    <3>1. Control(t)
      BY SoundFacts
    <3> QED BY <1>0, <1>2, <3>1 DEF Control, Moves, Walks, Stands, Scans, Walking
  <2>2. Buffer(t)'
    <3>1. Buffer(t)
      BY SoundFacts
    <3> QED BY <1>0, <1>2, <3>1 DEF Buffer, Moves, Walks
  <2>3. EntryOK(t)'
    BY <1>1, <1>2, <1>5 DEF EntryOK, Moves, Walks
  <2>4. PrevSafe(t)' /\ CurSafe(t)' /\ (th[t].cur # Null => key'[th[t].cur] = key[th[t].cur])
    BY <1>0, <1>2, <1>4, <1>6, HoldsThrough DEF Moves, Walks, Walking
  <2>5. th[t].cur # Null => key[th[t].cur] > th[t].key
    BY <1>0, SoundFacts DEF Walk
  <2>6. Walk(t)'
    BY <1>2, <2>4, <2>5 DEF Walk, Moves, Walks
  <2> QED BY <2>1, <2>2, <2>3, <2>6 DEF Sound
<1>9. Memory'
  <2>1. \A n \in Nodes \ alloc : next'[n] = Null
    BY <1>1, <1>5, SoundFacts DEF Memory
  <2> QED BY <1>2, <1>4, <2>1, SoundFacts DEF Memory
<1>10. EntriesApart'
  BY <1>3, SoundFacts DEF EntriesApart, CallsSame
<1>11. Shape'
  <2>1. \A p \in Listed \union {head} : next'[p] = next[p]
    BY <1>5, SoundUses
  <2> QED BY <1>2, <1>4, <2>1, SoundFacts, ShapeSame
<1>12. Unlinkers'
  BY <1>2, <1>6, UnlinkersKept DEF Moves
<1>13. Types'
  <2>1. seen' \in [Threads -> SUBSET BOOLEAN]
    BY <1>2, SoundFacts, WatchTypes
  <2> QED BY <1>2, <1>5, <2>1, SoundFacts DEF Types, Moves
<1> QED BY <1>7, <1>8, <1>9, <1>10, <1>11, <1>12, <1>13 DEF SafeInv

\* The entry comes into the list between prev and cur.
LEMMA AddCASKeeps ==
    ASSUME SafeInv, LockFreeListAssumption, Clean', NEW t \in Threads, AddCAS(t)
    PROVE  SafeInv' /\ (th'[t].pc = "clear" => Listed' = Listed \union {th[t].entry})
<1> DEFINE e == th[t].entry
           p == th[t].prev
<1>1. /\ th[t].pc = "cas" /\ late[t] = <<>> /\ late' = late
      /\ \/ /\ PointsTo(p, th[t].cur)
            /\ next' = [next EXCEPT ![p] = e]
            /\ Moves(t, "clear", TRUE) /\ Walks(t, Null, Null, Null) /\ Stands(t)
         \/ /\ ~PointsTo(p, th[t].cur) /\ Chain(t) = {}
            /\ next' = next /\ Restarts(t)
      /\ UNCHANGED <<marked, key, alloc, hp, retired>> /\ Watch
  BY SoundFacts, AddCASDoes
<1>2. /\ Entering(t) /\ e \in alloc \ marked /\ e \in Pending /\ e \in Nodes
      /\ key[e] = th[t].key /\ next[e] = th[t].cur
  BY <1>1, SoundFacts, SoundUses DEF EntryOK
<1>3. seen' \in [Threads -> SUBSET BOOLEAN]
  BY <1>1, SoundFacts, WatchTypes
<1>4. head \notin marked /\ head \notin Nodes
  BY SoundUses, LockFreeListAssumption
<1>5. CASE Chain(t) = {} /\ next' = next /\ Restarts(t)
  <2>1. th[t].cur = Null
    <3>1. th[t].cur \notin Nodes
      BY <1>2, <1>5, FromSelf DEF Chain
    <3> QED BY <3>1, CallShape DEF NodeOrNull
  <2>2. CallsSame /\ SameMemory
    BY <1>1, <1>5, MovesSame DEF Restarts, SameMemory
  <2>3. Sound(t)'
    BY <1>1, <1>2, <1>5, <2>1, RestartSound
  <2>4. OthersAside(t) /\ ScanStarts(t)
    BY <1>1, <1>5 DEF OthersAside, ScanStarts, Restarts, Moves
  <2>5. /\ hp \in [Threads -> [HazardSlots -> NodeOrNull]]
        /\ late \in [Threads -> Seq(HazardSlots \X NodeOrNull)]
    BY SoundFacts DEF Types
  <2>6. SafeInv'
    BY <1>1, <1>3, <1>5, <2>2, <2>3, <2>4, <2>5, KeepStepSeen DEF Restarts, Moves
  <2> QED BY <1>5, <2>6 DEF Restarts, Moves
<1>6. CASE /\ PointsTo(p, th[t].cur)
           /\ next' = [next EXCEPT ![p] = e]
           /\ Moves(t, "clear", TRUE) /\ Walks(t, Null, Null, Null) /\ Stands(t)
  <2>1. next[p] = th[t].cur /\ p \notin marked
    BY <1>6 DEF PointsTo
  <2>2. PrevSafe(t) /\ th[t].op = "add" /\ p \in Nodes \union {head}
    BY <1>1, SoundFacts DEF Walk, Walking, Control
  <2>3. p \in (Listed \ marked) \union {head} /\ K(p) < key[e]
    <3>1. CASE p = head
      <4>1. key[e] \in Nat /\ key[e] > 0 /\ K(p) = 0
        <5>1. key[e] \in Keys
          BY <1>2, <2>2, SoundFacts DEF Control
        <5>2. \A x \in Keys : x \in Nat /\ x > 0
          BY LockFreeListAssumption
        <5> QED BY <3>1, <5>1, <5>2 DEF K
      <4> QED BY <3>1, <4>1
    <3>2. CASE p # head
      <4>1. p \in Nodes /\ key[p] < th[t].key /\ p \in Old
        BY <2>2, <3>2 DEF PrevSafe, Safe
      <4>2. p \in Listed \ marked
        BY <2>1, <4>1, SoundUses
      <4> QED BY <1>2, <3>2, <4>1, <4>2 DEF K
    <3> QED BY <3>1, <3>2
  <2>4. /\ \A u \in Threads \ {t} : (Entering(u)' <=> Entering(u)) /\ th'[u].entry = th[u].entry
        /\ ~Entering(t)'
    BY <1>6 DEF Entering, Adding, Moves
  <2>5. \A u \in Threads \ {t} : Entering(u) => th[u].entry # e /\ th[u].entry # p
    <3>1. \A u \in Threads \ {t} : Entering(u) => th[u].entry # e
      BY <1>2, SoundFacts DEF EntriesApart
    <3>2. p \notin Pending
      BY <1>4, <2>3, SoundUses DEF Listed, Old
    <3> QED BY <3>1, <3>2, SoundUses
  <2>6. Pending' = Pending \ {e}
    <3>1. ASSUME NEW n \in Pending' PROVE n \in Pending /\ n # e
      <4>1. PICK u \in Threads : Entering(u)' /\ th'[u].entry = n
        BY <3>1 DEF Pending
      <4>2. u # t /\ Entering(u) /\ th[u].entry = n
        BY <2>4, <4>1
      <4> QED BY <2>5, <4>2, SoundUses
    <3>2. ASSUME NEW n \in Pending, n # e PROVE n \in Pending'
      <4>1. PICK u \in Threads : Entering(u) /\ th[u].entry = n
        BY DEF Pending
      <4>2. u # t
        BY <3>2, <4>1
      <4> QED BY <2>4, <4>1, <4>2, SoundUses DEF Pending
    <3> QED BY <3>1, <3>2
  <2>7. Retired' = Retired
    BY <1>1 DEF Retired
  <2>8. Old' = Old \union {e} /\ Listed' = Listed \union {e} /\ e \notin Listed /\ e \notin Retired
    BY <1>1, <1>2, <2>6, <2>7, SoundUses DEF Old, Listed
  <2>9. /\ p # e /\ next'[p] = e /\ \A n \in Nodes \union {head} : n # p => next'[n] = next[n]
        /\ next' \in [Nodes \union {head} -> NodeOrNull]
    BY <1>2, <1>4, <1>6, <2>2, <2>3, <2>8, SoundFacts DEF Types, NodeOrNull
  <2>10. OthersAside(t) /\ ScanStarts(t)
    BY <1>1, <1>6 DEF OthersAside, ScanStarts, Moves
  <2>11. \A u \in Threads \ {t} : Sound(u)'
    <3>1. ASSUME NEW u \in Threads \ {t}, th[u].pc = "unlink"
          PROVE  /\ th[u].cur \in Listed' /\ th[u].cur \in marked'
                 /\ next'[th[u].cur] = next[th[u].cur]
      BY <1>1, <2>1, <2>8, <2>9, <3>1, SoundUses
    <3>2. ASSUME NEW u \in Threads \ {t}, Entering(u)
          PROVE  /\ th[u].entry \in alloc' \ marked'
                 /\ key'[th[u].entry] = key[th[u].entry]
                 /\ next'[th[u].entry] = next[th[u].entry]
      BY <1>1, <2>5, <2>9, <3>2, SoundUses
    <3>3. \A n \in Old : n \in Old' /\ key'[n] = key[n]
      BY <1>1, <2>8
    <3> QED BY <2>10, <3>1, <3>2, <3>3, OthersKept
  <2>12. Sound(t)'
    <3>1. Control(t)
      BY SoundFacts
    <3>2. Control(t)'
      BY <1>1, <1>6, <2>2, <3>1 DEF Control, Moves, Walks, Stands, Scans, Walking
    <3>3. Buffer(t)' /\ Walk(t)' /\ EntryOK(t)'
      BY <1>6, <2>4 DEF Buffer, Walk, EntryOK, Moves, Walking
    <3> QED BY <3>2, <3>3 DEF Sound
  <2>13. Memory'
    <3>1. \A n \in Nodes \ alloc : next'[n] = Null
      BY <1>2, <2>3, <2>9, SoundFacts, SoundUses, <1>4 DEF Memory
    <3> QED BY <1>1, <2>7, <3>1, SoundFacts DEF Memory
  <2>14. EntriesApart'
    <3>1. \A u \in Threads : Entering(u)' => Entering(u) /\ th'[u].entry = th[u].entry
      BY <2>4
    <3> QED BY <3>1, SoundFacts DEF EntriesApart
  <2>15. Shape'
    <3>1. key[e] \in Keys
      BY <1>2, <2>2, SoundFacts DEF Control
    <3>2. th[t].cur # Null => key[e] < key[th[t].cur]
      <4>1. th[t].cur # Null => key[th[t].cur] > th[t].key
        BY <1>1, SoundFacts DEF Walk
      <4> QED BY <1>2, <4>1
    <3>3. next'[e] = th[t].cur
      BY <1>2, <2>9
    <3>4. \A q \in Listed \union {head} : q # p => next'[q] = next[q]
      BY <2>9, SoundUses
    <3>5. p \in Listed \union {head} /\ K(p) < key[e] /\ th[t].cur = next[p]
      BY <2>1, <2>3
    <3> HIDE DEF e, p
    <3> QED BY <1>1, <1>2, <2>8, <2>9, <3>1, <3>2, <3>3, <3>4, <3>5, SoundFacts, SoundUses, ShapeAdd
  <2>16. Unlinkers'
    BY <1>6, <2>10, UnlinkersKept DEF Moves
  <2>17. Types'
    BY <1>1, <1>3, <1>6, <2>9, SoundFacts DEF Types, Moves
  <2> QED BY <2>8, <2>11, <2>12, <2>13, <2>14, <2>15, <2>16, <2>17 DEF SafeInv
<1> QED BY <1>1, <1>5, <1>6

-----------------------------------------------------------------------------
\* The steps of std_lock_free_list_del and of the scan that frees.

\* The mark is set by one thread.
LEMMA DelMarkKeeps ==
    ASSUME SafeInv, LockFreeListAssumption, NEW t \in Threads, DelMark(t)
    PROVE  SafeInv'
<1> DEFINE c == th[t].cur
<1>1. /\ th[t].pc = "mark" /\ late[t] = <<>> /\ late' = late
      /\ \/ /\ PointsTo(c, th[t].nxt)
            /\ marked' = marked \union {c}
            /\ Moves(t, "unlink", TRUE)
            /\ Walks(t, th[t].prev, c, th[t].nxt) /\ Stands(t)
         \/ marked' = marked /\ Restarts(t)
      /\ UNCHANGED <<next, key, alloc, hp, retired>> /\ Watch
  BY SoundFacts, DelMarkDoes
<1>2. th[t].op = "del" /\ c \in Nodes /\ c # Null /\ CurSafe(t) /\ PrevSafe(t)
  BY <1>1, SoundFacts, CallShape DEF Control, Walk, Walking
<1>3. seen' \in [Threads -> SUBSET BOOLEAN]
  BY <1>1, SoundFacts, WatchTypes
<1>4. CASE marked' = marked /\ Restarts(t)
  <2>1. CallsSame /\ SameMemory
    BY <1>1, <1>4, MovesSame DEF Restarts, SameMemory
  <2>2. ~Entering(t)
    BY <1>2 DEF Entering, Adding
  <2>3. Sound(t)'
    BY <1>1, <1>4, <2>2, RestartSound
  <2>4. OthersAside(t) /\ ScanStarts(t)
    BY <1>1, <1>4 DEF OthersAside, ScanStarts, Restarts, Moves
  <2>5. /\ hp \in [Threads -> [HazardSlots -> NodeOrNull]]
        /\ late \in [Threads -> Seq(HazardSlots \X NodeOrNull)]
    BY SoundFacts DEF Types
  <2> QED BY <1>1, <1>3, <1>4, <2>1, <2>3, <2>4, <2>5, KeepStepSeen DEF Restarts, Moves
<1>5. CASE /\ PointsTo(c, th[t].nxt)
           /\ marked' = marked \union {c}
           /\ Moves(t, "unlink", TRUE)
           /\ Walks(t, th[t].prev, c, th[t].nxt) /\ Stands(t)
  <2>1. c \in Listed /\ c \notin marked /\ next[c] = th[t].nxt
    <3>1. c \in Old
      BY <1>1, <1>2 DEF CurSafe, Safe
    <3> QED BY <1>5, <3>1, SoundUses DEF PointsTo
  <2>2. CallsSame
    BY <1>2, <1>5, DelMovesSame
  <2>3. Pending' = Pending /\ Retired' = Retired /\ Old' = Old /\ Listed' = Listed
    BY <1>1, <2>2, SetsSame
  <2>4. OthersAside(t) /\ ScanStarts(t)
    BY <1>1, <1>5 DEF OthersAside, ScanStarts, Moves
  <2>5. c \notin Pending /\ c \in Old
    BY <2>1 DEF Listed, Old
  <2>6. \A u \in Threads \ {t} : Sound(u)'
    <3>1. ASSUME NEW u \in Threads \ {t}
          PROVE  /\ th[u].pc = "unlink" => /\ th[u].cur \in Listed' /\ th[u].cur \in marked'
                                           /\ next'[th[u].cur] = next[th[u].cur]
                 /\ Entering(u) => /\ th[u].entry \in alloc' \ marked'
                                   /\ key'[th[u].entry] = key[th[u].entry]
                                   /\ next'[th[u].entry] = next[th[u].entry]
      BY <1>1, <1>2, <1>5, <2>3, <2>5, SoundUses
    <3>2. \A n \in Old : n \in Old' /\ key'[n] = key[n]
      BY <1>1, <2>3
    <3> QED BY <2>4, <3>1, <3>2, OthersKept
  <2>7. Sound(t)'
    <3>1. Control(t)
      BY SoundFacts
    <3>2. Control(t)'
      BY <1>1, <1>2, <1>5, <3>1 DEF Control, Moves, Walks, Stands, Scans, Walking
    <3>3. Buffer(t)' /\ EntryOK(t)'
      BY <1>1, <1>2, <1>5 DEF Buffer, EntryOK, Entering, Adding, Moves
    <3>4. PrevSafe(t)' /\ CurSafe(t)'
      BY <1>1, <1>5, <2>3, <2>4, HoldsThrough DEF Moves, Walks, Walking
    <3>5. th'[t].cur \in Listed' /\ th'[t].cur \in marked' /\ next'[th'[t].cur] = th'[t].nxt
      BY <1>1, <1>5, <2>1, <2>3 DEF Walks
    <3>6. Walk(t)'
      BY <1>5, <3>4, <3>5 DEF Walk, Moves
    <3> QED BY <3>2, <3>3, <3>6 DEF Sound
  <2>8. Memory'
    <3>1. c \in alloc
      BY <2>1 DEF Listed, Old
    <3> QED BY <1>1, <1>5, <2>3, <3>1, SoundFacts DEF Memory
  <2>9. EntriesApart'
    BY <2>2, SoundFacts DEF EntriesApart, CallsSame
  <2>10. Shape'
    BY <1>1, <2>3, SoundFacts, ShapeSame
  <2>11. Unlinkers'
    <3>1. ASSUME NEW u \in Threads \ {t}, th[u].pc = "unlink" PROVE th[u].cur # c
      BY <2>1, <3>1, SoundUses
    <3>2. th'[t].cur = c /\ \A u \in Threads \ {t} : th'[u] = th[u]
      BY <1>5 DEF Walks, Moves
    <3> QED BY <3>1, <3>2, SoundFacts DEF Unlinkers
  <2>12. Types'
    <3>1. marked' \in SUBSET Nodes
      BY <1>2, <1>5, SoundFacts DEF Types
    <3> QED BY <1>1, <1>3, <1>5, <3>1, SoundFacts DEF Types, Moves
  <2> QED BY <2>6, <2>7, <2>8, <2>9, <2>10, <2>11, <2>12 DEF SafeInv
<1> QED BY <1>1, <1>4, <1>5

\* prev still leads to cur, so the node that is taken out is the marked one.
LEMMA DelUnlinkKeeps ==
    ASSUME SafeInv, LockFreeListAssumption, NEW t \in Threads, DelUnlink(t)
    PROVE  SafeInv' /\ (th'[t].pc = "scan" => Listed' = Listed \ {th[t].cur})
<1> DEFINE c == th[t].cur
           p == th[t].prev
<1>1. /\ th[t].pc = "unlink" /\ late[t] = <<>> /\ late' = late
      /\ \/ /\ PointsTo(p, c)
            /\ next' = [next EXCEPT ![p] = th[t].nxt]
            /\ retired' = [retired EXCEPT ![t] = <<c>> \o @]
            /\ Moves(t, "scan", th[t].result) /\ Walks(t, Null, Null, Null)
            /\ Scans(t, 1, th[t].slot)
         \/ next' = next /\ retired' = retired /\ Restarts(t)
      /\ UNCHANGED <<marked, key, alloc, hp>> /\ Watch
  BY SoundFacts, DelUnlinkDoes
<1>2. /\ th[t].op = "del" /\ th[t].result /\ c \in Nodes /\ PrevSafe(t) /\ th[t].slot = 0
      /\ c \in Listed /\ c \in marked /\ next[c] = th[t].nxt /\ p \in Nodes \union {head}
  BY <1>1, SoundFacts, SoundUses DEF Control, Walk, Walking
<1>3. seen' \in [Threads -> SUBSET BOOLEAN]
  BY <1>1, SoundFacts, WatchTypes
<1>4. CASE next' = next /\ retired' = retired /\ Restarts(t)
  <2>1. CallsSame /\ SameMemory
    BY <1>1, <1>4, MovesSame DEF Restarts, SameMemory
  <2>2. ~Entering(t)
    BY <1>2 DEF Entering, Adding
  <2>3. Sound(t)'
    BY <1>1, <1>4, <2>2, RestartSound
  <2>4. OthersAside(t) /\ ScanStarts(t)
    BY <1>1, <1>4 DEF OthersAside, ScanStarts, Restarts, Moves
  <2>5. /\ hp \in [Threads -> [HazardSlots -> NodeOrNull]]
        /\ late \in [Threads -> Seq(HazardSlots \X NodeOrNull)]
    BY SoundFacts DEF Types
  <2>6. SafeInv'
    BY <1>1, <1>3, <1>4, <2>1, <2>3, <2>4, <2>5, KeepStepSeen DEF Restarts, Moves
  <2> QED BY <1>4, <2>6 DEF Restarts, Moves
<1>5. CASE /\ PointsTo(p, c)
           /\ next' = [next EXCEPT ![p] = th[t].nxt]
           /\ retired' = [retired EXCEPT ![t] = <<c>> \o @]
           /\ Moves(t, "scan", th[t].result) /\ Walks(t, Null, Null, Null)
           /\ Scans(t, 1, th[t].slot)
  <2>1. next[p] = c /\ p \notin marked
    BY <1>5 DEF PointsTo
  <2>2. p \in (Listed \ marked) \union {head}
    <3>1. p # head => p \in Old
      BY <1>2 DEF PrevSafe, Safe
    <3> QED BY <2>1, <3>1, SoundUses
  <2>3. /\ Retired' = Retired \union {c}
        /\ retired'[t] = <<c>> \o retired[t] /\ \A u \in Threads \ {t} : retired'[u] = retired[u]
        /\ retired' \in [Threads -> Seq(Nodes)]
    BY <1>2, <1>5, SoundFacts, RetiredPushed
  <2>4. CallsSame
    BY <1>2, <1>5, DelMovesSame
  <2>5. Pending' = Pending
    BY <2>4 DEF CallsSame, Pending
  <2>6. Old' = Old /\ Listed' = Listed \ {c} /\ c \notin Retired /\ c \notin Pending
    BY <1>1, <1>2, <2>3, <2>5, SoundUses DEF Old, Listed
  <2>7. /\ next'[p] = th[t].nxt /\ \A n \in Nodes \union {head} : n # p => next'[n] = next[n]
        /\ next' \in [Nodes \union {head} -> NodeOrNull]
    <3>1. th[t].nxt \in NodeOrNull
      BY CallShape
    <3> QED BY <1>2, <1>5, <3>1, SoundFacts DEF Types
  <2>8. OthersAside(t) /\ ScanStarts(t)
    BY <1>1, <1>2, <1>5, <2>3 DEF OthersAside, ScanStarts, Moves, Scans
  <2>9. head \notin Nodes /\ head \notin Pending
    BY SoundUses, LockFreeListAssumption
  <2>10. \A u \in Threads \ {t} : Sound(u)'
    <3>1. ASSUME NEW u \in Threads \ {t}, th[u].pc = "unlink"
          PROVE  /\ th[u].cur \in Listed' /\ th[u].cur \in marked'
                 /\ next'[th[u].cur] = next[th[u].cur]
      <4>1. th[u].cur # c
        BY <1>1, <3>1, SoundFacts DEF Unlinkers
      <4> QED BY <1>1, <2>1, <2>6, <2>7, <3>1, <4>1, SoundUses
    <3>2. ASSUME NEW u \in Threads \ {t}, Entering(u)
          PROVE  /\ th[u].entry \in alloc' \ marked'
                 /\ key'[th[u].entry] = key[th[u].entry]
                 /\ next'[th[u].entry] = next[th[u].entry]
      <4>1. th[u].entry # p
        BY <2>2, <2>9, <3>2, SoundUses
      <4> QED BY <1>1, <2>7, <3>2, <4>1, SoundUses
    <3>3. \A n \in Old : n \in Old' /\ key'[n] = key[n]
      BY <1>1, <2>6
    <3> QED BY <2>8, <3>1, <3>2, <3>3, OthersKept
  <2>11. Sound(t)'
    <3>1. Control(t) /\ Len(retired'[t]) \in Nat
      BY <2>3, SoundFacts
    <3>2. Control(t)'
      BY <1>2, <1>5, <3>1 DEF Control, Moves, Walks, Scans, Walking
    <3>3. Buffer(t)' /\ EntryOK(t)' /\ Walk(t)'
      BY <1>1, <1>2, <1>5 DEF Buffer, EntryOK, Walk, Entering, Adding, Moves, Walking
    <3> QED BY <3>2, <3>3 DEF Sound
  <2>12. Memory'
    <3>1. \A n \in Nodes \ alloc : next'[n] = Null
      BY <2>2, <2>7, <2>9, SoundFacts, SoundUses DEF Memory
    <3>2. \A u, w \in Threads : \A i \in DOMAIN retired'[u], j \in DOMAIN retired'[w] :
            retired'[u][i] = retired'[w][j] => u = w /\ i = j
      <4> DEFINE s == retired[t]
                 q == retired'[t]
      <4>1. /\ s \in Seq(Nodes) /\ q \in Seq(Nodes) /\ Len(s) \in Nat /\ Len(q) = Len(s) + 1
            /\ q[1] = c /\ \A j \in 2 .. Len(s) + 1 : q[j] = s[j - 1]
        BY <1>2, <2>3, SoundFacts, PushIs DEF Types
      <4>2. \A j \in DOMAIN q : j = 1 \/ (j - 1 \in DOMAIN s /\ j \in Nat /\ q[j] = s[j - 1])
        <5> HIDE DEF s, q
        <5> QED BY <4>1
      <4>3. \A u \in Threads : \A j \in DOMAIN retired[u] : retired[u][j] # c
        <5>1. \A u \in Threads : DOMAIN retired[u] = 1 .. Len(retired[u])
          BY SoundFacts DEF Types
        <5> QED BY <1>2, <2>6, <5>1 DEF Retired
      <4>4. \A u, w \in Threads : \A i \in DOMAIN retired[u], j \in DOMAIN retired[w] :
               retired[u][i] = retired[w][j] => u = w /\ i = j
        BY SoundFacts DEF Memory
      <4>5. ASSUME NEW u \in Threads \ {t}, NEW i \in DOMAIN q, NEW j \in DOMAIN retired[u]
            PROVE  q[i] # retired[u][j]
        <5>1. CASE i = 1
          BY <4>1, <4>3, <4>5, <5>1
        <5>2. CASE i # 1
          <6>1. i - 1 \in DOMAIN retired[t] /\ q[i] = retired[t][i - 1]
            BY <4>2, <5>2
          <6> QED BY <4>4, <4>5, <6>1
        <5> QED BY <5>1, <5>2
      <4>6. ASSUME NEW i \in DOMAIN q, NEW j \in DOMAIN q, q[i] = q[j] PROVE i = j
        <5>1. CASE i = 1
          BY <4>1, <4>2, <4>3, <4>6, <5>1
        <5>2. CASE j = 1
          BY <4>1, <4>2, <4>3, <4>6, <5>2
        <5>3. CASE i # 1 /\ j # 1
          <6>1. /\ i - 1 \in DOMAIN retired[t] /\ q[i] = retired[t][i - 1]
                /\ j - 1 \in DOMAIN retired[t] /\ q[j] = retired[t][j - 1]
                /\ i \in Nat /\ j \in Nat
            BY <4>2, <5>3
          <6>2. ASSUME NEW a \in DOMAIN retired[t], NEW b \in DOMAIN retired[t],
                       retired[t][a] = retired[t][b]
                PROVE  a = b
            BY <4>4, <6>2
          <6>3. retired[t][i - 1] = retired[t][j - 1]
            BY <4>6, <6>1
          <6>4. i - 1 = j - 1
            BY <6>1, <6>2, <6>3
          <6> QED BY <6>1, <6>4
        <5> QED BY <5>1, <5>2, <5>3
      <4>7. ASSUME NEW u \in Threads, NEW w \in Threads,
                   NEW i \in DOMAIN retired'[u], NEW j \in DOMAIN retired'[w],
                   retired'[u][i] = retired'[w][j]
            PROVE  u = w /\ i = j
        <5>1. CASE u = t /\ w = t
          BY <4>6, <4>7, <5>1
        <5>2. CASE u = t /\ w # t
          <6>1. retired'[w] = retired[w]
            BY <2>3, <5>2
          <6>2. i \in DOMAIN q /\ j \in DOMAIN retired[w] /\ q[i] = retired[w][j]
            BY <4>7, <5>2, <6>1
          <6> QED BY <4>5, <5>2, <6>2
        <5>3. CASE u # t /\ w = t
          <6>1. retired'[u] = retired[u]
            BY <2>3, <5>3
          <6>2. j \in DOMAIN q /\ i \in DOMAIN retired[u] /\ q[j] = retired[u][i]
            BY <4>7, <5>3, <6>1
          <6> QED BY <4>5, <5>3, <6>2
        <5>4. CASE u # t /\ w # t
          <6>1. retired'[u] = retired[u] /\ retired'[w] = retired[w]
            BY <2>3, <5>4
          <6> QED BY <4>4, <4>7, <6>1
        <5> QED BY <5>1, <5>2, <5>3, <5>4
      <4> QED BY <4>7
    <3> QED BY <1>1, <1>2, <2>3, <3>1, <3>2, SoundFacts DEF Memory
  <2>13. EntriesApart'
    BY <2>4, SoundFacts DEF EntriesApart, CallsSame
  <2>14. Shape'
    <3>1. \A q \in Listed \union {head} : q # p => next'[q] = next[q]
      BY <2>7, SoundUses
    <3>2. p \in Listed \union {head} /\ next'[p] = next[c]
      BY <1>2, <2>2, <2>7
    <3> HIDE DEF c, p
    <3> QED BY <1>1, <1>2, <2>1, <2>6, <3>1, <3>2, SoundFacts, SoundUses, ShapeDel
  <2>15. Unlinkers'
    BY <1>5, <2>8, UnlinkersKept DEF Moves
  <2>16. Types'
    BY <1>1, <1>3, <1>5, <2>3, <2>7, SoundFacts DEF Types, Moves
  <2> QED BY <2>6, <2>10, <2>11, <2>12, <2>13, <2>14, <2>15, <2>16 DEF SafeInv
<1> QED BY <1>1, <1>4, <1>5

\* Taking a node out of one list leaves what is in the lists apart.
LEMMA RemovedApart ==
    ASSUME Types, Memory, NEW t \in Threads, NEW i \in 1 .. Len(retired[t]),
           retired'[t] = RemoveAt(retired[t], i),
           \A u \in Threads \ {t} : retired'[u] = retired[u]
    PROVE  \A u, w \in Threads : \A j \in DOMAIN retired'[u], k \in DOMAIN retired'[w] :
              retired'[u][j] = retired'[w][k] => u = w /\ j = k
<1> DEFINE q == retired'[t]
           from(j) == IF j < i THEN j ELSE j + 1
<1>1. retired[t] \in Seq(Nodes) /\ Len(retired[t]) \in Nat /\ i \in Nat
  BY DEF Types
<1>2. /\ q \in Seq(Nodes) /\ Len(q) = Len(retired[t]) - 1
      /\ \A j \in 1 .. Len(retired[t]) - 1 :
            q[j] = IF j < i THEN retired[t][j] ELSE retired[t][j + 1]
  BY <1>1, RemoveIs
<1>3. ASSUME NEW j \in DOMAIN q
      PROVE  /\ from(j) \in DOMAIN retired[t] /\ q[j] = retired[t][from(j)]
             /\ j \in Nat
  <2>1. j \in 1 .. Len(retired[t]) - 1
    <3> HIDE DEF q
    <3> QED BY <1>1, <1>2
  <2> QED BY <1>1, <1>2, <2>1
<1>4. \A u, w \in Threads : \A j \in DOMAIN retired[u], k \in DOMAIN retired[w] :
         retired[u][j] = retired[w][k] => u = w /\ j = k
  BY DEF Memory
<1>5. ASSUME NEW j \in DOMAIN q, NEW k \in DOMAIN q, q[j] = q[k] PROVE j = k
  <2>1. from(j) \in DOMAIN retired[t] /\ from(k) \in DOMAIN retired[t]
        /\ retired[t][from(j)] = retired[t][from(k)] /\ j \in Nat /\ k \in Nat
    BY <1>3, <1>5
  <2>2. ASSUME NEW a \in DOMAIN retired[t], NEW b \in DOMAIN retired[t],
               retired[t][a] = retired[t][b]
        PROVE  a = b
    BY <1>4, <2>2
  <2>3. from(j) = from(k)
    <3> HIDE DEF from
    <3> QED BY <2>1, <2>2
  <2> QED BY <1>1, <2>1, <2>3
<1>6. ASSUME NEW u \in Threads \ {t}, NEW j \in DOMAIN q, NEW k \in DOMAIN retired[u]
      PROVE  q[j] # retired[u][k]
  <2>1. from(j) \in DOMAIN retired[t] /\ q[j] = retired[t][from(j)]
    BY <1>3
  <2> HIDE DEF from
  <2> QED BY <1>4, <2>1
<1>7. ASSUME NEW u \in Threads, NEW w \in Threads,
             NEW j \in DOMAIN retired'[u], NEW k \in DOMAIN retired'[w],
             retired'[u][j] = retired'[w][k]
      PROVE  u = w /\ j = k
  <2>1. CASE u = t /\ w = t
    BY <1>5, <1>7, <2>1
  <2>2. CASE u = t /\ w # t
    <3>1. j \in DOMAIN q /\ k \in DOMAIN retired[w] /\ q[j] = retired[w][k]
      BY <1>7, <2>2
    <3> QED BY <1>6, <2>2, <3>1
  <2>3. CASE u # t /\ w = t
    <3>1. k \in DOMAIN q /\ j \in DOMAIN retired[u] /\ q[k] = retired[u][j]
      BY <1>7, <2>3
    <3> QED BY <1>6, <2>3, <3>1
  <2>4. CASE u # t /\ w # t
    <3>1. retired'[u] = retired[u] /\ retired'[w] = retired[w]
      BY <2>4
    <3> QED BY <1>4, <1>7, <3>1
  <2> QED BY <2>1, <2>2, <2>3, <2>4
<1> QED BY <1>7

\* The last slot has been looked at: no other thread goes on holding the node.
LEMMA FreeKeeps ==
    ASSUME SafeInv, LockFreeListAssumption, Clean', NEW t \in Threads, Free(t)
    PROVE  SafeInv' /\ Listed' = Listed /\ KeysKept
<1> DEFINE p == retired[t][th[t].i]
<1>1. /\ th[t].pc = "scan" /\ late[t] = <<>> /\ late' = late
      /\ th[t].i <= Len(retired[t]) /\ th[t].slot >= LastSlot
      /\ LastSlot >= 0 => HazardPtr(t, LastSlot) # p
      /\ alloc' = alloc \ {p}
      /\ next' = [next EXCEPT ![p] = Null]
      /\ marked' = marked \ {p}
      /\ key' = [key EXCEPT ![p] = 0]
      /\ retired' = [retired EXCEPT ![t] = RemoveAt(@, th[t].i)]
      /\ Moves(t, "scan", th[t].result) /\ Scans(t, th[t].i, 0)
      /\ hp' = hp /\ seen' = seen
  BY SoundFacts, FreeDoes
<1>2. th[t].i \in 1 .. Len(retired[t]) /\ Len(retired[t]) \in Nat
  BY <1>1, ScanRange
<1>3. /\ p \in Nodes /\ p \in Retired
      /\ Retired' = Retired \ {p}
      /\ retired'[t] = RemoveAt(retired[t], th[t].i)
      /\ \A u \in Threads \ {t} : retired'[u] = retired[u]
      /\ retired' \in [Threads -> Seq(Nodes)]
  BY <1>1, <1>2, SoundFacts, RetiredRemoved
<1>4. Scanning(t, p)
  BY <1>1 DEF Scanning
<1> HIDE DEF p
<1>5. CallsSame
  BY <1>1, MovesSame
<1>6. Pending' = Pending
  BY <1>5 DEF CallsSame, Pending
<1>7. p \notin Pending /\ p \in Old /\ p \notin Listed
  BY <1>3, SoundUses DEF Listed
<1>8. Old' = Old \ {p} /\ Listed' = Listed
  <2>1. Old' = Old \ {p}
    BY <1>1, <1>6 DEF Old
  <2> QED BY <1>3, <2>1, <1>7 DEF Listed
<1>9. /\ next'[p] = Null /\ \A n \in Nodes \union {head} : n # p => next'[n] = next[n]
      /\ next' \in [Nodes \union {head} -> NodeOrNull]
  BY <1>1, <1>3, SoundFacts DEF Types, NodeOrNull
<1>10. /\ \A n \in Nodes : n # p => key'[n] = key[n]
       /\ key' \in [Nodes -> Keys \union {0}]
  BY <1>1, <1>3, SoundFacts DEF Types
<1>11. p # head
  BY <1>3, LockFreeListAssumption
<1>12. Len(retired'[t]) = Len(retired[t]) - 1
  BY <1>2, <1>3, RemoveIs, SoundFacts DEF Types
<1>13. Sound(t)'
  <2>1. Control(t)
    BY SoundFacts
  <2>2. th[t].i \in 1 .. Len(retired'[t]) + 1
    BY <1>2, <1>12
  <2>3. Control(t)'
    BY <1>1, <2>1, <2>2 DEF Control, Moves, Scans, Walking
  <2>4. Buffer(t)' /\ Walk(t)'
    BY <1>1 DEF Buffer, Walk, Moves, Walking
  <2>5. EntryOK(t)'
    BY <1>1, <2>1 DEF EntryOK, Entering, Adding, Moves, Control
  <2> QED BY <2>3, <2>4, <2>5 DEF Sound
<1>14. OthersAside(t) /\ ScanStarts(t)
  BY <1>1, <1>3 DEF OthersAside, ScanStarts, Moves, Scans
<1>15. \A n \in Old : n \in Old' => key'[n] = key[n]
  BY <1>8, <1>10, SoundUses
<1>16. \A u \in Threads \ {t} : Sound(u)'
  <2>1. ASSUME NEW n \in Old
        PROVE  n \in Old' \/ (Scanning(t, n) /\ th[t].slot >= LastSlot
                                /\ (LastSlot >= 0 => HazardPtr(t, LastSlot) # n))
    BY <1>1, <1>4, <1>8
  <2>2. ASSUME NEW u \in Threads \ {t}, th[u].pc = "unlink"
        PROVE  /\ th[u].cur \in Listed' /\ th[u].cur \in marked'
               /\ next'[th[u].cur] = next[th[u].cur]
    <3>1. th[u].cur # p
      BY <1>7, <2>2, SoundUses
    <3> QED BY <1>1, <1>8, <1>9, <2>2, <3>1, SoundUses
  <2>3. ASSUME NEW u \in Threads \ {t}, Entering(u)
        PROVE  /\ th[u].entry \in alloc' \ marked'
               /\ key'[th[u].entry] = key[th[u].entry]
               /\ next'[th[u].entry] = next[th[u].entry]
    <3>1. th[u].entry # p
      BY <1>7, <2>3, SoundUses
    <3> QED BY <1>1, <1>9, <1>10, <2>3, <3>1, SoundUses
  <2> QED BY <1>14, <1>15, <2>1, <2>2, <2>3, OthersKept
<1>17. Memory'
  <2>1. Retired' \subseteq marked' /\ marked' \subseteq alloc'
    BY <1>1, <1>3, SoundFacts DEF Memory
  <2>2. \A n \in Nodes \ alloc' : next'[n] = Null
    BY <1>1, <1>9, SoundFacts DEF Memory
  <2>3. \A u, w \in Threads : \A j \in DOMAIN retired'[u], k \in DOMAIN retired'[w] :
           retired'[u][j] = retired'[w][k] => u = w /\ j = k
    BY <1>2, <1>3, RemovedApart, SoundFacts
  <2> QED BY <2>1, <2>2, <2>3 DEF Memory
<1>18. EntriesApart'
  BY <1>5, SoundFacts DEF EntriesApart, CallsSame
<1>19. Shape'
  <2>1. \A n \in Listed : key'[n] = key[n]
    BY <1>7, <1>10, SoundUses
  <2>2. \A n \in Listed \union {head} : next'[n] = next[n]
    BY <1>7, <1>9, <1>11, SoundUses
  <2> QED BY <1>8, <2>1, <2>2, SoundFacts, ShapeSame
<1>20. Unlinkers'
  BY <1>1, <1>14, UnlinkersKept DEF Moves
<1>21. Types'
  BY <1>1, <1>3, <1>9, <1>10, SoundFacts DEF Types, Moves
<1> QED BY <1>8, <1>13, <1>15, <1>16, <1>17, <1>18, <1>19, <1>20, <1>21
    DEF SafeInv, KeysKept

\* The call returns; its caller frees the entry that was not added.
LEMMA ReturnKeeps ==
    ASSUME SafeInv, LockFreeListAssumption, NEW t \in Threads, Return(t)
    PROVE  SafeInv' /\ Listed' = Listed /\ KeysKept
<1> DEFINE unused == (IF th[t].result THEN {} ELSE {th[t].entry}) \ {Null}
<1>1. /\ th[t].pc = "clear" /\ late[t] = <<>> /\ late' = late
      /\ \A u \in Threads \ {t} : th'[u] = th[u] /\ hp'[u] = hp[u]
      /\ hp' \in [Threads -> [HazardSlots -> NodeOrNull]]
      /\ th' = [th EXCEPT ![t] = Idle] /\ th' \in [Threads -> Local]
      /\ seen' = [seen EXCEPT ![t] = {}]
      /\ alloc' = alloc \ unused
      /\ \A n \in Nodes \union {head} : next'[n] = IF n \in unused THEN Null ELSE next[n]
      /\ next' \in [Nodes \union {head} -> NodeOrNull]
      /\ \A n \in Nodes : key'[n] = IF n \in unused THEN 0 ELSE key[n]
      /\ key' \in [Nodes -> Keys \union {0}]
      /\ UNCHANGED <<marked, retired>>
  BY SoundFacts, ReturnDoes
<1>2. unused = IF Entering(t) THEN {th[t].entry} ELSE {}
  <2>1. Control(t) /\ Null \notin Nodes
    BY SoundFacts, LockFreeListAssumption
  <2> QED BY <2>1 DEF Control, Entering, Adding
<1> HIDE DEF unused
<1>3. /\ th'[t].pc = "idle" /\ th'[t].op = "none" /\ th'[t].key = 0 /\ th'[t].entry = Null
      /\ ~th'[t].result /\ th'[t].i = 0 /\ th'[t].slot = 0
  <2>1. th'[t] = Idle
    BY <1>1, SoundFacts DEF Types
  <2> QED BY <2>1 DEF Idle
<1>4. ~Entering(t)' /\ \A u \in Threads \ {t} : Entering(u)' <=> Entering(u)
  BY <1>1, <1>3 DEF Entering, Adding
<1>5. \A n \in unused : n \in Pending /\ n \in Nodes /\ next[n] = Null
      /\ \A u \in Threads \ {t} : Entering(u) => th[u].entry # n
  <2> SUFFICES ASSUME Entering(t)
               PROVE  /\ th[t].entry \in Pending /\ th[t].entry \in Nodes
                      /\ next[th[t].entry] = Null
                      /\ \A u \in Threads \ {t} : Entering(u) => th[u].entry # th[t].entry
    BY <1>2
  <2> QED BY <1>1, SoundFacts, SoundUses DEF EntryOK, EntriesApart
<1>6. Pending' = Pending \ unused
  <2>1. ASSUME NEW n \in Pending' PROVE n \in Pending /\ n \notin unused
    <3>1. PICK u \in Threads : Entering(u)' /\ th'[u].entry = n
      BY <2>1 DEF Pending
    <3>2. u # t /\ Entering(u) /\ th[u].entry = n
      BY <1>1, <1>4, <3>1
    <3> QED BY <1>5, <2>1, <3>2, SoundUses
  <2>2. ASSUME NEW n \in Pending, n \notin unused PROVE n \in Pending'
    <3>1. PICK u \in Threads : Entering(u) /\ th[u].entry = n
      BY DEF Pending
    <3>2. u # t
      BY <1>2, <2>2, <3>1
    <3> QED BY <1>1, <1>4, <3>1, <3>2, SoundUses DEF Pending
  <2> QED BY <2>1, <2>2
<1>7. Retired' = Retired
  BY <1>1 DEF Retired
<1>8. Old' = Old
  BY <1>1, <1>5, <1>6 DEF Old
<1>9. Listed' = Listed
  BY <1>7, <1>8 DEF Listed
<1>10. \A n \in Nodes \union {head} : next'[n] = next[n]
  BY <1>1, <1>5
<1>11. \A n \in Old : n \notin unused /\ n \in Nodes /\ key'[n] = key[n]
  BY <1>1, <1>5, SoundUses
<1>12. Sound(t)'
  <2>1. Control(t)'
    BY <1>3 DEF Control, Walking
  <2>2. Buffer(t)' /\ Walk(t)' /\ EntryOK(t)'
    BY <1>1, <1>3, <1>4 DEF Buffer, Walk, EntryOK, Walking
  <2> QED BY <2>1, <2>2 DEF Sound
<1>13. OthersAside(t) /\ ScanStarts(t)
  BY <1>1, <1>3 DEF OthersAside, ScanStarts
<1>14. \A u \in Threads \ {t} : Sound(u)'
  <2>1. \A n \in Old : n \in Old'
    BY <1>8
  <2>2. ASSUME NEW u \in Threads \ {t}
        PROVE  th[u].pc = "unlink" => /\ th[u].cur \in Listed' /\ th[u].cur \in marked'
                                      /\ next'[th[u].cur] = next[th[u].cur]
    BY <1>1, <1>9, <1>10, SoundUses
  <2>3. ASSUME NEW u \in Threads \ {t}, Entering(u)
        PROVE  /\ th[u].entry \in alloc' \ marked'
               /\ key'[th[u].entry] = key[th[u].entry]
               /\ next'[th[u].entry] = next[th[u].entry]
    <3>1. th[u].entry \in alloc \ marked /\ th[u].entry \in Nodes /\ th[u].entry \notin unused
      BY <1>5, <2>3, SoundUses
    <3> QED BY <1>1, <1>10, <3>1
  <2> QED BY <1>11, <1>13, <2>1, <2>2, <2>3, OthersKept
<1>15. Memory'
  <2>1. marked \subseteq alloc'
    BY <1>1, <1>5, SoundUses, SoundFacts DEF Memory
  <2>2. \A n \in Nodes \ alloc' : next'[n] = Null
    BY <1>1, <1>5, <1>10, SoundFacts DEF Memory
  <2> QED BY <1>1, <1>7, <2>1, <2>2, SoundFacts DEF Memory
<1>16. EntriesApart'
  <2>1. \A u \in Threads : Entering(u)' => Entering(u) /\ th'[u].entry = th[u].entry
    BY <1>1, <1>4
  <2> QED BY <2>1, SoundFacts DEF EntriesApart
<1>17. Shape'
  <2>1. \A n \in Listed : key'[n] = key[n]
    BY <1>11 DEF Listed
  <2>2. \A n \in Listed \union {head} : next'[n] = next[n]
    BY <1>10, SoundUses
  <2> QED BY <1>9, <2>1, <2>2, SoundFacts, ShapeSame
<1>18. Unlinkers'
  BY <1>3, <1>13, UnlinkersKept
<1>19. Types'
  <2>1. seen' \in [Threads -> SUBSET BOOLEAN] /\ alloc' \in SUBSET Nodes
    BY <1>1, SoundFacts DEF Types
  <2> QED BY <1>1, <2>1, SoundFacts DEF Types
<1> QED BY <1>9, <1>11, <1>12, <1>14, <1>15, <1>16, <1>17, <1>18, <1>19
    DEF SafeInv, KeysKept

-----------------------------------------------------------------------------
\* The list is empty, and nobody is in it.
LEMMA InitSafe ==
    ASSUME LockFreeListAssumption, Init
    PROVE  SafeInv
<1>1. \A t \in Threads : retired[t] = <<>> /\ late[t] = <<>> /\ th[t] = Idle
  BY DEF Init
<1>2. Idle \in Local
  BY DEF Idle, Local, Places, NodeOrNull
<1>3. Types
  BY <1>2 DEF Init, Types, NodeOrNull
<1>4. Idle.pc = "idle" /\ Idle.op = "none" /\ Idle.key = 0 /\ Idle.entry = Null
      /\ Idle.result = FALSE /\ Idle.i = 0 /\ Idle.slot = 0
  BY DEF Idle
<1>5. alloc = {} /\ Old = {} /\ Listed = {} /\ Retired = {} /\ next[head] = Null
      /\ marked = {}
  BY <1>1 DEF Init, Old, Listed, Retired
<1>6. Memory
  BY <1>1, <1>5 DEF Memory, Init
<1>7. EntriesApart /\ Unlinkers
  BY <1>1, <1>4 DEF EntriesApart, Unlinkers, Entering, Adding
<1>8. Shape
  BY <1>5 DEF Shape
<1>9. \A t \in Threads : Sound(t)
  BY <1>1, <1>4 DEF Sound, Control, Buffer, EntryOK, Walk, Entering, Adding, Walking
<1> QED BY <1>3, <1>6, <1>7, <1>8, <1>9 DEF SafeInv

\* A step that changes nothing.
LEMMA StutterSafe ==
    ASSUME SafeInv, UNCHANGED vars
    PROVE  SafeInv'
<1>1. /\ next' = next /\ marked' = marked /\ key' = key /\ alloc' = alloc /\ hp' = hp
      /\ late' = late /\ retired' = retired /\ th' = th /\ seen' = seen
  BY DEF vars
<1>2. Pending' = Pending /\ Retired' = Retired /\ Old' = Old /\ Listed' = Listed
  BY <1>1 DEF Pending, Retired, Old, Listed, Entering, Adding
<1>3. Types' /\ Memory'
  BY <1>1, <1>2, SoundFacts DEF Types, Memory
<1>4. EntriesApart' /\ Unlinkers'
  BY <1>1, <1>2, SoundFacts DEF EntriesApart, Unlinkers, Entering, Adding
<1>5. Shape'
  BY <1>1, <1>2, SoundFacts, ShapeSame
<1>6. ASSUME NEW t \in Threads PROVE Sound(t)'
  <2>1. Control(t)' /\ Buffer(t)' /\ EntryOK(t)'
    BY <1>1, <1>2, SoundFacts DEF Control, Buffer, EntryOK, Entering, Adding
  <2>2. \A s, n : Safe(t, s, n) => Safe(t, s, n)'
    BY <1>1, <1>2 DEF Safe, Guards, Scanning, Index
  <2>3. PrevSafe(t) => PrevSafe(t)'
    BY <1>1, <2>2 DEF PrevSafe
  <2>4. CurSafe(t) => CurSafe(t)'
    BY <1>1, <2>2 DEF CurSafe
  <2>5. Walk(t)
    BY SoundFacts
  <2>6. Walk(t)'
    BY <1>1, <1>2, <2>2, <2>3, <2>4, <2>5 DEF Walk
  <2> QED BY <2>1, <2>6 DEF Sound
<1> QED BY <1>3, <1>4, <1>5, <1>6 DEF SafeInv

\* A rule that has been broken stays broken.
LEMMA CleanBefore ==
    ASSUME Clean', [Next]_vars
    PROVE  Clean
<1>1. CASE UNCHANGED vars
  BY <1>1 DEF vars, Clean
<1>2. ASSUME NEW t \in Threads, Call(t) \/ Flush(t) PROVE Clean
  <2>1. broken' = broken
    BY <1>2 DEF Call, CallFind, CallAdd, CallDel, Begin, Flush
  <2> QED BY <2>1 DEF Clean
<1>3. ASSUME NEW t \in Threads, Step(t) PROVE Clean
  <2>1. broken' = broken \/ \E rules : broken' = broken \union rules
    BY <1>3 DEF Step, FindStart, CheckHead, LoadNext, CheckNext, PrevLost, Compare, Advance,
                AddLink, AddCAS, DelMark, DelUnlink, Conflict, NoConflict, Free, GcDone,
                Return, Load, Breaks
  <2> QED BY <2>1 DEF Clean
<1> QED BY <1>1, <1>2, <1>3 DEF Next

\* SafeInv is inductive, as long as no rule is broken.
LEMMA NextSafe ==
    ASSUME SafeInv, Clean', [Next]_vars
    PROVE  SafeInv'
<1> USE LockFreeListAssumption
<1>1. CASE UNCHANGED vars
  BY <1>1, StutterSafe
<1>2. ASSUME NEW t \in Threads, Call(t) PROVE SafeInv'
  <2>1. PICK k \in Keys : CallFind(t, k) \/ CallAdd(t, k) \/ CallDel(t, k)
    BY <1>2 DEF Call
  <2>2. CASE CallFind(t, k)
    <3>1. Begin(t, "find", k, Null) /\ UNCHANGED <<key, alloc>>
      BY <2>2 DEF CallFind
    <3> QED BY <3>1, BeginKeeps
  <2>3. CASE CallAdd(t, k)
    BY <2>3, CallAddKeeps
  <2>4. CASE CallDel(t, k)
    <3>1. Begin(t, "del", k, Null) /\ UNCHANGED <<key, alloc>>
      BY <2>4 DEF CallDel
    <3> QED BY <3>1, BeginKeeps
  <2> QED BY <2>1, <2>2, <2>3, <2>4
<1>3. ASSUME NEW t \in Threads, Step(t) PROVE SafeInv'
  <2>1. CASE FindStart(t)
    BY <2>1, FindStartKeeps
  <2>2. CASE CheckHead(t)
    BY <2>2, CheckHeadKeeps
  <2>3. CASE LoadNext(t)
    BY <2>3, LoadNextKeeps
  <2>4. CASE CheckNext(t)
    BY <2>4, CheckNextKeeps
  <2>5. CASE PrevLost(t)
    BY <2>5, PrevLostKeeps
  <2>6. CASE Compare(t)
    BY <2>6, CompareKeeps
  <2>7. CASE Advance(t)
    BY <2>7, AdvanceKeeps
  <2>8. CASE AddLink(t)
    BY <2>8, AddLinkKeeps
  <2>9. CASE AddCAS(t)
    BY <2>9, AddCASKeeps
  <2>10. CASE DelMark(t)
    BY <2>10, DelMarkKeeps
  <2>11. CASE DelUnlink(t)
    BY <2>11, DelUnlinkKeeps
  <2>12. CASE Conflict(t)
    BY <2>12, ConflictKeeps
  <2>13. CASE NoConflict(t)
    BY <2>13, NoConflictKeeps
  <2>14. CASE Free(t)
    BY <2>14, FreeKeeps
  <2>15. CASE GcDone(t)
    BY <2>15, GcDoneKeeps
  <2>16. CASE Return(t)
    BY <2>16, ReturnKeeps
  <2> QED BY <1>3, <2>1, <2>2, <2>3, <2>4, <2>5, <2>6, <2>7, <2>8, <2>9, <2>10,
             <2>11, <2>12, <2>13, <2>14, <2>15, <2>16 DEF Step
<1>4. ASSUME NEW t \in Threads, Flush(t) PROVE SafeInv'
  BY <1>4, FlushKeeps
<1> QED BY <1>1, <1>2, <1>3, <1>4 DEF Next

\* SafeInv: what a call of std_lock_free_list.c reads through its three hazard
\* pointers is allocated and protected, the nodes of the list hang in the order of
\* their keys, and what std_hazard_gc frees has no pointer to it: with any number
\* of threads, keys and nodes, at every interleaving of their steps.
THEOREM SafeInvHolds ==
    SafeSpec => [](Clean => SafeInv)
<1>1. Init => SafeInv
  BY InitSafe, LockFreeListAssumption
<1>2. Clean' /\ [Next]_vars => Clean
  BY CleanBefore
<1>3. SafeInv /\ Clean' /\ [Next]_vars => SafeInv'
  BY NextSafe
<1>4. (Clean => SafeInv) /\ [Next]_vars => (Clean => SafeInv)'
  BY <1>2, <1>3
<1> QED BY <1>1, <1>4, PTL DEF SafeSpec
-----------------------------------------------------------------------------
\* A retired list never holds more nodes than there are.
LEMMA FewRetired ==
    ASSUME SafeInv, LockFreeListAssumption, NEW t \in Threads
    PROVE  Len(retired[t]) <= Cardinality(Nodes) /\ Cardinality(Nodes) \in Nat
<1>1. retired[t] \in Seq(Nodes) /\ Len(retired[t]) \in Nat
  BY SoundFacts DEF Types
<1> DEFINE f == retired[t]
           S == 1 .. Len(f)
<1>2. f \in [S -> Nodes]
  BY <1>1
<1>3. \A i, j \in S : f[i] = f[j] => i = j
  <2>1. S = DOMAIN f
    BY <1>1
  <2> QED BY <2>1, SoundFacts DEF Memory
<1>4. IsFiniteSet(Nodes)
  BY LockFreeListAssumption
<1>5. IsFiniteSet(S) /\ Cardinality(S) = Len(f)
  <2>1. Len(f) \in Nat /\ S = 1 .. Len(f)
    BY <1>1
  <2> HIDE DEF f, S
  <2>2. /\ IsFiniteSet(1 .. Len(f))
        /\ Cardinality(1 .. Len(f)) = IF 1 > Len(f) THEN 0 ELSE Len(f) - 1 + 1
    <3>1. 1 \in Int /\ Len(f) \in Int
      BY <2>1
    <3> QED BY ONLY <3>1, FS_Interval
  <2>3. Cardinality(1 .. Len(f)) = Len(f)
    BY <2>1, <2>2
  <2> QED BY <2>1, <2>2, <2>3
<1>6. Cardinality(S) <= Cardinality(Nodes)
  <2>1. f \in Injection(S, Nodes)
    <3> HIDE DEF S, f
    <3> QED BY <1>2, <1>3 DEF Injection, IsInjective
  <2> HIDE DEF S, f
  <2> QED BY <2>1, <1>4, FS_Injection
<1>7. Cardinality(Nodes) \in Nat
  BY <1>4, FS_CardinalityType
<1> QED BY <1>5, <1>6, <1>7

\* TypeOK, with its bounds of i and slot.
LEMMA SafeTypes ==
    ASSUME SafeInv, LockFreeListAssumption, Clean
    PROVE  TypeOK
<1>1. Types
  BY SoundFacts
<1>2. ASSUME NEW t \in Threads
      PROVE  th[t].i \in 0 .. Cardinality(Nodes) + 1 /\ th[t].slot \in 0 .. 3 * NumThreads
  <2>1. /\ Len(retired[t]) <= Cardinality(Nodes) /\ Cardinality(Nodes) \in Nat
        /\ NumThreads \in Nat
    BY FewRetired, LockFreeListAssumption
  <2>2. CASE th[t].pc = "scan"
    <3>1. 3 * NumThreads \in Nat /\ LastSlot <= 3 * NumThreads
      BY <2>1 DEF LastSlot
    <3>2. th[t].i \in 0 .. Cardinality(Nodes) + 1
      BY <2>1, <2>2, ScanRange
    <3>3. th[t].slot \in 0 .. 3 * NumThreads
      BY <3>1, <2>2, ScanRange
    <3> QED BY <3>2, <3>3
  <2>3. CASE th[t].pc # "scan"
    <3>1. th[t].i = 0 /\ th[t].slot = 0
      BY <2>3, SoundFacts DEF Control
    <3> QED BY <2>1, <3>1
  <2> QED BY <2>2, <2>3
<1>3. ASSUME NEW t \in Threads
      PROVE  th[t] \in [pc : Places, op : {"none", "find", "add", "del"},
                        key : Keys \union {0}, entry : NodeOrNull,
                        prev : NodeOrNull \union {head}, cur : NodeOrNull, nxt : NodeOrNull,
                        result : BOOLEAN, i : 0 .. Cardinality(Nodes) + 1,
                        slot : 0 .. 3 * NumThreads]
  <2>1. th[t] \in Local
    BY <1>1 DEF Types
  <2> QED BY <1>2, <2>1 DEF Local
<1>4. \A t \in Threads :
        /\ late[t] \in Seq(HazardSlots \X NodeOrNull)
        /\ retired[t] \in Seq(Nodes)
        /\ seen[t] \subseteq BOOLEAN
  BY <1>1 DEF Types
<1>5. broken \subseteq Rules
  BY DEF Clean
<1> QED BY <1>1, <1>3, <1>4, <1>5 DEF TypeOK, Types, NodeOrNull

\* TypeOK: std_hazard_gc never runs past the end of hazard_free_list or of
\* hazard_array.
THEOREM TypesHold ==
    SafeSpec => [](Clean => TypeOK)
<1>1. SafeInv /\ Clean => TypeOK
  BY SafeTypes, LockFreeListAssumption
<1> QED BY <1>1, SafeInvHolds, PTL

\* What a step touches is protected, or an entry of its own.
LEMMA SafeTouches ==
    ASSUME SafeInv, LockFreeListAssumption
    PROVE  NoFreedAccess
<1> SUFFICES ASSUME NEW t \in Threads PROVE Touches(t) \subseteq alloc
  BY DEF NoFreedAccess
<1>1. Old \subseteq alloc
  BY DEF Old
<1>2. ASSUME th[t].pc \in Walking, th[t].prev # head PROVE th[t].prev \in alloc
  <2>1. PrevSafe(t)
    BY <1>2, SoundFacts DEF Walk
  <2> QED BY <1>1, <1>2, <2>1 DEF PrevSafe, Safe
<1>3. ASSUME th[t].pc \in Walking, th[t].cur # Null PROVE th[t].cur \in alloc
  <2>1. CurSafe(t)
    BY <1>3, SoundFacts DEF Walk
  <2> QED BY <1>1, <1>3, <2>1 DEF CurSafe, Safe
<1>4. th[t].pc \in {"load", "checkNext", "compare", "mark", "unlink"} => th[t].cur # Null
  BY CallShape
<1>5. ASSUME th[t].pc \in {"link", "cas"} PROVE th[t].entry \in alloc
  BY <1>5, SoundUses
<1>6. ASSUME th[t].pc = "link" PROVE Chain(t) = {}
  <2>1. next[th[t].entry] = Null
    BY <1>6, SoundFacts, SoundUses DEF EntryOK
  <2> QED BY <2>1, FromNull DEF Chain
<1>7. CASE th[t].pc \in {"load", "checkNext", "mark"}
  BY <1>3, <1>4, <1>7 DEF Touches, Walking
<1>8. CASE th[t].pc = "compare"
  BY <1>2, <1>3, <1>4, <1>8 DEF Touches, Walking
<1>9. CASE th[t].pc = "unlink"
  BY <1>2, <1>9 DEF Touches, Walking
<1>10. CASE th[t].pc = "cas"
  BY <1>2, <1>5, <1>10 DEF Touches, Walking
<1>11. CASE th[t].pc = "link"
  BY <1>5, <1>6, <1>11 DEF Touches
<1>12. CASE th[t].pc \notin {"load", "checkNext", "mark", "compare", "unlink", "cas", "link"}
  BY <1>12 DEF Touches
<1> QED BY <1>7, <1>8, <1>9, <1>10, <1>11, <1>12

\* NoFreedAccess: "safe to free" (std_hazard_ptr.c:111).  No step of
\* std_lock_free_list.c reads or writes a node that has been freed.
THEOREM NobodyTouchesFreed ==
    SafeSpec => [](Clean => NoFreedAccess)
<1>1. SafeInv => NoFreedAccess
  BY SafeTouches, LockFreeListAssumption
<1> QED BY <1>1, SafeInvHolds, PTL

\* Behind a node of the list come only nodes with greater keys.
LEMMA BehindIsGreater ==
    ASSUME Types, LockFreeListAssumption, Shape, Listed \subseteq Nodes,
           NEW m \in Listed, NEW n \in From(next[m])
    PROVE  n \in Listed /\ key[m] < key[n]
<1> DEFINE S == {x \in Listed : key[m] < key[x]}
<1>1. /\ Null \notin Listed
      /\ \A x \in Listed : K(x) = key[x] /\ key[x] \in Nat
  BY KIs
<1>2. ASSUME NEW x \in Listed, next[x] # Null
      PROVE  next[x] \in Listed /\ key[x] < key[next[x]]
  BY <1>1, <1>2 DEF Shape
<1>3. S \in SUBSET Nodes /\ next[m] \in S \union {Null}
  BY <1>2
<1>4. ASSUME NEW x \in S PROVE next[x] \in S \union {Null}
  <2>1. CASE next[x] = Null
    BY <2>1
  <2>2. CASE next[x] # Null
    <3>1. next[x] \in Listed /\ key[x] < key[next[x]] /\ key[m] < key[x]
      BY <1>2, <2>2
    <3>2. key[m] \in Nat /\ key[x] \in Nat /\ key[next[x]] \in Nat
      BY <1>1, <3>1
    <3> QED BY <3>1, <3>2
  <2> QED BY <2>1, <2>2
<1>5. n \in S
  <2> HIDE DEF S
  <2> QED BY <1>3, <1>4 DEF From
<1> QED BY <1>5

\* What a walk meets, in the order of the keys.
LEMMA SafeWellFormed ==
    ASSUME SafeInv, LockFreeListAssumption
    PROVE  WellFormed
<1>1. Reachable = Listed /\ Listed \subseteq Nodes /\ Types /\ Shape
  BY SoundFacts, SoundUses, ReachableIsListed
<1>2. Listed \subseteq alloc
  BY DEF Listed, Old
<1>3. \A m \in Listed : \A n \in From(next[m]) : key[m] < key[n]
  BY <1>1, BehindIsGreater
<1>4. \A n \in Listed : key[n] \in Nat
  BY <1>1, KIs
<1>5. \A n \in Listed : n \notin From(next[n])
  BY <1>3, <1>4
<1> QED BY <1>1, <1>2, <1>3, <1>5 DEF WellFormed

\* WellFormed: the list has no ring, no key twice and no freed node, whatever
\* additions and deletions meet in it.
THEOREM ListIsWellFormed ==
    SafeSpec => [](Clean => WellFormed)
<1>1. SafeInv => WellFormed
  BY SafeWellFormed, LockFreeListAssumption
<1> QED BY <1>1, SafeInvHolds, PTL

\* What waits to be freed.
LEMMA SafeRetired ==
    ASSUME SafeInv, LockFreeListAssumption
    PROVE  RetiredOnce
<1>1. Reachable = Listed
  BY SoundFacts, SoundUses, ReachableIsListed
<1>2. ASSUME NEW t \in Threads, NEW n \in ToSet(retired[t])
      PROVE  n \in (alloc \intersect marked) \ Reachable
  <2>1. n \in Retired
    <3>1. retired[t] \in Seq(Nodes)
      BY SoundFacts DEF Types
    <3> QED BY <1>2, <3>1 DEF ToSet, Retired
  <2>2. n \in marked /\ n \in alloc
    BY <2>1, SoundFacts DEF Memory
  <2> QED BY <1>1, <2>1, <2>2 DEF Listed
<1>3. \A t, u \in Threads : \A i \in DOMAIN retired[t], j \in DOMAIN retired[u] :
         retired[t][i] = retired[u][j] => t = u /\ i = j
  BY SoundFacts DEF Memory
<1> QED BY <1>2, <1>3 DEF RetiredOnce

\* RetiredOnce: std_lock_free_list_del retires a node once, and after it has been
\* taken out, so std_hazard_gc frees nothing twice and nothing that is still found.
THEOREM RetiredOnceHolds ==
    SafeSpec => [](Clean => RetiredOnce)
<1>1. SafeInv => RetiredOnce
  BY SafeRetired, LockFreeListAssumption
<1> QED BY <1>1, SafeInvHolds, PTL
=============================================================================
