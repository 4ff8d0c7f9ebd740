------------------------ MODULE LockFreeListSetProofs ------------------------
(***************************************************************************)
(* LockFreeList implements KeySet, with any number of threads, keys and    *)
(* nodes, as long as no rule has been broken.                              *)
(*                                                                         *)
(* SeeInv is what its invariant lacks: a call that decides at Compare has  *)
(* seen that the answer it will give is true.  It was so at CheckNext,     *)
(* when cur led to next without a mark, or is so now.                      *)
(***************************************************************************)
EXTENDS LockFreeListProofs

\* S has the truth value of b.
Truth(b, S) == (b => TRUE \in S) /\ (~b => FALSE \in S)

\* What seen holds of a call: at the least whether its key is there now, and where
\* Compare decides, what it will decide.
Seeing(t) ==
    /\ th[t].op = "none" => seen[t] = {}
    /\ th[t].op # "none" => Truth(th[t].key \in Present, seen[t])
    /\ th[t].pc = "compare" =>
          /\ key[th[t].cur] = th[t].key => TRUE \in seen[t]
          /\ key[th[t].cur] < th[t].key /\ th[t].nxt = Null => FALSE \in seen[t]

\* The strengthening of the invariant that the answers need.
SeeInv == \A t \in Threads : Seeing(t)

\* The calls and their keys as KeySet sees them.
Outcome(place, result, op) ==
    CASE result -> "yes"
      [] place = "clear" /\ ~result -> "no"
      [] OTHER -> op

\* They are functions of the threads.
Called == [t \in Threads |-> Outcome(th[t].pc, th[t].result, th[t].op)]

\* The key of each call.
Asked == [t \in Threads |-> th[t].key]

\* A step that the set does not see.
SetSame == Present' = Present /\ Called' = Called /\ Asked' = Asked /\ seen' = seen

\* What is to be shown of every step.
Follows == SeeInv' /\ (Abstract!Next \/ SetSame)
-----------------------------------------------------------------------------
\* The keys of the nodes that hang in the list without a mark.
Held == {key[n] : n \in Listed \ marked}

\* The set is what the list holds, and so it is after a step.
LEMMA PresentIs == SafeInv => Present = Held
<1> SUFFICES ASSUME SafeInv PROVE Present = Held
  OBVIOUS
<1>1. Reachable = Listed
  BY SoundFacts, SoundUses, ReachableIsListed, LockFreeListAssumption
<1> QED BY <1>1 DEF Present, Held

\* The same, after the step.
LEMMA PresentWillBe == SafeInv' => (Present = Held)'
BY PresentIs, PTL

\* A step that neither adds a node nor marks one leaves the set.
LEMMA PresentSame ==
    ASSUME SafeInv, SafeInv', Listed' \ marked' = Listed \ marked,
           \A n \in Listed \ marked : key'[n] = key[n]
    PROVE  Present' = Present
BY PresentIs, PresentWillBe DEF Held

\* Between two neighbours there is no key.
LEMMA NoKeyBetween ==
    ASSUME SafeInv, NEW p \in Listed \union {head}, NEW k \in Nat, K(p) < k,
           next[p] = Null \/ k < key[next[p]]
    PROVE  k \notin Present
<1>1. Types /\ Shape /\ Listed \subseteq Nodes
  BY SoundFacts, SoundUses
<1>2. ASSUME NEW n \in Listed, key[n] = k PROVE FALSE
  <2>1. next[p] # Null /\ K(next[p]) <= k
    BY <1>1, <1>2 DEF Shape
  <2>2. next[p] \in Listed
    BY <1>1, <2>1 DEF Shape
  <2>3. K(next[p]) = key[next[p]] /\ key[next[p]] \in Nat
    BY <1>1, <2>2, KIs, LockFreeListAssumption
  <2> QED BY <2>1, <2>3
<1> QED BY <1>2, PresentIs DEF Held

\* The three cases of Outcome ...
LEMMA OutcomeIs ==
    ASSUME NEW place, NEW result \in BOOLEAN, NEW op
    PROVE  /\ result => Outcome(place, result, op) = "yes"
           /\ ~result /\ place = "clear" => Outcome(place, result, op) = "no"
           /\ ~result /\ place # "clear" => Outcome(place, result, op) = op
BY DEF Outcome

\* ... and what they are for a thread.
LEMMA CalledIs ==
    ASSUME SafeInv, NEW t \in Threads
    PROVE  /\ th[t].result => Called[t] = "yes"
           /\ ~th[t].result /\ th[t].pc = "clear" => Called[t] = "no"
           /\ ~th[t].result /\ th[t].pc # "clear" => Called[t] = th[t].op
           /\ Called[t] = "none" <=> th[t].op = "none"
           /\ Asked[t] = th[t].key
<1>1. Called[t] = Outcome(th[t].pc, th[t].result, th[t].op) /\ Asked[t] = th[t].key
  BY DEF Called, Asked
<1>2. th[t].result \in BOOLEAN
  BY CallShape
<1>3. th[t].op = "none" => th[t].pc = "idle" /\ ~th[t].result
  BY SoundFacts DEF Control
<1> QED BY <1>1, <1>2, <1>3, OutcomeIs

\* Only the thread that moves can get an answer.
LEMMA CalledMoves ==
    ASSUME SafeInv, NEW t \in Threads, NEW place, NEW result \in BOOLEAN,
           Moves(t, place, result)
    PROVE  /\ Asked' = Asked
           /\ Called' = [Called EXCEPT ![t] = Outcome(place, result, th[t].op)]
<1>1. \A u \in Threads : th'[u].key = th[u].key
  BY DEF Moves
<1>2. \A u \in Threads : Outcome(th'[u].pc, th'[u].result, th'[u].op)
         = IF u = t THEN Outcome(place, result, th[t].op) ELSE Called[u]
  BY DEF Moves, Called
<1>3. Called' = [u \in Threads |-> Outcome(th'[u].pc, th'[u].result, th'[u].op)]
  BY DEF Called
<1>4. Called' = [u \in Threads |-> IF u = t THEN Outcome(place, result, th[t].op) ELSE Called[u]]
  BY <1>2, <1>3
<1>5. DOMAIN Called = Threads
  BY DEF Called
<1> QED BY <1>1, <1>4, <1>5 DEF Asked

\* The calls stay what they are unless t gets an answer.
LEMMA CalledStays ==
    ASSUME SafeInv, NEW t \in Threads, NEW place, NEW result \in BOOLEAN,
           Moves(t, place, result), Outcome(place, result, th[t].op) = Called[t]
    PROVE  Asked' = Asked /\ Called' = Called
<1>1. Asked' = Asked /\ Called' = [Called EXCEPT ![t] = Called[t]]
  BY CalledMoves
<1>2. Called = [u \in Threads |-> Called[u]]
  BY DEF Called
<1> QED BY <1>1, <1>2

\* A truth value that is put into a set is in it.
LEMMA TruthIn ==
    ASSUME NEW b \in BOOLEAN, NEW S
    PROVE  Truth(b, S \union {b}) /\ (Truth(b, S) => S \union {b} = S)
<1>1. CASE b = TRUE
  BY <1>1 DEF Truth
<1>2. CASE b = FALSE
  BY <1>2 DEF Truth
<1> QED BY <1>1, <1>2

\* Watch adds what is true now, and nothing when the set stays.
LEMMA WatchIs ==
    ASSUME Types, Watch
    PROVE  /\ \A u \in Threads :
                 /\ th[u].op = "none" => seen'[u] = {}
                 /\ th[u].op # "none" => /\ Truth(th[u].key \in Present', seen'[u])
                                         /\ seen[u] \subseteq seen'[u]
           /\ SeeInv /\ Present' = Present => seen' = seen
<1> DEFINE truth(u) == th[u].key \in Present'
<1>1. seen' = [u \in Threads |-> IF th[u].op = "none" THEN {} ELSE seen[u] \union {truth(u)}]
  BY DEF Watch
<1>2. \A u \in Threads : truth(u) \in BOOLEAN
  OBVIOUS
<1>3. \A u \in Threads : seen'[u] = IF th[u].op = "none" THEN {} ELSE seen[u] \union {truth(u)}
  <2> HIDE DEF truth
  <2> QED BY <1>1
<1>4. ASSUME NEW u \in Threads, th[u].op # "none" PROVE Truth(truth(u), seen'[u])
  <2>1. truth(u) \in BOOLEAN /\ seen'[u] = seen[u] \union {truth(u)}
    BY <1>2, <1>3, <1>4
  <2> HIDE DEF truth
  <2>2. Truth(truth(u), seen[u] \union {truth(u)})
    BY <2>1, TruthIn
  <2> QED BY <2>1, <2>2
<1>5. ASSUME SeeInv, Present' = Present PROVE seen' = seen
  <2>1. \A u \in Threads : th[u].op # "none" => Truth(truth(u), seen[u])
    BY <1>5 DEF SeeInv, Seeing
  <2>2. \A u \in Threads : th[u].op = "none" => seen[u] = {}
    BY <1>5 DEF SeeInv, Seeing
  <2> HIDE DEF truth
  <2>3. ASSUME NEW u \in Threads
        PROVE  (IF th[u].op = "none" THEN {} ELSE seen[u] \union {truth(u)}) = seen[u]
    <3>1. CASE th[u].op = "none"
      BY <2>2, <3>1
    <3>2. CASE th[u].op # "none"
      <4>1. truth(u) \in BOOLEAN /\ Truth(truth(u), seen[u])
        BY <1>2, <2>1, <3>2
      <4>2. seen[u] \union {truth(u)} = seen[u]
        BY <4>1, TruthIn
      <4> QED BY <3>2, <4>2
    <3> QED BY <3>1, <3>2
  <2>4. seen' = [u \in Threads |-> seen[u]]
    BY <1>1, <2>3
  <2> QED BY <2>4 DEF Types
<1> QED BY <1>3, <1>4, <1>5
-----------------------------------------------------------------------------
\* What a thread has seen that does not move itself.
LEMMA SeeingKept ==
    ASSUME SafeInv, SafeInv', SeeInv, KeysKept, NEW u \in Threads, th'[u] = th[u],
           th[u].op = "none" => seen'[u] = {},
           th[u].op # "none" => Truth(th[u].key \in Present', seen'[u]) /\ seen[u] \subseteq seen'[u]
    PROVE  Seeing(u)'
<1>1. Seeing(u)
  BY DEF SeeInv
<1>2. th[u].pc = "compare" => key'[th[u].cur] = key[th[u].cur] /\ th[u].op # "none"
  <2> SUFFICES ASSUME th[u].pc = "compare" PROVE key'[th[u].cur] = key[th[u].cur] /\ th[u].op # "none"
    OBVIOUS
  <2>1. CurSafe(u) /\ th[u].cur # Null /\ th[u].op # "none"
    BY SoundFacts, CallShape DEF Walk, Walking
  <2>2. Walk(u)'
    BY DEF SafeInv, Sound
  <2>3. CurSafe(u)'
    BY <2>2 DEF Walk, Walking
  <2>4. th[u].cur \in Old /\ th[u].cur \in Old'
    BY <2>1, <2>3 DEF CurSafe, Safe
  <2> QED BY <2>1, <2>4 DEF KeysKept
<1> QED BY <1>1, <1>2 DEF Seeing

\* What all threads have seen after a step that Watch is a part of, or that
\* leaves the set and what was seen of it as they were.
LEMMA SeeingAll ==
    ASSUME SafeInv, SafeInv', SeeInv, KeysKept, NEW t \in Threads, NEW place, NEW result,
           Moves(t, place, result), Watch \/ (Present' = Present /\ seen' = seen),
           place = "compare" => \/ key'[th'[t].cur] = th[t].key /\ TRUE \in seen[t]
                                \/ key'[th'[t].cur] < th[t].key /\ th'[t].nxt = Null
                                     /\ FALSE \in seen[t]
                                \/ key'[th'[t].cur] # th[t].key
                                     /\ ~(key'[th'[t].cur] < th[t].key /\ th'[t].nxt = Null)
    PROVE  SeeInv'
<1>1. ASSUME NEW u \in Threads
      PROVE  /\ th[u].op = "none" => seen'[u] = {}
             /\ th[u].op # "none" => /\ Truth(th[u].key \in Present', seen'[u])
                                     /\ seen[u] \subseteq seen'[u]
  <2>1. CASE Watch
    BY <2>1, WatchIs, SoundFacts
  <2>2. CASE Present' = Present /\ seen' = seen
    BY <2>2 DEF SeeInv, Seeing
  <2> QED BY <2>1, <2>2
<1>2. \A u \in Threads \ {t} : Seeing(u)'
  BY <1>1, SeeingKept DEF Moves
<1>3. Seeing(t)'
  <2>1. th'[t].op = th[t].op /\ th'[t].key = th[t].key /\ th'[t].pc = place
    BY DEF Moves
  <2>2. place = "compare" => th[t].op # "none"
    <3> SUFFICES ASSUME place = "compare", th[t].op = "none" PROVE FALSE
      OBVIOUS
    <3>1. Control(t)'
      BY DEF SafeInv, Sound
    <3> QED BY <2>1, <3>1 DEF Control
  <2>3. place = "compare" =>
          /\ key'[th'[t].cur] = th'[t].key => TRUE \in seen'[t]
          /\ key'[th'[t].cur] < th'[t].key /\ th'[t].nxt = Null => FALSE \in seen'[t]
    <3> SUFFICES ASSUME place = "compare"
                 PROVE  /\ key'[th'[t].cur] = th'[t].key => TRUE \in seen'[t]
                        /\ key'[th'[t].cur] < th'[t].key /\ th'[t].nxt = Null => FALSE \in seen'[t]
      OBVIOUS
    <3>1. seen[t] \subseteq seen'[t]
      BY <1>1, <2>2
    <3>2. th'[t].key \in Nat
      BY <2>1, CallShape
    <3>3. CASE key'[th'[t].cur] = th[t].key /\ TRUE \in seen[t]
      <4>1. TRUE \in seen'[t]
        BY <3>1, <3>3, Zenon
      <4>2. ~(key'[th'[t].cur] < th'[t].key)
        BY <2>1, <3>2, <3>3
      <4> QED BY <4>1, <4>2
    <3>4. CASE key'[th'[t].cur] < th[t].key /\ th'[t].nxt = Null /\ FALSE \in seen[t]
      <4>1. FALSE \in seen'[t]
        BY <3>1, <3>4, Zenon
      <4>2. key'[th'[t].cur] # th'[t].key
        BY <2>1, <3>2, <3>4
      <4> QED BY <4>1, <4>2
    <3>5. CASE /\ key'[th'[t].cur] # th[t].key
               /\ ~(key'[th'[t].cur] < th[t].key /\ th'[t].nxt = Null)
      BY <2>1, <3>5
    <3> QED BY <3>3, <3>4, <3>5
  <2> QED BY <1>1, <2>1, <2>3 DEF Seeing
<1> QED BY <1>2, <1>3 DEF SeeInv
-----------------------------------------------------------------------------
\* The steps of KeySet, in terms of the list.
LEMMA SetBegins ==
    ASSUME NEW t \in Threads, NEW op \in {"find", "add", "del"}, NEW k \in Keys,
           Called[t] = "none", Called' = [Called EXCEPT ![t] = op],
           Asked' = [Asked EXCEPT ![t] = k],
           seen' = [seen EXCEPT ![t] = {(k \in Present)}], Present' = Present
    PROVE  Abstract!Next
<1>1. Abstract!Begin(t, op, k)
  BY DEF Abstract!Begin, Called, Asked, Outcome, At
<1> QED BY <1>1 DEF Abstract!Next

\* An addition, ...
LEMMA SetAdds ==
    ASSUME NEW t \in Threads, Called[t] = "add", Asked[t] \notin Present,
           Present' = Present \union {Asked[t]}, Called' = [Called EXCEPT ![t] = "yes"],
           Asked' = Asked,
           seen' = [u \in Threads |-> IF Called[u] = "none" THEN {}
                                      ELSE seen[u] \union {Asked[u] \in Present'}]
    PROVE  Abstract!Next
<1>1. Abstract!Add(t)
  BY DEF Abstract!Add, Abstract!Update, Called, Asked, Outcome, At
<1> QED BY <1>1 DEF Abstract!Next

\* ... a deletion, ...
LEMMA SetDeletes ==
    ASSUME NEW t \in Threads, Called[t] = "del", Asked[t] \in Present,
           Present' = Present \ {Asked[t]}, Called' = [Called EXCEPT ![t] = "yes"],
           Asked' = Asked,
           seen' = [u \in Threads |-> IF Called[u] = "none" THEN {}
                                      ELSE seen[u] \union {Asked[u] \in Present'}]
    PROVE  Abstract!Next
<1>1. Abstract!Delete(t)
  BY DEF Abstract!Delete, Abstract!Update, Called, Asked, Outcome, At
<1> QED BY <1>1 DEF Abstract!Next

\* ... an answer of a call that changes nothing ...
LEMMA SetAnswers ==
    ASSUME NEW t \in Threads, NEW answer,
           \/ Called[t] = "find" /\ TRUE \in seen[t] /\ answer = "yes"
           \/ Called[t] \in {"find", "del"} /\ FALSE \in seen[t] /\ answer = "no"
           \/ Called[t] = "add" /\ TRUE \in seen[t] /\ answer = "no",
           Called' = [Called EXCEPT ![t] = answer],
           Present' = Present, Asked' = Asked, seen' = seen
    PROVE  Abstract!Next
<1>1. Abstract!Found(t) \/ Abstract!NotFound(t) \/ Abstract!NotAdded(t)
  BY DEF Abstract!Found, Abstract!NotFound, Abstract!NotAdded, Abstract!Answer,
         Called, Asked, Outcome, At
<1> QED BY <1>1 DEF Abstract!Next

\* ... and a return.
LEMMA SetReturns ==
    ASSUME NEW t \in Threads, Called[t] \in {"yes", "no"},
           Called' = [Called EXCEPT ![t] = "none"], Asked' = [Asked EXCEPT ![t] = 0],
           seen' = [seen EXCEPT ![t] = {}], Present' = Present
    PROVE  Abstract!Next
<1>1. Abstract!Return(t)
  BY DEF Abstract!Return, Called, Asked, Outcome, At
<1> QED BY <1>1 DEF Abstract!Next
-----------------------------------------------------------------------------
\* Steps that KeySet does not see.
LEMMA QuietFollows ==
    ASSUME SafeInv, SafeInv', SeeInv, KeysKept, NEW t \in Threads,
           NEW place, place # "compare", NEW result \in BOOLEAN, Moves(t, place, result),
           Outcome(place, result, th[t].op) = Called[t],
           Present' = Present, Watch \/ seen' = seen
    PROVE  Follows
<1>1. SeeInv'
  BY SeeingAll
<1>2. seen' = seen
  BY WatchIs, SoundFacts
<1>3. Asked' = Asked /\ Called' = Called
  BY CalledStays
<1> QED BY <1>1, <1>2, <1>3 DEF Follows, SetSame

\* Only at "clear" a call gets the answer no.
LEMMA OutcomeStays ==
    ASSUME SafeInv, NEW t \in Threads, NEW place, place # "clear", th[t].pc # "clear"
    PROVE  Outcome(place, th[t].result, th[t].op) = Called[t] /\ th[t].result \in BOOLEAN
<1>1. th[t].result \in BOOLEAN
  BY CallShape
<1>2. CASE th[t].result
  BY <1>1, <1>2, OutcomeIs, CalledIs
<1>3. CASE ~th[t].result
  BY <1>1, <1>3, OutcomeIs, CalledIs
<1> QED BY <1>1, <1>2, <1>3

\* A restart is a step that KeySet does not see.
LEMMA RestartFollows ==
    ASSUME SafeInv, SafeInv', SeeInv, KeysKept, NEW t \in Threads, Restarts(t),
           th[t].pc # "clear", Present' = Present, Watch \/ seen' = seen
    PROVE  Follows
<1>1. Outcome("start", th[t].result, th[t].op) = Called[t] /\ th[t].result \in BOOLEAN
  BY OutcomeStays
<1> QED BY <1>1, QuietFollows DEF Restarts

\* Where memory stays, the set does.
LEMMA SameMemoryIs ==
    ASSUME SameMemory
    PROVE  Present' = Present /\ KeysKept
BY DEF SameMemory, Present, Reachable, From, KeysKept

\* The call gets an answer that was true while it was under way.
LEMMA AnswerFollows ==
    ASSUME SafeInv, SafeInv', SeeInv, SameMemory, seen' = seen, NEW t \in Threads,
           NEW result \in BOOLEAN, Moves(t, "clear", result),
           th[t].pc # "clear", ~th[t].result,
           \/ th[t].op = "find" /\ result /\ TRUE \in seen[t]
           \/ th[t].op \in {"find", "del"} /\ ~result /\ FALSE \in seen[t]
           \/ th[t].op = "add" /\ ~result /\ TRUE \in seen[t]
    PROVE  Follows
<1>1. Present' = Present /\ KeysKept
  BY SameMemoryIs
<1>2. SeeInv'
  BY <1>1, SeeingAll
<1>3. Called[t] = th[t].op
  BY CalledIs
<1>4. Asked' = Asked /\ Called' = [Called EXCEPT ![t] = Outcome("clear", result, th[t].op)]
  BY CalledMoves
<1>5. CASE result
  <2>1. Outcome("clear", result, th[t].op) = "yes"
    BY <1>5, OutcomeIs
  <2>2. Called[t] = "find" /\ TRUE \in seen[t]
    BY <1>3, <1>5
  <2>3. Abstract!Next
    BY <1>1, <1>4, <2>1, <2>2, SetAnswers
  <2> QED BY <1>2, <2>3 DEF Follows
<1>6. CASE ~result
  <2>1. Outcome("clear", result, th[t].op) = "no"
    BY <1>6, OutcomeIs
  <2>2. \/ Called[t] \in {"find", "del"} /\ FALSE \in seen[t]
        \/ Called[t] = "add" /\ TRUE \in seen[t]
    BY <1>3, <1>6
  <2>3. Abstract!Next
    BY <1>1, <1>4, <2>1, <2>2, SetAnswers
  <2> QED BY <1>2, <2>3 DEF Follows
<1> QED BY <1>5, <1>6

\* Where find ends, with the truth about the key.
LEMMA EndsFollow ==
    ASSUME SafeInv, SafeInv', SeeInv, SameMemory, seen' = seen, NEW t \in Threads,
           NEW prev, NEW cur, NEW nxt, NEW found \in BOOLEAN, Ends(t, prev, cur, nxt, found),
           Truth(found, seen[t]), th[t].pc \in {"checkHead", "compare"}
    PROVE  Follows
<1>1. Present' = Present /\ KeysKept
  BY SameMemoryIs
<1>2. /\ th[t].result \in BOOLEAN /\ th[t].op \in {"find", "add", "del"}
      /\ th[t].op \in {"find", "add"} => ~th[t].result
  BY CallShape
<1>3. ASSUME NEW place \in {"link", "mark"}, Moves(t, place, th[t].result) PROVE Follows
  <2>1. Outcome(place, th[t].result, th[t].op) = Called[t]
    BY OutcomeStays
  <2> QED BY <1>1, <1>2, <1>3, <2>1, QuietFollows
<1> DEFINE result == IF th[t].op = "find" THEN found ELSE th[t].result
<1>4. result \in BOOLEAN
  BY <1>2
<1>5. ASSUME ~(th[t].op = "add" /\ ~found), ~(th[t].op = "del" /\ found /\ ~th[t].result),
             Moves(t, "clear", result)
      PROVE  Follows
  <2>1. CASE th[t].op = "find"
    <3>1. Moves(t, "clear", found) /\ ~th[t].result
      BY <1>2, <1>5, <2>1
    <3>2. (found /\ TRUE \in seen[t]) \/ (~found /\ FALSE \in seen[t])
      BY DEF Truth
    <3> QED BY <2>1, <3>1, <3>2, AnswerFollows
  <2>2. CASE th[t].op = "add"
    <3>1. Moves(t, "clear", th[t].result) /\ ~th[t].result
      BY <1>2, <1>5, <2>2
    <3>2. found /\ TRUE \in seen[t]
      BY <1>5, <2>2 DEF Truth
    <3> QED BY <1>2, <2>2, <3>1, <3>2, AnswerFollows
  <2>3. CASE th[t].op = "del" /\ ~th[t].result
    <3>1. Moves(t, "clear", th[t].result)
      BY <1>5, <2>3
    <3>2. ~found /\ FALSE \in seen[t]
      BY <1>5, <2>3 DEF Truth
    <3> QED BY <1>2, <2>3, <3>1, <3>2, AnswerFollows
  <2>4. CASE th[t].op = "del" /\ th[t].result
    <3>1. Moves(t, "clear", th[t].result)
      BY <1>5, <2>4
    <3>2. th[t].result /\ th[t].result \in BOOLEAN
      BY <1>2, <2>4
    <3>3. Outcome("clear", th[t].result, th[t].op) = "yes"
      BY <3>2, OutcomeIs
    <3>4. Called[t] = "yes"
      BY <3>2, CalledIs
    <3> QED BY <1>1, <3>1, <3>2, <3>3, <3>4, QuietFollows
  <2> QED BY <1>2, <2>1, <2>2, <2>3, <2>4
<1> QED BY <1>3, <1>5 DEF Ends

\* A walk that has come to the end knows that the key is not there.
LEMMA GoesOnFollows ==
    ASSUME SafeInv, SafeInv', SeeInv, SameMemory, seen' = seen, NEW t \in Threads,
           NEW prev, NEW cur, NEW nxt, GoesOn(t, prev, cur, nxt),
           cur = Null => FALSE \in seen[t], th[t].pc \in {"checkHead", "compare"}
    PROVE  Follows
<1>1. CASE cur = Null /\ Ends(t, prev, cur, nxt, FALSE)
  <2>1. Truth(FALSE, seen[t])
    BY <1>1 DEF Truth
  <2> QED BY <1>1, <2>1, EndsFollow
<1>2. CASE Moves(t, "load", th[t].result)
  <2>1. Outcome("load", th[t].result, th[t].op) = Called[t] /\ th[t].result \in BOOLEAN
    BY OutcomeStays
  <2> QED BY <1>2, <2>1, SameMemoryIs, QuietFollows
<1> QED BY <1>1, <1>2 DEF GoesOn

\* A call has a key.
LEMMA CallKey ==
    ASSUME SafeInv, NEW t \in Threads, th[t].pc # "idle"
    PROVE  th[t].op # "none" /\ th[t].key \in Nat /\ th[t].key > 0
<1>1. th[t].op # "none" /\ th[t].key \in Keys
  BY SoundFacts DEF Control
<1>2. \A x \in Keys : x \in Nat /\ x > 0
  BY LockFreeListAssumption
<1> QED BY <1>1, <1>2

\* A step that leaves memory and the answer as they are.
LEMMA StillFollows ==
    ASSUME SafeInv, SafeInv', SeeInv, SameMemory, seen' = seen, NEW t \in Threads,
           NEW place, place # "compare", place # "clear", th[t].pc # "clear",
           Moves(t, place, th[t].result)
    PROVE  Follows
<1>1. Outcome(place, th[t].result, th[t].op) = Called[t] /\ th[t].result \in BOOLEAN
  BY OutcomeStays
<1> QED BY <1>1, SameMemoryIs, QuietFollows

\* The steps of a walk: at its end, an empty list has no key.
LEMMA FindFollows ==
    ASSUME SafeInv, SafeInv', SeeInv, Clean', NEW t \in Threads,
           FindStart(t) \/ CheckHead(t) \/ LoadNext(t)
    PROVE  Follows
<1>1. CASE FindStart(t)
  <2>1. /\ th[t].pc = "start" /\ Moves(t, "checkHead", th[t].result)
        /\ SameMemory /\ seen' = seen
    BY <1>1, FindStartDoes, SoundFacts, LockFreeListAssumption
  <2> QED BY <2>1, StillFollows
<1>2. CASE CheckHead(t)
  <2>1. /\ th[t].pc = "checkHead"
        /\ \/ PointsTo(head, th[t].cur) /\ GoesOn(t, th[t].prev, th[t].cur, th[t].nxt)
           \/ Restarts(t)
        /\ SameMemory /\ seen' = seen
    BY <1>2, CheckHeadDoes, SoundFacts
  <2>2. CASE PointsTo(head, th[t].cur) /\ GoesOn(t, th[t].prev, th[t].cur, th[t].nxt)
    <3>1. th[t].cur = Null => FALSE \in seen[t]
      <4> SUFFICES ASSUME th[t].cur = Null PROVE FALSE \in seen[t]
        OBVIOUS
      <4>1. next[head] = Null /\ K(head) < th[t].key /\ th[t].key \in Nat /\ th[t].op # "none"
        BY <2>1, <2>2, CallKey DEF PointsTo, K
      <4>2. th[t].key \notin Present
        BY <4>1, NoKeyBetween
      <4> QED BY <4>1, <4>2 DEF SeeInv, Seeing, Truth
    <3> QED BY <2>1, <2>2, <3>1, GoesOnFollows
  <2>3. CASE Restarts(t)
    BY <2>1, <2>3, SameMemoryIs, RestartFollows
  <2> QED BY <2>1, <2>2, <2>3
<1>3. CASE LoadNext(t)
  <2>0. th[t].cur # Null
    BY <1>3, CallShape DEF LoadNext, At
  <2>1. /\ th[t].pc = "load" /\ Moves(t, "checkNext", th[t].result)
        /\ SameMemory /\ seen' = seen
    BY <1>3, <2>0, LoadNextDoes, SoundFacts
  <2> QED BY <2>1, StillFollows
<1> QED BY <1>1, <1>2, <1>3

\* What the list holds when cur->next is read again.
LEMMA CheckNextFollows ==
    ASSUME SafeInv, SafeInv', SeeInv, Clean', NEW t \in Threads, CheckNext(t)
    PROVE  Follows
<1>1. /\ th[t].pc = "checkNext" /\ late[t] = <<>>
      /\ \/ /\ PointsTo(th[t].cur, th[t].nxt)
            /\ Moves(t, "compare", th[t].result)
            /\ Walks(t, th[t].prev, th[t].cur, th[t].nxt)
         \/ Restarts(t)
      /\ SameMemory /\ seen' = seen
  BY CheckNextDoes, SoundFacts
<1>2. CASE Restarts(t)
  BY <1>1, <1>2, SameMemoryIs, RestartFollows
<1>3. CASE /\ PointsTo(th[t].cur, th[t].nxt)
           /\ Moves(t, "compare", th[t].result)
           /\ Walks(t, th[t].prev, th[t].cur, th[t].nxt)
  <2>1. /\ th[t].cur \in Nodes /\ th[t].cur # Null /\ CurSafe(t)
        /\ th[t].op # "none" /\ th[t].key \in Nat
    BY <1>1, CallShape, CallKey, SoundFacts DEF Walk, Walking
  <2>2. th[t].cur \in Listed \ marked /\ next[th[t].cur] = th[t].nxt
    <3>1. th[t].cur \in Old /\ th[t].cur \notin marked
      BY <1>1, <1>3, <2>1 DEF CurSafe, Safe, PointsTo
    <3> QED BY <1>3, <3>1, SoundUses DEF PointsTo
  <2>3. K(th[t].cur) = key[th[t].cur] /\ key[th[t].cur] \in Nat
    BY <2>1, KIs, LockFreeListAssumption, SoundFacts
  <2>4. Truth(th[t].key \in Present, seen[t])
    BY <2>1 DEF SeeInv, Seeing
  <2>5. key[th[t].cur] = th[t].key => TRUE \in seen[t]
    <3> SUFFICES ASSUME key[th[t].cur] = th[t].key PROVE TRUE \in seen[t]
      OBVIOUS
    <3>1. th[t].key \in Present
      BY <2>2, PresentIs DEF Held
    <3> QED BY <2>4, <3>1 DEF Truth
  <2>6. key[th[t].cur] < th[t].key /\ th[t].nxt = Null => FALSE \in seen[t]
    <3> SUFFICES ASSUME key[th[t].cur] < th[t].key, th[t].nxt = Null PROVE FALSE \in seen[t]
      OBVIOUS
    <3>1. th[t].key \notin Present
      BY <2>1, <2>2, <2>3, NoKeyBetween
    <3> QED BY <2>4, <3>1 DEF Truth
  <2>7. key'[th'[t].cur] = key[th[t].cur] /\ th'[t].nxt = th[t].nxt
    BY <1>1, <1>3 DEF SameMemory, Walks
  <2>8. SeeInv'
    BY <1>1, <1>3, <2>5, <2>6, <2>7, SameMemoryIs, SeeingAll
  <2>9. Outcome("compare", th[t].result, th[t].op) = Called[t] /\ th[t].result \in BOOLEAN
    BY <1>1, OutcomeStays
  <2>10. Called' = Called /\ Asked' = Asked
    BY <1>3, <2>9, CalledStays
  <2> QED BY <1>1, <2>8, <2>10, SameMemoryIs DEF Follows, SetSame
<1> QED BY <1>1, <1>2, <1>3

\* Between prev, which is in the list, and cur, which comes behind it, there is
\* no key: what Compare answers was the truth at that moment.
LEMMA CompareFollows ==
    ASSUME SafeInv, SafeInv', SeeInv, Clean', NEW t \in Threads,
           PrevLost(t) \/ Compare(t) \/ Advance(t)
    PROVE  Follows
<1>1. CASE PrevLost(t)
  <2>1. th[t].pc = "compare" /\ Restarts(t) /\ SameMemory /\ seen' = seen
    BY <1>1, PrevLostDoes, SoundFacts
  <2> QED BY <2>1, SameMemoryIs, RestartFollows
<1>2. CASE Compare(t)
  <2> DEFINE found == key[th[t].cur] = th[t].key
  <2>1. /\ th[t].pc = "compare" /\ late[t] = <<>>
        /\ PointsTo(th[t].prev, th[t].cur) /\ key[th[t].cur] >= th[t].key
        /\ Ends(t, th[t].prev, th[t].cur, th[t].nxt, found)
        /\ SameMemory /\ seen' = seen
    BY <1>2, CompareDoes, SoundFacts
  <2>2. PrevSafe(t) /\ th[t].key \in Nat /\ th[t].key > 0 /\ th[t].op # "none"
        /\ th[t].cur \in Nodes
    BY <2>1, SoundFacts, CallKey, CallShape DEF Walk, Walking
  <2>3. found => TRUE \in seen[t]
    BY <2>1 DEF SeeInv, Seeing
  <2>4. ~found => FALSE \in seen[t]
    <3> SUFFICES ASSUME ~found PROVE FALSE \in seen[t]
      OBVIOUS
    <3>1. next[th[t].prev] = th[t].cur /\ th[t].prev \notin marked
      BY <2>1 DEF PointsTo
    <3>2. th[t].prev \in Listed \union {head} /\ K(th[t].prev) < th[t].key
      <4>1. CASE th[t].prev = head
        BY <2>2, <4>1 DEF K
      <4>2. CASE th[t].prev # head
        <5>1. th[t].prev \in Old /\ key[th[t].prev] < th[t].key
          BY <2>2, <4>2 DEF PrevSafe, Safe
        <5> QED BY <3>1, <4>2, <5>1, SoundUses DEF K
      <4> QED BY <4>1, <4>2
    <3>3. th[t].key < key[th[t].cur]
      <4>1. key[th[t].cur] \in Nat
        BY <2>2, KIs, SoundFacts, LockFreeListAssumption
      <4> QED BY <2>1, <2>2, <4>1
    <3>4. th[t].key \notin Present
      BY <2>2, <3>1, <3>2, <3>3, NoKeyBetween
    <3> QED BY <2>2, <3>4 DEF SeeInv, Seeing, Truth
  <2>5. Truth(found, seen[t]) /\ found \in BOOLEAN
    BY <2>3, <2>4 DEF Truth
  <2> HIDE DEF found
  <2> QED BY <2>1, <2>5, EndsFollow
<1>3. CASE Advance(t)
  <2>0. th[t].cur # Null /\ th[t].pc = "compare"
    BY <1>3, CallShape DEF Advance, At
  <2>1. /\ key[th[t].cur] < th[t].key
        /\ GoesOn(t, th[t].cur, th[t].nxt, Null)
        /\ SameMemory /\ seen' = seen
    BY <1>3, <2>0, AdvanceDoes, SoundFacts
  <2>2. th[t].nxt = Null => FALSE \in seen[t]
    BY <2>0, <2>1 DEF SeeInv, Seeing
  <2> QED BY <2>0, <2>1, <2>2, GoesOnFollows
<1> QED BY <1>1, <1>2, <1>3
-----------------------------------------------------------------------------
\* Watch is what KeySet writes into seen.
LEMMA WatchFits ==
    ASSUME SafeInv, Watch
    PROVE  seen' = [u \in Threads |-> IF Called[u] = "none" THEN {}
                                      ELSE seen[u] \union {Asked[u] \in Present'}]
<1> DEFINE truth(k) == k \in Present'
<1>1. seen' = [u \in Threads |-> IF th[u].op = "none" THEN {} ELSE seen[u] \union {truth(th[u].key)}]
  BY DEF Watch
<1>2. \A u \in Threads : (Called[u] = "none" <=> th[u].op = "none") /\ Asked[u] = th[u].key
  BY CalledIs
<1>3. seen' = [u \in Threads |-> IF Called[u] = "none" THEN {} ELSE seen[u] \union {truth(Asked[u])}]
  <2> HIDE DEF truth
  <2> QED BY <1>1, <1>2
<1> QED BY <1>3

\* The entry is not in the list yet.
LEMMA AddLinkFollows ==
    ASSUME SafeInv, SafeInv', SeeInv, NEW t \in Threads, AddLink(t)
    PROVE  Follows
<1>0. th[t].pc = "link" /\ Entering(t)
  BY SoundUses DEF AddLink, At
<1>1. next[th[t].entry] = Null
  BY <1>0, SoundFacts DEF EntryOK
<1>2. Moves(t, "cas", th[t].result) /\ UNCHANGED <<marked, key, alloc, retired>> /\ Watch
  BY <1>1, SoundFacts, AddLinkDoes, LockFreeListAssumption
<1>3. Listed' = Listed
  BY <1>2, MovesSame, SetsSame
<1>4. Present' = Present /\ KeysKept
  BY <1>2, <1>3, PresentSame DEF KeysKept
<1>5. Outcome("cas", th[t].result, th[t].op) = Called[t] /\ th[t].result \in BOOLEAN
  BY <1>0, OutcomeStays
<1> QED BY <1>2, <1>4, <1>5, QuietFollows

\* The CAS that hangs the entry in is where the key comes into the set.
LEMMA AddCASFollows ==
    ASSUME SafeInv, SafeInv', SeeInv, Clean', NEW t \in Threads, AddCAS(t)
    PROVE  Follows
<1>1. /\ th[t].pc = "cas"
      /\ \/ PointsTo(th[t].prev, th[t].cur) /\ Moves(t, "clear", TRUE)
         \/ next' = next /\ Restarts(t)
      /\ UNCHANGED <<marked, key, alloc, retired>> /\ Watch
  BY SoundFacts, AddCASDoes
<1>2. CASE next' = next /\ Restarts(t)
  <2>1. SameMemory
    BY <1>1, <1>2 DEF SameMemory
  <2> QED BY <1>1, <1>2, <2>1, SameMemoryIs, RestartFollows
<1>3. CASE PointsTo(th[t].prev, th[t].cur) /\ Moves(t, "clear", TRUE)
  <2> DEFINE e == th[t].entry
             p == th[t].prev
             k == th[t].key
  <2>1. Listed' = Listed \union {e}
    BY <1>3, AddCASKeeps, LockFreeListAssumption DEF Moves
  <2>2. Entering(t) /\ e \in alloc \ marked /\ key[e] = k /\ e \in Nodes
    BY <1>1, SoundFacts, SoundUses DEF EntryOK
  <2>3. PrevSafe(t) /\ th[t].op = "add" /\ ~th[t].result /\ k \in Nat /\ k > 0
    BY <1>1, <2>2, SoundFacts, CallKey DEF Walk, Walking, Entering, Adding
  <2>4. next[p] = th[t].cur /\ p \notin marked
    BY <1>3 DEF PointsTo
  <2>5. p \in Listed \union {head} /\ K(p) < k
    <3>1. CASE p = head
      BY <2>3, <3>1 DEF K
    <3>2. CASE p # head
      <4>1. p \in Old /\ key[p] < k
        BY <2>3, <3>2 DEF PrevSafe, Safe
      <4> QED BY <2>4, <3>2, <4>1, SoundUses DEF K
    <3> QED BY <3>1, <3>2
  <2>6. next[p] = Null \/ k < key[next[p]]
    <3>1. th[t].cur # Null => key[th[t].cur] > k
      BY <1>1, SoundFacts DEF Walk
    <3>2. th[t].cur # Null => key[th[t].cur] \in Nat
      BY CallShape, SoundFacts, KIs, LockFreeListAssumption DEF NodeOrNull
    <3> QED BY <2>3, <2>4, <3>1, <3>2
  <2>7. k \notin Present
    <3> HIDE DEF p, k
    <3> QED BY <2>3, <2>5, <2>6, NoKeyBetween
  <2>8. Present' = Present \union {k}
    <3>1. Held' = Held \union {k}
      BY <1>1, <2>1, <2>2 DEF Held
    <3>2. Present = Held /\ Present' = Held'
      BY PresentIs, PresentWillBe
    <3> QED BY <3>1, <3>2
  <2>9. Called[t] = "add" /\ Asked[t] = k
    BY <1>1, <2>3, CalledIs
  <2>10. Asked' = Asked /\ Called' = [Called EXCEPT ![t] = "yes"]
    <3>1. Outcome("clear", TRUE, th[t].op) = "yes"
      BY DEF Outcome
    <3> QED BY <1>3, <3>1, CalledMoves
  <2>11. Abstract!Next
    <3> HIDE DEF k
    <3> QED BY <1>1, <2>7, <2>8, <2>9, <2>10, WatchFits, SetAdds
  <2>12. SeeInv'
    <3>1. KeysKept
      BY <1>1 DEF KeysKept
    <3> QED BY <1>1, <1>3, <3>1, SeeingAll
  <2> QED BY <2>11, <2>12 DEF Follows
<1> QED BY <1>1, <1>2, <1>3

\* The CAS that marks the node is where its key leaves the set.
LEMMA DelMarkFollows ==
    ASSUME SafeInv, SafeInv', SeeInv, NEW t \in Threads, DelMark(t)
    PROVE  Follows
<1>1. /\ th[t].pc = "mark"
      /\ \/ /\ PointsTo(th[t].cur, th[t].nxt) /\ marked' = marked \union {th[t].cur}
            /\ Moves(t, "unlink", TRUE)
         \/ marked' = marked /\ Restarts(t)
      /\ UNCHANGED <<next, key, alloc, retired>> /\ Watch
  BY SoundFacts, DelMarkDoes
<1>2. CASE marked' = marked /\ Restarts(t)
  <2>1. SameMemory
    BY <1>1, <1>2 DEF SameMemory
  <2> QED BY <1>1, <1>2, <2>1, SameMemoryIs, RestartFollows
<1>3. CASE /\ PointsTo(th[t].cur, th[t].nxt) /\ marked' = marked \union {th[t].cur}
           /\ Moves(t, "unlink", TRUE)
  <2> DEFINE c == th[t].cur
             k == th[t].key
  <2>1. /\ th[t].op = "del" /\ ~th[t].result /\ c \in Nodes /\ c # Null /\ CurSafe(t)
        /\ key[c] = k
    BY <1>1, SoundFacts, CallShape DEF Control, Walk, Walking
  <2>2. c \in Listed \ marked
    <3>1. late[t] = <<>> /\ c \in Old
      BY <1>1, <2>1, DelMarkDoes, SoundFacts DEF CurSafe, Safe
    <3> QED BY <1>3, <3>1, SoundUses DEF PointsTo
  <2>3. Listed' = Listed
    BY <1>1, <1>3, <2>1, DelMovesSame, SetsSame
  <2>4. Present' = Present \ {k} /\ k \in Present
    <3>1. \A m \in Listed : key[m] = k <=> m = c
      BY <2>1, <2>2, SoundFacts DEF Shape
    <3>2. Held' = Held \ {k} /\ k \in Held
      BY <1>1, <1>3, <2>1, <2>2, <2>3, <3>1 DEF Held
    <3>3. Present = Held /\ Present' = Held'
      BY PresentIs, PresentWillBe
    <3> QED BY <3>2, <3>3
  <2>5. Called[t] = "del" /\ Asked[t] = k
    BY <1>1, <2>1, CalledIs
  <2>6. Asked' = Asked /\ Called' = [Called EXCEPT ![t] = "yes"]
    <3>1. Outcome("unlink", TRUE, th[t].op) = "yes"
      BY DEF Outcome
    <3> QED BY <1>3, <3>1, CalledMoves
  <2>7. Abstract!Next
    <3> HIDE DEF k
    <3> QED BY <1>1, <2>4, <2>5, <2>6, WatchFits, SetDeletes
  <2>8. SeeInv'
    <3>1. KeysKept
      BY <1>1 DEF KeysKept
    <3> QED BY <1>1, <1>3, <3>1, SeeingAll
  <2> QED BY <2>7, <2>8 DEF Follows
<1> QED BY <1>1, <1>2, <1>3

\* To take a marked node out does not change the set.
LEMMA DelUnlinkFollows ==
    ASSUME SafeInv, SafeInv', SeeInv, NEW t \in Threads, DelUnlink(t)
    PROVE  Follows
<1>1. /\ th[t].pc = "unlink"
      /\ \/ Moves(t, "scan", th[t].result)
         \/ next' = next /\ retired' = retired /\ Restarts(t)
      /\ UNCHANGED <<marked, key, alloc>> /\ Watch
  BY SoundFacts, DelUnlinkDoes
<1>2. CASE next' = next /\ retired' = retired /\ Restarts(t)
  <2>1. SameMemory
    BY <1>1, <1>2 DEF SameMemory
  <2> QED BY <1>1, <1>2, <2>1, SameMemoryIs, RestartFollows
<1>3. CASE Moves(t, "scan", th[t].result)
  <2>1. Listed' = Listed \ {th[t].cur} /\ th[t].cur \in marked
    BY <1>1, <1>3, DelUnlinkKeeps, SoundUses, LockFreeListAssumption DEF Moves
  <2>2. Present' = Present /\ KeysKept
    <3>1. Listed' \ marked' = Listed \ marked
      BY <1>1, <2>1
    <3> QED BY <1>1, <3>1, PresentSame DEF KeysKept
  <2>3. Outcome("scan", th[t].result, th[t].op) = Called[t] /\ th[t].result \in BOOLEAN
    BY <1>1, OutcomeStays
  <2> QED BY <1>1, <1>3, <2>2, <2>3, QuietFollows
<1> QED BY <1>1, <1>2, <1>3

\* The collection of the retired nodes leaves the set alone.
LEMMA ScanFollows ==
    ASSUME SafeInv, SafeInv', SeeInv, Clean', NEW t \in Threads,
           Conflict(t) \/ NoConflict(t) \/ Free(t) \/ GcDone(t)
    PROVE  Follows
<1>1. CASE Conflict(t)
  <2>1. th[t].pc = "scan" /\ Moves(t, "scan", th[t].result) /\ SameMemory /\ seen' = seen
    BY <1>1, ConflictDoes, SoundFacts
  <2> QED BY <2>1, StillFollows
<1>2. CASE NoConflict(t)
  <2>1. th[t].pc = "scan" /\ Moves(t, "scan", th[t].result) /\ SameMemory /\ seen' = seen
    BY <1>2, NoConflictDoes, SoundFacts
  <2> QED BY <2>1, StillFollows
<1>3. CASE Free(t)
  <2> DEFINE p == retired[t][th[t].i]
  <2>1. /\ th[t].pc = "scan" /\ Moves(t, "scan", th[t].result) /\ seen' = seen
        /\ marked' = marked \ {p} /\ th[t].i \in 1 .. Len(retired[t])
    BY <1>3, FreeDoes, ScanRange, SoundFacts
  <2>2. Listed' = Listed /\ KeysKept
    BY <1>3, FreeKeeps, LockFreeListAssumption
  <2>3. p \notin Listed
    <3>1. p \in Retired
      BY <2>1, SoundFacts DEF Retired, Types
    <3> QED BY <3>1 DEF Listed
  <2>4. Present' = Present
    <3>1. Listed' \ marked' = Listed \ marked
      BY <2>1, <2>2, <2>3
    <3>2. \A n \in Listed \ marked : key'[n] = key[n]
      <4>1. \A n \in Listed : n \in Old /\ n \in Old'
        BY <2>2 DEF Listed
      <4> QED BY <2>2, <4>1 DEF KeysKept
    <3> QED BY <3>1, <3>2, PresentSame
  <2>5. Outcome("scan", th[t].result, th[t].op) = Called[t] /\ th[t].result \in BOOLEAN
    BY <2>1, OutcomeStays
  <2> QED BY <2>1, <2>2, <2>4, <2>5, QuietFollows
<1>4. CASE GcDone(t)
  <2>1. th[t].pc = "scan" /\ Moves(t, "clear", th[t].result) /\ SameMemory /\ seen' = seen
    BY <1>4, GcDoneDoes, SoundFacts
  <2>2. th[t].result /\ th[t].result \in BOOLEAN
    BY <2>1, SoundFacts, CallShape DEF Control
  <2>3. Outcome("clear", th[t].result, th[t].op) = "yes"
    BY <2>2, OutcomeIs
  <2>4. Called[t] = "yes"
    BY <2>2, CalledIs
  <2> QED BY <2>1, <2>2, <2>3, <2>4, SameMemoryIs, QuietFollows
<1> QED BY <1>1, <1>2, <1>3, <1>4

\* The call returns, and what it has seen is forgotten.
LEMMA ReturnFollows ==
    ASSUME SafeInv, SafeInv', SeeInv, NEW t \in Threads, Return(t)
    PROVE  Follows
<1>1. /\ th[t].pc = "clear" /\ \A u \in Threads \ {t} : th'[u] = th[u]
      /\ th' = [th EXCEPT ![t] = Idle] /\ seen' = [seen EXCEPT ![t] = {}] /\ marked' = marked
  BY SoundFacts, ReturnDoes
<1>2. Listed' = Listed /\ KeysKept
  BY ReturnKeeps, LockFreeListAssumption
<1>3. \A n \in Listed : key'[n] = key[n]
  BY <1>2 DEF KeysKept, Listed
<1>4. Present' = Present
  BY <1>1, <1>2, <1>3, PresentSame
<1>5. th'[t].pc = "idle" /\ th'[t].op = "none" /\ th'[t].key = 0 /\ ~th'[t].result
  <2>1. th'[t] = Idle
    BY <1>1, SoundFacts DEF Types
  <2> QED BY <2>1 DEF Idle
<1>6. Called[t] \in {"yes", "no"}
  BY <1>1, CalledIs, CallShape
<1>7. Called' = [Called EXCEPT ![t] = "none"] /\ Asked' = [Asked EXCEPT ![t] = 0]
  <2>1. \A u \in Threads \ {t} :
           Outcome(th'[u].pc, th'[u].result, th'[u].op) = Called[u] /\ th'[u].key = Asked[u]
    BY <1>1 DEF Called, Asked
  <2>2. Outcome(th'[t].pc, th'[t].result, th'[t].op) = "none"
    BY <1>5 DEF Outcome
  <2> QED BY <1>5, <2>1, <2>2 DEF Called, Asked
<1>8. Abstract!Next
  BY <1>1, <1>4, <1>6, <1>7, SetReturns
<1>9. seen'[t] = {} /\ \A u \in Threads \ {t} : seen'[u] = seen[u]
  BY <1>1, SoundFacts DEF Types
<1>10. ASSUME NEW u \in Threads \ {t} PROVE Seeing(u)'
  <2>1. Seeing(u)
    BY DEF SeeInv
  <2> QED BY <1>1, <1>2, <1>4, <1>9, <2>1, SeeingKept DEF Seeing
<1>11. Seeing(t)'
  BY <1>5, <1>9 DEF Seeing
<1> QED BY <1>8, <1>10, <1>11 DEF Follows, SeeInv

\* A call begins.
LEMMA BeginFollows ==
    ASSUME SafeInv, SafeInv', SeeInv, NEW t \in Threads, NEW op \in {"find", "add", "del"},
           NEW k \in Keys, NEW entry \in NodeOrNull, Begin(t, op, k, entry),
           Listed' = Listed, KeysKept
    PROVE  Follows
<1>1. /\ th[t].pc = "idle" /\ \A u \in Threads \ {t} : th'[u] = th[u]
      /\ th'[t].pc = "start" /\ th'[t].op = op /\ th'[t].key = k /\ ~th'[t].result
      /\ seen' = [seen EXCEPT ![t] = {(k \in Present)}] /\ marked' = marked
  BY BeginDoes, SoundFacts
<1>2. \A n \in Listed : key'[n] = key[n]
  BY DEF KeysKept, Listed
<1>3. Present' = Present
  BY <1>1, <1>2, PresentSame
<1>4. Called[t] = "none"
  BY <1>1, CalledIs, CallShape
<1>5. Called' = [Called EXCEPT ![t] = op] /\ Asked' = [Asked EXCEPT ![t] = k]
  <2>1. \A u \in Threads \ {t} :
           Outcome(th'[u].pc, th'[u].result, th'[u].op) = Called[u] /\ th'[u].key = Asked[u]
    BY <1>1 DEF Called, Asked
  <2>2. Outcome(th'[t].pc, th'[t].result, th'[t].op) = op
    BY <1>1 DEF Outcome
  <2> QED BY <1>1, <2>1, <2>2 DEF Called, Asked
<1>6. Abstract!Next
  BY <1>1, <1>3, <1>4, <1>5, SetBegins
<1> DEFINE truth == k \in Present
<1>7. seen'[t] = {truth} /\ \A u \in Threads \ {t} : seen'[u] = seen[u]
  <2>1. seen' = [seen EXCEPT ![t] = {truth}]
    BY <1>1
  <2> HIDE DEF truth
  <2> QED BY <2>1, SoundFacts DEF Types
<1>8. ASSUME NEW u \in Threads \ {t} PROVE Seeing(u)'
  <2>1. Seeing(u)
    BY DEF SeeInv
  <2>2. seen'[u] = seen[u]
    BY <1>7
  <2> QED BY <1>1, <1>3, <2>1, <2>2, SeeingKept DEF Seeing
<1>9. Truth(truth, seen'[t])
  <2>1. truth \in BOOLEAN
    OBVIOUS
  <2> HIDE DEF truth
  <2>2. Truth(truth, {} \union {truth})
    BY <2>1, TruthIn
  <2> QED BY <1>7, <2>2
<1>10. Seeing(t)'
  BY <1>1, <1>3, <1>9 DEF Seeing
<1> QED BY <1>6, <1>8, <1>10 DEF Follows, SeeInv

\* The three calls.
LEMMA CallFollows ==
    ASSUME SafeInv, SafeInv', SeeInv, NEW t \in Threads, NEW k \in Keys,
           CallFind(t, k) \/ CallAdd(t, k) \/ CallDel(t, k)
    PROVE  Follows
<1>1. ASSUME NEW op \in {"find", "del"}, Begin(t, op, k, Null), UNCHANGED <<key, alloc>>
      PROVE  Follows
  <2>1. /\ th[t].pc = "idle" /\ th'[t].op = op /\ retired' = retired
        /\ \A u \in Threads \ {t} : th'[u] = th[u]
    BY <1>1, BeginDoes, SoundFacts DEF NodeOrNull
  <2>2. CallsSame
    BY <2>1, SoundFacts DEF CallsSame, Entering, Adding, Control
  <2>3. Listed' = Listed /\ KeysKept
    <3>1. alloc' = alloc /\ key' = key /\ retired' = retired
      BY <1>1, <2>1
    <3> QED BY <2>2, <3>1, SetsSame DEF KeysKept
  <2> QED BY <1>1, <2>3, BeginFollows DEF NodeOrNull
<1>2. CASE CallAdd(t, k)
  <2>1. PICK entry \in Nodes \ alloc : Begin(t, "add", k, entry)
    BY <1>2 DEF CallAdd
  <2>2. Listed' = Listed /\ KeysKept
    BY <1>2, CallAddKeeps, LockFreeListAssumption
  <2> QED BY <2>1, <2>2, BeginFollows DEF NodeOrNull
<1> QED BY <1>1, <1>2 DEF CallFind, CallDel

\* A step in which no thread moves.
LEMMA RestingFollows ==
    ASSUME SafeInv, SafeInv', SeeInv, SameMemory, th' = th, seen' = seen
    PROVE  Follows
<1>1. Present' = Present /\ KeysKept
  BY SameMemoryIs
<1>2. ASSUME NEW u \in Threads PROVE Seeing(u)'
  <2>1. Seeing(u)
    BY DEF SeeInv
  <2> QED BY <1>1, <2>1, SeeingKept DEF Seeing
<1>3. Called' = Called /\ Asked' = Asked
  BY DEF Called, Asked
<1> QED BY <1>1, <1>2, <1>3 DEF Follows, SeeInv, SetSame

\* Every step of the list is a step of the set, or none.
LEMMA NextFollows ==
    ASSUME Clean', SafeInv, SafeInv', SeeInv, [Next]_vars
    PROVE  Follows
<1>1. CASE UNCHANGED vars
  BY <1>1, RestingFollows DEF vars, SameMemory
<1>2. ASSUME NEW t \in Threads, Call(t) PROVE Follows
  BY <1>2, CallFollows DEF Call
<1>3. ASSUME NEW t \in Threads, Step(t) PROVE Follows
  BY <1>3, FindFollows, CheckNextFollows, CompareFollows, AddLinkFollows, AddCASFollows,
     DelMarkFollows, DelUnlinkFollows, ScanFollows, ReturnFollows DEF Step
<1>4. ASSUME NEW t \in Threads, Flush(t) PROVE Follows
  BY <1>4, FlushDoes, SoundFacts, RestingFollows
<1> QED BY <1>1, <1>2, <1>3, <1>4 DEF Next

\* The list is empty.
LEMMA InitFollows ==
    ASSUME Init
    PROVE  SeeInv /\ Abstract!Init
<1>1. Present = {}
  <2>1. next[head] = Null
    BY DEF Init
  <2> QED BY <2>1, FromNull, LockFreeListAssumption DEF Present, Reachable
<1>2. \A t \in Threads : /\ th[t].pc = "idle" /\ th[t].op = "none" /\ th[t].key = 0
                         /\ ~th[t].result /\ seen[t] = {}
  BY DEF Init, Idle
<1>3. SeeInv
  BY <1>2 DEF SeeInv, Seeing
<1>4. \A t \in Threads : Outcome(th[t].pc, th[t].result, th[t].op) = "none"
  BY <1>2 DEF Outcome
<1>5. Called = [t \in Threads |-> "none"] /\ Asked = [t \in Threads |-> 0]
  BY <1>2, <1>4 DEF Called, Asked
<1>6. seen = [t \in Threads |-> {}]
  BY DEF Init
<1> QED BY <1>1, <1>3, <1>5, <1>6 DEF Abstract!Init, Called, Asked, Outcome, At

\* SetSame in the terms of KeySet.
LEMMA SetSameIs ==
    ASSUME SetSame
    PROVE  UNCHANGED Abstract!setVars
BY DEF SetSame, Abstract!setVars, Called, Asked, Outcome, At

\* ImplementsKeySet: std_lock_free_list_add, del and find are calls on one atomic
\* set of keys, as long as no load has overtaken a store of a hazard pointer and no
\* add has started over with a next in its entry.  An addition takes effect when its
\* CAS succeeds and a deletion when it sets the mark, both once and while the call is
\* under way; every other answer was the truth at a moment of the call that returns it.
THEOREM ListImplementsKeySet == SafeSpec => ImplementsKeySet
<1> DEFINE Fits == Clean => SafeInv /\ SeeInv
           Maps == Clean' => [Abstract!Next]_(Abstract!setVars)
<1>1. Init => Abstract!Init /\ Fits
  BY InitFollows, InitSafe, LockFreeListAssumption
<1>2. Fits /\ [Next]_vars => Fits' /\ Maps
  <2> SUFFICES ASSUME Fits, [Next]_vars, Clean'
               PROVE  SafeInv' /\ SeeInv' /\ [Abstract!Next]_(Abstract!setVars)
    OBVIOUS
  <2>1. SafeInv /\ SeeInv /\ SafeInv'
    BY CleanBefore, NextSafe
  <2>2. SeeInv' /\ (Abstract!Next \/ SetSame)
    BY <2>1, NextFollows DEF Follows
  <2> QED BY <2>1, <2>2, SetSameIs
<1>3. ImplementsKeySet <=> Abstract!Init /\ [][Maps]_vars
  BY DEF ImplementsKeySet
<1> HIDE DEF Fits, Maps
<1>4. Fits /\ [Next]_vars => [Maps]_vars /\ Fits'
  BY <1>2
<1> QED BY <1>1, <1>3, <1>4, PTL DEF SafeSpec
==============================================================================
