--------------------------- MODULE KeyHashProofs ---------------------------
(***************************************************************************)
(* The hash as an atomic map, for any threads, keys, values and nodes, as  *)
(* long as there never were two writers in a bucket at once.               *)
(*                                                                         *)
(* A find walks over nodes that are deleted while it stands on them, and   *)
(* goes on along the pointers they had when they left the list, which an   *)
(* add made since does not change.  What it answers was the truth all the  *)
(* same: every node it meets was in the list during the call (met), and    *)
(* unless the key was gone at some moment, the pointers lead on to its     *)
(* node (Leads).                                                           *)
(***************************************************************************)
EXTENDS KeyHash, FiniteSetTheorems, WellFoundedInduction, TLAPS

(* The call has not decided its answer yet, and none of its nodes has been *)
(* freed.                                                                  *)
Open(t) == call[t] # "none" /\ pc[t] \notin {"collect", "count", "return"} /\ t \notin robbed

Retired == UNION {retired[u] : u \in Threads}
Entries == {entry[u] : u \in Threads} \ {Null}

(* What a thread does where.                                               *)
PlaceFits(t) ==
    /\ call[t] = "none" <=> pc[t] = "idle"
    /\ call[t] # "none" => arg[t] \in Keys
    /\ call[t] = "add" => new[t] \in Values
    /\ pc[t] \in {"init", "initHead", "make", "insert", "store"} => call[t] = "add"
    /\ pc[t] \in {"read"} => call[t] = "find"
    /\ pc[t] \in {"ahead", "remove", "collect", "count"} => call[t] = "del"
    /\ pc[t] = "step" => call[t] # "del"
    /\ pc[t] # "idle" => ~destroyed
    /\ pc[t] \in {"init", "initHead"} => BucketAt(t) \notin ready
    /\ pc[t] \in {"empty", "first", "ahead", "compare", "step", "make", "insert"} =>
           BucketAt(t) \in ready
    /\ pc[t] = "insert" => /\ entry[t] \in Nodes
                           /\ key[entry[t]] = arg[t] /\ value[entry[t]] = new[t]
    /\ pc[t] # "insert" => entry[t] = Null
    /\ pc[t] \in {"compare", "step", "read"} => cur[t] \in Nodes
    /\ t \in robbed => call[t] = "find"

OneAtATime ==
    \A t, u \in Threads : t # u /\ Writing(t) /\ Writing(u) => BucketAt(t) # BucketAt(u)

(* Where the nodes are.                                                    *)
NodesFit ==
    /\ listed \intersect Retired = {} /\ Entries \intersect (listed \union Retired) = {}
    /\ \A t, u \in Threads : entry[t] = entry[u] /\ entry[t] # Null => t = u
    /\ \A n \in listed \union Retired : key[n] \in Keys /\ value[n] \in Values
    /\ \A m, n \in listed : key[m] = key[n] => m = n
    /\ \A n \in listed : BucketOf[key[n]] \in ready
    /\ \A t, u \in Threads : t # u => retired[t] \intersect retired[u] = {}

(* The pointers lead from x to the key of the call, unless it was gone.    *)
Leads(t, x) ==
    \/ Null \in seen[t]
    \/ \E S \in SUBSET met[t] :
           x \in S /\ \A n \in S : key[n] <= arg[t] /\ (n \in listed \/ left[n] \in S)

(* What a call has met,                                                    *)
MetFits(t) ==
    /\ InBucket(BucketAt(t)) \subseteq met[t] /\ met[t] \subseteq listed \union Retired
    /\ \A n \in met[t] :
           /\ BucketOf[key[n]] = BucketAt(t)
           /\ key[n] = arg[t] => value[n] \in seen[t]
           /\ n \notin listed => left[n] \in met[t] \union {Null}
    /\ Lookup(arg[t]) \in seen[t]
    /\ Writing(t) => met[t] \subseteq listed /\ seen[t] = {Lookup(arg[t])}

(* and where it stands.                                                    *)
WalkFits(t) ==
    /\ pc[t] \in {"ahead", "compare", "step", "read", "store", "remove"} => cur[t] \in met[t]
    /\ pc[t] \in {"ahead", "compare", "step"} => Leads(t, cur[t])
    /\ pc[t] = "step" => key[cur[t]] # arg[t]
    /\ pc[t] = "compare" /\ call[t] = "del" =>
           /\ pos[t] \in met[t] \union {Null}
           /\ key[cur[t]] # arg[t] => Leads(t, pos[t])
    /\ pc[t] \in {"read", "store", "remove"} => key[cur[t]] = arg[t]
    /\ pc[t] \in {"make", "insert"} => Null \in seen[t]

(* The inductive invariant.                                                *)
Inv ==
    /\ TypeOK /\ NoNodeLost /\ CountFits
    /\ \A t \in Threads : PlaceFits(t)
    /\ OneAtATime /\ NodesFit
    /\ \A t \in Threads : Open(t) => MetFits(t) /\ WalkFits(t)
-----------------------------------------------------------------------------
(* Lists.                                                                  *)

(* A set of numbers has a least one.                                       *)
LEMMA LeastKey ==
    ASSUME NEW S \in SUBSET Nat, S # {}
    PROVE  \E i \in S : \A k \in S : i <= k
  <1>1. PICK i \in S : \A k \in S : <<k, i>> \notin OpToRel(<, Nat)
    BY NatLessThanWellFounded, WFMin
  <1>2. \A k \in S : ~(k < i)
    BY <1>1 DEF OpToRel
  <1> QED BY <1>2

(* Behind finds the next node, if there is one.                            *)
LEMMA BehindFits ==
    ASSUME TypeOK, NodesFit, NEW b, NEW k
    PROVE  \/ Beyond(b, k) = {} /\ Behind(b, k) = Null
           \/ /\ Behind(b, k) \in Beyond(b, k)
              /\ \A m \in Beyond(b, k) : key[Behind(b, k)] <= key[m]
  <1> DEFINE B == Beyond(b, k)
             S == {key[n] : n \in B}
  <1>1. CASE B = {}
    BY <1>1 DEF Behind
  <1>2. CASE B # {}
    <2>1. S \in SUBSET Nat /\ S # {}
      <3>1. \A n \in B : key[n] \in Nat
        BY KeyHashAssumption DEF NodesFit, Beyond, InBucket
      <3> HIDE DEF B
      <3> QED BY <1>2, <3>1
    <2>2. PICK i \in S : \A j \in S : i <= j
      <3> HIDE DEF S
      <3> QED BY <2>1, LeastKey
    <2>3. \E n \in B : \A m \in B : key[n] <= key[m]
      BY <2>2
    <2>4. Behind(b, k) = CHOOSE n \in B : \A m \in B : key[n] <= key[m]
      BY <1>2 DEF Behind
    <2> HIDE DEF B, S
    <2>5. Behind(b, k) \in B /\ \A m \in B : key[Behind(b, k)] <= key[m]
      BY <2>3, <2>4
    <2> QED BY <2>5 DEF B
  <1> QED BY <1>1, <1>2

(* Lookup finds the value of a node in a list, if there is one.            *)
LookupOK ==
    /\ \A n \in listed : Lookup(key[n]) = value[n]
    /\ \A k : (\A n \in listed : key[n] # k) => Lookup(k) = Null
    /\ \A k : Lookup(k) \in Values \union {Null}
    /\ \A k : Lookup(k) # Null => \E n \in listed : key[n] = k

LEMMA LookupFits == NodesFit => LookupOK
  <1> SUFFICES ASSUME NodesFit PROVE LookupOK
    OBVIOUS
  <1>1. \A k : (\A n \in listed : key[n] # k) => Lookup(k) = Null
    BY DEF Lookup
  <1>2. ASSUME NEW n \in listed PROVE Lookup(key[n]) = value[n] /\ value[n] \in Values
    <2>1. \E m \in listed : key[m] = key[n]
      OBVIOUS
    <2>2. (CHOOSE m \in listed : key[m] = key[n]) = n
      BY <2>1 DEF NodesFit
    <2> QED BY <2>1, <2>2 DEF Lookup, NodesFit
  <1> QED BY <1>1, <1>2 DEF LookupOK

LEMMA LookupFitsNext == NodesFit' => LookupOK'
  BY LookupFits, PTL

-----------------------------------------------------------------------------
(* Walks.                                                                  *)

(* The walk is over: the key was not there.                                *)
LEMMA EndLeads ==
    ASSUME TypeOK, NEW t \in Threads, Leads(t, Null)
    PROVE  Null \in seen[t]
  BY KeyHashAssumption DEF Leads, TypeOK

(* A node behind the keys up to k leads to the key, if that is larger.     *)
LEMMA BehindLeads ==
    ASSUME TypeOK, NodesFit, NEW t \in Threads, call[t] # "none", arg[t] \in Keys, MetFits(t),
           NEW k \in Nat, k < arg[t]
    PROVE  /\ Behind(BucketAt(t), k) \in met[t] \union {Null}
           /\ Leads(t, Behind(BucketAt(t), k))
  <1> DEFINE x == Behind(BucketAt(t), k)
  <1>1. \/ Beyond(BucketAt(t), k) = {} /\ x = Null
        \/ x \in Beyond(BucketAt(t), k) /\ \A m \in Beyond(BucketAt(t), k) : key[x] <= key[m]
    BY BehindFits
  <1>2. x \in met[t] \union {Null}
    BY <1>1 DEF Beyond, MetFits
  <1>3. ASSUME Null \notin seen[t] PROVE Leads(t, x)
    <2>1. Lookup(arg[t]) # Null
      BY <1>3 DEF MetFits
    <2>2. PICK n \in listed : key[n] = arg[t]
      BY <2>1, LookupFits DEF LookupOK
    <2>3. n \in Beyond(BucketAt(t), k)
      BY <2>2 DEF Beyond, InBucket, BucketAt
    <2>4. x \in Beyond(BucketAt(t), k) /\ key[x] <= arg[t]
      BY <1>1, <2>2, <2>3
    <2>5. x \in listed /\ x \in met[t]
      BY <2>4 DEF Beyond, InBucket, MetFits
    <2>6. {x} \in SUBSET met[t] /\ x \in {x} /\ \A m \in {x} : key[m] <= arg[t] /\ m \in listed
      BY <2>4, <2>5
    <2> QED BY <2>6 DEF Leads
  <1>4. Null \in seen[t] => Leads(t, x)
    BY DEF Leads
  <1> QED BY <1>2, <1>3, <1>4

(* A step of the walk.                                                     *)
LEMMA StepLeads ==
    ASSUME TypeOK, NodesFit, NEW t \in Threads, call[t] # "none", arg[t] \in Keys, MetFits(t),
           NEW x \in met[t], Leads(t, x), key[x] # arg[t]
    PROVE  NextOf(x) \in met[t] \union {Null} /\ Leads(t, NextOf(x))
  <1>1. BucketOf[key[x]] = BucketAt(t) /\ x \in Nodes /\ key[x] \in Nat /\ arg[t] \in Nat
    BY KeyHashAssumption DEF MetFits, NodesFit, TypeOK
  <1>2. Null \in seen[t] => Leads(t, NextOf(x))
    BY DEF Leads
  <1>3. CASE x \in listed
    <2>1. NextOf(x) = Behind(BucketAt(t), key[x])
      BY <1>1, <1>3 DEF NextOf
    <2>2. CASE key[x] < arg[t]
      BY <1>1, <2>1, <2>2, BehindLeads
    <2>3. CASE ~(key[x] < arg[t])
      <3>1. Null \in seen[t]
        BY <1>1, <2>3 DEF Leads
      <3>2. NextOf(x) \in met[t] \union {Null}
        BY <2>1, BehindFits DEF Beyond, MetFits
      <3> QED BY <1>2, <3>1, <3>2
    <2> QED BY <2>2, <2>3
  <1>4. CASE x \notin listed
    <2>1. NextOf(x) = left[x] /\ left[x] \in met[t] \union {Null}
      BY <1>4 DEF NextOf, MetFits
    <2>2. Null \notin seen[t] => Leads(t, left[x])
      BY <1>4 DEF Leads
    <2> QED BY <1>2, <2>1, <2>2
  <1> QED BY <1>3, <1>4

(* What a node leads to stays, in the eyes of a call, as long as nodes     *)
(* only come to the lists.                                                 *)
LEMMA LeadsKept ==
    ASSUME NEW t \in Threads, NEW x, Leads(t, x), MetFits(t),
           arg'[t] = arg[t], seen[t] \subseteq seen'[t], met[t] \subseteq met'[t],
           \A n \in met[t] : key'[n] = key[n] /\ left'[n] = left[n] /\ (n \in listed => n \in listed')
    PROVE  Leads(t, x)'
  <1>1. CASE Null \in seen[t]
    BY <1>1 DEF Leads
  <1>2. CASE Null \notin seen[t]
    <2>1. PICK S \in SUBSET met[t] :
              x \in S /\ \A n \in S : key[n] <= arg[t] /\ (n \in listed \/ left[n] \in S)
      BY <1>2 DEF Leads
    <2>2. S \in SUBSET met'[t] /\ x \in S
          /\ \A n \in S : key'[n] <= arg'[t] /\ (n \in listed' \/ left'[n] \in S)
      BY <2>1
    <2> QED BY <2>2 DEF Leads
  <1> QED BY <1>1, <1>2

(* A call goes on when others move, and its own key and nodes are kept.    *)
LEMMA MetKept ==
    ASSUME NEW t \in Threads, MetFits(t), NodesFit',
           call'[t] = call[t], arg'[t] = arg[t],
           seen'[t] = seen[t] \union {Lookup(arg[t])'},
           met'[t] = met[t] \union InBucket(BucketAt(t))',
           met[t] \subseteq listed' \union Retired',
           \A n \in met[t] : /\ key'[n] = key[n]
                             /\ key[n] = arg[t] => value'[n] \in {value[n], Lookup(arg[t])'}
                             /\ n \notin listed' => left'[n] \in met[t] \union {Null},
           Writing(t) => /\ Lookup(arg[t])' = Lookup(arg[t])
                         /\ met[t] \subseteq listed'
    PROVE  MetFits(t)'
  <1>1. \A n \in listed' : key'[n] = arg[t] => value'[n] = Lookup(arg[t])'
    BY LookupFitsNext DEF LookupOK
  <1>2. BucketAt(t)' = BucketAt(t)
    BY DEF BucketAt
  <1>3. \A n \in InBucket(BucketAt(t))' : n \in listed' /\ BucketOf[key'[n]] = BucketAt(t)
    BY <1>2 DEF InBucket
  <1> QED BY <1>1, <1>2, <1>3 DEF MetFits, Writing

LEMMA WalkKept ==
    ASSUME NEW t \in Threads, MetFits(t), WalkFits(t),
           pc'[t] = pc[t], call'[t] = call[t], arg'[t] = arg[t], cur'[t] = cur[t], pos'[t] = pos[t],
           met[t] \subseteq met'[t], seen[t] \subseteq seen'[t],
           \A n \in met[t] : key'[n] = key[n],
           \A x : Leads(t, x) => Leads(t, x)'
    PROVE  WalkFits(t)'
  <1>1. \A x : Leads(t, x) => Null \in seen'[t] \/ \E S \in SUBSET met'[t] :
            x \in S /\ \A n \in S : key'[n] <= arg'[t] /\ (n \in listed' \/ left'[n] \in S)
    BY DEF Leads
  <1>2. /\ pc[t] \in {"ahead", "compare", "step"} => Leads(t, cur[t])'
        /\ pc[t] = "compare" /\ call[t] = "del" /\ key[cur[t]] # arg[t] => Leads(t, pos[t])'
    BY <1>1 DEF WalkFits, Leads
  <1>3. pc[t] \in {"ahead", "compare", "step", "read", "store", "remove"} => key'[cur[t]] = key[cur[t]]
    BY DEF WalkFits
  <1> QED BY <1>2, <1>3 DEF WalkFits

-----------------------------------------------------------------------------
(* Steps that change no list.                                              *)

(* Of a thread that has nothing to do with the step, nothing changes.      *)
Aside(u) ==
    /\ pc'[u] = pc[u] /\ call'[u] = call[u] /\ arg'[u] = arg[u] /\ new'[u] = new[u]
    /\ cur'[u] = cur[u] /\ pos'[u] = pos[u] /\ entry'[u] = entry[u]

(* Nothing changes in the lists,                                           *)
ListsStay == UNCHANGED <<listed, left, key, value, alloc, retired, destroyed>>

(* nor for a call that looks on.                                           *)
LEMMA LookOn ==
    ASSUME NEW u \in Threads, MetFits(u), ListsStay,
           call'[u] = call[u], arg'[u] = arg[u], seen'[u] = seen[u], met'[u] = met[u]
    PROVE  MetFits(u)' /\ \A x : Leads(u, x) => Leads(u, x)'
  <1>1. MetFits(u)'
    BY DEF MetFits, ListsStay, Writing, InBucket, BucketAt, Lookup, Retired
  <1>2. \A x : Leads(u, x) => Leads(u, x)'
    BY DEF Leads, ListsStay
  <1> QED BY <1>1, <1>2

(* How many calls are at a place is a matter of those who come and go.     *)
Inserting == {t \in Threads : At(t, "insert")}
Removing == {t \in Threads : pc[t] \in {"collect", "count"}}

LEMMA CountStays ==
    ASSUME CountFits, NEW t \in Threads, \A u \in Threads \ {t} : pc'[u] = pc[u],
           UNCHANGED <<listed, total_count, destroyed>>,
           pc[t] \notin {"insert", "collect", "count"}, pc'[t] \notin {"insert", "collect", "count"}
    PROVE  CountFits'
  <1>1. Inserting' = Inserting /\ Removing' = Removing
    BY DEF Inserting, Removing, At
  <1> QED BY <1>1 DEF CountFits, Inserting, Removing

LEMMA QuietStep ==
    ASSUME Inv, NEW t \in Threads, UNCHANGED <<listVars, arg, new, call, entry, seen, met, mishaps>>,
           \A u \in Threads \ {t} : Aside(u),
           pc' \in [Threads -> Places], hp' \in [Threads -> Nodes \union {Null}],
           cur' \in [Threads -> Nodes \union {Null}], pos' \in [Threads -> Nodes \union {Null}],
           pc[t] \notin {"idle", "insert", "collect", "count", "return"},
           pc'[t] \notin {"idle", "insert", "collect", "count"},
           PlaceFits(t)', Open(t)' => WalkFits(t)'
    PROVE  Inv'
  <1>1. TypeOK'
    BY DEF Inv, TypeOK, listVars, mishaps
  <1>2. NoNodeLost' /\ OneAtATime' /\ NodesFit'
    BY DEF Inv, NoNodeLost, OneAtATime, NodesFit, listVars, Retired, Entries, Writing, BucketAt
  <1>3. CountFits'
    BY CountStays DEF Inv, Aside, listVars
  <1>4. ASSUME NEW u \in Threads PROVE PlaceFits(u)'
    <2>1. CASE u = t
      BY <2>1
    <2>2. CASE u # t
      <3>1. PlaceFits(u) /\ Aside(u)
        BY <2>2 DEF Inv
      <3> QED BY <3>1 DEF PlaceFits, Aside, listVars, mishaps, BucketAt
    <2> QED BY <2>1, <2>2
  <1>5. ASSUME NEW u \in Threads, Open(u)' PROVE MetFits(u)' /\ WalkFits(u)'
    <2>1. Open(u) /\ ListsStay
      BY <1>5 DEF Open, Aside, listVars, mishaps, ListsStay
    <2>2. MetFits(u) /\ WalkFits(u)
      BY <2>1 DEF Inv
    <2>3. MetFits(u)' /\ \A x : Leads(u, x) => Leads(u, x)'
      BY <2>1, <2>2, LookOn
    <2>4. CASE u # t
      BY <2>1, <2>2, <2>3, <2>4, WalkKept DEF Aside, ListsStay
    <2> QED BY <1>5, <2>3, <2>4
  <1> QED BY <1>1, <1>2, <1>3, <1>4, <1>5 DEF Inv

(* What is known of a call that is under way.                              *)
LEMMA Known ==
    ASSUME Inv, NEW t \in Threads, Open(t)
    PROVE  /\ TypeOK /\ NodesFit /\ PlaceFits(t) /\ MetFits(t) /\ WalkFits(t)
           /\ call[t] # "none" /\ arg[t] \in Keys /\ arg[t] \in Nat /\ arg[t] > 0
  <1>1. call[t] # "none" /\ TypeOK /\ NodesFit /\ PlaceFits(t) /\ MetFits(t) /\ WalkFits(t)
    BY DEF Inv, Open
  <1>2. arg[t] \in Keys
    BY <1>1 DEF PlaceFits
  <1>3. arg[t] \in Nat /\ arg[t] # 0
    BY <1>2, KeyHashAssumption
  <1>4. arg[t] > 0
    BY <1>3
  <1> QED BY <1>1, <1>2, <1>3, <1>4

(* A bucket that is not used or is empty has no node for the key.          *)
LEMMA EmptyBucket ==
    ASSUME Inv, NEW t \in Threads, Open(t), InBucket(BucketAt(t)) = {}
    PROVE  Null \in seen[t]
  <1>1. \A n \in listed : key[n] # arg[t]
    BY DEF InBucket, BucketAt
  <1> QED BY <1>1, Known, LookupFits DEF LookupOK, MetFits

LEMMA UnusedBucket ==
    ASSUME Inv, NEW t \in Threads, BucketAt(t) \notin ready
    PROVE  InBucket(BucketAt(t)) = {}
  BY DEF Inv, NodesFit, InBucket

(* The call learns that the key is not there.                              *)
LEMMA NotThereStep ==
    ASSUME Inv, NEW t \in Threads, pc[t] \in {"test", "empty", "first", "step"}, NotThere(t),
           BucketAt(t) \in ready \/ call[t] # "add",
           UNCHANGED <<listVars, arg, new, call, pos, entry, seen, met, mishaps>>,
           cur' \in [Threads -> Nodes \union {Null}], \A u \in Threads \ {t} : cur'[u] = cur[u],
           t \in robbed \/ Null \in seen[t]
    PROVE  Inv'
  <1>1. call[t] # "none"
    BY DEF Inv, PlaceFits
  <1>2. TypeOK /\ PlaceFits(t)
    BY DEF Inv
  <1>3. /\ pc' \in [Threads -> Places] /\ hp' \in [Threads -> Nodes \union {Null}]
        /\ \A u \in Threads \ {t} : pc'[u] = pc[u]
        /\ pc'[t] \in {"make", "return"} /\ (pc'[t] = "make" => call[t] = "add")
    BY <1>2 DEF NotThere, Goto, Finish, Clear, TypeOK, Places
  <1>4. PlaceFits(t)'
    BY <1>1, <1>2, <1>3 DEF PlaceFits, listVars, mishaps, BucketAt
  <1>5. Open(t)' => WalkFits(t)'
    BY <1>3 DEF WalkFits, Open, mishaps
  <1> QED BY <1>2, <1>3, <1>4, <1>5, QuietStep DEF Aside, TypeOK

(* The call goes on to the node n, or finds the end of the list.           *)
LEMMA GoOnStep ==
    ASSUME Inv, NEW t \in Threads, pc[t] \in {"first", "step"}, NEW n \in Nodes \union {Null},
           GoOn(t, n), t \in robbed \/ (n \in met[t] \union {Null} /\ Leads(t, n)),
           UNCHANGED <<listVars, arg, new, call, pos, entry, seen, met, mishaps>>
    PROVE  Inv'
  <1>1. call[t] # "none"
    BY DEF Inv, PlaceFits
  <1>2. TypeOK /\ PlaceFits(t)
    BY DEF Inv
  <1>3. cur' \in [Threads -> Nodes \union {Null}] /\ cur'[t] = n /\ \A u \in Threads \ {t} : cur'[u] = cur[u]
    BY <1>2 DEF GoOn, TypeOK
  <1>4. CASE n = Null
    BY <1>1, <1>2, <1>3, <1>4, EndLeads, NotThereStep DEF GoOn, PlaceFits
  <1>5. CASE n # Null
    <2>1. /\ pc' \in [Threads -> Places] /\ hp' = hp /\ \A u \in Threads \ {t} : pc'[u] = pc[u]
          /\ pc'[t] = IF call[t] = "del" THEN "ahead" ELSE "compare"
      BY <1>2, <1>5 DEF GoOn, Goto, TypeOK, Places
    <2>2. PlaceFits(t)'
      BY <1>1, <1>2, <1>3, <1>5, <2>1 DEF PlaceFits, listVars, mishaps, BucketAt
    <2>3. t \notin robbed => Leads(t, cur[t])'
      BY <1>3 DEF Leads, listVars
    <2>4. Open(t)' => WalkFits(t)'
      BY <1>3, <1>5, <2>1, <2>3 DEF WalkFits, Open, mishaps
    <2> QED BY <1>2, <1>3, <2>1, <2>2, <2>4, QuietStep DEF Aside, TypeOK
  <1> QED BY <1>4, <1>5

LEMMA TestHeadKeeps == ASSUME Inv, NEW t \in Threads, TestHead(t) PROVE Inv'
  <1>1. call[t] # "none" /\ pc[t] = "test" /\ TypeOK /\ PlaceFits(t) /\ (t \in robbed \/ Open(t))
    BY DEF Inv, PlaceFits, Open, TestHead, At
  <1>2. CASE NotThere(t) /\ BucketAt(t) \notin ready /\ call[t] # "add"
    <2>1. t \in robbed \/ Null \in seen[t]
      BY <1>1, <1>2, EmptyBucket, UnusedBucket
    <2> QED BY <1>1, <1>2, <2>1, NotThereStep DEF TestHead, localVars, TypeOK
  <1>3. CASE ~(NotThere(t) /\ BucketAt(t) \notin ready /\ call[t] # "add")
    <2>1. /\ pc' \in [Threads -> Places] /\ hp' = hp /\ \A u \in Threads \ {t} : pc'[u] = pc[u]
          /\ \/ pc'[t] = "empty" /\ BucketAt(t) \in ready
             \/ pc'[t] = "init" /\ call[t] = "add" /\ BucketAt(t) \notin ready
      BY <1>1, <1>3 DEF TestHead, Goto, TypeOK, Places
    <2>2. PlaceFits(t)'
      BY <1>1, <2>1 DEF PlaceFits, TestHead, listVars, localVars, mishaps, BucketAt
    <2>3. WalkFits(t)'
      BY <2>1 DEF WalkFits
    <2> QED BY <1>1, <2>1, <2>2, <2>3, QuietStep DEF Aside, TestHead, localVars, TypeOK
  <1> QED BY <1>2, <1>3

LEMMA IsEmptyKeeps == ASSUME Inv, NEW t \in Threads, IsEmpty(t) PROVE Inv'
  <1>1. call[t] # "none" /\ pc[t] = "empty" /\ TypeOK /\ PlaceFits(t) /\ (t \in robbed \/ Open(t))
    BY DEF Inv, PlaceFits, Open, IsEmpty, At
  <1>2. CASE InBucket(BucketAt(t)) = {}
    <2>1. t \in robbed \/ Null \in seen[t]
      BY <1>1, <1>2, EmptyBucket
    <2> QED BY <1>1, <1>2, <2>1, NotThereStep DEF IsEmpty, localVars, TypeOK, PlaceFits
  <1>3. CASE InBucket(BucketAt(t)) # {}
    <2>1. /\ pc' \in [Threads -> Places] /\ hp' = hp /\ \A u \in Threads \ {t} : pc'[u] = pc[u]
          /\ pc'[t] = "first"
      BY <1>1, <1>3 DEF IsEmpty, Goto, TypeOK, Places
    <2>2. PlaceFits(t)' /\ WalkFits(t)'
      BY <1>1, <2>1 DEF PlaceFits, WalkFits, IsEmpty, listVars, localVars, mishaps, BucketAt
    <2> QED BY <1>1, <2>1, <2>2, QuietStep DEF Aside, IsEmpty, localVars, TypeOK
  <1> QED BY <1>2, <1>3

LEMMA FirstKeeps == ASSUME Inv, NEW t \in Threads, First(t) PROVE Inv'
  <1> DEFINE n == Behind(BucketAt(t), 0)
  <1>1. pc[t] = "first" /\ TypeOK /\ NodesFit /\ (t \in robbed \/ Open(t))
    BY DEF Inv, PlaceFits, Open, First, At
  <1>2. n \in Nodes \union {Null}
    BY <1>1, BehindFits DEF Beyond, InBucket, TypeOK
  <1>3. t \in robbed \/ (n \in met[t] \union {Null} /\ Leads(t, n))
    BY <1>1, Known, BehindLeads
  <1> QED BY <1>1, <1>2, <1>3, GoOnStep DEF First

LEMMA StepKeeps == ASSUME Inv, NEW t \in Threads, Step(t) PROVE Inv'
  <1> DEFINE n == NextOf(cur[t])
  <1>1. /\ pc[t] = "step" /\ TypeOK /\ NodesFit /\ (t \in robbed \/ Open(t)) /\ cur[t] \in Nodes
    BY DEF Inv, PlaceFits, Open, Step, At
  <1>2. n \in Nodes \union {Null}
    BY <1>1, BehindFits DEF NextOf, Beyond, InBucket, TypeOK
  <1>3. t \in robbed \/ (n \in met[t] \union {Null} /\ Leads(t, n))
    <2>1. CASE t \in robbed
      BY <2>1
    <2>2. CASE Open(t)
      <3>1. cur[t] \in met[t] /\ Leads(t, cur[t]) /\ key[cur[t]] # arg[t]
        BY <1>1, <2>2, Known DEF WalkFits
      <3> QED BY <2>2, <3>1, Known, StepLeads
    <2> QED BY <1>1, <2>1, <2>2
  <1> QED BY <1>1, <1>2, <1>3, GoOnStep DEF Step

LEMMA ReadAheadKeeps == ASSUME Inv, NEW t \in Threads, ReadAhead(t) PROVE Inv'
  <1>1. Open(t) /\ pc[t] = "ahead"
    BY DEF Inv, PlaceFits, Open, ReadAhead, At
  <1>2. /\ TypeOK /\ PlaceFits(t) /\ MetFits(t) /\ cur[t] \in met[t] /\ cur[t] \in Nodes
        /\ Leads(t, cur[t])
    BY <1>1, Known DEF WalkFits, TypeOK
  <1>3. /\ pc' \in [Threads -> Places] /\ hp' = hp /\ \A u \in Threads \ {t} : pc'[u] = pc[u]
        /\ pc'[t] = "compare" /\ pos'[t] = NextOf(cur[t])
    BY <1>2 DEF ReadAhead, Goto, TypeOK, Places
  <1>4. key[cur[t]] # arg[t] => NextOf(cur[t]) \in met[t] \union {Null} /\ Leads(t, NextOf(cur[t]))
    BY <1>1, <1>2, Known, StepLeads
  <1>5. NextOf(cur[t]) \in met[t] \union {Null}
    <2>1. CASE cur[t] \in listed
      BY <1>1, <1>2, <2>1, Known, BehindFits DEF NextOf, MetFits, Beyond
    <2>2. CASE cur[t] \notin listed
      BY <1>2, <2>2 DEF NextOf, MetFits
    <2> QED BY <2>1, <2>2
  <1>6. pos' \in [Threads -> Nodes \union {Null}] /\ \A u \in Threads \ {t} : pos'[u] = pos[u]
    BY <1>2, <1>5 DEF ReadAhead, TypeOK
  <1>7. PlaceFits(t)'
    BY <1>1, <1>2, <1>3 DEF PlaceFits, ReadAhead, listVars, mishaps, BucketAt
  <1>8. \A x : Leads(t, x) => Leads(t, x)'
    BY DEF Leads, ReadAhead, listVars
  <1>9. WalkFits(t)'
    <2>1. Leads(t, cur[t])' /\ (key[cur[t]] # arg[t] => Leads(t, pos[t])')
      BY <1>2, <1>3, <1>4 DEF Leads, ReadAhead, listVars
    <2> QED BY <1>2, <1>3, <1>5, <2>1 DEF WalkFits, ReadAhead, listVars
  <1> QED BY <1>1, <1>2, <1>3, <1>6, <1>7, <1>9, QuietStep DEF Aside, ReadAhead, TypeOK

LEMMA MatchKeeps == ASSUME Inv, NEW t \in Threads, Match(t) PROVE Inv'
  <1>1. /\ call[t] # "none" /\ pc[t] = "compare" /\ TypeOK /\ PlaceFits(t) /\ cur[t] \in Nodes
        /\ call[t] \in {"add", "find", "del"}
    BY DEF Inv, PlaceFits, Match, At, TypeOK
  <1>2. t \notin robbed => cur[t] \in met[t]
    BY <1>1, Known DEF Open, WalkFits
  <1>3. /\ pc'[t] = AtMatch(call[t]) /\ \A u \in Threads \ {t} : pc'[u] = pc[u]
        /\ hp' \in [Threads -> Nodes \union {Null}]
    BY <1>1 DEF Match, Goto, TypeOK
  <1>4. /\ AtMatch("add") = "store" /\ AtMatch("find") = "read" /\ AtMatch("del") = "remove"
    BY DEF AtMatch
  <1>5. pc' \in [Threads -> Places] /\ pc'[t] \in {"store", "read", "remove"}
    BY <1>1, <1>3, <1>4 DEF Match, Goto, TypeOK, Places
  <1>6. PlaceFits(t)'
    BY <1>1, <1>3, <1>4 DEF PlaceFits, Match, listVars, localVars, mishaps
  <1>7. Open(t)' => WalkFits(t)'
    BY <1>2, <1>5 DEF WalkFits, Match, Open, listVars, localVars, mishaps
  <1> QED BY <1>1, <1>3, <1>5, <1>6, <1>7, QuietStep DEF Aside, Match, localVars, TypeOK

LEMMA DifferKeeps == ASSUME Inv, NEW t \in Threads, Differ(t) PROVE Inv'
  <1>1. call[t] # "none" /\ pc[t] = "compare" /\ TypeOK /\ PlaceFits(t) /\ cur[t] \in Nodes
    BY DEF Inv, PlaceFits, Differ, At
  <1>2. t \notin robbed => cur[t] \in met[t] /\ Leads(t, cur[t])
    BY <1>1, Known DEF Open, WalkFits
  <1>3. /\ pc' \in [Threads -> Places] /\ pc'[t] = "step" /\ \A u \in Threads \ {t} : pc'[u] = pc[u]
        /\ hp' \in [Threads -> Nodes \union {Null}]
    BY <1>1 DEF Differ, Goto, TypeOK, Places
  <1>4. PlaceFits(t)'
    BY <1>1, <1>3 DEF PlaceFits, Differ, listVars, localVars, mishaps, BucketAt
  <1>5. t \notin robbed => Leads(t, cur[t])'
    BY <1>2 DEF Leads, Differ, listVars, localVars
  <1>6. Open(t)' => WalkFits(t)'
    BY <1>2, <1>3, <1>5 DEF WalkFits, Differ, Open, listVars, localVars, mishaps
  <1> QED BY <1>1, <1>3, <1>4, <1>6, QuietStep DEF Aside, Differ, localVars, TypeOK

LEMMA DifferAheadKeeps == ASSUME Inv, NEW t \in Threads, DifferAhead(t) PROVE Inv'
  <1>1. Open(t) /\ pc[t] = "compare" /\ call[t] = "del" /\ key[cur[t]] # arg[t]
    BY DEF Inv, PlaceFits, Open, DifferAhead, At
  <1>2. /\ TypeOK /\ PlaceFits(t) /\ cur[t] \in met[t] /\ cur[t] \in Nodes
        /\ pos[t] \in met[t] \union {Null} /\ Leads(t, pos[t])
    BY <1>1, Known DEF WalkFits, TypeOK
  <1>3. /\ pc' \in [Threads -> Places] /\ \A u \in Threads \ {t} : pc'[u] = pc[u]
        /\ pc'[t] = IF pos[t] = Null THEN "return" ELSE "ahead"
        /\ hp' \in [Threads -> Nodes \union {Null}]
        /\ cur' \in [Threads -> Nodes \union {Null}] /\ cur'[t] = pos[t]
        /\ \A u \in Threads \ {t} : cur'[u] = cur[u]
    BY <1>2 DEF DifferAhead, Goto, Finish, Clear, TypeOK, Places
  <1>4. PlaceFits(t)'
    BY <1>1, <1>2, <1>3 DEF PlaceFits, DifferAhead, listVars, mishaps, BucketAt
  <1>5. Leads(t, cur[t])'
    BY <1>2, <1>3 DEF Leads, DifferAhead, listVars
  <1>6. WalkFits(t)'
    BY <1>2, <1>3, <1>5 DEF WalkFits, DifferAhead, listVars
  <1> QED BY <1>1, <1>2, <1>3, <1>4, <1>6, QuietStep DEF Aside, DifferAhead, TypeOK

LEMMA ReadValueKeeps == ASSUME Inv, NEW t \in Threads, ReadValue(t) PROVE Inv'
  <1>1. call[t] # "none" /\ pc[t] = "read" /\ TypeOK /\ PlaceFits(t)
    BY DEF Inv, PlaceFits, ReadValue, At
  <1>2. /\ pc' \in [Threads -> Places] /\ pc'[t] = "return" /\ \A u \in Threads \ {t} : pc'[u] = pc[u]
        /\ hp' \in [Threads -> Nodes \union {Null}]
    BY <1>1 DEF ReadValue, Finish, Clear, Goto, TypeOK, Places
  <1>3. PlaceFits(t)' /\ WalkFits(t)'
    BY <1>1, <1>2 DEF PlaceFits, WalkFits, ReadValue, listVars, localVars, mishaps
  <1> QED BY <1>1, <1>2, <1>3, QuietStep DEF Aside, ReadValue, localVars, TypeOK

-----------------------------------------------------------------------------
(* Steps that begin and end a call.                                        *)

LEMMA Finite ==
    ASSUME TypeOK
    PROVE  /\ IsFiniteSet(listed) /\ Cardinality(listed) \in Nat
           /\ IsFiniteSet(Inserting) /\ Cardinality(Inserting) \in Nat
           /\ IsFiniteSet(Removing) /\ Cardinality(Removing) \in Nat
  <1>1. listed \in SUBSET Nodes /\ Inserting \in SUBSET Threads /\ Removing \in SUBSET Threads
    BY DEF TypeOK, Inserting, Removing
  <1>2. IsFiniteSet(listed) /\ IsFiniteSet(Inserting) /\ IsFiniteSet(Removing)
    BY <1>1, FS_Subset, KeyHashAssumption
  <1> QED BY <1>2, FS_CardinalityType

(* The places of the others stay.                                          *)
LEMMA OthersPlace ==
    ASSUME Inv, NEW u \in Threads, Aside(u), destroyed' = destroyed \/ pc[u] = "idle",
           u \in robbed' => u \in robbed \/ call[u] = "find",
           ready \subseteq ready' \/ pc[u] = "idle",
           Writing(u) /\ BucketAt(u) \notin ready => BucketAt(u) \notin ready',
           pc[u] = "insert" => key'[entry[u]] = key[entry[u]] /\ value'[entry[u]] = value[entry[u]]
    PROVE  PlaceFits(u)'
  BY DEF Inv, PlaceFits, Aside, BucketAt, Writing

(* In a step that changes no list, other calls go on as they were.         *)
LEMMA OthersWalk ==
    ASSUME Inv, NEW u \in Threads, Aside(u), ListsStay, Open(u),
           seen'[u] = seen[u], met'[u] = met[u]
    PROVE  MetFits(u)' /\ WalkFits(u)'
  <1>1. MetFits(u) /\ WalkFits(u)
    BY Known
  <1>2. MetFits(u)' /\ \A x : Leads(u, x) => Leads(u, x)'
    BY <1>1, LookOn DEF Aside
  <1> QED BY <1>1, <1>2, WalkKept DEF Aside, ListsStay

LEMMA BeginKeeps ==
    ASSUME ~twoWriters', Inv, NEW t \in Threads, NEW op \in {"add", "find", "del"}, NEW k \in Keys,
           NEW v \in Values \union {Null}, op = "add" => v \in Values, Begin(t, op, k, v)
    PROVE  Inv'
  <1>0. robbed' = robbed /\ twoWriters' \in BOOLEAN
    BY DEF Begin, SecondWriter
  <1>1. TypeOK /\ NodesFit /\ PlaceFits(t) /\ LookupOK /\ pc[t] = "idle" /\ call[t] = "none"
    BY <1>0, LookupFits DEF Inv, PlaceFits, Begin, At
  <1>2. ListsStay
    BY DEF ListsStay, Begin, listVars
  <1>3. /\ pc' \in [Threads -> Places] /\ pc'[t] = "test"
        /\ call' \in [Threads -> {"none", "add", "find", "del"}] /\ call'[t] = op
        /\ arg' \in [Threads -> Keys \union {Null}] /\ arg'[t] = k
        /\ new' \in [Threads -> Values \union {Null}] /\ new'[t] = v
        /\ seen' \in [Threads -> SUBSET (Values \union {Null})] /\ seen'[t] = {Lookup(k)}
        /\ met' \in [Threads -> SUBSET Nodes] /\ met'[t] = InBucket(BucketOf[k])
        /\ \A u \in Threads \ {t} : Aside(u) /\ seen'[u] = seen[u] /\ met'[u] = met[u]
    BY <1>0, <1>1 DEF Begin, Goto, TypeOK, Places, Aside, LookupOK, InBucket
  <1>4. TypeOK'
    BY <1>0, <1>1, <1>3 DEF TypeOK, Begin, listVars
  <1>5. NoNodeLost' /\ CountFits'
    <2>1. NoNodeLost'
      BY <1>2 DEF Inv, NoNodeLost, ListsStay, Begin
    <2> QED BY <1>1, <1>3, <2>1, CountStays DEF Inv, Aside, Begin, listVars
  <1>6. OneAtATime'
    <2>1. op # "find" => \A u \in Threads : Writing(u) => BucketAt(u) # BucketOf[k]
      BY DEF Begin, SecondWriter
    <2>2. \A u \in Threads \ {t} : Writing(u)' = Writing(u) /\ BucketAt(u)' = BucketAt(u)
      BY <1>3 DEF Aside, Writing, BucketAt
    <2>3. Writing(t)' => op # "find" /\ BucketAt(t)' = BucketOf[k]
      BY <1>3 DEF Writing, BucketAt
    <2> QED BY <2>1, <2>2, <2>3 DEF Inv, OneAtATime
  <1>7. NodesFit'
    <2>1. Retired' = Retired /\ Entries' = Entries
      BY <1>2 DEF Retired, Entries, ListsStay, Begin
    <2> QED BY <1>1, <1>2, <2>1 DEF NodesFit, ListsStay, Begin, listVars
  <1>8. ASSUME NEW u \in Threads PROVE PlaceFits(u)'
    <2>1. CASE u = t
      BY <1>0, <1>1, <1>3, <2>1 DEF PlaceFits, Begin, listVars
    <2>2. CASE u # t
      BY <1>0, <1>2, <1>3, <2>2, OthersPlace DEF ListsStay, Begin, listVars
    <2> QED BY <2>1, <2>2
  <1>9. ASSUME NEW u \in Threads, Open(u)' PROVE MetFits(u)' /\ WalkFits(u)'
    <2>1. CASE u = t
      <3>1. InBucket(BucketAt(t))' = InBucket(BucketOf[k]) /\ Lookup(arg[t])' = Lookup(k)
        BY <1>2, <1>3 DEF InBucket, BucketAt, Lookup, ListsStay
      <3>2. \A n \in InBucket(BucketOf[k]) :
                n \in listed /\ BucketOf[key[n]] = BucketOf[k] /\ (key[n] = k => value[n] = Lookup(k))
        BY <1>1 DEF InBucket, LookupOK
      <3>3. MetFits(t)'
        BY <1>2, <1>3, <3>1, <3>2 DEF MetFits, ListsStay, BucketAt
      <3>4. WalkFits(t)'
        BY <1>3 DEF WalkFits
      <3> QED BY <2>1, <3>3, <3>4
    <2>2. CASE u # t
      BY <1>0, <1>2, <1>3, <1>9, <2>2, OthersWalk DEF Aside, Open
    <2> QED BY <2>1, <2>2
  <1> QED BY <1>4, <1>5, <1>6, <1>7, <1>8, <1>9 DEF Inv

(* A call that has its answer ends.                                        *)
LEMMA ReturnKeeps == ASSUME Inv, NEW t \in Threads, Return(t) PROVE Inv'
  <1>0. robbed' = robbed \ {t} /\ twoWriters' = twoWriters
    BY DEF Return
  <1>1. TypeOK /\ NodesFit /\ PlaceFits(t) /\ pc[t] = "return"
    BY DEF Inv, Return, At
  <1>2. ListsStay
    BY DEF ListsStay, Return, listVars
  <1>3. /\ pc' \in [Threads -> Places] /\ pc'[t] = "idle" /\ call'[t] = "none"
        /\ \A u \in Threads \ {t} : Aside(u) /\ seen'[u] = seen[u] /\ met'[u] = met[u]
    BY <1>0, <1>1 DEF Return, Goto, TypeOK, Places, Aside
  <1>4. TypeOK'
    BY <1>0, <1>1, <1>3 DEF TypeOK, Return, listVars
  <1>5. NoNodeLost' /\ CountFits'
    <2>1. NoNodeLost'
      BY <1>2 DEF Inv, NoNodeLost, ListsStay, Return
    <2> QED BY <1>1, <1>3, <2>1, CountStays DEF Inv, Aside, Return, listVars
  <1>6. OneAtATime'
    BY <1>3 DEF Inv, OneAtATime, Writing, Aside, BucketAt
  <1>7. NodesFit'
    <2>1. Retired' = Retired /\ Entries' = Entries
      BY <1>2 DEF Retired, Entries, ListsStay, Return
    <2> QED BY <1>1, <1>2, <2>1 DEF NodesFit, ListsStay, Return, listVars
  <1>8. ASSUME NEW u \in Threads PROVE PlaceFits(u)'
    <2>1. CASE u = t
      BY <1>0, <1>1, <1>2, <1>3, <2>1 DEF PlaceFits, Return, ListsStay
    <2>2. CASE u # t
      BY <1>0, <1>2, <1>3, <2>2, OthersPlace DEF ListsStay, Return, listVars
    <2> QED BY <2>1, <2>2
  <1>9. ASSUME NEW u \in Threads, Open(u)' PROVE MetFits(u)' /\ WalkFits(u)'
    BY <1>0, <1>2, <1>3, <1>9, OthersWalk DEF Aside, Open
  <1> QED BY <1>4, <1>5, <1>6, <1>7, <1>8, <1>9 DEF Inv

(* ATOMIC_DEC of total_count: it was counted.                              *)
LEMMA CountDownKeeps == ASSUME Inv, NEW t \in Threads, CountDown(t) PROVE Inv'
  <1>0. robbed' = robbed /\ twoWriters' = twoWriters
    BY DEF CountDown, mishaps
  <1>1. TypeOK /\ NodesFit /\ PlaceFits(t) /\ CountFits /\ pc[t] = "count"
    BY DEF Inv, CountDown, At
  <1>2. ListsStay
    BY DEF ListsStay, CountDown
  <1>3. /\ pc' \in [Threads -> Places] /\ pc'[t] = "return" /\ hp' \in [Threads -> Nodes \union {Null}]
        /\ \A u \in Threads \ {t} : Aside(u) /\ seen'[u] = seen[u] /\ met'[u] = met[u]
    BY <1>0, <1>1 DEF CountDown, Goto, Clear, TypeOK, Places, Aside, localVars
  <1>4. Inserting' = Inserting /\ Removing' = Removing \ {t} /\ t \in Removing
    BY <1>1, <1>3 DEF Inserting, Removing, At, Aside
  <1>5. /\ Cardinality(Removing') = Cardinality(Removing) - 1
        /\ Cardinality(listed) \in Nat /\ Cardinality(Inserting) \in Nat
        /\ Cardinality(Removing) \in Nat /\ Cardinality(Removing') \in Nat
    BY <1>1, <1>4, Finite, FS_RemoveElement, FS_CardinalityType
  <1>6. total_count = Cardinality(listed) + Cardinality(Inserting) + Cardinality(Removing)
    BY <1>0, <1>1 DEF CountFits, Inserting, Removing, PlaceFits
  <1>7. total_count' = total_count - 1
    BY DEF CountDown
  <1>8. total_count' \in Nat /\ CountFits'
    <2>1. total_count' = Cardinality(listed) + Cardinality(Inserting') + Cardinality(Removing')
          /\ total_count' \in Nat
      BY <1>4, <1>5, <1>6, <1>7
    <2> QED BY <1>2, <2>1 DEF CountFits, Inserting, Removing, ListsStay
  <1>9. TypeOK'
    BY <1>0, <1>1, <1>3, <1>8 DEF TypeOK, CountDown, localVars
  <1>10. NoNodeLost' /\ OneAtATime' /\ NodesFit'
    BY DEF Inv, NoNodeLost, OneAtATime, NodesFit, CountDown, localVars, Retired, Entries, Writing, BucketAt
  <1>11. ASSUME NEW u \in Threads PROVE PlaceFits(u)'
    <2>1. CASE u = t
      BY <1>0, <1>1, <1>3, <2>1 DEF PlaceFits, CountDown, localVars
    <2>2. CASE u # t
      BY <1>0, <1>2, <1>3, <2>2, OthersPlace DEF ListsStay, CountDown
    <2> QED BY <2>1, <2>2
  <1>12. ASSUME NEW u \in Threads, Open(u)' PROVE MetFits(u)' /\ WalkFits(u)'
    BY <1>0, <1>2, <1>3, <1>12, OthersWalk DEF Aside, Open
  <1> QED BY <1>8, <1>9, <1>10, <1>11, <1>12 DEF Inv

-----------------------------------------------------------------------------
(* Steps that change the lists.                                            *)

(* Who stands at a place of an add or a del that changes something.        *)
LEMMA WriterAt ==
    ASSUME Inv, NEW t \in Threads,
           pc[t] \in {"init", "initHead", "store", "remove", "collect", "make", "insert"}
    PROVE  /\ TypeOK /\ NodesFit /\ LookupOK /\ PlaceFits(t) /\ ~destroyed
           /\ Writing(t) /\ arg[t] \in Keys /\ BucketAt(t) \in Buckets
           /\ \A u \in Threads \ {t} : Writing(u) => BucketAt(u) # BucketAt(t)
  <1>1. TypeOK /\ NodesFit /\ LookupOK /\ PlaceFits(t)
    BY LookupFits DEF Inv
  <1>2. Writing(t) /\ ~destroyed /\ arg[t] \in Keys
    BY <1>1 DEF PlaceFits, Writing
  <1>3. BucketAt(t) \in Buckets
    BY <1>2, KeyHashAssumption DEF BucketAt
  <1> QED BY <1>1, <1>2, <1>3 DEF Inv, OneAtATime

(* What Watch adds.                                                        *)
LEMMA WatchFits ==
    ASSUME Inv, Watch, call' = call, arg' = arg, NodesFit', listed' \subseteq Nodes
    PROVE  /\ seen' \in [Threads -> SUBSET (Values \union {Null})]
           /\ met' \in [Threads -> SUBSET Nodes]
           /\ \A u \in Threads : call[u] # "none" =>
                  /\ seen'[u] = seen[u] \union {Lookup(arg[u])'}
                  /\ met'[u] = met[u] \union InBucket(BucketAt(u))'
  <1>1. \A k : Lookup(k)' \in Values \union {Null}
    BY LookupFitsNext DEF LookupOK
  <1>2. \A u \in Threads : Lookup(arg[u])' \in Values \union {Null} /\ InBucket(BucketAt(u))' \subseteq Nodes
    <2>1. \A u \in Threads : Lookup(arg[u])' \in Values \union {Null}
      BY LookupFitsNext DEF LookupOK
    <2> QED BY <2>1 DEF InBucket
  <1> QED BY <1>2 DEF Watch, Inv, TypeOK

LEMMA InitHeadKeeps == ASSUME Inv, NEW t \in Threads, InitHead(t) PROVE Inv'
  <1>0. robbed' = robbed /\ twoWriters' = twoWriters
    BY DEF InitHead, mishaps
  <1>1. pc[t] = "initHead" /\ Open(t)
    BY <1>0 DEF InitHead, At, Inv, PlaceFits, Open
  <1>2. /\ TypeOK /\ PlaceFits(t) /\ Writing(t) /\ BucketAt(t) \in Buckets
        /\ \A u \in Threads \ {t} : Writing(u) => BucketAt(u) # BucketAt(t)
    BY <1>1, WriterAt
  <1>3. ListsStay
    BY DEF ListsStay, InitHead
  <1>4. /\ pc' \in [Threads -> Places] /\ pc'[t] = "empty"
        /\ \A u \in Threads \ {t} : Aside(u)
    BY <1>0, <1>2 DEF InitHead, Goto, TypeOK, Places, Aside, localVars
  <1>5. TypeOK'
    BY <1>0, <1>2, <1>4 DEF TypeOK, InitHead, localVars
  <1>6. NoNodeLost' /\ CountFits'
    <2>1. NoNodeLost'
      BY DEF Inv, NoNodeLost, InitHead, localVars
    <2> QED BY <1>1, <1>4, <2>1, CountStays DEF Inv, Aside, InitHead
  <1>7. OneAtATime' /\ NodesFit'
    BY DEF Inv, OneAtATime, NodesFit, InitHead, localVars, Retired, Entries, Writing, BucketAt
  <1>8. ASSUME NEW u \in Threads PROVE PlaceFits(u)'
    <2>1. CASE u = t
      BY <1>0, <1>1, <1>2, <1>4, <2>1 DEF PlaceFits, InitHead, localVars, BucketAt, Writing
    <2>2. CASE u # t
      BY <1>0, <1>2, <1>4, <2>2, OthersPlace DEF InitHead
    <2> QED BY <2>1, <2>2
  <1>9. ASSUME NEW u \in Threads, Open(u)' PROVE MetFits(u)' /\ WalkFits(u)'
    <2>1. CASE u = t
      <3>1. MetFits(t)'
        BY <1>1, <1>3, Known, LookOn DEF InitHead, localVars
      <3> QED BY <1>4, <2>1, <3>1 DEF WalkFits
    <2>2. CASE u # t
      BY <1>0, <1>3, <1>4, <1>9, <2>2, OthersWalk DEF Aside, Open, InitHead
    <2> QED BY <2>1, <2>2
  <1> QED BY <1>5, <1>6, <1>7, <1>8, <1>9 DEF Inv

(* The list of a bucket that was not used was empty already.               *)
LEMMA InitNextKeeps == ASSUME Inv, NEW t \in Threads, InitNext(t) PROVE Inv'
  <1>0. robbed' = robbed /\ twoWriters' = twoWriters
    BY DEF InitNext, mishaps
  <1>1. pc[t] = "init" /\ Open(t)
    BY <1>0 DEF InitNext, At, Inv, PlaceFits, Open
  <1>2. TypeOK /\ NodesFit /\ PlaceFits(t)
    BY <1>1, WriterAt
  <1>3. InBucket(BucketAt(t)) = {}
    BY <1>0, <1>1, <1>2, UnusedBucket DEF PlaceFits
  <1>4. listed' = listed /\ left' = left
    BY <1>0, <1>2, <1>3 DEF InitNext, Unlink, TypeOK
  <1>5. ListsStay
    BY <1>4 DEF ListsStay, InitNext
  <1>6. /\ pc' \in [Threads -> Places] /\ pc'[t] = "initHead"
        /\ \A u \in Threads \ {t} : Aside(u)
    BY <1>0, <1>2 DEF InitNext, Goto, TypeOK, Places, Aside, localVars
  <1>7. NoNodeLost' /\ CountFits'
    <2>1. NoNodeLost'
      BY <1>4 DEF Inv, NoNodeLost, InitNext, localVars
    <2> QED BY <1>1, <1>4, <1>6, <2>1, CountStays DEF Inv, Aside, InitNext
  <1>8. OneAtATime' /\ NodesFit'
    BY <1>4 DEF Inv, OneAtATime, NodesFit, InitNext, localVars, Retired, Entries, Writing, BucketAt
  <1>9. /\ seen' \in [Threads -> SUBSET (Values \union {Null})]
        /\ met' \in [Threads -> SUBSET Nodes]
        /\ \A u \in Threads : call[u] # "none" =>
               /\ seen'[u] = seen[u] \union {Lookup(arg[u])'}
               /\ met'[u] = met[u] \union InBucket(BucketAt(u))'
    BY <1>0, <1>2, <1>4, <1>8, WatchFits DEF InitNext, localVars, TypeOK
  <1>10. TypeOK'
    BY <1>0, <1>2, <1>4, <1>6, <1>9 DEF TypeOK, InitNext, localVars
  <1>11. ASSUME NEW u \in Threads, Open(u) PROVE seen'[u] = seen[u] /\ met'[u] = met[u]
    <2>1. Lookup(arg[u])' = Lookup(arg[u]) /\ InBucket(BucketAt(u))' = InBucket(BucketAt(u))
      BY <1>5 DEF Lookup, InBucket, BucketAt, ListsStay, InitNext, localVars
    <2>2. call[u] # "none" /\ Lookup(arg[u]) \in seen[u] /\ InBucket(BucketAt(u)) \subseteq met[u]
      BY <1>11, Known DEF MetFits
    <2>3. seen[u] \union {Lookup(arg[u])} = seen[u] /\ met[u] \union InBucket(BucketAt(u)) = met[u]
      BY <2>2
    <2>4. seen'[u] = seen[u] \union {Lookup(arg[u])} /\ met'[u] = met[u] \union InBucket(BucketAt(u))
      BY <1>9, <2>1, <2>2
    <2> QED BY <2>3, <2>4
  <1>12. ASSUME NEW u \in Threads PROVE PlaceFits(u)'
    <2>1. CASE u = t
      BY <1>0, <1>1, <1>2, <1>6, <2>1 DEF PlaceFits, InitNext, localVars, BucketAt
    <2>2. CASE u # t
      BY <1>0, <1>6, <2>2, OthersPlace DEF InitNext
    <2> QED BY <2>1, <2>2
  <1>13. ASSUME NEW u \in Threads, Open(u)' PROVE MetFits(u)' /\ WalkFits(u)'
    <2>1. CASE u = t
      <3>1. MetFits(t)'
        BY <1>1, <1>5, <1>11, Known, LookOn DEF InitNext, localVars
      <3> QED BY <1>6, <2>1, <3>1 DEF WalkFits
    <2>2. CASE u # t
      BY <1>0, <1>5, <1>6, <1>11, <1>13, <2>2, OthersWalk DEF Aside, Open
    <2> QED BY <2>1, <2>2
  <1> QED BY <1>7, <1>8, <1>10, <1>12, <1>13 DEF Inv

(* Every allocated node is in one of three sets.                           *)
LEMMA AllocFits == NoNodeLost <=> alloc = (listed \union Retired) \union Entries
  BY DEF NoNodeLost, Retired, Entries

LEMMA AllocFitsNext == NoNodeLost' <=> (alloc = (listed \union Retired) \union Entries)'
  BY AllocFits, PTL

(* As long as the listed nodes keep their keys and values, so does the map. *)
LEMMA SameNodes ==
    ASSUME NodesFit, NodesFit', NEW k, listed' = listed,
           \A n \in listed : key'[n] = key[n] /\ value'[n] = value[n]
    PROVE  Lookup(k)' = Lookup(k)
  <1>1. LookupOK /\ LookupOK'
    BY LookupFits, LookupFitsNext
  <1>2. CASE \E n \in listed : key[n] = k
    <2>1. PICK n \in listed : key[n] = k
      BY <1>2
    <2>2. Lookup(k) = value[n]
      BY <1>1, <2>1 DEF LookupOK
    <2>3. Lookup(k)' = value'[n]
      BY <1>1, <2>1 DEF LookupOK
    <2> QED BY <2>1, <2>2, <2>3
  <1>3. CASE ~ \E n \in listed : key[n] = k
    <2>1. Lookup(k) = Null
      BY <1>1, <1>3 DEF LookupOK
    <2>2. Lookup(k)' = Null
      BY <1>1, <1>3 DEF LookupOK
    <2> QED BY <2>1, <2>2
  <1> QED BY <1>2, <1>3

(* A key of another bucket keeps its value when the nodes of this bucket   *)
(* change.                                                                 *)
LEMMA OtherBucket ==
    ASSUME NodesFit, NodesFit', NEW b, NEW k, BucketOf[k] # b,
           \A n \in listed \union listed' :
               \/ /\ n \in listed /\ n \in listed' /\ key'[n] = key[n] /\ value'[n] = value[n]
               \/ /\ n \in listed => BucketOf[key[n]] = b
                  /\ n \in listed' => BucketOf[key'[n]] = b
    PROVE  Lookup(k)' = Lookup(k)
  <1>1. LookupOK /\ LookupOK'
    BY LookupFits, LookupFitsNext
  <1>2. CASE \E n \in listed : key[n] = k
    <2>1. PICK n \in listed : key[n] = k
      BY <1>2
    <2>2. n \in listed' /\ key'[n] = k /\ value'[n] = value[n]
      BY <2>1
    <2>3. Lookup(k) = value[n]
      BY <1>1, <2>1 DEF LookupOK
    <2>4. Lookup(k)' = value'[n]
      BY <1>1, <2>2 DEF LookupOK
    <2> QED BY <2>2, <2>3, <2>4
  <1>3. CASE ~ \E n \in listed : key[n] = k
    <2>1. \A n \in listed' : key'[n] # k
      BY <1>3
    <2>2. Lookup(k) = Null
      BY <1>1, <1>3 DEF LookupOK
    <2>3. Lookup(k)' = Null
      BY <1>1, <2>1 DEF LookupOK
    <2> QED BY <2>2, <2>3
  <1> QED BY <1>2, <1>3

LEMMA StoreValueKeeps == ASSUME Inv, NEW t \in Threads, StoreValue(t) PROVE Inv'
  <1>0. robbed' = robbed /\ twoWriters' = twoWriters
    BY DEF StoreValue, mishaps
  <1>1. pc[t] = "store" /\ Open(t)
    BY <1>0 DEF StoreValue, At, Inv, PlaceFits, Open
  <1>2. /\ TypeOK /\ NodesFit /\ LookupOK /\ PlaceFits(t) /\ Writing(t)
        /\ \A u \in Threads \ {t} : Writing(u) => BucketAt(u) # BucketAt(t)
    BY <1>1, WriterAt
  <1>3. cur[t] \in listed /\ key[cur[t]] = arg[t] /\ BucketOf[key[cur[t]]] = BucketAt(t)
    BY <1>1, <1>2, Known DEF WalkFits, MetFits
  <1>4. /\ pc' \in [Threads -> Places] /\ pc'[t] = "return" /\ hp' \in [Threads -> Nodes \union {Null}]
        /\ answer' = [answer EXCEPT ![t] = "yes"]
        /\ \A u \in Threads \ {t} : Aside(u)
    BY <1>0, <1>2 DEF StoreValue, Finish, Clear, Goto, TypeOK, Places, Aside, localVars
  <1>5. new[t] \in Values
    BY <1>0, <1>1, <1>2 DEF PlaceFits
  <1>6. /\ value' \in [Nodes -> Values \union {Null}] /\ value'[cur[t]] = new[t]
        /\ \A n \in Nodes : n # cur[t] => value'[n] = value[n]
    BY <1>0, <1>2, <1>3, <1>5 DEF StoreValue, TypeOK
  <1>7. NoNodeLost' /\ CountFits' /\ OneAtATime'
    <2>1. NoNodeLost' /\ OneAtATime'
      BY DEF Inv, NoNodeLost, OneAtATime, StoreValue, localVars, Writing, BucketAt
    <2> QED BY <1>1, <1>4, <2>1, CountStays DEF Inv, Aside, StoreValue
  <1>8. NodesFit'
    <2>1. Retired' = Retired /\ Entries' = Entries
      BY DEF Retired, Entries, StoreValue, localVars
    <2>2. \A n \in listed \union Retired : value'[n] \in Values
      BY <1>0, <1>2, <1>5, <1>6 DEF NodesFit, TypeOK, Retired
    <2> QED BY <1>2, <2>1, <2>2 DEF NodesFit, StoreValue, localVars, BucketAt
  <1>9. /\ seen' \in [Threads -> SUBSET (Values \union {Null})]
        /\ met' \in [Threads -> SUBSET Nodes]
        /\ \A u \in Threads : call[u] # "none" =>
               /\ seen'[u] = seen[u] \union {Lookup(arg[u])'}
               /\ met'[u] = met[u] \union InBucket(BucketAt(u))'
    BY <1>0, <1>2, <1>8, WatchFits DEF StoreValue, localVars, TypeOK
  <1>10. TypeOK'
    BY <1>0, <1>2, <1>4, <1>6, <1>9 DEF TypeOK, StoreValue, localVars
  <1>11. ASSUME NEW u \in Threads PROVE PlaceFits(u)'
    <2>1. CASE u = t
      BY <1>0, <1>1, <1>2, <1>4, <2>1 DEF PlaceFits, StoreValue, localVars
    <2>2. CASE u # t
      <3>1. pc[u] = "insert" => entry[u] \in Nodes /\ entry[u] # cur[t]
        BY <1>0, <1>2, <1>3, KeyHashAssumption DEF Inv, PlaceFits, NodesFit, Entries
      <3> QED BY <1>0, <1>4, <1>6, <2>2, <3>1, OthersPlace DEF StoreValue
    <2> QED BY <2>1, <2>2
  <1>12. ASSUME NEW u \in Threads, Open(u)' PROVE MetFits(u)' /\ WalkFits(u)'
    <2>1. u # t /\ Open(u) /\ Aside(u)
      BY <1>0, <1>4, <1>12 DEF Open, Aside
    <2>2. call[u] # "none" /\ MetFits(u) /\ WalkFits(u) /\ arg[u] \in Keys
      BY <2>1, Known
    <2>3. Writing(u) => Lookup(arg[u])' = Lookup(arg[u])
      <3>1. SUFFICES ASSUME Writing(u) PROVE Lookup(arg[u])' = Lookup(arg[u])
        OBVIOUS
      <3>2. BucketOf[arg[u]] # BucketAt(t)
        BY <1>2, <2>1, <3>1 DEF BucketAt
      <3>3. /\ listed' = listed /\ key' = key
            /\ \A n \in listed : value'[n] = value[n] \/ BucketOf[key[n]] = BucketAt(t)
        BY <1>0, <1>2, <1>3, <1>6 DEF StoreValue, TypeOK
      <3> QED BY <1>2, <1>8, <2>1, <3>2, <3>3, OtherBucket DEF Aside
    <2>4. \A n \in met[u] : key[n] = arg[u] => value'[n] \in {value[n], Lookup(arg[u])'}
      <3>1. LookupOK'
        BY <1>8, LookupFitsNext
      <3>2. Lookup(arg[t])' = value'[cur[t]]
        BY <1>3, <3>1 DEF LookupOK, StoreValue, localVars
      <3>3. arg' = arg
        BY DEF StoreValue, localVars
      <3>4. met[u] \subseteq Nodes
        BY <1>0, <1>2 DEF TypeOK
      <3>5. ASSUME NEW n \in met[u], key[n] = arg[u], value'[n] # value[n]
            PROVE  value'[n] = Lookup(arg[u])'
        <4>1. n = cur[t] /\ arg[u] = arg[t]
          BY <1>3, <1>6, <3>4, <3>5
        <4> QED BY <3>2, <3>3, <4>1
      <3> QED BY <3>5
    <2>5. MetFits(u)'
      BY <1>8, <1>9, <2>1, <2>2, <2>3, <2>4, MetKept DEF Aside, StoreValue, MetFits, Retired
    <2>6. \A x : Leads(u, x) => Leads(u, x)'
      BY <1>9, <2>1, <2>2, LeadsKept DEF Aside, StoreValue
    <2> QED BY <1>9, <2>1, <2>2, <2>5, <2>6, WalkKept DEF Aside, StoreValue
  <1> QED BY <1>7, <1>8, <1>10, <1>11, <1>12 DEF Inv

(* The node of the call's key leaves its list, behind which the call of    *)
(* another, if it still is to come there, has seen the key be gone.        *)
LEMMA LeadsOn ==
    ASSUME TypeOK, NodesFit, NodesFit', NEW u \in Threads, MetFits(u), arg[u] \in Keys,
           NEW c \in listed, NEW x, Leads(u, x),
           listed' = listed \ {c}, left' = [n \in Nodes |-> IF n \in {c} THEN NextOf(n) ELSE left[n]],
           key' = key, arg' = arg,
           seen'[u] = seen[u] \union {Lookup(arg[u])'}, met[u] \subseteq met'[u]
    PROVE  Leads(u, x)'
  <1>1. CASE Null \in seen[u]
    BY <1>1 DEF Leads
  <1>2. CASE key[c] = arg[u]
    <2>1. \A n \in listed' : key'[n] # arg[u]
      BY <1>2 DEF NodesFit
    <2>2. Lookup(arg[u])' = Null
      BY <2>1, LookupFitsNext DEF LookupOK
    <2> QED BY <2>2 DEF Leads
  <1>3. CASE Null \notin seen[u] /\ key[c] # arg[u]
    <2>1. PICK S \in SUBSET met[u] :
              x \in S /\ \A n \in S : key[n] <= arg[u] /\ (n \in listed \/ left[n] \in S)
      BY <1>3 DEF Leads
    <2>2. \A n \in S : n \in Nodes /\ (n # c => left'[n] = left[n])
      BY DEF TypeOK
    <2>3. CASE c \notin S
      <3>1. S \in SUBSET met'[u] /\ x \in S
            /\ \A n \in S : key'[n] <= arg'[u] /\ (n \in listed' \/ left'[n] \in S)
        BY <2>1, <2>2, <2>3
      <3> QED BY <3>1 DEF Leads
    <2>4. CASE c \in S
      <3>1. BucketOf[key[c]] = BucketAt(u) /\ c \in Nodes /\ key[c] \in Nat /\ arg[u] \in Nat
        BY <2>4, KeyHashAssumption DEF MetFits, NodesFit, TypeOK
      <3>2. key[c] < arg[u]
        BY <1>3, <2>1, <2>4, <3>1
      <3> DEFINE y == Behind(BucketAt(u), key[c])
      <3>3. NextOf(c) = y /\ left'[c] = y
        BY <3>1 DEF NextOf
      <3>4. Lookup(arg[u]) # Null
        BY <1>3 DEF MetFits
      <3>5. PICK m \in listed : key[m] = arg[u]
        BY <3>4, LookupFits DEF LookupOK
      <3>6. m \in Beyond(BucketAt(u), key[c])
        BY <3>2, <3>5 DEF Beyond, InBucket, BucketAt
      <3>7. y \in Beyond(BucketAt(u), key[c]) /\ key[y] <= arg[u]
        BY <3>5, <3>6, BehindFits
      <3>8. y \in listed /\ y \in met[u] /\ key[y] > key[c]
        BY <3>7 DEF Beyond, InBucket, MetFits
      <3>9. y # c /\ y \in listed'
        BY <3>1, <3>8
      <3> HIDE DEF y
      <3>10. S \union {y} \in SUBSET met'[u] /\ x \in S \union {y}
             /\ \A n \in S \union {y} :
                    key'[n] <= arg'[u] /\ (n \in listed' \/ left'[n] \in S \union {y})
        BY <2>1, <2>2, <3>3, <3>7, <3>8, <3>9
      <3> QED BY <3>10 DEF Leads
    <2> QED BY <2>3, <2>4
  <1> QED BY <1>1, <1>2, <1>3

LEMMA RemoveKeeps == ASSUME Inv, NEW t \in Threads, Remove(t) PROVE Inv'
  <1> DEFINE c == cur[t]
  <1>0. robbed' = robbed /\ twoWriters' = twoWriters
    BY DEF Remove, mishaps
  <1>1. pc[t] = "remove" /\ Open(t)
    BY <1>0 DEF Remove, At, Inv, PlaceFits, Open
  <1>2. /\ TypeOK /\ NodesFit /\ LookupOK /\ PlaceFits(t) /\ Writing(t) /\ ~destroyed
        /\ \A u \in Threads \ {t} : Writing(u) => BucketAt(u) # BucketAt(t)
    BY <1>0, <1>1, WriterAt DEF PlaceFits
  <1>3. c \in listed /\ c \in Nodes /\ key[c] = arg[t] /\ BucketOf[key[c]] = BucketAt(t)
    BY <1>0, <1>1, <1>2, Known DEF WalkFits, MetFits, TypeOK
  <1>4. {n \in listed : key[n] = arg[t]} = {c}
    BY <1>2, <1>3 DEF NodesFit
  <1>5. /\ listed' = listed \ {c} /\ retired' = [retired EXCEPT ![t] = @ \union {c}]
        /\ left' = [n \in Nodes |-> IF n \in {c} THEN NextOf(n) ELSE left[n]]
        /\ pc' = [pc EXCEPT ![t] = "collect"]
    BY <1>2, <1>4 DEF Remove, Unlink, Goto
  <1>6. /\ pc' \in [Threads -> Places] /\ pc'[t] = "collect"
        /\ \A u \in Threads \ {t} : Aside(u)
    BY <1>0, <1>2, <1>5 DEF Remove, TypeOK, Places, Aside, localVars
  <1>7. /\ NextOf(c) \in Nodes \union {Null}
        /\ NextOf(c) \in InBucket(BucketAt(t)) \union {Null}
        /\ NextOf(c) # c
    <2>1. key[c] \in Nat
      BY <1>2, <1>3, KeyHashAssumption DEF NodesFit
    <2>2. NextOf(c) = Behind(BucketAt(t), key[c])
      BY <1>3 DEF NextOf
    <2>3. \/ NextOf(c) = Null
          \/ NextOf(c) \in InBucket(BucketAt(t)) /\ key[NextOf(c)] > key[c]
      BY <1>2, <2>2, BehindFits DEF Beyond
    <2>4. c # Null
      BY <1>3, KeyHashAssumption
    <2> QED BY <1>0, <1>2, <2>1, <2>3, <2>4 DEF InBucket, TypeOK
  <1>8. left' \in [Nodes -> Nodes \union {Null}] /\ left'[c] = NextOf(c)
        /\ \A n \in Nodes : n # c => left'[n] = left[n]
    BY <1>0, <1>2, <1>3, <1>5, <1>7 DEF TypeOK
  <1>9. Retired' = Retired \union {c} /\ Entries' = Entries
    <2>1. Retired' = Retired \union {c}
      BY <1>0, <1>2, <1>5 DEF Retired, TypeOK
    <2> QED BY <2>1 DEF Entries, Remove, localVars
  <1>10. NoNodeLost' /\ OneAtATime'
    <2>1. OneAtATime'
      BY DEF Inv, OneAtATime, Remove, localVars, Writing, BucketAt
    <2>2. listed' \union Retired' = listed \union Retired /\ alloc' = alloc
      BY <1>3, <1>5, <1>9 DEF Remove
    <2> QED BY <1>9, <2>1, <2>2 DEF Inv, NoNodeLost, Retired, Entries
  <1>11. CountFits'
    <2>1. Inserting' = Inserting /\ Removing' = Removing \union {t} /\ t \notin Removing
      BY <1>1, <1>2, <1>6 DEF Inserting, Removing, At, Aside
    <2>2. /\ Cardinality(Removing') = Cardinality(Removing) + 1
          /\ Cardinality(listed') = Cardinality(listed) - 1
          /\ Cardinality(listed) \in Nat /\ Cardinality(Inserting) \in Nat
          /\ Cardinality(Removing) \in Nat
      BY <1>2, <1>3, <1>5, <2>1, Finite, FS_AddElement, FS_RemoveElement
    <2>3. total_count = Cardinality(listed) + Cardinality(Inserting) + Cardinality(Removing)
      BY <1>2 DEF Inv, CountFits, Inserting, Removing
    <2>4. total_count' = Cardinality(listed') + Cardinality(Inserting') + Cardinality(Removing')
      BY <2>1, <2>2, <2>3 DEF Remove
    <2> QED BY <2>4 DEF CountFits, Inserting, Removing
  <1>12. NodesFit'
    <2>1. \A u, w \in Threads : u # w => retired'[u] \intersect retired'[w] = {}
      <3>1. \A u \in Threads : c \notin retired[u]
        BY <1>2, <1>3 DEF NodesFit, Retired
      <3>2. /\ \A u \in Threads \ {t} : retired'[u] = retired[u]
            /\ retired'[t] = retired[t] \union {c}
        BY <1>2, <1>5 DEF TypeOK
      <3> QED BY <1>2, <3>1, <3>2 DEF NodesFit
    <2>2. listed' \subseteq listed /\ listed' \union Retired' = listed \union Retired
          /\ listed' \intersect Retired' = {}
      BY <1>2, <1>3, <1>5, <1>9 DEF NodesFit
    <2>3. key' = key /\ value' = value /\ entry' = entry /\ ready' = ready
      BY DEF Remove, localVars
    <2> QED BY <1>2, <1>9, <2>1, <2>2, <2>3 DEF NodesFit
  <1>13. /\ seen' \in [Threads -> SUBSET (Values \union {Null})]
         /\ met' \in [Threads -> SUBSET Nodes]
         /\ \A u \in Threads : call[u] # "none" =>
                /\ seen'[u] = seen[u] \union {Lookup(arg[u])'}
                /\ met'[u] = met[u] \union InBucket(BucketAt(u))'
    BY <1>0, <1>2, <1>5, <1>12, WatchFits DEF Remove, localVars, TypeOK
  <1>14. TypeOK'
    <2>1. retired' \in [Threads -> SUBSET Nodes]
      BY <1>0, <1>2, <1>3, <1>5 DEF TypeOK
    <2> QED BY <1>0, <1>2, <1>5, <1>6, <1>8, <1>13, <2>1 DEF TypeOK, Remove, localVars
  <1>15. ASSUME NEW u \in Threads PROVE PlaceFits(u)'
    <2>1. CASE u = t
      BY <1>0, <1>1, <1>2, <1>6, <2>1 DEF PlaceFits, Remove, localVars
    <2>2. CASE u # t
      BY <1>0, <1>6, <2>2, OthersPlace DEF Remove
    <2> QED BY <2>1, <2>2
  <1>16. ASSUME NEW u \in Threads, Open(u)' PROVE MetFits(u)' /\ WalkFits(u)'
    <2>1. u # t /\ Open(u) /\ Aside(u)
      BY <1>0, <1>6, <1>16 DEF Open, Aside
    <2>2. call[u] # "none" /\ MetFits(u) /\ WalkFits(u) /\ arg[u] \in Keys
      BY <2>1, Known
    <2>3. key' = key /\ value' = value /\ arg' = arg /\ call' = call
      BY DEF Remove, localVars
    <2>4. Writing(u) => Lookup(arg[u])' = Lookup(arg[u]) /\ met[u] \subseteq listed'
      <3>1. SUFFICES ASSUME Writing(u) PROVE Lookup(arg[u])' = Lookup(arg[u]) /\ met[u] \subseteq listed'
        OBVIOUS
      <3>2. BucketOf[arg[u]] # BucketAt(t)
        BY <1>2, <2>1, <3>1 DEF BucketAt
      <3>3. Lookup(arg[u])' = Lookup(arg[u])
        BY <1>2, <1>3, <1>5, <1>12, <2>3, <3>2, OtherBucket
      <3>4. c \notin met[u]
        BY <1>3, <2>2, <3>2 DEF MetFits, BucketAt
      <3> QED BY <1>5, <2>2, <3>1, <3>3, <3>4 DEF MetFits
    <2>5. \A n \in met[u] : n \notin listed' => left'[n] \in met[u] \union {Null}
      <3>1. SUFFICES ASSUME NEW n \in met[u], n \notin listed' PROVE left'[n] \in met[u] \union {Null}
        OBVIOUS
      <3>2. n \in Nodes
        BY <1>0, <1>2 DEF TypeOK
      <3>3. CASE n = c
        BY <1>3, <1>7, <1>8, <2>2, <3>3 DEF MetFits
      <3>4. CASE n # c
        BY <1>5, <1>8, <2>2, <3>1, <3>2, <3>4 DEF MetFits
      <3> QED BY <3>3, <3>4
    <2>6. met[u] \subseteq listed' \union Retired'
      BY <1>5, <1>9, <2>2 DEF MetFits
    <2>7. MetFits(u)'
      BY <1>12, <1>13, <2>1, <2>2, <2>3, <2>4, <2>5, <2>6, MetKept
    <2>8. \A x : Leads(u, x) => Leads(u, x)'
      BY <1>2, <1>3, <1>5, <1>12, <1>13, <2>2, <2>3, LeadsOn
    <2> QED BY <1>13, <2>1, <2>2, <2>3, <2>7, <2>8, WalkKept DEF Aside
  <1> QED BY <1>10, <1>11, <1>12, <1>14, <1>15, <1>16 DEF Inv

(* std_hazard_gc frees what the thread has retired in this bucket and no   *)
(* other thread's hazard pointer has; the calls that have met it are       *)
(* robbed, and are finds, since this one is the bucket's writer.           *)
LEMMA CollectKeeps == ASSUME Inv, NEW t \in Threads, Collect(t) PROVE Inv'
  <1> DEFINE others == {u \in Threads \ {t} : call[u] # "none" /\ BucketAt(u) = BucketAt(t)}
             F == {n \in retired[t] : BucketOf[key[n]] = BucketAt(t) /\ \A u \in others : hp[u] # n}
  <1>1. pc[t] = "collect"
    BY DEF Collect, At
  <1>2. /\ TypeOK /\ NodesFit /\ LookupOK /\ PlaceFits(t) /\ Writing(t) /\ ~destroyed
        /\ \A u \in Threads \ {t} : Writing(u) => BucketAt(u) # BucketAt(t)
    BY <1>1, WriterAt
  <1>3. /\ alloc' = alloc \ F
        /\ left' = [n \in Nodes |-> IF n \in F THEN Null ELSE left[n]]
        /\ key' = [n \in Nodes |-> IF n \in F THEN 0 ELSE key[n]]
        /\ value' = [n \in Nodes |-> IF n \in F THEN Null ELSE value[n]]
        /\ retired' = [retired EXCEPT ![t] = @ \ F]
        /\ robbed' = robbed \union {u \in others : F \intersect met[u] # {}}
        /\ twoWriters' = twoWriters
    BY DEF Collect
  <1>4. /\ F \subseteq Nodes /\ F \subseteq Retired /\ F \intersect listed = {} /\ F \intersect Entries = {}
        /\ F \subseteq retired[t] /\ \A n \in F : BucketOf[key[n]] = BucketAt(t)
    BY <1>2 DEF NodesFit, TypeOK, Retired
  <1>5. /\ \A u \in Threads : u \in robbed' => u \in robbed \/ call[u] = "find"
        /\ robbed \subseteq robbed' /\ robbed' \subseteq Threads
        /\ \A u \in Threads \ robbed' : u # t /\ call[u] # "none" /\ BucketAt(u) = BucketAt(t)
                                            => F \intersect met[u] = {}
    <2>1. \A u \in others : u \in Threads /\ call[u] = "find"
      BY <1>2 DEF TypeOK, Writing
    <2>2. \A u \in Threads : u # t /\ call[u] # "none" /\ BucketAt(u) = BucketAt(t) => u \in others
      OBVIOUS
    <2>3. robbed \subseteq Threads
      BY <1>2 DEF TypeOK
    <2> HIDE DEF others, F
    <2> QED BY <1>3, <2>1, <2>2, <2>3
  <1> HIDE DEF others, F
  <1>6. /\ left' \in [Nodes -> Nodes \union {Null}] /\ key' \in [Nodes -> Keys \union {0}]
        /\ value' \in [Nodes -> Values \union {Null}] /\ retired' \in [Threads -> SUBSET Nodes]
        /\ \A n \in Nodes \ F : left'[n] = left[n] /\ key'[n] = key[n] /\ value'[n] = value[n]
        /\ retired'[t] = retired[t] \ F /\ \A u \in Threads \ {t} : retired'[u] = retired[u]
    BY <1>2, <1>3, <1>4 DEF TypeOK
  <1>7. /\ pc' \in [Threads -> Places] /\ pc'[t] = "count"
        /\ \A u \in Threads \ {t} : Aside(u)
    BY <1>2 DEF Collect, Goto, TypeOK, Places, Aside, localVars
  <1>8. /\ listed' = listed /\ ready' = ready /\ call' = call /\ arg' = arg /\ entry' = entry
        /\ seen' = seen /\ met' = met /\ total_count' = total_count /\ destroyed' = destroyed
    BY DEF Collect, localVars
  <1>9. TypeOK'
    <2>1. alloc' \subseteq Nodes
      BY <1>2, <1>3 DEF TypeOK
    <2>2. robbed' \subseteq Threads /\ twoWriters' \in BOOLEAN
      BY <1>2, <1>3, <1>5 DEF TypeOK
    <2> QED BY <1>2, <1>6, <1>7, <2>1, <2>2 DEF TypeOK, Collect, localVars
  <1>10. Retired' = Retired \ F /\ Entries' = Entries
    <2>1. ASSUME NEW u \in Threads \ {t} PROVE retired[u] \intersect F = {}
      BY <1>2, <1>4 DEF NodesFit
    <2>2. Retired' = Retired \ F
      BY <1>6, <2>1 DEF Retired
    <2> QED BY <1>8, <2>2 DEF Entries
  <1>11. NoNodeLost' /\ OneAtATime'
    <2>1. OneAtATime'
      BY <1>8 DEF Inv, OneAtATime, Writing, BucketAt
    <2>2. alloc = listed \union Retired \union Entries
      BY AllocFits DEF Inv
    <2>3. alloc' = listed' \union Retired' \union Entries'
      BY <1>3, <1>4, <1>8, <1>10, <2>2
    <2> QED BY <2>1, <2>3, AllocFitsNext
  <1>12. CountFits'
    <2>1. Inserting' = Inserting /\ Removing' = Removing
      BY <1>1, <1>7 DEF Inserting, Removing, At, Aside
    <2> QED BY <1>8, <2>1 DEF Inv, CountFits, Inserting, Removing
  <1>13. \A n \in listed \union Entries : n \in Nodes \ F
    BY <1>2, <1>4 DEF TypeOK, Entries
  <1>14. NodesFit'
    <2>1. \A n \in Retired' : n \in Retired /\ n \in Nodes \ F
      <3>1. Retired \subseteq Nodes
        BY <1>2 DEF TypeOK, Retired
      <3> QED BY <1>10, <3>1
    <2>2. \A n \in listed' \union Retired' : key'[n] = key[n] /\ value'[n] = value[n]
      BY <1>6, <1>8, <1>13, <2>1
    <2>3. \A u, w \in Threads : u # w => retired'[u] \intersect retired'[w] = {}
      BY <1>2, <1>6 DEF NodesFit
    <2> QED BY <1>2, <1>8, <1>10, <2>1, <2>2, <2>3 DEF NodesFit
  <1>15. ASSUME NEW u \in Threads PROVE PlaceFits(u)'
    <2>1. CASE u = t
      BY <1>1, <1>2, <1>5, <1>6, <1>7, <1>8, <2>1 DEF PlaceFits, Collect, localVars
    <2>2. CASE u # t
      <3>1. pc[u] = "insert" => entry[u] \in Entries
        BY KeyHashAssumption DEF Inv, PlaceFits, Entries
      <3>2. u \in robbed' => call[u] = "find"
        BY <1>5 DEF Inv, PlaceFits
      <3> QED BY <1>6, <1>7, <1>8, <1>13, <2>2, <3>1, <3>2, OthersPlace
    <2> QED BY <2>1, <2>2
  <1>16. ASSUME NEW u \in Threads, Open(u)' PROVE MetFits(u)' /\ WalkFits(u)'
    <2>1. u # t /\ Open(u) /\ Aside(u) /\ u \notin robbed'
      BY <1>5, <1>7, <1>16 DEF Open, Aside
    <2>2. call[u] # "none" /\ MetFits(u) /\ WalkFits(u) /\ arg[u] \in Keys
      BY <2>1, Known
    <2>3. met[u] \subseteq Nodes \ F
      <3>1. CASE BucketAt(u) = BucketAt(t)
        BY <1>2, <1>5, <2>1, <2>2, <3>1 DEF TypeOK
      <3>2. CASE BucketAt(u) # BucketAt(t)
        BY <1>2, <1>4, <2>2, <3>2 DEF MetFits, TypeOK
      <3> QED BY <3>1, <3>2
    <2>4. Lookup(arg[u])' = Lookup(arg[u])
      <3>1. \A n \in listed : key'[n] = key[n] /\ value'[n] = value[n]
        BY <1>6, <1>13
      <3>2. arg'[u] = arg[u]
        BY <1>8
      <3> QED BY <1>2, <1>8, <1>14, <3>1, <3>2, SameNodes
    <2>5. InBucket(BucketAt(u))' \subseteq met[u]
      <3>1. InBucket(BucketAt(u))' = InBucket(BucketAt(u))
        BY <1>6, <1>8, <1>13 DEF InBucket, BucketAt
      <3> QED BY <2>2, <3>1 DEF MetFits
    <2>6. seen'[u] = seen[u] \union {Lookup(arg[u])'} /\ met'[u] = met[u] \union InBucket(BucketAt(u))'
      BY <1>8, <2>2, <2>4, <2>5 DEF MetFits
    <2>7. met[u] \subseteq listed' \union Retired'
      BY <1>8, <1>10, <2>2, <2>3 DEF MetFits
    <2>8. \A n \in met[u] : key'[n] = key[n] /\ value'[n] = value[n] /\ left'[n] = left[n]
      BY <1>6, <2>3
    <2>9. MetFits(u)'
      BY <1>8, <1>14, <2>2, <2>4, <2>6, <2>7, <2>8, MetKept DEF MetFits
    <2>10. \A x : Leads(u, x) => Leads(u, x)'
      BY <1>8, <2>2, <2>8, LeadsKept
    <2> QED BY <1>8, <2>1, <2>2, <2>8, <2>9, <2>10, WalkKept DEF Aside
  <1> QED BY <1>9, <1>11, <1>12, <1>14, <1>15, <1>16 DEF Inv

(* A node that is not allocated is in no list, and no call has met it.     *)
LEMMA MakeEntryKeeps == ASSUME Inv, NEW t \in Threads, MakeEntry(t) PROVE Inv'
  <1>0. robbed' = robbed /\ twoWriters' = twoWriters
    BY DEF MakeEntry, mishaps
  <1>1. pc[t] = "make" /\ Open(t)
    BY <1>0 DEF MakeEntry, At, Inv, PlaceFits, Open
  <1>2. /\ TypeOK /\ NodesFit /\ LookupOK /\ PlaceFits(t) /\ Writing(t) /\ ~destroyed
        /\ arg[t] \in Keys /\ new[t] \in Values /\ call[t] = "add" /\ BucketAt(t) \in ready
    BY <1>0, <1>1, WriterAt DEF PlaceFits
  <1>3. PICK e \in Nodes \ alloc :
           /\ alloc' = alloc \union {e}
           /\ key' = [key EXCEPT ![e] = arg[t]]
           /\ value' = [value EXCEPT ![e] = new[t]]
           /\ entry' = [entry EXCEPT ![t] = e]
    BY DEF MakeEntry
  <1>4. e \notin listed /\ e \notin Retired /\ e \notin Entries /\ e # Null
    BY AllocFits, KeyHashAssumption DEF Inv
  <1>5. /\ listed' = listed /\ left' = left /\ retired' = retired /\ ready' = ready
        /\ call' = call /\ arg' = arg /\ new' = new /\ cur' = cur /\ pos' = pos
        /\ seen' = seen /\ met' = met /\ destroyed' = destroyed /\ total_count' = total_count + 1
        /\ hp' = hp /\ pc' = [pc EXCEPT ![t] = "insert"]
    BY DEF MakeEntry, Goto
  <1>6. /\ key' \in [Nodes -> Keys \union {0}] /\ value' \in [Nodes -> Values \union {Null}]
        /\ entry' \in [Threads -> Nodes \union {Null}] /\ pc' \in [Threads -> Places]
        /\ key'[e] = arg[t] /\ value'[e] = new[t] /\ entry'[t] = e /\ pc'[t] = "insert"
        /\ \A n \in Nodes \ {e} : key'[n] = key[n] /\ value'[n] = value[n]
        /\ \A u \in Threads \ {t} : Aside(u)
    BY <1>0, <1>2, <1>3, <1>5 DEF TypeOK, Places, Aside
  <1>7. TypeOK'
    <2>1. total_count' \in Nat /\ alloc' \subseteq Nodes
      BY <1>0, <1>2, <1>3, <1>5 DEF TypeOK
    <2> QED BY <1>0, <1>2, <1>5, <1>6, <2>1 DEF TypeOK
  <1>8. Retired' = Retired /\ Entries' = Entries \union {e}
    <2>1. entry[t] = Null
      BY <1>0, <1>1, <1>2 DEF PlaceFits
    <2>2. Entries' = Entries \union {e}
      <3>1. \A u \in Threads \ {t} : entry'[u] = entry[u]
        BY <1>6 DEF Aside
      <3> QED BY <1>4, <1>6, <2>1, <3>1 DEF Entries
    <2> QED BY <1>5, <2>2 DEF Retired
  <1>9. NoNodeLost' /\ OneAtATime'
    <2>1. OneAtATime'
      BY <1>5 DEF Inv, OneAtATime, Writing, BucketAt
    <2>2. alloc = listed \union Retired \union Entries
      BY AllocFits DEF Inv
    <2>3. alloc' = listed' \union Retired' \union Entries'
      BY <1>3, <1>5, <1>8, <2>2
    <2> QED BY <2>1, <2>3, AllocFitsNext
  <1>10. CountFits'
    <2>1. Removing' = Removing /\ Inserting' = Inserting \union {t} /\ t \notin Inserting
      BY <1>1, <1>6 DEF Inserting, Removing, At, Aside
    <2>2. /\ Cardinality(Inserting') = Cardinality(Inserting) + 1
          /\ Cardinality(listed) \in Nat /\ Cardinality(Inserting) \in Nat
          /\ Cardinality(Removing) \in Nat
      BY <1>2, <2>1, Finite, FS_AddElement
    <2>3. total_count = Cardinality(listed) + Cardinality(Inserting) + Cardinality(Removing)
      BY <1>2 DEF Inv, CountFits, Inserting, Removing
    <2>4. total_count' = Cardinality(listed') + Cardinality(Inserting') + Cardinality(Removing')
      BY <1>5, <2>1, <2>2, <2>3
    <2> QED BY <2>4 DEF CountFits, Inserting, Removing
  <1>11. \A n \in listed \union Retired : n \in Nodes /\ key'[n] = key[n] /\ value'[n] = value[n]
    BY <1>0, <1>2, <1>4, <1>6 DEF TypeOK, Retired
  <1>12. NodesFit'
    <2>2. \A u, w \in Threads : entry'[u] = entry'[w] /\ entry'[u] # Null => u = w
      <3>1. \A u \in Threads \ {t} : entry'[u] = entry[u] /\ entry[u] # e
        BY <1>4, <1>6 DEF Aside, Entries
      <3> QED BY <1>2, <1>6, <3>1 DEF NodesFit
    <2> QED BY <1>2, <1>4, <1>5, <1>8, <1>11, <2>2 DEF NodesFit
  <1>13. ASSUME NEW u \in Threads PROVE PlaceFits(u)'
    <2>1. CASE u = t
      BY <1>0, <1>1, <1>2, <1>3, <1>5, <1>6, <2>1 DEF PlaceFits, BucketAt
    <2>2. CASE u # t
      <3>1. pc[u] = "insert" => entry[u] \in Nodes \ {e}
        BY <1>0, <1>4, KeyHashAssumption DEF Inv, PlaceFits, Entries
      <3> QED BY <1>0, <1>5, <1>6, <2>2, <3>1, OthersPlace
    <2> QED BY <2>1, <2>2
  <1>14. ASSUME NEW u \in Threads, Open(u)' PROVE MetFits(u)' /\ WalkFits(u)'
    <2>1. Open(u)
      BY <1>0, <1>1, <1>6, <1>14 DEF Open, Aside
    <2>2. call[u] # "none" /\ MetFits(u) /\ WalkFits(u)
      BY <2>1, Known
    <2>3. met[u] \subseteq listed \union Retired
      BY <2>2 DEF MetFits
    <2>4. Lookup(arg[u])' = Lookup(arg[u]) /\ InBucket(BucketAt(u))' = InBucket(BucketAt(u))
      <3>1. \A n \in listed : key'[n] = key[n] /\ value'[n] = value[n]
        BY <1>11
      <3>2. InBucket(BucketAt(u))' = InBucket(BucketAt(u))
        BY <1>5, <3>1 DEF InBucket, BucketAt
      <3>3. Lookup(arg[u])' = Lookup(arg[u])
        BY <1>2, <1>5, <1>12, <2>1, <3>1, SameNodes
      <3> QED BY <3>2, <3>3
    <2>5. seen'[u] = seen[u] \union {Lookup(arg[u])'} /\ met'[u] = met[u] \union InBucket(BucketAt(u))'
      BY <1>5, <2>2, <2>4 DEF MetFits
    <2>6. MetFits(u)'
      BY <1>5, <1>8, <1>11, <1>12, <2>2, <2>3, <2>4, <2>5, MetKept DEF MetFits
    <2>7. \A x : Leads(u, x) => Leads(u, x)'
      BY <1>5, <1>11, <2>2, <2>3, LeadsKept
    <2>8. CASE u = t
      <3>1. Null \in seen[t]
        BY <1>1, <2>2, <2>8 DEF WalkFits
      <3> QED BY <1>5, <1>6, <2>6, <2>8, <3>1 DEF WalkFits
    <2>9. CASE u # t
      BY <1>5, <1>6, <1>11, <2>2, <2>3, <2>6, <2>7, <2>9, WalkKept DEF Aside
    <2> QED BY <2>8, <2>9
  <1> QED BY <1>7, <1>9, <1>10, <1>12, <1>13, <1>14 DEF Inv

(* list_add finds no node of the key: nobody else adds to the bucket.      *)
LEMMA InsertKeeps == ASSUME Inv, NEW t \in Threads, Insert(t) PROVE Inv'
  <1> DEFINE e == entry[t]
  <1>0. robbed' = robbed /\ twoWriters' = twoWriters
    BY DEF Insert, mishaps
  <1>1. pc[t] = "insert" /\ Open(t)
    BY <1>0 DEF Insert, At, Inv, PlaceFits, Open
  <1>2. /\ TypeOK /\ NodesFit /\ LookupOK /\ PlaceFits(t) /\ Writing(t) /\ ~destroyed
        /\ \A u \in Threads \ {t} : Writing(u) => BucketAt(u) # BucketAt(t)
        /\ arg[t] \in Keys /\ new[t] \in Values /\ BucketAt(t) \in ready
        /\ e \in Nodes /\ key[e] = arg[t] /\ value[e] = new[t]
    BY <1>0, <1>1, WriterAt DEF PlaceFits
  <1>3. e # Null /\ e \in Entries /\ e \notin listed /\ e \notin Retired
    BY <1>2, KeyHashAssumption DEF Entries, NodesFit
  <1>4. \A n \in listed : key[n] # arg[t]
    <2>1. Null \in seen[t] /\ seen[t] = {Lookup(arg[t])}
      BY <1>1, <1>2, Known DEF WalkFits, MetFits
    <2>2. Lookup(arg[t]) = Null
      BY <2>1
    <2>3. \A n \in listed : key[n] = arg[t] => Lookup(arg[t]) = value[n] /\ value[n] \in Values
      BY <1>2 DEF LookupOK, NodesFit
    <2> QED BY <2>2, <2>3, KeyHashAssumption
  <1>5. /\ listed' = listed \union {e} /\ entry' = [entry EXCEPT ![t] = Null]
        /\ ready' = ready /\ left' = left /\ key' = key /\ value' = value /\ alloc' = alloc
        /\ retired' = retired /\ total_count' = total_count /\ destroyed' = destroyed
        /\ arg' = arg /\ new' = new /\ call' = call /\ cur' = cur /\ pos' = pos
    BY <1>4 DEF Insert
  <1>6. /\ pc' \in [Threads -> Places] /\ pc'[t] = "return" /\ hp' \in [Threads -> Nodes \union {Null}]
        /\ entry' \in [Threads -> Nodes \union {Null}] /\ entry'[t] = Null
        /\ \A u \in Threads \ {t} : Aside(u)
    BY <1>0, <1>2, <1>5 DEF Insert, Finish, Clear, Goto, TypeOK, Places, Aside
  <1>7. Retired' = Retired /\ Entries' = Entries \ {e}
    <2>1. \A u \in Threads \ {t} : entry'[u] = entry[u] /\ entry[u] # e
      BY <1>2, <1>3, <1>6 DEF Aside, NodesFit
    <2>2. Entries' = Entries \ {e}
      BY <1>6, <2>1 DEF Entries
    <2> QED BY <1>5, <2>2 DEF Retired
  <1>8. NoNodeLost' /\ OneAtATime'
    <2>1. OneAtATime'
      BY <1>5 DEF Inv, OneAtATime, Writing, BucketAt
    <2>2. alloc = listed \union Retired \union Entries
      BY AllocFits DEF Inv
    <2>3. alloc' = listed' \union Retired' \union Entries'
      BY <1>3, <1>5, <1>7, <2>2
    <2> QED BY <2>1, <2>3, AllocFitsNext
  <1>9. CountFits'
    <2>1. Removing' = Removing /\ Inserting' = Inserting \ {t} /\ t \in Inserting
      BY <1>1, <1>6 DEF Inserting, Removing, At, Aside
    <2>2. /\ Cardinality(Inserting') = Cardinality(Inserting) - 1
          /\ Cardinality(listed') = Cardinality(listed) + 1
          /\ Cardinality(listed) \in Nat /\ Cardinality(Inserting) \in Nat
          /\ Cardinality(Removing) \in Nat
      BY <1>2, <1>3, <1>5, <2>1, Finite, FS_AddElement, FS_RemoveElement
    <2>3. total_count = Cardinality(listed) + Cardinality(Inserting) + Cardinality(Removing)
      BY <1>2 DEF Inv, CountFits, Inserting, Removing
    <2>4. total_count' = Cardinality(listed') + Cardinality(Inserting') + Cardinality(Removing')
      BY <1>5, <2>1, <2>2, <2>3
    <2> QED BY <2>4 DEF CountFits, Inserting, Removing
  <1>10. NodesFit'
    <2>1. \A u, w \in Threads : u # w => retired'[u] \intersect retired'[w] = {}
      BY <1>2, <1>5 DEF NodesFit
    <2>2. \A u, w \in Threads : entry'[u] = entry'[w] /\ entry'[u] # Null => u = w
      BY <1>2, <1>6 DEF NodesFit, Aside
    <2>3. \A m, n \in listed' : key'[m] = key'[n] => m = n
      BY <1>2, <1>4, <1>5 DEF NodesFit
    <2>4. \A n \in listed' : BucketOf[key'[n]] \in ready'
      BY <1>2, <1>5 DEF NodesFit, BucketAt
    <2>5. \A n \in listed' \union Retired' : key'[n] \in Keys /\ value'[n] \in Values
      BY <1>2, <1>5, <1>7 DEF NodesFit
    <2>6. listed' \intersect Retired' = {} /\ Entries' \intersect (listed' \union Retired') = {}
      BY <1>2, <1>3, <1>5, <1>7 DEF NodesFit
    <2> QED BY <2>1, <2>2, <2>3, <2>4, <2>5, <2>6 DEF NodesFit
  <1>11. /\ seen' \in [Threads -> SUBSET (Values \union {Null})]
         /\ met' \in [Threads -> SUBSET Nodes]
         /\ \A u \in Threads : call[u] # "none" =>
                /\ seen'[u] = seen[u] \union {Lookup(arg[u])'}
                /\ met'[u] = met[u] \union InBucket(BucketAt(u))'
    <2>1. listed' \subseteq Nodes
      BY <1>0, <1>2, <1>5 DEF TypeOK
    <2> QED BY <1>5, <1>10, <2>1, WatchFits DEF Insert
  <1>12. TypeOK'
    <2>1. listed' \subseteq Nodes
      BY <1>0, <1>2, <1>5 DEF TypeOK
    <2> QED BY <1>0, <1>2, <1>5, <1>6, <1>11, <2>1 DEF TypeOK
  <1>13. ASSUME NEW u \in Threads PROVE PlaceFits(u)'
    <2>1. CASE u = t
      BY <1>0, <1>1, <1>2, <1>5, <1>6, <2>1 DEF PlaceFits
    <2>2. CASE u # t
      BY <1>0, <1>5, <1>6, <2>2, OthersPlace
    <2> QED BY <2>1, <2>2
  <1>14. ASSUME NEW u \in Threads, Open(u)' PROVE MetFits(u)' /\ WalkFits(u)'
    <2>1. u # t /\ Open(u) /\ Aside(u)
      BY <1>0, <1>6, <1>14 DEF Open, Aside
    <2>2. call[u] # "none" /\ MetFits(u) /\ WalkFits(u) /\ arg[u] \in Keys /\ arg'[u] = arg[u]
      BY <1>5, <2>1, Known
    <2>3. Writing(u) => Lookup(arg[u])' = Lookup(arg[u])
      <3>1. SUFFICES ASSUME Writing(u) PROVE Lookup(arg[u])' = Lookup(arg[u])
        OBVIOUS
      <3>2. BucketOf[arg[u]] # BucketAt(t) /\ BucketOf[key[e]] = BucketAt(t)
        BY <1>2, <2>1, <3>1 DEF BucketAt
      <3>3. \A n \in listed \union listed' :
               \/ /\ n \in listed /\ n \in listed' /\ key'[n] = key[n] /\ value'[n] = value[n]
               \/ /\ n \in listed => BucketOf[key[n]] = BucketAt(t)
                  /\ n \in listed' => BucketOf[key'[n]] = BucketAt(t)
        BY <1>3, <1>5, <3>2
      <3> QED BY <1>2, <1>10, <2>2, <3>2, <3>3, OtherBucket
    <2>4. MetFits(u)'
      BY <1>5, <1>7, <1>10, <1>11, <2>2, <2>3, MetKept DEF MetFits
    <2>5. \A x : Leads(u, x) => Leads(u, x)'
      BY <1>5, <1>11, <2>2, LeadsKept
    <2> QED BY <1>5, <1>11, <2>1, <2>2, <2>4, <2>5, WalkKept DEF Aside
  <1> QED BY <1>8, <1>9, <1>10, <1>12, <1>13, <1>14 DEF Inv

(* Nobody uses the hash: destroy frees every node but what others retired. *)
LEMMA DestroyKeeps == ASSUME Inv, NEW t \in Threads, Destroy(t) PROVE Inv'
  <1>1. /\ TypeOK /\ NodesFit
        /\ \A u \in Threads : PlaceFits(u) /\ pc[u] = "idle" /\ call[u] = "none" /\ u \notin robbed
    BY DEF Inv, Destroy, At, PlaceFits
  <1>2. Entries = {} /\ Entries' = {}
    BY <1>1 DEF PlaceFits, Entries, Destroy, localVars
  <1>3. alloc = listed \union Retired
    BY <1>2, AllocFits DEF Inv
  <1>4. /\ listed' = {} /\ alloc' = alloc \ (listed \union retired[t]) /\ ready' = {} /\ destroyed' = TRUE
        /\ retired' = [retired EXCEPT ![t] = {}] /\ key' = key /\ value' = value
        /\ robbed' = robbed /\ twoWriters' = twoWriters
    BY DEF Destroy, Unlink, mishaps
  <1>5. \A u \in Threads : Aside(u) /\ entry'[u] = Null /\ call'[u] = "none"
    BY <1>1 DEF Destroy, Aside, localVars, PlaceFits
  <1>6. left' \in [Nodes -> Nodes \union {Null}]
    <2>1. \A n \in Nodes : NextOf(n) \in Nodes \union {Null}
      BY <1>1, BehindFits DEF NextOf, Beyond, InBucket, TypeOK
    <2> QED BY <1>1, <2>1 DEF Destroy, Unlink, TypeOK
  <1>7. seen' \in [Threads -> SUBSET (Values \union {Null})] /\ met' \in [Threads -> SUBSET Nodes]
    <2>1. seen' = [u \in Threads |-> {}] /\ met' = [u \in Threads |-> {}]
      BY <1>1 DEF Destroy, Watch
    <2> QED BY <2>1
  <1>8. retired'[t] = {} /\ \A u \in Threads \ {t} : retired'[u] = retired[u]
    BY <1>1, <1>4 DEF TypeOK
  <1>9. TypeOK'
    <2>1. alloc' \subseteq Nodes /\ retired' \in [Threads -> SUBSET Nodes]
      BY <1>1, <1>4 DEF TypeOK
    <2> QED BY <1>1, <1>4, <1>6, <1>7, <2>1 DEF TypeOK, Destroy, localVars
  <1>10. Retired' = Retired \ retired[t]
    <2>1. \A u \in Threads \ {t} : retired[u] \intersect retired[t] = {}
      BY <1>1 DEF NodesFit
    <2> QED BY <1>8, <2>1 DEF Retired
  <1>11. NoNodeLost' /\ CountFits'
    <2>1. listed \intersect Retired = {}
      BY <1>1 DEF NodesFit
    <2>2. alloc' = listed' \union Retired' \union Entries'
      BY <1>2, <1>3, <1>4, <1>10, <2>1
    <2> QED BY <1>4, <2>2, AllocFitsNext DEF CountFits
  <1>12. OneAtATime' /\ NodesFit'
    <2>1. OneAtATime'
      BY <1>5 DEF OneAtATime, Writing
    <2>2. \A u, w \in Threads : u # w => retired'[u] \intersect retired'[w] = {}
      BY <1>1, <1>8 DEF NodesFit
    <2> QED BY <1>1, <1>2, <1>4, <1>5, <1>10, <2>1, <2>2 DEF NodesFit
  <1>13. ASSUME NEW u \in Threads PROVE PlaceFits(u)' /\ ~Open(u)'
    BY <1>1, <1>4, <1>5, OthersPlace DEF Open, Writing
  <1> QED BY <1>9, <1>11, <1>12, <1>13 DEF Inv

LEMMA InitFits == Init => Inv
  <1> SUFFICES ASSUME Init PROVE Inv
    OBVIOUS
  <1>1. TypeOK
    BY DEF Init, TypeOK, Places
  <1>2. Retired = {} /\ Entries = {} /\ alloc = {} /\ listed = {}
    BY DEF Init, Retired, Entries
  <1>3. NoNodeLost
    BY <1>2, AllocFits
  <1>4. CountFits
    <2>1. Inserting = {} /\ Removing = {}
      BY DEF Init, Inserting, Removing, At
    <2>2. Cardinality(listed) = 0 /\ Cardinality(Inserting) = 0 /\ Cardinality(Removing) = 0
      BY <1>2, <2>1, FS_EmptySet
    <2>3. total_count = Cardinality(listed) + Cardinality(Inserting) + Cardinality(Removing)
      BY <2>2 DEF Init
    <2> QED BY <2>3 DEF CountFits, Inserting, Removing
  <1>5. OneAtATime
    BY DEF Init, OneAtATime, Writing
  <1>6. NodesFit
    BY <1>2 DEF Init, NodesFit
  <1>7. ASSUME NEW t \in Threads PROVE PlaceFits(t) /\ ~Open(t)
    BY DEF Init, PlaceFits, Open
  <1> QED BY <1>1, <1>3, <1>4, <1>5, <1>6, <1>7 DEF Inv

LEMMA StepFits == ASSUME ~twoWriters', Inv, [Next]_vars PROVE Inv'
  <1>1. CASE UNCHANGED vars
    <2>1. TypeOK' /\ NoNodeLost' /\ CountFits' /\ OneAtATime' /\ NodesFit'
      <3>1. TypeOK' /\ NoNodeLost' /\ CountFits'
        BY <1>1 DEF vars, listVars, localVars, mishaps, Inv, TypeOK, NoNodeLost, CountFits, At
      <3>2. OneAtATime' /\ NodesFit'
        BY <1>1 DEF vars, listVars, localVars, Inv, OneAtATime, NodesFit, BucketAt, Writing, Retired, Entries
      <3> QED BY <3>1, <3>2
    <2>2. ASSUME NEW t \in Threads PROVE PlaceFits(t)'
      BY <1>1 DEF vars, listVars, localVars, mishaps, Inv, PlaceFits, BucketAt
    <2>3. ASSUME NEW t \in Threads, Open(t)' PROVE MetFits(t)' /\ WalkFits(t)'
      BY <1>1, <2>3, OthersWalk DEF vars, listVars, localVars, mishaps, Open, Aside, ListsStay
    <2> QED BY <2>1, <2>2, <2>3 DEF Inv
  <1>2. ASSUME NEW t \in Threads, Call(t) PROVE Inv'
    <2>1. PICK k \in Keys : \/ \E v \in Values : Begin(t, "add", k, v)
                            \/ \E op \in {"find", "del"} : Begin(t, op, k, Null)
      BY <1>2 DEF Call
    <2>2. CASE \E v \in Values : Begin(t, "add", k, v)
      BY <2>2, BeginKeeps
    <2>3. CASE \E op \in {"find", "del"} : Begin(t, op, k, Null)
      BY <2>3, BeginKeeps
    <2> QED BY <2>1, <2>2, <2>3
  <1>3. ASSUME NEW t \in Threads,
               \/ TestHead(t) \/ InitNext(t) \/ InitHead(t) \/ IsEmpty(t) \/ First(t) \/ ReadAhead(t)
               \/ Match(t) \/ Differ(t) \/ DifferAhead(t) \/ Step(t)
        PROVE  Inv'
    BY <1>3, TestHeadKeeps, InitNextKeeps, InitHeadKeeps, IsEmptyKeeps, FirstKeeps, ReadAheadKeeps,
       MatchKeeps, DifferKeeps, DifferAheadKeeps, StepKeeps
  <1>4. ASSUME NEW t \in Threads,
               \/ ReadValue(t) \/ StoreValue(t) \/ Remove(t) \/ Collect(t) \/ CountDown(t)
               \/ MakeEntry(t) \/ Insert(t) \/ Return(t) \/ Destroy(t)
        PROVE  Inv'
    BY <1>4, ReadValueKeeps, StoreValueKeeps, RemoveKeeps, CollectKeeps, CountDownKeeps,
       MakeEntryKeeps, InsertKeeps, ReturnKeeps, DestroyKeeps
  <1> QED BY <1>1, <1>2, <1>3, <1>4 DEF Next

(* Two writers are never forgotten.                                        *)
LEMMA WritersRemembered == [Next]_vars /\ ~twoWriters' => ~twoWriters
  <1>1. CASE UNCHANGED vars
    BY <1>1 DEF vars, mishaps
  <1>2. ASSUME NEW t \in Threads, Call(t) PROVE ~twoWriters' => ~twoWriters
    BY <1>2 DEF Call, Begin
  <1>3. ASSUME NEW t \in Threads,
               \/ TestHead(t) \/ InitNext(t) \/ InitHead(t) \/ IsEmpty(t) \/ First(t) \/ ReadAhead(t)
               \/ Match(t) \/ Differ(t) \/ DifferAhead(t) \/ Step(t)
        PROVE  twoWriters' = twoWriters
    BY <1>3 DEF TestHead, InitNext, InitHead, IsEmpty, First, ReadAhead, Match, Differ, DifferAhead,
                Step, mishaps
  <1>4. ASSUME NEW t \in Threads,
               \/ ReadValue(t) \/ StoreValue(t) \/ Remove(t) \/ Collect(t) \/ CountDown(t)
               \/ MakeEntry(t) \/ Insert(t) \/ Return(t) \/ Destroy(t)
        PROVE  twoWriters' = twoWriters
    BY <1>4 DEF ReadValue, StoreValue, Remove, Collect, CountDown, MakeEntry, Insert, Return, Destroy,
                mishaps
  <1> QED BY <1>1, <1>2, <1>3, <1>4 DEF Next

(* The invariant.                                                          *)
THEOREM InvHolds == Spec => [](~twoWriters => Inv)
  <1>1. (~twoWriters => Inv) /\ [Next]_vars => (~twoWriters => Inv)'
    BY StepFits, WritersRemembered
  <1> QED BY <1>1, InitFits, PTL DEF Spec

-----------------------------------------------------------------------------
(* What the runs check.                                                    *)

(* For any threads, keys, values and nodes, as long as there never were    *)
(* two writers in a bucket at once: a type invariant.                      *)
THEOREM HashTypesHold == Spec => [](~twoWriters => TypeOK)
  <1>1. Inv => TypeOK
    BY DEF Inv
  <1> QED BY <1>1, InvHolds, PTL

(* std_hazard_gc frees nodes under the walks of finds, which set their     *)
(* hazard pointers without a second look; but no call touches a freed node *)
(* unless a node was freed that it had met in the list, which never        *)
(* happens to an add or a del.                                             *)
THEOREM WalksAreSafe == Spec => [](~twoWriters => NoFreedAccess)
  <1>1. Inv => NoFreedAccess
    <2> SUFFICES ASSUME Inv PROVE NoFreedAccess
      OBVIOUS
    <2>1. ASSUME NEW t \in Threads \ robbed, pc[t] \in {"ahead", "compare", "step", "read", "store"}
          PROVE  cur[t] \in listed \union Retired
      <3>1. Open(t)
        BY <2>1 DEF Inv, PlaceFits, Open
      <3> QED BY <2>1, <3>1, Known DEF WalkFits, MetFits
    <2>2. \A t \in robbed : call[t] = "find"
      BY DEF Inv, TypeOK, PlaceFits
    <2> QED BY <2>1, <2>2 DEF NoFreedAccess, Retired
  <1> QED BY <1>1, InvHolds, PTL

(* No node is lost: every one that is allocated is in a list, or waits to  *)
(* be freed, or is about to be added.                                      *)
THEOREM NodesAreKept == Spec => [](~twoWriters => NoNodeLost)
  <1>1. Inv => NoNodeLost
    BY DEF Inv
  <1> QED BY <1>1, InvHolds, PTL

(* total_count counts the listed nodes, the adds that are about to list    *)
(* theirs and the dels that have not counted down yet.                     *)
THEOREM CountHolds == Spec => [](~twoWriters => CountFits)
  <1>1. Inv => CountFits
    BY DEF Inv
  <1> QED BY <1>1, InvHolds, PTL

-----------------------------------------------------------------------------
(* The hash as a map.                                                      *)

(* A call that is under way, answered or not, has seen its key's value.    *)
SeenFits ==
    \A t \in Threads : IF call[t] = "none" THEN seen[t] = {} ELSE Lookup(arg[t]) \in seen[t]

(* A step that stores no value and lists or removes no node, and one that  *)
(* does, and lets the calls under way see it.                              *)
MapStays == /\ \A k \in Keys : Lookup(k)' = Lookup(k)
            /\ seen' = seen /\ call' = call /\ arg' = arg

LEMMA SeenKept ==
    ASSUME Inv, SeenFits, MapStays
    PROVE  SeenFits'
  <1>1. \A t \in Threads : call[t] # "none" => arg[t] \in Keys
    BY DEF Inv, PlaceFits
  <1>2. ASSUME NEW t \in Threads, call[t] # "none" PROVE Lookup(arg[t])' = Lookup(arg[t])
    BY <1>1, <1>2 DEF MapStays
  <1> QED BY <1>2 DEF SeenFits, MapStays

LEMMA SeenWatched ==
    ASSUME Watch, call' = call
    PROVE  SeenFits'
  BY DEF Watch, SeenFits

(* Steps without Watch, but for the first and the last of a call.          *)
LEMMA QuietMap ==
    ASSUME UNCHANGED <<listed, key, value, seen, call, arg>>
    PROVE  MapStays
  BY DEF MapStays, Lookup

LEMMA MakeEntryMap == ASSUME Inv, Inv', NEW t \in Threads, MakeEntry(t) PROVE MapStays
  <1>1. PICK e \in Nodes \ alloc : /\ key' = [key EXCEPT ![e] = arg[t]]
                                   /\ value' = [value EXCEPT ![e] = new[t]]
    BY DEF MakeEntry
  <1>2. e \notin listed
    BY AllocFits DEF Inv
  <1>3. \A n \in listed : key'[n] = key[n] /\ value'[n] = value[n]
    BY <1>1, <1>2 DEF Inv, TypeOK
  <1>4. listed' = listed /\ seen' = seen /\ call' = call /\ arg' = arg
    BY DEF MakeEntry
  <1>5. \A k \in Keys : Lookup(k)' = Lookup(k)
    BY <1>3, <1>4, SameNodes DEF Inv
  <1> QED BY <1>4, <1>5 DEF MapStays

LEMMA CollectMap == ASSUME Inv, Inv', NEW t \in Threads, Collect(t) PROVE MapStays
  <1>1. \A n \in listed : n \in Nodes /\ n \notin retired[t]
    BY DEF Inv, TypeOK, NodesFit, Retired
  <1>2. \A n \in listed : key'[n] = key[n] /\ value'[n] = value[n]
    BY <1>1 DEF Collect
  <1>3. listed' = listed /\ seen' = seen /\ call' = call /\ arg' = arg
    BY DEF Collect, localVars
  <1>4. \A k \in Keys : Lookup(k)' = Lookup(k)
    BY <1>2, <1>3, SameNodes DEF Inv
  <1> QED BY <1>3, <1>4 DEF MapStays

LEMMA StepSeen == ASSUME Inv, Inv', SeenFits, [Next]_vars PROVE SeenFits'
  <1>1. CASE UNCHANGED vars
    BY <1>1, QuietMap, SeenKept DEF vars, listVars, localVars
  <1>2. ASSUME NEW t \in Threads, NEW op \in {"add", "find", "del"}, NEW k \in Keys,
               NEW v \in Values \union {Null}, Begin(t, op, k, v)
        PROVE  SeenFits'
    <2>1. \A u \in Threads : call'[u] # "none" => Lookup(arg[u])' = Lookup(arg'[u])
      BY <1>2 DEF Begin, listVars, Lookup
    <2>2. /\ call'[t] # "none" /\ arg'[t] = k /\ seen'[t] = {Lookup(k)}
          /\ \A u \in Threads \ {t} : call'[u] = call[u] /\ arg'[u] = arg[u] /\ seen'[u] = seen[u]
      BY <1>2 DEF Begin, Inv, TypeOK
    <2>3. ASSUME NEW u \in Threads, call'[u] # "none" PROVE Lookup(arg[u])' \in seen'[u]
      <3>1. CASE u = t
        BY <2>1, <2>2, <2>3, <3>1
      <3>2. CASE u # t
        BY <2>1, <2>2, <2>3, <3>2 DEF SeenFits
      <3> QED BY <3>1, <3>2
    <2>4. ASSUME NEW u \in Threads, call'[u] = "none" PROVE seen'[u] = {}
      BY <2>2, <2>4 DEF SeenFits
    <2> QED BY <2>3, <2>4 DEF SeenFits
  <1>3. ASSUME NEW t \in Threads, Call(t) PROVE SeenFits'
    BY <1>2, <1>3 DEF Call
  <1>4. ASSUME NEW t \in Threads,
               \/ TestHead(t) \/ InitHead(t) \/ IsEmpty(t) \/ First(t) \/ ReadAhead(t)
               \/ Match(t) \/ Differ(t) \/ DifferAhead(t) \/ Step(t) \/ ReadValue(t) \/ CountDown(t)
        PROVE  MapStays
    BY <1>4, QuietMap DEF TestHead, InitHead, IsEmpty, First, ReadAhead, Match, Differ, DifferAhead,
                          Step, ReadValue, CountDown, listVars, localVars
  <1>5. ASSUME NEW t \in Threads,
               InitNext(t) \/ StoreValue(t) \/ Remove(t) \/ Insert(t) \/ Destroy(t)
        PROVE  SeenFits'
    BY <1>5, SeenWatched DEF InitNext, StoreValue, Remove, Insert, Destroy, localVars
  <1>6. ASSUME NEW t \in Threads, Return(t) PROVE SeenFits'
    <2>1. \A u \in Threads : Lookup(arg[u])' = Lookup(arg'[u])
      BY <1>6 DEF Return, listVars, Lookup
    <2>2. /\ call'[t] = "none" /\ seen'[t] = {}
          /\ \A u \in Threads \ {t} : call'[u] = call[u] /\ arg'[u] = arg[u] /\ seen'[u] = seen[u]
      BY <1>6 DEF Return, Inv, TypeOK
    <2> QED BY <2>1, <2>2 DEF SeenFits
  <1>7. ASSUME NEW t \in Threads, MakeEntry(t) \/ Collect(t) PROVE MapStays
    BY <1>7, MakeEntryMap, CollectMap
  <1> QED BY <1>1, <1>3, <1>4, <1>5, <1>6, <1>7, SeenKept DEF Next

-----------------------------------------------------------------------------
(* Each step is one of KeyMap, or none.                                    *)

Answered(t) == pc[t] \in {"collect", "count", "return"}

(* How the calls look from outside.                                        *)
LEMMA CallsSeen ==
    ASSUME Inv, NEW t \in Threads
    PROVE  /\ callSeen[t] = IF Answered(t) THEN "done" ELSE call[t]
           /\ callSeen[t] = "none" <=> call[t] = "none"
  BY DEF Inv, PlaceFits, TypeOK, callSeen, Answered

(* The step of one call changes how that one looks.                        *)
LEMMA CallSeenStep ==
    ASSUME NEW t \in Threads, \A u \in Threads \ {t} : pc'[u] = pc[u] /\ call'[u] = call[u]
    PROVE  callSeen' = [callSeen EXCEPT ![t] = IF Answered(t)' THEN "done" ELSE call'[t]]
  <1>1. callSeen' = [u \in Threads |-> IF Answered(u)' THEN "done" ELSE call'[u]]
    BY DEF callSeen, Answered
  <1>2. \A u \in Threads \ {t} : (IF Answered(u)' THEN "done" ELSE call'[u]) = callSeen[u]
    BY DEF callSeen, Answered
  <1>3. callSeen = [u \in Threads |-> callSeen[u]]
    BY DEF callSeen
  <1> QED BY <1>1, <1>2, <1>3

(* A step that nobody sees.                                                *)
LEMMA Unseen ==
    ASSUME Inv, NEW t \in Threads, MapStays, new' = new, answer' = answer,
           \A u \in Threads \ {t} : pc'[u] = pc[u],
           Answered(t)' <=> Answered(t)
    PROVE  UNCHANGED Map!mapVars
  <1>1. callSeen' = callSeen
    BY DEF callSeen, Answered, MapStays
  <1>2. [k \in Keys |-> Lookup(k)]' = [k \in Keys |-> Lookup(k)]
    BY DEF MapStays
  <1> QED BY <1>1, <1>2 DEF Map!mapVars, MapStays

(* A call decides on its answer,                                           *)
LEMMA AnswerMaps ==
    ASSUME NEW t \in Threads, NEW a, \A u \in Threads \ {t} : pc'[u] = pc[u], call' = call,
           Answered(t)', answer' = [answer EXCEPT ![t] = a], arg' = arg, new' = new
    PROVE  Map!Answer(t, a)
  BY CallSeenStep DEF Map!Answer

(* and if the map stays as it is, the answer was right at some moment:     *)
(* there was no such key,                                                  *)
LEMMA NotThereMaps ==
    ASSUME Inv, NEW t \in Threads, Open(t), NotThere(t), MapStays, new' = new, Null \in seen[t]
    PROVE  Map!Next \/ UNCHANGED Map!mapVars
  <1>1. TypeOK /\ \A u \in Threads \ {t} : pc'[u] = pc[u]
    BY DEF Inv, TypeOK, NotThere, Goto, Finish
  <1>2. ~Answered(t) /\ callSeen[t] = call[t]
    BY CallsSeen DEF Open, Answered
  <1>3. [k \in Keys |-> Lookup(k)]' = [k \in Keys |-> Lookup(k)] /\ seen' = seen
    BY DEF MapStays
  <1>4. CASE call[t] = "add"
    <2>1. ~Answered(t)' /\ answer' = answer
      BY <1>1, <1>4 DEF NotThere, Goto, Answered, TypeOK
    <2> QED BY <1>1, <1>2, <2>1, Unseen
  <1>5. CASE call[t] = "find"
    <2>1. Answered(t)' /\ answer' = [answer EXCEPT ![t] = Null]
      BY <1>1, <1>5 DEF NotThere, Goto, Finish, Answered, TypeOK
    <2>2. Map!Answer(t, Null)
      BY <1>1, <2>1, AnswerMaps DEF MapStays
    <2>3. Map!Find(t)
      BY <1>2, <1>3, <1>5, <2>2 DEF Map!Find
    <2> QED BY <2>3 DEF Map!Next
  <1>6. CASE call[t] = "del"
    <2>1. Answered(t)' /\ answer' = [answer EXCEPT ![t] = "no"]
      BY <1>1, <1>6 DEF NotThere, Goto, Finish, Answered, TypeOK
    <2>2. Map!Answer(t, "no")
      BY <1>1, <2>1, AnswerMaps DEF MapStays
    <2>3. Map!NotDeleted(t)
      BY <1>2, <1>3, <1>6, <2>2 DEF Map!NotDeleted
    <2> QED BY <2>3 DEF Map!Next
  <1> QED BY <1>4, <1>5, <1>6 DEF NotThere

(* or the find was robbed, and answers anything,                           *)
LEMMA RobbedMaps ==
    ASSUME Inv, NEW t \in Threads, t \in robbed, MapStays, new' = new, ~Answered(t), Answered(t)',
           NEW a \in Values \union {Null}, answer' = [answer EXCEPT ![t] = a],
           \A u \in Threads \ {t} : pc'[u] = pc[u]
    PROVE  \E u \in robbed : RobbedAnswer(u)
  <1>1. call[t] = "find"
    BY DEF Inv, PlaceFits
  <1>2. Map!Answer(t, a)
    BY AnswerMaps DEF MapStays
  <1>3. UNCHANGED <<[k \in Keys |-> Lookup(k)], seen>>
    BY DEF MapStays
  <1>4. RobbedAnswer(t)
    BY <1>1, <1>2, <1>3 DEF RobbedAnswer
  <1> QED BY <1>4

(* or this was its value.                                                  *)
LEMMA ReadValueMaps ==
    ASSUME Inv, NEW t \in Threads, ReadValue(t)
    PROVE  Map!Next \/ \E u \in robbed : RobbedAnswer(u)
  <1>1. /\ call[t] # "none" /\ pc[t] = "read" /\ TypeOK /\ call[t] = "find" /\ cur[t] \in Nodes
        /\ (t \in robbed \/ Open(t)) /\ ~Answered(t)
    BY DEF Inv, PlaceFits, Open, ReadValue, At, Answered
  <1>2. /\ \A u \in Threads \ {t} : pc'[u] = pc[u]
        /\ Answered(t)' /\ answer' = [answer EXCEPT ![t] = value[cur[t]]]
    BY <1>1 DEF ReadValue, Finish, Goto, Answered, TypeOK
  <1>3. MapStays /\ new' = new
    BY QuietMap DEF ReadValue, listVars, localVars
  <1>4. CASE t \in robbed
    <2>1. value[cur[t]] \in Values \union {Null}
      BY <1>1 DEF TypeOK
    <2> QED BY <1>1, <1>2, <1>3, <1>4, <2>1, RobbedMaps
  <1>5. CASE Open(t)
    <2>1. cur[t] \in met[t] /\ key[cur[t]] = arg[t]
      BY <1>1, <1>5, Known DEF WalkFits
    <2>2. value[cur[t]] \in seen[t]
      BY <1>5, <2>1, Known DEF MetFits
    <2>3. Map!Answer(t, value[cur[t]])
      BY <1>2, <1>3, AnswerMaps DEF MapStays
    <2>4. [k \in Keys |-> Lookup(k)]' = [k \in Keys |-> Lookup(k)] /\ seen' = seen
      BY <1>3 DEF MapStays
    <2>5. callSeen[t] = "find"
      BY <1>1, CallsSeen
    <2>6. Map!Find(t)
      BY <2>2, <2>3, <2>4, <2>5 DEF Map!Find
    <2> QED BY <2>6 DEF Map!Next
  <1> QED BY <1>1, <1>4, <1>5

(* A call changes the map, for all to see.                                 *)
LEMMA UpdateMaps ==
    ASSUME Inv, NEW t \in Threads, NEW v, arg[t] \in Keys,
           \A k \in Keys : Lookup(k)' = IF k = arg[t] THEN v ELSE Lookup(k),
           Watch, call' = call, arg' = arg, new' = new,
           \A u \in Threads \ {t} : pc'[u] = pc[u],
           Answered(t)', answer' = [answer EXCEPT ![t] = "yes"]
    PROVE  Map!Update(t, v)
  <1>1. Map!Answer(t, "yes")
    BY AnswerMaps
  <1>2. [k \in Keys |-> Lookup(k)]' = [[k \in Keys |-> Lookup(k)] EXCEPT ![arg[t]] = v]
    BY Zenon
  <1>3. seen' = [u \in Threads |-> IF callSeen[u] = "none" THEN {}
                                   ELSE seen[u] \union {[k \in Keys |-> Lookup(k)]'[arg[u]]}]
    <2>1. ASSUME NEW u \in Threads, call[u] # "none"
          PROVE  Lookup(arg[u])' = [k \in Keys |-> Lookup(k)]'[arg[u]]
      <3>1. arg[u] \in Keys
        BY <2>1 DEF Inv, PlaceFits
      <3> QED BY <3>1
    <2>2. \A u \in Threads : callSeen[u] = "none" <=> call[u] = "none"
      BY CallsSeen
    <2> QED BY <2>1, <2>2 DEF Watch
  <1> QED BY <1>1, <1>2, <1>3 DEF Map!Update

LEMMA StoreValueMaps == ASSUME Inv, Inv', NEW t \in Threads, StoreValue(t) PROVE Map!Next
  <1>1. Open(t) /\ pc[t] = "store" /\ TypeOK /\ NodesFit /\ arg[t] \in Keys /\ call[t] = "add"
    BY Known DEF Inv, PlaceFits, Open, StoreValue, At
  <1>2. cur[t] \in listed /\ key[cur[t]] = arg[t]
    BY <1>1, Known DEF WalkFits, MetFits, Writing
  <1>3. listed' = listed /\ key' = key /\ arg' = arg /\ call' = call /\ new' = new
    BY DEF StoreValue, localVars
  <1>4. value'[cur[t]] = new[t] /\ \A n \in listed : n # cur[t] => value'[n] = value[n]
    BY <1>1, <1>2 DEF StoreValue, TypeOK
  <1>5. LookupOK /\ LookupOK'
    BY <1>1, LookupFits, LookupFitsNext DEF Inv
  <1>6. ASSUME NEW k \in Keys PROVE Lookup(k)' = IF k = arg[t] THEN new[t] ELSE Lookup(k)
    <2>1. CASE k = arg[t]
      BY <1>2, <1>3, <1>4, <1>5, <2>1 DEF LookupOK
    <2>2. CASE k # arg[t] /\ \E n \in listed : key[n] = k
      <3>1. PICK n \in listed : key[n] = k
        BY <2>2
      <3>2. n # cur[t]
        BY <1>2, <2>2, <3>1
      <3>3. Lookup(k) = value[n] /\ Lookup(k)' = value'[n]
        BY <1>3, <1>5, <3>1 DEF LookupOK
      <3> QED BY <1>4, <2>2, <3>2, <3>3
    <2>3. CASE k # arg[t] /\ ~ \E n \in listed : key[n] = k
      <3>1. Lookup(k) = Null /\ Lookup(k)' = Null
        BY <1>3, <1>5, <2>3 DEF LookupOK
      <3> QED BY <2>3, <3>1
    <2> QED BY <2>1, <2>2, <2>3
  <1>7. /\ Answered(t)' /\ answer' = [answer EXCEPT ![t] = "yes"]
        /\ \A u \in Threads \ {t} : pc'[u] = pc[u]
    BY <1>1 DEF StoreValue, Finish, Goto, Answered, TypeOK
  <1>8. Map!Update(t, new[t])
    BY <1>1, <1>3, <1>6, <1>7, UpdateMaps DEF StoreValue
  <1>9. callSeen[t] = "add"
    BY <1>1, CallsSeen DEF Answered
  <1>10. Map!Add(t)
    BY <1>8, <1>9 DEF Map!Add
  <1> QED BY <1>10 DEF Map!Next

LEMMA InsertMaps == ASSUME Inv, Inv', NEW t \in Threads, Insert(t) PROVE Map!Next
  <1>1. Open(t) /\ pc[t] = "insert" /\ TypeOK /\ NodesFit /\ arg[t] \in Keys /\ call[t] = "add"
    BY Known DEF Inv, PlaceFits, Open, Insert, At
  <1>2. entry[t] \in Nodes /\ key[entry[t]] = arg[t] /\ value[entry[t]] = new[t]
    BY <1>1 DEF Inv, PlaceFits
  <1>3. LookupOK /\ LookupOK'
    BY <1>1, LookupFits, LookupFitsNext DEF Inv
  <1>4. \A n \in listed : key[n] # arg[t]
    <2>1. Lookup(arg[t]) = Null
      BY <1>1, Known DEF WalkFits, MetFits, Writing
    <2> QED BY <1>1, <1>3, <2>1, KeyHashAssumption DEF LookupOK, NodesFit
  <1>5. /\ listed' = listed \union {entry[t]} /\ key' = key /\ value' = value
        /\ arg' = arg /\ call' = call /\ new' = new
    BY <1>4 DEF Insert
  <1>6. ASSUME NEW k \in Keys PROVE Lookup(k)' = IF k = arg[t] THEN new[t] ELSE Lookup(k)
    <2>1. CASE k = arg[t]
      <3>1. entry[t] \in listed' /\ key'[entry[t]] = k /\ value'[entry[t]] = new[t]
        BY <1>2, <1>5, <2>1
      <3>2. Lookup(k)' = new[t]
        BY <1>3, <3>1 DEF LookupOK
      <3> QED BY <2>1, <3>2
    <2>2. CASE k # arg[t] /\ \E n \in listed : key[n] = k
      <3>1. PICK n \in listed : key[n] = k
        BY <2>2
      <3>2. Lookup(k) = value[n] /\ Lookup(k)' = value'[n]
        BY <1>3, <1>5, <3>1 DEF LookupOK
      <3> QED BY <1>5, <2>2, <3>2
    <2>3. CASE k # arg[t] /\ ~ \E n \in listed : key[n] = k
      <3>1. Lookup(k) = Null /\ Lookup(k)' = Null
        BY <1>2, <1>3, <1>5, <2>3 DEF LookupOK
      <3> QED BY <2>3, <3>1
    <2> QED BY <2>1, <2>2, <2>3
  <1>7. /\ Answered(t)' /\ answer' = [answer EXCEPT ![t] = "yes"]
        /\ \A u \in Threads \ {t} : pc'[u] = pc[u]
    BY <1>1 DEF Insert, Finish, Goto, Answered, TypeOK
  <1>8. Map!Update(t, new[t])
    BY <1>1, <1>5, <1>6, <1>7, UpdateMaps DEF Insert
  <1>9. callSeen[t] = "add"
    BY <1>1, CallsSeen DEF Answered
  <1>10. Map!Add(t)
    BY <1>8, <1>9 DEF Map!Add
  <1> QED BY <1>10 DEF Map!Next

LEMMA RemoveMaps == ASSUME Inv, Inv', NEW t \in Threads, Remove(t) PROVE Map!Next
  <1>1. Open(t) /\ pc[t] = "remove" /\ TypeOK /\ NodesFit /\ arg[t] \in Keys /\ call[t] = "del"
    BY Known DEF Inv, PlaceFits, Open, Remove, At
  <1>2. cur[t] \in listed /\ key[cur[t]] = arg[t]
    BY <1>1, Known DEF WalkFits, MetFits, Writing
  <1>3. LookupOK /\ LookupOK'
    BY <1>1, LookupFits, LookupFitsNext DEF Inv
  <1>4. /\ listed' = listed \ {n \in listed : key[n] = arg[t]} /\ key' = key /\ value' = value
        /\ arg' = arg /\ call' = call /\ new' = new
    BY DEF Remove, Unlink, localVars
  <1>5. ASSUME NEW k \in Keys PROVE Lookup(k)' = IF k = arg[t] THEN Null ELSE Lookup(k)
    <2>1. CASE k = arg[t]
      <3>1. \A n \in listed' : key'[n] # k
        BY <1>4, <2>1
      <3>2. Lookup(k)' = Null
        BY <1>3, <3>1 DEF LookupOK
      <3> QED BY <2>1, <3>2
    <2>2. CASE k # arg[t] /\ \E n \in listed : key[n] = k
      <3>1. PICK n \in listed : key[n] = k
        BY <2>2
      <3>2. n \in listed'
        BY <1>4, <2>2, <3>1
      <3>3. Lookup(k) = value[n] /\ Lookup(k)' = value'[n]
        BY <1>3, <1>4, <3>1, <3>2 DEF LookupOK
      <3> QED BY <1>4, <2>2, <3>3
    <2>3. CASE k # arg[t] /\ ~ \E n \in listed : key[n] = k
      <3>1. Lookup(k) = Null /\ Lookup(k)' = Null
        BY <1>3, <1>4, <2>3 DEF LookupOK
      <3> QED BY <2>3, <3>1
    <2> QED BY <2>1, <2>2, <2>3
  <1>6. /\ Answered(t)' /\ answer' = [answer EXCEPT ![t] = "yes"]
        /\ \A u \in Threads \ {t} : pc'[u] = pc[u]
    <2>1. pc'[t] \in {"count", "collect"} /\ \A u \in Threads \ {t} : pc'[u] = pc[u]
      BY <1>1 DEF Remove, Goto, TypeOK
    <2> QED BY <2>1 DEF Remove, Answered
  <1>7. Map!Update(t, Null)
    BY <1>1, <1>4, <1>5, <1>6, UpdateMaps DEF Remove
  <1>8. callSeen[t] = "del" /\ Lookup(arg[t]) # Null
    <2>1. Lookup(arg[t]) = value[cur[t]] /\ value[cur[t]] \in Values
      BY <1>1, <1>2, <1>3 DEF LookupOK, NodesFit
    <2> QED BY <1>1, <2>1, CallsSeen, KeyHashAssumption DEF Answered
  <1>9. [k \in Keys |-> Lookup(k)][arg[t]] # Null
    BY <1>1, <1>8
  <1>10. Map!Delete(t)
    BY <1>7, <1>8, <1>9 DEF Map!Delete
  <1> QED BY <1>10 DEF Map!Next

(* The begin and the end of a call.                                        *)
LEMMA BeginMaps ==
    ASSUME Inv, NEW t \in Threads, NEW op \in {"add", "find", "del"}, NEW k \in Keys,
           NEW v \in Values \union {Null}, Begin(t, op, k, v)
    PROVE  Map!Begin(t, op, k, v)
  <1>1. TypeOK /\ pc[t] = "idle" /\ call[t] = "none"
    BY DEF Inv, PlaceFits, Begin, At
  <1>2. /\ pc'[t] = "test" /\ call'[t] = op
        /\ \A u \in Threads \ {t} : pc'[u] = pc[u] /\ call'[u] = call[u]
    BY <1>1 DEF Begin, Goto, TypeOK
  <1>3. callSeen' = [callSeen EXCEPT ![t] = op] /\ callSeen[t] = "none"
    BY <1>1, <1>2, CallSeenStep DEF Answered, callSeen
  <1>4. [i \in Keys |-> Lookup(i)]' = [i \in Keys |-> Lookup(i)]
    BY DEF Begin, listVars, Lookup
  <1> QED BY <1>3, <1>4 DEF Map!Begin, Begin

LEMMA ReturnMaps == ASSUME Inv, NEW t \in Threads, Return(t) PROVE Map!Next
  <1>1. TypeOK /\ pc[t] = "return"
    BY DEF Inv, Return, At
  <1>2. /\ pc'[t] = "idle" /\ call'[t] = "none"
        /\ \A u \in Threads \ {t} : pc'[u] = pc[u] /\ call'[u] = call[u]
    BY <1>1 DEF Return, Goto, TypeOK
  <1>3. callSeen' = [callSeen EXCEPT ![t] = "none"] /\ callSeen[t] = "done"
    BY <1>1, <1>2, CallSeenStep DEF Answered, callSeen
  <1>4. [i \in Keys |-> Lookup(i)]' = [i \in Keys |-> Lookup(i)]
    BY DEF Return, listVars, Lookup
  <1>5. Map!Return(t)
    BY <1>3, <1>4 DEF Map!Return, Return
  <1> QED BY <1>5 DEF Map!Next

LEMMA DestroyMaps == ASSUME Inv, Inv', SeenFits, NEW t \in Threads, Destroy(t) PROVE Map!Next
  <1>1. TypeOK /\ \A u \in Threads : pc[u] = "idle" /\ call[u] = "none"
    BY DEF Inv, Destroy, At, PlaceFits
  <1>2. LookupOK'
    BY LookupFitsNext DEF Inv
  <1>3. [k \in Keys |-> Lookup(k)]' = [k \in Keys |-> Null]
    <2>1. listed' = {}
      BY DEF Destroy, Unlink
    <2>2. \A k \in Keys : Lookup(k)' = Null
      BY <1>2, <2>1 DEF LookupOK
    <2> QED BY <2>2
  <1>4. seen' = seen
    <2>1. seen = [u \in Threads |-> {}]
      BY <1>1 DEF SeenFits, TypeOK
    <2>2. seen' = [u \in Threads |-> {}]
      BY <1>1 DEF Destroy, Watch
    <2> QED BY <2>1, <2>2
  <1>5. callSeen' = callSeen /\ \A u \in Threads : callSeen[u] = "none"
    BY <1>1, CallsSeen DEF Destroy, localVars, callSeen
  <1>6. Map!Destroy
    BY <1>3, <1>4, <1>5 DEF Map!Destroy, Destroy, localVars
  <1> QED BY <1>6 DEF Map!Next

(* The walk: most of its steps nobody sees; where it ends without the key, *)
(* the key was gone at some moment.                                        *)
LEMMA WalkMaps ==
    ASSUME Inv, NEW t \in Threads, t \notin robbed,
           \/ TestHead(t) \/ IsEmpty(t) \/ First(t) \/ ReadAhead(t)
           \/ Match(t) \/ Differ(t) \/ DifferAhead(t) \/ Step(t)
    PROVE  Map!Next \/ UNCHANGED Map!mapVars
  <1>1. /\ Open(t) /\ pc[t] \in {"test", "empty", "first", "ahead", "compare", "step"} /\ TypeOK
        /\ ~Answered(t)
    BY DEF Inv, PlaceFits, Open, Answered, TestHead, IsEmpty, First, ReadAhead, Match, Differ,
           DifferAhead, Step, At
  <1>2. MapStays /\ new' = new
    BY QuietMap DEF TestHead, IsEmpty, First, ReadAhead, Match, Differ, DifferAhead, Step,
                    listVars, localVars
  <1>3. ASSUME NEW p \in Places, p \notin {"collect", "count", "return"}, Goto(t, p), answer' = answer
        PROVE  UNCHANGED Map!mapVars
    <2>1. ~Answered(t)' /\ \A u \in Threads \ {t} : pc'[u] = pc[u]
      BY <1>1, <1>3 DEF Goto, Answered, TypeOK
    <2> QED BY <1>1, <1>2, <1>3, <2>1, Unseen
  <1>4. ASSUME NotThere(t), Null \in seen[t] PROVE Map!Next \/ UNCHANGED Map!mapVars
    BY <1>1, <1>2, <1>4, NotThereMaps
  <1>5. ASSUME NEW n, GoOn(t, n), n = Null => Null \in seen[t]
        PROVE  Map!Next \/ UNCHANGED Map!mapVars
    <2>1. CASE n = Null
      BY <1>4, <1>5, <2>1 DEF GoOn
    <2>2. CASE n # Null
      <3>1. answer' = answer /\ (Goto(t, "ahead") \/ Goto(t, "compare"))
        BY <1>5, <2>2 DEF GoOn
      <3>2. "ahead" \in Places /\ "compare" \in Places
        BY DEF Places
      <3> QED BY <1>3, <3>1, <3>2
    <2> QED BY <2>1, <2>2
  <1>6. CASE TestHead(t)
    <2>1. CASE BucketAt(t) \notin ready /\ NotThere(t)
      BY <1>1, <1>4, <2>1, EmptyBucket, UnusedBucket
    <2>2. CASE ~(BucketAt(t) \notin ready /\ NotThere(t))
      <3>1. answer' = answer /\ (Goto(t, "empty") \/ Goto(t, "init"))
        BY <1>6, <2>2 DEF TestHead
      <3>2. "empty" \in Places /\ "init" \in Places
        BY DEF Places
      <3> QED BY <1>3, <3>1, <3>2
    <2> QED BY <2>1, <2>2
  <1>7. CASE IsEmpty(t)
    <2>1. CASE InBucket(BucketAt(t)) = {}
      BY <1>1, <1>4, <1>7, <2>1, EmptyBucket DEF IsEmpty
    <2>2. CASE InBucket(BucketAt(t)) # {}
      BY <1>3, <1>7, <2>2 DEF IsEmpty, Places
    <2> QED BY <2>1, <2>2
  <1>8. CASE First(t)
    <2>1. Leads(t, Behind(BucketAt(t), 0))
      BY <1>1, Known, BehindLeads
    <2>2. Behind(BucketAt(t), 0) = Null => Null \in seen[t]
      BY <1>1, <2>1, EndLeads
    <2> QED BY <1>5, <1>8, <2>2 DEF First
  <1>9. CASE Step(t)
    <2>1. cur[t] \in met[t] /\ Leads(t, cur[t]) /\ key[cur[t]] # arg[t]
      BY <1>1, <1>9, Known DEF WalkFits, Step, At
    <2>2. Leads(t, NextOf(cur[t]))
      BY <1>1, <2>1, Known, StepLeads
    <2>3. NextOf(cur[t]) = Null => Null \in seen[t]
      BY <1>1, <2>2, EndLeads
    <2> QED BY <1>5, <1>9, <2>3 DEF Step
  <1>10. CASE ReadAhead(t)
    BY <1>3, <1>10 DEF ReadAhead, Places
  <1>11. CASE Match(t) \/ Differ(t)
    <2>1. call[t] \in {"add", "find", "del"}
      BY <1>1 DEF Open, TypeOK
    <2>2. AtMatch(call[t]) \in {"store", "read", "remove"}
      BY <2>1 DEF AtMatch
    <2>3. \A p \in {"store", "read", "remove", "step"} : p \in Places /\ p \notin {"collect", "count", "return"}
      BY DEF Places
    <2>4. answer' = answer /\ \E p \in {"store", "read", "remove", "step"} : Goto(t, p)
      BY <1>11, <2>2 DEF Match, Differ
    <2> QED BY <1>3, <2>3, <2>4
  <1>12. CASE DifferAhead(t)
    <2>1. call[t] = "del" /\ Leads(t, pos[t])
      BY <1>1, <1>12, Known DEF WalkFits, DifferAhead, At
    <2>2. CASE pos[t] = Null
      <3>1. Null \in seen[t]
        BY <1>1, <2>1, <2>2, EndLeads
      <3>2. NotThere(t)
        BY <1>12, <2>1, <2>2 DEF DifferAhead, NotThere
      <3> QED BY <1>4, <3>1, <3>2
    <2>3. CASE pos[t] # Null
      BY <1>3, <1>12, <2>3 DEF DifferAhead, Places
    <2> QED BY <2>2, <2>3
  <1> QED BY <1>6, <1>7, <1>8, <1>9, <1>10, <1>11, <1>12

(* Of a robbed find, too, most steps nobody sees; but it may find no end   *)
(* of the list other than by chance.                                       *)
LEMMA RobbedWalkMaps ==
    ASSUME Inv, NEW t \in Threads, t \in robbed,
           \/ TestHead(t) \/ IsEmpty(t) \/ First(t) \/ Match(t) \/ Differ(t) \/ Step(t)
    PROVE  UNCHANGED Map!mapVars \/ \E u \in robbed : RobbedAnswer(u)
  <1>1. /\ pc[t] \in {"test", "empty", "first", "compare", "step"} /\ TypeOK
        /\ ~Answered(t) /\ call[t] = "find"
    BY DEF Inv, PlaceFits, Answered, TestHead, IsEmpty, First, Match, Differ, Step, At
  <1>2. MapStays /\ new' = new
    BY QuietMap DEF TestHead, IsEmpty, First, Match, Differ, Step, listVars, localVars
  <1>3. ASSUME NEW p \in Places, p \notin {"collect", "count", "return"}, Goto(t, p), answer' = answer
        PROVE  UNCHANGED Map!mapVars
    <2>1. ~Answered(t)' /\ \A u \in Threads \ {t} : pc'[u] = pc[u]
      BY <1>1, <1>3 DEF Goto, Answered, TypeOK
    <2> QED BY <1>1, <1>2, <1>3, <2>1, Unseen
  <1>4. ASSUME NotThere(t) PROVE \E u \in robbed : RobbedAnswer(u)
    <2>1. /\ Answered(t)' /\ answer' = [answer EXCEPT ![t] = Null]
          /\ \A u \in Threads \ {t} : pc'[u] = pc[u]
      BY <1>1, <1>4 DEF NotThere, Goto, Finish, Answered, TypeOK
    <2> QED BY <1>1, <1>2, <2>1, RobbedMaps
  <1>5. ASSUME NEW n, GoOn(t, n) PROVE UNCHANGED Map!mapVars \/ \E u \in robbed : RobbedAnswer(u)
    <2>1. NotThere(t) \/ (answer' = answer /\ Goto(t, "compare"))
      BY <1>1, <1>5 DEF GoOn
    <2>2. "compare" \in Places
      BY DEF Places
    <2> QED BY <1>3, <1>4, <2>1, <2>2
  <1>6. CASE TestHead(t)
    <2>1. NotThere(t) \/ (answer' = answer /\ Goto(t, "empty"))
      BY <1>1, <1>6 DEF TestHead
    <2>2. "empty" \in Places
      BY DEF Places
    <2> QED BY <1>3, <1>4, <2>1, <2>2
  <1>7. CASE IsEmpty(t)
    <2>1. NotThere(t) \/ (answer' = answer /\ Goto(t, "first"))
      BY <1>7 DEF IsEmpty
    <2>2. "first" \in Places
      BY DEF Places
    <2> QED BY <1>3, <1>4, <2>1, <2>2
  <1>8. CASE First(t) \/ Step(t)
    BY <1>5, <1>8 DEF First, Step
  <1>9. CASE Match(t) \/ Differ(t)
    <2>1. answer' = answer /\ (Goto(t, "read") \/ Goto(t, "step"))
      BY <1>1, <1>9 DEF Match, Differ, AtMatch
    <2>2. "read" \in Places /\ "step" \in Places
      BY DEF Places
    <2> QED BY <1>3, <2>1, <2>2
  <1> QED BY <1>6, <1>7, <1>8, <1>9

(* Initialisation of a bucket, the making of an entry, the freeing of      *)
(* nodes and the count are nobody's business.                              *)
LEMMA HiddenMaps ==
    ASSUME Inv, Inv', SeenFits, NEW t \in Threads,
           InitNext(t) \/ InitHead(t) \/ MakeEntry(t) \/ Collect(t) \/ CountDown(t)
    PROVE  UNCHANGED Map!mapVars
  <1>1. TypeOK /\ new' = new /\ answer' = answer /\ call' = call /\ arg' = arg
    BY DEF Inv, InitNext, InitHead, MakeEntry, Collect, CountDown, localVars
  <1>2. \A u \in Threads \ {t} : pc'[u] = pc[u]
    BY <1>1 DEF InitNext, InitHead, MakeEntry, Collect, CountDown, Goto, TypeOK
  <1>3. Answered(t)' <=> Answered(t)
    BY <1>1 DEF InitNext, InitHead, MakeEntry, Collect, CountDown, Goto, TypeOK, Answered, At
  <1>4. MapStays
    <2>1. CASE InitNext(t)
      <3>1. BucketAt(t) \notin ready
        BY <2>1 DEF Inv, PlaceFits, InitNext, At
      <3>2. InBucket(BucketAt(t)) = {}
        BY <3>1, UnusedBucket
      <3>3. listed' = listed /\ key' = key /\ value' = value
        BY <2>1, <3>2 DEF InitNext, Unlink
      <3>4. \A k : Lookup(k)' = Lookup(k)
        BY <3>3 DEF Lookup
      <3>5. seen' = seen
        <4>1. \A u \in Threads : seen'[u] = seen[u]
          BY <1>1, <2>1, <3>4 DEF InitNext, Watch, SeenFits
        <4>2. seen' = [u \in Threads |-> seen'[u]] /\ seen = [u \in Threads |-> seen[u]]
          BY <1>1, <2>1 DEF InitNext, Watch, TypeOK
        <4> QED BY <4>1, <4>2
      <3> QED BY <1>1, <3>4, <3>5 DEF MapStays
    <2>2. CASE InitHead(t) \/ CountDown(t)
      BY <1>1, <2>2, QuietMap DEF InitHead, CountDown, localVars
    <2>3. CASE MakeEntry(t) \/ Collect(t)
      BY <2>3, MakeEntryMap, CollectMap
    <2> QED BY <2>1, <2>2, <2>3
  <1> QED BY <1>1, <1>2, <1>3, <1>4, Unseen

(* What ImplementsKeyMap allows.                                           *)
MapStep == Map!Next \/ \E t \in robbed : RobbedAnswer(t)

LEMMA StepMaps == ASSUME Inv, Inv', SeenFits, [Next]_vars PROVE [MapStep]_(Map!mapVars)
  <1>1. CASE UNCHANGED vars
    BY <1>1 DEF vars, listVars, localVars, Map!mapVars, callSeen, Lookup
  <1>2. ASSUME NEW t \in Threads, Call(t) PROVE Map!Next
    <2>1. PICK k \in Keys : \/ \E v \in Values : Begin(t, "add", k, v)
                            \/ \E op \in {"find", "del"} : Begin(t, op, k, Null)
      BY <1>2 DEF Call
    <2>2. \/ \E v \in Values : Map!Begin(t, "add", k, v)
          \/ \E op \in {"find", "del"} : Map!Begin(t, op, k, Null)
      BY <2>1, BeginMaps
    <2> QED BY <2>2 DEF Map!Next
  <1>3. ASSUME NEW t \in Threads,
               \/ TestHead(t) \/ IsEmpty(t) \/ First(t) \/ ReadAhead(t)
               \/ Match(t) \/ Differ(t) \/ DifferAhead(t) \/ Step(t)
        PROVE  MapStep \/ UNCHANGED Map!mapVars
    <2>1. CASE t \notin robbed
      BY <1>3, <2>1, WalkMaps DEF MapStep
    <2>2. CASE t \in robbed
      <3>1. ~ReadAhead(t) /\ ~DifferAhead(t)
        BY <2>2 DEF Inv, PlaceFits, ReadAhead, DifferAhead, At
      <3> QED BY <1>3, <2>2, <3>1, RobbedWalkMaps DEF MapStep
    <2> QED BY <2>1, <2>2
  <1>4. ASSUME NEW t \in Threads,
               InitNext(t) \/ InitHead(t) \/ MakeEntry(t) \/ Collect(t) \/ CountDown(t)
        PROVE  UNCHANGED Map!mapVars
    BY <1>4, HiddenMaps
  <1>5. ASSUME NEW t \in Threads,
               \/ ReadValue(t) \/ StoreValue(t) \/ Insert(t) \/ Remove(t) \/ Return(t) \/ Destroy(t)
        PROVE  MapStep
    BY <1>5, ReadValueMaps, StoreValueMaps, InsertMaps, RemoveMaps, ReturnMaps, DestroyMaps DEF MapStep
  <1> QED BY <1>1, <1>2, <1>3, <1>4, <1>5 DEF Next, MapStep

(* The hash is an atomic map for its callers, find walking over deleted    *)
(* nodes included, as long as no bucket has had two writers at once; only  *)
(* a find under which a node was freed that it had met may answer wrong.   *)
THEOREM HashImplementsKeyMap == Spec => ImplementsKeyMap
  <1> DEFINE Fits == ~twoWriters => Inv /\ SeenFits
             Maps == ~twoWriters' => [MapStep]_(Map!mapVars)
  <1>1. Init => Map!Init /\ Fits
    <2>1. Init => Map!Init /\ SeenFits
      BY DEF Init, Map!Init, SeenFits, callSeen, Lookup
    <2> QED BY <2>1, InitFits
  <1>2. Fits /\ [Next]_vars => Fits' /\ Maps
    <2> SUFFICES ASSUME Fits, [Next]_vars, ~twoWriters' PROVE Inv' /\ SeenFits' /\ [MapStep]_(Map!mapVars)
      OBVIOUS
    <2>1. Inv /\ SeenFits /\ Inv'
      BY WritersRemembered, StepFits
    <2> QED BY <2>1, StepSeen, StepMaps
  <1>3. ImplementsKeyMap <=> Map!Init /\ [][Maps]_vars
    BY DEF ImplementsKeyMap, MapStep
  <1> HIDE DEF Fits, Maps
  <1>4. Fits /\ [Next]_vars => [Maps]_vars /\ Fits'
    BY <1>2
  <1> QED BY <1>1, <1>3, <1>4, PTL DEF Spec
=============================================================================
