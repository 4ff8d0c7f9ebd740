-------------------------- MODULE ModBundleProofs --------------------------
(***************************************************************************)
(* Proofs about ModBundle: what holds of creations and deletions of        *)
(* instances, with any threads, bundles, handles, owners and nodes.        *)
(*                                                                         *)
(* The theorems are about every behavior, those in which commands, stops,  *)
(* creations and deletions race in every way the code lets them.  Each     *)
(* says what holds for as long as no step has broken certain of the Rules. *)
(* AnyUse lasts until the same handle is deleted by two threads at once,   *)
(* which is what mod.c:192-197 does not see to.  OneUser, which says that  *)
(* the nodes in the lists, the instances that exist and the counters fit,  *)
(* lasts until besides                                                     *)
(*  - "oneAdmin": two threads run commands; of two that start one bundle  *)
(*    the second replaces the head that the first has registered;          *)
(*  - "freshAddresses": malloc returns an address that a node in a list   *)
(*    holds; mod_delete_instance frees the handle before it takes the node *)
(*    out.                                                                 *)
(***************************************************************************)
EXTENDS ModBundle, FiniteSetTheorems, TLAPS

\* No other thread is at a command.
Alone(t) == \A s \in Admins : s = t \/ th[s].pc = "idle"

Local == [pc : Places, id : 0 .. MaxId, bundle : Bundles \union {Null},
          handle : Handles \union {Null}, node : Nodes \union {Null},
          owner : Owners \union {Null}]

Srv == [mod : Bundles \union {Null}, state : States, p_iid : BOOLEAN, installed : BOOLEAN]

(* The types.  A counter is only an integer as long as nothing says what it  *)
(* counts.                                                                   *)

SrvTypes ==
    /\ global_id \in 1 .. MaxId + 1
    /\ srv \in [Ids -> Srv]
    /\ service_id \in [Bundles -> 0 .. MaxId]
    /\ \A i \in Ids : srv[i].installed => srv[i].mod \in Bundles

HeadTypes ==
    /\ registered \in SUBSET Bundles
    /\ list \in [Bundles -> SUBSET Nodes]
    /\ instance_counts \in [Bundles -> Int]

HeapTypes ==
    /\ p_handle \in [Nodes -> Handles \union {Null}]
    /\ heap \in SUBSET Handles /\ given \in SUBSET heap
    /\ token \in [Handles -> Owners \union {Null}]

ThreadTypes == dangling \in SUBSET Threads /\ th \in [Threads -> Local]

\* The places where a thread has a handle, and those where it has a node.
Holding == {"add", "count", "match", "free"}
HoldingNode == {"free", "unlink", "uncount"}

\* What the place of a thread says of its local variables.
Locals ==
    \A t \in Threads :
        /\ th[t].pc \in StartSteps \union StopSteps =>
              t \in Admins /\ th[t].id \in Ids /\ th[t].bundle \in Bundles
        /\ th[t].pc \in CreateSteps \union DeleteSteps => t \in Users /\ th[t].bundle \in Bundles
        /\ th[t].pc \in Holding <=> th[t].handle \in Handles
        /\ th[t].pc \in HoldingNode <=> th[t].node \in Nodes

\* A handle in the hands of a thread is allocated, and in those of no other.
HandlesHeld ==
    /\ \A t \in Threads :
        /\ th[t].pc \in {"add", "count"} => th[t].handle \in heap \ given
        /\ th[t].pc \in {"match", "free"} => th[t].handle \in given
        /\ th[t].pc = "free" => token[th[t].handle] = th[t].owner
    /\ \A s, t \in Threads :
          th[s].pc \in Holding /\ th[t].pc \in Holding /\ th[s].handle = th[t].handle => s = t

AnyUse == SrvTypes /\ HeadTypes /\ HeapTypes /\ ThreadTypes /\ Locals /\ HandlesHeld

(* The instances.  A thread that dangles reads a head that has been freed:   *)
(* nothing is said of it.                                                    *)

\* No handle is in two nodes, and no node is in two lists.
OneNode ==
    \A b, c \in Bundles : \A m \in list[b], n \in list[c] :
        /\ p_handle[m] = p_handle[n] => m = n
        /\ m = n => b = c

NodesHeld ==
    /\ \A t \in Threads \ dangling :
        /\ th[t].pc \in {"free", "unlink"} => th[t].node \in list[th[t].bundle]
        /\ th[t].pc = "free" => p_handle[th[t].node] = th[t].handle
        /\ th[t].pc = "unlink" => p_handle[th[t].node] \notin heap
        /\ th[t].pc = "uncount" => \A b \in Bundles : th[t].node \notin list[b]
        /\ th[t].pc \in {"count", "match"} =>
              \E n \in list[th[t].bundle] : p_handle[n] = th[t].handle
    /\ \A s, t \in Threads \ dangling :
          th[s].pc \in HoldingNode /\ th[t].pc \in HoldingNode /\ th[s].node = th[t].node => s = t

\* The handle of a node in a list is allocated, or the node is about to leave.
Listed ==
    \A b \in Bundles : \A n \in list[b] :
        /\ p_handle[n] \in Handles
        /\ \/ p_handle[n] \in heap
           \/ \E t \in Threads \ dangling : th[t].pc = "unlink" /\ th[t].node = n
        /\ \A t \in Threads : th[t].pc = "add" => p_handle[n] # th[t].handle

Inside(b) == Doing(b, CreateSteps \union DeleteSteps) \ dangling

\* What is not registered is empty, once its head is freed.
Withdrawn ==
    /\ \A b \in Bundles \ registered : Doing(b, {"freeHead"}) = {} =>
          list[b] = {} /\ Inside(b) = {}
    /\ \A t \in Threads : th[t].pc \in {"registerAdd", "freeHead"} => th[t].bundle \notin registered

\* The nodes instance_counts counts: those in the list that are not about to
\* be counted, and those out of the list that are about to be uncounted.
Counting(n) == \E t \in Threads \ dangling : th[t].pc = "count" /\ th[t].handle = p_handle[n]
Counted(b) ==
    {n \in list[b] : ~Counting(n)} \union {th[t].node : t \in Doing(b, {"uncount"}) \ dangling}
CountsMatch ==
    \A b \in Bundles : IsFiniteSet(Counted(b)) /\ instance_counts[b] = Cardinality(Counted(b))

OneUser == OneNode /\ NodesHeld /\ Listed /\ Withdrawn /\ CountsMatch
-----------------------------------------------------------------------------
\* What a step makes of a thread: it is the only one that moves, ...
Moves(t, p, i, b, h, n, o) ==
    /\ th' \in [Threads -> Local] /\ \A s \in Threads \ {t} : th'[s] = th[s]
    /\ th'[t].pc = p /\ th'[t].id = i /\ th'[t].bundle = b
    /\ th'[t].handle = h /\ th'[t].node = n /\ th'[t].owner = o

\* ... and what it makes of a service.
Serves(i, m, s, p, k) ==
    /\ srv' \in [Ids -> Srv] /\ \A j \in Ids \ {i} : srv'[j] = srv[j]
    /\ srv'[i].mod = m /\ srv'[i].state = s /\ srv'[i].p_iid = p /\ srv'[i].installed = k

Stays(t, p) == Moves(t, p, th[t].id, th[t].bundle, th[t].handle, th[t].node, th[t].owner)
Returns(t)  == Moves(t, "idle", 0, Null, Null, Null, Null)
Calls(t, p, i, b, h, o) == Moves(t, p, i, b, h, Null, o)

\* The three ways a step moves its thread, ...
LEMMA Going ==
    ASSUME th \in [Threads -> Local], NEW t \in Threads, NEW p \in Places, Goto(t, p)
    PROVE  Moves(t, p, th[t].id, th[t].bundle, th[t].handle, th[t].node, th[t].owner)
<1>1. [th[t] EXCEPT !.pc = p] \in Local
  BY DEF Local
<1>2. th' = [th EXCEPT ![t] = [th[t] EXCEPT !.pc = p]]
  BY DEF Goto
<1> QED BY <1>1, <1>2 DEF Moves, Local

LEMMA Returning ==
    ASSUME th \in [Threads -> Local], NEW t \in Threads, Return(t)
    PROVE  Moves(t, "idle", 0, Null, Null, Null, Null)
<1>1. Idle \in Local
  BY ModBundleAssumption DEF Idle, Local, Places
<1> QED BY <1>1 DEF Return, Moves, Idle

LEMMA Calling ==
    ASSUME th \in [Threads -> Local], NEW t \in Threads, NEW r \in Local, th' = [th EXCEPT ![t] = r]
    PROVE  Moves(t, r.pc, r.id, r.bundle, r.handle, r.node, r.owner)
BY DEF Moves

\* ... and the ways it writes to a service.
LEMMA Serving ==
    ASSUME srv \in [Ids -> Srv], NEW i \in Ids, NEW r \in Srv, srv' = [srv EXCEPT ![i] = r]
    PROVE  Serves(i, r.mod, r.state, r.p_iid, r.installed)
BY DEF Serves

LEMMA Stating ==
    ASSUME srv \in [Ids -> Srv], NEW t \in Threads, th[t].id \in Ids, NEW s \in States,
           SetState(t, s)
    PROVE  Serves(th[t].id, srv[th[t].id].mod, s, srv[th[t].id].p_iid, srv[th[t].id].installed)
<1> DEFINE r == [srv[th[t].id] EXCEPT !.state = s]
<1>1. /\ r \in Srv /\ r.mod = srv[th[t].id].mod /\ r.state = s
      /\ r.p_iid = srv[th[t].id].p_iid /\ r.installed = srv[th[t].id].installed
  BY DEF Srv
<1>2. srv' = [srv EXCEPT ![th[t].id] = r]
  BY DEF SetState
<1> HIDE DEF r
<1> QED BY <1>1, <1>2, Serving

LEMMA Telling ==
    ASSUME srv \in [Ids -> Srv], NEW i \in Ids,
           NEW p \in BOOLEAN, srv' = [srv EXCEPT ![i].p_iid = p]
    PROVE  Serves(i, srv[i].mod, srv[i].state, p, srv[i].installed)
<1> DEFINE r == [srv[i] EXCEPT !.p_iid = p]
<1>1. /\ r \in Srv /\ r.mod = srv[i].mod /\ r.state = srv[i].state /\ r.p_iid = p
      /\ r.installed = srv[i].installed
  BY DEF Srv
<1>2. srv' = [srv EXCEPT ![i] = r]
  OBVIOUS
<1> HIDE DEF r
<1> QED BY <1>1, <1>2, Serving

LEMMA Removing ==
    ASSUME srv \in [Ids -> Srv], NEW i \in Ids, srv' = [srv EXCEPT ![i].installed = FALSE]
    PROVE  Serves(i, srv[i].mod, srv[i].state, srv[i].p_iid, FALSE)
<1> DEFINE r == [srv[i] EXCEPT !.installed = FALSE]
<1>1. /\ r \in Srv /\ r.mod = srv[i].mod /\ r.state = srv[i].state
      /\ r.p_iid = srv[i].p_iid /\ r.installed = FALSE
  BY DEF Srv
<1>2. srv' = [srv EXCEPT ![i] = r]
  OBVIOUS
<1> HIDE DEF r
<1> QED BY <1>1, <1>2, Serving

\* Nothing is installed, and nobody is inside, at the start.
LEMMA InitAny == Init => AnyUse
BY ModBundleAssumption DEF Init, AnyUse, SrvTypes, HeadTypes, HeapTypes, ThreadTypes, Locals,
   HandlesHeld, Local, Idle, NoSrv, Places, States, Holding, HoldingNode, StartSteps,
   StopSteps, CreateSteps, DeleteSteps, Ids, Srv

(* What each action does to its thread and to its service.                 *)

Sets(i, s) == Serves(i, srv[i].mod, s, srv[i].p_iid, srv[i].installed)
Tells(i, p) == Serves(i, srv[i].mod, srv[i].state, p, srv[i].installed)

\* What the definitions take for granted of a thread.
LEMMA AdminIn ==
    ASSUME AnyUse, NEW t \in Admins
    PROVE  /\ th \in [Threads -> Local] /\ srv \in [Ids -> Srv] /\ service_id \in [Bundles -> 0 .. MaxId]
           /\ t \in Threads /\ Ids \subseteq 0 .. MaxId
           /\ th[t].pc \in StartSteps \union StopSteps => th[t].id \in Ids /\ th[t].bundle \in Bundles
BY ModBundleAssumption DEF AnyUse, SrvTypes, ThreadTypes, Locals, Threads, Ids

LEMMA UserIn ==
    ASSUME AnyUse, NEW t \in Users
    PROVE  /\ th \in [Threads -> Local] /\ t \in Threads /\ 0 \in 0 .. MaxId
           /\ th[t].pc \in CreateSteps \union DeleteSteps => th[t].bundle \in Bundles
BY ModBundleAssumption DEF AnyUse, ThreadTypes, Locals, Threads

\* What each action does to its thread and to its service.
LEMMA StartCheckDoes ==
    ASSUME AnyUse, NEW t \in Admins, NEW i \in Ids, StartCheck(t, i)
    PROVE  srv[i].mod \in Bundles /\ Calls(t, "startMark", i, srv[i].mod, Null, Null)
<1>0. srv[i].mod \in Bundles
  BY DEF StartCheck, AnyUse, SrvTypes
<1> DEFINE r == [Idle EXCEPT !.pc = "startMark", !.id = i, !.bundle = srv[i].mod]
<1>1. "startMark" \in Places /\ i \in 0 .. MaxId
  BY AdminIn DEF Places, StartSteps, StopSteps, CreateSteps, DeleteSteps
<1>2. r \in Local
  BY <1>1, <1>0 DEF Idle, Local
<1>3. /\ r.pc = "startMark" /\ r.id = i /\ r.bundle = srv[i].mod /\ r.handle = Null
      /\ r.node = Null /\ r.owner = Null
  BY DEF Idle
<1>4. th' = [th EXCEPT ![t] = r]
  BY DEF StartCheck
<1> HIDE DEF r
<1> QED BY <1>2, <1>3, <1>4, AdminIn, Calling, <1>0 DEF Calls

LEMMA StopCheckDoes ==
    ASSUME AnyUse, NEW t \in Admins, NEW i \in Ids, StopCheck(t, i)
    PROVE  srv[i].mod \in Bundles /\ Calls(t, "stopMark", i, srv[i].mod, Null, Null)
<1>0. srv[i].mod \in Bundles
  BY DEF StopCheck, AnyUse, SrvTypes
<1> DEFINE r == [Idle EXCEPT !.pc = "stopMark", !.id = i, !.bundle = srv[i].mod]
<1>1. "stopMark" \in Places /\ i \in 0 .. MaxId
  BY AdminIn DEF Places, StartSteps, StopSteps, CreateSteps, DeleteSteps
<1>2. r \in Local
  BY <1>1, <1>0 DEF Idle, Local
<1>3. /\ r.pc = "stopMark" /\ r.id = i /\ r.bundle = srv[i].mod /\ r.handle = Null
      /\ r.node = Null /\ r.owner = Null
  BY DEF Idle
<1>4. th' = [th EXCEPT ![t] = r]
  BY DEF StopCheck
<1> HIDE DEF r
<1> QED BY <1>2, <1>3, <1>4, AdminIn, Calling, <1>0 DEF Calls

LEMMA CreateFindDoes ==
    ASSUME AnyUse, NEW t \in Users, NEW b \in Bundles, NEW o \in Owners, CreateFind(t, b, o)
    PROVE  /\ Calls(t, "alloc", 0, b, Null, o)
           /\ th[t].pc = "idle"
           /\ b \in registered
           /\ "calmStops" \notin broken' => Doing(b, {"stopMark", "unregister", "hashDel"}) = {}
           /\ UNCHANGED <<srvVars, headVars, heapVars, dangling>>
<1> DEFINE r == [Idle EXCEPT !.pc = "alloc", !.bundle = b, !.owner = o]
<1>1. "alloc" \in Places /\ 0 \in 0 .. MaxId
  BY UserIn DEF Places, StartSteps, StopSteps, CreateSteps, DeleteSteps
<1>2. r \in Local
  BY <1>1 DEF Idle, Local
<1>3. r.pc = "alloc" /\ r.id = 0 /\ r.bundle = b /\ r.handle = Null /\ r.node = Null /\ r.owner = o
  BY DEF Idle
<1>4. th' = [th EXCEPT ![t] = r]
  BY DEF CreateFind
<1> HIDE DEF r
<1>10. Calls(t, "alloc", 0, b, Null, o)
  BY <1>2, <1>3, <1>4, UserIn, Calling DEF Calls
<1>11. "calmStops" \notin broken' => Doing(b, {"stopMark", "unregister", "hashDel"}) = {}
  BY DEF CreateFind, Breaks, CalmCreation, Rule
<1> QED BY <1>10, <1>11 DEF CreateFind, At

LEMMA DeleteFindDoes ==
    ASSUME AnyUse, NEW t \in Users, NEW b \in Bundles, NEW h \in Handles, NEW o \in Owners,
           DeleteFind(t, b, h, o)
    PROVE  /\ Calls(t, "match", 0, b, h, o)
           /\ th[t].pc = "idle"
           /\ b \in registered
           /\ h \in given /\ \E n \in list[b] : p_handle[n] = h
           /\ "oneDeletion" \notin broken' =>
                 \A u \in Threads : th[u].pc \in {"match", "free"} => th[u].handle # h
           /\ UNCHANGED <<srvVars, headVars, heapVars, dangling>>
<1> DEFINE r == [Idle EXCEPT !.pc = "match", !.bundle = b, !.handle = h, !.owner = o]
<1>1. "match" \in Places /\ 0 \in 0 .. MaxId
  BY UserIn DEF Places, StartSteps, StopSteps, CreateSteps, DeleteSteps
<1>2. r \in Local
  BY <1>1 DEF Idle, Local
<1>3. r.pc = "match" /\ r.id = 0 /\ r.bundle = b /\ r.handle = h /\ r.node = Null /\ r.owner = o
  BY DEF Idle
<1>4. th' = [th EXCEPT ![t] = r]
  BY DEF DeleteFind
<1> HIDE DEF r
<1>10. Calls(t, "match", 0, b, h, o)
  BY <1>2, <1>3, <1>4, UserIn, Calling DEF Calls
<1>11. "oneDeletion" \notin broken' =>
          \A u \in Threads : th[u].pc \in {"match", "free"} => th[u].handle # h
  BY DEF DeleteFind, Breaks, Rule
<1> QED BY <1>10, <1>11 DEF DeleteFind, At

LEMMA StopMarkDoes ==
    ASSUME AnyUse, NEW t \in Admins, StopMark(t)
    PROVE  Stays(t, "unregister") /\ Sets(th[t].id, "STOPPING")
<1>1. "unregister" \in Places /\ "STOPPING" \in States /\ th[t].id \in Ids
  BY AdminIn DEF Places, StartSteps, StopSteps, CreateSteps, DeleteSteps, States, StopMark, At
<1> QED BY <1>1, AdminIn, Going, Stating DEF StopMark, Stays, Sets

LEMMA ActivateDoes ==
    ASSUME AnyUse, NEW t \in Admins, Activate(t)
    PROVE  Returns(t) /\ Sets(th[t].id, "ACTIVE")
<1>1. "ACTIVE" \in States /\ th[t].id \in Ids
  BY AdminIn DEF States, Activate, At, StartSteps, StopSteps
<1> QED BY <1>1, AdminIn, Returning, Stating DEF Activate, Returns, Sets

LEMMA StoppedDoes ==
    ASSUME AnyUse, NEW t \in Admins, Stopped(t)
    PROVE  Returns(t) /\ Sets(th[t].id, "INSTALLED")
<1>1. "INSTALLED" \in States /\ th[t].id \in Ids
  BY AdminIn DEF States, Stopped, At, StartSteps, StopSteps
<1> QED BY <1>1, AdminIn, Returning, Stating DEF Stopped, Returns, Sets

LEMMA StartMarkDoes ==
    ASSUME AnyUse, NEW t \in Admins, StartMark(t)
    PROVE  \/ Returns(t) /\ Sets(th[t].id, "START_FAILED")
           \/ Stays(t, "register") /\ Sets(th[t].id, "STARTING")
<1>1. "register" \in Places /\ {"START_FAILED", "STARTING"} \subseteq States /\ th[t].id \in Ids
  BY AdminIn DEF Places, StartSteps, StopSteps, CreateSteps, DeleteSteps, States, StartMark, At
<1> QED BY <1>1, AdminIn, Going, Returning, Stating DEF StartMark, Stays, Returns, Sets

LEMMA FailingDoes ==
    ASSUME AnyUse, NEW t \in Admins, NEW p \in Places, th[t].id \in Ids, RegistrationFails(t, p)
    PROVE  \/ Returns(t) /\ Sets(th[t].id, "START_FAILED")
           \/ Stays(t, p) /\ UNCHANGED srv
<1>1. "START_FAILED" \in States
  BY DEF States
<1> QED BY <1>1, AdminIn, Going, Returning, Stating DEF RegistrationFails, Stays, Returns, Sets

LEMMA RegisterFindDoes ==
    ASSUME AnyUse, NEW t \in Admins, RegisterFind(t)
    PROVE  \/ Returns(t) /\ Sets(th[t].id, "START_FAILED") /\ th[t].bundle \in registered
           \/ Stays(t, "iidRegister") /\ UNCHANGED srv /\ th[t].bundle \in registered
           \/ Stays(t, "registerAdd") /\ UNCHANGED srv /\ th[t].bundle \notin registered
<1>1. "iidRegister" \in Places /\ "registerAdd" \in Places /\ th[t].id \in Ids
  BY AdminIn DEF Places, StartSteps, StopSteps, CreateSteps, DeleteSteps, RegisterFind, At
<1>2. CASE th[t].bundle \in registered
  BY <1>1, <1>2, FailingDoes DEF RegisterFind
<1>3. CASE th[t].bundle \notin registered
  BY <1>1, <1>3, AdminIn, Going DEF RegisterFind, Stays
<1> QED BY <1>2, <1>3

LEMMA IIDRegisterDoes ==
    ASSUME AnyUse, NEW t \in Admins, IIDRegister(t)
    PROVE  LET i == service_id[th[t].bundle] IN
           \/ i \in Ids /\ srv[i].installed /\ Stays(t, "activate") /\ Tells(i, TRUE)
           \/ ~(i \in Ids /\ srv[i].installed) /\ Returns(t) /\ Sets(th[t].id, "START_FAILED")
           \/ ~(i \in Ids /\ srv[i].installed) /\ Stays(t, "activate") /\ UNCHANGED srv
<1> DEFINE i == service_id[th[t].bundle]
<1>1. "activate" \in Places /\ th[t].id \in Ids
  BY AdminIn DEF Places, StartSteps, StopSteps, CreateSteps, DeleteSteps, IIDRegister, At
<1>2. CASE i \in Ids /\ srv[i].installed
  BY <1>1, <1>2, AdminIn, Going, Telling DEF IIDRegister, Stays, Tells
<1>3. CASE ~(i \in Ids /\ srv[i].installed)
  BY <1>1, <1>3, FailingDoes DEF IIDRegister
<1> QED BY <1>2, <1>3

LEMMA IIDUnregisterDoes ==
    ASSUME AnyUse, NEW t \in Admins, IIDUnregister(t)
    PROVE  /\ Stays(t, "installed")
           /\ LET i == service_id[th[t].bundle] IN
              \/ i \in Ids /\ srv[i].installed /\ Tells(i, FALSE)
              \/ ~(i \in Ids /\ srv[i].installed) /\ UNCHANGED srv
<1> DEFINE i == service_id[th[t].bundle]
<1>1. "installed" \in Places
  BY DEF Places, StartSteps, StopSteps, CreateSteps, DeleteSteps
<1>2. Stays(t, "installed")
  BY <1>1, AdminIn, Going DEF IIDUnregister, Stays
<1>3. CASE i \in Ids /\ srv[i].installed
  BY <1>2, <1>3, AdminIn, Telling DEF IIDUnregister, Tells
<1>4. CASE ~(i \in Ids /\ srv[i].installed)
  BY <1>2, <1>4 DEF IIDUnregister
<1> QED BY <1>3, <1>4

LEMMA RegisterAddDoes ==
    ASSUME AnyUse, NEW t \in Admins, RegisterAdd(t)
    PROVE  Stays(t, "iidRegister")
<1>1. "iidRegister" \in Places
  BY DEF Places, StartSteps, StopSteps, CreateSteps, DeleteSteps
<1> QED BY <1>1, AdminIn, Going DEF RegisterAdd, Stays

LEMMA HashDelDoes ==
    ASSUME AnyUse, NEW t \in Admins, HashDel(t)
    PROVE  Stays(t, "freeHead")
<1>1. "freeHead" \in Places
  BY DEF Places, StartSteps, StopSteps, CreateSteps, DeleteSteps
<1> QED BY <1>1, AdminIn, Going DEF HashDel, Stays

LEMMA FreeHeadDoes ==
    ASSUME AnyUse, NEW t \in Admins, FreeHead(t)
    PROVE  Stays(t, "iidUnregister")
<1>1. "iidUnregister" \in Places
  BY DEF Places, StartSteps, StopSteps, CreateSteps, DeleteSteps
<1> QED BY <1>1, AdminIn, Going DEF FreeHead, Stays

LEMMA UnregisterDoes ==
    ASSUME AnyUse, NEW t \in Admins, Unregister(t)
    PROVE  IF list[th[t].bundle] = {} /\ instance_counts[th[t].bundle] = 0
           THEN Stays(t, "hashDel") ELSE Stays(t, "installed")
<1>1. "hashDel" \in Places /\ "installed" \in Places
  BY DEF Places, StartSteps, StopSteps, CreateSteps, DeleteSteps
<1> QED BY <1>1, AdminIn, Going DEF Unregister, Stays

LEMMA InstallDoes ==
    ASSUME AnyUse, NEW t \in Admins, NEW b \in Bundles, Install(t, b)
    PROVE  /\ global_id \in Ids
           /\ \/ UNCHANGED <<srv, service_id>>
              \/ /\ Serves(global_id, b, "INSTALLED", FALSE, TRUE)
                 /\ service_id' = [service_id EXCEPT ![b] = global_id]
<1>1. global_id \in Ids
  BY ModBundleAssumption DEF Install, AnyUse, SrvTypes, Ids
<1>2. [mod |-> b, state |-> "INSTALLED", p_iid |-> FALSE, installed |-> TRUE] \in Srv
  BY DEF Srv, States
<1> QED BY <1>1, <1>2, AdminIn, Serving DEF Install

LEMMA UninstallDoes ==
    ASSUME AnyUse, NEW t \in Admins, NEW i \in Ids, Uninstall(t, i)
    PROVE  srv[i].mod \in Bundles /\ Serves(i, srv[i].mod, srv[i].state, srv[i].p_iid, FALSE)
<1>1. srv[i].mod \in Bundles
  BY DEF Uninstall, AnyUse, SrvTypes
<1> QED BY <1>1, AdminIn, Removing DEF Uninstall

LEMMA CreateAddDoes ==
    ASSUME AnyUse, NEW t \in Users, NEW n \in Nodes, CreateAdd(t, n)
    PROVE  /\ Stays(t, "count")
           /\ th[t].pc = "add" /\ t \notin dangling
           /\ \A b \in Bundles : n \notin list[b]
           /\ \A u \in Threads : th[u].node # n
           /\ p_handle' = [p_handle EXCEPT ![n] = th[t].handle]
           /\ list' = [list EXCEPT ![th[t].bundle] = @ \union {n}]
           /\ UNCHANGED <<srvVars, registered, instance_counts, heap, token, given, dangling>>
<1>1. "count" \in Places
  BY DEF Places, StartSteps, StopSteps, CreateSteps, DeleteSteps
<1>10. Stays(t, "count")
  BY <1>1, UserIn, Going DEF CreateAdd, Stays
<1> QED BY <1>10 DEF CreateAdd, At

LEMMA DeleteUnlinkDoes ==
    ASSUME AnyUse, NEW t \in Users, DeleteUnlink(t)
    PROVE  /\ Stays(t, "uncount")
           /\ th[t].pc = "unlink" /\ t \notin dangling
           /\ list' = [list EXCEPT ![th[t].bundle] = @ \ {th[t].node}]
           /\ UNCHANGED <<srvVars, registered, instance_counts, heapVars, dangling>>
<1>1. "uncount" \in Places
  BY DEF Places, StartSteps, StopSteps, CreateSteps, DeleteSteps
<1>10. Stays(t, "uncount")
  BY <1>1, UserIn, Going DEF DeleteUnlink, Stays
<1> QED BY <1>10 DEF DeleteUnlink, At

LEMMA CreateCountDoes ==
    ASSUME AnyUse, NEW t \in Users, CreateCount(t)
    PROVE  /\ Returns(t)
           /\ th[t].pc = "count" /\ t \notin dangling
           /\ instance_counts' = [instance_counts EXCEPT ![th[t].bundle] = @ + 1]
           /\ given' = given \union {th[t].handle}
           /\ UNCHANGED <<srvVars, registered, list, p_handle, heap, token, dangling>>
BY UserIn, Returning DEF CreateCount, Returns, At

LEMMA DeleteUncountDoes ==
    ASSUME AnyUse, NEW t \in Users, DeleteUncount(t)
    PROVE  /\ Returns(t)
           /\ th[t].pc = "uncount" /\ t \notin dangling
           /\ instance_counts' = [instance_counts EXCEPT ![th[t].bundle] = @ - 1]
           /\ UNCHANGED <<srvVars, registered, list, heapVars, dangling>>
BY UserIn, Returning DEF DeleteUncount, Returns, At

LEMMA CreateAllocDoes ==
    ASSUME AnyUse, NEW t \in Users, NEW h \in Handles, CreateAlloc(t, h)
    PROVE  /\ Moves(t, "add", th[t].id, th[t].bundle, h, th[t].node, th[t].owner)
           /\ th[t].pc = "alloc"
           /\ h \notin heap
           /\ heap' = heap \union {h}
           /\ token' = [token EXCEPT ![h] = th[t].owner]
           /\ "freshAddresses" \notin broken' => \A b \in Bundles : \A n \in list[b] : p_handle[n] # h
           /\ UNCHANGED <<srvVars, headVars, p_handle, given, dangling>>
<1>1. [th[t] EXCEPT !.pc = "add", !.handle = h] \in Local
  <2>1. "add" \in Places /\ th[t] \in Local
    BY UserIn DEF Places, CreateSteps
  <2> QED BY <2>1 DEF Local
<1>2. th' = [th EXCEPT ![t] = [th[t] EXCEPT !.pc = "add", !.handle = h]]
  BY DEF CreateAlloc
<1>10. Moves(t, "add", th[t].id, th[t].bundle, h, th[t].node, th[t].owner)
  BY <1>1, <1>2, UserIn DEF Moves, Local
<1>11. "freshAddresses" \notin broken' => \A b \in Bundles : \A n \in list[b] : p_handle[n] # h
  BY DEF CreateAlloc, Breaks, Rule
<1> QED BY <1>10, <1>11 DEF CreateAlloc, At

LEMMA DeleteFreeDoes ==
    ASSUME AnyUse, NEW t \in Users, DeleteFree(t)
    PROVE  /\ Moves(t, "unlink", th[t].id, th[t].bundle, Null, th[t].node, th[t].owner)
           /\ th[t].pc = "free" /\ t \notin dangling
           /\ heap' = heap \ {th[t].handle} /\ given' = given \ {th[t].handle}
           /\ token' = [token EXCEPT ![th[t].handle] = Null]
           /\ UNCHANGED <<srvVars, headVars, p_handle, dangling>>
<1>1. [th[t] EXCEPT !.pc = "unlink", !.handle = Null] \in Local
  <2>1. "unlink" \in Places /\ th[t] \in Local
    BY UserIn DEF Places, DeleteSteps
  <2> QED BY <2>1 DEF Local
<1>2. th' = [th EXCEPT ![t] = [th[t] EXCEPT !.pc = "unlink", !.handle = Null]]
  BY DEF DeleteFree
<1>10. Moves(t, "unlink", th[t].id, th[t].bundle, Null, th[t].node, th[t].owner)
  BY <1>1, <1>2, UserIn DEF Moves, Local
<1> QED BY <1>10 DEF DeleteFree, At

LEMMA DeleteMatchDoes ==
    ASSUME AnyUse, NEW t \in Users, DeleteMatch(t)
    PROVE  /\ \/ Returns(t)
              \/ /\ token[th[t].handle] = th[t].owner
                 /\ \E n \in list[th[t].bundle] :
                       /\ p_handle[n] = th[t].handle
                       /\ Moves(t, "free", th[t].id, th[t].bundle, th[t].handle, n, th[t].owner)
           /\ th[t].pc = "match" /\ t \notin dangling
           /\ UNCHANGED <<srvVars, headVars, heapVars, dangling>>
<1>1. ASSUME Return(t) PROVE Returns(t)
  BY <1>1, UserIn, Returning DEF Returns
<1>2. ASSUME NEW n \in list[th[t].bundle], th' = [th EXCEPT ![t].pc = "free", ![t].node = n]
      PROVE  Moves(t, "free", th[t].id, th[t].bundle, th[t].handle, n, th[t].owner)
  <2>0. n \in Nodes
    BY UserIn DEF DeleteMatch, At, DeleteSteps, AnyUse, HeadTypes
  <2>1. [th[t] EXCEPT !.pc = "free", !.node = n] \in Local
    <3>1. "free" \in Places /\ th[t] \in Local
      BY UserIn DEF Places, DeleteSteps
    <3> QED BY <2>0, <3>1 DEF Local
  <2>2. th' = [th EXCEPT ![t] = [th[t] EXCEPT !.pc = "free", !.node = n]]
    BY <1>2
  <2> QED BY <2>1, <2>2, UserIn DEF Moves, Local
<1>10. \/ Returns(t)
       \/ /\ token[th[t].handle] = th[t].owner
          /\ \E n \in list[th[t].bundle] :
                /\ p_handle[n] = th[t].handle
                /\ Moves(t, "free", th[t].id, th[t].bundle, th[t].handle, n, th[t].owner)
  BY <1>1, <1>2 DEF DeleteMatch
<1> QED BY <1>10 DEF DeleteMatch, At

\* The types, of a step that writes one service and moves one thread.
LEMMA ServicesTyped ==
    ASSUME AnyUse, UNCHANGED <<global_id, service_id>>,
           UNCHANGED srv \/ \E i \in Ids, m \in Bundles \union {Null}, s \in States, p, k \in BOOLEAN :
                               Serves(i, m, s, p, k) /\ (k => m \in Bundles)
    PROVE  SrvTypes'
BY DEF AnyUse, SrvTypes, Serves

LEMMA Setting ==
    ASSUME AnyUse, UNCHANGED <<global_id, service_id>>, NEW i \in Ids,
           (\E s \in States : Sets(i, s)) \/ (\E p \in BOOLEAN : Tells(i, p))
    PROVE  SrvTypes'
BY DEF AnyUse, SrvTypes, Serves, Sets, Tells

LEMMA ThreadsTyped ==
    ASSUME AnyUse, dangling' \subseteq Threads, NEW t \in Threads,
           NEW p, NEW i, NEW b, NEW h, NEW n, NEW o, Moves(t, p, i, b, h, n, o),
           p \in StartSteps \union StopSteps => t \in Admins /\ i \in Ids /\ b \in Bundles,
           p \in CreateSteps \union DeleteSteps => t \in Users /\ b \in Bundles,
           p \in Holding <=> h \in Handles,
           p \in HoldingNode <=> n \in Nodes
    PROVE  ThreadTypes' /\ Locals'
<1>1. \A s \in Threads \ {t} : th'[s] = th[s]
  BY DEF Moves
<1>2. th'[t].pc = p /\ th'[t].id = i /\ th'[t].bundle = b /\ th'[t].handle = h /\ th'[t].node = n
  BY DEF Moves
<1>3. Locals'
  BY <1>1, <1>2 DEF AnyUse, Locals
<1> QED BY <1>3 DEF Moves, ThreadTypes

Same == UNCHANGED <<srvVars, headVars, heapVars, dangling>>

\* A thread that runs commands holds neither a handle nor a node.
LEMMA AdminHolds ==
    ASSUME AnyUse, NEW t \in Admins
    PROVE  th[t].handle \notin Handles /\ th[t].node \notin Nodes
           /\ th[t].pc \notin CreateSteps \union DeleteSteps
BY ModBundleAssumption DEF AnyUse, Locals, Threads, Holding, HoldingNode, CreateSteps,
   DeleteSteps, StartSteps, StopSteps

\* A step of an admin touches no handle, so that only its own place matters.
AdminMoves(t, p, i, b) ==
    /\ p \in {"idle"} \union StartSteps \union StopSteps
    /\ p # "idle" => i \in Ids /\ b \in Bundles
    /\ \E h, n, o : Moves(t, p, i, b, h, n, o) /\ h \notin Handles /\ n \notin Nodes

LEMMA AdminMoving ==
    ASSUME AnyUse, NEW t \in Admins
    PROVE  /\ Returns(t) => AdminMoves(t, "idle", 0, Null)
           /\ \A p \in StartSteps \union StopSteps :
                th[t].pc # "idle" /\ Stays(t, p) => AdminMoves(t, p, th[t].id, th[t].bundle)
           /\ \A p \in StartSteps \union StopSteps, i \in Ids, b \in Bundles :
                Calls(t, p, i, b, Null, Null) => AdminMoves(t, p, i, b)
<1>1. Null \notin Handles /\ Null \notin Nodes
  BY ModBundleAssumption
<1>2. Returns(t) => AdminMoves(t, "idle", 0, Null)
  BY <1>1 DEF Returns, AdminMoves
<1>3. ASSUME NEW p \in StartSteps \union StopSteps, th[t].pc # "idle", Stays(t, p)
      PROVE  AdminMoves(t, p, th[t].id, th[t].bundle)
  <2>1. th[t].pc \in StartSteps \union StopSteps
    BY <1>3, AdminHolds, AdminIn DEF Local, Places
  <2> QED BY <1>3, <2>1, AdminIn, AdminHolds DEF Stays, AdminMoves
<1>4. ASSUME NEW p \in StartSteps \union StopSteps, NEW i \in Ids, NEW b \in Bundles,
             Calls(t, p, i, b, Null, Null)
      PROVE  AdminMoves(t, p, i, b)
  BY <1>1, <1>4 DEF Calls, AdminMoves
<1> QED BY <1>2, <1>3, <1>4

\* Where each command goes next.
LEMMA AdminGoes ==
    ASSUME AnyUse, NEW t \in Admins
    PROVE  /\ \A i \in Ids : StartCheck(t, i) => AdminMoves(t, "startMark", i, srv[i].mod)
           /\ \A i \in Ids : StopCheck(t, i) => AdminMoves(t, "stopMark", i, srv[i].mod)
           /\ StartMark(t) =>
                 AdminMoves(t, "idle", 0, Null) \/ AdminMoves(t, "register", th[t].id, th[t].bundle)
           /\ RegisterFind(t) =>
                \/ AdminMoves(t, "idle", 0, Null)
                \/ AdminMoves(t, "iidRegister", th[t].id, th[t].bundle)
                \/ AdminMoves(t, "registerAdd", th[t].id, th[t].bundle) /\ th[t].bundle \notin registered
           /\ RegisterAdd(t) => AdminMoves(t, "iidRegister", th[t].id, th[t].bundle)
           /\ IIDRegister(t) =>
                 AdminMoves(t, "idle", 0, Null) \/ AdminMoves(t, "activate", th[t].id, th[t].bundle)
           /\ Activate(t) => AdminMoves(t, "idle", 0, Null)
           /\ StopMark(t) => AdminMoves(t, "unregister", th[t].id, th[t].bundle)
           /\ Unregister(t) =>
                 AdminMoves(t, "hashDel", th[t].id, th[t].bundle) \/ AdminMoves(t, "installed", th[t].id, th[t].bundle)
           /\ HashDel(t) => AdminMoves(t, "freeHead", th[t].id, th[t].bundle)
           /\ FreeHead(t) => AdminMoves(t, "iidUnregister", th[t].id, th[t].bundle)
           /\ IIDUnregister(t) => AdminMoves(t, "installed", th[t].id, th[t].bundle)
           /\ Stopped(t) => AdminMoves(t, "idle", 0, Null)
<1>0. {"startMark", "register", "registerAdd", "iidRegister", "activate", "stopMark", "unregister",
        "hashDel", "freeHead", "iidUnregister", "installed"} \subseteq StartSteps \union StopSteps
  BY DEF StartSteps, StopSteps
<1>1. ASSUME NEW i \in Ids, StartCheck(t, i) PROVE AdminMoves(t, "startMark", i, srv[i].mod)
  BY <1>0, <1>1, StartCheckDoes, AdminMoving
<1>2. ASSUME NEW i \in Ids, StopCheck(t, i) PROVE AdminMoves(t, "stopMark", i, srv[i].mod)
  BY <1>0, <1>2, StopCheckDoes, AdminMoving
<1>3. ASSUME StartMark(t)
      PROVE  AdminMoves(t, "idle", 0, Null) \/ AdminMoves(t, "register", th[t].id, th[t].bundle)
  <2>1. th[t].pc # "idle"
    BY <1>3 DEF StartMark, At
  <2> QED BY <1>0, <1>3, <2>1, StartMarkDoes, AdminMoving
<1>4. ASSUME RegisterFind(t)
      PROVE  \/ AdminMoves(t, "idle", 0, Null)
             \/ AdminMoves(t, "iidRegister", th[t].id, th[t].bundle)
             \/ AdminMoves(t, "registerAdd", th[t].id, th[t].bundle) /\ th[t].bundle \notin registered
  <2>1. th[t].pc # "idle"
    BY <1>4 DEF RegisterFind, At
  <2> QED BY <1>0, <1>4, <2>1, RegisterFindDoes, AdminMoving
<1>5. ASSUME RegisterAdd(t)
      PROVE  AdminMoves(t, "iidRegister", th[t].id, th[t].bundle)
  <2>1. th[t].pc # "idle"
    BY <1>5 DEF RegisterAdd, At
  <2> QED BY <1>0, <1>5, <2>1, RegisterAddDoes, AdminMoving
<1>6. ASSUME IIDRegister(t)
      PROVE  AdminMoves(t, "idle", 0, Null) \/ AdminMoves(t, "activate", th[t].id, th[t].bundle)
  <2>1. th[t].pc # "idle"
    BY <1>6 DEF IIDRegister, At
  <2> QED BY <1>0, <1>6, <2>1, IIDRegisterDoes, AdminMoving
<1>7. ASSUME Activate(t)
      PROVE  AdminMoves(t, "idle", 0, Null)
  <2>1. th[t].pc # "idle"
    BY <1>7 DEF Activate, At
  <2> QED BY <1>0, <1>7, <2>1, ActivateDoes, AdminMoving
<1>8. ASSUME StopMark(t)
      PROVE  AdminMoves(t, "unregister", th[t].id, th[t].bundle)
  <2>1. th[t].pc # "idle"
    BY <1>8 DEF StopMark, At
  <2> QED BY <1>0, <1>8, <2>1, StopMarkDoes, AdminMoving
<1>9. ASSUME Unregister(t)
      PROVE  \/ AdminMoves(t, "hashDel", th[t].id, th[t].bundle)
             \/ AdminMoves(t, "installed", th[t].id, th[t].bundle)
  <2>1. th[t].pc # "idle"
    BY <1>9 DEF Unregister, At
  <2> QED BY <1>0, <1>9, <2>1, UnregisterDoes, AdminMoving
<1>10. ASSUME HashDel(t)
      PROVE  AdminMoves(t, "freeHead", th[t].id, th[t].bundle)
  <2>1. th[t].pc # "idle"
    BY <1>10 DEF HashDel, At
  <2> QED BY <1>0, <1>10, <2>1, HashDelDoes, AdminMoving
<1>11. ASSUME FreeHead(t)
      PROVE  AdminMoves(t, "iidUnregister", th[t].id, th[t].bundle)
  <2>1. th[t].pc # "idle"
    BY <1>11 DEF FreeHead, At
  <2> QED BY <1>0, <1>11, <2>1, FreeHeadDoes, AdminMoving
<1>12. ASSUME IIDUnregister(t)
      PROVE  AdminMoves(t, "installed", th[t].id, th[t].bundle)
  <2>1. th[t].pc # "idle"
    BY <1>12 DEF IIDUnregister, At
  <2> QED BY <1>0, <1>12, <2>1, IIDUnregisterDoes, AdminMoving
<1>13. ASSUME Stopped(t)
      PROVE  AdminMoves(t, "idle", 0, Null)
  <2>1. th[t].pc # "idle"
    BY <1>13 DEF Stopped, At
  <2> QED BY <1>0, <1>13, <2>1, StoppedDoes, AdminMoving
<1> QED BY <1>1, <1>2, <1>3, <1>4, <1>5, <1>6, <1>7, <1>8, <1>9, <1>10, <1>11, <1>12, <1>13

\* A command leaves the handles in the hands of those who hold them.
LEMMA AdminAny ==
    ASSUME AnyUse, NEW t \in Admins, NEW p, NEW i, NEW b, AdminMoves(t, p, i, b),
           UNCHANGED heapVars, dangling' \subseteq Threads, HeadTypes', SrvTypes'
    PROVE  AnyUse'
<1>1. PICK h, n, o : Moves(t, p, i, b, h, n, o) /\ h \notin Handles /\ n \notin Nodes
  BY DEF AdminMoves
<1>0. /\ t \in Threads /\ p \notin Holding /\ p \notin HoldingNode
      /\ p \notin CreateSteps \union DeleteSteps
  BY DEF AdminMoves, Threads, Holding, HoldingNode, StartSteps, StopSteps, CreateSteps, DeleteSteps
<1>2. p \in StartSteps \union StopSteps => i \in Ids /\ b \in Bundles
  BY <1>0 DEF AdminMoves, StartSteps, StopSteps
<1>3. ThreadTypes' /\ Locals'
  BY <1>0, <1>1, <1>2, ThreadsTyped
<1>4. HeapTypes'
  BY DEF AnyUse, HeapTypes, heapVars
<1>5. HandlesHeld'
  <2>1. th'[t].pc = p /\ \A s \in Threads \ {t} : th'[s] = th[s]
    BY <1>1 DEF Moves
  <2> QED BY <1>0, <2>1 DEF AnyUse, HandlesHeld, Holding, heapVars
<1> QED BY <1>3, <1>4, <1>5 DEF AnyUse

LEMMA SrvSame == ASSUME AnyUse, UNCHANGED srvVars PROVE SrvTypes'
BY DEF AnyUse, SrvTypes, srvVars
LEMMA HeadSame == ASSUME AnyUse, UNCHANGED headVars PROVE HeadTypes'
BY DEF AnyUse, HeadTypes, headVars

\* AnyUse, one command after the other.
LEMMA CommandAny ==
    ASSUME AnyUse, NEW t \in Admins, Command(t)
    PROVE  AnyUse'
<1> USE DEF At
<1>0. /\ \A p : p \in StartSteps \union StopSteps => p # "idle"
      /\ {"INSTALLED", "STARTING", "ACTIVE", "STOPPING", "START_FAILED"} \subseteq States
      /\ {"startMark", "register", "registerAdd", "iidRegister", "activate", "stopMark", "unregister",
          "hashDel", "freeHead", "iidUnregister", "installed"} \subseteq StartSteps \union StopSteps
      /\ dangling \subseteq Threads
  BY DEF StartSteps, StopSteps, States, AnyUse, ThreadTypes
<1>1. ASSUME NEW i \in Ids, StartCheck(t, i) PROVE AnyUse'
  <2>2. SrvTypes'
    BY <1>1, SrvSame DEF StartCheck
  <2>3. HeadTypes'
    BY <1>1, HeadSame DEF StartCheck
  <2>4. UNCHANGED heapVars /\ dangling' \subseteq Threads
    BY <1>0, <1>1 DEF StartCheck
  <2> QED BY <1>1, <2>2, <2>3, <2>4, AdminGoes, AdminAny
<1>2. ASSUME NEW i \in Ids, StopCheck(t, i) PROVE AnyUse'
  <2>2. SrvTypes'
    BY <1>2, SrvSame DEF StopCheck
  <2>3. HeadTypes'
    BY <1>2, HeadSame DEF StopCheck
  <2>4. UNCHANGED heapVars /\ dangling' \subseteq Threads
    BY <1>0, <1>2 DEF StopCheck
  <2> QED BY <1>2, <2>2, <2>3, <2>4, AdminGoes, AdminAny
<1>3. ASSUME StartMark(t) PROVE AnyUse'
  <2>2. SrvTypes'
    BY <1>0, <1>3, StartMarkDoes, AdminIn, ServicesTyped, Setting DEF StartMark, AnyUse, SrvTypes
  <2>3. HeadTypes'
    BY <1>3, HeadSame DEF StartMark
  <2>4. UNCHANGED heapVars /\ dangling' \subseteq Threads
    BY <1>0, <1>3 DEF StartMark
  <2> QED BY <1>3, <2>2, <2>3, <2>4, AdminGoes, AdminAny
<1>4. ASSUME RegisterFind(t) PROVE AnyUse'
  <2>2. SrvTypes'
    BY <1>0, <1>4, RegisterFindDoes, AdminIn, ServicesTyped, Setting DEF RegisterFind, AnyUse,
       SrvTypes
  <2>3. HeadTypes'
    BY <1>4, HeadSame DEF RegisterFind
  <2>4. UNCHANGED heapVars /\ dangling' \subseteq Threads
    BY <1>0, <1>4 DEF RegisterFind
  <2> QED BY <1>4, <2>2, <2>3, <2>4, AdminGoes, AdminAny
<1>5. ASSUME RegisterAdd(t) PROVE AnyUse'
  <2>2. SrvTypes'
    BY <1>5, SrvSame DEF RegisterAdd
  <2>3. HeadTypes'
    BY <1>0, <1>5, AdminIn DEF RegisterAdd, AnyUse, HeadTypes
  <2>4. UNCHANGED heapVars /\ dangling' \subseteq Threads
    BY <1>0, <1>5 DEF RegisterAdd, Doing
  <2> QED BY <1>5, <2>2, <2>3, <2>4, AdminGoes, AdminAny
<1>6. ASSUME IIDRegister(t) PROVE AnyUse'
  <2>2. SrvTypes'
    BY <1>0, <1>6, IIDRegisterDoes, AdminIn, ServicesTyped, Setting DEF IIDRegister, AnyUse,
       SrvTypes
  <2>3. HeadTypes'
    BY <1>6, HeadSame DEF IIDRegister
  <2>4. UNCHANGED heapVars /\ dangling' \subseteq Threads
    BY <1>0, <1>6 DEF IIDRegister
  <2> QED BY <1>6, <2>2, <2>3, <2>4, AdminGoes, AdminAny
<1>7. ASSUME Activate(t) PROVE AnyUse'
  <2>2. SrvTypes'
    BY <1>0, <1>7, ActivateDoes, AdminIn, ServicesTyped, Setting DEF Activate, AnyUse, SrvTypes
  <2>3. HeadTypes'
    BY <1>7, HeadSame DEF Activate
  <2>4. UNCHANGED heapVars /\ dangling' \subseteq Threads
    BY <1>0, <1>7 DEF Activate
  <2> QED BY <1>7, <2>2, <2>3, <2>4, AdminGoes, AdminAny
<1>8. ASSUME StopMark(t) PROVE AnyUse'
  <2>2. SrvTypes'
    BY <1>0, <1>8, StopMarkDoes, AdminIn, ServicesTyped, Setting DEF StopMark, AnyUse, SrvTypes
  <2>3. HeadTypes'
    BY <1>8, HeadSame DEF StopMark
  <2>4. UNCHANGED heapVars /\ dangling' \subseteq Threads
    BY <1>0, <1>8 DEF StopMark
  <2> QED BY <1>8, <2>2, <2>3, <2>4, AdminGoes, AdminAny
<1>9. ASSUME Unregister(t) PROVE AnyUse'
  <2>2. SrvTypes'
    BY <1>9, SrvSame DEF Unregister
  <2>3. HeadTypes'
    BY <1>9, HeadSame DEF Unregister
  <2>4. UNCHANGED heapVars /\ dangling' \subseteq Threads
    BY <1>0, <1>9 DEF Unregister
  <2> QED BY <1>9, <2>2, <2>3, <2>4, AdminGoes, AdminAny
<1>10. ASSUME HashDel(t) PROVE AnyUse'
  <2>2. SrvTypes'
    BY <1>10, SrvSame DEF HashDel
  <2>3. HeadTypes'
    BY <1>0, <1>10, AdminIn DEF HashDel, AnyUse, HeadTypes
  <2>4. UNCHANGED heapVars /\ dangling' \subseteq Threads
    BY <1>0, <1>10 DEF HashDel, Doing
  <2> QED BY <1>10, <2>2, <2>3, <2>4, AdminGoes, AdminAny
<1>11. ASSUME FreeHead(t) PROVE AnyUse'
  <2>2. SrvTypes'
    BY <1>11, SrvSame DEF FreeHead
  <2>3. HeadTypes'
    BY <1>0, <1>11, AdminIn DEF FreeHead, AnyUse, HeadTypes
  <2>4. UNCHANGED heapVars /\ dangling' \subseteq Threads
    BY <1>0, <1>11 DEF FreeHead, Doing
  <2> QED BY <1>11, <2>2, <2>3, <2>4, AdminGoes, AdminAny
<1>12. ASSUME IIDUnregister(t) PROVE AnyUse'
  <2>2. SrvTypes'
    BY <1>0, <1>12, IIDUnregisterDoes, AdminIn, ServicesTyped, Setting DEF IIDUnregister,
       AnyUse, SrvTypes
  <2>3. HeadTypes'
    BY <1>12, HeadSame DEF IIDUnregister
  <2>4. UNCHANGED heapVars /\ dangling' \subseteq Threads
    BY <1>0, <1>12 DEF IIDUnregister
  <2> QED BY <1>12, <2>2, <2>3, <2>4, AdminGoes, AdminAny
<1>13. ASSUME Stopped(t) PROVE AnyUse'
  <2>2. SrvTypes'
    BY <1>0, <1>13, StoppedDoes, AdminIn, ServicesTyped, Setting DEF Stopped, AnyUse, SrvTypes
  <2>3. HeadTypes'
    BY <1>13, HeadSame DEF Stopped
  <2>4. UNCHANGED heapVars /\ dangling' \subseteq Threads
    BY <1>0, <1>13 DEF Stopped
  <2> QED BY <1>13, <2>2, <2>3, <2>4, AdminGoes, AdminAny
<1>14. ASSUME NEW b \in Bundles, Install(t, b) PROVE AnyUse'
  <2>1. global_id' = global_id + 1 /\ global_id \in Ids
    BY <1>14, InstallDoes DEF Install
  <2>2. global_id' \in 1 .. MaxId + 1
    BY <2>1, ModBundleAssumption DEF Ids
  <2>3. ASSUME UNCHANGED <<srv, service_id>> PROVE SrvTypes'
    <3>1. SrvTypes
      BY DEF AnyUse
    <3> QED BY <2>2, <2>3, <3>1 DEF SrvTypes
  <2>4. ASSUME Serves(global_id, b, "INSTALLED", FALSE, TRUE),
             service_id' = [service_id EXCEPT ![b] = global_id]
      PROVE  SrvTypes'
    <3>1. srv' \in [Ids -> Srv] /\ \A j \in Ids : srv'[j].installed => srv'[j].mod \in Bundles
      BY <2>1, <2>4 DEF Serves, AnyUse, SrvTypes
    <3>2. service_id' \in [Bundles -> 0 .. MaxId]
      BY <2>1, <2>4, AdminIn
    <3> QED BY <2>2, <3>1, <3>2 DEF SrvTypes
  <2>5. SrvTypes'
    BY <1>14, <2>3, <2>4, InstallDoes
  <2>6. UNCHANGED <<headVars, heapVars, dangling, th>>
    BY <1>14 DEF Install
  <2>7. (HeadTypes /\ HeapTypes /\ ThreadTypes /\ Locals /\ HandlesHeld)'
    BY <2>6 DEF AnyUse, HeadTypes, HeapTypes, ThreadTypes, Locals, HandlesHeld, headVars, heapVars
  <2> QED BY <2>5, <2>7 DEF AnyUse
<1>15. ASSUME NEW i \in Ids, Uninstall(t, i) PROVE AnyUse'
  <2>1. srv' \in [Ids -> Srv] /\ \A j \in Ids : srv'[j].installed => srv'[j].mod \in Bundles
    BY <1>15, UninstallDoes DEF Serves, AnyUse, SrvTypes
  <2>2. service_id' \in [Bundles -> 0 .. MaxId]
    <3>1. service_id' = [service_id EXCEPT ![srv[i].mod] = 0]
      BY <1>15 DEF Uninstall
    <3>2. 0 \in 0 .. MaxId
      BY ModBundleAssumption
    <3> QED BY <3>1, <3>2, AdminIn
  <2>3. UNCHANGED global_id
    BY <1>15 DEF Uninstall
  <2>5. SrvTypes'
    BY <2>1, <2>2, <2>3 DEF AnyUse, SrvTypes
  <2>6. UNCHANGED <<headVars, heapVars, dangling, th>>
    BY <1>15 DEF Uninstall
  <2>7. (HeadTypes /\ HeapTypes /\ ThreadTypes /\ Locals /\ HandlesHeld)'
    BY <2>6 DEF AnyUse, HeadTypes, HeapTypes, ThreadTypes, Locals, HandlesHeld, headVars, heapVars
  <2> QED BY <2>5, <2>7 DEF AnyUse
<1> QED BY <1>1, <1>2, <1>3, <1>4, <1>5, <1>6, <1>7, <1>8, <1>9, <1>10, <1>11, <1>12, <1>13,
           <1>14, <1>15 DEF Command

\* The places of a user are not those of a command.
LEMMA UserPlaces ==
    /\ {"alloc", "add", "count", "match", "free", "unlink", "uncount"} \subseteq CreateSteps \union DeleteSteps
    /\ \A p \in CreateSteps \union DeleteSteps \union {"idle"} : p \notin StartSteps \union StopSteps
    /\ "idle" \notin CreateSteps \union DeleteSteps \union Holding \union HoldingNode
    /\ Null \notin Handles /\ Null \notin Nodes
BY ModBundleAssumption DEF CreateSteps, DeleteSteps, StartSteps, StopSteps, Holding, HoldingNode

\* What a thread's place says of its handle and its node.
LEMMA UserHas ==
    ASSUME AnyUse, NEW t \in Users
    PROVE  /\ th[t].pc \in Holding <=> th[t].handle \in Handles
           /\ th[t].pc \in HoldingNode <=> th[t].node \in Nodes
           /\ \A s \in Threads : th[s].pc \in Holding => th[s].handle \in heap
           /\ heap \subseteq Handles /\ given \subseteq heap
           /\ list \in [Bundles -> SUBSET Nodes] /\ instance_counts \in [Bundles -> Int]
           /\ p_handle \in [Nodes -> Handles \union {Null}]
           /\ token \in [Handles -> Owners \union {Null}]
           /\ th[t].owner \in Owners \union {Null}
<1>1. \A s \in Threads : th[s].pc \in Holding => th[s].handle \in heap
  BY DEF AnyUse, HandlesHeld, HeapTypes, Holding
<1> QED BY <1>1, UserIn DEF AnyUse, Locals, HeadTypes, HeapTypes, Local

LEMMA UserTyped ==
    ASSUME AnyUse, dangling' \subseteq Threads, NEW t \in Users,
           NEW p \in CreateSteps \union DeleteSteps \union {"idle"},
           NEW i, NEW b, NEW h, NEW n, NEW o, Moves(t, p, i, b, h, n, o),
           p # "idle" => b \in Bundles, p \in Holding <=> h \in Handles, p \in HoldingNode <=> n \in Nodes
    PROVE  ThreadTypes' /\ Locals'
BY UserIn, UserPlaces, ThreadsTyped

\* AnyUse, one step of a user after the other.
LEMMA UseAny ==
    ASSUME "oneDeletion" \notin broken', AnyUse, NEW t \in Users, Use(t)
    PROVE  AnyUse'
<1>0. SrvTypes' /\ dangling' \subseteq Threads
  <2>1. UNCHANGED <<srvVars, dangling>>
    BY DEF Use, CreateFind, DeleteFind, CreateAlloc, CreateAdd, CreateCount, DeleteMatch,
       DeleteFree, DeleteUnlink, DeleteUncount
  <2> QED BY <2>1, SrvSame DEF AnyUse, ThreadTypes
<1>1. ASSUME NEW b \in Bundles, NEW o \in Owners, CreateFind(t, b, o) PROVE AnyUse'
  <2>0. /\ Calls(t, "alloc", 0, b, Null, o)
        /\ th[t].pc = "idle"
        /\ b \in registered
        /\ "calmStops" \notin broken' => Doing(b, {"stopMark", "unregister", "hashDel"}) = {}
        /\ UNCHANGED <<srvVars, headVars, heapVars, dangling>>
    BY <1>1, CreateFindDoes
  <2>1. HeadTypes'
    BY <2>0, HeadSame
  <2>2. HeapTypes'
    BY <2>0 DEF AnyUse, HeapTypes, heapVars
  <2>3. Moves(t, "alloc", 0, b, Null, Null, o)
    BY <2>0 DEF Calls, Stays, Returns
  <2>4. (ThreadTypes /\ Locals)'
    <3>1. /\ b \in Bundles /\ ("alloc" \in Holding <=> Null \in Handles)
          /\ ("alloc" \in HoldingNode <=> Null \in Nodes)
      BY <2>0, UserIn, UserHas, UserPlaces DEF Holding, HoldingNode, CreateSteps, DeleteSteps
    <3> QED BY <1>0, <2>3, <3>1, UserPlaces, UserTyped
  <2>5. HandlesHeld'
    BY <2>0, <2>3, UserHas, UserPlaces DEF Moves, AnyUse, HandlesHeld, Holding, heapVars
  <2> QED BY <1>0, <2>1, <2>2, <2>4, <2>5 DEF AnyUse
<1>2. ASSUME NEW b \in Bundles, NEW h \in Handles, NEW o \in Owners, DeleteFind(t, b, h, o)
      PROVE  AnyUse'
  <2>0. /\ Calls(t, "match", 0, b, h, o)
        /\ th[t].pc = "idle"
        /\ b \in registered
        /\ h \in given /\ \E n \in list[b] : p_handle[n] = h
        /\ "oneDeletion" \notin broken' =>
              \A u \in Threads : th[u].pc \in {"match", "free"} => th[u].handle # h
        /\ UNCHANGED <<srvVars, headVars, heapVars, dangling>>
    BY <1>2, DeleteFindDoes
  <2>1. HeadTypes'
    BY <2>0, HeadSame
  <2>2. HeapTypes'
    BY <2>0 DEF AnyUse, HeapTypes, heapVars
  <2>3. Moves(t, "match", 0, b, h, Null, o)
    BY <2>0 DEF Calls, Stays, Returns
  <2>4. (ThreadTypes /\ Locals)'
    <3>1. /\ b \in Bundles /\ ("match" \in Holding <=> h \in Handles)
          /\ ("match" \in HoldingNode <=> Null \in Nodes)
      BY <2>0, UserIn, UserHas, UserPlaces DEF Holding, HoldingNode, CreateSteps, DeleteSteps
    <3> QED BY <1>0, <2>3, <3>1, UserPlaces, UserTyped
  <2>5. HandlesHeld'
    BY <2>0, <2>3, UserHas, UserPlaces DEF Moves, AnyUse, HandlesHeld, Holding, heapVars
  <2> QED BY <1>0, <2>1, <2>2, <2>4, <2>5 DEF AnyUse
<1>3. ASSUME NEW h \in Handles, CreateAlloc(t, h) PROVE AnyUse'
  <2>0. /\ Moves(t, "add", th[t].id, th[t].bundle, h, th[t].node, th[t].owner)
        /\ th[t].pc = "alloc"
        /\ h \notin heap
        /\ heap' = heap \union {h}
        /\ token' = [token EXCEPT ![h] = th[t].owner]
        /\ "freshAddresses" \notin broken' => \A b \in Bundles : \A n \in list[b] : p_handle[n] # h
        /\ UNCHANGED <<srvVars, headVars, p_handle, given, dangling>>
    BY <1>3, CreateAllocDoes
  <2>1. HeadTypes'
    BY <2>0, HeadSame
  <2>2. HeapTypes'
    BY <2>0, UserIn, UserHas DEF HeapTypes, Holding
  <2>3. Moves(t, "add", th[t].id, th[t].bundle, h, th[t].node, th[t].owner)
    BY <2>0 DEF Calls, Stays, Returns
  <2>4. (ThreadTypes /\ Locals)'
    <3>1. /\ th[t].bundle \in Bundles /\ ("add" \in Holding <=> h \in Handles)
          /\ ("add" \in HoldingNode <=> th[t].node \in Nodes)
      BY <2>0, UserIn, UserHas, UserPlaces DEF Holding, HoldingNode, CreateSteps, DeleteSteps
    <3> QED BY <1>0, <2>3, <3>1, UserPlaces, UserTyped
  <2>5. HandlesHeld'
    BY <2>0, <2>3, UserHas, UserPlaces DEF Moves, AnyUse, HandlesHeld, Holding, heapVars
  <2> QED BY <1>0, <2>1, <2>2, <2>4, <2>5 DEF AnyUse
<1>4. ASSUME NEW n \in Nodes, CreateAdd(t, n) PROVE AnyUse'
  <2>0. /\ Stays(t, "count")
        /\ th[t].pc = "add" /\ t \notin dangling
        /\ \A b \in Bundles : n \notin list[b]
        /\ \A u \in Threads : th[u].node # n
        /\ p_handle' = [p_handle EXCEPT ![n] = th[t].handle]
        /\ list' = [list EXCEPT ![th[t].bundle] = @ \union {n}]
        /\ UNCHANGED <<srvVars, registered, instance_counts, heap, token, given, dangling>>
    BY <1>4, CreateAddDoes
  <2>1. HeadTypes'
    BY <2>0, UserIn DEF AnyUse, HeadTypes, CreateSteps, DeleteSteps
  <2>2. HeapTypes'
    BY <2>0, UserIn, UserHas DEF HeapTypes, Holding
  <2>3. Moves(t, "count", th[t].id, th[t].bundle, th[t].handle, th[t].node, th[t].owner)
    BY <2>0 DEF Calls, Stays, Returns
  <2>4. (ThreadTypes /\ Locals)'
    <3>1. /\ th[t].bundle \in Bundles
          /\ ("count" \in Holding <=> th[t].handle \in Handles)
          /\ ("count" \in HoldingNode <=> th[t].node \in Nodes)
      BY <2>0, UserIn, UserHas, UserPlaces DEF Holding, HoldingNode, CreateSteps, DeleteSteps
    <3> QED BY <1>0, <2>3, <3>1, UserPlaces, UserTyped
  <2>5. HandlesHeld'
    BY <2>0, <2>3, UserHas, UserPlaces DEF Moves, AnyUse, HandlesHeld, Holding, heapVars
  <2> QED BY <1>0, <2>1, <2>2, <2>4, <2>5 DEF AnyUse
<1>5. ASSUME CreateCount(t) PROVE AnyUse'
  <2>0. /\ Returns(t)
        /\ th[t].pc = "count" /\ t \notin dangling
        /\ instance_counts' = [instance_counts EXCEPT ![th[t].bundle] = @ + 1]
        /\ given' = given \union {th[t].handle}
        /\ UNCHANGED <<srvVars, registered, list, p_handle, heap, token, dangling>>
    BY <1>5, CreateCountDoes
  <2>1. HeadTypes'
    BY <2>0, UserIn DEF AnyUse, HeadTypes, CreateSteps, DeleteSteps
  <2>2. HeapTypes'
    BY <2>0, UserIn, UserHas DEF HeapTypes, Holding
  <2>3. Moves(t, "idle", 0, Null, Null, Null, Null)
    BY <2>0 DEF Calls, Stays, Returns
  <2>4. (ThreadTypes /\ Locals)'
    BY <1>0, <2>3, UserPlaces, UserTyped
  <2>5. HandlesHeld'
    <3>1. /\ t \in Threads /\ th[t].pc \in Holding
          /\ (\A s \in Threads \ {t} : th'[s] = th[s]) /\ th'[t].pc \notin Holding
      BY <2>0, <2>3, UserIn DEF Moves, Holding
    <3>2. \A s \in Threads \ {t} : th[s].pc \in Holding => th[s].handle # th[t].handle
      BY <3>1 DEF AnyUse, HandlesHeld
    <3>3. \A r, s \in Threads : th'[r].pc \in Holding /\ th'[s].pc \in Holding
                                   /\ th'[r].handle = th'[s].handle => r = s
      BY <3>1 DEF AnyUse, HandlesHeld
    <3>4. \A s \in Threads \ {t} :
            /\ th[s].pc \in {"add", "count"} => th[s].handle \in heap' \ given'
            /\ th[s].pc \in {"match", "free"} => th[s].handle \in given'
            /\ th[s].pc = "free" => token'[th[s].handle] = th[s].owner
      BY <2>0, <3>2, UserHas DEF AnyUse, HandlesHeld, Holding
    <3> QED BY <3>1, <3>3, <3>4 DEF HandlesHeld, Holding
  <2> QED BY <1>0, <2>1, <2>2, <2>4, <2>5 DEF AnyUse
<1>6. ASSUME DeleteMatch(t) PROVE AnyUse'
  <2>0. /\ \/ Returns(t)
           \/ /\ token[th[t].handle] = th[t].owner
              /\ \E n \in list[th[t].bundle] :
                    /\ p_handle[n] = th[t].handle
                    /\ Moves(t, "free", th[t].id, th[t].bundle, th[t].handle, n, th[t].owner)
        /\ th[t].pc = "match" /\ t \notin dangling
        /\ UNCHANGED <<srvVars, headVars, heapVars, dangling>>
    BY <1>6, DeleteMatchDoes
  <2>1. HeadTypes'
    BY <2>0, HeadSame
  <2>2. HeapTypes'
    BY <2>0 DEF AnyUse, HeapTypes, heapVars
  <2>3. CASE Returns(t)
    <3>1. (ThreadTypes /\ Locals)'
      BY <1>0, <2>3, UserPlaces, UserTyped DEF Returns
    <3>2. HandlesHeld'
      BY <2>0, <2>3, UserPlaces DEF Returns, Moves, AnyUse, HandlesHeld, Holding, heapVars
    <3> QED BY <1>0, <2>1, <2>2, <3>1, <3>2 DEF AnyUse
  <2>4. ASSUME NEW n \in list[th[t].bundle], token[th[t].handle] = th[t].owner,
               Moves(t, "free", th[t].id, th[t].bundle, th[t].handle, n, th[t].owner)
        PROVE  AnyUse'
    <3>1. /\ th[t].bundle \in Bundles /\ n \in Nodes
          /\ "free" \in Holding /\ "free" \in HoldingNode /\ th[t].handle \in Handles
      BY <2>0, UserIn, UserHas DEF Holding, HoldingNode, DeleteSteps
    <3>2. (ThreadTypes /\ Locals)'
      BY <1>0, <2>4, <3>1, UserPlaces, UserTyped
    <3>3. HandlesHeld'
      BY <2>0, <2>4, UserPlaces DEF Moves, AnyUse, HandlesHeld, Holding, heapVars
    <3> QED BY <1>0, <2>1, <2>2, <3>2, <3>3 DEF AnyUse
  <2> QED BY <2>0, <2>3, <2>4
<1>7. ASSUME DeleteFree(t) PROVE AnyUse'
  <2>0. /\ Moves(t, "unlink", th[t].id, th[t].bundle, Null, th[t].node, th[t].owner)
        /\ th[t].pc = "free" /\ t \notin dangling
        /\ heap' = heap \ {th[t].handle} /\ given' = given \ {th[t].handle}
        /\ token' = [token EXCEPT ![th[t].handle] = Null]
        /\ UNCHANGED <<srvVars, headVars, p_handle, dangling>>
    BY <1>7, DeleteFreeDoes
  <2>1. HeadTypes'
    BY <2>0, HeadSame
  <2>2. HeapTypes'
    BY <2>0, UserIn, UserHas DEF HeapTypes, Holding
  <2>3. Moves(t, "unlink", th[t].id, th[t].bundle, Null, th[t].node, th[t].owner)
    BY <2>0 DEF Calls, Stays, Returns
  <2>4. (ThreadTypes /\ Locals)'
    <3>1. /\ th[t].bundle \in Bundles /\ ("unlink" \in Holding <=> Null \in Handles)
          /\ ("unlink" \in HoldingNode <=> th[t].node \in Nodes)
      BY <2>0, UserIn, UserHas, UserPlaces DEF Holding, HoldingNode, CreateSteps, DeleteSteps
    <3> QED BY <1>0, <2>3, <3>1, UserPlaces, UserTyped
  <2>5. HandlesHeld'
    <3>1. /\ t \in Threads /\ th[t].pc \in Holding
          /\ (\A s \in Threads \ {t} : th'[s] = th[s]) /\ th'[t].pc \notin Holding
      BY <2>0, <2>3, UserIn DEF Moves, Holding
    <3>2. \A s \in Threads \ {t} : th[s].pc \in Holding => th[s].handle # th[t].handle
      BY <3>1 DEF AnyUse, HandlesHeld
    <3>3. \A r, s \in Threads : th'[r].pc \in Holding /\ th'[s].pc \in Holding
                                   /\ th'[r].handle = th'[s].handle => r = s
      BY <3>1 DEF AnyUse, HandlesHeld
    <3>4. \A s \in Threads \ {t} :
            /\ th[s].pc \in {"add", "count"} => th[s].handle \in heap' \ given'
            /\ th[s].pc \in {"match", "free"} => th[s].handle \in given'
            /\ th[s].pc = "free" => token'[th[s].handle] = th[s].owner
      BY <2>0, <3>2, UserHas DEF AnyUse, HandlesHeld, Holding
    <3> QED BY <3>1, <3>3, <3>4 DEF HandlesHeld, Holding
  <2> QED BY <1>0, <2>1, <2>2, <2>4, <2>5 DEF AnyUse
<1>8. ASSUME DeleteUnlink(t) PROVE AnyUse'
  <2>0. /\ Stays(t, "uncount")
        /\ th[t].pc = "unlink" /\ t \notin dangling
        /\ list' = [list EXCEPT ![th[t].bundle] = @ \ {th[t].node}]
        /\ UNCHANGED <<srvVars, registered, instance_counts, heapVars, dangling>>
    BY <1>8, DeleteUnlinkDoes
  <2>1. HeadTypes'
    BY <2>0, UserIn DEF AnyUse, HeadTypes, CreateSteps, DeleteSteps
  <2>2. HeapTypes'
    BY <2>0 DEF AnyUse, HeapTypes, heapVars
  <2>3. Moves(t, "uncount", th[t].id, th[t].bundle, th[t].handle, th[t].node, th[t].owner)
    BY <2>0 DEF Calls, Stays, Returns
  <2>4. (ThreadTypes /\ Locals)'
    <3>1. /\ th[t].bundle \in Bundles
          /\ ("uncount" \in Holding <=> th[t].handle \in Handles)
          /\ ("uncount" \in HoldingNode <=> th[t].node \in Nodes)
      BY <2>0, UserIn, UserHas, UserPlaces DEF Holding, HoldingNode, CreateSteps, DeleteSteps
    <3> QED BY <1>0, <2>3, <3>1, UserPlaces, UserTyped
  <2>5. HandlesHeld'
    BY <2>0, <2>3, UserHas, UserPlaces DEF Moves, AnyUse, HandlesHeld, Holding, heapVars
  <2> QED BY <1>0, <2>1, <2>2, <2>4, <2>5 DEF AnyUse
<1>9. ASSUME DeleteUncount(t) PROVE AnyUse'
  <2>0. /\ Returns(t)
        /\ th[t].pc = "uncount" /\ t \notin dangling
        /\ instance_counts' = [instance_counts EXCEPT ![th[t].bundle] = @ - 1]
        /\ UNCHANGED <<srvVars, registered, list, heapVars, dangling>>
    BY <1>9, DeleteUncountDoes
  <2>1. HeadTypes'
    BY <2>0, UserIn DEF AnyUse, HeadTypes, CreateSteps, DeleteSteps
  <2>2. HeapTypes'
    BY <2>0 DEF AnyUse, HeapTypes, heapVars
  <2>3. Moves(t, "idle", 0, Null, Null, Null, Null)
    BY <2>0 DEF Calls, Stays, Returns
  <2>4. (ThreadTypes /\ Locals)'
    BY <1>0, <2>3, UserPlaces, UserTyped
  <2>5. HandlesHeld'
    BY <2>0, <2>3, UserHas, UserPlaces DEF Moves, AnyUse, HandlesHeld, Holding, heapVars
  <2> QED BY <1>0, <2>1, <2>2, <2>4, <2>5 DEF AnyUse
<1> QED BY <1>1, <1>2, <1>3, <1>4, <1>5, <1>6, <1>7, <1>8, <1>9 DEF Use

\* AnyUse is inductive.
LEMMA NextAny == "oneDeletion" \notin broken' /\ AnyUse /\ [Next]_vars => AnyUse'
<1>1. AnyUse /\ UNCHANGED vars => AnyUse'
  BY DEF AnyUse, SrvTypes, HeadTypes, HeapTypes, ThreadTypes, Locals, HandlesHeld, vars,
     srvVars, headVars, heapVars
<1> QED BY <1>1, CommandAny, UseAny DEF Next

\* A rule that was broken stays broken.
LEMMA BrokenStays == [Next]_vars => broken \subseteq broken'
<1>1. \A rules : Breaks(rules) => broken \subseteq broken'
  BY DEF Breaks
<1>2. ASSUME NEW t, Command(t) PROVE broken \subseteq broken'
  BY <1>1, <1>2 DEF Command, Install, Uninstall, StartCheck, StopCheck, StartMark, RegisterFind, RegisterAdd,
     IIDRegister, Activate, StopMark, Unregister, HashDel, FreeHead, IIDUnregister, Stopped
<1>3. ASSUME NEW t, Use(t) PROVE broken \subseteq broken'
  BY <1>1, <1>3 DEF Use, CreateFind, DeleteFind, CreateAlloc, CreateAdd, CreateCount, DeleteMatch,
     DeleteFree, DeleteUnlink, DeleteUncount
<1> QED BY <1>2, <1>3 DEF Next, vars

LEMMA CleanBefore ==
    ASSUME [Next]_vars, NEW rules, Clean(rules)'
    PROVE  Clean(rules)
BY BrokenStays DEF Clean

\* What a creation or deletion has in its hands is allocated, belongs to nobody
\* else and, past mod_ownership_verify, carries the signature of the caller:
\* with any number of threads running commands, and a malloc that may return
\* the address of a handle just freed, as long as no two delete one handle.
THEOREM AnyUseHolds == Spec => [](Clean({"oneDeletion"}) => AnyUse)
<1>1. (Clean({"oneDeletion"}) => AnyUse) /\ [Next]_vars => (Clean({"oneDeletion"}) => AnyUse)'
  BY NextAny, CleanBefore DEF Clean
<1> QED BY <1>1, InitAny, PTL DEF Spec

\* OwnerFreesLiveHandle: when mod_delete_instance frees a handle, the handle is
\* allocated and carries the token of the caller, so no handle is freed twice
\* and none by another than its owner, whatever races, until two threads delete
\* the same handle at once.
THEOREM OwnersFreeLiveHandles == Spec => [](Clean({"oneDeletion"}) => OwnerFreesLiveHandle)
<1>1. AnyUse => OwnerFreesLiveHandle
  BY DEF AnyUse, HandlesHeld, HeapTypes, OwnerFreesLiveHandle, At
<1> QED BY <1>1, AnyUseHolds, PTL

\* One thread runs commands at a time.
OneBusy == \A s, t \in Admins : th[s].pc # "idle" /\ th[t].pc # "idle" => s = t

\* A command that begins breaks the rule or finds the others idle, and goes on
\* while they are.
LEMMA CommandAlone ==
    ASSUME OneBusy, "oneAdmin" \notin broken', NEW t \in Admins, Command(t)
    PROVE  Alone(t)
<1>1. CASE th[t].pc = "idle"
  <2>1. ASSUME NEW rules, Breaks(OneAdmin(t) \union rules) PROVE Alone(t)
    BY <2>1 DEF Breaks, OneAdmin, Rule, Alone, At
  <2>2. ASSUME Breaks(OneAdmin(t)) PROVE Alone(t)
    BY <2>2 DEF Breaks, OneAdmin, Rule, Alone, At
  <2> QED BY <1>1, <2>1, <2>2 DEF Command, At, Install, Uninstall, StartCheck, StopCheck, StartMark, RegisterFind,
       RegisterAdd, IIDRegister, Activate, StopMark, Unregister, HashDel, FreeHead, IIDUnregister, Stopped
<1>2. CASE th[t].pc # "idle"
  BY <1>2 DEF OneBusy, Alone
<1> QED BY <1>1, <1>2

LEMMA UserMoves ==
    ASSUME AnyUse, NEW t \in Users, Use(t)
    PROVE  \A s \in Admins : th'[s] = th[s]
<1>1. th \in [Threads -> Local] /\ \A s \in Admins : s \in Threads /\ s # t
  BY ModBundleAssumption DEF AnyUse, ThreadTypes, Threads
<1> QED BY <1>1 DEF Use, CreateFind, DeleteFind, CreateAlloc, CreateAdd, CreateCount, DeleteMatch,
     DeleteFree, DeleteUnlink, DeleteUncount, Goto, Return

LEMMA NextBusy ==
    ASSUME AnyUse, OneBusy, "oneAdmin" \notin broken', [Next]_vars
    PROVE  OneBusy'
<1>1. ASSUME NEW t \in Admins, Command(t) PROVE OneBusy'
  <2>1. Alone(t)
    BY <1>1, CommandAlone
  <2>2. UNCHANGED th \/ \E p, i, b : AdminMoves(t, p, i, b)
    <3>1. ASSUME NEW c \in Bundles, Install(t, c) PROVE UNCHANGED th
      BY <3>1 DEF Install
    <3>2. ASSUME NEW i \in Ids, Uninstall(t, i) PROVE UNCHANGED th
      BY <3>2 DEF Uninstall
    <3> QED BY <1>1, <3>1, <3>2, AdminGoes DEF Command
  <2>3. \A s \in Admins \ {t} : th'[s] = th[s]
    BY <2>2 DEF AdminMoves, Moves, Threads
  <2> QED BY <2>1, <2>3 DEF Alone, OneBusy
<1>2. ASSUME NEW t \in Users, Use(t) PROVE OneBusy'
  <2>1. \A s \in Admins : th'[s] = th[s]
    BY <1>2, UserMoves
  <2> QED BY <2>1 DEF OneBusy
<1>3. CASE UNCHANGED vars
  BY <1>3 DEF OneBusy, vars
<1> QED BY <1>1, <1>2, <1>3 DEF Next
-----------------------------------------------------------------------------
(* One thread that runs commands at a time, and no address given out early.  *)

\* There are no nodes, so nothing is counted.
LEMMA InitOne == Init => OneUser
<1> SUFFICES ASSUME Init PROVE OneUser
  OBVIOUS
<1>1. OneNode /\ NodesHeld /\ Listed /\ Withdrawn
  BY DEF Init, Idle, OneNode, NodesHeld, Listed, Withdrawn, Inside, Doing, HoldingNode,
     CreateSteps, DeleteSteps
<1>2. ASSUME NEW b \in Bundles PROVE Counted(b) = {} /\ instance_counts[b] = 0
  BY <1>2 DEF Init, Idle, Counted, Doing
<1>3. CountsMatch
  BY <1>2, FS_EmptySet DEF CountsMatch
<1> QED BY <1>1, <1>3 DEF OneUser

\* A command that leaves the heads alone leaves the instances alone, ...
LEMMA AdminOne ==
    ASSUME AnyUse, AnyUse', OneUser, NEW t \in Admins, NEW p, NEW i, NEW b, AdminMoves(t, p, i, b),
           UNCHANGED <<list, instance_counts, heapVars, dangling>>
    PROVE  (OneNode /\ NodesHeld /\ Listed /\ CountsMatch)' /\ \A c : Inside(c)' = Inside(c)
<1>1. /\ th'[t].pc \notin CreateSteps \union DeleteSteps /\ \A s \in Threads \ {t} : th'[s] = th[s]
      /\ th[t].pc \notin CreateSteps \union DeleteSteps
  BY AdminHolds, UserPlaces DEF AdminMoves, Moves, StartSteps, StopSteps, CreateSteps, DeleteSteps
<1>2. OneNode'
  BY DEF OneUser, OneNode, heapVars
<1>3. NodesHeld'
  BY <1>1 DEF OneUser, NodesHeld, HoldingNode, CreateSteps, DeleteSteps, heapVars
<1>4. Listed'
  BY <1>1 DEF OneUser, Listed, CreateSteps, DeleteSteps, heapVars
<1>5. \A n : Counting(n)' <=> Counting(n)
  BY <1>1 DEF Counting, CreateSteps, heapVars
<1>6. \A c, S : S \subseteq CreateSteps \union DeleteSteps => Doing(c, S)' = Doing(c, S)
  BY <1>1 DEF Doing
<1>7. \A c : {th'[s].node : s \in Doing(c, {"uncount"}) \ dangling} = {th[s].node : s \in Doing(c, {"uncount"}) \ dangling}
  BY <1>1 DEF Doing, DeleteSteps
<1>8. \A c : Counted(c)' = Counted(c)
  BY <1>5, <1>6, <1>7 DEF Counted, DeleteSteps
<1>9. CountsMatch'
  BY <1>8 DEF OneUser, CountsMatch
<1>10. \A c : Inside(c)' = Inside(c)
  BY <1>6 DEF Inside
<1> QED BY <1>2, <1>3, <1>4, <1>9, <1>10

\* ... and so does what is not said of its thread.
LEMMA ElsewhereOne ==
    ASSUME AnyUse, AnyUse', OneUser, NEW t \in Admins, NEW p, NEW i, NEW b, AdminMoves(t, p, i, b),
           UNCHANGED <<headVars, heapVars, dangling>>, ~At(t, "freeHead"), p # "freeHead",
           p = "registerAdd" => b \notin registered
    PROVE  OneUser'
<1>1. th'[t].pc = p /\ th'[t].bundle = b /\ \A s \in Threads \ {t} : th'[s] = th[s]
  BY DEF AdminMoves, Moves
<1>2. (OneNode /\ NodesHeld /\ Listed /\ CountsMatch)' /\ \A c : Inside(c)' = Inside(c)
  BY AdminOne DEF headVars
<1>3. \A c : Doing(c, {"freeHead"})' = Doing(c, {"freeHead"})
  BY <1>1 DEF Doing, At
<1>4. Withdrawn'
  BY <1>1, <1>2, <1>3 DEF OneUser, Withdrawn, headVars
<1> QED BY <1>2, <1>4 DEF OneUser

LEMMA UninstalledOne ==
    ASSUME OneUser, UNCHANGED <<headVars, heapVars, dangling, th>>
    PROVE  OneUser'
<1>1. /\ \A c, S : Doing(c, S)' = Doing(c, S)
      /\ \A n : Counting(n)' <=> Counting(n)
  BY DEF Doing, Counting, heapVars
<1>2. \A c : Inside(c)' = Inside(c) /\ Counted(c)' = Counted(c)
  BY <1>1 DEF Inside, Counted, headVars
<1>3. (Withdrawn /\ CountsMatch)'
  BY <1>1, <1>2 DEF OneUser, Withdrawn, CountsMatch, headVars
<1>4. (OneNode /\ NodesHeld /\ Listed)'
  BY DEF OneUser, OneNode, NodesHeld, Listed, headVars, heapVars
<1> QED BY <1>3, <1>4 DEF OneUser

\* A registration finds the list and the counter of its head as it leaves them.
LEMMA RegisterAddFinds ==
    ASSUME AnyUse, OneUser, NEW t \in Admins, Alone(t), RegisterAdd(t)
    PROVE  /\ th[t].bundle \in Bundles \ registered /\ t \in Threads /\ th[t].pc = "registerAdd"
           /\ AdminMoves(t, "iidRegister", th[t].id, th[t].bundle)
           /\ UNCHANGED <<list, instance_counts>>
<1> DEFINE b == th[t].bundle
<1>1. /\ b \in Bundles \ registered /\ t \in Threads /\ th[t].pc = "registerAdd"
      /\ AdminMoves(t, "iidRegister", th[t].id, b)
  <2>1. th[t].pc = "registerAdd" /\ t \in Threads /\ b \in Bundles /\ b \notin registered
    BY AdminIn DEF RegisterAdd, At, StartSteps, OneUser, Withdrawn
  <2> QED BY <2>1, AdminGoes
<1>2. Doing(b, {"freeHead"}) = {}
  BY <1>1, AdminHolds DEF Doing, Alone, Threads, AnyUse, Locals, StopSteps
<1>3. list[b] = {} /\ Inside(b) = {}
  BY <1>1, <1>2 DEF OneUser, Withdrawn
<1>4. Counted(b) = {}
  <2>1. Doing(b, {"uncount"}) \ dangling = {}
    BY <1>3 DEF Doing, Inside, DeleteSteps
  <2> QED BY <1>3, <2>1 DEF Counted
<1>5. instance_counts[b] = 0
  BY <1>1, <1>4, FS_EmptySet DEF OneUser, CountsMatch
<1>6. UNCHANGED <<list, instance_counts>>
  BY <1>3, <1>5, <1>1 DEF RegisterAdd, AnyUse, HeadTypes
<1> QED BY <1>1, <1>6

\* The head it adds is empty, and so were the list and the counter.
LEMMA RegisterAddOne ==
    ASSUME AnyUse, AnyUse', OneUser, NEW t \in Admins, Alone(t), RegisterAdd(t)
    PROVE  OneUser'
<1>1. /\ th[t].bundle \in Bundles \ registered /\ t \in Threads /\ th[t].pc = "registerAdd"
      /\ AdminMoves(t, "iidRegister", th[t].id, th[t].bundle)
      /\ UNCHANGED <<list, instance_counts>>
  BY RegisterAddFinds
<1>7. (OneNode /\ NodesHeld /\ Listed /\ CountsMatch)' /\ \A c : Inside(c)' = Inside(c)
  BY <1>1, AdminOne DEF RegisterAdd
<1>8. th'[t].pc = "iidRegister" /\ \A s \in Threads \ {t} : th'[s] = th[s]
  BY <1>1, RegisterAddDoes DEF Stays, Moves
<1>9. \A c : Doing(c, {"freeHead"})' = {} /\ Doing(c, {"freeHead"}) = {}
  BY <1>1, <1>8, AdminHolds DEF Doing, Alone, Threads, AnyUse, Locals, StopSteps
<1>10. \A s \in Threads : th'[s].pc \notin {"registerAdd", "freeHead"}
  <2>1. \A s \in Admins : s = t \/ th[s].pc = "idle"
    BY DEF Alone
  <2>2. \A s \in Threads \ Admins : th[s].pc \notin {"registerAdd", "freeHead"}
    BY DEF AnyUse, Locals, StartSteps, StopSteps
  <2> QED BY <1>8, <2>1, <2>2
<1>11. Withdrawn'
  BY <1>1, <1>7, <1>9, <1>10 DEF OneUser, Withdrawn, RegisterAdd
<1> QED BY <1>7, <1>11 DEF OneUser

\* Its bundle is the one that Doing(b, {"freeHead"}) now excepts.
LEMMA HashDelOne ==
    ASSUME AnyUse, AnyUse', OneUser, NEW t \in Admins, Alone(t), HashDel(t)
    PROVE  OneUser'
<1> DEFINE b == th[t].bundle
<1>1. /\ b \in Bundles /\ t \in Threads /\ th[t].pc = "hashDel"
      /\ AdminMoves(t, "freeHead", th[t].id, b)
  <2>1. th[t].pc = "hashDel" /\ t \in Threads /\ b \in Bundles
    BY AdminIn DEF HashDel, At, StopSteps
  <2> QED BY <2>1, AdminGoes
<1>2. (OneNode /\ NodesHeld /\ Listed /\ CountsMatch)' /\ \A c : Inside(c)' = Inside(c)
  BY <1>1, AdminOne DEF HashDel
<1>3. /\ th'[t].pc = "freeHead" /\ th'[t].bundle = b /\ \A s \in Threads \ {t} : th'[s] = th[s]
      /\ registered' = registered \ {b} /\ UNCHANGED list
  BY HashDelDoes DEF Stays, Moves, HashDel
<1>4. \A s \in Threads : th[s].pc \in {"registerAdd", "freeHead"} => s \in Admins
  BY DEF AnyUse, Locals, StartSteps, StopSteps
<1>5. \A s \in Admins : s = t \/ th[s].pc = "idle"
  BY DEF Alone
<1>6. \A c : Doing(c, {"freeHead"}) = {} /\ (c # b => Doing(c, {"freeHead"})' = {})
  BY <1>1, <1>3, <1>4, <1>5 DEF Doing
<1>7. t \in Doing(b, {"freeHead"})'
  BY <1>1, <1>3 DEF Doing
<1>8. \A s \in Threads : th'[s].pc \in {"registerAdd", "freeHead"} => s = t
  BY <1>3, <1>4, <1>5
<1>9. ASSUME NEW c \in Bundles \ registered', Doing(c, {"freeHead"})' = {}
      PROVE  list'[c] = {} /\ Inside(c)' = {}
  <2>1. c # b
    BY <1>3, <1>7, <1>9
  <2>2. c \in Bundles \ registered
    BY <2>1, <1>3, <1>9
  <2> QED BY <2>2, <1>2, <1>3, <1>6 DEF OneUser, Withdrawn
<1>10. Withdrawn'
  BY <1>3, <1>8, <1>9 DEF Withdrawn
<1> QED BY <1>2, <1>10 DEF OneUser

\* Whoever was inside dangles from now on, and is spoken of no more.
LEMMA FreeHeadOne ==
    ASSUME AnyUse, AnyUse', OneUser, NEW t \in Admins, Alone(t), FreeHead(t)
    PROVE  OneUser'
<1> DEFINE b == th[t].bundle
<1>1. /\ b \in Bundles \ registered /\ t \in Threads /\ th[t].pc = "freeHead"
  <2>1. th[t].pc = "freeHead" /\ t \in Threads /\ b \in Bundles
    BY AdminIn DEF FreeHead, At, StopSteps
  <2> QED BY <2>1 DEF OneUser, Withdrawn
<1>2. /\ th'[t].pc = "iidUnregister" /\ \A s \in Threads \ {t} : th'[s] = th[s]
      /\ list' = [list EXCEPT ![b] = {}] /\ instance_counts' = [instance_counts EXCEPT ![b] = 0]
      /\ UNCHANGED <<registered, heapVars>>
      /\ dangling' = dangling \union Doing(b, CreateSteps \union DeleteSteps)
  BY FreeHeadDoes DEF Stays, Moves, FreeHead
<1>3. /\ list \in [Bundles -> SUBSET Nodes] /\ instance_counts \in [Bundles -> Int]
      /\ list'[b] = {} /\ instance_counts'[b] = 0
      /\ \A c \in Bundles \ {b} : list'[c] = list[c] /\ instance_counts'[c] = instance_counts[c]
  BY <1>1, <1>2 DEF AnyUse, HeadTypes
<1>4. \A s \in Threads : /\ th'[s].pc \in CreateSteps \union DeleteSteps => th'[s] = th[s]
                         /\ th[s].pc \in CreateSteps \union DeleteSteps => th'[s] = th[s]
  BY <1>1, <1>2, UserPlaces DEF StopSteps
<1>5. \A s \in Threads \ dangling' : /\ s \notin dangling
                                     /\ th[s].pc \in CreateSteps \union DeleteSteps =>
                                           th[s].bundle \in Bundles \ {b}
  BY <1>2 DEF Doing, AnyUse, Locals
<1>6. OneNode'
  BY <1>2, <1>3 DEF OneUser, OneNode, heapVars
<1>7. NodesHeld'
  BY <1>2, <1>3, <1>4, <1>5 DEF OneUser, NodesHeld, HoldingNode, CreateSteps, DeleteSteps, heapVars
<1>8. ASSUME NEW s \in Threads \ dangling, NEW c \in Bundles \ {b}, NEW n \in list[c],
             \/ th[s].pc = "unlink" /\ th[s].node = n
             \/ th[s].pc = "count" /\ th[s].handle = p_handle[n]
      PROVE  s \notin dangling'
  <2>1. th[s].bundle = c
    BY <1>8 DEF OneUser, NodesHeld, OneNode, AnyUse, Locals, CreateSteps, DeleteSteps
  <2> QED BY <2>1, <1>2, <1>8 DEF Doing
<1>9. Listed'
  <2> SUFFICES ASSUME NEW c \in Bundles, NEW n \in list'[c]
               PROVE  /\ p_handle'[n] \in Handles
                      /\ \/ p_handle'[n] \in heap'
                         \/ \E s \in Threads \ dangling' : th'[s].pc = "unlink" /\ th'[s].node = n
                      /\ \A s \in Threads : th'[s].pc = "add" => p_handle'[n] # th'[s].handle
    BY DEF Listed
  <2>0. c # b /\ n \in list[c] /\ UNCHANGED <<p_handle, heap>>
    BY <1>2, <1>3 DEF heapVars
  <2>1. p_handle[n] \in Handles /\ \A s \in Threads : th[s].pc = "add" => p_handle[n] # th[s].handle
    BY <2>0 DEF OneUser, Listed
  <2>2. p_handle[n] \in heap \/ \E s \in Threads \ dangling : th[s].pc = "unlink" /\ th[s].node = n
    BY <2>0 DEF OneUser, Listed
  <2>3. p_handle[n] \in heap \/ \E s \in Threads \ dangling' : th'[s].pc = "unlink" /\ th'[s].node = n
    BY <2>0, <2>2, <1>8, <1>4 DEF DeleteSteps
  <2> QED BY <2>0, <2>1, <2>3, <1>4 DEF CreateSteps
<1>10. \A s \in Threads : th[s].pc \in {"registerAdd", "freeHead"} => s = t
  BY <1>1 DEF AnyUse, Locals, StartSteps, StopSteps, Alone
<1>11. \A s \in Threads : th'[s].pc \notin {"registerAdd", "freeHead"}
  BY <1>2, <1>10
<1>12. ASSUME NEW c \in Bundles \ registered PROVE list'[c] = {} /\ Inside(c)' = {}
  <2>1. CASE c = b
    BY <2>1, <1>3, <1>4, <1>5 DEF Inside, Doing
  <2>2. CASE c # b
    <3>1. Doing(c, {"freeHead"}) = {}
      BY <2>2, <1>10, <1>1 DEF Doing
    <3>2. list[c] = {} /\ Inside(c) = {}
      BY <3>1, <1>12 DEF OneUser, Withdrawn
    <3>3. Inside(c)' \subseteq Inside(c)
      BY <1>4, <1>5 DEF Inside, Doing
    <3> QED BY <2>2, <3>2, <3>3, <1>3
  <2> QED BY <2>1, <2>2
<1>13. Withdrawn'
  BY <1>2, <1>11, <1>12 DEF Withdrawn
<1>14. ASSUME NEW c \in Bundles
       PROVE  IsFiniteSet(Counted(c)') /\ instance_counts'[c] = Cardinality(Counted(c)')
  <2>1. CASE c = b
    <3>1. {th'[s].node : s \in Doing(c, {"uncount"})' \ dangling'} = {}
      BY <2>1, <1>4, <1>5 DEF Doing, DeleteSteps
    <3>2. Counted(c)' = {}
      BY <2>1, <3>1, <1>3 DEF Counted
    <3> QED BY <2>1, <3>2, <1>3, FS_EmptySet
  <2>2. CASE c # b
    <3>1. \A n \in list[c] : Counting(n)' <=> Counting(n)
      BY <2>2, <1>2, <1>4, <1>5, <1>8 DEF Counting, CreateSteps, heapVars
    <3>2. \A s : s \in Doing(c, {"uncount"})' \ dangling' <=> s \in Doing(c, {"uncount"}) \ dangling
      BY <2>2, <1>2, <1>4, <1>5 DEF Doing, DeleteSteps
    <3>3. \A s \in Doing(c, {"uncount"}) : th'[s] = th[s]
      BY <1>4 DEF Doing, DeleteSteps
    <3>4. Counted(c)' = Counted(c)
      BY <2>2, <1>3, <3>1, <3>2, <3>3 DEF Counted
    <3> QED BY <2>2, <1>3, <3>4 DEF OneUser, CountsMatch
  <2> QED BY <2>1, <2>2
<1>15. CountsMatch'
  BY <1>14 DEF CountsMatch
<1> QED BY <1>6, <1>7, <1>9, <1>13, <1>15 DEF OneUser

\* OneUser, one command after the other.
LEMMA CommandOne ==
    ASSUME AnyUse, AnyUse', OneUser, NEW t \in Admins, Alone(t), Command(t)
    PROVE  OneUser'
<1> USE DEF At
<1>0. /\ {"startMark", "register", "registerAdd", "iidRegister", "activate", "stopMark", "unregister",
          "hashDel", "freeHead", "iidUnregister", "installed"} \subseteq StartSteps \union StopSteps
  BY DEF StartSteps, StopSteps
<1>1. ASSUME NEW i \in Ids, StartCheck(t, i) PROVE OneUser'
  <2>2. UNCHANGED <<headVars, heapVars, dangling>> /\ th[t].pc # "freeHead"
    BY <1>1 DEF StartCheck
  <2> QED BY <1>1, <2>2, AdminGoes, ElsewhereOne
<1>2. ASSUME NEW i \in Ids, StopCheck(t, i) PROVE OneUser'
  <2>2. UNCHANGED <<headVars, heapVars, dangling>> /\ th[t].pc # "freeHead"
    BY <1>2 DEF StopCheck
  <2> QED BY <1>2, <2>2, AdminGoes, ElsewhereOne
<1>3. ASSUME StartMark(t) PROVE OneUser'
  <2>2. UNCHANGED <<headVars, heapVars, dangling>> /\ th[t].pc # "freeHead"
    BY <1>3 DEF StartMark
  <2> QED BY <1>3, <2>2, AdminGoes, ElsewhereOne
<1>4. ASSUME RegisterFind(t) PROVE OneUser'
  <2>2. UNCHANGED <<headVars, heapVars, dangling>> /\ th[t].pc # "freeHead"
    BY <1>4 DEF RegisterFind
  <2> QED BY <1>4, <2>2, AdminGoes, ElsewhereOne
<1>5. ASSUME IIDRegister(t) PROVE OneUser'
  <2>2. UNCHANGED <<headVars, heapVars, dangling>> /\ th[t].pc # "freeHead"
    BY <1>5 DEF IIDRegister
  <2> QED BY <1>5, <2>2, AdminGoes, ElsewhereOne
<1>6. ASSUME Activate(t) PROVE OneUser'
  <2>2. UNCHANGED <<headVars, heapVars, dangling>> /\ th[t].pc # "freeHead"
    BY <1>6 DEF Activate
  <2> QED BY <1>6, <2>2, AdminGoes, ElsewhereOne
<1>7. ASSUME StopMark(t) PROVE OneUser'
  <2>2. UNCHANGED <<headVars, heapVars, dangling>> /\ th[t].pc # "freeHead"
    BY <1>7 DEF StopMark
  <2> QED BY <1>7, <2>2, AdminGoes, ElsewhereOne
<1>8. ASSUME Unregister(t) PROVE OneUser'
  <2>2. UNCHANGED <<headVars, heapVars, dangling>> /\ th[t].pc # "freeHead"
    BY <1>8 DEF Unregister
  <2> QED BY <1>8, <2>2, AdminGoes, ElsewhereOne
<1>9. ASSUME IIDUnregister(t) PROVE OneUser'
  <2>2. UNCHANGED <<headVars, heapVars, dangling>> /\ th[t].pc # "freeHead"
    BY <1>9 DEF IIDUnregister
  <2> QED BY <1>9, <2>2, AdminGoes, ElsewhereOne
<1>10. ASSUME Stopped(t) PROVE OneUser'
  <2>2. UNCHANGED <<headVars, heapVars, dangling>> /\ th[t].pc # "freeHead"
    BY <1>10 DEF Stopped
  <2> QED BY <1>10, <2>2, AdminGoes, ElsewhereOne
<1>11. ASSUME NEW b \in Bundles, Install(t, b) PROVE OneUser'
  BY <1>11, UninstalledOne DEF Install
<1>12. ASSUME NEW i \in Ids, Uninstall(t, i) PROVE OneUser'
  BY <1>12, UninstalledOne DEF Uninstall
<1> QED BY RegisterAddOne, HashDelOne, FreeHeadOne, <1>1, <1>2, <1>3, <1>4, <1>5, <1>6, <1>7,
           <1>8, <1>9, <1>10, <1>11, <1>12 DEF Command

\* A user that goes on without a list, a counter or a handle changing.
LEMMA UserWithdrawn ==
    ASSUME AnyUse, OneUser, NEW t \in Users, NEW p, NEW i, NEW b, NEW h, NEW n, NEW o,
           Moves(t, p, i, b, h, n, o),
           UNCHANGED <<registered, dangling>>,
           \A c \in Bundles \ registered : Doing(c, {"freeHead"}) = {} => list'[c] = {},
           p \in CreateSteps \union DeleteSteps \union {"idle"},
           p # "idle" /\ t \notin dangling => b \in registered \/ t \in Inside(b)
    PROVE  Withdrawn'
<1>1. th'[t].pc = p /\ th'[t].bundle = b /\ (\A s \in Threads \ {t} : th'[s] = th[s]) /\ t \in Threads
  BY DEF Moves, Threads
<1>2. p \notin StartSteps \union StopSteps /\ th[t].pc \notin StartSteps \union StopSteps
  BY UserPlaces, ModBundleAssumption DEF AnyUse, Locals, Threads
<1>3. \A c : Doing(c, {"freeHead"})' = Doing(c, {"freeHead"})
  BY <1>1, <1>2 DEF Doing, StopSteps
<1>4. ASSUME NEW c \in Bundles \ registered, Inside(c) = {} PROVE Inside(c)' = {}
  BY <1>1, <1>4, UserPlaces DEF Inside, Doing
<1>5. \A s \in Threads : th'[s].pc \in {"registerAdd", "freeHead"} => th'[s] = th[s]
  BY <1>1, <1>2 DEF StartSteps, StopSteps
<1>6. \A s \in Threads : th'[s].pc \in {"registerAdd", "freeHead"} => th'[s].bundle \notin registered'
  BY <1>5 DEF OneUser, Withdrawn
<1> QED BY <1>3, <1>4, <1>6 DEF OneUser, Withdrawn

\* OneUser, one step of a user after the other.
LEMMA CreateFindOne ==
    ASSUME AnyUse, AnyUse', OneUser, NEW t \in Users, NEW b \in Bundles, NEW o \in Owners,
           CreateFind(t, b, o)
    PROVE  OneUser'
<1>0. /\ Calls(t, "alloc", 0, b, Null, o)
      /\ th[t].pc = "idle"
      /\ b \in registered
      /\ "calmStops" \notin broken' => Doing(b, {"stopMark", "unregister", "hashDel"}) = {}
      /\ UNCHANGED <<srvVars, headVars, heapVars, dangling>>
  BY CreateFindDoes
<1>a. /\ t \in Threads /\ \A s \in Threads \ {t} : th'[s] = th[s]
      /\ th'[t].pc = "alloc" /\ th'[t].bundle = b /\ th'[t].handle = Null /\ th'[t].node = Null
  BY <1>0, UserIn DEF Calls, Stays, Returns, Moves
<1>1. OneNode'
  BY <1>0 DEF OneUser, OneNode, headVars, heapVars
<1>2. NodesHeld'
  BY <1>0, <1>a DEF OneUser, NodesHeld, HoldingNode, headVars, heapVars
<1>3. Listed'
  BY <1>0, <1>a DEF OneUser, Listed, headVars, heapVars
<1>4. Withdrawn'
  <2>1. Moves(t, "alloc", 0, b, Null, Null, o) /\ UNCHANGED <<registered, list, dangling>>
    BY <1>0 DEF Calls, headVars
  <2> QED BY <1>0, <2>1, UserPlaces, UserWithdrawn DEF OneUser, Withdrawn
<1>5. CountsMatch'
  <2>1. \A n : Counting(n)' <=> Counting(n)
    BY <1>0, <1>a DEF Counting, headVars, heapVars
  <2>2. \A c : Doing(c, {"uncount"})' = Doing(c, {"uncount"})
    BY <1>0, <1>a DEF Doing
  <2>3. \A c : \A s \in Doing(c, {"uncount"}) : th'[s] = th[s]
    BY <1>0, <1>a DEF Doing
  <2>4. \A c : Counted(c)' = Counted(c)
    BY <1>0, <2>1, <2>2, <2>3 DEF Counted, headVars, heapVars
  <2> QED BY <1>0, <2>4 DEF OneUser, CountsMatch, headVars, heapVars
<1> QED BY <1>1, <1>2, <1>3, <1>4, <1>5 DEF OneUser

LEMMA DeleteFindOne ==
    ASSUME AnyUse, AnyUse', OneUser, NEW t \in Users, NEW b \in Bundles, NEW h \in Handles,
           NEW o \in Owners, DeleteFind(t, b, h, o)
    PROVE  OneUser'
<1>0. /\ Calls(t, "match", 0, b, h, o)
      /\ th[t].pc = "idle"
      /\ b \in registered
      /\ h \in given /\ \E n \in list[b] : p_handle[n] = h
      /\ "oneDeletion" \notin broken' =>
            \A u \in Threads : th[u].pc \in {"match", "free"} => th[u].handle # h
      /\ UNCHANGED <<srvVars, headVars, heapVars, dangling>>
  BY DeleteFindDoes
<1>a. /\ t \in Threads /\ \A s \in Threads \ {t} : th'[s] = th[s]
      /\ th'[t].pc = "match" /\ th'[t].bundle = b /\ th'[t].handle = h /\ th'[t].node = Null
  BY <1>0, UserIn DEF Calls, Stays, Returns, Moves
<1>1. OneNode'
  BY <1>0 DEF OneUser, OneNode, headVars, heapVars
<1>2. NodesHeld'
  BY <1>0, <1>a DEF OneUser, NodesHeld, HoldingNode, headVars, heapVars
<1>3. Listed'
  BY <1>0, <1>a DEF OneUser, Listed, headVars, heapVars
<1>4. Withdrawn'
  <2>1. Moves(t, "match", 0, b, h, Null, o) /\ UNCHANGED <<registered, list, dangling>>
    BY <1>0 DEF Calls, headVars
  <2> QED BY <1>0, <2>1, UserPlaces, UserWithdrawn DEF OneUser, Withdrawn
<1>5. CountsMatch'
  <2>1. \A n : Counting(n)' <=> Counting(n)
    BY <1>0, <1>a DEF Counting, headVars, heapVars
  <2>2. \A c : Doing(c, {"uncount"})' = Doing(c, {"uncount"})
    BY <1>0, <1>a DEF Doing
  <2>3. \A c : \A s \in Doing(c, {"uncount"}) : th'[s] = th[s]
    BY <1>0, <1>a DEF Doing
  <2>4. \A c : Counted(c)' = Counted(c)
    BY <1>0, <2>1, <2>2, <2>3 DEF Counted, headVars, heapVars
  <2> QED BY <1>0, <2>4 DEF OneUser, CountsMatch, headVars, heapVars
<1> QED BY <1>1, <1>2, <1>3, <1>4, <1>5 DEF OneUser

LEMMA CreateAllocOne ==
    ASSUME "freshAddresses" \notin broken', AnyUse, AnyUse', OneUser, NEW t \in Users, NEW h \in Handles,
           CreateAlloc(t, h)
    PROVE  OneUser'
<1>0. /\ Moves(t, "add", th[t].id, th[t].bundle, h, th[t].node, th[t].owner)
      /\ th[t].pc = "alloc"
      /\ h \notin heap
      /\ heap' = heap \union {h}
      /\ token' = [token EXCEPT ![h] = th[t].owner]
      /\ "freshAddresses" \notin broken' => \A b \in Bundles : \A n \in list[b] : p_handle[n] # h
      /\ UNCHANGED <<srvVars, headVars, p_handle, given, dangling>>
  BY CreateAllocDoes
<1>a. /\ t \in Threads /\ \A s \in Threads \ {t} : th'[s] = th[s]
      /\ th'[t].pc = "add" /\ th'[t].bundle = th[t].bundle
      /\ th'[t].handle = h /\ th'[t].node = th[t].node
  BY <1>0, UserIn DEF Calls, Stays, Returns, Moves
<1>1. OneNode'
  BY <1>0 DEF OneUser, OneNode, headVars
<1>2. NodesHeld'
  <2>1. \A s \in Threads : th[s].pc \in {"free", "unlink"} => th[s].bundle \in Bundles
    BY DEF AnyUse, Locals, DeleteSteps
  <2> QED BY <1>0, <1>a, <2>1 DEF OneUser, NodesHeld, HoldingNode, headVars
<1>3. Listed'
  BY <1>0, <1>a DEF OneUser, Listed, headVars
<1>4. Withdrawn'
  <2>1. /\ Moves(t, "add", th[t].id, th[t].bundle, h, th[t].node, th[t].owner)
        /\ UNCHANGED <<registered, dangling>>
    BY <1>0 DEF Stays, Returns, headVars, heapVars
  <2>2. th[t].bundle \in Bundles /\ (t \notin dangling => t \in Inside(th[t].bundle))
    BY <1>0, <1>a, UserIn DEF Inside, Doing, CreateSteps, DeleteSteps
  <2> QED BY <1>0, <2>1, <2>2, UserPlaces, UserWithdrawn DEF OneUser, Withdrawn, headVars
<1>5. CountsMatch'
  <2>1. \A n : Counting(n)' <=> Counting(n)
    BY <1>0, <1>a DEF Counting, headVars
  <2>2. \A c : Doing(c, {"uncount"})' = Doing(c, {"uncount"})
    BY <1>0, <1>a DEF Doing
  <2>3. \A c : \A s \in Doing(c, {"uncount"}) : th'[s] = th[s]
    BY <1>0, <1>a DEF Doing
  <2>4. \A c : Counted(c)' = Counted(c)
    BY <1>0, <2>1, <2>2, <2>3 DEF Counted, headVars
  <2> QED BY <1>0, <2>4 DEF OneUser, CountsMatch, headVars
<1> QED BY <1>1, <1>2, <1>3, <1>4, <1>5 DEF OneUser

LEMMA DeleteFreeOne ==
    ASSUME AnyUse, AnyUse', OneUser, NEW t \in Users, DeleteFree(t)
    PROVE  OneUser'
<1>0. /\ Moves(t, "unlink", th[t].id, th[t].bundle, Null, th[t].node, th[t].owner)
      /\ th[t].pc = "free" /\ t \notin dangling
      /\ heap' = heap \ {th[t].handle} /\ given' = given \ {th[t].handle}
      /\ token' = [token EXCEPT ![th[t].handle] = Null]
      /\ UNCHANGED <<srvVars, headVars, p_handle, dangling>>
  BY DeleteFreeDoes
<1>a. /\ t \in Threads /\ \A s \in Threads \ {t} : th'[s] = th[s]
      /\ th'[t].pc = "unlink" /\ th'[t].bundle = th[t].bundle
      /\ th'[t].handle = Null /\ th'[t].node = th[t].node
  BY <1>0, UserIn DEF Calls, Stays, Returns, Moves
<1>1. OneNode'
  BY <1>0 DEF OneUser, OneNode, headVars
<1>2. NodesHeld'
  BY <1>0, <1>a DEF OneUser, NodesHeld, HoldingNode, headVars
<1>3. Listed'
  <2>1. /\ th[t].bundle \in Bundles /\ th[t].node \in list[th[t].bundle]
        /\ p_handle[th[t].node] = th[t].handle
    BY <1>0, <1>a, UserIn DEF OneUser, NodesHeld, DeleteSteps
  <2>2. ASSUME NEW c \in Bundles, NEW n \in list[c], p_handle[n] = th[t].handle PROVE n = th[t].node
    BY <2>1, <2>2 DEF OneUser, OneNode
  <2> SUFFICES ASSUME NEW c \in Bundles, NEW n \in list[c]
               PROVE  /\ p_handle[n] \in Handles
                      /\ \/ p_handle[n] \in heap'
                         \/ \E s \in Threads \ dangling : th'[s].pc = "unlink" /\ th'[s].node = n
                      /\ \A s \in Threads : th'[s].pc = "add" => p_handle[n] # th'[s].handle
    BY <1>0 DEF Listed, headVars
  <2>3. /\ p_handle[n] \in Handles
        /\ p_handle[n] \in heap \/ \E s \in Threads \ dangling : th[s].pc = "unlink" /\ th[s].node = n
        /\ \A s \in Threads : th[s].pc = "add" => p_handle[n] # th[s].handle
    BY DEF OneUser, Listed
  <2> QED BY <1>0, <1>a, <2>2, <2>3
<1>4. Withdrawn'
  <2>1. /\ Moves(t, "unlink", th[t].id, th[t].bundle, Null, th[t].node, th[t].owner)
        /\ UNCHANGED <<registered, dangling>>
    BY <1>0 DEF Stays, Returns, headVars, heapVars
  <2>2. th[t].bundle \in Bundles /\ (t \notin dangling => t \in Inside(th[t].bundle))
    BY <1>0, <1>a, UserIn DEF Inside, Doing, CreateSteps, DeleteSteps
  <2> QED BY <1>0, <2>1, <2>2, UserPlaces, UserWithdrawn DEF OneUser, Withdrawn, headVars
<1>5. CountsMatch'
  <2>1. \A n : Counting(n)' <=> Counting(n)
    BY <1>0, <1>a DEF Counting, headVars
  <2>2. \A c : Doing(c, {"uncount"})' = Doing(c, {"uncount"})
    BY <1>0, <1>a DEF Doing
  <2>3. \A c : \A s \in Doing(c, {"uncount"}) : th'[s] = th[s]
    BY <1>0, <1>a DEF Doing
  <2>4. \A c : Counted(c)' = Counted(c)
    BY <1>0, <2>1, <2>2, <2>3 DEF Counted, headVars
  <2> QED BY <1>0, <2>4 DEF OneUser, CountsMatch, headVars
<1> QED BY <1>1, <1>2, <1>3, <1>4, <1>5 DEF OneUser

\* One more, and one less.
LEMMA Fewer ==
    ASSUME NEW S, NEW x \in S, IsFiniteSet(S)
    PROVE  IsFiniteSet(S \ {x}) /\ Cardinality(S \ {x}) = Cardinality(S) - 1
BY FS_RemoveElement

LEMMA DeleteMatchOne ==
    ASSUME AnyUse, AnyUse', OneUser, NEW t \in Users, DeleteMatch(t)
    PROVE  OneUser'
<1>0. /\ \/ Returns(t)
         \/ /\ token[th[t].handle] = th[t].owner
            /\ \E n \in list[th[t].bundle] :
                  /\ p_handle[n] = th[t].handle
                  /\ Moves(t, "free", th[t].id, th[t].bundle, th[t].handle, n, th[t].owner)
      /\ th[t].pc = "match" /\ t \notin dangling
      /\ UNCHANGED <<srvVars, headVars, heapVars, dangling>>
  BY DeleteMatchDoes
<1>a. /\ t \in Threads /\ \A s \in Threads \ {t} : th'[s] = th[s]
      /\ th[t].bundle \in Bundles /\ th[t].handle \in given /\ given \subseteq heap
      /\ th'[t].pc = "idle" \/ /\ th'[t].pc = "free" /\ th'[t].bundle = th[t].bundle
                               /\ th'[t].handle = th[t].handle
                               /\ th'[t].node \in list[th[t].bundle]
                               /\ p_handle[th'[t].node] = th[t].handle
  <2>1. t \in Threads /\ th[t].bundle \in Bundles /\ th[t].handle \in given /\ given \subseteq heap
    BY <1>0, UserIn, UserHas DEF AnyUse, HandlesHeld, DeleteSteps
  <2> QED BY <1>0, <2>1 DEF Returns, Moves
<1>1. OneNode'
  BY <1>0 DEF OneUser, OneNode, headVars, heapVars
<1>b. UNCHANGED <<list, p_handle, heap, dangling>>
  BY <1>0 DEF headVars, heapVars
<1>c. ASSUME NEW s \in Threads \ dangling, s # t, th'[t].pc = "free", th[s].pc \in HoldingNode
      PROVE  th[s].node # th'[t].node
  <2>1. CASE th[s].pc = "free"
    <3>1. th[s].handle # th[t].handle
      BY <1>0, <1>a, <1>c, <2>1 DEF AnyUse, HandlesHeld, Holding
    <3> QED BY <1>a, <1>c, <2>1, <3>1 DEF OneUser, NodesHeld
  <2>2. CASE th[s].pc = "unlink"
    BY <1>a, <1>c, <2>2 DEF OneUser, NodesHeld
  <2>3. CASE th[s].pc = "uncount"
    BY <1>a, <1>c, <2>3 DEF OneUser, NodesHeld
  <2> QED BY <1>c, <2>1, <2>2, <2>3 DEF HoldingNode
<1>2. NodesHeld'
  <2>1. ASSUME NEW s \in Threads \ dangling'
        PROVE  /\ th'[s].pc \in {"free", "unlink"} => th'[s].node \in list'[th'[s].bundle]
               /\ th'[s].pc = "free" => p_handle'[th'[s].node] = th'[s].handle
               /\ th'[s].pc = "unlink" => p_handle'[th'[s].node] \notin heap'
               /\ th'[s].pc = "uncount" => \A b \in Bundles : th'[s].node \notin list'[b]
               /\ th'[s].pc \in {"count", "match"} =>
                     \E n \in list'[th'[s].bundle] : p_handle'[n] = th'[s].handle
    BY <1>a, <1>b DEF OneUser, NodesHeld
  <2>2. ASSUME NEW r \in Threads \ dangling', NEW s \in Threads \ dangling',
               th'[r].pc \in HoldingNode, th'[s].pc \in HoldingNode, th'[r].node = th'[s].node
        PROVE  r = s
    BY <1>a, <1>b, <1>c, <2>2 DEF OneUser, NodesHeld, HoldingNode
  <2> QED BY <2>1, <2>2 DEF NodesHeld
<1>3. Listed'
  BY <1>0, <1>a, <1>b DEF OneUser, Listed
<1>4. Withdrawn'
  <2>1. UNCHANGED <<registered, list, dangling>>
    BY <1>0 DEF headVars
  <2>2. t \in Inside(th[t].bundle)
    BY <1>0, <1>a DEF Inside, Doing, DeleteSteps
  <2>3. CASE Returns(t)
    BY <1>0, <2>1, <2>3, UserPlaces, UserWithdrawn DEF Returns, OneUser, Withdrawn
  <2>4. ASSUME NEW n, Moves(t, "free", th[t].id, th[t].bundle, th[t].handle, n, th[t].owner)
        PROVE  Withdrawn'
    BY <1>0, <2>1, <2>2, <2>4, UserPlaces, UserWithdrawn DEF OneUser, Withdrawn
  <2> QED BY <1>0, <2>3, <2>4
<1>5. CountsMatch'
  <2>1. \A n : Counting(n)' <=> Counting(n)
    BY <1>0, <1>a DEF Counting, headVars, heapVars
  <2>2. \A c : Doing(c, {"uncount"})' = Doing(c, {"uncount"})
    BY <1>0, <1>a DEF Doing
  <2>3. \A c : \A s \in Doing(c, {"uncount"}) : th'[s] = th[s]
    BY <1>0, <1>a DEF Doing
  <2>4. \A c : Counted(c)' = Counted(c)
    BY <1>0, <2>1, <2>2, <2>3 DEF Counted, headVars, heapVars
  <2> QED BY <1>0, <2>4 DEF OneUser, CountsMatch, headVars, heapVars
<1> QED BY <1>1, <1>2, <1>3, <1>4, <1>5 DEF OneUser

LEMMA CreateCountOne ==
    ASSUME AnyUse, AnyUse', OneUser, NEW t \in Users, CreateCount(t)
    PROVE  OneUser'
<1>0. /\ Returns(t)
      /\ th[t].pc = "count" /\ t \notin dangling
      /\ instance_counts' = [instance_counts EXCEPT ![th[t].bundle] = @ + 1]
      /\ given' = given \union {th[t].handle}
      /\ UNCHANGED <<srvVars, registered, list, p_handle, heap, token, dangling>>
  BY CreateCountDoes
<1>a. /\ t \in Threads /\ \A s \in Threads \ {t} : th'[s] = th[s]
      /\ th'[t].pc = "idle" /\ th'[t].bundle = Null /\ th'[t].handle = Null /\ th'[t].node = Null
  BY <1>0, UserIn DEF Calls, Stays, Returns, Moves
<1> DEFINE b == th[t].bundle
<1>b. b \in Bundles
  BY <1>0, UserIn DEF CreateSteps
<1>1. OneNode'
  BY <1>0 DEF OneUser, OneNode
<1>2. NodesHeld'
  BY <1>0, <1>a DEF OneUser, NodesHeld, HoldingNode
<1>3. Listed'
  BY <1>0, <1>a DEF OneUser, Listed
<1>4. Withdrawn'
  <2>1. Moves(t, "idle", 0, Null, Null, Null, Null) /\ UNCHANGED <<registered, list, dangling>>
    BY <1>0 DEF Returns
  <2> QED BY <1>0, <2>1, UserPlaces, UserWithdrawn DEF OneUser, Withdrawn
<1>5. CountsMatch'
  <2> SUFFICES ASSUME NEW c \in Bundles
               PROVE  IsFiniteSet(Counted(c)') /\ instance_counts'[c] = Cardinality(Counted(c)')
    BY DEF CountsMatch
  <2>0. /\ IsFiniteSet(Counted(c)) /\ instance_counts[c] = Cardinality(Counted(c))
        /\ b \in Bundles /\ instance_counts \in [Bundles -> Int] /\ list \in [Bundles -> SUBSET Nodes]
    BY <1>b, UserHas DEF OneUser, CountsMatch
  <2>1. PICK m \in list[b] : p_handle[m] = th[t].handle
    BY <1>0, <1>a DEF OneUser, NodesHeld
  <2>2. ASSUME NEW d \in Bundles, NEW n \in list[d] PROVE Counting(n)' <=> Counting(n) /\ n # m
    <3>1. p_handle[n] = th[t].handle <=> n = m
      BY <1>b, <2>1 DEF OneUser, OneNode
    <3>2. \A s \in Threads \ {t} : th[s].pc = "count" => th[s].handle # th[t].handle
      BY <1>0, <1>a DEF AnyUse, HandlesHeld, Holding
    <3> QED BY <1>0, <1>a, <3>1, <3>2 DEF Counting
  <2>3. \A s : s \in Doing(c, {"uncount"})' \ dangling' <=> s \in Doing(c, {"uncount"}) \ dangling
    BY <1>0, <1>a DEF Doing
  <2>4. \A s \in Doing(c, {"uncount"}) : th'[s] = th[s]
    BY <1>0, <1>a DEF Doing
  <2>5. CASE c # b
    <3>1. m \notin list[c]
      BY <1>b, <2>1, <2>5 DEF OneUser, OneNode
    <3>2. Counted(c)' = Counted(c)
      BY <1>0, <2>2, <2>3, <2>4, <3>1 DEF Counted
    <3> QED BY <1>0, <2>0, <2>5, <3>2
  <2>6. CASE c = b
    <3>1. Counting(m)
      BY <1>0, <1>a, <2>1 DEF Counting
    <3>2. \A s \in Doing(c, {"uncount"}) \ dangling : th[s].node # m
      BY <1>b, <2>1, <2>6 DEF OneUser, NodesHeld, Doing
    <3>3. Counted(c)' = Counted(c) \union {m} /\ m \notin Counted(c)
      BY <1>0, <2>1, <2>2, <2>3, <2>4, <2>6, <3>1, <3>2 DEF Counted
    <3>4. instance_counts'[c] = instance_counts[c] + 1
      BY <1>0, <2>0, <2>6
    <3> QED BY <2>0, <3>3, <3>4, FS_AddElement
  <2> QED BY <2>5, <2>6
<1> QED BY <1>1, <1>2, <1>3, <1>4, <1>5 DEF OneUser

LEMMA DeleteUncountOne ==
    ASSUME AnyUse, AnyUse', OneUser, NEW t \in Users, DeleteUncount(t)
    PROVE  OneUser'
<1>0. /\ Returns(t)
      /\ th[t].pc = "uncount" /\ t \notin dangling
      /\ instance_counts' = [instance_counts EXCEPT ![th[t].bundle] = @ - 1]
      /\ UNCHANGED <<srvVars, registered, list, heapVars, dangling>>
  BY DeleteUncountDoes
<1>a. /\ t \in Threads /\ \A s \in Threads \ {t} : th'[s] = th[s]
      /\ th'[t].pc = "idle" /\ th'[t].bundle = Null /\ th'[t].handle = Null /\ th'[t].node = Null
  BY <1>0, UserIn DEF Calls, Stays, Returns, Moves
<1> DEFINE b == th[t].bundle
<1>b. b \in Bundles
  BY <1>0, UserIn DEF DeleteSteps
<1>1. OneNode'
  BY <1>0 DEF OneUser, OneNode, heapVars
<1>2. NodesHeld'
  BY <1>0, <1>a DEF OneUser, NodesHeld, HoldingNode, heapVars
<1>3. Listed'
  BY <1>0, <1>a DEF OneUser, Listed, heapVars
<1>4. Withdrawn'
  <2>1. Moves(t, "idle", 0, Null, Null, Null, Null) /\ UNCHANGED <<registered, list, dangling>>
    BY <1>0 DEF Returns
  <2> QED BY <1>0, <2>1, UserPlaces, UserWithdrawn DEF OneUser, Withdrawn
<1>5. CountsMatch'
  <2> SUFFICES ASSUME NEW c \in Bundles
               PROVE  IsFiniteSet(Counted(c)') /\ instance_counts'[c] = Cardinality(Counted(c)')
    BY DEF CountsMatch
  <2>0. /\ IsFiniteSet(Counted(c)) /\ instance_counts[c] = Cardinality(Counted(c))
        /\ b \in Bundles /\ instance_counts \in [Bundles -> Int] /\ list \in [Bundles -> SUBSET Nodes]
    BY <1>b, UserHas DEF OneUser, CountsMatch
  <2> DEFINE m == th[t].node
  <2>1. \A d \in Bundles : m \notin list[d]
    BY <1>0, <1>a DEF OneUser, NodesHeld
  <2>2. \A n : Counting(n)' <=> Counting(n)
    BY <1>0, <1>a DEF Counting, heapVars
  <2>3. \A s : s \in Doing(c, {"uncount"})' \ dangling' <=> s \in Doing(c, {"uncount"}) \ dangling /\ s # t
    BY <1>0, <1>a DEF Doing
  <2>4. \A s \in Doing(c, {"uncount"}) : s # t => th'[s] = th[s]
    BY <1>0, <1>a DEF Doing
  <2>5. CASE c # b
    <3>1. t \notin Doing(c, {"uncount"})
      BY <2>5 DEF Doing
    <3>2. Counted(c)' = Counted(c)
      BY <1>0, <2>2, <2>3, <2>4, <3>1 DEF Counted
    <3> QED BY <1>0, <2>0, <2>5, <3>2
  <2>6. CASE c = b
    <3>1. t \in Doing(c, {"uncount"}) \ dangling
      BY <1>0, <1>a, <2>6 DEF Doing
    <3>2. \A s \in Doing(c, {"uncount"}) \ dangling : th[s].node = m => s = t
      BY <1>0, <1>a DEF OneUser, NodesHeld, Doing, HoldingNode
    <3>3. Counted(c)' = Counted(c) \ {m} /\ m \in Counted(c)
      BY <1>0, <2>0, <2>1, <2>2, <2>3, <2>4, <3>1, <3>2 DEF Counted
    <3>4. instance_counts'[c] = instance_counts[c] - 1
      BY <1>0, <2>0, <2>6
    <3>5. IsFiniteSet(Counted(c) \ {m}) /\ Cardinality(Counted(c) \ {m}) = Cardinality(Counted(c)) - 1
      BY <2>0, <3>3, Fewer
    <3> QED BY <2>0, <3>3, <3>4, <3>5
  <2> QED BY <2>5, <2>6
<1> QED BY <1>1, <1>2, <1>3, <1>4, <1>5 DEF OneUser

LEMMA CreateAddOne ==
    ASSUME AnyUse, AnyUse', OneUser, NEW t \in Users, NEW n \in Nodes, CreateAdd(t, n)
    PROVE  OneUser'
<1>0. /\ Stays(t, "count")
      /\ th[t].pc = "add" /\ t \notin dangling
      /\ \A b \in Bundles : n \notin list[b]
      /\ \A u \in Threads : th[u].node # n
      /\ p_handle' = [p_handle EXCEPT ![n] = th[t].handle]
      /\ list' = [list EXCEPT ![th[t].bundle] = @ \union {n}]
      /\ UNCHANGED <<srvVars, registered, instance_counts, heap, token, given, dangling>>
  BY CreateAddDoes
<1>a. /\ t \in Threads /\ \A s \in Threads \ {t} : th'[s] = th[s]
      /\ th'[t].pc = "count" /\ th'[t].bundle = th[t].bundle
      /\ th'[t].handle = th[t].handle /\ th'[t].node = th[t].node
  BY <1>0, UserIn DEF Calls, Stays, Returns, Moves
<1> DEFINE b == th[t].bundle
<1>b. b \in Bundles /\ th[t].handle \in heap /\ th[t].handle \in Handles
  BY <1>0, UserIn, UserHas DEF CreateSteps, Holding
<1>c. /\ list'[b] = list[b] \union {n} /\ \A c \in Bundles \ {b} : list'[c] = list[c]
      /\ p_handle'[n] = th[t].handle /\ \A m \in Nodes \ {n} : p_handle'[m] = p_handle[m]
      /\ \A c \in Bundles : list[c] \subseteq Nodes \ {n}
  BY <1>0, <1>b, UserHas
<1>d. \A c \in Bundles : \A m \in list[c] : m # n /\ p_handle'[m] = p_handle[m] /\ p_handle[m] # th[t].handle
  <2>1. \A c \in Bundles : \A m \in list[c] : p_handle[m] # th[t].handle
    BY <1>0, <1>a DEF OneUser, Listed
  <2> QED BY <1>c, <2>1
<1>1. OneNode'
  <2> SUFFICES ASSUME NEW c \in Bundles, NEW d \in Bundles, NEW k \in list'[c], NEW l \in list'[d]
               PROVE  /\ p_handle'[k] = p_handle'[l] => k = l
                      /\ k = l => c = d
    BY DEF OneNode
  <2>1. CASE k \in list[c] /\ l \in list[d]
    BY <1>d, <2>1 DEF OneUser, OneNode
  <2>2. CASE k = n /\ c = b /\ l \in list[d]
    BY <1>c, <1>d, <2>2
  <2>3. CASE l = n /\ d = b /\ k \in list[c]
    BY <1>c, <1>d, <2>3
  <2>4. CASE k = n /\ c = b /\ l = n /\ d = b
    BY <2>4
  <2>5. \A e \in Bundles : \A m \in list'[e] : m \in list[e] \/ (m = n /\ e = b)
    BY <1>c
  <2> QED BY <2>1, <2>2, <2>3, <2>4, <2>5
<1>2. NodesHeld'
  <2>1. ASSUME NEW s \in Threads \ dangling', s # t
        PROVE  /\ th'[s].pc \in {"free", "unlink"} => th'[s].node \in list'[th'[s].bundle]
               /\ th'[s].pc = "free" => p_handle'[th'[s].node] = th'[s].handle
               /\ th'[s].pc = "unlink" => p_handle'[th'[s].node] \notin heap'
               /\ th'[s].pc = "uncount" => \A c \in Bundles : th'[s].node \notin list'[c]
               /\ th'[s].pc \in {"count", "match"} =>
                     \E m \in list'[th'[s].bundle] : p_handle'[m] = th'[s].handle
    <3>1. s \in Threads \ dangling /\ th'[s] = th[s] /\ th[s].node # n
      BY <1>0, <1>a, <2>1
    <3>2. /\ th[s].pc \in {"free", "unlink"} => th[s].node \in list[th[s].bundle]
          /\ th[s].pc = "free" => p_handle[th[s].node] = th[s].handle
          /\ th[s].pc = "unlink" => p_handle[th[s].node] \notin heap
          /\ th[s].pc = "uncount" => \A c \in Bundles : th[s].node \notin list[c]
          /\ th[s].pc \in {"count", "match"} => \E m \in list[th[s].bundle] : p_handle[m] = th[s].handle
      BY <3>1 DEF OneUser, NodesHeld
    <3>3. th[s].pc \in {"free", "unlink", "count", "match"} => th[s].bundle \in Bundles
      BY <3>1 DEF AnyUse, Locals, CreateSteps, DeleteSteps
    <3>4. \A c \in Bundles : list[c] \subseteq list'[c] /\ list'[c] \subseteq list[c] \union {n}
      BY <1>c
    <3> QED BY <1>0, <1>d, <3>1, <3>2, <3>3, <3>4
  <2>2. \E m \in list'[b] : p_handle'[m] = th[t].handle
    BY <1>c
  <2>3. th'[t].pc = "count" /\ th'[t].bundle = b /\ th'[t].handle = th[t].handle
    BY <1>a
  <2>4. ASSUME NEW r \in Threads \ dangling', NEW s \in Threads \ dangling',
               th'[r].pc \in HoldingNode, th'[s].pc \in HoldingNode, th'[r].node = th'[s].node
        PROVE  r = s
    BY <1>0, <1>a, <2>4 DEF OneUser, NodesHeld, HoldingNode
  <2> HIDE DEF b
  <2>5. ASSUME NEW s \in Threads \ dangling'
        PROVE  /\ th'[s].pc \in {"free", "unlink"} => th'[s].node \in list'[th'[s].bundle]
               /\ th'[s].pc = "free" => p_handle'[th'[s].node] = th'[s].handle
               /\ th'[s].pc = "unlink" => p_handle'[th'[s].node] \notin heap'
               /\ th'[s].pc = "uncount" => \A c \in Bundles : th'[s].node \notin list'[c]
               /\ th'[s].pc \in {"count", "match"} =>
                     \E m \in list'[th'[s].bundle] : p_handle'[m] = th'[s].handle
    BY <2>1, <2>2, <2>3
  <2> QED BY <2>4, <2>5 DEF NodesHeld
<1>3. Listed'
  <2> SUFFICES ASSUME NEW c \in Bundles, NEW m \in list'[c]
               PROVE  /\ p_handle'[m] \in Handles
                      /\ \/ p_handle'[m] \in heap'
                         \/ \E s \in Threads \ dangling' : th'[s].pc = "unlink" /\ th'[s].node = m
                      /\ \A s \in Threads : th'[s].pc = "add" => p_handle'[m] # th'[s].handle
    BY DEF Listed
  <2>1. CASE m \in list[c]
    <3>1. /\ p_handle[m] \in Handles
          /\ p_handle[m] \in heap \/ \E s \in Threads \ dangling : th[s].pc = "unlink" /\ th[s].node = m
          /\ \A s \in Threads : th[s].pc = "add" => p_handle[m] # th[s].handle
      BY <2>1 DEF OneUser, Listed
    <3>2. p_handle'[m] = p_handle[m]
      BY <1>d, <2>1
    <3> QED BY <1>0, <1>a, <3>1, <3>2
  <2>2. CASE m = n
    <3>1. \A s \in Threads \ {t} : th[s].pc = "add" => th[s].handle # th[t].handle
      BY <1>0, <1>a DEF AnyUse, HandlesHeld, Holding
    <3> QED BY <1>0, <1>a, <1>b, <1>c, <2>2, <3>1
  <2> QED BY <1>c, <2>1, <2>2
<1>4. Withdrawn'
  <2>1. /\ Moves(t, "count", th[t].id, th[t].bundle, th[t].handle, th[t].node, th[t].owner)
        /\ UNCHANGED <<registered, dangling>>
    BY <1>0 DEF Stays
  <2>2. t \in Inside(b)
    BY <1>0, <1>a DEF Inside, Doing, CreateSteps
  <2>3. \A c \in Bundles \ registered : Doing(c, {"freeHead"}) = {} => list'[c] = {}
    BY <1>c, <2>2 DEF OneUser, Withdrawn
  <2> QED BY <1>0, <2>1, <2>2, <2>3, UserPlaces, UserWithdrawn
<1>5. CountsMatch'
  <2>1. \A c \in Bundles : \A m \in list[c] : Counting(m)' <=> Counting(m)
    BY <1>0, <1>a, <1>d DEF Counting
  <2>2. Counting(n)'
    BY <1>0, <1>a, <1>c DEF Counting
  <2>3. \A c : Doing(c, {"uncount"})' = Doing(c, {"uncount"})
    BY <1>0, <1>a DEF Doing
  <2>4. \A c : \A s \in Doing(c, {"uncount"}) : th'[s] = th[s]
    BY <1>0, <1>a DEF Doing
  <2>5. \A c \in Bundles : {m \in list'[c] : ~Counting(m)'} = {m \in list[c] : ~Counting(m)}
    BY <1>c, <2>1, <2>2
  <2>6. \A c \in Bundles : Counted(c)' = Counted(c)
    BY <1>0, <2>3, <2>4, <2>5 DEF Counted
  <2> QED BY <1>0, <2>6 DEF OneUser, CountsMatch
<1> QED BY <1>1, <1>2, <1>3, <1>4, <1>5 DEF OneUser

LEMMA DeleteUnlinkOne ==
    ASSUME AnyUse, AnyUse', OneUser, NEW t \in Users, DeleteUnlink(t)
    PROVE  OneUser'
<1>0. /\ Stays(t, "uncount")
      /\ th[t].pc = "unlink" /\ t \notin dangling
      /\ list' = [list EXCEPT ![th[t].bundle] = @ \ {th[t].node}]
      /\ UNCHANGED <<srvVars, registered, instance_counts, heapVars, dangling>>
  BY DeleteUnlinkDoes
<1>a. /\ t \in Threads /\ \A s \in Threads \ {t} : th'[s] = th[s]
      /\ th'[t].pc = "uncount" /\ th'[t].bundle = th[t].bundle
      /\ th'[t].handle = th[t].handle /\ th'[t].node = th[t].node
  BY <1>0, UserIn DEF Calls, Stays, Returns, Moves
<1> DEFINE b == th[t].bundle
<1> DEFINE n == th[t].node
<1>b. b \in Bundles
  BY <1>0, UserIn DEF DeleteSteps
<1>c. /\ list'[b] = list[b] \ {n} /\ \A c \in Bundles \ {b} : list'[c] = list[c] /\ n \notin list[c]
      /\ n \in list[b] /\ p_handle[n] \notin heap /\ UNCHANGED <<p_handle, heap, given, dangling>>
  <2>1. n \in list[b] /\ p_handle[n] \notin heap
    BY <1>0, <1>a DEF OneUser, NodesHeld
  <2>2. \A c \in Bundles \ {b} : n \notin list[c]
    BY <1>b, <2>1 DEF OneUser, OneNode
  <2> QED BY <1>0, <1>b, <2>1, <2>2, UserHas DEF heapVars
<1>d. \A c \in Bundles : list'[c] \subseteq list[c] /\ list[c] \subseteq list'[c] \union {n} /\ n \notin list'[c]
  BY <1>c
<1>1. OneNode'
  BY <1>c, <1>d DEF OneUser, OneNode
<1>2. NodesHeld'
  <2>1. ASSUME NEW s \in Threads \ dangling, s # t
        PROVE  /\ th[s].pc \in {"free", "unlink"} => th[s].node \in list'[th[s].bundle]
               /\ th[s].pc \in {"count", "match"} =>
                     \E m \in list'[th[s].bundle] : p_handle[m] = th[s].handle
    <3>1. th[s].pc \in {"free", "unlink"} => th[s].node \in list[th[s].bundle] /\ th[s].node # n
      BY <1>0, <1>a, <2>1 DEF OneUser, NodesHeld, HoldingNode
    <3>2. th[s].pc \in {"count", "match"} =>
            \E m \in list[th[s].bundle] : p_handle[m] = th[s].handle /\ p_handle[m] \in heap
      BY <2>1, UserHas DEF OneUser, NodesHeld, Holding
    <3>3. th[s].pc \in {"free", "unlink", "count", "match"} => th[s].bundle \in Bundles
      BY <2>1 DEF AnyUse, Locals, CreateSteps, DeleteSteps
    <3> QED BY <1>c, <1>d, <3>1, <3>2, <3>3
  <2>2. ASSUME NEW s \in Threads \ dangling'
        PROVE  /\ th'[s].pc \in {"free", "unlink"} => th'[s].node \in list'[th'[s].bundle]
               /\ th'[s].pc = "free" => p_handle'[th'[s].node] = th'[s].handle
               /\ th'[s].pc = "unlink" => p_handle'[th'[s].node] \notin heap'
               /\ th'[s].pc = "uncount" => \A c \in Bundles : th'[s].node \notin list'[c]
               /\ th'[s].pc \in {"count", "match"} =>
                     \E m \in list'[th'[s].bundle] : p_handle'[m] = th'[s].handle
    <3>1. CASE s = t
      BY <1>a, <1>d, <3>1
    <3>2. CASE s # t
      <4>1. s \in Threads \ dangling /\ th'[s] = th[s] /\ UNCHANGED <<p_handle, heap>>
        BY <1>a, <1>c, <3>2
      <4>2. /\ th[s].pc = "free" => p_handle[th[s].node] = th[s].handle
            /\ th[s].pc = "unlink" => p_handle[th[s].node] \notin heap
            /\ th[s].pc = "uncount" => \A c \in Bundles : th[s].node \notin list[c]
        BY <4>1 DEF OneUser, NodesHeld
      <4> QED BY <1>d, <2>1, <3>2, <4>1, <4>2
    <3> QED BY <3>1, <3>2
  <2>3. ASSUME NEW r \in Threads \ dangling', NEW s \in Threads \ dangling',
               th'[r].pc \in HoldingNode, th'[s].pc \in HoldingNode, th'[r].node = th'[s].node
        PROVE  r = s
    BY <1>0, <1>a, <1>c, <2>3 DEF OneUser, NodesHeld, HoldingNode
  <2> QED BY <2>2, <2>3 DEF NodesHeld
<1>3. Listed'
  <2> SUFFICES ASSUME NEW c \in Bundles, NEW m \in list'[c]
               PROVE  /\ p_handle[m] \in Handles
                      /\ \/ p_handle[m] \in heap
                         \/ \E s \in Threads \ dangling : th'[s].pc = "unlink" /\ th'[s].node = m
                      /\ \A s \in Threads : th'[s].pc = "add" => p_handle[m] # th'[s].handle
    BY <1>c DEF Listed
  <2>1. m \in list[c] /\ m # n
    BY <1>d
  <2>2. /\ p_handle[m] \in Handles
        /\ p_handle[m] \in heap \/ \E s \in Threads \ dangling : th[s].pc = "unlink" /\ th[s].node = m
        /\ \A s \in Threads : th[s].pc = "add" => p_handle[m] # th[s].handle
    BY <2>1 DEF OneUser, Listed
  <2> QED BY <1>a, <2>1, <2>2
<1>4. Withdrawn'
  <2>1. /\ Moves(t, "uncount", th[t].id, th[t].bundle, th[t].handle, th[t].node, th[t].owner)
        /\ UNCHANGED <<registered, dangling>>
    BY <1>0 DEF Stays
  <2>2. t \in Inside(b)
    BY <1>0, <1>a DEF Inside, Doing, DeleteSteps
  <2>3. \A c \in Bundles \ registered : Doing(c, {"freeHead"}) = {} => list'[c] = {}
    BY <1>c, <2>2 DEF OneUser, Withdrawn
  <2> QED BY <1>0, <2>1, <2>2, <2>3, UserPlaces, UserWithdrawn
<1>5. CountsMatch'
  <2>1. \A m : Counting(m)' <=> Counting(m)
    BY <1>0, <1>a, <1>c DEF Counting
  <2>2. ~Counting(n)
    BY <1>c, UserHas DEF Counting, Holding
  <2>3. ASSUME NEW c \in Bundles, c # b PROVE Counted(c)' = Counted(c)
    <3>1. \A s : s \in Doing(c, {"uncount"})' <=> s \in Doing(c, {"uncount"})
      BY <1>0, <1>a, <2>3 DEF Doing
    <3>2. \A s \in Doing(c, {"uncount"}) : th'[s] = th[s]
      BY <1>0, <1>a DEF Doing
    <3> QED BY <1>c, <2>1, <2>3, <3>1, <3>2 DEF Counted
  <2>4. Counted(b)' = Counted(b)
    <3>1. \A s : s \in Doing(b, {"uncount"})' <=> s \in Doing(b, {"uncount"}) \/ s = t
      BY <1>0, <1>a DEF Doing
    <3>2. \A s \in Doing(b, {"uncount"}) : th'[s] = th[s]
      BY <1>0, <1>a DEF Doing
    <3>3. th'[t].node = n /\ t \notin dangling
      BY <1>0, <1>a
    <3>4. {m \in list'[b] : ~Counting(m)'} \union {n} = {m \in list[b] : ~Counting(m)}
      BY <1>c, <2>1, <2>2
    <3>5. {th'[s].node : s \in Doing(b, {"uncount"})' \ dangling'} = {th[s].node : s \in Doing(b, {"uncount"}) \ dangling} \union {n}
      BY <1>c, <3>1, <3>2, <3>3
    <3> QED BY <1>a, <3>4, <3>5 DEF Counted
  <2>5. \A c \in Bundles : Counted(c)' = Counted(c)
    BY <1>a, <2>3, <2>4
  <2> QED BY <1>0, <2>5 DEF OneUser, CountsMatch
<1> QED BY <1>1, <1>2, <1>3, <1>4, <1>5 DEF OneUser

\* OneUser is inductive, relative to AnyUse.
LEMMA NextOne ==
    ASSUME "oneAdmin" \notin broken', "freshAddresses" \notin broken',
           AnyUse, AnyUse', OneBusy, OneUser, [Next]_vars
    PROVE  OneUser'
<1>1. OneUser /\ UNCHANGED vars => OneUser'
  BY UninstalledOne DEF vars
<1>2. ASSUME NEW t \in Users, Use(t) PROVE OneUser'
  BY <1>2, CreateFindOne, DeleteFindOne, CreateAllocOne, CreateAddOne, CreateCountOne,
     DeleteMatchOne,
     DeleteFreeOne, DeleteUnlinkOne, DeleteUncountOne DEF Use
<1> QED BY <1>1, <1>2, CommandAlone, CommandOne DEF Next

\* The rules on which the lists, the handles and the counters depend.
UseRules == {"oneDeletion", "oneAdmin", "freshAddresses"}

LEMMA CleanAdmins ==
    Spec => [](Clean({"oneDeletion", "oneAdmin"}) => OneBusy)
<1>1. Init => OneBusy
  BY DEF Init, OneBusy, Idle, Threads
<1>2. (Clean({"oneDeletion"}) => AnyUse)
      /\ (Clean({"oneDeletion", "oneAdmin"}) => OneBusy) /\ [Next]_vars
         => (Clean({"oneDeletion", "oneAdmin"}) => OneBusy)'
  BY NextBusy, CleanBefore DEF Clean
<1> QED BY <1>1, <1>2, AnyUseHolds, PTL DEF Spec

\* The lists, the handles and the counters fit, at every step of every creation
\* and deletion: no handle is in two nodes, the node a deletion takes out is the
\* one it has found, and instance_counts is the number of the nodes in the list,
\* those apart that are about to be counted or uncounted.  Stops may race with
\* creations, and bundles may be installed a second time.
THEOREM OneUserHolds == Spec => [](Clean(UseRules) => OneUser)
<1>1. Init => OneUser
  BY InitAny, InitOne
<1>2. ASSUME Clean({"oneDeletion"}) => AnyUse, (Clean({"oneDeletion"}) => AnyUse)',
             Clean({"oneDeletion", "oneAdmin"}) => OneBusy, Clean(UseRules) => OneUser,
             [Next]_vars, Clean(UseRules)'
      PROVE  OneUser'
  <2>1. Clean(UseRules)
    BY <1>2, CleanBefore
  <2>2. AnyUse /\ AnyUse' /\ OneBusy
    BY <1>2, <2>1 DEF Clean, UseRules
  <2>3. "oneAdmin" \notin broken' /\ "freshAddresses" \notin broken'
    BY <1>2 DEF Clean, UseRules
  <2> QED BY <1>2, <2>1, <2>2, <2>3, NextOne
<1>3. (Clean({"oneDeletion"}) => AnyUse) /\ (Clean({"oneDeletion"}) => AnyUse)'
      /\ (Clean({"oneDeletion", "oneAdmin"}) => OneBusy) /\ (Clean(UseRules) => OneUser)
      /\ [Next]_vars => (Clean(UseRules) => OneUser)'
  BY <1>2
<1> QED BY <1>1, <1>3, AnyUseHolds, CleanAdmins, PTL DEF Spec

\* TypeOK.  That instance_counts is a natural number says that no deletion
\* lowers the counter of mod_head_t below what the creations have raised it to.
THEOREM TypeCorrect == Spec => [](Clean(UseRules) => TypeOK)
<1>1. AnyUse /\ OneUser => TypeOK
  <2> SUFFICES ASSUME AnyUse, OneUser PROVE TypeOK
    OBVIOUS
  <2>1. \A b \in Bundles : instance_counts[b] \in Nat
    BY FS_CardinalityType DEF OneUser, CountsMatch
  <2>2. instance_counts \in [Bundles -> Nat]
    BY <2>1 DEF AnyUse, HeadTypes
  <2> QED BY <2>2 DEF AnyUse, SrvTypes, Srv, HeadTypes, HeapTypes, ThreadTypes, Local, TypeOK
<1>2. Clean(UseRules) => Clean({"oneDeletion"})
  BY DEF Clean, UseRules
<1> QED BY <1>1, <1>2, OneUserHolds, AnyUseHolds, PTL
=============================================================================
