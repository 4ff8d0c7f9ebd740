----------------------------- MODULE ModBundle -----------------------------
(***************************************************************************)
(* The module framework: mod_bundle.c (install, start, stop, uninstall),   *)
(* mod.c (the registry of create functions and the instances), the part of *)
(* mod_ownership.c they use, and the bundle_* functions every module       *)
(* exports (mod_*_I_bundle.c).                                             *)
(*                                                                         *)
(* A step ends where another thread can see or disturb what the code does  *)
(* next: a look-up in the hash, an access of a state, of a list or of a    *)
(* counter.  The lock-free hash and list are atomic here; LockFreeList.tla *)
(* is about their inside.                                                  *)
(*                                                                         *)
(* Admins run the commands on bundles, Users create and delete instances.  *)
(* An install and an uninstall are one step: two of them are not run at    *)
(* once (global_id++ is a plain int).                                      *)
(***************************************************************************)
EXTENDS Integers, FiniteSets

CONSTANTS
    Admins, Users, Owners, Bundles, Handles, Nodes,
    Null,             \* no bundle, handle, node or owner
    Deps,             \* desc.json: the bundles each bundle depends on
    NeedsArg,         \* bundles whose bundle_start refuses an empty argument
    Lenient,          \* bundles whose bundle_start only logs a failed registration
    MaxId,            \* bound: the largest bundle id handed out
    Kept              \* the rules that this environment keeps

(* What nothing in the code sees to.  A step that does not keep a rule is    *)
(* written down in broken, or not taken if the rule is Kept.                 *)
Rules ==
    {"oneAdmin",         \* one command on bundles is run at a time
     "installOnce",      \* a bundle that is installed is not installed again
     "calmStops",        \* no instance is created of a bundle that is being stopped
     "freshAddresses",   \* malloc returns no address that a node in a list still has
     "oneDeletion"}      \* two callers do not delete the same handle at once

ASSUME ModBundleAssumption ==
    /\ Deps \in [Bundles -> SUBSET Bundles]
    /\ NeedsArg \subseteq Bundles /\ Lenient \subseteq Bundles
    /\ MaxId \in Nat
    /\ Kept \subseteq Rules
    /\ Admins \intersect Users = {}
    /\ Null \notin Bundles \union Handles \union Nodes \union Owners

VARIABLES
    global_id,
    srv,              \* mod_srv_t of each id; installed: it is in gp_mod_bundle_id_hash
    service_id,       \* bundle_service_id, the static variable of each shared object
    registered,       \* bundles whose mod_head_t is in gp_mod_hash
    list,             \* mod_head_t.head: the mod_instance_t in the list of each head
    instance_counts,
    p_handle,         \* mod_instance_t.p_handle
    heap,             \* the handles that are allocated
    token,            \* whose signature an allocated handle carries
    given,            \* handles that were returned to a caller and not taken back
    dangling,         \* threads inside mod.c whose p_head has been freed
    th,               \* where each thread is, and its local variables
    broken            \* history: the rules that were broken

Threads == Admins \union Users
Ids == 1 .. MaxId

srvVars  == <<global_id, srv, service_id>>
headVars == <<registered, list, instance_counts>>
heapVars == <<p_handle, heap, token, given>>
vars == <<srvVars, headVars, heapVars, dangling, th, broken>>

NoSrv == [mod |-> Null, state |-> "UNINSTALLED", p_iid |-> FALSE, installed |-> FALSE]

Idle == [pc |-> "idle", id |-> 0, bundle |-> Null, handle |-> Null, node |-> Null, owner |-> Null]

Init ==
    /\ global_id = 1
    /\ srv = [i \in Ids |-> NoSrv]
    /\ service_id = [b \in Bundles |-> 0]
    /\ registered = {}
    /\ list = [b \in Bundles |-> {}]
    /\ instance_counts = [b \in Bundles |-> 0]
    /\ p_handle = [n \in Nodes |-> Null]
    /\ heap = {} /\ given = {} /\ dangling = {}
    /\ token = [h \in Handles |-> Null]
    /\ th = [t \in Threads |-> Idle]
    /\ broken = {}

Installed(b) == {i \in Ids : srv[i].installed /\ srv[i].mod = b}

At(t, place)   == th[t].pc = place
Goto(t, place) == th' = [th EXCEPT ![t].pc = place]
Return(t)      == th' = [th EXCEPT ![t] = Idle]

SetState(t, s) == srv' = [srv EXCEPT ![th[t].id].state = s]

StartSteps  == {"startMark", "register", "registerAdd", "iidRegister", "activate"}
StopSteps   == {"stopMark", "unregister", "hashDel", "freeHead", "iidUnregister", "installed"}
CreateSteps == {"alloc", "add", "count"}
DeleteSteps == {"match", "free", "unlink", "uncount"}

\* The threads that are at one of these steps for bundle b.
Doing(b, steps) == {t \in Threads : th[t].pc \in steps /\ th[t].bundle = b}

Rule(r, kept) == IF kept THEN {} ELSE {r}
Breaks(rules) == rules \intersect Kept = {} /\ broken' = broken \union rules

\* None of these rules was broken so far.
Clean(rules) == broken \intersect rules = {}

\* The rules for a command that begins, for a stop and for a creation.
OneAdmin(t) == Rule("oneAdmin", \A s \in Admins \ {t} : At(s, "idle"))
CalmStop(b) == Rule("calmStops", Doing(b, CreateSteps) = {})
CalmCreation(b) == Rule("calmStops", Doing(b, {"stopMark", "unregister", "hashDel"}) = {})
-----------------------------------------------------------------------------
(* Faulty variants of the operations below, each a slip that the code could  *)
(* contain; Next uses none of them.  They show that the properties notice.   *)

\* mod_bundle_cmd_stop without the test of mod_get_instance_counts.
Faulty_StopUnchecked(t, i) ==
    /\ At(t, "idle")
    /\ srv[i].installed /\ srv[i].state = "ACTIVE" /\ srv[i].p_iid
    /\ Breaks(OneAdmin(t) \union CalmStop(srv[i].mod))
    /\ th' = [th EXCEPT ![t] = [Idle EXCEPT !.pc = "stopMark", !.id = i, !.bundle = srv[i].mod]]
    /\ UNCHANGED <<srvVars, headVars, heapVars, dangling>>

\* bundle_create that forgets to keep the id.
Faulty_InstallForgetsId(t, b) ==
    /\ At(t, "idle")
    /\ global_id <= MaxId
    /\ Breaks(OneAdmin(t) \union Rule("installOnce", Installed(b) = {}))
    /\ global_id' = global_id + 1
    /\ srv' = [srv EXCEPT ![global_id] =
                  [mod |-> b, state |-> "INSTALLED", p_iid |-> FALSE, installed |-> TRUE]]
    /\ UNCHANGED <<service_id, headVars, heapVars, dangling, th>>

\* mod_create_instance without the test that the module is registered.
Faulty_CreateAnyway(t, b, o) ==
    /\ At(t, "idle")
    /\ Breaks(CalmCreation(b))
    /\ th' = [th EXCEPT ![t] = [Idle EXCEPT !.pc = "alloc", !.bundle = b, !.owner = o]]
    /\ UNCHANGED <<srvVars, headVars, heapVars, dangling>>

\* A deletion that takes the first instance of the list.
Faulty_DeleteFirst(t) ==
    /\ At(t, "match") /\ t \notin dangling
    /\ token[th[t].handle] = th[t].owner
    /\ \E n \in list[th[t].bundle] : th' = [th EXCEPT ![t].pc = "free", ![t].node = n]
    /\ UNCHANGED <<srvVars, headVars, heapVars, dangling, broken>>

\* A deletion that does not call mod_ownership_verify.
Faulty_DeleteUnverified(t) ==
    /\ At(t, "match") /\ t \notin dangling
    /\ \E n \in list[th[t].bundle] :
          /\ p_handle[n] = th[t].handle
          /\ th' = [th EXCEPT ![t].pc = "free", ![t].node = n]
    /\ UNCHANGED <<srvVars, headVars, heapVars, dangling, broken>>

\* A deletion that lowers the counter before it has left the list.
Faulty_DeleteUncountsEarly(t) ==
    /\ At(t, "free") /\ t \notin dangling
    /\ heap' = heap \ {th[t].handle}
    /\ token' = [token EXCEPT ![th[t].handle] = Null]
    /\ given' = given \ {th[t].handle}
    /\ instance_counts' = [instance_counts EXCEPT ![th[t].bundle] = @ - 1]
    /\ th' = [th EXCEPT ![t].pc = "unlink", ![t].handle = Null]
    /\ UNCHANGED <<srvVars, registered, list, p_handle, dangling, broken>>
-----------------------------------------------------------------------------
(* Install and uninstall *)

\* mod_bundle_service_check: the first service of that name decides.
DependenceSatisfied(b) ==
    \A d \in Deps[b] : \E i \in Installed(d) : srv[i].state = "ACTIVE"

\* The id is used up even when the shared object cannot be loaded.
Install(t, b) ==
    /\ At(t, "idle")
    /\ global_id <= MaxId
    /\ Breaks(OneAdmin(t) \union Rule("installOnce", Installed(b) = {}))
    /\ DependenceSatisfied(b)
    /\ global_id' = global_id + 1
    /\ \/ UNCHANGED <<srv, service_id>>
       \/ /\ srv' = [srv EXCEPT ![global_id] =
                        [mod |-> b, state |-> "INSTALLED", p_iid |-> FALSE, installed |-> TRUE]]
          /\ service_id' = [service_id EXCEPT ![b] = global_id]
    /\ UNCHANGED <<headVars, heapVars, dangling, th>>

Uninstall(t, i) ==
    /\ At(t, "idle")
    /\ Breaks(OneAdmin(t))
    /\ srv[i].installed /\ srv[i].state = "INSTALLED"
    /\ srv' = [srv EXCEPT ![i].installed = FALSE]
    /\ service_id' = [service_id EXCEPT ![srv[i].mod] = 0]
    /\ UNCHANGED <<global_id, headVars, heapVars, dangling, th>>
-----------------------------------------------------------------------------
(* Start *)

StartCheck(t, i) ==
    /\ At(t, "idle")
    /\ Breaks(OneAdmin(t))
    /\ srv[i].installed /\ srv[i].state = "INSTALLED"
    /\ th' = [th EXCEPT ![t] = [Idle EXCEPT !.pc = "startMark", !.id = i, !.bundle = srv[i].mod]]
    /\ UNCHANGED <<srvVars, headVars, heapVars, dangling>>

StartMark(t) ==
    /\ At(t, "startMark")
    /\ \E arg \in BOOLEAN :
          IF th[t].bundle \in NeedsArg /\ ~arg
          THEN SetState(t, "START_FAILED") /\ Return(t)
          ELSE SetState(t, "STARTING") /\ Goto(t, "register")
    /\ UNCHANGED <<global_id, service_id, headVars, heapVars, dangling, broken>>

\* A failed registration ends bundle_start, unless it is only logged.
RegistrationFails(t, next) ==
    IF th[t].bundle \in Lenient
    THEN Goto(t, next) /\ UNCHANGED srv
    ELSE Return(t) /\ SetState(t, "START_FAILED")

RegisterFind(t) ==
    /\ At(t, "register")
    /\ IF th[t].bundle \in registered
       THEN RegistrationFails(t, "iidRegister")
       ELSE Goto(t, "registerAdd") /\ UNCHANGED srv
    /\ UNCHANGED <<global_id, service_id, headVars, heapVars, dangling, broken>>

RegisterAdd(t) ==
    /\ At(t, "registerAdd")
    /\ registered' = registered \union {th[t].bundle}
    /\ list' = [list EXCEPT ![th[t].bundle] = {}]
    /\ instance_counts' = [instance_counts EXCEPT ![th[t].bundle] = 0]
    /\ Goto(t, "iidRegister")
    /\ UNCHANGED <<srvVars, heapVars, dangling, broken>>

\* The service that is told is the one the shared object was last created for.
IIDRegister(t) ==
    /\ At(t, "iidRegister")
    /\ LET i == service_id[th[t].bundle] IN
          IF i \in Ids /\ srv[i].installed
          THEN srv' = [srv EXCEPT ![i].p_iid = TRUE] /\ Goto(t, "activate")
          ELSE RegistrationFails(t, "activate")
    /\ UNCHANGED <<global_id, service_id, headVars, heapVars, dangling, broken>>

Activate(t) ==
    /\ At(t, "activate")
    /\ SetState(t, "ACTIVE") /\ Return(t)
    /\ UNCHANGED <<global_id, service_id, headVars, heapVars, dangling, broken>>
-----------------------------------------------------------------------------
(* Stop *)

\* mod_get_instance_counts dereferences p_iid, and fails when nothing is registered.
StopCheck(t, i) ==
    /\ At(t, "idle")
    /\ srv[i].installed /\ srv[i].state = "ACTIVE" /\ srv[i].p_iid
    /\ srv[i].mod \in registered /\ instance_counts[srv[i].mod] = 0
    /\ Breaks(OneAdmin(t) \union CalmStop(srv[i].mod))
    /\ th' = [th EXCEPT ![t] = [Idle EXCEPT !.pc = "stopMark", !.id = i, !.bundle = srv[i].mod]]
    /\ UNCHANGED <<srvVars, headVars, heapVars, dangling>>

StopMark(t) ==
    /\ At(t, "stopMark")
    /\ SetState(t, "STOPPING") /\ Goto(t, "unregister")
    /\ UNCHANGED <<global_id, service_id, headVars, heapVars, dangling, broken>>

\* With an instance left bundle_stop returns here, and its caller does not notice.
Unregister(t) ==
    /\ At(t, "unregister")
    /\ th[t].bundle \in registered
    /\ IF list[th[t].bundle] = {} /\ instance_counts[th[t].bundle] = 0
       THEN Goto(t, "hashDel")
       ELSE Goto(t, "installed")
    /\ UNCHANGED <<srvVars, headVars, heapVars, dangling, broken>>

HashDel(t) ==
    /\ At(t, "hashDel")
    /\ registered' = registered \ {th[t].bundle}
    /\ Goto(t, "freeHead")
    /\ UNCHANGED <<srvVars, list, instance_counts, heapVars, dangling, broken>>

\* std_lock_free_list_cleanup frees the nodes that are still in the list.
FreeHead(t) ==
    /\ At(t, "freeHead")
    /\ list' = [list EXCEPT ![th[t].bundle] = {}]
    /\ instance_counts' = [instance_counts EXCEPT ![th[t].bundle] = 0]
    /\ dangling' = dangling \union Doing(th[t].bundle, CreateSteps \union DeleteSteps)
    /\ Goto(t, "iidUnregister")
    /\ UNCHANGED <<srvVars, registered, heapVars, broken>>

IIDUnregister(t) ==
    /\ At(t, "iidUnregister")
    /\ LET i == service_id[th[t].bundle] IN
          srv' = IF i \in Ids /\ srv[i].installed THEN [srv EXCEPT ![i].p_iid = FALSE] ELSE srv
    /\ Goto(t, "installed")
    /\ UNCHANGED <<global_id, service_id, headVars, heapVars, dangling, broken>>

Stopped(t) ==
    /\ At(t, "installed")
    /\ SetState(t, "INSTALLED") /\ Return(t)
    /\ UNCHANGED <<global_id, service_id, headVars, heapVars, dangling, broken>>
-----------------------------------------------------------------------------
(* mod_create_instance *)

CreateFind(t, b, o) ==
    /\ At(t, "idle")
    /\ b \in registered
    /\ Breaks(CalmCreation(b))
    /\ th' = [th EXCEPT ![t] = [Idle EXCEPT !.pc = "alloc", !.bundle = b, !.owner = o]]
    /\ UNCHANGED <<srvVars, headVars, heapVars, dangling>>

\* The module's create function, then mod_ownership_create.
CreateAlloc(t, h) ==
    /\ At(t, "alloc")
    /\ h \notin heap
    /\ Breaks(Rule("freshAddresses", \A b \in Bundles : \A n \in list[b] : p_handle[n] # h))
    /\ heap' = heap \union {h}
    /\ token' = [token EXCEPT ![h] = th[t].owner]
    /\ th' = [th EXCEPT ![t].pc = "add", ![t].handle = h]
    /\ UNCHANGED <<srvVars, headVars, p_handle, given, dangling>>

CreateAdd(t, n) ==
    /\ At(t, "add") /\ t \notin dangling
    /\ \A b \in Bundles : n \notin list[b]
    /\ \A u \in Threads : th[u].node # n
    /\ p_handle' = [p_handle EXCEPT ![n] = th[t].handle]
    /\ list' = [list EXCEPT ![th[t].bundle] = @ \union {n}]
    /\ Goto(t, "count")
    /\ UNCHANGED <<srvVars, registered, instance_counts, heap, token, given, dangling, broken>>

CreateCount(t) ==
    /\ At(t, "count") /\ t \notin dangling
    /\ instance_counts' = [instance_counts EXCEPT ![th[t].bundle] = @ + 1]
    /\ given' = given \union {th[t].handle}
    /\ Return(t)
    /\ UNCHANGED <<srvVars, registered, list, p_handle, heap, token, dangling, broken>>
-----------------------------------------------------------------------------
(* mod_delete_instance, of a handle the caller was given for bundle b, by a  *)
(* caller who need not be its owner.                                         *)

DeleteFind(t, b, h, o) ==
    /\ At(t, "idle")
    /\ b \in registered
    /\ h \in given /\ \E n \in list[b] : p_handle[n] = h
    /\ Breaks(Rule("oneDeletion", \A u \in Threads : th[u].pc \in {"match", "free"} => th[u].handle # h))
    /\ th' = [th EXCEPT ![t] =
                 [Idle EXCEPT !.pc = "match", !.bundle = b, !.handle = h, !.owner = o]]
    /\ UNCHANGED <<srvVars, headVars, heapVars, dangling>>

\* The walk compares p_handle; mod_ownership_verify then reads the token.
DeleteMatch(t) ==
    /\ At(t, "match") /\ t \notin dangling
    /\ LET matching == {n \in list[th[t].bundle] : p_handle[n] = th[t].handle} IN
          IF matching # {} /\ token[th[t].handle] = th[t].owner
          THEN \E n \in matching : th' = [th EXCEPT ![t].pc = "free", ![t].node = n]
          ELSE Return(t)
    /\ UNCHANGED <<srvVars, headVars, heapVars, dangling, broken>>

\* mod_ownership_clear, FREE(p_handle), *pp_handle = NULL.
DeleteFree(t) ==
    /\ At(t, "free") /\ t \notin dangling
    /\ heap' = heap \ {th[t].handle}
    /\ token' = [token EXCEPT ![th[t].handle] = Null]
    /\ given' = given \ {th[t].handle}
    /\ th' = [th EXCEPT ![t].pc = "unlink", ![t].handle = Null]
    /\ UNCHANGED <<srvVars, headVars, p_handle, dangling, broken>>

DeleteUnlink(t) ==
    /\ At(t, "unlink") /\ t \notin dangling
    /\ list' = [list EXCEPT ![th[t].bundle] = @ \ {th[t].node}]
    /\ Goto(t, "uncount")
    /\ UNCHANGED <<srvVars, registered, instance_counts, heapVars, dangling, broken>>

DeleteUncount(t) ==
    /\ At(t, "uncount") /\ t \notin dangling
    /\ instance_counts' = [instance_counts EXCEPT ![th[t].bundle] = @ - 1]
    /\ Return(t)
    /\ UNCHANGED <<srvVars, registered, list, heapVars, dangling, broken>>
-----------------------------------------------------------------------------
Command(t) ==
    \/ \E b \in Bundles : Install(t, b)
    \/ \E i \in Ids : Uninstall(t, i) \/ StartCheck(t, i) \/ StopCheck(t, i)
    \/ StartMark(t) \/ RegisterFind(t) \/ RegisterAdd(t) \/ IIDRegister(t) \/ Activate(t)
    \/ StopMark(t) \/ Unregister(t) \/ HashDel(t) \/ FreeHead(t) \/ IIDUnregister(t) \/ Stopped(t)

Use(t) ==
    \/ \E b \in Bundles, o \in Owners :
          CreateFind(t, b, o) \/ \E h \in Handles : DeleteFind(t, b, h, o)
    \/ \E h \in Handles : CreateAlloc(t, h)
    \/ \E n \in Nodes : CreateAdd(t, n)
    \/ CreateCount(t)
    \/ DeleteMatch(t) \/ DeleteFree(t) \/ DeleteUnlink(t) \/ DeleteUncount(t)

Next == (\E t \in Admins : Command(t)) \/ (\E t \in Users : Use(t))

Spec == Init /\ [][Next]_vars
-----------------------------------------------------------------------------
States == {"UNINSTALLED", "INSTALLED", "STARTING", "ACTIVE", "STOPPING", "START_FAILED"}
Places == {"idle"} \union StartSteps \union StopSteps \union CreateSteps \union DeleteSteps

TypeOK ==
    /\ global_id \in 1 .. MaxId + 1
    /\ srv \in [Ids -> [mod : Bundles \union {Null}, state : States,
                        p_iid : BOOLEAN, installed : BOOLEAN]]
    /\ service_id \in [Bundles -> 0 .. MaxId]
    /\ registered \in SUBSET Bundles
    /\ list \in [Bundles -> SUBSET Nodes]
    /\ instance_counts \in [Bundles -> Nat]
    /\ p_handle \in [Nodes -> Handles \union {Null}]
    /\ heap \in SUBSET Handles /\ given \in SUBSET heap
    /\ token \in [Handles -> Owners \union {Null}]
    /\ dangling \in SUBSET Threads
    /\ th \in [Threads -> [pc : Places, id : 0 .. MaxId, bundle : Bundles \union {Null},
                           handle : Handles \union {Null}, node : Nodes \union {Null},
                           owner : Owners \union {Null}]]

\* Once a stop has found no instance, none is there until the head is freed:
\* the assertions of mod_unregister_instance_func hold, so bundle_stop never
\* returns half done behind the back of mod_bundle_cmd_stop.
StopFindsNoInstance ==
    \A t \in Threads : th[t].pc \in {"unregister", "hashDel", "freeHead"} =>
        list[th[t].bundle] = {} /\ instance_counts[th[t].bundle] = 0

\* Nobody inside mod.c holds the head that mod_unregister_instance_func freed:
\* instance_counts is raised last by a creation and lowered last by a deletion.
NoDanglingHead == dangling = {}

\* Between commands the state of a bundle, the registry of create functions
\* and the IID the service was told agree, so a stopped bundle starts again.
RegistryMatchesState ==
    \A b \in Bundles : Doing(b, StartSteps \union StopSteps) = {} =>
        /\ b \in registered <=> \E i \in Installed(b) : srv[i].state = "ACTIVE"
        /\ \A i \in Installed(b) : srv[i].p_iid <=> srv[i].state = "ACTIVE"

\* mod_*_I_bundle.c assert that mod_bundle_IID_register finds the service.
IIDRegisterFindsService ==
    \A t \in Threads : At(t, "iidRegister") =>
        LET i == service_id[th[t].bundle] IN i \in Ids /\ srv[i].installed

\* Every handle a caller holds is allocated and is the handle of exactly one
\* node, so the caller who owns it can delete it, and it alone.
EveryHandleHasItsNode ==
    \A h \in given :
        /\ \E b \in registered : \E n \in list[b] : p_handle[n] = h
        /\ \A b, c \in Bundles : \A m \in list[b], n \in list[c] :
              p_handle[m] = h /\ p_handle[n] = h => m = n

\* The signature that was verified is still there when the instance is freed:
\* only the owner of an instance gives its memory back, and only once.
OwnerFreesLiveHandle ==
    \A t \in Threads : At(t, "free") =>
        th[t].handle \in heap /\ token[th[t].handle] = th[t].owner

\* The registry as its users see it, as long as the rules are kept: see
\* ServiceRegistry.
Registry == INSTANCE ServiceRegistry WITH
    offered <- registered,
    insts <- [b \in Bundles |-> {p_handle[n] : n \in list[b]}]
ImplementsServiceRegistry ==
    /\ Registry!Init
    /\ [][Clean(Rules)' => [Registry!Next]_(Registry!registryVars)]_vars
=============================================================================
