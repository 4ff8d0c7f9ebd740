------------------------ MODULE ModBundleStopProofs ------------------------
(***************************************************************************)
(* Proofs about ModBundle, continued: what a stop finds and leaves, the    *)
(* registry as its users see it, and what the framework knows of a bundle. *)
(*                                                                         *)
(* What is proved lasts until one of these rules is broken: those of       *)
(* ModBundleProofs, and                                                    *)
(*  - "calmStops", broken when an instance is created of a bundle that is  *)
(*    being stopped, or a stop begins during a creation:                   *)
(*    mod_bundle_cmd_stop tests the counter and only later takes the head  *)
(*    out of the hash, with no lock in between;                            *)
(*  - "installOnce", broken when a bundle is installed a second time:      *)
(*    bundle_service_id is one static variable of the shared object.       *)
(* After the first StopFindsNoInstance may fail, after the second          *)
(* IIDRegisterFindsService.                                                *)
(***************************************************************************)
EXTENDS ModBundleProofs

\* Where a stop is between its test of the counter and the head it frees.
Phase == {"stopMark", "unregister", "hashDel", "freeHead"}

\* From the test until the head is freed a stopped bundle has no instance, and
\* nobody creates or deletes one.
Quiet ==
    /\ dangling = {}
    /\ \A t \in Threads :
        /\ th[t].pc \in {"stopMark", "unregister", "hashDel", "freeHead"} =>
              /\ list[th[t].bundle] = {} /\ instance_counts[th[t].bundle] = 0
              /\ Doing(th[t].bundle, CreateSteps \union DeleteSteps) = {}
        /\ th[t].pc \in {"stopMark", "unregister", "hashDel"} => th[t].bundle \in registered

GivenListed == \A h \in given : \E b \in Bundles : \E n \in list[b] : p_handle[n] = h

QuietStop == Quiet /\ GivenListed

\* A bundle has one service, the one its shared object remembers; the id that
\* is handed out next is that of none.
Services ==
    /\ \A i \in Ids : i >= global_id => ~srv[i].installed
    /\ \A b \in Bundles : \A i \in Installed(b) : service_id[b] = i
    /\ \A t \in Admins : th[t].pc # "idle" => th[t].id \in Installed(th[t].bundle)

\* The steps of a command during which the service has been told the IID, and
\* those during which the head is in the hash.
Told == {"activate", "stopMark", "unregister", "hashDel", "freeHead", "iidUnregister"}
Offered == {"iidRegister", "activate", "stopMark", "unregister", "hashDel"}

\* RegistryMatchesState speaks of the bundles no command is at work on.
Progress ==
    \A t \in Admins : th[t].pc # "idle" =>
       LET s == srv[th[t].id] IN
       /\ s.p_iid <=> th[t].pc \in Told
       /\ th[t].bundle \in registered <=> th[t].pc \in Offered

StateInv == Services /\ Progress /\ RegistryMatchesState
-----------------------------------------------------------------------------

\* At the start nothing is being stopped.
LEMMA InitQuiet == Init => QuietStop
BY DEF Init, Idle, QuietStop, Quiet, GivenListed

\* A stop that finds no instance counted, and none being created, finds nobody.
LEMMA StopCheckFinds ==
    ASSUME AnyUse, OneUser, Quiet, "calmStops" \notin broken', NEW t \in Admins, NEW i \in Ids, StopCheck(t, i)
    PROVE  /\ srv[i].mod \in Bundles /\ srv[i].mod \in registered
           /\ list[srv[i].mod] = {} /\ instance_counts[srv[i].mod] = 0
           /\ Doing(srv[i].mod, CreateSteps \union DeleteSteps) = {}
<1> DEFINE b == srv[i].mod
<1>1. b \in Bundles /\ b \in registered /\ instance_counts[b] = 0 /\ Doing(b, CreateSteps) = {}
  BY StopCheckDoes DEF StopCheck, Breaks, CalmStop, Rule
<1>2. Counted(b) = {}
  BY <1>1, FS_EmptySet DEF OneUser, CountsMatch
<1>3. dangling = {}
  BY DEF Quiet
<1>4. \A n \in list[b] : ~Counting(n)
  <2> SUFFICES ASSUME NEW n \in list[b], Counting(n) PROVE FALSE
    OBVIOUS
  <2>1. PICK s \in Threads : th[s].pc = "count" /\ th[s].handle = p_handle[n]
    BY DEF Counting
  <2>2. th[s].bundle \in Bundles
    BY <2>1 DEF AnyUse, Locals, CreateSteps
  <2>3. PICK m \in list[th[s].bundle] : p_handle[m] = th[s].handle
    BY <1>3, <2>1 DEF OneUser, NodesHeld
  <2>4. th[s].bundle = b
    BY <1>1, <2>1, <2>2, <2>3 DEF OneUser, OneNode
  <2> QED BY <1>1, <2>1, <2>4 DEF Doing, CreateSteps
<1>5. list[b] = {} /\ Doing(b, {"uncount"}) = {}
  BY <1>2, <1>3, <1>4 DEF Counted
<1>6. Doing(b, DeleteSteps) = {}
  BY <1>3, <1>5 DEF Doing, DeleteSteps, OneUser, NodesHeld
<1> QED BY <1>1, <1>5, <1>6 DEF Doing

\* Going on inside a module, or entering one, while no stop of it is under way.
LEMMA UserQuiet ==
    ASSUME AnyUse, Quiet, NEW t \in Users,
           NEW p \in CreateSteps \union DeleteSteps \union {"idle"}, NEW i, NEW b, NEW h, NEW n,
           NEW o,
           Moves(t, p, i, b, h, n, o), UNCHANGED <<registered, dangling>>,
           p # "idle" => Doing(b, Phase) = {},
           \A s \in Admins : th[s].pc \in Phase =>
               /\ list'[th[s].bundle] = list[th[s].bundle]
               /\ instance_counts'[th[s].bundle] = instance_counts[th[s].bundle]
    PROVE  Quiet'
<1>1. t \in Threads /\ (\A s \in Threads \ {t} : th'[s] = th[s]) /\ th'[t].pc = p /\ th'[t].bundle = b
  BY UserIn DEF Moves
<1>2. p \notin Phase /\ Phase \subseteq StopSteps
  BY UserPlaces DEF Phase, StopSteps
<1>3. ASSUME NEW s \in Threads, th'[s].pc \in Phase
      PROVE  /\ list'[th'[s].bundle] = {} /\ instance_counts'[th'[s].bundle] = 0
             /\ Doing(th[s].bundle, CreateSteps \union DeleteSteps)' = {}
             /\ th'[s].pc \in {"stopMark", "unregister", "hashDel"} => th'[s].bundle \in registered'
  <2>0. Phase \subseteq StopSteps
    BY DEF Phase, StopSteps
  <2>1. s # t /\ th'[s] = th[s] /\ s \in Admins
    BY <1>1, <1>2, <1>3 DEF AnyUse, Locals
  <2>2. /\ list[th[s].bundle] = {} /\ instance_counts[th[s].bundle] = 0
        /\ Doing(th[s].bundle, CreateSteps \union DeleteSteps) = {}
        /\ th[s].pc \in {"stopMark", "unregister", "hashDel"} => th[s].bundle \in registered
    BY <1>3, <2>1 DEF Quiet, Phase
  <2>3. t \in Doing(th[s].bundle, CreateSteps \union DeleteSteps)' => FALSE
    BY <1>1, <1>3, <2>1, UserPlaces DEF Doing
  <2>4. Doing(th[s].bundle, CreateSteps \union DeleteSteps)' = {}
    BY <1>1, <2>1, <2>2, <2>3 DEF Doing
  <2> QED BY <1>3, <2>1, <2>2, <2>4
<1> QED BY <1>3 DEF Quiet, Phase

\* While somebody is inside, no stop is past its test.
LEMMA Nobody ==
    ASSUME AnyUse, Quiet, NEW t \in Threads, th[t].pc \in CreateSteps \union DeleteSteps
    PROVE  Doing(th[t].bundle, Phase) = {}
BY DEF Quiet, Doing, Phase

\* Where nobody is caught inside, no command touches an instance or a counter.
LEMMA CommandLeaves ==
    ASSUME AnyUse, OneUser, Quiet, NEW t \in Admins, Alone(t), Command(t)
    PROVE  UNCHANGED <<list, instance_counts, heapVars, dangling>>
<1>1. CASE RegisterAdd(t)
  BY <1>1, RegisterAddFinds DEF RegisterAdd
<1>2. CASE FreeHead(t)
  <2> DEFINE b == th[t].bundle
  <2>1. t \in Threads /\ th[t].pc = "freeHead" /\ b \in Bundles
    BY <1>2, AdminIn DEF FreeHead, At, StopSteps
  <2>2. list[b] = {} /\ instance_counts[b] = 0 /\ Doing(b, CreateSteps \union DeleteSteps) = {}
    BY <2>1 DEF Quiet
  <2>3. list \in [Bundles -> SUBSET Nodes] /\ instance_counts \in [Bundles -> Int]
    BY DEF AnyUse, HeadTypes
  <2>4. UNCHANGED heapVars /\ dangling' = dangling \union Doing(b, CreateSteps \union DeleteSteps)
        /\ list' = [list EXCEPT ![b] = {}] /\ instance_counts' = [instance_counts EXCEPT ![b] = 0]
    BY <1>2 DEF FreeHead
  <2> HIDE DEF b
  <2> QED BY <2>1, <2>2, <2>3, <2>4
<1>3. CASE \E b \in Bundles : Install(t, b)
  BY <1>3 DEF Install, headVars
<1>4. CASE \E i \in Ids : Uninstall(t, i)
  BY <1>4 DEF Uninstall, headVars
<1>5. CASE \E i \in Ids : StartCheck(t, i)
  BY <1>5 DEF StartCheck, headVars
<1>6. CASE \E i \in Ids : StopCheck(t, i)
  BY <1>6 DEF StopCheck, headVars
<1>7. CASE StartMark(t)
  BY <1>7 DEF StartMark, headVars
<1>8. CASE RegisterFind(t)
  BY <1>8 DEF RegisterFind, headVars
<1>9. CASE IIDRegister(t)
  BY <1>9 DEF IIDRegister, headVars
<1>10. CASE Activate(t)
  BY <1>10 DEF Activate, headVars
<1>11. CASE StopMark(t)
  BY <1>11 DEF StopMark, headVars
<1>12. CASE Unregister(t)
  BY <1>12 DEF Unregister, headVars
<1>13. CASE HashDel(t)
  BY <1>13 DEF HashDel, headVars
<1>14. CASE IIDUnregister(t)
  BY <1>14 DEF IIDUnregister, headVars
<1>15. CASE Stopped(t)
  BY <1>15 DEF Stopped, headVars
<1> QED BY <1>1, <1>2, <1>3, <1>4, <1>5, <1>6, <1>7, <1>8, <1>9, <1>10, <1>11, <1>12, <1>13,
           <1>14, <1>15 DEF Command

\* A step of a command keeps Quiet when the place it goes to allows it.
LEMMA AdminQuiet ==
    ASSUME AnyUse, Quiet, NEW t \in Admins, Alone(t), NEW p, NEW i, NEW b, AdminMoves(t, p, i, b),
           UNCHANGED <<list, instance_counts, dangling>>,
           p \in Phase => /\ list[b] = {} /\ instance_counts[b] = 0
                          /\ Doing(b, CreateSteps \union DeleteSteps) = {},
           p \in Phase \ {"freeHead"} => b \in registered'
    PROVE  Quiet'
<1>1. /\ th'[t].pc = p /\ th'[t].bundle = b /\ \A s \in Threads \ {t} : th'[s] = th[s]
      /\ p \notin CreateSteps \union DeleteSteps /\ th[t].pc \notin CreateSteps \union DeleteSteps
      /\ t \in Threads
  BY AdminHolds, AdminIn DEF AdminMoves, Moves, StartSteps, StopSteps, CreateSteps, DeleteSteps
<1>2. \A s \in Threads : th'[s].pc \in Phase => s = t
  BY <1>1 DEF AnyUse, Locals, Alone, Phase, StopSteps
<1>3. \A c : Doing(c, CreateSteps \union DeleteSteps)' = Doing(c, CreateSteps \union DeleteSteps)
  BY <1>1 DEF Doing
<1>4. p \in Phase => Doing(th[t].bundle, CreateSteps \union DeleteSteps)' = {}
  BY <1>1, <1>3 DEF Doing
<1>5. \A s \in Threads : th'[s].pc \in Phase =>
         /\ list'[th'[s].bundle] = {} /\ instance_counts'[th'[s].bundle] = 0
         /\ Doing(th[s].bundle, CreateSteps \union DeleteSteps)' = {}
         /\ th'[s].pc # "freeHead" => th'[s].bundle \in registered'
  BY <1>1, <1>2, <1>4
<1> QED BY <1>5 DEF Quiet, Phase

\* QuietStop, one command after the other.
LEMMA CommandQuiet ==
    ASSUME "calmStops" \notin broken', AnyUse, OneUser, QuietStop, NEW t \in Admins, Alone(t), Command(t)
    PROVE  QuietStop'
<1>0. /\ Quiet /\ UNCHANGED <<list, instance_counts, heapVars, dangling>>
      /\ th[t].pc \in Phase =>
            /\ list[th[t].bundle] = {} /\ instance_counts[th[t].bundle] = 0
            /\ Doing(th[t].bundle, CreateSteps \union DeleteSteps) = {}
      /\ th[t].pc \in Phase \ {"freeHead"} => th[t].bundle \in registered
  BY CommandLeaves, AdminIn DEF QuietStop, Quiet, Phase
<1>a. GivenListed'
  BY <1>0 DEF QuietStop, GivenListed, heapVars
<1> USE DEF At
<1>1. ASSUME NEW i \in Ids, StartCheck(t, i) PROVE Quiet'
  BY <1>0, <1>1, AdminGoes, AdminQuiet DEF Phase
<1>2. ASSUME NEW i \in Ids, StopCheck(t, i) PROVE Quiet'
  BY <1>0, <1>2, AdminGoes, AdminQuiet, StopCheckFinds DEF Phase, StopCheck, headVars
<1>3. ASSUME StartMark(t) PROVE Quiet'
  BY <1>0, <1>3, AdminGoes, AdminQuiet DEF Phase
<1>4. ASSUME RegisterFind(t) PROVE Quiet'
  BY <1>0, <1>4, AdminGoes, AdminQuiet DEF Phase
<1>5. ASSUME RegisterAdd(t) PROVE Quiet'
  BY <1>0, <1>5, AdminGoes, AdminQuiet DEF Phase
<1>6. ASSUME IIDRegister(t) PROVE Quiet'
  BY <1>0, <1>6, AdminGoes, AdminQuiet DEF Phase
<1>7. ASSUME Activate(t) PROVE Quiet'
  BY <1>0, <1>7, AdminGoes, AdminQuiet DEF Phase
<1>8. ASSUME StopMark(t) PROVE Quiet'
  BY <1>0, <1>8, AdminGoes, AdminQuiet DEF Phase, StopMark, headVars
<1>9. ASSUME Unregister(t) PROVE Quiet'
  BY <1>0, <1>9, AdminGoes, AdminQuiet DEF Phase, Unregister, headVars
<1>10. ASSUME HashDel(t) PROVE Quiet'
  BY <1>0, <1>10, AdminGoes, AdminQuiet DEF Phase, HashDel, headVars
<1>11. ASSUME FreeHead(t) PROVE Quiet'
  BY <1>0, <1>11, AdminGoes, AdminQuiet DEF Phase
<1>12. ASSUME IIDUnregister(t) PROVE Quiet'
  BY <1>0, <1>12, AdminGoes, AdminQuiet DEF Phase
<1>13. ASSUME Stopped(t) PROVE Quiet'
  BY <1>0, <1>13, AdminGoes, AdminQuiet DEF Phase
<1>14. ASSUME UNCHANGED <<th, registered>> PROVE Quiet'
  <2>1. \A c, S : Doing(c, S)' = Doing(c, S)
    BY <1>14 DEF Doing
  <2> QED BY <1>0, <1>14, <2>1 DEF Quiet
<1> QED BY <1>a, <1>1, <1>2, <1>3, <1>4, <1>5, <1>6, <1>7, <1>8, <1>9, <1>10, <1>11, <1>12,
           <1>13, <1>14 DEF Command, Install, Uninstall, headVars, QuietStop

\* A user enters where nothing is being stopped, and leaves as he came.
LEMMA UseQuiet ==
    ASSUME "calmStops" \notin broken', AnyUse, OneUser, QuietStop, NEW t \in Users, Use(t)
    PROVE  Quiet'
<1>0. Quiet
  BY DEF QuietStop
<1>1. ASSUME NEW b \in Bundles, b \in registered,
             Doing(b, {"stopMark", "unregister", "hashDel"}) = {}
      PROVE  Doing(b, Phase) = {}
  <2>1. Doing(b, {"freeHead"}) = {}
    BY <1>1 DEF OneUser, Withdrawn, Doing
  <2> QED BY <1>1, <2>1 DEF Doing, Phase
<1>2. ASSUME NEW b \in Bundles, list[b] # {} PROVE Doing(b, Phase) = {}
  BY <1>0, <1>2 DEF Quiet, Doing, Phase
<1>3. th[t].pc \in CreateSteps \union DeleteSteps =>
         Doing(th[t].bundle, Phase) = {} /\ th[t].bundle \in Bundles
  BY <1>0, Nobody, UserIn
<1>4. \A s \in Admins : th[s].pc \in Phase =>
         /\ th[s].bundle \in Bundles
         /\ th[t].pc \in CreateSteps \union DeleteSteps => th[s].bundle # th[t].bundle
  BY <1>3, AdminIn DEF Doing, Phase, StopSteps
<1>5. list \in [Bundles -> SUBSET Nodes] /\ instance_counts \in [Bundles -> Int]
  BY UserHas
<1>6. \A p \in {"alloc", "add", "count", "match", "free", "unlink", "uncount"} : p \in CreateSteps \union DeleteSteps
  BY UserPlaces
<1> USE <1>0, UserQuiet
<1>11. ASSUME NEW b \in Bundles, NEW o \in Owners, CreateFind(t, b, o) PROVE Quiet'
  <2>0. /\ Calls(t, "alloc", 0, b, Null, o)
        /\ th[t].pc = "idle"
        /\ b \in registered
        /\ "calmStops" \notin broken' => Doing(b, {"stopMark", "unregister", "hashDel"}) = {}
        /\ UNCHANGED <<srvVars, headVars, heapVars, dangling>>
    BY <1>11, CreateFindDoes
  <2>1. UNCHANGED <<registered, dangling>>
    BY <2>0 DEF headVars
  <2>2. UNCHANGED <<list, instance_counts>>
    BY <2>0 DEF headVars
  <2>3. Moves(t, "alloc", 0, b, Null, Null, o)
    BY <2>0 DEF Calls, Stays, Returns
  <2>4. Doing(b, Phase) = {}
    BY <1>1, <2>0
  <2> QED BY <1>6, <2>1, <2>2, <2>3, <2>4
<1>12. ASSUME NEW b \in Bundles, NEW h \in Handles, NEW o \in Owners, DeleteFind(t, b, h, o)
       PROVE  Quiet'
  <2>0. /\ Calls(t, "match", 0, b, h, o)
        /\ th[t].pc = "idle"
        /\ b \in registered
        /\ h \in given /\ \E n \in list[b] : p_handle[n] = h
        /\ UNCHANGED <<srvVars, headVars, heapVars, dangling>>
    BY <1>12, DeleteFindDoes
  <2>1. UNCHANGED <<registered, dangling>>
    BY <2>0 DEF headVars
  <2>2. UNCHANGED <<list, instance_counts>>
    BY <2>0 DEF headVars
  <2>3. Moves(t, "match", 0, b, h, Null, o)
    BY <2>0 DEF Calls, Stays, Returns
  <2>4. Doing(b, Phase) = {}
    BY <1>2, <2>0
  <2> QED BY <1>6, <2>1, <2>2, <2>3, <2>4
<1>13. ASSUME NEW h \in Handles, CreateAlloc(t, h) PROVE Quiet'
  <2>0. /\ Moves(t, "add", th[t].id, th[t].bundle, h, th[t].node, th[t].owner)
        /\ th[t].pc = "alloc"
        /\ h \notin heap
        /\ heap' = heap \union {h}
        /\ token' = [token EXCEPT ![h] = th[t].owner]
        /\ "freshAddresses" \notin broken' => \A b \in Bundles : \A n \in list[b] : p_handle[n] # h
        /\ UNCHANGED <<srvVars, headVars, p_handle, given, dangling>>
    BY <1>13, CreateAllocDoes
  <2>1. UNCHANGED <<registered, dangling>>
    BY <2>0 DEF headVars
  <2>2. UNCHANGED <<list, instance_counts>>
    BY <2>0 DEF headVars
  <2>3. Moves(t, "add", th[t].id, th[t].bundle, h, th[t].node, th[t].owner)
    BY <2>0 DEF Calls, Stays, Returns
  <2> QED BY <1>6, <2>1, <2>2, <2>3, <1>3, <2>0
<1>14. ASSUME NEW n \in Nodes, CreateAdd(t, n) PROVE Quiet'
  <2>0. /\ Stays(t, "count")
        /\ th[t].pc = "add" /\ t \notin dangling
        /\ \A b \in Bundles : n \notin list[b]
        /\ \A u \in Threads : th[u].node # n
        /\ p_handle' = [p_handle EXCEPT ![n] = th[t].handle]
        /\ list' = [list EXCEPT ![th[t].bundle] = @ \union {n}]
        /\ UNCHANGED <<srvVars, registered, instance_counts, heap, token, given, dangling>>
    BY <1>14, CreateAddDoes
  <2>1. UNCHANGED <<registered, dangling>>
    BY <2>0 DEF headVars
  <2>2. \A s \in Admins : th[s].pc \in Phase =>
           list'[th[s].bundle] = list[th[s].bundle]
           /\ instance_counts'[th[s].bundle] = instance_counts[th[s].bundle]
    BY <1>4, <1>5, <1>6, <2>0
  <2>3. Moves(t, "count", th[t].id, th[t].bundle, th[t].handle, th[t].node, th[t].owner)
    BY <2>0 DEF Calls, Stays, Returns
  <2> QED BY <1>6, <2>1, <2>2, <2>3, <1>3, <2>0
<1>15. ASSUME CreateCount(t) PROVE Quiet'
  <2>0. /\ Returns(t)
        /\ th[t].pc = "count" /\ t \notin dangling
        /\ instance_counts' = [instance_counts EXCEPT ![th[t].bundle] = @ + 1]
        /\ given' = given \union {th[t].handle}
        /\ UNCHANGED <<srvVars, registered, list, p_handle, heap, token, dangling>>
    BY <1>15, CreateCountDoes
  <2>1. UNCHANGED <<registered, dangling>>
    BY <2>0 DEF headVars
  <2>2. \A s \in Admins : th[s].pc \in Phase =>
           list'[th[s].bundle] = list[th[s].bundle]
           /\ instance_counts'[th[s].bundle] = instance_counts[th[s].bundle]
    BY <1>4, <1>5, <1>6, <2>0
  <2>3. Moves(t, "idle", 0, Null, Null, Null, Null)
    BY <2>0 DEF Calls, Stays, Returns
  <2> QED BY <1>6, <2>1, <2>2, <2>3, <1>3, <2>0
<1>16. ASSUME DeleteMatch(t) PROVE Quiet'
  <2>0. /\ \/ Returns(t)
           \/ /\ token[th[t].handle] = th[t].owner
              /\ \E n \in list[th[t].bundle] :
                    /\ p_handle[n] = th[t].handle
                    /\ Moves(t, "free", th[t].id, th[t].bundle, th[t].handle, n, th[t].owner)
        /\ th[t].pc = "match" /\ t \notin dangling
        /\ UNCHANGED <<srvVars, headVars, heapVars, dangling>>
    BY <1>16, DeleteMatchDoes
  <2>1. UNCHANGED <<registered, dangling>>
    BY <2>0 DEF headVars
  <2>2. UNCHANGED <<list, instance_counts>>
    BY <2>0 DEF headVars
  <2>3. CASE Returns(t)
    BY <2>1, <2>2, <2>3, <1>6 DEF Returns
  <2>4. ASSUME NEW n, Moves(t, "free", th[t].id, th[t].bundle, th[t].handle, n, th[t].owner)
        PROVE  Quiet'
    BY <1>3, <1>6, <2>0, <2>1, <2>2, <2>4
  <2> QED BY <2>0, <2>3, <2>4
<1>17. ASSUME DeleteFree(t) PROVE Quiet'
  <2>0. /\ Moves(t, "unlink", th[t].id, th[t].bundle, Null, th[t].node, th[t].owner)
        /\ th[t].pc = "free" /\ t \notin dangling
        /\ heap' = heap \ {th[t].handle} /\ given' = given \ {th[t].handle}
        /\ token' = [token EXCEPT ![th[t].handle] = Null]
        /\ UNCHANGED <<srvVars, headVars, p_handle, dangling>>
    BY <1>17, DeleteFreeDoes
  <2>1. UNCHANGED <<registered, dangling>>
    BY <2>0 DEF headVars
  <2>2. UNCHANGED <<list, instance_counts>>
    BY <2>0 DEF headVars
  <2>3. Moves(t, "unlink", th[t].id, th[t].bundle, Null, th[t].node, th[t].owner)
    BY <2>0 DEF Calls, Stays, Returns
  <2> QED BY <1>6, <2>1, <2>2, <2>3, <1>3, <2>0
<1>18. ASSUME DeleteUnlink(t) PROVE Quiet'
  <2>0. /\ Stays(t, "uncount")
        /\ th[t].pc = "unlink" /\ t \notin dangling
        /\ list' = [list EXCEPT ![th[t].bundle] = @ \ {th[t].node}]
        /\ UNCHANGED <<srvVars, registered, instance_counts, heapVars, dangling>>
    BY <1>18, DeleteUnlinkDoes
  <2>1. UNCHANGED <<registered, dangling>>
    BY <2>0 DEF headVars
  <2>2. \A s \in Admins : th[s].pc \in Phase =>
           list'[th[s].bundle] = list[th[s].bundle]
           /\ instance_counts'[th[s].bundle] = instance_counts[th[s].bundle]
    BY <1>4, <1>5, <1>6, <2>0
  <2>3. Moves(t, "uncount", th[t].id, th[t].bundle, th[t].handle, th[t].node, th[t].owner)
    BY <2>0 DEF Calls, Stays, Returns
  <2> QED BY <1>6, <2>1, <2>2, <2>3, <1>3, <2>0
<1>19. ASSUME DeleteUncount(t) PROVE Quiet'
  <2>0. /\ Returns(t)
        /\ th[t].pc = "uncount" /\ t \notin dangling
        /\ instance_counts' = [instance_counts EXCEPT ![th[t].bundle] = @ - 1]
        /\ UNCHANGED <<srvVars, registered, list, heapVars, dangling>>
    BY <1>19, DeleteUncountDoes
  <2>1. UNCHANGED <<registered, dangling>>
    BY <2>0 DEF headVars
  <2>2. \A s \in Admins : th[s].pc \in Phase =>
           list'[th[s].bundle] = list[th[s].bundle]
           /\ instance_counts'[th[s].bundle] = instance_counts[th[s].bundle]
    BY <1>4, <1>5, <1>6, <2>0
  <2>3. Moves(t, "idle", 0, Null, Null, Null, Null)
    BY <2>0 DEF Calls, Stays, Returns
  <2> QED BY <1>6, <2>1, <2>2, <2>3, <1>3, <2>0
<1> QED BY <1>11, <1>12, <1>13, <1>14, <1>15, <1>16, <1>17, <1>18, <1>19 DEF Use

\* A handle is given out when its node is in a list, and freed before it leaves.
LEMMA UseGiven ==
    ASSUME AnyUse, OneUser, QuietStop, NEW t \in Users, Use(t)
    PROVE  GivenListed'
<1>0. /\ dangling = {}
      /\ \A h \in given : \E b \in Bundles : \E n \in list[b] : p_handle[n] = h
      /\ given \subseteq heap /\ list \in [Bundles -> SUBSET Nodes]
      /\ p_handle \in [Nodes -> Handles \union {Null}] /\ t \in Threads
  BY UserHas, UserIn DEF QuietStop, Quiet, GivenListed
<1> SUFFICES ASSUME NEW h \in given' PROVE \E b \in Bundles : \E n \in list'[b] : p_handle'[n] = h
  BY DEF GivenListed
<1>1. ASSUME NEW c \in Bundles, NEW o \in Owners, CreateFind(t, c, o)
      PROVE  \E b \in Bundles : \E n \in list'[b] : p_handle'[n] = h
  <2>1. UNCHANGED <<list, p_handle, given>>
    BY <1>1, CreateFindDoes DEF headVars, heapVars
  <2> QED BY <1>0, <2>1
<1>2. ASSUME NEW c \in Bundles, NEW g \in Handles, NEW o \in Owners, DeleteFind(t, c, g, o)
      PROVE  \E b \in Bundles : \E n \in list'[b] : p_handle'[n] = h
  <2>1. UNCHANGED <<list, p_handle, given>>
    BY <1>2, DeleteFindDoes DEF headVars, heapVars
  <2> QED BY <1>0, <2>1
<1>3. ASSUME NEW g \in Handles, CreateAlloc(t, g)
      PROVE  \E b \in Bundles : \E n \in list'[b] : p_handle'[n] = h
  <2>1. UNCHANGED <<list, p_handle, given>>
    BY <1>3, CreateAllocDoes DEF headVars, heapVars
  <2> QED BY <1>0, <2>1
<1>4. ASSUME NEW m \in Nodes, CreateAdd(t, m)
      PROVE  \E b \in Bundles : \E n \in list'[b] : p_handle'[n] = h
  <2>1. /\ h \in given /\ (\A c \in Bundles : m \notin list[c]) /\ th[t].bundle \in Bundles
        /\ p_handle' = [p_handle EXCEPT ![m] = th[t].handle]
        /\ list' = [list EXCEPT ![th[t].bundle] = @ \union {m}]
    BY <1>4, CreateAddDoes, UserIn DEF CreateSteps
  <2>2. PICK b \in Bundles : \E n \in list[b] : p_handle[n] = h
    BY <1>0, <2>1
  <2>4. PICK n \in list[b] : p_handle[n] = h
    BY <2>2
  <2>3. n # m /\ n \in list'[b] /\ p_handle'[n] = p_handle[n]
    BY <1>0, <2>1
  <2> QED BY <2>4, <2>3
<1>5. ASSUME CreateCount(t) PROVE \E b \in Bundles : \E n \in list'[b] : p_handle'[n] = h
  <2>1. UNCHANGED <<list, p_handle>> /\ given' = given \union {th[t].handle} /\ th[t].pc = "count"
    BY <1>5, CreateCountDoes
  <2>2. \E n \in list[th[t].bundle] : p_handle[n] = th[t].handle
    BY <1>0, <2>1 DEF OneUser, NodesHeld
  <2>3. th[t].bundle \in Bundles
    BY <2>1, UserIn DEF CreateSteps
  <2> QED BY <1>0, <2>1, <2>2, <2>3
<1>6. ASSUME DeleteMatch(t) PROVE \E b \in Bundles : \E n \in list'[b] : p_handle'[n] = h
  <2>1. UNCHANGED <<list, p_handle, given>>
    BY <1>6, DeleteMatchDoes DEF headVars, heapVars
  <2> QED BY <1>0, <2>1
<1>7. ASSUME DeleteFree(t) PROVE \E b \in Bundles : \E n \in list'[b] : p_handle'[n] = h
  <2>1. UNCHANGED <<list, p_handle>> /\ given' = given \ {th[t].handle}
    BY <1>7, DeleteFreeDoes DEF headVars, heapVars
  <2> QED BY <1>0, <2>1
<1>8. ASSUME DeleteUnlink(t) PROVE \E b \in Bundles : \E n \in list'[b] : p_handle'[n] = h
  <2>1. /\ UNCHANGED <<p_handle, given>> /\ th[t].pc = "unlink" /\ th[t].bundle \in Bundles
        /\ list' = [list EXCEPT ![th[t].bundle] = @ \ {th[t].node}]
    BY <1>8, DeleteUnlinkDoes, UserIn DEF heapVars, DeleteSteps
  <2>2. p_handle[th[t].node] \notin heap
    BY <1>0, <2>1 DEF OneUser, NodesHeld
  <2>6. PICK b \in Bundles : \E n \in list[b] : p_handle[n] = h
    BY <1>0, <2>1
  <2>3. PICK n \in list[b] : p_handle[n] = h
    BY <2>6
  <2>4. n # th[t].node
    BY <1>0, <2>1, <2>2, <2>3
  <2>5. n \in list'[b]
    BY <1>0, <2>1, <2>3, <2>4
  <2> QED BY <2>1, <2>3, <2>5
<1>9. ASSUME DeleteUncount(t) PROVE \E b \in Bundles : \E n \in list'[b] : p_handle'[n] = h
  <2>1. UNCHANGED <<list, p_handle, given>>
    BY <1>9, DeleteUncountDoes DEF headVars, heapVars
  <2> QED BY <1>0, <2>1
<1> QED BY <1>1, <1>2, <1>3, <1>4, <1>5, <1>6, <1>7, <1>8, <1>9 DEF Use

\* QuietStop is inductive, relative to AnyUse and OneUser.
LEMMA NextQuiet ==
    ASSUME "oneAdmin" \notin broken', "calmStops" \notin broken',
           AnyUse, OneBusy, OneUser, QuietStop, [Next]_vars
    PROVE  QuietStop'
<1>1. ASSUME QuietStop, UNCHANGED vars PROVE QuietStop'
  <2>1. \A c, S : Doing(c, S)' = Doing(c, S)
    BY <1>1 DEF Doing, vars
  <2> QED BY <1>1, <2>1 DEF QuietStop, Quiet, GivenListed, vars, headVars, heapVars
<1>2. ASSUME NEW t \in Users, Use(t) PROVE QuietStop'
  BY <1>2, UseQuiet, UseGiven DEF QuietStop
<1> QED BY <1>1, <1>2, CommandAlone, CommandQuiet DEF Next

\* The rules on which a stop depends.
StopRules == UseRules \union {"calmStops"}

LEMMA StopRulesKept ==
    ASSUME Clean(StopRules)
    PROVE  Clean({"oneDeletion"}) /\ Clean({"oneDeletion", "oneAdmin"}) /\ Clean(UseRules)
BY DEF Clean, StopRules, UseRules

\* From the test of mod_get_instance_counts in mod_bundle_cmd_stop until
\* mod_unregister_instance_func has freed the head, the bundle has no instance
\* and nobody is inside mod_create_instance or mod_delete_instance for it.
THEOREM QuietStopHolds == Spec => [](Clean(StopRules) => QuietStop)
<1>1. Init => QuietStop
  BY InitQuiet
<1>2. ASSUME Clean({"oneDeletion"}) => AnyUse, Clean({"oneDeletion", "oneAdmin"}) => OneBusy,
             Clean(UseRules) => OneUser, Clean(StopRules) => QuietStop, [Next]_vars, Clean(StopRules)'
      PROVE  QuietStop'
  <2>1. Clean(StopRules)
    BY <1>2, CleanBefore
  <2>2. "oneAdmin" \notin broken' /\ "calmStops" \notin broken'
    BY <1>2 DEF Clean, StopRules, UseRules
  <2> QED BY <1>2, <2>1, <2>2, StopRulesKept, NextQuiet
<1>3. (Clean({"oneDeletion"}) => AnyUse) /\ (Clean({"oneDeletion", "oneAdmin"}) => OneBusy)
      /\ (Clean(UseRules) => OneUser) /\ (Clean(StopRules) => QuietStop) /\ [Next]_vars
         => (Clean(StopRules) => QuietStop)'
  BY <1>2
<1> QED BY <1>1, <1>3, AnyUseHolds, CleanAdmins, OneUserHolds, PTL DEF Spec

\* StopFindsNoInstance: the assertions of mod_unregister_instance_func hold, so
\* bundle_stop never returns half done while mod_bundle_cmd_stop goes on.
THEOREM StopsFindNoInstance == Spec => [](Clean(StopRules) => StopFindsNoInstance)
<1>1. QuietStop => StopFindsNoInstance
  BY DEF QuietStop, Quiet, StopFindsNoInstance
<1> QED BY <1>1, QuietStopHolds, PTL

\* NoDanglingHead: no thread inside mod.c holds a mod_head_t that a stop has
\* freed, since a creation counts itself last and a deletion uncounts itself last.
THEOREM NoHeadDangles == Spec => [](Clean(StopRules) => NoDanglingHead)
<1>1. QuietStop => NoDanglingHead
  BY DEF QuietStop, Quiet, NoDanglingHead
<1> QED BY <1>1, QuietStopHolds, PTL

\* EveryHandleHasItsNode: a handle that was returned and not given back is in
\* exactly one node of the list of a module that is registered, so
\* mod_delete_instance finds it, and it alone.
THEOREM HandlesHaveTheirNodes == Spec => [](Clean(StopRules) => EveryHandleHasItsNode)
<1>1. AnyUse /\ OneUser /\ QuietStop => EveryHandleHasItsNode
  <2> SUFFICES ASSUME AnyUse, OneUser, QuietStop, NEW h \in given
               PROVE  /\ \E b \in registered : \E n \in list[b] : p_handle[n] = h
                      /\ \A b, c \in Bundles : \A m \in list[b], n \in list[c] :
                            p_handle[m] = h /\ p_handle[n] = h => m = n
    BY DEF EveryHandleHasItsNode
  <2>1. PICK b \in Bundles : \E n \in list[b] : p_handle[n] = h
    BY DEF QuietStop, GivenListed
  <2>2. Doing(b, {"freeHead"}) = {}
    BY <2>1 DEF QuietStop, Quiet, Doing
  <2>3. b \in registered
    BY <2>1, <2>2 DEF OneUser, Withdrawn
  <2>4. \A c, d \in Bundles : \A m \in list[c], k \in list[d] : p_handle[m] = h /\ p_handle[k] = h => m = k
    BY DEF OneUser, OneNode
  <2> QED BY <2>1, <2>3, <2>4
<1> QED BY <1>1, StopRulesKept, AnyUseHolds, OneUserHolds, QuietStopHolds, PTL
-----------------------------------------------------------------------------

\* The refinement: the heads in the hash and the handles in their lists.
LEMMA InitRegistry == Init => Registry!Init
BY DEF Init, Registry!Init

\* Who is inside a module finds it registered.
LEMMA Registered ==
    ASSUME AnyUse, OneUser, Quiet, NEW t \in Users, th[t].pc \in CreateSteps \union DeleteSteps
    PROVE  th[t].bundle \in Bundles /\ th[t].bundle \in registered
<1>1. t \in Threads /\ th[t].bundle \in Bundles /\ t \in Inside(th[t].bundle)
  BY UserIn DEF Inside, Doing, Quiet
<1>2. Doing(th[t].bundle, {"freeHead"}) = {}
  BY <1>1, Nobody DEF Doing, Phase
<1> QED BY <1>1, <1>2 DEF OneUser, Withdrawn

\* Most steps neither offer a module nor change its instances.
LEMMA RegistryStutters ==
    ASSUME UNCHANGED <<registered, list, p_handle>>
    PROVE  UNCHANGED Registry!registryVars
BY DEF Registry!registryVars

\* A registration offers a module, hashDel withdraws one that has no instance.
LEMMA CommandRegistry ==
    ASSUME AnyUse, OneUser, Quiet, NEW t \in Admins, Alone(t), Command(t)
    PROVE  Registry!Next \/ UNCHANGED Registry!registryVars
<1>1. UNCHANGED <<list, p_handle>>
  BY CommandLeaves DEF heapVars
<1>2. CASE RegisterAdd(t)
  <2>1. /\ th[t].bundle \in Bundles \ registered
        /\ registered' = registered \union {th[t].bundle}
    BY <1>2, RegisterAddFinds DEF RegisterAdd
  <2>2. Registry!Offer(th[t].bundle)
    BY <1>1, <2>1 DEF Registry!Offer
  <2> QED BY <2>1, <2>2 DEF Registry!Next
<1>3. CASE HashDel(t)
  <2>1. t \in Threads /\ th[t].pc = "hashDel" /\ th[t].bundle \in Bundles
    BY <1>3, AdminIn DEF HashDel, At, StopSteps
  <2>2. th[t].bundle \in registered /\ list[th[t].bundle] = {}
    BY <2>1 DEF Quiet
  <2>3. registered' = registered \ {th[t].bundle}
    BY <1>3 DEF HashDel
  <2>4. Registry!Withdraw(th[t].bundle)
    BY <1>1, <2>1, <2>2, <2>3 DEF Registry!Withdraw
  <2> QED BY <2>1, <2>4 DEF Registry!Next
<1>4. CASE UNCHANGED registered
  BY <1>1, <1>4, RegistryStutters
<1> QED BY <1>2, <1>3, <1>4 DEF Command, Install, Uninstall, StartCheck, StopCheck, StartMark,
           RegisterFind,
                                IIDRegister, Activate, StopMark, Unregister, FreeHead, IIDUnregister, Stopped, headVars

\* The instance is there when its node is in the list, ...
LEMMA CreateAddCreates ==
    ASSUME AnyUse, OneUser, Quiet, NEW t \in Users, NEW n \in Nodes, CreateAdd(t, n)
    PROVE  \E b \in Bundles : \E h \in Handles : Registry!Create(b, h)
<1>0. /\ th[t].pc = "add" /\ th[t].bundle \in Bundles /\ th[t].bundle \in registered
      /\ th[t].handle \in Handles
  BY CreateAddDoes, Registered, UserHas DEF CreateSteps, Holding
<1>p. PICK b \in Bundles, h \in Handles : b = th[t].bundle /\ h = th[t].handle
  BY <1>0
<1>1. /\ th[t].pc = "add" /\ (\A c \in Bundles : n \notin list[c])
      /\ p_handle' = [p_handle EXCEPT ![n] = h] /\ list' = [list EXCEPT ![b] = @ \union {n}]
      /\ UNCHANGED registered
  BY <1>p, CreateAddDoes
<1>2. /\ b \in Bundles /\ b \in registered /\ h \in Handles /\ t \in Threads
      /\ list \in [Bundles -> SUBSET Nodes] /\ p_handle \in [Nodes -> Handles \union {Null}]
  BY <1>0, <1>p, UserHas, UserIn
<1>3. \A c \in Bundles : \A m \in list[c] : p_handle[m] # h
  BY <1>0, <1>p, <1>2 DEF OneUser, Listed
<1>4. h \notin Registry!Live
  BY <1>3 DEF Registry!Live
<1>5. /\ list'[b] = list[b] \union {n} /\ p_handle'[n] = h
      /\ \A c \in Bundles \ {b} : list'[c] = list[c]
      /\ \A c \in Bundles : \A m \in list[c] : p_handle'[m] = p_handle[m]
  BY <1>1, <1>2
<1>6. \A c \in Bundles : {p_handle'[m] : m \in list[c]} = {p_handle[m] : m \in list[c]}
  BY <1>5
<1>7. {p_handle'[m] : m \in list'[b]} = {p_handle[m] : m \in list[b]} \union {h}
  BY <1>2, <1>5, <1>6
<1>8. \A c \in Bundles \ {b} : {p_handle'[m] : m \in list'[c]} = {p_handle[m] : m \in list[c]}
  BY <1>5, <1>6
<1>9. Registry!Create(b, h)
  BY <1>1, <1>2, <1>4, <1>7, <1>8 DEF Registry!Create
<1> QED BY <1>2, <1>9

\* ... until its node has left it.
LEMMA DeleteUnlinkDeletes ==
    ASSUME AnyUse, OneUser, Quiet, NEW t \in Users, DeleteUnlink(t)
    PROVE  \E b \in Bundles : \E h \in Handles : Registry!Delete(b, h)
<1>0. /\ th[t].pc = "unlink" /\ t \notin dangling /\ t \in Threads /\ th[t].bundle \in Bundles
      /\ list \in [Bundles -> SUBSET Nodes]
  BY DeleteUnlinkDoes, UserHas, UserIn DEF DeleteSteps
<1>b. th[t].node \in list[th[t].bundle]
  BY <1>0 DEF OneUser, NodesHeld
<1>c. p_handle[th[t].node] \in Handles
  BY <1>0, <1>b DEF OneUser, Listed
<1>p. PICK b \in Bundles, h \in Handles : b = th[t].bundle /\ h = p_handle[th[t].node]
  BY <1>0, <1>c
<1>q. PICK n \in list[b] : n = th[t].node /\ p_handle[n] = h
  BY <1>b, <1>p
<1>1. /\ th[t].pc = "unlink" /\ t \notin dangling
      /\ list' = [list EXCEPT ![b] = @ \ {n}] /\ UNCHANGED <<registered, p_handle>>
  BY <1>p, <1>q, DeleteUnlinkDoes DEF heapVars
<1>5. \A m \in list[b] : p_handle[m] = h => m = n
  BY <1>p, <1>q DEF OneUser, OneNode
<1>6. list'[b] = list[b] \ {n} /\ \A c \in Bundles \ {b} : list'[c] = list[c]
  BY <1>0, <1>1
<1>7. {p_handle[m] : m \in list[b] \ {n}} = {p_handle[m] : m \in list[b]} \ {h}
  BY <1>q, <1>5
<1>8. {p_handle'[m] : m \in list'[b]} = {p_handle[m] : m \in list[b]} \ {h}
  BY <1>1, <1>6, <1>7
<1>9. \A c \in Bundles \ {b} : {p_handle'[m] : m \in list'[c]} = {p_handle[m] : m \in list[c]}
  BY <1>1, <1>6
<1>10. h \in {p_handle[m] : m \in list[b]}
  BY <1>q
<1>11. Registry!Delete(b, h)
  BY <1>1, <1>8, <1>9, <1>10 DEF Registry!Delete
<1> QED BY <1>11

\* The other steps of a user change nothing its users see.
LEMMA UseRegistry ==
    ASSUME AnyUse, OneUser, Quiet, NEW t \in Users, Use(t)
    PROVE  Registry!Next \/ UNCHANGED Registry!registryVars
<1>1. CASE \E n \in Nodes : CreateAdd(t, n)
  BY <1>1, CreateAddCreates DEF Registry!Next
<1>2. CASE DeleteUnlink(t)
  BY <1>2, DeleteUnlinkDeletes DEF Registry!Next
<1>3. CASE UNCHANGED <<registered, list, p_handle>>
  BY <1>3, RegistryStutters
<1> QED BY <1>1, <1>2, <1>3 DEF Use, CreateFind, DeleteFind, CreateAlloc, CreateCount,
           DeleteMatch, DeleteFree,
                                DeleteUncount, headVars, heapVars

\* ImplementsServiceRegistry: to its users the framework is ServiceRegistry.  A
\* module is offered from mod_register_instance_func on and withdrawn when it has
\* no instance left; an instance exists from the moment its node is in the list
\* until the node has left it; every other step changes neither.
THEOREM FrameworkImplementsRegistry == Spec => ImplementsServiceRegistry
<1>1. ASSUME Clean({"oneDeletion"}) => AnyUse, Clean({"oneDeletion", "oneAdmin"}) => OneBusy,
             Clean(UseRules) => OneUser, Clean(StopRules) => QuietStop, [Next]_vars, Clean(Rules)'
      PROVE  [Registry!Next]_(Registry!registryVars)
  <2>1. Clean(StopRules) /\ "oneAdmin" \notin broken'
    <3>1. Clean(Rules)
      BY <1>1, CleanBefore
    <3> QED BY <1>1, <3>1 DEF Clean, Rules, StopRules, UseRules
  <2>2. AnyUse /\ OneBusy /\ OneUser /\ Quiet
    BY <1>1, <2>1, StopRulesKept DEF QuietStop
  <2>3. UNCHANGED vars => UNCHANGED Registry!registryVars
    BY RegistryStutters DEF vars, headVars, heapVars
  <2> QED BY <1>1, <2>1, <2>2, <2>3, CommandAlone, CommandRegistry, UseRegistry DEF Next
<1>2. (Clean({"oneDeletion"}) => AnyUse) /\ (Clean({"oneDeletion", "oneAdmin"}) => OneBusy)
      /\ (Clean(UseRules) => OneUser) /\ (Clean(StopRules) => QuietStop) /\ [Next]_vars
         => (Clean(Rules)' => [Registry!Next]_(Registry!registryVars))
  BY <1>1
<1>3. (Clean({"oneDeletion"}) => AnyUse) /\ (Clean({"oneDeletion", "oneAdmin"}) => OneBusy)
      /\ (Clean(UseRules) => OneUser) /\ (Clean(StopRules) => QuietStop) /\ [Next]_vars
         => [Clean(Rules)' => [Registry!Next]_(Registry!registryVars)]_vars
  BY <1>2
<1> QED BY <1>3, InitRegistry, AnyUseHolds, CleanAdmins, OneUserHolds, QuietStopHolds, PTL
        DEF Spec, ImplementsServiceRegistry
-----------------------------------------------------------------------------

\* No service is installed.
LEMMA InitServices == Init => Services
BY ModBundleAssumption DEF Init, Services, Installed, NoSrv, Idle, Threads

\* A change of a state or of p_iid leaves the services that are installed.
SameServices == UNCHANGED srv \/ \E j \in Ids : (\E s \in States : Sets(j, s)) \/ (\E p \in BOOLEAN : Tells(j, p))

LEMMA InstalledKept ==
    ASSUME AnyUse, SameServices
    PROVE  /\ \A j \in Ids : srv'[j].mod = srv[j].mod /\ (srv'[j].installed <=> srv[j].installed)
           /\ \A c : Installed(c)' = Installed(c)
<1>1. \A j \in Ids : srv'[j].mod = srv[j].mod /\ (srv'[j].installed <=> srv[j].installed)
  BY DEF SameServices, Sets, Tells, Serves
<1> QED BY <1>1 DEF Installed

\* Services, of a step that installs and uninstalls nothing.
LEMMA ServicesKept ==
    ASSUME AnyUse, Services, NEW t \in Admins, Alone(t), NEW p, NEW i, NEW b,
           AdminMoves(t, p, i, b),
           SameServices, UNCHANGED <<global_id, service_id>>, p # "idle" => i \in Installed(b)
    PROVE  Services'
<1>1. /\ th'[t].pc = p /\ th'[t].id = i /\ th'[t].bundle = b
      /\ \A s \in Admins : s = t \/ th'[s].pc = "idle"
  BY DEF AdminMoves, Moves, Alone, Threads
<1>2. \A j \in Ids : j >= global_id' => ~srv'[j].installed
  BY InstalledKept DEF Services
<1>3. \A c \in Bundles : \A j \in Installed(c)' : service_id'[c] = j
  BY InstalledKept DEF Services
<1>4. \A s \in Admins : th'[s].pc # "idle" => th'[s].id \in Installed(b)'
  BY <1>1, InstalledKept
<1>5. \A s \in Admins : th'[s].pc # "idle" => th'[s].id \in Installed(th[s].bundle)'
  BY <1>1, <1>4 DEF Installed
<1> QED BY <1>2, <1>3, <1>5 DEF Services

\* The id is a new one, and the bundle had no other.
LEMMA InstallServices ==
    ASSUME "installOnce" \notin broken', AnyUse, Services, NEW t \in Admins, Alone(t), NEW b \in Bundles,
           Install(t, b)
    PROVE  Services'
<1>1. /\ th[t].pc = "idle" /\ Installed(b) = {} /\ UNCHANGED th
      /\ \A s \in Admins : th[s].pc = "idle"
      /\ global_id' = global_id + 1 /\ global_id \in Ids
  BY InstallDoes DEF Install, At, Alone, Breaks, Rule
<1>2. ~srv[global_id].installed /\ \A j \in Ids : j >= global_id' => j >= global_id /\ j # global_id
  BY <1>1 DEF Services, Ids
<1>3. \A s \in Admins : th'[s].pc = "idle"
  BY <1>1
<1>4. ASSUME UNCHANGED <<srv, service_id>> PROVE Services'
  <2>1. \A c : Installed(c)' = Installed(c)
    BY <1>4 DEF Installed
  <2> QED BY <1>2, <1>3, <1>4, <2>1 DEF Services
<1>5. ASSUME Serves(global_id, b, "INSTALLED",
             FALSE, TRUE), service_id' = [service_id EXCEPT ![b] = global_id]
      PROVE  Services'
  <2>1. Installed(b)' = {global_id} /\ \A c \in Bundles \ {b} : Installed(c)' = Installed(c)
    BY <1>1, <1>2, <1>5 DEF Serves, Installed
  <2>2. \A j \in Ids : j >= global_id' => ~srv'[j].installed
    BY <1>1, <1>2, <1>5 DEF Serves, Services
  <2>3. service_id'[b] = global_id /\ \A c \in Bundles \ {b} : service_id'[c] = service_id[c]
    BY <1>5, AdminIn
  <2>4. \A c \in Bundles : \A j \in Installed(c)' : service_id'[c] = j
    BY <2>1, <2>3 DEF Services
  <2> QED BY <1>3, <2>2, <2>4 DEF Services
<1> QED BY <1>4, <1>5, InstallDoes

\* The bundle is left with no service at all.
LEMMA UninstallServices ==
    ASSUME AnyUse, Services, NEW t \in Admins, Alone(t), NEW i \in Ids, Uninstall(t, i)
    PROVE  Services'
<1> DEFINE b == srv[i].mod
<1>1. /\ b \in Bundles /\ i \in Installed(b) /\ \A s \in Admins : th'[s].pc = "idle"
      /\ service_id' = [service_id EXCEPT ![b] = 0] /\ UNCHANGED global_id
      /\ Serves(i, b, srv[i].state, srv[i].p_iid, FALSE)
  BY UninstallDoes DEF Uninstall, At, Alone, Installed
<1>2. \A j \in Installed(b) : j = i
  BY <1>1 DEF Services
<1>a. /\ \A j \in Ids \ {i} : srv'[j] = srv[j]
      /\ ~srv'[i].installed
  BY <1>1 DEF Serves
<1> HIDE DEF b
<1>3. \A c \in Bundles : Installed(c)' \subseteq Installed(c) \ {i}
  BY <1>a DEF Installed
<1>4. \A c \in Bundles : c = b => Installed(c)' = {}
  BY <1>2, <1>3
<1>5. \A c \in Bundles \ {b} : service_id'[c] = service_id[c]
  BY <1>1, AdminIn
<1>6. \A c \in Bundles : \A j \in Installed(c)' : service_id'[c] = j
  BY <1>3, <1>4, <1>5 DEF Services
<1>7. \A j \in Ids : j >= global_id' => ~srv'[j].installed
  BY <1>1, <1>a DEF Services
<1> QED BY <1>1, <1>6, <1>7 DEF Services

\* A command works on the one service of its bundle.
LEMMA Working ==
    ASSUME AnyUse, Services, NEW t \in Admins, th[t].pc # "idle"
    PROVE  /\ th[t].id \in Ids /\ th[t].bundle \in Bundles /\ th[t].id \in Installed(th[t].bundle)
           /\ Installed(th[t].bundle) = {th[t].id} /\ service_id[th[t].bundle] = th[t].id
<1>1. th[t].pc \in StartSteps \union StopSteps
  BY AdminHolds, AdminIn DEF Local, Places
<1>2. th[t].id \in Ids /\ th[t].bundle \in Bundles
  BY <1>1, AdminIn
<1> QED BY <1>2 DEF Services

\* No command but install and uninstall changes what is installed.
LEMMA KeptBy ==
    ASSUME AnyUse, NEW t \in Admins
    PROVE  /\ UNCHANGED srvVars => SameServices
           /\ StartMark(t) \/ RegisterFind(t) \/ IIDRegister(t) \/ Activate(t) \/ StopMark(t)
                \/ IIDUnregister(t) \/ Stopped(t) => SameServices
<1>0. {"INSTALLED", "STARTING", "ACTIVE", "STOPPING", "START_FAILED"} \subseteq States
  BY DEF States
<1>1. UNCHANGED srvVars => SameServices
  BY DEF SameServices, srvVars
<1>2. ASSUME StartMark(t) PROVE SameServices
  <2>1. th[t].id \in Ids
    BY <1>2, AdminIn DEF StartMark, At, StartSteps, StopSteps
  <2> QED BY <1>0, <1>2, <2>1, StartMarkDoes DEF SameServices
<1>3. ASSUME RegisterFind(t) PROVE SameServices
  <2>1. th[t].id \in Ids
    BY <1>3, AdminIn DEF RegisterFind, At, StartSteps, StopSteps
  <2> QED BY <1>0, <1>3, <2>1, RegisterFindDoes DEF SameServices
<1>4. ASSUME IIDRegister(t) PROVE SameServices
  <2>1. th[t].id \in Ids
    BY <1>4, AdminIn DEF IIDRegister, At, StartSteps, StopSteps
  <2> QED BY <1>0, <1>4, <2>1, IIDRegisterDoes DEF SameServices
<1>5. ASSUME Activate(t) PROVE SameServices
  <2>1. th[t].id \in Ids
    BY <1>5, AdminIn DEF Activate, At, StartSteps, StopSteps
  <2> QED BY <1>0, <1>5, <2>1, ActivateDoes DEF SameServices
<1>6. ASSUME StopMark(t) PROVE SameServices
  <2>1. th[t].id \in Ids
    BY <1>6, AdminIn DEF StopMark, At, StartSteps, StopSteps
  <2> QED BY <1>0, <1>6, <2>1, StopMarkDoes DEF SameServices
<1>7. ASSUME IIDUnregister(t) PROVE SameServices
  <2>1. th[t].id \in Ids
    BY <1>7, AdminIn DEF IIDUnregister, At, StartSteps, StopSteps
  <2> QED BY <1>0, <1>7, <2>1, IIDUnregisterDoes DEF SameServices
<1>8. ASSUME Stopped(t) PROVE SameServices
  <2>1. th[t].id \in Ids
    BY <1>8, AdminIn DEF Stopped, At, StartSteps, StopSteps
  <2> QED BY <1>0, <1>8, <2>1, StoppedDoes DEF SameServices
<1> QED BY <1>1, <1>2, <1>3, <1>4, <1>5, <1>6, <1>7, <1>8

\* Services, one command after the other.
LEMMA CommandServices ==
    ASSUME "installOnce" \notin broken', AnyUse, Services, NEW t \in Admins, Alone(t), Command(t)
    PROVE  Services'
<1> USE DEF At
<1>0. th[t].pc # "idle" => th[t].id \in Installed(th[t].bundle)
  BY DEF Services
<1>1. ASSUME NEW i \in Ids, StartCheck(t, i) PROVE Services'
  <2>1. SameServices /\ UNCHANGED <<global_id, service_id>>
    BY <1>1, KeptBy DEF StartCheck, srvVars
  <2>2. i \in Installed(srv[i].mod)
    BY <1>1 DEF StartCheck, Installed
  <2> QED BY <1>1, <2>1, <2>2, AdminGoes, ServicesKept
<1>2. ASSUME NEW i \in Ids, StopCheck(t, i) PROVE Services'
  <2>1. SameServices /\ UNCHANGED <<global_id, service_id>>
    BY <1>2, KeptBy DEF StopCheck, srvVars
  <2>2. i \in Installed(srv[i].mod)
    BY <1>2 DEF StopCheck, Installed
  <2> QED BY <1>2, <2>1, <2>2, AdminGoes, ServicesKept
<1>3. ASSUME StartMark(t) PROVE Services'
  <2>1. SameServices /\ UNCHANGED <<global_id, service_id>>
    BY <1>3, KeptBy DEF StartMark, srvVars
  <2>2. th[t].id \in Installed(th[t].bundle)
    BY <1>0, <1>3 DEF StartMark
  <2> QED BY <1>3, <2>1, <2>2, AdminGoes, ServicesKept
<1>4. ASSUME RegisterFind(t) PROVE Services'
  <2>1. SameServices /\ UNCHANGED <<global_id, service_id>>
    BY <1>4, KeptBy DEF RegisterFind, srvVars
  <2>2. th[t].id \in Installed(th[t].bundle)
    BY <1>0, <1>4 DEF RegisterFind
  <2> QED BY <1>4, <2>1, <2>2, AdminGoes, ServicesKept
<1>5. ASSUME RegisterAdd(t) PROVE Services'
  <2>1. SameServices /\ UNCHANGED <<global_id, service_id>>
    BY <1>5, KeptBy DEF RegisterAdd, srvVars
  <2>2. th[t].id \in Installed(th[t].bundle)
    BY <1>0, <1>5 DEF RegisterAdd
  <2> QED BY <1>5, <2>1, <2>2, AdminGoes, ServicesKept
<1>6. ASSUME IIDRegister(t) PROVE Services'
  <2>1. SameServices /\ UNCHANGED <<global_id, service_id>>
    BY <1>6, KeptBy DEF IIDRegister, srvVars
  <2>2. th[t].id \in Installed(th[t].bundle)
    BY <1>0, <1>6 DEF IIDRegister
  <2> QED BY <1>6, <2>1, <2>2, AdminGoes, ServicesKept
<1>7. ASSUME Activate(t) PROVE Services'
  <2>1. SameServices /\ UNCHANGED <<global_id, service_id>>
    BY <1>7, KeptBy DEF Activate, srvVars
  <2>2. th[t].id \in Installed(th[t].bundle)
    BY <1>0, <1>7 DEF Activate
  <2> QED BY <1>7, <2>1, <2>2, AdminGoes, ServicesKept
<1>8. ASSUME StopMark(t) PROVE Services'
  <2>1. SameServices /\ UNCHANGED <<global_id, service_id>>
    BY <1>8, KeptBy DEF StopMark, srvVars
  <2>2. th[t].id \in Installed(th[t].bundle)
    BY <1>0, <1>8 DEF StopMark
  <2> QED BY <1>8, <2>1, <2>2, AdminGoes, ServicesKept
<1>9. ASSUME Unregister(t) PROVE Services'
  <2>1. SameServices /\ UNCHANGED <<global_id, service_id>>
    BY <1>9, KeptBy DEF Unregister, srvVars
  <2>2. th[t].id \in Installed(th[t].bundle)
    BY <1>0, <1>9 DEF Unregister
  <2> QED BY <1>9, <2>1, <2>2, AdminGoes, ServicesKept
<1>10. ASSUME HashDel(t) PROVE Services'
  <2>1. SameServices /\ UNCHANGED <<global_id, service_id>>
    BY <1>10, KeptBy DEF HashDel, srvVars
  <2>2. th[t].id \in Installed(th[t].bundle)
    BY <1>0, <1>10 DEF HashDel
  <2> QED BY <1>10, <2>1, <2>2, AdminGoes, ServicesKept
<1>11. ASSUME FreeHead(t) PROVE Services'
  <2>1. SameServices /\ UNCHANGED <<global_id, service_id>>
    BY <1>11, KeptBy DEF FreeHead, srvVars
  <2>2. th[t].id \in Installed(th[t].bundle)
    BY <1>0, <1>11 DEF FreeHead
  <2> QED BY <1>11, <2>1, <2>2, AdminGoes, ServicesKept
<1>12. ASSUME IIDUnregister(t) PROVE Services'
  <2>1. SameServices /\ UNCHANGED <<global_id, service_id>>
    BY <1>12, KeptBy DEF IIDUnregister, srvVars
  <2>2. th[t].id \in Installed(th[t].bundle)
    BY <1>0, <1>12 DEF IIDUnregister
  <2> QED BY <1>12, <2>1, <2>2, AdminGoes, ServicesKept
<1>13. ASSUME Stopped(t) PROVE Services'
  <2>1. SameServices /\ UNCHANGED <<global_id, service_id>>
    BY <1>13, KeptBy DEF Stopped, srvVars
  <2>2. th[t].id \in Installed(th[t].bundle)
    BY <1>0, <1>13 DEF Stopped
  <2> QED BY <1>13, <2>1, <2>2, AdminGoes, ServicesKept
<1> QED BY <1>1, <1>2, <1>3, <1>4, <1>5, <1>6, <1>7, <1>8, <1>9, <1>10, <1>11, <1>12, <1>13,
           InstallServices, UninstallServices DEF Command

\* No step of a user concerns the services.
LEMMA UseLeaves ==
    ASSUME AnyUse, NEW t \in Users, Use(t)
    PROVE  /\ UNCHANGED <<srvVars, registered>>
           /\ \A s \in Admins : th'[s] = th[s]
           /\ \A c : Doing(c, StartSteps \union StopSteps)' = Doing(c, StartSteps \union StopSteps)
<1>1. UNCHANGED <<srvVars, registered>>
  BY DEF Use, CreateFind, DeleteFind, CreateAlloc, CreateAdd, CreateCount, DeleteMatch, DeleteFree,
         DeleteUnlink, DeleteUncount, headVars
<1>2. \E i, b, h, n, o : \E p \in CreateSteps \union DeleteSteps \union {"idle"} : Moves(t, p, i, b, h, n, o)
  BY CreateFindDoes, DeleteFindDoes, CreateAllocDoes, CreateAddDoes, CreateCountDoes,
     DeleteMatchDoes,
     DeleteFreeDoes, DeleteUnlinkDoes, DeleteUncountDoes, UserPlaces DEF Use, Calls, Stays, Returns
<1>3. /\ \A s \in Threads \ {t} : th'[s] = th[s]
      /\ th'[t].pc \notin StartSteps \union StopSteps
  BY <1>2, UserPlaces DEF Moves
<1>4. th[t].pc \notin StartSteps \union StopSteps
  BY UserIn, ModBundleAssumption DEF AnyUse, Locals
<1>5. \A s \in Admins : s # t /\ s \in Threads
  BY ModBundleAssumption DEF Threads
<1> QED BY <1>1, <1>3, <1>4, <1>5 DEF Doing

\* Services is inductive, relative to AnyUse.
LEMMA NextServices ==
    ASSUME "oneAdmin" \notin broken', "installOnce" \notin broken',
           AnyUse, OneBusy, Services, [Next]_vars
    PROVE  Services'
<1>1. ASSUME Services, UNCHANGED srvVars, \A s \in Admins : th'[s] = th[s] PROVE Services'
  <2>1. \A c : Installed(c)' = Installed(c)
    BY <1>1 DEF Installed, srvVars
  <2>2. \A s \in Admins : th'[s].pc # "idle" => th'[s].id \in Installed(th[s].bundle)'
    BY <1>1 DEF Services, Installed, srvVars
  <2> QED BY <1>1, <2>1, <2>2 DEF Services, srvVars
<1> QED BY <1>1, UseLeaves, CommandAlone, CommandServices DEF Next, vars

\* The rules on which the ids of the services depend.
ServiceRules == {"oneDeletion", "oneAdmin", "installOnce"}

LEMMA ServiceRulesKept ==
    ASSUME Clean(ServiceRules)
    PROVE  Clean({"oneDeletion"}) /\ Clean({"oneDeletion", "oneAdmin"})
BY DEF Clean, ServiceRules

\* A bundle has at most one service that is installed, bundle_service_id of its
\* shared object is the id of that service, and every command works on it.
THEOREM ServicesHold == Spec => [](Clean(ServiceRules) => Services)
<1>1. ASSUME Clean({"oneDeletion"}) => AnyUse, Clean({"oneDeletion", "oneAdmin"}) => OneBusy,
             Clean(ServiceRules) => Services, [Next]_vars, Clean(ServiceRules)'
      PROVE  Services'
  <2>1. Clean(ServiceRules)
    BY <1>1, CleanBefore
  <2>2. "oneAdmin" \notin broken' /\ "installOnce" \notin broken'
    BY <1>1 DEF Clean, ServiceRules
  <2> QED BY <1>1, <2>1, <2>2, ServiceRulesKept, NextServices
<1>2. (Clean({"oneDeletion"}) => AnyUse) /\ (Clean({"oneDeletion", "oneAdmin"}) => OneBusy)
      /\ (Clean(ServiceRules) => Services) /\ [Next]_vars => (Clean(ServiceRules) => Services)'
  BY <1>1
<1> QED BY <1>2, InitServices, AnyUseHolds, CleanAdmins, PTL DEF Spec

\* IIDRegisterFindsService: mod_bundle_IID_register finds the service, as the
\* bundle_start of every module asserts.
THEOREM IIDRegisterAlwaysFinds == Spec => [](Clean(ServiceRules) => IIDRegisterFindsService)
<1>1. AnyUse /\ Services => IIDRegisterFindsService
  <2> SUFFICES ASSUME AnyUse, Services, NEW t \in Threads, th[t].pc = "iidRegister"
               PROVE  service_id[th[t].bundle] \in Ids /\ srv[service_id[th[t].bundle]].installed
    BY DEF IIDRegisterFindsService, At
  <2>1. t \in Admins /\ th[t].pc # "idle"
    BY DEF AnyUse, Locals, StartSteps
  <2> QED BY <2>1, Working DEF Installed
<1> QED BY <1>1, ServiceRulesKept, AnyUseHolds, ServicesHold, PTL
-----------------------------------------------------------------------------
\* A bundle that no command is at work on.
Matches(b) ==
    /\ b \in registered <=> \E i \in Installed(b) : srv[i].state = "ACTIVE"
    /\ \A i \in Installed(b) : srv[i].p_iid <=> srv[i].state = "ACTIVE"

\* A command on bundle c is not seen in any other.
Elsewhere(c) ==
    \A d \in Bundles \ {c} :
        /\ Installed(d)' = Installed(d) /\ \A i \in Installed(d) : srv'[i] = srv[i]
        /\ d \in registered' <=> d \in registered

LEMMA MatchesElsewhere ==
    ASSUME NEW c, Elsewhere(c), NEW d \in Bundles \ {c}, Matches(d)
    PROVE  Matches(d)'
BY DEF Elsewhere, Matches

\* With one thread for the commands, one bundle is worked on.
LEMMA OnlyOneWorks ==
    ASSUME AnyUse, NEW t \in Admins, Alone(t),
           NEW d \in Bundles, th[t].pc # "idle" => th[t].bundle # d
    PROVE  Doing(d, StartSteps \union StopSteps) = {}
BY DEF Alone, AnyUse, Locals, Doing, StartSteps, StopSteps

\* A step on bundle c, which is left at an end of the command or on the way.
LEMMA ProgressStep ==
    ASSUME AnyUse, Progress, RegistryMatchesState, NEW t \in Admins, Alone(t), NEW c \in Bundles,
           NEW p, NEW i, NEW b, AdminMoves(t, p, i, b), Elsewhere(c),
           th[t].pc # "idle" => th[t].bundle = c,
           p # "idle" => b = c /\ (srv'[i].p_iid <=> p \in Told) /\ (c \in registered' <=> p \in Offered),
           p = "idle" => Matches(c)'
    PROVE  Progress' /\ RegistryMatchesState'
<1>1. /\ th'[t].pc = p /\ th'[t].id = i /\ th'[t].bundle = b /\ t \in Threads
      /\ p # "idle" => p \in StartSteps \union StopSteps
  BY AdminIn DEF AdminMoves, Moves
<1>2. Progress'
  <2>1. \A s \in Admins : s = t \/ th'[s].pc = "idle"
    BY DEF Alone, AdminMoves, Moves, Threads
  <2>2. p # "idle" =>
          LET s == srv'[i] IN
          /\ s.p_iid <=> p \in Told
          /\ b \in registered' <=> p \in Offered
    OBVIOUS
  <2> QED BY <1>1, <2>1, <2>2 DEF Progress
<1>3. ASSUME NEW d \in Bundles, Doing(d, StartSteps \union StopSteps)' = {} PROVE Matches(d)'
  <2>1. CASE d = c
    BY <1>1, <1>3, <2>1 DEF Doing
  <2>2. CASE d # c
    BY <2>2, OnlyOneWorks, MatchesElsewhere DEF RegistryMatchesState, Matches
  <2> QED BY <2>1, <2>2
<1> QED BY <1>2, <1>3 DEF RegistryMatchesState, Matches

\* A command writes to the one service of its bundle.
LEMMA WorkElsewhere ==
    ASSUME AnyUse, Services, NEW t \in Admins, NEW c, NEW i \in Ids, Installed(c) = {i},
           UNCHANGED srv \/ (\E s \in States : Sets(i, s)) \/ (\E p \in BOOLEAN : Tells(i, p)),
           \A d \in Bundles \ {c} : d \in registered' <=> d \in registered
    PROVE  Elsewhere(c) /\ Installed(c)' = {i}
<1>1. SameServices
  BY DEF SameServices
<1>2. \A j \in Ids \ {i} : srv'[j] = srv[j]
  BY DEF Sets, Tells, Serves
<1>3. \A d \in Bundles \ {c} : i \notin Installed(d) /\ Installed(d) \subseteq Ids
  BY DEF Installed
<1> QED BY <1>1, <1>2, <1>3, InstalledKept DEF Elsewhere

\* A command that goes on with its bundle, and one that ends.
LEMMA WorkGoes ==
    ASSUME AnyUse, Services, Progress, RegistryMatchesState, NEW t \in Admins, Alone(t),
           NEW c \in Bundles, NEW i \in Ids, th[t].bundle = c, Installed(c) = {i},
           UNCHANGED srv \/ (\E s \in States : Sets(i, s)) \/ (\E q \in BOOLEAN : Tells(i, q)),
           \A d \in Bundles \ {c} : d \in registered' <=> d \in registered,
           NEW p, AdminMoves(t, p, i, c), srv'[i].p_iid <=> p \in Told, c \in registered' <=> p \in Offered,
           p # "idle"
    PROVE  Progress' /\ RegistryMatchesState'
<1>1. Elsewhere(c)
  BY WorkElsewhere
<1> QED BY <1>1, ProgressStep

LEMMA WorkEnds ==
    ASSUME AnyUse, Services, Progress, RegistryMatchesState, NEW t \in Admins, Alone(t),
           NEW c \in Bundles, NEW i \in Ids, th[t].bundle = c, Installed(c) = {i},
           \E s \in States : Sets(i, s), UNCHANGED registered, AdminMoves(t, "idle", 0, Null),
           c \in registered <=> srv'[i].state = "ACTIVE", srv'[i].p_iid <=> srv'[i].state = "ACTIVE"
    PROVE  Progress' /\ RegistryMatchesState'
<1>1. Elsewhere(c) /\ Installed(c)' = {i}
  BY WorkElsewhere
<1>2. Matches(c)'
  BY <1>1 DEF Matches
<1> QED BY <1>1, <1>2, ProgressStep

\* What Services and Progress say of the bundle that is worked on.
LEMMA AtWork ==
    ASSUME AnyUse, Services, Progress, NEW t \in Admins, th[t].pc # "idle"
    PROVE  \E c \in Bundles : \E i \in Ids :
             /\ th[t].bundle = c /\ th[t].id = i /\ Installed(c) = {i} /\ service_id[c] = i
             /\ srv[i].installed /\ srv[i] \in Srv
             /\ srv[i].p_iid <=> th[t].pc \in Told
             /\ c \in registered <=> th[t].pc \in Offered
<1>1. /\ th[t].id \in Ids /\ th[t].bundle \in Bundles /\ th[t].id \in Installed(th[t].bundle)
      /\ Installed(th[t].bundle) = {th[t].id} /\ service_id[th[t].bundle] = th[t].id
  BY Working
<1>2. srv[th[t].id].installed /\ srv[th[t].id] \in Srv
  BY <1>1, AdminIn DEF Installed
<1>3. /\ srv[th[t].id].p_iid <=> th[t].pc \in Told
      /\ th[t].bundle \in registered <=> th[t].pc \in Offered
  BY DEF Progress
<1> QED BY <1>1, <1>2, <1>3

\* Progress and RegistryMatchesState, one command after the other.
LEMMA RegisterAddState ==
    ASSUME AnyUse, Services, Progress, RegistryMatchesState, NEW t \in Admins, Alone(t),
           RegisterAdd(t)
    PROVE  Progress' /\ RegistryMatchesState'
<1>0. PICK c \in Bundles : \E i \in Ids :
             /\ th[t].bundle = c /\ th[t].id = i /\ Installed(c) = {i} /\ service_id[c] = i
             /\ srv[i].installed /\ srv[i] \in Srv
             /\ srv[i].p_iid <=> th[t].pc \in Told
             /\ c \in registered <=> th[t].pc \in Offered
  BY AtWork DEF RegisterAdd, At
<1>1. PICK i \in Ids :
             /\ th[t].bundle = c /\ th[t].id = i /\ Installed(c) = {i} /\ service_id[c] = i
             /\ srv[i].installed /\ srv[i] \in Srv
             /\ srv[i].p_iid <=> th[t].pc \in Told
             /\ c \in registered <=> th[t].pc \in Offered
  BY <1>0
<1>2. th[t].pc = "registerAdd"
  BY DEF RegisterAdd, At
<1>3. AdminMoves(t, "iidRegister", i, c)
  BY <1>1, AdminGoes
<1>4. UNCHANGED srv
  BY <1>1, <1>2, RegisterAddDoes DEF RegisterAdd, srvVars
<1>5. /\ srv'[i].p_iid <=> "iidRegister" \in Told
      /\ UNCHANGED srv \/ (\E s \in States : Sets(i, s)) \/ (\E q \in BOOLEAN : Tells(i, q))
  BY <1>1, <1>2, <1>4 DEF Told, Sets, Tells, Serves, States
<1>6. /\ c \in registered' <=> "iidRegister" \in Offered
      /\ \A d \in Bundles \ {c} : d \in registered' <=> d \in registered
  BY <1>1, <1>2 DEF Offered, RegisterAdd
<1> QED BY <1>1, <1>3, <1>5, <1>6, WorkGoes

LEMMA StopMarkState ==
    ASSUME AnyUse, Services, Progress, RegistryMatchesState, NEW t \in Admins, Alone(t), StopMark(t)
    PROVE  Progress' /\ RegistryMatchesState'
<1>0. PICK c \in Bundles : \E i \in Ids :
             /\ th[t].bundle = c /\ th[t].id = i /\ Installed(c) = {i} /\ service_id[c] = i
             /\ srv[i].installed /\ srv[i] \in Srv
             /\ srv[i].p_iid <=> th[t].pc \in Told
             /\ c \in registered <=> th[t].pc \in Offered
  BY AtWork DEF StopMark, At
<1>1. PICK i \in Ids :
             /\ th[t].bundle = c /\ th[t].id = i /\ Installed(c) = {i} /\ service_id[c] = i
             /\ srv[i].installed /\ srv[i] \in Srv
             /\ srv[i].p_iid <=> th[t].pc \in Told
             /\ c \in registered <=> th[t].pc \in Offered
  BY <1>0
<1>2. th[t].pc = "stopMark"
  BY DEF StopMark, At
<1>3. AdminMoves(t, "unregister", i, c)
  BY <1>1, AdminGoes
<1>4. Sets(i, "STOPPING")
  BY <1>1, <1>2, StopMarkDoes DEF StopMark, srvVars
<1>5. /\ srv'[i].p_iid <=> "unregister" \in Told
      /\ UNCHANGED srv \/ (\E s \in States : Sets(i, s)) \/ (\E q \in BOOLEAN : Tells(i, q))
  BY <1>1, <1>2, <1>4 DEF Told, Sets, Tells, Serves, States
<1>6. /\ c \in registered' <=> "unregister" \in Offered
      /\ \A d \in Bundles \ {c} : d \in registered' <=> d \in registered
  BY <1>1, <1>2 DEF Offered, StopMark, headVars
<1> QED BY <1>1, <1>3, <1>5, <1>6, WorkGoes

LEMMA HashDelState ==
    ASSUME AnyUse, Services, Progress, RegistryMatchesState, NEW t \in Admins, Alone(t), HashDel(t)
    PROVE  Progress' /\ RegistryMatchesState'
<1>0. PICK c \in Bundles : \E i \in Ids :
             /\ th[t].bundle = c /\ th[t].id = i /\ Installed(c) = {i} /\ service_id[c] = i
             /\ srv[i].installed /\ srv[i] \in Srv
             /\ srv[i].p_iid <=> th[t].pc \in Told
             /\ c \in registered <=> th[t].pc \in Offered
  BY AtWork DEF HashDel, At
<1>1. PICK i \in Ids :
             /\ th[t].bundle = c /\ th[t].id = i /\ Installed(c) = {i} /\ service_id[c] = i
             /\ srv[i].installed /\ srv[i] \in Srv
             /\ srv[i].p_iid <=> th[t].pc \in Told
             /\ c \in registered <=> th[t].pc \in Offered
  BY <1>0
<1>2. th[t].pc = "hashDel"
  BY DEF HashDel, At
<1>3. AdminMoves(t, "freeHead", i, c)
  BY <1>1, AdminGoes
<1>4. UNCHANGED srv
  BY <1>1, <1>2, HashDelDoes DEF HashDel, srvVars
<1>5. /\ srv'[i].p_iid <=> "freeHead" \in Told
      /\ UNCHANGED srv \/ (\E s \in States : Sets(i, s)) \/ (\E q \in BOOLEAN : Tells(i, q))
  BY <1>1, <1>2, <1>4 DEF Told, Sets, Tells, Serves, States
<1>6. /\ c \in registered' <=> "freeHead" \in Offered
      /\ \A d \in Bundles \ {c} : d \in registered' <=> d \in registered
  BY <1>1, <1>2 DEF Offered, HashDel
<1> QED BY <1>1, <1>3, <1>5, <1>6, WorkGoes

LEMMA FreeHeadState ==
    ASSUME AnyUse, Services, Progress, RegistryMatchesState, NEW t \in Admins, Alone(t), FreeHead(t)
    PROVE  Progress' /\ RegistryMatchesState'
<1>0. PICK c \in Bundles : \E i \in Ids :
             /\ th[t].bundle = c /\ th[t].id = i /\ Installed(c) = {i} /\ service_id[c] = i
             /\ srv[i].installed /\ srv[i] \in Srv
             /\ srv[i].p_iid <=> th[t].pc \in Told
             /\ c \in registered <=> th[t].pc \in Offered
  BY AtWork DEF FreeHead, At
<1>1. PICK i \in Ids :
             /\ th[t].bundle = c /\ th[t].id = i /\ Installed(c) = {i} /\ service_id[c] = i
             /\ srv[i].installed /\ srv[i] \in Srv
             /\ srv[i].p_iid <=> th[t].pc \in Told
             /\ c \in registered <=> th[t].pc \in Offered
  BY <1>0
<1>2. th[t].pc = "freeHead"
  BY DEF FreeHead, At
<1>3. AdminMoves(t, "iidUnregister", i, c)
  BY <1>1, AdminGoes
<1>4. UNCHANGED srv
  BY <1>1, <1>2, FreeHeadDoes DEF FreeHead, srvVars
<1>5. /\ srv'[i].p_iid <=> "iidUnregister" \in Told
      /\ UNCHANGED srv \/ (\E s \in States : Sets(i, s)) \/ (\E q \in BOOLEAN : Tells(i, q))
  BY <1>1, <1>2, <1>4 DEF Told, Sets, Tells, Serves, States
<1>6. /\ c \in registered' <=> "iidUnregister" \in Offered
      /\ \A d \in Bundles \ {c} : d \in registered' <=> d \in registered
  BY <1>1, <1>2 DEF Offered, FreeHead
<1> QED BY <1>1, <1>3, <1>5, <1>6, WorkGoes

LEMMA IIDUnregisterState ==
    ASSUME AnyUse, Services, Progress, RegistryMatchesState, NEW t \in Admins, Alone(t),
           IIDUnregister(t)
    PROVE  Progress' /\ RegistryMatchesState'
<1>0. PICK c \in Bundles : \E i \in Ids :
             /\ th[t].bundle = c /\ th[t].id = i /\ Installed(c) = {i} /\ service_id[c] = i
             /\ srv[i].installed /\ srv[i] \in Srv
             /\ srv[i].p_iid <=> th[t].pc \in Told
             /\ c \in registered <=> th[t].pc \in Offered
  BY AtWork DEF IIDUnregister, At
<1>1. PICK i \in Ids :
             /\ th[t].bundle = c /\ th[t].id = i /\ Installed(c) = {i} /\ service_id[c] = i
             /\ srv[i].installed /\ srv[i] \in Srv
             /\ srv[i].p_iid <=> th[t].pc \in Told
             /\ c \in registered <=> th[t].pc \in Offered
  BY <1>0
<1>2. th[t].pc = "iidUnregister"
  BY DEF IIDUnregister, At
<1>3. AdminMoves(t, "installed", i, c)
  BY <1>1, AdminGoes
<1>4. Tells(i, FALSE)
  BY <1>1, <1>2, IIDUnregisterDoes DEF IIDUnregister, srvVars
<1>5. /\ srv'[i].p_iid <=> "installed" \in Told
      /\ UNCHANGED srv \/ (\E s \in States : Sets(i, s)) \/ (\E q \in BOOLEAN : Tells(i, q))
  BY <1>1, <1>2, <1>4 DEF Told, Sets, Tells, Serves, States
<1>6. /\ c \in registered' <=> "installed" \in Offered
      /\ \A d \in Bundles \ {c} : d \in registered' <=> d \in registered
  BY <1>1, <1>2 DEF Offered, IIDUnregister, headVars
<1> QED BY <1>1, <1>3, <1>5, <1>6, WorkGoes

LEMMA ActivateState ==
    ASSUME AnyUse, Services, Progress, RegistryMatchesState, NEW t \in Admins, Alone(t), Activate(t)
    PROVE  Progress' /\ RegistryMatchesState'
<1>0. PICK c \in Bundles : \E i \in Ids :
             /\ th[t].bundle = c /\ th[t].id = i /\ Installed(c) = {i} /\ service_id[c] = i
             /\ srv[i].installed /\ srv[i] \in Srv
             /\ srv[i].p_iid <=> th[t].pc \in Told
             /\ c \in registered <=> th[t].pc \in Offered
  BY AtWork DEF Activate, At
<1>1. PICK i \in Ids :
             /\ th[t].bundle = c /\ th[t].id = i /\ Installed(c) = {i} /\ service_id[c] = i
             /\ srv[i].installed /\ srv[i] \in Srv
             /\ srv[i].p_iid <=> th[t].pc \in Told
             /\ c \in registered <=> th[t].pc \in Offered
  BY <1>0
<1>2. th[t].pc = "activate"
  BY DEF Activate, At
<1>3. AdminMoves(t, "idle", 0, Null)
  BY AdminGoes
<1>4. Sets(i, "ACTIVE") /\ UNCHANGED registered /\ "ACTIVE" \in States
  BY <1>1, <1>2, ActivateDoes DEF Activate, headVars, States
<1>5. /\ c \in registered <=> srv'[i].state = "ACTIVE"
      /\ srv'[i].p_iid <=> srv'[i].state = "ACTIVE"
  BY <1>1, <1>2, <1>4 DEF Offered, Told, Sets, Serves
<1> QED BY <1>1, <1>3, <1>4, <1>5, WorkEnds

LEMMA StoppedState ==
    ASSUME AnyUse, Services, Progress, RegistryMatchesState, NEW t \in Admins, Alone(t), Stopped(t)
    PROVE  Progress' /\ RegistryMatchesState'
<1>0. PICK c \in Bundles : \E i \in Ids :
             /\ th[t].bundle = c /\ th[t].id = i /\ Installed(c) = {i} /\ service_id[c] = i
             /\ srv[i].installed /\ srv[i] \in Srv
             /\ srv[i].p_iid <=> th[t].pc \in Told
             /\ c \in registered <=> th[t].pc \in Offered
  BY AtWork DEF Stopped, At
<1>1. PICK i \in Ids :
             /\ th[t].bundle = c /\ th[t].id = i /\ Installed(c) = {i} /\ service_id[c] = i
             /\ srv[i].installed /\ srv[i] \in Srv
             /\ srv[i].p_iid <=> th[t].pc \in Told
             /\ c \in registered <=> th[t].pc \in Offered
  BY <1>0
<1>2. th[t].pc = "installed"
  BY DEF Stopped, At
<1>3. AdminMoves(t, "idle", 0, Null)
  BY AdminGoes
<1>4. Sets(i, "INSTALLED") /\ UNCHANGED registered /\ "INSTALLED" \in States
  BY <1>1, <1>2, StoppedDoes DEF Stopped, headVars, States
<1>5. /\ c \in registered <=> srv'[i].state = "ACTIVE"
      /\ srv'[i].p_iid <=> srv'[i].state = "ACTIVE"
  BY <1>1, <1>2, <1>4 DEF Offered, Told, Sets, Serves
<1> QED BY <1>1, <1>3, <1>4, <1>5, WorkEnds

LEMMA StartMarkState ==
    ASSUME AnyUse, Services, Progress, RegistryMatchesState, NEW t \in Admins, Alone(t),
           StartMark(t)
    PROVE  Progress' /\ RegistryMatchesState'
<1>0. PICK c \in Bundles : \E i \in Ids :
             /\ th[t].bundle = c /\ th[t].id = i /\ Installed(c) = {i} /\ service_id[c] = i
             /\ srv[i].installed /\ srv[i] \in Srv
             /\ srv[i].p_iid <=> th[t].pc \in Told
             /\ c \in registered <=> th[t].pc \in Offered
  BY AtWork DEF StartMark, At
<1>1. PICK i \in Ids :
             /\ th[t].bundle = c /\ th[t].id = i /\ Installed(c) = {i} /\ service_id[c] = i
             /\ srv[i].installed /\ srv[i] \in Srv
             /\ srv[i].p_iid <=> th[t].pc \in Told
             /\ c \in registered <=> th[t].pc \in Offered
  BY <1>0
<1>2. th[t].pc = "startMark"
  BY DEF StartMark, At
<1>3. UNCHANGED registered /\ {"START_FAILED", "STARTING"} \subseteq States
  BY DEF StartMark, headVars, States
<1>4. CASE Returns(t) /\ Sets(i, "START_FAILED")
  <2>1. AdminMoves(t, "idle", 0, Null)
    BY <1>4, AdminMoving
  <2>2. /\ c \in registered <=> srv'[i].state = "ACTIVE"
        /\ srv'[i].p_iid <=> srv'[i].state = "ACTIVE"
    BY <1>1, <1>2, <1>4 DEF Offered, Told, Sets, Serves
  <2> QED BY <1>1, <1>3, <1>4, <2>1, <2>2, WorkEnds
<1>5. CASE Stays(t, "register") /\ Sets(i, "STARTING")
  <2>1. AdminMoves(t, "register", i, c)
    BY <1>1, <1>2, <1>5, AdminMoving DEF StartSteps
  <2>2. /\ srv'[i].p_iid <=> "register" \in Told
        /\ c \in registered' <=> "register" \in Offered
    BY <1>1, <1>2, <1>3, <1>5 DEF Offered, Told, Sets, Serves
  <2> QED BY <1>1, <1>3, <1>5, <2>1, <2>2, WorkGoes
<1> QED BY <1>1, <1>4, <1>5, StartMarkDoes

LEMMA RegisterFindState ==
    ASSUME AnyUse, Services, Progress, RegistryMatchesState, NEW t \in Admins, Alone(t),
           RegisterFind(t)
    PROVE  Progress' /\ RegistryMatchesState'
<1>0. PICK c \in Bundles : \E i \in Ids :
             /\ th[t].bundle = c /\ th[t].id = i /\ Installed(c) = {i} /\ service_id[c] = i
             /\ srv[i].installed /\ srv[i] \in Srv
             /\ srv[i].p_iid <=> th[t].pc \in Told
             /\ c \in registered <=> th[t].pc \in Offered
  BY AtWork DEF RegisterFind, At
<1>1. PICK i \in Ids :
             /\ th[t].bundle = c /\ th[t].id = i /\ Installed(c) = {i} /\ service_id[c] = i
             /\ srv[i].installed /\ srv[i] \in Srv
             /\ srv[i].p_iid <=> th[t].pc \in Told
             /\ c \in registered <=> th[t].pc \in Offered
  BY <1>0
<1>2. th[t].pc = "register"
  BY DEF RegisterFind, At
<1>3. Stays(t, "registerAdd") /\ UNCHANGED <<srv, registered>>
  BY <1>1, <1>2, RegisterFindDoes DEF Offered, RegisterFind, headVars
<1>4. AdminMoves(t, "registerAdd", i, c)
  BY <1>1, <1>2, <1>3, AdminMoving DEF StartSteps
<1>5. /\ srv'[i].p_iid <=> "registerAdd" \in Told
      /\ c \in registered' <=> "registerAdd" \in Offered
  BY <1>1, <1>2, <1>3 DEF Offered, Told
<1> QED BY <1>1, <1>3, <1>4, <1>5, WorkGoes

LEMMA IIDRegisterState ==
    ASSUME AnyUse, Services, Progress, RegistryMatchesState, NEW t \in Admins, Alone(t),
           IIDRegister(t)
    PROVE  Progress' /\ RegistryMatchesState'
<1>0. PICK c \in Bundles : \E i \in Ids :
             /\ th[t].bundle = c /\ th[t].id = i /\ Installed(c) = {i} /\ service_id[c] = i
             /\ srv[i].installed /\ srv[i] \in Srv
             /\ srv[i].p_iid <=> th[t].pc \in Told
             /\ c \in registered <=> th[t].pc \in Offered
  BY AtWork DEF IIDRegister, At
<1>1. PICK i \in Ids :
             /\ th[t].bundle = c /\ th[t].id = i /\ Installed(c) = {i} /\ service_id[c] = i
             /\ srv[i].installed /\ srv[i] \in Srv
             /\ srv[i].p_iid <=> th[t].pc \in Told
             /\ c \in registered <=> th[t].pc \in Offered
  BY <1>0
<1>2. th[t].pc = "iidRegister"
  BY DEF IIDRegister, At
<1>3. Stays(t, "activate") /\ Tells(i, TRUE) /\ UNCHANGED registered
  BY <1>1, <1>2, IIDRegisterDoes DEF IIDRegister, headVars
<1>4. AdminMoves(t, "activate", i, c)
  BY <1>1, <1>2, <1>3, AdminMoving DEF StartSteps
<1>5. /\ srv'[i].p_iid <=> "activate" \in Told
      /\ c \in registered' <=> "activate" \in Offered
  BY <1>1, <1>2, <1>3 DEF Offered, Told, Tells, Serves
<1> QED BY <1>1, <1>3, <1>4, <1>5, WorkGoes

LEMMA UnregisterState ==
    ASSUME AnyUse, Quiet, Services, Progress, RegistryMatchesState, NEW t \in Admins, Alone(t),
           Unregister(t)
    PROVE  Progress' /\ RegistryMatchesState'
<1>0. PICK c \in Bundles : \E i \in Ids :
             /\ th[t].bundle = c /\ th[t].id = i /\ Installed(c) = {i} /\ service_id[c] = i
             /\ srv[i].installed /\ srv[i] \in Srv
             /\ srv[i].p_iid <=> th[t].pc \in Told
             /\ c \in registered <=> th[t].pc \in Offered
  BY AtWork DEF Unregister, At
<1>1. PICK i \in Ids :
             /\ th[t].bundle = c /\ th[t].id = i /\ Installed(c) = {i} /\ service_id[c] = i
             /\ srv[i].installed /\ srv[i] \in Srv
             /\ srv[i].p_iid <=> th[t].pc \in Told
             /\ c \in registered <=> th[t].pc \in Offered
  BY <1>0
<1>2. th[t].pc = "unregister"
  BY DEF Unregister, At
<1>3. list[c] = {} /\ instance_counts[c] = 0
  BY <1>1, <1>2, AdminIn DEF Quiet
<1>4. Stays(t, "hashDel") /\ UNCHANGED <<srv, registered>>
  BY <1>1, <1>3, UnregisterDoes DEF Unregister, srvVars, headVars
<1>5. AdminMoves(t, "hashDel", i, c)
  BY <1>1, <1>2, <1>4, AdminMoving DEF StopSteps
<1>6. /\ srv'[i].p_iid <=> "hashDel" \in Told
      /\ c \in registered' <=> "hashDel" \in Offered
  BY <1>1, <1>2, <1>4 DEF Offered, Told
<1> QED BY <1>1, <1>4, <1>5, <1>6, WorkGoes

LEMMA StartCheckState ==
    ASSUME AnyUse, Services, Progress, RegistryMatchesState, NEW t \in Admins, Alone(t),
           NEW i \in Ids, StartCheck(t, i)
    PROVE  Progress' /\ RegistryMatchesState'
<1>1. PICK c \in Bundles : c = srv[i].mod /\ AdminMoves(t, "startMark", i, c)
  BY StartCheckDoes, AdminGoes
<1>2. /\ th[t].pc = "idle" /\ i \in Installed(c) /\ srv[i].state = "INSTALLED"
      /\ UNCHANGED <<srv, registered>>
  BY <1>1 DEF StartCheck, At, Installed, srvVars, headVars
<1>3. Matches(c)
  BY <1>2, OnlyOneWorks DEF RegistryMatchesState, Matches
<1>4. Elsewhere(c)
  BY <1>2 DEF Elsewhere, Installed
<1>5. /\ srv'[i].p_iid <=> "startMark" \in Told
      /\ c \in registered' <=> "startMark" \in Offered
  <2>1. \A j \in Installed(c) : j = i
    BY <1>2 DEF Services
  <2> QED BY <1>2, <1>3, <2>1 DEF Matches, Told, Offered
<1> QED BY <1>1, <1>2, <1>4, <1>5, ProgressStep

LEMMA StopCheckState ==
    ASSUME AnyUse, Services, Progress, RegistryMatchesState, NEW t \in Admins, Alone(t),
           NEW i \in Ids, StopCheck(t, i)
    PROVE  Progress' /\ RegistryMatchesState'
<1>1. PICK c \in Bundles : c = srv[i].mod /\ AdminMoves(t, "stopMark", i, c)
  BY StopCheckDoes, AdminGoes
<1>2. /\ th[t].pc = "idle" /\ i \in Installed(c) /\ srv[i].state = "ACTIVE"
      /\ UNCHANGED <<srv, registered>>
  BY <1>1 DEF StopCheck, At, Installed, srvVars, headVars
<1>3. Matches(c)
  BY <1>2, OnlyOneWorks DEF RegistryMatchesState, Matches
<1>4. Elsewhere(c)
  BY <1>2 DEF Elsewhere, Installed
<1>5. /\ srv'[i].p_iid <=> "stopMark" \in Told
      /\ c \in registered' <=> "stopMark" \in Offered
  BY <1>2, <1>3 DEF Matches, Told, Offered
<1> QED BY <1>1, <1>2, <1>4, <1>5, ProgressStep

LEMMA InstallState ==
    ASSUME "installOnce" \notin broken', AnyUse, Services, Progress, RegistryMatchesState,
           NEW t \in Admins, Alone(t), NEW b \in Bundles, Install(t, b)
    PROVE  Progress' /\ RegistryMatchesState'
<1>1. /\ th[t].pc = "idle" /\ Installed(b) = {} /\ UNCHANGED <<th, registered>>
  BY DEF Install, At, Breaks, Rule, headVars
<1>2. AdminMoves(t, "idle", th[t].id, th[t].bundle)
  BY <1>1, AdminIn, AdminHolds DEF AdminMoves, Moves
<1>3. Matches(b)
  BY <1>1, OnlyOneWorks DEF RegistryMatchesState, Matches
<1>4. Elsewhere(b) /\ Matches(b)'
  <2>1. CASE UNCHANGED srv
    BY <1>1, <1>3, <2>1 DEF Elsewhere, Installed, Matches
  <2>2. CASE global_id \in Ids /\ Serves(global_id, b, "INSTALLED", FALSE, TRUE)
    <3>1. ~srv[global_id].installed
      BY <2>2 DEF Services, Ids
    <3>2. \A d \in Bundles \ {b} : Installed(d)' = Installed(d) /\ global_id \notin Installed(d)
      BY <2>2, <3>1 DEF Serves, Installed
    <3>3. Installed(b)' = {global_id}
      BY <1>1, <2>2 DEF Serves, Installed
    <3>4. b \notin registered' /\ ~srv'[global_id].p_iid /\ srv'[global_id].state # "ACTIVE"
      BY <1>1, <1>3, <2>2 DEF Serves, Matches
    <3>5. Matches(b)'
      BY <3>3, <3>4 DEF Matches
    <3>6. \A d \in Bundles \ {b} : \A j \in Installed(d) : srv'[j] = srv[j]
      BY <2>2, <3>2 DEF Serves, Installed
    <3> QED BY <1>1, <3>2, <3>5, <3>6 DEF Elsewhere
  <2> QED BY <2>1, <2>2, InstallDoes
<1> QED BY <1>1, <1>2, <1>4, ProgressStep

LEMMA UninstallState ==
    ASSUME AnyUse, Services, Progress, RegistryMatchesState, NEW t \in Admins, Alone(t),
           NEW i \in Ids, Uninstall(t, i)
    PROVE  Progress' /\ RegistryMatchesState'
<1>1. PICK c \in Bundles : c = srv[i].mod /\ Serves(i, c, srv[i].state, srv[i].p_iid, FALSE)
  BY UninstallDoes
<1>2. /\ th[t].pc = "idle" /\ i \in Installed(c) /\ srv[i].state = "INSTALLED"
      /\ UNCHANGED <<th, registered>>
  BY <1>1 DEF Uninstall, At, Installed, headVars
<1>3. AdminMoves(t, "idle", th[t].id, th[t].bundle)
  BY <1>2, AdminIn, AdminHolds DEF AdminMoves, Moves
<1>4. Matches(c)
  BY <1>2, OnlyOneWorks DEF RegistryMatchesState, Matches
<1>5. \A j \in Installed(c) : j = i
  BY <1>2 DEF Services
<1>6. /\ \A j \in Ids \ {i} : srv'[j] = srv[j]
      /\ ~srv'[i].installed
  BY <1>1 DEF Serves
<1>7. Installed(c)' = {} /\ c \notin registered'
  BY <1>1, <1>2, <1>4, <1>5, <1>6 DEF Installed, Matches
<1>8. Matches(c)'
  BY <1>7 DEF Matches
<1>9. \A d \in Bundles \ {c} : Installed(d)' = Installed(d) /\ i \notin Installed(d) /\ Installed(d) \subseteq Ids
  BY <1>1, <1>6 DEF Installed
<1>10. Elsewhere(c)
  BY <1>2, <1>6, <1>9 DEF Elsewhere
<1> QED BY <1>2, <1>3, <1>8, <1>10, ProgressStep

\* All commands together.
LEMMA CommandState ==
    ASSUME "installOnce" \notin broken', AnyUse, Quiet, Services, Progress, RegistryMatchesState,
           NEW t \in Admins, Alone(t), Command(t)
    PROVE  Progress' /\ RegistryMatchesState'
BY InstallState, UninstallState, StartCheckState, StopCheckState, StartMarkState, RegisterFindState,
   RegisterAddState, IIDRegisterState, ActivateState, StopMarkState, UnregisterState, HashDelState,
   FreeHeadState, IIDUnregisterState, StoppedState DEF Command

\* At the start there is nothing to match.
LEMMA InitState == Init => Progress /\ RegistryMatchesState
BY ModBundleAssumption DEF Init, Progress, RegistryMatchesState, Installed, NoSrv, Idle, Threads

\* StateInv is inductive, relative to AnyUse and QuietStop.
LEMMA NextState ==
    ASSUME "oneAdmin" \notin broken', "installOnce" \notin broken',
           AnyUse, OneBusy, QuietStop, StateInv, [Next]_vars
    PROVE  StateInv'
<1>1. ASSUME StateInv, UNCHANGED <<srvVars, registered>>, \A s \in Admins : th'[s] = th[s],
             \A c : Doing(c, StartSteps \union StopSteps)' = Doing(c, StartSteps \union StopSteps)
      PROVE  Progress' /\ RegistryMatchesState'
  <2>1. \A c : Installed(c)' = Installed(c)
    BY <1>1 DEF Installed, srvVars
  <2>2. Progress'
    BY <1>1 DEF StateInv, Progress, srvVars
  <2>3. RegistryMatchesState'
    BY <1>1, <2>1 DEF StateInv, RegistryMatchesState, srvVars
  <2> QED BY <2>2, <2>3
<1>2. UNCHANGED vars => \A c : Doing(c, StartSteps \union StopSteps)' = Doing(c, StartSteps \union StopSteps)
  BY DEF vars, Doing
<1>3. UNCHANGED vars => UNCHANGED <<srvVars, registered>> /\ \A s \in Admins : th'[s] = th[s]
  BY DEF vars, headVars
<1>4. Services'
  BY NextServices DEF StateInv
<1> QED BY <1>1, <1>2, <1>3, <1>4, UseLeaves, CommandAlone, CommandState DEF Next, StateInv, QuietStop

\* The state of a bundle, the registry of create functions and the IID its
\* service was told go together: at each step of a start or a stop in the order
\* the code writes them, between commands as RegistryMatchesState says.
THEOREM StatesHold == Spec => [](Clean(Rules) => StateInv)
<1>1. Init => StateInv
  BY InitServices, InitState DEF StateInv
<1>2. ASSUME Clean({"oneDeletion"}) => AnyUse, Clean({"oneDeletion", "oneAdmin"}) => OneBusy,
             Clean(StopRules) => QuietStop, Clean(Rules) => StateInv, [Next]_vars, Clean(Rules)'
      PROVE  StateInv'
  <2>1. Clean(Rules)
    BY <1>2, CleanBefore
  <2>2. Clean(StopRules) /\ "oneAdmin" \notin broken' /\ "installOnce" \notin broken'
    BY <1>2, <2>1 DEF Clean, Rules, StopRules, UseRules
  <2> QED BY <1>2, <2>1, <2>2, StopRulesKept, NextState
<1>3. (Clean({"oneDeletion"}) => AnyUse) /\ (Clean({"oneDeletion", "oneAdmin"}) => OneBusy)
      /\ (Clean(StopRules) => QuietStop) /\ (Clean(Rules) => StateInv) /\ [Next]_vars
         => (Clean(Rules) => StateInv)'
  BY <1>2
<1> QED BY <1>1, <1>3, AnyUseHolds, CleanAdmins, QuietStopHolds, PTL DEF Spec

\* RegistryMatchesState: between commands a bundle is ACTIVE exactly when its
\* create function is registered and its service knows the IID.  So a bundle that
\* was stopped can be started again, and one whose start has failed has left
\* nothing behind.
THEOREM RegistryAlwaysMatches == Spec => [](Clean(Rules) => RegistryMatchesState)
<1>1. StateInv => RegistryMatchesState
  BY DEF StateInv
<1> QED BY <1>1, StatesHold, PTL
=============================================================================
