-------------------------- MODULE ServiceRegistry --------------------------
(***************************************************************************)
(* What the module framework promises to the users of mod_create_instance  *)
(* and mod_delete_instance, without lists, counters or threads: a module   *)
(* is offered between a start and a stop, instances come only from offered *)
(* modules, a handle is that of one instance at a time, and a module is    *)
(* withdrawn only when none of its instances is left.                      *)
(* ModBundle.tla is shown to implement this module.                        *)
(***************************************************************************)
CONSTANTS Bundles,   \* the modules that can be installed
          Handles    \* the addresses an instance may have

VARIABLES offered,   \* modules whose create function is registered
          insts      \* the live instances of each module

registryVars == <<offered, insts>>

Live == UNION {insts[b] : b \in Bundles}

Init ==
    /\ offered = {}
    /\ insts = [b \in Bundles |-> {}]

Offer(b) ==
    /\ b \notin offered
    /\ offered' = offered \union {b}
    /\ UNCHANGED insts

Withdraw(b) ==
    /\ b \in offered /\ insts[b] = {}
    /\ offered' = offered \ {b}
    /\ UNCHANGED insts

Create(b, h) ==
    /\ b \in offered /\ h \notin Live
    /\ insts' = [insts EXCEPT ![b] = @ \union {h}]
    /\ UNCHANGED offered

Delete(b, h) ==
    /\ h \in insts[b]
    /\ insts' = [insts EXCEPT ![b] = @ \ {h}]
    /\ UNCHANGED offered

Next ==
    \E b \in Bundles :
        Offer(b) \/ Withdraw(b) \/ \E h \in Handles : Create(b, h) \/ Delete(b, h)

Spec == Init /\ [][Next]_registryVars
=============================================================================
