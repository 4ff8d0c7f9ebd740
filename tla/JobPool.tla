------------------------------ MODULE JobPool ------------------------------
(***************************************************************************)
(* What thpool.h promises to the callers of thpool_add_work, with no       *)
(* mutex, semaphore or thread in sight: a job that was added is started    *)
(* exactly once, in the order of the additions, by one of at most          *)
(* MaxRunning threads, and once started it finishes.                       *)
(* ThreadPool.tla is shown to implement this module.                       *)
(***************************************************************************)
EXTENDS Integers, Sequences, FiniteSets

CONSTANTS Jobs,        \* every job a caller may ever add
          MaxRunning   \* the number of threads of the pool

VARIABLES pending,     \* jobs added and not started, oldest first
          running,     \* jobs some thread is executing
          finished     \* jobs whose function has returned

poolVars == <<pending, running, finished>>

Init ==
    /\ pending = <<>>
    /\ running = {}
    /\ finished = {}

Known == {pending[i] : i \in DOMAIN pending} \union running \union finished

Add(j) ==
    /\ j \notin Known
    /\ pending' = Append(pending, j)
    /\ UNCHANGED <<running, finished>>

Start ==
    /\ pending # <<>>
    /\ Cardinality(running) < MaxRunning
    /\ pending' = Tail(pending)
    /\ running' = running \union {Head(pending)}
    /\ UNCHANGED finished

Finish(j) ==
    /\ j \in running
    /\ running' = running \ {j}
    /\ finished' = finished \union {j}
    /\ UNCHANGED pending

Next ==
    \/ Start
    \/ \E j \in Jobs : Add(j) \/ Finish(j)

Fairness ==
    /\ WF_poolVars(Start)
    /\ \A j \in Jobs : WF_poolVars(Finish(j))

SafeSpec == Init /\ [][Next]_poolVars

Spec == SafeSpec /\ Fairness
=============================================================================
