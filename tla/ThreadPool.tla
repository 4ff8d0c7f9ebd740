---------------------------- MODULE ThreadPool ----------------------------
(***************************************************************************)
(* thpool.c: the thread pool mod_thread_pool_I starts and stops.           *)
(*                                                                         *)
(* A step is a region under one mutex, or one access of a volatile that is *)
(* made outside of a mutex.  The two regions that do more than one visible *)
(* thing are split: jobqueue_push and jobqueue_pull change the queue and   *)
(* then post the semaphore while they hold rwmutex, and thpool_wait reads  *)
(* the queue's length and then the number of working threads while it      *)
(* holds thcount_lock.                                                     *)
(*                                                                         *)
(* Workers are the pool's threads, Clients the threads that call           *)
(* thpool_wait; Owner is the client that runs bundle_stop, which waits and *)
(* then destroys.  The caller of thpool_add_work(j) is named j.            *)
(***************************************************************************)
EXTENDS Integers, Sequences, FiniteSets

CONSTANTS Workers, Clients, Owner, Jobs, Nobody

ASSUME ThreadPoolAssumption ==
    /\ IsFiniteSet(Workers)
    /\ Owner \in Clients
    /\ Workers \intersect (Clients \union Jobs) = {}
    /\ Nobody \notin Workers \union Clients \union Jobs

VARIABLES
    pool,         \* life of the thpool_ structure: none, starting, ready, destroying, freed
    keepalive,    \* threads_keepalive
    alive,        \* num_threads_alive
    working,      \* num_threads_working
    thcount,      \* holder of thcount_lock
    queue,        \* jobqueue: the jobs from front to rear; len is its length
    rwmutex,      \* holder of jobqueue.rwmutex
    has_jobs,     \* jobqueue.has_jobs->v, the binary semaphore
    wpc,          \* where each worker is in thread_do
    wjob,         \* job_p of each worker
    cpc,          \* where each client is in thpool_wait
    due,          \* history: what had been added when the client called thpool_wait
    submitted,    \* history: jobs added
    done          \* history: jobs whose function returned

threadVars == <<wpc, wjob>>
clientVars == <<cpc, due>>
jobVars    == <<queue, rwmutex, submitted, done>>
countVars  == <<alive, working, thcount>>
vars == <<pool, keepalive, has_jobs, countVars, jobVars, threadVars, clientVars>>

InPool == {"born", "loop", "bsem_wait", "blocked", "recheck", "count", "pull",
           "repost", "run", "uncount", "exiting"}
Counted == {"pull", "repost", "run", "uncount"}

Init ==
    /\ pool = "none"
    /\ keepalive = FALSE
    /\ alive = 0 /\ working = 0 /\ thcount = Nobody
    /\ queue = <<>> /\ rwmutex = Nobody /\ has_jobs = 0
    /\ wpc = [w \in Workers |-> "gone"]
    /\ wjob = [w \in Workers |-> Nobody]
    /\ cpc = [c \in Clients |-> "idle"]
    /\ due = [c \in Clients |-> {}]
    /\ submitted = {} /\ done = {}
-----------------------------------------------------------------------------
(* bsem: pthread_cond_signal wakes one blocked thread if there is one.  A    *)
(* woken thread takes the mutex again and re-reads v.                        *)

Blocked == {w \in Workers : wpc[w] = "blocked"}

OneOf(S) == IF S = {} THEN {{}} ELSE {{x} : x \in S}

\* bsem_post, by a thread whose own next place is pcs[t].
bsem_post(pcs) ==
    /\ has_jobs' = 1
    /\ \E woken \in OneOf(Blocked) :
          wpc' = [w \in Workers |-> IF w \in woken THEN "bsem_wait" ELSE pcs[w]]

Goto(w, place) == wpc' = [wpc EXCEPT ![w] = place]
-----------------------------------------------------------------------------
(* thpool_init: the globals, an empty queue, the threads, then spin until    *)
(* all of them have counted themselves.                                      *)

thpool_init ==
    /\ pool \in {"none", "freed"}
    /\ \A w \in Workers : wpc[w] = "gone"
    /\ pool' = "starting"
    /\ keepalive' = TRUE
    /\ alive' = 0 /\ working' = 0 /\ thcount' = Nobody
    /\ queue' = <<>> /\ rwmutex' = Nobody /\ has_jobs' = 0
    /\ wpc' = [w \in Workers |-> "born"]
    /\ UNCHANGED <<wjob, clientVars, submitted, done>>

InitReturns ==
    /\ pool = "starting"
    /\ alive = Cardinality(Workers)
    /\ pool' = "ready"
    /\ UNCHANGED <<keepalive, has_jobs, countVars, jobVars, threadVars, clientVars>>
-----------------------------------------------------------------------------
(* thpool_add_work: jobqueue_push, then bsem_post, both under rwmutex.       *)

jobqueue_push(j) ==
    /\ pool = "ready"
    /\ j \notin submitted
    /\ rwmutex = Nobody
    /\ rwmutex' = j
    /\ queue' = Append(queue, j)
    /\ submitted' = submitted \union {j}
    /\ UNCHANGED <<pool, keepalive, has_jobs, countVars, threadVars, clientVars, done>>

PushPost(j) ==
    /\ rwmutex = j
    /\ bsem_post(wpc)
    /\ rwmutex' = Nobody
    /\ UNCHANGED <<pool, keepalive, countVars, queue, submitted, done, wjob, clientVars>>
-----------------------------------------------------------------------------
(* Faulty variants of the operations below, each a slip that the code could  *)
(* contain; Next uses none of them.  They show that the properties notice.   *)

\* jobqueue_pull without the second bsem_post.
Faulty_PullNoRepost(w) ==
    /\ wpc[w] = "pull" /\ rwmutex = Nobody /\ queue # <<>>
    /\ wjob' = [wjob EXCEPT ![w] = Head(queue)]
    /\ queue' = Tail(queue)
    /\ Goto(w, "run")
    /\ UNCHANGED <<pool, keepalive, has_jobs, countVars, rwmutex, submitted, done, clientVars>>

\* jobqueue_pull that forgets to advance front when it is not the last job.
Faulty_PullPeeks(w) ==
    /\ wpc[w] = "pull" /\ rwmutex = Nobody /\ queue # <<>>
    /\ wjob' = [wjob EXCEPT ![w] = Head(queue)]
    /\ queue' = IF Len(queue) > 1 THEN queue ELSE <<>>
    /\ IF Len(queue) > 1
       THEN Goto(w, "repost") /\ rwmutex' = w
       ELSE Goto(w, "run") /\ UNCHANGED rwmutex
    /\ UNCHANGED <<pool, keepalive, has_jobs, countVars, submitted, done, clientVars>>

\* No signal on threads_all_idle.
Faulty_EndWorkSilent(w) ==
    /\ wpc[w] = "uncount" /\ thcount = Nobody
    /\ working' = working - 1
    /\ Goto(w, "loop")
    /\ UNCHANGED <<pool, keepalive, has_jobs, alive, thcount, jobVars, wjob, clientVars>>

\* thpool_wait that looks at the working threads and not at the queue.
Faulty_WaitSkipsLen(c) ==
    /\ cpc[c] = "lock" /\ thcount = Nobody
    /\ cpc' = [cpc EXCEPT ![c] = "testWorking"] /\ thcount' = c
    /\ UNCHANGED <<pool, keepalive, has_jobs, alive, working, jobVars, threadVars, due>>

\* bundle_stop that destroys without thpool_wait.
Faulty_DestroyAtOnce ==
    /\ pool = "ready"
    /\ \A c \in Clients : cpc[c] = "idle"
    /\ pool' = "destroying"
    /\ keepalive' = FALSE
    /\ UNCHANGED <<has_jobs, countVars, jobVars, threadVars, clientVars>>

\* thpool_destroy that leaves threads_keepalive set.
Faulty_DestroyKeepsAlive ==
    /\ pool = "ready"
    /\ cpc[Owner] = "returned" /\ submitted = due[Owner]
    /\ \A c \in Clients \ {Owner} : cpc[c] = "idle"
    /\ pool' = "destroying"
    /\ cpc' = [cpc EXCEPT ![Owner] = "idle"]
    /\ UNCHANGED <<keepalive, has_jobs, countVars, jobVars, threadVars, due>>
-----------------------------------------------------------------------------
(* thread_do *)

ThreadAlive(w) ==
    /\ wpc[w] = "born" /\ thcount = Nobody
    /\ alive' = alive + 1
    /\ Goto(w, "loop")
    /\ UNCHANGED <<pool, keepalive, has_jobs, working, thcount, jobVars, wjob, clientVars>>

LoopTest(w) ==
    /\ wpc[w] = "loop"
    /\ Goto(w, IF keepalive THEN "bsem_wait" ELSE "exiting")
    /\ UNCHANGED <<pool, keepalive, has_jobs, countVars, jobVars, wjob, clientVars>>

bsem_wait(w) ==
    /\ wpc[w] = "bsem_wait"
    /\ IF has_jobs = 1 THEN Goto(w, "recheck") ELSE Goto(w, "blocked")
    /\ has_jobs' = 0
    /\ UNCHANGED <<pool, keepalive, countVars, jobVars, wjob, clientVars>>

SpuriousWake(w) ==
    /\ wpc[w] = "blocked"
    /\ Goto(w, "bsem_wait")
    /\ UNCHANGED <<pool, keepalive, has_jobs, countVars, jobVars, wjob, clientVars>>

Recheck(w) ==
    /\ wpc[w] = "recheck"
    /\ Goto(w, IF keepalive THEN "count" ELSE "loop")
    /\ UNCHANGED <<pool, keepalive, has_jobs, countVars, jobVars, wjob, clientVars>>

BeginWork(w) ==
    /\ wpc[w] = "count" /\ thcount = Nobody
    /\ working' = working + 1
    /\ Goto(w, "pull")
    /\ UNCHANGED <<pool, keepalive, has_jobs, alive, thcount, jobVars, wjob, clientVars>>

PullNothing(w) ==
    /\ wpc[w] = "pull" /\ rwmutex = Nobody /\ queue = <<>>
    /\ Goto(w, "uncount")
    /\ UNCHANGED <<pool, keepalive, has_jobs, countVars, jobVars, wjob, clientVars>>

jobqueue_pull(w) ==
    /\ wpc[w] = "pull" /\ rwmutex = Nobody /\ queue # <<>>
    /\ wjob' = [wjob EXCEPT ![w] = Head(queue)]
    /\ queue' = Tail(queue)
    /\ IF Len(queue) > 1
       THEN Goto(w, "repost") /\ rwmutex' = w
       ELSE Goto(w, "run") /\ UNCHANGED rwmutex
    /\ UNCHANGED <<pool, keepalive, has_jobs, countVars, submitted, done, clientVars>>

Repost(w) ==
    /\ wpc[w] = "repost"
    /\ bsem_post([wpc EXCEPT ![w] = "run"])
    /\ rwmutex' = Nobody
    /\ UNCHANGED <<pool, keepalive, countVars, queue, submitted, done, wjob, clientVars>>

RunJob(w) ==
    /\ wpc[w] = "run"
    /\ done' = done \union {wjob[w]}
    /\ wjob' = [wjob EXCEPT ![w] = Nobody]
    /\ Goto(w, "uncount")
    /\ UNCHANGED <<pool, keepalive, has_jobs, countVars, queue, rwmutex, submitted, clientVars>>

\* The last working thread signals threads_all_idle: one waiting client wakes.
EndWork(w) ==
    /\ wpc[w] = "uncount" /\ thcount = Nobody
    /\ working' = working - 1
    /\ Goto(w, "loop")
    /\ \E woken \in IF working = 1 THEN OneOf({c \in Clients : cpc[c] = "asleep"}) ELSE {{}} :
          cpc' = [c \in Clients |-> IF c \in woken THEN "lock" ELSE cpc[c]]
    /\ UNCHANGED <<pool, keepalive, has_jobs, alive, thcount, jobVars, wjob, due>>

Exit(w) ==
    /\ wpc[w] = "exiting" /\ thcount = Nobody
    /\ alive' = alive - 1
    /\ thcount' = w
    /\ Goto(w, "unlocking")
    /\ UNCHANGED <<pool, keepalive, has_jobs, working, jobVars, wjob, clientVars>>

ExitUnlock(w) ==
    /\ wpc[w] = "unlocking"
    /\ thcount' = Nobody
    /\ Goto(w, "gone")
    /\ UNCHANGED <<pool, keepalive, has_jobs, alive, working, jobVars, wjob, clientVars>>

Worker(w) ==
    \/ ThreadAlive(w) \/ LoopTest(w) \/ bsem_wait(w) \/ Recheck(w) \/ BeginWork(w)
    \/ PullNothing(w) \/ jobqueue_pull(w) \/ Repost(w) \/ RunJob(w) \/ EndWork(w)
    \/ Exit(w) \/ ExitUnlock(w)
-----------------------------------------------------------------------------
(* thpool_wait *)

WaitEnter(c) ==
    /\ cpc[c] = "idle" /\ pool = "ready"
    /\ cpc' = [cpc EXCEPT ![c] = "lock"]
    /\ due' = [due EXCEPT ![c] = submitted]
    /\ UNCHANGED <<pool, keepalive, has_jobs, countVars, jobVars, threadVars>>

\* The length is read without rwmutex; pthread_cond_wait gives thcount_lock back.
WaitTestLen(c) ==
    /\ cpc[c] = "lock" /\ thcount = Nobody
    /\ IF queue # <<>>
       THEN cpc' = [cpc EXCEPT ![c] = "asleep"] /\ UNCHANGED thcount
       ELSE cpc' = [cpc EXCEPT ![c] = "testWorking"] /\ thcount' = c
    /\ UNCHANGED <<pool, keepalive, has_jobs, alive, working, jobVars, threadVars, due>>

WaitTestWorking(c) ==
    /\ cpc[c] = "testWorking"
    /\ cpc' = [cpc EXCEPT ![c] = IF working # 0 THEN "asleep" ELSE "returned"]
    /\ thcount' = Nobody
    /\ UNCHANGED <<pool, keepalive, has_jobs, alive, working, jobVars, threadVars, due>>

SpuriousIdleWake(c) ==
    /\ cpc[c] = "asleep"
    /\ cpc' = [cpc EXCEPT ![c] = "lock"]
    /\ UNCHANGED <<pool, keepalive, has_jobs, countVars, jobVars, threadVars, due>>

WaitDone(c) ==
    /\ cpc[c] = "returned"
    /\ cpc' = [cpc EXCEPT ![c] = "idle"]
    /\ UNCHANGED <<pool, keepalive, has_jobs, countVars, jobVars, threadVars, due>>

-----------------------------------------------------------------------------
(* thpool_destroy, as bundle_stop calls it: right after thpool_wait, when no *)
(* instance is left through which a job could be added, and with no other    *)
(* call of the API in progress.                                              *)

BeginDestroy ==
    /\ pool = "ready"
    /\ cpc[Owner] = "returned" /\ submitted = due[Owner]
    /\ \A c \in Clients \ {Owner} : cpc[c] = "idle"
    /\ pool' = "destroying"
    /\ keepalive' = FALSE
    /\ cpc' = [cpc EXCEPT ![Owner] = "idle"]
    /\ UNCHANGED <<has_jobs, countVars, jobVars, threadVars, due>>

bsem_post_all ==
    /\ pool = "destroying" /\ alive # 0
    /\ has_jobs' = 1
    /\ wpc' = [w \in Workers |-> IF wpc[w] = "blocked" THEN "bsem_wait" ELSE wpc[w]]
    /\ UNCHANGED <<pool, keepalive, countVars, jobVars, wjob, clientVars>>

\* jobqueue_destroy drops what is left in the queue, then the memory goes.
DestroyFree ==
    /\ pool = "destroying" /\ alive = 0
    /\ pool' = "freed"
    /\ queue' = <<>> /\ has_jobs' = 0
    /\ UNCHANGED <<keepalive, countVars, rwmutex, submitted, done, threadVars, clientVars>>
-----------------------------------------------------------------------------
Next ==
    \/ thpool_init \/ InitReturns \/ BeginDestroy \/ bsem_post_all \/ DestroyFree
    \/ \E j \in Jobs : jobqueue_push(j) \/ PushPost(j)
    \/ \E w \in Workers : Worker(w) \/ SpuriousWake(w)
    \/ \E c \in Clients : WaitEnter(c) \/ WaitTestLen(c) \/ WaitTestWorking(c) \/ SpuriousIdleWake(c) \/ WaitDone(c)

\* Threads that can run do run, and a thread that keeps finding thcount_lock
\* free gets it in the end; nobody is obliged to add a job, to wait or to
\* destroy, and no spurious wakeup is relied on.
TakesCountLock(w) == ThreadAlive(w) \/ BeginWork(w) \/ EndWork(w) \/ Exit(w)

Fairness ==
    /\ \A w \in Workers : WF_vars(Worker(w)) /\ SF_vars(TakesCountLock(w))
    /\ \A j \in Jobs : WF_vars(PushPost(j))
    /\ \A c \in Clients : WF_vars(WaitTestWorking(c)) /\ SF_vars(WaitTestLen(c))
    /\ WF_vars(bsem_post_all) /\ WF_vars(DestroyFree)

SafeSpec == Init /\ [][Next]_vars

Spec == SafeSpec /\ Fairness
-----------------------------------------------------------------------------
TypeOK ==
    /\ pool \in {"none", "starting", "ready", "destroying", "freed"}
    /\ keepalive \in BOOLEAN
    /\ alive \in 0 .. Cardinality(Workers) /\ working \in 0 .. Cardinality(Workers)
    /\ thcount \in Workers \union Clients \union {Nobody}
    /\ queue \in Seq(Jobs) /\ rwmutex \in Workers \union Jobs \union {Nobody}
    /\ has_jobs \in {0, 1}
    /\ wpc \in [Workers -> InPool \union {"unlocking", "gone"}]
    /\ wjob \in [Workers -> Jobs \union {Nobody}]
    /\ cpc \in [Clients -> {"idle", "lock", "testWorking", "asleep", "returned"}]
    /\ due \in [Clients -> SUBSET Jobs]
    /\ submitted \in SUBSET Jobs /\ done \in SUBSET Jobs

\* The binary semaphore counts at most one post, however many jobs are queued.
\* Still, while jobs are queued and no push or pull is half done, some worker
\* is on its way to the queue, or the semaphore is up and a worker is awake to
\* take it: jobqueue_pull posts again when it leaves jobs behind.
OnItsWay == {w \in Workers : wpc[w] \in {"recheck", "count", "pull"}}
Awake == {w \in Workers : wpc[w] \notin {"blocked", "gone", "unlocking"}}

NoStrandedJob ==
    pool = "ready" /\ queue # <<>> /\ rwmutex = Nobody /\ Workers # {} =>
        OnItsWay # {} \/ (has_jobs = 1 /\ Awake # {})

\* thpool_wait returns only when every job added before the call has run: a
\* worker counts itself as working before it takes a job off the queue, and
\* the client reads the queue's length before that count.
WaitCoversDue == \A c \in Clients : cpc[c] = "returned" => due[c] \subseteq done

\* bundle_stop never drops a job: once the pool is being destroyed every job
\* ever added has run, so jobqueue_destroy finds an empty queue.
StopLosesNothing == pool \in {"destroying", "freed"} => submitted = done /\ queue = <<>>

\* thpool.h: thpool_wait's caller continues once the work is done.
WaitReturns == \A c \in Clients : cpc[c] = "lock" ~> cpc[c] = "returned"

\* thpool_destroy terminates: each worker that sleeps on the semaphore is woken
\* and leaves, although one post only lets one worker through.
DestroyEnds == pool = "destroying" ~> pool = "freed"

\* The memory of the pool is not given back while a worker still uses it.
FreedMeansGone == pool = "freed" => \A w \in Workers : wpc[w] = "gone"

\* Exactly-once, in order, and eventually: see JobPool.
Abstract == INSTANCE JobPool WITH
    MaxRunning <- Cardinality(Workers),
    pending <- queue,
    running <- {wjob[w] : w \in Workers} \ {Nobody},
    finished <- done
ImplementsJobPool == Abstract!Spec
=============================================================================
