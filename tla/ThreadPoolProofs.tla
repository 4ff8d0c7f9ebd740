------------------------- MODULE ThreadPoolProofs -------------------------
(***************************************************************************)
(* Theorems about ThreadPool, for any finite number of workers and any     *)
(* sets of clients and jobs.                                               *)
(***************************************************************************)
EXTENDS ThreadPool, FiniteSetTheorems, SequenceTheorems, TLAPS

Started == InPool \ {"born"}

WorkersAt(places) == {w \in Workers : wpc[w] \in places}

Queued == {queue[i] : i \in 1 .. Len(queue)}
Held   == {wjob[w] : w \in Workers} \ {Nobody}

\* The two counters that thcount_lock protects count threads.
CountsMatch ==
    /\ working = Cardinality(WorkersAt(Counted))
    /\ alive = Cardinality(WorkersAt(Started))

\* A job that was added is in one place: in the queue, with a worker, or done.
JobsMatch ==
    /\ \A w \in Workers : wjob[w] # Nobody <=> wpc[w] \in {"repost", "run"}
    /\ submitted = Queued \union Held \union done
    /\ Queued \intersect (Held \union done) = {}
    /\ Held \intersect done = {}
    /\ \A i, k \in 1 .. Len(queue) : queue[i] = queue[k] => i = k
    /\ \A v, w \in Workers : wjob[v] = wjob[w] /\ wjob[v] # Nobody => v = w

\* What the life of the pool says of its threads, its queue and its clients.
PoolPhase ==
    /\ pool \in {"starting", "ready"} =>
          keepalive /\ WorkersAt({"exiting", "unlocking", "gone"}) = {}
    /\ pool = "ready" => WorkersAt({"born"}) = {}
    /\ pool \in {"none", "starting"} => queue = <<>>
    /\ \A c \in Clients : cpc[c] # "idle" => pool = "ready"

\* A client that found the queue empty only has to wait for jobs being run.
DueMatch ==
    /\ \A c \in Clients : due[c] \subseteq submitted
    /\ \A c \in Clients : cpc[c] = "testWorking" => due[c] \intersect Queued = {}

IInv ==
    /\ TypeOK /\ CountsMatch /\ JobsMatch /\ PoolPhase /\ DueMatch
    /\ NoStrandedJob /\ WaitCoversDue /\ StopLosesNothing
-----------------------------------------------------------------------------
(* Facts about counting workers *)

\* Cardinalities of sets of workers are numbers that the pool's size bounds.
LEMMA CountBound ==
    ASSUME NEW S \in SUBSET Workers
    PROVE  IsFiniteSet(S) /\ Cardinality(S) \in 0 .. Cardinality(Workers)
<1>1. IsFiniteSet(Workers)
  BY ThreadPoolAssumption
<1>2. IsFiniteSet(S) /\ Cardinality(S) <= Cardinality(Workers)
  BY <1>1, FS_Subset
<1>3. Cardinality(S) \in Nat /\ Cardinality(Workers) \in Nat
  BY <1>1, <1>2, FS_CardinalityType
<1>. QED
  BY <1>2, <1>3

\* A worker that goes to a place of the set is one more there, ...
LEMMA CountEnter ==
    ASSUME NEW places, NEW place \in places, NEW w \in Workers, Goto(w, place),
           wpc \in [Workers -> InPool \union {"unlocking", "gone"}], wpc[w] \notin places
    PROVE  Cardinality(WorkersAt(places))' = Cardinality(WorkersAt(places)) + 1
<1>1. WorkersAt(places)' = WorkersAt(places) \union {w}
  BY DEF WorkersAt, Goto
<1>2. w \notin WorkersAt(places) /\ WorkersAt(places) \in SUBSET Workers
  BY DEF WorkersAt
<1>3. IsFiniteSet(WorkersAt(places))
  BY <1>2, CountBound
<1>. QED
  BY <1>1, <1>2, <1>3, FS_AddElement

\* ... and one less when it leaves.
LEMMA CountLeave ==
    ASSUME NEW places, NEW place, place \notin places, NEW w \in Workers, Goto(w, place),
           wpc \in [Workers -> InPool \union {"unlocking", "gone"}], wpc[w] \in places
    PROVE  Cardinality(WorkersAt(places))' = Cardinality(WorkersAt(places)) - 1
<1>1. WorkersAt(places)' = WorkersAt(places) \ {w}
  BY DEF WorkersAt, Goto
<1>2. w \in WorkersAt(places) /\ WorkersAt(places) \in SUBSET Workers
  BY DEF WorkersAt
<1>3. IsFiniteSet(WorkersAt(places))
  BY <1>2, CountBound
<1>. QED
  BY <1>1, <1>2, <1>3, FS_RemoveElement
\* A step within a set of places, or outside of it, does not change who is there.
LEMMA CountSame ==
    ASSUME NEW places, \A w \in Workers : wpc[w] \in places <=> wpc'[w] \in places
    PROVE  WorkersAt(places)' = WorkersAt(places)
BY DEF WorkersAt
-----------------------------------------------------------------------------
(* Facts about the queue *)

\* Adding at the rear adds one element, and keeps a queue without repetition so.
LEMMA QueueAppend ==
    ASSUME NEW j \in Jobs, queue \in Seq(Jobs), queue' = Append(queue, j)
    PROVE  /\ queue' \in Seq(Jobs) /\ queue' # <<>>
           /\ Queued' = Queued \union {j}
           /\ (\A i, k \in 1 .. Len(queue) : queue[i] = queue[k] => i = k) /\ j \notin Queued =>
                 \A i, k \in 1 .. Len(queue') : queue'[i] = queue'[k] => i = k
<1>1. /\ queue' \in Seq(Jobs) /\ queue' # <<>>
      /\ Len(queue') = Len(queue) + 1
      /\ \A i \in 1 .. Len(queue) : queue'[i] = queue[i]
      /\ queue'[Len(queue) + 1] = j
  BY AppendProperties
<1>2. Len(queue) \in Nat
  BY LenProperties
<1>3. 1 .. Len(queue') = (1 .. Len(queue)) \union {Len(queue) + 1}
  BY <1>1, <1>2
<1>4. Queued' = Queued \union {j}
  BY <1>1, <1>2, <1>3 DEF Queued
<1>5. ASSUME \A i, k \in 1 .. Len(queue) : queue[i] = queue[k] => i = k, j \notin Queued,
             NEW i \in 1 .. Len(queue'), NEW k \in 1 .. Len(queue'), queue'[i] = queue'[k]
      PROVE  i = k
  BY <1>1, <1>2, <1>3, <1>5 DEF Queued
<1>. QED
  BY <1>1, <1>4, <1>5

\* Taking the front off a queue without repetition takes exactly that job off.
LEMMA QueueTail ==
    ASSUME queue \in Seq(Jobs), queue # <<>>, queue' = Tail(queue),
           \A i, k \in 1 .. Len(queue) : queue[i] = queue[k] => i = k
    PROVE  /\ queue' \in Seq(Jobs) /\ Len(queue') = Len(queue) - 1
           /\ Head(queue) \in Jobs
           /\ Queued = Queued' \union {Head(queue)} /\ Head(queue) \notin Queued'
           /\ \A i, k \in 1 .. Len(queue') : queue'[i] = queue'[k] => i = k
<1>1. /\ queue' \in Seq(Jobs) /\ Head(queue) \in Jobs
      /\ Len(queue') = Len(queue) - 1
      /\ \A i \in 1 .. Len(queue') : queue'[i] = queue[i + 1]
  BY HeadTailProperties
<1>2. Len(queue) \in Nat \ {0}
  BY EmptySeq
<1>3. Head(queue) = queue[1]
  OBVIOUS
<1>4. \A i \in 1 .. Len(queue) : i = 1 \/ (i - 1 \in 1 .. Len(queue') /\ queue'[i - 1] = queue[i])
  BY <1>1, <1>2
<1>5. Queued \subseteq Queued' \union {Head(queue)}
  <2>1. ASSUME NEW i \in 1 .. Len(queue)
        PROVE  queue[i] \in Queued' \union {Head(queue)}
    BY <1>3, <1>4 DEF Queued
  <2>. QED
    BY <2>1 DEF Queued
<1>6. Queued' \union {Head(queue)} \subseteq Queued
  BY <1>1, <1>2, <1>3 DEF Queued
<1>7. Head(queue) \notin Queued'
  BY <1>1, <1>2, <1>3 DEF Queued
<1>8. ASSUME NEW i \in 1 .. Len(queue'), NEW k \in 1 .. Len(queue'), queue'[i] = queue'[k]
      PROVE  i = k
  BY <1>1, <1>2, <1>8
<1>. QED
  BY <1>1, <1>5, <1>6, <1>7, <1>8

LEMMA QueuedEmpty ==
    ASSUME queue \in Seq(Jobs)
    PROVE  Queued = {} <=> queue = <<>>
BY EmptySeq, LenProperties DEF Queued
-----------------------------------------------------------------------------
(* The initial state *)

LEMMA InitInv == Init => IInv
<1>. SUFFICES ASSUME Init PROVE IInv
  OBVIOUS
<1>1. WorkersAt(Counted) = {} /\ WorkersAt(Started) = {}
  BY DEF Init, WorkersAt, Counted, Started, InPool
<1>2. CountsMatch
  BY <1>1, FS_EmptySet DEF Init, CountsMatch
<1>3. TypeOK
  <2>1. Cardinality(Workers) \in Nat
    BY ThreadPoolAssumption, FS_CardinalityType
  <2>2. 0 \in 0 .. Cardinality(Workers) /\ <<>> \in Seq(Jobs)
    BY <2>1, EmptySeq
  <2>3. /\ wpc \in [Workers -> InPool \union {"unlocking", "gone"}]
        /\ wjob \in [Workers -> Jobs \union {Nobody}]
        /\ cpc \in [Clients -> {"idle", "lock", "testWorking", "asleep", "returned"}]
        /\ due \in [Clients -> SUBSET Jobs]
    BY DEF Init
  <2>. QED
    BY <2>2, <2>3 DEF Init, TypeOK
<1>4. Queued = {} /\ Held = {}
  BY EmptySeq DEF Init, Queued, Held
<1>5. JobsMatch
  BY <1>4, EmptySeq DEF Init, JobsMatch
<1>6. PoolPhase /\ DueMatch
  BY <1>4 DEF Init, PoolPhase, DueMatch
<1>7. NoStrandedJob /\ WaitCoversDue /\ StopLosesNothing
  BY DEF Init, NoStrandedJob, WaitCoversDue, StopLosesNothing
<1>. QED
  BY <1>2, <1>3, <1>5, <1>6, <1>7 DEF IInv
-----------------------------------------------------------------------------
(* The counters: only a worker changes one, when it enters or leaves a place *)
(* where that counter counts it.                                             *)

LEMMA CountsStep == IInv /\ [Next]_vars => CountsMatch'
<1>. SUFFICES ASSUME IInv, [Next]_vars PROVE CountsMatch'
  OBVIOUS
<1>. USE DEF IInv, TypeOK, CountsMatch, countVars, threadVars, clientVars, jobVars
<1>1. CASE thpool_init
  <2>1. WorkersAt(Counted)' = {} /\ WorkersAt(Started)' = {}
    BY <1>1 DEF thpool_init, WorkersAt, Counted, Started, InPool
  <2>. QED
    BY <1>1, <2>1, FS_EmptySet DEF thpool_init
<1>2. ASSUME UNCHANGED <<alive, working, wpc>>
      PROVE  CountsMatch'
  BY <1>2 DEF WorkersAt
\* A step within the counted places, or within those that are not.
<1>3. ASSUME UNCHANGED <<alive, working>>, wpc' \in [Workers -> InPool \union {"unlocking", "gone"}],
             \A w \in Workers : /\ wpc[w] \in Counted <=> wpc'[w] \in Counted
                                /\ wpc[w] \in Started <=> wpc'[w] \in Started
      PROVE  CountsMatch'
  <2>1. WorkersAt(Counted)' = WorkersAt(Counted)
    BY <1>3, CountSame
  <2>2. WorkersAt(Started)' = WorkersAt(Started)
    BY <1>3, CountSame
  <2>. QED
    BY <1>3, <2>1, <2>2
<1>4. ASSUME NEW w \in Workers, ThreadAlive(w)
      PROVE  CountsMatch'
  <2>1. Cardinality(WorkersAt(Started))' = Cardinality(WorkersAt(Started)) + 1
    BY <1>4, CountEnter DEF ThreadAlive, Started, InPool
  <2>2. WorkersAt(Counted)' = WorkersAt(Counted)
    BY <1>4 DEF ThreadAlive, Goto, WorkersAt, Counted
  <2>. QED
    BY <1>4, <2>1, <2>2 DEF ThreadAlive
<1>5. ASSUME NEW w \in Workers, Exit(w)
      PROVE  CountsMatch'
  <2>1. Cardinality(WorkersAt(Started))' = Cardinality(WorkersAt(Started)) - 1
    BY <1>5, CountLeave DEF Exit, Started, InPool
  <2>2. WorkersAt(Counted)' = WorkersAt(Counted)
    BY <1>5 DEF Exit, Goto, WorkersAt, Counted
  <2>. QED
    BY <1>5, <2>1, <2>2 DEF Exit
<1>6. ASSUME NEW w \in Workers, BeginWork(w)
      PROVE  CountsMatch'
  <2>1. Cardinality(WorkersAt(Counted))' = Cardinality(WorkersAt(Counted)) + 1
    BY <1>6, CountEnter DEF BeginWork, Counted
  <2>2. WorkersAt(Started)' = WorkersAt(Started)
    BY <1>6 DEF BeginWork, Goto, WorkersAt, Started, InPool
  <2>. QED
    BY <1>6, <2>1, <2>2 DEF BeginWork
<1>7. ASSUME NEW w \in Workers, EndWork(w)
      PROVE  CountsMatch'
  <2>1. Cardinality(WorkersAt(Counted))' = Cardinality(WorkersAt(Counted)) - 1
    BY <1>7, CountLeave DEF EndWork, Counted
  <2>2. WorkersAt(Started)' = WorkersAt(Started)
    BY <1>7 DEF EndWork, Goto, WorkersAt, Started, InPool
  <2>. QED
    BY <1>7, <2>1, <2>2 DEF EndWork
<1>8. ASSUME NEW w \in Workers,
             LoopTest(w) \/ bsem_wait(w) \/ SpuriousWake(w) \/ Recheck(w) \/ PullNothing(w)
               \/ jobqueue_pull(w) \/ RunJob(w) \/ ExitUnlock(w)
      PROVE  CountsMatch'
  BY <1>3, <1>8 DEF LoopTest, bsem_wait, SpuriousWake, Recheck, PullNothing, jobqueue_pull,
       RunJob, ExitUnlock, Goto, Counted, Started, InPool
<1>9. ASSUME NEW w \in Workers, Repost(w)
      PROVE  CountsMatch'
  BY <1>3, <1>9 DEF Repost, bsem_post, OneOf, Blocked, Counted, Started, InPool
<1>10. ASSUME NEW j \in Jobs, jobqueue_push(j) \/ PushPost(j)
       PROVE  CountsMatch'
  BY <1>2, <1>3, <1>10 DEF jobqueue_push, PushPost, bsem_post, OneOf, Blocked, Counted, Started, InPool
<1>11. ASSUME NEW c \in Clients,
              WaitEnter(c) \/ WaitTestLen(c) \/ WaitTestWorking(c) \/ SpuriousIdleWake(c) \/ WaitDone(c)
       PROVE  CountsMatch'
  BY <1>2, <1>11 DEF WaitEnter, WaitTestLen, WaitTestWorking, SpuriousIdleWake, WaitDone
<1>12. CASE bsem_post_all
  BY <1>3, <1>12 DEF bsem_post_all, Counted, Started, InPool
<1>13. CASE InitReturns \/ BeginDestroy \/ DestroyFree
  BY <1>2, <1>13 DEF InitReturns, BeginDestroy, DestroyFree
<1>14. CASE UNCHANGED vars
  BY <1>2, <1>14 DEF vars
<1>. QED
  BY <1>1, <1>4, <1>5, <1>6, <1>7, <1>8, <1>9, <1>10, <1>11, <1>12, <1>13, <1>14 DEF Next, Worker
-----------------------------------------------------------------------------
(* The type invariant: the bounds of the counters come from what they count. *)

LEMMA TypeStep == IInv /\ [Next]_vars => TypeOK'
<1>. SUFFICES ASSUME IInv, [Next]_vars PROVE TypeOK'
  OBVIOUS
<1>. USE DEF IInv, TypeOK, countVars, threadVars, clientVars, jobVars
<1>1. alive' \in 0 .. Cardinality(Workers) /\ working' \in 0 .. Cardinality(Workers)
  <2>1. working' = Cardinality(WorkersAt(Counted)') /\ alive' = Cardinality(WorkersAt(Started)')
    BY CountsStep DEF CountsMatch
  <2>2. WorkersAt(Counted)' \in SUBSET Workers /\ WorkersAt(Started)' \in SUBSET Workers
    BY DEF WorkersAt
  <2>. QED
    BY <2>1, <2>2, CountBound
<1>2. CASE thpool_init
  BY <1>1, <1>2, EmptySeq DEF thpool_init, InPool
<1>12. CASE InitReturns \/ BeginDestroy
  BY <1>1, <1>12, ThreadPoolAssumption DEF InitReturns, BeginDestroy
<1>13. CASE bsem_post_all
  BY <1>1, <1>13 DEF bsem_post_all, InPool
<1>14. CASE DestroyFree
  BY <1>1, <1>14, EmptySeq DEF DestroyFree
<1>3. ASSUME NEW j \in Jobs, jobqueue_push(j)
      PROVE  TypeOK'
  BY <1>1, <1>3, AppendProperties DEF jobqueue_push
<1>4. ASSUME NEW j \in Jobs, PushPost(j)
      PROVE  TypeOK'
  BY <1>1, <1>4 DEF PushPost, bsem_post, OneOf, Blocked, InPool
<1>5. ASSUME NEW w \in Workers, jobqueue_pull(w)
      PROVE  TypeOK'
  BY <1>1, <1>5, HeadTailProperties DEF jobqueue_pull, Goto, InPool
<1>6. ASSUME NEW w \in Workers, Repost(w)
      PROVE  TypeOK'
  BY <1>1, <1>6 DEF Repost, bsem_post, OneOf, Blocked, InPool
<1>7. ASSUME NEW w \in Workers, EndWork(w)
      PROVE  TypeOK'
  BY <1>1, <1>7 DEF EndWork, Goto, OneOf, InPool
<1>8. ASSUME NEW w \in Workers, RunJob(w)
      PROVE  TypeOK'
  <2>1. done' \in SUBSET Jobs
    BY <1>8 DEF IInv, JobsMatch, RunJob
  <2>. QED
    BY <1>1, <1>8, <2>1 DEF RunJob, Goto, InPool
<1>9. ASSUME NEW w \in Workers,
             ThreadAlive(w) \/ LoopTest(w) \/ bsem_wait(w) \/ SpuriousWake(w) \/ Recheck(w)
               \/ BeginWork(w) \/ PullNothing(w) \/ Exit(w) \/ ExitUnlock(w)
      PROVE  TypeOK'
  BY <1>1, <1>9 DEF ThreadAlive, LoopTest, bsem_wait, SpuriousWake, Recheck, BeginWork,
       PullNothing, Exit, ExitUnlock, Goto, InPool
<1>10. ASSUME NEW c \in Clients,
              WaitEnter(c) \/ WaitTestLen(c) \/ WaitTestWorking(c) \/ SpuriousIdleWake(c) \/ WaitDone(c)
       PROVE  TypeOK'
  BY <1>1, <1>10 DEF WaitEnter, WaitTestLen, WaitTestWorking, SpuriousIdleWake, WaitDone
<1>11. CASE UNCHANGED vars
  BY <1>11 DEF vars
<1>. QED
  BY <1>2, <1>3, <1>4, <1>5, <1>6, <1>7, <1>8, <1>9, <1>10, <1>11, <1>12, <1>13, <1>14
     DEF Next, Worker
-----------------------------------------------------------------------------
(* Jobs: the three steps that move one are a push, a pull and a run.         *)

LEMMA JobsStep == IInv /\ [Next]_vars => JobsMatch'
<1>. SUFFICES ASSUME IInv, [Next]_vars PROVE JobsMatch'
  OBVIOUS
<1>. USE DEF IInv, TypeOK, JobsMatch, countVars, threadVars, clientVars, jobVars
<1>1. CASE thpool_init
  <2>1. queue = <<>>
    BY <1>1 DEF thpool_init, PoolPhase, StopLosesNothing
  <2>2. \A w \in Workers : wjob[w] = Nobody
    BY <1>1 DEF thpool_init
  <2>3. Queued = {} /\ Queued' = {} /\ Held = {} /\ Held' = {}
    BY <1>1, <2>1, <2>2, EmptySeq DEF thpool_init, Queued, Held
  <2>4. 1 .. Len(queue') = {}
    BY <1>1, EmptySeq DEF thpool_init
  <2>. QED
    BY <1>1, <2>2, <2>3, <2>4 DEF thpool_init
\* A step that moves no job, whatever it does to the places of other workers.
<1>2. ASSUME UNCHANGED <<queue, wjob, submitted, done>>,
             \A w \in Workers : wpc[w] \in {"repost", "run"} <=> wpc'[w] \in {"repost", "run"}
      PROVE  JobsMatch'
  <2>1. Queued' = Queued /\ Held' = Held
    BY <1>2 DEF Queued, Held
  <2>2. \A w \in Workers : wjob'[w] # Nobody <=> wpc'[w] \in {"repost", "run"}
    BY <1>2
  <2>. QED
    BY <1>2, <2>1, <2>2
<1>3. ASSUME NEW j \in Jobs, jobqueue_push(j)
      PROVE  JobsMatch'
  <2>1. queue' = Append(queue, j) /\ submitted' = submitted \union {j} /\ j \notin submitted
    BY <1>3 DEF jobqueue_push
  <2>2. Queued' = Queued \union {j}
    BY <2>1, QueueAppend
  <2>3. \A i, k \in 1 .. Len(queue') : queue'[i] = queue'[k] => i = k
    BY <2>1, QueueAppend
  <2>4. Held' = Held
    BY <1>3 DEF jobqueue_push, Held
  <2>. QED
    BY <1>3, <2>1, <2>2, <2>3, <2>4 DEF jobqueue_push
<1>4. ASSUME NEW w \in Workers, jobqueue_pull(w)
      PROVE  JobsMatch'
  <2>1. queue' = Tail(queue) /\ queue # <<>>
    BY <1>4 DEF jobqueue_pull
  <2>2. /\ Head(queue) \in Jobs /\ Head(queue) \notin Queued'
        /\ Queued = Queued' \union {Head(queue)}
        /\ \A i, k \in 1 .. Len(queue') : queue'[i] = queue'[k] => i = k
    BY <2>1, QueueTail
  <2>3. wjob' = [wjob EXCEPT ![w] = Head(queue)] /\ wjob[w] = Nobody /\ Head(queue) # Nobody
    BY <1>4, <2>2, ThreadPoolAssumption DEF jobqueue_pull
  <2>4. Held' = Held \union {Head(queue)} /\ Head(queue) \notin Held
    BY <2>2, <2>3 DEF Held
  <2>5. \A v \in Workers : wpc'[v] \in {"repost", "run"} <=> v = w \/ wpc[v] \in {"repost", "run"}
    BY <1>4 DEF jobqueue_pull, Goto
  <2>6. \A v, x \in Workers : wjob'[v] = wjob'[x] /\ wjob'[v] # Nobody => v = x
    BY <2>3, <2>4 DEF Held
  <2>. QED
    BY <1>4, <2>2, <2>3, <2>4, <2>5, <2>6 DEF jobqueue_pull
<1>5. ASSUME NEW w \in Workers, RunJob(w)
      PROVE  JobsMatch'
  <2>1. Queued' = Queued
    BY <1>5 DEF RunJob, Queued
  <2>2. /\ wjob' = [wjob EXCEPT ![w] = Nobody] /\ wjob[w] # Nobody
        /\ done' = done \union {wjob[w]} /\ submitted' = submitted
    BY <1>5 DEF RunJob
  <2>3. Held' = Held \ {wjob[w]} /\ wjob[w] \in Held
    BY <2>2 DEF Held
  <2>4. \A v \in Workers : wpc'[v] \in {"repost", "run"} <=> v # w /\ wpc[v] \in {"repost", "run"}
    BY <1>5 DEF RunJob, Goto
  <2>. QED
    BY <1>5, <2>1, <2>2, <2>3, <2>4 DEF RunJob
<1>6. CASE DestroyFree
  <2>1. queue' = queue
    BY <1>6 DEF DestroyFree, StopLosesNothing
  <2>. QED
    BY <1>2, <1>6, <2>1 DEF DestroyFree
<1>7. ASSUME NEW j \in Jobs, PushPost(j)
      PROVE  JobsMatch'
  BY <1>2, <1>7 DEF PushPost, bsem_post, OneOf, Blocked
<1>8. ASSUME NEW w \in Workers, Repost(w)
      PROVE  JobsMatch'
  BY <1>2, <1>8 DEF Repost, bsem_post, OneOf, Blocked
<1>9. ASSUME NEW w \in Workers,
             ThreadAlive(w) \/ LoopTest(w) \/ bsem_wait(w) \/ SpuriousWake(w) \/ Recheck(w)
               \/ BeginWork(w) \/ PullNothing(w) \/ EndWork(w) \/ Exit(w) \/ ExitUnlock(w)
      PROVE  JobsMatch'
  BY <1>2, <1>9 DEF ThreadAlive, LoopTest, bsem_wait, SpuriousWake, Recheck, BeginWork,
       PullNothing, EndWork, Exit, ExitUnlock, Goto
<1>10. ASSUME NEW c \in Clients,
              WaitEnter(c) \/ WaitTestLen(c) \/ WaitTestWorking(c) \/ SpuriousIdleWake(c) \/ WaitDone(c)
       PROVE  JobsMatch'
  BY <1>2, <1>10 DEF WaitEnter, WaitTestLen, WaitTestWorking, SpuriousIdleWake, WaitDone
<1>11. CASE InitReturns \/ BeginDestroy \/ bsem_post_all
  BY <1>2, <1>11 DEF InitReturns, BeginDestroy, bsem_post_all
<1>12. CASE UNCHANGED vars
  BY <1>2, <1>12 DEF vars
<1>. QED
  BY <1>1, <1>3, <1>4, <1>5, <1>6, <1>7, <1>8, <1>9, <1>10, <1>11, <1>12 DEF Next, Worker
-----------------------------------------------------------------------------
(* The life of the pool *)

\* thpool_init has counted every thread when it returns, so none is unborn.
LEMMA AllStarted ==
    ASSUME IInv, pool = "starting", alive = Cardinality(Workers)
    PROVE  WorkersAt({"born"}) = {}
<1>1. WorkersAt(Started) \in SUBSET Workers /\ Cardinality(WorkersAt(Started)) = Cardinality(Workers)
  BY DEF IInv, CountsMatch, WorkersAt
<1>2. WorkersAt(Started) = Workers
  BY <1>1, ThreadPoolAssumption, FS_Subset
<1>. QED
  BY <1>2 DEF WorkersAt, Started

LEMMA PhaseStep == IInv /\ [Next]_vars => PoolPhase'
<1>. SUFFICES ASSUME IInv, [Next]_vars PROVE PoolPhase'
  OBVIOUS
<1>. USE DEF IInv, TypeOK, PoolPhase, WorkersAt, countVars, threadVars, clientVars, jobVars
<1>1. CASE thpool_init
  BY <1>1 DEF thpool_init
<1>2. CASE InitReturns
  BY <1>2, AllStarted DEF InitReturns
<1>3. CASE BeginDestroy
  BY <1>3 DEF BeginDestroy
<1>4. CASE bsem_post_all \/ DestroyFree
  BY <1>4 DEF bsem_post_all, DestroyFree
<1>5. ASSUME NEW j \in Jobs, jobqueue_push(j)
      PROVE  PoolPhase'
  BY <1>5 DEF jobqueue_push
<1>6. ASSUME NEW j \in Jobs, PushPost(j)
      PROVE  PoolPhase'
  BY <1>6 DEF PushPost, bsem_post, OneOf, Blocked
<1>7. ASSUME NEW w \in Workers, Repost(w)
      PROVE  PoolPhase'
  BY <1>7 DEF Repost, bsem_post, OneOf, Blocked
<1>8. ASSUME NEW w \in Workers, EndWork(w)
      PROVE  PoolPhase'
  BY <1>8 DEF EndWork, Goto, OneOf
<1>9. ASSUME NEW w \in Workers, jobqueue_pull(w)
      PROVE  PoolPhase'
  BY <1>9 DEF jobqueue_pull, Goto
<1>10. ASSUME NEW w \in Workers,
              ThreadAlive(w) \/ LoopTest(w) \/ bsem_wait(w) \/ SpuriousWake(w) \/ Recheck(w)
                \/ BeginWork(w) \/ PullNothing(w) \/ RunJob(w) \/ Exit(w) \/ ExitUnlock(w)
       PROVE  PoolPhase'
  BY <1>10 DEF ThreadAlive, LoopTest, bsem_wait, SpuriousWake, Recheck, BeginWork,
       PullNothing, RunJob, Exit, ExitUnlock, Goto
<1>11. ASSUME NEW c \in Clients,
              WaitEnter(c) \/ WaitTestLen(c) \/ WaitTestWorking(c) \/ SpuriousIdleWake(c) \/ WaitDone(c)
       PROVE  PoolPhase'
  BY <1>11 DEF WaitEnter, WaitTestLen, WaitTestWorking, SpuriousIdleWake, WaitDone
<1>12. CASE UNCHANGED vars
  BY <1>12 DEF vars
<1>. QED
  BY <1>1, <1>2, <1>3, <1>4, <1>5, <1>6, <1>7, <1>8, <1>9, <1>10, <1>11, <1>12 DEF Next, Worker
-----------------------------------------------------------------------------
(* thpool_wait: what was added before the call leaves the queue, then runs.  *)

LEMMA DueStep == IInv /\ [Next]_vars => DueMatch' /\ WaitCoversDue'
<1>. SUFFICES ASSUME IInv, [Next]_vars PROVE DueMatch' /\ WaitCoversDue'
  OBVIOUS
<1>. USE DEF IInv, TypeOK, DueMatch, WaitCoversDue, countVars, threadVars, clientVars, jobVars
\* No client moves, no added job is forgotten and none re-enters the queue.
<1>1. ASSUME UNCHANGED <<cpc, due>>, submitted \subseteq submitted', done \subseteq done',
             Queued' \intersect submitted \subseteq Queued
      PROVE  DueMatch' /\ WaitCoversDue'
  BY <1>1
<1>2. ASSUME UNCHANGED <<cpc, due, queue, submitted, done>>
      PROVE  DueMatch' /\ WaitCoversDue'
  BY <1>2 DEF Queued
<1>3. CASE thpool_init \/ DestroyFree
  <2>1. Queued' = {}
    BY <1>3, EmptySeq DEF thpool_init, DestroyFree, Queued
  <2>. QED
    BY <1>1, <1>3, <2>1 DEF thpool_init, DestroyFree
<1>4. ASSUME NEW j \in Jobs, jobqueue_push(j)
      PROVE  DueMatch' /\ WaitCoversDue'
  <2>1. Queued' = Queued \union {j}
    BY <1>4, QueueAppend DEF jobqueue_push
  <2>. QED
    BY <1>1, <1>4, <2>1 DEF jobqueue_push
<1>5. ASSUME NEW w \in Workers, jobqueue_pull(w)
      PROVE  DueMatch' /\ WaitCoversDue'
  <2>1. Queued = Queued' \union {Head(queue)}
    BY <1>5, QueueTail DEF jobqueue_pull, JobsMatch
  <2>. QED
    BY <1>1, <1>5, <2>1 DEF jobqueue_pull
<1>6. ASSUME NEW w \in Workers, RunJob(w)
      PROVE  DueMatch' /\ WaitCoversDue'
  <2>1. Queued' = Queued
    BY <1>6 DEF RunJob, Queued
  <2>. QED
    BY <1>1, <1>6, <2>1 DEF RunJob
\* A woken client starts over.
<1>7. ASSUME NEW w \in Workers, EndWork(w)
      PROVE  DueMatch' /\ WaitCoversDue'
  <2>1. \A c \in Clients : cpc'[c] = cpc[c] \/ cpc'[c] = "lock"
    BY <1>7 DEF EndWork, OneOf
  <2>2. Queued' = Queued
    BY <1>7 DEF EndWork, Queued
  <2>. QED
    BY <1>7, <2>1, <2>2 DEF EndWork
<1>8. ASSUME NEW c \in Clients, WaitEnter(c) \/ SpuriousIdleWake(c) \/ WaitDone(c)
      PROVE  DueMatch' /\ WaitCoversDue'
  <2>1. Queued' = Queued
    BY <1>8 DEF WaitEnter, SpuriousIdleWake, WaitDone, Queued
  <2>. QED
    BY <1>8, <2>1 DEF WaitEnter, SpuriousIdleWake, WaitDone
<1>9. ASSUME NEW c \in Clients, WaitTestLen(c)
      PROVE  DueMatch' /\ WaitCoversDue'
  <2>1. Queued' = Queued /\ (queue = <<>> => Queued = {})
    BY <1>9, EmptySeq DEF WaitTestLen, Queued
  <2>. QED
    BY <1>9, <2>1 DEF WaitTestLen
\* With no worker at work, no worker holds a job.
<1>10. ASSUME NEW c \in Clients, WaitTestWorking(c)
       PROVE  DueMatch' /\ WaitCoversDue'
  <2>1. Queued' = Queued
    BY <1>10 DEF WaitTestWorking, Queued
  <2>2. CASE working # 0
    BY <1>10, <2>1, <2>2 DEF WaitTestWorking
  <2>3. CASE working = 0
    <3>1. WorkersAt(Counted) \in SUBSET Workers
      BY DEF WorkersAt
    <3>2. WorkersAt(Counted) = {}
      BY <2>3, <3>1, CountBound, FS_EmptySet DEF CountsMatch
    <3>3. Held = {}
      BY <3>2 DEF WorkersAt, Counted, Held, JobsMatch
    <3>4. due[c] \subseteq done
      BY <1>10, <3>3 DEF WaitTestWorking, JobsMatch
    <3>. QED
      BY <1>10, <2>1, <3>4 DEF WaitTestWorking
  <2>. QED
    BY <2>2, <2>3
<1>11. CASE BeginDestroy
  <2>1. Queued' = Queued
    BY <1>11 DEF BeginDestroy, Queued
  <2>. QED
    BY <1>11, <2>1 DEF BeginDestroy
<1>12. ASSUME NEW w \in Workers,
              ThreadAlive(w) \/ LoopTest(w) \/ bsem_wait(w) \/ SpuriousWake(w) \/ Recheck(w)
                \/ BeginWork(w) \/ PullNothing(w) \/ Repost(w) \/ Exit(w) \/ ExitUnlock(w)
       PROVE  DueMatch' /\ WaitCoversDue'
  BY <1>2, <1>12 DEF ThreadAlive, LoopTest, bsem_wait, SpuriousWake, Recheck, BeginWork,
       PullNothing, Repost, Exit, ExitUnlock
<1>13. ASSUME NEW j \in Jobs, PushPost(j)
       PROVE  DueMatch' /\ WaitCoversDue'
  BY <1>2, <1>13 DEF PushPost
<1>14. CASE InitReturns \/ bsem_post_all
  BY <1>2, <1>14 DEF InitReturns, bsem_post_all
<1>15. CASE UNCHANGED vars
  BY <1>2, <1>15 DEF vars
<1>. QED
  BY <1>3, <1>4, <1>5, <1>6, <1>7, <1>8, <1>9, <1>10, <1>11, <1>12, <1>13, <1>14, <1>15 DEF Next, Worker
-----------------------------------------------------------------------------
(* thpool_destroy: the wait before it covered every job there is.            *)

LEMMA StopStep == IInv /\ [Next]_vars => StopLosesNothing'
<1>. SUFFICES ASSUME IInv, [Next]_vars PROVE StopLosesNothing'
  OBVIOUS
<1>. USE DEF IInv, TypeOK, StopLosesNothing, countVars, threadVars, clientVars, jobVars
<1>1. CASE BeginDestroy
  <2>1. submitted \subseteq done
    BY <1>1, ThreadPoolAssumption DEF BeginDestroy, WaitCoversDue
  <2>2. submitted = done
    BY <2>1 DEF JobsMatch
  <2>3. Queued = {}
    BY <2>2 DEF JobsMatch
  <2>4. queue = <<>>
    BY <2>3, QueuedEmpty
  <2>. QED
    BY <1>1, <2>2, <2>4 DEF BeginDestroy
<1>2. ASSUME NEW w \in Workers, RunJob(w)
      PROVE  StopLosesNothing'
  <2>1. wjob[w] \in submitted
    BY <1>2 DEF RunJob, JobsMatch, Held
  <2>. QED
    BY <1>2, <2>1 DEF RunJob
<1>3. ASSUME NEW w \in Workers, Worker(w) \/ SpuriousWake(w), ~RunJob(w)
      PROVE  StopLosesNothing'
  BY <1>3 DEF Worker, ThreadAlive, LoopTest, bsem_wait, SpuriousWake, Recheck, BeginWork,
       PullNothing, jobqueue_pull, Repost, EndWork, Exit, ExitUnlock
<1>4. ASSUME NEW j \in Jobs, jobqueue_push(j) \/ PushPost(j)
      PROVE  StopLosesNothing'
  BY <1>4 DEF jobqueue_push, PushPost
<1>5. ASSUME NEW c \in Clients,
             WaitEnter(c) \/ WaitTestLen(c) \/ WaitTestWorking(c) \/ SpuriousIdleWake(c) \/ WaitDone(c)
      PROVE  StopLosesNothing'
  BY <1>5 DEF WaitEnter, WaitTestLen, WaitTestWorking, SpuriousIdleWake, WaitDone
<1>6. CASE thpool_init \/ InitReturns \/ bsem_post_all \/ DestroyFree
  BY <1>6 DEF thpool_init, InitReturns, bsem_post_all, DestroyFree
<1>7. CASE UNCHANGED vars
  BY <1>7 DEF vars
<1>. QED
  BY <1>1, <1>2, <1>3, <1>4, <1>5, <1>6, <1>7 DEF Next
-----------------------------------------------------------------------------
(* No job is stranded.  While the pool is ready every worker is in its loop, *)
(* so one that is not blocked on the semaphore is awake.                     *)

LEMMA BlockedOrAwake ==
    ASSUME IInv, pool = "ready", NEW w \in Workers
    PROVE  w \in Blocked \/ w \in Awake
BY DEF IInv, PoolPhase, WorkersAt, Blocked, Awake

\* A post leaves the semaphore up and somebody awake.
LEMMA PostWakes ==
    ASSUME IInv, pool = "ready", Workers # {}, NEW pcs, bsem_post(pcs),
           \A w \in Workers : pcs[w] = wpc[w] \/ (wpc[w] = "repost" /\ pcs[w] = "run")
    PROVE  has_jobs' = 1 /\ Awake' # {}
<1>1. has_jobs' = 1
  BY DEF bsem_post
<1>2. PICK woken \in OneOf(Blocked) :
         wpc' = [w \in Workers |-> IF w \in woken THEN "bsem_wait" ELSE pcs[w]]
  BY DEF bsem_post
<1>3. CASE Blocked = {}
  <2>1. PICK w \in Workers : TRUE
    OBVIOUS
  <2>2. w \in Awake /\ woken = {}
    BY <1>3, <2>1, BlockedOrAwake DEF OneOf
  <2>3. w \in Awake'
    BY <1>2, <2>1, <2>2 DEF Awake
  <2>. QED
    BY <1>1, <2>3
<1>4. CASE Blocked # {}
  <2>1. PICK w \in Blocked : woken = {w}
    BY <1>4 DEF OneOf
  <2>2. w \in Awake'
    BY <1>2, <2>1 DEF Awake, Blocked
  <2>. QED
    BY <1>1, <2>2
<1>. QED
  BY <1>3, <1>4

LEMMA StrandedStep == IInv /\ [Next]_vars => NoStrandedJob'
<1>. SUFFICES ASSUME IInv, [Next]_vars,
                     pool' = "ready", queue' # <<>>, rwmutex' = Nobody, Workers # {}
              PROVE  OnItsWay' # {} \/ (has_jobs' = 1 /\ Awake' # {})
  BY DEF NoStrandedJob
<1>. USE DEF IInv, TypeOK, countVars, threadVars, clientVars, jobVars
\* A step that lets nobody turn back or fall asleep.
<1>1. ASSUME UNCHANGED <<pool, queue, rwmutex, has_jobs>>, OnItsWay \subseteq OnItsWay', Awake \subseteq Awake'
      PROVE  OnItsWay' # {} \/ (has_jobs' = 1 /\ Awake' # {})
  BY <1>1 DEF NoStrandedJob
<1>2. ASSUME UNCHANGED <<pool, queue, rwmutex, has_jobs, wpc>>
      PROVE  OnItsWay' # {} \/ (has_jobs' = 1 /\ Awake' # {})
  BY <1>2 DEF NoStrandedJob, OnItsWay, Awake
<1>3. ASSUME NEW j \in Jobs, PushPost(j)
      PROVE  has_jobs' = 1 /\ Awake' # {}
  BY <1>3, PostWakes DEF PushPost
<1>4. ASSUME NEW w \in Workers, Repost(w)
      PROVE  has_jobs' = 1 /\ Awake' # {}
  <2>. DEFINE pcs == [wpc EXCEPT ![w] = "run"]
  <2>1. bsem_post(pcs) /\ pool = "ready"
    BY <1>4 DEF Repost
  <2>2. \A v \in Workers : pcs[v] = wpc[v] \/ (wpc[v] = "repost" /\ pcs[v] = "run")
    BY <1>4 DEF Repost
  <2>. HIDE DEF pcs
  <2>. QED
    BY <2>1, <2>2, PostWakes
\* Whoever takes the semaphore is on its way; whoever finds it down blocks,
\* and then somebody else is.
<1>5. ASSUME NEW w \in Workers, bsem_wait(w)
      PROVE  OnItsWay' # {}
  <2>1. CASE has_jobs = 1
    <3>1. w \in OnItsWay'
      BY <1>5, <2>1 DEF bsem_wait, Goto, OnItsWay
    <3>. QED
      BY <3>1
  <2>2. CASE has_jobs # 1
    <3>1. PICK v \in OnItsWay : TRUE
      BY <1>5, <2>2 DEF bsem_wait, NoStrandedJob
    <3>2. v \in OnItsWay'
      BY <1>5, <3>1 DEF bsem_wait, Goto, OnItsWay
    <3>. QED
      BY <3>2
  <2>. QED
    BY <2>1, <2>2
<1>6. ASSUME NEW w \in Workers, Recheck(w) \/ BeginWork(w)
      PROVE  OnItsWay' # {}
  <2>1. w \in OnItsWay'
    BY <1>6 DEF Recheck, BeginWork, Goto, OnItsWay, PoolPhase
  <2>. QED
    BY <2>1
\* After a pull that does not post again the queue is empty.
<1>7. ASSUME NEW w \in Workers, jobqueue_pull(w)
      PROVE  FALSE
  <2>1. ~(Len(queue) > 1)
    BY <1>7, ThreadPoolAssumption DEF jobqueue_pull
  <2>2. Len(queue) \in Nat /\ Len(queue') = Len(queue) - 1 /\ queue' \in Seq(Jobs)
    BY <1>7, QueueTail, LenProperties DEF jobqueue_pull, JobsMatch
  <2>3. Len(queue') \in Nat \ {0}
    BY <2>2, EmptySeq
  <2>. QED
    BY <2>1, <2>2, <2>3
<1>8. ASSUME NEW w \in Workers,
             ThreadAlive(w) \/ LoopTest(w) \/ SpuriousWake(w) \/ RunJob(w) \/ EndWork(w)
      PROVE  OnItsWay' # {} \/ (has_jobs' = 1 /\ Awake' # {})
  <2>1. UNCHANGED <<pool, queue, rwmutex, has_jobs>>
    BY <1>8 DEF ThreadAlive, LoopTest, SpuriousWake, RunJob, EndWork
  <2>2. \E place \in {"loop", "bsem_wait", "exiting", "uncount"} :
           Goto(w, place) /\ wpc[w] \in {"born", "loop", "blocked", "run", "uncount"}
    BY <1>8 DEF ThreadAlive, LoopTest, SpuriousWake, RunJob, EndWork
  <2>3. OnItsWay \subseteq OnItsWay' /\ Awake \subseteq Awake'
    BY <2>2 DEF Goto, OnItsWay, Awake
  <2>. QED
    BY <1>1, <2>1, <2>3
\* These do not happen, or leave the pool not ready, the queue empty or rwmutex held.
<1>9. ASSUME NEW w \in Workers, PullNothing(w) \/ Exit(w) \/ ExitUnlock(w)
      PROVE  FALSE
  BY <1>9 DEF PullNothing, Exit, ExitUnlock, PoolPhase, WorkersAt
<1>10. ASSUME NEW j \in Jobs, jobqueue_push(j)
       PROVE  FALSE
  BY <1>10, ThreadPoolAssumption DEF jobqueue_push
<1>11. CASE thpool_init \/ InitReturns \/ BeginDestroy \/ bsem_post_all \/ DestroyFree
  BY <1>11 DEF thpool_init, InitReturns, BeginDestroy, bsem_post_all, DestroyFree, PoolPhase
<1>12. ASSUME NEW c \in Clients,
              WaitEnter(c) \/ WaitTestLen(c) \/ WaitTestWorking(c) \/ SpuriousIdleWake(c) \/ WaitDone(c)
       PROVE  OnItsWay' # {} \/ (has_jobs' = 1 /\ Awake' # {})
  BY <1>2, <1>12 DEF WaitEnter, WaitTestLen, WaitTestWorking, SpuriousIdleWake, WaitDone
<1>13. CASE UNCHANGED vars
  BY <1>2, <1>13 DEF vars
<1>. QED
  BY <1>3, <1>4, <1>5, <1>6, <1>7, <1>8, <1>9, <1>10, <1>11, <1>12, <1>13 DEF Next, Worker
-----------------------------------------------------------------------------
(* The steps of JobPool that the steps of the pool are.                      *)

LEMMA KnownIs == Abstract!Known = Queued \union Held \union done
<1>1. DOMAIN queue = 1 .. Len(queue) \/ queue \notin Seq(Jobs)
  OBVIOUS
<1>. QED
  BY <1>1 DEF Abstract!Known, Queued, Held

\* A worker that has no job makes the jobs being run fewer than the workers.
LEMMA RoomToRun ==
    ASSUME JobsMatch, NEW w \in Workers, wjob[w] = Nobody
    PROVE  Cardinality(Held) < Cardinality(Workers)
<1>. DEFINE Busy == {v \in Workers : wjob[v] # Nobody}
            f == [v \in Busy |-> wjob[v]]
<1>1. IsFiniteSet(Busy) /\ IsFiniteSet(Workers)
  BY CountBound, ThreadPoolAssumption
<1>2. f \in Surjection(Busy, Held)
  BY DEF Surjection, Held
<1>3. Cardinality(Held) <= Cardinality(Busy) /\ IsFiniteSet(Held)
  BY <1>1, <1>2, FS_Surjection
<1>4. Busy \subseteq Workers \ {w}
  OBVIOUS
<1>5. IsFiniteSet(Workers \ {w}) /\ Cardinality(Workers \ {w}) = Cardinality(Workers) - 1
  BY <1>1, FS_RemoveElement
<1>6. Cardinality(Busy) <= Cardinality(Workers) - 1
  BY <1>4, <1>5, FS_Subset
<1>7. Cardinality(Held) \in Nat /\ Cardinality(Busy) \in Nat /\ Cardinality(Workers) \in Nat
  BY <1>1, <1>3, FS_CardinalityType
<1>. QED
  BY <1>3, <1>6, <1>7

\* The front job starts when a worker pulls it.
LEMMA PullStarts ==
    ASSUME IInv, NEW w \in Workers, jobqueue_pull(w)
    PROVE  Abstract!Start
<1>. USE DEF IInv, TypeOK, JobsMatch, jobqueue_pull
<1>1. wjob[w] = Nobody
  OBVIOUS
<1>2. Head(queue) \in Jobs /\ Head(queue) # Nobody
  BY QueueTail, ThreadPoolAssumption
<1>3. Held' = Held \union {Head(queue)}
  BY <1>1, <1>2 DEF Held
<1>4. Cardinality(Held) < Cardinality(Workers)
  BY <1>1, RoomToRun
<1>5. Abstract!Cardinality(Held) = Cardinality(Held)
  BY DEF Abstract!Cardinality, Cardinality
<1>. QED
  BY <1>3, <1>4, <1>5 DEF Abstract!Start, Held

\* The job finishes when the worker's call of its function returns.
LEMMA RunFinishes ==
    ASSUME IInv, NEW w \in Workers, RunJob(w)
    PROVE  \E j \in Jobs : Abstract!Finish(j)
<1>. USE DEF IInv, TypeOK, JobsMatch, RunJob
<1>1. wjob[w] \in Jobs /\ wjob[w] # Nobody
  OBVIOUS
<1>2. PICK j \in Jobs : j = wjob[w]
  BY <1>1
<1>3. Held' = Held \ {j}
  BY <1>1, <1>2 DEF Held
<1>4. Abstract!Finish(j)
  BY <1>1, <1>2, <1>3 DEF Abstract!Finish, Held, jobVars
<1>. QED
  BY <1>4

LEMMA PushAdds ==
    ASSUME IInv, NEW j \in Jobs, jobqueue_push(j)
    PROVE  Abstract!Add(j)
<1>1. j \notin Abstract!Known
  BY KnownIs DEF IInv, JobsMatch, jobqueue_push
<1>. QED
  BY <1>1 DEF Abstract!Add, jobqueue_push, threadVars

LEMMA StepRefines == IInv /\ [Next]_vars => [Abstract!Next]_(Abstract!poolVars)
<1>. SUFFICES ASSUME IInv, [Next]_vars PROVE [Abstract!Next]_(Abstract!poolVars)
  OBVIOUS
<1>1. ASSUME UNCHANGED <<queue, wjob, done>>
      PROVE  UNCHANGED Abstract!poolVars
  BY <1>1 DEF Abstract!poolVars
<1>2. ASSUME NEW j \in Jobs, jobqueue_push(j)
      PROVE  Abstract!Next
  BY <1>2, PushAdds DEF Abstract!Next
<1>3. ASSUME NEW w \in Workers, jobqueue_pull(w) \/ RunJob(w)
      PROVE  Abstract!Next
  BY <1>3, PullStarts, RunFinishes DEF Abstract!Next
\* There is no job in the queue when the pool is made or freed.
<1>4. CASE thpool_init \/ DestroyFree
  <2>1. queue = <<>>
    BY <1>4 DEF thpool_init, DestroyFree, IInv, PoolPhase, StopLosesNothing
  <2>2. UNCHANGED <<queue, wjob, done>>
    BY <1>4, <2>1 DEF thpool_init, DestroyFree, threadVars
  <2>. QED
    BY <1>1, <2>2
<1>5. CASE InitReturns \/ BeginDestroy \/ bsem_post_all
  BY <1>1, <1>5 DEF InitReturns, BeginDestroy, bsem_post_all, jobVars, threadVars
<1>6. ASSUME NEW j \in Jobs, PushPost(j)
      PROVE  UNCHANGED Abstract!poolVars
  BY <1>1, <1>6 DEF PushPost
<1>7. ASSUME NEW w \in Workers, Worker(w) \/ SpuriousWake(w), ~jobqueue_pull(w), ~RunJob(w)
      PROVE  UNCHANGED Abstract!poolVars
  BY <1>1, <1>7 DEF Worker, ThreadAlive, LoopTest, bsem_wait, SpuriousWake, Recheck, BeginWork,
       PullNothing, Repost, EndWork, Exit, ExitUnlock, jobVars
<1>8. ASSUME NEW c \in Clients,
             WaitEnter(c) \/ WaitTestLen(c) \/ WaitTestWorking(c) \/ SpuriousIdleWake(c) \/ WaitDone(c)
      PROVE  UNCHANGED Abstract!poolVars
  BY <1>1, <1>8 DEF WaitEnter, WaitTestLen, WaitTestWorking, SpuriousIdleWake, WaitDone, jobVars, threadVars
<1>9. CASE UNCHANGED vars
  BY <1>1, <1>9 DEF vars, jobVars, threadVars
<1>. QED
  BY <1>2, <1>3, <1>4, <1>5, <1>6, <1>7, <1>8, <1>9 DEF Next, Worker
-----------------------------------------------------------------------------
(* The theorems *)

\* IInv is inductive, so it holds of every reachable state.
THEOREM Invariance == SafeSpec => []IInv
<1>1. IInv /\ [Next]_vars => IInv'
  BY CountsStep, TypeStep, JobsStep, PhaseStep, DueStep, StopStep, StrandedStep DEF IInv
<1>. QED
  BY InitInv, <1>1, PTL DEF SafeSpec

\* The counters of thpool_ stay between 0 and the number of threads, and every
\* variable has the values its declaration promises.
THEOREM TypeCorrect == SafeSpec => []TypeOK
<1>1. IInv => TypeOK
  BY DEF IInv
<1>. QED
  BY Invariance, <1>1, PTL

\* The binary semaphore loses no job: with jobs in the queue of a ready pool
\* some worker is going to look there, for any number of workers and jobs.
THEOREM NoJobStranded == SafeSpec => []NoStrandedJob
<1>1. IInv => NoStrandedJob
  BY DEF IInv
<1>. QED
  BY Invariance, <1>1, PTL

\* When thpool_wait returns, every job added before the call has run.
THEOREM WaitIsCovering == SafeSpec => []WaitCoversDue
<1>1. IInv => WaitCoversDue
  BY DEF IInv
<1>. QED
  BY Invariance, <1>1, PTL

\* thpool_destroy, called as bundle_stop calls it, drops no job.
THEOREM StopIsLossless == SafeSpec => []StopLosesNothing
<1>1. IInv => StopLosesNothing
  BY DEF IInv
<1>. QED
  BY Invariance, <1>1, PTL

\* Exactly once and in order: what the pool does to the jobs is what JobPool
\* allows, for any number of workers and jobs.
THEOREM RefinesJobPool == SafeSpec => Abstract!SafeSpec
<1>1. Init => Abstract!Init
  BY DEF Init, Abstract!Init
<1>. QED
  BY Invariance, StepRefines, <1>1, PTL DEF SafeSpec, Abstract!SafeSpec
=============================================================================
