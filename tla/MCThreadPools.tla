---------------------------- MODULE MCThreadPools ----------------------------
(***************************************************************************)
(* The thread pools of zl_threadpool/, each on the same workers and tasks; *)
(* 02_thread_pool with a fixed number of workers.  Which pool is used is   *)
(* chosen at the start and never changes; variables a pool does not have   *)
(* stay at Unused.                                                         *)
(***************************************************************************)
EXTENDS Integers, Sequences, FiniteSets

CONSTANTS
  Workers, Tasks,
  Clients,     \* the threads that call enqueue of 03_ThreadPool
  MaxPushes    \* bound: calls of nThreadPoolPushTask of 01_simple_threadPool

\* A pool has threads; what stands for nobody, for no task or for a pointer is
\* neither a thread nor a task.
ASSUME PoolsAssumption ==
  /\ IsFiniteSet(Workers) /\ Workers # {} /\ IsFiniteSet(Clients)
  /\ Workers \cap {"nobody", "client", "NULL", "pool"} = {}
  /\ Tasks \cap {"none", "NULL", "wild"} = {}

VARIABLES
  pool,                                                 \* which pool it is
  queue, stopped, mutex, cond, pc, task, done, owner,   \* see StopFlagPool
  accepted, refused, client,                            \* see ThreadPoolCpp11
  deleted,                                              \* see ThreadPoolCpp98
  refs,                                                 \* see ThreadPoolCpp14
  jobs, next, prev, terminate, at, told, pushes,        \* see SimpleThreadPool
  adjust, seen, i                                       \* see AdaptiveThreadPool

simpleVars == <<jobs, next, prev, terminate, at, told, pushes>>

adjustVars == <<adjust, seen, i>>

vars == <<pool, queue, stopped, mutex, cond, pc, task, done, owner,
          accepted, refused, client, deleted, refs, simpleVars, adjustVars>>

Unused == "unused"

\* The workers in some order, that of the list pool->workers.
WorkerList ==
  CHOOSE s \in [1 .. Cardinality(Workers) -> Workers] : {s[k] : k \in DOMAIN s} = Workers

Simple == INSTANCE SimpleThreadPool
            WITH workers <- WorkerList, Jobs <- Tasks, mtx <- mutex, job <- task,
                 stack <- queue, destory <- owner

\* Its workers have the slots 0 and 1.
T02 == INSTANCE AdaptiveThreadPool
         WITH min_thr_num <- 2, max_thr_num <- 2, queue_max_size <- 2,
              MIN_WAIT_TASK_NUM <- 1, DEFAULT_THREAD_VARY <- 1,
              Tasks <- Tasks \ {CHOOSE t \in Tasks : TRUE}, Clients <- {CHOOSE c \in Clients : TRUE},
              GarbageWaitExit <- {0}, GarbageArg <- {"NULL"},
              ExitedSeemsAlive <- FALSE, AddDuringDestroy <- FALSE,
              lock <- mutex, task_queue <- queue, queue_front <- jobs, queue_rear <- next, queue_size <- prev,
              queue_not_full <- terminate, queue_not_empty <- cond,
              live_thr_num <- at, busy_thr_num <- told, wait_exit_thr_num <- pushes, shutdown <- stopped,
              adding <- client, unlocked <- refused, added <- accepted, late <- deleted, freed <- refs,
              destroy <- owner

SlotOf(w) == CHOOSE s \in 0 .. 1 : WorkerList[s + 1] = w

T03 == INSTANCE ThreadPool03
         WITH tasks <- queue, stop <- stopped, condition <- cond, worker <- pc

Cpp14 == INSTANCE ThreadPoolCpp14
           WITH tasks_ <- queue, is_shutdown_ <- stopped, cond_ <- cond, worker <- pc,
                current <- task

Cpp9803 == INSTANCE ThreadPoolCpp98Cpp03 WITH added <- accepted

Cpp11 == INSTANCE ThreadPoolCpp11 WITH adder <- client

-----------------------------------------------------------------------------

NoList ==
  /\ jobs = Unused /\ next = Unused /\ prev = Unused /\ terminate = Unused
  /\ at = Unused /\ told = Unused /\ pushes = Unused

InitOther ==
  \/ /\ pool = "01_simple" /\ Simple!Init
     /\ stopped = Unused /\ done = Unused /\ accepted = Unused /\ refused = Unused
     /\ client = Unused /\ deleted = Unused /\ refs = Unused
  \/ /\ pool = "03" /\ T03!Init /\ NoList
     /\ mutex = Unused /\ deleted = Unused /\ refs = Unused
  \/ /\ pool = "Cpp14" /\ Cpp14!Init /\ NoList
     /\ mutex = Unused /\ accepted = Unused /\ refused = Unused /\ client = Unused
     /\ deleted = Unused
  \/ /\ pool = "Cpp98" /\ Cpp9803!Init /\ NoList
     /\ refused = Unused /\ client = Unused /\ refs = Unused
  \/ /\ pool = "Cpp03" /\ Cpp9803!Init03 /\ NoList
     /\ refused = Unused /\ client = Unused /\ deleted = Unused /\ refs = Unused
  \/ /\ pool = "Cpp11" /\ Cpp11!Init /\ NoList
     /\ deleted = Unused /\ refs = Unused

NoAdjust == adjust = Unused /\ seen = Unused /\ i = Unused

Init ==
  \/ pool = "02" /\ T02!Init
  \/ InitOther /\ NoAdjust

\* A step of one pool leaves the variables it does not have alone.
Of02(action) == pool = "02" /\ action /\ UNCHANGED pool

Of01(action) ==
  /\ pool = "01_simple" /\ action
  /\ UNCHANGED <<pool, stopped, done, accepted, refused, client, deleted, refs, adjustVars>>

Of03(action) ==
  pool = "03" /\ action /\ UNCHANGED <<pool, mutex, deleted, refs, simpleVars, adjustVars>>

Of14(action) ==
  /\ pool = "Cpp14" /\ action
  /\ UNCHANGED <<pool, mutex, accepted, refused, client, deleted, simpleVars, adjustVars>>

Of98(action) ==
  pool = "Cpp98" /\ action /\ UNCHANGED <<pool, refused, client, refs, simpleVars, adjustVars>>

OfCpp03(action) ==
  pool = "Cpp03" /\ action /\ UNCHANGED <<pool, refused, client, deleted, refs, simpleVars, adjustVars>>

Of11(action) ==
  pool = "Cpp11" /\ action /\ UNCHANGED <<pool, deleted, refs, simpleVars, adjustVars>>

Next ==
  \/ Of01(Simple!Next) \/ Of02(T02!Next) \/ Of03(T03!Next) \/ Of14(Cpp14!Next)
  \/ Of98(Cpp9803!Next) \/ OfCpp03(Cpp9803!Next03) \/ Of11(Cpp11!Next)

\* A step of worker w, a wakeup without a notification excepted.
Work(w) ==
  \/ Of01(Simple!WorkerStep(w)) \/ Of02(T02!threadpool_thread(SlotOf(w))) \/ Of03(T03!Worker(w)) \/ Of14(Cpp14!Worker(w))
  \/ Of98(Cpp9803!WorkerStep(w)) \/ OfCpp03(Cpp9803!WorkerStep03(w)) \/ Of11(Cpp11!WorkerLambda(w))

\* The rest of a call some client is inside of: enqueue, execute, addTask, add.
FinishCall ==
  \/ \E c \in Clients : Of03(T03!EnqueueNotify(c))
  \/ Of14(Cpp14!ExecuteNotify) \/ Of98(Cpp9803!addTaskSignal)
  \/ OfCpp03(Cpp9803!addTaskSignal03) \/ Of11(Cpp11!addContinues)

\* The rest of a stop or of a destructor that has begun.
FinishStop ==
  \/ Of01(Simple!nThreadPoolDestory)
  \/ Of03(T03!DestructorNotify \/ T03!DestructorJoin)
  \/ Of14(Cpp14!DestructorNotify) \/ Of98(Cpp9803!stopContinues)
  \/ OfCpp03(Cpp9803!stop03) \/ Of11(Cpp11!DestructorContinues)

\* Workers are scheduled, get a mutex that is free again and again (strong
\* fairness), and tasks terminate; calls go on once begun, and main of Cpp03,
\* which asks for size() again and again, sees an empty queue that is there
\* for it infinitely often.  Nobody has to queue a task or to stop a pool, and
\* nothing makes a wakeup without a notification happen.
Spec ==
  /\ Init /\ [][Next]_vars
  /\ \A w \in Workers : SF_vars(Work(w))
  /\ WF_vars(FinishCall)
  /\ SF_vars(FinishStop)
  /\ SF_vars(OfCpp03(Cpp9803!MainStops))

-----------------------------------------------------------------------------

\* Nobody is asleep who is needed: while a worker is inside the wait of a
\* running pool, each queued task has a worker on its way or a notification
\* still to come, although all pools but 01 notify after the unlock; and no
\* worker of 01 sleeps through nThreadPoolDestory.
SleepersNotNeeded ==
  /\ pool = "01_simple" => Simple!NobodySleepsThroughDestory
  /\ pool = "02" => T02!QueuedTasksKeepAWorkerAwake
  /\ pool = "03" => T03!SleepersNotNeeded
  /\ pool = "Cpp14" => Cpp14!SleepersNotNeeded
  /\ pool = "Cpp98" => Cpp9803!SleepersNotNeeded
  /\ pool = "Cpp03" => Cpp9803!SleepersNotNeeded03
  /\ pool = "Cpp11" => Cpp11!SleepersNotNeeded

\* No task is lost, and what has run is a task somebody gave the pool, never a
\* moved-from one.  01: the links of LL_INSERT and LL_REMOVE spell out the
\* jobs not yet taken; 03 and Cpp14: nothing is left when the pool is gone;
\* Cpp98: what the workers abandon is deleted, and nothing else is; Cpp03:
\* main's stop() abandons nothing; Cpp11: only a task nobody has started can
\* have a broken promise.
TasksAccountedFor ==
  /\ pool = "01_simple" => Simple!TypeOK /\ Simple!ListIsStack
  /\ pool = "02" => T02!TypeOK
  /\ pool = "03" => T03!TypeOK /\ T03!DestroyedMeansDrained
  /\ pool = "Cpp14" => Cpp14!TypeOK /\ Cpp14!DataFreedEmpty
  /\ pool = "Cpp98" => Cpp9803!TypeOK /\ Cpp9803!EveryTaskAccountedFor
  /\ pool = "Cpp03" => Cpp9803!TypeOK03 /\ Cpp9803!NothingLost
  /\ pool = "Cpp11" => Cpp11!TypeOK /\ Cpp11!BrokenPromisesNeverStarted

Running == {task[w] : w \in {v \in Workers : pc[v] = "run"}}

\* The pool accepts tasks.  A Cpp11 pool that is stopped still takes the task
\* of a client that has read stop_ before, under mtx_.
Open ==
  IF pool = "Cpp11" THEN ~stopped \/ client \in {"emplace", "unlock"} ELSE ~stopped

\* 01_simple serves its newest job first and is left out of this property.
Abstract ==
  INSTANCE TaskPool
    WITH waiting <- CASE pool = "01_simple" -> <<>> [] pool = "02" -> T02!Waiting [] OTHER -> queue,
         running <- CASE pool = "01_simple" -> {} [] pool = "02" -> T02!Running [] OTHER -> Running,
         finished <- IF pool = "01_simple" THEN {} ELSE done,
         open <- IF pool = "01_simple" THEN TRUE ELSE Open

\* Every pool with a queue implements the abstract pool: a task is started at
\* most once, in the order of acceptance, and no task is accepted once the
\* pool is stopped.
ImplementsPool == Abstract!Spec

Queued(t) ==
  IF pool = "02" THEN \E k \in 1 .. prev : T02!Waiting[k] = t
                 ELSE \E k \in DOMAIN queue : queue[k] = t

\* A task that was accepted is executed.  03 and Cpp14 work off their queue
\* even after a stop; the others owe it only while the pool is not stopped.
AcceptedTasksRun ==
  \A t \in Tasks :
    Queued(t) ~> \/ ~Queued(t) /\ (pool # "01_simple" => t \in done)
                 \/ pool = "01_simple" /\ owner # "no"
                 \/ pool \in {"02", "Cpp98", "Cpp03", "Cpp11"} /\ stopped

\* A stop that began comes to its end: ~ThreadPool of 03 returns, the data of
\* Cpp14 is freed, and the workers of the others exit -- in Cpp98, Cpp03 and
\* Cpp11 only those that had not yet decided to wait, in 01 unless the walk
\* over the workers trips over one that has freed itself.
StoppingEnds ==
  \A w \in Workers :
    \/ pool = "01_simple" /\ owner = "walk"
    \/ pool = "03" /\ stopped
    \/ pool = "Cpp14" /\ stopped
    \/ pool \in {"Cpp98", "Cpp03", "Cpp11"} /\ stopped /\ pc[w] \notin {"block", "asleep"}
    ~>
    \/ pool = "01_simple" /\ (Simple!AllFreed \/ owner = "crashed")
    \/ pool = "03" /\ owner = "destroyed"
    \/ pool = "Cpp14" /\ refs = {}
    \/ pool \in {"Cpp98", "Cpp03", "Cpp11"} /\ pc[w] = "exited"

=============================================================================
