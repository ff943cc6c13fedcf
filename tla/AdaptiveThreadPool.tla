------------------------- MODULE AdaptiveThreadPool -------------------------
(***************************************************************************)
(* zl_threadpool/02_thread_pool/threadpool.c: a bounded ring of tasks,     *)
(* workers whose number a manager thread (adjust_thread) adapts, and       *)
(* threadpool_destroy.                                                     *)
(*                                                                         *)
(* shutdown is written, queue_not_empty signalled and broadcast, and       *)
(* live_thr_num read by threadpool_destroy without the lock.  Of a         *)
(* worker's critical section these can tell apart only the test of the     *)
(* wait condition and the moment the worker is inside the wait, so the     *)
(* worker's critical sections are one step up to that point.  A worker is  *)
(* named by its slot in threads[]; a slot is used again only after its     *)
(* thread has exited.                                                      *)
(***************************************************************************)
EXTENDS CondVar, FiniteSets, Integers, Sequences, TLC

CONSTANTS
  min_thr_num, max_thr_num, queue_max_size,  \* arguments of threadpool_create
  MIN_WAIT_TASK_NUM, DEFAULT_THREAD_VARY,    \* the #defines
  Tasks,              \* function and argument of each threadpool_add
  Clients,            \* threads that call threadpool_add
  GarbageWaitExit,    \* what malloc may leave in wait_exit_thr_num
  GarbageArg,         \* what malloc may leave in the arg of a slot of the ring
  ExitedSeemsAlive,   \* pthread_kill(tid, 0) = 0 for an exited, unjoined thread
                      \* (newer C libraries); ESRCH in older ones
  AddDuringDestroy    \* clients may be in threadpool_add during the destroy

Slots == 0 .. max_thr_num - 1

Ring == 0 .. queue_max_size - 1

NULL == "NULL"

Wild == "wild"   \* a pointer nobody set

ASSUME PoolAssumption ==
  /\ min_thr_num \in Nat \ {0} /\ max_thr_num \in Nat /\ min_thr_num <= max_thr_num
  /\ queue_max_size \in Nat \ {0}
  /\ MIN_WAIT_TASK_NUM \in Nat /\ DEFAULT_THREAD_VARY \in Nat
  /\ Tasks \cap {NULL, Wild} = {}
  /\ GarbageArg \subseteq {NULL, Wild}
  /\ GarbageWaitExit \subseteq Int
  /\ ExitedSeemsAlive \in BOOLEAN /\ AddDuringDestroy \in BOOLEAN

VARIABLES
  lock,                          \* "free" or "held" (by a worker about to wait)
  task_queue, queue_front, queue_rear, queue_size,
  queue_not_full,                \* clients inside its wait
  queue_not_empty,               \* slots of the workers inside its wait
  live_thr_num, busy_thr_num, wait_exit_thr_num,
  shutdown,
  pc,     \* [Slots -> "none" | "lock" | "block" | "asleep" | "woken" |
          \*           "count" | "run" | "uncount" | "exited"]
  task,   \* [Slots -> the worker's local task]
  adding, \* [Clients -> the task of the threadpool_add the client is in]
  unlocked, \* clients that found shutdown set and gave the lock back
  added,  \* history: tasks whose threadpool_add returned 0
  late,   \* history: those of them that had found shutdown set
  done,   \* history: tasks whose function returned
  freed,  \* tasks whose arg was passed to free()
  adjust, \* adjust_thread: "top" | "snapshot" | "busy" | "grow" | "shrink" |
          \* "signal" | "ended"
  seen,   \* its local copies of queue_size, live_thr_num, busy_thr_num
  i,      \* loop variable of its signals, and of threadpool_destroy
  destroy \* "no" | "adjust" | "broadcast" | "join" | "free" | "freed"

queueVars == <<task_queue, queue_front, queue_rear, queue_size>>
condVars == <<queue_not_full, queue_not_empty>>
countVars == <<live_thr_num, busy_thr_num, wait_exit_thr_num>>
workerVars == <<pc, task, done>>
clientVars == <<adding, unlocked, added, late, freed>>
managerVars == <<adjust, seen, i, destroy>>

vars == <<lock, queueVars, condVars, countVars, shutdown, workerVars, clientVars, managerVars>>

\* threadpool_create: everything is set but wait_exit_thr_num and the ring.
threadpool_create ==
  /\ lock = "free"
  /\ task_queue \in [Ring -> GarbageArg]
  /\ queue_front = 0 /\ queue_rear = 0 /\ queue_size = 0
  /\ queue_not_full = {} /\ queue_not_empty = {}
  /\ live_thr_num = min_thr_num /\ busy_thr_num = 0
  /\ wait_exit_thr_num \in GarbageWaitExit
  /\ shutdown = FALSE
  /\ pc = [s \in Slots |-> IF s < min_thr_num THEN "lock" ELSE "none"]
  /\ task = [s \in Slots |-> NULL]
  /\ adding = [c \in Clients |-> NULL] /\ unlocked = {}
  /\ added = {} /\ late = {} /\ done = {} /\ freed = {}
  /\ adjust = "top" /\ seen = [queue_size |-> 0, live |-> 0, busy |-> 0]
  /\ i = 0 /\ destroy = "no"

Init == threadpool_create

Goto(w, label) == pc' = [pc EXCEPT ![w] = label]

-----------------------------------------------------------------------------

\* The worker has the lock: at the top of its loop or back from its wait.
HasLock(w) == (pc[w] = "lock" /\ lock = "free") \/ pc[w] = "woken"

\* threadpool_thread: the wait condition holds.
DecideToWait(w) ==
  /\ HasLock(w)
  /\ queue_size = 0 /\ ~shutdown
  /\ lock' = "held"
  /\ Goto(w, "block")
  /\ UNCHANGED <<queueVars, condVars, countVars, shutdown, task, done, clientVars, managerVars>>

\* pthread_cond_wait puts the worker to sleep and releases the lock.
Block(w) ==
  /\ pc[w] = "block"
  /\ queue_not_empty' = queue_not_empty \cup {w}
  /\ lock' = "free"
  /\ Goto(w, "asleep")
  /\ UNCHANGED <<queueVars, queue_not_full, countVars, shutdown, task, done, clientVars, managerVars>>

\* pthread_cond_wait returns with the lock: exit if too many threads are idle.
Wake(w) ==
  /\ pc[w] = "asleep" /\ w \notin queue_not_empty /\ lock = "free"
  /\ wait_exit_thr_num' = IF wait_exit_thr_num > 0 THEN wait_exit_thr_num - 1
                                                   ELSE wait_exit_thr_num
  /\ IF wait_exit_thr_num > 0 /\ live_thr_num > min_thr_num
       THEN live_thr_num' = live_thr_num - 1 /\ Goto(w, "exited") /\ UNCHANGED lock
       ELSE Goto(w, "woken") /\ lock' = "held" /\ UNCHANGED live_thr_num
  /\ UNCHANGED <<queueVars, condVars, busy_thr_num, shutdown, task, done, clientVars, managerVars>>

\* threadpool_thread: shutdown is set; live_thr_num is not decremented.
ExitOnShutdown(w) ==
  /\ HasLock(w)
  /\ shutdown
  /\ lock' = "free"
  /\ Goto(w, "exited")
  /\ UNCHANGED <<queueVars, condVars, countVars, shutdown, task, done, clientVars, managerVars>>

\* Mutant of Take: the clients that wait for room are not told.
TakeSilently(w) ==
  /\ HasLock(w)
  /\ ~shutdown /\ queue_size # 0
  /\ task' = [task EXCEPT ![w] = task_queue[queue_front]]
  /\ queue_front' = (queue_front + 1) % queue_max_size
  /\ queue_size' = queue_size - 1
  /\ lock' = "free"
  /\ Goto(w, "count")
  /\ UNCHANGED <<task_queue, queue_rear, condVars, countVars, shutdown, done, clientVars, managerVars>>

\* Mutant of Take: queue_front stays where it is.
TakeNoAdvance(w) ==
  /\ HasLock(w)
  /\ ~shutdown /\ queue_size # 0
  /\ task' = [task EXCEPT ![w] = task_queue[queue_front]]
  /\ queue_size' = queue_size - 1
  /\ queue_not_full' = AfterNotifyAll(queue_not_full)
  /\ lock' = "free"
  /\ Goto(w, "count")
  /\ UNCHANGED <<task_queue, queue_front, queue_rear, queue_not_empty, countVars, shutdown, done, clientVars, managerVars>>

\* threadpool_thread: take the task at queue_front, wake every client that
\* waits for room, unlock.
Take(w) ==
  /\ HasLock(w)
  /\ ~shutdown /\ queue_size # 0
  /\ task' = [task EXCEPT ![w] = task_queue[queue_front]]
  /\ queue_front' = (queue_front + 1) % queue_max_size
  /\ queue_size' = queue_size - 1
  /\ queue_not_full' = AfterNotifyAll(queue_not_full)
  /\ lock' = "free"
  /\ Goto(w, "count")
  /\ UNCHANGED <<task_queue, queue_rear, queue_not_empty, countVars, shutdown, done, clientVars, managerVars>>

\* busy_thr_num++ under thread_counter.
CountBusy(w) ==
  /\ pc[w] = "count"
  /\ busy_thr_num' = busy_thr_num + 1
  /\ Goto(w, "run")
  /\ UNCHANGED <<lock, queueVars, condVars, live_thr_num, wait_exit_thr_num, shutdown,
                 task, done, clientVars, managerVars>>

\* The callback returns.
Run(w) ==
  /\ pc[w] = "run"
  /\ done' = done \cup {task[w]}
  /\ task' = [task EXCEPT ![w] = NULL]
  /\ Goto(w, "uncount")
  /\ UNCHANGED <<lock, queueVars, condVars, countVars, shutdown, clientVars, managerVars>>

\* busy_thr_num-- under thread_counter.
UncountBusy(w) ==
  /\ pc[w] = "uncount"
  /\ busy_thr_num' = busy_thr_num - 1
  /\ Goto(w, "lock")
  /\ UNCHANGED <<lock, queueVars, condVars, live_thr_num, wait_exit_thr_num, shutdown,
                 task, done, clientVars, managerVars>>

SpuriousWakeup(w) ==
  /\ w \in queue_not_empty
  /\ queue_not_empty' = queue_not_empty \ {w}
  /\ UNCHANGED <<lock, queueVars, queue_not_full, countVars, shutdown, workerVars, clientVars, managerVars>>

threadpool_thread(w) ==
  \/ DecideToWait(w) \/ Block(w) \/ Wake(w) \/ ExitOnShutdown(w)
  \/ Take(w) \/ CountBusy(w) \/ Run(w) \/ UncountBusy(w)

-----------------------------------------------------------------------------

\* A client calls threadpool_add, each time with a function and argument of
\* its own.
CallAdd(c, t) ==
  /\ adding[c] = NULL
  /\ \A d \in Clients : adding[d] # t
  /\ t \notin added
  /\ destroy = "no" \/ (AddDuringDestroy /\ destroy # "freed")
  /\ adding' = [adding EXCEPT ![c] = t]
  /\ UNCHANGED <<lock, queueVars, condVars, countVars, shutdown, workerVars,
                 unlocked, added, late, freed, managerVars>>

\* The client has the lock, on entry or back from its wait.
ClientHasLock(c) ==
  adding[c] # NULL /\ c \notin queue_not_full \cup unlocked /\ lock = "free"

\* threadpool_add: the ring is full, wait for room.
AddWait(c) ==
  /\ ClientHasLock(c)
  /\ queue_size = queue_max_size /\ ~shutdown
  /\ queue_not_full' = queue_not_full \cup {c}
  /\ UNCHANGED <<lock, queueVars, queue_not_empty, countVars, shutdown, workerVars,
                 clientVars, managerVars>>

\* Mutant of Store: the signal is forgotten.
StoreSilently(c) ==
  /\ freed' = freed \cup ({task_queue[queue_rear]} \ {NULL})
  /\ task_queue' = [task_queue EXCEPT ![queue_rear] = adding[c]]
  /\ queue_rear' = (queue_rear + 1) % queue_max_size
  /\ queue_size' = queue_size + 1
  /\ added' = added \cup {adding[c]}
  /\ adding' = [adding EXCEPT ![c] = NULL]
  /\ UNCHANGED <<queue_front, condVars, countVars, workerVars, managerVars>>

\* Store at queue_rear, after a free() of the argument the slot still holds;
\* signal a worker; return 0.
Store(c) ==
  /\ freed' = freed \cup ({task_queue[queue_rear]} \ {NULL})
  /\ task_queue' = [task_queue EXCEPT ![queue_rear] = adding[c]]
  /\ queue_rear' = (queue_rear + 1) % queue_max_size
  /\ queue_size' = queue_size + 1
  /\ queue_not_empty' \in AfterNotifyOne(queue_not_empty)
  /\ added' = added \cup {adding[c]}
  /\ adding' = [adding EXCEPT ![c] = NULL]
  /\ UNCHANGED <<queue_front, queue_not_full, countVars, workerVars, managerVars>>

\* Mutant of AddStore: the ring is not tested for room.
AddStoreFull(c) ==
  /\ ClientHasLock(c)
  /\ queue_size <= queue_max_size /\ ~shutdown
  /\ Store(c)
  /\ UNCHANGED <<lock, shutdown, unlocked, late>>

\* threadpool_add on a running pool.
AddStore(c) ==
  /\ ClientHasLock(c)
  /\ queue_size # queue_max_size /\ ~shutdown
  /\ Store(c)
  /\ UNCHANGED <<lock, shutdown, unlocked, late>>

\* threadpool_add finds shutdown set and unlocks ...
AddSeesShutdown(c) ==
  /\ ClientHasLock(c)
  /\ shutdown
  /\ unlocked' = unlocked \cup {c}
  /\ UNCHANGED <<lock, queueVars, condVars, countVars, shutdown, workerVars,
                 adding, added, late, freed, managerVars>>

\* ... goes on all the same, stores without the lock and without room, unlocks
\* a second time whoever holds the lock, and returns 0.  A worker that gets the
\* lock after the first unlock sees shutdown too, so no worker reads the ring
\* that is written here.
AddUnlocked(c) ==
  /\ c \in unlocked
  /\ Store(c)
  /\ lock' = "free"
  /\ late' = late \cup {adding[c]}
  /\ unlocked' = unlocked \ {c}
  /\ UNCHANGED shutdown

threadpool_add(c) ==
  AddWait(c) \/ AddStore(c) \/ AddSeesShutdown(c) \/ AddUnlocked(c)

-----------------------------------------------------------------------------

\* adjust_thread: while (!shutdown), and the sleep.
AdjustTop ==
  /\ adjust = "top"
  /\ adjust' = IF shutdown THEN "ended" ELSE "snapshot"
  /\ UNCHANGED <<lock, queueVars, condVars, countVars, shutdown, workerVars, clientVars,
                 seen, i, destroy>>

\* Copies of queue_size and live_thr_num under lock ...
AdjustSnapshot ==
  /\ adjust = "snapshot" /\ lock = "free"
  /\ seen' = [seen EXCEPT !.queue_size = queue_size, !.live = live_thr_num]
  /\ adjust' = "busy"
  /\ UNCHANGED <<lock, queueVars, condVars, countVars, shutdown, workerVars, clientVars,
                 i, destroy>>

\* ... and of busy_thr_num under thread_counter.
AdjustBusy ==
  /\ adjust = "busy"
  /\ seen' = [seen EXCEPT !.busy = busy_thr_num]
  /\ adjust' = "grow"
  /\ UNCHANGED <<lock, queueVars, condVars, countVars, shutdown, workerVars, clientVars,
                 i, destroy>>

\* threads[s] == 0 || !is_thread_alive(threads[s]).
FreeSlots ==
  {s \in Slots : pc[s] = "none" \/ (pc[s] = "exited" /\ ~ExitedSeemsAlive)}

\* The slots the for loop fills: the first ones that are free, at most
\* DEFAULT_THREAD_VARY and no more than live_thr_num allows.
NewThreads ==
  {s \in FreeSlots :
     LET before == Cardinality({r \in FreeSlots : r < s}) IN
     before < DEFAULT_THREAD_VARY /\ live_thr_num + before < max_thr_num}

\* Mutant of AdjustGrow: the loop trusts the copy of live_thr_num.
AdjustGrowStale ==
  /\ adjust = "grow"
  /\ IF seen.queue_size >= MIN_WAIT_TASK_NUM /\ seen.live < max_thr_num
       THEN /\ lock = "free"
            /\ pc' = [s \in Slots |-> IF s \in NewThreads THEN "lock" ELSE pc[s]]
            /\ live_thr_num' = seen.live + Cardinality(NewThreads)
       ELSE UNCHANGED <<pc, live_thr_num>>
  /\ adjust' = "shrink"
  /\ UNCHANGED <<lock, queueVars, condVars, busy_thr_num, wait_exit_thr_num, shutdown,
                 task, done, clientVars, seen, i, destroy>>

\* if (queue_size >= MIN_WAIT_TASK_NUM && live_thr_num < max_thr_num), on the
\* copies; live_thr_num itself is read again in the loop.
AdjustGrow ==
  /\ adjust = "grow"
  /\ IF seen.queue_size >= MIN_WAIT_TASK_NUM /\ seen.live < max_thr_num
       THEN /\ lock = "free"
            /\ pc' = [s \in Slots |-> IF s \in NewThreads THEN "lock" ELSE pc[s]]
            /\ live_thr_num' = live_thr_num + Cardinality(NewThreads)
       ELSE UNCHANGED <<pc, live_thr_num>>
  /\ adjust' = "shrink"
  /\ UNCHANGED <<lock, queueVars, condVars, busy_thr_num, wait_exit_thr_num, shutdown,
                 task, done, clientVars, seen, i, destroy>>

\* if (busy_thr_num * 2 < live_thr_num && live_thr_num > min_thr_num).
AdjustShrink ==
  /\ adjust = "shrink"
  /\ IF seen.busy * 2 < seen.live /\ seen.live > min_thr_num
       THEN /\ lock = "free"
            /\ wait_exit_thr_num' = DEFAULT_THREAD_VARY
            /\ adjust' = "signal"
            /\ i' = 0
       ELSE adjust' = "top" /\ UNCHANGED <<wait_exit_thr_num, i>>
  /\ UNCHANGED <<lock, queueVars, condVars, live_thr_num, busy_thr_num, shutdown,
                 workerVars, clientVars, seen, destroy>>

\* DEFAULT_THREAD_VARY signals, without the lock.
AdjustSignal ==
  /\ adjust = "signal"
  /\ IF i < DEFAULT_THREAD_VARY
       THEN /\ queue_not_empty' \in AfterNotifyOne(queue_not_empty)
            /\ i' = i + 1
            /\ UNCHANGED adjust
       ELSE adjust' = "top" /\ UNCHANGED <<queue_not_empty, i>>
  /\ UNCHANGED <<lock, queueVars, queue_not_full, countVars, shutdown, workerVars,
                 clientVars, seen, destroy>>

adjust_thread ==
  AdjustTop \/ AdjustSnapshot \/ AdjustBusy \/ AdjustGrow \/ AdjustShrink \/ AdjustSignal

-----------------------------------------------------------------------------

\* threadpool_destroy: shutdown = true, without the lock.
DestroyShutdown ==
  /\ destroy = "no"
  /\ AddDuringDestroy \/ \A c \in Clients : adding[c] = NULL
  /\ shutdown' = TRUE
  /\ destroy' = "adjust"
  /\ UNCHANGED <<lock, queueVars, condVars, countVars, workerVars, clientVars, adjust, seen, i>>

\* pthread_join(adjust_tid).
DestroyJoinAdjust ==
  /\ destroy = "adjust" /\ adjust = "ended"
  /\ destroy' = "broadcast"
  /\ i' = 0
  /\ UNCHANGED <<lock, queueVars, condVars, countVars, shutdown, workerVars, clientVars, adjust, seen>>

\* As many broadcasts as live_thr_num says, without the lock.
DestroyBroadcast ==
  /\ destroy = "broadcast"
  /\ IF i < live_thr_num
       THEN /\ queue_not_empty' = AfterNotifyAll(queue_not_empty)
            /\ i' = i + 1
            /\ UNCHANGED destroy
       ELSE destroy' = "join" /\ i' = 0 /\ UNCHANGED queue_not_empty
  /\ UNCHANGED <<lock, queueVars, queue_not_full, countVars, shutdown, workerVars,
                 clientVars, adjust, seen>>

\* pthread_join(threads[i]) for i < live_thr_num.
DestroyJoin ==
  /\ destroy = "join"
  /\ IF i < live_thr_num
       THEN pc[i] = "exited" /\ i' = i + 1 /\ UNCHANGED destroy
       ELSE destroy' = "free" /\ UNCHANGED i
  /\ UNCHANGED <<lock, queueVars, condVars, countVars, shutdown, workerVars,
                 clientVars, adjust, seen>>

\* threadpool_free locks the mutex before it destroys it.
threadpool_free ==
  /\ destroy = "free" /\ lock = "free"
  /\ destroy' = "freed"
  /\ UNCHANGED <<lock, queueVars, condVars, countVars, shutdown, workerVars, clientVars,
                 adjust, seen, i>>

threadpool_destroy ==
  DestroyJoinAdjust \/ DestroyBroadcast \/ DestroyJoin \/ threadpool_free

-----------------------------------------------------------------------------

Next ==
  \/ \E w \in Slots : threadpool_thread(w) \/ SpuriousWakeup(w)
  \/ \E c \in Clients : threadpool_add(c) \/ \E t \in Tasks : CallAdd(c, t)
  \/ adjust_thread
  \/ DestroyShutdown \/ threadpool_destroy

\* Every thread is scheduled and gets a lock that is free again and again,
\* callbacks return, sleep(DEFAULT_TIME) ends, and a call of threadpool_add or
\* threadpool_destroy goes on.  Nobody has to make a call, and wakeups without
\* a signal are not relied on.
Spec ==
  /\ Init /\ [][Next]_vars
  /\ \A w \in Slots : SF_vars(threadpool_thread(w))
  /\ \A c \in Clients : SF_vars(threadpool_add(c))
  /\ SF_vars(adjust_thread)
  /\ SF_vars(threadpool_destroy)

-----------------------------------------------------------------------------

\* Every variable keeps its type.
TypeOK ==
  /\ lock \in {"free", "held"}
  /\ task_queue \in [Ring -> Tasks \cup {NULL, Wild}]
  /\ queue_front \in Ring /\ queue_rear \in Ring
  /\ queue_size \in 0 .. queue_max_size + Cardinality(late)
  /\ queue_not_full \subseteq Clients
  /\ queue_not_empty \subseteq Slots
  /\ pc \in [Slots -> {"none", "lock", "block", "asleep", "woken",
                       "count", "run", "uncount", "exited"}]
  /\ task \in [Slots -> Tasks \cup {NULL}]
  /\ adding \in [Clients -> Tasks \cup {NULL}] /\ unlocked \subseteq Clients
  /\ adjust \in {"top", "snapshot", "busy", "grow", "shrink", "signal", "ended"}
  /\ destroy \in {"no", "adjust", "broadcast", "join", "free", "freed"}

Alive == {w \in Slots : pc[w] \notin {"none", "exited"}}

\* Until the destroy, live_thr_num is the number of threads that exist and
\* stays between the two limits, busy_thr_num is the number of threads inside
\* a callback, although the manager works on stale copies of both.
CountersExact ==
  /\ ~shutdown => live_thr_num = Cardinality(Alive)
  /\ live_thr_num \in min_thr_num .. max_thr_num
  /\ busy_thr_num = Cardinality({w \in Slots : pc[w] \in {"run", "uncount"}})

\* A client sleeps in threadpool_add only while the ring is full.
ClientsSleepOnlyWhenFull ==
  queue_not_full # {} => queue_size >= queue_max_size

Waiting == [k \in 1 .. queue_size |-> task_queue[(queue_front + k - 1) % queue_max_size]]

Running == {task[w] : w \in {v \in Slots : pc[v] \in {"count", "run"}}}

Pool == INSTANCE TaskPool
          WITH waiting <- Waiting, running <- Running, finished <- done, open <- ~shutdown

\* The ring hands out the tasks in order, each once, and never loses one.
ImplementsPool == Pool!Spec

\* A task that threadpool_add accepted is taken, if the pool is not destroyed
\* first (checked for a pool of fixed size).
AddedTasksTaken == \A t \in Tasks : (t \in added) ~> (t \in Running \cup done \/ shutdown)

\* "After a task was added the queue is not empty, wake the threads that wait
\* for one": while tasks are queued some worker is awake.  True of a pool of
\* fixed size; in one that grew and shrank the worker the signal wakes may
\* exit on a leftover wait_exit_thr_num instead of taking the task.
QueuedTasksKeepAWorkerAwake ==
  queue_size > 0 /\ ~shutdown => \E w \in Alive : w \notin queue_not_empty

\* The argument the client passed is passed to the function: nobody frees it
\* while the function may use it.
ArgumentAliveWhileRunning ==
  \A w \in Slots : pc[w] \in {"count", "run"} => task[w] \notin freed

\* The tasks are interchangeable.
TaskSymmetry == Permutations(Tasks)

=============================================================================
