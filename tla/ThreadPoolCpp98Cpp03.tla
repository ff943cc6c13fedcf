------------------------ MODULE ThreadPoolCpp98Cpp03 -------------------------
(***************************************************************************)
(* zl_threadpool/ThreadPoolCpp98: the queue holds pointers to task         *)
(* objects.  The client calls stop() whenever it likes and then destroys   *)
(* the pool; the destructor calls stop() again, which returns at once, and *)
(* deletes the tasks the workers abandoned.                                *)
(* zl_threadpool/ThreadPoolCpp03 (names with 03) with its main program:    *)
(* main queues all its tasks, then asks for size() until it is 0 and calls *)
(* stop().                                                                 *)
(***************************************************************************)
EXTENDS StopFlagPool

VARIABLES added,    \* tasks passed to addTask
          deleted   \* Cpp98: tasks the destructor deleted

vars == <<poolVars, added, deleted>>

Init == PoolInit /\ added = {} /\ deleted = {}

\* take and threadFunc: the outer loop of take repeats only for an empty
\* queue on a running pool, which the inner one has just excluded.
take(w) == (Lock(w) \/ Check(w) \/ Block(w) \/ GiveUp(w) \/ Dequeue(w)) /\ UNCHANGED <<added, deleted>>

threadFunc(w) == (LoopTest(w) \/ Run(w)) /\ UNCHANGED <<added, deleted>>

WorkerStep(w) == take(w) \/ threadFunc(w)

\* addTask does not look at isRunning_; a client queues nothing on a pool it
\* has stopped.
addTask(t) ==
  /\ t \notin added
  /\ Push(t)
  /\ added' = added \cup {t}
  /\ UNCHANGED deleted

addTaskSignal == Signal /\ UNCHANGED <<added, deleted>>

\* stop, after its first assignment.
stopContinues == (StopBroadcast \/ StopJoin) /\ UNCHANGED <<added, deleted>>

stop == (StopFlag /\ UNCHANGED <<added, deleted>>) \/ stopContinues

\* ~ThreadPool after a stop() that has returned: delete what is queued.
Destructor ==
  /\ owner = "end"
  /\ deleted' = deleted \cup {queue[k] : k \in DOMAIN queue}
  /\ queue' = <<>>
  /\ UNCHANGED <<stopped, mutex, cond, pc, task, done, owner, added>>

Next ==
  \/ \E w \in Workers : WorkerStep(w)
  \/ \E w \in Workers : SpuriousWakeup(w) /\ UNCHANGED <<added, deleted>>
  \/ \E t \in Tasks : addTask(t)
  \/ addTaskSignal \/ stop \/ Destructor

Spec == Init /\ [][Next]_vars

-----------------------------------------------------------------------------

\* Every variable keeps its type.
TypeOK == PoolTypeOK /\ added \subseteq Tasks /\ deleted \subseteq Tasks

\* No queued task of a running pool depends on a worker that sleeps: the
\* signal after the unlock of addTask loses no wakeup, whatever the workers do
\* between the push and the signal.  (The broadcast of stop can be lost.)
SleepersNotNeeded == EnoughAwake(IF owner = "signal" THEN 1 ELSE 0)

\* The destructor deletes no task a worker has run or is running, and every
\* task that was added is queued, running, done or deleted: none is lost.
EveryTaskAccountedFor ==
  /\ deleted \cap (done \cup Running) = {}
  /\ added = {queue[k] : k \in DOMAIN queue} \cup Running \cup done \cup deleted

-----------------------------------------------------------------------------
\* ThreadPoolCpp03

vars03 == <<poolVars, added>>

Init03 == PoolInit /\ added = {}

\* main's for loop; addTask does not look at isRunning_.
addTask03(t) ==
  /\ t \notin added
  /\ Push(t)
  /\ added' = added \cup {t}

addTaskSignal03 == Signal /\ UNCHANGED added

WorkerStep03(w) == Worker(w) /\ UNCHANGED added

\* if (threadPool.size() == 0); size() locks the mutex.
SizeIsZero == mutex = Nobody /\ queue = <<>>

\* main's while loop finds size() == 0 and calls stop().
MainStops ==
  /\ added = Tasks
  /\ SizeIsZero
  /\ StopFlag
  /\ UNCHANGED added

stop03 == (StopBroadcast \/ StopJoin) /\ UNCHANGED added

Exit == owner = "end" /\ UNCHANGED vars03

Next03 ==
  \/ \E w \in Workers : WorkerStep03(w) \/ (SpuriousWakeup(w) /\ UNCHANGED added)
  \/ \E t \in Tasks : addTask03(t)
  \/ addTaskSignal03 \/ MainStops \/ stop03 \/ Exit

Spec03 == Init03 /\ [][Next03]_vars03

-----------------------------------------------------------------------------

\* Every variable keeps its type.
TypeOK03 == PoolTypeOK /\ added \subseteq Tasks

\* No queued task of a running pool depends on a worker that sleeps: the
\* signal after the unlock of addTask loses no wakeup, whatever the workers do
\* between the push and the signal.  (The broadcast of stop can be lost.)
SleepersNotNeeded03 == EnoughAwake(IF owner = "signal" THEN 1 ELSE 0)

\* When stop() returns to main, every task was executed to its end, although
\* stop makes the workers abandon the queue: main waited for it to be empty,
\* and a worker never drops a task it has taken.
NothingLost == owner = "end" => done = Tasks /\ queue = <<>>

==============================================================================
