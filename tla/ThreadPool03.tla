---------------------------- MODULE ThreadPool03 ----------------------------
(***************************************************************************)
(* zl_threadpool/03_ThreadPool/ThreadPool.h.  stop is written and read     *)
(* only under queue_mutex, and a worker evaluates its predicate and goes   *)
(* to sleep without releasing queue_mutex in between, so each critical     *)
(* section is one step.  The notifications come after the unlock and are   *)
(* steps of their own.                                                     *)
(***************************************************************************)
EXTENDS CondVar, FiniteSets, Integers, Sequences

CONSTANTS Workers, Clients, Tasks

VARIABLES
  tasks,      \* std::queue tasks
  stop,
  condition,  \* workers inside condition.wait
  worker,     \* [Workers -> "loop" | "run" | "returned"]
  task,       \* [Workers -> what the worker holds in its local task]
  client,     \* [Clients -> "idle" | "notify"]: "notify" is after the emplace
  accepted,   \* history: tasks whose enqueue returned a future or will
  refused,    \* history: tasks whose enqueue threw
  done,       \* history: tasks whose execution is over
  owner       \* the destructor: "alive", "notify", "join", "destroyed"

vars == <<tasks, stop, condition, worker, task, client, accepted, refused, done, owner>>

NoTask == "none"

Init ==
  /\ tasks = <<>>
  /\ stop = FALSE
  /\ condition = {}
  /\ worker = [w \in Workers |-> "loop"]
  /\ task = [w \in Workers |-> NoTask]
  /\ client = [c \in Clients |-> "idle"]
  /\ accepted = {}
  /\ refused = {}
  /\ done = {}
  /\ owner = "alive"

-----------------------------------------------------------------------------

\* The worker's critical section when its predicate is false: wait.
Wait(w) ==
  /\ worker[w] = "loop" /\ w \notin condition
  /\ ~stop /\ tasks = <<>>
  /\ condition' = condition \cup {w}
  /\ UNCHANGED <<tasks, stop, worker, task, client, accepted, refused, done, owner>>

\* if(stop && tasks.empty()) return;
Return(w) ==
  /\ worker[w] = "loop" /\ w \notin condition
  /\ stop /\ tasks = <<>>
  /\ worker' = [worker EXCEPT ![w] = "returned"]
  /\ UNCHANGED <<tasks, stop, condition, task, client, accepted, refused, done, owner>>

\* The front of the queue is moved into the local task.
Take(w) ==
  /\ worker[w] = "loop" /\ w \notin condition
  /\ tasks # <<>>
  /\ task' = [task EXCEPT ![w] = Head(tasks)]
  /\ tasks' = Tail(tasks)
  /\ worker' = [worker EXCEPT ![w] = "run"]
  /\ UNCHANGED <<stop, condition, client, accepted, refused, done, owner>>

\* task() returns and the loop starts again.
Run(w) ==
  /\ worker[w] = "run"
  /\ done' = done \cup {task[w]}
  /\ task' = [task EXCEPT ![w] = NoTask]
  /\ worker' = [worker EXCEPT ![w] = "loop"]
  /\ UNCHANGED <<tasks, stop, condition, client, accepted, refused, owner>>

\* condition.wait may return without a notification; the predicate is
\* evaluated again.
SpuriousWakeup(w) ==
  /\ w \in condition
  /\ condition' = condition \ {w}
  /\ UNCHANGED <<tasks, stop, worker, task, client, accepted, refused, done, owner>>

Worker(w) == Wait(w) \/ Return(w) \/ Take(w) \/ Run(w)

-----------------------------------------------------------------------------

\* enqueue, its critical section on a running pool.  A client may still be
\* in enqueue while the destructor runs, but calls nothing on a dead object.
EnqueueAccept(c, t) ==
  /\ client[c] = "idle" /\ owner # "destroyed"
  /\ t \notin accepted \cup refused
  /\ ~stop
  /\ tasks' = Append(tasks, t)
  /\ accepted' = accepted \cup {t}
  /\ client' = [client EXCEPT ![c] = "notify"]
  /\ UNCHANGED <<stop, condition, worker, task, refused, done, owner>>

\* enqueue on a stopped pool throws.
EnqueueThrow(c, t) ==
  /\ client[c] = "idle" /\ owner # "destroyed"
  /\ t \notin accepted \cup refused
  /\ stop
  /\ refused' = refused \cup {t}
  /\ UNCHANGED <<tasks, stop, condition, worker, task, client, accepted, done, owner>>

\* Mutant of EnqueueNotify: nobody is told.
EnqueueSilent(c) ==
  /\ client[c] = "notify"
  /\ client' = [client EXCEPT ![c] = "idle"]
  /\ UNCHANGED <<tasks, stop, condition, worker, task, accepted, refused, done, owner>>

\* enqueue, after its block: condition.notify_one().
EnqueueNotify(c) ==
  /\ client[c] = "notify"
  /\ condition' \in AfterNotifyOne(condition)
  /\ client' = [client EXCEPT ![c] = "idle"]
  /\ UNCHANGED <<tasks, stop, worker, task, accepted, refused, done, owner>>

\* ~ThreadPool: stop = true under queue_mutex ...
DestructorStop ==
  /\ owner = "alive"
  /\ stop' = TRUE
  /\ owner' = "notify"
  /\ UNCHANGED <<tasks, condition, worker, task, client, accepted, refused, done>>

\* Mutant of DestructorNotify: only one worker is told.
DestructorNotifyOne ==
  /\ owner = "notify"
  /\ condition' \in AfterNotifyOne(condition)
  /\ owner' = "join"
  /\ UNCHANGED <<tasks, stop, worker, task, client, accepted, refused, done>>

\* ... then condition.notify_all() ...
DestructorNotify ==
  /\ owner = "notify"
  /\ condition' = AfterNotifyAll(condition)
  /\ owner' = "join"
  /\ UNCHANGED <<tasks, stop, worker, task, client, accepted, refused, done>>

\* ... then the joins.
DestructorJoin ==
  /\ owner = "join"
  /\ \A w \in Workers : worker[w] = "returned"
  /\ owner' = "destroyed"
  /\ UNCHANGED <<tasks, stop, condition, worker, task, client, accepted, refused, done>>

Destructor == DestructorStop \/ DestructorNotify \/ DestructorJoin

-----------------------------------------------------------------------------

\* The pool is gone.
Terminated == owner = "destroyed" /\ UNCHANGED vars

Next ==
  \/ \E w \in Workers : Worker(w) \/ SpuriousWakeup(w)
  \/ \E c \in Clients : EnqueueNotify(c) \/ \E t \in Tasks : EnqueueAccept(c, t) \/ EnqueueThrow(c, t)
  \/ Destructor
  \/ Terminated

Spec == Init /\ [][Next]_vars

-----------------------------------------------------------------------------

\* Every variable keeps its type.
TypeOK ==
  /\ tasks \in Seq(Tasks)
  /\ stop \in BOOLEAN
  /\ condition \subseteq Workers
  /\ worker \in [Workers -> {"loop", "run", "returned"}]
  /\ task \in [Workers -> Tasks \cup {NoTask}]
  /\ client \in [Clients -> {"idle", "notify"}]
  /\ accepted \subseteq Tasks
  /\ refused \subseteq Tasks
  /\ done \subseteq Tasks
  /\ owner \in {"alive", "notify", "join", "destroyed"}

Running == {task[w] : w \in {v \in Workers : worker[v] = "run"}}

\* While some worker sleeps, every queued task has somebody who will take it:
\* a worker on its way to the queue or a notify_one still to come.  The
\* notification after the unlock (line 83) loses no wakeup.
SleepersNotNeeded ==
  condition # {} =>
    Len(tasks) <= Cardinality({w \in Workers : worker[w] = "loop" /\ w \notin condition})
                    + Cardinality({c \in Clients : client[c] = "notify"})

\* When the joins of the destructor are over, every task whose enqueue did
\* not throw was executed: its future is ready, none is broken.
DestroyedMeansDrained ==
  owner = "destroyed" => tasks = <<>> /\ Running = {} /\ done = accepted

=============================================================================
