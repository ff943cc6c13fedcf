---------------------------- MODULE StopFlagPool ----------------------------
(***************************************************************************)
(* The worker loop and the stop protocol that the pools ThreadPoolCpp03,   *)
(* ThreadPoolCpp98 and ThreadPoolCpp11 share.  The flag that ends the      *)
(* workers is written, and the condition variable broadcast, without the   *)
(* mutex.  The steps between a worker's lock and its unlock are therefore  *)
(* visible to the stopping thread and are modelled one by one; above all   *)
(* the one between the evaluation of the wait condition and the moment the *)
(* worker is inside the wait.                                              *)
(***************************************************************************)
EXTENDS CondVar, FiniteSets, Integers, Sequences

CONSTANTS Workers, Tasks

VARIABLES
  queue,    \* taskQueue_ / tasks_
  stopped,  \* ~isRunning_ / stop_
  mutex,    \* the worker that holds it, Client or Nobody
  cond,     \* workers inside the wait
  pc,       \* [Workers -> "top" | "lock" | "check" | "block" | "asleep" |
            \*             "test" | "run" | "exited"]
  task,     \* [Workers -> the task the worker took]
  done,     \* history: tasks whose execution is over
  owner     \* the thread that uses the pool: "use", "signal" (a task was
            \* queued, its signal is to come), "broadcast", "join", "end"

poolVars == <<queue, stopped, mutex, cond, pc, task, done, owner>>

Nobody == "nobody"

\* A client thread as the holder of the mutex.
Client == "client"

NoTask == "none"

PoolInit ==
  /\ queue = <<>>
  /\ stopped = FALSE
  /\ mutex = Nobody
  /\ cond = {}
  /\ pc = [w \in Workers |-> "top"]
  /\ task = [w \in Workers |-> NoTask]
  /\ done = {}
  /\ owner = "use"

Goto(w, label) == pc' = [pc EXCEPT ![w] = label]

-----------------------------------------------------------------------------

\* threadFunc: while (isRunning_).
LoopTest(w) ==
  /\ pc[w] = "top"
  /\ Goto(w, IF stopped THEN "exited" ELSE "lock")
  /\ UNCHANGED <<queue, stopped, mutex, cond, task, done, owner>>

\* take: lock the mutex, also as the last part of a wait that returns.
Lock(w) ==
  /\ \/ pc[w] = "lock"
     \/ pc[w] = "asleep" /\ w \notin cond
  /\ mutex = Nobody
  /\ mutex' = w
  /\ Goto(w, "check")
  /\ UNCHANGED <<queue, stopped, cond, task, done, owner>>

\* take: evaluate the condition of the while loop around the wait.
Check(w) ==
  /\ pc[w] = "check"
  /\ Goto(w, IF queue = <<>> /\ ~stopped THEN "block" ELSE "test")
  /\ UNCHANGED <<queue, stopped, mutex, cond, task, done, owner>>

\* take: the wait begins and releases the mutex.
Block(w) ==
  /\ pc[w] = "block"
  /\ cond' = cond \cup {w}
  /\ mutex' = Nobody
  /\ Goto(w, "asleep")
  /\ UNCHANGED <<queue, stopped, task, done, owner>>

\* take: if (!isRunning_) unlock and give up, with tasks queued or not.
GiveUp(w) ==
  /\ pc[w] = "test"
  /\ stopped
  /\ mutex' = Nobody
  /\ Goto(w, "exited")
  /\ UNCHANGED <<queue, stopped, cond, task, done, owner>>

\* take: the front of the queue is removed, and the mutex released.
Dequeue(w) ==
  /\ pc[w] = "test"
  /\ ~stopped
  /\ task' = [task EXCEPT ![w] = Head(queue)]
  /\ queue' = Tail(queue)
  /\ mutex' = Nobody
  /\ Goto(w, "run")
  /\ UNCHANGED <<stopped, cond, done, owner>>

\* Mutant of Run: what is run is the moved-from task.
RunMovedFrom(w) ==
  /\ pc[w] = "run"
  /\ done' = done \cup {NoTask}
  /\ task' = [task EXCEPT ![w] = NoTask]
  /\ Goto(w, "top")
  /\ UNCHANGED <<queue, stopped, mutex, cond, owner>>

\* threadFunc: task() returns.
Run(w) ==
  /\ pc[w] = "run"
  /\ done' = done \cup {task[w]}
  /\ task' = [task EXCEPT ![w] = NoTask]
  /\ Goto(w, "top")
  /\ UNCHANGED <<queue, stopped, mutex, cond, owner>>

\* A wait may return without a notification.
SpuriousWakeup(w) ==
  /\ w \in cond
  /\ cond' = cond \ {w}
  /\ UNCHANGED <<queue, stopped, mutex, pc, task, done, owner>>

\* take and threadFunc.
Worker(w) ==
  \/ LoopTest(w) \/ Lock(w) \/ Check(w) \/ Block(w)
  \/ GiveUp(w) \/ Dequeue(w) \/ Run(w)

-----------------------------------------------------------------------------

\* addTask: push_back under the mutex ...
Push(t) ==
  /\ owner = "use"
  /\ mutex = Nobody
  /\ queue' = Append(queue, t)
  /\ owner' = "signal"
  /\ UNCHANGED <<stopped, mutex, cond, pc, task, done>>

\* ... and the signal after the unlock.
Signal ==
  /\ owner = "signal"
  /\ cond' \in AfterNotifyOne(cond)
  /\ owner' = "use"
  /\ UNCHANGED <<queue, stopped, mutex, pc, task, done>>

\* stop: isRunning_ = false, without the mutex ...
StopFlag ==
  /\ owner = "use"
  /\ ~stopped
  /\ stopped' = TRUE
  /\ owner' = "broadcast"
  /\ UNCHANGED <<queue, mutex, cond, pc, task, done>>

\* ... the broadcast, without the mutex ...
StopBroadcast ==
  /\ owner = "broadcast"
  /\ cond' = AfterNotifyAll(cond)
  /\ owner' = "join"
  /\ UNCHANGED <<queue, stopped, mutex, pc, task, done>>

\* ... and the joins.
StopJoin ==
  /\ owner = "join"
  /\ \A w \in Workers : pc[w] = "exited"
  /\ owner' = "end"
  /\ UNCHANGED <<queue, stopped, mutex, cond, pc, task, done>>

-----------------------------------------------------------------------------

PoolTypeOK ==
  /\ queue \in Seq(Tasks)
  /\ stopped \in BOOLEAN
  /\ mutex \in Workers \cup {Nobody, Client}
  /\ cond \subseteq Workers
  /\ pc \in [Workers -> {"top", "lock", "check", "block", "asleep",
                         "test", "run", "exited"}]
  /\ task \in [Workers -> Tasks \cup {NoTask}]
  /\ done \subseteq Tasks
  /\ owner \in {"use", "signal", "broadcast", "join", "end"}

Running == {task[w] : w \in {v \in Workers : pc[v] = "run"}}

\* While some worker is inside the wait of a running pool, every queued task
\* has a worker on its way to the queue or a signal still to come.
EnoughAwake(signalsToCome) ==
  cond # {} /\ ~stopped =>
    Len(queue) <= Cardinality({w \in Workers : pc[w] # "run" /\ w \notin cond}) + signalsToCome

=============================================================================
