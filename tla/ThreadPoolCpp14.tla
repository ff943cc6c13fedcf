--------------------------- MODULE ThreadPoolCpp14 ---------------------------
(***************************************************************************)
(* zl_threadpool/ThreadPoolCpp14/ThreadPool.h.  The threads are detached   *)
(* and keep the queue alive through their own shared_ptr<data>, so the     *)
(* pool object may be gone long before they are.  is_shutdown_ is written  *)
(* and read under mtx_ only; a critical section is one step.               *)
(***************************************************************************)
EXTENDS CondVar, FiniteSets, Integers, Sequences

CONSTANTS Workers, Tasks

VARIABLES
  tasks_,
  is_shutdown_,
  cond_,    \* workers inside cond_.wait
  worker,   \* [Workers -> "loop" | "run" | "left"]
  current,  \* [Workers -> the task the worker moved out of the queue]
  owner,    \* the thread that uses the pool: "idle", "notify_one" (inside
            \* execute), "notify_all" (inside the destructor), "gone"
  refs,     \* who holds a shared_ptr to data: Workers and "pool"
  done      \* history: tasks whose execution is over

vars == <<tasks_, is_shutdown_, cond_, worker, current, owner, refs, done>>

NoTask == "none"

Init ==
  /\ tasks_ = <<>>
  /\ is_shutdown_ = FALSE
  /\ cond_ = {}
  /\ worker = [w \in Workers |-> "loop"]
  /\ current = [w \in Workers |-> NoTask]
  /\ owner = "idle"
  /\ refs = Workers \cup {"pool"}
  /\ done = {}

-----------------------------------------------------------------------------

\* if (!tasks_.empty()): take the front and unlock.
Take(w) ==
  /\ worker[w] = "loop" /\ w \notin cond_
  /\ tasks_ # <<>>
  /\ current' = [current EXCEPT ![w] = Head(tasks_)]
  /\ tasks_' = Tail(tasks_)
  /\ worker' = [worker EXCEPT ![w] = "run"]
  /\ UNCHANGED <<is_shutdown_, cond_, owner, refs, done>>

\* Mutant of Break: is_shutdown_ is tested before the queue.
BreakFirst(w) ==
  /\ worker[w] = "loop" /\ w \notin cond_
  /\ is_shutdown_
  /\ worker' = [worker EXCEPT ![w] = "left"]
  /\ refs' = refs \ {w}
  /\ UNCHANGED <<tasks_, is_shutdown_, cond_, current, owner, done>>

\* else if (is_shutdown_) break; the thread ends and drops its reference.
Break(w) ==
  /\ worker[w] = "loop" /\ w \notin cond_
  /\ tasks_ = <<>> /\ is_shutdown_
  /\ worker' = [worker EXCEPT ![w] = "left"]
  /\ refs' = refs \ {w}
  /\ UNCHANGED <<tasks_, is_shutdown_, cond_, current, owner, done>>

\* else cond_.wait(lk).
Wait(w) ==
  /\ worker[w] = "loop" /\ w \notin cond_
  /\ tasks_ = <<>> /\ ~is_shutdown_
  /\ cond_' = cond_ \cup {w}
  /\ UNCHANGED <<tasks_, is_shutdown_, worker, current, owner, refs, done>>

\* current() returns, lk.lock().
Run(w) ==
  /\ worker[w] = "run"
  /\ done' = done \cup {current[w]}
  /\ current' = [current EXCEPT ![w] = NoTask]
  /\ worker' = [worker EXCEPT ![w] = "loop"]
  /\ UNCHANGED <<tasks_, is_shutdown_, cond_, owner, refs>>

SpuriousWakeup(w) ==
  /\ w \in cond_
  /\ cond_' = cond_ \ {w}
  /\ UNCHANGED <<tasks_, is_shutdown_, worker, current, owner, refs, done>>

Worker(w) == Take(w) \/ Break(w) \/ Wait(w) \/ Run(w)

-----------------------------------------------------------------------------

\* execute: emplace under mtx_ ...
Execute(t) ==
  /\ owner = "idle"
  /\ t \notin done /\ t \notin {tasks_[k] : k \in DOMAIN tasks_}
  /\ \A w \in Workers : current[w] # t
  /\ tasks_' = Append(tasks_, t)
  /\ owner' = "notify_one"
  /\ UNCHANGED <<is_shutdown_, cond_, worker, current, refs, done>>

\* ... then notify_one.
ExecuteNotify ==
  /\ owner = "notify_one"
  /\ cond_' \in AfterNotifyOne(cond_)
  /\ owner' = "idle"
  /\ UNCHANGED <<tasks_, is_shutdown_, worker, current, refs, done>>

\* ~ThreadPool: is_shutdown_ = true under mtx_ ...
DestructorShutdown ==
  /\ owner = "idle"
  /\ is_shutdown_' = TRUE
  /\ owner' = "notify_all"
  /\ UNCHANGED <<tasks_, cond_, worker, current, refs, done>>

\* ... then notify_all, and the member data_ releases the pool's reference.
DestructorNotify ==
  /\ owner = "notify_all"
  /\ cond_' = AfterNotifyAll(cond_)
  /\ owner' = "gone"
  /\ refs' = refs \ {"pool"}
  /\ UNCHANGED <<tasks_, is_shutdown_, worker, current, done>>

Terminated == refs = {} /\ UNCHANGED vars

Next ==
  \/ \E w \in Workers : Worker(w) \/ SpuriousWakeup(w)
  \/ \E t \in Tasks : Execute(t)
  \/ ExecuteNotify \/ DestructorShutdown \/ DestructorNotify \/ Terminated

Spec == Init /\ [][Next]_vars

-----------------------------------------------------------------------------

\* Every variable keeps its type.
TypeOK ==
  /\ tasks_ \in Seq(Tasks)
  /\ is_shutdown_ \in BOOLEAN
  /\ cond_ \subseteq Workers
  /\ worker \in [Workers -> {"loop", "run", "left"}]
  /\ current \in [Workers -> Tasks \cup {NoTask}]
  /\ owner \in {"idle", "notify_one", "notify_all", "gone"}
  /\ refs \subseteq Workers \cup {"pool"}
  /\ done \subseteq Tasks

Running == {current[w] : w \in {v \in Workers : worker[v] = "run"}}

\* While some worker sleeps, every queued task has a worker on its way to the
\* queue or the notify_one of execute still to come.
SleepersNotNeeded ==
  cond_ # {} =>
    Len(tasks_) <= Cardinality({w \in Workers : worker[w] = "loop" /\ w \notin cond_})
                     + (IF owner = "notify_one" THEN 1 ELSE 0)

\* The queue dies with the last reference (line 25 copies data_ into each
\* thread): by then nothing is left in it and nobody is inside wait.
DataFreedEmpty ==
  refs = {} => tasks_ = <<>> /\ Running = {} /\ cond_ = {}

=============================================================================
