--------------------------- MODULE ThreadPoolCpp11 ---------------------------
(***************************************************************************)
(* zl_threadpool/ThreadPoolCpp11: stop_ is a std::atomic<bool>, stored and *)
(* followed by notify_all without mtx_ in the destructor; the member tg_   *)
(* then joins the workers.  add refuses a task once stop_ is set.          *)
(***************************************************************************)
EXTENDS StopFlagPool

VARIABLES
  adder,     \* a client thread in add: "idle", "emplace" (it holds mtx_ and has
             \* read stop_ as false), "unlock", "notify"
  accepted,  \* tasks whose add returned a future, or will
  refused    \* tasks whose add threw

addVars == <<adder, accepted, refused>>

vars == <<poolVars, addVars>>

Init == PoolInit /\ adder = "idle" /\ accepted = {} /\ refused = {}

\* The lambda of the constructor.
WorkerLambda(w) == Worker(w) /\ UNCHANGED addVars

\* add: lock mtx_ and read stop_, which the destructor stores without mtx_.
addTest ==
  /\ adder = "idle" /\ owner # "end"
  /\ accepted \cup refused # Tasks
  /\ mutex = Nobody
  /\ ~stopped
  /\ mutex' = Client
  /\ adder' = "emplace"
  /\ UNCHANGED <<queue, stopped, cond, pc, task, done, owner, accepted, refused>>

\* Mutant of addThrow: add queues the task although stop_ is set.
addOnStopped(t) ==
  /\ adder = "idle" /\ owner # "end"
  /\ t \notin accepted \cup refused
  /\ mutex = Nobody
  /\ stopped
  /\ queue' = Append(queue, t)
  /\ accepted' = accepted \cup {t}
  /\ UNCHANGED <<stopped, mutex, cond, pc, task, done, owner, adder, refused>>

\* add: stop_ is set, unlock and throw.
addThrow(t) ==
  /\ adder = "idle" /\ owner # "end"
  /\ t \notin accepted \cup refused
  /\ mutex = Nobody
  /\ stopped
  /\ refused' = refused \cup {t}
  /\ UNCHANGED <<poolVars, adder, accepted>>

\* add: tasks_.emplace.
addEmplace(t) ==
  /\ adder = "emplace"
  /\ t \notin accepted \cup refused
  /\ queue' = Append(queue, t)
  /\ accepted' = accepted \cup {t}
  /\ adder' = "unlock"
  /\ UNCHANGED <<stopped, mutex, cond, pc, task, done, owner, refused>>

\* add: the lock_guard goes out of scope.
addUnlock ==
  /\ adder = "unlock"
  /\ mutex' = Nobody
  /\ adder' = "notify"
  /\ UNCHANGED <<queue, stopped, cond, pc, task, done, owner, accepted, refused>>

\* add: cond_.notify_one().
addNotify ==
  /\ adder = "notify"
  /\ cond' \in AfterNotifyOne(cond)
  /\ adder' = "idle"
  /\ UNCHANGED <<queue, stopped, mutex, pc, task, done, owner, accepted, refused>>

\* add, once it has read stop_ as false.
addContinues == addUnlock \/ addNotify \/ \E t \in Tasks : addEmplace(t)

add == addTest \/ addContinues \/ \E t \in Tasks : addThrow(t)

\* ~ThreadPool: stop(), cond_.notify_all(), and ~ThreadsGuard's joins.
DestructorContinues == (StopBroadcast \/ StopJoin) /\ UNCHANGED addVars

Destructor == (StopFlag /\ UNCHANGED addVars) \/ DestructorContinues

Next ==
  \/ \E w \in Workers : WorkerLambda(w)
  \/ \E w \in Workers : SpuriousWakeup(w) /\ UNCHANGED addVars
  \/ add \/ Destructor

\* The workers are scheduled and get a mutex that is free again and again;
\* add and the destructor go on once begun.  A wakeup without a notification
\* may happen, but nothing makes it happen.
Spec ==
  /\ Init /\ [][Next]_vars
  /\ \A w \in Workers : SF_vars(WorkerLambda(w))
  /\ WF_vars(addContinues)
  /\ WF_vars(DestructorContinues)

-----------------------------------------------------------------------------

\* Every variable keeps its type.
TypeOK ==
  /\ PoolTypeOK
  /\ adder \in {"idle", "emplace", "unlock", "notify"}
  /\ accepted \subseteq Tasks
  /\ refused \subseteq Tasks

\* No queued task of a running pool depends on a worker that sleeps: the
\* notify_one of add, outside the lock, loses no wakeup.
SleepersNotNeeded == EnoughAwake(IF adder \in {"unlock", "notify"} THEN 1 ELSE 0)

\* Each accepted task is queued, running or done, and once the destructor is
\* over none is running: what is still queued then has a broken promise, and
\* only a task nobody had started can be in that position.
BrokenPromisesNeverStarted ==
  /\ accepted = {queue[k] : k \in DOMAIN queue} \cup Running \cup done
  /\ owner = "end" => Running = {}

\* The destructor waits for the threads to end, as the comment on tg_ says,
\* and returns.  It does not: notify_all may fall between a worker's
\* evaluation of the predicate and its sleep.
DestructorReturns == stopped ~> (owner = "end")

=============================================================================
