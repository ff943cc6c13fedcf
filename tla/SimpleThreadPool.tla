-------------------------- MODULE SimpleThreadPool --------------------------
(***************************************************************************)
(* zl_threadpool/01_simple_threadPool/threadPool.cpp: the jobs are the     *)
(* nodes of an intrusive doubly linked list with insertion and removal at  *)
(* its head.  Each worker has a terminate flag of its own, which           *)
(* nThreadPoolDestory sets without the mutex while it walks the list of    *)
(* workers; a worker frees its own node of that list when it ends.         *)
(***************************************************************************)
EXTENDS CondVar, Integers, Sequences

CONSTANTS
  workers,    \* the workers in the order of the list pool->workers
  Jobs,       \* the nJob objects of the client
  MaxPushes   \* bound: calls of nThreadPoolPushTask

WorkerSet == {workers[k] : k \in DOMAIN workers}

NULL == "NULL"

VARIABLES
  jobs, next, prev,  \* the list: its head, and the two links of every nJob
  mtx,               \* the worker that holds it, or NULL
  cond,              \* workers inside pthread_cond_wait
  pc,                \* [WorkerSet -> "lock" | "check" | "block" | "asleep" |
                     \*             "test" | "run" | "freed"]
  job,               \* [WorkerSet -> the local variable job]
  terminate,         \* [WorkerSet -> BOOLEAN]
  destory,           \* nThreadPoolDestory: "no", "walk", "broadcast", "done",
                     \* or "crashed"
  at, told,          \* its loop is at workers[at]; its body was run for it
  stack,             \* history: the jobs pushed and not taken, newest first
  pushes             \* history: number of pushes

vars == <<jobs, next, prev, mtx, cond, pc, job, terminate, destory, at, told, stack, pushes>>

\* After a successful nThreadPoolCreate.
Init ==
  /\ jobs = NULL
  /\ next = [j \in Jobs |-> NULL]
  /\ prev = [j \in Jobs |-> NULL]
  /\ mtx = NULL
  /\ cond = {}
  /\ pc = [w \in WorkerSet |-> "lock"]
  /\ job = [w \in WorkerSet |-> NULL]
  /\ terminate = [w \in WorkerSet |-> FALSE]
  /\ destory = "no"
  /\ at = 1
  /\ told = FALSE
  /\ stack = <<>>
  /\ pushes = 0

listVars == <<jobs, next, prev, stack>>

destroyVars == <<terminate, destory, at, told>>

Goto(w, label) == pc' = [pc EXCEPT ![w] = label]

\* An access through a pointer that may be NULL is guarded in the macros.
Set(links, node, value) == IF node = NULL THEN links ELSE [links EXCEPT ![node] = value]

\* LL_INSERT(item, jobs).
LL_INSERT(item) ==
  /\ prev' = Set([prev EXCEPT ![item] = NULL], jobs, item)
  /\ next' = [next EXCEPT ![item] = jobs]
  /\ jobs' = item

\* Mutant of LL_REMOVE: the second line of the macro is missing.
LL_REMOVE_OneWay(item) ==
  /\ next' = [Set(next, prev[item], next[item]) EXCEPT ![item] = NULL]
  /\ prev' = [prev EXCEPT ![item] = NULL]
  /\ jobs' = IF jobs = item THEN next[item] ELSE jobs

\* LL_REMOVE(item, jobs).
LL_REMOVE(item) ==
  /\ next' = [Set(next, prev[item], next[item]) EXCEPT ![item] = NULL]
  /\ prev' = [Set(prev, next[item], prev[item]) EXCEPT ![item] = NULL]
  /\ jobs' = IF jobs = item THEN next[item] ELSE jobs

-----------------------------------------------------------------------------

\* nThreadCallback: lock, also when pthread_cond_wait returns.
Lock(w) ==
  /\ pc[w] = "lock" \/ (pc[w] = "asleep" /\ w \notin cond)
  /\ mtx = NULL
  /\ mtx' = w
  /\ Goto(w, "check")
  /\ UNCHANGED <<listVars, cond, job, destroyVars, pushes>>

\* while(jobs == NULL) { if (terminate) break; ...
Check(w) ==
  /\ pc[w] = "check"
  /\ Goto(w, IF jobs = NULL /\ ~terminate[w] THEN "block" ELSE "test")
  /\ UNCHANGED <<listVars, mtx, cond, job, destroyVars, pushes>>

\* ... pthread_cond_wait }.
Block(w) ==
  /\ pc[w] = "block"
  /\ cond' = cond \cup {w}
  /\ mtx' = NULL
  /\ Goto(w, "asleep")
  /\ UNCHANGED <<listVars, job, destroyVars, pushes>>

\* if (terminate) unlock and break; free(worker) follows.
Exit(w) ==
  /\ pc[w] = "test"
  /\ terminate[w]
  /\ mtx' = NULL
  /\ Goto(w, "freed")
  /\ UNCHANGED <<listVars, cond, job, destroyVars, pushes>>

\* Take the head of the list and unlock.
Take(w) ==
  /\ pc[w] = "test"
  /\ ~terminate[w]
  /\ job' = [job EXCEPT ![w] = jobs]
  /\ LL_REMOVE(jobs)
  /\ stack' = Tail(stack)
  /\ mtx' = NULL
  /\ Goto(w, "run")
  /\ UNCHANGED <<cond, destroyVars, pushes>>

\* job->func(job->user_data) returns.
Run(w) ==
  /\ pc[w] = "run"
  /\ job' = [job EXCEPT ![w] = NULL]
  /\ Goto(w, "lock")
  /\ UNCHANGED <<listVars, mtx, cond, destroyVars, pushes>>

SpuriousWakeup(w) ==
  /\ w \in cond
  /\ cond' = cond \ {w}
  /\ UNCHANGED <<listVars, mtx, pc, job, destroyVars, pushes>>

nThreadCallback(w) == Lock(w) \/ Check(w) \/ Block(w) \/ Exit(w) \/ Take(w) \/ Run(w)

-----------------------------------------------------------------------------

\* nThreadPoolPushTask, one critical section.  main pushes one and the same
\* nJob again, but (by sleeping) only after it has run.
nThreadPoolPushTask(j) ==
  /\ destory = "no" /\ pushes < MaxPushes
  /\ \A k \in DOMAIN stack : stack[k] # j
  /\ \A w \in WorkerSet : job[w] # j
  /\ mtx = NULL
  /\ LL_INSERT(j)
  /\ stack' = <<j>> \o stack
  /\ pushes' = pushes + 1
  /\ cond' \in AfterNotifyOne(cond)
  /\ UNCHANGED <<mtx, pc, job, destroyVars>>

\* nThreadPoolDestory is called.
BeginDestory ==
  /\ destory = "no"
  /\ destory' = "walk"
  /\ UNCHANGED <<listVars, mtx, cond, pc, job, terminate, at, told, pushes>>

\* worker->terminate = 1, without the mutex.
Tell ==
  /\ destory = "walk" /\ ~told
  /\ terminate' = [terminate EXCEPT ![workers[at]] = TRUE]
  /\ told' = TRUE
  /\ UNCHANGED <<listVars, mtx, cond, pc, job, destory, at, pushes>>

\* worker = worker->next.  The worker just told may have freed its node: then
\* the read is undefined and finds either the old link or something unusable.
Advance ==
  /\ destory = "walk" /\ told
  /\ \/ at < Len(workers) /\ at' = at + 1 /\ UNCHANGED destory
     \/ at = Len(workers) /\ destory' = "broadcast" /\ UNCHANGED at
     \/ pc[workers[at]] = "freed" /\ destory' = "crashed" /\ UNCHANGED at
  /\ told' = FALSE
  /\ UNCHANGED <<listVars, mtx, cond, pc, job, terminate, pushes>>

\* pthread_cond_broadcast, with the mutex.
Broadcast ==
  /\ destory = "broadcast"
  /\ mtx = NULL
  /\ cond' = AfterNotifyAll(cond)
  /\ destory' = "done"
  /\ UNCHANGED <<listVars, mtx, pc, job, terminate, at, told, pushes>>

nThreadPoolDestory == Tell \/ Advance \/ Broadcast

\* A step of a worker of a process that has not crashed.
WorkerStep(w) == destory # "crashed" /\ nThreadCallback(w)

AllFreed == \A w \in WorkerSet : pc[w] = "freed"

Ended == (destory = "crashed" \/ (destory = "done" /\ AllFreed)) /\ UNCHANGED vars

Next ==
  \/ \E w \in WorkerSet : WorkerStep(w)
  \/ /\ destory # "crashed"
     /\ \/ \E w \in WorkerSet : SpuriousWakeup(w)
        \/ \E j \in Jobs : nThreadPoolPushTask(j)
        \/ BeginDestory \/ nThreadPoolDestory
  \/ Ended

Spec == Init /\ [][Next]_vars

-----------------------------------------------------------------------------

\* Every variable keeps its type.
TypeOK ==
  /\ jobs \in Jobs \cup {NULL}
  /\ next \in [Jobs -> Jobs \cup {NULL}]
  /\ prev \in [Jobs -> Jobs \cup {NULL}]
  /\ mtx \in WorkerSet \cup {NULL}
  /\ cond \subseteq WorkerSet
  /\ pc \in [WorkerSet -> {"lock", "check", "block", "asleep", "test", "run", "freed"}]
  /\ job \in [WorkerSet -> Jobs \cup {NULL}]
  /\ terminate \in [WorkerSet -> BOOLEAN]
  /\ destory \in {"no", "walk", "broadcast", "done", "crashed"}
  /\ at \in DOMAIN workers
  /\ told \in BOOLEAN

\* The links of LL_INSERT and LL_REMOVE always spell out the jobs that were
\* pushed and not taken, newest first, in both directions, and a job that is
\* not in the list has no links.
ListIsStack ==
  /\ jobs = IF stack = <<>> THEN NULL ELSE stack[1]
  /\ \A k \in DOMAIN stack :
       /\ next[stack[k]] = IF k = Len(stack) THEN NULL ELSE stack[k + 1]
       /\ prev[stack[k]] = IF k = 1 THEN NULL ELSE stack[k - 1]
  /\ \A j \in Jobs : (\A k \in DOMAIN stack : stack[k] # j) => next[j] = NULL /\ prev[j] = NULL

\* After the broadcast no worker is asleep for good: it takes the mutex (line
\* 135), so a worker between its test of terminate and its wait is not missed.
NobodySleepsThroughDestory ==
  destory = "done" => cond = {} /\ \A w \in WorkerSet : pc[w] # "block" /\ terminate[w]

=============================================================================
