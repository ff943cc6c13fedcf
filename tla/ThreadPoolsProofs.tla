-------------------------- MODULE ThreadPoolsProofs --------------------------
(***************************************************************************)
(* The pools of zl_threadpool/, for every number of workers, clients and   *)
(* tasks: nobody sleeps who is needed, and no task is lost.  The proofs of *)
(* 02_thread_pool are those of AdaptivePoolProofs, for the pool of fixed   *)
(* size that is used here.                                                 *)
(***************************************************************************)
EXTENDS MCThreadPools, FiniteSetTheorems, TLAPS

P02 == INSTANCE AdaptivePoolProofs
         WITH min_thr_num <- 2, max_thr_num <- 2, queue_max_size <- 2,
              MIN_WAIT_TASK_NUM <- 1, DEFAULT_THREAD_VARY <- 1,
              Tasks <- Tasks \ {CHOOSE t \in Tasks : TRUE}, Clients <- {CHOOSE c \in Clients : TRUE},
              GarbageWaitExit <- {0}, GarbageArg <- {"NULL"},
              ExitedSeemsAlive <- FALSE, AddDuringDestroy <- FALSE,
              lock <- mutex, task_queue <- queue, queue_front <- jobs, queue_rear <- next, queue_size <- prev,
              queue_not_full <- terminate, queue_not_empty <- cond,
              live_thr_num <- at, busy_thr_num <- told, wait_exit_thr_num <- pushes, shutdown <- stopped,
              adding <- client, unlocked <- refused, added <- accepted, late <- deleted, freed <- refs,
              destroy <- owner

-----------------------------------------------------------------------------
\* 02_thread_pool: T02 and P02 are the same pool, with and without its proofs.

LEMMA Same02Base ==
  /\ T02!Slots = P02!Slots /\ T02!Ring = P02!Ring /\ T02!NULL = P02!NULL /\ T02!Wild = P02!Wild
  /\ \A S : T02!Cardinality(S) = P02!Cardinality(S)
  /\ \A S : T02!AfterNotifyOne(S) = P02!AfterNotifyOne(S)
  /\ \A S : T02!AfterNotifyAll(S) = P02!AfterNotifyAll(S)
  /\ T02!vars = P02!vars /\ T02!vars' = P02!vars'
BY DEF P02!Slots, T02!Slots, P02!Ring, T02!Ring, P02!NULL, T02!NULL, P02!Wild, T02!Wild, P02!Cardinality,
       T02!Cardinality, P02!AfterNotifyOne, T02!AfterNotifyOne, P02!AfterNotifyAll, T02!AfterNotifyAll, P02!vars,
       T02!vars, P02!queueVars, T02!queueVars, P02!condVars, T02!condVars, P02!countVars, T02!countVars,
       P02!workerVars, T02!workerVars, P02!clientVars, T02!clientVars, P02!managerVars, T02!managerVars

\* The two instances of the adaptive pool start in the same states.
LEMMA Same02Inits ==
  (T02!Init <=> P02!Init) /\ (T02!TypeOK <=> P02!TypeOK)
    /\ (T02!QueuedTasksKeepAWorkerAwake <=> P02!QueuedTasksKeepAWorkerAwake)
BY Same02Base DEF P02!Init, T02!Init, P02!threadpool_create, T02!threadpool_create, P02!TypeOK, T02!TypeOK,
   P02!QueuedTasksKeepAWorkerAwake, T02!QueuedTasksKeepAWorkerAwake, P02!Alive, T02!Alive

\* Their workers take the same steps,
LEMMA Same02Workers ==
  \A w : (T02!threadpool_thread(w) <=> P02!threadpool_thread(w)) /\ (T02!SpuriousWakeup(w) <=> P02!SpuriousWakeup(w))
BY Same02Base DEF P02!threadpool_thread, T02!threadpool_thread, P02!DecideToWait, T02!DecideToWait,
   P02!Block, T02!Block, P02!Wake, T02!Wake, P02!ExitOnShutdown, T02!ExitOnShutdown, P02!Take, T02!Take,
   P02!CountBusy, T02!CountBusy, P02!Run, T02!Run, P02!UncountBusy, T02!UncountBusy, P02!SpuriousWakeup,
   T02!SpuriousWakeup, P02!HasLock, T02!HasLock, P02!Goto, T02!Goto, P02!queueVars, T02!queueVars,
   P02!condVars, T02!condVars, P02!countVars, T02!countVars, P02!workerVars, T02!workerVars, P02!clientVars,
   T02!clientVars, P02!managerVars, T02!managerVars

\* and their clients,
LEMMA Same02Clients ==
  \A c, t : (T02!threadpool_add(c) <=> P02!threadpool_add(c)) /\ (T02!CallAdd(c, t) <=> P02!CallAdd(c, t))
BY Same02Base DEF P02!threadpool_add, T02!threadpool_add, P02!AddWait, T02!AddWait, P02!AddStore,
   T02!AddStore, P02!AddSeesShutdown, T02!AddSeesShutdown, P02!AddUnlocked, T02!AddUnlocked, P02!Store,
   T02!Store, P02!ClientHasLock, T02!ClientHasLock, P02!CallAdd, T02!CallAdd, P02!queueVars, T02!queueVars,
   P02!condVars, T02!condVars, P02!countVars, T02!countVars, P02!workerVars, T02!workerVars, P02!clientVars,
   T02!clientVars, P02!managerVars, T02!managerVars

\* and the manager, the destroy and spurious wakeups.
LEMMA Same02Others ==
  /\ T02!adjust_thread <=> P02!adjust_thread
  /\ T02!DestroyShutdown <=> P02!DestroyShutdown
  /\ T02!threadpool_destroy <=> P02!threadpool_destroy
BY Same02Base DEF P02!adjust_thread, T02!adjust_thread, P02!AdjustTop, T02!AdjustTop, P02!AdjustSnapshot,
   T02!AdjustSnapshot, P02!AdjustBusy, T02!AdjustBusy, P02!AdjustGrow, T02!AdjustGrow, P02!AdjustShrink,
   T02!AdjustShrink, P02!AdjustSignal, T02!AdjustSignal, P02!FreeSlots, T02!FreeSlots, P02!NewThreads,
   T02!NewThreads, P02!DestroyShutdown, T02!DestroyShutdown, P02!threadpool_destroy, T02!threadpool_destroy,
   P02!DestroyJoinAdjust, T02!DestroyJoinAdjust, P02!DestroyBroadcast, T02!DestroyBroadcast, P02!DestroyJoin,
   T02!DestroyJoin, P02!threadpool_free, T02!threadpool_free, P02!queueVars, T02!queueVars, P02!condVars,
   T02!condVars, P02!countVars, T02!countVars, P02!workerVars, T02!workerVars, P02!clientVars, T02!clientVars,
   P02!managerVars, T02!managerVars

\* So the steps of 02_thread_pool are those AdaptivePoolProofs speaks of.
LEMMA Same02Next == [T02!Next]_(T02!vars) <=> [P02!Next]_(P02!vars)
BY Same02Base, Same02Workers, Same02Clients, Same02Others DEF T02!Next, P02!Next

Inv02 == P02!IInv /\ P02!FixedInv

\* The pool of two workers keeps the invariants of AdaptivePoolProofs.
LEMMA Pool02 ==
  /\ T02!Init => Inv02
  /\ Inv02 /\ [T02!Next]_(T02!vars) => Inv02'
  /\ Inv02 => T02!TypeOK /\ T02!QueuedTasksKeepAWorkerAwake
<1>1. /\ 2 \in Nat \ {0} /\ 2 \in Nat /\ 2 <= 2
      /\ 1 \in Nat /\ {0} \subseteq Int
  OBVIOUS
<1>2. (Tasks \ {CHOOSE t \in Tasks : TRUE}) \cap {P02!NULL, P02!Wild} = {}
  BY PoolsAssumption DEF P02!NULL, P02!Wild
<1>3. {"NULL"} \subseteq {P02!NULL, P02!Wild} /\ FALSE \in BOOLEAN
  BY DEF P02!NULL, P02!Wild
<1>4. /\ P02!Init => P02!IInv /\ P02!FixedInv
      /\ P02!IInv /\ P02!FixedInv /\ [P02!Next]_(P02!vars) => P02!IInv' /\ P02!FixedInv'
  BY <1>1, <1>2, <1>3, P02!FixedInvariant, Zenon
<1>5. Inv02 => T02!TypeOK /\ T02!QueuedTasksKeepAWorkerAwake
  BY Same02Inits DEF Inv02, P02!IInv, P02!FixedInv
<1>6. T02!Init => Inv02
  BY <1>4, Same02Inits DEF Inv02
<1>7. Inv02 /\ [T02!Next]_(T02!vars) => Inv02'
  BY <1>4, Same02Next DEF Inv02
<1>. QED BY <1>5, <1>6, <1>7

-----------------------------------------------------------------------------
\* What the pools with a queue have in common: a task is in the queue once, or
\* one worker runs it, or it is done.

InQueue == {queue[k] : k \in DOMAIN queue}

Known == InQueue \cup Running \cup done

Once ==
  /\ queue \in Seq(Tasks) /\ task \in [Workers -> Tasks \cup {"none"}]
  /\ \A j, k \in 1 .. Len(queue) : queue[j] = queue[k] => j = k
  /\ \A k \in 1 .. Len(queue) : queue[k] \notin Running \cup done
  /\ \A v, w \in Workers : pc[v] = "run" /\ pc[w] = "run" /\ task[v] = task[w] => v = w
  /\ \A w \in Workers : pc[w] = "run" => task[w] \in Tasks \ done

\* What is left of a queue without repetition when its front is taken.
LEMMA TailFacts ==
  ASSUME NEW q \in Seq(Tasks), q # <<>>
  PROVE  /\ Head(q) \in Tasks /\ Head(q) = q[1] /\ Len(q) \in Nat /\ 1 \in 1 .. Len(q)
         /\ Tail(q) \in Seq(Tasks) /\ Len(Tail(q)) = Len(q) - 1
         /\ DOMAIN q = 1 .. Len(q) /\ DOMAIN Tail(q) = 1 .. Len(Tail(q))
         /\ \A k \in 1 .. Len(Tail(q)) : Tail(q)[k] = q[k + 1] /\ k + 1 \in 1 .. Len(q) /\ k + 1 # 1
         /\ \A k \in 1 .. Len(q) : k # 1 => k - 1 \in 1 .. Len(Tail(q)) /\ q[k] = Tail(q)[k - 1]
<1>1. Len(q) \in Nat \ {0}
  OBVIOUS
<1>2. Tail(q) \in Seq(Tasks) /\ Len(Tail(q)) = Len(q) - 1 /\ Head(q) = q[1] /\ Head(q) \in Tasks
  OBVIOUS
<1>3. \A k \in 1 .. Len(Tail(q)) : Tail(q)[k] = q[k + 1]
  OBVIOUS
<1>4. ASSUME NEW k \in 1 .. Len(q), k # 1
      PROVE  k - 1 \in 1 .. Len(Tail(q)) /\ q[k] = Tail(q)[k - 1]
  <2>1. k - 1 \in 1 .. Len(Tail(q)) /\ (k - 1) + 1 = k
    BY <1>1, <1>2, <1>4
  <2>. QED BY <2>1, <1>3
<1>5. DOMAIN q = 1 .. Len(q) /\ DOMAIN Tail(q) = 1 .. Len(Tail(q))
  BY <1>2
<1>6. \A k \in 1 .. Len(Tail(q)) : k + 1 \in 1 .. Len(q) /\ k + 1 # 1
  BY <1>1, <1>2
<1>7. 1 \in 1 .. Len(q)
  BY <1>1
<1>. QED BY <1>1, <1>2, <1>3, <1>4, <1>5, <1>6, <1>7

\* The tests for an empty queue and for size zero are the same.
LEMMA EmptyLen == ASSUME NEW q \in Seq(Tasks) PROVE q = <<>> <=> Len(q) = 0
OBVIOUS

\* The tasks of a queue, its front apart.
LEMMA TailSets ==
  ASSUME NEW q \in Seq(Tasks), q # <<>>
  PROVE  /\ {q[k] : k \in DOMAIN q} = {Head(q)} \cup {Tail(q)[k] : k \in DOMAIN Tail(q)}
         /\ (\A j, k \in 1 .. Len(q) : q[j] = q[k] => j = k)
              => \A j, k \in 1 .. Len(Tail(q)) : Tail(q)[j] = Tail(q)[k] => j = k
<1> DEFINE r == Tail(q)  h == Head(q)
<1>1. /\ h = q[1] /\ 1 \in 1 .. Len(q) /\ DOMAIN q = 1 .. Len(q) /\ DOMAIN r = 1 .. Len(r)
      /\ \A k \in 1 .. Len(r) : r[k] = q[k + 1] /\ k + 1 \in 1 .. Len(q)
      /\ \A k \in 1 .. Len(q) : k # 1 => k - 1 \in 1 .. Len(r) /\ q[k] = r[k - 1]
  BY TailFacts
<1> HIDE DEF r, h
<1>2. \A x : x \in {q[k] : k \in DOMAIN q} <=> \E k \in 1 .. Len(q) : x = q[k]
  BY <1>1
<1>3. \A x : x \in {r[k] : k \in DOMAIN r} <=> \E k \in 1 .. Len(r) : x = r[k]
  BY <1>1
<1>4. ASSUME NEW x, x \in {q[k] : k \in DOMAIN q} PROVE x \in {h} \cup {r[k] : k \in DOMAIN r}
  BY <1>1, <1>2, <1>3, <1>4
<1>5. ASSUME NEW x, x \in {h} \cup {r[k] : k \in DOMAIN r} PROVE x \in {q[k] : k \in DOMAIN q}
  BY <1>1, <1>2, <1>3, <1>5
<1>6. {q[k] : k \in DOMAIN q} = {h} \cup {r[k] : k \in DOMAIN r}
  BY <1>4, <1>5
<1>7. ASSUME \A j, k \in 1 .. Len(q) : q[j] = q[k] => j = k,
             NEW j \in 1 .. Len(r), NEW k \in 1 .. Len(r), r[j] = r[k]
      PROVE  j = k
  <2>1. q[j + 1] = q[k + 1] /\ j + 1 \in 1 .. Len(q) /\ k + 1 \in 1 .. Len(q)
    BY <1>1, <1>7
  <2>2. j + 1 = k + 1
    BY <2>1, <1>7, Zenon
  <2>. QED BY <2>2
<1>. QED BY <1>6, <1>7 DEF r, h

\* The queue after a task was pushed.
LEMMA AppendFacts ==
  ASSUME NEW q \in Seq(Tasks), NEW t \in Tasks
  PROVE  /\ Append(q, t) \in Seq(Tasks) /\ Len(Append(q, t)) = Len(q) + 1 /\ Len(q) \in Nat
         /\ Append(q, t)[Len(q) + 1] = t /\ \A k \in 1 .. Len(q) : Append(q, t)[k] = q[k]
         /\ DOMAIN q = 1 .. Len(q) /\ DOMAIN Append(q, t) = 1 .. Len(Append(q, t))
OBVIOUS

\* What runs, worker by worker.
LEMMA RunningIs == \A x : x \in Running <=> \E v \in Workers : pc[v] = "run" /\ x = task[v]
BY DEF Running

\* A worker that takes the head of the queue is the only one that runs it.
LEMMA TaskTaken ==
  ASSUME NEW X, pc \in [Workers -> X], "run" \in X, Once, NEW w \in Workers, pc[w] # "run", queue # <<>>,
         queue' = Tail(queue), task' = [task EXCEPT ![w] = Head(queue)], pc' = [pc EXCEPT ![w] = "run"],
         done' = done
  PROVE  Once' /\ Running' = Running \cup {Head(queue)} /\ Known' = Known
<1> DEFINE t == Head(queue)  q == Tail(queue)
<1>0. queue \in Seq(Tasks)
  BY DEF Once
<1>1. /\ t \in Tasks /\ t = queue[1] /\ Len(queue) \in Nat /\ 1 \in 1 .. Len(queue)
      /\ q \in Seq(Tasks) /\ Len(q) = Len(queue) - 1
      /\ DOMAIN queue = 1 .. Len(queue) /\ DOMAIN q = 1 .. Len(q)
      /\ \A k \in 1 .. Len(q) : q[k] = queue[k + 1] /\ k + 1 \in 1 .. Len(queue) /\ k + 1 # 1
      /\ \A k \in 1 .. Len(queue) : k # 1 => k - 1 \in 1 .. Len(q) /\ queue[k] = q[k - 1]
  BY <1>0, TailFacts
<1>2. Running' = Running \cup {t}
  <2> HIDE DEF t
  <2>1. task' = [task EXCEPT ![w] = t]
    BY DEF t
  <2>2. \A x : x \in Running' <=> \E v \in Workers : pc'[v] = "run" /\ x = task'[v]
    BY DEF Running
  <2>3. pc'[w] = "run" /\ task'[w] = t /\ \A v \in Workers : v # w => pc'[v] = pc[v] /\ task'[v] = task[v]
    BY <2>1 DEF Once
  <2>. QED BY <2>2, <2>3, RunningIs
<1> HIDE DEF t, q
<1>3. InQueue = {t} \cup InQueue'
  <2>1. queue' = q
    BY DEF q
  <2>2. InQueue' = {q[k] : k \in DOMAIN q}
    BY <2>1, Zenon DEF InQueue
  <2>. QED BY <2>2, <1>0, TailSets, Zenon DEF InQueue, q, t
<1>4. \A k \in 1 .. Len(q) : q[k] # t
  <2>1. \A k \in 1 .. Len(queue) : queue[k] = queue[1] => k = 1
    BY <1>1 DEF Once
  <2>. QED BY <2>1, <1>1
<1>5. t \notin Running \cup done
  BY <1>1 DEF Once
<1>6. Once'
  <2>1. ASSUME NEW j \in 1 .. Len(q), NEW k \in 1 .. Len(q), q[j] = q[k] PROVE j = k
    <3>1. \A a, b \in 1 .. Len(queue) : queue[a] = queue[b] => a = b
      BY Zenon DEF Once
    <3>. QED BY <2>1, <3>1, <1>0, TailSets, Zenon DEF q
  <2>2. \A k \in 1 .. Len(q) : q[k] \notin Running \cup done
    BY <1>1 DEF Once
  <2>3. queue' = q /\ task' = [task EXCEPT ![w] = t]
    BY DEF t, q
  <2>4. \A v \in Workers : pc'[v] = "run" /\ v # w => pc[v] = "run" /\ task'[v] = task[v] /\ task[v] \in Running
    BY <2>3 DEF Once, Running
  <2>5. pc'[w] = "run" /\ task'[w] = t
    BY <2>3 DEF Once
  <2>6. \A u, v \in Workers : pc'[u] = "run" /\ pc'[v] = "run" /\ task'[u] = task'[v] => u = v
    BY <2>4, <2>5, <1>5 DEF Once
  <2>7. \A v \in Workers : pc'[v] = "run" => task'[v] \in Tasks \ done
    BY <2>4, <2>5, <1>1, <1>5 DEF Once
  <2>8. task' \in [Workers -> Tasks \cup {"none"}]
    BY <2>3, <1>1 DEF Once
  <2>. QED BY <2>1, <2>2, <2>3, <2>6, <2>7, <2>8, <1>1, <1>2, <1>4 DEF Once
<1>7. Known' = InQueue' \cup Running' \cup done'
  BY Zenon DEF Known
<1>8. Known' = Known
  BY <1>2, <1>3, <1>7 DEF Known
<1>. QED BY <1>2, <1>6, <1>8 DEF t

\* A task that was run to its end is done, and nobody else runs it.
LEMMA TaskDone ==
  ASSUME NEW X, pc \in [Workers -> X], Once, NEW w \in Workers, pc[w] = "run", NEW p \in X, p # "run",
         queue' = queue, task' = [task EXCEPT ![w] = "none"], pc' = [pc EXCEPT ![w] = p],
         done' = done \cup {task[w]}
  PROVE  Once' /\ task[w] \in Running /\ Running' = Running \ {task[w]} /\ Known' = Known
<1>1. \A v \in Workers : pc'[v] = "run" <=> pc[v] = "run" /\ v # w
  OBVIOUS
<1>2. \A v \in Workers : v # w => task'[v] = task[v]
  BY DEF Once
<1>3. task[w] \in Running
  BY DEF Running
<1>4. Running' = Running \ {task[w]}
  <2>1. \A x : x \in Running' <=> \E v \in Workers : pc'[v] = "run" /\ x = task'[v]
    BY DEF Running
  <2>2. \A v \in Workers : pc[v] = "run" /\ task[v] = task[w] => v = w
    BY DEF Once
  <2>3. ASSUME NEW x, x \in Running' PROVE x \in Running /\ x # task[w]
    <3>1. PICK v \in Workers : pc'[v] = "run" /\ x = task'[v]
      BY <2>1, <2>3
    <3>. QED BY <3>1, <1>1, <1>2, <2>2, RunningIs
  <2>4. ASSUME NEW x, x \in Running, x # task[w] PROVE x \in Running'
    <3>1. PICK v \in Workers : pc[v] = "run" /\ x = task[v]
      BY <2>4, RunningIs
    <3>. QED BY <2>4, <3>1, <1>1, <1>2, <2>1
  <2>. QED BY <2>3, <2>4, Zenon
<1>5. Once'
  <2>1. \A k \in 1 .. Len(queue) : queue[k] \notin Running' \cup done'
    BY <1>3, <1>4 DEF Once
  <2>2. \A v \in Workers : pc'[v] = "run" => task'[v] \in Tasks \ done'
    BY <1>1, <1>2 DEF Once
  <2>3. task' \in [Workers -> Tasks \cup {"none"}]
    BY DEF Once
  <2>4. \A u, v \in Workers : pc'[u] = "run" /\ pc'[v] = "run" /\ task'[u] = task'[v] => u = v
    BY <1>1, <1>2 DEF Once
  <2>. QED BY <2>1, <2>2, <2>3, <2>4 DEF Once
<1>6. InQueue' = InQueue
  BY DEF InQueue
<1>. QED BY <1>3, <1>4, <1>5, <1>6 DEF Known

\* A new task goes to the end of the queue.
LEMMA TaskAdded ==
  ASSUME Once, NEW t \in Tasks, t \notin Known, queue' = Append(queue, t), task' = task, pc' = pc, done' = done
  PROVE  Once' /\ Running' = Running /\ Known' = Known \cup {t}
<1> DEFINE q == Append(queue, t)
<1>0. queue \in Seq(Tasks)
  BY DEF Once
<1>1. /\ q \in Seq(Tasks) /\ Len(q) = Len(queue) + 1 /\ Len(queue) \in Nat /\ q[Len(q)] = t
      /\ \A k \in 1 .. Len(queue) : q[k] = queue[k]
      /\ DOMAIN queue = 1 .. Len(queue) /\ DOMAIN q = 1 .. Len(q)
  BY <1>0, AppendFacts
<1>2. Running' = Running
  BY DEF Running
<1> HIDE DEF q
<1>3. queue' = q
  BY DEF q
<1>4. InQueue' = InQueue \cup {t}
  <2>1. \A k \in 1 .. Len(q) : k = Len(q) \/ k \in 1 .. Len(queue)
    BY <1>1
  <2>2. Len(q) \in 1 .. Len(q) /\ \A k \in 1 .. Len(queue) : k \in 1 .. Len(q)
    BY <1>1
  <2>. QED BY <2>1, <2>2, <1>1, <1>3 DEF InQueue
<1>5. Once'
  <2>1. \A k \in 1 .. Len(q) : k = Len(q) \/ k \in 1 .. Len(queue)
    BY <1>1
  <2>2. \A k \in 1 .. Len(queue) : queue[k] # t
    BY <1>1 DEF Known, InQueue
  <2>3. \A j, k \in 1 .. Len(q) : q[j] = q[k] => j = k
    BY <2>1, <2>2, <1>1 DEF Once
  <2>4. \A k \in 1 .. Len(q) : q[k] \notin Running \cup done
    BY <2>1, <1>1 DEF Once, Known
  <2>. QED BY <2>3, <2>4, <1>1, <1>2, <1>3 DEF Once
<1>. QED BY <1>2, <1>4, <1>5 DEF Known

\* Any other step of a worker is neither the start nor the end of a task.
LEMMA TaskStays ==
  ASSUME NEW X, pc \in [Workers -> X], Once, NEW w \in Workers, pc[w] # "run", NEW p \in X, p # "run",
         queue' = queue, task' = task, pc' = [pc EXCEPT ![w] = p], done' = done
  PROVE  Once' /\ Running' = Running /\ Known' = Known
<1>1. \A v \in Workers : pc'[v] = "run" <=> pc[v] = "run"
  OBVIOUS
<1>2. Running' = Running /\ InQueue' = InQueue
  BY <1>1 DEF Running, InQueue
<1>3. Once'
  BY <1>1, <1>2 DEF Once
<1>. QED BY <1>2, <1>3 DEF Known

\* The same of a step of nobody.
LEMMA TasksStay ==
  ASSUME Once, queue' = queue, task' = task, pc' = pc, done' = done
  PROVE  Once' /\ Running' = Running /\ Known' = Known
<1>1. Running' = Running /\ InQueue' = InQueue
  BY DEF Running, InQueue
<1>. QED BY <1>1 DEF Once, Known

\* A set of workers that gains or loses one.
LEMMA WorkersCounted ==
  /\ \A S \in SUBSET Workers : Cardinality(S) \in Nat
  /\ \A S \in SUBSET Workers : \A w \in Workers \ S : Cardinality(S \cup {w}) = Cardinality(S) + 1
  /\ \A S \in SUBSET Workers : \A w \in S : Cardinality(S \ {w}) = Cardinality(S) - 1
BY PoolsAssumption, FS_Subset, FS_CardinalityType, FS_AddElement, FS_RemoveElement

\* The clients are finite in number as well.
LEMMA ClientsCounted ==
  /\ \A S \in SUBSET Clients : Cardinality(S) \in Nat
  /\ \A S \in SUBSET Clients : \A c \in Clients \ S : Cardinality(S \cup {c}) = Cardinality(S) + 1
  /\ \A S \in SUBSET Clients : \A c \in S : Cardinality(S \ {c}) = Cardinality(S) - 1
BY PoolsAssumption, FS_Subset, FS_CardinalityType, FS_AddElement, FS_RemoveElement

\* A worker more never makes a set smaller.
LEMMA WorkersGrow ==
  ASSUME NEW S \in SUBSET Workers, NEW w \in Workers PROVE Cardinality(S \cup {w}) >= Cardinality(S)
<1>1. CASE w \in S
  <2>1. S \cup {w} = S
    BY <1>1
  <2>. QED BY <2>1, WorkersCounted
<1>2. CASE w \notin S
  BY <1>2, WorkersCounted
<1>. QED BY <1>1, <1>2

-----------------------------------------------------------------------------
\* The pools whose workers evaluate their predicate and wait in one critical
\* section: 03_ThreadPool and ThreadPoolCpp14.

\* The workers on their way to the queue.
Coming == {w \in Workers : pc[w] = "loop" /\ w \notin cond}

\* Each queued task has a worker on its way or one of n notifications to come.
Served(n) == cond # {} => Len(queue) <= Cardinality(Coming) + n

\* The steps of a worker leave every queued task served.
LEMMA WaitServed ==
  ASSUME queue = <<>>, queue' = queue, NEW n \in Nat
  PROVE  Served(n)'
<1>1. Coming' \in SUBSET Workers
  BY DEF Coming
<1>2. Cardinality(Coming') \in Nat
  BY <1>1, WorkersCounted
<1>3. Len(queue') = 0
  OBVIOUS
<1>. QED BY <1>2, <1>3 DEF Served

\* A worker that takes a task leaves one task less to be served.
LEMMA TakeServed ==
  ASSUME NEW X, pc \in [Workers -> X], NEW w \in Coming, NEW p \in X, p # "loop",
         pc' = [pc EXCEPT ![w] = p], cond' = cond, queue \in Seq(Tasks), queue # <<>>, queue' = Tail(queue),
         NEW n \in Nat, Served(n)
  PROVE  Served(n)'
<1>1. Coming' = Coming \ {w} /\ Coming \in SUBSET Workers
  BY DEF Coming
<1>2. Cardinality(Coming') = Cardinality(Coming) - 1 /\ Cardinality(Coming) \in Nat
  BY <1>1, WorkersCounted
<1>3. Len(queue') = Len(queue) - 1 /\ Len(queue) \in Nat
  BY TailFacts
<1>. QED BY <1>2, <1>3 DEF Served

\* So does a worker that comes back from a task.
LEMMA BackServed ==
  ASSUME NEW X, pc \in [Workers -> X], NEW w \in Workers, pc' = [pc EXCEPT ![w] = "loop"], cond' = cond,
         queue' = queue, queue \in Seq(Tasks), NEW n \in Nat, Served(n), w \notin cond
  PROVE  Served(n)'
<1>1. Coming' = Coming \cup {w} /\ Coming \in SUBSET Workers
  BY DEF Coming
<1>2. Cardinality(Coming') >= Cardinality(Coming) /\ Cardinality(Coming) \in Nat /\ Cardinality(Coming') \in Nat
  BY <1>1, WorkersGrow, WorkersCounted
<1>3. Len(queue') = Len(queue) /\ Len(queue) \in Nat
  OBVIOUS
<1>. QED BY <1>2, <1>3 DEF Served

\* A worker that leaves the wait counts for a notification that is gone.
LEMMA WokenServed ==
  ASSUME NEW w \in cond, cond \subseteq Workers, \A v \in cond : pc[v] = "loop", cond' = cond \ {w}, pc' = pc,
         queue' = queue, queue \in Seq(Tasks), NEW n \in Nat, NEW m \in Nat, n <= m + 1, Served(n)
  PROVE  Served(m)'
<1>1. Coming' = Coming \cup {w} /\ w \in Workers \ Coming /\ Coming \in SUBSET Workers
  BY DEF Coming
<1>2. Cardinality(Coming') = Cardinality(Coming) + 1 /\ Cardinality(Coming) \in Nat
  BY <1>1, WorkersCounted
<1>3. Len(queue') = Len(queue) /\ Len(queue) \in Nat
  OBVIOUS
<1>. QED BY <1>2, <1>3 DEF Served

\* A task more is served by the notification that follows.
LEMMA AddServed ==
  ASSUME NEW t \in Tasks, queue \in Seq(Tasks), queue' = Append(queue, t), pc' = pc, cond' = cond,
         NEW n \in Nat, Served(n)
  PROVE  Served(n + 1)'
<1>1. Coming' = Coming /\ Coming \in SUBSET Workers
  BY DEF Coming
<1>2. Cardinality(Coming') = Cardinality(Coming) /\ Cardinality(Coming) \in Nat
  BY <1>1, WorkersCounted
<1>3. Len(queue') = Len(queue) + 1 /\ Len(queue) \in Nat
  BY AppendFacts
<1>. QED BY <1>2, <1>3 DEF Served

-----------------------------------------------------------------------------
\* 03_ThreadPool

Telling == {c \in Clients : client[c] = "notify"}

Inv03 ==
  /\ T03!TypeOK
  /\ Once
  /\ \A w \in cond : pc[w] = "loop"
  /\ Served(Cardinality(Telling))
  /\ accepted = Known
  /\ owner = "alive" <=> ~stopped
  /\ \A w \in Workers : pc[w] = "returned" => stopped /\ queue = <<>>
  /\ owner = "destroyed" => \A w \in Workers : pc[w] = "returned"

\* The instance counts as this module does.
LEMMA Counts03 == \A S : T03!Cardinality(S) = Cardinality(S)
BY DEF T03!Cardinality, Cardinality

\* A new pool of 03_ThreadPool has no task and nobody asleep.
LEMMA Init03 == T03!Init => Inv03
<1> SUFFICES ASSUME T03!Init PROVE Inv03
  OBVIOUS
<1> USE DEF T03!Init, T03!NoTask
<1>1. T03!TypeOK
  <2>1. pc \in [Workers -> {"loop", "run", "returned"}] /\ task \in [Workers -> Tasks \cup {"none"}]
    OBVIOUS
  <2>2. client \in [Clients -> {"idle", "notify"}]
    OBVIOUS
  <2>3. queue \in Seq(Tasks)
    OBVIOUS
  <2>4. stopped \in BOOLEAN
    OBVIOUS
  <2>. QED BY <2>1, <2>2, <2>3, <2>4, Zenon DEF T03!TypeOK
<1>2. Running = {} /\ InQueue = {}
  BY DEF Running, InQueue
<1>3. Once
  BY <1>2 DEF Once
<1>. QED BY <1>1, <1>2, <1>3 DEF Inv03, Served, Known

\* What the worker's critical sections and the tasks do.
LEMMA Worker03 ==
  ASSUME Inv03, NEW w \in Workers, T03!Worker(w) \/ T03!SpuriousWakeup(w)
  PROVE  Inv03'
<1>0. Telling \in SUBSET Clients
  BY DEF Telling
<1>1. PICK n \in Nat : n = Cardinality(Telling)
  BY <1>0, ClientsCounted
<1>2. n = Cardinality(Telling')
  BY <1>1 DEF Telling, T03!Worker, T03!Wait, T03!Return, T03!Take, T03!Run, T03!SpuriousWakeup
<1>3. pc \in [Workers -> {"loop", "run", "returned"}] /\ queue \in Seq(Tasks) /\ cond \subseteq Workers
  BY DEF Inv03, T03!TypeOK
<1>4. Served(n) /\ Once /\ \A v \in cond : pc[v] = "loop"
  BY <1>1 DEF Inv03
<1>5. CASE T03!Wait(w)
  <2>1. Served(n)'
    BY <1>1, <1>5, WaitServed DEF T03!Wait
  <2>2. Once' /\ Running' = Running /\ Known' = Known
    BY <1>4, <1>5, TasksStay DEF T03!Wait
  <2>. QED BY <1>2, <1>5, <2>1, <2>2 DEF Inv03, T03!Wait, T03!TypeOK
<1>6. CASE T03!Return(w)
  <2>1. Served(n)'
    BY <1>1, <1>6, WaitServed DEF T03!Return
  <2>2. Once' /\ Running' = Running /\ Known' = Known
    BY <1>3, <1>4, <1>6, TaskStays DEF T03!Return
  <2>. QED BY <1>2, <1>6, <2>1, <2>2 DEF Inv03, T03!Return, T03!TypeOK
<1>7. CASE T03!Take(w)
  <2>1. w \in Coming
    BY <1>7 DEF T03!Take, Coming
  <2>2. Served(n)'
    BY <1>1, <1>3, <1>4, <1>7, <2>1, TakeServed DEF T03!Take
  <2>3. Once' /\ Known' = Known
    BY <1>3, <1>4, <1>7, TaskTaken DEF T03!Take
  <2>4. Head(queue) \in Tasks /\ queue' \in Seq(Tasks)
    BY <1>3, <1>7, TailFacts DEF T03!Take
  <2>5. T03!TypeOK'
    BY <1>7, <2>4 DEF Inv03, T03!TypeOK, T03!Take
  <2>6. \A v \in Workers : pc[v] # "returned"
    BY <1>7 DEF Inv03, T03!Take
  <2>7. /\ \A v \in cond' : pc'[v] = "loop"
        /\ \A v \in Workers : pc'[v] # "returned"
    BY <1>3, <1>4, <1>7, <2>6 DEF T03!Take
  <2>8. owner' # "destroyed" /\ (owner' = "alive" <=> ~stopped') /\ accepted' = accepted
    BY <1>7, <2>6 DEF Inv03, T03!Take
  <2>. QED BY <1>2, <2>2, <2>3, <2>5, <2>7, <2>8 DEF Inv03
<1>8. CASE T03!Run(w)
  <2>1. w \notin cond
    BY <1>4, <1>8 DEF T03!Run
  <2>2. Served(n)'
    BY <1>1, <1>3, <1>4, <1>8, <2>1, BackServed DEF T03!Run
  <2>3. Once' /\ Known' = Known
    BY <1>3, <1>4, <1>8, TaskDone DEF T03!Run, T03!NoTask
  <2>4. task[w] \in Tasks
    BY <1>4, <1>8 DEF Once, T03!Run
  <2>5. T03!TypeOK'
    BY <1>8, <2>4 DEF Inv03, T03!TypeOK, T03!Run
  <2>. QED BY <1>2, <1>3, <1>8, <2>1, <2>2, <2>3, <2>5 DEF Inv03, T03!Run
<1>9. CASE T03!SpuriousWakeup(w)
  <2>1. Served(n)'
    BY <1>1, <1>3, <1>4, <1>9, WokenServed DEF T03!SpuriousWakeup
  <2>2. Once' /\ Running' = Running /\ Known' = Known
    BY <1>4, <1>9, TasksStay DEF T03!SpuriousWakeup
  <2>. QED BY <1>2, <1>9, <2>1, <2>2 DEF Inv03, T03!SpuriousWakeup, T03!TypeOK
<1>. QED BY <1>5, <1>6, <1>7, <1>8, <1>9 DEF T03!Worker

\* What enqueue does.
LEMMA Enqueue03 ==
  ASSUME Inv03, NEW c \in Clients,
         T03!EnqueueNotify(c) \/ \E t \in Tasks : T03!EnqueueAccept(c, t) \/ T03!EnqueueThrow(c, t)
  PROVE  Inv03'
<1>0. Telling \in SUBSET Clients
  BY DEF Telling
<1>1. PICK n \in Nat : n = Cardinality(Telling)
  BY <1>0, ClientsCounted
<1>2. /\ pc \in [Workers -> {"loop", "run", "returned"}] /\ queue \in Seq(Tasks) /\ cond \subseteq Workers
      /\ client \in [Clients -> {"idle", "notify"}]
  BY DEF Inv03, T03!TypeOK
<1>3. Served(n) /\ Once /\ \A v \in cond : pc[v] = "loop"
  BY <1>1 DEF Inv03
<1>4. ASSUME NEW t \in Tasks, T03!EnqueueAccept(c, t) PROVE Inv03'
  <2>1. Telling' = Telling \cup {c} /\ c \notin Telling
    BY <1>2, <1>4 DEF Telling, T03!EnqueueAccept
  <2>2. Cardinality(Telling') = n + 1
    BY <1>0, <1>1, <2>1, ClientsCounted
  <2>3. Served(n + 1)'
    BY <1>2, <1>3, <1>4, AddServed DEF T03!EnqueueAccept
  <2>4. t \notin Known /\ accepted' = accepted \cup {t} /\ accepted = Known
    BY <1>4 DEF Inv03, T03!EnqueueAccept
  <2>5. Once' /\ Known' = Known \cup {t}
    BY <1>3, <1>4, <2>4, TaskAdded DEF T03!EnqueueAccept
  <2>6. queue' \in Seq(Tasks)
    BY <1>2, <1>4, AppendFacts DEF T03!EnqueueAccept
  <2>7. T03!TypeOK'
    BY <1>4, <2>6 DEF Inv03, T03!TypeOK, T03!EnqueueAccept
  <2>8. /\ owner' = owner /\ stopped' = stopped /\ pc' = pc /\ cond' = cond /\ ~stopped
        /\ \A w \in Workers : pc[w] # "returned"
    BY <1>4 DEF Inv03, T03!EnqueueAccept
  <2>9. Served(Cardinality(Telling))'
    BY <2>2, <2>3
  <2>. QED BY <2>4, <2>5, <2>7, <2>8, <2>9, Zenon DEF Inv03
<1>5. ASSUME NEW t \in Tasks, T03!EnqueueThrow(c, t) PROVE Inv03'
  <2>1. Telling' = Telling /\ Served(n)'
    BY <1>3, <1>5 DEF T03!EnqueueThrow, Telling, Served, Coming
  <2>2. Once' /\ Known' = Known
    BY <1>3, <1>5, TasksStay DEF T03!EnqueueThrow
  <2>. QED BY <1>1, <1>5, <2>1, <2>2 DEF Inv03, T03!EnqueueThrow, T03!TypeOK
<1>6. CASE T03!EnqueueNotify(c)
  <2>1. Telling' = Telling \ {c} /\ c \in Telling
    BY <1>2, <1>6 DEF Telling, T03!EnqueueNotify
  <2>2. Cardinality(Telling') = n - 1 /\ n - 1 \in Nat
    <3>1. Telling' \in SUBSET Clients
      BY <1>0, <2>1
    <3>. QED BY <1>0, <1>1, <2>1, <3>1, ClientsCounted
  <2>3. Once' /\ Known' = Known
    BY <1>3, <1>6, TasksStay DEF T03!EnqueueNotify
  <2>4. \/ cond' = {}
        \/ \E w \in cond : cond' = cond \ {w}
    BY <1>6 DEF T03!EnqueueNotify, T03!AfterNotifyOne
  <2>5. pc' = pc /\ queue' = queue
    BY <1>6 DEF T03!EnqueueNotify
  <2>6. Served(n - 1)'
    <3>1. CASE cond' = {}
      BY <3>1 DEF Served
    <3>2. ASSUME NEW w \in cond, cond' = cond \ {w} PROVE Served(n - 1)'
      <4>1. n - 1 \in Nat /\ n <= (n - 1) + 1
        BY <2>2
      <4>. QED BY <3>2, <4>1, <1>2, <1>3, <2>5, WokenServed
    <3>. QED BY <3>1, <3>2, <2>4
  <2>7. cond' \subseteq cond
    BY <2>4
  <2>8. T03!TypeOK'
    BY <1>6, <2>7 DEF Inv03, T03!TypeOK, T03!EnqueueNotify
  <2>9. Served(Cardinality(Telling))'
    BY <2>2, <2>6
  <2>10. owner' = owner /\ stopped' = stopped /\ accepted' = accepted
    BY <1>6 DEF T03!EnqueueNotify
  <2>. QED BY <2>3, <2>5, <2>7, <2>8, <2>9, <2>10 DEF Inv03
<1>. QED BY <1>4, <1>5, <1>6

\* The destructor of 03_ThreadPool only sets stop and wakes everybody.
LEMMA Destructor03 == ASSUME Inv03, T03!Destructor PROVE Inv03'
<1>1. Telling' = Telling /\ pc' = pc /\ queue' = queue /\ accepted' = accepted /\ cond' \in {cond, {}}
  BY DEF T03!Destructor, T03!DestructorStop, T03!DestructorNotify, T03!DestructorJoin, T03!AfterNotifyAll, Telling
<1>2. Once' /\ Known' = Known
  BY TasksStay DEF Inv03, T03!Destructor, T03!DestructorStop, T03!DestructorNotify, T03!DestructorJoin
<1>3. Served(Cardinality(Telling))'
  BY <1>1 DEF Inv03, Served, Coming
<1>4. T03!TypeOK'
  BY <1>1 DEF Inv03, T03!TypeOK, T03!Destructor, T03!DestructorStop, T03!DestructorNotify, T03!DestructorJoin
<1>5. /\ owner' = "alive" <=> ~stopped'
      /\ \A w \in Workers : pc'[w] = "returned" => stopped' /\ queue' = <<>>
      /\ owner' = "destroyed" => \A w \in Workers : pc'[w] = "returned"
  BY DEF Inv03, T03!Destructor, T03!DestructorStop, T03!DestructorNotify, T03!DestructorJoin
<1>. QED BY <1>1, <1>2, <1>3, <1>4, <1>5 DEF Inv03

\* Inv03 is inductive for 03_ThreadPool.
LEMMA Pool03 ==
  /\ Inv03 /\ [T03!Next]_(T03!vars) => Inv03'
  /\ Inv03 => T03!TypeOK /\ T03!SleepersNotNeeded /\ T03!DestroyedMeansDrained
<1>1. ASSUME Inv03, UNCHANGED T03!vars PROVE Inv03'
  <2>1. Once' /\ Known' = Known
    BY <1>1, TasksStay DEF Inv03, T03!vars
  <2>. QED BY <1>1, <2>1 DEF Inv03, T03!vars, T03!TypeOK, Served, Telling, Coming
<1>2. Inv03 /\ [T03!Next]_(T03!vars) => Inv03'
  BY <1>1, Worker03, Enqueue03, Destructor03 DEF T03!Next, T03!Terminated
<1>3. ASSUME Inv03 PROVE T03!SleepersNotNeeded
  BY <1>3, Counts03 DEF Inv03, Served, Coming, Telling, T03!SleepersNotNeeded
<1>4. ASSUME Inv03 PROVE T03!DestroyedMeansDrained
  <2> SUFFICES ASSUME owner = "destroyed" PROVE queue = <<>> /\ T03!Running = {} /\ done = accepted
    BY DEF T03!DestroyedMeansDrained
  <2>1. queue = <<>> /\ \A w \in Workers : pc[w] = "returned"
    BY <1>4, PoolsAssumption DEF Inv03
  <2>2. Running = {} /\ InQueue = {} /\ T03!Running = {}
    BY <2>1 DEF Running, T03!Running, InQueue
  <2>. QED BY <1>4, <2>1, <2>2 DEF Inv03, Known
<1>. QED BY <1>2, <1>3, <1>4 DEF Inv03

-----------------------------------------------------------------------------
\* ThreadPoolCpp14

ToCome14 == IF owner = "notify_one" THEN 1 ELSE 0

Inv14 ==
  /\ Cpp14!TypeOK
  /\ Once
  /\ \A w \in cond : pc[w] = "loop"
  /\ Served(ToCome14)
  /\ \A w \in Workers : w \in refs <=> pc[w] # "left"
  /\ "pool" \in refs <=> owner # "gone"
  /\ stopped <=> owner \in {"notify_all", "gone"}
  /\ \A w \in Workers : pc[w] = "left" => stopped /\ queue = <<>>

\* The instance counts as this module does.
LEMMA Counts14 == \A S : Cpp14!Cardinality(S) = Cardinality(S)
BY DEF Cpp14!Cardinality, Cardinality

\* A new pool of ThreadPoolCpp14 has no task and nobody asleep.
LEMMA Init14 == Cpp14!Init => Inv14
<1> SUFFICES ASSUME Cpp14!Init PROVE Inv14
  OBVIOUS
<1> USE DEF Cpp14!Init, Cpp14!NoTask
<1>1. Cpp14!TypeOK
  <2>1. pc \in [Workers -> {"loop", "run", "left"}] /\ task \in [Workers -> Tasks \cup {"none"}]
    OBVIOUS
  <2>2. queue \in Seq(Tasks)
    OBVIOUS
  <2>3. stopped \in BOOLEAN
    OBVIOUS
  <2>. QED BY <2>1, <2>2, <2>3, Zenon DEF Cpp14!TypeOK
<1>2. Running = {} /\ InQueue = {}
  BY DEF Running, InQueue
<1>3. Once
  BY <1>2 DEF Once
<1>. QED BY <1>1, <1>2, <1>3 DEF Inv14, Served, Known

\* The worker of ThreadPoolCpp14: it takes, breaks, waits and runs.
LEMMA Worker14 ==
  ASSUME Inv14, NEW w \in Workers, Cpp14!Worker(w) \/ Cpp14!SpuriousWakeup(w)
  PROVE  Inv14'
<1>1. PICK n \in {0, 1} : n = ToCome14
  BY DEF ToCome14
<1>2. n = ToCome14' /\ owner' = owner /\ stopped' = stopped
  BY <1>1 DEF ToCome14, Cpp14!Worker, Cpp14!Wait, Cpp14!Break, Cpp14!Take, Cpp14!Run, Cpp14!SpuriousWakeup
<1>3. /\ pc \in [Workers -> {"loop", "run", "left"}] /\ queue \in Seq(Tasks) /\ cond \subseteq Workers
      /\ n \in Nat /\ w # "pool"
  BY PoolsAssumption DEF Inv14, Cpp14!TypeOK
<1>4. Served(n) /\ Once /\ \A v \in cond : pc[v] = "loop"
  BY <1>1 DEF Inv14
<1>5. CASE Cpp14!Wait(w)
  <2>1. Served(n)'
    BY <1>3, <1>5, WaitServed DEF Cpp14!Wait
  <2>2. Once'
    BY <1>4, <1>5, TasksStay DEF Cpp14!Wait
  <2>. QED BY <1>2, <1>5, <2>1, <2>2 DEF Inv14, Cpp14!Wait, Cpp14!TypeOK
<1>6. CASE Cpp14!Break(w)
  <2>1. Served(n)'
    BY <1>3, <1>6, WaitServed DEF Cpp14!Break
  <2>2. Once'
    BY <1>3, <1>4, <1>6, TaskStays DEF Cpp14!Break
  <2>3. Cpp14!TypeOK'
    BY <1>6 DEF Inv14, Cpp14!Break, Cpp14!TypeOK
  <2>4. /\ \A v \in Workers : v \in refs' <=> pc'[v] # "left"
        /\ "pool" \in refs' <=> owner' # "gone"
        /\ \A v \in cond' : pc'[v] = "loop"
        /\ \A v \in Workers : pc'[v] = "left" => stopped' /\ queue' = <<>>
    BY <1>2, <1>3, <1>4, <1>6 DEF Inv14, Cpp14!Break
  <2>. QED BY <1>2, <2>1, <2>2, <2>3, <2>4 DEF Inv14
<1>7. CASE Cpp14!Take(w)
  <2>1. w \in Coming
    BY <1>7 DEF Cpp14!Take, Coming
  <2>2. Served(n)'
    BY <1>3, <1>4, <1>7, <2>1, TakeServed DEF Cpp14!Take
  <2>3. Once'
    BY <1>3, <1>4, <1>7, TaskTaken DEF Cpp14!Take
  <2>4. Head(queue) \in Tasks /\ queue' \in Seq(Tasks)
    BY <1>3, <1>7, TailFacts DEF Cpp14!Take
  <2>5. Cpp14!TypeOK'
    BY <1>7, <2>4 DEF Inv14, Cpp14!TypeOK, Cpp14!Take
  <2>6. \A v \in Workers : pc[v] # "left"
    BY <1>7 DEF Inv14, Cpp14!Take
  <2>7. /\ \A v \in cond' : pc'[v] = "loop"
        /\ \A v \in Workers : pc'[v] # "left" /\ v \in refs'
        /\ refs' = refs
    BY <1>3, <1>4, <1>7, <2>6 DEF Inv14, Cpp14!Take
  <2>. QED BY <1>2, <2>2, <2>3, <2>5, <2>7 DEF Inv14
<1>8. CASE Cpp14!Run(w)
  <2>1. w \notin cond
    BY <1>4, <1>8 DEF Cpp14!Run
  <2>2. Served(n)'
    BY <1>3, <1>4, <1>8, <2>1, BackServed DEF Cpp14!Run
  <2>3. Once'
    BY <1>3, <1>4, <1>8, TaskDone DEF Cpp14!Run, Cpp14!NoTask
  <2>4. task[w] \in Tasks
    BY <1>4, <1>8 DEF Once, Cpp14!Run
  <2>5. Cpp14!TypeOK'
    BY <1>8, <2>4 DEF Inv14, Cpp14!TypeOK, Cpp14!Run
  <2>. QED BY <1>2, <1>3, <1>8, <2>1, <2>2, <2>3, <2>5 DEF Inv14, Cpp14!Run
<1>9. CASE Cpp14!SpuriousWakeup(w)
  <2>1. Served(n)'
    BY <1>3, <1>4, <1>9, WokenServed DEF Cpp14!SpuriousWakeup
  <2>2. Once'
    BY <1>4, <1>9, TasksStay DEF Cpp14!SpuriousWakeup
  <2>. QED BY <1>2, <1>9, <2>1, <2>2 DEF Inv14, Cpp14!SpuriousWakeup, Cpp14!TypeOK
<1>. QED BY <1>5, <1>6, <1>7, <1>8, <1>9 DEF Cpp14!Worker

\* execute of ThreadPoolCpp14 pushes, and wakes one worker later.
LEMMA Execute14 ==
  ASSUME Inv14, Cpp14!ExecuteNotify \/ \E t \in Tasks : Cpp14!Execute(t)
  PROVE  Inv14'
<1>1. /\ pc \in [Workers -> {"loop", "run", "left"}] /\ queue \in Seq(Tasks) /\ cond \subseteq Workers
      /\ Once /\ \A v \in cond : pc[v] = "loop"
  BY DEF Inv14, Cpp14!TypeOK
<1>2. ASSUME NEW t \in Tasks, Cpp14!Execute(t) PROVE Inv14'
  <2>1. Served(0) /\ ToCome14' = 1
    BY <1>2 DEF Inv14, ToCome14, Cpp14!Execute
  <2>2. Served(1)'
    <3>1. Served(0 + 1)'
      BY <1>1, <1>2, <2>1, AddServed DEF Cpp14!Execute
    <3>. QED BY <3>1
  <2>3. t \notin Known
    BY <1>2 DEF Cpp14!Execute, Known, InQueue, Running
  <2>4. Once'
    BY <1>1, <1>2, <2>3, TaskAdded DEF Cpp14!Execute
  <2>5. queue' \in Seq(Tasks)
    BY <1>1, <1>2, AppendFacts DEF Cpp14!Execute
  <2>6. Cpp14!TypeOK'
    BY <1>2, <2>5 DEF Inv14, Cpp14!TypeOK, Cpp14!Execute
  <2>7. /\ pc' = pc /\ cond' = cond /\ refs' = refs /\ stopped' = stopped /\ ~stopped /\ owner' = "notify_one"
        /\ \A w \in Workers : pc[w] # "left"
        /\ "pool" \in refs
    BY <1>2 DEF Inv14, Cpp14!Execute
  <2>8. Served(ToCome14)'
    BY <2>1, <2>2
  <2>. QED BY <2>4, <2>6, <2>7, <2>8 DEF Inv14
<1>3. CASE Cpp14!ExecuteNotify
  <2>1. Served(1) /\ ToCome14' = 0
    BY <1>3 DEF Inv14, ToCome14, Cpp14!ExecuteNotify
  <2>2. \/ cond' = {}
        \/ \E w \in cond : cond' = cond \ {w}
    BY <1>3 DEF Cpp14!ExecuteNotify, Cpp14!AfterNotifyOne
  <2>3. pc' = pc /\ queue' = queue /\ refs' = refs /\ stopped' = stopped /\ owner' = "idle" /\ owner = "notify_one"
    BY <1>3 DEF Cpp14!ExecuteNotify
  <2>4. Served(0)'
    <3>1. CASE cond' = {}
      BY <3>1 DEF Served
    <3>2. ASSUME NEW w \in cond, cond' = cond \ {w} PROVE Served(0)'
      <4>1. 1 <= 0 + 1 /\ 1 \in Nat /\ 0 \in Nat
        OBVIOUS
      <4>. QED BY <3>2, <4>1, <1>1, <2>1, <2>3, WokenServed
    <3>. QED BY <3>1, <3>2, <2>2
  <2>5. cond' \subseteq cond
    BY <2>2
  <2>6. Cpp14!TypeOK'
    BY <1>3, <2>5 DEF Inv14, Cpp14!TypeOK, Cpp14!ExecuteNotify
  <2>7. Once'
    BY <1>1, <1>3, TasksStay DEF Cpp14!ExecuteNotify
  <2>8. Served(ToCome14)'
    BY <2>1, <2>4
  <2>. QED BY <2>3, <2>5, <2>6, <2>7, <2>8 DEF Inv14
<1>. QED BY <1>2, <1>3

\* The destructor of ThreadPoolCpp14.
LEMMA Destructor14 ==
  ASSUME Inv14, Cpp14!DestructorShutdown \/ Cpp14!DestructorNotify
  PROVE  Inv14'
<1>1. /\ pc' = pc /\ queue' = queue /\ cond' \in {cond, {}} /\ ToCome14' = 0 /\ ToCome14 = 0
      /\ stopped' /\ owner' \in {"notify_all", "gone"} /\ refs' = IF owner' = "gone" THEN refs \ {"pool"} ELSE refs
      /\ "pool" \in refs
  BY DEF Inv14, Cpp14!DestructorShutdown, Cpp14!DestructorNotify, Cpp14!AfterNotifyAll, ToCome14
<1>2. Once'
  BY TasksStay DEF Inv14, Cpp14!DestructorShutdown, Cpp14!DestructorNotify
<1>3. Served(ToCome14)'
  BY <1>1 DEF Inv14, Served, Coming
<1>4. Cpp14!TypeOK'
  BY <1>1 DEF Inv14, Cpp14!TypeOK, Cpp14!DestructorShutdown, Cpp14!DestructorNotify
<1>5. \A w \in Workers : w # "pool"
  BY PoolsAssumption
<1>. QED BY <1>1, <1>2, <1>3, <1>4, <1>5 DEF Inv14

\* Inv14 is inductive for ThreadPoolCpp14.
LEMMA Pool14 ==
  /\ Inv14 /\ [Cpp14!Next]_(Cpp14!vars) => Inv14'
  /\ Inv14 => Cpp14!TypeOK /\ Cpp14!SleepersNotNeeded /\ Cpp14!DataFreedEmpty
<1>1. ASSUME Inv14, UNCHANGED Cpp14!vars PROVE Inv14'
  <2>1. Once'
    BY <1>1, TasksStay DEF Inv14, Cpp14!vars
  <2>. QED BY <1>1, <2>1 DEF Inv14, Cpp14!vars, Cpp14!TypeOK, Served, ToCome14, Coming
<1>2. Inv14 /\ [Cpp14!Next]_(Cpp14!vars) => Inv14'
  BY <1>1, Worker14, Execute14, Destructor14 DEF Cpp14!Next, Cpp14!Terminated
<1>3. ASSUME Inv14 PROVE Cpp14!SleepersNotNeeded
  BY <1>3, Counts14 DEF Inv14, Served, Coming, ToCome14, Cpp14!SleepersNotNeeded
<1>4. ASSUME Inv14 PROVE Cpp14!DataFreedEmpty
  <2> SUFFICES ASSUME refs = {} PROVE queue = <<>> /\ Cpp14!Running = {} /\ cond = {}
    BY DEF Cpp14!DataFreedEmpty
  <2>1. queue = <<>> /\ \A w \in Workers : pc[w] = "left"
    BY <1>4, PoolsAssumption DEF Inv14
  <2>. QED BY <1>4, <2>1 DEF Inv14, Cpp14!TypeOK, Cpp14!Running
<1>. QED BY <1>2, <1>3, <1>4 DEF Inv14

-----------------------------------------------------------------------------
\* The pools that set their stop flag without the mutex: ThreadPoolCpp98,
\* ThreadPoolCpp03 and ThreadPoolCpp11.

\* The workers that are on their way to the queue, sooner or later.
OnTheWay == {w \in Workers : pc[w] # "run" /\ w \notin cond}

Awake(n) == cond # {} /\ ~stopped => Len(queue) <= Cardinality(OnTheWay) + n

\* A worker that looks at the queue holds the mutex, and while the pool is not
\* stopped what it saw is still so.
InvStopFlag ==
  /\ Cpp9803!PoolTypeOK
  /\ Once
  /\ \A w \in cond : pc[w] = "asleep"
  /\ \A w \in Workers : pc[w] \in {"check", "block", "test"} => mutex = w
  /\ \A w \in Workers : pc[w] = "block" /\ ~stopped => queue = <<>>
  /\ \A w \in Workers : pc[w] = "test" /\ ~stopped => queue # <<>>

Labels == {"top", "lock", "check", "block", "asleep", "test", "run", "exited"}

\* The instances count as this module does.
LEMMA CountsStopFlag == \A S : Cpp9803!Cardinality(S) = Cardinality(S) /\ Cpp11!Cardinality(S) = Cardinality(S)
BY DEF Cpp9803!Cardinality, Cpp11!Cardinality, Cardinality

\* A new pool with a stop flag outside its mutex.
LEMMA InitStopFlag == Cpp9803!PoolInit => InvStopFlag /\ Known = {} /\ cond = {} /\ owner = "use" /\ ~stopped
<1> SUFFICES ASSUME Cpp9803!PoolInit
             PROVE  InvStopFlag /\ Known = {} /\ cond = {} /\ owner = "use" /\ ~stopped
  OBVIOUS
<1> USE DEF Cpp9803!PoolInit, Cpp9803!NoTask, Cpp9803!Nobody
<1>1. Cpp9803!PoolTypeOK
  <2>1. pc \in [Workers -> Labels]
    BY DEF Labels
  <2>2. task \in [Workers -> Tasks \cup {"none"}]
    OBVIOUS
  <2>3. queue \in Seq(Tasks)
    OBVIOUS
  <2>4. stopped \in BOOLEAN
    OBVIOUS
  <2>. QED BY <2>1, <2>2, <2>3, <2>4, Zenon DEF Cpp9803!PoolTypeOK, Labels
<1>2. Running = {} /\ InQueue = {}
  BY DEF Running, InQueue
<1>3. Once
  BY <1>2 DEF Once
<1>. QED BY <1>1, <1>2, <1>3 DEF InvStopFlag, Known

\* A worker step that neither takes nor ends a task, nor enters the wait.
LEMMA AwakeStays ==
  ASSUME pc \in [Workers -> Labels], NEW w \in Workers, pc[w] # "run", NEW p \in Labels, p # "run",
         pc' = [pc EXCEPT ![w] = p], cond' = cond, queue' = queue, stopped' = stopped, NEW n \in Nat, Awake(n)
  PROVE  Awake(n)'
<1>1. OnTheWay' = OnTheWay
  BY DEF OnTheWay
<1>. QED BY <1>1 DEF Awake

\* The worker of the three pools with a stop flag outside the mutex.
LEMMA WorkerStopFlag ==
  ASSUME InvStopFlag, NEW w \in Workers, Cpp9803!Worker(w) \/ Cpp9803!SpuriousWakeup(w), NEW n \in Nat, Awake(n)
  PROVE  /\ InvStopFlag' /\ Awake(n)' /\ Known' = Known
         /\ stopped' = stopped /\ owner' = owner
         /\ \A v \in Workers : pc[v] = "exited" => pc'[v] = "exited"
         /\ mutex = "client" => mutex' = "client"
         /\ queue = <<>> => queue' = <<>>
<1>1. /\ pc \in [Workers -> Labels] /\ queue \in Seq(Tasks) /\ cond \subseteq Workers
      /\ mutex \in Workers \cup {"nobody", "client"}
      /\ w # "nobody" /\ w # "client" /\ Once
  BY PoolsAssumption DEF InvStopFlag, Cpp9803!PoolTypeOK, Labels, Cpp9803!Nobody, Cpp9803!Client
<1>2. "top" \in Labels /\ "lock" \in Labels /\ "check" \in Labels /\ "block" \in Labels /\ "asleep" \in Labels
        /\ "test" \in Labels /\ "run" \in Labels /\ "exited" \in Labels
  BY DEF Labels
<1> USE DEF Cpp9803!Goto, Cpp9803!Nobody, Cpp9803!Client, Cpp9803!NoTask
<1>3. ASSUME NEW p \in Labels, p # "run", pc[w] # "run", pc' = [pc EXCEPT ![w] = p], w \notin cond,
             cond' = cond, queue' = queue, stopped' = stopped, task' = task, done' = done, owner' = owner,
             mutex' \in Workers \cup {"nobody", "client"},
             pc[w] # "exited",
             mutex = "client" => mutex' = "client",
             p \in {"check", "block", "test"} => mutex' = w,
             \A v \in Workers : v # w /\ mutex = v => mutex' = v,
             p = "block" /\ ~stopped => queue = <<>>,
             p = "test" /\ ~stopped => queue # <<>>
      PROVE  /\ InvStopFlag' /\ Awake(n)' /\ Known' = Known
             /\ \A v \in Workers : pc[v] = "exited" => pc'[v] = "exited"
  <2>1. Awake(n)'
    BY <1>1, <1>3, AwakeStays
  <2>2. Once' /\ Known' = Known
    BY <1>1, <1>3, TaskStays
  <2>3. \A v \in Workers : pc'[v] = IF v = w THEN p ELSE pc[v]
    BY <1>1, <1>3
  <2>4. Cpp9803!PoolTypeOK'
    BY <1>1, <1>3 DEF InvStopFlag, Cpp9803!PoolTypeOK, Labels
  <2>. QED BY <1>1, <1>3, <2>1, <2>2, <2>3, <2>4 DEF InvStopFlag
<1>4. CASE Cpp9803!LoopTest(w)
  <2>1. PICK p \in {"exited", "lock"} : pc' = [pc EXCEPT ![w] = p]
    BY <1>4 DEF Cpp9803!LoopTest
  <2>2. w \notin cond
    BY <1>4 DEF InvStopFlag, Cpp9803!LoopTest
  <2>. QED BY <1>1, <1>2, <1>3, <1>4, <2>1, <2>2 DEF Cpp9803!LoopTest
<1>5. CASE Cpp9803!Lock(w)
  <2>1. w \notin cond
    BY <1>5 DEF InvStopFlag, Cpp9803!Lock
  <2>2. \A v \in Workers : mutex # v
    BY <1>5, PoolsAssumption DEF Cpp9803!Lock
  <2>. QED BY <1>1, <1>2, <1>3, <1>5, <2>1, <2>2 DEF Cpp9803!Lock
<1>6. CASE Cpp9803!Check(w)
  <2>1. w \notin cond /\ mutex = w
    BY <1>6 DEF InvStopFlag, Cpp9803!Check
  <2>2. PICK p \in {"block", "test"} :
          pc' = [pc EXCEPT ![w] = p] /\ p = IF queue = <<>> /\ ~stopped THEN "block" ELSE "test"
    BY <1>6 DEF Cpp9803!Check
  <2>3. (p = "block" => queue = <<>>) /\ (p = "test" /\ ~stopped => queue # <<>>)
    BY <2>2
  <2>. QED BY <1>1, <1>2, <1>3, <1>6, <2>1, <2>2, <2>3 DEF Cpp9803!Check
<1>7. CASE Cpp9803!GiveUp(w)
  <2>1. w \notin cond /\ mutex = w
    BY <1>7 DEF InvStopFlag, Cpp9803!GiveUp
  <2>. QED BY <1>1, <1>2, <1>3, <1>7, <2>1 DEF Cpp9803!GiveUp
<1>8. CASE Cpp9803!Block(w)
  <2>1. mutex = w /\ (~stopped => queue = <<>>) /\ w \notin cond
    BY <1>8 DEF InvStopFlag, Cpp9803!Block
  <2>2. Awake(n)'
    <3>1. OnTheWay' \in SUBSET Workers
      BY DEF OnTheWay
    <3>2. Cardinality(OnTheWay') \in Nat
      BY <3>1, WorkersCounted
    <3>3. stopped' \/ Len(queue') = 0
      BY <1>8, <2>1 DEF Cpp9803!Block
    <3>. QED BY <3>2, <3>3 DEF Awake
  <2>3. Once' /\ Known' = Known
    BY <1>1, <1>2, <1>8, TaskStays DEF Cpp9803!Block
  <2>4. \A v \in Workers : pc'[v] = IF v = w THEN "asleep" ELSE pc[v]
    BY <1>1, <1>8 DEF Cpp9803!Block
  <2>5. Cpp9803!PoolTypeOK'
    BY <1>8 DEF InvStopFlag, Cpp9803!PoolTypeOK, Cpp9803!Block
  <2>6. InvStopFlag'
    BY <1>1, <1>8, <2>1, <2>3, <2>4, <2>5 DEF InvStopFlag, Cpp9803!Block
  <2>. QED BY <1>1, <1>8, <2>1, <2>2, <2>3, <2>4, <2>6 DEF Cpp9803!Block
<1>9. CASE Cpp9803!Dequeue(w)
  <2>1. mutex = w /\ queue # <<>> /\ w \notin cond
    BY <1>9 DEF InvStopFlag, Cpp9803!Dequeue
  <2>2. Head(queue) \in Tasks /\ queue' \in Seq(Tasks) /\ Len(queue') = Len(queue) - 1 /\ Len(queue) \in Nat
    BY <1>1, <1>9, <2>1, TailFacts DEF Cpp9803!Dequeue
  <2>3. Awake(n)'
    <3>1. OnTheWay' = OnTheWay \ {w} /\ w \in OnTheWay /\ OnTheWay \in SUBSET Workers
      BY <1>1, <1>9, <2>1 DEF OnTheWay, Cpp9803!Dequeue
    <3>2. Cardinality(OnTheWay') = Cardinality(OnTheWay) - 1 /\ Cardinality(OnTheWay) \in Nat
      BY <3>1, WorkersCounted
    <3>. QED BY <1>9, <2>2, <3>2 DEF Awake, Cpp9803!Dequeue
  <2>4. Once' /\ Known' = Known
    BY <1>1, <1>2, <1>9, <2>1, TaskTaken DEF Cpp9803!Dequeue
  <2>5. \A v \in Workers : pc'[v] = IF v = w THEN "run" ELSE pc[v]
    BY <1>1, <1>9 DEF Cpp9803!Dequeue
  <2>6. Cpp9803!PoolTypeOK'
    BY <1>9, <2>2 DEF InvStopFlag, Cpp9803!PoolTypeOK, Cpp9803!Dequeue
  <2>7. \A v \in Workers : pc'[v] \notin {"check", "block", "test"}
    BY <1>1, <2>1, <2>5 DEF InvStopFlag
  <2>8. \A v \in cond' : pc'[v] = "asleep"
    BY <1>1, <1>9, <2>1, <2>5 DEF InvStopFlag, Cpp9803!Dequeue
  <2>9. InvStopFlag'
    BY <2>4, <2>6, <2>7, <2>8 DEF InvStopFlag
  <2>. QED BY <1>1, <1>9, <2>1, <2>3, <2>4, <2>5, <2>9 DEF Cpp9803!Dequeue
<1>10. CASE Cpp9803!Run(w)
  <2>1. w \notin cond /\ task[w] \in Tasks
    BY <1>1, <1>10 DEF InvStopFlag, Cpp9803!Run, Once
  <2>2. Awake(n)'
    <3>1. OnTheWay' = OnTheWay \cup {w} /\ OnTheWay \in SUBSET Workers
      BY <1>1, <1>10, <2>1 DEF OnTheWay, Cpp9803!Run
    <3>2. Cardinality(OnTheWay') >= Cardinality(OnTheWay) /\ Cardinality(OnTheWay) \in Nat
            /\ Cardinality(OnTheWay') \in Nat
      BY <3>1, WorkersGrow, WorkersCounted
    <3>3. Len(queue') = Len(queue) /\ Len(queue) \in Nat /\ stopped' = stopped /\ cond' = cond
      BY <1>1, <1>10 DEF Cpp9803!Run
    <3>. QED BY <3>2, <3>3 DEF Awake
  <2>3. Once' /\ Known' = Known
    BY <1>1, <1>2, <1>10, TaskDone DEF Cpp9803!Run
  <2>4. \A v \in Workers : pc'[v] = IF v = w THEN "top" ELSE pc[v]
    BY <1>1, <1>10 DEF Cpp9803!Run
  <2>5. Cpp9803!PoolTypeOK'
    BY <1>10, <2>1 DEF InvStopFlag, Cpp9803!PoolTypeOK, Cpp9803!Run
  <2>6. InvStopFlag'
    BY <1>1, <1>10, <2>1, <2>3, <2>4, <2>5 DEF InvStopFlag, Cpp9803!Run
  <2>. QED BY <1>1, <1>10, <2>1, <2>2, <2>3, <2>4, <2>6 DEF Cpp9803!Run
<1>11. CASE Cpp9803!SpuriousWakeup(w)
  <2>1. Awake(n)'
    <3>1. OnTheWay' = OnTheWay \cup {w} /\ OnTheWay \in SUBSET Workers
      BY <1>1, <1>11 DEF InvStopFlag, OnTheWay, Cpp9803!SpuriousWakeup
    <3>2. Cardinality(OnTheWay') >= Cardinality(OnTheWay) /\ Cardinality(OnTheWay) \in Nat
            /\ Cardinality(OnTheWay') \in Nat
      BY <3>1, WorkersGrow, WorkersCounted
    <3>3. Len(queue') = Len(queue) /\ Len(queue) \in Nat /\ stopped' = stopped /\ (cond = {} => cond' = {})
      BY <1>1, <1>11 DEF Cpp9803!SpuriousWakeup
    <3>. QED BY <3>2, <3>3 DEF Awake
  <2>2. Once' /\ Known' = Known
    BY <1>1, <1>11, TasksStay DEF Cpp9803!SpuriousWakeup
  <2>3. InvStopFlag'
    BY <1>11, <2>2 DEF InvStopFlag, Cpp9803!PoolTypeOK, Cpp9803!SpuriousWakeup
  <2>. QED BY <1>11, <2>1, <2>2, <2>3 DEF Cpp9803!SpuriousWakeup
<1>. QED BY <1>4, <1>5, <1>6, <1>7, <1>8, <1>9, <1>10, <1>11 DEF Cpp9803!Worker

\* A task is queued under the mutex.
LEMMA PushStopFlag ==
  ASSUME InvStopFlag, NEW t \in Tasks, t \notin Known, \A w \in Workers : mutex # w, queue' = Append(queue, t),
         UNCHANGED <<stopped, mutex, cond, pc, task, done>>,
         owner' \in {"use", "signal", "broadcast", "join", "end"}, NEW n \in Nat, Awake(n)
  PROVE  InvStopFlag' /\ Awake(n + 1)' /\ Known' = Known \cup {t}
<1>1. queue \in Seq(Tasks) /\ Once
  BY DEF InvStopFlag, Cpp9803!PoolTypeOK
<1>2. queue' \in Seq(Tasks) /\ Len(queue') = Len(queue) + 1 /\ Len(queue) \in Nat
  BY <1>1, AppendFacts
<1>3. Once' /\ Known' = Known \cup {t}
  BY <1>1, TaskAdded
<1>4. OnTheWay' = OnTheWay /\ OnTheWay \in SUBSET Workers
  BY DEF OnTheWay
<1>5. Cardinality(OnTheWay') = Cardinality(OnTheWay) /\ Cardinality(OnTheWay) \in Nat
  BY <1>4, WorkersCounted
<1>6. Awake(n + 1)'
  BY <1>2, <1>5 DEF Awake
<1>7. Cpp9803!PoolTypeOK'
  BY <1>2 DEF InvStopFlag, Cpp9803!PoolTypeOK
<1>8. \A w \in Workers : pc[w] \notin {"check", "block", "test"}
  BY DEF InvStopFlag
<1>9. InvStopFlag'
  BY <1>3, <1>7, <1>8 DEF InvStopFlag
<1>. QED BY <1>3, <1>6, <1>9

\* The notification after the unlock wakes a worker, or there is none asleep.
LEMMA NotifyStopFlag ==
  ASSUME InvStopFlag, cond' \in Cpp9803!AfterNotifyOne(cond), UNCHANGED <<queue, stopped, mutex, pc, task, done>>,
         owner' \in {"use", "signal", "broadcast", "join", "end"}, Awake(1)
  PROVE  InvStopFlag' /\ Awake(0)' /\ Known' = Known
<1>1. queue \in Seq(Tasks) /\ Once /\ cond \subseteq Workers
  BY DEF InvStopFlag, Cpp9803!PoolTypeOK
<1>2. \/ cond' = {}
      \/ \E w \in cond : cond' = cond \ {w}
  BY DEF Cpp9803!AfterNotifyOne
<1>3. Once' /\ Known' = Known
  BY <1>1, TasksStay
<1>4. Awake(0)'
  <2>1. CASE cond' = {}
    BY <2>1 DEF Awake
  <2>2. ASSUME NEW w \in cond, cond' = cond \ {w} PROVE Awake(0)'
    <3>1. OnTheWay' = OnTheWay \cup {w} /\ w \in Workers \ OnTheWay /\ OnTheWay \in SUBSET Workers
      BY <1>1, <2>2 DEF OnTheWay, InvStopFlag
    <3>2. Cardinality(OnTheWay') = Cardinality(OnTheWay) + 1 /\ Cardinality(OnTheWay) \in Nat
      BY <3>1, WorkersCounted
    <3>3. Len(queue') = Len(queue) /\ Len(queue) \in Nat
      BY <1>1
    <3>. QED BY <2>2, <3>2, <3>3 DEF Awake
  <2>. QED BY <1>2, <2>1, <2>2
<1>5. cond' \subseteq cond
  BY <1>2
<1>6. InvStopFlag'
  BY <1>3, <1>5 DEF InvStopFlag, Cpp9803!PoolTypeOK
<1>. QED BY <1>3, <1>4, <1>6

\* The steps of stop().
LEMMA StopStopFlag ==
  ASSUME InvStopFlag, Cpp9803!StopFlag \/ Cpp9803!StopBroadcast \/ Cpp9803!StopJoin, NEW n \in Nat, Awake(n)
  PROVE  /\ InvStopFlag' /\ Awake(n)' /\ Known' = Known
         /\ pc' = pc /\ queue' = queue /\ mutex' = mutex
         /\ stopped' = (owner = "use" \/ stopped) /\ owner' \in {"broadcast", "join", "end"}
         /\ owner' = "end" => \A w \in Workers : pc[w] = "exited"
         /\ owner \in {"use", "broadcast", "join"} /\ (owner = "use" => ~stopped)
<1> USE DEF Cpp9803!StopFlag, Cpp9803!StopBroadcast, Cpp9803!StopJoin, Cpp9803!AfterNotifyAll
<1>1. Once' /\ Known' = Known
  BY TasksStay DEF InvStopFlag
<1>2. cond' \in {cond, {}} /\ pc' = pc /\ queue' = queue /\ (~stopped' => ~stopped)
  BY DEF InvStopFlag, Cpp9803!PoolTypeOK
<1>3. Awake(n)'
  BY <1>2 DEF Awake, OnTheWay
<1>4. InvStopFlag'
  BY <1>1, <1>2 DEF InvStopFlag, Cpp9803!PoolTypeOK
<1>5. stopped' = (owner = "use" \/ stopped)
  BY DEF InvStopFlag, Cpp9803!PoolTypeOK
<1>. QED BY <1>1, <1>2, <1>3, <1>4, <1>5

\* What a step that leaves queue, workers and mutex alone preserves.
LEMMA StillStopFlag ==
  ASSUME InvStopFlag, UNCHANGED Cpp9803!poolVars, NEW n \in Nat, Awake(n)
  PROVE  InvStopFlag' /\ Awake(n)' /\ Known' = Known
<1>1. Once' /\ Known' = Known
  BY TasksStay DEF InvStopFlag, Cpp9803!poolVars
<1>2. InvStopFlag' /\ Awake(n)'
  BY <1>1 DEF InvStopFlag, Cpp9803!poolVars, Cpp9803!PoolTypeOK, Awake, OnTheWay
<1>. QED BY <1>1, <1>2

-----------------------------------------------------------------------------
\* ThreadPoolCpp98 and ThreadPoolCpp03

SignalToCome == IF owner = "signal" THEN 1 ELSE 0

Inv9803 ==
  /\ InvStopFlag
  /\ Awake(SignalToCome)
  /\ accepted \subseteq Tasks
  /\ stopped <=> owner \in {"broadcast", "join", "end"}

\* What was queued when stop() came, the destructor deletes.
Inv98 == Inv9803 /\ deleted \subseteq Tasks /\ deleted \cap Known = {} /\ accepted = Known \cup deleted

\* main stops the pool when all its tasks are queued and none is any more.
Inv03Main ==
  /\ Inv9803
  /\ accepted = Known
  /\ stopped => accepted = Tasks /\ queue = <<>>
  /\ owner = "end" => \A w \in Workers : pc[w] = "exited"

\* The steps the two pools have in common.
LEMMA Worker9803 ==
  ASSUME Inv9803, NEW w \in Workers, Cpp9803!Worker(w) \/ Cpp9803!SpuriousWakeup(w), accepted' = accepted
  PROVE  /\ Inv9803' /\ Known' = Known /\ stopped' = stopped /\ owner' = owner
         /\ \A v \in Workers : pc[v] = "exited" => pc'[v] = "exited"
         /\ queue = <<>> => queue' = <<>>
<1>1. PICK n \in {0, 1} : n = SignalToCome
  BY DEF SignalToCome
<1>2. n \in Nat /\ InvStopFlag /\ Awake(n)
  BY <1>1 DEF Inv9803
<1>3. /\ InvStopFlag' /\ Awake(n)' /\ Known' = Known
      /\ stopped' = stopped /\ owner' = owner
      /\ \A v \in Workers : pc[v] = "exited" => pc'[v] = "exited"
      /\ queue = <<>> => queue' = <<>>
  BY <1>2, WorkerStopFlag
<1>4. n = SignalToCome'
  BY <1>1, <1>3 DEF SignalToCome
<1>. QED BY <1>3, <1>4 DEF Inv9803

\* addTask of Cpp98 and Cpp03: the push under the mutex
LEMMA Add9803 ==
  ASSUME Inv9803, NEW t \in Tasks, t \notin Known, Cpp9803!Push(t), accepted' = accepted \cup {t}
  PROVE  Inv9803' /\ Known' = Known \cup {t} /\ ~stopped' /\ owner' = "signal"
<1>1. Awake(0) /\ SignalToCome' = 1 /\ owner' = "signal" /\ ~stopped' /\ InvStopFlag
  BY DEF Inv9803, SignalToCome, Cpp9803!Push
<1>2. \A w \in Workers : mutex # w
  BY PoolsAssumption DEF Cpp9803!Push, Cpp9803!Nobody
<1>3. InvStopFlag' /\ Awake(0 + 1)' /\ Known' = Known \cup {t}
  BY <1>1, <1>2, PushStopFlag DEF Cpp9803!Push
<1>. QED BY <1>1, <1>3 DEF Inv9803

\* and the signal after it.
LEMMA Signal9803 ==
  ASSUME Inv9803, Cpp9803!Signal, accepted' = accepted
  PROVE  Inv9803' /\ Known' = Known /\ pc' = pc /\ queue' = queue /\ ~stopped' /\ owner' = "use"
<1>1. Awake(1) /\ SignalToCome' = 0 /\ owner' = "use" /\ ~stopped' /\ InvStopFlag
  BY DEF Inv9803, SignalToCome, Cpp9803!Signal
<1>2. InvStopFlag' /\ Awake(0)' /\ Known' = Known
  BY <1>1, NotifyStopFlag DEF Cpp9803!Signal
<1>. QED BY <1>1, <1>2 DEF Inv9803, Cpp9803!Signal

\* stop of Cpp98 and Cpp03: flag, broadcast, join.
LEMMA Stop9803 ==
  ASSUME Inv9803, Cpp9803!StopFlag \/ Cpp9803!StopBroadcast \/ Cpp9803!StopJoin, accepted' = accepted
  PROVE  /\ Inv9803' /\ Known' = Known /\ pc' = pc /\ queue' = queue /\ stopped'
         /\ owner' = "end" => \A w \in Workers : pc[w] = "exited"
<1>1. SignalToCome = 0 /\ InvStopFlag /\ Awake(0) /\ 0 \in Nat
  BY DEF Inv9803, SignalToCome, Cpp9803!StopFlag, Cpp9803!StopBroadcast, Cpp9803!StopJoin
<1>2. /\ InvStopFlag' /\ Awake(0)' /\ Known' = Known
      /\ pc' = pc /\ queue' = queue
      /\ stopped' = (owner = "use" \/ stopped) /\ owner' \in {"broadcast", "join", "end"}
      /\ owner' = "end" => \A w \in Workers : pc[w] = "exited"
      /\ owner \in {"use", "broadcast", "join"}
  BY <1>1, StopStopFlag
<1>3. stopped' /\ SignalToCome' = 0
  BY <1>2 DEF Inv9803, SignalToCome
<1>. QED BY <1>2, <1>3 DEF Inv9803

\* ~ThreadPool of Cpp98 comes after the joins.
LEMMA Destructor98 == ASSUME Inv98, Cpp9803!Destructor PROVE Inv98'
<1> USE DEF Cpp9803!Destructor
<1>1. /\ Inv9803 /\ InvStopFlag /\ Once /\ stopped /\ owner = "end" /\ queue' = <<>> /\ queue \in Seq(Tasks)
      /\ pc' = pc /\ task' = task /\ done' = done /\ stopped' = stopped /\ owner' = owner
      /\ deleted' = deleted \cup InQueue
  BY DEF Inv98, Inv9803, InvStopFlag, Cpp9803!PoolTypeOK, InQueue
<1>2. Running' = Running /\ InQueue' = {} /\ InQueue \cap (Running \cup done) = {} /\ InQueue \subseteq Tasks
  BY <1>1 DEF Running, InQueue, Once
<1>3. Known' = Running \cup done /\ Known = InQueue \cup Running \cup done
  BY <1>1, <1>2 DEF Known
<1>4. Once'
  BY <1>1, <1>2 DEF Once
<1>5. InvStopFlag' /\ Awake(SignalToCome)'
  <2>1. queue' \in Seq(Tasks)
    BY <1>1
  <2>. QED BY <1>1, <1>4, <2>1 DEF InvStopFlag, Cpp9803!PoolTypeOK, Awake
<1>6. Inv9803'
  BY <1>1, <1>5 DEF Inv9803
<1>7. deleted' \subseteq Tasks /\ deleted' \cap Known' = {} /\ accepted' = Known' \cup deleted'
  BY <1>1, <1>2, <1>3 DEF Inv98
<1>. QED BY <1>6, <1>7 DEF Inv98

\* Inv98 is inductive for ThreadPoolCpp98.
LEMMA Pool98 ==
  /\ Cpp9803!Init => Inv98
  /\ Inv98 /\ [Cpp9803!Next]_(Cpp9803!vars) => Inv98'
  /\ Inv98 => Cpp9803!TypeOK /\ Cpp9803!SleepersNotNeeded /\ Cpp9803!EveryTaskAccountedFor
<1>1. Cpp9803!Init => Inv98
  BY InitStopFlag DEF Cpp9803!Init, Inv98, Inv9803, Awake
<1>2. ASSUME Inv98, UNCHANGED Cpp9803!vars PROVE Inv98'
  <2>1. PICK n \in {0, 1} : n = SignalToCome
    BY DEF SignalToCome
  <2>2. n = SignalToCome' /\ n \in Nat /\ UNCHANGED Cpp9803!poolVars /\ InvStopFlag /\ Awake(n)
    BY <1>2, <2>1 DEF SignalToCome, Cpp9803!vars, Cpp9803!poolVars, Inv98, Inv9803
  <2>3. InvStopFlag' /\ Awake(n)' /\ Known' = Known
    BY <2>2, StillStopFlag
  <2>. QED BY <1>2, <2>2, <2>3 DEF Inv98, Inv9803, Cpp9803!vars, Cpp9803!poolVars
<1>3. ASSUME Inv98, NEW w \in Workers, Cpp9803!WorkerStep(w) \/ (Cpp9803!SpuriousWakeup(w) /\ UNCHANGED <<accepted, deleted>>)
      PROVE  Inv98'
  <2>1. /\ Cpp9803!Worker(w) \/ Cpp9803!SpuriousWakeup(w)
        /\ accepted' = accepted /\ deleted' = deleted
    BY <1>3 DEF Cpp9803!WorkerStep, Cpp9803!take, Cpp9803!threadFunc, Cpp9803!Worker
  <2>2. Inv9803' /\ Known' = Known
    BY <1>3, <2>1, Worker9803 DEF Inv98
  <2>. QED BY <1>3, <2>1, <2>2 DEF Inv98
<1>4. ASSUME Inv98, NEW t \in Tasks, Cpp9803!addTask(t) PROVE Inv98'
  <2>1. t \notin Known /\ t \notin deleted
    BY <1>4 DEF Inv98, Cpp9803!addTask
  <2>2. Inv9803' /\ Known' = Known \cup {t}
    BY <1>4, <2>1, Add9803 DEF Inv98, Cpp9803!addTask
  <2>. QED BY <1>4, <2>1, <2>2 DEF Inv98, Cpp9803!addTask
<1>5. ASSUME Inv98, Cpp9803!addTaskSignal PROVE Inv98'
  <2>1. Inv9803' /\ Known' = Known
    BY <1>5, Signal9803 DEF Inv98, Cpp9803!addTaskSignal
  <2>. QED BY <1>5, <2>1 DEF Inv98, Cpp9803!addTaskSignal
<1>6. ASSUME Inv98, Cpp9803!stop PROVE Inv98'
  <2>1. /\ Cpp9803!StopFlag \/ Cpp9803!StopBroadcast \/ Cpp9803!StopJoin
        /\ accepted' = accepted /\ deleted' = deleted
    BY <1>6 DEF Cpp9803!stop, Cpp9803!stopContinues
  <2>2. Inv9803' /\ Known' = Known
    BY <1>6, <2>1, Stop9803 DEF Inv98
  <2>. QED BY <1>6, <2>1, <2>2 DEF Inv98
<1>7. Inv98 /\ [Cpp9803!Next]_(Cpp9803!vars) => Inv98'
  BY <1>2, <1>3, <1>4, <1>5, <1>6, Destructor98 DEF Cpp9803!Next
<1>8. ASSUME Inv98 PROVE Cpp9803!TypeOK /\ Cpp9803!SleepersNotNeeded /\ Cpp9803!EveryTaskAccountedFor
  <2>1. Cpp9803!TypeOK
    BY <1>8 DEF Inv98, Inv9803, InvStopFlag, Cpp9803!TypeOK
  <2>2. Cpp9803!SleepersNotNeeded
    BY <1>8, CountsStopFlag DEF Inv98, Inv9803, Awake, OnTheWay, SignalToCome, Cpp9803!SleepersNotNeeded, Cpp9803!EnoughAwake
  <2>3. Cpp9803!Running = Running
    BY DEF Cpp9803!Running, Running
  <2>4. Cpp9803!EveryTaskAccountedFor
    BY <1>8, <2>3 DEF Inv98, Known, InQueue, Cpp9803!EveryTaskAccountedFor
  <2>. QED BY <2>1, <2>2, <2>4
<1>. QED BY <1>1, <1>7, <1>8

\* The same for ThreadPoolCpp03 with its main program.
LEMMA Pool03Main ==
  /\ Cpp9803!Init03 => Inv03Main
  /\ Inv03Main /\ [Cpp9803!Next03]_(Cpp9803!vars03) => Inv03Main'
  /\ Inv03Main => Cpp9803!TypeOK03 /\ Cpp9803!SleepersNotNeeded03 /\ Cpp9803!NothingLost
<1>1. Cpp9803!Init03 => Inv03Main
  BY InitStopFlag DEF Cpp9803!Init03, Inv03Main, Inv9803, Awake
<1>2. ASSUME Inv03Main, UNCHANGED Cpp9803!vars03 PROVE Inv03Main'
  <2>1. PICK n \in {0, 1} : n = SignalToCome
    BY DEF SignalToCome
  <2>2. n = SignalToCome' /\ n \in Nat /\ UNCHANGED Cpp9803!poolVars /\ InvStopFlag /\ Awake(n)
    BY <1>2, <2>1 DEF SignalToCome, Cpp9803!vars03, Cpp9803!poolVars, Inv03Main, Inv9803
  <2>3. InvStopFlag' /\ Awake(n)' /\ Known' = Known
    BY <2>2, StillStopFlag
  <2>. QED BY <1>2, <2>2, <2>3 DEF Inv03Main, Inv9803, Cpp9803!vars03, Cpp9803!poolVars
<1>3. ASSUME Inv03Main, NEW w \in Workers, Cpp9803!WorkerStep03(w) \/ (Cpp9803!SpuriousWakeup(w) /\ UNCHANGED accepted)
      PROVE  Inv03Main'
  <2>1. /\ Cpp9803!Worker(w) \/ Cpp9803!SpuriousWakeup(w)
        /\ accepted' = accepted
    BY <1>3 DEF Cpp9803!WorkerStep03
  <2>2. /\ Inv9803' /\ Known' = Known /\ stopped' = stopped /\ owner' = owner
        /\ \A v \in Workers : pc[v] = "exited" => pc'[v] = "exited"
        /\ queue = <<>> => queue' = <<>>
    BY <1>3, <2>1, Worker9803 DEF Inv03Main
  <2>. QED BY <1>3, <2>1, <2>2 DEF Inv03Main
<1>4. ASSUME Inv03Main, NEW t \in Tasks, Cpp9803!addTask03(t) PROVE Inv03Main'
  <2>1. t \notin Known
    BY <1>4 DEF Inv03Main, Cpp9803!addTask03
  <2>2. Inv9803' /\ Known' = Known \cup {t} /\ ~stopped' /\ owner' = "signal"
    BY <1>4, <2>1, Add9803 DEF Inv03Main, Cpp9803!addTask03
  <2>. QED BY <1>4, <2>1, <2>2 DEF Inv03Main, Cpp9803!addTask03
<1>5. ASSUME Inv03Main, Cpp9803!addTaskSignal03 PROVE Inv03Main'
  <2>1. Inv9803' /\ Known' = Known /\ ~stopped' /\ owner' = "use"
    BY <1>5, Signal9803 DEF Inv03Main, Cpp9803!addTaskSignal03
  <2>. QED BY <1>5, <2>1 DEF Inv03Main, Cpp9803!addTaskSignal03
<1>6. ASSUME Inv03Main, Cpp9803!MainStops \/ Cpp9803!stop03 PROVE Inv03Main'
  <2>1. /\ Cpp9803!StopFlag \/ Cpp9803!StopBroadcast \/ Cpp9803!StopJoin
        /\ accepted' = accepted
    BY <1>6 DEF Cpp9803!MainStops, Cpp9803!stop03
  <2>2. /\ Inv9803' /\ Known' = Known /\ pc' = pc /\ queue' = queue
        /\ owner' = "end" => \A w \in Workers : pc[w] = "exited"
    BY <1>6, <2>1, Stop9803 DEF Inv03Main
  <2>3. accepted = Tasks /\ queue = <<>>
    BY <1>6 DEF Cpp9803!MainStops, Cpp9803!stop03, Cpp9803!SizeIsZero, Cpp9803!StopBroadcast,
                Cpp9803!StopJoin, Inv03Main, Inv9803
  <2>. QED BY <1>6, <2>1, <2>2, <2>3 DEF Inv03Main
<1>7. Inv03Main /\ [Cpp9803!Next03]_(Cpp9803!vars03) => Inv03Main'
  BY <1>2, <1>3, <1>4, <1>5, <1>6 DEF Cpp9803!Next03, Cpp9803!Exit
<1>8. ASSUME Inv03Main PROVE Cpp9803!TypeOK03 /\ Cpp9803!SleepersNotNeeded03 /\ Cpp9803!NothingLost
  <2>1. Cpp9803!TypeOK03
    BY <1>8 DEF Inv03Main, Inv9803, InvStopFlag, Cpp9803!TypeOK03
  <2>2. Cpp9803!SleepersNotNeeded03
    BY <1>8, CountsStopFlag DEF Inv03Main, Inv9803, Awake, OnTheWay, SignalToCome, Cpp9803!SleepersNotNeeded03,
       Cpp9803!EnoughAwake
  <2>3. ASSUME owner = "end" PROVE done = Tasks /\ queue = <<>>
    <3>1. queue = <<>> /\ accepted = Tasks /\ \A w \in Workers : pc[w] = "exited"
      BY <1>8, <2>3 DEF Inv03Main, Inv9803
    <3>2. Running = {} /\ InQueue = {}
      BY <3>1 DEF Running, InQueue
    <3>. QED BY <1>8, <3>1, <3>2 DEF Inv03Main, Known
  <2>. QED BY <2>1, <2>2, <2>3 DEF Cpp9803!NothingLost
<1>. QED BY <1>1, <1>7, <1>8

-----------------------------------------------------------------------------
\* ThreadPoolCpp11

NotifyToCome == IF client \in {"unlock", "notify"} THEN 1 ELSE 0

Inv11 ==
  /\ InvStopFlag
  /\ Awake(NotifyToCome)
  /\ client \in {"idle", "emplace", "unlock", "notify"} /\ accepted \subseteq Tasks /\ refused \subseteq Tasks
  /\ client \in {"emplace", "unlock"} => mutex = "client"
  /\ accepted = Known
  /\ owner = "end" => \A w \in Workers : pc[w] = "exited"

\* The worker and the stop of Cpp11 are those of Cpp98 and Cpp03.
LEMMA SameStopFlag ==
  /\ Cpp11!PoolInit <=> Cpp9803!PoolInit
  /\ \A w : (Cpp11!Worker(w) <=> Cpp9803!Worker(w)) /\ (Cpp11!SpuriousWakeup(w) <=> Cpp9803!SpuriousWakeup(w))
  /\ Cpp11!StopFlag <=> Cpp9803!StopFlag
  /\ Cpp11!StopBroadcast <=> Cpp9803!StopBroadcast
  /\ Cpp11!StopJoin <=> Cpp9803!StopJoin
  /\ Cpp11!PoolTypeOK <=> Cpp9803!PoolTypeOK
  /\ Cpp11!poolVars = Cpp9803!poolVars /\ Cpp11!poolVars' = Cpp9803!poolVars'
  /\ \A S : Cpp11!AfterNotifyOne(S) = Cpp9803!AfterNotifyOne(S)
BY DEF Cpp11!PoolInit, Cpp9803!PoolInit, Cpp11!Worker, Cpp9803!Worker, Cpp11!LoopTest, Cpp9803!LoopTest,
       Cpp11!Lock, Cpp9803!Lock, Cpp11!Check, Cpp9803!Check, Cpp11!Block, Cpp9803!Block, Cpp11!GiveUp,
       Cpp9803!GiveUp, Cpp11!Dequeue, Cpp9803!Dequeue, Cpp11!Run, Cpp9803!Run, Cpp11!SpuriousWakeup,
       Cpp9803!SpuriousWakeup, Cpp11!StopFlag, Cpp9803!StopFlag, Cpp11!StopBroadcast, Cpp9803!StopBroadcast,
       Cpp11!StopJoin, Cpp9803!StopJoin, Cpp11!PoolTypeOK, Cpp9803!PoolTypeOK, Cpp11!poolVars, Cpp9803!poolVars,
       Cpp11!Goto, Cpp9803!Goto, Cpp11!Nobody, Cpp9803!Nobody, Cpp11!Client, Cpp9803!Client, Cpp11!NoTask,
       Cpp9803!NoTask, Cpp11!AfterNotifyOne, Cpp9803!AfterNotifyOne, Cpp11!AfterNotifyAll, Cpp9803!AfterNotifyAll

\* The worker of ThreadPoolCpp11.
LEMMA Worker11 ==
  ASSUME Inv11, NEW w \in Workers, Cpp11!Worker(w) \/ Cpp11!SpuriousWakeup(w), UNCHANGED Cpp11!addVars
  PROVE  Inv11'
<1>1. PICK n \in {0, 1} : n = NotifyToCome
  BY DEF NotifyToCome
<1>2. n = NotifyToCome' /\ n \in Nat /\ InvStopFlag /\ Awake(n) /\ client' = client /\ accepted' = accepted /\ refused' = refused
  BY <1>1 DEF NotifyToCome, Cpp11!addVars, Inv11
<1>3. Cpp9803!Worker(w) \/ Cpp9803!SpuriousWakeup(w)
  BY SameStopFlag
<1>4. /\ InvStopFlag' /\ Awake(n)' /\ Known' = Known
      /\ stopped' = stopped /\ owner' = owner
      /\ \A v \in Workers : pc[v] = "exited" => pc'[v] = "exited"
      /\ mutex = "client" => mutex' = "client"
  BY <1>2, <1>3, WorkerStopFlag
<1>. QED BY <1>2, <1>4 DEF Inv11

\* add: it holds mtx_ from the test of stop_ to the unlock.
LEMMA Add11 == ASSUME Inv11, Cpp11!add PROVE Inv11'
<1> USE DEF Cpp11!Nobody, Cpp11!Client
<1>0. \A w \in Workers : w # "client" /\ w # "nobody"
  BY PoolsAssumption
<1>1. InvStopFlag /\ Once
  BY DEF Inv11, InvStopFlag
<1>2. CASE Cpp11!addTest
  <2>1. Awake(0) /\ NotifyToCome = 0 /\ NotifyToCome' = 0
    BY <1>2 DEF Cpp11!addTest, Inv11, NotifyToCome
  <2>2. Once' /\ Known' = Known
    BY <1>1, <1>2, TasksStay DEF Cpp11!addTest
  <2>3. \A w \in Workers : pc[w] \notin {"check", "block", "test"}
    BY <1>0, <1>1, <1>2 DEF InvStopFlag, Cpp11!addTest
  <2>4. InvStopFlag'
    BY <1>1, <1>2, <2>2, <2>3 DEF InvStopFlag, Cpp9803!PoolTypeOK, Cpp9803!Client, Cpp11!addTest
  <2>5. Awake(NotifyToCome)'
    BY <1>2, <2>1 DEF Awake, OnTheWay, Cpp11!addTest
  <2>. QED BY <1>2, <2>2, <2>4, <2>5 DEF Inv11, Cpp11!addTest
<1>3. ASSUME NEW t \in Tasks, Cpp11!addThrow(t) PROVE Inv11'
  <2>1. PICK n \in {0, 1} : n = NotifyToCome
    BY DEF NotifyToCome
  <2>2. n = NotifyToCome' /\ n \in Nat /\ Awake(n) /\ UNCHANGED Cpp9803!poolVars /\ client' = client /\ accepted' = accepted
    BY <1>3, <2>1, SameStopFlag DEF NotifyToCome, Cpp11!addThrow, Inv11
  <2>3. InvStopFlag' /\ Awake(n)' /\ Known' = Known
    BY <1>1, <2>2, StillStopFlag
  <2>. QED BY <1>3, <2>2, <2>3 DEF Inv11, Cpp11!addThrow, Cpp9803!poolVars
<1>4. ASSUME NEW t \in Tasks, Cpp11!addEmplace(t) PROVE Inv11'
  <2>1. /\ Awake(0) /\ NotifyToCome' = 1 /\ t \notin Known /\ mutex = "client" /\ mutex' = mutex
        /\ owner' = owner /\ owner \in {"use", "signal", "broadcast", "join", "end"}
    BY <1>4 DEF Cpp11!addEmplace, Inv11, NotifyToCome, InvStopFlag, Cpp9803!PoolTypeOK
  <2>2. \A w \in Workers : mutex # w
    BY <1>0, <2>1
  <2>3. InvStopFlag' /\ Awake(0 + 1)' /\ Known' = Known \cup {t}
    BY <1>1, <1>4, <2>1, <2>2, PushStopFlag DEF Cpp11!addEmplace
  <2>4. Awake(NotifyToCome)'
    BY <2>1, <2>3
  <2>. QED BY <1>4, <2>1, <2>3, <2>4 DEF Inv11, Cpp11!addEmplace
<1>5. CASE Cpp11!addUnlock
  <2>1. NotifyToCome = 1 /\ NotifyToCome' = 1 /\ mutex = "client"
    BY <1>5 DEF Cpp11!addUnlock, Inv11, NotifyToCome
  <2>2. Once' /\ Known' = Known
    BY <1>1, <1>5, TasksStay DEF Cpp11!addUnlock
  <2>3. \A w \in Workers : pc[w] \notin {"check", "block", "test"}
    BY <1>0, <1>1, <2>1 DEF InvStopFlag
  <2>4. InvStopFlag'
    BY <1>1, <1>5, <2>2, <2>3 DEF InvStopFlag, Cpp9803!PoolTypeOK, Cpp9803!Nobody, Cpp11!addUnlock
  <2>5. Awake(NotifyToCome)'
    BY <1>5, <2>1 DEF Inv11, Awake, OnTheWay, Cpp11!addUnlock
  <2>. QED BY <1>5, <2>2, <2>4, <2>5 DEF Inv11, Cpp11!addUnlock
<1>6. CASE Cpp11!addNotify
  <2>1. /\ Awake(1) /\ NotifyToCome' = 0
        /\ owner' = owner /\ owner \in {"use", "signal", "broadcast", "join", "end"}
    BY <1>6 DEF Cpp11!addNotify, Inv11, NotifyToCome, InvStopFlag, Cpp9803!PoolTypeOK
  <2>2. cond' \in Cpp9803!AfterNotifyOne(cond)
    BY <1>6, SameStopFlag DEF Cpp11!addNotify
  <2>3. InvStopFlag' /\ Awake(0)' /\ Known' = Known
    BY <1>1, <1>6, <2>1, <2>2, NotifyStopFlag DEF Cpp11!addNotify
  <2>4. Awake(NotifyToCome)'
    BY <2>1, <2>3
  <2>. QED BY <1>6, <2>1, <2>3, <2>4 DEF Inv11, Cpp11!addNotify
<1>. QED BY <1>2, <1>3, <1>4, <1>5, <1>6 DEF Cpp11!add, Cpp11!addContinues

\* The destructor of ThreadPoolCpp11.
LEMMA Destructor11 == ASSUME Inv11, Cpp11!Destructor PROVE Inv11'
<1>1. PICK n \in {0, 1} : n = NotifyToCome
  BY DEF NotifyToCome
<1>2. /\ n = NotifyToCome' /\ n \in Nat /\ Awake(n) /\ InvStopFlag
      /\ client' = client /\ accepted' = accepted /\ refused' = refused
  BY <1>1 DEF NotifyToCome, Cpp11!Destructor, Cpp11!DestructorContinues, Cpp11!addVars, Inv11
<1>3. Cpp9803!StopFlag \/ Cpp9803!StopBroadcast \/ Cpp9803!StopJoin
  BY SameStopFlag DEF Cpp11!Destructor, Cpp11!DestructorContinues
<1>4. /\ InvStopFlag' /\ Awake(n)' /\ Known' = Known
      /\ pc' = pc /\ mutex' = mutex
      /\ owner' = "end" => \A w \in Workers : pc[w] = "exited"
  BY <1>2, <1>3, StopStopFlag
<1>. QED BY <1>2, <1>4 DEF Inv11

\* Inv11 is inductive for ThreadPoolCpp11.
LEMMA Pool11 ==
  /\ Cpp11!Init => Inv11
  /\ Inv11 /\ [Cpp11!Next]_(Cpp11!vars) => Inv11'
  /\ Inv11 => Cpp11!TypeOK /\ Cpp11!SleepersNotNeeded /\ Cpp11!BrokenPromisesNeverStarted
<1>1. Cpp11!Init => Inv11
  BY InitStopFlag, SameStopFlag DEF Cpp11!Init, Inv11, Awake
<1>2. ASSUME Inv11, UNCHANGED Cpp11!vars PROVE Inv11'
  <2>1. PICK n \in {0, 1} : n = NotifyToCome
    BY DEF NotifyToCome
  <2>2. /\ n = NotifyToCome' /\ n \in Nat /\ UNCHANGED Cpp9803!poolVars /\ InvStopFlag /\ Awake(n)
        /\ client' = client /\ accepted' = accepted /\ refused' = refused
    BY <1>2, <2>1, SameStopFlag DEF NotifyToCome, Cpp11!vars, Cpp11!addVars, Inv11
  <2>3. InvStopFlag' /\ Awake(n)' /\ Known' = Known
    BY <2>2, StillStopFlag
  <2>. QED BY <1>2, <2>2, <2>3 DEF Inv11, Cpp9803!poolVars
<1>3. Inv11 /\ [Cpp11!Next]_(Cpp11!vars) => Inv11'
  BY <1>2, Worker11, Add11, Destructor11 DEF Cpp11!Next, Cpp11!WorkerLambda
<1>4. ASSUME Inv11 PROVE Cpp11!TypeOK /\ Cpp11!SleepersNotNeeded /\ Cpp11!BrokenPromisesNeverStarted
  <2>1. Cpp11!TypeOK
    BY <1>4, SameStopFlag DEF Inv11, InvStopFlag, Cpp11!TypeOK
  <2>2. Cpp11!SleepersNotNeeded
    BY <1>4, CountsStopFlag DEF Inv11, Awake, OnTheWay, NotifyToCome, Cpp11!SleepersNotNeeded, Cpp11!EnoughAwake
  <2>3. Cpp11!Running = Running
    BY DEF Cpp11!Running, Running
  <2>4. owner = "end" => Running = {}
    BY <1>4 DEF Inv11, Running
  <2>5. Cpp11!BrokenPromisesNeverStarted
    BY <1>4, <2>3, <2>4 DEF Inv11, Known, InQueue, Cpp11!BrokenPromisesNeverStarted
  <2>. QED BY <2>1, <2>2, <2>5
<1>. QED BY <1>1, <1>3, <1>4

-----------------------------------------------------------------------------
\* 01_simple_threadPool

\* The list pool->workers holds every worker.
LEMMA WorkerListFacts ==
  /\ WorkerList \in [1 .. Cardinality(Workers) -> Workers] /\ Cardinality(Workers) \in Nat \ {0}
  /\ Len(WorkerList) = Cardinality(Workers) /\ DOMAIN WorkerList = 1 .. Cardinality(Workers)
  /\ Simple!WorkerSet = Workers
  /\ \A w \in Workers : \E k \in DOMAIN WorkerList : WorkerList[k] = w
<1> DEFINE n == Cardinality(Workers)
<1>1. n \in Nat /\ ExistsBijection(1 .. n, Workers)
  BY PoolsAssumption, FS_CardinalityType
<1>2. n # 0
  BY <1>1, PoolsAssumption, FS_EmptySet
<1>3. PICK f \in [1 .. n -> Workers] : \A w \in Workers : \E k \in 1 .. n : f[k] = w
  BY <1>1 DEF ExistsBijection, Bijection, Surjection
<1>4. {f[k] : k \in DOMAIN f} = Workers
  BY <1>3
<1>5. WorkerList \in [1 .. n -> Workers] /\ {WorkerList[k] : k \in DOMAIN WorkerList} = Workers
  BY <1>4, Zenon DEF WorkerList
<1> HIDE DEF n
<1>6. Len(WorkerList) = n /\ DOMAIN WorkerList = 1 .. n
  BY <1>1, <1>5
<1>7. Simple!WorkerSet = Workers
  BY <1>5 DEF Simple!WorkerSet
<1>8. \A w \in Workers : \E k \in DOMAIN WorkerList : WorkerList[k] = w
  BY <1>5, Zenon
<1>. QED BY <1>1, <1>2, <1>5, <1>6, <1>7, <1>8 DEF n

\* The links h, nx and pv spell out q in both directions.
Spells(q, h, nx, pv) ==
  /\ h = IF q = <<>> THEN "NULL" ELSE q[1]
  /\ \A k \in 1 .. Len(q) : nx[q[k]] = (IF k = Len(q) THEN "NULL" ELSE q[k + 1])
  /\ \A k \in 1 .. Len(q) : pv[q[k]] = (IF k = 1 THEN "NULL" ELSE q[k - 1])
  /\ \A j \in Tasks : (\A k \in 1 .. Len(q) : q[k] # j) => nx[j] = "NULL" /\ pv[j] = "NULL"

Distinct(q) == \A j, k \in 1 .. Len(q) : q[j] = q[k] => j = k

Links == [Tasks -> Tasks \cup {"NULL"}]

\* The jobs q in the list with head h and these links.
Listed(q, h, nx, pv) ==
  q \in Seq(Tasks) /\ Distinct(q) /\ nx \in Links /\ pv \in Links /\ Spells(q, h, nx, pv)

\* LL_INSERT at the head of the list.
LEMMA InsertSpells ==
  ASSUME NEW q, NEW h, NEW nx, NEW pv, Listed(q, h, nx, pv), NEW t \in Tasks, \A k \in 1 .. Len(q) : q[k] # t
  PROVE  Listed(<<t>> \o q, t, [nx EXCEPT ![t] = h], Simple!Set([pv EXCEPT ![t] = "NULL"], h, t))
<1> SUFFICES ASSUME NEW r, r = <<t>> \o q, NEW nr, nr = [nx EXCEPT ![t] = h],
                    NEW pr, pr = Simple!Set([pv EXCEPT ![t] = "NULL"], h, t)
             PROVE  Listed(r, t, nr, pr)
  BY Zenon
<1> q \in Seq(Tasks) /\ Distinct(q) /\ nx \in Links /\ pv \in Links /\ Spells(q, h, nx, pv)
  BY DEF Listed
<1>1. /\ r \in Seq(Tasks) /\ Len(r) = Len(q) + 1 /\ Len(q) \in Nat /\ r[1] = t
      /\ \A k \in 1 .. Len(q) : r[k + 1] = q[k]
  OBVIOUS
<1>2. \A k \in 1 .. Len(r) : k # 1 => k - 1 \in 1 .. Len(q) /\ r[k] = q[k - 1]
  <2> SUFFICES ASSUME NEW k \in 1 .. Len(r), k # 1 PROVE k - 1 \in 1 .. Len(q) /\ r[k] = q[k - 1]
    OBVIOUS
  <2>1. k - 1 \in 1 .. Len(q) /\ (k - 1) + 1 = k
    BY <1>1
  <2>. QED BY <2>1, <1>1
<1>3. \A k \in 1 .. Len(q) : q[k] \in Tasks /\ q[k] # "NULL"
  BY PoolsAssumption
<1>4. t # "NULL" /\ h # t /\ (h = "NULL" <=> Len(q) = 0) /\ (Len(q) # 0 => 1 \in 1 .. Len(q) /\ h = q[1])
        /\ h \in Tasks \cup {"NULL"}
  <2>1. (q = <<>> <=> Len(q) = 0) /\ (Len(q) # 0 => 1 \in 1 .. Len(q))
    BY <1>1
  <2>. QED BY <2>1, <1>3, PoolsAssumption DEF Spells
<1>5. /\ nr \in Links /\ pr \in Links
      /\ \A j \in Tasks : nr[j] = IF j = t THEN h ELSE nx[j]
      /\ \A j \in Tasks : pr[j] = IF j = h THEN t ELSE IF j = t THEN "NULL" ELSE pv[j]
  BY <1>4, PoolsAssumption DEF Simple!Set, Simple!NULL, Links
<1>6. Distinct(r)
  <2> SUFFICES ASSUME NEW j \in 1 .. Len(r), NEW k \in 1 .. Len(r), r[j] = r[k] PROVE j = k
    BY DEF Distinct
  <2>1. CASE j = 1 \/ k = 1
    BY <2>1, <1>1, <1>2
  <2>2. CASE j # 1 /\ k # 1
    <3>1. j - 1 \in 1 .. Len(q) /\ k - 1 \in 1 .. Len(q) /\ q[j - 1] = q[k - 1]
      BY <2>2, <1>2
    <3>2. j - 1 = k - 1
      BY <3>1, Zenon DEF Distinct
    <3>. QED BY <3>2, <1>1
  <2>. QED BY <2>1, <2>2
<1>7. ASSUME NEW k \in 1 .. Len(r) PROVE nr[r[k]] = IF k = Len(r) THEN "NULL" ELSE r[k + 1]
  <2>1. CASE k = 1
    BY <2>1, <1>1, <1>4, <1>5
  <2>2. CASE k # 1
    <3>1. k - 1 \in 1 .. Len(q) /\ r[k] = q[k - 1] /\ q[k - 1] # t /\ (k - 1 = Len(q) <=> k = Len(r))
      BY <2>2, <1>1, <1>2
    <3>2. nr[r[k]] = IF k - 1 = Len(q) THEN "NULL" ELSE q[(k - 1) + 1]
      <4>1. \A m \in 1 .. Len(q) : nx[q[m]] = (IF m = Len(q) THEN "NULL" ELSE q[m + 1])
        BY Zenon DEF Spells
      <4>2. nr[q[k - 1]] = nx[q[k - 1]]
        BY <3>1, <1>3, <1>5
      <4>. QED BY <3>1, <4>1, <4>2, Zenon
    <3>3. k # Len(r) => k \in 1 .. Len(q) /\ (k - 1) + 1 = k
      BY <1>1
    <3>. QED BY <3>1, <3>2, <3>3, <1>1
  <2>. QED BY <2>1, <2>2
<1>8. ASSUME NEW k \in 1 .. Len(r) PROVE pr[r[k]] = IF k = 1 THEN "NULL" ELSE r[k - 1]
  <2>1. CASE k = 1
    BY <2>1, <1>1, <1>4, <1>5
  <2>2. CASE k = 2
    <3>1. k - 1 = 1 /\ 1 \in 1 .. Len(q) /\ r[k] = q[1] /\ Len(q) # 0
      BY <2>2, <1>1, <1>2
    <3>2. q[1] \in Tasks /\ q[1] = h
      BY <3>1, <1>3, <1>4
    <3>3. pr[q[1]] = t
      BY <3>2, <1>5
    <3>4. pr[r[k]] = t /\ r[k - 1] = t /\ k # 1
      BY <3>1, <3>3, <1>1, <2>2
    <3>. QED BY <3>4
  <2>3. CASE k # 1 /\ k # 2
    <3>1. /\ k - 1 \in 1 .. Len(q) /\ r[k] = q[k - 1] /\ q[k - 1] # t /\ k - 1 # 1 /\ Len(q) # 0
          /\ k - 1 # 1 /\ (k - 1) - 1 = k - 2
          /\ k - 2 \in 1 .. Len(q) /\ (k - 2) + 1 = k - 1
      BY <2>3, <1>1, <1>2
    <3>2. q[k - 1] # h
      BY <3>1, <1>4 DEF Distinct
    <3>3. pr[r[k]] = pv[q[k - 1]]
      BY <3>1, <3>2, <1>3, <1>5
    <3>4. pv[q[k - 1]] = q[k - 2]
      BY <3>1 DEF Spells
    <3>5. r[k - 1] = q[k - 2]
      BY <3>1, <1>1
    <3>. QED BY <3>3, <3>4, <3>5, <2>3
  <2>. QED BY <2>1, <2>2, <2>3
<1>9. ASSUME NEW j \in Tasks, \A k \in 1 .. Len(r) : r[k] # j PROVE nr[j] = "NULL" /\ pr[j] = "NULL"
  <2>1. j # t
    <3>1. 1 \in 1 .. Len(r)
      BY <1>1
    <3>. QED BY <3>1, <1>1, <1>9
  <2>2. ASSUME NEW k \in 1 .. Len(q) PROVE q[k] # j
    <3>1. k + 1 \in 1 .. Len(r)
      BY <1>1
    <3>. QED BY <3>1, <1>1, <1>9
  <2>3. j # h
    BY <2>2, <1>4, PoolsAssumption
  <2>4. nx[j] = "NULL" /\ pv[j] = "NULL"
    BY <2>2, Zenon DEF Spells
  <2>. QED BY <2>1, <2>3, <2>4, <1>5
<1>10. r # <<>>
  BY <1>1
<1>. QED BY <1>1, <1>5, <1>6, <1>7, <1>8, <1>9, <1>10 DEF Spells, Listed

\* LL_REMOVE of the head of the list.
LEMMA RemoveSpells ==
  ASSUME NEW q, NEW h, h # "NULL", NEW nx, NEW pv, Listed(q, h, nx, pv)
  PROVE  /\ Listed(Tail(q), nx[h], [Simple!Set(nx, pv[h], nx[h]) EXCEPT ![h] = "NULL"],
                   [Simple!Set(pv, nx[h], pv[h]) EXCEPT ![h] = "NULL"])
         /\ h \in Tasks
<1> SUFFICES ASSUME NEW r, r = Tail(q), NEW nr, nr = [Simple!Set(nx, pv[h], nx[h]) EXCEPT ![h] = "NULL"],
                    NEW pr, pr = [Simple!Set(pv, nx[h], pv[h]) EXCEPT ![h] = "NULL"]
             PROVE  Listed(r, nx[h], nr, pr) /\ h \in Tasks
  BY Zenon
<1> q \in Seq(Tasks) /\ Distinct(q) /\ nx \in Links /\ pv \in Links /\ Spells(q, h, nx, pv)
  BY DEF Listed
<1>1. q # <<>> /\ h = q[1]
  BY DEF Spells
<1>2. /\ h \in Tasks /\ Len(q) \in Nat /\ 1 \in 1 .. Len(q)
      /\ r \in Seq(Tasks) /\ Len(r) = Len(q) - 1
      /\ \A k \in 1 .. Len(r) : r[k] = q[k + 1] /\ k + 1 \in 1 .. Len(q) /\ k + 1 # 1
      /\ \A k \in 1 .. Len(q) : k # 1 => k - 1 \in 1 .. Len(r) /\ q[k] = r[k - 1]
  BY <1>1, TailFacts
<1> DEFINE g == nx[h]
<1>3. g = (IF Len(q) = 1 THEN "NULL" ELSE q[2]) /\ pv[h] = "NULL" /\ g \in Tasks \cup {"NULL"}
  <2>0. /\ \A k \in 1 .. Len(q) : nx[q[k]] = (IF k = Len(q) THEN "NULL" ELSE q[k + 1])
        /\ \A k \in 1 .. Len(q) : pv[q[k]] = (IF k = 1 THEN "NULL" ELSE q[k - 1])
    BY Zenon DEF Spells
  <2>1. nx[q[1]] = (IF 1 = Len(q) THEN "NULL" ELSE q[1 + 1])
    BY <1>2, <2>0, Zenon
  <2>2. pv[q[1]] = "NULL"
    BY <1>2, <2>0, Zenon
  <2>3. g \in Tasks \cup {"NULL"}
    BY <1>2 DEF Links
  <2>. QED BY <1>1, <2>1, <2>2, <2>3
<1>4. g # h
  <2>1. CASE Len(q) = 1
    BY <2>1, <1>3
  <2>2. CASE Len(q) # 1
    <3>1. 2 \in 1 .. Len(q) /\ g = q[2]
      BY <2>2, <1>2, <1>3
    <3>. QED BY <3>1, <1>1, <1>2 DEF Distinct
  <2>. QED BY <2>1, <2>2
<1>5. /\ nr \in Links /\ pr \in Links
      /\ \A j \in Tasks : nr[j] = IF j = h THEN "NULL" ELSE nx[j]
      /\ \A j \in Tasks : pr[j] = IF j = h \/ j = g THEN "NULL" ELSE pv[j]
  <2>1. nr = [nx EXCEPT ![h] = "NULL"]
    BY <1>3 DEF Simple!Set, Simple!NULL
  <2>2. pr = [(IF g = "NULL" THEN pv ELSE [pv EXCEPT ![g] = "NULL"]) EXCEPT ![h] = "NULL"]
    BY <1>3 DEF Simple!Set, Simple!NULL
  <2> HIDE DEF g
  <2>3. CASE g = "NULL"
    BY <2>1, <2>2, <2>3, <1>2, PoolsAssumption DEF Links
  <2>4. CASE g # "NULL"
    BY <2>1, <2>2, <2>4, <1>2, <1>3, <1>4 DEF Links
  <2>. QED BY <2>3, <2>4
<1> HIDE DEF g
<1>6. Distinct(r)
  BY <1>1, TailSets DEF Distinct
<1>7. \A k \in 1 .. Len(r) : r[k] \in Tasks /\ r[k] # h
  BY <1>1, <1>2 DEF Distinct
<1>8. ASSUME NEW k \in 1 .. Len(r) PROVE nr[r[k]] = IF k = Len(r) THEN "NULL" ELSE r[k + 1]
  <2>1. k + 1 \in 1 .. Len(q) /\ r[k] = q[k + 1] /\ (k + 1 = Len(q) <=> k = Len(r))
    BY <1>2
  <2>2. nr[r[k]] = nx[q[k + 1]]
    BY <2>1, <1>5, <1>7
  <2>3. nx[q[k + 1]] = IF k + 1 = Len(q) THEN "NULL" ELSE q[(k + 1) + 1]
    <3>1. \A j \in 1 .. Len(q) : nx[q[j]] = (IF j = Len(q) THEN "NULL" ELSE q[j + 1])
      BY Zenon DEF Spells
    <3>. QED BY <3>1, <2>1
  <2>4. CASE k = Len(r)
    BY <2>1, <2>2, <2>3, <2>4
  <2>5. CASE k # Len(r)
    <3>1. k + 1 \in 1 .. Len(r)
      BY <2>5, <1>2
    <3>2. r[k + 1] = q[(k + 1) + 1]
      BY <3>1, <1>2
    <3>. QED BY <2>1, <2>2, <2>3, <2>5, <3>2
  <2>. QED BY <2>4, <2>5
<1>9. ASSUME NEW k \in 1 .. Len(r) PROVE pr[r[k]] = IF k = 1 THEN "NULL" ELSE r[k - 1]
  <2>1. k + 1 \in 1 .. Len(q) /\ r[k] = q[k + 1]
    BY <1>2
  <2>2. CASE k = 1
    <3>1. r[k] = g
      BY <2>1, <2>2, <1>2, <1>3
    <3>. QED BY <2>2, <3>1, <1>5, <1>7
  <2>3. CASE k # 1
    <3>1. k - 1 \in 1 .. Len(r) /\ (k - 1) + 1 = k /\ k + 1 # 2 /\ (k + 1) - 1 = k
      BY <2>3, <1>2
    <3>2. r[k] # g
      <4>1. CASE Len(q) = 1
        BY <4>1, <1>2, <3>1
      <4>2. CASE Len(q) # 1
        <5>1. 2 \in 1 .. Len(q) /\ g = q[2]
          BY <4>2, <1>2, <1>3
        <5>. QED BY <5>1, <2>1, <3>1 DEF Distinct
      <4>. QED BY <4>1, <4>2
    <3>3. pr[r[k]] = pv[q[k + 1]]
      BY <2>1, <3>2, <1>5, <1>7
    <3>4. pv[q[k + 1]] = q[k]
      BY <2>1, <3>1 DEF Spells
    <3>5. r[k - 1] = q[k]
      BY <3>1, <1>2
    <3>. QED BY <2>3, <3>3, <3>4, <3>5
  <2>. QED BY <2>2, <2>3
<1>10. ASSUME NEW j \in Tasks, \A k \in 1 .. Len(r) : r[k] # j PROVE nr[j] = "NULL" /\ pr[j] = "NULL"
  <2>1. CASE j = h
    BY <2>1, <1>5
  <2>2. CASE j # h
    <3>1. ASSUME NEW k \in 1 .. Len(q) PROVE q[k] # j
      BY <2>2, <1>1, <1>2, <1>10
    <3>2. nx[j] = "NULL" /\ pv[j] = "NULL"
      BY <3>1, Zenon DEF Spells
    <3>. QED BY <2>2, <3>2, <1>5
  <2>. QED BY <2>1, <2>2
<1>11. g = IF r = <<>> THEN "NULL" ELSE r[1]
  <2>1. r = <<>> <=> Len(r) = 0
    BY <1>2, EmptyLen, Zenon
  <2>2. CASE Len(q) = 1
    BY <2>1, <2>2, <1>2, <1>3
  <2>3. CASE Len(q) # 1
    <3>1. 1 \in 1 .. Len(r) /\ 1 + 1 = 2 /\ Len(r) # 0
      BY <2>3, <1>2
    <3>2. r[1] = q[2]
      BY <3>1, <1>2
    <3>. QED BY <2>1, <2>3, <3>1, <3>2, <1>3
  <2>. QED BY <2>2, <2>3
<1>12. Spells(r, g, nr, pr)
  BY <1>8, <1>9, <1>10, <1>11 DEF Spells
<1>. QED BY <1>1, <1>2, <1>3, <1>5, <1>6, <1>12 DEF g, Listed

Labels01 == {"lock", "check", "block", "asleep", "test", "run", "freed"}

\* The list of jobs.
List01 == Listed(queue, jobs, next, prev)

\* The workers: one that looks at the list holds the mutex.
Workers01 ==
  /\ mutex \in Workers \cup {"NULL"} /\ cond \subseteq Workers
  /\ pc \in [Workers -> Labels01] /\ task \in [Workers -> Tasks \cup {"NULL"}]
  /\ \A w \in cond : pc[w] = "asleep"
  /\ \A w \in Workers : pc[w] \in {"check", "block", "test"} => mutex = w
  /\ \A w \in Workers : pc[w] = "test" /\ ~terminate[w] => jobs # "NULL"

\* The walk of nThreadPoolDestory: it has told every worker it is past of.
Walk01 ==
  /\ terminate \in [Workers -> BOOLEAN] /\ owner \in {"no", "walk", "broadcast", "done", "crashed"}
  /\ at \in 1 .. Len(WorkerList) /\ told \in BOOLEAN
  /\ \A k \in 1 .. Len(WorkerList) : k < at => terminate[WorkerList[k]]
  /\ told => terminate[WorkerList[at]]
  /\ owner \in {"broadcast", "done"} => \A w \in Workers : terminate[w]

Quiet01 == owner = "done" => cond = {} /\ \A w \in Workers : pc[w] # "block"

Inv01 == List01 /\ Workers01 /\ Walk01 /\ Quiet01

listVars01 == <<queue, jobs, next, prev>>

walkVars01 == <<terminate, owner, at, told>>

\* A step that does not touch the list of tasks,
LEMMA StillList01 == List01 /\ UNCHANGED listVars01 => List01'
BY DEF List01, Listed, listVars01, Distinct, Spells

\* or the walk of the destroy, keeps what is known of it.
LEMMA StillWalk01 == Walk01 /\ UNCHANGED walkVars01 => Walk01'
BY DEF Walk01, walkVars01

\* A new pool of 01_simple_threadPool.
LEMMA Init01 == Simple!Init => Inv01
<1> SUFFICES ASSUME Simple!Init PROVE Inv01
  OBVIOUS
<1> USE DEF Simple!Init, Simple!NULL
<1>1. Simple!WorkerSet = Workers /\ Len(WorkerList) \in Nat \ {0}
  BY WorkerListFacts
<1>2. next \in Links /\ prev \in Links /\ \A j \in Tasks : next[j] = "NULL" /\ prev[j] = "NULL"
  BY DEF Links
<1>3. queue \in Seq(Tasks) /\ Len(queue) = 0 /\ queue = <<>>
  OBVIOUS
<1>4. List01
  <2>1. \A k \in 1 .. Len(queue) : FALSE
    BY <1>3
  <2>. QED BY <1>2, <1>3, <2>1 DEF List01, Listed, Distinct, Spells
<1>5. pc \in [Workers -> Labels01] /\ \A w \in Workers : pc[w] = "lock"
  BY <1>1 DEF Labels01
<1>6. task \in [Workers -> Tasks \cup {"NULL"}]
  BY <1>1
<1>7. Workers01
  BY <1>5, <1>6 DEF Workers01
<1>8. terminate \in [Workers -> BOOLEAN]
  BY <1>1
<1>9. at \in 1 .. Len(WorkerList) /\ \A k \in 1 .. Len(WorkerList) : ~(k < at)
  BY <1>1
<1>10. told \in BOOLEAN /\ ~told /\ owner = "no"
  OBVIOUS
<1>11. Walk01
  BY <1>8, <1>9, <1>10, Zenon DEF Walk01
<1>. QED BY <1>4, <1>7, <1>10, <1>11 DEF Inv01, Quiet01

\* The worker of 01_simple_threadPool.
LEMMA Worker01 ==
  ASSUME Inv01, NEW w \in Workers, Simple!nThreadCallback(w) \/ Simple!SpuriousWakeup(w)
  PROVE  Inv01'
<1> USE DEF Simple!NULL, Simple!Goto
<1>1. /\ pc \in [Workers -> Labels01] /\ cond \subseteq Workers /\ mutex \in Workers \cup {"NULL"} /\ w # "NULL"
      /\ \A v \in cond : pc[v] = "asleep"
      /\ \A v \in Workers : v # "NULL"
  BY PoolsAssumption DEF Inv01, Workers01
<1>2. Walk01'
  <2>1. UNCHANGED walkVars01
    BY DEF Simple!nThreadCallback, Simple!Lock, Simple!Check, Simple!Block, Simple!Exit, Simple!Take,
       Simple!Run, Simple!SpuriousWakeup, Simple!destroyVars, walkVars01
  <2>. QED BY <2>1, StillWalk01 DEF Inv01
<1>3. terminate' = terminate /\ owner' = owner
  BY DEF Simple!nThreadCallback, Simple!Lock, Simple!Check, Simple!Block, Simple!Exit, Simple!Take,
     Simple!Run, Simple!SpuriousWakeup, Simple!destroyVars
<1>4. CASE Simple!Take(w)
  <2>1. /\ pc[w] = "test" /\ ~terminate[w] /\ mutex = w /\ jobs # "NULL" /\ mutex' = "NULL" /\ cond' = cond
        /\ pc' = [pc EXCEPT ![w] = "run"] /\ task' = [task EXCEPT ![w] = jobs] /\ queue' = Tail(queue)
    BY <1>4 DEF Inv01, Workers01, Simple!Take
  <2>2. /\ next' = [Simple!Set(next, prev[jobs], next[jobs]) EXCEPT ![jobs] = "NULL"]
        /\ prev' = [Simple!Set(prev, next[jobs], prev[jobs]) EXCEPT ![jobs] = "NULL"]
        /\ jobs' = next[jobs]
    BY <1>4 DEF Simple!Take, Simple!LL_REMOVE
  <2>3. Listed(queue, jobs, next, prev)
    BY DEF Inv01, List01
  <2>4. /\ Listed(Tail(queue), next[jobs], [Simple!Set(next, prev[jobs], next[jobs]) EXCEPT ![jobs] = "NULL"],
                   [Simple!Set(prev, next[jobs], prev[jobs]) EXCEPT ![jobs] = "NULL"])
        /\ jobs \in Tasks
    BY <2>1, <2>3, RemoveSpells, Zenon
  <2>5. List01'
    <3>1. Listed(queue', jobs', next', prev')
      BY <2>1, <2>2, <2>4
    <3>2. Listed(queue', jobs', next', prev') <=> Listed(queue, jobs, next, prev)'
      BY DEF Listed, Spells, Distinct
    <3>. QED BY <3>1, <3>2 DEF List01
  <2>6. \A v \in Workers : pc'[v] = IF v = w THEN "run" ELSE pc[v]
    BY <1>1, <2>1
  <2>7. \A v \in Workers : pc'[v] \notin {"check", "block", "test"}
    BY <1>1, <2>1, <2>6 DEF Inv01, Workers01
  <2>8. task' \in [Workers -> Tasks \cup {"NULL"}] /\ pc' \in [Workers -> Labels01]
    BY <2>1, <2>4 DEF Inv01, Workers01, Labels01
  <2>9. Workers01'
    BY <1>1, <2>1, <2>6, <2>7, <2>8 DEF Workers01
  <2>10. Quiet01'
    BY <1>3, <2>1, <2>7 DEF Inv01, Quiet01
  <2>. QED BY <1>2, <2>5, <2>9, <2>10 DEF Inv01
<1>5. ASSUME UNCHANGED listVars01,
             NEW p \in Labels01, pc' = [pc EXCEPT ![w] = p], cond' = IF p = "asleep" THEN cond \cup {w} ELSE cond,
             w \notin cond, task' \in [Workers -> Tasks \cup {"NULL"}], mutex' \in Workers \cup {"NULL"},
             p \in {"check", "block", "test"} => mutex' = w,
             \A v \in Workers : v # w /\ mutex = v => mutex' = v,
             p = "test" /\ ~terminate[w] => jobs # "NULL",
             p = "block" => ~terminate[w],
             p = "asleep" => pc[w] = "block"
      PROVE  Inv01'
  <2>1. \A v \in Workers : pc'[v] = IF v = w THEN p ELSE pc[v]
    BY <1>1, <1>5
  <2>2. pc' \in [Workers -> Labels01]
    BY <1>1, <1>5
  <2>3. jobs' = jobs
    BY <1>5 DEF listVars01
  <2>4. Workers01'
    BY <1>1, <1>3, <1>5, <2>1, <2>2, <2>3 DEF Inv01, Workers01
  <2>5. Quiet01'
    BY <1>1, <1>3, <1>5, <2>1 DEF Inv01, Quiet01, Walk01
  <2>. QED BY <1>2, <1>5, <2>4, <2>5, StillList01 DEF Inv01
<1>6. CASE Simple!Lock(w)
  <2>1. \A v \in Workers : mutex # v
    BY <1>1, <1>6 DEF Simple!Lock
  <2>2. w \notin cond
    BY <1>1, <1>6 DEF Simple!Lock
  <2>. QED BY <1>1, <1>5, <1>6, <2>1, <2>2 DEF Simple!Lock, Labels01, listVars01, Simple!listVars, Inv01, Workers01
<1>7. CASE Simple!Check(w)
  <2>1. mutex = w /\ w \notin cond
    BY <1>1, <1>7 DEF Simple!Check, Inv01, Workers01
  <2>2. PICK p \in {"block", "test"} :
          pc' = [pc EXCEPT ![w] = p] /\ p = IF jobs = "NULL" /\ ~terminate[w] THEN "block" ELSE "test"
    BY <1>7 DEF Simple!Check
  <2>3. (p = "block" => ~terminate[w]) /\ (p = "test" /\ ~terminate[w] => jobs # "NULL")
    BY <2>2
  <2>. QED BY <1>1, <1>5, <1>7, <2>1, <2>2, <2>3
           DEF Simple!Check, Labels01, listVars01, Simple!listVars, Inv01, Workers01
<1>8. CASE Simple!Block(w)
  <2>1. mutex = w /\ w \notin cond
    BY <1>1, <1>8 DEF Simple!Block, Inv01, Workers01
  <2>. QED BY <1>1, <1>5, <1>8, <2>1 DEF Simple!Block, Labels01, listVars01, Simple!listVars, Inv01, Workers01
<1>9. CASE Simple!Exit(w)
  <2>1. mutex = w /\ w \notin cond
    BY <1>1, <1>9 DEF Simple!Exit, Inv01, Workers01
  <2>. QED BY <1>1, <1>5, <1>9, <2>1 DEF Simple!Exit, Labels01, listVars01, Simple!listVars, Inv01, Workers01
<1>10. CASE Simple!Run(w)
  <2>1. w \notin cond /\ task' \in [Workers -> Tasks \cup {"NULL"}]
    BY <1>1, <1>10 DEF Simple!Run, Inv01, Workers01
  <2>. QED BY <1>1, <1>5, <1>10, <2>1 DEF Simple!Run, Labels01, listVars01, Simple!listVars
<1>11. CASE Simple!SpuriousWakeup(w)
  <2>1. UNCHANGED listVars01
    BY <1>11 DEF Simple!SpuriousWakeup, Simple!listVars, listVars01
  <2>2. Workers01' /\ Quiet01'
    BY <1>3, <1>11, <2>1 DEF Simple!SpuriousWakeup, Inv01, Workers01, Quiet01, listVars01
  <2>. QED BY <1>2, <2>1, <2>2, StillList01 DEF Inv01
<1>. QED BY <1>4, <1>6, <1>7, <1>8, <1>9, <1>10, <1>11 DEF Simple!nThreadCallback

\* nThreadPoolPushTask inserts a task at the front and signals under the mutex.
LEMMA Push01 == ASSUME Inv01, NEW j \in Tasks, Simple!nThreadPoolPushTask(j) PROVE Inv01'
<1> USE DEF Simple!NULL
<1>1. Listed(queue, jobs, next, prev)
  BY DEF Inv01, List01
<1>2. /\ queue' = <<j>> \o queue /\ jobs' = j /\ next' = [next EXCEPT ![j] = jobs]
      /\ prev' = Simple!Set([prev EXCEPT ![j] = "NULL"], jobs, j)
      /\ mutex = "NULL" /\ mutex' = mutex /\ pc' = pc /\ task' = task /\ owner = "no"
      /\ \A k \in DOMAIN queue : queue[k] # j
      /\ UNCHANGED walkVars01
  BY DEF Simple!nThreadPoolPushTask, Simple!LL_INSERT, Simple!destroyVars, walkVars01
<1>3. \A k \in 1 .. Len(queue) : queue[k] # j
  BY <1>1, <1>2 DEF Listed
<1>4. Listed(<<j>> \o queue, j, [next EXCEPT ![j] = jobs], Simple!Set([prev EXCEPT ![j] = "NULL"], jobs, j))
  BY <1>1, <1>3, InsertSpells, Zenon
<1>5. List01'
  <2>1. Listed(queue', jobs', next', prev')
    BY <1>2, <1>4
  <2>2. Listed(queue', jobs', next', prev') <=> Listed(queue, jobs, next, prev)'
    BY DEF Listed, Spells, Distinct
  <2>. QED BY <2>1, <2>2 DEF List01
<1>6. cond' \subseteq cond
  BY DEF Simple!nThreadPoolPushTask, Simple!AfterNotifyOne
<1>7. j # "NULL" /\ terminate' = terminate /\ owner' = "no"
  BY <1>2, PoolsAssumption DEF walkVars01
<1>8. Workers01'
  BY <1>2, <1>6, <1>7 DEF Inv01, Workers01
<1>9. Walk01' /\ Quiet01'
  BY <1>2, <1>7, StillWalk01 DEF Inv01, Quiet01
<1>. QED BY <1>5, <1>8, <1>9 DEF Inv01

\* nThreadPoolDestory walks the list of workers and broadcasts.
LEMMA Destory01 == ASSUME Inv01, Simple!BeginDestory \/ Simple!nThreadPoolDestory PROVE Inv01'
<1> USE DEF Simple!NULL
<1>0. /\ Len(WorkerList) \in Nat \ {0} /\ WorkerList \in [1 .. Len(WorkerList) -> Workers]
      /\ \A w \in Workers : \E k \in 1 .. Len(WorkerList) : WorkerList[k] = w
      /\ Simple!WorkerSet = Workers
  BY WorkerListFacts
<1>1. UNCHANGED listVars01
  BY DEF Simple!BeginDestory, Simple!nThreadPoolDestory, Simple!Tell, Simple!Advance, Simple!Broadcast,
     Simple!listVars, listVars01
<1>2. List01' /\ jobs' = jobs
  BY <1>1, StillList01 DEF Inv01, listVars01
<1>3. mutex' = mutex /\ pc' = pc /\ task' = task /\ cond' \in {cond, {}}
  BY DEF Simple!BeginDestory, Simple!nThreadPoolDestory, Simple!Tell, Simple!Advance, Simple!Broadcast,
     Simple!AfterNotifyAll
<1>4. CASE Simple!BeginDestory
  BY <1>2, <1>4 DEF Simple!BeginDestory, Inv01, Workers01, Walk01, Quiet01
<1>5. CASE Simple!Tell
  <2>1. WorkerList[at] \in Workers
    BY <1>0 DEF Inv01, Walk01
  <2>2. /\ terminate' \in [Workers -> BOOLEAN] /\ terminate'[WorkerList[at]]
        /\ \A w \in Workers : terminate[w] => terminate'[w]
    BY <1>5, <2>1 DEF Simple!Tell, Inv01, Walk01
  <2>3. owner' = "walk" /\ at' = at /\ told' = TRUE /\ cond' = cond
    BY <1>5 DEF Simple!Tell
  <2>4. \A k \in 1 .. Len(WorkerList) : k < at => terminate'[WorkerList[k]]
    BY <1>0, <2>2 DEF Inv01, Walk01
  <2>5. Walk01'
    BY <2>2, <2>3, <2>4 DEF Inv01, Walk01
  <2>6. Workers01'
    BY <1>2, <1>3, <2>2, <2>3 DEF Inv01, Workers01, Walk01
  <2>. QED BY <1>2, <2>3, <2>5, <2>6 DEF Inv01, Quiet01
<1>6. CASE Simple!Advance
  <2>1. /\ terminate' = terminate /\ told /\ told' = FALSE /\ cond' = cond /\ owner = "walk"
        /\ \/ at < Len(WorkerList) /\ at' = at + 1 /\ owner' = owner
           \/ at = Len(WorkerList) /\ owner' = "broadcast" /\ at' = at
           \/ owner' = "crashed" /\ at' = at
    BY <1>6 DEF Simple!Advance
  <2>2. /\ at \in 1 .. Len(WorkerList) /\ terminate[WorkerList[at]]
        /\ \A k \in 1 .. Len(WorkerList) : k < at => terminate[WorkerList[k]]
    BY <2>1 DEF Inv01, Walk01
  <2>3. at' \in 1 .. Len(WorkerList) /\ (at' = at \/ at' = at + 1)
    <3>1. \A n \in Nat : \A k \in 1 .. n : k < n => k + 1 \in 1 .. n
      OBVIOUS
    <3>2. Len(WorkerList) \in Nat
      BY <1>0
    <3>. QED BY <2>1, <2>2, <3>1, <3>2, Zenon
  <2>4. ASSUME NEW k \in 1 .. Len(WorkerList), k < at' PROVE terminate[WorkerList[k]]
    <3>1. \A n \in Nat : \A a, b \in 1 .. n : a < b + 1 => a < b \/ a = b
      OBVIOUS
    <3>2. Len(WorkerList) \in Nat /\ (k < at \/ k < at + 1)
      BY <1>0, <2>3, <2>4
    <3>3. k < at \/ k = at
      BY <2>2, <3>1, <3>2, Zenon
    <3>. QED BY <3>3, <2>2
  <2>5. ASSUME owner' = "broadcast", NEW w \in Workers PROVE terminate[w]
    <3>1. PICK k \in 1 .. Len(WorkerList) : WorkerList[k] = w
      BY <1>0
    <3>2. k < at \/ k = at
      BY <1>0, <2>1, <2>2, <2>5
    <3>. QED BY <3>1, <3>2, <2>2
  <2>6. owner' \in {"walk", "broadcast", "crashed"}
    BY <2>1
  <2>7. Walk01'
    BY <2>1, <2>3, <2>4, <2>5, <2>6 DEF Inv01, Walk01
  <2>8. Workers01'
    BY <1>2, <1>3, <2>1 DEF Inv01, Workers01
  <2>. QED BY <1>2, <2>6, <2>7, <2>8 DEF Inv01, Quiet01
<1>7. CASE Simple!Broadcast
  <2>1. /\ mutex = "NULL" /\ cond' = {} /\ owner' = "done" /\ owner = "broadcast"
        /\ terminate' = terminate /\ at' = at /\ told' = told
    BY <1>7 DEF Simple!Broadcast, Simple!AfterNotifyAll
  <2>2. \A w \in Workers : pc[w] # "block"
    BY <2>1, PoolsAssumption DEF Inv01, Workers01
  <2>3. Walk01'
    BY <2>1 DEF Inv01, Walk01
  <2>4. Workers01'
    BY <1>2, <1>3, <2>1 DEF Inv01, Workers01
  <2>. QED BY <1>2, <1>3, <2>1, <2>2, <2>3, <2>4 DEF Inv01, Quiet01
<1>. QED BY <1>4, <1>5, <1>6, <1>7 DEF Simple!nThreadPoolDestory

\* Inv01 is inductive for 01_simple_threadPool.
LEMMA Pool01 ==
  /\ Inv01 /\ [Simple!Next]_(Simple!vars) => Inv01'
  /\ Inv01 => Simple!TypeOK /\ Simple!ListIsStack /\ Simple!NobodySleepsThroughDestory
<1>0. Simple!WorkerSet = Workers /\ DOMAIN WorkerList = 1 .. Len(WorkerList)
  BY WorkerListFacts
<1>1. ASSUME Inv01, UNCHANGED Simple!vars PROVE Inv01'
  <2>1. UNCHANGED listVars01 /\ UNCHANGED walkVars01 /\ mutex' = mutex /\ cond' = cond /\ pc' = pc /\ task' = task
    BY <1>1 DEF Simple!vars, listVars01, walkVars01
  <2>2. List01' /\ Walk01'
    BY <1>1, <2>1, StillList01, StillWalk01 DEF Inv01
  <2>. QED BY <1>1, <2>1, <2>2 DEF Inv01, Workers01, Quiet01, listVars01, walkVars01
<1>2. Inv01 /\ [Simple!Next]_(Simple!vars) => Inv01'
  BY <1>0, <1>1, Worker01, Push01, Destory01 DEF Simple!Next, Simple!WorkerStep, Simple!Ended
<1>3. ASSUME Inv01 PROVE Simple!TypeOK /\ Simple!ListIsStack /\ Simple!NobodySleepsThroughDestory
  <2>1. jobs \in Tasks \cup {"NULL"} /\ DOMAIN queue = 1 .. Len(queue)
    BY <1>3 DEF Inv01, List01, Listed, Spells
  <2>2. Simple!TypeOK
    BY <1>0, <1>3, <2>1 DEF Inv01, List01, Listed, Links, Workers01, Labels01, Walk01, Simple!TypeOK, Simple!NULL
  <2>3. Simple!ListIsStack
    BY <1>3, <2>1, Zenon DEF Inv01, List01, Listed, Spells, Simple!ListIsStack, Simple!NULL
  <2>4. Simple!NobodySleepsThroughDestory
    BY <1>0, <1>3 DEF Inv01, Quiet01, Walk01, Simple!NobodySleepsThroughDestory
  <2>. QED BY <2>2, <2>3, <2>4
<1>. QED BY <1>2, <1>3

-----------------------------------------------------------------------------
\* All pools.

PoolInv ==
  \/ pool = "01_simple" /\ Inv01
  \/ pool = "02" /\ Inv02
  \/ pool = "03" /\ Inv03
  \/ pool = "Cpp14" /\ Inv14
  \/ pool = "Cpp98" /\ Inv98
  \/ pool = "Cpp03" /\ Inv03Main
  \/ pool = "Cpp11" /\ Inv11

\* Every pool starts with its invariant,
LEMMA InitPoolInv == Init => PoolInv
BY Init01, Pool02, Init03, Init14, Pool98, Pool03Main, Pool11 DEF Init, InitOther, PoolInv

\* Each step of the composition is a step of the pool that is used.
LEMMA StepOfThePool ==
  ASSUME [Next]_vars
  PROVE  /\ pool' = pool
         /\ pool = "01_simple" => [Simple!Next]_(Simple!vars)
         /\ pool = "02" => [T02!Next]_(T02!vars)
         /\ pool = "03" => [T03!Next]_(T03!vars)
         /\ pool = "Cpp14" => [Cpp14!Next]_(Cpp14!vars)
         /\ pool = "Cpp98" => [Cpp9803!Next]_(Cpp9803!vars)
         /\ pool = "Cpp03" => [Cpp9803!Next03]_(Cpp9803!vars03)
         /\ pool = "Cpp11" => [Cpp11!Next]_(Cpp11!vars)
<1>1. CASE Next
  BY <1>1 DEF Next, Of01, Of02, Of03, Of14, Of98, OfCpp03, Of11
<1>2. CASE UNCHANGED vars
  <2>1. UNCHANGED pool /\ UNCHANGED Simple!vars /\ UNCHANGED T03!vars /\ UNCHANGED Cpp14!vars
    BY <1>2 DEF vars, simpleVars, Simple!vars, T03!vars, Cpp14!vars
  <2>2. UNCHANGED Cpp9803!vars /\ UNCHANGED Cpp9803!vars03 /\ UNCHANGED Cpp11!vars
    BY <1>2 DEF vars, Cpp9803!vars, Cpp9803!vars03, Cpp9803!poolVars, Cpp11!vars, Cpp11!poolVars, Cpp11!addVars
  <2>3. UNCHANGED T02!vars
    BY <1>2 DEF vars, simpleVars, adjustVars, T02!vars, T02!queueVars, T02!condVars, T02!countVars, T02!workerVars,
       T02!clientVars, T02!managerVars
  <2>. QED BY <2>1, <2>2, <2>3
<1>. QED BY <1>1, <1>2

\* every step keeps it,
LEMMA NextPoolInv == PoolInv /\ [Next]_vars => PoolInv'
<1> SUFFICES ASSUME PoolInv, [Next]_vars PROVE PoolInv'
  OBVIOUS
<1>1. CASE pool = "01_simple" /\ Inv01
  BY <1>1, StepOfThePool, Pool01, Zenon DEF PoolInv
<1>2. CASE pool = "02" /\ Inv02
  BY <1>2, StepOfThePool, Pool02, Zenon DEF PoolInv
<1>3. CASE pool = "03" /\ Inv03
  BY <1>3, StepOfThePool, Pool03, Zenon DEF PoolInv
<1>4. CASE pool = "Cpp14" /\ Inv14
  BY <1>4, StepOfThePool, Pool14, Zenon DEF PoolInv
<1>5. CASE pool = "Cpp98" /\ Inv98
  BY <1>5, StepOfThePool, Pool98, Zenon DEF PoolInv
<1>6. CASE pool = "Cpp03" /\ Inv03Main
  BY <1>6, StepOfThePool, Pool03Main, Zenon DEF PoolInv
<1>7. CASE pool = "Cpp11" /\ Inv11
  BY <1>7, StepOfThePool, Pool11, Zenon DEF PoolInv
<1>. QED BY <1>1, <1>2, <1>3, <1>4, <1>5, <1>6, <1>7 DEF PoolInv

\* it says what the two properties say,
LEMMA PoolInvImplies == PoolInv => SleepersNotNeeded /\ TasksAccountedFor
<1>1. CASE pool = "01_simple" /\ Inv01
  BY <1>1, Pool01 DEF SleepersNotNeeded, TasksAccountedFor
<1>2. CASE pool = "02" /\ Inv02
  BY <1>2, Pool02 DEF SleepersNotNeeded, TasksAccountedFor
<1>3. CASE pool = "03" /\ Inv03
  BY <1>3, Pool03 DEF SleepersNotNeeded, TasksAccountedFor
<1>4. CASE pool = "Cpp14" /\ Inv14
  BY <1>4, Pool14 DEF SleepersNotNeeded, TasksAccountedFor
<1>5. CASE pool = "Cpp98" /\ Inv98
  BY <1>5, Pool98 DEF SleepersNotNeeded, TasksAccountedFor
<1>6. CASE pool = "Cpp03" /\ Inv03Main
  BY <1>6, Pool03Main DEF SleepersNotNeeded, TasksAccountedFor
<1>7. CASE pool = "Cpp11" /\ Inv11
  BY <1>7, Pool11 DEF SleepersNotNeeded, TasksAccountedFor
<1>. QED BY <1>1, <1>2, <1>3, <1>4, <1>5, <1>6, <1>7 DEF PoolInv

\* and so it holds throughout.
LEMMA PoolInvariant == Spec => []PoolInv
<1>1. Init => PoolInv
  BY InitPoolInv
<1>2. PoolInv /\ [Next]_vars => PoolInv'
  BY NextPoolInv
<1>. QED BY <1>1, <1>2, PTL DEF Spec

\* No pool of zl_threadpool/ loses a wakeup while it runs: although all but
\* 01_simple_threadPool notify after the unlock, a queued task always has a
\* worker on its way to the queue or a notification still to come; and no
\* worker of 01 is asleep once nThreadPoolDestory has broadcast.
THEOREM NobodyNeededSleeps == Spec => []SleepersNotNeeded
<1>1. PoolInv => SleepersNotNeeded
  BY PoolInvImplies
<1>. QED BY <1>1, PoolInvariant, PTL

\* No pool loses a task or runs a moved-from one, and the links of
\* 01_simple_threadPool always spell out its jobs: what is left over when a
\* pool is gone is nothing in 03, Cpp14 and Cpp03, is deleted in Cpp98, and
\* in Cpp11 only tasks that nobody had started.
THEOREM TasksAreAccountedFor == Spec => []TasksAccountedFor
<1>1. PoolInv => TasksAccountedFor
  BY PoolInvImplies
<1>. QED BY <1>1, PoolInvariant, PTL

-----------------------------------------------------------------------------
\* The pools with a queue implement TaskPool.

\* Nothing happens, a task is started, or a task is finished.
TaskMoves ==
  \/ UNCHANGED <<queue, Running, done>>
  \/ queue # <<>> /\ queue' = Tail(queue) /\ Running' = Running \cup {Head(queue)} /\ done' = done
  \/ \E t \in Running \cap Tasks : queue' = queue /\ Running' = Running \ {t} /\ done' = done \cup {t}

\* A step of the abstract pool, on the queue; o and n say whether the pool is
\* open before and after the step.
TaskStep(o, n) ==
  \/ TaskMoves /\ (n <=> o)
  \/ o /\ n /\ \E t \in Tasks \ Known : queue' = Append(queue, t) /\ UNCHANGED <<Running, done>>
  \/ o /\ ~n /\ UNCHANGED <<queue, Running, done>>
  \/ ~o /\ ~n /\ queue' = <<>> /\ UNCHANGED <<Running, done>>

\* It is one.
LEMMA TaskStepImplements ==
  ASSUME pool \in {"03", "Cpp14", "Cpp98", "Cpp03", "Cpp11"}, pool' = pool,
         Open \in BOOLEAN, Open' \in BOOLEAN, TaskStep(Open, Open')
  PROVE  [Abstract!Next]_(Abstract!poolVars)
<1>1. Abstract!Known = Known
  BY DEF Abstract!Known, Known, InQueue
<1>2. CASE UNCHANGED <<queue, Running, done>> /\ (Open' <=> Open)
  BY <1>2 DEF Abstract!poolVars
<1>3. CASE queue # <<>> /\ queue' = Tail(queue) /\ Running' = Running \cup {Head(queue)} /\ done' = done /\ (Open' <=> Open)
  BY <1>3 DEF Abstract!Next, Abstract!Start
<1>4. ASSUME NEW t \in Running \cap Tasks,
             queue' = queue, Running' = Running \ {t}, done' = done \cup {t}, Open' <=> Open
      PROVE  Abstract!Next
  <2>1. Abstract!Finish(t)
    BY <1>4 DEF Abstract!Finish
  <2>. QED BY <2>1 DEF Abstract!Next
<1>5. ASSUME Open, Open', NEW t \in Tasks \ Known, queue' = Append(queue, t), UNCHANGED <<Running, done>>
      PROVE  Abstract!Next
  <2>1. Abstract!Accept(t)
    BY <1>1, <1>5 DEF Abstract!Accept
  <2>. QED BY <2>1 DEF Abstract!Next
<1>6. CASE Open /\ ~Open' /\ UNCHANGED <<queue, Running, done>>
  BY <1>6 DEF Abstract!Next, Abstract!Close
<1>7. CASE ~Open /\ ~Open' /\ queue' = <<>> /\ UNCHANGED <<Running, done>>
  BY <1>7 DEF Abstract!Next, Abstract!Discard
<1>. QED BY <1>2, <1>3, <1>4, <1>5, <1>6, <1>7 DEF TaskStep, TaskMoves

\* A step of a worker takes a task, has run one, or does neither.
LEMMA WorkerMoves ==
  ASSUME NEW X, pc \in [Workers -> X], "run" \in X, Once, NEW w \in Workers, NEW p \in X,
         pc' = [pc EXCEPT ![w] = p],
         \/ /\ p = "run" /\ pc[w] # "run" /\ queue # <<>> /\ queue' = Tail(queue)
            /\ task' = [task EXCEPT ![w] = Head(queue)] /\ done' = done
         \/ /\ p # "run" /\ pc[w] = "run" /\ queue' = queue
            /\ task' = [task EXCEPT ![w] = "none"] /\ done' = done \cup {task[w]}
         \/ p # "run" /\ pc[w] # "run" /\ UNCHANGED <<queue, task, done>>
  PROVE  TaskMoves
<1>1. CASE /\ p = "run" /\ pc[w] # "run" /\ queue # <<>> /\ queue' = Tail(queue)
           /\ task' = [task EXCEPT ![w] = Head(queue)] /\ done' = done
  <2>1. Running' = Running \cup {Head(queue)}
    BY <1>1, TaskTaken, Zenon
  <2>. QED BY <1>1, <2>1 DEF TaskMoves
<1>2. CASE /\ p # "run" /\ pc[w] = "run" /\ queue' = queue
           /\ task' = [task EXCEPT ![w] = "none"] /\ done' = done \cup {task[w]}
  <2>1. task[w] \in Running /\ Running' = Running \ {task[w]}
    BY <1>2, TaskDone, Zenon
  <2>2. task[w] \in Tasks
    BY <1>2 DEF Once
  <2>. QED BY <1>2, <2>1, <2>2 DEF TaskMoves
<1>3. CASE p # "run" /\ pc[w] # "run" /\ UNCHANGED <<queue, task, done>>
  <2>1. Running' = Running
    BY <1>3, TaskStays, Zenon
  <2>. QED BY <1>3, <2>1 DEF TaskMoves
<1>. QED BY <1>1, <1>2, <1>3

\* 03_ThreadPool
LEMMA TaskStep03 == ASSUME Inv03, [T03!Next]_(T03!vars) PROVE TaskStep(~stopped, ~stopped')
<1> DEFINE X == {"loop", "run", "returned"}
<1>0. Once /\ pc \in [Workers -> X] /\ accepted = Known
  BY DEF Inv03, T03!TypeOK
<1>1. ASSUME NEW w \in Workers, T03!Take(w) \/ T03!Run(w) \/ T03!Return(w) PROVE TaskStep(~stopped, ~stopped')
  <2>1. stopped' = stopped /\ TaskMoves
    BY <1>0, <1>1, WorkerMoves DEF T03!Take, T03!Run, T03!Return, T03!NoTask
  <2>. QED BY <2>1 DEF TaskStep
<1>2. ASSUME NEW c \in Clients, NEW t \in Tasks, T03!EnqueueAccept(c, t) PROVE TaskStep(~stopped, ~stopped')
  BY <1>0, <1>2 DEF T03!EnqueueAccept, Running, TaskStep
<1>3. ASSUME UNCHANGED <<queue, task, pc, done>>, stopped' = stopped \/ (~stopped /\ stopped')
      PROVE  TaskStep(~stopped, ~stopped')
  BY <1>3 DEF Running, TaskStep, TaskMoves
<1>4. ASSUME \E w \in Workers : T03!Wait(w) \/ T03!SpuriousWakeup(w) PROVE TaskStep(~stopped, ~stopped')
  BY <1>3, <1>4 DEF T03!Wait, T03!SpuriousWakeup
<1>5. ASSUME \E c \in Clients : T03!EnqueueNotify(c) \/ \E t \in Tasks : T03!EnqueueThrow(c, t)
      PROVE  TaskStep(~stopped, ~stopped')
  BY <1>3, <1>5 DEF T03!EnqueueNotify, T03!EnqueueThrow
<1>6. ASSUME T03!Destructor \/ UNCHANGED T03!vars PROVE TaskStep(~stopped, ~stopped')
  BY <1>3, <1>6 DEF T03!Destructor, T03!DestructorStop, T03!DestructorNotify, T03!DestructorJoin, T03!vars, Inv03
<1>. QED BY <1>1, <1>2, <1>4, <1>5, <1>6 DEF T03!Next, T03!Worker, T03!Terminated

\* ThreadPoolCpp14
LEMMA TaskStep14 == ASSUME Inv14, [Cpp14!Next]_(Cpp14!vars) PROVE TaskStep(~stopped, ~stopped')
<1> DEFINE X == {"loop", "run", "left"}
<1>0. Once /\ pc \in [Workers -> X]
  BY DEF Inv14, Cpp14!TypeOK
<1>1. ASSUME NEW w \in Workers, Cpp14!Take(w) \/ Cpp14!Run(w) \/ Cpp14!Break(w) PROVE TaskStep(~stopped, ~stopped')
  <2>1. stopped' = stopped /\ TaskMoves
    BY <1>0, <1>1, WorkerMoves DEF Cpp14!Take, Cpp14!Run, Cpp14!Break, Cpp14!NoTask
  <2>. QED BY <2>1 DEF TaskStep
<1>2. ASSUME NEW t \in Tasks, Cpp14!Execute(t) PROVE TaskStep(~stopped, ~stopped')
  <2>1. t \notin Known /\ ~stopped
    BY <1>2 DEF Cpp14!Execute, Known, InQueue, Running, Inv14
  <2>. QED BY <1>2, <2>1 DEF Cpp14!Execute, Running, TaskStep
<1>3. ASSUME UNCHANGED <<queue, task, pc, done>>, stopped' = stopped \/ (~stopped /\ stopped')
      PROVE  TaskStep(~stopped, ~stopped')
  BY <1>3 DEF Running, TaskStep, TaskMoves
<1>4. ASSUME \E w \in Workers : Cpp14!Wait(w) \/ Cpp14!SpuriousWakeup(w) PROVE TaskStep(~stopped, ~stopped')
  BY <1>3, <1>4 DEF Cpp14!Wait, Cpp14!SpuriousWakeup
<1>5. ASSUME Cpp14!ExecuteNotify \/ Cpp14!DestructorShutdown \/ Cpp14!DestructorNotify \/ UNCHANGED Cpp14!vars
      PROVE  TaskStep(~stopped, ~stopped')
  BY <1>3, <1>5 DEF Cpp14!ExecuteNotify, Cpp14!DestructorShutdown, Cpp14!DestructorNotify, Cpp14!vars, Inv14
<1>. QED BY <1>1, <1>2, <1>4, <1>5 DEF Cpp14!Next, Cpp14!Worker, Cpp14!Terminated

\* The worker of ThreadPoolCpp98, ThreadPoolCpp03 and ThreadPoolCpp11
LEMMA StopFlagMoves ==
  ASSUME InvStopFlag, NEW w \in Workers, Cpp9803!Worker(w) \/ Cpp9803!SpuriousWakeup(w)
  PROVE  TaskMoves /\ stopped' = stopped
<1>0. Once /\ pc \in [Workers -> Labels] /\ "run" \in Labels
  BY DEF InvStopFlag, Cpp9803!PoolTypeOK, Labels
<1>1. CASE Cpp9803!Dequeue(w)
  <2>1. queue # <<>>
    BY <1>1 DEF InvStopFlag, Cpp9803!Dequeue
  <2>. QED BY <2>1, <1>0, <1>1, WorkerMoves DEF Cpp9803!Dequeue, Cpp9803!Goto
<1>2. CASE Cpp9803!Run(w)
  <2>1. "top" \in Labels
    BY DEF Labels
  <2>. QED BY <2>1, <1>0, <1>2, WorkerMoves DEF Cpp9803!Run, Cpp9803!Goto, Cpp9803!NoTask
<1>3. CASE \/ Cpp9803!LoopTest(w) \/ Cpp9803!Lock(w) \/ Cpp9803!Check(w) \/ Cpp9803!Block(w) \/ Cpp9803!GiveUp(w)
  <2>1. /\ pc[w] # "run" /\ UNCHANGED <<queue, task, done, stopped>>
        /\ \E p \in Labels \ {"run"} : pc' = [pc EXCEPT ![w] = p]
    BY <1>3 DEF Cpp9803!LoopTest, Cpp9803!Lock, Cpp9803!Check, Cpp9803!Block, Cpp9803!GiveUp, Cpp9803!Goto, Labels
  <2>. QED BY <2>1, <1>0, WorkerMoves
<1>4. CASE Cpp9803!SpuriousWakeup(w)
  BY <1>4 DEF Cpp9803!SpuriousWakeup, Running, TaskMoves
<1>. QED BY <1>1, <1>2, <1>3, <1>4 DEF Cpp9803!Worker

\* ThreadPoolCpp98
LEMMA TaskStep98 == ASSUME Inv98, [Cpp9803!Next]_(Cpp9803!vars) PROVE TaskStep(~stopped, ~stopped')
<1>0. InvStopFlag /\ accepted = Known \cup deleted /\ (stopped <=> owner \in {"broadcast", "join", "end"})
  BY DEF Inv98, Inv9803
<1>1. ASSUME NEW w \in Workers, Cpp9803!WorkerStep(w) \/ Cpp9803!SpuriousWakeup(w) PROVE TaskStep(~stopped, ~stopped')
  <2>1. Cpp9803!Worker(w) \/ Cpp9803!SpuriousWakeup(w)
    BY <1>1 DEF Cpp9803!WorkerStep, Cpp9803!take, Cpp9803!threadFunc, Cpp9803!Worker
  <2>. QED BY <2>1, <1>0, StopFlagMoves DEF TaskStep
<1>2. ASSUME NEW t \in Tasks, Cpp9803!addTask(t) PROVE TaskStep(~stopped, ~stopped')
  BY <1>0, <1>2 DEF Cpp9803!addTask, Cpp9803!Push, Running, TaskStep
<1>3. ASSUME UNCHANGED <<queue, task, pc, done>>, stopped' = stopped \/ (~stopped /\ stopped')
      PROVE  TaskStep(~stopped, ~stopped')
  BY <1>3 DEF Running, TaskStep, TaskMoves
<1>4. ASSUME Cpp9803!addTaskSignal \/ Cpp9803!stop \/ UNCHANGED Cpp9803!vars PROVE TaskStep(~stopped, ~stopped')
  BY <1>3, <1>4 DEF Cpp9803!addTaskSignal, Cpp9803!Signal, Cpp9803!stop, Cpp9803!stopContinues, Cpp9803!StopFlag,
                    Cpp9803!StopBroadcast, Cpp9803!StopJoin, Cpp9803!vars, Cpp9803!poolVars
<1>5. ASSUME Cpp9803!Destructor PROVE TaskStep(~stopped, ~stopped')
  BY <1>0, <1>5 DEF Cpp9803!Destructor, Running, TaskStep
<1>. QED BY <1>1, <1>2, <1>4, <1>5 DEF Cpp9803!Next

\* ThreadPoolCpp03
LEMMA TaskStep03Main == ASSUME Inv03Main, [Cpp9803!Next03]_(Cpp9803!vars03) PROVE TaskStep(~stopped, ~stopped')
<1>0. InvStopFlag /\ accepted = Known /\ (stopped <=> owner \in {"broadcast", "join", "end"})
  BY DEF Inv03Main, Inv9803
<1>1. ASSUME NEW w \in Workers, Cpp9803!WorkerStep03(w) \/ Cpp9803!SpuriousWakeup(w) PROVE TaskStep(~stopped, ~stopped')
  BY <1>0, <1>1, StopFlagMoves DEF Cpp9803!WorkerStep03, TaskStep
<1>2. ASSUME NEW t \in Tasks, Cpp9803!addTask03(t) PROVE TaskStep(~stopped, ~stopped')
  BY <1>0, <1>2 DEF Cpp9803!addTask03, Cpp9803!Push, Running, TaskStep
<1>3. ASSUME UNCHANGED <<queue, task, pc, done>>, stopped' = stopped \/ (~stopped /\ stopped')
      PROVE  TaskStep(~stopped, ~stopped')
  BY <1>3 DEF Running, TaskStep, TaskMoves
<1>4. ASSUME Cpp9803!addTaskSignal03 \/ Cpp9803!MainStops \/ Cpp9803!stop03 \/ UNCHANGED Cpp9803!vars03
      PROVE  TaskStep(~stopped, ~stopped')
  BY <1>3, <1>4 DEF Cpp9803!addTaskSignal03, Cpp9803!Signal, Cpp9803!MainStops, Cpp9803!stop03, Cpp9803!StopFlag,
                    Cpp9803!StopBroadcast, Cpp9803!StopJoin, Cpp9803!vars03, Cpp9803!poolVars
<1>. QED BY <1>1, <1>2, <1>4 DEF Cpp9803!Next03, Cpp9803!Exit

\* ThreadPoolCpp11, with an add that has read stop_ as false.
Open11 == ~stopped \/ client \in {"emplace", "unlock"}

LEMMA TaskStep11 == ASSUME Inv11, [Cpp11!Next]_(Cpp11!vars) PROVE TaskStep(Open11, Open11')
<1>0. InvStopFlag /\ accepted = Known
  BY DEF Inv11
<1>1. ASSUME NEW w \in Workers, Cpp11!Worker(w) \/ Cpp11!SpuriousWakeup(w), UNCHANGED Cpp11!addVars
      PROVE  TaskStep(Open11, Open11')
  <2>1. TaskMoves /\ stopped' = stopped
    BY <1>0, <1>1, SameStopFlag, StopFlagMoves
  <2>2. Open11' <=> Open11
    BY <1>1, <2>1 DEF Open11, Cpp11!addVars
  <2>. QED BY <2>1, <2>2 DEF TaskStep
<1>2. ASSUME NEW t \in Tasks, Cpp11!addEmplace(t) PROVE TaskStep(Open11, Open11')
  BY <1>0, <1>2 DEF Cpp11!addEmplace, Running, TaskStep, Open11
<1>3. ASSUME UNCHANGED <<queue, task, pc, done>>, Open11' => Open11 PROVE TaskStep(Open11, Open11')
  <2>1. UNCHANGED <<queue, Running, done>>
    BY <1>3 DEF Running
  <2>. QED BY <1>3, <2>1 DEF TaskStep, TaskMoves
<1>4. ASSUME Cpp11!addTest \/ Cpp11!addUnlock \/ Cpp11!addNotify \/ \E t \in Tasks : Cpp11!addThrow(t)
      PROVE  TaskStep(Open11, Open11')
  <2>1. UNCHANGED <<queue, task, pc, done>> /\ (Open11' => Open11)
    BY <1>4 DEF Cpp11!addTest, Cpp11!addUnlock, Cpp11!addNotify, Cpp11!addThrow, Cpp11!poolVars, Open11
  <2>. QED BY <2>1, <1>3
<1>5. ASSUME Cpp11!Destructor \/ UNCHANGED Cpp11!vars PROVE TaskStep(Open11, Open11')
  <2>1. UNCHANGED <<queue, task, pc, done>> /\ (Open11' => Open11)
    BY <1>5 DEF Cpp11!Destructor, Cpp11!DestructorContinues, Cpp11!StopFlag, Cpp11!StopBroadcast, Cpp11!StopJoin,
                Cpp11!vars, Cpp11!poolVars, Cpp11!addVars, Open11
  <2>. QED BY <2>1, <1>3
<1>. QED BY <1>1, <1>2, <1>4, <1>5 DEF Cpp11!Next, Cpp11!WorkerLambda, Cpp11!add, Cpp11!addContinues

\* 02_thread_pool: the ring of AdaptivePoolProofs.
LEMMA TaskStep02 ==
  /\ T02!Init => P02!RingOnce /\ P02!Pool!Init
  /\ Inv02 /\ Inv02' /\ P02!RingOnce /\ [T02!Next]_(T02!vars) => P02!RingOnce' /\ [P02!Pool!Next]_(P02!Pool!poolVars)
<1>1. /\ 2 \in Nat \ {0} /\ 2 \in Nat /\ 2 <= 2
      /\ 1 \in Nat /\ {0} \subseteq Int
  OBVIOUS
<1>2. (Tasks \ {CHOOSE t \in Tasks : TRUE}) \cap {P02!NULL, P02!Wild} = {}
  BY PoolsAssumption DEF P02!NULL, P02!Wild
<1>3. {"NULL"} \subseteq {P02!NULL, P02!Wild} /\ FALSE \in BOOLEAN
  BY DEF P02!NULL, P02!Wild
<1>4. P02!Init => P02!RingOnce /\ P02!Pool!Init
  BY <1>1, <1>2, <1>3, P02!InitRing, Zenon
<1>5. P02!IInv /\ P02!IInv' /\ P02!RingOnce /\ [P02!Next]_(P02!vars) => P02!RingOnce' /\ [P02!Pool!Next]_(P02!Pool!poolVars)
  BY <1>1, <1>2, <1>3, P02!StepOfTaskPool, Zenon
<1>. QED BY <1>4, <1>5, Same02Inits, Same02Next DEF Inv02

\* Its ring is the queue of the abstract pool.
LEMMA RingImplements ==
  ASSUME pool = "02", pool' = pool, [P02!Pool!Next]_(P02!Pool!poolVars)
  PROVE  [Abstract!Next]_(Abstract!poolVars)
<1> DEFINE w == P02!Waiting  r == P02!Running
<1>1. T02!Waiting = w /\ T02!Waiting' = w' /\ T02!Running = r /\ T02!Running' = r'
  BY Same02Base DEF T02!Waiting, P02!Waiting, T02!Running, P02!Running
<1>2. Open = ~stopped /\ Open' = ~stopped'
  BY DEF Open
<1>3. P02!Pool!Known = Abstract!Known
  BY <1>1 DEF P02!Pool!Known, Abstract!Known
<1>4. CASE UNCHANGED P02!Pool!poolVars
  BY <1>1, <1>2, <1>4 DEF P02!Pool!poolVars, Abstract!poolVars
<1>5. CASE P02!Pool!Start
  BY <1>1, <1>2, <1>5 DEF P02!Pool!Start, Abstract!Start, Abstract!Next
<1>6. CASE P02!Pool!Close
  BY <1>1, <1>2, <1>6 DEF P02!Pool!Close, Abstract!Close, Abstract!Next
<1>7. CASE P02!Pool!Discard
  BY <1>1, <1>2, <1>7 DEF P02!Pool!Discard, Abstract!Discard, Abstract!Next
<1>8. ASSUME NEW t \in Tasks, P02!Pool!Accept(t) PROVE Abstract!Next
  <2>1. Abstract!Accept(t)
    BY <1>1, <1>2, <1>3, <1>8 DEF P02!Pool!Accept, Abstract!Accept
  <2>. QED BY <2>1 DEF Abstract!Next
<1>9. ASSUME NEW t \in Tasks, P02!Pool!Finish(t) PROVE Abstract!Next
  <2>1. Abstract!Finish(t)
    BY <1>1, <1>2, <1>9 DEF P02!Pool!Finish, Abstract!Finish
  <2>. QED BY <2>1 DEF Abstract!Next
<1>. QED BY <1>4, <1>5, <1>6, <1>7, <1>8, <1>9 DEF P02!Pool!Next

\* The queue of a new pool is empty, and it is open.
LEMMA InitAbstract == Init => Abstract!Init
<1>1. CASE pool = "02" /\ T02!Init
  <2>1. P02!Pool!Init
    BY <1>1, TaskStep02
  <2>2. T02!Waiting = P02!Waiting /\ T02!Running = P02!Running
    BY Same02Base DEF T02!Waiting, P02!Waiting, T02!Running, P02!Running
  <2>. QED BY <1>1, <2>1, <2>2 DEF P02!Pool!Init, Abstract!Init, Open
<1>2. CASE pool = "01_simple"
  BY <1>2 DEF Abstract!Init
<1>3. ASSUME pool \in {"03", "Cpp14", "Cpp98", "Cpp03", "Cpp11"}, queue = <<>>, done = {}, ~stopped,
             NEW l, l # "run", pc = [w \in Workers |-> l]
      PROVE  Abstract!Init
  <2>1. Running = {}
    BY <1>3 DEF Running
  <2>. QED BY <1>3, <2>1 DEF Abstract!Init, Open
<1>4. Init => \/ pool = "02" /\ T02!Init
              \/ pool = "01_simple"
              \/ /\ pool \in {"03", "Cpp14", "Cpp98", "Cpp03", "Cpp11"} /\ queue = <<>> /\ done = {} /\ ~stopped
                 /\ \E l \in {"loop", "top"} : pc = [w \in Workers |-> l]
  BY DEF Init, InitOther, T03!Init, Cpp14!Init, Cpp9803!Init, Cpp9803!Init03, Cpp11!Init, Cpp9803!PoolInit, Cpp11!PoolInit
<1>. QED BY <1>1, <1>2, <1>3, <1>4

\* Every step of every pool is a step of the abstract pool, or moves no task.
LEMMA NextAbstract ==
  PoolInv /\ PoolInv' /\ (pool = "02" => P02!RingOnce) /\ [Next]_vars
    => [Abstract!Next]_(Abstract!poolVars) /\ (pool = "02" => P02!RingOnce)'
<1> SUFFICES ASSUME PoolInv, PoolInv', pool = "02" => P02!RingOnce, [Next]_vars
             PROVE  [Abstract!Next]_(Abstract!poolVars) /\ (pool' = "02" => P02!RingOnce')
  OBVIOUS
<1>0. pool' = pool
  BY StepOfThePool, Zenon
<1>1. CASE pool = "01_simple"
  BY <1>0, <1>1 DEF Abstract!poolVars
<1>2. CASE pool = "02"
  <2>1. Inv02 /\ Inv02' /\ [T02!Next]_(T02!vars)
    BY <1>0, <1>2, StepOfThePool DEF PoolInv
  <2>2. P02!RingOnce' /\ [P02!Pool!Next]_(P02!Pool!poolVars)
    BY <1>2, <2>1, TaskStep02
  <2>. QED BY <1>0, <1>2, <2>2, RingImplements
<1>3. CASE pool = "03"
  <2>1. Inv03 /\ Inv03' /\ [T03!Next]_(T03!vars)
    BY <1>0, <1>3, StepOfThePool DEF PoolInv
  <2>2. TaskStep(~stopped, ~stopped')
    BY <2>1, TaskStep03
  <2>. QED BY <1>0, <1>3, <2>2, TaskStepImplements DEF Open
<1>4. CASE pool = "Cpp14"
  <2>1. Inv14 /\ [Cpp14!Next]_(Cpp14!vars)
    BY <1>0, <1>4, StepOfThePool DEF PoolInv
  <2>2. TaskStep(~stopped, ~stopped')
    BY <2>1, TaskStep14
  <2>. QED BY <1>0, <1>4, <2>2, TaskStepImplements DEF Open
<1>5. CASE pool = "Cpp98"
  <2>1. Inv98 /\ [Cpp9803!Next]_(Cpp9803!vars)
    BY <1>0, <1>5, StepOfThePool DEF PoolInv
  <2>2. TaskStep(~stopped, ~stopped')
    BY <2>1, TaskStep98
  <2>. QED BY <1>0, <1>5, <2>2, TaskStepImplements DEF Open
<1>6. CASE pool = "Cpp03"
  <2>1. Inv03Main /\ [Cpp9803!Next03]_(Cpp9803!vars03)
    BY <1>0, <1>6, StepOfThePool DEF PoolInv
  <2>2. TaskStep(~stopped, ~stopped')
    BY <2>1, TaskStep03Main
  <2>. QED BY <1>0, <1>6, <2>2, TaskStepImplements DEF Open
<1>7. CASE pool = "Cpp11"
  <2>1. Inv11 /\ [Cpp11!Next]_(Cpp11!vars)
    BY <1>0, <1>7, StepOfThePool DEF PoolInv
  <2>2. TaskStep(Open11, Open11')
    BY <2>1, TaskStep11
  <2>. QED BY <1>0, <1>7, <2>2, TaskStepImplements DEF Open, Open11
<1>. QED BY <1>1, <1>2, <1>3, <1>4, <1>5, <1>6, <1>7 DEF PoolInv

\* Every pool with a queue starts the tasks it was given in the order they
\* came, each once, and takes none when it is stopped: it implements TaskPool,
\* although enqueue, execute, addTask and add race the workers and, in Cpp98,
\* Cpp03 and Cpp11, a stop flag that is set without the mutex.
THEOREM PoolsImplementTaskPool == Spec => ImplementsPool
<1>1. Init => PoolInv /\ (pool = "02" => P02!RingOnce) /\ Abstract!Init
  <2>1. Init => (pool = "02" => T02!Init)
    BY DEF Init, InitOther
  <2>. QED BY <2>1, InitPoolInv, InitAbstract, TaskStep02
<1>2. PoolInv /\ (pool = "02" => P02!RingOnce) /\ [Next]_vars
        => PoolInv' /\ (pool = "02" => P02!RingOnce)' /\ [Abstract!Next]_(Abstract!poolVars)
  BY NextPoolInv, NextAbstract
<1>. QED BY <1>1, <1>2, PTL DEF Spec, ImplementsPool, Abstract!Spec

=============================================================================
