------------------------- MODULE AdaptivePoolProofs -------------------------
(***************************************************************************)
(* The counters, the ring and the waiting clients of 02_thread_pool, for   *)
(* every number of workers, clients and tasks, every size of the ring and  *)
(* whatever malloc left in the memory threadpool_create does not set.      *)
(***************************************************************************)
EXTENDS AdaptiveThreadPool, FiniteSetTheorems, TLAPS

\* The slot of the ring k places behind queue_front.
RingSlot(k) ==
  IF queue_front + k >= queue_max_size THEN queue_front + k - queue_max_size
                                       ELSE queue_front + k

\* Until the destroy the ring is filled from queue_front up to queue_rear,
\* with arguments clients passed: a worker never takes what malloc left there.
RingFilled ==
  ~shutdown =>
    /\ queue_rear = RingSlot(queue_size)
    /\ \A k \in Ring : k < queue_size => task_queue[RingSlot(k)] \in Tasks

\* A threadpool_add that has not returned has an argument of its own, and a
\* client that has given the lock back has found shutdown set.
CallsApart ==
  /\ added \subseteq Tasks /\ late \subseteq added /\ IsFiniteSet(late)
  /\ \A c \in Clients : adding[c] \notin added
  /\ \A c, d \in Clients : adding[c] # NULL /\ adding[c] = adding[d] => c = d
  /\ \A c \in unlocked : adding[c] # NULL
  /\ ~shutdown => unlocked = {} /\ late = {}

IInv ==
  /\ TypeOK
  /\ CountersExact
  /\ ClientsSleepOnlyWhenFull
  /\ RingFilled
  /\ CallsApart

-----------------------------------------------------------------------------

\* The slots are finitely many, one for each thread the pool may have.
LEMMA SlotsFinite ==
  /\ Slots \subseteq Nat
  /\ \A S \in SUBSET Slots : IsFiniteSet(S) /\ Cardinality(S) \in Nat
<1>1. IsFiniteSet(Slots) /\ Slots \subseteq Nat
  BY PoolAssumption, FS_Interval DEF Slots
<1>. QED BY <1>1, FS_Subset, FS_CardinalityType

\* A worker that changes its place changes a count of workers by one, or not
\* at all.
LEMMA CountMoves ==
  ASSUME NEW S \in SUBSET Slots, NEW T \in SUBSET Slots, NEW w \in Slots
  PROVE  /\ w \notin S /\ T = S \cup {w} => Cardinality(T) = Cardinality(S) + 1
         /\ w \in S /\ T = S \ {w} => Cardinality(T) = Cardinality(S) - 1
BY SlotsFinite, FS_AddElement, FS_RemoveElement

\* adjust_thread starts no more threads than max_thr_num leaves room for: the
\* loop counts each thread it starts into live_thr_num before it starts the
\* next, so the places of the new threads among the free slots are below
\* max_thr_num - live_thr_num.
LEMMA NewThreadsFit ==
  ASSUME live_thr_num \in Nat, live_thr_num <= max_thr_num
  PROVE  Cardinality(NewThreads) \in Nat /\ live_thr_num + Cardinality(NewThreads) <= max_thr_num
<1> DEFINE before(s) == {r \in FreeSlots : r < s}
           room == max_thr_num - live_thr_num
           place == [s \in NewThreads |-> Cardinality(before(s))]
<1>1. /\ NewThreads \subseteq FreeSlots /\ FreeSlots \subseteq Slots
      /\ \A s \in NewThreads : live_thr_num + Cardinality(before(s)) < max_thr_num
  BY DEF NewThreads, FreeSlots
<1>2. room \in Nat /\ max_thr_num \in Nat
  BY PoolAssumption
<1>3. \A s \in NewThreads : before(s) \in SUBSET Slots /\ Cardinality(before(s)) \in Nat
  BY <1>1, SlotsFinite
<1>4. place \in [NewThreads -> 0 .. room - 1]
  <2>1. ASSUME NEW s \in NewThreads PROVE Cardinality(before(s)) \in 0 .. room - 1
    <3>1. Cardinality(before(s)) \in Nat /\ live_thr_num + Cardinality(before(s)) < max_thr_num
      BY <1>1, <1>3
    <3> HIDE DEF before
    <3>. QED BY <3>1, <1>2
  <2>. QED BY <2>1
<1>5. ASSUME NEW s \in NewThreads, NEW t \in NewThreads, s < t
      PROVE  Cardinality(before(s)) < Cardinality(before(t))
  <2>0. s \in FreeSlots /\ t \in FreeSlots /\ FreeSlots \subseteq Nat
    BY <1>1, SlotsFinite
  <2>1. before(s) \subseteq before(t) /\ s \in before(t) /\ s \notin before(s)
    <3>1. s \in Nat /\ t \in Nat /\ s < t
      BY <2>0, <1>5
    <3>2. ASSUME NEW r \in FreeSlots, r < s PROVE r < t
      BY <3>1, <3>2, <2>0
    <3>3. s \in before(t)
      BY <3>1, <2>0
    <3>4. s \notin before(s)
      BY <3>1, <2>0
    <3>. QED BY <3>2, <3>3, <3>4
  <2>2. IsFiniteSet(before(t)) /\ before(s) # before(t)
    BY <2>1, <1>3, SlotsFinite
  <2>3. /\ Cardinality(before(s)) <= Cardinality(before(t))
        /\ Cardinality(before(t)) = Cardinality(before(s)) => before(t) = before(s)
    BY <2>1, <2>2, FS_Subset
  <2>. QED BY <2>2, <2>3, <1>3
<1>6. place \in Injection(NewThreads, 0 .. room - 1)
  <2>1. SUFFICES ASSUME NEW s \in NewThreads, NEW t \in NewThreads, place[s] = place[t]
                 PROVE  s = t
    BY <1>4 DEF Injection, IsInjective
  <2>2. Cardinality(before(s)) = Cardinality(before(t))
    BY <2>1
  <2>3. ~(s < t) /\ ~(t < s)
    BY <2>2, <1>3, <1>5
  <2>. QED BY <2>3, <1>1, SlotsFinite
<1>7. IsFiniteSet(0 .. room - 1) /\ Cardinality(0 .. room - 1) = room
  BY <1>2, FS_Interval
<1>8. Cardinality(NewThreads) <= room
  BY <1>6, <1>7, FS_Injection
<1>. QED BY <1>1, <1>2, <1>8, SlotsFinite

-----------------------------------------------------------------------------

\* threadpool_create establishes the invariant: min_thr_num threads exist and
\* the ring is empty, whatever is in its slots.
LEMMA InitIInv == Init => IInv
<1> SUFFICES ASSUME Init PROVE IInv
  OBVIOUS
<1> USE DEF Init, threadpool_create
<1>1. IsFiniteSet({}) /\ Cardinality({}) = 0
  BY FS_EmptySet
<1>2. TypeOK
  <2>1. task_queue \in [Ring -> Tasks \cup {NULL, Wild}]
    BY PoolAssumption
  <2>2. queue_size \in 0 .. queue_max_size + Cardinality(late)
    BY <1>1, PoolAssumption
  <2>. QED BY <2>1, <2>2, PoolAssumption DEF TypeOK, Ring
<1>3. CountersExact
  <2>1. Alive = 0 .. min_thr_num - 1
    BY PoolAssumption DEF Alive, Slots
  <2>2. Cardinality(Alive) = min_thr_num
    BY <2>1, FS_Interval, PoolAssumption
  <2>3. {w \in Slots : pc[w] \in {"run", "uncount"}} = {}
    OBVIOUS
  <2>. QED BY <2>2, <2>3, <1>1, PoolAssumption DEF CountersExact
<1>4. ClientsSleepOnlyWhenFull
  BY DEF ClientsSleepOnlyWhenFull
<1>5. RingFilled
  BY PoolAssumption DEF RingFilled, RingSlot, Ring
<1>6. CallsApart
  BY <1>1 DEF CallsApart
<1>. QED BY <1>2, <1>3, <1>4, <1>5, <1>6 DEF IInv

-----------------------------------------------------------------------------

\* A step that leaves shutdown, the workers and the two counters alone.
LEMMA CountersUntouched ==
  CountersExact /\ UNCHANGED <<shutdown, pc, live_thr_num, busy_thr_num>> => CountersExact'
BY DEF CountersExact, Alive

\* Every step of a worker keeps the counters exact; one that exits on
\* wait_exit_thr_num has counted itself out under the lock.
LEMMA WorkerCounters ==
  ASSUME IInv, NEW w \in Slots, threadpool_thread(w)
  PROVE  CountersExact'
<1> DEFINE Busy == {v \in Slots : pc[v] \in {"run", "uncount"}}
<1>1. /\ TypeOK /\ CountersExact
      /\ Alive \in SUBSET Slots /\ Alive' \in SUBSET Slots
      /\ Busy \in SUBSET Slots /\ Busy' \in SUBSET Slots
  BY DEF IInv, Alive
<1>2. pc \in [Slots -> {"none", "lock", "block", "asleep", "woken", "count", "run", "uncount", "exited"}]
  BY <1>1 DEF TypeOK
<1>3. /\ live_thr_num \in Nat /\ min_thr_num \in Nat /\ max_thr_num \in Nat
      /\ Cardinality(Busy) \in Nat
  BY <1>1, PoolAssumption, SlotsFinite DEF CountersExact
<1>4. CASE DecideToWait(w) \/ Block(w) \/ Take(w)
  <2>1. Alive' = Alive /\ Busy' = Busy
    BY <1>2, <1>4 DEF Alive, DecideToWait, Block, Take, Goto, HasLock
  <2>2. UNCHANGED <<shutdown, live_thr_num, busy_thr_num>>
    BY <1>4 DEF DecideToWait, Block, Take, countVars
  <2>. QED BY <2>1, <2>2, <1>1 DEF CountersExact
<1>5. CASE Wake(w)
  <2>1. CASE wait_exit_thr_num > 0 /\ live_thr_num > min_thr_num
    <3>1. w \in Alive /\ Alive' = Alive \ {w} /\ Busy' = Busy
      BY <1>2, <1>5, <2>1 DEF Alive, Wake, Goto
    <3>2. UNCHANGED <<shutdown, busy_thr_num>> /\ live_thr_num' = live_thr_num - 1
      BY <1>5, <2>1 DEF Wake
    <3>3. Cardinality(Alive') = Cardinality(Alive) - 1
      BY <3>1, <1>1, CountMoves
    <3>4. live_thr_num' \in min_thr_num .. max_thr_num
      BY <3>2, <2>1, <1>1, <1>3 DEF CountersExact
    <3>5. ~shutdown' => live_thr_num' = Cardinality(Alive')
      BY <3>2, <3>3, <1>1 DEF CountersExact
    <3>6. busy_thr_num' = Cardinality(Busy')
      BY <3>1, <3>2, <1>1 DEF CountersExact
    <3>. QED BY <3>4, <3>5, <3>6 DEF CountersExact
  <2>2. CASE ~(wait_exit_thr_num > 0 /\ live_thr_num > min_thr_num)
    <3>1. Alive' = Alive /\ Busy' = Busy
      BY <1>2, <1>5, <2>2 DEF Alive, Wake, Goto
    <3>2. UNCHANGED <<shutdown, live_thr_num, busy_thr_num>>
      BY <1>5, <2>2 DEF Wake
    <3>. QED BY <3>1, <3>2, <1>1 DEF CountersExact
  <2>. QED BY <2>1, <2>2
<1>6. CASE ExitOnShutdown(w)
  <2>1. Busy' = Busy
    BY <1>2, <1>6 DEF ExitOnShutdown, Goto, HasLock
  <2>2. shutdown' /\ UNCHANGED <<live_thr_num, busy_thr_num>>
    BY <1>6 DEF ExitOnShutdown, countVars
  <2>. QED BY <2>1, <2>2, <1>1 DEF CountersExact
<1>7. CASE CountBusy(w)
  <2>1. w \notin Busy /\ Busy' = Busy \cup {w} /\ Alive' = Alive
    BY <1>2, <1>7 DEF Alive, CountBusy, Goto
  <2>2. UNCHANGED <<shutdown, live_thr_num>> /\ busy_thr_num' = busy_thr_num + 1
    BY <1>7 DEF CountBusy
  <2>3. Cardinality(Busy') = Cardinality(Busy) + 1
    BY <2>1, <1>1, CountMoves
  <2>. QED BY <2>1, <2>2, <2>3, <1>1 DEF CountersExact
<1>8. CASE Run(w)
  <2>1. Busy' = Busy /\ Alive' = Alive
    BY <1>2, <1>8 DEF Alive, Run, Goto
  <2>2. UNCHANGED <<shutdown, live_thr_num, busy_thr_num>>
    BY <1>8 DEF Run, countVars
  <2>. QED BY <2>1, <2>2, <1>1 DEF CountersExact
<1>9. CASE UncountBusy(w)
  <2>1. w \in Busy /\ Busy' = Busy \ {w} /\ Alive' = Alive
    BY <1>2, <1>9 DEF Alive, UncountBusy, Goto
  <2>2. UNCHANGED <<shutdown, live_thr_num>> /\ busy_thr_num' = busy_thr_num - 1
    BY <1>9 DEF UncountBusy
  <2>3. Cardinality(Busy') = Cardinality(Busy) - 1
    BY <2>1, <1>1, CountMoves
  <2>. QED BY <2>1, <2>2, <2>3, <1>1 DEF CountersExact
<1>. QED BY <1>4, <1>5, <1>6, <1>7, <1>8, <1>9 DEF threadpool_thread

\* The threads adjust_thread starts are counted, and the copies of the
\* counters it decides on, which may be stale, do not matter.
LEMMA GrowCounters ==
  ASSUME IInv, AdjustGrow
  PROVE  CountersExact'
<1> DEFINE Busy == {v \in Slots : pc[v] \in {"run", "uncount"}}
<1>1. TypeOK /\ CountersExact
  BY DEF IInv
<1>2. CASE UNCHANGED <<pc, live_thr_num>>
  BY <1>1, <1>2, CountersUntouched DEF AdjustGrow
<1>3. CASE /\ pc' = [s \in Slots |-> IF s \in NewThreads THEN "lock" ELSE pc[s]]
           /\ live_thr_num' = live_thr_num + Cardinality(NewThreads)
  <2>1. NewThreads \in SUBSET Slots /\ \A s \in NewThreads : pc[s] \in {"none", "exited"}
    BY DEF NewThreads, FreeSlots
  <2>2. Alive' = Alive \cup NewThreads /\ Alive \cap NewThreads = {} /\ Alive \in SUBSET Slots
    BY <1>3, <2>1 DEF Alive
  <2>3. Busy' = Busy
    BY <1>3, <2>1
  <2>4. IsFiniteSet(Alive) /\ IsFiniteSet(NewThreads)
    BY <2>1, <2>2, SlotsFinite
  <2>5. Cardinality(Alive') = Cardinality(Alive) + Cardinality(NewThreads)
    <3>1. Cardinality(Alive) \in Nat /\ Cardinality(NewThreads) \in Nat
      BY <2>1, <2>2, SlotsFinite
    <3>2. Cardinality(Alive \cup NewThreads) =
            Cardinality(Alive) + Cardinality(NewThreads) - Cardinality(Alive \cap NewThreads)
      BY <2>4, FS_Union
    <3>3. Cardinality(Alive \cap NewThreads) = 0
      BY <2>2, FS_EmptySet
    <3>. QED BY <3>1, <3>2, <3>3, <2>2
  <2>6. /\ live_thr_num \in Nat /\ live_thr_num >= min_thr_num /\ live_thr_num <= max_thr_num
        /\ min_thr_num \in Nat /\ max_thr_num \in Nat
    BY <1>1, PoolAssumption DEF CountersExact
  <2>7. Cardinality(NewThreads) \in Nat /\ live_thr_num' <= max_thr_num
    BY <2>6, <1>3, NewThreadsFit
  <2>8. UNCHANGED <<shutdown, busy_thr_num>>
    BY DEF AdjustGrow
  <2>. QED BY <2>3, <2>5, <2>6, <2>7, <2>8, <1>1, <1>3 DEF CountersExact
<1>. QED BY <1>2, <1>3 DEF AdjustGrow

\* The steps that leave the workers and their counters alone.
LEMMA OtherStepsCounters ==
  ASSUME IInv,
         \/ \E w \in Slots : SpuriousWakeup(w)
         \/ \E c \in Clients : threadpool_add(c) \/ \E t \in Tasks : CallAdd(c, t)
         \/ AdjustTop \/ AdjustSnapshot \/ AdjustBusy \/ AdjustShrink \/ AdjustSignal
         \/ threadpool_destroy
         \/ UNCHANGED vars
  PROVE  CountersExact'
<1>1. UNCHANGED <<shutdown, pc, live_thr_num, busy_thr_num>>
  BY DEF SpuriousWakeup, threadpool_add, AddWait, AddStore, Store, AddSeesShutdown, AddUnlocked, CallAdd,
         AdjustTop, AdjustSnapshot, AdjustBusy, AdjustShrink, AdjustSignal,
         threadpool_destroy, DestroyJoinAdjust, DestroyBroadcast, DestroyJoin, threadpool_free,
         vars, countVars, workerVars
<1>. QED BY <1>1, CountersUntouched DEF IInv

\* Whatever happens next, the counters stay exact.
LEMMA NextCounters == IInv /\ [Next]_vars => CountersExact'
<1>1. ASSUME IInv, DestroyShutdown PROVE CountersExact'
  BY <1>1 DEF DestroyShutdown, IInv, CountersExact, Alive, countVars, workerVars
<1>. QED BY <1>1, WorkerCounters, GrowCounters, OtherStepsCounters DEF Next, adjust_thread

-----------------------------------------------------------------------------

\* A position of the ring moves to the next slot and from the last to the first.
LEMMA RingNext ==
  ASSUME NEW s \in Ring
  PROVE  /\ (s + 1) % queue_max_size = IF s + 1 = queue_max_size THEN 0 ELSE s + 1
         /\ (s + 1) % queue_max_size \in Ring
<1>1. queue_max_size \in Nat /\ queue_max_size >= 1 /\ s \in Nat /\ s + 1 <= queue_max_size
  BY PoolAssumption DEF Ring
<1>2. CASE s + 1 = queue_max_size
  <2>1. (s + 1) % queue_max_size = 0
    BY <1>1, <1>2
  <2>. QED BY <2>1, <1>1, <1>2 DEF Ring
<1>3. CASE s + 1 < queue_max_size
  <2>1. (s + 1) % queue_max_size = s + 1
    BY <1>1, <1>3
  <2>. QED BY <2>1, <1>1, <1>3 DEF Ring
<1>. QED BY <1>1, <1>2, <1>3

\* Until the destroy the ring holds no more than it has room for.
LEMMA RingBounded ==
  ASSUME IInv, ~shutdown
  PROVE  queue_size \in 0 .. queue_max_size
<1>1. Cardinality(late) = 0
  BY FS_EmptySet DEF IInv, CallsApart
<1>. QED BY <1>1, PoolAssumption DEF IInv, TypeOK

\* The argument a worker takes is one a client passed.
LEMMA TakesATask ==
  ASSUME IInv, NEW w \in Slots, Take(w)
  PROVE  task_queue[queue_front] \in Tasks
<1>1. queue_size \in 1 .. queue_max_size
  BY RingBounded, PoolAssumption DEF Take
<1>2. RingSlot(0) = queue_front /\ 0 \in Ring
  BY PoolAssumption DEF RingSlot, Ring, IInv, TypeOK
<1>. QED BY <1>1, <1>2 DEF IInv, RingFilled, Take

\* A worker takes from the front: the rest of the ring is as it was.
LEMMA TakeRing ==
  ASSUME IInv, NEW w \in Slots, Take(w)
  PROVE  RingFilled'
<1>1. /\ queue_size \in 1 .. queue_max_size /\ queue_front \in Ring /\ queue_max_size \in Nat
      /\ ~shutdown /\ RingFilled
  BY RingBounded, PoolAssumption DEF Take, IInv, TypeOK
<1>2. /\ queue_front' = IF queue_front + 1 = queue_max_size THEN 0 ELSE queue_front + 1
      /\ queue_size' = queue_size - 1
      /\ UNCHANGED <<queue_rear, task_queue>>
  BY <1>1, RingNext DEF Take
<1>3. \A k \in 0 .. queue_size - 1 : RingSlot(k)' = RingSlot(k + 1)
  BY <1>1, <1>2 DEF RingSlot, Ring
<1>4. queue_rear' = RingSlot(queue_size)'
  <2>1. RingSlot(queue_size)' = RingSlot((queue_size - 1) + 1)
    BY <1>1, <1>2, <1>3 DEF RingSlot, Ring
  <2>. QED BY <2>1, <1>1, <1>2 DEF RingFilled
<1>5. ASSUME NEW k \in Ring, k < queue_size' PROVE task_queue'[RingSlot(k)'] \in Tasks
  <2>1. k \in 0 .. queue_size - 1 /\ k + 1 \in Ring /\ k + 1 < queue_size
    BY <1>1, <1>2, <1>5 DEF Ring
  <2>. QED BY <2>1, <1>1, <1>2, <1>3 DEF RingFilled
<1>. QED BY <1>4, <1>5 DEF RingFilled

\* A client stores at the rear, in a slot that holds nothing a worker still has
\* to take.
LEMMA AddRing ==
  ASSUME IInv, NEW c \in Clients, AddStore(c)
  PROVE  RingFilled'
<1>1. /\ queue_size \in 0 .. queue_max_size - 1 /\ queue_front \in Ring /\ queue_max_size \in Nat
      /\ queue_rear \in Ring /\ ~shutdown /\ RingFilled /\ adding[c] \in Tasks
      /\ task_queue \in [Ring -> Tasks \cup {NULL, Wild}]
  BY RingBounded, PoolAssumption DEF AddStore, IInv, TypeOK, ClientHasLock
<1>2. /\ queue_rear' = IF queue_rear + 1 = queue_max_size THEN 0 ELSE queue_rear + 1
      /\ queue_size' = queue_size + 1
      /\ queue_front' = queue_front
      /\ task_queue' = [task_queue EXCEPT ![queue_rear] = adding[c]]
  BY <1>1, RingNext DEF AddStore, Store
<1>3. queue_rear = RingSlot(queue_size)
  BY <1>1 DEF RingFilled
<1>4. queue_rear' = RingSlot(queue_size)'
  BY <1>1, <1>2, <1>3 DEF RingSlot, Ring
<1>5. ASSUME NEW k \in Ring, k < queue_size' PROVE task_queue'[RingSlot(k)'] \in Tasks
  <2>1. RingSlot(k)' = RingSlot(k) /\ RingSlot(k) \in Ring
    BY <1>1, <1>2 DEF RingSlot, Ring
  <2>2. CASE k = queue_size
    BY <2>1, <2>2, <1>1, <1>2, <1>3
  <2>3. CASE k < queue_size
    <3>1. RingSlot(k) # queue_rear
      BY <2>3, <1>1, <1>3 DEF RingSlot, Ring
    <3>2. task_queue[RingSlot(k)] \in Tasks
      BY <2>3, <1>1 DEF RingFilled
    <3>. QED BY <3>1, <3>2, <2>1, <1>1, <1>2
  <2>. QED BY <2>2, <2>3, <1>1, <1>2, <1>5 DEF Ring
<1>. QED BY <1>4, <1>5 DEF RingFilled

\* No other step touches the ring before the destroy.
LEMMA NextRing == IInv /\ [Next]_vars => RingFilled'
<1> SUFFICES ASSUME IInv, [Next]_vars PROVE RingFilled'
  OBVIOUS
<1>1. CASE UNCHANGED <<queueVars, shutdown>>
  BY <1>1 DEF queueVars, IInv, RingFilled, RingSlot
<1>2. CASE shutdown'
  BY <1>2 DEF RingFilled
<1>3. ASSUME NEW c \in Clients, AddUnlocked(c) PROVE shutdown'
  BY <1>3 DEF AddUnlocked, IInv, CallsApart
<1>4. ASSUME NEW w \in Slots, threadpool_thread(w), ~Take(w) PROVE UNCHANGED <<queueVars, shutdown>>
  BY <1>4 DEF threadpool_thread, DecideToWait, Block, Wake, ExitOnShutdown, CountBusy, Run, UncountBusy
<1>5. ASSUME NEW c \in Clients, AddWait(c) \/ AddSeesShutdown(c) \/ \E t \in Tasks : CallAdd(c, t)
      PROVE  UNCHANGED <<queueVars, shutdown>>
  BY <1>5 DEF AddWait, AddSeesShutdown, CallAdd
<1>6. ASSUME adjust_thread \/ threadpool_destroy \/ (\E w \in Slots : SpuriousWakeup(w)) \/ UNCHANGED vars
      PROVE  UNCHANGED <<queueVars, shutdown>>
  BY <1>6 DEF adjust_thread, AdjustTop, AdjustSnapshot, AdjustBusy, AdjustGrow, AdjustShrink, AdjustSignal,
              threadpool_destroy, DestroyJoinAdjust, DestroyBroadcast, DestroyJoin, threadpool_free,
              SpuriousWakeup, vars
<1>7. ASSUME DestroyShutdown PROVE shutdown'
  BY <1>7 DEF DestroyShutdown
<1>. QED BY <1>1, <1>2, <1>3, <1>4, <1>5, <1>6, <1>7, TakeRing, AddRing DEF Next, threadpool_add

-----------------------------------------------------------------------------

\* A threadpool_add that returns, from the running pool or from one that is
\* being destroyed, has added a task no other call has.
LEMMA StoreCalls ==
  ASSUME IInv, NEW c \in Clients, AddStore(c) \/ AddUnlocked(c)
  PROVE  CallsApart'
<1>1. /\ adding \in [Clients -> Tasks \cup {NULL}] /\ adding[c] \in Tasks
      /\ NULL \notin Tasks /\ CallsApart
  BY PoolAssumption DEF IInv, TypeOK, CallsApart, AddStore, ClientHasLock, AddUnlocked
<1>2. /\ adding' = [adding EXCEPT ![c] = NULL]
      /\ added' = added \cup {adding[c]}
      /\ shutdown' = shutdown
  BY DEF AddStore, AddUnlocked, Store
<1>3. \/ UNCHANGED <<unlocked, late>>
      \/ shutdown /\ unlocked' = unlocked \ {c} /\ late' = late \cup {adding[c]}
  BY <1>1 DEF AddStore, AddUnlocked, CallsApart
<1>4. \A d \in Clients : adding'[d] \notin added'
  BY <1>1, <1>2 DEF CallsApart
<1>5. \A d, e \in Clients : adding'[d] # NULL /\ adding'[d] = adding'[e] => d = e
  BY <1>1, <1>2 DEF CallsApart
<1>6. \A d \in unlocked' : adding'[d] # NULL
  <2>1. CASE AddStore(c)
    BY <2>1, <1>1 DEF AddStore, CallsApart
  <2>2. CASE AddUnlocked(c)
    BY <2>2, <1>1, <1>2 DEF AddUnlocked, CallsApart, IInv, TypeOK
  <2>. QED BY <2>1, <2>2
<1>7. IsFiniteSet(late')
  BY <1>1, <1>3, FS_AddElement DEF CallsApart
<1>8. added' \subseteq Tasks /\ late' \subseteq added' /\ (~shutdown' => unlocked' = {} /\ late' = {})
  BY <1>1, <1>2, <1>3 DEF CallsApart
<1>. QED BY <1>4, <1>5, <1>6, <1>7, <1>8 DEF CallsApart

\* Calls stay apart, whatever happens next.
LEMMA NextCalls == IInv /\ [Next]_vars => CallsApart'
<1> SUFFICES ASSUME IInv, [Next]_vars PROVE CallsApart'
  OBVIOUS
<1>0. CallsApart /\ adding \in [Clients -> Tasks \cup {NULL}] /\ NULL \notin Tasks
  BY PoolAssumption DEF IInv, TypeOK
<1>1. CASE UNCHANGED <<clientVars, shutdown>>
  BY <1>0, <1>1 DEF clientVars, CallsApart
<1>2. ASSUME NEW c \in Clients, NEW t \in Tasks, CallAdd(c, t) PROVE CallsApart'
  <2>1. /\ adding' = [adding EXCEPT ![c] = t] /\ t \notin added /\ adding[c] = NULL
        /\ \A d \in Clients : adding[d] # t
        /\ UNCHANGED <<unlocked, added, late, shutdown>>
    BY <1>2 DEF CallAdd
  <2>2. unlocked \subseteq Clients
    BY DEF IInv, TypeOK
  <2>. QED BY <2>1, <2>2, <1>0 DEF CallsApart
<1>3. ASSUME NEW c \in Clients, AddSeesShutdown(c) PROVE CallsApart'
  BY <1>0, <1>3 DEF AddSeesShutdown, ClientHasLock, CallsApart
<1>4. ASSUME NEW c \in Clients, AddWait(c) PROVE UNCHANGED <<clientVars, shutdown>>
  BY <1>4 DEF AddWait
<1>5. ASSUME NEW w \in Slots, threadpool_thread(w) \/ SpuriousWakeup(w)
      PROVE  UNCHANGED <<clientVars, shutdown>>
  BY <1>5 DEF threadpool_thread, DecideToWait, Block, Wake, ExitOnShutdown, Take, CountBusy, Run, UncountBusy,
              SpuriousWakeup
<1>6. ASSUME adjust_thread \/ threadpool_destroy \/ UNCHANGED vars
      PROVE  UNCHANGED <<clientVars, shutdown>>
  BY <1>6 DEF adjust_thread, AdjustTop, AdjustSnapshot, AdjustBusy, AdjustGrow, AdjustShrink, AdjustSignal,
              threadpool_destroy, DestroyJoinAdjust, DestroyBroadcast, DestroyJoin, threadpool_free, vars
<1>7. ASSUME DestroyShutdown PROVE CallsApart'
  BY <1>0, <1>7 DEF DestroyShutdown, clientVars, CallsApart
<1>. QED BY <1>1, <1>2, <1>3, <1>4, <1>5, <1>6, <1>7, StoreCalls DEF Next, threadpool_add

-----------------------------------------------------------------------------

\* notify_one leaves a subset of those who waited.
LEMMA NotifyOneSubset ==
  ASSUME NEW S, NEW T \in AfterNotifyOne(S)
  PROVE  T \subseteq S
BY DEF AfterNotifyOne

\* A client sleeps only while the ring is full: whoever makes room wakes all.
LEMMA NextSleep == IInv /\ [Next]_vars => ClientsSleepOnlyWhenFull'
<1> SUFFICES ASSUME IInv, [Next]_vars PROVE ClientsSleepOnlyWhenFull'
  OBVIOUS
<1>0. /\ ClientsSleepOnlyWhenFull /\ queue_max_size \in Nat
      /\ queue_size \in 0 .. queue_max_size + Cardinality(late)
      /\ Cardinality(late) \in Nat
  BY PoolAssumption, FS_CardinalityType DEF IInv, TypeOK, CallsApart
<1>1. CASE UNCHANGED <<queue_not_full, queue_size>>
  BY <1>0, <1>1 DEF ClientsSleepOnlyWhenFull
<1>2. ASSUME NEW w \in Slots, Take(w) PROVE ClientsSleepOnlyWhenFull'
  BY <1>2 DEF Take, AfterNotifyAll, ClientsSleepOnlyWhenFull
<1>3. ASSUME NEW c \in Clients, AddWait(c) PROVE ClientsSleepOnlyWhenFull'
  BY <1>0, <1>3 DEF AddWait, queueVars, ClientsSleepOnlyWhenFull
<1>4. ASSUME NEW c \in Clients, Store(c) PROVE ClientsSleepOnlyWhenFull'
  BY <1>0, <1>4 DEF Store, ClientsSleepOnlyWhenFull
<1>5. ASSUME NEW w \in Slots, threadpool_thread(w) \/ SpuriousWakeup(w), ~Take(w)
      PROVE  UNCHANGED <<queue_not_full, queue_size>>
  BY <1>5 DEF threadpool_thread, DecideToWait, Block, Wake, ExitOnShutdown, CountBusy, Run, UncountBusy,
              SpuriousWakeup, queueVars, condVars
<1>6. ASSUME NEW c \in Clients, AddSeesShutdown(c) \/ \E t \in Tasks : CallAdd(c, t)
      PROVE  UNCHANGED <<queue_not_full, queue_size>>
  BY <1>6 DEF AddSeesShutdown, CallAdd, queueVars, condVars
<1>7. ASSUME adjust_thread \/ threadpool_destroy \/ DestroyShutdown \/ UNCHANGED vars
      PROVE  UNCHANGED <<queue_not_full, queue_size>>
  BY <1>7 DEF adjust_thread, AdjustTop, AdjustSnapshot, AdjustBusy, AdjustGrow, AdjustShrink, AdjustSignal,
              threadpool_destroy, DestroyJoinAdjust, DestroyBroadcast, DestroyJoin, threadpool_free,
              DestroyShutdown, vars, queueVars, condVars
<1>. QED BY <1>1, <1>2, <1>3, <1>4, <1>5, <1>6, <1>7 DEF Next, threadpool_add, AddStore, AddUnlocked

-----------------------------------------------------------------------------

\* Storing keeps the types: a store without room is one more late task.
LEMMA StoreType ==
  ASSUME IInv, NEW c \in Clients, AddStore(c) \/ AddUnlocked(c)
  PROVE  TypeOK'
<1>1. /\ TypeOK /\ CallsApart /\ queue_max_size \in Nat \ {0}
      /\ adding[c] \in Tasks /\ Cardinality(late) \in Nat
  BY PoolAssumption, FS_CardinalityType DEF IInv, TypeOK, CallsApart, AddStore, ClientHasLock, AddUnlocked
<1>2. /\ task_queue' = [task_queue EXCEPT ![queue_rear] = adding[c]]
      /\ adding' = [adding EXCEPT ![c] = NULL]
      /\ queue_rear' = (queue_rear + 1) % queue_max_size
      /\ queue_size' = queue_size + 1
      /\ queue_not_empty' \subseteq queue_not_empty
      /\ UNCHANGED <<queue_front, queue_not_full, pc, task, adjust, destroy>>
  BY NotifyOneSubset DEF AddStore, AddUnlocked, Store, workerVars, managerVars
<1>3. queue_rear' \in Ring
  BY <1>1, <1>2, RingNext DEF TypeOK
<1>4. queue_size' \in 0 .. queue_max_size + Cardinality(late')
  <2>1. CASE AddStore(c)
    <3>1. queue_size \in 0 .. queue_max_size /\ queue_size # queue_max_size /\ late' = late
      BY <2>1, RingBounded DEF AddStore
    <3>. QED BY <3>1, <1>1, <1>2
  <2>2. CASE AddUnlocked(c)
    <3>1. late' = late \cup {adding[c]} /\ adding[c] \notin late
      BY <2>2, <1>1 DEF AddUnlocked, CallsApart
    <3>2. Cardinality(late') = Cardinality(late) + 1
      BY <3>1, <1>1, FS_AddElement DEF CallsApart
    <3>. QED BY <3>2, <1>1, <1>2 DEF TypeOK
  <2>. QED BY <2>1, <2>2
<1>5. lock' \in {"free", "held"} /\ unlocked' \subseteq Clients
  BY <1>1 DEF AddStore, AddUnlocked, TypeOK
<1>. QED BY <1>1, <1>2, <1>3, <1>4, <1>5 DEF TypeOK

\* Every step keeps the types.
LEMMA NextType == IInv /\ [Next]_vars => TypeOK'
<1> SUFFICES ASSUME IInv, [Next]_vars PROVE TypeOK'
  OBVIOUS
<1>0. TypeOK /\ queue_max_size \in Nat \ {0} /\ Cardinality(late) \in Nat
  BY PoolAssumption, FS_CardinalityType DEF IInv, CallsApart
<1>1. ASSUME NEW w \in Slots, DecideToWait(w) \/ Block(w) \/ Wake(w) \/ ExitOnShutdown(w)
      PROVE  TypeOK'
  BY <1>0, <1>1 DEF TypeOK, DecideToWait, Block, Wake, ExitOnShutdown, Goto,
                    queueVars, condVars, clientVars, managerVars
<1>2. ASSUME NEW w \in Slots, Take(w) PROVE TypeOK'
  <2>1. task_queue[queue_front] \in Tasks
    BY <1>2, TakesATask
  <2>2. queue_front' \in Ring
    BY <1>0, <1>2, RingNext DEF Take, TypeOK
  <2>3. queue_size' \in 0 .. queue_max_size + Cardinality(late')
    BY <1>0, <1>2 DEF Take, TypeOK, clientVars
  <2>. QED BY <2>1, <2>2, <2>3, <1>0, <1>2
           DEF TypeOK, Take, Goto, AfterNotifyAll, clientVars, managerVars
<1>3. ASSUME NEW w \in Slots, CountBusy(w) \/ Run(w) \/ UncountBusy(w) PROVE TypeOK'
  BY <1>0, <1>3 DEF TypeOK, CountBusy, Run, UncountBusy, Goto, queueVars, condVars, clientVars, managerVars
<1>4. ASSUME NEW w \in Slots, SpuriousWakeup(w) PROVE TypeOK'
  BY <1>0, <1>4 DEF TypeOK, SpuriousWakeup, queueVars, workerVars, clientVars, managerVars
<1>5. ASSUME NEW c \in Clients, AddWait(c) \/ AddSeesShutdown(c) \/ \E t \in Tasks : CallAdd(c, t)
      PROVE  TypeOK'
  BY <1>0, <1>5 DEF TypeOK, AddWait, AddSeesShutdown, CallAdd,
                    queueVars, condVars, workerVars, clientVars, managerVars
<1>6. ASSUME AdjustGrow PROVE TypeOK'
  BY <1>0, <1>6 DEF TypeOK, AdjustGrow, queueVars, condVars, clientVars
<1>7. ASSUME AdjustTop \/ AdjustSnapshot \/ AdjustBusy \/ AdjustShrink PROVE TypeOK'
  BY <1>0, <1>7 DEF TypeOK, AdjustTop, AdjustSnapshot, AdjustBusy, AdjustShrink,
                    queueVars, condVars, workerVars, clientVars
<1>8. ASSUME AdjustSignal PROVE TypeOK'
  <2>1. queue_not_empty' \subseteq queue_not_empty
    BY <1>8, NotifyOneSubset DEF AdjustSignal
  <2>. QED BY <2>1, <1>0, <1>8 DEF TypeOK, AdjustSignal, queueVars, workerVars, clientVars
<1>9. ASSUME DestroyShutdown \/ threadpool_destroy PROVE TypeOK'
  BY <1>0, <1>9 DEF TypeOK, DestroyShutdown, threadpool_destroy, DestroyJoinAdjust, DestroyBroadcast, DestroyJoin,
                    threadpool_free, AfterNotifyAll, queueVars, condVars, workerVars, clientVars
<1>10. CASE UNCHANGED vars
  BY <1>0, <1>10 DEF TypeOK, vars, queueVars, condVars, workerVars, clientVars, managerVars
<1>. QED BY <1>1, <1>2, <1>3, <1>4, <1>5, <1>6, <1>7, <1>8, <1>9, <1>10, StoreType
         DEF Next, threadpool_thread, threadpool_add, adjust_thread

-----------------------------------------------------------------------------

\* The invariant the four results rest on.
LEMMA InvariantHolds == Spec => []IInv
<1>1. IInv /\ [Next]_vars => IInv'
  BY NextType, NextCounters, NextSleep, NextRing, NextCalls DEF IInv
<1>. QED BY <1>1, InitIInv, PTL DEF Spec

\* Every variable of the pool keeps its type; in particular the ring holds at
\* most queue_max_size tasks and those of clients that went on after they had
\* found shutdown set (lines 137-155 of threadpool.c), and a worker takes
\* only arguments that clients passed, never what malloc left in the ring.
THEOREM PoolTypeOK == Spec => []TypeOK
<1>1. IInv => TypeOK
  BY DEF IInv
<1>. QED BY <1>1, InvariantHolds, PTL

\* Until the destroy live_thr_num is the number of threads that exist; it stays
\* between min_thr_num and max_thr_num, and busy_thr_num is the number of
\* threads inside a callback, although adjust_thread decides on stale copies.
THEOREM PoolCountersExact == Spec => []CountersExact
<1>1. IInv => CountersExact
  BY DEF IInv
<1>. QED BY <1>1, InvariantHolds, PTL

\* A client sleeps in threadpool_add only while the ring is full.
THEOREM PoolClientsSleepOnlyWhenFull == Spec => []ClientsSleepOnlyWhenFull
<1>1. IInv => ClientsSleepOnlyWhenFull
  BY DEF IInv
<1>. QED BY <1>1, InvariantHolds, PTL

-----------------------------------------------------------------------------

\* Until the destroy one worker at most is about to wait or back from its
\* wait; it has the lock, and before the wait the ring is still empty.
LockHeld ==
  ~shutdown =>
    /\ \A w \in Slots : pc[w] \in {"block", "woken"} => lock = "held"
    /\ \A v, w \in Slots : pc[v] \in {"block", "woken"} /\ pc[w] \in {"block", "woken"} => v = w
    /\ \A w \in Slots : pc[w] = "block" => queue_size = 0

\* In a pool of fixed size no worker ends before the destroy, and the signal
\* of threadpool_add finds a worker that will take the task.
FixedInv == LockHeld /\ (min_thr_num = max_thr_num => QueuedTasksKeepAWorkerAwake)

\* Every step keeps the lock with one worker.
LEMMA NextLock == IInv /\ LockHeld /\ [Next]_vars => LockHeld'
<1> SUFFICES ASSUME IInv, LockHeld, [Next]_vars, ~shutdown' PROVE LockHeld'
  BY DEF LockHeld
<1>0. TypeOK /\ ~shutdown /\ unlocked = {}
  <2>1. ~shutdown
    BY DEF Next, vars, threadpool_thread, DecideToWait, Block, Wake, ExitOnShutdown, Take, CountBusy, Run, UncountBusy,
           SpuriousWakeup, threadpool_add, AddWait, AddStore, AddSeesShutdown, AddUnlocked, CallAdd, adjust_thread,
           AdjustTop, AdjustSnapshot, AdjustBusy, AdjustGrow, AdjustShrink, AdjustSignal, DestroyShutdown,
           threadpool_destroy, DestroyJoinAdjust, DestroyBroadcast, DestroyJoin, threadpool_free
  <2>. QED BY <2>1 DEF IInv, CallsApart
<1>1. ASSUME NEW w \in Slots, threadpool_thread(w) PROVE LockHeld'
  BY <1>0, <1>1 DEF threadpool_thread, TypeOK, LockHeld, HasLock, DecideToWait, Block, Wake, ExitOnShutdown, Take,
                    CountBusy, Run, UncountBusy, Goto, queueVars
<1>2. ASSUME NEW c \in Clients, threadpool_add(c) \/ \E t \in Tasks : CallAdd(c, t) PROVE LockHeld'
  BY <1>0, <1>2 DEF threadpool_add, TypeOK, LockHeld, ClientHasLock, AddWait, AddStore, AddSeesShutdown, AddUnlocked,
                    Store, CallAdd, queueVars, workerVars
<1>3. ASSUME adjust_thread PROVE LockHeld'
  BY <1>0, <1>3 DEF adjust_thread, TypeOK, LockHeld, AdjustTop, AdjustSnapshot, AdjustBusy, AdjustGrow, AdjustShrink,
                    AdjustSignal, queueVars, workerVars
<1>4. ASSUME NEW w \in Slots, SpuriousWakeup(w) PROVE LockHeld'
  BY <1>0, <1>4 DEF LockHeld, SpuriousWakeup, queueVars, workerVars
<1>5. ASSUME DestroyShutdown \/ threadpool_destroy PROVE LockHeld'
  BY <1>0, <1>5 DEF LockHeld, DestroyShutdown, threadpool_destroy, DestroyJoinAdjust, DestroyBroadcast, DestroyJoin,
                    threadpool_free, queueVars, workerVars
<1>6. CASE UNCHANGED vars
  BY <1>6 DEF LockHeld, vars, queueVars, workerVars
<1>. QED BY <1>1, <1>2, <1>3, <1>4, <1>5, <1>6 DEF Next

\* In a pool of fixed size all slots are in use until the destroy.
LEMMA AllAlive ==
  IInv /\ min_thr_num = max_thr_num /\ ~shutdown => Alive = Slots
<1> SUFFICES ASSUME IInv, min_thr_num = max_thr_num, ~shutdown PROVE Alive = Slots
  OBVIOUS
<1>1. Cardinality(Alive) = max_thr_num /\ Alive \subseteq Slots
  BY PoolAssumption DEF IInv, CountersExact, Alive
<1>2. IsFiniteSet(Slots) /\ Cardinality(Slots) = max_thr_num
  BY PoolAssumption, FS_Interval DEF Slots
<1>. QED BY <1>1, <1>2, FS_Subset

\* A worker is kept awake by every step of a pool of fixed size.
LEMMA NextAwake ==
  IInv /\ LockHeld /\ min_thr_num = max_thr_num /\ QueuedTasksKeepAWorkerAwake /\ [Next]_vars
    => QueuedTasksKeepAWorkerAwake'
<1> SUFFICES ASSUME IInv, LockHeld, min_thr_num = max_thr_num, QueuedTasksKeepAWorkerAwake, [Next]_vars,
                    queue_size' > 0, ~shutdown'
             PROVE  \E w \in Alive' : w \notin queue_not_empty'
  BY DEF QueuedTasksKeepAWorkerAwake
<1>0. TypeOK /\ ~shutdown /\ unlocked = {}
  <2>1. ~shutdown
    BY DEF Next, vars, threadpool_thread, DecideToWait, Block, Wake, ExitOnShutdown, Take, CountBusy, Run, UncountBusy,
           SpuriousWakeup, threadpool_add, AddWait, AddStore, AddSeesShutdown, AddUnlocked, CallAdd, adjust_thread,
           AdjustTop, AdjustSnapshot, AdjustBusy, AdjustGrow, AdjustShrink, AdjustSignal, DestroyShutdown,
           threadpool_destroy, DestroyJoinAdjust, DestroyBroadcast, DestroyJoin, threadpool_free
  <2>. QED BY <2>1 DEF IInv, CallsApart
<1>1. Alive = Slots /\ Alive' = Slots
  <2>1. IInv'
    BY NextType, NextCounters, NextSleep, NextRing, NextCalls DEF IInv
  <2>2. (IInv /\ min_thr_num = max_thr_num /\ ~shutdown => Alive = Slots)'
    BY AllAlive, PTL
  <2>. QED BY <2>1, <2>2, <1>0, AllAlive
<1>2. SUFFICES queue_not_empty' # Slots /\ queue_not_empty' \subseteq Slots
  BY <1>1
<1>3. Slots # {} /\ (queue_size > 0 => queue_not_empty # Slots) /\ queue_size \in Int
  <2>1. 0 \in Slots
    BY PoolAssumption DEF Slots
  <2>2. queue_size \in Int
    BY <1>0, PoolAssumption, FS_CardinalityType DEF TypeOK, IInv, CallsApart
  <2>. QED BY <2>1, <2>2, <1>0, <1>1 DEF QueuedTasksKeepAWorkerAwake
<1>4. ASSUME queue_not_empty' \subseteq queue_not_empty, queue_size' <= queue_size
      PROVE  queue_not_empty' # Slots /\ queue_not_empty' \subseteq Slots
  BY <1>0, <1>3, <1>4 DEF TypeOK
<1>5. ASSUME NEW w \in Slots, threadpool_thread(w)
      PROVE  queue_not_empty' # Slots /\ queue_not_empty' \subseteq Slots
  <2>1. CASE Block(w)
    BY <2>1, <1>0 DEF Block, LockHeld, queueVars
  <2>2. CASE Take(w)
    BY <2>2, <1>3, <1>4 DEF Take
  <2>3. CASE DecideToWait(w) \/ Wake(w) \/ ExitOnShutdown(w) \/ CountBusy(w) \/ Run(w) \/ UncountBusy(w)
    BY <2>3, <1>3, <1>4 DEF DecideToWait, Wake, ExitOnShutdown, CountBusy, Run, UncountBusy, queueVars, condVars
  <2>. QED BY <2>1, <2>2, <2>3, <1>5 DEF threadpool_thread
<1>6. ASSUME NEW c \in Clients, AddStore(c)
      PROVE  queue_not_empty' # Slots /\ queue_not_empty' \subseteq Slots
  BY <1>6, <1>0, <1>3 DEF AddStore, Store, AfterNotifyOne, TypeOK
<1>7. ASSUME NEW c \in Clients,
             AddWait(c) \/ AddSeesShutdown(c) \/ AddUnlocked(c) \/ \E t \in Tasks : CallAdd(c, t)
      PROVE  queue_not_empty' # Slots /\ queue_not_empty' \subseteq Slots
  BY <1>7, <1>0, <1>3, <1>4 DEF AddWait, AddSeesShutdown, AddUnlocked, CallAdd, queueVars, condVars
<1>8. ASSUME adjust_thread
      PROVE  queue_not_empty' # Slots /\ queue_not_empty' \subseteq Slots
  <2>1. queue_not_empty' \subseteq queue_not_empty /\ queue_size' = queue_size
    BY <1>8, NotifyOneSubset DEF adjust_thread, AdjustTop, AdjustSnapshot, AdjustBusy, AdjustGrow, AdjustShrink,
                                 AdjustSignal, queueVars, condVars
  <2>. QED BY <2>1, <1>3, <1>4
<1>9. ASSUME NEW w \in Slots, SpuriousWakeup(w)
      PROVE  queue_not_empty' # Slots /\ queue_not_empty' \subseteq Slots
  BY <1>9, <1>3, <1>4 DEF SpuriousWakeup, queueVars
<1>10. ASSUME DestroyShutdown \/ threadpool_destroy
       PROVE  queue_not_empty' # Slots /\ queue_not_empty' \subseteq Slots
  BY <1>10, <1>3, <1>4 DEF DestroyShutdown, threadpool_destroy, DestroyJoinAdjust, DestroyBroadcast, DestroyJoin,
                           threadpool_free, AfterNotifyAll, queueVars, condVars
<1>11. CASE UNCHANGED vars
  BY <1>11, <1>3, <1>4 DEF vars, queueVars, condVars
<1>. QED BY <1>5, <1>6, <1>7, <1>8, <1>9, <1>10, <1>11 DEF Next, threadpool_add

\* The invariants of a pool of fixed size hold at the start and are kept.
LEMMA FixedInvariant ==
  /\ Init => IInv /\ FixedInv
  /\ IInv /\ FixedInv /\ [Next]_vars => IInv' /\ FixedInv'
<1>1. Init => LockHeld /\ QueuedTasksKeepAWorkerAwake
  BY DEF Init, threadpool_create, LockHeld, QueuedTasksKeepAWorkerAwake
<1>. QED BY <1>1, InitIInv, NextType, NextCounters, NextSleep, NextRing, NextCalls, NextLock, NextAwake
         DEF IInv, FixedInv

\* "After a task was added the queue is not empty, wake the threads that wait
\* for one" (line 152 of threadpool.c): in a pool of fixed size, whatever its
\* size, some worker is awake while tasks are queued.
THEOREM FixedPoolKeepsAWorkerAwake ==
  min_thr_num = max_thr_num => (Spec => []QueuedTasksKeepAWorkerAwake)
<1> SUFFICES ASSUME min_thr_num = max_thr_num PROVE Spec => []QueuedTasksKeepAWorkerAwake
  OBVIOUS
<1>1. IInv /\ FixedInv => QueuedTasksKeepAWorkerAwake
  BY DEF FixedInv
<1>. QED BY <1>1, FixedInvariant, PTL DEF Spec

-----------------------------------------------------------------------------

\* The argument k places behind queue_front.
At(k) == task_queue[RingSlot(k)]

\* The workers that have a task.
Holders == {w \in Slots : pc[w] \in {"count", "run"}}

\* Nobody is inside threadpool_add during the destroy, and each argument is in
\* one place of the ring or with one worker.
RingOnce ==
  /\ shutdown \in BOOLEAN /\ (shutdown <=> destroy # "no")
  /\ shutdown => \A c \in Clients : adding[c] = NULL
  /\ unlocked = {} /\ late = {}
  /\ done \subseteq added
  /\ \A w \in Holders : task[w] \in added
  /\ \A v, w \in Holders : task[v] = task[w] => v = w
  /\ \A k \in 0 .. queue_size - 1 : At(k) \in added /\ \A w \in Holders : task[w] # At(k)
  /\ \A j, k \in 0 .. queue_size - 1 : At(j) = At(k) => j = k

\* The remainder is the slot.
LEMMA RingRemainder ==
  ASSUME NEW n \in Nat \ {0}, NEW a \in Nat, a < n, NEW k \in 0 .. n - 1
  PROVE  (a + k) % n = IF a + k >= n THEN a + k - n ELSE a + k
<1>1. \A b \in n .. 2 * n - 1 : b % n = b - n
  OBVIOUS
<1>2. \A b \in 0 .. n - 1 : b % n = b
  OBVIOUS
<1>3. CASE a + k >= n
  <2>1. a + k \in n .. 2 * n - 1
    BY <1>3
  <2>. QED BY <2>1, <1>1, <1>3
<1>4. CASE a + k < n
  <2>1. a + k \in 0 .. n - 1
    BY <1>4
  <2>. QED BY <2>1, <1>2, <1>4
<1>. QED BY <1>3, <1>4

\* The sequence of the tasks that wait, place by place.
LEMMA WaitingIs ==
  IInv /\ RingOnce =>
    /\ queue_size \in 0 .. queue_max_size
    /\ Waiting \in Seq(Tasks) /\ Len(Waiting) = queue_size
    /\ \A k \in 1 .. queue_size : Waiting[k] = At(k - 1)
<1> SUFFICES ASSUME IInv, RingOnce
             PROVE  /\ queue_size \in 0 .. queue_max_size
                    /\ Waiting \in Seq(Tasks) /\ Len(Waiting) = queue_size
                    /\ \A k \in 1 .. queue_size : Waiting[k] = At(k - 1)
  OBVIOUS
<1>1. queue_size \in 0 .. queue_max_size /\ queue_max_size \in Nat \ {0} /\ queue_front \in Nat /\ queue_front < queue_max_size
  <2>1. Cardinality(late) = 0
    BY FS_EmptySet DEF RingOnce
  <2>. QED BY <2>1, PoolAssumption DEF IInv, TypeOK, Ring
<1>2. ASSUME NEW k \in 1 .. queue_size
      PROVE  task_queue[(queue_front + k - 1) % queue_max_size] = At(k - 1) /\ At(k - 1) \in Tasks
  <2>1. k - 1 \in 0 .. queue_max_size - 1 /\ k - 1 \in 0 .. queue_size - 1 /\ queue_front + k - 1 = queue_front + (k - 1)
    BY <1>1
  <2>2. (queue_front + (k - 1)) % queue_max_size = RingSlot(k - 1)
    BY <2>1, <1>1, RingRemainder DEF RingSlot
  <2>3. At(k - 1) \in Tasks
    BY <2>1 DEF RingOnce, IInv, CallsApart
  <2>. QED BY <2>1, <2>2, <2>3 DEF At
<1> DEFINE f == [k \in 1 .. queue_size |-> At(k - 1)]
<1>3. Waiting = f
  BY <1>2 DEF Waiting
<1>4. f \in Seq(Tasks) /\ Len(f) = queue_size /\ \A k \in 1 .. queue_size : f[k] = At(k - 1)
  BY <1>1, <1>2
<1> HIDE DEF f
<1>. QED BY <1>1, <1>3, <1>4

\* A worker that takes a task leaves the rest of the ring, one place nearer,
LEMMA TakeShifts ==
  ASSUME IInv, NEW w \in Slots, Take(w)
  PROVE  /\ queue_size \in 1 .. queue_max_size /\ queue_size' = queue_size - 1 /\ task_queue[queue_front] = At(0)
         /\ \A k \in 0 .. queue_size - 2 : At(k)' = At(k + 1)
<1>1. queue_size \in 1 .. queue_max_size /\ queue_front \in Ring /\ queue_max_size \in Nat
  BY RingBounded, PoolAssumption DEF Take, IInv, TypeOK
<1>2. /\ queue_front' = IF queue_front + 1 = queue_max_size THEN 0 ELSE queue_front + 1
      /\ queue_size' = queue_size - 1 /\ task_queue' = task_queue
  BY <1>1, RingNext DEF Take
<1>3. \A k \in 0 .. queue_size - 2 : RingSlot(k)' = RingSlot(k + 1)
  BY <1>1, <1>2 DEF RingSlot, Ring
<1>4. RingSlot(0) = queue_front
  BY <1>1 DEF RingSlot, Ring
<1>. QED BY <1>1, <1>2, <1>3, <1>4 DEF At

\* and a client that stores one puts it behind the others.
LEMMA StoreExtends ==
  ASSUME IInv, NEW c \in Clients, AddStore(c)
  PROVE  /\ queue_size \in 0 .. queue_max_size - 1 /\ queue_size' = queue_size + 1
         /\ adding[c] \in Tasks
         /\ \A k \in 0 .. queue_size : At(k)' = IF k = queue_size THEN adding[c] ELSE At(k)
<1>1. /\ queue_size \in 0 .. queue_max_size - 1 /\ queue_front \in Ring /\ queue_max_size \in Nat
      /\ queue_rear \in Ring /\ ~shutdown /\ RingFilled /\ adding[c] \in Tasks
      /\ task_queue \in [Ring -> Tasks \cup {NULL, Wild}]
  BY RingBounded, PoolAssumption DEF AddStore, IInv, TypeOK, ClientHasLock
<1>2. /\ queue_size' = queue_size + 1 /\ queue_front' = queue_front
      /\ task_queue' = [task_queue EXCEPT ![queue_rear] = adding[c]]
  BY DEF AddStore, Store
<1>3. queue_rear = RingSlot(queue_size)
  BY <1>1 DEF RingFilled
<1>4. \A k \in 0 .. queue_size :
        RingSlot(k)' = RingSlot(k) /\ RingSlot(k) \in Ring /\ (RingSlot(k) = queue_rear <=> k = queue_size)
  BY <1>1, <1>2, <1>3 DEF RingSlot, Ring
<1>5. \A k \in 0 .. queue_size : task_queue'[RingSlot(k)'] = IF k = queue_size THEN adding[c] ELSE task_queue[RingSlot(k)]
  BY <1>1, <1>2, <1>4
<1>. QED BY <1>1, <1>2, <1>5 DEF At

\* A sequence that is another without its first element.
LEMMA IsTail ==
  ASSUME NEW q \in Seq(Tasks), NEW r \in Seq(Tasks), q # <<>>, Len(r) = Len(q) - 1,
         \A k \in 1 .. Len(r) : r[k] = q[k + 1]
  PROVE  r = Tail(q)
OBVIOUS

\* What runs, worker by worker.
LEMMA HoldersRun == Running = {task[w] : w \in Holders}
BY DEF Running, Holders

\* A step that moves no task.
LEMMA NoTaskMoves ==
  ASSUME RingOnce, UNCHANGED <<task_queue, queue_front, queue_size, task, done, added, unlocked, late>>,
         Holders' = Holders, shutdown' \in BOOLEAN, shutdown' <=> destroy' # "no",
         shutdown' => \A c \in Clients : adding'[c] = NULL
  PROVE  RingOnce' /\ Waiting' = Waiting /\ Running' = Running
<1>1. \A k : At(k)' = At(k)
  BY DEF At, RingSlot
<1>2. RingOnce'
  BY <1>1 DEF RingOnce
<1>. QED BY <1>2, HoldersRun DEF Waiting, Running, Holders

\* The start of a task.
LEMMA TakeStarts ==
  ASSUME IInv, IInv', RingOnce, NEW w \in Slots, Take(w)
  PROVE  RingOnce' /\ Pool!Start
<1>1. /\ queue_size \in 1 .. queue_max_size /\ queue_size' = queue_size - 1 /\ task_queue[queue_front] = At(0)
      /\ \A k \in 0 .. queue_size - 2 : At(k)' = At(k + 1)
  BY TakeShifts
<1>2. /\ ~shutdown /\ task' = [task EXCEPT ![w] = At(0)] /\ pc' = [pc EXCEPT ![w] = "count"]
      /\ pc[w] \notin {"count", "run"}
      /\ UNCHANGED <<shutdown, destroy, adding, unlocked, late, added, done>>
  BY <1>1 DEF Take, Goto, HasLock, clientVars, managerVars
<1>3. pc \in [Slots -> {"none", "lock", "block", "asleep", "woken", "count", "run", "uncount", "exited"}]
      /\ task \in [Slots -> Tasks \cup {NULL}]
  BY DEF IInv, TypeOK
<1>4. /\ Holders' = Holders \cup {w} /\ w \notin Holders /\ w \in Holders' /\ task'[w] = At(0)
      /\ \A v \in Holders : task'[v] = task[v]
  BY <1>2, <1>3 DEF Holders
<1>5. 0 \in 0 .. queue_size - 1 /\ \A k \in 0 .. queue_size' - 1 :
        k \in 0 .. queue_size - 2 /\ k + 1 \in 0 .. queue_size - 1 /\ k + 1 # 0
  BY <1>1
<1>6. \A k \in 0 .. queue_size' - 1 : At(k)' = At(k + 1) /\ At(k + 1) # At(0)
  BY <1>1, <1>5 DEF RingOnce
<1>7. RingOnce'
  <2>1. \A v \in Holders' : task'[v] \in added'
    BY <1>2, <1>4, <1>5 DEF RingOnce
  <2>2. \A u, v \in Holders' : task'[u] = task'[v] => u = v
    BY <1>4, <1>5 DEF RingOnce
  <2>3. \A k \in 0 .. queue_size' - 1 : At(k)' \in added' /\ \A v \in Holders' : task'[v] # At(k)'
    BY <1>2, <1>4, <1>5, <1>6 DEF RingOnce
  <2>4. \A j, k \in 0 .. queue_size' - 1 : At(j)' = At(k)' => j = k
    <3>1. \A j, k \in 0 .. queue_size - 1 : At(j) = At(k) => j = k
      BY DEF RingOnce
    <3>2. \A j, k \in 0 .. queue_size' - 1 : At(j + 1) = At(k + 1) => j + 1 = k + 1
      BY <3>1, <1>5
    <3>. QED BY <3>2, <1>1, <1>6
  <2>. QED BY <1>2, <2>1, <2>2, <2>3, <2>4 DEF RingOnce
<1>8. /\ Waiting \in Seq(Tasks) /\ Len(Waiting) = queue_size
      /\ \A k \in 1 .. queue_size : Waiting[k] = At(k - 1)
  BY WaitingIs
<1>9. /\ Waiting' \in Seq(Tasks) /\ Len(Waiting') = queue_size'
      /\ \A k \in 1 .. queue_size' : Waiting'[k] = At(k - 1)'
  <2>1. (IInv /\ RingOnce =>
           /\ queue_size \in 0 .. queue_max_size
           /\ Waiting \in Seq(Tasks) /\ Len(Waiting) = queue_size
           /\ \A k \in 1 .. queue_size : Waiting[k] = At(k - 1))'
    BY WaitingIs, PTL
  <2>. QED BY <1>7, <2>1
<1>10. Waiting # <<>> /\ Head(Waiting) = At(0) /\ Waiting' = Tail(Waiting)
  <2>1. Waiting # <<>> /\ Head(Waiting) = Waiting[1] /\ Waiting[1] = At(0)
    BY <1>1, <1>8
  <2>2. \A k \in 1 .. Len(Waiting') : Waiting'[k] = Waiting[k + 1]
    <3> SUFFICES ASSUME NEW k \in 1 .. queue_size' PROVE Waiting'[k] = Waiting[k + 1]
      BY <1>9
    <3>1. /\ k - 1 \in 0 .. queue_size' - 1 /\ (k - 1) + 1 = k /\ k + 1 \in 1 .. queue_size
          /\ (k + 1) - 1 = k
      BY <1>1
    <3>2. Waiting'[k] = At(k - 1)' /\ Waiting[k + 1] = At((k + 1) - 1)
      BY <3>1, <1>8, <1>9
    <3>3. At(k - 1)' = At((k - 1) + 1)
      BY <3>1, <1>6
    <3>. QED BY <3>1, <3>2, <3>3
  <2>3. Waiting' = Tail(Waiting)
    BY <2>1, <2>2, <1>1, <1>8, <1>9, IsTail
  <2>. QED BY <2>1, <2>3
<1>11. Running' = Running \cup {At(0)}
  <2>1. \A x : x \in Running' <=> \E v \in Holders' : x = task'[v]
    BY DEF Running, Holders
  <2>2. \A x : x \in Running <=> \E v \in Holders : x = task[v]
    BY DEF Running, Holders
  <2>. QED BY <2>1, <2>2, <1>4
<1>. QED BY <1>2, <1>7, <1>10, <1>11 DEF Pool!Start

\* The end of one.
LEMMA RunFinishes ==
  ASSUME IInv, IInv', RingOnce, NEW w \in Slots, Run(w)
  PROVE  RingOnce' /\ \E t \in Tasks : Pool!Finish(t)
<1>1. /\ pc[w] = "run" /\ task' = [task EXCEPT ![w] = NULL] /\ pc' = [pc EXCEPT ![w] = "uncount"]
      /\ done' = done \cup {task[w]}
      /\ UNCHANGED <<task_queue, queue_front, queue_size, shutdown, destroy, adding, unlocked, late, added>>
  BY DEF Run, Goto, clientVars, managerVars, queueVars
<1>2. pc \in [Slots -> {"none", "lock", "block", "asleep", "woken", "count", "run", "uncount", "exited"}]
      /\ task \in [Slots -> Tasks \cup {NULL}]
  BY DEF IInv, TypeOK
<1>3. w \in Holders /\ Holders' = Holders \ {w} /\ \A v \in Holders' : task'[v] = task[v]
  BY <1>1, <1>2 DEF Holders
<1>4. task[w] \in added /\ task[w] \in Tasks
  BY <1>3 DEF RingOnce, IInv, CallsApart
<1>5. \A k : At(k)' = At(k)
  BY <1>1 DEF At, RingSlot
<1>6. RingOnce'
  BY <1>1, <1>3, <1>4, <1>5 DEF RingOnce
<1>7. Waiting' = Waiting
  BY <1>1 DEF Waiting
<1>8. task[w] \in Running /\ Running' = Running \ {task[w]}
  <2>1. \A x : x \in Running' <=> \E v \in Holders' : x = task'[v]
    BY DEF Running, Holders
  <2>2. \A x : x \in Running <=> \E v \in Holders : x = task[v]
    BY DEF Running, Holders
  <2>3. \A v \in Holders : task[v] = task[w] => v = w
    BY <1>3 DEF RingOnce
  <2>. QED BY <2>1, <2>2, <2>3, <1>3
<1>9. Pool!Finish(task[w])
  BY <1>1, <1>7, <1>8 DEF Pool!Finish
<1>. QED BY <1>4, <1>6, <1>9

\* threadpool_add.
LEMMA StoreAccepts ==
  ASSUME IInv, IInv', RingOnce, NEW c \in Clients, AddStore(c)
  PROVE  RingOnce' /\ \E t \in Tasks : Pool!Accept(t)
<1> DEFINE t == adding[c]
<1>1. /\ queue_size \in 0 .. queue_max_size - 1 /\ queue_size' = queue_size + 1 /\ t \in Tasks
      /\ \A k \in 0 .. queue_size : At(k)' = IF k = queue_size THEN t ELSE At(k)
  BY StoreExtends
<1>2. /\ ~shutdown /\ added' = added \cup {t}
      /\ UNCHANGED <<shutdown, destroy, unlocked, late, pc, task, done>>
  BY DEF AddStore, Store, managerVars, workerVars
<1>3. t \notin added
  BY DEF IInv, CallsApart
<1> HIDE DEF t
<1>4. Holders' = Holders
  BY <1>2 DEF Holders
<1>5. \A k \in 0 .. queue_size' - 1 : k = queue_size \/ k \in 0 .. queue_size - 1
  BY <1>1
<1>6. \A k \in 0 .. queue_size' - 1 : At(k)' = IF k = queue_size THEN t ELSE At(k)
  BY <1>1
<1>7. RingOnce'
  <2>1. \A k \in 0 .. queue_size' - 1 : At(k)' \in added' /\ \A v \in Holders' : task'[v] # At(k)'
    BY <1>2, <1>3, <1>4, <1>5, <1>6 DEF RingOnce
  <2>2. \A j, k \in 0 .. queue_size' - 1 : At(j)' = At(k)' => j = k
    BY <1>3, <1>5, <1>6 DEF RingOnce
  <2>. QED BY <1>2, <1>4, <2>1, <2>2 DEF RingOnce
<1>8. /\ Waiting \in Seq(Tasks) /\ Len(Waiting) = queue_size
      /\ \A k \in 1 .. queue_size : Waiting[k] = At(k - 1)
  BY WaitingIs
<1>9. /\ Waiting' \in Seq(Tasks) /\ Len(Waiting') = queue_size'
      /\ \A k \in 1 .. queue_size' : Waiting'[k] = At(k - 1)'
  <2>1. (IInv /\ RingOnce =>
           /\ queue_size \in 0 .. queue_max_size
           /\ Waiting \in Seq(Tasks) /\ Len(Waiting) = queue_size
           /\ \A k \in 1 .. queue_size : Waiting[k] = At(k - 1))'
    BY WaitingIs, PTL
  <2>. QED BY <1>7, <2>1
<1>10. Waiting' = Append(Waiting, t)
  <2>1. ASSUME NEW k \in 1 .. queue_size' PROVE Waiting'[k] = IF k = Len(Waiting') THEN t ELSE Waiting[k]
    <3>1. k - 1 \in 0 .. queue_size /\ (k - 1 = queue_size <=> k = Len(Waiting')) /\ (k - 1 # queue_size => k \in 1 .. queue_size)
      BY <1>1, <1>9
    <3>2. Waiting'[k] = IF k - 1 = queue_size THEN t ELSE At(k - 1)
      BY <3>1, <1>1, <1>9
    <3>. QED BY <3>1, <3>2, <1>8
  <2>2. Len(Waiting') = Len(Waiting) + 1 /\ Len(Waiting) \in Nat
    BY <1>1, <1>8, <1>9
  <2>3. Waiting'[Len(Waiting')] = t /\ \A k \in 1 .. Len(Waiting) : Waiting'[k] = Waiting[k]
    BY <2>1, <2>2, <1>9
  <2>. QED BY <2>2, <2>3, <1>1, <1>8, <1>9
<1>11. Running' = Running
  BY <1>2 DEF Running
<1>12. t \notin Pool!Known
  <2>1. \A k \in DOMAIN Waiting : Waiting[k] # t
    <3> SUFFICES ASSUME NEW k \in 1 .. queue_size PROVE Waiting[k] # t
      BY <1>8
    <3>1. k - 1 \in 0 .. queue_size - 1
      BY <1>1
    <3>. QED BY <3>1, <1>3, <1>8 DEF RingOnce
  <2>2. t \notin Running
    BY <1>3 DEF RingOnce, Running, Holders
  <2>3. t \notin done
    BY <1>3 DEF RingOnce
  <2>. QED BY <2>1, <2>2, <2>3 DEF Pool!Known
<1>13. Pool!Accept(t)
  BY <1>2, <1>10, <1>11, <1>12 DEF Pool!Accept
<1>. QED BY <1>1, <1>7, <1>13

\* A pool that starts is empty.
LEMMA InitRing == Init => RingOnce /\ Pool!Init
<1> SUFFICES ASSUME Init PROVE RingOnce /\ Pool!Init
  OBVIOUS
<1>1. queue_size = 0 /\ Holders = {}
  BY DEF Init, threadpool_create, Holders
<1>2. RingOnce
  <2>1. shutdown \in BOOLEAN /\ (shutdown <=> destroy # "no") /\ ~shutdown
    BY DEF Init, threadpool_create
  <2>2. unlocked = {} /\ late = {} /\ done \subseteq added
    BY DEF Init, threadpool_create
  <2>3. \A k : k \notin 0 .. queue_size - 1
    BY <1>1
  <2>. QED BY <1>1, <2>1, <2>2, <2>3 DEF RingOnce
<1>3. Waiting = <<>> /\ Running = {}
  BY <1>1 DEF Waiting, Running, Holders
<1>4. Pool!Init
  BY <1>3 DEF Init, threadpool_create, Pool!Init
<1>. QED BY <1>2, <1>4

\* Every step of a pool whose clients are not inside threadpool_add during the
\* destroy is a step of the abstract pool, or moves no task.
LEMMA StepOfTaskPool ==
  ~AddDuringDestroy /\ IInv /\ IInv' /\ RingOnce /\ [Next]_vars => RingOnce' /\ [Pool!Next]_(Pool!poolVars)
<1> SUFFICES ASSUME ~AddDuringDestroy, IInv, IInv', RingOnce, [Next]_vars
             PROVE  RingOnce' /\ [Pool!Next]_(Pool!poolVars)
  OBVIOUS
<1>0. pc \in [Slots -> {"none", "lock", "block", "asleep", "woken", "count", "run", "uncount", "exited"}]
  BY DEF IInv, TypeOK
<1>1. ASSUME UNCHANGED <<task_queue, queue_front, queue_size, task, done, added, unlocked, late, shutdown>>,
             Holders' = Holders, shutdown <=> destroy' # "no",
             shutdown => \A c \in Clients : adding'[c] = NULL
      PROVE  RingOnce' /\ [Pool!Next]_(Pool!poolVars)
  <2>1. shutdown \in BOOLEAN
    BY DEF RingOnce
  <2>2. RingOnce' /\ Waiting' = Waiting /\ Running' = Running
    BY <1>1, <2>1, NoTaskMoves
  <2>. QED BY <1>1, <2>2 DEF Pool!poolVars
<1>2. ASSUME NEW w \in Slots, threadpool_thread(w)
      PROVE  RingOnce' /\ [Pool!Next]_(Pool!poolVars)
  <2>1. CASE Take(w)
    BY <2>1, TakeStarts DEF Pool!Next
  <2>2. CASE Run(w)
    BY <2>2, RunFinishes DEF Pool!Next
  <2>3. CASE DecideToWait(w) \/ Block(w) \/ Wake(w) \/ ExitOnShutdown(w) \/ CountBusy(w) \/ UncountBusy(w)
    <3>1. UNCHANGED <<task_queue, queue_front, queue_size, task, done, added, unlocked, late, shutdown, adding, destroy>>
      BY <2>3 DEF DecideToWait, Block, Wake, ExitOnShutdown, CountBusy, UncountBusy, queueVars, clientVars, managerVars
    <3>2. \E l : pc' = [pc EXCEPT ![w] = l] /\ (l \in {"count", "run"} <=> pc[w] \in {"count", "run"})
      BY <2>3 DEF DecideToWait, Block, Wake, ExitOnShutdown, CountBusy, UncountBusy, Goto, HasLock
    <3>3. Holders' = Holders
      BY <3>2, <1>0 DEF Holders
    <3>. QED BY <3>1, <3>3, <1>1 DEF RingOnce
  <2>. QED BY <1>2, <2>1, <2>2, <2>3 DEF threadpool_thread
<1>3. ASSUME NEW c \in Clients, threadpool_add(c)
      PROVE  RingOnce' /\ [Pool!Next]_(Pool!poolVars)
  <2>1. CASE AddStore(c)
    BY <2>1, StoreAccepts DEF Pool!Next
  <2>2. CASE AddWait(c)
    <3>1. /\ UNCHANGED <<task_queue, queue_front, queue_size, task, done, added, unlocked, late, shutdown, adding, destroy>>
          /\ Holders' = Holders
      BY <2>2 DEF AddWait, queueVars, workerVars, clientVars, managerVars, Holders
    <3>. QED BY <3>1, <1>1 DEF RingOnce
  <2>3. ~AddSeesShutdown(c) /\ ~AddUnlocked(c)
    BY DEF AddSeesShutdown, AddUnlocked, ClientHasLock, RingOnce
  <2>. QED BY <1>3, <2>1, <2>2, <2>3 DEF threadpool_add
<1>4. ASSUME NEW c \in Clients, NEW t \in Tasks, CallAdd(c, t)
      PROVE  RingOnce' /\ [Pool!Next]_(Pool!poolVars)
  <2>1. /\ UNCHANGED <<task_queue, queue_front, queue_size, task, done, added, unlocked, late, shutdown, destroy>>
        /\ Holders' = Holders /\ destroy = "no"
    BY <1>4 DEF CallAdd, queueVars, workerVars, managerVars, Holders
  <2>. QED BY <2>1, <1>1 DEF RingOnce
<1>5. ASSUME adjust_thread
      PROVE  RingOnce' /\ [Pool!Next]_(Pool!poolVars)
  <2>1. /\ UNCHANGED <<task_queue, queue_front, queue_size, task, done, added, unlocked, late, shutdown, adding, destroy>>
    BY <1>5 DEF adjust_thread, AdjustTop, AdjustSnapshot, AdjustBusy, AdjustGrow, AdjustShrink, AdjustSignal,
                queueVars, workerVars, clientVars
  <2>2. \/ pc' = pc
        \/ pc' = [s \in Slots |-> IF s \in NewThreads THEN "lock" ELSE pc[s]]
    BY <1>5 DEF adjust_thread, AdjustTop, AdjustSnapshot, AdjustBusy, AdjustGrow, AdjustShrink, AdjustSignal, workerVars
  <2>3. \A s \in NewThreads : pc[s] \in {"none", "exited"}
    BY DEF NewThreads, FreeSlots
  <2>4. Holders' = Holders
    BY <2>2, <2>3 DEF Holders
  <2>. QED BY <2>1, <2>4, <1>1 DEF RingOnce
<1>6. ASSUME DestroyShutdown
      PROVE  RingOnce' /\ [Pool!Next]_(Pool!poolVars)
  <2>1. /\ UNCHANGED <<task_queue, queue_front, queue_size, task, done, added, unlocked, late, adding>>
        /\ Holders' = Holders /\ ~shutdown /\ shutdown' = TRUE /\ destroy' = "adjust"
        /\ \A c \in Clients : adding[c] = NULL
    BY <1>6 DEF DestroyShutdown, queueVars, workerVars, clientVars, Holders, RingOnce
  <2>2. RingOnce' /\ Waiting' = Waiting /\ Running' = Running
    BY <2>1, NoTaskMoves
  <2>. QED BY <2>1, <2>2 DEF Pool!Next, Pool!Close
<1>7. ASSUME threadpool_destroy \/ (\E w \in Slots : SpuriousWakeup(w)) \/ UNCHANGED vars
      PROVE  RingOnce' /\ [Pool!Next]_(Pool!poolVars)
  <2>1. /\ UNCHANGED <<task_queue, queue_front, queue_size, task, done, added, unlocked, late, shutdown, adding, pc>>
        /\ destroy' = destroy \/ (destroy # "no" /\ destroy' # "no")
    BY <1>7 DEF threadpool_destroy, DestroyJoinAdjust, DestroyBroadcast, DestroyJoin, threadpool_free,
                SpuriousWakeup, vars, queueVars, workerVars, clientVars, managerVars
  <2>2. Holders' = Holders
    BY <2>1 DEF Holders
  <2>. QED BY <2>1, <2>2, <1>1 DEF RingOnce
<1>. QED BY <1>2, <1>3, <1>4, <1>5, <1>6, <1>7 DEF Next

\* While nobody is inside threadpool_add during the destroy, the ring is a
\* queue: the pool starts its tasks in the order they were added, each once,
\* whatever the sizes of the ring and the pool and whatever adjust_thread does.
THEOREM RingIsAQueue == ~AddDuringDestroy => (Spec => ImplementsPool)
<1> SUFFICES ASSUME ~AddDuringDestroy PROVE Spec => ImplementsPool
  OBVIOUS
<1>1. Init => IInv /\ RingOnce /\ Pool!Init
  BY InitIInv, InitRing
<1>2. IInv /\ RingOnce /\ [Next]_vars => IInv' /\ RingOnce' /\ [Pool!Next]_(Pool!poolVars)
  BY NextType, NextCounters, NextSleep, NextRing, NextCalls, StepOfTaskPool DEF IInv
<1>. QED BY <1>1, <1>2, PTL DEF Spec, ImplementsPool, Pool!Spec

=============================================================================
