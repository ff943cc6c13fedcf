-------------------------- MODULE MultiMultiProofs --------------------------
(***************************************************************************)
(* produce_consume/04 for every buffer size, number of items and number of *)
(* threads.                                                                *)
(***************************************************************************)
EXTENDS MultiProducerMultiConsumer, ItemRepositoryProofs

\* A counter mutex is held exactly by the thread between its lock and unlock.
HoldersInside ==
  /\ \A p \in Producers : pc[p] \in {"item", "unlock"} <=> produced_item_counter_mtx = p
  /\ \A c \in Consumers : pc[c] \in {"item", "unlock"} <=> consumed_item_counter_mtx = c

\* Only a thread inside ProduceItem or ConsumeItem is in a wait set.
SleepersInside ==
  /\ \A p \in repo_not_full : pc[p] = "item"
  /\ \A c \in repo_not_empty : pc[c] = "item"

\* consumed_item_counter is one behind between ConsumeItem and its increment.
Counted ==
  Len(consumed) = consumed_item_counter
                    + (IF \E c \in Consumers : pc[c] = "unlock" THEN 1 ELSE 0)

IInv ==
  /\ TypeOK
  /\ HoldersInside
  /\ SleepersInside
  /\ NobodySleepsInVain
  /\ HoldsItems(Produced)
  /\ Counted

\* Type correctness of 04 gives the ring the types its lemmas assume.
LEMMA TypeOKRepo == TypeOK => RepoType
<1>1. 0 .. kItemsToProduce \subseteq Nat
  BY TaskAssumption
<1>2. ASSUME TypeOK PROVE item_buffer \in [Slots -> Nat]
  BY <1>1, <1>2 DEF TypeOK
<1>3. ASSUME TypeOK PROVE consumed \in Seq(Nat)
  BY <1>1, <1>3, SeqMonotonic, Zenon DEF TypeOK
<1>. QED BY <1>2, <1>3 DEF TypeOK, RepoType

\* The number of items stored is a natural number, also while a claim is open.
LEMMA ProducedNat ==
  ASSUME IInv
  PROVE  Produced \in Nat /\ Len(consumed) \in Nat /\ Stored \in Nat
<1>1. RepoType
  BY TypeOKRepo DEF IInv
<1>2. Len(consumed) \in Nat
  BY <1>1 DEF RepoType
<1>3. Stored \in Nat
  BY <1>1, StoredBounds, SizeAssumption
<1>. QED BY <1>2, <1>3 DEF IInv, HoldsItems

\* InitItemRepository and the threads main starts establish the invariant.
LEMMA InitIInv == Init => IInv
<1>. SUFFICES ASSUME Init PROVE IInv
  OBVIOUS
<1>1. TypeOK
  BY SizeAssumption, TaskAssumption DEF Init, InitItemRepository, TypeOK, Slots, Threads
<1>2. HoldersInside
  BY TaskAssumption DEF Init, HoldersInside, Threads
<1>3. SleepersInside /\ NobodySleepsInVain
  BY DEF Init, InitItemRepository, SleepersInside, NobodySleepsInVain
<1>4. Produced = 0
  BY DEF Init, Produced, Threads
<1>5. Len(consumed) = 0 /\ Stored = 0
  BY DEF Init, InitItemRepository, Stored
<1>6. HoldsItems(Produced)
  BY <1>4, <1>5, SizeAssumption DEF HoldsItems, Slots
<1>7. Counted
  BY <1>5 DEF Init, Counted, Threads
<1>. QED BY <1>1, <1>2, <1>3, <1>6, <1>7 DEF IInv

\* The wait sets and what is stored are untouched by a step of the tasks that
\* is not a call into the repository.
LEMMA RepoUnchanged ==
  ASSUME UNCHANGED repoVars, NEW n \in Nat, HoldsItems(n), NobodySleepsInVain
  PROVE  HoldsItems(n)' /\ NobodySleepsInVain'
<1>1. Stored' = Stored /\ \A k \in Slots : SlotAfter(k)' = SlotAfter(k)
  BY DEF repoVars, Stored, SlotAfter
<1>2. (Full <=> Full') /\ (Empty <=> Empty')
  BY DEF repoVars, Full, Empty
<1>. QED BY <1>1, <1>2 DEF repoVars, HoldsItems, NobodySleepsInVain

\* Every step of a producer, of a consumer, of a wait that returns and of the
\* joins of main preserves the invariant.
LEMMA NextIInv == IInv /\ [Next]_vars => IInv'
<1>. SUFFICES ASSUME IInv, [Next]_vars PROVE IInv'
  OBVIOUS
<1>. USE DEF Threads
<1>1. PICK n \in Nat : n = Produced
  BY ProducedNat
<1>2. /\ TypeOK /\ HoldersInside /\ SleepersInside
      /\ NobodySleepsInVain /\ HoldsItems(n) /\ Counted
  BY <1>1 DEF IInv
<1>3. RepoType /\ Len(consumed) \in Nat /\ Stored \in Nat
  BY <1>2, TypeOKRepo, ProducedNat
<1>4. Len(consumed) + Stored = n /\ n <= kItemsToProduce
  BY <1>1, <1>2, TaskAssumption DEF HoldsItems, Produced, TypeOK
<1>5. ASSUME NEW p \in Producers, ClaimItem(p) PROVE IInv'
  <2>1. TypeOK'
    BY <1>2, <1>5, TaskAssumption DEF TypeOK, ClaimItem, repoVars
  <2>2. HoldersInside'
    BY <1>2, <1>5, TaskAssumption DEF HoldersInside, ClaimItem, TypeOK
  <2>3. SleepersInside'
    BY <1>2, <1>5, TaskAssumption DEF SleepersInside, ClaimItem, repoVars, TypeOK
  <2>4. HoldsItems(n)' /\ NobodySleepsInVain'
    BY <1>2, <1>5, RepoUnchanged DEF ClaimItem
  <2>5. Produced' = n
    <3>1. Produced = produced_item_counter
      BY <1>2, <1>5, TaskAssumption DEF Produced, HoldersInside, ClaimItem
    <3>2. pc'[p] = "item" /\ produced_item_counter' = produced_item_counter + 1
      BY <1>2, <1>5 DEF ClaimItem, TypeOK
    <3>. QED BY <3>1, <3>2, <1>1, <1>2 DEF Produced, TypeOK
  <2>6. Counted'
    BY <1>2, <1>5, TaskAssumption DEF Counted, ClaimItem, repoVars, TypeOK
  <2>. QED BY <2>1, <2>2, <2>3, <2>4, <2>5, <2>6 DEF IInv
<1>6. ASSUME NEW p \in Producers, CallProduceItem(p) PROVE IInv'
  <2>1. produced_item_counter_mtx = p /\ n = produced_item_counter - 1
    BY <1>1, <1>2, <1>6 DEF CallProduceItem, HoldersInside, Produced
  <2>2. CASE ProduceWait(p) /\ UNCHANGED pc
    <3>1. TypeOK'
      BY <1>2, <1>6, <2>2 DEF TypeOK, CallProduceItem, ProduceWait
    <3>2. HoldersInside'
      BY <1>2, <1>6, <2>2 DEF HoldersInside, CallProduceItem
    <3>3. SleepersInside'
      BY <1>2, <1>6, <2>2 DEF SleepersInside, CallProduceItem, ProduceWait
    <3>4. NobodySleepsInVain'
      BY <1>2, <2>2 DEF NobodySleepsInVain, ProduceWait, Full, Empty
    <3>5. HoldsItems(n)'
      BY <1>2, <2>2 DEF HoldsItems, ProduceWait, Stored, SlotAfter
    <3>6. Produced' = n
      BY <1>1, <1>6, <2>2 DEF Produced, CallProduceItem
    <3>7. Counted'
      BY <1>2, <1>6, <2>2 DEF Counted, CallProduceItem, ProduceWait
    <3>. QED BY <3>1, <3>2, <3>3, <3>4, <3>5, <3>6, <3>7 DEF IInv
  <2>3. CASE ProduceItem(p, produced_item_counter) /\ pc' = [pc EXCEPT ![p] = "unlock"]
    <3>1. ProduceItem(p, n + 1)
      BY <2>1, <2>3, <1>2 DEF TypeOK
    <3>2. RepoType' /\ HoldsItems(n + 1)' /\ Stored' = Stored + 1
      BY <3>1, <1>2, <1>3, ProduceItemHolds
    <3>3. TypeOK'
      <4>1. produced_item_counter \in 0 .. kItemsToProduce
        BY <1>2 DEF TypeOK
      <4>2. item_buffer' \in [Slots -> 0 .. kItemsToProduce]
        BY <1>2, <2>3, <4>1 DEF TypeOK, ProduceItem
      <4>. QED BY <1>2, <1>6, <2>3, <3>2, <4>2 DEF TypeOK, CallProduceItem, ProduceItem, RepoType
    <3>4. HoldersInside'
      BY <1>2, <1>6, <2>3, TaskAssumption DEF HoldersInside, CallProduceItem, TypeOK
    <3>5. SleepersInside'
      BY <1>2, <2>3, TaskAssumption DEF SleepersInside, ProduceItem, TypeOK
    <3>6. NobodySleepsInVain'
      <4>1. repo_not_full = {}
        BY <1>2, <2>3 DEF NobodySleepsInVain, ProduceItem
      <4>. QED BY <4>1, <2>3 DEF NobodySleepsInVain, ProduceItem
    <3>7. Produced' = n + 1
      <4>1. \A q \in Producers : pc'[q] # "item"
        BY <1>2, <1>6, <2>1, <2>3 DEF HoldersInside, TypeOK
      <4>2. produced_item_counter' = n + 1
        BY <1>2, <1>6, <2>1 DEF CallProduceItem, TypeOK
      <4>. QED BY <4>1, <4>2 DEF Produced
    <3>8. Counted'
      BY <1>2, <1>6, <2>3, TaskAssumption DEF Counted, CallProduceItem, ProduceItem, TypeOK
    <3>. QED BY <3>2, <3>3, <3>4, <3>5, <3>6, <3>7, <3>8 DEF IInv
  <2>. QED BY <1>6, <2>2, <2>3 DEF CallProduceItem
<1>7. ASSUME NEW p \in Producers, ProducerUnlock(p) \/ ProducerExit(p) PROVE IInv'
  <2>1. UNCHANGED <<repoVars, produced_item_counter, consumed_item_counter,
                    consumed_item_counter_mtx>>
    BY <1>7 DEF ProducerUnlock, ProducerExit
  <2>2. /\ pc[p] \in {"loop", "unlock"}
        /\ pc' \in {[pc EXCEPT ![p] = "loop"], [pc EXCEPT ![p] = "exit"]}
    BY <1>7 DEF ProducerUnlock, ProducerExit
  <2>3. TypeOK'
    BY <1>2, <1>7, <2>1 DEF TypeOK, ProducerUnlock, ProducerExit, repoVars
  <2>4. HoldersInside'
    BY <1>2, <1>7, TaskAssumption DEF HoldersInside, ProducerUnlock, ProducerExit, TypeOK
  <2>5. SleepersInside'
    BY <1>2, <2>1, <2>2, TaskAssumption DEF SleepersInside, TypeOK, repoVars
  <2>6. HoldsItems(n)' /\ NobodySleepsInVain'
    BY <1>2, <2>1, RepoUnchanged
  <2>7. \A q \in Producers : pc'[q] = "item" <=> pc[q] = "item"
    BY <1>2, <2>2 DEF TypeOK
  <2>8. Produced' = n
    BY <1>1, <2>1, <2>7 DEF Produced
  <2>9. Counted'
    BY <1>2, <2>1, <2>2, TaskAssumption DEF Counted, TypeOK, repoVars
  <2>. QED BY <2>3, <2>4, <2>5, <2>6, <2>8, <2>9 DEF IInv
<1>8. ASSUME NEW c \in Consumers, ClaimTurn(c) \/ ConsumerExit(c) PROVE IInv'
  <2>1. UNCHANGED <<repoVars, produced_item_counter, consumed_item_counter,
                    produced_item_counter_mtx>>
    BY <1>8 DEF ClaimTurn, ConsumerExit
  <2>2. /\ pc[c] = "loop"
        /\ pc' \in {[pc EXCEPT ![c] = "item"], [pc EXCEPT ![c] = "exit"]}
    BY <1>8 DEF ClaimTurn, ConsumerExit
  <2>3. TypeOK'
    BY <1>2, <1>8, <2>1 DEF TypeOK, ClaimTurn, ConsumerExit, repoVars
  <2>4. HoldersInside'
    BY <1>2, <1>8, TaskAssumption DEF HoldersInside, ClaimTurn, ConsumerExit, TypeOK
  <2>5. SleepersInside'
    BY <1>2, <2>1, <2>2, TaskAssumption DEF SleepersInside, TypeOK, repoVars
  <2>6. HoldsItems(n)' /\ NobodySleepsInVain'
    BY <1>2, <2>1, RepoUnchanged
  <2>7. Produced' = n
    BY <1>1, <1>2, <2>1, <2>2, TaskAssumption DEF Produced, TypeOK
  <2>8. \A d \in Consumers : pc'[d] = "unlock" <=> pc[d] = "unlock"
    BY <1>2, <2>2 DEF TypeOK
  <2>9. Counted'
    BY <1>2, <2>1, <2>8 DEF Counted, repoVars
  <2>. QED BY <2>3, <2>4, <2>5, <2>6, <2>7, <2>9 DEF IInv
<1>9. ASSUME NEW c \in Consumers, CallConsumeItem(c) PROVE IInv'
  <2>1. consumed_item_counter_mtx = c
    BY <1>2, <1>9 DEF CallConsumeItem, HoldersInside
  <2>2. CASE ConsumeWait(c) /\ UNCHANGED pc
    <3>1. TypeOK'
      BY <1>2, <1>9, <2>2 DEF TypeOK, CallConsumeItem, ConsumeWait
    <3>2. HoldersInside'
      BY <1>2, <1>9, <2>2 DEF HoldersInside, CallConsumeItem
    <3>3. SleepersInside'
      BY <1>2, <1>9, <2>2 DEF SleepersInside, CallConsumeItem, ConsumeWait
    <3>4. NobodySleepsInVain'
      BY <1>2, <2>2 DEF NobodySleepsInVain, ConsumeWait, Full, Empty
    <3>5. HoldsItems(n)'
      BY <1>2, <2>2 DEF HoldsItems, ConsumeWait, Stored, SlotAfter
    <3>6. Produced' = n
      BY <1>1, <1>9, <2>2 DEF Produced, CallConsumeItem
    <3>7. Counted'
      BY <1>2, <1>9, <2>2 DEF Counted, CallConsumeItem, ConsumeWait
    <3>. QED BY <3>1, <3>2, <3>3, <3>4, <3>5, <3>6, <3>7 DEF IInv
  <2>3. CASE ConsumeItem(c) /\ pc' = [pc EXCEPT ![c] = "unlock"]
    <3>1. /\ RepoType' /\ HoldsItems(n)'
          /\ Stored' = Stored - 1
          /\ Len(consumed') = Len(consumed) + 1
      BY <1>2, <1>3, <2>3, ConsumeItemHolds
    <3>2. TypeOK'
      <4>1. consumed' \in Seq(0 .. kItemsToProduce)
        BY <1>2, <2>3, AppendProperties DEF TypeOK, ConsumeItem
      <4>. QED BY <1>2, <1>9, <2>3, <3>1, <4>1 DEF TypeOK, CallConsumeItem, ConsumeItem, RepoType
    <3>3. HoldersInside'
      BY <1>2, <1>9, <2>3, TaskAssumption DEF HoldersInside, CallConsumeItem, TypeOK
    <3>4. SleepersInside'
      BY <1>2, <2>3, TaskAssumption DEF SleepersInside, ConsumeItem, TypeOK
    <3>5. NobodySleepsInVain'
      <4>1. repo_not_empty = {}
        BY <1>2, <2>3 DEF NobodySleepsInVain, ConsumeItem
      <4>. QED BY <4>1, <2>3 DEF NobodySleepsInVain, ConsumeItem
    <3>6. Produced' = n
      BY <1>1, <1>2, <1>9, <2>3, TaskAssumption DEF Produced, CallConsumeItem, TypeOK
    <3>7. Counted'
      <4>1. \A d \in Consumers : pc[d] # "unlock"
        BY <1>2, <1>9, <2>1 DEF HoldersInside, CallConsumeItem
      <4>2. pc'[c] = "unlock"
        BY <1>2, <2>3 DEF TypeOK
      <4>. QED BY <1>2, <1>9, <3>1, <4>1, <4>2 DEF Counted, CallConsumeItem, TypeOK
    <3>. QED BY <3>1, <3>2, <3>3, <3>4, <3>5, <3>6, <3>7 DEF IInv
  <2>. QED BY <1>9, <2>2, <2>3 DEF CallConsumeItem
<1>10. ASSUME NEW c \in Consumers, ConsumerUnlock(c) PROVE IInv'
  <2>1. consumed_item_counter + 1 = Len(consumed)
    BY <1>2, <1>10 DEF Counted, ConsumerUnlock, TypeOK
  <2>2. consumed_item_counter + 1 <= kItemsToProduce
    BY <2>1, <1>3, <1>4, TaskAssumption
  <2>3. TypeOK'
    BY <1>2, <1>10, <2>2, TaskAssumption DEF TypeOK, ConsumerUnlock, repoVars
  <2>4. HoldersInside'
    BY <1>2, <1>10, TaskAssumption DEF HoldersInside, ConsumerUnlock, TypeOK
  <2>5. SleepersInside'
    BY <1>2, <1>10, TaskAssumption DEF SleepersInside, ConsumerUnlock, TypeOK, repoVars
  <2>6. HoldsItems(n)' /\ NobodySleepsInVain'
    BY <1>2, <1>10, RepoUnchanged DEF ConsumerUnlock
  <2>7. Produced' = n
    BY <1>1, <1>2, <1>10, TaskAssumption DEF Produced, ConsumerUnlock, TypeOK
  <2>8. \A d \in Consumers : pc'[d] # "unlock"
    BY <1>2, <1>10 DEF HoldersInside, ConsumerUnlock, TypeOK
  <2>9. Counted'
    <3>1. consumed' = consumed /\ consumed_item_counter' = consumed_item_counter + 1
      BY <1>10 DEF ConsumerUnlock, repoVars
    <3>. QED BY <2>1, <2>8, <3>1, <1>2 DEF Counted, TypeOK
  <2>. QED BY <2>3, <2>4, <2>5, <2>6, <2>7, <2>9 DEF IInv
<1>11. ASSUME NEW t \in Threads, Wakeup(t) PROVE IInv'
  <2>1. UNCHANGED taskVars /\ SpuriousWakeup(t)
    BY <1>11 DEF Wakeup
  <2>2. TypeOK'
    BY <1>2, <2>1 DEF TypeOK, taskVars, SpuriousWakeup
  <2>3. HoldersInside' /\ SleepersInside'
    BY <1>2, <2>1 DEF HoldersInside, SleepersInside, taskVars, SpuriousWakeup
  <2>4. NobodySleepsInVain'
    BY <1>2, <2>1 DEF NobodySleepsInVain, SpuriousWakeup, Full, Empty
  <2>5. HoldsItems(n)'
    BY <1>2, <2>1 DEF HoldsItems, SpuriousWakeup, Stored, SlotAfter
  <2>6. Produced' = n
    BY <1>1, <2>1 DEF Produced, taskVars
  <2>7. Counted'
    BY <1>2, <2>1 DEF Counted, taskVars, SpuriousWakeup
  <2>. QED BY <2>2, <2>3, <2>4, <2>5, <2>6, <2>7 DEF IInv
<1>12. ASSUME UNCHANGED vars PROVE IInv'
  <2>1. UNCHANGED repoVars /\ UNCHANGED taskVars
    BY <1>12 DEF vars
  <2>2. HoldsItems(n)' /\ NobodySleepsInVain'
    BY <1>2, <2>1, RepoUnchanged
  <2>3. Produced' = n
    BY <1>1, <2>1 DEF Produced, taskVars
  <2>. QED BY <1>2, <2>1, <2>2, <2>3
       DEF IInv, TypeOK, HoldersInside, SleepersInside, Counted, repoVars, taskVars
<1>. QED
  BY <1>5, <1>6, <1>7, <1>8, <1>9, <1>10, <1>11, <1>12
  DEF Next, ProducerTask, ConsumerTask, Joined

\* The inductive invariant holds in every state of 04: the ring holds exactly
\* the items between the two counters, corrected by the claims in flight.
THEOREM InductiveInvariant == Spec => []IInv
BY InitIInv, NextIInv, PTL DEF Spec

\* Type correctness: in particular the two positions never leave item_buffer
\* and no counter exceeds kItemsToProduce.
THEOREM TypeCorrect == Spec => []TypeOK
<1>1. IInv => TypeOK
  BY DEF IInv
<1>. QED BY <1>1, InductiveInvariant, PTL

\* For every buffer size, number of items and set of threads: the consumers
\* read 1, 2, 3, ... without gap or repetition and the ring holds the rest.
THEOREM ItemsExactlyOnceInOrder == Spec => []ExactlyOnceInOrder
<1>1. ASSUME IInv PROVE ExactlyOnceInOrder
  <2>1. RepoType /\ Produced \in Nat /\ HoldsItems(Produced)
    BY <1>1, TypeOKRepo, ProducedNat DEF IInv
  <2>. QED BY <2>1, HoldsItemsSequence DEF ExactlyOnceInOrder
<1>. QED BY <1>1, InductiveInvariant, PTL

\* The notify_all of each side leaves nobody asleep who could go on.
THEOREM NoVainSleep == Spec => []NobodySleepsInVain
<1>1. IInv => NobodySleepsInVain
  BY DEF IInv
<1>. QED BY <1>1, InductiveInvariant, PTL

\* At most one thread of each side sleeps, and it holds its counter's mutex.
THEOREM HolderSleeps == Spec => []OnlyTheHolderSleeps
<1>1. IInv => OnlyTheHolderSleeps
  BY DEF IInv, TypeOK, HoldersInside, SleepersInside, OnlyTheHolderSleeps
<1>. QED BY <1>1, InductiveInvariant, PTL

\* The two counters are never more than the size of the buffer plus 1 apart.
THEOREM CountersClose == Spec => []CountersStayClose
<1>1. ASSUME IInv PROVE CountersStayClose
  <2>1. /\ consumed_item_counter \in Nat /\ produced_item_counter \in Nat
        /\ Len(consumed) \in {consumed_item_counter, consumed_item_counter + 1}
    BY <1>1 DEF IInv, TypeOK, Counted
  <2>2. Produced \in {produced_item_counter, produced_item_counter - 1}
    BY DEF Produced
  <2>3. Stored \in 0 .. kItemRepositorySize - 1
    BY <1>1, TypeOKRepo, StoredBounds DEF IInv
  <2>4. Len(consumed) + Stored = Produced
    BY <1>1 DEF IInv, HoldsItems
  <2>. QED BY <2>1, <2>2, <2>3, <2>4, SizeAssumption DEF CountersStayClose
<1>. QED BY <1>1, InductiveInvariant, PTL

-----------------------------------------------------------------------------

\* The steps of the FIFO, without its progress.
FifoSteps == Fifo!Init /\ [][Fifo!Next]_(Fifo!fifoVars)

\* Each step of 04 moves one item of the FIFO or none.
LEMMA StepIsFifoStep == IInv /\ [Next]_vars => [Fifo!Next]_(Fifo!fifoVars)
<1> SUFFICES ASSUME IInv, [Next]_vars PROVE [Fifo!Next]_(Fifo!fifoVars)
  OBVIOUS
<1>1. PICK n \in Nat : n = Produced
  BY ProducedNat
<1>2. RepoType /\ HoldsItems(n) /\ TypeOK /\ HoldersInside
  BY <1>1, TypeOKRepo DEF IInv
<1>3. ASSUME NEW p \in Producers, pc[p] = "item", ProduceItem(p, produced_item_counter)
      PROVE  Fifo!Put
  <2>1. produced_item_counter \in 0 .. kItemsToProduce /\ n = produced_item_counter - 1
    BY <1>1, <1>2, <1>3 DEF Produced, TypeOK
  <2>2. ProduceItem(p, n + 1) /\ n + 1 <= kItemsToProduce
    BY <2>1, <1>3, TaskAssumption
  <2>. QED BY <2>2, <1>2, ProduceIsPut DEF Fifo!Put
<1>4. ASSUME NEW c \in Consumers, ConsumeItem(c) PROVE Fifo!Get
  BY <1>2, <1>4, ConsumeIsGet DEF Fifo!Get
<1>5. ASSUME UNCHANGED <<item_buffer, read_position, write_position, consumed>>
      PROVE  UNCHANGED Fifo!fifoVars
  BY <1>5, WaitMovesNothing DEF Fifo!fifoVars
<1>6. ASSUME NEW p \in Producers, ProducerTask(p) PROVE [Fifo!Next]_(Fifo!fifoVars)
  BY <1>3, <1>5, <1>6
  DEF ProducerTask, ClaimItem, CallProduceItem, ProducerUnlock, ProducerExit, ProduceWait, repoVars, Fifo!Next
<1>7. ASSUME NEW c \in Consumers, ConsumerTask(c) PROVE [Fifo!Next]_(Fifo!fifoVars)
  BY <1>4, <1>5, <1>7
  DEF ConsumerTask, ClaimTurn, CallConsumeItem, ConsumerUnlock, ConsumerExit, ConsumeWait, repoVars, Fifo!Next
<1>8. ASSUME (\E t \in Threads : Wakeup(t)) \/ UNCHANGED vars PROVE UNCHANGED Fifo!fifoVars
  BY <1>5, <1>8 DEF Wakeup, SpuriousWakeup, vars, repoVars
<1>. QED BY <1>6, <1>7, <1>8 DEF Next, Joined

\* 04 implements, for every size of the buffer, a FIFO of one item less: what
\* ProduceItem stores is handed out by ConsumeItem once and in the order in
\* which it was stored.  That the FIFO also moves on is left to model checking.
THEOREM ImplementsFifoSteps == Spec => FifoSteps
<1>1. Init => Fifo!Init
  <2>1. ASSUME Init PROVE Stored = 0 /\ consumed = <<>>
    BY <2>1 DEF Init, InitItemRepository, Stored
  <2>2. ASSUME Stored = 0 PROVE Pending = <<>>
    BY <2>2 DEF Pending
  <2>. QED BY <2>1, <2>2 DEF Fifo!Init
<1>. QED BY <1>1, StepIsFifoStep, InductiveInvariant, PTL DEF Spec, FifoSteps

=============================================================================
