--------------------- MODULE MultiProducerMultiConsumer ---------------------
(***************************************************************************)
(* produce_consume/04: several producers share produced_item_counter and   *)
(* several consumers share consumed_item_counter, each counter under a     *)
(* mutex of its own that the thread keeps while it is inside ProduceItem   *)
(* or ConsumeItem, the time it sleeps on a condition variable included.    *)
(***************************************************************************)
EXTENDS ItemRepository

CONSTANTS Producers, Consumers, kItemsToProduce

Threads == Producers \cup Consumers

\* A mutex that nobody holds.
NoThread == "none"

ASSUME TaskAssumption ==
  /\ kItemsToProduce \in Nat
  /\ Producers \cap Consumers = {}
  /\ NoThread \notin Threads

VARIABLES
  produced_item_counter,
  consumed_item_counter,
  produced_item_counter_mtx,  \* the thread that holds it, or NoThread
  consumed_item_counter_mtx,
  pc   \* "loop": before the lock; "item": inside ProduceItem or ConsumeItem;
       \* "unlock": back from it, counter mutex still held; "exit"

taskVars == <<produced_item_counter, consumed_item_counter,
              produced_item_counter_mtx, consumed_item_counter_mtx, pc>>

vars == <<repoVars, taskVars>>

Init ==
  /\ InitItemRepository
  /\ produced_item_counter = 0
  /\ consumed_item_counter = 0
  /\ produced_item_counter_mtx = NoThread
  /\ consumed_item_counter_mtx = NoThread
  /\ pc = [t \in Threads |-> "loop"]

-----------------------------------------------------------------------------

\* ProducerTask: lock, the counter is below the limit, take the next number.
ClaimItem(p) ==
  /\ pc[p] = "loop"
  /\ produced_item_counter_mtx = NoThread
  /\ produced_item_counter < kItemsToProduce
  /\ produced_item_counter_mtx' = p
  /\ produced_item_counter' = produced_item_counter + 1
  /\ pc' = [pc EXCEPT ![p] = "item"]
  /\ UNCHANGED <<repoVars, consumed_item_counter, consumed_item_counter_mtx>>

\* ProducerTask: lock, the limit is reached, unlock and leave the loop.
ProducerExit(p) ==
  /\ pc[p] = "loop"
  /\ produced_item_counter_mtx = NoThread
  /\ produced_item_counter >= kItemsToProduce
  /\ pc' = [pc EXCEPT ![p] = "exit"]
  /\ UNCHANGED <<repoVars, produced_item_counter, consumed_item_counter,
                 produced_item_counter_mtx, consumed_item_counter_mtx>>

\* ProducerTask calls ProduceItem with the number it has claimed.
CallProduceItem(p) ==
  /\ pc[p] = "item"
  /\ \/ ProduceWait(p) /\ UNCHANGED pc
     \/ /\ ProduceItem(p, produced_item_counter)
        /\ pc' = [pc EXCEPT ![p] = "unlock"]
  /\ UNCHANGED <<produced_item_counter, consumed_item_counter,
                 produced_item_counter_mtx, consumed_item_counter_mtx>>

ProducerUnlock(p) ==
  /\ pc[p] = "unlock"
  /\ produced_item_counter_mtx' = NoThread
  /\ pc' = [pc EXCEPT ![p] = "loop"]
  /\ UNCHANGED <<repoVars, produced_item_counter, consumed_item_counter,
                 consumed_item_counter_mtx>>

ProducerTask(p) ==
  ClaimItem(p) \/ CallProduceItem(p) \/ ProducerUnlock(p) \/ ProducerExit(p)

-----------------------------------------------------------------------------

\* Mutant of ClaimTurn: the test is made without the counter's mutex.
ClaimTurnUnlocked(c) ==
  /\ pc[c] = "loop"
  /\ consumed_item_counter < kItemsToProduce
  /\ pc' = [pc EXCEPT ![c] = "item"]
  /\ UNCHANGED <<repoVars, produced_item_counter, consumed_item_counter,
                 produced_item_counter_mtx, consumed_item_counter_mtx>>

\* ConsumerTask: lock, fewer than kItemsToProduce were consumed.
ClaimTurn(c) ==
  /\ pc[c] = "loop"
  /\ consumed_item_counter_mtx = NoThread
  /\ consumed_item_counter < kItemsToProduce
  /\ consumed_item_counter_mtx' = c
  /\ pc' = [pc EXCEPT ![c] = "item"]
  /\ UNCHANGED <<repoVars, produced_item_counter, consumed_item_counter,
                 produced_item_counter_mtx>>

\* ConsumerTask: lock, everything was consumed, unlock and leave the loop.
ConsumerExit(c) ==
  /\ pc[c] = "loop"
  /\ consumed_item_counter_mtx = NoThread
  /\ consumed_item_counter >= kItemsToProduce
  /\ pc' = [pc EXCEPT ![c] = "exit"]
  /\ UNCHANGED <<repoVars, produced_item_counter, consumed_item_counter,
                 produced_item_counter_mtx, consumed_item_counter_mtx>>

CallConsumeItem(c) ==
  /\ pc[c] = "item"
  /\ \/ ConsumeWait(c) /\ UNCHANGED pc
     \/ ConsumeItem(c) /\ pc' = [pc EXCEPT ![c] = "unlock"]
  /\ UNCHANGED <<produced_item_counter, consumed_item_counter,
                 produced_item_counter_mtx, consumed_item_counter_mtx>>

\* Back from ConsumeItem: ++consumed_item_counter, then unlock.
ConsumerUnlock(c) ==
  /\ pc[c] = "unlock"
  /\ consumed_item_counter' = consumed_item_counter + 1
  /\ consumed_item_counter_mtx' = NoThread
  /\ pc' = [pc EXCEPT ![c] = "loop"]
  /\ UNCHANGED <<repoVars, produced_item_counter, produced_item_counter_mtx>>

ConsumerTask(c) ==
  ClaimTurn(c) \/ CallConsumeItem(c) \/ ConsumerUnlock(c) \/ ConsumerExit(c)

-----------------------------------------------------------------------------

Wakeup(t) == SpuriousWakeup(t) /\ UNCHANGED taskVars

\* main's joins have all returned.
Joined == (\A t \in Threads : pc[t] = "exit") /\ UNCHANGED vars

Next ==
  \/ \E p \in Producers : ProducerTask(p)
  \/ \E c \in Consumers : ConsumerTask(c)
  \/ \E t \in Threads : Wakeup(t)
  \/ Joined

Spec == Init /\ [][Next]_vars

\* The scheduler runs every thread that can go on.  No fairness between the
\* threads that compete for a mutex is assumed, and none of the wakeups that
\* come without a notification is relied on.
FairSpec ==
  /\ Spec
  /\ \A p \in Producers : WF_vars(ProducerTask(p))
  /\ \A c \in Consumers : WF_vars(ConsumerTask(c))

-----------------------------------------------------------------------------

\* The positions stay inside item_buffer and the counters inside their ranges.
TypeOK ==
  /\ item_buffer \in [Slots -> 0 .. kItemsToProduce]
  /\ read_position \in Slots
  /\ write_position \in Slots
  /\ repo_not_full \subseteq Producers
  /\ repo_not_empty \subseteq Consumers
  /\ consumed \in Seq(0 .. kItemsToProduce)
  /\ produced_item_counter \in 0 .. kItemsToProduce
  /\ consumed_item_counter \in 0 .. kItemsToProduce
  /\ produced_item_counter_mtx \in Producers \cup {NoThread}
  /\ consumed_item_counter_mtx \in Consumers \cup {NoThread}
  /\ pc \in [Threads -> {"loop", "item", "unlock", "exit"}]

\* How many calls of ProduceItem have stored their item.
Produced ==
  IF \E p \in Producers : pc[p] = "item"
    THEN produced_item_counter - 1
    ELSE produced_item_counter

\* Whatever the interleaving of the eight threads, the values ConsumeItem
\* returned, followed by what the ring still stores, are 1, 2, 3, ... up to the
\* last item ProduceItem stored: nothing is lost, overwritten, read twice or
\* read before it was written, also where the positions wrap around.
ExactlyOnceInOrder == consumed \o Pending = [n \in 1 .. Produced |-> n]

\* A consumer may be asleep while it holds consumed_item_counter_mtx, and a
\* producer while it holds the other counter mutex (lines 74-77 and 94-96), so
\* at most one thread of each side is inside its wait and it is the holder.
OnlyTheHolderSleeps ==
  /\ repo_not_full \subseteq {produced_item_counter_mtx}
  /\ repo_not_empty \subseteq {consumed_item_counter_mtx}

\* produced_item_counter runs ahead of the store and consumed_item_counter
\* behind the read (lines 76-77 and 96-97): their distance is bounded by what
\* the ring can hold (Size - 1) plus one item on each side.
CountersStayClose ==
  /\ consumed_item_counter <= produced_item_counter
  /\ produced_item_counter - consumed_item_counter <= kItemRepositorySize + 1

\* The positions, the mutexes and the condition variables implement a FIFO of
\* kItemRepositorySize - 1 items, its progress included.
Fifo == INSTANCE BoundedFifo
          WITH Capacity <- kItemRepositorySize - 1, Items <- kItemsToProduce,
               queue <- Pending, delivered <- consumed

ImplementsBoundedFifo == Fifo!Spec

\* Every thread leaves its loop, so main's eight joins return.
AllThreadsExit == <>(\A t \in Threads : pc[t] = "exit")

=============================================================================
