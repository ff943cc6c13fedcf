-------------------------- MODULE OneSidedPrograms ---------------------------
(***************************************************************************)
(* The programs produce_consume/01, 02 and 03 around the ring, which have  *)
(* one thread on one side or on both.  01: one producer runs a for loop    *)
(* over the items, one consumer counts what it has read in a static        *)
(* variable.  02: the consumers share item_counter, the number of items    *)
(* consumed, under item_counter_mtx and keep that mutex while they are     *)
(* inside ConsumeItem.  03: the producers share item_counter, the number of*)
(* items claimed, under item_counter_mtx; the one consumer counts its turns*)
(* in a static variable before it takes each item.                         *)
(***************************************************************************)
EXTENDS ItemRepository

CONSTANTS
  kItemsToProduce,
  Producer, Consumers,   \* of 02
  Producers, Consumer    \* of 03

VARIABLES
  i,                 \* 01, 02: ProducerTask's loop variable, the item it is producing
  cnt,               \* 01: ConsumerTask's static counter
  item_counter,      \* 02: items consumed; 03: items claimed by producers
  item_counter_mtx,  \* the thread that holds it, or NoThread
  item_consumed,     \* 03: ConsumerTask's static counter
  pc                 \* "loop", "item", "unlock", "exit" of each consumer (02), of every thread (03)

-----------------------------------------------------------------------------
\* 01

vars01 == <<repoVars, i, cnt>>

Init01 ==
  /\ InitItemRepository
  /\ i = 1
  /\ cnt = 0

\* Mutant of CallProduceItem01: a woken producer goes on with the next item.
CallProduceItemSkips01 ==
  \/ ProduceWait("producer") /\ i' = i + 1
  \/ ProduceItem("producer", i) /\ i' = i + 1

\* ProduceItem(&gItemRepository, i): a wait, or the store and then ++i.
CallProduceItem01 ==
  \/ ProduceWait("producer") /\ UNCHANGED i
  \/ ProduceItem("producer", i) /\ i' = i + 1

\* The for loop.
ProducerTask01 == i <= kItemsToProduce /\ CallProduceItem01 /\ UNCHANGED cnt

\* ConsumeItem(&gItemRepository): a wait, or the read and then ++cnt.
CallConsumeItem01 ==
  \/ ConsumeWait("consumer") /\ UNCHANGED cnt
  \/ ConsumeItem("consumer") /\ cnt' = cnt + 1

\* The while(1) loop, left when ++cnt reaches kItemsToProduce.
ConsumerTask01 == cnt # kItemsToProduce /\ CallConsumeItem01 /\ UNCHANGED i

Wakeup01 == (\E t \in {"producer", "consumer"} : SpuriousWakeup(t)) /\ UNCHANGED <<i, cnt>>

Exited01 == i > kItemsToProduce /\ cnt = kItemsToProduce

\* main's two joins have returned.
Joined01 == Exited01 /\ UNCHANGED vars01

Next01 == ProducerTask01 \/ ConsumerTask01 \/ Wakeup01 \/ Joined01

Spec01 == Init01 /\ [][Next01]_vars01

-----------------------------------------------------------------------------

\* The positions stay inside item_buffer and the counters inside their ranges.
TypeOK01 ==
  /\ item_buffer \in [Slots -> 0 .. kItemsToProduce]
  /\ read_position \in Slots
  /\ write_position \in Slots
  /\ repo_not_full \subseteq {"producer"}
  /\ repo_not_empty \subseteq {"consumer"}
  /\ consumed \in Seq(0 .. kItemsToProduce)
  /\ i \in 1 .. kItemsToProduce + 1
  /\ cnt \in 0 .. kItemsToProduce

\* What the consumer printed, followed by what the ring stores, is 1 .. i - 1.
ExactlyOnceInOrder01 == consumed \o Pending = [n \in 1 .. i - 1 |-> n]

-----------------------------------------------------------------------------
\* 02

NoThread == "none"

\* The value of an unheld mutex is no thread, and the two sides are different
\* threads.
ASSUME TaskAssumption ==
  /\ kItemsToProduce \in Nat
  /\ NoThread \notin Producers \cup Consumers
  /\ Consumer \notin Producers

taskVars02 == <<i, item_counter, item_counter_mtx, pc>>

vars02 == <<repoVars, taskVars02>>

Init02 ==
  /\ InitItemRepository
  /\ i = 1
  /\ item_counter = 0
  /\ item_counter_mtx = NoThread
  /\ pc = [c \in Consumers |-> "loop"]

\* ProducerTask: one pass through ProduceItem; ++i when it returns.
ProducerTask02 ==
  /\ i <= kItemsToProduce
  /\ \/ ProduceWait(Producer) /\ UNCHANGED i
     \/ ProduceItem(Producer, i) /\ i' = i + 1
  /\ UNCHANGED <<item_counter, item_counter_mtx, pc>>

\* Mutant of ClaimTurn02: the test is made without item_counter_mtx, so that
\* two consumers can both see room for the last item.
ClaimTurnUnlocked02(c) ==
  /\ pc[c] = "loop"
  /\ item_counter < kItemsToProduce
  /\ pc' = [pc EXCEPT ![c] = "item"]
  /\ UNCHANGED <<repoVars, i, item_counter, item_counter_mtx>>

\* ConsumerTask: lock, fewer than kItemsToProduce were consumed.
ClaimTurn02(c) ==
  /\ pc[c] = "loop"
  /\ item_counter_mtx = NoThread
  /\ item_counter < kItemsToProduce
  /\ item_counter_mtx' = c
  /\ pc' = [pc EXCEPT ![c] = "item"]
  /\ UNCHANGED <<repoVars, i, item_counter>>

CallConsumeItem02(c) ==
  /\ pc[c] = "item"
  /\ \/ ConsumeWait(c) /\ UNCHANGED pc
     \/ ConsumeItem(c) /\ pc' = [pc EXCEPT ![c] = "unlock"]
  /\ UNCHANGED <<i, item_counter, item_counter_mtx>>

\* Back from ConsumeItem: ++item_counter, then unlock.
ConsumerUnlock02(c) ==
  /\ pc[c] = "unlock"
  /\ item_counter' = item_counter + 1
  /\ item_counter_mtx' = NoThread
  /\ pc' = [pc EXCEPT ![c] = "loop"]
  /\ UNCHANGED <<repoVars, i>>

\* ConsumerTask: lock, everything was consumed, unlock and leave the loop.
ConsumerExit02(c) ==
  /\ pc[c] = "loop"
  /\ item_counter_mtx = NoThread
  /\ item_counter >= kItemsToProduce
  /\ pc' = [pc EXCEPT ![c] = "exit"]
  /\ UNCHANGED <<repoVars, i, item_counter, item_counter_mtx>>

ConsumerTask02(c) ==
  ClaimTurn02(c) \/ CallConsumeItem02(c) \/ ConsumerUnlock02(c) \/ ConsumerExit02(c)

Wakeup02 ==
  /\ \E t \in Consumers \cup {Producer} : SpuriousWakeup(t)
  /\ UNCHANGED taskVars02

Exited02 == i > kItemsToProduce /\ \A c \in Consumers : pc[c] = "exit"

\* main's five joins have returned.
Joined02 == Exited02 /\ UNCHANGED vars02

Next02 == ProducerTask02 \/ (\E c \in Consumers : ConsumerTask02(c)) \/ Wakeup02 \/ Joined02

Spec02 == Init02 /\ [][Next02]_vars02

-----------------------------------------------------------------------------

\* The positions stay inside item_buffer and the counters inside their ranges.
TypeOK02 ==
  /\ item_buffer \in [Slots -> 0 .. kItemsToProduce]
  /\ read_position \in Slots
  /\ write_position \in Slots
  /\ repo_not_full \subseteq {Producer}
  /\ repo_not_empty \subseteq Consumers
  /\ consumed \in Seq(0 .. kItemsToProduce)
  /\ i \in 1 .. kItemsToProduce + 1
  /\ item_counter \in 0 .. kItemsToProduce
  /\ item_counter_mtx \in Consumers \cup {NoThread}
  /\ pc \in [Consumers -> {"loop", "item", "unlock", "exit"}]

\* What the consumers read, in the order of their reads, followed by what the
\* ring stores, is 1 .. i - 1, however the consumers interleave.
ExactlyOnceInOrder02 == consumed \o Pending = [n \in 1 .. i - 1 |-> n]

-----------------------------------------------------------------------------
\* 03

taskVars03 == <<item_counter, item_counter_mtx, item_consumed, pc>>

vars03 == <<repoVars, taskVars03>>

Init03 ==
  /\ InitItemRepository
  /\ item_counter = 0
  /\ item_counter_mtx = NoThread
  /\ item_consumed = 0
  /\ pc = [t \in Producers \cup {Consumer} |-> "loop"]

\* Mutant of ClaimItem03: item_counter_mtx is released before ProduceItem.
ClaimItemUnlocked03(p) ==
  /\ pc[p] = "loop"
  /\ item_counter < kItemsToProduce
  /\ item_counter' = item_counter + 1
  /\ pc' = [pc EXCEPT ![p] = "item"]
  /\ UNCHANGED <<repoVars, item_counter_mtx, item_consumed>>

\* ProducerTask: lock, the counter is below the limit, take the next number.
ClaimItem03(p) ==
  /\ pc[p] = "loop"
  /\ item_counter_mtx = NoThread
  /\ item_counter < kItemsToProduce
  /\ item_counter_mtx' = p
  /\ item_counter' = item_counter + 1
  /\ pc' = [pc EXCEPT ![p] = "item"]
  /\ UNCHANGED <<repoVars, item_consumed>>

\* ProduceItem(&gItemRepository, item_counter), item_counter_mtx still held.
CallProduceItem03(p) ==
  /\ pc[p] = "item"
  /\ \/ ProduceWait(p) /\ UNCHANGED pc
     \/ ProduceItem(p, item_counter) /\ pc' = [pc EXCEPT ![p] = "unlock"]
  /\ UNCHANGED <<item_counter, item_counter_mtx, item_consumed>>

ProducerUnlock03(p) ==
  /\ pc[p] = "unlock"
  /\ item_counter_mtx' = NoThread
  /\ pc' = [pc EXCEPT ![p] = "loop"]
  /\ UNCHANGED <<repoVars, item_counter, item_consumed>>

\* ProducerTask: lock, the limit is reached, unlock and leave the loop.
ProducerExit03(p) ==
  /\ pc[p] = "loop"
  /\ item_counter_mtx = NoThread
  /\ item_counter >= kItemsToProduce
  /\ pc' = [pc EXCEPT ![p] = "exit"]
  /\ UNCHANGED <<repoVars, item_counter, item_counter_mtx, item_consumed>>

ProducerTask03(p) ==
  ClaimItem03(p) \/ CallProduceItem03(p) \/ ProducerUnlock03(p) \/ ProducerExit03(p)

\* ConsumerTask: ++item_consumed and the test against the limit.
NextTurn03 ==
  /\ pc[Consumer] = "loop"
  /\ item_consumed' = item_consumed + 1
  /\ pc' = [pc EXCEPT ![Consumer] =
              IF item_consumed' <= kItemsToProduce THEN "item" ELSE "exit"]
  /\ UNCHANGED <<repoVars, item_counter, item_counter_mtx>>

CallConsumeItem03 ==
  /\ pc[Consumer] = "item"
  /\ \/ ConsumeWait(Consumer) /\ UNCHANGED pc
     \/ ConsumeItem(Consumer) /\ pc' = [pc EXCEPT ![Consumer] = "loop"]
  /\ UNCHANGED <<item_counter, item_counter_mtx, item_consumed>>

ConsumerTask03 == NextTurn03 \/ CallConsumeItem03

Wakeup03 ==
  /\ \E t \in Producers \cup {Consumer} : SpuriousWakeup(t)
  /\ UNCHANGED taskVars03

Exited03 == \A t \in Producers \cup {Consumer} : pc[t] = "exit"

\* main's five joins have returned.
Joined03 == Exited03 /\ UNCHANGED vars03

Next03 == (\E p \in Producers : ProducerTask03(p)) \/ ConsumerTask03 \/ Wakeup03 \/ Joined03

Spec03 == Init03 /\ [][Next03]_vars03

-----------------------------------------------------------------------------

\* The positions stay inside item_buffer and the counters inside their ranges.
TypeOK03 ==
  /\ item_buffer \in [Slots -> 0 .. kItemsToProduce]
  /\ read_position \in Slots
  /\ write_position \in Slots
  /\ repo_not_full \subseteq Producers
  /\ repo_not_empty \subseteq {Consumer}
  /\ consumed \in Seq(0 .. kItemsToProduce)
  /\ item_counter \in 0 .. kItemsToProduce
  /\ item_counter_mtx \in Producers \cup {NoThread}
  /\ item_consumed \in 0 .. kItemsToProduce + 1
  /\ pc \in [Producers \cup {Consumer} -> {"loop", "item", "unlock", "exit"}]

\* How many calls of ProduceItem have stored their item.
Produced03 ==
  IF \E p \in Producers : pc[p] = "item" THEN item_counter - 1 ELSE item_counter

\* The order of the claims is the order in the ring: the consumer reads
\* 1, 2, 3, ... although four producers race, because item_counter_mtx is
\* held from the claim to the store (lines 72-80).
ExactlyOnceInOrder03 == consumed \o Pending = [n \in 1 .. Produced03 |-> n]

==============================================================================
