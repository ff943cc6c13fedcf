------------------------ MODULE ProduceConsumeProofs ------------------------
(***************************************************************************)
(* produce_consume/01, 02 and 03 for every buffer size, number of items    *)
(* and number of threads.  The ring's lemmas are put together once, as     *)
(* what a store, a read and every other step do to the ring and to the     *)
(* FIFO it implements; what is left for each program is who may take the   *)
(* step and with which number.                                             *)
(***************************************************************************)
EXTENDS MCProduceConsume, ItemRepositoryProofs

RingType ==
  /\ item_buffer \in [Slots -> 0 .. kItemsToProduce]
  /\ read_position \in Slots
  /\ write_position \in Slots
  /\ consumed \in Seq(0 .. kItemsToProduce)

\* The types of the ring's lemmas hold.
LEMMA RingTypeRepo == RingType => RepoType
<1>1. 0 .. kItemsToProduce \subseteq Nat
  BY TaskAssumption
<1>2. ASSUME RingType PROVE item_buffer \in [Slots -> Nat]
  BY <1>1, <1>2 DEF RingType
<1>3. ASSUME RingType PROVE consumed \in Seq(Nat)
  BY <1>1, <1>3, SeqMonotonic, Zenon DEF RingType
<1>. QED BY <1>2, <1>3 DEF RingType, RepoType

\* A store of the next number extends the ring and is the FIFO's Put.
LEMMA ProduceKeeps ==
  ASSUME RingType, NEW n \in Nat, HoldsItems(n), n + 1 <= kItemsToProduce,
         NEW t, ProduceItem(t, n + 1)
  PROVE  RingType' /\ HoldsItems(n + 1)' /\ Fifo!Put
<1>1. RepoType
  BY RingTypeRepo
<1>2. RepoType' /\ HoldsItems(n + 1)'
  BY <1>1, ProduceItemHolds
<1>3. n + 1 \in 0 .. kItemsToProduce
  BY TaskAssumption
<1>4. RingType'
  BY <1>2, <1>3 DEF RingType, RepoType, ProduceItem
<1>5. Fifo!Put
  BY <1>1, ProduceIsPut DEF Fifo!Put
<1>. QED BY <1>2, <1>4, <1>5

\* A read gives up the oldest item and is the FIFO's Get.
LEMMA ConsumeKeeps ==
  ASSUME RingType, NEW n \in Nat, HoldsItems(n), NEW t, ConsumeItem(t)
  PROVE  RingType' /\ HoldsItems(n)' /\ Fifo!Get
<1>1. RepoType
  BY RingTypeRepo
<1>2. RepoType' /\ HoldsItems(n)'
  BY <1>1, ConsumeItemHolds
<1>3. consumed' \in Seq(0 .. kItemsToProduce)
  BY AppendProperties DEF RingType, ConsumeItem
<1>4. RingType'
  BY <1>2, <1>3 DEF RingType, RepoType, ConsumeItem
<1>5. Fifo!Get
  BY <1>1, ConsumeIsGet DEF Fifo!Get
<1>. QED BY <1>2, <1>4, <1>5

\* Steps that leave the slots and the positions alone move no item.
LEMMA RestKeeps ==
  ASSUME RingType, NEW n \in Nat, HoldsItems(n),
         UNCHANGED <<item_buffer, read_position, write_position, consumed>>
  PROVE  RingType' /\ HoldsItems(n)' /\ UNCHANGED Fifo!fifoVars
<1>1. RingType'
  BY DEF RingType
<1>2. HoldsItems(n)'
  BY DEF HoldsItems, Stored, SlotAfter
<1>. QED BY <1>1, <1>2, WaitMovesNothing DEF Fifo!fifoVars

-----------------------------------------------------------------------------
\* 01

IInv01 == TypeOK01 /\ HoldsItems(i - 1)

\* One pass of either loop of 01: the item stored is the loop variable, and a
\* producer that had to wait comes back with the same one.
LEMMA Next01Keeps ==
  ASSUME IInv01, Next01
  PROVE  IInv01' /\ [Fifo!Next]_(Fifo!fifoVars)
<1>1. PICK n \in Nat : n = i - 1 /\ i = n + 1
  BY TaskAssumption DEF IInv01, TypeOK01
<1>2. TypeOK01 /\ RingType /\ HoldsItems(n)
  BY <1>1 DEF IInv01, TypeOK01, RingType
<1>3. ASSUME RingType', HoldsItems(i - 1)',
             (repo_not_full \subseteq {"producer"})', (repo_not_empty \subseteq {"consumer"})',
             (i \in 1 .. kItemsToProduce + 1)', (cnt \in 0 .. kItemsToProduce)'
      PROVE  IInv01'
  BY <1>3 DEF IInv01, TypeOK01, RingType
<1>4. CASE ProducerTask01
  <2>1. CASE ProduceWait("producer") /\ UNCHANGED <<i, cnt>>
    <3>1. RingType' /\ HoldsItems(n)' /\ UNCHANGED Fifo!fifoVars
      BY <1>2, <2>1, RestKeeps DEF ProduceWait
    <3>. QED BY <3>1, <1>1, <1>2, <1>3, <2>1 DEF TypeOK01, ProduceWait
  <2>2. CASE ProduceItem("producer", i) /\ i' = i + 1 /\ UNCHANGED cnt
    <3>1. n + 1 <= kItemsToProduce /\ ProduceItem("producer", n + 1)
      BY <1>1, <1>4, <2>2 DEF ProducerTask01
    <3>2. RingType' /\ HoldsItems(n + 1)' /\ Fifo!Put
      BY <3>1, <1>2, ProduceKeeps
    <3>3. i' - 1 = n + 1 /\ i' \in 1 .. kItemsToProduce + 1
      BY <3>1, <1>1, <2>2, TaskAssumption
    <3>. QED BY <3>2, <3>3, <1>2, <1>3, <2>2 DEF TypeOK01, ProduceItem, Fifo!Next
  <2>. QED BY <1>4, <2>1, <2>2 DEF ProducerTask01, CallProduceItem01
<1>5. CASE ConsumerTask01
  <2>1. CASE ConsumeWait("consumer") /\ UNCHANGED <<i, cnt>>
    <3>1. RingType' /\ HoldsItems(n)' /\ UNCHANGED Fifo!fifoVars
      BY <1>2, <2>1, RestKeeps DEF ConsumeWait
    <3>. QED BY <3>1, <1>1, <1>2, <1>3, <2>1 DEF TypeOK01, ConsumeWait
  <2>2. CASE ConsumeItem("consumer") /\ cnt' = cnt + 1 /\ UNCHANGED i
    <3>1. RingType' /\ HoldsItems(n)' /\ Fifo!Get
      BY <1>2, <2>2, ConsumeKeeps
    <3>2. cnt' \in 0 .. kItemsToProduce
      BY <1>2, <1>5, <2>2, TaskAssumption DEF TypeOK01, ConsumerTask01
    <3>. QED BY <3>1, <3>2, <1>1, <1>2, <1>3, <2>2 DEF TypeOK01, ConsumeItem, Fifo!Next
  <2>. QED BY <1>5, <2>1, <2>2 DEF ConsumerTask01, CallConsumeItem01
<1>6. CASE Wakeup01 \/ Joined01
  <2>1. /\ UNCHANGED <<i, cnt, item_buffer, read_position, write_position, consumed>>
        /\ repo_not_full' \subseteq repo_not_full /\ repo_not_empty' \subseteq repo_not_empty
    BY <1>6 DEF Wakeup01, Joined01, SpuriousWakeup, vars01, repoVars
  <2>2. RingType' /\ HoldsItems(n)' /\ UNCHANGED Fifo!fifoVars
    BY <1>2, <2>1, RestKeeps
  <2>. QED BY <2>1, <2>2, <1>1, <1>2, <1>3 DEF TypeOK01
<1>. QED BY <1>4, <1>5, <1>6 DEF Next01

-----------------------------------------------------------------------------
\* 02

\* item_counter_mtx is held exactly by the consumer between lock and unlock,
\* and whoever holds it has a turn left to take.
Holder02 ==
  /\ \A c \in Consumers : pc[c] \in {"item", "unlock"} <=> item_counter_mtx = c
  /\ item_counter_mtx # NoThread => item_counter < kItemsToProduce

IInv02 == TypeOK02 /\ Holder02 /\ HoldsItems(i - 1)

\* One step of 02.
LEMMA Next02Keeps ==
  ASSUME IInv02, Next02
  PROVE  IInv02' /\ [Fifo!Next]_(Fifo!fifoVars)
<1>1. PICK n \in Nat : n = i - 1 /\ i = n + 1
  BY TaskAssumption DEF IInv02, TypeOK02
<1>2. TypeOK02 /\ Holder02 /\ RingType /\ HoldsItems(n)
  BY <1>1 DEF IInv02, TypeOK02, RingType
<1>3. ASSUME RingType', HoldsItems(i - 1)', Holder02',
             (repo_not_full \subseteq {Producer})', (repo_not_empty \subseteq Consumers)',
             (i \in 1 .. kItemsToProduce + 1)', (item_counter \in 0 .. kItemsToProduce)',
             (item_counter_mtx \in Consumers \cup {NoThread})',
             (pc \in [Consumers -> {"loop", "item", "unlock", "exit"}])'
      PROVE  IInv02'
  BY <1>3 DEF IInv02, TypeOK02, RingType
<1>4. CASE ProducerTask02
  <2>1. Holder02' /\ UNCHANGED <<item_counter, item_counter_mtx, pc>>
    BY <1>2, <1>4 DEF ProducerTask02, Holder02
  <2>2. CASE ProduceWait(Producer) /\ UNCHANGED i
    <3>1. RingType' /\ HoldsItems(n)' /\ UNCHANGED Fifo!fifoVars
      BY <1>2, <2>2, RestKeeps DEF ProduceWait
    <3>. QED BY <3>1, <1>1, <1>2, <1>3, <2>1, <2>2 DEF TypeOK02, ProduceWait
  <2>3. CASE ProduceItem(Producer, i) /\ i' = i + 1
    <3>1. n + 1 <= kItemsToProduce /\ ProduceItem(Producer, n + 1)
      BY <1>1, <1>4, <2>3 DEF ProducerTask02
    <3>2. RingType' /\ HoldsItems(n + 1)' /\ Fifo!Put
      BY <3>1, <1>2, ProduceKeeps
    <3>3. i' - 1 = n + 1 /\ i' \in 1 .. kItemsToProduce + 1
      BY <3>1, <1>1, <2>3, TaskAssumption
    <3>. QED BY <3>2, <3>3, <1>2, <1>3, <2>1, <2>3 DEF TypeOK02, ProduceItem, Fifo!Next
  <2>. QED BY <1>4, <2>2, <2>3 DEF ProducerTask02
<1>5. ASSUME NEW c \in Consumers, ClaimTurn02(c) \/ ConsumerUnlock02(c) \/ ConsumerExit02(c)
      PROVE  IInv02' /\ UNCHANGED Fifo!fifoVars
  <2>1. UNCHANGED repoVars /\ UNCHANGED i
    BY <1>5 DEF ClaimTurn02, ConsumerUnlock02, ConsumerExit02
  <2>2. RingType' /\ HoldsItems(n)' /\ UNCHANGED Fifo!fifoVars
    BY <1>2, <2>1, RestKeeps DEF repoVars
  <2>3. pc' \in [Consumers -> {"loop", "item", "unlock", "exit"}]
    BY <1>2, <1>5 DEF TypeOK02, ClaimTurn02, ConsumerUnlock02, ConsumerExit02
  <2>4. item_counter_mtx' \in Consumers \cup {NoThread}
    BY <1>2, <1>5 DEF TypeOK02, ClaimTurn02, ConsumerUnlock02, ConsumerExit02
  <2>5. item_counter' \in 0 .. kItemsToProduce
    <3>1. CASE ConsumerUnlock02(c)
      <4>1. item_counter < kItemsToProduce
        BY <1>2, <3>1, TaskAssumption DEF Holder02, ConsumerUnlock02
      <4>. QED BY <4>1, <1>2, <3>1, TaskAssumption DEF TypeOK02, ConsumerUnlock02
    <3>. QED BY <3>1, <1>2, <1>5 DEF TypeOK02, ClaimTurn02, ConsumerExit02
  <2>6. Holder02'
    <3>1. (\A d \in Consumers : pc[d] \in {"item", "unlock"} <=> item_counter_mtx = d)'
      BY <1>2, <1>5, TaskAssumption DEF TypeOK02, Holder02, ClaimTurn02, ConsumerUnlock02, ConsumerExit02
    <3>2. (item_counter_mtx # NoThread => item_counter < kItemsToProduce)'
      BY <1>2, <1>5 DEF Holder02, ClaimTurn02, ConsumerUnlock02, ConsumerExit02
    <3>. QED BY <3>1, <3>2 DEF Holder02
  <2>. QED BY <2>1, <2>2, <2>3, <2>4, <2>5, <2>6, <1>1, <1>2, <1>3 DEF TypeOK02, repoVars
<1>6. ASSUME NEW c \in Consumers, CallConsumeItem02(c)
      PROVE  IInv02' /\ [Fifo!Next]_(Fifo!fifoVars)
  <2>1. UNCHANGED <<i, item_counter, item_counter_mtx>>
    BY <1>6 DEF CallConsumeItem02
  <2>2. CASE ConsumeWait(c) /\ UNCHANGED pc
    <3>1. RingType' /\ HoldsItems(n)' /\ UNCHANGED Fifo!fifoVars
      BY <1>2, <2>2, RestKeeps DEF ConsumeWait
    <3>2. Holder02'
      BY <1>2, <2>1, <2>2 DEF Holder02
    <3>. QED BY <3>1, <3>2, <1>1, <1>2, <1>3, <2>1, <2>2 DEF TypeOK02, ConsumeWait
  <2>3. CASE ConsumeItem(c) /\ pc' = [pc EXCEPT ![c] = "unlock"]
    <3>1. RingType' /\ HoldsItems(n)' /\ Fifo!Get
      BY <1>2, <2>3, ConsumeKeeps
    <3>2. Holder02'
      BY <1>2, <1>6, <2>1, <2>3 DEF Holder02, TypeOK02, CallConsumeItem02
    <3>. QED BY <3>1, <3>2, <1>1, <1>2, <1>3, <2>1, <2>3 DEF TypeOK02, ConsumeItem, Fifo!Next
  <2>. QED BY <1>6, <2>2, <2>3 DEF CallConsumeItem02
<1>7. CASE Wakeup02 \/ Joined02
  <2>1. /\ UNCHANGED <<taskVars02, item_buffer, read_position, write_position, consumed>>
        /\ repo_not_full' \subseteq repo_not_full /\ repo_not_empty' \subseteq repo_not_empty
    BY <1>7 DEF Wakeup02, Joined02, SpuriousWakeup, vars02, repoVars
  <2>2. RingType' /\ HoldsItems(n)' /\ UNCHANGED Fifo!fifoVars
    BY <1>2, <2>1, RestKeeps
  <2>3. Holder02'
    BY <1>2, <2>1 DEF Holder02, taskVars02
  <2>. QED BY <2>1, <2>2, <2>3, <1>1, <1>2, <1>3 DEF TypeOK02, taskVars02
<1>. QED BY <1>4, <1>5, <1>6, <1>7 DEF Next02, ConsumerTask02


-----------------------------------------------------------------------------
\* 03

\* item_counter_mtx is held exactly by the producer between lock and unlock,
\* who has claimed a number; the consumer stops counting when it leaves.
Holder03 ==
  /\ \A p \in Producers : pc[p] \in {"item", "unlock"} <=> item_counter_mtx = p
  /\ item_counter_mtx # NoThread => item_counter >= 1
  /\ pc[Consumer] # "exit" => item_consumed <= kItemsToProduce

IInv03 == TypeOK03 /\ Holder03 /\ HoldsItems(Produced03)

\* One step of 03: a claimed number is stored before the next one is claimed.
LEMMA Next03Keeps ==
  ASSUME IInv03, Next03
  PROVE  IInv03' /\ [Fifo!Next]_(Fifo!fifoVars)
<1>1. PICK n \in Nat : n = Produced03
  <2>1. Produced03 \in Nat
    BY TaskAssumption DEF IInv03, TypeOK03, Holder03, Produced03
  <2>. QED BY <2>1
<1>2. TypeOK03 /\ Holder03 /\ RingType /\ HoldsItems(n)
  BY <1>1 DEF IInv03, TypeOK03, RingType
<1>3. ASSUME RingType', HoldsItems(Produced03)', Holder03',
             (repo_not_full \subseteq Producers)', (repo_not_empty \subseteq {Consumer})',
             (item_counter \in 0 .. kItemsToProduce)',
             (item_counter_mtx \in Producers \cup {NoThread})',
             (item_consumed \in 0 .. kItemsToProduce + 1)',
             (pc \in [Producers \cup {Consumer} -> {"loop", "item", "unlock", "exit"}])'
      PROVE  IInv03'
  BY <1>3 DEF IInv03, TypeOK03, RingType
<1>4. ASSUME NEW p \in Producers, ClaimItem03(p) \/ ProducerUnlock03(p) \/ ProducerExit03(p)
      PROVE  IInv03' /\ UNCHANGED Fifo!fifoVars
  <2>1. UNCHANGED repoVars /\ UNCHANGED item_consumed
    BY <1>4 DEF ClaimItem03, ProducerUnlock03, ProducerExit03
  <2>2. RingType' /\ HoldsItems(n)' /\ UNCHANGED Fifo!fifoVars
    BY <1>2, <2>1, RestKeeps DEF repoVars
  <2>3. pc' \in [Producers \cup {Consumer} -> {"loop", "item", "unlock", "exit"}]
    BY <1>2, <1>4 DEF TypeOK03, ClaimItem03, ProducerUnlock03, ProducerExit03
  <2>4. item_counter_mtx' \in Producers \cup {NoThread}
    BY <1>2, <1>4 DEF TypeOK03, ClaimItem03, ProducerUnlock03, ProducerExit03
  <2>5. item_counter' \in 0 .. kItemsToProduce
    BY <1>2, <1>4, TaskAssumption DEF TypeOK03, ClaimItem03, ProducerUnlock03, ProducerExit03
  <2>6. (\A q \in Producers : pc[q] \in {"item", "unlock"} <=> item_counter_mtx = q)'
    BY <1>2, <1>4, TaskAssumption DEF TypeOK03, Holder03, ClaimItem03, ProducerUnlock03, ProducerExit03
  <2>7. (item_counter_mtx # NoThread => item_counter >= 1)'
    BY <1>2, <1>4, TaskAssumption DEF TypeOK03, Holder03, ClaimItem03, ProducerUnlock03, ProducerExit03
  <2>8. pc'[Consumer] = pc[Consumer]
    BY <1>2, <1>4, TaskAssumption DEF TypeOK03, ClaimItem03, ProducerUnlock03, ProducerExit03
  <2>9. Holder03'
    BY <2>1, <2>6, <2>7, <2>8, <1>2 DEF Holder03
  <2>10. Produced03' = n
    <3>1. CASE ClaimItem03(p)
      <4>1. n = item_counter
        BY <1>1, <1>2, <3>1, TaskAssumption DEF Produced03, Holder03, ClaimItem03
      <4>2. pc'[p] = "item" /\ item_counter' = item_counter + 1
        BY <1>2, <3>1 DEF TypeOK03, ClaimItem03
      <4>. QED BY <4>1, <4>2 DEF Produced03
    <3>2. CASE ProducerUnlock03(p) \/ ProducerExit03(p)
      <4>1. \A q \in Producers : pc'[q] = "item" <=> pc[q] = "item"
        BY <1>2, <3>2 DEF TypeOK03, ProducerUnlock03, ProducerExit03
      <4>2. item_counter' = item_counter
        BY <3>2 DEF ProducerUnlock03, ProducerExit03
      <4>. QED BY <4>1, <4>2, <1>1 DEF Produced03
    <3>. QED BY <3>1, <3>2, <1>4
  <2>. QED BY <2>1, <2>2, <2>3, <2>4, <2>5, <2>9, <2>10, <1>2, <1>3 DEF TypeOK03, repoVars
<1>5. ASSUME NEW p \in Producers, CallProduceItem03(p)
      PROVE  IInv03' /\ [Fifo!Next]_(Fifo!fifoVars)
  <2>1. /\ UNCHANGED <<item_counter, item_counter_mtx, item_consumed>>
        /\ pc[p] = "item" /\ item_counter = n + 1 /\ n + 1 <= kItemsToProduce
    BY <1>1, <1>2, <1>5, TaskAssumption DEF TypeOK03, CallProduceItem03, Produced03
  <2>2. CASE ProduceWait(p) /\ UNCHANGED pc
    <3>1. RingType' /\ HoldsItems(n)' /\ UNCHANGED Fifo!fifoVars
      BY <1>2, <2>2, RestKeeps DEF ProduceWait
    <3>2. Holder03' /\ Produced03' = n
      BY <1>1, <1>2, <2>1, <2>2 DEF Holder03, Produced03
    <3>. QED BY <3>1, <3>2, <1>2, <1>3, <2>1, <2>2 DEF TypeOK03, ProduceWait
  <2>3. CASE ProduceItem(p, item_counter) /\ pc' = [pc EXCEPT ![p] = "unlock"]
    <3>1. RingType' /\ HoldsItems(n + 1)' /\ Fifo!Put
      BY <1>2, <2>1, <2>3, ProduceKeeps
    <3>2. Holder03'
      BY <1>2, <2>1, <2>3, TaskAssumption DEF Holder03, TypeOK03
    <3>3. Produced03' = n + 1
      <4>1. \A q \in Producers : pc'[q] # "item"
        BY <1>2, <2>1, <2>3 DEF Holder03, TypeOK03
      <4>. QED BY <4>1, <2>1 DEF Produced03
    <3>. QED BY <3>1, <3>2, <3>3, <1>2, <1>3, <2>1, <2>3 DEF TypeOK03, ProduceItem, Fifo!Next
  <2>. QED BY <1>5, <2>2, <2>3 DEF CallProduceItem03
<1>6. CASE NextTurn03
  <2>1. UNCHANGED repoVars /\ UNCHANGED <<item_counter, item_counter_mtx>>
    BY <1>6 DEF NextTurn03
  <2>2. RingType' /\ HoldsItems(n)' /\ UNCHANGED Fifo!fifoVars
    BY <1>2, <2>1, RestKeeps DEF repoVars
  <2>3. /\ \A p \in Producers : pc'[p] = pc[p]
        /\ pc'[Consumer] = IF item_consumed' <= kItemsToProduce THEN "item" ELSE "exit"
        /\ pc' \in [Producers \cup {Consumer} -> {"loop", "item", "unlock", "exit"}]
    BY <1>2, <1>6, TaskAssumption DEF TypeOK03, NextTurn03
  <2>4. item_consumed' \in 0 .. kItemsToProduce + 1
    BY <1>2, <1>6, TaskAssumption DEF TypeOK03, Holder03, NextTurn03
  <2>5. Holder03' /\ Produced03' = n
    BY <1>1, <1>2, <2>1, <2>3 DEF Holder03, Produced03
  <2>. QED BY <2>1, <2>2, <2>3, <2>4, <2>5, <1>2, <1>3 DEF TypeOK03, repoVars
<1>7. CASE CallConsumeItem03
  <2>1. UNCHANGED <<item_counter, item_counter_mtx, item_consumed>> /\ pc[Consumer] = "item"
    BY <1>7 DEF CallConsumeItem03
  <2>2. CASE ConsumeWait(Consumer) /\ UNCHANGED pc
    <3>1. RingType' /\ HoldsItems(n)' /\ UNCHANGED Fifo!fifoVars
      BY <1>2, <2>2, RestKeeps DEF ConsumeWait
    <3>2. Holder03' /\ Produced03' = n
      BY <1>1, <1>2, <2>1, <2>2 DEF Holder03, Produced03
    <3>. QED BY <3>1, <3>2, <1>2, <1>3, <2>1, <2>2 DEF TypeOK03, ConsumeWait
  <2>3. CASE ConsumeItem(Consumer) /\ pc' = [pc EXCEPT ![Consumer] = "loop"]
    <3>1. RingType' /\ HoldsItems(n)' /\ Fifo!Get
      BY <1>2, <2>3, ConsumeKeeps
    <3>2. \A p \in Producers : pc'[p] = pc[p]
      BY <1>2, <2>3, TaskAssumption DEF TypeOK03
    <3>3. Holder03' /\ Produced03' = n
      BY <1>1, <1>2, <2>1, <3>2 DEF Holder03, Produced03
    <3>. QED BY <3>1, <3>3, <1>2, <1>3, <2>1, <2>3 DEF TypeOK03, ConsumeItem, Fifo!Next
  <2>. QED BY <1>7, <2>2, <2>3 DEF CallConsumeItem03
<1>8. CASE Wakeup03 \/ Joined03
  <2>1. /\ UNCHANGED <<taskVars03, item_buffer, read_position, write_position, consumed>>
        /\ repo_not_full' \subseteq repo_not_full /\ repo_not_empty' \subseteq repo_not_empty
    BY <1>8 DEF Wakeup03, Joined03, SpuriousWakeup, vars03, repoVars
  <2>2. RingType' /\ HoldsItems(n)' /\ UNCHANGED Fifo!fifoVars
    BY <1>2, <2>1, RestKeeps
  <2>3. Holder03' /\ Produced03' = n
    BY <1>1, <1>2, <2>1 DEF Holder03, Produced03, taskVars03
  <2>. QED BY <2>1, <2>2, <2>3, <1>2, <1>3 DEF TypeOK03, taskVars03
<1>. QED BY <1>4, <1>5, <1>6, <1>7, <1>8 DEF Next03, ProducerTask03, ConsumerTask03

-----------------------------------------------------------------------------

IInv ==
  /\ program = "01" => IInv01
  /\ program = "02" => IInv02
  /\ program = "03" => IInv03

\* The ring of each program starts empty, with nothing read.
LEMMA InitIInv == Init => IInv /\ Fifo!Init
<1> SUFFICES ASSUME Init PROVE IInv /\ Fifo!Init
  OBVIOUS
<1>1. InitItemRepository
  BY DEF Init, Init01, Init02, Init03
<1>2. Stored = 0 /\ consumed = <<>> /\ Len(consumed) = 0
  BY <1>1 DEF InitItemRepository, Stored
<1>3. HoldsItems(0)
  BY <1>2, SizeAssumption DEF HoldsItems, Slots
<1>4. Fifo!Init
  <2>1. ASSUME Stored = 0 PROVE Pending = <<>>
    BY <2>1 DEF Pending
  <2>. QED BY <2>1, <1>2 DEF Fifo!Init
<1>5. ASSUME program = "01" PROVE IInv01
  <2>1. Init01
    BY <1>5 DEF Init
  <2>. QED BY <2>1, <1>3, SizeAssumption, TaskAssumption
       DEF Init01, InitItemRepository, IInv01, TypeOK01, Slots
<1>6. ASSUME program = "02" PROVE IInv02
  <2>1. Init02
    BY <1>6 DEF Init
  <2>2. Holder02
    BY <2>1, TaskAssumption DEF Init02, Holder02
  <2>. QED BY <2>1, <2>2, <1>3, SizeAssumption, TaskAssumption
       DEF Init02, InitItemRepository, IInv02, TypeOK02, Slots
<1>7. ASSUME program = "03" PROVE IInv03
  <2>1. Init03
    BY <1>7 DEF Init
  <2>2. Holder03
    BY <2>1, TaskAssumption DEF Init03, Holder03
  <2>3. Produced03 = 0
    BY <2>1 DEF Init03, Produced03
  <2>. QED BY <2>1, <2>2, <2>3, <1>3, SizeAssumption, TaskAssumption
       DEF Init03, InitItemRepository, IInv03, TypeOK03, Slots
<1>. QED BY <1>4, <1>5, <1>6, <1>7 DEF IInv

\* A step of whichever program runs is a step of the FIFO or moves nothing.
LEMMA NextIInv == IInv /\ [Next]_vars => IInv' /\ [Fifo!Next]_(Fifo!fifoVars)
<1> SUFFICES ASSUME IInv, [Next]_vars PROVE IInv' /\ [Fifo!Next]_(Fifo!fifoVars)
  OBVIOUS
<1>1. CASE program = "01" /\ Next01 /\ UNCHANGED program
  BY <1>1, Next01Keeps DEF IInv
<1>2. CASE program = "02" /\ Next02 /\ UNCHANGED program
  BY <1>2, Next02Keeps DEF IInv
<1>3. CASE program = "03" /\ Next03 /\ UNCHANGED program
  BY <1>3, Next03Keeps DEF IInv
<1>4. CASE UNCHANGED vars
  <2>1. UNCHANGED <<item_buffer, read_position, write_position, consumed>>
    BY <1>4 DEF vars, repoVars
  <2>2. \A n : HoldsItems(n)' <=> HoldsItems(n)
    BY <2>1 DEF HoldsItems, Stored, SlotAfter
  <2>3. program = "01" => IInv01'
    BY <1>4, <2>2 DEF IInv, IInv01, TypeOK01, vars, repoVars
  <2>4. program = "02" => IInv02'
    BY <1>4, <2>2 DEF IInv, IInv02, TypeOK02, Holder02, vars, repoVars
  <2>5. program = "03" => IInv03'
    BY <1>4, <2>2 DEF IInv, IInv03, TypeOK03, Holder03, Produced03, vars, repoVars
  <2>6. UNCHANGED Fifo!fifoVars
    BY <2>1, WaitMovesNothing DEF Fifo!fifoVars
  <2>. QED BY <2>3, <2>4, <2>5, <2>6, <1>4 DEF IInv, vars
<1>. QED BY <1>1, <1>2, <1>3, <1>4 DEF Next, Run01, Run02, Run03

\* The ring holds the items between what was stored and what was read.
LEMMA InvariantHolds == Spec => []IInv
BY InitIInv, NextIInv, PTL DEF Spec

\* Type correctness of 01, 02 and 03, for every size of the buffer, number of
\* items and number of threads: no position leaves item_buffer (lines 33-42 and
\* 53-61 of each program) and no counter passes kItemsToProduce.
THEOREM OneSidedTypeOK == Spec => []TypeOK
<1>1. IInv => TypeOK
  BY DEF IInv, IInv01, IInv02, IInv03, TypeOK
<1>. QED BY <1>1, InvariantHolds, PTL

\* Every item is read exactly once and in order, for every size of the buffer,
\* number of items and number of threads.
THEOREM OneSidedExactlyOnceInOrder == Spec => []ExactlyOnceInOrder
<1>1. ASSUME NEW n \in Nat, HoldsItems(n), RingType
      PROVE  consumed \o Pending = [m \in 1 .. n |-> m]
  BY <1>1, RingTypeRepo, HoldsItemsSequence
<1>2. ASSUME program = "01", IInv PROVE ExactlyOnceInOrder01
  <2>1. RingType /\ HoldsItems(i - 1) /\ i - 1 \in Nat
    BY <1>2, TaskAssumption DEF IInv, IInv01, TypeOK01, RingType
  <2>. QED BY <2>1, <1>1 DEF ExactlyOnceInOrder01
<1>3. ASSUME program = "02", IInv PROVE ExactlyOnceInOrder02
  <2>1. RingType /\ HoldsItems(i - 1) /\ i - 1 \in Nat
    BY <1>3, TaskAssumption DEF IInv, IInv02, TypeOK02, RingType
  <2>. QED BY <2>1, <1>1 DEF ExactlyOnceInOrder02
<1>4. ASSUME program = "03", IInv PROVE ExactlyOnceInOrder03
  <2>1. RingType /\ HoldsItems(Produced03)
    BY <1>4 DEF IInv, IInv03, TypeOK03, RingType
  <2>2. Produced03 \in Nat
    BY <1>4, TaskAssumption DEF IInv, IInv03, TypeOK03, Holder03, Produced03
  <2>. QED BY <2>1, <2>2, <1>1 DEF ExactlyOnceInOrder03
<1>5. IInv => ExactlyOnceInOrder
  BY <1>2, <1>3, <1>4 DEF ExactlyOnceInOrder
<1>. QED BY <1>5, InvariantHolds, PTL

\* The steps of the FIFO, without its progress.
FifoSteps == Fifo!Init /\ [][Fifo!Next]_(Fifo!fifoVars)

\* 01, 02 and 03 implement, for every size of the buffer, a FIFO of one item
\* less.  That the FIFO also moves on is left to model checking.
THEOREM OneSidedImplementsFifoSteps == Spec => FifoSteps
BY InitIInv, NextIInv, InvariantHolds, PTL DEF Spec, FifoSteps

=============================================================================
