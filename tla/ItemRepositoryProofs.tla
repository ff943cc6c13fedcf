------------------------ MODULE ItemRepositoryProofs ------------------------
(***************************************************************************)
(* What ProduceItem and ConsumeItem do to the ring, for every size of the  *)
(* buffer.  The lemmas serve the proofs of all four programs.              *)
(***************************************************************************)
EXTENDS ItemRepository, SequenceTheorems, TLAPS

\* The types of the part of the state the positions and the contents live in.
RepoType ==
  /\ item_buffer \in [Slots -> Nat]
  /\ read_position \in Slots
  /\ write_position \in Slots
  /\ consumed \in Seq(Nat)

\* The test of ProduceItem, (write_position + 1) % size = read_position, asks
\* whether one more write_position++ with its reset would meet the reader.
LEMMA FullIsNext ==
  ASSUME RepoType
  PROVE  Full <=> Advance(write_position) = read_position
<1>1. kItemRepositorySize \in Nat /\ kItemRepositorySize >= 2
  BY SizeAssumption
<1>2. write_position \in Nat /\ write_position + 1 <= kItemRepositorySize
  BY <1>1 DEF RepoType, Slots
<1>3. CASE write_position + 1 = kItemRepositorySize
  <2>1. (write_position + 1) % kItemRepositorySize = 0
    BY <1>1, <1>3
  <2>. QED BY <2>1, <1>3 DEF Full, Advance
<1>4. CASE write_position + 1 < kItemRepositorySize
  <2>1. (write_position + 1) % kItemRepositorySize = write_position + 1
    BY <1>1, <1>2, <1>4
  <2>. QED BY <2>1, <1>2, <1>4 DEF Full, Advance
<1>. QED BY <1>1, <1>2, <1>3, <1>4

\* A position stays inside the buffer.
LEMMA AdvanceInSlots ==
  ASSUME NEW s \in Slots
  PROVE  Advance(s) \in Slots
BY SizeAssumption DEF Advance, Slots

\* The ring stores between 0 and size - 1 items.
LEMMA StoredBounds == RepoType => Stored \in 0 .. kItemRepositorySize - 1
BY SizeAssumption DEF RepoType, Stored, Slots

\* A ring that is not full grows by the item ProduceItem writes, and the
\* write touches no slot that holds an unread item.
LEMMA ProduceItemHolds ==
  ASSUME RepoType, NEW n \in Nat, HoldsItems(n), NEW t, ProduceItem(t, n + 1)
  PROVE  RepoType' /\ HoldsItems(n + 1)' /\ Stored' = Stored + 1
<1>1. kItemRepositorySize \in Nat /\ kItemRepositorySize >= 2
  BY SizeAssumption
<1>2. ~Full /\ Advance(write_position) # read_position
  BY FullIsNext DEF ProduceItem
<1>3. RepoType'
  BY AdvanceInSlots DEF RepoType, ProduceItem
<1>4. Stored' = Stored + 1
  <2>1. /\ read_position \in 0 .. kItemRepositorySize - 1
        /\ write_position \in 0 .. kItemRepositorySize - 1
        /\ read_position' = read_position
        /\ write_position' = Advance(write_position)
    BY DEF RepoType, ProduceItem, Slots
  <2>2. CASE write_position + 1 = kItemRepositorySize
    BY <2>1, <2>2, <1>1, <1>2 DEF Stored, Advance
  <2>3. CASE write_position + 1 # kItemRepositorySize
    BY <2>1, <2>3, <1>1, <1>2 DEF Stored, Advance
  <2>. QED BY <2>2, <2>3
<1>5. \A k \in Slots : SlotAfter(k)' = SlotAfter(k)
  BY DEF SlotAfter, ProduceItem
<1>6. SlotAfter(Stored) = write_position
  BY <1>1 DEF SlotAfter, Stored, RepoType, Slots
<1>7. \A k \in Slots : k < Stored => SlotAfter(k) # write_position
  BY <1>1 DEF SlotAfter, Stored, RepoType, Slots
<1>8. ASSUME NEW k \in Slots, k < Stored'
      PROVE  (item_buffer[SlotAfter(k)])' = Len(consumed)' + k + 1
  <2>1. SlotAfter(k) \in Slots
    BY <1>1 DEF SlotAfter, RepoType, Slots
  <2>2. CASE k < Stored
    <3>1. item_buffer'[SlotAfter(k)] = item_buffer[SlotAfter(k)]
      BY <2>1, <2>2, <1>7 DEF RepoType, ProduceItem
    <3>. QED BY <3>1, <2>2, <1>5 DEF HoldsItems, ProduceItem
  <2>3. CASE k = Stored
    <3>1. item_buffer'[write_position] = n + 1
      BY DEF RepoType, ProduceItem
    <3>. QED BY <3>1, <2>3, <1>5, <1>6 DEF HoldsItems, ProduceItem
  <2>. QED BY <2>2, <2>3, <1>4, <1>8, StoredBounds, <1>1 DEF Slots
<1>. QED
  <2>1. Len(consumed)' = Len(consumed) /\ Len(consumed) \in Nat
    BY DEF ProduceItem, RepoType
  <2>2. Stored \in Nat
    BY StoredBounds, <1>1
  <2>3. (\A k \in 1 .. Len(consumed) : consumed[k] = k)'
    BY DEF ProduceItem, HoldsItems
  <2>4. (Len(consumed) + Stored = n + 1)'
    BY <2>1, <2>2, <1>4 DEF HoldsItems
  <2>5. (\A k \in Slots : k < Stored => item_buffer[SlotAfter(k)] = Len(consumed) + k + 1)'
    BY <1>8
  <2>. QED BY <2>3, <2>4, <2>5, <1>3, <1>4 DEF HoldsItems

\* A ring that is not empty gives up its oldest item, the next number.
LEMMA ConsumeItemHolds ==
  ASSUME RepoType, NEW n \in Nat, HoldsItems(n), NEW t, ConsumeItem(t)
  PROVE  /\ RepoType'
         /\ HoldsItems(n)'
         /\ Stored' = Stored - 1
         /\ Len(consumed') = Len(consumed) + 1
<1>1. kItemRepositorySize \in Nat /\ kItemRepositorySize >= 2
  BY SizeAssumption
<1>2. Stored \in 1 .. kItemRepositorySize - 1
  BY <1>1 DEF Stored, ConsumeItem, Empty, RepoType, Slots
<1>3. SlotAfter(0) = read_position
  BY <1>1 DEF SlotAfter, RepoType, Slots
<1>4. item_buffer[read_position] = Len(consumed) + 1
  BY <1>1, <1>2, <1>3 DEF HoldsItems, Slots, RepoType
<1>5. consumed' = Append(consumed, Len(consumed) + 1)
  BY <1>4 DEF ConsumeItem
<1>6. /\ Len(consumed) \in Nat
      /\ consumed' \in Seq(Nat)
      /\ Len(consumed') = Len(consumed) + 1
      /\ \A k \in 1 .. Len(consumed) : consumed'[k] = consumed[k]
      /\ consumed'[Len(consumed) + 1] = Len(consumed) + 1
  BY <1>5 DEF RepoType
<1>7. RepoType'
  BY <1>6, AdvanceInSlots DEF RepoType, ConsumeItem
<1>8. Stored' = Stored - 1
  BY <1>1, <1>2 DEF RepoType, ConsumeItem, Stored, Advance, Slots
<1>9. \A k \in Slots : k < Stored - 1 => SlotAfter(k)' = SlotAfter(k + 1)
  BY <1>1, <1>2 DEF SlotAfter, ConsumeItem, Advance, RepoType, Slots
<1>10. (\A k \in Slots : k < Stored => item_buffer[SlotAfter(k)] = Len(consumed) + k + 1)'
  <2>1. SUFFICES ASSUME NEW k \in Slots, k < Stored - 1
                 PROVE  item_buffer[SlotAfter(k + 1)] = Len(consumed) + 1 + k + 1
    BY <1>6, <1>8, <1>9 DEF ConsumeItem, Slots
  <2>2. k + 1 \in Slots /\ k + 1 < Stored
    BY <2>1, <1>1, <1>2 DEF Slots
  <2>3. item_buffer[SlotAfter(k + 1)] = Len(consumed) + (k + 1) + 1
    BY <2>2 DEF HoldsItems
  <2>. QED BY <2>3, <1>6, <1>1 DEF Slots
<1>11. (\A k \in 1 .. Len(consumed) : consumed[k] = k)'
  BY <1>6 DEF HoldsItems
<1>12. (Len(consumed) + Stored = n)'
  BY <1>6, <1>8, <1>2 DEF HoldsItems
<1>. QED BY <1>6, <1>7, <1>8, <1>10, <1>11, <1>12 DEF HoldsItems

\* The unread items are the numbers that follow those already read.
PendingFollows ==
  /\ Len(consumed) \in Nat
  /\ Pending = [k \in 1 .. Stored |-> Len(consumed) + k]
  /\ Pending \in Seq(Nat) /\ Len(Pending) = Stored

HoldsSome == \E n \in Nat : HoldsItems(n)

\* A ring that holds the items 1 .. n holds them in order.
LEMMA PendingIs ==
  RepoType /\ HoldsSome => PendingFollows
<1> SUFFICES ASSUME RepoType, NEW n \in Nat, HoldsItems(n) PROVE PendingFollows
  BY DEF HoldsSome
<1>1. kItemRepositorySize \in Nat /\ kItemRepositorySize >= 2
  BY SizeAssumption
<1>2. Stored \in 0 .. kItemRepositorySize - 1
  BY StoredBounds
<1>3. \A k \in 1 .. Stored : item_buffer[SlotAfter(k - 1)] = Len(consumed) + k
  <2>1. SUFFICES ASSUME NEW k \in 1 .. Stored
                 PROVE  item_buffer[SlotAfter(k - 1)] = Len(consumed) + k
    OBVIOUS
  <2>2. k - 1 \in Slots /\ k - 1 < Stored
    BY <1>1, <1>2 DEF Slots
  <2>3. item_buffer[SlotAfter(k - 1)] = Len(consumed) + (k - 1) + 1
    BY <2>2 DEF HoldsItems
  <2>. QED BY <2>3, <1>2 DEF RepoType
<1>4. Len(consumed) \in Nat
  BY DEF RepoType
<1>5. Pending = [k \in 1 .. Stored |-> Len(consumed) + k]
  BY <1>3 DEF Pending
<1>6. Pending \in Seq(Nat) /\ Len(Pending) = Stored
  BY <1>2, <1>4, <1>5
<1>. QED BY <1>4, <1>5, <1>6 DEF PendingFollows

\* The contents as one sequence: what was read and what is stored is 1 .. n.
LEMMA HoldsItemsSequence ==
  ASSUME RepoType, NEW n \in Nat, HoldsItems(n)
  PROVE  consumed \o Pending = [m \in 1 .. n |-> m]
<1>1. Stored \in Nat
  BY StoredBounds, SizeAssumption
<1>2. Len(consumed) \in Nat /\ Pending = [k \in 1 .. Stored |-> Len(consumed) + k]
  BY PendingIs DEF PendingFollows, HoldsSome
<1>3. Pending \in Seq(Nat) /\ Len(Pending) = Stored
  BY PendingIs DEF PendingFollows, HoldsSome
<1>4. /\ consumed \o Pending \in Seq(Nat)
      /\ Len(consumed \o Pending) = Len(consumed) + Len(Pending)
      /\ \A m \in 1 .. Len(consumed) + Len(Pending) : (consumed \o Pending)[m] =
           IF m <= Len(consumed) THEN consumed[m] ELSE Pending[m - Len(consumed)]
  BY <1>3, ConcatProperties DEF RepoType
<1>5. \A m \in 1 .. n : (IF m <= Len(consumed) THEN consumed[m] ELSE Pending[m - Len(consumed)]) = m
  <2>1. SUFFICES ASSUME NEW m \in 1 .. n
                 PROVE  (IF m <= Len(consumed) THEN consumed[m]
                           ELSE Pending[m - Len(consumed)]) = m
    OBVIOUS
  <2>2. CASE m <= Len(consumed)
    BY <2>2, <1>2 DEF HoldsItems
  <2>3. CASE m > Len(consumed)
    <3>1. m - Len(consumed) \in 1 .. Stored
      BY <2>3, <1>1, <1>2 DEF HoldsItems
    <3>. QED BY <3>1, <2>3, <1>2
  <2>. QED BY <2>2, <2>3, <1>2
<1>6. Len(consumed) + Len(Pending) = n
  BY <1>3 DEF HoldsItems
<1>7. consumed \o Pending \in [1 .. n -> Nat]
  BY <1>4, <1>6, LenProperties
<1>. QED BY <1>4, <1>5, <1>6, <1>7

\* ProduceItem puts its item behind the unread ones, of which there is one less
\* than the ring has room for.
LEMMA ProduceIsPut ==
  ASSUME RepoType, NEW n \in Nat, HoldsItems(n), NEW t, ProduceItem(t, n + 1)
  PROVE  /\ Len(consumed) + Len(Pending) = n
         /\ Len(Pending) < kItemRepositorySize - 1
         /\ Pending' = Append(Pending, n + 1)
         /\ consumed' = consumed
<1>1. /\ RepoType' /\ HoldsItems(n + 1)' /\ Stored' = Stored + 1
      /\ consumed' = consumed
  BY ProduceItemHolds DEF ProduceItem
<1>2. /\ Len(consumed) \in Nat /\ Pending \in Seq(Nat) /\ Len(Pending) = Stored
      /\ Pending = [k \in 1 .. Stored |-> Len(consumed) + k]
  BY PendingIs DEF PendingFollows, HoldsSome
<1>3. Pending' = [k \in 1 .. Stored + 1 |-> Len(consumed) + k]
  <2>1. PendingFollows'
    <3>1. (RepoType /\ HoldsSome => PendingFollows)'
      BY PendingIs, PTL
    <3>2. n + 1 \in Nat
      OBVIOUS
    <3>. QED BY <3>1, <3>2, <1>1 DEF HoldsSome
  <2>. QED BY <2>1, <1>1 DEF PendingFollows
<1>4. Len(consumed) + Stored = n
  BY DEF HoldsItems
<1>5. Stored \in Nat /\ Stored + 1 <= kItemRepositorySize - 1
  <2>1. (RepoType => Stored \in 0 .. kItemRepositorySize - 1)'
    BY StoredBounds, PTL
  <2>. QED BY <2>1, <1>1, StoredBounds, SizeAssumption
<1>6. Append(Pending, n + 1) = [k \in 1 .. Stored + 1 |-> Len(consumed) + k]
  BY <1>2, <1>4, <1>5
<1>. QED BY <1>1, <1>2, <1>3, <1>4, <1>5, <1>6, SizeAssumption

\* ConsumeItem hands out the first of the unread items.
LEMMA ConsumeIsGet ==
  ASSUME RepoType, NEW n \in Nat, HoldsItems(n), NEW t, ConsumeItem(t)
  PROVE  /\ Pending # <<>>
         /\ consumed' = Append(consumed, Head(Pending))
         /\ Pending' = Tail(Pending)
<1>1. /\ RepoType' /\ HoldsItems(n)' /\ Stored' = Stored - 1
      /\ Len(consumed') = Len(consumed) + 1
  BY ConsumeItemHolds
<1>2. /\ Len(consumed) \in Nat /\ Pending \in Seq(Nat) /\ Len(Pending) = Stored
      /\ Pending = [k \in 1 .. Stored |-> Len(consumed) + k]
  BY PendingIs DEF PendingFollows, HoldsSome
<1>3. Stored \in Nat /\ Stored - 1 \in Nat
  <2>1. (RepoType => Stored \in 0 .. kItemRepositorySize - 1)'
    BY StoredBounds, PTL
  <2>. QED BY <2>1, <1>1, StoredBounds, SizeAssumption
<1>4. Pending' = [k \in 1 .. Stored - 1 |-> Len(consumed) + 1 + k]
  <2>1. (RepoType /\ HoldsSome => PendingFollows)'
    BY PendingIs, PTL
  <2>. QED BY <2>1, <1>1, <1>2 DEF PendingFollows, HoldsSome
<1>5. Tail(Pending) = [k \in 1 .. Stored - 1 |-> Len(consumed) + 1 + k]
  BY <1>1, <1>2, <1>3
<1>6. Head(Pending) = item_buffer[read_position]
  <2>1. SlotAfter(0) = read_position
    BY SizeAssumption DEF SlotAfter, RepoType, Slots
  <2>. QED BY <2>1, <1>1, <1>2, <1>3 DEF Pending
<1>7. Pending # <<>>
  BY <1>2, <1>3
<1>8. consumed' = Append(consumed, Head(Pending))
  BY <1>6 DEF ConsumeItem
<1>. QED BY <1>4, <1>5, <1>7, <1>8

\* Nothing else moves an item.
LEMMA WaitMovesNothing ==
  ASSUME UNCHANGED <<item_buffer, read_position, write_position, consumed>>
  PROVE  UNCHANGED <<Pending, consumed>>
BY DEF Pending, Stored, SlotAfter

=============================================================================
