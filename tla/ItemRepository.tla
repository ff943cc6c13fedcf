--------------------------- MODULE ItemRepository ---------------------------
(***************************************************************************)
(* The ring buffer of produce_consume/: struct ItemRepository with its     *)
(* two condition variables, and the two functions that are the same text   *)
(* in the four programs, ProduceItem and ConsumeItem.                      *)
(*                                                                         *)
(* Both functions hold mtx from their first statement to their last except *)
(* inside wait(), and nothing else touches this state, so one critical     *)
(* section (from the acquisition of mtx to its release by unlock or wait)  *)
(* is one atomic step.  A thread inside wait() is a member of the          *)
(* condition variable's set; a thread that was woken is no longer in it    *)
(* and competes for mtx again, to re-evaluate the condition of the while.  *)
(***************************************************************************)
EXTENDS Integers, Sequences

CONSTANT kItemRepositorySize   \* slots of item_buffer; one of them stays empty

\* With one slot the buffer would be full and empty at once.
ASSUME SizeAssumption == kItemRepositorySize \in Nat /\ kItemRepositorySize >= 2

VARIABLES
  item_buffer,      \* the slots; 0 in a slot that was never written
  read_position,    \* next slot ConsumeItem reads
  write_position,   \* next slot ProduceItem writes
  repo_not_full,    \* threads inside repo_not_full.wait(lock)
  repo_not_empty,   \* threads inside repo_not_empty.wait(lock)
  consumed          \* history: what the calls of ConsumeItem returned, in order

repoVars == <<item_buffer, read_position, write_position,
              repo_not_full, repo_not_empty, consumed>>

Slots == 0 .. kItemRepositorySize - 1

\* gItemRepository is a global: its integers start as zero.
InitItemRepository ==
  /\ item_buffer = [s \in Slots |-> 0]
  /\ read_position = 0
  /\ write_position = 0
  /\ repo_not_full = {}
  /\ repo_not_empty = {}
  /\ consumed = <<>>

\* Mutant of Full: the sum does not wrap around.
FullNoWrap == write_position + 1 = read_position

Full == (write_position + 1) % kItemRepositorySize = read_position

Empty == write_position = read_position

\* Mutant of Advance: the wrap test is one slot late for one slot fewer.
AdvanceNeverReachesLast(position) ==
  IF position + 2 >= kItemRepositorySize THEN 0 ELSE position + 1

\* Mutant of Advance: the reset to 0 is missing.
AdvanceNoWrap(position) == position + 1

\* position++ and the reset to 0 at the end of the buffer.
Advance(position) ==
  IF position + 1 = kItemRepositorySize THEN 0 ELSE position + 1

-----------------------------------------------------------------------------

\* ProduceItem, the while loop's body: the buffer is full, t waits.
ProduceWait(t) ==
  /\ t \notin repo_not_full
  /\ Full
  /\ repo_not_full' = repo_not_full \cup {t}
  /\ UNCHANGED <<item_buffer, read_position, write_position,
                 repo_not_empty, consumed>>

\* ProduceItem, past the loop: write, advance, wake every waiting consumer.
ProduceItem(t, item) ==
  /\ t \notin repo_not_full
  /\ ~Full
  /\ item_buffer' = [item_buffer EXCEPT ![write_position] = item]
  /\ write_position' = Advance(write_position)
  /\ repo_not_empty' = {}
  /\ UNCHANGED <<read_position, repo_not_full, consumed>>

\* ConsumeItem, the while loop's body: the buffer is empty, t waits.
ConsumeWait(t) ==
  /\ t \notin repo_not_empty
  /\ Empty
  /\ repo_not_empty' = repo_not_empty \cup {t}
  /\ UNCHANGED <<item_buffer, read_position, write_position,
                 repo_not_full, consumed>>

\* Mutant of ConsumeItem: repo_not_full is not notified.
ConsumeItemSilent(t) ==
  /\ t \notin repo_not_empty
  /\ ~Empty
  /\ consumed' = Append(consumed, item_buffer[read_position])
  /\ read_position' = Advance(read_position)
  /\ UNCHANGED <<item_buffer, write_position, repo_not_full, repo_not_empty>>

\* ConsumeItem, past the loop: read, advance, wake every waiting producer.
ConsumeItem(t) ==
  /\ t \notin repo_not_empty
  /\ ~Empty
  /\ consumed' = Append(consumed, item_buffer[read_position])
  /\ read_position' = Advance(read_position)
  /\ repo_not_full' = {}
  /\ UNCHANGED <<item_buffer, write_position, repo_not_empty>>

\* std::condition_variable::wait may return without a notification.
SpuriousWakeup(t) ==
  /\ t \in repo_not_full \cup repo_not_empty
  /\ repo_not_full' = repo_not_full \ {t}
  /\ repo_not_empty' = repo_not_empty \ {t}
  /\ UNCHANGED <<item_buffer, read_position, write_position, consumed>>

-----------------------------------------------------------------------------

\* How many items the two positions say are stored.
Stored ==
  IF write_position >= read_position
    THEN write_position - read_position
    ELSE write_position - read_position + kItemRepositorySize

\* The slot k places after the read position.
SlotAfter(k) ==
  IF read_position + k >= kItemRepositorySize
    THEN read_position + k - kItemRepositorySize
    ELSE read_position + k

\* What is stored, oldest first.
Pending == [k \in 1 .. Stored |-> item_buffer[SlotAfter(k - 1)]]

\* Of the items 1 .. n stored so far, the first were read, in order, and the
\* others lie in the ring, in order, from the read position on.
HoldsItems(n) ==
  /\ Len(consumed) + Stored = n
  /\ \A k \in 1 .. Len(consumed) : consumed[k] = k
  /\ \A k \in Slots : k < Stored => item_buffer[SlotAfter(k)] = Len(consumed) + k + 1

\* A producer sleeps only while there is no free slot and a consumer only
\* while there is no item: the notify_all calls of ConsumeItem (line 63) and
\* ProduceItem (line 43) leave nobody asleep who could go on.
NobodySleepsInVain ==
  /\ repo_not_full # {} => Full
  /\ repo_not_empty # {} => Empty

=============================================================================
