-------------------------- MODULE MCProduceConsume --------------------------
(***************************************************************************)
(* The programs produce_consume/01, 02 and 03 on one instance of their     *)
(* common ring.  Which program runs is chosen at the start and never       *)
(* changes; the variables of the other two stay at Unused.                 *)
(***************************************************************************)
EXTENDS OneSidedPrograms

VARIABLE program   \* "01", "02" or "03"

vars == <<repoVars, program, i, cnt, item_counter, item_counter_mtx, item_consumed, pc>>

Unused == "unused"

Init ==
  \/ /\ program = "01" /\ Init01
     /\ item_counter = Unused /\ item_counter_mtx = Unused /\ item_consumed = Unused /\ pc = Unused
  \/ /\ program = "02" /\ Init02
     /\ cnt = Unused /\ item_consumed = Unused
  \/ /\ program = "03" /\ Init03
     /\ i = Unused /\ cnt = Unused

Run01(action) ==
  program = "01" /\ action /\ UNCHANGED <<program, item_counter, item_counter_mtx, item_consumed, pc>>

Run02(action) == program = "02" /\ action /\ UNCHANGED <<program, cnt, item_consumed>>

Run03(action) == program = "03" /\ action /\ UNCHANGED <<program, i, cnt>>

Next == Run01(Next01) \/ Run02(Next02) \/ Run03(Next03)

\* Every thread is scheduled whenever it can go on.  No order is assumed among
\* the threads that compete for a mutex, and the wakeups that come without a
\* notification are not relied on.
Spec ==
  /\ Init /\ [][Next]_vars
  /\ WF_vars(Run01(ProducerTask01)) /\ WF_vars(Run01(ConsumerTask01))
  /\ WF_vars(Run02(ProducerTask02)) /\ \A c \in Consumers : WF_vars(Run02(ConsumerTask02(c)))
  /\ WF_vars(Run03(ConsumerTask03)) /\ \A p \in Producers : WF_vars(Run03(ProducerTask03(p)))

-----------------------------------------------------------------------------

\* The positions stay inside item_buffer and the counters inside their ranges.
TypeOK ==
  /\ program = "01" => TypeOK01
  /\ program = "02" => TypeOK02
  /\ program = "03" => TypeOK03

\* What ConsumeItem returned, followed by what the ring stores, is 1, 2, 3, ...
\* without a gap, a repetition or an exchange, up to the last item stored.  In
\* 03 this needs item_counter_mtx to be held from the claim of a number to the
\* store of the item (lines 72-80).
ExactlyOnceInOrder ==
  /\ program = "01" => ExactlyOnceInOrder01
  /\ program = "02" => ExactlyOnceInOrder02
  /\ program = "03" => ExactlyOnceInOrder03

Fifo == INSTANCE BoundedFifo
          WITH Capacity <- kItemRepositorySize - 1, Items <- kItemsToProduce,
               queue <- Pending, delivered <- consumed

\* Each program implements a FIFO of kItemRepositorySize - 1 items, its
\* progress included: wherever ProduceItem and ConsumeItem wait, somebody can
\* still move an item.
ImplementsBoundedFifo == Fifo!Spec

\* Every thread leaves its loop and nothing is left in the ring.  In 02 this
\* needs the test of item_counter and the ConsumeItem it allows to be under one
\* lock of item_counter_mtx (lines 85-92): otherwise a consumer waits for an
\* item that never comes.
AllThreadsExit ==
  <>[]( /\ Empty
        /\ program = "01" => Exited01
        /\ program = "02" => Exited02
        /\ program = "03" => Exited03 )

=============================================================================
