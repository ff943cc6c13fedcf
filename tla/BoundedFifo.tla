----------------------------- MODULE BoundedFifo -----------------------------
(***************************************************************************)
(* What the four producer/consumer programs promise, without positions,    *)
(* mutexes or condition variables: the items 1..Items go through a queue   *)
(* of at most Capacity items, each exactly once and in order.              *)
(***************************************************************************)
EXTENDS Integers, Sequences

CONSTANTS Capacity, Items

VARIABLES queue,      \* items stored, oldest first
          delivered   \* items handed to a consumer, in order

fifoVars == <<queue, delivered>>

Init == queue = <<>> /\ delivered = <<>>

\* The next item is the one after all those put before it.
Put ==
  LET item == Len(delivered) + Len(queue) + 1 IN
  /\ Len(queue) < Capacity
  /\ item <= Items
  /\ queue' = Append(queue, item)
  /\ UNCHANGED delivered

Get ==
  /\ queue # <<>>
  /\ delivered' = Append(delivered, Head(queue))
  /\ queue' = Tail(queue)

Next == Put \/ Get

\* The queue never rests while it can move: all Items are delivered.
Spec == Init /\ [][Next]_fifoVars /\ WF_fifoVars(Next)

=============================================================================
