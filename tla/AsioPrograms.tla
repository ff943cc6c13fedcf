---------------------------- MODULE AsioPrograms -----------------------------
(***************************************************************************)
(* The asynchronous servers and timers of boost/.  Over TCP:               *)
(* async_tcp_echo_server.cpp, 1.异步分配内存.cpp (the same with one block of*)
(* memory for the handlers of a session), 2.引用计数缓冲区.cpp and         *)
(* daytime3.cpp (one write).  A session lives as long as a handler holds   *)
(* it.  Data are numbers in the order in which the client sends them.      *)
(* Over UDP (names with Udp): daytime6.cpp, daytime7.cpp and the server in *)
(* 5.守护进程fork_daemon.cpp.  The next receive is begun while a reply may *)
(* still be under way, and it writes the same remote_endpoint_.            *)
(* Timers (names with Timer): in time3.cpp, time4.cpp and time5.cpp the    *)
(* handlers print a counter and begin the next wait; in time5 two timers,  *)
(* two threads and a strand.                                               *)
(***************************************************************************)
EXTENDS Naturals, Sequences

CONSTANTS
  Clients,      \* bound: each connects once
  MaxData,      \* bound: the data a client sends
  SmallEnough,  \* the operations whose handler fits into storage_, of Operations
  MaxRequests   \* bound: the datagrams of a client

VARIABLES
  program,   \* which of the TCP servers or timer programs it is
  session,   \* per client: the operation outstanding, the data in data_, the block of the handler
  memory,    \* handler_memory of each session: in_use_
  heap,      \* history: the blocks taken from the heap
  echoed,    \* history: what was written to each client
  udp,       \* the UDP server: program, receiving, remote_endpoint_
  sending,   \* the replies to each client that are under way
  inbox,     \* kernel: the datagrams of each client that were not received
  asked, answered, lost,  \* history: the requests of each client, and what became of them
  count,     \* count_ of the timer programs
  timer,     \* of each timer: "waiting", "running" (its handler) or "off"
  printed    \* the numbers on the screen

Operations == {"read", "write"}

vars == <<program, session, memory, heap, echoed>>

Programs == {"async_tcp_echo_server", "alloc", "refcount", "daytime3"}

None == "none"

Init ==
  /\ program \in Programs
  /\ session = [k \in Clients |-> [op |-> "fresh", data_ |-> 0, block |-> None]]
  /\ memory = [k \in Clients |-> FALSE]
  /\ heap = [k \in Clients |-> 0]
  /\ echoed = [k \in Clients |-> <<>>]

\* handler_memory::allocate: the block of the session if it is free and large
\* enough.
allocate(in_use_, op) == IF ~in_use_ /\ op \in SmallEnough THEN "storage_" ELSE "heap"

\* Mutant of deallocate: the block is given back when the session ends.
deallocateLate(in_use_, block) == in_use_

\* handler_memory::deallocate
deallocate(in_use_, block) == IF block = "storage_" THEN FALSE ELSE in_use_

\* handler_allocator: where the handler of the operation next is kept.
Block(in_use_, next) == IF program = "alloc" /\ next # None THEN allocate(in_use_, next) ELSE None

\* An operation completes: asio gives the block of the handler back before it
\* calls it, and the handler begins the operation next (None: it begins none, and
\* the session is gone).
Complete(k, next, data) ==
  LET in_use_ == deallocate(memory[k], session[k].block)
      block == Block(in_use_, next)
  IN  /\ session' = [session EXCEPT ![k] = [op |-> next, data_ |-> data, block |-> block]]
      /\ memory' = [memory EXCEPT ![k] = in_use_ \/ block = "storage_"]
      /\ heap' = [heap EXCEPT ![k] = IF block = "heap" THEN @ + 1 ELSE @]
      /\ UNCHANGED program

Echoes == program \in {"async_tcp_echo_server", "alloc"}

\* session::start: the echo reads, the others write the time.
start == IF Echoes THEN "read" ELSE "write"

\* The handler of do_accept: a session, and the next accept.
do_accept(k) ==
  /\ session[k].op = "fresh"
  /\ Complete(k, start, 0)
  /\ UNCHANGED echoed

\* do_read: what comes is kept in data_ and written.
do_read(k) ==
  /\ session[k].op = "read" /\ Len(echoed[k]) < MaxData
  /\ Complete(k, "write", Len(echoed[k]) + 1)
  /\ UNCHANGED echoed

\* do_write: the echo reads on, the others end.
do_write(k) ==
  /\ session[k].op = "write"
  /\ echoed' = [echoed EXCEPT ![k] = Append(@, session[k].data_)]
  /\ Complete(k, IF Echoes THEN "read" ELSE None, session[k].data_)

\* An error, or the end of the connection: the handler begins nothing.
Fails(k) ==
  /\ session[k].op \in Operations
  /\ Complete(k, None, 0)
  /\ UNCHANGED echoed

Next == \E k \in Clients : do_accept(k) \/ do_read(k) \/ do_write(k) \/ Fails(k)

-----------------------------------------------------------------------------

\* The block of a session belongs to the handler of its one operation: it is in
\* use exactly while that handler has it, never after the session is gone, and
\* the heap is needed for nothing but a handler that is too large.  Each client
\* gets back what it sent, in order.
MemoryReused ==
  \A k \in Clients :
    /\ memory[k] <=> session[k].block = "storage_"
    /\ session[k].block # None => session[k].op \in Operations
    /\ session[k].block = "heap" => session[k].op \notin SmallEnough
    /\ SmallEnough = Operations => heap[k] = 0
    /\ Echoes => echoed[k] = [i \in 1 .. Len(echoed[k]) |-> i]

-----------------------------------------------------------------------------
\* UDP

varsUdp == <<udp, sending, inbox, asked, answered, lost>>

Nobody == "nobody"

InitUdp ==
  /\ \E p \in {"daytime6", "daytime7", "fork_daemon"} :
       udp = [program |-> p, receiving |-> TRUE, remote_endpoint_ |-> Nobody]
  /\ sending = [k \in Clients |-> 0] /\ inbox = [k \in Clients |-> 0]
  /\ asked = [k \in Clients |-> 0] /\ answered = [k \in Clients |-> 0] /\ lost = [k \in Clients |-> 0]

Request(k) ==
  /\ asked[k] < MaxRequests
  /\ asked' = [asked EXCEPT ![k] = @ + 1]
  /\ inbox' = [inbox EXCEPT ![k] = @ + 1]
  /\ UNCHANGED <<udp, sending, answered, lost>>

\* Mutant of Destination: the endpoint is read when the reply is sent.
DestinationLate(k) == udp.remote_endpoint_

\* Where the reply that was begun for k goes: async_send_to keeps a copy of the
\* endpoint.
Destination(k) == k

\* A receive completes with a datagram of k.
Received(k) ==
  /\ udp.receiving /\ inbox[k] > 0
  /\ inbox' = [inbox EXCEPT ![k] = @ - 1]
  /\ udp' = [udp EXCEPT !.remote_endpoint_ = k]
  /\ UNCHANGED asked

\* handle_receive: the reply is begun, then the next receive.
handle_receive(k) ==
  /\ udp.program # "fork_daemon" /\ Received(k)
  /\ sending' = [sending EXCEPT ![k] = @ + 1] /\ UNCHANGED <<answered, lost>>

\* The daemon waits for its send_to, whose error it ignores.
receive(k) ==
  /\ udp.program = "fork_daemon" /\ Received(k)
  /\ \/ answered' = [answered EXCEPT ![k] = @ + 1] /\ UNCHANGED lost
     \/ lost' = [lost EXCEPT ![k] = @ + 1] /\ UNCHANGED answered
  /\ UNCHANGED sending

\* handle_send does nothing, whether the reply went out or not.
handle_send(k) ==
  /\ sending[k] > 0
  /\ sending' = [sending EXCEPT ![k] = @ - 1]
  /\ \/ answered' = [answered EXCEPT ![Destination(k)] = @ + 1] /\ UNCHANGED lost
     \/ lost' = [lost EXCEPT ![k] = @ + 1] /\ UNCHANGED answered
  /\ UNCHANGED <<udp, inbox, asked>>

\* The receive fails: only the daemon begins another.
ReceiveFails ==
  /\ udp.receiving
  /\ udp' = [udp EXCEPT !.receiving = udp.program = "fork_daemon"]
  /\ UNCHANGED <<sending, inbox, asked, answered, lost>>

NextUdp == ReceiveFails \/ \E k \in Clients : Request(k) \/ handle_receive(k) \/ receive(k) \/ handle_send(k)

-----------------------------------------------------------------------------

\* Every request is waiting, under way, lost or answered to the one who asked,
\* however many receives come between a request and its reply.
RepliesToAsker ==
  \A k \in Clients :
    asked[k] = inbox[k] + sending[k] + answered[k] + lost[k]

-----------------------------------------------------------------------------
\* Timers

varsTimer == <<program, count, timer, printed>>

Timers == 1 .. 2

Limit == IF program = "time5" THEN 10 ELSE 5

\* main of time3, and the constructor of the printer of time4.
OneTimer == program \in {"time3", "time4"} /\ timer = [t \in Timers |-> IF t = 1 THEN "waiting" ELSE "off"]

\* The constructor of the printer of time5.
TwoTimers == program = "time5" /\ timer = [t \in Timers |-> "waiting"]

InitTimer ==
  /\ OneTimer \/ TwoTimers
  /\ count = 0 /\ printed = <<>>

\* Mutant of StrandFree: the handlers are not bound to the strand.
StrandFreeAlways == TRUE

\* The strand, and the one thread of time3 and time4, run one handler at a time.
StrandFree == \A t \in Timers : timer[t] # "running"

\* The timer has expired; the handler finds the counter below the limit and
\* prints it.
print(t) ==
  /\ timer[t] = "waiting" /\ StrandFree /\ count < Limit
  /\ timer' = [timer EXCEPT ![t] = "running"]
  /\ printed' = Append(printed, count)
  /\ UNCHANGED <<program, count>>

\* It counts and waits again.
Again(t) ==
  /\ timer[t] = "running"
  /\ timer' = [timer EXCEPT ![t] = "waiting"]
  /\ count' = count + 1
  /\ UNCHANGED <<program, printed>>

Enough(t) ==
  /\ timer[t] = "waiting" /\ StrandFree /\ count >= Limit
  /\ timer' = [timer EXCEPT ![t] = "off"]
  /\ UNCHANGED <<program, count, printed>>

NextTimer == \E t \in Timers : print(t) \/ Again(t) \/ Enough(t)

-----------------------------------------------------------------------------

\* Every number below the limit is printed once, in order, whichever timer and
\* thread prints it, and run returns with the counter at the limit.
CountsOnce ==
  /\ \A i \in DOMAIN printed : printed[i] = i - 1
  /\ (\A t \in Timers : timer[t] = "off") => count = Limit /\ Len(printed) = Limit

\* run has not returned.
Counting == \E t \in Timers : timer[t] # "off"

==============================================================================
