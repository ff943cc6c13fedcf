---------------------------- MODULE SimpleReactor ----------------------------
(***************************************************************************)
(* Linux_Net/Reactor/01_simple_reactor.c: a callback for every element of  *)
(* myevents.  The search for a free element stops behind the last one for  *)
(* connections, which is the listener's: a full table overwrites it.       *)
(***************************************************************************)
EXTENDS Sockets

CONSTANT EVENT_SIZE   \* elements for connections; one more is the listener's

Elements == 0 .. EVENT_SIZE

NoEvent == [fd |-> 0, events |-> None, call_back |-> None, buf |-> None]

Event(fd, events, call_back, buf) == [fd |-> fd, events |-> events, call_back |-> call_back, buf |-> buf]

\* epoll: the element and the event registered for each descriptor; overwritten:
\* history, the listener has lost its element.
Init ==
  /\ InitNet
  /\ srv = [at |-> "wait", overwritten |-> FALSE, ready |-> {},
            myevents |-> [e \in Elements |-> IF e = EVENT_SIZE THEN Event(Listener, "EPOLLIN", "initAccept", None) ELSE NoEvent],
            epoll |-> [f \in Fds |-> [xev |-> IF f = Listener THEN EVENT_SIZE ELSE -1,
                                      events |-> IF f = Listener THEN "EPOLLIN" ELSE None]]]

Waiting(ev) == {f \in Fds : srv.epoll[f].events = ev}

Wait ==
  /\ srv.at = "wait"
  /\ \E writable \in SUBSET Waiting("EPOLLOUT") :
       LET ready == {f \in Waiting("EPOLLIN") : Readable(f)} \cup writable
       IN  /\ ready # {}
           /\ srv' = [srv EXCEPT !.ready = {srv.epoll[f] : f \in ready}, !.at = "events"]
  /\ UNCHANGED net

\* The element of an event is asked for its callback when the event is handled.
Done(state, ev) ==
  [state EXCEPT !.ready = @ \ {ev}, !.at = IF @ = "exited" THEN @ ELSE IF srv.ready = {ev} THEN "wait" ELSE "events"]

Calls(ev, call_back) ==
  /\ srv.at = "events" /\ ev \in srv.ready
  /\ srv.myevents[ev.xev].events = ev.events
  /\ srv.myevents[ev.xev].call_back = call_back

\* event_add and event_set
event_set(fd, events, call_back, e, buf) ==
  [srv EXCEPT !.myevents[e] = Event(fd, events, call_back, buf), !.epoll[fd] = [xev |-> e, events |-> events]]

event_del(fd, e) ==
  [srv EXCEPT !.myevents[e] = NoEvent, !.epoll[fd] = [xev |-> -1, events |-> None]]

\* Mutant of FreeElements: an element is free while it waits for nothing to read.
FreeElementsIdle == {e \in 0 .. EVENT_SIZE - 1 : srv.myevents[e].events # "EPOLLIN"}

FreeElements == {e \in 0 .. EVENT_SIZE - 1 : srv.myevents[e].fd = 0}

initAccept(ev) ==
  /\ Calls(ev, "initAccept")
  /\ \E k \in net.backlog : Accepting(k)
  /\ LET i == Min(FreeElements \cup {EVENT_SIZE})
     IN  srv' = Done([event_set(NewFd, "EPOLLIN", "read_data", i, srv.myevents[i].buf)
                        EXCEPT !.overwritten = i = EVENT_SIZE], ev)

\* Read blocks when the event is the listener's and the element a client's.
read_data(ev) ==
  /\ Calls(ev, "read_data")
  /\ LET e == ev.xev  fd == srv.myevents[e].fd
     IN  CASE ReadResult(fd) = "data" ->
                net' = ReadFrom(fd) /\ srv' = Done(event_set(fd, "EPOLLOUT", "send_data", e, net.peer[fd]), ev)
           [] ReadResult(fd) = "end" -> net' = Close(fd) /\ srv' = Done(event_del(fd, e), ev)
           [] ReadResult(fd) = "error" -> net' = ReadFrom(fd) /\ srv' = Done(srv, ev)
           [] OTHER -> FALSE

send_data(ev) ==
  /\ Calls(ev, "send_data")
  /\ LET e == ev.xev  fd == srv.myevents[e].fd
     IN  /\ net' = WriteTo(fd, srv.myevents[e].buf)
         /\ \E at \in AfterWrite(fd, "events") :
              srv' = Done([event_set(fd, "EPOLLIN", "read_data", e, srv.myevents[e].buf) EXCEPT !.at = at], ev)

NotCalled(ev) ==
  /\ srv.at = "events" /\ ev \in srv.ready /\ srv.myevents[ev.xev].events # ev.events
  /\ srv' = Done(srv, ev)
  /\ UNCHANGED net

main == Wait \/ \E ev \in srv.ready : initAccept(ev) \/ read_data(ev) \/ send_data(ev) \/ NotCalled(ev)

Next == main \/ Network

-----------------------------------------------------------------------------

\* Every open connection has an element of its own that waits for the event the
\* epoll set has for it, also the one that overwrote the listener's element; the
\* listener has its element until then.
TableMatchesEpoll ==
  /\ Open = {f \in Fds \ {Listener} : srv.epoll[f].events # None}
  /\ \A f \in Open : LET e == srv.myevents[srv.epoll[f].xev] IN e.fd = f /\ e.events = srv.epoll[f].events
  /\ ~srv.overwritten => srv.myevents[EVENT_SIZE].fd = Listener

\* No client is sent the data of another, through elements and descriptors that
\* are used again.
OwnDataOnly == net.misled = {}

=============================================================================
