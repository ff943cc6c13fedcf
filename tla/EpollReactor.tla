---------------------------- MODULE EpollReactor ----------------------------
(***************************************************************************)
(* Linux_Net/Reactor/02_epoll_loop.c: one thread, a table g_events with a  *)
(* callback per descriptor, an epoll set, and a sweep that closes idle     *)
(* connections.  The kernel gives closed descriptor numbers out again, the *)
(* table gives free entries out again, and the array that epoll_wait       *)
(* filled is worked off while both happen.                                 *)
(***************************************************************************)
EXTENDS Integers, FiniteSets

CONSTANTS
  MAX_EVENTS,   \* entries for connections; one more is the listener's
  SweepLength,  \* entries the sweep looks at in a round (100 in the code)
  Clients,      \* bound: each connects once
  MaxFd         \* the descriptors 1 .. MaxFd are those accept can return

VARIABLES
  g_events,     \* the entries of the connections
  checkpos,
  at,           \* where the main loop stands: "sweep", "wait", "events", or "exited"
  events,       \* what is left of the array epoll_wait filled; its order may be any
  stale,        \* entries whose last_active is 60 seconds ago
  peer,         \* kernel: the client behind each descriptor, None if closed
  epoll,        \* kernel: the entry and the event registered for each descriptor
  backlog,      \* kernel: clients that wait to be accepted
  sent,         \* kernel: clients with data that was not received
  fresh,        \* clients that have not connected
  misled        \* history: clients that were sent the data of another

kernelVars == <<peer, epoll, backlog, sent, fresh>>

vars == <<g_events, checkpos, at, events, stale, kernelVars, misled>>

None == "none"
Fds == 1 .. MaxFd
Entries == 0 .. MAX_EVENTS - 1
Listener == MAX_EVENTS

Unregistered == [entry |-> -1, events |-> None]

Unset == [fd |-> 0, call_back |-> None, events |-> None, status |-> 0, buf |-> None]

Init ==
  /\ g_events = [e \in Entries |-> Unset]
  /\ checkpos = 0 /\ at = "sweep" /\ events = {} /\ stale = {}
  /\ peer = [f \in Fds |-> None] /\ epoll = [f \in Fds |-> Unregistered]
  /\ backlog = {} /\ sent = {} /\ fresh = Clients
  /\ misled = {}

-----------------------------------------------------------------------------

\* eventset and eventadd of an entry that is not in the epoll set.
Listening(entry, fd, call_back, ev) ==
  [entry EXCEPT !.fd = fd, !.call_back = call_back, !.events = ev, !.status = 1]

\* eventdel
Deleted(entry) == [entry EXCEPT !.status = 0]

Registered(e, ev) == [entry |-> e, events |-> ev]

\* The kernel forgets a descriptor that is closed, also in the epoll set.
CloseAll(fds) ==
  /\ peer' = [f \in Fds |-> IF f \in fds THEN None ELSE peer[f]]
  /\ epoll' = [f \in Fds |-> IF f \in fds THEN Unregistered ELSE epoll[f]]

\* The entries the sweep looks at in this round.
Swept == {(checkpos + k) % MAX_EVENTS : k \in 0 .. SweepLength - 1}

\* Mutant of NextCheck: every round begins with the first entry.
NextCheckFirst == 0

\* checkpos after the round: wrapped at the head of the loop, so that it may be
\* left one past the end.
NextCheck == ((checkpos + SweepLength - 1) % MAX_EVENTS) + 1

\* The sweep at the top of the main loop.
Sweep ==
  /\ at = "sweep" /\ at' = "wait"
  /\ checkpos' = NextCheck
  /\ LET idle == {e \in Swept : g_events[e].status = 1 /\ e \in stale}
     IN  /\ g_events' = [e \in Entries |-> IF e \in idle THEN Deleted(g_events[e]) ELSE g_events[e]]
         /\ CloseAll({g_events[e].fd : e \in idle})
  /\ UNCHANGED <<events, stale, backlog, sent, fresh, misled>>

Waiting(ev) == {f \in Fds : epoll[f].events = ev}

\* epoll_wait: the entries whose event has come.  A descriptor is
\* readable when data have come, and also when the connection has ended or
\* failed; it is writable when the kernel says so.
Wait ==
  /\ at = "wait"
  /\ \E ended \in SUBSET Waiting("EPOLLIN"), writable \in SUBSET Waiting("EPOLLOUT") :
       LET readable == ended \cup {f \in Waiting("EPOLLIN") : peer[f] \in sent}
           ready == {epoll[f] : f \in readable \cup writable}
                      \cup (IF backlog # {} THEN {Registered(Listener, "EPOLLIN")} ELSE {})
       IN  /\ events' = ready
           /\ at' = IF ready = {} THEN "sweep" ELSE "events"
  /\ UNCHANGED <<g_events, checkpos, stale, kernelVars, misled>>

\* epoll_wait fails, interrupted for instance: the loop is left.
WaitFails ==
  /\ at = "wait" /\ at' = "exited"
  /\ UNCHANGED <<g_events, checkpos, events, stale, kernelVars, misled>>

\* The next element of the array: its callback is called if the entry still
\* waits for that event.
Dispatch(ev) ==
  /\ at = "events"
  /\ events' = events \ {ev}
  /\ at' = IF events = {ev} THEN "sweep" ELSE "events"
  /\ UNCHANGED <<checkpos, fresh>>

CallsBack(ev, call_back) ==
  /\ ev.entry # Listener
  /\ g_events[ev.entry].events = ev.events
  /\ g_events[ev.entry].call_back = call_back

Calls(ev, call_back) == Dispatch(ev) /\ CallsBack(ev, call_back)

\* Mutant of FreeEntries: the first entry is always taken.
FreeEntriesAny == {0}

FreeEntries == {e \in Entries : g_events[e].status = 0}

Least(S) == CHOOSE x \in S : \A y \in S : x <= y

\* acceptconn: accept fails, or gives the least free descriptor.  With the
\* table full or fcntl failing the descriptor is neither stored nor closed.
acceptconn(ev) ==
  /\ Dispatch(ev)
  /\ ev.entry = Listener
  /\ \/ UNCHANGED <<g_events, stale, peer, epoll, backlog>>
     \/ /\ \E f \in Fds : peer[f] = None
        /\ \E k \in backlog :
             LET cfd == Least({f \in Fds : peer[f] = None})
             IN  /\ backlog' = backlog \ {k}
                 /\ peer' = [peer EXCEPT ![cfd] = k]
                 /\ \/ UNCHANGED <<g_events, stale, epoll>>
                    \/ /\ FreeEntries # {}
                       /\ LET e == Least(FreeEntries)
                          IN  /\ g_events' = [g_events EXCEPT ![e] = Listening(@, cfd, "recvdata", "EPOLLIN")]
                              /\ stale' = stale \ {e}
                              /\ epoll' = [epoll EXCEPT ![cfd] = Registered(e, "EPOLLIN")]
  /\ UNCHANGED <<sent, misled>>

\* Mutant of ReceiveData: the data are put behind those of an earlier call.
ReceiveDataBehind(ev) ==
  /\ Calls(ev, "recvdata")
  /\ LET e == ev.entry  fd == g_events[e].fd
         first == IF g_events[e].buf = None THEN peer[fd] ELSE g_events[e].buf
     IN  /\ peer[fd] \in sent
         /\ sent' = sent \ {peer[fd]}
         /\ g_events' = [g_events EXCEPT ![e] = [Listening(@, fd, "senddata", "EPOLLOUT") EXCEPT !.buf = first]]
         /\ stale' = stale \ {e}
         /\ epoll' = [epoll EXCEPT ![fd] = Registered(e, "EPOLLOUT")]
  /\ UNCHANGED <<peer, backlog, misled>>

\* recvdata when there are data: they are kept in the entry and will be sent.
ReceiveData(ev) ==
  /\ Calls(ev, "recvdata")
  /\ LET e == ev.entry  fd == g_events[e].fd
     IN  /\ peer[fd] \in sent
         /\ sent' = sent \ {peer[fd]}
         /\ g_events' = [g_events EXCEPT ![e] = [Listening(@, fd, "senddata", "EPOLLOUT") EXCEPT !.buf = peer[fd]]]
         /\ stale' = stale \ {e}
         /\ epoll' = [epoll EXCEPT ![fd] = Registered(e, "EPOLLOUT")]
  /\ UNCHANGED <<peer, backlog, misled>>

\* recvdata at the end of the connection or after an error.
ReceiveEnd(ev) ==
  /\ Calls(ev, "recvdata")
  /\ LET e == ev.entry
     IN  /\ g_events' = [g_events EXCEPT ![e] = Deleted(@)]
         /\ CloseAll({g_events[e].fd})
  /\ UNCHANGED <<stale, backlog, sent, misled>>

\* senddata when send takes the data, or a part of them: back to reading.
SendData(ev) ==
  /\ Calls(ev, "senddata")
  /\ LET e == ev.entry  fd == g_events[e].fd
     IN  /\ misled' = IF g_events[e].buf = peer[fd] THEN misled ELSE misled \cup {peer[fd]}
         /\ g_events' = [g_events EXCEPT ![e] = Listening(@, fd, "recvdata", "EPOLLIN")]
         /\ stale' = stale \ {e}
         /\ epoll' = [epoll EXCEPT ![fd] = Registered(e, "EPOLLIN")]
  /\ UNCHANGED <<peer, backlog, sent>>

SendFails(ev) ==
  /\ Calls(ev, "senddata")
  /\ LET e == ev.entry
     IN  /\ g_events' = [g_events EXCEPT ![e] = Deleted(@)]
         /\ CloseAll({g_events[e].fd})
  /\ UNCHANGED <<stale, backlog, sent, misled>>

\* send is called without MSG_NOSIGNAL: to a client that has gone it may end
\* the process.
SendKills(ev) ==
  /\ at = "events" /\ CallsBack(ev, "senddata")
  /\ at' = "exited" /\ events' = {}
  /\ UNCHANGED <<g_events, checkpos, stale, kernelVars, misled>>

main ==
  \/ Sweep \/ Wait \/ WaitFails
  \/ \E ev \in events :
       \/ acceptconn(ev) \/ ReceiveData(ev) \/ ReceiveEnd(ev)
       \/ SendData(ev) \/ SendFails(ev) \/ SendKills(ev)

-----------------------------------------------------------------------------

Connect(k) ==
  /\ k \in fresh
  /\ fresh' = fresh \ {k} /\ backlog' = backlog \cup {k}
  /\ UNCHANGED <<g_events, checkpos, at, events, stale, peer, epoll, sent, misled>>

ClientSends(k) ==
  /\ k \notin fresh \cup sent
  /\ sent' = sent \cup {k}
  /\ UNCHANGED <<g_events, checkpos, at, events, stale, peer, epoll, backlog, fresh, misled>>

\* Sixty seconds pass without an eventset of the entry.
TimePasses(e) ==
  /\ g_events[e].status = 1 /\ e \notin stale
  /\ stale' = stale \cup {e}
  /\ UNCHANGED <<g_events, checkpos, at, events, kernelVars, misled>>

Environment ==
  \/ \E k \in Clients : Connect(k) \/ ClientSends(k)
  \/ \E e \in Entries : TimePasses(e)

Next == main \/ Environment

\* The loop runs on while the process does: epoll_wait returns after a second at
\* the latest.
Spec == Init /\ [][Next]_vars /\ WF_vars(main)

-----------------------------------------------------------------------------

InUse == {e \in Entries : g_events[e].status = 1}

\* Every variable keeps its type.
TypeOK ==
  /\ checkpos \in 0 .. MAX_EVENTS
  /\ at \in {"sweep", "wait", "events", "exited"} /\ (at = "events" <=> events # {})
  /\ \A e \in Entries : g_events[e].fd \in 0 .. MaxFd
  /\ \A e \in InUse : g_events[e].fd \in Fds

\* The entries with status 1 and the epoll set are the same, each with its own
\* descriptor, which is open, and with the callback for the event it waits for;
\* and what is left of the array of events belongs to entries that still wait
\* for that event, although callbacks have closed descriptors and accepted new
\* ones since epoll_wait.
TableMatchesEpoll ==
  /\ \A f \in Fds : epoll[f] # Unregistered =>
       /\ peer[f] # None
       /\ epoll[f].entry \in InUse /\ g_events[epoll[f].entry].fd = f
       /\ g_events[epoll[f].entry].events = epoll[f].events
  /\ \A e \in InUse :
       /\ epoll[g_events[e].fd].entry = e
       /\ g_events[e].call_back = IF g_events[e].events = "EPOLLIN" THEN "recvdata" ELSE "senddata"
  /\ \A ev \in events :
       ev.entry # Listener => ev.entry \in InUse /\ g_events[ev.entry].events = ev.events

\* Entries and descriptors are used again, their buffers are never cleared, and
\* still no client is sent the data of another.
OwnDataOnly == misled = {}

=============================================================================
