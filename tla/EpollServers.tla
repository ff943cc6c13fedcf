---------------------------- MODULE EpollServers -----------------------------
(***************************************************************************)
(* Three kinds of programs with epoll.  In epoll_concurrent/server.c the   *)
(* loop that turns the n bytes it has read into capitals uses the index of *)
(* the loop over ep[], so that the next event is number n + 1 instead of   *)
(* i + 1: events are left for the next round or handled twice.  In         *)
(* Linux_Net/04.../server.cpp (names with 04) data are read on one event   *)
(* and written back on the next, through one buffer that all connections   *)
(* share and only a write clears.  In epoll_ET_LT (names with Edge) a      *)
(* writer sends ten bytes at a time and a reader is told of them           *)
(* edge-triggered and reads five at a time: once for each event (1-epoll,  *)
(* a pipe, and 2-block_epoll, a socket), or until there is nothing more    *)
(* (3-noblock_epoll).                                                      *)
(***************************************************************************)
EXTENDS Sockets, SequencesExt

CONSTANTS
  MaxRead,   \* bound: the bytes one Read returns, less than MAXSIZE
  MaxWrites  \* bound: the writes of the writer of epoll_ET_LT

\* i counts from 0 as in the code; handled: history, the descriptors whose event
\* was handled in this round.
Init == InitNet /\ srv = [at |-> "wait", tree |-> {Listener}, ep |-> <<>>, i |-> 0, handled |-> {}]

Wait ==
  /\ srv.at = "wait"
  /\ LET ready == {f \in srv.tree : Readable(f)}
     IN  ready # {} /\ \E ep \in SetToSeqs(ready) : srv' = [srv EXCEPT !.ep = ep, !.i = 0, !.handled = {}, !.at = "events"]
  /\ UNCHANGED net

Current == srv.ep[srv.i + 1]

\* The loop goes on with event i, if the process does.
GoOn(state, i) ==
  [state EXCEPT !.i = i, !.handled = @ \cup {Current}, !.at = IF i < Len(srv.ep) \/ @ = "exited" THEN @ ELSE "wait"]

\* The events of the listening descriptor are handled again as well: Accept
\* waits until there is a client.
Accept ==
  /\ srv.at = "events" /\ Current = Listener
  /\ \E k \in net.backlog : Accepting(k)
  /\ srv' = GoOn([srv EXCEPT !.tree = @ \cup {NewFd}], srv.i + 1)

\* The index after the n bytes were turned into capitals.
AfterEcho(n) == n + 1

\* Read blocks on an event that is handled again; on a descriptor that was
\* closed meanwhile it fails, and so does Close, which ends the program.
Read ==
  /\ srv.at = "events" /\ Current # Listener
  /\ LET sockfd == Current
     IN  CASE ReadResult(sockfd) = "data" ->
                /\ net' = ReadFrom(sockfd)
                /\ \E n \in 1 .. MaxRead : \E at \in AfterWrite(sockfd, "events") :
                     srv' = GoOn([srv EXCEPT !.at = at], AfterEcho(n))
           [] ReadResult(sockfd) \in {"end", "error"} ->
                /\ net' = Close(sockfd)
                /\ srv' = GoOn([srv EXCEPT !.tree = @ \ {sockfd}], srv.i + 1)
           [] ReadResult(sockfd) = "bad" -> srv' = [srv EXCEPT !.at = "exited"] /\ UNCHANGED net
           [] OTHER -> FALSE

main == Wait \/ Accept \/ Read

Next == main \/ Network

-----------------------------------------------------------------------------

\* The tree holds the listening descriptor and the open connections, and a call
\* can only block or fail for an event that was handled before in the round.
Bookkeeping ==
  /\ srv.tree = {Listener} \cup Open
  /\ srv.at = "events" /\ Current \notin srv.handled => Readable(Current)

-----------------------------------------------------------------------------
\* Linux_Net/04.../server.cpp

Cleared == [c \in 1 .. MaxRead |-> None]

\* epoll: the event each descriptor is registered for; buf: whose byte each of the
\* first MaxRead is, None for NUL, which no client sends; crossed: history, the
\* connections that did not have the buffer for themselves.
Init04 ==
  /\ InitNet
  /\ srv = [at |-> "wait", epoll |-> [f \in Fds |-> IF f = Listener THEN "EPOLLIN" ELSE None],
            events |-> {}, buf |-> Cleared, crossed |-> {}]

Waiting(ev) == {f \in Fds : srv.epoll[f] = ev}

\* epoll_wait: readable descriptors, and writable ones as the kernel says.
do_epoll ==
  /\ srv.at = "wait"
  /\ \E writable \in SUBSET Waiting("EPOLLOUT") :
       LET ready == {f \in Waiting("EPOLLIN") : Readable(f)} \cup writable
       IN  ready # {} /\ srv' = [srv EXCEPT !.events = ready, !.at = "events"]
  /\ UNCHANGED net

\* The events are handled in the order of the array, which may be any.
handle_events(fd, state) ==
  [state EXCEPT !.events = @ \ {fd}, !.at = IF @ = "exited" THEN @ ELSE IF srv.events = {fd} THEN "wait" ELSE "events"]

modify_event(state, fd, ev) == [state EXCEPT !.epoll[fd] = ev]

handle_accept ==
  /\ srv.at = "events" /\ Listener \in srv.events
  /\ \/ UNCHANGED net /\ srv' = handle_events(Listener, srv)
     \/ /\ \E k \in net.backlog : Accepting(k)
        /\ srv' = handle_events(Listener, modify_event(srv, NewFd, "EPOLLIN"))

\* The connections whose data wait in the buffer beside those of fd.
Others(fd) == Waiting("EPOLLOUT") \ {fd}

\* Those that do not have the buffer for themselves once fd has read.
Crossing(fd) == (srv.crossed \ {fd}) \cup (IF Others(fd) = {} THEN {} ELSE Others(fd) \cup {fd})

\* read overwrites the first n bytes and leaves the others.
do_read(fd) ==
  /\ srv.at = "events" /\ fd \in srv.events \ {Listener} /\ srv.epoll[fd] = "EPOLLIN"
  /\ IF ReadResult(fd) = "data"
     THEN /\ net' = ReadFrom(fd)
          /\ \E n \in 1 .. MaxRead :
               srv' = handle_events(fd, [modify_event(srv, fd, "EPOLLOUT") EXCEPT
                                           !.buf = [c \in 1 .. MaxRead |-> IF c <= n THEN net.peer[fd] ELSE @[c]],
                                           !.crossed = Crossing(fd)])
     ELSE net' = Close(fd) /\ srv' = handle_events(fd, modify_event(srv, fd, None))

\* The strlen(buf) bytes in front of the first NUL.
Text == {srv.buf[c] : c \in {b \in 1 .. MaxRead : \A a \in 1 .. b : srv.buf[a] # None}}

\* Mutant of do_write: the buffer is cleared only when the write succeeds.
do_writeClearsLess(fd) ==
  /\ srv.at = "events" /\ fd \in srv.events /\ srv.epoll[fd] = "EPOLLOUT"
  /\ \/ /\ net' = IF Text \subseteq {net.peer[fd]} THEN net ELSE [net EXCEPT !.misled = @ \cup {net.peer[fd]}]
        /\ \E at \in AfterWrite(fd, "events") :
             srv' = handle_events(fd, [modify_event(srv, fd, "EPOLLIN") EXCEPT !.buf = Cleared, !.at = at,
                                         !.crossed = @ \ {fd}])
     \/ /\ net.peer[fd] \in net.left
        /\ net' = Close(fd)
        /\ srv' = handle_events(fd, [modify_event(srv, fd, None) EXCEPT !.crossed = @ \ {fd}])

\* write of strlen(buf) bytes, none when the buffer was cleared meanwhile; the
\* buffer is cleared in any case.
do_write(fd) ==
  /\ srv.at = "events" /\ fd \in srv.events /\ srv.epoll[fd] = "EPOLLOUT"
  /\ \/ /\ net' = IF Text \subseteq {net.peer[fd]} THEN net ELSE [net EXCEPT !.misled = @ \cup {net.peer[fd]}]
        /\ \E at \in AfterWrite(fd, "events") :
             srv' = handle_events(fd, [modify_event(srv, fd, "EPOLLIN") EXCEPT !.buf = Cleared, !.at = at,
                                         !.crossed = @ \ {fd}])
     \/ /\ net.peer[fd] \in net.left
        /\ net' = Close(fd)
        /\ srv' = handle_events(fd, [modify_event(srv, fd, None) EXCEPT !.buf = Cleared, !.crossed = @ \ {fd}])

main04 == do_epoll \/ handle_accept \/ \E fd \in Fds : do_read(fd) \/ do_write(fd)

Next04 == main04 \/ Network

-----------------------------------------------------------------------------

\* Every open connection is registered for one event and nothing else is.  The
\* buffer holds data only while a connection waits to write.  So one that read
\* and was alone until it writes sends back its own data and nothing else; two
\* that wait at the same time may be sent what the other has left in the buffer,
\* or nothing.
Bookkeeping04 ==
  /\ {f \in Fds : srv.epoll[f] # None} = {Listener} \cup Open
  /\ Waiting("EPOLLOUT") = {} => srv.buf = Cleared
  /\ \A f \in Waiting("EPOLLOUT") \ srv.crossed : Text = {net.peer[f]} /\ Waiting("EPOLLOUT") = {f}

-----------------------------------------------------------------------------
\* moreIO_concurrent/epoll_ET_LT.  srv is the reader: program, where it stands, what
\* it has printed, the events it was told of; net is what was written, and whether
\* there is an event epoll has not reported.  The unit is half a buffer.

InitEdge ==
  /\ \E program \in {"1-epoll", "2-block_epoll", "3-noblock_epoll"} :
       srv = [program |-> program, at |-> "wait", out |-> 0, told |-> 0]
  /\ net = [written |-> 0, edge |-> FALSE]

UnreadEdge == net.written - srv.out

\* The child of 1-epoll and the clients: both halves in one write.
WriteEdge ==
  /\ net.written < 2 * MaxWrites
  /\ net' = [written |-> net.written + 2, edge |-> TRUE]
  /\ UNCHANGED srv

WaitEdge ==
  /\ srv.at = "wait" /\ net.edge
  /\ net' = [net EXCEPT !.edge = FALSE]
  /\ srv' = [srv EXCEPT !.at = "read", !.told = @ + 1]

\* One read for the event.
ReadOnce ==
  /\ srv.at = "read" /\ srv.program # "3-noblock_epoll"
  /\ UnreadEdge > 0
  /\ srv' = [srv EXCEPT !.out = @ + 1, !.at = "wait"]
  /\ UNCHANGED net

\* Mutant of ReadAll: an event is good for one read.
ReadAllOnce ==
  /\ srv.at = "read" /\ srv.program = "3-noblock_epoll"
  /\ srv' = [srv EXCEPT !.out = IF UnreadEdge > 0 THEN @ + 1 ELSE @, !.at = "wait"]
  /\ UNCHANGED net

\* Reads until the descriptor, which does not block, has nothing more.
ReadAll ==
  /\ srv.at = "read" /\ srv.program = "3-noblock_epoll"
  /\ srv' = IF UnreadEdge > 0 THEN [srv EXCEPT !.out = @ + 1] ELSE [srv EXCEPT !.at = "wait"]
  /\ UNCHANGED net

NextEdge == WriteEdge \/ WaitEdge \/ ReadOnce \/ ReadAll

-----------------------------------------------------------------------------

\* The reader that reads until nothing is left has nothing unread when it waits
\* with no event to come.  One that reads once for an event falls behind by one
\* half for every write and never catches up: it reads as often as it was told,
\* and its read never blocks.
NothingLeftBehind ==
  IF srv.program = "3-noblock_epoll"
  THEN srv.at = "wait" /\ ~net.edge => UnreadEdge = 0
  ELSE /\ srv.told = srv.out + (IF srv.at = "read" THEN 1 ELSE 0)
       /\ 2 * srv.told <= net.written
       /\ srv.at = "read" => UnreadEdge > 0

==============================================================================
