---------------------------- MODULE SelectServers ----------------------------
(***************************************************************************)
(* Two servers with select.  moreIO_concurrent/select_concurrent/server.c: *)
(* client[] with -1 for free entries, allset, and the copy of it select    *)
(* fills.  Linux_Net/02.../server.cpp (names with 02): the set is built    *)
(* anew in each round, a new client is welcomed and waited for.            *)
(***************************************************************************)
EXTENDS Sockets

CONSTANTS
  FD_SETSIZE,  \* entries of client[], and the descriptors an fd_set has room for
  MaxConn      \* entries of client_sockfd in 02, 5 in the code

Slots == 0 .. FD_SETSIZE - 1

Init ==
  /\ InitNet
  /\ srv = [at |-> "select", client |-> [s \in Slots |-> -1], maxi |-> -1, maxfd |-> Listener,
            allset |-> {Listener}, rset |-> {}, nready |-> 0, i |-> 0]

Select ==
  /\ srv.at = "select"
  /\ LET ready == {f \in srv.allset : f <= srv.maxfd /\ Readable(f)}
     IN  /\ ready # {}
         /\ srv' = [srv EXCEPT !.rset = ready, !.nready = Cardinality(ready), !.i = 0,
                               !.at = IF Listener \in ready THEN "accept" ELSE "scan"]
  /\ UNCHANGED net

FreeSlots == {s \in Slots : srv.client[s] < 0}

\* A full client[] ends the program.  FD_SET of a descriptor the set has no room
\* for writes behind it, and anything may follow.
Accept ==
  /\ srv.at = "accept"
  /\ \E k \in net.backlog : Accepting(k)
  /\ LET connfd == NewFd  i == Min(FreeSlots)
     IN  srv' = IF FreeSlots = {} THEN [srv EXCEPT !.at = "full"]
                ELSE IF connfd >= FD_SETSIZE THEN [srv EXCEPT !.client[i] = connfd, !.at = "overrun"]
                ELSE [srv EXCEPT !.client[i] = connfd, !.allset = @ \cup {connfd},
                                 !.maxfd = Max({@, connfd}), !.maxi = Max({@, i}), !.nready = @ - 1,
                                 !.at = IF srv.nready = 1 THEN "select" ELSE "scan"]

\* The entries the loop still has to handle.
Due == {s \in srv.i .. srv.maxi : srv.client[s] >= 0 /\ srv.client[s] \in srv.rset}

\* Mutant of CountDown: the last descriptor that is ready is left to the next round.
CountDownEarly(state, s) ==
  [state EXCEPT !.nready = @ - 1, !.i = s + 1, !.at = IF state.nready <= 2 THEN "select" ELSE @]

\* --nready, and out of the loop when nothing else is ready.
CountDown(state, s) ==
  [state EXCEPT !.nready = @ - 1, !.i = s + 1, !.at = IF state.nready = 1 THEN "select" ELSE @]

\* Read of the next entry that is ready: echo, forget at the end; an error
\* changes nothing.
ReadClient ==
  /\ srv.at = "scan" /\ Due # {}
  /\ LET s == Min(Due)  sockfd == srv.client[s]
     IN  CASE ReadResult(sockfd) = "end" ->
                /\ net' = Close(sockfd)
                /\ srv' = CountDown([srv EXCEPT !.allset = @ \ {sockfd}, !.client[s] = -1], s)
           [] ReadResult(sockfd) = "data" ->
                /\ net' = ReadFrom(sockfd)
                /\ \E at \in AfterWrite(sockfd, CountDown(srv, s).at) : srv' = [CountDown(srv, s) EXCEPT !.at = at]
           [] ReadResult(sockfd) = "error" ->
                net' = ReadFrom(sockfd) /\ srv' = CountDown(srv, s)

EndOfScan ==
  /\ srv.at = "scan" /\ Due = {}
  /\ srv' = [srv EXCEPT !.at = "select"]
  /\ UNCHANGED net

main == Select \/ Accept \/ ReadClient \/ EndOfScan

Next == main \/ Network

-----------------------------------------------------------------------------

Running == srv.at \notin {"exited", "full", "overrun"}

\* client[], allset, maxi, maxfd and the descriptors that are open say the same
\* as descriptors are closed and given out again, and nready counts exactly the
\* entries still to be handled, so that leaving the loop at 0 skips nobody; and
\* client[] is never full: a descriptor outgrows the set before.
Bookkeeping ==
  /\ srv.at # "full"
  /\ Running =>
       /\ srv.allset = {Listener} \cup Open
       /\ Open = {srv.client[s] : s \in Slots \ FreeSlots}
       /\ Cardinality(Open) = Cardinality(Slots \ FreeSlots)
       /\ \A f \in Open : f <= srv.maxfd
       /\ \A s \in Slots \ FreeSlots : s <= srv.maxi
       /\ srv.at = "scan" => srv.nready = Cardinality(Due)

\* A client in client[] has sent data that are still to be read.
Unread(k) == k \in net.sent /\ Running /\ \E f \in Open : net.peer[f] = k

-----------------------------------------------------------------------------
\* Linux_Net/02.../server.cpp

Slots02 == 0 .. MaxConn - 1

\* leaked: history, the descriptors that are open and stored nowhere.
Init02 ==
  /\ InitNet
  /\ srv = [at |-> "select", client_sockfd |-> [s \in Slots02 |-> 0], conn_amount |-> 0, maxsock |-> Listener,
            client_fdset |-> {}, i |-> 0, sock_client |-> 0, leaked |-> {}]

Stored == {srv.client_sockfd[s] : s \in Slots02} \ {0}

\* A timeout goes round the loop and changes nothing.
Select02 ==
  /\ srv.at = "select"
  /\ LET ready == {f \in {Listener} \cup Stored : f <= srv.maxsock /\ Readable(f)}
     IN  ready # {} /\ srv' = [srv EXCEPT !.client_fdset = ready, !.i = 0, !.at = "poll"]
  /\ UNCHANGED net

Due02 == {s \in srv.i .. srv.conn_amount - 1 : srv.client_sockfd[s] \in srv.client_fdset}

Recv ==
  /\ srv.at = "poll" /\ Due02 # {}
  /\ LET s == Min(Due02)  f == srv.client_sockfd[s]
     IN  IF ReadResult(f) = "data"
         THEN net' = ReadFrom(f) /\ srv' = [srv EXCEPT !.i = s + 1]
         ELSE /\ net' = Close(f)
              /\ srv' = [srv EXCEPT !.i = s + 1, !.client_fdset = @ \ {f}, !.client_sockfd[s] = 0]

Polled ==
  /\ srv.at = "poll" /\ Due02 = {}
  /\ srv' = [srv EXCEPT !.at = IF Listener \in srv.client_fdset THEN "accept" ELSE "select"]
  /\ UNCHANGED net

AcceptFails ==
  /\ srv.at = "accept"
  /\ srv' = [srv EXCEPT !.at = "select"]
  /\ UNCHANGED net

\* conn_amount never goes down: after MaxConn clients every further one is
\* accepted and forgotten.
Accept02 ==
  /\ srv.at = "accept"
  /\ \E k \in net.backlog :
       /\ Accepting(k)
       /\ IF srv.conn_amount < MaxConn
          THEN \E at \in {"recv"} \cup (IF k \in net.left THEN {"exited"} ELSE {}) :
                 srv' = [srv EXCEPT !.client_sockfd[srv.conn_amount] = NewFd, !.conn_amount = @ + 1,
                                    !.sock_client = NewFd, !.at = at]
          ELSE srv' = [srv EXCEPT !.leaked = @ \cup {NewFd}, !.at = "select"]

\* Mutant of RecvFirst: the largest descriptor is not brought up to date.
RecvFirstOld ==
  /\ srv.at = "recv" /\ ReadResult(srv.sock_client) # "blocks"
  /\ net' = ReadFrom(srv.sock_client)
  /\ srv' = [srv EXCEPT !.at = IF ReadResult(srv.sock_client) = "error" THEN "exited" ELSE "select"]

\* The recv after the welcome blocks the server until the client sends or goes.
RecvFirst ==
  /\ srv.at = "recv" /\ ReadResult(srv.sock_client) # "blocks"
  /\ net' = ReadFrom(srv.sock_client)
  /\ srv' = IF ReadResult(srv.sock_client) = "error" THEN [srv EXCEPT !.at = "exited"]
            ELSE [srv EXCEPT !.maxsock = Max({@, srv.sock_client}), !.at = "select"]

main02 == Select02 \/ Recv \/ Polled \/ AcceptFails \/ Accept02 \/ RecvFirst

Next02 == main02 \/ Network

-----------------------------------------------------------------------------

\* What is open is stored once or was given up, select is asked for every
\* stored descriptor, and only a client that came too late was given up.
Bookkeeping02 ==
  /\ Open = Stored \cup srv.leaked /\ Stored \cap srv.leaked = {}
  /\ Cardinality(Stored) = Cardinality({s \in Slots02 : srv.client_sockfd[s] # 0})
  /\ srv.at \notin {"recv", "exited"} => \A f \in Stored : f <= srv.maxsock
  /\ srv.leaked # {} => srv.conn_amount = MaxConn

\* The data of a stored client are still to be read, and the server does not
\* wait for another client.
Unread02(k) ==
  k \in net.sent /\ srv.at \notin {"recv", "exited"} /\ \E f \in Stored : net.peer[f] = k

==============================================================================
