----------------------------- MODULE PollServers -----------------------------
(***************************************************************************)
(* Two servers with poll, and one with threads.                            *)
(* moreIO_concurrent/poll_conncurrent/server.c: the array client[] of      *)
(* pollfd, its first element for the listening descriptor.                 *)
(* Linux_Net/03.../server.cpp (names with 03): the assignment in line 72   *)
(* binds less tightly than ==, so connfd is 0 whenever accept succeeds:    *)
(* what the array holds is the descriptor 0, standard input, or a client   *)
(* once 0 has been closed.                                                 *)
(* mult_thread_concurrent/server.c (the last section): a detached thread   *)
(* for each connection, with an element of ts[] that is never used again.  *)
(***************************************************************************)
EXTENDS Sockets

CONSTANTS
  OPEN_MAX,     \* elements of client[]
  MaxThreads    \* elements of ts, 256 in the code

Slots == 1 .. OPEN_MAX - 1

\* revents of an element that poll has not seen is what was on the stack.
Init ==
  /\ InitNet
  /\ \E stack \in SUBSET Slots :
       srv = [at |-> "poll", fd |-> [s \in Slots |-> -1], revents |-> stack, maxi |-> 0, nready |-> 0, i |-> 1]

\* poll looks at the elements up to maxi and clears revents of free ones.
Poll ==
  /\ srv.at = "poll"
  /\ LET ready == {s \in 1 .. srv.maxi : srv.fd[s] >= 0 /\ Readable(srv.fd[s])}
         nready == Cardinality(ready) + (IF Readable(Listener) THEN 1 ELSE 0)
     IN  /\ nready > 0
         /\ srv' = [srv EXCEPT !.revents = ready \cup {s \in @ : s > srv.maxi}, !.nready = nready, !.i = 1,
                               !.at = IF Readable(Listener) THEN "accept" ELSE "scan"]
  /\ UNCHANGED net

\* Mutant of Free: an element is free when its client has gone.
FreeGone == {s \in Slots : srv.fd[s] < 0 \/ net.peer[srv.fd[s]] \in net.left}

Free == {s \in Slots : srv.fd[s] < 0}

Accept ==
  /\ srv.at = "accept"
  /\ \E k \in net.backlog : Accepting(k)
  /\ LET i == Min(Free)
     IN  srv' = IF Free = {} THEN [srv EXCEPT !.at = "exited"]
                ELSE [srv EXCEPT !.fd[i] = NewFd, !.maxi = Max({@, i}), !.nready = @ - 1,
                                 !.at = IF srv.nready <= 1 THEN "poll" ELSE "scan"]

Due == {s \in srv.i .. srv.maxi : srv.fd[s] >= 0 /\ s \in srv.revents}

Handled(s) == [srv EXCEPT !.i = s + 1, !.nready = @ - 1, !.at = IF srv.nready <= 1 THEN "poll" ELSE @]

\* Read of the next element with POLLIN.  A reset closes the connection as the
\* end does, any other error ends the program.
ReadClient ==
  /\ srv.at = "scan" /\ Due # {}
  /\ LET s == Min(Due)  sockfd == srv.fd[s]
     IN  /\ ReadResult(sockfd) # "blocks"
         /\ IF ReadResult(sockfd) = "data"
            THEN /\ net' = ReadFrom(sockfd)
                 /\ \E at \in AfterWrite(sockfd, Handled(s).at) : srv' = [Handled(s) EXCEPT !.at = at]
            ELSE /\ net' = Close(sockfd)
                 /\ \/ srv' = [Handled(s) EXCEPT !.fd[s] = -1]
                    \/ ReadResult(sockfd) = "error" /\ srv' = [srv EXCEPT !.at = "exited"]

EndOfScan ==
  /\ srv.at = "scan" /\ Due = {}
  /\ srv' = [srv EXCEPT !.at = "poll"]
  /\ UNCHANGED net

main == Poll \/ Accept \/ ReadClient \/ EndOfScan

Next == main \/ Network

-----------------------------------------------------------------------------

Blocked == srv.at = "scan" /\ Due # {} /\ ReadResult(srv.fd[Min(Due)]) = "blocks"

\* Each connection has one element up to maxi, and a Read can only block at the
\* last one, whose revents poll has never written.
Bookkeeping ==
  srv.at # "exited" =>
    /\ Open = {srv.fd[s] : s \in Slots \ Free}
    /\ Cardinality(Open) = Cardinality(Slots \ Free)
    /\ \A s \in Slots \ Free : s <= srv.maxi
    /\ Blocked => Min(Due) = srv.maxi

\* The data of a client are still to be read, and Read is not blocked by another.
Unread(k) == k \in net.sent /\ srv.at # "exited" /\ ~Blocked /\ \E f \in Open : net.peer[f] = k

-----------------------------------------------------------------------------
\* Linux_Net/03.../server.cpp

\* echoed: history, whose data were read and written back.
Init03 ==
  /\ InitNet
  /\ \E stack \in SUBSET Slots :
       srv = [at |-> "poll", fd |-> [s \in Slots |-> -1], revents |-> stack, maxi |-> 0, i |-> 1, echoed |-> {}]

\* Mutant of connfd: what accept returned.
connfdAccepted == NewFd

connfd == 0

\* A closed descriptor makes poll return at once and counts as ready, but it
\* has POLLNVAL and not POLLIN.
do_poll ==
  /\ srv.at = "poll"
  /\ LET seen == {s \in 1 .. srv.maxi : srv.fd[s] >= 0}
         ready == {s \in seen : ~Closed(srv.fd[s]) /\ Readable(srv.fd[s])}
         more == ready # {} \/ \E s \in seen : Closed(srv.fd[s])
     IN  /\ Readable(Listener) \/ more
         /\ srv' = [srv EXCEPT !.revents = ready \cup {s \in @ : s > srv.maxi}, !.i = 1,
                               !.at = IF Readable(Listener) THEN IF more THEN "accept_more" ELSE "accept" ELSE "scan"]
  /\ UNCHANGED net

AcceptFails03 ==
  /\ srv.at \in {"accept", "accept_more"}
  /\ \E at \in {"poll", "exited"} : srv' = [srv EXCEPT !.at = at]
  /\ UNCHANGED net

\* With more than the listening descriptor ready the scan follows.
Accept03 ==
  /\ srv.at \in {"accept", "accept_more"}
  /\ \E k \in net.backlog : Accepting(k)
  /\ LET free == {s \in Slots : srv.fd[s] < 0}  i == Min(free)
     IN  srv' = IF free = {} THEN [srv EXCEPT !.at = "exited"]
                ELSE [srv EXCEPT !.fd[i] = connfd, !.maxi = Max({@, i}),
                                 !.at = IF srv.at = "accept_more" THEN "scan" ELSE "poll"]

Due03 == {s \in srv.i .. srv.maxi : srv.fd[s] >= 0 /\ s \in srv.revents}

\* read, and write to the same descriptor; an error is taken for data.
Echo ==
  /\ srv.at = "scan" /\ Due03 # {}
  /\ LET s == Min(Due03)  f == srv.fd[s]
     IN  CASE ReadResult(f) = "end" ->
                net' = Close(f) /\ srv' = [srv EXCEPT !.fd[s] = -1, !.i = s + 1]
           [] ReadResult(f) \in {"data", "error"} ->
                /\ net' = ReadFrom(f)
                /\ \E at \in AfterWrite(f, "scan") : srv' = [srv EXCEPT !.i = s + 1, !.at = at, !.echoed = @ \cup {net.peer[f]}]
           [] ReadResult(f) = "bad" -> srv' = [srv EXCEPT !.i = s + 1] /\ UNCHANGED net
           [] OTHER -> FALSE

EndOfScan03 ==
  /\ srv.at = "scan" /\ Due03 = {}
  /\ srv' = [srv EXCEPT !.at = "poll"]
  /\ UNCHANGED net

\* A line is typed on standard input, or it is closed.
Input ==
  /\ \/ net' = [net EXCEPT !.sent = @ \cup {"stdin"}]
     \/ net' = [net EXCEPT !.left = @ \cup {"stdin"}]
  /\ UNCHANGED srv

Next03 == do_poll \/ AcceptFails03 \/ Accept03 \/ Echo \/ EndOfScan03 \/ Network \/ Input

-----------------------------------------------------------------------------

\* The comment of line 80 says that the new descriptor is added to the array.
\* What is added is 0: the server echoes standard input, and a client only when
\* standard input has ended and the client was given its descriptor.
EchoesStandardInput ==
  /\ srv.echoed \cap Clients # {} => "stdin" \in net.left
  /\ "stdin" \notin net.left => net.peer[0] = "stdin"

-----------------------------------------------------------------------------

Elements == 0 .. MaxThreads - 1

\* thread: the state of the thread of each element; whose: history, the client
\* the element was filled for.
InitThreads ==
  /\ InitNet
  /\ srv = [at |-> "accept", i |-> 0, connfd |-> [e \in Elements |-> -1],
            thread |-> [e \in Elements |-> None], whose |-> [e \in Elements |-> None]]

\* i is not compared with the length of ts: the next client is stored behind it,
\* over other variables of main, and anything may follow.
AcceptThreads ==
  /\ srv.at = "accept"
  /\ \E k \in net.backlog :
       /\ Accepting(k)
       /\ srv' = IF srv.i = MaxThreads THEN [srv EXCEPT !.at = "overrun"]
                 ELSE [srv EXCEPT !.connfd[srv.i] = NewFd, !.whose[srv.i] = k, !.at = "create"]

\* pthread_create; a failure is not noticed, and nobody serves the client.
CreateThread ==
  /\ srv.at = "create"
  /\ \E t \in {"running", "never"} : srv' = [srv EXCEPT !.thread[srv.i] = t, !.i = @ + 1, !.at = "accept"]
  /\ UNCHANGED net

\* Mutant of Connection: the thread asks for the element that was filled last.
ConnectionLast(e) == srv.connfd[IF srv.i = 0 THEN 0 ELSE srv.i - 1]

Connection(e) == srv.connfd[e]

\* A failed read is taken for data of no length; the end closes the descriptor.
do_work(e) ==
  /\ srv.at \notin {"overrun", "exited"} /\ srv.thread[e] = "running"
  /\ LET f == Connection(e)
     IN  CASE ReadResult(f) = "data" ->
                /\ net' = [ReadFrom(f) EXCEPT !.misled = IF net.peer[f] = srv.whose[e] THEN @ ELSE @ \cup {net.peer[f]}]
                /\ \E at \in AfterWrite(f, srv.at) : srv' = [srv EXCEPT !.at = at]
           [] ReadResult(f) = "error" -> net' = ReadFrom(f) /\ UNCHANGED srv
           [] ReadResult(f) = "end" -> net' = Close(f) /\ srv' = [srv EXCEPT !.thread[e] = "done"]
           [] OTHER -> FALSE

NextThreads == AcceptThreads \/ CreateThread \/ (\E e \in Elements : do_work(e)) \/ Network

-----------------------------------------------------------------------------

\* Until ts is full every thread serves the client it was created for, although
\* descriptors are given out again, and what is open is what a thread serves, or
\* the client of a thread that was not created.
BookkeepingThreads ==
  srv.at # "overrun" =>
    /\ \A e \in Elements : srv.thread[e] = "running" => net.peer[srv.connfd[e]] = srv.whose[e]
    /\ Open = {srv.connfd[e] : e \in {d \in Elements : d <= srv.i /\ srv.whose[d] # None /\ srv.thread[d] # "done"}}
    /\ net.misled = {}

==============================================================================
