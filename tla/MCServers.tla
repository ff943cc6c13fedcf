------------------------------- MODULE MCServers -------------------------------
(***************************************************************************)
(* The servers of Linux_Net in one process.  Which of them it is is chosen *)
(* at the start and never changes.  02_epoll_loop has the variables of     *)
(* EpollReactor; the others have a record srv for the server and a record  *)
(* net for the kernel, kept in g_events and peer, and the rest is Unused.  *)
(***************************************************************************)
EXTENDS Integers

CONSTANTS
  Clients,                              \* of most servers
  Pair,                                 \* of the three with the most states
  MAX_EVENTS, SweepLength, ReactorFds,  \* of 02_epoll_loop; it has descriptors of its own
  MaxFd,                                \* of the others
  EVENT_SIZE, FD_SETSIZE, MaxConn, OPEN_MAX, MaxRead, MaxWrites, MaxThreads

\* The sizes are sizes, and what else a descriptor may lead to is no client.
ASSUME SizesAssumption ==
  /\ MAX_EVENTS \in Nat \ {0} /\ SweepLength \in Nat /\ ReactorFds \in Nat
  /\ MaxFd \in Nat \ {0} /\ EVENT_SIZE \in Nat /\ FD_SETSIZE \in Nat \ (0 .. 1) /\ MaxConn \in Nat
  /\ OPEN_MAX \in Nat /\ MaxRead \in Nat /\ MaxThreads \in Nat
  /\ \A other \in {"none", "stdin", "listener"} : other \notin Clients \cup Pair

VARIABLES program, g_events, checkpos, at, events, stale, peer, epoll, backlog, sent, fresh, misled

reactorRest == <<checkpos, at, events, stale, epoll, backlog, sent, fresh, misled>>

vars == <<program, g_events, peer, reactorRest>>

Unused == "unused"

Reactor == INSTANCE EpollReactor WITH MaxFd <- ReactorFds

Select == INSTANCE SelectServers WITH srv <- g_events, net <- peer

Poll == INSTANCE PollServers WITH srv <- g_events, net <- peer

PollPair == INSTANCE PollServers WITH Clients <- Pair, srv <- g_events, net <- peer

Epoll == INSTANCE EpollServers WITH srv <- g_events, net <- peer

EpollPair == INSTANCE EpollServers WITH Clients <- Pair, srv <- g_events, net <- peer

Reactor01 == INSTANCE SimpleReactor WITH Clients <- Pair, srv <- g_events, net <- peer

\* The clients are interchangeable, it is enough to watch two.
Watched == [w \in 0 .. 1 |-> IF w = 0 THEN CHOOSE k \in Pair : TRUE ELSE CHOOSE k \in Clients \ Pair : TRUE]

-----------------------------------------------------------------------------

InitSmall ==
  \/ program = "select" /\ Select!Init
  \/ program = "select 02" /\ Select!Init02
  \/ program = "poll" /\ Poll!Init
  \/ program = "poll 03" /\ PollPair!Init03
  \/ program = "epoll" /\ Epoll!Init
  \/ program = "epoll 04" /\ EpollPair!Init04
  \/ program = "reactor 01" /\ Reactor01!Init
  \/ program = "edge" /\ Epoll!InitEdge
  \/ program = "threads" /\ Poll!InitThreads

Init ==
  \/ program = "reactor 02" /\ Reactor!Init
  \/ /\ InitSmall
     /\ checkpos = Unused /\ at = Unused /\ events = Unused /\ stale = Unused /\ epoll = Unused
     /\ backlog = Unused /\ sent = Unused /\ fresh = Unused /\ misled = Unused

NextSmall ==
  \/ program = "select" /\ Select!Next
  \/ program = "select 02" /\ Select!Next02
  \/ program = "poll" /\ Poll!Next
  \/ program = "poll 03" /\ PollPair!Next03
  \/ program = "epoll" /\ Epoll!Next
  \/ program = "epoll 04" /\ EpollPair!Next04
  \/ program = "reactor 01" /\ Reactor01!Next
  \/ program = "edge" /\ Epoll!NextEdge
  \/ program = "threads" /\ Poll!NextThreads

Next ==
  /\ UNCHANGED program
  /\ \/ program = "reactor 02" /\ Reactor!Next
     \/ NextSmall /\ UNCHANGED reactorRest

\* The loops that are asked to answer run on whenever they are not blocked.
Loop ==
  /\ UNCHANGED program
  /\ \/ program = "reactor 02" /\ Reactor!main
     \/ program = "select" /\ Select!main /\ UNCHANGED reactorRest
     \/ program = "select 02" /\ Select!main02 /\ UNCHANGED reactorRest
     \/ program = "poll" /\ Poll!main /\ UNCHANGED reactorRest

Spec == Init /\ [][Next]_vars /\ WF_vars(Loop)

-----------------------------------------------------------------------------

\* The table of a reactor and its epoll set say the same, for every descriptor
\* and every event, while descriptors and entries are used again.
TableMatchesEpoll ==
  /\ program = "reactor 02" => Reactor!TypeOK /\ Reactor!TableMatchesEpoll
  /\ program = "reactor 01" => Reactor01!TableMatchesEpoll

\* What the other servers keep of the open connections, each as its code has it.
\* select: one element of client[] for each, and the scan passes over nobody who
\* is ready.  poll: one element for each, and a read blocks only at the last one.
\* select 02: the first MaxConn are stored and the others stay open and are
\* forgotten.  poll 03: clients are not served while standard input lasts.
\* epoll: the tree holds exactly the open connections, though events are left
\* for later rounds.  epoll 04: each is registered for one event, and one that
\* waits to write alone finds its own data in the buffer.  threads: every thread
\* serves its own client.
Bookkeeping ==
  /\ program = "select" => Select!Bookkeeping
  /\ program = "select 02" => Select!Bookkeeping02
  /\ program = "poll" => Poll!Bookkeeping
  /\ program = "poll 03" => PollPair!EchoesStandardInput
  /\ program = "epoll" => Epoll!Bookkeeping
  /\ program = "epoll 04" => EpollPair!Bookkeeping04
  /\ program = "threads" => Poll!BookkeepingThreads

\* Neither reactor sends a client the data of another, although both use entries,
\* buffers and descriptors again.
OwnDataOnly ==
  /\ program = "reactor 02" => Reactor!OwnDataOnly
  /\ program = "reactor 01" => Reactor01!OwnDataOnly

\* What an edge-triggered reader leaves unread.
NothingLeftBehind == program = "edge" => Epoll!NothingLeftBehind

\* The connection of entry w of 02_epoll_loop has been silent for 60 seconds and
\* the loop runs; in the other servers, data of the client Watched[w] wait to be
\* read and nothing but the loop is needed to read them.
Pending(w) ==
  \/ program = "reactor 02" /\ at # "exited" /\ w \in stale /\ w \in Reactor!InUse
  \/ program = "select" /\ Select!Unread(Watched[w])
  \/ program = "select 02" /\ Select!Unread02(Watched[w])
  \/ program = "poll" /\ Poll!Unread(Watched[w])

\* The sweep of 02_epoll_loop.c comes round to every entry of g_events and closes
\* the connection if it is idle (line 242 says so of every client, but one
\* accepted on a full table has no entry and stays open).  The servers select,
\* select 02 and poll read what the clients in their arrays send, unless they end
\* or a read for a single client blocks them; the clients of 02 beyond MaxConn
\* and those of poll 03 are never read, and the epoll servers promise nobody a
\* turn.
NobodyForgotten == \A w \in 0 .. 1 : Pending(w) ~> ~Pending(w)

================================================================================
