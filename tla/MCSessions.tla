------------------------------ MODULE MCSessions ------------------------------
(***************************************************************************)
(* The programs of boost/ with sessions, timers and processes, the servers *)
(* that fork, the buffered input of wrap.c, the copies of file_cp/, the    *)
(* programs with a mutex, and the tables and readers of MCTables.  Which   *)
(* program it is is chosen at the start and never changes; the variables a *)
(* program does not need are Unused.                                       *)
(***************************************************************************)
EXTENDS Naturals, Sequences

CONSTANTS
  Sessions,                \* of the chat room
  Clients,                 \* of the other servers
  max_recent_msgs,
  MaxMessages,
  MaxLines,                \* bound: the lines typed to the chat client
  MaxData, MaxRequests,    \* bounds: the data and the datagrams of a client
  Tokens, MaxContent,      \* of the content of a reply; bound: how many
  StreamLength, Newlines,  \* of the stream wrap.c reads or writes
  BufSize, Sizes,          \* its buffer, the sizes that are asked for
  MaxFile, MaxCopiers,     \* bounds: the bytes of a file, those who copy it
  ITEMS,                   \* of the progress bar
  Threads,                 \* the threads that ask for the singleton
  SingletonCalls           \* bound: their calls

ASSUME SizesAssumption ==
  /\ max_recent_msgs \in Nat /\ MaxMessages \in Nat /\ MaxContent \in Nat
  /\ StreamLength \in Nat /\ BufSize \in Nat /\ Sizes \subseteq Nat
  /\ MaxFile \in Nat /\ MaxCopiers \in Nat

\* What stands for a mutex that is free is no thread.
ASSUME ThreadsAssumption == "no thread" \notin Threads

VARIABLES program, v1, v2, v3, v4, v5, v6, v7, v8, v9

vars == <<program, v1, v2, v3, v4, v5, v6, v7, v8, v9>>

Unused == "unused"

Room == INSTANCE ChatRoom
          WITH participants_ <- v1, recent_msgs_ <- v2, write_msgs_ <- v3, reading <- v4, writing <- v5,
               fresh <- v6, log <- v7, from <- v8, written <- v9

Chat == INSTANCE ChatClient WITH user <- v1, posted <- v2, io <- v3, sent <- v4

Asio(small) ==
  INSTANCE AsioPrograms
    WITH SmallEnough <- small,
         program <- v1, session <- v2, memory <- v3, heap <- v4, echoed <- v5,
         udp <- v1, sending <- v2, inbox <- v3, asked <- v4, answered <- v5, lost <- v6,
         count <- v2, timer <- v3, printed <- v4

\* The handlers that fit into the block of a session: all, or not that of the write.
AllFit == {"read", "write"}
ReadFits == {"read"}

Forks == INSTANCE ForkPrograms
           WITH Clients <- Sessions, parent <- v1, child <- v2, pc <- v1, streams <- v2, process <- v3

Contents == UNION {[1 .. n -> Tokens] : n \in 0 .. MaxContent}

Streams == INSTANCE StreamReaders
             WITH at <- v1, reply <- v2, unread <- v3, response_ <- v4, out <- v5,
                  Length <- StreamLength, function <- v1, stream <- v2, call <- v3, cached <- v4, start <- v5

Files == INSTANCE FileTools
           WITH Bytes <- {}, MaxBytes <- 0, str <- Unused, MaxLen <- MaxFile, MaxN <- MaxCopiers,
                job <- v1, copied <- v2, done <- v3, draw <- v4

Mutexes == INSTANCE MutexPrograms
             WITH MaxCalls <- SingletonCalls, Keys <- {}, Values <- {}, cap <- 0,
                  cache <- Unused, map <- Unused, recent <- Unused, latest <- Unused,
                  by <- v1, fork <- v2, at <- v3,
                  single <- v1, mutex <- v2, got <- v4, count <- v5

\* The programs of MCTables have its names and the variables program and v1 to v5.
Tables == INSTANCE MCTables

-----------------------------------------------------------------------------

From(n) ==
  /\ n <= 2 => v3 = Unused
  /\ n <= 3 => v4 = Unused
  /\ n <= 4 => v5 = Unused
  /\ n <= 5 => v6 = Unused
  /\ v7 = Unused /\ v8 = Unused /\ v9 = Unused

Init ==
  \/ program = "chat_server" /\ Room!Init
  \/ program = "chat_client" /\ Chat!Init /\ From(4)
  \/ program = "tcp" /\ Asio(AllFit)!Init /\ From(5)
  \/ program = "tcp_large" /\ Asio(ReadFits)!Init /\ From(5)
  \/ program = "udp" /\ Asio(AllFit)!InitUdp /\ From(6)
  \/ program = "fork" /\ Forks!Init /\ From(2)
  \/ program = "daemon" /\ Forks!InitDaemon /\ From(3)
  \/ program = "timer" /\ Asio(AllFit)!InitTimer /\ From(4)
  \/ program = "http_client" /\ Streams!Init /\ From(5)
  \/ program = "wrap" /\ Streams!InitWrap /\ From(5)
  \/ program = "file_cp" /\ Files!Init /\ From(4)
  \/ program = "philosopher" /\ Mutexes!Init /\ From(3)
  \/ program = "Singleton" /\ Mutexes!InitSingleton /\ From(5)
  \/ Tables!Init /\ From(5)

Rest == UNCHANGED <<v7, v8, v9>>

NextOwn ==
  /\ UNCHANGED program
  /\ \/ program = "chat_server" /\ Room!Next
     \/ program = "chat_client" /\ Chat!Next /\ UNCHANGED <<v5, v6>> /\ Rest
     \/ program = "tcp" /\ Asio(AllFit)!Next /\ UNCHANGED v6 /\ Rest
     \/ program = "tcp_large" /\ Asio(ReadFits)!Next /\ UNCHANGED v6 /\ Rest
     \/ program = "udp" /\ Asio(AllFit)!NextUdp /\ Rest
     \/ program = "fork" /\ Forks!Next /\ UNCHANGED <<v3, v4, v5, v6>> /\ Rest
     \/ program = "daemon" /\ Forks!NextDaemon /\ UNCHANGED <<v4, v5, v6>> /\ Rest
     \/ program = "timer" /\ Asio(AllFit)!NextTimer /\ UNCHANGED <<v5, v6>> /\ Rest
     \/ program = "http_client" /\ Streams!Next /\ UNCHANGED v6 /\ Rest
     \/ program = "wrap" /\ Streams!NextWrap /\ UNCHANGED v6 /\ Rest
     \/ program = "file_cp" /\ Files!Next /\ UNCHANGED <<v5, v6>> /\ Rest
     \/ program = "philosopher" /\ Mutexes!Next /\ UNCHANGED <<v4, v5, v6>> /\ Rest
     \/ program = "Singleton" /\ Mutexes!NextSingleton /\ UNCHANGED v6 /\ Rest

Next == NextOwn \/ (Tables!Next /\ UNCHANGED v6 /\ Rest)

\* The handlers an io_context has to run, the thread that joins it, the timers,
\* which expire, and the steps of a parent process.
Running ==
  /\ UNCHANGED program
  /\ \/ program = "chat_client" /\ (Chat!OwnStep \/ Chat!Join) /\ UNCHANGED <<v5, v6>> /\ Rest
     \/ program = "timer" /\ Asio(AllFit)!NextTimer /\ UNCHANGED <<v5, v6>> /\ Rest
     \/ program = "fork" /\ Forks!ParentStep /\ UNCHANGED <<v3, v4, v5, v6>> /\ Rest

OfCopy(action) == program = "file_cp" /\ action /\ UNCHANGED <<program, v5, v6>> /\ Rest

\* Also the threads that copy and the one that draws are scheduled.  Nobody has
\* to connect or to call, and philosophers may rest for ever.
Spec ==
  /\ Init /\ [][Next]_vars
  /\ WF_vars(Running)
  /\ WF_vars(OfCopy(\E i \in DOMAIN v3 : Files!Copier(i)))
  /\ WF_vars(OfCopy(Files!display))

-----------------------------------------------------------------------------

\* Everybody in the chat room gets every message once and in order, and the
\* room gets from a client the lines that were typed, in order.
ChatInOrder ==
  /\ program = "chat_server" => Room!TypeOK /\ Room!EveryoneGetsTheLog /\ Room!QueuesMove
  /\ program = "chat_client" => Chat!LinesInOrder

\* The memory, the data and the endpoint of a session are its own, although
\* they are used again.
SessionsOwnTheirs ==
  /\ program = "tcp" => Asio(AllFit)!MemoryReused
  /\ program = "tcp_large" => Asio(ReadFits)!MemoryReused
  /\ program = "udp" => Asio(AllFit)!RepliesToAsker

\* No child is left as a zombie, no connection is held by a process that does
\* not serve it, and the daemon has left its terminal.
ProcessesAccountedFor ==
  /\ program = "fork" => Forks!NoZombieForgotten
  /\ program = "daemon" => Forks!DaemonDetached

\* A stream that comes in pieces is handed on as it was, and timers on several
\* threads count every number once.
NothingTwice ==
  /\ program = "http_client" => Streams!ContentAsSent
  /\ program = "wrap" => Streams!StreamInPieces
  /\ program = "timer" => Asio(AllFit)!CountsOnce

\* The blocks of a copied file lie in it; the threads copy every byte once, and
\* the children all but those bytes their arithmetic leaves out.
CopiedWhole ==
  program = "file_cp" => Files!CopyComplete /\ Files!BlocksInFile

\* Forks are not shared by two who eat nor waited for in a circle, and the
\* singleton is made once.
ExclusiveUse ==
  /\ program = "philosopher" => Mutexes!NeighboursTakeTurns /\ Mutexes!NoCircle
  /\ program = "Singleton" => Mutexes!OneInstance

\* The tables, the settings files and the cache answer with what was stored.
LookupsExact == Tables!LookupsExact

\* Texts are told apart by whole characters, and their conversion fits its
\* buffer.
BytesAccountedFor == Tables!BytesAccountedFor

\* The join of the chat client returns, whatever was posted before; the timers
\* come to their limit; a parent that is alive reaps every child that ended.
Unfinished ==
  \/ program = "chat_client" /\ Chat!Joining
  \/ program = "timer" /\ Asio(AllFit)!Counting
  \/ program = "fork" /\ Forks!Unreaped

EverythingEnds == Unfinished ~> ~Unfinished

\* The threads that copy a file and the progress bar beside them come to
\* their end, unless the file is too short for the bar.
BarCompletes ==
  (program = "file_cp" /\ v1.by = "thread" /\ v1.len >= ITEMS - 1) ~> (program = "file_cp" /\ v4 >= ITEMS)

===============================================================================
