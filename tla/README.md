# TLA+ models of learning_cpp

The repository is a collection of independent programs: bounded buffers, seven
thread pools, reactors and socket servers, asio servers, an advertisement
server on top of one of them, inverted indexes, and many one-page exercises.
This directory models the ones with a logic of their own, above all the
concurrent ones. Every definition is translated from the code; `map` in
`PROJECT.json` gives the lines of each.

## 1. Inventory

| part | state | operations | what is hard | what makes it correct |
|---|---|---|---|---|
| `produce_consume/01`..`04` | ring `item_buffer`, two positions, two condition variables; item counters with a mutex of their own (02, 03, 04) | `ProduceItem`, `ConsumeItem`, `ProducerTask`, `ConsumerTask`, `main` | up to eight threads; a thread sleeps with the counter mutex held; the ring wraps | every item once and in order; nobody sleeps beside work; all threads exit |
| `zl_threadpool/03_ThreadPool` | task queue, `stop`, condition variable | constructor/worker, `enqueue`, destructor | notify after unlock; enqueue against destruction | accepted tasks run, destructor returns |
| `zl_threadpool/ThreadPoolCpp98`, `Cpp03`, `Cpp11` | queue, flag written without the mutex, threads | `addTask`/`add`, `stop`, destructor | the flag and the broadcast fall between a worker's test and its sleep | no task twice or out of order, no task silently lost, the stop ends |
| `zl_threadpool/ThreadPoolCpp14` | queue in a `shared_ptr<data>` that detached threads keep | `execute`, destructor | the pool object dies before its threads | queue worked off, data freed |
| `zl_threadpool/01_simple_threadPool` | intrusive lists of jobs and of workers | push, worker, `nThreadPoolDestory` | list surgery by many threads; workers free their own nodes | the list is the stack of waiting jobs |
| `zl_threadpool/02_thread_pool` | ring of tasks, three counters, array of threads, manager | `threadpool_add`, worker, `adjust_thread`, `threadpool_destroy` | the pool grows and shrinks on stale copies; unlocked shutdown; memory that was never cleared | exact counters; every task taken |
| HTTP parser and handler (`boost/http_server`, `ad_system/server3`) | parser state, request, reply | `consume`, `parse`, `url_decode`, `handle_request` | requests arrive in pieces; escapes at the end of a string | the grammar; decoding undoes encoding |
| `boost/http_server` | acceptor, `connections_`, one asynchronous operation per connection | handlers of accept, read, write and signal | handlers that run after somebody closed their socket | no connection forgotten or kept, the stop ends |
| `ad_system/server3` | `new_connection_`, strands, threads of the `io_context` | the same handlers on a pool of threads | an operation completes before the handler that started it returns | one thread per connection, one accept, the stop ends |
| `boost/3.chat_server` | participants, recent messages, a write queue per session | join, leave, deliver, reads, writes | a session joins, fails or leaves between any two messages | everybody in the room gets the whole log |
| `boost/3.chat_client` | write queue, posted handlers | write, close, connect, reads | main thread against io thread | lines are sent once and in order, the join returns |
| HTTP clients and replies (`ad_system/server3`) | `response_`, stage of the chain | resolve, connect, write, status line, headers, content | a read brings more than was looked for | the content is printed as it was sent |
| `boost` asynchronous servers | sessions, one block of handler memory, `remote_endpoint_` | accept, read, write, receive, send | memory and endpoint used again while a handler may hold them | each session's block, data and answers are its own |
| `boost/process_per_connection`, `Linux_Net` process server | children, open sockets, `SIGCHLD` | accept, fork, reap | children that end together leave one signal | no zombie, no connection held open |
| `boost/5.fork_daemon` | descriptors 0 to 2, session | two forks, `setsid`, new streams | a step fails half-way | a detached daemon or nothing |
| `boost/time3`..`time5` | `count_`, timers | print and wait again | two threads | each number once |
| `Linux_Net/Reactor` | table of events with a callback each, epoll set | accept, receive, send, idle sweep | table full, descriptor numbers used again | table, epoll set and open descriptors agree, own data only |
| select, poll and epoll servers, `mult_thread_concurrent` | arrays of descriptors, counters, buffers | accept, read, echo | counters that end a scan early, indices and buffers that are shared, edge-triggered events | arrays and open descriptors agree, nobody ready is skipped |
| `wrap.c` | `read_buf` kept between calls | `Readn`, `Writen`, `Readline` | short reads, interrupts | exact byte counts |
| `invert`, `invert_table` | array, index, two files | create, load, query, clear, restart | create over old data, a crash between the two files | a query gives what was created |
| `exp`, `ad_system/common` settings | sections and flags | load, look up | sections are stored late | the first value of the right section |
| `c++11/LRUCache` | list and map of iterators | put, get | map and list must agree | the most recent keys with their last values |
| `Singleton`, `philosopher` | pointer and mutex; forks | get, reset; take, try, put | unlocked test; circular wait | one instance; neighbours take turns, no circle |
| `file_cp` | blocks, bytes copied, bar | copy, draw | the remainder of a division | every byte once |
| `CharConvertTool`, `ad_system/common` conversions | none | tests for UTF-8 and GBK, buffer sizes | text cut inside a character | whole characters, the result fits |
| `ad_system` frame, `ipc`, blocking boost programs, clients | | | mostly straight-line I/O | |
| libevent, google_test, stl, test, interview, ... | | | vendored code, wrappers, trials of a language feature | |

The parts do not call each other, except inside `ad_system` (frame -> server3 ->
core worker). `PROJECT.json` lists every part with its files and status, and the
places where the code is hard to test.

## 2. Modules

| module | models |
|---|---|
| `ItemRepository` | the ring monitor of `produce_consume`: `ProduceItem`, `ConsumeItem`, their waits |
| `OneSidedPrograms`, `MultiProducerMultiConsumer` | programs 01 to 03 (names with 01, 02, 03) and program 04 around the ring |
| `BoundedFifo` | what the ring promises: a FIFO of `kItemRepositorySize - 1` items that keeps moving |
| `ItemRepositoryProofs`, `MultiMultiProofs`, `ProduceConsumeProofs` | proofs: the ring, program 04, programs 01 to 03 |
| `CondVar` | `notify_one` and `notify_all` on a set of sleepers |
| `ThreadPool03`, `ThreadPoolCpp14`, `SimpleThreadPool` | the pools of these names |
| `StopFlagPool`; `ThreadPoolCpp98Cpp03`, `ThreadPoolCpp11` | the worker loop and stop protocol three pools share; what each adds |
| `AdaptiveThreadPool` | `02_thread_pool` |
| `TaskPool` | what a pool promises: accepted tasks start once, in order; a closed pool takes none |
| `AdaptivePoolProofs`, `ThreadPoolsProofs` | proofs: 02 at every size; all the pools together |
| `RequestParser`, `RequestHandler` | the parser and the handler both HTTP servers have |
| `HttpServer` | `boost/http_server`: server, connection, connection_manager |
| `Server3` | `ad_system/server3` with its threads, and `ServerFrame::StartService` |
| `HttpProofs` | proofs about the connections of both servers |
| `ChatRoom`, `ChatClient` | `boost/3.chat_server.cpp`, `boost/3.chat_client.cpp` |
| `AsioPrograms` | TCP: `async_tcp_echo_server`, `1` (handler memory), `2` (counted buffers), `daytime3`; names with Udp: `daytime6`, `daytime7` and the server inside `5`; names with Timer: `time3`, `time4`, `time5` |
| `ForkPrograms` | the two servers with a process per connection; names with Daemon: `main` of `5.fork_daemon` |
| `StreamReaders` | readers of a byte stream: `Readn`, `Writen`, `Readline` and `my_read` of `wrap.c`; the replies of `server3/reply.cpp` as `async_client` and `sync_client` read them |
| `Sockets` | of the kernel: descriptors given out smallest first, clients, what is readable (external) |
| `EpollReactor`, `SimpleReactor` | `Linux_Net/Reactor/02_epoll_loop.c` with its copy, `01_simple_reactor.c` |
| `SelectServers` | `select_concurrent/server.c`; names with 02: `02.../server.cpp` |
| `PollServers` | `poll_conncurrent/server.c`; names with 03: `03.../server.cpp`; names with Threads: `mult_thread_concurrent/server.c` |
| `EpollServers` | `epoll_concurrent/server.c`; names with 04: `04.../server.cpp`; names with Edge: the three readers of `epoll_ET_LT` and their writers |
| `ServersProofs` | proofs about both reactors, the other seven servers and the edge-triggered readers |
| `InvertTables` | what the two inverted tables share, `invert/`, and with names in Post `invert_table/` |
| `SettingsFiles` | `exp.cpp`; names with Ini: `ReadStringFromIniFile` and `GetIntInSettingFile` |
| `FileTools` | both copies of `encode_convert.cpp`, both programs of `file_cp/` |
| `MutexPrograms` | the philosophers, the singleton, `LRUCache` |
| `SessionsProofs` | proofs about the chat, asynchronous and forking programs, the stream readers, `file_cp`, the philosophers and the singleton |
| `MCProduceConsume`, `MCThreadPools`, `MCHttp`, `MCTables`, `MCServers`, `MCSessions` | one instance for several programs: which one runs is chosen in `Init`, the variables of the others rest |

Where a module holds several small programs of one kind, each has its own initial
states and next-state relation, and uses its own variables.

**Grain of the steps.** A critical section is one step where nothing outside of
it touches what it reads. Where the code writes a flag or notifies without the
mutex (Cpp98, Cpp03, Cpp11, 02), the evaluation of the wait condition and the
falling asleep are separate steps, because a stop fits between them. A
notification after the unlock is a step of its own everywhere. Waiting releases
the mutex and puts the thread in the wait set in one step; waking may happen
without a notification (`SpuriousWakeup`, `Wakeup`).

**The ring** (`ItemRepository`). The variables have the names of the fields;
`repo_not_full` and `repo_not_empty` are the sets of threads inside the two
waits, `consumed` is the history of what `ConsumeItem` returned. `Pending` reads
the stored items from `read_position` to `write_position`.

**The pools.** `pc`/`worker` says where each worker stands, `task`/`current` is
its local task, `owner` and `client` are the threads that use the pool.
`AdaptiveThreadPool` names a worker by its slot in `threads[]` and takes what
`malloc` leaves in `wait_exit_thr_num` and in the ring from the constants
`GarbageWaitExit` and `GarbageArg`. `ExitedSeemsAlive` chooses what
`pthread_kill(tid, 0)` says of a thread that has exited and was not joined; the
runs use the older libraries' answer, `ESRCH`.

**The parser** is fed a character at a time, which covers every division of the
input into pieces. A character stands for a class; `fed` is the history that the
grammar is asked about. **The handler** works on ASCII codes; `ReadHex` is what
`is >> std::hex >> value` does with two characters (signs, prefix `0x`, an early
end). That a file exists, or that the core worker finds an answer, is a choice.

**The asio programs.** A handler is an action; an operation is `"pending"`, or
completed with a result its handler has yet to see. Closing a socket turns what
is pending into `"aborted"` and leaves results that are already there; an
operation started on a closed socket ends with another error. Both differences
matter to the handlers. In `Server3` a thread takes a handler, executes it in
steps and returns, and other threads work meanwhile. `ChatRoom` has no closing of
sockets, so there an operation completes in the step that handles it.

`ChatClient` has two threads: what `main` posts is a queue that the handlers work
off. Operations that succeeded before the socket was closed are still handed to
their handlers as successes.

**The reactor.** One thread, so a callback is one step; `events` is what is left
of the array `epoll_wait` filled, worked off while callbacks close descriptors and
`acceptconn` gives their numbers and entries out again. Data stand for the client
that sent them. A `send` to a client that has gone may end the process by SIGPIPE and
a failing `epoll_wait` leaves the loop; both lead to `"exited"`. `epoll_ctl` is assumed to succeed. In every reachable state the
next element of the array belongs to an entry that still waits for the event
(`TableMatchesEpoll`), so the code's test for it has no false branch in the model.

**The other servers** have one record `srv` with the program's variables and one
record `net` with the kernel's (`Sockets`). One element of the program's loop is a
step; clients connect, send and leave between any two. A call that would block is
not enabled, so a blocked server is a state in which only clients move. What the
code reads without having written it (`revents` in `PollServers`) is any value. The
shared buffer of `04.../server.cpp` is `MaxRead` bytes, each with the client it came
from: a read overwrites as many as it returns, a write sends what stands before the
first zero byte (`Text`) and clears the buffer. `FD_SETSIZE` bounds `client[]` and the
set alike: a descriptor it has no bit for leads to `"overrun"`, from where nothing is
said of the program. The unit of the edge-triggered programs is half a buffer.

**The tables.** `create` of `invert/` writes its two files in two steps, and a restart may
come between them; `history` says from which triples index and lists of the table and
of each file were made, so that `LookupsExact` knows the exact answer of a table whose
index and lists belong together, and `CreateReplaces` whom a `create` has to answer for.
The readers of settings take a file line by line and keep the file as history; a line
is a record of what the code looks for in it. What a lookup may give is a set of
outcomes, `"dangling"` among them where `getExpNode` returns a reference into its local
object. The singleton writes the two words of a
`shared_ptr` in two steps. `FileTools` examines every prefix of a text; its reference
for GBK splits the bytes into pairs and single characters. These programs are in
`MCTables`, which `MCSessions` runs beside its own.

## 3. Runs

| run | instance | shows |
|---|---|---|
| `multi_multi` | the program's own sizes: 4 slots, 10 items, 4 + 4 threads | `TypeOK`, `ExactlyOnceInOrder`, `NobodySleepsInVain`, `OnlyTheHolderSleeps`, `CountersStayClose`, the refinement `ImplementsBoundedFifo` (progress included), `AllThreadsExit` |
| `produce_consume` | the same sizes for 01, 02, 03 | types, order, refinement, exit |
| `pools` | seven pools, 2 workers, 3 tasks, 2 clients, 4 pushes for 01; 02 with 2 threads throughout, a ring of 2, 2 tasks | nobody needed sleeps, tasks accounted for, refinement of `TaskPool`, accepted tasks run, the stop ends as far as the code makes it |
| `adaptive_pool` | 02 growing from 1 to 3 workers, a ring of one slot, uncleared memory, an add during the destroy | `CountersExact`, `ClientsSleepOnlyWhenFull` |
| `http` | parser: 12 character classes, 3 stored characters, a continuation blank, versions of one and two digits with zeros in front (a digit beyond 1.1 counts as two stored characters); handler: uris up to 5 of 9 characters; servers: 3 connections, 2 threads | `ParserDecidesGrammar`, `RequestIsTheInput`, `PathsAsSentBelowDocRoot`, `ConnectionsTracked`, `StopEnds` |
| `servers` | 3 clients (2 for `poll 03`, `epoll 04` and `reactor 01`), arrays of 1 to 3 elements, 4 descriptors, a sweep of 1 entry a round, 6 writes, 2 threads | `TableMatchesEpoll`, `Bookkeeping`, `OwnDataOnly`, `NothingLeftBehind`, `NobodyForgotten` |
| `sessions` | chat: 3 sessions, 4 messages, 2 recent; client: 3 lines; 2 clients and 2 data or requests for the others; 3 children; streams of 5 bytes through a buffer of 3; contents with empty lines; files of 7 bytes, 3 copiers; 5 philosophers; 3 threads, 5 calls of the singleton; inverted tables: 3 triples, 3 calls, files and restarts; settings: 5 and 4 lines; cache: 4 keys for 2 places; texts of 6 bytes | `ChatInOrder`, `SessionsOwnTheirs`, `ProcessesAccountedFor`, `NothingTwice`, `CopiedWhole`, `ExclusiveUse`, `LookupsExact`, `BytesAccountedFor`, `EverythingEnds`, `BarCompletes` |
| `pool_cpp11_destructor` | 1 worker, 1 task | counterexample, see 6 |
| `adaptive_pool_starves` | 02 between 1 and 2 workers, 3 tasks | counterexample, see 6 |
| `adaptive_pool_argument` | 02 with one worker and a ring of one slot | counterexample, see 6 |
| `url_decode` | uris up to 5 characters | counterexample, see 6 |
| `tables_create` | inverted tables: 3 triples, 3 calls | counterexample, see 6 |

`LookupsExact` and `Bookkeeping` are exact for each program, also where the code does
something other than its comments say: they state what a lookup or a table gives, not
only that it gives something acceptable. `CopiedWhole` says in the same way which bytes
the processes of `mult_process_cp.c` leave out. Section 6 lists where that differs from
what the repository says.

**Bounds.** The ring wraps more than twice in ten items. Two workers are the
least with a worker asleep beside a busy one; three tasks leave one queued while
both run. A ring of one slot in 02 is full after one add and overwrites its slot
at the next. Three stored characters allow a method, a one-character uri and a
header, or two uri characters, and with the blank a continued header value. Five
characters hold an escape after a slash and an escaped dot beside another.
Four messages with a memory of two overflow the memory twice. Three clients for
two entries fill every table, free an entry and fill it again with a descriptor
that was closed, and a sweep of one entry needs two rounds for it. With `FD_SETSIZE`
4 the third client of `select_concurrent` gets a descriptor beyond the set. A buffer of
two bytes has a tail that a shorter read leaves. Two digits make the versions 01 and
10. Four keys for
two places make the cache evict again and again. Three triples have an index with
two entries in each order of weight and id beside another index. Lengths up to
seven divided by three have every remainder. Five bytes through a buffer of three
leave a rest in it, and newlines at 2 and 3 make an empty line at its end. In `Server3` the
connection objects are used again after their destruction; the bound only makes
clients wait.

**Deadlock** is checked except for the pools, where a `stop` of Cpp98, Cpp03 and
Cpp11 and the destroy of 02 can really hang, and for `servers`, `sessions` and
`tables_create`, whose programs end, exit on an error, or block for a client that never
sends. There the properties say who must not be left waiting. Elsewhere programs
that end have an explicit final step.

**Fairness.** `produce_consume`: weak fairness of every thread; no order among
threads that compete for a mutex, no wakeup without a notification is relied on.
Pools: strong fairness of a worker, since it may find the mutex taken again and
again while others use it briefly; tasks terminate; a call or a stop goes on once
it has begun, but nobody has to make one. HTTP servers: the handler of a completed
operation runs, because the queue of an `io_context` is first in, first out and
handlers return; with several threads the handler of the signal needs strong
fairness, for the threads may be busy now and then. Servers: weak fairness of the main loop of
`02_epoll_loop` (`epoll_wait` returns after a second and no callback blocks) and of
the loops with select and poll, which go on whenever a call returns. Sessions: weak
fairness of the handlers that are ready and of the join in the chat client, of the
timers, which expire, of the steps of a forking parent, whose signal is
delivered, of the threads that copy a file and of the one that draws.
Nothing is assumed of the network, of the clients, of children that serve, or of
philosophers.

## 4. Proofs

Every theorem holds for every value of the constants that satisfies the named
assumptions of the modules. Each proof module has one inductive invariant per
program; the lemmas say what one action does to it.

**The ring and program 04** (`ItemRepositoryProofs`, `MultiMultiProofs`):
`TypeCorrect`, `ItemsExactlyOnceInOrder`, `NoVainSleep`, `HolderSleeps`,
`CountersClose` and `ImplementsFifoSteps`, for every ring of at least two slots,
every number of items and all disjoint sets of producers and consumers. The order
of the items is not inductive as it stands. The inductive invariant

    IInv == TypeOK /\ HoldersInside /\ SleepersInside /\ NobodySleepsInVain
            /\ HoldsItems(Produced) /\ Counted

says in addition that a counter mutex is held exactly by the thread between its
lock and its unlock (so the claim of a number and the store of the item cannot be
separated), that only a thread inside `ProduceItem`/`ConsumeItem` is in a wait
set, and, slot by slot, which item each slot holds: `HoldsItems(n)` gives the
slots from `read_position` on as functions of positions modulo the ring, which
the provers can handle where the concatenation of sequences is out of reach.
`ItemRepositoryProofs` has the arithmetic of the ring (`FullIsNext`,
`AdvanceInSlots`, `StoredBounds`), the effect of one store and of one read on
`HoldsItems` (`ProduceItemHolds`, `ConsumeItemHolds`), and the step back from
slots to sequences (`HoldsItemsSequence`). `Counted` relates
`consumed_item_counter`, which is incremented after the read, to the items read.
`ImplementsFifoSteps` is the refinement of `BoundedFifo` without its fairness:
a store appends to the abstract queue, a read removes its head, and every other
step leaves it alone.

**Programs 01 to 03** (`ProduceConsumeProofs`): `OneSidedTypeOK`,
`OneSidedExactlyOnceInOrder`, `OneSidedImplementsFifoSteps`, from the same
lemmas about the ring. In 01 the loop variable is the number of the item under
way; in 02 and 03 `Holder02` and `Holder03` tie the claimed number to the holder
of the counter mutex.

**`02_thread_pool` at every size** (`AdaptivePoolProofs`):

* `PoolTypeOK`, `PoolCountersExact`, `PoolClientsSleepOnlyWhenFull`. The counters
  are cardinalities of sets of slots, and the manager adds threads from a copy of
  `live_thr_num` that is stale by then: `NewThreadsFit` shows that it still finds
  free slots and stays below the limit. In addition to the three properties `IInv`
  needs that the occupied part of the ring holds tasks (`RingFilled`) and
  that no two calls are about the same task (`CallsApart`).
* `FixedPoolKeepsAWorkerAwake`: in a pool that cannot shrink some worker is awake
  while tasks are queued. `LockHeld` says that a worker between its test and its
  sleep holds `lock` and has seen an empty queue, until the destroy broadcasts
  without the mutex. For a pool that shrinks the statement is false (section 6).
* `RingIsAQueue`: the pool implements `TaskPool`. `RingOnce` has every task at one
  place of the ring or with one worker; `WaitingIs` reads the ring as a sequence,
  `TakeShifts` and `StoreExtends` say what a take and a store do to that sequence.
  The hypothesis `~AddDuringDestroy` excludes the late `threadpool_add` that
  stores a task in a pool that is being destroyed.

**All pools** (`ThreadPoolsProofs`): `NobodyNeededSleeps`,
`TasksAreAccountedFor`, `PoolsImplementTaskPool`, for all finite sets of workers
and of clients and any tasks. Three ideas carry the seven invariants.

* `Once`: a task is at one place of the queue, with one running worker, or done;
  what was accepted is what is known (`Known`), plus what Cpp98 deletes.
* `Served(n)` and `Awake(n)`: while somebody sleeps, the queue is not longer than
  the workers on their way to it plus the `n` notifications that are still to
  come. That some worker is awake is not inductive, since a worker on its way may
  already be claimed by another task; counting them is. With a flag that is set
  without the mutex, `InvStopFlag` adds that a worker at its test holds the mutex
  and that what it saw still holds as long as the pool is not stopped.
* `Listed`: the links of 01's list spell out the jobs in both directions;
  `InsertSpells` and `RemoveSpells` are the list surgery. `Walk01` follows
  `nThreadPoolDestory` along the list of workers.

The invariant of 02 is that of `AdaptivePoolProofs`, through `INSTANCE`. For the
refinement, `TaskStep` lists the four things a step may do to the tasks (accept,
start, finish, nothing), `TaskStepImplements` turns each into a step of
`TaskPool`, and one lemma for each pool shows that its steps are of these kinds.
In Cpp11 an `add` that has passed its test of the flag counts as accepted by an
open pool (`Open11`), because the flag may be set before the task is stored.

**HTTP servers** (`HttpProofs`): `ServersTypeCorrect` and
`ServersTrackConnections`, for every set of connections. For `boost/http_server`
the invariant needs that a client that has not connected has no operation
(`FreshUntouched`) and that no connection the manager knows has a cancelled one
(`AbortedForgotten`): this is why a handler that sees `operation_aborted` may
leave the manager alone. For `server3`, `PooledInv` says which handler each
thread may be in (`JobsShaped`), that a connection is in one thread at most
(`OneThread`) with one operation at most (`OneOperation`), that the connection
the accept is for is used by nobody (`AcceptedUntouched`), and that there is one
accept until the service stops (`OneAccept`).

**Servers** (`ServersProofs`): `ReactorTablesMatchEpoll`,
`ReactorsSendOwnDataOnly`, `EdgeReadersLeaveNothing`, `ServersKeepTheirBooks`, for
every table, every limit of descriptors and every set of clients. `ReactorInv` (02) and `Reactor01Inv` (01)
relate the table, the epoll set, the open descriptors and the part of the event
array that is still to be dispatched, or the program has ended (`ExitKeepsReactorInv`); `OwnBuffer` and `Serves` say whose data an
entry holds. The lemmas follow the code's own helpers: what `event_set`/`eventadd`
does to the invariant, what closing does, and then each callback. `EdgeInv` counts
what an edge-triggered reader was told of and what is left, for any number of
writes.

The seven servers of `Bookkeeping` share two things. `KernelOk` says of the kernel
that a client has one descriptor at most and none before it was accepted, so that
a read for one connection takes nothing from another (`Speaks`); `KernelAccepts`,
`KernelReads`, `KernelCloses` and `KernelHears` say what each call and each client
does to it. `Table` says that an array holds each open descriptor in one element
and is free elsewhere; `TableCounts` turns this into the equality of cardinalities.

* `select_concurrent` (`SelectInv`): `SelectCounts` has `nready` equal to the number
  of elements the scan still has to handle, all of which have something to read;
  accepting a client moves it by one. This is why leaving the scan at 0 skips nobody.
  `SelectHasRoom`: a client whose descriptor lies in the set finds a free element, since
  descriptors 0 and 1 belong to no client.
* `02.../server.cpp` (`Select02Inv`): every element from `conn_amount` on is free, and
  `maxsock` is right for all stored descriptors except, during the first `recv`, the
  new one; what is accepted beyond the limit is `leaked`.
* `poll_conncurrent` (`PollInv`): `revents` can be trusted for the elements before
  `maxi`, not for `maxi` itself once a client was accepted in the round.
* `03.../server.cpp` (`Poll03Inv`): the array holds the descriptor 0 only, and 0 is
  standard input until that has ended.
* `epoll_concurrent` (`EpollInv`): whatever the index does, an event that was not
  handled in the round still announces something, because only the call that handles
  it takes that away (`EpollHandles`).
* `04.../server.cpp` (`Epoll04Inv`): a registration for each connection
  (`Registered`); the buffer is empty while nobody waits to write, and who waits
  without having been crossed by another read waits alone and finds only its own data
  before the first zero byte (`OwnData04`, `ReadAlone`).
* `mult_thread_concurrent` (`ThreadsInv`): the elements whose thread has not closed its
  descriptor lead to their own clients and to different descriptors (`Served`), and
  those from `i` on are untouched (`Unfilled`).

**Sessions** (`SessionsProofs`): `ChatKeepsOrder`, `SessionsKeepTheirs`,
`ProcessesStayAccountedFor`, `StreamsHandedOn`, `FilesCopied`, `MutexesExclude`,
for every set of sessions, clients and threads, every length of a stream or of a
file, every set of newlines and every size of a buffer or of the room's memory. Each
program has its own inductive invariant; `IInv` takes the one of the program that
runs.

* Chat room (`RoomInv`). Messages are numbered in the order of the log, so a piece
  of the log is a sequence of consecutive numbers (`Numbers`). `Given` says that
  what a session has written and what it has queued are such numbers from the place
  its recent messages begin, and `AllGiven` that they reach the end of the log:
  this holds of participants only, a session that left keeps a prefix. A queue
  that is not empty has a write in progress and an empty one has none. Both are
  needed to see that `handle_write` and `deliver` never start two writes, nor none.
* Chat client (`ClientInv`). `Follow` strings the lines sent, those in
  `write_msgs_`, those posted to the `io_context` and the line in the hands of
  `main` together: the numbers go on from one to the next. `OneWrite` ties the
  queue to the write under way while the socket is usable.
* TCP (`TcpInv`). `BlocksOwned`: the flag `in_use_` of a session is set exactly
  while its operation lies in the block of the session, so the block is free again
  before the next operation asks for it; `EchoesInOrder` follows the data. UDP
  (`UdpInv`) counts the requests of each client: sent, received, answered, lost.
* Timers (`TimerInv`): what was printed is counted by the counter, or is one ahead
  of it while a handler runs; the strand lets one run.
* Forking servers (`ForkInv`): away from its accept the parent has one connection
  open, the one in hand; a child has at most its own; while there is a zombie, its
  signal is pending or the parent is reaping. The daemon (`DaemonInv`): its session,
  descendants and streams are a function of the step it is at; `OpenedFirst` is why
  `open` and `dup` find the streams in the right order.
* `wrap.c` (`WrapInv`): the bytes handed on and those still in the buffer of
  `my_read` are consecutive and end where the stream has been read to. `BlockCall`
  and `LineCall` say what a call has when it returns, short reads included.
* HTTP clients (`HttpClientInv`): `Pieces` says that what is in the buffer and what
  has not arrived yet spell out the whole reply, wherever it was cut; after the
  headers what was printed and what has not arrived spell out the content. The end
  of the headers is the first empty line: `HeaderLinesAre` and the lemmas after it
  find its place for every content, with empty lines too.
* `file_cp` (`CopyInv`): `Quotient` and the lemmas on products show that blocks are
  disjoint, lie in the file and cover it; `ThreadsWrote` says how often each byte of
  a block has been written, `ChildrenWrote` that a byte has been written if and only if
  it lies in the block of a child that is done; `ChildrenCoverExactly` says which bytes
  are in no block.
* Philosophers and singleton. `ForksInv` says which fork each of the five
  philosophers holds at which place (`Holds`); from it neighbours take turns and no
  circle of waiting exists. `SingletonInv` has one maker at a time (`OneMaker`), the
  number of objects made (`Counted`), and that until the first reset everybody gets
  the first one (`FirstForAll`).

The assumptions are those the modules name (`ASSUME` in `ItemRepository`,
`OneSidedPrograms`, `MultiProducerMultiConsumer`, `AdaptiveThreadPool`,
`MCThreadPools`, `MCHttp`, `MCServers`, `MCSessions`): sizes are numbers, sets of
threads and clients are disjoint from the markers the models use, and the pools
have finitely many threads. TLC evaluates them in the runs.

## 5. Model-checked only

* Liveness: `AllThreadsExit`, `AcceptedTasksRun`, `StoppingEnds`, `StopEnds`,
  `BarCompletes`, `NobodyForgotten`, `EverythingEnds`, and the fairness in
  `ImplementsBoundedFifo`. The prover has no rule for fairness.
* What folds and recursive functions compute: `RequestIsTheInput`,
  `PathsAsSentBelowDocRoot`, the types in `http` of parser and handler,
  `LookupsExact`, `BytesAccountedFor`. They need induction over data.
* `ParserDecidesGrammar`: it would take a comparison of each of the parser's states
  with the grammar over every continuation of the input; that has not been done.

## 6. Findings

* `~ThreadPool` of Cpp11 stores `stop_` and notifies without `mtx_`; a worker
  between its predicate and its sleep is missed and the join never returns
  (`pool_cpp11_destructor`). `stop` of Cpp98 and Cpp03 has the same order.
* A worker of 02 that the signal of `threadpool_add` wakes may exit on a leftover
  `wait_exit_thr_num`; the task stays queued beside a sleeping worker
  (`adaptive_pool_starves`).
* `threadpool_add` frees the argument its slot held before, also while the task
  it belongs to is executing (`adaptive_pool_argument`).
* `url_decode` accepts `%+2` and `%2/` although its comment promises false for an
  invalid encoding (`url_decode`).
* `clear` of `invert.hpp` (line 242) empties the index twice and never the lists, so a
  second `create` answers from the old ones although line 129 says the cache is emptied
  (`tables_create`).

Met while modelling 02 and present in the model without a run of their own: slots
that were never used hold what `malloc` left and are freed; `threadpool_destroy`
joins the first `live_thr_num` slots, not the slots in use; its broadcasts can be
lost like those of Cpp11; a late `threadpool_add` returns 0 for a task nobody
executes.

Met in the other programs, and in the models as the code has it. The properties of
the runs say what the code does instead, or what holds in spite of it:

* `02_epoll_loop.c`: with a full table, or after a failing `fcntl`, `acceptconn`
  keeps the new descriptor open for ever, out of reach of the sweep, although line 242
  says that idle clients are closed; `NobodyForgotten` is about the entries of the table.
  Line 176 sends without `MSG_NOSIGNAL` and may end the server by SIGPIPE.
  `01_simple_reactor.c` with a full table overwrites the listener's element and
  accepts nobody any more.
* `03.../server.cpp:72`: the assignment binds less tightly than `==`, `connfd` is 0
  and the server polls standard input instead of its clients, of whom it reads none,
  although line 80 says that a new descriptor is added (`EchoesStandardInput` states
  what it does).
* `select_concurrent/server.c:71`: a descriptor from `FD_SETSIZE` on is put into a set
  that has no bit for it, before `client[]` can be full.
* `epoll_concurrent/server.c:91` uses one index for two loops: events are skipped or
  handled twice, and a `Close` of a closed descriptor ends the server.
* `poll_conncurrent/server.c:79` tests `revents` that nobody wrote and may block in
  `Read`. `02.../server.cpp` waits for each new client, stores five in all and never
  reads or closes the others.
  `04.../server.cpp` sends a client what another wrote into the shared buffer, also the
  end of a longer message behind a shorter one of its own.
* `mult_thread_concurrent/server.c` writes behind `ts[256]`, and does not look at the
  result of `pthread_create` although line 74 says the error is handled.
* `epoll_ET_LT/1` and `2`: a reader that reads once for an event falls behind for
  ever.
* `mult_process_cp.c:70`: the remainder is taken of the wrong division and inner
  blocks begin a byte late, so bytes are lost although lines 70 and 81 say that the last
  child takes them (`CopyComplete` in `FileTools` says which). `mult_thread_cp.c`
  divides by zero for a file of fewer than 49 bytes.
* `invert.hpp:136`: a crash between the two files leaves an index for other lists.
  Nothing ties the files together, so no property says what the table answers then.
* `invert_table.h` does not compile as committed (line 30, missing header), and its
  `readInvert` reads into a vector of size 0; the model follows the rest of it.
* `exp.cpp`: the header after `[default]` is lost, a name of one character becomes
  empty, `getExpNode` returns a reference into a local object. The repository's own
  `exp.conf` begins with `[DEFAULT]` (line 20): section 0_1 is lost and its lines answer
  for 0_2.
* `philosopher_thread.c:15`: the last thread uses `m[5]`; the semaphores of
  `philosopher_process.c` are not shared between processes by their `pshared`.
* `Singleton.h`: after `DesInstance` a thread that passed the first test may return
  a null pointer.
* `3.chat_client.cpp`: after a failed write the queue never moves; when `run` has
  returned early later lines are dropped. `daytime6` and `daytime7` stop receiving
  after an error.
* `Readline` returns one more than the length of a line that did not fit.
* The HTTP clients miss the end of the headers in a reply that has none.

## 7. Not modelled

Output, wording; the overflow of a version number of many digits; the part of a message that a short `send` of the
reactor leaves out; a single `write` to a file cut in two; the failure exits of the constructors
(`nThreadPoolCreate`, `threadpool_create`); an exception thrown by a task or a
handler; a server whose constructor throws (`serverframe.cpp:45` then uses an
unset pointer); weak memory orders (an unlocked flag is read or written in some
order). Parts that are vendored code, wrappers of one library call or one-page
trials are listed with the reason in `PROJECT.json`.

## 8. Plan

Done, in this order: `produce_consume`, the pools, the HTTP
servers, the chat server and its client, the
reactors and the other tables of descriptors, the asynchronous and the forking
servers, `wrap.c`, the tables and readers of files, the small concurrent programs.
What is not modelled is straight-line I/O, vendored or a one-page trial.

Proved, in this order: the ring and 04, `http_server`, 01 to 03, 02 at every
size, the pools, `server3`, the reactors and edge-triggered readers, the mutex
programs, the chat programs, the asynchronous and forking servers, the stream
readers, `file_cp`, the select, poll, epoll and thread servers.
