------------------------------ MODULE HttpProofs ------------------------------
(***************************************************************************)
(* The account of the connections in the two HTTP servers, for any number  *)
(* of clients and threads: boost/http_server with its connection_manager   *)
(* on one thread, ad_system/server3 on a pool of threads.                  *)
(***************************************************************************)
EXTENDS MCHttp, FiniteSetTheorems, TLAPS

-----------------------------------------------------------------------------
\* boost/http_server

\* A client that has not connected yet has no connection object at work.
FreshUntouched ==
  \A c \in fresh : c \notin connections_ /\ readOp[c] = "none" /\ writeOp[c] = "none"

\* What the connection_manager still knows has no cancelled operation: a
\* handler that sees operation_aborted may leave the connection alone.
AbortedForgotten ==
  \A c \in connections_ : readOp[c] # "aborted" /\ writeOp[c] # "aborted"

SingleInv == Single!TypeOK /\ Single!ConnectionsTracked /\ FreshUntouched /\ AbortedForgotten

\* The state after the constructor of server satisfies the invariant.
LEMMA InitSingleInv == Single!Init => SingleInv
  BY DEF Single!Init, SingleInv, Single!TypeOK, Single!ConnectionsTracked, FreshUntouched, AbortedForgotten,
         Single!OpStates

\* The handler of do_accept keeps the invariant: it adds a connection only
\* while the acceptor is open.
LEMMA AcceptKeepsSingleInv == SingleInv /\ Single!HandleAccept => SingleInv'
  BY DEF SingleInv, Single!TypeOK, Single!ConnectionsTracked, FreshUntouched, AbortedForgotten, Single!OpStates,
         Single!Completed, Single!HandleAccept, Single!connVars

\* The handler of do_read keeps the invariant, also when stop_all has closed
\* the socket before it runs.
LEMMA ReadKeepsSingleInv == ASSUME NEW c \in Conns, SingleInv, Single!HandleRead(c) PROVE SingleInv'
<1> USE DEF SingleInv, Single!TypeOK, Single!ConnectionsTracked, FreshUntouched, AbortedForgotten,
            Single!OpStates, Single!HandleRead
<1>1. CASE readOp[c] = "ok"
  BY <1>1 DEF Single!Started
<1>2. CASE readOp[c] = "error"
  BY <1>2 DEF Single!ManagerStop
<1>3. CASE readOp[c] = "aborted"
  BY <1>3
<1>4. QED
  BY <1>1, <1>2, <1>3

\* The handler of do_write keeps the invariant, and so does the next step of a
\* write of several steps.
LEMMA WriteKeepsSingleInv ==
  ASSUME NEW c \in Conns, SingleInv, Single!HandleWrite(c) \/ Single!ContinueWrite(c) PROVE SingleInv'
<1> USE DEF SingleInv, Single!TypeOK, Single!ConnectionsTracked, FreshUntouched, AbortedForgotten, Single!OpStates
<1>1. CASE Single!HandleWrite(c) /\ writeOp[c] # "aborted"
  BY <1>1 DEF Single!HandleWrite, Single!ManagerStop, Single!Completed
<1>2. CASE Single!HandleWrite(c) /\ writeOp[c] = "aborted"
  BY <1>2 DEF Single!HandleWrite
<1>3. CASE Single!ContinueWrite(c)
  BY <1>3 DEF Single!ContinueWrite, Single!Started
<1>4. QED
  BY <1>1, <1>2, <1>3

\* The handler of do_await_stop keeps the invariant: it cancels what is in
\* progress and drops no operation.
LEMMA StopKeepsSingleInv == SingleInv /\ Single!HandleStop => SingleInv'
  BY ZenonT(60) DEF SingleInv, Single!TypeOK, Single!ConnectionsTracked, FreshUntouched, AbortedForgotten, Single!OpStates,
         Single!HandleStop, Single!Cancelled

\* The network completes operations and starts none.
LEMMA NetworkKeepsSingleInv == SingleInv /\ Single!Network => SingleInv'
  BY DEF SingleInv, Single!TypeOK, Single!ConnectionsTracked, FreshUntouched, AbortedForgotten, Single!OpStates,
         Single!Network, Single!CompleteAccept, Single!CompleteRead, Single!CompleteWrite, Single!Signal, Single!connVars

\* Every step of boost/http_server keeps the invariant.
LEMMA NextKeepsSingleInv == SingleInv /\ Single!Next => SingleInv'
<1> SUFFICES ASSUME SingleInv, Single!Next PROVE SingleInv'
  OBVIOUS
<1>1. CASE Single!run
  BY <1>1, AcceptKeepsSingleInv, StopKeepsSingleInv, ReadKeepsSingleInv, WriteKeepsSingleInv DEF Single!run
<1>2. CASE Single!Network
  BY <1>2, NetworkKeepsSingleInv
<1>3. CASE Single!Returned
  BY <1>3 DEF SingleInv, Single!TypeOK, Single!ConnectionsTracked, FreshUntouched, AbortedForgotten,
              Single!Returned, Single!vars
<1>4. QED
  BY <1>1, <1>2, <1>3 DEF Single!Next

-----------------------------------------------------------------------------
\* ad_system/server3

\* A thread in handle_read or handle_write has a connection, and so has one in
\* handle_accept until it has started the next accept; a thread outside of
\* every handler is at no step of one.
JobsShaped ==
  \A t \in Threads :
    /\ job[t].h \in {"read", "write"} => job[t].c \in Conns
    /\ job[t].h = "accept" => job[t].c \in Conns \/ job[t].at = "done"
    /\ job[t].h \in {"idle", "exited"} => job[t].at = "none"

\* The strand: one thread in the handlers of a connection.
OneThread ==
  \A c \in Conns, t \in Threads, u \in Threads :
    Pooled!InHandlerOf(t, c) /\ Pooled!InHandlerOf(u, c) => t = u

\* A connection has one operation at most, and none while a handler of it has
\* yet to start the next one.
OneOperation ==
  \A c \in Conns :
    /\ readOp[c] = "none" \/ writeOp[c] = "none"
    /\ (\E t \in Threads : Pooled!InHandlerOf(t, c) /\ job[t].at # "done")
         => readOp[c] = "none" /\ writeOp[c] = "none"

Untouched(c) ==
  readOp[c] = "none" /\ writeOp[c] = "none" /\ \A t \in Threads : ~Pooled!InHandlerOf(t, c)

\* The connection that waits for a client is not in use, nor is the one a
\* thread has just accepted and not yet started.
AcceptedUntouched ==
  /\ acceptOp # "none" => new_connection_ \in Conns /\ Untouched(new_connection_)
  /\ \A t \in Threads :
       job[t].h = "accept" /\ job[t].at \in Pooled!Completed => Untouched(job[t].c)

\* The accept is in progress, or one thread handles it; after run() it is gone.
OneAccept ==
  \/ service = "run" /\ acceptOp # "none" /\ Pooled!Acceptors = {}
  \/ service = "run" /\ acceptOp = "none" /\ \E t \in Threads : Pooled!Acceptors = {t}
  \/ service = "done" /\ acceptOp = "none" /\ \A t \in Threads : job[t] = Pooled!Exited

PooledInv ==
  Pooled!TypeOK /\ JobsShaped /\ OneThread /\ OneOperation /\ AcceptedUntouched /\ OneAccept

\* A thread takes the handler of the accept and with it the connection.
LEMMA TakeAcceptKeeps ==
  ASSUME NEW t \in Threads, PooledInv, Pooled!TakeAccept(t)
  PROVE  PooledInv'
<1> USE ConnsAssumption DEF PooledInv, Pooled!InHandlerOf, Pooled!Idle, Pooled!Exited, Pooled!None,
                            Pooled!Completed, Pooled!TakeAccept, Pooled!Begin
<1>1. Pooled!TypeOK'
  BY DEF Pooled!TypeOK, JobsShaped, AcceptedUntouched
<1>2. JobsShaped'
  BY DEF Pooled!TypeOK, JobsShaped, AcceptedUntouched
<1>3. OneThread'
  BY DEF Pooled!TypeOK, OneThread
<1>4. OneOperation'
  BY DEF Pooled!TypeOK, JobsShaped, OneThread, OneOperation, AcceptedUntouched, Untouched
<1>5. AcceptedUntouched'
  BY DEF Pooled!TypeOK, JobsShaped, OneThread, OneOperation, AcceptedUntouched, Untouched, OneAccept, Pooled!Acceptors
<1>6. OneAccept'
  BY DEF Pooled!TypeOK, JobsShaped, OneAccept, Pooled!Acceptors
<1>. QED BY <1>1, <1>2, <1>3, <1>4, <1>5, <1>6 DEF PooledInv

\* The strand lets one thread in, and the operation it handles is over.
LEMMA TakeReadKeeps ==
  ASSUME NEW t \in Threads, NEW c \in Conns, PooledInv, Pooled!TakeRead(t, c)
  PROVE  PooledInv'
<1> USE ConnsAssumption DEF PooledInv, Pooled!InHandlerOf, Pooled!Idle, Pooled!Exited, Pooled!None,
                            Pooled!Completed, Pooled!TakeRead, Pooled!Begin, Pooled!StrandFree
<1>1. Pooled!TypeOK'
  BY DEF Pooled!TypeOK, JobsShaped, AcceptedUntouched
<1>2. JobsShaped'
  BY DEF Pooled!TypeOK, JobsShaped, AcceptedUntouched
<1>3. OneThread'
  BY DEF Pooled!TypeOK, OneThread
<1>4. OneOperation'
  BY DEF Pooled!TypeOK, JobsShaped, OneThread, OneOperation, AcceptedUntouched, Untouched
<1>5. AcceptedUntouched'
  BY DEF Pooled!TypeOK, JobsShaped, OneThread, OneOperation, AcceptedUntouched, Untouched, OneAccept, Pooled!Acceptors
<1>6. OneAccept'
  BY DEF Pooled!TypeOK, JobsShaped, OneAccept, Pooled!Acceptors
<1>. QED BY <1>1, <1>2, <1>3, <1>4, <1>5, <1>6 DEF PooledInv

\* The same for the handler of a write.
LEMMA TakeWriteKeeps ==
  ASSUME NEW t \in Threads, NEW c \in Conns, PooledInv, Pooled!TakeWrite(t, c)
  PROVE  PooledInv'
<1> USE ConnsAssumption DEF PooledInv, Pooled!InHandlerOf, Pooled!Idle, Pooled!Exited, Pooled!None,
                            Pooled!Completed, Pooled!TakeWrite, Pooled!Begin, Pooled!StrandFree
<1>1. Pooled!TypeOK'
  BY DEF Pooled!TypeOK, JobsShaped, AcceptedUntouched
<1>2. JobsShaped'
  BY DEF Pooled!TypeOK, JobsShaped, AcceptedUntouched
<1>3. OneThread'
  BY DEF Pooled!TypeOK, OneThread
<1>4. OneOperation'
  BY DEF Pooled!TypeOK, JobsShaped, OneThread, OneOperation, AcceptedUntouched, Untouched
<1>5. AcceptedUntouched'
  BY DEF Pooled!TypeOK, JobsShaped, OneThread, OneOperation, AcceptedUntouched, Untouched, OneAccept, Pooled!Acceptors
<1>6. OneAccept'
  BY DEF Pooled!TypeOK, JobsShaped, OneAccept, Pooled!Acceptors
<1>. QED BY <1>1, <1>2, <1>3, <1>4, <1>5, <1>6 DEF PooledInv

\* The handler of the signal touches no connection.
LEMMA TakeStopKeeps ==
  ASSUME NEW t \in Threads, PooledInv, Pooled!TakeStop(t)
  PROVE  PooledInv'
<1> USE ConnsAssumption DEF PooledInv, Pooled!InHandlerOf, Pooled!Idle, Pooled!Exited, Pooled!None,
                            Pooled!Completed, Pooled!TakeStop, Pooled!Begin
<1>1. Pooled!TypeOK'
  BY DEF Pooled!TypeOK, JobsShaped, AcceptedUntouched
<1>2. JobsShaped'
  BY DEF Pooled!TypeOK, JobsShaped, AcceptedUntouched
<1>3. OneThread'
  BY DEF Pooled!TypeOK, OneThread
<1>4. OneOperation'
  BY DEF Pooled!TypeOK, JobsShaped, OneThread, OneOperation, AcceptedUntouched, Untouched
<1>5. AcceptedUntouched'
  BY DEF Pooled!TypeOK, JobsShaped, OneThread, OneOperation, AcceptedUntouched, Untouched, OneAccept, Pooled!Acceptors
<1>6. OneAccept'
  BY DEF Pooled!TypeOK, JobsShaped, OneAccept, Pooled!Acceptors
<1>. QED BY <1>1, <1>2, <1>3, <1>4, <1>5, <1>6 DEF PooledInv

\* The connection a thread starts was used by nobody.
LEMMA handle_accept_startKeeps ==
  ASSUME NEW t \in Threads, PooledInv, Pooled!handle_accept_start(t)
  PROVE  PooledInv'
<1> USE ConnsAssumption DEF PooledInv, Pooled!InHandlerOf, Pooled!Idle, Pooled!Exited, Pooled!None,
                            Pooled!Completed, Pooled!handle_accept_start, Pooled!Goes
<1>1. Pooled!TypeOK'
  BY DEF Pooled!TypeOK, JobsShaped, AcceptedUntouched
<1>2. JobsShaped'
  BY DEF Pooled!TypeOK, JobsShaped, AcceptedUntouched
<1>3. OneThread'
  BY DEF Pooled!TypeOK, OneThread
<1>4. OneOperation'
  BY DEF Pooled!TypeOK, JobsShaped, OneThread, OneOperation, AcceptedUntouched, Untouched
<1>5. AcceptedUntouched'
  BY DEF Pooled!TypeOK, JobsShaped, OneThread, OneOperation, AcceptedUntouched, Untouched, OneAccept, Pooled!Acceptors
<1>6. OneAccept'
  BY DEF Pooled!TypeOK, JobsShaped, OneAccept, Pooled!Acceptors
<1>. QED BY <1>1, <1>2, <1>3, <1>4, <1>5, <1>6 DEF PooledInv

\* The next connection is new, so nobody uses it.
LEMMA start_acceptKeeps ==
  ASSUME NEW t \in Threads, PooledInv, Pooled!start_accept(t)
  PROVE  PooledInv'
<1> USE ConnsAssumption DEF PooledInv, Pooled!InHandlerOf, Pooled!Idle, Pooled!Exited, Pooled!None,
                            Pooled!Completed, Pooled!start_accept, Pooled!Alive
<1>1. Pooled!TypeOK'
  BY DEF Pooled!TypeOK, JobsShaped, AcceptedUntouched
<1>2. JobsShaped'
  BY DEF Pooled!TypeOK, JobsShaped, AcceptedUntouched
<1>3. OneThread'
  BY DEF Pooled!TypeOK, OneThread
<1>4. OneOperation'
  BY DEF Pooled!TypeOK, JobsShaped, OneThread, OneOperation, AcceptedUntouched, Untouched
<1>5. AcceptedUntouched'
  BY DEF Pooled!TypeOK, JobsShaped, OneThread, OneOperation, AcceptedUntouched, Untouched, OneAccept, Pooled!Acceptors
<1>6. OneAccept'
  BY DEF Pooled!TypeOK, JobsShaped, OneAccept, Pooled!Acceptors
<1>. QED BY <1>1, <1>2, <1>3, <1>4, <1>5, <1>6 DEF PooledInv

\* handle_read starts one operation where there was none.
LEMMA handle_readKeeps ==
  ASSUME NEW t \in Threads, PooledInv, Pooled!handle_read(t)
  PROVE  PooledInv'
<1> USE ConnsAssumption DEF PooledInv, Pooled!InHandlerOf, Pooled!Idle, Pooled!Exited, Pooled!None,
                            Pooled!Completed, Pooled!handle_read, Pooled!Goes
<1>1. Pooled!TypeOK'
  BY DEF Pooled!TypeOK, JobsShaped, AcceptedUntouched
<1>2. JobsShaped'
  BY DEF Pooled!TypeOK, JobsShaped, AcceptedUntouched
<1>3. OneThread'
  BY DEF Pooled!TypeOK, OneThread
<1>4. OneOperation'
  BY DEF Pooled!TypeOK, JobsShaped, OneThread, OneOperation, AcceptedUntouched, Untouched
<1>5. AcceptedUntouched'
  BY DEF Pooled!TypeOK, JobsShaped, OneThread, OneOperation, AcceptedUntouched, Untouched, OneAccept, Pooled!Acceptors
<1>6. OneAccept'
  BY DEF Pooled!TypeOK, JobsShaped, OneAccept, Pooled!Acceptors
<1>. QED BY <1>1, <1>2, <1>3, <1>4, <1>5, <1>6 DEF PooledInv

\* handle_write at most goes on with the reply.
LEMMA handle_writeKeeps ==
  ASSUME NEW t \in Threads, PooledInv, Pooled!handle_write(t)
  PROVE  PooledInv'
<1> USE ConnsAssumption DEF PooledInv, Pooled!InHandlerOf, Pooled!Idle, Pooled!Exited, Pooled!None,
                            Pooled!Completed, Pooled!handle_write, Pooled!Goes
<1>1. Pooled!TypeOK'
  BY DEF Pooled!TypeOK, JobsShaped, AcceptedUntouched
<1>2. JobsShaped'
  BY DEF Pooled!TypeOK, JobsShaped, AcceptedUntouched
<1>3. OneThread'
  BY DEF Pooled!TypeOK, OneThread
<1>4. OneOperation'
  BY DEF Pooled!TypeOK, JobsShaped, OneThread, OneOperation, AcceptedUntouched, Untouched
<1>5. AcceptedUntouched'
  BY DEF Pooled!TypeOK, JobsShaped, OneThread, OneOperation, AcceptedUntouched, Untouched, OneAccept, Pooled!Acceptors
<1>6. OneAccept'
  BY DEF Pooled!TypeOK, JobsShaped, OneAccept, Pooled!Acceptors
<1>. QED BY <1>1, <1>2, <1>3, <1>4, <1>5, <1>6 DEF PooledInv

\* handle_stop only stops the context.
LEMMA handle_stopKeeps ==
  ASSUME NEW t \in Threads, PooledInv, Pooled!handle_stop(t)
  PROVE  PooledInv'
<1> USE ConnsAssumption DEF PooledInv, Pooled!InHandlerOf, Pooled!Idle, Pooled!Exited, Pooled!None,
                            Pooled!Completed, Pooled!handle_stop, Pooled!Goes, Pooled!opVars
<1>1. Pooled!TypeOK'
  BY DEF Pooled!TypeOK, JobsShaped, AcceptedUntouched
<1>2. JobsShaped'
  BY DEF Pooled!TypeOK, JobsShaped, AcceptedUntouched
<1>3. OneThread'
  BY DEF Pooled!TypeOK, OneThread
<1>4. OneOperation'
  BY DEF Pooled!TypeOK, JobsShaped, OneThread, OneOperation, AcceptedUntouched, Untouched
<1>5. AcceptedUntouched'
  BY DEF Pooled!TypeOK, JobsShaped, OneThread, OneOperation, AcceptedUntouched, Untouched, OneAccept, Pooled!Acceptors
<1>6. OneAccept'
  BY DEF Pooled!TypeOK, JobsShaped, OneAccept, Pooled!Acceptors
<1>. QED BY <1>1, <1>2, <1>3, <1>4, <1>5, <1>6 DEF PooledInv

\* A handler that returns has nothing left to start.
LEMMA HandlerReturnsKeeps ==
  ASSUME NEW t \in Threads, PooledInv, Pooled!HandlerReturns(t)
  PROVE  PooledInv'
<1> USE ConnsAssumption DEF PooledInv, Pooled!InHandlerOf, Pooled!Idle, Pooled!Exited, Pooled!None,
                            Pooled!Completed, Pooled!HandlerReturns, Pooled!opVars
<1>1. Pooled!TypeOK'
  BY DEF Pooled!TypeOK, JobsShaped, AcceptedUntouched
<1>2. JobsShaped'
  BY DEF Pooled!TypeOK, JobsShaped, AcceptedUntouched
<1>3. OneThread'
  BY DEF Pooled!TypeOK, OneThread
<1>4. OneOperation'
  BY DEF Pooled!TypeOK, JobsShaped, OneThread, OneOperation, AcceptedUntouched, Untouched
<1>5. AcceptedUntouched'
  BY DEF Pooled!TypeOK, JobsShaped, OneThread, OneOperation, AcceptedUntouched, Untouched, OneAccept, Pooled!Acceptors
<1>6. OneAccept'
  BY DEF Pooled!TypeOK, JobsShaped, OneAccept, Pooled!Acceptors
<1>. QED BY <1>1, <1>2, <1>3, <1>4, <1>5, <1>6 DEF PooledInv

\* A thread leaves run() from outside of the handlers.
LEMMA RunReturnsKeeps ==
  ASSUME NEW t \in Threads, PooledInv, Pooled!RunReturns(t)
  PROVE  PooledInv'
<1> USE ConnsAssumption DEF PooledInv, Pooled!InHandlerOf, Pooled!Idle, Pooled!Exited, Pooled!None,
                            Pooled!Completed, Pooled!RunReturns, Pooled!opVars
<1>1. Pooled!TypeOK'
  BY DEF Pooled!TypeOK, JobsShaped, AcceptedUntouched
<1>2. JobsShaped'
  BY DEF Pooled!TypeOK, JobsShaped, AcceptedUntouched
<1>3. OneThread'
  BY DEF Pooled!TypeOK, OneThread
<1>4. OneOperation'
  BY DEF Pooled!TypeOK, JobsShaped, OneThread, OneOperation, AcceptedUntouched, Untouched
<1>5. AcceptedUntouched'
  BY DEF Pooled!TypeOK, JobsShaped, OneThread, OneOperation, AcceptedUntouched, Untouched, OneAccept, Pooled!Acceptors
<1>6. OneAccept'
  BY DEF Pooled!TypeOK, JobsShaped, OneAccept, Pooled!Acceptors
<1>. QED BY <1>1, <1>2, <1>3, <1>4, <1>5, <1>6 DEF PooledInv

\* The network completes operations and starts none, and delete s drops those
\* that no thread will handle any more.
LEMMA OutsideKeeps == PooledInv /\ (Pooled!Network \/ Pooled!StartService \/ Pooled!Finished) => PooledInv'
<1> SUFFICES ASSUME PooledInv, Pooled!Network \/ Pooled!StartService \/ Pooled!Finished PROVE PooledInv'
  OBVIOUS
<1> USE DEF PooledInv, Pooled!InHandlerOf, Pooled!Exited, Pooled!None, Pooled!Completed
<1>1. CASE Pooled!CompleteAccept
  BY <1>1 DEF Pooled!CompleteAccept, Pooled!TypeOK, JobsShaped, OneThread, OneOperation, AcceptedUntouched,
              Untouched, OneAccept, Pooled!Acceptors
<1>2. CASE Pooled!Signal
  BY <1>2 DEF Pooled!Signal, Pooled!TypeOK, JobsShaped, OneThread, OneOperation, AcceptedUntouched,
              Untouched, OneAccept, Pooled!Acceptors
<1>3. ASSUME NEW c \in Conns, Pooled!CompleteRead(c) PROVE PooledInv'
  BY <1>3 DEF Pooled!CompleteRead, Pooled!TypeOK, JobsShaped, OneThread, OneOperation, AcceptedUntouched,
              Untouched, OneAccept, Pooled!Acceptors
<1>4. ASSUME NEW c \in Conns, Pooled!CompleteWrite(c) PROVE PooledInv'
  BY <1>4 DEF Pooled!CompleteWrite, Pooled!TypeOK, JobsShaped, OneThread, OneOperation, AcceptedUntouched,
              Untouched, OneAccept, Pooled!Acceptors
<1>5. CASE Pooled!StartService
  BY <1>5 DEF Pooled!StartService, Pooled!TypeOK, JobsShaped, OneThread, OneOperation, AcceptedUntouched,
              Untouched, OneAccept, Pooled!Acceptors
<1>6. CASE Pooled!Finished
  BY <1>6 DEF Pooled!Finished, Pooled!vars, Pooled!TypeOK, JobsShaped, OneThread, OneOperation,
              AcceptedUntouched, Untouched, OneAccept, Pooled!Acceptors
<1>. QED BY <1>1, <1>2, <1>3, <1>4, <1>5, <1>6 DEF Pooled!Network

\* Every step of ad_system/server3 keeps the invariant.
LEMMA NextKeepsPooledInv == PooledInv /\ Pooled!Next => PooledInv'
<1> SUFFICES ASSUME PooledInv, Pooled!Next PROVE PooledInv'
  OBVIOUS
<1>1. ASSUME NEW t \in Threads, Pooled!Handler(t) PROVE PooledInv'
  BY <1>1, handle_accept_startKeeps, start_acceptKeeps, handle_readKeeps, handle_writeKeeps, handle_stopKeeps,
     HandlerReturnsKeeps DEF Pooled!Handler
<1>2. ASSUME NEW t \in Threads, Pooled!Take(t) PROVE PooledInv'
  BY <1>2, TakeAcceptKeeps, TakeReadKeeps, TakeWriteKeeps, TakeStopKeeps DEF Pooled!Take
<1>. QED BY <1>1, <1>2, RunReturnsKeeps, OutsideKeeps DEF Pooled!Next

\* The server starts with its accept in progress and its threads idle.
LEMMA InitPooledInv == Pooled!Init => PooledInv
BY ConnsAssumption
DEF Pooled!Init, PooledInv, Pooled!InHandlerOf, Pooled!Idle, Pooled!None, Pooled!Completed, Pooled!TypeOK, JobsShaped,
    OneThread, OneOperation, AcceptedUntouched, Untouched, OneAccept, Pooled!Acceptors

\* Server3 counts with the Cardinality of its own instance of FiniteSets.
LEMMA SameCardinality == \A S : Pooled!Cardinality(S) = Cardinality(S)
BY Zenon DEF Pooled!Cardinality, Cardinality, Pooled!IsFiniteSet, IsFiniteSet

\* One thread and one accept at a time, counted as ConnectionsTracked does.
LEMMA PooledInvTracks == PooledInv => Pooled!ConnectionsTracked
<1> SUFFICES ASSUME PooledInv PROVE Pooled!ConnectionsTracked
  OBVIOUS
<1>1. ASSUME NEW c \in Conns PROVE Pooled!Cardinality({t \in Threads : Pooled!InHandlerOf(t, c)}) <= 1
  <2>1. CASE \E t \in Threads : Pooled!InHandlerOf(t, c)
    <3>1. PICK t \in Threads : Pooled!InHandlerOf(t, c)
      BY <2>1
    <3>2. {u \in Threads : Pooled!InHandlerOf(u, c)} = {t}
      BY <3>1 DEF PooledInv, OneThread
    <3>3. Pooled!Cardinality({t}) = 1
      BY FS_Singleton, SameCardinality
    <3>4. Pooled!Cardinality({u \in Threads : Pooled!InHandlerOf(u, c)}) = 1
      BY <3>2, <3>3, Zenon
    <3>. QED BY <3>4
  <2>2. CASE \A t \in Threads : ~Pooled!InHandlerOf(t, c)
    <3>1. {u \in Threads : Pooled!InHandlerOf(u, c)} = {}
      BY <2>2
    <3>. QED BY <3>1, FS_EmptySet, SameCardinality
  <2>. QED BY <2>1, <2>2
<1>2. service = "run" => Pooled!Cardinality(Pooled!Acceptors) + (IF acceptOp = Pooled!None THEN 0 ELSE 1) = 1
  <2>1. CASE acceptOp # "none" /\ Pooled!Acceptors = {}
    BY <2>1, FS_EmptySet, SameCardinality DEF Pooled!None
  <2>2. CASE acceptOp = "none" /\ \E t \in Threads : Pooled!Acceptors = {t}
    <3>1. Cardinality(Pooled!Acceptors) = 1
      BY <2>2, FS_Singleton, Zenon
    <3>. QED BY <3>1, <2>2, SameCardinality DEF Pooled!None
  <2>. QED BY <2>1, <2>2 DEF PooledInv, OneAccept
<1>3. ASSUME NEW c \in Conns
      PROVE  /\ readOp[c] = "none" \/ writeOp[c] = "none"
             /\ acceptOp # "none" /\ new_connection_ = c => Untouched(c)
  BY DEF PooledInv, OneOperation, AcceptedUntouched
<1>4. \A c \in Conns : /\ Pooled!Cardinality({t \in Threads : Pooled!InHandlerOf(t, c)}) <= 1
                       /\ readOp[c] = Pooled!None \/ writeOp[c] = Pooled!None
  BY <1>1, <1>3, Zenon DEF Pooled!None
<1>5. \A c \in Conns :
        acceptOp # Pooled!None /\ new_connection_ = c =>
          /\ readOp[c] = Pooled!None /\ writeOp[c] = Pooled!None
          /\ \A t \in Threads : ~Pooled!InHandlerOf(t, c)
  BY <1>3, Zenon DEF Untouched, Pooled!None
<1>. QED BY <1>2, <1>4, <1>5, Zenon DEF Pooled!ConnectionsTracked

-----------------------------------------------------------------------------

IInv ==
  /\ part = "http_server" => SingleInv
  /\ part = "server3" => PooledInv

\* Whichever server runs, its invariant is inductive.
LEMMA InvariantHolds == Spec => []IInv
<1>1. Init => IInv
  BY InitSingleInv, InitPooledInv DEF Init, IInv
<1>2. IInv /\ [Next]_vars => IInv'
  <2> SUFFICES ASSUME IInv, [Next]_vars PROVE IInv'
    OBVIOUS
  <2>1. CASE RunParser(Parser!Next) \/ RunHandler(Handler!Next)
    BY <2>1 DEF RunParser, RunHandler, IInv
  <2>2. CASE RunSingle(Single!Next)
    BY <2>2, NextKeepsSingleInv DEF RunSingle, IInv
  <2>3. CASE RunPooled(Pooled!Next)
    BY <2>3, NextKeepsPooledInv DEF RunPooled, IInv
  <2>4. CASE UNCHANGED vars
    <3>1. UNCHANGED part /\ UNCHANGED opVars /\ UNCHANGED managerVars /\ UNCHANGED threadVars
      BY <2>4 DEF vars
    <3>2. SingleInv => SingleInv'
      BY <3>1 DEF opVars, managerVars, SingleInv, Single!TypeOK, Single!ConnectionsTracked, FreshUntouched,
                  AbortedForgotten
    <3>3. PooledInv => PooledInv'
      BY <3>1 DEF opVars, threadVars, PooledInv, Pooled!TypeOK, JobsShaped, OneThread, OneOperation,
                  AcceptedUntouched, Untouched, OneAccept, Pooled!Acceptors, Pooled!InHandlerOf
    <3>. QED BY <3>1, <3>2, <3>3 DEF IInv
  <2>. QED BY <2>1, <2>2, <2>3, <2>4 DEF Next
<1>. QED BY <1>1, <1>2, PTL DEF Spec

\* For any clients and threads.  boost/http_server: the connection_manager
\* knows exactly the open sockets, each with one operation outstanding,
\* whatever the order in which the signal, the network and the handlers come.
\* ad_system/server3: however its threads interleave, a connection has one
\* thread and one operation at most, and there is always exactly one accept.
THEOREM ServersTrackConnections == Spec => []ConnectionsTracked
<1>1. IInv => ConnectionsTracked
  BY PooledInvTracks DEF IInv, SingleInv, ConnectionsTracked
<1>. QED BY <1>1, InvariantHolds, PTL

\* The types of the two servers' variables; those of the parser and of the
\* handler follow from what a fold computes and are model-checked.
ServersTyped ==
  (part = "http_server" => Single!TypeOK) /\ (part = "server3" => Pooled!TypeOK)

\* Operations, jobs and sets of connections keep their types in both servers,
\* for any clients and threads.
THEOREM ServersTypeCorrect == Spec => []ServersTyped
<1>1. IInv => ServersTyped
  BY DEF IInv, SingleInv, PooledInv, ServersTyped
<1>. QED BY <1>1, InvariantHolds, PTL

=============================================================================
