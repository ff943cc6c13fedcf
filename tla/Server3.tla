------------------------------- MODULE Server3 -------------------------------
(***************************************************************************)
(* ad_system/server3 as ServerFrame runs it: the server, its connections   *)
(* and an io_context that thread_pool_size threads run.  A thread takes    *)
(* the handler of a completed operation and executes it in steps; the      *)
(* operations it starts may complete, and their handlers be taken by other *)
(* threads, before it returns.  The strand of a connection keeps a second  *)
(* thread out of it.                                                       *)
(***************************************************************************)
EXTENDS Naturals, FiniteSets

CONSTANTS Threads,
          Conns     \* bound: the connection objects alive at a time

VARIABLES
  job,              \* what each thread does: the handler, its connection and its step
  new_connection_,  \* the connection the next client gets
  acceptOp, stopOp, readOp, writeOp,  \* the operations, as in HttpServer
  ioStopped,        \* io_context_.stop() was called
  service           \* ServerFrame::StartService: in s->run() or done

vars == <<job, new_connection_, acceptOp, stopOp, readOp, writeOp, ioStopped, service>>

opVars == <<acceptOp, stopOp, readOp, writeOp>>

None == "none"
Idle == [h |-> "idle", c |-> None, at |-> None]
Exited == [h |-> "exited", c |-> None, at |-> None]

Completed == {"ok", "part", "error"}

InHandlerOf(t, c) == job[t].c = c /\ job[t].h \in {"read", "write"}

\* A connection lives as long as the server, an operation or a handler has it.
Alive ==
  {c \in Conns : \/ new_connection_ = c \/ readOp[c] # None \/ writeOp[c] # None
                 \/ \E t \in Threads : job[t].c = c}

Init ==
  /\ job = [t \in Threads |-> Idle]
  /\ new_connection_ \in Conns
  /\ acceptOp = "pending" /\ stopOp = "pending"
  /\ readOp = [c \in Conns |-> None] /\ writeOp = [c \in Conns |-> None]
  /\ ioStopped = FALSE
  /\ service = "run"

-----------------------------------------------------------------------------

Begin(t, h, c, at) ==
  /\ job[t] = Idle /\ ~ioStopped
  /\ job' = [job EXCEPT ![t] = [h |-> h, c |-> c, at |-> at]]
  /\ UNCHANGED <<new_connection_, ioStopped, service>>

\* bind_executor(strand_, ...): no thread is in a handler of the connection.
StrandFree(c) == \A t \in Threads : ~InHandlerOf(t, c)

TakeAccept(t) ==
  /\ acceptOp \in Completed
  /\ Begin(t, "accept", new_connection_, acceptOp)
  /\ acceptOp' = None
  /\ UNCHANGED <<stopOp, readOp, writeOp>>

TakeRead(t, c) ==
  /\ readOp[c] \in Completed /\ StrandFree(c)
  /\ Begin(t, "read", c, readOp[c])
  /\ readOp' = [readOp EXCEPT ![c] = None]
  /\ UNCHANGED <<acceptOp, stopOp, writeOp>>

TakeWrite(t, c) ==
  /\ writeOp[c] \in Completed /\ StrandFree(c)
  /\ Begin(t, "write", c, writeOp[c])
  /\ writeOp' = [writeOp EXCEPT ![c] = None]
  /\ UNCHANGED <<acceptOp, stopOp, readOp>>

TakeStop(t) ==
  /\ stopOp = "ok"
  /\ Begin(t, "stop", None, "ok")
  /\ stopOp' = None
  /\ UNCHANGED <<acceptOp, readOp, writeOp>>

Goes(t, at) == job' = [job EXCEPT ![t].at = at]

\* The first half of handle_accept: start() of the new connection.
handle_accept_start(t) ==
  /\ job[t].h = "accept" /\ job[t].at \in Completed
  /\ readOp' = IF job[t].at = "ok" THEN [readOp EXCEPT ![job[t].c] = "pending"] ELSE readOp
  /\ Goes(t, "restart")
  /\ UNCHANGED <<new_connection_, acceptOp, stopOp, writeOp, ioStopped, service>>

\* The second half, start_accept: another connection and the next accept.
start_accept(t) ==
  /\ job[t].h = "accept" /\ job[t].at = "restart"
  /\ new_connection_' \in Conns \ Alive
  /\ acceptOp' = "pending"
  /\ job' = [job EXCEPT ![t] = [h |-> "accept", c |-> None, at |-> "done"]]
  /\ UNCHANGED <<stopOp, readOp, writeOp, ioStopped, service>>

\* handle_read: a reply, more to read, or nothing after an error.
handle_read(t) ==
  /\ job[t].h = "read" /\ job[t].at \in Completed
  /\ \/ job[t].at = "ok" /\ writeOp' = [writeOp EXCEPT ![job[t].c] = "pending"] /\ UNCHANGED readOp
     \/ job[t].at = "ok" /\ readOp' = [readOp EXCEPT ![job[t].c] = "pending"] /\ UNCHANGED writeOp
     \/ job[t].at = "error" /\ UNCHANGED <<readOp, writeOp>>
  /\ Goes(t, "done")
  /\ UNCHANGED <<new_connection_, acceptOp, stopOp, ioStopped, service>>

\* handle_write starts nothing; a part of the reply is followed by the rest.
handle_write(t) ==
  /\ job[t].h = "write" /\ job[t].at \in Completed
  /\ writeOp' = IF job[t].at = "part" THEN [writeOp EXCEPT ![job[t].c] = "pending"] ELSE writeOp
  /\ Goes(t, "done")
  /\ UNCHANGED <<new_connection_, acceptOp, stopOp, readOp, ioStopped, service>>

handle_stop(t) ==
  /\ job[t].h = "stop" /\ job[t].at = "ok"
  /\ ioStopped' = TRUE
  /\ Goes(t, "done")
  /\ UNCHANGED <<new_connection_, opVars, service>>

\* The handler returns, and run() does when the context is stopped.
HandlerReturns(t) ==
  /\ job[t].at = "done"
  /\ job' = [job EXCEPT ![t] = Idle]
  /\ UNCHANGED <<new_connection_, opVars, ioStopped, service>>

RunReturns(t) ==
  /\ job[t] = Idle /\ ioStopped
  /\ job' = [job EXCEPT ![t] = Exited]
  /\ UNCHANGED <<new_connection_, opVars, ioStopped, service>>

\* s->run() has joined the threads; delete s drops what is still queued.
StartService ==
  /\ service = "run" /\ \A t \in Threads : job[t] = Exited
  /\ service' = "done"
  /\ new_connection_' = None
  /\ acceptOp' = None /\ stopOp' = None
  /\ readOp' = [c \in Conns |-> None] /\ writeOp' = [c \in Conns |-> None]
  /\ UNCHANGED <<job, ioStopped>>

Handler(t) ==
  \/ handle_accept_start(t) \/ start_accept(t) \/ handle_read(t) \/ handle_write(t) \/ handle_stop(t)
  \/ HandlerReturns(t)

Take(t) == TakeAccept(t) \/ (\E c \in Conns : TakeRead(t, c) \/ TakeWrite(t, c)) \/ TakeStop(t)

-----------------------------------------------------------------------------

\* The network.  The bound on Conns delays clients, nothing else.
CompleteAccept ==
  /\ acceptOp = "pending" /\ Alive # Conns
  /\ acceptOp' \in {"ok", "error"}
  /\ UNCHANGED <<job, new_connection_, stopOp, readOp, writeOp, ioStopped, service>>

CompleteRead(c) ==
  /\ readOp[c] = "pending"
  /\ \E r \in {"ok", "error"} : readOp' = [readOp EXCEPT ![c] = r]
  /\ UNCHANGED <<job, new_connection_, acceptOp, stopOp, writeOp, ioStopped, service>>

CompleteWrite(c) ==
  /\ writeOp[c] = "pending"
  /\ \E r \in Completed : writeOp' = [writeOp EXCEPT ![c] = r]
  /\ UNCHANGED <<job, new_connection_, acceptOp, stopOp, readOp, ioStopped, service>>

Signal ==
  /\ stopOp = "pending" /\ stopOp' = "ok"
  /\ UNCHANGED <<job, new_connection_, acceptOp, readOp, writeOp, ioStopped, service>>

Network == CompleteAccept \/ Signal \/ \E c \in Conns : CompleteRead(c) \/ CompleteWrite(c)

Finished == service = "done" /\ UNCHANGED vars

Next == (\E t \in Threads : Handler(t) \/ Take(t) \/ RunReturns(t)) \/ StartService \/ Network \/ Finished

Spec == Init /\ [][Next]_vars

-----------------------------------------------------------------------------

\* Every variable keeps its type.
TypeOK ==
  /\ new_connection_ \in Conns \cup {None}
  /\ acceptOp \in Completed \cup {None, "pending"} /\ stopOp \in {None, "pending", "ok"}
  /\ readOp \in [Conns -> Completed \cup {None, "pending"}]
  /\ writeOp \in [Conns -> Completed \cup {None, "pending"}]
  /\ job \in [Threads -> [h : {"idle", "exited", "accept", "read", "write", "stop"},
                          c : Conns \cup {None}, at : Completed \cup {None, "restart", "done"}]]

Acceptors == {t \in Threads : job[t].h = "accept" /\ job[t].at # "done"}

\* Whatever the threads do, a connection has one thread in its handlers and one
\* operation at most: buffer_, request_parser_ and reply_ are never shared.  The
\* connection that waits for a client is used by nobody, and while the server
\* runs there is exactly one accept, in progress or being handled.
ConnectionsTracked ==
  /\ \A c \in Conns :
       /\ Cardinality({t \in Threads : InHandlerOf(t, c)}) <= 1
       /\ readOp[c] = None \/ writeOp[c] = None
  /\ service = "run" =>
       Cardinality(Acceptors) + (IF acceptOp = None THEN 0 ELSE 1) = 1
  /\ \A c \in Conns :
       acceptOp # None /\ new_connection_ = c =>
         readOp[c] = None /\ writeOp[c] = None /\ \A t \in Threads : ~InHandlerOf(t, c)

\* After the signal every thread leaves run() and the service ends.
StopEnds == stopOp = "ok" ~> service = "done"

=============================================================================
