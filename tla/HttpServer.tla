----------------------------- MODULE HttpServer -----------------------------
(***************************************************************************)
(* boost/http_server: server, connection and connection_manager on an      *)
(* io_context that one thread runs.  A handler is an action.  The network  *)
(* completes operations at any time; the handler of a completed operation  *)
(* runs later, when other handlers may have closed its socket.             *)
(***************************************************************************)
EXTENDS Naturals, FiniteSets

CONSTANTS Conns   \* bound: the clients that connect; each gets a connection object

VARIABLES
  acceptorOpen,   \* acceptor_.is_open()
  acceptOp,       \* the async_accept
  stopOp,         \* the signals_.async_wait
  connections_,   \* of the connection_manager
  fresh,          \* the clients that have not connected yet
  openSockets,    \* the connections whose socket is open
  readOp, writeOp \* their async_read_some and async_write

vars == <<acceptorOpen, acceptOp, stopOp, connections_, fresh, openSockets, readOp, writeOp>>

connVars == <<connections_, fresh, openSockets, readOp, writeOp>>

\* An operation: not started, in progress, or completed with a result its
\* handler has yet to see.  A write of several steps is "part" done when one
\* step has completed and the next is to be started.
OpStates == {"none", "pending", "ok", "part", "error", "aborted"}

Completed == {"ok", "part", "error", "aborted"}

-----------------------------------------------------------------------------

\* Closing a socket or the acceptor cancels what is in progress on it; what has
\* completed keeps its result.
Cancelled(op) == IF op = "pending" THEN "aborted" ELSE op

\* An operation on a closed socket completes at once with bad_descriptor, which
\* is not operation_aborted.
Started(open) == IF open THEN "pending" ELSE "error"

Init ==
  /\ acceptorOpen = TRUE
  /\ acceptOp = "pending"
  /\ stopOp = "pending"
  /\ connections_ = {}
  /\ fresh = Conns
  /\ openSockets = {}
  /\ readOp = [c \in Conns |-> "none"]
  /\ writeOp = [c \in Conns |-> "none"]

\* connection_manager::stop
ManagerStop(c) ==
  /\ connections_' = connections_ \ {c}
  /\ openSockets' = openSockets \ {c}
  /\ UNCHANGED fresh

\* Mutant of HandleAccept: the handler does not look at is_open.
HandleAcceptAlways ==
  /\ acceptOp \in Completed
  /\ acceptOp' = Started(acceptorOpen)
  /\ \/ /\ acceptOp = "ok"
        /\ \E c \in fresh :
             /\ fresh' = fresh \ {c}
             /\ connections_' = connections_ \cup {c}
             /\ openSockets' = openSockets \cup {c}
             /\ readOp' = [readOp EXCEPT ![c] = "pending"]
        /\ UNCHANGED writeOp
     \/ acceptOp # "ok" /\ UNCHANGED connVars
  /\ UNCHANGED <<acceptorOpen, stopOp>>

\* The handler of do_accept.  connection_manager::start is part of it.
HandleAccept ==
  /\ acceptOp \in Completed
  /\ acceptOp' = IF acceptorOpen THEN "pending" ELSE "none"
  /\ \/ /\ acceptorOpen /\ acceptOp = "ok"
        /\ \E c \in fresh :
             /\ fresh' = fresh \ {c}
             /\ connections_' = connections_ \cup {c}
             /\ openSockets' = openSockets \cup {c}
             /\ readOp' = [readOp EXCEPT ![c] = "pending"]
        /\ UNCHANGED writeOp
     \/ ~(acceptorOpen /\ acceptOp = "ok") /\ UNCHANGED connVars
  /\ UNCHANGED <<acceptorOpen, stopOp>>

\* The handler of do_read: the parser says good or bad and a reply is written,
\* or it wants more.
HandleRead(c) ==
  /\ readOp[c] \in Completed
  /\ \/ /\ readOp[c] = "ok"
        /\ \/ /\ readOp' = [readOp EXCEPT ![c] = "none"]
              /\ writeOp' = [writeOp EXCEPT ![c] = Started(c \in openSockets)]
           \/ /\ readOp' = [readOp EXCEPT ![c] = Started(c \in openSockets)]
              /\ UNCHANGED writeOp
        /\ UNCHANGED <<connections_, fresh, openSockets>>
     \/ /\ readOp[c] = "error"
        /\ readOp' = [readOp EXCEPT ![c] = "none"]
        /\ ManagerStop(c)
        /\ UNCHANGED writeOp
     \/ /\ readOp[c] = "aborted"
        /\ readOp' = [readOp EXCEPT ![c] = "none"]
        /\ UNCHANGED <<connections_, fresh, openSockets, writeOp>>
  /\ UNCHANGED <<acceptorOpen, acceptOp, stopOp>>

\* Mutant of HandleWrite: the connection is stopped only when the write worked.
HandleWriteOkOnly(c) ==
  /\ writeOp[c] \in Completed \ {"part"}
  /\ writeOp' = [writeOp EXCEPT ![c] = "none"]
  /\ IF writeOp[c] = "ok"
       THEN ManagerStop(c) ELSE UNCHANGED <<connections_, fresh, openSockets>>
  /\ UNCHANGED <<acceptorOpen, acceptOp, stopOp, readOp>>

\* The handler of do_write.
HandleWrite(c) ==
  /\ writeOp[c] \in Completed \ {"part"}
  /\ writeOp' = [writeOp EXCEPT ![c] = "none"]
  /\ IF writeOp[c] # "aborted"
       THEN ManagerStop(c) ELSE UNCHANGED <<connections_, fresh, openSockets>>
  /\ UNCHANGED <<acceptorOpen, acceptOp, stopOp, readOp>>

\* async_write goes on with the rest of the reply.
ContinueWrite(c) ==
  /\ writeOp[c] = "part"
  /\ writeOp' = [writeOp EXCEPT ![c] = Started(c \in openSockets)]
  /\ UNCHANGED <<acceptorOpen, acceptOp, stopOp, connections_, fresh, openSockets, readOp>>

\* The handler of do_await_stop, stop_all included.
HandleStop ==
  /\ stopOp = "ok"
  /\ stopOp' = "none"
  /\ acceptorOpen' = FALSE
  /\ acceptOp' = Cancelled(acceptOp)
  /\ openSockets' = openSockets \ connections_
  /\ readOp' = [c \in Conns |-> IF c \in connections_ THEN Cancelled(readOp[c]) ELSE readOp[c]]
  /\ writeOp' = [c \in Conns |-> IF c \in connections_ THEN Cancelled(writeOp[c]) ELSE writeOp[c]]
  /\ connections_' = {}
  /\ UNCHANGED <<fresh>>

-----------------------------------------------------------------------------

\* A client connects, or accept fails.
CompleteAccept ==
  /\ acceptOp = "pending"
  /\ acceptOp' \in (IF fresh = {} THEN {"error"} ELSE {"ok", "error"})
  /\ UNCHANGED <<acceptorOpen, stopOp, connVars>>

\* Data of the client arrive, or the end of the connection.
CompleteRead(c) ==
  /\ readOp[c] = "pending"
  /\ \E r \in {"ok", "error"} : readOp' = [readOp EXCEPT ![c] = r]
  /\ UNCHANGED <<acceptorOpen, acceptOp, stopOp, connections_, fresh, openSockets, writeOp>>

CompleteWrite(c) ==
  /\ writeOp[c] = "pending"
  /\ \E r \in {"ok", "part", "error"} : writeOp' = [writeOp EXCEPT ![c] = r]
  /\ UNCHANGED <<acceptorOpen, acceptOp, stopOp, connections_, fresh, openSockets, readOp>>

Signal ==
  /\ stopOp = "pending"
  /\ stopOp' = "ok"
  /\ UNCHANGED <<acceptorOpen, acceptOp, connVars>>

\* io_context_.run(): the handlers of the operations that have completed.
run ==
  HandleAccept \/ HandleStop \/ \E c \in Conns : HandleRead(c) \/ HandleWrite(c) \/ ContinueWrite(c)

Network ==
  CompleteAccept \/ Signal \/ \E c \in Conns : CompleteRead(c) \/ CompleteWrite(c)

NoWork ==
  /\ acceptOp = "none" /\ stopOp = "none"
  /\ \A c \in Conns : readOp[c] = "none" /\ writeOp[c] = "none"

\* No operation is outstanding: run() has returned.
Returned == NoWork /\ UNCHANGED vars

Next == run \/ Network \/ Returned

Spec == Init /\ [][Next]_vars

-----------------------------------------------------------------------------

\* Every variable keeps its type.
TypeOK ==
  /\ acceptorOpen \in BOOLEAN
  /\ acceptOp \in OpStates /\ stopOp \in {"none", "pending", "ok"}
  /\ connections_ \subseteq Conns /\ fresh \subseteq Conns
  /\ openSockets \subseteq Conns
  /\ readOp \in [Conns -> OpStates] /\ writeOp \in [Conns -> OpStates]

\* The connection_manager knows exactly the connections whose socket is open,
\* and each of them has one operation under way that will end it: no
\* connection is forgotten with its socket open, and none is kept for ever.
\* Once the acceptor is closed there is none, until then there is always an
\* accept outstanding (server.cpp:52).
ConnectionsTracked ==
  /\ connections_ = openSockets
  /\ \A c \in connections_ : (readOp[c] = "none") # (writeOp[c] = "none")
  /\ \A c \in Conns : readOp[c] = "none" \/ writeOp[c] = "none"
  /\ IF acceptorOpen THEN acceptOp # "none" ELSE connections_ = {}

\* "Once all operations have finished the io_context::run() call will exit"
\* (server.cpp:86): after the signal no handler starts operations for ever.
StopEnds == stopOp = "ok" ~> NoWork

=============================================================================
