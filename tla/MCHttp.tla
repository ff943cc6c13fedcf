------------------------------- MODULE MCHttp -------------------------------
(***************************************************************************)
(* The parts of the HTTP servers, one at a time: the parser and the        *)
(* request handler both servers have, boost/http_server and                *)
(* ad_system/server3.  The part is chosen at the start; the variables of   *)
(* the other parts stay at Unused.                                         *)
(***************************************************************************)
EXTENDS Integers

CONSTANTS Chars, MaxStored, MaxBlanks,  \* of RequestParser
          UriChars, MaxUri,             \* of RequestHandler
          Conns, Threads                \* of HttpServer and Server3

\* Where Server3 says that there is no connection it names none.
ASSUME ConnsAssumption == "none" \notin Conns

VARIABLES
  part,
  state_, req, result, fed, extra,
  uri, reply,
  acceptOp, stopOp, readOp, writeOp,
  acceptorOpen, connections_, fresh, openSockets,
  job, new_connection_, ioStopped, service

parserVars == <<state_, req, result, fed, extra>>
handlerVars == <<uri, reply>>
opVars == <<acceptOp, stopOp, readOp, writeOp>>
managerVars == <<acceptorOpen, connections_, fresh, openSockets>>
threadVars == <<job, new_connection_, ioStopped, service>>

vars == <<part, parserVars, handlerVars, opVars, managerVars, threadVars>>

Parser == INSTANCE RequestParser

Handler == INSTANCE RequestHandler

Single == INSTANCE HttpServer

Pooled == INSTANCE Server3

NoParser ==
  state_ = "unused" /\ req = "unused" /\ result = "unused" /\ fed = "unused" /\ extra = "unused"

NoHandler == uri = "unused" /\ reply = "unused"

NoOps == acceptOp = "unused" /\ stopOp = "unused" /\ readOp = "unused" /\ writeOp = "unused"

NoManager ==
  acceptorOpen = "unused" /\ connections_ = "unused" /\ fresh = "unused" /\ openSockets = "unused"

NoThreads ==
  job = "unused" /\ new_connection_ = "unused" /\ ioStopped = "unused" /\ service = "unused"

Init ==
  \/ part = "parser" /\ Parser!Init /\ NoHandler /\ NoOps /\ NoManager /\ NoThreads
  \/ part = "handler" /\ NoParser /\ Handler!Init /\ NoOps /\ NoManager /\ NoThreads
  \/ part = "http_server" /\ NoParser /\ NoHandler /\ Single!Init /\ NoThreads
  \/ part = "server3" /\ NoParser /\ NoHandler /\ NoManager /\ Pooled!Init

RunParser(action) ==
  part = "parser" /\ action /\ UNCHANGED <<part, handlerVars, opVars, managerVars, threadVars>>

RunHandler(action) ==
  part = "handler" /\ action /\ UNCHANGED <<part, parserVars, opVars, managerVars, threadVars>>

RunSingle(action) ==
  part = "http_server" /\ action /\ UNCHANGED <<part, parserVars, handlerVars, threadVars>>

RunPooled(action) ==
  part = "server3" /\ action /\ UNCHANGED <<part, parserVars, handlerVars, managerVars>>

Next ==
  RunParser(Parser!Next) \/ RunHandler(Handler!Next) \/ RunSingle(Single!Next) \/ RunPooled(Pooled!Next)

\* The queue of an io_context is first in, first out and every handler returns:
\* the handler of a completed operation runs.  Of the network nothing is
\* assumed.  In server3 the threads may be busy with other handlers again and
\* again before one of them takes that of the signal.
Spec ==
  /\ Init /\ [][Next]_vars
  /\ WF_vars(RunSingle(Single!HandleAccept)) /\ WF_vars(RunSingle(Single!HandleStop))
  /\ \A c \in Conns :
       WF_vars(RunSingle(Single!HandleRead(c) \/ Single!HandleWrite(c) \/ Single!ContinueWrite(c)))
  /\ \A t \in Threads :
       WF_vars(RunPooled(Pooled!Handler(t))) /\ WF_vars(RunPooled(Pooled!RunReturns(t)))
  /\ SF_vars(RunPooled(\E t \in Threads : Pooled!TakeStop(t)))
  /\ WF_vars(RunPooled(Pooled!StartService))

-----------------------------------------------------------------------------

\* Every variable keeps its type.
TypeOK ==
  /\ part = "parser" => Parser!TypeOK
  /\ part = "handler" => Handler!TypeOK
  /\ part = "http_server" => Single!TypeOK
  /\ part = "server3" => Pooled!TypeOK

\* request_parser says good for the requests of the grammar and for nothing
\* else, bad as soon as no request can begin like this, and asks for more
\* otherwise, in whatever pieces the characters come.
ParserDecidesGrammar == part = "parser" => Parser!ParserDecidesGrammar

\* The request the handler gets, written out again, is what was sent, but for
\* line ends and blanks of continuation lines and zeros in front of the numbers
\* of the version.
RequestIsTheInput == part = "parser" => Parser!RequestIsTheInput

\* url_decode undoes the encoding of any path, and handle_request opens nothing
\* outside of doc_root.
PathsAsSentBelowDocRoot == part = "handler" => Handler!PathsAsSentBelowDocRoot

\* Every connection that is open is known and has one operation that will end
\* it, none is served by two threads, and while a server runs it accepts.
ConnectionsTracked ==
  /\ part = "http_server" => Single!ConnectionsTracked
  /\ part = "server3" => Pooled!ConnectionsTracked

\* After the signal run() of either server returns.
StopEnds ==
  part \in {"http_server", "server3"} /\ stopOp = "ok"
    ~> IF part = "http_server" THEN Single!NoWork ELSE service = "done"

=============================================================================
