------------------------------ MODULE ChatClient ------------------------------
(***************************************************************************)
(* boost/3.chat_client.cpp: the main thread reads lines and posts them to  *)
(* the io_context that a second thread runs; at the end of the input it    *)
(* posts the close and joins that thread.  A line is its number.           *)
(***************************************************************************)
EXTENDS Naturals, Sequences

CONSTANT MaxLines   \* bound: the lines that are typed

VARIABLES
  user,    \* main: where it stands and how many lines were typed
  posted,  \* what was posted and has not run: numbers of lines, 0 for the close
  io,      \* chat_client and the io_context: see Init
  sent     \* history: the lines the socket has taken

vars == <<user, posted, io, sent>>

Close == 0

\* op: the operation that reads; writing: how many async_write are outstanding;
\* completed: the operations, of "read" and "write", that succeeded before the socket
\* was closed and whose handler has not run.
Init ==
  /\ user = [at |-> "typing", line |-> 0]
  /\ posted = <<>> /\ sent = <<>>
  /\ io = [op |-> "connect", writing |-> 0, write_msgs_ |-> <<>>, socket |-> "connecting",
           completed |-> {}, returned |-> FALSE]

write ==
  /\ user.at = "typing" /\ user.line < MaxLines
  /\ user' = [user EXCEPT !.line = @ + 1]
  /\ posted' = Append(posted, user.line + 1)
  /\ UNCHANGED <<io, sent>>

close ==
  /\ user.at = "typing"
  /\ user' = [user EXCEPT !.at = "join"]
  /\ posted' = Append(posted, Close)
  /\ UNCHANGED <<io, sent>>

Join ==
  /\ user.at = "join" /\ io.returned
  /\ user' = [user EXCEPT !.at = "done"]
  /\ UNCHANGED <<posted, io, sent>>

-----------------------------------------------------------------------------

\* Mutant of Push: a write is begun for every line.
PushAlways(msg) == [io EXCEPT !.write_msgs_ = Append(@, msg), !.writing = @ + 1]

\* do_write only when no message was queued.
Push(msg) == [io EXCEPT !.write_msgs_ = Append(@, msg), !.writing = IF io.write_msgs_ = <<>> THEN @ + 1 ELSE @]

Outstanding == (IF io.op \in {"header", "body"} THEN {"read"} ELSE {}) \cup (IF io.writing > 0 THEN {"write"} ELSE {})

\* socket_.close() in the handler of which, with io otherwise as given: of the other
\* operations some have succeeded, and the rest is aborted.
Closing(next, which) ==
  \E done \in IF io.socket = "open" THEN SUBSET (Outstanding \ {which}) ELSE {io.completed \ {which}} :
    io' = [next EXCEPT !.socket = "closed", !.completed = done]

RunPosted ==
  /\ ~io.returned /\ posted # <<>>
  /\ posted' = Tail(posted)
  /\ IF Head(posted) = Close THEN Closing(io, "close") ELSE io' = Push(Head(posted))
  /\ UNCHANGED <<user, sent>>

\* The handler of do_connect: without a connection it does nothing, and the
\* socket stays as it is.
HandleConnect ==
  /\ io.op = "connect"
  /\ io' = IF io.socket = "closed" THEN [io EXCEPT !.op = "none"] ELSE [io EXCEPT !.op = "header", !.socket = "open"]
  /\ UNCHANGED <<user, posted, sent>>

ConnectFails ==
  /\ io.op = "connect" /\ io.socket = "connecting"
  /\ io' = [io EXCEPT !.op = "none", !.socket = "failed"]
  /\ UNCHANGED <<user, posted, sent>>

\* do_read_header and do_read_body: a header, a body, and again.
HandleRead ==
  /\ io.op \in {"header", "body"} /\ (io.socket = "open" \/ "read" \in io.completed)
  /\ io' = [io EXCEPT !.op = IF @ = "header" THEN "body" ELSE "header", !.completed = @ \ {"read"}]
  /\ UNCHANGED <<user, posted, sent>>

\* The read fails, the header is no number or too long, or the socket was closed.
ReadFails ==
  /\ io.op \in {"header", "body"}
  /\ Closing([io EXCEPT !.op = "none"], "read")
  /\ UNCHANGED <<user, posted, sent>>

\* do_write: the next message follows when this one is written.
HandleWrite ==
  /\ io.writing > 0 /\ (io.socket = "open" \/ "write" \in io.completed)
  /\ sent' = Append(sent, Head(io.write_msgs_))
  /\ io' = [io EXCEPT !.write_msgs_ = Tail(@), !.completed = @ \ {"write"},
                      !.writing = IF Len(io.write_msgs_) > 1 THEN @ ELSE @ - 1]
  /\ UNCHANGED <<user, posted>>

\* A write fails, also one that was begun before there was a connection: the
\* message stays in the queue, so that no later line is ever written.
WriteFails ==
  /\ io.writing > 0 /\ "write" \notin io.completed
  /\ Closing([io EXCEPT !.writing = @ - 1], "write")
  /\ UNCHANGED <<user, posted, sent>>

\* run returns when nothing is outstanding; what is posted later is not run.
RunReturns ==
  /\ ~io.returned /\ posted = <<>> /\ io.op = "none" /\ io.writing = 0
  /\ io' = [io EXCEPT !.returned = TRUE]
  /\ UNCHANGED <<user, posted, sent>>

\* Handlers that run whatever the other side does, and those that need it.
OwnStep ==
  \/ RunPosted \/ RunReturns
  \/ io.socket \in {"closed", "failed"} /\ (HandleConnect \/ HandleRead \/ ReadFails \/ HandleWrite \/ WriteFails)

Next ==
  \/ write \/ close \/ Join
  \/ OwnStep \/ HandleConnect \/ ConnectFails \/ HandleRead \/ ReadFails \/ HandleWrite \/ WriteFails

-----------------------------------------------------------------------------

\* The lines the server gets are the first that were typed, in their order and
\* each once, although they are posted by another thread, also before there is
\* a connection; one write at a time, of a message that is queued.
LinesInOrder ==
  /\ sent = [i \in 1 .. Len(sent) |-> i]
  /\ LET queued == io.write_msgs_
     IN  queued = [i \in 1 .. Len(queued) |-> Len(sent) + i]
  /\ io.writing <= IF io.write_msgs_ = <<>> THEN 0 ELSE 1
  /\ io.socket = "open" /\ io.write_msgs_ # <<>> => io.writing = 1

\* main waits for the other thread.
Joining == user.at = "join"

=============================================================================
