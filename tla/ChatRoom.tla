------------------------------ MODULE ChatRoom ------------------------------
(***************************************************************************)
(* boost/3.chat_server.cpp: chat_server, chat_room and chat_session on an  *)
(* io_context that one thread runs.  A message is its number in the order  *)
(* in which the room delivers them.  No session closes its socket, so an   *)
(* operation may as well complete when its handler runs.                   *)
(***************************************************************************)
EXTENDS Naturals, SequencesExt

CONSTANTS
  Sessions,         \* bound: the clients that connect
  max_recent_msgs,  \* 100 in the code
  MaxMessages       \* bound: the messages the room delivers

VARIABLES
  participants_, recent_msgs_,  \* of the chat_room
  write_msgs_,                  \* of each chat_session
  reading,                      \* what each session reads: "no", "header" or "body"
  writing,                      \* the sessions with an async_write in progress
  fresh,                        \* the clients that have not connected yet
  log,                          \* history: the messages the room has delivered
  from,                         \* history: the first message each session was given
  written                       \* history: the messages written to each client

vars == <<participants_, recent_msgs_, write_msgs_, reading, writing, fresh, log, from, written>>

Init ==
  /\ participants_ = {} /\ recent_msgs_ = <<>>
  /\ write_msgs_ = [p \in Sessions |-> <<>>]
  /\ reading = [p \in Sessions |-> "no"]
  /\ writing = {}
  /\ fresh = Sessions
  /\ log = <<>>
  /\ from = [p \in Sessions |-> 0]
  /\ written = [p \in Sessions |-> <<>>]

-----------------------------------------------------------------------------

\* Mutant of Recent: the oldest is dropped one message too late.
RecentLate(msgs) ==
  SubSeq(msgs, 1 + (IF Len(msgs) > max_recent_msgs + 1 THEN 1 ELSE 0), Len(msgs))

\* The last max_recent_msgs messages: push_back, then pop_front while there are
\* too many.
Recent(msgs) ==
  SubSeq(msgs, 1 + (IF Len(msgs) > max_recent_msgs THEN Len(msgs) - max_recent_msgs ELSE 0), Len(msgs))

\* Mutant of DeliverTo: a session that is writing is not given the message.
DeliverToIdle(ps, msgs) ==
  /\ write_msgs_' = [p \in Sessions |->
       IF p \in ps /\ write_msgs_[p] = <<>> THEN write_msgs_[p] \o msgs ELSE write_msgs_[p]]
  /\ writing' = writing \cup {p \in ps : msgs # <<>> /\ write_msgs_[p] = <<>>}

\* chat_session::deliver of the messages msgs to each session of ps: a write is
\* started if the queue was empty.
DeliverTo(ps, msgs) ==
  /\ write_msgs_' = [p \in Sessions |-> IF p \in ps THEN write_msgs_[p] \o msgs ELSE write_msgs_[p]]
  /\ writing' = writing \cup {p \in ps : msgs # <<>> /\ write_msgs_[p] = <<>>}

leave(p) == participants_' = participants_ \ {p}

\* do_accept and chat_session::start: join, then do_read_header.
Accept(p) ==
  /\ p \in fresh
  /\ fresh' = fresh \ {p}
  /\ participants_' = participants_ \cup {p}
  /\ DeliverTo({p}, recent_msgs_)
  /\ reading' = [reading EXCEPT ![p] = "header"]
  /\ from' = [from EXCEPT ![p] = Len(log) - Len(recent_msgs_) + 1]
  /\ UNCHANGED <<recent_msgs_, log, written>>

\* The handler of do_read_header: the header is read and says a length, or not.
HandleHeader(p) ==
  /\ reading[p] = "header"
  /\ \/ reading' = [reading EXCEPT ![p] = "body"] /\ UNCHANGED participants_
     \/ reading' = [reading EXCEPT ![p] = "no"] /\ leave(p)
  /\ UNCHANGED <<recent_msgs_, write_msgs_, writing, fresh, log, from, written>>

\* The handler of do_read_body when the body is read: chat_room::deliver.
HandleBody(p) ==
  /\ reading[p] = "body" /\ Len(log) < MaxMessages
  /\ LET msg == Len(log) + 1
     IN  /\ recent_msgs_' = Recent(Append(recent_msgs_, msg))
         /\ DeliverTo(participants_, <<msg>>)
         /\ log' = Append(log, msg)
  /\ reading' = [reading EXCEPT ![p] = "header"]
  /\ UNCHANGED <<participants_, fresh, from, written>>

BodyFails(p) ==
  /\ reading[p] = "body"
  /\ reading' = [reading EXCEPT ![p] = "no"]
  /\ leave(p)
  /\ UNCHANGED <<recent_msgs_, write_msgs_, writing, fresh, log, from, written>>

\* Mutant of HandleWrite: the next write is left to the next deliver.
HandleWriteOnce(p) ==
  /\ p \in writing
  /\ written' = [written EXCEPT ![p] = Append(@, Head(write_msgs_[p]))]
  /\ write_msgs_' = [write_msgs_ EXCEPT ![p] = Tail(@)]
  /\ writing' = writing \ {p}
  /\ UNCHANGED <<participants_, recent_msgs_, reading, fresh, log, from>>

\* The handler of do_write when the message is written.
HandleWrite(p) ==
  /\ p \in writing
  /\ written' = [written EXCEPT ![p] = Append(@, Head(write_msgs_[p]))]
  /\ write_msgs_' = [write_msgs_ EXCEPT ![p] = Tail(@)]
  /\ writing' = IF Len(write_msgs_[p]) > 1 THEN writing ELSE writing \ {p}
  /\ UNCHANGED <<participants_, recent_msgs_, reading, fresh, log, from>>

\* The write failed: the session leaves the room with its queue as it is, and
\* goes on reading.
WriteFails(p) ==
  /\ p \in writing
  /\ writing' = writing \ {p}
  /\ leave(p)
  /\ UNCHANGED <<recent_msgs_, write_msgs_, reading, fresh, log, from, written>>

\* Nobody is connected any more.
Deserted ==
  /\ fresh = {} /\ writing = {} /\ \A p \in Sessions : reading[p] = "no"
  /\ UNCHANGED vars

Session(p) ==
  Accept(p) \/ HandleHeader(p) \/ HandleBody(p) \/ BodyFails(p) \/ HandleWrite(p) \/ WriteFails(p)

Next == (\E p \in Sessions : Session(p)) \/ Deserted

Spec == Init /\ [][Next]_vars

-----------------------------------------------------------------------------

\* Every variable keeps its type; a write in progress has a message to write.
TypeOK ==
  /\ participants_ \subseteq Sessions /\ fresh \subseteq Sessions
  /\ Len(recent_msgs_) <= max_recent_msgs
  /\ reading \in [Sessions -> {"no", "header", "body"}]
  /\ writing \subseteq {p \in Sessions : write_msgs_[p] # <<>>}
  /\ write_msgs_ \in [Sessions -> Seq(1 .. MaxMessages)]

\* What a session has written and what it has queued is the log of the room,
\* from the recent messages it was given when it joined: to the end while it is
\* in the room, up to some message once it has left.  No message is missing,
\* doubled or out of order, however joins, writes and messages interleave.
EveryoneGetsTheLog ==
  \A p \in Sessions \ fresh :
    LET given == written[p] \o write_msgs_[p]
        since == SubSeq(log, from[p], Len(log))
    IN  IF p \in participants_ THEN given = since ELSE IsPrefix(given, since)

\* A message for somebody in the room is under way: the queue of a participant
\* is empty or the write of its first message is in progress.  A newcomer gets
\* the last max_recent_msgs messages.
QueuesMove ==
  /\ \A p \in participants_ : p \in writing <=> write_msgs_[p] # <<>>
  /\ recent_msgs_ = Recent(log)

=============================================================================
