------------------------------- MODULE Sockets -------------------------------
(***************************************************************************)
(* What the servers of Linux_Net see of the kernel: a descriptor table,    *)
(* clients that connect once, send, and go away with or without a reset.   *)
(***************************************************************************)
EXTENDS Integers, FiniteSetsExt

CONSTANTS
  Clients,  \* bound: each connects once
  MaxFd     \* bound: the descriptors are 0 .. MaxFd

VARIABLES
  srv,      \* the state of the server, a record each server defines
  net       \* the kernel: see InitNet

vars == <<srv, net>>

None == "none"
Fds == 0 .. MaxFd
Listener == 1

InitNet ==
  net = [peer    |-> [f \in Fds |-> CASE f = 0 -> "stdin" [] f = Listener -> "listener" [] OTHER -> None],
         fresh   |-> Clients,  \* have not connected
         backlog |-> {},       \* wait to be accepted
         sent    |-> {},       \* have sent data that were not read
         left    |-> {},       \* have closed their side
         reset   |-> {},       \* and the server has not been told of the reset
         misled  |-> {}]       \* history: were sent what they had not sent

Closed(f) == net.peer[f] = None

Open == {f \in Fds : net.peer[f] \in Clients}

\* accept returns the least free descriptor.
NewFd == Min({f \in Fds : Closed(f)})

Accepted(k) == [net EXCEPT !.backlog = @ \ {k}, !.peer[NewFd] = k]

\* A client waits in the backlog while every descriptor is in use.
Accepting(k) == (\E f \in Fds : Closed(f)) /\ net' = Accepted(k)

Close(f) == [net EXCEPT !.peer[f] = None]

Readable(f) ==
  IF f = Listener THEN net.backlog # {} ELSE net.peer[f] \in net.sent \cup net.left

\* What read returns: data first, then the error once, then the end; it blocks
\* while there is nothing.
ReadResult(f) ==
  LET k == net.peer[f]
  IN  CASE Closed(f)       -> "bad"
        [] k \in net.sent  -> "data"
        [] k \in net.reset -> "error"
        [] k \in net.left  -> "end"
        [] OTHER           -> "blocks"

ReadFrom(f) ==
  LET k == net.peer[f]
  IN  IF k \in net.sent THEN [net EXCEPT !.sent = @ \ {k}] ELSE [net EXCEPT !.reset = @ \ {k}]

\* The client behind f is sent the data of client k.
WriteTo(f, k) ==
  IF k = net.peer[f] THEN net ELSE [net EXCEPT !.misled = @ \cup {net.peer[f]}]

\* Where the server goes on after a write to f: to at, or nowhere, since SIGPIPE
\* ends a process that writes to a connection the client has given up.
AfterWrite(f, at) == {at} \cup (IF net.peer[f] \in net.left THEN {"exited"} ELSE {})

-----------------------------------------------------------------------------

ClientConnects(k) ==
  /\ k \in net.fresh
  /\ net' = [net EXCEPT !.fresh = @ \ {k}, !.backlog = @ \cup {k}]

ClientSends(k) ==
  /\ k \notin net.fresh \cup net.left \cup net.sent
  /\ net' = [net EXCEPT !.sent = @ \cup {k}]

ClientLeaves(k) ==
  /\ k \notin net.fresh \cup net.left
  /\ \E r \in SUBSET {k} : net' = [net EXCEPT !.left = @ \cup {k}, !.reset = @ \cup r]

Network ==
  /\ \E k \in Clients : ClientConnects(k) \/ ClientSends(k) \/ ClientLeaves(k)
  /\ UNCHANGED srv

=============================================================================
