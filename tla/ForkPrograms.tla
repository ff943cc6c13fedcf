---------------------------- MODULE ForkPrograms -----------------------------
(***************************************************************************)
(* A process for each connection: boost/process_per_connection.cpp and     *)
(* Linux_Net/concurrent/mult_process_concurrent/server.c.  Children that   *)
(* end at the same time leave one SIGCHLD.  And main of                    *)
(* boost/5.守护进程fork_daemon.cpp (names with Daemon): two forks, a session*)
(* of its own and new standard streams; each step may fail.                *)
(***************************************************************************)
EXTENDS Naturals, FiniteSets

CONSTANT Clients   \* bound: each connects once

VARIABLES
  parent,   \* where it stands, the connection in hand, the sockets it has open, SIGCHLD pending, reaping
  child,    \* the state of the child of each client, and the sockets it has open
  pc,       \* of the daemon: the step the process that goes on is at
  streams,  \* what its descriptors 0, 1 and 2 are
  process   \* its generation, whether it leads a session of its own or is in one, and who has exited

vars == <<parent, child>>

None == "none"

Init ==
  /\ \E program \in {"process_per_connection", "mult_process_concurrent"} :
       parent = [program |-> program, at |-> "accept", conn |-> None, open |-> {}, pending |-> FALSE, reaping |-> FALSE]
  /\ child = [k \in Clients |-> [at |-> None, open |-> {}]]

\* A signal interrupts mult_process_concurrent anywhere; asio runs its handler
\* between others.  Accept goes on after the interruption.
Loop == ~parent.reaping

Accept(k) ==
  /\ Loop /\ parent.at = "accept" /\ child[k].at = None
  /\ parent' = [parent EXCEPT !.at = "fork", !.conn = k, !.open = @ \cup {k}]
  /\ UNCHANGED child

\* The child has every socket its parent had open.
Fork ==
  /\ Loop /\ parent.at = "fork"
  /\ parent' = [parent EXCEPT !.at = "close"]
  /\ child' = [child EXCEPT ![parent.conn] = [at |-> "running", open |-> parent.open]]

\* mult_process_concurrent ends, process_per_connection gives the client up.
ForkFails ==
  /\ Loop /\ parent.at = "fork"
  /\ parent' = [parent EXCEPT !.at = IF parent.program = "mult_process_concurrent" THEN "exited" ELSE "close"]
  /\ child' = [child EXCEPT ![parent.conn].at = "refused"]

\* Mutant of ParentCloses: the parent keeps the socket.
ParentKeeps ==
  /\ Loop /\ parent.at = "close"
  /\ parent' = [parent EXCEPT !.at = "accept", !.conn = None]
  /\ UNCHANGED child

ParentCloses ==
  /\ Loop /\ parent.at = "close"
  /\ parent' = [parent EXCEPT !.at = "accept", !.conn = None, !.open = @ \ {parent.conn}]
  /\ UNCHANGED child

\* The client has closed or an operation failed: after its echoes the child ends.
ChildEnds(k) ==
  /\ child[k].at = "running"
  /\ child' = [child EXCEPT ![k] = [at |-> "zombie", open |-> {}]]
  /\ parent' = [parent EXCEPT !.pending = TRUE]

\* The handler of SIGCHLD begins; while it runs another one stays pending.
HandlerBegins ==
  /\ parent.at # "exited" /\ parent.pending /\ ~parent.reaping
  /\ parent.program = "process_per_connection" => parent.at = "accept"
  /\ parent' = [parent EXCEPT !.pending = FALSE, !.reaping = TRUE]
  /\ UNCHANGED child

Zombies == {k \in Clients : child[k].at = "zombie"}

\* Mutant of Waitpid: one child for each signal.
WaitpidOnce ==
  /\ parent.reaping
  /\ parent' = [parent EXCEPT !.reaping = FALSE]
  /\ IF Zombies = {} THEN UNCHANGED child ELSE \E k \in Zombies : child' = [child EXCEPT ![k].at = "reaped"]

\* One turn of the loop around waitpid.
Waitpid ==
  /\ parent.reaping
  /\ IF Zombies = {}
     THEN parent' = [parent EXCEPT !.reaping = FALSE] /\ UNCHANGED child
     ELSE (\E k \in Zombies : child' = [child EXCEPT ![k].at = "reaped"]) /\ UNCHANGED parent

ParentStep == Fork \/ ParentCloses \/ HandlerBegins \/ Waitpid

Next == ParentStep \/ ForkFails \/ \E k \in Clients : Accept(k) \/ ChildEnds(k)

-----------------------------------------------------------------------------

\* A child that has ended is about to be reaped, although signals are lost, and
\* nobody has a connection open but the child that serves it and, for a moment,
\* the parent: the client sees its end as soon as the child ends.
NoZombieForgotten ==
  /\ Zombies # {} => parent.pending \/ parent.reaping \/ parent.at = "exited"
  /\ \A k \in Clients : child[k].open \subseteq {k}
  /\ parent.at = "accept" => parent.open = {}

\* A child has ended and its parent, which is alive, has not asked for it.
Unreaped == Zombies # {} /\ parent.at # "exited"

-----------------------------------------------------------------------------
\* 5.守护进程fork_daemon.cpp

varsDaemon == <<pc, streams, process>>

Streams == 0 .. 2

InitDaemon ==
  /\ pc = "fork1"
  /\ streams = [f \in Streams |-> "terminal"]
  /\ process = [generation |-> 0, session |-> "shell", exited |-> {}]

Step(from, to) == pc = from /\ pc' = to

\* The parent exits, the child goes on; a failure ends the program.
ForkDaemon(from, to) ==
  /\ Step(from, to)
  /\ process' = [process EXCEPT !.generation = @ + 1, !.exited = @ \cup {process.generation},
                                !.session = IF @ = "leader" THEN "member" ELSE @]
  /\ UNCHANGED streams

FirstFork == ForkDaemon("fork1", "setsid")

\* A process that does not lead its session cannot acquire a terminal.
SecondFork == ForkDaemon("fork2", "close")

\* setsid, chdir and umask.
SetSid ==
  /\ Step("setsid", "fork2")
  /\ process' = [process EXCEPT !.session = "leader"]
  /\ UNCHANGED streams

\* close(0), close(1), close(2)
CloseStreams ==
  /\ Step("close", "open_null")
  /\ streams' = [f \in Streams |-> "closed"]
  /\ UNCHANGED process

\* open and dup return the least descriptor that is free.
Opened(what) ==
  LET f == CHOOSE f \in Streams : streams[f] = "closed" /\ \A g \in 0 .. f - 1 : streams[g] # "closed"
  IN  streams' = [streams EXCEPT ![f] = what]

\* Mutant of OpenNull: the log file is opened first.
OpenNullLast == Step("open_null", "open_log") /\ Opened("log") /\ UNCHANGED process

OpenNull == Step("open_null", "open_log") /\ Opened("null") /\ UNCHANGED process

OpenLog == Step("open_log", "dup") /\ Opened("log") /\ UNCHANGED process

Dup == Step("dup", "run") /\ Opened(streams[1]) /\ UNCHANGED process

\* A signal was handled: io_context.stop.
Stop == Step("run", "stopped") /\ UNCHANGED <<streams, process>>

FailsDaemon ==
  /\ pc \in {"fork1", "fork2", "open_null", "open_log", "dup"}
  /\ pc' = "failed" /\ process' = [process EXCEPT !.exited = @ \cup {process.generation}]
  /\ UNCHANGED streams

NextDaemon ==
  \/ FirstFork \/ SetSid \/ SecondFork
  \/ CloseStreams \/ OpenNull \/ OpenLog \/ Dup \/ Stop \/ FailsDaemon

-----------------------------------------------------------------------------

\* The daemon that runs is the grandchild, in a session it does not lead, so
\* that no terminal can become its own; it reads from nowhere and writes both
\* streams to the log; nobody else of it is alive, and nobody at all when a step
\* failed.
DaemonDetached ==
  /\ pc = "run" =>
       /\ streams = [f \in Streams |-> IF f = 0 THEN "null" ELSE "log"]
       /\ process = [generation |-> 2, session |-> "member", exited |-> 0 .. 1]
  /\ pc = "failed" => process.exited = 0 .. process.generation

==============================================================================
