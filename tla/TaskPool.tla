------------------------------ MODULE TaskPool ------------------------------
(***************************************************************************)
(* What a thread pool of zl_threadpool/ promises its clients: a task is    *)
(* accepted once, while the pool is open; accepted tasks are started in    *)
(* the order of their acceptance, each at most once.  A closed pool takes  *)
(* no new task; it may still work off its queue, or drop it.               *)
(***************************************************************************)
EXTENDS Sequences, FiniteSets

CONSTANT Tasks

VARIABLES waiting,   \* accepted tasks nobody has started, oldest first
          running,   \* tasks a worker is executing
          finished,  \* tasks whose execution is over
          open       \* the pool accepts tasks

poolVars == <<waiting, running, finished, open>>

Known == {waiting[k] : k \in DOMAIN waiting} \cup running \cup finished

Init ==
  /\ waiting = <<>>
  /\ running = {}
  /\ finished = {}
  /\ open = TRUE

Accept(t) ==
  /\ open
  /\ t \notin Known
  /\ waiting' = Append(waiting, t)
  /\ UNCHANGED <<running, finished, open>>

Start ==
  /\ waiting # <<>>
  /\ running' = running \cup {Head(waiting)}
  /\ waiting' = Tail(waiting)
  /\ UNCHANGED <<finished, open>>

Finish(t) ==
  /\ t \in running
  /\ running' = running \ {t}
  /\ finished' = finished \cup {t}
  /\ UNCHANGED <<waiting, open>>

Close ==
  /\ open
  /\ open' = FALSE
  /\ UNCHANGED <<waiting, running, finished>>

\* A closed pool may drop what it has not started.
Discard ==
  /\ ~open
  /\ waiting' = <<>>
  /\ UNCHANGED <<running, finished, open>>

Next == Start \/ Close \/ Discard \/ \E t \in Tasks : Accept(t) \/ Finish(t)

Spec == Init /\ [][Next]_poolVars

=============================================================================
