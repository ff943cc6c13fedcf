------------------------------- MODULE CondVar -------------------------------
(***************************************************************************)
(* What the thread pools use of std::condition_variable and                *)
(* pthread_cond_t.  A condition variable is the set of threads inside its  *)
(* wait.  A thread that was notified is no longer in the set; it competes  *)
(* for the mutex again before its wait returns.                            *)
(***************************************************************************)

\* What notify_one (pthread_cond_signal) can make of the set: any one of the
\* waiting threads is released, none if nobody waits.
AfterNotifyOne(waiting) ==
  IF waiting = {} THEN {{}} ELSE {waiting \ {w} : w \in waiting}

\* notify_all (pthread_cond_broadcast) releases every waiting thread.
AfterNotifyAll(waiting) == {}

=============================================================================
