----------------------------- MODULE TaskQueue -----------------------------
(***************************************************************************)
(* What src/util/thread_pool.hpp promises its callers (ThreadPool::Push,   *)
(* the futures it returns, ~ThreadPool): tasks start in the order in which *)
(* they were pushed, each of them runs exactly once, at most N of them at  *)
(* a time, and the pool is gone only when every pushed task has finished.  *)
(* CtplPool is the implementation of this promise.                         *)
(***************************************************************************)
EXTENDS Naturals, Sequences, FiniteSets

CONSTANTS Tasks,        \* the functions a program ever pushes
          N             \* the number of threads of the pool

VARIABLES pending,      \* tasks pushed and not started, in the order of the pushes
          running,      \* tasks started and not finished
          finished,     \* tasks whose future is ready
          alive         \* FALSE once the destructor has returned

tqvars == <<pending, running, finished, alive>>

Pushed == {pending[i] : i \in 1..Len(pending)} \cup running \cup finished

TQTypeOK ==
    /\ pending \in Seq(Tasks)
    /\ running \subseteq Tasks
    /\ finished \subseteq Tasks
    /\ alive \in BOOLEAN

TQInit ==
    /\ pending = <<>>
    /\ running = {}
    /\ finished = {}
    /\ alive = TRUE

Submit(t) ==
    /\ alive
    /\ t \notin Pushed
    /\ pending' = Append(pending, t)
    /\ UNCHANGED <<running, finished, alive>>

Start ==
    /\ pending # <<>>
    /\ Cardinality(running) < N
    /\ running' = running \cup {Head(pending)}
    /\ pending' = Tail(pending)
    /\ UNCHANGED <<finished, alive>>

Complete(t) ==
    /\ t \in running
    /\ running' = running \ {t}
    /\ finished' = finished \cup {t}
    /\ UNCHANGED <<pending, alive>>

Dispose ==
    /\ alive
    /\ Pushed = finished
    /\ alive' = FALSE
    /\ UNCHANGED <<pending, running, finished>>

TQNext ==
    \/ \E t \in Tasks : Submit(t) \/ Complete(t)
    \/ Start
    \/ Dispose

\* In order, once each, at most N at a time.
TQSafety == TQInit /\ [][TQNext]_tqvars

TQSpec ==
    /\ TQSafety
    /\ WF_tqvars(Start)
    /\ \A t \in Tasks : WF_tqvars(Complete(t))
=============================================================================
