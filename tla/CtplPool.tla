------------------------------ MODULE CtplPool ------------------------------
(***************************************************************************)
(* The thread pool every parallel phase of the engine runs on: ThreadPool  *)
(* (src/util/thread_pool.cpp) over ctpl::thread_pool                       *)
(* (dependencies/ctpl/ctpl_stl.h).                                         *)
(*                                                                         *)
(* The task queue has a mutex of its own, so each push and each pop of it  *)
(* is one atomic step. The pool's mutex protects nothing but the condition *)
(* variable: it is what keeps a worker from missing a notification between *)
(* the evaluation of its wait predicate and its going to sleep. isDone is  *)
(* an atomic read and written without the mutex.                           *)
(*                                                                         *)
(* One thread, Main, uses the pool, as in the program: WriteBatch and      *)
(* CsvReader::Next push from the thread that runs the stream, and the      *)
(* global pool is destroyed by it at exit. Neither resize() to a smaller   *)
(* pool nor stop(false) is reachable through ThreadPool: the per-thread    *)
(* stop flags stay FALSE and are left out.                                 *)
(***************************************************************************)
EXTENDS Naturals, Sequences, FiniteSets

CONSTANTS Workers,      \* the threads of the pool
          Tasks,        \* the functions that are ever pushed
          Main,         \* the thread that pushes, waits and destroys
          NoTask,       \* a worker's _f when its last pop found the queue empty
          Free,         \* the pool's mutex when nobody holds it
          MaxSpurious   \* BOUND: spurious wakeups of the condition variable

ASSUME WorkersAssumption == IsFiniteSet(Workers) /\ Workers # {} /\ Main \notin Workers
ASSUME NoTaskAssumption  == NoTask \notin Tasks
ASSUME FreeAssumption    == Free \notin Workers \cup {Main}
ASSUME SpuriousAssumption == MaxSpurious \in Nat

VARIABLES
    q,          \* the queue of functions
    mutex,      \* owner of the pool's mutex, or Free
    isDone,     \* stop(true) has been called
    wpc,        \* where each worker is in the loop of set_thread()
    job,        \* the function each worker popped (_f, with isPop)
    mpc,        \* where Main is
    pushed,     \* tasks handed to push()
    ready,      \* tasks whose future is ready: they returned or threw
    spurious    \* spurious wakeups so far

vars == <<q, mutex, isDone, wpc, job, mpc, pushed, ready, spurious>>

WorkerPc == {"unborn", "pop", "run", "lock", "pred", "decide", "leave",
             "waiting", "woken", "exited"}
MainPc   == {"ctor", "user", "notify", "waitall", "stopping", "join", "destroyed"}

Elems(s) == {s[i] : i \in 1..Len(s)}

\* The critical sections: who may hold the pool's mutex across a step.
Holding == {"pred", "decide", "leave"}

TypeOK ==
    /\ q \in Seq(Tasks)
    /\ mutex \in Workers \cup {Free}
    /\ isDone \in BOOLEAN
    /\ wpc \in [Workers -> WorkerPc]
    /\ job \in [Workers -> Tasks \cup {NoTask}]
    /\ mpc \in MainPc
    /\ pushed \subseteq Tasks
    /\ ready \subseteq Tasks
    /\ spurious \in 0..MaxSpurious

Init ==
    /\ q = <<>>
    /\ mutex = Free
    /\ isDone = FALSE
    /\ wpc = [w \in Workers |-> "unborn"]
    /\ job = [w \in Workers |-> NoTask]
    /\ mpc = "ctor"
    /\ pushed = {}
    /\ ready = {}
    /\ spurious = 0

-----------------------------------------------------------------------------
(* Workers: the body of the lambda of set_thread().                        *)

Goto(w, pc) == wpc' = [wpc EXCEPT ![w] = pc]

\* Defects of Queue::pop: the element stays in the queue; the newest is taken.
PopInto_Peek(w, found, empty) ==
    /\ UNCHANGED q
    /\ job' = [job EXCEPT ![w] = IF q = <<>> THEN NoTask ELSE Head(q)]
    /\ Goto(w, IF q = <<>> THEN empty ELSE found)

PopInto_Newest(w, found, empty) ==
    /\ job' = [job EXCEPT ![w] = IF q = <<>> THEN NoTask ELSE q[Len(q)]]
    /\ q' = SubSeq(q, 1, Len(q) - 1)
    /\ Goto(w, IF q = <<>> THEN empty ELSE found)

\* Queue::pop through worker w: `found` is where a function takes it, `empty`
\* where an empty queue does.
PopInto(w, found, empty) ==
    IF q = <<>>
    THEN /\ job' = [job EXCEPT ![w] = NoTask]
         /\ Goto(w, empty)
         /\ UNCHANGED q
    ELSE /\ job' = [job EXCEPT ![w] = Head(q)]
         /\ q' = Tail(q)
         /\ Goto(w, found)

\* Defect: a thread that sees isDone leaves before it looks at the queue.
Pop_DoneFirst(w) ==
    /\ wpc[w] = "pop"
    /\ IF isDone THEN Goto(w, "exited") /\ UNCHANGED <<q, job>> ELSE PopInto(w, "run", "lock")
    /\ UNCHANGED <<mutex, isDone, mpc, pushed, ready, spurious>>

\* The first pop of a new thread and the pop after each function.
Pop(w) ==
    /\ wpc[w] = "pop"
    /\ PopInto(w, "run", "lock")
    /\ UNCHANGED <<mutex, isDone, mpc, pushed, ready, spurious>>

\* (*_f)(i): the packaged_task runs and makes the future ready, whether the
\* function returned or threw: an exception never reaches the worker.
Run(w) ==
    /\ wpc[w] = "run"
    /\ ready' = ready \cup {job[w]}
    /\ Goto(w, "pop")
    /\ UNCHANGED <<q, mutex, isDone, job, mpc, pushed, spurious>>

\* Defect: wait() without a predicate: the queue is not looked at again.
Lock_NoRecheck(w) ==
    /\ wpc[w] = "lock"
    /\ mutex = Free
    /\ Goto(w, IF isDone THEN "exited" ELSE "waiting")
    /\ UNCHANGED <<q, mutex, isDone, job, mpc, pushed, ready, spurious>>

\* unique_lock before cv.wait, which evaluates its predicate at once.
Lock(w) ==
    /\ wpc[w] = "lock"
    /\ mutex = Free
    /\ mutex' = w
    /\ Goto(w, "pred")
    /\ UNCHANGED <<q, isDone, job, mpc, pushed, ready, spurious>>

\* First half of the predicate: isPop = q.pop(_f).
PredPop(w) ==
    /\ wpc[w] = "pred"
    /\ PopInto(w, "leave", "decide")
    /\ UNCHANGED <<mutex, isDone, mpc, pushed, ready, spurious>>

\* Second half, with isPop false: isDone ends the thread, otherwise wait()
\* releases the mutex and blocks in one step.
Decide(w) ==
    /\ wpc[w] = "decide"
    /\ mutex' = Free
    /\ Goto(w, IF isDone THEN "exited" ELSE "waiting")
    /\ UNCHANGED <<q, isDone, job, mpc, pushed, ready, spurious>>

\* The predicate held through isPop: the lock goes out of scope and the
\* function is run by the inner loop.
Leave(w) ==
    /\ wpc[w] = "leave"
    /\ mutex' = Free
    /\ Goto(w, "run")
    /\ UNCHANGED <<q, isDone, job, mpc, pushed, ready, spurious>>

\* A notified thread reacquires the mutex and evaluates the predicate again.
Reacquire(w) ==
    /\ wpc[w] = "woken"
    /\ mutex = Free
    /\ mutex' = w
    /\ Goto(w, "pred")
    /\ UNCHANGED <<q, isDone, job, mpc, pushed, ready, spurious>>

\* A condition variable may wake a waiting thread without a notification.
SpuriousWake(w) ==
    /\ wpc[w] = "waiting"
    /\ spurious < MaxSpurious
    /\ spurious' = spurious + 1
    /\ Goto(w, "woken")
    /\ UNCHANGED <<q, mutex, isDone, job, mpc, pushed, ready>>

WorkerStep(w) ==
    Pop(w) \/ Run(w) \/ Lock(w) \/ PredPop(w) \/ Decide(w) \/ Leave(w) \/ Reacquire(w)

-----------------------------------------------------------------------------
(* Main: constructor, Push, future.wait, destructor.                       *)

\* resize() in the constructor: set_thread() once per thread. The threads
\* already created run meanwhile.
Spawn(w) ==
    /\ mpc = "ctor"
    /\ wpc[w] = "unborn"
    /\ Goto(w, "pop")
    /\ mpc' = IF \A v \in Workers \ {w} : wpc[v] # "unborn" THEN "user" ELSE "ctor"
    /\ UNCHANGED <<q, mutex, isDone, job, pushed, ready, spurious>>

\* push(), first half: q.push under the queue's own mutex.
Push(t) ==
    /\ mpc = "user"
    /\ t \notin pushed
    /\ q' = Append(q, t)
    /\ pushed' = pushed \cup {t}
    /\ mpc' = "notify"
    /\ UNCHANGED <<mutex, isDone, wpc, job, ready, spurious>>

\* push(), second half: lock the pool's mutex, notify_one, unlock.
Notify ==
    /\ mpc = "notify"
    /\ mutex = Free
    /\ mpc' = "user"
    /\ LET sleeping == {w \in Workers : wpc[w] = "waiting"}
       IN  IF sleeping = {} THEN UNCHANGED wpc ELSE \E w \in sleeping : Goto(w, "woken")
    /\ UNCHANGED <<q, mutex, isDone, job, pushed, ready, spurious>>

\* futures[i].wait() over what has been pushed, as WriteBatch and flush_rows do.
BeginWait ==
    /\ mpc = "user"
    /\ mpc' = "waitall"
    /\ UNCHANGED <<q, mutex, isDone, wpc, job, pushed, ready, spurious>>

EndWait ==
    /\ mpc = "waitall"
    /\ pushed \subseteq ready
    /\ mpc' = "user"
    /\ UNCHANGED <<q, mutex, isDone, wpc, job, pushed, ready, spurious>>

\* ~thread_pool: stop(true) sets isDone without the mutex; futures need not
\* have been waited for.
Stop ==
    /\ mpc = "user"
    /\ isDone' = TRUE
    /\ mpc' = "stopping"
    /\ UNCHANGED <<q, mutex, wpc, job, pushed, ready, spurious>>

\* Defect: notify_one in place of notify_all.
NotifyAll_One ==
    /\ mpc = "stopping"
    /\ mutex = Free
    /\ LET sleeping == {w \in Workers : wpc[w] = "waiting"}
       IN  IF sleeping = {} THEN UNCHANGED wpc ELSE \E w \in sleeping : Goto(w, "woken")
    /\ mpc' = "join"
    /\ UNCHANGED <<q, mutex, isDone, job, pushed, ready, spurious>>

\* ... then locks the mutex and wakes every waiting thread,
NotifyAll ==
    /\ mpc = "stopping"
    /\ mutex = Free
    /\ wpc' = [w \in Workers |-> IF wpc[w] = "waiting" THEN "woken" ELSE wpc[w]]
    /\ mpc' = "join"
    /\ UNCHANGED <<q, mutex, isDone, job, pushed, ready, spurious>>

\* ... joins the threads, and clear_queue() deletes what is left in the queue.
Destroy ==
    /\ mpc = "join"
    /\ \A w \in Workers : wpc[w] = "exited"
    /\ q' = <<>>
    /\ mpc' = "destroyed"
    /\ UNCHANGED <<mutex, isDone, wpc, job, pushed, ready, spurious>>

\* The program after the pool is gone.
Terminated ==
    /\ mpc = "destroyed"
    /\ UNCHANGED vars

-----------------------------------------------------------------------------
Next ==
    \/ \E w \in Workers : WorkerStep(w) \/ SpuriousWake(w) \/ Spawn(w)
    \/ \E t \in Tasks : Push(t)
    \/ Notify \/ BeginWait \/ EndWait \/ Stop \/ NotifyAll \/ Destroy
    \/ Terminated

\* Every thread that can take a step of the pool's own code eventually does:
\* functions terminate, and a thread that wants the mutex gets it once nobody
\* else contends for it. Main need not push, wait or stop.
Fairness ==
    /\ \A w \in Workers : WF_vars(WorkerStep(w)) /\ WF_vars(Spawn(w))
    /\ WF_vars(Notify) /\ WF_vars(EndWait) /\ WF_vars(NotifyAll) /\ WF_vars(Destroy)

Spec == Init /\ [][Next]_vars /\ Fairness

-----------------------------------------------------------------------------
(* Properties                                                              *)

\* ctpl_stl.h:81, "the destructor waits for all the functions in the queue to
\* be finished": clear_queue() at the end of stop(true) never deletes a function
\* that has not run. A worker may leave only if the queue was empty when it saw
\* isDone, although isDone and the queue are read in two steps.
DestructorDrains == mpc = "destroyed" => pushed \subseteq ready

\* A function is in exactly one place: in the queue (once), with one worker, or
\* done. Two workers can never run the same function.
RunOnce ==
    /\ \A i, j \in 1..Len(q) : q[i] = q[j] => i = j
    /\ \A w \in Workers : wpc[w] \in {"run", "leave"} =>
         /\ job[w] \notin Elems(q) \cup ready
         /\ \A v \in Workers \ {w} : wpc[v] \in {"run", "leave"} => job[v] # job[w]
    /\ Elems(q) \cap ready = {}

\* A queued function always has a thread that will look at the queue: at no time
\* are all threads asleep or gone with work queued and no notification on its way.
NoLostWakeup ==
    q # <<>> => \/ mpc = "notify"
                \/ \E w \in Workers : wpc[w] \notin {"waiting", "exited"}

\* future.wait() returns: what was pushed is eventually run.
EveryTaskRuns == \A t \in Tasks : t \in pushed ~> t \in ready

\* The destructor returns: no worker sleeps through the end of the pool.
DestructorReturns == (mpc = "stopping") ~> (mpc = "destroyed")

-----------------------------------------------------------------------------
(* The pool implements the task queue it promises.                         *)

Busy == {w \in Workers : wpc[w] \in {"run", "leave"}}

Queue == INSTANCE TaskQueue WITH
             N        <- Cardinality(Workers),
             pending  <- q,
             running  <- {job[w] : w \in Busy},
             finished <- ready,
             alive    <- mpc # "destroyed"

\* Refinement: in order, once each, at most one per thread, none lost.
ImplementsTaskQueue == Queue!TQSpec
=============================================================================
