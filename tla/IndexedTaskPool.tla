-------------------------- MODULE IndexedTaskPool ---------------------------
(***************************************************************************)
(* internals::parallel::IndexedTaskPool (dependencies/vince/csv.hpp): the  *)
(* threads that parse the chunks of a window. parallel_for publishes a     *)
(* number of tasks under a new generation and sleeps until every thread    *)
(* has been through them; a thread takes the next index until there is     *)
(* none. The function the threads call refers to variables of the caller,  *)
(* so that none may be left in it when parallel_for returns.               *)
(*                                                                         *)
(* A step is a critical section of the mutex, the fetch_add of next_task_  *)
(* or one task. What a task does is up to the module that uses the pool.   *)
(***************************************************************************)
EXTENDS Naturals, FiniteSets

CONSTANTS Workers       \* the threads: at least two, or there is no pool

ASSUME WorkersAssumption == IsFiniteSet(Workers) /\ Cardinality(Workers) > 1

VARIABLES generation, completed,    \* generation_, completed_generation_
          next, count,              \* next_task_, task_count_
          active,                   \* active_workers_
          failed,                   \* task_exception_ is set
          stop,                     \* stop_
          caller,                   \* where the one that uses the pool is
          place, seen, task         \* of a thread: its place, seen_generation, task_index

poolVars == <<generation, completed, next, count, active, failed, stop, caller, place, seen, task>>

\* Outside of the pool; parallel_for; the destructor.
CallerPlaces == {"outside", "published", "wait", "asleep", "stopping", "join", "gone"}
WorkerPlaces == {"lock", "asleep", "take", "run", "caught", "leave", "exited"}

PoolTypeOK ==
    /\ completed \in 0..generation
    /\ active \in 0..Cardinality(Workers)
    /\ failed \in BOOLEAN
    /\ stop \in BOOLEAN
    /\ caller \in CallerPlaces
    /\ place \in [Workers -> WorkerPlaces]
    /\ seen \in [Workers -> 0..generation]
    /\ task \in [Workers -> Nat]

PoolInit ==
    /\ generation = 0
    /\ completed = 0
    /\ next = 0
    /\ count = 0
    /\ active = 0
    /\ failed = FALSE
    /\ stop = FALSE
    /\ caller = "outside"
    /\ place = [w \in Workers |-> "lock"]
    /\ seen = [w \in Workers |-> 0]
    /\ task = [w \in Workers |-> 0]

Goto(w, p) == place' = [place EXCEPT ![w] = p]

-----------------------------------------------------------------------------
(* The caller.                                                             *)

\* parallel_for(n, fn), n > 0.
ParallelFor(n) ==
    /\ caller = "outside"
    /\ count' = n
    /\ next' = 0
    /\ failed' = FALSE
    /\ active' = Cardinality(Workers)
    /\ generation' = generation + 1
    /\ caller' = "published"
    /\ UNCHANGED <<completed, stop, place, seen, task>>

WakeAll == place' = [w \in Workers |-> IF place[w] = "asleep" THEN "lock" ELSE place[w]]

\* Defect: notify_one.
NotifyAll_One ==
    /\ caller \in {"published", "stopping"}
    /\ \/ \E w \in Workers : place[w] = "asleep" /\ Goto(w, "lock")
       \/ (\A w \in Workers : place[w] # "asleep") /\ UNCHANGED place
    /\ caller' = IF caller = "published" THEN "wait" ELSE "join"
    /\ UNCHANGED <<generation, completed, next, count, active, failed, stop, seen, task>>

\* task_ready_.notify_all(), of parallel_for and of the destructor.
NotifyAll ==
    /\ caller \in {"published", "stopping"}
    /\ WakeAll
    /\ caller' = IF caller = "published" THEN "wait" ELSE "join"
    /\ UNCHANGED <<generation, completed, next, count, active, failed, stop, seen, task>>

\* The predicate of task_done_.wait does not hold yet.
WaitDone ==
    /\ caller = "wait"
    /\ completed # generation
    /\ caller' = "asleep"
    /\ UNCHANGED <<generation, completed, next, count, active, failed, stop, place, seen, task>>

\* It holds: parallel_for returns, or rethrows.
Returns ==
    /\ caller = "wait"
    /\ completed = generation
    /\ caller' = "outside"
    /\ failed' = FALSE
    /\ UNCHANGED <<generation, completed, next, count, active, stop, place, seen, task>>

\* The destructor.
StopWorkers ==
    /\ caller = "outside"
    /\ stop' = TRUE
    /\ generation' = generation + 1
    /\ caller' = "stopping"
    /\ UNCHANGED <<completed, next, count, active, failed, place, seen, task>>

JoinAll ==
    /\ caller = "join"
    /\ \A w \in Workers : place[w] = "exited"
    /\ caller' = "gone"
    /\ UNCHANGED <<generation, completed, next, count, active, failed, stop, place, seen, task>>

InPool == NotifyAll \/ WaitDone \/ JoinAll

-----------------------------------------------------------------------------
(* A thread: worker_loop.                                                  *)

\* The predicate of task_ready_.wait, and what follows it under the lock.
Enter(w) ==
    /\ place[w] = "lock"
    /\ IF stop THEN Goto(w, "exited") /\ UNCHANGED seen
       ELSE IF generation # seen[w]
            THEN Goto(w, "take") /\ seen' = [seen EXCEPT ![w] = generation]
            ELSE Goto(w, "asleep") /\ UNCHANGED seen
    /\ UNCHANGED <<generation, completed, next, count, active, failed, stop, caller, task>>

\* next_task_.fetch_add(1).
Take(w) ==
    /\ place[w] = "take"
    /\ next' = next + 1
    /\ task' = [task EXCEPT ![w] = IF next < count THEN next ELSE 0]
    /\ Goto(w, IF next < count THEN "run" ELSE "leave")
    /\ UNCHANGED <<generation, completed, count, active, failed, stop, caller, seen>>

\* current_task_(worker_index, task_index).
RunTask(w) ==
    /\ place[w] = "run"
    /\ Goto(w, "take")
    /\ UNCHANGED <<generation, completed, next, count, active, failed, stop, caller, seen, task>>

TaskThrows(w) ==
    /\ place[w] = "run"
    /\ Goto(w, "caught")
    /\ UNCHANGED <<generation, completed, next, count, active, failed, stop, caller, seen, task>>

\* The first exception is kept, and no further task taken.
Catch(w) ==
    /\ place[w] = "caught"
    /\ failed' = TRUE
    /\ next' = IF failed THEN next ELSE count
    /\ Goto(w, "leave")
    /\ UNCHANGED <<generation, completed, count, active, stop, caller, seen, task>>

WakeCaller == caller' = IF caller = "asleep" THEN "wait" ELSE caller

\* Defect: the first thread that finds no task left completes the generation.
Leave_First(w) ==
    /\ place[w] = "leave"
    /\ active' = active - 1
    /\ completed' = seen[w]
    /\ WakeCaller
    /\ Goto(w, "lock")
    /\ UNCHANGED <<generation, next, count, failed, stop, seen, task>>

\* The last thread completes the generation, task_done_.notify_one().
Leave(w) ==
    /\ place[w] = "leave"
    /\ active' = active - 1
    /\ IF active' = 0
       THEN completed' = seen[w] /\ WakeCaller
       ELSE UNCHANGED <<completed, caller>>
    /\ Goto(w, "lock")
    /\ UNCHANGED <<generation, next, count, failed, stop, seen, task>>

\* Wake-ups without a reason.
SpuriousWakeup ==
    /\ \/ caller = "asleep" /\ caller' = "wait" /\ UNCHANGED place
       \/ \E w \in Workers : place[w] = "asleep" /\ Goto(w, "lock") /\ UNCHANGED caller
    /\ UNCHANGED <<generation, completed, next, count, active, failed, stop, seen, task>>

\* The steps of a thread but for its tasks.
InLoop(w) == Enter(w) \/ Take(w) \/ Catch(w) \/ Leave(w)

-----------------------------------------------------------------------------
(* The pool on its own, whatever it is used for. parallel_for(0, fn) does  *)
(* nothing.                                                                *)

PoolWorker(w) == InLoop(w) \/ RunTask(w) \/ TaskThrows(w)

PoolCaller == (\E n \in Nat \ {0} : ParallelFor(n)) \/ InPool \/ Returns \/ StopWorkers

PoolNext == (\E w \in Workers : PoolWorker(w)) \/ PoolCaller \/ SpuriousWakeup

PoolSpec == PoolInit /\ [][PoolNext]_poolVars

-----------------------------------------------------------------------------
\* When parallel_for has returned, every task has been taken, by one thread, and no thread
\* is left in a function that refers to the caller's variables.
NoStraggler ==
    /\ PoolTypeOK
    /\ caller = "outside" => next >= count /\ \A w \in Workers : place[w] \in {"lock", "asleep"}
    /\ \A v, w \in Workers : v # w /\ place[v] = "run" /\ place[w] = "run" => task[v] # task[w]
=============================================================================
