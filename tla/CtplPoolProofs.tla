--------------------------- MODULE CtplPoolProofs ---------------------------
(***************************************************************************)
(* Proofs about CtplPool, for any number of threads, functions and         *)
(* spurious wakeups: no function is left behind by the destructor, none    *)
(* runs twice, and none waits in the queue while every thread sleeps.      *)
(*                                                                         *)
(* What carries all of it is WaitSeesQueue: a worker whose wait predicate  *)
(* found the queue empty still holds the mutex when it goes on, so that a  *)
(* push in between cannot have got past its notification, and the pool     *)
(* cannot have been told to stop after that push.                          *)
(***************************************************************************)
EXTENDS CtplPool, FunctionTheorems, FiniteSetTheorems, TLAPS

-----------------------------------------------------------------------------
(* Queues: what a push and a pop do to the set of queued functions.        *)

NoRepeat(s) == \A i, j \in 1..Len(s) : s[i] = s[j] => i = j

LEMMA PushElems ==
    ASSUME NEW s \in Seq(Tasks), NEW t \in Tasks
    PROVE  /\ Append(s, t) \in Seq(Tasks)
           /\ Elems(Append(s, t)) = Elems(s) \cup {t}
           /\ t \notin Elems(s) /\ NoRepeat(s) => NoRepeat(Append(s, t))
  <1>1. /\ Append(s, t) \in Seq(Tasks) /\ Len(Append(s, t)) = Len(s) + 1
        /\ \A i \in 1..Len(s) : Append(s, t)[i] = s[i]
        /\ Append(s, t)[Len(s) + 1] = t
    OBVIOUS
  <1>2. Len(s) \in Nat
    OBVIOUS
  <1>3. Elems(Append(s, t)) = Elems(s) \cup {t}
    BY <1>1, <1>2 DEF Elems
  <1>4. t \notin Elems(s) /\ NoRepeat(s) => NoRepeat(Append(s, t))
    BY <1>1, <1>2 DEF Elems, NoRepeat
  <1> QED BY <1>1, <1>3, <1>4

LEMMA PopElems ==
    ASSUME NEW s \in Seq(Tasks), s # <<>>
    PROVE  /\ Tail(s) \in Seq(Tasks) /\ Head(s) \in Tasks
           /\ Elems(s) = Elems(Tail(s)) \cup {Head(s)}
           /\ NoRepeat(s) => NoRepeat(Tail(s)) /\ Head(s) \notin Elems(Tail(s))
  <1>1. /\ Tail(s) \in Seq(Tasks) /\ Len(Tail(s)) = Len(s) - 1
        /\ Head(s) = s[1] /\ Head(s) \in Tasks
        /\ \A i \in 1..Len(Tail(s)) : Tail(s)[i] = s[i + 1]
    OBVIOUS
  <1>2. Len(s) \in Nat /\ Len(s) >= 1
    OBVIOUS
  <1>3. Elems(s) = Elems(Tail(s)) \cup {Head(s)}
    <2>1. ASSUME NEW x \in Elems(s) PROVE x \in Elems(Tail(s)) \cup {Head(s)}
      <3>1. PICK i \in 1..Len(s) : x = s[i]
        BY <2>1 DEF Elems
      <3>2. CASE i = 1
        BY <3>1, <3>2, <1>1
      <3>3. CASE i # 1
        <4>1. i - 1 \in 1..Len(Tail(s)) /\ Tail(s)[i - 1] = s[i]
          BY <3>1, <3>3, <1>1, <1>2
        <4> QED BY <4>1, <3>1 DEF Elems
      <3> QED BY <3>2, <3>3
    <2>2. ASSUME NEW x \in Elems(Tail(s)) \cup {Head(s)} PROVE x \in Elems(s)
      BY <2>2, <1>1, <1>2 DEF Elems
    <2> QED BY <2>1, <2>2
  <1>4. NoRepeat(s) => NoRepeat(Tail(s)) /\ Head(s) \notin Elems(Tail(s))
    BY <1>1, <1>2 DEF Elems, NoRepeat
  <1> QED BY <1>1, <1>3, <1>4

-----------------------------------------------------------------------------
(* The inductive invariant.                                                *)

HasJob(w) == wpc[w] \in {"run", "leave"}

\* The thread inside the critical section is the one that holds the mutex.
Exclusive == \A w \in Workers : wpc[w] \in Holding <=> mutex = w

\* isDone is Main's own flag.
StopFlag == isDone <=> mpc \in {"stopping", "join", "destroyed"}

\* A busy worker has a function; the others have none that counts.
JobIsTask == \A w \in Workers : HasJob(w) => job[w] \in pushed

\* Nothing that was pushed is nowhere, and nothing is anywhere that was not pushed.
Accounted ==
    /\ pushed \subseteq Elems(q) \cup {job[w] : w \in Busy} \cup ready
    /\ Elems(q) \subseteq pushed
    /\ ready \subseteq pushed

\* A worker past its pop in the wait predicate saw the queue empty, and it still
\* is, unless Main is held up at the mutex with the notification of a push.
WaitSeesQueue == \A w \in Workers : wpc[w] = "decide" => q = <<>> \/ mpc = "notify"

\* A worker leaves an empty queue that nobody will push to any more.
LeftNothing == \A w \in Workers : wpc[w] = "exited" => isDone /\ q = <<>>

Inv ==
    /\ TypeOK /\ Exclusive /\ StopFlag /\ JobIsTask /\ Accounted
    /\ WaitSeesQueue /\ LeftNothing
    /\ RunOnce /\ NoLostWakeup /\ DestructorDrains

LEMMA InitInv == Init => Inv
  <1> SUFFICES ASSUME Init PROVE Inv
    OBVIOUS
  <1>1. TypeOK
    <2>1. wpc \in [Workers -> WorkerPc] /\ mpc \in MainPc
      BY DEF Init, WorkerPc, MainPc
    <2>2. q \in Seq(Tasks) /\ spurious \in 0..MaxSpurious
      BY SpuriousAssumption DEF Init
    <2> QED BY <2>1, <2>2 DEF Init, TypeOK
  <1>2. Elems(q) = {} /\ Len(q) = 0
    BY DEF Init, Elems
  <1>3. Exclusive /\ StopFlag /\ JobIsTask /\ Accounted /\ WaitSeesQueue /\ LeftNothing
    BY <1>2, FreeAssumption DEF Init, Exclusive, Holding, StopFlag, JobIsTask, HasJob, Accounted,
                               WaitSeesQueue, LeftNothing
  <1>4. RunOnce /\ NoLostWakeup /\ DestructorDrains
    BY <1>2 DEF Init, RunOnce, NoLostWakeup, DestructorDrains
  <1> QED BY <1>1, <1>3, <1>4 DEF Inv

-----------------------------------------------------------------------------
(* Steps of the threads that move no function: only their control state,   *)
(* the mutex and the flags change.                                         *)

\* Where the functions are does not change, so what is said of it does not.
LEMMA QuietStep ==
    ASSUME Inv, UNCHANGED <<q, job, pushed, ready>>,
           \A w \in Workers : HasJob(w)' <=> HasJob(w)
    PROVE  JobIsTask' /\ Accounted' /\ RunOnce'
  <1>1. JobIsTask'
    BY DEF Inv, JobIsTask
  <1>2. Busy' = Busy
    BY DEF Busy, HasJob
  <1>3. Accounted'
    BY <1>2 DEF Inv, Accounted, Elems
  <1>4. RunOnce'
    BY DEF Inv, RunOnce, HasJob, Elems
  <1> QED BY <1>1, <1>3, <1>4

\* A worker moves without touching the queue.
LEMMA WorkerMoves ==
    ASSUME Inv, NEW w \in Workers,
           Lock(w) \/ Decide(w) \/ Leave(w) \/ Reacquire(w) \/ SpuriousWake(w) \/ Spawn(w)
    PROVE  Inv'
  <1> USE DEF Inv
  <1>0. PICK pc \in WorkerPc : wpc' = [wpc EXCEPT ![w] = pc]
    BY DEF Lock, Decide, Leave, Reacquire, SpuriousWake, Spawn, Goto, WorkerPc
  <1>1. TypeOK'
    <2>1. wpc' \in [Workers -> WorkerPc]
      BY <1>0 DEF TypeOK
    <2>2. spurious' \in 0..MaxSpurious /\ mpc' \in MainPc /\ mutex' \in Workers \cup {Free}
      BY SpuriousAssumption
         DEF Lock, Decide, Leave, Reacquire, SpuriousWake, Spawn, TypeOK, MainPc
    <2>3. UNCHANGED <<q, isDone, job, pushed, ready>>
      BY DEF Lock, Decide, Leave, Reacquire, SpuriousWake, Spawn
    <2> QED BY <2>1, <2>2, <2>3 DEF TypeOK
  <1>2. UNCHANGED <<q, isDone, job, pushed, ready>>
    BY DEF Lock, Decide, Leave, Reacquire, SpuriousWake, Spawn
  <1>3. \A v \in Workers : HasJob(v)' <=> HasJob(v)
    BY DEF Lock, Decide, Leave, Reacquire, SpuriousWake, Spawn, Goto, TypeOK, HasJob
  <1>4. JobIsTask' /\ Accounted' /\ RunOnce'
    BY <1>2, <1>3, QuietStep
  <1>5. Exclusive'
    BY FreeAssumption
       DEF Lock, Decide, Leave, Reacquire, SpuriousWake, Spawn, Goto, TypeOK, Exclusive, Holding
  <1>6. StopFlag'
    BY DEF Lock, Decide, Leave, Reacquire, SpuriousWake, Spawn, StopFlag
  <1>7. WaitSeesQueue'
    BY DEF Lock, Decide, Leave, Reacquire, SpuriousWake, Spawn, Goto, TypeOK, WaitSeesQueue
  <1>8. LeftNothing'
    BY DEF Lock, Decide, Leave, Reacquire, SpuriousWake, Spawn, Goto, TypeOK, LeftNothing,
           WaitSeesQueue, StopFlag
  <1>9. NoLostWakeup'
    <2> SUFFICES ASSUME q # <<>>, mpc' # "notify"
                 PROVE  \E v \in Workers : wpc'[v] \notin {"waiting", "exited"}
      BY <1>2 DEF NoLostWakeup
    <2>1. CASE Decide(w)
      BY <2>1 DEF Decide, WaitSeesQueue
    <2>2. CASE Lock(w) \/ Leave(w) \/ Reacquire(w) \/ SpuriousWake(w) \/ Spawn(w)
      BY <2>2 DEF Lock, Leave, Reacquire, SpuriousWake, Spawn, Goto, TypeOK
    <2> QED BY <2>1, <2>2
  <1>10. DestructorDrains'
    BY <1>2 DEF Lock, Decide, Leave, Reacquire, SpuriousWake, Spawn, DestructorDrains
  <1> QED BY <1>1, <1>4, <1>5, <1>6, <1>7, <1>8, <1>9, <1>10

\* Main moves without touching the queue.
LEMMA MainMoves ==
    ASSUME Inv, Notify \/ BeginWait \/ EndWait \/ Stop \/ NotifyAll
    PROVE  Inv'
  <1> USE DEF Inv
  <1>0. UNCHANGED <<q, mutex, job, pushed, ready, spurious>>
    BY DEF Notify, BeginWait, EndWait, Stop, NotifyAll
  <1>1. \A v \in Workers : \/ wpc'[v] = wpc[v]
                           \/ wpc[v] = "waiting" /\ wpc'[v] = "woken"
    BY DEF Notify, BeginWait, EndWait, Stop, NotifyAll, Goto, TypeOK
  <1>2. wpc' \in [Workers -> WorkerPc]
    BY DEF Notify, BeginWait, EndWait, Stop, NotifyAll, Goto, TypeOK, WorkerPc
  <1>3. TypeOK'
    BY <1>0, <1>2 DEF Notify, BeginWait, EndWait, Stop, NotifyAll, TypeOK, MainPc
  <1>4. JobIsTask' /\ Accounted' /\ RunOnce'
    <2>1. \A v \in Workers : HasJob(v)' <=> HasJob(v)
      BY <1>1 DEF HasJob
    <2> QED BY <1>0, <2>1, QuietStep
  <1>5. Exclusive'
    BY <1>0, <1>1 DEF Exclusive, Holding
  <1>6. StopFlag'
    BY DEF Notify, BeginWait, EndWait, Stop, NotifyAll, StopFlag
  <1>7. WaitSeesQueue'
    <2>1. CASE Notify
      BY <2>1, <1>1, FreeAssumption DEF Notify, Exclusive, Holding, WaitSeesQueue
    <2>2. CASE BeginWait \/ EndWait \/ Stop \/ NotifyAll
      BY <2>2, <1>0, <1>1 DEF BeginWait, EndWait, Stop, NotifyAll, WaitSeesQueue
    <2> QED BY <2>1, <2>2
  <1>8. LeftNothing'
    BY <1>0, <1>1 DEF Notify, BeginWait, EndWait, Stop, NotifyAll, LeftNothing
  <1>9. NoLostWakeup'
    <2>1. CASE Notify
      <3>1. CASE \A v \in Workers : wpc[v] # "waiting"
        <4>1. PICK v \in Workers : TRUE
          BY WorkersAssumption
        <4>2. ~isDone
          BY <2>1 DEF Notify, StopFlag
        <4>3. wpc'[v] \notin {"waiting", "exited"}
          BY <4>2, <3>1, <1>1 DEF LeftNothing
        <4> QED BY <4>3 DEF NoLostWakeup
      <3>2. CASE \E v \in Workers : wpc[v] = "waiting"
        BY <2>1, <3>2 DEF Notify, Goto, TypeOK, NoLostWakeup
      <3> QED BY <3>1, <3>2
    <2>2. CASE BeginWait \/ EndWait \/ Stop \/ NotifyAll
      BY <2>2, <1>0, <1>1 DEF BeginWait, EndWait, Stop, NotifyAll, NoLostWakeup
    <2> QED BY <2>1, <2>2
  <1>10. DestructorDrains'
    BY <1>0 DEF Notify, BeginWait, EndWait, Stop, NotifyAll, DestructorDrains
  <1> QED BY <1>3, <1>4, <1>5, <1>6, <1>7, <1>8, <1>9, <1>10

-----------------------------------------------------------------------------
(* Steps that move a function: into the queue, to a worker, to its future. *)

LEMMA PushInv == ASSUME Inv, NEW t \in Tasks, Push(t) PROVE Inv'
  <1> USE DEF Inv
  <1>0. /\ q' = Append(q, t) /\ pushed' = pushed \cup {t} /\ t \notin pushed
        /\ mpc = "user" /\ mpc' = "notify"
        /\ UNCHANGED <<mutex, isDone, wpc, job, ready, spurious>>
    BY DEF Push
  <1>q. /\ q' \in Seq(Tasks) /\ Elems(q') = Elems(q) \cup {t}
        /\ t \notin Elems(q) /\ NoRepeat(q) => NoRepeat(q')
    BY <1>0, PushElems DEF TypeOK
  <1>1. TypeOK'
    BY <1>0, <1>q DEF TypeOK, MainPc
  <1>2. Exclusive' /\ StopFlag' /\ WaitSeesQueue' /\ LeftNothing'
    BY <1>0 DEF Exclusive, StopFlag, WaitSeesQueue, LeftNothing
  <1>3. JobIsTask'
    BY <1>0 DEF JobIsTask, HasJob
  <1>4. Accounted'
    <2>1. Busy' = Busy
      BY <1>0 DEF Busy
    <2>2. {job[w] : w \in Busy}' = {job[w] : w \in Busy}
      BY <1>0, <2>1
    <2>3. (Elems(q))' = Elems(q) \cup {t}
      BY <1>q DEF Elems
    <2> QED BY <1>0, <2>2, <2>3 DEF Accounted
  <1>5. RunOnce'
    <2>1. t \notin Elems(q) /\ t \notin ready
      BY <1>0 DEF Accounted
    <2>2. NoRepeat(q')
      BY <1>q, <2>1 DEF RunOnce, NoRepeat
    <2>3. ASSUME NEW w \in Workers, HasJob(w)
          PROVE  /\ job[w] \notin Elems(q') \cup ready
                 /\ \A v \in Workers \ {w} : HasJob(v) => job[v] # job[w]
      BY <1>0, <1>q, <2>3 DEF RunOnce, HasJob, JobIsTask
    <2>4. Elems(q') \cap ready = {}
      BY <1>q, <2>1 DEF RunOnce
    <2> QED BY <1>0, <2>2, <2>3, <2>4 DEF RunOnce, NoRepeat, HasJob, Elems
  <1>6. NoLostWakeup' /\ DestructorDrains'
    BY <1>0 DEF NoLostWakeup, DestructorDrains
  <1> QED BY <1>1, <1>2, <1>3, <1>4, <1>5, <1>6

\* Taking the head of the queue, or finding it empty, keeps account of every
\* function, whichever of the two pops of the loop it is.
LEMMA PopAccount ==
    ASSUME Inv, NEW w \in Workers, ~HasJob(w),
           NEW found \in {"run", "leave"}, NEW empty \in WorkerPc \ {"run", "leave"},
           PopInto(w, found, empty), UNCHANGED <<pushed, ready>>
    PROVE  JobIsTask' /\ Accounted' /\ RunOnce'
  <1> USE DEF Inv
  <1>t. /\ q \in Seq(Tasks) /\ job \in [Workers -> Tasks \cup {NoTask}]
        /\ wpc \in [Workers -> WorkerPc]
    BY DEF TypeOK
  <1>1. CASE q = <<>>
    <2>1. /\ UNCHANGED q
          /\ \A v \in Workers \ {w} : job'[v] = job[v] /\ wpc'[v] = wpc[v]
          /\ wpc'[w] = empty
      BY <1>1, <1>t DEF PopInto, Goto
    <2>2. \A v \in Workers : HasJob(v)' <=> HasJob(v) /\ v # w
      BY <2>1 DEF HasJob
    <2>3. {job[v] : v \in Busy}' = {job[v] : v \in Busy}
      BY <2>1, <2>2 DEF Busy, HasJob
    <2>4. (Elems(q))' = Elems(q)
      BY <2>1 DEF Elems
    <2>5. JobIsTask' /\ Accounted'
      BY <2>1, <2>2, <2>3, <2>4 DEF JobIsTask, Accounted
    <2>6. RunOnce'
      BY <2>1, <2>2, <2>4 DEF RunOnce, HasJob
    <2> QED BY <2>5, <2>6
  <1>2. CASE q # <<>>
    <2> DEFINE h == Head(q)
    <2>1. /\ q' = Tail(q)
          /\ \A v \in Workers \ {w} : job'[v] = job[v] /\ wpc'[v] = wpc[v]
          /\ wpc'[w] = found /\ job'[w] = h
      BY <1>2, <1>t DEF PopInto, Goto
    <2>2. /\ Elems(q) = Elems(q') \cup {h}
          /\ NoRepeat(q) => NoRepeat(q') /\ h \notin Elems(q')
      BY <1>2, <1>t, <2>1, PopElems
    <2>3. NoRepeat(q) /\ NoRepeat(q') /\ h \notin Elems(q') /\ h \in pushed /\ h \notin ready
      BY <2>2 DEF RunOnce, NoRepeat, Accounted
    <2>4. \A v \in Workers : HasJob(v)' <=> HasJob(v) \/ v = w
      BY <2>1 DEF HasJob
    <2>5. (Elems(q))' = Elems(q')
      BY DEF Elems
    <2>6. {job[v] : v \in Busy}' = {job[v] : v \in Busy} \cup {h}
      BY <2>1, <2>4 DEF Busy, HasJob
    <2>7. JobIsTask'
      BY <2>1, <2>3, <2>4 DEF JobIsTask
    <2>8. Accounted'
      BY <2>2, <2>5, <2>6 DEF Accounted
    <2>9. RunOnce'
      <3>1. ASSUME NEW v \in Workers, HasJob(v)'
            PROVE  job'[v] \notin Elems(q') \cup ready
        BY <3>1, <2>1, <2>2, <2>3, <2>4 DEF RunOnce, HasJob
      <3>2. ASSUME NEW v \in Workers, NEW u \in Workers \ {v}, HasJob(v)', HasJob(u)'
            PROVE  job'[u] # job'[v]
        <4>1. \A x \in Workers : HasJob(x) => job[x] # h
          BY <2>2 DEF RunOnce, HasJob
        <4> QED BY <3>2, <4>1, <2>1, <2>4 DEF RunOnce, HasJob
      <3>3. Elems(q') \cap ready = {}
        BY <2>2 DEF RunOnce
      <3> QED BY <3>1, <3>2, <3>3, <2>3, <2>5 DEF RunOnce, HasJob, NoRepeat
    <2> QED BY <2>7, <2>8, <2>9
  <1> QED BY <1>1, <1>2

LEMMA PopInv == ASSUME Inv, NEW w \in Workers, Pop(w) \/ PredPop(w) PROVE Inv'
  <1> USE DEF Inv
  <1>0. UNCHANGED <<mutex, isDone, mpc, pushed, ready, spurious>>
    BY DEF Pop, PredPop
  <1>1. PICK found \in {"run", "leave"}, empty \in {"lock", "decide"} :
          /\ PopInto(w, found, empty)
          /\ found = "leave" /\ empty = "decide" <=> wpc[w] = "pred"
          /\ found = "run" /\ empty = "lock" <=> wpc[w] = "pop"
          /\ wpc[w] \in {"pop", "pred"}
    BY DEF Pop, PredPop
  <1>2. JobIsTask' /\ Accounted' /\ RunOnce'
    <2>1. ~HasJob(w) /\ empty \in WorkerPc \ {"run", "leave"}
      BY <1>1 DEF HasJob, WorkerPc
    <2> QED BY <1>0, <1>1, <2>1, PopAccount
  <1>3. TypeOK'
    <2>1. found \in WorkerPc /\ empty \in WorkerPc
      BY DEF WorkerPc
    <2>2. q # <<>> => Tail(q) \in Seq(Tasks) /\ Head(q) \in Tasks
      BY PopElems DEF TypeOK
    <2>3. q' \in Seq(Tasks) /\ job' \in [Workers -> Tasks \cup {NoTask}] /\ wpc' \in [Workers -> WorkerPc]
      BY <1>1, <2>1, <2>2 DEF PopInto, Goto, TypeOK
    <2> QED BY <1>0, <2>3 DEF TypeOK
  <1>4. /\ \A v \in Workers \ {w} : wpc'[v] = wpc[v]
        /\ wpc'[w] = IF q = <<>> THEN empty ELSE found
        /\ q = <<>> => q' = <<>>
    BY <1>1 DEF PopInto, Goto, TypeOK
  <1>5. Exclusive' /\ StopFlag'
    BY <1>0, <1>1, <1>4 DEF Exclusive, Holding, StopFlag
  <1>6. WaitSeesQueue' /\ LeftNothing' /\ NoLostWakeup'
    <2>1. \A v \in Workers : wpc[v] = "exited" => q' = <<>>
      BY <1>4 DEF LeftNothing
    <2>2. LeftNothing'
      BY <2>1, <1>0, <1>1, <1>4 DEF LeftNothing
    <2>3. WaitSeesQueue'
      <3>1. ASSUME NEW v \in Workers, wpc'[v] = "decide", v # w PROVE q' = <<>> \/ mpc' = "notify"
        BY <3>1, <1>0, <1>4 DEF WaitSeesQueue
      <3>2. wpc'[w] = "decide" => q' = <<>>
        BY <1>1, <1>4
      <3> QED BY <3>1, <3>2 DEF WaitSeesQueue
    <2>4. NoLostWakeup'
      BY <1>1, <1>4 DEF NoLostWakeup
    <2> QED BY <2>2, <2>3, <2>4
  <1>7. DestructorDrains'
    BY <1>0 DEF DestructorDrains
  <1> QED BY <1>2, <1>3, <1>5, <1>6, <1>7

LEMMA RunInv == ASSUME Inv, NEW w \in Workers, Run(w) PROVE Inv'
  <1> USE DEF Inv
  <1>0. /\ wpc[w] = "run" /\ ready' = ready \cup {job[w]}
        /\ \A v \in Workers \ {w} : wpc'[v] = wpc[v]
        /\ wpc'[w] = "pop" /\ wpc' \in [Workers -> WorkerPc]
        /\ UNCHANGED <<q, mutex, isDone, job, mpc, pushed, spurious>>
    BY DEF Run, Goto, TypeOK, WorkerPc
  <1>1. job[w] \in pushed /\ job[w] \notin Elems(q)
    BY <1>0 DEF JobIsTask, HasJob, RunOnce
  <1>2. \A v \in Workers : HasJob(v)' <=> HasJob(v) /\ v # w
    BY <1>0 DEF HasJob
  <1>3. (Elems(q))' = Elems(q)
    BY <1>0 DEF Elems
  <1>4. TypeOK'
    BY <1>0, <1>1 DEF TypeOK
  <1>5. Exclusive' /\ StopFlag' /\ WaitSeesQueue' /\ LeftNothing' /\ NoLostWakeup'
    BY <1>0 DEF Exclusive, Holding, StopFlag, WaitSeesQueue, LeftNothing, NoLostWakeup
  <1>6. JobIsTask'
    BY <1>0, <1>2 DEF JobIsTask
  <1>7. Accounted'
    <2>1. {job[v] : v \in Busy} \subseteq {job[v] : v \in Busy}' \cup {job[w]}
      BY <1>0, <1>2 DEF Busy, HasJob
    <2> QED BY <1>0, <1>1, <1>3, <2>1 DEF Accounted
  <1>8. RunOnce'
    <2>1. \A v \in Workers : HasJob(v)' => job[v] # job[w]
      BY <1>0, <1>2 DEF RunOnce, HasJob
    <2> QED BY <1>0, <1>1, <1>2, <1>3, <2>1 DEF RunOnce, HasJob
  <1>9. DestructorDrains'
    BY <1>0 DEF DestructorDrains
  <1> QED BY <1>4, <1>5, <1>6, <1>7, <1>8, <1>9

\* clear_queue() finds nothing to delete.
LEMMA DestroyInv == ASSUME Inv, Destroy PROVE Inv'
  <1> USE DEF Inv
  <1>0. /\ \A w \in Workers : wpc[w] = "exited"
        /\ mpc = "join" /\ mpc' = "destroyed" /\ q' = <<>>
        /\ UNCHANGED <<mutex, isDone, wpc, job, pushed, ready, spurious>>
    BY DEF Destroy
  <1>1. q = <<>>
    BY <1>0, WorkersAssumption DEF LeftNothing
  <1>2. Busy = {} /\ Elems(q) = {}
    BY <1>0, <1>1 DEF Busy, Elems
  <1>3. pushed \subseteq ready
    BY <1>2 DEF Accounted
  <1>4. TypeOK'
    BY <1>0 DEF TypeOK, MainPc
  <1>5. UNCHANGED <<q, job, pushed, ready>> /\ \A w \in Workers : HasJob(w)' <=> HasJob(w)
    BY <1>0, <1>1 DEF HasJob
  <1>6. JobIsTask' /\ Accounted' /\ RunOnce'
    BY <1>5, QuietStep
  <1>7. Exclusive' /\ StopFlag' /\ WaitSeesQueue' /\ LeftNothing' /\ NoLostWakeup' /\ DestructorDrains'
    BY <1>0, <1>3 DEF Exclusive, StopFlag, WaitSeesQueue, LeftNothing, NoLostWakeup, DestructorDrains
  <1> QED BY <1>4, <1>6, <1>7

-----------------------------------------------------------------------------
LEMMA NextInv == Inv /\ [Next]_vars => Inv'
  <1> SUFFICES ASSUME Inv, [Next]_vars PROVE Inv'
    OBVIOUS
  <1>1. ASSUME NEW w \in Workers, WorkerStep(w) \/ SpuriousWake(w) \/ Spawn(w) PROVE Inv'
    BY <1>1, WorkerMoves, PopInv, RunInv DEF WorkerStep
  <1>2. ASSUME NEW t \in Tasks, Push(t) PROVE Inv'
    BY <1>2, PushInv
  <1>3. CASE Notify \/ BeginWait \/ EndWait \/ Stop \/ NotifyAll
    BY <1>3, MainMoves
  <1>4. CASE Destroy
    BY <1>4, DestroyInv
  <1>5. CASE UNCHANGED vars
    BY <1>5 DEF vars, Inv, TypeOK, Exclusive, StopFlag, JobIsTask, HasJob, Accounted, Busy, Elems,
              WaitSeesQueue, LeftNothing, RunOnce, NoLostWakeup, DestructorDrains
  <1> QED BY <1>1, <1>2, <1>3, <1>4, <1>5 DEF Next, Terminated

LEMMA Invariance == Spec => []Inv
  BY InitInv, NextInv, PTL DEF Spec

\* The variables stay within their types.
THEOREM TypeCorrect == Spec => []TypeOK
  <1>1. Inv => TypeOK
    BY DEF Inv
  <1> QED BY <1>1, Invariance, PTL

\* ~thread_pool runs every function that was pushed before it returns.
THEOREM Drains == Spec => []DestructorDrains
  <1>1. Inv => DestructorDrains
    BY DEF Inv
  <1> QED BY <1>1, Invariance, PTL

\* No function is taken by two workers or run again.
THEOREM RunsOnce == Spec => []RunOnce
  <1>1. Inv => RunOnce
    BY DEF Inv
  <1> QED BY <1>1, Invariance, PTL

\* Work in the queue always has a thread awake, or Main about to wake one.
THEOREM SomeoneAwake == Spec => []NoLostWakeup
  <1>1. Inv => NoLostWakeup
    BY DEF Inv
  <1> QED BY <1>1, Invariance, PTL

-----------------------------------------------------------------------------
(* The refinement: a function starts when a worker takes it from the queue *)
(* and is complete when its future is ready. Nothing else that happens in  *)
(* the pool can be told from outside.                                      *)

Jobs == {job[w] : w \in Busy}

\* A worker that has no function leaves room for one more.
LEMMA RoomForOne ==
    ASSUME NEW w \in Workers, w \notin Busy
    PROVE  Cardinality(Jobs) < Cardinality(Workers)
  <1> DEFINE f == [v \in Busy |-> job[v]]
  <1>1. IsFiniteSet(Workers \ {w}) /\ Cardinality(Workers \ {w}) = Cardinality(Workers) - 1
        /\ Cardinality(Workers) \in Nat
    BY WorkersAssumption, FS_RemoveElement, FS_CardinalityType
  <1>2. Busy \in SUBSET (Workers \ {w})
    BY DEF Busy
  <1>3. IsFiniteSet(Busy) /\ Cardinality(Busy) <= Cardinality(Workers \ {w})
    BY <1>1, <1>2, FS_Subset
  <1>4. f \in Surjection(Busy, Jobs)
    BY DEF Jobs, Surjection
  <1>5. IsFiniteSet(Jobs) /\ Cardinality(Jobs) <= Cardinality(Busy)
    BY <1>3, <1>4, FS_Surjection
  <1>6. Cardinality(Jobs) \in Nat /\ Cardinality(Busy) \in Nat
    BY <1>3, <1>5, FS_CardinalityType
  <1> QED BY <1>1, <1>3, <1>5, <1>6

\* What has been pushed, as the abstract queue sees it.
LEMMA PushedMaps == ASSUME Inv PROVE Queue!Pushed = pushed
  <1>1. Queue!Pushed = Elems(q) \cup Jobs \cup ready
    BY DEF Queue!Pushed, Elems, Jobs
  <1>2. Jobs \subseteq pushed
    BY DEF Inv, JobIsTask, HasJob, Busy, Jobs
  <1> QED BY <1>1, <1>2 DEF Inv, Accounted, Jobs

LEMMA QueueStepMaps == Inv /\ [Next]_vars => [Queue!TQNext]_(Queue!tqvars)
  <1> SUFFICES ASSUME Inv, Next PROVE Queue!TQNext \/ UNCHANGED Queue!tqvars
    BY DEF vars, Queue!tqvars, Busy
  <1> USE DEF Inv
  <1>t. /\ q \in Seq(Tasks) /\ job \in [Workers -> Tasks \cup {NoTask}]
        /\ wpc \in [Workers -> WorkerPc]
    BY DEF TypeOK
  <1>q. ASSUME UNCHANGED <<q, job, ready>>, \A w \in Workers : HasJob(w)' <=> HasJob(w),
               (mpc' = "destroyed") <=> (mpc = "destroyed")
        PROVE  UNCHANGED Queue!tqvars
    <2>1. Busy' = Busy
      BY <1>q DEF Busy, HasJob
    <2> QED BY <1>q, <2>1 DEF Queue!tqvars
  <1>1. ASSUME NEW w \in Workers, Lock(w) \/ Decide(w) \/ Leave(w) \/ Reacquire(w) \/ SpuriousWake(w) \/ Spawn(w)
        PROVE  UNCHANGED Queue!tqvars
    <2>1. UNCHANGED <<q, job, ready>> /\ \A v \in Workers : HasJob(v)' <=> HasJob(v)
      BY <1>1, <1>t DEF Lock, Decide, Leave, Reacquire, SpuriousWake, Spawn, Goto, HasJob
    <2>2. (mpc' = "destroyed") <=> (mpc = "destroyed")
      BY <1>1 DEF Lock, Decide, Leave, Reacquire, SpuriousWake, Spawn
    <2> QED BY <1>q, <2>1, <2>2
  <1>2. ASSUME NEW w \in Workers, Pop(w) \/ PredPop(w)
        PROVE  Queue!TQNext \/ UNCHANGED Queue!tqvars
    <2>1. PICK found \in {"run", "leave"}, empty \in WorkerPc \ {"run", "leave"} : PopInto(w, found, empty)
      BY <1>2 DEF Pop, PredPop, WorkerPc
    <2>2. wpc[w] \in {"pop", "pred"} /\ UNCHANGED <<ready, mpc>>
      BY <1>2 DEF Pop, PredPop
    <2>3. CASE q = <<>>
      <3>1. /\ UNCHANGED q
            /\ \A v \in Workers \ {w} : job'[v] = job[v] /\ wpc'[v] = wpc[v]
            /\ wpc'[w] = empty
        BY <1>t, <2>1, <2>3 DEF PopInto, Goto
      <3>2. Busy' = Busy /\ w \notin Busy
        BY <2>2, <3>1 DEF Busy
      <3>3. {job'[v] : v \in Busy'} = {job[v] : v \in Busy}
        BY <3>1, <3>2 DEF Busy
      <3> QED BY <2>2, <3>1, <3>3 DEF Queue!tqvars
    <2>4. CASE q # <<>>
      <3>1. /\ q' = Tail(q)
            /\ \A v \in Workers \ {w} : job'[v] = job[v] /\ wpc'[v] = wpc[v]
            /\ wpc'[w] = found /\ job'[w] = Head(q)
        BY <1>t, <2>1, <2>4 DEF PopInto, Goto
      <3>2. Busy' = Busy \cup {w} /\ w \notin Busy
        BY <2>2, <3>1 DEF Busy
      <3>3. {job'[v] : v \in Busy'} = {job[v] : v \in Busy} \cup {Head(q)}
        BY <3>1, <3>2 DEF Busy
      <3>4. Cardinality({job[v] : v \in Busy}) < Cardinality(Workers)
        BY <3>2, RoomForOne DEF Jobs
      <3>5. ((mpc # "destroyed")') <=> (mpc # "destroyed")
        BY <2>2
      <3>6. ready' = ready
        BY <2>2
      <3>7. Queue!Cardinality({job[v] : v \in Busy}) = Cardinality({job[v] : v \in Busy})
        BY DEF Queue!Cardinality, Cardinality
      <3>8. Queue!Start
        BY <2>4, <3>1, <3>3, <3>4, <3>5, <3>6, <3>7 DEF Queue!Start
      <3> QED BY <3>8 DEF Queue!TQNext
    <2> QED BY <2>3, <2>4
  <1>3. ASSUME NEW w \in Workers, Run(w) PROVE Queue!TQNext
    <2>1. /\ wpc[w] = "run" /\ ready' = ready \cup {job[w]} /\ UNCHANGED <<q, job, mpc>>
          /\ wpc'[w] = "pop" /\ \A v \in Workers \ {w} : wpc'[v] = wpc[v]
      BY <1>3, <1>t DEF Run, Goto
    <2>2. w \in Busy /\ Busy' = Busy \ {w}
      BY <2>1 DEF Busy
    <2>3. \A v \in Busy \ {w} : job[v] # job[w]
      BY <2>1 DEF RunOnce, Busy
    <2>4. {job'[v] : v \in Busy'} = {job[v] : v \in Busy} \ {job[w]}
      BY <2>1, <2>2, <2>3
    <2>5. job[w] \in {job[v] : v \in Busy}
      BY <2>2
    <2>6. job[w] \in Tasks
      BY <2>1 DEF JobIsTask, HasJob, TypeOK
    <2>7. PICK t \in Tasks : t = job[w]
      BY <2>6
    <2>8. Queue!Complete(t)
      BY <2>1, <2>4, <2>5, <2>7 DEF Queue!Complete
    <2> QED BY <2>8 DEF Queue!TQNext
  <1>4. ASSUME NEW t \in Tasks, Push(t) PROVE Queue!TQNext
    <2>1. /\ mpc = "user" /\ mpc' = "notify" /\ t \notin pushed /\ q' = Append(q, t)
          /\ UNCHANGED <<wpc, job, ready>>
      BY <1>4 DEF Push
    <2>2. {job'[v] : v \in Busy'} = {job[v] : v \in Busy}
      BY <2>1 DEF Busy
    <2>3. t \notin Queue!Pushed
      BY <2>1, PushedMaps
    <2>4. Queue!Submit(t)
      BY <2>1, <2>2, <2>3 DEF Queue!Submit
    <2> QED BY <2>4 DEF Queue!TQNext
  <1>5. CASE Notify \/ BeginWait \/ EndWait \/ Stop \/ NotifyAll
    <2>1. UNCHANGED <<q, job, ready>> /\ \A v \in Workers : HasJob(v)' <=> HasJob(v)
      BY <1>5, <1>t DEF Notify, BeginWait, EndWait, Stop, NotifyAll, Goto, HasJob
    <2>2. mpc' # "destroyed" /\ mpc # "destroyed"
      BY <1>5 DEF Notify, BeginWait, EndWait, Stop, NotifyAll
    <2> QED BY <1>q, <2>1, <2>2
  <1>6. CASE Destroy
    <2>1. /\ mpc = "join" /\ mpc' = "destroyed" /\ q' = <<>> /\ UNCHANGED <<wpc, job, ready>>
          /\ \A w \in Workers : wpc[w] = "exited"
      BY <1>6 DEF Destroy
    <2>2. q = <<>>
      BY <2>1, WorkersAssumption DEF LeftNothing
    <2>3. Busy = {} /\ Busy' = {}
      BY <2>1 DEF Busy
    <2>4. Queue!Pushed = ready
      BY <2>2, <2>3 DEF Queue!Pushed
    <2>5. Queue!Dispose
      BY <2>1, <2>2, <2>3, <2>4 DEF Queue!Dispose
    <2> QED BY <2>5 DEF Queue!TQNext
  <1>7. CASE Terminated
    BY <1>7 DEF Terminated, vars, Queue!tqvars, Busy
  <1> QED BY <1>1, <1>2, <1>3, <1>4, <1>5, <1>6, <1>7 DEF Next, WorkerStep

\* The pool implements the task queue, for any number of threads and functions, as far
\* as safety goes: functions start in the order of the pushes, once each, at most one
\* for every thread, and the destructor returns when all are complete.
THEOREM Refinement == Spec => Queue!TQSafety
  <1>1. Init => Queue!TQInit
    BY DEF Init, Busy, Queue!TQInit
  <1> QED BY <1>1, QueueStepMaps, Invariance, PTL DEF Spec, Queue!TQSafety
=============================================================================
