\* Three threads, three functions, one spurious wakeup. No symmetry: there are
\* liveness properties.
CONSTANTS
    Workers = {w1, w2, w3}
    Tasks = {t1, t2, t3}
    Main = Main
    NoTask = NoTask
    Free = Free
    MaxSpurious = 1
SPECIFICATION Spec
INVARIANTS RunOnce NoLostWakeup DestructorDrains
PROPERTIES EveryTaskRuns DestructorReturns ImplementsTaskQueue
