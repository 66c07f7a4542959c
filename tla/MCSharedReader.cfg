CONSTANTS
    Threads = {r1, r2, r3}
    FileSize = 2
    Free = Free
    Requests <- MCRequests
SYMMETRY Symmetry
SPECIFICATION Spec
INVARIANTS OwnBytes
PROPERTIES FailureIsFinal ImplementsAtomicFile
