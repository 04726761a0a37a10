SPECIFICATION Spec
CONSTANTS
    t1 = t1  t2 = t2
    j1 = j1  j2 = j2  j3 = j3
    w1 = w1  w2 = w2
    NoJob = NoJob
    Threads <- TwoThreads
    Jobs <- ThreeJobs
    Workers <- TwoWorkers
    FromWorker <- LastOfSecond
    Endless <- FirstJob
    Removable <- FirstWorker
    Stops <- BothStops
INVARIANTS IInv NoMissedAbort
PROPERTIES AbortOnlyUnfenced ImplementsLifecycle
SYMMETRY Symmetry
CHECK_DEADLOCK FALSE
