SPECIFICATION Spec
CONSTANTS
    w1 = w1
    w2 = w2
    t1 = t1
    t2 = t2
    NoWorker = NoWorker
    Workers <- TwoWorkers
    Threads <- TwoThreads
    LeaseSeconds = 1
    RetryDelay = 1
    RetryLimit = 1
    MaxClaimed = 1
    MaxNow = 2
SYMMETRY WorkerAndThreadSymmetry
INVARIANTS
    RunningLimit
    NothingMissed
PROPERTIES
    NeverBackwards
