---------------------------- MODULE MCMemoryJobs ----------------------------
EXTENDS MemoryJobs, TLC

CONSTANTS w1, w2, t1, t2

OneWorker == {w1}
TwoWorkers == {w1, w2}
OneThread == {t1}
TwoThreads == {t1, t2}

WorkerSymmetry == Permutations(TwoWorkers)
WorkerAndThreadSymmetry == WorkerSymmetry \cup Permutations(TwoThreads)
=============================================================================
