---------------------------- MODULE MCThreadPool ----------------------------
(***************************************************************************)
(* Small instances of ThreadPool: two workers, the last job belongs to the *)
(* second one.                                                             *)
(***************************************************************************)
EXTENDS ThreadPool, TLC

CONSTANTS t1, t2, j1, j2, j3, w1, w2

TwoThreads == {t1, t2}
TwoJobs    == {j1, j2}
ThreeJobs  == {j1, j2, j3}
TwoWorkers == {w1, w2}
FirstWorker == {w1}
FirstJob   == {j1}
FirstJobs  == {j1, j2}

LastOfSecond == [j \in Jobs |-> IF j = j3 THEN w2 ELSE w1]

NoneOf    == {}
ForceStop == {"forceStop"}
BothStops == {"forceStop", "waitAll"}

Symmetry == Permutations(Threads)
=============================================================================
