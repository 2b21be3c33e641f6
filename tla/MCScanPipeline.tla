--------------------------- MODULE MCScanPipeline ---------------------------
(* ScanPipeline on two scans, one of them published twice, and a poison message. *)
EXTENDS ScanPipeline, TLC

CONSTANTS t1, t2, w1, w2

TwoWorkers == {w1, w2}
OneWorker == {w1}
AllFaults == FaultKinds
PoolFaults == {"redis", "pg", "rebalance"}
NoFaults == {}
CrashOnly == {"crash"}

OneTrace == {t1}
TwoTraces == {t1, t2}
Symmetry == Permutations(TwoWorkers)
=============================================================================
