--------------------------- MODULE MCDrcWorkerClient ---------------------------
(* TLC instances of DrcWorkerClient: the runs.         *)
EXTENDS DrcWorkerClient

CONSTANTS r1, r2, r3

ThreeRuns == {r1, r2, r3}
===============================================================================
