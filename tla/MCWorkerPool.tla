--------------------------- MODULE MCWorkerPool ---------------------------
(* Instances of WorkerPool for TLC.                                         *)
EXTENDS WorkerPool

CONSTANTS j1, j2, j3, j4

===========================================================================
