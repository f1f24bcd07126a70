----------------------------- MODULE MCWorkerPool -----------------------------
(* Instances of WorkerPool for TLC.                                        *)
EXTENDS WorkerPool

SomeSlots == 1 .. 4
SomeIndexes == 0 .. 2
=============================================================================
