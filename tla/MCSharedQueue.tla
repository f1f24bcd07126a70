--------------------------- MODULE MCSharedQueue ---------------------------
(* Small instances of SharedQueue for TLC. *)
EXTENDS SharedQueue, TLC

CONSTANTS r1, r2, w1, w2, w3

TwoRequests == {r1, r2}
NoWorker == {}
OneWorker == {w1}
TwoWorkers == {w1, w2}
ThreeWorkers == {w1, w2, w3}

\* Requests are interchangeable in every run; workers are not (Booted,
\* MayCrash).  Used only where no liveness property is checked.
RequestSymmetry == Permutations(Requests)
=============================================================================
