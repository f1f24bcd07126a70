--------------------------- MODULE MCLaneDispatch ---------------------------
(* Small instances of LaneDispatch for TLC. *)
EXTENDS LaneDispatch, TLC

CONSTANTS r1, r2

TwoRequests == {r1, r2}
NoSlot == {}
FirstSlot == {1}

\* Requests are interchangeable; used only where no liveness is checked.
RequestSymmetry == Permutations(Requests)
=============================================================================
