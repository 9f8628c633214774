--------------------------- MODULE MCSegmentPool ---------------------------
(* SegmentPool for TLC: the workers are interchangeable. *)
EXTENDS SegmentPool, TLC

WorkerSymmetry == Permutations(Workers)
=============================================================================
