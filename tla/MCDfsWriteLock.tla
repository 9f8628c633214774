--------------------------- MODULE MCDfsWriteLock ---------------------------
(* Instances of DfsWriteLock for TLC: a version of two chunks, one of one chunk
   and an empty one. *)
EXTENDS DfsWriteLock, TLC

CONSTANTS v_long, v_short, v_empty

Chunks == [v \in Versions |-> IF v = v_long THEN 2 ELSE IF v = v_short THEN 1 ELSE 0]

DfsSymmetry == Permutations(Clients) \union Permutations(Calls)
=============================================================================
