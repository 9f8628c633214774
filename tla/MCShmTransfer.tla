--------------------------- MODULE MCShmTransfer ---------------------------
(* Instances of ShmTransfer for TLC.  The paths: a file that needs a full and a
   partial chunk, an empty file, on which fstat may fail, and a path that is not
   cached. *)
EXTENDS ShmTransferInv, TLC

CONSTANTS p_long, p_empty, p_miss

AllPaths == {p_long, p_empty, p_miss}

Length(p) == IF p = p_long THEN 3 ELSE 0
AllFiles == [p \in {p_long, p_empty} |-> Length(p)]

BadFiles == {p_empty}
=============================================================================
