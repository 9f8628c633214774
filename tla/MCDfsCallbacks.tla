-------------------------- MODULE MCDfsCallbacks --------------------------
(* DfsCallbacks for TLC: the directory is read in the order f, g. *)
EXTENDS DfsCallbacks, TLC

CONSTANTS f, g

TwoFiles == <<f, g>>
=============================================================================
