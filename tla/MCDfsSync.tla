----------------------------- MODULE MCDfsSync -----------------------------
(* DfsSync for TLC. *)
EXTENDS DfsSync, TLC

AllCommands == {"fetch", "store", "delete"}
=============================================================================
