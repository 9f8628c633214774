---------------------------- MODULE MCIpcRestart ----------------------------
(* A small instance of IpcRestart: one segment, a cached path and a miss.  *)
EXTENDS IpcRestart

OneLocal == <<1>>
=============================================================================
