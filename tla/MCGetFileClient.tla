-------------------------- MODULE MCGetFileClient --------------------------
(* Instances of GetFileClient for TLC: a workload of one path, so that only
   the counter tells two local files apart. *)
EXTENDS GetFileClient, TLC

CONSTANT p

OnePath == <<p>>
=============================================================================
