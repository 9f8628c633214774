---------------------------- MODULE MCDfsPart1 -----------------------------
(* DfsPart1 for TLC. *)
EXTENDS DfsPart1, TLC

CONSTANTS file, folder

AllCommands ==
  {<<"store", file>>, <<"fetch", file>>, <<"delete", file>>, <<"store", folder>>, <<"fetch", folder>>,
   <<"delete", folder>>, <<"stat", file>>, <<"list", None>>}
=============================================================================
