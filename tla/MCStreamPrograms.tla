-------------------------- MODULE MCStreamPrograms --------------------------
(* A small instance of StreamPrograms: all programs, two clients.          *)
EXTENDS StreamPrograms

AllPrograms == {"echo", "transfer", "getfile"}
SmallFiles == {<< >>, <<"a", "a", "a", "a">>, <<"nl", "a", "nl">>, <<"nul", "a">>}
SmallMessages == {<< >>, <<"a", "a">>, <<"a", "a", "a", "a">>}
=============================================================================
