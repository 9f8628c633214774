--------------------------- MODULE MCGetFileServer ---------------------------
(* A small instance of GetFileServer: two workers, paths 1 to 3.          *)
EXTENDS GetFileServer

SmallSizes == {1, 3}
SmallContents == {[list |-> <<2, 1>>, size |-> <<3, 1, 1>>], [list |-> << >>, size |-> <<1, 1, 1>>]}
=============================================================================
