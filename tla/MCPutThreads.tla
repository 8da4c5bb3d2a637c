---------------------------- MODULE MCPutThreads ----------------------------
(* An instance of PutThreads for TLC: main, and the threads of two puts. *)
EXTENDS PutThreads

MainAndPuts == 0 .. 2
=============================================================================
