---------------------------- MODULE MCFdTable ----------------------------
(* A server and one process it forks. *)
EXTENDS FdTable

CONSTANT child
MCProcs == {parent, child}
=============================================================================
