--------------------------- MODULE MCTaskPipeline ---------------------------
(***************************************************************************)
(* Instances of TaskPipeline.                                              *)
(***************************************************************************)
EXTENDS TaskPipeline, TLC

CONSTANTS n1, n2

Most == [edit |-> 3, net |-> 1, crash |-> 1, setup |-> 1]
=============================================================================
