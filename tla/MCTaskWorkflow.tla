--------------------------- MODULE MCTaskWorkflow ---------------------------
(* Instances of TaskWorkflow: the task is a model value.                     *)
EXTENDS TaskWorkflow

CONSTANT t1
=============================================================================
