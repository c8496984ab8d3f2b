--------------------------- MODULE MCWorkflowJobs ---------------------------
(* Instances of WorkflowJobs for TLC. *)
EXTENDS WorkflowJobs, TLC
=============================================================================
