-------------------------- MODULE MCWorkflowRunner --------------------------
(***************************************************************************)
(* WorkflowRunner for TLC: jobs and executors are interchangeable in the   *)
(* runs that check safety only.                                            *)
(***************************************************************************)
EXTENDS WorkflowRunner, TLC

Symmetry == Permutations(Jobs) \cup Permutations(Workers)
=============================================================================
