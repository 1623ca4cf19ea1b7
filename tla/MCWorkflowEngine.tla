------------------------- MODULE MCWorkflowEngine -------------------------
(* Symmetry for the TLC runs of WorkflowEngine.                            *)
EXTENDS WorkflowEngine, TLC

Symmetry == Permutations(Workflows) \cup Permutations(Threads)
=============================================================================
