--------------------------- MODULE MCPayrollRuns ---------------------------
(* Constants and symmetry for the TLC runs of PayrollRuns.                 *)
EXTENDS PayrollRuns, TLC

Symmetry == Permutations(Handlers) \cup Permutations(RunIds)
              \cup Permutations(Periods) \cup Permutations(PayoutKeys)
=============================================================================
