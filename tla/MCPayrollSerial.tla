--------------------------- MODULE MCPayrollSerial ---------------------------
(* Symmetry for the TLC runs of PayrollSerial.                             *)
EXTENDS PayrollSerial, TLC

ASSUME OneHandlerAssumption == OneHandler

Symmetry == Permutations(RunIds) \cup Permutations(Periods)
              \cup Permutations(PayoutKeys)
=============================================================================
