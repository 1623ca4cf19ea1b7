-------------------------- MODULE MCAutonomousRunner --------------------------
(* Two tasks, a custom one on an interval and one that runs once.          *)
EXTENDS AutonomousRunner, TLC

CONSTANTS daily, single

MCTrigger == [t \in Tasks |-> IF t = daily THEN "interval" ELSE "once"]
MCSymmetry == Permutations(Loops) \cup Permutations(Executions)
=============================================================================
