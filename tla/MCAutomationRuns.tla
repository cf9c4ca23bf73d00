-------------------------- MODULE MCAutomationRuns --------------------------
(* Small instances of AutomationRuns for TLC. *)
EXTENDS AutomationRuns, TLC

WorkerSymmetry == Permutations(Workers)
=============================================================================
