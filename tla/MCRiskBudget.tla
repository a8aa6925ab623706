---------------------------- MODULE MCRiskBudget ----------------------------
(***************************************************************************)
(* Two processes over the shipped budget and thresholds, with two of the   *)
(* shipped operations: 40 + 20 leaves 40, the approval threshold, and a    *)
(* third repeat of ci_configuration (20 + 2 * 5) leaves 10, the deny one.  *)
(***************************************************************************)
EXTENDS RiskBudget, TLC

MCOperations == {"ci_configuration", "dangerous_operation"}
MCWeights == [o \in MCOperations |-> IF o = "ci_configuration" THEN 20 ELSE 40]
MCSymmetry == Permutations(Procs)
=============================================================================
