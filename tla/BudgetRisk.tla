----------------------------- MODULE BudgetRisk -----------------------------
(***************************************************************************)
(* Budget (core/budget.py) and RiskEngine.assess (core/risk.py), in whole  *)
(* percents: the mode the executor, the decorator and the decision engine  *)
(* all start from.                                                         *)
(***************************************************************************)
EXTENDS Integers

CONSTANTS Tasks,                   \* given to run, decided about, or decorated
          Margin, CautionPercent,  \* config.safety_margin, config.caution_ratio
          None                     \* a field, a reading or a job that is not there

ASSUME RiskAssumption == Margin \in Nat /\ CautionPercent \in 1..100

Modes == {"SAFE", "CAUTION", "LIMITED", "CRITICAL"}

Usable_IgnoresMargin(percentage) == percentage

Usable(percentage) == IF percentage > Margin THEN percentage - Margin ELSE 0

Exhausted(percentage) == percentage <= Margin

(* RiskEngine.assess *)
Mode(percentage, required, stale) ==
    IF Exhausted(percentage) THEN "CRITICAL"
    ELSE IF required > Usable(percentage) THEN "LIMITED"
    ELSE IF required * 100 < CautionPercent * Usable(percentage) /\ ~stale THEN "SAFE"
    ELSE "CAUTION"
=============================================================================
