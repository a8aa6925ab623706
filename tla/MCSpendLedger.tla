--------------------------- MODULE MCSpendLedger ---------------------------
EXTENDS SpendLedger, TLC
MCPermission == [r \in Requests |-> IF r = "deploy" THEN "approve" ELSE "pass"]
MCRisk == [r \in Requests |-> "pass"]
MCScope == [r \in Requests |-> IF r = "secrets" THEN "deny" ELSE "pass"]
MCEstimate == [r \in Requests |-> IF r = "edit" THEN 1 ELSE 3]
MCSymmetry == Permutations(Agents)
=============================================================================
