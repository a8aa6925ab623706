-------------------------- MODULE MCUsageDecision --------------------------
(***************************************************************************)
(* Levels: exhausted; 13, where the small task's  *)
(* cost is exactly half of what is usable; 40, short of the large one and  *)
(* ample for the small; 100.  "small" is understood so poorly that a stale *)
(* reading tips it into asking (the weakest classification, 0.233, without *)
(* a file that matches); "vague" was not classified; "large" is the        *)
(* confident, complex task.                                                *)
(***************************************************************************)
EXTENDS UsageDecision

MCTasks == {"small", "large", "vague"}
MCRequired == [t \in MCTasks |-> CASE t = "small" -> 5 [] t = "large" -> 45 [] t = "vague" -> 5]
MCComplexity == [t \in MCTasks |-> CASE t = "small" -> 10 [] t = "large" -> 80 [] t = "vague" -> 50]
MCUnderstood == [t \in MCTasks |-> CASE t = "small" -> 583 [] t = "large" -> 1500 [] t = "vague" -> 850]
MCClassified == [t \in MCTasks |-> t # "vague"]
=============================================================================
