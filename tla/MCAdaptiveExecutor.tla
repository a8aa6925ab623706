------------------------- MODULE MCAdaptiveExecutor -------------------------
(***************************************************************************)
(* Two tasks and a decorated function.  "feature" has three units of the   *)
(* shipped example plan, 24 points in all, not in the order of priority;   *)
(* "tidy" one unit that declares no cost.  The budgets: exhausted; short   *)
(* of the first unit; the 12 of tests/test_executor.py, which runs out     *)
(* after the first; the plan's cost but not the margin; both exactly; all. *)
(***************************************************************************)
EXTENDS AdaptiveExecutor

MCPlan == [j \in Jobs |-> CASE j = "feature" -> <<"docs", "core", "tests">>
                            [] j = "tidy" -> <<"cleanup">>
                            [] j = "auto_1" -> <<"refactor">>]
MCUnits == {"core", "tests", "docs", "cleanup", "refactor"}
MCPriority == [u \in MCUnits |-> CASE u = "core" -> 0 [] u = "tests" -> 1 [] u = "docs" -> 4
                                   [] OTHER -> 2]
MCCost == [u \in MCUnits |-> CASE u = "core" -> 10 [] u = "tests" -> 8 [] u = "docs" -> 6
                               [] OTHER -> 0]
=============================================================================
