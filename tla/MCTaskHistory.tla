--------------------------- MODULE MCTaskHistory ---------------------------
(***************************************************************************)
(* A task that is never deferred and one that soon is, at each mode; an    *)
(* estimate that turns out too high, right or too low.                     *)
(***************************************************************************)
EXTENDS TaskHistory
MCPriority == "release" :> 0 @@ "docs" :> 3
MCReadings ==
    {[level |-> 10, confidence |-> "ESTIMATED"], [level |-> 11, confidence |-> "ESTIMATED"],
     [level |-> 14, confidence |-> "STALE"], [level |-> 90, confidence |-> "EXACT"]}
Symmetry == Permutations(Agents)
=============================================================================
