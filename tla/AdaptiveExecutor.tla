-------------------------- MODULE AdaptiveExecutor --------------------------
(***************************************************************************)
(* AdaptiveExecutor (core/executor.py), the CheckpointManager it saves      *)
(* deferred work with (core/checkpoint.py) and the callers that share its  *)
(* one .goldenboy/checkpoint.json: "goldenboy run" and "goldenboy resume"  *)
(* (cli.py), which let a MockProvider execute the units of a plan, and an  *)
(* agent whose functions are decorated with budget_aware_execution         *)
(* (integration.py), which runs at the same time and may raise.  Either     *)
(* process can be killed at any step.                                      *)
(***************************************************************************)
EXTENDS BudgetRisk, FiniteSets, Sequences, FiniteSetsExt, SequencesExt

CONSTANTS Calls,                       \* decorated functions (Tasks are given to run); each is the task auto_<unit_id>
          Units, Plan,                 \* Plan[job] is the job's sequence of ExecutionUnits
          Priority, Cost,              \* of a unit; a cost of 0 is "none declared"
          CostPerUnit,                 \* MockProvider.cost_per_unit
          BaseCost,                    \* config.base_cost_per_unit
          Budgets,                     \* remaining percentages a provider reports
          NoCheckpoint, Corrupt,       \* no file; one that load() raises CheckpointError for
          MaxCommands                  \* bound on the runs, resumes and calls

Jobs == Tasks \cup Calls

UnitsOf(job) == ToSet(Plan[job])

ASSUME PlanAssumption ==
    /\ Tasks \cap Calls = {} /\ None \notin Jobs
    /\ Plan \in [Jobs -> Seq(Units)]
    /\ \A job \in Jobs : Plan[job] # <<>> /\ IsInjective(Plan[job])
    /\ \A job1, job2 \in Jobs : job1 = job2 \/ UnitsOf(job1) \cap UnitsOf(job2) = {}
    /\ \A call \in Calls : Len(Plan[call]) = 1 /\ Cost[Plan[call][1]] = 0

ASSUME CostAssumption ==
    /\ Priority \in [Units -> 0..4] /\ Cost \in [Units -> Nat]
    /\ CostPerUnit \in Nat /\ BaseCost \in Nat
    /\ Budgets \subseteq 0..100 /\ MaxCommands \in Nat

Statuses == {"pending", "completed", "deferred"}

Documents ==
    UNION {[job : {j}, mode : Modes, status : [UnitsOf(j) -> Statuses]] : j \in Jobs}

ASSUME FileAssumption ==
    NoCheckpoint \notin Documents /\ Corrupt \notin Documents /\ NoCheckpoint # Corrupt

VARIABLES checkpoint,  \* NoCheckpoint, Corrupt or the saved job, mode and statuses
          pc, job,     \* the command line: what it does ("idle" ...), and for which job
          status,      \* unit -> status, for the units of its plan
          mode,        \* the ExecutionMode its plan was adapted to
          remaining,   \* what its MockProvider has left
          call,        \* the decorated function the agent is in, or None
          agent,       \* "idle", "working" (in the function), "saving" (deferred or raised)
          callMode,    \* the ExecutionMode of that call
          started,     \* history: how often a job was started from its plan
          executed,    \* history: how often a unit was executed
          owed,        \* history: the units deferred and not executed since
          crashed,     \* history: the jobs a killed command line was working on
          commands

cli == <<pc, job, status, mode, remaining>>
decorated == <<call, agent, callMode>>
history == <<started, executed, owed, crashed, commands>>
vars == <<checkpoint, cli, decorated, history>>

-----------------------------------------------------------------------------
Having(statuses, s) == {u \in DOMAIN statuses : statuses[u] = s}

(* Estimator.estimate_plan *)
Estimated(pending) ==
    LET declared == MapThenSumSet(LAMBDA u : Cost[u], pending)
    IN  IF declared = 0 THEN Cardinality(pending) * BaseCost ELSE declared

(* The units adapt_plan defers. *)
Sheds(m, u) == \/ m = "LIMITED" /\ Priority[u] >= 3
               \/ m = "CRITICAL" /\ Priority[u] # 0

Adapted(statuses, m) ==
    [u \in DOMAIN statuses |->
        IF statuses[u] = "pending" /\ Sheds(m, u) THEN "deferred" ELSE statuses[u]]

FreshPlan(j) == [u \in UnitsOf(j) |-> "pending"]

ResumedPlan_AllAgain(statuses) == [u \in DOMAIN statuses |-> "pending"]

(* resume: what was deferred is pending again, what was completed stays.   *)
ResumedPlan(statuses) ==
    [u \in DOMAIN statuses |-> IF statuses[u] = "deferred" THEN "pending" ELSE statuses[u]]

Saved(j, m, statuses) == [job |-> j, mode |-> m, status |-> statuses]

IsDocument(c) == c \notin {NoCheckpoint, Corrupt}

ChargeOf(u) == IF Cost[u] > 0 THEN Cost[u] ELSE CostPerUnit

(* MockProvider.execute_unit checks before it spends. *)
Affords(percentage, u) == percentage >= ChargeOf(u)

Outcome_Completed(success) == "completed"

Outcome(success) == IF success THEN "completed" ELSE "deferred"

AfterUnit_LeavesPending(statuses, percentage) == statuses

(* The graceful stop: an exhausted budget defers everything still pending. *)
AfterUnit(statuses, percentage) ==
    IF Exhausted(percentage)
    THEN [v \in DOMAIN statuses |-> IF statuses[v] = "pending" THEN "deferred" ELSE statuses[v]]
    ELSE statuses

-----------------------------------------------------------------------------
Init == /\ checkpoint = NoCheckpoint
        /\ pc = "idle" /\ job = None /\ status = <<>> /\ mode = "SAFE" /\ remaining = 0
        /\ call = None /\ agent = "idle" /\ callMode = "SAFE"
        /\ started = [j \in Jobs |-> 0]
        /\ executed = [u \in Units |-> 0]
        /\ owed = {} /\ crashed = {} /\ commands = 0

(* execute() up to its loop: assess and adapt the plan. *)
Execute(j, statuses) ==
    /\ pc = "idle" /\ commands < MaxCommands
    /\ commands' = commands + 1
    /\ job' = j
    /\ remaining' \in Budgets
    /\ mode' = Mode(remaining', Estimated(Having(statuses, "pending")), FALSE)
    /\ status' = Adapted(statuses, mode')
    /\ pc' = IF Having(status', "pending") = {} THEN "finishing" ELSE "executing"

Run(t) ==
    /\ Execute(t, FreshPlan(t))
    /\ started' = [started EXCEPT ![t] = @ + 1]
    /\ UNCHANGED <<checkpoint, decorated, executed, owed, crashed>>

Resume_Consumes ==
    /\ IsDocument(checkpoint) /\ Having(checkpoint.status, "deferred") # {}
    /\ Execute(checkpoint.job, ResumedPlan(checkpoint.status))
    /\ checkpoint' = NoCheckpoint
    /\ UNCHANGED <<decorated, started, executed, owed, crashed>>

(* resume_cmd.  Without a checkpoint, with one that cannot be read or with *)
(* one that defers nothing it changes nothing.                             *)
Resume ==
    /\ IsDocument(checkpoint) /\ Having(checkpoint.status, "deferred") # {}
    /\ Execute(checkpoint.job, ResumedPlan(checkpoint.status))
    /\ UNCHANGED <<checkpoint, decorated, started, executed, owed, crashed>>

(* The loop takes the units in the order of the plan, whatever their       *)
(* priority, and passes over those already decided.                        *)
IsNext(u) ==
    \E n \in 1..Len(Plan[job]) :
        /\ u = Plan[job][n] /\ status[u] = "pending"
        /\ \A m \in 1..(n - 1) : status[Plan[job][m]] # "pending"

(* The loop body. *)
ExecuteUnit ==
    /\ pc = "executing"
    /\ \E u \in UnitsOf(job) :
          LET success == Affords(remaining, u)
          IN  /\ IsNext(u)
              /\ remaining' = IF success THEN remaining - ChargeOf(u) ELSE 0
              /\ status' = AfterUnit([status EXCEPT ![u] = Outcome(success)], remaining')
              /\ executed' = [executed EXCEPT ![u] = IF success THEN @ + 1 ELSE @]
              /\ owed' = IF success THEN owed \ {u} ELSE owed
    /\ pc' = IF Exhausted(remaining') \/ Having(status', "pending") = {}
             THEN "finishing" ELSE "executing"
    /\ UNCHANGED <<checkpoint, job, mode, decorated, started, crashed, commands>>

CommandEnds == /\ pc' = "idle" /\ job' = None /\ status' = <<>> /\ mode' = "SAFE" /\ remaining' = 0
               /\ UNCHANGED <<decorated, started, executed, commands>>

(* The end of execute(): save what is deferred, or clear the checkpoint.   *)
Finish ==
    /\ pc = "finishing"
    /\ checkpoint' = IF Having(status, "deferred") # {} THEN Saved(job, mode, status)
                     ELSE NoCheckpoint
    /\ owed' = owed \cup Having(status, "deferred")
    /\ UNCHANGED crashed
    /\ CommandEnds

(* The process is killed, at worst between emptying the checkpoint file    *)
(* and writing it.                                                         *)
Crash ==
    /\ pc # "idle"
    /\ \/ UNCHANGED checkpoint
       \/ pc = "finishing" /\ Having(status, "deferred") # {} /\ checkpoint' = Corrupt
    /\ crashed' = crashed \cup {job}
    /\ UNCHANGED owed
    /\ CommandEnds

-----------------------------------------------------------------------------
UnitOf(c) == Plan[c][1]

(* The wrapper assesses the call like a plan of its one unit, which        *)
(* declares no cost, and calls the function or defers.                     *)
CallFunction(c) ==
    /\ agent = "idle" /\ commands < MaxCommands
    /\ commands' = commands + 1
    /\ call' = c
    /\ \E percentage \in Budgets, stale \in BOOLEAN :
          callMode' = Mode(percentage, Estimated({UnitOf(c)}), stale)
    /\ agent' = IF Sheds(callMode', UnitOf(c)) THEN "saving" ELSE "working"
    /\ started' = [started EXCEPT ![c] = @ + 1]
    /\ UNCHANGED <<checkpoint, cli, executed, owed, crashed>>

CallEnds == /\ call' = None /\ agent' = "idle" /\ callMode' = "SAFE"
            /\ UNCHANGED <<cli, started, crashed, commands>>

FunctionReturns ==
    /\ agent = "working"
    /\ executed' = [executed EXCEPT ![UnitOf(call)] = @ + 1]
    /\ owed' = owed \ {UnitOf(call)}
    /\ UNCHANGED checkpoint
    /\ CallEnds

FunctionRaises ==
    /\ agent = "working"
    /\ agent' = "saving"
    /\ UNCHANGED <<checkpoint, cli, call, callMode, history>>

SaveCall ==
    /\ agent = "saving"
    /\ checkpoint' = Saved(call, callMode, [u \in {UnitOf(call)} |-> "deferred"])
    /\ owed' = owed \cup {UnitOf(call)}
    /\ UNCHANGED executed
    /\ CallEnds

AgentCrash ==
    /\ agent # "idle"
    /\ \/ UNCHANGED checkpoint
       \/ agent = "saving" /\ checkpoint' = Corrupt
    /\ UNCHANGED <<executed, owed>>
    /\ CallEnds

Next == \/ \E t \in Tasks : Run(t)
        \/ Resume
        \/ ExecuteUnit
        \/ Finish
        \/ Crash
        \/ \E c \in Calls : CallFunction(c)
        \/ FunctionReturns
        \/ FunctionRaises
        \/ SaveCall
        \/ AgentCrash

Spec == Init /\ [][Next]_vars

-----------------------------------------------------------------------------
(* Every variable has its type, and the command line a plan while it runs. *)
TypeOK ==
    /\ checkpoint \in Documents \cup {NoCheckpoint, Corrupt}
    /\ \/ pc = "idle" /\ job = None /\ status = <<>>
       \/ pc \in {"executing", "finishing"} /\ job \in Jobs /\ status \in [UnitsOf(job) -> Statuses]
    /\ mode \in Modes /\ callMode \in Modes /\ remaining \in 0..100
    /\ \/ agent = "idle" /\ call = None
       \/ agent \in {"working", "saving"} /\ call \in Calls
    /\ started \in [Jobs -> Nat] /\ executed \in [Units -> Nat]
    /\ owed \subseteq Units /\ crashed \subseteq Jobs /\ commands \in Nat

(* Whatever ended a plan - its last unit, a failed unit, the graceful stop *)
(* or a decorated call - a readable checkpoint leaves nothing undecided,   *)
(* and resume always has something to do with it.                          *)
CheckpointIsResumable ==
    IsDocument(checkpoint) =>
        /\ Having(checkpoint.status, "pending") = {}
        /\ Having(checkpoint.status, "deferred") # {}

(* A checkpoint never claims work nobody did: not after failed units, a    *)
(* resume of a resume, or a crash between the two.                         *)
CompletedWasExecuted ==
    IsDocument(checkpoint) => \A u \in Having(checkpoint.status, "completed") : executed[u] > 0

(* Resuming never repeats work: a unit is executed no more often than its  *)
(* job was started from its plan, unless an executor was killed before it  *)
(* could save what it had completed.                                       *)
NoWorkRepeated ==
    \A j \in Jobs \ crashed : \A u \in UnitsOf(j) : executed[u] <= started[j]

(* What assess() lets through it can pay for: a plan judged SAFE or        *)
(* CAUTION, every unit of which declares its cost, is completed, and the   *)
(* safety margin is still there at the end.                                *)
FittingPlanFinishes ==
    (/\ pc = "finishing" /\ mode \in {"SAFE", "CAUTION"}
     /\ \A u \in UnitsOf(job) : Cost[u] > 0)
        => Having(status, "deferred") = {} /\ remaining >= Margin

Deferred == IF IsDocument(checkpoint) THEN Having(checkpoint.status, "deferred") ELSE {}

(* A task that has the directory to itself can always be resumed, however  *)
(* often its runs and resumes are killed: whatever it deferred and has not *)
(* done since is in its checkpoint, unless that was left unreadable.       *)
Alone(t) == \A j \in Jobs \ {t} : started[j] = 0

OwnDeferredWorkKept ==
    (\E t \in Tasks : Alone(t)) => checkpoint = Corrupt \/ owed \subseteq Deferred

-----------------------------------------------------------------------------
(* integration.py:60-62: a decorated function's work is never asked of the *)
(* provider, only the function itself does it.                             *)
DecoratedWorkIsCalled == [][(job \in Calls) => UNCHANGED executed]_vars
=============================================================================
