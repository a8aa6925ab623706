---------------------------- MODULE GoldenBoyRun ----------------------------
(***************************************************************************)
(* GoldenBoy.run (goldenboy.py): route -> govern -> generate -> record the *)
(* spend -> evaluate -> escalate and retry.  One action per durable write  *)
(* (an append to the audit log or to the spending log) or provider call,   *)
(* because the process can be killed, or a write can raise, between any    *)
(* two of them.                                                            *)
(***************************************************************************)
EXTENDS ModelRouting, Sequences, FiniteSets

CONSTANTS Requests,      \* the arguments of run(), with the estimate of the prompt
          Facades,       \* the constructor arguments of GoldenBoy
          InputCounts,   \* input token counts a provider may report
          OutputCounts,  \* output token counts, besides the whole budget
          Foreign        \* a model an adapter calls that the registry does not list

(* minQuality 3 stands for a name that is no quality class. *)
Request == [needs : SUBSET Features, minQuality : Nat, budget : Int, maxAttempts : Int,
            checks : BOOLEAN,     \* required_fields or json_schema was given
            complex : BOOLEAN, input : Nat, output : Nat]

Facade == [strategy : Strategies,
           denied : SUBSET (Models \cup {NoModel}),    \* PolicyConfig.denied_tools
           approval : SUBSET (Models \cup {NoModel}),  \* approval_required_tools
           auditsPolicy : BOOLEAN,                     \* PolicyEngine.audit_store is set
           bound : [Adapters -> Models \cup {Foreign}]] \* the model each adapter calls

ASSUME RunAssumption ==
    /\ Requests \subseteq Request
    /\ Facades \subseteq Facade
    /\ InputCounts \subseteq Nat /\ OutputCounts \subseteq Nat
    /\ Foreign \notin Models

VARIABLES request, facade,
          pc,
          attempt,       \* attempt_index
          plan,
          verdict,       \* governance_status
          remaining,     \* remaining_budget_usd
          total,         \* total_cost_usd
          calls,         \* attempts, each extended when its provider call returns
          audit,         \* the audit entries of this task_id
          ledger,        \* the spending entries of this task_id
          stopped        \* stopped_reason, "none" while it is empty

vars == <<request, facade, pc, attempt, plan, verdict, remaining, total,
          calls, audit, ledger, stopped>>

Ended == {"returned", "raised", "crashed"}

NoPlan == [model |-> NoModel, complex |-> FALSE, needs |-> {}, input |-> 0,
           output |-> 0, ranked |-> 0, fallback |-> {}]

-----------------------------------------------------------------------------
(* The ActionRequest that run() builds carries a tool name and nothing     *)
(* else, so only _check_permission can object; NoModel is                  *)
(* "generate:unrouted".                                                    *)
Verdict(tool) ==
    IF tool \in facade.denied THEN "DENY"
    ELSE IF tool \in facade.approval THEN "REQUIRE_APPROVAL"
    ELSE "ALLOW"

PolicyOutcome(v) ==
    CASE v = "ALLOW" -> "success"
      [] v = "DENY" -> "blocked"
      [] OTHER -> "pending_approval"

Entry(event, result, tool) == [event |-> event, result |-> result, tool |-> tool]

Log(event, result, tool) == audit' = Append(audit, Entry(event, result, tool))

Latest == calls[Len(calls)]

(* _estimate_cost_usd: a model that the scoped registry lacks costs 0.     *)
ActualCost(m, input, output) == IF m \in Registry THEN Cost(m, input, output) ELSE 0

(* The model the adapter of the plan's provider is configured with.        *)
CalledModel == facade.bound[Catalog[plan.model].provider]

(* _escalation_reason_for, and PROVIDER_FAILURE in the exception branch.   *)
Reason(call) ==
    IF ~call.answered THEN "PROVIDER_FAILURE"
    ELSE IF call.truncated THEN "OUTPUT_TRUNCATED"
    ELSE "INSUFFICIENT_REASONING"

BudgetExhausted_Stale == Latest.answered /\ request.budget <= 0

(* The exception branch does not look at the budget: nothing was spent.    *)
BudgetExhausted == Latest.answered /\ remaining <= 0

-----------------------------------------------------------------------------
Init == /\ request \in Requests
        /\ facade \in Facades
        /\ pc = "start" /\ attempt = 0
        /\ plan = NoPlan
        /\ verdict = "ALLOW"
        /\ remaining = request.budget /\ total = 0
        /\ calls = <<>> /\ audit = <<>> /\ ledger = <<>>
        /\ stopped = "none"

RejectMaxAttempts ==
    /\ pc = "start" /\ request.maxAttempts < 1
    /\ pc' = "raised"
    /\ UNCHANGED <<request, facade, attempt, plan, verdict, remaining, total,
                   calls, audit, ledger, stopped>>

StartTask ==
    /\ pc = "start" /\ request.maxAttempts >= 1
    /\ Log("TASK_STARTED", "success", NoModel)
    /\ pc' = "plan"
    /\ UNCHANGED <<request, facade, attempt, plan, verdict, remaining, total,
                   calls, ledger, stopped>>

(* The router raises after TASK_STARTED was written. *)
RejectMinQuality ==
    /\ pc = "plan" /\ request.minQuality \notin Quality
    /\ pc' = "raised"
    /\ UNCHANGED <<request, facade, attempt, plan, verdict, remaining, total,
                   calls, audit, ledger, stopped>>

BuildPlan ==
    /\ pc = "plan" /\ request.minQuality \in Quality
    /\ plan' \in Routes(facade.strategy, request.complex, request.needs, request.minQuality,
                        Affordable(remaining, request.input, request.output),
                        request.input, request.output)
    /\ Log("ESTIMATE_CREATED", "success", plan'.model)
    /\ attempt' = 1
    /\ pc' = "govern"
    /\ UNCHANGED <<request, facade, verdict, remaining, total, calls, ledger, stopped>>

(* PolicyEngine.evaluate records its decision only when it was given an    *)
(* audit store; GoldenBoy's default engine has none.                       *)
Govern ==
    /\ pc = "govern"
    /\ verdict' = Verdict(plan.model)
    /\ IF facade.auditsPolicy
       THEN Log("policy_check", PolicyOutcome(verdict'), plan.model)
       ELSE UNCHANGED audit
    /\ pc' = "gate"
    /\ UNCHANGED <<request, facade, attempt, plan, remaining, total, calls, ledger, stopped>>

StopOnVerdict ==
    /\ pc = "gate" /\ verdict # "ALLOW"
    /\ stopped' = verdict
    /\ pc' = "returned"
    /\ UNCHANGED <<request, facade, attempt, plan, verdict, remaining, total,
                   calls, audit, ledger>>

NoQualifyingModel_Waits ==
    pc = "gate" /\ verdict = "ALLOW" /\ plan.model = NoModel /\ UNCHANGED vars

NoQualifyingModel ==
    /\ pc = "gate" /\ verdict = "ALLOW" /\ plan.model = NoModel
    /\ stopped' = "NO_MODEL"
    /\ pc' = "finish"
    /\ UNCHANGED <<request, facade, attempt, plan, verdict, remaining, total,
                   calls, audit, ledger>>

AllowAction ==
    /\ pc = "gate" /\ verdict = "ALLOW" /\ plan.model # NoModel
    /\ Log("ACTION_ALLOWED", "success", plan.model)
    /\ pc' = "call"
    /\ UNCHANGED <<request, facade, attempt, plan, verdict, remaining, total,
                   calls, ledger, stopped>>

-----------------------------------------------------------------------------
(* adapter.generate() raises. *)
ProviderFails ==
    /\ pc = "call"
    /\ calls' = Append(calls, [plan |-> plan, answered |-> FALSE, model |-> CalledModel,
                               input |-> 0, output |-> 0, truncated |-> FALSE,
                               cost |-> 0, left |-> remaining])
    /\ pc' = "logFailure"
    /\ UNCHANGED <<request, facade, attempt, plan, verdict, remaining, total,
                   audit, ledger, stopped>>

LogFailure_Silent ==
    /\ pc = "logFailure"
    /\ pc' = "retry"
    /\ UNCHANGED <<request, facade, attempt, plan, verdict, remaining, total,
                   calls, audit, ledger, stopped>>

LogFailure ==
    /\ pc = "logFailure"
    /\ Log("ACTION_EXECUTED", "failure", plan.model)
    /\ pc' = "retry"
    /\ UNCHANGED <<request, facade, attempt, plan, verdict, remaining, total,
                   calls, ledger, stopped>>

(* Both accounts of the money move at once. *)
Charge_Overwrites(cost) == total' = cost /\ remaining' = remaining - cost

Charge(cost) == total' = total + cost /\ remaining' = remaining - cost

(* adapter.generate() returns: the reported tokens of the model that was   *)
(* really called are priced and taken off the budget.                      *)
ProviderAnswers ==
    /\ pc = "call"
    /\ \E input \in InputCounts, truncated \in BOOLEAN,
          output \in {o \in OutputCounts : o <= plan.output} \cup {plan.output} :
          LET cost == ActualCost(CalledModel, input, output)
          IN  /\ truncated => output = plan.output
              /\ Charge(cost)
              /\ calls' = Append(calls, [plan |-> plan, answered |-> TRUE,
                                         model |-> CalledModel, input |-> input,
                                         output |-> output, truncated |-> truncated,
                                         cost |-> cost, left |-> remaining - cost])
    /\ pc' = "spend"
    /\ UNCHANGED <<request, facade, attempt, plan, verdict, audit, ledger, stopped>>

(* The SpendEntry of one call: its tokens, and the model its plan names.   *)
Spent(call) == [estimated |-> call.plan.input + call.plan.output,
                actual |-> call.input + call.output,
                model |-> call.plan.model]

RecordSpend_PricedOnly ==
    /\ pc = "spend"
    /\ ledger' = IF Latest.cost > 0 THEN Append(ledger, Spent(Latest)) ELSE ledger
    /\ pc' = "logSuccess"
    /\ UNCHANGED <<request, facade, attempt, plan, verdict, remaining, total,
                   calls, audit, stopped>>

RecordSpend ==
    /\ pc = "spend"
    /\ ledger' = Append(ledger, Spent(Latest))
    /\ pc' = "logSuccess"
    /\ UNCHANGED <<request, facade, attempt, plan, verdict, remaining, total,
                   calls, audit, stopped>>

LogSuccess ==
    /\ pc = "logSuccess"
    /\ Log("ACTION_EXECUTED", "success", plan.model)
    /\ pc' = "evaluate"
    /\ UNCHANGED <<request, facade, attempt, plan, verdict, remaining, total,
                   calls, ledger, stopped>>

(* Not truncated, and every check that was asked for passes. *)
Sufficient ==
    /\ pc = "evaluate" /\ ~Latest.truncated
    /\ Log("TASK_COMPLETED", "success", NoModel)
    /\ stopped' = "sufficient"
    /\ pc' = "returned"
    /\ UNCHANGED <<request, facade, attempt, plan, verdict, remaining, total,
                   calls, ledger>>

Insufficient ==
    /\ pc = "evaluate" /\ (Latest.truncated \/ request.checks)
    /\ Log("VERIFICATION_FAILED", "failure", NoModel)
    /\ pc' = "retry"
    /\ UNCHANGED <<request, facade, attempt, plan, verdict, remaining, total,
                   calls, ledger, stopped>>

-----------------------------------------------------------------------------
StopAtMaxAttempts ==
    /\ pc = "retry" /\ attempt >= request.maxAttempts
    /\ stopped' = "STOP_MAX_ATTEMPTS"
    /\ pc' = "finish"
    /\ UNCHANGED <<request, facade, attempt, plan, verdict, remaining, total,
                   calls, audit, ledger>>

StopAtBudget ==
    /\ pc = "retry" /\ attempt < request.maxAttempts /\ BudgetExhausted
    /\ stopped' = "STOP_BUDGET_EXHAUSTED"
    /\ pc' = "finish"
    /\ UNCHANGED <<request, facade, attempt, plan, verdict, remaining, total,
                   calls, audit, ledger>>

(* suggest_escalation answers with a stop: RETRY_STARTED is written first. *)
StopAsSuggested ==
    /\ pc = "retry" /\ attempt < request.maxAttempts /\ ~BudgetExhausted
    /\ \E s \in Suggestions(Reason(Latest), plan, attempt, request.maxAttempts) :
          s.action \in Stops /\ stopped' = s.action
    /\ Log("RETRY_STARTED", "success", NoModel)
    /\ pc' = "finish"
    /\ UNCHANGED <<request, facade, attempt, plan, verdict, remaining, total,
                   calls, ledger>>

ApplySuggestion_Ungoverned ==
    /\ pc = "retry" /\ attempt < request.maxAttempts /\ ~BudgetExhausted
    /\ \E s \in Suggestions(Reason(Latest), plan, attempt, request.maxAttempts) :
          s.action \notin Stops /\ plan' = s.plan
    /\ Log("RETRY_STARTED", "success", NoModel)
    /\ attempt' = attempt + 1
    /\ pc' = "call"
    /\ UNCHANGED <<request, facade, verdict, remaining, total, calls, ledger, stopped>>

ApplySuggestion ==
    /\ pc = "retry" /\ attempt < request.maxAttempts /\ ~BudgetExhausted
    /\ \E s \in Suggestions(Reason(Latest), plan, attempt, request.maxAttempts) :
          s.action \notin Stops /\ plan' = s.plan
    /\ Log("RETRY_STARTED", "success", NoModel)
    /\ attempt' = attempt + 1
    /\ pc' = "govern"
    /\ UNCHANGED <<request, facade, verdict, remaining, total, calls, ledger, stopped>>

(* After the loop. *)
Finish ==
    /\ pc = "finish"
    /\ Log("TASK_COMPLETED", "failure", NoModel)
    /\ pc' = "returned"
    /\ UNCHANGED <<request, facade, attempt, plan, verdict, remaining, total,
                   calls, ledger, stopped>>

(* The process is killed, or the write it is about to do raises (AuditError, *)
(* SpendingError), or the escalation router cannot load its configuration: *)
(* run() has no handler for any of them.                                   *)
Crash ==
    /\ pc \notin Ended
    /\ pc' = "crashed"
    /\ UNCHANGED <<request, facade, attempt, plan, verdict, remaining, total,
                   calls, audit, ledger, stopped>>

Done == pc \in Ended /\ UNCHANGED vars

Step == \/ RejectMaxAttempts \/ StartTask \/ RejectMinQuality \/ BuildPlan
        \/ Govern \/ StopOnVerdict \/ NoQualifyingModel \/ AllowAction
        \/ ProviderFails \/ LogFailure \/ ProviderAnswers \/ RecordSpend \/ LogSuccess
        \/ Sufficient \/ Insufficient
        \/ StopAtMaxAttempts \/ StopAtBudget \/ StopAsSuggested \/ ApplySuggestion
        \/ Finish

Next == Step \/ Crash \/ Done

(* run() is one thread of one process: it does its next step unless the    *)
(* process dies, and the provider SDKs return or raise.                    *)
Spec == Init /\ [][Next]_vars /\ WF_vars(Step)

-----------------------------------------------------------------------------
Call == [plan : Plan, answered : BOOLEAN, model : Models \cup {Foreign},
         input : Nat, output : Nat, truncated : BOOLEAN, cost : Nat, left : Int]

Events == {"TASK_STARTED", "ESTIMATE_CREATED", "policy_check", "ACTION_ALLOWED",
           "ACTION_EXECUTED", "VERIFICATION_FAILED", "RETRY_STARTED", "TASK_COMPLETED"}

AuditEntry == [event : Events, result : {"success", "failure", "blocked", "pending_approval"},
               tool : Models \cup {NoModel}]

SpendEntry == [estimated : Nat, actual : Nat, model : Models]

(* Every variable has its type, and attempt_index never passes             *)
(* max_attempts: the loop of run() counts retries of every kind.           *)
TypeOK ==
    /\ request \in Requests /\ facade \in Facades
    /\ pc \in {"start", "plan", "govern", "gate", "call", "logFailure", "spend", "logSuccess",
               "evaluate", "retry", "finish"} \cup Ended
    /\ attempt \in Nat /\ (attempt > 0 => attempt <= request.maxAttempts)
    /\ plan \in Plan
    /\ verdict \in {"ALLOW", "DENY", "REQUIRE_APPROVAL"}
    /\ remaining \in Int /\ total \in Nat
    /\ calls \in Seq(Call) /\ audit \in Seq(AuditEntry) /\ ledger \in Seq(SpendEntry)
    /\ stopped \in {"none", "sufficient", "DENY", "REQUIRE_APPROVAL", "NO_MODEL"} \cup Stops

(* A model run() may ask for: it has an adapter, the capabilities and at   *)
(* least the quality the caller required, and the policy lets it pass.     *)
Fits(m) ==
    /\ m \in Registry
    /\ request.needs \subseteq Catalog[m].features
    /\ Catalog[m].quality >= request.minQuality
    /\ Verdict(m) = "ALLOW"

(* Every provider call, first try, escalation or fallback alike, is made   *)
(* on a plan for a model that fits.  This is about the planned model, which *)
(* is all that run() decides.  Of the model that is called, call.model, it *)
(* does not hold: generate() is not told the model, and the adapter's own  *)
(* may lack what the planned one was chosen for.                           *)
PlannedModelsFit == \A i \in 1..Len(calls) : Fits(calls[i].plan.model)

(* total_cost_usd and remaining_budget_usd are two accounts of the same    *)
(* money: they add up to the budget, and what they say was spent is what   *)
(* the registry charges for the tokens of the answers, one by one.         *)
LeftBefore(i) == IF i = 1 THEN request.budget ELSE calls[i - 1].left

BudgetConserved ==
    /\ total + remaining = request.budget
    /\ remaining = LeftBefore(Len(calls) + 1)
    /\ \A i \in 1..Len(calls) :
          /\ calls[i].left = LeftBefore(i) - calls[i].cost
          /\ calls[i].cost = IF calls[i].answered
                             THEN ActualCost(calls[i].model, calls[i].input, calls[i].output)
                             ELSE 0

(* The spending log holds the answered calls in order, one entry each,     *)
(* with their tokens; it lags by the call whose entry is being written,    *)
(* or whose entry the process died writing, and by no other.               *)
Answers(n) == Cardinality({i \in 1..n : calls[i].answered})   \* of the first n calls

LedgerFollowsAnswers ==
    /\ Len(ledger) <= Answers(Len(calls))
    /\ Answers(Len(calls)) <= Len(ledger) + (IF pc \in {"spend", "crashed"} THEN 1 ELSE 0)
    /\ \A i \in 1..Len(calls) :
          calls[i].answered /\ Answers(i) <= Len(ledger) => ledger[Answers(i)] = Spent(calls[i])

(* A call after an answer is made only with money left, so the budget is   *)
(* overrun by one answer at most.  A failed call spends nothing, and the   *)
(* exception branch rightly skips the budget test.                         *)
OneOverrunAtMost == \A i \in 1..Len(calls) - 1 : calls[i].answered => calls[i].left > 0

(* Replaying the audit log of the task gives the run: a permission before  *)
(* each provider call and an outcome after it, naming the planned model    *)
(* and how the call went, and a TASK_COMPLETED that says how the run       *)
(* ended unless the policy engine or a crash ended it.                     *)
Positions(event, n) == {i \in 1..n : audit[i].event = event}    \* in the first n entries

Logged(event, n) == Cardinality(Positions(event, n))

TraceTellsTheRun ==
    LET entries(event) == Positions(event, Len(audit))
        allowed == Logged("ACTION_ALLOWED", Len(audit))
        executed == Logged("ACTION_EXECUTED", Len(audit))
        inCall == IF pc = "call" THEN 1 ELSE 0
        unlogged == IF pc \in {"logFailure", "spend", "logSuccess"} THEN 1 ELSE 0
        completed == Entry("TASK_COMPLETED",
                           IF stopped = "sufficient" THEN "success" ELSE "failure", NoModel)
    IN  /\ pc # "crashed" => allowed = Len(calls) + inCall /\ executed = Len(calls) - unlogged
        /\ executed <= Len(calls) /\ Len(calls) <= allowed
        /\ \A i \in entries("ACTION_ALLOWED") :
              LET k == Logged("ACTION_ALLOWED", i)
              IN  k <= Len(calls) => audit[i].tool = calls[k].plan.model
        /\ \A i \in entries("ACTION_EXECUTED") :
              LET call == calls[Logged("ACTION_EXECUTED", i)]
              IN  /\ audit[i].tool = call.plan.model
                  /\ audit[i].result = IF call.answered THEN "success" ELSE "failure"
        /\ pc = "returned" /\ stopped \notin {"DENY", "REQUIRE_APPROVAL"}
              => entries("TASK_COMPLETED") = {Len(audit)} /\ audit[Len(audit)] = completed

(* A retry has a plan that asks for something else: another model, or of   *)
(* the same one a longer output than before (_apply_suggestion's comment:  *)
(* never "silently retrying the identical plan forever").  The plan and    *)
(* not the request: when the other model has the same provider, the same   *)
(* adapter sends the prompt and the output budget to its one model again.  *)
RetryChangesThePlan ==
    [][pc = "retry" /\ pc' = "govern"
         => plan'.model # plan.model \/ plan'.output > plan.output]_vars

(* An escalation that plans another model because the answer was not good  *)
(* enough, or because no fallback is left, goes up in quality class, or    *)
(* stays in the top one.                                                   *)
EscalationRaisesQuality ==
    [][pc = "retry" /\ pc' = "govern" /\ plan'.model # plan.model
         /\ (Latest.answered \/ plan.fallback = {})
         => LET class(m) == Catalog[m].quality
            IN  class(plan'.model) > class(plan.model) \/ class(plan'.model) = 2]_vars

(* Both: what the plan of every retry of a run is. *)
RetryMakesProgress == RetryChangesThePlan /\ EscalationRaisesQuality

(* Every run ends, and a run that returns says why it stopped. *)
RunEnds == <>(pc \in Ended /\ (pc = "returned" => stopped # "none"))

(* The run as BoundedRun sees it: a governance decision for each provider  *)
(* call, max_attempts calls at most, and an end.                           *)
Stage == CASE pc \in {"start", "plan", "govern", "gate"} -> "deciding"
           [] pc = "call" -> "permitted"
           [] pc \in {"logFailure", "spend", "logSuccess", "evaluate", "retry"} -> "judging"
           [] OTHER -> "ended"

Bounded == INSTANCE BoundedRun WITH
               Limits <- {r.maxAttempts : r \in Requests},
               limit <- request.maxAttempts,
               stage <- Stage,
               tries <- Len(calls)

ImplementsBoundedRun == Bounded!Spec

-----------------------------------------------------------------------------
(* What the documents say, and the code does not do.                       *)

(* escalation.py:46-49: "the caller is still responsible for checking the  *)
(* suggested plan's estimated_cost/fits_budget against its own real budget *)
(* before acting on it".  run() is that caller and never checks.           *)
CallsFitTheBudget ==
    pc = "call" => Cost(plan.model, plan.input, plan.output) <= remaining
=============================================================================
