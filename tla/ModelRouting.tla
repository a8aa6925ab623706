---------------------------- MODULE ModelRouting ----------------------------
(***************************************************************************)
(* How GoldenBoy picks a model, and how it picks another one after a bad   *)
(* answer: AdaptiveModelRouter.route (core/adaptive_router.py) and         *)
(* suggest_escalation (core/escalation.py), both pure functions.           *)
(*                                                                         *)
(* An operator whose name is a plural returns the SET of results the       *)
(* Python function can return.  The orders below are total, so each set    *)
(* has one element at most; {} stands for None.                            *)
(*                                                                         *)
(* A definition whose name is another one's with a suffix (Routes_AnyFallback *)
(* beside Routes) is the same code with a plausible mistake in it; no      *)
(* specification uses it, and a property must fail when it takes the       *)
(* place of the original.                                                  *)
(*                                                                         *)
(* Prices are integers, in 10^-8 USD per token, so that a cost is exact    *)
(* (the code multiplies floats of USD per 1000 tokens).                    *)
(***************************************************************************)
EXTENDS Integers

CONSTANTS Models,      \* the (provider, model) pairs of the full registry
          NoModel,     \* RoutingPlan.model is None
          Providers,
          Adapters,    \* the providers the caller supplied an adapter for
          Features,    \* tools, vision, structured output
          Catalog      \* Models -> ModelSpec

Quality == 0..2        \* fast, balanced, frontier

ModelSpec == [provider : Providers, quality : Quality, features : SUBSET Features,
              inCost : Nat, outCost : Nat, maxOutput : Nat \ {0},
              name : Nat,         \* rank of (provider, model) as a string pair
              position : Nat]     \* rank in the registry's insertion order

ASSUME CatalogAssumption ==
    /\ NoModel \notin Models
    /\ Adapters \subseteq Providers
    /\ Catalog \in [Models -> ModelSpec]
    /\ \A m, n \in Models : m # n => /\ Catalog[m].name # Catalog[n].name
                                     /\ Catalog[m].position # Catalog[n].position

Strategies == {"cost_first", "quality_first", "adaptive"}

(* RoutingPlan.  fallback_chain is kept as the set of its models with the   *)
(* output estimate ("ranked") it was sorted by, which determine the list.  *)
Plan == [model : Models \cup {NoModel}, complex : BOOLEAN, needs : SUBSET Features,
         input : Nat, output : Nat, ranked : Nat, fallback : SUBSET Models]

-----------------------------------------------------------------------------
(* Only models of a provider with an adapter are ever considered.          *)
Registry == {m \in Models : Catalog[m].provider \in Adapters}

Cost(m, input, output) == input * Catalog[m].inCost + output * Catalog[m].outCost

Qualifies(m, needs, minQuality) ==
    /\ needs \subseteq Catalog[m].features
    /\ Catalog[m].quality >= minQuality

Affordable(budget, input, output) == {m \in Models : Cost(m, input, output) <= budget}

(* min by (cost, provider, model). *)
Cheapest(S, input, output) ==
    {m \in S : \A n \in S :
        \/ Cost(m, input, output) < Cost(n, input, output)
        \/ /\ Cost(m, input, output) = Cost(n, input, output)
           /\ Catalog[m].name <= Catalog[n].name}

(* max by (quality, -cost); Python's max keeps the first of equals. *)
Best(S, input, output) ==
    {m \in S : \A n \in S :
        \/ Catalog[m].quality > Catalog[n].quality
        \/ /\ Catalog[m].quality = Catalog[n].quality
           /\ \/ Cost(m, input, output) < Cost(n, input, output)
              \/ /\ Cost(m, input, output) = Cost(n, input, output)
                 /\ Catalog[m].position <= Catalog[n].position}

Selections(strategy, complex, within, input, output) ==
    IF strategy = "quality_first" \/ (strategy = "adaptive" /\ complex)
    THEN Best(within, input, output)
    ELSE Cheapest(within, input, output)

Routes_AnyFallback(strategy, complex, needs, minQuality, affordable, input, output) ==
    LET qualifying == {m \in Registry : Qualifies(m, needs, minQuality)}
        within == qualifying \cap affordable
        selected == IF within = {} THEN {NoModel}
                    ELSE Selections(strategy, complex, within, input, output)
    IN  {[model |-> m, complex |-> complex, needs |-> needs, input |-> input,
          output |-> output, ranked |-> output, fallback |-> Registry \ {m}]
            : m \in selected}

(* AdaptiveModelRouter.route, for a min_quality it knows.  The fallback     *)
(* chain holds every other qualifying model, affordable or not.            *)
Routes(strategy, complex, needs, minQuality, affordable, input, output) ==
    LET qualifying == {m \in Registry : Qualifies(m, needs, minQuality)}
        within == qualifying \cap affordable
        selected == IF within = {} THEN {NoModel}
                    ELSE Selections(strategy, complex, within, input, output)
    IN  {[model |-> m, complex |-> complex, needs |-> needs, input |-> input,
          output |-> output, ranked |-> output, fallback |-> qualifying \ {m}]
            : m \in selected}

-----------------------------------------------------------------------------
(* The rank _escalate_model_plan asks for: one above, capped at frontier.  *)
TargetQuality(m) == IF Catalog[m].quality = 2 THEN 2 ELSE Catalog[m].quality + 1

EscalatedPlans_SameModel(plan) ==
    {p \in Routes("quality_first", plan.complex, plan.needs, TargetQuality(plan.model),
                  Models, plan.input, plan.output)
        : p.model # NoModel}

(* The escalated plan is routed under float("inf"): every model is         *)
(* affordable.  None when nothing qualifies or the model would not change. *)
EscalatedPlans(plan) ==
    {p \in Routes("quality_first", plan.complex, plan.needs, TargetQuality(plan.model),
                  Models, plan.input, plan.output)
        : p.model \notin {NoModel, plan.model}}

FallbackPlans(plan) ==
    {[plan EXCEPT !.model = m, !.fallback = plan.fallback \ {m}]
        : m \in Cheapest(plan.fallback, plan.input, plan.ranked)}

(* compute_output_budget_tokens(1.0, spec): the model's own maximum.        *)
FullOutputBudget(m) == Catalog[m].maxOutput

(* output_budget_tokens >= max_output_tokens * 0.95 *)
NearMaxOutput(plan) == 100 * plan.output >= 95 * Catalog[plan.model].maxOutput

WidenedPlans(plan) ==
    IF NearMaxOutput(plan) \/ FullOutputBudget(plan.model) <= plan.output THEN {}
    ELSE {[plan EXCEPT !.output = FullOutputBudget(plan.model)]}

Suggested(action, plans) == {[action |-> action, plan |-> p] : p \in plans}

OrElse(first, second) == IF first # {} THEN first ELSE second

Stops == {"STOP_MAX_ATTEMPTS", "STOP_BUDGET_EXHAUSTED"}

(* What is tried before a stronger model, if the reason has such a remedy. *)
Remedies(reason, plan) ==
    IF reason = "PROVIDER_FAILURE" THEN Suggested("FALLBACK_PROVIDER", FallbackPlans(plan))
    ELSE IF reason = "OUTPUT_TRUNCATED" THEN Suggested("INCREASE_OUTPUT_BUDGET", WidenedPlans(plan))
    ELSE {}

(* suggest_escalation composed with _apply_suggestion: the suggested action *)
(* with the plan it leads to (the current one when it is a stop).          *)
Suggestions(reason, plan, attemptCount, maxAttempts) ==
    IF attemptCount >= maxAttempts THEN Suggested("STOP_MAX_ATTEMPTS", {plan})
    ELSE IF reason = "BUDGET_EXHAUSTED" THEN Suggested("STOP_BUDGET_EXHAUSTED", {plan})
    ELSE OrElse(Remedies(reason, plan),
                OrElse(Suggested("ESCALATE_MODEL", EscalatedPlans(plan)),
                       Suggested("STOP_MAX_ATTEMPTS", {plan})))
=============================================================================
