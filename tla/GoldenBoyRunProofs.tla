------------------------- MODULE GoldenBoyRunProofs -------------------------
(***************************************************************************)
(* GoldenBoy.run for every registry, policy, request and provider answer:  *)
(* what the router and the escalation policy return, the invariants of     *)
(* GoldenBoyRun.tla, and that it implements BoundedRun.                    *)
(***************************************************************************)
EXTENDS GoldenBoyRun, SequenceTheorems, FiniteSetTheorems, WellFoundedInduction, TLAPS

-----------------------------------------------------------------------------
(* The router and the escalation policy (ModelRouting).                    *)

(* A model meets a demand when it has an adapter, the features and at      *)
(* least the quality.                                                      *)
Meets(m, needs, minQuality) ==
    /\ m \in Registry
    /\ needs \subseteq Catalog[m].features
    /\ Catalog[m].quality >= minQuality

(* A plan is sound when its model, if any, and every fallback meet the     *)
(* demand, and the model is not its own fallback.                          *)
SoundPlan(p, needs, minQuality) ==
    /\ p \in Plan
    /\ p.needs = needs
    /\ p.model # NoModel => Meets(p.model, needs, minQuality)
    /\ \A m \in p.fallback : m # p.model /\ Meets(m, needs, minQuality)

(* Whatever the strategy, a selected model is one of those within budget.  *)
LEMMA SelectionsWithin ==
    ASSUME NEW strategy, NEW complex, NEW within, NEW input, NEW output,
           NEW m \in Selections(strategy, complex, within, input, output)
    PROVE  m \in within
BY DEF Selections, Best, Cheapest

(* route() never names a model that misses a requirement or the budget,    *)
(* not even in the fallback chain (which may miss the budget only), and    *)
(* the selected model is not in its own fallback chain.                    *)
THEOREM RouteSound ==
    ASSUME NEW strategy, NEW complex \in BOOLEAN, NEW needs \in SUBSET Features,
           NEW minQuality \in Int, NEW affordable,
           NEW input \in Nat, NEW output \in Nat,
           NEW p \in Routes(strategy, complex, needs, minQuality, affordable, input, output)
    PROVE  /\ SoundPlan(p, needs, minQuality)
           /\ p.complex = complex /\ p.input = input /\ p.output = output
           /\ p.model # NoModel => p.model \in affordable
<1> DEFINE qualifying == {m \in Registry : Qualifies(m, needs, minQuality)}
           within == qualifying \cap affordable
<1>1. PICK m : /\ p = [model |-> m, complex |-> complex, needs |-> needs, input |-> input,
                       output |-> output, ranked |-> output, fallback |-> qualifying \ {m}]
               /\ m = NoModel \/ m \in within
  BY SelectionsWithin DEF Routes
<1>2. qualifying \subseteq Models
  BY DEF Registry
<1>3. p \in Plan
  BY <1>1, <1>2 DEF Plan
<1>4. \A n \in qualifying : Meets(n, needs, minQuality)
  BY DEF Meets, Qualifies
<1>5. SoundPlan(p, needs, minQuality)
  BY <1>1, <1>3, <1>4 DEF SoundPlan
<1>6. QED
  BY <1>1, <1>5

(* An escalated plan asks the same question of another model, of a higher  *)
(* quality class or of the top one.                                        *)
THEOREM EscalationSound ==
    ASSUME NEW old \in Plan, old.model \in Models, NEW p \in EscalatedPlans(old)
    PROVE  /\ SoundPlan(p, old.needs, Catalog[old.model].quality)
           /\ p.input = old.input /\ p.output = old.output
           /\ p.model \in Models /\ p.model # old.model
           /\ \/ Catalog[p.model].quality > Catalog[old.model].quality
              \/ Catalog[p.model].quality = 2
<1> DEFINE target == TargetQuality(old.model)
<1>1. Catalog[old.model].quality \in Quality
  BY CatalogAssumption DEF ModelSpec
<1>2. target \in Int /\ target >= Catalog[old.model].quality
  BY <1>1 DEF TargetQuality, Quality
<1>3. p \in Routes("quality_first", old.complex, old.needs, target, Models,
                   old.input, old.output)
  BY DEF EscalatedPlans
<1>4. p.model # old.model /\ p.model # NoModel
  BY DEF EscalatedPlans
<1>5. old.complex \in BOOLEAN /\ old.needs \in SUBSET Features
      /\ old.input \in Nat /\ old.output \in Nat
  BY DEF Plan
<1> HIDE DEF target
<1>6. SoundPlan(p, old.needs, target) /\ p.input = old.input /\ p.output = old.output
  BY <1>2, <1>3, <1>5, RouteSound
<1>7. \A m : Meets(m, old.needs, target)
             => /\ Meets(m, old.needs, Catalog[old.model].quality)
                /\ Catalog[m].quality \in Quality /\ m \in Models
  BY <1>1, <1>2, CatalogAssumption DEF Meets, Registry, ModelSpec, Quality
<1>8. SoundPlan(p, old.needs, Catalog[old.model].quality)
  BY <1>6, <1>7 DEF SoundPlan
<1>9. Meets(p.model, old.needs, target)
  BY <1>4, <1>6 DEF SoundPlan
<1>10. \/ Catalog[p.model].quality > Catalog[old.model].quality
       \/ Catalog[p.model].quality = 2
  BY <1>1, <1>7, <1>9 DEF Meets, TargetQuality, Quality, target
<1>11. QED
  BY <1>4, <1>6, <1>7, <1>8, <1>9, <1>10

(* Of the first set and the second, the one that is not empty.             *)
LEMMA OrElseChoice ==
    ASSUME NEW first, NEW second, NEW x \in OrElse(first, second)
    PROVE  x \in first \/ (first = {} /\ x \in second)
BY DEF OrElse

(* A set of numbers that is not empty has a least one.                     *)
LEMMA LeastNumber ==
    ASSUME NEW T \in SUBSET Nat, T # {}
    PROVE  \E n \in T : \A k \in T : n <= k
<1> DEFINE Less == {pair \in Nat \X Nat : pair[1] < pair[2]}
<1>1. IsWellFoundedOn(Less, Nat)
  BY NatLessThanWellFounded DEF OpToRel
<1>2. PICK n \in T : \A k \in T : <<k, n>> \notin Less
  <2> HIDE DEF Less
  <2>1. QED
    BY <1>1, WFMin
<1>3. ASSUME NEW k \in T
      PROVE  n <= k
  <2>1. <<k, n>> \notin Less
    BY <1>2
  <2>2. QED
    BY <2>1
<1>4. QED
  BY <1>3

(* However many models there are, one of them is the cheapest: as long as  *)
(* a fallback is left there is a next one.                                 *)
LEMMA CheapestExists ==
    ASSUME NEW S \in SUBSET Models, S # {}, NEW input \in Nat, NEW output \in Nat
    PROVE  Cheapest(S, input, output) # {}
<1> DEFINE price(m) == Cost(m, input, output)
           rank(m) == Catalog[m].name
<1>1. \A m \in S : price(m) \in Nat /\ rank(m) \in Nat
  <2> SUFFICES ASSUME NEW m \in S PROVE price(m) \in Nat /\ rank(m) \in Nat
    OBVIOUS
  <2>1. Catalog[m].inCost \in Nat /\ Catalog[m].outCost \in Nat /\ Catalog[m].name \in Nat
    BY CatalogAssumption DEF ModelSpec
  <2>2. input * Catalog[m].inCost \in Nat /\ output * Catalog[m].outCost \in Nat
    BY <2>1
  <2>3. QED
    BY <2>1, <2>2 DEF Cost
<1> HIDE DEF price, rank
<1>2. PICK low \in S : \A n \in S : price(low) <= price(n)
  <2>1. {price(m) : m \in S} \in SUBSET Nat /\ {price(m) : m \in S} # {}
    BY <1>1
  <2>2. PICK p \in {price(m) : m \in S} : \A k \in {price(m) : m \in S} : p <= k
    BY <2>1, LeastNumber
  <2>3. QED
    BY <2>2
<1> DEFINE Low == {m \in S : price(m) = price(low)}
<1>3. PICK first \in Low : \A n \in Low : rank(first) <= rank(n)
  <2>1. {rank(m) : m \in Low} \in SUBSET Nat /\ {rank(m) : m \in Low} # {}
    BY <1>1
  <2>2. PICK p \in {rank(m) : m \in Low} : \A k \in {rank(m) : m \in Low} : p <= k
    BY <2>1, LeastNumber
  <2>3. QED
    BY <2>2
<1>4. ASSUME NEW n \in S
      PROVE  \/ price(first) < price(n)
             \/ price(first) = price(n) /\ rank(first) <= rank(n)
  <2>1. price(first) = price(low) /\ price(low) <= price(n)
    BY <1>2, <1>3
  <2>2. price(first) \in Nat /\ price(n) \in Nat
    BY <1>1, <1>3
  <2>3. CASE price(n) = price(low)
    BY <1>3, <2>1, <2>3
  <2>4. CASE price(n) # price(low)
    BY <2>1, <2>2, <2>4
  <2>5. QED
    BY <2>3, <2>4
<1>5. first \in Cheapest(S, input, output)
  BY <1>3, <1>4 DEF Cheapest, price, rank
<1>6. QED
  BY <1>5

(* Where a suggestion that is not a stop comes from.                       *)
LEMMA SuggestionCases ==
    ASSUME NEW old, NEW reason, NEW n, NEW max,
           NEW s \in Suggestions(reason, old, n, max), s.action \notin Stops
    PROVE  /\ ~(n >= max)
           /\ \/ /\ reason = "PROVIDER_FAILURE" /\ s.action = "FALLBACK_PROVIDER"
                 /\ s.plan \in FallbackPlans(old)
              \/ /\ reason = "OUTPUT_TRUNCATED" /\ s.action = "INCREASE_OUTPUT_BUDGET"
                 /\ s.plan \in WidenedPlans(old)
              \/ /\ s.action = "ESCALATE_MODEL" /\ s.plan \in EscalatedPlans(old)
                 /\ reason = "PROVIDER_FAILURE" => FallbackPlans(old) = {}
                 /\ reason = "OUTPUT_TRUNCATED" => WidenedPlans(old) = {}
<1>1. \A action, plans : \A t \in Suggested(action, plans) : t.action = action /\ t.plan \in plans
  BY DEF Suggested
<1>2. \A plans : s \notin Suggested("STOP_MAX_ATTEMPTS", plans)
                 /\ s \notin Suggested("STOP_BUDGET_EXHAUSTED", plans)
  BY <1>1 DEF Stops
<1>3. ~(n >= max) /\ s \in OrElse(Remedies(reason, old),
                                  OrElse(Suggested("ESCALATE_MODEL", EscalatedPlans(old)),
                                         Suggested("STOP_MAX_ATTEMPTS", {old})))
  BY <1>2 DEF Suggestions
<1>4. \/ s \in Remedies(reason, old)
      \/ Remedies(reason, old) = {} /\ s \in Suggested("ESCALATE_MODEL", EscalatedPlans(old))
  BY <1>2, <1>3, OrElseChoice
<1>5. CASE s \in Remedies(reason, old)
  BY <1>1, <1>3, <1>5 DEF Remedies
<1>6. CASE Remedies(reason, old) = {} /\ s \in Suggested("ESCALATE_MODEL", EscalatedPlans(old))
  <2>1. \A action, plans : Suggested(action, plans) = {} => plans = {}
    BY DEF Suggested
  <2>2. QED
    BY <1>1, <1>3, <1>6, <2>1 DEF Remedies
<1>7. QED
  BY <1>4, <1>5, <1>6

(* A suggestion that is not a stop, made with attempts left, keeps to the  *)
(* demand the plan before it met, and is one of three: after a provider    *)
(* failure the cheapest fallback, which is used up by it; after a          *)
(* truncation a longer output of the same model; or another model of a     *)
(* higher quality class or of the top one - of a failed provider only when *)
(* no fallback is left, after a truncation only near the model's limit.    *)
THEOREM SuggestionSound ==
    ASSUME NEW needs, NEW minQuality \in Nat, NEW old, old.model \in Models,
           SoundPlan(old, needs, minQuality),
           NEW reason, NEW n \in Int, NEW max \in Int,
           NEW s \in Suggestions(reason, old, n, max), s.action \notin Stops
    PROVE  /\ n < max
           /\ SoundPlan(s.plan, needs, minQuality) /\ s.plan.model \in Models
           /\ \/ /\ s.action = "FALLBACK_PROVIDER" /\ reason = "PROVIDER_FAILURE"
                 /\ s.plan.model \in Cheapest(old.fallback, old.input, old.ranked)
                 /\ s.plan.model # old.model /\ s.plan.output = old.output
                 /\ s.plan.fallback = old.fallback \ {s.plan.model}
              \/ /\ s.action = "INCREASE_OUTPUT_BUDGET" /\ reason = "OUTPUT_TRUNCATED"
                 /\ s.plan.model = old.model /\ s.plan.output > old.output
              \/ /\ s.action = "ESCALATE_MODEL"
                 /\ s.plan.model # old.model /\ s.plan.output = old.output
                 /\ \/ Catalog[s.plan.model].quality > Catalog[old.model].quality
                    \/ Catalog[s.plan.model].quality = 2
                 /\ reason = "PROVIDER_FAILURE" => old.fallback = {}
                 /\ reason = "OUTPUT_TRUNCATED" => NearMaxOutput(old)
<1>1. /\ old \in Plan /\ old.needs = needs /\ Meets(old.model, needs, minQuality)
      /\ \A m \in old.fallback : m # old.model /\ Meets(m, needs, minQuality)
  BY CatalogAssumption DEF SoundPlan
<1>2. /\ old.fallback \in SUBSET Models /\ old.input \in Nat /\ old.ranked \in Nat
      /\ old.output \in Nat
  BY <1>1 DEF Plan
<1>3. FullOutputBudget(old.model) = Catalog[old.model].maxOutput
      /\ Catalog[old.model].maxOutput \in Nat
  BY CatalogAssumption DEF ModelSpec, FullOutputBudget
<1>4. n < max
  BY SuggestionCases
<1>5. CASE /\ reason = "PROVIDER_FAILURE" /\ s.action = "FALLBACK_PROVIDER"
           /\ s.plan \in FallbackPlans(old)
  <2>1. PICK m \in Cheapest(old.fallback, old.input, old.ranked) :
           s.plan = [old EXCEPT !.model = m, !.fallback = old.fallback \ {m}]
    BY <1>5 DEF FallbackPlans
  <2>2. m \in old.fallback /\ m \in Models /\ m # old.model /\ Meets(m, needs, minQuality)
    BY <1>1, <1>2, <2>1 DEF Cheapest
  <2>3. /\ s.plan \in Plan /\ s.plan.needs = needs /\ s.plan.output = old.output
        /\ s.plan.model = m /\ s.plan.fallback = old.fallback \ {m}
    BY <1>1, <1>2, <2>1, <2>2 DEF Plan
  <2>4. SoundPlan(s.plan, needs, minQuality)
    BY <1>1, <2>2, <2>3 DEF SoundPlan
  <2>5. QED
    BY <1>4, <1>5, <2>1, <2>2, <2>3, <2>4
<1>6. CASE /\ reason = "OUTPUT_TRUNCATED" /\ s.action = "INCREASE_OUTPUT_BUDGET"
           /\ s.plan \in WidenedPlans(old)
  <2>1. /\ s.plan = [old EXCEPT !.output = FullOutputBudget(old.model)]
        /\ ~(FullOutputBudget(old.model) <= old.output)
    BY <1>6 DEF WidenedPlans
  <2>2. /\ s.plan \in Plan /\ s.plan.needs = needs /\ s.plan.model = old.model
        /\ s.plan.fallback = old.fallback /\ s.plan.output = FullOutputBudget(old.model)
    BY <1>1, <1>3, <2>1 DEF Plan
  <2>3. s.plan.output > old.output
    BY <1>2, <1>3, <2>1, <2>2
  <2>4. SoundPlan(s.plan, needs, minQuality)
    BY <1>1, <2>2 DEF SoundPlan
  <2>5. QED
    BY <1>4, <1>6, <2>2, <2>3, <2>4
<1>7. CASE /\ s.action = "ESCALATE_MODEL" /\ s.plan \in EscalatedPlans(old)
           /\ reason = "PROVIDER_FAILURE" => FallbackPlans(old) = {}
           /\ reason = "OUTPUT_TRUNCATED" => WidenedPlans(old) = {}
  <2>1. /\ SoundPlan(s.plan, old.needs, Catalog[old.model].quality)
        /\ s.plan.output = old.output
        /\ s.plan.model \in Models /\ s.plan.model # old.model
        /\ \/ Catalog[s.plan.model].quality > Catalog[old.model].quality
           \/ Catalog[s.plan.model].quality = 2
    BY <1>1, <1>7, EscalationSound
  <2>2. Catalog[old.model].quality \in Int /\ Catalog[old.model].quality >= minQuality
    BY <1>1, CatalogAssumption DEF Meets, ModelSpec, Quality
  <2>3. \A m : Meets(m, needs, Catalog[old.model].quality) => Meets(m, needs, minQuality)
    BY <2>2, CatalogAssumption DEF Meets, Registry, ModelSpec, Quality
  <2>4. SoundPlan(s.plan, needs, minQuality)
    BY <1>1, <2>1, <2>3 DEF SoundPlan
  <2>5. FallbackPlans(old) = {} => old.fallback = {}
    <3>1. FallbackPlans(old) = {} => Cheapest(old.fallback, old.input, old.ranked) = {}
      BY DEF FallbackPlans
    <3>2. QED
      BY <1>2, <3>1, CheapestExists
  <2>6. WidenedPlans(old) = {} => NearMaxOutput(old)
    <3>1. WidenedPlans(old) = {} => NearMaxOutput(old) \/ FullOutputBudget(old.model) <= old.output
      BY DEF WidenedPlans
    <3>2. FullOutputBudget(old.model) <= old.output => NearMaxOutput(old)
      BY <1>2, <1>3 DEF NearMaxOutput
    <3>3. QED
      BY <3>1, <3>2
  <2>7. QED
    BY <1>4, <1>7, <2>1, <2>4, <2>5, <2>6
<1>8. QED
  BY <1>5, <1>6, <1>7, SuggestionCases

-----------------------------------------------------------------------------
(* The run (GoldenBoyRun).                                                 *)
Deciding == {"govern", "gate", "call"}

AfterCall == {"logFailure", "spend", "logSuccess", "evaluate", "retry"}

(* Where the loop is, and what it has done by then.                        *)
Control ==
    /\ pc \in {"start", "plan"} => attempt = 0 /\ calls = <<>>
    /\ pc = "plan" => request.maxAttempts >= 1
    /\ pc \in Deciding => attempt = Len(calls) + 1
    /\ pc \in AfterCall => attempt = Len(calls) /\ attempt >= 1 /\ Latest.plan = plan
    /\ pc = "gate" => verdict = Verdict(plan.model)
    /\ pc \in {"call"} \cup AfterCall => plan.model \in Models /\ Verdict(plan.model) = "ALLOW"

Wanted(m) == Meets(m, request.needs, request.minQuality)

(* The plan in hand, and the fallbacks it may still be exchanged for, all  *)
(* meet the request: this is what a retry preserves.                       *)
PlanMeetsRequest == attempt > 0 => SoundPlan(plan, request.needs, request.minQuality)

(* The loop decides on another call only with money left, or after a call  *)
(* that cost nothing.                                                      *)
MoneyForMore ==
    pc \in Deciding /\ Len(calls) > 0 => (Latest.answered => Latest.left > 0)

Inv == /\ TypeOK /\ Control /\ PlanMeetsRequest /\ MoneyForMore
       /\ PlannedModelsFit /\ BudgetConserved /\ OneOverrunAtMost

-----------------------------------------------------------------------------
(* What a request and a facade are made of.                                *)
LEMMA ArgumentTypes ==
    ASSUME TypeOK
    PROVE  /\ request \in Request /\ facade \in Facade
           /\ request.needs \in SUBSET Features /\ request.minQuality \in Nat
           /\ request.budget \in Int /\ request.maxAttempts \in Int
           /\ request.complex \in BOOLEAN /\ request.input \in Nat /\ request.output \in Nat
           /\ plan \in Plan
BY RunAssumption DEF TypeOK, Request

(* A cost is a natural number of price units.                              *)
LEMMA CostIsNat ==
    ASSUME NEW m, NEW input \in Nat, NEW output \in Nat
    PROVE  ActualCost(m, input, output) \in Nat
<1>1. CASE m \notin Registry
  BY <1>1 DEF ActualCost
<1>2. CASE m \in Registry
  <2>1. Catalog[m].inCost \in Nat /\ Catalog[m].outCost \in Nat
    BY <1>2, CatalogAssumption DEF Registry, ModelSpec
  <2>2. input * Catalog[m].inCost \in Nat /\ output * Catalog[m].outCost \in Nat
    BY <2>1
  <2>3. QED
    BY <1>2, <2>2 DEF ActualCost, Cost
<1>3. QED
  BY <1>1, <1>2

(* The adapter of a routed model's provider exists and calls some model.   *)
LEMMA CalledModelType ==
    ASSUME TypeOK, plan.model \in Models, SoundPlan(plan, request.needs, request.minQuality)
    PROVE  CalledModel \in Models \cup {Foreign}
<1>1. plan.model \in Registry
  BY CatalogAssumption DEF SoundPlan, Meets
<1>2. Catalog[plan.model].provider \in Adapters
  BY <1>1 DEF Registry
<1>3. facade.bound \in [Adapters -> Models \cup {Foreign}]
  BY ArgumentTypes DEF Facade
<1>4. QED
  BY <1>2, <1>3 DEF CalledModel

(* The first plan meets the request, as route() promises.                  *)
LEMMA FirstPlan ==
    ASSUME TypeOK, BuildPlan
    PROVE  SoundPlan(plan', request.needs, request.minQuality)
<1>1. PICK affordable :
          plan' \in Routes(facade.strategy, request.complex, request.needs, request.minQuality,
                          affordable, request.input, request.output)
  BY DEF BuildPlan
<1>2. /\ request.minQuality \in Int /\ request.needs \in SUBSET Features
      /\ request.complex \in BOOLEAN /\ request.input \in Nat /\ request.output \in Nat
  BY ArgumentTypes
<1>3. QED
  BY <1>1, <1>2, RouteSound

(* So the plan of a retry meets the request as the plan before it did, and *)
(* asks for something else.                                                *)
LEMMA AppliedPlan ==
    ASSUME TypeOK, plan.model \in Models, SoundPlan(plan, request.needs, request.minQuality),
           ApplySuggestion
    PROVE  /\ SoundPlan(plan', request.needs, request.minQuality)
           /\ plan'.model # plan.model \/ plan'.output > plan.output
           /\ plan'.model # plan.model /\ (Latest.answered \/ plan.fallback = {})
                => \/ Catalog[plan'.model].quality > Catalog[plan.model].quality
                   \/ Catalog[plan'.model].quality = 2
<1>1. PICK s \in Suggestions(Reason(Latest), plan, attempt, request.maxAttempts) :
         s.action \notin Stops /\ plan' = s.plan
  BY DEF ApplySuggestion
<1>2. /\ request.minQuality \in Nat /\ attempt \in Int /\ request.maxAttempts \in Int
      /\ plan.fallback \in SUBSET Models
  BY ArgumentTypes DEF TypeOK, Plan
<1>3. Latest.answered => Reason(Latest) # "PROVIDER_FAILURE"
  BY DEF Reason
<1>4. SoundPlan(s.plan, request.needs, request.minQuality)
  BY <1>1, <1>2, SuggestionSound
<1>5. \/ /\ Reason(Latest) = "PROVIDER_FAILURE" /\ s.plan.model # plan.model
         /\ s.plan.model \in Cheapest(plan.fallback, plan.input, plan.ranked)
      \/ s.plan.model = plan.model /\ s.plan.output > plan.output
      \/ /\ s.plan.model # plan.model
         /\ \/ Catalog[s.plan.model].quality > Catalog[plan.model].quality
            \/ Catalog[s.plan.model].quality = 2
  BY <1>1, <1>2, SuggestionSound
<1>6. s.plan.model \in Cheapest(plan.fallback, plan.input, plan.ranked) => plan.fallback # {}
  BY DEF Cheapest
<1>7. QED
  BY <1>1, <1>3, <1>4, <1>5, <1>6

-----------------------------------------------------------------------------
(* Appending a call keeps the accounts: what is left is what was left      *)
(* before it, less its cost.                                               *)
LEMMA CallAppended ==
    ASSUME TypeOK, PlannedModelsFit, BudgetConserved, OneOverrunAtMost, MoneyForMore,
           Control, PlanMeetsRequest, pc = "call",
           NEW call \in Call, calls' = Append(calls, call), UNCHANGED <<request, facade>>,
           call.plan = plan, call.left = remaining - call.cost, call.left = remaining',
           total' = total + call.cost,
           call.cost = IF call.answered THEN ActualCost(call.model, call.input, call.output) ELSE 0
    PROVE  PlannedModelsFit' /\ BudgetConserved' /\ OneOverrunAtMost'
<1>1. /\ calls \in Seq(Call) /\ Len(calls) \in Nat
      /\ Len(calls') = Len(calls) + 1
      /\ \A i \in 1..Len(calls) : calls'[i] = calls[i]
      /\ calls'[Len(calls) + 1] = call
  <2>1. calls \in Seq(Call)
    BY DEF TypeOK
  <2>2. QED
    BY <2>1
<1>2. PlannedModelsFit'
  <2>1. Fits(call.plan.model)'
    <3>1. plan.model \in Models /\ attempt > 0 /\ Verdict(plan.model) = "ALLOW"
      BY <1>1 DEF Control, Deciding
    <3>2. Meets(plan.model, request.needs, request.minQuality)
      BY <3>1, CatalogAssumption DEF PlanMeetsRequest, SoundPlan
    <3>3. QED
      BY <3>1, <3>2 DEF Meets, Fits, Verdict
  <2>2. \A i \in 1..Len(calls) : Fits(calls[i].plan.model)'
    BY DEF PlannedModelsFit, Fits, Verdict
  <2>3. QED
    BY <1>1, <2>1, <2>2 DEF PlannedModelsFit, Fits, Verdict
<1>3. BudgetConserved'
  <2>1. /\ remaining \in Int /\ total \in Nat /\ call.cost \in Nat /\ request.budget \in Int
    BY ArgumentTypes DEF TypeOK, Call
  <2>2. ASSUME NEW i \in 1..Len(calls) + 1
        PROVE  LeftBefore(i)' = LeftBefore(i)
    <3>1. i = 1 \/ i - 1 \in 1..Len(calls)
      BY <1>1
    <3>2. QED
      BY <1>1, <3>1 DEF LeftBefore
  <2>3. LeftBefore(Len(calls) + 1)' = call.left
    BY <1>1 DEF LeftBefore
  <2>4. (total + remaining = request.budget)'
    BY <2>1 DEF BudgetConserved
  <2>5. (remaining = LeftBefore(Len(calls) + 1))'
    BY <1>1, <2>3
  <2>6. \A m, input, output : ActualCost(m, input, output)' = ActualCost(m, input, output)
    BY DEF ActualCost
  <2>7. ASSUME NEW i \in 1..Len(calls')
        PROVE  /\ (calls[i].left = LeftBefore(i) - calls[i].cost)'
               /\ (calls[i].cost = IF calls[i].answered
                                  THEN ActualCost(calls[i].model, calls[i].input, calls[i].output)
                                  ELSE 0)'
    <3>1. CASE i = Len(calls) + 1
      BY <1>1, <2>2, <3>1 DEF BudgetConserved
    <3>2. CASE i \in 1..Len(calls)
      BY <1>1, <2>2, <3>2 DEF BudgetConserved
    <3>3. QED
      BY <1>1, <2>7, <3>1, <3>2
  <2>8. QED
    BY <2>4, <2>5, <2>7 DEF BudgetConserved
<1>4. OneOverrunAtMost'
  <2>1. Len(calls) > 0 => (calls[Len(calls)].answered => calls[Len(calls)].left > 0)
    BY DEF MoneyForMore, Deciding, Latest
  <2>2. \A i \in 1..Len(calls) : calls[i].answered => calls[i].left > 0
    BY <1>1, <2>1 DEF OneOverrunAtMost
  <2>3. QED
    BY <1>1, <2>2 DEF OneOverrunAtMost
<1>5. QED
  BY <1>2, <1>3, <1>4

(* Nothing an invariant reads changes when no call is made.                *)
LEMMA CallsUnchanged ==
    ASSUME PlannedModelsFit, BudgetConserved, OneOverrunAtMost,
           UNCHANGED <<request, facade, remaining, total, calls>>
    PROVE  PlannedModelsFit' /\ BudgetConserved' /\ OneOverrunAtMost'
BY DEF PlannedModelsFit, Fits, Verdict, BudgetConserved, LeftBefore,
       OneOverrunAtMost, ActualCost

(* Every write of run() is a well-formed audit entry.                      *)
LEMMA LogType ==
    ASSUME NEW event \in Events, NEW result \in {"success", "failure", "blocked", "pending_approval"},
           NEW tool \in Models \cup {NoModel}, audit \in Seq(AuditEntry), Log(event, result, tool)
    PROVE  audit' \in Seq(AuditEntry)
BY DEF Log, Entry, AuditEntry

(* The invariant holds before the first step.                              *)
LEMMA InitInv == Init => Inv
<1> SUFFICES ASSUME Init PROVE Inv
  OBVIOUS
<1>1. request.budget \in Int
  BY RunAssumption DEF Init, Request
<1>2. NoPlan \in Plan
  BY DEF NoPlan, Plan
<1>3. calls \in Seq(Call) /\ audit \in Seq(AuditEntry) /\ ledger \in Seq(SpendEntry)
  BY EmptySeq DEF Init
<1>4. TypeOK
  <2>1. request \in Requests /\ facade \in Facades
    BY DEF Init
  <2>2. pc = "start" /\ attempt = 0 /\ verdict = "ALLOW" /\ stopped = "none"
    BY DEF Init
  <2>3. plan \in Plan
    BY <1>2 DEF Init
  <2>4. remaining \in Int /\ total \in Nat
    BY <1>1 DEF Init
  <2>5. QED
    BY <1>3, <2>1, <2>2, <2>3, <2>4 DEF TypeOK
<1>5. Len(calls) = 0
  BY DEF Init
<1>6. Control /\ PlanMeetsRequest /\ MoneyForMore
  BY <1>5 DEF Init, Control, PlanMeetsRequest, MoneyForMore, NoPlan, Deciding, AfterCall
<1>7. PlannedModelsFit /\ BudgetConserved /\ OneOverrunAtMost
  BY <1>1, <1>5 DEF Init, PlannedModelsFit, BudgetConserved, LeftBefore, OneOverrunAtMost
<1>8. QED
  BY <1>4, <1>6, <1>7 DEF Inv

-----------------------------------------------------------------------------
(* The call that ProviderFails or ProviderAnswers appends, with all that   *)
(* CallAppended asks of it.                                                *)
LEMMA CallMade ==
    ASSUME Inv, ProviderFails \/ ProviderAnswers
    PROVE  \E call \in Call :
              /\ calls' = Append(calls, call)
              /\ call.plan = plan
              /\ pc' = IF call.answered THEN "spend" ELSE "logFailure"
              /\ call.left = remaining - call.cost /\ call.left = remaining'
              /\ total' = total + call.cost
              /\ call.cost = IF call.answered
                             THEN ActualCost(call.model, call.input, call.output) ELSE 0
<1>1. /\ pc = "call" /\ plan \in Plan /\ plan.model \in Models
      /\ remaining \in Int /\ total \in Nat /\ plan.output \in Nat
  BY DEF Inv, TypeOK, Control, ProviderFails, ProviderAnswers, Plan
<1>2. CalledModel \in Models \cup {Foreign}
  <2>1. attempt > 0
    BY <1>1 DEF Inv, TypeOK, Control, Deciding
  <2>2. QED
    BY <1>1, <2>1, CalledModelType DEF Inv, PlanMeetsRequest
<1>3. CASE ProviderFails
  <2> DEFINE call == [plan |-> plan, answered |-> FALSE, model |-> CalledModel,
                      input |-> 0, output |-> 0, truncated |-> FALSE,
                      cost |-> 0, left |-> remaining]
  <2>1. call \in Call
    BY <1>1, <1>2 DEF Call
  <2>2. /\ calls' = Append(calls, call) /\ remaining' = remaining /\ total' = total
        /\ pc' = "logFailure"
    BY <1>3 DEF ProviderFails
  <2>3. /\ call.plan = plan /\ call.left = remaining /\ call.cost = 0 /\ call.answered = FALSE
    OBVIOUS
  <2> HIDE DEF call
  <2>4. QED
    BY <1>1, <2>1, <2>2, <2>3
<1>4. CASE ProviderAnswers
  <2>1. PICK input \in InputCounts, truncated \in BOOLEAN,
             output \in {o \in OutputCounts : o <= plan.output} \cup {plan.output} :
             LET cost == ActualCost(CalledModel, input, output)
             IN  /\ Charge(cost)
                 /\ calls' = Append(calls, [plan |-> plan, answered |-> TRUE,
                                            model |-> CalledModel, input |-> input,
                                            output |-> output, truncated |-> truncated,
                                            cost |-> cost, left |-> remaining - cost])
    BY <1>4 DEF ProviderAnswers
  <2> DEFINE cost == ActualCost(CalledModel, input, output)
             call == [plan |-> plan, answered |-> TRUE, model |-> CalledModel,
                      input |-> input, output |-> output, truncated |-> truncated,
                      cost |-> cost, left |-> remaining - cost]
  <2>2. input \in Nat /\ output \in Nat
    BY <1>1, RunAssumption
  <2>3. cost \in Nat
    BY <2>2, CostIsNat
  <2>4. /\ calls' = Append(calls, call) /\ total' = total + cost /\ remaining' = remaining - cost
        /\ pc' = "spend"
    BY <1>4, <2>1 DEF Charge, ProviderAnswers
  <2> HIDE DEF cost
  <2>5. call \in Call
    BY <1>1, <1>2, <2>2, <2>3 DEF Call
  <2>6. /\ call.plan = plan /\ call.left = remaining - cost /\ call.cost = cost
        /\ call.answered = TRUE /\ call.model = CalledModel
        /\ call.input = input /\ call.output = output
    OBVIOUS
  <2>7. cost = ActualCost(CalledModel, input, output)
    BY DEF cost
  <2> HIDE DEF call
  <2>8. QED
    BY <2>4, <2>5, <2>6, <2>7
<1>5. QED
  BY <1>3, <1>4

(* Types are preserved by every step.                                      *)
LEMMA NextTypeOK ==
    ASSUME Inv, Next
    PROVE  TypeOK'
<1> USE DEF Ended, Stops
<1>1. /\ request \in Requests /\ facade \in Facades /\ attempt \in Nat
      /\ attempt > 0 => attempt <= request.maxAttempts
      /\ plan \in Plan /\ remaining \in Int /\ total \in Nat
      /\ calls \in Seq(Call) /\ audit \in Seq(AuditEntry) /\ ledger \in Seq(SpendEntry)
      /\ plan.model \in Models \cup {NoModel}
      /\ request.maxAttempts \in Int
  BY ArgumentTypes DEF Inv, TypeOK, Plan
<1>2. ASSUME NEW event \in Events, NEW result \in {"success", "failure"},
             NEW tool \in Models \cup {NoModel}, Log(event, result, tool)
      PROVE  audit' \in Seq(AuditEntry)
  BY <1>1, <1>2, LogType
<1>3. CASE RejectMaxAttempts
  BY <1>3 DEF Inv, TypeOK, RejectMaxAttempts
<1>4. CASE StartTask
  <2>1. audit' \in Seq(AuditEntry)
    BY <1>2, <1>4 DEF StartTask, Events
  <2>2. QED
    BY <1>4, <2>1 DEF Inv, TypeOK, StartTask
<1>5. CASE RejectMinQuality
  BY <1>5 DEF Inv, TypeOK, RejectMinQuality
<1>6. CASE BuildPlan
  <2>1. plan' \in Plan
    BY <1>6, FirstPlan DEF Inv, SoundPlan
  <2>2. plan'.model \in Models \cup {NoModel}
    BY <2>1 DEF Plan
  <2>3. audit' \in Seq(AuditEntry)
    BY <1>2, <1>6, <2>2 DEF BuildPlan, Events
  <2>4. attempt' = 1 /\ request.maxAttempts >= 1
    BY <1>6 DEF BuildPlan, Inv, Control
  <2>5. QED
    BY <1>1, <1>6, <2>1, <2>3, <2>4 DEF Inv, TypeOK, BuildPlan
<1>7. CASE Govern
  <2>1. verdict' \in {"ALLOW", "DENY", "REQUIRE_APPROVAL"}
    BY <1>7 DEF Govern, Verdict
  <2>2. audit' \in Seq(AuditEntry)
    <3>1. PolicyOutcome(verdict') \in {"success", "failure", "blocked", "pending_approval"}
      BY <2>1 DEF PolicyOutcome
    <3>2. QED
      BY <1>1, <1>7, <3>1, LogType DEF Govern, Events
  <2>3. QED
    BY <1>7, <2>1, <2>2 DEF Inv, TypeOK, Govern
<1>8. CASE StopOnVerdict
  BY <1>8 DEF Inv, TypeOK, StopOnVerdict
<1>9. CASE NoQualifyingModel
  BY <1>9 DEF Inv, TypeOK, NoQualifyingModel
<1>10. CASE AllowAction
  <2>1. audit' \in Seq(AuditEntry)
    BY <1>1, <1>2, <1>10 DEF AllowAction, Events
  <2>2. QED
    BY <1>10, <2>1 DEF Inv, TypeOK, AllowAction
<1>11. CASE ProviderFails \/ ProviderAnswers
  <2>1. PICK call \in Call : /\ calls' = Append(calls, call)
                             /\ call.left = remaining' /\ total' = total + call.cost
    BY <1>11, CallMade
  <2>2. calls' \in Seq(Call) /\ remaining' \in Int /\ total' \in Nat
    BY <1>1, <2>1 DEF Call
  <2>3. QED
    BY <1>11, <2>2 DEF Inv, TypeOK, ProviderFails, ProviderAnswers
<1>12. CASE LogFailure
  <2>1. audit' \in Seq(AuditEntry)
    BY <1>1, <1>2, <1>12 DEF LogFailure, Events
  <2>2. QED
    BY <1>12, <2>1 DEF Inv, TypeOK, LogFailure
<1>13. CASE RecordSpend
  <2>1. Latest \in Call /\ Latest.plan.model \in Models /\ Latest.plan \in Plan
    BY <1>1, <1>13 DEF RecordSpend, Inv, Control, AfterCall, Latest
  <2>2. Spent(Latest) \in SpendEntry
    BY <2>1 DEF Spent, SpendEntry, Call, Plan
  <2>3. ledger' \in Seq(SpendEntry)
    BY <1>1, <1>13, <2>2 DEF RecordSpend
  <2>4. QED
    BY <1>13, <2>3 DEF Inv, TypeOK, RecordSpend
<1>14. CASE LogSuccess
  <2>1. audit' \in Seq(AuditEntry)
    BY <1>1, <1>2, <1>14 DEF LogSuccess, Events
  <2>2. QED
    BY <1>14, <2>1 DEF Inv, TypeOK, LogSuccess
<1>15. CASE Sufficient
  <2>1. audit' \in Seq(AuditEntry)
    BY <1>2, <1>15 DEF Sufficient, Events
  <2>2. QED
    BY <1>15, <2>1 DEF Inv, TypeOK, Sufficient
<1>16. CASE Insufficient
  <2>1. audit' \in Seq(AuditEntry)
    BY <1>2, <1>16 DEF Insufficient, Events
  <2>2. QED
    BY <1>16, <2>1 DEF Inv, TypeOK, Insufficient
<1>17. CASE StopAtMaxAttempts
  BY <1>17 DEF Inv, TypeOK, StopAtMaxAttempts
<1>18. CASE StopAtBudget
  BY <1>18 DEF Inv, TypeOK, StopAtBudget
<1>19. CASE StopAsSuggested
  <2>1. audit' \in Seq(AuditEntry)
    BY <1>2, <1>19 DEF StopAsSuggested, Events
  <2>2. stopped' \in Stops
    BY <1>19 DEF StopAsSuggested
  <2>3. QED
    BY <1>19, <2>1, <2>2 DEF Inv, TypeOK, StopAsSuggested
<1>20. CASE ApplySuggestion
  <2>1. audit' \in Seq(AuditEntry)
    BY <1>2, <1>20 DEF ApplySuggestion, Events
  <2>2. plan.model \in Models /\ SoundPlan(plan, request.needs, request.minQuality)
    BY <1>1, <1>20 DEF ApplySuggestion, Inv, Control, PlanMeetsRequest, AfterCall
  <2>3. plan' \in Plan
    BY <1>20, <2>2, AppliedPlan DEF Inv, SoundPlan
  <2>4. attempt' \in Nat /\ attempt' <= request.maxAttempts
    BY <1>1, <1>20 DEF ApplySuggestion
  <2>5. QED
    BY <1>20, <2>1, <2>3, <2>4 DEF Inv, TypeOK, ApplySuggestion
<1>21. CASE Finish
  <2>1. audit' \in Seq(AuditEntry)
    BY <1>2, <1>21 DEF Finish, Events
  <2>2. QED
    BY <1>21, <2>1 DEF Inv, TypeOK, Finish
<1>22. CASE Crash
  BY <1>22 DEF Inv, TypeOK, Crash
<1>23. CASE Done
  BY <1>23 DEF Inv, TypeOK, Done, vars
<1>24. QED
  BY <1>3, <1>4, <1>5, <1>6, <1>7, <1>8, <1>9, <1>10, <1>11, <1>12, <1>13, <1>14, <1>15,
     <1>16, <1>17, <1>18, <1>19, <1>20, <1>21, <1>22, <1>23 DEF Next, Step

(* Where the loop goes next.                                               *)
LEMMA NextControl ==
    ASSUME Inv, Next
    PROVE  Control' /\ MoneyForMore'
<1> USE DEF Deciding, AfterCall, Ended
<1>1. /\ calls \in Seq(Call) /\ Len(calls) \in Nat /\ attempt \in Nat
      /\ request.maxAttempts \in Int
  <2>1. calls \in Seq(Call) /\ attempt \in Nat /\ request.maxAttempts \in Int
    BY ArgumentTypes DEF Inv, TypeOK
  <2>2. QED
    BY <2>1
<1>2. ASSUME UNCHANGED <<request, facade, plan, calls, attempt>>
      PROVE  Latest' = Latest /\ Verdict(plan.model)' = Verdict(plan.model)
  BY <1>2 DEF Latest, Verdict
<1>3. CASE RejectMaxAttempts \/ RejectMinQuality \/ StopOnVerdict \/ NoQualifyingModel
           \/ Sufficient \/ StopAtMaxAttempts \/ StopAtBudget \/ StopAsSuggested
           \/ Finish \/ Crash
  <2>1. pc' \in Ended \cup {"finish"}
    BY <1>3 DEF RejectMaxAttempts, RejectMinQuality, StopOnVerdict, NoQualifyingModel,
       Sufficient, StopAtMaxAttempts, StopAtBudget, StopAsSuggested, Finish, Crash
  <2>2. QED
    BY <2>1 DEF Control, MoneyForMore
<1>4. CASE StartTask
  BY <1>4 DEF StartTask, Inv, Control, MoneyForMore
<1>5. CASE BuildPlan
  BY <1>5 DEF BuildPlan, Inv, Control, MoneyForMore
<1>6. CASE Govern
  BY <1>1, <1>2, <1>6 DEF Govern, Inv, Control, MoneyForMore
<1>7. CASE AllowAction
  <2>1. plan.model \in Models
    BY <1>7 DEF AllowAction, Inv, TypeOK, Plan
  <2>2. QED
    BY <1>2, <1>7, <2>1 DEF AllowAction, Inv, Control, MoneyForMore
<1>8. CASE ProviderFails \/ ProviderAnswers
  <2>1. PICK call \in Call : calls' = Append(calls, call) /\ call.plan = plan
    BY <1>8, CallMade
  <2>2. Len(calls') = Len(calls) + 1 /\ Latest' = call
    BY <1>1, <2>1 DEF Latest
  <2>3. /\ pc = "call" /\ pc' \in {"logFailure", "spend"}
        /\ UNCHANGED <<request, facade, plan, attempt>>
    BY <1>8 DEF ProviderFails, ProviderAnswers
  <2>4. Verdict(plan.model)' = Verdict(plan.model)
    BY <2>3 DEF Verdict
  <2>5. QED
    BY <1>1, <2>1, <2>2, <2>3, <2>4 DEF Inv, Control, MoneyForMore
<1>9. CASE LogFailure \/ RecordSpend \/ LogSuccess \/ Insufficient
  <2>1. /\ pc \in AfterCall /\ pc' \in AfterCall
        /\ UNCHANGED <<request, facade, plan, calls, attempt>>
    BY <1>9 DEF LogFailure, RecordSpend, LogSuccess, Insufficient
  <2>2. QED
    BY <1>2, <2>1 DEF Inv, Control, MoneyForMore
<1>10. CASE ApplySuggestion
  <2>1. /\ pc = "retry" /\ pc' = "govern" /\ attempt' = attempt + 1
        /\ calls' = calls /\ remaining' = remaining /\ ~BudgetExhausted
    BY <1>10 DEF ApplySuggestion
  <2>2. Latest.answered => Latest.left > 0
    <3>1. Latest.left = remaining
      BY <1>1, <2>1 DEF Inv, Control, BudgetConserved, LeftBefore, Latest
    <3>2. remaining \in Int
      BY DEF Inv, TypeOK
    <3>3. QED
      BY <2>1, <3>1, <3>2 DEF BudgetExhausted
  <2>3. Latest' = Latest
    BY <2>1 DEF Latest
  <2>4. QED
    BY <1>1, <2>1, <2>2, <2>3 DEF Inv, Control, MoneyForMore
<1>11. CASE Done
  BY <1>2, <1>11 DEF Done, vars, Inv, Control, MoneyForMore
<1>12. QED
  BY <1>3, <1>4, <1>5, <1>6, <1>7, <1>8, <1>9, <1>10, <1>11 DEF Next, Step

(* The plan is built sound and stays sound; no other step touches it.      *)
LEMMA NextPlan ==
    ASSUME Inv, Next
    PROVE  PlanMeetsRequest'
<1>1. CASE BuildPlan
  <2>1. request' = request
    BY <1>1 DEF BuildPlan
  <2>2. QED
    BY <1>1, <2>1, FirstPlan DEF Inv, PlanMeetsRequest, SoundPlan
<1>2. CASE ApplySuggestion
  <2>1. plan.model \in Models /\ SoundPlan(plan, request.needs, request.minQuality)
    BY <1>2 DEF ApplySuggestion, Inv, TypeOK, Control, PlanMeetsRequest, AfterCall
  <2>2. SoundPlan(plan', request.needs, request.minQuality) /\ request' = request
    BY <1>2, <2>1, AppliedPlan DEF ApplySuggestion, Inv
  <2>3. QED
    BY <2>2 DEF PlanMeetsRequest, SoundPlan
<1>3. CASE UNCHANGED <<request, plan, attempt>>
  BY <1>3 DEF Inv, PlanMeetsRequest, SoundPlan
<1>4. QED
  BY <1>1, <1>2, <1>3 DEF Next, Step, RejectMaxAttempts, StartTask, RejectMinQuality, Govern,
     StopOnVerdict, NoQualifyingModel, AllowAction, ProviderFails, LogFailure, ProviderAnswers,
     RecordSpend, LogSuccess, Sufficient, Insufficient, StopAtMaxAttempts, StopAtBudget,
     StopAsSuggested, Finish, Crash, Done, vars

(* Calls and money move only when a provider is called.                    *)
LEMMA NextCalls ==
    ASSUME Inv, Next
    PROVE  PlannedModelsFit' /\ BudgetConserved' /\ OneOverrunAtMost'
<1>1. CASE ProviderFails \/ ProviderAnswers
  <2>1. pc = "call" /\ UNCHANGED <<request, facade>>
    BY <1>1 DEF ProviderFails, ProviderAnswers
  <2>2. QED
    BY <1>1, <2>1, CallMade, CallAppended DEF Inv
<1>2. CASE UNCHANGED <<request, facade, remaining, total, calls>>
  BY <1>2, CallsUnchanged DEF Inv
<1>3. QED
  BY <1>1, <1>2 DEF Next, Step, RejectMaxAttempts, StartTask, RejectMinQuality, BuildPlan, Govern,
     StopOnVerdict, NoQualifyingModel, AllowAction, LogFailure, RecordSpend, LogSuccess,
     Sufficient, Insufficient, StopAtMaxAttempts, StopAtBudget, StopAsSuggested,
     ApplySuggestion, Finish, Crash, Done, vars

(* A step that changes nothing keeps the invariant.                        *)
LEMMA StutterInv ==
    ASSUME Inv, UNCHANGED vars
    PROVE  Inv'
BY DEF vars, Inv, TypeOK, Control, PlanMeetsRequest, SoundPlan, MoneyForMore, Latest, Verdict,
       PlannedModelsFit, Fits, BudgetConserved, LeftBefore, ActualCost,
       OneOverrunAtMost

(* The inductive invariant holds in every run.                             *)
THEOREM Invariance == Spec => []Inv
<1>1. Inv /\ [Next]_vars => Inv'
  BY NextTypeOK, NextControl, NextPlan, NextCalls, StutterInv DEF Inv
<1>2. QED
  BY InitInv, <1>1, PTL DEF Spec

-----------------------------------------------------------------------------
(* attempt_index never passes max_attempts, and every variable is typed.   *)
THEOREM TypeCorrectness == Spec => []TypeOK
BY Invariance, PTL DEF Inv

(* Whatever is retried, however often, no call is made on a plan for a     *)
(* model the caller's requirements or the policy exclude.                  *)
THEOREM NoUnfitPlan == Spec => []PlannedModelsFit
BY Invariance, PTL DEF Inv

(* No money is lost or counted twice between the budget, the total and the *)
(* answers of the providers.                                               *)
THEOREM MoneyAccounted == Spec => []BudgetConserved
BY Invariance, PTL DEF Inv

(* Once an answer exhausts the budget, no other call follows it.           *)
THEOREM OverrunOnlyOnce == Spec => []OneOverrunAtMost
BY Invariance, PTL DEF Inv

(* Only ApplySuggestion starts another attempt, and with a sound plan.     *)
LEMMA RetryStep ==
    ASSUME Inv, [Next]_vars, pc = "retry", pc' = "govern"
    PROVE  /\ plan'.model # plan.model \/ plan'.output > plan.output
           /\ plan'.model # plan.model /\ (Latest.answered \/ plan.fallback = {})
                => \/ Catalog[plan'.model].quality > Catalog[plan.model].quality
                   \/ Catalog[plan'.model].quality = 2
<1>1. ApplySuggestion
  BY DEF Next, Step, RejectMaxAttempts, StartTask, RejectMinQuality, BuildPlan, Govern,
     StopOnVerdict, NoQualifyingModel, AllowAction, ProviderFails, LogFailure, ProviderAnswers,
     RecordSpend, LogSuccess, Sufficient, Insufficient, StopAtMaxAttempts, StopAtBudget,
     StopAsSuggested, Finish, Crash, Done, vars, Ended
<1>2. plan.model \in Models /\ SoundPlan(plan, request.needs, request.minQuality)
  BY DEF Inv, TypeOK, Control, PlanMeetsRequest, AfterCall
<1>3. QED
  BY <1>1, <1>2, AppliedPlan DEF Inv

(* The plan of a retry is never the plan that just failed.                 *)
THEOREM RetryIsAnotherPlan == Spec => RetryChangesThePlan
<1>1. Inv /\ [Next]_vars
        => [pc = "retry" /\ pc' = "govern"
              => plan'.model # plan.model \/ plan'.output > plan.output]_vars
  BY RetryStep
<1>2. QED
  BY <1>1, Invariance, PTL DEF Spec, RetryChangesThePlan

(* A plan for another model that is no fallback is for a better one.       *)
THEOREM EscalationIsUpwards == Spec => EscalationRaisesQuality
<1>1. Inv /\ [Next]_vars
        => [pc = "retry" /\ pc' = "govern" /\ plan'.model # plan.model
              /\ (Latest.answered \/ plan.fallback = {})
              => LET class(m) == Catalog[m].quality
                 IN  class(plan'.model) > class(plan.model) \/ class(plan'.model) = 2]_vars
  BY RetryStep
<1>2. QED
  BY <1>1, Invariance, PTL DEF Spec, EscalationRaisesQuality

(* Both, of the plan of every retry.                                       *)
THEOREM RetriesProgress == Spec => RetryMakesProgress
BY RetryIsAnotherPlan, EscalationIsUpwards DEF RetryMakesProgress

-----------------------------------------------------------------
(* The logs: the audit log and the spending log beside the calls.          *)

(* Of the positions up to n, those in S are at most as many as those in a  *)
(* set around it, and one position more makes one more.                    *)
LEMMA Counting ==
    ASSUME NEW n \in Nat, NEW S \in SUBSET (1..n)
    PROVE  /\ Cardinality(S) \in Nat
           /\ S # {} => Cardinality(S) >= 1
           /\ Cardinality(S \cup {n + 1}) = Cardinality(S) + 1
           /\ \A T \in SUBSET S : Cardinality(T) <= Cardinality(S)
<1>1. IsFiniteSet(S)
  <2>1. IsFiniteSet(1..n)
    BY FS_Interval
  <2>2. QED
    BY <2>1, FS_Subset
<1>2. Cardinality(S) \in Nat /\ (Cardinality(S) = 0 <=> S = {})
  BY <1>1, FS_CardinalityType, FS_EmptySet
<1>3. n + 1 \notin S
  OBVIOUS
<1>4. Cardinality(S \cup {n + 1}) = Cardinality(S) + 1
  BY <1>1, <1>3, FS_AddElement
<1>5. \A T \in SUBSET S : Cardinality(T) <= Cardinality(S)
  BY <1>1, FS_Subset
<1>6. ASSUME S # {}
      PROVE  Cardinality(S) >= 1
  <2>1. Cardinality(S) # 0
    BY <1>2, <1>6, Zenon
  <2>2. QED
    BY <1>2, <2>1
<1>7. QED
  BY <1>2, <1>4, <1>5, <1>6

(* Answers(i) numbers the answered calls, in their order.                  *)
LEMMA AnswersInOrder ==
    ASSUME calls \in Seq(Call), NEW i \in 1..Len(calls)
    PROVE  /\ Answers(i) \in Nat /\ Answers(Len(calls)) \in Nat
           /\ Answers(i) <= Answers(Len(calls))
           /\ calls[i].answered => Answers(i) >= 1
           /\ \A j \in 1..Len(calls) : i < j /\ calls[j].answered => Answers(i) < Answers(j)
<1> DEFINE Of(n) == {k \in 1..n : calls[k].answered}
<1>1. Len(calls) \in Nat
  OBVIOUS
<1>2. \A n \in Nat : Of(n) \in SUBSET (1..n)
  OBVIOUS
<1>3. \A n \in Nat : Answers(n) = Cardinality(Of(n))
  BY DEF Answers
<1>4. \A m, n \in Nat : m <= n => Of(m) \in SUBSET Of(n)
  OBVIOUS
<1>5. \A n \in Nat : n + 1 \in 1..Len(calls) /\ calls[n + 1].answered
                     => Of(n + 1) = Of(n) \cup {n + 1}
  OBVIOUS
<1>6. calls[i].answered => Of(i) # {}
  OBVIOUS
<1> HIDE DEF Of
<1>7. \A n \in Nat : Cardinality(Of(n)) \in Nat
  BY <1>2, Counting
<1>8. \A m, n \in Nat : m <= n => Cardinality(Of(m)) <= Cardinality(Of(n))
  BY <1>2, <1>4, Counting
<1>9. \A n \in Nat : n + 1 \in 1..Len(calls) /\ calls[n + 1].answered
                     => Cardinality(Of(n + 1)) = Cardinality(Of(n)) + 1
  BY <1>2, <1>5, Counting
<1>10. ASSUME NEW j \in 1..Len(calls), i < j, calls[j].answered
       PROVE  Answers(i) < Answers(j)
  <2>1. j - 1 \in Nat /\ i <= j - 1 /\ (j - 1) + 1 = j
    BY <1>10
  <2>2. Cardinality(Of(j)) = Cardinality(Of(j - 1)) + 1
    BY <1>9, <1>10, <2>1
  <2>3. Cardinality(Of(i)) <= Cardinality(Of(j - 1))
    BY <1>8, <2>1
  <2>4. QED
    BY <1>3, <1>7, <2>1, <2>2, <2>3
<1>11. calls[i].answered => Cardinality(Of(i)) >= 1
  <2>1. i \in Nat /\ Of(i) \in SUBSET (1..i)
    BY <1>2
  <2>2. QED
    BY <1>6, <2>1, Counting
<1>12. QED
  BY <1>1, <1>3, <1>7, <1>8, <1>10, <1>11

(* A call more is an answer more, or none.                                 *)
LEMMA AnswersAppended ==
    ASSUME calls \in Seq(Call), NEW call \in Call, calls' = Append(calls, call)
    PROVE  /\ \A i \in 0..Len(calls) : Answers(i)' = Answers(i) /\ Answers(i) \in Nat
           /\ Answers(Len(calls))' = Answers(Len(calls)) + (IF call.answered THEN 1 ELSE 0)
<1>1. /\ Len(calls) \in Nat /\ calls'[Len(calls) + 1] = call /\ Len(calls') = Len(calls) + 1
      /\ \A i \in 1..Len(calls) : calls'[i] = calls[i]
  OBVIOUS
<1> DEFINE Of(n) == {k \in 1..n : calls[k].answered}
           OfNext(n) == {k \in 1..n : calls'[k].answered}
<1>2. \A n \in 0..Len(calls) : OfNext(n) = Of(n) /\ Of(n) \in SUBSET (1..n)
  BY <1>1
<1>3. OfNext(Len(calls) + 1) = IF call.answered THEN Of(Len(calls)) \cup {Len(calls) + 1}
                               ELSE Of(Len(calls))
  BY <1>1
<1>4. \A n \in 0..Len(calls) : Answers(n) = Cardinality(Of(n))
  BY DEF Answers
<1>5. \A n \in 0..Len(calls) : Answers(n)' = Cardinality(OfNext(n))
  BY DEF Answers
<1>6. Answers(Len(calls))' = Cardinality(OfNext(Len(calls) + 1))
  BY <1>1 DEF Answers
<1> HIDE DEF Of, OfNext
<1>7. \A n \in 0..Len(calls) : /\ Cardinality(Of(n)) \in Nat
                               /\ Cardinality(Of(n) \cup {n + 1}) = Cardinality(Of(n)) + 1
  <2>1. SUFFICES ASSUME NEW n \in 0..Len(calls)
                 PROVE  /\ Cardinality(Of(n)) \in Nat
                        /\ Cardinality(Of(n) \cup {n + 1}) = Cardinality(Of(n)) + 1
    OBVIOUS
  <2>2. n \in Nat /\ Of(n) \in SUBSET (1..n)
    BY <1>1, <1>2
  <2>3. QED
    BY <2>2, Counting
<1>8. Len(calls) \in 0..Len(calls)
  BY <1>1
<1>9. CASE call.answered
  BY <1>2, <1>3, <1>4, <1>5, <1>6, <1>7, <1>8, <1>9
<1>10. CASE ~call.answered
  <2>1. Answers(Len(calls))' = Answers(Len(calls)) /\ Answers(Len(calls)) \in Nat
    BY <1>3, <1>4, <1>6, <1>7, <1>8, <1>10
  <2>2. \A n \in 0..Len(calls) : Answers(n)' = Answers(n) /\ Answers(n) \in Nat
    BY <1>2, <1>4, <1>5, <1>7
  <2>3. QED
    BY <1>10, <2>1, <2>2
<1>11. QED
  BY <1>9, <1>10

(* Logged(event, i) numbers the entries of an event, in their order.       *)
LEMMA LoggedInOrder ==
    ASSUME audit \in Seq(AuditEntry), NEW event, NEW i \in Positions(event, Len(audit))
    PROVE  /\ i \in 1..Len(audit) /\ Logged(event, i) \in Nat /\ Logged(event, Len(audit)) \in Nat
           /\ 1 <= Logged(event, i) /\ Logged(event, i) <= Logged(event, Len(audit))
<1>1. Len(audit) \in Nat /\ i \in 1..Len(audit)
  BY DEF Positions
<1>2. /\ Positions(event, i) \in SUBSET (1..i)
      /\ Positions(event, Len(audit)) \in SUBSET (1..Len(audit))
      /\ Positions(event, i) \in SUBSET Positions(event, Len(audit))
      /\ Positions(event, i) # {}
  BY <1>1 DEF Positions
<1>3. /\ Cardinality(Positions(event, i)) \in Nat /\ Cardinality(Positions(event, i)) >= 1
      /\ Cardinality(Positions(event, Len(audit))) \in Nat
      /\ Cardinality(Positions(event, i)) <= Cardinality(Positions(event, Len(audit)))
  BY <1>1, <1>2, Counting
<1>4. QED
  BY <1>1, <1>3 DEF Logged

(* An entry more is the last of its event, and changes no other number.    *)
LEMMA LoggedAppended ==
    ASSUME audit \in Seq(AuditEntry), NEW event, NEW result, NEW tool, Log(event, result, tool)
    PROVE  /\ Len(audit) \in Nat /\ Len(audit') = Len(audit) + 1
           /\ audit'[Len(audit) + 1] = Entry(event, result, tool)
           /\ \A i \in 1..Len(audit) : audit'[i] = audit[i]
           /\ \A e : \A i \in 0..Len(audit) : Logged(e, i)' = Logged(e, i) /\ Logged(e, i) \in Nat
           /\ Positions(event, Len(audit))' = Positions(event, Len(audit)) \cup {Len(audit) + 1}
           /\ Logged(event, Len(audit))' = Logged(event, Len(audit)) + 1
           /\ \A i : i = Len(audit) + 1 => Logged(event, i)' = Logged(event, Len(audit))'
           /\ \A e : e # event => /\ Positions(e, Len(audit))' = Positions(e, Len(audit))
                                 /\ Logged(e, Len(audit))' = Logged(e, Len(audit))
<1>1. /\ Len(audit) \in Nat /\ Len(audit') = Len(audit) + 1
      /\ audit'[Len(audit) + 1] = Entry(event, result, tool)
      /\ \A i \in 1..Len(audit) : audit'[i] = audit[i]
  BY DEF Log
<1>2. audit'[Len(audit) + 1].event = event
  BY <1>1 DEF Entry
<1>3. ASSUME NEW e, NEW i \in 0..Len(audit)
      PROVE  Positions(e, i)' = Positions(e, i) /\ Positions(e, i) \in SUBSET (1..i)
  BY <1>1 DEF Positions
<1>4. ASSUME NEW e, NEW i \in 0..Len(audit)
      PROVE  /\ Logged(e, i)' = Logged(e, i) /\ Logged(e, i) \in Nat
             /\ Cardinality(Positions(e, i) \cup {i + 1}) = Logged(e, i) + 1
  <2>1. /\ Cardinality(Positions(e, i)) \in Nat
        /\ Cardinality(Positions(e, i) \cup {i + 1}) = Cardinality(Positions(e, i)) + 1
    <3>1. i \in Nat /\ Positions(e, i) \in SUBSET (1..i)
      BY <1>1, <1>3
    <3>2. QED
      BY <3>1, Counting
  <2>2. Positions(e, i)' = Positions(e, i)
    BY <1>3
  <2>3. QED
    BY <2>1, <2>2 DEF Logged
<1>5. Positions(event, Len(audit))' = Positions(event, Len(audit)) \cup {Len(audit) + 1}
  BY <1>1, <1>2 DEF Positions
<1>6. ASSUME NEW e, e # event
      PROVE  /\ Positions(e, Len(audit))' = Positions(e, Len(audit))
             /\ Logged(e, Len(audit))' = Logged(e, Len(audit))
  <2>1. Positions(e, Len(audit))' = Positions(e, Len(audit))
    BY <1>1, <1>2, <1>6 DEF Positions
  <2>2. QED
    BY <2>1 DEF Logged
<1>7. Logged(event, Len(audit))' = Logged(event, Len(audit)) + 1
  <2>1. Len(audit) \in 0..Len(audit)
    BY <1>1
  <2>2. Cardinality(Positions(event, Len(audit)) \cup {Len(audit) + 1})
          = Logged(event, Len(audit)) + 1
    BY <1>4, <2>1
  <2>3. QED
    BY <1>5, <2>2 DEF Logged
<1>8. ASSUME NEW i, i = Len(audit) + 1
      PROVE  Logged(event, i)' = Logged(event, Len(audit))'
  BY <1>1, <1>8 DEF Logged, Positions
<1>9. QED
  BY <1>1, <1>4, <1>5, <1>6, <1>7, <1>8

-----------------------------------------------------------------------------
(* What the two logs rest on: how the call that is being recorded went,    *)
(* and that its spending entry is still missing while it is to be written. *)
Answering ==
    /\ pc = "logFailure" => ~Latest.answered
    /\ pc \in {"spend", "logSuccess", "evaluate"} => Latest.answered

LedgerLags == pc = "spend" => Len(ledger) < Answers(Len(calls))

LedgerInv == Answering /\ LedgerLags /\ LedgerFollowsAnswers

(* TraceTellsTheRun in parts; until a call is made, the last permission is *)
(* for the model of the plan in hand.                                      *)
Allowed == Logged("ACTION_ALLOWED", Len(audit))

Executed == Logged("ACTION_EXECUTED", Len(audit))

Counts ==
    /\ pc # "crashed" =>
          /\ Allowed = Len(calls) + (IF pc = "call" THEN 1 ELSE 0)
          /\ Executed = Len(calls) - (IF pc \in {"logFailure", "spend", "logSuccess"} THEN 1 ELSE 0)
    /\ Executed <= Len(calls) /\ Len(calls) <= Allowed

PermissionsTold ==
    \A i \in Positions("ACTION_ALLOWED", Len(audit)) :
       audit[i].tool = IF Logged("ACTION_ALLOWED", i) <= Len(calls)
                       THEN calls[Logged("ACTION_ALLOWED", i)].plan.model
                       ELSE plan.model

OutcomesTold ==
    \A i \in Positions("ACTION_EXECUTED", Len(audit)) :
       LET call == calls[Logged("ACTION_EXECUTED", i)]
       IN  /\ audit[i].tool = call.plan.model
           /\ audit[i].result = IF call.answered THEN "success" ELSE "failure"

EndTold ==
    /\ pc \notin Ended => Positions("TASK_COMPLETED", Len(audit)) = {}
    /\ pc \notin Ended \cup {"finish"} => stopped = "none"
    /\ pc = "finish" => stopped # "sufficient"
    /\ pc = "returned" /\ stopped \notin {"DENY", "REQUIRE_APPROVAL"}
          => /\ Positions("TASK_COMPLETED", Len(audit)) = {Len(audit)}
             /\ audit[Len(audit)] = Entry("TASK_COMPLETED",
                                          IF stopped = "sufficient" THEN "success" ELSE "failure",
                                          NoModel)

TraceInv == Counts /\ PermissionsTold /\ OutcomesTold /\ EndTold

(* The parts make the whole.                                               *)
LEMMA TraceParts ==
    ASSUME TraceInv
    PROVE  TraceTellsTheRun
BY DEF TraceInv, Counts, Allowed, Executed, PermissionsTold, OutcomesTold, EndTold,
       TraceTellsTheRun

(* A step that changes nothing changes nothing of the logs.                *)
LEMMA StutterLogs ==
    ASSUME UNCHANGED vars
    PROVE  /\ LedgerInv => LedgerInv'
           /\ TraceInv => TraceInv'
BY DEF vars, LedgerInv, Answering, LedgerLags, LedgerFollowsAnswers, Latest, Answers, Spent,
       TraceInv, Counts, Allowed, Executed, PermissionsTold, OutcomesTold, EndTold, Logged,
       Positions

(* The spending log and the answers: only a provider call and RecordSpend  *)
(* touch either.                                                           *)
LEMMA NextLedger ==
    ASSUME Inv, LedgerInv, Next
    PROVE  LedgerInv'
<1>1. /\ calls \in Seq(Call) /\ Len(calls) \in Nat /\ ledger \in Seq(SpendEntry)
      /\ Len(ledger) \in Nat
  <2>1. calls \in Seq(Call) /\ ledger \in Seq(SpendEntry)
    BY DEF Inv, TypeOK
  <2>2. QED
    BY <2>1
<1>2. CASE ProviderFails \/ ProviderAnswers
  <2>1. pc = "call" /\ ledger' = ledger
    BY <1>2 DEF ProviderFails, ProviderAnswers
  <2>2. PICK call \in Call : /\ calls' = Append(calls, call)
                             /\ pc' = IF call.answered THEN "spend" ELSE "logFailure"
    BY <1>2, CallMade
  <2>3. /\ Len(calls') = Len(calls) + 1 /\ Latest' = call
        /\ calls'[Len(calls) + 1] = call
        /\ \A i \in 1..Len(calls) : calls'[i] = calls[i]
    BY <1>1, <2>2 DEF Latest
  <2>4. /\ \A i \in 0..Len(calls) : Answers(i)' = Answers(i) /\ Answers(i) \in Nat
        /\ Answers(Len(calls))' = Answers(Len(calls)) + (IF call.answered THEN 1 ELSE 0)
    BY <1>1, <2>2, AnswersAppended
  <2>5. Answers(Len(calls)) = Len(ledger)
    BY <1>1, <2>1, <2>4 DEF LedgerInv, LedgerFollowsAnswers
  <2>6. Answering' /\ LedgerLags'
    BY <1>1, <2>1, <2>2, <2>3, <2>4, <2>5 DEF Answering, LedgerLags
  <2>7. /\ (Len(ledger) <= Answers(Len(calls)))'
        /\ (Answers(Len(calls)) <= Len(ledger) + (IF pc \in {"spend", "crashed"} THEN 1 ELSE 0))'
    BY <1>1, <2>1, <2>2, <2>4, <2>5
  <2>8. ASSUME NEW i \in 1..Len(calls'), calls'[i].answered, Answers(i)' <= Len(ledger')
        PROVE  ledger'[Answers(i)'] = Spent(calls'[i])
    <3>1. CASE i \in 1..Len(calls)
      BY <1>1, <2>1, <2>3, <2>4, <2>8, <3>1 DEF LedgerInv, LedgerFollowsAnswers
    <3>2. CASE i = Len(calls')
      <4>1. Answers(i)' = Answers(Len(calls))'
        BY <3>2
      <4>2. Answers(i)' = Len(ledger) + 1
        BY <2>3, <2>4, <2>5, <2>8, <3>2, <4>1
      <4>3. QED
        BY <1>1, <2>1, <2>8, <4>2
    <3>3. QED
      BY <1>1, <2>3, <3>1, <3>2
  <2>9. QED
    BY <2>6, <2>7, <2>8 DEF LedgerInv, LedgerFollowsAnswers, Spent
<1>3. CASE RecordSpend
  <2>1. /\ pc = "spend" /\ pc' = "logSuccess" /\ calls' = calls
        /\ ledger' = Append(ledger, Spent(Latest))
    BY <1>3 DEF RecordSpend
  <2>2. Len(calls) \in 1..Len(calls)
    BY <1>1, <2>1 DEF Inv, Control, AfterCall
  <2>3. Answers(Len(calls)) = Len(ledger) + 1
    BY <1>1, <2>1, <2>2, AnswersInOrder DEF LedgerInv, LedgerLags, LedgerFollowsAnswers
  <2>4. \A i \in 1..Len(calls) : Answers(i)' = Answers(i) /\ Answers(i) \in Nat
    BY <1>1, <2>1, AnswersInOrder DEF Answers
  <2>5. /\ Len(ledger') = Len(ledger) + 1 /\ ledger'[Len(ledger) + 1] = Spent(Latest)
        /\ \A k \in 1..Len(ledger) : ledger'[k] = ledger[k]
    BY <1>1, <2>1
  <2>6. Latest' = Latest /\ Latest.answered /\ Latest = calls[Len(calls)]
    BY <2>1 DEF Latest, LedgerInv, Answering
  <2>7. ASSUME NEW i \in 1..Len(calls), calls[i].answered, Answers(i) <= Len(ledger) + 1
        PROVE  ledger'[Answers(i)] = Spent(calls[i])
    <3>1. CASE Answers(i) <= Len(ledger)
      <4>1. Answers(i) \in 1..Len(ledger)
        BY <1>1, <2>7, <3>1, AnswersInOrder
      <4>2. QED
        BY <2>5, <2>7, <3>1, <4>1 DEF LedgerInv, LedgerFollowsAnswers
    <3>2. CASE Answers(i) = Len(ledger) + 1
      <4>1. i = Len(calls)
        BY <1>1, <2>2, <2>3, <2>4, <2>6, <3>2, AnswersInOrder
      <4>2. QED
        BY <2>5, <2>6, <3>2, <4>1
    <3>3. QED
      BY <1>1, <2>4, <2>7, <3>1, <3>2
  <2>8. LedgerFollowsAnswers'
    <3>1. /\ (Len(ledger) <= Answers(Len(calls)))'
          /\ (Answers(Len(calls)) <= Len(ledger)
                + (IF pc \in {"spend", "crashed"} THEN 1 ELSE 0))'
      BY <1>1, <2>1, <2>2, <2>3, <2>4, <2>5
    <3>2. QED
      BY <2>1, <2>4, <2>5, <2>7, <3>1 DEF LedgerFollowsAnswers, Spent
  <2>9. QED
    BY <2>1, <2>6, <2>8 DEF LedgerInv, Answering, LedgerLags
<1>4. CASE /\ UNCHANGED <<calls, ledger>>
           /\ pc' \notin {"logFailure", "spend", "logSuccess"}
           /\ (pc \in {"spend", "crashed"} => pc' = "crashed")
           /\ pc' = "evaluate" => pc \in {"evaluate", "logSuccess"}
  <2>1. Latest' = Latest /\ \A i : Answers(i)' = Answers(i)
    BY <1>4 DEF Latest, Answers
  <2>2. Answers(Len(calls))' = Answers(Len(calls))
    BY <1>4 DEF Answers
  <2>3. /\ (Len(ledger) <= Answers(Len(calls)))'
        /\ (Answers(Len(calls)) <= Len(ledger) + (IF pc \in {"spend", "crashed"} THEN 1 ELSE 0))'
    <3>1. Answers(Len(calls)) \in Nat
      BY <1>1, Counting DEF Answers
    <3>2. QED
      BY <1>1, <1>4, <2>2, <3>1 DEF LedgerInv, LedgerFollowsAnswers
  <2>4. ASSUME NEW i \in 1..Len(calls), calls[i].answered, Answers(i) <= Len(ledger)
        PROVE  ledger[Answers(i)] = Spent(calls[i])
    BY <2>4 DEF LedgerInv, LedgerFollowsAnswers
  <2>5. LedgerFollowsAnswers'
    BY <1>4, <2>1, <2>3, <2>4 DEF LedgerFollowsAnswers, Spent
  <2>6. QED
    BY <1>4, <2>1, <2>5 DEF LedgerInv, Answering, LedgerLags
<1>5. CASE Done
  BY <1>5, StutterLogs DEF Done
<1>6. QED
  BY <1>2, <1>3, <1>4, <1>5 DEF Next, Step, RejectMaxAttempts, StartTask, RejectMinQuality,
     BuildPlan, Govern, StopOnVerdict, NoQualifyingModel, AllowAction, LogFailure, LogSuccess,
     Sufficient, Insufficient, StopAtMaxAttempts, StopAtBudget, StopAsSuggested,
     ApplySuggestion, Finish, Crash, vars, Ended

(* A write that is no permission and no outcome leaves the told what is    *)
(* told, as long as the plan changes only when no permission is open.      *)
LEMMA ToldByOthers ==
    ASSUME TypeOK, PermissionsTold, OutcomesTold, Executed <= Len(calls), calls' = calls,
           plan' = plan \/ Allowed <= Len(calls),
           NEW event, event \notin {"ACTION_ALLOWED", "ACTION_EXECUTED"}, NEW result, NEW tool,
           Log(event, result, tool)
    PROVE  PermissionsTold' /\ OutcomesTold' /\ Allowed' = Allowed /\ Executed' = Executed
<1>1. audit \in Seq(AuditEntry) /\ Len(calls) \in Nat
  <2>1. calls \in Seq(Call) /\ audit \in Seq(AuditEntry)
    BY DEF TypeOK
  <2>2. QED
    BY <2>1
<1>2. /\ Len(audit) \in Nat
      /\ \A i \in 1..Len(audit) : audit'[i] = audit[i]
      /\ \A e : \A i \in 0..Len(audit) : Logged(e, i)' = Logged(e, i) /\ Logged(e, i) \in Nat
      /\ \A e \in {"ACTION_ALLOWED", "ACTION_EXECUTED"} :
            /\ Positions(e, Len(audit))' = Positions(e, Len(audit))
            /\ Logged(e, Len(audit))' = Logged(e, Len(audit))
  BY <1>1, LoggedAppended
<1>3. Allowed' = Allowed /\ Executed' = Executed
  BY <1>2 DEF Allowed, Executed
<1>4. ASSUME NEW i \in Positions("ACTION_ALLOWED", Len(audit))'
      PROVE  audit'[i].tool = IF Logged("ACTION_ALLOWED", i)' <= Len(calls)
                              THEN calls[Logged("ACTION_ALLOWED", i)'].plan.model
                              ELSE plan'.model
  <2>1. i \in Positions("ACTION_ALLOWED", Len(audit))
    BY <1>2
  <2>2. i \in 1..Len(audit) /\ Logged("ACTION_ALLOWED", i) <= Allowed /\ Allowed \in Nat
    BY <1>1, <2>1, LoggedInOrder DEF Allowed
  <2>3. /\ audit'[i] = audit[i] /\ Logged("ACTION_ALLOWED", i)' = Logged("ACTION_ALLOWED", i)
        /\ Logged("ACTION_ALLOWED", i) \in Nat
    BY <1>2, <2>2
  <2>4. QED
    BY <1>1, <2>1, <2>2, <2>3 DEF PermissionsTold
<1>5. ASSUME NEW i \in Positions("ACTION_EXECUTED", Len(audit))'
      PROVE  /\ i \in Positions("ACTION_EXECUTED", Len(audit)) /\ audit'[i] = audit[i]
             /\ Logged("ACTION_EXECUTED", i)' = Logged("ACTION_EXECUTED", i)
  <2>1. i \in Positions("ACTION_EXECUTED", Len(audit))
    BY <1>2
  <2>2. i \in 1..Len(audit)
    BY <2>1 DEF Positions
  <2>3. QED
    BY <1>2, <2>1, <2>2
<1>6. OutcomesTold'
  BY <1>5 DEF OutcomesTold
<1>7. PermissionsTold'
  BY <1>4 DEF PermissionsTold
<1>8. QED
  BY <1>3, <1>6, <1>7

(* What is told stays told when nothing is written and no call is made.    *)
LEMMA ToldUnchanged ==
    ASSUME UNCHANGED <<audit, calls, plan>>
    PROVE  /\ PermissionsTold => PermissionsTold'
           /\ OutcomesTold => OutcomesTold'
           /\ Allowed' = Allowed /\ Executed' = Executed
           /\ \A e : Positions(e, Len(audit))' = Positions(e, Len(audit))
BY DEF PermissionsTold, OutcomesTold, Allowed, Executed, Logged, Positions

(* The audit log and the calls, at every step.                             *)
LEMMA NextTrace ==
    ASSUME Inv, Answering, TraceInv, Next
    PROVE  TraceInv'
<1> USE DEF Ended
<1>1. /\ TypeOK /\ calls \in Seq(Call) /\ Len(calls) \in Nat
      /\ audit \in Seq(AuditEntry) /\ Len(audit) \in Nat
      /\ Counts /\ PermissionsTold /\ OutcomesTold /\ EndTold
      /\ Allowed \in Nat /\ Executed \in Nat
  <2>1. calls \in Seq(Call) /\ audit \in Seq(AuditEntry)
    BY DEF Inv, TypeOK
  <2>2. Len(audit) \in Nat /\ \A e : Positions(e, Len(audit)) \in SUBSET (1..Len(audit))
    BY <2>1 DEF Positions
  <2>3. Allowed \in Nat /\ Executed \in Nat
    BY <2>2, Counting DEF Allowed, Executed, Logged
  <2>4. QED
    BY <2>1, <2>2, <2>3 DEF Inv, TraceInv
<1>2. CASE ProviderFails \/ ProviderAnswers
  <2>1. pc = "call" /\ UNCHANGED <<audit, plan, stopped>>
    BY <1>2 DEF ProviderFails, ProviderAnswers
  <2>2. PICK call \in Call : /\ calls' = Append(calls, call) /\ call.plan = plan
                             /\ pc' = IF call.answered THEN "spend" ELSE "logFailure"
    BY <1>2, CallMade
  <2>3. /\ Len(calls') = Len(calls) + 1 /\ calls'[Len(calls) + 1] = call
        /\ \A i \in 1..Len(calls) : calls'[i] = calls[i]
        /\ pc' \in {"spend", "logFailure"}
    BY <1>1, <2>2
  <2>4. /\ \A e : Positions(e, Len(audit))' = Positions(e, Len(audit))
        /\ \A e, i : Logged(e, i)' = Logged(e, i)
        /\ Allowed' = Allowed /\ Executed' = Executed
    BY <2>1 DEF Positions, Logged, Allowed, Executed
  <2>5. Allowed = Len(calls) + 1 /\ Executed = Len(calls)
    BY <1>1, <2>1 DEF Counts
  <2>6. Counts'
    BY <1>1, <2>3, <2>4, <2>5 DEF Counts
  <2>7. ASSUME NEW i \in Positions("ACTION_ALLOWED", Len(audit))
        PROVE  audit[i].tool = IF Logged("ACTION_ALLOWED", i) <= Len(calls')
                               THEN calls'[Logged("ACTION_ALLOWED", i)].plan.model
                               ELSE plan.model
    <3>1. Logged("ACTION_ALLOWED", i) \in 1..(Len(calls) + 1)
      BY <1>1, <2>5, LoggedInOrder DEF Allowed
    <3>2. CASE Logged("ACTION_ALLOWED", i) = Len(calls) + 1
      BY <1>1, <2>2, <2>3, <3>2 DEF PermissionsTold
    <3>3. CASE Logged("ACTION_ALLOWED", i) \in 1..Len(calls)
      BY <1>1, <2>3, <3>3 DEF PermissionsTold
    <3>4. QED
      BY <1>1, <3>1, <3>2, <3>3
  <2>8. ASSUME NEW i \in Positions("ACTION_EXECUTED", Len(audit))
        PROVE  calls'[Logged("ACTION_EXECUTED", i)] = calls[Logged("ACTION_EXECUTED", i)]
    <3>1. Logged("ACTION_EXECUTED", i) \in 1..Len(calls)
      BY <1>1, <2>5, LoggedInOrder DEF Executed
    <3>2. QED
      BY <2>3, <3>1
  <2>9. PermissionsTold' /\ OutcomesTold'
    <3>1. PermissionsTold'
      BY <2>1, <2>4, <2>7 DEF PermissionsTold
    <3>2. OutcomesTold'
      BY <1>1, <2>1, <2>4, <2>8 DEF OutcomesTold
    <3>3. QED
      BY <3>1, <3>2
  <2>10. EndTold'
    BY <1>1, <2>1, <2>3, <2>4 DEF EndTold
  <2>11. QED
    BY <2>6, <2>9, <2>10 DEF TraceInv
<1>3. CASE AllowAction
  <2>1. /\ pc = "gate" /\ pc' = "call" /\ UNCHANGED <<calls, plan, stopped>>
        /\ Log("ACTION_ALLOWED", "success", plan.model)
    BY <1>3 DEF AllowAction
  <2>2. /\ Len(audit') = Len(audit) + 1 /\ audit'[Len(audit) + 1].tool = plan.model
        /\ \A i \in 1..Len(audit) : audit'[i] = audit[i]
        /\ \A e : \A i \in 0..Len(audit) : Logged(e, i)' = Logged(e, i) /\ Logged(e, i) \in Nat
        /\ Positions("ACTION_ALLOWED", Len(audit))'
             = Positions("ACTION_ALLOWED", Len(audit)) \cup {Len(audit) + 1}
        /\ \A e \in {"ACTION_EXECUTED", "TASK_COMPLETED"} :
              Positions(e, Len(audit))' = Positions(e, Len(audit))
        /\ Allowed' = Allowed + 1 /\ Executed' = Executed
    <3>1. /\ Len(audit') = Len(audit) + 1
          /\ audit'[Len(audit) + 1] = Entry("ACTION_ALLOWED", "success", plan.model)
          /\ \A i \in 1..Len(audit) : audit'[i] = audit[i]
          /\ \A e : \A i \in 0..Len(audit) : Logged(e, i)' = Logged(e, i) /\ Logged(e, i) \in Nat
      BY <1>1, <2>1, LoggedAppended
    <3>2. /\ Positions("ACTION_ALLOWED", Len(audit))'
               = Positions("ACTION_ALLOWED", Len(audit)) \cup {Len(audit) + 1}
          /\ Logged("ACTION_ALLOWED", Len(audit))' = Logged("ACTION_ALLOWED", Len(audit)) + 1
          /\ \A e : e # "ACTION_ALLOWED" => /\ Positions(e, Len(audit))' = Positions(e, Len(audit))
                                          /\ Logged(e, Len(audit))' = Logged(e, Len(audit))
      BY <1>1, <2>1, LoggedAppended
    <3>3. QED
      BY <3>1, <3>2 DEF Entry, Allowed, Executed
  <2>3. Allowed = Len(calls) /\ Executed = Len(calls)
    BY <1>1, <2>1 DEF Counts
  <2>4. Counts'
    BY <1>1, <2>1, <2>2, <2>3 DEF Counts
  <2>5. \A i \in Positions("ACTION_ALLOWED", Len(audit)) :
           /\ audit'[i] = audit[i] /\ Logged("ACTION_ALLOWED", i)' = Logged("ACTION_ALLOWED", i)
    BY <2>2 DEF Positions
  <2>6. \A i \in Positions("ACTION_EXECUTED", Len(audit)) :
           /\ audit'[i] = audit[i] /\ Logged("ACTION_EXECUTED", i)' = Logged("ACTION_EXECUTED", i)
    BY <2>2 DEF Positions
  <2>7. \A i : i = Len(audit) + 1 => Logged("ACTION_ALLOWED", i)' = Len(calls) + 1
    BY <1>1, <2>1, <2>2, <2>3, LoggedAppended DEF Allowed
  <2>8. PermissionsTold'
    <3>1. ASSUME NEW i \in Positions("ACTION_ALLOWED", Len(audit))'
          PROVE  audit'[i].tool = IF Logged("ACTION_ALLOWED", i)' <= Len(calls')
                                  THEN calls'[Logged("ACTION_ALLOWED", i)'].plan.model
                                  ELSE plan'.model
      <4>1. CASE i \in Positions("ACTION_ALLOWED", Len(audit))
        BY <1>1, <2>1, <2>5, <4>1 DEF PermissionsTold
      <4>2. CASE i = Len(audit) + 1
        <5>1. Logged("ACTION_ALLOWED", i)' = Len(calls) + 1 /\ ~(Len(calls) + 1 <= Len(calls'))
          BY <1>1, <2>1, <2>7, <4>2
        <5>2. QED
          BY <2>1, <2>2, <4>2, <5>1
      <4>3. QED
        BY <2>2, <4>1, <4>2
    <3>2. QED
      BY <3>1 DEF PermissionsTold
  <2>9. OutcomesTold'
    BY <1>1, <2>1, <2>2, <2>6 DEF OutcomesTold
  <2>10. EndTold'
    BY <1>1, <2>1, <2>2 DEF EndTold
  <2>11. QED
    BY <2>4, <2>8, <2>9, <2>10 DEF TraceInv
<1>4. CASE LogFailure \/ LogSuccess
  <2> DEFINE result == IF Latest.answered THEN "success" ELSE "failure"
  <2>1. /\ pc \in {"logFailure", "logSuccess"} /\ pc' \in {"retry", "evaluate"}
        /\ UNCHANGED <<calls, plan, stopped>>
        /\ Log("ACTION_EXECUTED", result, plan.model)
    BY <1>4 DEF LogFailure, LogSuccess, Answering
  <2>2. Latest.plan = plan /\ Len(calls) >= 1 /\ Latest = calls[Len(calls)]
    BY <1>1, <2>1 DEF Inv, Control, AfterCall, Latest
  <2> HIDE DEF result
  <2>3. /\ Len(audit') = Len(audit) + 1
        /\ audit'[Len(audit) + 1] = Entry("ACTION_EXECUTED", result, plan.model)
        /\ \A i \in 1..Len(audit) : audit'[i] = audit[i]
        /\ \A e : \A i \in 0..Len(audit) : Logged(e, i)' = Logged(e, i)
    BY <1>1, <2>1, LoggedAppended
  <2>4. /\ Positions("ACTION_EXECUTED", Len(audit))'
             = Positions("ACTION_EXECUTED", Len(audit)) \cup {Len(audit) + 1}
        /\ Logged("ACTION_EXECUTED", Len(audit))' = Logged("ACTION_EXECUTED", Len(audit)) + 1
        /\ \A i : i = Len(audit) + 1 => Logged("ACTION_EXECUTED", i)'
                                            = Logged("ACTION_EXECUTED", Len(audit))'
        /\ \A e : e # "ACTION_EXECUTED" => /\ Positions(e, Len(audit))' = Positions(e, Len(audit))
                                         /\ Logged(e, Len(audit))' = Logged(e, Len(audit))
    BY <1>1, <2>1, LoggedAppended
  <2>5. Allowed = Len(calls) /\ Executed = Len(calls) - 1
    BY <1>1, <2>1 DEF Counts
  <2>6. Allowed' = Allowed /\ Executed' = Executed + 1
    BY <2>4 DEF Allowed, Executed
  <2>7. Counts'
    BY <1>1, <2>1, <2>5, <2>6 DEF Counts
  <2>8. PermissionsTold'
    <3>1. Positions("ACTION_ALLOWED", Len(audit))' = Positions("ACTION_ALLOWED", Len(audit))
      BY <2>4
    <3>2. \A i \in Positions("ACTION_ALLOWED", Len(audit)) :
             audit'[i] = audit[i] /\ Logged("ACTION_ALLOWED", i)' = Logged("ACTION_ALLOWED", i)
      BY <2>3 DEF Positions
    <3>3. QED
      BY <1>1, <2>1, <3>1, <3>2 DEF PermissionsTold
  <2>9. OutcomesTold'
    <3>1. ASSUME NEW i \in Positions("ACTION_EXECUTED", Len(audit))
          PROVE  audit'[i] = audit[i] /\ Logged("ACTION_EXECUTED", i)' = Logged("ACTION_EXECUTED", i)
      BY <2>3 DEF Positions
    <3>2. ASSUME NEW i, i = Len(audit) + 1
          PROVE  /\ Logged("ACTION_EXECUTED", i)' = Len(calls)
                 /\ audit'[i].tool = plan.model /\ audit'[i].result = result
      <4>1. Logged("ACTION_EXECUTED", i)' = Len(calls)
        BY <1>1, <2>4, <2>5, <3>2 DEF Executed
      <4>2. QED
        BY <2>3, <3>2, <4>1 DEF Entry
    <3>3. QED
      BY <1>1, <2>1, <2>2, <2>4, <3>1, <3>2 DEF OutcomesTold, result
  <2>10. EndTold'
    BY <1>1, <2>1, <2>4 DEF EndTold
  <2>11. QED
    BY <2>7, <2>8, <2>9, <2>10 DEF TraceInv
<1>5. CASE \/ StartTask \/ BuildPlan \/ (Govern /\ facade.auditsPolicy)
           \/ Insufficient \/ StopAsSuggested \/ ApplySuggestion
  <2>1. PICK event, result, tool :
             /\ event \notin {"ACTION_ALLOWED", "ACTION_EXECUTED", "TASK_COMPLETED"}
             /\ Log(event, result, tool)
    BY <1>5 DEF StartTask, BuildPlan, Govern, Insufficient, StopAsSuggested, ApplySuggestion
  <2>2. /\ pc \in {"start", "plan", "govern", "evaluate", "retry"}
        /\ pc' \in {"plan", "govern", "gate", "retry", "finish"}
        /\ calls' = calls
        /\ stopped' = stopped \/ (pc' = "finish" /\ stopped' \in Stops)
    BY <1>5 DEF StartTask, BuildPlan, Govern, Insufficient, StopAsSuggested, ApplySuggestion
  <2>3. Allowed = Len(calls) /\ Executed = Len(calls)
    BY <1>1, <2>2 DEF Counts
  <2>4. PermissionsTold' /\ OutcomesTold' /\ Allowed' = Allowed /\ Executed' = Executed
    BY <1>1, <2>1, <2>2, <2>3, ToldByOthers
  <2>5. Positions("TASK_COMPLETED", Len(audit))' = Positions("TASK_COMPLETED", Len(audit))
    BY <1>1, <2>1, LoggedAppended
  <2>6. Counts'
    BY <1>1, <2>2, <2>3, <2>4 DEF Counts
  <2>7. EndTold'
    <3>1. "sufficient" \notin Stops
      BY DEF Stops
    <3>2. QED
      BY <1>1, <2>2, <2>5, <3>1 DEF EndTold
  <2>8. QED
    BY <2>4, <2>6, <2>7 DEF TraceInv
<1>6. CASE Sufficient \/ Finish
  <2> DEFINE result == IF stopped' = "sufficient" THEN "success" ELSE "failure"
  <2>1. /\ pc \in {"evaluate", "finish"} /\ pc' = "returned" /\ UNCHANGED <<calls, plan>>
        /\ Log("TASK_COMPLETED", result, NoModel)
    BY <1>1, <1>6 DEF Sufficient, Finish, EndTold
  <2>2. Allowed = Len(calls) /\ Executed = Len(calls)
    BY <1>1, <2>1 DEF Counts
  <2> HIDE DEF result
  <2>3. PermissionsTold' /\ OutcomesTold' /\ Allowed' = Allowed /\ Executed' = Executed
    BY <1>1, <2>1, <2>2, ToldByOthers
  <2>4. /\ Len(audit') = Len(audit) + 1
        /\ audit'[Len(audit) + 1] = Entry("TASK_COMPLETED", result, NoModel)
        /\ Positions("TASK_COMPLETED", Len(audit))'
             = Positions("TASK_COMPLETED", Len(audit)) \cup {Len(audit) + 1}
    BY <1>1, <2>1, LoggedAppended
  <2>5. Positions("TASK_COMPLETED", Len(audit)) = {}
    BY <1>1, <2>1 DEF EndTold
  <2>6. Counts'
    BY <1>1, <2>1, <2>2, <2>3 DEF Counts
  <2>7. EndTold'
    BY <2>1, <2>4, <2>5 DEF EndTold, result, Entry
  <2>8. QED
    BY <2>3, <2>6, <2>7 DEF TraceInv
<1>7. CASE \/ RejectMaxAttempts \/ RejectMinQuality \/ (Govern /\ ~facade.auditsPolicy)
           \/ StopOnVerdict \/ NoQualifyingModel \/ RecordSpend
           \/ StopAtMaxAttempts \/ StopAtBudget \/ Crash
  <2>1. /\ UNCHANGED <<audit, calls, plan>> /\ pc \notin Ended
        /\ pc' # pc /\ pc' \notin {"call", "spend", "logFailure"}
        /\ pc = "call" \/ (pc \in {"logFailure", "logSuccess"}) => pc' = "crashed"
        /\ pc = "spend" => pc' \in {"logSuccess", "crashed"}
        /\ pc' = "logSuccess" => pc = "spend"
    BY <1>7 DEF RejectMaxAttempts, RejectMinQuality, Govern, StopOnVerdict, NoQualifyingModel,
       RecordSpend, StopAtMaxAttempts, StopAtBudget, Crash
  <2>2. /\ pc' = "returned" => stopped' \in {"DENY", "REQUIRE_APPROVAL"}
        /\ pc' = "finish" => stopped' # "sufficient"
        /\ pc' \notin Ended \cup {"finish"} => stopped' = stopped /\ pc # "finish"
    BY <1>7 DEF RejectMaxAttempts, RejectMinQuality, Govern, StopOnVerdict, NoQualifyingModel,
       RecordSpend, StopAtMaxAttempts, StopAtBudget, Crash, Inv, TypeOK
  <2>3. /\ PermissionsTold' /\ OutcomesTold' /\ Allowed' = Allowed /\ Executed' = Executed
        /\ \A e : Positions(e, Len(audit))' = Positions(e, Len(audit))
    BY <1>1, <2>1, ToldUnchanged
  <2>4. Counts'
    BY <1>1, <2>1, <2>3 DEF Counts
  <2>5. EndTold'
    BY <1>1, <2>1, <2>2, <2>3 DEF EndTold
  <2>6. QED
    BY <2>3, <2>4, <2>5 DEF TraceInv
<1>8. CASE Done
  BY <1>8, StutterLogs DEF Done
<1>9. QED
  BY <1>2, <1>3, <1>4, <1>5, <1>6, <1>7, <1>8 DEF Next, Step

(* The logs follow the run in every state.                                 *)
THEOREM LogsInvariance == Spec => [](LedgerInv /\ TraceInv)
<1>1. Init => LedgerInv /\ TraceInv
  <2>1. Init => /\ calls = <<>> /\ audit = <<>> /\ ledger = <<>> /\ pc = "start"
                /\ stopped = "none"
    BY DEF Init
  <2>2. Init => /\ Answers(Len(calls)) = 0
                /\ \A e : Positions(e, Len(audit)) = {} /\ Logged(e, Len(audit)) = 0
    <3>1. {i \in 1..0 : calls[i].answered} = {} /\ \A e : {i \in 1..0 : audit[i].event = e} = {}
      OBVIOUS
    <3>2. QED
      BY <2>1, <3>1, FS_EmptySet DEF Answers, Positions, Logged
  <2>3. QED
    BY <2>1, <2>2 DEF LedgerInv, Answering, LedgerLags, LedgerFollowsAnswers, TraceInv, Counts,
       Allowed, Executed, PermissionsTold, OutcomesTold, EndTold, Ended
<1>2. Inv /\ LedgerInv /\ TraceInv /\ [Next]_vars => (LedgerInv /\ TraceInv)'
  BY NextLedger, NextTrace, StutterLogs DEF LedgerInv
<1>3. QED
  BY <1>1, <1>2, Invariance, PTL DEF Spec

(* One spending entry for each answered call, in order, at every moment,   *)
(* but for the one being written or lost to a crash.                       *)
THEOREM LedgerIsTrue == Spec => []LedgerFollowsAnswers
BY LogsInvariance, PTL DEF LedgerInv

(* The audit log tells each permission, each call and how the run ended.   *)
THEOREM TraceIsTrue == Spec => []TraceTellsTheRun
BY LogsInvariance, TraceParts, PTL

-----------------------------------------------------------------------------
(* The first state of a run is the first state of BoundedRun.              *)
LEMMA InitSimulation == Init => Bounded!Init
BY DEF Init, Bounded!Init, Stage

(* Every step of a run is a step of BoundedRun or leaves it where it is.   *)
LEMMA StepSimulation ==
    ASSUME Inv, [Next]_vars
    PROVE  [Bounded!Next]_(Bounded!vars)
<1> USE DEF Bounded!vars, Stage, Ended
<1>1. calls \in Seq(Call) /\ Len(calls) \in Nat /\ attempt \in Nat /\ request.maxAttempts \in Int
  <2>1. calls \in Seq(Call) /\ attempt \in Nat /\ request.maxAttempts \in Int
    BY ArgumentTypes DEF Inv, TypeOK
  <2>2. QED
    BY <2>1
<1>2. CASE AllowAction
  <2>1. pc = "gate" /\ pc' = "call" /\ UNCHANGED <<request, calls>>
    BY <1>2 DEF AllowAction
  <2>2. Len(calls) < request.maxAttempts
    BY <1>1, <2>1 DEF Inv, TypeOK, Control, Deciding
  <2>3. QED
    BY <2>1, <2>2 DEF Bounded!Next, Bounded!Permit
<1>3. CASE ProviderFails \/ ProviderAnswers
  <2>1. pc = "call" /\ pc' \in {"logFailure", "spend"} /\ request' = request
    BY <1>3 DEF ProviderFails, ProviderAnswers
  <2>2. PICK call \in Call : calls' = Append(calls, call)
    BY <1>3, CallMade
  <2>3. Len(calls') = Len(calls) + 1
    BY <1>1, <2>2
  <2>4. QED
    BY <2>1, <2>3 DEF Bounded!Next, Bounded!Try
<1>4. CASE ApplySuggestion
  <2>1. /\ pc = "retry" /\ pc' = "govern" /\ UNCHANGED <<request, calls>>
        /\ attempt < request.maxAttempts
    BY <1>4 DEF ApplySuggestion
  <2>2. Len(calls) < request.maxAttempts
    BY <1>1, <2>1 DEF Inv, Control, AfterCall
  <2>3. QED
    BY <2>1, <2>2 DEF Bounded!Next, Bounded!Again
<1>5. CASE RejectMaxAttempts \/ RejectMinQuality \/ StopOnVerdict \/ NoQualifyingModel
           \/ Sufficient \/ StopAtMaxAttempts \/ StopAtBudget \/ StopAsSuggested \/ Crash
  <2>1. /\ pc \notin Ended /\ pc' \in Ended \cup {"finish"}
        /\ UNCHANGED <<request, calls>>
    BY <1>5 DEF RejectMaxAttempts, RejectMinQuality, StopOnVerdict, NoQualifyingModel,
       Sufficient, StopAtMaxAttempts, StopAtBudget, StopAsSuggested, Crash
  <2>2. Stage' = "ended"
    BY <2>1
  <2>3. QED
    BY <2>1, <2>2 DEF Bounded!Next, Bounded!End
<1>6. CASE StartTask \/ BuildPlan \/ Govern \/ LogFailure \/ RecordSpend \/ LogSuccess
           \/ Insufficient \/ Finish \/ Done \/ UNCHANGED vars
  <2>1. UNCHANGED <<request, calls>> /\ Stage' = Stage
    BY <1>6 DEF StartTask, BuildPlan, Govern, LogFailure, RecordSpend, LogSuccess,
       Insufficient, Finish, Done, vars
  <2>2. QED
    BY <2>1
<1>7. QED
  BY <1>2, <1>3, <1>4, <1>5, <1>6 DEF Next, Step

(* run() makes at most max_attempts provider calls, each after a decision  *)
(* of the policy engine of its own, and none after it ended.               *)
THEOREM RunIsBounded == Spec => Bounded!Safety
<1>1. Inv /\ [Next]_vars => [Bounded!Next]_(Bounded!vars)
  BY StepSimulation
<1>2. QED
  BY InitSimulation, <1>1, Invariance, PTL DEF Spec, Bounded!Safety
=============================================================================
