--------------------------- MODULE UsageDecision ---------------------------
(***************************************************************************)
(* What an agent is told to do, from a usage reading that grows old.       *)
(* A rate-limit adapter (adapters/anthropic_adapter.py, openai_adapter.py) *)
(* keeps the last reading of the organisation's token bucket, which others *)
(* drain and the provider refills meanwhile; DecisionEngine.decide         *)
(* (core/decision_engine.py) turns the budget it reports, or a MockProvider *)
(* given on the command line, into a mode, an action and a reason code;    *)
(* ModelRouter.route (core/router.py) turns the mode into a model tier.    *)
(* The adapter's caller is one thread: it waits while a probe is under way. *)
(***************************************************************************)
EXTENDS BudgetRisk

CONSTANTS Levels,          \* the percentages the bucket can be at
          Required,        \* of a task: TaskEstimate.estimated_percentage,
          Complexity,      \* its complexity_score in percent,
          Understood,      \* the estimate's and the classifier's confidence together, and
          Classified,      \* whether the classifier found a type; confidences are in permille
          Progress,        \* what callers report of it, in percent
          StaleAfter,      \* config.stale_after_seconds, in ticks of the clock
          MaxLatency       \* bound on the ticks an answer to the probe takes, the client's timeout

ASSUME UsageAssumption ==
    /\ Levels \subseteq 0..100 /\ Progress \subseteq 0..100
    /\ None \notin Nat
    /\ StaleAfter \in Nat /\ MaxLatency \in Nat
    /\ Required \in [Tasks -> 5..100] /\ Complexity \in [Tasks -> 0..100]
    /\ Understood \in [Tasks -> 0..2000] /\ Classified \in [Tasks -> BOOLEAN]

VARIABLES bucket,    \* what is really left, in percent
          reading,   \* the adapter's _current_remaining_tokens, as a percentage, or None
          limit,     \* its _total_allowed_tokens: "none", "zero" or "known" (then always the same)
          age,       \* ticks since _last_refresh_at, None before the first refresh
          probe,     \* what the answer under way to refresh_usage says is left, or None
          flight,    \* ticks since the provider wrote it
          lastTrue   \* history: ticks since the bucket was last at a level

adapter == <<reading, limit, age>>
vars == <<bucket, adapter, probe, flight, lastTrue>>

Horizon == StaleAfter + MaxLatency

Older(ticks, cap) == IF ticks < cap THEN ticks + 1 ELSE cap

-----------------------------------------------------------------------------
ConfidenceForAge(ticks) == IF ticks > StaleAfter THEN "STALE" ELSE "ESTIMATED"

NeverRead == [percent |-> 100, confidence |-> "UNKNOWN"]

(* A stale reading is given up for the neutral one.                        *)
AvailableBudget_ForgetsStale ==
    IF reading = None \/ age = None \/ limit # "known" \/ age > StaleAfter THEN NeverRead
    ELSE [percent |-> reading, confidence |-> "ESTIMATED"]

(* get_available_budget *)
AvailableBudget ==
    IF reading = None \/ age = None \/ limit # "known" THEN NeverRead
    ELSE [percent |-> reading, confidence |-> ConfidenceForAge(age)]

(* MockProvider reports what it was given. *)
GivenBudget(level) == [percent |-> level, confidence |-> "EXACT"]

Weight == [EXACT |-> 1000, ESTIMATED |-> 800, STALE |-> 400, UNKNOWN |-> 500]

(* The mean of the three confidences, halved for a task of unknown type;   *)
(* rounded to a permille, and 350 of them are needed.                      *)
TooUnsure(t, confidence) ==
    LET parts == IF Classified[t] THEN 3 ELSE 6
    IN  2 * (Understood[t] + Weight[confidence]) < (2 * 350 - 1) * parts

RawMode(t, budget) == Mode(budget.percent, Required[t], budget.confidence = "STALE")

EffectiveMode_TrustsUnknown(t, budget) == RawMode(t, budget)

EffectiveMode(t, budget) ==
    IF RawMode(t, budget) = "SAFE" /\ budget.confidence = "UNKNOWN" THEN "CAUTION"
    ELSE RawMode(t, budget)

(* _decide_action; a progress of None counts as none made.                 *)
Action(mode, progress, unsure) ==
    LET done == IF progress = None THEN 0 ELSE progress
    IN  CASE unsure /\ mode # "CRITICAL" -> "ask_user"
          [] mode = "CRITICAL" /\ done >= 50 -> "finish"
          [] mode = "CRITICAL" /\ done < 50 -> "stop"
          [] ~unsure /\ mode # "CRITICAL" /\ done >= 85 -> "verify"
          [] ~unsure /\ mode = "LIMITED" /\ done < 85 -> "reduce_scope"
          [] ~unsure /\ mode = "CAUTION" /\ done < 85 -> "continue"
          [] ~unsure /\ mode = "SAFE" /\ done < 85 -> IF done = 0 THEN "run" ELSE "continue"

ReasonCode_OffByOne(t, budget) ==
    IF Exhausted(budget.percent) THEN "AT_OR_BELOW_SAFETY_MARGIN"
    ELSE IF Required[t] > Usable(budget.percent) THEN "COST_EXCEEDS_USABLE_BUDGET"
    ELSE IF Required[t] * 100 > CautionPercent * Usable(budget.percent)
         THEN "RATIO_AT_OR_ABOVE_CAUTION" ELSE "RATIO_BELOW_CAUTION"

(* _risk_reason_code derives the branch of the mode a second time.         *)
ReasonCode(t, budget) ==
    IF Exhausted(budget.percent) THEN "AT_OR_BELOW_SAFETY_MARGIN"
    ELSE IF Required[t] > Usable(budget.percent) THEN "COST_EXCEEDS_USABLE_BUDGET"
    ELSE IF Required[t] * 100 >= CautionPercent * Usable(budget.percent)
         THEN "RATIO_AT_OR_ABOVE_CAUTION" ELSE "RATIO_BELOW_CAUTION"

(* ModelTier, by its index in _TIER_ORDER: STOP, MINIMAL, CHEAP, STANDARD,  *)
(* HIGH, HIGHEST.                                                          *)
StopTier == 0

ComplexityTier(t) ==
    CASE Complexity[t] < 25 -> 2
      [] Complexity[t] \in 25..49 -> 3
      [] Complexity[t] \in 50..74 -> 4
      [] Complexity[t] >= 75 -> 5

BudgetCap == [SAFE |-> 5, CAUTION |-> 4, LIMITED |-> 2, CRITICAL |-> StopTier]

(* ModelRouter.route *)
Tier(t, mode) ==
    IF BudgetCap[mode] < ComplexityTier(t) THEN BudgetCap[mode] ELSE ComplexityTier(t)

Decision(t, progress, budget) ==
    LET mode == EffectiveMode(t, budget)
    IN  [task |-> t, budget |-> budget, mode |-> mode,
         action |-> Action(mode, progress, TooUnsure(t, budget.confidence)),
         reason |-> ReasonCode(t, budget), tier |-> Tier(t, mode)]

(* DecisionEngine.decide and ModelRouter.route keep nothing: this is what  *)
(* they would answer now, of the adapter's budget or (analyze_cmd and      *)
(* route_cmd) of the one on the command line.                              *)
Told(budget) == {Decision(t, progress, budget) : t \in Tasks, progress \in Progress \cup {None}}

ToldFromAdapter == Told(AvailableBudget)

ToldFromCommandLine == UNION {Told(GivenBudget(level)) : level \in Levels}

-----------------------------------------------------------------------------
Init == /\ bucket \in Levels
        /\ reading = None /\ limit = "none" /\ age = None
        /\ probe = None /\ flight = 0
        /\ lastTrue = [level \in Levels |-> IF level = bucket THEN 0 ELSE Horizon + 1]

(* The organisation's other work, and this agent's, drains the bucket; the *)
(* provider refills it.                                                    *)
BucketMoves(level) ==
    /\ level # bucket
    /\ bucket' = level
    /\ lastTrue' = [lastTrue EXCEPT ![level] = 0]
    /\ UNCHANGED <<adapter, probe, flight>>

Tick ==
    /\ probe # None => flight < MaxLatency
    /\ flight' = IF probe # None THEN flight + 1 ELSE 0
    /\ age' = IF age = None THEN None ELSE Older(age, StaleAfter + 1)
    /\ lastTrue' = [level \in Levels |->
                       IF level = bucket THEN 0 ELSE Older(lastTrue[level], Horizon + 1)]
    /\ UNCHANGED <<bucket, reading, limit, probe>>

(* refresh_usage, as far as the provider's answer. *)
SendProbe ==
    /\ probe = None
    /\ probe' = bucket
    /\ flight' = 0
    /\ UNCHANGED <<bucket, adapter, lastTrue>>

(* The call raises, or its answer lacks a header.                          *)
RefreshFails_ResetsClock ==
    /\ probe # None
    /\ age' = IF age = None THEN None ELSE 0
    /\ probe' = None /\ flight' = 0
    /\ UNCHANGED <<bucket, reading, limit, lastTrue>>

RefreshFails ==
    /\ probe # None
    /\ probe' = None /\ flight' = 0
    /\ UNCHANGED <<bucket, adapter, lastTrue>>

(* _update_limits_from_headers: remaining, limit and time are assigned in  *)
(* this order.  The provider may say that nothing at all is allowed.       *)
UpdateLimits(total) ==
    /\ probe # None
    /\ reading' = probe /\ limit' = total /\ age' = 0
    /\ probe' = None /\ flight' = 0
    /\ UNCHANGED <<bucket, lastTrue>>

UpdateBreaksOff_LimitFirst ==
    /\ probe # None
    /\ limit' = "known"
    /\ probe' = None /\ flight' = 0
    /\ UNCHANGED <<bucket, reading, age, lastTrue>>

(* A limit that float() refuses raises after the first assignment.         *)
UpdateBreaksOff ==
    /\ probe # None
    /\ reading' = probe
    /\ probe' = None /\ flight' = 0
    /\ UNCHANGED <<bucket, limit, age, lastTrue>>

Next == \/ \E level \in Levels : BucketMoves(level)
        \/ Tick
        \/ SendProbe
        \/ RefreshFails
        \/ \E total \in {"zero", "known"} : UpdateLimits(total)
        \/ UpdateBreaksOff

Spec == Init /\ [][Next]_vars

-----------------------------------------------------------------------------
(* Every variable has its type; the three fields of the adapter need not   *)
(* be of one reading, but a limit never comes without the other two.       *)
TypeOK ==
    /\ bucket \in Levels /\ reading \in Levels \cup {None}
    /\ limit \in {"none", "zero", "known"} /\ age \in 0..(StaleAfter + 1) \cup {None}
    /\ limit # "none" => reading # None /\ age # None
    /\ probe \in Levels \cup {None} /\ flight \in 0..MaxLatency
    /\ lastTrue \in [Levels -> 0..(Horizon + 1)]

(* A budget reported as ESTIMATED was the organisation's real one no       *)
(* longer ago than the freshness window and the time an answer can take,   *)
(* whatever probes failed, came without headers or broke off half-way      *)
(* since: no failure makes an old reading young.                           *)
EstimatedWasTrue ==
    AvailableBudget.confidence = "ESTIMATED" => lastTrue[AvailableBudget.percent] <= Horizon

(* A caller is told SAFE from an adapter only if the real bucket held      *)
(* twice the task's cost (the caution ratio) that recently: neither a      *)
(* reading nobody took nor one gone stale is enough.                       *)
SafeWasAffordable ==
    \A d \in ToldFromAdapter : d.mode = "SAFE" =>
        \E level \in Levels :
            /\ lastTrue[level] <= Horizon
            /\ Required[d.task] * 100 < CautionPercent * Usable(level)

(* docs/PROTOCOL.md:91-100: the reason names the branch the mode came from. *)
(* It does, though derived a second time; only RiskEngine.assess lowers    *)
(* SAFE to CAUTION for a stale reading, whose reason stays that of SAFE.   *)
ReasonExplainsMode ==
    \A d \in ToldFromAdapter \cup ToldFromCommandLine :
        d.budget.confidence \in {"EXACT", "ESTIMATED"} =>
            CASE d.reason = "AT_OR_BELOW_SAFETY_MARGIN" -> d.mode = "CRITICAL"
              [] d.reason = "COST_EXCEEDS_USABLE_BUDGET" -> d.mode = "LIMITED"
              [] d.reason = "RATIO_AT_OR_ABOVE_CAUTION" -> d.mode = "CAUTION"
              [] d.reason = "RATIO_BELOW_CAUTION" -> d.mode = "SAFE"

(* The two tables read one mode: the tier is never above what the task's   *)
(* complexity asks for, and the router refuses every model exactly when    *)
(* the engine says to stop or to finish what is begun.                     *)
TierFollowsDecision ==
    \A d \in ToldFromAdapter \cup ToldFromCommandLine :
        /\ d.tier <= ComplexityTier(d.task)
        /\ d.tier = StopTier <=> d.action \in {"stop", "finish"}

(* Both: mode, reason, action and tier of a decision are of one piece.     *)
DecisionIsCoherent == ReasonExplainsMode /\ TierFollowsDecision

Severity == [SAFE |-> 0, CAUTION |-> 1, LIMITED |-> 2, CRITICAL |-> 3]

(* How much work an action lets the agent begin.                           *)
Licence == [stop |-> 0, finish |-> 1, ask_user |-> 1, verify |-> 2, reduce_scope |-> 2,
            continue |-> 3, run |-> 4]

NoLooser(later, earlier) == /\ Severity[later.mode] >= Severity[earlier.mode]
                            /\ Licence[later.action] <= Licence[earlier.action]
                            /\ later.tier <= earlier.tier

(* Waiting never loosens a decision: as long as nothing new is read, the   *)
(* same question gets the same answer or a more careful one.               *)
AgingNeverLoosens ==
    [][UNCHANGED <<reading, limit, probe>> =>
          \A t \in Tasks, progress \in Progress \cup {None} :
              NoLooser(Decision(t, progress, AvailableBudget'),
                       Decision(t, progress, AvailableBudget))]_vars
=============================================================================
