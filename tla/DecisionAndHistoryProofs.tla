---------------------- MODULE DecisionAndHistoryProofs ----------------------
(***************************************************************************)
(* Every property of the two modules that decide and judge by the same     *)
(* policy (BudgetRisk): UsageDecision, for all levels, tasks, windows and  *)
(* latencies, and TaskHistory, for all agents, tasks, readings, budgets    *)
(* and bounds.                                                             *)
(*                                                                         *)
(* UsageDecision's inductive invariant says how old a reading is: it was   *)
(* true no longer ago than its age and the longest an answer takes, and an *)
(* answer under way no longer ago than its flight.  TaskHistory has one    *)
(* for each reader of the logs: that every call which ended is accounted   *)
(* for (Account), that every event is true to its decision (Faithful), and *)
(* that every report derives its percentages (Reported); the folds rest on *)
(* the order that the events' time stamps and lines give them.             *)
(***************************************************************************)
EXTENDS UsageDecision, TaskHistory, FiniteSetTheorems, FunctionTheorems, TLAPS

LEMMA OlderFact ==
    ASSUME NEW cap \in Nat, NEW ticks \in 0..cap
    PROVE  /\ Older(ticks, cap) \in 0..cap
           /\ Older(ticks, cap) <= ticks + 1 /\ Older(ticks, cap) >= ticks
  BY DEF Older

LEMMA LevelsAge ==
    ASSUME lastTrue \in [Levels -> 0..(Horizon + 1)], Tick, NEW level \in Levels
    PROVE  /\ lastTrue'[level] \in 0..(Horizon + 1)
           /\ lastTrue'[level] <= lastTrue[level] + 1
<1>1. Horizon + 1 \in Nat /\ lastTrue[level] \in 0..(Horizon + 1)
  BY UsageAssumption DEF Horizon
<1>2. lastTrue'[level] = IF level = bucket THEN 0 ELSE Older(lastTrue[level], Horizon + 1)
  BY DEF Tick
<1>3. /\ Older(lastTrue[level], Horizon + 1) \in 0..(Horizon + 1)
      /\ Older(lastTrue[level], Horizon + 1) <= lastTrue[level] + 1
  <2> HIDE DEF Horizon
  <2> QED BY <1>1, OlderFact
<1> QED BY <1>1, <1>2, <1>3

LEMMA Typing == Spec => []TypeOK
<1>1. Init => TypeOK
  BY UsageAssumption DEF Init, TypeOK, Horizon
<1>2. TypeOK /\ [Next]_vars => TypeOK'
  <2> SUFFICES ASSUME TypeOK, [Next]_vars PROVE TypeOK'
    OBVIOUS
  <2> USE UsageAssumption DEF TypeOK, Horizon
  <2>1. ASSUME NEW level \in Levels, BucketMoves(level) PROVE TypeOK'
    BY <2>1 DEF BucketMoves, adapter
  <2>2. CASE Tick
    <3>1. age' \in 0..(StaleAfter + 1) \cup {None}
      BY <2>2, OlderFact DEF Tick
    <3>2. lastTrue' \in [Levels -> 0..(Horizon + 1)]
      BY <2>2, LevelsAge DEF Tick
    <3>3. limit # "none" => age' # None
      BY <2>2, <3>1, OlderFact DEF Tick
    <3>4. flight' \in 0..MaxLatency
      BY <2>2 DEF Tick
    <3> QED BY <2>2, <3>1, <3>2, <3>3, <3>4 DEF Tick
  <2>3. CASE SendProbe
    BY <2>3 DEF SendProbe, adapter
  <2>4. CASE RefreshFails
    BY <2>4 DEF RefreshFails, adapter
  <2>5. ASSUME NEW total \in {"zero", "known"}, UpdateLimits(total) PROVE TypeOK'
    BY <2>5 DEF UpdateLimits
  <2>6. CASE UpdateBreaksOff
    BY <2>6 DEF UpdateBreaksOff
  <2>7. CASE UNCHANGED vars
    BY <2>7 DEF vars, adapter
  <2> QED BY <2>1, <2>2, <2>3, <2>4, <2>5, <2>6, <2>7 DEF Next
<1> QED BY <1>1, <1>2, PTL DEF Spec

(* Adapter, probe and history keep their types, and a limit is never kept  *)
(* without a reading and its time.                                         *)
THEOREM TypeCorrect == Spec => []TypeOK
  BY Typing

-----------------------------------------------------------------------------
Honest == /\ (reading # None /\ age # None) => lastTrue[reading] <= age + MaxLatency
          /\ probe # None => lastTrue[probe] <= flight
          /\ lastTrue[bucket] = 0

LEMMA HonestInvariant == Spec => []Honest
<1>1. Init => Honest
  BY UsageAssumption DEF Init, Honest
<1>2. TypeOK /\ Honest /\ [Next]_vars => Honest'
  <2> SUFFICES ASSUME TypeOK, Honest, [Next]_vars PROVE Honest'
    OBVIOUS
  <2> USE UsageAssumption DEF TypeOK, Honest, Horizon
  <2>1. ASSUME NEW level \in Levels, BucketMoves(level) PROVE Honest'
    <3>1. lastTrue'[level] = 0 /\ \A other \in Levels : lastTrue'[other] <= lastTrue[other]
      BY <2>1 DEF BucketMoves
    <3>2. UNCHANGED <<reading, age, probe, flight>> /\ bucket' = level
      BY <2>1 DEF BucketMoves, adapter
    <3>3. (reading # None /\ age # None) => lastTrue'[reading] <= age + MaxLatency
      <4> SUFFICES ASSUME reading # None, age # None PROVE lastTrue'[reading] <= age + MaxLatency
        OBVIOUS
      <4>1. reading \in Levels /\ age \in Nat
        OBVIOUS
      <4>2. lastTrue'[reading] <= lastTrue[reading]
        BY <3>1, <4>1
      <4>3. lastTrue'[reading] \in Nat /\ lastTrue[reading] \in Nat
        BY <2>1, <4>1 DEF BucketMoves
      <4> QED BY <4>1, <4>2, <4>3
    <3>4. probe # None => lastTrue'[probe] <= flight
      <4> SUFFICES ASSUME probe # None PROVE lastTrue'[probe] <= flight
        OBVIOUS
      <4>1. probe \in Levels /\ lastTrue'[probe] <= lastTrue[probe]
        BY <3>1
      <4>2. lastTrue'[probe] \in Nat /\ lastTrue[probe] \in Nat
        BY <2>1, <4>1 DEF BucketMoves
      <4> QED BY <4>1, <4>2
    <3> QED BY <3>1, <3>2, <3>3, <3>4
  <2>2. CASE Tick
    <3>1. \A level \in Levels : lastTrue'[level] <= lastTrue[level] + 1
                                 /\ lastTrue'[level] \in 0..(Horizon + 1)
      BY <2>2, LevelsAge
    <3>2. lastTrue'[bucket] = 0 /\ UNCHANGED <<bucket, reading, probe>>
      BY <2>2 DEF Tick
    <3>3. (reading # None /\ age' # None) => lastTrue'[reading] <= age' + MaxLatency
      <4> SUFFICES ASSUME reading # None, age' # None
                   PROVE  lastTrue'[reading] <= age' + MaxLatency
        OBVIOUS
      <4>1. reading \in Levels /\ age \in 0..(StaleAfter + 1)
        BY <2>2 DEF Tick
      <4>2. age' = Older(age, StaleAfter + 1)
        BY <2>2, <4>1 DEF Tick
      <4>3. age' = age + 1 \/ (age' = StaleAfter + 1 /\ age = StaleAfter + 1)
        BY <4>1, <4>2 DEF Older
      <4>4. lastTrue[reading] <= age + MaxLatency /\ lastTrue[reading] \in Nat
        BY <4>1
      <4>5. lastTrue'[reading] \in Int
        BY <3>1, <4>1
      <4>6. /\ lastTrue'[reading] <= lastTrue[reading] + 1
            /\ lastTrue'[reading] <= StaleAfter + MaxLatency + 1
        BY <3>1, <4>1
      <4> QED BY <4>1, <4>3, <4>4, <4>5, <4>6
    <3>4. probe # None => lastTrue'[probe] <= flight'
      <4> SUFFICES ASSUME probe # None PROVE lastTrue'[probe] <= flight'
        OBVIOUS
      <4>1. flight' = flight + 1 /\ probe \in Levels
        BY <2>2 DEF Tick
      <4>2. lastTrue'[probe] \in Int
        BY <3>1, <4>1
      <4> QED BY <3>1, <4>1, <4>2
    <3> QED BY <3>2, <3>3, <3>4
  <2>3. CASE SendProbe
    BY <2>3 DEF SendProbe, adapter
  <2>4. CASE RefreshFails
    BY <2>4 DEF RefreshFails, adapter
  <2>5. ASSUME NEW total \in {"zero", "known"}, UpdateLimits(total) PROVE Honest'
    BY <2>5 DEF UpdateLimits
  <2>6. CASE UpdateBreaksOff
    <3>1. probe \in Levels /\ lastTrue[probe] <= flight /\ flight <= MaxLatency
      BY <2>6 DEF UpdateBreaksOff
    <3> QED BY <2>6, <3>1 DEF UpdateBreaksOff
  <2>7. CASE UNCHANGED vars
    BY <2>7 DEF vars, adapter
  <2> QED BY <2>1, <2>2, <2>3, <2>4, <2>5, <2>6, <2>7 DEF Next
<1> QED BY <1>1, <1>2, Typing, PTL DEF Spec

LEMMA EstimatedFact ==
    ASSUME TypeOK, Honest
    PROVE  EstimatedWasTrue
<1> SUFFICES ASSUME AvailableBudget.confidence = "ESTIMATED"
             PROVE  lastTrue[AvailableBudget.percent] <= Horizon
  BY DEF EstimatedWasTrue
<1>1. ~(reading = None \/ age = None \/ limit # "known")
  BY DEF AvailableBudget, NeverRead
<1>2. AvailableBudget.percent = reading /\ age <= StaleAfter
  BY <1>1, UsageAssumption DEF AvailableBudget, ConfidenceForAge, TypeOK
<1>3. reading \in Levels /\ age \in Nat /\ lastTrue[reading] \in Nat
  BY <1>1, UsageAssumption DEF TypeOK, Horizon
<1> QED BY <1>1, <1>2, <1>3, UsageAssumption DEF Honest, Horizon

(* No sequence of failed, headerless or broken-off probes makes an old     *)
(* reading pass for an ESTIMATED one.                                      *)
THEOREM ReadingsAgeTruly == Spec => []EstimatedWasTrue
  BY Typing, HonestInvariant, EstimatedFact, PTL

-----------------------------------------------------------------------------
(* What the operators answer. *)

LEMMA BudgetType ==
    ASSUME TypeOK
    PROVE  /\ AvailableBudget.percent \in 0..100
           /\ AvailableBudget.confidence \in {"ESTIMATED", "STALE", "UNKNOWN"}
           /\ AvailableBudget.confidence # "UNKNOWN" => AvailableBudget.percent \in Levels
  BY UsageAssumption DEF AvailableBudget, NeverRead, ConfidenceForAge, TypeOK

LEMMA EffectiveType == \A t, budget : EffectiveMode(t, budget) \in Modes
  BY DEF EffectiveMode, RawMode, Mode, Modes

LEMMA SafeFact ==
    ASSUME NEW t \in Tasks, NEW budget, EffectiveMode(t, budget) = "SAFE"
    PROVE  /\ budget.confidence # "UNKNOWN" /\ budget.confidence # "STALE"
           /\ Required[t] * 100 < CautionPercent * Usable(budget.percent)
  BY DEF EffectiveMode, RawMode, Mode

LEMMA SafeAffordableFact ==
    ASSUME TypeOK, EstimatedWasTrue
    PROVE  SafeWasAffordable
<1> SUFFICES ASSUME NEW d \in ToldFromAdapter, d.mode = "SAFE"
             PROVE  \E level \in Levels :
                       /\ lastTrue[level] <= Horizon
                       /\ Required[d.task] * 100 < CautionPercent * Usable(level)
  BY DEF SafeWasAffordable
<1>1. PICK t \in Tasks, progress \in Progress \cup {None} :
         d = Decision(t, progress, AvailableBudget)
  BY DEF ToldFromAdapter, Told
<1>2. d.task = t /\ EffectiveMode(t, AvailableBudget) = "SAFE"
  BY <1>1 DEF Decision
<1>3. /\ AvailableBudget.confidence = "ESTIMATED"
      /\ Required[t] * 100 < CautionPercent * Usable(AvailableBudget.percent)
  BY <1>2, SafeFact, BudgetType
<1>4. AvailableBudget.percent \in Levels /\ lastTrue[AvailableBudget.percent] <= Horizon
  BY <1>3, BudgetType DEF EstimatedWasTrue
<1> QED BY <1>2, <1>3, <1>4

(* SAFE rests on a bucket that really had the room, whatever happened to   *)
(* the probes.                                                             *)
THEOREM SafeRestsOnTheBucket == Spec => []SafeWasAffordable
  BY Typing, ReadingsAgeTruly, SafeAffordableFact, PTL

LEMMA ReasonFact ==
    ASSUME NEW t \in Tasks, NEW budget, budget.percent \in 0..100,
           budget.confidence \in {"EXACT", "ESTIMATED"}
    PROVE  LET reason == ReasonCode(t, budget)
               mode == EffectiveMode(t, budget)
           IN  \/ reason = "AT_OR_BELOW_SAFETY_MARGIN" /\ mode = "CRITICAL"
               \/ reason = "COST_EXCEEDS_USABLE_BUDGET" /\ mode = "LIMITED"
               \/ reason = "RATIO_AT_OR_ABOVE_CAUTION" /\ mode = "CAUTION"
               \/ reason = "RATIO_BELOW_CAUTION" /\ mode = "SAFE"
<1>1. Required[t] * 100 \in Int /\ CautionPercent * Usable(budget.percent) \in Int
  <2>1. Required[t] \in Int
    BY UsageAssumption
  <2>2. CautionPercent \in Int /\ Margin \in Int /\ budget.percent \in Int
    BY RiskAssumption
  <2>3. Usable(budget.percent) \in Int
    BY <2>2 DEF Usable
  <2> HIDE DEF Usable
  <2> QED BY <2>1, <2>2, <2>3
<1> QED BY <1>1 DEF ReasonCode, EffectiveMode, RawMode, Mode

LEMMA ToldFact ==
    ASSUME TypeOK, NEW d \in ToldFromAdapter \cup ToldFromCommandLine
    PROVE  \E t \in Tasks, progress \in Progress \cup {None} :
              /\ d = Decision(t, progress, d.budget)
              /\ d.budget.percent \in 0..100
              /\ d.task = t
<1>1. CASE d \in ToldFromAdapter
  <2>1. PICK t \in Tasks, progress \in Progress \cup {None} :
           d = Decision(t, progress, AvailableBudget)
    BY <1>1 DEF ToldFromAdapter, Told
  <2>2. d.budget = AvailableBudget /\ d.task = t
    BY <2>1 DEF Decision
  <2> QED BY <2>1, <2>2, BudgetType
<1>2. CASE d \in ToldFromCommandLine
  <2>1. PICK level \in Levels : d \in Told(GivenBudget(level))
    BY <1>2 DEF ToldFromCommandLine
  <2>2. PICK t \in Tasks, progress \in Progress \cup {None} :
           d = Decision(t, progress, GivenBudget(level))
    BY <2>1 DEF Told
  <2>3. d.budget = GivenBudget(level) /\ d.task = t
    BY <2>2 DEF Decision
  <2> QED BY <2>2, <2>3, UsageAssumption DEF GivenBudget
<1> QED BY <1>1, <1>2

LEMMA ReasonsFact ==
    ASSUME TypeOK
    PROVE  ReasonExplainsMode
<1> SUFFICES ASSUME NEW d \in ToldFromAdapter \cup ToldFromCommandLine,
                    d.budget.confidence \in {"EXACT", "ESTIMATED"}
             PROVE  \/ d.reason = "AT_OR_BELOW_SAFETY_MARGIN" /\ d.mode = "CRITICAL"
                    \/ d.reason = "COST_EXCEEDS_USABLE_BUDGET" /\ d.mode = "LIMITED"
                    \/ d.reason = "RATIO_AT_OR_ABOVE_CAUTION" /\ d.mode = "CAUTION"
                    \/ d.reason = "RATIO_BELOW_CAUTION" /\ d.mode = "SAFE"
  BY DEF ReasonExplainsMode
<1>1. PICK t \in Tasks, progress \in Progress \cup {None} :
         d = Decision(t, progress, d.budget) /\ d.budget.percent \in 0..100
  BY ToldFact
<1>2. d.reason = ReasonCode(t, d.budget) /\ d.mode = EffectiveMode(t, d.budget)
  BY <1>1 DEF Decision
<1> QED BY <1>1, <1>2, ReasonFact

(* The second derivation of the branch agrees with the first, at every     *)
(* boundary, for readings that are exact or fresh.                         *)
THEOREM ReasonsAgree == Spec => []ReasonExplainsMode
  BY Typing, ReasonsFact, PTL

-----------------------------------------------------------------------------
LEMMA TierFact ==
    ASSUME NEW t \in Tasks, NEW mode \in Modes
    PROVE  /\ Tier(t, mode) \in 0..5 /\ ComplexityTier(t) \in 2..5
           /\ Tier(t, mode) <= ComplexityTier(t)
           /\ Tier(t, mode) = StopTier <=> mode = "CRITICAL"
<1>1. ComplexityTier(t) \in 2..5
  <2>1. Complexity[t] \in 0..100
    BY UsageAssumption
  <2>2. Complexity[t] < 25 \/ Complexity[t] \in 25..49 \/ Complexity[t] \in 50..74
        \/ Complexity[t] >= 75
    BY <2>1
  <2> QED BY <2>1, <2>2 DEF ComplexityTier
<1> QED BY <1>1 DEF Tier, BudgetCap, StopTier, Modes

LEMMA ActionFact ==
    ASSUME NEW mode \in Modes, NEW progress \in Progress \cup {None}, NEW unsure \in BOOLEAN
    PROVE  LET done == IF progress = None THEN 0 ELSE progress
           IN  /\ done \in 0..100
               /\ mode = "CRITICAL" =>
                     Action(mode, progress, unsure) = IF done >= 50 THEN "finish" ELSE "stop"
               /\ (mode # "CRITICAL" /\ unsure) => Action(mode, progress, unsure) = "ask_user"
               /\ (mode # "CRITICAL" /\ ~unsure /\ done >= 85) =>
                     Action(mode, progress, unsure) = "verify"
               /\ (mode = "LIMITED" /\ ~unsure /\ done < 85) =>
                     Action(mode, progress, unsure) = "reduce_scope"
               /\ (mode = "CAUTION" /\ ~unsure /\ done < 85) =>
                     Action(mode, progress, unsure) = "continue"
               /\ (mode = "SAFE" /\ ~unsure /\ done < 85) =>
                     Action(mode, progress, unsure) = IF done = 0 THEN "run" ELSE "continue"
  BY UsageAssumption DEF Action, Modes

LEMMA TiersFact ==
    ASSUME TypeOK
    PROVE  TierFollowsDecision
<1> SUFFICES ASSUME NEW d \in ToldFromAdapter \cup ToldFromCommandLine
             PROVE  /\ d.tier <= ComplexityTier(d.task)
                    /\ d.tier = StopTier <=> d.action \in {"stop", "finish"}
  BY DEF TierFollowsDecision
<1>1. PICK t \in Tasks, progress \in Progress \cup {None} :
         d = Decision(t, progress, d.budget) /\ d.task = t
  BY ToldFact
<1> DEFINE mode == EffectiveMode(t, d.budget)
           unsure == TooUnsure(t, d.budget.confidence)
<1>2. d.tier = Tier(t, mode) /\ d.action = Action(mode, progress, unsure)
  BY <1>1 DEF Decision
<1>3. mode \in Modes /\ unsure \in BOOLEAN
  BY EffectiveType DEF TooUnsure
<1>4. d.action \in {"stop", "finish"} <=> mode = "CRITICAL"
  <2> HIDE DEF mode, unsure
  <2> QED BY <1>2, <1>3, ActionFact DEF Modes
<1> QED BY <1>1, <1>2, <1>3, <1>4, TierFact

(* Router and decision table never contradict each other on stopping, and  *)
(* the budget only ever lowers the tier.                                   *)
THEOREM TiersAgree == Spec => []TierFollowsDecision
  BY Typing, TiersFact, PTL

(* What an agent is told - mode, reason, action, tier - is of one piece.   *)
THEOREM DecisionsCohere == Spec => []DecisionIsCoherent
<1>1. ReasonExplainsMode /\ TierFollowsDecision => DecisionIsCoherent
  BY DEF DecisionIsCoherent
<1> QED BY <1>1, ReasonsAgree, TiersAgree, PTL

-----------------------------------------------------------------------------
(* A stale reading changes SAFE to CAUTION and nothing else, and only      *)
(* lowers the confidence.                                                  *)
LEMMA StaleMode ==
    ASSUME NEW t \in Tasks, NEW percentage \in 0..100
    PROVE  LET fresh == EffectiveMode(t, [percent |-> percentage, confidence |-> "ESTIMATED"])
               stale == EffectiveMode(t, [percent |-> percentage, confidence |-> "STALE"])
           IN  stale = fresh \/ (fresh = "SAFE" /\ stale = "CAUTION")
  BY DEF EffectiveMode, RawMode, Mode

(* A lower weight leaves an agent unsure that was so before.               *)
LEMMA LowerWeight ==
    ASSUME NEW u \in Int, NEW bound \in Int, 2 * (u + 800) < bound
    PROVE  2 * (u + 400) < bound
  OBVIOUS

LEMMA StaleUnsure ==
    ASSUME NEW t \in Tasks, TooUnsure(t, "ESTIMATED")
    PROVE  TooUnsure(t, "STALE")
<1>1. Understood[t] \in 0..2000
  BY UsageAssumption
<1>2. Weight["ESTIMATED"] = 800 /\ Weight["STALE"] = 400
  BY DEF Weight
<1> DEFINE parts == IF Classified[t] THEN 3 ELSE 6
<1>3. Understood[t] \in Int /\ (2 * 350 - 1) * parts \in Int
  <2>1. Understood[t] \in Int
    BY <1>1
  <2>2. CASE Classified[t]
    <3>1. parts = 3
      BY <2>2
    <3> HIDE DEF parts
    <3> QED BY <2>1, <3>1
  <2>3. CASE ~Classified[t]
    <3>1. parts = 6
      BY <2>3
    <3> HIDE DEF parts
    <3> QED BY <2>1, <3>1
  <2> QED BY <2>2, <2>3
<1>4. 2 * (Understood[t] + 800) < (2 * 350 - 1) * parts
  BY <1>2 DEF TooUnsure
<1>5. 2 * (Understood[t] + 400) < (2 * 350 - 1) * parts
  <2> HIDE DEF parts
  <2> QED BY <1>3, <1>4, LowerWeight
<1> QED BY <1>2, <1>5 DEF TooUnsure

LEMMA LooserFact ==
    ASSUME NEW t \in Tasks, NEW progress \in Progress \cup {None},
           NEW fresh \in Modes, NEW stale \in Modes,
           stale = fresh \/ (fresh = "SAFE" /\ stale = "CAUTION"),
           NEW sure1 \in BOOLEAN, NEW sure2 \in BOOLEAN, sure1 => sure2
    PROVE  /\ Severity[stale] >= Severity[fresh]
           /\ Licence[Action(stale, progress, sure2)] <= Licence[Action(fresh, progress, sure1)]
           /\ Tier(t, stale) <= Tier(t, fresh)
<1>1. Severity[stale] >= Severity[fresh]
  BY DEF Severity, Modes
<1>2. Tier(t, stale) <= Tier(t, fresh)
  BY TierFact DEF Tier, BudgetCap, Modes
<1> DEFINE done == IF progress = None THEN 0 ELSE progress
<1>3. done \in 0..100
  BY UsageAssumption
<1>4. CASE fresh = "CRITICAL"
  BY <1>1, <1>2, <1>3, <1>4, ActionFact DEF Licence, Modes
<1>5. CASE fresh # "CRITICAL" /\ sure2
  <2>1. stale # "CRITICAL"
    BY <1>5 DEF Modes
  <2>2. Action(stale, progress, sure2) = "ask_user"
    BY <1>3, <1>5, <2>1, ActionFact DEF Modes
  <2>3. Action(fresh, progress, sure1) \in
           {"ask_user", "verify", "reduce_scope", "continue", "run"}
    BY <1>3, <1>5, ActionFact DEF Modes
  <2> QED BY <1>1, <1>2, <2>2, <2>3 DEF Licence
<1>6. CASE fresh # "CRITICAL" /\ ~sure2
  <2>1. ~sure1 /\ stale # "CRITICAL"
    BY <1>6 DEF Modes
  <2>2. CASE stale = fresh
    BY <1>1, <1>2, <1>3, <1>6, <2>1, <2>2, ActionFact DEF Licence, Modes
  <2>3. CASE fresh = "SAFE" /\ stale = "CAUTION"
    BY <1>1, <1>2, <1>3, <1>6, <2>1, <2>3, ActionFact DEF Licence, Modes
  <2> QED BY <2>2, <2>3
<1> QED BY <1>4, <1>5, <1>6

(* As long as the adapter reads nothing new, its budget stays or turns     *)
(* from ESTIMATED to STALE.                                                *)
LEMMA BudgetAges ==
    ASSUME TypeOK, [Next]_vars, UNCHANGED <<reading, limit, probe>>
    PROVE  \/ AvailableBudget' = AvailableBudget
           \/ /\ AvailableBudget = [percent |-> reading, confidence |-> "ESTIMATED"]
              /\ AvailableBudget' = [percent |-> reading, confidence |-> "STALE"]
              /\ reading \in 0..100
<1> USE UsageAssumption DEF TypeOK
<1>1. UNCHANGED age \/ (age \in 0..(StaleAfter + 1) /\ age' \in Nat /\ age' >= age)
  <2>1. CASE Tick
    BY <2>1, OlderFact DEF Tick
  <2>2. CASE ~Tick
    <3>1. ASSUME NEW level \in Levels, BucketMoves(level) PROVE UNCHANGED age
      BY <3>1 DEF BucketMoves, adapter
    <3>2. CASE SendProbe
      BY <3>2 DEF SendProbe, adapter
    <3>3. CASE RefreshFails
      BY <3>3 DEF RefreshFails, adapter
    <3>4. ASSUME NEW total \in {"zero", "known"}, UpdateLimits(total) PROVE UNCHANGED age
      BY <3>4 DEF UpdateLimits
    <3>5. CASE UpdateBreaksOff
      BY <3>5 DEF UpdateBreaksOff
    <3>6. CASE UNCHANGED vars
      BY <3>6 DEF vars, adapter
    <3> QED BY <2>2, <3>1, <3>2, <3>3, <3>4, <3>5, <3>6 DEF Next
  <2> QED BY <2>1, <2>2
<1>2. CASE UNCHANGED age
  BY <1>2 DEF AvailableBudget, ConfidenceForAge
<1>3. CASE age \in 0..(StaleAfter + 1) /\ age' \in Nat /\ age' >= age
  <2>1. CASE reading = None \/ limit # "known"
    BY <1>3, <2>1 DEF AvailableBudget
  <2>2. CASE reading # None /\ limit = "known"
    <3>1. /\ AvailableBudget = [percent |-> reading, confidence |-> ConfidenceForAge(age)]
          /\ AvailableBudget' = [percent |-> reading, confidence |-> ConfidenceForAge(age')]
      BY <1>3, <2>2 DEF AvailableBudget, ConfidenceForAge
    <3>2. \/ ConfidenceForAge(age') = ConfidenceForAge(age)
          \/ ConfidenceForAge(age) = "ESTIMATED" /\ ConfidenceForAge(age') = "STALE"
      BY <1>3 DEF ConfidenceForAge
    <3> QED BY <2>2, <3>1, <3>2
  <2> QED BY <2>1, <2>2
<1> QED BY <1>1, <1>2, <1>3

LEMMA AgingFact ==
    ASSUME TypeOK, [Next]_vars, UNCHANGED <<reading, limit, probe>>,
           NEW t \in Tasks, NEW progress \in Progress \cup {None}
    PROVE  NoLooser(Decision(t, progress, AvailableBudget'),
                    Decision(t, progress, AvailableBudget))
<1> DEFINE before == AvailableBudget
           after == AvailableBudget'
<1>1. /\ EffectiveMode(t, before) \in Modes /\ EffectiveMode(t, after) \in Modes
      /\ TooUnsure(t, before.confidence) \in BOOLEAN
      /\ TooUnsure(t, after.confidence) \in BOOLEAN
  BY EffectiveType DEF TooUnsure
<1>2. /\ \/ EffectiveMode(t, after) = EffectiveMode(t, before)
         \/ EffectiveMode(t, before) = "SAFE" /\ EffectiveMode(t, after) = "CAUTION"
      /\ TooUnsure(t, before.confidence) => TooUnsure(t, after.confidence)
  <2>1. CASE after = before
    BY <2>1
  <2>2. CASE /\ before = [percent |-> reading, confidence |-> "ESTIMATED"]
             /\ after = [percent |-> reading, confidence |-> "STALE"]
             /\ reading \in 0..100
    BY <2>2, StaleMode, StaleUnsure
  <2> QED BY <2>1, <2>2, BudgetAges
<1> HIDE DEF before, after
<1>3. /\ Severity[EffectiveMode(t, after)] >= Severity[EffectiveMode(t, before)]
      /\ Licence[Action(EffectiveMode(t, after), progress, TooUnsure(t, after.confidence))]
            <= Licence[Action(EffectiveMode(t, before), progress, TooUnsure(t, before.confidence))]
      /\ Tier(t, EffectiveMode(t, after)) <= Tier(t, EffectiveMode(t, before))
  BY <1>1, <1>2, LooserFact
<1>4. NoLooser(Decision(t, progress, after), Decision(t, progress, before))
  BY <1>3 DEF NoLooser, Decision
<1> QED BY <1>4 DEF before, after

(* Waiting with an old reading never makes the engine or the router        *)
(* bolder.                                                                 *)
THEOREM WaitingIsCareful == Spec => AgingNeverLoosens
<1>1. TypeOK /\ [Next]_vars =>
         [UNCHANGED <<reading, limit, probe>> =>
            \A t \in Tasks, progress \in Progress \cup {None} :
              NoLooser(Decision(t, progress, AvailableBudget'),
                       Decision(t, progress, AvailableBudget))]_vars
  BY AgingFact
<1> QED BY <1>1, Typing, PTL DEF Spec, AgingNeverLoosens

-----------------------------------------------------------------------------
(* The lines of a log that can be read, by their numbers. *)
Valid(log) == {i \in DOMAIN log.lines : log.lines[i] # Corrupted}

(* A log of what is in S: a file that does not end in a newline has a      *)
(* line.                                                                   *)
IsLog(log, S) == /\ log.lines \in Seq(S \cup {Corrupted}) /\ log.newline \in BOOLEAN
                 /\ ~log.newline => Len(log.lines) > 0

(* Whether the log ends in the middle of a line, and whether that line     *)
(* could be read if nothing followed: what an append that is cut short     *)
(* leaves for the next one to spoil.                                       *)
Open(log) == IF log.newline THEN 0 ELSE 1

Loose(log) == IF ~log.newline /\ log.lines[Len(log.lines)] # Corrupted THEN 1 ELSE 0

(* What load_events returns. *)
LEMMA LoadedLaw ==
    ASSUME NEW S, NEW log, IsLog(log, S)
    PROVE  /\ DOMAIN Loaded(log) = Valid(log)
           /\ \A i \in Valid(log) : Loaded(log)[i] = log.lines[i] /\ log.lines[i] \in S
           /\ Valid(log) \subseteq 1..Len(log.lines)
           /\ IsFiniteSet(Valid(log)) /\ HowMany(Loaded(log)) = Cardinality(Valid(log))
           /\ Cardinality(Valid(log)) \in Nat /\ Cardinality(Valid(log)) <= Len(log.lines)
           /\ Len(log.lines) \in Nat
<1>1. Valid(log) \subseteq 1..Len(log.lines)
  BY DEF Valid, IsLog
<1>2. Len(log.lines) \in Nat /\ IsFiniteSet(1..Len(log.lines))
      /\ Cardinality(1..Len(log.lines)) = Len(log.lines)
  BY FS_Interval DEF IsLog
<1>3. IsFiniteSet(Valid(log)) /\ Cardinality(Valid(log)) \in Nat
      /\ Cardinality(Valid(log)) <= Len(log.lines)
  BY <1>1, <1>2, FS_Subset, FS_CardinalityType
<1>4. DOMAIN Loaded(log) = Valid(log)
      /\ \A i \in Valid(log) : Loaded(log)[i] = log.lines[i]
  BY DEF Loaded, Restrict, Valid
<1>5. \A i \in Valid(log) : log.lines[i] \in S
  BY DEF Valid, IsLog
<1> QED BY <1>1, <1>2, <1>3, <1>4, <1>5 DEF HowMany

(* A line added to a log that ends in a newline. *)
LEMMA Kept ==
    ASSUME NEW S, NEW log, IsLog(log, S), log.newline, NEW x \in S \cup {Corrupted},
           Corrupted \notin S, NEW new, new.lines = Append(log.lines, x), new.newline \in BOOLEAN
    PROVE  /\ IsLog(new, S) /\ Len(new.lines) = Len(log.lines) + 1
           /\ x = Corrupted => /\ Valid(new) = Valid(log) /\ Loose(new) = 0
           /\ x # Corrupted => /\ Valid(new) = Valid(log) \cup {Len(log.lines) + 1}
                               /\ Cardinality(Valid(new)) = Cardinality(Valid(log)) + 1
                               /\ Loose(new) = Open(new)
<1> DEFINE n == Len(log.lines)
<1>1. /\ n \in Nat /\ Len(new.lines) = n + 1 /\ new.lines \in Seq(S \cup {Corrupted})
      /\ DOMAIN new.lines = 1..(n + 1) /\ DOMAIN log.lines = 1..n
      /\ new.lines[n + 1] = x /\ \A i \in 1..n : new.lines[i] = log.lines[i]
  BY DEF IsLog
<1>2. IsLog(new, S)
  BY <1>1 DEF IsLog
<1>3. x = Corrupted => Valid(new) = Valid(log)
  BY <1>1 DEF Valid
<1>4. x # Corrupted => Valid(new) = Valid(log) \cup {n + 1}
  BY <1>1 DEF Valid
<1>5. n + 1 \notin Valid(log) /\ IsFiniteSet(Valid(log))
  <2>1. Valid(log) \subseteq 1..n /\ IsFiniteSet(Valid(log))
    BY LoadedLaw
  <2> QED BY <2>1, <1>1
<1>6. x # Corrupted => Cardinality(Valid(new)) = Cardinality(Valid(log)) + 1
  BY <1>4, <1>5, FS_AddElement
<1>7. Loose(new) = IF ~new.newline /\ x # Corrupted THEN 1 ELSE 0
  BY <1>1 DEF Loose
<1> QED BY <1>1, <1>2, <1>3, <1>4, <1>6, <1>7 DEF Open

(* A line that joins one without its newline: neither can be read. *)
LEMMA Lost ==
    ASSUME NEW S, NEW log, IsLog(log, S), ~log.newline, Corrupted \notin S,
           NEW new, new.lines = Joined(log), new.newline \in BOOLEAN
    PROVE  /\ IsLog(new, S) /\ Len(new.lines) = Len(log.lines) /\ Loose(new) = 0
           /\ Valid(new) = Valid(log) \ {Len(log.lines)}
           /\ Cardinality(Valid(new)) = Cardinality(Valid(log)) - Loose(log)
<1> DEFINE n == Len(log.lines)
<1>1. /\ n \in Nat \ {0} /\ Len(new.lines) = n /\ new.lines \in Seq(S \cup {Corrupted})
      /\ DOMAIN new.lines = 1..n /\ DOMAIN log.lines = 1..n
      /\ new.lines[n] = Corrupted /\ \A i \in 1..n : i # n => new.lines[i] = log.lines[i]
  BY DEF IsLog, Joined
<1>2. IsLog(new, S) /\ Loose(new) = 0
  BY <1>1 DEF IsLog, Loose
<1>3. Valid(new) = Valid(log) \ {n}
  BY <1>1 DEF Valid
<1>4. IsFiniteSet(Valid(log)) /\ Cardinality(Valid(log)) \in Nat
  BY LoadedLaw, <1>1
<1>5. CASE n \in Valid(log)
  <2>1. Loose(log) = 1
    BY <1>5 DEF Loose, Valid
  <2>2. Cardinality(Valid(new)) = Cardinality(Valid(log)) - 1
    BY <1>3, <1>4, <1>5, FS_RemoveElement
  <2> QED BY <2>1, <2>2, <1>1, <1>2, <1>3
<1>6. CASE n \notin Valid(log)
  <2>1. Loose(log) = 0
    BY <1>6, <1>1 DEF Loose, Valid
  <2>2. Valid(new) = Valid(log)
    BY <1>3, <1>6
  <2> QED BY <2>1, <2>2, <1>1, <1>2, <1>3, <1>4
<1> QED BY <1>5, <1>6

(* Append adds a last element and keeps the others. *)
LEMMA AppendedOne ==
    ASSUME NEW S, NEW s \in Seq(S), NEW x \in S
    PROVE  /\ Append(s, x)[Len(s) + 1] = x
           /\ \A i \in 1..Len(s) : Append(s, x)[i] = s[i]
  OBVIOUS

(* An append that completes. *)
LEMMA AppendLaw ==
    ASSUME NEW S, NEW log, IsLog(log, S), NEW x \in S, Corrupted \notin S
    PROVE  LET new == Appended(log, x)
           IN  /\ IsLog(new, S) /\ Open(new) = 0 /\ Loose(new) = 0
               /\ \A i \in Valid(new) : \/ i \in Valid(log) /\ new.lines[i] = log.lines[i]
                                        \/ new.lines[i] = x
               /\ log.newline => /\ Len(new.lines) = Len(log.lines) + 1
                                 /\ Cardinality(Valid(new)) = Cardinality(Valid(log)) + 1
               /\ ~log.newline => /\ Len(new.lines) = Len(log.lines)
                                  /\ Cardinality(Valid(new)) = Cardinality(Valid(log)) - Loose(log)
<1> DEFINE new == Appended(log, x)
<1>1. new.newline = TRUE /\ Open(new) = 0 /\ Loose(new) = 0
  BY DEF Appended, Open, Loose
<1>2. CASE log.newline
  <2>1. new.lines = Append(log.lines, x) /\ x # Corrupted /\ x \in S \cup {Corrupted}
    BY <1>2 DEF Appended
  <2> HIDE DEF new
  <2>2. /\ IsLog(new, S) /\ Len(new.lines) = Len(log.lines) + 1
        /\ Valid(new) = Valid(log) \cup {Len(log.lines) + 1}
        /\ Cardinality(Valid(new)) = Cardinality(Valid(log)) + 1
    <3>1. new.newline \in BOOLEAN
      BY <1>1 DEF new
    <3> QED BY <2>1, <3>1, <1>2, Kept
  <2>3. /\ Valid(log) \subseteq 1..Len(log.lines)
        /\ new.lines[Len(log.lines) + 1] = x
        /\ \A i \in 1..Len(log.lines) : new.lines[i] = log.lines[i]
    <3>1. Valid(log) \subseteq 1..Len(log.lines) /\ log.lines \in Seq(S \cup {Corrupted})
      BY LoadedLaw DEF IsLog
    <3> QED BY <3>1, <2>1, AppendedOne
  <2> QED BY <1>1, <1>2, <2>2, <2>3 DEF new
<1>3. CASE ~log.newline
  <2>1. new.lines = Joined(log)
    BY <1>3 DEF Appended
  <2> HIDE DEF new
  <2>2. /\ IsLog(new, S) /\ Len(new.lines) = Len(log.lines)
        /\ Valid(new) = Valid(log) \ {Len(log.lines)}
        /\ Cardinality(Valid(new)) = Cardinality(Valid(log)) - Loose(log)
    BY <2>1, <1>1, <1>3, Lost
  <2>3. \A i \in Valid(log) \ {Len(log.lines)} : new.lines[i] = log.lines[i]
    BY <2>1 DEF IsLog, Valid, Joined
  <2> QED BY <1>1, <1>3, <2>2, <2>3 DEF new
<1> QED BY <1>2, <1>3

(* An append that is cut short. *)
LEMMA CutLaw ==
    ASSUME NEW S, NEW log, IsLog(log, S), NEW x \in S, Corrupted \notin S,
           NEW new \in AppendedInPart(log, x)
    PROVE  /\ IsLog(new, S)
           /\ \A i \in Valid(new) : \/ i \in Valid(log) /\ new.lines[i] = log.lines[i]
                                    \/ new.lines[i] = x
           /\ \/ new = log
              \/ /\ log.newline /\ Open(new) = 1 /\ Len(new.lines) = Len(log.lines) + 1
                 /\ Cardinality(Valid(new)) = Cardinality(Valid(log)) + Loose(new)
              \/ /\ ~log.newline /\ Open(new) = 1 /\ Loose(new) = 0
                 /\ Len(new.lines) = Len(log.lines)
                 /\ Cardinality(Valid(new)) = Cardinality(Valid(log)) - Loose(log)
<1>1. CASE new = log
  BY <1>1
<1>2. ASSUME NEW y \in {x, Corrupted},
             new = [lines |-> IF log.newline THEN Append(log.lines, y) ELSE Joined(log),
                    newline |-> FALSE]
      PROVE  /\ IsLog(new, S)
             /\ \A i \in Valid(new) : \/ i \in Valid(log) /\ new.lines[i] = log.lines[i]
                                      \/ new.lines[i] = x
             /\ \/ /\ log.newline /\ Open(new) = 1 /\ Len(new.lines) = Len(log.lines) + 1
                   /\ Cardinality(Valid(new)) = Cardinality(Valid(log)) + Loose(new)
                \/ /\ ~log.newline /\ Open(new) = 1 /\ Loose(new) = 0
                   /\ Len(new.lines) = Len(log.lines)
                   /\ Cardinality(Valid(new)) = Cardinality(Valid(log)) - Loose(log)
  <2>1. new.newline = FALSE /\ Open(new) = 1
    BY <1>2 DEF Open
  <2>2. CASE log.newline
    <3>1. new.lines = Append(log.lines, y) /\ y \in S \cup {Corrupted}
      BY <1>2, <2>2
    <3>2. /\ IsLog(new, S) /\ Len(new.lines) = Len(log.lines) + 1
          /\ y = Corrupted => /\ Valid(new) = Valid(log) /\ Loose(new) = 0
          /\ y # Corrupted => /\ Valid(new) = Valid(log) \cup {Len(log.lines) + 1}
                              /\ Cardinality(Valid(new)) = Cardinality(Valid(log)) + 1
                              /\ Loose(new) = Open(new)
      BY <3>1, <2>1, <2>2, Kept
    <3>3. /\ Valid(log) \subseteq 1..Len(log.lines)
          /\ new.lines[Len(log.lines) + 1] = y
          /\ \A i \in 1..Len(log.lines) : new.lines[i] = log.lines[i]
      <4>1. Valid(log) \subseteq 1..Len(log.lines) /\ log.lines \in Seq(S \cup {Corrupted})
        BY LoadedLaw DEF IsLog
      <4> QED BY <4>1, <3>1, AppendedOne
    <3>4. Cardinality(Valid(log)) \in Nat
      BY LoadedLaw
    <3>5. \A i \in Valid(new) : \/ i \in Valid(log) /\ new.lines[i] = log.lines[i]
                                \/ new.lines[i] = x
      BY <3>2, <3>3
    <3>6. Cardinality(Valid(new)) = Cardinality(Valid(log)) + Loose(new)
      BY <3>2, <3>4, <2>1
    <3> QED BY <2>1, <2>2, <3>2, <3>5, <3>6
  <2>3. CASE ~log.newline
    <3>1. new.lines = Joined(log)
      BY <1>2, <2>3
    <3>2. /\ IsLog(new, S) /\ Len(new.lines) = Len(log.lines) /\ Loose(new) = 0
          /\ Valid(new) = Valid(log) \ {Len(log.lines)}
          /\ Cardinality(Valid(new)) = Cardinality(Valid(log)) - Loose(log)
      BY <3>1, <2>1, <2>3, Lost
    <3>3. \A i \in Valid(log) \ {Len(log.lines)} : new.lines[i] = log.lines[i]
      BY <3>1 DEF IsLog, Valid, Joined
    <3> QED BY <2>1, <2>3, <3>2, <3>3
  <2> QED BY <2>2, <2>3
<1> QED BY <1>1, <1>2 DEF AppendedInPart

-----------------------------------------------------------------------------
(* The agents whose events are not in the log yet, and those in their      *)
(* functions.                                                              *)
Appending == {a \in Agents : pc[a] = "append"}

Running == {a \in Agents : pc[a] = "run"}

(* HistoryTypeOK but for the bound on what ended, which Account gives. *)
Types ==
    /\ IsLog(history, Event) /\ IsLog(telemetry, Report)
    /\ capacity \in Capacities /\ clock \in Nat
    /\ pc \in [Agents -> {"idle", "run", "append"}]
    /\ draft \in [Agents -> Event \cup {None}]
    /\ \A a \in Agents : draft[a] = None <=> pc[a] = "idle"
    /\ records \in 0..MaxRecords /\ ended \in Nat /\ cuts \in 0..MaxCuts

(* What the decorator records is an event, with an end that was read or    *)
(* not.                                                                    *)
LEMMA EventType ==
    ASSUME NEW t \in Tasks, NEW level \in 0..100, NEW confidence \in Confidences,
           NEW now \in Nat, NEW end \in EndLevels \cup {None}, NEW outcome \in Outcomes
    PROVE  EventOf(t, [level |-> level, confidence |-> confidence], now, end, outcome) \in Event
<1> DEFINE given == [level |-> level, confidence |-> confidence]
<1>1. Assessed(given) \in Modes
  BY DEF Assessed, Mode, Modes
<1>2. BaseCost \in 0..100 /\ end \in 0..100 \cup {None}
  BY HistoryAssumption
<1> QED BY <1>1, <1>2 DEF EventOf, Event

(* What a provider says is a reading. *)
LEMMA ReadingType ==
    ASSUME NEW reading_ \in Readings
    PROVE  /\ reading_.level \in 0..100 /\ reading_.confidence \in Confidences
           /\ reading_ = [level |-> reading_.level, confidence |-> reading_.confidence]
  BY HistoryAssumption

(* The half of a decorated call that makes its event keeps the types. *)
LEMMA HasEventType ==
    ASSUME Types, NEW a \in Agents, NEW t \in Tasks, NEW level \in 0..100,
           NEW confidence \in Confidences, NEW outcome \in Outcomes,
           HasEvent(a, t, [level |-> level, confidence |-> confidence], outcome)
    PROVE  /\ clock' \in Nat /\ ended' = ended + 1 /\ pc' = [pc EXCEPT ![a] = "append"]
           /\ draft' \in [Agents -> Event \cup {None}]
           /\ \A b \in Agents : draft'[b] = None <=> pc'[b] = "idle"
<1>1. PICK now \in {clock, clock + 1}, end \in EndLevels :
          /\ clock' = now
          /\ draft' = [draft EXCEPT ![a] =
                  EventOf(t, [level |-> level, confidence |-> confidence], now, end, outcome)]
          /\ ended' = ended + 1
          /\ pc' = [pc EXCEPT ![a] = "append"]
  BY DEF HasEvent
<1>2. now \in Nat
  BY DEF Types
<1>3. EventOf(t, [level |-> level, confidence |-> confidence], now, end, outcome) \in Event
  BY <1>2, EventType
<1>4. None \notin Event
  BY LineAssumption
<1> QED BY <1>1, <1>2, <1>3, <1>4 DEF Types

(* Percentages are numbers. *)
LEMMA PercentType ==
    ASSUME NEW tokens \in Nat, NEW budget \in Nat \ {0}
    PROVE  Percent(tokens, budget) \in Nat
  BY DEF Percent

(* What create returns is a report. *)
LEMMA CreatedType ==
    ASSUME Types, NEW estimated \in Nat \cup {None}, NEW tokens \in UsedTokens \cup {None},
           NEW budget \in Capacities \cup {None}, NEW of \in Analysis \cup {None},
           NEW steady \in BOOLEAN
    PROVE  Created(estimated, tokens, budget, of, steady) \in Report
<1>1. Capacities \subseteq Nat \ {0} /\ UsedTokens \subseteq Nat
  BY HistoryAssumption
<1>2. EffectiveBudget(budget) \in Capacities
  BY DEF Types, EffectiveBudget
<1>3. tokens # None => Percent(tokens, EffectiveBudget(budget)) \in Nat
  <2> SUFFICES ASSUME tokens # None PROVE Percent(tokens, EffectiveBudget(budget)) \in Nat
    OBVIOUS
  <2>1. tokens \in Nat /\ EffectiveBudget(budget) \in Nat \ {0}
    BY <1>1, <1>2
  <2> QED BY <2>1, PercentType
<1> QED BY <1>2, <1>3 DEF Created, Report

(* Agents can be counted. *)
LEMMA Counted ==
    ASSUME Types
    PROVE  /\ IsFiniteSet(Appending) /\ Cardinality(Appending) \in Nat
           /\ IsFiniteSet(Running) /\ Cardinality(Running) \in Nat
<1>1. IsFiniteSet(Agents)
  BY HistoryAssumption
<1> QED BY <1>1, FS_Subset, FS_CardinalityType DEF Appending, Running

(* Every step keeps the types: what a process appends is an event or a     *)
(* report, whatever is left of it.                                         *)
LEMMA HistoryTyping == HistorySpec => []Types
<1>1. HistoryInit => Types
  <2> SUFFICES ASSUME HistoryInit PROVE Types
    OBVIOUS
  <2>1. IsLog(EmptyLog, Event) /\ IsLog(EmptyLog, Report)
    BY DEF IsLog, EmptyLog
  <2>2. None \notin Event /\ MaxRecords \in Nat /\ MaxCuts \in Nat
    BY LineAssumption, HistoryAssumption
  <2> QED BY <2>1, <2>2 DEF HistoryInit, Types
<1>2. Types /\ [HistoryNext]_historyVars => Types'
  <2> SUFFICES ASSUME Types, [HistoryNext]_historyVars PROVE Types'
    OBVIOUS
  <2> DEFINE Logged == IsLog(history, Event) /\ IsLog(telemetry, Report)
             Bounds == records \in 0..MaxRecords /\ ended \in Nat /\ cuts \in 0..MaxCuts
             Agency == /\ pc \in [Agents -> {"idle", "run", "append"}]
                       /\ draft \in [Agents -> Event \cup {None}]
                       /\ \A a \in Agents : draft[a] = None <=> pc[a] = "idle"
  <2>0. Types' <=> Logged' /\ Bounds' /\ Agency' /\ (capacity \in Capacities)' /\ (clock \in Nat)'
    BY DEF Types
  <2>a. /\ Logged /\ Bounds /\ Agency /\ capacity \in Capacities /\ clock \in Nat
        /\ MaxRecords \in Nat /\ MaxCuts \in Nat
        /\ Corrupted \notin Event /\ Corrupted \notin Report /\ None \notin Event
    BY LineAssumption, HistoryAssumption DEF Types
  <2>1. ASSUME NEW a \in Agents, NEW t \in Tasks, NEW given \in Readings, Defer(a, t, given)
        PROVE  Types'
    <3>1. /\ given.level \in 0..100 /\ given.confidence \in Confidences
          /\ given = [level |-> given.level, confidence |-> given.confidence]
      BY ReadingType
    <3>2. "deferred" \in Outcomes
      BY DEF Outcomes
    <3>3. HasEvent(a, t, [level |-> given.level, confidence |-> given.confidence], "deferred")
      BY <2>1, <3>1 DEF Defer
    <3>4. clock' \in Nat /\ ended' = ended + 1 /\ Agency'
      <4>1. /\ clock' \in Nat /\ ended' = ended + 1 /\ pc' = [pc EXCEPT ![a] = "append"]
            /\ draft' \in [Agents -> Event \cup {None}]
            /\ \A b \in Agents : draft'[b] = None <=> pc'[b] = "idle"
        BY <3>1, <3>2, <3>3, HasEventType
      <4> QED BY <4>1, <2>a
    <3>5. Logged' /\ capacity' \in Capacities /\ Bounds'
      BY <2>1, <2>a, <3>4 DEF Defer, Records, logs
    <3> QED BY <2>0, <3>4, <3>5
  <2>2. ASSUME NEW a \in Agents, NEW t \in Tasks, NEW given \in Readings, Call(a, t, given)
        PROVE  Types'
    <3>1. /\ given.level \in 0..100 /\ given.confidence \in Confidences
          /\ given = [level |-> given.level, confidence |-> given.confidence]
      BY ReadingType
    <3>2. "completed" \in Outcomes
      BY DEF Outcomes
    <3>3. EventOf(t, given, clock, None, "completed") \in Event
      BY <3>1, <3>2, <2>a, EventType
    <3>4. Agency'
      BY <2>2, <2>a, <3>3 DEF Call
    <3>5. Logged' /\ capacity' \in Capacities /\ clock' \in Nat /\ Bounds'
      BY <2>2, <2>a DEF Call, Records, logs
    <3> QED BY <2>0, <3>4, <3>5
  <2>3. ASSUME NEW a \in Agents, NEW outcome \in {"completed", "failed"}, FunctionEnds(a, outcome)
        PROVE  Types'
    <3>1. draft[a] \in Event
      BY <2>3, <2>a DEF FunctionEnds
    <3>2. /\ draft[a].task \in Tasks /\ draft[a].start \in 0..100
          /\ draft[a].confidence \in Confidences /\ outcome \in Outcomes
      BY <3>1 DEF Event, Outcomes
    <3>3. HasEvent(a, draft[a].task, [level |-> draft[a].start, confidence |-> draft[a].confidence],
                     outcome)
      BY <2>3 DEF FunctionEnds
    <3>4. clock' \in Nat /\ ended' = ended + 1 /\ Agency'
      <4>1. /\ clock' \in Nat /\ ended' = ended + 1 /\ pc' = [pc EXCEPT ![a] = "append"]
            /\ draft' \in [Agents -> Event \cup {None}]
            /\ \A b \in Agents : draft'[b] = None <=> pc'[b] = "idle"
        BY <3>2, <3>3, HasEventType
      <4> QED BY <4>1, <2>a
    <3>5. Logged' /\ capacity' \in Capacities /\ Bounds'
      BY <2>3, <2>a, <3>4 DEF FunctionEnds, logs
    <3> QED BY <2>0, <3>4, <3>5
  <2>4. ASSUME NEW a \in Agents, AppendEvent(a)
        PROVE  Types'
    <3>1. draft[a] \in Event
      BY <2>4, <2>a DEF AppendEvent
    <3>2. IsLog(history', Event)
      BY <2>4, <2>a, <3>1, AppendLaw DEF AppendEvent
    <3>3. Logged' /\ capacity' \in Capacities /\ clock' \in Nat /\ Bounds'
      BY <2>4, <2>a, <3>2 DEF AppendEvent
    <3>4. Agency'
      BY <2>4, <2>a DEF AppendEvent, Forgets
    <3> QED BY <2>0, <3>3, <3>4
  <2>5. ASSUME NEW a \in Agents, AppendFails(a)
        PROVE  Types'
    <3>1. draft[a] \in Event
      BY <2>5, <2>a DEF AppendFails
    <3>2. IsLog(history', Event)
      BY <2>5, <2>a, <3>1, CutLaw DEF AppendFails
    <3>3. Logged' /\ capacity' \in Capacities /\ clock' \in Nat /\ Bounds'
      BY <2>5, <2>a, <3>2 DEF AppendFails
    <3>4. Agency'
      BY <2>5, <2>a DEF AppendFails, Forgets
    <3> QED BY <2>0, <3>3, <3>4
  <2>6. ASSUME NEW a \in Agents, Interrupted(a)
        PROVE  Types'
    <3>1. Agency'
      BY <2>6, <2>a DEF Interrupted, Forgets
    <3> QED BY <2>0, <2>6, <2>a, <3>1 DEF Interrupted, logs
  <2>7. CASE Clear
    <3>1. IsLog(EmptyLog, Event)
      BY DEF IsLog, EmptyLog
    <3>2. ended' = Cardinality(Appending)
      BY <2>7 DEF Clear, Appending
    <3>3. Logged' /\ Bounds' /\ Agency'
      BY <2>7, <2>a, <3>1, <3>2, Counted DEF Clear
    <3> QED BY <2>0, <2>7, <2>a, <3>3 DEF Clear
  <2>8. ASSUME NEW c \in Capacities, Reconfigure(c)
        PROVE  Types'
    BY <2>0, <2>8, <2>a DEF Reconfigure, logs, calls
  <2>9. ASSUME NEW r \in Report, Records, Keeps(r), UNCHANGED <<history, capacity, calls>>
        PROVE  Types'
    <3>1. IsLog(telemetry', Report)
      <4>1. CASE telemetry' = Appended(telemetry, r)
        BY <4>1, <2>a, AppendLaw
      <4>2. CASE telemetry' \in AppendedInPart(telemetry, r)
        BY <4>2, <2>a, CutLaw
      <4> QED BY <4>1, <4>2, <2>9 DEF Keeps
    <3> QED BY <2>0, <2>9, <2>a, <3>1 DEF Records, calls
  <2>10. ASSUME NEW analysis \in Analysis, NEW tokens \in UsedTokens \cup {None},
                NEW echoes \in BOOLEAN, ReportResult(analysis, tokens, echoes)
         PROVE  Types'
    <3> DEFINE estimated == IF echoes THEN Percent(analysis.tokens, analysis.capacity) ELSE None
               r == Created(estimated, tokens, None, analysis, analysis.capacity = capacity)
    <3>1. analysis.tokens \in Nat /\ analysis.capacity \in Nat \ {0}
      BY HistoryAssumption DEF Analysis
    <3>2. estimated \in Nat \cup {None}
      BY <3>1, PercentType
    <3>3. r \in Report
      <4> HIDE DEF estimated
      <4> QED BY <3>2, CreatedType
    <3>4. Records /\ Keeps(r) /\ UNCHANGED <<history, capacity, calls>>
      BY <2>10 DEF ReportResult
    <3> HIDE DEF r
    <3> QED BY <3>3, <3>4, <2>9
  <2>11. ASSUME NEW i \in DOMAIN Reports, ReportAgain(Reports[i])
         PROVE  Types'
    <3> DEFINE given == Reports[i]
               r == Created(given.estimated, given.tokens, given.budget, given.of, given.steady)
    <3>1. given \in Report
      BY <2>a, LoadedLaw DEF Reports
    <3>2. r \in Report
      <4>1. /\ given.estimated \in Nat \cup {None} /\ given.tokens \in UsedTokens \cup {None}
            /\ given.budget \in Capacities \cup {None} /\ given.of \in Analysis \cup {None}
            /\ given.steady \in BOOLEAN
        BY <3>1 DEF Report
      <4> HIDE DEF given
      <4> QED BY <4>1, CreatedType
    <3>3. Records /\ Keeps(r) /\ UNCHANGED <<history, capacity, calls>>
      BY <2>11 DEF ReportAgain
    <3> HIDE DEF r
    <3> QED BY <3>2, <3>3, <2>9
  <2>12. CASE UNCHANGED historyVars
    BY <2>12, <2>a, <2>0 DEF historyVars, logs, calls
  <2> HIDE DEF Logged, Bounds, Agency
  <2> QED BY <2>1, <2>2, <2>3, <2>4, <2>5, <2>6, <2>7, <2>8, <2>10, <2>11, <2>12 DEF HistoryNext
<1> QED BY <1>1, <1>2, PTL DEF HistorySpec

-----------------------------------------------------------------------------
(* The accounts of the history log.  A call that recorded an outcome       *)
(* still has its event to append, or is read in the log, or was lost; an   *)
(* append that failed loses its own event (and the line is missing), or    *)
(* leaves it open for the next one to join, which is one line with two     *)
(* events; so a line that is not read cost one failure, and there are no   *)
(* more open ends than failures.                                           *)
Lines == Len(history.lines)

Readable == Cardinality(Valid(history))

Account ==
    /\ Cardinality(Appending) + Readable <= ended
    /\ ended + Cardinality(Running) <= records
    /\ ended + Open(history) <= Cardinality(Appending) + cuts + Lines
    /\ Lines - Readable + Loose(history) <= cuts
    /\ Lines = 0 => ended = Cardinality(Appending) + cuts

(* The ranges of these counts. *)
LEMMA Numbers ==
    ASSUME Types
    PROVE  /\ Lines \in Nat /\ Readable \in Nat /\ Readable <= Lines
           /\ Open(history) \in 0..1 /\ Loose(history) \in 0..Open(history)
           /\ Open(history) = 1 => Lines > 0
           /\ history.newline <=> Open(history) = 0
<1>1. IsLog(history, Event)
  BY DEF Types
<1>2. Lines \in Nat /\ Readable \in Nat /\ Readable <= Lines
  BY <1>1, LoadedLaw DEF Lines, Readable
<1>3. /\ Open(history) \in 0..1 /\ Loose(history) \in 0..Open(history)
      /\ history.newline <=> Open(history) = 0
  BY DEF Open, Loose
<1>4. ~history.newline => Lines > 0
  BY <1>1 DEF IsLog, Lines
<1> QED BY <1>2, <1>3, <1>4

(* An agent that goes from one state to another changes the numbers of     *)
(* those that append and run by one at most.                               *)
LEMMA Moves ==
    ASSUME Types, NEW a \in Agents, NEW to \in {"idle", "run", "append"},
           pc' = [pc EXCEPT ![a] = to]
    PROVE  /\ pc[a] = "idle" /\ to = "append" =>
                 /\ Cardinality(Appending') = Cardinality(Appending) + 1
                 /\ Cardinality(Running') = Cardinality(Running)
           /\ pc[a] = "idle" /\ to = "run" =>
                 /\ Cardinality(Appending') = Cardinality(Appending)
                 /\ Cardinality(Running') = Cardinality(Running) + 1
           /\ pc[a] = "run" /\ to = "append" =>
                 /\ Cardinality(Appending') = Cardinality(Appending) + 1
                 /\ Cardinality(Running') = Cardinality(Running) - 1
           /\ pc[a] = "run" /\ to = "idle" =>
                 /\ Cardinality(Appending') = Cardinality(Appending)
                 /\ Cardinality(Running') = Cardinality(Running) - 1
           /\ pc[a] = "append" /\ to = "idle" =>
                 /\ Cardinality(Appending') = Cardinality(Appending) - 1
                 /\ Cardinality(Running') = Cardinality(Running)
<1>1. pc \in [Agents -> {"idle", "run", "append"}]
  BY DEF Types
<1>2. /\ Appending' = IF to = "append" THEN Appending \cup {a} ELSE Appending \ {a}
      /\ Running' = IF to = "run" THEN Running \cup {a} ELSE Running \ {a}
  BY <1>1 DEF Appending, Running
<1>3. /\ a \in Appending <=> pc[a] = "append"
      /\ a \in Running <=> pc[a] = "run"
  BY DEF Appending, Running
<1>4. /\ IsFiniteSet(Appending) /\ IsFiniteSet(Running)
      /\ Cardinality(Appending) \in Nat /\ Cardinality(Running) \in Nat
  BY Counted
<1>5. /\ a \notin Appending => /\ Cardinality(Appending \cup {a}) = Cardinality(Appending) + 1
                               /\ Appending \ {a} = Appending
      /\ a \in Appending => Cardinality(Appending \ {a}) = Cardinality(Appending) - 1
  <2>1. a \notin Appending => Appending \ {a} = Appending
    OBVIOUS
  <2>2. a \notin Appending => Cardinality(Appending \cup {a}) = Cardinality(Appending) + 1
    BY <1>4, FS_AddElement
  <2>3. a \in Appending => Cardinality(Appending \ {a}) = Cardinality(Appending) - 1
    BY <1>4, FS_RemoveElement
  <2> QED BY <2>1, <2>2, <2>3
<1>6. /\ a \notin Running => /\ Cardinality(Running \cup {a}) = Cardinality(Running) + 1
                             /\ Running \ {a} = Running
      /\ a \in Running => Cardinality(Running \ {a}) = Cardinality(Running) - 1
  <2>1. a \notin Running => Running \ {a} = Running
    OBVIOUS
  <2>2. a \notin Running => Cardinality(Running \cup {a}) = Cardinality(Running) + 1
    BY <1>4, FS_AddElement
  <2>3. a \in Running => Cardinality(Running \ {a}) = Cardinality(Running) - 1
    BY <1>4, FS_RemoveElement
  <2> QED BY <2>1, <2>2, <2>3
<1> QED BY <1>2, <1>3, <1>5, <1>6

(* Every action balances the accounts. *)
LEMMA Accounting == HistorySpec => []Account
<1>1. HistoryInit => Account
  <2> SUFFICES ASSUME HistoryInit PROVE Account
    OBVIOUS
  <2>1. Appending = {} /\ Running = {} /\ Valid(history) = {}
    BY DEF HistoryInit, EmptyLog, Appending, Running, Valid
  <2>2. Cardinality({}) = 0
    BY FS_EmptySet
  <2>3. /\ Lines = 0 /\ Readable = 0 /\ Open(history) = 0 /\ Loose(history) = 0
        /\ ended = 0 /\ cuts = 0 /\ records = 0
        /\ Cardinality(Appending) = 0 /\ Cardinality(Running) = 0
    BY <2>1, <2>2 DEF HistoryInit, EmptyLog, Lines, Readable, Open, Loose
  <2> QED BY <2>3 DEF Account
<1>2. Types /\ Types' /\ Account /\ [HistoryNext]_historyVars => Account'
  <2> SUFFICES ASSUME Types, Types', Account, [HistoryNext]_historyVars PROVE Account'
    OBVIOUS
  <2> DEFINE a0 == Cardinality(Appending)
             r0 == Cardinality(Running)
             k == Readable
             n == Lines
             o == Open(history)
             l == Loose(history)
  <2>a. /\ a0 \in Nat /\ r0 \in Nat /\ n \in Nat /\ k \in Nat /\ k <= n
        /\ o \in 0..1 /\ l \in 0..o
        /\ o = 1 => n > 0
        /\ history.newline <=> o = 0
        /\ records \in Nat /\ ended \in Nat /\ cuts \in Nat
        /\ IsLog(history, Event) /\ Corrupted \notin Event
    BY Numbers, Counted, LineAssumption DEF Types
  <2>b. /\ a0 + k <= ended /\ ended + r0 <= records
        /\ ended + o <= a0 + cuts + n
        /\ n - k + l <= cuts
        /\ n = 0 => ended = a0 + cuts
    BY DEF Account
  <2>c. /\ Account' <=>
              /\ a0' + k' <= ended' /\ ended' + r0' <= records'
              /\ ended' + o' <= a0' + cuts' + n'
              /\ n' - k' + l' <= cuts'
              /\ n' = 0 => ended' = a0' + cuts'
    BY DEF Account
  <2>d. ASSUME UNCHANGED history PROVE n' = n /\ k' = k /\ o' = o /\ l' = l
    BY <2>d DEF Lines, Readable, Valid, Open, Loose
  <2>e. ASSUME UNCHANGED pc PROVE a0' = a0 /\ r0' = r0
    BY <2>e DEF Appending, Running
  <2>f. ASSUME NEW a \in Agents, NEW t, NEW given, NEW outcome, HasEvent(a, t, given, outcome)
        PROVE  ended' = ended + 1 /\ pc' = [pc EXCEPT ![a] = "append"]
    BY <2>f DEF HasEvent
  <2>1. ASSUME NEW a \in Agents, NEW t \in Tasks, NEW given \in Readings, Defer(a, t, given)
        PROVE  Account'
    <3>1. /\ pc[a] = "idle" /\ records' = records + 1 /\ UNCHANGED history /\ cuts' = cuts
          /\ HasEvent(a, t, given, "deferred")
      BY <2>1 DEF Defer, Records, logs
    <3>2. ended' = ended + 1 /\ pc' = [pc EXCEPT ![a] = "append"]
      BY <3>1, <2>f
    <3>3. a0' = a0 + 1 /\ r0' = r0
      BY <3>1, <3>2, Moves
    <3>4. n' = n /\ k' = k /\ o' = o /\ l' = l
      BY <3>1, <2>d
    <3> HIDE DEF a0, r0, k, n, o, l
    <3> QED BY <2>a, <2>b, <2>c, <3>1, <3>2, <3>3, <3>4
  <2>2. ASSUME NEW a \in Agents, NEW t \in Tasks, NEW given \in Readings, Call(a, t, given)
        PROVE  Account'
    <3>1. /\ pc[a] = "idle" /\ records' = records + 1 /\ UNCHANGED history /\ cuts' = cuts
          /\ ended' = ended /\ pc' = [pc EXCEPT ![a] = "run"]
      BY <2>2 DEF Call, Records, logs
    <3>2. a0' = a0 /\ r0' = r0 + 1
      BY <3>1, Moves
    <3>3. n' = n /\ k' = k /\ o' = o /\ l' = l
      BY <3>1, <2>d
    <3> HIDE DEF a0, r0, k, n, o, l
    <3> QED BY <2>a, <2>b, <2>c, <3>1, <3>2, <3>3
  <2>3. ASSUME NEW a \in Agents, NEW outcome \in {"completed", "failed"}, FunctionEnds(a, outcome)
        PROVE  Account'
    <3>1. /\ pc[a] = "run" /\ records' = records /\ UNCHANGED history /\ cuts' = cuts
          /\ HasEvent(a, draft[a].task,
                [level |-> draft[a].start, confidence |-> draft[a].confidence], outcome)
      BY <2>3 DEF FunctionEnds, logs
    <3>2. ended' = ended + 1 /\ pc' = [pc EXCEPT ![a] = "append"]
      BY <3>1, <2>f
    <3>3. a0' = a0 + 1 /\ r0' = r0 - 1
      BY <3>1, <3>2, Moves
    <3>4. n' = n /\ k' = k /\ o' = o /\ l' = l
      BY <3>1, <2>d
    <3> HIDE DEF a0, r0, k, n, o, l
    <3> QED BY <2>a, <2>b, <2>c, <3>1, <3>2, <3>3, <3>4
  <2>4. ASSUME NEW a \in Agents, AppendEvent(a)
        PROVE  Account'
    <3>1. /\ pc[a] = "append" /\ records' = records /\ cuts' = cuts /\ ended' = ended
          /\ history' = Appended(history, draft[a]) /\ pc' = [pc EXCEPT ![a] = "idle"]
      BY <2>4 DEF AppendEvent, Forgets
    <3>2. a0' = a0 - 1 /\ r0' = r0
      BY <3>1, Moves
    <3>3. draft[a] \in Event
      BY <3>1 DEF Types
    <3>4. /\ o' = 0 /\ l' = 0
          /\ o = 0 => n' = n + 1 /\ k' = k + 1
          /\ o = 1 => n' = n /\ k' = k - l
      BY <3>1, <3>3, <2>a, AppendLaw DEF Lines, Readable
    <3> HIDE DEF a0, r0, k, n, o, l
    <3> QED BY <2>a, <2>b, <2>c, <3>1, <3>2, <3>4
  <2>5. ASSUME NEW a \in Agents, AppendFails(a)
        PROVE  Account'
    <3>1. /\ pc[a] = "append" /\ records' = records /\ cuts' = cuts + 1 /\ ended' = ended
          /\ history' \in AppendedInPart(history, draft[a]) /\ pc' = [pc EXCEPT ![a] = "idle"]
      BY <2>5 DEF AppendFails, Forgets
    <3>2. a0' = a0 - 1 /\ r0' = r0
      BY <3>1, Moves
    <3>3. draft[a] \in Event
      BY <3>1 DEF Types
    <3>4. \/ history' = history
          \/ o = 0 /\ o' = 1 /\ n' = n + 1 /\ k' = k + l'
          \/ o = 1 /\ o' = 1 /\ l' = 0 /\ n' = n /\ k' = k - l
      BY <3>1, <3>3, <2>a, CutLaw DEF Lines, Readable
    <3>5. CASE history' = history
      <4>1. n' = n /\ k' = k /\ o' = o /\ l' = l
        BY <3>5, <2>d
      <4> HIDE DEF a0, r0, k, n, o, l
      <4> QED BY <2>a, <2>b, <2>c, <3>1, <3>2, <4>1
    <3>6. CASE history' # history
      <4>1. l' \in 0..o' /\ o' \in 0..1
        BY DEF Open, Loose
      <4> HIDE DEF a0, r0, k, n, o, l
      <4> QED BY <2>a, <2>b, <2>c, <3>1, <3>2, <3>4, <3>6, <4>1
    <3> QED BY <3>5, <3>6
  <2>6. ASSUME NEW a \in Agents, Interrupted(a)
        PROVE  Account'
    <3>1. /\ pc[a] = "run" /\ records' = records /\ UNCHANGED history /\ cuts' = cuts
          /\ ended' = ended /\ pc' = [pc EXCEPT ![a] = "idle"]
      BY <2>6 DEF Interrupted, logs, Forgets
    <3>2. a0' = a0 /\ r0' = r0 - 1
      BY <3>1, Moves
    <3>3. n' = n /\ k' = k /\ o' = o /\ l' = l
      BY <3>1, <2>d
    <3> HIDE DEF a0, r0, k, n, o, l
    <3> QED BY <2>a, <2>b, <2>c, <3>1, <3>2, <3>3
  <2>7. CASE Clear
    <3>1. /\ history' = EmptyLog /\ ended' = a0 /\ cuts' = 0 /\ records' = records
          /\ UNCHANGED pc
      BY <2>7 DEF Clear, Appending
    <3>2. a0' = a0 /\ r0' = r0
      BY <3>1, <2>e
    <3>3. n' = 0 /\ k' = 0 /\ o' = 0 /\ l' = 0
      <4>1. Valid(history)' = {}
        BY <3>1 DEF Valid, EmptyLog
      <4> QED BY <3>1, <4>1, FS_EmptySet DEF EmptyLog, Lines, Readable, Open, Loose
    <3> HIDE DEF a0, r0, k, n, o, l
    <3> QED BY <2>a, <2>b, <2>c, <3>1, <3>2, <3>3
  <2>8. ASSUME UNCHANGED <<history, pc, ended, cuts>>, records' \in {records, records + 1}
        PROVE  Account'
    <3>1. n' = n /\ k' = k /\ o' = o /\ l' = l /\ a0' = a0 /\ r0' = r0
      BY <2>8, <2>d, <2>e
    <3> HIDE DEF a0, r0, k, n, o, l
    <3> QED BY <2>a, <2>b, <2>c, <2>8, <3>1
  <2>9. ASSUME NEW c \in Capacities, Reconfigure(c)
        PROVE  Account'
    BY <2>8, <2>9 DEF Reconfigure, logs, calls
  <2>10. ASSUME NEW analysis \in Analysis, NEW tokens \in UsedTokens \cup {None},
                NEW echoes \in BOOLEAN, ReportResult(analysis, tokens, echoes)
         PROVE  Account'
    BY <2>8, <2>10 DEF ReportResult, Records, calls
  <2>11. ASSUME NEW i \in DOMAIN Reports, ReportAgain(Reports[i])
         PROVE  Account'
    BY <2>8, <2>11 DEF ReportAgain, Records, calls
  <2>12. CASE UNCHANGED historyVars
    BY <2>8, <2>12 DEF historyVars, logs, calls
  <2> QED BY <2>1, <2>2, <2>3, <2>4, <2>5, <2>6, <2>7, <2>9, <2>10, <2>11, <2>12 DEF HistoryNext
<1> QED BY <1>1, <1>2, HistoryTyping, PTL DEF HistorySpec

(* What validate reports follows from the accounts. *)
LEMMA LossFact ==
    ASSUME Types, Account
    PROVE  LossIsReported
<1> DEFINE a0 == Cardinality(Appending)
           missing == ended - a0 - Readable
           torn == Lines - Readable
<1>1. /\ a0 \in Nat /\ Lines \in Nat /\ Readable \in Nat /\ Readable <= Lines
      /\ Open(history) \in 0..1 /\ Loose(history) \in 0..1
      /\ ended \in Nat /\ cuts \in Nat
  BY Numbers, Counted DEF Types
<1>2. /\ Recorded - Quality.valid = missing /\ Quality.corrupted = torn
      /\ Quality.total = Lines /\ Quality.status = StatusOf(torn, Lines)
  <2>1. HowMany(Events) = Readable
    BY LoadedLaw DEF Events, Types, Readable
  <2>2. Recorded = ended - a0
    BY DEF Recorded, Appending
  <2>3. CorruptedLines(history) = torn
    BY <2>1 DEF CorruptedLines, Events, Lines
  <2> QED BY <2>1, <2>2, <2>3 DEF Quality, Lines
<1>3. /\ 0 <= missing /\ missing <= cuts + torn /\ torn <= cuts
      /\ Lines = 0 => missing = cuts
  BY <1>1 DEF Account
<1>4. StatusOf(torn, Lines) = "NO_DATA" => Lines = 0
  BY DEF StatusOf
<1>5. StatusOf(torn, Lines) # "POOR" => (missing - cuts) * 100 <= AcceptableMax * Lines
  <2> SUFFICES ASSUME StatusOf(torn, Lines) # "POOR"
               PROVE  (missing - cuts) * 100 <= AcceptableMax * Lines
    OBVIOUS
  <2>1. GoodMax \in Int /\ AcceptableMax \in Int /\ GoodMax <= AcceptableMax
    BY HistoryAssumption
  <2>2. CASE Lines = 0
    BY <2>1, <2>2, <1>1, <1>3
  <2>3. CASE Lines # 0
    <3>1. torn * 100 <= GoodMax * Lines \/ torn * 100 <= AcceptableMax * Lines
      BY <2>3 DEF StatusOf
    <3>2. GoodMax * Lines <= AcceptableMax * Lines
      BY <2>1, <1>1
    <3>3. torn * 100 <= AcceptableMax * Lines
      BY <3>1, <3>2, <2>1, <1>1
    <3> QED BY <3>3, <1>1, <1>3, <2>1
  <2> QED BY <2>2, <2>3
<1> HIDE DEF missing, torn, a0
<1> QED BY <1>2, <1>3, <1>4, <1>5 DEF LossIsReported

(* However appends overlap, are cut short and join, `validate` reports     *)
(* what is missing: HistorySpec => []LossIsReported.                       *)
THEOREM LossIsKnown == HistorySpec => []LossIsReported
  BY HistoryTyping, Accounting, LossFact, PTL

(* No more calls end than are begun. *)
LEMMA TypeFact ==
    ASSUME Types, Account
    PROVE  HistoryTypeOK
<1>1. ended \in 0..MaxRecords
  BY Numbers, Counted, HistoryAssumption DEF Types, Account
<1> QED BY <1>1 DEF Types, HistoryTypeOK, IsLog, Line

(* Types, for any agents, tasks, readings, budgets and bounds:             *)
(* HistorySpec => []HistoryTypeOK.                                         *)
THEOREM HistoryTypes == HistorySpec => []HistoryTypeOK
  BY HistoryTyping, Accounting, TypeFact, PTL

-----------------------------------------------------------------------------
(* An event is true to the decision that was made: it has the mode that    *)
(* was assessed from the reading it shows, and it is deferred exactly if   *)
(* that mode sheds its task.                                               *)
HonestEvent(e) == /\ e.cost = BaseCost /\ e.mode = Mode(e.start, e.cost, e.confidence = "STALE")
                  /\ e.outcome = "deferred" <=> Sheds(e.mode, e.task)

(* ... whether it is in the log or about to be; who runs its function      *)
(* may complete it.                                                        *)
Faithful ==
    /\ \A a \in Agents : /\ pc[a] # "idle" => HonestEvent(draft[a])
                         /\ pc[a] = "run" => draft[a].outcome = "completed"
    /\ \A i \in Valid(history) : HonestEvent(history.lines[i])

(* The decorator records what it decided, from the reading it decided      *)
(* by.                                                                     *)
LEMMA Faithfulness == HistorySpec => []Faithful
<1>1. HistoryInit => Faithful
  BY DEF HistoryInit, EmptyLog, Faithful, Valid
<1>2. Types /\ Faithful /\ [HistoryNext]_historyVars => Faithful'
  <2> SUFFICES ASSUME Types, Faithful, [HistoryNext]_historyVars PROVE Faithful'
    OBVIOUS
  <2> DEFINE Drafts == \A a \in Agents : /\ pc[a] # "idle" => HonestEvent(draft[a])
                                         /\ pc[a] = "run" => draft[a].outcome = "completed"
             Logged == \A i \in Valid(history) : HonestEvent(history.lines[i])
  <2>a. /\ Drafts /\ Logged
        /\ pc \in [Agents -> {"idle", "run", "append"}]
        /\ draft \in [Agents -> Event \cup {None}]
        /\ \A a \in Agents : draft[a] = None <=> pc[a] = "idle"
        /\ IsLog(history, Event) /\ Corrupted \notin Event
    BY LineAssumption DEF Types, Faithful
  <2>b. Drafts' /\ Logged' => Faithful'
    BY DEF Faithful
  <2>c. ASSUME UNCHANGED history PROVE Logged'
    BY <2>a, <2>c DEF Valid
  <2>d. ASSUME NEW a \in Agents, NEW e, HonestEvent(e), draft' = [draft EXCEPT ![a] = e],
               \/ pc' = [pc EXCEPT ![a] = "append"]
               \/ pc' = [pc EXCEPT ![a] = "run"] /\ e.outcome = "completed"
        PROVE  Drafts'
    <3> HIDE DEF Logged
    <3> QED BY <2>a, <2>d
  <2>e. ASSUME NEW a \in Agents, Forgets(a) PROVE Drafts'
    BY <2>a, <2>e DEF Forgets
  <2>f. ASSUME UNCHANGED <<pc, draft>> PROVE Drafts'
    BY <2>a, <2>f
  <2>1. ASSUME NEW a \in Agents, NEW t \in Tasks, NEW given \in Readings, Defer(a, t, given)
        PROVE  Faithful'
    <3>1. PICK now \in {clock, clock + 1}, end \in EndLevels :
             /\ draft' = [draft EXCEPT ![a] = EventOf(t, given, now, end, "deferred")]
             /\ pc' = [pc EXCEPT ![a] = "append"]
      BY <2>1 DEF Defer, HasEvent
    <3>2. HonestEvent(EventOf(t, given, now, end, "deferred"))
      BY <2>1 DEF Defer, HonestEvent, EventOf, Assessed
    <3>3. Drafts'
      <4> HIDE DEF Drafts
      <4> QED BY <3>1, <3>2, <2>d
    <3>4. UNCHANGED history
      BY <2>1 DEF Defer, logs
    <3> HIDE DEF Drafts, Logged
    <3> QED BY <3>3, <3>4, <2>b, <2>c
  <2>2. ASSUME NEW a \in Agents, NEW t \in Tasks, NEW given \in Readings, Call(a, t, given)
        PROVE  Faithful'
    <3>1. /\ HonestEvent(EventOf(t, given, clock, None, "completed"))
          /\ EventOf(t, given, clock, None, "completed").outcome = "completed"
      BY <2>2 DEF Call, HonestEvent, EventOf, Assessed
    <3>2. /\ draft' = [draft EXCEPT ![a] = EventOf(t, given, clock, None, "completed")]
          /\ pc' = [pc EXCEPT ![a] = "run"] /\ UNCHANGED history
      BY <2>2 DEF Call, logs
    <3> HIDE DEF Drafts, Logged
    <3> QED BY <3>1, <3>2, <2>b, <2>c, <2>d
  <2>3. ASSUME NEW a \in Agents, NEW outcome \in {"completed", "failed"}, FunctionEnds(a, outcome)
        PROVE  Faithful'
    <3> DEFINE old == draft[a]
               seen == [level |-> old.start, confidence |-> old.confidence]
    <3>1. pc[a] = "run" /\ UNCHANGED history
      BY <2>3 DEF FunctionEnds, logs
    <3>2. PICK now \in {clock, clock + 1}, end \in EndLevels :
             /\ draft' = [draft EXCEPT ![a] = EventOf(old.task, seen, now, end, outcome)]
             /\ pc' = [pc EXCEPT ![a] = "append"]
      BY <2>3 DEF FunctionEnds, HasEvent
    <3>3. HonestEvent(old) /\ old.outcome = "completed"
      BY <3>1, <2>a
    <3>4. HonestEvent(EventOf(old.task, seen, now, end, outcome))
      <4> HIDE DEF old
      <4> QED BY <3>3 DEF HonestEvent, EventOf, Assessed
    <3>5. Drafts'
      <4> HIDE DEF Drafts, old, seen
      <4> QED BY <3>2, <3>4, <2>d
    <3> HIDE DEF Drafts, Logged
    <3> QED BY <3>1, <3>5, <2>b, <2>c
  <2>4. ASSUME NEW a \in Agents, pc[a] = "append", Forgets(a),
               \/ history' = Appended(history, draft[a])
               \/ history' \in AppendedInPart(history, draft[a])
        PROVE  Faithful'
    <3>1. draft[a] \in Event /\ HonestEvent(draft[a])
      BY <2>4, <2>a
    <3>2. \A i \in Valid(history') : \/ /\ i \in Valid(history)
                                        /\ history'.lines[i] = history.lines[i]
                                     \/ history'.lines[i] = draft[a]
      <4>1. CASE history' = Appended(history, draft[a])
        BY <4>1, <3>1, <2>a, AppendLaw
      <4>2. CASE history' \in AppendedInPart(history, draft[a])
        BY <4>2, <3>1, <2>a, CutLaw
      <4> QED BY <4>1, <4>2, <2>4
    <3>3. Logged'
      BY <3>1, <3>2, <2>a
    <3> HIDE DEF Drafts, Logged
    <3> QED BY <3>3, <2>4, <2>b, <2>e
  <2>5. ASSUME NEW a \in Agents, AppendEvent(a) PROVE Faithful'
    BY <2>4, <2>5 DEF AppendEvent
  <2>6. ASSUME NEW a \in Agents, AppendFails(a) PROVE Faithful'
    BY <2>4, <2>6 DEF AppendFails
  <2>7. ASSUME NEW a \in Agents, Interrupted(a) PROVE Faithful'
    <3> HIDE DEF Drafts, Logged
    <3> QED BY <2>7, <2>b, <2>c, <2>e DEF Interrupted, logs
  <2>8. CASE Clear
    <3>1. Logged' /\ UNCHANGED <<pc, draft>>
      BY <2>8 DEF Clear, EmptyLog, Valid
    <3> HIDE DEF Drafts, Logged
    <3> QED BY <3>1, <2>b, <2>f
  <2>9. ASSUME UNCHANGED <<history, calls>> PROVE Faithful'
    <3>1. UNCHANGED <<pc, draft>> /\ UNCHANGED history
      BY <2>9 DEF calls
    <3> HIDE DEF Drafts, Logged
    <3> QED BY <3>1, <2>b, <2>c, <2>f
  <2>10. ASSUME NEW c \in Capacities, Reconfigure(c) PROVE Faithful'
    BY <2>9, <2>10 DEF Reconfigure, logs
  <2>11. ASSUME NEW analysis \in Analysis, NEW tokens \in UsedTokens \cup {None},
                NEW echoes \in BOOLEAN, ReportResult(analysis, tokens, echoes)
         PROVE  Faithful'
    BY <2>9, <2>11 DEF ReportResult
  <2>12. ASSUME NEW i \in DOMAIN Reports, ReportAgain(Reports[i])
         PROVE  Faithful'
    BY <2>9, <2>12 DEF ReportAgain
  <2>13. CASE UNCHANGED historyVars
    BY <2>9, <2>13 DEF historyVars, logs
  <2> QED BY <2>1, <2>2, <2>3, <2>5, <2>6, <2>7, <2>8, <2>10, <2>11, <2>12, <2>13 DEF HistoryNext
<1> QED BY <1>1, <1>2, HistoryTyping, PTL DEF HistorySpec

(* What the policies make of such an event: GoldenBoyPolicy goes on with   *)
(* it exactly if its mode was SAFE or CAUTION, and then it was not         *)
(* deferred.                                                               *)
LEMMA HonestDecision ==
    ASSUME NEW e \in Event, HonestEvent(e)
    PROVE  /\ Proceeds(GoldenBoyPolicy, PolicyInput(e)) <=> e.mode \in {"SAFE", "CAUTION"}
           /\ Proceeds(UsageOnlyPolicy, PolicyInput(e)) <=> ~Exhausted(e.start)
           /\ e.mode \in {"SAFE", "CAUTION"} => ~Exhausted(e.start) /\ e.outcome # "deferred"
           /\ e.mode \in {"SAFE", "CAUTION", "LIMITED", "CRITICAL"}
           /\ e.outcome \in {"completed", "deferred", "failed"}
           /\ e.outcome = "completed" => ~Sheds(e.mode, e.task)
<1>1. e.mode \in {"SAFE", "CAUTION", "LIMITED", "CRITICAL"}
      /\ e.outcome \in {"completed", "deferred", "failed"}
  BY DEF Event, Modes, Outcomes
<1>2. /\ e.mode = Mode(e.start, e.cost, e.confidence = "STALE")
      /\ e.outcome = "deferred" <=> Sheds(e.mode, e.task)
  BY DEF HonestEvent
<1>3. /\ Proceeds(GoldenBoyPolicy, PolicyInput(e)) <=>
              Mode(e.start, e.cost, e.confidence = "STALE") \in {"SAFE", "CAUTION"}
      /\ Proceeds(UsageOnlyPolicy, PolicyInput(e)) <=> ~Exhausted(e.start)
  BY DEF Proceeds, GoldenBoyPolicy, UsageOnlyPolicy, PolicyInput
<1>4. e.mode \in {"SAFE", "CAUTION"} => ~Exhausted(e.start) /\ ~Sheds(e.mode, e.task)
  BY <1>2 DEF Mode, Sheds
<1> QED BY <1>1, <1>2, <1>3, <1>4

(* A part of a set is no bigger. *)
LEMMA Bigger ==
    ASSUME NEW S, NEW T, IsFiniteSet(T), S \subseteq T
    PROVE  Cardinality(S) <= Cardinality(T)
  BY FS_Subset

(* A set is counted by counting its two parts. *)
LEMMA Split ==
    ASSUME NEW S, NEW T, IsFiniteSet(S)
    PROVE  Cardinality(S) = Cardinality(S \cap T) + Cardinality(S \ T)
<1>1. IsFiniteSet(S \cap T) /\ IsFiniteSet(S \ T)
  BY FS_Subset
<1>2. (S \cap T) \cup (S \ T) = S /\ (S \cap T) \cap (S \ T) = {}
  OBVIOUS
<1>3. /\ Cardinality(S) = Cardinality(S \cap T) + Cardinality(S \ T) - Cardinality({})
  BY <1>1, <1>2, FS_Union
<1> QED BY <1>1, <1>3, FS_EmptySet, FS_CardinalityType

(* Each clause of ReportsAgree compares sets of events, which              *)
(* HonestDecision relates.                                                 *)
LEMMA ReportsFact ==
    ASSUME Types, Faithful
    PROVE  ReportsAgree
<1> DEFINE E == Events
           D == DOMAIN E
           goes(p) == {i \in D : Proceeds(p, PolicyInput(E[i]))}
           completed == {i \in D : E[i].outcome = "completed"}
           deferred == {i \in D : E[i].outcome = "deferred"}
           failed == {i \in D : E[i].outcome = "failed"}
           safe == {i \in D : E[i].mode = "SAFE"}
           caution == {i \in D : E[i].mode = "CAUTION"}
           kept == {i \in D : E[i].mode \in {"LIMITED", "CRITICAL"} /\ ~Sheds(E[i].mode, E[i].task)}
           golden == goes(GoldenBoyPolicy)
<1>1. /\ IsFiniteSet(D) /\ Cardinality(D) \in Nat
      /\ \A i \in D : E[i] \in Event /\ HonestEvent(E[i])
  <2>1. IsLog(history, Event)
    BY DEF Types
  <2>2. /\ D = Valid(history)
        /\ \A i \in Valid(history) : E[i] = history.lines[i] /\ history.lines[i] \in Event
        /\ IsFiniteSet(Valid(history))
    BY <2>1, LoadedLaw DEF Events
  <2> QED BY <2>2, FS_CardinalityType DEF Faithful
<1>2. \A i \in D :
         /\ i \in golden <=> E[i].mode \in {"SAFE", "CAUTION"}
         /\ i \in goes(UsageOnlyPolicy) <=> ~Exhausted(E[i].start)
         /\ E[i].mode \in {"SAFE", "CAUTION"} => ~Exhausted(E[i].start) /\ E[i].outcome # "deferred"
         /\ E[i].mode \in {"SAFE", "CAUTION", "LIMITED", "CRITICAL"}
         /\ E[i].outcome \in {"completed", "deferred", "failed"}
         /\ E[i].outcome = "completed" => ~Sheds(E[i].mode, E[i].task)
  <2> SUFFICES ASSUME NEW i \in D
               PROVE  /\ i \in golden <=> E[i].mode \in {"SAFE", "CAUTION"}
                      /\ i \in goes(UsageOnlyPolicy) <=> ~Exhausted(E[i].start)
                      /\ E[i].mode \in {"SAFE", "CAUTION"} =>
                            ~Exhausted(E[i].start) /\ E[i].outcome # "deferred"
                      /\ E[i].mode \in {"SAFE", "CAUTION", "LIMITED", "CRITICAL"}
                      /\ E[i].outcome \in {"completed", "deferred", "failed"}
                      /\ E[i].outcome = "completed" => ~Sheds(E[i].mode, E[i].task)
    OBVIOUS
  <2>1. E[i] \in Event /\ HonestEvent(E[i])
    BY <1>1
  <2>2. /\ i \in golden <=> Proceeds(GoldenBoyPolicy, PolicyInput(E[i]))
        /\ i \in goes(UsageOnlyPolicy) <=> Proceeds(UsageOnlyPolicy, PolicyInput(E[i]))
    OBVIOUS
  <2> HIDE DEF E, golden, goes
  <2> QED BY <2>1, <2>2, HonestDecision
<1>3. Analytics(E) = [count |-> Cardinality(D),
                        outcomes |-> [o \in Outcomes |-> Cardinality({i \in D : E[i].outcome = o})],
                        modes |-> [m \in Modes |-> Cardinality({i \in D : E[i].mode = m})]]
  BY DEF Analytics, Count, HowMany
<1>4. \A p : /\ Score(p, E).proceed = Cardinality(goes(p))
             /\ Score(p, E).truePositive = Cardinality(goes(p) \cap completed)
             /\ Score(p, E).falsePositive = Cardinality(goes(p) \ completed)
             /\ Score(p, E).falseNegative = Cardinality(completed \ goes(p))
             /\ Score(p, E).trueNegative = Cardinality(D \ (goes(p) \cup completed))
  BY DEF Score
<1>5. /\ GoldenBoyPolicy \in DefaultPolicies /\ UsageOnlyPolicy \in DefaultPolicies
      /\ {"completed", "deferred", "failed"} \subseteq Outcomes
      /\ {"SAFE", "CAUTION"} \subseteq Modes
  BY DEF GoldenBoyPolicy, UsageOnlyPolicy, DefaultPolicies, Outcomes, Modes
<1>6. Cardinality(D) >= MinEvents =>
         /\ Backtest(E).scores[GoldenBoyPolicy] = Score(GoldenBoyPolicy, E)
         /\ \A p \in DefaultPolicies : Backtest(E).scores[p] = Score(p, E)
  <2>1. HowMany(E) = Cardinality(D) /\ MinEvents \in Nat
    BY HistoryAssumption DEF HowMany
  <2>2. Cardinality(D) >= MinEvents => ~(HowMany(E) < MinEvents)
    BY <2>1, <1>1
  <2> HIDE DEF E
  <2> QED BY <2>2, <1>5 DEF Backtest
<1>7. Backtest(E).size = Cardinality(D) /\ Quality.valid = Cardinality(D)
  BY DEF Backtest, Quality, HowMany
<1>8. /\ golden = safe \cup caution /\ safe \cap caution = {}
      /\ golden \ completed \subseteq failed
      /\ deferred \subseteq D \ (golden \cup completed)
      /\ completed \ golden \subseteq kept
      /\ golden \subseteq goes(UsageOnlyPolicy)
  <2>1. \A i \in D : /\ i \in completed <=> E[i].outcome = "completed"
                     /\ i \in deferred <=> E[i].outcome = "deferred"
                     /\ i \in failed <=> E[i].outcome = "failed"
                     /\ i \in safe <=> E[i].mode = "SAFE"
                     /\ i \in caution <=> E[i].mode = "CAUTION"
                     /\ i \in kept <=> /\ E[i].mode \in {"LIMITED", "CRITICAL"}
                                       /\ ~Sheds(E[i].mode, E[i].task)
    OBVIOUS
  <2>2. /\ golden \subseteq D /\ completed \subseteq D /\ deferred \subseteq D /\ failed \subseteq D
        /\ safe \subseteq D /\ caution \subseteq D /\ kept \subseteq D
        /\ goes(UsageOnlyPolicy) \subseteq D
    OBVIOUS
  <2> HIDE DEF E, D, goes, completed, deferred, failed, safe, caution, kept, golden
  <2>3. golden = safe \cup caution /\ safe \cap caution = {}
    BY <1>2, <2>1, <2>2
  <2>4. golden \ completed \subseteq failed /\ deferred \subseteq D \ (golden \cup completed)
    BY <1>2, <2>1, <2>2
  <2>5. completed \ golden \subseteq kept /\ golden \subseteq goes(UsageOnlyPolicy)
    BY <1>2, <2>1, <2>2
  <2> QED BY <2>3, <2>4, <2>5
<1>9. /\ IsFiniteSet(golden) /\ IsFiniteSet(safe) /\ IsFiniteSet(caution) /\ IsFiniteSet(failed)
      /\ IsFiniteSet(kept) /\ IsFiniteSet(completed) /\ IsFiniteSet(D \ (golden \cup completed))
      /\ IsFiniteSet(goes(UsageOnlyPolicy))
  <2>1. /\ golden \subseteq D /\ completed \subseteq D /\ failed \subseteq D
        /\ safe \subseteq D /\ caution \subseteq D /\ kept \subseteq D
        /\ goes(UsageOnlyPolicy) \subseteq D /\ D \ (golden \cup completed) \subseteq D
    OBVIOUS
  <2> HIDE DEF E, D, goes, completed, failed, safe, caution, kept, golden
  <2> QED BY <1>1, <2>1, FS_Subset
<1>10. Cardinality(golden) = Cardinality(safe) + Cardinality(caution)
  <2> HIDE DEF E, D, goes, completed, failed, safe, caution, kept, golden
  <2>1. Cardinality(golden) = Cardinality(safe) + Cardinality(caution) - Cardinality(safe \cap caution)
    BY <1>8, <1>9, FS_Union
  <2>2. Cardinality(safe \cap caution) = 0
    BY <1>8, FS_EmptySet
  <2>3. Cardinality(safe) \in Nat /\ Cardinality(caution) \in Nat
    BY <1>9, FS_CardinalityType
  <2> QED BY <2>1, <2>2, <2>3
<1>11. /\ Cardinality(golden \ completed) <= Cardinality(failed)
       /\ Cardinality(D \ (golden \cup completed)) >= Cardinality(deferred)
       /\ Cardinality(completed \ golden) <= Cardinality(kept)
       /\ Cardinality(golden) <= Cardinality(goes(UsageOnlyPolicy))
  <2> HIDE DEF E, D, goes, completed, deferred, failed, safe, caution, kept, golden
  <2>1. Cardinality(golden \ completed) <= Cardinality(failed)
    BY <1>8, <1>9, Bigger
  <2>2. /\ Cardinality(deferred) <= Cardinality(D \ (golden \cup completed))
        /\ Cardinality(D \ (golden \cup completed)) \in Nat /\ Cardinality(deferred) \in Nat
    BY <1>8, <1>9, Bigger, FS_Subset, FS_CardinalityType
  <2>3. Cardinality(completed \ golden) <= Cardinality(kept)
    BY <1>8, <1>9, Bigger
  <2>4. Cardinality(golden) <= Cardinality(goes(UsageOnlyPolicy))
    BY <1>8, <1>9, Bigger
  <2> QED BY <2>1, <2>2, <2>3, <2>4
<1>12. \A p : Cardinality(goes(p) \cap completed) + Cardinality(completed \ goes(p))
                = Cardinality(completed)
  <2> HIDE DEF E, D, goes, completed
  <2> SUFFICES ASSUME NEW p
               PROVE  Cardinality(goes(p) \cap completed) + Cardinality(completed \ goes(p))
                         = Cardinality(completed)
    OBVIOUS
  <2>1. Cardinality(completed) = Cardinality(completed \cap goes(p)) + Cardinality(completed \ goes(p))
    BY <1>9, Split
  <2>2. completed \cap goes(p) = goes(p) \cap completed
    OBVIOUS
  <2> QED BY <2>1, <2>2
<1>13. /\ Analytics(E).count = Cardinality(D)
       /\ Analytics(E).modes["SAFE"] = Cardinality(safe)
       /\ Analytics(E).modes["CAUTION"] = Cardinality(caution)
       /\ Analytics(E).outcomes["failed"] = Cardinality(failed)
       /\ Analytics(E).outcomes["deferred"] = Cardinality(deferred)
       /\ Analytics(E).outcomes["completed"] = Cardinality(completed)
  <2> HIDE DEF E
  <2> QED BY <1>3, <1>5
<1>14. Count(E, LAMBDA e : e.mode \in {"LIMITED", "CRITICAL"} /\ ~Sheds(e.mode, e.task))
          = Cardinality(kept)
  BY DEF Count
<1>15. Cardinality(D) >= MinEvents =>
          LET score == Backtest(E).scores[GoldenBoyPolicy]
          IN  /\ score.proceed = Analytics(E).modes["SAFE"] + Analytics(E).modes["CAUTION"]
              /\ score.falsePositive <= Analytics(E).outcomes["failed"]
              /\ score.trueNegative >= Analytics(E).outcomes["deferred"]
              /\ score.falseNegative <=
                    Count(E, LAMBDA e : e.mode \in {"LIMITED", "CRITICAL"}
                                          /\ ~Sheds(e.mode, e.task))
              /\ \A p \in DefaultPolicies :
                    LET s == Backtest(E).scores[p]
                    IN  s.truePositive + s.falseNegative = Analytics(E).outcomes["completed"]
              /\ score.proceed <= Backtest(E).scores[UsageOnlyPolicy].proceed
  <2> HAVE Cardinality(D) >= MinEvents
  <2>1. /\ Backtest(E).scores[GoldenBoyPolicy] = Score(GoldenBoyPolicy, E)
        /\ Backtest(E).scores[UsageOnlyPolicy] = Score(UsageOnlyPolicy, E)
        /\ \A p \in DefaultPolicies : Backtest(E).scores[p] = Score(p, E)
    BY <1>5, <1>6
  <2>2. /\ Score(GoldenBoyPolicy, E).proceed = Cardinality(golden)
        /\ Score(GoldenBoyPolicy, E).falsePositive = Cardinality(golden \ completed)
        /\ Score(GoldenBoyPolicy, E).falseNegative = Cardinality(completed \ golden)
        /\ Score(GoldenBoyPolicy, E).trueNegative = Cardinality(D \ (golden \cup completed))
        /\ Score(UsageOnlyPolicy, E).proceed = Cardinality(goes(UsageOnlyPolicy))
    BY <1>4
  <2>3. \A p : /\ Score(p, E).truePositive = Cardinality(goes(p) \cap completed)
               /\ Score(p, E).falseNegative = Cardinality(completed \ goes(p))
    BY <1>4
  <2> HIDE DEF E, D, goes, completed, deferred, failed, safe, caution, kept, golden
  <2> QED BY <2>1, <2>2, <2>3, <1>10, <1>11, <1>12, <1>13, <1>14
<1> HIDE DEF D, goes, completed, deferred, failed, safe, caution, kept, golden
<1> QED BY <1>7, <1>13, <1>15 DEF ReportsAgree

(* The replayed policies and analytics tell what was decided, on every     *)
(* log that can come about: HistorySpec => []ReportsAgree.                 *)
THEOREM OneStory == HistorySpec => []ReportsAgree
  BY HistoryTyping, Faithfulness, ReportsFact, PTL

-----------------------------------------------------------------------------
(* Integer division. *)
LEMMA Divided ==
    ASSUME NEW n \in Nat, NEW b \in Nat \ {0}
    PROVE  n \div b \in Nat /\ b * (n \div b) <= n /\ n < b * (n \div b) + b
  OBVIOUS

(* Percentages are on different sides only if the numbers are, and         *)
(* always if these differ by what is a percent.                            *)
LEMMA LessOrMore ==
    ASSUME NEW m \in Nat, NEW n \in Nat, NEW b \in Nat \ {0}
    PROVE  /\ m \div b > n \div b => m > n
           /\ m - n >= b => m \div b > n \div b
<1> DEFINE p == m \div b
           q == n \div b
<1>1. p \in Nat /\ b * p <= m /\ m < b * p + b
  BY Divided
<1>2. q \in Nat /\ b * q <= n /\ n < b * q + b
  BY Divided
<1> HIDE DEF p, q
<1>3. p > q => m > n
  <2> HAVE p > q
  <2>1. p >= q + 1
    BY <1>1, <1>2
  <2>2. b * p >= b * (q + 1)
    BY <2>1, <1>1, <1>2
  <2>3. b * (q + 1) = b * q + b
    BY <1>2
  <2>4. b * p \in Int /\ b * q \in Int
    BY <1>1, <1>2
  <2> QED BY <2>2, <2>3, <2>4, <1>1, <1>2
<1>4. m - n >= b => p > q
  <2> HAVE m - n >= b
  <2> SUFFICES ASSUME p <= q PROVE FALSE
    BY <1>1, <1>2
  <2>1. b * p <= b * q
    BY <1>1, <1>2
  <2>2. b * p \in Int /\ b * q \in Int
    BY <1>1, <1>2
  <2> QED BY <2>1, <2>2, <1>1, <1>2
<1> QED BY <1>3, <1>4 DEF p, q

(* A report has derived its percentages: the tokens used on the scale of   *)
(* the budget it holds, the estimate on that of its analysis, and these    *)
(* are one scale when nothing was configured in between.                   *)
Derived(r) ==
    /\ r.of \in Analysis /\ r.budget \in Capacities
    /\ r.actual = IF r.tokens = None THEN None ELSE Percent(r.tokens, r.budget)
    /\ r.estimated = None \/ r.estimated = Percent(r.of.tokens, r.of.capacity)
    /\ r.steady => r.budget = r.of.capacity

Reported == \A i \in Valid(telemetry) : Derived(telemetry.lines[i])

(* ... however often it is reported again, and whatever is configured      *)
(* then.                                                                   *)
LEMMA Reporting == HistorySpec => []Reported
<1>1. HistoryInit => Reported
  BY DEF HistoryInit, EmptyLog, Reported, Valid
<1>2. Types /\ Reported /\ [HistoryNext]_historyVars => Reported'
  <2> SUFFICES ASSUME Types, Reported, [HistoryNext]_historyVars PROVE Reported'
    OBVIOUS
  <2>a. /\ IsLog(telemetry, Report) /\ capacity \in Capacities
        /\ Corrupted \notin Report /\ None \notin Capacities
    BY LineAssumption, HistoryAssumption DEF Types
  <2>b. ASSUME UNCHANGED telemetry PROVE Reported'
    BY <2>b DEF Reported, Valid
  <2>c. ASSUME NEW r \in Report, Derived(r), Keeps(r) PROVE Reported'
    <3>1. \A i \in Valid(telemetry') : \/ /\ i \in Valid(telemetry)
                                          /\ telemetry'.lines[i] = telemetry.lines[i]
                                       \/ telemetry'.lines[i] = r
      <4>1. CASE telemetry' = Appended(telemetry, r)
        BY <4>1, <2>a, AppendLaw
      <4>2. CASE telemetry' \in AppendedInPart(telemetry, r)
        BY <4>2, <2>a, CutLaw
      <4> QED BY <4>1, <4>2, <2>c DEF Keeps
    <3> QED BY <3>1, <2>c DEF Reported
  <2>1. ASSUME NEW analysis \in Analysis, NEW tokens \in UsedTokens \cup {None},
               NEW echoes \in BOOLEAN, ReportResult(analysis, tokens, echoes)
        PROVE  Reported'
    <3> DEFINE estimated == IF echoes THEN Percent(analysis.tokens, analysis.capacity) ELSE None
               steady == analysis.capacity = capacity
               r == Created(estimated, tokens, None, analysis, steady)
    <3>1. analysis.tokens \in Nat /\ analysis.capacity \in Nat \ {0}
      BY HistoryAssumption DEF Analysis
    <3>2. estimated \in Nat \cup {None}
      BY <3>1, PercentType
    <3>3. r \in Report
      <4> HIDE DEF estimated, steady
      <4>1. steady \in BOOLEAN
        BY DEF steady
      <4> QED BY <3>2, <4>1, CreatedType
    <3>4. Derived(r)
      BY <2>a DEF Created, EffectiveBudget, Derived
    <3>5. Keeps(r)
      BY <2>1 DEF ReportResult
    <3> HIDE DEF r
    <3> QED BY <3>3, <3>4, <3>5, <2>c
  <2>2. ASSUME NEW i \in DOMAIN Reports, ReportAgain(Reports[i])
        PROVE  Reported'
    <3> DEFINE given == Reports[i]
               r == Created(given.estimated, given.tokens, given.budget, given.of, given.steady)
    <3>1. given \in Report /\ Derived(given)
      BY <2>a, LoadedLaw DEF Reports, Reported
    <3>2. r \in Report
      <4>1. /\ given.estimated \in Nat \cup {None} /\ given.tokens \in UsedTokens \cup {None}
            /\ given.budget \in Capacities \cup {None} /\ given.of \in Analysis \cup {None}
            /\ given.steady \in BOOLEAN
        BY <3>1 DEF Report
      <4> HIDE DEF given
      <4> QED BY <4>1, CreatedType
    <3>3. Derived(r)
      <4> HIDE DEF given
      <4>1. EffectiveBudget(given.budget) = given.budget
        BY <3>1, <2>a DEF Derived, EffectiveBudget
      <4> QED BY <3>1, <4>1 DEF Created, Derived
    <3>4. Keeps(r)
      BY <2>2 DEF ReportAgain
    <3> HIDE DEF r
    <3> QED BY <3>2, <3>3, <3>4, <2>c
  <2>3. CASE UNCHANGED telemetry
    BY <2>3, <2>b
  <2>4. ASSUME telemetry' # telemetry
        PROVE  \/ \E analysis \in Analysis, tokens \in UsedTokens \cup {None}, echoes \in BOOLEAN :
                     ReportResult(analysis, tokens, echoes)
               \/ \E i \in DOMAIN Reports : ReportAgain(Reports[i])
    BY <2>4 DEF HistoryNext, Defer, Call, FunctionEnds, AppendEvent, AppendFails,
                Interrupted, Clear, Reconfigure, historyVars, logs
  <2> QED BY <2>1, <2>2, <2>3, <2>4
<1> QED BY <1>1, <1>2, HistoryTyping, PTL DEF HistorySpec

(* What calibrate counts follows from that, report by report. *)
LEMMA CalibrationFact ==
    ASSUME Types, Reported
    PROVE  CalibrationIsTrue
<1> DEFINE C == Calibration(Reports)
           U == Usables(Reports)
           D == DOMAIN U
           under == {i \in D : U[i].actual > U[i].estimated}
           over == {i \in D : U[i].actual < U[i].estimated}
           more == {i \in D : U[i].tokens > U[i].of.tokens}
           less == {i \in D : U[i].tokens < U[i].of.tokens}
           farMore == {i \in D : (U[i].tokens - U[i].of.tokens) * 100 >= U[i].of.capacity}
           farLess == {i \in D : (U[i].of.tokens - U[i].tokens) * 100 >= U[i].of.capacity}
<1>1. IsFiniteSet(D) /\ \A i \in D : /\ U[i] \in Report /\ Derived(U[i])
                                     /\ U[i].estimated # None /\ U[i].actual # None
  <2> DEFINE R == Reports
  <2>1. /\ DOMAIN R = Valid(telemetry) /\ IsFiniteSet(DOMAIN R)
        /\ \A i \in DOMAIN R : R[i] \in Report /\ Derived(R[i])
    BY LoadedLaw DEF Types, Reported, Reports
  <2> HIDE DEF R
  <2>2. /\ D \subseteq DOMAIN R
        /\ \A i \in D : U[i] = R[i] /\ U[i].estimated # None /\ U[i].actual # None
    BY DEF Usables, Restrict, R
  <2> HIDE DEF U
  <2> QED BY <2>1, <2>2, FS_Subset
<1>2. ASSUME \A i \in D : U[i].steady
      PROVE  farMore \subseteq under /\ under \subseteq more /\ farLess \subseteq over /\ over \subseteq less
  <2> SUFFICES ASSUME NEW i \in D
               PROVE  /\ i \in farMore => i \in under
                      /\ i \in under => i \in more
                      /\ i \in farLess => i \in over
                      /\ i \in over => i \in less
    OBVIOUS
  <2> DEFINE r == U[i]
             t == r.tokens
             e == r.of.tokens
             b == r.of.capacity
  <2>1. /\ r.actual = Percent(t, b) /\ r.estimated = Percent(e, b)
        /\ t \in Nat /\ e \in Nat /\ b \in Nat \ {0}
    <3> HIDE DEF U
    <3>1. r \in Report /\ Derived(r) /\ r.estimated # None /\ r.actual # None /\ r.steady
      BY <1>1, <1>2
    <3>2. t \in UsedTokens \cup {None}
      BY <3>1 DEF Report
    <3>3. t # None /\ r.actual = Percent(t, r.budget) /\ r.budget = b
          /\ r.estimated = Percent(e, b) /\ r.of \in Analysis
      BY <3>1 DEF Derived
    <3> QED BY <3>2, <3>3, HistoryAssumption DEF Analysis
  <2> HIDE DEF U
  <2>2. /\ i \in under <=> r.actual > r.estimated
        /\ i \in over <=> r.actual < r.estimated
        /\ i \in more <=> t > e
        /\ i \in less <=> t < e
        /\ i \in farMore <=> (t - e) * 100 >= b
        /\ i \in farLess <=> (e - t) * 100 >= b
    OBVIOUS
  <2> HIDE DEF r, t, e, b, under, over, more, less, farMore, farLess
  <2>3. /\ t * 100 \in Nat /\ e * 100 \in Nat
        /\ (t * 100) \div b > (e * 100) \div b => t * 100 > e * 100
        /\ (e * 100) \div b > (t * 100) \div b => e * 100 > t * 100
        /\ t * 100 - e * 100 >= b => (t * 100) \div b > (e * 100) \div b
        /\ e * 100 - t * 100 >= b => (e * 100) \div b > (t * 100) \div b
    <3>1. t * 100 \in Nat /\ e * 100 \in Nat
      BY <2>1
    <3> DEFINE m == t * 100
               n == e * 100
    <3>2. /\ m \div b > n \div b => m > n
          /\ n \div b > m \div b => n > m
          /\ m - n >= b => m \div b > n \div b
          /\ n - m >= b => n \div b > m \div b
      <4> HIDE DEF m, n
      <4>1. m \in Nat /\ n \in Nat
        BY <3>1 DEF m, n
      <4> QED BY <4>1, <2>1, LessOrMore
    <3> QED BY <3>1, <3>2
  <2>4. /\ (t * 100) \div b \in Nat /\ (e * 100) \div b \in Nat
        /\ r.actual = (t * 100) \div b /\ r.estimated = (e * 100) \div b
    BY <2>1, Divided DEF Percent
  <2> QED BY <2>1, <2>2, <2>3, <2>4
<1>3. /\ Count(U, LAMBDA r : r.actual > r.estimated) = Cardinality(under)
      /\ Count(U, LAMBDA r : r.actual < r.estimated) = Cardinality(over)
      /\ Count(U, LAMBDA r : r.tokens > r.of.tokens) = Cardinality(more)
      /\ Count(U, LAMBDA r : r.tokens < r.of.tokens) = Cardinality(less)
      /\ Count(U, LAMBDA r : (r.tokens - r.of.tokens) * 100 >= r.of.capacity) = Cardinality(farMore)
      /\ Count(U, LAMBDA r : (r.of.tokens - r.tokens) * 100 >= r.of.capacity) = Cardinality(farLess)
  <2> HIDE DEF U
  <2> QED BY DEF Count
<1>4. C.samples >= MinEvents => C.under = Cardinality(under) /\ C.over = Cardinality(over)
  <2>1. C.samples = Cardinality(D) /\ Cardinality(D) \in Nat /\ MinEvents \in Nat
    <3>1. C.samples = HowMany(U)
      BY DEF Calibration
    <3> HIDE DEF U, C
    <3> QED BY <3>1, <1>1, FS_CardinalityType, HistoryAssumption DEF HowMany
  <2>2. /\ C.under = IF C.samples < MinEvents THEN None
                     ELSE Count(U, LAMBDA r : r.actual > r.estimated)
        /\ C.over = IF C.samples < MinEvents THEN None
                    ELSE Count(U, LAMBDA r : r.actual < r.estimated)
    BY DEF Calibration
  <2> HIDE DEF U, C, under, over
  <2> QED BY <2>1, <2>2, <1>3
<1>5. ASSUME C.samples >= MinEvents, \A i \in D : U[i].steady
      PROVE  /\ C.under \in Cardinality(farMore)..Cardinality(more)
             /\ C.over \in Cardinality(farLess)..Cardinality(less)
  <2>1. /\ farMore \subseteq under /\ under \subseteq more
        /\ farLess \subseteq over /\ over \subseteq less
    BY <1>2, <1>5
  <2>2. C.under = Cardinality(under) /\ C.over = Cardinality(over)
    BY <1>4, <1>5
  <2>3. /\ under \subseteq D /\ over \subseteq D /\ more \subseteq D /\ less \subseteq D
        /\ farMore \subseteq D /\ farLess \subseteq D
    OBVIOUS
  <2> HIDE DEF U, C, D, under, over, more, less, farMore, farLess
  <2>4. /\ IsFiniteSet(under) /\ IsFiniteSet(over) /\ IsFiniteSet(more) /\ IsFiniteSet(less)
        /\ IsFiniteSet(farMore) /\ IsFiniteSet(farLess)
    BY <1>1, <2>3, FS_Subset
  <2>5. /\ Cardinality(farMore) <= Cardinality(under) /\ Cardinality(under) <= Cardinality(more)
        /\ Cardinality(farLess) <= Cardinality(over) /\ Cardinality(over) <= Cardinality(less)
    BY <2>1, <2>4, Bigger
  <2>6. /\ Cardinality(farMore) \in Nat /\ Cardinality(under) \in Nat /\ Cardinality(more) \in Nat
        /\ Cardinality(farLess) \in Nat /\ Cardinality(over) \in Nat /\ Cardinality(less) \in Nat
    BY <2>4, FS_CardinalityType
  <2> QED BY <2>2, <2>5, <2>6
<1> DEFINE judged == C.samples >= MinEvents /\ (\A i \in D : U[i].steady)
           right == /\ C.under \in Cardinality(farMore)..Cardinality(more)
                    /\ C.over \in Cardinality(farLess)..Cardinality(less)
<1>6. (judged => right) => CalibrationIsTrue
  <2> HIDE DEF under, over, more, less, farMore, farLess
  <2> QED BY <1>3 DEF CalibrationIsTrue
<1>7. judged => right
  BY <1>5
<1> HIDE DEF judged, right
<1> QED BY <1>6, <1>7

(* `calibrate` judges estimates as the tokens do: HistorySpec =>           *)
(* []CalibrationIsTrue.                                                    *)
THEOREM EstimatesAreJudgedTruly == HistorySpec => []CalibrationIsTrue
  BY HistoryTyping, Reporting, CalibrationFact, PTL

-----------------------------------------------------------------------------
(* Events with time stamps, under line numbers; those before one of        *)
(* them, how many these are, and the n-th of all: the one with n - 1       *)
(* before it.                                                              *)
Timed(E) == /\ IsFiniteSet(DOMAIN E) /\ DOMAIN E \subseteq Nat
            /\ \A i \in DOMAIN E : E[i].stamp \in Nat

Earlier(E, i) == {j \in DOMAIN E : Before(E, j, i)}

Rank(E, i) == Cardinality(Earlier(E, i))

At(E, n) == CHOOSE i \in DOMAIN E : Rank(E, i) = n - 1

(* sorted() has one order: events come by their time stamps, and those     *)
(* of one moment by their lines.                                           *)
LEMMA BeforeIsTotal ==
    ASSUME NEW E, Timed(E), NEW i \in DOMAIN E, NEW j \in DOMAIN E
    PROVE  /\ ~Before(E, i, i)
           /\ i # j => Before(E, i, j) \/ Before(E, j, i)
           /\ Before(E, i, j) => /\ E[i].stamp <= E[j].stamp
                                   /\ \A k \in DOMAIN E : Before(E, k, i) => Before(E, k, j)
<1>1. i \in Nat /\ j \in Nat /\ E[i].stamp \in Nat /\ E[j].stamp \in Nat
      /\ \A k \in DOMAIN E : k \in Nat /\ E[k].stamp \in Nat
  BY DEF Timed
<1> QED BY <1>1 DEF Before

(* What is later has more before it. *)
LEMMA RankGrows ==
    ASSUME NEW E, Timed(E), NEW i \in DOMAIN E, NEW j \in DOMAIN E
    PROVE  /\ Rank(E, i) \in 0..(Cardinality(DOMAIN E) - 1)
           /\ Before(E, i, j) => Rank(E, i) < Rank(E, j)
<1> DEFINE D == DOMAIN E
<1>1. IsFiniteSet(D)
  BY DEF Timed
<1>2. Earlier(E, i) \subseteq D /\ Earlier(E, j) \subseteq D /\ i \notin Earlier(E, i)
  BY BeforeIsTotal DEF Earlier
<1>3. /\ IsFiniteSet(Earlier(E, i)) /\ IsFiniteSet(Earlier(E, j))
      /\ Rank(E, i) \in Nat /\ Rank(E, j) \in Nat /\ Cardinality(D) \in Nat
  BY <1>1, <1>2, FS_Subset, FS_CardinalityType DEF Rank
<1>4. ASSUME NEW S, IsFiniteSet(S), Earlier(E, i) \subseteq S, i \in S
      PROVE  Rank(E, i) + 1 <= Cardinality(S)
  <2>1. Cardinality(Earlier(E, i) \cup {i}) = Rank(E, i) + 1
    BY <1>2, <1>3, FS_AddElement DEF Rank
  <2>2. Earlier(E, i) \cup {i} \subseteq S
    BY <1>4
  <2> QED BY <1>4, <2>1, <2>2, Bigger
<1>5. Rank(E, i) + 1 <= Cardinality(D)
  BY <1>1, <1>2, <1>4
<1>6. ASSUME Before(E, i, j) PROVE Rank(E, i) < Rank(E, j)
  <2>1. Earlier(E, i) \subseteq Earlier(E, j) /\ i \in Earlier(E, j)
    BY <1>6, BeforeIsTotal DEF Earlier
  <2>2. Rank(E, i) + 1 <= Cardinality(Earlier(E, j))
    BY <1>3, <1>4, <2>1
  <2> QED BY <1>3, <2>2 DEF Rank
<1> QED BY <1>3, <1>5, <1>6

(* There is an n-th event for every n, and every event is the n-th for     *)
(* one n: ranks are an injection of the events into as many numbers, so    *)
(* all numbers are taken.                                                  *)
LEMMA Ordered ==
    ASSUME NEW E, Timed(E)
    PROVE  LET N == Cardinality(DOMAIN E)
           IN  /\ N \in Nat
               /\ \A n \in 1..N : At(E, n) \in DOMAIN E /\ Rank(E, At(E, n)) = n - 1
               /\ \A i \in DOMAIN E : \E n \in 1..N : At(E, n) = i
               /\ \A m \in 1..N, n \in 1..N :
                     m < n => E[At(E, m)].stamp <= E[At(E, n)].stamp
<1> DEFINE D == DOMAIN E
           N == Cardinality(D)
           f == [i \in D |-> Rank(E, i) + 1]
<1>1. IsFiniteSet(D) /\ N \in Nat
  BY FS_CardinalityType DEF Timed
<1>2. \A i \in D : Rank(E, i) \in 0..(N - 1)
  BY RankGrows
<1>3. \A i \in D, j \in D : /\ Rank(E, i) = Rank(E, j) => i = j
                            /\ Rank(E, i) < Rank(E, j) => E[i].stamp <= E[j].stamp
  <2> SUFFICES ASSUME NEW i \in D, NEW j \in D
               PROVE  /\ Rank(E, i) = Rank(E, j) => i = j
                      /\ Rank(E, i) < Rank(E, j) => E[i].stamp <= E[j].stamp
    OBVIOUS
  <2>1. Rank(E, i) \in Int /\ Rank(E, j) \in Int
    BY <1>1, <1>2
  <2>2. i # j => Before(E, i, j) \/ Before(E, j, i)
    BY BeforeIsTotal
  <2>3. /\ Before(E, i, j) => Rank(E, i) < Rank(E, j) /\ E[i].stamp <= E[j].stamp
        /\ Before(E, j, i) => Rank(E, j) < Rank(E, i)
    BY RankGrows, BeforeIsTotal
  <2> QED BY <2>1, <2>2, <2>3
<1>4. f \in Injection(D, 1..N)
  <2>1. f \in [D -> 1..N]
    BY <1>1, <1>2
  <2>2. \A a \in D, b \in D : f[a] = f[b] => a = b
    BY <1>1, <1>2, <1>3
  <2> HIDE DEF f
  <2> QED BY <2>1, <2>2, Fun_IsInj
<1>5. f \in Surjection(D, 1..N)
  <2>1. IsFiniteSet(1..N) /\ Cardinality(1..N) = N
    BY <1>1, FS_Interval
  <2> HIDE DEF f
  <2> QED BY <1>4, <2>1, FS_Injection
<1>6. \A n \in 1..N : \E i \in D : Rank(E, i) = n - 1
  <2> TAKE n \in 1..N
  <2>1. PICK i \in D : f[i] = n
    BY <1>5 DEF Surjection
  <2> QED BY <2>1, <1>1, <1>2
<1>7. \A n \in 1..N : At(E, n) \in D /\ Rank(E, At(E, n)) = n - 1
  BY <1>6 DEF At
<1>8. \A i \in D : \E n \in 1..N : At(E, n) = i
  <2> TAKE i \in D
  <2>1. PICK n \in 1..N : n - 1 = Rank(E, i)
    <3>1. \A k \in 0..(N - 1) : \E n \in 1..N : n - 1 = k
      <4> SUFFICES ASSUME NEW k \in 0..(N - 1) PROVE \E n \in 1..N : n - 1 = k
        OBVIOUS
      <4>1. k + 1 \in 1..N /\ (k + 1) - 1 = k
        BY <1>1
      <4> HIDE DEF N
      <4> QED BY <4>1
    <3> QED BY <3>1, <1>2
  <2>2. At(E, n) \in D /\ Rank(E, At(E, n)) = Rank(E, i)
    BY <1>7, <2>1
  <2>3. At(E, n) = i
    BY <1>3, <2>2
  <2> QED BY <2>3
<1>9. ASSUME NEW m \in 1..N, NEW n \in 1..N, m < n
      PROVE  E[At(E, m)].stamp <= E[At(E, n)].stamp
  <2>1. Rank(E, At(E, m)) < Rank(E, At(E, n))
    BY <1>1, <1>7, <1>9
  <2> QED BY <2>1, <1>3, <1>7
<1> QED BY <1>1, <1>7, <1>8, <1>9

-----------------------------------------------------------------------------
(* NumFolds folds of that size hold all events, *)
LEMMA Sizes ==
    ASSUME NEW n \in Nat
    PROVE  FoldSize(n) \in Nat \ {0} /\ n <= NumFolds * FoldSize(n)
<1> DEFINE K == NumFolds
           q == (n + K - 1) \div K
           M == FoldSize(n)
<1>1. K \in Nat \ {0}
  BY HistoryAssumption
<1>2. n + K - 1 \in Nat
  BY <1>1
<1> HIDE DEF K
<1>3. q \in Nat /\ n + K - 1 < K * q + K
  BY <1>1, <1>2, Divided
<1>4. M \in {1, q} /\ 1 <= M /\ q <= M
  <2>1. \E x \in {1, q} : \A y \in {1, q} : x >= y
    <3> HIDE DEF q
    <3>1. CASE q >= 1
      BY <1>3, <3>1
    <3>2. CASE ~(q >= 1)
      BY <1>3, <3>2
    <3> QED BY <3>1, <3>2
  <2>2. M = CHOOSE x \in {1, q} : \A y \in {1, q} : x >= y
    BY DEF FoldSize, Max, K
  <2> HIDE DEF M, q
  <2>3. M \in {1, q} /\ \A y \in {1, q} : M >= y
    BY <2>1, <2>2
  <2> QED BY <2>3, <1>3
<1> HIDE DEF q, M
<1>5. M \in Nat \ {0} /\ K * q <= K * M /\ K * q \in Int /\ K * M \in Int
  BY <1>1, <1>3, <1>4
<1>6. n <= K * M
  BY <1>1, <1>3, <1>5
<1> QED BY <1>5, <1>6 DEF M, K

(* ... and every event has its place in one of them, those of a fold       *)
(* before those of the next.                                               *)
LEMMA Places ==
    ASSUME NEW s \in Nat \ {0}, NEW K \in Nat \ {0}
    PROVE  /\ \A q \in 1..(K * s) : \E k \in 1..K, m \in 1..s : q = (k - 1) * s + m
           /\ \A j \in 1..K, k \in 1..K : j < k => (j - 1) * s + s <= (k - 1) * s
           /\ \A j \in 1..K : (j - 1) * s \in Nat
<1>1. ASSUME NEW q \in 1..(K * s)
      PROVE  \E k \in 1..K, m \in 1..s : q = (k - 1) * s + m
  <2> DEFINE d == (q - 1) \div s
  <2>1. d \in Nat /\ s * d <= q - 1 /\ q - 1 < s * d + s /\ q - 1 \in Nat
    BY Divided
  <2> HIDE DEF d
  <2>2. d < K
    <3> SUFFICES ASSUME d >= K PROVE FALSE
      BY <2>1
    <3>1. s * d >= s * K /\ s * K = K * s /\ s * d \in Int /\ s * K \in Int
      BY <2>1
    <3> QED BY <2>1, <3>1
  <2>3. ((d + 1) - 1) * s = s * d /\ s * d \in Int
    BY <2>1
  <2>4. q - s * d \in 1..s /\ d + 1 \in 1..K /\ q = s * d + (q - s * d)
    BY <2>1, <2>2, <2>3
  <2> QED BY <2>3, <2>4
<1>2. ASSUME NEW j \in 1..K, NEW k \in 1..K, j < k
      PROVE  (j - 1) * s + s <= (k - 1) * s
  <2>1. (j - 1) * s + s = j * s /\ j <= k - 1 /\ j \in Nat /\ k - 1 \in Nat
    BY <1>2
  <2>2. j * s <= (k - 1) * s
    BY <2>1
  <2> QED BY <2>1, <2>2
<1>3. ASSUME NEW j \in 1..K PROVE (j - 1) * s \in Nat
  <2>1. j - 1 \in Nat
    OBVIOUS
  <2> QED BY <2>1
<1> QED BY <1>1, <1>2, <1>3

(* A slice of a sequence. *)
LEMMA SliceLaw ==
    ASSUME NEW S, NEW s \in Seq(S), NEW base \in Nat, NEW top \in Nat
    PROVE  /\ DOMAIN SubSeq(s, base + 1, top) = 1..(top - base)
           /\ \A m \in 1..(top - base) : SubSeq(s, base + 1, top)[m] = s[base + m]
  OBVIOUS

(* The folds of walk_forward_folds are slices of the ordered events. *)
LEMMA FoldLaw ==
    ASSUME NEW E, Timed(E), NEW k \in 1..NumFolds
    PROVE  LET N == Cardinality(DOMAIN E)
               s == FoldSize(N)
               fold == WalkForwardFolds(E)[k]
           IN  /\ \A m : m \in DOMAIN fold <=> m \in 1..s /\ (k - 1) * s + m <= N
               /\ \A m \in DOMAIN fold : /\ (k - 1) * s + m \in 1..N
                                         /\ fold[m] = E[At(E, (k - 1) * s + m)]
<1> DEFINE N == Cardinality(DOMAIN E)
           s == FoldSize(N)
           C == Chronological(E)
           fold == WalkForwardFolds(E)[k]
           top == Min({k * s, N})
           base == (k - 1) * s
<1>1. N \in Nat /\ HowMany(E) = N
  BY FS_CardinalityType DEF Timed, HowMany
<1>2. C = [n \in 1..N |-> E[At(E, n)]]
  <2>1. C = [n \in 1..HowMany(E) |-> E[At(E, n)]]
    BY DEF Chronological, At, Rank, Earlier
  <2> QED BY <1>1, <2>1
<1>3. s \in Nat \ {0} /\ NumFolds \in Nat \ {0}
  BY <1>1, Sizes, HistoryAssumption
<1>4. fold = SubSeq(C, base + 1, top)
  BY <1>1 DEF WalkForwardFolds
<1> HIDE DEF N, s, C, fold, top
<1>5. base \in Nat /\ k * s = base + s /\ k * s \in Nat
  <2>1. k \in Nat /\ k - 1 \in Nat
    BY <1>3
  <2> QED BY <1>3, <2>1
<1>6. /\ top = IF base + s <= N THEN base + s ELSE N
      /\ top \in Nat
  <2>1. top = CHOOSE x \in {base + s, N} : \A y \in {base + s, N} : x <= y
    BY <1>5 DEF top, Min
  <2> HIDE DEF base
  <2>2. \E x \in {base + s, N} : \A y \in {base + s, N} : x <= y
    <3>1. CASE base + s <= N
      BY <1>1, <1>3, <1>5, <3>1
    <3>2. CASE ~(base + s <= N)
      BY <1>1, <1>3, <1>5, <3>2
    <3> QED BY <3>1, <3>2
  <2>3. top \in {base + s, N} /\ \A y \in {base + s, N} : top <= y
    BY <2>1, <2>2
  <2> QED BY <1>1, <1>3, <1>5, <2>3
<1> HIDE DEF base
<1> DEFINE S == {C[n] : n \in 1..N}
<1>7. C \in Seq(S)
  <2>1. \A n \in 1..N : C[n] \in S
    OBVIOUS
  <2> HIDE DEF S
  <2> QED BY <1>1, <1>2, <2>1
<1> HIDE DEF S
<1>8. /\ DOMAIN fold = 1..(top - base)
      /\ \A m \in 1..(top - base) : fold[m] = C[base + m]
  <2>1. /\ DOMAIN SubSeq(C, base + 1, top) = 1..(top - base)
        /\ \A m \in 1..(top - base) : SubSeq(C, base + 1, top)[m] = C[base + m]
    <3>1. base \in Nat /\ top \in Nat
      BY <1>5, <1>6
    <3> QED BY <1>7, <3>1, SliceLaw
  <2> QED BY <1>4, <2>1
<1>9. \A m : m \in 1..(top - base) <=> m \in 1..s /\ base + m <= N
  BY <1>1, <1>3, <1>5, <1>6
<1>10. \A m \in 1..(top - base) : base + m \in 1..N
  BY <1>1, <1>3, <1>5, <1>6
<1> QED BY <1>2, <1>8, <1>9, <1>10 DEF base, N, s, fold

(* Counting through a bijection. *)
LEMMA Carried ==
    ASSUME NEW P, NEW D, IsFiniteSet(D), NEW g \in [P -> D],
           \A p \in P, q \in P : g[p] = g[q] => p = q,
           \A i \in D : \E p \in P : g[p] = i,
           NEW A \in SUBSET P, NEW B \in SUBSET D, \A p \in P : p \in A <=> g[p] \in B
    PROVE  Cardinality(A) = Cardinality(B)
<1> DEFINE h == [p \in A |-> g[p]]
<1>1. h \in [A -> B]
  OBVIOUS
<1>2. \A p \in A, q \in A : h[p] = h[q] => p = q
  OBVIOUS
<1>3. \A i \in B : \E p \in A : h[p] = i
  OBVIOUS
<1> HIDE DEF h
<1>4. h \in Injection(A, B)
  BY <1>1, <1>2, Fun_IsInj
<1>5. h \in Surjection(A, B)
  BY <1>1, <1>3, Fun_IsSurj
<1>6. IsFiniteSet(B)
  BY FS_Subset
<1> QED BY <1>4, <1>5, <1>6, FS_Injection

(* Places in folds and events correspond one to one, in order. *)
LEMMA FoldsFact ==
    ASSUME Types
    PROVE  FoldsAreChronological
<1> DEFINE E == Events
           D == DOMAIN E
           N == Cardinality(D)
           K == NumFolds
           s == FoldSize(N)
           folds == WalkForwardFolds(E)
           places == {p \in (1..K) \X (1..HowMany(E)) : p[2] \in DOMAIN folds[p[1]]}
           line(k, m) == (k - 1) * s + m
           g == [p \in places |-> At(E, line(p[1], p[2]))]
<1>1. Timed(E)
  <2>1. /\ D = Valid(history) /\ IsFiniteSet(D)
        /\ Valid(history) \subseteq 1..Len(history.lines) /\ Len(history.lines) \in Nat
        /\ \A i \in D : E[i] \in Event
    BY LoadedLaw DEF Types, Events
  <2>2. D \subseteq Nat
    BY <2>1
  <2> HIDE DEF E
  <2>3. \A i \in D : E[i].stamp \in Nat
    BY <2>1 DEF Event
  <2> QED BY <2>1, <2>2, <2>3 DEF Timed
<1> HIDE DEF E
<1>2. /\ N \in Nat /\ HowMany(E) = N /\ IsFiniteSet(D)
      /\ s \in Nat \ {0} /\ K \in Nat \ {0} /\ N <= K * s
  <2>1. N \in Nat /\ HowMany(E) = N /\ IsFiniteSet(D)
    BY <1>1, FS_CardinalityType DEF Timed, HowMany
  <2> QED BY <2>1, Sizes, HistoryAssumption
<1>3. \A k \in 1..K :
         /\ \A m : m \in DOMAIN folds[k] <=> m \in 1..s /\ line(k, m) <= N
         /\ \A m \in DOMAIN folds[k] : line(k, m) \in 1..N /\ folds[k][m] = E[At(E, line(k, m))]
  BY <1>1, FoldLaw
<1>4. /\ \A n \in 1..N : At(E, n) \in D /\ Rank(E, At(E, n)) = n - 1
      /\ \A i \in D : \E n \in 1..N : At(E, n) = i
      /\ \A m \in 1..N, n \in 1..N : m < n => E[At(E, m)].stamp <= E[At(E, n)].stamp
  BY <1>1, Ordered
<1>5. /\ \A q \in 1..(K * s) : \E k \in 1..K, m \in 1..s : q = line(k, m)
      /\ \A j \in 1..K, k \in 1..K : j < k => (j - 1) * s + s <= (k - 1) * s
      /\ \A j \in 1..K : (j - 1) * s \in Nat
  BY <1>2, Places
<1> HIDE DEF N, s, K, folds
<1>6. \A p \in places : /\ p[1] \in 1..K /\ p[2] \in DOMAIN folds[p[1]] /\ p = <<p[1], p[2]>>
                        /\ p[2] \in 1..s /\ line(p[1], p[2]) \in 1..N
                        /\ folds[p[1]][p[2]] = E[g[p]]
  <2> TAKE p \in places
  <2>1. /\ p[1] \in 1..K /\ p[2] \in DOMAIN folds[p[1]] /\ p = <<p[1], p[2]>>
        /\ g[p] = At(E, line(p[1], p[2]))
    OBVIOUS
  <2> HIDE DEF g, places, line
  <2> QED BY <2>1, <1>3
<1>7. \A k \in 1..K : \A m \in DOMAIN folds[k] : <<k, m>> \in places
  <2> SUFFICES ASSUME NEW k \in 1..K, NEW m \in DOMAIN folds[k] PROVE <<k, m>> \in places
    OBVIOUS
  <2>1. m \in 1..s /\ line(k, m) \in 1..N /\ (k - 1) * s \in Nat
    BY <1>3, <1>5
  <2>2. m \in 1..N
    BY <2>1, <1>2
  <2> QED BY <1>2, <2>2
<1>8. \A j \in 1..K, k \in 1..K : \A m \in 1..s, n \in 1..s : j < k => line(j, m) < line(k, n)
  <2> SUFFICES ASSUME NEW j \in 1..K, NEW k \in 1..K, NEW m \in 1..s, NEW n \in 1..s, j < k
               PROVE  line(j, m) < line(k, n)
    OBVIOUS
  <2>1. (j - 1) * s + s <= (k - 1) * s /\ (j - 1) * s \in Nat /\ (k - 1) * s \in Nat
    BY <1>5
  <2> QED BY <2>1, <1>2
<1>9. g \in [places -> D]
  <2> HIDE DEF places, line
  <2> QED BY <1>4, <1>6
<1>10. \A p \in places, q \in places : g[p] = g[q] => p = q
  <2> SUFFICES ASSUME NEW p \in places, NEW q \in places, g[p] = g[q] PROVE p = q
    OBVIOUS
  <2>1. /\ p[1] \in 1..K /\ p = <<p[1], p[2]>> /\ p[2] \in 1..s /\ line(p[1], p[2]) \in 1..N
        /\ q[1] \in 1..K /\ q = <<q[1], q[2]>> /\ q[2] \in 1..s /\ line(q[1], q[2]) \in 1..N
    BY <1>6
  <2>2. At(E, line(p[1], p[2])) = At(E, line(q[1], q[2]))
    OBVIOUS
  <2> HIDE DEF places, g
  <2>3. line(p[1], p[2]) = line(q[1], q[2])
    <3> DEFINE lp == line(p[1], p[2])
               lq == line(q[1], q[2])
    <3>1. lp \in 1..N /\ lq \in 1..N /\ At(E, lp) = At(E, lq)
      BY <2>1, <2>2
    <3> HIDE DEF lp, lq, line
    <3>2. lp - 1 = Rank(E, At(E, lp)) /\ lq - 1 = Rank(E, At(E, lq))
      BY <3>1, <1>4
    <3>3. lp - 1 = lq - 1 /\ lp \in Int /\ lq \in Int
      BY <3>1, <3>2, <1>2
    <3>4. lp = lq
      BY <3>3
    <3> QED BY <3>4 DEF lp, lq
  <2>4. ~(p[1] < q[1]) /\ ~(q[1] < p[1])
    <3>1. /\ p[1] < q[1] => line(p[1], p[2]) < line(q[1], q[2])
          /\ q[1] < p[1] => line(q[1], q[2]) < line(p[1], p[2])
      BY <1>8, <2>1
    <3> HIDE DEF line
    <3> QED BY <3>1, <2>1, <2>3, <1>2
  <2>5. p[1] = q[1]
    <3>1. p[1] \in Int /\ q[1] \in Int
      BY <2>1, <1>2
    <3> HIDE DEF line
    <3> QED BY <3>1, <2>4
  <2>6. (p[1] - 1) * s \in Nat
    BY <1>5, <2>1
  <2>7. p[2] = q[2]
    BY <2>1, <2>3, <2>5, <2>6, <1>2
  <2> QED BY <2>1, <2>5, <2>7
<1>11. \A i \in D : \E p \in places : g[p] = i
  <2> TAKE i \in D
  <2>1. PICK n \in 1..N : At(E, n) = i
    BY <1>4
  <2>2. n \in 1..(K * s)
    <3>1. K * s \in Nat
      BY <1>2
    <3> QED BY <3>1, <1>2
  <2>3. PICK k \in 1..K, m \in 1..s : n = line(k, m)
    BY <2>2, <1>5
  <2>4. line(k, m) <= N
    BY <2>3, <1>2
  <2>5. m \in DOMAIN folds[k]
    BY <2>4, <1>3
  <2>6. <<k, m>> \in places
    BY <2>5, <1>7
  <2>7. g[<<k, m>>] = At(E, line(k, m))
    BY <2>6
  <2> HIDE DEF g, places, line
  <2> QED BY <2>1, <2>3, <2>6, <2>7
<1>12. Cardinality(places) = N
  <2> HIDE DEF g, places, D
  <2>1. places \in SUBSET places /\ D \in SUBSET D /\ \A p \in places : p \in places <=> g[p] \in D
    BY <1>9
  <2>2. Cardinality(places) = Cardinality(D)
    BY <2>1, <1>2, <1>9, <1>10, <1>11, Carried
  <2> QED BY <2>2 DEF N, D
<1>13. ASSUME NEW i \in D
       PROVE  Cardinality({p \in places : folds[p[1]][p[2]] = E[i]}) = Cardinality({j \in D : E[j] = E[i]})
  <2> DEFINE A == {p \in places : folds[p[1]][p[2]] = E[i]}
             B == {j \in D : E[j] = E[i]}
  <2> HIDE DEF g, places, D
  <2>1. A \in SUBSET places /\ B \in SUBSET D /\ \A p \in places : p \in A <=> g[p] \in B
    BY <1>6, <1>9
  <2> HIDE DEF A, B
  <2>2. Cardinality(A) = Cardinality(B)
    BY <2>1, <1>2, <1>9, <1>10, <1>11, Carried
  <2> QED BY <2>2 DEF A, B
<1>14. ASSUME NEW j \in 1..K, NEW k \in 1..K, j < k,
              NEW m \in DOMAIN folds[j], NEW n \in DOMAIN folds[k]
       PROVE  folds[j][m].stamp <= folds[k][n].stamp
  <2>1. m \in 1..s /\ n \in 1..s /\ line(j, m) \in 1..N /\ line(k, n) \in 1..N
        /\ folds[j][m] = E[At(E, line(j, m))] /\ folds[k][n] = E[At(E, line(k, n))]
    BY <1>3
  <2>2. line(j, m) < line(k, n)
    BY <2>1, <1>8, <1>14
  <2> HIDE DEF line
  <2> QED BY <2>1, <2>2, <1>4
<1>15. \A i \in D : Count(E, LAMBDA e : e = E[i]) = Cardinality({j \in D : E[j] = E[i]})
  BY DEF Count
<1>16. /\ Cardinality(places) = HowMany(E)
       /\ \A i \in D : Cardinality({p \in places : folds[p[1]][p[2]] = E[i]})
                          = Count(E, LAMBDA e : e = E[i])
  <2> HIDE DEF places, D
  <2> QED BY <1>2, <1>12, <1>13, <1>15
<1>17. \A j \in 1..K, k \in 1..K :
          j < k => \A m \in DOMAIN folds[j], n \in DOMAIN folds[k] :
                      folds[j][m].stamp <= folds[k][n].stamp
  BY <1>14
<1> QED BY <1>16, <1>17 DEF FoldsAreChronological, E, K, folds

(* No fold is told what came before an earlier one, and none of the        *)
(* events is lost or repeated: HistorySpec => []FoldsAreChronological.     *)
THEOREM FoldsNeverLeak == HistorySpec => []FoldsAreChronological
  BY HistoryTyping, FoldsFact, PTL
=============================================================================
