---------------------------- MODULE TaskHistory ----------------------------
(***************************************************************************)
(* What was decided and what came of it: the history log that decorated    *)
(* functions write (integration.py, core/history.py), the telemetry that   *)
(* agents report (core/telemetry.py), and what `goldenboy validate`,       *)
(* `replay` and `calibrate` make of them (analytics/, replay/,             *)
(* core/policies.py, core/calibration.py).  Both logs are files of JSON    *)
(* lines; every agent and every command is a process of its own.           *)
(***************************************************************************)
EXTENDS BudgetRisk, Sequences, FiniteSets, SequencesExt

CONSTANTS Agents,                   \* they call decorated functions, the Tasks
          Priority,                 \* Tasks -> 0..4
          BaseCost,                 \* config.base_cost_per_unit
          Readings,                 \* what a provider says is left: [level, confidence]
          EndLevels,                \* ... once the function has ended
          Capacities,               \* values of config.max_budget_tokens
          EstimatedTokens, UsedTokens,  \* of a task an agent analyzes, and does
          FixedThresholds, MaxCost, \* of the baseline policies, in percents
          NumFolds, MinEvents,      \* n_folds, _MIN_EVENTS_ and _MIN_SAMPLES_FOR_METRICS
          GoodMax, AcceptableMax,   \* the status thresholds, in percents
          Corrupted,                \* a line that is not JSON
          MaxRecords, MaxCuts       \* bounds

Confidences == {"EXACT", "ESTIMATED", "STALE", "UNKNOWN"}

Outcomes == {"completed", "deferred", "failed"}

ASSUME HistoryAssumption ==
    /\ Priority \in [Tasks -> 0..4] /\ BaseCost \in 0..100
    /\ Readings \subseteq [level : 0..100, confidence : Confidences]
    /\ EndLevels \subseteq 0..100 \cup {None}
    /\ Capacities \subseteq Nat \ {0} /\ EstimatedTokens \subseteq Nat /\ UsedTokens \subseteq Nat
    /\ FixedThresholds \subseteq 0..100 /\ MaxCost \in 0..100
    /\ NumFolds \in Nat \ {0} /\ MinEvents \in Nat \ {0}
    /\ AcceptableMax \in 0..100 /\ GoodMax \in 0..AcceptableMax
    /\ None \notin Nat /\ IsFiniteSet(Agents)
    /\ MaxRecords \in Nat /\ MaxCuts \in Nat

VARIABLES history, telemetry,  \* the two logs
          capacity,   \* config.max_budget_tokens, until somebody changes it
          clock,
          pc,         \* Agents -> "idle", "run" (in its function) or "append"
          draft,      \* Agents -> the event it is about to append
          records,
          ended,      \* history: the calls that came to record an outcome, since the last clear
          cuts        \* history: those whose append did not complete

logs == <<history, telemetry>>
calls == <<pc, draft, clock, ended, cuts>>
historyVars == <<logs, capacity, calls, records>>

(* TaskEvent.  The task stands for its type and for the hash of its text.  *)
Event == [task : Tasks, stamp : Nat, cost : 0..100, confidence : Confidences,
          start : 0..100, end : 0..100 \cup {None}, mode : Modes, outcome : Outcomes]

Line(S) == S \cup {Corrupted}

(* ExecutionTelemetry.  `of` and `steady` are history: the analysis it     *)
(* echoes, and that it was reported under the configuration of that.       *)
Analysis == [tokens : EstimatedTokens, capacity : Capacities]

Report == [estimated : Nat \cup {None}, tokens : UsedTokens \cup {None},
           actual : Nat \cup {None}, budget : Capacities \cup {None},
           of : Analysis \cup {None}, steady : BOOLEAN]

ASSUME LineAssumption == None \notin Event /\ Corrupted \notin Event \cup Report

-----------------------------------------------------------------------------
(* A log: its lines, and whether the last one has its newline.             *)
EmptyLog == [lines |-> <<>>, newline |-> TRUE]

Joined(log) == [log.lines EXCEPT ![Len(log.lines)] = Corrupted]

Appended_Unended(log, x) ==
    [lines |-> IF log.newline THEN Append(log.lines, x) ELSE Joined(log), newline |-> FALSE]

(* HistoryStore.append: what follows a line without its end joins it.      *)
Appended(log, x) ==
    [lines |-> IF log.newline THEN Append(log.lines, x) ELSE Joined(log), newline |-> TRUE]

(* The process is killed in its append, or the disk is full: nothing is    *)
(* written, or a part, or everything but the newline.                      *)
AppendedInPart(log, x) ==
    {log} \cup {[lines |-> IF log.newline THEN Append(log.lines, y) ELSE Joined(log),
                 newline |-> FALSE] : y \in {x, Corrupted}}

(* load_events: what can be read, under the number of its line.            *)
Loaded(log) == Restrict(log.lines, {i \in DOMAIN log.lines : log.lines[i] # Corrupted})

HowMany(read) == Cardinality(DOMAIN read)

CorruptedLines(log) == Len(log.lines) - HowMany(Loaded(log))

-----------------------------------------------------------------------------
(* The decorator: assess and adapt_plan for its one unit, which declares   *)
(* no cost.                                                                *)
Assessed(reading) == Mode(reading.level, BaseCost, reading.confidence = "STALE")

Sheds(m, t) == \/ m = "LIMITED" /\ Priority[t] >= 3
               \/ m = "CRITICAL" /\ Priority[t] # 0

(* _record_history, up to its append: the event has the time it was made   *)
(* at, not the one it is written at.                                       *)
EventOf(t, reading, now, end, outcome) ==
    [task |-> t, stamp |-> now, cost |-> BaseCost, confidence |-> reading.confidence,
     start |-> reading.level, end |-> end, mode |-> Assessed(reading), outcome |-> outcome]

HistoryInit ==
    /\ history = EmptyLog /\ telemetry = EmptyLog
    /\ capacity \in Capacities
    /\ clock = 0
    /\ pc = [a \in Agents |-> "idle"]
    /\ draft = [a \in Agents |-> None]
    /\ records = 0 /\ ended = 0 /\ cuts = 0

Records == records < MaxRecords /\ records' = records + 1

HasEvent(a, t, reading, outcome) ==
    \E now \in {clock, clock + 1}, end \in EndLevels :
        /\ clock' = now
        /\ draft' = [draft EXCEPT ![a] = EventOf(t, reading, now, end, outcome)]
        /\ ended' = ended + 1
        /\ pc' = [pc EXCEPT ![a] = "append"]

(* The wrapper when it defers: it saves the checkpoint (AdaptiveExecutor)  *)
(* and records.                                                            *)
Defer(a, t, reading) ==
    /\ pc[a] = "idle" /\ Records
    /\ Sheds(Assessed(reading), t)
    /\ HasEvent(a, t, reading, "deferred")
    /\ UNCHANGED <<logs, capacity, cuts>>

(* ... and when it calls the function.                                     *)
Call(a, t, reading) ==
    /\ pc[a] = "idle" /\ Records
    /\ ~Sheds(Assessed(reading), t)
    /\ draft' = [draft EXCEPT ![a] = EventOf(t, reading, clock, None, "completed")]
    /\ pc' = [pc EXCEPT ![a] = "run"]
    /\ UNCHANGED <<logs, capacity, clock, ended, cuts>>

(* The function returns or raises.                                         *)
FunctionEnds(a, outcome) ==
    /\ pc[a] = "run"
    /\ HasEvent(a, draft[a].task,
                [level |-> draft[a].start, confidence |-> draft[a].confidence], outcome)
    /\ UNCHANGED <<logs, capacity, records, cuts>>

Forgets_KeepsDraft(a) == pc' = [pc EXCEPT ![a] = "idle"] /\ UNCHANGED draft

Forgets(a) == /\ pc' = [pc EXCEPT ![a] = "idle"]
              /\ draft' = [draft EXCEPT ![a] = None]

AppendEvent(a) ==
    /\ pc[a] = "append"
    /\ history' = Appended(history, draft[a])
    /\ Forgets(a)
    /\ UNCHANGED <<telemetry, capacity, clock, ended, cuts, records>>

(* A failing append is swallowed: the call goes on, or died with it.       *)
AppendFails(a) ==
    /\ pc[a] = "append" /\ cuts < MaxCuts
    /\ history' \in AppendedInPart(history, draft[a])
    /\ cuts' = cuts + 1
    /\ Forgets(a)
    /\ UNCHANGED <<telemetry, capacity, clock, ended, records>>

(* The process is killed or interrupted in the function, which is no       *)
(* Exception, or the checkpoint cannot be saved: there is no event.        *)
Interrupted(a) ==
    /\ pc[a] = "run"
    /\ Forgets(a)
    /\ UNCHANGED <<logs, capacity, clock, ended, cuts, records>>

(* HistoryStore.clear *)
Clear ==
    /\ history # EmptyLog
    /\ history' = EmptyLog
    /\ ended' = Cardinality({a \in Agents : pc[a] = "append"})
    /\ cuts' = 0
    /\ UNCHANGED <<telemetry, capacity, clock, pc, draft, records>>

-----------------------------------------------------------------------------
(* An estimate is on the scale of the budget configured when the agent     *)
(* asked `goldenboy analyze` for it.                                       *)
Percent(tokens, budget) == (tokens * 100) \div budget

Reconfigure(c) ==
    /\ capacity' = c /\ c # capacity
    /\ UNCHANGED <<logs, calls, records>>

EffectiveBudget(budget) == IF budget = None THEN capacity ELSE budget

Created_AsGiven(estimated, tokens, budget, of, steady) ==
    [estimated |-> estimated, tokens |-> tokens, budget |-> budget,
     actual |-> IF tokens = None THEN None ELSE Percent(tokens, EffectiveBudget(budget)),
     of |-> of, steady |-> steady]

(* ExecutionTelemetry.create *)
Created(estimated, tokens, budget, of, steady) ==
    [estimated |-> estimated, tokens |-> tokens, budget |-> EffectiveBudget(budget),
     actual |-> IF tokens = None THEN None ELSE Percent(tokens, EffectiveBudget(budget)),
     of |-> of, steady |-> steady]

(* TelemetryStore.append, or what is left of it.                           *)
Keeps(r) == telemetry' \in {Appended(telemetry, r)} \cup AppendedInPart(telemetry, r)

(* report_cmd with its options, which cannot name a budget; the estimate   *)
(* and the tokens need not be given.                                       *)
ReportResult(analysis, tokens, echoes) ==
    /\ Records
    /\ Keeps(Created(IF echoes THEN Percent(analysis.tokens, analysis.capacity) ELSE None,
                     tokens, None, analysis, analysis.capacity = capacity))
    /\ UNCHANGED <<history, capacity, calls>>

(* TelemetryStore.load_events *)
Reports == Loaded(telemetry)

(* report_cmd --json-file with a record that was reported before: what is  *)
(* derived is derived again.                                               *)
ReportAgain(r) ==
    /\ Records
    /\ Keeps(Created(r.estimated, r.tokens, r.budget, r.of, r.steady))
    /\ UNCHANGED <<history, capacity, calls>>

HistoryNext ==
    \/ \E a \in Agents :
          \/ \E t \in Tasks, reading \in Readings : Defer(a, t, reading) \/ Call(a, t, reading)
          \/ \E outcome \in {"completed", "failed"} : FunctionEnds(a, outcome)
          \/ AppendEvent(a)
          \/ AppendFails(a)
          \/ Interrupted(a)
    \/ Clear
    \/ \E c \in Capacities : Reconfigure(c)
    \/ \E analysis \in Analysis, tokens \in UsedTokens \cup {None}, echoes \in BOOLEAN :
          ReportResult(analysis, tokens, echoes)
    \/ \E i \in DOMAIN Reports : ReportAgain(Reports[i])

HistorySpec == HistoryInit /\ [][HistoryNext]_historyVars

-----------------------------------------------------------------------------
(* What the commands make of the logs.                                     *)
Events == Loaded(history)

Count(events, Test(_)) == Cardinality({i \in DOMAIN events : Test(events[i])})

(* data_quality.validate.  No value a decorator records is out of range.   *)
StatusOf(corrupted, total) ==
    IF total = 0 THEN "NO_DATA"
    ELSE IF corrupted * 100 <= GoodMax * total THEN "GOOD"
    ELSE IF corrupted * 100 <= AcceptableMax * total THEN "ACCEPTABLE"
    ELSE "POOR"

Quality == [total |-> Len(history.lines), valid |-> HowMany(Events),
            corrupted |-> CorruptedLines(history),
            status |-> StatusOf(CorruptedLines(history), Len(history.lines))]

(* analytics.analyze *)
Analytics(events) ==
    [count |-> HowMany(events),
     outcomes |-> [o \in Outcomes |-> Count(events, LAMBDA e : e.outcome = o)],
     modes |-> [m \in Modes |-> Count(events, LAMBDA e : e.mode = m)]]

(* Policy.decide, from what was known before the call.                     *)
PolicyInput_Leaks(e) ==
    [level |-> IF e.end = None THEN e.start ELSE e.end, cost |-> e.cost,
     stale |-> e.confidence = "STALE"]

PolicyInput(e) == [level |-> e.start, cost |-> e.cost, stale |-> e.confidence = "STALE"]

(* default_baseline_policies *)
DefaultPolicies ==
    {[kind |-> k, threshold |-> 0] : k \in {"complexity_only", "usage_only", "golden_boy"}}
    \cup {[kind |-> "fixed", threshold |-> percent] : percent \in FixedThresholds}

GoldenBoyPolicy == [kind |-> "golden_boy", threshold |-> 0]

UsageOnlyPolicy == [kind |-> "usage_only", threshold |-> 0]

Proceeds(policy, input) ==
    CASE policy.kind = "fixed" -> input.level > policy.threshold
      [] policy.kind = "complexity_only" -> input.cost < MaxCost
      [] policy.kind = "usage_only" -> ~Exhausted(input.level)
      [] policy.kind = "golden_boy" -> Mode(input.level, input.cost, input.stale) \in {"SAFE", "CAUTION"}

(* _score_policy: of the events it would have gone on with, and of those   *)
(* it would have stopped, how many completed.                              *)
Score(policy, events) ==
    LET proceeds == {i \in DOMAIN events : Proceeds(policy, PolicyInput(events[i]))}
        completed == {i \in DOMAIN events : events[i].outcome = "completed"}
    IN  [proceed |-> Cardinality(proceeds),
         truePositive |-> Cardinality(proceeds \cap completed),
         falsePositive |-> Cardinality(proceeds \ completed),
         falseNegative |-> Cardinality(completed \ proceeds),
         trueNegative |-> Cardinality(DOMAIN events \ (proceeds \cup completed))]

(* run_backtest: with too few events nothing is scored.                    *)
Backtest(events) ==
    [size |-> HowMany(events),
     scores |-> IF HowMany(events) < MinEvents THEN <<>>
                ELSE [p \in DefaultPolicies |-> Score(p, events)]]

Chronological_FileOrder(events) ==
    [n \in 1..HowMany(events) |->
        events[CHOOSE i \in DOMAIN events : Cardinality({j \in DOMAIN events : j < i}) = n - 1]]

(* sorted() keeps the order of equal time stamps.                          *)
Before(events, i, j) == \/ events[i].stamp < events[j].stamp
                        \/ events[i].stamp = events[j].stamp /\ i < j

(* walk_forward_folds: the n-th of the events has n - 1 before it.         *)
Chronological(events) ==
    [n \in 1..HowMany(events) |->
        events[CHOOSE i \in DOMAIN events :
                  Cardinality({j \in DOMAIN events : Before(events, j, i)}) = n - 1]]

FoldSize(n) == Max({1, (n + NumFolds - 1) \div NumFolds})

WalkForwardFolds(events) ==
    LET size == FoldSize(HowMany(events))
    IN  [k \in 1..NumFolds |->
            SubSeq(Chronological(events), (k - 1) * size + 1, Min({k * size, HowMany(events)}))]

(* calibrate: records with both percentages, and on which side they lie;   *)
(* with too few of them it says nothing.                                   *)
Usables(reports) ==
    Restrict(reports, {i \in DOMAIN reports : /\ reports[i].estimated # None
                                              /\ reports[i].actual # None})

Calibration(reports) ==
    LET usable == Usables(reports)
    IN  [samples |-> HowMany(usable), excluded |-> HowMany(reports) - HowMany(usable),
         over |-> IF HowMany(usable) < MinEvents THEN None
                  ELSE Count(usable, LAMBDA r : r.actual < r.estimated),
         under |-> IF HowMany(usable) < MinEvents THEN None
                   ELSE Count(usable, LAMBDA r : r.actual > r.estimated)]

-----------------------------------------------------------------------------
(* Every variable has its type, and an agent has a draft unless it is idle.*)
HistoryTypeOK ==
    /\ history.lines \in Seq(Line(Event)) /\ history.newline \in BOOLEAN
    /\ telemetry.lines \in Seq(Line(Report)) /\ telemetry.newline \in BOOLEAN
    /\ capacity \in Capacities /\ clock \in Nat
    /\ pc \in [Agents -> {"idle", "run", "append"}]
    /\ draft \in [Agents -> Event \cup {None}]
    /\ \A a \in Agents : draft[a] = None <=> pc[a] = "idle"
    /\ records \in 0..MaxRecords /\ ended \in 0..MaxRecords /\ cuts \in 0..MaxCuts

Recorded == ended - Cardinality({a \in Agents : pc[a] = "append"})

(* `validate` reports what is missing: of the calls that recorded an       *)
(* outcome, those that are not in the log are no more than the appends     *)
(* that failed and the lines it counts as corrupted together, one each;    *)
(* and it never counts more corrupted lines than appends failed.           *)
LossIsReported ==
    LET missing == Recorded - Quality.valid
    IN  /\ 0 <= missing /\ missing <= cuts + Quality.corrupted
        /\ Quality.corrupted <= cuts
        /\ Quality.status = "NO_DATA" => missing = cuts
        /\ Quality.status # "POOR" => (missing - cuts) * 100 <= AcceptableMax * Quality.total

(* Three reports on one log tell one story: the replayed GoldenBoyPolicy   *)
(* decides on each event as was decided at the time, so it goes on with    *)
(* the SAFE and CAUTION events that analytics counts, and only what failed *)
(* can count against it, never what it deferred; what completed although   *)
(* it would have stopped was of a priority that is never shed in its mode; *)
(* the policies are compared on the same completed tasks, and none that    *)
(* stops for an exhausted budget only stops more often.                    *)
ReportsAgree ==
    LET analytics == Analytics(Events)
        backtest == Backtest(Events)
        score == backtest.scores[GoldenBoyPolicy]
    IN  /\ Quality.valid = analytics.count /\ analytics.count = backtest.size
        /\ backtest.size >= MinEvents =>
              /\ score.proceed = analytics.modes["SAFE"] + analytics.modes["CAUTION"]
              /\ score.falsePositive <= analytics.outcomes["failed"]
              /\ score.trueNegative >= analytics.outcomes["deferred"]
              /\ score.falseNegative <=
                    Count(Events, LAMBDA e : e.mode \in {"LIMITED", "CRITICAL"}
                                             /\ ~Sheds(e.mode, e.task))
              /\ \A p \in DefaultPolicies :
                    LET s == backtest.scores[p]
                    IN  s.truePositive + s.falseNegative = analytics.outcomes["completed"]
              /\ score.proceed <= backtest.scores[UsageOnlyPolicy].proceed

(* However the events of several agents came into the log, the folds hold  *)
(* each of them once and no fold has an event from before an earlier fold. *)
FoldsAreChronological ==
    LET folds == WalkForwardFolds(Events)
        places == {p \in (1..NumFolds) \X (1..HowMany(Events)) : p[2] \in DOMAIN folds[p[1]]}
        held(e) == Cardinality({p \in places : folds[p[1]][p[2]] = e})
    IN  /\ Cardinality(places) = HowMany(Events)
        /\ \A i \in DOMAIN Events : held(Events[i]) = Count(Events, LAMBDA e : e = Events[i])
        /\ \A j \in 1..NumFolds, k \in 1..NumFolds :
              j < k => \A m \in DOMAIN folds[j], n \in DOMAIN folds[k] :
                          folds[j][m].stamp <= folds[k][n].stamp

(* `calibrate` calls an estimate too low or too high only when the task    *)
(* used more or fewer tokens than were estimated, and always when they     *)
(* differ by a percent of the budget, whatever is configured by the time   *)
(* it is asked or a record is reported again; reports made under another   *)
(* configuration than their analysis are excluded.                         *)
CalibrationIsTrue ==
    LET calibration == Calibration(Reports)
        usable == Usables(Reports)
    IN  calibration.samples >= MinEvents /\ (\A i \in DOMAIN usable : usable[i].steady) =>
            /\ calibration.under \in Count(usable, LAMBDA r : (r.tokens - r.of.tokens) * 100 >= r.of.capacity)
                                     .. Count(usable, LAMBDA r : r.tokens > r.of.tokens)
            /\ calibration.over \in Count(usable, LAMBDA r : (r.of.tokens - r.tokens) * 100 >= r.of.capacity)
                                    .. Count(usable, LAMBDA r : r.tokens < r.of.tokens)
=============================================================================
