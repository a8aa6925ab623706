# A TLA+ model of Golden Boy

Golden Boy decides whether, how and on which model an LLM agent's work is done,
within a money budget, a usage budget and a risk budget, and keeps records of
it under `.goldenboy/`. This directory holds TLA+ modules that model its
stateful core, the TLC configurations that check them, and proofs that TLAPS
checks. `PROJECT.json` ties every definition to the lines it models.

## The system

| Component | State | Operations | Hard part |
| --- | --- | --- | --- |
| `GoldenBoy.run` (goldenboy.py) | the plan, the attempt, what is left and spent | route, govern, generate, record, evaluate, escalate, retry | three ways to retry in one loop, each changing the plan; writes that can fail between a paid call and its record |
| Adaptive router, escalation, registry | none (the catalogue) | `route`, `suggest_escalation` | a plan made from a plan from a plan must still meet the request |
| Policy engine | none (`policy.json`) | `evaluate` | a verdict for every attempt, not only the first; totals that are old when they are compared |
| Audit log, spending ledger | append-only JSONL files | `record`, `append`, `load` | order, and what a crash leaves |
| Risk budget engine | `risk_budget_state.json` | `record`, `status`, `reset` | unlocked read-modify-write by separate processes, crash between truncation and write |
| Adaptive executor, checkpoint manager | unit statuses, `checkpoint.json` | `execute`, `run`, `resume` | one slot for all jobs, graceful stop, resume of a resume, kills |
| `budget_aware_execution` | the same checkpoint | the wrapper around an agent's function | runs beside the command line; the function may raise |
| Loop detector, heartbeat | `loop_state.json` | `record`, `check` | the same unlocked file; two thresholds |
| Failure memory | `failures.json` | `record`, `resolve`, `find_similar`, `clear` | the same unlocked file; what is stored is redacted, what is asked for is not |
| History and telemetry logs | `history.jsonl`, `telemetry.jsonl` | `append`, `load_events`, `report` | best-effort appends cut short; times and scales that are old when they are used |
| Analytics, validation, replay, calibration | none | `analyze`, `validate`, `run_backtest`, `walk_forward_folds`, `calibrate` | four reports that must tell one story about a log with holes |
| Spending session | `session_start` | `get_or_create`, `reset`, `summarize` | a window that begins late, or again and again |
| Snapshots | `snapshots.jsonl`, git | `create`, `verify`, `rollback` | partial failure of git |
| Usage adapters | the last reading | `refresh_usage`, `get_available_budget` | readings that age or are half updated |
| Decision engine, tier router, protocol | none | `decide`, `route` | a decision explained by a second derivation |
| Estimators, classifiers, benchmarks, SDK | none | text and float heuristics | (not protocol) |

The facade calls router, policy engine, adapter and the two stores in one
thread. Everything else interacts through files in `.goldenboy/`: every command
is a process of its own, nothing takes a lock, and every small state file is
rewritten in place. There are no threads, no messages and no timeouts inside
the program, so the hard behaviours are interleaved processes, crashes between
two writes, partial failure, and long sequences of legal calls.

What makes each part correct is listed under "What is checked"; the hazards
the properties are aimed at, with the line where each bites, are in
`PROJECT.json`.

## Modules

| Module | Models |
| --- | --- |
| `ModelRouting` | `route`, `suggest_escalation` and what they are built from, as operators. An operator with a plural name returns the set of possible results: one element, or none for `None`. |
| `BoundedRun` | what a run promises, whatever it routes to: a decision before each call, at most `max_attempts` calls, an end. |
| `GoldenBoyRun` | `GoldenBoy.run`, one action per durable write or provider call; EXTENDS `ModelRouting`, implements `BoundedRun` (`Bounded`, a refinement mapping). |
| `RiskBudget` | `RiskBudgetEngine` in several processes over one file. |
| `BudgetRisk` | the usable budget and the risk mode, for the next two and `TaskHistory`. |
| `AdaptiveExecutor` | the executor, the checkpoint, `run`, `resume`, the mock provider, and an agent with decorated functions. |
| `UsageDecision` | a usage adapter's reading as it ages and as refreshes fail, and what `decide` and the tier router answer from it. |
| `LoopWatch` | the loop detector, used by agents that retry until they are told to stop, and the heartbeat's look at its file. |
| `Snapshots` | `SnapshotManager` used by several agents, and the git repository under it. |
| `SpendLedger` | the spending ledger, the session marker, the policy check and the audit log, used by several agents through `goldenboy spend` and `goldenboy policy`. |
| `FailureMemory` | `FailureMemoryStore` in several processes over one file, as `goldenboy failure` uses it. |
| `TaskHistory` | the logs decorated calls and reporting agents append to, and what validate, analytics, replay and calibrate make of them. |
| `MCGoldenBoyRun`, `MCRiskBudget`, `MCAdaptiveExecutor`, `MCUsageDecision`, `MCLoopWatch`, `MCSnapshots`, `MCSpendLedger`, `MCFailureMemory`, `MCTaskHistory` | the values of the constants for TLC. |
| `GoldenBoyRunProofs`, `RiskBudgetProofs`, `AdaptiveExecutorProofs`, `DecisionAndHistoryProofs`, `LoopWatchProofs`, `SnapshotsProofs`, `SpendLedgerProofs`, `FailureMemoryProofs` | theorems and proofs. |

`DecisionAndHistoryProofs` is about two modules, `UsageDecision` and `TaskHistory`: both judge by the policy of
`BudgetRisk`, one before and one after the fact. It EXTENDS both, so the names each
would have for itself carry a prefix in `TaskHistory` (`HistoryInit`, `HistoryNext`, `HistorySpec`, `HistoryTypeOK`).

A definition named `X_Suffix` beside `X` is the code of `X` with a plausible
mistake. No specification uses it; each property is shown to fail when such a
definition replaces the original, so none of them holds vacuously.

### State and actions against the code

`GoldenBoyRun`: `plan`, `attempt`, `remaining`, `total`, `stopped` and `verdict` are
the local variables of `run()`; `calls` is `attempts`, extended when the
provider call returns; `audit` and `ledger` are the entries of this task in the two
stores. `pc` is the place in `run()`. `Crash` is a kill, or a store or a
configuration loader that raises: `run()` handles none of them, so nothing
else changes. Money is in units of 10^-8 USD, so a cost is an integer; the
tokens an answer reports and the model that really answered are the
environment's choice (the adapter calls the model it was configured with,
which need not be the routed one). The verdict of the policy engine is a
function of the tool name: the request `run()` builds carries nothing the
other checks look at. The branch "no adapter for the routed provider" cannot
be reached, because the constructor restricts the registry to the providers
that have one, and has no action.

`RiskBudget`: `record()` is `Load` (read and deduct), `Truncate` (open for
writing empties the file), `Write` (close, return the verdict). `Reset`
removes the file, also from under an open handle, whose write then goes
nowhere. Writing over another process's document gives either the document or a
file that is not JSON (the tail of a longer one stays). `session` and `alone`
are history variables: the records that returned since the last reset, and
whether any two calls overlapped since. `status()` changes nothing.

`AdaptiveExecutor`: `Run` and `Resume` are the commands up to the loop of
`execute()`, `ExecuteUnit` is the loop body with the graceful stop, `Finish`
saves or clears. The agent's process interleaves with it: `CallFunction` is the
wrapper up to the call, then `FunctionReturns`, or `FunctionRaises` and
`SaveCall`. A checkpoint save is one step, except that a kill in it may leave
the file unreadable (`Corrupt`); two saves that overlap byte by byte are the
subject of `RiskBudget`, whose file is written the same way. `resume` without a
checkpoint, with an unreadable one or with nothing deferred changes nothing and
has no action. What the decorator logs is in `TaskHistory`.
`started`, `executed`, `owed` and `crashed` are history variables.

`UsageDecision`: `reading`, `limit` and `age` are the adapter's three fields, the count
as a percentage and the time as the ticks since. `SendProbe` is `refresh_usage`
up to the provider's answer, which says what was left then; `UpdateLimits`,
`RefreshFails` and `UpdateBreaksOff` are the ways it can be handled (the last:
the limit is no number, and the count was already assigned). `BucketMoves` is
the environment. The engine and the router keep nothing, so they have no action:
`ToldFromAdapter` and `ToldFromCommandLine` are the decisions that can be given
in a state, for every task and progress. `lastTrue` is a history variable. A
task is its estimated cost, complexity and confidences, the outputs of the text
heuristics.

`LoopWatch`: `record()` is `Load`, `Truncate`, `Write`, as in `RiskBudget`, but several
signatures share the document and an agent goes on by itself: it records the
same call again unless the verdict was to stop. `LoadFails` is `LoopStateError`, after
which an agent has no verdict and tries again when the file can be read. A crash
leaves the file empty: the document is smaller than the buffer it is written through. `tried`,
`recorded` and `alone` are history variables. The heartbeat keeps nothing, so it
has no action: `StopPending` is what it finds. Its other two reasons look at
the checkpoint file and at its arguments.

`Snapshots`: `create()` is `ReadHead` (`git rev-parse HEAD`), `StashCreate` (`git stash create` and the
clock) and `AppendLine`, with `CreateFails` in between. The repository is external: the checked-out commit, the
working tree, the index, conflicts and stash objects, changed by `Edit`, `AddFile`,
`Commit`, `Conflict` and `CollectGarbage`. `git stash create` may print an object, nothing (a
clean tree, or another git holding the index lock) or a complaint about
conflicts (on standard output, so that it is recorded as the stash); its
exit status is not looked at. `Checkout` is `git checkout <sha> -- .`: it restores
what the commit has, in tree and index, and leaves other files alone. `list`, `latest` and
`get` are `Listed`, `IsLatest`, `IsFound`. `verify()` changes nothing; its failing is one more
reason to roll back. `was` and `sound` in a snapshot, `created` and `overlap` are history.

`SpendLedger`: an agent does what the repository's README (lines 304-339) recommends: it asks
for the total of its window (`Load`, then the marker), has a request checked
against it (`Evaluate`, which records the verdict before it answers), makes the call
(`Work`), and records its cost (`AppendSpend`, then the total again, whose exit code stops the
agent once the window is over the limit). A command is a sequence of actions and
other commands interleave; `pc`, `purpose`, `seen`, `stamp`, `entry` and `traced` are its locals and what its
caller keeps between two. Making the marker is `StampMarker`, `TruncateMarker`, `WriteMarker`: a
reader that finds the file empty makes one too, and empties it for the next to
find, so commands that overlap can go on like that for ever (`MaxMarkers` bounds
it). What a command or path pattern matches is data: `Permission`, `Risk` and `Scope` give the outcome
of those checks for a request. `Crash` kills a command between two writes, `CutShort` in
the middle of an append. `cuts`, `untraced`, `raced` and `granted` are history.

`FailureMemory`: `record()` and `resolve()` are `Record` or `Resolve` (read and change), `Truncate`,
`Write`, as in `RiskBudget`; a command that cannot read the file raises and has no action. A
cause is a text; its redacted text, its hash, its words and the categories whose
pattern it matches are constants of it, and `Classified` is the order in which the patterns are
tried. `find_similar` keeps nothing and has no action: `Similar` is what it finds. A `Clear` is
`clear()`, or somebody removing the file as the error about a corrupted one
says. `begun` and `given` are what was ever attempted, `known`, `reports`, `called`, `fixedBy` what
returned since the last clear, `alone` that no two commands have overlapped since.

`TaskHistory`: a decorated call is `Defer`, or `Call` and `FunctionEnds`; then `AppendEvent` or
`AppendFails`, since an event is made, with its time, before it is appended. A log is
its lines and whether the last one has its newline. `ReportResult` and `ReportAgain` are the two forms of
`goldenboy report`, `Reconfigure` somebody who edits `max_budget_tokens`. The readers keep
nothing: `Quality`, `Analytics`, `Backtest`, `WalkForwardFolds` and `Calibration` are what they answer in a
state, as counts where the code divides them. A log that was read (`Loaded`) is a function from the
numbers of its readable lines, so that a reader selects by restricting it; sorting it (`Chronological`)
is saying which event has how many before it. `ended` and `cuts` are history, and so are the
fields `of` and `steady` of a record: the analysis it echoes, and whether the configuration
was still that of the analysis when it was reported.

## What is checked

Types are proved for every value of the constants; where they restrict more than the
ranges (`UsageDecision`, `TaskHistory`) a run checks them too.

### GoldenBoyRun (about 30,000 states)

The catalogue is the shipped one with its prices and limits (`mini` without the
`tools` feature, so that capabilities matter); four facades (three strategies;
policies that deny or want approval for a first choice, a retry's choice or an unrouted
plan; adapters bound to the cheapest, the dearest or an unlisted model) and
eleven requests, from a budget no model fits to one that three attempts cannot
use up, with zero to three attempts. Three attempts are enough for a first call, a fallback or a
wider output, and an escalation in any order; a fourth only repeats one.

- `PlannedModelsFit`: no sequence of fallbacks and escalations makes a call on a plan for a model the requirements or the policy exclude. It is about the model `run()` plans. The adapter calls the model it was made with (`calls[i].model`), and of that one the same does not hold: see the end of this section.
- `BudgetConserved`, `LedgerFollowsAnswers`, `TraceTellsTheRun`: the two money accounts agree with each other and with the answers; the ledger and the audit log tell the run, in order, up to the write a crash cut off.
- `OneOverrunAtMost`: the budget is overrun by one answer at most.
- `RetryMakesProgress`: an action property; the plan of a retry is for another model or for a longer output of the same one, and a plan for another model that is no fallback goes up in quality. This too is about plans, not about what is sent to the provider.
- `RunEnds`: liveness, under `WF_vars(Step)`.
- `ImplementsBoundedRun`: refinement of `BoundedRun`, with its fairness.

`WF_vars(Step)` says that the one thread of `run()` goes on as long as the
process lives; it includes the assumption that a provider's SDK returns or
raises, which the code relies on (it sets no timeout of its own). `Crash`
carries no fairness.

### RiskBudget (about 3 million states)

Two processes, two operations with their shipped weights and one without, the
shipped thresholds. 40 + 20 meets the approval threshold exactly, and a third
repeat the deny one. Two processes show every overlap of two read-modify-writes; three
records are enough to cross both thresholds and to lose, repeat and continue a
record. The processes are interchangeable (symmetry).

- `DocumentsBalance`: whatever overlaps, a readable document is an account.
- `SessionAccounted`, `PermissionsTighten`: without overlap, no record is lost or counted twice and verdicts only tighten.
- `UnreadableStaysClosed`: an empty or torn file is fatal until `reset()`, never a fresh budget.

### AdaptiveExecutor (about 1.6 million states)

A three-unit plan not in the order of its priorities, a one-unit task without a
declared cost and a decorated function; five commands or calls; budgets below
the margin, at each boundary of the plan's cost, and 100. Five commands are
enough for a run, an interfering job and three resumes. Nothing can be done
after the last command, so deadlock is not checked.

- `CheckpointIsResumable`: nothing undecided and something deferred in every readable checkpoint.
- `CompletedWasExecuted`, `NoWorkRepeated`: a checkpoint tells the truth, and resuming repeats no work unless an executor was killed.
- `FittingPlanFinishes`: a plan judged SAFE or CAUTION, with declared costs, completes with the margin intact.
- `OwnDeferredWorkKept`: a job that has the directory to itself loses nothing it deferred, through any kills, unless the file was left unreadable.

No liveness is stated for these two: a command runs when somebody types it.

### UsageDecision (about 68,000 states)

Four levels: exhausted; 13, where the small task costs exactly the caution
share of what is usable; 40, too little for the large task; 100. Readings are
stale after two ticks and an answer takes one at most, so a reading can be
fresh, fresh by the clock only, and stale. Three tasks: one understood so poorly
that a stale reading tips it into asking, a large one, and one the classifier
does not know, which is asked about whatever the budget (its confidence is
halved and cannot reach the threshold).

- `EstimatedWasTrue`, `SafeWasAffordable`: what is reported as fresh was really so within the window and one latency, and no SAFE rests on less.
- `DecisionIsCoherent`: three derivations from the same inputs (mode, reason code, tier) agree. It is `ReasonExplainsMode` and `TierFollowsDecision`.
- `AgingNeverLoosens`: an action property over the whole decision; without a new reading it only becomes more careful.

`ReasonExplainsMode` is about EXACT and ESTIMATED readings. docs/PROTOCOL.md:91-100 does not
make the exception, but `RiskEngine.assess` lowers SAFE to CAUTION for a stale reading and the
reason code, derived from the numbers alone, stays that of SAFE.

### LoopWatch (about 450,000 states)

Two agents, one with the configured threshold of 2, one with 3; two signatures,
so that agents either count together or only share the document; one reset and
one crash, which are enough to put a record on either side of each, a write to
a removed file included. Everybody may have stopped, so deadlock is not checked.

- `StopIsEarned`: what is lost makes a stop late, never early.
- `CountsRecords`: without overlap each record counts once.
- `StopIsSeen`: when all have stopped, the heartbeat sees it, however the writes overlapped.
- `RetriesEnd`: liveness, under `WF_vars(Attempt(a))` for each agent. Fairness says that an agent that was not told to stop tries again, the behaviour the detector exists for; `Reset` and `Crash` have none.

### Snapshots (about 1.2 million states)

Two agents, two files, of which one is committed at first, two contents; four
changes to the repository, two snapshots, one cut append. Four changes are enough to dirty the tree, change it again, commit and collect
garbage in any order around the snapshots. Agents, files and contents are interchangeable
(symmetry). The changes run out, so deadlock is not checked.

- `RollbackRestores`: an action property; whatever happened since, a rollback to a sound snapshot brings back what git saw.
- `CutsCostOneEach`: a cut append costs one later snapshot at most.
- `LatestIsLastCreated`: without overlap and cuts, the file is what was created, in order, and ids are unique.

A snapshot is sound unless `git stash create` failed on a dirty tree, or somebody
committed between the two git commands of `create()` and left a clean tree. Of the others the code says
"clean" and a rollback restores a commit the tree was not at.

### SpendLedger (about 1.8 million states)

Two agents, one limit of 2; a request of estimate 1, one of 3 that the tool list
wants approved and the policy alone would deny, one on a protected path; a call may cost 3,
or its estimate when nobody measures it. Two calls per agent, two markers, one kill, two
days: enough for both agents to be allowed on the same total, for a marker to
be made while another is, for a reset between a call and its record, and for a cut line that hides
the next. A session or a day, and a policy file that is present, absent or
broken, are chosen at the start; a daily window reads no marker and a session
looks at no day, so these do not multiply. The agents are interchangeable (symmetry).
Both may have stopped, so deadlock is not checked.

- `SpendIsBounded`: the window goes over its limit by less than one call of each agent; the bound is tight. Calls a human granted are not counted: an objection earlier in the order of the checks hides what the budget check would say, and the code bounds them by nothing.
- `SessionEndsByReset`: an action property; the commands that only ask when the session began leave it, unless two made the marker at one time.
- `CallsAreAudited`: a verdict acted on is in the audit log, but for one per cut line.

No liveness is stated: a command runs when an agent calls it.

### FailureMemory (about 1.4 million states)

Two agents; two causes that differ by a line number and have no words worth
keeping, one with a secret in it and what that becomes when it is redacted; two fixes; four
commands, one clear, one crash. Four commands are a report, its fix, the report's return, and one that overlaps
any of them; a clear or a crash can fall between any two steps. The commands run out, so deadlock is not
checked.

- `NothingInvented`: whatever overlaps, dies or is cleared away, no failure counts more often than it was reported and no fix is one that nobody gave.
- `RemembersAll`: without overlap, each failure has its count, the category of its first report and its last fix.
- `KnownFailureIsFound`: a recorded cause without a secret in it finds its record, and none more similar. (A record of other words in the same keyword set also has similarity 1.0 and may be listed before it.)

### TaskHistory (about 1.7 million states)

Two agents with a task that is never shed and one that soon is; readings that
give each of the four modes, one of them only because it is stale; an estimate that is
too high and one that is too low under each of two budgets; three records, one of whose appends
is cut. The shipped minimum of ten events and the status thresholds of 1 and 5 % would need
logs of tens of lines to matter: they are constants, lowered to two events and to 25 and
50 %, so that logs of three lines fall on each side of them; there are two folds.
The agents are interchangeable (symmetry). The records run out, so deadlock is not
checked. Replay is under the configuration the events were decided under.

- `LossIsReported`: calls missing from the log are no more than the failed appends and the lines counted as corrupted, one each, and a log that is not POOR lacks few.
- `ReportsAgree`: the replayed `GoldenBoyPolicy` decides as was decided, so its counts are those analytics has of the modes and outcomes; all policies are scored on the same completed tasks.
- `FoldsAreChronological`: however the agents' events came into the log, each is in one fold and no fold reaches back before an earlier one.
- `CalibrationIsTrue`: an estimate is called too low only when the task used more tokens than were estimated, and always when these are a percent of the budget more (a percentage is rounded down), whatever is configured by then, and however often the record is reported again; too high likewise. Reports made under another configuration than their analysis are excluded: there the two percentages are on two scales, and the record does not say so.

### Where documents and code disagree

Each is a run whose one property TLC violates.

| Run | The document | The code |
| --- | --- | --- |
| `GoldenBoyRun_CallsFitTheBudget` | escalation.py:46-49, the caller checks an escalated plan against its budget | `run()` does not, so a call may be estimated at more than is left |
| `AdaptiveExecutor_DecoratedWorkIsCalled` | integration.py:65-66, never asks the provider, always calls the function | `resume` completes an `auto_` unit through the mock provider |
| `FailureMemory_RecordedIsFound` | failure_memory.py:286, exact matches first, with similarity 1.0 | a cause with a secret in it is stored under the hash of its redacted text and looked up by its own: no exact match |

Four more, which the passing runs are stated around: `generate()` is told the prompt and the
output budget and not the model (goldenboy.py:326), and an adapter calls the one it was made
with (anthropic_adapter.py:165), although every model of its provider is routed to, where
goldenboy.py:152-154 says that none is considered that cannot be called (ROADMAP.md:110 lists
per-model escalation within an adapter as not built). So the model that is called may lack the
features, the quality or the permission of the planned one (with the adapter of the facade that has
`mini`, a plan for `gpt-4o` made for a balanced request goes to `mini`), and an escalation or a
fallback within one provider sends the request that just failed, or was just answered and paid for,
once more (`haiku`, escalated to `opus`, is `haiku` again), where escalation.py:253-254 speaks of
"a different, higher-quality registered model"; `PlannedModelsFit` and `RetryMakesProgress` are
therefore about plans. A denied run writes no verdict
to the audit log with the default engine (README.md:218 says every step is
written; goldenboy.py:280). Overlapping records restore risk budget (risk_budget.py:18-23 says
permissions never loosen on their own). And a second job overwrites or clears the only
checkpoint (checkpoint.py:33 speaks of recoverable work; executor.py:105).

## What is proved

For every value of the constants that satisfies the named assumptions
(`CatalogAssumption`, `RunAssumption`; `ConfigAssumption`, `FileAssumption`;
`PlanAssumption`, `CostAssumption`, `FileAssumption`; `RiskAssumption`, `UsageAssumption`; `LoopAssumption`; `SnapshotAssumption`; `LedgerAssumption`; `CauseAssumption`, `FileAssumption`; `HistoryAssumption`, `LineAssumption`), so for any catalogue,
requests, number of processes, plans and budgets. Beyond the ranges the code's validation
gives, they say that what stands for "nothing" or "unreadable" is no value, and, where something
is counted or added up, that it is finite (the agents of `SpendLedger` and `TaskHistory`, what calls cost, the words of a cause). The safety property of
every passing run is proved; so the bounds of the runs above are a first test of these statements, not
what they rest on.

- `GoldenBoyRunProofs`: all safety invariants, the action property, and `RunIsBounded`, the safety half of the refinement. It begins with what `route`, an escalation and a suggestion guarantee (`RouteSound`, `EscalationSound`, `SuggestionSound`), and cites these instead of the definitions of the router from there on. The inductive invariant adds to the properties where `pc` may be for each attempt and length of `calls` (the loop counter and the calls keep step), that the plan is sound with respect to the request (needs and quality, fallback chain included), and that the last call was made from the plan in hand. It is needed because `PlannedModelsFit` speaks of the calls already made, and the next call comes from a plan that comes from a plan. The two logs have their own invariants on top of it. The ledger's (`LedgerInv`): how the latest call went is known at each place of recording it, and its entry is the only one that can be missing. The trace's (`TraceInv`): permissions, outcomes and the end are counted up to each position of the log (`Logged`), a permission ahead of its call is for the plan in hand, and no entry of the end is there before the end.
- `RiskBudgetProofs`: everything the run checks. The strengthening ties each file handle to the place of its process, says that a verdict in `session` is that of its state, and that, while `alone` holds, at most one call is in flight and what it holds continues the session.
- `AdaptiveExecutorProofs`: everything the run checks. `NoWorkRepeated` needs a counting argument: each start of a job gives each of its units one ticket, held by the plan being executed, the agent's call or the checkpoint, and used by an execution; executions and tickets together never exceed starts. The other parts say what is known of a plan in hand (completed units were executed; a job alone has nothing in the checkpoint but its own) and that a finishing plan has nothing pending. `FittingPlanFinishes` needs that what is left pays for what is pending and for the margin, whatever the mock provider has answered so far (`PaidFor`); each unit executed moves its cost from one side to the other, by the laws of sums below.
- `DecisionAndHistoryProofs`: everything the two runs check. For `UsageDecision` the invariant says that the reading and the answer on its way were both the true level no longer ago than their ages say; the rest follows from the decision table by cases. For `TaskHistory` there is one for each kind of reader. `Account` balances calls against lines: what ended is still to be appended, or read, or was lost, and a line without its end is one failure that can cost two events, paid for before the second is lost; `LossIsReported` alone is not inductive, because a log does not show that its last line is about to be spoilt. `Faithful` says that each event, in a draft or in the log, has the mode and the outcome that its own reading leads to; `ReportsAgree` then compares sets of events. `Reported` says that each record has derived its percentages from the budget it holds, which reporting it again cannot change; `CalibrationIsTrue` then is a fact about integer division. `FoldsAreChronological` holds of any finite log with time stamps: ranks are a bijection between events and numbers (an injection into as many numbers), places in folds another (`Places`, division by the size of a fold), and counting goes through a bijection (`Carried`).
- `LoopWatchProofs`: the safety properties, each from its own strengthening: no count anywhere, in the file or in hand, exceeds the attempts (`CountsWereTried`); the only record in flight has read what the last one wrote (`OneRecord`); the document in the file has an author who is not about to replace it and, if stopped, counted its threshold there (`HasAuthor`).
- `SnapshotsProofs`: everything the run checks, and types. Stash objects are only added, so a sound snapshot goes on naming the tree it was made of (`SoundSnapshotsKeep`); without overlap the create in flight began after every id that was given (`InOrder`). Every snapshot that is not listed, or whose only line the next append will spoil, was paid for by a cut, and so is the next one while the file ends in a cut line (`CutsCover`).
- `SpendLedgerProofs`: everything the run checks, and types. While no two commands made the marker at one time there is at most one maker (`OneMaker`), and a marker it has emptied is not a session that has begun. Each cut line hides at most one verdict, and while it waits at the end of the log it has hidden none: the calls and the verdicts in hand without an entry, and a torn audit log, together are no more than the cuts (`HiddenWereCut`, which counts agents, hence their finiteness). For `SpendIsBounded` each window is looked at with what every agent may yet add to it, its claim: a claim is made only by an agent that saw room for it, in a ledger from which nothing is ever taken, so the ledger without the latest claims was within the limit (`ClaimsAreCovered`, for every window that a marker on the disk or in a hand can begin; with `NothingIsLater` about the clock and `OneMaker`).
- `FailureMemoryProofs`: everything the run checks. What is in the file or in any hand was begun (`NothingInvented`, over all hands); while `alone` holds at most one command is in flight and what it holds is what the memory will be when it returns (`RemembersAll`); and a recorded cause was reported under its signature, so that it has a record there and finding it follows from the definition of similarity (`KnownFailureIsFound`).

Sums and ranks are counted over finite sets. The library's induction theorems take
an operator, which TLAPS's provers cannot instantiate, so the laws of sums
(`MapThenSumSet`) are proved from a smallest set that would break them, which
well-foundedness of inclusion on finite sets provides.

Only model-checked: the liveness properties `RunEnds` and `RetriesEnd`, and the fairness
half of `ImplementsBoundedRun` (its safety half is `RunIsBounded`): liveness under fairness is out of reach of
TLAPS as used here.

## Not modelled

Text and float heuristics (task classification, complexity, token estimates), the
float statistics over recorded events (means, RMSE, medians, durations, figures by task type,
duplicates), benchmarks and scripts, command-line parsing and rendering, what a redaction or
category pattern matches, and the TypeScript client, which spawns the command
line. They keep no state that another part depends on; their results
are inputs of the models. Floating-point rounding is left out: money and
percentages are integers. Byte-level interleaving of two appends to one log is left out:
an append is one write of less than a buffer.

## Plan

Done: `ModelRouting`, `GoldenBoyRun` and its abstraction; `RiskBudget`;
`AdaptiveExecutor`; `UsageDecision`; `LoopWatch`; `Snapshots`; `SpendLedger`; `FailureMemory`; `TaskHistory`; their
proofs. Left, most important first:

1. The output budget of `token_optimizer` and the merge of `models.json` into the catalogue, as operators `GoldenBoyRun` uses.
2. `export`, and the commands that only read (`heartbeat`, `loop`, `risk`, `trace`), beside the components they read.
