---------------------------- MODULE SpendLedger ----------------------------
(***************************************************************************)
(* The spending ledger (core/spending.py, `goldenboy spend`), the policy   *)
(* check that is told what it says (core/governance.py, `goldenboy         *)
(* policy --audit`), composed as README.md:304-339 recommends: an agent    *)
(* asks for the total of its window, has a request checked against it,     *)
(* makes the call, records what it cost, and asks again.  Every command is *)
(* a process of its own and nothing locks the files of .goldenboy.         *)
(***************************************************************************)
EXTENDS Integers, FiniteSets, FiniteSetsExt

CONSTANTS Agents, Requests,
          Permission, Risk, Scope,  \* Requests -> "pass", "approve" or "deny": one check each
          Estimate,                 \* Requests -> the tokens a call is estimated at
          Actuals,                  \* what a call may turn out to cost
          Limit,                    \* session_ or day_budget_limit, and --budget-limit
          ActionThreshold,          \* max_single_action_cost
          MaxCalls,                 \* max_calls_per_session_per_tool
          Absent, Empty, NotMeasured,
          MaxMarkers, MaxCrashes, MaxDays    \* bounds

Stamps == Nat \ {0}

Costs == Actuals \cup {Estimate[r] : r \in Requests}

ASSUME LedgerAssumption ==
    /\ IsFiniteSet(Agents)
    /\ \A check \in {Permission, Risk, Scope} : check \in [Requests -> {"pass", "approve", "deny"}]
    /\ Estimate \in [Requests -> Nat \ {0}] /\ Actuals \subseteq Nat
    /\ IsFiniteSet(Costs) /\ Costs # {}
    /\ Limit \in Nat \ {0} /\ ActionThreshold \in Nat /\ MaxCalls \in Nat
    /\ Absent \notin Nat /\ Empty \notin Nat /\ Absent # Empty /\ NotMeasured \notin Nat
    /\ MaxMarkers \in Nat /\ MaxCrashes \in Nat /\ MaxDays \in Nat

VARIABLES window,    \* --window of every command: "session" or "daily"
          policy,    \* .goldenboy/policy.json: "present", "absent" or "broken"
          ledger,    \* spending.jsonl: the entries a load finds
          marker,    \* session_start: Absent, Empty or a time stamp
          torn,      \* the logs that end in a line cut short
          clock, today,
          pc, purpose, \* of the command an agent is running
          seen,      \* Agents -> the entries it loaded, then those in its window
          stamp,     \* Agents -> the time it is about to write into the marker
          entry,     \* Agents -> the entry it is about to append
          traced,    \* Agents -> the verdict it acts on is in what a load of audit.jsonl finds
          calls,     \* Agents -> session_calls_for_tool, which it counts itself
          markers, crashes,
          cuts,      \* history: the appends that were cut short
          untraced,  \* history: the calls made on a verdict that a load does not find
          raced      \* history: two commands were making a marker at one time

files == <<ledger, marker, torn>>
locals == <<pc, purpose, seen, stamp, entry, traced, calls>>
bounds == <<markers, crashes, cuts>>
work == <<traced, calls, untraced>>
fixed == <<window, policy>>

vars == <<fixed, files, clock, today, locals, bounds, untraced, raced>>

Entries == [at : Stamps, day : Nat, tokens : Nat, granted : BOOLEAN]

Drafts == [at : Nat, day : Nat, tokens : Nat, granted : BOOLEAN]    \* not stamped yet

(* committed_tokens counts what was measured, and the estimate until then. *)
Committed(r, actual) == IF actual = NotMeasured THEN Estimate[r] ELSE actual

Total(entries) == MapThenSumSet(LAMBDA e : e.tokens, entries)

(* summarize: over_limit *)
OverLimit(entries) == Total(entries) > Limit

-----------------------------------------------------------------------------
(* PolicyEngine.evaluate.  Without a policy file the defaults list no tool *)
(* and cap neither the session nor the day.                                *)
PermissionVerdict(r) == IF policy = "present" THEN Permission[r] ELSE "pass"

BudgetVerdict_IgnoresSpent(r, spent, made) ==
    IF \/ made >= MaxCalls
       \/ policy = "present" /\ Estimate[r] > Limit THEN "deny"
    ELSE IF Estimate[r] > ActionThreshold THEN "approve" ELSE "pass"

BudgetVerdict(r, spent, made) ==
    IF \/ made >= MaxCalls
       \/ policy = "present" /\ spent + Estimate[r] > Limit THEN "deny"
    ELSE IF Estimate[r] > ActionThreshold THEN "approve" ELSE "pass"

(* The first check that objects answers; the later ones are not made.      *)
Verdict(r, spent, made) ==
    LET objections == <<PermissionVerdict(r), BudgetVerdict(r, spent, made), Risk[r], Scope[r]>>
        objecting == {i \in 1..4 : objections[i] # "pass"}
    IN  IF objecting = {} THEN "pass"
        ELSE objections[CHOOSE i \in objecting : \A j \in objecting : i <= j]

-----------------------------------------------------------------------------
Init == /\ window \in {"session", "daily"}
        /\ policy \in {"present", "absent", "broken"}
        /\ ledger = {} /\ marker = Absent
        /\ torn = {}
        /\ clock = 0 /\ today = 0
        /\ pc = [a \in Agents |-> "idle"]
        /\ purpose = [a \in Agents |-> "status"]
        /\ seen = [a \in Agents |-> {}]
        /\ stamp = [a \in Agents |-> 0]
        /\ entry = [a \in Agents |-> NotMeasured]
        /\ traced = [a \in Agents |-> FALSE]
        /\ calls = [a \in Agents |-> 0]
        /\ markers = 0 /\ crashes = 0 /\ cuts = 0
        /\ untraced = 0
        /\ raced = FALSE

Between(a) == pc[a] \in {"idle", "stopped"}

MakesMarker(a) == pc[a] \in {"stamp", "truncate", "write"}

Goes(a, step) == pc' = [pc EXCEPT ![a] = step]

Forgets(a) == /\ purpose' = [purpose EXCEPT ![a] = "status"]
              /\ seen' = [seen EXCEPT ![a] = {}]
              /\ stamp' = [stamp EXCEPT ![a] = 0]
              /\ entry' = [entry EXCEPT ![a] = NotMeasured]
              /\ traced' = [traced EXCEPT ![a] = FALSE]

-----------------------------------------------------------------------------
(* `spend status`, and `spend record` once it has appended: the log is     *)
(* read before the marker is.                                              *)
Load(a) ==
    /\ pc[a] \in {"idle", "load"}
    /\ purpose' = [purpose EXCEPT ![a] = IF pc[a] = "load" THEN "record" ELSE "status"]
    /\ seen' = [seen EXCEPT ![a] = ledger]
    /\ Goes(a, "window")
    /\ UNCHANGED <<fixed, files, clock, today, stamp, entry, work, bounds, raced>>

InWindow(e, since) == IF window = "session" THEN e.at >= since ELSE e.day = today

(* filter_since or filter_today, summarize, and the end of the command:    *)
(* the total of a status goes into the next request, a record that finds   *)
(* the window over its limit exits with 1 and the agent stops.             *)
Concludes(a, since) ==
    LET inWindow == {e \in seen[a] : InWindow(e, since)}
    IN  /\ \/ purpose[a] = "status" /\ Goes(a, "policy")
           \/ purpose[a] = "record" /\ Goes(a, IF OverLimit(inWindow) THEN "stopped" ELSE "idle")
           \/ purpose[a] = "reset" /\ Goes(a, "idle")
        /\ seen' = [seen EXCEPT ![a] = IF purpose[a] = "status" THEN inWindow ELSE {}]
        /\ purpose' = [purpose EXCEPT ![a] = "status"]

(* SessionMarker.get_or_create: a marker that holds something is taken as  *)
(* it is, and a daily window needs none.                                   *)
ReadMarker(a) ==
    /\ pc[a] = "window" /\ (window = "session" => marker \in Stamps)
    /\ Concludes(a, marker)
    /\ UNCHANGED <<fixed, files, clock, today, stamp, entry, work, bounds, raced>>

MarkerMissing_Always == TRUE

MarkerMissing == marker \in {Absent, Empty}

Races(a) == \E b \in Agents \ {a} : MakesMarker(b)

(* Who finds the marker empty makes one, and empties it for the next to    *)
(* find: commands that overlap may go on like that for ever.               *)
BeginsMarker(a) == /\ markers < MaxMarkers
                   /\ markers' = markers + 1
                   /\ Goes(a, "stamp")
                   /\ raced' = (raced \/ Races(a))

NeedsMarker(a) ==
    /\ pc[a] = "window" /\ window = "session" /\ MarkerMissing
    /\ BeginsMarker(a)
    /\ UNCHANGED <<fixed, files, clock, today, purpose, seen, stamp, entry, work, crashes, cuts>>

(* `spend reset-session` *)
ResetSession(a) ==
    /\ pc[a] = "idle" /\ window = "session"
    /\ purpose' = [purpose EXCEPT ![a] = "reset"]
    /\ BeginsMarker(a)
    /\ UNCHANGED <<fixed, files, clock, today, seen, stamp, entry, work, crashes, cuts>>

(* SessionMarker.reset: the time is read, the file emptied, the time       *)
(* written.                                                                *)
StampMarker(a) ==
    /\ pc[a] = "stamp"
    /\ clock' = clock + 1
    /\ stamp' = [stamp EXCEPT ![a] = clock']
    /\ Goes(a, "truncate")
    /\ UNCHANGED <<fixed, files, today, purpose, seen, entry, work, bounds, raced>>

TruncateMarker(a) ==
    /\ pc[a] = "truncate"
    /\ marker' = Empty
    /\ Goes(a, "write")
    /\ UNCHANGED <<fixed, ledger, torn, clock, today, purpose, seen, stamp, entry, work, bounds,
                   raced>>

WriteMarker(a) ==
    /\ pc[a] = "write"
    /\ marker' = stamp[a]
    /\ stamp' = [stamp EXCEPT ![a] = 0]
    /\ Concludes(a, stamp[a])
    /\ UNCHANGED <<fixed, ledger, torn, clock, today, entry, work, bounds, raced>>

-----------------------------------------------------------------------------
(* AuditStore.record, in PolicyEngine._record: a line that joins one cut   *)
(* short is lost to load_events and to trace.                              *)
Audits_NoNewline(a) ==
    /\ torn' = torn \cup {"audit"}
    /\ traced' = [traced EXCEPT ![a] = "audit" \notin torn]

Audits(a) ==
    /\ torn' = torn \ {"audit"}
    /\ traced' = [traced EXCEPT ![a] = "audit" \notin torn]

(* `policy`, told the total of the window and the calls the agent made.    *)
(* The verdict is recorded before it is given; what is held for approval   *)
(* a human may grant or refuse.  What a call will turn out to cost, or     *)
(* that nobody measures it, is settled here.                               *)
Evaluate(a) ==
    /\ pc[a] = "policy" /\ policy # "broken"
    /\ \E r \in Requests : LET verdict == Verdict(r, Total(seen[a]), calls[a]) IN
          \/ /\ verdict # "deny"
             /\ Audits(a) /\ Goes(a, "work")
             /\ \E actual \in Actuals \cup {NotMeasured} :
                   entry' = [entry EXCEPT ![a] =
                       [at |-> 0, day |-> 0, tokens |-> Committed(r, actual),
                        granted |-> verdict = "approve"]]
          \/ /\ verdict # "pass"
             /\ torn' = torn \ {"audit"} /\ Goes(a, "idle")
             /\ UNCHANGED <<entry, traced>>
    /\ seen' = [seen EXCEPT ![a] = {}]
    /\ UNCHANGED <<fixed, ledger, marker, clock, today, purpose, stamp, calls, bounds, untraced,
                   raced>>

(* PolicyConfig.load raises, and nothing is allowed.                       *)
PolicyFails(a) ==
    /\ pc[a] = "policy" /\ policy = "broken"
    /\ Goes(a, "idle")
    /\ seen' = [seen EXCEPT ![a] = {}]
    /\ UNCHANGED <<fixed, files, clock, today, purpose, stamp, entry, work, bounds, raced>>

(* The agent makes the call, and `spend record` creates the entry.         *)
Work(a) ==
    /\ pc[a] = "work"
    /\ clock' = clock + 1
    /\ entry' = [entry EXCEPT ![a].at = clock', ![a].day = today]
    /\ calls' = [calls EXCEPT ![a] = @ + 1]
    /\ untraced' = IF traced[a] THEN untraced ELSE untraced + 1
    /\ traced' = [traced EXCEPT ![a] = FALSE]
    /\ Goes(a, "append")
    /\ UNCHANGED <<fixed, files, today, purpose, seen, stamp, bounds, raced>>

AppendSpend(a) ==
    /\ pc[a] = "append"
    /\ ledger' = IF "spending" \in torn THEN ledger ELSE ledger \cup {entry[a]}
    /\ torn' = torn \ {"spending"}
    /\ entry' = [entry EXCEPT ![a] = NotMeasured]
    /\ Goes(a, "load")
    /\ UNCHANGED <<fixed, marker, clock, today, purpose, seen, stamp, work, bounds,
                   raced>>

-----------------------------------------------------------------------------
(* The command is killed or raises; what it had buffered is not written.   *)
Crash(a) ==
    /\ ~Between(a) /\ crashes < MaxCrashes
    /\ Goes(a, "idle") /\ Forgets(a)
    /\ crashes' = crashes + 1
    /\ UNCHANGED <<fixed, files, clock, today, calls, markers, cuts, untraced, raced>>

(* ... or in the middle of an append, of which the beginning is.           *)
CutShort(a) ==
    /\ pc[a] \in {"policy", "append"} /\ policy # "broken" /\ crashes < MaxCrashes
    /\ LET log == IF pc[a] = "policy" THEN "audit" ELSE "spending" IN
          /\ torn' = torn \cup {log}
    /\ Goes(a, "idle") /\ Forgets(a)
    /\ crashes' = crashes + 1 /\ cuts' = cuts + 1
    /\ UNCHANGED <<fixed, ledger, marker, clock, today, calls, markers, untraced, raced>>

(* A session does not look at the day. *)
NextDay == /\ window = "daily" /\ today < MaxDays
           /\ today' = today + 1
           /\ UNCHANGED <<fixed, files, clock, locals, bounds, untraced, raced>>

MakeMarker(a) == StampMarker(a) \/ TruncateMarker(a) \/ WriteMarker(a)

Next == \/ \E a \in Agents :
              \/ Load(a) \/ ReadMarker(a) \/ NeedsMarker(a) \/ ResetSession(a) \/ MakeMarker(a)
              \/ Evaluate(a) \/ PolicyFails(a) \/ Work(a) \/ AppendSpend(a)
              \/ Crash(a) \/ CutShort(a)
        \/ NextDay

Spec == Init /\ [][Next]_vars

-----------------------------------------------------------------------------
(* Every variable has its type, and what an agent is about to write is     *)
(* there when it writes it.                                                *)
TypeOK ==
    /\ window \in {"session", "daily"} /\ policy \in {"present", "absent", "broken"}
    /\ ledger \subseteq Entries /\ marker \in Stamps \cup {Absent, Empty}
    /\ torn \subseteq {"spending", "audit"}
    /\ clock \in Nat /\ today \in 0..MaxDays
    /\ pc \in [Agents -> {"idle", "load", "window", "stamp", "truncate", "write", "policy",
                          "work", "append", "stopped"}]
    /\ purpose \in [Agents -> {"status", "record", "reset"}]
    /\ seen \in [Agents -> SUBSET Entries]
    /\ stamp \in [Agents -> 0..clock]
    /\ \A a \in Agents : pc[a] \in {"truncate", "write"} => stamp[a] \in Stamps
    /\ entry \in [Agents -> Drafts \cup {NotMeasured}]
    /\ \A a \in Agents : /\ pc[a] = "work" => entry[a] \in Drafts
                         /\ pc[a] = "append" => entry[a] \in Entries
    /\ traced \in [Agents -> BOOLEAN] /\ calls \in [Agents -> Nat] /\ untraced \in Nat
    /\ markers \in 0..MaxMarkers /\ crashes \in 0..MaxCrashes /\ cuts \in 0..crashes
    /\ raced \in BOOLEAN

(* What one agent spends between asking for the total and recording its    *)
(* own the others do not see.  Still the ledger of a window goes over the  *)
(* limit by no more than one call of each agent, whatever the calls turn   *)
(* out to cost and however the commands interleave or die; calls a human   *)
(* granted are not counted, for an earlier objection hides what the budget *)
(* check would say.  It takes a policy file and, for a session, no two     *)
(* commands that made the marker at one time.                              *)
SpendIsBounded ==
    LET spent(entries) == Total({e \in entries : ~e.granted})
        bounded(entries) == spent(entries) < Limit + Cardinality(Agents) * Max(Costs)
    IN  policy = "present" =>
          IF window = "daily"
          THEN \A d \in 0..today : bounded({e \in ledger : e.day = d})
          ELSE ~raced /\ marker \in Stamps => bounded({e \in ledger : e.at >= marker})

(* A session that has begun ends by reset-session alone; the commands that *)
(* only ask when it began, among them those of agents that start together, *)
(* leave it.  Unless two of them made the marker at one time.              *)
SessionEndsByReset ==
    [][~raced /\ marker \in Stamps /\ marker' # marker =>
          \E a \in Agents : purpose[a] = "reset" /\ MakesMarker(a)]_vars

(* The verdict a call was made on is in the audit log, also when the       *)
(* command that asked died afterwards, and what others append later hides  *)
(* none: a line that was cut short costs the one after it and no other.    *)
CallsAreAudited == untraced <= cuts
=============================================================================
