----------------------------- MODULE RiskBudget -----------------------------
(***************************************************************************)
(* RiskBudgetEngine (core/risk_budget.py): the risk a session has spent,   *)
(* kept in .goldenboy/risk_budget_state.json.  Every "goldenboy risk ..."   *)
(* command is a process of its own and nothing locks the file, so a record *)
(* is the steps another process can come between: read, open for writing   *)
(* (which empties the file), write.                                        *)
(***************************************************************************)
EXTENDS Integers, Sequences

CONSTANTS Procs,
          Operations, Weights,       \* operation_weights
          UnknownWeight,             \* the weight of an operation that has none
          Repeats,                   \* repeat_count values callers pass
          Penalty, Initial, ApprovalThreshold, DenyThreshold,
          Absent, Empty, Torn,       \* no file; an empty one; one that is not JSON
          MaxRecords                 \* bound on the records of a session

ASSUME ConfigAssumption ==           \* RiskBudgetConfig.__post_init__
    /\ Weights \in [Operations -> Nat] /\ UnknownWeight \in Nat /\ Penalty \in Nat
    /\ Repeats \subseteq Nat \ {0}
    /\ Initial \in Nat \ {0} /\ DenyThreshold \in Nat /\ ApprovalThreshold \in Nat
    /\ DenyThreshold < ApprovalThreshold /\ ApprovalThreshold <= Initial
    /\ MaxRecords \in Nat

State == [remaining : Nat, total : Nat, operations : Nat]

ASSUME FileAssumption ==
    /\ Absent \notin State /\ Empty \notin State /\ Torn \notin State
    /\ Absent # Empty /\ Absent # Torn /\ Empty # Torn

VARIABLES file,
          pc,        \* Procs -> "idle", "raised" (its last call did), "save" (has read),
                     \*          "write" (has emptied the file)
          held,      \* Procs -> the state it is about to write
          weight,    \* Procs -> the weight of the operation it records
          handle,    \* Procs -> "open" on the file, or on one that was since "removed"
          session,   \* history: the records that returned since the last reset
          alone      \* history: since a reset no two calls have overlapped

vars == <<file, pc, held, weight, handle, session, alone>>

locals == <<held, weight, handle>>

Unreadable == {Empty, Torn}

Fresh == [remaining |-> Initial, total |-> 0, operations |-> 0]

(* _load, when it does not raise. *)
Loaded_InMemory == Fresh

Loaded == IF file = Absent THEN Fresh ELSE file

Weight(operation, repeat) ==
    (IF operation \in Operations THEN Weights[operation] ELSE UnknownWeight)
        + Penalty * (repeat - 1)

Less(n, w) == IF w <= n THEN n - w ELSE 0

Recorded_Refund(state, w) ==
    [remaining |-> Initial - w, total |-> state.total + w, operations |-> state.operations + 1]

Recorded(state, w) ==
    [remaining |-> Less(state.remaining, w),
     total |-> state.total + w,
     operations |-> state.operations + 1]

Verdict_DenyOnce(state) ==
    IF state.remaining = DenyThreshold THEN "DENY"
    ELSE IF state.remaining <= ApprovalThreshold THEN "REQUIRE_APPROVAL"
    ELSE "ALLOW"

Verdict(state) ==
    IF state.remaining <= DenyThreshold THEN "DENY"
    ELSE IF state.remaining <= ApprovalThreshold THEN "REQUIRE_APPROVAL"
    ELSE "ALLOW"

Between(p) == pc[p] \in {"idle", "raised"}

OthersIdle(p) == \A q \in Procs \ {p} : Between(q)

(* What a call knows is gone when it ends. *)
Ends(p, outcome) ==
    /\ pc' = [pc EXCEPT ![p] = outcome]
    /\ held' = [held EXCEPT ![p] = Fresh]
    /\ weight' = [weight EXCEPT ![p] = 0]
    /\ handle' = [handle EXCEPT ![p] = "closed"]

-----------------------------------------------------------------------------
Init == /\ file = Absent
        /\ pc = [p \in Procs |-> "idle"]
        /\ held = [p \in Procs |-> Fresh]
        /\ weight = [p \in Procs |-> 0]
        /\ handle = [p \in Procs |-> "closed"]
        /\ session = <<>>
        /\ alone = TRUE

(* record() up to _save: the weight is taken off what the file says now.   *)
Load(p) ==
    /\ Between(p) /\ file \notin Unreadable
    /\ Len(session) < MaxRecords /\ Loaded.operations < MaxRecords
    /\ \E operation \in Operations \cup {"unknown"}, repeat \in Repeats :
          /\ weight' = [weight EXCEPT ![p] = Weight(operation, repeat)]
          /\ held' = [held EXCEPT ![p] = Recorded(Loaded, Weight(operation, repeat))]
    /\ pc' = [pc EXCEPT ![p] = "save"]
    /\ alone' = (alone /\ OthersIdle(p))
    /\ UNCHANGED <<file, handle, session>>

LoadFails_StartsFresh(p) ==
    /\ Between(p) /\ file \in Unreadable
    /\ held' = [held EXCEPT ![p] = Recorded(Fresh, UnknownWeight)]
    /\ weight' = [weight EXCEPT ![p] = UnknownWeight]
    /\ pc' = [pc EXCEPT ![p] = "save"]
    /\ UNCHANGED <<file, handle, session, alone>>

(* An empty or torn file raises RiskBudgetError: there is no verdict.      *)
LoadFails(p) ==
    /\ Between(p) /\ file \in Unreadable
    /\ pc' = [pc EXCEPT ![p] = "raised"]
    /\ UNCHANGED <<file, locals, session, alone>>

(* open(state_file, "w") *)
Truncate(p) ==
    /\ pc[p] = "save"
    /\ file' = Empty
    /\ handle' = [handle EXCEPT ![p] = "open"]
    /\ pc' = [pc EXCEPT ![p] = "write"]
    /\ UNCHANGED <<held, weight, session, alone>>

(* What the file holds once p's document is written at its start: over a   *)
(* document somebody else wrote meanwhile, the end of a longer one stays.  *)
Written(p) ==
    IF handle[p] = "removed" THEN {file}
    ELSE IF file = Empty THEN {held[p]}
    ELSE {held[p], Torn}

(* The file is closed and record() returns. *)
Write(p) ==
    /\ pc[p] = "write"
    /\ file' \in Written(p)
    /\ session' = Append(session, [weight |-> weight[p], state |-> held[p],
                                   verdict |-> Verdict(held[p])])
    /\ Ends(p, "idle")
    /\ UNCHANGED alone

(* reset() removes the file, also from under a process that has it open.   *)
Reset(p) ==
    /\ Between(p)
    /\ file' = Absent
    /\ handle' = [q \in Procs |-> IF handle[q] = "open" THEN "removed" ELSE handle[q]]
    /\ pc' = [pc EXCEPT ![p] = "idle"]
    /\ session' = <<>>
    /\ alone' = OthersIdle(p)
    /\ UNCHANGED <<held, weight>>

(* The process is killed, or its write raises.  The document is smaller    *)
(* than a buffer: nothing of it is in the file before the close.           *)
Crash(p) ==
    /\ ~Between(p)
    /\ Ends(p, "raised")
    /\ UNCHANGED <<file, session, alone>>

Next == \E p \in Procs : \/ Load(p) \/ LoadFails(p) \/ Truncate(p) \/ Write(p)
                         \/ Reset(p) \/ Crash(p)

Spec == Init /\ [][Next]_vars

-----------------------------------------------------------------------------
Verdicts == {"ALLOW", "REQUIRE_APPROVAL", "DENY"}

Record == [weight : Nat, state : State, verdict : Verdicts]

(* Every variable has its type. *)
TypeOK ==
    /\ file \in State \cup {Absent, Empty, Torn}
    /\ pc \in [Procs -> {"idle", "raised", "save", "write"}]
    /\ held \in [Procs -> State]
    /\ weight \in [Procs -> Nat]
    /\ handle \in [Procs -> {"closed", "open", "removed"}]
    /\ session \in Seq(Record)
    /\ alone \in BOOLEAN

(* However calls overlap, crash or reset, a document that can be read, and *)
(* one about to be written, are an account: what is left is the initial    *)
(* budget less what was deducted, and never below zero.                    *)
Balanced(state) ==
    \/ state.total <= Initial /\ state.remaining = Initial - state.total
    \/ state.total > Initial /\ state.remaining = 0

DocumentsBalance ==
    /\ file \in State => Balanced(file)
    /\ \A p \in Procs : Balanced(held[p])

(* As long as no two calls overlap, no operation is lost and none counted  *)
(* twice: each record continues from the one before it since the reset,    *)
(* and the file holds the last of them unless a crash has emptied it.      *)
Before(i) == IF i = 1 THEN Fresh ELSE session[i - 1].state

SessionAccounted ==
    alone => /\ \A i \in 1..Len(session) : session[i].state = Recorded(Before(i), session[i].weight)
             /\ file \notin Unreadable => Loaded = Before(Len(session) + 1)
             /\ file # Torn

(* risk_budget.py:18-23: permissions tighten as risk accumulates and never *)
(* loosen on their own.  It holds while calls do not overlap.              *)
Rank == [verdict \in Verdicts |->
            IF verdict = "ALLOW" THEN 0 ELSE IF verdict = "REQUIRE_APPROVAL" THEN 1 ELSE 2]

Tightens ==
    \A i \in 1..Len(session) - 1 :
        /\ session[i + 1].state.remaining <= session[i].state.remaining
        /\ Rank[session[i].verdict] <= Rank[session[i + 1].verdict]

PermissionsTighten == alone => Tightens

(* Once the calls in flight have ended with the state file unreadable, no  *)
(* later call gets as far as a verdict or writes a budget back: only       *)
(* reset() does away with the file.                                        *)
AllBetween == \A p \in Procs : Between(p)

UnreadableStaysClosed ==
    [][(file \in Unreadable /\ AllBetween) => (file' \in {file, Absent} /\ AllBetween')]_vars
=============================================================================
