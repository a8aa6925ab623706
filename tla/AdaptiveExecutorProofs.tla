----------------------- MODULE AdaptiveExecutorProofs -----------------------
(***************************************************************************)
(* What AdaptiveExecutor guarantees for any plans, costs and budgets.  The *)
(* argument that no work is repeated counts tickets: starting a job grants *)
(* each of its units one execution, which the plan in hand, the checkpoint *)
(* or a call in progress holds until it is used (Tickets).  That deferred  *)
(* work is kept needs that nothing is known of a job that never started    *)
(* (Known) and that nothing completed is still owed (NotOwed).  That a     *)
(* plan which fits is finished needs that what is left always pays for     *)
(* what is pending (PaidFor), and so the laws of sums over finite sets.    *)
(***************************************************************************)
EXTENDS AdaptiveExecutor, FiniteSetTheorems, FunctionTheorems, WellFoundedInduction, TLAPS

DocumentOf(j) == IsDocument(checkpoint) /\ checkpoint.job = j

Decided == pc = "finishing" => Having(status, "pending") = {}

Claims ==
    /\ CompletedWasExecuted
    /\ \A u \in Having(status, "completed") : executed[u] > 0

(* The execution of u that the plan in hand, or else the checkpoint, holds. *)
Ticket(j, u) ==
    IF job = j THEN IF status[u] = "completed" THEN 0 ELSE 1
    ELSE IF DocumentOf(j) /\ checkpoint.status[u] = "deferred" THEN 1 ELSE 0

CallTicket(j) == IF call = j THEN 1 ELSE 0

Tickets ==
    \A j \in Jobs \ crashed : \A u \in UnitsOf(j) :
        executed[u] + Ticket(j, u) + CallTicket(j) <= started[j]

Known ==
    /\ \A j \in Jobs : job = j \/ call = j \/ DocumentOf(j) => started[j] > 0
    /\ \A u \in owed : \E j \in Jobs : u \in UnitsOf(j) /\ started[j] > 0

NotOwed ==
    /\ Having(status, "completed") \cap owed = {}
    /\ IsDocument(checkpoint) => Having(checkpoint.status, "completed") \cap owed = {}

Kept == \A t \in Tasks : Alone(t) => NotOwed /\ (checkpoint = Corrupt \/ owed \subseteq Deferred)

Inv == /\ TypeOK /\ CheckpointIsResumable /\ Decided /\ Claims /\ Tickets
       /\ Known /\ Kept

-----------------------------------------------------------------------------
(* The units of different jobs differ, and a call has exactly one.         *)
LEMMA PlanFacts ==
    /\ \A j \in Jobs : UnitsOf(j) \subseteq Units
    /\ \A c \in Calls : c \in Jobs /\ c \notin Tasks /\ UnitsOf(c) = {UnitOf(c)}
    /\ \A t \in Tasks : t \in Jobs
    /\ None \notin Jobs
    /\ \A j1, j2 \in Jobs : \A u \in UnitsOf(j1) : u \in UnitsOf(j2) => j1 = j2
  <1>1. \A j \in Jobs : UnitsOf(j) \subseteq Units
    BY PlanAssumption DEF UnitsOf, ToSet
  <1>2. ASSUME NEW c \in Calls PROVE c \in Jobs /\ c \notin Tasks /\ UnitsOf(c) = {UnitOf(c)}
    <2>1. c \in Jobs /\ c \notin Tasks /\ Plan[c] \in Seq(Units) /\ Len(Plan[c]) = 1
      BY PlanAssumption DEF Jobs
    <2>2. DOMAIN Plan[c] = {1}
      BY <2>1
    <2> QED
      BY <2>1, <2>2 DEF UnitsOf, ToSet, UnitOf
  <1>3. \A j1, j2 \in Jobs : \A u \in UnitsOf(j1) : u \in UnitsOf(j2) => j1 = j2
    BY PlanAssumption
  <1> QED
    BY <1>1, <1>2, <1>3, PlanAssumption DEF Jobs

(* What a checkpoint that can be read consists of. *)
LEMMA DocumentType ==
    ASSUME TypeOK, IsDocument(checkpoint)
    PROVE  /\ checkpoint.job \in Jobs /\ checkpoint.mode \in Modes
           /\ checkpoint.status \in [UnitsOf(checkpoint.job) -> Statuses]
  BY DEF TypeOK, IsDocument, Documents

(* What is saved is a document. *)
LEMMA SavedType ==
    ASSUME NEW j \in Jobs, NEW m \in Modes, NEW statuses \in [UnitsOf(j) -> Statuses]
    PROVE  /\ Saved(j, m, statuses) \in Documents /\ IsDocument(Saved(j, m, statuses))
           /\ Saved(j, m, statuses).job = j /\ Saved(j, m, statuses).status = statuses
  <1>1. Saved(j, m, statuses) \in [job : {j}, mode : Modes, status : [UnitsOf(j) -> Statuses]]
    BY DEF Saved
  <1>2. Saved(j, m, statuses) \in Documents
    BY <1>1 DEF Documents
  <1> QED
    BY <1>2, FileAssumption DEF Saved, IsDocument

(* Every assessment is one of the four modes. *)
LEMMA ModeType == \A p, r, stale : Mode(p, r, stale) \in Modes
  BY DEF Mode, Modes

(* Adapting a plan defers some of what is pending and nothing else.        *)
LEMMA AdaptedType ==
    ASSUME NEW S, NEW statuses \in [S -> Statuses], NEW m
    PROVE  /\ Adapted(statuses, m) \in [S -> Statuses]
           /\ \A u \in S : /\ (Adapted(statuses, m)[u] = "completed") <=> (statuses[u] = "completed")
  BY DEF Adapted, Statuses

(* Resuming makes pending what was deferred and keeps what was completed.  *)
LEMMA ResumedType ==
    ASSUME NEW S, NEW statuses \in [S -> Statuses]
    PROVE  /\ ResumedPlan(statuses) \in [S -> Statuses]
           /\ \A u \in S : (ResumedPlan(statuses)[u] = "completed") <=> (statuses[u] = "completed")
  BY DEF ResumedPlan, Statuses

(* The graceful stop decides everything without completing anything.       *)
LEMMA AfterUnitType ==
    ASSUME NEW S, NEW statuses \in [S -> Statuses], NEW percentage
    PROVE  /\ AfterUnit(statuses, percentage) \in [S -> Statuses]
           /\ \A u \in S : (AfterUnit(statuses, percentage)[u] = "completed")
                               <=> (statuses[u] = "completed")
           /\ Exhausted(percentage) => Having(AfterUnit(statuses, percentage), "pending") = {}
  BY DEF AfterUnit, Statuses, Having

(* Spending what one can afford leaves a percentage. *)
LEMMA SpendingType ==
    ASSUME NEW p \in 0..100, NEW u \in Units, Affords(p, u)
    PROVE  p - ChargeOf(u) \in 0..100
  BY CostAssumption DEF Affords, ChargeOf

-----------------------------------------------------------------------------
(* The invariant holds before anything ran. *)
LEMMA InitInv == Init => Inv
  <1> SUFFICES ASSUME Init PROVE Inv
    OBVIOUS
  <1> USE DEF Init
  <1>1. ~IsDocument(checkpoint) /\ \A s : Having(status, s) = {}
    BY DEF IsDocument, Having
  <1>2. TypeOK
    BY PlanFacts DEF TypeOK, Modes
  <1>3. CheckpointIsResumable /\ Decided /\ Claims
    BY <1>1 DEF CheckpointIsResumable, Decided, Claims, CompletedWasExecuted
  <1>4. Tickets
    BY <1>1, PlanFacts DEF Tickets, Ticket, CallTicket, DocumentOf
  <1>5. Known
    BY <1>1, PlanFacts DEF Known, DocumentOf
  <1>6. Kept
    BY <1>1 DEF Kept, NotOwed, Deferred
  <1> QED
    BY <1>2, <1>3, <1>4, <1>5, <1>6 DEF Inv

-----------------------------------------------------------------------------
(* Ticket counts are small numbers. *)
LEMMA TicketType ==
    \A j, u : Ticket(j, u) \in {0, 1} /\ CallTicket(j) \in {0, 1}
  BY DEF Ticket, CallTicket

(* execute() starts from an idle command line with a plan of the job's     *)
(* units, completing none; nothing pending is left once it is finishing.   *)
LEMMA ExecuteType ==
    ASSUME TypeOK, NEW j \in Jobs, NEW statuses \in [UnitsOf(j) -> Statuses], Execute(j, statuses)
    PROVE  /\ pc = "idle" /\ job = None /\ status = <<>>
           /\ pc' \in {"executing", "finishing"} /\ job' = j
           /\ status' \in [UnitsOf(j) -> Statuses]
           /\ \A u \in UnitsOf(j) : (status'[u] = "completed") <=> (statuses[u] = "completed")
           /\ mode' \in Modes /\ remaining' \in 0..100 /\ commands' \in Nat
           /\ Decided'
  <1>1. pc = "idle" /\ job = None /\ status = <<>>
    BY DEF Execute, TypeOK
  <1>2. status' = Adapted(statuses, mode') /\ mode' \in Modes
    BY ModeType DEF Execute
  <1>3. /\ status' \in [UnitsOf(j) -> Statuses]
        /\ \A u \in UnitsOf(j) : (status'[u] = "completed") <=> (statuses[u] = "completed")
    BY <1>2, AdaptedType
  <1>4. pc' \in {"executing", "finishing"} /\ job' = j /\ Decided'
    BY DEF Execute, Decided
  <1>5. remaining' \in 0..100 /\ commands' \in Nat
    BY CostAssumption DEF Execute, TypeOK
  <1> QED
    BY <1>1, <1>2, <1>3, <1>4, <1>5

(* A fresh plan is granted its tickets, and nothing in it is completed.    *)
LEMMA RunInv ==
    ASSUME Inv, NEW t \in Tasks, Run(t)
    PROVE  Inv'
  <1> USE DEF Inv
  <1>1. t \in Jobs /\ FreshPlan(t) \in [UnitsOf(t) -> Statuses] /\ Execute(t, FreshPlan(t))
    BY PlanFacts DEF FreshPlan, Statuses, Run
  <1>2. /\ pc = "idle" /\ job = None /\ status = <<>>
        /\ pc' \in {"executing", "finishing"} /\ job' = t
        /\ status' \in [UnitsOf(t) -> Statuses]
        /\ \A u \in UnitsOf(t) : (status'[u] = "completed") <=> (FreshPlan(t)[u] = "completed")
        /\ mode' \in Modes /\ remaining' \in 0..100 /\ commands' \in Nat
        /\ Decided'
    BY <1>1, ExecuteType
  <1>3. Having(status', "completed") = {}
    BY <1>2 DEF Having, FreshPlan
  <1>4. /\ UNCHANGED <<checkpoint, call, agent, callMode, executed, owed, crashed>>
        /\ started' = [started EXCEPT ![t] = @ + 1]
    BY DEF Run, decorated
  <1>5. /\ started \in [Jobs -> Nat] /\ executed \in [Units -> Nat]
        /\ started' \in [Jobs -> Nat] /\ started'[t] = started[t] + 1
        /\ \A j \in Jobs : started'[j] >= started[j]
    BY <1>1, <1>4 DEF TypeOK
  <1>6. TypeOK'
    BY <1>1, <1>2, <1>4, <1>5 DEF TypeOK
  <1>7. CheckpointIsResumable'
    BY <1>4 DEF CheckpointIsResumable
  <1>8. Claims'
    BY <1>3, <1>4 DEF Claims, CompletedWasExecuted
  <1>9. Tickets'
    <2> SUFFICES ASSUME NEW j \in Jobs \ crashed, NEW u \in UnitsOf(j)
                 PROVE  executed[u] + Ticket(j, u)' + CallTicket(j)' <= started'[j]
      BY <1>4 DEF Tickets
    <2>1. executed[u] + Ticket(j, u) + CallTicket(j) <= started[j] /\ executed[u] \in Nat
      BY <1>5, PlanFacts DEF Tickets
    <2>2. CallTicket(j)' = CallTicket(j)
      BY <1>4 DEF CallTicket
    <2>3. CASE j = t
      <3>1. started'[j] = started[j] + 1 /\ started[j] \in Nat
        BY <2>3, <1>1, <1>5
      <3>2. Ticket(j, u) \in {0, 1} /\ CallTicket(j) \in {0, 1}
        BY TicketType
      <3>3. Ticket(j, u)' \in {0, 1}
        BY DEF Ticket
      <3> HIDE DEF Inv
      <3> QED
        BY <3>1, <3>2, <3>3, <2>1, <2>2
    <2>4. CASE j # t
      <3>1. Ticket(j, u)' = Ticket(j, u) /\ started'[j] = started[j]
        BY <2>4, <1>2, <1>4, <1>5, PlanFacts DEF Ticket, DocumentOf
      <3> QED
        BY <3>1, <2>1, <2>2
    <2> QED
      BY <2>3, <2>4
  <1>10. Known'
    BY <1>2, <1>4, <1>5 DEF Known, DocumentOf
  <1>11. Kept'
    <2>1. \A t2 \in Tasks : Alone(t2)' => Alone(t2)
      BY <1>5 DEF Alone
    <2>2. (NotOwed => NotOwed') /\ Deferred' = Deferred
      BY <1>3, <1>4 DEF NotOwed, Deferred
    <2> QED
      BY <2>1, <2>2, <1>4 DEF Kept
  <1> QED
    BY <1>2, <1>6, <1>7, <1>8, <1>9, <1>10, <1>11

(* A resumed plan holds the tickets its checkpoint held, and completes      *)
(* nothing the checkpoint did not.                                         *)
LEMMA ResumeInv ==
    ASSUME Inv, Resume
    PROVE  Inv'
  <1> USE DEF Inv
  <1> DEFINE j0 == checkpoint.job
             statuses == checkpoint.status
  <1>1. j0 \in Jobs /\ statuses \in [UnitsOf(j0) -> Statuses] /\ IsDocument(checkpoint)
    BY DocumentType DEF Resume
  <1>2. /\ ResumedPlan(statuses) \in [UnitsOf(j0) -> Statuses]
        /\ \A u \in UnitsOf(j0) : (ResumedPlan(statuses)[u] = "completed")
                                     <=> (statuses[u] = "completed")
        /\ Execute(j0, ResumedPlan(statuses))
    BY <1>1, ResumedType DEF Resume
  <1> HIDE DEF j0, statuses
  <1>3. /\ pc = "idle" /\ job = None /\ status = <<>>
        /\ pc' \in {"executing", "finishing"} /\ job' = j0
        /\ status' \in [UnitsOf(j0) -> Statuses]
        /\ \A u \in UnitsOf(j0) : (status'[u] = "completed") <=> (statuses[u] = "completed")
        /\ mode' \in Modes /\ remaining' \in 0..100 /\ commands' \in Nat
        /\ Decided'
    BY <1>1, <1>2, ExecuteType
  <1>4. UNCHANGED <<checkpoint, call, agent, callMode, started, executed, owed, crashed>>
    BY DEF Resume, decorated
  <1>5. Having(status', "completed") = Having(statuses, "completed")
    BY <1>1, <1>3 DEF Having
  <1>6. TypeOK'
    BY <1>1, <1>3, <1>4 DEF TypeOK
  <1>7. CheckpointIsResumable'
    BY <1>4 DEF CheckpointIsResumable
  <1>8. Claims'
    BY <1>1, <1>4, <1>5 DEF Claims, CompletedWasExecuted, statuses
  <1>9. Tickets'
    <2> SUFFICES ASSUME NEW j \in Jobs \ crashed, NEW u \in UnitsOf(j)
                 PROVE  executed[u] + Ticket(j, u)' + CallTicket(j)' <= started[j]
      BY <1>4 DEF Tickets
    <2>1. executed[u] + Ticket(j, u) + CallTicket(j) <= started[j]
      BY DEF Tickets
    <2>2. CallTicket(j)' = CallTicket(j)
      BY <1>4 DEF CallTicket
    <2>3. job # j
      BY <1>3, PlanFacts
    <2>4. CASE j = j0
      <3>1. statuses[u] \in {"completed", "deferred"}
        BY <1>1, <2>4 DEF CheckpointIsResumable, Having, Statuses, statuses
      <3>2. Ticket(j, u)' = Ticket(j, u)
        BY <3>1, <2>3, <2>4, <1>1, <1>3 DEF Ticket, DocumentOf, j0, statuses
      <3> QED
        BY <3>2, <2>1, <2>2
    <2>5. CASE j # j0
      <3>1. Ticket(j, u)' = Ticket(j, u)
        BY <2>3, <2>5, <1>3, <1>4 DEF Ticket, DocumentOf
      <3> QED
        BY <3>1, <2>1, <2>2
    <2> QED
      BY <2>4, <2>5
  <1>10. Known'
    BY <1>1, <1>3, <1>4 DEF Known, DocumentOf, j0
  <1>11. Kept'
    <2>1. \A t2 \in Tasks : Alone(t2)' => Alone(t2)
      BY <1>4 DEF Alone
    <2>2. (NotOwed => NotOwed') /\ Deferred' = Deferred
      BY <1>1, <1>4, <1>5 DEF NotOwed, Deferred, statuses
    <2> QED
      BY <2>1, <2>2, <1>4 DEF Kept
  <1> QED
    BY <1>3, <1>6, <1>7, <1>8, <1>9, <1>10, <1>11

(* Executing a unit uses its ticket and settles what is owed of it; a unit *)
(* that fails keeps both.                                                  *)
LEMMA ExecuteUnitInv ==
    ASSUME Inv, ExecuteUnit
    PROVE  Inv'
  <1> USE DEF Inv
  <1>1. PICK u \in UnitsOf(job) :
          /\ IsNext(u)
          /\ remaining' = IF Affords(remaining, u) THEN remaining - ChargeOf(u) ELSE 0
          /\ status' = AfterUnit([status EXCEPT ![u] = Outcome(Affords(remaining, u))], remaining')
          /\ executed' = [executed EXCEPT ![u] = IF Affords(remaining, u) THEN @ + 1 ELSE @]
          /\ owed' = IF Affords(remaining, u) THEN owed \ {u} ELSE owed
    BY DEF ExecuteUnit
  <1>2. /\ pc = "executing" /\ pc' \in {"executing", "finishing"}
        /\ pc' = "finishing" => Exhausted(remaining') \/ Having(status', "pending") = {}
        /\ UNCHANGED <<checkpoint, job, mode, call, agent, callMode, started, crashed, commands>>
    BY DEF ExecuteUnit, decorated
  <1>3. job \in Jobs /\ status \in [UnitsOf(job) -> Statuses] /\ remaining \in 0..100
        /\ started \in [Jobs -> Nat] /\ executed \in [Units -> Nat] /\ owed \subseteq Units
    BY <1>2 DEF TypeOK
  <1>4. u \in Units /\ status[u] = "pending"
    BY <1>1, <1>3, PlanFacts DEF IsNext
  <1> DEFINE success == Affords(remaining, u)
             outcome == [status EXCEPT ![u] = Outcome(success)]
  <1>5. /\ outcome \in [UnitsOf(job) -> Statuses]
        /\ outcome[u] = Outcome(success)
        /\ \A v \in UnitsOf(job) : v # u => outcome[v] = status[v]
    BY <1>3 DEF Outcome, Statuses
  <1>6. /\ status' = AfterUnit(outcome, remaining')
        /\ executed' = [executed EXCEPT ![u] = IF success THEN @ + 1 ELSE @]
        /\ owed' = IF success THEN owed \ {u} ELSE owed
        /\ success \in BOOLEAN
    BY <1>1 DEF Affords
  <1> HIDE DEF success, outcome
  <1>7. /\ status' \in [UnitsOf(job) -> Statuses]
        /\ \A v \in UnitsOf(job) : (status'[v] = "completed") <=> (outcome[v] = "completed")
        /\ Exhausted(remaining') => Having(status', "pending") = {}
    BY <1>5, <1>6, AfterUnitType
  <1>8. remaining' \in 0..100
    BY <1>1, <1>3, <1>4, SpendingType
  <1>9. /\ executed' \in [Units -> Nat]
        /\ \A v \in Units : executed'[v] >= executed[v]
        /\ (success => executed'[u] = executed[u] + 1)
        /\ (~success => executed' = executed)
        /\ \A v \in Units : v # u => executed'[v] = executed[v]
    BY <1>3, <1>4, <1>6
  <1>10. (status'[u] = "completed") <=> success
    BY <1>5, <1>6, <1>7 DEF Outcome
  <1>11. \A v \in UnitsOf(job) : v # u => ((status'[v] = "completed") <=> (status[v] = "completed"))
    BY <1>5, <1>7
  <1>12. owed' \subseteq owed /\ (success => u \notin owed')
    BY <1>6
  <1>13. TypeOK'
    BY <1>2, <1>3, <1>7, <1>8, <1>9, <1>12 DEF TypeOK
  <1>14. CheckpointIsResumable' /\ Decided'
    BY <1>2, <1>7 DEF CheckpointIsResumable, Decided
  <1>15. Claims'
    <2>1. CompletedWasExecuted'
      <3> SUFFICES ASSUME IsDocument(checkpoint), NEW v \in Having(checkpoint.status, "completed")
                   PROVE  executed'[v] > 0
        BY <1>2 DEF CompletedWasExecuted
      <3>1. executed[v] > 0
        BY DEF Claims, CompletedWasExecuted
      <3>2. v \in Units
        BY DocumentType, PlanFacts DEF Having
      <3> QED
        BY <3>1, <3>2, <1>3, <1>9
    <2>2. ASSUME NEW v \in Having(status', "completed")
          PROVE  executed'[v] > 0
      <3>1. v \in UnitsOf(job) /\ status'[v] = "completed" /\ v \in Units
        BY <1>3, <1>7, PlanFacts DEF Having
      <3>2. CASE v = u
        BY <3>1, <3>2, <1>3, <1>4, <1>9, <1>10
      <3>3. CASE v # u
        <4>1. v \in Having(status, "completed")
          BY <3>1, <3>3, <1>3, <1>11 DEF Having
        <4>2. executed[v] > 0
          BY <4>1 DEF Claims
        <4> QED
          BY <4>2, <3>1, <3>3, <1>9
      <3> QED
        BY <3>2, <3>3
    <2> QED
      BY <2>1, <2>2 DEF Claims
  <1>16. Tickets'
    <2> SUFFICES ASSUME NEW j \in Jobs \ crashed, NEW v \in UnitsOf(j)
                 PROVE  executed'[v] + Ticket(j, v)' + CallTicket(j)' <= started[j]
      BY <1>2 DEF Tickets
    <2>1. executed[v] + Ticket(j, v) + CallTicket(j) <= started[j]
      BY DEF Tickets
    <2>2. /\ CallTicket(j)' = CallTicket(j) /\ v \in Units
          /\ executed[v] \in Nat /\ started[j] \in Nat
      BY <1>2, <1>3, PlanFacts DEF CallTicket
    <2>3. CASE j # job
      <3>1. v # u /\ Ticket(j, v)' = Ticket(j, v)
        BY <2>3, <1>2, <1>3, PlanFacts DEF Ticket, DocumentOf
      <3> QED
        BY <3>1, <2>1, <2>2, <1>9
    <2>4. CASE j = job /\ v # u
      <3>1. Ticket(j, v)' = Ticket(j, v)
        BY <2>4, <1>2, <1>11 DEF Ticket
      <3> QED
        BY <3>1, <2>1, <2>2, <2>4, <1>9
    <2>5. CASE j = job /\ v = u
      <3>1. Ticket(j, v) = 1 /\ Ticket(j, v)' = IF success THEN 0 ELSE 1
        BY <2>5, <1>2, <1>4, <1>10 DEF Ticket
      <3>2. CallTicket(j) \in {0, 1}
        BY TicketType
      <3>3. CASE success
        BY <3>1, <3>2, <3>3, <2>1, <2>2, <2>5, <1>9
      <3>4. CASE ~success
        BY <3>1, <3>2, <3>4, <2>1, <2>2, <2>5, <1>9
      <3> QED
        BY <3>3, <3>4
    <2> QED
      BY <2>3, <2>4, <2>5
  <1>17. Known'
    BY <1>2, <1>12 DEF Known, DocumentOf
  <1>18. Kept'
    <2>1. \A t \in Tasks : Alone(t)' => Alone(t)
      BY <1>2 DEF Alone
    <2>2. ASSUME NotOwed PROVE NotOwed'
      <3>1. Having(status', "completed") \cap owed' = {}
        BY <2>2, <1>3, <1>7, <1>10, <1>11, <1>12 DEF NotOwed, Having
      <3> QED
        BY <2>2, <3>1, <1>2, <1>12 DEF NotOwed
    <2>3. Deferred' = Deferred
      BY <1>2 DEF Deferred
    <2> QED
      BY <2>1, <2>2, <2>3, <1>2, <1>12 DEF Kept
  <1> QED
    BY <1>13, <1>14, <1>15, <1>16, <1>17, <1>18

(* What the command line leaves behind when it ends. *)
LEMMA CommandEndsType ==
    ASSUME TypeOK, CommandEnds
    PROVE  /\ pc' = "idle" /\ job' = None /\ status' = <<>>
           /\ mode' \in Modes /\ remaining' \in 0..100
           /\ UNCHANGED <<call, agent, callMode, started, executed, commands>>
           /\ \A s : Having(status', s) = {}
           /\ \A j \in Jobs : job' # j
  BY PlanFacts DEF CommandEnds, decorated, Modes, Having

(* What was deferred is saved with its tickets; what is owed by a task      *)
(* alone is part of the plan in hand, so saving that loses nothing.        *)
LEMMA FinishInv ==
    ASSUME Inv, Finish
    PROVE  Inv'
  <1> USE DEF Inv
  <1>1. /\ pc = "finishing" /\ CommandEnds
        /\ owed' = owed \cup Having(status, "deferred") /\ crashed' = crashed
        /\ checkpoint' = IF Having(status, "deferred") # {} THEN Saved(job, mode, status)
                         ELSE NoCheckpoint
    BY DEF Finish
  <1>2. /\ pc' = "idle" /\ job' = None /\ status' = <<>>
        /\ mode' \in Modes /\ remaining' \in 0..100
        /\ UNCHANGED <<call, agent, callMode, started, executed, commands>>
        /\ \A s : Having(status', s) = {}
        /\ \A j \in Jobs : job' # j
    BY <1>1, CommandEndsType
  <1>3. job \in Jobs /\ status \in [UnitsOf(job) -> Statuses] /\ mode \in Modes
        /\ started \in [Jobs -> Nat] /\ executed \in [Units -> Nat] /\ owed \subseteq Units
    BY <1>1 DEF TypeOK
  <1>4. \A u \in UnitsOf(job) : status[u] \in {"completed", "deferred"}
    BY <1>1, <1>3 DEF Decided, Having, Statuses
  <1> DEFINE saving == Having(status, "deferred") # {}
  <1>5. CASE saving
    <2>1. /\ checkpoint' \in Documents /\ IsDocument(checkpoint')
          /\ checkpoint'.job = job /\ checkpoint'.status = status
      BY <1>1, <1>3, <1>5, SavedType
    <2> QED
      <3> HIDE DEF saving
      <3>1. TypeOK'
        BY <1>1, <1>2, <1>3, <2>1, PlanFacts DEF TypeOK, Having
      <3>2. CheckpointIsResumable' /\ Decided'
        BY <1>1, <1>2, <1>5, <2>1 DEF CheckpointIsResumable, Decided, saving
      <3>3. Claims'
        BY <1>2, <2>1 DEF Claims, CompletedWasExecuted
      <3>4. Tickets'
        <4> SUFFICES ASSUME NEW j \in Jobs \ crashed, NEW u \in UnitsOf(j)
                     PROVE  executed[u] + Ticket(j, u)' + CallTicket(j)' <= started[j]
          BY <1>1, <1>2 DEF Tickets
        <4>1. executed[u] + Ticket(j, u) + CallTicket(j) <= started[j]
              /\ executed[u] \in Nat /\ started[j] \in Nat
          BY <1>3, PlanFacts DEF Tickets
        <4>2. CallTicket(j)' = CallTicket(j) /\ CallTicket(j) \in {0, 1} /\ Ticket(j, u) \in {0, 1}
          BY <1>2, TicketType DEF CallTicket
        <4>3. CASE j = job
          <5>1. Ticket(j, u)' = Ticket(j, u)
            BY <4>3, <1>2, <1>4, <2>1 DEF Ticket, DocumentOf
          <5> QED
            BY <5>1, <4>1, <4>2
        <4>4. CASE j # job
          <5>1. Ticket(j, u)' = 0
            BY <4>4, <1>2, <2>1 DEF Ticket, DocumentOf
          <5> QED
            BY <5>1, <4>1, <4>2
        <4> QED
          BY <4>3, <4>4
      <3>5. Known'
        BY <1>1, <1>2, <1>3, <2>1 DEF Known, DocumentOf, Having
      <3>6. Kept'
        <4> SUFFICES ASSUME NEW t \in Tasks, Alone(t)
                     PROVE  NotOwed' /\ owed' \subseteq Deferred'
          BY <1>2 DEF Kept, Alone
        <4>1. job = t /\ \A u \in owed : u \in UnitsOf(job)
          BY <1>3 DEF Known, Alone
        <4>2. Having(status, "completed") \cap owed = {}
          BY DEF Kept, NotOwed
        <4>3. owed' = Having(status, "deferred")
          BY <1>1, <1>3, <1>4, <4>1, <4>2 DEF Having
        <4> QED
          BY <4>3, <1>2, <1>3, <2>1 DEF NotOwed, Deferred, Having
      <3> QED
        BY <3>1, <3>2, <3>3, <3>4, <3>5, <3>6
  <1>6. CASE ~saving
    <2>1. checkpoint' = NoCheckpoint /\ ~IsDocument(checkpoint') /\ owed' = owed
      BY <1>1, <1>6 DEF IsDocument
    <2> HIDE DEF saving
    <2>2. TypeOK'
      BY <1>1, <1>2, <1>3, <2>1 DEF TypeOK
    <2>3. CheckpointIsResumable' /\ Decided' /\ Claims'
      BY <1>2, <2>1 DEF CheckpointIsResumable, Decided, Claims, CompletedWasExecuted
    <2>4. Tickets'
      <3> SUFFICES ASSUME NEW j \in Jobs \ crashed, NEW u \in UnitsOf(j)
                   PROVE  executed[u] + Ticket(j, u)' + CallTicket(j)' <= started[j]
        BY <1>1, <1>2 DEF Tickets
      <3>1. executed[u] + Ticket(j, u) + CallTicket(j) <= started[j]
            /\ executed[u] \in Nat /\ started[j] \in Nat
        BY <1>3, PlanFacts DEF Tickets
      <3>2. CallTicket(j)' = CallTicket(j) /\ CallTicket(j) \in {0, 1} /\ Ticket(j, u) \in {0, 1}
        BY <1>2, TicketType DEF CallTicket
      <3>3. Ticket(j, u)' = 0
        BY <1>2, <2>1 DEF Ticket, DocumentOf
      <3> QED
        BY <3>1, <3>2, <3>3
    <2>5. Known'
      BY <1>1, <1>2, <1>3, <2>1 DEF Known, DocumentOf
    <2>6. Kept'
      <3> SUFFICES ASSUME NEW t \in Tasks, Alone(t)
                   PROVE  NotOwed' /\ owed' = {}
        BY <1>2 DEF Kept, Alone
      <3>1. job = t /\ \A u \in owed : u \in UnitsOf(job)
        BY <1>3 DEF Known, Alone
      <3>2. Having(status, "completed") \cap owed = {}
        BY DEF Kept, NotOwed
      <3>3. owed = {}
        BY <1>3, <1>4, <1>6, <3>1, <3>2 DEF Having, saving
      <3> QED
        BY <3>3, <1>2, <2>1 DEF NotOwed
    <2> QED
      BY <2>2, <2>3, <2>4, <2>5, <2>6
  <1> QED
    BY <1>5, <1>6

(* A killed command line leaves its job without a promise, and the          *)
(* checkpoint as it was or unreadable.                                     *)
LEMMA CrashInv ==
    ASSUME Inv, Crash
    PROVE  Inv'
  <1> USE DEF Inv
  <1>1. /\ pc # "idle" /\ CommandEnds /\ owed' = owed /\ crashed' = crashed \cup {job}
        /\ checkpoint' = checkpoint \/ checkpoint' = Corrupt
    BY DEF Crash
  <1>2. /\ pc' = "idle" /\ job' = None /\ status' = <<>>
        /\ mode' \in Modes /\ remaining' \in 0..100
        /\ UNCHANGED <<call, agent, callMode, started, executed, commands>>
        /\ \A s : Having(status', s) = {}
        /\ \A j \in Jobs : job' # j
    BY <1>1, CommandEndsType
  <1>3. job \in Jobs /\ started \in [Jobs -> Nat] /\ executed \in [Units -> Nat]
    BY <1>1 DEF TypeOK
  <1>4. IsDocument(checkpoint') => checkpoint' = checkpoint
    BY <1>1 DEF IsDocument
  <1>5. TypeOK'
    BY <1>1, <1>2, <1>3 DEF TypeOK
  <1>6. CheckpointIsResumable' /\ Decided' /\ Claims'
    BY <1>2, <1>4 DEF CheckpointIsResumable, Decided, Claims, CompletedWasExecuted
  <1>7. Tickets'
    <2> SUFFICES ASSUME NEW j \in Jobs \ crashed, j # job, NEW u \in UnitsOf(j)
                 PROVE  executed[u] + Ticket(j, u)' + CallTicket(j)' <= started[j]
      BY <1>1, <1>2 DEF Tickets
    <2>1. executed[u] + Ticket(j, u) + CallTicket(j) <= started[j]
          /\ executed[u] \in Nat /\ started[j] \in Nat
      BY <1>3, PlanFacts DEF Tickets
    <2>2. CallTicket(j)' = CallTicket(j) /\ CallTicket(j) \in {0, 1} /\ Ticket(j, u) \in {0, 1}
      BY <1>2, TicketType DEF CallTicket
    <2>3. Ticket(j, u)' = Ticket(j, u) \/ Ticket(j, u)' = 0
      BY <1>2, <1>4 DEF Ticket, DocumentOf
    <2> QED
      BY <2>1, <2>2, <2>3
  <1>8. Known'
    BY <1>1, <1>2, <1>4 DEF Known, DocumentOf
  <1>9. Kept'
    <2> SUFFICES ASSUME NEW t \in Tasks, Alone(t)
                 PROVE  NotOwed' /\ (checkpoint' = Corrupt \/ owed' \subseteq Deferred')
      BY <1>2 DEF Kept, Alone
    <2>1. NotOwed /\ (checkpoint = Corrupt \/ owed \subseteq Deferred)
      BY DEF Kept
    <2> QED
      BY <2>1, <1>1, <1>2, <1>4 DEF NotOwed, Deferred
  <1> QED
    BY <1>5, <1>6, <1>7, <1>8, <1>9

-----------------------------------------------------------------------------
(* While the agent is in a call, no task has the directory to itself.      *)
LEMMA CallNotAlone ==
    ASSUME TypeOK, Known, agent # "idle"
    PROVE  /\ call \in Calls /\ call \in Jobs
           /\ \A t \in Tasks : ~Alone(t)
  BY PlanFacts DEF TypeOK, Known, Alone

(* Calling the function grants its unit a ticket, which the call holds.    *)
LEMMA CallFunctionInv ==
    ASSUME Inv, NEW c \in Calls, CallFunction(c)
    PROVE  Inv'
  <1> USE DEF Inv
  <1>1. /\ agent = "idle" /\ call' = c /\ agent' \in {"working", "saving"}
        /\ started' = [started EXCEPT ![c] = @ + 1] /\ commands' = commands + 1
        /\ UNCHANGED <<checkpoint, pc, job, status, mode, remaining, executed, owed, crashed>>
    BY DEF CallFunction, cli
  <1>2. callMode' \in Modes
    BY ModeType DEF CallFunction
  <1>3. c \in Jobs /\ call = None /\ started \in [Jobs -> Nat] /\ executed \in [Units -> Nat]
    BY <1>1, PlanFacts DEF TypeOK
  <1>4. /\ started' \in [Jobs -> Nat] /\ started'[c] = started[c] + 1
        /\ \A j \in Jobs : started'[j] >= started[j] /\ (j # c => started'[j] = started[j])
    BY <1>1, <1>3
  <1>5. TypeOK'
    BY <1>1, <1>2, <1>3, <1>4 DEF TypeOK
  <1>6. CheckpointIsResumable' /\ Decided' /\ Claims'
    BY <1>1 DEF CheckpointIsResumable, Decided, Claims, CompletedWasExecuted
  <1>7. Tickets'
    <2> SUFFICES ASSUME NEW j \in Jobs \ crashed, NEW u \in UnitsOf(j)
                 PROVE  executed[u] + Ticket(j, u)' + CallTicket(j)' <= started'[j]
      BY <1>1 DEF Tickets
    <2>1. executed[u] + Ticket(j, u) + CallTicket(j) <= started[j]
          /\ executed[u] \in Nat /\ started[j] \in Nat
      BY <1>3, PlanFacts DEF Tickets
    <2>2. Ticket(j, u)' = Ticket(j, u) /\ Ticket(j, u) \in {0, 1}
      BY <1>1, TicketType DEF Ticket, DocumentOf
    <2>3. CallTicket(j) = 0 /\ CallTicket(j)' = IF j = c THEN 1 ELSE 0
      BY <1>1, <1>3, PlanFacts DEF CallTicket
    <2> QED
      BY <2>1, <2>2, <2>3, <1>4
  <1>8. Known'
    BY <1>1, <1>3, <1>4 DEF Known, DocumentOf
  <1>9. Kept'
    <2>1. \A t \in Tasks : ~Alone(t)'
      BY <1>3, <1>4, PlanFacts DEF Alone
    <2> QED
      BY <2>1 DEF Kept
  <1> QED
    BY <1>5, <1>6, <1>7, <1>8, <1>9

(* What the agent leaves behind when a call ends. *)
LEMMA CallEndsType ==
    ASSUME TypeOK, Known, agent # "idle", CallEnds
    PROVE  /\ call' = None /\ agent' = "idle" /\ callMode' \in Modes
           /\ UNCHANGED <<pc, job, status, mode, remaining, started, crashed, commands>>
           /\ \A j \in Jobs : call' # j /\ CallTicket(j)' = 0
           /\ \A t \in Tasks : ~Alone(t)'
  BY CallNotAlone, PlanFacts DEF CallEnds, cli, Modes, CallTicket, Alone

(* A function that returns has used the call's own ticket. *)
LEMMA FunctionReturnsInv ==
    ASSUME Inv, FunctionReturns
    PROVE  Inv'
  <1> USE DEF Inv
  <1> DEFINE w == UnitOf(call)
  <1>1. /\ agent = "working" /\ checkpoint' = checkpoint
        /\ executed' = [executed EXCEPT ![w] = @ + 1] /\ owed' = owed \ {w}
        /\ CallEnds
    BY DEF FunctionReturns
  <1>2. /\ call' = None /\ agent' = "idle" /\ callMode' \in Modes
        /\ UNCHANGED <<pc, job, status, mode, remaining, started, crashed, commands>>
        /\ \A j \in Jobs : call' # j /\ CallTicket(j)' = 0
        /\ \A t \in Tasks : ~Alone(t)'
    BY <1>1, CallEndsType
  <1>3. call \in Calls /\ call \in Jobs /\ UnitsOf(call) = {w} /\ w \in Units
    BY <1>1, CallNotAlone, PlanFacts
  <1> HIDE DEF w
  <1>4. started \in [Jobs -> Nat] /\ executed \in [Units -> Nat]
    BY DEF TypeOK
  <1>5. /\ executed' \in [Units -> Nat] /\ executed'[w] = executed[w] + 1
        /\ \A u \in Units : executed'[u] >= executed[u] /\ (u # w => executed'[u] = executed[u])
    BY <1>1, <1>3, <1>4
  <1>6. TypeOK'
    BY <1>1, <1>2, <1>5 DEF TypeOK
  <1>7. CheckpointIsResumable' /\ Decided'
    BY <1>1, <1>2 DEF CheckpointIsResumable, Decided
  <1>8. Claims'
    <2>1. ASSUME NEW u \in Units, executed[u] > 0 PROVE executed'[u] > 0
      BY <2>1, <1>4, <1>5
    <2>2. ASSUME IsDocument(checkpoint), NEW u \in Having(checkpoint.status, "completed")
          PROVE  executed'[u] > 0
      <3>1. u \in Units
        BY <2>2, DocumentType, PlanFacts DEF Having
      <3> QED
        BY <3>1, <2>1, <2>2 DEF Claims, CompletedWasExecuted
    <2>3. ASSUME NEW u \in Having(status, "completed") PROVE executed'[u] > 0
      <3>1. u \in Units
        BY PlanFacts DEF TypeOK, Having
      <3> QED
        BY <3>1, <2>1 DEF Claims
    <2> QED
      BY <2>2, <2>3, <1>1, <1>2 DEF Claims, CompletedWasExecuted
  <1>9. Tickets'
    <2> SUFFICES ASSUME NEW j \in Jobs \ crashed, NEW u \in UnitsOf(j)
                 PROVE  executed'[u] + Ticket(j, u)' + CallTicket(j)' <= started[j]
      BY <1>2 DEF Tickets
    <2>1. executed[u] + Ticket(j, u) + CallTicket(j) <= started[j]
          /\ u \in Units /\ executed[u] \in Nat /\ started[j] \in Nat
      BY <1>4, PlanFacts DEF Tickets
    <2>2. Ticket(j, u)' = Ticket(j, u) /\ Ticket(j, u) \in {0, 1} /\ CallTicket(j)' = 0
      BY <1>1, <1>2, TicketType DEF Ticket, DocumentOf
    <2>3. CASE j = call
      <3>1. u = w /\ CallTicket(j) = 1
        BY <2>3, <1>3 DEF CallTicket
      <3> QED
        BY <3>1, <2>1, <2>2, <1>5
    <2>4. CASE j # call
      <3>1. u # w /\ CallTicket(j) = 0
        BY <2>4, <1>3, PlanFacts DEF CallTicket
      <3> QED
        BY <3>1, <2>1, <2>2, <1>5
    <2> QED
      BY <2>3, <2>4
  <1>10. Known'
    BY <1>1, <1>2 DEF Known, DocumentOf
  <1>11. Kept'
    BY <1>2 DEF Kept
  <1> QED
    BY <1>6, <1>7, <1>8, <1>9, <1>10, <1>11

(* A function that raises has changed nothing yet. *)
LEMMA FunctionRaisesInv ==
    ASSUME Inv, FunctionRaises
    PROVE  Inv'
  <1> USE DEF Inv, FunctionRaises, cli, history
  <1>1. TypeOK'
    BY DEF TypeOK
  <1>2. CheckpointIsResumable' /\ Decided' /\ Claims'
    BY DEF CheckpointIsResumable, Decided, Claims, CompletedWasExecuted
  <1>3. Tickets' /\ Known'
    BY DEF Tickets, Ticket, CallTicket, DocumentOf, Known
  <1>4. Kept'
    BY DEF Kept, NotOwed, Alone, Deferred
  <1> QED
    BY <1>1, <1>2, <1>3, <1>4

(* Saving a call passes its ticket on to the checkpoint. *)
LEMMA SaveCallInv ==
    ASSUME Inv, SaveCall
    PROVE  Inv'
  <1> USE DEF Inv
  <1> DEFINE w == UnitOf(call)
             statuses == [u \in {w} |-> "deferred"]
  <1>1. /\ agent = "saving" /\ checkpoint' = Saved(call, callMode, statuses)
        /\ owed' = owed \cup {w} /\ executed' = executed
        /\ CallEnds
    BY DEF SaveCall
  <1>2. /\ call' = None /\ agent' = "idle" /\ callMode' \in Modes
        /\ UNCHANGED <<pc, job, status, mode, remaining, started, crashed, commands>>
        /\ \A j \in Jobs : call' # j /\ CallTicket(j)' = 0
        /\ \A t \in Tasks : ~Alone(t)'
    BY <1>1, CallEndsType
  <1>3. call \in Calls /\ call \in Jobs /\ UnitsOf(call) = {w} /\ w \in Units /\ callMode \in Modes
    BY <1>1, CallNotAlone, PlanFacts DEF TypeOK
  <1>4. statuses \in [UnitsOf(call) -> Statuses] /\ statuses[w] = "deferred" /\ DOMAIN statuses = {w}
    BY <1>3 DEF Statuses
  <1> HIDE DEF w, statuses
  <1>5. /\ checkpoint' \in Documents /\ IsDocument(checkpoint')
        /\ checkpoint'.job = call /\ checkpoint'.status = statuses
    BY <1>1, <1>3, <1>4, SavedType
  <1>6. started \in [Jobs -> Nat] /\ executed \in [Units -> Nat] /\ owed \subseteq Units
    BY DEF TypeOK
  <1>7. TypeOK'
    BY <1>1, <1>2, <1>3, <1>5, <1>6 DEF TypeOK
  <1>8. CheckpointIsResumable' /\ Decided' /\ Claims'
    BY <1>1, <1>2, <1>4, <1>5 DEF CheckpointIsResumable, Decided, Claims, CompletedWasExecuted, Having
  <1>9. Tickets'
    <2> SUFFICES ASSUME NEW j \in Jobs \ crashed, NEW u \in UnitsOf(j)
                 PROVE  executed[u] + Ticket(j, u)' + CallTicket(j)' <= started[j]
      BY <1>1, <1>2 DEF Tickets
    <2>1. executed[u] + Ticket(j, u) + CallTicket(j) <= started[j]
          /\ executed[u] \in Nat /\ started[j] \in Nat
      BY <1>6, PlanFacts DEF Tickets
    <2>2. Ticket(j, u) \in {0, 1} /\ Ticket(j, u)' \in {0, 1} /\ CallTicket(j)' = 0
          /\ CallTicket(j) \in {0, 1}
      BY <1>2, TicketType DEF Ticket
    <2>3. CASE j = call
      <3>1. CallTicket(j) = 1
        BY <2>3 DEF CallTicket
      <3> QED
        BY <3>1, <2>1, <2>2
    <2>4. CASE j # call
      <3>1. Ticket(j, u)' = Ticket(j, u) \/ Ticket(j, u)' = 0
        BY <2>4, <1>2, <1>5 DEF Ticket, DocumentOf
      <3> QED
        BY <3>1, <2>1, <2>2
    <2> QED
      BY <2>3, <2>4
  <1>10. Known'
    BY <1>1, <1>2, <1>3, <1>5 DEF Known, DocumentOf
  <1>11. Kept'
    BY <1>2 DEF Kept
  <1> QED
    BY <1>7, <1>8, <1>9, <1>10, <1>11

(* An agent that dies takes its ticket with it. *)
LEMMA AgentCrashInv ==
    ASSUME Inv, AgentCrash
    PROVE  Inv'
  <1> USE DEF Inv
  <1>1. /\ agent # "idle" /\ CallEnds /\ UNCHANGED <<executed, owed>>
        /\ checkpoint' = checkpoint \/ checkpoint' = Corrupt
    BY DEF AgentCrash
  <1>2. /\ call' = None /\ agent' = "idle" /\ callMode' \in Modes
        /\ UNCHANGED <<pc, job, status, mode, remaining, started, crashed, commands>>
        /\ \A j \in Jobs : call' # j /\ CallTicket(j)' = 0
        /\ \A t \in Tasks : ~Alone(t)'
    BY <1>1, CallEndsType
  <1>3. IsDocument(checkpoint') => checkpoint' = checkpoint
    BY <1>1 DEF IsDocument
  <1>4. TypeOK'
    BY <1>1, <1>2 DEF TypeOK
  <1>5. CheckpointIsResumable' /\ Decided' /\ Claims'
    BY <1>1, <1>2, <1>3 DEF CheckpointIsResumable, Decided, Claims, CompletedWasExecuted
  <1>6. Tickets'
    <2> SUFFICES ASSUME NEW j \in Jobs \ crashed, NEW u \in UnitsOf(j)
                 PROVE  executed[u] + Ticket(j, u)' + CallTicket(j)' <= started[j]
      BY <1>1, <1>2 DEF Tickets
    <2>1. executed[u] + Ticket(j, u) + CallTicket(j) <= started[j]
          /\ executed[u] \in Nat /\ started[j] \in Nat
      BY PlanFacts DEF Tickets, TypeOK
    <2>2. Ticket(j, u) \in {0, 1} /\ CallTicket(j)' = 0 /\ CallTicket(j) \in {0, 1}
      BY <1>2, TicketType
    <2>3. Ticket(j, u)' = Ticket(j, u) \/ Ticket(j, u)' = 0
      BY <1>2, <1>3 DEF Ticket, DocumentOf
    <2> QED
      BY <2>1, <2>2, <2>3
  <1>7. Known'
    BY <1>1, <1>2, <1>3 DEF Known, DocumentOf
  <1>8. Kept'
    BY <1>2 DEF Kept
  <1> QED
    BY <1>4, <1>5, <1>6, <1>7, <1>8

-----------------------------------------------------------------------------
(* Every step, and a stutter, keeps the invariant. *)
LEMMA NextInv == Inv /\ [Next]_vars => Inv'
  <1> SUFFICES ASSUME Inv, [Next]_vars PROVE Inv'
    OBVIOUS
  <1>1. CASE UNCHANGED vars
    BY <1>1 DEF Inv, vars, cli, decorated, history, TypeOK, CheckpointIsResumable, Decided, Claims,
                CompletedWasExecuted, Tickets, Ticket, CallTicket, DocumentOf, Known, Kept,
                NotOwed, Alone, Deferred
  <1>2. CASE Next
    BY <1>2, RunInv, ResumeInv, ExecuteUnitInv, FinishInv, CrashInv, CallFunctionInv,
       FunctionReturnsInv, FunctionRaisesInv, SaveCallInv, AgentCrashInv DEF Next
  <1> QED
    BY <1>1, <1>2

(* The invariant holds in every reachable state. *)
THEOREM Invariance == Spec => []Inv
  BY InitInv, NextInv, PTL DEF Spec

(* Every variable keeps its type: no budget goes below nothing.            *)
THEOREM TypeCorrectness == Spec => []TypeOK
  <1>1. Inv => TypeOK
    BY DEF Inv
  <1> QED
    BY <1>1, Invariance, PTL

(* A readable checkpoint leaves nothing undecided and something to resume. *)
THEOREM ResumeHasWork == Spec => []CheckpointIsResumable
  <1>1. Inv => CheckpointIsResumable
    BY DEF Inv
  <1> QED
    BY <1>1, Invariance, PTL

(* A checkpoint never claims work nobody did. *)
THEOREM ClaimsAreTrue == Spec => []CompletedWasExecuted
  <1>1. Inv => CompletedWasExecuted
    BY DEF Inv, Claims
  <1> QED
    BY <1>1, Invariance, PTL

(* No unit of a job whose runs were not killed is executed more often than *)
(* the job was started.                                                    *)
THEOREM ResumingRepeatsNothing == Spec => []NoWorkRepeated
  <1>1. ASSUME Inv, NEW j \in Jobs \ crashed, NEW u \in UnitsOf(j)
        PROVE  executed[u] <= started[j]
    <2>1. executed[u] + Ticket(j, u) + CallTicket(j) <= started[j]
          /\ executed[u] \in Nat /\ started[j] \in Nat
      BY <1>1, PlanFacts DEF Inv, Tickets, TypeOK
    <2>2. Ticket(j, u) \in {0, 1} /\ CallTicket(j) \in {0, 1}
      BY TicketType
    <2> QED
      BY <2>1, <2>2
  <1>2. Inv => NoWorkRepeated
    BY <1>1 DEF NoWorkRepeated
  <1> QED
    BY <1>2, Invariance, PTL

(* A task alone never loses what it deferred, however often it is killed.  *)
THEOREM AloneIsRecoverable == Spec => []OwnDeferredWorkKept
  <1>1. Inv => OwnDeferredWorkKept
    BY DEF Inv, Kept, OwnDeferredWorkKept
  <1> QED
    BY <1>1, Invariance, PTL

-----------------------------------------------------------------------------
(* A sum over a finite set, taken one element after another in the order   *)
(* CHOOSE gives: the recursion that MapThenSumSet stands for.              *)
Picked(s) == CHOOSE e \in s : TRUE

Adds(sum, U, w) ==
    sum = [s \in SUBSET U |-> IF s = {} THEN 0 ELSE w[Picked(s)] + sum[s \ {Picked(s)}]]

AddsUp(sum, U, w) ==
    /\ sum \in [SUBSET U -> Nat] /\ Adds(sum, U, w)
    /\ \A s \in SUBSET U : \A x \in s : sum[s] = w[x] + sum[s \ {x}]

(* What holds of 0, and of each number after one it holds of, holds of all.*)
LEMMA CountingUp ==
    ASSUME NEW S, 0 \in S, \A n \in Nat : n \in S => n + 1 \in S
    PROVE  \A n \in Nat : n \in S
  <1> DEFINE Others == Nat \ S
             Less == {pair \in Nat \X Nat : pair[1] < pair[2]}
  <1> SUFFICES ASSUME Others # {} PROVE FALSE
    OBVIOUS
  <1>1. IsWellFoundedOn(Less, Nat)
    BY NatLessThanWellFounded DEF OpToRel
  <1>2. PICK n \in Others : \A m \in Others : <<m, n>> \notin Less
    <2> HIDE DEF Less
    <2> QED
      BY <1>1, WFMin
  <1>3. n # 0 /\ n - 1 \in Nat
    OBVIOUS
  <1>4. <<n - 1, n>> \in Less
    BY <1>3
  <1>5. n - 1 \in S
    BY <1>2, <1>3, <1>4
  <1> QED
    BY <1>3, <1>5

(* Among the subsets of a finite set that are in a collection, there is    *)
(* one of which no smaller one is.                                         *)
LEMMA Smallest ==
    ASSUME NEW U, IsFiniteSet(U), NEW C, C \subseteq SUBSET U, C # {}
    PROVE  \E T \in C : \A x \in T : T \ {x} \notin C
  <1>1. IsWellFoundedOn(StrictSubsetOrdering(U), SUBSET U)
    BY FS_StrictSubsetOrderingWellFounded, FS_FiniteSubsetsOfFinite
  <1>2. PICK T \in C : \A V \in C : <<V, T>> \notin StrictSubsetOrdering(U)
    BY <1>1, WFMin
  <1>3. \A x \in T : T \ {x} \in SUBSET U => <<T \ {x}, T>> \in StrictSubsetOrdering(U)
    BY DEF StrictSubsetOrdering
  <1> QED
    BY <1>2, <1>3

(* Such a sum exists, and every sum of parts is a number. *)
LEMMA SumExists ==
    ASSUME NEW U, IsFiniteSet(U), NEW w, \A x \in U : w[x] \in Nat
    PROVE  \E sum \in [SUBSET U -> Nat] : Adds(sum, U, w)
  <1> DEFINE Right(sum, s) ==
               sum[s] = IF s = {} THEN 0 ELSE w[Picked(s)] + sum[s \ {Picked(s)}]
             Upto == {n \in Nat : \E sum \in [SUBSET U -> Nat] :
                         \A s \in SUBSET U : Cardinality(s) <= n => Right(sum, s)}
  <1>1. \A s \in SUBSET U :
           /\ IsFiniteSet(s) /\ Cardinality(s) \in Nat /\ Cardinality(s) <= Cardinality(U)
           /\ s = {} => Cardinality(s) = 0
           /\ s # {} => /\ Picked(s) \in s
                        /\ s \ {Picked(s)} \in SUBSET U
                        /\ Cardinality(s \ {Picked(s)}) = Cardinality(s) - 1
    <2> SUFFICES ASSUME NEW s \in SUBSET U
                 PROVE  /\ IsFiniteSet(s) /\ Cardinality(s) \in Nat
                        /\ Cardinality(s) <= Cardinality(U)
                        /\ s = {} => Cardinality(s) = 0
                        /\ s # {} => /\ Picked(s) \in s
                                     /\ s \ {Picked(s)} \in SUBSET U
                                     /\ Cardinality(s \ {Picked(s)}) = Cardinality(s) - 1
      OBVIOUS
    <2>1. IsFiniteSet(s) /\ Cardinality(s) <= Cardinality(U)
      BY FS_Subset
    <2>2. s # {} => Picked(s) \in s
      BY DEF Picked
    <2> QED
      BY <2>1, <2>2, FS_CardinalityType, FS_EmptySet, FS_RemoveElement
  <1>2. 0 \in Upto
    <2>1. \A s \in SUBSET U : Cardinality(s) <= 0 => s = {}
      <3> SUFFICES ASSUME NEW s \in SUBSET U, Cardinality(s) <= 0 PROVE s = {}
        OBVIOUS
      <3>1. IsFiniteSet(s) /\ Cardinality(s) \in Nat
        BY <1>1, Zenon
      <3>2. Cardinality(s) = 0
        BY <3>1
      <3> QED
        BY <3>1, <3>2, FS_EmptySet
    <2> DEFINE none == [s \in SUBSET U |-> 0]
    <2>2. none \in [SUBSET U -> Nat] /\ \A s \in SUBSET U : none[s] = 0
      OBVIOUS
    <2>3. \A s \in SUBSET U : Cardinality(s) <= 0 => Right(none, s)
      BY <2>1, <2>2
    <2> HIDE DEF none, Right
    <2> QED
      BY <2>2, <2>3
  <1>3. ASSUME NEW n \in Nat, n \in Upto PROVE n + 1 \in Upto
    <2>1. PICK sum \in [SUBSET U -> Nat] :
             \A s \in SUBSET U : Cardinality(s) <= n => Right(sum, s)
      BY <1>3
    <2> DEFINE next == [s \in SUBSET U |->
                          IF s = {} THEN 0 ELSE w[Picked(s)] + sum[s \ {Picked(s)}]]
    <2>2. next \in [SUBSET U -> Nat]
      <3> SUFFICES ASSUME NEW s \in SUBSET U, s # {}
                   PROVE  w[Picked(s)] + sum[s \ {Picked(s)}] \in Nat
        OBVIOUS
      <3>1. w[Picked(s)] \in Nat /\ sum[s \ {Picked(s)}] \in Nat
        BY <1>1
      <3> QED
        BY <3>1
    <2>3. \A s \in SUBSET U : Cardinality(s) <= n => next[s] = sum[s]
      BY <2>1
    <2>4. ASSUME NEW s \in SUBSET U, Cardinality(s) <= n + 1 PROVE Right(next, s)
      <3>1. CASE s = {}
        BY <3>1
      <3>2. CASE s # {}
        <4>1. /\ s \ {Picked(s)} \in SUBSET U
              /\ Cardinality(s \ {Picked(s)}) <= n
          BY <1>1, <2>4, <3>2
        <4>2. next[s \ {Picked(s)}] = sum[s \ {Picked(s)}]
          BY <4>1, <2>3
        <4>3. next[s] = w[Picked(s)] + sum[s \ {Picked(s)}]
          BY <3>2
        <4> HIDE DEF next
        <4> QED
          BY <3>2, <4>2, <4>3
      <3> QED
        BY <3>1, <3>2
    <2> HIDE DEF next, Right
    <2> QED
      BY <2>2, <2>4
  <1>4. Cardinality(U) \in Nat
    BY FS_CardinalityType
  <1>5. Cardinality(U) \in Upto
    <2> HIDE DEF Upto
    <2> QED
      BY <1>2, <1>3, <1>4, CountingUp
  <1>6. PICK sum \in [SUBSET U -> Nat] :
           \A s \in SUBSET U : Cardinality(s) <= Cardinality(U) => Right(sum, s)
    BY <1>5
  <1>7. \A s \in SUBSET U :
           sum[s] = IF s = {} THEN 0 ELSE w[Picked(s)] + sum[s \ {Picked(s)}]
    BY <1>1, <1>6
  <1> QED
    BY <1>7 DEF Adds

(* Sums over two sets agree on what is in both. *)
LEMMA SumsAgree ==
    ASSUME NEW U, NEW V, NEW w, IsFiniteSet(U), NEW f, NEW g, Adds(f, U, w), Adds(g, V, w),
           NEW s, s \in SUBSET U, s \in SUBSET V
    PROVE  f[s] = g[s]
  <1> DEFINE Differ == {t \in SUBSET U : t \subseteq V /\ f[t] # g[t]}
  <1> SUFFICES ASSUME Differ # {} PROVE FALSE
    OBVIOUS
  <1>1. PICK t \in Differ : \A x \in t : t \ {x} \notin Differ
    <2> HIDE DEF Differ
    <2>1. Differ \subseteq SUBSET U
      BY DEF Differ
    <2> QED
      BY <2>1, Smallest
  <1>2. /\ f[t] = IF t = {} THEN 0 ELSE w[Picked(t)] + f[t \ {Picked(t)}]
        /\ g[t] = IF t = {} THEN 0 ELSE w[Picked(t)] + g[t \ {Picked(t)}]
    BY DEF Adds
  <1>3. t # {} /\ Picked(t) \in t
    BY <1>2 DEF Picked
  <1>4. f[t \ {Picked(t)}] = g[t \ {Picked(t)}]
    BY <1>1, <1>3
  <1> QED
    BY <1>2, <1>3, <1>4

(* There is such a sum, and the order in which it is taken does not matter.*)
LEMMA InAnyOrder ==
    ASSUME NEW U, IsFiniteSet(U), NEW w, \A x \in U : w[x] \in Nat
    PROVE  \E sum : AddsUp(sum, U, w)
  <1>0. PICK sum \in [SUBSET U -> Nat] : Adds(sum, U, w)
    BY SumExists
  <1> DEFINE Wrong == {t \in SUBSET U : \E y \in t : sum[t] # w[y] + sum[t \ {y}]}
  <1> SUFFICES ASSUME Wrong # {} PROVE FALSE
    <2> SUFFICES ASSUME Wrong = {} PROVE AddsUp(sum, U, w)
      OBVIOUS
    <2> QED
      BY <1>0 DEF AddsUp
  <1>1. PICK t \in Wrong : \A y \in t : t \ {y} \notin Wrong
    <2> HIDE DEF Wrong
    <2>1. Wrong \subseteq SUBSET U
      BY DEF Wrong
    <2> QED
      BY <2>1, Smallest
  <1>2. PICK y \in t : sum[t] # w[y] + sum[t \ {y}]
    OBVIOUS
  <1> DEFINE z == Picked(t)
  <1>3. z \in t
    BY <1>2 DEF Picked
  <1>4. sum[t] = w[z] + sum[t \ {z}]
    BY <1>0, <1>2 DEF Adds
  <1>5. z # y
    BY <1>2, <1>4
  <1> HIDE DEF z
  <1>6. sum[t \ {z}] = w[y] + sum[(t \ {z}) \ {y}]
    BY <1>1, <1>2, <1>3, <1>5
  <1>7. sum[t \ {y}] = w[z] + sum[(t \ {y}) \ {z}]
    BY <1>1, <1>2, <1>3, <1>5
  <1>8. (t \ {z}) \ {y} = (t \ {y}) \ {z} /\ (t \ {z}) \ {y} \in SUBSET U
    OBVIOUS
  <1>9. w[y] \in Nat /\ w[z] \in Nat /\ sum[(t \ {z}) \ {y}] \in Nat
    BY <1>2, <1>3, <1>8
  <1>10. sum[t] = w[y] + sum[t \ {y}]
    <2> HIDE DEF Wrong
    <2> DEFINE rest == sum[(t \ {z}) \ {y}]
    <2>1. sum[t] = w[z] + (w[y] + rest) /\ sum[t \ {y}] = w[z] + rest /\ rest \in Nat
      BY <1>4, <1>6, <1>7, <1>8, <1>9
    <2> HIDE DEF rest
    <2> QED
      BY <2>1, <1>9
  <1> QED
    BY <1>2, <1>10

-----------------------------------------------------------------------------
(* What units declare together. *)
Declared(units) == MapThenSumSet(LAMBDA u : Cost[u], units)

(* The plan in hand was judged to fit and declares the cost of every unit. *)
Fits == /\ pc # "idle" /\ mode \in {"SAFE", "CAUTION"}
        /\ \A u \in UnitsOf(job) : Cost[u] > 0

(* Such a plan defers nothing, and what is left pays for what is pending   *)
(* and for the margin.                                                     *)
PaidFor == Fits => /\ Having(status, "deferred") = {}
                   /\ Declared(Having(status, "pending")) + Margin <= remaining

(* What units declare is the sum of their costs. *)
LEMMA DeclaredIsSum ==
    ASSUME NEW U, IsFiniteSet(U), U \subseteq Units,
           NEW sum \in [SUBSET U -> Nat], Adds(sum, U, Cost),
           NEW S \in SUBSET U
    PROVE  Declared(S) = sum[S]
  <1> DEFINE Sums(f) == f = [s \in SUBSET S |->
                  IF s = {} THEN 0
                  ELSE Cost[CHOOSE u \in s : TRUE] + f[s \ {CHOOSE u \in s : TRUE}]]
             iter == CHOOSE f : Sums(f)
  <1>1. Declared(S) = iter[S]
    BY DEF Declared, MapThenSumSet, MapThenFoldSet
  <1>2. IsFiniteSet(S) /\ \A x \in S : Cost[x] \in Nat
    BY FS_Subset, CostAssumption
  <1>3. PICK f : Adds(f, S, Cost)
    BY <1>2, SumExists
  <1>4. Sums(f)
    BY <1>3 DEF Adds, Picked
  <1>5. Sums(iter)
    <2> HIDE DEF Sums
    <2> QED
      BY <1>4
  <1>6. Adds(iter, S, Cost)
    <2> HIDE DEF iter
    <2> QED
      BY <1>5 DEF Adds, Picked
  <1> HIDE DEF iter
  <1>7. iter[S] = sum[S]
    BY <1>2, <1>6, SumsAgree
  <1> QED
    BY <1>1, <1>7

(* Units taken away declare their cost less; none declare nothing.         *)
LEMMA DeclaredLaws ==
    ASSUME NEW U, IsFiniteSet(U), U \subseteq Units
    PROVE  /\ Declared(U) \in Nat /\ Declared({}) = 0
           /\ \A u \in U : /\ Declared(U) = Cost[u] + Declared(U \ {u})
                           /\ Declared(U \ {u}) \in Nat
  <1>1. \A u \in U : Cost[u] \in Nat
    BY CostAssumption
  <1>2. PICK sum : AddsUp(sum, U, Cost)
    BY <1>1, InAnyOrder
  <1>3. \A S \in SUBSET U : Declared(S) = sum[S]
    BY <1>2, DeclaredIsSum DEF AddsUp
  <1>4. sum[{}] = 0
    BY <1>2 DEF Adds, AddsUp
  <1> QED
    BY <1>2, <1>3, <1>4 DEF AddsUp

(* The units of a job are finitely many. *)
LEMMA UnitsAreFinite ==
    ASSUME NEW j \in Jobs, NEW S \in SUBSET UnitsOf(j)
    PROVE  IsFiniteSet(S) /\ S \subseteq Units
  <1>1. UnitsOf(j) \subseteq Units
    BY PlanFacts
  <1>2. Plan[j] \in Seq(Units)
    BY PlanAssumption
  <1>3. Len(Plan[j]) \in Nat /\ DOMAIN Plan[j] = 1..Len(Plan[j])
    BY <1>2
  <1>4. IsFiniteSet(1..Len(Plan[j]))
    <2>1. 1 \in Int /\ Len(Plan[j]) \in Int
      BY <1>3
    <2> QED
      BY <2>1, FS_Interval
  <1>5. UnitsOf(j) = {Plan[j][n] : n \in 1..Len(Plan[j])}
    BY <1>3 DEF UnitsOf, ToSet
  <1>6. Plan[j] \in Surjection(1..Len(Plan[j]), UnitsOf(j))
    <2>1. Plan[j] \in [1..Len(Plan[j]) -> UnitsOf(j)]
      BY <1>2, <1>3, <1>5
    <2>2. \A u \in UnitsOf(j) : \E n \in 1..Len(Plan[j]) : Plan[j][n] = u
      BY <1>5
    <2> QED
      BY <2>1, <2>2, Fun_IsSurj
  <1>7. IsFiniteSet(UnitsOf(j))
    BY <1>4, <1>6, FS_Surjection
  <1> QED
    BY <1>1, <1>7, FS_Subset

(* A plan that is judged to fit defers nothing, and can be paid for.       *)
LEMMA ExecutePays ==
    ASSUME TypeOK, NEW j \in Jobs, NEW statuses \in [UnitsOf(j) -> Statuses], Execute(j, statuses),
           Having(statuses, "deferred") = {}
    PROVE  PaidFor'
  <1> SUFFICES ASSUME Fits'
               PROVE  /\ Having(status', "deferred") = {}
                      /\ Declared(Having(status', "pending")) + Margin <= remaining'
    BY DEF PaidFor
  <1> DEFINE pending == Having(statuses, "pending")
  <1>1. /\ job' = j /\ mode' = Mode(remaining', Estimated(pending), FALSE)
        /\ status' = Adapted(statuses, mode') /\ remaining' \in 0..100
    BY CostAssumption DEF Execute
  <1>2. mode' \in {"SAFE", "CAUTION"} /\ \A u \in UnitsOf(j) : Cost[u] > 0
    BY <1>1 DEF Fits
  <1>3. status' = statuses
    BY <1>1, <1>2 DEF Adapted, Sheds
  <1>4. Margin \in Nat /\ remaining' > Margin /\ ~(Estimated(pending) > remaining' - Margin)
    BY <1>1, <1>2, RiskAssumption DEF Mode, Usable, Exhausted
  <1>5. IsFiniteSet(pending) /\ pending \subseteq Units /\ pending \subseteq UnitsOf(j)
    BY UnitsAreFinite DEF Having
  <1>6. Declared(pending) \in Nat /\ Declared({}) = 0
    BY <1>5, DeclaredLaws
  <1>7. CASE pending = {}
    <2>1. Declared(pending) + Margin <= remaining'
      <3> HIDE DEF pending
      <3> QED
        BY <1>1, <1>4, <1>6, <1>7
    <2> QED
      BY <1>3, <2>1
  <1>8. CASE pending # {}
    <2>1. PICK u : u \in pending
      BY <1>8
    <2>2. /\ Declared(pending) = Cost[u] + Declared(pending \ {u})
          /\ Declared(pending \ {u}) \in Nat /\ Cost[u] > 0 /\ Cost[u] \in Nat
      BY <1>2, <1>5, <2>1, DeclaredLaws, CostAssumption
    <2>3. Declared(pending) # 0
      BY <2>2
    <2>4. Estimated(pending) = Declared(pending)
      BY <2>3 DEF Estimated, Declared
    <2>5. Declared(pending) + Margin <= remaining'
      <3> HIDE DEF pending
      <3> QED
        BY <1>1, <1>4, <1>6, <2>4
    <2> QED
      BY <1>3, <2>5
  <1> QED
    BY <1>7, <1>8

(* The next unit can be afforded, and pays no more than it declared.       *)
LEMMA ExecuteUnitPays ==
    ASSUME TypeOK, PaidFor, ExecuteUnit
    PROVE  PaidFor'
  <1> SUFFICES ASSUME Fits'
               PROVE  /\ Having(status', "deferred") = {}
                      /\ Declared(Having(status', "pending")) + Margin <= remaining'
    BY DEF PaidFor
  <1>1. PICK u \in UnitsOf(job) :
          /\ IsNext(u)
          /\ remaining' = IF Affords(remaining, u) THEN remaining - ChargeOf(u) ELSE 0
          /\ status' = AfterUnit([status EXCEPT ![u] = Outcome(Affords(remaining, u))], remaining')
    BY DEF ExecuteUnit
  <1>2. pc = "executing" /\ UNCHANGED <<job, mode>>
    BY DEF ExecuteUnit
  <1>3. job \in Jobs /\ status \in [UnitsOf(job) -> Statuses] /\ remaining \in 0..100
    BY <1>2 DEF TypeOK
  <1>4. u \in Units /\ status[u] = "pending"
    BY <1>1, <1>3, PlanFacts DEF IsNext
  <1> DEFINE pending == Having(status, "pending")
             outcome == [status EXCEPT ![u] = "completed"]
  <1>5. Fits /\ \A v \in UnitsOf(job) : Cost[v] > 0 /\ Cost[v] \in Nat
    BY <1>2, <1>3, PlanFacts, CostAssumption DEF Fits
  <1>6. Having(status, "deferred") = {} /\ Declared(pending) + Margin <= remaining
    BY <1>5 DEF PaidFor
  <1>7. u \in pending /\ pending \subseteq UnitsOf(job) /\ Margin \in Nat
    BY <1>3, <1>4, RiskAssumption DEF Having
  <1>8. IsFiniteSet(pending) /\ pending \subseteq Units
    BY <1>3, <1>7, UnitsAreFinite
  <1>9. /\ Declared(pending) = Cost[u] + Declared(pending \ {u})
        /\ Declared(pending \ {u}) \in Nat
    BY <1>7, <1>8, DeclaredLaws
  <1>10. Affords(remaining, u) /\ remaining' = remaining - Cost[u]
    BY <1>1, <1>3, <1>5, <1>6, <1>7, <1>9 DEF Affords, ChargeOf
  <1>11. status' = AfterUnit(outcome, remaining')
    BY <1>1, <1>10 DEF Outcome
  <1>12. outcome \in [UnitsOf(job) -> Statuses] /\ Having(outcome, "pending") = pending \ {u}
         /\ Having(outcome, "deferred") = {}
    BY <1>3, <1>4, <1>6 DEF Statuses, Having
  <1>13. Declared(pending \ {u}) + Margin <= remaining'
    BY <1>3, <1>5, <1>6, <1>7, <1>9, <1>10
  <1>14. CASE ~Exhausted(remaining')
    BY <1>11, <1>12, <1>13, <1>14 DEF AfterUnit
  <1>15. CASE Exhausted(remaining')
    <2>1. Declared(pending \ {u}) = 0
      BY <1>3, <1>5, <1>7, <1>9, <1>10, <1>13, <1>15 DEF Exhausted
    <2>2. pending \ {u} = {}
      <3> SUFFICES ASSUME NEW v \in pending \ {u} PROVE FALSE
        OBVIOUS
      <3>1. IsFiniteSet(pending \ {u}) /\ pending \ {u} \subseteq Units
        BY <1>8, FS_Subset
      <3>2. /\ Declared(pending \ {u}) = Cost[v] + Declared((pending \ {u}) \ {v})
            /\ Declared((pending \ {u}) \ {v}) \in Nat
        BY <3>1, DeclaredLaws
      <3> QED
        BY <1>5, <1>7, <2>1, <3>2
    <2>3. status' = outcome
      BY <1>11, <1>12, <1>15, <2>2 DEF AfterUnit, Having
    <2> QED
      BY <1>12, <1>13, <2>3
  <1> QED
    BY <1>14, <1>15

(* Only execute() and its loop touch a plan in hand. *)
LEMMA PayingStep == TypeOK /\ PaidFor /\ [Next]_vars => PaidFor'
  <1> SUFFICES ASSUME TypeOK, PaidFor, [Next]_vars PROVE PaidFor'
    OBVIOUS
  <1>1. ASSUME NEW t \in Tasks, Run(t) PROVE PaidFor'
    <2>1. /\ t \in Jobs /\ FreshPlan(t) \in [UnitsOf(t) -> Statuses]
          /\ Having(FreshPlan(t), "deferred") = {}
      BY PlanFacts DEF FreshPlan, Statuses, Having
    <2> QED
      BY <1>1, <2>1, ExecutePays DEF Run
  <1>2. CASE Resume
    <2>1. /\ checkpoint.job \in Jobs
          /\ checkpoint.status \in [UnitsOf(checkpoint.job) -> Statuses]
      BY <1>2, DocumentType DEF Resume
    <2>2. ResumedPlan(checkpoint.status) \in [UnitsOf(checkpoint.job) -> Statuses]
      BY <2>1, ResumedType
    <2>3. Having(ResumedPlan(checkpoint.status), "deferred") = {}
      BY <2>1 DEF ResumedPlan, Having
    <2> QED
      BY <1>2, <2>1, <2>2, <2>3, ExecutePays DEF Resume
  <1>3. CASE Finish \/ Crash
    BY <1>3 DEF Finish, Crash, CommandEnds, PaidFor, Fits
  <1>4. ASSUME UNCHANGED <<pc, job, status, mode, remaining>> PROVE PaidFor'
    BY <1>4 DEF PaidFor, Fits
  <1>5. ASSUME NEW c \in Calls, CallFunction(c) PROVE PaidFor'
    BY <1>4, <1>5 DEF CallFunction, cli
  <1>6. CASE \/ FunctionReturns \/ FunctionRaises \/ SaveCall \/ AgentCrash \/ UNCHANGED vars
    BY <1>4, <1>6 DEF FunctionReturns, FunctionRaises, SaveCall, AgentCrash, CallEnds, cli, vars
  <1> QED
    BY <1>1, <1>2, <1>3, <1>5, <1>6, ExecuteUnitPays DEF Next

(* What assess() judges SAFE or CAUTION is done to its last unit, however  *)
(* many units it has and whatever each declares, in a first run or resumed:*)
(* the mode was decided on the sum of all costs, and the budget stays      *)
(* ahead of what is pending by the margin.                                 *)
THEOREM FittingPlansFinish == Spec => []FittingPlanFinishes
  <1>1. Init => PaidFor
    BY DEF Init, PaidFor, Fits
  <1>2. Inv /\ PaidFor => FittingPlanFinishes
    <2> SUFFICES ASSUME Inv, PaidFor, pc = "finishing", mode \in {"SAFE", "CAUTION"},
                        \A u \in UnitsOf(job) : Cost[u] > 0
                 PROVE  Having(status, "deferred") = {} /\ remaining >= Margin
      BY DEF FittingPlanFinishes
    <2>1. /\ Having(status, "deferred") = {}
          /\ Declared(Having(status, "pending")) + Margin <= remaining
      BY DEF PaidFor, Fits
    <2>2. Having(status, "pending") = {}
      BY DEF Inv, Decided
    <2>3. Declared({}) = 0
      BY DeclaredLaws, FS_EmptySet
    <2>4. Margin \in Nat /\ remaining \in Nat
      BY RiskAssumption DEF Inv, TypeOK
    <2> QED
      BY <2>1, <2>2, <2>3, <2>4
  <1>3. Inv => TypeOK
    BY DEF Inv
  <1> QED
    BY <1>1, <1>2, <1>3, PayingStep, Invariance, PTL DEF Spec
=============================================================================
