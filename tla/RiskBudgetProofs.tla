-------------------------- MODULE RiskBudgetProofs --------------------------
(***************************************************************************)
(* What RiskBudget guarantees for any number of processes, any weights and *)
(* any legal thresholds.  The induction needs, besides the properties, who *)
(* has the file open (Handles), that a verdict is the one its state calls  *)
(* for (VerdictsMatch), and, for calls that do not overlap, that the only  *)
(* call in flight has read what the last record wrote (OneCall).           *)
(***************************************************************************)
EXTENDS RiskBudget, SequenceTheorems, TLAPS

Handles == \A p \in Procs : (pc[p] = "write") <=> (handle[p] # "closed")

VerdictsMatch == \A i \in 1..Len(session) : session[i].verdict = Verdict(session[i].state)

InFlight(p) ==
    /\ \A q \in Procs \ {p} : Between(q)
    /\ held[p] = Recorded(Before(Len(session) + 1), weight[p])
    /\ pc[p] = "save" => file \notin Unreadable
    /\ pc[p] = "write" => file = Empty /\ handle[p] = "open"

OneCall == alone => \A p \in Procs : Between(p) \/ InFlight(p)

Inv == TypeOK /\ DocumentsBalance /\ Handles /\ VerdictsMatch /\ SessionAccounted /\ OneCall

-----------------------------------------------------------------------------
(* The state of a session that has recorded nothing is a balanced account. *)
LEMMA FreshBalances == Fresh \in State /\ Balanced(Fresh)
  BY ConfigAssumption DEF Fresh, State, Balanced

(* The weight of an operation is a natural number: penalties only add.     *)
LEMMA WeightIsNat ==
    ASSUME NEW operation, NEW repeat \in Repeats
    PROVE  Weight(operation, repeat) \in Nat
  <1>1. repeat - 1 \in Nat
    BY ConfigAssumption
  <1>2. Penalty * (repeat - 1) \in Nat
    BY <1>1, ConfigAssumption
  <1>3. (IF operation \in Operations THEN Weights[operation] ELSE UnknownWeight) \in Nat
    BY ConfigAssumption
  <1> QED
    BY <1>2, <1>3 DEF Weight

(* Recording an operation keeps the account balanced, and never gives      *)
(* budget back.                                                            *)
LEMMA RecordingBalances ==
    ASSUME NEW state \in State, NEW w \in Nat
    PROVE  /\ Recorded(state, w) \in State
           /\ Balanced(state) => Balanced(Recorded(state, w))
           /\ Recorded(state, w).remaining <= state.remaining
  BY ConfigAssumption DEF State, Balanced, Recorded, Less

(* Less budget is never a milder verdict. *)
LEMMA VerdictTightens ==
    ASSUME NEW s \in State, NEW t \in State, t.remaining <= s.remaining
    PROVE  Verdict(s) \in Verdicts /\ Rank[Verdict(s)] <= Rank[Verdict(t)]
  BY ConfigAssumption DEF Verdict, Verdicts, Rank, State

(* What _load returns is an account, when it returns.                      *)
LEMMA LoadingBalances ==
    ASSUME TypeOK, DocumentsBalance, file \notin Unreadable
    PROVE  Loaded \in State /\ Balanced(Loaded)
  BY FreshBalances DEF TypeOK, DocumentsBalance, Loaded, Unreadable

(* What a session's last record left, for every prefix of the session.     *)
LEMMA BeforeType ==
    ASSUME session \in Seq(Record), NEW i \in 1..(Len(session) + 1)
    PROVE  Before(i) \in State
  <1>1. CASE i = 1
    BY <1>1, FreshBalances DEF Before
  <1>2. CASE i # 1
    <2>1. i - 1 \in 1..Len(session)
      BY <1>2
    <2>2. session[i - 1] \in Record
      BY <2>1
    <2> QED
      BY <1>2, <2>2 DEF Before, Record
  <1> QED
    BY <1>1, <1>2

-----------------------------------------------------------------------------
(* The invariant holds before anything was recorded. *)
LEMMA InitInv == Init => Inv
  <1> SUFFICES ASSUME Init PROVE Inv
    OBVIOUS
  <1> USE DEF Init
  <1>1. session = <<>> /\ session \in Seq(Record) /\ Len(session) = 0
    BY EmptySeq
  <1>2. TypeOK
    BY <1>1, FreshBalances DEF TypeOK, State
  <1>3. DocumentsBalance
    BY FreshBalances, FileAssumption DEF DocumentsBalance
  <1>4. Handles
    BY DEF Handles
  <1>5. VerdictsMatch
    BY <1>1 DEF VerdictsMatch
  <1>6. SessionAccounted
    BY <1>1, FileAssumption DEF SessionAccounted, Loaded, Before
  <1>7. OneCall
    BY DEF OneCall, Between
  <1> QED
    BY <1>2, <1>3, <1>4, <1>5, <1>6, <1>7 DEF Inv

(* A step that leaves the file and the session alone leaves what was       *)
(* recorded accounted for.                                                 *)
LEMMA SessionUntouched ==
    ASSUME SessionAccounted, VerdictsMatch, UNCHANGED <<file, session>>, alone' => alone
    PROVE  SessionAccounted' /\ VerdictsMatch'
  BY DEF SessionAccounted, VerdictsMatch, Before, Loaded

(* Reading the file: the call is alone, or from now on none is.            *)
LEMMA LoadInv ==
    ASSUME Inv, NEW p \in Procs, Load(p)
    PROVE  Inv'
  <1> USE DEF Inv
  <1>1. PICK operation \in Operations \cup {"unknown"}, repeat \in Repeats :
           /\ weight' = [weight EXCEPT ![p] = Weight(operation, repeat)]
           /\ held' = [held EXCEPT ![p] = Recorded(Loaded, Weight(operation, repeat))]
    BY DEF Load
  <1> DEFINE w == Weight(operation, repeat)
  <1>2. w \in Nat /\ Loaded \in State /\ Balanced(Loaded)
    BY WeightIsNat, LoadingBalances DEF Load
  <1>3. Recorded(Loaded, w) \in State /\ Balanced(Recorded(Loaded, w))
    BY <1>2, RecordingBalances
  <1> HIDE DEF w
  <1>9. /\ pc' = [pc EXCEPT ![p] = "save"] /\ alone' = (alone /\ OthersIdle(p))
        /\ weight' = [weight EXCEPT ![p] = w]
        /\ held' = [held EXCEPT ![p] = Recorded(Loaded, w)]
        /\ UNCHANGED <<file, handle, session>>
    BY <1>1 DEF Load, w
  <1>10. alone' \in BOOLEAN
    BY <1>9 DEF TypeOK, OthersIdle
  <1>4. TypeOK'
    BY <1>9, <1>10, <1>2, <1>3 DEF TypeOK
  <1>5. DocumentsBalance'
    BY <1>9, <1>3 DEF DocumentsBalance, TypeOK
  <1>6. Handles'
    BY DEF Handles, Load, Between, TypeOK
  <1>7. VerdictsMatch' /\ SessionAccounted'
    BY SessionUntouched DEF Load
  <1>8. OneCall'
    <2> SUFFICES ASSUME alone', NEW q \in Procs, ~Between(q)'
                 PROVE  InFlight(q)'
      BY DEF OneCall
    <2>1. alone /\ OthersIdle(p)
      BY DEF Load
    <2>2. q = p
      BY <2>1 DEF OthersIdle, Between, Load, TypeOK
    <2>3. \A r \in Procs \ {p} : Between(r)'
      BY <2>1 DEF OthersIdle, Between, Load, TypeOK
    <2>4. held'[p] = Recorded(Before(Len(session) + 1), weight'[p])
      BY <1>1, <2>1 DEF Load, SessionAccounted, TypeOK, w
    <2>5. Before(Len(session) + 1)' = Before(Len(session) + 1)
      BY DEF Before, Load
    <2>6. pc'[p] = "save" /\ file' \notin Unreadable
      BY DEF Load, TypeOK
    <2> QED
      BY <2>2, <2>3, <2>4, <2>5, <2>6 DEF InFlight
  <1> QED
    BY <1>4, <1>5, <1>6, <1>7, <1>8

(* A call that finds the file unreadable leaves everything as it is.       *)
LEMMA LoadFailsInv ==
    ASSUME Inv, NEW p \in Procs, LoadFails(p)
    PROVE  Inv'
  <1> USE DEF Inv, LoadFails, locals
  <1>1. TypeOK' /\ DocumentsBalance'
    BY DEF TypeOK, DocumentsBalance
  <1>2. Handles'
    BY DEF Handles, Between, TypeOK
  <1>3. VerdictsMatch' /\ SessionAccounted'
    BY SessionUntouched
  <1>4. \A q \in Procs : Between(q) => Between(q)'
    BY DEF Between, TypeOK
  <1>5. \A q \in Procs : q = p \/ pc'[q] = pc[q]
    BY DEF TypeOK
  <1>6. OneCall'
    BY <1>4, <1>5 DEF OneCall, InFlight, Before
  <1> QED
    BY <1>1, <1>2, <1>3, <1>6

(* Emptying the file: the only call in flight has already read it.         *)
LEMMA TruncateInv ==
    ASSUME Inv, NEW p \in Procs, Truncate(p)
    PROVE  Inv'
  <1> USE DEF Inv, Truncate
  <1>1. TypeOK' /\ DocumentsBalance'
    BY FileAssumption DEF TypeOK, DocumentsBalance
  <1>2. Handles'
    BY DEF Handles, TypeOK
  <1>3. VerdictsMatch' /\ SessionAccounted'
    BY FileAssumption DEF SessionAccounted, VerdictsMatch, Before, Unreadable
  <1>4. \A q \in Procs : q = p \/ pc'[q] = pc[q]
    BY DEF TypeOK
  <1>5. pc'[p] = "write" /\ handle'[p] = "open" /\ file' = Empty
    BY DEF TypeOK
  <1>6. OneCall'
    <2> SUFFICES ASSUME alone', NEW q \in Procs, ~Between(q)'
                 PROVE  InFlight(q)'
      BY DEF OneCall
    <2>1. InFlight(p)
      BY DEF OneCall, Between
    <2>2. q = p
      BY <2>1, <1>4 DEF InFlight, Between
    <2>3. \A r \in Procs \ {p} : Between(r)'
      BY <2>1, <1>4 DEF InFlight, Between
    <2> QED
      BY <2>1, <2>2, <2>3, <1>5 DEF InFlight, Before
  <1> QED
    BY <1>1, <1>2, <1>3, <1>6

(* reset(): a call in flight keeps what it read, so no call counts as      *)
(* alone before it has ended.                                              *)
LEMMA ResetInv ==
    ASSUME Inv, NEW p \in Procs, Reset(p)
    PROVE  Inv'
  <1> USE DEF Inv, Reset
  <1>1. session' = <<>> /\ session' \in Seq(Record) /\ Len(session') = 0
    BY EmptySeq
  <1>2. TypeOK'
    BY <1>1 DEF TypeOK, OthersIdle
  <1>3. DocumentsBalance'
    BY FileAssumption DEF DocumentsBalance
  <1>4. Handles'
    BY DEF Handles, TypeOK, Between
  <1>5. VerdictsMatch'
    BY <1>1 DEF VerdictsMatch
  <1>6. SessionAccounted'
    BY <1>1, FileAssumption DEF SessionAccounted, Loaded, Before
  <1>7. OneCall'
    BY DEF OneCall, OthersIdle, Between, TypeOK
  <1> QED
    BY <1>2, <1>3, <1>4, <1>5, <1>6, <1>7

(* What ends with a call: its own variables, and it is no longer in flight. *)
LEMMA EndsType ==
    ASSUME TypeOK, Handles, NEW p \in Procs, NEW outcome \in {"idle", "raised"}, Ends(p, outcome)
    PROVE  /\ pc' \in [Procs -> {"idle", "raised", "save", "write"}]
           /\ held' \in [Procs -> State] /\ weight' \in [Procs -> Nat]
           /\ handle' \in [Procs -> {"closed", "open", "removed"}]
           /\ Handles'
           /\ Between(p)'
           /\ \A q \in Procs \ {p} : Between(q) => Between(q)'
           /\ \A q \in Procs \ {p} : held'[q] = held[q]
           /\ held'[p] = Fresh
  BY FreshBalances DEF Ends, TypeOK, Handles, Between

(* A call that dies leaves the file as it is: unread, or emptied.          *)
LEMMA CrashInv ==
    ASSUME Inv, NEW p \in Procs, Crash(p)
    PROVE  Inv'
  <1> USE DEF Inv, Crash
  <1>1. TypeOK' /\ Handles'
    BY EndsType DEF TypeOK
  <1>2. DocumentsBalance'
    BY EndsType, FreshBalances DEF DocumentsBalance
  <1>3. VerdictsMatch' /\ SessionAccounted'
    BY SessionUntouched
  <1>4. OneCall'
    <2> SUFFICES ASSUME alone', NEW q \in Procs PROVE Between(q)'
      BY DEF OneCall
    <2>1. InFlight(p)
      BY DEF OneCall
    <2> QED
      BY <2>1, EndsType DEF InFlight
  <1> QED
    BY <1>1, <1>2, <1>3, <1>4

(* What Write appends is an account of its type, and its verdict the one   *)
(* its state calls for.                                                    *)
LEMMA RecordType ==
    ASSUME TypeOK, NEW p \in Procs
    PROVE  [weight |-> weight[p], state |-> held[p], verdict |-> Verdict(held[p])] \in Record
  <1>1. held[p] \in State /\ weight[p] \in Nat
    BY DEF TypeOK
  <1>2. held[p].remaining <= held[p].remaining
    BY <1>1 DEF State
  <1>3. Verdict(held[p]) \in Verdicts
    BY <1>1, <1>2, VerdictTightens
  <1> QED
    BY <1>1, <1>3 DEF Record

(* Returning from record(): a call that was alone continues the session.   *)
LEMMA WriteInv ==
    ASSUME Inv, NEW p \in Procs, Write(p)
    PROVE  Inv'
  <1> USE DEF Inv
  <1> DEFINE r == [weight |-> weight[p], state |-> held[p], verdict |-> Verdict(held[p])]
             n == Len(session)
  <1>1. r \in Record /\ r.weight = weight[p] /\ r.state = held[p] /\ r.verdict = Verdict(held[p])
    BY RecordType
  <1>2. session' = Append(session, r) /\ file' \in Written(p) /\ alone' = alone
        /\ pc[p] = "write" /\ Ends(p, "idle")
    BY DEF Write
  <1>3. session \in Seq(Record) /\ held[p] \in State /\ alone \in BOOLEAN /\ n \in Nat
    BY DEF TypeOK
  <1> HIDE DEF r
  <1>4. /\ session' \in Seq(Record) /\ Len(session') = n + 1 /\ session'[n + 1] = r
        /\ \A i \in 1..n : session'[i] = session[i]
    BY <1>1, <1>2, <1>3, AppendProperties
  <1>5. file' \in {file, held[p], Torn}
    BY <1>2 DEF Written
  <1>6. TypeOK' /\ Handles'
    BY <1>2, <1>3, <1>4, <1>5, EndsType DEF TypeOK
  <1>7. DocumentsBalance'
    <2>1. Balanced(held[p]) /\ \A q \in Procs : Balanced(held[q])
      BY DEF DocumentsBalance
    <2>2. file' \in State => Balanced(file')
      BY <1>5, <2>1, FileAssumption DEF DocumentsBalance
    <2>3. \A q \in Procs : Balanced(held'[q])
      BY <1>2, <2>1, EndsType, FreshBalances
    <2> QED
      BY <2>2, <2>3 DEF DocumentsBalance
  <1>8. VerdictsMatch'
    <2> SUFFICES ASSUME NEW i \in 1..(n + 1)
                 PROVE  session'[i].verdict = Verdict(session'[i].state)
      BY <1>4 DEF VerdictsMatch
    <2>1. CASE i \in 1..n
      BY <2>1, <1>4 DEF VerdictsMatch
    <2>2. CASE i = n + 1
      BY <2>2, <1>4, <1>1
    <2> QED
      BY <2>1, <2>2, <1>3
  <1>9. ASSUME alone
        PROVE  InFlight(p) /\ file' = held[p]
    <2>1. InFlight(p)
      BY <1>2, <1>9 DEF OneCall, Between
    <2>2. file = Empty /\ handle[p] = "open"
      BY <2>1, <1>2 DEF InFlight
    <2> QED
      BY <2>1, <2>2, <1>2 DEF Written
  <1>10. \A i \in 1..(n + 1) : Before(i)' = Before(i)
    BY <1>3, <1>4 DEF Before
  <1>11. Before(Len(session) + 1)' = held[p]
    BY <1>1, <1>3, <1>4 DEF Before
  <1>12. SessionAccounted'
    <2> SUFFICES ASSUME alone'
                 PROVE  /\ \A i \in 1..(n + 1) :
                             session'[i].state = Recorded(Before(i)', session'[i].weight)
                        /\ Loaded' = Before(Len(session) + 1)' /\ file' # Torn
      BY <1>3, <1>4 DEF SessionAccounted
    <2>1. alone
      BY <1>2
    <2>2. ASSUME NEW i \in 1..(n + 1)
          PROVE  session'[i].state = Recorded(Before(i), session'[i].weight)
      <3>1. CASE i \in 1..n
        BY <3>1, <2>1, <1>4 DEF SessionAccounted
      <3>2. CASE i = n + 1
        BY <3>2, <2>1, <1>1, <1>4, <1>9 DEF InFlight
      <3> QED
        BY <3>1, <3>2, <1>3
    <2>3. Loaded' = held[p] /\ file' # Torn
      BY <2>1, <1>3, <1>9, FileAssumption DEF Loaded
    <2> QED
      BY <2>2, <2>3, <1>10, <1>11
  <1>13. OneCall'
    <2> SUFFICES ASSUME alone', NEW q \in Procs PROVE Between(q)'
      BY DEF OneCall
    <2>1. InFlight(p)
      BY <1>2, <1>9
    <2> QED
      BY <2>1, <1>2, EndsType DEF InFlight
  <1> QED
    BY <1>6, <1>7, <1>8, <1>12, <1>13

-----------------------------------------------------------------------------
(* Every step of any process, and a stutter, keeps the invariant.          *)
LEMMA NextInv == Inv /\ [Next]_vars => Inv'
  <1> SUFFICES ASSUME Inv, [Next]_vars PROVE Inv'
    OBVIOUS
  <1>1. CASE UNCHANGED vars
    BY <1>1 DEF Inv, vars, TypeOK, DocumentsBalance, Handles, VerdictsMatch, SessionAccounted,
                OneCall, InFlight, Between, Before, Loaded
  <1>2. CASE Next
    BY <1>2, LoadInv, LoadFailsInv, TruncateInv, WriteInv, ResetInv, CrashInv DEF Next
  <1> QED
    BY <1>1, <1>2

(* The invariant holds in every reachable state. *)
THEOREM Invariance == Spec => []Inv
  BY InitInv, NextInv, PTL DEF Spec

(* Every variable keeps its type, whatever the calls do to one another.    *)
THEOREM TypeCorrectness == Spec => []TypeOK
  <1>1. Inv => TypeOK
    BY DEF Inv
  <1> QED
    BY <1>1, Invariance, PTL

(* Overlaps, crashes and resets may lose records, but never leave a        *)
(* document whose remaining budget is not what its deductions leave.       *)
THEOREM AccountsBalance == Spec => []DocumentsBalance
  <1>1. Inv => DocumentsBalance
    BY DEF Inv
  <1> QED
    BY <1>1, Invariance, PTL

(* Calls that do not overlap lose no operation and count none twice.       *)
THEOREM NothingLostAlone == Spec => []SessionAccounted
  <1>1. Inv => SessionAccounted
    BY DEF Inv
  <1> QED
    BY <1>1, Invariance, PTL

(* Calls that do not overlap see permissions only ever tighten.            *)
THEOREM PermissionsOnlyTighten == Spec => []PermissionsTighten
  <1>1. ASSUME Inv, alone, NEW i \in 1..Len(session) - 1
        PROVE  /\ session[i + 1].state.remaining <= session[i].state.remaining
               /\ Rank[session[i].verdict] <= Rank[session[i + 1].verdict]
    <2>1. session \in Seq(Record) /\ i \in 1..Len(session) /\ i + 1 \in 1..Len(session) /\ i + 1 # 1
      BY <1>1 DEF Inv, TypeOK
    <2> DEFINE s == session[i].state
               t == session[i + 1].state
               w == session[i + 1].weight
    <2>2. session[i] \in Record /\ session[i + 1] \in Record
      BY <2>1
    <2>3. s \in State /\ t \in State /\ w \in Nat
      BY <2>2 DEF Record
    <2>4. Before(i + 1) = s
      BY <2>1 DEF Before
    <2>5. t = Recorded(s, w)
      BY <1>1, <2>1, <2>4 DEF Inv, SessionAccounted
    <2>6. session[i].verdict = Verdict(s) /\ session[i + 1].verdict = Verdict(t)
      BY <1>1, <2>1 DEF Inv, VerdictsMatch
    <2> HIDE DEF s, t, w
    <2>7. t.remaining <= s.remaining
      BY <2>3, <2>5, RecordingBalances
    <2>8. Rank[Verdict(s)] <= Rank[Verdict(t)]
      BY <2>3, <2>7, VerdictTightens
    <2> QED
      BY <2>6, <2>7, <2>8 DEF s, t
  <1>2. Inv => PermissionsTighten
    BY <1>1 DEF PermissionsTighten, Tightens
  <1> QED
    BY <1>2, Invariance, PTL

(* A state file nobody can read stays closed until it is reset.            *)
THEOREM CorruptionStaysClosed == Spec => UnreadableStaysClosed
  <1>1. ASSUME Inv, [Next]_vars, file \in Unreadable, AllBetween
        PROVE  file' \in {file, Absent} /\ AllBetween'
    <2>1. CASE UNCHANGED vars
      BY <1>1, <2>1 DEF vars, AllBetween, Between
    <2>2. ASSUME NEW p \in Procs, LoadFails(p) \/ Reset(p)
          PROVE  file' \in {file, Absent} /\ AllBetween'
      BY <1>1, <2>2 DEF LoadFails, Reset, locals, AllBetween, Between, Inv, TypeOK
    <2>3. ASSUME NEW p \in Procs, Load(p) \/ Truncate(p) \/ Write(p) \/ Crash(p)
          PROVE  FALSE
      BY <1>1, <2>3 DEF Load, Truncate, Write, Crash, AllBetween, Between
    <2> QED
      BY <1>1, <2>1, <2>2, <2>3 DEF Next
  <1> QED
    BY <1>1, Invariance, PTL DEF Spec, UnreadableStaysClosed
=============================================================================
