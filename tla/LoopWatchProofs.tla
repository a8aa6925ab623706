-------------------------- MODULE LoopWatchProofs --------------------------
(***************************************************************************)
(* What LoopWatch guarantees for any number of agents, signatures and      *)
(* thresholds.  Each property needs its own strengthening: that no count   *)
(* anywhere exceeds the attempts (CountsWereTried), that the only record   *)
(* in flight has read what the last one wrote (OneRecord), and that the    *)
(* document in the file has an author who is not about to replace it       *)
(* (HasAuthor).                                                            *)
(***************************************************************************)
EXTENDS LoopWatch, TLAPS

CountsWereTried ==
    /\ file \in Counts => \A s \in Signatures : file[s] <= tried[s]
    /\ \A a \in Agents, s \in Signatures : held[a][s] <= tried[s]

OneRecord ==
    alone => \A a \in Agents :
        /\ handle[a] # "removed"
        /\ ~Between(a) => /\ OthersIdle(a)
                          /\ held[a] = Counted(recorded, call[a])
                          /\ pc[a] = "save" => file \notin Unreadable
                          /\ pc[a] = "write" => file = Empty

HasAuthor ==
    file \in Counts =>
        \E a \in Agents : /\ pc[a] # "write"
                          /\ pc[a] = "stopped" => file[call[a]] >= Threshold[a]

-----------------------------------------------------------------------------
(* Counting one attempt. *)
LEMMA CountingOne ==
    ASSUME NEW counts \in Counts, NEW s \in Signatures
    PROVE  /\ Counted(counts, s) \in Counts
           /\ \A t \in Signatures : counts[t] <= Counted(counts, s)[t]
           /\ \A other \in Counts :
                 (\A t \in Signatures : other[t] <= counts[t]) =>
                     \A t \in Signatures : Counted(other, s)[t] <= Counted(counts, s)[t]
  BY DEF Counts, Counted

(* A file nobody has made counts nothing. *)
LEMMA NoneCounts == None \in Counts /\ \A s \in Signatures : None[s] = 0
  BY DEF None, Counts

(* What _load returns are counts, when it returns.                         *)
LEMMA LoadingCounts == TypeOK /\ file \notin Unreadable => Loaded \in Counts
  BY NoneCounts DEF TypeOK, Loaded, Unreadable

-----------------------------------------------------------------------------
(* Every action keeps the types. *)
LEMMA TypeStep == TypeOK /\ [Next]_vars => TypeOK'
  <1> SUFFICES ASSUME TypeOK, [Next]_vars PROVE TypeOK'
    OBVIOUS
  <1> USE DEF TypeOK
  <1>1. ASSUME NEW a \in Agents, Load(a) PROVE TypeOK'
    <2>1. Counted(Loaded, call[a]) \in Counts /\ Counted(tried, call[a]) \in Counts
      BY <1>1, LoadingCounts, CountingOne DEF Load
    <2>2. (alone /\ OthersIdle(a)) \in BOOLEAN
      BY DEF OthersIdle
    <2> QED
      BY <1>1, <2>1, <2>2 DEF Load
  <1>2. ASSUME NEW a \in Agents, LoadFails(a) PROVE TypeOK'
    BY <1>2 DEF LoadFails
  <1>3. ASSUME NEW a \in Agents, Truncate(a) PROVE TypeOK'
    BY <1>3 DEF Truncate
  <1>4. ASSUME NEW a \in Agents, Write(a) PROVE TypeOK'
    <2>1. file' \in Counts \cup {Absent, Empty, Torn}
      BY <1>4 DEF Write, Written
    <2>2. Counted(recorded, call[a]) \in Counts
      BY CountingOne
    <2> QED
      BY <1>4, <2>1, <2>2, NoneCounts DEF Write, Closes
  <1>5. ASSUME NEW a \in Agents, Reset(a) PROVE TypeOK'
    <2>1. PICK s \in Signatures : call' = [call EXCEPT ![a] = s]
      BY <1>5 DEF Reset
    <2>2. alone' \in BOOLEAN
      BY <1>5 DEF Reset, OthersIdle
    <2>3. \A b \in Agents : handle'[b] # "closed" <=> pc'[b] = "write"
      BY <1>5 DEF Reset, Between
    <2>4. /\ handle' \in [Agents -> {"closed", "open", "removed"}]
          /\ pc' \in [Agents -> {"ready", "save", "write", "raised", "stopped"}]
      BY <1>5 DEF Reset
    <2>5. resets' \in 0..MaxResets
      BY <1>5, LoopAssumption DEF Reset
    <2> QED
      BY <1>5, <2>1, <2>2, <2>3, <2>4, <2>5, NoneCounts DEF Reset
  <1>6. ASSUME NEW a \in Agents, Crash(a) PROVE TypeOK'
    <2>1. crashes' \in 0..MaxCrashes
      BY <1>6, LoopAssumption DEF Crash
    <2> QED
      BY <1>6, <2>1, NoneCounts DEF Crash, Closes
  <1>7. CASE UNCHANGED vars
    BY <1>7 DEF vars
  <1> QED
    BY <1>1, <1>2, <1>3, <1>4, <1>5, <1>6, <1>7 DEF Next, Attempt

(* Types, for any agents, signatures and thresholds: Spec => []TypeOK.     *)
THEOREM TypeCorrect == Spec => []TypeOK
  <1>1. Init => TypeOK
    BY NoneCounts, LoopAssumption DEF Init, TypeOK
  <1> QED
    BY <1>1, TypeStep, PTL DEF Spec

-----------------------------------------------------------------------------
(* No step makes a count, or the count that stopped an agent, exceed the   *)
(* attempts.                                                               *)
LEMMA TriedStep ==
    TypeOK /\ CountsWereTried /\ StopIsEarned /\ [Next]_vars
        => CountsWereTried' /\ StopIsEarned'
  <1> SUFFICES ASSUME TypeOK, CountsWereTried, StopIsEarned, [Next]_vars
               PROVE  CountsWereTried' /\ StopIsEarned'
    OBVIOUS
  <1> USE DEF TypeOK
  <1>1. ASSUME NEW a \in Agents, Load(a) PROVE CountsWereTried' /\ StopIsEarned'
    <2>1. Loaded \in Counts /\ \A s \in Signatures : Loaded[s] <= tried[s]
      BY <1>1, LoadingCounts, NoneCounts DEF Load, Loaded, CountsWereTried, Unreadable, Counts
    <2>2. \A s \in Signatures : /\ tried[s] <= tried'[s]
                                /\ Counted(Loaded, call[a])[s] <= tried'[s]
      BY <1>1, <2>1, CountingOne DEF Load
    <2>3. tried' \in Counts /\ Counted(Loaded, call[a]) \in Counts
      BY <1>1, <2>1, CountingOne DEF Load
    <2>4. file' = file /\ held' = [held EXCEPT ![a] = Counted(Loaded, call[a])]
      BY <1>1 DEF Load
    <2>5. CountsWereTried'
      BY <2>2, <2>3, <2>4 DEF CountsWereTried, Counts
    <2>6. StopIsEarned'
      <3>1. ASSUME NEW b \in Agents, pc'[b] = "stopped" PROVE tried'[call[b]] >= Threshold[b]
        <4>1. pc[b] = "stopped"
          BY <1>1, <3>1 DEF Load
        <4>2. tried[call[b]] >= Threshold[b] /\ tried[call[b]] <= tried'[call[b]]
          BY <2>2, <4>1 DEF StopIsEarned
        <4>3. tried[call[b]] \in Nat /\ tried'[call[b]] \in Nat /\ Threshold[b] \in Nat
          BY <2>3, LoopAssumption DEF Counts
        <4> QED
          BY <4>2, <4>3
      <3> QED
        BY <1>1, <3>1 DEF Load, StopIsEarned
    <2> QED
      BY <2>5, <2>6
  <1>2. ASSUME NEW a \in Agents, LoadFails(a) PROVE CountsWereTried' /\ StopIsEarned'
    BY <1>2 DEF LoadFails, CountsWereTried, StopIsEarned
  <1>3. ASSUME NEW a \in Agents, Truncate(a) PROVE CountsWereTried' /\ StopIsEarned'
    BY <1>3, LoopAssumption DEF Truncate, CountsWereTried, StopIsEarned
  <1>4. ASSUME NEW a \in Agents, Write(a) PROVE CountsWereTried' /\ StopIsEarned'
    <2>1. CountsWereTried'
      <3>1. file' \in {file, held[a], Torn}
        BY <1>4 DEF Write, Written
      <3> QED
        BY <1>4, <3>1, NoneCounts, LoopAssumption DEF Write, CountsWereTried, Counts
    <2>2. StopIsEarned'
      <3>1. ASSUME ShouldStop(held[a][call[a]], Threshold[a])
            PROVE  tried[call[a]] >= Threshold[a]
        <4>1. /\ held[a][call[a]] \in Nat /\ tried[call[a]] \in Nat /\ Threshold[a] \in Nat
              /\ held[a][call[a]] <= tried[call[a]]
          BY LoopAssumption DEF Counts, CountsWereTried
        <4> QED
          BY <3>1, <4>1 DEF ShouldStop
      <3>2. ASSUME NEW b \in Agents, pc'[b] = "stopped" PROVE tried[call[b]] >= Threshold[b]
        BY <1>4, <3>1, <3>2 DEF Write, StopIsEarned
      <3> QED
        BY <1>4, <3>2 DEF Write, StopIsEarned
    <2> QED
      BY <2>1, <2>2
  <1>5. ASSUME NEW a \in Agents, Reset(a) PROVE CountsWereTried' /\ StopIsEarned'
    <2>1. \A b \in Agents : pc'[b] # "stopped"
      BY <1>5 DEF Reset, Between
    <2> QED
      BY <1>5, <2>1, LoopAssumption DEF Reset, CountsWereTried, StopIsEarned
  <1>6. ASSUME NEW a \in Agents, Crash(a) PROVE CountsWereTried' /\ StopIsEarned'
    BY <1>6, NoneCounts DEF Crash, CountsWereTried, StopIsEarned, Counts
  <1>7. CASE UNCHANGED vars
    BY <1>7 DEF vars, CountsWereTried, StopIsEarned
  <1> QED
    BY <1>1, <1>2, <1>3, <1>4, <1>5, <1>6, <1>7 DEF Next, Attempt

(* No interleaving, crash or reset has an agent stopped before its call    *)
(* was tried as often as its threshold: Spec => []StopIsEarned.            *)
THEOREM StopsAreEarned == Spec => []StopIsEarned
  <1>1. Init => CountsWereTried /\ StopIsEarned
    BY NoneCounts, LoopAssumption DEF Init, CountsWereTried, StopIsEarned
  <1> QED
    BY <1>1, TypeCorrect, TriedStep, PTL DEF Spec

-----------------------------------------------------------------------------
(* The only record in flight continues what the last one wrote.            *)
LEMMA RecordStep ==
    TypeOK /\ CountsRecords /\ OneRecord /\ [Next]_vars => CountsRecords' /\ OneRecord'
  <1> SUFFICES ASSUME TypeOK, CountsRecords, OneRecord, [Next]_vars
               PROVE  CountsRecords' /\ OneRecord'
    OBVIOUS
  <1> USE DEF TypeOK
  <1>1. ASSUME NEW a \in Agents, Load(a) PROVE CountsRecords' /\ OneRecord'
    <2>1. CountsRecords'
      BY <1>1 DEF Load, CountsRecords, Loaded
    <2>2. OneRecord'
      <3> SUFFICES ASSUME alone', NEW b \in Agents
                   PROVE  /\ handle'[b] # "removed"
                          /\ ~Between(b)' => /\ OthersIdle(b)'
                                             /\ held'[b] = Counted(recorded, call[b])'
                                             /\ pc'[b] = "save" => file' \notin Unreadable
                                             /\ pc'[b] = "write" => file' = Empty
        BY DEF OneRecord
      <3>1. alone /\ OthersIdle(a) /\ handle'[b] # "removed"
        BY <1>1 DEF Load, OneRecord
      <3>2. ~Between(b)' => b = a /\ OthersIdle(a)'
        BY <1>1, <3>1 DEF Load, OthersIdle, Between
      <3>3. /\ held'[a] = Counted(recorded, call[a])' /\ pc'[a] = "save"
            /\ file' \notin Unreadable
        BY <1>1, <3>1 DEF Load, CountsRecords, Counted
      <3> QED
        BY <3>1, <3>2, <3>3
    <2> QED
      BY <2>1, <2>2
  <1>2. ASSUME NEW a \in Agents, LoadFails(a) PROVE CountsRecords' /\ OneRecord'
    <2>1. CountsRecords'
      BY <1>2 DEF LoadFails, CountsRecords, Loaded
    <2>2. \A b \in Agents : /\ Between(b)' <=> Between(b)
                            /\ OthersIdle(b) => OthersIdle(b)'
                            /\ ~Between(b) => pc'[b] = pc[b]
      BY <1>2 DEF LoadFails, Between, OthersIdle
    <2>3. OneRecord'
      BY <1>2, <2>2 DEF LoadFails, OneRecord, Counted
    <2> QED
      BY <2>1, <2>3
  <1>3. ASSUME NEW a \in Agents, Truncate(a) PROVE CountsRecords' /\ OneRecord'
    <2>1. CountsRecords'
      BY <1>3, LoopAssumption DEF Truncate, CountsRecords, Unreadable
    <2>2. \A b \in Agents : /\ Between(b)' <=> Between(b)
                            /\ OthersIdle(b) => OthersIdle(b)'
      BY <1>3 DEF Truncate, Between, OthersIdle
    <2>3. alone => \A b \in Agents \ {a} : Between(b)
      BY <1>3 DEF Truncate, OneRecord, OthersIdle, Between
    <2>4. OneRecord'
      BY <1>3, <2>2, <2>3 DEF Truncate, OneRecord, Counted
    <2> QED
      BY <2>1, <2>4
  <1>4. ASSUME NEW a \in Agents, Write(a) PROVE CountsRecords' /\ OneRecord'
    <2>1. alone => /\ OthersIdle(a) /\ handle[a] = "open" /\ file = Empty
                   /\ held[a] = Counted(recorded, call[a])
      BY <1>4 DEF Write, OneRecord, Between
    <2>2. alone => file' = recorded' /\ recorded' \in Counts
      BY <1>4, <2>1, CountingOne DEF Write, Written
    <2>3. CountsRecords'
      BY <1>4, <2>2, LoopAssumption DEF Write, CountsRecords, Loaded
    <2>4. alone => \A b \in Agents : Between(b)'
      BY <1>4, <2>1 DEF Write, OthersIdle, Between
    <2>5. OneRecord'
      BY <1>4, <2>4 DEF Write, Closes, OneRecord
    <2> QED
      BY <2>3, <2>5
  <1>5. ASSUME NEW a \in Agents, Reset(a) PROVE CountsRecords' /\ OneRecord'
    <2>1. CountsRecords'
      BY <1>5, LoopAssumption DEF Reset, CountsRecords, Loaded
    <2>2. alone' => \A b \in Agents : Between(b)' /\ handle[b] = "closed"
      BY <1>5 DEF Reset, OthersIdle, Between
    <2>3. OneRecord'
      BY <1>5, <2>2 DEF Reset, OneRecord
    <2> QED
      BY <2>1, <2>3
  <1>6. ASSUME NEW a \in Agents, Crash(a) PROVE CountsRecords' /\ OneRecord'
    <2>1. CountsRecords'
      BY <1>6 DEF Crash, CountsRecords, Loaded
    <2>2. alone => \A b \in Agents : Between(b)'
      BY <1>6 DEF Crash, OneRecord, OthersIdle, Between
    <2>3. OneRecord'
      BY <1>6, <2>2 DEF Crash, Closes, OneRecord
    <2> QED
      BY <2>1, <2>3
  <1>7. CASE UNCHANGED vars
    BY <1>7 DEF vars, CountsRecords, OneRecord, Loaded, Between, OthersIdle, Counted
  <1> QED
    BY <1>1, <1>2, <1>3, <1>4, <1>5, <1>6, <1>7 DEF Next, Attempt

(* Records that do not overlap are all counted, and counted once:          *)
(* Spec => []CountsRecords.                                                *)
THEOREM RecordsAreCounted == Spec => []CountsRecords
  <1>1. Init => CountsRecords /\ OneRecord
    BY LoopAssumption DEF Init, CountsRecords, OneRecord, Loaded, Between
  <1> QED
    BY <1>1, TypeCorrect, RecordStep, PTL DEF Spec

-----------------------------------------------------------------------------
(* A document keeps its author: who wrote it empties the file before it    *)
(* writes again.                                                           *)
LEMMA AuthorStep == TypeOK /\ HasAuthor /\ [Next]_vars => HasAuthor'
  <1> SUFFICES ASSUME TypeOK, HasAuthor, [Next]_vars, file' \in Counts
               PROVE  \E a \in Agents : /\ pc'[a] # "write"
                                        /\ pc'[a] = "stopped" => file'[call'[a]] >= Threshold[a]
    BY DEF HasAuthor
  <1> USE DEF TypeOK
  <1>1. ASSUME NEW a \in Agents, Load(a) PROVE pc'[a] = "save"
    BY <1>1 DEF Load
  <1>2. ASSUME NEW a \in Agents, LoadFails(a) PROVE FALSE
    BY <1>2, LoopAssumption DEF LoadFails, Unreadable
  <1>3. ASSUME NEW a \in Agents, Truncate(a) PROVE FALSE
    BY <1>3, LoopAssumption DEF Truncate
  <1>4. ASSUME NEW a \in Agents, Write(a)
        PROVE  \E b \in Agents : /\ pc'[b] # "write"
                                 /\ pc'[b] = "stopped" => file'[call'[b]] >= Threshold[b]
    <2>1. CASE file' = held[a]
      <3>1. pc'[a] # "write" /\ (pc'[a] = "stopped" => file'[call'[a]] >= Threshold[a])
        BY <1>4, <2>1 DEF Write, ShouldStop
      <3> QED
        BY <3>1
    <2>2. CASE file' = file
      <3>1. PICK b \in Agents : /\ pc[b] # "write"
                                /\ pc[b] = "stopped" => file[call[b]] >= Threshold[b]
        BY <2>2 DEF HasAuthor
      <3>2. pc'[b] = pc[b] /\ call' = call
        BY <1>4, <3>1 DEF Write
      <3> QED
        BY <2>2, <3>1, <3>2
    <2> QED
      BY <1>4, <2>1, <2>2, LoopAssumption DEF Write, Written
  <1>5. ASSUME NEW a \in Agents, Reset(a) PROVE FALSE
    BY <1>5, LoopAssumption DEF Reset
  <1>6. ASSUME NEW a \in Agents, Crash(a) PROVE pc'[a] = "ready"
    BY <1>6 DEF Crash
  <1>7. CASE UNCHANGED vars
    BY <1>7 DEF vars, HasAuthor
  <1> QED
    BY <1>1, <1>2, <1>3, <1>4, <1>5, <1>6, <1>7 DEF Next, Attempt

(* When every agent has stopped the heartbeat sees it, however their       *)
(* records overlapped: Spec => []StopIsSeen.                               *)
THEOREM StopsAreSeen == Spec => []StopIsSeen
  <1>1. Init => HasAuthor
    BY LoopAssumption DEF Init, HasAuthor
  <1>2. TypeOK /\ HasAuthor => StopIsSeen
    <2> SUFFICES ASSUME TypeOK, HasAuthor, file \in Counts,
                        \A a \in Agents : pc[a] = "stopped" /\ Threshold[a] >= LoopRepeatThreshold
                 PROVE  StopPending # {}
      BY DEF StopIsSeen
    <2>1. PICK a \in Agents : file[call[a]] >= Threshold[a]
      BY DEF HasAuthor
    <2>2. call[a] \in Signatures /\ file[call[a]] \in Nat /\ Loaded = file
      BY LoopAssumption DEF TypeOK, Counts, Loaded
    <2>3. call[a] \in StopPending
      BY <2>1, <2>2, LoopAssumption DEF StopPending, ShouldStop
    <2> QED
      BY <2>3
  <1> QED
    BY <1>1, <1>2, TypeCorrect, AuthorStep, PTL DEF Spec
=============================================================================
