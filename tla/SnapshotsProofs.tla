-------------------------- MODULE SnapshotsProofs --------------------------
(***************************************************************************)
(* What Snapshots guarantees for any number of agents, files, contents and *)
(* snapshots: the types, that a rollback to a sound snapshot restores what *)
(* git saw (because objects are only added, so that a snapshot goes on     *)
(* naming the tree it was made of), that creates which do not overlap are  *)
(* listed in their order under ids of their own, and that cuts cost one    *)
(* snapshot each (because what a cut may still spoil is paid for when it   *)
(* is made: CutsCover).                                                    *)
(***************************************************************************)
EXTENDS Snapshots, TLAPS, SequenceTheorems, FiniteSetTheorems

(* What a snapshot restores is what git saw. *)
Keeps(s) == s.sound => s.stash # Words /\ RestoreFrom(s) = s.was

SoundSnapshotsKeep ==
    /\ \A i \in Listed : Keeps(lines[i])
    /\ \A a \in Agents : pc[a] = "append" => Keeps(making[a])

(* Without overlap or a cut, the create in flight is the only one and will *)
(* have a later id than those that returned.                               *)
InOrder ==
    ~overlap /\ cuts = 0 =>
        /\ ~cutShort
        /\ \A i \in DOMAIN created : created[i].id <= clock
        /\ \A a \in Agents :
              /\ ~Idle(a) => \A b \in Agents \ {a} : Idle(b)
              /\ pc[a] = "head" =>
                    \A i \in DOMAIN created : created[i].id <= making[a].id
              /\ pc[a] = "append" =>
                    \A i \in DOMAIN created : created[i].id < making[a].id

-----------------------------------------------------------------------------
LEMMA BeginningASnapshot ==
    ASSUME NEW id \in Nat, NEW commit \in Trees
    PROVE  Begun(id, commit) \in Snapshot /\ Blank \in Snapshot
  BY DEF Begun, Blank, Snapshot, Nothing, Trees

(* What is listed after a line is written was listed before, or is it.     *)
LEMMA Writing ==
    ASSUME TypeOK, NEW line \in Snapshot \cup {Broken}, lines' = WithLine(line)
    PROVE  /\ lines' \in Seq(Snapshot \cup {Broken}) /\ lines' # <<>>
           /\ \A i \in Listed' : \/ i \in Listed /\ lines'[i] = lines[i]
                                 \/ lines'[i] = line /\ line # Broken
  <1>1. CASE cutShort
    <2>1. lines' = [lines EXCEPT ![Len(lines)] = Broken]
      BY <1>1 DEF WithLine
    <2>2. Len(lines) \in 1..Len(lines)
      BY <1>1 DEF TypeOK
    <2>3. lines' \in Seq(Snapshot \cup {Broken}) /\ Len(lines') = Len(lines)
      BY <2>1, <2>2, ExceptSeq DEF TypeOK
    <2>4. \A i \in 1..Len(lines) : lines'[i] = IF i = Len(lines) THEN Broken ELSE lines[i]
      BY <2>1, <2>2, ExceptSeq DEF TypeOK
    <2> QED
      BY <2>2, <2>3, <2>4 DEF Listed, TypeOK
  <1>2. CASE ~cutShort
    <2>1. lines' = Append(lines, line)
      BY <1>2 DEF WithLine
    <2>2. lines \in Seq(Snapshot \cup {Broken})
      BY DEF TypeOK
    <2>3. /\ lines' \in Seq(Snapshot \cup {Broken}) /\ lines' # <<>>
          /\ Len(lines') = Len(lines) + 1
          /\ \A i \in 1..Len(lines) : lines'[i] = lines[i]
          /\ lines'[Len(lines) + 1] = line
      BY <2>1, <2>2, AppendProperties
    <2>4. \A i \in DOMAIN lines' : i \in 1..Len(lines) \/ i = Len(lines) + 1
      BY <2>2, <2>3
    <2> QED
      BY <2>2, <2>3, <2>4 DEF Listed
  <1> QED
    BY <1>1, <1>2

(* Objects are only added. *)
LEMMA ObjectsStay ==
    ASSUME TypeOK, [Next]_vars
    PROVE  /\ objects' \in Seq(Trees)
           /\ \A n \in DOMAIN objects : n \in DOMAIN objects' /\ objects'[n] = objects[n]
           /\ clock' \in Nat /\ clock <= clock'
  <1>0. Seen \in Trees
    BY DEF Seen, TypeOK, Trees
  <1> USE DEF TypeOK
  <1>1. ASSUME NEW a \in Agents, StashCreate(a)
        PROVE  /\ objects' \in Seq(Trees)
               /\ \A n \in DOMAIN objects : n \in DOMAIN objects' /\ objects'[n] = objects[n]
               /\ clock' \in Nat /\ clock <= clock'
    <2>1. clock' \in Nat /\ clock <= clock'
      BY <1>1 DEF StashCreate
    <2>2. objects' = Append(objects, Seen) \/ objects' = objects
      BY <1>1 DEF StashCreate
    <2>3. CASE objects' = objects
      BY <2>1, <2>3
    <2>4. CASE objects' = Append(objects, Seen)
      <3>1. /\ objects' \in Seq(Trees) /\ Len(objects') = Len(objects) + 1
            /\ \A n \in 1..Len(objects) : objects'[n] = objects[n]
        BY <2>4, <1>0, AppendProperties
      <3>2. \A n \in DOMAIN objects : n \in 1..Len(objects) /\ n \in DOMAIN objects'
        BY <3>1
      <3> QED
        BY <2>1, <3>1, <3>2
    <2> QED
      BY <2>2, <2>3, <2>4
  <1>2. UNCHANGED <<objects, clock>> \/ \E a \in Agents : StashCreate(a)
    BY DEF Next, vars, Edit, AddFile, Conflict, Commit, CollectGarbage, Change,
       ReadHead, AppendLine, CreateFails, Ends, RollbackLatest, RollbackTo, Rollback, calls
  <1> QED
    BY <1>1, <1>2

-----------------------------------------------------------------------------
(* A tree that a snapshot restores is one.                                 *)
LEMMA RestoringATree ==
    ASSUME TypeOK, NEW i \in Listed, lines[i].stash \notin pruned \cup {Words}
    PROVE  RestoreFrom(lines[i]) \in Trees
  <1>1. lines[i] \in Snapshot /\ Named(lines[i])
    BY DEF TypeOK, Listed
  <1>2. CASE lines[i].stash = None
    BY <1>1, <1>2 DEF RestoreFrom, Snapshot
  <1>3. CASE lines[i].stash \in Nat
    <2>1. lines[i].stash \in DOMAIN objects
      BY <1>1, <1>3 DEF Named
    <2>2. objects[lines[i].stash] \in Trees
      BY <2>1 DEF TypeOK
    <2> QED
      BY <1>3, <2>2, SnapshotAssumption DEF RestoreFrom
  <1> QED
    BY <1>1, <1>2, <1>3 DEF Snapshot

(* The working tree, the index and the commit stay trees.                  *)
WorktreeOK == head \in Trees /\ tree \in Trees /\ index \in Trees /\ unmerged \subseteq Files

LEMMA WorktreeStep ==
    ASSUME TypeOK, [Next]_vars
    PROVE  WorktreeOK'
  <1>0. WorktreeOK /\ Seen \in Trees
    BY DEF WorktreeOK, TypeOK, Seen, Trees
  <1> USE DEF WorktreeOK
  <1>1. ASSUME NEW f \in Files, Edit(f) \/ AddFile(f) \/ Conflict(f) PROVE WorktreeOK'
    BY <1>0, <1>1 DEF Edit, AddFile, Conflict, Trees
  <1>2. CASE Commit
    BY <1>0, <1>2 DEF Commit
  <1>3. CASE UNCHANGED worktree
    BY <1>0, <1>3 DEF worktree
  <1>4. ASSUME NEW a \in Agents, NEW i \in Listed, Rollback(a, lines[i]) PROVE WorktreeOK'
    <2>1. RestoreFrom(lines[i]) \in Trees
      BY <1>4, RestoringATree DEF Rollback
    <2> QED
      BY <1>0, <1>4, <2>1 DEF Rollback, Checkout, Trees
  <1> QED
    BY <1>1, <1>2, <1>3, <1>4 DEF Next, vars, CollectGarbage, ReadHead, StashCreate,
       AppendLine, CreateFails, Ends, RollbackLatest, RollbackTo

(* A snapshot keeps the names it has.                                      *)
LEMMA NamesStay ==
    ASSUME TypeOK, [Next]_vars
    PROVE  \A s \in Snapshot : Named(s) => Named(s)'
  BY ObjectsStay DEF Named, TypeOK

(* The snapshots being made.                                               *)
MakingOK ==
    /\ pc \in [Agents -> {"idle", "head", "append"}]
    /\ making \in [Agents -> Snapshot]
    /\ \A a \in Agents : pc[a] = "append" => Named(making[a])

LEMMA MakingStep ==
    ASSUME TypeOK, [Next]_vars
    PROVE  MakingOK'
  <1>0. /\ MakingOK
        /\ \A s \in Snapshot : Named(s) => Named(s)'
    BY NamesStay DEF MakingOK, TypeOK
  <1>1. ASSUME NEW a \in Agents, ReadHead(a) PROVE MakingOK'
    <2>1. Begun(clock, head) \in Snapshot
      BY BeginningASnapshot DEF TypeOK
    <2>2. pc' = [pc EXCEPT ![a] = "head"] /\ making' = [making EXCEPT ![a] = Begun(clock, head)]
      BY <1>1 DEF ReadHead
    <2> QED
      BY <1>0, <2>1, <2>2 DEF MakingOK
  <1>2. ASSUME NEW a \in Agents, StashCreate(a) PROVE MakingOK'
    <2>1. PICK stash \in Printed :
             /\ objects' = IF stash \in Nat THEN Append(objects, Seen) ELSE objects
             /\ making' = [making EXCEPT ![a] =
                   [id |-> IdAt(clock'), head |-> making[a].head, stash |-> stash, was |-> Seen,
                    sound |-> stash \in Nat \/ (~Dirty /\ making[a].head = head)]]
      BY <1>2 DEF StashCreate
    <2> DEFINE new == [id |-> IdAt(clock'), head |-> making[a].head, stash |-> stash, was |-> Seen,
                       sound |-> stash \in Nat \/ (~Dirty /\ making[a].head = head)]
    <2>2. Seen \in Trees
      BY DEF Seen, TypeOK, Trees
    <2>3. clock' \in Nat /\ clock' > making[a].id /\ making[a] \in Snapshot
      BY <1>2, ObjectsStay DEF StashCreate, TypeOK
    <2>4. stash \in Nat \cup {None, Words}
      BY DEF Printed, TypeOK
    <2>5. (stash \in Nat \/ (~Dirty /\ making[a].head = head)) \in BOOLEAN
      OBVIOUS
    <2>6. new \in Snapshot /\ new.id = clock' /\ new.stash = stash
      BY <2>2, <2>3, <2>4, <2>5 DEF Snapshot, IdAt
    <2>7. PICK s \in Snapshot : making' = [making EXCEPT ![a] = s] /\ s.id = clock' /\ s.stash = stash
      BY <2>1, <2>6
    <2>8. clock' \in 1..clock'
      BY <2>3 DEF Snapshot
    <2>9. stash \in Nat => stash \in DOMAIN objects'
      BY <2>1, <2>2, SnapshotAssumption, AppendProperties DEF Printed, TypeOK
    <2>10. Named(s)'
      BY <2>7, <2>8, <2>9 DEF Named
    <2>11. pc' = [pc EXCEPT ![a] = "append"]
      BY <1>2 DEF StashCreate
    <2>12. pc' \in [Agents -> {"idle", "head", "append"}] /\ making' \in [Agents -> Snapshot]
      BY <1>0, <2>7, <2>11 DEF MakingOK
    <2>13. ASSUME NEW b \in Agents, pc'[b] = "append" PROVE Named(making[b])'
      <3>1. making'[b] \in Snapshot /\ (b = a => making'[b] = s)
        BY <1>0, <2>7 DEF MakingOK
      <3>2. b # a => making'[b] = making[b] /\ Named(making[b])
        BY <1>0, <2>7, <2>11, <2>13 DEF MakingOK
      <3> QED
        BY <1>0, <2>10, <3>1, <3>2 DEF Named
    <2> QED
      BY <2>12, <2>13 DEF MakingOK
  <1>3. ASSUME NEW a \in Agents, Ends(a) PROVE MakingOK'
    <2>1. Blank \in Snapshot
      BY BeginningASnapshot DEF TypeOK
    <2>2. pc' = [pc EXCEPT ![a] = "idle"] /\ making' = [making EXCEPT ![a] = Blank]
      BY <1>3 DEF Ends
    <2> QED
      BY <1>0, <2>1, <2>2 DEF MakingOK
  <1>4. CASE UNCHANGED <<pc, making>>
    BY <1>0, <1>4 DEF MakingOK
  <1> QED
    BY <1>1, <1>2, <1>3, <1>4 DEF Next, vars, Edit, AddFile, Conflict, Commit, CollectGarbage,
       Change, AppendLine, CreateFails, RollbackLatest, RollbackTo, Rollback, calls

(* The file, and what create() returned.                                   *)
LogOK ==
    /\ lines \in Seq(Snapshot \cup {Broken}) /\ cutShort \in BOOLEAN /\ (cutShort => lines # <<>>)
    /\ \A i \in Listed : Named(lines[i])
    /\ created \in Seq(Snapshot)

LEMMA LogStep ==
    ASSUME TypeOK, [Next]_vars
    PROVE  LogOK'
  <1>0. /\ LogOK
        /\ \A s \in Snapshot : Named(s) => Named(s)'
        /\ \A i \in Listed : lines[i] \in Snapshot
    BY NamesStay DEF LogOK, TypeOK, Listed
  <1>1. ASSUME NEW line \in Snapshot \cup {Broken}, line # Broken => Named(line),
               lines' = WithLine(line)
        PROVE  /\ lines' \in Seq(Snapshot \cup {Broken}) /\ lines' # <<>>
               /\ \A i \in Listed' : Named(lines[i])'
    <2>1. /\ lines' \in Seq(Snapshot \cup {Broken}) /\ lines' # <<>>
          /\ \A i \in Listed' : \/ i \in Listed /\ lines'[i] = lines[i]
                                \/ lines'[i] = line /\ line # Broken
      BY <1>1, Writing
    <2>2. ASSUME NEW i \in Listed' PROVE Named(lines[i])'
      <3>1. PICK s \in Snapshot : lines'[i] = s /\ Named(s)
        BY <1>0, <1>1, <2>1, <2>2 DEF LogOK
      <3> QED
        BY <1>0, <3>1 DEF Named
    <2> QED
      BY <2>1, <2>2
  <1>2. ASSUME UNCHANGED lines PROVE \A i \in Listed' : Named(lines[i])'
    BY <1>0, <1>2 DEF LogOK, Listed, Named
  <1>3. ASSUME NEW a \in Agents, AppendLine(a) PROVE LogOK'
    <2>1. making[a] \in Snapshot /\ Named(making[a]) /\ lines' = WithLine(making[a])
      BY <1>3 DEF AppendLine, TypeOK
    <2>2. created' \in Seq(Snapshot)
      BY <1>0, <1>3, <2>1, AppendProperties DEF AppendLine, LogOK
    <2> QED
      BY <1>1, <1>3, <2>1, <2>2 DEF AppendLine, LogOK
  <1>4. ASSUME NEW a \in Agents, CreateFails(a) PROVE LogOK'
    <2>1. CASE UNCHANGED <<lines, cutShort>>
      BY <1>0, <1>2, <1>4, <2>1 DEF CreateFails, LogOK
    <2>2. CASE /\ pc[a] = "append" /\ cutShort' = TRUE
               /\ lines' \in {WithLine(Broken), WithLine(making[a])}
      <3>1. making[a] \in Snapshot /\ Named(making[a])
        BY <2>2 DEF TypeOK
      <3>2. /\ lines' \in Seq(Snapshot \cup {Broken}) /\ lines' # <<>>
            /\ \A i \in Listed' : Named(lines[i])'
        BY <1>1, <2>2, <3>1
      <3> QED
        BY <1>0, <1>4, <2>2, <3>2 DEF CreateFails, LogOK
    <2> QED
      BY <1>4, <2>1, <2>2 DEF CreateFails
  <1>5. CASE UNCHANGED log
    BY <1>0, <1>2, <1>5 DEF log, LogOK
  <1> QED
    BY <1>3, <1>4, <1>5 DEF Next, vars, Edit, AddFile, Conflict, Commit, CollectGarbage,
       Change, ReadHead, StashCreate, RollbackLatest, RollbackTo, Rollback

LEMMA TypeStep == TypeOK /\ [Next]_vars => TypeOK'
  <1> SUFFICES ASSUME TypeOK, [Next]_vars PROVE TypeOK'
    OBVIOUS
  <1>1. WorktreeOK' /\ MakingOK' /\ LogOK'
    BY WorktreeStep, MakingStep, LogStep
  <1>2. objects' \in Seq(Trees) /\ clock' \in Nat /\ DOMAIN objects \subseteq DOMAIN objects'
    BY ObjectsStay
  <1>3. pruned' = pruned \/ (pruned' = DOMAIN objects /\ objects' = objects)
    BY DEF Next, vars, Edit, AddFile, Conflict, Commit, CollectGarbage, Change, ReadHead,
       StashCreate, AppendLine, CreateFails, Ends, RollbackLatest, RollbackTo, Rollback, worktree
  <1>4. pruned' \subseteq DOMAIN objects'
    BY <1>2, <1>3 DEF TypeOK
  <1>5. overlap' \in BOOLEAN
    BY DEF TypeOK, Next, vars, Edit, AddFile, Conflict, Commit, CollectGarbage, Change, calls,
       ReadHead, StashCreate, AppendLine, CreateFails, Ends, RollbackLatest, RollbackTo, Rollback
  <1>6. changes' = changes \/ (changes < MaxChanges /\ changes' = changes + 1)
    BY DEF Next, vars, Edit, AddFile, Conflict, Commit, CollectGarbage, Change, ReadHead,
       StashCreate, AppendLine, CreateFails, Ends, RollbackLatest, RollbackTo, Rollback
  <1>7. cuts' = cuts \/ (cuts < MaxCuts /\ cuts' = cuts + 1)
    BY DEF Next, vars, Edit, AddFile, Conflict, Commit, CollectGarbage, Change, log, ReadHead,
       StashCreate, AppendLine, CreateFails, RollbackLatest, RollbackTo, Rollback
  <1>8. changes' \in 0..MaxChanges /\ cuts' \in 0..MaxCuts
    BY <1>6, <1>7, SnapshotAssumption DEF TypeOK
  <1> QED
    BY <1>1, <1>2, <1>4, <1>5, <1>8 DEF TypeOK, WorktreeOK, MakingOK, LogOK

(* Types, for any number of agents, files, contents and snapshots (the     *)
(* whole of snapshot.py).                                                  *)
THEOREM TypeCorrect == Spec => []TypeOK
  <1>1. Init => TypeOK
    <2> SUFFICES ASSUME Init PROVE TypeOK
      OBVIOUS
    <2>1. Nothing \in Trees /\ head \in Trees
      BY DEF Init, Nothing, Trees
    <2>2. Blank \in Snapshot
      BY <2>1, BeginningASnapshot
    <2>3. objects \in Seq(Trees) /\ lines \in Seq(Snapshot \cup {Broken}) /\ created \in Seq(Snapshot)
      BY DEF Init
    <2>4. Listed = {}
      BY DEF Init, Listed
    <2>5. changes \in 0..MaxChanges /\ cuts \in 0..MaxCuts
      BY SnapshotAssumption DEF Init
    <2> QED
      BY <2>1, <2>2, <2>3, <2>4, <2>5 DEF Init, TypeOK
  <1> QED
    BY <1>1, TypeStep, PTL DEF Spec

-----------------------------------------------------------------------------
(* A snapshot goes on naming the tree it was made of.                      *)
LEMMA KeepingStays ==
    ASSUME TypeOK, [Next]_vars
    PROVE  \A s \in Snapshot : Named(s) /\ Keeps(s) => Keeps(s)'
  <1> SUFFICES ASSUME NEW s \in Snapshot, Named(s), Keeps(s), s.sound
               PROVE  RestoreFrom(s)' = s.was
    BY DEF Keeps
  <1>1. s.stash # Words /\ RestoreFrom(s) = s.was
    BY DEF Keeps
  <1>2. s.stash = None => RestoreFrom(s)' = s.was
    BY <1>1 DEF RestoreFrom
  <1>3. s.stash \in Nat => objects'[s.stash] = s.was
    BY <1>1, ObjectsStay, SnapshotAssumption DEF RestoreFrom, Named
  <1>4. s.stash = None \/ s.stash \in Nat
    BY <1>1 DEF Snapshot
  <1> QED
    BY <1>1, <1>2, <1>3, <1>4, SnapshotAssumption DEF RestoreFrom

LEMMA KeepingStep == TypeOK /\ SoundSnapshotsKeep /\ [Next]_vars => SoundSnapshotsKeep'
  <1> SUFFICES ASSUME TypeOK, SoundSnapshotsKeep, [Next]_vars PROVE SoundSnapshotsKeep'
    OBVIOUS
  <1>0. /\ \A s \in Snapshot : Named(s) /\ Keeps(s) => Keeps(s)'
        /\ \A i \in Listed : lines[i] \in Snapshot /\ Named(lines[i]) /\ Keeps(lines[i])
        /\ \A a \in Agents : /\ making[a] \in Snapshot
                             /\ pc[a] = "append" => Named(making[a]) /\ Keeps(making[a])
    BY KeepingStays DEF TypeOK, SoundSnapshotsKeep, Listed
  <1>1. ASSUME \A i \in Listed' : \E s \in Snapshot : lines'[i] = s /\ Named(s) /\ Keeps(s)
        PROVE  \A i \in Listed' : Keeps(lines[i])'
    <2> SUFFICES ASSUME NEW i \in Listed' PROVE Keeps(lines[i])'
      OBVIOUS
    <2>1. PICK s \in Snapshot : lines'[i] = s /\ Named(s) /\ Keeps(s)
      BY <1>1
    <2> QED
      BY <1>0, <2>1 DEF Keeps, RestoreFrom
  <1>2. \A i \in Listed' : Keeps(lines[i])'
    <2>1. CASE UNCHANGED lines
      BY <1>0, <1>1, <2>1 DEF Listed
    <2>2. ASSUME NEW a \in Agents, pc[a] = "append",
                 lines' \in {WithLine(Broken), WithLine(making[a])}
          PROVE  \A i \in Listed' : Keeps(lines[i])'
      BY <1>0, <1>1, <2>2, Writing
    <2> QED
      BY <2>1, <2>2 DEF Next, vars, Edit, AddFile, Conflict, Commit, CollectGarbage, Change,
         log, ReadHead, StashCreate, AppendLine, CreateFails, RollbackLatest, RollbackTo, Rollback
  <1>3. \A b \in Agents : pc'[b] = "append" => Keeps(making[b])'
    <2> SUFFICES ASSUME NEW b \in Agents, pc'[b] = "append" PROVE Keeps(making[b])'
      OBVIOUS
    <2>1. CASE pc[b] = "append" /\ making'[b] = making[b]
      BY <1>0, <2>1 DEF Keeps, RestoreFrom
    <2>2. CASE StashCreate(b)
      <3>1. PICK stash \in Printed :
               /\ objects' = IF stash \in Nat THEN Append(objects, Seen) ELSE objects
               /\ making' = [making EXCEPT ![b] =
                     [id |-> IdAt(clock'), head |-> making[b].head, stash |-> stash, was |-> Seen,
                      sound |-> stash \in Nat \/ (~Dirty /\ making[b].head = head)]]
        BY <2>2 DEF StashCreate
      <3>2. /\ making'[b].head = making[b].head /\ making'[b].stash = stash
            /\ making'[b].was = Seen
            /\ making'[b].sound <=> stash \in Nat \/ (~Dirty /\ making[b].head = head)
        BY <3>1 DEF TypeOK
      <3>3. CASE stash \in Nat
        <4>1. stash = Len(objects) + 1 /\ stash # None /\ stash # Words
          BY <3>3, SnapshotAssumption DEF Printed
        <4>2. Seen \in Trees /\ objects \in Seq(Trees)
          BY DEF Seen, TypeOK, Trees
        <4>3. objects'[stash] = Seen
          BY <3>1, <3>3, <4>1, <4>2, AppendProperties
        <4> QED
          BY <3>2, <4>1, <4>3 DEF Keeps, RestoreFrom
      <3>4. CASE stash \notin Nat
        <4>1. ~Dirty => stash = None /\ stash # Words /\ Seen = head
          BY SnapshotAssumption DEF Printed, Dirty
        <4> QED
          BY <3>2, <3>4, <4>1 DEF Keeps, RestoreFrom
      <3> QED
        BY <3>3, <3>4
    <2> QED
      BY <2>1, <2>2 DEF TypeOK, Next, vars, calls, Edit, AddFile, Conflict, Commit,
         CollectGarbage, Change, ReadHead, StashCreate, AppendLine, CreateFails, Ends,
         RollbackLatest, RollbackTo, Rollback
  <1> QED
    BY <1>2, <1>3 DEF SoundSnapshotsKeep

(* Whatever happened between a sound snapshot and a rollback to it, the    *)
(* rollback brings back what git saw (rollback(), snapshot.py).            *)
THEOREM RollbacksRestore == Spec => RollbackRestores
  <1>1. Init => SoundSnapshotsKeep
    BY DEF Init, SoundSnapshotsKeep, Listed
  <1>2. TypeOK /\ SoundSnapshotsKeep
        => \A i \in Listed, a \in Agents :
              lines[i].sound /\ Rollback(a, lines[i]) => Restored(lines[i])
    BY DEF SoundSnapshotsKeep, Keeps, Rollback, Checkout, Restored, TypeOK, Trees
  <1>3. [][\A i \in Listed, a \in Agents :
              lines[i].sound /\ Rollback(a, lines[i]) => Restored(lines[i])]_vars
        => RollbackRestores
    BY PTL DEF RollbackRestores
  <1> QED
    BY <1>1, <1>2, <1>3, TypeCorrect, KeepingStep, PTL DEF Spec

-----------------------------------------------------------------------------
(* Overlaps and cuts are not forgotten.                                    *)
LEMMA HistoryStays ==
    ASSUME TypeOK, [Next]_vars, ~overlap', cuts' = 0
    PROVE  ~overlap /\ cuts = 0 /\ ~(\E a \in Agents : CreateFails(a))
  <1>1. overlap => overlap'
    BY DEF Next, vars, Edit, AddFile, Conflict, Commit, CollectGarbage, Change, calls,
       ReadHead, StashCreate, AppendLine, CreateFails, Ends, RollbackLatest, RollbackTo, Rollback
  <1>2. \/ cuts' = cuts /\ ~(\E a \in Agents : CreateFails(a))
        \/ cuts' = cuts + 1
    BY DEF TypeOK, CreateFails, Next, vars, Edit, AddFile, Conflict, Commit, CollectGarbage,
       Change, log, ReadHead, StashCreate, AppendLine, RollbackLatest, RollbackTo, Rollback
  <1> QED
    BY <1>1, <1>2 DEF TypeOK

LEMMA OrderStep ==
    TypeOK /\ InOrder /\ LatestIsLastCreated /\ [Next]_vars
    => InOrder' /\ LatestIsLastCreated'
  <1> SUFFICES ASSUME TypeOK, InOrder, LatestIsLastCreated, [Next]_vars, ~overlap', cuts' = 0
               PROVE  InOrder' /\ LatestIsLastCreated'
    BY DEF InOrder, LatestIsLastCreated
  <1>0. /\ ~overlap /\ cuts = 0 /\ ~cutShort /\ lines = created
        /\ ~(\E a \in Agents : CreateFails(a))
    BY HistoryStays DEF InOrder, LatestIsLastCreated
  <1>t. /\ clock \in Nat /\ \A a \in Agents : making[a] \in Snapshot /\ making[a].id \in Nat
        /\ created \in Seq(Snapshot)
        /\ \A i \in DOMAIN created : created[i].id \in Nat
    <2>1. \A s \in Snapshot : s.id \in Nat
      BY DEF Snapshot
    <2>2. /\ clock \in Nat /\ \A a \in Agents : making[a] \in Snapshot
          /\ created \in Seq(Snapshot)
      BY DEF TypeOK
    <2>3. \A i \in DOMAIN created : created[i] \in Snapshot
      BY <2>2
    <2> QED
      BY <2>1, <2>2, <2>3
  <1>1. ASSUME NEW a \in Agents, ReadHead(a) PROVE InOrder' /\ LatestIsLastCreated'
    <2>1. \A b \in Agents : Idle(b)
      BY <1>1 DEF ReadHead
    <2>2. making'[a].id = clock /\ \A b \in Agents \ {a} : pc'[b] = "idle"
      BY <1>1, <2>1 DEF ReadHead, Begun, TypeOK, Idle
    <2>3. pc'[a] = "head" /\ UNCHANGED <<clock, lines, created, cutShort>>
      BY <1>1 DEF ReadHead, log, TypeOK
    <2> QED
      BY <1>0, <2>2, <2>3 DEF InOrder, LatestIsLastCreated, Idle
  <1>2. ASSUME NEW a \in Agents, StashCreate(a) PROVE InOrder' /\ LatestIsLastCreated'
    <2>1. \A i \in DOMAIN created : created[i].id <= making[a].id
      BY <1>0, <1>2 DEF StashCreate, InOrder
    <2>2. making'[a].id = clock' /\ clock' > making[a].id /\ clock' \in Nat
      BY <1>2, <1>t DEF StashCreate, IdAt, TypeOK
    <2>3. \A i \in DOMAIN created : created[i].id < making'[a].id
      BY <2>1, <2>2, <1>t
    <2>4. /\ pc'[a] = "append" /\ \A b \in Agents \ {a} : pc'[b] = "idle"
          /\ UNCHANGED <<lines, created, cutShort>>
      BY <1>0, <1>2 DEF StashCreate, log, TypeOK, InOrder, Idle
    <2> QED
      BY <1>0, <1>t, <2>2, <2>3, <2>4 DEF InOrder, LatestIsLastCreated, Idle
  <1>3. ASSUME NEW a \in Agents, AppendLine(a) PROVE InOrder' /\ LatestIsLastCreated'
    <2>1. /\ \A i \in DOMAIN created : created[i].id < making[a].id
          /\ making[a].id <= clock
      BY <1>0, <1>3 DEF AppendLine, InOrder, TypeOK, Named
    <2>2. lines' = Append(lines, making[a]) /\ created' = Append(created, making[a])
      BY <1>0, <1>3 DEF AppendLine, WithLine
    <2>3. /\ Len(created') = Len(created) + 1
          /\ \A i \in 1..Len(created) : created'[i] = created[i]
          /\ created'[Len(created) + 1] = making[a]
          /\ DOMAIN created' = 1..Len(created')
      BY <1>t, <2>2, AppendProperties
    <2>4. \A i \in DOMAIN created' : i \in DOMAIN created \/ created'[i] = making[a]
      BY <1>t, <2>3
    <2>5. /\ \A b \in Agents : pc'[b] = "idle"
          /\ clock' = clock /\ cutShort' = FALSE
      BY <1>0, <1>3 DEF AppendLine, Ends, TypeOK, InOrder, Idle
    <2>6. \A i \in DOMAIN created' : created'[i].id <= clock
      BY <1>0, <1>t, <2>1, <2>3, <2>4 DEF InOrder
    <2>7. \A i, j \in DOMAIN created' : i < j => created'[i].id < created'[j].id
      <3> SUFFICES ASSUME NEW i \in DOMAIN created', NEW j \in DOMAIN created', i < j
                   PROVE  created'[i].id < created'[j].id
        OBVIOUS
      <3>1. i \in DOMAIN created /\ created'[i] = created[i]
        BY <1>t, <2>3
      <3>2. CASE j \in DOMAIN created
        BY <1>0, <1>t, <2>3, <3>1, <3>2 DEF LatestIsLastCreated
      <3>3. CASE created'[j] = making[a]
        BY <2>1, <3>1, <3>3
      <3> QED
        BY <2>4, <3>2, <3>3
    <2> QED
      BY <1>0, <2>2, <2>5, <2>6, <2>7 DEF InOrder, LatestIsLastCreated, Idle
  <1>4. CASE UNCHANGED <<log, calls>>
    BY <1>4 DEF InOrder, LatestIsLastCreated, Idle, log, calls
  <1> QED
    BY <1>0, <1>1, <1>2, <1>3, <1>4 DEF Next, vars, Edit, AddFile, Conflict, Commit,
       CollectGarbage, Change, RollbackLatest, RollbackTo, Rollback

(* Creates that do not overlap are listed in the order they returned, each *)
(* under an id of its own (create(), latest() and get(), snapshot.py).     *)
THEOREM CreatesAreInOrder == Spec => []LatestIsLastCreated
  <1>1. Init => InOrder /\ LatestIsLastCreated
    BY DEF Init, InOrder, LatestIsLastCreated, Idle
  <1> QED
    BY <1>1, OrderStep, TypeCorrect, PTL DEF Spec

-----------------------------------------------------------------------------
(* The lines that no later append can spoil: all but one that was cut      *)
(* short.  What create() returned and none of them holds is lost, or has   *)
(* its only line at the mercy of the next append.                          *)
Whole == IF cutShort THEN Listed \ {Len(lines)} ELSE Listed

Exposed == {i \in DOMAIN created : \A j \in Whole : lines[j] # created[i]}

(* Each snapshot that is lost or exposed was paid for by a cut, and so is  *)
(* the next one, when the file ends in a cut: that is what is inductive.   *)
CutsCover == Cardinality(Exposed) + (IF cutShort THEN 1 ELSE 0) <= cuts

(* An append leaves every whole line where it is.                          *)
LEMMA WholeLinesStay ==
    ASSUME TypeOK, NEW line \in Snapshot \cup {Broken}, lines' = WithLine(line)
    PROVE  /\ \A j \in Whole : j \in Whole' /\ lines'[j] = lines[j]
           /\ ~cutShort /\ ~cutShort' /\ line # Broken => \E j \in Whole' : lines'[j] = line
  <1>1. lines \in Seq(Snapshot \cup {Broken}) /\ Len(lines) \in Nat
    BY DEF TypeOK
  <1>2. CASE cutShort
    <2>1. Len(lines) \in 1..Len(lines) /\ lines' = [lines EXCEPT ![Len(lines)] = Broken]
      BY <1>2 DEF TypeOK, WithLine
    <2>2. /\ Len(lines') = Len(lines) /\ DOMAIN lines' = 1..Len(lines)
          /\ \A j \in 1..Len(lines) : j # Len(lines) => lines'[j] = lines[j]
      BY <1>1, <2>1, ExceptSeq
    <2>3. \A j \in Whole : j \in 1..Len(lines) /\ j # Len(lines) /\ lines[j] # Broken
      BY <1>1, <1>2 DEF Whole, Listed
    <2> QED
      BY <1>2, <2>2, <2>3 DEF Whole, Listed
  <1>3. CASE ~cutShort
    <2>1. lines' = Append(lines, line)
      BY <1>3 DEF WithLine
    <2>2. /\ Len(lines') = Len(lines) + 1 /\ DOMAIN lines' = 1..(Len(lines) + 1)
          /\ \A j \in 1..Len(lines) : lines'[j] = lines[j]
          /\ lines'[Len(lines) + 1] = line
      BY <1>1, <2>1, AppendProperties
    <2>3. \A j \in Whole : j \in 1..Len(lines) /\ j # Len(lines) + 1 /\ lines[j] # Broken
      BY <1>1, <1>3 DEF Whole, Listed
    <2>4. \A j \in Whole : j \in Whole' /\ lines'[j] = lines[j]
      BY <1>1, <2>2, <2>3 DEF Whole, Listed
    <2>5. ~cutShort' /\ line # Broken => Len(lines) + 1 \in Whole'
      BY <1>1, <2>2 DEF Whole, Listed
    <2> QED
      BY <2>2, <2>4, <2>5
  <1> QED
    BY <1>2, <1>3

(* What is exposed is finite: create() returned it.                        *)
LEMMA ExposedIsFinite ==
    ASSUME TypeOK
    PROVE  IsFiniteSet(Exposed) /\ Cardinality(Exposed) \in Nat
  <1>1. DOMAIN created = 1..Len(created) /\ Len(created) \in Nat
    BY DEF TypeOK
  <1>2. IsFiniteSet(1..Len(created))
    BY <1>1, FS_Interval
  <1>3. Exposed \in SUBSET (1..Len(created))
    BY <1>1 DEF Exposed
  <1> QED
    BY <1>2, <1>3, FS_Subset, FS_CardinalityType

LEMMA CutsCoverStep == TypeOK /\ CutsCover /\ [Next]_vars => CutsCover'
  <1> SUFFICES ASSUME TypeOK, CutsCover, [Next]_vars PROVE CutsCover'
    OBVIOUS
  <1>1. /\ IsFiniteSet(Exposed) /\ Cardinality(Exposed) \in Nat
        /\ cutShort \in BOOLEAN /\ cuts \in Nat
        /\ created \in Seq(Snapshot) /\ Len(created) \in Nat
        /\ DOMAIN created = 1..Len(created)
    BY ExposedIsFinite DEF TypeOK
  <1>2. ASSUME NEW a \in Agents, AppendLine(a) PROVE CutsCover'
    <2>1. /\ making[a] \in Snapshot /\ making[a] # Broken
          /\ lines' = WithLine(making[a]) /\ cutShort' = FALSE
          /\ created' = Append(created, making[a]) /\ cuts' = cuts
      BY <1>2, SnapshotAssumption DEF AppendLine, TypeOK
    <2>2. /\ Len(created') = Len(created) + 1 /\ DOMAIN created' = 1..(Len(created) + 1)
          /\ created'[Len(created) + 1] = making[a]
          /\ \A i \in 1..Len(created) : created'[i] = created[i]
      BY <1>1, <2>1, AppendProperties
    <2>3. /\ \A j \in Whole : j \in Whole' /\ lines'[j] = lines[j]
          /\ ~cutShort => \E j \in Whole' : lines'[j] = making[a]
      BY <2>1, WholeLinesStay
    <2>4. \A i \in Exposed' : i \in Exposed \/ (cutShort /\ i = Len(created) + 1)
      BY <1>1, <2>2, <2>3 DEF Exposed
    <2>5. CASE cutShort
      <3>1. Exposed' \in SUBSET (Exposed \cup {Len(created) + 1})
        BY <2>4
      <3>2. /\ IsFiniteSet(Exposed \cup {Len(created) + 1})
            /\ \/ Cardinality(Exposed \cup {Len(created) + 1}) = Cardinality(Exposed) + 1
               \/ Cardinality(Exposed \cup {Len(created) + 1}) = Cardinality(Exposed)
        BY <1>1, FS_AddElement
      <3>3. /\ IsFiniteSet(Exposed')
            /\ Cardinality(Exposed') <= Cardinality(Exposed \cup {Len(created) + 1})
        BY <3>1, <3>2, FS_Subset
      <3>4. Cardinality(Exposed') \in Nat
        BY <3>3, FS_CardinalityType
      <3> QED
        BY <1>1, <2>1, <2>5, <3>2, <3>3, <3>4 DEF CutsCover
    <2>6. CASE ~cutShort
      <3>1. Exposed' \in SUBSET Exposed
        BY <2>4, <2>6
      <3>2. IsFiniteSet(Exposed') /\ Cardinality(Exposed') <= Cardinality(Exposed)
        BY <1>1, <3>1, FS_Subset
      <3>3. Cardinality(Exposed') \in Nat
        BY <3>2, FS_CardinalityType
      <3> QED
        BY <1>1, <2>1, <2>6, <3>2, <3>3 DEF CutsCover
    <2> QED
      BY <2>5, <2>6
  <1>3. ASSUME NEW a \in Agents, CreateFails(a) PROVE CutsCover'
    <2>1. cuts' = cuts + 1 /\ created' = created
      BY <1>3 DEF CreateFails
    <2>2. CASE UNCHANGED <<lines, cutShort>>
      <3>1. Exposed' = Exposed
        BY <2>1, <2>2 DEF Exposed, Whole, Listed
      <3> QED
        BY <1>1, <2>1, <2>2, <3>1 DEF CutsCover
    <2>3. CASE /\ lines' \in {WithLine(Broken), WithLine(making[a])}
               /\ cutShort' = TRUE
      <3>1. making[a] \in Snapshot
        BY DEF TypeOK
      <3>2. \A j \in Whole : j \in Whole' /\ lines'[j] = lines[j]
        BY <2>3, <3>1, WholeLinesStay
      <3>3. Exposed' \in SUBSET Exposed
        BY <2>1, <3>2 DEF Exposed
      <3>4. IsFiniteSet(Exposed') /\ Cardinality(Exposed') <= Cardinality(Exposed)
        BY <1>1, <3>3, FS_Subset
      <3>5. Cardinality(Exposed') \in Nat
        BY <3>4, FS_CardinalityType
      <3> QED
        BY <1>1, <2>1, <2>3, <3>4, <3>5 DEF CutsCover
    <2> QED
      BY <1>3, <2>2, <2>3 DEF CreateFails
  <1>4. CASE UNCHANGED log
    <2>1. UNCHANGED <<lines, cutShort, created, cuts>>
      BY <1>4 DEF log
    <2>2. Exposed' = Exposed
      BY <2>1 DEF Exposed, Whole, Listed
    <2> QED
      BY <2>1, <2>2 DEF CutsCover
  <1> QED
    BY <1>2, <1>3, <1>4 DEF Next, vars, Edit, AddFile, Conflict, Commit, CollectGarbage, Change,
       ReadHead, StashCreate, RollbackLatest, RollbackTo, Rollback

(* A cut costs one snapshot at most, its own or the one after it, however  *)
(* many are made and fail (create(), snapshot.py).                         *)
THEOREM CutsAreCheap == Spec => []CutsCostOneEach
  <1>1. Init => CutsCover
    <2> SUFFICES ASSUME Init PROVE CutsCover
      OBVIOUS
    <2>1. Exposed = {}
      BY DEF Init, Exposed
    <2> QED
      BY <2>1, FS_EmptySet DEF Init, CutsCover
  <1>2. TypeOK /\ CutsCover => CutsCostOneEach
    <2> SUFFICES ASSUME TypeOK, CutsCover PROVE CutsCostOneEach
      OBVIOUS
    <2> DEFINE Lost == {i \in DOMAIN created : \A j \in Listed : lines[j] # created[i]}
    <2>1. Lost \in SUBSET Exposed
      BY DEF Exposed, Whole
    <2>2. IsFiniteSet(Exposed) /\ Cardinality(Exposed) \in Nat /\ cuts \in Nat
      BY ExposedIsFinite DEF TypeOK
    <2>3. IsFiniteSet(Lost) /\ Cardinality(Lost) <= Cardinality(Exposed)
      BY <2>1, <2>2, FS_Subset
    <2>4. Cardinality(Lost) \in Nat
      BY <2>3, FS_CardinalityType
    <2> HIDE DEF Lost
    <2>5. Cardinality(Lost) <= cuts
      BY <2>2, <2>3, <2>4 DEF CutsCover
    <2> QED
      BY <2>5 DEF CutsCostOneEach, Lost
  <1> QED
    BY <1>1, <1>2, CutsCoverStep, TypeCorrect, PTL DEF Spec
=============================================================================
