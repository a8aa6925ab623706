------------------------ MODULE FailureMemoryProofs ------------------------
(***************************************************************************)
(* What FailureMemory guarantees for any number of agents, causes and      *)
(* commands.  NothingInvented needs to hold of the documents about to be   *)
(* written too (NothingInventedAnywhere); RemembersAll needs that the only *)
(* command in flight holds what the session will amount to once it returns *)
(* (OneCommand); KnownFailureIsFound then needs that a cause known was     *)
(* reported (KnownWasReported).                                            *)
(***************************************************************************)
EXTENDS FailureMemory, FiniteSetTheorems, TLAPS

(* HasHappened, of counts and fixes that may be the next ones. *)
IsTrue(records, counts, fixes) ==
    \A s \in Signatures : records[s] # NoRecord =>
        /\ records[s].attempts <= counts[s]
        /\ records[s].resolution = Open \/ <<s, records[s].resolution>> \in fixes

NothingInventedAnywhere ==
    /\ file \in Documents => IsTrue(file, begun, given)
    /\ \A a \in Agents : IsTrue(held[a], begun, given)

(* What a document says of all signatures: Remembers, and that only what   *)
(* was reported is fixed.                                                  *)
Says(records, counts, categories, fixes) ==
    \A s \in Signatures :
        IF counts[s] = 0 THEN records[s] = NoRecord /\ fixes[s] = Open
        ELSE /\ records[s] # NoRecord
             /\ records[s].attempts = counts[s]
             /\ records[s].category = categories[s]
             /\ records[s].resolution = fixes[s]

SaysReport(records, c, k) ==
    LET t == SignatureOf(c)
    IN  Says(records, [reports EXCEPT ![t] = @ + 1],
             [called EXCEPT ![t] = IF reports[t] = 0 THEN CategoryOf(c, k) ELSE @], fixedBy)

SaysFix(records, t, r) == Says(records, reports, called, [fixedBy EXCEPT ![t] = r])

OneCommand ==
    alone => /\ file # Torn
             /\ file \notin Unreadable => Says(Loaded, reports, called, fixedBy)
             /\ \A a \in Agents :
                   /\ handle[a] # "removed"
                   /\ pc[a] # "idle" =>
                         /\ OthersIdle(a)
                         /\ doing[a] \in Reports =>
                               SaysReport(held[a], doing[a].cause, doing[a].category)
                         /\ doing[a] \in Fixes =>
                               SaysFix(held[a], doing[a].signature, doing[a].resolution)
                         /\ pc[a] = "save" => file \notin Unreadable
                         /\ pc[a] = "write" => file = Empty

KnownWasReported == \A c \in known : reports[SignatureOf(c)] # 0

-----------------------------------------------------------------------------
(* Every cause has a category, named or not. *)
LEMMA CategoryIsOne ==
    ASSUME NEW c \in Causes, NEW k \in Named \cup {Unclassified}
    PROVE  CategoryOf(c, k) \in FailureCategory
  <1>1. Classified(Redacted[c]) \in FailureCategory
    BY DEF Classified, FailureCategory
  <1> QED
    BY <1>1, CauseAssumption DEF CategoryOf

(* A document without records is one. *)
LEMMA NothingYetIsDocument == NothingYet \in Documents
  BY DEF NothingYet, Documents

(* What _load returns is a document, when it returns. *)
LEMMA LoadingDocument == TypeOK /\ file \notin Unreadable => Loaded \in Documents
  BY NothingYetIsDocument DEF TypeOK, Loaded, Unreadable

(* A first record is one, of one attempt and without a fix. *)
LEMMA FirstRecordIsOne ==
    ASSUME NEW c \in Causes, NEW k \in Named \cup {Unclassified}
    PROVE  /\ FirstRecord(c, k) \in FailureRecord /\ FirstRecord(c, k) # NoRecord
           /\ FirstRecord(c, k).attempts = 1 /\ FirstRecord(c, k).resolution = Open
           /\ FirstRecord(c, k).category = CategoryOf(c, k)
  BY CategoryIsOne, CauseAssumption DEF FirstRecord, FailureRecord

(* Recording changes the record of one signature: it makes it, or counts.  *)
LEMMA RecordingOne ==
    ASSUME NEW records \in Documents, NEW c \in Causes, NEW k \in Named \cup {Unclassified}
    PROVE  /\ SignatureOf(c) \in Signatures
           /\ Recorded(records, c, k) \in Documents
           /\ \A s \in Signatures \ {SignatureOf(c)} : Recorded(records, c, k)[s] = records[s]
           /\ Recorded(records, c, k)[SignatureOf(c)] =
                 IF records[SignatureOf(c)] = NoRecord THEN FirstRecord(c, k)
                 ELSE SeenAgain(records[SignatureOf(c)])
           /\ Recorded(records, c, k)[SignatureOf(c)] # NoRecord
  <1> DEFINE t == SignatureOf(c)
  <1>1. t \in Signatures
    BY CauseAssumption DEF SignatureOf
  <1>2. records[t] # NoRecord => SeenAgain(records[t]) \in FailureRecord
    BY <1>1 DEF Documents, FailureRecord, SeenAgain
  <1> QED
    BY <1>1, <1>2, FirstRecordIsOne, CauseAssumption DEF Recorded, Documents

(* Resolving changes the fix of one record. *)
LEMMA ResolvingOne ==
    ASSUME NEW records \in Documents, NEW s \in Signatures, NEW r \in Resolutions,
           records[s] # NoRecord
    PROVE  /\ Resolved(records, s, r) \in Documents
           /\ \A t \in Signatures \ {s} : Resolved(records, s, r)[t] = records[t]
           /\ Resolved(records, s, r)[s] = [records[s] EXCEPT !.resolution = r]
           /\ Resolved(records, s, r)[s] # NoRecord
  <1>1. [records[s] EXCEPT !.resolution = r] \in FailureRecord
    BY DEF Documents, FailureRecord
  <1> QED
    BY <1>1, CauseAssumption DEF Resolved, Documents

-----------------------------------------------------------------------------
(* Every action keeps the types. *)
LEMMA TypeStep == TypeOK /\ [Next]_vars => TypeOK'
  <1> SUFFICES ASSUME TypeOK, [Next]_vars PROVE TypeOK'
    OBVIOUS
  <1> USE DEF TypeOK
  <1>1. ASSUME NEW a \in Agents, NEW c \in Causes, NEW k \in Named \cup {Unclassified},
               Record(a, c, k)
        PROVE  TypeOK'
    <2>1. Recorded(Loaded, c, k) \in Documents /\ SignatureOf(c) \in Signatures
      BY <1>1, LoadingDocument, RecordingOne DEF Record, Begin
    <2>2. [cause |-> c, category |-> k] \in Reports
      BY DEF Reports
    <2>3. (alone /\ OthersIdle(a)) \in BOOLEAN /\ commands' \in 0..MaxCommands
      BY <1>1, FileAssumption DEF Record, Begin, OthersIdle
    <2>4. begun' \in [Signatures -> Nat]
      BY <1>1, <2>1 DEF Record
    <2> QED
      BY <1>1, <2>1, <2>2, <2>3, <2>4 DEF Record, Begin, session
  <1>2. ASSUME NEW a \in Agents, NEW s \in Signatures, NEW r \in Resolutions, Resolve(a, s, r)
        PROVE  TypeOK'
    <2>1. Resolved(Loaded, s, r) \in Documents
      BY <1>2, LoadingDocument, ResolvingOne DEF Resolve
    <2>2. [signature |-> s, resolution |-> r] \in Fixes
      BY DEF Fixes
    <2>3. (alone /\ OthersIdle(a)) \in BOOLEAN /\ commands' \in 0..MaxCommands
      BY <1>2, FileAssumption DEF Resolve, Begin, OthersIdle
    <2> QED
      BY <1>2, <2>1, <2>2, <2>3 DEF Resolve, Begin, session
  <1>3. ASSUME NEW a \in Agents, Truncate(a) PROVE TypeOK'
    BY <1>3 DEF Truncate, told, session
  <1>4. ASSUME NEW a \in Agents, Write(a) PROVE TypeOK'
    <2>1. file' \in Documents \cup {Absent, Empty, Torn}
      BY <1>4 DEF Write, Written
    <2>2. /\ known' \subseteq Causes /\ reports' \in [Signatures -> Nat]
          /\ called' \in [Signatures -> FailureCategory \cup {Unclassified}]
          /\ fixedBy' \in [Signatures -> Resolutions \cup {Open}]
      <3>1. CASE doing[a] \in Reports /\ ReportReturns(doing[a].cause, doing[a].category)
        <4>1. /\ doing[a].cause \in Causes
              /\ CategoryOf(doing[a].cause, doing[a].category) \in FailureCategory
              /\ SignatureOf(doing[a].cause) \in Signatures
          BY <3>1, CategoryIsOne, CauseAssumption DEF Reports, SignatureOf
        <4> QED
          BY <3>1, <4>1 DEF ReportReturns
      <3>2. CASE doing[a] \in Fixes /\ FixReturns(doing[a].signature, doing[a].resolution)
        BY <3>2 DEF FixReturns, Fixes
      <3> QED
        BY <1>4, <3>1, <3>2 DEF Write
    <2> QED
      BY <1>4, <2>1, <2>2, NothingYetIsDocument DEF Write, CommandEnds, told
  <1>5. ASSUME NEW a \in Agents, Clear(a) PROVE TypeOK'
    <2>1. alone' \in BOOLEAN /\ clears' \in 0..MaxClears
      BY <1>5, FileAssumption DEF Clear, OthersIdle
    <2> QED
      BY <1>5, <2>1 DEF Clear, told
  <1>6. ASSUME NEW a \in Agents, Crash(a) PROVE TypeOK'
    BY <1>6, NothingYetIsDocument, FileAssumption DEF Crash, CommandEnds, told, session
  <1>7. CASE UNCHANGED vars
    BY <1>7 DEF vars, told, session
  <1> QED
    BY <1>1, <1>2, <1>3, <1>4, <1>5, <1>6, <1>7 DEF Next

(* Types, for any agents, causes and bounds: Spec => []TypeOK.             *)
THEOREM TypeCorrect == Spec => []TypeOK
  <1>1. Init => TypeOK
    BY NothingYetIsDocument, FileAssumption DEF Init, TypeOK
  <1> QED
    BY <1>1, TypeStep, PTL DEF Spec

-----------------------------------------------------------------------------
(* A document stays true while reports and fixes are added. *)
LEMMA TrueStays ==
    ASSUME NEW records \in Documents,
           NEW counts \in [Signatures -> Nat], NEW more \in [Signatures -> Nat],
           NEW fixes, NEW others,
           IsTrue(records, counts, fixes), fixes \subseteq others,
           \A s \in Signatures : counts[s] <= more[s]
    PROVE  IsTrue(records, more, others)
  <1> SUFFICES ASSUME NEW s \in Signatures, records[s] # NoRecord
               PROVE  /\ records[s].attempts <= more[s]
                      /\ records[s].resolution = Open \/ <<s, records[s].resolution>> \in others
    BY DEF IsTrue
  <1>1. records[s].attempts \in Nat /\ counts[s] \in Nat /\ more[s] \in Nat
    BY DEF Documents, FailureRecord
  <1>2. records[s].attempts <= counts[s] /\ counts[s] <= more[s]
    BY DEF IsTrue
  <1>3. records[s].attempts <= more[s]
    BY <1>1, <1>2
  <1> QED
    BY <1>3 DEF IsTrue

(* It stays true with the report that was begun. *)
LEMMA TrueWithReport ==
    ASSUME NEW records \in Documents, NEW counts \in [Signatures -> Nat], NEW fixes,
           NEW c \in Causes, NEW k \in Named \cup {Unclassified},
           IsTrue(records, counts, fixes)
    PROVE  IsTrue(Recorded(records, c, k), [counts EXCEPT ![SignatureOf(c)] = @ + 1], fixes)
  <1> DEFINE t == SignatureOf(c)
             after == Recorded(records, c, k)
             more == [counts EXCEPT ![t] = @ + 1]
  <1>1. /\ t \in Signatures
        /\ \A s \in Signatures \ {t} : after[s] = records[s]
        /\ after[t] = IF records[t] = NoRecord THEN FirstRecord(c, k) ELSE SeenAgain(records[t])
    BY RecordingOne
  <1> HIDE DEF after, t
  <1>2. ASSUME NEW s \in Signatures, after[s] # NoRecord
        PROVE  /\ after[s].attempts <= more[s]
               /\ after[s].resolution = Open \/ <<s, after[s].resolution>> \in fixes
    <2>1. CASE s # t
      BY <1>1, <1>2, <2>1 DEF IsTrue
    <2>2. CASE s = t /\ records[t] = NoRecord
      BY <1>1, <2>2, FirstRecordIsOne
    <2>3. CASE s = t /\ records[t] # NoRecord
      <3>1. records[t] \in FailureRecord
        BY <1>1, <2>3 DEF Documents
      <3>2. /\ after[t].attempts = records[t].attempts + 1
            /\ after[t].resolution = records[t].resolution
        BY <1>1, <2>3, <3>1 DEF SeenAgain, FailureRecord
      <3>3. records[t].attempts \in Nat /\ records[t].attempts <= counts[t] /\ counts[t] \in Nat
        BY <1>1, <2>3, <3>1 DEF IsTrue, FailureRecord
      <3>4. records[t].resolution = Open \/ <<t, records[t].resolution>> \in fixes
        BY <1>1, <2>3 DEF IsTrue
      <3>5. more[t] = counts[t] + 1
        BY <1>1
      <3> QED
        BY <2>3, <3>2, <3>3, <3>4, <3>5
    <2> QED
      BY <2>1, <2>2, <2>3
  <1> QED
    BY <1>2 DEF IsTrue, after, t

(* It stays true with the fix that was given. *)
LEMMA TrueWithFix ==
    ASSUME NEW records \in Documents, NEW counts \in [Signatures -> Nat], NEW fixes,
           NEW t \in Signatures, NEW r \in Resolutions,
           IsTrue(records, counts, fixes), records[t] # NoRecord
    PROVE  IsTrue(Resolved(records, t, r), counts, fixes \cup {<<t, r>>})
  <1> DEFINE after == Resolved(records, t, r)
  <1>1. /\ \A s \in Signatures \ {t} : after[s] = records[s]
        /\ after[t] = [records[t] EXCEPT !.resolution = r]
        /\ records[t] \in FailureRecord
    BY ResolvingOne DEF Documents
  <1>2. after[t].attempts = records[t].attempts /\ after[t].resolution = r
    BY <1>1 DEF FailureRecord
  <1> QED
    BY <1>1, <1>2 DEF IsTrue

(* No step makes a document say what did not happen. *)
LEMMA InventedStep ==
    TypeOK /\ NothingInventedAnywhere /\ [Next]_vars => NothingInventedAnywhere'
  <1> SUFFICES ASSUME TypeOK, NothingInventedAnywhere, [Next]_vars
               PROVE  NothingInventedAnywhere'
    OBVIOUS
  <1> USE DEF TypeOK
  <1>0. IsTrue(NothingYet, begun, given)
    BY DEF IsTrue, NothingYet
  <1>1. file \notin Unreadable => Loaded \in Documents /\ IsTrue(Loaded, begun, given)
    BY <1>0, LoadingDocument, NothingYetIsDocument
    DEF Loaded, NothingInventedAnywhere, Unreadable
  <1>2. ASSUME NEW a \in Agents, NEW c \in Causes, NEW k \in Named \cup {Unclassified},
               Record(a, c, k)
        PROVE  NothingInventedAnywhere'
    <2> DEFINE after == Recorded(Loaded, c, k)
    <2>1. /\ SignatureOf(c) \in Signatures
          /\ begun' = [begun EXCEPT ![SignatureOf(c)] = @ + 1] /\ given' = given
          /\ file' = file /\ held' = [held EXCEPT ![a] = after] /\ begun \in [Signatures -> Nat]
      BY <1>2, CauseAssumption DEF Record, Begin, SignatureOf
    <2>2. begun' \in [Signatures -> Nat] /\ \A s \in Signatures : begun[s] <= begun'[s]
      BY <2>1
    <2>3. IsTrue(after, begun', given')
      <3>1. Loaded \in Documents /\ IsTrue(Loaded, begun, given)
        BY <1>1, <1>2 DEF Record, Begin
      <3>2. IsTrue(after, [begun EXCEPT ![SignatureOf(c)] = @ + 1], given)
        BY <2>1, <3>1, TrueWithReport
      <3> QED
        BY <2>1, <3>2
    <2>4. file \in Documents => IsTrue(file, begun', given')
      BY <2>1, <2>2, TrueStays DEF NothingInventedAnywhere
    <2>5. ASSUME NEW b \in Agents PROVE IsTrue(held[b], begun', given')
      BY <2>1, <2>2, TrueStays DEF NothingInventedAnywhere
    <2> HIDE DEF after
    <2> QED
      BY <2>1, <2>3, <2>4, <2>5 DEF NothingInventedAnywhere
  <1>3. ASSUME NEW a \in Agents, NEW t \in Signatures, NEW r \in Resolutions, Resolve(a, t, r)
        PROVE  NothingInventedAnywhere'
    <2> DEFINE after == Resolved(Loaded, t, r)
    <2>1. /\ begun' = begun /\ given' = given \cup {<<t, r>>}
          /\ file' = file /\ held' = [held EXCEPT ![a] = after]
      BY <1>3 DEF Resolve, Begin
    <2>2. IsTrue(after, begun', given')
      BY <1>1, <1>3, <2>1, TrueWithFix DEF Resolve
    <2>3. \A s \in Signatures : begun[s] <= begun[s]
      OBVIOUS
    <2>4. file \in Documents => IsTrue(file, begun', given')
      BY <2>1, <2>3, TrueStays DEF NothingInventedAnywhere
    <2>5. ASSUME NEW b \in Agents PROVE IsTrue(held[b], begun', given')
      BY <2>1, <2>3, TrueStays DEF NothingInventedAnywhere
    <2> HIDE DEF after
    <2> QED
      BY <2>1, <2>2, <2>4, <2>5 DEF NothingInventedAnywhere
  <1>4. ASSUME NEW a \in Agents, Truncate(a) PROVE NothingInventedAnywhere'
    BY <1>4, FileAssumption DEF Truncate, NothingInventedAnywhere, told
  <1>5. ASSUME NEW a \in Agents, Write(a) PROVE NothingInventedAnywhere'
    <2>1. file' \in {file, held[a], Torn}
      BY <1>5 DEF Write, Written
    <2>2. held' = [held EXCEPT ![a] = NothingYet] /\ begun' = begun /\ given' = given
      BY <1>5 DEF Write, CommandEnds, told
    <2> QED
      BY <1>0, <2>1, <2>2, FileAssumption DEF NothingInventedAnywhere
  <1>6. ASSUME NEW a \in Agents, Clear(a) PROVE NothingInventedAnywhere'
    BY <1>6, FileAssumption DEF Clear, NothingInventedAnywhere, told
  <1>7. ASSUME NEW a \in Agents, Crash(a) PROVE NothingInventedAnywhere'
    <2>1. /\ held' = [held EXCEPT ![a] = NothingYet]
          /\ file' = file /\ begun' = begun /\ given' = given
      BY <1>7 DEF Crash, CommandEnds, told
    <2> QED
      BY <1>0, <2>1 DEF NothingInventedAnywhere
  <1>8. CASE UNCHANGED vars
    BY <1>8 DEF vars, told, NothingInventedAnywhere
  <1> QED
    BY <1>2, <1>3, <1>4, <1>5, <1>6, <1>7, <1>8 DEF Next

(* However commands overlap, die or are cleared away, no failure counts    *)
(* more reports than there were, and no fix is made up:                    *)
(* Spec => []NothingInvented.                                              *)
THEOREM NothingIsInvented == Spec => []NothingInvented
  <1>1. Init => NothingInventedAnywhere
    BY FileAssumption DEF Init, NothingInventedAnywhere, IsTrue, NothingYet
  <1>2. NothingInventedAnywhere => NothingInvented
    BY DEF NothingInventedAnywhere, NothingInvented, HasHappened, IsTrue
  <1> QED
    BY <1>1, <1>2, TypeCorrect, InventedStep, PTL DEF Spec

-----------------------------------------------------------------------------
(* What a document that says what was reported says with one report more.  *)
LEMMA SaysWithReport ==
    ASSUME NEW records \in Documents, NEW counts \in [Signatures -> Nat],
           NEW categories \in [Signatures -> FailureCategory \cup {Unclassified}],
           NEW fixes \in [Signatures -> Resolutions \cup {Open}],
           NEW c \in Causes, NEW k \in Named \cup {Unclassified}, NEW t, t = SignatureOf(c),
           Says(records, counts, categories, fixes)
    PROVE  Says(Recorded(records, c, k), [counts EXCEPT ![t] = @ + 1],
                [categories EXCEPT ![t] = IF counts[t] = 0 THEN CategoryOf(c, k) ELSE @], fixes)
  <1> DEFINE after == Recorded(records, c, k)
             more == [counts EXCEPT ![t] = @ + 1]
             named == [categories EXCEPT ![t] = IF counts[t] = 0 THEN CategoryOf(c, k) ELSE @]
  <1>1. /\ t \in Signatures /\ after[t] # NoRecord
        /\ \A s \in Signatures \ {t} : after[s] = records[s]
        /\ after[t] = IF records[t] = NoRecord THEN FirstRecord(c, k) ELSE SeenAgain(records[t])
    BY RecordingOne
  <1>2. /\ more[t] = counts[t] + 1 /\ counts[t] \in Nat
        /\ named[t] = IF counts[t] = 0 THEN CategoryOf(c, k) ELSE categories[t]
        /\ \A s \in Signatures \ {t} : more[s] = counts[s] /\ named[s] = categories[s]
    BY <1>1
  <1>3. /\ after[t].attempts = more[t] /\ after[t].category = named[t]
        /\ after[t].resolution = fixes[t]
    <2>1. CASE counts[t] = 0
      BY <1>1, <1>2, <2>1, FirstRecordIsOne DEF Says
    <2>2. CASE counts[t] # 0
      <3>1. /\ records[t] # NoRecord /\ records[t] \in FailureRecord
            /\ records[t].attempts = counts[t] /\ records[t].category = categories[t]
            /\ records[t].resolution = fixes[t]
        BY <1>1, <2>2 DEF Says, Documents
      <3>2. /\ after[t].attempts = records[t].attempts + 1
            /\ after[t].category = records[t].category
            /\ after[t].resolution = records[t].resolution
        BY <1>1, <3>1 DEF SeenAgain, FailureRecord
      <3> QED
        BY <1>2, <2>2, <3>1, <3>2
    <2> QED
      BY <2>1, <2>2
  <1>4. more[t] # 0
    BY <1>2
  <1> HIDE DEF after, more, named
  <1>5. Says(after, more, named, fixes)
    BY <1>1, <1>2, <1>3, <1>4 DEF Says
  <1> QED
    BY <1>5 DEF after, more, named

(* And with one fix more. *)
LEMMA SaysWithFix ==
    ASSUME NEW records \in Documents, NEW counts \in [Signatures -> Nat],
           NEW categories \in [Signatures -> FailureCategory \cup {Unclassified}],
           NEW fixes \in [Signatures -> Resolutions \cup {Open}],
           NEW t \in Signatures, NEW r \in Resolutions, records[t] # NoRecord,
           Says(records, counts, categories, fixes)
    PROVE  Says(Resolved(records, t, r), counts, categories, [fixes EXCEPT ![t] = r])
  <1> DEFINE after == Resolved(records, t, r)
             given1 == [fixes EXCEPT ![t] = r]
  <1>1. /\ after[t] # NoRecord
        /\ \A s \in Signatures \ {t} : after[s] = records[s] /\ given1[s] = fixes[s]
        /\ after[t] = [records[t] EXCEPT !.resolution = r] /\ given1[t] = r
        /\ records[t] \in FailureRecord
    BY ResolvingOne DEF Documents
  <1>2. /\ after[t].attempts = records[t].attempts /\ after[t].category = records[t].category
        /\ after[t].resolution = r
    BY <1>1 DEF FailureRecord
  <1>3. counts[t] # 0
    BY DEF Says
  <1> HIDE DEF after, given1
  <1>4. Says(after, counts, categories, given1)
    BY <1>1, <1>2, <1>3 DEF Says
  <1> QED
    BY <1>4 DEF after, given1

(* The command that begins alone holds what the session will amount to. *)
LEMMA AloneBegins ==
    ASSUME TypeOK, OneCommand, NEW a \in Agents, NEW records, NEW command,
           Begin(a, command, records),
           alone' => /\ command \in Reports =>
                           SaysReport(records, command.cause, command.category)
                     /\ command \in Fixes =>
                           SaysFix(records, command.signature, command.resolution)
    PROVE  OneCommand'
  <1> USE DEF TypeOK
  <1> SUFFICES ASSUME alone' PROVE OneCommand'
    BY DEF OneCommand
  <1>1. alone /\ OthersIdle(a) /\ pc[a] = "idle" /\ file \notin Unreadable
    BY DEF Begin
  <1>2. /\ file' = file /\ handle' = handle /\ reports' = reports /\ called' = called
        /\ fixedBy' = fixedBy /\ pc' = [pc EXCEPT ![a] = "save"]
        /\ doing' = [doing EXCEPT ![a] = command] /\ held' = [held EXCEPT ![a] = records]
    BY DEF Begin, session
  <1>3. file' # Torn /\ (file' \notin Unreadable => Says(Loaded, reports, called, fixedBy)')
    BY <1>1, <1>2 DEF OneCommand, Loaded
  <1>4. ASSUME NEW b \in Agents
        PROVE  /\ handle'[b] # "removed"
               /\ pc'[b] # "idle" => b = a /\ OthersIdle(a)'
    BY <1>1, <1>2 DEF OneCommand, OthersIdle
  <1>5. /\ pc'[a] = "save" /\ held'[a] = records /\ doing'[a] = command
    BY <1>2
  <1>6. /\ doing'[a] \in Reports =>
              SaysReport(held[a], doing[a].cause, doing[a].category)'
        /\ doing'[a] \in Fixes =>
              SaysFix(held[a], doing[a].signature, doing[a].resolution)'
    BY <1>2, <1>5 DEF SaysReport, SaysFix
  <1> QED
    BY <1>1, <1>2, <1>3, <1>4, <1>5, <1>6 DEF OneCommand

(* The only command in flight leaves what the session amounts to. *)
LEMMA CommandStep == TypeOK /\ OneCommand /\ [Next]_vars => OneCommand'
  <1> SUFFICES ASSUME TypeOK, OneCommand, [Next]_vars PROVE OneCommand'
    OBVIOUS
  <1> USE DEF TypeOK
  <1>1. ASSUME NEW a \in Agents, NEW c \in Causes, NEW k \in Named \cup {Unclassified},
               Record(a, c, k)
        PROVE  OneCommand'
    <2> DEFINE after == Recorded(Loaded, c, k)
               report == [cause |-> c, category |-> k]
    <2>1. Begin(a, report, after)
      BY <1>1 DEF Record
    <2>2. alone' => Loaded \in Documents /\ Says(Loaded, reports, called, fixedBy)
      BY <2>1, LoadingDocument DEF Begin, OneCommand
    <2>3. alone' => SaysReport(after, c, k)
      BY <2>2, SaysWithReport DEF SaysReport
    <2>4. report.cause = c /\ report.category = k /\ report \notin Fixes
      BY DEF Fixes
    <2> HIDE DEF after, report
    <2> QED
      BY <2>1, <2>3, <2>4, AloneBegins
  <1>2. ASSUME NEW a \in Agents, NEW t \in Signatures, NEW r \in Resolutions, Resolve(a, t, r)
        PROVE  OneCommand'
    <2> DEFINE after == Resolved(Loaded, t, r)
               fix == [signature |-> t, resolution |-> r]
    <2>1. Begin(a, fix, after) /\ Loaded[t] # NoRecord
      BY <1>2 DEF Resolve
    <2>2. alone' => Loaded \in Documents /\ Says(Loaded, reports, called, fixedBy)
      BY <2>1, LoadingDocument DEF Begin, OneCommand
    <2>3. alone' => SaysFix(after, t, r)
      BY <2>1, <2>2, SaysWithFix DEF SaysFix
    <2>4. fix.signature = t /\ fix.resolution = r /\ fix \notin Reports
      BY DEF Reports
    <2> HIDE DEF after, fix
    <2> QED
      BY <2>1, <2>3, <2>4, AloneBegins
  <1>3. ASSUME NEW a \in Agents, Truncate(a) PROVE OneCommand'
    <2>1. /\ file' = Empty /\ pc' = [pc EXCEPT ![a] = "write"] /\ pc[a] = "save"
          /\ handle' = [handle EXCEPT ![a] = "open"]
          /\ doing' = doing /\ held' = held /\ alone' = alone
          /\ reports' = reports /\ called' = called /\ fixedBy' = fixedBy
      BY <1>3 DEF Truncate, session
    <2>2. alone => \A b \in Agents : pc[b] # "idle" => b = a
      BY <2>1 DEF OneCommand, OthersIdle
    <2>3. ASSUME alone, NEW b \in Agents, pc[b] # "idle"
          PROVE  /\ OthersIdle(b)'
                 /\ doing[b] \in Reports => SaysReport(held[b], doing[b].cause, doing[b].category)'
                 /\ doing[b] \in Fixes => SaysFix(held[b], doing[b].signature, doing[b].resolution)'
      <3>1. b = a /\ OthersIdle(a)'
        BY <2>1, <2>2, <2>3 DEF OthersIdle
      <3>2. /\ doing[b] \in Reports => SaysReport(held[b], doing[b].cause, doing[b].category)
            /\ doing[b] \in Fixes => SaysFix(held[b], doing[b].signature, doing[b].resolution)
        BY <2>3 DEF OneCommand
      <3> QED
        BY <2>1, <3>1, <3>2 DEF SaysReport, SaysFix
    <2> QED
      BY <2>1, <2>2, <2>3, FileAssumption DEF OneCommand, Unreadable
  <1>4. ASSUME NEW a \in Agents, Write(a) PROVE OneCommand'
    <2> SUFFICES ASSUME alone PROVE OneCommand'
      BY <1>4 DEF Write, OneCommand
    <2>1. /\ OthersIdle(a) /\ file = Empty /\ handle[a] = "open"
          /\ doing[a] \in Reports => SaysReport(held[a], doing[a].cause, doing[a].category)
          /\ doing[a] \in Fixes => SaysFix(held[a], doing[a].signature, doing[a].resolution)
      BY <1>4 DEF Write, OneCommand
    <2>2. file' = held[a] /\ held[a] \in Documents
      BY <1>4, <2>1 DEF Write, Written
    <2>3. Says(held[a], reports', called', fixedBy')
      <3>1. CASE doing[a] \in Reports /\ ReportReturns(doing[a].cause, doing[a].category)
        BY <2>1, <3>1 DEF ReportReturns, SaysReport
      <3>2. CASE doing[a] \in Fixes /\ FixReturns(doing[a].signature, doing[a].resolution)
        BY <2>1, <3>2 DEF FixReturns, SaysFix
      <3> QED
        BY <1>4, <3>1, <3>2 DEF Write
    <2>4. file' # Torn /\ Loaded' = held[a]
      BY <2>2, FileAssumption DEF Loaded
    <2>5. \A b \in Agents : handle'[b] # "removed" /\ pc'[b] = "idle"
      BY <1>4, <2>1 DEF Write, CommandEnds, OthersIdle, OneCommand
    <2> QED
      BY <2>3, <2>4, <2>5 DEF OneCommand
  <1>5. ASSUME NEW a \in Agents, Clear(a) PROVE OneCommand'
    <2>1. file' = Absent /\ file' # Torn /\ Loaded' = NothingYet
      BY <1>5, FileAssumption DEF Clear, Loaded
    <2>2. Says(NothingYet, reports', called', fixedBy')
      BY <1>5 DEF Clear, Says, NothingYet
    <2>3. alone' => \A b \in Agents : handle'[b] # "removed" /\ pc'[b] = "idle"
      BY <1>5 DEF Clear, OthersIdle
    <2> QED
      BY <2>1, <2>2, <2>3 DEF OneCommand
  <1>6. ASSUME NEW a \in Agents, Crash(a) PROVE OneCommand'
    <2>1. /\ file' = file /\ Loaded' = Loaded /\ alone' = alone
          /\ reports' = reports /\ called' = called /\ fixedBy' = fixedBy
      BY <1>6 DEF Crash, session, Loaded
    <2>2. alone => \A b \in Agents : handle'[b] # "removed" /\ pc'[b] = "idle"
      BY <1>6 DEF Crash, CommandEnds, OthersIdle, OneCommand
    <2> QED
      BY <2>1, <2>2 DEF OneCommand
  <1>7. CASE UNCHANGED vars
    BY <1>7 DEF vars, session, OneCommand, Loaded, OthersIdle, SaysReport, SaysFix
  <1> QED
    BY <1>1, <1>2, <1>3, <1>4, <1>5, <1>6, <1>7 DEF Next

LEMMA OneCommandHolds == Spec => []OneCommand
  <1>1. Init => OneCommand
    BY FileAssumption DEF Init, OneCommand, Loaded, Says, NothingYet
  <1> QED
    BY <1>1, TypeCorrect, CommandStep, PTL DEF Spec

(* Commands that do not overlap are all remembered: every report counted,  *)
(* the first category and the last fix kept: Spec => []RemembersAll.       *)
THEOREM MemoryIsComplete == Spec => []RemembersAll
  <1>1. OneCommand => RemembersAll
    BY DEF OneCommand, RemembersAll, Remembers, Says
  <1> QED
    BY <1>1, OneCommandHolds, PTL

-----------------------------------------------------------------------------
(* A cause is known only once a report of it has returned. *)
LEMMA KnownStep == TypeOK /\ KnownWasReported /\ [Next]_vars => KnownWasReported'
  <1> SUFFICES ASSUME TypeOK, KnownWasReported, [Next]_vars PROVE KnownWasReported'
    OBVIOUS
  <1> USE DEF TypeOK
  <1>1. ASSUME NEW a \in Agents, Write(a) PROVE KnownWasReported'
    <2>1. CASE doing[a] \in Reports /\ ReportReturns(doing[a].cause, doing[a].category)
      <3>1. doing[a].cause \in Causes /\ SignatureOf(doing[a].cause) \in Signatures
        BY <2>1, CauseAssumption DEF Reports, SignatureOf
      <3>2. /\ reports'[SignatureOf(doing[a].cause)] # 0
            /\ \A s \in Signatures : reports[s] # 0 => reports'[s] # 0
        BY <2>1, <3>1 DEF ReportReturns
      <3>3. \A c \in known : SignatureOf(c) \in Signatures
        BY CauseAssumption DEF SignatureOf
      <3> QED
        BY <2>1, <3>2, <3>3 DEF ReportReturns, KnownWasReported
    <2>2. CASE FixReturns(doing[a].signature, doing[a].resolution)
      BY <2>2 DEF FixReturns, KnownWasReported
    <2> QED
      BY <1>1, <2>1, <2>2 DEF Write
  <1>2. ASSUME NEW a \in Agents, Clear(a) PROVE KnownWasReported'
    BY <1>2 DEF Clear, KnownWasReported
  <1>3. CASE UNCHANGED session
    BY <1>3 DEF session, KnownWasReported
  <1> QED
    BY <1>1, <1>2, <1>3 DEF Next, Record, Resolve, Begin, Truncate, Crash, vars

(* Two sets of words are never more than 100 % alike. *)
LEMMA JaccardIsAPercentage ==
    ASSUME NEW words1 \in SUBSET Words, NEW words2 \in SUBSET Words
    PROVE  Jaccard(words1, words2) <= 100
  <1> DEFINE both == words1 \cap words2
             either == words1 \cup words2
  <1>1. IsFiniteSet(either)
    BY CauseAssumption, FS_Subset
  <1>2. /\ Cardinality(either) \in Nat /\ Cardinality(both) \in Nat
        /\ Cardinality(both) <= Cardinality(either)
    BY <1>1, FS_Subset, FS_CardinalityType
  <1>3. either # {} => Cardinality(either) # 0
    BY <1>1, FS_EmptySet
  <1>4. ASSUME NEW m \in Nat, NEW n \in Nat, m <= n, n # 0 PROVE (m * 100) \div n <= 100
    BY <1>4, SMTT(60)
  <1> HIDE DEF both, either
  <1>5. either # {} => (Cardinality(both) * 100) \div Cardinality(either) <= 100
    BY <1>2, <1>3, <1>4
  <1> QED
    BY <1>5 DEF Jaccard, both, either

(* A failure that was recorded, by commands that did not overlap, is found *)
(* when it is met again, unless its text had a secret in it:               *)
(* Spec => []KnownFailureIsFound.                                          *)
THEOREM KnownFailuresAreFound == Spec => []KnownFailureIsFound
  <1>1. Init => KnownWasReported
    BY DEF Init, KnownWasReported
  <1>2. TypeOK /\ RemembersAll /\ KnownWasReported => KnownFailureIsFound
    <2> SUFFICES ASSUME TypeOK, RemembersAll, KnownWasReported, alone, file \notin Unreadable,
                        NEW c \in known, Redacted[c] = c
                 PROVE  FindsFirst(c)
      BY DEF KnownFailureIsFound
    <2> DEFINE t == Signature[c]
    <2>1. c \in Causes /\ t \in Signatures /\ reports[t] # 0
      BY CauseAssumption DEF TypeOK, KnownWasReported, SignatureOf
    <2>2. Loaded \in Documents /\ Loaded[t] # NoRecord
      BY <2>1, LoadingDocument DEF RemembersAll, Remembers
    <2>3. Similarity(c, t) = 100 /\ t \in Similar(c)
      BY <2>1, <2>2, CauseAssumption DEF Similarity, Similar
    <2>4. ASSUME NEW s \in Similar(c) PROVE Similarity(c, s) <= 100
      <3>1. Loaded[s] \in FailureRecord
        BY <2>2 DEF Similar, Documents
      <3>2. Keywords[c] \in SUBSET Words /\ Keywords[Loaded[s].cause] \in SUBSET Words
        BY <2>1, <3>1, CauseAssumption DEF FailureRecord
      <3> QED
        BY <3>2, JaccardIsAPercentage DEF Similarity
    <2> QED
      BY <2>3, <2>4 DEF FindsFirst
  <1> QED
    BY <1>1, <1>2, TypeCorrect, MemoryIsComplete, KnownStep, PTL DEF Spec
=============================================================================
