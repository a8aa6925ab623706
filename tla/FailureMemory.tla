--------------------------- MODULE FailureMemory ---------------------------
(***************************************************************************)
(* FailureMemoryStore (core/failure_memory.py) and "goldenboy failure"     *)
(* (cli.py): why tasks failed, one record per distinct cause, in           *)
(* .goldenboy/failures.json.  Agents record failures, say what fixed them  *)
(* and ask whether something like this has happened before.  Each command  *)
(* is a process of its own, nothing locks the file, and it is rewritten in *)
(* place: read, open for writing (which empties the file), write.          *)
(***************************************************************************)
EXTENDS Integers, Sequences, FiniteSets

CONSTANTS Agents,
          Causes, Words, Signatures,  \* texts; their words; hashes of normalized texts
          Redacted,                   \* cause -> the cause with its secrets masked
          Signature,                  \* cause -> its hash, for which numbers and spaces are alike
          Keywords,                   \* cause -> its words, without the common ones
          Matches,                    \* cause -> the categories whose pattern it matches
          Resolutions,                \* what agents say fixed a failure
          MinSimilarity,              \* percent: --min-similarity
          Named, Unclassified,        \* the categories agents name; no --category
          Open, NoRecord, Nothing,    \* no resolution; no record of a signature; no command
          Absent, Empty, Torn,        \* no file; an empty one; one that is not JSON
          MaxCommands, MaxClears, MaxCrashes    \* bounds

(* The patterns are tried in this order. *)
CategoryOrder == <<"SYNTAX", "POLICY_DENIAL", "PERMISSION", "DEPENDENCY", "TIMEOUT",
                   "RESOURCE_LIMIT", "TEST_FAILURE", "ENVIRONMENT">>

FailureCategory == {CategoryOrder[n] : n \in 1..Len(CategoryOrder)} \cup {"UNKNOWN"}

FailureRecord == [cause : Causes, category : FailureCategory, attempts : Nat \ {0},
                  resolution : Resolutions \cup {Open}]

Documents == [Signatures -> FailureRecord \cup {NoRecord}]

(* What agents ask for: "failure record" and "failure resolve".             *)
Reports == [cause : Causes, category : Named \cup {Unclassified}]

Fixes == [signature : Signatures, resolution : Resolutions]

ASSUME CauseAssumption ==
    /\ Redacted \in [Causes -> Causes] /\ Signature \in [Causes -> Signatures]
    /\ Matches \in [Causes -> SUBSET FailureCategory]
    /\ Named \subseteq FailureCategory /\ Unclassified \notin FailureCategory
    /\ Keywords \in [Causes -> SUBSET Words] /\ IsFiniteSet(Words)
    /\ MinSimilarity \in 0..100
    /\ Open \notin Resolutions /\ NoRecord \notin FailureRecord
    /\ Nothing \notin Reports \cup Fixes

ASSUME FileAssumption ==
    /\ Absent \notin Documents /\ Empty \notin Documents /\ Torn \notin Documents
    /\ Absent # Empty /\ Absent # Torn /\ Empty # Torn
    /\ MaxCommands \in Nat /\ MaxClears \in Nat /\ MaxCrashes \in Nat

VARIABLES file,
          pc,        \* Agents -> "idle", "save" (has read) or "write" (has emptied the file)
          doing,     \* Agents -> the command it runs
          held,      \* Agents -> the records it is about to write
          handle,    \* Agents -> "open" on the file, or on one that was since "removed"
          commands, clears, crashes,
          begun,     \* history: the reports that were begun, per signature
          given,     \* history: the resolutions that were begun to be given
          known,     \* history: the causes recorded since the last clear ...
          reports,   \* ... per signature how often,
          called,    \* ... what category the first of them was given,
          fixedBy,   \* ... and the last resolution given
          alone      \* history: since a clear no two commands have overlapped

told == <<begun, given>>
session == <<known, reports, called, fixedBy>>
vars == <<file, pc, doing, held, handle, commands, clears, crashes, told, session, alone>>

-----------------------------------------------------------------------------
Unreadable == {Empty, Torn}

NothingYet == [s \in Signatures |-> NoRecord]

(* _load, when it does not raise. *)
Loaded == IF file = Absent THEN NothingYet ELSE file

IsFirst(n, c) == /\ CategoryOrder[n] \in Matches[c]
                 /\ \A m \in 1..(n - 1) : CategoryOrder[m] \notin Matches[c]

(* classify_failure *)
Classified(c) ==
    IF \E n \in 1..Len(CategoryOrder) : IsFirst(n, c)
    THEN CategoryOrder[CHOOSE n \in 1..Len(CategoryOrder) : IsFirst(n, c)]
    ELSE "UNKNOWN"

CategoryOf(c, k) == IF k = Unclassified THEN Classified(Redacted[c]) ELSE k

SignatureOf(c) == Signature[Redacted[c]]

FirstRecord(c, k) ==
    [cause |-> Redacted[c], category |-> CategoryOf(c, k), attempts |-> 1, resolution |-> Open]

SeenAgain(record) == [record EXCEPT !.attempts = @ + 1]

Recorded_Anew(records, c, k) == [records EXCEPT ![SignatureOf(c)] = FirstRecord(c, k)]

Recorded(records, c, k) ==
    [records EXCEPT ![SignatureOf(c)] =
        IF @ = NoRecord THEN FirstRecord(c, k) ELSE SeenAgain(@)]

Resolved_Counts(records, s, r) ==
    [records EXCEPT ![s].resolution = r, ![s].attempts = @ + 1]

Resolved(records, s, r) == [records EXCEPT ![s].resolution = r]

OthersIdle(a) == \A b \in Agents \ {a} : pc[b] = "idle"

-----------------------------------------------------------------------------
(* find_similar: which records a text finds, and how similar they are.     *)
Jaccard(words1, words2) ==
    IF words1 \cup words2 = {} THEN 0
    ELSE (Cardinality(words1 \cap words2) * 100) \div Cardinality(words1 \cup words2)

Similarity(text, s) ==
    IF s = Signature[text] THEN 100 ELSE Jaccard(Keywords[text], Keywords[Loaded[s].cause])

Similar_Fuzzy(text) ==
    {s \in Signatures : /\ Loaded[s] # NoRecord
                        /\ Jaccard(Keywords[text], Keywords[Loaded[s].cause]) >= MinSimilarity}

Similar(text) ==
    {s \in Signatures : Loaded[s] # NoRecord /\ Similarity(text, s) >= MinSimilarity}

-----------------------------------------------------------------------------
Init == /\ file = Absent
        /\ pc = [a \in Agents |-> "idle"]
        /\ doing = [a \in Agents |-> Nothing]
        /\ held = [a \in Agents |-> NothingYet]
        /\ handle = [a \in Agents |-> "closed"]
        /\ commands = 0 /\ clears = 0 /\ crashes = 0
        /\ begun = [s \in Signatures |-> 0] /\ given = {}
        /\ known = {} /\ reports = [s \in Signatures |-> 0]
        /\ called = [s \in Signatures |-> Unclassified]
        /\ fixedBy = [s \in Signatures |-> Open]
        /\ alone = TRUE

(* A command up to its _save.  One that cannot read the file raises        *)
(* FailureMemoryError and changes nothing.                                 *)
Begin(a, command, records) ==
    /\ pc[a] = "idle" /\ commands < MaxCommands
    /\ file \notin Unreadable
    /\ commands' = commands + 1
    /\ doing' = [doing EXCEPT ![a] = command]
    /\ held' = [held EXCEPT ![a] = records]
    /\ pc' = [pc EXCEPT ![a] = "save"]
    /\ alone' = (alone /\ OthersIdle(a))
    /\ UNCHANGED <<file, handle, clears, crashes, session>>

Record(a, c, k) ==
    /\ Begin(a, [cause |-> c, category |-> k], Recorded(Loaded, c, k))
    /\ begun' = [begun EXCEPT ![SignatureOf(c)] = @ + 1]
    /\ UNCHANGED given

(* Without a record of the signature, resolve() returns None.              *)
Resolve(a, s, r) ==
    /\ file \notin Unreadable /\ Loaded[s] # NoRecord
    /\ Begin(a, [signature |-> s, resolution |-> r], Resolved(Loaded, s, r))
    /\ given' = given \cup {<<s, r>>}
    /\ UNCHANGED begun

(* open(state_file, "w") *)
Truncate(a) ==
    /\ pc[a] = "save"
    /\ file' = Empty
    /\ handle' = [handle EXCEPT ![a] = "open"]
    /\ pc' = [pc EXCEPT ![a] = "write"]
    /\ UNCHANGED <<doing, held, commands, clears, crashes, told, session, alone>>

(* What the file holds once a's document is written at its start: over a   *)
(* document somebody else wrote meanwhile, the end of a longer one stays.  *)
Written(a) ==
    IF handle[a] = "removed" THEN {file}
    ELSE IF file = Empty THEN {held[a]}
    ELSE {held[a], Torn}

CommandEnds(a) ==
    /\ pc' = [pc EXCEPT ![a] = "idle"]
    /\ doing' = [doing EXCEPT ![a] = Nothing]
    /\ held' = [held EXCEPT ![a] = NothingYet]
    /\ handle' = [handle EXCEPT ![a] = "closed"]

ReportReturns(c, k) ==
    LET s == SignatureOf(c)
    IN  /\ known' = known \cup {c}
        /\ reports' = [reports EXCEPT ![s] = @ + 1]
        /\ called' = [called EXCEPT ![s] = IF reports[s] = 0 THEN CategoryOf(c, k) ELSE @]
        /\ UNCHANGED fixedBy

FixReturns(s, r) ==
    /\ fixedBy' = [fixedBy EXCEPT ![s] = r]
    /\ UNCHANGED <<known, reports, called>>

(* The file is closed and the command returns. *)
Write(a) ==
    /\ pc[a] = "write"
    /\ file' \in Written(a)
    /\ \/ doing[a] \in Reports /\ ReportReturns(doing[a].cause, doing[a].category)
       \/ doing[a] \in Fixes /\ FixReturns(doing[a].signature, doing[a].resolution)
    /\ CommandEnds(a)
    /\ UNCHANGED <<commands, clears, crashes, told, alone>>

(* clear(): or somebody does what the error about a corrupted file says.   *)
Clear(a) ==
    /\ pc[a] = "idle" /\ clears < MaxClears
    /\ file # Absent
    /\ file' = Absent
    /\ handle' = [b \in Agents |-> IF handle[b] = "open" THEN "removed" ELSE handle[b]]
    /\ clears' = clears + 1
    /\ known' = {} /\ reports' = [s \in Signatures |-> 0]
    /\ called' = [s \in Signatures |-> Unclassified]
    /\ fixedBy' = [s \in Signatures |-> Open]
    /\ alone' = OthersIdle(a)
    /\ UNCHANGED <<pc, doing, held, commands, crashes, told>>

(* The process is killed, or its write raises.  The document is smaller    *)
(* than a buffer: nothing of it is in the file.                            *)
Crash(a) ==
    /\ pc[a] # "idle" /\ crashes < MaxCrashes
    /\ CommandEnds(a)
    /\ crashes' = crashes + 1
    /\ UNCHANGED <<file, commands, clears, told, session, alone>>

Next == \E a \in Agents :
           \/ \E c \in Causes, k \in Named \cup {Unclassified} : Record(a, c, k)
           \/ \E s \in Signatures, r \in Resolutions : Resolve(a, s, r)
           \/ Truncate(a)
           \/ Write(a)
           \/ Clear(a)
           \/ Crash(a)

Spec == Init /\ [][Next]_vars

-----------------------------------------------------------------------------
(* Every variable has its type; a handle is open only while writing, and   *)
(* an agent that is not idle runs a command.                               *)
TypeOK ==
    /\ file \in Documents \cup {Absent, Empty, Torn}
    /\ pc \in [Agents -> {"idle", "save", "write"}]
    /\ doing \in [Agents -> Reports \cup Fixes \cup {Nothing}]
    /\ held \in [Agents -> Documents]
    /\ handle \in [Agents -> {"closed", "open", "removed"}]
    /\ \A a \in Agents : /\ handle[a] # "closed" <=> pc[a] = "write"
                         /\ pc[a] # "idle" => doing[a] \in Reports \cup Fixes
    /\ commands \in 0..MaxCommands /\ clears \in 0..MaxClears /\ crashes \in 0..MaxCrashes
    /\ begun \in [Signatures -> Nat] /\ given \subseteq Signatures \X Resolutions
    /\ known \subseteq Causes /\ reports \in [Signatures -> Nat]
    /\ called \in [Signatures -> FailureCategory \cup {Unclassified}]
    /\ fixedBy \in [Signatures -> Resolutions \cup {Open}]
    /\ alone \in BOOLEAN

(* However commands overlap, die or are cleared away, the memory invents   *)
(* nothing: no failure was seen more often than it was reported, and a     *)
(* fix is one that somebody gave for that failure.                         *)
HasHappened(records) ==
    \A s \in Signatures : records[s] # NoRecord =>
        /\ records[s].attempts <= begun[s]
        /\ records[s].resolution = Open \/ <<s, records[s].resolution>> \in given

NothingInvented == file \in Documents => HasHappened(file)

(* As long as no two commands overlap, it forgets nothing either: each     *)
(* failure counts as often as it was reported, is of the category its      *)
(* first report had, and keeps the last fix, however often it recurs.      *)
Remembers(records, s) ==
    IF reports[s] = 0 THEN records[s] = NoRecord
    ELSE /\ records[s] # NoRecord
         /\ records[s].attempts = reports[s]
         /\ records[s].category = called[s]
         /\ records[s].resolution = fixedBy[s]

RemembersAll ==
    alone => /\ file # Torn
             /\ file \notin Unreadable => \A s \in Signatures : Remembers(Loaded, s)

FindsFirst(c) == /\ Signature[c] \in Similar(c)
                 /\ \A s \in Similar(c) : Similarity(c, s) <= Similarity(c, Signature[c])

(* Whoever meets a failure again is told: a cause that was recorded, by    *)
(* commands that did not overlap, finds its record, and none more similar. *)
(* Causes with a secret in them are excluded: see RecordedIsFound.         *)
KnownFailureIsFound ==
    alone /\ file \notin Unreadable => \A c \in known : Redacted[c] = c => FindsFirst(c)

-----------------------------------------------------------------------------
(* failure_memory.py:286: "Exact-signature matches first (similarity 1.0)" *)
(* of the cause asked for, and :1 "check 'has this happened before'": for  *)
(* every cause that was recorded.                                          *)
RecordedIsFound ==
    alone /\ file \notin Unreadable => \A c \in known : FindsFirst(c)
=============================================================================
