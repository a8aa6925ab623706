------------------------- MODULE SpendLedgerProofs -------------------------
(***************************************************************************)
(* What SpendLedger guarantees for any agents, requests, costs and limits: *)
(* the types, that a session ends by reset-session alone, that the audit   *)
(* log has the verdict of every call, and how far agents that spend at one *)
(* time can take the ledger over its limit.  The second rests on at most   *)
(* one command making the marker (OneMaker), the third on counting what    *)
(* may still be hidden (HiddenWereCut), the last on what each agent may    *)
(* yet add to a window it saw room in (ClaimsAreCovered), and on the laws  *)
(* of sums over finite sets.                                               *)
(***************************************************************************)
EXTENDS SpendLedger, FiniteSetTheorems, WellFoundedInduction, TLAPS

OneMaker ==
    ~raced => \A a \in Agents :
        MakesMarker(a) =>
            /\ \A b \in Agents \ {a} : ~MakesMarker(b)
            /\ pc[a] = "write" => marker = Empty
            /\ purpose[a] # "reset" => marker \notin Stamps

(* The agents about to call on a verdict no load will find. *)
Unfound == {a \in Agents : pc[a] = "work" /\ ~traced[a]}

HiddenWereCut ==
    untraced + Cardinality(Unfound) + (IF "audit" \in torn THEN 1 ELSE 0) <= cuts

-----------------------------------------------------------------------------
(* The bounds are numbers. *)
LEMMA BoundsAreNat == MaxMarkers \in Nat /\ MaxCrashes \in Nat /\ MaxDays \in Nat
  BY LedgerAssumption

(* What a call is committed at is a number of tokens.                      *)
LEMMA CommittedIsNat ==
    ASSUME NEW r \in Requests, NEW actual \in Actuals \cup {NotMeasured}
    PROVE  Committed(r, actual) \in Nat
  BY LedgerAssumption DEF Committed

(* Concluding a command keeps the types of what it changes. *)
LEMMA ConcludingTypes ==
    ASSUME TypeOK, NEW a \in Agents, NEW since, Concludes(a, since)
    PROVE  /\ pc' \in [Agents -> {"idle", "load", "window", "stamp", "truncate", "write",
                                  "policy", "work", "append", "stopped"}]
           /\ pc'[a] \in {"policy", "idle", "stopped"}
           /\ \A b \in Agents \ {a} : pc'[b] = pc[b]
           /\ seen' \in [Agents -> SUBSET Entries]
           /\ purpose' \in [Agents -> {"status", "record", "reset"}]
  BY DEF TypeOK, Concludes, Goes

(* Every action keeps the types. *)
LEMMA TypeStep == TypeOK /\ [Next]_vars => TypeOK'
  <1> SUFFICES ASSUME TypeOK, [Next]_vars PROVE TypeOK'
    OBVIOUS
  <1> USE DEF TypeOK
  <1>1. ASSUME NEW a \in Agents, Load(a) PROVE TypeOK'
    BY <1>1 DEF Load, Goes, fixed, files, work, bounds
  <1>2. ASSUME NEW a \in Agents, ReadMarker(a) PROVE TypeOK'
    BY <1>2, ConcludingTypes DEF ReadMarker, fixed, files, work, bounds
  <1>3. ASSUME NEW a \in Agents, NeedsMarker(a) PROVE TypeOK'
    <2>1. raced' \in BOOLEAN
      BY <1>3 DEF NeedsMarker, BeginsMarker, Races
    <2> QED
      BY <1>3, <2>1, BoundsAreNat DEF NeedsMarker, BeginsMarker, Goes, fixed, files, work
  <1>4. ASSUME NEW a \in Agents, ResetSession(a) PROVE TypeOK'
    <2>1. raced' \in BOOLEAN
      BY <1>4 DEF ResetSession, BeginsMarker, Races
    <2> QED
      BY <1>4, <2>1, BoundsAreNat DEF ResetSession, BeginsMarker, Goes, fixed, files, work
  <1>5. ASSUME NEW a \in Agents, StampMarker(a) PROVE TypeOK'
    BY <1>5 DEF StampMarker, Goes, Stamps, fixed, files, work, bounds
  <1>6. ASSUME NEW a \in Agents, TruncateMarker(a) PROVE TypeOK'
    BY <1>6 DEF TruncateMarker, Goes, fixed, work, bounds
  <1>7. ASSUME NEW a \in Agents, WriteMarker(a) PROVE TypeOK'
    BY <1>7, ConcludingTypes DEF WriteMarker, fixed, work, bounds
  <1>8. ASSUME NEW a \in Agents, Evaluate(a) PROVE TypeOK'
    <2>1. torn' \subseteq {"spending", "audit"} /\ traced' \in [Agents -> BOOLEAN]
      BY <1>8 DEF Evaluate, Audits
    <2>2. /\ entry' \in [Agents -> Drafts \cup {NotMeasured}]
          /\ pc'[a] = "work" => entry'[a] \in Drafts
          /\ pc'[a] \in {"work", "idle"}
          /\ \A b \in Agents \ {a} : pc'[b] = pc[b] /\ entry'[b] = entry[b]
          /\ pc' \in [Agents -> {"idle", "load", "window", "stamp", "truncate", "write",
                                 "policy", "work", "append", "stopped"}]
      <3>1. PICK r \in Requests :
              \/ /\ Goes(a, "work")
                 /\ \E actual \in Actuals \cup {NotMeasured}, granted \in BOOLEAN :
                       entry' = [entry EXCEPT ![a] =
                           [at |-> 0, day |-> 0, tokens |-> Committed(r, actual),
                            granted |-> granted]]
              \/ Goes(a, "idle") /\ entry' = entry
        <4>1. PICK r \in Requests :
                LET verdict == Verdict(r, Total(seen[a]), calls[a]) IN
                  \/ /\ Goes(a, "work")
                     /\ \E actual \in Actuals \cup {NotMeasured} :
                           entry' = [entry EXCEPT ![a] =
                               [at |-> 0, day |-> 0, tokens |-> Committed(r, actual),
                                granted |-> verdict = "approve"]]
                  \/ Goes(a, "idle") /\ entry' = entry
          BY <1>8, Zenon DEF Evaluate
        <4>2. (Verdict(r, Total(seen[a]), calls[a]) = "approve") \in BOOLEAN
          OBVIOUS
        <4> QED
          BY <4>1, <4>2, Zenon
      <3> QED
        BY <3>1, CommittedIsNat DEF Goes, Drafts
    <2>3. /\ seen' = [seen EXCEPT ![a] = {}]
          /\ UNCHANGED <<window, policy, ledger, marker, clock, today, purpose, stamp, calls,
                         markers, crashes, cuts, untraced, raced>>
      BY <1>8 DEF Evaluate, fixed, bounds
    <2> QED
      BY <2>1, <2>2, <2>3
  <1>9. ASSUME NEW a \in Agents, PolicyFails(a) PROVE TypeOK'
    BY <1>9 DEF PolicyFails, Goes, fixed, files, work, bounds
  <1>10. ASSUME NEW a \in Agents, Work(a) PROVE TypeOK'
    <2>1. entry' = [entry EXCEPT ![a] = [entry[a] EXCEPT !.at = clock + 1, !.day = today]]
      BY <1>10 DEF Work
    <2>2. [entry[a] EXCEPT !.at = clock + 1, !.day = today] \in Entries
      <3>1. entry[a] \in Drafts /\ clock + 1 \in Stamps /\ today \in Nat
        BY <1>10, BoundsAreNat DEF Work, Stamps
      <3> QED
        BY <3>1 DEF Drafts, Entries
    <2>3. Entries \subseteq Drafts
      BY DEF Entries, Drafts, Stamps
    <2> QED
      BY <1>10, <2>1, <2>2, <2>3 DEF Work, Goes, fixed, files, bounds
  <1>11. ASSUME NEW a \in Agents, AppendSpend(a) PROVE TypeOK'
    <2>1. /\ ledger' \subseteq Entries /\ torn' \subseteq {"spending", "audit"}
          /\ entry' \in [Agents -> Drafts \cup {NotMeasured}]
      BY <1>11 DEF AppendSpend
    <2>2. /\ entry' = [entry EXCEPT ![a] = NotMeasured] /\ Goes(a, "load")
          /\ UNCHANGED <<fixed, marker, clock, today, purpose, seen, stamp, work, bounds, raced>>
      BY <1>11 DEF AppendSpend
    <2> QED
      BY <2>1, <2>2 DEF Goes, fixed, work, bounds
  <1>12. ASSUME NEW a \in Agents, Crash(a) PROVE TypeOK'
    BY <1>12, BoundsAreNat DEF Crash, Forgets, Goes, fixed, files
  <1>13. ASSUME NEW a \in Agents, CutShort(a) PROVE TypeOK'
    <2>1. torn' \subseteq {"spending", "audit"}
      BY <1>13 DEF CutShort
    <2>2. /\ Goes(a, "idle") /\ Forgets(a)
          /\ crashes < MaxCrashes /\ crashes' = crashes + 1 /\ cuts' = cuts + 1
          /\ UNCHANGED <<fixed, ledger, marker, clock, today, calls, markers, untraced, raced>>
      BY <1>13 DEF CutShort
    <2> QED
      BY <2>1, <2>2, BoundsAreNat DEF Forgets, Goes, fixed
  <1>14. CASE NextDay
    BY <1>14, BoundsAreNat DEF NextDay, fixed, files, locals, bounds
  <1>15. CASE UNCHANGED vars
    BY <1>15 DEF vars, fixed, files, locals, bounds
  <1> QED
    BY <1>1, <1>2, <1>3, <1>4, <1>5, <1>6, <1>7, <1>8, <1>9, <1>10, <1>11, <1>12, <1>13, <1>14,
       <1>15 DEF Next, MakeMarker

(* The initial state has the types. *)
LEMMA TypeInit == Init => TypeOK
  <1> SUFFICES ASSUME Init PROVE TypeOK
    OBVIOUS
  <1>1. 0 \in 0..MaxMarkers /\ 0 \in 0..MaxCrashes /\ 0 \in 0..MaxDays /\ 0 \in 0..0
    BY BoundsAreNat
  <1>2. \A a \in Agents : pc[a] = "idle"
    BY DEF Init
  <1> QED
    BY <1>1, <1>2 DEF Init, TypeOK

(* Every variable always has its type: whatever the agents, their requests *)
(* and the limits, no command writes what another cannot read.             *)
THEOREM TypeCorrect == Spec => []TypeOK
  BY TypeInit, TypeStep, PTL DEF Spec

-----------------------------------------------------------------------------
(* Who has the marker in the making, has it alone until two overlap.       *)
LEMMA OneMakerStep == TypeOK /\ OneMaker /\ [Next]_vars => OneMaker'
  <1> SUFFICES ASSUME TypeOK, OneMaker, [Next]_vars, ~raced'
               PROVE  \A a \in Agents :
                        MakesMarker(a)' =>
                            /\ \A b \in Agents \ {a} : ~MakesMarker(b)'
                            /\ pc'[a] = "write" => marker' = Empty
                            /\ purpose'[a] # "reset" => marker' \notin Stamps
    BY DEF OneMaker
  <1> USE DEF OneMaker, MakesMarker
  <1>1. ~raced
    BY DEF Next, MakeMarker, Load, ReadMarker, NeedsMarker, ResetSession, BeginsMarker,
           StampMarker, TruncateMarker, WriteMarker, Evaluate, PolicyFails, Work, AppendSpend,
           Crash, CutShort, NextDay, vars
  <1>2. ASSUME NEW a \in Agents, BeginsMarker(a),
               marker' = marker, \A b \in Agents \ {a} : purpose'[b] = purpose[b],
               purpose'[a] # "reset" => marker \notin Stamps
        PROVE  \A b \in Agents :
                 MakesMarker(b)' =>
                     /\ \A c \in Agents \ {b} : ~MakesMarker(c)'
                     /\ pc'[b] = "write" => marker' = Empty
                     /\ purpose'[b] # "reset" => marker' \notin Stamps
    <2>1. pc' = [pc EXCEPT ![a] = "stamp"] /\ \A b \in Agents \ {a} : ~MakesMarker(b)
      BY <1>2 DEF BeginsMarker, Goes, Races
    <2> QED
      BY <2>1, <1>2 DEF TypeOK
  <1>3. ASSUME NEW a \in Agents, ~MakesMarker(a)', marker' = marker \/ pc[a] = "write",
               \A b \in Agents \ {a} : pc'[b] = pc[b] /\ purpose'[b] = purpose[b]
        PROVE  \A b \in Agents :
                 MakesMarker(b)' =>
                     /\ \A c \in Agents \ {b} : ~MakesMarker(c)'
                     /\ pc'[b] = "write" => marker' = Empty
                     /\ purpose'[b] # "reset" => marker' \notin Stamps
    BY <1>1, <1>3
  <1>4. ASSUME NEW a \in Agents, NeedsMarker(a) PROVE OneMaker'
    <2>1. marker \notin Stamps
      BY <1>4, LedgerAssumption DEF NeedsMarker, MarkerMissing, Stamps
    <2> QED
      BY <1>2, <1>4, <2>1 DEF NeedsMarker, files
  <1>5. ASSUME NEW a \in Agents, ResetSession(a) PROVE OneMaker'
    BY <1>2, <1>5 DEF ResetSession, files, TypeOK
  <1>6. ASSUME NEW a \in Agents, StampMarker(a) PROVE OneMaker'
    BY <1>1, <1>6 DEF StampMarker, Goes, files, TypeOK
  <1>7. ASSUME NEW a \in Agents, TruncateMarker(a) PROVE OneMaker'
    <2>1. Empty \notin Stamps
      BY LedgerAssumption DEF Stamps
    <2> QED
      BY <1>1, <1>7, <2>1 DEF TruncateMarker, Goes, TypeOK
  <1>8. ASSUME NEW a \in Agents, NEW since, Concludes(a, since), marker' = marker \/ pc[a] = "write"
        PROVE  OneMaker'
    <2>1. /\ pc'[a] \in {"policy", "idle", "stopped"}
          /\ \A b \in Agents \ {a} : pc'[b] = pc[b]
      BY <1>8, ConcludingTypes
    <2>2. \A b \in Agents \ {a} : purpose'[b] = purpose[b]
      BY <1>8 DEF Concludes, TypeOK
    <2> QED
      BY <1>3, <1>8, <2>1, <2>2
  <1>9. ASSUME NEW a \in Agents, Load(a) \/ Evaluate(a) \/ PolicyFails(a) \/ Work(a)
                                 \/ AppendSpend(a) \/ Crash(a) \/ CutShort(a)
        PROVE  OneMaker'
    <2>1. /\ marker' = marker
          /\ \E step \in {"window", "work", "idle", "append", "load"} : Goes(a, step)
      BY <1>9 DEF Load, Evaluate, PolicyFails, Work, AppendSpend, Crash, CutShort, files
    <2>2. \A b \in Agents \ {a} : purpose'[b] = purpose[b]
      BY <1>9 DEF Load, Evaluate, PolicyFails, Work, AppendSpend, Crash, CutShort, Forgets, TypeOK
    <2>3. ~MakesMarker(a)' /\ \A b \in Agents \ {a} : pc'[b] = pc[b]
      BY <2>1 DEF Goes, TypeOK
    <2> QED
      BY <1>3, <2>1, <2>2, <2>3
  <1>10. CASE NextDay \/ UNCHANGED vars
    BY <1>1, <1>10 DEF NextDay, vars, files, locals
  <1> QED
    BY <1>4, <1>5, <1>6, <1>7, <1>8, <1>9, <1>10 DEF Next, MakeMarker, ReadMarker, WriteMarker, files

(* While no two commands make the marker at one time, only a command that  *)
(* is resetting the session takes away a marker that was read.             *)
THEOREM SessionsEndByReset == Spec => SessionEndsByReset
  <1>1. Init => OneMaker
    BY DEF Init, OneMaker, MakesMarker
  <1>2. TypeOK /\ OneMaker /\ [Next]_vars =>
          (~raced /\ marker \in Stamps /\ marker' # marker =>
             \E a \in Agents : purpose[a] = "reset" /\ MakesMarker(a))
    <2> SUFFICES ASSUME TypeOK, OneMaker, [Next]_vars, ~raced, marker \in Stamps, marker' # marker
                 PROVE  \E a \in Agents : purpose[a] = "reset" /\ MakesMarker(a)
      OBVIOUS
    <2>1. PICK a \in Agents : TruncateMarker(a) \/ WriteMarker(a)
      BY DEF Next, MakeMarker, Load, ReadMarker, NeedsMarker, ResetSession, StampMarker, Evaluate,
             PolicyFails, Work, AppendSpend, Crash, CutShort, NextDay, vars, files
    <2>2. MakesMarker(a)
      BY <2>1 DEF TruncateMarker, WriteMarker, MakesMarker
    <2> QED
      BY <2>2 DEF OneMaker
  <1> QED
    BY <1>1, <1>2, TypeCorrect, OneMakerStep, PTL DEF Spec, SessionEndsByReset

-----------------------------------------------------------------------------
(* Who is about to call on a verdict nobody will find are finitely many;   *)
(* if at most one agent joins them, there is at most one more.             *)
LEMMA UnfoundGrows ==
    ASSUME NEW a \in Agents, Unfound' \subseteq Unfound \cup {a}
    PROVE  /\ Cardinality(Unfound) \in Nat /\ Cardinality(Unfound)' \in Nat
           /\ Cardinality(Unfound)' <= Cardinality(Unfound) + 1
           /\ Unfound' \subseteq Unfound => Cardinality(Unfound)' <= Cardinality(Unfound)
           /\ a \in Unfound /\ Unfound' \subseteq Unfound \ {a} =>
                Cardinality(Unfound)' + 1 <= Cardinality(Unfound)
  <1>1. IsFiniteSet(Unfound) /\ IsFiniteSet(Unfound')
    <2>1. IsFiniteSet(Agents) /\ Unfound \subseteq Agents /\ Unfound' \subseteq Agents
      BY LedgerAssumption DEF Unfound
    <2> QED
      BY <2>1, FS_Subset
  <1>2. /\ IsFiniteSet(Unfound \cup {a})
        /\ Cardinality(Unfound \cup {a}) <= Cardinality(Unfound) + 1
    <2>1. /\ IsFiniteSet(Unfound \cup {a})
          /\ \/ Cardinality(Unfound \cup {a}) = Cardinality(Unfound)
             \/ Cardinality(Unfound \cup {a}) = Cardinality(Unfound) + 1
      BY <1>1, FS_AddElement
    <2>2. Cardinality(Unfound) \in Nat
      BY <1>1, FS_CardinalityType
    <2> QED
      BY <2>1, <2>2
  <1>3. /\ Cardinality(Unfound) \in Nat /\ Cardinality(Unfound') \in Nat
    BY <1>1, FS_CardinalityType
  <1>4. Cardinality(Unfound') <= Cardinality(Unfound \cup {a})
    BY <1>2, FS_Subset
  <1>5. Unfound' \subseteq Unfound => Cardinality(Unfound') <= Cardinality(Unfound)
    BY <1>1, FS_Subset
  <1>6. a \in Unfound /\ Unfound' \subseteq Unfound \ {a} =>
          Cardinality(Unfound') + 1 <= Cardinality(Unfound)
    <2> SUFFICES ASSUME a \in Unfound, Unfound' \subseteq Unfound \ {a}
                 PROVE  Cardinality(Unfound') + 1 <= Cardinality(Unfound)
      OBVIOUS
    <2>1. IsFiniteSet(Unfound \ {a}) /\ Cardinality(Unfound \ {a}) = Cardinality(Unfound) - 1
      BY <1>1, FS_RemoveElement
    <2>2. Cardinality(Unfound') <= Cardinality(Unfound \ {a})
      BY <2>1, FS_Subset
    <2> QED
      BY <2>1, <2>2, <1>3
  <1>7. Cardinality(Unfound \cup {a}) \in Nat
    BY <1>2, FS_CardinalityType
  <1> QED
    BY <1>2, <1>3, <1>4, <1>5, <1>6, <1>7

(* What a load does not find was hidden by a line cut short, one each.     *)
LEMMA HiddenStep == TypeOK /\ HiddenWereCut /\ [Next]_vars => HiddenWereCut'
  <1> SUFFICES ASSUME TypeOK, HiddenWereCut, [Next]_vars PROVE HiddenWereCut'
    OBVIOUS
  <1>0. /\ cuts \in Int /\ untraced \in Int
        /\ untraced + Cardinality(Unfound) + (IF "audit" \in torn THEN 1 ELSE 0) <= cuts
    BY BoundsAreNat DEF TypeOK, HiddenWereCut
  <1>1. ASSUME NEW a \in Agents, Unfound' \subseteq Unfound,
               "audit" \in torn' => "audit" \in torn, untraced' = untraced, cuts' = cuts
        PROVE  HiddenWereCut'
    BY <1>0, <1>1, UnfoundGrows DEF HiddenWereCut
  <1>2. ASSUME NEW a \in Agents, Evaluate(a) PROVE HiddenWereCut'
    <2>1. /\ untraced' = untraced /\ cuts' = cuts /\ pc[a] = "policy"
          /\ "audit" \notin torn'
          /\ \/ Goes(a, "work") /\ traced' = [traced EXCEPT ![a] = "audit" \notin torn]
             \/ Goes(a, "idle") /\ traced' = traced
      BY <1>2 DEF Evaluate, Audits, bounds
    <2>2. /\ "audit" \in torn => Unfound' \subseteq Unfound \cup {a}
          /\ "audit" \notin torn => Unfound' \subseteq Unfound
      BY <2>1 DEF Unfound, Goes, TypeOK
    <2>3. CASE "audit" \in torn
      BY <1>0, <2>1, <2>2, <2>3, UnfoundGrows DEF HiddenWereCut
    <2>4. CASE "audit" \notin torn
      BY <1>1, <2>1, <2>2, <2>4
    <2> QED
      BY <2>3, <2>4
  <1>3. ASSUME NEW a \in Agents, Work(a) PROVE HiddenWereCut'
    <2>1. /\ pc[a] = "work" /\ torn' = torn /\ cuts' = cuts
          /\ untraced' = IF traced[a] THEN untraced ELSE untraced + 1
      BY <1>3 DEF Work, files, bounds
    <2>2. Unfound' \subseteq Unfound \ {a}
      BY <1>3 DEF Work, Unfound, Goes, TypeOK
    <2>3. ~traced[a] => a \in Unfound
      BY <2>1 DEF Unfound
    <2>4. traced[a] \in BOOLEAN
      BY DEF TypeOK
    <2>5. CASE traced[a]
      BY <1>1, <2>1, <2>2, <2>5
    <2>6. CASE ~traced[a]
      BY <1>0, <2>1, <2>2, <2>3, <2>6, UnfoundGrows DEF HiddenWereCut
    <2> QED
      BY <2>4, <2>5, <2>6
  <1>4. ASSUME NEW a \in Agents, CutShort(a) PROVE HiddenWereCut'
    <2>1. untraced' = untraced /\ cuts' = cuts + 1
      BY <1>4 DEF CutShort
    <2>2. Unfound' \subseteq Unfound
      BY <1>4 DEF CutShort, Forgets, Unfound, Goes, TypeOK
    <2> QED
      BY <1>0, <2>1, <2>2, UnfoundGrows DEF HiddenWereCut
  <1>5. ASSUME NEW a \in Agents,
               \/ Load(a) \/ ReadMarker(a) \/ NeedsMarker(a) \/ ResetSession(a)
               \/ MakeMarker(a) \/ PolicyFails(a) \/ AppendSpend(a) \/ Crash(a)
        PROVE  HiddenWereCut'
    <2>1. /\ untraced' = untraced /\ cuts' = cuts /\ torn' \subseteq torn
          /\ traced' = traced \/ Crash(a)
      BY <1>5 DEF Load, ReadMarker, NeedsMarker, ResetSession, BeginsMarker, MakeMarker, StampMarker,
             TruncateMarker, WriteMarker, PolicyFails, AppendSpend, Crash, files, work, bounds
    <2>2. /\ pc' \in [Agents -> {"idle", "load", "window", "stamp", "truncate", "write",
                                 "policy", "work", "append", "stopped"}]
          /\ pc'[a] # "work" /\ \A b \in Agents \ {a} : pc'[b] = pc[b]
      BY <1>5, ConcludingTypes DEF TypeOK, Load, ReadMarker, NeedsMarker, ResetSession, BeginsMarker,
         MakeMarker, StampMarker, TruncateMarker, WriteMarker, PolicyFails, AppendSpend, Crash, Goes
    <2>3. Unfound' \subseteq Unfound
      BY <2>1, <2>2 DEF Unfound, Crash, Forgets, TypeOK
    <2> QED
      BY <1>1, <2>1, <2>3
  <1>6. CASE NextDay \/ UNCHANGED vars
    <2>1. UNCHANGED <<pc, traced, torn, untraced, cuts>>
      BY <1>6 DEF NextDay, vars, files, locals, bounds
    <2> QED
      BY <2>1, <1>0 DEF HiddenWereCut, Unfound
  <1> QED
    BY <1>2, <1>3, <1>4, <1>5, <1>6 DEF Next

(* Whatever dies and whoever appends next, no more calls lack their        *)
(* verdict in the audit log than appends were cut short.                   *)
THEOREM CallsAlwaysAudited == Spec => []CallsAreAudited
  <1>1. Init => HiddenWereCut
    <2> SUFFICES ASSUME Init PROVE HiddenWereCut
      OBVIOUS
    <2>1. Unfound = {} /\ torn = {}
      BY DEF Init, Unfound
    <2> QED
      BY <2>1, FS_EmptySet DEF Init, HiddenWereCut
  <1>2. TypeOK /\ HiddenWereCut => CallsAreAudited
    <2>1. Cardinality(Unfound) \in Nat
      <3>1. IsFiniteSet(Unfound)
        BY LedgerAssumption, FS_Subset DEF Unfound
      <3> QED
        BY <3>1, FS_CardinalityType
    <2> QED
      BY <2>1, BoundsAreNat DEF HiddenWereCut, CallsAreAudited, TypeOK
  <1> QED
    BY <1>1, <1>2, TypeCorrect, HiddenStep, PTL DEF Spec

-----------------------------------------------------------------------------
(* A sum over a finite set, taken one element after another in the order   *)
(* CHOOSE gives: the recursion that MapThenSumSet stands for.              *)
Picked(s) == CHOOSE e \in s : TRUE

Adds(sum, U, w) ==
    sum = [s \in SUBSET U |-> IF s = {} THEN 0 ELSE w[Picked(s)] + sum[s \ {Picked(s)}]]

AddsUp(sum, U, w) ==
    /\ sum \in [SUBSET U -> Nat] /\ Adds(sum, U, w)
    /\ \A s \in SUBSET U : \A x \in s : sum[s] = w[x] + sum[s \ {x}]

(* What holds of 0, and of each number after one it holds of, holds of all.*)
LEMMA CountingUp ==
    ASSUME NEW S, 0 \in S, \A n \in Nat : n \in S => n + 1 \in S
    PROVE  \A n \in Nat : n \in S
  <1> DEFINE Others == Nat \ S
             Less == {pair \in Nat \X Nat : pair[1] < pair[2]}
  <1> SUFFICES ASSUME Others # {} PROVE FALSE
    OBVIOUS
  <1>1. IsWellFoundedOn(Less, Nat)
    BY NatLessThanWellFounded DEF OpToRel
  <1>2. PICK n \in Others : \A m \in Others : <<m, n>> \notin Less
    <2> HIDE DEF Less
    <2> QED
      BY <1>1, WFMin
  <1>3. n # 0 /\ n - 1 \in Nat
    OBVIOUS
  <1>4. <<n - 1, n>> \in Less
    BY <1>3
  <1>5. n - 1 \in S
    BY <1>2, <1>3, <1>4
  <1> QED
    BY <1>3, <1>5

(* Among the subsets of a finite set that are in a collection, there is    *)
(* one of which no smaller one is.                                         *)
LEMMA Smallest ==
    ASSUME NEW U, IsFiniteSet(U), NEW C, C \subseteq SUBSET U, C # {}
    PROVE  \E T \in C : \A x \in T : T \ {x} \notin C
  <1>1. IsWellFoundedOn(StrictSubsetOrdering(U), SUBSET U)
    BY FS_StrictSubsetOrderingWellFounded, FS_FiniteSubsetsOfFinite
  <1>2. PICK T \in C : \A V \in C : <<V, T>> \notin StrictSubsetOrdering(U)
    BY <1>1, WFMin
  <1>3. \A x \in T : T \ {x} \in SUBSET U => <<T \ {x}, T>> \in StrictSubsetOrdering(U)
    BY DEF StrictSubsetOrdering
  <1> QED
    BY <1>2, <1>3

(* Such a sum exists, and every sum of parts is a number. *)
LEMMA SumExists ==
    ASSUME NEW U, IsFiniteSet(U), NEW w, \A x \in U : w[x] \in Nat
    PROVE  \E sum \in [SUBSET U -> Nat] : Adds(sum, U, w)
  <1> DEFINE Right(sum, s) ==
               sum[s] = IF s = {} THEN 0 ELSE w[Picked(s)] + sum[s \ {Picked(s)}]
             Upto == {n \in Nat : \E sum \in [SUBSET U -> Nat] :
                         \A s \in SUBSET U : Cardinality(s) <= n => Right(sum, s)}
  <1>1. \A s \in SUBSET U :
           /\ IsFiniteSet(s) /\ Cardinality(s) \in Nat /\ Cardinality(s) <= Cardinality(U)
           /\ s = {} => Cardinality(s) = 0
           /\ s # {} => /\ Picked(s) \in s
                        /\ s \ {Picked(s)} \in SUBSET U
                        /\ Cardinality(s \ {Picked(s)}) = Cardinality(s) - 1
    <2> SUFFICES ASSUME NEW s \in SUBSET U
                 PROVE  /\ IsFiniteSet(s) /\ Cardinality(s) \in Nat
                        /\ Cardinality(s) <= Cardinality(U)
                        /\ s = {} => Cardinality(s) = 0
                        /\ s # {} => /\ Picked(s) \in s
                                     /\ s \ {Picked(s)} \in SUBSET U
                                     /\ Cardinality(s \ {Picked(s)}) = Cardinality(s) - 1
      OBVIOUS
    <2>1. IsFiniteSet(s) /\ Cardinality(s) <= Cardinality(U)
      BY FS_Subset
    <2>2. s # {} => Picked(s) \in s
      BY DEF Picked
    <2> QED
      BY <2>1, <2>2, FS_CardinalityType, FS_EmptySet, FS_RemoveElement
  <1>2. 0 \in Upto
    <2>1. \A s \in SUBSET U : Cardinality(s) <= 0 => s = {}
      <3> SUFFICES ASSUME NEW s \in SUBSET U, Cardinality(s) <= 0 PROVE s = {}
        OBVIOUS
      <3>1. IsFiniteSet(s) /\ Cardinality(s) \in Nat
        BY <1>1, Zenon
      <3>2. Cardinality(s) = 0
        BY <3>1
      <3> QED
        BY <3>1, <3>2, FS_EmptySet
    <2> DEFINE none == [s \in SUBSET U |-> 0]
    <2>2. none \in [SUBSET U -> Nat] /\ \A s \in SUBSET U : none[s] = 0
      OBVIOUS
    <2>3. \A s \in SUBSET U : Cardinality(s) <= 0 => Right(none, s)
      BY <2>1, <2>2
    <2> HIDE DEF none, Right
    <2> QED
      BY <2>2, <2>3
  <1>3. ASSUME NEW n \in Nat, n \in Upto PROVE n + 1 \in Upto
    <2>1. PICK sum \in [SUBSET U -> Nat] :
             \A s \in SUBSET U : Cardinality(s) <= n => Right(sum, s)
      BY <1>3
    <2> DEFINE next == [s \in SUBSET U |->
                          IF s = {} THEN 0 ELSE w[Picked(s)] + sum[s \ {Picked(s)}]]
    <2>2. next \in [SUBSET U -> Nat]
      <3> SUFFICES ASSUME NEW s \in SUBSET U, s # {}
                   PROVE  w[Picked(s)] + sum[s \ {Picked(s)}] \in Nat
        OBVIOUS
      <3>1. w[Picked(s)] \in Nat /\ sum[s \ {Picked(s)}] \in Nat
        BY <1>1
      <3> QED
        BY <3>1
    <2>3. \A s \in SUBSET U : Cardinality(s) <= n => next[s] = sum[s]
      BY <2>1
    <2>4. ASSUME NEW s \in SUBSET U, Cardinality(s) <= n + 1 PROVE Right(next, s)
      <3>1. CASE s = {}
        BY <3>1
      <3>2. CASE s # {}
        <4>1. /\ s \ {Picked(s)} \in SUBSET U
              /\ Cardinality(s \ {Picked(s)}) <= n
          BY <1>1, <2>4, <3>2
        <4>2. next[s \ {Picked(s)}] = sum[s \ {Picked(s)}]
          BY <4>1, <2>3
        <4>3. next[s] = w[Picked(s)] + sum[s \ {Picked(s)}]
          BY <3>2
        <4> HIDE DEF next
        <4> QED
          BY <3>2, <4>2, <4>3
      <3> QED
        BY <3>1, <3>2
    <2> HIDE DEF next, Right
    <2> QED
      BY <2>2, <2>4
  <1>4. Cardinality(U) \in Nat
    BY FS_CardinalityType
  <1>5. Cardinality(U) \in Upto
    <2> HIDE DEF Upto
    <2> QED
      BY <1>2, <1>3, <1>4, CountingUp
  <1>6. PICK sum \in [SUBSET U -> Nat] :
           \A s \in SUBSET U : Cardinality(s) <= Cardinality(U) => Right(sum, s)
    BY <1>5
  <1>7. \A s \in SUBSET U :
           sum[s] = IF s = {} THEN 0 ELSE w[Picked(s)] + sum[s \ {Picked(s)}]
    BY <1>1, <1>6
  <1> QED
    BY <1>7 DEF Adds

(* Sums over two sets agree on what is in both. *)
LEMMA SumsAgree ==
    ASSUME NEW U, NEW V, NEW w, IsFiniteSet(U), NEW f, NEW g, Adds(f, U, w), Adds(g, V, w),
           NEW s, s \in SUBSET U, s \in SUBSET V
    PROVE  f[s] = g[s]
  <1> DEFINE Differ == {t \in SUBSET U : t \subseteq V /\ f[t] # g[t]}
  <1> SUFFICES ASSUME Differ # {} PROVE FALSE
    OBVIOUS
  <1>1. PICK t \in Differ : \A x \in t : t \ {x} \notin Differ
    <2> HIDE DEF Differ
    <2>1. Differ \subseteq SUBSET U
      BY DEF Differ
    <2> QED
      BY <2>1, Smallest
  <1>2. /\ f[t] = IF t = {} THEN 0 ELSE w[Picked(t)] + f[t \ {Picked(t)}]
        /\ g[t] = IF t = {} THEN 0 ELSE w[Picked(t)] + g[t \ {Picked(t)}]
    BY DEF Adds
  <1>3. t # {} /\ Picked(t) \in t
    BY <1>2 DEF Picked
  <1>4. f[t \ {Picked(t)}] = g[t \ {Picked(t)}]
    BY <1>1, <1>3
  <1> QED
    BY <1>2, <1>3, <1>4

(* There is such a sum, and the order in which it is taken does not matter.*)
LEMMA InAnyOrder ==
    ASSUME NEW U, IsFiniteSet(U), NEW w, \A x \in U : w[x] \in Nat
    PROVE  \E sum : AddsUp(sum, U, w)
  <1>0. PICK sum \in [SUBSET U -> Nat] : Adds(sum, U, w)
    BY SumExists
  <1> DEFINE Wrong == {t \in SUBSET U : \E y \in t : sum[t] # w[y] + sum[t \ {y}]}
  <1> SUFFICES ASSUME Wrong # {} PROVE FALSE
    <2> SUFFICES ASSUME Wrong = {} PROVE AddsUp(sum, U, w)
      OBVIOUS
    <2> QED
      BY <1>0 DEF AddsUp
  <1>1. PICK t \in Wrong : \A y \in t : t \ {y} \notin Wrong
    <2> HIDE DEF Wrong
    <2>1. Wrong \subseteq SUBSET U
      BY DEF Wrong
    <2> QED
      BY <2>1, Smallest
  <1>2. PICK y \in t : sum[t] # w[y] + sum[t \ {y}]
    OBVIOUS
  <1> DEFINE z == Picked(t)
  <1>3. z \in t
    BY <1>2 DEF Picked
  <1>4. sum[t] = w[z] + sum[t \ {z}]
    BY <1>0, <1>2 DEF Adds
  <1>5. z # y
    BY <1>2, <1>4
  <1> HIDE DEF z
  <1>6. sum[t \ {z}] = w[y] + sum[(t \ {z}) \ {y}]
    BY <1>1, <1>2, <1>3, <1>5
  <1>7. sum[t \ {y}] = w[z] + sum[(t \ {y}) \ {z}]
    BY <1>1, <1>2, <1>3, <1>5
  <1>8. (t \ {z}) \ {y} = (t \ {y}) \ {z} /\ (t \ {z}) \ {y} \in SUBSET U
    OBVIOUS
  <1>9. w[y] \in Nat /\ w[z] \in Nat /\ sum[(t \ {z}) \ {y}] \in Nat
    BY <1>2, <1>3, <1>8
  <1>10. sum[t] = w[y] + sum[t \ {y}]
    <2> HIDE DEF Wrong
    <2> DEFINE rest == sum[(t \ {z}) \ {y}]
    <2>1. sum[t] = w[z] + (w[y] + rest) /\ sum[t \ {y}] = w[z] + rest /\ rest \in Nat
      BY <1>4, <1>6, <1>7, <1>8, <1>9
    <2> HIDE DEF rest
    <2> QED
      BY <2>1, <1>9
  <1> QED
    BY <1>2, <1>10

-----------------------------------------------------------------------------
Tokens == [e \in Drafts |-> e.tokens]

(* The total of some entries is the sum of their tokens. *)
LEMMA TotalIsSum ==
    ASSUME NEW U, IsFiniteSet(U), U \subseteq Drafts,
           NEW sum \in [SUBSET U -> Nat], Adds(sum, U, Tokens),
           NEW S \in SUBSET U
    PROVE  Total(S) = sum[S]
  <1> DEFINE Sums(f) == f = [s \in SUBSET S |->
                  IF s = {} THEN 0
                  ELSE (CHOOSE e \in s : TRUE).tokens + f[s \ {CHOOSE e \in s : TRUE}]]
             iter == CHOOSE f : Sums(f)
  <1>1. Total(S) = iter[S]
    BY DEF Total, MapThenSumSet, MapThenFoldSet
  <1>2. IsFiniteSet(S) /\ \A x \in S : Tokens[x] \in Nat /\ Tokens[x] = x.tokens
    BY FS_Subset DEF Tokens, Drafts
  <1>3. PICK f : Adds(f, S, Tokens)
    BY <1>2, SumExists
  <1>4. \A s \in SUBSET S : s # {} => Tokens[Picked(s)] = (CHOOSE e \in s : TRUE).tokens
    BY <1>2 DEF Picked
  <1>5. Sums(f)
    BY <1>3, <1>4 DEF Adds, Picked
  <1>6. Sums(iter)
    <2> HIDE DEF Sums
    <2> QED
      BY <1>5
  <1>7. Adds(iter, S, Tokens)
    <2> HIDE DEF iter
    <2> QED
      BY <1>4, <1>6 DEF Adds, Picked
  <1> HIDE DEF iter
  <1>8. iter[S] = sum[S]
    BY <1>2, <1>7, SumsAgree
  <1> QED
    BY <1>1, <1>8

(* So the totals of the parts of a set of entries add up.                  *)
LEMMA TotalsAddUp ==
    ASSUME NEW U, IsFiniteSet(U), U \subseteq Drafts
    PROVE  /\ Total({}) = 0
           /\ \A S \in SUBSET U : /\ Total(S) \in Nat
                                  /\ \A e \in S : Total(S) = e.tokens + Total(S \ {e})
  <1>1. \A e \in U : Tokens[e] \in Nat /\ Tokens[e] = e.tokens
    BY DEF Tokens, Drafts
  <1>2. \A e \in U : Tokens[e] \in Nat
    BY <1>1
  <1>3. PICK sum : AddsUp(sum, U, Tokens)
    BY <1>2, InAnyOrder
  <1>4. \A S \in SUBSET U : Total(S) = sum[S]
    BY <1>3, TotalIsSum DEF AddsUp
  <1>5. sum[{}] = 0
    BY <1>3 DEF Adds, AddsUp
  <1> QED
    BY <1>1, <1>3, <1>4, <1>5 DEF AddsUp

(* What summing entries comes to: nothing for none of them, more by its    *)
(* tokens for one more, and no less for more of them.                      *)
LEMMA Totals ==
    ASSUME NEW S, IsFiniteSet(S), S \subseteq Drafts
    PROVE  /\ Total(S) \in Nat
           /\ Total({}) = 0
           /\ \A e \in Drafts \ S : Total(S \cup {e}) = Total(S) + e.tokens
  <1>1. Total(S) \in Nat /\ Total({}) = 0
    BY TotalsAddUp
  <1>2. ASSUME NEW e \in Drafts \ S PROVE Total(S \cup {e}) = Total(S) + e.tokens
    <2>1. IsFiniteSet(S \cup {e}) /\ S \cup {e} \subseteq Drafts
      BY FS_AddElement
    <2>2. Total(S \cup {e}) = e.tokens + Total((S \cup {e}) \ {e})
      BY <2>1, TotalsAddUp
    <2>3. (S \cup {e}) \ {e} = S /\ e.tokens \in Nat
      BY DEF Drafts
    <2>4. Total((S \cup {e}) \ {e}) = Total(S)
      BY <2>3
    <2> QED
      BY <1>1, <2>2, <2>3, <2>4
  <1> QED
    BY <1>1, <1>2

LEMMA TotalGrows ==
    ASSUME NEW S, IsFiniteSet(S), S \subseteq Drafts, NEW R \in SUBSET S
    PROVE  Total(R) <= Total(S)
  <1> DEFINE Above == {T \in SUBSET S : R \subseteq T /\ Total(T) < Total(R)}
  <1>1. \A T \in SUBSET S : IsFiniteSet(T) /\ T \subseteq Drafts /\ Total(T) \in Nat
    BY FS_Subset, Totals
  <1> SUFFICES ASSUME Above # {} PROVE FALSE
    BY <1>1
  <1>2. PICK T \in Above : \A x \in T : T \ {x} \notin Above
    <2> HIDE DEF Above
    <2>1. Above \subseteq SUBSET S
      BY DEF Above
    <2> QED
      BY <2>1, Smallest
  <1>3. PICK x \in T : x \notin R
    BY <1>1
  <1>4. Total(T) = Total(T \ {x}) + x.tokens /\ x.tokens \in Nat
    <2>1. (T \ {x}) \cup {x} = T /\ T \ {x} \in SUBSET S /\ x \in Drafts \ (T \ {x})
      BY <1>3
    <2> QED
      BY <1>1, <2>1, Totals DEF Drafts
  <1>5. Total(T \ {x}) >= Total(R)
    BY <1>1, <1>2, <1>3
  <1> QED
    BY <1>1, <1>4, <1>5

-----------------------------------------------------------------------------
(* What was spent without a human's leave. *)
Spent(entries) == Total({e \in entries : ~e.granted})

(* An agent has a claim on a window when it may still add to it on a total *)
(* below the limit: it has yet to append, to make its call or to ask, and  *)
(* saw the room there was.  Nothing new is claimed of a day that is over.  *)
Claims(a, W, open) ==
    \/ pc[a] = "append" /\ ~entry[a].granted /\ entry[a] \in W
    \/ open /\ pc[a] = "work" /\ ~entry[a].granted
    \/ /\ open /\ Spent(seen[a] \cap W) < Limit
       /\ \/ pc[a] = "policy"
          \/ pc[a] \in {"window", "stamp", "truncate", "write"} /\ purpose[a] # "reset"

Claimed(W, open) == {a \in Agents : Claims(a, W, open)}

(* Each claim costs no more than the dearest call, and who claims was one  *)
(* of the agents: when all claims are spent, the bound of SpendIsBounded.  *)
Within(W, open) ==
    Spent(ledger \cap W) + Cardinality(Claimed(W, open)) * Max(Costs)
        < Limit + Cardinality(Agents) * Max(Costs)

DayOf(d) == {e \in Drafts : e.day = d}
Since(s) == {e \in Drafts : e.at >= s}

(* The sessions that have begun: the marker's, and the one whose time was  *)
(* read and is not in the marker yet.                                      *)
Begun ==
    {s \in Stamps :
        s = marker \/ \E a \in Agents : pc[a] \in {"truncate", "write"} /\ s = stamp[a]}

(* Nothing is later than now, and what is read of the ledger is finite. *)
NothingIsLater ==
    /\ IsFiniteSet(ledger) /\ \A a \in Agents : IsFiniteSet(seen[a])
    /\ \A e \in ledger : e.at <= clock /\ e.day <= today
    /\ \A a \in Agents : pc[a] = "append" => entry[a].at <= clock /\ entry[a].day <= today
    /\ \A a \in Agents : pc[a] \in {"work", "append"} => entry[a].tokens \in Costs
    /\ marker \in Stamps =>
         /\ marker <= clock
         /\ ~raced => \A a \in Agents : pc[a] \in {"truncate", "write"} => marker <= stamp[a]

ClaimsAreCovered ==
    policy = "present" =>
        /\ window = "daily" => \A d \in 0..today : Within(DayOf(d), d = today)
        /\ window = "session" /\ ~raced => \A s \in Begun : Within(Since(s), TRUE)

-----------------------------------------------------------------------------
LEMMA CostsAreNat == Costs \subseteq Nat /\ IsFiniteSet(Costs) /\ Costs # {}
  BY LedgerAssumption DEF Costs

(* One cost is the dearest. *)
LEMMA Dearest == Max(Costs) \in Nat /\ \A c \in Costs : c <= Max(Costs)
  <1> DEFINE IsTop(m, S) == m \in S /\ \A c \in S : m >= c
             Topless == {S \in SUBSET Costs : S # {} /\ ~\E m : IsTop(m, S)}
  <1>1. \E m : IsTop(m, Costs)
    <2> SUFFICES ASSUME Topless # {} PROVE FALSE
      BY CostsAreNat
    <2>1. PICK S \in Topless : \A x \in S : S \ {x} \notin Topless
      <3> HIDE DEF Topless
      <3>1. Topless \subseteq SUBSET Costs
        BY DEF Topless
      <3> QED
        BY <3>1, Smallest, CostsAreNat
    <2>2. PICK x : x \in S
      BY <2>1
    <2>3. S \subseteq Nat
      BY <2>1, CostsAreNat
    <2>4. CASE S = {x}
      BY <2>1, <2>3, <2>4
    <2>5. CASE S # {x}
      <3>1. PICK m : IsTop(m, S \ {x})
        BY <2>1, <2>2, <2>5
      <3>2. IsTop(IF m >= x THEN m ELSE x, S)
        BY <2>2, <2>3, <3>1
      <3> QED
        BY <2>1, <3>2
    <2> QED
      BY <2>4, <2>5
  <1>2. Max(Costs) \in Costs /\ \A c \in Costs : Max(Costs) >= c
    BY <1>1 DEF Max
  <1> QED
    BY <1>2, CostsAreNat

(* The spending of entries, like their total. *)
LEMMA Spending ==
    ASSUME NEW S, IsFiniteSet(S), S \subseteq Drafts
    PROVE  /\ Spent(S) \in Nat /\ Spent({}) = 0
           /\ Spent(S) <= Total(S)
           /\ \A R \in SUBSET S : Spent(R) \in Nat /\ Spent(R) <= Spent(S)
           /\ \A e \in Drafts : Spent(S \cup {e}) <= Spent(S) + (IF e.granted THEN 0 ELSE e.tokens)
  <1> DEFINE Own(R) == {e \in R : ~e.granted}
  <1>1. IsFiniteSet(Own(S)) /\ Own(S) \subseteq Drafts /\ Own(S) \subseteq S
    BY FS_Subset
  <1>2. Spent(S) \in Nat /\ Spent({}) = 0
    <2>1. Own({}) = {}
      OBVIOUS
    <2> QED
      BY <1>1, <2>1, Totals DEF Spent
  <1>3. Spent(S) <= Total(S)
    BY <1>1, TotalGrows DEF Spent
  <1>4. ASSUME NEW R \in SUBSET S PROVE Spent(R) \in Nat /\ Spent(R) <= Spent(S)
    <2>1. Own(R) \subseteq Own(S) /\ IsFiniteSet(Own(R)) /\ Own(R) \subseteq Drafts
      BY <1>1, FS_Subset
    <2> QED
      BY <1>1, <2>1, TotalGrows, Totals DEF Spent
  <1>5. ASSUME NEW e \in Drafts
        PROVE  Spent(S \cup {e}) <= Spent(S) + (IF e.granted THEN 0 ELSE e.tokens)
    <2>1. e.tokens \in Nat /\ e.granted \in BOOLEAN
      BY DEF Drafts
    <2>2. CASE e.granted \/ e \in S
      <3>1. Own(S \cup {e}) = Own(S)
        BY <2>2
      <3>2. Spent(S \cup {e}) = Spent(S)
        BY <3>1 DEF Spent
      <3>3. Spent(S) <= Spent(S) + (IF e.granted THEN 0 ELSE e.tokens)
        BY <1>2, <2>1
      <3> QED
        BY <3>2, <3>3
    <2>3. CASE ~e.granted /\ e \notin S
      <3>1. Own(S \cup {e}) = Own(S) \cup {e} /\ e \in Drafts \ Own(S)
        BY <2>3
      <3>2. Total(Own(S) \cup {e}) = Total(Own(S)) + e.tokens
        BY <1>1, <3>1, Totals
      <3>3. Spent(S \cup {e}) = Spent(S) + e.tokens
        BY <3>1, <3>2 DEF Spent
      <3> QED
        BY <1>2, <2>1, <2>3, <3>3
    <2> QED
      BY <2>1, <2>2, <2>3
  <1> QED
    BY <1>2, <1>3, <1>4, <1>5

(* Agents, some of whom have a claim, can be counted, and fewer of them    *)
(* claim less.                                                             *)
LEMMA FewerClaims ==
    ASSUME NEW C \in SUBSET Agents, NEW B \in SUBSET C
    PROVE  /\ Cardinality(C) * Max(Costs) \in Nat
           /\ Cardinality(B) * Max(Costs) \in Nat
           /\ Cardinality(B) * Max(Costs) <= Cardinality(C) * Max(Costs)
           /\ \A a \in C \ B :
                Cardinality(B) * Max(Costs) + Max(Costs) <= Cardinality(C) * Max(Costs)
  <1>1. IsFiniteSet(C)
    BY LedgerAssumption, FS_Subset
  <1>2. Cardinality(C) \in Nat /\ Cardinality(B) \in Nat /\ Cardinality(B) <= Cardinality(C)
    BY <1>1, FS_Subset, FS_CardinalityType
  <1>3. ASSUME NEW a \in C \ B PROVE Cardinality(B) + 1 <= Cardinality(C)
    <2>1. IsFiniteSet(C \ {a}) /\ Cardinality(C \ {a}) = Cardinality(C) - 1
      BY <1>1, FS_RemoveElement
    <2>2. B \subseteq C \ {a}
      OBVIOUS
    <2>3. Cardinality(B) <= Cardinality(C \ {a})
      BY <2>1, <2>2, FS_Subset
    <2> QED
      BY <1>2, <2>1, <2>3
  <1>4. \A m, n, k \in Nat : /\ m * k \in Nat
                             /\ m <= n => m * k <= n * k
                             /\ m + 1 <= n => m * k + k <= n * k
    OBVIOUS
  <1> QED
    BY <1>2, <1>3, <1>4, Dearest

-----------------------------------------------------------------------------
(* What is in a window of the ledger can be summed. *)
LEMMA WindowIsFinite ==
    ASSUME TypeOK, NothingIsLater, NEW W \in SUBSET Drafts
    PROVE  /\ IsFiniteSet(ledger \cap W) /\ ledger \cap W \subseteq Drafts
           /\ Spent(ledger \cap W) \in Nat
           /\ Limit \in Nat
           /\ \A a \in Agents : /\ IsFiniteSet(seen[a]) /\ seen[a] \subseteq Drafts
                                /\ IsFiniteSet(seen[a] \cap W)
  <1>1. ledger \cap W \subseteq Drafts /\ IsFiniteSet(ledger)
    BY DEF NothingIsLater
  <1>2. IsFiniteSet(ledger \cap W)
    BY <1>1, FS_Subset
  <1>3. Spent(ledger \cap W) \in Nat
    BY <1>1, <1>2, Spending
  <1>4. ASSUME NEW a \in Agents
        PROVE  /\ IsFiniteSet(seen[a]) /\ seen[a] \subseteq Drafts
               /\ IsFiniteSet(seen[a] \cap W)
    <2>1. IsFiniteSet(seen[a]) /\ seen[a] \subseteq Entries
      BY DEF NothingIsLater, TypeOK
    <2>2. IsFiniteSet(seen[a] \cap W)
      BY <2>1, FS_Subset
    <2> QED
      BY <2>1, <2>2 DEF Entries, Drafts, Stamps
  <1> QED
    BY <1>1, <1>2, <1>3, <1>4, LedgerAssumption

(* While the ledger stays and nobody claims anew, a window stays bounded.  *)
LEMMA NobodyClaims ==
    ASSUME TypeOK, NothingIsLater, NEW W \in SUBSET Drafts, NEW open, NEW now,
           Within(W, open), ledger' = ledger, Claimed(W, now)' \subseteq Claimed(W, open)
    PROVE  Within(W, now)'
  <1> DEFINE was == Cardinality(Claimed(W, open)) * Max(Costs)
             is == Cardinality(Claimed(W, now)') * Max(Costs)
             most == Cardinality(Agents) * Max(Costs)
             spent == Spent(ledger \cap W)
  <1>1. Claimed(W, open) \in SUBSET Agents
    BY DEF Claimed
  <1>2. was \in Nat /\ is \in Nat /\ is <= was
    BY <1>1, FewerClaims
  <1>3. most \in Nat
    BY FewerClaims
  <1>4. spent \in Nat /\ Limit \in Nat
    BY WindowIsFinite
  <1>5. spent + was < Limit + most
    BY DEF Within
  <1>6. spent' = spent
    OBVIOUS
  <1>7. spent + is < Limit + most
    <2> HIDE DEF was, is, most, spent
    <2> QED
      BY <1>2, <1>3, <1>4, <1>5
  <1> QED
    BY <1>6, <1>7 DEF Within

(* Nor does a window that is below the limit go over the bound when        *)
(* everybody claims.                                                       *)
LEMMA RoomForAll ==
    ASSUME TypeOK, NothingIsLater, NEW W \in SUBSET Drafts, NEW now,
           Spent(ledger \cap W) < Limit, Spent(ledger \cap W)' = Spent(ledger \cap W)
    PROVE  Within(W, now)'
  <1> DEFINE is == Cardinality(Claimed(W, now)') * Max(Costs)
             most == Cardinality(Agents) * Max(Costs)
             spent == Spent(ledger \cap W)
  <1>1. Claimed(W, now)' \in SUBSET Agents /\ Agents \in SUBSET Agents
    BY DEF Claimed
  <1>2. is \in Nat /\ most \in Nat /\ is <= most
    BY <1>1, FewerClaims
  <1>3. spent \in Nat /\ Limit \in Nat
    BY WindowIsFinite
  <1>4. spent + is < Limit + most
    <2> HIDE DEF is, most, spent
    <2>1. spent < Limit
      BY DEF spent
    <2> QED
      BY <1>2, <1>3, <2>1
  <1> QED
    BY <1>4 DEF Within

(* What the other agents claim does not change. *)
LEMMA OnlyOne ==
    ASSUME NEW W, NEW open, NEW a \in Agents,
           \A b \in Agents \ {a} : /\ pc'[b] = pc[b] /\ purpose'[b] = purpose[b]
                                   /\ seen'[b] = seen[b] /\ entry'[b] = entry[b]
    PROVE  /\ Claimed(W, open)' \subseteq Claimed(W, open) \cup {a}
           /\ (Claims(a, W, open)' => Claims(a, W, open)) =>
                Claimed(W, open)' \subseteq Claimed(W, open)
           /\ Claims(a, W, open) /\ ~Claims(a, W, open)' =>
                Claimed(W, open)' \subseteq Claimed(W, open) \ {a}
  <1>1. \A b \in Agents \ {a} : Claims(b, W, open)' <=> Claims(b, W, open)
    BY DEF Claims
  <1> QED
    BY <1>1 DEF Claimed

-----------------------------------------------------------------------------
(* Who loads the ledger claims a place in a window only where it finds one *)
(* below the limit; then there is room for everybody.                      *)
LEMMA LoadingClaims ==
    ASSUME TypeOK, NothingIsLater, NEW W \in SUBSET Drafts, NEW open, Within(W, open),
           NEW a \in Agents, Load(a)
    PROVE  Within(W, open)'
  <1>1. /\ ledger' = ledger /\ entry' = entry
        /\ pc' = [pc EXCEPT ![a] = "window"]
        /\ seen' = [seen EXCEPT ![a] = ledger]
        /\ \A b \in Agents \ {a} : purpose'[b] = purpose[b]
    BY DEF Load, Goes, files, TypeOK
  <1>2. pc'[a] = "window" /\ seen'[a] = ledger
    BY <1>1 DEF TypeOK
  <1>3. CASE Spent(ledger \cap W) < Limit
    BY <1>1, <1>3, RoomForAll
  <1>4. CASE ~(Spent(ledger \cap W) < Limit)
    <2>1. ~Claims(a, W, open)'
      BY <1>2, <1>4 DEF Claims
    <2>2. \A b \in Agents \ {a} : /\ pc'[b] = pc[b] /\ purpose'[b] = purpose[b]
                                  /\ seen'[b] = seen[b] /\ entry'[b] = entry[b]
      BY <1>1 DEF TypeOK
    <2>3. Claimed(W, open)' \subseteq Claimed(W, open)
      BY <2>1, <2>2, OnlyOne
    <2> QED
      BY <1>1, <2>3, NobodyClaims
  <1> QED
    BY <1>3, <1>4

(* A command that concludes with all it saw of the window keeps its claim, *)
(* or gives it up.                                                         *)
LEMMA ConcludingClaims ==
    ASSUME TypeOK, NothingIsLater, NEW W \in SUBSET Drafts, NEW open, Within(W, open),
           NEW a \in Agents, NEW since, Concludes(a, since), pc[a] \in {"window", "write"},
           open => \A e \in seen[a] \cap W : InWindow(e, since),
           UNCHANGED <<ledger, entry, window, today>>
    PROVE  Within(W, open)'
  <1>1. /\ pc'[a] \in {"policy", "idle", "stopped"}
        /\ \A b \in Agents \ {a} : /\ pc'[b] = pc[b] /\ purpose'[b] = purpose[b]
                                   /\ seen'[b] = seen[b] /\ entry'[b] = entry[b]
    <2>1. /\ pc'[a] \in {"policy", "idle", "stopped"}
          /\ \A b \in Agents \ {a} : pc'[b] = pc[b]
      BY ConcludingTypes
    <2>2. \A b \in Agents \ {a} : purpose'[b] = purpose[b] /\ seen'[b] = seen[b]
      BY DEF Concludes, TypeOK
    <2> QED
      BY <2>1, <2>2
  <1>2. ASSUME Claims(a, W, open)' PROVE Claims(a, W, open)
    <2>1. open /\ pc'[a] = "policy" /\ Spent(seen'[a] \cap W) < Limit
      BY <1>1, <1>2 DEF Claims
    <2>2. purpose[a] = "status" /\ seen'[a] = {e \in seen[a] : InWindow(e, since)}
      BY <2>1 DEF Concludes, Goes, TypeOK
    <2>3. seen'[a] \cap W = seen[a] \cap W
      BY <2>1, <2>2
    <2> QED
      BY <2>1, <2>2, <2>3 DEF Claims
  <1>3. Claimed(W, open)' \subseteq Claimed(W, open)
    BY <1>1, <1>2, OnlyOne
  <1> QED
    BY <1>3, NobodyClaims

(* The steps of making a marker do not change what is claimed. *)
LEMMA MakingClaims ==
    ASSUME TypeOK, NothingIsLater, NEW W \in SUBSET Drafts, NEW open, Within(W, open),
           NEW a \in Agents,
           NeedsMarker(a) \/ ResetSession(a) \/ StampMarker(a) \/ TruncateMarker(a)
    PROVE  Within(W, open)'
  <1>1. /\ UNCHANGED <<ledger, entry, seen>>
        /\ \/ pc[a] \in {"window", "stamp", "truncate"} /\ purpose' = purpose
           \/ purpose' = [purpose EXCEPT ![a] = "reset"]
        /\ \E step \in {"stamp", "truncate", "write"} : pc' = [pc EXCEPT ![a] = step]
    BY DEF NeedsMarker, ResetSession, BeginsMarker, StampMarker, TruncateMarker, Goes, files
  <1>2. \A b \in Agents \ {a} : /\ pc'[b] = pc[b] /\ purpose'[b] = purpose[b]
                                /\ seen'[b] = seen[b] /\ entry'[b] = entry[b]
    BY <1>1 DEF TypeOK
  <1>3. Claims(a, W, open)' => Claims(a, W, open)
    <2>1. pc'[a] \in {"stamp", "truncate", "write"}
      BY <1>1 DEF TypeOK
    <2>2. CASE pc[a] \in {"window", "stamp", "truncate"} /\ purpose' = purpose
      BY <1>1, <2>1, <2>2 DEF Claims
    <2>3. CASE purpose' = [purpose EXCEPT ![a] = "reset"]
      BY <2>1, <2>3 DEF Claims, TypeOK
    <2> QED
      BY <1>1, <2>2, <2>3
  <1>4. Claimed(W, open)' \subseteq Claimed(W, open)
    BY <1>2, <1>3, OnlyOne
  <1> QED
    BY <1>1, <1>4, NobodyClaims

(* A verdict without a human says that there was room in what was seen.    *)
LEMMA PassSawRoom ==
    ASSUME policy = "present", NEW r \in Requests, NEW spent \in Nat, NEW made
    PROVE  /\ Verdict(r, spent, made) \in {"pass", "approve", "deny"}
           /\ Verdict(r, spent, made) = "pass" => spent < Limit
  <1>1. Estimate[r] \in Nat \ {0} /\ Limit \in Nat
    BY LedgerAssumption
  <1> DEFINE objections == <<PermissionVerdict(r), BudgetVerdict(r, spent, made), Risk[r], Scope[r]>>
             objecting == {i \in 1..4 : objections[i] # "pass"}
             first == CHOOSE i \in objecting : \A j \in objecting : i <= j
  <1>2. \A i \in 1..4 : objections[i] \in {"pass", "approve", "deny"}
    BY LedgerAssumption DEF PermissionVerdict, BudgetVerdict
  <1>3. objecting # {} => first \in objecting
    <2> SUFFICES ASSUME objecting # {} PROVE \E i \in objecting : \A j \in objecting : i <= j
      OBVIOUS
    <2>1. \A S \in SUBSET (1..4) : S # {} => \E i \in S : \A j \in S : i <= j
      <3> SUFFICES ASSUME NEW S \in SUBSET (1..4), S # {} PROVE \E i \in S : \A j \in S : i <= j
        OBVIOUS
      <3>1. CASE 1 \in S
        BY <3>1
      <3>2. CASE 1 \notin S /\ 2 \in S
        BY <3>2
      <3>3. CASE 1 \notin S /\ 2 \notin S /\ 3 \in S
        BY <3>3
      <3>4. CASE 1 \notin S /\ 2 \notin S /\ 3 \notin S
        <4>1. \A x \in S : x = 4
          BY <3>4
        <4>2. PICK x \in S : TRUE
          BY Zenon
        <4> QED
          BY <4>1, <4>2
      <3> QED
        BY <3>1, <3>2, <3>3, <3>4
    <2>2. objecting \in SUBSET (1..4)
      OBVIOUS
    <2> HIDE DEF objecting
    <2> QED
      BY <2>1, <2>2
  <1>4. Verdict(r, spent, made) = IF objecting = {} THEN "pass" ELSE objections[first]
    BY DEF Verdict
  <1>5. first \in objecting => /\ objections[first] \in {"pass", "approve", "deny"}
                               /\ objections[first] # "pass"
    BY <1>2
  <1>6. objections[2] = BudgetVerdict(r, spent, made)
    OBVIOUS
  <1>7. objecting = {} => BudgetVerdict(r, spent, made) = "pass"
    BY <1>6
  <1>8. BudgetVerdict(r, spent, made) = "pass" => spent < Limit
    BY <1>1 DEF BudgetVerdict
  <1> HIDE DEF objecting, first, objections
  <1> QED
    BY <1>3, <1>4, <1>5, <1>7, <1>8

(* Who may make its call had a claim already, unless a human granted it.   *)
LEMMA EvaluatingClaims ==
    ASSUME TypeOK, NothingIsLater, policy = "present", NEW W \in SUBSET Drafts, NEW open,
           Within(W, open), NEW a \in Agents, Evaluate(a)
    PROVE  Within(W, open)'
  <1>1. /\ UNCHANGED <<ledger, purpose>> /\ pc[a] = "policy"
        /\ seen' = [seen EXCEPT ![a] = {}]
    BY DEF Evaluate
  <1>2. PICK r \in Requests :
           \/ /\ Verdict(r, Total(seen[a]), calls[a]) # "deny"
              /\ Goes(a, "work")
              /\ \E actual \in Actuals \cup {NotMeasured} :
                    entry' = [entry EXCEPT ![a] =
                        [at |-> 0, day |-> 0, tokens |-> Committed(r, actual),
                         granted |-> Verdict(r, Total(seen[a]), calls[a]) = "approve"]]
           \/ Goes(a, "idle") /\ entry' = entry
    BY Zenon DEF Evaluate
  <1>3. \A b \in Agents \ {a} : /\ pc'[b] = pc[b] /\ purpose'[b] = purpose[b]
                                /\ seen'[b] = seen[b] /\ entry'[b] = entry[b]
    BY <1>1, <1>2 DEF Goes, TypeOK
  <1>4. pc'[a] = "idle" \/ pc'[a] = "work"
    BY <1>2 DEF Goes, TypeOK
  <1>5. ASSUME Claims(a, W, open)' PROVE Claims(a, W, open)
    <2> DEFINE verdict == Verdict(r, Total(seen[a]), calls[a])
    <2>1. open /\ pc'[a] = "work" /\ ~entry'[a].granted
      BY <1>4, <1>5 DEF Claims
    <2>2. verdict # "deny" /\ entry'[a].granted = (verdict = "approve")
      BY <1>2, <2>1 DEF Goes, TypeOK
    <2>3. Total(seen[a]) \in Nat
      BY WindowIsFinite, Totals
    <2>4. Total(seen[a]) < Limit
      BY <2>1, <2>2, <2>3, PassSawRoom
    <2>5. /\ Spent(seen[a] \cap W) \in Nat /\ Spent(seen[a]) \in Nat
          /\ Spent(seen[a] \cap W) <= Spent(seen[a])
          /\ Spent(seen[a]) <= Total(seen[a])
      BY WindowIsFinite, Spending
    <2>6. Spent(seen[a] \cap W) < Limit
      BY <2>3, <2>4, <2>5, LedgerAssumption
    <2> QED
      BY <1>1, <2>1, <2>6 DEF Claims
  <1>6. Claimed(W, open)' \subseteq Claimed(W, open)
    BY <1>3, <1>5, OnlyOne
  <1> QED
    BY <1>1, <1>6, NobodyClaims

(* The call that is made in a day that is over is not of that day; in one  *)
(* that goes on, it was claimed before.                                    *)
LEMMA WorkingClaims ==
    ASSUME TypeOK, NothingIsLater, NEW W \in SUBSET Drafts, NEW open, Within(W, open),
           NEW a \in Agents, Work(a), ~open => \A e \in W : e.day # today
    PROVE  Within(W, open)'
  <1>1. /\ UNCHANGED <<ledger, purpose, seen>> /\ pc[a] = "work"
        /\ pc' = [pc EXCEPT ![a] = "append"]
        /\ entry' = [entry EXCEPT ![a] = [entry[a] EXCEPT !.at = clock + 1, !.day = today]]
    BY DEF Work, Goes, files
  <1>2. \A b \in Agents \ {a} : /\ pc'[b] = pc[b] /\ purpose'[b] = purpose[b]
                                /\ seen'[b] = seen[b] /\ entry'[b] = entry[b]
    BY <1>1 DEF TypeOK
  <1>3. /\ pc'[a] = "append" /\ entry[a] \in Drafts
        /\ entry'[a] = [entry[a] EXCEPT !.at = clock + 1, !.day = today]
    BY <1>1 DEF TypeOK
  <1>4. entry'[a].day = today /\ entry'[a].granted = entry[a].granted
    BY <1>3 DEF Drafts
  <1>5. Claims(a, W, open)' => Claims(a, W, open)
    BY <1>1, <1>3, <1>4 DEF Claims
  <1>6. Claimed(W, open)' \subseteq Claimed(W, open)
    BY <1>2, <1>5, OnlyOne
  <1> QED
    BY <1>1, <1>6, NobodyClaims

(* What is appended was claimed: the claim becomes spending.               *)
LEMMA AppendingSpends ==
    ASSUME TypeOK, NothingIsLater, NEW W \in SUBSET Drafts, NEW open, Within(W, open),
           NEW a \in Agents, AppendSpend(a)
    PROVE  Within(W, open)'
  <1>1. /\ UNCHANGED <<purpose, seen>> /\ pc[a] = "append"
        /\ pc' = [pc EXCEPT ![a] = "load"]
        /\ entry' = [entry EXCEPT ![a] = NotMeasured]
        /\ ledger' = ledger \/ ledger' = ledger \cup {entry[a]}
    BY DEF AppendSpend, Goes
  <1>2. \A b \in Agents \ {a} : /\ pc'[b] = pc[b] /\ purpose'[b] = purpose[b]
                                /\ seen'[b] = seen[b] /\ entry'[b] = entry[b]
    BY <1>1 DEF TypeOK
  <1>3. ~Claims(a, W, open)'
    BY <1>1 DEF Claims, TypeOK
  <1>4. Claimed(W, open)' \subseteq Claimed(W, open)
    BY <1>2, <1>3, OnlyOne
  <1>5. entry[a] \in Drafts /\ entry[a].tokens \in Costs /\ entry[a].granted \in BOOLEAN
    BY <1>1 DEF TypeOK, NothingIsLater, Entries, Drafts, Stamps
  <1>6. CASE Spent(ledger \cap W)' = Spent(ledger \cap W)
    <2>1. Claimed(W, open)' \in SUBSET Claimed(W, open) /\ Claimed(W, open) \in SUBSET Agents
      BY <1>4 DEF Claimed
    <2> DEFINE was == Cardinality(Claimed(W, open)) * Max(Costs)
               is == Cardinality(Claimed(W, open)') * Max(Costs)
               most == Cardinality(Agents) * Max(Costs)
               spent == Spent(ledger \cap W)
    <2>2. was \in Nat /\ is \in Nat /\ is <= was /\ most \in Nat /\ spent \in Nat /\ Limit \in Nat
      BY <2>1, FewerClaims, WindowIsFinite
    <2>3. spent + was < Limit + most
      BY DEF Within
    <2>4. spent + is < Limit + most
      <3> HIDE DEF was, is, most, spent
      <3> QED
        BY <2>2, <2>3
    <2> QED
      BY <1>6, <2>4 DEF Within
  <1>7. CASE /\ ledger' = ledger \cup {entry[a]} /\ entry[a] \in W /\ ~entry[a].granted
    <2>1. Claimed(W, open)' \in SUBSET Claimed(W, open) /\ Claimed(W, open) \in SUBSET Agents
      BY <1>4 DEF Claimed
    <2>2. a \in Claimed(W, open) \ Claimed(W, open)'
      BY <1>1, <1>3, <1>7 DEF Claims, Claimed
    <2> DEFINE was == Cardinality(Claimed(W, open)) * Max(Costs)
               is == Cardinality(Claimed(W, open)') * Max(Costs)
               most == Cardinality(Agents) * Max(Costs)
               spent == Spent(ledger \cap W)
               next == Spent(ledger' \cap W)
    <2>3. /\ was \in Nat /\ is \in Nat /\ is + Max(Costs) <= was
          /\ most \in Nat /\ spent \in Nat /\ Limit \in Nat
      BY <2>1, <2>2, FewerClaims, WindowIsFinite
    <2>4. ledger' \cap W = (ledger \cap W) \cup {entry[a]}
      BY <1>7
    <2>5. next <= spent + entry[a].tokens /\ next \in Nat
      <3>1. next <= spent + entry[a].tokens
        BY <1>5, <1>7, <2>4, WindowIsFinite, Spending
      <3>2. IsFiniteSet(ledger \cap W) /\ ledger \cap W \subseteq Drafts
        BY WindowIsFinite
      <3>3. IsFiniteSet(ledger' \cap W)
        BY <2>4, <3>2, FS_AddElement
      <3>4. ledger' \cap W \subseteq Drafts
        BY <1>5, <2>4, <3>2
      <3> QED
        BY <3>1, <3>3, <3>4, Spending
    <2>6. entry[a].tokens <= Max(Costs) /\ entry[a].tokens \in Nat /\ Max(Costs) \in Nat
      BY <1>5, Dearest, CostsAreNat
    <2>7. spent + was < Limit + most
      BY DEF Within
    <2>8. next + is < Limit + most
      <3> HIDE DEF was, is, most, spent, next
      <3> QED
        BY <2>3, <2>5, <2>6, <2>7
    <2> QED
      BY <2>8 DEF Within
  <1>8. CASE ledger' = ledger \/ entry[a] \notin W
    <2>1. ledger' \cap W = ledger \cap W
      BY <1>1, <1>8
    <2> QED
      BY <1>6, <2>1
  <1>9. CASE ledger' = ledger \cup {entry[a]} /\ entry[a] \in W /\ entry[a].granted
    <2>1. {e \in ledger' \cap W : ~e.granted} = {e \in ledger \cap W : ~e.granted}
      BY <1>9
    <2>2. Spent(ledger \cap W)' = Spent(ledger \cap W)
      BY <2>1 DEF Spent
    <2> QED
      BY <1>6, <2>2
  <1> QED
    BY <1>1, <1>5, <1>7, <1>8, <1>9

(* Who gives up or dies claims nothing more. *)
LEMMA LeavingClaims ==
    ASSUME TypeOK, NothingIsLater, NEW W \in SUBSET Drafts, NEW open, Within(W, open),
           NEW a \in Agents, PolicyFails(a) \/ Crash(a) \/ CutShort(a)
    PROVE  Within(W, open)'
  <1>1. ledger' = ledger /\ pc' = [pc EXCEPT ![a] = "idle"]
    BY DEF PolicyFails, Crash, CutShort, Goes, files
  <1>2. \A b \in Agents \ {a} : /\ pc'[b] = pc[b] /\ purpose'[b] = purpose[b]
                                /\ seen'[b] = seen[b] /\ entry'[b] = entry[b]
    BY DEF PolicyFails, Crash, CutShort, Forgets, Goes, TypeOK
  <1>3. ~Claims(a, W, open)'
    BY <1>1 DEF Claims, TypeOK
  <1>4. Claimed(W, open)' \subseteq Claimed(W, open)
    BY <1>2, <1>3, OnlyOne
  <1> QED
    BY <1>1, <1>4, NobodyClaims

-----------------------------------------------------------------------------
(* Nothing gets ahead of the time. *)
LEMMA NothingIsLaterStep ==
    TypeOK /\ OneMaker /\ NothingIsLater /\ [Next]_vars => NothingIsLater'
  <1> SUFFICES ASSUME TypeOK, OneMaker, NothingIsLater, [Next]_vars PROVE NothingIsLater'
    OBVIOUS
  <1> USE DEF NothingIsLater
  <1>1. clock \in Nat /\ today \in Nat
    BY BoundsAreNat DEF TypeOK
  <1>2. ASSUME NEW a \in Agents, Load(a) PROVE NothingIsLater'
    <2>1. /\ UNCHANGED <<ledger, marker, clock, today, stamp, entry, raced>>
          /\ pc' = [pc EXCEPT ![a] = "window"]
          /\ seen' = [seen EXCEPT ![a] = ledger]
      BY <1>2 DEF Load, Goes, files
    <2> QED
      BY <2>1 DEF TypeOK
  <1>3. ASSUME NEW a \in Agents, NEW since, Concludes(a, since)
        PROVE  /\ \A b \in Agents : IsFiniteSet(seen'[b])
               /\ pc'[a] \notin {"append", "work", "truncate", "write"}
               /\ \A b \in Agents \ {a} : pc'[b] = pc[b]
    <2>1. IsFiniteSet({e \in seen[a] : InWindow(e, since)}) /\ IsFiniteSet({})
      BY FS_Subset, FS_EmptySet
    <2>2. /\ seen'[a] = {e \in seen[a] : InWindow(e, since)} \/ seen'[a] = {}
          /\ \A b \in Agents \ {a} : seen'[b] = seen[b]
      BY <1>3 DEF Concludes, TypeOK
    <2> QED
      BY <1>3, <2>1, <2>2, ConcludingTypes
  <1>4. ASSUME NEW a \in Agents, ReadMarker(a) PROVE NothingIsLater'
    <2>1. UNCHANGED <<ledger, marker, clock, today, stamp, entry, raced>>
      BY <1>4 DEF ReadMarker, files
    <2> QED
      BY <1>3, <1>4, <2>1 DEF ReadMarker
  <1>5. ASSUME NEW a \in Agents, NeedsMarker(a) \/ ResetSession(a) PROVE NothingIsLater'
    <2>1. /\ UNCHANGED <<ledger, marker, clock, today, stamp, entry, seen>>
          /\ pc' = [pc EXCEPT ![a] = "stamp"] /\ raced' = (raced \/ Races(a))
      BY <1>5 DEF NeedsMarker, ResetSession, BeginsMarker, Goes, files
    <2> QED
      BY <2>1 DEF TypeOK
  <1>6. ASSUME NEW a \in Agents, StampMarker(a) PROVE NothingIsLater'
    <2>1. /\ UNCHANGED <<ledger, marker, today, entry, seen, raced>>
          /\ clock' = clock + 1
          /\ pc' = [pc EXCEPT ![a] = "truncate"]
          /\ stamp' = [stamp EXCEPT ![a] = clock + 1]
      BY <1>6 DEF StampMarker, Goes, files
    <2>2. \A e \in ledger : e.at \in Nat
      BY DEF TypeOK, Entries, Stamps
    <2>3. \A b \in Agents : pc[b] = "append" => entry[b].at \in Nat
      BY DEF TypeOK, Entries, Stamps
    <2>4. marker \in Stamps => marker \in Nat
      BY DEF Stamps
    <2> QED
      BY <1>1, <2>1, <2>2, <2>3, <2>4 DEF TypeOK
  <1>7. ASSUME NEW a \in Agents, TruncateMarker(a) PROVE NothingIsLater'
    <2>1. /\ UNCHANGED <<ledger, clock, today, stamp, entry, seen, raced>>
          /\ pc' = [pc EXCEPT ![a] = "write"] /\ marker' \notin Stamps
      BY <1>7, LedgerAssumption DEF TruncateMarker, Goes, Stamps
    <2> QED
      BY <2>1 DEF TypeOK
  <1>8. ASSUME NEW a \in Agents, WriteMarker(a) PROVE NothingIsLater'
    <2>1. /\ UNCHANGED <<ledger, clock, today, entry, raced>>
          /\ pc[a] = "write" /\ marker' = stamp[a] /\ stamp[a] <= clock
          /\ \A b \in Agents \ {a} : stamp'[b] = stamp[b]
      BY <1>8 DEF WriteMarker, TypeOK
    <2>2. ~raced => \A b \in Agents \ {a} : pc[b] \notin {"truncate", "write"}
      BY <2>1 DEF OneMaker, MakesMarker
    <2> QED
      BY <1>3, <1>8, <2>1, <2>2 DEF WriteMarker
  <1>9. ASSUME NEW a \in Agents, Evaluate(a) PROVE NothingIsLater'
    <2>1. /\ UNCHANGED <<ledger, marker, clock, today, stamp, raced>>
          /\ seen' = [seen EXCEPT ![a] = {}]
      BY <1>9 DEF Evaluate
    <2>2. PICK r \in Requests :
             \/ /\ Goes(a, "work")
                /\ \E actual \in Actuals \cup {NotMeasured} :
                      entry' = [entry EXCEPT ![a] =
                          [at |-> 0, day |-> 0, tokens |-> Committed(r, actual),
                           granted |-> Verdict(r, Total(seen[a]), calls[a]) = "approve"]]
             \/ Goes(a, "idle") /\ entry' = entry
      BY <1>9, Zenon DEF Evaluate
    <2>3. \A actual \in Actuals \cup {NotMeasured} : Committed(r, actual) \in Costs
      BY DEF Committed, Costs
    <2>4. (pc'[a] = "work" /\ entry'[a].tokens \in Costs) \/ pc'[a] = "idle"
      BY <2>2, <2>3 DEF Goes, TypeOK
    <2>5. \A b \in Agents \ {a} : pc'[b] = pc[b] /\ entry'[b] = entry[b] /\ seen'[b] = seen[b]
      BY <2>1, <2>2 DEF Goes, TypeOK
    <2>6. IsFiniteSet(seen'[a])
      BY <2>1, FS_EmptySet DEF TypeOK
    <2> QED
      BY <2>1, <2>4, <2>5, <2>6
  <1>10. ASSUME NEW a \in Agents, Work(a) PROVE NothingIsLater'
    <2>1. /\ UNCHANGED <<ledger, marker, today, stamp, seen, raced>>
          /\ clock' = clock + 1 /\ pc[a] = "work"
          /\ pc' = [pc EXCEPT ![a] = "append"]
          /\ entry' = [entry EXCEPT ![a] = [entry[a] EXCEPT !.at = clock + 1, !.day = today]]
      BY <1>10 DEF Work, Goes, files
    <2>2. \A e \in ledger : e.at \in Nat
      BY DEF TypeOK, Entries, Stamps
    <2>3. \A b \in Agents : pc[b] = "append" => entry[b].at \in Nat
      BY DEF TypeOK, Entries, Stamps
    <2>4. marker \in Stamps => marker \in Nat
      BY DEF Stamps
    <2>5. /\ entry'[a].at = clock + 1 /\ entry'[a].day = today
          /\ entry'[a].tokens = entry[a].tokens
      BY <2>1 DEF TypeOK, Drafts
    <2>6. \A b \in Agents \ {a} : pc'[b] = pc[b] /\ entry'[b] = entry[b]
      BY <2>1 DEF TypeOK
    <2>7. pc'[a] = "append"
      BY <2>1 DEF TypeOK
    <2> QED
      BY <1>1, <2>1, <2>2, <2>3, <2>4, <2>5, <2>6, <2>7
  <1>11. ASSUME NEW a \in Agents, AppendSpend(a) PROVE NothingIsLater'
    <2>1. /\ UNCHANGED <<marker, clock, today, stamp, seen, raced>> /\ pc[a] = "append"
          /\ pc' = [pc EXCEPT ![a] = "load"]
          /\ entry' = [entry EXCEPT ![a] = NotMeasured]
          /\ ledger' = ledger \/ ledger' = ledger \cup {entry[a]}
      BY <1>11 DEF AppendSpend, Goes
    <2>2. IsFiniteSet(ledger')
      BY <2>1, FS_AddElement
    <2> QED
      BY <2>1, <2>2 DEF TypeOK
  <1>12. ASSUME NEW a \in Agents, PolicyFails(a) \/ Crash(a) \/ CutShort(a) PROVE NothingIsLater'
    <2>1. /\ UNCHANGED <<ledger, marker, clock, today, raced>>
          /\ pc' = [pc EXCEPT ![a] = "idle"]
          /\ seen' = [seen EXCEPT ![a] = {}]
          /\ \A b \in Agents \ {a} : entry'[b] = entry[b] /\ stamp'[b] = stamp[b]
      BY <1>12 DEF PolicyFails, Crash, CutShort, Forgets, Goes, files, TypeOK
    <2>2. pc'[a] = "idle" /\ IsFiniteSet(seen'[a])
      BY <2>1, FS_EmptySet DEF TypeOK
    <2>3. \A b \in Agents \ {a} : pc'[b] = pc[b] /\ seen'[b] = seen[b]
      BY <2>1 DEF TypeOK
    <2> QED
      BY <2>1, <2>2, <2>3
  <1>13. CASE NextDay
    <2>1. /\ UNCHANGED <<ledger, marker, clock, pc, seen, stamp, entry, raced>>
          /\ today' = today + 1
      BY <1>13 DEF NextDay, files, locals
    <2>2. /\ \A e \in ledger : e.day \in Nat
          /\ \A b \in Agents : pc[b] = "append" => entry[b].day \in Nat
      BY DEF TypeOK, Entries
    <2> QED
      BY <1>1, <2>1, <2>2
  <1>14. CASE UNCHANGED vars
    BY <1>14 DEF vars, files, locals
  <1> QED
    BY <1>2, <1>4, <1>5, <1>6, <1>7, <1>8, <1>9, <1>10, <1>11, <1>12, <1>13, <1>14
       DEF Next, MakeMarker

-----------------------------------------------------------------------------
(* A step of an agent that sees all of a window, or makes no call in one   *)
(* that is over, leaves the window bounded.                                *)
LEMMA AgentStep ==
    ASSUME TypeOK, NothingIsLater, policy = "present", NEW W \in SUBSET Drafts, NEW open,
           Within(W, open), NEW a \in Agents,
           \/ Load(a) \/ ReadMarker(a) \/ NeedsMarker(a) \/ ResetSession(a) \/ MakeMarker(a)
           \/ Evaluate(a) \/ PolicyFails(a) \/ Work(a) \/ AppendSpend(a)
           \/ Crash(a) \/ CutShort(a),
           open /\ ReadMarker(a) => \A e \in seen[a] \cap W : InWindow(e, marker),
           open /\ WriteMarker(a) => \A e \in seen[a] \cap W : InWindow(e, stamp[a]),
           ~open => \A e \in W : e.day # today
    PROVE  Within(W, open)'
  <1>1. CASE ReadMarker(a)
    <2>1. Concludes(a, marker) /\ pc[a] = "window" /\ UNCHANGED <<ledger, entry, window, today>>
      BY <1>1 DEF ReadMarker, fixed, files
    <2> QED
      BY <1>1, <2>1, ConcludingClaims
  <1>2. CASE WriteMarker(a)
    <2>1. Concludes(a, stamp[a]) /\ pc[a] = "write" /\ UNCHANGED <<ledger, entry, window, today>>
      BY <1>2 DEF WriteMarker, fixed
    <2> QED
      BY <1>2, <2>1, ConcludingClaims
  <1> QED
    BY <1>1, <1>2, LoadingClaims, MakingClaims, EvaluatingClaims, WorkingClaims, AppendingSpends,
       LeavingClaims DEF MakeMarker

(* The window and the policy are what they were. *)
LEMMA WindowStays == [Next]_vars => window' = window /\ policy' = policy
  BY DEF Next, MakeMarker, Load, ReadMarker, NeedsMarker, ResetSession, StampMarker, TruncateMarker,
         WriteMarker, Evaluate, PolicyFails, Work, AppendSpend, Crash, CutShort, NextDay, vars, fixed

(* Each day stays bounded, and so does the one that begins.                *)
LEMMA DaysStep ==
    ASSUME TypeOK, NothingIsLater, policy = "present", window = "daily",
           \A d \in 0..today : Within(DayOf(d), d = today), [Next]_vars
    PROVE  \A d \in 0..today' : Within(DayOf(d), d = today)'
  <1> SUFFICES ASSUME NEW d \in 0..today' PROVE Within(DayOf(d), d = today)'
    OBVIOUS
  <1>1. today \in Nat /\ DayOf(d) \in SUBSET Drafts
    BY BoundsAreNat DEF TypeOK, DayOf
  <1>2. ASSUME NEW a \in Agents,
               \/ Load(a) \/ ReadMarker(a) \/ NeedsMarker(a) \/ ResetSession(a) \/ MakeMarker(a)
               \/ Evaluate(a) \/ PolicyFails(a) \/ Work(a) \/ AppendSpend(a)
               \/ Crash(a) \/ CutShort(a)
        PROVE  Within(DayOf(d), d = today)'
    <2>1. today' = today
      BY <1>2 DEF MakeMarker, Load, ReadMarker, NeedsMarker, ResetSession, StampMarker,
             TruncateMarker, WriteMarker, Evaluate, PolicyFails, Work, AppendSpend, Crash, CutShort
    <2>2. Within(DayOf(d), d = today)
      BY <2>1
    <2>3. \A e \in DayOf(d) : e.day = d
      BY DEF DayOf
    <2>4. d = today => \A e \in DayOf(d) : \A since : InWindow(e, since)
      BY <2>3 DEF InWindow
    <2>5. ASSUME NEW open \in BOOLEAN, open <=> d = today
          PROVE  Within(DayOf(d), open)'
      <3>1. Within(DayOf(d), open)
        BY <2>2, <2>5
      <3> QED
        BY <1>1, <1>2, <2>3, <2>4, <2>5, <3>1, AgentStep
    <2> QED
      BY <2>1, <2>5
  <1>3. CASE NextDay \/ UNCHANGED vars
    <2>1. /\ UNCHANGED <<ledger, pc, purpose, seen, entry>>
          /\ today' = today \/ today' = today + 1
      BY <1>3 DEF NextDay, vars, files, locals
    <2>2. CASE d = today + 1
      <3>1. ledger \cap DayOf(d) = {}
        BY <1>1, <2>2 DEF NothingIsLater, DayOf, TypeOK, Entries
      <3>2. Spent({}) = 0 /\ Limit > 0 /\ Limit \in Nat
        BY Spending, FS_EmptySet, LedgerAssumption
      <3>3. Spent(ledger \cap DayOf(d)) < Limit
        BY <3>1, <3>2
      <3>4. \A now \in BOOLEAN : Within(DayOf(d), now)'
        BY <1>1, <2>1, <3>3, RoomForAll
      <3> QED
        BY <3>4
    <2>3. CASE d # today + 1
      <3>1. d \in 0..today
        BY <1>1, <2>1, <2>3
      <3>2. Within(DayOf(d), d = today)
        BY <3>1
      <3>3. ASSUME NEW open \in BOOLEAN, NEW now \in BOOLEAN, now => open, Within(DayOf(d), open)
            PROVE  Within(DayOf(d), now)'
        <4>1. Claimed(DayOf(d), now)' \subseteq Claimed(DayOf(d), open)
          BY <2>1, <3>3 DEF Claimed, Claims
        <4> QED
          BY <1>1, <2>1, <3>3, <4>1, NobodyClaims
      <3>4. d = today' => d = today
        BY <1>1, <2>1, <2>3
      <3>5. \A now \in BOOLEAN : (now <=> d = today') => Within(DayOf(d), now)'
        BY <3>2, <3>3, <3>4
      <3> QED
        BY <3>5
    <2> QED
      BY <2>2, <2>3
  <1> QED
    BY <1>2, <1>3 DEF Next

(* So does each session that has begun, and the one that begins.           *)
LEMMA SessionsStep ==
    ASSUME TypeOK, OneMaker, NothingIsLater, policy = "present", window = "session", ~raced',
           ~raced => \A s \in Begun : Within(Since(s), TRUE), [Next]_vars
    PROVE  \A s \in Begun' : Within(Since(s), TRUE)'
  <1> SUFFICES ASSUME NEW s \in Stamps, s \in Begun' PROVE Within(Since(s), TRUE)'
    BY DEF Begun
  <1>1. ~raced
    BY DEF Next, MakeMarker, Load, ReadMarker, NeedsMarker, ResetSession, BeginsMarker,
           StampMarker, TruncateMarker, WriteMarker, Evaluate, PolicyFails, Work, AppendSpend,
           Crash, CutShort, NextDay, vars
  <1>2. /\ clock \in Nat /\ s \in Nat /\ Since(s) \in SUBSET Drafts
        /\ \A e \in Since(s) : e.at \in Nat /\ e.at >= s
    BY DEF TypeOK, Stamps, Since, Drafts
  <1>3. s \in Begun \/ (s = clock + 1 /\ \E a \in Agents : StampMarker(a))
    <2>1. ASSUME NEW a \in Agents, StampMarker(a) PROVE s \in Begun \/ s = clock + 1
      <3>1. /\ marker' = marker /\ pc' = [pc EXCEPT ![a] = "truncate"]
            /\ stamp' = [stamp EXCEPT ![a] = clock + 1]
        BY <2>1 DEF StampMarker, Goes, files
      <3> QED
        BY <3>1 DEF Begun, TypeOK
    <2>2. ASSUME NEW a \in Agents, TruncateMarker(a) PROVE s \in Begun
      <3>1. /\ marker' \notin Stamps /\ pc' = [pc EXCEPT ![a] = "write"] /\ stamp' = stamp
            /\ pc[a] = "truncate"
        BY <2>2, LedgerAssumption DEF TruncateMarker, Goes, Stamps
      <3> QED
        BY <3>1 DEF Begun, TypeOK
    <2>3. ASSUME NEW a \in Agents, WriteMarker(a) PROVE s \in Begun
      <3>1. /\ marker' = stamp[a] /\ pc[a] = "write"
            /\ pc'[a] \in {"policy", "idle", "stopped"}
            /\ \A b \in Agents \ {a} : pc'[b] = pc[b] /\ stamp'[b] = stamp[b]
        BY <2>3, ConcludingTypes DEF WriteMarker, TypeOK
      <3> QED
        BY <3>1 DEF Begun
    <2>4. ASSUME NEW a \in Agents,
                 \/ Load(a) \/ ReadMarker(a) \/ NeedsMarker(a) \/ ResetSession(a)
                 \/ Evaluate(a) \/ PolicyFails(a) \/ Work(a) \/ AppendSpend(a)
                 \/ Crash(a) \/ CutShort(a)
          PROVE  s \in Begun
      <3>1. /\ marker' = marker
            /\ \A b \in Agents \ {a} : stamp'[b] = stamp[b]
        BY <2>4 DEF Load, ReadMarker, NeedsMarker, ResetSession, BeginsMarker, Evaluate, PolicyFails,
               Work, AppendSpend, Crash, CutShort, Forgets, files, TypeOK
      <3>2. CASE ReadMarker(a)
        BY <3>1, <3>2, ConcludingTypes DEF ReadMarker, Begun
      <3>3. CASE ~ReadMarker(a)
        <4>1. \E step \in {"window", "stamp", "work", "idle", "append", "load"} : Goes(a, step)
          BY <2>4, <3>3 DEF Load, NeedsMarker, ResetSession, BeginsMarker, Evaluate, PolicyFails,
                 Work, AppendSpend, Crash, CutShort
        <4> QED
          BY <3>1, <4>1 DEF Goes, Begun, TypeOK
      <3> QED
        BY <3>2, <3>3
    <2>5. CASE NextDay \/ UNCHANGED vars
      BY <2>5 DEF NextDay, vars, files, locals, Begun
    <2> QED
      BY <2>1, <2>2, <2>3, <2>4, <2>5 DEF Next, MakeMarker
  <1>4. ASSUME s = clock + 1, NEW a \in Agents, StampMarker(a) PROVE Within(Since(s), TRUE)'
    <2>1. ledger' = ledger /\ ledger \cap Since(s) = {}
      BY <1>2, <1>4 DEF StampMarker, files, NothingIsLater
    <2>2. Spent({}) = 0 /\ Limit > 0 /\ Limit \in Nat
      BY Spending, FS_EmptySet, LedgerAssumption
    <2>3. Spent(ledger \cap Since(s)) < Limit
      BY <2>1, <2>2
    <2> QED
      BY <1>2, <2>1, <2>3, RoomForAll
  <1>5. ASSUME s \in Begun PROVE Within(Since(s), TRUE)'
    <2>1. Within(Since(s), TRUE)
      BY <1>1, <1>5
    <2>2. ASSUME NEW a \in Agents,
                 \/ Load(a) \/ ReadMarker(a) \/ NeedsMarker(a) \/ ResetSession(a) \/ MakeMarker(a)
                 \/ Evaluate(a) \/ PolicyFails(a) \/ Work(a) \/ AppendSpend(a)
                 \/ Crash(a) \/ CutShort(a)
          PROVE  Within(Since(s), TRUE)'
      <3>1. ReadMarker(a) => marker <= s /\ marker \in Nat
        <4> SUFFICES ASSUME ReadMarker(a) PROVE marker <= s /\ marker \in Nat
          OBVIOUS
        <4>1. marker \in Stamps
          BY DEF ReadMarker
        <4>2. s = marker \/ \E b \in Agents : pc[b] \in {"truncate", "write"} /\ s = stamp[b]
          BY <1>5 DEF Begun
        <4> QED
          BY <1>1, <1>2, <4>1, <4>2 DEF NothingIsLater, Stamps
      <3>2. WriteMarker(a) => stamp[a] <= s /\ stamp[a] \in Nat
        <4> SUFFICES ASSUME WriteMarker(a) PROVE stamp[a] = s
          BY <1>2
        <4>1. /\ marker' = stamp[a] /\ pc[a] = "write"
              /\ pc'[a] \in {"policy", "idle", "stopped"}
              /\ \A b \in Agents \ {a} : pc'[b] = pc[b]
          BY ConcludingTypes DEF WriteMarker
        <4>2. \A b \in Agents \ {a} : pc[b] \notin {"truncate", "write"}
          BY <1>1, <4>1 DEF OneMaker, MakesMarker
        <4> QED
          BY <4>1, <4>2 DEF Begun
      <3>3. ReadMarker(a) => \A e \in seen[a] \cap Since(s) : InWindow(e, marker)
        BY <1>2, <3>1 DEF InWindow
      <3>4. WriteMarker(a) => \A e \in seen[a] \cap Since(s) : InWindow(e, stamp[a])
        BY <1>2, <3>2 DEF InWindow
      <3> QED
        BY <1>2, <2>1, <2>2, <3>3, <3>4, AgentStep
    <2>3. CASE NextDay \/ UNCHANGED vars
      <3>1. UNCHANGED <<ledger, pc, purpose, seen, entry>>
        BY <2>3 DEF NextDay, vars, files, locals
      <3>2. Claimed(Since(s), TRUE)' \subseteq Claimed(Since(s), TRUE)
        BY <3>1 DEF Claimed, Claims
      <3> QED
        BY <1>2, <2>1, <3>1, <3>2, NobodyClaims
    <2> QED
      BY <2>2, <2>3 DEF Next
  <1> QED
    BY <1>3, <1>4, <1>5

-----------------------------------------------------------------------------
(* What a window holds and what is claimed of it are together below the    *)
(* bound, whatever the next step is.                                       *)
LEMMA CoverStep ==
    TypeOK /\ OneMaker /\ NothingIsLater /\ ClaimsAreCovered /\ [Next]_vars => ClaimsAreCovered'
  <1> SUFFICES ASSUME TypeOK, OneMaker, NothingIsLater, ClaimsAreCovered, [Next]_vars,
                      policy' = "present"
               PROVE  ClaimsAreCovered'
    BY DEF ClaimsAreCovered
  <1>1. policy = "present" /\ window' = window
    BY WindowStays
  <1>2. window = "daily" => \A d \in 0..today' : Within(DayOf(d), d = today)'
    BY <1>1, DaysStep DEF ClaimsAreCovered
  <1>3. window = "session" /\ ~raced' => \A s \in Begun' : Within(Since(s), TRUE)'
    BY <1>1, SessionsStep DEF ClaimsAreCovered
  <1> QED
    BY <1>1, <1>2, <1>3 DEF ClaimsAreCovered

(* Agents that spend at one time on what each of them saw do not see what  *)
(* the others are about to spend; all the same the ledger of a day, or of  *)
(* a session whose marker was not raced for, exceeds the limit by no more  *)
(* than one call of each agent, however many there are and whatever calls  *)
(* cost: no call is allowed on a total at the limit or above it, and each  *)
(* agent has at most one that the ledger does not show yet.                *)
THEOREM SpendStaysBounded == Spec => []SpendIsBounded
  <1>1. Init => OneMaker /\ NothingIsLater /\ ClaimsAreCovered
    <2> SUFFICES ASSUME Init PROVE OneMaker /\ NothingIsLater /\ ClaimsAreCovered
      OBVIOUS
    <2>1. OneMaker
      BY DEF Init, OneMaker, MakesMarker
    <2>2. NothingIsLater
      BY FS_EmptySet, LedgerAssumption DEF Init, NothingIsLater, Stamps
    <2>3. TypeOK
      BY TypeInit
    <2>4. Begun = {}
      BY LedgerAssumption DEF Init, Begun, Stamps
    <2>5. \A a \in Agents : \A W, open : ~Claims(a, W, open)
      BY DEF Init, Claims
    <2>6. ASSUME NEW W \in SUBSET Drafts, NEW open PROVE Within(W, open)
      <3>1. Claimed(W, open) = {} /\ ledger \cap W = {}
        BY <2>5 DEF Claimed, Init
      <3>2. Spent(ledger \cap W) = 0 /\ Cardinality(Claimed(W, open)) = 0
        BY <3>1, Spending, FS_EmptySet
      <3>3. /\ Max(Costs) \in Nat /\ Cardinality(Agents) * Max(Costs) \in Nat
            /\ Limit > 0 /\ Limit \in Nat
        BY Dearest, FewerClaims, LedgerAssumption
      <3>4. 0 * Max(Costs) = 0
        BY <3>3
      <3> QED
        BY <3>2, <3>3, <3>4 DEF Within
    <2>7. \A d \in 0..today : Within(DayOf(d), d = today)
      BY <2>6 DEF DayOf
    <2> QED
      BY <2>1, <2>2, <2>4, <2>7 DEF ClaimsAreCovered
  <1>2. TypeOK /\ NothingIsLater /\ ClaimsAreCovered => SpendIsBounded
    <2> SUFFICES ASSUME TypeOK, NothingIsLater, ClaimsAreCovered, policy = "present"
                 PROVE  SpendIsBounded
      BY DEF SpendIsBounded
    <2>1. ASSUME NEW W \in SUBSET Drafts, NEW open, Within(W, open)
          PROVE  Spent(ledger \cap W) < Limit + Cardinality(Agents) * Max(Costs)
      <3> DEFINE was == Cardinality(Claimed(W, open)) * Max(Costs)
                 most == Cardinality(Agents) * Max(Costs)
                 spent == Spent(ledger \cap W)
      <3>1. Claimed(W, open) \in SUBSET Agents
        BY DEF Claimed
      <3>2. was \in Nat /\ most \in Nat /\ spent \in Nat /\ Limit \in Nat
        BY <3>1, FewerClaims, WindowIsFinite
      <3>3. spent + was < Limit + most
        BY <2>1 DEF Within
      <3> HIDE DEF was, most, spent
      <3>4. spent < Limit + most
        BY <3>2, <3>3
      <3> QED
        BY <3>4 DEF most, spent
    <2>2. ledger \subseteq Drafts
      BY DEF TypeOK, Entries, Drafts, Stamps
    <2>3. CASE window = "daily"
      <3>1. ASSUME NEW d \in 0..today
            PROVE  Spent({e \in ledger : e.day = d}) < Limit + Cardinality(Agents) * Max(Costs)
        <4>1. DayOf(d) \in SUBSET Drafts /\ ledger \cap DayOf(d) = {e \in ledger : e.day = d}
          BY <2>2 DEF DayOf
        <4>2. Within(DayOf(d), d = today)
          BY <2>3, <3>1 DEF ClaimsAreCovered
        <4> QED
          BY <2>1, <4>1, <4>2
      <3> QED
        BY <2>3, <3>1 DEF SpendIsBounded, Spent
    <2>4. CASE window # "daily"
      <3>1. ASSUME ~raced, marker \in Stamps
            PROVE  Spent({e \in ledger : e.at >= marker}) < Limit + Cardinality(Agents) * Max(Costs)
        <4>1. window = "session" /\ marker \in Begun
          BY <2>4, <3>1 DEF TypeOK, Begun
        <4>2. /\ Since(marker) \in SUBSET Drafts
              /\ ledger \cap Since(marker) = {e \in ledger : e.at >= marker}
          BY <2>2 DEF Since
        <4>3. Within(Since(marker), TRUE)
          BY <3>1, <4>1 DEF ClaimsAreCovered
        <4> QED
          BY <2>1, <4>2, <4>3
      <3> QED
        BY <2>4, <3>1 DEF SpendIsBounded, Spent
    <2> QED
      BY <2>3, <2>4
  <1> QED
    BY <1>1, <1>2, TypeCorrect, OneMakerStep, NothingIsLaterStep, CoverStep, PTL DEF Spec
=============================================================================
