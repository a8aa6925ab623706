----------------------------- MODULE LoopWatch -----------------------------
(***************************************************************************)
(* LoopDetector (core/loop_detection.py) and the heartbeat that looks over *)
(* its shoulder (core/heartbeat.py).  Agents keep retrying a call that     *)
(* fails in the same way and record each attempt; the detector counts them *)
(* in .goldenboy/loop_state.json and says when to stop.  Each record is a  *)
(* process of its own, nothing locks the file, and it is rewritten in      *)
(* place: read, open for writing (which empties the file), write.          *)
(***************************************************************************)
EXTENDS Integers

CONSTANTS Agents, Signatures,
          Threshold,                \* of each agent's detector: --threshold, or the configured one
          LoopRepeatThreshold,      \* config.loop_repeat_threshold, which the heartbeat reads
          Absent, Empty, Torn,      \* no file; an empty one; one that is not JSON
          MaxResets, MaxCrashes     \* bounds

Counts == [Signatures -> Nat]       \* LoopEntry.count, 0 where there is no entry

ASSUME LoopAssumption ==
    /\ Threshold \in [Agents -> Nat \ {0}] /\ LoopRepeatThreshold \in Nat \ {0}
    /\ Absent \notin Counts /\ Empty \notin Counts /\ Torn \notin Counts
    /\ Absent # Empty /\ Absent # Torn /\ Empty # Torn
    /\ MaxResets \in Nat /\ MaxCrashes \in Nat

VARIABLES file,
          call,      \* Agents -> the signature of the attempt the agent repeats
          pc,        \* Agents -> "ready" to try again, "save" (has read), "write" (has
                     \*           emptied the file), "raised", "stopped"
          held,      \* Agents -> the counts it is about to write
          handle,    \* Agents -> "open" on the file, or on one that was since "removed"
          resets, crashes,
          tried,     \* history: the attempts that were begun, per signature
          recorded,  \* history: the records that returned since the last reset
          alone      \* history: since a reset no two records have overlapped

vars == <<file, call, pc, held, handle, resets, crashes, tried, recorded, alone>>

Unreadable == {Empty, Torn}

None == [s \in Signatures |-> 0]

(* _load, when it does not raise. *)
Loaded_InMemory == None

Loaded == IF file = Absent THEN None ELSE file

Counted_FirstOnly(counts, s) == [counts EXCEPT ![s] = 1]

Counted(counts, s) == [counts EXCEPT ![s] = @ + 1]

ShouldStop_Early(count, threshold) == count + 1 >= threshold

ShouldStop(count, threshold) == count >= threshold

Between(a) == pc[a] \in {"ready", "raised", "stopped"}

OthersIdle(a) == \A b \in Agents \ {a} : Between(b)

(* _loop_stop_pending: what cannot be read has nothing pending.            *)
StopPending_Beyond == {s \in Signatures : file \in Counts /\ Loaded[s] > LoopRepeatThreshold}

StopPending == {s \in Signatures : file \in Counts /\ ShouldStop(Loaded[s], LoopRepeatThreshold)}

Closes(a) == handle' = [handle EXCEPT ![a] = "closed"]

-----------------------------------------------------------------------------
Init == /\ file = Absent
        /\ call \in [Agents -> Signatures]
        /\ pc = [a \in Agents |-> "ready"]
        /\ held = [a \in Agents |-> None]
        /\ handle = [a \in Agents |-> "closed"]
        /\ resets = 0 /\ crashes = 0
        /\ tried = None /\ recorded = None
        /\ alone = TRUE

(* record() up to _save. *)
Load(a) ==
    /\ pc[a] \in {"ready", "raised"} /\ file \notin Unreadable
    /\ held' = [held EXCEPT ![a] = Counted(Loaded, call[a])]
    /\ tried' = Counted(tried, call[a])
    /\ pc' = [pc EXCEPT ![a] = "save"]
    /\ alone' = (alone /\ OthersIdle(a))
    /\ UNCHANGED <<file, call, handle, resets, crashes, recorded>>

(* An empty or torn file raises LoopStateError: there is no verdict.       *)
LoadFails(a) ==
    /\ pc[a] = "ready" /\ file \in Unreadable
    /\ pc' = [pc EXCEPT ![a] = "raised"]
    /\ UNCHANGED <<file, call, held, handle, resets, crashes, tried, recorded, alone>>

(* open(state_file, "w") *)
Truncate(a) ==
    /\ pc[a] = "save"
    /\ file' = Empty
    /\ handle' = [handle EXCEPT ![a] = "open"]
    /\ pc' = [pc EXCEPT ![a] = "write"]
    /\ UNCHANGED <<call, held, resets, crashes, tried, recorded, alone>>

(* What the file holds once a's document is written at its start: over a   *)
(* document somebody else wrote meanwhile, the end of a longer one stays.  *)
Written(a) ==
    IF handle[a] = "removed" THEN {file}
    ELSE IF file = Empty THEN {held[a]}
    ELSE {held[a], Torn}

(* The file is closed and record() returns its verdict; an agent told to   *)
(* stop does.                                                              *)
Write(a) ==
    /\ pc[a] = "write"
    /\ file' \in Written(a)
    /\ recorded' = Counted(recorded, call[a])
    /\ pc' = [pc EXCEPT ![a] =
                 IF ShouldStop(held[a][call[a]], Threshold[a]) THEN "stopped" ELSE "ready"]
    /\ held' = [held EXCEPT ![a] = None]
    /\ Closes(a)
    /\ UNCHANGED <<call, resets, crashes, tried, alone>>

(* reset(), when a new task is started: agents that had stopped begin      *)
(* again, maybe with another call; those in the middle of a record go on.  *)
Reset(a) ==
    /\ Between(a) /\ resets < MaxResets
    /\ file' = Absent
    /\ handle' = [b \in Agents |-> IF handle[b] = "open" THEN "removed" ELSE handle[b]]
    /\ pc' = [b \in Agents |-> IF Between(b) THEN "ready" ELSE pc[b]]
    /\ \E s \in Signatures : call' = [call EXCEPT ![a] = s]
    /\ resets' = resets + 1
    /\ recorded' = None
    /\ alone' = OthersIdle(a)
    /\ UNCHANGED <<held, crashes, tried>>

(* The process is killed, or its write raises; the agent tries again.  The *)
(* document is smaller than a buffer: nothing of it is in the file.        *)
Crash(a) ==
    /\ ~Between(a) /\ crashes < MaxCrashes
    /\ pc' = [pc EXCEPT ![a] = "ready"]
    /\ held' = [held EXCEPT ![a] = None]
    /\ Closes(a)
    /\ crashes' = crashes + 1
    /\ UNCHANGED <<file, call, resets, tried, recorded, alone>>

Attempt(a) == Load(a) \/ LoadFails(a) \/ Truncate(a) \/ Write(a)

Next == \E a \in Agents : Attempt(a) \/ Reset(a) \/ Crash(a)

(* An agent that is not told to stop tries again: RetriesEnd is about such *)
(* agents.  Nobody has to reset or to crash.                               *)
Fairness == \A a \in Agents : WF_vars(Attempt(a))

Spec == Init /\ [][Next]_vars /\ Fairness

-----------------------------------------------------------------------------
(* Every variable has its type; a handle is open only while writing, and   *)
(* the empty file between the two halves of a save is somebody's.          *)
TypeOK ==
    /\ file \in Counts \cup {Absent, Empty, Torn}
    /\ call \in [Agents -> Signatures]
    /\ pc \in [Agents -> {"ready", "save", "write", "raised", "stopped"}]
    /\ held \in [Agents -> Counts]
    /\ handle \in [Agents -> {"closed", "open", "removed"}]
    /\ \A a \in Agents : handle[a] # "closed" <=> pc[a] = "write"
    /\ resets \in 0..MaxResets /\ crashes \in 0..MaxCrashes
    /\ tried \in Counts /\ recorded \in Counts
    /\ alone \in BOOLEAN

(* However records overlap, crash or are reset, no agent is told to stop   *)
(* a call that was not tried as often as its threshold allows: what is     *)
(* lost makes the stop late, never early.                                  *)
StopIsEarned ==
    \A a \in Agents : pc[a] = "stopped" => tried[call[a]] >= Threshold[a]

(* As long as no two records overlap, none is lost and none counted twice: *)
(* the file holds the records since the reset, unless a crash emptied it.  *)
CountsRecords ==
    alone => /\ file \notin Unreadable => Loaded = recorded
             /\ file # Torn

(* Once every agent has stopped, however their records overlapped, the     *)
(* heartbeat has a reason to wake: the last document written is that of an *)
(* agent that stopped.  The file must be readable, and no detector been    *)
(* given a threshold below the one the heartbeat knows.                    *)
StopIsSeen ==
    /\ \A a \in Agents : pc[a] = "stopped" /\ Threshold[a] >= LoopRepeatThreshold
    /\ file \in Counts
    => StopPending # {}

(* Nobody retries for ever: agents that overwrite each other's counts are  *)
(* told to stop in the end, or nobody can record any more.                 *)
RetriesEnd ==
    <>[](file \in Unreadable \/ \A a \in Agents : pc[a] = "stopped")
=============================================================================
