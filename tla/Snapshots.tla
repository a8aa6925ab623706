----------------------------- MODULE Snapshots -----------------------------
(***************************************************************************)
(* SnapshotManager (core/snapshot.py): what git keeps of a working tree    *)
(* before an agent changes it, and what a rollback brings back.  Agents    *)
(* share one repository and one .goldenboy/snapshots.jsonl; a create is    *)
(* three steps others can come between (git rev-parse HEAD, git stash      *)
(* create, the append), and between a snapshot and a rollback anybody      *)
(* edits, commits or has git collect its garbage.                          *)
(***************************************************************************)
EXTENDS Integers, Sequences, FiniteSets

CONSTANTS Agents, Files, Contents,
          Gone,          \* the content of a file that is not there
          None,          \* no stash object
          Words,         \* what git printed in place of one
          Broken,        \* a line that is not a snapshot
          MaxChanges, MaxSnapshots, MaxCuts     \* bounds

Trees == [Files -> Contents \cup {Gone}]        \* what a commit has of each file

(* was and sound are history: what git saw of the files at the git stash   *)
(* create, and whether git did what it was asked (see StashCreate).        *)
Snapshot == [id : Nat, head : Trees, stash : Nat \cup {None, Words}, was : Trees, sound : BOOLEAN]

ASSUME SnapshotAssumption ==
    /\ Gone \notin Contents
    /\ None \notin Nat /\ Words \notin Nat /\ None # Words
    /\ Broken \notin Snapshot
    /\ MaxChanges \in Nat /\ MaxSnapshots \in Nat /\ MaxCuts \in Nat

VARIABLES head,      \* the commit that is checked out
          tree,      \* the working tree
          index,     \* what is staged; a file that is not in it is untracked
          unmerged,  \* the files that a merge left in conflict
          objects,   \* the trees of the stash objects, in the order they were made
          pruned,    \* the stash objects git gc has removed: no ref leads to them
          lines,     \* snapshots.jsonl: a snapshot, or Broken, per line
          cutShort,  \* its last line has no end
          clock,     \* milliseconds: an id is one
          pc,        \* Agents -> "idle", "head" (has read HEAD), "append" (has the stash)
          making,    \* Agents -> the snapshot being made; its id is the time it was begun
          created,   \* history: what create() returned, in that order
          overlap,   \* history: two creates have overlapped
          changes, cuts

worktree == <<head, tree, index, unmerged>>
log == <<lines, cutShort, created, cuts>>
calls == <<clock, pc, making, overlap>>
vars == <<worktree, objects, pruned, log, calls, changes>>

(* What git sees of the working tree: untracked files do not exist.        *)
Seen == [f \in Files |-> IF index[f] # Gone THEN tree[f] ELSE Gone]

Dirty == Seen # head \/ index # head \/ unmerged # {}

(* list(): the lines that can be parsed. *)
Listed == {i \in DOMAIN lines : lines[i] # Broken}

(* latest() *)
IsLatest(i) == i \in Listed /\ \A j \in Listed : j <= i

(* get(id): the first with that id. *)
IsFound(i, id) ==
    /\ i \in Listed /\ lines[i].id = id
    /\ \A j \in Listed : lines[j].id = id => i <= j

RestoreFrom_Head(s) == s.head

(* A clean snapshot is its HEAD, any other its stash object.               *)
RestoreFrom(s) == IF s.stash = None THEN s.head ELSE objects[s.stash]

(* An id is the time in milliseconds. *)
IdAt(t) == t

Idle(a) == pc[a] = "idle"

Nothing == [f \in Files |-> Gone]

Begun(id, commit) ==
    [id |-> id, head |-> commit, stash |-> None, was |-> Nothing, sound |-> FALSE]

Blank == Begun(0, Nothing)

-----------------------------------------------------------------------------
Init == /\ \E f \in Files, c \in Contents : head = [Nothing EXCEPT ![f] = c]
        /\ tree = head /\ index = head
        /\ unmerged = {}
        /\ objects = <<>> /\ pruned = {}
        /\ lines = <<>> /\ cutShort = FALSE
        /\ clock = 0
        /\ pc = [a \in Agents |-> "idle"]
        /\ making = [a \in Agents |-> Blank]
        /\ created = <<>> /\ overlap = FALSE
        /\ changes = 0 /\ cuts = 0

(* What happens to the repository besides. *)
Change == /\ changes < MaxChanges /\ changes' = changes + 1
          /\ UNCHANGED <<objects, log, calls>>

(* An agent, or the user, writes, makes or deletes a file.                 *)
Edit(f) ==
    /\ Change
    /\ \E c \in (Contents \cup {Gone}) \ {tree[f]} : tree' = [tree EXCEPT ![f] = c]
    /\ UNCHANGED <<head, index, unmerged, pruned>>

(* git add, of a file that was changed, made or deleted. *)
AddFile(f) ==
    /\ Change
    /\ tree[f] # index[f]
    /\ index' = [index EXCEPT ![f] = tree[f]]
    /\ unmerged' = unmerged \ {f}
    /\ UNCHANGED <<head, tree, pruned>>

(* git commit -a, which also ends a merge. *)
Commit ==
    /\ Change
    /\ Dirty
    /\ head' = Seen /\ index' = Seen
    /\ unmerged' = {}
    /\ UNCHANGED <<tree, pruned>>

(* A merge stops with a conflict in a file, which it has changed.          *)
Conflict(f) ==
    /\ Change
    /\ ~Dirty /\ head[f] # Gone
    /\ \E c \in Contents \ {tree[f]} : tree' = [tree EXCEPT ![f] = c]
    /\ unmerged' = {f}
    /\ UNCHANGED <<head, index, pruned>>

(* git gc, when the objects are old enough. *)
CollectGarbage ==
    /\ Change
    /\ pruned # DOMAIN objects
    /\ pruned' = DOMAIN objects
    /\ UNCHANGED worktree

-----------------------------------------------------------------------------
(* create(): git rev-parse HEAD. *)
ReadHead(a) ==
    /\ Idle(a) /\ Len(lines) + Cardinality({b \in Agents : ~Idle(b)}) < MaxSnapshots
    /\ making' = [making EXCEPT ![a] = Begun(clock, head)]
    /\ pc' = [pc EXCEPT ![a] = "head"]
    /\ overlap' = (overlap \/ \E b \in Agents : ~Idle(b))
    /\ UNCHANGED <<worktree, objects, pruned, log, clock, changes>>

(* What git stash create prints: the stash object, nothing when there is   *)
(* nothing to stash or it cannot have the index (another git holds its     *)
(* lock), and some words when there are conflicts.                         *)
Printed ==
    IF ~Dirty THEN {None}
    ELSE {None} \cup IF unmerged = {} THEN {Len(objects) + 1} ELSE {Words}

(* create(): git stash create, whose failure is not looked at, and the id  *)
(* from the clock.  Starting git took longer than a millisecond.  The      *)
(* snapshot is sound if git found no reason to fail, and nobody committed  *)
(* since HEAD was read of what is now a clean tree.                        *)
StashCreate(a) ==
    /\ pc[a] = "head"
    /\ clock' \in {clock, clock + 1} /\ clock' > making[a].id
    /\ \E stash \in Printed :
          /\ objects' = IF stash \in Nat THEN Append(objects, Seen) ELSE objects
          /\ making' = [making EXCEPT ![a] =
                [id |-> IdAt(clock'), head |-> making[a].head, stash |-> stash, was |-> Seen,
                 sound |-> stash \in Nat \/ (~Dirty /\ making[a].head = head)]]
    /\ pc' = [pc EXCEPT ![a] = "append"]
    /\ UNCHANGED <<worktree, pruned, log, overlap, changes>>

(* A line after one that was cut short joins it.                           *)
WithLine_Newest(line) == <<line>> \o lines

WithLine(line) ==
    IF cutShort THEN [lines EXCEPT ![Len(lines)] = Broken] ELSE Append(lines, line)

Ends(a) == /\ pc' = [pc EXCEPT ![a] = "idle"]
           /\ making' = [making EXCEPT ![a] = Blank]
           /\ UNCHANGED <<worktree, objects, pruned, clock, overlap, changes>>

AppendLine_NoNewline(a) ==
    /\ pc[a] = "append"
    /\ lines' = WithLine(making[a])
    /\ cutShort' = TRUE
    /\ created' = Append(created, making[a])
    /\ UNCHANGED cuts
    /\ Ends(a)

(* create() returns. *)
AppendLine(a) ==
    /\ pc[a] = "append"
    /\ lines' = WithLine(making[a])
    /\ cutShort' = FALSE
    /\ created' = Append(created, making[a])
    /\ UNCHANGED cuts
    /\ Ends(a)

(* The process is killed, or the disk is full: nothing of the line is      *)
(* written, a part of it, or all but its end.                              *)
CreateFails(a) ==
    /\ ~Idle(a) /\ cuts < MaxCuts
    /\ \/ UNCHANGED <<lines, cutShort>>
       \/ /\ pc[a] = "append"
          /\ lines' \in {WithLine(Broken), WithLine(making[a])}
          /\ cutShort' = TRUE
    /\ cuts' = cuts + 1
    /\ UNCHANGED created
    /\ Ends(a)

-----------------------------------------------------------------------------
(* git checkout <sha> -- . *)
Checkout(from) ==
    LET has == {f \in Files : from[f] # Gone}
    IN  /\ has # {}
        /\ tree' = [f \in Files |-> IF f \in has THEN from[f] ELSE tree[f]]
        /\ index' = [f \in Files |-> IF f \in has THEN from[f] ELSE index[f]]
        /\ unmerged' = unmerged \ has

(* rollback(); a stash object that is gone, or none, raises, and nothing   *)
(* is done.                                                                *)
Rollback(a, s) ==
    /\ Idle(a)
    /\ s.stash \notin pruned \cup {Words}
    /\ UNCHANGED <<head, objects, pruned, log, calls, changes>>
    /\ Checkout(RestoreFrom(s))

(* snapshot rollback, and snapshot verify --rollback-on-fail               *)
RollbackLatest(a) == \E i \in Listed : IsLatest(i) /\ Rollback(a, lines[i])

(* snapshot rollback --id *)
RollbackTo(a, id) == \E i \in Listed : IsFound(i, id) /\ Rollback(a, lines[i])

Next == \/ \E f \in Files : Edit(f) \/ AddFile(f) \/ Conflict(f)
        \/ Commit \/ CollectGarbage
        \/ \E a \in Agents :
              \/ ReadHead(a) \/ StashCreate(a) \/ AppendLine(a) \/ CreateFails(a)
              \/ RollbackLatest(a)
              \/ \E id \in 1..clock : RollbackTo(a, id)

Spec == Init /\ [][Next]_vars

-----------------------------------------------------------------------------
Named(s) == s.id \in 1..clock /\ (s.stash \in Nat => s.stash \in DOMAIN objects)

(* Every variable has its type, and a snapshot that is listed or about to  *)
(* be has an id, and the stash object it names.                            *)
TypeOK ==
    /\ head \in Trees /\ tree \in Trees /\ index \in Trees /\ unmerged \subseteq Files
    /\ objects \in Seq(Trees) /\ pruned \subseteq DOMAIN objects
    /\ lines \in Seq(Snapshot \cup {Broken}) /\ cutShort \in BOOLEAN /\ (cutShort => lines # <<>>)
    /\ clock \in Nat /\ pc \in [Agents -> {"idle", "head", "append"}]
    /\ making \in [Agents -> Snapshot]
    /\ created \in Seq(Snapshot) /\ overlap \in BOOLEAN
    /\ changes \in 0..MaxChanges /\ cuts \in 0..MaxCuts
    /\ \A i \in Listed : Named(lines[i])
    /\ \A a \in Agents : pc[a] = "append" => Named(making[a])

Restored(s) ==
    /\ tree' = [f \in Files |-> IF s.was[f] # Gone THEN s.was[f] ELSE tree[f]]
    /\ head' = head

(* A rollback brings back every file as git saw it when the snapshot was   *)
(* made, whatever was edited, added, deleted and committed since, and      *)
(* leaves alone the files git did not see then and the commit that is      *)
(* checked out.  Only of a sound snapshot (see StashCreate).               *)
RollbackRestores ==
    [][\A i \in Listed, a \in Agents :
          lines[i].sound /\ Rollback(a, lines[i]) => Restored(lines[i])]_vars

(* An append that was cut short costs one later snapshot at most: all the  *)
(* others create() returned are listed, for ever.                          *)
CutsCostOneEach ==
    Cardinality({i \in DOMAIN created : \A j \in Listed : lines[j] # created[i]}) <= cuts

(* As long as no two creates overlap and none is cut short, the latest     *)
(* snapshot is the one create() last returned, and an id means one         *)
(* snapshot.                                                               *)
LatestIsLastCreated ==
    ~overlap /\ cuts = 0 =>
        /\ lines = created
        /\ \A i, j \in DOMAIN created : i < j => created[i].id < created[j].id
=============================================================================
