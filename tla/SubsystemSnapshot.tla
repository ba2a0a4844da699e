------------------------- MODULE SubsystemSnapshot -------------------------
(***************************************************************************)
(* The per-subsystem levels of a Logger (Logger.cpp): every record that is  *)
(* logged looks its subsystem up in a snapshot without taking a lock; a     *)
(* change, under the logger's DataLock, publishes a new snapshot.  Old ones *)
(* are kept until there are too many; then the writer bars new readers,     *)
(* waits for those inside and deletes all but the newest.                   *)
(*                                                                         *)
(* A snapshot is the number of its allocation; contents[n] is what was      *)
(* copied into it, Snapshots those not deleted.  The shutdown flag, which   *)
(* only stops SetSubsystemLevel, is left out.                              *)
(***************************************************************************)
EXTENDS Integers, Sequences, FiniteSets, FiniteSetsExt

CONSTANTS
  Readers,         \* threads that log
  Writers,         \* threads that change levels
  None,            \* no thread, no level, no snapshot
  Subsystems,
  Levels,
  SnapshotLimit,   \* SUBSYSTEM_LEVEL_SNAPSHOT_LIMIT
  MaxUpdates       \* bound on the number of changes

ASSUME ThreadsAssumption ==
  /\ IsFiniteSet(Readers)
  /\ Readers \cap Writers = {}
  /\ None \notin Readers \cup Writers \cup Subsystems \cup Levels
  /\ None \notin Nat

ASSUME NumbersAssumption == SnapshotLimit \in Nat \ {0} /\ MaxUpdates \in Nat

Tables == [Subsystems -> Levels \cup {None}]
Empty  == [sid \in Subsystems |-> None]

VARIABLES
  SubsystemLevels,
  contents,        \* every snapshot that was ever made
  Snapshots,       \* SubsystemLevelSnapshots: those not deleted, by number
  Active,          \* ActiveSubsystemLevelSnapshot
  Reclamation,     \* SubsystemLevelSnapshotReclamation
  ReaderCount,     \* SubsystemLevelSnapshotReaders
  dataLock,
  pc,
  asked,           \* the subsystem a reader asks for
  snapshot,        \* the snapshot a reader has acquired
  found,           \* the level a reader found in its snapshot
  answer,          \* what the last call of each reader returned
  updates,         \* history: the number of changes
  table,           \* history: the levels as the last change published them
  current          \* history: what table held during each reader's call

writing == <<SubsystemLevels, contents, Snapshots, dataLock, updates>>
reading == <<asked, snapshot, found, answer>>
history == <<table, current>>
vars    == <<writing, Active, Reclamation, ReaderCount, pc, reading, history>>

Threads == Readers \cup Writers

Goto(t, label) == pc' = [pc EXCEPT ![t] = label]

Init ==
  /\ SubsystemLevels = Empty
  /\ contents = <<>>
  /\ Snapshots = {}
  /\ Active = None
  /\ Reclamation = FALSE
  /\ ReaderCount = 0
  /\ dataLock = None
  /\ pc = [t \in Threads |-> "idle"]
  /\ asked = [r \in Readers |-> None]
  /\ snapshot = [r \in Readers |-> None]
  /\ found = [r \in Readers |-> None]
  /\ answer = [r \in Readers |-> None]
  /\ updates = 0
  /\ table = Empty
  /\ current = [r \in Readers |-> {}]

(* The history: the answer every call in progress may give from now on. *)
Publish ==
  /\ table' = SubsystemLevels
  /\ current' = [r \in Readers |->
                   IF asked[r] = None THEN current[r]
                   ELSE current[r] \cup {SubsystemLevels[asked[r]]}]

----------------------------------------------------------------------------
(* Variants of the steps below: an empty table that is not published, a    *)
(* limit off by one, a writer that does not wait and a reader that does    *)
(* not wait.                                                               *)

PublishKeepsEmpty(w) ==
  /\ pc[w] = "publish"
  /\ IF SubsystemLevels = Empty
     THEN UNCHANGED <<contents, Snapshots, Active>>
     ELSE /\ contents' = Append(contents, SubsystemLevels)
          /\ Snapshots' = Snapshots \cup {Len(contents) + 1}
          /\ Active' = Len(contents) + 1
  /\ Publish
  /\ Goto(w, "reclaim")
  /\ UNCHANGED <<SubsystemLevels, Reclamation, ReaderCount, dataLock, reading,
                 updates>>

ReclaimLate(w) ==
  /\ pc[w] = "reclaim"
  /\ IF Cardinality(Snapshots) <= SnapshotLimit + 1
     THEN /\ dataLock' = None
          /\ Goto(w, "idle")
          /\ UNCHANGED Reclamation
     ELSE /\ Reclamation' = TRUE
          /\ Goto(w, "drain")
          /\ UNCHANGED dataLock
  /\ UNCHANGED <<SubsystemLevels, contents, Snapshots, updates, Active,
                 ReaderCount, reading, history>>

DeleteAtOnce(w) ==
  /\ pc[w] = "drain"
  /\ Goto(w, "delete")
  /\ UNCHANGED <<writing, Active, Reclamation, ReaderCount, reading, history>>

EnterAnyway(r) ==
  /\ pc[r] = "spin"
  /\ Goto(r, "enter")
  /\ UNCHANGED <<writing, Active, Reclamation, ReaderCount, reading, history>>

----------------------------------------------------------------------------
(* Writers *)

Change(w, levels) ==
  /\ pc[w] = "idle"
  /\ dataLock = None
  /\ updates < MaxUpdates
  /\ SubsystemLevels' = levels
  /\ updates' = updates + 1
  /\ dataLock' = w
  /\ Goto(w, "publish")
  /\ UNCHANGED <<contents, Snapshots, Active, Reclamation, ReaderCount, reading,
                 history>>

SetSubsystemLevel(w, sid, level) ==
  Change(w, [SubsystemLevels EXCEPT ![sid] = level])

(* A subsystem without a level is left alone. *)
RemoveSubsystemLevel(w, sid) ==
  /\ SubsystemLevels[sid] # None
  /\ Change(w, [SubsystemLevels EXCEPT ![sid] = None])

ClearSubsystemLevels(w) == Change(w, Empty)

(* The copy is made, appended to the list and stored as active. *)
PublishSubsystemLevelSnapshot(w) ==
  /\ pc[w] = "publish"
  /\ IF SubsystemLevels = Empty
     THEN /\ Active' = None
          /\ UNCHANGED <<contents, Snapshots>>
     ELSE /\ contents' = Append(contents, SubsystemLevels)
          /\ Snapshots' = Snapshots \cup {Len(contents) + 1}
          /\ Active' = Len(contents) + 1
  /\ Publish
  /\ Goto(w, "reclaim")
  /\ UNCHANGED <<SubsystemLevels, Reclamation, ReaderCount, dataLock, reading,
                 updates>>

(* ReclaimSubsystemLevelSnapshots: nothing to do below the limit. *)
Reclaim(w) ==
  /\ pc[w] = "reclaim"
  /\ IF Cardinality(Snapshots) <= SnapshotLimit
     THEN /\ dataLock' = None
          /\ Goto(w, "idle")
          /\ UNCHANGED Reclamation
     ELSE /\ Reclamation' = TRUE
          /\ Goto(w, "drain")
          /\ UNCHANGED dataLock
  /\ UNCHANGED <<SubsystemLevels, contents, Snapshots, updates, Active,
                 ReaderCount, reading, history>>

(* The writer yields until it reads a zero. *)
WaitForReaders(w) ==
  /\ pc[w] = "drain"
  /\ ReaderCount = 0
  /\ Goto(w, "delete")
  /\ UNCHANGED <<writing, Active, Reclamation, ReaderCount, reading, history>>

(* back() of the list is kept, unless no snapshot is active. *)
DeleteSnapshots(w) ==
  /\ pc[w] = "delete"
  /\ Snapshots' = IF Active = None THEN {} ELSE {Max(Snapshots)}
  /\ Goto(w, "allow")
  /\ UNCHANGED <<SubsystemLevels, contents, dataLock, updates, Active,
                 Reclamation, ReaderCount, reading, history>>

AllowReaders(w) ==
  /\ pc[w] = "allow"
  /\ Reclamation' = FALSE
  /\ dataLock' = None
  /\ Goto(w, "idle")
  /\ UNCHANGED <<SubsystemLevels, contents, Snapshots, updates, Active,
                 ReaderCount, reading, history>>

----------------------------------------------------------------------------
(* Readers: GetSubsystemLevel *)

Ask(r, sid) ==
  /\ pc[r] = "idle"
  /\ asked' = [asked EXCEPT ![r] = sid]
  /\ current' = [current EXCEPT ![r] = {table[sid]}]
  /\ Goto(r, "test")
  /\ UNCHANGED <<writing, Active, Reclamation, ReaderCount, table, snapshot, found,
                 answer>>

Answer(r, level) ==
  /\ answer' = [answer EXCEPT ![r] = level]
  /\ asked' = [asked EXCEPT ![r] = None]
  /\ current' = [current EXCEPT ![r] = {}]
  /\ Goto(r, "idle")

(* AcquireSubsystemLevelSnapshot: without a snapshot nothing is acquired, *)
NoSnapshot(r) ==
  /\ pc[r] = "test"
  /\ Active = None
  /\ Answer(r, None)
  /\ UNCHANGED <<writing, Active, Reclamation, ReaderCount, table, snapshot, found>>

HasSnapshot(r) ==
  /\ pc[r] = "test"
  /\ Active # None
  /\ Goto(r, "spin")
  /\ UNCHANGED <<writing, Active, Reclamation, ReaderCount, reading, history>>

(* a reader waits while a writer deletes, enters, *)
WaitForWriter(r) ==
  /\ pc[r] = "spin"
  /\ ~ Reclamation
  /\ Goto(r, "enter")
  /\ UNCHANGED <<writing, Active, Reclamation, ReaderCount, reading, history>>

Enter(r) ==
  /\ pc[r] = "enter"
  /\ ReaderCount' = ReaderCount + 1
  /\ Goto(r, "entered")
  /\ UNCHANGED <<writing, Active, Reclamation, reading, history>>

(* and looks again: it goes on, or leaves and waits once more. *)
LookAgain(r) ==
  /\ pc[r] = "entered"
  /\ Goto(r, IF Reclamation THEN "back" ELSE "load")
  /\ UNCHANGED <<writing, Active, Reclamation, ReaderCount, reading, history>>

BackOff(r) ==
  /\ pc[r] = "back"
  /\ ReaderCount' = ReaderCount - 1
  /\ Goto(r, "spin")
  /\ UNCHANGED <<writing, Active, Reclamation, reading, history>>

LoadActive(r) ==
  /\ pc[r] = "load"
  /\ snapshot' = [snapshot EXCEPT ![r] = Active]
  /\ Goto(r, "find")
  /\ UNCHANGED <<writing, Active, Reclamation, ReaderCount, asked, found, answer,
                 history>>

(* The level is looked up, then the release of the snapshot. *)
Find(r) ==
  /\ pc[r] = "find"
  /\ Goto(r, "leave")
  /\ found' = [found EXCEPT ![r] = IF snapshot[r] = None THEN None
                                   ELSE contents[snapshot[r]][asked[r]]]
  /\ UNCHANGED <<writing, Active, Reclamation, ReaderCount, asked, snapshot,
                 answer, history>>

ReleaseSubsystemLevelSnapshot(r) ==
  /\ pc[r] = "leave"
  /\ ReaderCount' = ReaderCount - 1
  /\ snapshot' = [snapshot EXCEPT ![r] = None]
  /\ found' = [found EXCEPT ![r] = None]
  /\ Answer(r, found[r])
  /\ UNCHANGED <<writing, Active, Reclamation, table>>

----------------------------------------------------------------------------
WriterStep(w) ==
  \/ PublishSubsystemLevelSnapshot(w)
  \/ Reclaim(w)
  \/ WaitForReaders(w)
  \/ DeleteSnapshots(w)
  \/ AllowReaders(w)

ReaderStep(r) ==
  \/ NoSnapshot(r)
  \/ HasSnapshot(r)
  \/ WaitForWriter(r)
  \/ Enter(r)
  \/ LookAgain(r)
  \/ BackOff(r)
  \/ LoadActive(r)
  \/ Find(r)
  \/ ReleaseSubsystemLevelSnapshot(r)

Next ==
  \/ \E w \in Writers :
       \/ \E sid \in Subsystems, level \in Levels : SetSubsystemLevel(w, sid, level)
       \/ \E sid \in Subsystems : RemoveSubsystemLevel(w, sid)
       \/ ClearSubsystemLevels(w)
       \/ WriterStep(w)
  \/ \E r \in Readers : ReaderStep(r) \/ \E sid \in Subsystems : Ask(r, sid)

Fairness ==
  /\ \A w \in Writers : WF_vars(WriterStep(w))
  /\ \A r \in Readers : WF_vars(ReaderStep(r))

Spec == Init /\ [][Next]_vars /\ Fairness

----------------------------------------------------------------------------
(* Properties *)

WriterLabels == {"idle", "publish", "reclaim", "drain", "delete", "allow"}
ReaderLabels ==
  {"idle", "test", "spin", "enter", "entered", "back", "load", "find", "leave"}

TypeOK ==
  /\ SubsystemLevels \in Tables
  /\ contents \in Seq(Tables)
  /\ Snapshots \subseteq 1..Len(contents)
  /\ Active \in Nat \cup {None}
  /\ Reclamation \in BOOLEAN
  /\ ReaderCount \in Nat
  /\ dataLock \in Writers \cup {None}
  /\ pc \in [Threads -> WriterLabels \cup ReaderLabels]
  /\ \A w \in Writers : pc[w] \in WriterLabels
  /\ \A r \in Readers : pc[r] \in ReaderLabels
  /\ asked \in [Readers -> Subsystems \cup {None}]
  /\ snapshot \in [Readers -> Nat \cup {None}]
  /\ found \in [Readers -> Levels \cup {None}]
  /\ answer \in [Readers -> Levels \cup {None}]
  /\ updates \in Nat
  /\ table \in Tables
  /\ current \in [Readers -> SUBSET (Levels \cup {None})]

(***************************************************************************)
(* A snapshot is not deleted as long as a reader may follow its pointer to *)
(* it, nor while it is the active one.                                     *)
(***************************************************************************)
NoUseAfterReclaim ==
  /\ Active \in Snapshots \cup {None}
  /\ \A r \in Readers : pc[r] = "find" => snapshot[r] \in Snapshots \cup {None}

(***************************************************************************)
(* Snapshots do not pile up: one more than the limit while a change is     *)
(* being published, never more, whatever the readers do.                   *)
(***************************************************************************)
SnapshotsBounded == Cardinality(Snapshots) <= SnapshotLimit + 1

(***************************************************************************)
(* Every call answers with a level its subsystem had at some moment of the *)
(* call, although it may be preempted anywhere: readers and writers        *)
(* implement LevelTable.                                                   *)
(***************************************************************************)
LevelTableView == INSTANCE LevelTable
  WITH Threads <- Readers, answers <- current

ImplementsLevelTable == LevelTableView!Spec

(***************************************************************************)
(* A change that has begun ends: neither the readers inside nor those that *)
(* keep coming hold the writer up for ever.                                *)
(***************************************************************************)
ChangesEnd == \A w \in Writers : pc[w] # "idle" ~> pc[w] = "idle"
=============================================================================
