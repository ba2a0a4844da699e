---------------------------- MODULE LoggerProofs ----------------------------
(***************************************************************************)
(* Theorems about two parts of the logger itself, for any value of the      *)
(* constants: the snapshots of the subsystems' levels (SubsystemSnapshot)    *)
(* and the control server (ControlServer).                                  *)
(*                                                                         *)
(* Safety of the subsystem snapshots for any number of readers, writers,   *)
(* subsystems, levels and changes, and any limit above zero.  The          *)
(* argument: DataLock makes the writer unique; ReaderCount is the number of *)
(* readers inside, so a writer that has read a zero is alone with what it   *)
(* deletes; who enters afterwards sees Reclamation and backs off; and the   *)
(* snapshot that is kept is the newest, hence the active one.              *)
(*                                                                         *)
(* In the control server a descriptor is reused as soon as it is free, and a *)
(* handler holds on to its number.  It keeps its own connection because only  *)
(* the listener closes sockets, and before it shuts down it closes those of   *)
(* handlers that have ended: an entry and its socket come and go together     *)
(* (EntriesKnown, SocketsKnown, LiveKnown).  A connection is accepted once:   *)
(* what waits in the backlog has no handler and no descriptor (BacklogNew,    *)
(* FutureNew).  That nothing is left follows from what is known of the        *)
(* threads and of the server's socket in every step of StopControlServer      *)
(* (ServerKnown).                                                            *)
(***************************************************************************)
EXTENDS SubsystemSnapshot, ControlServer, SequenceTheorems, FiniteSetTheorems,
        WellFoundedInduction, TLAPS

(* The writer that has begun a change holds the lock. *)
Mutual == \A w \in Writers : pc[w] # "idle" <=> dataLock = w

(* Readers are barred from the decision to delete to the end of it. *)
Barrier ==
  Reclamation <=> \E w \in Writers : pc[w] \in {"drain", "delete", "allow"}

Inside == {r \in Readers : pc[r] \in {"entered", "back", "load", "find", "leave"}}

Counted == ReaderCount = Cardinality(Inside)

(* No reader has or takes a pointer while snapshots are deleted. *)
Drained ==
  \A w \in Writers : pc[w] \in {"delete", "allow"} =>
    \A r \in Readers : pc[r] \notin {"load", "find", "leave"}

(* What a writer keeps, the greatest number, is the active snapshot. *)
Newest == Active # None => Active \in Snapshots /\ \A n \in Snapshots : n <= Active

Held == \A r \in Readers : pc[r] = "find" => snapshot[r] \in Snapshots \cup {None}

(* Only a change that is not over may exceed the limit. *)
Room ==
  /\ Cardinality(Snapshots) <= SnapshotLimit + 1
  /\ dataLock = None => Cardinality(Snapshots) <= SnapshotLimit
  /\ \A w \in Writers :
       pc[w] \in {"publish", "allow"} => Cardinality(Snapshots) <= SnapshotLimit

(* The numbers that stand for pointers are those of snapshots made. *)
Numbers ==
  /\ Active \in 1..Len(contents) \cup {None}
  /\ \A r \in Readers : snapshot[r] \in 1..Len(contents) \cup {None}

Asking == \A r \in Readers : asked[r] # None <=> pc[r] # "idle"

LevelsOf(n) == IF n = None THEN Empty ELSE contents[n]

(* What a reader has found or will find in its snapshot was current. *)
Answers ==
  /\ table = LevelsOf(Active)
  /\ \A r \in Readers :
       /\ pc[r] # "idle" => table[asked[r]] \in current[r]
       /\ pc[r] = "find" => LevelsOf(snapshot[r])[asked[r]] \in current[r]
       /\ pc[r] = "leave" => found[r] \in current[r]

Control == Mutual /\ Barrier /\ Drained
Memory  == Newest /\ Held /\ Room
Calls   == Numbers /\ Asking /\ Answers

IInv == TypeOK /\ Control /\ Counted /\ Memory /\ Calls

USE ThreadsAssumption, NumbersAssumption

----------------------------------------------------------------------------
LEMMA InitIInv == Init => IInv
<1> SUFFICES ASSUME Init PROVE IInv
  OBVIOUS
<1>1. TypeOK
  <2>1. Empty \in Tables
    BY DEF Empty, Tables
  <2>2. contents \in Seq(Tables) /\ Snapshots \subseteq 1..Len(contents)
    BY EmptySeq DEF Init
  <2> QED
    BY <2>1, <2>2 DEF Init, TypeOK, Threads, WriterLabels, ReaderLabels
<1>2. Control
  BY DEF Init, Control, Mutual, Barrier, Drained, Threads
<1>3. Inside = {} /\ Cardinality({}) = 0
  BY FS_EmptySet DEF Init, Inside, Threads
<1>4. Counted /\ Memory
  BY <1>3 DEF Init, Counted, Memory, Newest, Held, Room, Threads
<1>5. Calls
  BY DEF Init, Calls, Numbers, Asking, Answers, LevelsOf, Threads, Empty
<1> QED
  BY <1>1, <1>2, <1>4, <1>5 DEF IInv

(* Every step is a change that begins, a step of a writer or of a reader,  *)
(* or leaves the state as it is.                                           *)
LEMMA Steps ==
  ASSUME TypeOK, [Next]_vars
  PROVE  \/ \E w \in Writers, levels \in Tables : Change(w, levels)
         \/ \E w \in Writers : WriterStep(w)
         \/ \E r \in Readers : ReaderStep(r) \/ \E sid \in Subsystems : Ask(r, sid)
         \/ UNCHANGED vars
<1>1. Empty \in Tables
  BY DEF Tables, Empty
<1>2. \A sid \in Subsystems, level \in Levels \cup {None} :
        [SubsystemLevels EXCEPT ![sid] = level] \in Tables
  BY DEF TypeOK, Tables
<1> QED
  BY <1>1, <1>2 DEF Next, SetSubsystemLevel, RemoveSubsystemLevel, ClearSubsystemLevels

(* The snapshot a writer keeps is the active one. *)
LEMMA KeptIsActive ==
  ASSUME TypeOK, Newest, Active # None
  PROVE  Active \in Snapshots /\ Max(Snapshots) = Active
<1>1. Snapshots \subseteq Nat
  BY LenProperties DEF TypeOK
<1>2. Active \in Snapshots /\ \A n \in Snapshots : Active >= n
  BY <1>1 DEF Newest
<1>3. Max(Snapshots) \in Snapshots /\ \A n \in Snapshots : Max(Snapshots) >= n
  BY <1>2 DEF Max
<1>4. /\ Active \in Nat /\ Max(Snapshots) \in Nat
      /\ Max(Snapshots) >= Active /\ Active >= Max(Snapshots)
  BY <1>1, <1>2, <1>3
<1>5. Max(Snapshots) = Active
  BY <1>4
<1> QED
  BY <1>2, <1>5

LEMMA InsideFinite == IsFiniteSet(Inside) /\ Cardinality(Inside) \in Nat
  BY FS_Subset, FS_CardinalityType DEF Inside

(* A reader inside is counted. *)
LEMMA InsideCounted ==
  ASSUME TypeOK, Counted, NEW r \in Inside
  PROVE  /\ ReaderCount - 1 \in Nat
         /\ ReaderCount - 1 = Cardinality(Inside \ {r})
<1>1. Cardinality(Inside \ {r}) = Cardinality(Inside) - 1
  BY InsideFinite, FS_RemoveElement
<1>2. Cardinality(Inside \ {r}) \in Nat
  BY InsideFinite, FS_RemoveElement, FS_CardinalityType
<1> QED
  BY <1>1, <1>2 DEF Counted

----------------------------------------------------------------------------
(* TypeOK *)
LEMMA TypeStep ==
  ASSUME IInv, [Next]_vars
  PROVE  TypeOK'
<1>1. ASSUME NEW w \in Writers, NEW levels \in Tables, Change(w, levels)
      PROVE  TypeOK'
  BY <1>1 DEF IInv, TypeOK, Threads, WriterLabels, ReaderLabels, Change,
    writing, reading, Goto, history
<1>2. ASSUME NEW w \in Writers, PublishSubsystemLevelSnapshot(w)
      PROVE  TypeOK'
  <2>1. contents' \in Seq(Tables) /\ Len(contents) <= Len(contents')
        /\ Snapshots' \subseteq 1..Len(contents')
    <3>1. Len(contents) \in Nat
      BY LenProperties DEF IInv, TypeOK
    <3>2. CASE SubsystemLevels = Empty
      <4>1. contents' = contents /\ Snapshots' = Snapshots
        BY <1>2, <3>2 DEF PublishSubsystemLevelSnapshot
      <4> QED
        BY <3>1, <4>1 DEF IInv, TypeOK
    <3>3. CASE SubsystemLevels # Empty
      <4>1. /\ contents' = Append(contents, SubsystemLevels)
            /\ Snapshots' = Snapshots \cup {Len(contents) + 1}
        BY <1>2, <3>3 DEF PublishSubsystemLevelSnapshot
      <4>2. contents' \in Seq(Tables) /\ Len(contents') = Len(contents) + 1
        BY <4>1, AppendProperties DEF IInv, TypeOK
      <4>3. Snapshots \subseteq 1..Len(contents)
        BY DEF IInv, TypeOK
      <4>4. \A n \in 1..Len(contents) : n \in 1..(Len(contents) + 1)
        BY <3>1
      <4>5. Len(contents) + 1 \in 1..(Len(contents) + 1)
        BY <3>1
      <4>6. Snapshots' \subseteq 1..(Len(contents) + 1)
        BY <4>1, <4>3, <4>4, <4>5, Zenon
      <4> QED
        BY <3>1, <4>2, <4>6
    <3> QED
      BY <3>2, <3>3
  <2>2. Active' \in Nat \cup {None}
    BY <1>2, LenProperties DEF IInv, TypeOK, PublishSubsystemLevelSnapshot
  <2>3. table' \in Tables /\ current' \in [Readers -> SUBSET (Levels \cup {None})]
    BY <1>2 DEF IInv, TypeOK, PublishSubsystemLevelSnapshot, Publish, Tables
  <2> QED
    BY <1>2, <2>1, <2>2, <2>3 DEF IInv, TypeOK, Threads, WriterLabels, ReaderLabels,
      PublishSubsystemLevelSnapshot, reading, Goto
<1>3. ASSUME NEW w \in Writers, Reclaim(w)
      PROVE  TypeOK'
  <2>1. /\ dataLock' = dataLock \/ dataLock' = None
        /\ Reclamation' = Reclamation \/ Reclamation' = TRUE
        /\ Goto(w, "idle") \/ Goto(w, "drain")
    BY <1>3, Zenon DEF Reclaim
  <2>2. /\ pc' \in [Threads -> WriterLabels \cup ReaderLabels]
        /\ \A t \in Writers : pc'[t] \in WriterLabels
        /\ \A t \in Readers : pc'[t] \in ReaderLabels
    BY <2>1 DEF IInv, TypeOK, Threads, WriterLabels, ReaderLabels, Goto
  <2> QED
    BY <1>3, <2>1, <2>2 DEF IInv, TypeOK, Reclaim, reading, history
<1>4. ASSUME NEW w \in Writers, WaitForReaders(w)
      PROVE  TypeOK'
  BY <1>4 DEF IInv, TypeOK, Threads, WriterLabels, ReaderLabels,
    WaitForReaders, writing, reading, Goto, history
<1>5. ASSUME NEW w \in Writers, DeleteSnapshots(w)
      PROVE  TypeOK'
  <2>1. Snapshots' \subseteq Snapshots
    BY <1>5, KeptIsActive DEF IInv, Memory, DeleteSnapshots
  <2> QED
    BY <1>5, <2>1 DEF IInv, TypeOK, Threads, WriterLabels, ReaderLabels,
      DeleteSnapshots, reading, history, Goto
<1>6. ASSUME NEW w \in Writers, AllowReaders(w)
      PROVE  TypeOK'
  BY <1>6 DEF IInv, TypeOK, Threads, WriterLabels, ReaderLabels, AllowReaders,
    writing, reading, Goto, history
<1>7. ASSUME NEW r \in Readers, NEW sid \in Subsystems, Ask(r, sid)
      PROVE  TypeOK'
  <2>1. current' \in [Readers -> SUBSET (Levels \cup {None})]
    BY <1>7 DEF IInv, TypeOK, Ask, Tables
  <2> QED
    BY <1>7, <2>1 DEF IInv, TypeOK, Threads, WriterLabels, ReaderLabels, Ask, writing,
      Goto
<1>8. ASSUME NEW r \in Readers, NoSnapshot(r)
      PROVE  TypeOK'
  BY <1>8 DEF IInv, TypeOK, Threads, WriterLabels, ReaderLabels, NoSnapshot,
    writing, reading, Goto, Answer
<1>9. ASSUME NEW r \in Readers, HasSnapshot(r)
      PROVE  TypeOK'
  BY <1>9 DEF IInv, TypeOK, Threads, WriterLabels, ReaderLabels, HasSnapshot,
    writing, reading, Goto, history
<1>10. ASSUME NEW r \in Readers, WaitForWriter(r)
      PROVE  TypeOK'
  BY <1>10 DEF IInv, TypeOK, Threads, WriterLabels, ReaderLabels,
    WaitForWriter, writing, reading, Goto, history
<1>11. ASSUME NEW r \in Readers, Enter(r)
      PROVE  TypeOK'
  BY <1>11 DEF IInv, TypeOK, Threads, WriterLabels, ReaderLabels, Enter,
    writing, reading, Goto, history
<1>12. ASSUME NEW r \in Readers, LookAgain(r)
      PROVE  TypeOK'
  BY <1>12 DEF IInv, TypeOK, Threads, WriterLabels, ReaderLabels, LookAgain,
    writing, reading, Goto, history
<1>13. ASSUME NEW r \in Readers, BackOff(r)
      PROVE  TypeOK'
  <2>1. ReaderCount' \in Nat
    BY <1>13, InsideCounted DEF IInv, Inside, BackOff
  <2> QED
    BY <1>13, <2>1 DEF IInv, TypeOK, Threads, WriterLabels, ReaderLabels, BackOff,
      writing, reading, history, Goto
<1>14. ASSUME NEW r \in Readers, LoadActive(r)
      PROVE  TypeOK'
  BY <1>14 DEF IInv, TypeOK, Threads, WriterLabels, ReaderLabels, LoadActive,
    writing, reading, Goto, history
<1>15. ASSUME NEW r \in Readers, Find(r)
      PROVE  TypeOK'
  <2>1. snapshot[r] # None => contents[snapshot[r]][asked[r]] \in Levels \cup {None}
    <3>1. asked[r] \in Subsystems
      BY <1>15 DEF IInv, TypeOK, Calls, Asking, Find
    <3>2. snapshot[r] # None => contents[snapshot[r]] \in Tables
      BY ElementOfSeq DEF IInv, TypeOK, Calls, Numbers
    <3> QED
      BY <3>1, <3>2 DEF Tables
  <2>2. found' \in [Readers -> Levels \cup {None}]
    BY <1>15, <2>1 DEF IInv, TypeOK, Find
  <2> QED
    BY <1>15, <2>2 DEF IInv, TypeOK, Threads, WriterLabels, ReaderLabels, Find,
      writing, history, Goto
<1>16. ASSUME NEW r \in Readers, ReleaseSubsystemLevelSnapshot(r)
      PROVE  TypeOK'
  <2>1. ReaderCount' \in Nat
    BY <1>16, InsideCounted DEF IInv, Inside, ReleaseSubsystemLevelSnapshot
  <2> QED
    BY <1>16, <2>1 DEF IInv, TypeOK, Threads, WriterLabels, ReaderLabels,
      ReleaseSubsystemLevelSnapshot, Answer, writing, Goto
<1>17. CASE UNCHANGED vars
  BY <1>17 DEF IInv, TypeOK, Threads, WriterLabels, ReaderLabels, vars,
    history, writing, reading
<1> QED
  BY <1>1, <1>2, <1>3, <1>4, <1>5, <1>6, <1>7, <1>8, <1>9, <1>10, <1>11,
    <1>12, <1>13, <1>14, <1>15, <1>16, <1>17, Steps DEF IInv, WriterStep,
    ReaderStep

----------------------------------------------------------------------------
(* Control *)
LEMMA ControlStep ==
  ASSUME IInv, [Next]_vars
  PROVE  Control'
<1>1. ASSUME NEW w \in Writers, NEW levels \in Tables, Change(w, levels)
      PROVE  Control'
  BY <1>1 DEF IInv, TypeOK, Control, Mutual, Barrier, Drained, Threads,
    Change, writing, reading, Goto, history
<1>2. ASSUME NEW w \in Writers, PublishSubsystemLevelSnapshot(w)
      PROVE  Control'
  BY <1>2 DEF IInv, TypeOK, Control, Mutual, Barrier, Drained, Threads,
    PublishSubsystemLevelSnapshot, writing, reading, Goto, Publish
<1>3. ASSUME NEW w \in Writers, Reclaim(w)
      PROVE  Control'
  <2>1. CASE Cardinality(Snapshots) <= SnapshotLimit
    BY <1>3, <2>1 DEF IInv, TypeOK, Control, Mutual, Barrier, Drained, Threads,
      Reclaim, Goto
  <2>2. CASE ~ (Cardinality(Snapshots) <= SnapshotLimit)
    BY <1>3, <2>2 DEF IInv, TypeOK, Control, Mutual, Barrier, Drained, Threads,
      Reclaim, Goto
  <2> QED
    BY <2>1, <2>2
<1>4. ASSUME NEW w \in Writers, WaitForReaders(w)
      PROVE  Control'
  <2>1. Inside = {}
    BY <1>4, InsideFinite, FS_EmptySet DEF IInv, Counted, WaitForReaders
  <2> QED
    BY <1>4, <2>1 DEF IInv, TypeOK, Control, Mutual, Barrier, Drained, Inside,
      Threads, WaitForReaders, writing, Goto
<1>5. ASSUME NEW w \in Writers, DeleteSnapshots(w)
      PROVE  Control'
  BY <1>5 DEF IInv, TypeOK, Control, Mutual, Barrier, Drained, Threads,
    DeleteSnapshots, writing, reading, Goto, history
<1>6. ASSUME NEW w \in Writers, AllowReaders(w)
      PROVE  Control'
  BY <1>6 DEF IInv, TypeOK, Control, Mutual, Barrier, Drained, Threads,
    AllowReaders, writing, reading, Goto, history
<1>7. ASSUME NEW r \in Readers, NEW sid \in Subsystems, Ask(r, sid)
      PROVE  Control'
  BY <1>7 DEF IInv, TypeOK, Control, Mutual, Barrier, Drained, Threads, Ask,
    writing, reading, Goto
<1>8. ASSUME NEW r \in Readers, NoSnapshot(r)
      PROVE  Control'
  BY <1>8 DEF IInv, TypeOK, Control, Mutual, Barrier, Drained, Threads,
    NoSnapshot, writing, reading, Goto, Answer
<1>9. ASSUME NEW r \in Readers, HasSnapshot(r)
      PROVE  Control'
  BY <1>9 DEF IInv, TypeOK, Control, Mutual, Barrier, Drained, Threads,
    HasSnapshot, writing, reading, Goto, history
<1>10. ASSUME NEW r \in Readers, WaitForWriter(r)
      PROVE  Control'
  BY <1>10 DEF IInv, TypeOK, Control, Mutual, Barrier, Drained, Threads,
    WaitForWriter, writing, reading, Goto, history
<1>11. ASSUME NEW r \in Readers, Enter(r)
      PROVE  Control'
  BY <1>11 DEF IInv, TypeOK, Control, Mutual, Barrier, Drained, Threads,
    Enter, writing, reading, Goto, history
<1>12. ASSUME NEW r \in Readers, LookAgain(r)
      PROVE  Control'
  BY <1>12 DEF IInv, TypeOK, Control, Mutual, Barrier, Drained, Threads,
    LookAgain, writing, reading, Goto, history
<1>13. ASSUME NEW r \in Readers, BackOff(r)
      PROVE  Control'
  BY <1>13 DEF IInv, TypeOK, Control, Mutual, Barrier, Drained, Threads,
    BackOff, writing, reading, Goto, history
<1>14. ASSUME NEW r \in Readers, LoadActive(r)
      PROVE  Control'
  BY <1>14 DEF IInv, TypeOK, Control, Mutual, Barrier, Drained, Threads,
    LoadActive, writing, reading, Goto, history
<1>15. ASSUME NEW r \in Readers, Find(r)
      PROVE  Control'
  BY <1>15 DEF IInv, TypeOK, Control, Mutual, Barrier, Drained, Threads, Find,
    writing, reading, Goto, history
<1>16. ASSUME NEW r \in Readers, ReleaseSubsystemLevelSnapshot(r)
      PROVE  Control'
  BY <1>16 DEF IInv, TypeOK, Control, Mutual, Barrier, Drained, Threads,
    ReleaseSubsystemLevelSnapshot, writing, reading, Goto, Answer
<1>17. CASE UNCHANGED vars
  BY <1>17 DEF IInv, TypeOK, Control, Mutual, Barrier, Drained, Threads, vars,
    history, writing, reading
<1> QED
  BY <1>1, <1>2, <1>3, <1>4, <1>5, <1>6, <1>7, <1>8, <1>9, <1>10, <1>11,
    <1>12, <1>13, <1>14, <1>15, <1>16, <1>17, Steps DEF IInv, WriterStep,
    ReaderStep

----------------------------------------------------------------------------
(* Counted *)
LEMMA CountStep ==
  ASSUME IInv, [Next]_vars
  PROVE  Counted'
<1>1. ASSUME NEW w \in Writers, NEW levels \in Tables, Change(w, levels)
      PROVE  Counted'
  <2>1. Inside' = Inside
    BY <1>1 DEF IInv, TypeOK, Inside, Threads, Change, Goto
  <2> QED
    BY <1>1, <2>1 DEF IInv, Counted, Change
<1>2. ASSUME NEW w \in Writers, PublishSubsystemLevelSnapshot(w)
      PROVE  Counted'
  <2>1. Inside' = Inside
    BY <1>2 DEF IInv, TypeOK, Inside, Threads, PublishSubsystemLevelSnapshot,
      Goto
  <2> QED
    BY <1>2, <2>1 DEF IInv, Counted, PublishSubsystemLevelSnapshot
<1>3. ASSUME NEW w \in Writers, Reclaim(w)
      PROVE  Counted'
  <2>1. Inside' = Inside
    BY <1>3 DEF IInv, TypeOK, Inside, Threads, Reclaim, Goto
  <2> QED
    BY <1>3, <2>1 DEF IInv, Counted, Reclaim
<1>4. ASSUME NEW w \in Writers, WaitForReaders(w)
      PROVE  Counted'
  <2>1. Inside' = Inside
    BY <1>4 DEF IInv, TypeOK, Inside, Threads, WaitForReaders, Goto
  <2> QED
    BY <1>4, <2>1 DEF IInv, Counted, WaitForReaders
<1>5. ASSUME NEW w \in Writers, DeleteSnapshots(w)
      PROVE  Counted'
  <2>1. Inside' = Inside
    BY <1>5 DEF IInv, TypeOK, Inside, Threads, DeleteSnapshots, Goto
  <2> QED
    BY <1>5, <2>1 DEF IInv, Counted, DeleteSnapshots
<1>6. ASSUME NEW w \in Writers, AllowReaders(w)
      PROVE  Counted'
  <2>1. Inside' = Inside
    BY <1>6 DEF IInv, TypeOK, Inside, Threads, AllowReaders, Goto
  <2> QED
    BY <1>6, <2>1 DEF IInv, Counted, AllowReaders
<1>7. ASSUME NEW r \in Readers, NEW sid \in Subsystems, Ask(r, sid)
      PROVE  Counted'
  <2>1. Inside' = Inside
    BY <1>7 DEF IInv, TypeOK, Inside, Threads, Ask, Goto
  <2> QED
    BY <1>7, <2>1 DEF IInv, Counted, Ask
<1>8. ASSUME NEW r \in Readers, NoSnapshot(r)
      PROVE  Counted'
  <2>1. Inside' = Inside
    BY <1>8 DEF IInv, TypeOK, Inside, Threads, NoSnapshot, Goto, Answer
  <2> QED
    BY <1>8, <2>1 DEF IInv, Counted, NoSnapshot
<1>9. ASSUME NEW r \in Readers, HasSnapshot(r)
      PROVE  Counted'
  <2>1. Inside' = Inside
    BY <1>9 DEF IInv, TypeOK, Inside, Threads, HasSnapshot, Goto
  <2> QED
    BY <1>9, <2>1 DEF IInv, Counted, HasSnapshot
<1>10. ASSUME NEW r \in Readers, WaitForWriter(r)
      PROVE  Counted'
  <2>1. Inside' = Inside
    BY <1>10 DEF IInv, TypeOK, Inside, Threads, WaitForWriter, Goto
  <2> QED
    BY <1>10, <2>1 DEF IInv, Counted, WaitForWriter
<1>11. ASSUME NEW r \in Readers, Enter(r)
      PROVE  Counted'
  <2>1. r \notin Inside /\ Inside' = Inside \cup {r}
    BY <1>11 DEF IInv, TypeOK, Inside, Threads, Enter, Goto
  <2> QED
    BY <1>11, <2>1, InsideFinite, FS_AddElement DEF IInv, Counted, Enter
<1>12. ASSUME NEW r \in Readers, LookAgain(r)
      PROVE  Counted'
  <2>1. Inside' = Inside
    BY <1>12 DEF IInv, TypeOK, Inside, Threads, LookAgain, Goto
  <2> QED
    BY <1>12, <2>1 DEF IInv, Counted, LookAgain
<1>13. ASSUME NEW r \in Readers, BackOff(r)
      PROVE  Counted'
  <2>1. r \in Inside /\ Inside' = Inside \ {r}
    BY <1>13 DEF IInv, TypeOK, Inside, Threads, BackOff, Goto
  <2> QED
    BY <1>13, <2>1, InsideCounted DEF IInv, Counted, BackOff
<1>14. ASSUME NEW r \in Readers, LoadActive(r)
      PROVE  Counted'
  <2>1. Inside' = Inside
    BY <1>14 DEF IInv, TypeOK, Inside, Threads, LoadActive, Goto
  <2> QED
    BY <1>14, <2>1 DEF IInv, Counted, LoadActive
<1>15. ASSUME NEW r \in Readers, Find(r)
      PROVE  Counted'
  <2>1. Inside' = Inside
    BY <1>15 DEF IInv, TypeOK, Inside, Threads, Find, Goto
  <2> QED
    BY <1>15, <2>1 DEF IInv, Counted, Find
<1>16. ASSUME NEW r \in Readers, ReleaseSubsystemLevelSnapshot(r)
      PROVE  Counted'
  <2>1. r \in Inside /\ Inside' = Inside \ {r}
    BY <1>16 DEF IInv, TypeOK, Inside, Threads, ReleaseSubsystemLevelSnapshot, Goto, Answer
  <2> QED
    BY <1>16, <2>1, InsideCounted DEF IInv, Counted, ReleaseSubsystemLevelSnapshot
<1>17. CASE UNCHANGED vars
  <2>1. Inside' = Inside
    BY <1>17 DEF IInv, TypeOK, Inside, Threads, vars
  <2> QED
    BY <1>17, <2>1 DEF IInv, Counted, vars
<1> QED
  BY <1>1, <1>2, <1>3, <1>4, <1>5, <1>6, <1>7, <1>8, <1>9, <1>10, <1>11,
    <1>12, <1>13, <1>14, <1>15, <1>16, <1>17, Steps DEF IInv, WriterStep,
    ReaderStep

----------------------------------------------------------------------------
(* Memory *)
LEMMA MemoryStep ==
  ASSUME IInv, [Next]_vars
  PROVE  Memory'
<1>1. ASSUME NEW w \in Writers, NEW levels \in Tables, Change(w, levels)
      PROVE  Memory'
  BY <1>1 DEF IInv, TypeOK, Control, Mutual, Memory, Newest, Held, Room,
    Threads, Change, writing, reading, Goto, history
<1>2. ASSUME NEW w \in Writers, PublishSubsystemLevelSnapshot(w)
      PROVE  Memory'
  <2>1. Snapshots \subseteq 1..Len(contents) /\ Len(contents) \in Nat
    BY LenProperties DEF IInv, TypeOK
  <2>2. Cardinality(Snapshots) <= SnapshotLimit /\ dataLock = w /\ w # None
    BY <1>2 DEF IInv, Memory, Room, Control, Mutual, PublishSubsystemLevelSnapshot
  <2>3. IsFiniteSet(Snapshots) /\ Cardinality(Snapshots) \in Nat
    <3>1. IsFiniteSet(1..Len(contents))
      BY <2>1, FS_Interval
    <3> QED
      BY <2>1, <3>1, FS_Subset, FS_CardinalityType
  <2>4. ASSUME SubsystemLevels = Empty
        PROVE  Cardinality(Snapshots') <= SnapshotLimit + 1 /\ Newest'
    BY <1>2, <2>2, <2>3, <2>4 DEF PublishSubsystemLevelSnapshot, Newest
  <2>5. ASSUME SubsystemLevels # Empty
        PROVE  Cardinality(Snapshots') <= SnapshotLimit + 1 /\ Newest'
    <3>1. /\ Snapshots' = Snapshots \cup {Len(contents) + 1}
          /\ Active' = Len(contents) + 1
      BY <1>2, <2>5 DEF PublishSubsystemLevelSnapshot
    <3>2. Cardinality(Snapshots \cup {Len(contents) + 1}) <= Cardinality(Snapshots) + 1
      <4>1. Cardinality(Snapshots \cup {Len(contents) + 1})
              \in {Cardinality(Snapshots), Cardinality(Snapshots) + 1}
        BY <2>3, FS_AddElement
      <4> QED
        BY <2>3, <4>1
    <3>3. Cardinality(Snapshots \cup {Len(contents) + 1}) \in Nat
      BY <2>3, FS_AddElement, FS_CardinalityType
    <3>4. Newest'
      BY <2>1, <3>1 DEF Newest
    <3> QED
      BY <2>2, <2>3, <3>1, <3>2, <3>3, <3>4
  <2>6. Cardinality(Snapshots') <= SnapshotLimit + 1 /\ Newest'
    BY <2>4, <2>5
  <2>7. Held'
    BY <1>2 DEF IInv, TypeOK, Memory, Held, PublishSubsystemLevelSnapshot, Threads,
      reading, Goto
  <2>8. \A t \in Writers : pc'[t] \notin {"publish", "allow"}
    BY <1>2, <2>2 DEF IInv, TypeOK, Control, Mutual, Threads, Goto,
      PublishSubsystemLevelSnapshot
  <2> QED
    BY <1>2, <2>2, <2>6, <2>7, <2>8 DEF Memory, Room,
      PublishSubsystemLevelSnapshot
<1>3. ASSUME NEW w \in Writers, Reclaim(w)
      PROVE  Memory'
  <2>1. /\ Newest'
        /\ Snapshots' = Snapshots
        /\ dataLock = w
    BY <1>3 DEF IInv, Memory, Newest, Control, Mutual, Reclaim
  <2>2. Held'
    BY <1>3, Zenon DEF IInv, TypeOK, Memory, Held, Reclaim, Threads, reading, Goto
  <2>3. \A t \in Writers : pc'[t] \notin {"publish", "allow"}
    BY <1>3, <2>1 DEF IInv, TypeOK, Control, Mutual, Threads, Goto, Reclaim
  <2>4. dataLock' = None => Cardinality(Snapshots) <= SnapshotLimit
    BY <1>3, <2>1, Zenon DEF Reclaim
  <2> QED
    BY <2>1, <2>2, <2>3, <2>4 DEF IInv, Memory, Room
<1>4. ASSUME NEW w \in Writers, WaitForReaders(w)
      PROVE  Memory'
  BY <1>4 DEF IInv, TypeOK, Control, Mutual, Memory, Newest, Held, Room,
    Threads, WaitForReaders, writing, reading, Goto, history
<1>5. ASSUME NEW w \in Writers, DeleteSnapshots(w)
      PROVE  Memory'
  <2>1. Snapshots' = {} \/ (Active \in Snapshots /\ Snapshots' = {Active})
    BY <1>5, KeptIsActive DEF IInv, Memory, DeleteSnapshots
  <2>2. Cardinality(Snapshots') \in {0, 1}
    <3>1. Cardinality({}) = 0 /\ Cardinality({Active}) = 1
      BY FS_EmptySet, FS_Singleton
    <3> QED
      BY <2>1, <3>1
  <2>3. Newest'
    BY <1>5, KeptIsActive, LenProperties DEF IInv, TypeOK, Memory, DeleteSnapshots,
      Newest
  <2>4. Held'
    BY <1>5 DEF IInv, TypeOK, Control, Drained, Held, DeleteSnapshots, Threads, Goto
  <2>5. Room'
    BY <2>2 DEF Room
  <2> QED
    BY <2>3, <2>4, <2>5 DEF Memory
<1>6. ASSUME NEW w \in Writers, AllowReaders(w)
      PROVE  Memory'
  BY <1>6 DEF IInv, TypeOK, Control, Mutual, Memory, Newest, Held, Room,
    Threads, AllowReaders, writing, reading, Goto, history
<1>7. ASSUME NEW r \in Readers, NEW sid \in Subsystems, Ask(r, sid)
      PROVE  Memory'
  BY <1>7 DEF IInv, TypeOK, Control, Mutual, Memory, Newest, Held, Room,
    Threads, Ask, writing, reading, Goto
<1>8. ASSUME NEW r \in Readers, NoSnapshot(r)
      PROVE  Memory'
  BY <1>8 DEF IInv, TypeOK, Control, Mutual, Memory, Newest, Held, Room,
    Threads, NoSnapshot, writing, reading, Goto, Answer
<1>9. ASSUME NEW r \in Readers, HasSnapshot(r)
      PROVE  Memory'
  BY <1>9 DEF IInv, TypeOK, Control, Mutual, Memory, Newest, Held, Room,
    Threads, HasSnapshot, writing, reading, Goto, history
<1>10. ASSUME NEW r \in Readers, WaitForWriter(r)
      PROVE  Memory'
  BY <1>10 DEF IInv, TypeOK, Control, Mutual, Memory, Newest, Held, Room,
    Threads, WaitForWriter, writing, reading, Goto, history
<1>11. ASSUME NEW r \in Readers, Enter(r)
      PROVE  Memory'
  BY <1>11 DEF IInv, TypeOK, Control, Mutual, Memory, Newest, Held, Room,
    Threads, Enter, writing, reading, Goto, history
<1>12. ASSUME NEW r \in Readers, LookAgain(r)
      PROVE  Memory'
  BY <1>12 DEF IInv, TypeOK, Control, Mutual, Memory, Newest, Held, Room,
    Threads, LookAgain, writing, reading, Goto, history
<1>13. ASSUME NEW r \in Readers, BackOff(r)
      PROVE  Memory'
  BY <1>13 DEF IInv, TypeOK, Control, Mutual, Memory, Newest, Held, Room,
    Threads, BackOff, writing, reading, Goto, history
<1>14. ASSUME NEW r \in Readers, LoadActive(r)
      PROVE  Memory'
  BY <1>14 DEF IInv, TypeOK, Control, Mutual, Memory, Newest, Held, Room,
    Threads, LoadActive, writing, reading, Goto, history
<1>15. ASSUME NEW r \in Readers, Find(r)
      PROVE  Memory'
  BY <1>15 DEF IInv, TypeOK, Control, Mutual, Memory, Newest, Held, Room,
    Threads, Find, writing, reading, Goto, history
<1>16. ASSUME NEW r \in Readers, ReleaseSubsystemLevelSnapshot(r)
      PROVE  Memory'
  BY <1>16 DEF IInv, TypeOK, Control, Mutual, Memory, Newest, Held, Room,
    Threads, ReleaseSubsystemLevelSnapshot, writing, reading, Goto, Answer
<1>17. CASE UNCHANGED vars
  BY <1>17 DEF IInv, TypeOK, Control, Mutual, Memory, Newest, Held, Room,
    Threads, vars, history, writing, reading
<1> QED
  BY <1>1, <1>2, <1>3, <1>4, <1>5, <1>6, <1>7, <1>8, <1>9, <1>10, <1>11,
    <1>12, <1>13, <1>14, <1>15, <1>16, <1>17, Steps DEF IInv, WriterStep,
    ReaderStep

----------------------------------------------------------------------------
(* Calls *)
LEMMA CallsStep ==
  ASSUME IInv, [Next]_vars
  PROVE  Calls'
<1>1. ASSUME NEW w \in Writers, NEW levels \in Tables, Change(w, levels)
      PROVE  Calls'
  BY <1>1 DEF IInv, TypeOK, Calls, Numbers, Asking, Answers, LevelsOf,
    Threads, Change, writing, reading, Goto, history
<1>2. ASSUME NEW w \in Writers, PublishSubsystemLevelSnapshot(w)
      PROVE  Calls'
  BY <1>2 DEF IInv, TypeOK, Calls, Numbers, Asking, Answers, LevelsOf,
    Threads, PublishSubsystemLevelSnapshot, writing, reading, Goto, Publish
<1>3. ASSUME NEW w \in Writers, Reclaim(w)
      PROVE  Calls'
  BY <1>3 DEF IInv, TypeOK, Calls, Numbers, Asking, Answers, LevelsOf,
    Threads, Reclaim, writing, reading, Goto, history
<1>4. ASSUME NEW w \in Writers, WaitForReaders(w)
      PROVE  Calls'
  BY <1>4 DEF IInv, TypeOK, Calls, Numbers, Asking, Answers, LevelsOf,
    Threads, WaitForReaders, writing, reading, Goto, history
<1>5. ASSUME NEW w \in Writers, DeleteSnapshots(w)
      PROVE  Calls'
  BY <1>5 DEF IInv, TypeOK, Calls, Numbers, Asking, Answers, LevelsOf,
    Threads, DeleteSnapshots, writing, reading, Goto, history
<1>6. ASSUME NEW w \in Writers, AllowReaders(w)
      PROVE  Calls'
  BY <1>6 DEF IInv, TypeOK, Calls, Numbers, Asking, Answers, LevelsOf,
    Threads, AllowReaders, writing, reading, Goto, history
<1>7. ASSUME NEW r \in Readers, NEW sid \in Subsystems, Ask(r, sid)
      PROVE  Calls'
  BY <1>7 DEF IInv, TypeOK, Calls, Numbers, Asking, Answers, LevelsOf,
    Threads, Ask, writing, reading, Goto
<1>8. ASSUME NEW r \in Readers, NoSnapshot(r)
      PROVE  Calls'
  BY <1>8 DEF IInv, TypeOK, Calls, Numbers, Asking, Answers, LevelsOf,
    Threads, NoSnapshot, writing, reading, Goto, Answer
<1>9. ASSUME NEW r \in Readers, HasSnapshot(r)
      PROVE  Calls'
  BY <1>9 DEF IInv, TypeOK, Calls, Numbers, Asking, Answers, LevelsOf,
    Threads, HasSnapshot, writing, reading, Goto, history
<1>10. ASSUME NEW r \in Readers, WaitForWriter(r)
      PROVE  Calls'
  BY <1>10 DEF IInv, TypeOK, Calls, Numbers, Asking, Answers, LevelsOf,
    Threads, WaitForWriter, writing, reading, Goto, history
<1>11. ASSUME NEW r \in Readers, Enter(r)
      PROVE  Calls'
  BY <1>11 DEF IInv, TypeOK, Calls, Numbers, Asking, Answers, LevelsOf,
    Threads, Enter, writing, reading, Goto, history
<1>12. ASSUME NEW r \in Readers, LookAgain(r)
      PROVE  Calls'
  BY <1>12 DEF IInv, TypeOK, Calls, Numbers, Asking, Answers, LevelsOf,
    Threads, LookAgain, writing, reading, Goto, history
<1>13. ASSUME NEW r \in Readers, BackOff(r)
      PROVE  Calls'
  BY <1>13 DEF IInv, TypeOK, Calls, Numbers, Asking, Answers, LevelsOf,
    Threads, BackOff, writing, reading, Goto, history
<1>14. ASSUME NEW r \in Readers, LoadActive(r)
      PROVE  Calls'
  BY <1>14 DEF IInv, TypeOK, Calls, Numbers, Asking, Answers, LevelsOf,
    Threads, LoadActive, writing, reading, Goto, history
<1>15. ASSUME NEW r \in Readers, Find(r)
      PROVE  Calls'
  <2>1. found'[r] = LevelsOf(snapshot[r])[asked[r]]
    BY <1>15 DEF IInv, TypeOK, Calls, Asking, LevelsOf, Empty, Find
  <2>2. found'[r] \in current[r]
    BY <1>15, <2>1 DEF IInv, Calls, Answers, Find
  <2> QED
    BY <1>15, <2>2 DEF IInv, TypeOK, Calls, Numbers, Asking, Answers, LevelsOf, Threads,
      Find, writing, history, Goto
<1>16. ASSUME NEW r \in Readers, ReleaseSubsystemLevelSnapshot(r)
      PROVE  Calls'
  BY <1>16 DEF IInv, TypeOK, Calls, Numbers, Asking, Answers, LevelsOf,
    Threads, ReleaseSubsystemLevelSnapshot, writing, reading, Goto, Answer
<1>17. CASE UNCHANGED vars
  BY <1>17 DEF IInv, TypeOK, Calls, Numbers, Asking, Answers, LevelsOf,
    Threads, vars, history, writing, reading
<1> QED
  BY <1>1, <1>2, <1>3, <1>4, <1>5, <1>6, <1>7, <1>8, <1>9, <1>10, <1>11,
    <1>12, <1>13, <1>14, <1>15, <1>16, <1>17, Steps DEF IInv, WriterStep,
    ReaderStep

----------------------------------------------------------------------------
(* The theorems *)

(* The inductive invariant holds in every reachable state. *)
THEOREM IInvHolds == Spec => []IInv
<1>1. IInv /\ [Next]_vars => IInv'
  BY TypeStep, ControlStep, CountStep, MemoryStep, CallsStep DEF IInv
<1> QED
  BY InitIInv, <1>1, PTL DEF Spec

(* Every variable keeps its type; ReaderCount, unsigned in the code, is     *)
(* never decremented below zero.                                           *)
THEOREM TypeCorrect == Spec => []TypeOK
<1>1. IInv => TypeOK
  BY DEF IInv
<1> QED
  BY IInvHolds, <1>1, PTL

(* No snapshot is deleted that a reader of GetSubsystemLevel may still read *)
(* or that is active.                                                      *)
THEOREM SnapshotsAreSafe == Spec => []NoUseAfterReclaim
<1>1. IInv => NoUseAfterReclaim
  BY DEF IInv, Memory, Newest, Held, NoUseAfterReclaim
<1> QED
  BY IInvHolds, <1>1, PTL

(* Old snapshots never number more than the limit of                       *)
(* ReclaimSubsystemLevelSnapshots.                                         *)
THEOREM SnapshotsAreBounded == Spec => []SnapshotsBounded
<1>1. IInv => SnapshotsBounded
  BY DEF IInv, Memory, Room, SnapshotsBounded
<1> QED
  BY IInvHolds, <1>1, PTL

(* A step of the snapshots is a step of the table or invisible in it.      *)
LEMMA TableStep ==
  ASSUME IInv, [Next]_vars
  PROVE  [LevelTableView!Next]_(LevelTableView!vars)
<1> USE DEF LevelTableView!vars
<1>1. ASSUME NEW w \in Writers, NEW levels \in Tables, Change(w, levels)
      PROVE  UNCHANGED LevelTableView!vars
  BY <1>1 DEF Change, reading, history
<1>2. ASSUME NEW w \in Writers, PublishSubsystemLevelSnapshot(w)
      PROVE  LevelTableView!Update
  BY <1>2 DEF IInv, TypeOK, PublishSubsystemLevelSnapshot, Publish, Tables, reading,
    LevelTableView!Update, LevelTableView!Tables
<1>3. ASSUME NEW w \in Writers, Reclaim(w) \/ WaitForReaders(w) \/ DeleteSnapshots(w)
                                  \/ AllowReaders(w)
      PROVE  UNCHANGED LevelTableView!vars
  BY <1>3 DEF Reclaim, WaitForReaders, DeleteSnapshots, AllowReaders, reading, history
<1>4. ASSUME NEW r \in Readers, NEW sid \in Subsystems, Ask(r, sid)
      PROVE  LevelTableView!Ask(r)
  BY <1>4 DEF IInv, Calls, Asking, Ask, LevelTableView!Ask
<1>5. ASSUME NEW r \in Readers, NoSnapshot(r)
      PROVE  LevelTableView!Answer(r)
  <2>1. asked[r] \in Subsystems /\ asked[r] # None
    BY <1>5 DEF IInv, TypeOK, Calls, Asking, NoSnapshot
  <2>2. None \in current[r]
    BY <1>5, <2>1 DEF IInv, Calls, Answers, LevelsOf, Empty, NoSnapshot
  <2> QED
    BY <1>5, <2>1, <2>2 DEF NoSnapshot, Answer, LevelTableView!Answer
<1>6. ASSUME NEW r \in Readers, ReleaseSubsystemLevelSnapshot(r)
      PROVE  LevelTableView!Answer(r)
  <2>1. asked[r] # None /\ found[r] \in current[r]
    BY <1>6 DEF IInv, Calls, Asking, Answers, ReleaseSubsystemLevelSnapshot
  <2> QED
    BY <1>6, <2>1 DEF ReleaseSubsystemLevelSnapshot, Answer, LevelTableView!Answer
<1>7. ASSUME NEW r \in Readers, HasSnapshot(r) \/ WaitForWriter(r) \/ Enter(r)
                                  \/ LookAgain(r) \/ BackOff(r) \/ LoadActive(r) \/ Find(r)
      PROVE  UNCHANGED LevelTableView!vars
  BY <1>7 DEF HasSnapshot, WaitForWriter, Enter, LookAgain, BackOff, LoadActive, Find,
    reading, history
<1>8. CASE UNCHANGED vars
  BY <1>8 DEF vars, reading, history
<1> QED
  BY <1>1, <1>2, <1>3, <1>4, <1>5, <1>6, <1>7, <1>8, Steps
  DEF IInv, WriterStep, ReaderStep, LevelTableView!Next

(* GetSubsystemLevel and the changes of levels implement LevelTable: every *)
(* answer is a level the subsystem had during the call.                    *)
THEOREM LevelTableImplemented == Spec => ImplementsLevelTable
<1>1. Init => LevelTableView!Init
  BY DEF Init, Empty, LevelTableView!Init
<1>2. IInv /\ [Next]_vars => [LevelTableView!Next]_(LevelTableView!vars)
  BY TableStep
<1> QED
  BY IInvHolds, <1>1, <1>2, PTL DEF Spec, ImplementsLevelTable, LevelTableView!Spec
----------------------------------------------------------------------------
(* The control server.                                                       *)

(* A handler thread that has been started and has not ended. *)
Live(c) == handler[c] \notin {"none", "ended"}

(* The types: functions. *)
TypedData ==
  /\ file \in [Descriptors -> Connections \cup {Nil, Listening, Foreign, Unbound}]
  /\ ControlThreads \in [Descriptors -> Connections \cup {Nil}]
  /\ Stopped \in [Descriptors -> BOOLEAN]
  /\ handler \in [Connections -> HandlerLabels]
  /\ socket \in [Connections -> Descriptors \cup {Nil}]
  /\ \A c \in Connections : handler[c] # "none" => socket[c] \in Descriptors

(* The types: threads and descriptors. *)
TypedPlaces ==
  /\ listener \in {"none", "accept", "test", "start", "sweep", "join", "shut", "join all", "ended"}
  /\ ControlSocket \in Descriptors \cup {Nil}
  /\ listenSocket \in Descriptors \cup {Nil}
  /\ accepted \in Descriptors \cup {Nil}
  /\ toClose \in Descriptors \cup {Nil}
  /\ toJoin \subseteq Connections
  /\ app \in {"idle", "stop discovery", "wake discovery", "join discovery", "exchange", "wake",
              "join", "close", "start"}
  /\ discovery \in {"none", "bind", "loop", "accept", "test", "read", "ended"}

(* The types: the backlogs.  Two discovery clients wait only when one is the waker. *)
TypedCounts ==
  /\ backlog \in Seq(Connections)
  /\ connections \in Nat
  /\ discoveryWaits \in {0, 1, 2}
  /\ discoveryWaits = 2 => app = "join discovery"

(* The listening socket and the threads, in the steps of StopControlServer. *)
ServerKnown ==
  /\ ControlSocket # Nil =>
       /\ app \in {"idle", "stop discovery", "wake discovery", "join discovery", "exchange"}
       /\ file[ControlSocket] \in {Listening, Unbound}
  /\ toClose # Nil =>
       /\ app \in {"wake", "join", "close"}
       /\ file[toClose] \in {Listening, Unbound}
  /\ \A d \in Descriptors : file[d] \in {Listening, Unbound} => d \in {ControlSocket, toClose}
  /\ listener # "none" =>
       /\ listenSocket # Nil
       /\ ControlSocket # Nil \/ app \in {"wake", "join"}
  /\ discovery # "none" =>
       /\ ControlSocket # Nil
       /\ app \in {"idle", "stop discovery", "wake discovery", "join discovery"}

(* What the listener has accepted, and that it has no entry yet. *)
ListenerKnown ==
  /\ accepted # Nil <=> listener \in {"test", "start"}
  /\ accepted # Nil => /\ file[accepted] \in Connections
                        /\ ControlThreads[accepted] = Nil
  /\ listener = "start" => file[accepted] # Waking
  /\ listener \in {"none", "join all", "ended"} =>
       \A d \in Descriptors : ControlThreads[d] = Nil

(* An entry is of an open socket, and of the handler that serves it. *)
EntriesKnown ==
  \A d \in Descriptors : ControlThreads[d] # Nil =>
    /\ file[d] = ControlThreads[d]
    /\ socket[file[d]] = d
    /\ handler[file[d]] # "none"
    /\ Stopped[d] => handler[file[d]] = "ended"

(* Every socket of a client is known to the listener. *)
SocketsKnown ==
  \A d \in Descriptors : file[d] \in Connections => d = accepted \/ ControlThreads[d] = file[d]

(* A live handler has its entry, or the listener waits for it. *)
LiveKnown ==
  \A c \in Connections : Live(c) =>
    /\ listener \notin {"none", "ended"}
    /\ IF listener = "join all" THEN c \in toJoin ELSE ControlThreads[socket[c]] = c

(* What waits to be accepted has neither handler nor descriptor. *)
BacklogNew ==
  /\ IsInjective(backlog)
  /\ \A c \in ToSet(backlog) : handler[c] = "none" /\ \A d \in Descriptors : file[d] # c
  /\ Waking \in ToSet(backlog) => app \in {"join", "close"}

(* Nor has what is not connected yet. *)
FutureNew ==
  \A c \in 1..MaxConnections : c > connections =>
    /\ handler[c] = "none"
    /\ c \notin ToSet(backlog)
    /\ \A d \in Descriptors : file[d] # c

(* Nor has what is accepted a handler; the waker never gets one. *)
AcceptedNew ==
  /\ accepted # Nil => handler[file[accepted]] = "none"
  /\ handler[Waking] = "none"
  /\ \A d \in Descriptors : file[d] = Waking => d = accepted /\ app = "join"

(* The inductive invariant. *)
ControlInv ==
  /\ TypedData /\ TypedPlaces /\ TypedCounts
  /\ ServerKnown /\ ListenerKnown
  /\ EntriesKnown /\ SocketsKnown /\ LiveKnown
  /\ BacklogNew /\ FutureNew /\ AcceptedNew

----------------------------------------------------------------------------
(* Facts about the backlog, a queue whose elements differ.                   *)

(* An element that is not in the queue is appended. *)
LEMMA AppendToQueue ==
  ASSUME NEW S, NEW q \in Seq(S), NEW e \in S, IsInjective(q), e \notin ToSet(q)
  PROVE  /\ Append(q, e) \in Seq(S)
         /\ IsInjective(Append(q, e))
         /\ ToSet(Append(q, e)) = ToSet(q) \cup {e}
<1> DEFINE s == Append(q, e)
<1>1. /\ s \in Seq(S) /\ Len(q) \in Nat
      /\ DOMAIN q = 1..Len(q) /\ DOMAIN s = 1..(Len(q) + 1)
      /\ \A i \in 1..Len(q) : s[i] = q[i]
      /\ s[Len(q) + 1] = e
  BY AppendProperties, LenProperties
<1>2. DOMAIN s = DOMAIN q \cup {Len(q) + 1} /\ Len(q) + 1 \notin DOMAIN q
  BY <1>1
<1> HIDE DEF s
<1>3. IsInjective(s)
  BY <1>1, <1>2 DEF IsInjective, ToSet
<1>4. ToSet(s) = ToSet(q) \cup {e}
  <2>1. \A i \in DOMAIN q : i \in DOMAIN s /\ s[i] = q[i]
    BY <1>1, <1>2
  <2>2. Len(q) + 1 \in DOMAIN s /\ s[Len(q) + 1] = e
    BY <1>1, <1>2
  <2>3. \A i \in DOMAIN s : i \in DOMAIN q \/ i = Len(q) + 1
    BY <1>2
  <2>4. ToSet(q) \cup {e} \subseteq ToSet(s)
    BY <2>1, <2>2 DEF ToSet
  <2>5. ToSet(s) \subseteq ToSet(q) \cup {e}
    BY <2>1, <2>2, <2>3 DEF ToSet
  <2>6. QED
    BY <2>4, <2>5
<1>5. QED
  BY <1>1, <1>3, <1>4 DEF s

(* What is in a queue is of its elements. *)
LEMMA SeqRange ==
  ASSUME NEW S, NEW q \in Seq(S)
  PROVE  ToSet(q) \subseteq S
BY LenProperties, ElementOfSeq DEF ToSet

(* The first element is taken, and is not in the rest. *)
LEMMA TakeFromQueue ==
  ASSUME NEW S, NEW q \in Seq(S), q # <<>>, IsInjective(q)
  PROVE  /\ Head(q) \in S
         /\ Tail(q) \in Seq(S)
         /\ IsInjective(Tail(q))
         /\ ToSet(q) = ToSet(Tail(q)) \cup {Head(q)}
         /\ Head(q) \notin ToSet(Tail(q))
<1> DEFINE s == Tail(q)
<1>1. /\ s \in Seq(S) /\ Len(q) \in Nat /\ Len(q) >= 1
      /\ DOMAIN q = 1..Len(q) /\ DOMAIN s = 1..(Len(q) - 1)
      /\ \A i \in 1..(Len(q) - 1) : s[i] = q[i + 1]
      /\ Head(q) = q[1] /\ q[1] \in S
  BY HeadTailProperties, LenProperties, EmptySeq, ElementOfSeq
<1> HIDE DEF s
<1>2. \A i \in DOMAIN s : i + 1 \in DOMAIN q /\ i + 1 # 1 /\ s[i] = q[i + 1]
  BY <1>1
<1>3. \A j \in DOMAIN q : j = 1 \/ (j - 1 \in DOMAIN s /\ s[j - 1] = q[j])
  BY <1>1
<1>4. IsInjective(s)
  BY <1>1, <1>2 DEF IsInjective
<1>5. ToSet(q) = ToSet(s) \cup {q[1]}
  <2>1. 1 \in DOMAIN q
    BY <1>1
  <2>2. ToSet(s) \cup {q[1]} \subseteq ToSet(q)
    BY <1>2, <2>1 DEF ToSet
  <2>3. ToSet(q) \subseteq ToSet(s) \cup {q[1]}
    BY <1>2, <1>3 DEF ToSet
  <2>4. QED
    BY <2>2, <2>3
<1>6. q[1] \notin ToSet(s)
  <2> SUFFICES ASSUME NEW i \in DOMAIN s, s[i] = q[1] PROVE FALSE
    BY DEF ToSet
  <2>1. 1 \in DOMAIN q /\ q[i + 1] = q[1] /\ i + 1 \in DOMAIN q /\ i + 1 # 1
    BY <1>1, <1>2
  <2>2. QED
    BY <2>1 DEF IsInjective
<1>7. QED
  BY <1>1, <1>4, <1>5, <1>6 DEF s

----------------------------------------------------------------------------
(* The numbers of descriptors and connections, and the values that are none. *)
LEMMA ServerNumbers ==
  /\ Descriptors \subseteq Nat /\ Nil \notin Descriptors
  /\ Connections \subseteq Nat
  /\ Connections = (1..MaxConnections) \cup {Waking}
  /\ Waking \notin 1..MaxConnections
  /\ Nil \notin Connections /\ Foreign \notin Connections
  /\ Listening \notin Connections /\ Unbound \notin Connections
  /\ Listening # Nil /\ Unbound # Nil /\ Foreign # Nil /\ Foreign # Listening /\ Foreign # Unbound
<1>1. Cardinality(Descriptors) \in Nat
  BY ControlAssumption, FS_CardinalityType
<1>2. QED
  BY <1>1, ControlAssumption DEF Nil, Listening, Foreign, Unbound, Connections, Waking

(* Lowest chooses a free descriptor, if there is one. *)
LEMMA LowestIsFree ==
  ASSUME Free # {}
  PROVE  Lowest(Free) \in Descriptors /\ file[Lowest(Free)] = Nil
<1> DEFINE less == OpToRel(<, Nat)
<1>1. Free \subseteq Nat
  BY ServerNumbers DEF Free
<1>2. \E d \in Free : \A e \in Free : ~(<<e, d>> \in less)
  <2> HIDE DEF less
  <2>1. IsWellFoundedOn(less, Nat)
    BY NatLessThanWellFounded DEF less
  <2>2. QED
    BY <1>1, <2>1, WFMin
<1>3. \A d, e \in Nat : ~(<<e, d>> \in less) => d <= e
  BY DEF OpToRel
<1>4. \E d \in Free : \A e \in Free : d <= e
  BY <1>1, <1>2, <1>3
<1>5. QED
  BY <1>4 DEF Free, Lowest

(* The groups of variables are written out everywhere. *)
USE DEF descriptors, network, server, listening, entries, handling, application,
        discovering

(* A part of the invariant is kept when its variables are. *)

LEMMA TypedDataFrame ==
  ASSUME TypedData, UNCHANGED <<file, ControlThreads, Stopped, handler,
     socket>>
  PROVE  TypedData'
BY DEF TypedData

LEMMA TypedPlacesFrame ==
  ASSUME TypedPlaces, UNCHANGED <<listener, ControlSocket, listenSocket,
     accepted, toClose, toJoin, app, discovery>>
  PROVE  TypedPlaces'
BY DEF TypedPlaces

LEMMA TypedCountsFrame ==
  ASSUME TypedCounts, UNCHANGED <<backlog, connections, discoveryWaits, app>>
  PROVE  TypedCounts'
BY DEF TypedCounts

LEMMA ServerKnownFrame ==
  ASSUME ServerKnown, UNCHANGED <<ControlSocket, toClose, file, app, listener,
     listenSocket, discovery>>
  PROVE  ServerKnown'
BY DEF ServerKnown

LEMMA ListenerKnownFrame ==
  ASSUME ListenerKnown, UNCHANGED <<accepted, listener, file, ControlThreads>>
  PROVE  ListenerKnown'
BY DEF ListenerKnown

LEMMA EntriesKnownFrame ==
  ASSUME EntriesKnown, UNCHANGED <<file, ControlThreads, socket, handler,
     Stopped>>
  PROVE  EntriesKnown'
BY DEF EntriesKnown

LEMMA SocketsKnownFrame ==
  ASSUME SocketsKnown, UNCHANGED <<file, ControlThreads, accepted>>
  PROVE  SocketsKnown'
BY DEF SocketsKnown

LEMMA LiveKnownFrame ==
  ASSUME LiveKnown, UNCHANGED <<handler, listener, toJoin, ControlThreads,
     socket>>
  PROVE  LiveKnown'
BY DEF LiveKnown, Live

LEMMA BacklogNewFrame ==
  ASSUME BacklogNew, UNCHANGED <<file, backlog, handler, app>>
  PROVE  BacklogNew'
BY DEF BacklogNew, ToSet, IsInjective

LEMMA FutureNewFrame ==
  ASSUME FutureNew, UNCHANGED <<file, backlog, connections, handler>>
  PROVE  FutureNew'
BY DEF FutureNew, ToSet

LEMMA AcceptedNewFrame ==
  ASSUME AcceptedNew, UNCHANGED <<file, handler, accepted, app>>
  PROVE  AcceptedNew'
BY DEF AcceptedNew

(* A handler that goes on disturbs nothing. *)
LEMMA HandlerGoesOn ==
  ASSUME ControlInv, NEW c \in Connections, Live(c),
         NEW l \in HandlerLabels \ {"none", "ended"},
         handler' = [handler EXCEPT ![c] = l],
         UNCHANGED <<file, ControlThreads, Stopped, socket, listener, toJoin,
                     backlog,
                     connections, accepted, app>>
  PROVE  (TypedData /\ EntriesKnown /\ LiveKnown /\ BacklogNew /\ FutureNew /\ AcceptedNew)'
<1>1. /\ l \notin {"none", "ended"} /\ handler[c] \notin {"none", "ended"}
      /\ \A d \in Connections : handler'[d] = IF d = c THEN l ELSE handler[d]
  BY DEF ControlInv, TypedData, Live
<1>2. TypedData'
  BY <1>1 DEF ControlInv, TypedData
<1>3. EntriesKnown'
  <2>1. \A d \in Descriptors : ControlThreads[d] # Nil => file[d] \in Connections
    BY ServerNumbers DEF ControlInv, TypedData, EntriesKnown
  <2>2. QED
    BY <1>1, <2>1 DEF ControlInv, EntriesKnown
<1>4. LiveKnown'
  BY <1>1 DEF ControlInv, LiveKnown, Live
<1>5. c \notin ToSet(backlog) /\ \A e \in ToSet(backlog) : e \in Connections
  BY <1>1, SeqRange DEF ControlInv, TypedCounts, BacklogNew
<1>6. BacklogNew'
  BY <1>1, <1>5 DEF ControlInv, BacklogNew
<1>7. FutureNew'
  <2>1. \A e \in 1..MaxConnections : e \in Connections
    BY ServerNumbers
  <2>2. QED
    BY <1>1, <2>1 DEF ControlInv, FutureNew
<1>8. AcceptedNew'
  <2>1. Waking \in Connections /\ (accepted # Nil => file[accepted] \in Connections)
    BY ServerNumbers DEF ControlInv, ListenerKnown
  <2>2. QED
    BY <1>1, <2>1 DEF ControlInv, AcceptedNew
<1>9. QED
  BY <1>2, <1>3, <1>4, <1>6, <1>7, <1>8

----------------------------------------------------------------------------
(* Every action preserves the invariant.                                     *)

LEMMA ConnectKeeps ==
  ASSUME ControlInv, Connect
  PROVE  ControlInv'
<1> DEFINE c0 == connections + 1
<1>a. /\ connections \in Nat /\ MaxConnections \in Nat /\ connections < MaxConnections
      /\ connections' = c0 /\ backlog' = Append(backlog, c0)
      /\ UNCHANGED <<file, handler, accepted, app, discoveryWaits>>
  BY ControlAssumption DEF ControlInv, TypedCounts, Connect
<1>b. /\ c0 \in 1..MaxConnections /\ c0 > connections /\ c0 \in Nat
      /\ \A c \in 1..MaxConnections : c > c0 => c > connections /\ c # c0
  BY <1>a
<1>c. c0 \in Connections /\ c0 # Waking
  BY <1>b, ServerNumbers
<1>d. /\ c0 \notin ToSet(backlog) /\ handler[c0] = "none"
      /\ \A d \in Descriptors : file[d] # c0
  BY <1>b DEF ControlInv, FutureNew
<1> HIDE DEF c0
<1>e. /\ backlog' \in Seq(Connections) /\ IsInjective(backlog')
      /\ ToSet(backlog') = ToSet(backlog) \cup {c0}
  <2>1. backlog \in Seq(Connections) /\ IsInjective(backlog)
    BY DEF ControlInv, TypedCounts, BacklogNew
  <2>2. QED
    BY <1>a, <1>c, <1>d, <2>1, AppendToQueue
<1>1. (TypedData /\ TypedPlaces /\ ServerKnown /\ ListenerKnown /\
   EntriesKnown /\ SocketsKnown /\ LiveKnown /\ AcceptedNew)'
  BY TypedDataFrame, TypedPlacesFrame, ServerKnownFrame, ListenerKnownFrame,
     EntriesKnownFrame, SocketsKnownFrame, LiveKnownFrame, AcceptedNewFrame
     DEF ControlInv, Connect, Accepting
<1>2. TypedCounts'
  BY <1>a, <1>b, <1>e DEF ControlInv, TypedCounts
<1>3. BacklogNew'
  BY <1>a, <1>c, <1>d, <1>e DEF ControlInv, BacklogNew
<1>4. FutureNew'
  BY <1>a, <1>b, <1>d, <1>e DEF ControlInv, FutureNew
<1>5. QED
  BY <1>1, <1>2, <1>3, <1>4 DEF ControlInv

LEMMA SendKeeps ==
  ASSUME ControlInv, NEW c \in Connections, Send(c)
  PROVE  ControlInv'
BY TypedDataFrame, TypedPlacesFrame, TypedCountsFrame, ServerKnownFrame,
   ListenerKnownFrame, EntriesKnownFrame, SocketsKnownFrame, LiveKnownFrame,
   BacklogNewFrame, FutureNewFrame, AcceptedNewFrame DEF ControlInv, Send

LEMMA DisconnectKeeps ==
  ASSUME ControlInv, NEW c \in Connections, Disconnect(c)
  PROVE  ControlInv'
BY TypedDataFrame, TypedPlacesFrame, TypedCountsFrame, ServerKnownFrame,
   ListenerKnownFrame, EntriesKnownFrame, SocketsKnownFrame, LiveKnownFrame,
   BacklogNewFrame, FutureNewFrame, AcceptedNewFrame DEF ControlInv, Disconnect

LEMMA OpenFileKeeps ==
  ASSUME ControlInv, OpenFile
  PROVE  ControlInv'
<1> DEFINE d0 == Lowest(Free)
<1>a. /\ d0 \in Descriptors /\ file[d0] = Nil
      /\ file' = [file EXCEPT ![d0] = Foreign]
      /\ UNCHANGED <<app, accepted, listener, ControlSocket, toClose, listenSocket,
                     discovery, ControlThreads, Stopped, handler, socket, toJoin, backlog,
                     connections>>
  BY LowestIsFree DEF OpenFile
<1>b. \A d \in Descriptors : file'[d] = IF d = d0 THEN Foreign ELSE file[d]
  BY <1>a DEF ControlInv, TypedData
<1>c. Nil \notin Connections /\ Listening \notin Connections
      /\ Unbound \notin Connections /\ Foreign \notin Connections
      /\ Listening # Nil /\ Unbound # Nil /\ Foreign # Nil
      /\ Foreign # Listening /\ Foreign # Unbound /\ Nil \notin Descriptors
  BY ServerNumbers
<1>d. \A c \in ToSet(backlog) : c \in Connections
  BY SeqRange DEF ControlInv, TypedCounts
<1>e. Waking \in Connections /\ 1..MaxConnections \subseteq Connections
  BY ServerNumbers
<1> HIDE DEF d0
<1>1. (TypedPlaces /\ TypedCounts /\ LiveKnown)'
  BY TypedPlacesFrame, TypedCountsFrame, LiveKnownFrame DEF ControlInv, OpenFile
<1>2. TypedData'
  BY <1>a DEF ControlInv, TypedData
<1>3. ServerKnown'
  BY <1>a, <1>b, <1>c DEF ControlInv, TypedPlaces, ServerKnown
<1>4. ListenerKnown'
  BY <1>a, <1>b, <1>c DEF ControlInv, TypedPlaces, ListenerKnown
<1>5. EntriesKnown'
  BY <1>a, <1>b, <1>c DEF ControlInv, EntriesKnown
<1>6. SocketsKnown'
  BY <1>a, <1>b, <1>c DEF ControlInv, SocketsKnown
<1>7. BacklogNew'
  BY <1>a, <1>b, <1>c, <1>d DEF ControlInv, BacklogNew
<1>8. FutureNew'
  BY <1>a, <1>b, <1>c, <1>e DEF ControlInv, FutureNew
<1>9. AcceptedNew'
  BY <1>a, <1>b, <1>c, <1>e DEF ControlInv, TypedPlaces, ListenerKnown,
     AcceptedNew
<1>10. QED
  BY <1>1, <1>2, <1>3, <1>4, <1>5, <1>6, <1>7, <1>8, <1>9 DEF ControlInv

LEMMA RefusedAcceptKeeps ==
  ASSUME ControlInv, Accept, Free = {}
  PROVE  ControlInv'
<1>1. (TypedData /\ TypedCounts /\ EntriesKnown /\ SocketsKnown /\ BacklogNew
   /\ FutureNew /\ AcceptedNew)'
  BY TypedDataFrame, TypedCountsFrame, EntriesKnownFrame, SocketsKnownFrame,
     BacklogNewFrame, FutureNewFrame, AcceptedNewFrame DEF ControlInv, Accept
<1>2. TypedPlaces'
  BY ServerNumbers DEF ControlInv, TypedPlaces, Accept
<1>3. ServerKnown'
  BY ServerNumbers DEF ControlInv, ServerKnown, TypedPlaces, Accept
<1>4. ListenerKnown'
  BY ServerNumbers DEF ControlInv, ListenerKnown, TypedPlaces, Accept
<1>5. LiveKnown'
  BY ServerNumbers DEF ControlInv, LiveKnown, Live, Accept
<1>6. QED
  BY <1>1, <1>2, <1>3, <1>4, <1>5 DEF ControlInv

LEMMA TakenAcceptKeeps ==
  ASSUME ControlInv, Accept, Free # {}
  PROVE  ControlInv'
<1> DEFINE d0 == Lowest(Free)
           c0 == Head(backlog)
<1>a. /\ d0 \in Descriptors /\ file[d0] = Nil /\ accepted' = d0
      /\ file' = [file EXCEPT ![d0] = c0]
      /\ backlog # <<>> /\ backlog' = Tail(backlog)
      /\ listener = "accept" /\ listener' = "test"
      /\ UNCHANGED <<app, ControlSocket, toClose, listenSocket, discovery, discoveryWaits,
                     ControlThreads, Stopped, handler, socket, toJoin, connections>>
  BY LowestIsFree DEF Accept
<1> HIDE DEF d0
<1>b. \A d \in Descriptors : file'[d] = IF d = d0 THEN c0 ELSE file[d]
  BY <1>a DEF ControlInv, TypedData
<1>c. Nil \notin Connections /\ Listening \notin Connections
      /\ Unbound \notin Connections /\ Listening # Nil /\ Unbound # Nil
      /\ Nil \notin Descriptors
  BY ServerNumbers
<1>d. /\ c0 \in Connections /\ backlog' \in Seq(Connections) /\ IsInjective(backlog')
      /\ ToSet(backlog) = ToSet(backlog') \cup {c0} /\ c0 \notin ToSet(backlog')
  <2>1. backlog \in Seq(Connections) /\ IsInjective(backlog)
    BY DEF ControlInv, TypedCounts, BacklogNew
  <2>2. QED
    BY <1>a, <2>1, TakeFromQueue
<1> HIDE DEF c0
<1>e. \A c \in ToSet(backlog') : c \in Connections
  BY <1>d, SeqRange
<1>f. /\ handler[c0] = "none" /\ \A d \in Descriptors : file[d] # c0
      /\ accepted = Nil /\ ControlThreads[d0] = Nil
  BY <1>a, <1>c, <1>d DEF ControlInv, BacklogNew, ListenerKnown, EntriesKnown
<1>g. c0 = Waking => app = "join"
  BY <1>a, <1>d DEF ControlInv, BacklogNew, ServerKnown
<1>h. 1..MaxConnections \subseteq Connections /\ Waking \in Connections
  BY ServerNumbers
<1>1. TypedData'
  BY <1>a, <1>d DEF ControlInv, TypedData
<1>2. TypedPlaces'
  BY <1>a DEF ControlInv, TypedPlaces
<1>3. TypedCounts'
  BY <1>a, <1>d DEF ControlInv, TypedCounts
<1>4. ServerKnown'
  BY <1>a, <1>b, <1>c, <1>d DEF ControlInv, TypedPlaces, ServerKnown
<1>5. ListenerKnown'
  BY <1>a, <1>b, <1>c, <1>d, <1>f DEF ListenerKnown
<1>6. EntriesKnown'
  BY <1>a, <1>b, <1>f DEF ControlInv, EntriesKnown
<1>7. SocketsKnown'
  BY <1>a, <1>b, <1>c, <1>f DEF ControlInv, SocketsKnown
<1>8. LiveKnown'
  BY <1>a DEF ControlInv, LiveKnown, Live
<1>9. BacklogNew'
  BY <1>a, <1>b, <1>d, <1>e DEF ControlInv, BacklogNew
<1>10. FutureNew'
  BY <1>a, <1>b, <1>d, <1>h DEF ControlInv, FutureNew
<1>11. AcceptedNew'
  BY <1>a, <1>b, <1>c, <1>f, <1>g, <1>h DEF ControlInv, AcceptedNew
<1>12. QED
  BY <1>1, <1>2, <1>3, <1>4, <1>5, <1>6, <1>7, <1>8, <1>9, <1>10, <1>11 DEF
     ControlInv

LEMMA PassedTestSocketKeeps ==
  ASSUME ControlInv, TestSocket, ControlSocket = listenSocket
  PROVE  ControlInv'
<1>1. (TypedData /\ TypedCounts /\ EntriesKnown /\ SocketsKnown /\ BacklogNew
   /\ FutureNew /\ AcceptedNew)'
  BY TypedDataFrame, TypedCountsFrame, EntriesKnownFrame, SocketsKnownFrame,
     BacklogNewFrame, FutureNewFrame, AcceptedNewFrame DEF ControlInv, TestSocket
<1>2. TypedPlaces'
  BY ServerNumbers DEF ControlInv, TypedPlaces, TestSocket
<1>3. ServerKnown'
  BY ServerNumbers DEF ControlInv, ServerKnown, TypedPlaces, TestSocket
<1>4. ListenerKnown'
  <2>1. listener = "test" /\ listener' = "start" /\ UNCHANGED <<accepted, file, ControlThreads>>
    BY DEF TestSocket
  <2>2. accepted # Nil /\ accepted \in Descriptors /\ ControlSocket # Nil
    BY <2>1 DEF ControlInv, TypedPlaces, ListenerKnown, ServerKnown
  <2>3. file[accepted] # Waking
    BY <2>2 DEF ControlInv, AcceptedNew, ServerKnown
  <2>4. QED
    BY <2>1, <2>2, <2>3 DEF ControlInv, ListenerKnown
<1>5. LiveKnown'
  BY ServerNumbers DEF ControlInv, LiveKnown, Live, TestSocket
<1>6. QED
  BY <1>1, <1>2, <1>3, <1>4, <1>5 DEF ControlInv

LEMMA FailedTestSocketKeeps ==
  ASSUME ControlInv, TestSocket, ControlSocket # listenSocket
  PROVE  ControlInv'
<1>a. /\ file' = [file EXCEPT ![accepted] = Nil] /\ accepted' = Nil
      /\ listener = "test" /\ listener' = "shut"
      /\ UNCHANGED <<app, ControlSocket, toClose, listenSocket, discovery, backlog,
                     ControlThreads, Stopped, handler, socket, toJoin, connections>>
  BY DEF TestSocket
<1>b. \A d \in Descriptors : file'[d] = IF d = accepted THEN Nil ELSE file[d]
  BY <1>a DEF ControlInv, TypedData
<1>c. Nil \notin Connections /\ Listening \notin Connections
      /\ Unbound \notin Connections /\ Listening # Nil /\ Unbound # Nil
  BY ServerNumbers
<1>d. /\ accepted # Nil /\ accepted \in Descriptors /\ file[accepted] \in Connections
      /\ ControlThreads[accepted] = Nil
  BY <1>a DEF ControlInv, TypedPlaces, ListenerKnown
<1>e. \A c \in ToSet(backlog) : c \in Connections
  BY SeqRange DEF ControlInv, TypedCounts
<1>f. 1..MaxConnections \subseteq Connections /\ Waking \in Connections
  BY ServerNumbers
<1>1. (TypedCounts)'
  BY TypedCountsFrame DEF ControlInv, TestSocket
<1>2. TypedData'
  BY <1>a DEF ControlInv, TypedData
<1>3. TypedPlaces'
  BY <1>a DEF ControlInv, TypedPlaces
<1>4. ServerKnown'
  BY <1>a, <1>b, <1>c, <1>d DEF ControlInv, TypedPlaces, ServerKnown
<1>5. ListenerKnown'
  BY <1>a DEF ListenerKnown
<1>6. EntriesKnown'
  BY <1>a, <1>b, <1>d DEF ControlInv, EntriesKnown
<1>7. SocketsKnown'
  BY <1>a, <1>b, <1>c, <1>d DEF ControlInv, SocketsKnown
<1>8. LiveKnown'
  BY <1>a DEF ControlInv, LiveKnown, Live
<1>9. BacklogNew'
  BY <1>a, <1>b, <1>c, <1>e DEF ControlInv, BacklogNew
<1>10. FutureNew'
  BY <1>a, <1>b, <1>c, <1>f DEF ControlInv, FutureNew
<1>11. AcceptedNew'
  BY <1>a, <1>b, <1>c, <1>f DEF ControlInv, AcceptedNew
<1>12. QED
  BY <1>1, <1>2, <1>3, <1>4, <1>5, <1>6, <1>7, <1>8, <1>9, <1>10, <1>11 DEF
     ControlInv

LEMMA StartHandlerKeeps ==
  ASSUME ControlInv, StartHandler
  PROVE  ControlInv'
<1> DEFINE a0 == accepted
           c0 == file[accepted]
<1>a. /\ ControlThreads' = [ControlThreads EXCEPT ![a0] = c0]
      /\ Stopped' = [Stopped EXCEPT ![a0] = FALSE]
      /\ socket' = [socket EXCEPT ![c0] = a0]
      /\ accepted' = Nil /\ listener = "start" /\ listener' = "sweep"
      /\ UNCHANGED <<app, ControlSocket, toClose, listenSocket, discovery, backlog,
                     file, toJoin, connections>>
  BY DEF StartHandler
<1>b. PICK l \in {"recv", "end"} : handler' = [handler EXCEPT ![c0] = l]
  BY DEF StartHandler, HandlerAt
<1>c. Nil \notin Connections /\ 1..MaxConnections \subseteq Connections
      /\ Waking \in Connections
  BY ServerNumbers
<1>d. /\ a0 # Nil /\ a0 \in Descriptors /\ c0 \in Connections /\ c0 # Waking
      /\ ControlThreads[a0] = Nil /\ handler[c0] = "none" /\ file[a0] = c0
  BY <1>a DEF ControlInv, TypedPlaces, ListenerKnown, AcceptedNew
<1> HIDE DEF a0, c0
<1>e. /\ \A d \in Descriptors : ControlThreads'[d] = IF d = a0 THEN c0 ELSE ControlThreads[d]
      /\ \A d \in Descriptors : Stopped'[d] = IF d = a0 THEN FALSE ELSE Stopped[d]
      /\ \A c \in Connections : /\ socket'[c] = IF c = c0 THEN a0 ELSE socket[c]
                                /\ handler'[c] = IF c = c0 THEN l ELSE handler[c]
  BY <1>a, <1>b DEF ControlInv, TypedData
<1>f. \A c \in ToSet(backlog) : c \in Connections /\ c # c0
  <2>1. \A c \in ToSet(backlog) : c \in Connections
    BY SeqRange DEF ControlInv, TypedCounts
  <2>2. QED
    BY <1>d, <2>1 DEF ControlInv, BacklogNew
<1>g. \A c \in 1..MaxConnections : c > connections => c # c0
  BY <1>d DEF ControlInv, FutureNew
<1>h. \A d \in Descriptors : ControlThreads[d] # Nil =>
        d # a0 /\ file[d] \in Connections /\ file[d] # c0
  <2>1. \A d \in Descriptors : ControlThreads[d] # Nil => ControlThreads[d] \in Connections
    BY DEF ControlInv, TypedData
  <2>2. QED
    BY <1>d, <2>1 DEF ControlInv, EntriesKnown
<1>i. \A c \in Connections : handler[c] # "none" => socket[c] \in Descriptors
  BY DEF ControlInv, TypedData
<1>1. (TypedCounts)'
  BY TypedCountsFrame DEF ControlInv, StartHandler, HandlerAt
<1>2. TypedData'
  <2>1. /\ ControlThreads' \in [Descriptors -> Connections \cup {Nil}]
        /\ Stopped' \in [Descriptors -> BOOLEAN]
    BY <1>a, <1>d DEF ControlInv, TypedData
  <2>2. handler' \in [Connections -> HandlerLabels]
    BY <1>b, <1>d DEF ControlInv, TypedData, HandlerLabels
  <2>3. socket' \in [Connections -> Descriptors \cup {Nil}]
    BY <1>a, <1>d DEF ControlInv, TypedData
  <2>4. QED
    BY <1>a, <1>d, <1>e, <2>1, <2>2, <2>3 DEF ControlInv, TypedData
<1>3. TypedPlaces'
  BY <1>a DEF ControlInv, TypedPlaces
<1>4. ServerKnown'
  BY <1>a DEF ControlInv, ServerKnown
<1>5. ListenerKnown'
  BY <1>a DEF ListenerKnown
<1>6. EntriesKnown'
  <2> SUFFICES ASSUME NEW d \in Descriptors, ControlThreads'[d] # Nil
               PROVE  /\ file'[d] = ControlThreads'[d]
                      /\ socket'[file'[d]] = d
                      /\ handler'[file'[d]] # "none"
                      /\ Stopped'[d] => handler'[file'[d]] = "ended"
    BY DEF EntriesKnown
  <2>1. CASE d = a0
    BY <1>a, <1>b, <1>d, <1>e, <2>1
  <2>2. CASE d # a0
    <3>1. /\ ControlThreads'[d] = ControlThreads[d] /\ Stopped'[d] = Stopped[d]
          /\ file'[d] = file[d] /\ file[d] \in Connections /\ file[d] # c0
      BY <1>a, <1>e, <1>h, <2>2
    <3>2. QED
      BY <1>e, <3>1 DEF ControlInv, EntriesKnown
  <2>3. QED
    BY <2>1, <2>2
<1>7. SocketsKnown'
  BY <1>a, <1>d, <1>e DEF ControlInv, SocketsKnown, a0
<1>8. LiveKnown'
  BY <1>a, <1>b, <1>c, <1>d, <1>e, <1>i DEF ControlInv, LiveKnown, Live
<1>9. BacklogNew'
  BY <1>a, <1>e, <1>f DEF ControlInv, BacklogNew
<1>10. FutureNew'
  BY <1>a, <1>c, <1>e, <1>g DEF ControlInv, FutureNew
<1>11. AcceptedNew'
  BY <1>a, <1>c, <1>d, <1>e DEF ControlInv, AcceptedNew, a0, c0
<1>12. QED
  BY <1>1, <1>2, <1>3, <1>4, <1>5, <1>6, <1>7, <1>8, <1>9, <1>10, <1>11 DEF
     ControlInv

LEMMA SweepKeeps ==
  ASSUME ControlInv, Sweep
  PROVE  ControlInv'
<1> DEFINE S == {d \in Entries : Stopped[d]}
<1>a. /\ listener = "sweep" /\ listener' = "join" /\ toJoin' = {ControlThreads[d] : d \in S}
      /\ file' = [d \in Descriptors |-> IF d \in S THEN Nil ELSE file[d]]
      /\ ControlThreads' = [d \in Descriptors |->
                               IF d \in S THEN Nil ELSE ControlThreads[d]]
      /\ UNCHANGED <<app, ControlSocket, toClose, listenSocket, discovery, backlog, Stopped,
                     handler, socket, accepted, connections>>
  BY DEF Sweep, RemoveEntries, Entries
<1>b. /\ \A d \in Descriptors : file'[d] = IF d \in S THEN Nil ELSE file[d]
      /\ \A d \in Descriptors :
           ControlThreads'[d] = IF d \in S THEN Nil ELSE ControlThreads[d]
  BY <1>a
<1>c. Nil \notin Connections /\ Listening \notin Connections
      /\ Unbound \notin Connections /\ Listening # Nil /\ Unbound # Nil
      /\ 1..MaxConnections \subseteq Connections /\ Waking \in Connections
  BY ServerNumbers
<1>d. \A d \in S : d \in Descriptors /\ ControlThreads[d] # Nil
  BY DEF Entries
<1>e. /\ accepted = Nil
      /\ file \in [Descriptors -> Connections \cup {Nil, Listening, Foreign, Unbound}]
      /\ \A d \in Descriptors : ControlThreads[d] \in Connections \cup {Nil}
  BY <1>a DEF ControlInv, TypedData, ListenerKnown
<1>f. \A d \in S : file[d] = ControlThreads[d] /\ file[d] \in Connections /\ handler[file[d]] = "ended"
  BY <1>d, <1>e DEF ControlInv, EntriesKnown
<1>g. \A c \in Connections : Live(c) => socket[c] \in Descriptors /\ ControlThreads[socket[c]] = c
  BY <1>a DEF ControlInv, TypedData, LiveKnown, Live
<1>h. \A c \in ToSet(backlog) : c \in Connections
  BY SeqRange DEF ControlInv, TypedCounts
<1> HIDE DEF S
<1>1. (TypedCounts)'
  BY TypedCountsFrame DEF ControlInv, Sweep, RemoveEntries, Entries
<1>2. TypedData'
  BY <1>a, <1>e DEF ControlInv, TypedData
<1>3. TypedPlaces'
  BY <1>a, <1>d, <1>e DEF ControlInv, TypedPlaces
<1>4. ServerKnown'
  BY <1>a, <1>b, <1>c, <1>f DEF ControlInv, TypedPlaces, ServerKnown
<1>5. ListenerKnown'
  BY <1>a, <1>b, <1>e DEF ListenerKnown
<1>6. EntriesKnown'
  BY <1>a, <1>b DEF ControlInv, EntriesKnown
<1>7. SocketsKnown'
  BY <1>a, <1>b, <1>c, <1>e DEF ControlInv, SocketsKnown
<1>8. LiveKnown'
  BY <1>a, <1>b, <1>c, <1>e, <1>f, <1>g DEF LiveKnown, Live
<1>9. BacklogNew'
  BY <1>a, <1>b, <1>c, <1>h DEF ControlInv, BacklogNew
<1>10. FutureNew'
  BY <1>a, <1>b, <1>c DEF ControlInv, FutureNew
<1>11. AcceptedNew'
  BY <1>a, <1>b, <1>c, <1>e DEF ControlInv, AcceptedNew
<1>12. QED
  BY <1>1, <1>2, <1>3, <1>4, <1>5, <1>6, <1>7, <1>8, <1>9, <1>10, <1>11 DEF
     ControlInv

LEMMA ShutDownKeeps ==
  ASSUME ControlInv, ShutDown
  PROVE  ControlInv'
<1> DEFINE S == Entries
<1>a. /\ listener = "shut" /\ listener' = "join all" /\ toJoin' = {ControlThreads[d] : d \in S}
      /\ file' = [d \in Descriptors |-> IF d \in S THEN Nil ELSE file[d]]
      /\ ControlThreads' = [d \in Descriptors |->
                               IF d \in S THEN Nil ELSE ControlThreads[d]]
      /\ UNCHANGED <<app, ControlSocket, toClose, listenSocket, discovery, backlog, Stopped,
                     handler, socket, accepted, connections>>
  BY DEF ShutDown, RemoveEntries, Entries
<1>b. /\ \A d \in Descriptors : file'[d] = IF d \in S THEN Nil ELSE file[d]
      /\ \A d \in Descriptors :
           ControlThreads'[d] = IF d \in S THEN Nil ELSE ControlThreads[d]
  BY <1>a
<1>c. Nil \notin Connections /\ Listening \notin Connections
      /\ Unbound \notin Connections /\ Listening # Nil /\ Unbound # Nil
      /\ 1..MaxConnections \subseteq Connections /\ Waking \in Connections
  BY ServerNumbers
<1>d. \A d \in S : d \in Descriptors /\ ControlThreads[d] # Nil
  BY DEF Entries
<1>e. /\ accepted = Nil
      /\ file \in [Descriptors -> Connections \cup {Nil, Listening, Foreign, Unbound}]
      /\ \A d \in Descriptors : ControlThreads[d] \in Connections \cup {Nil}
  BY <1>a DEF ControlInv, TypedData, ListenerKnown
<1>f. \A d \in S : file[d] = ControlThreads[d] /\ file[d] \in Connections
  BY <1>d, <1>e DEF ControlInv, EntriesKnown
<1>g. \A c \in Connections : Live(c) => socket[c] \in Descriptors /\ ControlThreads[socket[c]] = c
  BY <1>a DEF ControlInv, TypedData, LiveKnown, Live
<1>h. \A c \in ToSet(backlog) : c \in Connections
  BY SeqRange DEF ControlInv, TypedCounts
<1>i. \A d \in Descriptors : ControlThreads[d] # Nil => d \in S
  BY DEF Entries
<1> HIDE DEF S
<1>1. (TypedCounts)'
  BY TypedCountsFrame DEF ControlInv, ShutDown, RemoveEntries, Entries
<1>2. TypedData'
  BY <1>a, <1>e DEF ControlInv, TypedData
<1>3. TypedPlaces'
  BY <1>a, <1>d, <1>e DEF ControlInv, TypedPlaces
<1>4. ServerKnown'
  BY <1>a, <1>b, <1>c, <1>f DEF ControlInv, TypedPlaces, ServerKnown
<1>5. ListenerKnown'
  BY <1>a, <1>b, <1>e, <1>i DEF ListenerKnown
<1>6. EntriesKnown'
  BY <1>a, <1>b DEF ControlInv, EntriesKnown
<1>7. SocketsKnown'
  BY <1>a, <1>b, <1>c, <1>e DEF ControlInv, SocketsKnown
<1>8. LiveKnown'
  <2>1. \A c \in Connections : Live(c) => c \in toJoin'
    <3>1. \A c \in Connections : c # Nil
      BY <1>c
    <3>2. QED
      BY <1>a, <1>g, <1>i, <3>1
  <2>2. QED
    BY <1>a, <2>1 DEF LiveKnown, Live
<1>9. BacklogNew'
  BY <1>a, <1>b, <1>c, <1>h DEF ControlInv, BacklogNew
<1>10. FutureNew'
  BY <1>a, <1>b, <1>c DEF ControlInv, FutureNew
<1>11. AcceptedNew'
  BY <1>a, <1>b, <1>c, <1>e DEF ControlInv, AcceptedNew
<1>12. QED
  BY <1>1, <1>2, <1>3, <1>4, <1>5, <1>6, <1>7, <1>8, <1>9, <1>10, <1>11 DEF
     ControlInv

LEMMA JoinHandlersKeeps ==
  ASSUME ControlInv, JoinHandlers
  PROVE  ControlInv'
<1>1. (TypedData /\ TypedCounts /\ EntriesKnown /\ SocketsKnown /\ BacklogNew
   /\ FutureNew /\ AcceptedNew)'
  BY TypedDataFrame, TypedCountsFrame, EntriesKnownFrame, SocketsKnownFrame,
     BacklogNewFrame, FutureNewFrame, AcceptedNewFrame DEF ControlInv,
     JoinHandlers
<1>2. TypedPlaces'
  BY ServerNumbers DEF ControlInv, TypedPlaces, JoinHandlers
<1>3. ServerKnown'
  BY ServerNumbers DEF ControlInv, ServerKnown, TypedPlaces, JoinHandlers
<1>4. ListenerKnown'
  BY ServerNumbers DEF ControlInv, ListenerKnown, TypedPlaces, JoinHandlers
<1>5. LiveKnown'
  BY ServerNumbers DEF ControlInv, LiveKnown, Live, JoinHandlers
<1>6. QED
  BY <1>1, <1>2, <1>3, <1>4, <1>5 DEF ControlInv

LEMMA EndKeeps ==
  ASSUME ControlInv, NEW c \in Connections, End(c)
  PROVE  ControlInv'
<1>a. /\ handler[c] = "end" /\ handler' = [handler EXCEPT ![c] = "ended"]
      /\ Stopped' = [d \in Descriptors |-> d \in EntryOf(c) \/ Stopped[d]]
      /\ UNCHANGED <<app, listener, backlog, file, ControlThreads, socket, toJoin, accepted,
                     connections>>
  BY DEF End, HandlerAt
<1>b. /\ \A e \in Connections : handler'[e] = IF e = c THEN "ended" ELSE handler[e]
      /\ \A d \in Descriptors : Stopped'[d] <=> d \in EntryOf(c) \/ Stopped[d]
  BY <1>a DEF ControlInv, TypedData
<1>c. /\ \A d \in Descriptors : ControlThreads[d] \in Connections \cup {Nil}
      /\ socket[c] \in Descriptors
  BY <1>a DEF ControlInv, TypedData
<1>d. \A d \in EntryOf(c) : ControlThreads[d] = c
  <2>1. IF listener = "join all" THEN c \in toJoin ELSE ControlThreads[socket[c]] = c
    BY <1>a DEF ControlInv, LiveKnown, Live
  <2>2. listener = "join all" => ControlThreads[socket[c]] = Nil
    BY <1>c DEF ControlInv, ListenerKnown
  <2>3. QED
    BY <2>1, <2>2 DEF EntryOf
<1>e. \A e \in ToSet(backlog) : e \in Connections /\ e # c
  <2>1. \A e \in ToSet(backlog) : e \in Connections
    BY SeqRange DEF ControlInv, TypedCounts
  <2>2. QED
    BY <1>a, <2>1 DEF ControlInv, BacklogNew
<1>f. 1..MaxConnections \subseteq Connections /\ Waking \in Connections
  BY ServerNumbers
<1>1. (TypedPlaces /\ TypedCounts /\ ServerKnown /\ ListenerKnown /\
   SocketsKnown)'
  BY TypedPlacesFrame, TypedCountsFrame, ServerKnownFrame, ListenerKnownFrame,
     SocketsKnownFrame DEF ControlInv, End, HandlerAt, EntryOf
<1>2. TypedData'
  BY <1>a DEF ControlInv, TypedData, HandlerLabels
<1>3. EntriesKnown'
  <2>1. \A d \in Descriptors : ControlThreads[d] # Nil =>
          file[d] \in Connections /\ file[d] = ControlThreads[d]
    BY <1>c DEF ControlInv, EntriesKnown
  <2>2. QED
    BY <1>a, <1>b, <1>d, <2>1 DEF ControlInv, EntriesKnown
<1>4. LiveKnown'
  BY <1>a, <1>b DEF ControlInv, LiveKnown, Live
<1>5. BacklogNew'
  BY <1>a, <1>b, <1>e DEF ControlInv, BacklogNew
<1>6. FutureNew'
  BY <1>a, <1>b, <1>f DEF ControlInv, FutureNew
<1>7. AcceptedNew'
  <2>1. accepted # Nil => file[accepted] \in Connections
    BY DEF ControlInv, ListenerKnown
  <2>2. QED
    BY <1>a, <1>b, <1>f, <2>1 DEF ControlInv, AcceptedNew
<1>8. QED
  BY <1>1, <1>2, <1>3, <1>4, <1>5, <1>6, <1>7 DEF ControlInv

LEMMA RecvKeeps ==
  ASSUME ControlInv, NEW c \in Connections, Recv(c)
  PROVE  ControlInv'
<1>a. PICK l \in HandlerLabels \ {"none", "ended"} :
        /\ Live(c) /\ handler' = [handler EXCEPT ![c] = l]
        /\ UNCHANGED <<file, ControlThreads, Stopped, socket, listener, toJoin, backlog,
                       connections, accepted, app>>
  BY DEF Live, Recv, HandlerAt, HandlerLabels
<1>b. (TypedData /\ EntriesKnown /\ LiveKnown /\ BacklogNew /\ FutureNew /\ AcceptedNew)'
  BY <1>a, HandlerGoesOn
<1>1. (TypedPlaces /\ TypedCounts /\ ServerKnown /\ ListenerKnown /\
   SocketsKnown)'
  BY TypedPlacesFrame, TypedCountsFrame, ServerKnownFrame, ListenerKnownFrame,
     SocketsKnownFrame DEF ControlInv, Recv, HandlerAt
<1>2. QED
  BY <1>1, <1>b DEF ControlInv

LEMMA ReceivedKeeps ==
  ASSUME ControlInv, NEW c \in Connections, Received(c)
  PROVE  ControlInv'
<1>a. PICK l \in HandlerLabels \ {"none", "ended"} :
        /\ Live(c) /\ handler' = [handler EXCEPT ![c] = l]
        /\ UNCHANGED <<file, ControlThreads, Stopped, socket, listener, toJoin, backlog,
                       connections, accepted, app>>
  BY DEF Live, Received, HandlerAt, HandlerLabels
<1>b. (TypedData /\ EntriesKnown /\ LiveKnown /\ BacklogNew /\ FutureNew /\ AcceptedNew)'
  BY <1>a, HandlerGoesOn
<1>1. (TypedPlaces /\ TypedCounts /\ ServerKnown /\ ListenerKnown /\
   SocketsKnown)'
  BY TypedPlacesFrame, TypedCountsFrame, ServerKnownFrame, ListenerKnownFrame,
     SocketsKnownFrame DEF ControlInv, Received, HandlerAt
<1>2. QED
  BY <1>1, <1>b DEF ControlInv

LEMMA ReplyKeeps ==
  ASSUME ControlInv, NEW c \in Connections, Reply(c)
  PROVE  ControlInv'
<1>a. PICK l \in HandlerLabels \ {"none", "ended"} :
        /\ Live(c) /\ handler' = [handler EXCEPT ![c] = l]
        /\ UNCHANGED <<file, ControlThreads, Stopped, socket, listener, toJoin, backlog,
                       connections, accepted, app>>
  BY DEF Live, Reply, HandlerAt, HandlerLabels
<1>b. (TypedData /\ EntriesKnown /\ LiveKnown /\ BacklogNew /\ FutureNew /\ AcceptedNew)'
  BY <1>a, HandlerGoesOn
<1>1. (TypedPlaces /\ TypedCounts /\ ServerKnown /\ ListenerKnown /\
   SocketsKnown)'
  BY TypedPlacesFrame, TypedCountsFrame, ServerKnownFrame, ListenerKnownFrame,
     SocketsKnownFrame DEF ControlInv, Reply, HandlerAt
<1>2. QED
  BY <1>1, <1>b DEF ControlInv

LEMMA SendFailsKeeps ==
  ASSUME ControlInv, NEW c \in Connections, SendFails(c)
  PROVE  ControlInv'
<1>a. PICK l \in HandlerLabels \ {"none", "ended"} :
        /\ Live(c) /\ handler' = [handler EXCEPT ![c] = l]
        /\ UNCHANGED <<file, ControlThreads, Stopped, socket, listener, toJoin, backlog,
                       connections, accepted, app>>
  BY DEF Live, SendFails, HandlerAt, HandlerLabels
<1>b. (TypedData /\ EntriesKnown /\ LiveKnown /\ BacklogNew /\ FutureNew /\ AcceptedNew)'
  BY <1>a, HandlerGoesOn
<1>1. (TypedPlaces /\ TypedCounts /\ ServerKnown /\ ListenerKnown /\
   SocketsKnown)'
  BY TypedPlacesFrame, TypedCountsFrame, ServerKnownFrame, ListenerKnownFrame,
     SocketsKnownFrame DEF ControlInv, SendFails, HandlerAt
<1>2. QED
  BY <1>1, <1>b DEF ControlInv

LEMMA ClientReadsKeeps ==
  ASSUME ControlInv, NEW c \in Connections, ClientReads(c)
  PROVE  ControlInv'
<1>a. PICK l \in HandlerLabels \ {"none", "ended"} :
        /\ Live(c) /\ handler' = [handler EXCEPT ![c] = l]
        /\ UNCHANGED <<file, ControlThreads, Stopped, socket, listener, toJoin, backlog,
                       connections, accepted, app>>
  BY DEF Live, ClientReads, HandlerAt, HandlerLabels
<1>b. (TypedData /\ EntriesKnown /\ LiveKnown /\ BacklogNew /\ FutureNew /\ AcceptedNew)'
  BY <1>a, HandlerGoesOn
<1>1. (TypedPlaces /\ TypedCounts /\ ServerKnown /\ ListenerKnown /\
   SocketsKnown)'
  BY TypedPlacesFrame, TypedCountsFrame, ServerKnownFrame, ListenerKnownFrame,
     SocketsKnownFrame DEF ControlInv, ClientReads, HandlerAt
<1>2. QED
  BY <1>1, <1>b DEF ControlInv

LEMMA OtherAnswersKeeps ==
  ASSUME ControlInv, NEW c \in Connections, OtherAnswers(c)
  PROVE  ControlInv'
<1>a. PICK l \in HandlerLabels \ {"none", "ended"} :
        /\ Live(c) /\ handler' = [handler EXCEPT ![c] = l]
        /\ UNCHANGED <<file, ControlThreads, Stopped, socket, listener, toJoin, backlog,
                       connections, accepted, app>>
  BY DEF Live, OtherAnswers, HandlerAt, HandlerLabels
<1>b. (TypedData /\ EntriesKnown /\ LiveKnown /\ BacklogNew /\ FutureNew /\ AcceptedNew)'
  BY <1>a, HandlerGoesOn
<1>1. (TypedPlaces /\ TypedCounts /\ ServerKnown /\ ListenerKnown /\
   SocketsKnown)'
  BY TypedPlacesFrame, TypedCountsFrame, ServerKnownFrame, ListenerKnownFrame,
     SocketsKnownFrame DEF ControlInv, OtherAnswers, HandlerAt
<1>2. QED
  BY <1>1, <1>b DEF ControlInv

LEMMA DiscoveryListensKeeps ==
  ASSUME ControlInv, DiscoveryListens
  PROVE  ControlInv'
<1>1. (TypedData /\ TypedCounts /\ ListenerKnown /\ EntriesKnown /\
   SocketsKnown /\ LiveKnown /\ BacklogNew /\ FutureNew /\ AcceptedNew)'
  BY TypedDataFrame, TypedCountsFrame, ListenerKnownFrame, EntriesKnownFrame,
     SocketsKnownFrame, LiveKnownFrame, BacklogNewFrame, FutureNewFrame,
     AcceptedNewFrame DEF ControlInv, DiscoveryListens
<1>2. TypedPlaces'
  BY ServerNumbers DEF ControlInv, TypedPlaces, DiscoveryListens
<1>3. ServerKnown'
  BY ServerNumbers DEF ControlInv, ServerKnown, TypedPlaces, DiscoveryListens
<1>4. QED
  BY <1>1, <1>2, <1>3 DEF ControlInv

LEMMA DiscoveryFailsKeeps ==
  ASSUME ControlInv, DiscoveryFails
  PROVE  ControlInv'
<1>1. (TypedData /\ TypedCounts /\ ListenerKnown /\ EntriesKnown /\
   SocketsKnown /\ LiveKnown /\ BacklogNew /\ FutureNew /\ AcceptedNew)'
  BY TypedDataFrame, TypedCountsFrame, ListenerKnownFrame, EntriesKnownFrame,
     SocketsKnownFrame, LiveKnownFrame, BacklogNewFrame, FutureNewFrame,
     AcceptedNewFrame DEF ControlInv, DiscoveryFails
<1>2. TypedPlaces'
  BY ServerNumbers DEF ControlInv, TypedPlaces, DiscoveryFails
<1>3. ServerKnown'
  BY ServerNumbers DEF ControlInv, ServerKnown, TypedPlaces, DiscoveryFails
<1>4. QED
  BY <1>1, <1>2, <1>3 DEF ControlInv

LEMMA DiscoveryTestsKeeps ==
  ASSUME ControlInv, DiscoveryTests
  PROVE  ControlInv'
<1>1. (TypedData /\ TypedCounts /\ ListenerKnown /\ EntriesKnown /\
   SocketsKnown /\ LiveKnown /\ BacklogNew /\ FutureNew /\ AcceptedNew)'
  BY TypedDataFrame, TypedCountsFrame, ListenerKnownFrame, EntriesKnownFrame,
     SocketsKnownFrame, LiveKnownFrame, BacklogNewFrame, FutureNewFrame,
     AcceptedNewFrame DEF ControlInv, DiscoveryTests
<1>2. TypedPlaces'
  BY ServerNumbers DEF ControlInv, TypedPlaces, DiscoveryTests
<1>3. ServerKnown'
  BY ServerNumbers DEF ControlInv, ServerKnown, TypedPlaces, DiscoveryTests
<1>4. QED
  BY <1>1, <1>2, <1>3 DEF ControlInv

LEMMA DiscoveryTestsAgainKeeps ==
  ASSUME ControlInv, DiscoveryTestsAgain
  PROVE  ControlInv'
<1>1. (TypedData /\ TypedCounts /\ ListenerKnown /\ EntriesKnown /\
   SocketsKnown /\ LiveKnown /\ BacklogNew /\ FutureNew /\ AcceptedNew)'
  BY TypedDataFrame, TypedCountsFrame, ListenerKnownFrame, EntriesKnownFrame,
     SocketsKnownFrame, LiveKnownFrame, BacklogNewFrame, FutureNewFrame,
     AcceptedNewFrame DEF ControlInv, DiscoveryTestsAgain
<1>2. TypedPlaces'
  BY ServerNumbers DEF ControlInv, TypedPlaces, DiscoveryTestsAgain
<1>3. ServerKnown'
  BY ServerNumbers DEF ControlInv, ServerKnown, TypedPlaces, DiscoveryTestsAgain
<1>4. QED
  BY <1>1, <1>2, <1>3 DEF ControlInv

LEMMA DiscoveryClientAsksKeeps ==
  ASSUME ControlInv, DiscoveryClientAsks
  PROVE  ControlInv'
<1>1. (TypedData /\ TypedCounts /\ ListenerKnown /\ EntriesKnown /\
   SocketsKnown /\ LiveKnown /\ BacklogNew /\ FutureNew /\ AcceptedNew)'
  BY TypedDataFrame, TypedCountsFrame, ListenerKnownFrame, EntriesKnownFrame,
     SocketsKnownFrame, LiveKnownFrame, BacklogNewFrame, FutureNewFrame,
     AcceptedNewFrame DEF ControlInv, DiscoveryClientAsks
<1>2. TypedPlaces'
  BY ServerNumbers DEF ControlInv, TypedPlaces, DiscoveryClientAsks
<1>3. ServerKnown'
  BY ServerNumbers DEF ControlInv, ServerKnown, TypedPlaces, DiscoveryClientAsks
<1>4. QED
  BY <1>1, <1>2, <1>3 DEF ControlInv

LEMMA DiscoveryAcceptsKeeps ==
  ASSUME ControlInv, DiscoveryAccepts
  PROVE  ControlInv'
<1>1. (TypedData /\ ListenerKnown /\ EntriesKnown /\ SocketsKnown /\ LiveKnown
   /\ BacklogNew /\ FutureNew /\ AcceptedNew)'
  BY TypedDataFrame, ListenerKnownFrame, EntriesKnownFrame, SocketsKnownFrame,
     LiveKnownFrame, BacklogNewFrame, FutureNewFrame, AcceptedNewFrame DEF
     ControlInv, DiscoveryAccepts
<1>2. TypedPlaces'
  BY ServerNumbers DEF ControlInv, TypedPlaces, DiscoveryAccepts
<1>3. TypedCounts'
  <2>1. /\ discoveryWaits' = discoveryWaits \/ (discoveryWaits > 0
                                               /\ discoveryWaits' = discoveryWaits - 1)
        /\ UNCHANGED <<backlog, connections, app>>
    BY DEF DiscoveryAccepts
  <2>2. discoveryWaits \in {0, 1, 2} /\ backlog \in Seq(Connections) /\ connections \in Nat
    BY DEF ControlInv, TypedCounts
  <2>3. discoveryWaits' \in {0, 1, 2} /\ (discoveryWaits' = 2 => discoveryWaits = 2)
    BY <2>1, <2>2
  <2>4. QED
    BY <2>1, <2>2, <2>3 DEF ControlInv, TypedCounts
<1>4. ServerKnown'
  BY ServerNumbers DEF ControlInv, ServerKnown, TypedPlaces, DiscoveryAccepts
<1>5. QED
  BY <1>1, <1>2, <1>3, <1>4 DEF ControlInv

LEMMA DiscoveryConnectKeeps ==
  ASSUME ControlInv, DiscoveryConnect
  PROVE  ControlInv'
<1>1. (TypedData /\ TypedPlaces /\ ServerKnown /\ ListenerKnown /\
   EntriesKnown /\ SocketsKnown /\ LiveKnown /\ BacklogNew /\ FutureNew /\
   AcceptedNew)'
  BY TypedDataFrame, TypedPlacesFrame, ServerKnownFrame, ListenerKnownFrame,
     EntriesKnownFrame, SocketsKnownFrame, LiveKnownFrame, BacklogNewFrame,
     FutureNewFrame, AcceptedNewFrame DEF ControlInv, DiscoveryConnect
<1>2. TypedCounts'
  BY ServerNumbers DEF ControlInv, TypedCounts, DiscoveryConnect
<1>3. QED
  BY <1>1, <1>2 DEF ControlInv

LEMMA CallKeeps ==
  ASSUME ControlInv, NEW start \in BOOLEAN, Call(start)
  PROVE  ControlInv'
<1>1. (TypedData /\ ListenerKnown /\ EntriesKnown /\ SocketsKnown /\ LiveKnown
   /\ FutureNew)'
  BY TypedDataFrame, ListenerKnownFrame, EntriesKnownFrame, SocketsKnownFrame,
     LiveKnownFrame, FutureNewFrame DEF ControlInv, Call
<1>2. TypedPlaces'
  BY ServerNumbers DEF ControlInv, TypedPlaces, Call
<1>3. TypedCounts'
  BY ServerNumbers DEF ControlInv, TypedCounts, Call
<1>4. ServerKnown'
  BY ServerNumbers DEF ControlInv, ServerKnown, TypedPlaces, Call
<1>5. BacklogNew'
  BY ServerNumbers DEF ControlInv, BacklogNew, Call
<1>6. AcceptedNew'
  BY ServerNumbers DEF ControlInv, AcceptedNew, Call
<1>7. QED
  BY <1>1, <1>2, <1>3, <1>4, <1>5, <1>6 DEF ControlInv

LEMMA StopDiscoveryKeeps ==
  ASSUME ControlInv, StopDiscovery
  PROVE  ControlInv'
<1>1. (TypedData /\ ListenerKnown /\ EntriesKnown /\ SocketsKnown /\ LiveKnown
   /\ FutureNew)'
  BY TypedDataFrame, ListenerKnownFrame, EntriesKnownFrame, SocketsKnownFrame,
     LiveKnownFrame, FutureNewFrame DEF ControlInv, StopDiscovery, At
<1>2. TypedPlaces'
  BY ServerNumbers DEF ControlInv, TypedPlaces, StopDiscovery, At
<1>3. TypedCounts'
  BY ServerNumbers DEF ControlInv, TypedCounts, StopDiscovery, At
<1>4. ServerKnown'
  BY ServerNumbers DEF ControlInv, ServerKnown, TypedPlaces, StopDiscovery, At
<1>5. BacklogNew'
  BY ServerNumbers DEF ControlInv, BacklogNew, StopDiscovery, At
<1>6. AcceptedNew'
  BY ServerNumbers DEF ControlInv, AcceptedNew, StopDiscovery, At
<1>7. QED
  BY <1>1, <1>2, <1>3, <1>4, <1>5, <1>6 DEF ControlInv

LEMMA WakeDiscoveryKeeps ==
  ASSUME ControlInv, WakeDiscovery
  PROVE  ControlInv'
<1>1. (TypedData /\ ListenerKnown /\ EntriesKnown /\ SocketsKnown /\ LiveKnown
   /\ FutureNew)'
  BY TypedDataFrame, ListenerKnownFrame, EntriesKnownFrame, SocketsKnownFrame,
     LiveKnownFrame, FutureNewFrame DEF ControlInv, WakeDiscovery, At
<1>2. TypedPlaces'
  BY ServerNumbers DEF ControlInv, TypedPlaces, WakeDiscovery, At
<1>3. TypedCounts'
  <2>1. /\ app = "wake discovery" /\ app' = "join discovery"
        /\ UNCHANGED <<backlog, connections>>
    BY DEF WakeDiscovery, At
  <2>2. /\ discoveryWaits \in {0, 1, 2} /\ (discoveryWaits = 2 => app = "join discovery")
        /\ backlog \in Seq(Connections) /\ connections \in Nat
    BY DEF ControlInv, TypedCounts
  <2>3. discoveryWaits' \in {discoveryWaits, discoveryWaits + 1}
    BY DEF WakeDiscovery
  <2>4. discoveryWaits' \in {0, 1, 2}
    <3>1. discoveryWaits \in {0, 1}
      BY <2>1, <2>2
    <3>2. QED
      BY <2>3, <3>1
  <2>5. QED
    BY <2>1, <2>2, <2>4 DEF TypedCounts
<1>4. ServerKnown'
  BY ServerNumbers DEF ControlInv, ServerKnown, TypedPlaces, WakeDiscovery, At
<1>5. BacklogNew'
  BY ServerNumbers DEF ControlInv, BacklogNew, WakeDiscovery, At
<1>6. AcceptedNew'
  BY ServerNumbers DEF ControlInv, AcceptedNew, WakeDiscovery, At
<1>7. QED
  BY <1>1, <1>2, <1>3, <1>4, <1>5, <1>6 DEF ControlInv

LEMMA JoinDiscoveryKeeps ==
  ASSUME ControlInv, JoinDiscovery
  PROVE  ControlInv'
<1>1. (TypedData /\ ListenerKnown /\ EntriesKnown /\ SocketsKnown /\ LiveKnown
   /\ FutureNew)'
  BY TypedDataFrame, ListenerKnownFrame, EntriesKnownFrame, SocketsKnownFrame,
     LiveKnownFrame, FutureNewFrame DEF ControlInv, JoinDiscovery, At
<1>2. TypedPlaces'
  BY ServerNumbers DEF ControlInv, TypedPlaces, JoinDiscovery, At
<1>3. TypedCounts'
  <2>1. discoveryWaits' = 0 /\ UNCHANGED <<backlog, connections>>
    BY DEF JoinDiscovery, At
  <2>2. discoveryWaits' \in {0, 1, 2} /\ discoveryWaits' # 2
    BY <2>1
  <2>3. backlog \in Seq(Connections) /\ connections \in Nat
    BY DEF ControlInv, TypedCounts
  <2>4. QED
    BY <2>1, <2>2, <2>3 DEF TypedCounts
<1>4. ServerKnown'
  BY ServerNumbers DEF ControlInv, ServerKnown, TypedPlaces, JoinDiscovery, At
<1>5. BacklogNew'
  BY ServerNumbers DEF ControlInv, BacklogNew, JoinDiscovery, At
<1>6. AcceptedNew'
  BY ServerNumbers DEF ControlInv, AcceptedNew, JoinDiscovery, At
<1>7. QED
  BY <1>1, <1>2, <1>3, <1>4, <1>5, <1>6 DEF ControlInv

LEMMA ExchangeKeeps ==
  ASSUME ControlInv, Exchange
  PROVE  ControlInv'
<1>1. (TypedData /\ ListenerKnown /\ EntriesKnown /\ SocketsKnown /\ LiveKnown
   /\ FutureNew)'
  BY TypedDataFrame, ListenerKnownFrame, EntriesKnownFrame, SocketsKnownFrame,
     LiveKnownFrame, FutureNewFrame DEF ControlInv, Exchange, At
<1>2. TypedPlaces'
  BY ServerNumbers DEF ControlInv, TypedPlaces, Exchange, At
<1>3. TypedCounts'
  BY ServerNumbers DEF ControlInv, TypedCounts, Exchange, At
<1>4. ServerKnown'
  BY ServerNumbers DEF ControlInv, ServerKnown, TypedPlaces, Exchange, At
<1>5. BacklogNew'
  BY ServerNumbers DEF ControlInv, BacklogNew, Exchange, At
<1>6. AcceptedNew'
  BY ServerNumbers DEF ControlInv, AcceptedNew, Exchange, At
<1>7. QED
  BY <1>1, <1>2, <1>3, <1>4, <1>5, <1>6 DEF ControlInv

LEMMA WakeKeeps ==
  ASSUME ControlInv, Wake
  PROVE  ControlInv'
<1>a. /\ app = "wake" /\ app' = "join"
      /\ backlog' = backlog \/ backlog' = Append(backlog, Waking)
      /\ UNCHANGED <<file, handler, accepted, connections, discoveryWaits>>
  BY DEF Wake, At
<1>b. Waking \in Connections /\ Waking \notin 1..MaxConnections
  BY ServerNumbers
<1>c. /\ Waking \notin ToSet(backlog) /\ handler[Waking] = "none"
      /\ \A d \in Descriptors : file[d] # Waking
  BY <1>a DEF ControlInv, BacklogNew, AcceptedNew
<1>d. /\ backlog' \in Seq(Connections) /\ IsInjective(backlog')
      /\ ToSet(backlog') \subseteq ToSet(backlog) \cup {Waking}
  <2>1. backlog \in Seq(Connections) /\ IsInjective(backlog)
    BY DEF ControlInv, TypedCounts, BacklogNew
  <2>2. CASE backlog' = backlog
    BY <2>1, <2>2
  <2>3. CASE backlog' = Append(backlog, Waking)
    BY <1>b, <1>c, <2>1, <2>3, AppendToQueue
  <2>4. QED
    BY <1>a, <2>2, <2>3
<1>1. (TypedData /\ ListenerKnown /\ EntriesKnown /\ SocketsKnown /\
   LiveKnown)'
  BY TypedDataFrame, ListenerKnownFrame, EntriesKnownFrame, SocketsKnownFrame,
     LiveKnownFrame DEF ControlInv, Wake, At
<1>2. TypedPlaces'
  BY ServerNumbers DEF ControlInv, TypedPlaces, Wake, At
<1>3. TypedCounts'
  BY <1>a, <1>d DEF ControlInv, TypedCounts
<1>4. ServerKnown'
  BY ServerNumbers DEF ControlInv, ServerKnown, TypedPlaces, Wake, At
<1>5. BacklogNew'
  BY <1>a, <1>c, <1>d DEF ControlInv, BacklogNew
<1>6. FutureNew'
  BY <1>a, <1>b, <1>d DEF ControlInv, FutureNew
<1>7. AcceptedNew'
  BY <1>a, <1>c DEF ControlInv, AcceptedNew
<1>8. QED
  BY <1>1, <1>2, <1>3, <1>4, <1>5, <1>6, <1>7 DEF ControlInv

LEMMA JoinKeeps ==
  ASSUME ControlInv, Join
  PROVE  ControlInv'
<1>1. (TypedData /\ EntriesKnown /\ SocketsKnown /\ FutureNew)'
  BY TypedDataFrame, EntriesKnownFrame, SocketsKnownFrame, FutureNewFrame DEF
     ControlInv, Join, At
<1>2. TypedPlaces'
  BY ServerNumbers DEF ControlInv, TypedPlaces, Join, At
<1>3. TypedCounts'
  BY ServerNumbers DEF ControlInv, TypedCounts, Join, At
<1>4. ServerKnown'
  BY ServerNumbers DEF ControlInv, ServerKnown, TypedPlaces, Join, At
<1>5. ListenerKnown'
  BY ServerNumbers DEF ControlInv, ListenerKnown, TypedPlaces, Join, At
<1>6. LiveKnown'
  BY ServerNumbers DEF ControlInv, LiveKnown, Live, Join, At
<1>7. BacklogNew'
  BY ServerNumbers DEF ControlInv, BacklogNew, Join, At
<1>8. AcceptedNew'
  <2>1. accepted = Nil /\ Nil \notin Descriptors
    BY ServerNumbers DEF ControlInv, ListenerKnown, Join
  <2>2. app = "join" /\ app' = "close" /\ UNCHANGED <<file, handler, accepted>>
    BY DEF Join, At
  <2>3. QED
    BY <2>1, <2>2 DEF ControlInv, AcceptedNew
<1>9. QED
  BY <1>1, <1>2, <1>3, <1>4, <1>5, <1>6, <1>7, <1>8 DEF ControlInv

LEMMA CloseKeeps ==
  ASSUME ControlInv, Close
  PROVE  ControlInv'
<1>a. /\ app = "close" /\ app' \in {"start", "idle"} /\ toClose' = Nil /\ backlog' = <<>>
      /\ file' = [d \in Descriptors |-> IF d = toClose THEN Nil ELSE file[d]]
      /\ UNCHANGED <<accepted, listener, ControlSocket, listenSocket, discovery,
                     discoveryWaits, ControlThreads, Stopped, handler, socket, toJoin,
                     connections>>
  BY DEF Close, At
<1>b. \A d \in Descriptors : file'[d] = IF d = toClose THEN Nil ELSE file[d]
  BY <1>a
<1>c. /\ listener = "none" /\ accepted = Nil /\ ControlSocket = Nil
      /\ \A d \in Descriptors : ControlThreads[d] = Nil
  BY <1>a DEF ControlInv, ServerKnown, ListenerKnown
<1>d. Nil \notin Descriptors /\ Nil \notin Connections /\ Waking \in Connections
      /\ 1..MaxConnections \subseteq Connections /\ Listening # Nil /\ Unbound # Nil
  BY ServerNumbers
<1>e. \A d \in Descriptors : file[d] \notin Connections
  BY <1>c, <1>d DEF ControlInv, SocketsKnown
<1>f. backlog' \in Seq(Connections) /\ ToSet(backlog') = {} /\ IsInjective(backlog')
  BY <1>a, EmptySeq DEF ToSet, IsInjective
<1>1. (LiveKnown)'
  BY LiveKnownFrame DEF ControlInv, Close, At
<1>2. TypedData'
  BY <1>a DEF ControlInv, TypedData
<1>3. TypedPlaces'
  BY <1>a DEF ControlInv, TypedPlaces
<1>4. TypedCounts'
  BY <1>a, <1>f DEF ControlInv, TypedCounts
<1>5. ServerKnown'
  BY <1>a, <1>b, <1>c, <1>d DEF ControlInv, ServerKnown
<1>6. ListenerKnown'
  BY <1>a, <1>c DEF ControlInv, ListenerKnown
<1>7. EntriesKnown'
  BY <1>a, <1>c DEF ControlInv, EntriesKnown
<1>8. SocketsKnown'
  BY <1>a, <1>b, <1>d, <1>e DEF SocketsKnown
<1>9. BacklogNew'
  BY <1>f DEF BacklogNew
<1>10. FutureNew'
  BY <1>a, <1>b, <1>d, <1>e, <1>f DEF ControlInv, FutureNew
<1>11. AcceptedNew'
  BY <1>a, <1>b, <1>c, <1>d, <1>e DEF ControlInv, AcceptedNew
<1>12. QED
  BY <1>1, <1>2, <1>3, <1>4, <1>5, <1>6, <1>7, <1>8, <1>9, <1>10, <1>11 DEF
     ControlInv

LEMMA StartKeeps ==
  ASSUME ControlInv, NEW port, NEW discover \in BOOLEAN, Start(discover, port)
  PROVE  ControlInv'
<1> DEFINE d0 == Lowest(Free)
<1>a. /\ d0 \in Descriptors /\ file[d0] = Nil
      /\ file' = [file EXCEPT ![d0] = Listening]
      /\ UNCHANGED <<accepted, toClose, discoveryWaits, ControlThreads, Stopped, handler,
                     socket, toJoin, backlog, connections>>
  BY LowestIsFree DEF Start, At
<1>b. \A d \in Descriptors : file'[d] = IF d = d0 THEN Listening ELSE file[d]
  BY <1>a DEF ControlInv, TypedData
<1>c. Nil \notin Connections /\ Listening \notin Connections
      /\ Unbound \notin Connections /\ Foreign \notin Connections
      /\ Listening # Nil /\ Unbound # Nil /\ Foreign # Nil
      /\ Foreign # Listening /\ Foreign # Unbound /\ Nil \notin Descriptors
  BY ServerNumbers
<1>d. \A c \in ToSet(backlog) : c \in Connections
  BY SeqRange DEF ControlInv, TypedCounts
<1>e. Waking \in Connections /\ 1..MaxConnections \subseteq Connections
  BY ServerNumbers
<1> HIDE DEF d0
<1>f. /\ app = "start" /\ app' = "idle" /\ ControlSocket' = d0 /\ listenSocket' = d0
      /\ listener' = "accept" /\ discovery' \in {"bind", "none"}
  BY DEF Start, At, d0
<1>g. /\ listener = "none" /\ toClose = Nil /\ ControlSocket = Nil
  BY <1>f DEF ControlInv, ServerKnown
<1>h. /\ accepted = Nil
      /\ \A d \in Descriptors : ControlThreads[d] = Nil /\ file[d] \notin {Listening, Unbound}
  BY <1>c, <1>g DEF ControlInv, ListenerKnown, ServerKnown
<1>i. \A c \in Connections : ~Live(c)
  BY <1>g DEF ControlInv, LiveKnown
<1>j. \A d \in Descriptors : file[d] \notin Connections
  BY <1>c, <1>h DEF ControlInv, SocketsKnown
<1>1. TypedData'
  BY <1>a DEF ControlInv, TypedData
<1>2. TypedPlaces'
  BY <1>a, <1>f DEF ControlInv, TypedPlaces
<1>3. TypedCounts'
  BY <1>a, <1>f, <1>g DEF ControlInv, TypedCounts
<1>4. ServerKnown'
  BY <1>a, <1>b, <1>c, <1>f, <1>g, <1>h DEF ServerKnown
<1>5. ListenerKnown'
  BY <1>a, <1>f, <1>h DEF ListenerKnown
<1>6. EntriesKnown'
  BY <1>a, <1>h DEF EntriesKnown
<1>7. SocketsKnown'
  BY <1>b, <1>c, <1>j DEF SocketsKnown
<1>8. LiveKnown'
  BY <1>a, <1>i DEF LiveKnown, Live
<1>9. BacklogNew'
  BY <1>a, <1>b, <1>c, <1>d, <1>f DEF ControlInv, BacklogNew
<1>10. FutureNew'
  BY <1>a, <1>b, <1>c, <1>e DEF ControlInv, FutureNew
<1>11. AcceptedNew'
  BY <1>a, <1>b, <1>c, <1>e, <1>h, <1>j DEF ControlInv, AcceptedNew
<1>12. QED
  BY <1>1, <1>2, <1>3, <1>4, <1>5, <1>6, <1>7, <1>8, <1>9, <1>10, <1>11 DEF
     ControlInv

LEMMA StartLeavesSocketKeeps ==
  ASSUME ControlInv, NEW port, StartLeavesSocket(port)
  PROVE  ControlInv'
<1> DEFINE d0 == Lowest(Free)
<1>a. /\ d0 \in Descriptors /\ file[d0] = Nil
      /\ file' = [file EXCEPT ![d0] = Unbound]
      /\ UNCHANGED <<accepted, toClose, discoveryWaits, ControlThreads, Stopped, handler,
                     socket, toJoin, backlog, connections>>
  BY LowestIsFree DEF StartLeavesSocket, At
<1>b. \A d \in Descriptors : file'[d] = IF d = d0 THEN Unbound ELSE file[d]
  BY <1>a DEF ControlInv, TypedData
<1>c. Nil \notin Connections /\ Listening \notin Connections
      /\ Unbound \notin Connections /\ Foreign \notin Connections
      /\ Listening # Nil /\ Unbound # Nil /\ Foreign # Nil
      /\ Foreign # Listening /\ Foreign # Unbound /\ Nil \notin Descriptors
  BY ServerNumbers
<1>d. \A c \in ToSet(backlog) : c \in Connections
  BY SeqRange DEF ControlInv, TypedCounts
<1>e. Waking \in Connections /\ 1..MaxConnections \subseteq Connections
  BY ServerNumbers
<1> HIDE DEF d0
<1>f. /\ app = "start" /\ app' = "idle" /\ ControlSocket' = d0
      /\ UNCHANGED <<listenSocket, listener, discovery>>
  BY DEF StartLeavesSocket, At, d0
<1>g. /\ listener = "none" /\ toClose = Nil /\ ControlSocket = Nil /\ discovery = "none"
  BY <1>f DEF ControlInv, ServerKnown
<1>h. /\ accepted = Nil
      /\ \A d \in Descriptors : ControlThreads[d] = Nil /\ file[d] \notin {Listening, Unbound}
  BY <1>c, <1>g DEF ControlInv, ListenerKnown, ServerKnown
<1>i. \A c \in Connections : ~Live(c)
  BY <1>g DEF ControlInv, LiveKnown
<1>j. \A d \in Descriptors : file[d] \notin Connections
  BY <1>c, <1>h DEF ControlInv, SocketsKnown
<1>1. TypedData'
  BY <1>a DEF ControlInv, TypedData
<1>2. TypedPlaces'
  BY <1>a, <1>f DEF ControlInv, TypedPlaces
<1>3. TypedCounts'
  BY <1>a, <1>f, <1>g DEF ControlInv, TypedCounts
<1>4. ServerKnown'
  BY <1>a, <1>b, <1>c, <1>f, <1>g, <1>h DEF ServerKnown
<1>5. ListenerKnown'
  BY <1>a, <1>f, <1>g, <1>h DEF ListenerKnown
<1>6. EntriesKnown'
  BY <1>a, <1>h DEF EntriesKnown
<1>7. SocketsKnown'
  BY <1>b, <1>c, <1>j DEF SocketsKnown
<1>8. LiveKnown'
  BY <1>a, <1>i DEF LiveKnown, Live
<1>9. BacklogNew'
  BY <1>a, <1>b, <1>c, <1>d, <1>f DEF ControlInv, BacklogNew
<1>10. FutureNew'
  BY <1>a, <1>b, <1>c, <1>e DEF ControlInv, FutureNew
<1>11. AcceptedNew'
  BY <1>a, <1>b, <1>c, <1>e, <1>h, <1>j DEF ControlInv, AcceptedNew
<1>12. QED
  BY <1>1, <1>2, <1>3, <1>4, <1>5, <1>6, <1>7, <1>8, <1>9, <1>10, <1>11 DEF
     ControlInv

LEMMA StartFailsKeeps ==
  ASSUME ControlInv, NEW port, StartFails(port)
  PROVE  ControlInv'
<1>1. (TypedData /\ ListenerKnown /\ EntriesKnown /\ SocketsKnown /\ LiveKnown
   /\ FutureNew)'
  BY TypedDataFrame, ListenerKnownFrame, EntriesKnownFrame, SocketsKnownFrame,
     LiveKnownFrame, FutureNewFrame DEF ControlInv, StartFails, At
<1>2. TypedPlaces'
  BY ServerNumbers DEF ControlInv, TypedPlaces, StartFails, At
<1>3. TypedCounts'
  BY ServerNumbers DEF ControlInv, TypedCounts, StartFails, At
<1>4. ServerKnown'
  BY ServerNumbers DEF ControlInv, ServerKnown, TypedPlaces, StartFails, At
<1>5. BacklogNew'
  BY ServerNumbers DEF ControlInv, BacklogNew, StartFails, At
<1>6. AcceptedNew'
  BY ServerNumbers DEF ControlInv, AcceptedNew, StartFails, At
<1>7. QED
  BY <1>1, <1>2, <1>3, <1>4, <1>5, <1>6 DEF ControlInv

----------------------------------------------------------------------------
(* Nothing is open and nothing runs at first. *)
LEMMA InitControlInv == ControlInit => ControlInv
<1> SUFFICES ASSUME ControlInit PROVE ControlInv
  OBVIOUS
<1>1. Nil \notin Connections /\ Nil # Listening /\ Nil # Unbound /\ Waking \in Connections
      /\ Nil \notin Descriptors
  BY ServerNumbers
<1>2. TypedData /\ TypedPlaces
  BY DEF ControlInit, TypedData, TypedPlaces, HandlerLabels
<1>3. backlog \in Seq(Connections) /\ ToSet(backlog) = {} /\ IsInjective(backlog)
  BY EmptySeq DEF ControlInit, ToSet, IsInjective
<1>4. TypedCounts
  BY <1>3 DEF ControlInit, TypedCounts
<1>5. ServerKnown /\ ListenerKnown
  BY <1>1 DEF ControlInit, ServerKnown, ListenerKnown
<1>6. EntriesKnown /\ SocketsKnown /\ LiveKnown
  BY <1>1 DEF ControlInit, EntriesKnown, SocketsKnown, LiveKnown, Live
<1>7. BacklogNew /\ AcceptedNew
  BY <1>1, <1>3 DEF ControlInit, BacklogNew, AcceptedNew
<1>8. FutureNew
  <2>1. \A c \in 1..MaxConnections : c \in Connections
    BY ServerNumbers
  <2>2. QED
    BY <1>1, <1>3, <2>1 DEF ControlInit, FutureNew
<1>9. QED
  BY <1>2, <1>4, <1>5, <1>6, <1>7, <1>8 DEF ControlInv

(* Every step is a step of one of the actions above, or changes nothing. *)
LEMMA NextControlInv == ControlInv /\ [ControlNext]_controlVars => ControlInv'
<1> SUFFICES ASSUME ControlInv, [ControlNext]_controlVars PROVE ControlInv'
  OBVIOUS
<1>1. CASE Connect
  BY <1>1, ConnectKeeps
<1>2. ASSUME NEW c \in Connections,
             Disconnect(c) \/ Send(c) \/ ClientReads(c) \/ OtherAnswers(c)
      PROVE  ControlInv'
  BY <1>2, DisconnectKeeps, SendKeeps, ClientReadsKeeps, OtherAnswersKeeps
<1>3. CASE OpenFile
  BY <1>3, OpenFileKeeps
<1>4. CASE DiscoveryConnect \/ DiscoveryClientAsks
  BY <1>4, DiscoveryConnectKeeps, DiscoveryClientAsksKeeps
<1>5. ASSUME NEW start \in BOOLEAN, Call(start) PROVE ControlInv'
  BY <1>5, CallKeeps
<1>6. CASE ControlListener
  <2>1. CASE Accept
    BY <2>1, RefusedAcceptKeeps, TakenAcceptKeeps
  <2>2. CASE TestSocket
    BY <2>2, PassedTestSocketKeeps, FailedTestSocketKeeps
  <2>3. CASE StartHandler
    BY <2>3, StartHandlerKeeps
  <2>4. CASE Sweep
    BY <2>4, SweepKeeps
  <2>5. CASE ShutDown
    BY <2>5, ShutDownKeeps
  <2>6. CASE JoinHandlers
    BY <2>6, JoinHandlersKeeps
  <2>7. QED
    BY <1>6, <2>1, <2>2, <2>3, <2>4, <2>5, <2>6 DEF ControlListener
<1>7. ASSUME NEW c \in Connections, ControlHandler(c) PROVE ControlInv'
  BY <1>7, EndKeeps, RecvKeeps, ReceivedKeeps, ReplyKeeps, SendFailsKeeps DEF ControlHandler
<1>8. CASE ControlDiscovery
  BY <1>8, DiscoveryListensKeeps, DiscoveryFailsKeeps, DiscoveryTestsKeeps,
     DiscoveryAcceptsKeeps, DiscoveryTestsAgainKeeps DEF ControlDiscovery
<1>9. CASE Application
  <2>1. CASE StopDiscovery
    BY <2>1, StopDiscoveryKeeps
  <2>2. CASE WakeDiscovery
    BY <2>2, WakeDiscoveryKeeps
  <2>3. CASE JoinDiscovery
    BY <2>3, JoinDiscoveryKeeps
  <2>4. CASE Exchange
    BY <2>4, ExchangeKeeps
  <2>5. CASE Wake
    BY <2>5, WakeKeeps
  <2>6. CASE Join
    BY <2>6, JoinKeeps
  <2>7. CASE Close
    BY <2>7, CloseKeeps
  <2>8. ASSUME NEW port \in Ports, NEW discover \in BOOLEAN, Start(discover, port)
        PROVE  ControlInv'
    BY <2>8, StartKeeps
  <2>9. ASSUME NEW port \in Ports, StartFails(port) \/ StartLeavesSocket(port) PROVE ControlInv'
    BY <2>9, StartFailsKeeps, StartLeavesSocketKeeps
  <2>10. QED
    BY <1>9, <2>1, <2>2, <2>3, <2>4, <2>5, <2>6, <2>7, <2>8, <2>9 DEF Application
<1>10. CASE UNCHANGED controlVars
  BY <1>10, TypedDataFrame, TypedPlacesFrame, TypedCountsFrame, ServerKnownFrame,
     ListenerKnownFrame, EntriesKnownFrame, SocketsKnownFrame, LiveKnownFrame,
     BacklogNewFrame, FutureNewFrame, AcceptedNewFrame
  DEF ControlInv, controlVars
<1>11. QED
  BY <1>1, <1>2, <1>3, <1>4, <1>5, <1>6, <1>7, <1>8, <1>9, <1>10 DEF ControlNext

(* The invariant above holds of every reachable state of the server, its      *)
(* clients and its application (Control.cpp, ControlDiscovery.cpp).           *)
THEOREM ControlInvariance == ControlSpec => []ControlInv
BY InitControlInv, NextControlInv, PTL DEF ControlSpec

----------------------------------------------------------------------------
(* The invariant contains the types of the run. *)
LEMMA TypesFollow ==
  ASSUME ControlInv
  PROVE  ControlTypes
<1>1. \A d \in Descriptors : /\ file[d] \in Connections \cup {Nil, Listening, Foreign, Unbound}
                             /\ ControlThreads[d] \in Connections \cup {Nil}
  BY DEF ControlInv, TypedData
<1>2. \A c \in Connections :
        /\ handler[c] \in HandlerLabels
        /\ handler[c] # "none" => socket[c] \in Descriptors
  BY DEF ControlInv, TypedData
<1>3. ToSet(backlog) \subseteq Connections
  BY SeqRange DEF ControlInv, TypedCounts
<1>4. discoveryWaits \in 0..2
  <2>1. discoveryWaits \in {0, 1, 2}
    BY DEF ControlInv, TypedCounts
  <2>2. QED
    BY <2>1
<1>5. QED
  BY <1>1, <1>2, <1>3, <1>4 DEF ControlInv, TypedPlaces, ControlTypes, DiscoveryListening

(* However descriptors are reused, a handler thread reads and answers its own *)
(* connection until the listener shuts the server down; every socket of a     *)
(* client is the accepted one or has its entry in ControlThreads, and every   *)
(* listening socket is the one StopControlServer closes.                      *)
THEOREM HandlersServeTheirOwn == ControlSpec => []OwnConnection
<1>1. ControlInv => OwnConnection
  <2> SUFFICES ASSUME ControlInv PROVE OwnConnection
    OBVIOUS
  <2>1. ASSUME listener # "join all", NEW c \in Connections, handler[c] \notin {"none", "ended"}
        PROVE  file[socket[c]] = c
    <3>1. socket[c] \in Descriptors /\ ControlThreads[socket[c]] = c
      BY <2>1 DEF ControlInv, TypedData, LiveKnown, Live
    <3>2. c # Nil
      BY ServerNumbers
    <3>3. QED
      BY <3>1, <3>2 DEF ControlInv, EntriesKnown
  <2>2. QED
    BY <2>1, TypesFollow DEF ControlInv, SocketsKnown, ServerKnown, OwnConnection
<1>2. QED
  BY <1>1, ControlInvariance, PTL

(* When StopControlServer has returned, the listener, the discovery thread     *)
(* and all handlers have ended, and no socket and no entry of them is left.   *)
THEOREM NothingIsLeft == ControlSpec => []NothingLeft
<1>1. ControlInv => NothingLeft
  <2> SUFFICES ASSUME ControlInv, app = "idle", ControlSocket = Nil
               PROVE  /\ listener = "none" /\ discovery = "none"
                      /\ \A c \in Connections : handler[c] \in {"none", "ended"}
                      /\ \A d \in Descriptors : file[d] \in {Nil, Foreign}
                                                /\ ControlThreads[d] = Nil
    BY DEF NothingLeft
  <2>1. listener = "none" /\ discovery = "none" /\ toClose = Nil
    BY DEF ControlInv, ServerKnown
  <2>2. accepted = Nil /\ \A d \in Descriptors : ControlThreads[d] = Nil
    BY <2>1 DEF ControlInv, ListenerKnown
  <2>3. \A c \in Connections : handler[c] \in {"none", "ended"}
    BY <2>1 DEF ControlInv, LiveKnown, Live
  <2>4. ASSUME NEW d \in Descriptors
        PROVE  file[d] \in {Nil, Foreign}
    <3>1. d # Nil /\ Nil \notin Connections
      BY ServerNumbers
    <3>2. file[d] \notin {Listening, Unbound}
      BY <2>1, <3>1 DEF ControlInv, ServerKnown
    <3>3. file[d] \notin Connections
      BY <2>2, <3>1 DEF ControlInv, SocketsKnown
    <3>4. QED
      BY <3>2, <3>3 DEF ControlInv, TypedData
  <2>5. QED
    BY <2>1, <2>2, <2>3, <2>4
<1>2. QED
  BY <1>1, ControlInvariance, PTL
=============================================================================
