---------------------------- MODULE ArchiveProofs ----------------------------
(***************************************************************************)
(* Theorems about the archives: about FileRotation, which makes them, for any *)
(* bounds and any configurations in which one thread completes files, and     *)
(* about CompressionManager, to which they are handed over, for any users     *)
(* and files.  The two specifications share no variable.                     *)
(*                                                                         *)
(* Each record is in one place because a file is moved to a name no file     *)
(* has: the index taken is greater than that of every archive of the period  *)
(* (NamesInv), which needs that one thread completes files (OneCompletes).    *)
(* The archives are in order because whatever is in memory is newer than     *)
(* what is on the disk, and the active file newer than the archives.         *)
(*                                                                         *)
(* A file is conserved by the manager because its number is new: what a user *)
(* is about to enqueue is not accepted yet, and no two users enqueue the same *)
(* one.  One is left behind only by a worker that is leaving because Stopped *)
(* tells the next submission whether there is a worker.                      *)
(***************************************************************************)
EXTENDS FileRotation, CompressionManager, FiniteSetTheorems, FunctionTheorems,
        SequenceTheorems, WellFoundedInduction, TLAPS

----------------------------------------------------------------------------
(* One thread completes files: with a rotation by time in the caller and one  *)
(* by size in the manager's thread two would (NoCollision).                   *)
OneCompletes == \A s \in Scenarios : ~(s.async /\ s.time)

(* Where the two threads are. *)
Completing == {"take", "close", "move", "create", "reopen", "retain"}

ControlInv ==
  /\ ~(scenario.async /\ scenario.time)
  /\ pc["write"] \in {"idle", "append", "write"} \cup Completing
  /\ pc["display"] \in {"down", "clean", "idle", "append", "write"} \cup Completing
  /\ \A t \in Threads : pc[t] \in {"write"} \cup Completing => t = Writer
  /\ \A t \in Threads : pc[t] \in {"idle", "down", "clean"} => batch[t] = {}
  /\ ~scenario.async => pc["write"] = "idle" /\ queue = {}
  /\ pc["display"] \in {"down", "clean"} => pc["write"] = "idle" /\ queue = {}

(* What the backend has open. *)
HandleInv ==
  /\ handle \in {Closed, Unlinked, Active}
  /\ handle = Active => Exists(Active)
  /\ pc["display"] = "down" \/ pc[Writer] \in {"move", "create", "reopen"} => handle = Closed
  /\ pc["display"] # "down" /\ pc[Writer] \notin {"move", "create", "reopen"} =>
       (handle = Closed => openFailed)

(* Without failures and the watchdog there is nothing that goes wrong.        *)
CalmInv ==
  failures = 0 /\ monitors = 0 =>
    /\ candidates = {}
    /\ ~scenario.async =>
         /\ dropped = {}
         /\ pc["display"] # "reopen"
         /\ pc["display"] \notin {"down", "move", "create"} => handle = Active
         /\ pc["display"] = "move" => Exists(Active)

Memory == batch["write"] \cup queue \cup batch["display"]
OnDisk == Records(DOMAIN disk)

(* Each record is in one place. *)
FilesApart == \A f, g \in DOMAIN disk : f # g => disk[f] \cap disk[g] = {}

PlacesInv ==
  /\ FilesApart
  /\ batch["write"] \cap (queue \cup batch["display"]) = {}
  /\ queue \cap batch["display"] = {}
  /\ Memory \cap (OnDisk \cup gone \cup dropped) = {}
  /\ OnDisk \cap (gone \cup dropped) = {}
  /\ gone \cap dropped = {}
  /\ Memory \cup OnDisk \cup gone \cup dropped = 1..displayed

(* The size the backend knows is that of something it has written. *)
SizeInv ==
  \E written \in SUBSET (1..displayed) :
    Cardinality(written) = CurrentSize /\ written \cap Memory = {}

(* The archives' names: none is later than what the policy knows, and the one  *)
(* that has been taken is later than all of them.                              *)
Archived == DOMAIN disk \ {Active}

NamesInv ==
  /\ \A f \in Archived : f[2] <= now
  /\ PeriodStart <= now
  /\ pc["display"] # "down" =>
       /\ ArchiveTime <= CurrentArchiveTime
       /\ \A f \in Archived : f[2] <= ArchiveTime
                              /\ (f[2] = ArchiveTime => f[3] <= ArchiveIndex)
  /\ \A t \in Threads :
       /\ pc[t] \in Completing => target[t] # NoFile
       /\ pc[t] = "take" => ArchiveTime <= target[t][2] /\ target[t][2] <= CurrentArchiveTime
       /\ pc[t] \in {"close", "move", "create"} =>
            target[t][2] = ArchiveTime /\ target[t][3] > 0
       /\ pc[t] = "close" => ArchiveIndex < target[t][3]
       /\ pc[t] = "move" =>
            /\ ArchiveIndex = target[t][3]
            /\ \A f \in Archived : f[2] = ArchiveTime => f[3] < ArchiveIndex

Before(R, S) == \A r \in R, s \in S : r < s

(* What is older is in the archives, and what is newer not yet on the disk.    *)
OrderInv ==
  /\ ArchivesInOrder
  /\ \A f \in Archived : Exists(Active) => Before(disk[f], disk[Active])
  /\ \A f \in DOMAIN disk : Before(disk[f], Memory)
  /\ Before(batch["write"], queue \cup batch["display"])
  /\ Before(queue, batch["display"])

(* The times of last write, where nothing is compressed.                       *)
TimesInv ==
  /\ \A f, g, h \in DOMAIN disk : f \in older[g] /\ g \in older[h] => f \in older[h]
  /\ ~scenario.gzip =>
       /\ submitted = {}
       /\ \A g \in Archived : /\ Active \notin older[g]
                              /\ \A f \in older[g] : Before(disk[f], disk[g])

IndInv ==
  /\ TypeOK
  /\ ControlInv
  /\ HandleInv
  /\ CalmInv
  /\ PlacesInv
  /\ SizeInv
  /\ NamesInv
  /\ OrderInv
  /\ TimesInv

----------------------------------------------------------------------------
(* Types                                                                     *)

FilesOK ==
  /\ DOMAIN disk \subseteq {Active} \cup Archives
  /\ \A f \in DOMAIN disk : disk[f] \subseteq 1..displayed
  /\ older \in [DOMAIN disk -> SUBSET DOMAIN disk]
  /\ \A f, g \in DOMAIN disk : f \in older[g] <=> f # g /\ g \notin older[f]

CallsOK ==
  /\ pc \in [Threads -> {"down", "clean", "idle", "take", "close", "move", "create", "reopen",
                         "retain", "append", "write"}]
  /\ batch \in [Threads -> SUBSET (1..displayed)]
  /\ target \in [Threads -> {NoFile} \cup {Log(p, i) : p \in 0..MaxTime, i \in 0..MaxIndex}]
  /\ after \in [Threads -> {"append", "write"}]

SetsOK ==
  /\ handle \in {Closed, Unlinked, Active} \cup Archives
  /\ queue \subseteq 1..displayed
  /\ submitted \subseteq Archives
  /\ candidates \subseteq {Active} \cup Archives
  /\ {gone, dropped} \subseteq SUBSET (1..displayed)
  /\ {registered, openFailed} \subseteq BOOLEAN

NumbersOK ==
  /\ scenario \in Scenarios
  /\ now \in 1..MaxTime
  /\ {PeriodStart, ArchiveTime} \subseteq 0..MaxTime
  /\ ArchiveIndex \in 0..MaxIndex
  /\ displayed \in 0..MaxRecords
  /\ failures \in 0..MaxFailures
  /\ crashes \in 0..MaxCrashes
  /\ monitors \in 0..MaxMonitors

(* The types, part by part. *)
LEMMA TypeParts ==
  TypeOK <=> FilesOK /\ CallsOK /\ SetsOK /\ NumbersOK /\ CurrentSize \in 0..MaxRecords
BY DEF TypeOK, FilesOK, CallsOK, SetsOK, NumbersOK

(* The bounds are numbers. *)
LEMMA Bounds ==
  /\ MaxSize \in Nat /\ MaxRecords \in Nat /\ MaxTime \in Nat /\ MaxIndex \in Nat
  /\ MaxFailures \in Nat /\ MaxCrashes \in Nat /\ MaxMonitors \in Nat
  /\ MaxTime > 0
BY RotationAssumption

(* A counter below its bound may grow. *)
LEMMA OneMore ==
  ASSUME NEW n \in Nat, NEW m \in 0..n, m < n
  PROVE  m + 1 \in 0..n
OBVIOUS

(* The active file is none of the archives. *)
LEMMA Names ==
  /\ Active \notin Archives /\ NoFile \notin Archives
  /\ Active # Closed /\ Active # Unlinked /\ Closed # Unlinked
  /\ \A f \in Archives : f \notin {Closed, Unlinked, Active}
BY DEF Active, Archives, NoFile, Closed, Unlinked

(* Files are removed. *)
LEMMA FilesRemoved ==
  ASSUME FilesOK, NEW fs, RemoveFiles(fs), displayed' = displayed
  PROVE  FilesOK'
BY DEF FilesOK, RemoveFiles

(* The name a file had before one of them got another name. *)
Was(from, to, f) == IF f = to THEN from ELSE f

(* The names there are then. *)
NamesAfter(from, to) == (DOMAIN disk \ {from}) \cup {to}

(* The order of the last writes is not changed by a new name. *)
LEMMA RenamedOlder ==
  ASSUME FilesOK, NEW from \in DOMAIN disk, NEW to, from # to, Rename(from, to)
  PROVE  /\ DOMAIN disk' = NamesAfter(from, to) /\ DOMAIN older' = NamesAfter(from, to)
         /\ older' = [f \in NamesAfter(from, to) |-> older'[f]]
         /\ \A f \in NamesAfter(from, to) : Was(from, to, f) \in DOMAIN disk /\ disk'[f] = disk[Was(from, to, f)]
         /\ \A f \in NamesAfter(from, to) : older'[f] \subseteq NamesAfter(from, to)
         /\ \A f, g \in NamesAfter(from, to) : Was(from, to, f) = Was(from, to, g) <=> f = g
         /\ \A f, g \in NamesAfter(from, to) : f \in older'[g] <=> Was(from, to, f) \in older[Was(from, to, g)]
<1> DEFINE D == NamesAfter(from, to)
           W(f) == Was(from, to, f)
           before(f) == older[W(f)] \ {to}
<1>0. \A f : W(f) = IF f = to THEN from ELSE f
  BY DEF Was
<1>1. /\ DOMAIN disk' = D /\ DOMAIN older' = D
      /\ \A f \in D : disk'[f] = disk[W(f)]
      /\ \A f \in D : older'[f] = IF from \in before(f) THEN (before(f) \ {from}) \cup {to}
                                                       ELSE before(f)
      /\ older' = [f \in D |-> older'[f]]
  BY DEF Rename, Moved, Was, NamesAfter
<1>5. D = (DOMAIN disk \ {from}) \cup {to}
  BY DEF NamesAfter
<1> HIDE DEF W, D
<1>2. \A f \in D : W(f) \in DOMAIN disk /\ (f # to => W(f) # from)
  BY <1>0, <1>5
<1>3. /\ \A f \in D : older'[f] \subseteq D
      /\ \A f, g \in D : f \in older'[g] <=> W(f) \in older[W(g)]
  <2> SUFFICES ASSUME NEW g \in D
               PROVE  /\ older'[g] \subseteq D
                      /\ \A f \in D : f \in older'[g] <=> W(f) \in older[W(g)]
    OBVIOUS
  <2> DEFINE B == before(g)
  <2>1. B = older[W(g)] \ {to} /\ older[W(g)] \subseteq DOMAIN disk
    BY <1>2 DEF FilesOK
  <2>2. older'[g] = IF from \in B THEN (B \ {from}) \cup {to} ELSE B
    BY <1>1
  <2> HIDE DEF B
  <2>3. older'[g] \subseteq D
    BY <1>5, <2>1, <2>2
  <2>4. ASSUME NEW f \in D PROVE f \in older'[g] <=> W(f) \in older[W(g)]
    BY <1>0, <1>5, <2>1, <2>2
  <2>5. QED
    BY <2>3, <2>4
<1>4. \A f, g \in D : W(f) = W(g) <=> f = g
  BY <1>0, <1>5
<1>6. QED
  BY <1>1, <1>2, <1>3, <1>4 DEF W, D

(* A file gets a new name. *)
LEMMA FileRenamed ==
  ASSUME FilesOK, NEW from \in DOMAIN disk, NEW to \in Archives, from # to, Rename(from, to),
         displayed' = displayed
  PROVE  FilesOK'
<1> DEFINE D == NamesAfter(from, to)
           W(f) == Was(from, to, f)
<1>1. /\ DOMAIN disk' = D /\ older' = [f \in D |-> older'[f]]
      /\ \A f \in D : W(f) \in DOMAIN disk /\ disk'[f] = disk[W(f)]
      /\ \A f \in D : older'[f] \subseteq D
      /\ \A f, g \in D : W(f) = W(g) <=> f = g
      /\ \A f, g \in D : f \in older'[g] <=> W(f) \in older[W(g)]
  BY RenamedOlder
<1>2. D \subseteq {Active} \cup Archives
  BY DEF FilesOK, NamesAfter
<1> HIDE DEF W, D
<1>3. \A f \in D : disk'[f] \subseteq 1..displayed
  BY <1>1 DEF FilesOK
<1>4. \A f, g \in D : f \in older'[g] <=> f # g /\ g \notin older'[f]
  BY <1>1 DEF FilesOK
<1>5. QED
  BY <1>1, <1>2, <1>3, <1>4 DEF FilesOK

(* The active file is opened. *)
LEMMA ActiveOpened ==
  ASSUME FilesOK, OpenActive, displayed' = displayed
  PROVE  FilesOK' /\ Exists(Active)' /\ handle' = Active
BY DEF FilesOK, OpenActive, files, Exists

(* Records are written. *)
LEMMA FileWritten ==
  ASSUME FilesOK, NEW f \in DOMAIN disk, NEW R \in SUBSET (1..displayed),
         disk' = [disk EXCEPT ![f] = @ \cup R],
         older' = [g \in DOMAIN disk |-> IF g = f THEN DOMAIN disk \ {g} ELSE older[g] \ {f}],
         displayed' = displayed
  PROVE  FilesOK'
BY DEF FilesOK

(* A file is compressed. *)
LEMMA FileCompressed ==
  ASSUME FilesOK, NEW f \in DOMAIN disk, NEW gz \in Archives, gz \notin DOMAIN disk,
         disk' = Moved(f, gz),
         older' = [g \in DOMAIN disk' |-> IF g = gz THEN DOMAIN disk \ {f}
                                                    ELSE older[g] \ {f}],
         displayed' = displayed
  PROVE  FilesOK'
BY DEF FilesOK, Moved

----------------------------------------------------------------------------
(* Indexes                                                                   *)

(* A set of naturals has a least element. *)
LEMMA Least ==
  ASSUME NEW S, S \subseteq Nat, S # {}
  PROVE  \E m \in S : \A n \in S : m <= n
<1> DEFINE less == OpToRel(<, Nat)
<1>1. \E m \in S : \A n \in S : ~(<<n, m>> \in less)
  <2> HIDE DEF less
  <2>1. IsWellFoundedOn(less, Nat)
    BY NatLessThanWellFounded DEF less
  <2>2. QED
    BY <2>1, WFMin
<1>2. \A m, n \in Nat : ~(<<n, m>> \in less) => m <= n
  BY DEF OpToRel
<1>3. QED
  BY <1>1, <1>2

(* And one that is bounded a greatest. *)
LEMMA Greatest ==
  ASSUME NEW n \in Nat, NEW S, S \subseteq 0..n, S # {}
  PROVE  Max(S) \in S /\ \A x \in S : x <= Max(S)
<1> DEFINE T == {n - x : x \in S}
<1>1. T \subseteq Nat /\ T # {}
  <2>1. \A x \in S : n - x \in Nat
    OBVIOUS
  <2>2. QED
    BY <2>1
<1>2. PICK m \in T : \A k \in T : m <= k
  BY <1>1, Least
<1>3. PICK g \in S : m = n - g
  OBVIOUS
<1>4. \A x \in S : g >= x
  <2> SUFFICES ASSUME NEW x \in S PROVE g >= x
    OBVIOUS
  <2>1. n - x \in T
    OBVIOUS
  <2>2. m <= n - x /\ x \in Int /\ g \in Int
    BY <1>2, <2>1
  <2>3. QED
    BY <1>3, <2>2
<1>5. QED
  BY <1>4 DEF Max

(* An archive's name has a period and an index. *)
LEMMA ArchiveName ==
  ASSUME FilesOK, NEW f \in Archived
  PROVE  /\ f \in Archives /\ f[2] \in 0..MaxTime /\ f[3] \in 1..MaxIndex
         /\ f = <<f[1], f[2], f[3]>>
BY DEF FilesOK, Archived, Archives

(* FindLastIndex finds the last one. *)
LEMMA LastIndexIs ==
  ASSUME FilesOK, NEW p
  PROVE  /\ LastIndex(p) \in 0..MaxIndex
         /\ \A f \in Archived : f[2] = p => f[3] <= LastIndex(p)
<1> DEFINE I == {f[3] : f \in {g \in DOMAIN disk : g # Active /\ g[2] = p}}
<1>1. I \subseteq 0..MaxIndex
  BY ArchiveName DEF Archived
<1>2. \A f \in Archived : f[2] = p => f[3] \in I
  BY DEF Archived
<1>3. LastIndex(p) = IF I = {} THEN 0 ELSE Max(I)
  BY DEF LastIndex
<1>4. MaxIndex \in Nat
  BY RotationAssumption
<1> HIDE DEF I
<1>5. CASE I = {}
  BY <1>2, <1>3, <1>4, <1>5
<1>6. CASE I # {}
  <2>1. Max(I) \in I /\ \A x \in I : x <= Max(I)
    BY <1>1, <1>4, <1>6, Greatest
  <2>2. QED
    BY <1>1, <1>2, <1>3, <1>6, <2>1
<1>7. QED
  BY <1>5, <1>6

(* TakeName takes the next one, and there is no archive of that name. *)
LEMMA NextIndexIs ==
  ASSUME FilesOK, NEW p, IndexFor(p) \in 0..MaxIndex,
         \A f \in Archived : f[2] = p => f[3] <= IndexFor(p)
  PROVE  NextIndex(p) \in (IndexFor(p) + 1)..(MaxIndex + 1)
<1> DEFINE i == IndexFor(p) + 1
<1>1. i \in i..(MaxIndex + 1) /\ MaxIndex \in Nat
  BY RotationAssumption
<1>2. ~NameExists(p, i)
  <2>1. Log(p, i) # Active /\ Gz(p, i) # Active
    BY DEF Log, Gz, Active
  <2>2. Log(p, i)[2] = p /\ Gz(p, i)[2] = p /\ Log(p, i)[3] = i /\ Gz(p, i)[3] = i
    BY DEF Log, Gz
  <2>3. ~(i <= IndexFor(p))
    OBVIOUS
  <2>4. QED
    BY <2>1, <2>2, <2>3 DEF NameExists, Exists, Archived
<1>3. \A j \in i..(i - 1) : FALSE
  OBVIOUS
<1>4. \E k \in i..(MaxIndex + 1) : ~NameExists(p, k) /\ \A j \in i..(k - 1) : NameExists(p, j)
  BY <1>1, <1>2, <1>3
<1>5. NextIndex(p) = CHOOSE k \in i..(MaxIndex + 1) :
                       ~NameExists(p, k) /\ \A j \in i..(k - 1) : NameExists(p, j)
  BY DEF NextIndex
<1> HIDE DEF i
<1>6. NextIndex(p) \in i..(MaxIndex + 1)
  BY <1>4, <1>5
<1>7. QED
  BY <1>6 DEF i

(* The index the policy goes on with is not before any of the period. *)
LEMMA IndexForIs ==
  ASSUME TypeOK, NamesInv, pc["display"] # "down", NEW p
  PROVE  /\ IndexFor(p) \in 0..MaxIndex
         /\ \A f \in Archived : f[2] = p => f[3] <= IndexFor(p)
<1>1. FilesOK /\ NumbersOK
  BY TypeParts
<1>2. CASE p = ArchiveTime
  BY <1>1, <1>2 DEF IndexFor, NamesInv, NumbersOK
<1>3. CASE p # ArchiveTime
  BY <1>1, <1>3, LastIndexIs DEF IndexFor
<1>4. QED
  BY <1>2, <1>3

----------------------------------------------------------------------------
(* The two threads                                                           *)

(* One of them completes files, and what it has it keeps until it is done.    *)
LEMMA ControlKept ==
  ASSUME IndInv, Next
  PROVE  ControlInv'
<1>0. TypeOK /\ ControlInv
  BY DEF IndInv
<1>1. CASE Start
  BY <1>0, <1>1 DEF ControlInv, Start, OpenActive, OpenFails, TypeOK, Completing, Writer, Threads, Goto, io, files, policy, calls, others, records, counts
<1>2. CASE CleanOnStart
  BY <1>0, <1>2 DEF ControlInv, CleanOnStart, ApplyRetention, RemoveFiles, TypeOK, Completing, Writer, Threads, Goto, io, files, policy, calls, others, records, counts
<1>3. CASE Display
  <2>1. /\ pc["display"] = "idle"
        /\ pc' = [pc EXCEPT !["display"] = IF PeriodOver THEN "take" ELSE "append"]
        /\ batch' = [batch EXCEPT !["display"] = {displayed + 1}]
        /\ UNCHANGED <<scenario, queue>>
    BY <1>3 DEF Display, Complete, Goto
  <2>2. PeriodOver => ~scenario.async
    BY <1>0 DEF PeriodOver, ControlInv
  <2> HIDE DEF PeriodOver
  <2>3. QED
    BY <1>0, <2>1, <2>2 DEF ControlInv, TypeOK, Threads, Writer, Completing
<1>4. CASE DisplayClosed
  BY <1>0, <1>4 DEF ControlInv, DisplayClosed, TypeOK, Completing, Writer, Threads, Goto, io, files, policy, calls, others, records, counts
<1>5. CASE Enqueue
  BY <1>0, <1>5 DEF ControlInv, Enqueue, TypeOK, Completing, Writer, Threads, Goto, io, files, policy, calls, others, records, counts
<1>6. CASE TakeReady
  <2>1. /\ pc["write"] = "idle" /\ queue # {}
        /\ pc' = [pc EXCEPT !["write"] = "append"]
        /\ batch' = [batch EXCEPT !["write"] = queue]
        /\ scenario' = scenario /\ queue' = {}
    BY <1>6 DEF TakeReady, Goto
  <2>2. scenario.async /\ pc["display"] \notin {"down", "clean"}
    BY <1>0, <2>1 DEF ControlInv
  <2>3. /\ pc'["write"] = "append" /\ pc'["display"] = pc["display"]
        /\ batch'["display"] = batch["display"]
    BY <1>0, <2>1 DEF TypeOK, Threads
  <2>4. \A t \in Threads : t \in {"display", "write"}
    BY DEF Threads
  <2>5. QED
    BY <1>0, <2>1, <2>2, <2>3, <2>4 DEF ControlInv, Writer, Completing
<1>7. CASE ApplySizeLimit
  BY <1>0, <1>7 DEF ControlInv, ApplySizeLimit, Complete, TypeOK, Completing, Writer, Threads, Goto, io, files, policy, calls, others, records, counts
<1>8. CASE Write
  BY <1>0, <1>8 DEF ControlInv, Write, TypeOK, Completing, Writer, Threads, Goto, io, files, policy, calls, others, records, counts
<1>9. CASE TimePasses
  BY <1>0, <1>9 DEF ControlInv, TimePasses, TypeOK, Completing, Writer, Threads, Goto, io, files, policy, calls, others, records, counts
<1>10. CASE Collect
  <2>1. UNCHANGED <<scenario, pc, batch, queue>>
    BY <1>10 DEF Collect, calls
  <2>2. QED
    BY <1>0, <2>1 DEF ControlInv, Writer
<1>11. CASE Crash
  BY <1>0, <1>11 DEF ControlInv, Crash, TypeOK, Completing, Writer, Threads, Goto, io, files, policy, calls, others, records, counts
<1>12. ASSUME NEW t \in Threads, TakeName(t) PROVE ControlInv'
  BY <1>0, <1>12 DEF ControlInv, TakeName, TypeOK, Completing, Writer, Threads, Goto, io, files, policy, calls, others, records, counts
<1>13. ASSUME NEW t \in Threads, CloseLog(t) PROVE ControlInv'
  BY <1>0, <1>13 DEF ControlInv, CloseLog, TypeOK, Completing, Writer, Threads, Goto, io, files, policy, calls, others, records, counts
<1>14. ASSUME NEW t \in Threads, Move(t) PROVE ControlInv'
  BY <1>0, <1>14 DEF ControlInv, Move, Rename, TypeOK, Completing, Writer, Threads, Goto, io, files, policy, calls, others, records, counts
<1>15. ASSUME NEW t \in Threads, MoveFails(t) PROVE ControlInv'
  BY <1>0, <1>15 DEF ControlInv, MoveFails, TypeOK, Completing, Writer, Threads, Goto, io, files, policy, calls, others, records, counts
<1>16. ASSUME NEW t \in Threads, Reopen(t) PROVE ControlInv'
  BY <1>0, <1>16 DEF ControlInv, Reopen, GiveUp, OpenFails, OpenActive, TypeOK, Completing, Writer, Threads, Goto, io, files, policy, calls, others, records, counts
<1>17. ASSUME NEW t \in Threads, CreateLog(t) PROVE ControlInv'
  BY <1>0, <1>17 DEF ControlInv, CreateLog, OpenActive, TypeOK, Completing, Writer, Threads, Goto, io, files, policy, calls, others, records, counts
<1>18. ASSUME NEW t \in Threads, CreateFails(t) PROVE ControlInv'
  BY <1>0, <1>18 DEF ControlInv, CreateFails, GiveUp, OpenFails, TypeOK, Completing, Writer, Threads, Goto, io, files, policy, calls, others, records, counts
<1>19. ASSUME NEW t \in Threads, Retain(t) PROVE ControlInv'
  BY <1>0, <1>19 DEF ControlInv, Retain, ApplyRetention, RemoveFiles, TypeOK, Completing, Writer, Threads, Goto, io, files, policy, calls, others, records, counts
<1>20. ASSUME NEW f \in submitted, Compress(f) PROVE ControlInv'
  BY <1>0, <1>20 DEF ControlInv, Compress, TypeOK, Completing, Writer, Threads, Goto, io, files, policy, calls, others, records, counts
<1>21. ASSUME NEW f \in candidates, Delete(f) PROVE ControlInv'
  BY <1>0, <1>21 DEF ControlInv, Delete, TypeOK, Completing, Writer, Threads, Goto, io, files, policy, calls, others, records, counts
<1>22. QED
  BY <1>1, <1>2, <1>3, <1>4, <1>5, <1>6, <1>7, <1>8, <1>9, <1>10, <1>11, <1>12, <1>13, <1>14, <1>15, <1>16, <1>17, <1>18, <1>19, <1>20, <1>21 DEF Next

----------------------------------------------------------------------------
(* Types: the steps                                                          *)

(* The name a thread has taken. *)
LEMMA TargetName ==
  ASSUME CallsOK, NamesInv, NEW t \in Threads, pc[t] \in Completing
  PROVE  /\ target[t][2] \in 0..MaxTime /\ target[t][3] \in 0..MaxIndex
         /\ target[t] = Log(target[t][2], target[t][3])
<1>1. target[t] \in {Log(p, i) : p \in 0..MaxTime, i \in 0..MaxIndex}
  BY DEF CallsOK, NamesInv
<1>2. QED
  BY <1>1 DEF Log

(* The numbers stay within their bounds. *)
LEMMA NumbersKept ==
  ASSUME IndInv, Next
  PROVE  NumbersOK'
<1>0. TypeOK /\ NumbersOK /\ CallsOK /\ NamesInv /\ FilesOK /\ ControlInv
  BY TypeParts DEF IndInv
<1>1. CASE Start
  <2>1. LastIndex(now) \in 0..MaxIndex
    BY <1>0, LastIndexIs
  <2>2. /\ UNCHANGED <<scenario, now, displayed, crashes, monitors>>
        /\ PeriodStart' \in {0, now} /\ ArchiveTime' = now /\ ArchiveIndex' = LastIndex(now)
        /\ failures' = failures \/ (failures < MaxFailures /\ failures' = failures + 1)
    BY <1>1 DEF Start, OpenFails, records, counts
  <2>3. QED
    BY <1>0, <2>1, <2>2, Bounds DEF NumbersOK
<1>2. CASE CleanOnStart
  BY <1>0, <1>2, Bounds DEF NumbersOK, CleanOnStart, ApplyRetention, RemoveFiles, CurrentArchiveTime, Goto, io, files, policy, calls, others, records, counts
<1>3. CASE Display
  BY <1>0, <1>3, Bounds DEF NumbersOK, Display, Complete, CurrentArchiveTime, Goto, io, files, policy, calls, others, records, counts
<1>4. CASE DisplayClosed
  BY <1>0, <1>4, Bounds DEF NumbersOK, DisplayClosed, CurrentArchiveTime, Goto, io, files, policy, calls, others, records, counts
<1>5. CASE Enqueue
  BY <1>0, <1>5, Bounds DEF NumbersOK, Enqueue, CurrentArchiveTime, Goto, io, files, policy, calls, others, records, counts
<1>6. CASE TakeReady
  BY <1>0, <1>6, Bounds DEF NumbersOK, TakeReady, CurrentArchiveTime, Goto, io, files, policy, calls, others, records, counts
<1>7. CASE ApplySizeLimit
  BY <1>0, <1>7, Bounds DEF NumbersOK, ApplySizeLimit, Complete, CurrentArchiveTime, Goto, io, files, policy, calls, others, records, counts
<1>8. CASE Write
  BY <1>0, <1>8, Bounds DEF NumbersOK, Write, CurrentArchiveTime, Goto, io, files, policy, calls, others, records, counts
<1>9. CASE TimePasses
  BY <1>0, <1>9, Bounds DEF NumbersOK, TimePasses, CurrentArchiveTime, Goto, io, files, policy, calls, others, records, counts
<1>10. CASE Collect
  <2>1. /\ UNCHANGED <<scenario, now, PeriodStart, ArchiveTime, ArchiveIndex, displayed, failures, crashes>>
        /\ monitors < MaxMonitors /\ monitors' = monitors + 1
    BY <1>10 DEF Collect, policy, records
  <2>2. QED
    BY <1>0, <2>1, Bounds DEF NumbersOK
<1>11. CASE Crash
  BY <1>0, <1>11, Bounds DEF NumbersOK, Crash, CurrentArchiveTime, Goto, io, files, policy, calls, others, records, counts
<1>12. ASSUME NEW t \in Threads, TakeName(t) PROVE NumbersOK'
  <2>1. IndexFor(target[t][2]) \in 0..MaxIndex /\ target[t][2] \in 0..MaxTime
    <3>1. pc[t] = "take" /\ pc["display"] # "down"
      BY <1>0, <1>12 DEF TakeName, ControlInv, Threads, Completing
    <3>2. QED
      BY <1>0, <3>1, IndexForIs, TargetName DEF Completing
  <2>2. /\ UNCHANGED <<scenario, now, PeriodStart, displayed, failures, crashes, monitors>>
        /\ ArchiveTime' = target[t][2] /\ ArchiveIndex' = IndexFor(target[t][2])
    BY <1>12 DEF TakeName, records, counts
  <2>3. QED
    BY <1>0, <2>1, <2>2 DEF NumbersOK
<1>13. ASSUME NEW t \in Threads, CloseLog(t) PROVE NumbersOK'
  <2>1. target[t][3] \in 0..MaxIndex
    BY <1>0, <1>13, TargetName DEF CloseLog, Completing
  <2>2. /\ UNCHANGED <<scenario, now, PeriodStart, ArchiveTime, displayed, failures, crashes, monitors>>
        /\ ArchiveIndex' = target[t][3]
    BY <1>13 DEF CloseLog, records, counts
  <2>3. QED
    BY <1>0, <2>1, <2>2 DEF NumbersOK
<1>14. ASSUME NEW t \in Threads, Move(t) PROVE NumbersOK'
  BY <1>0, <1>14, Bounds DEF NumbersOK, Move, Rename, CurrentArchiveTime, Goto, io, files, policy, calls, others, records, counts
<1>15. ASSUME NEW t \in Threads, MoveFails(t) PROVE NumbersOK'
  BY <1>0, <1>15, Bounds DEF NumbersOK, MoveFails, CurrentArchiveTime, Goto, io, files, policy, calls, others, records, counts
<1>16. ASSUME NEW t \in Threads, Reopen(t) PROVE NumbersOK'
  BY <1>0, <1>16, Bounds DEF NumbersOK, Reopen, GiveUp, OpenFails, OpenActive, CurrentArchiveTime, Goto, io, files, policy, calls, others, records, counts
<1>17. ASSUME NEW t \in Threads, CreateLog(t) PROVE NumbersOK'
  <2>1. IndexFor(CurrentArchiveTime) \in 0..MaxIndex /\ CurrentArchiveTime \in 0..MaxTime
    <3>1. pc["display"] # "down"
      BY <1>0, <1>17 DEF CreateLog, ControlInv, Threads, Completing
    <3>2. CurrentArchiveTime \in {PeriodStart, now}
      BY DEF CurrentArchiveTime
    <3>3. QED
      BY <1>0, <3>1, <3>2, IndexForIs, Bounds DEF NumbersOK
  <2>2. /\ UNCHANGED <<scenario, now, PeriodStart, displayed, failures, crashes, monitors>>
        /\ ArchiveTime' = CurrentArchiveTime /\ ArchiveIndex' = IndexFor(CurrentArchiveTime)
    BY <1>17 DEF CreateLog, records, counts
  <2>3. QED
    BY <1>0, <2>1, <2>2 DEF NumbersOK
<1>18. ASSUME NEW t \in Threads, CreateFails(t) PROVE NumbersOK'
  BY <1>0, <1>18, Bounds DEF NumbersOK, CreateFails, GiveUp, OpenFails, CurrentArchiveTime, Goto, io, files, policy, calls, others, records, counts
<1>19. ASSUME NEW t \in Threads, Retain(t) PROVE NumbersOK'
  BY <1>0, <1>19, Bounds DEF NumbersOK, Retain, ApplyRetention, RemoveFiles, CurrentArchiveTime, Goto, io, files, policy, calls, others, records, counts
<1>20. ASSUME NEW f \in submitted, Compress(f) PROVE NumbersOK'
  BY <1>0, <1>20, Bounds DEF NumbersOK, Compress, CurrentArchiveTime, Goto, io, files, policy, calls, others, records, counts
<1>21. ASSUME NEW f \in candidates, Delete(f) PROVE NumbersOK'
  BY <1>0, <1>21, Bounds DEF NumbersOK, Delete, CurrentArchiveTime, Goto, io, files, policy, calls, others, records, counts
<1>22. QED
  BY <1>1, <1>2, <1>3, <1>4, <1>5, <1>6, <1>7, <1>8, <1>9, <1>10, <1>11, <1>12, <1>13, <1>14, <1>15, <1>16, <1>17, <1>18, <1>19, <1>20, <1>21 DEF Next

(* The records of some files have been displayed. *)
LEMMA RecordsDisplayed ==
  ASSUME FilesOK, NEW fs
  PROVE  Records(fs) \subseteq 1..displayed
BY DEF FilesOK, Records

(* One more record is displayed. *)
LEMMA DisplayedGrows ==
  ASSUME NumbersOK, displayed' = displayed + 1
  PROVE  1..displayed' = (1..displayed) \cup {displayed + 1} /\ displayed + 1 \notin 1..displayed
<1>1. displayed \in Nat
  BY Bounds DEF NumbersOK
<1>2. QED
  BY <1>1

(* The writer is one of the threads. *)
LEMMA WriterIs ==
  /\ Writer \in Threads /\ Threads = {"display", "write"} /\ "display" \in Threads /\ "write" \in Threads
  /\ Writer = IF scenario.async THEN "write" ELSE "display"
BY DEF Writer, Threads

(* A name that has been found is that of an archive. *)
LEMMA TargetArchive ==
  ASSUME CallsOK, NamesInv, NEW t \in Threads, pc[t] \in {"close", "move", "create"}
  PROVE  target[t] \in Archives
<1>1. pc[t] \in Completing
  BY DEF Completing
<1>2. /\ target[t][2] \in 0..MaxTime /\ target[t][3] \in 0..MaxIndex /\ target[t][3] > 0
      /\ target[t] = Log(target[t][2], target[t][3])
  BY <1>1, TargetName DEF NamesInv
<1>3. target[t][3] \in 1..MaxIndex
  BY <1>2, Bounds
<1>4. QED
  BY <1>2, <1>3 DEF Log, Archives

(* What the backend and the other users of the directory know. *)
LEMMA SetsKept ==
  ASSUME IndInv, Next
  PROVE  SetsOK'
<1>0. SetsOK /\ CallsOK /\ FilesOK /\ ControlInv /\ NumbersOK /\ HandleInv /\ NamesInv
  BY TypeParts DEF IndInv
<1>1. CASE Start
  BY <1>0, <1>1, Bounds DEF SetsOK, Start, OpenActive, OpenFails, Writer, Threads, Goto, io, files, policy, calls, others, records, counts
<1>2. CASE CleanOnStart
  <2>1. /\ UNCHANGED <<queue, submitted, candidates, dropped, registered, openFailed, displayed>>
        /\ handle' \in {handle, Unlinked}
        /\ gone' = gone \/ gone' = gone \cup Records(Expired)
    BY <1>2 DEF CleanOnStart, ApplyRetention, RemoveFiles, others
  <2>2. Records(Expired) \subseteq 1..displayed
    BY <1>0, RecordsDisplayed
  <2>3. QED
    BY <1>0, <2>1, <2>2 DEF SetsOK
<1>3. CASE Display
  <2>1. /\ UNCHANGED <<handle, queue, submitted, candidates, gone, dropped, openFailed>>
        /\ registered' = scenario.async /\ displayed' = displayed + 1
    BY <1>3 DEF Display, io, others
  <2>2. scenario.async \in BOOLEAN
    BY <1>0, RotationAssumption DEF NumbersOK
  <2>3. 1..displayed \subseteq 1..displayed'
    BY <1>0, <2>1, DisplayedGrows
  <2>4. QED
    BY <1>0, <2>1, <2>2, <2>3 DEF SetsOK
<1>4. CASE DisplayClosed
  <2>1. /\ UNCHANGED <<handle, queue, submitted, candidates, gone, registered, openFailed>>
        /\ dropped' = dropped \cup {displayed + 1} /\ displayed' = displayed + 1
    BY <1>4 DEF DisplayClosed, io, others
  <2>2. 1..displayed' = (1..displayed) \cup {displayed + 1}
    BY <1>0, <2>1, DisplayedGrows
  <2>3. QED
    BY <1>0, <2>1, <2>2 DEF SetsOK
<1>5. CASE Enqueue
  <2>1. /\ UNCHANGED <<handle, submitted, candidates, gone, dropped, registered, openFailed, displayed>>
        /\ queue' = queue \cup batch["display"]
    BY <1>5 DEF Enqueue, io, others, records
  <2>2. batch["display"] \subseteq 1..displayed
    BY <1>0, WriterIs DEF CallsOK
  <2>3. QED
    BY <1>0, <2>1, <2>2 DEF SetsOK
<1>6. CASE TakeReady
  BY <1>0, <1>6, Bounds DEF SetsOK, TakeReady, Writer, Threads, Goto, io, files, policy, calls, others, records, counts
<1>7. CASE ApplySizeLimit
  BY <1>0, <1>7, Bounds DEF SetsOK, ApplySizeLimit, Complete, Writer, Threads, Goto, io, files, policy, calls, others, records, counts
<1>8. CASE Write
  <2>1. /\ UNCHANGED <<handle, queue, submitted, candidates, registered, openFailed, displayed>>
        /\ gone' \in {gone, gone \cup batch[Writer]}
        /\ dropped' \in {dropped, dropped \cup batch[Writer]}
    BY <1>8 DEF Write, others
  <2>2. batch[Writer] \subseteq 1..displayed
    BY <1>0, WriterIs DEF CallsOK
  <2>3. QED
    BY <1>0, <2>1, <2>2 DEF SetsOK
<1>9. CASE TimePasses
  BY <1>0, <1>9, Bounds DEF SetsOK, TimePasses, Writer, Threads, Goto, io, files, policy, calls, others, records, counts
<1>10. CASE Collect
  <2>1. /\ UNCHANGED <<handle, queue, submitted, gone, dropped, registered, openFailed, displayed>>
        /\ candidates' \subseteq DOMAIN disk
    BY <1>10 DEF Collect, io, records
  <2>2. QED
    BY <1>0, <2>1 DEF SetsOK, FilesOK
<1>11. CASE Crash
  <2>1. /\ UNCHANGED <<dropped, openFailed, displayed>>
        /\ handle' = Closed /\ queue' = {} /\ submitted' = {} /\ candidates' = {} /\ registered' = FALSE
        /\ gone' \subseteq gone \cup Records({handle}) \cup queue \cup UNION {batch[t] : t \in Threads}
    BY <1>11 DEF Crash
  <2>2. Records({handle}) \subseteq 1..displayed
    BY <1>0, RecordsDisplayed
  <2>3. UNION {batch[t] : t \in Threads} \subseteq 1..displayed
    BY <1>0 DEF CallsOK
  <2>4. QED
    BY <1>0, <2>1, <2>2, <2>3 DEF SetsOK
<1>12. ASSUME NEW t \in Threads, TakeName(t) PROVE SetsOK'
  BY <1>0, <1>12, Bounds DEF SetsOK, TakeName, Writer, Threads, Goto, io, files, policy, calls, others, records, counts
<1>13. ASSUME NEW t \in Threads, CloseLog(t) PROVE SetsOK'
  BY <1>0, <1>13, Bounds DEF SetsOK, CloseLog, Writer, Threads, Goto, io, files, policy, calls, others, records, counts
<1>14. ASSUME NEW t \in Threads, Move(t) PROVE SetsOK'
  <2>1. /\ UNCHANGED <<queue, submitted, candidates, gone, dropped, registered, openFailed, displayed>>
        /\ handle' \in {handle, Unlinked} \/ handle = Active
    BY <1>14 DEF Move, Rename, others, records
  <2>2. handle # Active
    <3>1. pc[t] = "move" /\ t = Writer
      BY <1>0, <1>14 DEF Move, ControlInv, Completing
    <3>2. handle = Closed
      BY <1>0, <3>1 DEF HandleInv
    <3>3. QED
      BY <3>2, Names
  <2>3. QED
    BY <1>0, <2>1, <2>2 DEF SetsOK
<1>15. ASSUME NEW t \in Threads, MoveFails(t) PROVE SetsOK'
  BY <1>0, <1>15, Bounds DEF SetsOK, MoveFails, Writer, Threads, Goto, io, files, policy, calls, others, records, counts
<1>16. ASSUME NEW t \in Threads, Reopen(t) PROVE SetsOK'
  <2>1. /\ UNCHANGED <<queue, submitted, candidates, gone, registered, displayed>>
        /\ handle' \in {Closed, Active} /\ openFailed' \in {openFailed, TRUE}
        /\ dropped' = dropped \cup batch[t]
    BY <1>16 DEF Reopen, GiveUp, OpenActive, OpenFails, others
  <2>2. batch[t] \subseteq 1..displayed
    BY <1>0, <1>16 DEF CallsOK
  <2>3. QED
    BY <1>0, <2>1, <2>2 DEF SetsOK
<1>17. ASSUME NEW t \in Threads, CreateLog(t) PROVE SetsOK'
  <2>1. /\ UNCHANGED <<queue, candidates, gone, dropped, registered, openFailed, displayed>>
        /\ handle' = Active /\ submitted' \subseteq submitted \cup {target[t]}
    BY <1>17 DEF CreateLog, OpenActive, records
  <2>2. target[t] \in Archives
    BY <1>0, <1>17, TargetArchive DEF CreateLog
  <2>3. QED
    BY <1>0, <2>1, <2>2 DEF SetsOK
<1>18. ASSUME NEW t \in Threads, CreateFails(t) PROVE SetsOK'
  <2>1. /\ UNCHANGED <<queue, submitted, candidates, gone, registered, displayed>>
        /\ handle' \in {Closed, Active} /\ openFailed' \in {openFailed, TRUE}
        /\ dropped' = dropped \cup batch[t]
    BY <1>18 DEF CreateFails, GiveUp, OpenFails, others
  <2>2. batch[t] \subseteq 1..displayed
    BY <1>0, <1>18 DEF CallsOK
  <2>3. QED
    BY <1>0, <2>1, <2>2 DEF SetsOK
<1>19. ASSUME NEW t \in Threads, Retain(t) PROVE SetsOK'
  <2>1. /\ UNCHANGED <<queue, submitted, candidates, dropped, registered, openFailed, displayed>>
        /\ handle' \in {handle, Unlinked}
        /\ gone' = gone \cup Records(Expired)
    BY <1>19 DEF Retain, ApplyRetention, RemoveFiles, others
  <2>2. Records(Expired) \subseteq 1..displayed
    BY <1>0, RecordsDisplayed
  <2>3. QED
    BY <1>0, <2>1, <2>2 DEF SetsOK
<1>20. ASSUME NEW f \in submitted, Compress(f) PROVE SetsOK'
  BY <1>0, <1>20, Bounds DEF SetsOK, Compress, Writer, Threads, Goto, io, files, policy, calls, others, records, counts
<1>21. ASSUME NEW f \in candidates, Delete(f) PROVE SetsOK'
  <2>1. /\ UNCHANGED <<queue, submitted, dropped, registered, openFailed, displayed>>
        /\ handle' \in {handle, Unlinked} /\ candidates' = candidates \ {f}
        /\ gone' = gone \cup Records({f})
    BY <1>21 DEF Delete, RemoveFiles
  <2>2. Records({f}) \subseteq 1..displayed
    BY <1>0, RecordsDisplayed
  <2>3. QED
    BY <1>0, <2>1, <2>2 DEF SetsOK
<1>22. QED
  BY <1>1, <1>2, <1>3, <1>4, <1>5, <1>6, <1>7, <1>8, <1>9, <1>10, <1>11, <1>12, <1>13, <1>14, <1>15, <1>16, <1>17, <1>18, <1>19, <1>20, <1>21 DEF Next

(* The steps of a thread and what it has in its hands. *)
LEMMA CallsKept ==
  ASSUME IndInv, Next
  PROVE  CallsOK'
<1>0. TypeOK /\ CallsOK /\ SetsOK /\ NumbersOK /\ ControlInv /\ FilesOK /\ NamesInv
  BY TypeParts DEF IndInv
<1>1. CASE Start
  BY <1>0, <1>1, Bounds DEF CallsOK, Start, OpenActive, OpenFails, Writer, Threads, Goto, io, files, policy, calls, others, records, counts
<1>2. CASE CleanOnStart
  BY <1>0, <1>2, Bounds DEF CallsOK, CleanOnStart, ApplyRetention, RemoveFiles, Writer, Threads, Goto, io, files, policy, calls, others, records, counts
<1>3. CASE Display
  <2>1. /\ pc' \in {[pc EXCEPT !["display"] = "take"], [pc EXCEPT !["display"] = "append"]}
        /\ batch' = [batch EXCEPT !["display"] = {displayed + 1}]
        /\ after' \in {after, [after EXCEPT !["display"] = "append"]}
        /\ target' \in {target, [target EXCEPT !["display"] = Log(PeriodStart, 0)]}
        /\ displayed' = displayed + 1
    BY <1>3 DEF Display, Complete, Goto
  <2>2. 1..displayed' = (1..displayed) \cup {displayed + 1}
    BY <1>0, <2>1, DisplayedGrows
  <2>3. PeriodStart \in 0..MaxTime /\ 0 \in 0..MaxIndex
    BY <1>0, Bounds DEF NumbersOK
  <2>4. Log(PeriodStart, 0) \in {Log(p, i) : p \in 0..MaxTime, i \in 0..MaxIndex}
    BY <2>3
  <2>5. batch' \in [Threads -> SUBSET (1..displayed')]
    <3>1. batch \in [Threads -> SUBSET (1..displayed)]
      BY <1>0 DEF CallsOK
    <3>2. 1..displayed \subseteq 1..displayed' /\ {displayed + 1} \subseteq 1..displayed'
      BY <2>2
    <3>3. QED
      BY <2>1, <3>1, <3>2
  <2>6. QED
    BY <1>0, <2>1, <2>4, <2>5 DEF CallsOK
<1>4. CASE DisplayClosed
  <2>1. UNCHANGED <<pc, batch, target, after>> /\ displayed' = displayed + 1
    BY <1>4 DEF DisplayClosed, calls
  <2>2. 1..displayed' = (1..displayed) \cup {displayed + 1}
    BY <1>0, <2>1, DisplayedGrows
  <2>3. 1..displayed \subseteq 1..displayed'
    BY <2>2
  <2>4. batch \in [Threads -> SUBSET (1..displayed)]
    BY <1>0 DEF CallsOK
  <2>5. batch' \in [Threads -> SUBSET (1..displayed')]
    BY <2>1, <2>3, <2>4
  <2>6. QED
    BY <1>0, <2>1, <2>5 DEF CallsOK
<1>5. CASE Enqueue
  BY <1>0, <1>5, Bounds DEF CallsOK, Enqueue, Writer, Threads, Goto, io, files, policy, calls, others, records, counts
<1>6. CASE TakeReady
  <2>1. /\ UNCHANGED <<target, after, displayed>>
        /\ batch' = [batch EXCEPT !["write"] = queue] /\ pc' = [pc EXCEPT !["write"] = "append"]
    BY <1>6 DEF TakeReady, Goto, records
  <2>2. queue \subseteq 1..displayed
    BY <1>0 DEF SetsOK
  <2>3. batch \in [Threads -> SUBSET (1..displayed)]
    BY <1>0 DEF CallsOK
  <2>4. batch' \in [Threads -> SUBSET (1..displayed')]
    BY <2>1, <2>2, <2>3
  <2>5. QED
    BY <1>0, <2>1, <2>4 DEF CallsOK
<1>7. CASE ApplySizeLimit
  <2>1. /\ UNCHANGED <<batch, displayed>>
        /\ pc' \in {[pc EXCEPT ![Writer] = "take"], [pc EXCEPT ![Writer] = "write"]}
        /\ after' \in {after, [after EXCEPT ![Writer] = "write"]}
        /\ target' \in {target, [target EXCEPT ![Writer] = Log(ArchiveTime, 0)]}
    BY <1>7 DEF ApplySizeLimit, Complete, Goto, records
  <2>2. ArchiveTime \in 0..MaxTime /\ 0 \in 0..MaxIndex
    BY <1>0, Bounds DEF NumbersOK
  <2>3. Log(ArchiveTime, 0) \in {Log(p, i) : p \in 0..MaxTime, i \in 0..MaxIndex}
    BY <2>2
  <2>4. QED
    BY <1>0, <2>1, <2>3 DEF CallsOK
<1>8. CASE Write
  BY <1>0, <1>8, Bounds DEF CallsOK, Write, Writer, Threads, Goto, io, files, policy, calls, others, records, counts
<1>9. CASE TimePasses
  BY <1>0, <1>9, Bounds DEF CallsOK, TimePasses, Writer, Threads, Goto, io, files, policy, calls, others, records, counts
<1>10. CASE Collect
  <2>1. UNCHANGED <<pc, batch, target, after, displayed>>
    BY <1>10 DEF Collect, calls, records
  <2>2. QED
    BY <1>0, <2>1 DEF CallsOK
<1>11. CASE Crash
  BY <1>0, <1>11, Bounds DEF CallsOK, Crash, Writer, Threads, Goto, io, files, policy, calls, others, records, counts
<1>12. ASSUME NEW t \in Threads, TakeName(t) PROVE CallsOK'
  <2>1. /\ UNCHANGED <<batch, after, displayed>> /\ pc' = [pc EXCEPT ![t] = "close"]
        /\ target' = [target EXCEPT ![t] = Log(target[t][2], NextIndex(target[t][2]))]
        /\ NextIndex(target[t][2]) <= MaxIndex /\ pc[t] = "take"
    BY <1>12 DEF TakeName, Goto, records
  <2>2. target[t][2] \in 0..MaxTime
    BY <1>0, <2>1, TargetName DEF Completing
  <2>3. NextIndex(target[t][2]) \in 0..MaxIndex
    <3> DEFINE p == target[t][2]
    <3>1. pc["display"] # "down"
      BY <1>0, <2>1, WriterIs DEF ControlInv, Completing
    <3>2. IndexFor(p) \in 0..MaxIndex /\ \A f \in Archived : f[2] = p => f[3] <= IndexFor(p)
      BY <1>0, <3>1, IndexForIs
    <3>3. NextIndex(p) \in (IndexFor(p) + 1)..(MaxIndex + 1)
      BY <1>0, <3>2, NextIndexIs
    <3> HIDE DEF p
    <3>4. NextIndex(p) <= MaxIndex
      BY <2>1 DEF p
    <3>5. NextIndex(p) \in 0..MaxIndex
      BY <3>2, <3>3, <3>4, Bounds
    <3>6. QED
      BY <3>5 DEF p
  <2>4. Log(target[t][2], NextIndex(target[t][2])) \in {Log(p, i) : p \in 0..MaxTime, i \in 0..MaxIndex}
    BY <2>2, <2>3
  <2>5. QED
    BY <1>0, <2>1, <2>4 DEF CallsOK
<1>13. ASSUME NEW t \in Threads, CloseLog(t) PROVE CallsOK'
  BY <1>0, <1>13, Bounds DEF CallsOK, CloseLog, Writer, Threads, Goto, io, files, policy, calls, others, records, counts
<1>14. ASSUME NEW t \in Threads, Move(t) PROVE CallsOK'
  BY <1>0, <1>14, Bounds DEF CallsOK, Move, Rename, Writer, Threads, Goto, io, files, policy, calls, others, records, counts
<1>15. ASSUME NEW t \in Threads, MoveFails(t) PROVE CallsOK'
  BY <1>0, <1>15, Bounds DEF CallsOK, MoveFails, Writer, Threads, Goto, io, files, policy, calls, others, records, counts
<1>16. ASSUME NEW t \in Threads, Reopen(t) PROVE CallsOK'
  BY <1>0, <1>16, Bounds DEF CallsOK, Reopen, GiveUp, OpenFails, OpenActive, Writer, Threads, Goto, io, files, policy, calls, others, records, counts
<1>17. ASSUME NEW t \in Threads, CreateLog(t) PROVE CallsOK'
  BY <1>0, <1>17, Bounds DEF CallsOK, CreateLog, OpenActive, Writer, Threads, Goto, io, files, policy, calls, others, records, counts
<1>18. ASSUME NEW t \in Threads, CreateFails(t) PROVE CallsOK'
  BY <1>0, <1>18, Bounds DEF CallsOK, CreateFails, GiveUp, OpenFails, Writer, Threads, Goto, io, files, policy, calls, others, records, counts
<1>19. ASSUME NEW t \in Threads, Retain(t) PROVE CallsOK'
  BY <1>0, <1>19, Bounds DEF CallsOK, Retain, ApplyRetention, RemoveFiles, Writer, Threads, Goto, io, files, policy, calls, others, records, counts
<1>20. ASSUME NEW f \in submitted, Compress(f) PROVE CallsOK'
  BY <1>0, <1>20, Bounds DEF CallsOK, Compress, Writer, Threads, Goto, io, files, policy, calls, others, records, counts
<1>21. ASSUME NEW f \in candidates, Delete(f) PROVE CallsOK'
  BY <1>0, <1>21, Bounds DEF CallsOK, Delete, Writer, Threads, Goto, io, files, policy, calls, others, records, counts
<1>22. QED
  BY <1>1, <1>2, <1>3, <1>4, <1>5, <1>6, <1>7, <1>8, <1>9, <1>10, <1>11, <1>12, <1>13, <1>14, <1>15, <1>16, <1>17, <1>18, <1>19, <1>20, <1>21 DEF Next

(* The files on the disk and the order of their last writes. *)
LEMMA FilesKept ==
  ASSUME IndInv, Next
  PROVE  FilesOK'
<1>0. FilesOK /\ CallsOK /\ SetsOK /\ NumbersOK /\ HandleInv /\ NamesInv
  BY TypeParts DEF IndInv
<1>1. CASE Start
  <2>1. CASE OpenActive
    <3>1. displayed' = displayed
      BY <1>1 DEF Start, records
    <3>2. QED
      BY <1>0, <2>1, <3>1, ActiveOpened
  <2>2. CASE OpenFails
    <3>1. UNCHANGED <<disk, older, displayed>>
      BY <1>1, <2>2 DEF Start, OpenFails, files, records
    <3>2. QED
      BY <1>0, <3>1 DEF FilesOK
  <2>3. QED
    BY <1>1, <2>1, <2>2 DEF Start
<1>2. CASE CleanOnStart
  <2>1. displayed' = displayed /\ (UNCHANGED <<disk, older>> \/ RemoveFiles(Expired))
    BY <1>2 DEF CleanOnStart, ApplyRetention, files
  <2>2. QED
    BY <1>0, <2>1, FilesRemoved DEF FilesOK
<1>3. CASE Display
  <2>1. UNCHANGED <<disk, older>> /\ displayed' = displayed + 1
    BY <1>3 DEF Display, io, files
  <2>2. 1..displayed \subseteq 1..displayed'
    BY <1>0, <2>1, DisplayedGrows
  <2>3. QED
    BY <1>0, <2>1, <2>2 DEF FilesOK
<1>4. CASE DisplayClosed
  <2>1. UNCHANGED <<disk, older>> /\ displayed' = displayed + 1
    BY <1>4 DEF DisplayClosed, io, files
  <2>2. 1..displayed \subseteq 1..displayed'
    BY <1>0, <2>1, DisplayedGrows
  <2>3. QED
    BY <1>0, <2>1, <2>2 DEF FilesOK
<1>5. CASE Enqueue
  <2>1. UNCHANGED <<disk, older, displayed>>
    BY <1>5 DEF Enqueue, Goto, io, files, records
  <2>2. QED
    BY <1>0, <2>1 DEF FilesOK
<1>6. CASE TakeReady
  <2>1. UNCHANGED <<disk, older, displayed>>
    BY <1>6 DEF TakeReady, Goto, io, files, records
  <2>2. QED
    BY <1>0, <2>1 DEF FilesOK
<1>7. CASE ApplySizeLimit
  <2>1. UNCHANGED <<disk, older, displayed>>
    BY <1>7 DEF ApplySizeLimit, Complete, Goto, io, files, records
  <2>2. QED
    BY <1>0, <2>1 DEF FilesOK
<1>8. CASE Write
  <2>1. displayed' = displayed
    BY <1>8 DEF Write
  <2>2. CASE handle \in {Closed, Unlinked}
    BY <1>0, <1>8, <2>1, <2>2 DEF Write, files, FilesOK
  <2>3. CASE handle \notin {Closed, Unlinked}
    <3>1. handle \in DOMAIN disk
      BY <1>0, <2>3 DEF HandleInv, Exists
    <3>2. batch[Writer] \in SUBSET (1..displayed)
      BY <1>0, WriterIs DEF CallsOK
    <3>3. /\ disk' = [disk EXCEPT ![handle] = @ \cup batch[Writer]]
          /\ older' = [g \in DOMAIN disk |-> IF g = handle THEN DOMAIN disk \ {g} ELSE older[g] \ {handle}]
      BY <1>8, <2>3 DEF Write
    <3>4. QED
      BY <1>0, <2>1, <3>1, <3>2, <3>3, FileWritten
  <2>4. QED
    BY <2>2, <2>3
<1>9. CASE TimePasses
  <2>1. UNCHANGED <<disk, older, displayed>>
    BY <1>9 DEF TimePasses, Goto, io, files, records
  <2>2. QED
    BY <1>0, <2>1 DEF FilesOK
<1>10. CASE Collect
  <2>1. UNCHANGED <<disk, older, displayed>>
    BY <1>10 DEF Collect, Goto, io, files, records
  <2>2. QED
    BY <1>0, <2>1 DEF FilesOK
<1>11. CASE Crash
  <2>1. UNCHANGED <<older, displayed>>
    BY <1>11 DEF Crash
  <2>2. DOMAIN disk' = DOMAIN disk /\ \A f \in DOMAIN disk : disk'[f] \subseteq disk[f]
    BY <1>11 DEF Crash
  <2>3. QED
    BY <1>0, <2>1, <2>2 DEF FilesOK
<1>12. ASSUME NEW t \in Threads, TakeName(t) PROVE FilesOK'
  <2>1. UNCHANGED <<disk, older, displayed>>
    BY <1>12 DEF TakeName, Goto, io, files, records
  <2>2. QED
    BY <1>0, <2>1 DEF FilesOK
<1>13. ASSUME NEW t \in Threads, CloseLog(t) PROVE FilesOK'
  <2>1. UNCHANGED <<disk, older, displayed>>
    BY <1>13 DEF CloseLog, Goto, io, files, records
  <2>2. QED
    BY <1>0, <2>1 DEF FilesOK
<1>14. ASSUME NEW t \in Threads, Move(t) PROVE FilesOK'
  <2>1. /\ displayed' = displayed /\ Rename(Active, target[t]) /\ Active \in DOMAIN disk
        /\ pc[t] = "move"
    BY <1>14 DEF Move, Exists, records
  <2>2. target[t] \in Archives /\ Active # target[t]
    BY <1>0, <2>1, TargetArchive, Names
  <2>3. QED
    BY <1>0, <2>1, <2>2, FileRenamed
<1>15. ASSUME NEW t \in Threads, MoveFails(t) PROVE FilesOK'
  <2>1. UNCHANGED <<disk, older, displayed>>
    BY <1>15 DEF MoveFails, Goto, io, files, records
  <2>2. QED
    BY <1>0, <2>1 DEF FilesOK
<1>16. ASSUME NEW t \in Threads, Reopen(t) PROVE FilesOK'
  <2>1. CASE OpenActive
    <3>1. displayed' = displayed
      BY <1>16 DEF Reopen, GiveUp, records
    <3>2. QED
      BY <1>0, <2>1, <3>1, ActiveOpened
  <2>2. CASE OpenFails
    <3>1. UNCHANGED <<disk, older, displayed>>
      BY <1>16, <2>2 DEF Reopen, GiveUp, OpenFails, files, records
    <3>2. QED
      BY <1>0, <3>1 DEF FilesOK
  <2>3. QED
    BY <1>16, <2>1, <2>2 DEF Reopen
<1>17. ASSUME NEW t \in Threads, CreateLog(t) PROVE FilesOK'
  <2>1. CASE OpenActive
    <3>1. displayed' = displayed
      BY <1>17 DEF CreateLog, records
    <3>2. QED
      BY <1>0, <2>1, <3>1, ActiveOpened
  <2>2. QED
    BY <1>17, <2>1 DEF CreateLog
<1>18. ASSUME NEW t \in Threads, CreateFails(t) PROVE FilesOK'
  <2>1. UNCHANGED <<disk, older, displayed>>
    BY <1>18 DEF CreateFails, GiveUp, OpenFails, Goto, io, files, records
  <2>2. QED
    BY <1>0, <2>1 DEF FilesOK
<1>19. ASSUME NEW t \in Threads, Retain(t) PROVE FilesOK'
  <2>1. displayed' = displayed /\ RemoveFiles(Expired)
    BY <1>19 DEF Retain, ApplyRetention
  <2>2. QED
    BY <1>0, <2>1, FilesRemoved
<1>20. ASSUME NEW f \in submitted, Compress(f) PROVE FilesOK'
  <2> DEFINE gz == Gz(f[2], f[3])
  <2>1. displayed' = displayed
    BY <1>20 DEF Compress, records
  <2>2. CASE Exists(f) /\ ~Exists(gz)
    <3>1. f \in DOMAIN disk /\ gz \notin DOMAIN disk
      BY <2>2 DEF Exists
    <3>2. gz \in Archives
      BY <1>0, <1>20 DEF SetsOK, Archives, Gz
    <3>3. /\ disk' = Moved(f, gz)
          /\ older' = [g \in DOMAIN disk' |-> IF g = gz THEN DOMAIN disk \ {f} ELSE older[g] \ {f}]
      BY <1>20, <2>2 DEF Compress
    <3> HIDE DEF gz
    <3>4. QED
      BY <1>0, <2>1, <3>1, <3>2, <3>3, FileCompressed
  <2>3. CASE ~(Exists(f) /\ ~Exists(gz))
    <3>1. UNCHANGED <<disk, older>>
      BY <1>20, <2>3 DEF Compress, files
    <3>2. QED
      BY <1>0, <2>1, <3>1 DEF FilesOK
  <2>4. QED
    BY <2>2, <2>3
<1>21. ASSUME NEW f \in candidates, Delete(f) PROVE FilesOK'
  <2>1. displayed' = displayed /\ RemoveFiles({f})
    BY <1>21 DEF Delete
  <2>2. QED
    BY <1>0, <2>1, FilesRemoved
<1>22. QED
  BY <1>1, <1>2, <1>3, <1>4, <1>5, <1>6, <1>7, <1>8, <1>9, <1>10, <1>11, <1>12, <1>13, <1>14, <1>15, <1>16, <1>17, <1>18, <1>19, <1>20, <1>21 DEF Next

----------------------------------------------------------------------------
(* The open file                                                             *)

(* A thread goes on, and the other one stays where it is. *)
LEMMA StepOf ==
  ASSUME CallsOK, NEW t \in Threads, NEW l, Goto(t, l)
  PROVE  pc'[t] = l /\ \A u \in Threads : u # t => pc'[u] = pc[u]
BY DEF CallsOK, Goto

(* A thread that completes a file is the writer, and the backend is up. *)
LEMMA WhoCompletes ==
  ASSUME ControlInv, NEW t \in Threads, pc[t] \in Completing
  PROVE  t = Writer /\ pc["display"] \notin {"down", "clean"}
BY DEF ControlInv, Completing, Threads

(* The active file is open and there. *)
LEMMA OpenIs ==
  ASSUME OpenActive
  PROVE  handle' = Active /\ Exists(Active)'
<1>1. CASE Exists(Active)
  BY <1>1 DEF OpenActive, files, Exists
<1>2. CASE ~Exists(Active)
  <2>1. disk' = [f \in DOMAIN disk \cup {Active} |-> IF f = Active THEN {} ELSE disk[f]]
    BY <1>2 DEF OpenActive
  <2>2. QED
    BY <2>1 DEF OpenActive, Exists
<1>3. QED
  BY <1>1, <1>2

(* Retention leaves the active file, and the handle. *)
LEMMA RetentionLeaves ==
  ASSUME FilesOK, HandleInv, ApplyRetention
  PROVE  /\ Expired \subseteq Archived
         /\ handle' = handle
         /\ Exists(Active)' <=> Exists(Active)
<1>1. Expired \subseteq Archived
  BY DEF Expired, Archived
<1>2. handle \notin Expired
  BY <1>1, ArchiveName, Names DEF HandleInv, Archived
<1>3. QED
  BY <1>1, <1>2 DEF ApplyRetention, RemoveFiles, Exists, Archived

(* What the backend has open. *)
LEMMA HandleKept ==
  ASSUME IndInv, Next
  PROVE  HandleInv'
<1>0. HandleInv /\ ControlInv /\ CallsOK /\ SetsOK /\ FilesOK /\ NamesInv
  BY TypeParts DEF IndInv
<1>1. CASE Start
  <2>1. /\ pc["display"] = "down" /\ scenario' = scenario
        /\ \/ OpenActive
           \/ handle' = Closed /\ openFailed' = TRUE
        /\ \E l \in {"clean", "idle"} : Goto("display", l)
    BY <1>1 DEF Start, OpenFails
  <2>2. pc["write"] = "idle"
    BY <1>0, <2>1 DEF ControlInv
  <2>3. pc'["display"] \in {"clean", "idle"} /\ pc'["write"] = "idle"
    BY <1>0, <2>1, <2>2, StepOf, WriterIs
  <2>4. (handle' = Active /\ Exists(Active)') \/ (handle' = Closed /\ openFailed' = TRUE)
    BY <2>1, OpenIs
  <2>5. QED
    BY <2>1, <2>3, <2>4, Names DEF HandleInv, Writer
<1>2. CASE CleanOnStart
  <2>1. /\ pc["display"] = "clean" /\ UNCHANGED <<scenario, openFailed>>
        /\ ApplyRetention \/ UNCHANGED <<disk, handle>>
        /\ Goto("display", "idle")
    BY <1>2 DEF CleanOnStart, files
  <2>2. pc["write"] = "idle"
    BY <1>0, <2>1 DEF ControlInv
  <2>3. pc'["display"] = "idle" /\ pc'["write"] = "idle"
    BY <1>0, <2>1, <2>2, StepOf, WriterIs
  <2>4. handle' = handle /\ (Exists(Active)' <=> Exists(Active))
    BY <1>0, <2>1, RetentionLeaves DEF Exists
  <2>5. QED
    BY <1>0, <2>1, <2>2, <2>3, <2>4 DEF HandleInv, Writer
<1>3. CASE Display
  <2>1. /\ pc["display"] = "idle" /\ handle # Closed /\ UNCHANGED <<scenario, disk, handle, openFailed>>
        /\ \E l \in {"take", "append"} : Goto("display", l)
    BY <1>3 DEF Display, Complete, io, files
  <2>2. pc'["display"] \in {"take", "append"} /\ pc'["write"] = pc["write"]
    BY <1>0, <2>1, StepOf, WriterIs
  <2>3. QED
    BY <1>0, <2>1, <2>2 DEF HandleInv, Writer, Exists
<1>4. CASE DisplayClosed
  BY <1>0, <1>4, Names DEF HandleInv, DisplayClosed, Exists, Writer, Threads, Completing, Goto, io, files, policy, calls, others, records, counts
<1>5. CASE Enqueue
  BY <1>0, <1>5, Names DEF HandleInv, Enqueue, Exists, Writer, Threads, Completing, Goto, io, files, policy, calls, others, records, counts
<1>6. CASE TakeReady
  BY <1>0, <1>6, Names DEF HandleInv, TakeReady, Exists, Writer, Threads, Completing, Goto, io, files, policy, calls, others, records, counts
<1>7. CASE ApplySizeLimit
  <2>1. /\ pc[Writer] = "append" /\ UNCHANGED <<scenario, disk, handle, openFailed>>
        /\ \E l \in {"take", "write"} : Goto(Writer, l)
    BY <1>7 DEF ApplySizeLimit, Complete, io, files
  <2>2. pc'[Writer] \in {"take", "write"} /\ (Writer # "display" => pc'["display"] = pc["display"])
    BY <1>0, <2>1, StepOf, WriterIs
  <2>3. pc["display"] # "down" /\ pc'["display"] # "down"
    BY <1>0, <2>1, <2>2, WriterIs DEF ControlInv
  <2>4. Writer' = Writer
    BY <2>1 DEF Writer
  <2>5. QED
    BY <1>0, <2>1, <2>2, <2>3, <2>4 DEF HandleInv, Exists
<1>8. CASE Write
  BY <1>0, <1>8, Names DEF HandleInv, Write, Exists, Writer, Threads, Completing, Goto, io, files, policy, calls, others, records, counts
<1>9. CASE TimePasses
  BY <1>0, <1>9, Names DEF HandleInv, TimePasses, Exists, Writer, Threads, Completing, Goto, io, files, policy, calls, others, records, counts
<1>10. CASE Collect
  <2>1. UNCHANGED <<disk, handle, pc, scenario, openFailed>>
    BY <1>10 DEF Collect, io, files
  <2>2. QED
    BY <1>0, <2>1 DEF HandleInv, Exists, Writer
<1>11. CASE Crash
  BY <1>0, <1>11, Names DEF HandleInv, Crash, Exists, Writer, Threads, Completing, Goto, io, files, policy, calls, others, records, counts
<1>12. ASSUME NEW t \in Threads, TakeName(t) PROVE HandleInv'
  BY <1>0, <1>12, Names DEF HandleInv, TakeName, Exists, Writer, Threads, Completing, Goto, io, files, policy, calls, others, records, counts
<1>13. ASSUME NEW t \in Threads, CloseLog(t) PROVE HandleInv'
  <2>1. /\ pc[t] = "close" /\ scenario' = scenario /\ Goto(t, "move")
        /\ handle' = Closed /\ UNCHANGED <<disk, openFailed>>
    BY <1>13 DEF CloseLog, files
  <2>2. t = Writer /\ pc["display"] # "down"
    BY <1>0, <2>1, WhoCompletes DEF Completing
  <2>3. pc'[Writer'] = "move" /\ pc'["display"] # "down"
    <3>1. pc'[t] = "move" /\ (t # "display" => pc'["display"] = pc["display"])
      BY <1>0, <2>1, StepOf, WriterIs
    <3>2. "move" # "down"
      BY <1>0 DEF CallsOK
    <3>3. Writer' = Writer
      BY <2>1 DEF Writer
    <3>4. QED
      BY <2>2, <3>1, <3>2, <3>3
  <2>9. QED
    BY <1>0, <2>1, <2>2, <2>3, Names DEF HandleInv, Exists
<1>14. ASSUME NEW t \in Threads, Move(t) PROVE HandleInv'
  <2>1. /\ pc[t] = "move" /\ scenario' = scenario /\ Goto(t, "create")
        /\ Rename(Active, target[t]) /\ openFailed' = openFailed
    BY <1>14 DEF Move
  <2>2. t = Writer /\ pc["display"] # "down"
    BY <1>0, <2>1, WhoCompletes DEF Completing
  <2>3. pc'[Writer'] = "create" /\ pc'["display"] # "down"
    <3>1. pc'[t] = "create" /\ (t # "display" => pc'["display"] = pc["display"])
      BY <1>0, <2>1, StepOf, WriterIs
    <3>2. "create" # "down"
      BY <1>0 DEF CallsOK
    <3>3. Writer' = Writer
      BY <2>1 DEF Writer
    <3>4. QED
      BY <2>2, <3>1, <3>2, <3>3
  <2>4. handle = Closed /\ target[t] \in Archives
    BY <1>0, <2>1, <2>2, TargetArchive DEF HandleInv
  <2>5. handle' = Closed
    BY <2>1, <2>4, Names DEF Rename
  <2>9. QED
    BY <1>0, <2>1, <2>2, <2>3, <2>5, Names DEF HandleInv, Exists
<1>15. ASSUME NEW t \in Threads, MoveFails(t) PROVE HandleInv'
  BY <1>0, <1>15, Names DEF HandleInv, MoveFails, Exists, Writer, Threads, Completing, Goto, io, files, policy, calls, others, records, counts
<1>16. ASSUME NEW t \in Threads, Reopen(t) PROVE HandleInv'
  <2>1. /\ pc[t] = "reopen" /\ scenario' = scenario /\ Goto(t, "idle")
        /\ \/ OpenActive
           \/ handle' = Closed /\ openFailed' = TRUE
    BY <1>16 DEF Reopen, GiveUp, OpenFails
  <2>2. t = Writer /\ pc["display"] # "down"
    BY <1>0, <2>1, WhoCompletes DEF Completing
  <2>3. pc'[Writer'] = "idle" /\ pc'["display"] # "down"
    <3>1. pc'[t] = "idle" /\ (t # "display" => pc'["display"] = pc["display"])
      BY <1>0, <2>1, StepOf, WriterIs
    <3>2. "idle" # "down"
      BY <1>0 DEF CallsOK
    <3>3. Writer' = Writer
      BY <2>1 DEF Writer
    <3>4. QED
      BY <2>2, <3>1, <3>2, <3>3
  <2>4. (handle' = Active /\ Exists(Active)') \/ (handle' = Closed /\ openFailed' = TRUE)
    BY <2>1, OpenIs
  <2>9. QED
    BY <1>0, <2>1, <2>2, <2>3, <2>4, Names DEF HandleInv, Exists
<1>17. ASSUME NEW t \in Threads, CreateLog(t) PROVE HandleInv'
  <2>1. /\ pc[t] = "create" /\ scenario' = scenario /\ Goto(t, "retain")
        /\ OpenActive
    BY <1>17 DEF CreateLog
  <2>2. t = Writer /\ pc["display"] # "down"
    BY <1>0, <2>1, WhoCompletes DEF Completing
  <2>3. pc'[Writer'] = "retain" /\ pc'["display"] # "down"
    <3>1. pc'[t] = "retain" /\ (t # "display" => pc'["display"] = pc["display"])
      BY <1>0, <2>1, StepOf, WriterIs
    <3>2. "retain" # "down"
      BY <1>0 DEF CallsOK
    <3>3. Writer' = Writer
      BY <2>1 DEF Writer
    <3>4. QED
      BY <2>2, <3>1, <3>2, <3>3
  <2>4. handle' = Active /\ Exists(Active)'
    BY <2>1, OpenIs
  <2>9. QED
    BY <1>0, <2>1, <2>2, <2>3, <2>4, Names DEF HandleInv, Exists
<1>18. ASSUME NEW t \in Threads, CreateFails(t) PROVE HandleInv'
  <2>1. /\ pc[t] = "create" /\ scenario' = scenario /\ Goto(t, "idle")
        /\ handle' = Closed /\ openFailed' = TRUE
    BY <1>18 DEF CreateFails, GiveUp, OpenFails
  <2>2. t = Writer /\ pc["display"] # "down"
    BY <1>0, <2>1, WhoCompletes DEF Completing
  <2>3. pc'[Writer'] = "idle" /\ pc'["display"] # "down"
    <3>1. pc'[t] = "idle" /\ (t # "display" => pc'["display"] = pc["display"])
      BY <1>0, <2>1, StepOf, WriterIs
    <3>2. "idle" # "down"
      BY <1>0 DEF CallsOK
    <3>3. Writer' = Writer
      BY <2>1 DEF Writer
    <3>4. QED
      BY <2>2, <3>1, <3>2, <3>3
  <2>9. QED
    BY <1>0, <2>1, <2>2, <2>3, Names DEF HandleInv, Exists
<1>19. ASSUME NEW t \in Threads, Retain(t) PROVE HandleInv'
  <2>1. /\ pc[t] = "retain" /\ scenario' = scenario /\ Goto(t, after[t])
        /\ ApplyRetention /\ openFailed' = openFailed
    BY <1>19 DEF Retain
  <2>2. t = Writer /\ pc["display"] # "down"
    BY <1>0, <2>1, WhoCompletes DEF Completing
  <2>3. pc'[Writer'] = after[t] /\ pc'["display"] # "down"
    <3>1. pc'[t] = after[t] /\ (t # "display" => pc'["display"] = pc["display"])
      BY <1>0, <2>1, StepOf, WriterIs
    <3>2. after[t] # "down"
      BY <1>0 DEF CallsOK
    <3>3. Writer' = Writer
      BY <2>1 DEF Writer
    <3>4. QED
      BY <2>2, <3>1, <3>2, <3>3
  <2>4. handle' = handle /\ (Exists(Active)' <=> Exists(Active))
    BY <1>0, <2>1, RetentionLeaves
  <2>5. after[t] \in {"append", "write"}
    BY <1>0 DEF CallsOK
  <2>9. QED
    BY <1>0, <2>1, <2>2, <2>3, <2>4, <2>5 DEF HandleInv, Exists
<1>20. ASSUME NEW f \in submitted, Compress(f) PROVE HandleInv'
  <2>1. UNCHANGED <<scenario, handle, pc, openFailed>> /\ Writer' = Writer
    BY <1>20 DEF Compress, Writer
  <2>2. f # Active
    BY <1>0, Names DEF SetsOK
  <2>3. Exists(Active) => Exists(Active)'
    BY <1>20, <2>2 DEF Compress, Exists, Moved, files
  <2>4. QED
    BY <1>0, <2>1, <2>3 DEF HandleInv
<1>21. ASSUME NEW f \in candidates, Delete(f) PROVE HandleInv'
  <2>1. UNCHANGED <<scenario, pc, openFailed>> /\ Writer' = Writer
    BY <1>21 DEF Delete, Writer
  <2>2. f \in {Active} \cup Archives
    BY <1>0 DEF SetsOK
  <2>3. /\ handle' \in {handle, Unlinked} /\ (handle = Closed => handle' = Closed)
        /\ handle' = Active => Exists(Active)'
    BY <1>0, <1>21, <2>2, Names DEF Delete, RemoveFiles, HandleInv, Exists
  <2>4. handle' = Closed => handle = Closed
    BY <2>3, Names
  <2>5. QED
    BY <1>0, <2>1, <2>3, <2>4 DEF HandleInv
<1>22. QED
  BY <1>1, <1>2, <1>3, <1>4, <1>5, <1>6, <1>7, <1>8, <1>9, <1>10, <1>11, <1>12, <1>13, <1>14, <1>15, <1>16, <1>17, <1>18, <1>19, <1>20, <1>21 DEF Next

(* What cannot go wrong without failures and the watchdog. *)
LEMMA CalmKept ==
  ASSUME IndInv, Next
  PROVE  CalmInv'
<1>0. CalmInv /\ HandleInv /\ ControlInv /\ CallsOK /\ SetsOK /\ FilesOK /\ NumbersOK
  BY TypeParts DEF IndInv
<1>1. CASE Start
  <2>1. /\ pc["display"] = "down" /\ UNCHANGED <<scenario, candidates, dropped, monitors>>
        /\ \/ OpenActive /\ failures' = failures
           \/ failures' = failures + 1
        /\ \E l \in {"clean", "idle"} : Goto("display", l)
    BY <1>1 DEF Start, OpenFails, records, counts, others
  <2>2. pc'["display"] \in {"clean", "idle"}
    BY <1>0, <2>1, StepOf, WriterIs
  <2>3. failures + 1 # 0
    BY <1>0, Bounds DEF NumbersOK
  <2>4. QED
    BY <1>0, <2>1, <2>2, <2>3, OpenIs DEF CalmInv
<1>2. CASE CleanOnStart
  <2>1. /\ UNCHANGED <<scenario, failures, monitors, candidates>>
        /\ pc["display"] = "clean" /\ dropped' = dropped
        /\ ApplyRetention \/ UNCHANGED <<disk, handle>>
        /\ Goto("display", "idle")
    BY <1>2 DEF CleanOnStart, files, counts, records, others
  <2>2. pc'["display"] = "idle"
    BY <1>0, <2>1, StepOf, WriterIs
  <2>3. handle' = handle
    BY <1>0, <2>1, RetentionLeaves
  <2>9. QED
    BY <1>0, <2>1, <2>2, <2>3 DEF CalmInv
<1>3. CASE Display
  <2>1. /\ UNCHANGED <<scenario, failures, monitors, candidates>>
        /\ pc["display"] = "idle" /\ UNCHANGED <<handle, dropped>>
        /\ \E l \in {"take", "append"} : Goto("display", l)
    BY <1>3 DEF Display, Complete, io, others, counts, records, others
  <2>2. pc'["display"] \in {"take", "append"}
    BY <1>0, <2>1, StepOf, WriterIs
  <2>9. QED
    BY <1>0, <2>1, <2>2 DEF CalmInv
<1>4. CASE DisplayClosed
  <2>1. /\ UNCHANGED <<scenario, failures, monitors, candidates>>
        /\ pc["display"] = "idle" /\ handle = Closed /\ UNCHANGED <<handle, pc>>
    BY <1>4 DEF DisplayClosed, io, counts, records, others
  <2>9. QED
    BY <1>0, <2>1, Names DEF CalmInv
<1>5. CASE Enqueue
  BY <1>0, <1>5, Names, Bounds DEF CalmInv, Enqueue, Exists, Writer, Threads, Completing, Goto, io, files, policy, calls, others, records, counts
<1>6. CASE TakeReady
  BY <1>0, <1>6, Names, Bounds DEF CalmInv, TakeReady, Exists, Writer, Threads, Completing, Goto, io, files, policy, calls, others, records, counts
<1>7. CASE ApplySizeLimit
  <2>1. /\ UNCHANGED <<scenario, failures, monitors, candidates>>
        /\ pc[Writer] = "append" /\ UNCHANGED <<handle, dropped>>
        /\ \E l \in {"take", "write"} : Goto(Writer, l)
    BY <1>7 DEF ApplySizeLimit, Complete, io, counts, records, others
  <2>2. pc'[Writer] \in {"take", "write"}
    BY <1>0, <2>1, StepOf, WriterIs
  <2>3. ~scenario.async => Writer = "display"
    BY WriterIs
  <2>9. QED
    BY <1>0, <2>1, <2>2, <2>3 DEF CalmInv
<1>8. CASE Write
  <2>1. /\ UNCHANGED <<scenario, failures, monitors, candidates>>
        /\ pc[Writer] = "write" /\ handle' = handle
        /\ Goto(Writer, "idle") /\ (handle # Closed => dropped' = dropped)
    BY <1>8 DEF Write, counts, records, others
  <2>2. pc'[Writer] = "idle"
    BY <1>0, <2>1, StepOf, WriterIs
  <2>3. ~scenario.async => Writer = "display"
    BY WriterIs
  <2>9. QED
    BY <1>0, <2>1, <2>2, <2>3, Names DEF CalmInv
<1>9. CASE TimePasses
  BY <1>0, <1>9, Names, Bounds DEF CalmInv, TimePasses, Exists, Writer, Threads, Completing, Goto, io, files, policy, calls, others, records, counts
<1>10. CASE Collect
  <2>1. monitors' = monitors + 1
    BY <1>10 DEF Collect
  <2>2. monitors + 1 # 0
    BY <1>0, Bounds DEF NumbersOK
  <2>3. QED
    BY <2>1, <2>2 DEF CalmInv
<1>11. CASE Crash
  BY <1>0, <1>11, Names, Bounds DEF CalmInv, Crash, Exists, Writer, Threads, Completing, Goto, io, files, policy, calls, others, records, counts
<1>12. ASSUME NEW t \in Threads, TakeName(t) PROVE CalmInv'
  <2>1. /\ UNCHANGED <<scenario, failures, monitors, candidates>>
        /\ pc[t] = "take" /\ Goto(t, "close")
        /\ UNCHANGED <<handle, dropped>>
    BY <1>12 DEF TakeName, io, counts, records, others
  <2>2. ~scenario.async => t = "display"
    BY <1>0, <2>1, WhoCompletes DEF Completing, Writer
  <2>3. pc'[t] = "close"
    BY <1>0, <2>1, StepOf
  <2>9. QED
    BY <1>0, <2>1, <2>2, <2>3 DEF CalmInv
<1>13. ASSUME NEW t \in Threads, CloseLog(t) PROVE CalmInv'
  <2>1. /\ UNCHANGED <<scenario, failures, monitors, candidates>>
        /\ pc[t] = "close" /\ Goto(t, "move")
        /\ UNCHANGED <<disk, dropped>>
    BY <1>13 DEF CloseLog, files, counts, records, others
  <2>2. ~scenario.async => t = "display"
    BY <1>0, <2>1, WhoCompletes DEF Completing, Writer
  <2>3. pc'[t] = "move"
    BY <1>0, <2>1, StepOf
  <2>4. Exists(Active) => Exists(Active)'
    BY <2>1 DEF Exists
  <2>9. QED
    BY <1>0, <2>1, <2>2, <2>3, <2>4 DEF CalmInv, HandleInv
<1>14. ASSUME NEW t \in Threads, Move(t) PROVE CalmInv'
  <2>1. /\ UNCHANGED <<scenario, failures, monitors, candidates>>
        /\ pc[t] = "move" /\ Goto(t, "create")
        /\ dropped' = dropped
    BY <1>14 DEF Move, counts, records, others
  <2>2. ~scenario.async => t = "display"
    BY <1>0, <2>1, WhoCompletes DEF Completing, Writer
  <2>3. pc'[t] = "create"
    BY <1>0, <2>1, StepOf
  <2>9. QED
    BY <1>0, <2>1, <2>2, <2>3 DEF CalmInv
<1>15. ASSUME NEW t \in Threads, MoveFails(t) PROVE CalmInv'
  <2>1. /\ pc[t] = "move" /\ Goto(t, "reopen") /\ UNCHANGED <<scenario, candidates, dropped, monitors>>
        /\ failures' = IF Exists(Active) THEN failures + 1 ELSE failures
    BY <1>15 DEF MoveFails, records, others
  <2>2. ~scenario.async => t = "display"
    BY <1>0, <2>1, WhoCompletes DEF Completing, Writer
  <2>3. failures + 1 # 0
    BY <1>0, Bounds DEF NumbersOK
  <2>4. QED
    BY <1>0, <2>1, <2>2, <2>3 DEF CalmInv
<1>16. ASSUME NEW t \in Threads, Reopen(t) PROVE CalmInv'
  <2>1. /\ pc[t] = "reopen" /\ UNCHANGED <<scenario, candidates, monitors>>
        /\ failures' \in {failures, failures + 1}
    BY <1>16 DEF Reopen, GiveUp, OpenFails, counts, others
  <2>2. ~scenario.async => t = "display"
    BY <1>0, <2>1, WhoCompletes DEF Completing, Writer
  <2>3. failures + 1 # 0
    BY <1>0, Bounds DEF NumbersOK
  <2>4. QED
    BY <1>0, <2>1, <2>2, <2>3 DEF CalmInv
<1>17. ASSUME NEW t \in Threads, CreateLog(t) PROVE CalmInv'
  <2>1. /\ UNCHANGED <<scenario, failures, monitors, candidates>>
        /\ pc[t] = "create" /\ Goto(t, "retain")
        /\ dropped' = dropped /\ OpenActive
    BY <1>17 DEF CreateLog, counts, records, others
  <2>2. ~scenario.async => t = "display"
    BY <1>0, <2>1, WhoCompletes DEF Completing, Writer
  <2>3. pc'[t] = "retain"
    BY <1>0, <2>1, StepOf
  <2>9. QED
    BY <1>0, <2>1, <2>2, <2>3, OpenIs DEF CalmInv
<1>18. ASSUME NEW t \in Threads, CreateFails(t) PROVE CalmInv'
  <2>1. failures' = failures + 1
    BY <1>18 DEF CreateFails, OpenFails
  <2>2. failures + 1 # 0
    BY <1>0, Bounds DEF NumbersOK
  <2>3. QED
    BY <2>1, <2>2 DEF CalmInv
<1>19. ASSUME NEW t \in Threads, Retain(t) PROVE CalmInv'
  <2>1. /\ UNCHANGED <<scenario, failures, monitors, candidates>>
        /\ pc[t] = "retain" /\ Goto(t, after[t])
        /\ dropped' = dropped /\ ApplyRetention
    BY <1>19 DEF Retain, counts, records, others
  <2>2. ~scenario.async => t = "display"
    BY <1>0, <2>1, WhoCompletes DEF Completing, Writer
  <2>3. pc'[t] = after[t]
    BY <1>0, <2>1, StepOf
  <2>4. handle' = handle
    BY <1>0, <2>1, RetentionLeaves
  <2>5. after[t] \in {"append", "write"}
    BY <1>0 DEF CallsOK
  <2>9. QED
    BY <1>0, <2>1, <2>2, <2>3, <2>4, <2>5 DEF CalmInv
<1>20. ASSUME NEW f \in submitted, Compress(f) PROVE CalmInv'
  <2>1. /\ UNCHANGED <<scenario, failures, monitors, candidates>>
        /\ UNCHANGED <<handle, pc, dropped>>
    BY <1>20 DEF Compress, counts, records, others
  <2>2. Exists(Active) => Exists(Active)'
    <3>1. f # Active
      BY <1>0, Names DEF SetsOK
    <3>2. QED
      BY <1>20, <3>1 DEF Compress, Exists, Moved, files
  <2>9. QED
    BY <1>0, <2>1, <2>2 DEF CalmInv
<1>21. ASSUME NEW f \in candidates, Delete(f) PROVE CalmInv'
  <2>1. UNCHANGED <<failures, monitors>>
    BY <1>21 DEF Delete, counts
  <2>2. QED
    BY <1>0, <1>21, <2>1 DEF CalmInv
<1>22. QED
  BY <1>1, <1>2, <1>3, <1>4, <1>5, <1>6, <1>7, <1>8, <1>9, <1>10, <1>11, <1>12, <1>13, <1>14, <1>15, <1>16, <1>17, <1>18, <1>19, <1>20, <1>21 DEF Next

----------------------------------------------------------------------------
(* Where the records are                                                     *)

(* Nothing happens to the files. *)
LEMMA DiskSame ==
  ASSUME disk' = disk
  PROVE  OnDisk' = OnDisk /\ (FilesApart => FilesApart')
BY DEF OnDisk, Records, FilesApart

(* A file that is opened has what it had. *)
LEMMA DiskOpened ==
  ASSUME OpenActive
  PROVE  OnDisk' = OnDisk /\ (FilesApart => FilesApart')
<1>1. CASE Exists(Active)
  BY <1>1, DiskSame DEF OpenActive, files
<1>2. CASE ~Exists(Active)
  <2>1. /\ disk' = [f \in DOMAIN disk \cup {Active} |-> IF f = Active THEN {} ELSE disk[f]]
        /\ Active \notin DOMAIN disk
    BY <1>2 DEF OpenActive, Exists
  <2>2. OnDisk' = OnDisk
    BY <2>1 DEF OnDisk, Records
  <2>3. FilesApart => FilesApart'
    BY <2>1 DEF FilesApart
  <2>4. QED
    BY <2>2, <2>3
<1>3. QED
  BY <1>1, <1>2

(* A file that is moved keeps what it has. *)
LEMMA DiskMoved ==
  ASSUME NEW from \in DOMAIN disk, NEW to, to \notin DOMAIN disk, disk' = Moved(from, to)
  PROVE  OnDisk' = OnDisk /\ (FilesApart => FilesApart')
<1>1. /\ DOMAIN disk' = (DOMAIN disk \ {from}) \cup {to}
      /\ disk'[to] = disk[from] /\ \A f \in DOMAIN disk \ {from} : disk'[f] = disk[f]
  BY DEF Moved
<1>2. OnDisk' = OnDisk
  BY <1>1 DEF OnDisk, Records
<1>3. FilesApart => FilesApart'
  BY <1>1 DEF FilesApart
<1>4. QED
  BY <1>2, <1>3

(* Files that are removed take away what they have and no more. *)
LEMMA DiskRemoved ==
  ASSUME NEW fs, RemoveFiles(fs), FilesApart
  PROVE  /\ OnDisk' \cap Records(fs) = {}
         /\ OnDisk' \cup Records(fs) = OnDisk
         /\ FilesApart'
<1>1. DOMAIN disk' = DOMAIN disk \ fs /\ \A f \in DOMAIN disk \ fs : disk'[f] = disk[f]
  BY DEF RemoveFiles
<1>2. FilesApart'
  BY <1>1 DEF FilesApart
<1>3. OnDisk' = UNION {disk[f] : f \in DOMAIN disk \ fs}
  BY <1>1 DEF OnDisk, Records
<1>4. QED
  BY <1>2, <1>3 DEF OnDisk, Records, FilesApart

(* What is written to a file is in that file. *)
LEMMA DiskWritten ==
  ASSUME NEW f \in DOMAIN disk, NEW R, R \cap OnDisk = {}, FilesApart,
         disk' = [disk EXCEPT ![f] = @ \cup R]
  PROVE  OnDisk' = OnDisk \cup R /\ FilesApart'
<1>1. /\ DOMAIN disk' = DOMAIN disk /\ disk'[f] = disk[f] \cup R
      /\ \A g \in DOMAIN disk : g # f => disk'[g] = disk[g]
  OBVIOUS
<1>2. OnDisk' = OnDisk \cup R
  BY <1>1 DEF OnDisk, Records
<1>3. \A g \in DOMAIN disk : disk[g] \cap R = {}
  BY DEF OnDisk, Records
<1>4. FilesApart'
  BY <1>1, <1>3 DEF FilesApart
<1>5. QED
  BY <1>2, <1>4

(* Records that are lost are in no file. *)
LEMMA DiskLost ==
  ASSUME NEW R, FilesApart, disk' = [f \in DOMAIN disk |-> disk[f] \ R]
  PROVE  OnDisk' = OnDisk \ R /\ FilesApart'
<1>1. DOMAIN disk' = DOMAIN disk /\ \A g \in DOMAIN disk : disk'[g] = disk[g] \ R
  OBVIOUS
<1>2. OnDisk' = OnDisk \ R
  BY <1>1 DEF OnDisk, Records
<1>3. FilesApart'
  BY <1>1 DEF FilesApart
<1>4. QED
  BY <1>2, <1>3

(* There is no archive of the name a thread moves the file to. *)
LEMMA TargetFree ==
  ASSUME CallsOK, NamesInv, NEW t \in Threads, pc[t] = "move"
  PROVE  target[t] \notin DOMAIN disk
<1>1. target[t] \in Archives
  BY TargetArchive
<1>2. target[t] # Active /\ target[t][3] \in Nat
  BY <1>1, Names DEF Archives
<1>3. /\ target[t][2] = ArchiveTime /\ ArchiveIndex = target[t][3]
      /\ \A f \in Archived : f[2] = ArchiveTime => f[3] < ArchiveIndex
  BY DEF NamesInv
<1>4. QED
  BY <1>2, <1>3 DEF Archived

(* A thread that is not writing or completing a file has nothing. *)
LEMMA BatchOf ==
  ASSUME CallsOK, NEW t \in Threads, NEW b, batch' = [batch EXCEPT ![t] = b]
  PROVE  batch'[t] = b /\ \A u \in Threads : u # t => batch'[u] = batch[u]
BY DEF CallsOK

(* What a thread had is now on the disk, gone or dropped. *)
LEMMA HandedOver ==
  ASSUME PlacesInv, FilesApart', CallsOK, NEW t \in Threads, UNCHANGED <<queue, displayed>>,
         batch' = [batch EXCEPT ![t] = {}],
         \/ OnDisk' = OnDisk \cup batch[t] /\ UNCHANGED <<gone, dropped>>
         \/ OnDisk' = OnDisk /\ gone' = gone \cup batch[t] /\ dropped' = dropped
         \/ OnDisk' = OnDisk /\ gone' = gone /\ dropped' = dropped \cup batch[t]
  PROVE  PlacesInv'
<1>1. batch'[t] = {} /\ \A u \in Threads : u # t => batch'[u] = batch[u]
  BY BatchOf
<1>2. \/ t = "write" /\ batch'["write"] = {} /\ batch'["display"] = batch["display"]
      \/ t = "display" /\ batch'["display"] = {} /\ batch'["write"] = batch["write"]
  BY <1>1, WriterIs
<1>3. CASE OnDisk' = OnDisk \cup batch[t] /\ UNCHANGED <<gone, dropped>>
  BY <1>2, <1>3 DEF PlacesInv, Memory
<1>4. CASE OnDisk' = OnDisk /\ gone' = gone \cup batch[t] /\ dropped' = dropped
  BY <1>2, <1>4 DEF PlacesInv, Memory
<1>5. CASE OnDisk' = OnDisk /\ gone' = gone /\ dropped' = dropped \cup batch[t]
  BY <1>2, <1>5 DEF PlacesInv, Memory
<1>6. QED
  BY <1>3, <1>4, <1>5

(* Each record stays in one place. *)
LEMMA PlacesKept ==
  ASSUME IndInv, Next
  PROVE  PlacesInv'
<1>0. PlacesInv /\ HandleInv /\ NamesInv /\ ControlInv /\ CallsOK /\ NumbersOK
  BY TypeParts DEF IndInv
<1>1. CASE Start
  <2>1. /\ UNCHANGED <<queue, batch, gone, dropped, displayed>>
        /\ disk' = disk \/ OpenActive
    BY <1>1 DEF Start, OpenFails, files, calls, records
  <2>9. QED
    BY <1>0, <2>1, DiskSame, DiskOpened DEF PlacesInv, Memory
<1>2. CASE CleanOnStart
  <2>1. /\ UNCHANGED <<queue, batch, dropped, displayed>>
        /\ \/ RemoveFiles(Expired) /\ gone' = gone \cup Records(Expired)
           \/ UNCHANGED <<disk, gone>>
    BY <1>2 DEF CleanOnStart, ApplyRetention, files, calls
  <2>9. QED
    BY <1>0, <2>1, DiskSame, DiskRemoved DEF PlacesInv, Memory
<1>3. CASE Display
  <2>1. /\ UNCHANGED <<disk, queue, gone, dropped>> /\ displayed' = displayed + 1
        /\ pc["display"] = "idle" /\ batch' = [batch EXCEPT !["display"] = {displayed + 1}]
    BY <1>3 DEF Display, io, files
  <2>2. /\ batch["display"] = {} /\ batch'["display"] = {displayed + 1}
        /\ batch'["write"] = batch["write"]
    BY <1>0, <2>1, BatchOf, WriterIs DEF ControlInv
  <2>3. 1..displayed' = (1..displayed) \cup {displayed + 1} /\ displayed + 1 \notin 1..displayed
    BY <1>0, <2>1, DisplayedGrows
  <2>4. QED
    BY <1>0, <2>1, <2>2, <2>3, DiskSame DEF PlacesInv, Memory
<1>4. CASE DisplayClosed
  <2>1. /\ UNCHANGED <<disk, queue, batch, gone>> /\ displayed' = displayed + 1
        /\ dropped' = dropped \cup {displayed + 1}
    BY <1>4 DEF DisplayClosed, io, files, calls
  <2>2. 1..displayed' = (1..displayed) \cup {displayed + 1} /\ displayed + 1 \notin 1..displayed
    BY <1>0, <2>1, DisplayedGrows
  <2>3. QED
    BY <1>0, <2>1, <2>2, DiskSame DEF PlacesInv, Memory
<1>5. CASE Enqueue
  <2>1. /\ UNCHANGED <<disk, gone, dropped, displayed>> /\ queue' = queue \cup batch["display"]
        /\ batch' = [batch EXCEPT !["display"] = {}]
    BY <1>5 DEF Enqueue, io, files, records
  <2>2. batch'["display"] = {} /\ batch'["write"] = batch["write"]
    BY <1>0, <2>1, BatchOf, WriterIs
  <2>3. QED
    BY <1>0, <2>1, <2>2, DiskSame DEF PlacesInv, Memory
<1>6. CASE TakeReady
  <2>1. /\ UNCHANGED <<disk, gone, dropped, displayed>> /\ queue' = {} /\ pc["write"] = "idle"
        /\ batch' = [batch EXCEPT !["write"] = queue]
    BY <1>6 DEF TakeReady, io, files, records
  <2>2. batch["write"] = {} /\ batch'["write"] = queue /\ batch'["display"] = batch["display"]
    BY <1>0, <2>1, BatchOf, WriterIs DEF ControlInv
  <2>3. QED
    BY <1>0, <2>1, <2>2, DiskSame DEF PlacesInv, Memory
<1>7. CASE ApplySizeLimit
  <2>1. UNCHANGED <<disk, queue, batch, gone, dropped, displayed>>
    BY <1>7 DEF ApplySizeLimit, Complete, io, files, calls, records
  <2>2. QED
    BY <1>0, <2>1, DiskSame DEF PlacesInv, Memory
<1>8. CASE Write
  <2>1. /\ UNCHANGED <<queue, displayed>> /\ batch' = [batch EXCEPT ![Writer] = {}]
        /\ Writer \in Threads
    BY <1>8, WriterIs DEF Write
  <2>2. CASE handle \in {Closed, Unlinked}
    <3>1. /\ disk' = disk
          /\ \/ gone' = gone \cup batch[Writer] /\ dropped' = dropped
             \/ gone' = gone /\ dropped' = dropped \cup batch[Writer]
      BY <1>8, <2>2, Names DEF Write, files
    <3>2. OnDisk' = OnDisk /\ FilesApart'
      BY <1>0, <3>1, DiskSame DEF PlacesInv
    <3>3. QED
      BY <1>0, <2>1, <3>1, <3>2, HandedOver
  <2>3. CASE handle \notin {Closed, Unlinked}
    <3>1. UNCHANGED <<gone, dropped>> /\ disk' = [disk EXCEPT ![handle] = @ \cup batch[Writer]]
      BY <1>8, <2>3 DEF Write
    <3>2. handle \in DOMAIN disk
      BY <1>0, <2>3 DEF HandleInv, Exists
    <3>3. batch[Writer] \cap OnDisk = {}
      BY <1>0, WriterIs DEF PlacesInv, Memory
    <3>4. OnDisk' = OnDisk \cup batch[Writer] /\ FilesApart'
      BY <1>0, <3>1, <3>2, <3>3, DiskWritten DEF PlacesInv
    <3>5. QED
      BY <1>0, <2>1, <3>1, <3>4, HandedOver
  <2>4. QED
    BY <2>2, <2>3
<1>9. CASE TimePasses
  <2>1. UNCHANGED <<disk, queue, batch, gone, dropped, displayed>>
    BY <1>9 DEF TimePasses, io, files, calls, records
  <2>2. QED
    BY <1>0, <2>1, DiskSame DEF PlacesInv, Memory
<1>10. CASE Collect
  <2>1. UNCHANGED <<disk, queue, batch, gone, dropped, displayed>>
    BY <1>10 DEF Collect, io, files, calls, records
  <2>2. QED
    BY <1>0, <2>1, DiskSame DEF PlacesInv, Memory
<1>11. CASE Crash
  <2>1. UNCHANGED <<dropped, displayed>> /\ queue' = {} /\ batch' = [t \in Threads |-> {}]
    BY <1>11 DEF Crash
  <2>2. PICK R : /\ R \subseteq OnDisk /\ disk' = [f \in DOMAIN disk |-> disk[f] \ R]
                 /\ gone' = gone \cup R \cup queue \cup UNION {batch[t] : t \in Threads}
    <3>1. PICK n \in 1..(displayed + 1) :
            LET buffered == {r \in Records({handle}) : r >= n /\ ~scenario.async} IN
              /\ disk' = [f \in DOMAIN disk |-> disk[f] \ buffered]
              /\ gone' = gone \cup buffered \cup queue \cup UNION {batch[t] : t \in Threads}
      BY <1>11 DEF Crash
    <3>2. \A r \in Records({handle}) : r \in OnDisk
      BY DEF OnDisk, Records
    <3>3. QED
      BY <3>1, <3>2
  <2>3. OnDisk' = OnDisk \ R /\ FilesApart'
    BY <1>0, <2>2, DiskLost DEF PlacesInv
  <2>4. UNION {batch[t] : t \in Threads} = batch["write"] \cup batch["display"]
    BY WriterIs
  <2>5. batch'["write"] = {} /\ batch'["display"] = {}
    BY <2>1, WriterIs
  <2>6. QED
    BY <1>0, <2>1, <2>2, <2>3, <2>4, <2>5 DEF PlacesInv, Memory
<1>12. ASSUME NEW t \in Threads, TakeName(t) PROVE PlacesInv'
  <2>1. UNCHANGED <<disk, queue, batch, gone, dropped, displayed>>
    BY <1>12 DEF TakeName, io, files, calls, records
  <2>2. QED
    BY <1>0, <2>1, DiskSame DEF PlacesInv, Memory
<1>13. ASSUME NEW t \in Threads, CloseLog(t) PROVE PlacesInv'
  <2>1. UNCHANGED <<disk, queue, batch, gone, dropped, displayed>>
    BY <1>13 DEF CloseLog, io, files, calls, records
  <2>2. QED
    BY <1>0, <2>1, DiskSame DEF PlacesInv, Memory
<1>14. ASSUME NEW t \in Threads, Move(t) PROVE PlacesInv'
  <2>1. /\ UNCHANGED <<queue, batch, gone, dropped, displayed>> /\ pc[t] = "move"
        /\ Active \in DOMAIN disk /\ disk' = Moved(Active, target[t])
    BY <1>14 DEF Move, Rename, Exists, calls, records
  <2>2. target[t] \notin DOMAIN disk
    BY <1>0, <2>1, TargetFree
  <2>3. QED
    BY <1>0, <2>1, <2>2, DiskMoved DEF PlacesInv, Memory
<1>15. ASSUME NEW t \in Threads, MoveFails(t) PROVE PlacesInv'
  <2>1. UNCHANGED <<disk, queue, batch, gone, dropped, displayed>>
    BY <1>15 DEF MoveFails, io, files, calls, records
  <2>2. QED
    BY <1>0, <2>1, DiskSame DEF PlacesInv, Memory
<1>16. ASSUME NEW t \in Threads, Reopen(t) PROVE PlacesInv'
  <2>1. /\ UNCHANGED <<queue, displayed, gone>> /\ dropped' = dropped \cup batch[t]
        /\ batch' = [batch EXCEPT ![t] = {}] /\ (disk' = disk \/ OpenActive)
    BY <1>16 DEF Reopen, GiveUp, OpenFails, files
  <2>2. OnDisk' = OnDisk /\ FilesApart'
    BY <1>0, <2>1, DiskSame, DiskOpened DEF PlacesInv
  <2>3. QED
    BY <1>0, <2>1, <2>2, HandedOver
<1>17. ASSUME NEW t \in Threads, CreateLog(t) PROVE PlacesInv'
  <2>1. /\ UNCHANGED <<queue, batch, gone, dropped, displayed>>
        /\ OpenActive
    BY <1>17 DEF CreateLog, calls, records
  <2>9. QED
    BY <1>0, <2>1, DiskOpened DEF PlacesInv, Memory
<1>18. ASSUME NEW t \in Threads, CreateFails(t) PROVE PlacesInv'
  <2>1. /\ UNCHANGED <<queue, displayed, gone>> /\ dropped' = dropped \cup batch[t]
        /\ batch' = [batch EXCEPT ![t] = {}] /\ (disk' = disk \/ OpenActive)
    BY <1>18 DEF CreateFails, GiveUp, OpenFails, files
  <2>2. OnDisk' = OnDisk /\ FilesApart'
    BY <1>0, <2>1, DiskSame, DiskOpened DEF PlacesInv
  <2>3. QED
    BY <1>0, <2>1, <2>2, HandedOver
<1>19. ASSUME NEW t \in Threads, Retain(t) PROVE PlacesInv'
  <2>1. /\ UNCHANGED <<queue, batch, dropped, displayed>>
        /\ \/ RemoveFiles(Expired) /\ gone' = gone \cup Records(Expired)
           \/ UNCHANGED <<disk, gone>>
    BY <1>19 DEF Retain, ApplyRetention, files, calls
  <2>9. QED
    BY <1>0, <2>1, DiskSame, DiskRemoved DEF PlacesInv, Memory
<1>20. ASSUME NEW f \in submitted, Compress(f) PROVE PlacesInv'
  <2> DEFINE gz == Gz(f[2], f[3])
  <2>1. UNCHANGED <<queue, batch, gone, dropped, displayed>>
    BY <1>20 DEF Compress, calls, records
  <2>2. \/ f \in DOMAIN disk /\ gz \notin DOMAIN disk /\ disk' = Moved(f, gz)
        \/ disk' = disk
    BY <1>20 DEF Compress, Exists, files
  <2> HIDE DEF gz
  <2>3. QED
    BY <1>0, <2>1, <2>2, DiskSame, DiskMoved DEF PlacesInv, Memory
<1>21. ASSUME NEW f \in candidates, Delete(f) PROVE PlacesInv'
  <2>1. /\ UNCHANGED <<queue, batch, dropped, displayed>>
        /\ RemoveFiles({f}) /\ gone' = gone \cup Records({f})
    BY <1>21 DEF Delete, calls
  <2>9. QED
    BY <1>0, <2>1, DiskRemoved DEF PlacesInv, Memory
<1>22. QED
  BY <1>1, <1>2, <1>3, <1>4, <1>5, <1>6, <1>7, <1>8, <1>9, <1>10, <1>11, <1>12, <1>13, <1>14, <1>15, <1>16, <1>17, <1>18, <1>19, <1>20, <1>21 DEF Next

----------------------------------------------------------------------------
(* The size                                                                  *)

(* The size and what it is that of stay the same. *)
LEMMA SizeSame ==
  ASSUME SizeInv, CurrentSize' = CurrentSize, 1..displayed \subseteq 1..displayed',
         Memory' \cap (1..displayed) \subseteq Memory
  PROVE  SizeInv'
<1>1. PICK W \in SUBSET (1..displayed) : Cardinality(W) = CurrentSize /\ W \cap Memory = {}
  BY DEF SizeInv
<1>2. W \in SUBSET (1..displayed') /\ Cardinality(W) = CurrentSize' /\ W \cap Memory' = {}
  BY <1>1
<1>3. QED
  BY <1>2 DEF SizeInv

(* The size of the active file is known when it is opened. *)
LEMMA SizeOpened ==
  ASSUME FilesOK, PlacesInv, OpenActive, displayed' = displayed, Memory' \subseteq Memory
  PROVE  SizeInv'
<1> DEFINE W == IF Exists(Active) THEN disk[Active] ELSE {}
<1>1. CurrentSize' = Cardinality(W)
  BY FS_EmptySet DEF OpenActive, Size
<1>2. W \subseteq 1..displayed /\ W \subseteq OnDisk
  BY DEF FilesOK, OnDisk, Records, Exists
<1>3. W \cap Memory' = {}
  BY <1>2 DEF PlacesInv
<1>4. W \in SUBSET (1..displayed') /\ Cardinality(W) = CurrentSize'
  BY <1>1, <1>2
<1>5. QED
  BY <1>3, <1>4 DEF SizeInv

(* The size grows by what is written. *)
LEMMA SizeGrows ==
  ASSUME SizeInv, PlacesInv, CallsOK, NumbersOK, NEW t \in Threads, UNCHANGED <<displayed, queue>>,
         batch' = [batch EXCEPT ![t] = {}], CurrentSize' = CurrentSize + Cardinality(batch[t])
  PROVE  SizeInv'
<1>1. PICK W \in SUBSET (1..displayed) : Cardinality(W) = CurrentSize /\ W \cap Memory = {}
  BY DEF SizeInv
<1>2. batch[t] \subseteq 1..displayed /\ batch[t] \subseteq Memory
  BY WriterIs DEF CallsOK, Memory
<1>3. IsFiniteSet(1..displayed)
  BY FS_Interval, Bounds DEF NumbersOK
<1>4. IsFiniteSet(W) /\ IsFiniteSet(batch[t])
  BY <1>2, <1>3, FS_Subset
<1>5. W \cap batch[t] = {}
  BY <1>1, <1>2
<1>6. Cardinality(W \cup batch[t]) = Cardinality(W) + Cardinality(batch[t]) - Cardinality(W \cap batch[t])
  BY <1>4, FS_Union
<1>7. Cardinality(W \cap batch[t]) = 0 /\ Cardinality(W) \in Nat /\ Cardinality(batch[t]) \in Nat
  BY <1>4, <1>5, FS_EmptySet, FS_CardinalityType
<1>8. Cardinality(W \cup batch[t]) = CurrentSize'
  BY <1>1, <1>6, <1>7
<1>9. (W \cup batch[t]) \cap Memory' = {}
  <2>1. batch'[t] = {} /\ \A u \in Threads : u # t => batch'[u] = batch[u]
    BY BatchOf
  <2>2. Memory' \subseteq Memory
    BY <2>1, WriterIs DEF Memory
  <2>3. batch[t] \cap Memory' = {}
    BY <2>1, WriterIs DEF Memory, PlacesInv
  <2>4. QED
    BY <1>1, <2>2, <2>3
<1>10. W \cup batch[t] \in SUBSET (1..displayed')
  BY <1>2
<1>11. QED
  BY <1>8, <1>9, <1>10 DEF SizeInv

(* The size is within the bound on the records. *)
LEMMA SizeBounded ==
  ASSUME SizeInv, NumbersOK
  PROVE  CurrentSize \in 0..MaxRecords
<1>1. PICK W \in SUBSET (1..displayed) : Cardinality(W) = CurrentSize
  BY DEF SizeInv
<1>2. displayed \in Nat /\ displayed <= MaxRecords /\ MaxRecords \in Nat
  BY Bounds DEF NumbersOK
<1>3. IsFiniteSet(1..displayed) /\ Cardinality(1..displayed) = displayed
  <2>1. /\ IsFiniteSet(1..displayed)
        /\ Cardinality(1..displayed) = IF 1 > displayed THEN 0 ELSE displayed - 1 + 1
    BY <1>2, FS_Interval
  <2>2. QED
    BY <1>2, <2>1
<1>4. Cardinality(W) \in Nat /\ Cardinality(W) <= displayed
  BY <1>3, FS_Subset, FS_CardinalityType
<1>5. QED
  BY <1>1, <1>2, <1>4

(* The size is that of some records that have been written. *)
LEMMA SizeKept ==
  ASSUME IndInv, Next
  PROVE  SizeInv'
<1>0. SizeInv /\ PlacesInv /\ FilesOK /\ CallsOK /\ NumbersOK
  BY TypeParts DEF IndInv
<1>1. CASE Start
  <2>1. /\ UNCHANGED <<displayed, queue, batch>>
        /\ OpenActive \/ CurrentSize' = CurrentSize
    BY <1>1 DEF Start, OpenFails, calls, records
  <2>2. Memory' = Memory
    BY <2>1 DEF Memory
  <2>3. QED
    BY <1>0, <2>1, <2>2, SizeSame, SizeOpened
<1>2. CASE CleanOnStart
  <2>1. UNCHANGED <<CurrentSize, displayed, queue, batch>>
    BY <1>2 DEF CleanOnStart, ApplyRetention, RemoveFiles, io, files, calls, records
  <2>2. QED
    BY <1>0, <2>1, SizeSame DEF Memory
<1>3. CASE Display
  <2>1. /\ UNCHANGED <<CurrentSize, queue>> /\ displayed' = displayed + 1
        /\ batch' = [batch EXCEPT !["display"] = {displayed + 1}]
    BY <1>3 DEF Display, io
  <2>2. batch'["display"] = {displayed + 1} /\ batch'["write"] = batch["write"]
    BY <1>0, <2>1, BatchOf, WriterIs
  <2>3. 1..displayed' = (1..displayed) \cup {displayed + 1} /\ displayed + 1 \notin 1..displayed
    BY <1>0, <2>1, DisplayedGrows
  <2>4. Memory' \cap (1..displayed) \subseteq Memory
    BY <2>1, <2>2, <2>3 DEF Memory
  <2>5. QED
    BY <1>0, <2>1, <2>3, <2>4, SizeSame
<1>4. CASE DisplayClosed
  <2>1. UNCHANGED <<CurrentSize, queue, batch>> /\ displayed' = displayed + 1
    BY <1>4 DEF DisplayClosed, io, calls
  <2>2. 1..displayed \subseteq 1..displayed'
    BY <1>0, <2>1, DisplayedGrows
  <2>3. QED
    BY <1>0, <2>1, <2>2, SizeSame DEF Memory
<1>5. CASE Enqueue
  <2>1. /\ UNCHANGED <<CurrentSize, displayed>> /\ queue' = queue \cup batch["display"]
        /\ batch' = [batch EXCEPT !["display"] = {}]
    BY <1>5 DEF Enqueue, io, records
  <2>2. Memory' = Memory
    BY <1>0, <2>1, BatchOf, WriterIs DEF Memory
  <2>3. QED
    BY <1>0, <2>1, <2>2, SizeSame
<1>6. CASE TakeReady
  <2>1. /\ UNCHANGED <<CurrentSize, displayed>> /\ queue' = {}
        /\ batch' = [batch EXCEPT !["write"] = queue]
    BY <1>6 DEF TakeReady, io, records
  <2>2. Memory' \subseteq Memory
    BY <1>0, <2>1, BatchOf, WriterIs DEF Memory
  <2>3. QED
    BY <1>0, <2>1, <2>2, SizeSame
<1>7. CASE ApplySizeLimit
  <2>1. UNCHANGED <<CurrentSize, displayed, queue, batch>>
    BY <1>7 DEF ApplySizeLimit, Complete, io, files, calls, records
  <2>2. QED
    BY <1>0, <2>1, SizeSame DEF Memory
<1>8. CASE Write
  <2>1. /\ UNCHANGED <<displayed, queue>> /\ batch' = [batch EXCEPT ![Writer] = {}]
        /\ Writer \in Threads
        /\ CurrentSize' = CurrentSize \/ CurrentSize' = CurrentSize + Cardinality(batch[Writer])
    BY <1>8, WriterIs DEF Write
  <2>2. Memory' \subseteq Memory
    BY <1>0, <2>1, BatchOf, WriterIs DEF Memory
  <2>3. QED
    BY <1>0, <2>1, <2>2, SizeSame, SizeGrows
<1>9. CASE TimePasses
  <2>1. UNCHANGED <<CurrentSize, displayed, queue, batch>>
    BY <1>9 DEF TimePasses, io, files, calls, records
  <2>2. QED
    BY <1>0, <2>1, SizeSame DEF Memory
<1>10. CASE Collect
  <2>1. UNCHANGED <<CurrentSize, displayed, queue, batch>>
    BY <1>10 DEF Collect, io, files, calls, records
  <2>2. QED
    BY <1>0, <2>1, SizeSame DEF Memory
<1>11. CASE Crash
  <2>1. UNCHANGED <<CurrentSize, displayed>> /\ queue' = {} /\ batch' = [t \in Threads |-> {}]
    BY <1>11 DEF Crash
  <2>2. Memory' = {}
    BY <2>1, WriterIs DEF Memory
  <2>3. QED
    BY <1>0, <2>1, <2>2, SizeSame
<1>12. ASSUME NEW t \in Threads, TakeName(t) PROVE SizeInv'
  <2>1. UNCHANGED <<CurrentSize, displayed, queue, batch>>
    BY <1>12 DEF TakeName, io, files, calls, records
  <2>2. QED
    BY <1>0, <2>1, SizeSame DEF Memory
<1>13. ASSUME NEW t \in Threads, CloseLog(t) PROVE SizeInv'
  <2>1. UNCHANGED <<CurrentSize, displayed, queue, batch>>
    BY <1>13 DEF CloseLog, io, files, calls, records
  <2>2. QED
    BY <1>0, <2>1, SizeSame DEF Memory
<1>14. ASSUME NEW t \in Threads, Move(t) PROVE SizeInv'
  <2>1. UNCHANGED <<CurrentSize, displayed, queue, batch>>
    BY <1>14 DEF Move, Rename, io, files, calls, records
  <2>2. QED
    BY <1>0, <2>1, SizeSame DEF Memory
<1>15. ASSUME NEW t \in Threads, MoveFails(t) PROVE SizeInv'
  <2>1. UNCHANGED <<CurrentSize, displayed, queue, batch>>
    BY <1>15 DEF MoveFails, io, files, calls, records
  <2>2. QED
    BY <1>0, <2>1, SizeSame DEF Memory
<1>16. ASSUME NEW t \in Threads, Reopen(t) PROVE SizeInv'
  <2>1. /\ UNCHANGED <<displayed, queue>> /\ batch' = [batch EXCEPT ![t] = {}]
        /\ OpenActive \/ CurrentSize' = CurrentSize
    BY <1>16 DEF Reopen, GiveUp, OpenFails
  <2>2. Memory' \subseteq Memory
    BY <1>0, <2>1, BatchOf, WriterIs DEF Memory
  <2>3. QED
    BY <1>0, <2>1, <2>2, SizeSame, SizeOpened
<1>17. ASSUME NEW t \in Threads, CreateLog(t) PROVE SizeInv'
  <2>1. UNCHANGED <<displayed, queue, batch>> /\ OpenActive
    BY <1>17 DEF CreateLog, calls, records
  <2>2. Memory' = Memory
    BY <2>1 DEF Memory
  <2>3. QED
    BY <1>0, <2>1, <2>2, SizeOpened
<1>18. ASSUME NEW t \in Threads, CreateFails(t) PROVE SizeInv'
  <2>1. /\ UNCHANGED <<displayed, queue>> /\ batch' = [batch EXCEPT ![t] = {}]
        /\ OpenActive \/ CurrentSize' = CurrentSize
    BY <1>18 DEF CreateFails, GiveUp, OpenFails
  <2>2. Memory' \subseteq Memory
    BY <1>0, <2>1, BatchOf, WriterIs DEF Memory
  <2>3. QED
    BY <1>0, <2>1, <2>2, SizeSame, SizeOpened
<1>19. ASSUME NEW t \in Threads, Retain(t) PROVE SizeInv'
  <2>1. UNCHANGED <<CurrentSize, displayed, queue, batch>>
    BY <1>19 DEF Retain, ApplyRetention, RemoveFiles, io, files, calls, records
  <2>2. QED
    BY <1>0, <2>1, SizeSame DEF Memory
<1>20. ASSUME NEW f \in submitted, Compress(f) PROVE SizeInv'
  <2>1. UNCHANGED <<CurrentSize, displayed, queue, batch>>
    BY <1>20 DEF Compress, io, files, calls, records
  <2>2. QED
    BY <1>0, <2>1, SizeSame DEF Memory
<1>21. ASSUME NEW f \in candidates, Delete(f) PROVE SizeInv'
  <2>1. UNCHANGED <<CurrentSize, displayed, queue, batch>>
    BY <1>21 DEF Delete, io, files, calls, records
  <2>2. QED
    BY <1>0, <2>1, SizeSame DEF Memory
<1>22. QED
  BY <1>1, <1>2, <1>3, <1>4, <1>5, <1>6, <1>7, <1>8, <1>9, <1>10, <1>11, <1>12, <1>13, <1>14, <1>15, <1>16, <1>17, <1>18, <1>19, <1>20, <1>21 DEF Next

----------------------------------------------------------------------------
(* The names of the archives                                                 *)

(* Opening a file makes no archive. *)
LEMMA OpenedArchives ==
  ASSUME OpenActive
  PROVE  Archived' = Archived
<1>1. CASE Exists(Active)
  BY <1>1 DEF OpenActive, files, Archived
<1>2. CASE ~Exists(Active)
  <2>1. DOMAIN disk' = DOMAIN disk \cup {Active}
    BY <1>2 DEF OpenActive
  <2>2. QED
    BY <2>1 DEF Archived
<1>3. QED
  BY <1>1, <1>2

(* No new name, and no thread that looks for one. *)
LEMMA NamesSame ==
  ASSUME NamesInv, UNCHANGED <<now, PeriodStart, ArchiveTime, ArchiveIndex, scenario, target>>,
         \A f \in Archived' : \E g \in Archived : f[2] = g[2] /\ f[3] = g[3],
         pc["display"] = "down" => pc'["display"] = "down",
         \A t \in Threads :
           pc'[t] = pc[t] \/ (pc'[t] \notin {"take", "close", "move", "create"} /\ (pc'[t] \in Completing => pc[t] \in Completing))
  PROVE  NamesInv'
<1>1. CurrentArchiveTime' = CurrentArchiveTime
  BY DEF CurrentArchiveTime
<1>2. (\A f \in Archived : f[2] <= now)' /\ (PeriodStart <= now)'
  BY DEF NamesInv
<1>3. pc'["display"] # "down" =>
        /\ ArchiveTime' <= CurrentArchiveTime'
        /\ \A f \in Archived' : f[2] <= ArchiveTime' /\ (f[2] = ArchiveTime' => f[3] <= ArchiveIndex')
  BY <1>1 DEF NamesInv
<1>4. ASSUME NEW t \in Threads
      PROVE  /\ pc'[t] \in Completing => target'[t] # NoFile
             /\ pc'[t] = "take" => ArchiveTime' <= target'[t][2] /\ target'[t][2] <= CurrentArchiveTime'
             /\ pc'[t] \in {"close", "move", "create"} =>
                  target'[t][2] = ArchiveTime' /\ target'[t][3] > 0
             /\ pc'[t] = "close" => ArchiveIndex' < target'[t][3]
             /\ pc'[t] = "move" =>
                  /\ ArchiveIndex' = target'[t][3]
                  /\ \A f \in Archived' : f[2] = ArchiveTime' => f[3] < ArchiveIndex'
  <2>1. CASE pc'[t] = pc[t]
    BY <1>1, <2>1 DEF NamesInv
  <2>2. CASE pc'[t] # pc[t]
    <3>0. /\ pc'[t] \notin {"take", "close", "move", "create"}
          /\ (pc'[t] \in Completing => pc[t] \in Completing)
      BY <2>2
    <3>1. /\ pc'[t] \notin {"close", "move", "create"} /\ pc'[t] # "take" /\ pc'[t] # "close"
          /\ pc'[t] # "move" /\ (pc'[t] \in Completing => pc[t] \in Completing)
      BY <3>0
    <3>2. pc[t] \in Completing => target'[t] # NoFile
      BY DEF NamesInv
    <3>3. QED
      BY <3>1, <3>2
  <2>3. QED
    BY <2>1, <2>2
<1>5. QED
  BY <1>2, <1>3, <1>4 DEF NamesInv

(* The writer looks for a name, and no other thread. *)
LEMMA NamesOfWriter ==
  ASSUME ControlInv, CallsOK, NEW t \in Threads, NEW l, Goto(t, l), t = Writer,
         \A f \in Archived' : f[2] <= now', PeriodStart' <= now',
         /\ ArchiveTime' <= CurrentArchiveTime'
         /\ \A f \in Archived' : f[2] <= ArchiveTime' /\ (f[2] = ArchiveTime' => f[3] <= ArchiveIndex'),
         /\ l \in Completing => target'[t] # NoFile
         /\ l = "take" => ArchiveTime' <= target'[t][2] /\ target'[t][2] <= CurrentArchiveTime'
         /\ l \in {"close", "move", "create"} => target'[t][2] = ArchiveTime' /\ target'[t][3] > 0
         /\ l = "close" => ArchiveIndex' < target'[t][3]
         /\ l = "move" =>
              /\ ArchiveIndex' = target'[t][3]
              /\ \A f \in Archived' : f[2] = ArchiveTime' => f[3] < ArchiveIndex'
  PROVE  NamesInv'
<1>1. pc'[t] = l /\ \A u \in Threads : u # t => pc'[u] = pc[u]
  BY StepOf
<1>2. \A u \in Threads : u # t => pc'[u] \notin Completing
  BY <1>1, WhoCompletes
<1>3. \A u \in Threads : u # t => pc'[u] \notin {"take", "close", "move", "create"}
  BY <1>2 DEF Completing
<1>4. QED
  BY <1>1, <1>2, <1>3 DEF NamesInv

(* The names of the archives and what the policy knows of them. *)
LEMMA NamesKept ==
  ASSUME IndInv, Next
  PROVE  NamesInv'
<1>0. TypeOK /\ NamesInv /\ ControlInv /\ FilesOK /\ CallsOK /\ SetsOK /\ NumbersOK
  BY TypeParts DEF IndInv
<1>1. CASE Start
  <2>1. /\ UNCHANGED <<scenario, now, target>> /\ ArchiveTime' = now /\ ArchiveIndex' = LastIndex(now)
        /\ PeriodStart' = IF scenario.time THEN now ELSE 0
        /\ OpenActive \/ disk' = disk
        /\ pc["display"] = "down"
        /\ Goto("display", "clean") \/ Goto("display", "idle")
    BY <1>1 DEF Start, OpenFails, calls, files
  <2>2. Archived' = Archived
    BY <2>1, OpenedArchives DEF Archived
  <2>3. \A f \in Archived : f[2] = now => f[3] <= LastIndex(now)
    BY <1>0, LastIndexIs
  <2>4. CurrentArchiveTime' = now /\ now \in Nat
    BY <1>0, <2>1, Bounds DEF CurrentArchiveTime, NumbersOK
  <2>5. now <= now /\ 0 <= now
    BY <2>4
  <2>6. pc["write"] = "idle" /\ pc'["write"] = "idle" /\ pc'["display"] \in {"clean", "idle"}
    BY <1>0, <2>1, StepOf, WriterIs DEF ControlInv
  <2>7. \A t \in Threads : pc'[t] \notin Completing
    BY <2>6, WriterIs DEF Completing
  <2>8. \A t \in Threads : pc'[t] \notin {"take", "close", "move", "create"}
    BY <2>7 DEF Completing
  <2>9. \A f \in Archived : f[2] <= now
    BY <1>0 DEF NamesInv
  <2>10. PeriodStart' <= now'
    BY <2>1, <2>5
  <2>11. QED
    BY <2>1, <2>2, <2>3, <2>4, <2>5, <2>7, <2>8, <2>9, <2>10 DEF NamesInv
<1>2. CASE CleanOnStart
  <2>1. /\ UNCHANGED <<now, PeriodStart, ArchiveTime, ArchiveIndex, scenario, target>>
        /\ pc["display"] = "clean" /\ Goto("display", "idle")
        /\ RemoveFiles(Expired) \/ disk' = disk
    BY <1>2 DEF CleanOnStart, ApplyRetention, policy, calls, io, files
  <2>2. pc'["display"] = "idle" /\ \A u \in Threads : u # "display" => pc'[u] = pc[u]
    BY <1>0, <2>1, StepOf, WriterIs
  <2>4. \A f \in Archived' : \E g \in Archived : f[2] = g[2] /\ f[3] = g[3]
    BY <1>0, <2>1 DEF Archived, RemoveFiles
  <2>5. \A u \in Threads :
          pc'[u] = pc[u] \/ (pc'[u] \notin {"take", "close", "move", "create"} /\ (pc'[u] \in Completing => pc[u] \in Completing))
    BY <1>0, <2>1, <2>2 DEF Completing
  <2>6. pc["display"] = "down" => pc'["display"] = "down"
    BY <1>0, <2>1, <2>2, WriterIs DEF Completing
  <2>9. QED
    BY <1>0, <2>1, <2>4, <2>5, <2>6, NamesSame
<1>3. CASE Display
  <2>1. CASE ~PeriodOver
    <3>1. /\ UNCHANGED <<now, PeriodStart, ArchiveTime, ArchiveIndex, scenario, target, disk>>
          /\ pc["display"] = "idle" /\ Goto("display", "append")
      BY <1>3, <2>1 DEF Display, io, files
    <3>2. pc'["display"] = "append" /\ \A u \in Threads : u # "display" => pc'[u] = pc[u]
      BY <1>0, <3>1, StepOf, WriterIs
    <3>3. \A u \in Threads :
            pc'[u] = pc[u] \/ (pc'[u] \notin {"take", "close", "move", "create"} /\ (pc'[u] \in Completing => pc[u] \in Completing))
      BY <3>2 DEF Completing
    <3>4. \A f \in Archived' : \E g \in Archived : f[2] = g[2] /\ f[3] = g[3]
      BY <3>1 DEF Archived
    <3>5. QED
      BY <1>0, <3>1, <3>2, <3>3, <3>4, NamesSame
  <2>2. CASE PeriodOver
    <3>1. /\ UNCHANGED <<now, ArchiveTime, ArchiveIndex, scenario, disk>>
          /\ PeriodStart' = now /\ pc["display"] = "idle" /\ Goto("display", "take")
          /\ target' = [target EXCEPT !["display"] = Log(PeriodStart, 0)]
          /\ scenario.time
      BY <1>3, <2>2 DEF Display, PeriodOver, Complete, io, files
    <3>2. Writer = "display"
      BY <1>0, <3>1 DEF ControlInv, Writer
    <3>3. CurrentArchiveTime' = now /\ CurrentArchiveTime = PeriodStart
      BY <3>1 DEF CurrentArchiveTime
    <3>4. target'["display"] = Log(PeriodStart, 0)
      BY <1>0, <3>1, WriterIs DEF CallsOK
    <3>5. target'["display"] # NoFile /\ target'["display"][2] = PeriodStart
      BY <3>4 DEF Log, NoFile
    <3>6. /\ now \in Nat /\ PeriodStart \in Nat /\ ArchiveTime \in Nat
          /\ PeriodStart <= now /\ ArchiveTime <= PeriodStart
      BY <1>0, <3>1, <3>3, Bounds DEF NumbersOK, NamesInv
    <3>7. ArchiveTime <= now /\ now <= now
      BY <3>6
    <3>8. Archived' = Archived
      BY <3>1 DEF Archived
    <3>9. \A f \in Archived : f[2] <= now /\ f[2] <= ArchiveTime /\ (f[2] = ArchiveTime => f[3] <= ArchiveIndex)
      BY <1>0, <3>1 DEF NamesInv
    <3>10. "display" \in Threads /\ "take" \notin {"close", "move", "create"}
      BY WriterIs
    <3> HIDE DEF NamesInv
    <3>11. QED
      BY <1>0, <3>1, <3>2, <3>3, <3>5, <3>6, <3>7, <3>8, <3>9, <3>10, NamesOfWriter
  <2>3. QED
    BY <2>1, <2>2
<1>4. CASE DisplayClosed
  <2>1. /\ UNCHANGED <<now, PeriodStart, ArchiveTime, ArchiveIndex, scenario, target>>
        /\ UNCHANGED <<disk, pc>>
    BY <1>4 DEF DisplayClosed, policy, calls, io, files
  <2>4. \A f \in Archived' : \E g \in Archived : f[2] = g[2] /\ f[3] = g[3]
    BY <1>0, <2>1 DEF Archived
  <2>9. QED
    BY <1>0, <2>1, <2>4, NamesSame
<1>5. CASE Enqueue
  <2>1. /\ UNCHANGED <<now, PeriodStart, ArchiveTime, ArchiveIndex, scenario, target>>
        /\ pc["display"] = "append" /\ Goto("display", "idle") /\ disk' = disk
    BY <1>5 DEF Enqueue, policy, calls, io, files
  <2>2. pc'["display"] = "idle" /\ \A u \in Threads : u # "display" => pc'[u] = pc[u]
    BY <1>0, <2>1, StepOf, WriterIs
  <2>4. \A f \in Archived' : \E g \in Archived : f[2] = g[2] /\ f[3] = g[3]
    BY <1>0, <2>1 DEF Archived
  <2>5. \A u \in Threads :
          pc'[u] = pc[u] \/ (pc'[u] \notin {"take", "close", "move", "create"} /\ (pc'[u] \in Completing => pc[u] \in Completing))
    BY <1>0, <2>1, <2>2 DEF Completing
  <2>6. pc["display"] = "down" => pc'["display"] = "down"
    BY <1>0, <2>1, <2>2, WriterIs DEF Completing
  <2>9. QED
    BY <1>0, <2>1, <2>4, <2>5, <2>6, NamesSame
<1>6. CASE TakeReady
  <2>1. /\ UNCHANGED <<now, PeriodStart, ArchiveTime, ArchiveIndex, scenario, target>>
        /\ pc["write"] = "idle" /\ Goto("write", "append") /\ disk' = disk
    BY <1>6 DEF TakeReady, policy, calls, io, files
  <2>2. pc'["write"] = "append" /\ \A u \in Threads : u # "write" => pc'[u] = pc[u]
    BY <1>0, <2>1, StepOf, WriterIs
  <2>4. \A f \in Archived' : \E g \in Archived : f[2] = g[2] /\ f[3] = g[3]
    BY <1>0, <2>1 DEF Archived
  <2>5. \A u \in Threads :
          pc'[u] = pc[u] \/ (pc'[u] \notin {"take", "close", "move", "create"} /\ (pc'[u] \in Completing => pc[u] \in Completing))
    BY <1>0, <2>1, <2>2 DEF Completing
  <2>6. pc["display"] = "down" => pc'["display"] = "down"
    BY <1>0, <2>1, <2>2, WriterIs DEF Completing
  <2>9. QED
    BY <1>0, <2>1, <2>4, <2>5, <2>6, NamesSame
<1>7. CASE ApplySizeLimit
  <2>1. UNCHANGED <<now, PeriodStart, ArchiveTime, ArchiveIndex, scenario, disk>> /\ pc[Writer] = "append"
    BY <1>7 DEF ApplySizeLimit, io, files, policy
  <2>2. Archived' = Archived /\ CurrentArchiveTime' = CurrentArchiveTime
    BY <2>1 DEF Archived, CurrentArchiveTime
  <2>3. Writer \in Threads /\ pc["display"] # "down"
    BY <1>0, <2>1, WriterIs DEF ControlInv
  <2>4. CASE target' = target /\ Goto(Writer, "write")
    <3>1. pc'[Writer] = "write" /\ \A u \in Threads : u # Writer => pc'[u] = pc[u]
      BY <1>0, <2>3, <2>4, StepOf
    <3>2. \A u \in Threads :
            pc'[u] = pc[u] \/ (pc'[u] \notin {"take", "close", "move", "create"} /\ (pc'[u] \in Completing => pc[u] \in Completing))
      BY <3>1 DEF Completing
    <3>3. \A f \in Archived' : \E g \in Archived : f[2] = g[2] /\ f[3] = g[3]
      BY <2>2
    <3>4. QED
      BY <1>0, <2>1, <2>3, <2>4, <3>2, <3>3, NamesSame
  <2>5. CASE target' = [target EXCEPT ![Writer] = Log(ArchiveTime, 0)] /\ Goto(Writer, "take")
    <3>1. target'[Writer] = Log(ArchiveTime, 0)
      BY <1>0, <2>3, <2>5 DEF CallsOK
    <3>2. target'[Writer] # NoFile /\ target'[Writer][2] = ArchiveTime
      BY <3>1 DEF Log, NoFile
    <3>3. /\ PeriodStart <= now /\ ArchiveTime <= CurrentArchiveTime
          /\ \A f \in Archived : f[2] <= now /\ f[2] <= ArchiveTime /\ (f[2] = ArchiveTime => f[3] <= ArchiveIndex)
      BY <1>0, <2>3 DEF NamesInv
    <3>4. ArchiveTime <= ArchiveTime
      BY <1>0, Bounds DEF NumbersOK
    <3>5. "take" \notin {"close", "move", "create"}
      OBVIOUS
    <3>6. QED
      BY <1>0, <2>1, <2>2, <2>3, <2>5, <3>2, <3>3, <3>4, <3>5, NamesOfWriter
  <2>6. QED
    BY <1>7, <2>4, <2>5 DEF ApplySizeLimit, Complete
<1>8. CASE Write
  <2>1. /\ UNCHANGED <<now, PeriodStart, ArchiveTime, ArchiveIndex, scenario, target>>
        /\ pc[Writer] = "write" /\ Goto(Writer, "idle") /\ DOMAIN disk' = DOMAIN disk
    BY <1>8 DEF Write, policy, calls, io, files
  <2>2. pc'[Writer] = "idle" /\ \A u \in Threads : u # Writer => pc'[u] = pc[u]
    BY <1>0, <2>1, StepOf, WriterIs
  <2>4. \A f \in Archived' : \E g \in Archived : f[2] = g[2] /\ f[3] = g[3]
    BY <1>0, <2>1 DEF Archived
  <2>5. \A u \in Threads :
          pc'[u] = pc[u] \/ (pc'[u] \notin {"take", "close", "move", "create"} /\ (pc'[u] \in Completing => pc[u] \in Completing))
    BY <1>0, <2>1, <2>2 DEF Completing
  <2>6. pc["display"] = "down" => pc'["display"] = "down"
    BY <1>0, <2>1, <2>2, WriterIs DEF Completing
  <2>9. QED
    BY <1>0, <2>1, <2>4, <2>5, <2>6, NamesSame
<1>9. CASE TimePasses
  <2>1. /\ UNCHANGED <<scenario, PeriodStart, ArchiveTime, ArchiveIndex, target, pc, disk>>
        /\ now' = now + 1
    BY <1>9 DEF TimePasses, policy, io, files, calls
  <2>2. /\ now \in Nat /\ PeriodStart \in Nat /\ ArchiveTime \in Nat
        /\ \A f \in Archived : f[2] \in Nat
    BY <1>0, ArchiveName, Bounds DEF NumbersOK
  <2>3. CurrentArchiveTime <= CurrentArchiveTime' /\ CurrentArchiveTime \in Nat /\ CurrentArchiveTime' \in Nat
    BY <2>1, <2>2 DEF CurrentArchiveTime
  <2>4. (\A f \in Archived : f[2] <= now)' /\ (PeriodStart <= now)'
    BY <1>0, <2>1, <2>2 DEF NamesInv, Archived
  <2>5. pc'["display"] # "down" => ArchiveTime' <= CurrentArchiveTime'
    BY <1>0, <2>1, <2>2, <2>3 DEF NamesInv
  <2>6. ASSUME NEW t \in Threads, pc'[t] = "take"
        PROVE  target'[t][2] <= CurrentArchiveTime'
    <3>1. target[t][2] \in 0..MaxTime
      BY <1>0, <2>1, <2>6, TargetName DEF Completing
    <3>2. target[t][2] <= CurrentArchiveTime
      BY <1>0, <2>1, <2>6 DEF NamesInv
    <3>3. QED
      BY <2>1, <2>3, <3>1, <3>2, Bounds
  <2>7. Archived' = Archived
    BY <2>1 DEF Archived
  <2>8. QED
    BY <1>0, <2>1, <2>4, <2>5, <2>6, <2>7 DEF NamesInv
<1>10. CASE Collect
  <2>1. /\ UNCHANGED <<now, PeriodStart, ArchiveTime, ArchiveIndex, scenario, target>>
        /\ UNCHANGED <<disk, pc>>
    BY <1>10 DEF Collect, policy, calls, io, files
  <2>4. \A f \in Archived' : \E g \in Archived : f[2] = g[2] /\ f[3] = g[3]
    BY <1>0, <2>1 DEF Archived
  <2>9. QED
    BY <1>0, <2>1, <2>4, NamesSame
<1>11. CASE Crash
  <2>1. UNCHANGED <<scenario, now, PeriodStart>> /\ DOMAIN disk' = DOMAIN disk
    BY <1>11 DEF Crash, policy
  <2>2. pc'["display"] = "down" /\ pc'["write"] = "idle"
    BY <1>11 DEF Crash
  <2>3. \A t \in Threads : pc'[t] \notin Completing
    BY <2>2, WriterIs DEF Completing
  <2>4. \A t \in Threads : pc'[t] \notin {"take", "close", "move", "create"}
    BY <2>3 DEF Completing
  <2>5. QED
    BY <1>0, <2>1, <2>2, <2>3, <2>4 DEF NamesInv, Archived
<1>12. ASSUME NEW t \in Threads, TakeName(t) PROVE NamesInv'
  <2> DEFINE p == target[t][2]
             i == NextIndex(p)
  <2>1. /\ UNCHANGED <<now, PeriodStart, scenario, disk>> /\ ArchiveTime' = p /\ ArchiveIndex' = IndexFor(p)
        /\ target' = [target EXCEPT ![t] = Log(p, i)] /\ pc[t] = "take" /\ Goto(t, "close")
        /\ i <= MaxIndex
    BY <1>12 DEF TakeName, io, files
  <2>2. t = Writer /\ pc["display"] # "down"
    BY <1>0, <2>1, WhoCompletes DEF Completing
  <2>3. /\ PeriodStart <= now /\ ArchiveTime <= CurrentArchiveTime
        /\ \A f \in Archived : f[2] <= now /\ f[2] <= ArchiveTime /\ (f[2] = ArchiveTime => f[3] <= ArchiveIndex)
    BY <1>0, <2>2 DEF NamesInv
  <2>4. /\ now \in Nat /\ PeriodStart \in Nat /\ ArchiveTime \in Nat /\ ArchiveIndex \in Nat
        /\ CurrentArchiveTime \in {PeriodStart, now}
        /\ \A f \in Archived : f[2] \in Nat /\ f[3] \in Nat
    BY <1>0, ArchiveName, Bounds DEF NumbersOK, CurrentArchiveTime
  <2>5. ArchiveTime <= p /\ p <= CurrentArchiveTime /\ p \in 0..MaxTime
    BY <1>0, <2>1, TargetName DEF NamesInv, Completing
  <2>6. IndexFor(p) \in 0..MaxIndex /\ \A f \in Archived : f[2] = p => f[3] <= IndexFor(p)
    BY <1>0, <2>2, IndexForIs
  <2>7. i \in (IndexFor(p) + 1)..(MaxIndex + 1)
    BY <1>0, <2>6, NextIndexIs
  <2>8. target'[t] = Log(p, i)
    BY <1>0, <2>1 DEF CallsOK
  <2> HIDE DEF i
  <2>9. target'[t] # NoFile /\ target'[t][2] = p /\ target'[t][3] = i
    BY <2>8 DEF Log, NoFile
  <2> HIDE DEF p
  <2>10. Archived' = Archived /\ CurrentArchiveTime' = CurrentArchiveTime
    BY <2>1 DEF Archived, CurrentArchiveTime
  <2>11. IndexFor(p) < i /\ i > 0
    BY <2>6, <2>7, Bounds
  <2>12. \A f \in Archived : f[2] <= p
    BY <2>3, <2>4, <2>5, Bounds
  <2>13. /\ "close" \in {"close", "move", "create"} /\ "close" # "take" /\ "close" # "move"
    OBVIOUS
  <2>14. QED
    BY <1>0, <2>1, <2>2, <2>3, <2>5, <2>6, <2>9, <2>10, <2>11, <2>12, <2>13, NamesOfWriter
<1>13. ASSUME NEW t \in Threads, CloseLog(t) PROVE NamesInv'
  <2>1. /\ UNCHANGED <<now, PeriodStart, scenario, disk, ArchiveTime, target>> /\ ArchiveIndex' = target[t][3]
        /\ pc[t] = "close" /\ Goto(t, "move")
    BY <1>13 DEF CloseLog, io, files, calls
  <2>2. t = Writer /\ pc["display"] # "down"
    BY <1>0, <2>1, WhoCompletes DEF Completing
  <2>3. /\ PeriodStart <= now /\ ArchiveTime <= CurrentArchiveTime
        /\ \A f \in Archived : f[2] <= now /\ f[2] <= ArchiveTime /\ (f[2] = ArchiveTime => f[3] <= ArchiveIndex)
    BY <1>0, <2>2 DEF NamesInv
  <2>4. /\ now \in Nat /\ PeriodStart \in Nat /\ ArchiveTime \in Nat /\ ArchiveIndex \in Nat
        /\ CurrentArchiveTime \in {PeriodStart, now}
        /\ \A f \in Archived : f[2] \in Nat /\ f[3] \in Nat
    BY <1>0, ArchiveName, Bounds DEF NumbersOK, CurrentArchiveTime
  <2>5. /\ target[t] # NoFile /\ target[t][2] = ArchiveTime /\ target[t][3] > 0
        /\ ArchiveIndex < target[t][3] /\ target[t][3] \in 0..MaxIndex
    BY <1>0, <2>1, TargetName DEF NamesInv, Completing
  <2>6. Archived' = Archived /\ CurrentArchiveTime' = CurrentArchiveTime
    BY <2>1 DEF Archived, CurrentArchiveTime
  <2>7. \A f \in Archived : f[2] = ArchiveTime => f[3] < target[t][3] /\ f[3] <= target[t][3]
    BY <2>3, <2>4, <2>5, Bounds
  <2>8. "move" \in {"close", "move", "create"} /\ "move" # "take" /\ "move" # "close"
    OBVIOUS
  <2>9. QED
    BY <1>0, <2>1, <2>2, <2>3, <2>5, <2>6, <2>7, <2>8, NamesOfWriter
<1>14. ASSUME NEW t \in Threads, Move(t) PROVE NamesInv'
  <2>1. /\ UNCHANGED <<now, PeriodStart, scenario, ArchiveTime, ArchiveIndex, target>>
        /\ disk' = Moved(Active, target[t]) /\ pc[t] = "move" /\ Goto(t, "create")
    BY <1>14 DEF Move, Rename, policy, calls
  <2>2. t = Writer /\ pc["display"] # "down"
    BY <1>0, <2>1, WhoCompletes DEF Completing
  <2>3. /\ PeriodStart <= now /\ ArchiveTime <= CurrentArchiveTime
        /\ \A f \in Archived : f[2] <= now /\ f[2] <= ArchiveTime /\ (f[2] = ArchiveTime => f[3] <= ArchiveIndex)
    BY <1>0, <2>2 DEF NamesInv
  <2>4. /\ now \in Nat /\ PeriodStart \in Nat /\ ArchiveTime \in Nat /\ ArchiveIndex \in Nat
        /\ CurrentArchiveTime \in {PeriodStart, now}
        /\ \A f \in Archived : f[2] \in Nat /\ f[3] \in Nat
    BY <1>0, ArchiveName, Bounds DEF NumbersOK, CurrentArchiveTime
  <2>5. /\ target[t] # NoFile /\ target[t][2] = ArchiveTime /\ target[t][3] > 0
        /\ ArchiveIndex = target[t][3] /\ target[t][3] \in 0..MaxIndex
    BY <1>0, <2>1, TargetName DEF NamesInv, Completing
  <2>6. CurrentArchiveTime' = CurrentArchiveTime
    BY <2>1 DEF CurrentArchiveTime
  <2>7. Archived' \subseteq Archived \cup {target[t]}
    BY <2>1 DEF Archived, Moved
  <2>8. ArchiveTime <= now /\ ArchiveTime <= ArchiveTime /\ ArchiveIndex <= ArchiveIndex
    BY <2>3, <2>4
  <2>9. \A f \in Archived' : f[2] <= now /\ f[2] <= ArchiveTime /\ (f[2] = ArchiveTime => f[3] <= ArchiveIndex)
    BY <2>3, <2>5, <2>7, <2>8
  <2>10. "create" \in {"close", "move", "create"} /\ "create" # "take" /\ "create" # "close" /\ "create" # "move"
    OBVIOUS
  <2>11. QED
    BY <1>0, <2>1, <2>2, <2>3, <2>5, <2>6, <2>9, <2>10, NamesOfWriter
<1>15. ASSUME NEW t \in Threads, MoveFails(t) PROVE NamesInv'
  <2>1. /\ UNCHANGED <<now, PeriodStart, ArchiveTime, ArchiveIndex, scenario, target>>
        /\ pc[t] = "move" /\ Goto(t, "reopen") /\ disk' = disk
    BY <1>15 DEF MoveFails, policy, calls, io, files
  <2>2. pc'[t] = "reopen" /\ \A u \in Threads : u # t => pc'[u] = pc[u]
    BY <1>0, <2>1, StepOf, WriterIs
  <2>4. \A f \in Archived' : \E g \in Archived : f[2] = g[2] /\ f[3] = g[3]
    BY <1>0, <2>1 DEF Archived
  <2>5. \A u \in Threads :
          pc'[u] = pc[u] \/ (pc'[u] \notin {"take", "close", "move", "create"} /\ (pc'[u] \in Completing => pc[u] \in Completing))
    BY <1>0, <2>1, <2>2 DEF Completing
  <2>6. pc["display"] = "down" => pc'["display"] = "down"
    BY <1>0, <2>1, <2>2, WriterIs DEF Completing
  <2>9. QED
    BY <1>0, <2>1, <2>4, <2>5, <2>6, NamesSame
<1>16. ASSUME NEW t \in Threads, Reopen(t) PROVE NamesInv'
  <2>1. /\ UNCHANGED <<now, PeriodStart, ArchiveTime, ArchiveIndex, scenario, target>>
        /\ pc[t] = "reopen" /\ Goto(t, "idle")
        /\ OpenActive \/ disk' = disk
    BY <1>16 DEF Reopen, GiveUp, OpenFails, policy, calls, io, files
  <2>2. pc'[t] = "idle" /\ \A u \in Threads : u # t => pc'[u] = pc[u]
    BY <1>0, <2>1, StepOf, WriterIs
  <2>4. \A f \in Archived' : \E g \in Archived : f[2] = g[2] /\ f[3] = g[3]
    BY <1>0, <2>1, OpenedArchives DEF Archived
  <2>5. \A u \in Threads :
          pc'[u] = pc[u] \/ (pc'[u] \notin {"take", "close", "move", "create"} /\ (pc'[u] \in Completing => pc[u] \in Completing))
    BY <1>0, <2>1, <2>2 DEF Completing
  <2>6. pc["display"] = "down" => pc'["display"] = "down"
    BY <1>0, <2>1, <2>2, WriterIs DEF Completing
  <2>9. QED
    BY <1>0, <2>1, <2>4, <2>5, <2>6, NamesSame
<1>17. ASSUME NEW t \in Threads, CreateLog(t) PROVE NamesInv'
  <2> DEFINE p == CurrentArchiveTime
  <2>1. /\ UNCHANGED <<now, PeriodStart, scenario, target>>
        /\ ArchiveTime' = p /\ ArchiveIndex' = IndexFor(p)
        /\ OpenActive /\ pc[t] = "create" /\ Goto(t, "retain")
    BY <1>17 DEF CreateLog, calls
  <2>2. t = Writer /\ pc["display"] # "down"
    BY <1>0, <2>1, WhoCompletes DEF Completing
  <2>3. /\ PeriodStart <= now /\ ArchiveTime <= CurrentArchiveTime
        /\ \A f \in Archived : f[2] <= now /\ f[2] <= ArchiveTime /\ (f[2] = ArchiveTime => f[3] <= ArchiveIndex)
    BY <1>0, <2>2 DEF NamesInv
  <2>4. /\ now \in Nat /\ PeriodStart \in Nat /\ ArchiveTime \in Nat /\ ArchiveIndex \in Nat
        /\ CurrentArchiveTime \in {PeriodStart, now}
        /\ \A f \in Archived : f[2] \in Nat /\ f[3] \in Nat
    BY <1>0, ArchiveName, Bounds DEF NumbersOK, CurrentArchiveTime
  <2>5. target[t] # NoFile
    BY <1>0, <2>1 DEF NamesInv, Completing
  <2>6. CurrentArchiveTime' = p /\ Archived' = Archived
    BY <2>1, OpenedArchives DEF CurrentArchiveTime
  <2>7. \A f \in Archived : f[2] = p => f[3] <= IndexFor(p)
    BY <1>0, <2>2, IndexForIs
  <2> HIDE DEF p
  <2>8. p \in Nat /\ p <= p /\ ArchiveTime <= p
    BY <2>3, <2>4 DEF p
  <2>9. \A f \in Archived : f[2] <= p
    BY <2>3, <2>4, <2>8
  <2>10. "retain" \notin {"close", "move", "create"} /\ "retain" # "take" /\ "retain" # "close" /\ "retain" # "move"
    OBVIOUS
  <2>11. QED
    BY <1>0, <2>1, <2>2, <2>3, <2>5, <2>6, <2>7, <2>8, <2>9, <2>10, NamesOfWriter
<1>18. ASSUME NEW t \in Threads, CreateFails(t) PROVE NamesInv'
  <2>1. /\ UNCHANGED <<now, PeriodStart, ArchiveTime, ArchiveIndex, scenario, target>>
        /\ pc[t] = "create" /\ Goto(t, "idle") /\ disk' = disk
    BY <1>18 DEF CreateFails, GiveUp, OpenFails, policy, calls, io, files
  <2>2. pc'[t] = "idle" /\ \A u \in Threads : u # t => pc'[u] = pc[u]
    BY <1>0, <2>1, StepOf, WriterIs
  <2>4. \A f \in Archived' : \E g \in Archived : f[2] = g[2] /\ f[3] = g[3]
    BY <1>0, <2>1 DEF Archived
  <2>5. \A u \in Threads :
          pc'[u] = pc[u] \/ (pc'[u] \notin {"take", "close", "move", "create"} /\ (pc'[u] \in Completing => pc[u] \in Completing))
    BY <1>0, <2>1, <2>2 DEF Completing
  <2>6. pc["display"] = "down" => pc'["display"] = "down"
    BY <1>0, <2>1, <2>2, WriterIs DEF Completing
  <2>9. QED
    BY <1>0, <2>1, <2>4, <2>5, <2>6, NamesSame
<1>19. ASSUME NEW t \in Threads, Retain(t) PROVE NamesInv'
  <2>1. /\ UNCHANGED <<now, PeriodStart, ArchiveTime, ArchiveIndex, scenario, target>>
        /\ pc[t] = "retain" /\ Goto(t, after[t]) /\ RemoveFiles(Expired)
    BY <1>19 DEF Retain, ApplyRetention, policy, calls, io, files
  <2>2. pc'[t] = after[t] /\ \A u \in Threads : u # t => pc'[u] = pc[u]
    BY <1>0, <2>1, StepOf, WriterIs
  <2>3. after[t] \in {"append", "write"}
    BY <1>0 DEF CallsOK
  <2>4. \A f \in Archived' : \E g \in Archived : f[2] = g[2] /\ f[3] = g[3]
    BY <1>0, <2>1 DEF Archived, RemoveFiles
  <2>5. \A u \in Threads :
          pc'[u] = pc[u] \/ (pc'[u] \notin {"take", "close", "move", "create"} /\ (pc'[u] \in Completing => pc[u] \in Completing))
    BY <1>0, <2>1, <2>2, <2>3 DEF Completing
  <2>6. pc["display"] = "down" => pc'["display"] = "down"
    BY <1>0, <2>1, <2>2, WriterIs, <2>3 DEF Completing
  <2>9. QED
    BY <1>0, <2>1, <2>4, <2>5, <2>6, NamesSame
<1>20. ASSUME NEW f \in submitted, Compress(f) PROVE NamesInv'
  <2>1. /\ UNCHANGED <<now, PeriodStart, ArchiveTime, ArchiveIndex, scenario, target>>
        /\ pc' = pc
        /\ disk' = disk \/ (disk' = Moved(f, Gz(f[2], f[3])) /\ f \in DOMAIN disk)
    BY <1>20 DEF Compress, Exists, policy, calls, io, files
  <2>2. f \in Archives /\ f # Active
    BY <1>0, Names DEF SetsOK
  <2>3. Gz(f[2], f[3])[2] = f[2] /\ Gz(f[2], f[3])[3] = f[3]
    BY DEF Gz
  <2>4. \A g \in Archived' : \E h \in Archived : g[2] = h[2] /\ g[3] = h[3]
    BY <1>0, <2>1, <2>2, <2>3 DEF Archived, Moved
  <2>9. QED
    BY <1>0, <2>1, <2>4, NamesSame
<1>21. ASSUME NEW f \in candidates, Delete(f) PROVE NamesInv'
  <2>1. /\ UNCHANGED <<now, PeriodStart, ArchiveTime, ArchiveIndex, scenario, target>>
        /\ RemoveFiles({f}) /\ pc' = pc
    BY <1>21 DEF Delete, policy, calls, io, files
  <2>4. \A g \in Archived' : \E h \in Archived : g[2] = h[2] /\ g[3] = h[3]
    BY <1>0, <2>1 DEF Archived, RemoveFiles
  <2>9. QED
    BY <1>0, <2>1, <2>4, NamesSame
<1>22. QED
  BY <1>1, <1>2, <1>3, <1>4, <1>5, <1>6, <1>7, <1>8, <1>9, <1>10, <1>11, <1>12, <1>13, <1>14, <1>15, <1>16, <1>17, <1>18, <1>19, <1>20, <1>21 DEF Next

----------------------------------------------------------------------------
(* The order of the records                                                  *)

(* No file has a record it did not have. *)
FewerRecords ==
  \A f \in DOMAIN disk' : (f \in DOMAIN disk /\ disk'[f] \subseteq disk[f]) \/ disk'[f] = {}

(* So it is when files are opened or removed. *)
LEMMA FewerIf ==
  ASSUME disk' = disk \/ OpenActive \/ \E fs : RemoveFiles(fs)
  PROVE  FewerRecords
<1>1. CASE disk' = disk
  BY <1>1 DEF FewerRecords
<1>2. CASE OpenActive
  <2>1. CASE Exists(Active)
    BY <1>2, <2>1 DEF OpenActive, files, FewerRecords
  <2>2. CASE ~Exists(Active)
    <3>1. disk' = [f \in DOMAIN disk \cup {Active} |-> IF f = Active THEN {} ELSE disk[f]]
      BY <1>2, <2>2 DEF OpenActive
    <3>2. QED
      BY <3>1 DEF FewerRecords
  <2>3. QED
    BY <2>1, <2>2
<1>3. CASE \E fs : RemoveFiles(fs)
  BY <1>3 DEF RemoveFiles, FewerRecords
<1>4. QED
  BY <1>1, <1>2, <1>3

(* The order of fewer records. *)
LEMMA OrderOfFewer ==
  ASSUME OrderInv, FewerRecords, Memory' \subseteq Memory,
         Before(batch'["write"], queue' \cup batch'["display"]), Before(queue', batch'["display"])
  PROVE  OrderInv'
<1>1. ArchivesInOrder'
  <2> SUFFICES ASSUME NEW f \in DOMAIN disk' \ {Active}, NEW g \in DOMAIN disk' \ {Active},
                      f[2] < g[2] \/ (f[2] = g[2] /\ f[3] < g[3]),
                      NEW r \in disk'[f], NEW q \in disk'[g]
               PROVE  r < q
    BY DEF ArchivesInOrder
  <2>1. f \in DOMAIN disk /\ g \in DOMAIN disk /\ r \in disk[f] /\ q \in disk[g]
    BY DEF FewerRecords
  <2>2. QED
    BY <2>1 DEF OrderInv, ArchivesInOrder
<1>2. \A f \in Archived' : Exists(Active)' => Before(disk'[f], disk'[Active])
  BY DEF FewerRecords, OrderInv, Archived, Exists, Before
<1>3. \A f \in DOMAIN disk' : Before(disk'[f], Memory')
  BY DEF FewerRecords, OrderInv, Before
<1>4. QED
  BY <1>1, <1>2, <1>3 DEF OrderInv

(* And what is in memory stays there. *)
LEMMA OrderSame ==
  ASSUME OrderInv, FewerRecords, UNCHANGED <<queue, batch>>
  PROVE  OrderInv'
<1>1. Memory' = Memory
  BY DEF Memory
<1>2. Before(batch'["write"], queue' \cup batch'["display"]) /\ Before(queue', batch'["display"])
  BY DEF OrderInv
<1>3. QED
  BY <1>1, <1>2, OrderOfFewer

(* A thread gives up what it has. *)
LEMMA OrderGivenUp ==
  ASSUME OrderInv, FewerRecords, CallsOK, NEW t \in Threads, queue' = queue,
         batch' = [batch EXCEPT ![t] = {}]
  PROVE  OrderInv'
<1>1. batch'[t] = {} /\ \A u \in Threads : u # t => batch'[u] = batch[u]
  BY BatchOf
<1>2. batch'["write"] \subseteq batch["write"] /\ batch'["display"] \subseteq batch["display"]
  BY <1>1, WriterIs
<1>3. Memory' \subseteq Memory
  BY <1>2 DEF Memory
<1>4. Before(batch'["write"], queue' \cup batch'["display"]) /\ Before(queue', batch'["display"])
  BY <1>2 DEF OrderInv, Before
<1>5. QED
  BY <1>3, <1>4, OrderOfFewer

(* The records are in the order in which they were displayed. *)
LEMMA OrderKept ==
  ASSUME IndInv, Next
  PROVE  OrderInv'
<1>0. OrderInv /\ NamesInv /\ HandleInv /\ ControlInv /\ FilesOK /\ CallsOK /\ SetsOK /\ NumbersOK
  BY TypeParts DEF IndInv
<1>1. CASE Start
  <2>1. /\ UNCHANGED <<queue, batch>>
        /\ disk' = disk \/ OpenActive
    BY <1>1 DEF Start, OpenFails, files, calls
  <2>2. FewerRecords
    BY <2>1, FewerIf
  <2>3. QED
    BY <1>0, <2>1, <2>2, OrderSame
<1>2. CASE CleanOnStart
  <2>1. /\ UNCHANGED <<queue, batch>>
        /\ disk' = disk \/ RemoveFiles(Expired)
    BY <1>2 DEF CleanOnStart, ApplyRetention, files, calls
  <2>2. FewerRecords
    BY <2>1, FewerIf
  <2>3. QED
    BY <1>0, <2>1, <2>2, OrderSame
<1>3. CASE Display
  <2>1. /\ UNCHANGED <<disk, queue>> /\ displayed' = displayed + 1 /\ pc["display"] = "idle"
        /\ batch' = [batch EXCEPT !["display"] = {displayed + 1}]
    BY <1>3 DEF Display, io, files
  <2>2. /\ batch["display"] = {} /\ batch'["display"] = {displayed + 1}
        /\ batch'["write"] = batch["write"]
    BY <1>0, <2>1, BatchOf, WriterIs DEF ControlInv
  <2>3. Memory' = Memory \cup {displayed + 1}
    BY <2>1, <2>2 DEF Memory
  <2>4. \A S : S \subseteq 1..displayed => Before(S, {displayed + 1})
    BY <1>0, Bounds DEF NumbersOK, Before
  <2>5. /\ queue \subseteq 1..displayed /\ batch["write"] \subseteq 1..displayed
        /\ \A f \in DOMAIN disk : disk[f] \subseteq 1..displayed
    BY <1>0, WriterIs DEF SetsOK, CallsOK, FilesOK
  <2>6. \A f \in DOMAIN disk : Before(disk[f], Memory')
    <3>1. \A f \in DOMAIN disk : Before(disk[f], Memory) /\ Before(disk[f], {displayed + 1})
      BY <1>0, <2>4, <2>5 DEF OrderInv
    <3>2. QED
      BY <2>3, <3>1 DEF Before
  <2>7. Before(batch'["write"], queue' \cup batch'["display"]) /\ Before(queue', batch'["display"])
    <3>1. Before(batch["write"], queue) /\ Before(batch["write"], {displayed + 1}) /\ Before(queue, {displayed + 1})
      BY <1>0, <2>2, <2>4, <2>5 DEF OrderInv
    <3>2. QED
      BY <2>1, <2>2, <3>1 DEF Before
  <2>8. QED
    BY <1>0, <2>1, <2>6, <2>7 DEF OrderInv, ArchivesInOrder, Archived, Exists
<1>4. CASE DisplayClosed
  <2>1. /\ UNCHANGED <<disk, queue, batch>>
    BY <1>4 DEF DisplayClosed, io, files, calls
  <2>2. FewerRecords
    BY <2>1, FewerIf
  <2>3. QED
    BY <1>0, <2>1, <2>2, OrderSame
<1>5. CASE Enqueue
  <2>1. /\ disk' = disk /\ queue' = queue \cup batch["display"]
        /\ batch' = [batch EXCEPT !["display"] = {}]
    BY <1>5 DEF Enqueue, io, files
  <2>2. batch'["display"] = {} /\ batch'["write"] = batch["write"]
    BY <1>0, <2>1, BatchOf, WriterIs
  <2>3. Memory' = Memory
    BY <2>1, <2>2 DEF Memory
  <2>4. Before(batch'["write"], queue' \cup batch'["display"]) /\ Before(queue', batch'["display"])
    BY <1>0, <2>1, <2>2 DEF OrderInv, Before
  <2>5. QED
    BY <1>0, <2>1, <2>3, <2>4, FewerIf, OrderOfFewer
<1>6. CASE TakeReady
  <2>1. /\ disk' = disk /\ queue' = {} /\ batch' = [batch EXCEPT !["write"] = queue]
    BY <1>6 DEF TakeReady, io, files
  <2>2. batch'["write"] = queue /\ batch'["display"] = batch["display"]
    BY <1>0, <2>1, BatchOf, WriterIs
  <2>3. Memory' \subseteq Memory
    BY <2>1, <2>2 DEF Memory
  <2>4. Before(batch'["write"], queue' \cup batch'["display"]) /\ Before(queue', batch'["display"])
    BY <1>0, <2>1, <2>2 DEF OrderInv, Before
  <2>5. QED
    BY <1>0, <2>1, <2>3, <2>4, FewerIf, OrderOfFewer
<1>7. CASE ApplySizeLimit
  <2>1. /\ UNCHANGED <<disk, queue, batch>>
    BY <1>7 DEF ApplySizeLimit, io, files, calls
  <2>2. FewerRecords
    BY <2>1, FewerIf
  <2>3. QED
    BY <1>0, <2>1, <2>2, OrderSame
<1>8. CASE Write
  <2> DEFINE B == batch[Writer]
  <2>1. queue' = queue /\ batch' = [batch EXCEPT ![Writer] = {}] /\ Writer \in Threads
        /\ pc[Writer] = "write"
    BY <1>8, WriterIs DEF Write
  <2>2. CASE handle \in {Closed, Unlinked}
    <3>1. disk' = disk
      BY <1>8, <2>2 DEF Write, files
    <3>2. QED
      BY <1>0, <2>1, <3>1, FewerIf, OrderGivenUp
  <2>3. CASE handle \notin {Closed, Unlinked}
    <3>1. handle = Active /\ Active \in DOMAIN disk
      BY <1>0, <2>3 DEF HandleInv, Exists
    <3>2. disk' = [disk EXCEPT ![Active] = @ \cup B]
      BY <1>8, <2>3, <3>1 DEF Write
    <3> HIDE DEF B
    <3>3. /\ DOMAIN disk' = DOMAIN disk /\ disk'[Active] = disk[Active] \cup B
          /\ \A f \in DOMAIN disk : f # Active => disk'[f] = disk[f]
      BY <3>1, <3>2
    <3>4. batch'[Writer] = {} /\ \A u \in Threads : u # Writer => batch'[u] = batch[u]
      BY <1>0, <2>1, BatchOf
    <3>5. /\ Memory' \subseteq Memory /\ Before(B, Memory') /\ B \subseteq Memory
          /\ Before(batch'["write"], queue' \cup batch'["display"]) /\ Before(queue', batch'["display"])
      <4>1. CASE scenario.async
        <5>1. B = batch["write"] /\ batch'["write"] = {} /\ batch'["display"] = batch["display"]
          BY <3>4, <4>1, WriterIs DEF B, Writer
        <5>2. Memory' = queue \cup batch["display"] /\ Memory = B \cup queue \cup batch["display"]
          BY <2>1, <5>1 DEF Memory
        <5>3. QED
          BY <1>0, <2>1, <5>1, <5>2 DEF OrderInv, Before
      <4>2. CASE ~scenario.async
        <5>1. B = batch["display"] /\ batch'["display"] = {} /\ batch'["write"] = batch["write"]
          BY <3>4, <4>2, WriterIs DEF B, Writer
        <5>2. queue = {} /\ batch["write"] = {}
          BY <1>0, <4>2, WriterIs DEF ControlInv
        <5>3. Memory' = {} /\ Memory = B
          BY <2>1, <5>1, <5>2 DEF Memory
        <5>4. QED
          BY <2>1, <5>1, <5>2, <5>3 DEF Before
      <4>3. QED
        BY <4>1, <4>2
    <3>6. ArchivesInOrder'
      BY <1>0, <3>3 DEF OrderInv, ArchivesInOrder
    <3>7. ASSUME NEW f \in Archived' PROVE Before(disk'[f], disk'[Active])
      <4>1. f \in Archived /\ disk'[f] = disk[f] /\ f \in DOMAIN disk /\ Exists(Active)
        BY <3>1, <3>3 DEF Archived, Exists
      <4>2. Before(disk[f], disk[Active]) /\ Before(disk[f], Memory)
        BY <1>0, <4>1 DEF OrderInv
      <4>3. QED
        BY <3>3, <3>5, <4>1, <4>2 DEF Before
    <3>8. ASSUME NEW f \in DOMAIN disk' PROVE Before(disk'[f], Memory')
      <4>1. Before(disk[f], Memory) /\ disk'[f] \subseteq disk[f] \cup B
        BY <1>0, <3>3 DEF OrderInv
      <4>2. QED
        BY <3>5, <4>1 DEF Before
    <3>9. QED
      BY <3>5, <3>6, <3>7, <3>8 DEF OrderInv
  <2>4. QED
    BY <2>2, <2>3
<1>9. CASE TimePasses
  <2>1. /\ UNCHANGED <<disk, queue, batch>>
    BY <1>9 DEF TimePasses, io, files, calls
  <2>2. FewerRecords
    BY <2>1, FewerIf
  <2>3. QED
    BY <1>0, <2>1, <2>2, OrderSame
<1>10. CASE Collect
  <2>1. /\ UNCHANGED <<disk, queue, batch>>
    BY <1>10 DEF Collect, io, files, calls
  <2>2. FewerRecords
    BY <2>1, FewerIf
  <2>3. QED
    BY <1>0, <2>1, <2>2, OrderSame
<1>11. CASE Crash
  <2>1. /\ queue' = {} /\ batch' = [t \in Threads |-> {}]
        /\ DOMAIN disk' = DOMAIN disk /\ \A f \in DOMAIN disk : disk'[f] \subseteq disk[f]
    BY <1>11 DEF Crash
  <2>2. batch'["write"] = {} /\ batch'["display"] = {}
    BY <2>1, WriterIs
  <2>3. Memory' \subseteq Memory
    BY <2>1, <2>2 DEF Memory
  <2>4. Before(batch'["write"], queue' \cup batch'["display"]) /\ Before(queue', batch'["display"])
    BY <2>1, <2>2 DEF Before
  <2>5. FewerRecords
    BY <2>1 DEF FewerRecords
  <2>6. QED
    BY <1>0, <2>3, <2>4, <2>5, OrderOfFewer
<1>12. ASSUME NEW t \in Threads, TakeName(t) PROVE OrderInv'
  <2>1. /\ UNCHANGED <<disk, queue, batch>>
    BY <1>12 DEF TakeName, io, files, calls
  <2>2. FewerRecords
    BY <2>1, FewerIf
  <2>3. QED
    BY <1>0, <2>1, <2>2, OrderSame
<1>13. ASSUME NEW t \in Threads, CloseLog(t) PROVE OrderInv'
  <2>1. /\ UNCHANGED <<disk, queue, batch>>
    BY <1>13 DEF CloseLog, io, files, calls
  <2>2. FewerRecords
    BY <2>1, FewerIf
  <2>3. QED
    BY <1>0, <2>1, <2>2, OrderSame
<1>14. ASSUME NEW t \in Threads, Move(t) PROVE OrderInv'
  <2> DEFINE T == target[t]
  <2>1. /\ UNCHANGED <<queue, batch>> /\ pc[t] = "move" /\ Active \in DOMAIN disk
        /\ disk' = Moved(Active, T)
    BY <1>14 DEF Move, Rename, Exists, calls
  <2>2. T \in Archives /\ T # Active
    BY <1>0, <2>1, TargetArchive, Names
  <2>3. /\ T[2] = ArchiveTime /\ T[3] = ArchiveIndex
        /\ \A f \in Archived : f[2] <= ArchiveTime /\ (f[2] = ArchiveTime => f[3] < ArchiveIndex)
    <3>1. pc["display"] # "down"
      BY <1>0, <2>1, WhoCompletes DEF Completing
    <3>2. QED
      BY <1>0, <2>1, <3>1 DEF NamesInv
  <2> HIDE DEF T
  <2>4. /\ DOMAIN disk' = Archived \cup {T} /\ disk'[T] = disk[Active]
        /\ \A f \in Archived : f # T => disk'[f] = disk[f]
    BY <2>1, <2>2 DEF Moved, Archived
  <2>5. Memory' = Memory
    BY <2>1 DEF Memory
  <2>6. ArchivesInOrder'
    <3> SUFFICES ASSUME NEW f \in DOMAIN disk' \ {Active}, NEW g \in DOMAIN disk' \ {Active},
                        f[2] < g[2] \/ (f[2] = g[2] /\ f[3] < g[3])
                 PROVE  Before(disk'[f], disk'[g])
      BY DEF ArchivesInOrder, Before
    <3>1. f # T
      <4> SUFFICES ASSUME f = T PROVE FALSE
        OBVIOUS
      <4>1. g \in Archived \/ g = T
        BY <2>4
      <4>2. /\ T[2] \in Nat /\ T[3] \in Nat
            /\ \A h \in Archived : h[2] \in Nat /\ h[3] \in Nat
        BY <1>0, <2>2, ArchiveName, Bounds DEF Archives
      <4>3. QED
        BY <2>3, <4>1, <4>2
    <3>2. f \in Archived /\ disk'[f] = disk[f] /\ Exists(Active)
      BY <2>1, <2>4, <3>1 DEF Exists
    <3>3. CASE g = T
      BY <1>0, <2>4, <3>2, <3>3 DEF OrderInv
    <3>4. CASE g # T
      <4>1. g \in Archived /\ disk'[g] = disk[g]
        BY <2>4, <3>4
      <4>2. QED
        BY <1>0, <3>2, <4>1 DEF OrderInv, ArchivesInOrder, Archived, Before
    <3>5. QED
      BY <3>3, <3>4
  <2>7. ~Exists(Active)'
    BY <2>2, <2>4 DEF Exists, Archived
  <2>8. ASSUME NEW f \in DOMAIN disk' PROVE Before(disk'[f], Memory')
    BY <1>0, <2>1, <2>4, <2>5 DEF OrderInv, Archived
  <2>9. QED
    BY <1>0, <2>1, <2>6, <2>7, <2>8 DEF OrderInv
<1>15. ASSUME NEW t \in Threads, MoveFails(t) PROVE OrderInv'
  <2>1. /\ UNCHANGED <<disk, queue, batch>>
    BY <1>15 DEF MoveFails, io, files, calls
  <2>2. FewerRecords
    BY <2>1, FewerIf
  <2>3. QED
    BY <1>0, <2>1, <2>2, OrderSame
<1>16. ASSUME NEW t \in Threads, Reopen(t) PROVE OrderInv'
  <2>1. /\ queue' = queue
        /\ batch' = [batch EXCEPT ![t] = {}]
        /\ disk' = disk \/ OpenActive
    BY <1>16 DEF Reopen, GiveUp, OpenFails, files
  <2>2. FewerRecords
    BY <2>1, FewerIf
  <2>3. QED
    BY <1>0, <2>1, <2>2, OrderGivenUp
<1>17. ASSUME NEW t \in Threads, CreateLog(t) PROVE OrderInv'
  <2>1. /\ UNCHANGED <<queue, batch>>
        /\ OpenActive
    BY <1>17 DEF CreateLog, calls
  <2>2. FewerRecords
    BY <2>1, FewerIf
  <2>3. QED
    BY <1>0, <2>1, <2>2, OrderSame
<1>18. ASSUME NEW t \in Threads, CreateFails(t) PROVE OrderInv'
  <2>1. /\ queue' = queue
        /\ batch' = [batch EXCEPT ![t] = {}]
        /\ disk' = disk \/ OpenActive
    BY <1>18 DEF CreateFails, GiveUp, OpenFails, files
  <2>2. FewerRecords
    BY <2>1, FewerIf
  <2>3. QED
    BY <1>0, <2>1, <2>2, OrderGivenUp
<1>19. ASSUME NEW t \in Threads, Retain(t) PROVE OrderInv'
  <2>1. /\ UNCHANGED <<queue, batch>>
        /\ disk' = disk \/ RemoveFiles(Expired)
    BY <1>19 DEF Retain, ApplyRetention, files, calls
  <2>2. FewerRecords
    BY <2>1, FewerIf
  <2>3. QED
    BY <1>0, <2>1, <2>2, OrderSame
<1>20. ASSUME NEW f \in submitted, Compress(f) PROVE OrderInv'
  <2> DEFINE gz == Gz(f[2], f[3])
  <2>1. UNCHANGED <<queue, batch>>
    BY <1>20 DEF Compress, calls
  <2>2. CASE disk' = disk
    BY <1>0, <2>1, <2>2, FewerIf, OrderSame
  <2>3. CASE f \in DOMAIN disk /\ disk' = Moved(f, gz)
    <3>1. gz[2] = f[2] /\ gz[3] = f[3] /\ f # Active /\ gz # Active
      <4>1. f \in Archives
        BY <1>0 DEF SetsOK
      <4>2. gz \in Archives
        BY <4>1 DEF Archives, Gz
      <4>3. QED
        BY <4>1, <4>2, Names DEF Gz
    <3> HIDE DEF gz
    <3> DEFINE Source(g) == IF g = gz THEN f ELSE g
    <3>2. \A g \in DOMAIN disk' : /\ Source(g) \in DOMAIN disk /\ disk'[g] = disk[Source(g)]
                                 /\ Source(g)[2] = g[2] /\ Source(g)[3] = g[3]
                                 /\ (Source(g) = Active <=> g = Active)
      BY <2>3, <3>1 DEF Moved
    <3>3. Memory' = Memory
      BY <2>1 DEF Memory
    <3> HIDE DEF Source
    <3>4. ArchivesInOrder'
      BY <1>0, <3>2 DEF OrderInv, ArchivesInOrder
    <3>5. \A g \in Archived' : Exists(Active)' => Before(disk'[g], disk'[Active])
      <4>1. \A g \in Archived' : Source(g) \in Archived /\ disk'[g] = disk[Source(g)]
        BY <3>2 DEF Archived
      <4>2. Exists(Active)' => Exists(Active) /\ disk'[Active] = disk[Active]
        BY <3>2 DEF Exists
      <4>3. QED
        BY <1>0, <4>1, <4>2 DEF OrderInv
    <3>6. \A g \in DOMAIN disk' : Before(disk'[g], Memory')
      BY <1>0, <3>2, <3>3 DEF OrderInv
    <3>7. QED
      BY <1>0, <2>1, <3>4, <3>5, <3>6 DEF OrderInv
  <2>4. QED
    BY <1>20, <2>2, <2>3 DEF Compress, Exists, files
<1>21. ASSUME NEW f \in candidates, Delete(f) PROVE OrderInv'
  <2>1. /\ UNCHANGED <<queue, batch>>
        /\ RemoveFiles({f})
    BY <1>21 DEF Delete, calls
  <2>2. FewerRecords
    BY <2>1, FewerIf
  <2>3. QED
    BY <1>0, <2>1, <2>2, OrderSame
<1>22. QED
  BY <1>1, <1>2, <1>3, <1>4, <1>5, <1>6, <1>7, <1>8, <1>9, <1>10, <1>11, <1>12, <1>13, <1>14, <1>15, <1>16, <1>17, <1>18, <1>19, <1>20, <1>21 DEF Next

----------------------------------------------------------------------------
(* The times of last write                                                   *)

(* They stay the same. *)
LEMMA TimesSame ==
  ASSUME TimesInv, UNCHANGED <<disk, older, scenario>>,
         scenario.gzip \/ submitted' \subseteq submitted
  PROVE  TimesInv'
BY DEF TimesInv, Archived

(* Some files are removed. *)
LEMMA TimesRemoved ==
  ASSUME TimesInv, FilesOK, NEW fs, RemoveFiles(fs), UNCHANGED <<scenario, submitted>>
  PROVE  TimesInv'
<1>1. /\ DOMAIN disk' = DOMAIN disk \ fs /\ \A f \in DOMAIN disk \ fs : disk'[f] = disk[f]
      /\ \A f \in DOMAIN disk \ fs : older'[f] = older[f] \ fs
  BY DEF RemoveFiles
<1>2. \A f \in DOMAIN disk : older[f] \subseteq DOMAIN disk
  BY DEF FilesOK
<1>3. \A f, g, h \in DOMAIN disk' : f \in older'[g] /\ g \in older'[h] => f \in older'[h]
  BY <1>1 DEF TimesInv
<1>4. ASSUME ~scenario.gzip, NEW g \in Archived'
      PROVE  Active \notin older'[g] /\ \A f \in older'[g] : Before(disk'[f], disk'[g])
  <2>1. g \in Archived /\ g \in DOMAIN disk \ fs
    BY <1>1 DEF Archived
  <2>2. older'[g] = older[g] \ fs /\ disk'[g] = disk[g] /\ older[g] \subseteq DOMAIN disk
    BY <1>1, <1>2, <2>1
  <2>3. \A f \in older'[g] : f \in older[g] /\ disk'[f] = disk[f]
    BY <1>1, <2>2
  <2>4. QED
    BY <1>4, <2>1, <2>2, <2>3 DEF TimesInv
<1>5. QED
  BY <1>3, <1>4 DEF TimesInv

(* The active file is opened. *)
LEMMA TimesOpened ==
  ASSUME TimesInv, FilesOK, OpenActive, scenario' = scenario,
         scenario.gzip \/ submitted' \subseteq submitted
  PROVE  TimesInv'
<1>1. CASE Exists(Active)
  BY <1>1, TimesSame DEF OpenActive, files
<1>2. CASE ~Exists(Active)
  <2>1. /\ DOMAIN disk' = DOMAIN disk \cup {Active} /\ Active \notin DOMAIN disk
        /\ \A f \in DOMAIN disk : disk'[f] = disk[f] /\ older'[f] = older[f]
        /\ older'[Active] = DOMAIN disk
    BY <1>2 DEF OpenActive, Exists
  <2>2. \A f \in DOMAIN disk : older[f] \subseteq DOMAIN disk
    BY DEF FilesOK
  <2>3. \A f, g, h \in DOMAIN disk' : f \in older'[g] /\ g \in older'[h] => f \in older'[h]
    BY <2>1, <2>2 DEF TimesInv
  <2>4. ASSUME ~scenario.gzip, NEW g \in Archived'
        PROVE  Active \notin older'[g] /\ \A f \in older'[g] : Before(disk'[f], disk'[g])
    <3>1. g \in Archived /\ g \in DOMAIN disk
      BY <2>1, <2>4 DEF Archived
    <3>2. older'[g] = older[g] /\ disk'[g] = disk[g] /\ \A f \in older[g] : disk'[f] = disk[f]
      BY <2>1, <2>2, <3>1
    <3>3. QED
      BY <2>4, <3>1, <3>2 DEF TimesInv
  <2>5. QED
    BY <2>3, <2>4 DEF TimesInv
<1>3. QED
  BY <1>1, <1>2

(* A file is written last. *)
LEMMA TimesWritten ==
  ASSUME TimesInv, FilesOK, Active \in DOMAIN disk, UNCHANGED <<scenario, submitted>>,
         DOMAIN disk' = DOMAIN disk, \A f \in Archived : disk'[f] = disk[f],
         older' = [f \in DOMAIN disk |-> IF f = Active THEN DOMAIN disk \ {f} ELSE older[f] \ {Active}]
  PROVE  TimesInv'
<1>1. \A f \in DOMAIN disk : older[f] \subseteq DOMAIN disk
  BY DEF FilesOK
<1>2. \A f \in DOMAIN disk : older'[f] = IF f = Active THEN DOMAIN disk \ {f} ELSE older[f] \ {Active}
  OBVIOUS
<1>3. \A f, g, h \in DOMAIN disk' : f \in older'[g] /\ g \in older'[h] => f \in older'[h]
  BY <1>1, <1>2 DEF TimesInv
<1>4. ASSUME ~scenario.gzip, NEW g \in Archived'
      PROVE  Active \notin older'[g] /\ \A f \in older'[g] : Before(disk'[f], disk'[g])
  <2>1. g \in Archived /\ g \in DOMAIN disk /\ g # Active
    BY DEF Archived
  <2>2. older'[g] = older[g] \ {Active} /\ disk'[g] = disk[g]
    BY <1>2, <2>1
  <2>3. \A f \in older'[g] : f \in older[g] /\ disk'[f] = disk[f]
    BY <1>1, <2>1, <2>2 DEF Archived
  <2>4. QED
    BY <1>4, <2>1, <2>2, <2>3 DEF TimesInv
<1>5. QED
  BY <1>3, <1>4 DEF TimesInv

(* The times of last write are in the order of the records. *)
LEMMA TimesKept ==
  ASSUME IndInv, Next
  PROVE  TimesInv'
<1>0. TimesInv /\ OrderInv /\ NamesInv /\ HandleInv /\ ControlInv /\ FilesOK /\ CallsOK /\ SetsOK
  BY TypeParts DEF IndInv
<1>1. CASE Start
  <2>1. UNCHANGED <<scenario, submitted>> /\ (UNCHANGED <<disk, older>> \/ OpenActive)
    BY <1>1 DEF Start, OpenFails, files, others
  <2>2. QED
    BY <1>0, <2>1, TimesSame, TimesOpened
<1>2. CASE CleanOnStart
  <2>1. UNCHANGED <<scenario, submitted>> /\ (UNCHANGED <<disk, older>> \/ RemoveFiles(Expired))
    BY <1>2 DEF CleanOnStart, ApplyRetention, files, others
  <2>2. QED
    BY <1>0, <2>1, TimesSame, TimesRemoved
<1>3. CASE Display
  <2>1. UNCHANGED <<disk, older, scenario, submitted>>
    BY <1>3 DEF Display, Complete, io, files, others
  <2>2. QED
    BY <1>0, <2>1, TimesSame
<1>4. CASE DisplayClosed
  <2>1. UNCHANGED <<disk, older, scenario, submitted>>
    BY <1>4 DEF DisplayClosed, io, files, others
  <2>2. QED
    BY <1>0, <2>1, TimesSame
<1>5. CASE Enqueue
  <2>1. UNCHANGED <<disk, older, scenario, submitted>>
    BY <1>5 DEF Enqueue, io, files, others
  <2>2. QED
    BY <1>0, <2>1, TimesSame
<1>6. CASE TakeReady
  <2>1. UNCHANGED <<disk, older, scenario, submitted>>
    BY <1>6 DEF TakeReady, io, files, others
  <2>2. QED
    BY <1>0, <2>1, TimesSame
<1>7. CASE ApplySizeLimit
  <2>1. UNCHANGED <<disk, older, scenario, submitted>>
    BY <1>7 DEF ApplySizeLimit, Complete, io, files, others
  <2>2. QED
    BY <1>0, <2>1, TimesSame
<1>8. CASE Write
  <2>1. UNCHANGED <<scenario, submitted>>
    BY <1>8 DEF Write, others
  <2>2. CASE handle \in {Closed, Unlinked}
    BY <1>0, <1>8, <2>1, <2>2, TimesSame DEF Write, files
  <2>3. CASE handle \notin {Closed, Unlinked}
    <3>1. handle = Active /\ Active \in DOMAIN disk
      BY <1>0, <2>3 DEF HandleInv, Exists
    <3>2. /\ DOMAIN disk' = DOMAIN disk /\ \A f \in DOMAIN disk : f # Active => disk'[f] = disk[f]
          /\ older' = [f \in DOMAIN disk |-> IF f = Active THEN DOMAIN disk \ {f} ELSE older[f] \ {Active}]
      BY <1>8, <2>3, <3>1 DEF Write
    <3>3. \A f \in Archived : disk'[f] = disk[f]
      BY <3>2 DEF Archived
    <3>4. QED
      BY <1>0, <2>1, <3>1, <3>2, <3>3, TimesWritten
  <2>4. QED
    BY <2>2, <2>3
<1>9. CASE TimePasses
  <2>1. UNCHANGED <<disk, older, scenario, submitted>>
    BY <1>9 DEF TimePasses, io, files, others
  <2>2. QED
    BY <1>0, <2>1, TimesSame
<1>10. CASE Collect
  <2>1. UNCHANGED <<disk, older, scenario, submitted>>
    BY <1>10 DEF Collect, io, files, others
  <2>2. QED
    BY <1>0, <2>1, TimesSame
<1>11. CASE Crash
  <2>1. /\ UNCHANGED <<older, scenario>> /\ submitted' = {}
        /\ DOMAIN disk' = DOMAIN disk /\ \A f \in DOMAIN disk : disk'[f] \subseteq disk[f]
    BY <1>11 DEF Crash
  <2>2. \A f \in DOMAIN disk : older[f] \subseteq DOMAIN disk
    BY <1>0 DEF FilesOK
  <2>3. ASSUME ~scenario.gzip, NEW g \in Archived, NEW f \in older[g]
        PROVE  Before(disk'[f], disk'[g])
    <3>1. g \in DOMAIN disk /\ f \in DOMAIN disk /\ Before(disk[f], disk[g])
      BY <1>0, <2>2, <2>3 DEF TimesInv, Archived
    <3>2. QED
      BY <2>1, <3>1 DEF Before
  <2>4. Archived' = Archived
    BY <2>1 DEF Archived
  <2>5. QED
    BY <1>0, <2>1, <2>3, <2>4 DEF TimesInv
<1>12. ASSUME NEW t \in Threads, TakeName(t) PROVE TimesInv'
  <2>1. UNCHANGED <<disk, older, scenario, submitted>>
    BY <1>12 DEF TakeName, io, files, others
  <2>2. QED
    BY <1>0, <2>1, TimesSame
<1>13. ASSUME NEW t \in Threads, CloseLog(t) PROVE TimesInv'
  <2>1. UNCHANGED <<disk, older, scenario, submitted>>
    BY <1>13 DEF CloseLog, io, files, others
  <2>2. QED
    BY <1>0, <2>1, TimesSame
<1>14. ASSUME NEW t \in Threads, Move(t) PROVE TimesInv'
  <2> DEFINE to == target[t]
             D == NamesAfter(Active, to)
             W(f) == Was(Active, to, f)
  <2>1. /\ UNCHANGED <<scenario, submitted>> /\ Active \in DOMAIN disk /\ Rename(Active, to)
        /\ pc[t] = "move"
    BY <1>14 DEF Move, Exists, others
  <2>2. to \in Archives /\ to # Active /\ to \notin DOMAIN disk
    BY <1>0, <2>1, TargetArchive, TargetFree, Names
  <2>3. /\ DOMAIN disk' = D
        /\ \A f \in D : W(f) \in DOMAIN disk /\ disk'[f] = disk[W(f)]
        /\ \A f \in D : older'[f] \subseteq D
        /\ \A f, g \in D : f \in older'[g] <=> W(f) \in older[W(g)]
    BY <1>0, <2>1, <2>2, RenamedOlder
  <2>4. D = Archived \cup {to} /\ \A f : W(f) = IF f = to THEN Active ELSE f
    BY DEF NamesAfter, Was, Archived
  <2> HIDE DEF to, D, W
  <2>5. \A f, g, h \in DOMAIN disk' : f \in older'[g] /\ g \in older'[h] => f \in older'[h]
    BY <1>0, <2>3 DEF TimesInv
  <2>6. ASSUME ~scenario.gzip, NEW g \in Archived'
        PROVE  Active \notin older'[g] /\ \A f \in older'[g] : Before(disk'[f], disk'[g])
    <3>1. g \in D /\ g # Active /\ Active \notin D
      BY <2>2, <2>3, <2>4 DEF Archived
    <3>2. Active \notin older'[g]
      BY <2>3, <3>1
    <3>3. ASSUME NEW f \in older'[g] PROVE Before(disk'[f], disk'[g])
      <4>1. f \in D /\ W(f) \in older[W(g)] /\ disk'[f] = disk[W(f)] /\ disk'[g] = disk[W(g)]
        BY <2>3, <3>1, <3>3
      <4>2. CASE g = to
        <5>1. f # to
          BY <1>0, <2>1, <2>4, <4>1, <4>2 DEF FilesOK
        <5>2. f \in Archived /\ W(f) = f /\ W(g) = Active /\ Exists(Active)
          BY <2>1, <2>4, <4>1, <4>2, <5>1 DEF Exists
        <5>3. QED
          BY <1>0, <4>1, <5>2 DEF OrderInv
      <4>3. CASE g # to
        <5>1. g \in Archived /\ W(g) = g
          BY <2>4, <3>1, <4>3
        <5>2. QED
          BY <1>0, <2>6, <4>1, <5>1 DEF TimesInv
      <4>4. QED
        BY <4>2, <4>3
    <3>4. QED
      BY <3>2, <3>3
  <2>7. QED
    BY <1>0, <2>1, <2>5, <2>6 DEF TimesInv
<1>15. ASSUME NEW t \in Threads, MoveFails(t) PROVE TimesInv'
  <2>1. UNCHANGED <<disk, older, scenario, submitted>>
    BY <1>15 DEF MoveFails, io, files, others
  <2>2. QED
    BY <1>0, <2>1, TimesSame
<1>16. ASSUME NEW t \in Threads, Reopen(t) PROVE TimesInv'
  <2>1. UNCHANGED <<scenario, submitted>> /\ (UNCHANGED <<disk, older>> \/ OpenActive)
    BY <1>16 DEF Reopen, GiveUp, OpenFails, files, others
  <2>2. QED
    BY <1>0, <2>1, TimesSame, TimesOpened
<1>17. ASSUME NEW t \in Threads, CreateLog(t) PROVE TimesInv'
  <2>1. scenario' = scenario /\ OpenActive /\ (scenario.gzip \/ submitted' \subseteq submitted)
    BY <1>17 DEF CreateLog, others
  <2>2. QED
    BY <1>0, <2>1, TimesOpened
<1>18. ASSUME NEW t \in Threads, CreateFails(t) PROVE TimesInv'
  <2>1. UNCHANGED <<disk, older, scenario, submitted>>
    BY <1>18 DEF CreateFails, GiveUp, OpenFails, io, files, others
  <2>2. QED
    BY <1>0, <2>1, TimesSame
<1>19. ASSUME NEW t \in Threads, Retain(t) PROVE TimesInv'
  <2>1. UNCHANGED <<scenario, submitted>> /\ (UNCHANGED <<disk, older>> \/ RemoveFiles(Expired))
    BY <1>19 DEF Retain, ApplyRetention, files, others
  <2>2. QED
    BY <1>0, <2>1, TimesSame, TimesRemoved
<1>20. ASSUME NEW f \in submitted, Compress(f) PROVE TimesInv'
  <2> DEFINE gz == Gz(f[2], f[3])
  <2>1. scenario' = scenario /\ submitted' \subseteq submitted /\ scenario.gzip
    BY <1>0, <1>20 DEF Compress, TimesInv
  <2>2. CASE UNCHANGED <<disk, older>>
    BY <1>0, <2>1, <2>2, TimesSame
  <2>3. CASE f \in DOMAIN disk /\ gz \notin DOMAIN disk /\ disk' = Moved(f, gz)
             /\ older' = [g \in DOMAIN disk' |-> IF g = gz THEN DOMAIN disk \ {f} ELSE older[g] \ {f}]
    <3> HIDE DEF gz
    <3>1. DOMAIN disk' = (DOMAIN disk \ {f}) \cup {gz}
      BY <2>3 DEF Moved
    <3>2. \A g \in DOMAIN disk' : older'[g] = IF g = gz THEN DOMAIN disk \ {f} ELSE older[g] \ {f}
      BY <2>3
    <3>3. \A g \in DOMAIN disk : older[g] \subseteq DOMAIN disk
      BY <1>0 DEF FilesOK
    <3>4. \A g, h, i \in DOMAIN disk' : g \in older'[h] /\ h \in older'[i] => g \in older'[i]
      BY <1>0, <2>3, <3>1, <3>2, <3>3 DEF TimesInv
    <3>5. QED
      BY <2>1, <3>4 DEF TimesInv
  <2>4. QED
    BY <1>20, <2>2, <2>3 DEF Compress, Exists, files
<1>21. ASSUME NEW f \in candidates, Delete(f) PROVE TimesInv'
  <2>1. UNCHANGED <<scenario, submitted>> /\ RemoveFiles({f})
    BY <1>21 DEF Delete, others
  <2>2. QED
    BY <1>0, <2>1, TimesRemoved
<1>22. QED
  BY <1>1, <1>2, <1>3, <1>4, <1>5, <1>6, <1>7, <1>8, <1>9, <1>10, <1>11, <1>12, <1>13, <1>14, <1>15, <1>16, <1>17, <1>18, <1>19, <1>20, <1>21 DEF Next

----------------------------------------------------------------------------
(* The invariant                                                             *)

(* The types, but for the size. *)
LEMMA InitTypes ==
  ASSUME Init
  PROVE  FilesOK /\ CallsOK /\ SetsOK /\ NumbersOK
<1>1. FilesOK
  BY DEF Init, FilesOK
<1>2. CallsOK
  BY DEF Init, CallsOK, Threads
<1>3. SetsOK
  BY DEF Init, SetsOK
<1>4. NumbersOK
  BY Bounds DEF Init, NumbersOK
<1>5. QED
  BY <1>1, <1>2, <1>3, <1>4

(* The size is within its bound, as an implication. *)
LEMMA SizeWithin == SizeInv /\ NumbersOK => CurrentSize \in 0..MaxRecords
BY SizeBounded

(* The invariant holds where no file has been opened. *)
LEMMA InitHolds ==
  ASSUME OneCompletes, Init
  PROVE  IndInv
<1>0. /\ FilesOK /\ CallsOK /\ SetsOK /\ NumbersOK
      /\ DOMAIN disk = {} /\ scenario \in Scenarios /\ now = 1 /\ PeriodStart = 0
      /\ handle = Closed /\ queue = {} /\ gone = {} /\ dropped = {} /\ displayed = 0
      /\ CurrentSize = 0 /\ candidates = {} /\ submitted = {}
      /\ pc["display"] = "down" /\ pc["write"] = "idle"
      /\ batch["display"] = {} /\ batch["write"] = {}
      /\ pc = [display |-> "down", write |-> "idle"] /\ batch = [t \in Threads |-> {}]
  BY InitTypes DEF Init, Threads
<1>1. Memory = {} /\ OnDisk = {} /\ Archived = {} /\ 1..displayed = {}
  BY <1>0 DEF Memory, OnDisk, Records, Archived
<1>2. SizeInv
  <2>1. Cardinality({}) = 0
    BY FS_EmptySet
  <2>2. {} \in SUBSET (1..displayed) /\ Cardinality({}) = CurrentSize /\ {} \cap Memory = {}
    BY <1>0, <2>1
  <2>3. QED
    BY <2>2 DEF SizeInv
<1>3. TypeOK
  BY <1>0, <1>2, SizeBounded, TypeParts
<1>4. ControlInv
  BY <1>0 DEF ControlInv, OneCompletes, Threads, Completing, Writer
<1>5. HandleInv
  BY <1>0, Names DEF HandleInv
<1>6. CalmInv
  BY <1>0 DEF CalmInv
<1>7. PlacesInv
  BY <1>0, <1>1 DEF PlacesInv, FilesApart
<1>8. NamesInv
  BY <1>0, <1>1 DEF NamesInv, Threads, Completing
<1>9. OrderInv
  BY <1>0, <1>1 DEF OrderInv, ArchivesInOrder, Archived, Before
<1>10. TimesInv
  BY <1>0, <1>1 DEF TimesInv
<1>11. QED
  BY <1>2, <1>3, <1>4, <1>5, <1>6, <1>7, <1>8, <1>9, <1>10 DEF IndInv

(* Nothing of the invariant changes where no variable does. *)
LEMMA Stutters ==
  ASSUME IndInv, UNCHANGED vars
  PROVE  IndInv'
<1>1. /\ UNCHANGED <<scenario, now, disk, older, handle, PeriodStart, ArchiveTime, ArchiveIndex,
                     CurrentSize, registered, queue, pc, batch, target, after, submitted>>
      /\ UNCHANGED <<candidates, displayed, gone, dropped, openFailed, failures, crashes,
                     monitors>>
  BY DEF vars, io, files, policy, calls, others, records, counts
<1>2. /\ Memory' = Memory /\ OnDisk' = OnDisk /\ Archived' = Archived /\ Writer' = Writer
      /\ CurrentArchiveTime' = CurrentArchiveTime /\ (Exists(Active)' <=> Exists(Active))
  BY <1>1 DEF Memory, OnDisk, Records, Archived, Writer, CurrentArchiveTime, Exists
<1>3. TypeOK'
  BY <1>1 DEF IndInv, TypeOK
<1>4. ControlInv' /\ HandleInv' /\ CalmInv'
  BY <1>1, <1>2 DEF IndInv, ControlInv, HandleInv, CalmInv
<1>5. PlacesInv' /\ SizeInv'
  BY <1>1, <1>2 DEF IndInv, PlacesInv, FilesApart, SizeInv
<1>6. NamesInv'
  BY <1>1, <1>2 DEF IndInv, NamesInv
<1>7. OrderInv' /\ TimesInv'
  BY <1>1, <1>2 DEF IndInv, OrderInv, ArchivesInOrder, TimesInv
<1>8. QED
  BY <1>3, <1>4, <1>5, <1>6, <1>7 DEF IndInv

(* Every step keeps the invariant. *)
LEMMA NextHolds == IndInv /\ [Next]_vars => IndInv'
<1>1. ASSUME IndInv, Next PROVE IndInv'
  <2>1. SizeInv' /\ NumbersOK'
    BY <1>1, SizeKept, NumbersKept
  <2>2. SizeInv' /\ NumbersOK' => (CurrentSize \in 0..MaxRecords)'
    BY SizeWithin, PTL
  <2>3. FilesOK' /\ CallsOK' /\ SetsOK'
    BY <1>1, FilesKept, CallsKept, SetsKept
  <2>4. TypeOK'
    BY <2>1, <2>2, <2>3 DEF TypeOK, FilesOK, CallsOK, SetsOK, NumbersOK
  <2>5. ControlInv' /\ HandleInv' /\ CalmInv'
    BY <1>1, ControlKept, HandleKept, CalmKept
  <2>6. PlacesInv' /\ NamesInv' /\ OrderInv' /\ TimesInv'
    BY <1>1, PlacesKept, NamesKept, OrderKept, TimesKept
  <2>7. QED
    BY <2>1, <2>4, <2>5, <2>6 DEF IndInv
<1>2. QED
  BY <1>1, Stutters

(* The invariant holds in every state, if one thread completes files. *)
THEOREM RotationInvariance ==
  ASSUME OneCompletes
  PROVE  Spec => []IndInv
<1>1. Init => IndInv
  BY InitHolds
<1>2. IndInv /\ [Next]_vars => IndInv'
  BY NextHolds
<1>3. QED
  BY <1>1, <1>2, PTL DEF Spec

----------------------------------------------------------------------------
(* What the invariant says of the records, the open file and the archives    *)

(* Where a record is: in a file, with a thread, or elsewhere. *)
FilesOf(r)     == {f \in DOMAIN disk : r \in disk[f]}
BatchesOf(r)   == {<<"batch", t, 0>> : t \in {u \in Threads : r \in batch[u]}}
ElsewhereOf(r) ==
  {x \in {<<"queue", queue>>, <<"gone", gone>>, <<"dropped", dropped>>} : r \in x[2]}

(* A record that is in a file is in no other one. *)
LEMMA OneFile ==
  ASSUME PlacesInv, NEW r \in OnDisk
  PROVE  \E x : FilesOf(r) = {x}
<1>1. PICK f \in DOMAIN disk : r \in disk[f]
  BY DEF OnDisk, Records
<1>2. \A g \in DOMAIN disk : r \in disk[g] => g = f
  BY <1>1 DEF PlacesInv, FilesApart
<1>3. FilesOf(r) = {f}
  BY <1>1, <1>2 DEF FilesOf
<1>4. QED
  BY <1>3

(* And with no thread and nowhere else. *)
LEMMA NotInFile ==
  ASSUME NEW r, r \notin OnDisk
  PROVE  FilesOf(r) = {}
BY DEF OnDisk, Records, FilesOf

(* What a record that is with a thread has to do with the others. *)
LEMMA BatchesIs ==
  ASSUME NEW r
  PROVE  /\ r \in batch["write"] /\ r \notin batch["display"] =>
              BatchesOf(r) = {<<"batch", "write", 0>>}
         /\ r \in batch["display"] /\ r \notin batch["write"] =>
              BatchesOf(r) = {<<"batch", "display", 0>>}
         /\ r \notin batch["display"] /\ r \notin batch["write"] => BatchesOf(r) = {}
BY DEF BatchesOf, Threads

(* And one that is elsewhere. *)
LEMMA ElsewhereIs ==
  ASSUME NEW r
  PROVE  /\ r \in queue /\ r \notin gone /\ r \notin dropped =>
              ElsewhereOf(r) = {<<"queue", queue>>}
         /\ r \in gone /\ r \notin queue /\ r \notin dropped => ElsewhereOf(r) = {<<"gone", gone>>}
         /\ r \in dropped /\ r \notin queue /\ r \notin gone =>
              ElsewhereOf(r) = {<<"dropped", dropped>>}
         /\ r \notin queue /\ r \notin gone /\ r \notin dropped => ElsewhereOf(r) = {}
BY DEF ElsewhereOf

(* Each record is in one place. *)
LEMMA PlacesCounted ==
  ASSUME PlacesInv, NEW r \in 1..displayed
  PROVE  Cardinality(FilesOf(r) \cup BatchesOf(r)) + Cardinality(ElsewhereOf(r)) = 1
<1>0. /\ r \in batch["write"] => r \notin queue /\ r \notin batch["display"]
      /\ r \in queue => r \notin batch["display"]
      /\ r \in Memory <=> r \in batch["write"] \/ r \in queue \/ r \in batch["display"]
      /\ r \in Memory => r \notin OnDisk /\ r \notin gone /\ r \notin dropped
      /\ r \in OnDisk => r \notin gone /\ r \notin dropped
      /\ r \in gone => r \notin dropped
      /\ r \in Memory \/ r \in OnDisk \/ r \in gone \/ r \in dropped
  BY DEF PlacesInv, Memory
<1>1. \/ (\E x : FilesOf(r) \cup BatchesOf(r) = {x}) /\ ElsewhereOf(r) = {}
      \/ FilesOf(r) \cup BatchesOf(r) = {} /\ \E x : ElsewhereOf(r) = {x}
  <2>1. CASE r \in OnDisk
    <3>1. \E x : FilesOf(r) = {x}
      BY <2>1, OneFile
    <3>2. BatchesOf(r) = {} /\ ElsewhereOf(r) = {}
      BY <1>0, <2>1, BatchesIs, ElsewhereIs
    <3>3. QED
      BY <3>1, <3>2
  <2>2. CASE r \notin OnDisk
    <3>1. FilesOf(r) = {}
      BY <2>2, NotInFile
    <3>2. CASE r \in batch["write"] \/ r \in batch["display"]
      <4>1. ElsewhereOf(r) = {}
        BY <1>0, <3>2, ElsewhereIs
      <4>2. \E x : BatchesOf(r) = {x}
        BY <1>0, <3>2, BatchesIs
      <4>3. QED
        BY <3>1, <4>1, <4>2
    <3>3. CASE r \notin batch["write"] /\ r \notin batch["display"]
      <4>1. BatchesOf(r) = {}
        BY <3>3, BatchesIs
      <4>2. \E x : ElsewhereOf(r) = {x}
        BY <1>0, <2>2, <3>3, ElsewhereIs
      <4>3. QED
        BY <3>1, <4>1, <4>2
    <3>4. QED
      BY <3>2, <3>3
  <2>3. QED
    BY <2>1, <2>2
<1>2. Cardinality({}) = 0 /\ \A x : Cardinality({x}) = 1
  BY FS_EmptySet, FS_Singleton
<1>3. \/ Cardinality(FilesOf(r) \cup BatchesOf(r)) = 1 /\ Cardinality(ElsewhereOf(r)) = 0
      \/ Cardinality(FilesOf(r) \cup BatchesOf(r)) = 0 /\ Cardinality(ElsewhereOf(r)) = 1
  BY <1>1, <1>2, Zenon
<1>4. QED
  BY <1>3

(* The types; a record is in one place and only one; a synchronous backend    *)
(* drops none without a failure or the watchdog (CompleteCurrentFile,         *)
(* ApplySizeLimit, WriteReadyData).                                           *)
THEOREM RecordsAreKept ==
  ASSUME OneCompletes
  PROVE  Spec => []RecordsKept
<1>1. IndInv => RecordsKept
  <2> SUFFICES ASSUME IndInv PROVE RecordsKept
    OBVIOUS
  <2>1. TypeOK /\ PlacesInv /\ (failures = 0 /\ monitors = 0 /\ ~scenario.async => dropped = {})
    BY DEF IndInv, CalmInv
  <2>2. \A r \in 1..displayed :
          Cardinality(FilesOf(r) \cup BatchesOf(r)) + Cardinality(ElsewhereOf(r)) = 1
    BY <2>1, PlacesCounted
  <2>3. QED
    BY <2>1, <2>2 DEF RecordsKept, FilesOf, BatchesOf, ElsewhereOf
<1>2. QED
  BY <1>1, RotationInvariance, PTL

(* A completion that failed leaves the backend with an open file, unless      *)
(* opening one failed (reopenCurrentLog in CompleteCurrentFile).              *)
THEOREM FileIsKeptOpen ==
  ASSUME OneCompletes
  PROVE  Spec => []KeepsOpen
<1>1. IndInv => KeepsOpen
  BY DEF IndInv, HandleInv, KeepsOpen, Threads, Writer
<1>2. QED
  BY <1>1, RotationInvariance, PTL

(* The archives' indexes and periods are in the order of what they hold       *)
(* (RecoverIndex, TakeName).                                                  *)
THEOREM ArchivesAreInOrder ==
  ASSUME OneCompletes
  PROVE  Spec => []ArchivesInOrder
<1>1. IndInv => ArchivesInOrder
  BY DEF IndInv, OrderInv
<1>2. QED
  BY <1>1, RotationInvariance, PTL

----------------------------------------------------------------------------
(* What retention leaves                                                     *)

(* There are finitely many files. *)
LEMMA FewFiles ==
  ASSUME FilesOK
  PROVE  /\ IsFiniteSet(DOMAIN disk) /\ IsFiniteSet(Archived)
         /\ Cardinality(DOMAIN disk) \in Nat /\ Cardinality(Archived) \in Nat
         /\ Cardinality(DOMAIN disk) =
              IF Exists(Active) THEN Cardinality(Archived) + 1 ELSE Cardinality(Archived)
<1> DEFINE P == (0..MaxTime) \X (1..MaxIndex)
           T == {"log", "gz"} \X P
           F == [f \in Archives |-> <<f[1], <<f[2], f[3]>>>>]
<1>1. IsFiniteSet(0..MaxTime) /\ IsFiniteSet(1..MaxIndex) /\ IsFiniteSet({"log", "gz"})
  <2>1. IsFiniteSet(0..MaxTime) /\ IsFiniteSet(1..MaxIndex)
    BY Bounds, FS_Interval
  <2>2. IsFiniteSet({"log"} \cup {"gz"})
    BY FS_Singleton, FS_Union
  <2>3. {"log"} \cup {"gz"} = {"log", "gz"}
    OBVIOUS
  <2>4. QED
    BY <2>1, <2>2, <2>3
<1>2. IsFiniteSet(T)
  <2>1. IsFiniteSet(P)
    BY <1>1, FS_Product
  <2> HIDE DEF P
  <2>2. QED
    BY <1>1, <2>1, FS_Product
<1>3. F \in Injection(Archives, T)
  <2>1. F \in [Archives -> T]
    BY DEF Archives
  <2>2. ASSUME NEW f \in Archives, NEW g \in Archives, F[f] = F[g] PROVE f = g
    <3>1. f[1] = g[1] /\ f[2] = g[2] /\ f[3] = g[3]
      BY <2>2
    <3>2. f = <<f[1], f[2], f[3]>> /\ g = <<g[1], g[2], g[3]>>
      BY DEF Archives
    <3>3. QED
      BY <3>1, <3>2
  <2> HIDE DEF F, T
  <2>3. QED
    BY <2>1, <2>2, Fun_IsInj
<1> HIDE DEF F, T
<1>4. IsFiniteSet(Archives)
  BY <1>2, <1>3, FS_Injection
<1>5. Archived \subseteq Archives
  BY DEF FilesOK, Archived
<1>6. IsFiniteSet(Archived) /\ Cardinality(Archived) \in Nat
  BY <1>4, <1>5, FS_Subset, FS_CardinalityType
<1>7. CASE Exists(Active)
  <2>1. DOMAIN disk = Archived \cup {Active} /\ Active \notin Archived
    BY <1>7 DEF Archived, Exists
  <2>2. IsFiniteSet(DOMAIN disk) /\ Cardinality(DOMAIN disk) = Cardinality(Archived) + 1
    BY <1>6, <2>1, FS_AddElement
  <2>3. QED
    BY <1>6, <1>7, <2>2
<1>8. CASE ~Exists(Active)
  <2>1. DOMAIN disk = Archived
    BY <1>8 DEF Archived, Exists
  <2>2. QED
    BY <1>6, <1>8, <2>1
<1>9. QED
  BY <1>7, <1>8

(* The number of the archives that are older. *)
Older(f) == older[f] \cap Archived
Rank(f)  == Cardinality(Older(f))

(* An older one has fewer that are older. *)
LEMMA RankGrows ==
  ASSUME FilesOK, TimesInv, NEW f \in Archived, NEW g \in Archived, f \in older[g]
  PROVE  Rank(f) < Rank(g)
<1>1. Older(f) \subseteq Older(g) /\ f \in Older(g) /\ f \notin Older(f)
  BY DEF FilesOK, TimesInv, Archived, Older
<1>2. IsFiniteSet(Older(g)) /\ Rank(g) \in Nat
  BY FewFiles, FS_Subset, FS_CardinalityType DEF Older, Rank
<1>3. Rank(f) <= Rank(g) /\ Rank(f) # Rank(g) /\ Rank(f) \in Nat
  BY <1>1, <1>2, FS_Subset, FS_CardinalityType DEF Rank
<1>4. QED
  BY <1>2, <1>3

(* The ranks are numbers less than that of the archives, and each has its own. *)
LEMMA Ranks ==
  ASSUME FilesOK, TimesInv
  PROVE  /\ \A f \in Archived : Rank(f) \in 0..(Cardinality(Archived) - 1)
         /\ \A f, g \in Archived : Rank(f) = Rank(g) => f = g
<1>1. ASSUME NEW f \in Archived PROVE Rank(f) \in 0..(Cardinality(Archived) - 1)
  <2>1. Older(f) \subseteq Archived \ {f}
    BY DEF FilesOK, Archived, Older
  <2>2. IsFiniteSet(Archived \ {f}) /\ Cardinality(Archived \ {f}) = Cardinality(Archived) - 1
    BY FewFiles, FS_RemoveElement
  <2>3. Rank(f) <= Cardinality(Archived) - 1 /\ Rank(f) \in Nat
    BY <2>1, <2>2, FS_Subset, FS_CardinalityType DEF Rank
  <2>4. QED
    BY <2>3, FewFiles
<1>2. ASSUME NEW f \in Archived, NEW g \in Archived, Rank(f) = Rank(g) PROVE f = g
  <2>1. f = g \/ f \in older[g] \/ g \in older[f]
    BY DEF FilesOK, Archived
  <2>2. Rank(f) \in Int /\ Rank(g) \in Int
    BY <1>1
  <2>3. QED
    BY <1>2, <2>1, <2>2, RankGrows
<1>3. QED
  BY <1>1, <1>2

(* There are at most as many archives as ranks from k on. *)
LEMMA FewNewer ==
  ASSUME FilesOK, TimesInv, NEW k \in Nat, k <= Cardinality(Archived)
  PROVE  Cardinality({f \in Archived : Rank(f) >= k}) <= Cardinality(Archived) - k
<1> DEFINE S == {f \in Archived : Rank(f) >= k}
           T == k..(Cardinality(Archived) - 1)
           F == [f \in S |-> Rank(f)]
<1>1. \A f \in S : Rank(f) \in T
  BY Ranks, FewFiles
<1>2. F \in Injection(S, T)
  <2>1. F \in [S -> T]
    BY <1>1
  <2>2. \A f, g \in S : F[f] = F[g] => f = g
    BY Ranks
  <2> HIDE DEF F, S, T
  <2>3. QED
    BY <2>1, <2>2, Fun_IsInj
<1>3. IsFiniteSet(T) /\ Cardinality(T) = Cardinality(Archived) - k
  <2>1. k \in Int /\ Cardinality(Archived) - 1 \in Int
    BY FewFiles
  <2>2. IsFiniteSet(T) /\ Cardinality(T) = IF k > Cardinality(Archived) - 1 THEN 0
                                           ELSE Cardinality(Archived) - 1 - k + 1
    BY <2>1, FS_Interval
  <2>3. QED
    BY <2>2, FewFiles
<1> HIDE DEF F, T
<1>4. Cardinality(S) <= Cardinality(T)
  BY <1>2, <1>3, FS_Injection
<1>5. QED
  BY <1>3, <1>4

(* Retention leaves no more files than there may be. *)
LEMMA FewFilesLeft ==
  ASSUME FilesOK, TimesInv, NumbersOK, ApplyRetention, scenario.parts > 0
  PROVE  Cardinality(DOMAIN disk') <= scenario.parts
<1> DEFINE N == Cardinality(DOMAIN disk)
           A == Cardinality(Archived)
           k == N - scenario.parts
           L == {f \in Archived : Rank(f) >= k}
<1>0. /\ scenario.parts \in Nat /\ N \in Nat /\ A \in Nat
      /\ N = IF Exists(Active) THEN A + 1 ELSE A
  BY RotationAssumption, FewFiles DEF NumbersOK
<1>1. Expired = {f \in Archived : Rank(f) < k} /\ DOMAIN disk' = DOMAIN disk \ Expired
  BY DEF Expired, Archived, Rank, Older, ApplyRetention, RemoveFiles
<1>2. CASE k < 0
  <2>1. IsFiniteSet(DOMAIN disk) /\ DOMAIN disk' \subseteq DOMAIN disk
    BY <1>1, FewFiles
  <2>2. Cardinality(DOMAIN disk') <= N /\ Cardinality(DOMAIN disk') \in Nat
    BY <2>1, FS_Subset, FS_CardinalityType
  <2> HIDE DEF N
  <2>3. QED
    BY <1>0, <1>2, <2>2
<1>3. CASE k >= 0
  <2>1. k \in Nat /\ k <= A
    <3> HIDE DEF N, A
    <3>1. QED
      BY <1>0, <1>3
  <2>2. Cardinality(L) <= A - k
    <3> HIDE DEF k
    <3>1. QED
      BY <2>1, FewNewer
  <2>3. IsFiniteSet(L) /\ Cardinality(L) \in Nat
    BY FewFiles, FS_Subset, FS_CardinalityType
  <2>4. \A f \in Archived : ~(Rank(f) < k) <=> Rank(f) >= k
    <3>1. \A f \in Archived : Rank(f) \in Int
      BY Ranks
    <3>2. k \in Int
      BY <2>1
    <3> HIDE DEF k
    <3>3. QED
      BY <3>1, <3>2
  <2>5. CASE Exists(Active)
    <3>1. DOMAIN disk' = L \cup {Active} /\ Active \notin L
      BY <1>1, <2>4, <2>5 DEF Archived, Exists
    <3>2. Cardinality(DOMAIN disk') = Cardinality(L) + 1
      BY <2>3, <3>1, FS_AddElement
    <3> HIDE DEF N, A, L
    <3>3. QED
      BY <1>0, <2>2, <2>3, <2>5, <3>2
  <2>6. CASE ~Exists(Active)
    <3>1. DOMAIN disk' = L
      BY <1>1, <2>4, <2>6 DEF Archived, Exists
    <3> HIDE DEF N, A, L
    <3>2. QED
      BY <1>0, <2>2, <2>3, <2>6, <3>1
  <2>7. QED
    BY <2>5, <2>6
<1>4. QED
  <2> HIDE DEF N
  <2>1. k \in Int
    BY <1>0
  <2> HIDE DEF k
  <2>2. QED
    BY <1>2, <1>3, <2>1

(* And what it removes is older than what it leaves. *)
LEMMA NewestLeft ==
  ASSUME FilesOK, TimesInv, ApplyRetention, ~scenario.gzip,
         NEW r \in gone' \ gone, NEW g \in DOMAIN disk' \ {Active}, NEW q \in disk'[g],
         NumbersOK
  PROVE  r < q
<1> DEFINE k == Cardinality(DOMAIN disk) - scenario.parts
<1>0. k \in Int
  BY RotationAssumption, FewFiles DEF NumbersOK
<1>1. /\ Expired = {f \in Archived : scenario.parts > 0 /\ Rank(f) < k}
      /\ DOMAIN disk' = DOMAIN disk \ Expired /\ disk'[g] = disk[g]
      /\ gone' = gone \cup Records(Expired)
  BY DEF Expired, Archived, Rank, Older, ApplyRetention, RemoveFiles
<1>2. PICK f \in Expired : f \in DOMAIN disk /\ r \in disk[f]
  BY <1>1 DEF Records
<1>3. f \in Archived /\ Rank(f) < k /\ scenario.parts > 0
  BY <1>1, <1>2
<1>4. g \in Archived /\ g \notin Expired
  BY <1>1 DEF Archived
<1>5. ~(Rank(g) < k)
  BY <1>1, <1>3, <1>4
<1>6. Rank(f) \in Int /\ Rank(g) \in Int
  BY <1>3, <1>4, Ranks
<1> HIDE DEF k
<1>7. f # g /\ g \notin older[f]
  <2>1. Rank(f) < Rank(g)
    BY <1>0, <1>3, <1>5, <1>6
  <2>2. ASSUME g \in older[f] PROVE FALSE
    <3>1. Rank(g) < Rank(f)
      BY <1>3, <1>4, <2>2, RankGrows
    <3>2. QED
      BY <1>6, <2>1, <3>1
  <2>3. QED
    BY <1>6, <2>1, <2>2
<1>8. f \in older[g]
  BY <1>3, <1>4, <1>7 DEF FilesOK, Archived
<1>9. Before(disk[f], disk[g])
  BY <1>4, <1>8 DEF TimesInv
<1>10. QED
  BY <1>1, <1>2, <1>9 DEF Before

(* Retention leaves no more archives than it allows. *)
LEMMA FewArchivesLeft ==
  ASSUME FilesOK, TimesInv, NumbersOK, ApplyRetention, scenario.parts > 0
  PROVE  Cardinality(DOMAIN disk' \ {Active}) <= scenario.parts
<1> DEFINE D == DOMAIN disk'
           A == D \ {Active}
<1>1. IsFiniteSet(D) /\ A \subseteq D
  <2>1. D = DOMAIN disk \ Expired
    BY DEF ApplyRetention, RemoveFiles
  <2>2. IsFiniteSet(DOMAIN disk) /\ D \subseteq DOMAIN disk
    BY <2>1, FewFiles
  <2> HIDE DEF D
  <2>3. QED
    BY <2>2, FS_Subset
<1>2. Cardinality(D) <= scenario.parts
  BY FewFilesLeft
<1>3. scenario.parts \in Nat
  BY RotationAssumption DEF NumbersOK
<1> HIDE DEF D, A
<1>4. Cardinality(A) <= Cardinality(D) /\ Cardinality(A) \in Nat /\ Cardinality(D) \in Nat
  BY <1>1, FS_Subset, FS_CardinalityType
<1>5. Cardinality(A) <= scenario.parts
  BY <1>2, <1>3, <1>4
<1>6. QED
  BY <1>5 DEF A, D

(* There are at most as many archives as ranks below k. *)
LEMMA FewOlder ==
  ASSUME FilesOK, TimesInv, NEW k \in Nat
  PROVE  Cardinality({f \in Archived : Rank(f) < k}) <= k
<1> DEFINE S == {f \in Archived : Rank(f) < k}
           T == 0..(k - 1)
           F == [f \in S |-> Rank(f)]
<1>1. \A f \in S : Rank(f) \in T
  BY Ranks, FewFiles
<1>2. F \in Injection(S, T)
  <2>1. F \in [S -> T]
    BY <1>1
  <2>2. \A f, g \in S : F[f] = F[g] => f = g
    BY Ranks
  <2> HIDE DEF F, S, T
  <2>3. QED
    BY <2>1, <2>2, Fun_IsInj
<1>3. IsFiniteSet(T) /\ Cardinality(T) = k
  BY FS_Interval
<1> HIDE DEF F, T
<1>4. Cardinality(S) <= Cardinality(T)
  BY <1>2, <1>3, FS_Injection
<1>5. QED
  BY <1>3, <1>4

(* Retention deletes nothing, or leaves as many archives as it allows but one. *)
LEMMA EnoughArchivesLeft ==
  ASSUME FilesOK, TimesInv, NumbersOK, ApplyRetention, scenario.parts > 0
  PROVE  \/ DOMAIN disk' = DOMAIN disk
         \/ Cardinality(DOMAIN disk' \ {Active}) >= scenario.parts - 1
<1> DEFINE D == DOMAIN disk
           N == Cardinality(D)
           k == N - scenario.parts
           E == {f \in Archived : Rank(f) < k}
<1>0. scenario.parts \in Nat /\ N \in Nat /\ IsFiniteSet(D)
  BY RotationAssumption, FewFiles, FS_CardinalityType DEF NumbersOK
<1>1. DOMAIN disk' = D \ E
  BY DEF Expired, Archived, Rank, Older, ApplyRetention, RemoveFiles
<1>2. k \in Int
  BY <1>0
<1>3. CASE k <= 0
  <2>1. \A f \in Archived : Rank(f) \in Nat
    BY Ranks, FewFiles
  <2> HIDE DEF k
  <2>2. E = {}
    BY <1>2, <1>3, <2>1
  <2>3. QED
    BY <1>1, <2>2
<1>4. CASE k > 0
  <2>1. Cardinality(E) <= k
    <3>1. k \in Nat
      BY <1>2, <1>4
    <3> HIDE DEF k
    <3>2. QED
      BY <3>1, FewOlder
  <2>2. E \subseteq D
    BY DEF Archived
  <2> DEFINE R == D \ E
  <2> HIDE DEF D, E, k, N
  <2>3. IsFiniteSet(E) /\ IsFiniteSet(R) /\ Cardinality(E) \in Nat /\ Cardinality(R) \in Nat
    BY <1>0, <2>2, FS_Subset, FS_CardinalityType
  <2>4. Cardinality(R) = N - Cardinality(E)
    <3>1. E \cap D = E /\ D \cap E = E
      BY <2>2
    <3>2. Cardinality(R) = Cardinality(D) - Cardinality(D \cap E)
      BY <1>0, <2>3, FS_Difference
    <3>3. QED
      BY <3>1, <3>2 DEF N
  <2>5. Cardinality(R) >= scenario.parts
    BY <1>0, <1>2, <2>1, <2>3, <2>4 DEF k
  <2> HIDE DEF R
  <2>6. /\ IsFiniteSet(R \ {Active})
        /\ Cardinality(R \ {Active}) \in Nat
        /\ Cardinality(R \ {Active}) >= Cardinality(R) - 1
    <3>1. /\ IsFiniteSet(R \ {Active})
          /\ Cardinality(R \ {Active})
               = IF Active \in R THEN Cardinality(R) - 1 ELSE Cardinality(R)
      BY <2>3, FS_RemoveElement
    <3>2. Cardinality(R \ {Active}) \in Nat
      BY <3>1, FS_CardinalityType
    <3>3. QED
      BY <2>3, <3>1, <3>2
  <2>7. Cardinality(R \ {Active}) >= scenario.parts - 1
    BY <1>0, <2>3, <2>5, <2>6
  <2>8. QED
    BY <1>1, <2>7 DEF R
<1>5. QED
  <2> HIDE DEF k
  <2>1. QED
    BY <1>2, <1>3, <1>4

(* When retention has run there are no more archives than it allows; it has    *)
(* deleted one only if as many as it allows but one are left, the active file  *)
(* being counted; and what it has removed is older than what it has left,      *)
(* where no compression changes the times of the files (ApplyMaxFiles).       *)
THEOREM NewestAreRetained ==
  ASSUME OneCompletes
  PROVE  Spec => RetainsNewest
<1> DEFINE Leaves ==
             /\ Cardinality(DOMAIN disk' \ {Active}) <= scenario.parts
             /\ \/ DOMAIN disk' = DOMAIN disk
                \/ Cardinality(DOMAIN disk' \ {Active}) >= scenario.parts - 1
             /\ ~scenario.gzip =>
                  \A r \in gone' \ gone, q \in UNION {disk'[f] : f \in DOMAIN disk' \ {Active}} :
                    r < q
<1>1. IndInv /\ [Next]_vars => [Retains => Leaves]_vars
  <2> SUFFICES ASSUME IndInv, Retains PROVE Leaves
    OBVIOUS
  <2>1. FilesOK /\ NumbersOK /\ TimesInv
    BY TypeParts DEF IndInv
  <2>2. ApplyRetention /\ scenario.parts > 0
    BY DEF Retains, Retain, CleanOnStart
  <2>3. QED
    BY <2>1, <2>2, FewArchivesLeft, EnoughArchivesLeft, NewestLeft
<1>2. QED
  <2>1. Spec => []IndInv
    BY RotationInvariance
  <2>2. QED
    BY <1>1, <2>1, PTL DEF Spec, RetainsNewest

(* Where one thread completes files, no archive is moved onto another one     *)
(* (TakeName; with two threads it is: RotationTwoThreads).                    *)
THEOREM OneThreadNeverCollides ==
  ASSUME OneCompletes
  PROVE  Spec => NoCollision
<1>1. IndInv /\ [Next]_vars => [\A t \in Threads : Move(t) => ~Exists(target[t])]_vars
  <2> SUFFICES ASSUME IndInv, NEW t \in Threads, Move(t) PROVE ~Exists(target[t])
    OBVIOUS
  <2>1. FilesOK /\ CallsOK /\ NumbersOK /\ NamesInv /\ ControlInv
    BY TypeParts DEF IndInv
  <2>2. pc[t] = "move"
    BY DEF Move
  <2>3. QED
    BY <2>1, <2>2, TargetFree DEF Exists
<1>2. QED
  <2>1. Spec => []IndInv
    BY RotationInvariance
  <2>2. QED
    BY <1>1, <2>1, PTL DEF Spec, NoCollision

----------------------------------------------------------------------------
(* The compression manager                                                   *)

(* The worker says so when it has gone, and has a file only while it          *)
(* compresses one.                                                          *)
WorkerKnown ==
  /\ Stopped <=> worker \in {"none", "exited"}
  /\ compressing # 0 <=> worker = "compress"
  /\ worker = "leave" => ToSet(Queue) \subseteq late

(* The files on their way to the queue. *)
FilesNew ==
  /\ \A u \in Users : at[u] \in {"join", "joining", "count", "enqueue"} <=>
     file[u] # 0
  /\ \A u \in Users : file[u] \notin accepted
  /\ \A u, v \in Users : file[u] = file[v] /\ file[u] # 0 => u = v

CompressionInv ==
  /\ CompressionTypeOK
  /\ WorkerKnown
  /\ FilesNew
  /\ FilesConserved
  /\ LeftOnlyWhileLeaving

----------------------------------------------------------------------------
(* Facts about queues whose elements differ.                                 *)

(* An element that is not in the queue is appended. *)
LEMMA AppendToQueue ==
  ASSUME NEW S, NEW q \in Seq(S), NEW e \in S, IsInjective(q), e \notin ToSet(q)
  PROVE  /\ Append(q, e) \in Seq(S)
         /\ IsInjective(Append(q, e))
         /\ ToSet(Append(q, e)) = ToSet(q) \cup {e}
<1> DEFINE s == Append(q, e)
<1>1. /\ s \in Seq(S) /\ Len(q) \in Nat
      /\ DOMAIN q = 1..Len(q) /\ DOMAIN s = 1..(Len(q) + 1)
      /\ \A i \in 1..Len(q) : s[i] = q[i]
      /\ s[Len(q) + 1] = e
  BY AppendProperties, LenProperties
<1>2. DOMAIN s = DOMAIN q \cup {Len(q) + 1} /\ Len(q) + 1 \notin DOMAIN q
  BY <1>1
<1> HIDE DEF s
<1>3. IsInjective(s)
  BY <1>1, <1>2 DEF IsInjective, ToSet
<1>4. ToSet(s) = ToSet(q) \cup {e}
  <2>1. \A i \in DOMAIN q : i \in DOMAIN s /\ s[i] = q[i]
    BY <1>1, <1>2
  <2>2. Len(q) + 1 \in DOMAIN s /\ s[Len(q) + 1] = e
    BY <1>1, <1>2
  <2>3. \A i \in DOMAIN s : i \in DOMAIN q \/ i = Len(q) + 1
    BY <1>2
  <2>4. ToSet(q) \cup {e} \subseteq ToSet(s)
    BY <2>1, <2>2 DEF ToSet
  <2>5. ToSet(s) \subseteq ToSet(q) \cup {e}
    BY <2>1, <2>2, <2>3 DEF ToSet
  <2>6. QED
    BY <2>4, <2>5
<1>5. QED
  BY <1>1, <1>3, <1>4 DEF s

(* What is in a queue is of its elements. *)
LEMMA SeqRange ==
  ASSUME NEW S, NEW q \in Seq(S)
  PROVE  ToSet(q) \subseteq S
BY LenProperties, ElementOfSeq DEF ToSet

(* More files are allowed to be in the same queue. *)
LEMMA SeqOfMore ==
  ASSUME NEW S, NEW T, S \subseteq T, NEW q \in Seq(S)
  PROVE  q \in Seq(T)
<1>1. q \in [1..Len(q) -> T] /\ Len(q) \in Nat
  BY LenProperties
<1>2. QED
  BY <1>1, SeqDef

(* The first element is taken, and is not in the rest. *)
LEMMA TakeFromQueue ==
  ASSUME NEW S, NEW q \in Seq(S), q # <<>>, IsInjective(q)
  PROVE  /\ Head(q) \in S
         /\ Tail(q) \in Seq(S)
         /\ IsInjective(Tail(q))
         /\ ToSet(q) = ToSet(Tail(q)) \cup {Head(q)}
         /\ Head(q) \notin ToSet(Tail(q))
<1> DEFINE s == Tail(q)
<1>1. /\ s \in Seq(S) /\ Len(q) \in Nat /\ Len(q) >= 1
      /\ DOMAIN q = 1..Len(q) /\ DOMAIN s = 1..(Len(q) - 1)
      /\ \A i \in 1..(Len(q) - 1) : s[i] = q[i + 1]
      /\ Head(q) = q[1] /\ q[1] \in S
  BY HeadTailProperties, LenProperties, EmptySeq, ElementOfSeq
<1> HIDE DEF s
<1>2. \A i \in DOMAIN s : i + 1 \in DOMAIN q /\ i + 1 # 1 /\ s[i] = q[i + 1]
  BY <1>1
<1>3. \A j \in DOMAIN q : j = 1 \/ (j - 1 \in DOMAIN s /\ s[j - 1] = q[j])
  BY <1>1
<1>4. IsInjective(s)
  BY <1>1, <1>2 DEF IsInjective
<1>5. ToSet(q) = ToSet(s) \cup {q[1]}
  <2>1. 1 \in DOMAIN q
    BY <1>1
  <2>2. ToSet(s) \cup {q[1]} \subseteq ToSet(q)
    BY <1>2, <2>1 DEF ToSet
  <2>3. ToSet(q) \subseteq ToSet(s) \cup {q[1]}
    BY <1>2, <1>3 DEF ToSet
  <2>4. QED
    BY <2>2, <2>3
<1>6. q[1] \notin ToSet(s)
  <2> SUFFICES ASSUME NEW i \in DOMAIN s, s[i] = q[1] PROVE FALSE
    BY DEF ToSet
  <2>1. 1 \in DOMAIN q /\ q[i + 1] = q[1] /\ i + 1 \in DOMAIN q /\ i + 1 # 1
    BY <1>1, <1>2
  <2>2. QED
    BY <2>1 DEF IsInjective
<1>7. QED
  BY <1>1, <1>4, <1>5, <1>6 DEF s

----------------------------------------------------------------------------
(* Every action preserves the invariant.                                     *)

LEMMA RegisterUserKeeps ==
  ASSUME CompressionInv, NEW u \in Users, RegisterUser(u)
  PROVE  CompressionInv'
BY UsersAssumption DEF RegisterUser, compressionVars, factory, manager, threads, history,
   CompressionInv, CompressionTypeOK, WorkerKnown, FilesNew, FilesConserved, LeftOnlyWhileLeaving,
   Labels, Places, Files, Callers, Proceed

LEMMA ReleaseUserKeeps ==
  ASSUME CompressionInv, NEW u \in Users, ReleaseUser(u)
  PROVE  CompressionInv'
<1>1. CASE UserCount = 0
  BY <1>1, UsersAssumption DEF ReleaseUser, compressionVars, factory, manager, threads,
     history, CompressionInv, CompressionTypeOK, WorkerKnown, FilesNew, FilesConserved,
     LeftOnlyWhileLeaving, Labels, Places, Files, Callers, Proceed
<1>2. CASE UserCount # 0
  <2>1. UserCount - 1 \in Nat
    BY <1>2 DEF CompressionInv, CompressionTypeOK
  <2>2. CompressionTypeOK'
    <3>1. at' \in [Callers -> Labels]
      BY <1>2, UsersAssumption DEF ReleaseUser, CompressionInv, CompressionTypeOK, Labels,
         Callers, Proceed
    <3>2. count' \in [Users -> Nat] /\ UserCount' \in Nat
      BY <1>2, <2>1 DEF ReleaseUser, CompressionInv, CompressionTypeOK
    <3>3. QED
      BY <3>1, <3>2 DEF ReleaseUser, manager, history, CompressionInv, CompressionTypeOK, Files
  <2>3. (WorkerKnown /\ FilesNew)'
    BY <1>2, UsersAssumption DEF ReleaseUser, compressionVars, factory, manager, threads,
       history, CompressionInv, CompressionTypeOK, WorkerKnown, FilesNew, FilesConserved,
       LeftOnlyWhileLeaving, Labels, Places, Files, Callers, Proceed
  <2>4. (FilesConserved /\ LeftOnlyWhileLeaving)'
    BY <1>2 DEF ReleaseUser, compressionVars, factory, manager, threads, history, CompressionInv,
       CompressionTypeOK, WorkerKnown, FilesNew, FilesConserved, LeftOnlyWhileLeaving,
       Labels, Places, Files, Callers, Proceed
  <2>5. QED
    BY <2>2, <2>3, <2>4 DEF CompressionInv
<1>3. QED
  BY <1>1, <1>2

LEMMA SetUserCountKeeps ==
  ASSUME CompressionInv, NEW u \in Users, SetUserCount(u)
  PROVE  CompressionInv'
BY UsersAssumption DEF SetUserCount, compressionVars, factory, manager, threads, history,
   CompressionInv, CompressionTypeOK, WorkerKnown, FilesNew, FilesConserved, LeftOnlyWhileLeaving,
   Labels, Places, Files, Callers, Proceed

LEMMA StopWhenQueueEmptyKeeps ==
  ASSUME CompressionInv, NEW u \in Users, StopWhenQueueEmpty(u)
  PROVE  CompressionInv'
BY UsersAssumption DEF StopWhenQueueEmpty, compressionVars, factory, manager, threads,
   history, CompressionInv, CompressionTypeOK, WorkerKnown, FilesNew, FilesConserved,
   LeftOnlyWhileLeaving, Labels, Places, Files, Callers, Proceed

LEMMA ProvideInstanceKeeps ==
  ASSUME CompressionInv, NEW u \in Users, ProvideInstance(u)
  PROVE  CompressionInv'
BY UsersAssumption DEF ProvideInstance, compressionVars, factory, manager, threads,
   history, CompressionInv, CompressionTypeOK, WorkerKnown, FilesNew, FilesConserved,
   LeftOnlyWhileLeaving, Labels, Places, Files, Callers, Proceed

LEMMA RefuseKeeps ==
  ASSUME CompressionInv, NEW u \in Users, Refuse(u)
  PROVE  CompressionInv'
BY UsersAssumption DEF Refuse, compressionVars, factory, manager, threads, history,
   CompressionInv, CompressionTypeOK, WorkerKnown, FilesNew, FilesConserved, LeftOnlyWhileLeaving,
   Labels, Places, Files, Callers, Proceed

LEMMA JoinKeeps ==
  ASSUME CompressionInv, NEW t \in Callers, NEW next \in {"count", "done"}, t \in Users
     <=> next = "count", Join(t, next)
  PROVE  CompressionInv'
BY UsersAssumption DEF Join, compressionVars, factory, manager, threads, history, CompressionInv,
   CompressionTypeOK, WorkerKnown, FilesNew, FilesConserved, LeftOnlyWhileLeaving, Labels,
   Places, Files, Callers, Proceed

LEMMA JoinedKeeps ==
  ASSUME CompressionInv, NEW t \in Callers, NEW next \in {"count", "done"}, t \in Users
     <=> next = "count", Joined(t, next)
  PROVE  CompressionInv'
BY UsersAssumption DEF Joined, compressionVars, factory, manager, threads, history,
   CompressionInv, CompressionTypeOK, WorkerKnown, FilesNew, FilesConserved, LeftOnlyWhileLeaving,
   Labels, Places, Files, Callers, Proceed

LEMMA CallSetStoppingKeeps ==
  ASSUME CompressionInv, CallSetStopping
  PROVE  CompressionInv'
BY UsersAssumption DEF CallSetStopping, compressionVars, factory, manager, threads,
   history, CompressionInv, CompressionTypeOK, WorkerKnown, FilesNew, FilesConserved,
   LeftOnlyWhileLeaving, Labels, Places, Files, Callers, Proceed

LEMMA SetStoppingKeeps ==
  ASSUME CompressionInv, SetStopping
  PROVE  CompressionInv'
BY UsersAssumption DEF SetStopping, compressionVars, factory, manager, threads, history,
   CompressionInv, CompressionTypeOK, WorkerKnown, FilesNew, FilesConserved, LeftOnlyWhileLeaving,
   Labels, Places, Files, Callers, Proceed

LEMMA StopManagerKeeps ==
  ASSUME CompressionInv, StopManager
  PROVE  CompressionInv'
BY UsersAssumption DEF StopManager, compressionVars, factory, manager, threads, history,
   CompressionInv, CompressionTypeOK, WorkerKnown, FilesNew, FilesConserved, LeftOnlyWhileLeaving,
   Labels, Places, Files, Callers, Proceed

LEMMA CompressFileKeeps ==
  ASSUME CompressionInv, CompressFile
  PROVE  CompressionInv'
<1>1. compressing # 0 /\ compressing \in accepted
  BY DEF CompressFile, CompressionInv, WorkerKnown, FilesConserved
<1>2. CompressionTypeOK'
  BY <1>1 DEF CompressFile, compressionVars, factory, manager, threads, history, CompressionInv,
     CompressionTypeOK, Places, Files
<1>3. (WorkerKnown /\ FilesNew /\ LeftOnlyWhileLeaving)'
  BY DEF CompressFile, compressionVars, factory, manager, threads, history, CompressionInv,
     WorkerKnown, FilesNew, LeftOnlyWhileLeaving
<1>4. FilesConserved'
  <2>1. 0 \notin ToSet(Queue)
    BY <1>1, SeqRange DEF CompressionInv, CompressionTypeOK, Files
  <2>2. accepted' = (ToSet(Queue') \cup compressed' \cup {compressing'}) \ {0}
    BY <1>1 DEF CompressFile, CompressionInv, FilesConserved, history, factory, threads
  <2>3. 0 \notin compressed
    BY DEF CompressionInv, CompressionTypeOK, Files
  <2>4. QED
    BY <1>1, <2>1, <2>2, <2>3 DEF CompressFile, compressionVars, factory, manager,
       threads, history, CompressionInv, FilesConserved
<1>5. QED
  BY <1>2, <1>3, <1>4 DEF CompressionInv

LEMMA LeaveKeeps ==
  ASSUME CompressionInv, Leave
  PROVE  CompressionInv'
<1>1. ToSet(Queue) = {} /\ ToSet(Queue') = {}
  BY EmptySeq DEF Leave, ToSet
<1>2. QED
  BY <1>1 DEF Leave, compressionVars, factory, manager, threads, history, CompressionInv, CompressionTypeOK,
     WorkerKnown, FilesNew, FilesConserved, LeftOnlyWhileLeaving, Labels,
     Places, Files, Callers, Proceed

LEMMA MarkStoppedKeeps ==
  ASSUME CompressionInv, MarkStopped
  PROVE  CompressionInv'
BY UsersAssumption DEF MarkStopped, compressionVars, factory, manager, threads, history,
   CompressionInv, CompressionTypeOK, WorkerKnown, FilesNew, FilesConserved, LeftOnlyWhileLeaving,
   Labels, Places, Files, Callers, Proceed

LEMMA SubmitKeeps ==
  ASSUME CompressionInv, NEW u \in Users, Submit(u)
  PROVE  CompressionInv'
<1> DEFINE f == submits + 1
<1>1. /\ f \in Nat /\ f # 0 /\ f \notin accepted
      /\ file' = [file EXCEPT ![u] = f] /\ submits' = f
  BY DEF Submit, CompressionInv, CompressionTypeOK, Files
<1>2. \A v \in Users : file[v] # f
  <2> SUFFICES ASSUME NEW v \in Users PROVE file[v] # f
    OBVIOUS
  <2>1. file[v] \in Files \cup {0} /\ submits \in Nat
    BY DEF CompressionInv, CompressionTypeOK
  <2>2. QED
    BY <2>1 DEF Files
<1>3. Files \subseteq Files'
  BY <1>1 DEF CompressionInv, CompressionTypeOK, Files
<1>4. Queue' \in Seq(Files')
  BY <1>3, SeqOfMore DEF Submit, manager, CompressionInv, CompressionTypeOK
<1>5. f \in Files'
  BY <1>1 DEF Files
<1>6. CompressionTypeOK'
  BY <1>1, <1>3, <1>4, <1>5 DEF Submit, compressionVars, factory, manager, threads,
     history, CompressionInv, CompressionTypeOK, Labels, Callers, Proceed
<1>7. FilesNew'
  BY <1>1, <1>2 DEF Submit, compressionVars, factory, manager, threads, history, CompressionInv,
     CompressionTypeOK, FilesNew, Callers, Proceed
<1>8. (WorkerKnown /\ FilesConserved /\ LeftOnlyWhileLeaving)'
  BY DEF Submit, compressionVars, factory, manager, threads, history, CompressionInv, WorkerKnown,
     FilesConserved, LeftOnlyWhileLeaving
<1>9. QED
  BY <1>6, <1>7, <1>8 DEF CompressionInv

LEMMA EnqueueKeeps ==
  ASSUME CompressionInv, NEW u \in Users, EnqueueFile(u)
  PROVE  CompressionInv'
<1> DEFINE f == file[u]
<1>1. f \in Files /\ f # 0 /\ f \notin accepted
  BY DEF EnqueueFile, CompressionInv, CompressionTypeOK, FilesNew
<1>2. f \notin ToSet(Queue) /\ f \notin compressed /\ f # compressing
  BY <1>1 DEF CompressionInv, FilesConserved
<1>3. /\ Queue' \in Seq(Files) /\ IsInjective(Queue')
      /\ ToSet(Queue') = ToSet(Queue) \cup {f}
  BY <1>1, <1>2, AppendToQueue DEF EnqueueFile, CompressionInv, CompressionTypeOK, FilesConserved
<1>4. CompressionTypeOK'
  BY <1>1, <1>3 DEF EnqueueFile, StartWorkerLocked, factory, CompressionInv, CompressionTypeOK,
     Labels, Places, Files,
     Callers, Proceed
<1>5. FilesNew'
  <2>1. /\ file' = [file EXCEPT ![u] = 0] /\ accepted' = accepted \cup {f}
        /\ at' = [at EXCEPT ![u] = "idle"]
    BY DEF EnqueueFile, Proceed
  <2>2. \A v \in Users : at'[v] \in {"join", "joining", "count", "enqueue"} <=>
     file'[v] # 0
    BY <2>1 DEF CompressionInv, CompressionTypeOK, FilesNew, Callers
  <2>3. \A v \in Users : file'[v] \notin accepted'
    BY <1>1, <2>1 DEF CompressionInv, CompressionTypeOK, FilesNew, Files
  <2>4. \A v, w \in Users : file'[v] = file'[w] /\ file'[v] # 0 => v = w
    BY <2>1 DEF CompressionInv, CompressionTypeOK, FilesNew
  <2>5. QED
    BY <2>2, <2>3, <2>4 DEF FilesNew
<1>6. FilesConserved'
  BY <1>1, <1>2, <1>3 DEF EnqueueFile, CompressionInv, FilesConserved
<1>7. (WorkerKnown /\ LeftOnlyWhileLeaving)'
  <2>1. CASE worker \in {"none", "exited"}
    BY <2>1 DEF EnqueueFile, StartWorkerLocked, CompressionInv, WorkerKnown,
       LeftOnlyWhileLeaving
  <2>2. CASE worker \notin {"none", "exited"}
    BY <1>3, <2>2 DEF EnqueueFile, StartWorkerLocked, CompressionInv, CompressionTypeOK, WorkerKnown,
       LeftOnlyWhileLeaving
  <2>3. QED
    BY <2>1, <2>2
<1>8. QED
  BY <1>4, <1>5, <1>6, <1>7 DEF CompressionInv

LEMMA TakeFileKeeps ==
  ASSUME CompressionInv, TakeFile
  PROVE  CompressionInv'
<1>1. compressing = 0
  BY DEF TakeFile, CompressionInv, WorkerKnown
<1>2. /\ Head(Queue) \in Files /\ Tail(Queue) \in Seq(Files)
      /\ IsInjective(Tail(Queue))
      /\ ToSet(Queue) = ToSet(Tail(Queue)) \cup {Head(Queue)}
      /\ Head(Queue) \notin ToSet(Tail(Queue))
  BY TakeFromQueue DEF TakeFile, CompressionInv, CompressionTypeOK, FilesConserved
<1>3. Head(Queue) # 0
  BY <1>2 DEF Files
<1>4. CompressionTypeOK'
  BY <1>2 DEF TakeFile, compressionVars, factory, manager, threads, history, CompressionInv,
     CompressionTypeOK, Places, Files
<1>5. FilesConserved'
  BY <1>1, <1>2, <1>3 DEF TakeFile, compressionVars, factory, manager, threads, history,
     CompressionInv, FilesConserved
<1>6. (WorkerKnown /\ FilesNew /\ LeftOnlyWhileLeaving)'
  BY <1>3 DEF TakeFile, compressionVars, factory, manager, threads, history, CompressionInv,
     WorkerKnown, FilesNew, LeftOnlyWhileLeaving
<1>7. QED
  BY <1>4, <1>5, <1>6 DEF CompressionInv

----------------------------------------------------------------------------
(* The initial state has no worker and no file. *)
LEMMA InitCompressionInv == CompressionInit => CompressionInv
<1> SUFFICES ASSUME CompressionInit PROVE CompressionInv
  OBVIOUS
<1>1. Queue \in Seq(Files) /\ ToSet(Queue) = {} /\ IsInjective(Queue)
  BY EmptySeq DEF CompressionInit, ToSet, IsInjective
<1>2. CompressionTypeOK
  BY <1>1, UsersAssumption DEF CompressionInit, CompressionTypeOK, Labels, Places, Files, Callers
<1>3. WorkerKnown /\ FilesNew /\ LeftOnlyWhileLeaving
  BY <1>1, UsersAssumption DEF CompressionInit, WorkerKnown, FilesNew, LeftOnlyWhileLeaving, Callers
<1>4. FilesConserved
  BY <1>1 DEF CompressionInit, FilesConserved
<1>5. QED
  BY <1>2, <1>3, <1>4 DEF CompressionInv

LEMMA NextCompressionInv == CompressionInv /\ [CompressionNext]_compressionVars => CompressionInv'
<1> SUFFICES ASSUME CompressionInv, [CompressionNext]_compressionVars PROVE CompressionInv'
  OBVIOUS
<1>1. ASSUME NEW u \in Users,
             RegisterUser(u) \/ ReleaseUser(u) \/ Submit(u) \/ UserStep(u)
      PROVE  CompressionInv'
  <2>1. u \in Callers /\ (u \in Users <=> "count" = "count")
    BY DEF Callers
  <2>2. CASE RegisterUser(u) \/ ReleaseUser(u) \/ Submit(u)
    BY <2>2, RegisterUserKeeps, ReleaseUserKeeps, SubmitKeeps
  <2>3. CASE SetUserCount(u) \/ StopWhenQueueEmpty(u) \/ ProvideInstance(u)
    BY <2>3, SetUserCountKeeps, StopWhenQueueEmptyKeeps, ProvideInstanceKeeps
  <2>4. CASE EnqueueFile(u) \/ Refuse(u)
    BY <2>4, EnqueueKeeps, RefuseKeeps
  <2>5. CASE Join(u, "count")
    BY <2>1, <2>5, JoinKeeps
  <2>6. CASE Joined(u, "count")
    BY <2>1, <2>6, JoinedKeeps
  <2>7. QED
    BY <1>1, <2>2, <2>3, <2>4, <2>5, <2>6 DEF UserStep
<1>2. CASE CallSetStopping
  BY <1>2, CallSetStoppingKeeps
<1>3. CASE StopperStep
  <2>1. Stopper \in Callers /\ (Stopper \in Users <=> "done" = "count")
    BY UsersAssumption DEF Callers
  <2>2. CASE SetStopping \/ StopManager
    BY <2>2, SetStoppingKeeps, StopManagerKeeps
  <2>3. CASE Join(Stopper, "done")
    BY <2>1, <2>3, JoinKeeps
  <2>4. CASE Joined(Stopper, "done")
    BY <2>1, <2>4, JoinedKeeps
  <2>5. QED
    BY <1>3, <2>2, <2>3, <2>4 DEF StopperStep
<1>4. CASE WorkerStep
  BY <1>4, TakeFileKeeps, CompressFileKeeps, LeaveKeeps, MarkStoppedKeeps DEF WorkerStep
<1>5. CASE UNCHANGED compressionVars
  BY <1>5 DEF compressionVars, factory, manager, threads, history, CompressionInv, CompressionTypeOK, WorkerKnown,
     FilesNew, FilesConserved, LeftOnlyWhileLeaving, Files
<1>6. QED
  BY <1>1, <1>2, <1>3, <1>4, <1>5 DEF CompressionNext

(* The inductive invariant holds in every reachable state. *)
THEOREM CompressionInvariance == CompressionSpec => []CompressionInv
<1>1. CompressionInit => CompressionInv
  BY InitCompressionInv
<1>2. CompressionInv /\ [CompressionNext]_compressionVars => CompressionInv'
  BY NextCompressionInv
<1>3. QED
  BY <1>1, <1>2, PTL DEF CompressionSpec

(* Every variable of the factory, of the manager and of their users keeps its *)
(* type (CompressionManager.cpp).                                            *)
THEOREM CompressionTypes == CompressionSpec => []CompressionTypeOK
<1>1. CompressionInv => CompressionTypeOK
  BY DEF CompressionInv
<1>2. QED
  BY <1>1, CompressionInvariance, PTL

(* An accepted file is in the queue, with the worker or processed, in one of  *)
(* these places and once (CompressionManager::Submit, WorkerFunc).            *)
THEOREM FilesAreConserved == CompressionSpec => []FilesConserved
<1>1. CompressionInv => FilesConserved
  BY DEF CompressionInv
<1>2. QED
  BY <1>1, CompressionInvariance, PTL

(* A worker that has gone leaves in the queue only files that came between    *)
(* its last look at the queue and its farewell (WorkerFunc, StartWorkerLocked). *)
THEOREM NothingElseIsLeft == CompressionSpec => []LeftOnlyWhileLeaving
<1>1. CompressionInv => LeftOnlyWhileLeaving
  BY DEF CompressionInv
<1>2. QED
  BY <1>1, CompressionInvariance, PTL
=============================================================================
