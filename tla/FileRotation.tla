---------------------------- MODULE FileRotation ----------------------------
(***************************************************************************)
(* How a FileBackend completes its file: at a size limit or at the end of a *)
(* period the active file is closed, renamed to an archive name with the     *)
(* period and an index, and opened anew; the archive is handed over for      *)
(* compression and retention removes the oldest files (FileBackend.cpp,      *)
(* FileArchivePolicy.cpp, FileTimeRotationPolicy.cpp, RetentionCleaner.cpp,  *)
(* DirectorySizeWatchdog.cpp).                                               *)
(*                                                                         *)
(* Display runs under the channel's lock and checks the period; the size is  *)
(* checked where the data is written: by Display itself, or by the manager's *)
(* thread if the backend is asynchronous.  Each call on the file system is a *)
(* step; moving a file and opening one may fail and the process may crash    *)
(* and start again at any step.  A record is a number and as large as any    *)
(* other; time is the number of the period.  The times of last write are     *)
(* known by their order: older.                                              *)
(***************************************************************************)
EXTENDS Integers, Sequences, FiniteSets, FiniteSetsExt, SequencesExt

CONSTANTS
  Scenarios,           \* set of [async, time, parts, gzip, clean]: configurations
  MaxSize,             \* records in a file before it is completed
  MaximalSize,         \* of the directory, for the watchdog, in records
  MaxRecords,          \* bound on the records displayed
  MaxTime,             \* bound on the periods
  MaxIndex,            \* bound on the archive indexes
  MaxFailures,         \* bound on the calls that fail
  MaxCrashes,          \* bound on the crashes
  MaxMonitors          \* bound on the watchdog's rounds

ASSUME RotationAssumption ==
  /\ {MaxSize, MaximalSize, MaxRecords, MaxTime, MaxIndex, MaxFailures, MaxCrashes,
      MaxMonitors} \subseteq Nat
  /\ MaxSize > 0 /\ MaxTime > 0
  /\ \A s \in Scenarios : s.async \in BOOLEAN /\ s.time \in BOOLEAN /\ s.gzip \in BOOLEAN
                          /\ s.clean \in BOOLEAN /\ s.parts \in Nat

VARIABLES
  scenario,
  now,                 \* the current period
  disk,                \* the files there are and their records
  older,               \* of a file: the files whose last write was before its own
  handle,              \* the file the backend has open
  PeriodStart,         \* of FileTimeRotationPolicy
  ArchiveTime,         \* of FileArchivePolicy
  ArchiveIndex,
  CurrentSize,
  registered,          \* the backend is known to the FileManagerFactory
  queue,               \* records not written yet
  pc,                  \* of the thread in Display and of the writer
  batch,               \* the records they are about to write
  target,              \* the archive name they have taken
  after,               \* what they do when the file is completed
  submitted,           \* completed files to be compressed
  candidates,          \* files the watchdog is going to delete
  displayed,           \* history: number of records displayed
  gone,                \* history: records deleted, or lost in a crash
  dropped,             \* history: records not written because of a failure
  failures,            \* history: failed moves and opens
  openFailed,          \* history: an open has failed since the start
  crashes,
  monitors

counts  == <<failures, crashes, monitors>>
policy  == <<PeriodStart, ArchiveTime, ArchiveIndex>>
files   == <<disk, older>>
io      == <<files, handle, CurrentSize>>
calls   == <<batch, target, after>>
others  == <<submitted, candidates>>
records == <<displayed, gone, dropped>>
vars    == <<scenario, now, io, policy, registered, queue, pc, calls, others, records,
             openFailed, counts>>

----------------------------------------------------------------------------
(* The file system                                                           *)

Active       == <<"active", 0, 0>>
Log(p, i)    == <<"log", p, i>>
Gz(p, i)     == <<"gz", p, i>>
NoFile       == <<"none", 0, 0>>
Closed       == <<"closed", 0, 0>>
Unlinked     == <<"unlinked", 0, 0>>
Archives     == {"log", "gz"} \X (0..MaxTime) \X (1..MaxIndex)
Exists(f)    == f \in DOMAIN disk
Size(f)      == Cardinality(disk[f])
Records(fs)  == UNION {disk[f] : f \in fs \cap DOMAIN disk}

(* Files are removed, an open one stays with whoever has it open.            *)
RemoveFiles(fs) ==
  /\ disk' = [f \in DOMAIN disk \ fs |-> disk[f]]
  /\ older' = [f \in DOMAIN disk \ fs |-> older[f] \ fs]
  /\ handle' = IF handle \in fs THEN Unlinked ELSE handle

(* A file's records are in another one.                                      *)
Moved(from, to) ==
  [f \in (DOMAIN disk \ {from}) \cup {to} |-> IF f = to THEN disk[from] ELSE disk[f]]

(* rename(2): the new name is taken from a file that has it.                 *)
Rename(from, to) ==
  /\ disk' = Moved(from, to)
  /\ older' = [f \in (DOMAIN disk \ {from}) \cup {to} |->
                 LET before == older[IF f = to THEN from ELSE f] \ {to} IN
                   IF from \in before THEN (before \ {from}) \cup {to} ELSE before]
  /\ handle' = IF handle = to THEN Unlinked ELSE IF handle = from THEN to ELSE handle

(* Opened for appending, and created if it is not there.                     *)
OpenActive ==
  /\ IF Exists(Active)
     THEN UNCHANGED files
     ELSE /\ disk' = [f \in DOMAIN disk \cup {Active} |->
                        IF f = Active THEN {} ELSE disk[f]]
          /\ older' = [f \in DOMAIN disk \cup {Active} |->
                         IF f = Active THEN DOMAIN disk ELSE older[f]]
  /\ handle' = Active
  /\ CurrentSize' = IF Exists(Active) THEN Size(Active) ELSE 0

OpenFails ==
  /\ failures < MaxFailures
  /\ failures' = failures + 1
  /\ openFailed' = TRUE
  /\ handle' = Closed
  /\ UNCHANGED <<files, CurrentSize, crashes, monitors>>

----------------------------------------------------------------------------
(* Archive names and periods                                                 *)

(* Deviant: compressed archives are not seen.                                *)
LastIndexLogs(p) ==
  LET indexes == {f[3] : f \in {g \in DOMAIN disk : g[1] = "log" /\ g[2] = p}} IN
    IF indexes = {} THEN 0 ELSE Max(indexes)

(* FindLastIndex: the highest index of the period, compressed or not.        *)
LastIndex(p) ==
  LET indexes == {f[3] : f \in {g \in DOMAIN disk : g # Active /\ g[2] = p}} IN
    IF indexes = {} THEN 0 ELSE Max(indexes)

(* SetTime: the index goes on in the same period and is recovered for        *)
(* another one.                                                              *)
IndexFor(p) == IF p = ArchiveTime THEN ArchiveIndex ELSE LastIndex(p)

NameExists(p, i) == Exists(Log(p, i)) \/ Exists(Gz(p, i))

(* Deviant: begins with the index taken last.                                *)
NextIndexTaken(p) == Max({1, IndexFor(p)})

(* TakeName: the next index whose name is free.                              *)
NextIndex(p) ==
  CHOOSE i \in (IndexFor(p) + 1)..(MaxIndex + 1) :
    /\ ~NameExists(p, i)
    /\ \A j \in (IndexFor(p) + 1)..(i - 1) : NameExists(p, j)

PeriodOver   == scenario.time /\ now > PeriodStart
CurrentArchiveTime == IF scenario.time THEN PeriodStart ELSE now

----------------------------------------------------------------------------
(* Deviant: the newest go.                                                   *)
ExpiredNewest ==
  LET archived == DOMAIN disk \ {Active} IN
    {f \in archived : scenario.parts > 0
       /\ Cardinality(archived \ older[f]) <= Cardinality(DOMAIN disk) - scenario.parts}

(* Retention: the oldest files go until there are few enough, the active     *)
(* file counts and stays.                                                    *)
Expired ==
  LET archived == DOMAIN disk \ {Active} IN
    {f \in archived : scenario.parts > 0
       /\ Cardinality(older[f] \cap archived) < Cardinality(DOMAIN disk) - scenario.parts}

ApplyRetention ==
  /\ RemoveFiles(Expired)
  /\ gone' = gone \cup Records(Expired)

----------------------------------------------------------------------------
(* CompleteCurrentFile, by the thread in Display or the writer               *)

Threads == {"display", "write"}
Goto(t, label) == pc' = [pc EXCEPT ![t] = label]

(* A thread begins to complete the file of period p; next is what it does    *)
(* when that has succeeded.                                                  *)
Complete(t, p, next) ==
  /\ target' = [target EXCEPT ![t] = Log(p, 0)]
  /\ after' = [after EXCEPT ![t] = next]
  /\ Goto(t, "take")

(* The name is looked for, the index is stored, and the file is closed.      *)
TakeName(t) ==
  LET p == target[t][2] IN
    /\ pc[t] = "take"
    /\ NextIndex(p) <= MaxIndex
    /\ target' = [target EXCEPT ![t] = Log(p, NextIndex(p))]
    /\ ArchiveTime' = p
    /\ ArchiveIndex' = IndexFor(p)
    /\ Goto(t, "close")
    /\ UNCHANGED <<scenario, now, io, PeriodStart, registered, queue, batch, after, others,
                   records, openFailed, counts>>

CloseLog(t) ==
  /\ pc[t] = "close"
  /\ ArchiveIndex' = target[t][3]
  /\ handle' = Closed
  /\ Goto(t, "move")
  /\ UNCHANGED <<scenario, now, files, CurrentSize, PeriodStart, ArchiveTime, registered,
                 queue, calls, others, records, openFailed, counts>>

Move(t) ==
  /\ pc[t] = "move"
  /\ Exists(Active)
  /\ Rename(Active, target[t])
  /\ Goto(t, "create")
  /\ UNCHANGED <<scenario, now, CurrentSize, policy, registered, queue, calls, others, records,
                 openFailed, counts>>

(* The archive's directory cannot be made, or the file cannot be moved, or   *)
(* the file is not there.                                                    *)
MoveFails(t) ==
  /\ pc[t] = "move"
  /\ IF Exists(Active) THEN failures < MaxFailures /\ failures' = failures + 1
                       ELSE UNCHANGED failures
  /\ Goto(t, "reopen")
  /\ UNCHANGED <<scenario, now, io, policy, registered, queue, calls, others, records,
                 openFailed, crashes, monitors>>

(* What was to be written when the completion failed is not written.         *)
GiveUp(t) ==
  /\ dropped' = dropped \cup batch[t]
  /\ batch' = [batch EXCEPT ![t] = {}]
  /\ Goto(t, "idle")
  /\ UNCHANGED <<scenario, now, policy, registered, queue, target, after, others, displayed,
                 gone>>

(* Deviant: the old file is not opened again.                                *)
ReopenNot(t) ==
  /\ pc[t] = "reopen"
  /\ UNCHANGED <<io, openFailed, counts>>
  /\ GiveUp(t)

(* The failed completion ends with the old file open again.                  *)
Reopen(t) ==
  /\ pc[t] = "reopen"
  /\ \/ OpenActive /\ UNCHANGED <<openFailed, counts>>
     \/ OpenFails
  /\ GiveUp(t)

CreateFails(t) ==
  /\ pc[t] = "create"
  /\ OpenFails
  /\ GiveUp(t)

CreateLog(t) ==
  /\ pc[t] = "create"
  /\ OpenActive
  /\ ArchiveTime' = CurrentArchiveTime
  /\ ArchiveIndex' = IndexFor(CurrentArchiveTime)
  /\ submitted' = IF scenario.gzip THEN submitted \cup {target[t]} ELSE submitted
  /\ Goto(t, "retain")
  /\ UNCHANGED <<scenario, now, PeriodStart, registered, queue, calls, candidates, records,
                 openFailed, counts>>

Retain(t) ==
  /\ pc[t] = "retain"
  /\ ApplyRetention
  /\ Goto(t, after[t])
  /\ UNCHANGED <<scenario, now, CurrentSize, policy, registered, queue, calls, others,
                 displayed, dropped, openFailed, counts>>

----------------------------------------------------------------------------
(* Display and the writer                                                    *)

(* A record is displayed; the end of the period is noticed here.             *)
Display ==
  /\ pc["display"] = "idle"
  /\ handle # Closed
  /\ displayed < MaxRecords
  /\ displayed' = displayed + 1
  /\ registered' = scenario.async
  /\ batch' = [batch EXCEPT !["display"] = {displayed + 1}]
  /\ IF PeriodOver
     THEN PeriodStart' = now /\ Complete("display", PeriodStart, "append")
     ELSE Goto("display", "append") /\ UNCHANGED <<PeriodStart, target, after>>
  /\ UNCHANGED <<scenario, now, io, ArchiveTime, ArchiveIndex, queue, others, gone, dropped,
                 openFailed, counts>>

(* The file is not open: the record is ignored.                              *)
DisplayClosed ==
  /\ pc["display"] = "idle"
  /\ handle = Closed
  /\ displayed < MaxRecords
  /\ displayed' = displayed + 1
  /\ dropped' = dropped \cup {displayed + 1}
  /\ UNCHANGED <<scenario, now, io, policy, registered, queue, pc, calls, others, gone,
                 openFailed, counts>>

Enqueue ==
  /\ pc["display"] = "append"
  /\ scenario.async
  /\ queue' = queue \cup batch["display"]
  /\ batch' = [batch EXCEPT !["display"] = {}]
  /\ Goto("display", "idle")
  /\ UNCHANGED <<scenario, now, io, policy, registered, target, after, others, records,
                 openFailed, counts>>

(* The manager's thread takes what is queued.                                *)
TakeReady ==
  /\ pc["write"] = "idle"
  /\ queue # {}
  /\ batch' = [batch EXCEPT !["write"] = queue]
  /\ queue' = {}
  /\ Goto("write", "append")
  /\ UNCHANGED <<scenario, now, io, policy, registered, target, after, others, records,
                 openFailed, counts>>

Writer == IF scenario.async THEN "write" ELSE "display"

(* ApplySizeLimit: the file, even an empty one, would become too large.      *)
ApplySizeLimit ==
  /\ pc[Writer] = "append"
  /\ IF CurrentSize + Cardinality(batch[Writer]) <= MaxSize
     THEN Goto(Writer, "write") /\ UNCHANGED <<target, after>>
     ELSE Complete(Writer, ArchiveTime, "write")
  /\ UNCHANGED <<scenario, now, io, policy, registered, queue, batch, others, records,
                 openFailed, counts>>

(* To a closed file nothing is written, to an unlinked one in vain.          *)
Write ==
  /\ pc[Writer] = "write"
  /\ IF handle \in {Closed, Unlinked}
     THEN UNCHANGED files
     ELSE /\ disk' = [disk EXCEPT ![handle] = @ \cup batch[Writer]]
          /\ older' = [f \in DOMAIN disk |-> IF f = handle THEN DOMAIN disk \ {f}
                                                           ELSE older[f] \ {handle}]
  /\ CurrentSize' = IF handle = Closed THEN CurrentSize
                                       ELSE CurrentSize + Cardinality(batch[Writer])
  /\ dropped' = IF handle = Closed THEN dropped \cup batch[Writer] ELSE dropped
  /\ gone' = IF handle = Unlinked THEN gone \cup batch[Writer] ELSE gone
  /\ batch' = [batch EXCEPT ![Writer] = {}]
  /\ Goto(Writer, "idle")
  /\ UNCHANGED <<scenario, now, handle, policy, registered, queue, target, after, others,
                 displayed, openFailed, counts>>

----------------------------------------------------------------------------
(* The process starts (ApplyConfig), and crashes                             *)

Start ==
  /\ pc["display"] = "down"
  /\ PeriodStart' = IF scenario.time THEN now ELSE 0
  /\ ArchiveTime' = now
  /\ ArchiveIndex' = LastIndex(now)
  /\ \/ OpenActive /\ Goto("display", "clean") /\ openFailed' = FALSE /\ UNCHANGED counts
     \/ OpenFails /\ Goto("display", "idle")
  /\ UNCHANGED <<scenario, now, registered, queue, calls, others, records>>

CleanOnStart ==
  /\ pc["display"] = "clean"
  /\ IF scenario.clean THEN ApplyRetention ELSE UNCHANGED <<files, handle, gone>>
  /\ Goto("display", "idle")
  /\ UNCHANGED <<scenario, now, CurrentSize, policy, registered, queue, calls, others,
                 displayed, dropped, openFailed, counts>>

(* What is in memory is lost, and in synchronous mode the latest records     *)
(* that the C library still buffers.                                         *)
Crash ==
  /\ pc["display"] # "down"
  /\ crashes < MaxCrashes
  /\ crashes' = crashes + 1
  /\ \E n \in 1..(displayed + 1) :
       LET buffered == {r \in Records({handle}) : r >= n /\ ~scenario.async} IN
         /\ disk' = [f \in DOMAIN disk |-> disk[f] \ buffered]
         /\ gone' = gone \cup buffered \cup queue \cup UNION {batch[t] : t \in Threads}
  /\ handle' = Closed
  /\ registered' = FALSE
  /\ queue' = {}
  /\ pc' = [display |-> "down", write |-> "idle"]
  /\ batch' = [t \in Threads |-> {}]
  /\ submitted' = {}
  /\ candidates' = {}
  /\ UNCHANGED <<scenario, now, older, CurrentSize, policy, target, after, displayed,
                 dropped, openFailed, failures, monitors>>

TimePasses ==
  /\ now < MaxTime
  /\ now' = now + 1
  /\ UNCHANGED <<scenario, io, policy, registered, queue, pc, calls, others, records,
                 openFailed, counts>>

----------------------------------------------------------------------------
(* The other users of the directory                                          *)

(* The CompressionManager: the archive's records are in another file now,    *)
(* written last.  An archive that has been compressed already is left.       *)
Compress(f) ==
  /\ submitted' = submitted \ {f}
  /\ LET gz == Gz(f[2], f[3]) IN
       IF Exists(f) /\ ~Exists(gz)
       THEN /\ disk' = Moved(f, gz)
            /\ older' = [g \in DOMAIN disk' |-> IF g = gz THEN DOMAIN disk \ {f}
                                                          ELSE older[g] \ {f}]
       ELSE UNCHANGED files
  /\ UNCHANGED <<scenario, now, handle, CurrentSize, policy, registered, queue, pc, calls,
                 candidates, records, openFailed, counts>>

TotalSize(fs) == FoldSet(LAMBDA f, n : n + Size(f), 0, fs)
NotOlder(f, fs) == fs \ older[f]

(* InsertSorted: the newest files that together are not too large stay.      *)
InsertSorted(fs, f, limit) ==
  LET all == fs \cup {f} IN {g \in all : TotalSize(NotOlder(g, all)) <= limit}

TestFileInUse(f) == registered /\ f = Active /\ handle = Active

(* Collect: the candidates among the files, found in any order.              *)
Collect ==
  LET excess == TotalSize(DOMAIN disk) - MaximalSize
      unused == {f \in DOMAIN disk : ~TestFileInUse(f)}
      insert(fs, f) == InsertSorted(fs, f, (MaximalSize \div 20) + excess) IN
    /\ pc["display"] # "down"
    /\ candidates = {}
    /\ monitors < MaxMonitors
    /\ monitors' = monitors + 1
    /\ excess > 0
    /\ \E order \in SetToSeqs(unused) : candidates' = unused \cap FoldLeft(insert, {}, order)
    /\ UNCHANGED <<scenario, now, io, policy, registered, queue, pc, calls, submitted, records,
                   openFailed, failures, crashes>>

(* DeleteFiles, one file.                                                    *)
Delete(f) ==
  /\ candidates' = candidates \ {f}
  /\ RemoveFiles({f})
  /\ gone' = gone \cup Records({f})
  /\ UNCHANGED <<scenario, now, CurrentSize, policy, registered, queue, pc, calls, submitted,
                 displayed, dropped, openFailed, counts>>

----------------------------------------------------------------------------
Init ==
  /\ scenario \in Scenarios
  /\ now = 1
  /\ disk = [f \in {} |-> {}]
  /\ older = [f \in {} |-> {}]
  /\ handle = Closed
  /\ PeriodStart = 0
  /\ ArchiveTime = 0
  /\ ArchiveIndex = 0
  /\ CurrentSize = 0
  /\ registered = FALSE
  /\ queue = {}
  /\ pc = [display |-> "down", write |-> "idle"]
  /\ batch = [t \in Threads |-> {}]
  /\ target = [t \in Threads |-> NoFile]
  /\ after = [t \in Threads |-> "write"]
  /\ submitted = {}
  /\ candidates = {}
  /\ displayed = 0
  /\ gone = {}
  /\ dropped = {}
  /\ openFailed = FALSE
  /\ failures = 0
  /\ crashes = 0
  /\ monitors = 0

Next ==
  \/ Start
  \/ CleanOnStart
  \/ Display
  \/ DisplayClosed
  \/ Enqueue
  \/ TakeReady
  \/ ApplySizeLimit
  \/ Write
  \/ \E t \in Threads : \/ TakeName(t)
                        \/ CloseLog(t)
                        \/ Move(t)
                        \/ MoveFails(t)
                        \/ Reopen(t)
                        \/ CreateLog(t)
                        \/ CreateFails(t)
                        \/ Retain(t)
  \/ \E f \in submitted : Compress(f)
  \/ Collect
  \/ \E f \in candidates : Delete(f)
  \/ TimePasses
  \/ Crash

Spec == Init /\ [][Next]_vars

----------------------------------------------------------------------------
TypeOK ==
  /\ scenario \in Scenarios
  /\ now \in 1..MaxTime
  /\ DOMAIN disk \subseteq {Active} \cup Archives
  /\ \A f \in DOMAIN disk : disk[f] \subseteq 1..displayed
  /\ older \in [DOMAIN disk -> SUBSET DOMAIN disk]
  /\ \A f, g \in DOMAIN disk : f \in older[g] <=> f # g /\ g \notin older[f]
  /\ handle \in {Closed, Unlinked, Active} \cup Archives
  /\ {PeriodStart, ArchiveTime} \subseteq 0..MaxTime
  /\ ArchiveIndex \in 0..MaxIndex
  /\ CurrentSize \in 0..MaxRecords
  /\ {registered, openFailed} \subseteq BOOLEAN
  /\ queue \subseteq 1..displayed
  /\ pc \in [Threads -> {"down", "clean", "idle", "take", "close", "move", "create", "reopen",
                         "retain", "append", "write"}]
  /\ batch \in [Threads -> SUBSET (1..displayed)]
  /\ target \in [Threads -> {NoFile} \cup {Log(p, i) : p \in 0..MaxTime, i \in 0..MaxIndex}]
  /\ after \in [Threads -> {"append", "write"}]
  /\ submitted \subseteq Archives
  /\ candidates \subseteq {Active} \cup Archives
  /\ displayed \in 0..MaxRecords
  /\ {gone, dropped} \subseteq SUBSET (1..displayed)
  /\ failures \in 0..MaxFailures
  /\ crashes \in 0..MaxCrashes
  /\ monitors \in 0..MaxMonitors

(* The types, and: every record displayed is in one place and only one:      *)
(* waiting, in one file, deleted with a file or lost in a crash, or dropped; *)
(* a synchronous backend drops records only if a move or an open has failed  *)
(* or the watchdog takes the file away.  An archive that is overwritten or    *)
(* written twice breaks this (CompleteCurrentFile, ApplySizeLimit, WriteReadyData).  *)
RecordsKept ==
  /\ TypeOK
  /\ \A r \in 1..displayed :
       LET places == {f \in DOMAIN disk : r \in disk[f]}
                     \cup {<<"batch", t, 0>> : t \in {u \in Threads : r \in batch[u]}}
           elsewhere == {x \in {<<"queue", queue>>, <<"gone", gone>>, <<"dropped", dropped>>} :
                         r \in x[2]} IN
         Cardinality(places) + Cardinality(elsewhere) = 1
  /\ failures = 0 /\ monitors = 0 /\ ~scenario.async => dropped = {}

(* A completion that failed leaves the backend with an open file, unless     *)
(* opening one failed (reopenCurrentLog in CompleteCurrentFile).             *)
KeepsOpen ==
  (\A t \in Threads : pc[t] = "idle") /\ handle = Closed => openFailed

(* The archives' indexes, and their periods, are in the order of what they   *)
(* hold, over restarts, compression and deletions too (RecoverIndex and      *)
(* TakeName).                                                                *)
ArchivesInOrder ==
  \A f, g \in DOMAIN disk \ {Active} :
    f[2] < g[2] \/ (f[2] = g[2] /\ f[3] < g[3]) =>
      \A r \in disk[f], q \in disk[g] : r < q

(* A completed file is never moved onto an archive that is there             *)
(* (file_backend_lifecycle.md: runtime collision handling does not overwrite *)
(* existing archives; TakeName).                                             *)
NoCollision ==
  [][\A t \in Threads : Move(t) => ~Exists(target[t])]_vars

Retains ==
  /\ Retain("display") \/ Retain("write") \/ (CleanOnStart /\ scenario.clean)
  /\ scenario.parts > 0

(***************************************************************************)
(* When retention has run there are no more archives than it allows; it has *)
(* deleted one only if as many as it allows but one are left; and what it   *)
(* has deleted is older than what it has left, where no compression changes *)
(* the times of the files (ApplyMaxFiles, after every completion and, as    *)
(* configured, at the start).  The "but one" is the active file: by         *)
(* file_backend_lifecycle.md the rule does not apply to it, but it is       *)
(* counted where its name matches the pattern.                              *)
(***************************************************************************)
RetainsNewest ==
  [][Retains =>
       /\ Cardinality(DOMAIN disk' \ {Active}) <= scenario.parts
       /\ \/ DOMAIN disk' = DOMAIN disk
          \/ Cardinality(DOMAIN disk' \ {Active}) >= scenario.parts - 1
       /\ ~scenario.gzip =>
            \A r \in gone' \ gone, q \in UNION {disk'[f] : f \in DOMAIN disk' \ {Active}} :
              r < q]_vars
=============================================================================
