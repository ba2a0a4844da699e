-------------------------- MODULE AsyncFileBackend --------------------------
(***************************************************************************)
(* One asynchronous FileBackend and the FileManager thread that serves it   *)
(* (Backend/FileBackend.cpp, File/FileManager.cpp).                         *)
(*                                                                         *)
(* A caller logs under the channel's DataLock: it appends to the queue and, *)
(* if nobody has, asks for a flush by moving FlushTime and notifying the    *)
(* manager.  The manager sleeps until the earliest FlushTime, runs          *)
(* WorkerFunc and recomputes FlushTime from what is left in the queue.      *)
(* Nothing but FlushTime, the flag of Current and the order in which both   *)
(* sides write one and read the other keeps a record from being forgotten.  *)
(*                                                                         *)
(* The queue is BufferQueue seen from outside: a full or published buffer   *)
(* of so many records, with the deadline of its first record.               *)
(*                                                                         *)
(* Times are relative to the present.  A deadline is how far ahead it is,   *)
(* Due when it has passed; Tick brings every deadline one unit nearer.      *)
(***************************************************************************)
EXTENDS Integers, Sequences, FiniteSets

CONSTANTS
  Callers,             \* application threads
  Manager,             \* the management thread
  None,                \* "no thread"
  Scenarios,           \* [operations, registered]: what callers do, and whether
                       \* the backend has been used before
  FlushAfter,          \* FlushAfter, in units of the clock
  ScheduledRunGap,     \* SCHEDULED_RUN_GAP_MS
  BufferSize,          \* records that fit into one buffer
  MaxTotalBuffers,     \* the queue's buffer limit
  PressureBuffers,     \* FLUSH_PRESSURE_BUFFERS
  MaxWriteLoops,       \* maxWriteLoops of WorkerFunc
  MaxAppends(_)        \* bound on the records logged, for a scenario's operations

ASSUME ThreadsAssumption ==
  /\ IsFiniteSet(Callers)
  /\ Manager \notin Callers
  /\ None \notin Callers \cup {Manager}
  /\ \A s \in Scenarios : s.operations \subseteq {"log", "flush", "freeze"}
                         /\ s.registered \in BOOLEAN

ASSUME NumbersAssumption ==
  /\ {FlushAfter, BufferSize, MaxTotalBuffers, PressureBuffers, MaxWriteLoops}
       \subseteq Nat \ {0}
  /\ ScheduledRunGap \in Nat
  /\ \A s \in Scenarios : MaxAppends(s.operations) \in Nat

Threads == Callers \cup {Manager}

NoTime    == -1             \* FlushTime 0, no first-write time
RIGHT_NOW == 0
Due       == 1              \* a deadline that has passed
Later     == Due + FlushAfter
Deadlines == Due..Later

VARIABLES
  operations,         \* constant: those of the scenario
  FlushTime,
  Registered,
  ShutdownFlag,
  ShutdownCalled,
  QueuedBytes,        \* in records
  Current,            \* number of records in the queue's current buffer
  CurrentFirst,       \* deadline of the first of them (CurrentFirstWriteTime)
  ReadyList,          \* buffers: [size, first]
  batch,              \* sizes of the buffers of ReadyData
  Backends,           \* whether the backend is in the manager's list
  ActiveLinked,       \* whether it is in the manager's active list
  Reschedule,
  StopRequested,
  dataLock,           \* the caller that logs or freezes
  pc,
  hand,               \* the buffer a publisher has swapped out
  when,               \* argument of RequestFlush
  stamp,              \* deadline the appender read off FlushTime
  firstData,          \* result of the append in progress
  pressure,           \* whether that append found the queue under pressure
  forceFlush,         \* local variable of WorkerFunc
  loops,              \* iterations left to WorkerFunc
  draining,           \* the manager is in OnShutdown, not in WorkerFunc
  oldest,             \* deadline of the oldest data UpdateFlushTimeAfterWork saw
  timer,              \* deadline of the manager's timed wait
  logged,             \* history: records appended
  dropped,            \* history: records Append refused
  written             \* history: records written to the file

flags   == <<Registered, ShutdownFlag, ShutdownCalled>>
queue   == <<Current, CurrentFirst, ReadyList>>
manager == <<Backends, ActiveLinked, Reschedule, StopRequested>>
append  == <<stamp, firstData, pressure>>
worker  == <<batch, forceFlush, loops, draining, oldest, timer>>
history == <<logged, dropped, written>>
vars    == <<FlushTime, flags, QueuedBytes, queue, manager, dataLock, pc, hand,
             when, append, worker, history>>

----------------------------------------------------------------------------
Goto(t, label) == pc' = [pc EXCEPT ![t] = label]

NoBuffer == [size |-> 0, first |-> NoTime]

(* Buffers that are not free: what GetUsedBuffers returns.  A replacement   *)
(* can be had as long as they are fewer than the limit.                     *)
UsedBuffers ==
  1 + Len(ReadyList) + Len(batch)
    + Cardinality({t \in Threads : pc[t] \in {"swap", "enqueue"}})

Earlier(a, b) == IF a = NoTime \/ (b # NoTime /\ b < a) THEN b ELSE a

(* GetOldestReadyDataTime *)
FrontTime == IF ReadyList = <<>> THEN NoTime ELSE ReadyList[1].first

Init ==
  /\ \E s \in Scenarios : operations = s.operations /\ Registered = s.registered
  /\ FlushTime = NoTime
  /\ ShutdownFlag = FALSE
  /\ ShutdownCalled = FALSE
  /\ QueuedBytes = 0
  /\ Current = 0
  /\ CurrentFirst = NoTime
  /\ ReadyList = <<>>
  /\ batch = <<>>
  /\ Backends = Registered
  /\ ActiveLinked = FALSE
  /\ Reschedule = FALSE
  /\ StopRequested = FALSE
  /\ dataLock = None
  /\ pc = [t \in Threads |->
             IF t # Manager THEN "idle" ELSE IF Registered THEN "loop" ELSE "off"]
  /\ hand = [t \in Threads |-> NoBuffer]
  /\ when = [c \in Callers |-> RIGHT_NOW]
  /\ stamp = NoTime
  /\ firstData = FALSE
  /\ pressure = FALSE
  /\ forceFlush = FALSE
  /\ loops = 0
  /\ draining = FALSE
  /\ oldest = NoTime
  /\ timer = NoTime
  /\ logged = 0
  /\ dropped = 0
  /\ written = 0

----------------------------------------------------------------------------
(* Variants of the actions below, each with one mistake the properties at   *)
(* the end of the module tell from the code.                                *)

NotifyWithoutWakeup(c) ==
  /\ pc[c] = "notify"
  /\ ActiveLinked' = (ActiveLinked \/ Registered)
  /\ Goto(c, IF dataLock = c THEN "idle" ELSE "wait")
  /\ dataLock' = IF dataLock = c THEN None ELSE dataLock
  /\ when' = [when EXCEPT ![c] = RIGHT_NOW]
  /\ UNCHANGED <<FlushTime, flags, QueuedBytes, queue, Backends, Reschedule,
                 StopRequested, hand, append, worker, history>>

FreezeUnrequested(c) ==
  /\ "freeze" \in operations
  /\ pc[c] = "idle"
  /\ dataLock = None
  /\ ~ ShutdownFlag
  /\ ShutdownFlag' = TRUE
  /\ UNCHANGED <<FlushTime, Registered, ShutdownCalled, QueuedBytes, queue,
                 manager, dataLock, pc, hand, when, append, worker, history>>

(* OnShutdown that writes what is ready and leaves Current *)
NothingReadyGivesUp ==
  /\ pc[Manager] = "take"
  /\ ReadyList = <<>>
  /\ Goto(Manager, IF draining THEN "called" ELSE IF forceFlush THEN "publish"
                                                                ELSE "update")
  /\ UNCHANGED <<FlushTime, flags, QueuedBytes, queue, manager, dataLock, hand,
                 when, append, worker, history>>

(* buffers subtracted from QueuedBytes, not bytes *)
BatchBuffers == Len(batch)

(* no second look after FlushTime has been cleared *)
ClearFlushTimeFinally ==
  /\ pc[Manager] = "clear"
  /\ FlushTime' = NoTime
  /\ Goto(Manager, "worked")
  /\ UNCHANGED <<flags, QueuedBytes, queue, manager, dataLock, hand, when,
                 append, worker, history>>

----------------------------------------------------------------------------
(* Display: one record, under DataLock from here to the end of the call. *)

Display(c) ==
  /\ "log" \in operations
  /\ pc[c] = "idle"
  /\ dataLock = None
  /\ logged + dropped < MaxAppends(operations)
  /\ ~ ShutdownFlag
  /\ dataLock' = c
  /\ Goto(c, IF Registered THEN "load" ELSE "register")
  /\ UNCHANGED <<FlushTime, flags, QueuedBytes, queue, manager, hand, when,
                 append, worker, history>>

(* RegisterAsync: the backend is added (and the thread started) first, *)
FactoryAdd(c) ==
  /\ pc[c] = "register"
  /\ Backends' = TRUE
  /\ pc' = [pc EXCEPT ![c] = "registered",
                      ![Manager] = IF @ = "off" THEN "loop" ELSE @]
  /\ UNCHANGED <<FlushTime, flags, QueuedBytes, queue, ActiveLinked, Reschedule,
                 StopRequested, dataLock, hand, when, append, worker, history>>

(* marked as registered next: until then Notify ignores it. *)
SetRegistered(c) ==
  /\ pc[c] = "registered"
  /\ Registered' = TRUE
  /\ Goto(c, "load")
  /\ UNCHANGED <<FlushTime, ShutdownFlag, ShutdownCalled, QueuedBytes, queue,
                 manager, dataLock, hand, when, append, worker, history>>

(* AppendOutputData: data that joins a flush already scheduled takes over  *)
(* its deadline.                                                            *)
LoadFlushTime(c) ==
  /\ pc[c] = "load"
  /\ stamp' = IF FlushTime \in Deadlines THEN FlushTime ELSE Later
  /\ Goto(c, "append")
  /\ UNCHANGED <<FlushTime, flags, QueuedBytes, queue, manager, dataLock, hand,
                 when, firstData, pressure, worker, history>>

(* Queue.Append, the record fits into Current *)
AppendFits(c) ==
  /\ pc[c] = "append"
  /\ Current < BufferSize
  /\ Current' = Current + 1
  /\ CurrentFirst' = IF Current = 0 THEN stamp ELSE CurrentFirst
  /\ firstData' = (Current = 0)
  /\ stamp' = NoTime
  /\ logged' = logged + 1
  /\ Goto(c, "count")
  /\ UNCHANGED <<FlushTime, flags, QueuedBytes, ReadyList, manager, dataLock,
                 hand, when, pressure, worker, dropped, written>>

(* or into a new Current; the full one is enqueued in a step of its own *)
AppendFull(c) ==
  /\ pc[c] = "append"
  /\ Current = BufferSize
  /\ UsedBuffers < MaxTotalBuffers
  /\ hand' = [hand EXCEPT ![c] = [size |-> Current, first |-> CurrentFirst]]
  /\ Current' = 1
  /\ CurrentFirst' = stamp
  /\ firstData' = TRUE
  /\ stamp' = NoTime
  /\ logged' = logged + 1
  /\ Goto(c, "enqueue")
  /\ UNCHANGED <<FlushTime, flags, QueuedBytes, ReadyList, manager, dataLock,
                 when, pressure, worker, dropped, written>>

(* or is dropped because every buffer is in use. *)
AppendDrops(c) ==
  /\ pc[c] = "append"
  /\ Current = BufferSize
  /\ UsedBuffers >= MaxTotalBuffers
  /\ dropped' = dropped + 1
  /\ stamp' = NoTime
  /\ dataLock' = None
  /\ Goto(c, "idle")
  /\ UNCHANGED <<FlushTime, flags, QueuedBytes, queue, manager, hand, when,
                 firstData, pressure, worker, logged, written>>

CountQueued(c) ==
  /\ pc[c] = "count"
  /\ QueuedBytes' = QueuedBytes + 1
  /\ pressure' = (UsedBuffers >= PressureBuffers)
  /\ Goto(c, "decide")
  /\ UNCHANGED <<FlushTime, flags, queue, manager, dataLock, hand, when, stamp,
                 firstData, worker, history>>

(***************************************************************************)
(* FlushTime is read again to decide whether somebody must be told.        *)
(* SetCurrentFirstWriteTime, called here, finds the time Append has set    *)
(* and DataLock has protected, and changes nothing.                        *)
(***************************************************************************)
NeedsRequest ==
  IF pressure THEN FlushTime # RIGHT_NOW ELSE firstData /\ FlushTime = NoTime

DecideRequest(c) ==
  /\ pc[c] = "decide"
  /\ IF NeedsRequest
     THEN /\ when' = [when EXCEPT ![c] = IF pressure THEN RIGHT_NOW ELSE Later]
          /\ Goto(c, "request")
          /\ UNCHANGED dataLock
     ELSE /\ dataLock' = None
          /\ Goto(c, "idle")
          /\ UNCHANGED when
  /\ firstData' = FALSE
  /\ pressure' = FALSE
  /\ UNCHANGED <<FlushTime, flags, QueuedBytes, queue, manager, hand, stamp,
                 worker, history>>

----------------------------------------------------------------------------
(* RequestFlush of every caller, and what follows it in that caller. *)

(* Flush() waits for Done; Display and Freeze release DataLock. *)
AfterRequest(c) ==
  /\ Goto(c, IF dataLock = c THEN "idle" ELSE "wait")
  /\ dataLock' = IF dataLock = c THEN None ELSE dataLock
  /\ when' = [when EXCEPT ![c] = RIGHT_NOW]

(* A request that is not earlier than the one that stands is rejected. *)
Rejected(c) == FlushTime # NoTime /\ FlushTime <= when[c]

RequestRejected(c) ==
  /\ pc[c] = "request"
  /\ Rejected(c)
  /\ AfterRequest(c)
  /\ UNCHANGED <<FlushTime, flags, QueuedBytes, queue, manager, hand, append,
                 worker, history>>

RequestAccepted(c) ==
  /\ pc[c] = "request"
  /\ ~ Rejected(c)
  /\ FlushTime' = when[c]
  /\ Goto(c, "notify")
  /\ UNCHANGED <<flags, QueuedBytes, queue, manager, dataLock, hand, when,
                 append, worker, history>>

(* FileManager::Notify: a backend that is not Registered is ignored. *)
Notify(c) ==
  /\ pc[c] = "notify"
  /\ ActiveLinked' = (ActiveLinked \/ Registered)
  /\ Reschedule' = (Reschedule \/ Registered)
  /\ AfterRequest(c)
  /\ UNCHANGED <<FlushTime, flags, QueuedBytes, queue, Backends, StopRequested,
                 hand, append, worker, history>>

----------------------------------------------------------------------------
(* Flush() and Freeze() *)

Flush(c) ==
  /\ "flush" \in operations
  /\ pc[c] = "idle"
  /\ Goto(c, "publish")
  /\ UNCHANGED <<FlushTime, flags, QueuedBytes, queue, manager, dataLock, hand,
                 when, append, worker, history>>

(* Flush() returns once the queue has been written; Done wakes it then. *)
FlushReturns(c) ==
  /\ pc[c] = "wait"
  /\ QueuedBytes = 0
  /\ Goto(c, "idle")
  /\ UNCHANGED <<FlushTime, flags, QueuedBytes, queue, manager, dataLock, hand,
                 when, append, worker, history>>

(* Channel::Freeze calls it under DataLock.  Bound: once; a second call     *)
(* would find the flag set and ask for the same run again.                  *)
Freeze(c) ==
  /\ "freeze" \in operations
  /\ pc[c] = "idle"
  /\ dataLock = None
  /\ ~ ShutdownFlag
  /\ dataLock' = c
  /\ ShutdownFlag' = TRUE
  /\ Goto(c, "request")
  /\ UNCHANGED <<FlushTime, Registered, ShutdownCalled, QueuedBytes, queue,
                 manager, hand, when, append, worker, history>>

----------------------------------------------------------------------------
(***************************************************************************)
(* Queue.PublishCurrent of Flush(), of WorkerFunc and of OnShutdown.  The  *)
(* caller of Flush() publishes until there is nothing left; WorkerFunc     *)
(* goes on with its loop; OnShutdown looks at QueuedBytes again.           *)
(***************************************************************************)
NextLoop ==
  /\ forceFlush' = FALSE
  /\ loops' = loops - 1
  /\ Goto(Manager, IF loops > 1 THEN "take" ELSE "update")

Published(t) ==
  IF t # Manager
  THEN /\ Goto(t, IF dataLock = t THEN "count" ELSE "publish")
       /\ UNCHANGED <<forceFlush, loops>>
  ELSE IF draining
       THEN /\ Goto(t, "drain")
            /\ UNCHANGED <<forceFlush, loops>>
       ELSE NextLoop

NotPublished(t) ==
  Goto(t, IF t # Manager THEN "request" ELSE IF draining THEN "called" ELSE "update")

TakeReplacement(t) ==
  /\ pc[t] = "publish"
  /\ IF UsedBuffers < MaxTotalBuffers THEN Goto(t, "swap") ELSE NotPublished(t)
  /\ UNCHANGED <<FlushTime, flags, QueuedBytes, queue, manager, dataLock, hand,
                 when, append, worker, history>>

SwapCurrent(t) ==
  /\ pc[t] = "swap"
  /\ dataLock = None
  /\ Current > 0
  /\ hand' = [hand EXCEPT ![t] = [size |-> Current, first |-> CurrentFirst]]
  /\ Current' = 0
  /\ CurrentFirst' = NoTime
  /\ Goto(t, "enqueue")
  /\ UNCHANGED <<FlushTime, flags, QueuedBytes, ReadyList, manager, dataLock,
                 when, append, worker, history>>

NothingToPublish(t) ==
  /\ pc[t] = "swap"
  /\ dataLock = None
  /\ Current = 0
  /\ NotPublished(t)
  /\ UNCHANGED <<FlushTime, flags, QueuedBytes, queue, manager, dataLock, hand,
                 when, append, worker, history>>

EnqueueReady(t) ==
  /\ pc[t] = "enqueue"
  /\ ReadyList' = Append(ReadyList, hand[t])
  /\ hand' = [hand EXCEPT ![t] = NoBuffer]
  /\ Published(t)
  /\ UNCHANGED <<FlushTime, flags, QueuedBytes, Current, CurrentFirst, manager,
                 dataLock, when, append, batch, draining, oldest, timer, history>>

----------------------------------------------------------------------------
(***************************************************************************)
(* ManagementThread, holding the manager's Lock.  A head of the active     *)
(* list whose FlushTime has been cleared is unlinked; one that is due, or  *)
(* will be within the gap, runs now; for any other the thread waits.       *)
(***************************************************************************)
LoopStops ==
  /\ pc[Manager] = "loop"
  /\ StopRequested
  /\ Goto(Manager, "stopped")
  /\ UNCHANGED <<FlushTime, flags, QueuedBytes, queue, manager, dataLock, hand,
                 when, append, worker, history>>

WaitIdle ==
  /\ pc[Manager] = "loop"
  /\ ~ StopRequested
  /\ ActiveLinked => FlushTime = NoTime
  /\ ActiveLinked' = FALSE
  /\ Goto(Manager, "sleep")
  /\ UNCHANGED <<FlushTime, flags, QueuedBytes, queue, Backends, Reschedule,
                 StopRequested, dataLock, hand, when, append, worker, history>>

WaitUntilDue ==
  /\ pc[Manager] = "loop"
  /\ ~ StopRequested
  /\ ActiveLinked
  /\ FlushTime > Due + ScheduledRunGap
  /\ timer' = FlushTime
  /\ Goto(Manager, "sleep")
  /\ UNCHANGED <<FlushTime, flags, QueuedBytes, queue, manager, dataLock, hand,
                 when, append, batch, forceFlush, loops, draining, oldest,
                 history>>

WakeUp ==
  /\ pc[Manager] = "sleep"
  /\ Reschedule \/ StopRequested \/ timer = Due
  /\ Reschedule' = FALSE
  /\ timer' = NoTime
  /\ Goto(Manager, "loop")
  /\ UNCHANGED <<FlushTime, flags, QueuedBytes, queue, Backends, ActiveLinked,
                 StopRequested, dataLock, hand, when, append, batch, forceFlush,
                 loops, draining, oldest, history>>

RunBackend ==
  /\ pc[Manager] = "loop"
  /\ ~ StopRequested
  /\ ActiveLinked
  /\ FlushTime \in RIGHT_NOW..(Due + ScheduledRunGap)
  /\ FlushTime' = IF FlushTime > Due THEN RIGHT_NOW ELSE FlushTime
  /\ ActiveLinked' = FALSE
  /\ Goto(Manager, "run")
  /\ UNCHANGED <<flags, QueuedBytes, queue, Backends, Reschedule, StopRequested,
                 dataLock, hand, when, append, worker, history>>

----------------------------------------------------------------------------
(* WorkerFunc *)

WorkerFunc ==
  /\ pc[Manager] = "run"
  /\ forceFlush' = (ShutdownFlag \/ FlushTime = RIGHT_NOW)
  /\ loops' = MaxWriteLoops
  /\ Goto(Manager, "take")
  /\ UNCHANGED <<FlushTime, flags, QueuedBytes, queue, manager, dataLock, hand,
                 when, append, batch, draining, oldest, timer, history>>

(* WriteReadyData, called by WorkerFunc and by OnShutdown *)
TakeReady ==
  /\ pc[Manager] = "take"
  /\ ReadyList # <<>>
  /\ batch' = [i \in 1..Len(ReadyList) |-> ReadyList[i].size]
  /\ ReadyList' = <<>>
  /\ Goto(Manager, "write")
  /\ UNCHANGED <<FlushTime, flags, QueuedBytes, Current, CurrentFirst, manager,
                 dataLock, hand, when, append, forceFlush, loops, draining,
                 oldest, timer, history>>

NothingReady ==
  /\ pc[Manager] = "take"
  /\ ReadyList = <<>>
  /\ Goto(Manager, IF forceFlush \/ draining THEN "publish" ELSE "update")
  /\ UNCHANGED <<FlushTime, flags, QueuedBytes, queue, manager, dataLock, hand,
                 when, append, worker, history>>

(* The records in buffers of these sizes: one for each cell. *)
Records(size) ==
  Cardinality({x \in (DOMAIN size) \X (1..BufferSize) : x[2] <= size[x[1]]})

BatchRecords == Records(batch)

WriteReadyData ==
  /\ pc[Manager] = "write"
  /\ written' = written + BatchRecords
  /\ QueuedBytes' = QueuedBytes - BatchRecords
  /\ batch' = <<>>
  /\ IF draining
     THEN /\ Goto(Manager, "drain")
          /\ UNCHANGED <<forceFlush, loops>>
     ELSE NextLoop
  /\ UNCHANGED <<FlushTime, flags, queue, manager, dataLock, hand, when, append,
                 draining, oldest, timer, logged, dropped>>

(***************************************************************************)
(* UpdateFlushTimeAfterWork.  It reads the front of ReadyList, then        *)
(* CurrentFirstWriteTime; with neither it clears FlushTime, unless the     *)
(* flag of Current is up, and looks at all of them once more.              *)
(***************************************************************************)
ReadReadyTime(from, to) ==
  /\ pc[Manager] = from
  /\ oldest' = FrontTime
  /\ Goto(Manager, to)
  /\ UNCHANGED <<FlushTime, flags, QueuedBytes, queue, manager, dataLock, hand,
                 when, append, batch, forceFlush, loops, draining, timer,
                 history>>

ReadCurrentTime(from, to) ==
  /\ pc[Manager] = from
  /\ oldest' = Earlier(oldest, CurrentFirst)
  /\ Goto(Manager, IF oldest' # NoTime THEN "store" ELSE to)
  /\ UNCHANGED <<FlushTime, flags, QueuedBytes, queue, manager, dataLock, hand,
                 when, append, batch, forceFlush, loops, draining, timer,
                 history>>

UpdateFromOldest ==
  /\ pc[Manager] = "store"
  /\ FlushTime' = IF oldest = Due THEN RIGHT_NOW ELSE oldest
  /\ oldest' = NoTime
  /\ Goto(Manager, "worked")
  /\ UNCHANGED <<flags, QueuedBytes, queue, manager, dataLock, hand, when,
                 append, batch, forceFlush, loops, draining, timer, history>>

TestCurrentFlag ==
  /\ pc[Manager] = "flag"
  /\ Goto(Manager, IF Current > 0 THEN "worked" ELSE "clear")
  /\ UNCHANGED <<FlushTime, flags, QueuedBytes, queue, manager, dataLock, hand,
                 when, append, worker, history>>

ClearFlushTime ==
  /\ pc[Manager] = "clear"
  /\ FlushTime' = NoTime
  /\ Goto(Manager, "update again")
  /\ UNCHANGED <<flags, QueuedBytes, queue, manager, dataLock, hand, when,
                 append, worker, history>>

TestHasReady ==
  /\ pc[Manager] = "ready"
  /\ IF ReadyList # <<>>
     THEN /\ FlushTime' = RIGHT_NOW
          /\ Goto(Manager, "worked")
     ELSE /\ Goto(Manager, "flag again")
          /\ UNCHANGED FlushTime
  /\ UNCHANGED <<flags, QueuedBytes, queue, manager, dataLock, hand, when,
                 append, worker, history>>

TestCurrentFlagAgain ==
  /\ pc[Manager] = "flag again"
  /\ FlushTime' = IF Current > 0 THEN Later ELSE FlushTime
  /\ Goto(Manager, "worked")
  /\ UNCHANGED <<flags, QueuedBytes, queue, manager, dataLock, hand, when,
                 append, worker, history>>

UpdateFlushTimeAfterWork ==
  \/ ReadReadyTime("update", "current")
  \/ ReadCurrentTime("current", "flag")
  \/ TestCurrentFlag
  \/ ClearFlushTime
  \/ ReadReadyTime("update again", "current again")
  \/ ReadCurrentTime("current again", "ready")
  \/ TestHasReady
  \/ TestCurrentFlagAgain
  \/ UpdateFromOldest

----------------------------------------------------------------------------
(* ManagementThread after WorkerFunc *)

WorkerReturns ==
  /\ pc[Manager] = "worked"
  /\ forceFlush' = FALSE
  /\ loops' = 0
  /\ Goto(Manager, IF ShutdownFlag THEN "remove" ELSE "reactivate")
  /\ UNCHANGED <<FlushTime, flags, QueuedBytes, queue, manager, dataLock, hand,
                 when, append, batch, draining, oldest, timer, history>>

Reactivate ==
  /\ pc[Manager] = "reactivate"
  /\ ActiveLinked' = (FlushTime # NoTime)
  /\ Goto(Manager, "loop")
  /\ UNCHANGED <<FlushTime, flags, QueuedBytes, queue, Backends, Reschedule,
                 StopRequested, dataLock, hand, when, append, worker, history>>

(* RemoveBackendLocked; the manager stops with its last backend. *)
RemoveBackend ==
  /\ pc[Manager] = "remove"
  /\ Registered' = FALSE
  /\ FlushTime' = NoTime
  /\ Backends' = FALSE
  /\ ActiveLinked' = FALSE
  /\ StopRequested' = TRUE
  /\ draining' = TRUE
  /\ Goto(Manager, "drain")
  /\ UNCHANGED <<ShutdownFlag, ShutdownCalled, QueuedBytes, queue, Reschedule,
                 dataLock, hand, when, append, batch, forceFlush, loops, oldest,
                 timer, history>>

(* OnShutdown writes and publishes until nothing is left or can be had. *)
DrainQueue ==
  /\ pc[Manager] = "drain"
  /\ Goto(Manager, IF QueuedBytes # 0 THEN "take" ELSE "called")
  /\ UNCHANGED <<FlushTime, flags, QueuedBytes, queue, manager, dataLock, hand,
                 when, append, worker, history>>

SetShutdownCalled ==
  /\ pc[Manager] = "called"
  /\ ShutdownCalled' = TRUE
  /\ draining' = FALSE
  /\ Goto(Manager, "loop")
  /\ UNCHANGED <<FlushTime, Registered, ShutdownFlag, QueuedBytes, queue,
                 manager, dataLock, hand, when, append, batch, forceFlush, loops,
                 oldest, timer, history>>

----------------------------------------------------------------------------
(* Time passes: every deadline comes one unit nearer. *)
Nearer(deadline) == IF deadline > Due THEN deadline - 1 ELSE deadline

Tick ==
  /\ FlushTime' = Nearer(FlushTime)
  /\ CurrentFirst' = Nearer(CurrentFirst)
  /\ ReadyList' = [i \in 1..Len(ReadyList) |->
                     [ReadyList[i] EXCEPT !.first = Nearer(@)]]
  /\ hand' = [t \in Threads |-> [hand[t] EXCEPT !.first = Nearer(@)]]
  /\ when' = [c \in Callers |-> Nearer(when[c])]
  /\ stamp' = Nearer(stamp)
  /\ oldest' = Nearer(oldest)
  /\ timer' = Nearer(timer)
  /\ UNCHANGED <<flags, QueuedBytes, Current, manager, dataLock, pc, firstData,
                 pressure, batch, forceFlush, loops, draining, history>>

Publish(t) ==
  \/ TakeReplacement(t)
  \/ SwapCurrent(t)
  \/ NothingToPublish(t)
  \/ EnqueueReady(t)

(* The steps of a call that has begun. *)
CallStep(c) ==
  \/ FactoryAdd(c)
  \/ SetRegistered(c)
  \/ LoadFlushTime(c)
  \/ AppendFits(c)
  \/ AppendFull(c)
  \/ AppendDrops(c)
  \/ CountQueued(c)
  \/ DecideRequest(c)
  \/ RequestRejected(c)
  \/ RequestAccepted(c)
  \/ Notify(c)
  \/ FlushReturns(c)
  \/ Publish(c)

ManagerStep ==
  \/ LoopStops
  \/ WaitIdle
  \/ WaitUntilDue
  \/ WakeUp
  \/ RunBackend
  \/ WorkerFunc
  \/ TakeReady
  \/ NothingReady
  \/ WriteReadyData
  \/ Publish(Manager)
  \/ UpdateFlushTimeAfterWork
  \/ WorkerReturns
  \/ Reactivate
  \/ RemoveBackend
  \/ DrainQueue
  \/ SetShutdownCalled

Next ==
  /\ UNCHANGED operations
  /\ \/ \E c \in Callers : Display(c) \/ Flush(c) \/ Freeze(c)
     \/ \E c \in Callers : CallStep(c)
     \/ ManagerStep
     \/ Tick

(***************************************************************************)
(* A thread that is inside a call, the manager and the clock go on; nobody *)
(* has to log, flush or freeze.                                            *)
(***************************************************************************)
Fairness ==
  /\ \A c \in Callers : WF_vars(CallStep(c))
  /\ WF_vars(ManagerStep)
  /\ WF_vars(Tick)

Spec == Init /\ [][Next]_<<operations, vars>> /\ Fairness

----------------------------------------------------------------------------
(* Properties *)

Times == {NoTime, RIGHT_NOW} \cup Deadlines

Labels ==
  {"idle", "register", "registered", "load", "append", "count", "decide",
   "request", "notify", "wait", "publish", "swap", "enqueue"}

ManagerLabels ==
  {"off", "loop", "sleep", "run", "take", "write", "publish", "swap", "enqueue",
   "update", "current", "flag", "clear", "update again", "current again", "ready",
   "flag again", "store", "worked", "reactivate", "remove", "drain", "called",
   "stopped"}

Buffers == [size : Nat, first : {NoTime} \cup Deadlines]

TypeOK ==
  /\ FlushTime \in Times
  /\ {Registered, ShutdownFlag, ShutdownCalled, Backends, ActiveLinked,
      Reschedule, StopRequested, firstData, pressure, forceFlush, draining}
       \subseteq BOOLEAN
  /\ {QueuedBytes, Current, loops, logged, dropped, written} \subseteq Nat
  /\ {CurrentFirst, stamp, oldest, timer} \subseteq {NoTime} \cup Deadlines
  /\ ReadyList \in Seq(Buffers)
  /\ batch \in Seq(Nat)
  /\ dataLock \in Callers \cup {None}
  /\ \A c \in Callers : pc[c] \in Labels
  /\ pc[Manager] \in ManagerLabels
  /\ hand \in [Threads -> Buffers]
  /\ when \in [Callers -> Times \ {NoTime}]

(* Records that have been counted but not written. *)
ReadyRecords == Records([i \in DOMAIN ReadyList |-> ReadyList[i].size])
HandRecords  == Records([t \in Threads |-> hand[t].size])

Uncounted ==
  IF dataLock # None /\ pc[dataLock] \in {"count", "enqueue"} THEN 1 ELSE 0

(***************************************************************************)
(* Every variable keeps its type, and QueuedBytes, the number Flush(),      *)
(* IsIdle and OnShutdown trust, is exact whatever the threads are doing, but *)
(* for the record of the append in progress; it never wraps below zero, and *)
(* no record is lost.                                                       *)
(***************************************************************************)
QueuedExact ==
  /\ TypeOK
  /\ QueuedBytes + Uncounted = Current + ReadyRecords + HandRecords + BatchRecords
  /\ QueuedBytes + Uncounted = logged - written

(* A caller that has yet to tell the manager, or to give up telling it. *)
Busy(c) == pc[c] \notin {"idle", "wait"}

Sleeping == pc[Manager] = "sleep" /\ ~ Reschedule /\ ~ StopRequested

(***************************************************************************)
(* No lost wakeup: when no caller is about to notify the manager, a manager *)
(* that sleeps for good has nothing to write and FlushTime is clear, so that *)
(* the next record asks for a flush again; one that sleeps for a time does  *)
(* so for the FlushTime that stands, whoever brought it forward and when.   *)
(***************************************************************************)
NoLostWakeup ==
  Sleeping /\ Registered /\ (\A c \in Callers : ~ Busy(c)) =>
    IF timer = NoTime THEN QueuedBytes = 0 /\ FlushTime = NoTime ELSE FlushTime = timer

(***************************************************************************)
(* OnShutdown has stopped trying although records are queued: it found      *)
(* nothing ready and nothing to publish because a Flush() held the buffer   *)
(* between taking and queuing it, or the replacement it would have needed.   *)
(* Nobody serves the backend from then on.                                  *)
(***************************************************************************)
GivesUp ==
  /\ draining
  /\ pc[Manager] = "called"
  /\ QueuedBytes # 0
  /\ ReadyList # <<>> \/ \E c \in Callers : pc[c] \in {"swap", "enqueue"}

(* Every record that was accepted is written, *)
AllWritten == []<>(logged = written)

(* without anybody's help, also when Freeze and Flush come in between, but  *)
(* for the one case in which OnShutdown gives up.                           *)
EventuallyWritten == AllWritten \/ <>GivesUp

(* Flush() returns, as every other call does, unless OnShutdown gave up on  *)
(* the records it waits for.                                                *)
FlushReturnsEventually == (\A c \in Callers : []<>(pc[c] = "idle")) \/ <>GivesUp

(* A backend that was frozen is removed from the manager and reports it. *)
FreezeIsAnswered == []<>(ShutdownFlag => ShutdownCalled \/ ~ Registered)
============================================================================
