---------------------------- MODULE QueueManagers ----------------------------
(***************************************************************************)
(* The managers behind the console, debug and event log backends            *)
(* (ConsoleManager.cpp, DebugManager.cpp, WindowsEventLogManager.cpp, their *)
(* factories, and the backends' registration): a bounded queue that a       *)
(* worker empties, that callers empty themselves when they flush or when no *)
(* worker can, and that is replaced by another one when its last backend    *)
(* has left.                                                                 *)
(*                                                                         *)
(* Every thread has a channel and a backend of its own: the channel's lock  *)
(* keeps two calls on one backend apart.  A section under a manager's Lock  *)
(* is one step; a wait with a timeout is a step that is taken when what it   *)
(* waits for is the case.  A record is a number, and the limit is a number   *)
(* of records.  Output to a terminal is one step under the output lock.      *)
(***************************************************************************)
EXTENDS Integers, Sequences, FiniteSets, SequencesExt

CONSTANTS
  Kinds,               \* the managers modelled: "console", "debug", "event log"
  Policies,            \* what a console does when its queue is full: "block", or "drop",
                       \* the new record or the oldest
  Threads,
  Managers,            \* 1..n: managers that may be made
  QueueLimits,         \* numbers of records a queue may hold
  MaxRecords,          \* bound on the records displayed
  MaxFlushes,          \* bound on the calls of Flush
  MayClose             \* the logger may be destroyed

ASSUME QueueAssumption ==
  /\ Kinds \subseteq {"console", "debug", "event log"}
  /\ Policies \subseteq {"block", "drop"}
  /\ {MaxRecords, MaxFlushes} \subseteq Nat /\ QueueLimits \subseteq Nat \ {0}
  /\ IsFiniteSet(Managers) /\ Managers = 1..Cardinality(Managers)
  /\ IsFiniteSet(Threads) /\ Threads \cap ({0} \cup Managers) = {}
  /\ MayClose \in BOOLEAN

VARIABLES
  kind, policy, QueueLimit,
  Instance,            \* the factory's manager, 0 if there is none
  created,             \* managers made so far
  factoryLock,         \* the thread inside Add
  StopRequested, Reschedule, Processing, Buffer, Backends,  \* of each manager
  worker,              \* where the manager's thread is
  stopping,            \* its local copy of StopRequested
  life,                \* of the manager: alive, or where the destructor is
  Registered, frozen, Manager,  \* of each backend
  pc,                  \* where the thread is
  manager,             \* the manager it calls
  record,              \* the record it displays
  next,                \* what it does when it has drained or pushed
  batch,               \* records a thread or a worker is about to write
  closing,             \* the logger is being destroyed
  written,             \* history: records written, in order
  accepted,            \* history: records a manager has taken, in order
  ignored,             \* history: records dropped
  drained,             \* history: managers emptied by others than their worker
  pending,             \* history: what a thread's Flush has to wait for
  owner,               \* history: the backend of each record displayed
  flushes              \* history: calls of Flush

config   == <<kind, policy, QueueLimit>>
factory  == <<Instance, created, factoryLock>>
queues   == <<StopRequested, Reschedule, Processing, Buffer, Backends>>
workers  == <<worker, stopping, life>>
backends == <<Registered, frozen, Manager>>
threads  == <<pc, manager, record, next>>
history  == <<written, accepted, ignored, drained, pending>>
vars     == <<config, factory, queues, workers, backends, threads, batch, closing, history,
              owner, flushes>>

None == 0
IsConsole == kind = "console"
HasSpace(m) == Len(Buffer[m]) < QueueLimit
WorkerAvailable(m) == worker[m] \notin {"none", "ended"} /\ ~StopRequested[m]

(* CV.wait tests its condition and blocks without letting the Lock go.       *)
LockFree(m) == worker[m] # "blocking"
(* Deviant: no one is notified.                                              *)
NotifiedNever(m) == worker

Notified(m) == IF worker[m] = "blocked" THEN [worker EXCEPT ![m] = "test"] ELSE worker

Goto(t, label) == pc' = [pc EXCEPT ![t] = label]

----------------------------------------------------------------------------
(* Display: registration                                                     *)

(* The manager a call goes to, from the backend or from the factory.         *)
Target(t) == IF IsConsole THEN Manager[t] ELSE Instance

Display(t) ==
  /\ pc[t] = "idle"
  /\ ~frozen[t] /\ ~closing
  /\ Len(owner) < MaxRecords
  /\ owner' = Append(owner, t)
  /\ record' = [record EXCEPT ![t] = Len(owner) + 1]
  /\ next' = [next EXCEPT ![t] = "idle"]
  /\ Goto(t, IF Registered[t] THEN "registered" ELSE "add")
  /\ UNCHANGED <<config, factory, queues, workers, backends, manager, batch, closing, history,
                 flushes>>

(* A synchronous debug backend writes by way of the queue, if there is one.  *)
DisplaySync(t) ==
  /\ pc[t] = "idle"
  /\ ~IsConsole /\ ~frozen[t] /\ ~closing
  /\ Len(owner) < MaxRecords
  /\ owner' = Append(owner, t)
  /\ record' = [record EXCEPT ![t] = Len(owner) + 1]
  /\ next' = [next EXCEPT ![t] = "flush"]
  /\ Goto(t, "registered")
  /\ UNCHANGED <<config, factory, queues, workers, backends, manager, batch, closing, history,
                 flushes>>

(* Add: a manager that stops is let go, another one made.                    *)
Add(t) ==
  LET fresh == Instance = None \/ StopRequested[Instance] IN
    /\ pc[t] = "add"
    /\ factoryLock = None
    /\ fresh => created + 1 \in Managers
    /\ factoryLock' = t
    /\ Instance' = IF fresh THEN created + 1 ELSE Instance
    /\ created' = IF fresh THEN created + 1 ELSE created
    /\ manager' = [manager EXCEPT ![t] = Instance']
    /\ Goto(t, "adding")
    /\ UNCHANGED <<config, queues, workers, backends, record, next, batch, closing, history,
                   owner, flushes>>

(* The worker is started with the first backend; a console's is not when it  *)
(* stops already.                                                            *)
AddBackend(t) ==
  LET m == manager[t] IN
    /\ pc[t] = "adding"
    /\ LockFree(m)
    /\ Backends' = [Backends EXCEPT ![m] = @ \cup {t}]
    /\ worker' = IF worker[m] = "none" /\ ~(IsConsole /\ StopRequested[m])
                 THEN [worker EXCEPT ![m] = "test"] ELSE worker
    /\ factoryLock' = None
    /\ Registered' = [Registered EXCEPT ![t] = TRUE]
    /\ Manager' = [Manager EXCEPT ![t] = IF IsConsole THEN m ELSE None]
    /\ manager' = [manager EXCEPT ![t] = None]
    /\ Goto(t, "registered")
    /\ UNCHANGED <<config, Instance, created, StopRequested, Reschedule, Processing, Buffer,
                   stopping, life, frozen, record, next, batch, closing, history, owner,
                   flushes>>

(* A console's record is ignored if the manager stops, any other is written  *)
(* directly.                                                                 *)
NotAccepted(t) ==
  /\ IF IsConsole THEN ignored' = ignored \cup {record[t]} /\ UNCHANGED written
                  ELSE written' = Append(written, record[t]) /\ UNCHANGED ignored
  /\ manager' = [manager EXCEPT ![t] = None]
  /\ record' = [record EXCEPT ![t] = None]
  /\ Goto(t, "idle")

TestStopping(t) ==
  /\ pc[t] = "registered"
  /\ IsConsole \/ factoryLock = None
  /\ IF Target(t) = None \/ StopRequested[Target(t)]
     THEN NotAccepted(t)
     ELSE /\ manager' = [manager EXCEPT ![t] = Target(t)]
          /\ Goto(t, "push")
          /\ UNCHANGED <<record, written, ignored>>
  /\ UNCHANGED <<config, factory, queues, workers, backends, next, batch, closing, accepted,
                 drained, pending, owner, flushes>>

----------------------------------------------------------------------------
(* Push                                                                      *)

(* The record goes into the queue behind what is kept of it.                 *)
Enqueue(t, kept) ==
  LET m == manager[t]
      wake == IF IsConsole THEN kept = <<>> /\ ~Processing[m] ELSE TRUE IN
    /\ Buffer' = [Buffer EXCEPT ![m] = Append(kept, record[t])]
    /\ ignored' = ignored \cup (ToSet(Buffer[m]) \ ToSet(kept))
    /\ accepted' = [accepted EXCEPT ![m] = Append(@, record[t])]
    /\ Reschedule' = [Reschedule EXCEPT ![m] = @ \/ wake]
    /\ worker' = IF wake THEN Notified(m) ELSE worker
    /\ record' = [record EXCEPT ![t] = None]
    /\ manager' = IF next[t] = "flush" THEN manager ELSE [manager EXCEPT ![t] = None]
    /\ pending' = [pending EXCEPT ![t] = IF next[t] = "flush" THEN ToSet(accepted[m]) \cup {record[t]}
                                                              ELSE @]
    /\ Goto(t, next[t])
    /\ UNCHANGED <<config, factory, StopRequested, Processing, Backends, stopping, life, backends,
                   next, batch, closing, written, drained, owner, flushes>>

PushWithSpace(t) ==
  LET m == manager[t] IN
    /\ pc[t] = "push"
    /\ LockFree(m)
    /\ HasSpace(m)
    /\ ~IsConsole => ~StopRequested[m]
    /\ Enqueue(t, Buffer[m])

PushDropOldest(t) ==
  LET m == manager[t] IN
    /\ pc[t] = "push"
    /\ LockFree(m)
    /\ ~HasSpace(m)
    /\ IsConsole /\ policy = "drop"
    /\ Enqueue(t, SubSeq(Buffer[m], Len(Buffer[m]) - QueueLimit + 2, Len(Buffer[m])))

PushDropNew(t) ==
  /\ pc[t] = "push"
  /\ LockFree(manager[t])
  /\ ~HasSpace(manager[t])
  /\ IsConsole /\ policy = "drop"
  /\ NotAccepted(t)
  /\ UNCHANGED <<config, factory, queues, workers, backends, next, batch, closing, accepted,
                 drained, pending, owner, flushes>>

(* Deviant: what is taken is not taken out of the queue.                     *)
TakeBatchKeep(t, label) ==
  LET m == manager[t] IN
    /\ Buffer[m] # <<>>
    /\ batch' = [batch EXCEPT ![t] = Buffer[m]]
    /\ Processing' = [Processing EXCEPT ![m] = TRUE]
    /\ drained' = drained \cup {m}
    /\ Goto(t, label)
    /\ UNCHANGED Buffer

(* A caller takes what is in the queue to write it (DrainPending).           *)
TakeBatch(t, label) ==
  LET m == manager[t] IN
    /\ Buffer[m] # <<>>
    /\ batch' = [batch EXCEPT ![t] = Buffer[m]]
    /\ Buffer' = [Buffer EXCEPT ![m] = <<>>]
    /\ Processing' = [Processing EXCEPT ![m] = TRUE]
    /\ drained' = drained \cup {m}
    /\ Goto(t, label)

(* No space and no worker: the caller empties the queue.  A console's lets   *)
(* the Lock go before that, and tries again after it.                        *)
PushDrains(t) ==
  LET m == manager[t] IN
    /\ pc[t] = "push"
    /\ LockFree(m)
    /\ ~HasSpace(m)
    /\ ~WorkerAvailable(m)
    /\ IF IsConsole
       THEN policy = "block" /\ Goto(t, "drain push") /\ UNCHANGED <<batch, Buffer, Processing, drained>>
       ELSE TakeBatch(t, "write push")
    /\ UNCHANGED <<config, factory, StopRequested, Reschedule, Backends, workers, backends,
                   manager, record, next, closing, written, accepted, ignored, pending, owner,
                   flushes>>

PushStopped(t) ==
  LET m == manager[t] IN
    /\ \/ pc[t] = "refused"
       \/ pc[t] = "push" /\ ~IsConsole /\ LockFree(m) /\ HasSpace(m) /\ StopRequested[m]
    /\ NotAccepted(t)
    /\ UNCHANGED <<config, factory, queues, workers, backends, next, batch, closing, accepted,
                   drained, pending, owner, flushes>>

----------------------------------------------------------------------------
(* DrainPending                                                              *)

(* A console's caller goes on until the queue is empty.                      *)
DrainTakes(t) ==
  /\ pc[t] \in {"drain push", "drain flush"}
  /\ LockFree(manager[t])
  /\ TakeBatch(t, IF pc[t] = "drain push" THEN "write push" ELSE "write flush")
  /\ UNCHANGED <<config, factory, StopRequested, Reschedule, Backends, workers, backends, manager,
                 record, next, closing, written, accepted, ignored, pending, owner, flushes>>

DrainFindsNothing(t) ==
  /\ pc[t] \in {"drain push", "drain flush"}
  /\ LockFree(manager[t])
  /\ Buffer[manager[t]] = <<>>
  /\ Goto(t, IF pc[t] = "drain push" THEN "push" ELSE "flush")
  /\ UNCHANGED <<config, factory, queues, workers, backends, manager, record, next, batch,
                 closing, history, owner, flushes>>

DrainWrites(t) ==
  /\ pc[t] \in {"write push", "write flush", "write remove"}
  /\ batch[t] # <<>>
  /\ written' = written \o batch[t]
  /\ batch' = [batch EXCEPT ![t] = <<>>]
  /\ UNCHANGED <<config, factory, queues, workers, backends, threads, closing, accepted, ignored,
                 drained, pending, owner, flushes>>

DrainEnds(t) ==
  LET m == manager[t] IN
    /\ pc[t] \in {"write push", "write flush", "write remove"}
    /\ batch[t] = <<>>
    /\ LockFree(m)
    /\ Processing' = [Processing EXCEPT ![m] = FALSE]
    /\ Goto(t, CASE pc[t] = "write remove" -> "removing"
                 [] pc[t] = "write push" -> IF IsConsole THEN "drain push" ELSE "refused"
                 [] pc[t] = "write flush" -> IF IsConsole THEN "drain flush" ELSE "flushed")
    /\ UNCHANGED <<config, factory, StopRequested, Reschedule, Buffer, Backends, workers,
                   backends, manager, record, next, batch, closing, history, owner, flushes>>

----------------------------------------------------------------------------
(* Flush                                                                     *)

(* Records a manager has taken and that are to be written.                   *)
Unwritten(m) == ToSet(accepted[m]) \ (ToSet(written) \cup ignored)

BeginFlush(t, m) ==
  /\ manager' = [manager EXCEPT ![t] = m]
  /\ pending' = [pending EXCEPT ![t] = IF m = None THEN {} ELSE Unwritten(m)]
  /\ Goto(t, IF m = None THEN "idle" ELSE "flush")

(* Of the backend or of the logger (FlushAll).                               *)
Flush(t) ==
  /\ pc[t] = "idle"
  /\ ~closing
  /\ factoryLock = None
  /\ flushes < MaxFlushes
  /\ flushes' = flushes + 1
  /\ \E m \in {Instance, IF IsConsole /\ Manager[t] # None THEN Manager[t] ELSE Instance} :
       BeginFlush(t, m)
  /\ UNCHANGED <<config, factory, queues, workers, backends, record, next, batch, closing,
                 written, accepted, ignored, drained, owner>>

(* A console's caller gives up waiting for a worker that stops.              *)
FlushResets(t) ==
  LET m == manager[t] IN
    /\ pc[t] = "flush"
    /\ LockFree(m)
    /\ IsConsole /\ Processing[m] /\ ~WorkerAvailable(m)
    /\ Processing' = [Processing EXCEPT ![m] = FALSE]
    /\ UNCHANGED <<config, factory, StopRequested, Reschedule, Buffer, Backends, workers,
                   backends, threads, batch, closing, history, owner, flushes>>

(* A console's caller writes what no one is writing; any other waits for the *)
(* worker if there is one.                                                   *)
FlushDrains(t) ==
  LET m == manager[t] IN
    /\ pc[t] = "flush"
    /\ LockFree(m)
    /\ Buffer[m] # <<>>
    /\ IF IsConsole
       THEN ~Processing[m] /\ Goto(t, "drain flush") /\ UNCHANGED <<batch, Buffer, Processing, drained>>
       ELSE ~WorkerAvailable(m) /\ TakeBatch(t, "write flush")
    /\ UNCHANGED <<config, factory, StopRequested, Reschedule, Backends, workers, backends,
                   manager, record, next, closing, written, accepted, ignored, pending, owner,
                   flushes>>

(* Deviant: an empty queue is enough.                                        *)
FlushFindsEmpty(t) ==
  LET m == manager[t] IN
    /\ pc[t] = "flush"
    /\ LockFree(m)
    /\ Buffer[m] = <<>>
    /\ Goto(t, "flushed")
    /\ UNCHANGED <<config, factory, queues, workers, backends, manager, record, next, batch,
                   closing, history, owner, flushes>>

FlushFindsNothing(t) ==
  LET m == manager[t] IN
    /\ pc[t] = "flush"
    /\ LockFree(m)
    /\ Buffer[m] = <<>>
    /\ ~Processing[m] \/ (~IsConsole /\ ~WorkerAvailable(m))
    /\ Goto(t, "flushed")
    /\ UNCHANGED <<config, factory, queues, workers, backends, manager, record, next, batch,
                   closing, history, owner, flushes>>

FlushReturns(t) ==
  /\ pc[t] = "flushed"
  /\ manager' = [manager EXCEPT ![t] = None]
  /\ pending' = [pending EXCEPT ![t] = {}]
  /\ Goto(t, "idle")
  /\ UNCHANGED <<config, factory, queues, workers, backends, record, next, batch, closing,
                 written, accepted, ignored, drained, owner, flushes>>

----------------------------------------------------------------------------
(* Freeze and the end of a manager                                           *)

Freeze(t) ==
  /\ pc[t] = "idle"
  /\ ~frozen[t]
  /\ frozen' = [frozen EXCEPT ![t] = TRUE]
  /\ Registered' = [Registered EXCEPT ![t] = FALSE]
  /\ factoryLock = None
  /\ IF Registered[t] /\ Instance # None
     THEN /\ manager' = [manager EXCEPT ![t] = Instance]
          /\ Goto(t, "remove")
          /\ UNCHANGED <<Manager, pending, flushes>>
     ELSE /\ Manager' = [Manager EXCEPT ![t] = None]
          /\ BeginFlush(t, IF Registered[t] THEN None ELSE Instance)
          /\ flushes' = flushes + 1
  /\ UNCHANGED <<config, factory, queues, workers, record, next, batch, closing, written,
                 accepted, ignored, drained, owner>>

(* Deviant: a backend that leaves looks at the queue only.                   *)
WaitsForNobody(m) == FALSE

(* The records of the event log name their backend: what a worker writes is  *)
(* waited for and what is left is written before the backend may go.         *)
WaitsForWorker(m) == Processing[m] /\ WorkerAvailable(m)

RemoveDrains(t) ==
  LET m == manager[t] IN
    /\ kind = "event log"
    /\ pc[t] = "remove"
    /\ LockFree(m)
    /\ ~WaitsForWorker(m)
    /\ TakeBatch(t, "write remove")
    /\ UNCHANGED <<config, factory, StopRequested, Reschedule, Backends, workers, backends,
                   manager, record, next, closing, written, accepted, ignored, pending, owner,
                   flushes>>

(* The last backend stops the manager.                                       *)
RemoveBackend(t) ==
  LET m == manager[t]
      empty == Backends[m] \ {t} = {} IN
    /\ \/ pc[t] = "removing"
       \/ pc[t] = "remove" /\ (kind = "event log" => Buffer[m] = <<>> /\ ~WaitsForWorker(m))
    /\ LockFree(m)
    /\ Backends' = [Backends EXCEPT ![m] = @ \ {t}]
    /\ StopRequested' = [StopRequested EXCEPT ![m] = @ \/ empty]
    /\ Reschedule' = [Reschedule EXCEPT ![m] = @ \/ empty]
    /\ worker' = IF empty THEN Notified(m) ELSE worker
    /\ IF empty THEN Goto(t, "forget") /\ UNCHANGED <<manager, Manager>>
                ELSE /\ Goto(t, "idle")
                     /\ manager' = [manager EXCEPT ![t] = None]
                     /\ Manager' = [Manager EXCEPT ![t] = None]
    /\ UNCHANGED <<config, factory, Processing, Buffer, stopping, life, Registered, frozen,
                   record, next, batch, closing, history, owner, flushes>>

ForgetInstance(t) ==
  /\ pc[t] = "forget"
  /\ factoryLock = None
  /\ Instance' = IF Instance = manager[t] THEN None ELSE Instance
  /\ manager' = [manager EXCEPT ![t] = None]
  /\ Manager' = [Manager EXCEPT ![t] = None]
  /\ Goto(t, "idle")
  /\ UNCHANGED <<config, created, factoryLock, queues, workers, Registered, frozen, record, next,
                 batch, closing, history, owner, flushes>>

(* ~Logger tells the managers, the debug one not, to stop before it deletes  *)
(* the channels; a console's takes the Lock for it.                          *)
Close ==
  /\ MayClose
  /\ ~closing
  /\ \A t \in Threads : pc[t] = "idle"
  /\ closing' = TRUE
  /\ IF Instance = None \/ kind = "debug"
     THEN UNCHANGED <<StopRequested, Reschedule, worker>>
     ELSE /\ IsConsole => LockFree(Instance)
          /\ StopRequested' = [StopRequested EXCEPT ![Instance] = TRUE]
          /\ Reschedule' = [Reschedule EXCEPT ![Instance] = @ \/ IsConsole]
          /\ worker' = Notified(Instance)
  /\ UNCHANGED <<config, factory, Processing, Buffer, Backends, stopping, life, backends, threads,
                 batch, history, owner, flushes>>

Referenced(m) == m = Instance \/ \E t \in Threads : m \in {manager[t], Manager[t]}

(* The destructor: the worker is joined, and what is left is written.        *)
Destroy(m) ==
  /\ life[m] = "alive"
  /\ m <= created /\ ~Referenced(m)
  /\ life' = [life EXCEPT ![m] = "join"]
  /\ IsConsole => LockFree(m)
  /\ StopRequested' = [StopRequested EXCEPT ![m] = TRUE]
  /\ Reschedule' = [Reschedule EXCEPT ![m] = @ \/ IsConsole]
  /\ worker' = Notified(m)
  /\ UNCHANGED <<config, factory, Processing, Buffer, Backends, stopping, backends, threads, batch,
                 closing, history, owner, flushes>>

DestroyJoined(m) ==
  /\ life[m] = "join"
  /\ worker[m] \in {"none", "ended"}
  /\ life' = [life EXCEPT ![m] = "gone"]
  /\ written' = written \o Buffer[m]
  /\ Buffer' = [Buffer EXCEPT ![m] = <<>>]
  /\ UNCHANGED <<config, factory, StopRequested, Reschedule, Processing, Backends, worker, stopping,
                 backends, threads, batch, closing, accepted, ignored, drained, pending, owner,
                 flushes>>

----------------------------------------------------------------------------
(* ManagementThread                                                          *)

Goes(m, label) == worker' = [worker EXCEPT ![m] = label]

Wakes(m) == StopRequested[m] \/ Reschedule[m] \/ (IsConsole /\ Buffer[m] # <<>>)

(* A console's changes and its SetStopping are made under the Lock, so that   *)
(* its worker has tested after them or is blocked before.                    *)
WorkerTests(m) ==
  /\ worker[m] = "test"
  /\ ~Wakes(m)
  /\ Goes(m, IF IsConsole THEN "blocked" ELSE "blocking")
  /\ UNCHANGED <<config, factory, queues, stopping, life, backends, threads, batch, closing,
                 history, owner, flushes>>

WorkerBlocks(m) ==
  /\ worker[m] = "blocking"
  /\ Goes(m, "blocked")
  /\ UNCHANGED <<config, factory, queues, stopping, life, backends, threads, batch, closing,
                 history, owner, flushes>>

(* A console's worker says that it is processing, or is not, in any case; any *)
(* other leaves or waits again when there is nothing to do.                  *)
WorkerTakes(m) ==
  LET some == Buffer[m] # <<>> IN
    /\ worker[m] = "test"
    /\ Wakes(m)
    /\ Reschedule' = [Reschedule EXCEPT ![m] = FALSE]
    /\ stopping' = [stopping EXCEPT ![m] = StopRequested[m]]
    /\ batch' = [batch EXCEPT ![m] = Buffer[m]]
    /\ Buffer' = [Buffer EXCEPT ![m] = <<>>]
    /\ Processing' = [Processing EXCEPT ![m] = IF IsConsole THEN some ELSE @ \/ some]
    /\ Goes(m, IF some THEN "write"
               ELSE IF IsConsole THEN "finish"
               ELSE IF StopRequested[m] THEN "ended" ELSE "test")
    /\ UNCHANGED <<config, factory, StopRequested, Backends, life, backends, threads, closing,
                   history, owner, flushes>>

(* Deviant: the records are written in the order of a stack.                 *)
WorkerWritesBack(m) ==
  /\ worker[m] = "write"
  /\ written' = written \o Reverse(batch[m])
  /\ batch' = [batch EXCEPT ![m] = <<>>]
  /\ Goes(m, "finish")
  /\ UNCHANGED <<config, factory, queues, stopping, life, backends, threads, closing, accepted,
                 ignored, drained, pending, owner, flushes>>

WorkerWrites(m) ==
  /\ worker[m] = "write"
  /\ written' = written \o batch[m]
  /\ batch' = [batch EXCEPT ![m] = <<>>]
  /\ Goes(m, "finish")
  /\ UNCHANGED <<config, factory, queues, stopping, life, backends, threads, closing, accepted,
                 ignored, drained, pending, owner, flushes>>

WorkerFinishes(m) ==
  /\ worker[m] = "finish"
  /\ Processing' = [Processing EXCEPT ![m] = FALSE]
  /\ Goes(m, IF IsConsole /\ stopping[m] THEN "stop" ELSE "test")
  /\ UNCHANGED <<config, factory, StopRequested, Reschedule, Buffer, Backends, stopping, life,
                 backends, threads, batch, closing, history, owner, flushes>>

WorkerStops(m) ==
  /\ worker[m] = "stop"
  /\ IF Buffer[m] = <<>>
     THEN Goes(m, "ended") /\ UNCHANGED Reschedule
     ELSE Goes(m, "test") /\ Reschedule' = [Reschedule EXCEPT ![m] = TRUE]
  /\ UNCHANGED <<config, factory, StopRequested, Processing, Buffer, Backends, stopping, life,
                 backends, threads, batch, closing, history, owner, flushes>>

----------------------------------------------------------------------------
Init ==
  /\ kind \in Kinds
  /\ policy \in IF IsConsole THEN Policies ELSE {"block"}
  /\ QueueLimit \in QueueLimits
  /\ Instance = None
  /\ created = 0
  /\ factoryLock = None
  /\ StopRequested = [m \in Managers |-> FALSE]
  /\ Reschedule = [m \in Managers |-> FALSE]
  /\ Processing = [m \in Managers |-> FALSE]
  /\ Buffer = [m \in Managers |-> <<>>]
  /\ Backends = [m \in Managers |-> {}]
  /\ worker = [m \in Managers |-> "none"]
  /\ stopping = [m \in Managers |-> FALSE]
  /\ life = [m \in Managers |-> "alive"]
  /\ Registered = [t \in Threads |-> FALSE]
  /\ frozen = [t \in Threads |-> FALSE]
  /\ Manager = [t \in Threads |-> None]
  /\ pc = [t \in Threads |-> "idle"]
  /\ manager = [t \in Threads |-> None]
  /\ record = [t \in Threads |-> None]
  /\ next = [t \in Threads |-> "idle"]
  /\ batch = [p \in Threads \cup Managers |-> <<>>]
  /\ closing = FALSE
  /\ written = <<>>
  /\ accepted = [m \in Managers |-> <<>>]
  /\ ignored = {}
  /\ drained = {}
  /\ pending = [t \in Threads |-> {}]
  /\ owner = <<>>
  /\ flushes = 0

(* What a thread does without being asked to.                                *)
Proceed(t) ==
  \/ Add(t)
  \/ AddBackend(t)
  \/ TestStopping(t)
  \/ PushWithSpace(t)
  \/ PushDropOldest(t)
  \/ PushDropNew(t)
  \/ PushDrains(t)
  \/ PushStopped(t)
  \/ DrainTakes(t)
  \/ DrainWrites(t)
  \/ DrainEnds(t)
  \/ DrainFindsNothing(t)
  \/ FlushResets(t)
  \/ FlushDrains(t)
  \/ FlushFindsNothing(t)
  \/ FlushReturns(t)
  \/ RemoveDrains(t)
  \/ RemoveBackend(t)
  \/ ForgetInstance(t)

ManagementThread(m) ==
  \/ WorkerTests(m)
  \/ WorkerBlocks(m)
  \/ WorkerTakes(m)
  \/ WorkerWrites(m)
  \/ WorkerFinishes(m)
  \/ WorkerStops(m)

Destructor(m) == Destroy(m) \/ DestroyJoined(m)

Next ==
  \/ \E t \in Threads : \/ Display(t)
                        \/ DisplaySync(t)
                        \/ Flush(t)
                        \/ Freeze(t)
                        \/ Proceed(t)
  \/ \E m \in Managers : ManagementThread(m) \/ Destructor(m)
  \/ Close

Fairness ==
  /\ \A t \in Threads : WF_vars(Proceed(t))
  /\ \A m \in Managers : WF_vars(ManagementThread(m)) /\ WF_vars(Destructor(m))

Spec == Init /\ [][Next]_vars /\ Fairness

----------------------------------------------------------------------------
TypeOK ==
  /\ kind \in Kinds /\ policy \in Policies \cup {"block"} /\ QueueLimit \in QueueLimits
  /\ created \in 0..Cardinality(Managers) /\ Instance \in 0..created
  /\ factoryLock \in Threads \cup {None}
  /\ {StopRequested, Reschedule, Processing, stopping} \subseteq [Managers -> BOOLEAN]
  /\ \A m \in Managers : /\ Len(Buffer[m]) <= QueueLimit
                         /\ Backends[m] \subseteq Threads
                         /\ worker[m] \in {"none", "test", "blocking", "blocked", "write",
                                           "finish", "stop", "ended"}
                         /\ life[m] \in {"alive", "join", "gone"}
  /\ {Registered, frozen} \subseteq [Threads -> BOOLEAN]
  /\ \A t \in Threads : {Manager[t], manager[t]} \subseteq 0..created
  /\ \A t \in Threads : record[t] \in 0..Len(owner) /\ pending[t] \subseteq 1..Len(owner)
  /\ ToSet(owner) \subseteq Threads
  /\ ignored \subseteq 1..Len(owner) /\ ToSet(written) \subseteq 1..Len(owner)
  /\ flushes \in 0..(MaxFlushes + Cardinality(Threads))

(* The types, and: every record displayed is in one place, once: with its    *)
(* thread, in a queue, in the hands of one who writes it, written, or         *)
(* ignored; it is ignored only by a console whose policy drops or whose       *)
(* manager stops; and as long as only its worker empties a manager's queue,   *)
(* the records come out in the order they went in (PushRecord, Push,          *)
(* DrainPending, ManagementThread, the destructors).                          *)
RecordsKept ==
  /\ TypeOK
  /\ \A r \in 1..Len(owner) :
         Cardinality({t \in Threads : record[t] = r})
         + Cardinality({m \in Managers : r \in ToSet(Buffer[m])})
         + Cardinality({p \in Threads \cup Managers : r \in ToSet(batch[p])})
         + Cardinality({i \in DOMAIN written : written[i] = r})
         + (IF r \in ignored THEN 1 ELSE 0) = 1
  /\ ignored # {} => IsConsole /\ (policy # "block" \/ TRUE \in {StopRequested[m] : m \in Managers})
  /\ \A m \in Managers \ drained : \A i, j \in DOMAIN written, k, l \in DOMAIN accepted[m] :
       i < j /\ written[i] = accepted[m][k] /\ written[j] = accepted[m][l] => k < l

(* Flush returns when what the manager had taken before is written, unless   *)
(* the manager stops meanwhile, and as long as only its worker empties its   *)
(* queue: a caller that writes beside the worker, or a flush of a console    *)
(* that finds the queue refilled, says that nothing is processed when it is  *)
(* the first of the two to finish (Flush, DrainPending).                     *)
FlushWrites ==
  \A t \in Threads :
    pc[t] = "flushed" /\ ~StopRequested[manager[t]] /\ manager[t] \notin drained =>
      pending[t] \subseteq ToSet(written) \cup ignored

(* No record is in an event log's queue, or in the hands of one who writes   *)
(* it, when its backend has been frozen and may be deleted, before the       *)
(* logger's end; of the first backend that leaves: the others rely on        *)
(* Processing, which that one may have reset (RemoveBackend).                *)
OwnersPresent ==
  kind = "event log" /\ ~closing =>
    \A m \in Managers : \A r \in ToSet(Buffer[m] \o batch[m]) :
      ~(frozen[owner[r]] /\ pc[owner[r]] = "idle" /\ \A t \in Threads : frozen[t] => t = owner[r])

(* Again and again every record displayed has been written or ignored, and   *)
(* every manager that no one refers to has come to its end with its worker   *)
(* (the management threads, Add, Remove, the destructors).                   *)
EventuallyDone ==
  /\ []<>(\A r \in 1..Len(owner) : r \in ToSet(written) \cup ignored)
  /\ []<>(\A m \in 1..created : Referenced(m) \/ life[m] = "gone")
=============================================================================
