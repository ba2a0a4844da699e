---------------------------- MODULE BufferQueue ----------------------------
(***************************************************************************)
(* The double-buffered queue between the threads that log and the thread   *)
(* that writes the file (Buffer/BufferQueue.cpp).                          *)
(*                                                                         *)
(* Callers append formatted records to Current while they hold the DataLock *)
(* of the owning channel.  When Current is full the appender swaps it for a *)
(* free or a new buffer and puts it on ReadyList.  A publisher (Flush() in  *)
(* a caller, WorkerFunc or OnShutdown in the worker) swaps a partly filled  *)
(* Current the same way, but it fetches the replacement before it takes     *)
(* DataLock and enqueues the old buffer after it has released it.  The      *)
(* worker alone takes ReadyList, writes it and recycles the buffers.        *)
(*                                                                         *)
(* One action is one critical section of the code (DataLock, CreateLock,   *)
(* FreeLock, ReadyLock); between two of them any other thread may run.      *)
(*                                                                         *)
(* Free buffers have been Reset and are interchangeable: FreeList is its    *)
(* length.  A buffer in use is the sequence of its bytes, and a byte is the *)
(* number of the record it belongs to, so its length is DataBuffer::Size(). *)
(***************************************************************************)
EXTENDS Integers, Sequences, FiniteSets

CONSTANTS
  Callers,              \* application threads: append records, call Flush()
  Worker,               \* the FileManager's management thread
  None,                 \* "no thread": the value of a free lock
  BufferSize,           \* Options::BufferSize, in bytes
  BaseFreeLimit,        \* Options::BaseFreeLimit
  MaxTotalBuffers,      \* Options::MaxTotalBuffers, 0 = unlimited
  MaxAdaptiveFreeLimit, \* Options::MaxAdaptiveFreeLimit, 0 = use the above
  RecordSizes,          \* sizes of the records that are appended
  MaxAppends            \* bound on the number of calls of Append

ASSUME ThreadsAssumption ==
  /\ IsFiniteSet(Callers)
  /\ Worker \notin Callers
  /\ None \notin Callers \cup {Worker}

ASSUME OptionsAssumption ==
  /\ BufferSize \in Nat \ {0}
  /\ BaseFreeLimit \in Nat
  /\ MaxTotalBuffers \in Nat
  /\ MaxAdaptiveFreeLimit \in Nat

ASSUME InputsAssumption ==
  /\ RecordSizes \subseteq Nat \ {0}
  /\ MaxAppends \in Nat

Threads == Callers \cup {Worker}

VARIABLES
  Current,            \* the buffer being filled
  FreeList,           \* how many buffers are on FreeList
  ReadyList,          \* full or published buffers, oldest enqueued first
  Signaled,
  TotalBuffers,
  UsedBuffersCount,
  AdaptiveFreeLimit,
  HasCurrentDataFlag,
  ReadyData,          \* FileBackend::ReadyData: the batch the worker writes
  dataLock,           \* the thread inside Append that holds DataLock
  createLock,         \* the thread inside TryCreateBuffer
  pc,                 \* where each thread is inside the queue
  hand,               \* the swapped-out buffer a thread has yet to enqueue
  allocated,          \* allocatedBecauseNoFree of each thread
  wanted,             \* cb of the append that holds DataLock
  calls,              \* history: appends so far; the number of the last record
  dropped,            \* history: the records Append refused
  published,          \* history: the records that left Current by PublishCurrent
  delivered           \* history: buffers handed to the worker, in that order

locks   == <<dataLock, createLock>>
pool    == <<FreeList, TotalBuffers, UsedBuffersCount, AdaptiveFreeLimit>>
history == <<calls, dropped, published, delivered>>
vars    == <<Current, ReadyList, Signaled, HasCurrentDataFlag, ReadyData, pool,
             locks, pc, hand, allocated, wanted, history>>

----------------------------------------------------------------------------
(* Buffers *)

Bytes(record, cb) == [i \in 1..cb |-> record]

(* DataBuffer::CanAppend *)
CanAppend(buffer, cb) == cb <= BufferSize - Len(buffer)

(* The guard both sections of TryCreateBuffer test. *)
HasRoomOffByOne == MaxTotalBuffers = 0 \/ TotalBuffers <= MaxTotalBuffers

HasRoom == MaxTotalBuffers = 0 \/ TotalBuffers < MaxTotalBuffers

(* The thread inside Append; every other thread in the queue publishes. *)
Appending(t) == dataLock = t

(***************************************************************************)
(* ReleaseBuffer and DecayFreeLocked, one critical section of FreeLock,    *)
(* with "back" buffers put on FreeList first.  The adaptive limit follows  *)
(* the list down to BaseFreeLimit; what exceeds the limit is deleted or    *)
(* returned to the process-wide cache.                                     *)
(***************************************************************************)
DecayedLimit(free) ==
  IF free >= AdaptiveFreeLimit \/ AdaptiveFreeLimit <= BaseFreeLimit
  THEN AdaptiveFreeLimit
  ELSE IF free > BaseFreeLimit THEN free ELSE BaseFreeLimit

PutFreeAndDecayUncounted(back) ==
  LET free   == FreeList + back
      limit  == DecayedLimit(free)
  IN  /\ AdaptiveFreeLimit' = limit
      /\ FreeList' = IF free > limit THEN limit ELSE free
      /\ TotalBuffers' = TotalBuffers
      /\ UsedBuffersCount' = UsedBuffersCount - back

PutFreeAndDecay(back) ==
  LET free   == FreeList + back
      limit  == DecayedLimit(free)
      excess == IF free > limit THEN free - limit ELSE 0
  IN  /\ AdaptiveFreeLimit' = limit
      /\ FreeList' = free - excess
      /\ TotalBuffers' = TotalBuffers - excess
      /\ UsedBuffersCount' = UsedBuffersCount - back

ReleaseBuffer == PutFreeAndDecay(1)

(* The call of thread t ends; an appender unlocks DataLock. *)
Return(t) ==
  /\ pc' = [pc EXCEPT ![t] = "idle"]
  /\ dataLock' = IF Appending(t) THEN None ELSE dataLock

(* The record of an appender that ends without storing it is dropped. *)
CountDropped(t) ==
  dropped' = IF Appending(t) THEN dropped \cup {calls} ELSE dropped

----------------------------------------------------------------------------
(* Variants of the actions below, each with one mistake the properties at   *)
(* the end of the module tell from the code.                                *)

SwapForAppendUnlocked(t) ==
  /\ pc[t] = "swap"
  /\ Appending(t)
  /\ wanted <= BufferSize
  /\ hand' = [hand EXCEPT ![t] = Current]
  /\ Current' = Bytes(calls, wanted)
  /\ HasCurrentDataFlag' = TRUE
  /\ pc' = [pc EXCEPT ![t] = "grow"]
  /\ dataLock' = None
  /\ UNCHANGED <<ReadyList, Signaled, ReadyData, pool, createLock, allocated,
                 wanted, history>>

TakeReadyFrontOnly ==
  /\ pc[Worker] = "idle"
  /\ ReadyData = <<>>
  /\ ReadyList # <<>>
  /\ ReadyData' = SubSeq(ReadyList, 1, 1)
  /\ ReadyList' = <<>>
  /\ Signaled' = FALSE
  /\ delivered' = delivered \o SubSeq(ReadyList, 1, 1)
  /\ UNCHANGED <<Current, HasCurrentDataFlag, pool, locks, pc, hand, allocated,
                 wanted, calls, dropped, published>>

TakeReadyTwice ==
  /\ pc[Worker] = "idle"
  /\ ReadyData = <<>>
  /\ ReadyData' = ReadyList
  /\ delivered' = delivered \o ReadyList
  /\ UNCHANGED <<Current, ReadyList, Signaled, HasCurrentDataFlag, pool, locks,
                 pc, hand, allocated, wanted, calls, dropped, published>>

----------------------------------------------------------------------------
Init ==
  /\ Current = <<>>
  /\ FreeList = 0
  /\ ReadyList = <<>>
  /\ Signaled = FALSE
  /\ TotalBuffers = 1
  /\ UsedBuffersCount = 1
  /\ AdaptiveFreeLimit = BaseFreeLimit
  /\ HasCurrentDataFlag = FALSE
  /\ ReadyData = <<>>
  /\ dataLock = None
  /\ createLock = None
  /\ pc = [t \in Threads |-> "idle"]
  /\ hand = [t \in Threads |-> <<>>]
  /\ allocated = [t \in Threads |-> FALSE]
  /\ wanted = 0
  /\ calls = 0
  /\ dropped = {}
  /\ published = {}
  /\ delivered = <<>>

(***************************************************************************)
(* Append, the record fits: one critical section of DataLock.              *)
(***************************************************************************)
AppendFits(t, cb) ==
  /\ pc[t] = "idle"
  /\ dataLock = None
  /\ calls < MaxAppends
  /\ CanAppend(Current, cb)
  /\ Current' = Current \o Bytes(calls + 1, cb)
  /\ HasCurrentDataFlag' = TRUE
  /\ calls' = calls + 1
  /\ UNCHANGED <<ReadyList, Signaled, ReadyData, pool, locks, pc, hand,
                 allocated, wanted, dropped, published, delivered>>

(* Append, Current is full: t keeps DataLock and looks for a replacement. *)
AppendFull(t, cb) ==
  /\ pc[t] = "idle"
  /\ dataLock = None
  /\ calls < MaxAppends
  /\ ~ CanAppend(Current, cb)
  /\ dataLock' = t
  /\ wanted' = cb
  /\ calls' = calls + 1
  /\ pc' = [pc EXCEPT ![t] = "take"]
  /\ UNCHANGED <<Current, ReadyList, Signaled, HasCurrentDataFlag, ReadyData,
                 pool, createLock, hand, allocated, dropped, published,
                 delivered>>

(* PublishCurrent begins by looking for a replacement, without DataLock. *)
PublishCurrent(t) ==
  /\ pc[t] = "idle"
  /\ pc' = [pc EXCEPT ![t] = "take"]
  /\ UNCHANGED <<Current, ReadyList, Signaled, HasCurrentDataFlag, ReadyData,
                 pool, locks, hand, allocated, wanted, history>>

(* TryTakeFreeBuffer *)
TryTakeFreeBuffer(t) ==
  /\ pc[t] = "take"
  /\ IF FreeList > 0
     THEN /\ FreeList' = FreeList - 1
          /\ UsedBuffersCount' = UsedBuffersCount + 1
          /\ pc' = [pc EXCEPT ![t] = "swap"]
     ELSE /\ pc' = [pc EXCEPT ![t] = "create"]
          /\ UNCHANGED <<FreeList, UsedBuffersCount>>
  /\ allocated' = [allocated EXCEPT ![t] = FALSE]
  /\ UNCHANGED <<Current, ReadyList, Signaled, HasCurrentDataFlag, ReadyData,
                 TotalBuffers, AdaptiveFreeLimit, locks, hand, wanted, history>>

(* TryCreateBuffer up to the allocation: CreateLock is kept if there is room. *)
TryCreateBuffer(t) ==
  /\ pc[t] = "create"
  /\ createLock = None
  /\ IF HasRoom
     THEN /\ createLock' = t
          /\ pc' = [pc EXCEPT ![t] = "make"]
          /\ UNCHANGED <<dataLock, dropped>>
     ELSE /\ Return(t)
          /\ CountDropped(t)
          /\ UNCHANGED createLock
  /\ UNCHANGED <<Current, ReadyList, Signaled, HasCurrentDataFlag, ReadyData,
                 pool, hand, allocated, wanted, calls, published, delivered>>

(* The rest of TryCreateBuffer: the limit is tested again and counted. *)
CountCreated(t) ==
  /\ pc[t] = "make"
  /\ createLock' = None
  /\ IF HasRoom
     THEN /\ TotalBuffers' = TotalBuffers + 1
          /\ UsedBuffersCount' = UsedBuffersCount + 1
          /\ allocated' = [allocated EXCEPT ![t] = TRUE]
          /\ pc' = [pc EXCEPT ![t] = "swap"]
          /\ UNCHANGED <<dataLock, dropped>>
     ELSE /\ Return(t)
          /\ CountDropped(t)
          /\ UNCHANGED <<TotalBuffers, UsedBuffersCount, allocated>>
  /\ UNCHANGED <<Current, FreeList, ReadyList, Signaled, AdaptiveFreeLimit,
                 HasCurrentDataFlag, ReadyData, hand, wanted, calls, published,
                 delivered>>

(***************************************************************************)
(* Append with a replacement in hand, still under DataLock.  A record      *)
(* larger than a whole buffer is dropped and the replacement released.     *)
(***************************************************************************)
SwapForAppend(t) ==
  /\ pc[t] = "swap"
  /\ Appending(t)
  /\ wanted <= BufferSize
  /\ hand' = [hand EXCEPT ![t] = Current]
  /\ Current' = Bytes(calls, wanted)
  /\ HasCurrentDataFlag' = TRUE
  /\ pc' = [pc EXCEPT ![t] = "grow"]
  /\ UNCHANGED <<ReadyList, Signaled, ReadyData, pool, locks, allocated, wanted,
                 history>>

RejectTooLarge(t) ==
  /\ pc[t] = "swap"
  /\ Appending(t)
  /\ wanted > BufferSize
  /\ ReleaseBuffer
  /\ CountDropped(t)
  /\ Return(t)
  /\ UNCHANGED <<Current, ReadyList, Signaled, HasCurrentDataFlag, ReadyData,
                 createLock, hand, allocated, wanted, calls, published,
                 delivered>>

(***************************************************************************)
(* PublishCurrent with a replacement in hand: one critical section of      *)
(* DataLock.  Current may have been emptied since by another publisher.    *)
(***************************************************************************)
SwapForPublish(t) ==
  /\ pc[t] = "swap"
  /\ dataLock = None
  /\ Current # <<>>
  /\ hand' = [hand EXCEPT ![t] = Current]
  /\ Current' = <<>>
  /\ HasCurrentDataFlag' = FALSE
  /\ published' = published \cup {Current[i] : i \in 1..Len(Current)}
  /\ pc' = [pc EXCEPT ![t] = "grow"]
  /\ UNCHANGED <<ReadyList, Signaled, ReadyData, pool, locks, allocated, wanted,
                 calls, dropped, delivered>>

PublishNothing(t) ==
  /\ pc[t] = "swap"
  /\ dataLock = None
  /\ Current = <<>>
  /\ ReleaseBuffer
  /\ pc' = [pc EXCEPT ![t] = "idle"]
  /\ UNCHANGED <<Current, ReadyList, Signaled, HasCurrentDataFlag, ReadyData,
                 locks, hand, allocated, wanted, history>>

(* MaybeGrowAdaptive: an allocation raises the number of buffers kept free. *)
AdaptiveCap ==
  IF MaxAdaptiveFreeLimit # 0 THEN MaxAdaptiveFreeLimit ELSE MaxTotalBuffers

MaybeGrowAdaptive(t) ==
  /\ pc[t] = "grow"
  /\ AdaptiveFreeLimit' =
       IF allocated[t] /\ (AdaptiveCap = 0 \/ AdaptiveFreeLimit < AdaptiveCap)
       THEN AdaptiveFreeLimit + 1
       ELSE AdaptiveFreeLimit
  /\ pc' = [pc EXCEPT ![t] = "enqueue"]
  /\ UNCHANGED <<Current, FreeList, ReadyList, Signaled, TotalBuffers,
                 UsedBuffersCount, HasCurrentDataFlag, ReadyData, locks, hand,
                 allocated, wanted, history>>

(***************************************************************************)
(* EnqueueReady, and the end of Append or PublishCurrent.  needSignal, the *)
(* value Signaled is kept for, is ignored by every caller in FileBackend.  *)
(***************************************************************************)
EnqueueReady(t) ==
  /\ pc[t] = "enqueue"
  /\ ReadyList' = Append(ReadyList, hand[t])
  /\ Signaled' = TRUE
  /\ hand' = [hand EXCEPT ![t] = <<>>]
  /\ Return(t)
  /\ UNCHANGED <<Current, HasCurrentDataFlag, ReadyData, pool, createLock,
                 allocated, wanted, history>>

----------------------------------------------------------------------------
(* The worker: WriteReadyData takes everything that is ready, writes it and *)
(* recycles the buffers.                                                    *)

TakeReady ==
  /\ pc[Worker] = "idle"
  /\ ReadyData = <<>>
  /\ ReadyData' = ReadyList
  /\ ReadyList' = <<>>
  /\ Signaled' = FALSE
  /\ delivered' = delivered \o ReadyList
  /\ UNCHANGED <<Current, HasCurrentDataFlag, pool, locks, pc, hand, allocated,
                 wanted, calls, dropped, published>>

Recycle ==
  /\ pc[Worker] = "idle"
  /\ ReadyData # <<>>
  /\ FreeList' = FreeList + Len(ReadyData)
  /\ UsedBuffersCount' = UsedBuffersCount - Len(ReadyData)
  /\ ReadyData' = <<>>
  /\ UNCHANGED <<Current, ReadyList, Signaled, TotalBuffers, AdaptiveFreeLimit,
                 HasCurrentDataFlag, locks, pc, hand, allocated, wanted,
                 history>>

(* The worker trims only after Recycle, when the queue looked empty to it. *)
TrimFreeBuffersIfIdle ==
  /\ pc[Worker] = "idle"
  /\ ReadyData = <<>>
  /\ PutFreeAndDecay(0)
  /\ UNCHANGED <<Current, ReadyList, Signaled, HasCurrentDataFlag, ReadyData,
                 locks, pc, hand, allocated, wanted, history>>

----------------------------------------------------------------------------
QueueStep(t) ==
  \/ PublishCurrent(t)
  \/ TryTakeFreeBuffer(t)
  \/ TryCreateBuffer(t)
  \/ CountCreated(t)
  \/ SwapForAppend(t)
  \/ RejectTooLarge(t)
  \/ SwapForPublish(t)
  \/ PublishNothing(t)
  \/ MaybeGrowAdaptive(t)
  \/ EnqueueReady(t)

(* The worker publishes only between two batches (ReadyData is recycled). *)
Next ==
  \/ \E t \in Callers, cb \in RecordSizes : AppendFits(t, cb) \/ AppendFull(t, cb)
  \/ \E t \in Callers : QueueStep(t)
  \/ ReadyData = <<>> /\ QueueStep(Worker)
  \/ TakeReady
  \/ Recycle
  \/ TrimFreeBuffersIfIdle

Spec == Init /\ [][Next]_vars

----------------------------------------------------------------------------
(* Properties *)

Buffer == Seq(Nat)

TypeOK ==
  /\ Current \in Buffer
  /\ ReadyList \in Seq(Buffer)
  /\ ReadyData \in Seq(Buffer)
  /\ delivered \in Seq(Buffer)
  /\ FreeList \in Nat
  /\ TotalBuffers \in Int
  /\ UsedBuffersCount \in Int
  /\ AdaptiveFreeLimit \in Nat
  /\ Signaled \in BOOLEAN
  /\ HasCurrentDataFlag \in BOOLEAN
  /\ dataLock \in Threads \cup {None}
  /\ createLock \in Threads \cup {None}
  /\ pc \in [Threads -> {"idle", "take", "create", "make", "swap", "grow", "enqueue"}]
  /\ hand \in [Threads -> Buffer]
  /\ allocated \in [Threads -> BOOLEAN]
  /\ wanted \in Nat
  /\ calls \in Nat
  /\ dropped \subseteq Nat
  /\ published \subseteq Nat

(***************************************************************************)
(* A lock is held by a thread that is inside the call that took it.        *)
(***************************************************************************)
LockOwners ==
  /\ dataLock # None => pc[dataLock] # "idle" /\ wanted > 0
  /\ \A t \in Threads : pc[t] = "make" <=> createLock = t

(* The threads that own one buffer: a replacement, or the swapped-out one. *)
Holders == {t \in Threads : pc[t] \in {"swap", "grow", "enqueue"}}

(***************************************************************************)
(* No buffer is leaked or counted twice: TotalBuffers is Current and the   *)
(* buffers that are free, ready, being written or in a thread's hands.     *)
(* (TryCreateBuffer, DecayFreeLocked and every move between the lists.)    *)
(***************************************************************************)
BuffersConserved ==
  TotalBuffers = 1 + FreeList + Len(ReadyList) + Len(ReadyData) + Cardinality(Holders)

(***************************************************************************)
(* The memory limit holds whatever the interleaving of the two sections of *)
(* TryCreateBuffer, and a thread that passed the first test of the limit   *)
(* passes the second: CreateLock makes it redundant.                       *)
(***************************************************************************)
LimitRespected ==
  /\ MaxTotalBuffers # 0 => TotalBuffers <= MaxTotalBuffers
  /\ \A t \in Threads : pc[t] = "make" => HasRoom

(***************************************************************************)
(* The lock-free counter FileBackend reads to detect buffer pressure is    *)
(* exactly the number of buffers that are not free.                        *)
(***************************************************************************)
UsedIsTotalMinusFree == UsedBuffersCount = TotalBuffers - FreeList

(***************************************************************************)
(* What the worker can see: accepted bytes that are not in a thread's      *)
(* hands are announced, by the flag of Current or by ReadyList, whenever   *)
(* DataLock is free, and Signaled tells whether ReadyList has anything.    *)
(***************************************************************************)
DataVisible ==
  /\ dataLock = None => (HasCurrentDataFlag <=> Current # <<>>)
  /\ Signaled <=> ReadyList # <<>>
  /\ \A i \in 1..Len(ReadyList) : ReadyList[i] # <<>>
  /\ \A t \in Threads : pc[t] \in {"grow", "enqueue"} <=> hand[t] # <<>>

(***************************************************************************)
(* The appender's view of Current is not stale when it swaps: it kept      *)
(* DataLock while it looked for a replacement, so the record still does    *)
(* not fit and the second CanAppend test of Append never succeeds.         *)
(***************************************************************************)
StillFull ==
  \A t \in Threads :
    Appending(t) /\ pc[t] \in {"take", "create", "make", "swap"}
      => ~ CanAppend(Current, wanted)

(* Every buffer that holds data, in the order the records reached the list. *)
Stream == delivered \o ReadyList

RecordsOf(buffer) == {buffer[i] : i \in 1..Len(buffer)}

Homes(record) ==
  Cardinality({i \in 1..Len(Stream) : record \in RecordsOf(Stream[i])})
    + Cardinality({t \in Threads : record \in RecordsOf(hand[t])})
    + (IF record \in RecordsOf(Current) THEN 1 ELSE 0)

(* The record Append is working on is neither stored nor dropped yet. *)
InProgress(record) ==
  /\ record = calls
  /\ \E t \in Threads : Appending(t) /\ pc[t] \in {"take", "create", "make", "swap"}

(***************************************************************************)
(* A record is stored in one buffer, whole, or dropped: never lost by a    *)
(* swap that races another, never duplicated, never split, never dropped   *)
(* and stored.                                                             *)
(***************************************************************************)
StoredOnce ==
  \A record \in 1..calls :
    Homes(record) = IF record \in dropped \/ InProgress(record) THEN 0 ELSE 1

(***************************************************************************)
(* The order of the file.  A buffer is handed over before one with older   *)
(* records only if these left Current through PublishCurrent, which         *)
(* enqueues after it has released DataLock: two appenders never invert.    *)
(***************************************************************************)
InvertedOnlyByPublish ==
  \A i \in 1..Len(Stream), j \in 1..Len(Stream) :
    \A x \in RecordsOf(Stream[i]), y \in RecordsOf(Stream[j]) :
      i < j /\ x > y => y \in published

(***************************************************************************)
(* The queue implements RecordSink.  A record is pending as long as it is  *)
(* in Current, in the hands of a thread or on ReadyList.                    *)
(***************************************************************************)
Undecided == {record \in 1..calls : InProgress(record)}

Pending ==
  RecordsOf(Current)
    \cup (UNION {RecordsOf(hand[t]) : t \in Threads})
    \cup (UNION {RecordsOf(ReadyList[i]) : i \in 1..Len(ReadyList)})

Delivered == UNION {RecordsOf(delivered[i]) : i \in 1..Len(delivered)}

Sink == INSTANCE RecordSink
  WITH offered <- calls - Cardinality(Undecided),
       pending <- Pending, delivered <- Delivered, refused <- dropped

(* Whatever the threads do, an accepted record is handed over at most once. *)
DeliversEachRecordOnce == Sink!Spec
============================================================================
