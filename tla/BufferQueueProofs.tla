------------------------- MODULE BufferQueueProofs -------------------------
(***************************************************************************)
(* Theorems about BufferQueue, for any number of threads, any limits and   *)
(* any record sizes.                                                       *)
(*                                                                         *)
(* None of the invariants is inductive alone.  The buffers are conserved   *)
(* only if a thread that enqueues has a buffer in its hands, the limit      *)
(* holds between the two sections of TryCreateBuffer only if CreateLock     *)
(* tells who is between them, and an appender has data in its hands only    *)
(* because its record did not fit.  IndInv is their conjunction.            *)
(*                                                                         *)
(* RecInv, on top of it, says where every record is: it gives StoredOnce,   *)
(* the order of the file and the refinement of RecordSink.                  *)
(***************************************************************************)
EXTENDS BufferQueue, FiniteSetTheorems, SequenceTheorems, TLAPS

IndInv ==
  /\ TypeOK
  /\ LockOwners
  /\ StillFull
  /\ DataVisible
  /\ (HasCurrentDataFlag <=> Current # <<>>)
  /\ BuffersConserved
  /\ UsedIsTotalMinusFree
  /\ LimitRespected

----------------------------------------------------------------------------
(* Lemmas about buffers and about the set of threads that own one. *)

(* The bytes of a record are a buffer, empty only for an empty record. *)
LEMMA BytesType ==
  ASSUME NEW record \in Nat, NEW cb \in Nat
  PROVE  /\ Bytes(record, cb) \in Buffer
         /\ Len(Bytes(record, cb)) = cb
<1>1. Bytes(record, cb) \in [1..cb -> Nat]
  BY DEF Bytes
<1>2. [1..cb -> Nat] \subseteq Seq(Nat)
  BY SeqDef
<1>3. QED
  BY <1>1, <1>2, LenProperties, SMT DEF Buffer, Bytes

(* The threads are finitely many: Holders can be counted. *)
LEMMA HoldersFinite == IsFiniteSet(Threads) /\ IsFiniteSet(Holders)
                         /\ Cardinality(Holders) \in Nat
<1>1. IsFiniteSet(Threads)
  BY ThreadsAssumption, FS_AddElement DEF Threads
<1>2. IsFiniteSet(Holders)
  BY <1>1, FS_Subset DEF Holders
<1>3. QED
  BY <1>1, <1>2, FS_CardinalityType

(* The other terms of the sum are numbers too. *)
LEMMA CountsAreNumbers ==
  ASSUME TypeOK
  PROVE  /\ FreeList \in Nat /\ TotalBuffers \in Int /\ UsedBuffersCount \in Int
         /\ Len(ReadyList) \in Nat /\ Len(ReadyData) \in Nat
         /\ Cardinality(Holders) \in Nat
BY LenProperties, HoldersFinite DEF TypeOK

(* A thread that gets a replacement is counted once more, *)
LEMMA HoldersGain ==
  ASSUME TypeOK, NEW t \in Threads, t \notin Holders,
         NEW s \in {"swap", "grow", "enqueue"}, pc' = [pc EXCEPT ![t] = s]
  PROVE  Cardinality(Holders') = Cardinality(Holders) + 1
<1>1. Holders' = Holders \cup {t}
  BY DEF Holders, TypeOK
<1>2. QED
  BY <1>1, HoldersFinite, FS_AddElement

(* one that gives its buffer away is counted no more, *)
LEMMA HoldersLose ==
  ASSUME TypeOK, NEW t \in Threads, t \in Holders,
         NEW s \in {"idle", "take", "create", "make"}, pc' = [pc EXCEPT ![t] = s]
  PROVE  /\ Cardinality(Holders') = Cardinality(Holders) - 1
         /\ Cardinality(Holders) > 0
<1>1. Holders' = Holders \ {t}
  BY DEF Holders, TypeOK
<1>2. Cardinality(Holders') = Cardinality(Holders) - 1
  BY <1>1, HoldersFinite, FS_RemoveElement
<1>3. Cardinality(Holders) > 0
  BY HoldersFinite, FS_EmptySet
<1>4. QED
  BY <1>2, <1>3

(* and any other move of a thread leaves the count alone. *)
LEMMA HoldersKeep ==
  ASSUME TypeOK, NEW t \in Threads,
         NEW s \in {"idle", "take", "create", "make", "swap", "grow", "enqueue"},
         pc' = [pc EXCEPT ![t] = s],
         t \in Holders <=> s \in {"swap", "grow", "enqueue"}
  PROVE  Cardinality(Holders') = Cardinality(Holders)
<1>1. Holders' = Holders
  BY DEF Holders, TypeOK
<1>2. QED
  BY <1>1

(* What ReleaseBuffer and the trim do to the counts, whatever the limit is. *)
LEMMA PutFreeAndDecayCounts ==
  ASSUME TypeOK, NEW back \in Nat, PutFreeAndDecay(back)
  PROVE  \E excess \in Nat :
           /\ FreeList' = FreeList + back - excess
           /\ FreeList' \in Nat
           /\ TotalBuffers' = TotalBuffers - excess
           /\ UsedBuffersCount' = UsedBuffersCount - back
           /\ AdaptiveFreeLimit' \in Nat
<1> DEFINE free   == FreeList + back
           limit  == DecayedLimit(free)
           excess == IF free > limit THEN free - limit ELSE 0
<1>1. free \in Nat /\ limit \in Nat
  BY OptionsAssumption DEF TypeOK, DecayedLimit
<1>2. /\ AdaptiveFreeLimit' = limit
      /\ FreeList' = free - excess
      /\ TotalBuffers' = TotalBuffers - excess
      /\ UsedBuffersCount' = UsedBuffersCount - back
  BY DEF PutFreeAndDecay
<1>3. excess \in Nat /\ free - excess \in Nat
  <2> HIDE DEF limit
  <2>1. QED
    BY <1>1
<1> HIDE DEF excess, limit
<1>4. QED
  BY <1>1, <1>2, <1>3 DEF TypeOK

----------------------------------------------------------------------------
(* Every action preserves the invariant.  The steps that move no buffer     *)
(* come first, then those that take, make, give back or pass on one.        *)

(* The initial queue: one empty buffer, no thread in it. *)
LEMMA InitIndInv == Init => IndInv
<1> SUFFICES ASSUME Init PROVE IndInv
  OBVIOUS
<1>1. TypeOK
  <2>1. <<>> \in Buffer /\ <<>> \in Seq(Buffer)
    BY EmptySeq DEF Buffer
  <2>2. /\ allocated \in [Threads -> BOOLEAN]
        /\ hand \in [Threads -> Buffer]
        /\ pc \in [Threads -> {"idle", "take", "create", "make", "swap", "grow", "enqueue"}]
        /\ Signaled \in BOOLEAN /\ HasCurrentDataFlag \in BOOLEAN
        /\ dataLock \in Threads \cup {None} /\ createLock \in Threads \cup {None}
        /\ dropped \subseteq Nat /\ published \subseteq Nat
    BY <2>1, Zenon DEF Init
  <2>3. /\ FreeList \in Nat /\ TotalBuffers \in Int /\ UsedBuffersCount \in Int
        /\ AdaptiveFreeLimit \in Nat /\ wanted \in Nat /\ calls \in Nat
    BY OptionsAssumption, SMT DEF Init
  <2>4. QED
    BY <2>1, <2>2, <2>3, Zenon DEF Init, TypeOK
<1>2. LockOwners /\ StillFull /\ DataVisible /\ (HasCurrentDataFlag <=> Current # <<>>)
  BY ThreadsAssumption
     DEF Init, LockOwners, StillFull, DataVisible, Appending, Threads
<1>3. Holders = {}
  BY DEF Init, Holders
<1>4. BuffersConserved /\ UsedIsTotalMinusFree /\ LimitRespected
  BY <1>3, FS_EmptySet, OptionsAssumption
     DEF Init, BuffersConserved, UsedIsTotalMinusFree, LimitRespected
<1>5. QED
  BY <1>1, <1>2, <1>4 DEF IndInv

(* A record is appended to Current. *)
LEMMA AppendFitsPreserves ==
  ASSUME IndInv, NEW t \in Callers, NEW cb \in RecordSizes, AppendFits(t, cb)
  PROVE  IndInv'
<1>1. cb \in Nat /\ cb > 0 /\ Bytes(calls + 1, cb) \in Buffer
        /\ Len(Bytes(calls + 1, cb)) = cb
  BY InputsAssumption, BytesType DEF IndInv, TypeOK
<1>2. Current' \in Buffer /\ Current' # <<>>
  BY <1>1, ConcatProperties, EmptySeq DEF AppendFits, IndInv, TypeOK, Buffer
<1>3. TypeOK'
  BY <1>2 DEF AppendFits, IndInv, TypeOK, locks, pool
<1>4. LockOwners'
  BY DEF AppendFits, IndInv, LockOwners, locks
<1>5. StillFull'
  BY ThreadsAssumption DEF AppendFits, IndInv, StillFull, Appending, locks, Threads
<1>6. DataVisible' /\ (HasCurrentDataFlag <=> Current # <<>>)'
  BY <1>2 DEF AppendFits, IndInv, DataVisible, locks
<1>7. BuffersConserved' /\ UsedIsTotalMinusFree' /\ LimitRespected'
  BY DEF AppendFits, IndInv, BuffersConserved, UsedIsTotalMinusFree,
         LimitRespected, HasRoom, Holders, pool
<1>8. QED
  BY <1>3, <1>4, <1>5, <1>6, <1>7 DEF IndInv

(* A record does not fit: DataLock is kept. *)
LEMMA AppendFullPreserves ==
  ASSUME IndInv, NEW t \in Callers, NEW cb \in RecordSizes, AppendFull(t, cb)
  PROVE  IndInv'
<1>1. cb \in Nat /\ cb > 0 /\ t \in Threads
  BY InputsAssumption DEF Threads
<1>2. TypeOK'
  BY <1>1 DEF AppendFull, IndInv, TypeOK, pool
<1>3. LockOwners'
  BY <1>1 DEF AppendFull, IndInv, TypeOK, LockOwners
<1>4. StillFull'
  BY <1>1 DEF AppendFull, IndInv, TypeOK, StillFull, Appending, CanAppend
<1>5. DataVisible' /\ (HasCurrentDataFlag <=> Current # <<>>)'
  BY <1>1 DEF AppendFull, IndInv, TypeOK, DataVisible
<1>6. Cardinality(Holders') = Cardinality(Holders)
  BY <1>1, HoldersKeep DEF AppendFull, IndInv, Holders
<1>7. BuffersConserved' /\ UsedIsTotalMinusFree' /\ LimitRespected'
  BY <1>1, <1>6
     DEF AppendFull, IndInv, TypeOK, BuffersConserved, UsedIsTotalMinusFree,
         LimitRespected, HasRoom, pool
<1>8. QED
  BY <1>2, <1>3, <1>4, <1>5, <1>7 DEF IndInv

(* A publisher enters the queue. *)
LEMMA PublishCurrentPreserves ==
  ASSUME IndInv, NEW t \in Threads, PublishCurrent(t)
  PROVE  IndInv'
<1>1. TypeOK'
  BY DEF PublishCurrent, IndInv, TypeOK, pool, locks, history
<1>2. LockOwners'
  BY DEF PublishCurrent, IndInv, TypeOK, LockOwners, locks
<1>3. StillFull'
  BY ThreadsAssumption
     DEF PublishCurrent, IndInv, TypeOK, LockOwners, StillFull, Appending,
         CanAppend, locks, Threads
<1>4. DataVisible' /\ (HasCurrentDataFlag <=> Current # <<>>)'
  BY DEF PublishCurrent, IndInv, TypeOK, DataVisible, locks
<1>5. Cardinality(Holders') = Cardinality(Holders)
  BY HoldersKeep DEF PublishCurrent, IndInv, Holders
<1>6. BuffersConserved' /\ UsedIsTotalMinusFree' /\ LimitRespected'
  BY <1>5
     DEF PublishCurrent, IndInv, TypeOK, BuffersConserved, UsedIsTotalMinusFree,
         LimitRespected, HasRoom, pool
<1>7. QED
  BY <1>1, <1>2, <1>3, <1>4, <1>6 DEF IndInv
(* A free buffer becomes the replacement, or there is none. *)
LEMMA TryTakeFreeBufferPreserves ==
  ASSUME IndInv, NEW t \in Threads, TryTakeFreeBuffer(t)
  PROVE  IndInv'
<1>0. /\ BuffersConserved /\ UsedIsTotalMinusFree
      /\ FreeList \in Nat /\ TotalBuffers \in Int /\ UsedBuffersCount \in Int
      /\ Len(ReadyList) \in Nat /\ Len(ReadyData) \in Nat
      /\ Cardinality(Holders) \in Nat
  BY CountsAreNumbers DEF IndInv
<1>1. TypeOK'
  <2>1. allocated' \in [Threads -> BOOLEAN]
    BY Zenon DEF TryTakeFreeBuffer, IndInv, TypeOK
  <2>2. QED
    BY <2>1 DEF TryTakeFreeBuffer, IndInv, TypeOK, locks, history
<1>2. LockOwners'
  BY DEF TryTakeFreeBuffer, IndInv, TypeOK, LockOwners, locks
<1>3. StillFull'
  BY DEF TryTakeFreeBuffer, IndInv, TypeOK, StillFull, Appending, CanAppend, locks
<1>4. DataVisible' /\ (HasCurrentDataFlag <=> Current # <<>>)'
  BY DEF TryTakeFreeBuffer, IndInv, TypeOK, DataVisible, locks
<1>5. BuffersConserved' /\ UsedIsTotalMinusFree'
  <2>1. CASE FreeList > 0
    <3>1. Cardinality(Holders') = Cardinality(Holders) + 1
      BY <2>1, HoldersGain DEF TryTakeFreeBuffer, IndInv, Holders
    <3>2. /\ FreeList' = FreeList - 1
          /\ UsedBuffersCount' = UsedBuffersCount + 1
          /\ UNCHANGED <<ReadyList, ReadyData, TotalBuffers>>
      BY <2>1 DEF TryTakeFreeBuffer
    <3>3. BuffersConserved'
      BY <1>0, <3>1, <3>2 DEF BuffersConserved
    <3>4. UsedIsTotalMinusFree'
      BY <1>0, <3>2 DEF UsedIsTotalMinusFree
    <3>5. QED
      BY <3>3, <3>4
  <2>2. CASE ~ (FreeList > 0)
    <3>1. Cardinality(Holders') = Cardinality(Holders)
      BY <2>2, HoldersKeep DEF TryTakeFreeBuffer, IndInv, Holders
    <3>2. QED
      BY <2>2, <3>1
         DEF TryTakeFreeBuffer, IndInv, BuffersConserved, UsedIsTotalMinusFree
  <2>3. QED
    BY <2>1, <2>2
<1>6. LimitRespected'
  BY DEF TryTakeFreeBuffer, IndInv, TypeOK, LimitRespected, HasRoom
<1>7. QED
  BY <1>1, <1>2, <1>3, <1>4, <1>5, <1>6 DEF IndInv

(* The first test of the limit. *)
LEMMA TryCreateBufferPreserves ==
  ASSUME IndInv, NEW t \in Threads, TryCreateBuffer(t)
  PROVE  IndInv'
<1>1. TypeOK'
  BY DEF TryCreateBuffer, IndInv, TypeOK, Return, CountDropped, pool
<1>2. LockOwners'
  BY ThreadsAssumption
     DEF TryCreateBuffer, IndInv, TypeOK, LockOwners, Return, Appending, Threads
<1>3. StillFull'
  BY ThreadsAssumption
     DEF TryCreateBuffer, IndInv, TypeOK, StillFull, Return, Appending, CanAppend,
         Threads
<1>4. DataVisible' /\ (HasCurrentDataFlag <=> Current # <<>>)'
  BY DEF TryCreateBuffer, IndInv, TypeOK, DataVisible, Return
<1>5. Cardinality(Holders') = Cardinality(Holders)
  BY HoldersKeep DEF TryCreateBuffer, IndInv, Holders, Return
<1>6. BuffersConserved' /\ UsedIsTotalMinusFree'
  BY <1>5 DEF TryCreateBuffer, IndInv, BuffersConserved, UsedIsTotalMinusFree, pool
<1>7. LimitRespected'
  BY DEF TryCreateBuffer, IndInv, TypeOK, LimitRespected, HasRoom, Return, pool
<1>8. QED
  BY <1>1, <1>2, <1>3, <1>4, <1>6, <1>7 DEF IndInv

(* The new buffer is counted: no other thread is past the first test. *)
LEMMA CountCreatedPreserves ==
  ASSUME IndInv, NEW t \in Threads, CountCreated(t)
  PROVE  IndInv'
<1>0. /\ BuffersConserved /\ UsedIsTotalMinusFree
      /\ FreeList \in Nat /\ TotalBuffers \in Int /\ UsedBuffersCount \in Int
      /\ Len(ReadyList) \in Nat /\ Len(ReadyData) \in Nat
      /\ Cardinality(Holders) \in Nat
  BY CountsAreNumbers DEF IndInv
<1>1. HasRoom
  BY DEF CountCreated, IndInv, LimitRespected
<1> DEFINE unchanged == <<Current, FreeList, ReadyList, Signaled,
                         AdaptiveFreeLimit, HasCurrentDataFlag, ReadyData, hand,
                         wanted, calls, published, delivered, dataLock, dropped>>
<1>a. /\ pc[t] = "make" /\ pc' = [pc EXCEPT ![t] = "swap"]
      /\ createLock' = None
      /\ TotalBuffers' = TotalBuffers + 1
      /\ UsedBuffersCount' = UsedBuffersCount + 1
      /\ UNCHANGED unchanged
  BY <1>1, Zenon DEF CountCreated
<1>2. TypeOK'
  <2>1. allocated' \in [Threads -> BOOLEAN]
    BY <1>1, Zenon DEF CountCreated, IndInv, TypeOK
  <2>2. TotalBuffers' \in Int /\ UsedBuffersCount' \in Int
    BY <1>a, CountsAreNumbers DEF IndInv
  <2>3. QED
    BY <1>a, <2>1, <2>2, Zenon DEF IndInv, TypeOK
<1>3. LockOwners'
  BY <1>a, ThreadsAssumption
     DEF IndInv, TypeOK, LockOwners, Threads
<1>4. StillFull'
  BY <1>a DEF IndInv, TypeOK, StillFull, Appending, CanAppend
<1>5. DataVisible' /\ (HasCurrentDataFlag <=> Current # <<>>)'
  BY <1>a DEF IndInv, TypeOK, DataVisible
<1>6. BuffersConserved' /\ UsedIsTotalMinusFree'
  <2>1. Cardinality(Holders') = Cardinality(Holders) + 1
    BY <1>a, HoldersGain DEF IndInv, Holders
  <2>2. BuffersConserved'
    BY <1>0, <1>a, <2>1 DEF BuffersConserved
  <2>3. UsedIsTotalMinusFree'
    BY <1>0, <1>a DEF UsedIsTotalMinusFree
  <2>4. QED
    BY <2>2, <2>3
<1>7. LimitRespected'
  <2>1. \A u \in Threads : pc'[u] # "make"
    BY <1>a DEF IndInv, TypeOK, LockOwners
  <2>2. QED
    BY <1>1, <1>a, <2>1, OptionsAssumption
       DEF IndInv, TypeOK, LimitRespected, HasRoom
<1>8. QED
  BY <1>2, <1>3, <1>4, <1>5, <1>6, <1>7 DEF IndInv

(* The appender swaps Current, which holds data, and keeps DataLock. *)
LEMMA SwapForAppendPreserves ==
  ASSUME IndInv, NEW t \in Threads, SwapForAppend(t)
  PROVE  IndInv'
<1>1. wanted > 0 /\ wanted \in Nat
  BY ThreadsAssumption
     DEF SwapForAppend, IndInv, TypeOK, LockOwners, Appending, Threads
<1>2. Bytes(calls, wanted) \in Buffer /\ Bytes(calls, wanted) # <<>>
  BY <1>1, BytesType, EmptySeq DEF IndInv, TypeOK
<1>3. Current # <<>>
  BY OptionsAssumption, <1>1, EmptySeq
     DEF SwapForAppend, IndInv, StillFull, CanAppend, Appending
<1>4. TypeOK'
  BY <1>2 DEF SwapForAppend, IndInv, TypeOK, pool, locks, history
<1>5. LockOwners'
  BY DEF SwapForAppend, IndInv, TypeOK, LockOwners, locks
<1>6. StillFull'
  BY DEF SwapForAppend, IndInv, TypeOK, StillFull, Appending, CanAppend, locks
<1>7. DataVisible' /\ (HasCurrentDataFlag <=> Current # <<>>)'
  BY <1>2, <1>3 DEF SwapForAppend, IndInv, TypeOK, DataVisible, locks
<1>8. Cardinality(Holders') = Cardinality(Holders)
  BY HoldersKeep DEF SwapForAppend, IndInv, Holders
<1>9. BuffersConserved' /\ UsedIsTotalMinusFree' /\ LimitRespected'
  BY <1>8
     DEF SwapForAppend, IndInv, TypeOK, BuffersConserved, UsedIsTotalMinusFree,
         LimitRespected, HasRoom, pool
<1>10. QED
  BY <1>4, <1>5, <1>6, <1>7, <1>9 DEF IndInv

(* The publisher swaps Current, which holds data. *)
LEMMA SwapForPublishPreserves ==
  ASSUME IndInv, NEW t \in Threads, SwapForPublish(t)
  PROVE  IndInv'
<1>1. TypeOK'
  <2>1. <<>> \in Buffer /\ {Current[i] : i \in 1..Len(Current)} \subseteq Nat
    BY EmptySeq, ElementOfSeq DEF IndInv, TypeOK, Buffer
  <2>2. QED
    BY <2>1 DEF SwapForPublish, IndInv, TypeOK, pool, locks
<1>2. LockOwners'
  BY DEF SwapForPublish, IndInv, TypeOK, LockOwners, locks
<1>3. StillFull'
  BY ThreadsAssumption
     DEF SwapForPublish, IndInv, TypeOK, StillFull, Appending, locks, Threads
<1>4. DataVisible' /\ (HasCurrentDataFlag <=> Current # <<>>)'
  BY DEF SwapForPublish, IndInv, TypeOK, DataVisible, locks
<1>5. Cardinality(Holders') = Cardinality(Holders)
  BY HoldersKeep DEF SwapForPublish, IndInv, Holders
<1>6. BuffersConserved' /\ UsedIsTotalMinusFree' /\ LimitRespected'
  BY <1>5
     DEF SwapForPublish, IndInv, TypeOK, BuffersConserved, UsedIsTotalMinusFree,
         LimitRespected, HasRoom, pool
<1>7. QED
  BY <1>1, <1>2, <1>3, <1>4, <1>6 DEF IndInv
(* The record is larger than a buffer: the replacement is given back. *)
LEMMA RejectTooLargePreserves ==
  ASSUME IndInv, NEW t \in Threads, RejectTooLarge(t)
  PROVE  IndInv'
<1>0. /\ BuffersConserved /\ UsedIsTotalMinusFree
      /\ FreeList \in Nat /\ TotalBuffers \in Int /\ UsedBuffersCount \in Int
      /\ Len(ReadyList) \in Nat /\ Len(ReadyData) \in Nat
      /\ Cardinality(Holders) \in Nat
  BY CountsAreNumbers DEF IndInv
<1>1. PICK excess \in Nat :
             /\ FreeList' = FreeList + 1 - excess
             /\ FreeList' \in Nat
             /\ TotalBuffers' = TotalBuffers - excess
             /\ UsedBuffersCount' = UsedBuffersCount - 1
             /\ AdaptiveFreeLimit' \in Nat
  BY PutFreeAndDecayCounts DEF RejectTooLarge, ReleaseBuffer, IndInv
<1>2. TotalBuffers' \in Int /\ UsedBuffersCount' \in Int
  BY <1>0, <1>1
<1>3. TypeOK'
  BY <1>1, <1>2 DEF RejectTooLarge, IndInv, TypeOK, Return, CountDropped
<1>4. LockOwners'
  BY ThreadsAssumption
     DEF RejectTooLarge, IndInv, TypeOK, LockOwners, Return, Appending, Threads
<1>5. StillFull'
  BY ThreadsAssumption
     DEF RejectTooLarge, IndInv, TypeOK, StillFull, Appending, CanAppend, Return, Threads
<1>6. DataVisible' /\ (HasCurrentDataFlag <=> Current # <<>>)'
  BY DEF RejectTooLarge, IndInv, TypeOK, DataVisible, Return
<1>7. Cardinality(Holders') = Cardinality(Holders) - 1
  BY HoldersLose DEF RejectTooLarge, IndInv, Holders, Return
<1>8. BuffersConserved'
  BY <1>0, <1>1, <1>7 DEF RejectTooLarge, BuffersConserved
<1>9. UsedIsTotalMinusFree'
  BY <1>0, <1>1 DEF UsedIsTotalMinusFree
<1>10. LimitRespected'
  BY <1>0, <1>1, OptionsAssumption
     DEF RejectTooLarge, IndInv, TypeOK, LimitRespected, HasRoom, Return
<1>11. QED
  BY <1>3, <1>4, <1>5, <1>6, <1>8, <1>9, <1>10 DEF IndInv

(* Nothing to publish any more: the replacement is given back. *)
LEMMA PublishNothingPreserves ==
  ASSUME IndInv, NEW t \in Threads, PublishNothing(t)
  PROVE  IndInv'
<1>0. /\ BuffersConserved /\ UsedIsTotalMinusFree
      /\ FreeList \in Nat /\ TotalBuffers \in Int /\ UsedBuffersCount \in Int
      /\ Len(ReadyList) \in Nat /\ Len(ReadyData) \in Nat
      /\ Cardinality(Holders) \in Nat
  BY CountsAreNumbers DEF IndInv
<1>1. PICK excess \in Nat :
             /\ FreeList' = FreeList + 1 - excess
             /\ FreeList' \in Nat
             /\ TotalBuffers' = TotalBuffers - excess
             /\ UsedBuffersCount' = UsedBuffersCount - 1
             /\ AdaptiveFreeLimit' \in Nat
  BY PutFreeAndDecayCounts DEF PublishNothing, ReleaseBuffer, IndInv
<1>2. TotalBuffers' \in Int /\ UsedBuffersCount' \in Int
  BY <1>0, <1>1
<1>3. TypeOK'
  BY <1>1, <1>2 DEF PublishNothing, IndInv, TypeOK, locks, history
<1>4. LockOwners'
  BY ThreadsAssumption
     DEF PublishNothing, IndInv, TypeOK, LockOwners, locks, Threads
<1>5. StillFull'
  BY ThreadsAssumption
     DEF PublishNothing, IndInv, TypeOK, StillFull, Appending, CanAppend, locks, Threads
<1>6. DataVisible' /\ (HasCurrentDataFlag <=> Current # <<>>)'
  BY DEF PublishNothing, IndInv, TypeOK, DataVisible, locks
<1>7. Cardinality(Holders') = Cardinality(Holders) - 1
  BY HoldersLose DEF PublishNothing, IndInv, Holders
<1>8. BuffersConserved'
  BY <1>0, <1>1, <1>7 DEF PublishNothing, BuffersConserved
<1>9. UsedIsTotalMinusFree'
  BY <1>0, <1>1 DEF UsedIsTotalMinusFree
<1>10. LimitRespected'
  BY <1>0, <1>1, OptionsAssumption
     DEF PublishNothing, IndInv, TypeOK, LimitRespected, HasRoom
<1>11. QED
  BY <1>3, <1>4, <1>5, <1>6, <1>8, <1>9, <1>10 DEF IndInv

(* The adaptive limit grows. *)
LEMMA MaybeGrowAdaptivePreserves ==
  ASSUME IndInv, NEW t \in Threads, MaybeGrowAdaptive(t)
  PROVE  IndInv'
<1>1. AdaptiveFreeLimit' \in Nat
  BY DEF MaybeGrowAdaptive, IndInv, TypeOK
<1>2. TypeOK'
  BY <1>1 DEF MaybeGrowAdaptive, IndInv, TypeOK, locks, history
<1>3. LockOwners'
  BY DEF MaybeGrowAdaptive, IndInv, TypeOK, LockOwners, locks
<1>4. StillFull'
  BY DEF MaybeGrowAdaptive, IndInv, TypeOK, StillFull, Appending, CanAppend, locks
<1>5. DataVisible' /\ (HasCurrentDataFlag <=> Current # <<>>)'
  BY DEF MaybeGrowAdaptive, IndInv, TypeOK, DataVisible, locks
<1>6. Cardinality(Holders') = Cardinality(Holders)
  BY HoldersKeep DEF MaybeGrowAdaptive, IndInv, Holders
<1>7. BuffersConserved' /\ UsedIsTotalMinusFree' /\ LimitRespected'
  BY <1>6
     DEF MaybeGrowAdaptive, IndInv, TypeOK, BuffersConserved,
         UsedIsTotalMinusFree, LimitRespected, HasRoom
<1>8. QED
  BY <1>2, <1>3, <1>4, <1>5, <1>7 DEF IndInv

(* The old buffer passes from a thread to ReadyList. *)
LEMMA EnqueueReadyPreserves ==
  ASSUME IndInv, NEW t \in Threads, EnqueueReady(t)
  PROVE  IndInv'
<1>0. /\ BuffersConserved /\ UsedIsTotalMinusFree
      /\ FreeList \in Nat /\ TotalBuffers \in Int /\ UsedBuffersCount \in Int
      /\ Len(ReadyList) \in Nat /\ Len(ReadyData) \in Nat
      /\ Cardinality(Holders) \in Nat
  BY CountsAreNumbers DEF IndInv
<1>1. /\ hand[t] \in Buffer /\ hand[t] # <<>>
      /\ ReadyList \in Seq(Buffer) /\ <<>> \in Buffer
  BY EmptySeq DEF EnqueueReady, IndInv, TypeOK, DataVisible, Buffer
<1>2. /\ ReadyList' \in Seq(Buffer)
      /\ Len(ReadyList') = Len(ReadyList) + 1
      /\ ReadyList' # <<>>
      /\ \A i \in 1..Len(ReadyList') :
           ReadyList'[i] = IF i <= Len(ReadyList) THEN ReadyList[i] ELSE hand[t]
  BY <1>1 DEF EnqueueReady
<1>3. TypeOK'
  BY <1>1, <1>2 DEF EnqueueReady, IndInv, TypeOK, Return, pool, history
<1>4. LockOwners'
  BY ThreadsAssumption
     DEF EnqueueReady, IndInv, TypeOK, LockOwners, Return, Appending, Threads
<1>5. StillFull'
  BY ThreadsAssumption
     DEF EnqueueReady, IndInv, TypeOK, StillFull, Return, Appending, CanAppend,
         Threads
<1>6. (HasCurrentDataFlag <=> Current # <<>>)'
  BY DEF EnqueueReady, IndInv
<1>7. DataVisible'
  <2>1. \A i \in 1..Len(ReadyList') : ReadyList'[i] # <<>>
    BY <1>0, <1>1, <1>2 DEF IndInv, DataVisible
  <2>2. \A u \in Threads : pc'[u] \in {"grow", "enqueue"} <=> hand'[u] # <<>>
    BY DEF EnqueueReady, IndInv, TypeOK, DataVisible, Return
  <2>3. QED
    BY <1>2, <1>6, <2>1, <2>2 DEF EnqueueReady, DataVisible
<1>8. Cardinality(Holders') = Cardinality(Holders) - 1
  BY HoldersLose DEF EnqueueReady, IndInv, Holders, Return
<1>9. BuffersConserved'
  BY <1>0, <1>2, <1>8 DEF EnqueueReady, BuffersConserved, pool
<1>10. UsedIsTotalMinusFree'
  BY <1>0 DEF EnqueueReady, UsedIsTotalMinusFree, pool
<1>11. LimitRespected'
  BY DEF EnqueueReady, IndInv, TypeOK, LimitRespected, HasRoom, Return, pool
<1>12. QED
  BY <1>3, <1>4, <1>5, <1>6, <1>7, <1>9, <1>10, <1>11 DEF IndInv

(* The worker takes ReadyList. *)
LEMMA TakeReadyPreserves ==
  ASSUME IndInv, TakeReady
  PROVE  IndInv'
<1>0. /\ BuffersConserved /\ UsedIsTotalMinusFree
      /\ FreeList \in Nat /\ TotalBuffers \in Int /\ UsedBuffersCount \in Int
      /\ Len(ReadyList) \in Nat /\ Len(ReadyData) \in Nat
      /\ Cardinality(Holders) \in Nat
  BY CountsAreNumbers DEF IndInv
<1>1. <<>> \in Seq(Buffer) /\ Len(<<>>) = 0 /\ Len(ReadyData) = 0
        /\ delivered \o ReadyList \in Seq(Buffer)
  BY EmptySeq, ConcatProperties DEF TakeReady, IndInv, TypeOK
<1>2. TypeOK'
  BY <1>1 DEF TakeReady, IndInv, TypeOK, pool, locks
<1>3. LockOwners'
  BY DEF TakeReady, IndInv, LockOwners, locks
<1>4. StillFull'
  BY DEF TakeReady, IndInv, StillFull, Appending, CanAppend, locks
<1>5. DataVisible' /\ (HasCurrentDataFlag <=> Current # <<>>)'
  BY <1>1 DEF TakeReady, IndInv, DataVisible, locks
<1>6. Holders' = Holders
  BY DEF TakeReady, Holders
<1>7. BuffersConserved'
  BY <1>0, <1>1, <1>6 DEF TakeReady, BuffersConserved, pool
<1>8. UsedIsTotalMinusFree' /\ LimitRespected'
  BY DEF TakeReady, IndInv, UsedIsTotalMinusFree, LimitRespected, HasRoom, pool
<1>9. QED
  BY <1>2, <1>3, <1>4, <1>5, <1>7, <1>8 DEF IndInv

(* The worker gives its batch back. *)
LEMMA RecyclePreserves ==
  ASSUME IndInv, Recycle
  PROVE  IndInv'
<1>0. /\ BuffersConserved /\ UsedIsTotalMinusFree
      /\ FreeList \in Nat /\ TotalBuffers \in Int /\ UsedBuffersCount \in Int
      /\ Len(ReadyList) \in Nat /\ Len(ReadyData) \in Nat
      /\ Cardinality(Holders) \in Nat
  BY CountsAreNumbers DEF IndInv
<1>1. <<>> \in Seq(Buffer) /\ Len(<<>>) = 0
  BY EmptySeq
<1>2. FreeList' \in Nat /\ UsedBuffersCount' \in Int
  BY <1>0 DEF Recycle
<1>3. TypeOK'
  BY <1>1, <1>2 DEF Recycle, IndInv, TypeOK, locks, history
<1>4. LockOwners'
  BY DEF Recycle, IndInv, LockOwners, locks
<1>5. StillFull'
  BY DEF Recycle, IndInv, StillFull, Appending, CanAppend, locks
<1>6. DataVisible' /\ (HasCurrentDataFlag <=> Current # <<>>)'
  BY DEF Recycle, IndInv, DataVisible, locks
<1>7. Holders' = Holders
  BY DEF Recycle, Holders
<1>8. BuffersConserved'
  BY <1>0, <1>1, <1>7 DEF Recycle, BuffersConserved
<1>9. UsedIsTotalMinusFree'
  BY <1>0 DEF Recycle, UsedIsTotalMinusFree
<1>10. LimitRespected'
  BY DEF Recycle, IndInv, LimitRespected, HasRoom
<1>11. QED
  BY <1>3, <1>4, <1>5, <1>6, <1>8, <1>9, <1>10 DEF IndInv

(* The worker trims FreeList. *)
LEMMA TrimFreeBuffersIfIdlePreserves ==
  ASSUME IndInv, TrimFreeBuffersIfIdle
  PROVE  IndInv'
<1>0. /\ BuffersConserved /\ UsedIsTotalMinusFree
      /\ FreeList \in Nat /\ TotalBuffers \in Int /\ UsedBuffersCount \in Int
      /\ Len(ReadyList) \in Nat /\ Len(ReadyData) \in Nat
      /\ Cardinality(Holders) \in Nat
  BY CountsAreNumbers DEF IndInv
<1>1. PICK excess \in Nat :
             /\ FreeList' = FreeList + 0 - excess
             /\ FreeList' \in Nat
             /\ TotalBuffers' = TotalBuffers - excess
             /\ UsedBuffersCount' = UsedBuffersCount - 0
             /\ AdaptiveFreeLimit' \in Nat
  BY PutFreeAndDecayCounts DEF TrimFreeBuffersIfIdle, IndInv
<1>2. TotalBuffers' \in Int /\ UsedBuffersCount' \in Int
  BY <1>0, <1>1
<1>3. TypeOK'
  BY <1>1, <1>2 DEF TrimFreeBuffersIfIdle, IndInv, TypeOK, locks, history
<1>4. LockOwners'
  BY DEF TrimFreeBuffersIfIdle, IndInv, LockOwners, locks
<1>5. StillFull'
  BY DEF TrimFreeBuffersIfIdle, IndInv, StillFull, Appending, CanAppend, locks
<1>6. DataVisible' /\ (HasCurrentDataFlag <=> Current # <<>>)'
  BY DEF TrimFreeBuffersIfIdle, IndInv, DataVisible, locks
<1>7. Holders' = Holders
  BY DEF TrimFreeBuffersIfIdle, Holders
<1>8. BuffersConserved'
  BY <1>0, <1>1, <1>7 DEF TrimFreeBuffersIfIdle, BuffersConserved
<1>9. UsedIsTotalMinusFree'
  BY <1>0, <1>1 DEF UsedIsTotalMinusFree
<1>10. LimitRespected'
  BY <1>0, <1>1, OptionsAssumption
     DEF TrimFreeBuffersIfIdle, IndInv, LimitRespected, HasRoom
<1>11. QED
  BY <1>3, <1>4, <1>5, <1>6, <1>8, <1>9, <1>10 DEF IndInv

(* A step of the module that changes nothing. *)
LEMMA StutterPreserves ==
  ASSUME IndInv, UNCHANGED vars
  PROVE  IndInv'
<1>1. Holders' = Holders
  BY DEF vars, Holders
<1>2. TypeOK' /\ LockOwners' /\ StillFull'
  BY DEF vars, pool, locks, history, IndInv, TypeOK, LockOwners, StillFull,
         Appending, CanAppend
<1>3. DataVisible' /\ (HasCurrentDataFlag <=> Current # <<>>)'
  BY DEF vars, locks, IndInv, DataVisible
<1>4. BuffersConserved' /\ UsedIsTotalMinusFree' /\ LimitRespected'
  BY <1>1 DEF vars, pool, IndInv, BuffersConserved, UsedIsTotalMinusFree,
              LimitRespected, HasRoom
<1>5. QED
  BY <1>2, <1>3, <1>4 DEF IndInv

----------------------------------------------------------------------------
(* Theorems *)

(* Every reachable state of the queue satisfies the inductive invariant. *)
THEOREM IndInvHolds == Spec => []IndInv
<1>1. IndInv /\ [Next]_vars => IndInv'
  <2> SUFFICES ASSUME IndInv, [Next]_vars PROVE IndInv'
    OBVIOUS
  <2>1. ASSUME NEW t \in Callers, NEW cb \in RecordSizes,
               AppendFits(t, cb) \/ AppendFull(t, cb)
        PROVE  IndInv'
    BY <2>1, AppendFitsPreserves, AppendFullPreserves
  <2>2. ASSUME NEW t \in Threads, QueueStep(t)
        PROVE  IndInv'
    BY <2>2, PublishCurrentPreserves, TryTakeFreeBufferPreserves,
       TryCreateBufferPreserves, CountCreatedPreserves, SwapForAppendPreserves,
       RejectTooLargePreserves, SwapForPublishPreserves, PublishNothingPreserves,
       MaybeGrowAdaptivePreserves, EnqueueReadyPreserves DEF QueueStep
  <2>3. CASE TakeReady \/ Recycle \/ TrimFreeBuffersIfIdle
    BY <2>3, TakeReadyPreserves, RecyclePreserves, TrimFreeBuffersIfIdlePreserves
  <2>4. CASE UNCHANGED vars
    BY <2>4, StutterPreserves
  <2>5. QED
    BY <2>1, <2>2, <2>3, <2>4 DEF Next, Threads
<1>2. QED
  BY <1>1, InitIndInv, PTL DEF Spec

(* The state of the queue keeps its type, for any number of threads. *)
THEOREM TypeCorrect == Spec => []TypeOK
<1>1. IndInv => TypeOK
  BY DEF IndInv
<1>2. QED
  BY <1>1, IndInvHolds, PTL

(* TryCreateBuffer, ReleaseBuffer, Recycle and every swap neither leak a     *)
(* buffer nor count one twice.                                               *)
THEOREM BuffersAreConserved == Spec => []BuffersConserved
<1>1. IndInv => BuffersConserved
  BY DEF IndInv
<1>2. QED
  BY <1>1, IndInvHolds, PTL

(* MaxTotalBuffers is never exceeded and the second test of TryCreateBuffer  *)
(* always succeeds.                                                          *)
THEOREM LimitIsRespected == Spec => []LimitRespected
<1>1. IndInv => LimitRespected
  BY DEF IndInv
<1>2. QED
  BY <1>1, IndInvHolds, PTL

(* GetUsedBuffers, read without a lock, is the number of buffers in use: it  *)
(* is at least one and never wraps.                                          *)
THEOREM UsedIsExact == Spec => [](UsedIsTotalMinusFree /\ UsedBuffersCount >= 1)
<1>1. IndInv => UsedIsTotalMinusFree /\ UsedBuffersCount >= 1
  <2> SUFFICES ASSUME IndInv
               PROVE  UsedIsTotalMinusFree /\ UsedBuffersCount >= 1
    OBVIOUS
  <2>1. BuffersConserved /\ UsedIsTotalMinusFree
    BY DEF IndInv
  <2>2. /\ FreeList \in Nat /\ TotalBuffers \in Int
        /\ Len(ReadyList) \in Nat /\ Len(ReadyData) \in Nat
        /\ Cardinality(Holders) \in Nat
    BY CountsAreNumbers DEF IndInv
  <2>3. QED
    BY <2>1, <2>2 DEF BuffersConserved, UsedIsTotalMinusFree
<1>2. QED
  BY <1>1, IndInvHolds, PTL

(* The worker sees all the data no thread has in its hands. *)
THEOREM DataIsVisible == Spec => []DataVisible
<1>1. IndInv => DataVisible
  BY DEF IndInv
<1>2. QED
  BY <1>1, IndInvHolds, PTL

(* The second CanAppend test of Append never succeeds. *)
THEOREM StillFullHolds == Spec => []StillFull
<1>1. IndInv => StillFull
  BY DEF IndInv
<1>2. QED
  BY <1>1, IndInvHolds, PTL
----------------------------------------------------------------------------
(* Where the records are.  A record leaves Current with all its neighbours, *)
(* so what is in Current is newer than what is anywhere else; the appender  *)
(* that swapped Current keeps DataLock until it has enqueued, so its buffer *)
(* is newer than all but Current, and every other buffer in a hand was      *)
(* published.  RecInv is the conjunction.                                   *)

InStream(x) == \E i \in 1..Len(Stream) : x \in RecordsOf(Stream[i])

InHand(x) == \E t \in Threads : x \in RecordsOf(hand[t])

(* Append has numbered its record and not yet stored or dropped it. *)
Appended ==
  \E t \in Threads : Appending(t) /\ pc[t] \in {"take", "create", "make", "swap"}

Numbered ==
  /\ \A i \in 1..Len(Stream) : RecordsOf(Stream[i]) \subseteq 1..calls
  /\ \A t \in Threads : RecordsOf(hand[t]) \subseteq 1..calls
  /\ RecordsOf(Current) \subseteq 1..calls
  /\ dropped \subseteq 1..calls
  /\ dataLock # None => calls \in 1..calls

OnePlace ==
  /\ \A i, j \in 1..Len(Stream) : \A x \in RecordsOf(Stream[i]) :
       x \in RecordsOf(Stream[j]) => i = j
  /\ \A t, u \in Threads : \A x \in RecordsOf(hand[t]) :
       x \in RecordsOf(hand[u]) => t = u
  /\ \A x \in 1..calls : ~ (InStream(x) /\ InHand(x))

Kept ==
  /\ \A x \in 1..calls :
       InStream(x) \/ InHand(x) \/ x \in RecordsOf(Current)
         <=> x \notin dropped /\ ~ (x = calls /\ Appended)
  /\ Appended => calls \notin dropped

CurrentIsNewest ==
  /\ \A i \in 1..Len(Stream) : \A x \in RecordsOf(Stream[i]), y \in RecordsOf(Current) :
       x < y
  /\ \A t \in Threads : \A x \in RecordsOf(hand[t]), y \in RecordsOf(Current) : x < y

HandsInOrder ==
  \A t \in Threads :
    IF dataLock = t
    THEN \A y \in RecordsOf(hand[t]) :
           /\ \A i \in 1..Len(Stream) : \A x \in RecordsOf(Stream[i]) : x < y
           /\ \A u \in Threads \ {t} : \A x \in RecordsOf(hand[u]) : x < y
    ELSE RecordsOf(hand[t]) \subseteq published

RecInv ==
  /\ Numbered
  /\ OnePlace
  /\ Kept
  /\ CurrentIsNewest
  /\ HandsInOrder
  /\ InvertedOnlyByPublish

----------------------------------------------------------------------------
(* Lemmas about records. *)

(* The records of the buffers the model builds. *)
LEMMA RecordsOfBuffers ==
  /\ RecordsOf(<<>>) = {}
  /\ \A b \in Buffer : b # <<>> => RecordsOf(b) # {}
  /\ \A b \in Buffer : RecordsOf(b) \subseteq Nat
  /\ \A x \in Nat, cb \in Nat : cb > 0 => RecordsOf(Bytes(x, cb)) = {x}
  /\ \A b \in Buffer, x \in Nat, cb \in Nat :
       cb > 0 => RecordsOf(b \o Bytes(x, cb)) = RecordsOf(b) \cup {x}
<1>1. RecordsOf(<<>>) = {}
  BY EmptySeq DEF RecordsOf
<1>2. ASSUME NEW b \in Buffer
      PROVE  RecordsOf(b) \subseteq Nat /\ (b # <<>> => RecordsOf(b) # {})
  <2>1. b \in Seq(Nat) /\ Len(b) \in Nat /\ \A i \in 1..Len(b) : b[i] \in Nat
    BY LenProperties, ElementOfSeq DEF Buffer
  <2>2. b # <<>> => 1 \in 1..Len(b)
    BY <2>1, EmptySeq
  <2>3. QED
    BY <2>1, <2>2 DEF RecordsOf
<1>3. ASSUME NEW x \in Nat, NEW cb \in Nat, cb > 0
      PROVE  RecordsOf(Bytes(x, cb)) = {x}
  <2>1. Len(Bytes(x, cb)) = cb /\ 1 \in 1..cb
    BY <1>3, BytesType
  <2>2. \A i \in 1..cb : Bytes(x, cb)[i] = x
    BY DEF Bytes
  <2>3. QED
    BY <2>1, <2>2, Zenon DEF RecordsOf
<1>4. ASSUME NEW b \in Buffer, NEW x \in Nat, NEW cb \in Nat, cb > 0
      PROVE  RecordsOf(b \o Bytes(x, cb)) = RecordsOf(b) \cup {x}
  <2> DEFINE c == Bytes(x, cb)
             d == b \o c
  <2>1. c \in Seq(Nat) /\ Len(c) = cb /\ \A i \in 1..cb : c[i] = x
    BY BytesType DEF Bytes, Buffer
  <2>2. b \in Seq(Nat) /\ Len(b) \in Nat
    BY LenProperties DEF Buffer
  <2> HIDE DEF c
  <2>3. /\ Len(d) = Len(b) + cb
        /\ \A i \in 1..Len(d) : d[i] = IF i <= Len(b) THEN b[i] ELSE c[i - Len(b)]
    BY <2>1, <2>2, ConcatProperties
  <2> HIDE DEF d
  <2>4. ASSUME NEW i \in 1..Len(d) PROVE d[i] \in RecordsOf(b) \cup {x}
    <3>1. CASE i <= Len(b)
      BY <3>1, <2>2, <2>3 DEF RecordsOf
    <3>2. CASE ~ (i <= Len(b))
      <4>1. i - Len(b) \in 1..cb
        BY <3>2, <2>2, <2>3
      <4>2. QED
        BY <4>1, <3>2, <2>1, <2>3
    <3>3. QED
      BY <3>1, <3>2
  <2>5. ASSUME NEW i \in 1..Len(b) PROVE b[i] \in RecordsOf(d)
    <3>1. i \in 1..Len(d) /\ d[i] = b[i]
      BY <2>2, <2>3
    <3>2. QED
      BY <3>1 DEF RecordsOf
  <2>6. x \in RecordsOf(d)
    <3>1. Len(d) \in 1..Len(d) /\ Len(d) - Len(b) = cb /\ cb \in 1..cb
            /\ ~ (Len(d) <= Len(b))
      BY <1>4, <2>2, <2>3
    <3>2. d[Len(d)] = x
      BY <3>1, <2>1, <2>3
    <3>3. QED
      BY <3>1, <3>2 DEF RecordsOf
  <2>7. RecordsOf(d) \subseteq RecordsOf(b) \cup {x}
    BY <2>4, Zenon DEF RecordsOf
  <2>8. RecordsOf(b) \subseteq RecordsOf(d)
    BY <2>5, Zenon DEF RecordsOf
  <2>9. QED
    BY <2>6, <2>7, <2>8 DEF d, c
<1>5. QED
  BY <1>1, <1>2, <1>3, <1>4

(* Stream is a sequence of buffers: what was delivered, then ReadyList. *)
LEMMA StreamType ==
  ASSUME TypeOK
  PROVE  /\ Stream \in Seq(Buffer)
         /\ Len(Stream) = Len(delivered) + Len(ReadyList)
         /\ Len(delivered) \in Nat /\ Len(ReadyList) \in Nat /\ Len(Stream) \in Nat
         /\ \A i \in 1..Len(Stream) : Stream[i] =
              IF i <= Len(delivered) THEN delivered[i] ELSE ReadyList[i - Len(delivered)]
<1>1. delivered \in Seq(Buffer) /\ ReadyList \in Seq(Buffer)
  BY DEF TypeOK
<1>2. QED
  BY <1>1, ConcatProperties, LenProperties DEF Stream

(* The records of every place are numbers. *)
LEMMA RecordsAreNumbers ==
  ASSUME TypeOK
  PROVE  /\ \A i \in 1..Len(Stream) : RecordsOf(Stream[i]) \subseteq Nat
         /\ \A t \in Threads : RecordsOf(hand[t]) \subseteq Nat
         /\ RecordsOf(Current) \subseteq Nat
<1>1. \A i \in 1..Len(Stream) : Stream[i] \in Buffer
  BY StreamType, ElementOfSeq
<1>2. Current \in Buffer /\ \A t \in Threads : hand[t] \in Buffer
  BY DEF TypeOK
<1>3. QED
  BY <1>1, <1>2, RecordsOfBuffers

(* Who is in Append decides whether its record is in progress. *)
LEMMA AppendedIs ==
  ASSUME TypeOK
  PROVE  Appended <=> dataLock # None /\ pc[dataLock] \in {"take", "create", "make", "swap"}
BY ThreadsAssumption DEF TypeOK, Appended, Appending, Threads

----------------------------------------------------------------------------
(* A step that moves no record and ends no append keeps the invariant.      *)
LEMMA RecordsStay ==
  ASSUME RecInv, Stream' = Stream, published \subseteq published',
         UNCHANGED <<hand, Current, calls, dropped, dataLock>>, Appended' <=> Appended
  PROVE  RecInv'
<1>1. Numbered' /\ OnePlace'
  <2>1. Numbered'
    BY DEF RecInv, Numbered
  <2>2. OnePlace'
    BY DEF RecInv, OnePlace, InStream, InHand
  <2>3. QED
    BY <2>1, <2>2
<1>2. Kept'
  BY DEF RecInv, Kept, InStream, InHand, RecordsOf
<1>3. CurrentIsNewest' /\ InvertedOnlyByPublish'
  BY DEF RecInv, CurrentIsNewest, InvertedOnlyByPublish, RecordsOf
<1>4. HandsInOrder'
  BY DEF RecInv, HandsInOrder
<1>5. QED
  BY <1>1, <1>2, <1>3, <1>4 DEF RecInv

(* The same of the state a step leads to. *)
LEMMA AppendedNext ==
  ASSUME TypeOK'
  PROVE  Appended' <=> dataLock' # None /\ pc'[dataLock'] \in {"take", "create", "make", "swap"}
BY ThreadsAssumption DEF TypeOK, Appended, Appending, Threads

(* The thread inside Append, if it has come to "swap", has nothing in its    *)
(* hands, like every thread that is not about to enqueue.                    *)
LEMMA HandsEmpty ==
  ASSUME IndInv, NEW t \in Threads, pc[t] \notin {"grow", "enqueue"}
  PROVE  hand[t] = <<>> /\ RecordsOf(hand[t]) = {}
<1>1. hand[t] = <<>>
  BY DEF IndInv, DataVisible
<1>2. QED
  BY <1>1, RecordsOfBuffers

(* PublishCurrent, TryTakeFreeBuffer, PublishNothing, MaybeGrowAdaptive,     *)
(* TryCreateBuffer and its second section while there is room, and the       *)
(* worker's steps on free buffers.                                           *)
LEMMA QuietStepsKeepRecords ==
  ASSUME IndInv, IndInv', RecInv, NEW t \in Threads,
         \/ PublishCurrent(t)
         \/ TryTakeFreeBuffer(t)
         \/ HasRoom /\ TryCreateBuffer(t)
         \/ CountCreated(t)
         \/ PublishNothing(t)
         \/ MaybeGrowAdaptive(t)
         \/ Recycle
         \/ TrimFreeBuffersIfIdle
         \/ UNCHANGED vars
  PROVE  /\ RecInv' /\ (Appended' <=> Appended)
         /\ UNCHANGED <<hand, Current, calls, dropped, delivered, ReadyList>>
<1>1. UNCHANGED <<hand, Current, calls, dropped, dataLock, published, delivered, ReadyList>>
  <2>1. CASE CountCreated(t)
    <3>1. HasRoom
      BY <2>1 DEF CountCreated, IndInv, LimitRespected
    <3>2. QED
      BY <2>1, <3>1 DEF CountCreated
  <2>2. QED
    BY <2>1 DEF PublishCurrent, TryTakeFreeBuffer, TryCreateBuffer, PublishNothing,
                MaybeGrowAdaptive, Recycle, TrimFreeBuffersIfIdle, vars, locks, history
<1>2. Stream' = Stream
  BY <1>1 DEF Stream
<1>4. \/ pc' = pc
      \/ \E a, b \in {"idle", "take", "create", "make", "swap"} :
           /\ pc[t] = a /\ pc' = [pc EXCEPT ![t] = b]
           /\ a = "idle" \/ b = "idle" => dataLock # t
      \/ pc[t] = "grow" /\ pc' = [pc EXCEPT ![t] = "enqueue"]
  <2>1. CASE CountCreated(t)
    <3>1. HasRoom
      BY <2>1 DEF CountCreated, IndInv, LimitRespected
    <3>2. QED
      BY <2>1, <3>1 DEF CountCreated
  <2>2. CASE PublishCurrent(t)
    BY <2>2, ThreadsAssumption DEF PublishCurrent, IndInv, LockOwners, Threads
  <2>3. CASE PublishNothing(t)
    BY <2>3, ThreadsAssumption DEF PublishNothing, Threads
  <2>4. QED
    BY <2>1, <2>2, <2>3
       DEF TryTakeFreeBuffer, TryCreateBuffer, MaybeGrowAdaptive, Recycle,
           TrimFreeBuffersIfIdle, vars
<1>5. Appended' <=> Appended
  BY <1>1, <1>4, AppendedIs, AppendedNext, ThreadsAssumption DEF IndInv, TypeOK, Threads
<1>6. RecInv'
  BY <1>1, <1>2, <1>5, RecordsStay
<1>7. QED
  BY <1>1, <1>5, <1>6

(* The worker takes ReadyList: the stream is what it was. *)
LEMMA TakeReadyKeepsRecords ==
  ASSUME IndInv, IndInv', RecInv, TakeReady
  PROVE  RecInv'
<1>1. Stream' = Stream
  <2>1. Stream \in Seq(Buffer)
    BY StreamType DEF IndInv
  <2>2. Stream' = Stream \o <<>>
    BY DEF TakeReady, Stream
  <2>3. QED
    BY <2>1, <2>2, ConcatEmptySeq
<1>2. UNCHANGED <<hand, Current, calls, dropped, dataLock, published, pc>>
  BY DEF TakeReady, locks
<1>3. Appended' <=> Appended
  BY <1>2 DEF Appended, Appending
<1>4. QED
  BY <1>1, <1>2, <1>3, RecordsStay

----------------------------------------------------------------------------
(* The steps of Append. *)

(* A record fits: it is the newest and joins Current. *)
LEMMA AppendFitsKeepsRecords ==
  ASSUME IndInv, RecInv, NEW t \in Callers, NEW cb \in RecordSizes, AppendFits(t, cb)
  PROVE  /\ RecInv' /\ ~ Appended /\ ~ Appended' /\ calls' = calls + 1
         /\ RecordsOf(Current') = RecordsOf(Current) \cup {calls + 1}
         /\ UNCHANGED <<hand, dropped, delivered, ReadyList>>
<1>1. /\ RecordsOf(Current') = RecordsOf(Current) \cup {calls + 1}
      /\ calls \in Nat /\ calls' = calls + 1
      /\ UNCHANGED <<hand, dropped, dataLock, published, pc>>
      /\ dataLock = None
      /\ Stream' = Stream
  <2>1. cb \in Nat /\ cb > 0 /\ Current \in Buffer /\ calls \in Nat /\ calls + 1 \in Nat
    BY InputsAssumption DEF IndInv, TypeOK
  <2>2. RecordsOf(Current \o Bytes(calls + 1, cb)) = RecordsOf(Current) \cup {calls + 1}
    BY <2>1, RecordsOfBuffers
  <2>3. QED
    BY <2>1, <2>2 DEF AppendFits, locks, Stream
<1>2. ~ Appended /\ ~ Appended'
  BY <1>1, ThreadsAssumption DEF Appended, Appending, Threads
<1>3. Numbered
  BY DEF RecInv
<1>a. /\ calls + 1 \notin 1..calls /\ calls + 1 \in 1..calls'
      /\ \A x \in 1..calls : x \in 1..calls' /\ x < calls + 1
  BY <1>1
<1>4. ~ InStream(calls + 1) /\ ~ InHand(calls + 1) /\ calls + 1 \notin dropped
  BY <1>3, <1>a, Zenon DEF Numbered, InStream, InHand
<1>5. \A x : (InStream(x) <=> InStream(x)') /\ (InHand(x) <=> InHand(x)')
  BY <1>1 DEF InStream, InHand
<1>6. Numbered'
  <2>1. /\ \A i \in 1..Len(Stream') : RecordsOf(Stream'[i]) \subseteq 1..calls'
        /\ \A u \in Threads : RecordsOf(hand'[u]) \subseteq 1..calls'
        /\ dropped' \subseteq 1..calls'
    BY <1>1, <1>3, <1>a, Zenon DEF Numbered
  <2>2. RecordsOf(Current') \subseteq 1..calls'
    BY <1>1, <1>3, <1>a DEF Numbered
  <2>3. dataLock' # None => calls' \in 1..calls'
    BY <1>1, <1>a
  <2>4. QED
    BY <2>1, <2>2, <2>3 DEF Numbered
<1>7. OnePlace'
  <2>1. \A x \in 1..calls' : ~ (InStream(x)' /\ InHand(x)')
    BY <1>1, <1>4, <1>5 DEF RecInv, OnePlace
  <2>2. QED
    BY <1>1, <2>1 DEF RecInv, OnePlace
<1>8. Kept'
  <2>1. \A x \in 1..calls' :
          InStream(x)' \/ InHand(x)' \/ x \in RecordsOf(Current') <=> x \notin dropped'
    BY <1>1, <1>2, <1>4, <1>5 DEF RecInv, Kept
  <2>2. QED
    BY <1>2, <2>1 DEF Kept
<1>9. CurrentIsNewest'
  <2>1. /\ \A i \in 1..Len(Stream) : \A x \in RecordsOf(Stream[i]) : x < calls + 1
        /\ \A u \in Threads : \A x \in RecordsOf(hand[u]) : x < calls + 1
    BY <1>3, <1>a, Zenon DEF Numbered
  <2>2. QED
    BY <1>1, <2>1 DEF RecInv, CurrentIsNewest
<1>10. HandsInOrder' /\ InvertedOnlyByPublish'
  BY <1>1 DEF RecInv, HandsInOrder, InvertedOnlyByPublish
<1>11. UNCHANGED <<delivered, ReadyList>>
  BY DEF AppendFits
<1>12. QED
  BY <1>1, <1>2, <1>6, <1>7, <1>8, <1>9, <1>10, <1>11 DEF RecInv

(* It does not fit: it is numbered and in progress. *)
LEMMA AppendFullKeepsRecords ==
  ASSUME IndInv, IndInv', RecInv, NEW t \in Callers, NEW cb \in RecordSizes,
         AppendFull(t, cb)
  PROVE  /\ RecInv' /\ ~ Appended /\ Appended' /\ calls' = calls + 1
         /\ UNCHANGED <<hand, Current, dropped, delivered, ReadyList>>
<1>1. /\ calls \in Nat /\ calls' = calls + 1 /\ t \in Threads /\ t # None
      /\ dataLock = None /\ dataLock' = t /\ pc[t] = "idle" /\ pc'[t] = "take"
      /\ UNCHANGED <<hand, Current, dropped, published>>
      /\ Stream' = Stream
  BY ThreadsAssumption DEF AppendFull, IndInv, TypeOK, Threads, Stream
<1>2. ~ Appended /\ Appended'
  BY <1>1, AppendedIs, AppendedNext DEF IndInv
<1>3. Numbered
  BY DEF RecInv
<1>a. /\ calls + 1 \notin 1..calls /\ calls + 1 \in 1..calls'
      /\ \A x \in 1..calls : x \in 1..calls' /\ x < calls + 1
  BY <1>1
<1>4. /\ ~ InStream(calls + 1) /\ ~ InHand(calls + 1) /\ calls + 1 \notin dropped
      /\ calls + 1 \notin RecordsOf(Current)
  BY <1>3, <1>a, Zenon DEF Numbered, InStream, InHand
<1>5. \A x : (InStream(x) <=> InStream(x)') /\ (InHand(x) <=> InHand(x)')
  BY <1>1 DEF InStream, InHand
<1>6. Numbered'
  <2>1. /\ \A i \in 1..Len(Stream') : RecordsOf(Stream'[i]) \subseteq 1..calls'
        /\ \A u \in Threads : RecordsOf(hand'[u]) \subseteq 1..calls'
        /\ dropped' \subseteq 1..calls'
    BY <1>1, <1>3, <1>a, Zenon DEF Numbered
  <2>2. RecordsOf(Current') \subseteq 1..calls'
    BY <1>1, <1>3, <1>a DEF Numbered
  <2>3. dataLock' # None => calls' \in 1..calls'
    BY <1>1, <1>a
  <2>4. QED
    BY <2>1, <2>2, <2>3 DEF Numbered
<1>7. OnePlace'
  <2>1. \A x \in 1..calls' : ~ (InStream(x)' /\ InHand(x)')
    BY <1>1, <1>4, <1>5 DEF RecInv, OnePlace
  <2>2. QED
    BY <1>1, <2>1 DEF RecInv, OnePlace
<1>8. Kept'
  <2>1. \A x \in 1..calls' :
          InStream(x)' \/ InHand(x)' \/ x \in RecordsOf(Current')
            <=> x \notin dropped' /\ x # calls'
    BY <1>1, <1>2, <1>4, <1>5 DEF RecInv, Kept
  <2>2. calls' \notin dropped'
    BY <1>1, <1>4
  <2>3. QED
    BY <1>2, <2>1, <2>2 DEF Kept
<1>9. CurrentIsNewest' /\ InvertedOnlyByPublish'
  BY <1>1 DEF RecInv, CurrentIsNewest, InvertedOnlyByPublish
<1>10. HandsInOrder'
  <2>1. RecordsOf(hand[t]) = {}
    BY <1>1, HandsEmpty
  <2>2. \A u \in Threads : RecordsOf(hand[u]) \subseteq published
    BY <1>1, ThreadsAssumption DEF RecInv, HandsInOrder, Threads
  <2>3. QED
    BY <1>1, <2>1, <2>2 DEF HandsInOrder
<1>11. UNCHANGED <<delivered, ReadyList>>
  BY DEF AppendFull
<1>12. QED
  BY <1>1, <1>2, <1>6, <1>7, <1>8, <1>9, <1>10, <1>11 DEF RecInv

(* A call ends without a buffer: if it is Append, its record is dropped. *)
LEMMA DropKeepsRecords ==
  ASSUME IndInv, IndInv', RecInv, NEW t \in Threads,
         \/ ~ HasRoom /\ TryCreateBuffer(t)
         \/ RejectTooLarge(t)
  PROVE  /\ RecInv'
         /\ UNCHANGED <<hand, Current, calls, published, Stream>>
         /\ Appending(t) => Appended /\ ~ Appended' /\ dropped' = dropped \cup {calls}
         /\ ~ Appending(t) => (Appended' <=> Appended) /\ dropped' = dropped
<1>1. /\ UNCHANGED <<hand, Current, calls, published>> /\ Stream' = Stream
      /\ pc[t] \in {"create", "swap"} /\ pc' = [pc EXCEPT ![t] = "idle"]
      /\ dataLock' = IF dataLock = t THEN None ELSE dataLock
      /\ dropped' = IF dataLock = t THEN dropped \cup {calls} ELSE dropped
  BY DEF TryCreateBuffer, RejectTooLarge, Return, CountDropped, Appending, Stream
<1>2. t # None /\ calls \in Nat
  BY ThreadsAssumption DEF Threads, IndInv, TypeOK
<1>3. CASE dataLock # t
  <2>1. dataLock' = dataLock /\ dropped' = dropped /\ published \subseteq published'
    BY <1>1, <1>3
  <2>2. Appended' <=> Appended
    BY <1>1, <1>3, <2>1, AppendedIs, AppendedNext DEF IndInv, TypeOK
  <2>3. RecInv'
    BY <1>1, <2>1, <2>2, RecordsStay
  <2>4. QED
    BY <1>1, <1>3, <2>1, <2>2, <2>3 DEF Appending
<1>4. CASE dataLock = t
  <2>1. Appended /\ dataLock' = None /\ dropped' = dropped \cup {calls}
    BY <1>1, <1>2, <1>4, AppendedIs DEF IndInv
  <2>2. ~ Appended'
    BY <2>1, AppendedNext DEF IndInv
  <2>3. \A x : (InStream(x) <=> InStream(x)') /\ (InHand(x) <=> InHand(x)')
    BY <1>1 DEF InStream, InHand
  <2>4. Numbered' /\ OnePlace'
    <3>1. calls \in 1..calls
      BY <1>2, <1>4 DEF RecInv, Numbered
    <3>2. Numbered'
      BY <1>1, <2>1, <3>1 DEF RecInv, Numbered
    <3>3. OnePlace'
      BY <1>1, <2>3 DEF RecInv, OnePlace
    <3>4. QED
      BY <3>2, <3>3
  <2>5. Kept'
    <3>1. \A x \in 1..calls' :
            InStream(x)' \/ InHand(x)' \/ x \in RecordsOf(Current') <=> x \notin dropped'
      BY <1>1, <2>1, <2>3 DEF RecInv, Kept
    <3>2. QED
      BY <2>2, <3>1 DEF Kept
  <2>6. CurrentIsNewest' /\ InvertedOnlyByPublish'
    BY <1>1 DEF RecInv, CurrentIsNewest, InvertedOnlyByPublish
  <2>7. HandsInOrder'
    <3>1. RecordsOf(hand[t]) = {}
      BY <1>1, HandsEmpty
    <3>2. \A u \in Threads : u # t => RecordsOf(hand[u]) \subseteq published
      BY <1>4 DEF RecInv, HandsInOrder
    <3>3. \A u \in Threads : dataLock' # u
      BY <2>1, ThreadsAssumption DEF Threads
    <3>4. QED
      BY <1>1, <3>1, <3>2, <3>3 DEF HandsInOrder
  <2>8. QED
    BY <1>1, <1>4, <2>1, <2>2, <2>4, <2>5, <2>6, <2>7 DEF RecInv, Appending
<1>5. QED
  BY <1>3, <1>4

(* The appender moves Current into its hands and starts the next buffer with *)
(* its record, a publisher starts it empty.  In between, "new" is what the   *)
(* next Current holds.                                                       *)
LEMMA SwapKeepsPlaces ==
  ASSUME IndInv, RecInv, NEW t \in Threads, NEW new \in SUBSET {calls},
         pc[t] = "swap", hand' = [hand EXCEPT ![t] = Current],
         RecordsOf(Current') = new, new # {} => Appended,
         Stream' = Stream, UNCHANGED <<calls, dropped>>,
         dataLock' = dataLock
  PROVE  /\ Numbered' /\ OnePlace' /\ CurrentIsNewest'
         /\ \A x : InHand(x)' <=> InHand(x) \/ x \in RecordsOf(Current)
         /\ \A u \in Threads :
              RecordsOf(hand'[u]) = IF u = t THEN RecordsOf(Current) ELSE RecordsOf(hand[u])
         /\ RecordsOf(hand[t]) = {}
<1>1. \A u \in Threads :
        RecordsOf(hand'[u]) = IF u = t THEN RecordsOf(Current) ELSE RecordsOf(hand[u])
  BY DEF IndInv, TypeOK
<1>2. RecordsOf(hand[t]) = {}
  BY HandsEmpty
<1>3. \A x : InHand(x)' <=> InHand(x) \/ x \in RecordsOf(Current)
  BY <1>1, <1>2 DEF InHand
<1>4. \A x : InStream(x)' <=> InStream(x)
  BY DEF InStream
<1>5. new # {} => calls \in 1..calls
  BY AppendedIs DEF RecInv, Numbered, IndInv
<1>6. Numbered'
  BY <1>1, <1>5 DEF RecInv, Numbered
<1>7. calls \in Nat /\ RecordsOf(Current) \subseteq Nat
        /\ \A i \in 1..Len(Stream) : RecordsOf(Stream[i]) \subseteq Nat
  BY RecordsAreNumbers DEF IndInv, TypeOK
<1>8. OnePlace'
  <2>1. \A u \in Threads, x \in RecordsOf(Current) : x \notin RecordsOf(hand[u])
    BY <1>7 DEF RecInv, CurrentIsNewest
  <2>2. \A x \in RecordsOf(Current) : ~ InStream(x)
    BY <1>7 DEF RecInv, CurrentIsNewest, InStream
  <2>3. \A u, v \in Threads : \A x \in RecordsOf(hand'[u]) :
          x \in RecordsOf(hand'[v]) => u = v
    BY <1>1, <2>1 DEF RecInv, OnePlace
  <2>4. \A x \in 1..calls' : ~ (InStream(x)' /\ InHand(x)')
    BY <1>3, <1>4, <2>2 DEF RecInv, OnePlace
  <2>5. QED
    BY <2>3, <2>4 DEF RecInv, OnePlace
<1>9. CurrentIsNewest'
  <2>1. CASE new = {}
    BY <2>1, <1>1 DEF CurrentIsNewest
  <2>2. CASE new # {}
    <3>1. /\ ~ InStream(calls) /\ ~ InHand(calls) /\ calls \notin RecordsOf(Current)
          /\ calls \in 1..calls
      BY <2>2, <1>5 DEF RecInv, Kept
    <3>2. \A x \in 1..calls : x # calls => x < calls
      BY <1>7
    <3>3. /\ \A i \in 1..Len(Stream) : \A x \in RecordsOf(Stream[i]) : x < calls
          /\ \A u \in Threads : \A x \in RecordsOf(hand[u]) : x < calls
          /\ \A x \in RecordsOf(Current) : x < calls
      BY <3>1, <3>2, Zenon DEF RecInv, Numbered, InStream, InHand
    <3>4. QED
      BY <1>1, <3>3 DEF CurrentIsNewest
  <2>3. QED
    BY <2>1, <2>2
<1>10. QED
  BY <1>1, <1>2, <1>3, <1>6, <1>8, <1>9

(* The record is stored at the front of the next buffer. *)
LEMMA SwapForAppendKeepsRecords ==
  ASSUME IndInv, IndInv', RecInv, NEW t \in Threads, SwapForAppend(t)
  PROVE  /\ RecInv' /\ Appended /\ ~ Appended'
         /\ RecordsOf(Current') = {calls}
         /\ \A x : InHand(x)' <=> InHand(x) \/ x \in RecordsOf(Current)
<1>1. /\ pc[t] = "swap" /\ pc'[t] = "grow" /\ dataLock = t /\ t # None
      /\ hand' = [hand EXCEPT ![t] = Current]
      /\ UNCHANGED <<calls, dropped, dataLock, published>> /\ Stream' = Stream
  BY ThreadsAssumption
     DEF SwapForAppend, Appending, IndInv, TypeOK, locks, history, Stream, Threads
<1>2. Appended /\ ~ Appended'
  BY <1>1, AppendedIs, AppendedNext DEF IndInv
<1>3. RecordsOf(Current') = {calls}
  <2>1. wanted \in Nat /\ wanted > 0 /\ calls \in Nat
    BY <1>1 DEF IndInv, TypeOK, LockOwners
  <2>2. QED
    BY <2>1, RecordsOfBuffers DEF SwapForAppend
<1>4. /\ Numbered' /\ OnePlace' /\ CurrentIsNewest'
      /\ \A x : InHand(x)' <=> InHand(x) \/ x \in RecordsOf(Current)
      /\ \A u \in Threads :
           RecordsOf(hand'[u]) = IF u = t THEN RecordsOf(Current) ELSE RecordsOf(hand[u])
      /\ RecordsOf(hand[t]) = {}
  BY <1>1, <1>2, <1>3, SwapKeepsPlaces
<1>5. Kept'
  <2>1. \A x : InStream(x)' <=> InStream(x)
    BY <1>1 DEF InStream
  <2>2. \A x \in 1..calls' :
          InStream(x)' \/ InHand(x)' \/ x \in RecordsOf(Current') <=> x \notin dropped'
    BY <1>1, <1>2, <1>3, <1>4, <2>1 DEF RecInv, Kept
  <2>3. QED
    BY <1>2, <2>2 DEF Kept
<1>6. HandsInOrder'
  <2>1. \A u \in Threads : u # t => RecordsOf(hand'[u]) \subseteq published'
    BY <1>1, <1>4 DEF RecInv, HandsInOrder
  <2>2. \A y \in RecordsOf(hand'[t]) :
           /\ \A i \in 1..Len(Stream') : \A x \in RecordsOf(Stream'[i]) : x < y
           /\ \A u \in Threads \ {t} : \A x \in RecordsOf(hand'[u]) : x < y
    BY <1>1, <1>4 DEF RecInv, CurrentIsNewest
  <2>3. QED
    BY <1>1, <2>1, <2>2 DEF HandsInOrder
<1>7. InvertedOnlyByPublish'
  BY <1>1 DEF RecInv, InvertedOnlyByPublish
<1>8. QED
  BY <1>2, <1>3, <1>4, <1>5, <1>6, <1>7 DEF RecInv

(* Current is published. *)
LEMMA SwapForPublishKeepsRecords ==
  ASSUME IndInv, IndInv', RecInv, NEW t \in Threads, SwapForPublish(t)
  PROVE  /\ RecInv' /\ ~ Appended /\ ~ Appended'
         /\ RecordsOf(Current') = {}
         /\ \A x : InHand(x)' <=> InHand(x) \/ x \in RecordsOf(Current)
<1>1. /\ pc[t] = "swap" /\ dataLock = None
      /\ hand' = [hand EXCEPT ![t] = Current]
      /\ UNCHANGED <<calls, dropped, dataLock>> /\ Stream' = Stream
      /\ published' = published \cup RecordsOf(Current)
  BY DEF SwapForPublish, locks, Stream, RecordsOf
<1>2. ~ Appended /\ ~ Appended'
  BY <1>1, AppendedIs, AppendedNext DEF IndInv
<1>3. RecordsOf(Current') = {}
  BY RecordsOfBuffers DEF SwapForPublish
<1>4. /\ Numbered' /\ OnePlace' /\ CurrentIsNewest'
      /\ \A x : InHand(x)' <=> InHand(x) \/ x \in RecordsOf(Current)
      /\ \A u \in Threads :
           RecordsOf(hand'[u]) = IF u = t THEN RecordsOf(Current) ELSE RecordsOf(hand[u])
  BY <1>1, <1>3, SwapKeepsPlaces
<1>5. Kept'
  <2>1. \A x : InStream(x)' <=> InStream(x)
    BY <1>1 DEF InStream
  <2>2. \A x \in 1..calls' :
          InStream(x)' \/ InHand(x)' \/ x \in RecordsOf(Current') <=> x \notin dropped'
    BY <1>1, <1>2, <1>3, <1>4, <2>1 DEF RecInv, Kept
  <2>3. QED
    BY <1>2, <2>2 DEF Kept
<1>6. HandsInOrder'
  BY <1>1, <1>4, ThreadsAssumption DEF RecInv, HandsInOrder, Threads
<1>7. InvertedOnlyByPublish'
  BY <1>1 DEF RecInv, InvertedOnlyByPublish
<1>8. QED
  BY <1>2, <1>3, <1>4, <1>5, <1>6, <1>7 DEF RecInv

(* The buffer in a thread's hands becomes the last of the stream. *)
LEMMA EnqueueReadyKeepsRecords ==
  ASSUME IndInv, IndInv', RecInv, NEW t \in Threads, EnqueueReady(t)
  PROVE  RecInv' /\ (Appended' <=> Appended)
<1>1. /\ pc[t] = "enqueue" /\ pc' = [pc EXCEPT ![t] = "idle"] /\ t # None
      /\ UNCHANGED <<Current, calls, dropped, published>>
      /\ dataLock' = IF dataLock = t THEN None ELSE dataLock
  BY ThreadsAssumption DEF EnqueueReady, Return, Appending, history, Threads
<1>2. /\ Len(Stream) \in Nat /\ Len(Stream') = Len(Stream) + 1
      /\ \A i \in 1..Len(Stream) : Stream'[i] = Stream[i]
      /\ Stream'[Len(Stream) + 1] = hand[t]
  <2>1. /\ ReadyList \in Seq(Buffer) /\ delivered \in Seq(Buffer) /\ hand[t] \in Buffer
        /\ Stream \in Seq(Buffer)
    BY StreamType DEF IndInv, TypeOK
  <2>2. Stream' = delivered \o Append(ReadyList, hand[t])
    BY DEF EnqueueReady, Stream, history
  <2>3. delivered \o Append(ReadyList, hand[t]) = Append(delivered \o ReadyList, hand[t])
    BY <2>1
  <2>4. Stream' = Append(Stream, hand[t])
    BY <2>2, <2>3 DEF Stream
  <2>5. QED
    BY <2>1, <2>4, AppendProperties, LenProperties
<1>3. \A u \in Threads :
        RecordsOf(hand'[u]) = IF u = t THEN {} ELSE RecordsOf(hand[u])
  BY RecordsOfBuffers DEF EnqueueReady, IndInv, TypeOK
<1> DEFINE S(i) == RecordsOf(Stream[i])
           n    == Len(Stream) + 1
<1>4. /\ n \in Nat /\ Len(Stream') = n
      /\ \A i \in 1..n : i # n => i \in 1..Len(Stream) /\ i < n
      /\ \A i \in 1..Len(Stream) : i \in 1..n /\ i # n
      /\ n \in 1..n
  BY <1>2
<1>5. \A i \in 1..n :
        RecordsOf(Stream'[i]) = IF i = n THEN RecordsOf(hand[t]) ELSE S(i)
  BY <1>2, <1>4
<1>a. /\ \A i \in 1..Len(Stream) : S(i) \subseteq 1..calls
      /\ \A u \in Threads : RecordsOf(hand[u]) \subseteq 1..calls
  BY DEF RecInv, Numbered
<1>b. \A i \in 1..Len(Stream), u \in Threads : \A x \in S(i) : x \notin RecordsOf(hand[u])
  BY <1>a DEF RecInv, OnePlace, InStream, InHand
<1>6. \A x : InStream(x) <=> \E i \in 1..Len(Stream) : x \in S(i)
  BY DEF InStream
<1>7. \A x : InStream(x)' <=> \E i \in 1..n : x \in RecordsOf(Stream'[i])
  BY <1>4 DEF InStream
<1>9. Appended' <=> Appended
  BY <1>1, AppendedIs, AppendedNext DEF IndInv, TypeOK
<1> HIDE DEF S, n
<1>10. \A x : InStream(x)' <=> InStream(x) \/ x \in RecordsOf(hand[t])
  BY <1>4, <1>5, <1>6, <1>7
<1>11. \A x : InHand(x)' => InHand(x)
  BY <1>3 DEF InHand
<1>12. \A x \in 1..calls : InHand(x) <=> InHand(x)' \/ x \in RecordsOf(hand[t])
  BY <1>3 DEF InHand
<1>13. \A x \in RecordsOf(hand[t]) : ~ InHand(x)'
  BY <1>3 DEF RecInv, OnePlace, InHand
<1>14. Numbered'
  <2>1. \A i \in 1..n : RecordsOf(Stream'[i]) \subseteq 1..calls
    BY <1>4, <1>5, <1>a
  <2>2. \A u \in Threads : RecordsOf(hand'[u]) \subseteq 1..calls
    BY <1>3, <1>a
  <2>3. QED
    BY <1>1, <1>4, <2>1, <2>2 DEF RecInv, Numbered
<1>15. OnePlace'
  <2>1. \A i, j \in 1..Len(Stream) : \A x \in S(i) : x \in S(j) => i = j
    BY DEF RecInv, OnePlace, S
  <2>2. \A i, j \in 1..n : \A x \in RecordsOf(Stream'[i]) :
          x \in RecordsOf(Stream'[j]) => i = j
    BY <1>4, <1>5, <1>b, <2>1
  <2>3. \A u, v \in Threads : \A x \in RecordsOf(hand'[u]) :
          x \in RecordsOf(hand'[v]) => u = v
    BY <1>3 DEF RecInv, OnePlace
  <2>4. \A x \in 1..calls' : ~ (InStream(x)' /\ InHand(x)')
    BY <1>1, <1>10, <1>11, <1>13 DEF RecInv, OnePlace
  <2>5. QED
    BY <1>4, <2>2, <2>3, <2>4 DEF OnePlace
<1>16. Kept'
  <2>1. \A x \in 1..calls : InStream(x)' \/ InHand(x)' <=> InStream(x) \/ InHand(x)
    BY <1>10, <1>12
  <2>2. QED
    BY <1>1, <1>9, <2>1 DEF RecInv, Kept
<1>17. CurrentIsNewest'
  <2>1. /\ \A i \in 1..Len(Stream) : \A x \in S(i), y \in RecordsOf(Current) : x < y
        /\ \A u \in Threads : \A x \in RecordsOf(hand[u]), y \in RecordsOf(Current) : x < y
    BY DEF RecInv, CurrentIsNewest, S
  <2>2. \A i \in 1..n : \A x \in RecordsOf(Stream'[i]), y \in RecordsOf(Current) : x < y
    BY <1>4, <1>5, <2>1
  <2>3. \A u \in Threads : \A x \in RecordsOf(hand'[u]), y \in RecordsOf(Current) : x < y
    BY <1>3, <2>1
  <2>4. QED
    BY <1>1, <1>4, <2>2, <2>3 DEF CurrentIsNewest
<1>18. HandsInOrder'
  <2>1. ASSUME NEW u \in Threads, dataLock' = u
        PROVE  \A y \in RecordsOf(hand'[u]) :
                 /\ \A i \in 1..Len(Stream') : \A x \in RecordsOf(Stream'[i]) : x < y
                 /\ \A v \in Threads \ {u} : \A x \in RecordsOf(hand'[v]) : x < y
    <3>1. dataLock = u /\ u # t
      BY <1>1, <2>1, ThreadsAssumption DEF Threads
    <3>2. \A y \in RecordsOf(hand[u]) :
            /\ \A i \in 1..Len(Stream) : \A x \in S(i) : x < y
            /\ \A v \in Threads \ {u} : \A x \in RecordsOf(hand[v]) : x < y
      BY <3>1 DEF RecInv, HandsInOrder, S
    <3>3. QED
      BY <1>3, <1>4, <1>5, <3>1, <3>2
  <2>2. ASSUME NEW u \in Threads, dataLock' # u
        PROVE  RecordsOf(hand'[u]) \subseteq published'
    BY <1>1, <1>3, <2>2 DEF RecInv, HandsInOrder
  <2>3. QED
    BY <2>1, <2>2 DEF HandsInOrder
<1>19. InvertedOnlyByPublish'
  <2>1. \A i, j \in 1..Len(Stream) : \A x \in S(i), y \in S(j) :
          i < j /\ x > y => y \in published
    BY DEF RecInv, InvertedOnlyByPublish, S
  <2>2. \A i \in 1..Len(Stream) : \A x \in S(i), y \in RecordsOf(hand[t]) :
          x > y => y \in published
    <3>1. CASE dataLock = t
      <4>1. \A i \in 1..Len(Stream) : \A x \in S(i), y \in RecordsOf(hand[t]) : x < y
        BY <3>1 DEF RecInv, HandsInOrder, S
      <4>2. \A i \in 1..Len(Stream) : \A x \in S(i), y \in RecordsOf(hand[t]) :
              x \in Nat /\ y \in Nat
        BY RecordsAreNumbers DEF IndInv, S
      <4>3. QED
        BY <4>1, <4>2
    <3>2. CASE dataLock # t
      BY <3>2 DEF RecInv, HandsInOrder
    <3>3. QED
      BY <3>1, <3>2
  <2>3. ASSUME NEW i \in 1..n, NEW j \in 1..n, i < j
        PROVE  \A x \in RecordsOf(Stream'[i]), y \in RecordsOf(Stream'[j]) :
                 x > y => y \in published
    <3>1. i # n /\ i \in 1..Len(Stream)
      BY <1>4, <2>3
    <3>2. QED
      BY <1>4, <1>5, <2>1, <2>2, <2>3, <3>1
  <2>4. QED
    BY <1>1, <1>4, <2>3 DEF InvertedOnlyByPublish
<1>20. QED
  BY <1>9, <1>14, <1>15, <1>16, <1>17, <1>18, <1>19 DEF RecInv

(* Initially there is no record. *)
LEMMA InitRecInv == Init => RecInv
<1> SUFFICES ASSUME Init PROVE RecInv
  OBVIOUS
<1>1. /\ calls = 0 /\ dropped = {} /\ dataLock = None
      /\ \A t \in Threads : hand[t] = <<>>
      /\ RecordsOf(Current) = {} /\ RecordsOf(<<>>) = {}
  BY RecordsOfBuffers DEF Init
<1>2. 1..Len(Stream) = {} /\ 1..calls = {}
  <2>1. Len(<<>> \o <<>>) = 0
    BY EmptySeq, ConcatProperties
  <2>2. QED
    BY <1>1, <2>1 DEF Init, Stream
<1>3. ~ Appended
  BY <1>1, ThreadsAssumption DEF Appended, Appending, Threads
<1>4. QED
  BY <1>1, <1>2, <1>3, ThreadsAssumption
     DEF RecInv, Numbered, OnePlace, Kept, CurrentIsNewest, HandsInOrder,
         InvertedOnlyByPublish, InStream, InHand, Threads

(* Every reachable state of the queue has each record in its place. *)
THEOREM RecInvHolds == Spec => []RecInv
<1>1. IndInv /\ IndInv' /\ RecInv /\ [Next]_vars => RecInv'
  <2> SUFFICES ASSUME IndInv, IndInv', RecInv, [Next]_vars PROVE RecInv'
    OBVIOUS
  <2>1. ASSUME NEW t \in Callers, NEW cb \in RecordSizes,
               AppendFits(t, cb) \/ AppendFull(t, cb)
        PROVE  RecInv'
    BY <2>1, AppendFitsKeepsRecords, AppendFullKeepsRecords
  <2>2. ASSUME NEW t \in Threads, QueueStep(t)
        PROVE  RecInv'
    BY <2>2, QuietStepsKeepRecords, DropKeepsRecords, SwapForAppendKeepsRecords,
       SwapForPublishKeepsRecords, EnqueueReadyKeepsRecords DEF QueueStep
  <2>3. CASE TakeReady
    BY <2>3, TakeReadyKeepsRecords
  <2>4. CASE Recycle \/ TrimFreeBuffersIfIdle \/ UNCHANGED vars
    BY <2>4, QuietStepsKeepRecords DEF Threads
  <2>5. QED
    BY <2>1, <2>2, <2>3, <2>4 DEF Next, Threads
<1>2. QED
  BY <1>1, InitRecInv, IndInvHolds, PTL DEF Spec

(* Two appenders never invert their records in the file; only Flush and the  *)
(* worker, which enqueue after they released DataLock, can.                  *)
THEOREM OnlyPublishInverts == Spec => []InvertedOnlyByPublish
<1>1. RecInv => InvertedOnlyByPublish
  BY DEF RecInv
<1>2. QED
  BY <1>1, RecInvHolds, PTL

(* Where the records are decides how often a record is counted. *)
LEMMA OneHome ==
  ASSUME IndInv, RecInv
  PROVE  StoredOnce
<1> SUFFICES ASSUME NEW x \in 1..calls
             PROVE  Homes(x) = IF x \in dropped \/ InProgress(x) THEN 0 ELSE 1
  BY DEF StoredOnce
<1> DEFINE A == {i \in 1..Len(Stream) : x \in RecordsOf(Stream[i])}
           B == {t \in Threads : x \in RecordsOf(hand[t])}
           c == IF x \in RecordsOf(Current) THEN 1 ELSE 0
<1>1. Homes(x) = Cardinality(A) + Cardinality(B) + c
  BY DEF Homes
<1>2. /\ InStream(x) <=> A # {}
      /\ InHand(x) <=> B # {}
  BY DEF InStream, InHand
<1>3. ~ (InStream(x) /\ InHand(x))
  BY DEF RecInv, OnePlace
<1>4. x \in RecordsOf(Current) => ~ InStream(x) /\ ~ InHand(x)
  <2>1. x \in Nat /\ ~ (x < x)
    BY DEF IndInv, TypeOK
  <2>2. QED
    BY <2>1 DEF RecInv, CurrentIsNewest, InStream, InHand
<1>5. A # {} => \E i : A = {i}
  <2>1. \A i, j \in A : i = j
    BY DEF RecInv, OnePlace
  <2> HIDE DEF A
  <2> SUFFICES ASSUME A # {} PROVE \E i : A = {i}
    OBVIOUS
  <2>2. PICK i \in A : TRUE
    OBVIOUS
  <2>3. A = {i}
    BY <2>1
  <2>4. QED
    BY <2>3
<1>6. B # {} => \E t : B = {t}
  <2>1. \A t, u \in B : t = u
    BY DEF RecInv, OnePlace
  <2> HIDE DEF B
  <2> SUFFICES ASSUME B # {} PROVE \E t : B = {t}
    OBVIOUS
  <2>2. PICK t \in B : TRUE
    OBVIOUS
  <2>3. B = {t}
    BY <2>1
  <2>4. QED
    BY <2>3
<1>7. InProgress(x) <=> x = calls /\ Appended
  BY DEF InProgress, Appended
<1>8. InStream(x) \/ InHand(x) \/ x \in RecordsOf(Current)
        <=> ~ (x \in dropped \/ InProgress(x))
  BY <1>7 DEF RecInv, Kept
<1> HIDE DEF A, B
<1>9. /\ Cardinality(A) = IF InStream(x) THEN 1 ELSE 0
      /\ Cardinality(B) = IF InHand(x) THEN 1 ELSE 0
  BY <1>2, <1>5, <1>6, FS_EmptySet, FS_Singleton
<1>10. QED
  BY <1>1, <1>3, <1>4, <1>8, <1>9

(* No swap, no race of two publishers and no end of a call loses, splits or  *)
(* duplicates a record: it is in one buffer, or was dropped.                 *)
THEOREM StoredOnceHolds == Spec => []StoredOnce
<1>1. IndInv /\ RecInv => StoredOnce
  BY OneHome
<1>2. QED
  BY <1>1, IndInvHolds, RecInvHolds, PTL

----------------------------------------------------------------------------
(* The refinement of RecordSink: AppendFits and SwapForAppend accept the     *)
(* record, the ends of Append without a buffer refuse it, TakeReady delivers *)
(* what is on ReadyList, and no other step changes what the sink shows.      *)

offered == calls - Cardinality(Undecided)

(* What the sink counts: the record in progress has not been offered yet. *)
LEMMA OfferedIs ==
  IndInv /\ RecInv => offered = IF Appended THEN calls - 1 ELSE calls
<1> SUFFICES ASSUME IndInv, RecInv
             PROVE  offered = IF Appended THEN calls - 1 ELSE calls
  OBVIOUS
<1>1. calls \in Nat
  BY DEF IndInv, TypeOK
<1>2. Appended => calls \in 1..calls
  BY AppendedIs DEF RecInv, Numbered, IndInv
<1>3. Undecided = IF Appended THEN {calls} ELSE {}
  BY <1>2 DEF Undecided, InProgress, Appended
<1>4. Cardinality(Undecided) = IF Appended THEN 1 ELSE 0
  BY <1>3, FS_EmptySet, FS_Singleton
<1>5. QED
  BY <1>1, <1>4 DEF offered

(* The same of the state a step leads to. *)
LEMMA OfferedNext ==
  IndInv' /\ RecInv' => (offered = IF Appended THEN calls - 1 ELSE calls)'
BY OfferedIs, PTL

InReady(x) == \E i \in 1..Len(ReadyList) : x \in RecordsOf(ReadyList[i])

(* A record is pending in Current, in a hand or on ReadyList. *)
LEMMA PendingIs ==
  /\ \A x : x \in Pending <=> x \in RecordsOf(Current) \/ InHand(x) \/ InReady(x)
  /\ \A x : x \in Pending' <=> x \in RecordsOf(Current') \/ InHand(x)' \/ InReady(x)'
<1>1. \A x : x \in Pending <=> x \in RecordsOf(Current) \/ InHand(x) \/ InReady(x)
  <2>1. \A x : x \in UNION {RecordsOf(hand[t]) : t \in Threads} <=> InHand(x)
    BY DEF InHand
  <2>2. \A x : x \in UNION {RecordsOf(ReadyList[i]) : i \in 1..Len(ReadyList)} <=> InReady(x)
    BY DEF InReady
  <2>3. QED
    BY <2>1, <2>2 DEF Pending
<1>2. \A x : x \in Pending' <=> x \in RecordsOf(Current') \/ InHand(x)' \/ InReady(x)'
  <2>1. \A x : x \in UNION {RecordsOf(hand'[t]) : t \in Threads} <=> InHand(x)'
    BY DEF InHand
  <2>2. \A x : x \in UNION {RecordsOf(ReadyList'[i]) : i \in 1..Len(ReadyList')} <=> InReady(x)'
    BY DEF InReady
  <2>3. QED
    BY <2>1, <2>2 DEF Pending
<1>3. QED
  BY <1>1, <1>2

(* The steps that move a record past no border of the sink. *)
LEMMA SinkSame ==
  ASSUME offered' = offered, Pending' = Pending, Delivered' = Delivered, dropped' = dropped
  PROVE  [Sink!Next]_(Sink!vars)
BY DEF Sink!vars, offered

(* Append stores its record. *)
LEMMA SinkAccepts ==
  ASSUME offered' = offered + 1, Pending' = Pending \cup {offered + 1},
         Delivered' = Delivered, dropped' = dropped
  PROVE  [Sink!Next]_(Sink!vars)
BY DEF Sink!Next, Sink!Accept, offered

(* Append drops its record. *)
LEMMA SinkRefuses ==
  ASSUME offered' = offered + 1, dropped' = dropped \cup {offered + 1},
         Delivered' = Delivered, Pending' = Pending
  PROVE  [Sink!Next]_(Sink!vars)
BY DEF Sink!Next, Sink!Refuse, offered

(* The worker takes ReadyList. *)
LEMMA SinkDelivers ==
  ASSUME NEW batch \in SUBSET Pending, batch # {}, Pending' = Pending \ batch,
         Delivered' = Delivered \cup batch, offered' = offered, dropped' = dropped
  PROVE  [Sink!Next]_(Sink!vars)
BY DEF Sink!Next, Sink!Deliver, offered

(* What the stream holds was delivered or is ready. *)
LEMMA StreamSplits ==
  ASSUME TypeOK
  PROVE  /\ \A x : InStream(x) <=> x \in Delivered \/ InReady(x)
         /\ \A x \in 1..calls : InReady(x) => InStream(x)
<1> DEFINE n == Len(delivered)
           m == Len(ReadyList)
<1>1. /\ n \in Nat /\ m \in Nat /\ Len(Stream) = n + m
      /\ \A i \in 1..Len(Stream) : Stream[i] = IF i <= n THEN delivered[i] ELSE ReadyList[i - n]
  BY StreamType
<1> HIDE DEF n, m
<1>2. /\ \A i \in 1..n : i \in 1..Len(Stream) /\ Stream[i] = delivered[i]
      /\ \A i \in 1..m : n + i \in 1..Len(Stream) /\ Stream[n + i] = ReadyList[i]
      /\ \A i \in 1..Len(Stream) :
           \/ i \in 1..n /\ Stream[i] = delivered[i]
           \/ i - n \in 1..m /\ Stream[i] = ReadyList[i - n]
  BY <1>1
<1>3. \A x : x \in Delivered <=> \E i \in 1..n : x \in RecordsOf(delivered[i])
  BY DEF Delivered, n
<1>4. \A x : InReady(x) <=> \E i \in 1..m : x \in RecordsOf(ReadyList[i])
  BY DEF InReady, m
<1>5. \A x : InStream(x) <=> \E i \in 1..Len(Stream) : x \in RecordsOf(Stream[i])
  BY DEF InStream
<1>6. \A x : InStream(x) => x \in Delivered \/ InReady(x)
  BY <1>2, <1>3, <1>4, <1>5
<1>7. \A x : x \in Delivered \/ InReady(x) => InStream(x)
  BY <1>2, <1>3, <1>4, <1>5
<1>8. QED
  BY <1>6, <1>7

(* The steps of QuietStepsKeepRecords stutter. *)
LEMMA QuietStepsRefine ==
  ASSUME IndInv, RecInv, IndInv', RecInv', Appended' <=> Appended,
         UNCHANGED <<hand, Current, calls, dropped, delivered, ReadyList>>
  PROVE  [Sink!Next]_(Sink!vars)
<1>1. offered' = offered
  BY OfferedIs, OfferedNext
<1>2. Pending' = Pending /\ Delivered' = Delivered
  BY DEF Pending, Delivered
<1>3. QED
  BY <1>1, <1>2, SinkSame

(* Append stores a record that fits: Accept. *)
LEMMA AppendFitsRefines ==
  ASSUME IndInv, RecInv, IndInv', NEW t \in Callers, NEW cb \in RecordSizes,
         AppendFits(t, cb)
  PROVE  [Sink!Next]_(Sink!vars)
<1>1. /\ RecInv' /\ ~ Appended /\ ~ Appended' /\ calls' = calls + 1
      /\ RecordsOf(Current') = RecordsOf(Current) \cup {calls + 1}
      /\ UNCHANGED <<hand, dropped, delivered, ReadyList>>
  BY AppendFitsKeepsRecords
<1>2. offered = calls /\ offered' = calls + 1
  BY <1>1, OfferedIs, OfferedNext
<1>3. Pending' = Pending \cup {calls + 1} /\ Delivered' = Delivered
  BY <1>1 DEF Pending, Delivered
<1>4. QED
  BY <1>1, <1>2, <1>3, SinkAccepts

(* Append numbers a record and looks for a buffer: the sink sees nothing. *)
LEMMA AppendFullRefines ==
  ASSUME IndInv, RecInv, IndInv', NEW t \in Callers, NEW cb \in RecordSizes,
         AppendFull(t, cb)
  PROVE  [Sink!Next]_(Sink!vars)
<1>1. /\ RecInv' /\ ~ Appended /\ Appended' /\ calls' = calls + 1
      /\ UNCHANGED <<hand, Current, dropped, delivered, ReadyList>>
  BY AppendFullKeepsRecords
<1>2. offered' = offered
  <2>1. calls \in Nat /\ offered = calls
    BY <1>1, OfferedIs DEF IndInv, TypeOK
  <2>2. offered' = calls' - 1
    BY <1>1, OfferedNext
  <2>3. QED
    BY <1>1, <2>1, <2>2
<1>3. Pending' = Pending /\ Delivered' = Delivered
  BY <1>1 DEF Pending, Delivered
<1>4. QED
  BY <1>1, <1>2, <1>3, SinkSame

(* Append ends without a buffer: Refuse.  A publisher that does is unseen. *)
LEMMA DropRefines ==
  ASSUME IndInv, RecInv, IndInv', NEW t \in Threads,
         \/ ~ HasRoom /\ TryCreateBuffer(t)
         \/ RejectTooLarge(t)
  PROVE  [Sink!Next]_(Sink!vars)
<1>1. /\ RecInv'
      /\ UNCHANGED <<hand, Current, calls>>
      /\ Appending(t) => Appended /\ ~ Appended' /\ dropped' = dropped \cup {calls}
      /\ ~ Appending(t) => (Appended' <=> Appended) /\ dropped' = dropped
  BY DropKeepsRecords
<1>2. UNCHANGED <<delivered, ReadyList>>
  BY DEF TryCreateBuffer, RejectTooLarge
<1>3. Pending' = Pending /\ Delivered' = Delivered
  BY <1>1, <1>2 DEF Pending, Delivered
<1>4. CASE Appending(t)
  <2>1. calls \in Nat /\ offered = calls - 1
    BY <1>1, <1>4, OfferedIs DEF IndInv, TypeOK
  <2>2. offered' = calls'
    BY <1>1, <1>4, OfferedNext
  <2>3. offered' = offered + 1 /\ offered + 1 = calls
    BY <1>1, <2>1, <2>2
  <2>4. QED
    BY <1>1, <1>3, <1>4, <2>3, SinkRefuses
<1>5. CASE ~ Appending(t)
  BY <1>1, <1>2, <1>5, QuietStepsRefine
<1>6. QED
  BY <1>4, <1>5

(* Append stores its record in the replacement: Accept. *)
LEMMA SwapForAppendRefines ==
  ASSUME IndInv, RecInv, IndInv', NEW t \in Threads, SwapForAppend(t)
  PROVE  [Sink!Next]_(Sink!vars)
<1>1. /\ RecInv' /\ Appended /\ ~ Appended'
      /\ RecordsOf(Current') = {calls}
      /\ \A x : InHand(x)' <=> InHand(x) \/ x \in RecordsOf(Current)
      /\ UNCHANGED <<calls, dropped, delivered, ReadyList>>
  BY SwapForAppendKeepsRecords DEF SwapForAppend, history
<1>2. offered' = offered + 1 /\ offered + 1 = calls
  <2>1. calls \in Nat /\ offered = calls - 1
    BY <1>1, OfferedIs DEF IndInv, TypeOK
  <2>2. offered' = calls'
    BY <1>1, OfferedNext
  <2>3. QED
    BY <1>1, <2>1, <2>2
<1>3. Pending' = Pending \cup {calls}
  <2>1. \A x : InReady(x)' <=> InReady(x)
    BY <1>1 DEF InReady
  <2>2. \A x : x \in Pending' <=> x \in Pending \/ x = calls
    BY <1>1, <2>1, PendingIs
  <2>3. QED
    BY <2>2
<1>4. Delivered' = Delivered
  BY <1>1 DEF Delivered
<1>5. QED
  BY <1>1, <1>2, <1>3, <1>4, SinkAccepts

(* A publisher takes Current into its hands: its records stay pending. *)
LEMMA SwapForPublishRefines ==
  ASSUME IndInv, RecInv, IndInv', NEW t \in Threads, SwapForPublish(t)
  PROVE  [Sink!Next]_(Sink!vars)
<1>1. /\ RecInv' /\ ~ Appended /\ ~ Appended'
      /\ RecordsOf(Current') = {}
      /\ \A x : InHand(x)' <=> InHand(x) \/ x \in RecordsOf(Current)
      /\ UNCHANGED <<calls, dropped, delivered, ReadyList>>
  BY SwapForPublishKeepsRecords DEF SwapForPublish
<1>2. offered' = offered
  BY <1>1, OfferedIs, OfferedNext
<1>3. Pending' = Pending
  <2>1. \A x : InReady(x)' <=> InReady(x)
    BY <1>1 DEF InReady
  <2>2. \A x : x \in Pending' <=> x \in Pending
    BY <1>1, <2>1, PendingIs
  <2>3. QED
    BY <2>2 DEF Pending
<1>4. Delivered' = Delivered
  BY <1>1 DEF Delivered
<1>5. QED
  BY <1>1, <1>2, <1>3, <1>4, SinkSame

(* The buffer in a thread's hands goes to ReadyList: still pending. *)
LEMMA EnqueueReadyRefines ==
  ASSUME IndInv, RecInv, IndInv', NEW t \in Threads, EnqueueReady(t)
  PROVE  [Sink!Next]_(Sink!vars)
<1>1. /\ RecInv' /\ (Appended' <=> Appended)
      /\ UNCHANGED <<Current, calls, dropped, delivered>>
  BY EnqueueReadyKeepsRecords DEF EnqueueReady, history
<1>2. offered' = offered
  BY <1>1, OfferedIs, OfferedNext
<1>3. \A x : InHand(x) <=> InHand(x)' \/ x \in RecordsOf(hand[t])
  <2>1. \A u \in Threads :
          RecordsOf(hand'[u]) = IF u = t THEN {} ELSE RecordsOf(hand[u])
    BY RecordsOfBuffers DEF EnqueueReady, IndInv, TypeOK
  <2>2. QED
    BY <2>1 DEF InHand
<1>4. \A x : InReady(x)' <=> InReady(x) \/ x \in RecordsOf(hand[t])
  <2> DEFINE m == Len(ReadyList)
  <2>1. /\ m \in Nat /\ Len(ReadyList') = m + 1
        /\ \A i \in 1..m : ReadyList'[i] = ReadyList[i]
        /\ ReadyList'[m + 1] = hand[t]
    <3>1. ReadyList \in Seq(Buffer) /\ hand[t] \in Buffer
      BY DEF IndInv, TypeOK
    <3>2. QED
      BY <3>1, AppendProperties, LenProperties DEF EnqueueReady
  <2>2. /\ \A x : InReady(x) <=> \E i \in 1..m : x \in RecordsOf(ReadyList[i])
        /\ \A x : InReady(x)' <=> \E i \in 1..(m + 1) : x \in RecordsOf(ReadyList'[i])
    BY <2>1 DEF InReady
  <2> HIDE DEF m
  <2>3. /\ \A i \in 1..(m + 1) : i \in 1..m \/ i = m + 1
        /\ \A i \in 1..m : i \in 1..(m + 1)
        /\ m + 1 \in 1..(m + 1)
    BY <2>1
  <2>4. QED
    BY <2>1, <2>2, <2>3
<1>5. Pending' = Pending
  <2>1. \A x : x \in Pending' <=> x \in Pending
    BY <1>1, <1>3, <1>4, PendingIs
  <2>2. QED
    BY <2>1 DEF Pending
<1>6. Delivered' = Delivered
  BY <1>1 DEF Delivered
<1>7. QED
  BY <1>1, <1>2, <1>5, <1>6, SinkSame

(* The worker takes ReadyList: Deliver, or nothing if it is empty. *)
LEMMA TakeReadyRefines ==
  ASSUME IndInv, RecInv, IndInv', TakeReady
  PROVE  [Sink!Next]_(Sink!vars)
<1> DEFINE batch == {x \in Pending : InReady(x)}
<1>1. /\ RecInv'
      /\ UNCHANGED <<hand, Current, calls, dropped, dataLock, pc>>
      /\ ReadyList' = <<>> /\ delivered' = delivered \o ReadyList
  BY TakeReadyKeepsRecords DEF TakeReady, locks
<1>2. offered' = offered
  <2>1. Appended' <=> Appended
    BY <1>1 DEF Appended, Appending
  <2>2. QED
    BY <1>1, <2>1, OfferedIs, OfferedNext
<1>3. \A x : ~ InReady(x)'
  BY <1>1, EmptySeq DEF InReady
<1>4. \A x : InHand(x)' <=> InHand(x)
  BY <1>1 DEF InHand
<1>5. Pending' = Pending \ batch
  <2>1. \A x : InReady(x) => ~ InHand(x) /\ x \notin RecordsOf(Current)
    <3>1. ASSUME NEW x, InReady(x) PROVE InStream(x)
      BY <3>1, StreamSplits DEF IndInv
    <3>2. \A x : InStream(x) => x \in 1..calls
      BY DEF RecInv, Numbered, InStream
    <3>3. \A x : InStream(x) => ~ InHand(x)
      BY <3>2 DEF RecInv, OnePlace
    <3>4. \A x : InStream(x) => x \notin RecordsOf(Current)
      <4>1. \A x \in 1..calls : ~ (x < x)
        BY DEF IndInv, TypeOK
      <4>2. QED
        BY <3>2, <4>1 DEF RecInv, CurrentIsNewest, InStream
    <3>5. QED
      BY <3>1, <3>3, <3>4
  <2>2. \A x : x \in Pending' <=> x \in Pending \ batch
    BY <1>1, <1>3, <1>4, <2>1, PendingIs
  <2>3. QED
    BY <2>2
<1>6. \A x : x \in Delivered' <=> x \in Delivered \/ InReady(x)
  <2>1. \A x : InStream(x) <=> x \in Delivered'
    BY <1>1 DEF InStream, Delivered, Stream
  <2>2. QED
    BY <2>1, StreamSplits DEF IndInv
<1>7. \A x : InReady(x) => x \in Pending
  BY PendingIs
<1>8. Delivered' = Delivered \cup batch
  BY <1>6, <1>7
<1>9. CASE batch = {}
  BY <1>1, <1>2, <1>5, <1>8, <1>9, SinkSame
<1>10. CASE batch # {}
  BY <1>1, <1>2, <1>5, <1>8, <1>10, SinkDelivers
<1>11. QED
  BY <1>9, <1>10

(* Initially nothing was offered. *)
LEMMA InitRefines == Init => Sink!Init
<1> SUFFICES ASSUME Init PROVE Sink!Init
  OBVIOUS
<1>1. offered = 0
  <2>1. IndInv /\ RecInv /\ calls = 0 /\ dataLock = None
    BY InitIndInv, InitRecInv DEF Init
  <2>2. ~ Appended
    BY <2>1, ThreadsAssumption DEF Appended, Appending, Threads
  <2>3. QED
    BY <2>1, <2>2, OfferedIs
<1>2. /\ dropped = {} /\ RecordsOf(Current) = {} /\ ReadyList = <<>> /\ delivered = <<>>
      /\ \A t \in Threads : RecordsOf(hand[t]) = {}
  BY RecordsOfBuffers DEF Init
<1>3. Pending = {}
  <2>1. \A x : ~ InReady(x) /\ ~ InHand(x)
    BY <1>2, EmptySeq DEF InReady, InHand
  <2>2. \A x : x \notin Pending
    BY <1>2, <2>1, PendingIs
  <2>3. QED
    BY <2>2
<1>4. Delivered = {}
  BY <1>2, EmptySeq DEF Delivered
<1>5. QED
  BY <1>1, <1>2, <1>3, <1>4 DEF Sink!Init, offered

(* The queue keeps the promise of RecordSink: each record is accepted or     *)
(* refused once, when Append ends, and an accepted one is handed to the      *)
(* worker at most once, for any number of threads and any interleaving.      *)
THEOREM ImplementsSink == Spec => DeliversEachRecordOnce
<1>1. IndInv /\ RecInv /\ IndInv' /\ RecInv' /\ [Next]_vars => [Sink!Next]_(Sink!vars)
  <2> SUFFICES ASSUME IndInv, RecInv, IndInv', RecInv', [Next]_vars
               PROVE  [Sink!Next]_(Sink!vars)
    OBVIOUS
  <2>1. ASSUME NEW t \in Callers, NEW cb \in RecordSizes,
               AppendFits(t, cb) \/ AppendFull(t, cb)
        PROVE  [Sink!Next]_(Sink!vars)
    BY <2>1, AppendFitsRefines, AppendFullRefines
  <2>2. ASSUME NEW t \in Threads, QueueStep(t)
        PROVE  [Sink!Next]_(Sink!vars)
    <3>1. CASE (~ HasRoom /\ TryCreateBuffer(t)) \/ RejectTooLarge(t)
      BY <3>1, DropRefines
    <3>2. CASE SwapForAppend(t) \/ SwapForPublish(t) \/ EnqueueReady(t)
      BY <3>2, SwapForAppendRefines, SwapForPublishRefines, EnqueueReadyRefines
    <3>3. CASE \/ PublishCurrent(t) \/ TryTakeFreeBuffer(t)
               \/ (HasRoom /\ TryCreateBuffer(t)) \/ CountCreated(t)
               \/ PublishNothing(t) \/ MaybeGrowAdaptive(t)
      BY <3>3, QuietStepsKeepRecords, QuietStepsRefine
    <3>4. QED
      BY <2>2, <3>1, <3>2, <3>3 DEF QueueStep
  <2>3. CASE TakeReady
    BY <2>3, TakeReadyRefines
  <2>4. CASE Recycle \/ TrimFreeBuffersIfIdle \/ UNCHANGED vars
    BY <2>4, QuietStepsKeepRecords, QuietStepsRefine DEF Threads
  <2>5. QED
    BY <2>1, <2>2, <2>3, <2>4 DEF Next, Threads
<1>2. QED
  BY <1>1, InitRefines, IndInvHolds, RecInvHolds, PTL
     DEF Spec, DeliversEachRecordOnce, Sink!Spec
============================================================================
