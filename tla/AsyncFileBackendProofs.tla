----------------------- MODULE AsyncFileBackendProofs -----------------------
(***************************************************************************)
(* Two theorems about AsyncFileBackend, for any number of callers and every  *)
(* value of its numbers.                                                   *)
(*                                                                         *)
(* QueuedBytes is exact (QueuedExactHolds).  IndInv adds to it who may hold  *)
(* DataLock where (Locked), what buffers hold and where a hand or the batch  *)
(* may hold one (Bounded), and that the record of an append in progress is  *)
(* in Current (InProgress), so that a write never subtracts it: it has not  *)
(* been counted yet.                                                       *)
(*                                                                         *)
(* No wakeup is lost (NoLostWakeupHolds).  Wake says who is responsible:    *)
(* while FlushTime is clear, a queue that is not empty has a caller who will *)
(* ask (NothingForgotten); while it stands, the manager knows of it or a     *)
(* caller is about to tell it (Told); and a backend that is not registered   *)
(* has never been used (Untouched) or has been frozen (Removed).            *)
(***************************************************************************)
EXTENDS AsyncFileBackend, FiniteSetTheorems, SequenceTheorems, TLAPS

(* Where a caller may be that holds DataLock, and where it must.             *)
Holding == {"register", "registered", "load", "append", "enqueue", "count", "decide",
            "request", "notify"}

Locked ==
  /\ \A c \in Callers : dataLock = c => pc[c] \in Holding
  /\ \A c \in Callers : pc[c] \in Holding \ {"enqueue", "request", "notify"} => dataLock = c

(* Buffers hold what they can, and are in a hand or in the batch only where  *)
(* the code has them there.                                                  *)
Bounded ==
  /\ DOMAIN pc = Threads
  /\ Current <= BufferSize
  /\ \A i \in 1..Len(ReadyList) : ReadyList[i].size <= BufferSize
  /\ \A i \in 1..Len(batch) : batch[i] <= BufferSize
  /\ batch # <<>> => pc[Manager] = "write"
  /\ \A t \in Threads : hand[t].size <= BufferSize /\ (pc[t] # "enqueue" => hand[t] = NoBuffer)

(* The record of an append in progress is in Current, and WorkerFunc has      *)
(* iterations left.                                                          *)
InProgress ==
  /\ \A c \in Callers : dataLock = c /\ pc[c] \in {"count", "enqueue"} => Current >= 1
  /\ pc[Manager] \in {"take", "write", "publish", "swap", "enqueue"} /\ ~draining => loops >= 1
  /\ pc[Manager] = "drain" => draining

IndInv == QueuedExact /\ Locked /\ Bounded /\ InProgress

(* A caller that will ask for a flush, unless one is asked for before.        *)
Asking(c) ==
  \/ pc[c] = "request"
  \/ pc[c] \in {"publish", "swap", "enqueue"} /\ dataLock # c
  \/ pc[c] \in {"enqueue", "count", "decide"} /\ dataLock = c /\ firstData

Asked   == \E c \in Callers : Asking(c)
Telling == \E c \in Callers : pc[c] = "notify"

(* Before the first record nothing is known of the backend, and after        *)
(* RemoveBackend it does not come back.                                      *)
Untouched ==
  /\ ~Registered /\ ~ShutdownFlag =>
       /\ "flush" \notin operations
       /\ FlushTime = NoTime /\ timer = NoTime /\ ~ActiveLinked
       /\ Current = 0 /\ ReadyList = <<>>
       /\ pc[Manager] \in {"off", "loop", "sleep"}
       /\ \A c \in Callers : pc[c] \in {"idle", "register", "registered"}
  /\ \A c \in Callers : pc[c] \in {"register", "registered"} => ~Registered /\ ~ShutdownFlag
  /\ pc[Manager] = "remove" => ShutdownFlag

(* FlushTime is cleared only by a manager that looks again, and whoever makes *)
(* the queue other than empty while it is clear asks for a flush.             *)
NothingForgotten ==
  /\ pc[Manager] = "store" => oldest # NoTime
  /\ \A c \in Callers : pc[c] = "enqueue" /\ dataLock = c => firstData
  /\ Registered /\ FlushTime = NoTime =>
       /\ pc[Manager] \notin {"run", "take", "write", "publish", "swap", "enqueue", "update",
                              "current", "flag", "clear"}
       /\ pc[Manager] \in {"worked", "reactivate", "loop", "sleep"} =>
            (Current > 0 \/ ReadyList # <<>> => Asked)
       /\ pc[Manager] = "flag again" => (ReadyList # <<>> => Asked)

(* A FlushTime that stands is known to the manager or about to be.            *)
Told ==
  /\ pc[Manager] # "sleep" => timer = NoTime
  /\ Registered =>
       /\ pc[Manager] \in {"loop", "sleep"} => FlushTime = NoTime \/ ActiveLinked \/ Telling
       /\ pc[Manager] = "sleep" => timer = FlushTime \/ Reschedule \/ Telling

Wake == Untouched /\ NothingForgotten /\ Told

(* A backend is removed only after it has been frozen. *)
Removed ==
  /\ StopRequested \/ draining => ShutdownFlag /\ ~Registered
  /\ pc[Manager] = "called" => draining

-----------------------------------------------------------------------------
(* Counting the records in buffers. *)

Cells(f) == {x \in (DOMAIN f) \X (1..BufferSize) : x[2] <= f[x[1]]}

LEMMA CellsFinite ==
  ASSUME NEW f, IsFiniteSet(DOMAIN f)
  PROVE  IsFiniteSet(Cells(f)) /\ Records(f) = Cardinality(Cells(f)) /\ Records(f) \in Nat
<1>1. IsFiniteSet(1..BufferSize)
  BY FS_Interval, NumbersAssumption
<1>2. IsFiniteSet((DOMAIN f) \X (1..BufferSize))
  BY <1>1, FS_Product
<1>3. IsFiniteSet(Cells(f))
  BY <1>2, FS_Subset DEF Cells
<1>4. Records(f) = Cardinality(Cells(f))
  BY DEF Records, Cells
<1>5. QED
  BY <1>3, <1>4, FS_CardinalityType

(* Empty buffers hold nothing. *)
LEMMA RecordsOfNone ==
  ASSUME NEW f, \A e \in DOMAIN f : f[e] = 0
  PROVE  Records(f) = 0
<1>1. Cells(f) = {}
  <2>1. SUFFICES ASSUME NEW x \in Cells(f) PROVE FALSE
    OBVIOUS
  <2>2. x \in (DOMAIN f) \X (1..BufferSize) /\ x[2] <= f[x[1]]
    BY DEF Cells
  <2>3. x[1] \in DOMAIN f /\ x[2] \in 1..BufferSize
    BY <2>2
  <2>4. f[x[1]] = 0
    BY <2>3
  <2>5. QED
    BY <2>2, <2>3, <2>4, NumbersAssumption
<1>2. QED
  BY <1>1, FS_EmptySet DEF Records, Cells

(* One more buffer, or an empty one filled. *)
LEMMA RecordsGrow ==
  ASSUME NEW f, NEW g, NEW d, NEW n \in 0..BufferSize,
         IsFiniteSet(DOMAIN f), DOMAIN g = (DOMAIN f) \cup {d},
         d \in DOMAIN f => f[d] = 0,
         g[d] = n, \A e \in (DOMAIN f) \ {d} : g[e] = f[e]
  PROVE  Records(g) = Records(f) + n
<1> DEFINE More == {d} \X (1..n)
<1>1. BufferSize \in Nat /\ n \in Nat /\ n <= BufferSize
  BY NumbersAssumption
<1>2. IsFiniteSet(1..n) /\ Cardinality(1..n) = n
  BY <1>1, FS_Interval
<1>3. IsFiniteSet({d}) /\ Cardinality({d}) = 1
  BY FS_Singleton
<1>4. IsFiniteSet(More) /\ Cardinality(More) = n
  BY <1>1, <1>2, <1>3, FS_Product
<1>5. Cells(f) \cap More = {}
  <2>1. SUFFICES ASSUME NEW x \in Cells(f), x \in More PROVE FALSE
    OBVIOUS
  <2>2. x[1] = d /\ x[1] \in DOMAIN f /\ x[2] \in 1..BufferSize /\ x[2] <= f[x[1]]
    BY <2>1 DEF Cells
  <2>3. f[d] = 0
    BY <2>2
  <2>4. QED
    BY <1>1, <2>2, <2>3
<1>6. Cells(g) = Cells(f) \cup More
  <2>1. ASSUME NEW x \in Cells(g) PROVE x \in Cells(f) \cup More
    <3>1. x \in (DOMAIN g) \X (1..BufferSize) /\ x[2] <= g[x[1]]
      BY DEF Cells
    <3>2. CASE x[1] = d
      <4>1. x = <<d, x[2]>> /\ x[2] \in 1..BufferSize /\ x[2] <= n
        BY <3>1, <3>2
      <4>2. x[2] \in 1..n
        BY <1>1, <4>1
      <4>3. QED
        BY <4>1, <4>2
    <3>3. CASE x[1] # d
      <4>1. x \in (DOMAIN f) \X (1..BufferSize)
        BY <3>1, <3>3
      <4>2. g[x[1]] = f[x[1]]
        BY <3>3, <4>1
      <4>3. QED
        BY <3>1, <4>1, <4>2 DEF Cells
    <3>4. QED
      BY <3>2, <3>3
  <2>2. ASSUME NEW x \in Cells(f) PROVE x \in Cells(g)
    <3>1. x \in (DOMAIN f) \X (1..BufferSize) /\ x[2] <= f[x[1]]
      BY DEF Cells
    <3>2. x[1] # d
      <4>1. SUFFICES ASSUME x[1] = d PROVE FALSE
        OBVIOUS
      <4>2. f[x[1]] = 0 /\ x[2] \in 1..BufferSize
        BY <3>1, <4>1
      <4>3. QED
        BY <1>1, <3>1, <4>2
    <3>3. g[x[1]] = f[x[1]] /\ x \in (DOMAIN g) \X (1..BufferSize)
      BY <3>1, <3>2
    <3>4. QED
      BY <3>1, <3>3 DEF Cells
  <2>3. ASSUME NEW x \in More PROVE x \in Cells(g)
    <3>1. x[1] = d /\ x[2] \in 1..n /\ x \in {d} \X (1..n)
      OBVIOUS
    <3>2. x[2] \in 1..BufferSize /\ x[2] <= n
      BY <1>1, <3>1
    <3>3. x \in (DOMAIN g) \X (1..BufferSize) /\ x[2] <= g[x[1]]
      BY <3>1, <3>2
    <3>4. QED
      BY <3>3 DEF Cells
  <2>4. QED
    BY <2>1, <2>2, <2>3
<1>7. IsFiniteSet(Cells(f)) /\ Records(f) = Cardinality(Cells(f)) /\ Records(f) \in Nat
  BY CellsFinite
<1>8. Cardinality(Cells(f) \cup More) = Cardinality(Cells(f)) + n
  <2>1. Cardinality(Cells(f) \cup More)
          = Cardinality(Cells(f)) + Cardinality(More) - Cardinality(Cells(f) \cap More)
    BY <1>4, <1>7, FS_Union
  <2>2. Cardinality(Cells(f) \cap More) = 0
    BY <1>5, FS_EmptySet
  <2>3. Cardinality(Cells(f)) \in Nat
    BY <1>7
  <2> HIDE DEF More
  <2>4. QED
    BY <1>1, <1>4, <2>1, <2>2, <2>3
<1>9. Records(g) = Cardinality(Cells(g))
  BY DEF Records, Cells
<1>10. QED
  BY <1>6, <1>7, <1>8, <1>9
-----------------------------------------------------------------------------
(* The counter is exact. *)

Exact ==
  /\ QueuedBytes + Uncounted = Current + ReadyRecords + HandRecords + BatchRecords
  /\ QueuedBytes + Uncounted = logged - written

LEMMA ParameterFacts ==
  /\ FlushAfter \in Nat /\ BufferSize \in Nat /\ MaxTotalBuffers \in Nat
  /\ MaxWriteLoops \in Nat /\ ScheduledRunGap \in Nat
  /\ FlushAfter >= 1 /\ BufferSize >= 1 /\ MaxWriteLoops >= 1
  /\ Due = 1 /\ RIGHT_NOW = 0 /\ NoTime = -1 /\ Later = 1 + FlushAfter
  /\ Later \in Deadlines /\ Deadlines \subseteq Times
  /\ \A d \in Deadlines : d \in Nat /\ d >= 1 /\ d <= Later
  /\ Manager \notin Callers /\ None \notin Threads /\ Threads = Callers \cup {Manager}
  /\ IsFiniteSet(Threads)
<1>1. IsFiniteSet(Threads)
  <2>1. IsFiniteSet({Manager})
    BY FS_Singleton
  <2>2. QED
    BY <2>1, FS_Union, ThreadsAssumption DEF Threads
<1>2. /\ FlushAfter \in Nat /\ BufferSize \in Nat /\ MaxTotalBuffers \in Nat
      /\ MaxWriteLoops \in Nat /\ ScheduledRunGap \in Nat
      /\ FlushAfter >= 1 /\ BufferSize >= 1 /\ MaxWriteLoops >= 1
  BY NumbersAssumption
<1>3. /\ Due = 1 /\ RIGHT_NOW = 0 /\ NoTime = -1 /\ Later = 1 + FlushAfter
      /\ Deadlines = 1..(1 + FlushAfter)
  BY DEF Due, RIGHT_NOW, NoTime, Later, Deadlines
<1>4. /\ Later \in Deadlines /\ Deadlines \subseteq Times
      /\ \A d \in Deadlines : d \in Nat /\ d >= 1 /\ d <= Later
  BY <1>2, <1>3 DEF Times
<1>5. Manager \notin Callers /\ None \notin Threads /\ Threads = Callers \cup {Manager}
  BY ThreadsAssumption DEF Threads
<1>6. QED
  BY <1>1, <1>2, <1>3, <1>4, <1>5

(* The numbers of records are numbers. *)
LEMMA RecordsAreNumbers ==
  ASSUME TypeOK
  PROVE  ReadyRecords \in Nat /\ HandRecords \in Nat /\ BatchRecords \in Nat
<1>1. /\ ReadyList \in Seq(Buffers) /\ batch \in Seq(Nat)
      /\ DOMAIN ReadyList = 1..Len(ReadyList) /\ Len(ReadyList) \in Nat
      /\ DOMAIN batch = 1..Len(batch) /\ Len(batch) \in Nat
  BY LenProperties DEF TypeOK
<1>2. IsFiniteSet(1..Len(ReadyList)) /\ IsFiniteSet(1..Len(batch)) /\ IsFiniteSet(Threads)
  BY <1>1, FS_Interval, ParameterFacts
<1>3. ReadyRecords \in Nat
  <2> DEFINE f == [i \in DOMAIN ReadyList |-> ReadyList[i].size]
  <2>1. IsFiniteSet(DOMAIN f)
    BY <1>1, <1>2
  <2> HIDE DEF f
  <2>2. Records(f) \in Nat
    BY <2>1, CellsFinite
  <2>3. QED
    BY <2>2 DEF ReadyRecords, f
<1>4. HandRecords \in Nat
  <2> DEFINE f == [t \in Threads |-> hand[t].size]
  <2>1. IsFiniteSet(DOMAIN f)
    BY <1>2
  <2> HIDE DEF f
  <2>2. Records(f) \in Nat
    BY <2>1, CellsFinite
  <2>3. QED
    BY <2>2 DEF HandRecords, f
<1>5. BatchRecords \in Nat
  BY <1>1, <1>2, CellsFinite DEF BatchRecords
<1>6. QED
  BY <1>3, <1>4, <1>5

(* A step of a caller that moves no record. *)
LEMMA CallerMoves ==
  ASSUME IndInv, TypeOK', NEW c \in Callers, NEW l \in Labels,
         pc' = [pc EXCEPT ![c] = l],
         UNCHANGED <<QueuedBytes, Current, ReadyList, hand, batch, loops, draining, logged, written>>,
         pc[c] \notin {"count", "enqueue"}, l \notin {"count", "enqueue"},
         \/ /\ dataLock' = dataLock
            /\ dataLock = c => l \in Holding
            /\ l \in Holding \ {"enqueue", "request", "notify"} => dataLock = c
         \/ dataLock = None /\ dataLock' = c /\ l \in Holding
         \/ /\ dataLock = c /\ dataLock' = None
            /\ l \notin Holding \ {"enqueue", "request", "notify"}
  PROVE  IndInv'
<1>1. /\ DOMAIN pc = Threads /\ c \in Threads /\ Manager \in Threads
      /\ c # Manager /\ c # None /\ dataLock \in Callers \cup {None} /\ None \notin Callers
  BY ParameterFacts DEF IndInv, Bounded, QueuedExact, TypeOK
<1>2. /\ DOMAIN pc' = Threads
      /\ \A u \in Threads : pc'[u] = IF u = c THEN l ELSE pc[u]
  BY <1>1
<1>3. Uncounted' = Uncounted
  <2>1. \A u \in Callers : pc'[u] = IF u = c THEN l ELSE pc[u]
    BY <1>2, ParameterFacts
  <2>2. QED
    BY <1>1, <2>1 DEF Uncounted
<1>4. QueuedExact'
  BY <1>3 DEF IndInv, QueuedExact, ReadyRecords, HandRecords, BatchRecords
<1>5. Locked'
  <2>1. \A u \in Callers : pc'[u] = IF u = c THEN l ELSE pc[u]
    BY <1>2, ParameterFacts
  <2>2. QED
    BY <1>1, <2>1 DEF IndInv, Locked
<1>6. Bounded'
  BY <1>1, <1>2 DEF IndInv, Bounded
<1>7. InProgress'
  <2>1. \A u \in Callers : pc'[u] = IF u = c THEN l ELSE pc[u]
    BY <1>2, ParameterFacts
  <2>2. pc'[Manager] = pc[Manager]
    BY <1>1, <1>2
  <2>3. QED
    BY <1>1, <2>1, <2>2 DEF IndInv, InProgress
<1>8. QED
  BY <1>4, <1>5, <1>6, <1>7 DEF IndInv

(* A step of the manager that moves no record. *)
LEMMA ManagerMoves ==
  ASSUME IndInv, TypeOK', NEW l \in ManagerLabels,
         pc' = [pc EXCEPT ![Manager] = l],
         UNCHANGED <<QueuedBytes, Current, ReadyList, hand, batch, dataLock, logged, written>>,
         pc[Manager] \notin {"write", "enqueue"}, l # "enqueue",
         l \in {"take", "write", "publish", "swap"} /\ ~draining' => loops' >= 1,
         l = "drain" => draining'
  PROVE  IndInv'
<1>1. /\ DOMAIN pc = Threads /\ Manager \in Threads /\ Manager \notin Callers
      /\ dataLock \in Callers \cup {None} /\ None \notin Callers
      /\ \A u \in Callers : u \in Threads
  BY ParameterFacts DEF IndInv, Bounded, QueuedExact, TypeOK
<1>2. /\ DOMAIN pc' = Threads
      /\ \A u \in Threads : pc'[u] = IF u = Manager THEN l ELSE pc[u]
  BY <1>1
<1>3. /\ \A u \in Callers : pc'[u] = pc[u]
      /\ pc'[Manager] = l
  BY <1>1, <1>2
<1>4. Uncounted' = Uncounted
  BY <1>1, <1>3 DEF Uncounted
<1>5. QueuedExact'
  BY <1>4 DEF IndInv, QueuedExact, ReadyRecords, HandRecords, BatchRecords
<1>6. Locked'
  BY <1>3 DEF IndInv, Locked
<1>7. Bounded'
  BY <1>1, <1>2 DEF IndInv, Bounded
<1>8. InProgress'
  BY <1>1, <1>3 DEF IndInv, InProgress
<1>9. QED
  BY <1>5, <1>6, <1>7, <1>8 DEF IndInv

(* What the proofs about single actions take from the invariant.              *)
LEMMA Known ==
  ASSUME IndInv
  PROVE  /\ TypeOK /\ DOMAIN pc = Threads
         /\ \A c \in Callers : dataLock = c => pc[c] \in Holding
         /\ \A c \in Callers : pc[c] \in Holding \ {"enqueue", "request", "notify"} => dataLock = c
BY DEF IndInv, QueuedExact, Bounded, Locked

LEMMA CallBegins ==
  ASSUME IndInv, NEW c \in Callers, Display(c) \/ Flush(c) \/ Freeze(c)
  PROVE  IndInv'
<1>1. CASE Display(c)
  <2> DEFINE l == IF Registered THEN "load" ELSE "register"
  <2>1. TypeOK'
    BY <1>1, Known, ParameterFacts
       DEF Display, TypeOK, Goto, flags, queue, manager, append, worker, history, Labels
  <2>2. /\ pc' = [pc EXCEPT ![c] = l] /\ dataLock = None /\ dataLock' = c /\ pc[c] = "idle"
        /\ UNCHANGED <<QueuedBytes, Current, ReadyList, hand, batch, loops, draining, logged, written>>
    BY <1>1 DEF Display, Goto, queue, worker, history
  <2>3. l \in Labels /\ l \in Holding /\ l \notin {"count", "enqueue"}
    BY DEF Labels, Holding
  <2> HIDE DEF l
  <2>4. QED
    BY <2>1, <2>2, <2>3, CallerMoves
<1>2. CASE Flush(c)
  <2>1. TypeOK'
    BY <1>2, Known, ParameterFacts
       DEF Flush, TypeOK, Goto, flags, queue, manager, append, worker, history, Labels
  <2>2. /\ pc' = [pc EXCEPT ![c] = "publish"] /\ dataLock' = dataLock /\ pc[c] = "idle"
        /\ UNCHANGED <<QueuedBytes, Current, ReadyList, hand, batch, loops, draining, logged, written>>
    BY <1>2 DEF Flush, Goto, queue, worker, history
  <2>3. dataLock # c
    BY <2>2, Known DEF Holding
  <2>4. QED
    BY <2>1, <2>2, <2>3, CallerMoves DEF Labels, Holding
<1>3. CASE Freeze(c)
  <2>1. TypeOK'
    BY <1>3, Known, ParameterFacts
       DEF Freeze, TypeOK, Goto, flags, queue, manager, append, worker, history, Labels
  <2>2. /\ pc' = [pc EXCEPT ![c] = "request"] /\ dataLock = None /\ dataLock' = c /\ pc[c] = "idle"
        /\ UNCHANGED <<QueuedBytes, Current, ReadyList, hand, batch, loops, draining, logged, written>>
    BY <1>3 DEF Freeze, Goto, queue, worker, history
  <2>3. QED
    BY <2>1, <2>2, CallerMoves DEF Labels, Holding
<1>4. QED
  BY <1>1, <1>2, <1>3

LEMMA FactoryAddPreserves ==
  ASSUME IndInv, NEW c \in Callers, FactoryAdd(c)
  PROVE  IndInv'
<1>1. /\ pc[c] = "register" /\ dataLock' = dataLock /\ dataLock = c
      /\ pc' = [pc EXCEPT ![c] = "registered", ![Manager] = IF @ = "off" THEN "loop" ELSE @]
      /\ UNCHANGED <<QueuedBytes, Current, ReadyList, hand, batch, loops, draining, logged, written>>
  BY Known DEF FactoryAdd, queue, worker, history, Holding
<1>2. /\ DOMAIN pc = Threads /\ c \in Threads /\ Manager \in Threads /\ Manager # c
      /\ dataLock \in Callers \cup {None} /\ None \notin Callers /\ Manager \notin Callers
      /\ \A u \in Callers : u \in Threads
  BY Known, ParameterFacts DEF TypeOK
<1>3. /\ DOMAIN pc' = Threads
      /\ \A u \in Callers : pc'[u] = IF u = c THEN "registered" ELSE pc[u]
      /\ pc'[Manager] = IF pc[Manager] = "off" THEN "loop" ELSE pc[Manager]
  BY <1>1, <1>2
<1>4. TypeOK'
  BY <1>2, <1>3, Known, ParameterFacts
     DEF FactoryAdd, TypeOK, flags, queue, append, worker, history, Labels, ManagerLabels
<1>5. Uncounted' = Uncounted
  BY <1>1, <1>2, <1>3 DEF Uncounted
<1>6. QueuedExact'
  BY <1>1, <1>4, <1>5 DEF IndInv, QueuedExact, ReadyRecords, HandRecords, BatchRecords
<1>7. Locked'
  BY <1>1, <1>2, <1>3 DEF IndInv, Locked, Holding
<1>8. Bounded'
  <2>1. \A u \in Threads : pc'[u] = "enqueue" <=> pc[u] = "enqueue"
    BY <1>1, <1>2, <1>3, ParameterFacts
  <2>2. pc[Manager] = "write" => pc'[Manager] = "write"
    BY <1>3
  <2>3. QED
    BY <1>1, <1>3, <2>1, <2>2 DEF IndInv, Bounded
<1>9. InProgress'
  BY <1>1, <1>2, <1>3 DEF IndInv, InProgress
<1>10. QED
  BY <1>6, <1>7, <1>8, <1>9 DEF IndInv

(* Display up to the append. *)
LEMMA DisplaySteps ==
  ASSUME IndInv, NEW c \in Callers, SetRegistered(c) \/ LoadFlushTime(c) \/ AppendDrops(c)
  PROVE  IndInv'
<1>1. CASE SetRegistered(c)
  <2>1. TypeOK'
    BY <1>1, Known, ParameterFacts
       DEF SetRegistered, TypeOK, Goto, queue, manager, append, worker, history, Labels
  <2>2. /\ pc' = [pc EXCEPT ![c] = "load"] /\ dataLock' = dataLock /\ pc[c] = "registered"
        /\ UNCHANGED <<QueuedBytes, Current, ReadyList, hand, batch, loops, draining, logged, written>>
    BY <1>1 DEF SetRegistered, Goto, queue, worker, history
  <2>3. dataLock = c
    BY <2>2, Known DEF Holding
  <2>4. QED
    BY <2>1, <2>2, <2>3, CallerMoves DEF Labels, Holding
<1>2. CASE LoadFlushTime(c)
  <2>1. TypeOK'
    BY <1>2, Known, ParameterFacts
       DEF LoadFlushTime, TypeOK, Goto, flags, queue, manager, worker, history, Labels
  <2>2. /\ pc' = [pc EXCEPT ![c] = "append"] /\ dataLock' = dataLock /\ pc[c] = "load"
        /\ UNCHANGED <<QueuedBytes, Current, ReadyList, hand, batch, loops, draining, logged, written>>
    BY <1>2 DEF LoadFlushTime, Goto, queue, worker, history
  <2>3. dataLock = c
    BY <2>2, Known DEF Holding
  <2>4. QED
    BY <2>1, <2>2, <2>3, CallerMoves DEF Labels, Holding
<1>3. CASE AppendDrops(c)
  <2>1. TypeOK'
    BY <1>3, Known, ParameterFacts
       DEF AppendDrops, TypeOK, Goto, flags, queue, manager, worker, Labels
  <2>2. /\ pc' = [pc EXCEPT ![c] = "idle"] /\ dataLock' = None /\ pc[c] = "append"
        /\ UNCHANGED <<QueuedBytes, Current, ReadyList, hand, batch, loops, draining, logged, written>>
    BY <1>3 DEF AppendDrops, Goto, queue, worker
  <2>3. dataLock = c
    BY <2>2, Known DEF Holding
  <2>4. QED
    BY <2>1, <2>2, <2>3, CallerMoves DEF Labels, Holding
<1>4. QED
  BY <1>1, <1>2, <1>3

LEMMA DecideRequestPreserves ==
  ASSUME IndInv, NEW c \in Callers, DecideRequest(c)
  PROVE  IndInv'
<1>1. pc[c] = "decide" /\ dataLock = c
  BY Known DEF DecideRequest, Holding
<1>2. TypeOK'
  <2>1. /\ when' \in [Callers -> Times \ {NoTime}]
        /\ dataLock' \in Callers \cup {None}
    <3>1. when \in [Callers -> Times \ {NoTime}] /\ dataLock \in Callers \cup {None}
      BY Known DEF TypeOK
    <3>2. RIGHT_NOW \in Times \ {NoTime} /\ Later \in Times \ {NoTime}
      BY ParameterFacts DEF Times
    <3>3. \/ UNCHANGED when /\ dataLock' = None
          \/ UNCHANGED dataLock /\ when' = [when EXCEPT ![c] = RIGHT_NOW]
          \/ UNCHANGED dataLock /\ when' = [when EXCEPT ![c] = Later]
      BY DEF DecideRequest
    <3>4. QED
      BY <3>1, <3>2, <3>3
  <2>2. (\A u \in Callers : pc'[u] \in Labels) /\ pc'[Manager] \in ManagerLabels
    BY Known, ParameterFacts DEF DecideRequest, TypeOK, Goto, Labels
  <2>3. QED
    BY <2>1, <2>2, Known DEF DecideRequest, TypeOK, flags, queue, manager, worker, history
<1>3. /\ \/ pc' = [pc EXCEPT ![c] = "request"] /\ dataLock' = dataLock
         \/ pc' = [pc EXCEPT ![c] = "idle"] /\ dataLock' = None
      /\ UNCHANGED <<QueuedBytes, Current, ReadyList, hand, batch, loops, draining, logged, written>>
  BY DEF DecideRequest, Goto, queue, worker, history
<1>4. QED
  BY <1>1, <1>2, <1>3, CallerMoves DEF Labels, Holding

(* RequestFlush and Notify. *)
LEMMA RequestSteps ==
  ASSUME IndInv, NEW c \in Callers,
         RequestRejected(c) \/ RequestAccepted(c) \/ Notify(c) \/ FlushReturns(c)
  PROVE  IndInv'
<1> DEFINE l == IF dataLock = c THEN "idle" ELSE "wait"
<1>l. l \in Labels /\ l \notin Holding /\ l \notin {"count", "enqueue"}
  BY DEF Labels, Holding
<1>1. CASE RequestRejected(c)
  <2>1. TypeOK'
    BY <1>1, Known, ParameterFacts
       DEF RequestRejected, AfterRequest, TypeOK, Goto, flags, queue, manager, append, worker,
           history, Labels, Times
  <2>2. /\ pc[c] = "request" /\ pc' = [pc EXCEPT ![c] = l]
        /\ dataLock' = IF dataLock = c THEN None ELSE dataLock
        /\ UNCHANGED <<QueuedBytes, Current, ReadyList, hand, batch, loops, draining, logged, written>>
    BY <1>1 DEF RequestRejected, AfterRequest, Goto, queue, worker, history
  <2> HIDE DEF l
  <2>3. QED
    BY <1>l, <2>1, <2>2, CallerMoves
<1>2. CASE RequestAccepted(c)
  <2>1. TypeOK'
    BY <1>2, Known, ParameterFacts
       DEF RequestAccepted, TypeOK, Goto, flags, queue, manager, append, worker, history, Labels
  <2>2. /\ pc[c] = "request" /\ pc' = [pc EXCEPT ![c] = "notify"] /\ dataLock' = dataLock
        /\ UNCHANGED <<QueuedBytes, Current, ReadyList, hand, batch, loops, draining, logged, written>>
    BY <1>2 DEF RequestAccepted, Goto, queue, worker, history
  <2>3. QED
    BY <2>1, <2>2, CallerMoves DEF Labels, Holding
<1>3. CASE Notify(c)
  <2>1. TypeOK'
    BY <1>3, Known, ParameterFacts
       DEF Notify, AfterRequest, TypeOK, Goto, flags, queue, manager, append, worker, history,
           Labels, Times
  <2>2. /\ pc[c] = "notify" /\ pc' = [pc EXCEPT ![c] = l]
        /\ dataLock' = IF dataLock = c THEN None ELSE dataLock
        /\ UNCHANGED <<QueuedBytes, Current, ReadyList, hand, batch, loops, draining, logged, written>>
    BY <1>3 DEF Notify, AfterRequest, Goto, queue, worker, history
  <2> HIDE DEF l
  <2>3. QED
    BY <1>l, <2>1, <2>2, CallerMoves
<1>4. CASE FlushReturns(c)
  <2>1. TypeOK'
    BY <1>4, Known, ParameterFacts
       DEF FlushReturns, TypeOK, Goto, flags, queue, manager, append, worker, history, Labels
  <2>2. /\ pc[c] = "wait" /\ pc' = [pc EXCEPT ![c] = "idle"] /\ dataLock' = dataLock
        /\ UNCHANGED <<QueuedBytes, Current, ReadyList, hand, batch, loops, draining, logged, written>>
    BY <1>4 DEF FlushReturns, Goto, queue, worker, history
  <2>3. dataLock # c
    BY <2>2, Known DEF Holding
  <2>4. QED
    BY <2>1, <2>2, <2>3, CallerMoves DEF Labels, Holding
<1>5. QED
  BY <1>1, <1>2, <1>3, <1>4

(* Publishing without a buffer, by a caller or by the manager. *)
LEMMA NotPublishedPreserves ==
  ASSUME IndInv, NEW t \in Threads, TakeReplacement(t) \/ NothingToPublish(t)
  PROVE  IndInv'
<1> DEFINE l == IF t # Manager THEN "request" ELSE IF draining THEN "called" ELSE "update"
<1>1. \E k \in {"swap", l} : /\ pc' = [pc EXCEPT ![t] = k] /\ (k = "swap" => pc[t] = "publish")
  BY DEF TakeReplacement, NothingToPublish, NotPublished, Goto
<1>2. PICK k \in {"swap", l} : pc' = [pc EXCEPT ![t] = k] /\ (k = "swap" => pc[t] = "publish")
  BY <1>1
<1>3. /\ pc[t] \in {"publish", "swap"}
      /\ UNCHANGED <<FlushTime, flags, QueuedBytes, queue, manager, dataLock, hand, when, append,
                     worker, history>>
  BY DEF TakeReplacement, NothingToPublish
<1>4. UNCHANGED <<QueuedBytes, Current, ReadyList, hand, batch, loops, draining, logged, written, dataLock>>
  BY <1>3 DEF queue, worker, history
<1>5. k \in IF t = Manager THEN ManagerLabels ELSE Labels
  BY DEF ManagerLabels, Labels
<1>6. TypeOK'
  BY <1>2, <1>3, <1>5, Known, ParameterFacts
     DEF TypeOK, flags, queue, manager, append, worker, history
<1>7. CASE t = Manager
  <2>1. /\ pc' = [pc EXCEPT ![Manager] = k] /\ k \in ManagerLabels
        /\ pc[Manager] \notin {"write", "enqueue"} /\ k # "enqueue" /\ k # "drain"
    BY <1>2, <1>3, <1>5, <1>7
  <2>2. k \in {"take", "write", "publish", "swap"} /\ ~draining => loops >= 1
    BY <1>2, <1>7 DEF IndInv, InProgress
  <2>3. QED
    BY <1>4, <1>6, <2>1, <2>2, ManagerMoves
<1>8. CASE t # Manager
  <2>1. t \in Callers /\ k \in {"swap", "request"}
    BY <1>8, ParameterFacts
  <2>2. dataLock # t
    BY <1>3, <2>1, Known DEF Holding
  <2>3. k \in Labels /\ k \notin {"count", "enqueue"} /\ k \notin Holding \ {"enqueue", "request", "notify"}
        /\ pc[t] \notin {"count", "enqueue"}
    BY <1>3, <2>1 DEF Labels, Holding
  <2>4. QED
    BY <1>2, <1>4, <1>6, <2>1, <2>2, <2>3, CallerMoves
<1>9. QED
  BY <1>7, <1>8

(* The management thread outside WorkerFunc. *)
LEMMA LoopSteps ==
  ASSUME IndInv,
         \/ LoopStops \/ WaitIdle \/ WaitUntilDue \/ WakeUp \/ RunBackend
         \/ WorkerReturns \/ Reactivate \/ RemoveBackend \/ DrainQueue \/ SetShutdownCalled
  PROVE  IndInv'
<1>1. TypeOK'
  <2>1. CASE LoopStops \/ WaitIdle \/ Reactivate
    <3>1. (\A u \in Callers : pc'[u] \in Labels) /\ pc'[Manager] \in ManagerLabels
      BY <2>1, Known, ParameterFacts
         DEF LoopStops, WaitIdle, Reactivate, TypeOK, Goto, ManagerLabels
    <3>2. /\ ActiveLinked' \in BOOLEAN
          /\ UNCHANGED <<FlushTime, flags, QueuedBytes, queue, Backends, Reschedule,
                         StopRequested, dataLock, hand, when, append, worker, history>>
      BY <2>1, Known DEF LoopStops, WaitIdle, Reactivate, TypeOK, manager
    <3>3. QED
      BY <3>1, <3>2, Known DEF TypeOK, flags, queue, append, worker, history
  <2>w. CASE WorkerReturns
    <3>1. (\A u \in Callers : pc'[u] \in Labels) /\ pc'[Manager] \in ManagerLabels
      BY <2>w, Known, ParameterFacts DEF WorkerReturns, TypeOK, Goto, ManagerLabels
    <3>2. /\ forceFlush' \in BOOLEAN /\ loops' \in Nat
          /\ UNCHANGED <<FlushTime, flags, QueuedBytes, queue, manager, dataLock, hand,
                         when, append, batch, draining, oldest, timer, history>>
      BY <2>w DEF WorkerReturns
    <3>3. QED
      BY <3>1, <3>2, Known DEF TypeOK, flags, queue, manager, append, history
  <2>r. CASE RemoveBackend
    <3>1. (\A u \in Callers : pc'[u] \in Labels) /\ pc'[Manager] \in ManagerLabels
      BY <2>r, Known, ParameterFacts DEF RemoveBackend, TypeOK, Goto, ManagerLabels
    <3>2. FlushTime' \in Times
      BY <2>r DEF RemoveBackend, Times
    <3>3. QED
      BY <2>r, <3>1, <3>2, Known DEF RemoveBackend, TypeOK, queue, append, history
  <2>2. CASE WaitUntilDue
    <3>1. FlushTime \in Deadlines
      BY <2>2, Known, ParameterFacts DEF WaitUntilDue, TypeOK, Times
    <3>2. QED
      BY <2>2, <3>1, Known, ParameterFacts
         DEF WaitUntilDue, TypeOK, Goto, flags, queue, manager, append, history, ManagerLabels
  <2>3. CASE WakeUp \/ RunBackend \/ DrainQueue \/ SetShutdownCalled
    <3>1. (\A u \in Callers : pc'[u] \in Labels) /\ pc'[Manager] \in ManagerLabels
      BY <2>3, Known, ParameterFacts
         DEF WakeUp, RunBackend, DrainQueue, SetShutdownCalled, TypeOK, Goto, ManagerLabels
    <3>2. FlushTime' \in Times
      <4>1. FlushTime \in Times /\ RIGHT_NOW \in Times
        BY Known DEF TypeOK, Times
      <4>2. FlushTime' = FlushTime \/ FlushTime' = RIGHT_NOW
        BY <2>3 DEF WakeUp, RunBackend, DrainQueue, SetShutdownCalled
      <4>3. QED
        BY <4>1, <4>2
    <3>3. /\ {ShutdownCalled', ActiveLinked', Reschedule', draining'} \subseteq BOOLEAN
          /\ timer' \in {NoTime} \cup Deadlines
          /\ UNCHANGED <<Registered, ShutdownFlag, QueuedBytes, queue, Backends, StopRequested,
                         dataLock, hand, when, append, batch, forceFlush, loops, oldest, history>>
      BY <2>3, Known DEF WakeUp, RunBackend, DrainQueue, SetShutdownCalled, TypeOK, flags, manager,
                         worker
    <3>4. QED
      BY <3>1, <3>2, <3>3, Known DEF TypeOK, queue, append, history
  <2>4. QED
    BY <2>1, <2>w, <2>r, <2>2, <2>3
<1>2. /\ UNCHANGED <<QueuedBytes, Current, ReadyList, hand, batch, dataLock, logged, written>>
      /\ pc[Manager] \notin {"write", "enqueue"}
      /\ \/ \E l \in {"stopped", "sleep", "loop", "run", "remove", "reactivate", "called"} :
              pc' = [pc EXCEPT ![Manager] = l]
         \/ pc' = [pc EXCEPT ![Manager] = "drain"] /\ draining'
         \/ pc' = [pc EXCEPT ![Manager] = "take"] /\ draining' = draining /\ pc[Manager] = "drain"
  <2>1. CASE LoopStops \/ WaitIdle \/ WaitUntilDue \/ WakeUp \/ RunBackend
    BY <2>1 DEF LoopStops, WaitIdle, WaitUntilDue, WakeUp, RunBackend, Goto, queue, worker, history
  <2>2. CASE WorkerReturns \/ Reactivate \/ RemoveBackend \/ DrainQueue \/ SetShutdownCalled
    BY <2>2 DEF WorkerReturns, Reactivate, RemoveBackend, DrainQueue, SetShutdownCalled, Goto,
                queue, worker, history
  <2>3. QED
    BY <2>1, <2>2
<1>3. CASE \E l \in {"stopped", "sleep", "loop", "run", "remove", "reactivate", "called"} :
              pc' = [pc EXCEPT ![Manager] = l]
  BY <1>1, <1>2, <1>3, ManagerMoves DEF ManagerLabels
<1>4. CASE pc' = [pc EXCEPT ![Manager] = "drain"] /\ draining'
  BY <1>1, <1>2, <1>4, ManagerMoves DEF ManagerLabels
<1>5. CASE pc' = [pc EXCEPT ![Manager] = "take"] /\ draining' = draining /\ pc[Manager] = "drain"
  BY <1>1, <1>2, <1>5, ManagerMoves DEF ManagerLabels, IndInv, InProgress
<1>6. QED
  BY <1>2, <1>3, <1>4, <1>5

(* WorkerFunc where it moves no record. *)
LEMMA WorkerSteps ==
  ASSUME IndInv, WorkerFunc \/ NothingReady
  PROVE  IndInv'
<1>1. CASE WorkerFunc
  <2>1. TypeOK'
    <3>1. (\A u \in Callers : pc'[u] \in Labels) /\ pc'[Manager] \in ManagerLabels
      BY <1>1, Known, ParameterFacts DEF WorkerFunc, TypeOK, Goto, ManagerLabels
    <3>2. QED
      BY <1>1, <3>1, Known, ParameterFacts
         DEF WorkerFunc, TypeOK, flags, queue, manager, append, history
  <2>2. /\ pc' = [pc EXCEPT ![Manager] = "take"] /\ loops' = MaxWriteLoops /\ pc[Manager] = "run"
        /\ UNCHANGED <<QueuedBytes, Current, ReadyList, hand, batch, dataLock, logged, written>>
    BY <1>1 DEF WorkerFunc, Goto, queue, history
  <2>3. QED
    BY <2>1, <2>2, ParameterFacts, ManagerMoves DEF ManagerLabels
<1>2. CASE NothingReady
  <2>1. TypeOK'
    BY <1>2, Known, ParameterFacts
       DEF NothingReady, TypeOK, Goto, flags, queue, manager, append, worker, history, ManagerLabels
  <2>2. /\ pc' = [pc EXCEPT ![Manager] = "publish"] \/ pc' = [pc EXCEPT ![Manager] = "update"]
        /\ pc[Manager] = "take"
        /\ UNCHANGED <<QueuedBytes, Current, ReadyList, hand, batch, dataLock, logged, written,
                       loops, draining>>
    BY <1>2 DEF NothingReady, Goto, queue, worker, history
  <2>3. ~draining => loops >= 1
    BY <2>2 DEF IndInv, InProgress
  <2>4. CASE pc' = [pc EXCEPT ![Manager] = "publish"]
    BY <2>1, <2>2, <2>3, <2>4, ManagerMoves DEF ManagerLabels
  <2>5. CASE pc' = [pc EXCEPT ![Manager] = "update"]
    BY <2>1, <2>2, <2>5, ManagerMoves DEF ManagerLabels
  <2>6. QED
    BY <2>2, <2>4, <2>5
<1>3. QED
  BY <1>1, <1>2

LEMMA UpdatePreserves ==
  ASSUME IndInv, UpdateFlushTimeAfterWork
  PROVE  IndInv'
<1> DEFINE Ls == {"current", "flag", "clear", "update again", "current again", "ready",
                  "flag again", "store", "worked"}
<1>1. /\ \E l \in Ls : pc' = [pc EXCEPT ![Manager] = l]
      /\ pc[Manager] \in {"update", "current", "flag", "clear", "update again", "current again",
                          "ready", "flag again", "store"}
      /\ FlushTime' \in Times
      /\ oldest' \in {NoTime} \cup Deadlines
      /\ UNCHANGED <<flags, QueuedBytes, queue, manager, dataLock, hand, when, append, batch,
                     forceFlush, loops, draining, timer, history>>
  <2>1. CASE ReadReadyTime("update", "current") \/ ReadReadyTime("update again", "current again")
    <3>1. FrontTime \in {NoTime} \cup Deadlines
      <4>1. ReadyList \in Seq(Buffers)
        BY Known DEF TypeOK
      <4>2. ReadyList # <<>> => ReadyList[1] \in Buffers
        BY <4>1, EmptySeq, LenProperties, ElementOfSeq
      <4>3. QED
        BY <4>2 DEF FrontTime, Buffers
    <3>2. QED
      BY <2>1, <3>1, Known DEF ReadReadyTime, Goto, TypeOK
  <2>2. CASE ReadCurrentTime("current", "flag") \/ ReadCurrentTime("current again", "ready")
    <3>1. Earlier(oldest, CurrentFirst) \in {NoTime} \cup Deadlines
      BY Known DEF Earlier, TypeOK
    <3>2. QED
      BY <2>2, <3>1, Known DEF ReadCurrentTime, Goto, TypeOK
  <2>3. CASE TestCurrentFlag \/ ClearFlushTime
    BY <2>3, Known DEF TestCurrentFlag, ClearFlushTime, Goto, TypeOK, worker, Times
  <2>4. CASE TestHasReady \/ TestCurrentFlagAgain
    BY <2>4, Known, ParameterFacts DEF TestHasReady, TestCurrentFlagAgain, Goto, TypeOK, worker, Times
  <2>5. CASE UpdateFromOldest
    BY <2>5, Known, ParameterFacts DEF UpdateFromOldest, Goto, TypeOK, worker, Times
  <2>6. QED
    BY <2>1, <2>2, <2>3, <2>4, <2>5 DEF UpdateFlushTimeAfterWork
<1>2. PICK l \in Ls : pc' = [pc EXCEPT ![Manager] = l]
  BY <1>1
<1>3. l \in ManagerLabels
  BY DEF ManagerLabels
<1>4. TypeOK'
  <2>1. (\A u \in Callers : pc'[u] \in Labels) /\ pc'[Manager] \in ManagerLabels
    BY <1>2, <1>3, Known, ParameterFacts DEF TypeOK
  <2>2. QED
    BY <1>1, <2>1, Known DEF TypeOK, flags, queue, manager, append, history
<1>5. UNCHANGED <<QueuedBytes, Current, ReadyList, hand, batch, dataLock, logged, written>>
  BY <1>1 DEF queue, history
<1>6. l \notin {"take", "write", "publish", "swap", "enqueue", "drain"}
  OBVIOUS
<1>7. QED
  BY <1>1, <1>2, <1>3, <1>4, <1>5, <1>6, ManagerMoves
-----------------------------------------------------------------------------
(* The steps that move records. *)

LEMMA Numbers ==
  ASSUME IndInv
  PROVE  /\ Exact /\ Uncounted \in {0, 1}
         /\ QueuedBytes \in Nat /\ Current \in Nat /\ logged \in Nat /\ written \in Nat
         /\ loops \in Nat /\ ReadyRecords \in Nat /\ HandRecords \in Nat /\ BatchRecords \in Nat
<1>1. TypeOK
  BY Known
<1>2. Exact
  BY DEF Exact, IndInv, QueuedExact
<1>3. Uncounted \in {0, 1}
  BY DEF Uncounted
<1>4. QueuedBytes \in Nat /\ Current \in Nat /\ logged \in Nat /\ written \in Nat /\ loops \in Nat
  BY <1>1 DEF TypeOK
<1>5. QED
  BY <1>1, <1>2, <1>3, <1>4, RecordsAreNumbers

(* A hand takes a buffer. *)
LEMMA HandTakes ==
  ASSUME IndInv, NEW t \in Threads, pc[t] # "enqueue", NEW n \in 0..BufferSize, NEW first,
         hand' = [hand EXCEPT ![t] = [size |-> n, first |-> first]]
  PROVE  HandRecords' = HandRecords + n
<1> DEFINE f == [u \in Threads |-> hand[u].size]
           g == [u \in Threads |-> hand'[u].size]
<1>1. hand \in [Threads -> Buffers] /\ hand[t] = NoBuffer
  BY Known DEF TypeOK, IndInv, Bounded
<1>2. \A u \in Threads : hand'[u] = IF u = t THEN [size |-> n, first |-> first] ELSE hand[u]
  BY <1>1
<1>3. /\ DOMAIN f = Threads /\ DOMAIN g = Threads /\ IsFiniteSet(Threads)
      /\ f[t] = 0 /\ g[t] = n /\ \A u \in Threads \ {t} : g[u] = f[u]
  BY <1>1, <1>2, ParameterFacts DEF NoBuffer
<1>4. HandRecords = Records(f) /\ HandRecords' = Records(g)
  BY DEF HandRecords
<1> HIDE DEF f, g
<1>5. QED
  BY <1>3, <1>4, RecordsGrow

(* A hand gives its buffer up. *)
LEMMA HandGives ==
  ASSUME IndInv, NEW t \in Threads, hand' = [hand EXCEPT ![t] = NoBuffer]
  PROVE  HandRecords = HandRecords' + hand[t].size /\ HandRecords' \in Nat
<1> DEFINE f == [u \in Threads |-> hand'[u].size]
           g == [u \in Threads |-> hand[u].size]
<1>1. hand \in [Threads -> Buffers] /\ hand[t].size \in 0..BufferSize
  BY Known, ParameterFacts DEF TypeOK, IndInv, Bounded, Buffers
<1>2. \A u \in Threads : hand'[u] = IF u = t THEN NoBuffer ELSE hand[u]
  BY <1>1
<1>3. /\ DOMAIN f = Threads /\ DOMAIN g = Threads /\ IsFiniteSet(Threads)
      /\ f[t] = 0 /\ g[t] = hand[t].size /\ \A u \in Threads \ {t} : g[u] = f[u]
  BY <1>1, <1>2, ParameterFacts DEF NoBuffer
<1>4. HandRecords' = Records(f) /\ HandRecords = Records(g)
  BY DEF HandRecords
<1> HIDE DEF f, g
<1>5. Records(f) \in Nat
  BY <1>3, CellsFinite
<1>6. Records(g) = Records(f) + hand[t].size
  BY <1>1, <1>3, RecordsGrow
<1>7. QED
  BY <1>4, <1>5, <1>6

(* A buffer is queued. *)
LEMMA ReadyTakes ==
  ASSUME IndInv, NEW b \in Buffers, b.size <= BufferSize, ReadyList' = Append(ReadyList, b)
  PROVE  /\ ReadyRecords' = ReadyRecords + b.size
         /\ ReadyList' \in Seq(Buffers)
         /\ \A i \in 1..Len(ReadyList') : ReadyList'[i].size <= BufferSize
<1> DEFINE f == [i \in DOMAIN ReadyList |-> ReadyList[i].size]
           g == [i \in DOMAIN ReadyList' |-> ReadyList'[i].size]
           n == Len(ReadyList)
<1>1. ReadyList \in Seq(Buffers) /\ b.size \in 0..BufferSize
  BY Known, ParameterFacts DEF TypeOK, Buffers
<1>2. /\ n \in Nat /\ DOMAIN ReadyList = 1..n
      /\ ReadyList' \in Seq(Buffers) /\ Len(ReadyList') = n + 1 /\ DOMAIN ReadyList' = 1..(n + 1)
      /\ \A i \in 1..n : ReadyList'[i] = ReadyList[i]
      /\ ReadyList'[n + 1] = b
  BY <1>1, AppendProperties, LenProperties
<1> HIDE DEF n
<1>3. /\ DOMAIN f = 1..n /\ DOMAIN g = (DOMAIN f) \cup {n + 1} /\ n + 1 \notin DOMAIN f
      /\ g[n + 1] = b.size /\ \A i \in (DOMAIN f) \ {n + 1} : g[i] = f[i]
  BY <1>2
<1>4. IsFiniteSet(DOMAIN f)
  BY <1>2, <1>3, FS_Interval
<1>5. \A i \in 1..Len(ReadyList') : ReadyList'[i].size <= BufferSize
  <2>1. \A i \in 1..n : ReadyList[i].size <= BufferSize
    BY DEF IndInv, Bounded, n
  <2>2. QED
    BY <1>2, <2>1
<1>6. ReadyRecords = Records(f) /\ ReadyRecords' = Records(g)
  BY DEF ReadyRecords
<1> DEFINE d == n + 1
           k == b.size
<1>7. Records(g) = Records(f) + k
  <2>1. /\ DOMAIN g = (DOMAIN f) \cup {d}
        /\ d \in DOMAIN f => f[d] = 0
        /\ g[d] = k
        /\ \A e \in (DOMAIN f) \ {d} : g[e] = f[e]
    BY <1>3
  <2>2. k \in 0..BufferSize
    BY <1>1
  <2> HIDE DEF f, g, d, k
  <2>3. QED
    BY <1>4, <2>1, <2>2, RecordsGrow
<1>8. QED
  BY <1>2, <1>5, <1>6, <1>7

LEMMA AppendFitsPreserves ==
  ASSUME IndInv, NEW c \in Callers, AppendFits(c)
  PROVE  IndInv'
<1>1. /\ pc[c] = "append" /\ dataLock = c /\ dataLock' = dataLock
      /\ pc' = [pc EXCEPT ![c] = "count"]
      /\ Current < BufferSize /\ Current' = Current + 1 /\ logged' = logged + 1
      /\ UNCHANGED <<QueuedBytes, ReadyList, hand, batch, loops, draining, written>>
  BY Known DEF AppendFits, Goto, worker, Holding
<1>2. /\ DOMAIN pc = Threads /\ c \in Threads /\ Manager \in Threads /\ c # Manager /\ c # None
      /\ \A u \in Callers : u \in Threads /\ u # Manager
  BY Known, ParameterFacts
<1>3. /\ DOMAIN pc' = Threads
      /\ \A u \in Threads : pc'[u] = IF u = c THEN "count" ELSE pc[u]
      /\ \A u \in Callers : pc'[u] = IF u = c THEN "count" ELSE pc[u]
      /\ pc'[Manager] = pc[Manager]
  BY <1>1, <1>2
<1>4. TypeOK'
  <2>1. Current' \in Nat /\ logged' \in Nat /\ firstData' \in BOOLEAN
    BY <1>1, Numbers DEF AppendFits
  <2>2. stamp' \in {NoTime} \cup Deadlines /\ CurrentFirst' \in {NoTime} \cup Deadlines
    BY Known DEF AppendFits, TypeOK
  <2>3. (\A u \in Callers : pc'[u] \in Labels) /\ pc'[Manager] \in ManagerLabels
    BY <1>3, Known DEF TypeOK, Labels
  <2>4. QED
    BY <2>1, <2>2, <2>3, Known DEF AppendFits, TypeOK, flags, manager, worker
<1>5. QueuedExact'
  <2>1. Uncounted = 0 /\ Uncounted' = 1
    BY <1>1, <1>2, <1>3 DEF Uncounted
  <2>2. ReadyRecords' = ReadyRecords /\ HandRecords' = HandRecords /\ BatchRecords' = BatchRecords
    BY <1>1 DEF ReadyRecords, HandRecords, BatchRecords
  <2>3. Exact'
    BY <1>1, <2>1, <2>2, Numbers DEF Exact
  <2>4. QED
    BY <1>4, <2>3 DEF QueuedExact, Exact
<1>6. Locked'
  BY <1>1, <1>3 DEF IndInv, Locked, Holding
<1>7. Bounded'
  <2>1. Current' <= BufferSize
    BY <1>1, Numbers, ParameterFacts
  <2>2. QED
    BY <1>1, <1>2, <1>3, <2>1 DEF IndInv, Bounded
<1>8. InProgress'
  <2>1. Current' >= 1
    BY <1>1, Numbers
  <2>2. QED
    BY <1>1, <1>3, <2>1 DEF IndInv, InProgress
<1>9. QED
  BY <1>5, <1>6, <1>7, <1>8 DEF IndInv

LEMMA AppendFullPreserves ==
  ASSUME IndInv, NEW c \in Callers, AppendFull(c)
  PROVE  IndInv'
<1>1. /\ pc[c] = "append" /\ dataLock = c /\ dataLock' = dataLock
      /\ pc' = [pc EXCEPT ![c] = "enqueue"]
      /\ Current = BufferSize /\ Current' = 1 /\ logged' = logged + 1
      /\ hand' = [hand EXCEPT ![c] = [size |-> Current, first |-> CurrentFirst]]
      /\ UNCHANGED <<QueuedBytes, ReadyList, batch, loops, draining, written>>
  BY Known DEF AppendFull, Goto, worker, Holding
<1>2. /\ DOMAIN pc = Threads /\ c \in Threads /\ Manager \in Threads /\ c # Manager /\ c # None
      /\ \A u \in Callers : u \in Threads /\ u # Manager
  BY Known, ParameterFacts
<1>3. /\ DOMAIN pc' = Threads
      /\ \A u \in Threads : pc'[u] = IF u = c THEN "enqueue" ELSE pc[u]
      /\ \A u \in Callers : pc'[u] = IF u = c THEN "enqueue" ELSE pc[u]
      /\ pc'[Manager] = pc[Manager]
  BY <1>1, <1>2
<1>b. /\ [size |-> Current, first |-> CurrentFirst] \in Buffers
      /\ hand \in [Threads -> Buffers]
      /\ \A u \in Threads :
           hand'[u] = IF u = c THEN [size |-> Current, first |-> CurrentFirst] ELSE hand[u]
  BY <1>1, Known DEF TypeOK, Buffers
<1>4. TypeOK'
  <2>1. Current' \in Nat /\ logged' \in Nat /\ firstData' \in BOOLEAN
    BY <1>1, Numbers DEF AppendFull
  <2>2. stamp' \in {NoTime} \cup Deadlines /\ CurrentFirst' \in {NoTime} \cup Deadlines
    BY Known DEF AppendFull, TypeOK
  <2>3. (\A u \in Callers : pc'[u] \in Labels) /\ pc'[Manager] \in ManagerLabels
    BY <1>3, Known DEF TypeOK, Labels
  <2>4. hand' \in [Threads -> Buffers]
    BY <1>1, <1>b
  <2>5. QED
    BY <2>1, <2>2, <2>3, <2>4, Known DEF AppendFull, TypeOK, flags, manager, worker
<1>5. QueuedExact'
  <2>1. Uncounted = 0 /\ Uncounted' = 1
    BY <1>1, <1>2, <1>3 DEF Uncounted
  <2>2. ReadyRecords' = ReadyRecords /\ BatchRecords' = BatchRecords
    BY <1>1 DEF ReadyRecords, BatchRecords
  <2>3. HandRecords' = HandRecords + Current
    <3>1. Current \in 0..BufferSize
      BY <1>1, ParameterFacts
    <3>2. QED
      BY <1>1, <1>2, <3>1, HandTakes
  <2>4. Exact'
    BY <1>1, <2>1, <2>2, <2>3, Numbers DEF Exact
  <2>5. QED
    BY <1>4, <2>4 DEF QueuedExact, Exact
<1>6. Locked'
  BY <1>1, <1>3 DEF IndInv, Locked, Holding
<1>7. Bounded'
  <2>1. Current' <= BufferSize /\ Current <= BufferSize
    BY <1>1, ParameterFacts
  <2>2. \A u \in Threads : hand'[u].size <= BufferSize /\ (pc'[u] # "enqueue" => hand'[u] = NoBuffer)
    BY <1>3, <1>b, <2>1 DEF IndInv, Bounded
  <2>3. QED
    BY <1>1, <1>2, <1>3, <2>1, <2>2 DEF IndInv, Bounded
<1>8. InProgress'
  BY <1>1, <1>3 DEF IndInv, InProgress
<1>9. QED
  BY <1>5, <1>6, <1>7, <1>8 DEF IndInv

LEMMA CountQueuedPreserves ==
  ASSUME IndInv, NEW c \in Callers, CountQueued(c)
  PROVE  IndInv'
<1>1. /\ pc[c] = "count" /\ dataLock = c /\ dataLock' = dataLock
      /\ pc' = [pc EXCEPT ![c] = "decide"] /\ QueuedBytes' = QueuedBytes + 1
      /\ UNCHANGED <<Current, ReadyList, hand, batch, loops, draining, logged, written>>
  BY Known DEF CountQueued, Goto, worker, Holding, queue, history
<1>2. /\ DOMAIN pc = Threads /\ c \in Threads /\ Manager \in Threads /\ c # Manager /\ c # None
      /\ \A u \in Callers : u \in Threads /\ u # Manager
  BY Known, ParameterFacts
<1>3. /\ DOMAIN pc' = Threads
      /\ \A u \in Threads : pc'[u] = IF u = c THEN "decide" ELSE pc[u]
      /\ \A u \in Callers : pc'[u] = IF u = c THEN "decide" ELSE pc[u]
      /\ pc'[Manager] = pc[Manager]
  BY <1>1, <1>2
<1>4. TypeOK'
  <2>1. QueuedBytes' \in Nat /\ pressure' \in BOOLEAN
    BY <1>1, Numbers DEF CountQueued
  <2>2. (\A u \in Callers : pc'[u] \in Labels) /\ pc'[Manager] \in ManagerLabels
    BY <1>3, Known DEF TypeOK, Labels
  <2>3. QED
    BY <2>1, <2>2, Known DEF CountQueued, TypeOK, flags, queue, manager, worker, history
<1>5. QueuedExact'
  <2>1. Uncounted = 1 /\ Uncounted' = 0
    BY <1>1, <1>2, <1>3 DEF Uncounted
  <2>2. ReadyRecords' = ReadyRecords /\ HandRecords' = HandRecords /\ BatchRecords' = BatchRecords
    BY <1>1 DEF ReadyRecords, HandRecords, BatchRecords
  <2>3. Exact'
    BY <1>1, <2>1, <2>2, Numbers DEF Exact
  <2>4. QED
    BY <1>4, <2>3 DEF QueuedExact, Exact
<1>6. Locked'
  BY <1>1, <1>3 DEF IndInv, Locked, Holding
<1>7. Bounded'
  BY <1>1, <1>2, <1>3 DEF IndInv, Bounded
<1>8. InProgress'
  BY <1>1, <1>3 DEF IndInv, InProgress
<1>9. QED
  BY <1>5, <1>6, <1>7, <1>8 DEF IndInv

(* SwapCurrent of a caller or of the manager. *)
LEMMA SwapCurrentPreserves ==
  ASSUME IndInv, NEW t \in Threads, SwapCurrent(t)
  PROVE  IndInv'
<1> DEFINE b == [size |-> Current, first |-> CurrentFirst]
<1>1. /\ pc[t] = "swap" /\ dataLock = None /\ dataLock' = dataLock
      /\ pc' = [pc EXCEPT ![t] = "enqueue"]
      /\ Current' = 0 /\ CurrentFirst' = NoTime /\ hand' = [hand EXCEPT ![t] = b]
      /\ UNCHANGED <<FlushTime, flags, QueuedBytes, ReadyList, manager, when, append, worker, history>>
  BY DEF SwapCurrent, Goto
<1>2. /\ DOMAIN pc = Threads /\ Manager \in Threads
      /\ \A u \in Callers : u \in Threads /\ u # Manager /\ u # None
  BY Known, ParameterFacts
<1>3. /\ DOMAIN pc' = Threads
      /\ \A u \in Threads : pc'[u] = IF u = t THEN "enqueue" ELSE pc[u]
  BY <1>1, <1>2
<1>b. /\ b \in Buffers /\ Current \in 0..BufferSize /\ Current \in Nat
      /\ hand \in [Threads -> Buffers]
      /\ \A u \in Threads : hand'[u] = IF u = t THEN b ELSE hand[u]
  BY <1>1, Known, ParameterFacts DEF TypeOK, Buffers, IndInv, Bounded
<1>4. TypeOK'
  <2>1. Current' \in Nat /\ CurrentFirst' \in {NoTime} \cup Deadlines
    BY <1>1
  <2>2. (\A u \in Callers : pc'[u] \in Labels) /\ pc'[Manager] \in ManagerLabels
    BY <1>2, <1>3, Known DEF TypeOK, Labels, ManagerLabels
  <2>3. hand' \in [Threads -> Buffers]
    BY <1>1, <1>b
  <2>4. QED
    BY <1>1, <2>1, <2>2, <2>3, Known DEF TypeOK, flags, manager, append, worker, history
<1>5. QueuedExact'
  <2>1. Uncounted = 0 /\ Uncounted' = 0
    BY <1>1 DEF Uncounted
  <2>2. ReadyRecords' = ReadyRecords /\ BatchRecords' = BatchRecords
    BY <1>1 DEF ReadyRecords, BatchRecords, worker
  <2>3. HandRecords' = HandRecords + Current
    BY <1>1, <1>b, HandTakes
  <2>4. Exact'
    BY <1>1, <2>1, <2>2, <2>3, Numbers DEF Exact, history
  <2>5. QED
    BY <1>4, <2>4 DEF QueuedExact, Exact
<1>6. Locked'
  <2>1. \A u \in Callers : pc'[u] \in Holding \ {"enqueue", "request", "notify"} =>
                             pc[u] \in Holding \ {"enqueue", "request", "notify"}
    BY <1>2, <1>3 DEF Holding
  <2>2. QED
    BY <1>1, <1>2, <2>1 DEF IndInv, Locked
<1>7. Bounded'
  <2>1. Current' <= BufferSize
    BY <1>1, ParameterFacts
  <2>2. \A u \in Threads : hand'[u].size <= BufferSize /\ (pc'[u] # "enqueue" => hand'[u] = NoBuffer)
    BY <1>3, <1>b DEF IndInv, Bounded
  <2>3. batch = <<>>  \/ pc[Manager] = "write"
    BY DEF IndInv, Bounded
  <2>4. batch' # <<>> => pc'[Manager] = "write"
    BY <1>1, <1>2, <1>3, <2>3 DEF worker
  <2>5. QED
    BY <1>1, <1>3, <2>1, <2>2, <2>4 DEF IndInv, Bounded, worker
<1>8. InProgress'
  <2>1. pc'[Manager] = pc[Manager] \/ (pc[Manager] = "swap" /\ pc'[Manager] = "enqueue")
    BY <1>1, <1>2, <1>3
  <2>2. QED
    BY <1>1, <1>2, <2>1 DEF IndInv, InProgress, worker
<1>9. QED
  BY <1>5, <1>6, <1>7, <1>8 DEF IndInv

(* EnqueueReady of a caller or of the manager. *)
LEMMA EnqueueReadyPreserves ==
  ASSUME IndInv, NEW t \in Threads, EnqueueReady(t)
  PROVE  IndInv'
<1>1. /\ pc[t] = "enqueue" /\ dataLock' = dataLock
      /\ ReadyList' = Append(ReadyList, hand[t]) /\ hand' = [hand EXCEPT ![t] = NoBuffer]
      /\ UNCHANGED <<FlushTime, flags, QueuedBytes, Current, CurrentFirst, manager,
                     when, append, batch, draining, oldest, timer, history>>
  BY DEF EnqueueReady
<1>2. /\ DOMAIN pc = Threads /\ Manager \in Threads
      /\ \A u \in Callers : u \in Threads /\ u # Manager /\ u # None
  BY Known, ParameterFacts
<1>3. \E l \in {"count", "publish", "drain", "take", "update"} :
        /\ pc' = [pc EXCEPT ![t] = l]
        /\ t # Manager => /\ l = IF dataLock = t THEN "count" ELSE "publish"
                          /\ UNCHANGED <<forceFlush, loops>>
        /\ t = Manager => /\ l \in {"drain", "take", "update"}
                          /\ l = "drain" => draining
                          /\ l = "take" => draining \/ loops' >= 1
                          /\ loops' \in Nat /\ forceFlush' \in BOOLEAN
  <2>1. CASE t # Manager
    BY <1>1, <2>1 DEF EnqueueReady, Published, Goto
  <2>2. CASE t = Manager /\ draining
    BY <2>2, Known DEF EnqueueReady, Published, Goto, TypeOK
  <2>3. CASE t = Manager /\ ~draining
    <3>1. loops \in Nat /\ loops >= 1
      BY <1>1, <2>3, Numbers DEF IndInv, InProgress
    <3>2. forceFlush' = FALSE /\ loops' = loops - 1
          /\ pc' = [pc EXCEPT ![Manager] = IF loops > 1 THEN "take" ELSE "update"]
      BY <2>3 DEF EnqueueReady, Published, NextLoop, Goto
    <3>3. loops' \in Nat /\ (loops > 1 => loops' >= 1)
      BY <3>1, <3>2
    <3>4. QED
      BY <2>3, <3>2, <3>3
  <2>4. QED
    BY <2>1, <2>2, <2>3
<1>4. PICK l \in {"count", "publish", "drain", "take", "update"} :
        /\ pc' = [pc EXCEPT ![t] = l]
        /\ t # Manager => /\ l = IF dataLock = t THEN "count" ELSE "publish"
                          /\ UNCHANGED <<forceFlush, loops>>
        /\ t = Manager => /\ l \in {"drain", "take", "update"}
                          /\ l = "drain" => draining
                          /\ l = "take" => draining \/ loops' >= 1
                          /\ loops' \in Nat /\ forceFlush' \in BOOLEAN
  BY <1>3
<1>5. /\ DOMAIN pc' = Threads
      /\ \A u \in Threads : pc'[u] = IF u = t THEN l ELSE pc[u]
  BY <1>2, <1>4
<1>b. /\ hand[t] \in Buffers /\ hand[t].size <= BufferSize /\ hand[t].size \in Nat
      /\ NoBuffer \in Buffers /\ NoBuffer.size = 0 /\ hand \in [Threads -> Buffers]
      /\ \A u \in Threads : hand'[u] = IF u = t THEN NoBuffer ELSE hand[u]
  BY <1>1, Known DEF TypeOK, Buffers, IndInv, Bounded, NoBuffer
<1>r. /\ ReadyRecords' = ReadyRecords + hand[t].size
      /\ ReadyList' \in Seq(Buffers)
      /\ \A i \in 1..Len(ReadyList') : ReadyList'[i].size <= BufferSize
  BY <1>1, <1>b, ReadyTakes
<1>6. TypeOK'
  <2>1. (\A u \in Callers : pc'[u] \in Labels) /\ pc'[Manager] \in ManagerLabels
    BY <1>2, <1>4, <1>5, Known DEF TypeOK, Labels, ManagerLabels
  <2>2. hand' \in [Threads -> Buffers]
    BY <1>1, <1>b
  <2>3. loops' \in Nat /\ forceFlush' \in BOOLEAN
    BY <1>4, Known DEF TypeOK
  <2>4. QED
    BY <1>1, <1>r, <2>1, <2>2, <2>3, Known DEF TypeOK, flags, manager, append, history
<1>7. QueuedExact'
  <2>1. Uncounted' = Uncounted
    <3>1. dataLock # None => dataLock \in Callers
      BY Known DEF TypeOK
    <3>2. CASE dataLock # None /\ dataLock = t
      <4>1. pc'[dataLock] = "count" /\ pc[dataLock] = "enqueue"
        BY <1>1, <1>2, <1>4, <1>5, <3>1, <3>2
      <4>2. QED
        BY <1>1, <4>1 DEF Uncounted
    <3>3. CASE dataLock # None /\ dataLock # t
      <4>1. pc'[dataLock] = pc[dataLock]
        BY <1>2, <1>5, <3>1, <3>3
      <4>2. QED
        BY <1>1, <4>1 DEF Uncounted
    <3>4. CASE dataLock = None
      BY <1>1, <3>4 DEF Uncounted
    <3>5. QED
      BY <3>2, <3>3, <3>4
  <2>2. BatchRecords' = BatchRecords
    BY <1>1 DEF BatchRecords
  <2>3. HandRecords = HandRecords' + hand[t].size /\ HandRecords' \in Nat
    BY <1>1, HandGives
  <2>4. /\ QueuedBytes' = QueuedBytes /\ Current' = Current
        /\ logged' = logged /\ written' = written
    BY <1>1 DEF history
  <2>s. hand[t].size \in Nat /\ ReadyRecords' = ReadyRecords + hand[t].size
    BY <1>b, <1>r
  <2>5. Exact'
    <3> DEFINE n == hand[t].size
    <3>1. n \in Nat /\ ReadyRecords' = ReadyRecords + n /\ HandRecords = HandRecords' + n
      BY <2>s, <2>3
    <3> HIDE DEF n
    <3>2. QED
      BY <2>1, <2>2, <2>3, <2>4, <3>1, Numbers DEF Exact
  <2>6. QED
    BY <1>6, <2>5 DEF QueuedExact, Exact
<1>8. Locked'
  <2>1. \A u \in Callers : pc'[u] = IF u = t THEN IF dataLock = t THEN "count" ELSE "publish"
                                    ELSE pc[u]
    BY <1>2, <1>4, <1>5
  <2>2. QED
    BY <1>1, <2>1 DEF IndInv, Locked, Holding
<1>9. Bounded'
  <2>1. \A u \in Threads : hand'[u].size <= BufferSize /\ (pc'[u] # "enqueue" => hand'[u] = NoBuffer)
    BY <1>5, <1>b, ParameterFacts DEF IndInv, Bounded
  <2>2. batch # <<>> => pc[Manager] = "write" /\ t # Manager
    BY <1>1 DEF IndInv, Bounded
  <2>3. batch' # <<>> => pc'[Manager] = "write"
    BY <1>1, <1>2, <1>5, <2>2
  <2>4. QED
    BY <1>1, <1>5, <1>r, <2>1, <2>3 DEF IndInv, Bounded
<1>10. InProgress'
  <2>1. CASE t = Manager
    <3>1. \A u \in Callers : pc'[u] = pc[u]
      BY <1>2, <1>5, <2>1
    <3>2. /\ pc'[Manager] \in {"take", "write", "publish", "swap", "enqueue"} /\ ~draining => loops' >= 1
          /\ pc'[Manager] = "drain" => draining
      BY <1>2, <1>4, <1>5, <2>1
    <3>3. QED
      BY <1>1, <3>1, <3>2 DEF IndInv, InProgress
  <2>2. CASE t # Manager
    <3>1. pc'[Manager] = pc[Manager] /\ loops' = loops
      BY <1>2, <1>4, <1>5, <2>2
    <3>2. \A u \in Callers : dataLock = u /\ pc'[u] \in {"count", "enqueue"} =>
                               pc[u] \in {"count", "enqueue"}
      BY <1>1, <1>2, <1>5
    <3>3. QED
      BY <1>1, <3>1, <3>2 DEF IndInv, InProgress
  <2>3. QED
    BY <2>1, <2>2
<1>11. QED
  BY <1>7, <1>8, <1>9, <1>10 DEF IndInv

LEMMA TakeReadyPreserves ==
  ASSUME IndInv, TakeReady
  PROVE  IndInv'
<1>1. /\ pc[Manager] = "take" /\ pc' = [pc EXCEPT ![Manager] = "write"]
      /\ batch' = [i \in 1..Len(ReadyList) |-> ReadyList[i].size] /\ ReadyList' = <<>>
      /\ UNCHANGED <<FlushTime, flags, QueuedBytes, Current, CurrentFirst, manager, dataLock,
                     hand, when, append, forceFlush, loops, draining, oldest, timer, history>>
  BY DEF TakeReady, Goto
<1>2. /\ DOMAIN pc = Threads /\ Manager \in Threads
      /\ dataLock \in Callers \cup {None} /\ None \notin Callers
      /\ \A u \in Callers : u \in Threads /\ u # Manager
  BY Known, ParameterFacts DEF TypeOK
<1>3. /\ DOMAIN pc' = Threads /\ pc'[Manager] = "write"
      /\ \A u \in Threads : pc'[u] = IF u = Manager THEN "write" ELSE pc[u]
      /\ \A u \in Callers : pc'[u] = pc[u]
  BY <1>1, <1>2
<1>4. /\ ReadyList \in Seq(Buffers) /\ Len(ReadyList) \in Nat
      /\ DOMAIN ReadyList = 1..Len(ReadyList)
      /\ \A i \in 1..Len(ReadyList) : ReadyList[i].size \in Nat /\ ReadyList[i].size <= BufferSize
  <2>1. ReadyList \in Seq(Buffers) /\ Len(ReadyList) \in Nat /\ DOMAIN ReadyList = 1..Len(ReadyList)
    BY Known, LenProperties DEF TypeOK
  <2>2. \A i \in 1..Len(ReadyList) : ReadyList[i] \in Buffers
    BY <2>1, ElementOfSeq
  <2>3. QED
    BY <2>1, <2>2 DEF Buffers, IndInv, Bounded
<1>5. /\ batch' \in Seq(Nat) /\ Len(batch') = Len(ReadyList) /\ DOMAIN batch' = DOMAIN ReadyList
      /\ \A i \in 1..Len(batch') : batch'[i] <= BufferSize
  <2>1. batch' \in [1..Len(ReadyList) -> Nat]
    BY <1>1, <1>4
  <2>2. batch' \in Seq(Nat)
    BY <1>4, <2>1, SeqDef
  <2>3. DOMAIN batch' = 1..Len(ReadyList) /\ DOMAIN batch' = 1..Len(batch') /\ Len(batch') \in Nat
    BY <2>1, <2>2, LenProperties
  <2>4. Len(batch') = Len(ReadyList)
    BY <1>4, <2>2, <2>3, LenProperties
  <2>5. QED
    BY <1>1, <1>4, <2>2, <2>3, <2>4
<1>6. TypeOK'
  <2>1. (\A u \in Callers : pc'[u] \in Labels) /\ pc'[Manager] \in ManagerLabels
    BY <1>3, Known DEF TypeOK, ManagerLabels
  <2>2. ReadyList' \in Seq(Buffers)
    BY <1>1, EmptySeq
  <2>3. QED
    BY <1>1, <1>5, <2>1, <2>2, Known DEF TypeOK, flags, manager, append, history
<1>7. QueuedExact'
  <2>1. Uncounted' = Uncounted
    BY <1>1, <1>2, <1>3 DEF Uncounted
  <2>2. HandRecords' = HandRecords
    BY <1>1 DEF HandRecords
  <2>3. BatchRecords' = ReadyRecords
    <3>1. batch' = [i \in DOMAIN ReadyList |-> ReadyList[i].size]
      BY <1>1, <1>4
    <3>2. QED
      BY <3>1 DEF BatchRecords, ReadyRecords
  <2>4. BatchRecords = 0
    <3>1. batch = <<>>
      BY <1>1 DEF IndInv, Bounded
    <3>2. \A i \in DOMAIN batch : batch[i] = 0
      BY <3>1, EmptySeq
    <3>3. QED
      BY <3>2, RecordsOfNone DEF BatchRecords
  <2>5. ReadyRecords' = 0
    <3> DEFINE f == [i \in DOMAIN ReadyList' |-> ReadyList'[i].size]
    <3>1. DOMAIN f = {}
      BY <1>1, EmptySeq
    <3>2. ReadyRecords' = Records(f)
      BY DEF ReadyRecords
    <3> HIDE DEF f
    <3>3. QED
      BY <3>1, <3>2, RecordsOfNone
  <2>6. /\ QueuedBytes' = QueuedBytes /\ Current' = Current
        /\ logged' = logged /\ written' = written
    BY <1>1 DEF history
  <2>7. Exact'
    BY <2>1, <2>2, <2>3, <2>4, <2>5, <2>6, Numbers DEF Exact
  <2>8. QED
    BY <1>6, <2>7 DEF QueuedExact, Exact
<1>8. Locked'
  BY <1>1, <1>3 DEF IndInv, Locked
<1>9. Bounded'
  <2>1. \A i \in 1..Len(ReadyList') : ReadyList'[i].size <= BufferSize
    BY <1>1, EmptySeq
  <2>2. \A u \in Threads : hand'[u].size <= BufferSize /\ (pc'[u] # "enqueue" => hand'[u] = NoBuffer)
    BY <1>1, <1>3 DEF IndInv, Bounded
  <2>3. QED
    BY <1>1, <1>3, <1>5, <2>1, <2>2 DEF IndInv, Bounded
<1>10. InProgress'
  BY <1>1, <1>3 DEF IndInv, InProgress
<1>11. QED
  BY <1>7, <1>8, <1>9, <1>10 DEF IndInv

(* What is written was counted: the counter does not wrap below zero. *)
LEMMA WriteReadyDataPreserves ==
  ASSUME IndInv, WriteReadyData
  PROVE  IndInv'
<1>1. /\ pc[Manager] = "write" /\ batch' = <<>>
      /\ written' = written + BatchRecords /\ QueuedBytes' = QueuedBytes - BatchRecords
      /\ UNCHANGED <<FlushTime, flags, queue, manager, dataLock, hand, when, append,
                     draining, oldest, timer, logged, dropped>>
  BY DEF WriteReadyData
<1>2. /\ DOMAIN pc = Threads /\ Manager \in Threads
      /\ dataLock \in Callers \cup {None} /\ None \notin Callers
      /\ \A u \in Callers : u \in Threads /\ u # Manager
  BY Known, ParameterFacts DEF TypeOK
<1>3. \E l \in {"drain", "take", "update"} :
        /\ pc' = [pc EXCEPT ![Manager] = l]
        /\ l = "drain" => draining
        /\ l = "take" => draining \/ loops' >= 1
        /\ loops' \in Nat /\ forceFlush' \in BOOLEAN
  <2>1. CASE draining
    BY <2>1, Known DEF WriteReadyData, Goto, TypeOK
  <2>2. CASE ~draining
    <3>1. loops \in Nat /\ loops >= 1
      BY <1>1, <2>2, Numbers DEF IndInv, InProgress
    <3>2. forceFlush' = FALSE /\ loops' = loops - 1
          /\ pc' = [pc EXCEPT ![Manager] = IF loops > 1 THEN "take" ELSE "update"]
      BY <2>2 DEF WriteReadyData, NextLoop, Goto
    <3>3. loops' \in Nat /\ (loops > 1 => loops' >= 1)
      BY <3>1, <3>2
    <3>4. QED
      BY <3>2, <3>3
  <2>3. QED
    BY <2>1, <2>2
<1>4. PICK l \in {"drain", "take", "update"} :
        /\ pc' = [pc EXCEPT ![Manager] = l]
        /\ l = "drain" => draining
        /\ l = "take" => draining \/ loops' >= 1
        /\ loops' \in Nat /\ forceFlush' \in BOOLEAN
  BY <1>3
<1>5. /\ DOMAIN pc' = Threads /\ pc'[Manager] = l
      /\ \A u \in Threads : pc'[u] = IF u = Manager THEN l ELSE pc[u]
      /\ \A u \in Callers : pc'[u] = pc[u]
  BY <1>2, <1>4
<1>6. Uncounted' = Uncounted
  BY <1>1, <1>2, <1>5 DEF Uncounted
<1>7. /\ ReadyRecords' = ReadyRecords /\ HandRecords' = HandRecords /\ Current' = Current
      /\ logged' = logged
  BY <1>1 DEF ReadyRecords, HandRecords, queue
<1>8. BatchRecords' = 0
  <2>1. \A i \in DOMAIN batch' : batch'[i] = 0
    BY <1>1, EmptySeq
  <2>2. QED
    BY <2>1, RecordsOfNone DEF BatchRecords
<1>9. Exact'
  <2>1. /\ QueuedBytes \in Nat /\ Uncounted \in Nat /\ BatchRecords \in Nat /\ Current \in Nat
        /\ ReadyRecords \in Nat /\ HandRecords \in Nat /\ logged \in Nat /\ written \in Nat
    BY Numbers
  <2>2. /\ QueuedBytes + Uncounted = Current + ReadyRecords + HandRecords + BatchRecords
        /\ QueuedBytes + Uncounted = logged - written
    BY Numbers DEF Exact
  <2>3. /\ QueuedBytes' = QueuedBytes - BatchRecords /\ written' = written + BatchRecords
        /\ Uncounted' = Uncounted /\ Current' = Current /\ logged' = logged
        /\ ReadyRecords' = ReadyRecords /\ HandRecords' = HandRecords /\ BatchRecords' = 0
    BY <1>1, <1>6, <1>7, <1>8
  <2>4. /\ QueuedBytes' + Uncounted' = Current' + ReadyRecords' + HandRecords' + BatchRecords'
        /\ QueuedBytes' + Uncounted' = logged' - written'
    BY <2>1, <2>2, <2>3
  <2>5. QED
    BY <2>4 DEF Exact
<1>10. QueuedBytes' \in Nat /\ written' \in Nat
  <2>1. Uncounted <= Current
    <3>1. Uncounted = 1 => Current >= 1
      BY <1>2 DEF Uncounted, IndInv, InProgress
    <3>2. QED
      BY <3>1, Numbers
  <2>2. BatchRecords <= QueuedBytes
    BY <2>1, Numbers DEF Exact
  <2>3. QED
    BY <1>1, <2>2, Numbers
<1>11. TypeOK'
  <2>1. (\A u \in Callers : pc'[u] \in Labels) /\ pc'[Manager] \in ManagerLabels
    BY <1>5, Known DEF TypeOK, ManagerLabels
  <2>2. batch' \in Seq(Nat)
    BY <1>1, EmptySeq
  <2>3. QED
    BY <1>1, <1>4, <1>10, <2>1, <2>2, Known DEF TypeOK, flags, queue, manager, append
<1>12. QueuedExact'
  BY <1>9, <1>11 DEF QueuedExact, Exact
<1>13. Locked'
  BY <1>1, <1>5 DEF IndInv, Locked
<1>14. Bounded'
  <2>1. \A i \in 1..Len(batch') : batch'[i] <= BufferSize
    BY <1>1, EmptySeq
  <2>2. \A u \in Threads : hand'[u].size <= BufferSize /\ (pc'[u] # "enqueue" => hand'[u] = NoBuffer)
    BY <1>1, <1>5 DEF IndInv, Bounded
  <2>3. QED
    BY <1>1, <1>5, <2>1, <2>2 DEF IndInv, Bounded, queue
<1>15. InProgress'
  BY <1>1, <1>4, <1>5, <1>7 DEF IndInv, InProgress
<1>16. QED
  BY <1>12, <1>13, <1>14, <1>15 DEF IndInv

LEMMA NearerKeeps ==
  /\ \A d \in {NoTime} \cup Deadlines : Nearer(d) \in {NoTime} \cup Deadlines
  /\ \A d \in Times : Nearer(d) \in Times /\ (Nearer(d) = NoTime <=> d = NoTime)
<1>1. \A d \in Deadlines : Nearer(d) \in Deadlines
  BY ParameterFacts DEF Nearer, Deadlines
<1>2. Nearer(NoTime) = NoTime /\ Nearer(RIGHT_NOW) = RIGHT_NOW
  BY ParameterFacts DEF Nearer
<1>3. NoTime # RIGHT_NOW /\ NoTime \notin Deadlines
  BY ParameterFacts
<1>4. QED
  BY <1>1, <1>2, <1>3 DEF Times

LEMMA TickPreserves ==
  ASSUME IndInv, Tick
  PROVE  IndInv'
<1>1. /\ FlushTime' = Nearer(FlushTime) /\ CurrentFirst' = Nearer(CurrentFirst)
      /\ ReadyList' = [i \in 1..Len(ReadyList) |-> [ReadyList[i] EXCEPT !.first = Nearer(@)]]
      /\ hand' = [t \in Threads |-> [hand[t] EXCEPT !.first = Nearer(@)]]
      /\ when' = [c \in Callers |-> Nearer(when[c])]
      /\ stamp' = Nearer(stamp) /\ oldest' = Nearer(oldest) /\ timer' = Nearer(timer)
      /\ UNCHANGED <<flags, QueuedBytes, Current, manager, dataLock, pc, firstData, pressure,
                     batch, forceFlush, loops, draining, history>>
  BY DEF Tick
<1>2. /\ ReadyList \in Seq(Buffers) /\ Len(ReadyList) \in Nat
      /\ DOMAIN ReadyList = 1..Len(ReadyList)
      /\ \A i \in 1..Len(ReadyList) : ReadyList[i] \in Buffers /\ ReadyList[i].size <= BufferSize
      /\ hand \in [Threads -> Buffers]
  <2>1. /\ ReadyList \in Seq(Buffers) /\ Len(ReadyList) \in Nat
        /\ DOMAIN ReadyList = 1..Len(ReadyList) /\ hand \in [Threads -> Buffers]
    BY Known, LenProperties DEF TypeOK
  <2>2. \A i \in 1..Len(ReadyList) : ReadyList[i] \in Buffers
    BY <2>1, ElementOfSeq
  <2>3. QED
    BY <2>1, <2>2 DEF IndInv, Bounded
<1>3. \A b \in Buffers : /\ [b EXCEPT !.first = Nearer(@)] \in Buffers
                         /\ [b EXCEPT !.first = Nearer(@)].size = b.size
  BY NearerKeeps DEF Buffers
<1>4. /\ ReadyList' \in Seq(Buffers) /\ Len(ReadyList') = Len(ReadyList)
      /\ DOMAIN ReadyList' = DOMAIN ReadyList
      /\ \A i \in 1..Len(ReadyList) : ReadyList'[i].size = ReadyList[i].size
  <2>1. ReadyList' \in [1..Len(ReadyList) -> Buffers]
    BY <1>1, <1>2, <1>3
  <2>2. ReadyList' \in Seq(Buffers)
    BY <1>2, <2>1, SeqDef
  <2>3. DOMAIN ReadyList' = 1..Len(ReadyList) /\ DOMAIN ReadyList' = 1..Len(ReadyList')
        /\ Len(ReadyList') \in Nat
    BY <2>1, <2>2, LenProperties
  <2>4. Len(ReadyList') = Len(ReadyList)
    BY <1>2, <2>2, <2>3, LenProperties
  <2>5. \A i \in 1..Len(ReadyList) : ReadyList'[i].size = ReadyList[i].size
    BY <1>1, <1>2, <1>3
  <2>6. QED
    BY <1>2, <2>2, <2>3, <2>4, <2>5
<1>5. /\ hand' \in [Threads -> Buffers]
      /\ \A t \in Threads : hand'[t].size = hand[t].size /\ (hand[t] = NoBuffer => hand'[t] = NoBuffer)
  <2>1. hand' \in [Threads -> Buffers] /\ \A t \in Threads : hand'[t].size = hand[t].size
    BY <1>1, <1>2, <1>3
  <2>2. [NoBuffer EXCEPT !.first = Nearer(@)] = NoBuffer
    <3>1. Nearer(NoTime) = NoTime
      BY ParameterFacts DEF Nearer
    <3>2. QED
      BY <3>1 DEF NoBuffer
  <2>3. QED
    BY <1>1, <2>1, <2>2
<1>6. TypeOK'
  <2>1. /\ FlushTime' \in Times
        /\ CurrentFirst' \in {NoTime} \cup Deadlines /\ stamp' \in {NoTime} \cup Deadlines
        /\ oldest' \in {NoTime} \cup Deadlines /\ timer' \in {NoTime} \cup Deadlines
    BY <1>1, NearerKeeps, Known DEF TypeOK
  <2>2. when' \in [Callers -> Times \ {NoTime}]
    BY <1>1, NearerKeeps, Known DEF TypeOK
  <2>3. QED
    BY <1>1, <1>4, <1>5, <2>1, <2>2, Known DEF TypeOK, flags, manager, history
<1>7. QueuedExact'
  <2>1. Uncounted' = Uncounted /\ BatchRecords' = BatchRecords
    BY <1>1 DEF Uncounted, BatchRecords
  <2>2. ReadyRecords' = ReadyRecords
    <3>1. [i \in DOMAIN ReadyList' |-> ReadyList'[i].size] = [i \in DOMAIN ReadyList |-> ReadyList[i].size]
      BY <1>2, <1>4
    <3>2. QED
      BY <3>1 DEF ReadyRecords
  <2>3. HandRecords' = HandRecords
    <3>1. [t \in Threads |-> hand'[t].size] = [t \in Threads |-> hand[t].size]
      BY <1>5
    <3>2. QED
      BY <3>1 DEF HandRecords
  <2>4. Exact'
    BY <1>1, <2>1, <2>2, <2>3, Numbers DEF Exact, history
  <2>5. QED
    BY <1>6, <2>4 DEF QueuedExact, Exact
<1>8. Locked'
  BY <1>1 DEF IndInv, Locked
<1>9. Bounded'
  BY <1>1, <1>2, <1>4, <1>5 DEF IndInv, Bounded
<1>10. InProgress'
  BY <1>1 DEF IndInv, InProgress
<1>11. QED
  BY <1>7, <1>8, <1>9, <1>10 DEF IndInv
-----------------------------------------------------------------------------
LEMMA InitIndInv ==
  ASSUME Init
  PROVE  IndInv
<1>1. /\ \E s \in Scenarios : Registered = s.registered
      /\ FlushTime = NoTime /\ ShutdownFlag = FALSE /\ ShutdownCalled = FALSE /\ QueuedBytes = 0
      /\ Current = 0 /\ CurrentFirst = NoTime /\ ReadyList = <<>> /\ batch = <<>>
      /\ Backends = Registered /\ ActiveLinked = FALSE /\ Reschedule = FALSE
      /\ StopRequested = FALSE /\ dataLock = None
      /\ pc = [t \in Threads |->
                 IF t # Manager THEN "idle" ELSE IF Registered THEN "loop" ELSE "off"]
      /\ hand = [t \in Threads |-> NoBuffer] /\ when = [c \in Callers |-> RIGHT_NOW]
      /\ stamp = NoTime /\ firstData = FALSE /\ pressure = FALSE /\ forceFlush = FALSE
      /\ loops = 0 /\ draining = FALSE /\ oldest = NoTime /\ timer = NoTime
      /\ logged = 0 /\ dropped = 0 /\ written = 0
  BY DEF Init
<1>2. Registered \in BOOLEAN
  BY <1>1, ThreadsAssumption
<1>3. /\ DOMAIN pc = Threads
      /\ \A c \in Callers : pc[c] = "idle"
      /\ pc[Manager] \in {"loop", "off"}
  BY <1>1, ParameterFacts
<1>4. NoBuffer \in Buffers /\ NoBuffer.size = 0
  BY DEF NoBuffer, Buffers
<1>5. TypeOK
  <2>1. ReadyList \in Seq(Buffers) /\ batch \in Seq(Nat)
    BY <1>1, EmptySeq
  <2>2. hand \in [Threads -> Buffers]
    BY <1>1, <1>4
  <2>3. when \in [Callers -> Times \ {NoTime}]
    BY <1>1, ParameterFacts DEF Times
  <2>4. (\A c \in Callers : pc[c] \in Labels) /\ pc[Manager] \in ManagerLabels
    BY <1>3 DEF Labels, ManagerLabels
  <2>5. FlushTime \in Times
    BY <1>1 DEF Times
  <2>6. /\ {Registered, ShutdownFlag, ShutdownCalled, Backends, ActiveLinked,
             Reschedule, StopRequested, firstData, pressure, forceFlush, draining} \subseteq BOOLEAN
        /\ dataLock \in Callers \cup {None}
    BY <1>1, <1>2
  <2>7. /\ {QueuedBytes, Current, loops, logged, dropped, written} \subseteq Nat
        /\ {CurrentFirst, stamp, oldest, timer} \subseteq {NoTime} \cup Deadlines
    BY <1>1
  <2>8. QED
    BY <2>1, <2>2, <2>3, <2>4, <2>5, <2>6, <2>7 DEF TypeOK
<1>6. Uncounted = 0
  BY <1>1 DEF Uncounted
<1>7. ReadyRecords = 0 /\ HandRecords = 0 /\ BatchRecords = 0
  <2>1. Records([i \in DOMAIN ReadyList |-> ReadyList[i].size]) = 0
    <3> DEFINE f == [i \in DOMAIN ReadyList |-> ReadyList[i].size]
    <3>1. DOMAIN f = {}
      BY <1>1, EmptySeq
    <3> HIDE DEF f
    <3>2. Records(f) = 0
      BY <3>1, RecordsOfNone
    <3>3. QED
      BY <3>2 DEF f
  <2>2. Records([t \in Threads |-> hand[t].size]) = 0
    <3> DEFINE f == [t \in Threads |-> hand[t].size]
    <3>1. \A t \in DOMAIN f : f[t] = 0
      BY <1>1, <1>4
    <3> HIDE DEF f
    <3>2. Records(f) = 0
      BY <3>1, RecordsOfNone
    <3>3. QED
      BY <3>2 DEF f
  <2>3. Records(batch) = 0
    <3>1. \A i \in DOMAIN batch : batch[i] = 0
      BY <1>1, EmptySeq
    <3>2. QED
      BY <3>1, RecordsOfNone
  <2>4. QED
    BY <2>1, <2>2, <2>3 DEF ReadyRecords, HandRecords, BatchRecords
<1>8. QueuedExact
  BY <1>1, <1>5, <1>6, <1>7 DEF QueuedExact
<1>9. Locked
  BY <1>1, <1>3, ParameterFacts DEF Locked, Holding
<1>10. Bounded
  <2>1. Current <= BufferSize /\ \A t \in Threads : hand[t].size <= BufferSize /\ hand[t] = NoBuffer
    BY <1>1, <1>4, ParameterFacts
  <2>2. Len(ReadyList) = 0 /\ Len(batch) = 0
    BY <1>1, EmptySeq
  <2>3. QED
    BY <1>1, <1>3, <2>1, <2>2 DEF Bounded
<1>11. InProgress
  BY <1>1, <1>3 DEF InProgress
<1>12. QED
  BY <1>8, <1>9, <1>10, <1>11 DEF IndInv

LEMMA StepPreserves ==
  ASSUME IndInv, [Next]_<<operations, vars>>
  PROVE  IndInv'
<1>1. ASSUME NEW c \in Callers, Display(c) \/ Flush(c) \/ Freeze(c)
      PROVE  IndInv'
  BY <1>1, CallBegins
<1>2. ASSUME NEW t \in Threads, Publish(t)
      PROVE  IndInv'
  BY <1>2, NotPublishedPreserves, SwapCurrentPreserves, EnqueueReadyPreserves DEF Publish
<1>3. ASSUME NEW c \in Callers, CallStep(c)
      PROVE  IndInv'
  <2>1. c \in Threads
    BY ParameterFacts
  <2>2. QED
    BY <1>2, <1>3, <2>1, FactoryAddPreserves, DisplaySteps, AppendFitsPreserves,
       AppendFullPreserves, CountQueuedPreserves, DecideRequestPreserves, RequestSteps DEF CallStep
<1>4. CASE ManagerStep
  <2>1. Manager \in Threads
    BY ParameterFacts
  <2>2. QED
    BY <1>2, <1>4, <2>1, LoopSteps, WorkerSteps, TakeReadyPreserves, WriteReadyDataPreserves,
       UpdatePreserves DEF ManagerStep
<1>5. CASE Tick
  BY <1>5, TickPreserves
<1>6. CASE UNCHANGED <<operations, vars>>
  <2>1. UNCHANGED vars
    BY <1>6
  <2>2. QED
    BY <2>1 DEF vars, flags, queue, manager, append, worker, history, IndInv, QueuedExact, TypeOK,
                Uncounted, ReadyRecords, HandRecords, BatchRecords, Locked, Bounded, InProgress
<1>7. QED
  BY <1>1, <1>3, <1>4, <1>5, <1>6 DEF Next

THEOREM IndInvHolds == Spec => []IndInv
BY InitIndInv, StepPreserves, PTL DEF Spec

(* QueuedBytes, which Flush(), IsIdle and OnShutdown trust, is exact in every *)
(* reachable state, whatever callers do and however many there are.           *)
THEOREM QueuedExactHolds == Spec => []QueuedExact
<1>1. IndInv => QueuedExact
  BY DEF IndInv
<1>2. QED
  BY <1>1, IndInvHolds, PTL
-----------------------------------------------------------------------------
(* No wakeup is lost. *)

(* A step of a caller after which whoever was about to ask still is, or need  *)
(* not, because FlushTime stands.                                            *)
LEMMA CallerKeeps ==
  ASSUME IndInv, Wake, NEW c \in Callers, NEW l \in Labels,
         pc' = [pc EXCEPT ![c] = l],
         UNCHANGED <<operations, Registered, ShutdownFlag, FlushTime, ActiveLinked, Reschedule,
                     timer, oldest>>,
         \A d \in Callers \ {c} : /\ dataLock' = d <=> dataLock = d
                                  /\ dataLock = d => firstData' = firstData,
         Current' > 0 => Current > 0 \/ Asking(c)',
         ReadyList' # <<>> => ReadyList # <<>> \/ Asking(c)',
         Asking(c) => Asking(c)' \/ FlushTime # NoTime,
         pc[c] # "notify",
         l = "enqueue" /\ dataLock' = c => firstData',
         pc[c] \in {"idle", "register", "registered"} => UNCHANGED <<Current, ReadyList>>,
         pc[c] \in {"idle", "register", "registered"} /\ ~Registered /\ ~ShutdownFlag =>
           l \in {"idle", "register", "registered"} \/ "flush" \in operations,
         l \in {"register", "registered"} => ~Registered /\ ~ShutdownFlag
  PROVE  Wake'
<1>1. /\ DOMAIN pc = Threads /\ c \in Threads /\ Manager \in Threads
      /\ \A u \in Callers : u \in Threads /\ u # Manager
  BY Known, ParameterFacts
<1>2. /\ pc'[Manager] = pc[Manager] /\ pc'[c] = l
      /\ \A d \in Callers \ {c} : pc'[d] = pc[d]
  BY <1>1
<1>3. \A d \in Callers \ {c} : Asking(d) => Asking(d)'
  BY <1>2 DEF Asking
<1>4. Asked => Asked' \/ FlushTime # NoTime
  BY <1>3 DEF Asked
<1>5. Asking(c)' => Asked'
  BY DEF Asked
<1>6. Telling => Telling'
  BY <1>2 DEF Telling
<1>7. Untouched'
  <2>1. ~Registered' /\ ~ShutdownFlag' =>
          /\ "flush" \notin operations'
          /\ FlushTime' = NoTime /\ timer' = NoTime /\ ~ActiveLinked'
          /\ Current' = 0 /\ ReadyList' = <<>>
          /\ pc'[Manager] \in {"off", "loop", "sleep"}
          /\ \A d \in Callers : pc'[d] \in {"idle", "register", "registered"}
    BY <1>2 DEF Wake, Untouched
  <2>2. \A d \in Callers : pc'[d] \in {"register", "registered"} => ~Registered' /\ ~ShutdownFlag'
    BY <1>2 DEF Wake, Untouched
  <2>3. pc'[Manager] = "remove" => ShutdownFlag'
    BY <1>2 DEF Wake, Untouched
  <2>4. QED
    BY <2>1, <2>2, <2>3 DEF Untouched
<1>8. NothingForgotten'
  <2>1. \A d \in Callers : pc'[d] = "enqueue" /\ dataLock' = d => firstData'
    <3>1. SUFFICES ASSUME NEW d \in Callers, pc'[d] = "enqueue", dataLock' = d
                   PROVE  firstData'
      OBVIOUS
    <3>2. CASE d = c
      BY <1>2, <3>1, <3>2
    <3>3. CASE d # c
      <4>1. dataLock = d /\ firstData' = firstData /\ pc[d] = "enqueue"
        BY <1>2, <3>1, <3>3
      <4>2. QED
        BY <4>1 DEF Wake, NothingForgotten
    <3>4. QED
      BY <3>2, <3>3
  <2>2. Registered' /\ FlushTime' = NoTime =>
          /\ Asked => Asked'
          /\ Current' > 0 => Current > 0 \/ Asked'
          /\ ReadyList' # <<>> => ReadyList # <<>> \/ Asked'
    BY <1>4, <1>5
  <2>3. QED
    BY <1>2, <2>1, <2>2 DEF Wake, NothingForgotten
<1>9. Told'
  BY <1>2, <1>6 DEF Wake, Told
<1>10. QED
  BY <1>7, <1>8, <1>9 DEF Wake

LEMMA DisplayKeepsWake ==
  ASSUME IndInv, Wake, NEW c \in Callers, UNCHANGED operations,
         Display(c) \/ LoadFlushTime(c) \/ AppendDrops(c)
  PROVE  Wake'
<1>1. CASE Display(c)
  <2> DEFINE l == IF Registered THEN "load" ELSE "register"
  <2>1. /\ pc[c] = "idle" /\ dataLock = None /\ dataLock' = c /\ pc' = [pc EXCEPT ![c] = l]
        /\ UNCHANGED <<Registered, ShutdownFlag, FlushTime, ActiveLinked, Reschedule, timer, oldest,
                       firstData, Current, ReadyList>>
        /\ ~ShutdownFlag
    BY <1>1 DEF Display, Goto, flags, queue, manager, append, worker
  <2>2. \A d \in Callers \ {c} : dataLock' # d /\ dataLock # d
    BY <2>1, ParameterFacts
  <2>3. ~Asking(c)
    BY <2>1 DEF Asking
  <2>4. l \in Labels /\ l # "enqueue" /\ (l = "register" <=> ~Registered) /\ l # "registered"
    BY DEF Labels
  <2> HIDE DEF l
  <2>5. QED
    BY <2>1, <2>2, <2>3, <2>4, CallerKeeps
<1>2. CASE LoadFlushTime(c)
  <2>1. /\ pc[c] = "load" /\ dataLock' = dataLock /\ pc' = [pc EXCEPT ![c] = "append"]
        /\ UNCHANGED <<Registered, ShutdownFlag, FlushTime, ActiveLinked, Reschedule, timer, oldest,
                       firstData, Current, ReadyList>>
    BY <1>2 DEF LoadFlushTime, Goto, flags, queue, manager, worker
  <2>2. ~Asking(c)
    BY <2>1 DEF Asking
  <2>3. QED
    BY <2>1, <2>2, CallerKeeps DEF Labels
<1>3. CASE AppendDrops(c)
  <2>1. /\ pc[c] = "append" /\ dataLock = c /\ dataLock' = None /\ pc' = [pc EXCEPT ![c] = "idle"]
        /\ UNCHANGED <<Registered, ShutdownFlag, FlushTime, ActiveLinked, Reschedule, timer, oldest,
                       firstData, Current, ReadyList>>
    BY <1>3, Known DEF AppendDrops, Goto, flags, queue, manager, worker, Holding
  <2>2. ~Asking(c) /\ \A d \in Callers \ {c} : dataLock' # d /\ dataLock # d
    BY <2>1, ParameterFacts DEF Asking
  <2>3. QED
    BY <2>1, <2>2, CallerKeeps DEF Labels
<1>4. QED
  BY <1>1, <1>2, <1>3

LEMMA AppendKeepsWake ==
  ASSUME IndInv, Wake, NEW c \in Callers, UNCHANGED operations,
         AppendFits(c) \/ AppendFull(c) \/ CountQueued(c)
  PROVE  Wake'
<1>c. c \in Threads /\ DOMAIN pc = Threads
  BY Known, ParameterFacts
<1>1. CASE AppendFits(c)
  <2>1. /\ pc[c] = "append" /\ dataLock = c /\ dataLock' = dataLock /\ pc' = [pc EXCEPT ![c] = "count"]
        /\ firstData' = (Current = 0) /\ Current' = Current + 1
        /\ UNCHANGED <<Registered, ShutdownFlag, FlushTime, ActiveLinked, Reschedule, timer, oldest,
                       ReadyList>>
    BY <1>1, Known DEF AppendFits, Goto, flags, manager, worker, Holding
  <2>2. ~Asking(c)
    BY <2>1 DEF Asking
  <2>3. Current > 0 \/ Asking(c)'
    <3>1. CASE Current = 0
      BY <1>c, <2>1, <3>1 DEF Asking
    <3>2. CASE Current # 0
      BY <3>2, Numbers
    <3>3. QED
      BY <3>1, <3>2
  <2>4. QED
    BY <2>1, <2>2, <2>3, CallerKeeps DEF Labels
<1>2. CASE AppendFull(c)
  <2>1. /\ pc[c] = "append" /\ dataLock = c /\ dataLock' = dataLock /\ pc' = [pc EXCEPT ![c] = "enqueue"]
        /\ firstData' = TRUE /\ Current = BufferSize
        /\ UNCHANGED <<Registered, ShutdownFlag, FlushTime, ActiveLinked, Reschedule, timer, oldest,
                       ReadyList>>
    BY <1>2, Known DEF AppendFull, Goto, flags, manager, worker, Holding
  <2>2. ~Asking(c)
    BY <2>1 DEF Asking
  <2>3. Current > 0
    BY <2>1, ParameterFacts
  <2>4. QED
    BY <2>1, <2>2, <2>3, CallerKeeps DEF Labels
<1>3. CASE CountQueued(c)
  <2>1. /\ pc[c] = "count" /\ dataLock = c /\ dataLock' = dataLock /\ pc' = [pc EXCEPT ![c] = "decide"]
        /\ UNCHANGED <<Registered, ShutdownFlag, FlushTime, ActiveLinked, Reschedule, timer, oldest,
                       firstData, Current, ReadyList>>
    BY <1>3, Known DEF CountQueued, Goto, flags, queue, manager, worker, Holding
  <2>2. Asking(c) => Asking(c)'
    BY <1>c, <2>1 DEF Asking
  <2>3. QED
    BY <2>1, <2>2, CallerKeeps DEF Labels
<1>4. QED
  BY <1>1, <1>2, <1>3

LEMMA DecideKeepsWake ==
  ASSUME IndInv, Wake, NEW c \in Callers, UNCHANGED operations, DecideRequest(c)
  PROVE  Wake'
<1>1. /\ pc[c] = "decide" /\ dataLock = c /\ c \in Threads /\ DOMAIN pc = Threads
      /\ firstData' = FALSE
      /\ UNCHANGED <<Registered, ShutdownFlag, FlushTime, ActiveLinked, Reschedule, timer, oldest,
                     Current, ReadyList>>
  BY Known, ParameterFacts DEF DecideRequest, flags, queue, manager, worker, Holding
<1>2. \/ pc' = [pc EXCEPT ![c] = "request"] /\ dataLock' = dataLock
      \/ pc' = [pc EXCEPT ![c] = "idle"] /\ dataLock' = None /\ ~NeedsRequest
  BY DEF DecideRequest, Goto
<1>3. \A d \in Callers \ {c} : /\ dataLock' = d <=> dataLock = d
                               /\ dataLock # d
  BY <1>1, <1>2, ParameterFacts
<1>4. CASE pc' = [pc EXCEPT ![c] = "request"] /\ dataLock' = dataLock
  <2>1. Asking(c)'
    BY <1>1, <1>4 DEF Asking
  <2>2. QED
    BY <1>1, <1>3, <1>4, <2>1, CallerKeeps DEF Labels
<1>5. CASE pc' = [pc EXCEPT ![c] = "idle"] /\ dataLock' = None /\ ~NeedsRequest
  <2>1. Asking(c) => FlushTime # NoTime
    <3>1. Asking(c) => firstData
      BY <1>1 DEF Asking
    <3>2. RIGHT_NOW # NoTime
      BY ParameterFacts
    <3>3. QED
      BY <1>5, <3>1, <3>2 DEF NeedsRequest
  <2>2. QED
    BY <1>1, <1>3, <1>5, <2>1, CallerKeeps DEF Labels
<1>6. QED
  BY <1>2, <1>4, <1>5

LEMMA FlushKeepsWake ==
  ASSUME IndInv, Wake, NEW c \in Callers, UNCHANGED operations,
         Flush(c) \/ FlushReturns(c) \/ RequestRejected(c)
  PROVE  Wake'
<1>1. CASE Flush(c)
  <2>1. /\ pc[c] = "idle" /\ dataLock' = dataLock /\ pc' = [pc EXCEPT ![c] = "publish"]
        /\ "flush" \in operations
        /\ UNCHANGED <<Registered, ShutdownFlag, FlushTime, ActiveLinked, Reschedule, timer, oldest,
                       firstData, Current, ReadyList>>
    BY <1>1 DEF Flush, Goto, flags, queue, manager, append, worker
  <2>2. ~Asking(c)
    BY <2>1 DEF Asking
  <2>3. QED
    BY <2>1, <2>2, CallerKeeps DEF Labels
<1>2. CASE FlushReturns(c)
  <2>1. /\ pc[c] = "wait" /\ dataLock' = dataLock /\ pc' = [pc EXCEPT ![c] = "idle"]
        /\ UNCHANGED <<Registered, ShutdownFlag, FlushTime, ActiveLinked, Reschedule, timer, oldest,
                       firstData, Current, ReadyList>>
    BY <1>2 DEF FlushReturns, Goto, flags, queue, manager, append, worker
  <2>2. ~Asking(c)
    BY <2>1 DEF Asking
  <2>3. QED
    BY <2>1, <2>2, CallerKeeps DEF Labels
<1>3. CASE RequestRejected(c)
  <2> DEFINE l == IF dataLock = c THEN "idle" ELSE "wait"
  <2>1. /\ pc[c] = "request" /\ pc' = [pc EXCEPT ![c] = l] /\ FlushTime # NoTime
        /\ dataLock' = IF dataLock = c THEN None ELSE dataLock
        /\ UNCHANGED <<Registered, ShutdownFlag, FlushTime, ActiveLinked, Reschedule, timer, oldest,
                       firstData, Current, ReadyList>>
    BY <1>3 DEF RequestRejected, AfterRequest, Rejected, Goto, flags, queue, manager, append, worker
  <2>2. \A d \in Callers \ {c} : dataLock' = d <=> dataLock = d
    BY <2>1, ParameterFacts
  <2>3. l \in Labels /\ l \notin {"enqueue", "register", "registered"}
    BY DEF Labels
  <2> HIDE DEF l
  <2>4. QED
    BY <2>1, <2>2, <2>3, CallerKeeps
<1>4. QED
  BY <1>1, <1>2, <1>3

LEMMA FreezeKeepsWake ==
  ASSUME IndInv, Wake, NEW c \in Callers, UNCHANGED operations, Freeze(c)
  PROVE  Wake'
<1>1. /\ pc[c] = "idle" /\ dataLock = None /\ dataLock' = c /\ pc' = [pc EXCEPT ![c] = "request"]
      /\ ShutdownFlag' = TRUE
      /\ UNCHANGED <<Registered, FlushTime, ActiveLinked, Reschedule, timer, oldest,
                     firstData, Current, ReadyList>>
  BY DEF Freeze, Goto, queue, manager, append, worker
<1>2. /\ DOMAIN pc = Threads /\ c \in Threads /\ Manager \in Threads
      /\ \A u \in Callers : u \in Threads /\ u # Manager /\ u # None
  BY Known, ParameterFacts
<1>3. /\ pc'[Manager] = pc[Manager] /\ pc'[c] = "request"
      /\ \A d \in Callers \ {c} : pc'[d] = pc[d] /\ dataLock' # d /\ dataLock # d
  BY <1>1, <1>2
<1>4. Asked'
  BY <1>3 DEF Asked, Asking
<1>5. Telling => Telling'
  <2>1. \A d \in Callers : pc[d] = "notify" => pc'[d] = "notify"
    BY <1>1, <1>3
  <2>2. QED
    BY <2>1 DEF Telling
<1>6. Untouched'
  <2>1. \A d \in Callers : pc'[d] \notin {"register", "registered"}
    BY <1>1, <1>3, Known DEF Holding
  <2>2. QED
    BY <1>1, <1>3, <2>1 DEF Wake, Untouched
<1>7. NothingForgotten'
  <2>1. \A d \in Callers : ~(pc'[d] = "enqueue" /\ dataLock' = d)
    BY <1>1, <1>3
  <2>2. QED
    BY <1>1, <1>3, <1>4, <2>1 DEF Wake, NothingForgotten
<1>8. Told'
  BY <1>1, <1>3, <1>5 DEF Wake, Told
<1>9. QED
  BY <1>6, <1>7, <1>8 DEF Wake

(* RegisterAsync: nothing is in the queue and nobody has asked before.        *)
LEMMA RegisterKeepsWake ==
  ASSUME IndInv, Wake, NEW c \in Callers, UNCHANGED operations,
         FactoryAdd(c) \/ SetRegistered(c)
  PROVE  Wake'
<1>1. /\ pc[c] \in {"register", "registered"}
      /\ UNCHANGED <<ShutdownFlag, FlushTime, ActiveLinked, Reschedule, timer, oldest,
                     firstData, Current, ReadyList, dataLock>>
  BY DEF FactoryAdd, SetRegistered, flags, queue, manager, append, worker
<1>2. /\ DOMAIN pc = Threads /\ c \in Threads /\ Manager \in Threads
      /\ \A u \in Callers : u \in Threads /\ u # Manager
  BY Known, ParameterFacts
<1>3. /\ ~Registered /\ ~ShutdownFlag /\ FlushTime = NoTime /\ timer = NoTime /\ ~ActiveLinked
      /\ Current = 0 /\ ReadyList = <<>> /\ "flush" \notin operations
      /\ pc[Manager] \in {"off", "loop", "sleep"}
      /\ \A d \in Callers : pc[d] \in {"idle", "register", "registered"}
  BY <1>1 DEF Wake, Untouched
<1>d. dataLock = c /\ \A d \in Callers \ {c} : pc[d] = "idle"
  BY <1>1, <1>3, Known DEF Holding
<1>4. /\ pc'[Manager] \in {"off", "loop", "sleep"}
      /\ \A d \in Callers \ {c} : pc'[d] = "idle"
      /\ \/ pc'[c] = "registered" /\ Registered' = Registered
         \/ pc'[c] = "load" /\ Registered' = TRUE
  BY <1>2, <1>3, <1>d DEF FactoryAdd, SetRegistered, Goto, flags
<1>5. Untouched'
  BY <1>1, <1>3, <1>4 DEF Untouched
<1>6. NothingForgotten'
  BY <1>1, <1>3, <1>4 DEF NothingForgotten
<1>7. Told'
  BY <1>1, <1>3, <1>4 DEF Told
<1>8. QED
  BY <1>5, <1>6, <1>7 DEF Wake

LEMMA NotifyKeepsWake ==
  ASSUME IndInv, Wake, NEW c \in Callers, UNCHANGED operations,
         RequestAccepted(c) \/ Notify(c)
  PROVE  Wake'
<1> DEFINE l == IF dataLock = c THEN "idle" ELSE "wait"
<1>1. /\ DOMAIN pc = Threads /\ c \in Threads /\ Manager \in Threads
      /\ \A u \in Callers : u \in Threads /\ u # Manager /\ u # None
  BY Known, ParameterFacts
<1>2. CASE RequestAccepted(c)
  <2>1. /\ pc[c] = "request" /\ dataLock' = dataLock /\ pc' = [pc EXCEPT ![c] = "notify"]
        /\ FlushTime' = when[c]
        /\ UNCHANGED <<Registered, ShutdownFlag, ActiveLinked, Reschedule, timer, oldest,
                       firstData, Current, ReadyList>>
    BY <1>2 DEF RequestAccepted, Goto, flags, queue, manager, append, worker
  <2>2. FlushTime' # NoTime
    BY <2>1, Known DEF TypeOK
  <2>3. /\ pc'[Manager] = pc[Manager] /\ pc'[c] = "notify"
        /\ \A d \in Callers \ {c} : pc'[d] = pc[d]
    BY <1>1, <2>1
  <2>4. Telling'
    BY <2>3 DEF Telling
  <2>5. Registered \/ ShutdownFlag
    BY <2>1 DEF Wake, Untouched
  <2>6. Untouched'
    BY <2>1, <2>3, <2>5 DEF Wake, Untouched
  <2>7. NothingForgotten'
    <3>1. \A d \in Callers : pc'[d] = "enqueue" /\ dataLock' = d => firstData'
      BY <2>1, <2>3 DEF Wake, NothingForgotten
    <3>2. QED
      BY <2>1, <2>2, <2>3, <3>1 DEF Wake, NothingForgotten
  <2>8. Told'
    BY <2>1, <2>3, <2>4 DEF Wake, Told
  <2>9. QED
    BY <2>6, <2>7, <2>8 DEF Wake
<1>3. CASE Notify(c)
  <2>1. /\ pc[c] = "notify" /\ pc' = [pc EXCEPT ![c] = l]
        /\ dataLock' = IF dataLock = c THEN None ELSE dataLock
        /\ ActiveLinked' = (ActiveLinked \/ Registered) /\ Reschedule' = (Reschedule \/ Registered)
        /\ UNCHANGED <<Registered, ShutdownFlag, FlushTime, timer, oldest, firstData, Current,
                       ReadyList>>
    BY <1>3 DEF Notify, AfterRequest, Goto, flags, queue, append, worker
  <2>2. /\ pc'[Manager] = pc[Manager] /\ pc'[c] \in {"idle", "wait"}
        /\ \A d \in Callers \ {c} : /\ pc'[d] = pc[d]
                                    /\ dataLock' = d <=> dataLock = d
    BY <1>1, <2>1
  <2>3. Asked => Asked'
    <3>1. ~Asking(c)
      BY <2>1 DEF Asking
    <3>2. \A d \in Callers \ {c} : Asking(d) => Asking(d)'
      BY <2>1, <2>2 DEF Asking
    <3>3. QED
      BY <3>1, <3>2 DEF Asked
  <2>4. Registered \/ ShutdownFlag
    BY <2>1 DEF Wake, Untouched
  <2>5. Untouched'
    BY <2>1, <2>2, <2>4 DEF Wake, Untouched
  <2>6. NothingForgotten'
    <3>1. \A d \in Callers : pc'[d] = "enqueue" /\ dataLock' = d => firstData'
      BY <2>1, <2>2 DEF Wake, NothingForgotten
    <3>2. QED
      BY <2>1, <2>2, <2>3, <3>1 DEF Wake, NothingForgotten
  <2>7. Told'
    BY <2>1, <2>2 DEF Wake, Told
  <2>8. QED
    BY <2>5, <2>6, <2>7 DEF Wake
<1>4. QED
  BY <1>2, <1>3

(* A caller of Flush() that publishes will ask; an appender enqueues the full *)
(* buffer and will ask.                                                      *)
LEMMA PublishKeepsWake ==
  ASSUME IndInv, Wake, NEW c \in Callers, UNCHANGED operations, Publish(c)
  PROVE  Wake'
<1>1. DOMAIN pc = Threads /\ c \in Threads /\ c # Manager /\ c # None
  BY Known, ParameterFacts
<1>2. CASE TakeReplacement(c) \/ NothingToPublish(c)
  <2>1. /\ pc[c] \in {"publish", "swap"} /\ dataLock' = dataLock
        /\ pc' = [pc EXCEPT ![c] = "swap"] \/ pc' = [pc EXCEPT ![c] = "request"]
        /\ UNCHANGED <<Registered, ShutdownFlag, FlushTime, ActiveLinked, Reschedule, timer, oldest,
                       firstData, Current, ReadyList>>
    BY <1>1, <1>2 DEF TakeReplacement, NothingToPublish, NotPublished, Goto, flags, queue, manager,
                      append, worker
  <2>2. dataLock # c
    BY <2>1, Known DEF Holding
  <2>3. Asking(c)'
    BY <1>1, <2>1, <2>2 DEF Asking
  <2>4. QED
    BY <2>1, <2>3, CallerKeeps DEF Labels
<1>3. CASE SwapCurrent(c)
  <2>1. /\ pc[c] = "swap" /\ dataLock = None /\ dataLock' = dataLock
        /\ pc' = [pc EXCEPT ![c] = "enqueue"] /\ Current' = 0
        /\ UNCHANGED <<Registered, ShutdownFlag, FlushTime, ActiveLinked, Reschedule, timer, oldest,
                       firstData, ReadyList>>
    BY <1>3 DEF SwapCurrent, Goto, flags, manager, append, worker
  <2>2. Asking(c)'
    BY <1>1, <2>1 DEF Asking
  <2>3. QED
    BY <1>1, <2>1, <2>2, CallerKeeps DEF Labels
<1>4. CASE EnqueueReady(c)
  <2> DEFINE l == IF dataLock = c THEN "count" ELSE "publish"
  <2>1. /\ pc[c] = "enqueue" /\ dataLock' = dataLock /\ pc' = [pc EXCEPT ![c] = l]
        /\ UNCHANGED <<Registered, ShutdownFlag, FlushTime, ActiveLinked, Reschedule, timer, oldest,
                       firstData, Current>>
    BY <1>1, <1>4 DEF EnqueueReady, Published, Goto, flags, manager, append
  <2>2. dataLock = c => firstData
    BY <2>1 DEF Wake, NothingForgotten
  <2>3. Asking(c)'
    BY <1>1, <2>1, <2>2 DEF Asking
  <2>4. l \in Labels /\ l \notin {"enqueue", "register", "registered"}
    BY DEF Labels
  <2> HIDE DEF l
  <2>5. QED
    BY <2>1, <2>3, <2>4, CallerKeeps
<1>5. QED
  BY <1>2, <1>3, <1>4 DEF Publish

(* The manager moves: the callers stay as they are. *)
LEMMA CallersStay ==
  ASSUME IndInv, NEW l \in ManagerLabels, pc' = [pc EXCEPT ![Manager] = l],
         UNCHANGED <<dataLock, firstData>>
  PROVE  /\ pc'[Manager] = l
         /\ \A c \in Callers : pc'[c] = pc[c]
         /\ Asked <=> Asked'
         /\ Telling <=> Telling'
<1>1. /\ DOMAIN pc = Threads /\ Manager \in Threads
      /\ \A u \in Callers : u \in Threads /\ u # Manager
  BY Known, ParameterFacts
<1>2. pc'[Manager] = l /\ \A c \in Callers : pc'[c] = pc[c]
  BY <1>1
<1>3. \A c \in Callers : Asking(c) <=> Asking(c)'
  BY <1>2 DEF Asking
<1>4. QED
  BY <1>2, <1>3 DEF Asked, Telling

(* What is asked of a step of the manager that leaves the flags alone. *)
LEMMA ManagerKeeps ==
  ASSUME IndInv, Wake, NEW l \in ManagerLabels, pc' = [pc EXCEPT ![Manager] = l],
         UNCHANGED <<operations, Registered, ShutdownFlag, dataLock, firstData>>,
         Registered \/ ShutdownFlag,
         l = "remove" => ShutdownFlag,
         NothingForgotten', Told'
  PROVE  Wake'
<1>1. pc'[Manager] = l /\ \A c \in Callers : pc'[c] = pc[c]
  BY CallersStay
<1>2. Untouched'
  BY <1>1 DEF Wake, Untouched
<1>3. QED
  BY <1>2 DEF Wake

(* WorkerFunc, until it has cleared FlushTime: the time stands meanwhile, so   *)
(* that whoever logs need not ask.                                            *)
Working == {"run", "take", "write", "publish", "swap", "enqueue", "update", "current", "flag",
            "clear"}

LEMMA WorkingKeeps ==
  ASSUME IndInv, Wake, NEW l \in Working \cup {"store", "worked", "drain", "called"},
         pc[Manager] \in Working, pc' = [pc EXCEPT ![Manager] = l],
         UNCHANGED <<operations, Registered, ShutdownFlag, dataLock, firstData, FlushTime, timer>>,
         l = "store" => oldest' # NoTime
  PROVE  Wake'
<1>1. l \in ManagerLabels /\ l # "remove" /\ l # "sleep" /\ l # "loop"
  BY DEF ManagerLabels, Working
<1>2. Registered \/ ShutdownFlag
  BY DEF Wake, Untouched, Working
<1>3. pc'[Manager] = l /\ \A c \in Callers : pc'[c] = pc[c]
  BY <1>1, CallersStay
<1>4. ~(Registered /\ FlushTime = NoTime) /\ timer = NoTime
  BY DEF Wake, NothingForgotten, Told, Working
<1>5. NothingForgotten'
  <2>1. \A d \in Callers : pc'[d] = "enqueue" /\ dataLock' = d => firstData'
    BY <1>3 DEF Wake, NothingForgotten
  <2>2. QED
    BY <1>3, <1>4, <2>1 DEF NothingForgotten
<1>6. Told'
  BY <1>1, <1>3, <1>4 DEF Told
<1>7. QED
  BY <1>1, <1>2, <1>5, <1>6, ManagerKeeps

(* A manager that is stopping has nobody to wake it.                          *)
LEMMA StoppingKeeps ==
  ASSUME IndInv, Wake, NEW l \in ManagerLabels \ {"sleep", "store", "remove"},
         ~Registered, ShutdownFlag, pc[Manager] # "sleep", pc' = [pc EXCEPT ![Manager] = l],
         UNCHANGED <<operations, Registered, ShutdownFlag, dataLock, firstData, timer>>
  PROVE  Wake'
<1>1. pc'[Manager] = l /\ \A c \in Callers : pc'[c] = pc[c]
  BY CallersStay
<1>2. NothingForgotten'
  <2>1. \A d \in Callers : pc'[d] = "enqueue" /\ dataLock' = d => firstData'
    BY <1>1 DEF Wake, NothingForgotten
  <2>2. QED
    BY <1>1, <2>1 DEF NothingForgotten
<1>3. Told'
  BY <1>1 DEF Wake, Told
<1>4. QED
  BY <1>2, <1>3, ManagerKeeps

(* The loop, which may run before the backend is registered.                  *)
LEMMA LoopKeepsWake ==
  ASSUME IndInv, Wake, UNCHANGED operations, WaitIdle \/ WakeUp
  PROVE  Wake'
<1> DEFINE l == IF pc[Manager] = "loop" THEN "sleep" ELSE "loop"
<1>1. /\ pc[Manager] \in {"loop", "sleep"} /\ pc' = [pc EXCEPT ![Manager] = l]
      /\ pc[Manager] = "loop" =>
           /\ ActiveLinked => FlushTime = NoTime
           /\ ActiveLinked' = FALSE /\ Reschedule' = Reschedule /\ timer' = timer
      /\ pc[Manager] = "sleep" => timer' = NoTime /\ ActiveLinked' = ActiveLinked
      /\ UNCHANGED <<Registered, ShutdownFlag, FlushTime, dataLock, firstData, oldest, Current,
                     ReadyList>>
  BY DEF WaitIdle, WakeUp, Goto, flags, queue, append, worker
<1>2. l \in ManagerLabels /\ l \in {"loop", "sleep"}
  BY DEF ManagerLabels
<1>3. /\ pc'[Manager] = l /\ \A c \in Callers : pc'[c] = pc[c]
      /\ (Asked <=> Asked') /\ (Telling <=> Telling')
  <2> HIDE DEF l
  <2>1. QED
    BY <1>1, <1>2, CallersStay
<1>4. Untouched'
  <2>1. \A c \in Callers : pc'[c] \in {"register", "registered"} => ~Registered' /\ ~ShutdownFlag'
    BY <1>1, <1>3 DEF Wake, Untouched
  <2>2. ~Registered' /\ ~ShutdownFlag' =>
          /\ "flush" \notin operations' /\ FlushTime' = NoTime /\ timer' = NoTime
          /\ ~ActiveLinked' /\ Current' = 0 /\ ReadyList' = <<>>
          /\ \A c \in Callers : pc'[c] \in {"idle", "register", "registered"}
    BY <1>1, <1>3 DEF Wake, Untouched
  <2>3. pc'[Manager] \in {"loop", "sleep"}
    BY <1>2, <1>3
  <2>4. QED
    BY <2>1, <2>2, <2>3 DEF Untouched
<1>5. NothingForgotten'
  <2>1. \A d \in Callers : pc'[d] = "enqueue" /\ dataLock' = d => firstData'
    BY <1>1, <1>3 DEF Wake, NothingForgotten
  <2>2. Registered /\ FlushTime = NoTime => (Current > 0 \/ ReadyList # <<>> => Asked)
    BY <1>1 DEF Wake, NothingForgotten
  <2>3. QED
    BY <1>1, <1>2, <1>3, <2>1, <2>2 DEF NothingForgotten
<1>6. Told'
  BY <1>1, <1>3 DEF Wake, Told
<1>7. QED
  BY <1>4, <1>5, <1>6 DEF Wake

(* A due backend is run; for another the manager waits until it is.           *)
LEMMA HeadKeepsWake ==
  ASSUME IndInv, Wake, UNCHANGED operations, WaitUntilDue \/ RunBackend
  PROVE  Wake'
<1>1. /\ pc[Manager] = "loop" /\ ActiveLinked /\ FlushTime # NoTime /\ FlushTime' # NoTime
      /\ UNCHANGED <<Registered, ShutdownFlag, dataLock, firstData, oldest, Current, ReadyList>>
  <2>1. FlushTime # NoTime /\ FlushTime' # NoTime
    <3>1. CASE WaitUntilDue
      <4>1. FlushTime > Due + ScheduledRunGap /\ FlushTime' = FlushTime
        BY <3>1 DEF WaitUntilDue
      <4>2. QED
        BY <4>1, ParameterFacts
    <3>2. CASE RunBackend
      <4>1. /\ FlushTime \in RIGHT_NOW..(Due + ScheduledRunGap)
            /\ FlushTime' = IF FlushTime > Due THEN RIGHT_NOW ELSE FlushTime
        BY <3>2 DEF RunBackend
      <4>2. QED
        BY <4>1, ParameterFacts
    <3>3. QED
      BY <3>1, <3>2
  <2>2. QED
    BY <2>1 DEF WaitUntilDue, RunBackend, flags, queue, append, worker
<1>2. Registered \/ ShutdownFlag
  BY <1>1 DEF Wake, Untouched
<1>3. CASE WaitUntilDue
  <2>1. /\ pc' = [pc EXCEPT ![Manager] = "sleep"] /\ timer' = FlushTime
        /\ UNCHANGED <<FlushTime, ActiveLinked, Reschedule>>
    BY <1>3 DEF WaitUntilDue, Goto, manager
  <2>2. "sleep" \in ManagerLabels
    BY DEF ManagerLabels
  <2>3. pc'[Manager] = "sleep" /\ \A c \in Callers : pc'[c] = pc[c]
    BY <1>1, <2>1, <2>2, CallersStay
  <2>4. NothingForgotten'
    <3>1. \A d \in Callers : pc'[d] = "enqueue" /\ dataLock' = d => firstData'
      BY <1>1, <2>3 DEF Wake, NothingForgotten
    <3>2. QED
      BY <1>1, <2>3, <3>1 DEF NothingForgotten
  <2>5. Told'
    BY <1>1, <2>1, <2>3 DEF Told
  <2>6. QED
    BY <1>1, <1>2, <2>1, <2>2, <2>4, <2>5, ManagerKeeps
<1>4. CASE RunBackend
  <2>1. pc' = [pc EXCEPT ![Manager] = "run"] /\ timer' = timer
    BY <1>4 DEF RunBackend, Goto, worker
  <2>2. "run" \in ManagerLabels
    BY DEF ManagerLabels
  <2>3. pc'[Manager] = "run" /\ \A c \in Callers : pc'[c] = pc[c]
    BY <1>1, <2>1, <2>2, CallersStay
  <2>4. NothingForgotten'
    <3>1. \A d \in Callers : pc'[d] = "enqueue" /\ dataLock' = d => firstData'
      BY <1>1, <2>3 DEF Wake, NothingForgotten
    <3>2. QED
      BY <1>1, <2>3, <3>1 DEF NothingForgotten
  <2>5. Told'
    BY <1>1, <2>1, <2>3 DEF Wake, Told
  <2>6. QED
    BY <1>1, <1>2, <2>1, <2>2, <2>4, <2>5, ManagerKeeps
<1>5. QED
  BY <1>3, <1>4

LEMMA WorkerKeepsWake ==
  ASSUME IndInv, Wake, UNCHANGED operations,
         WorkerFunc \/ TakeReady \/ NothingReady
  PROVE  Wake'
<1> DEFINE l == IF pc[Manager] = "run" THEN "take"
                ELSE IF ReadyList # <<>> THEN "write"
                ELSE IF forceFlush \/ draining THEN "publish" ELSE "update"
<1>1. /\ pc[Manager] \in {"run", "take"} /\ pc' = [pc EXCEPT ![Manager] = l]
      /\ UNCHANGED <<Registered, ShutdownFlag, dataLock, firstData, FlushTime, timer>>
  BY DEF WorkerFunc, TakeReady, NothingReady, Goto, flags, append, worker
<1>2. l \in Working /\ l # "store" /\ pc[Manager] \in Working
  BY <1>1 DEF Working
<1> HIDE DEF l
<1>3. QED
  BY <1>1, <1>2, WorkingKeeps

LEMMA WritingKeepsWake ==
  ASSUME IndInv, Wake, UNCHANGED operations, WriteReadyData \/ Publish(Manager)
  PROVE  Wake'
<1>1. /\ pc[Manager] \in Working
      /\ UNCHANGED <<Registered, ShutdownFlag, dataLock, firstData, FlushTime, timer>>
  BY DEF WriteReadyData, Publish, TakeReplacement, SwapCurrent, NothingToPublish, EnqueueReady,
         Working, flags, append, worker
<1>2. \E l \in (Working \cup {"store", "worked", "drain", "called"}) \ {"store"} :
        pc' = [pc EXCEPT ![Manager] = l]
  <2> DEFINE L == (Working \cup {"store", "worked", "drain", "called"}) \ {"store"}
  <2>1. "take" \in L /\ "update" \in L /\ "drain" \in L /\ "swap" \in L /\ "called" \in L
        /\ "enqueue" \in L
    BY DEF Working
  <2> HIDE DEF L
  <2>2. NextLoop => \E l \in L : pc' = [pc EXCEPT ![Manager] = l]
    BY <2>1 DEF NextLoop, Goto
  <2>3. WriteReadyData => \E l \in L : pc' = [pc EXCEPT ![Manager] = l]
    BY <2>1, <2>2 DEF WriteReadyData, Goto
  <2>4. NotPublished(Manager) => \E l \in L : pc' = [pc EXCEPT ![Manager] = l]
    BY <2>1 DEF NotPublished, Goto
  <2>5. Published(Manager) => \E l \in L : pc' = [pc EXCEPT ![Manager] = l]
    BY <2>1, <2>2 DEF Published, Goto
  <2>6. Publish(Manager) => \E l \in L : pc' = [pc EXCEPT ![Manager] = l]
    BY <2>1, <2>4, <2>5
       DEF Publish, TakeReplacement, SwapCurrent, NothingToPublish, EnqueueReady, Goto
  <2>7. QED
    BY <2>3, <2>6 DEF L
<1>3. PICK l \in (Working \cup {"store", "worked", "drain", "called"}) \ {"store"} :
        pc' = [pc EXCEPT ![Manager] = l]
  BY <1>2
<1>4. QED
  BY <1>1, <1>3, WorkingKeeps

(* What UpdateFlushTimeAfterWork has cleared FlushTime for it looks at again.  *)
LEMMA LookingAgainKeeps ==
  ASSUME IndInv, Wake, NEW l \in ManagerLabels \ {"loop", "sleep", "remove"},
         pc[Manager] \in {"clear", "update again", "current again", "ready", "flag again", "store"},
         pc' = [pc EXCEPT ![Manager] = l],
         UNCHANGED <<operations, Registered, ShutdownFlag, dataLock, firstData, timer, Current,
                     ReadyList>>,
         l = "store" => oldest' # NoTime,
         FlushTime' = NoTime =>
           /\ l \in {"update again", "current again", "store", "ready", "flag again", "worked"}
           /\ l = "flag again" => (ReadyList # <<>> => Asked)
           /\ l = "worked" => (Current > 0 \/ ReadyList # <<>> => Asked)
  PROVE  Wake'
<1>1. /\ pc'[Manager] = l /\ \A c \in Callers : pc'[c] = pc[c]
      /\ (Asked <=> Asked')
  BY CallersStay
<1>2. Registered \/ ShutdownFlag
  BY DEF Wake, Untouched
<1>3. NothingForgotten'
  <2>1. \A d \in Callers : pc'[d] = "enqueue" /\ dataLock' = d => firstData'
    BY <1>1 DEF Wake, NothingForgotten
  <2>2. QED
    BY <1>1, <2>1 DEF NothingForgotten
<1>4. Told'
  BY <1>1 DEF Wake, Told
<1>5. QED
  BY <1>2, <1>3, <1>4, ManagerKeeps

LEMMA UpdateKeepsWake ==
  ASSUME IndInv, Wake, UNCHANGED operations, UpdateFlushTimeAfterWork
  PROVE  Wake'
<1>1. CASE ReadReadyTime("update", "current")
  <2>1. /\ pc[Manager] = "update" /\ pc' = [pc EXCEPT ![Manager] = "current"]
        /\ UNCHANGED <<Registered, ShutdownFlag, dataLock, firstData, FlushTime, timer>>
    BY <1>1 DEF ReadReadyTime, Goto, flags, append
  <2>2. "current" \in Working /\ "update" \in Working
    BY DEF Working
  <2>3. QED
    BY <2>1, <2>2, WorkingKeeps
<1>2. CASE ReadCurrentTime("current", "flag")
  <2> DEFINE l == IF oldest' # NoTime THEN "store" ELSE "flag"
  <2>1. /\ pc[Manager] = "current" /\ pc' = [pc EXCEPT ![Manager] = l]
        /\ UNCHANGED <<Registered, ShutdownFlag, dataLock, firstData, FlushTime, timer>>
    BY <1>2 DEF ReadCurrentTime, Goto, flags, append
  <2>2. /\ l \in Working \cup {"store", "worked", "drain", "called"} /\ "current" \in Working
        /\ l = "store" => oldest' # NoTime
    BY DEF Working
  <2> HIDE DEF l
  <2>3. QED
    BY <2>1, <2>2, WorkingKeeps
<1>3. CASE TestCurrentFlag
  <2> DEFINE l == IF Current > 0 THEN "worked" ELSE "clear"
  <2>1. /\ pc[Manager] = "flag" /\ pc' = [pc EXCEPT ![Manager] = l]
        /\ UNCHANGED <<Registered, ShutdownFlag, dataLock, firstData, FlushTime, timer>>
    BY <1>3 DEF TestCurrentFlag, Goto, flags, append, worker
  <2>2. /\ l \in Working \cup {"store", "worked", "drain", "called"} /\ "flag" \in Working
        /\ l # "store"
    BY DEF Working
  <2> HIDE DEF l
  <2>3. QED
    BY <2>1, <2>2, WorkingKeeps
<1>4. CASE ClearFlushTime
  <2>1. /\ pc[Manager] = "clear" /\ pc' = [pc EXCEPT ![Manager] = "update again"]
        /\ UNCHANGED <<Registered, ShutdownFlag, dataLock, firstData, timer, Current, ReadyList>>
    BY <1>4 DEF ClearFlushTime, Goto, flags, queue, append, worker
  <2>2. "update again" \in ManagerLabels \ {"loop", "sleep", "remove"}
    BY DEF ManagerLabels
  <2>3. QED
    BY <2>1, <2>2, LookingAgainKeeps
<1>5. CASE ReadReadyTime("update again", "current again")
  <2>1. /\ pc[Manager] = "update again" /\ pc' = [pc EXCEPT ![Manager] = "current again"]
        /\ UNCHANGED <<Registered, ShutdownFlag, dataLock, firstData, timer, Current, ReadyList>>
    BY <1>5 DEF ReadReadyTime, Goto, flags, queue, append
  <2>2. "current again" \in ManagerLabels \ {"loop", "sleep", "remove"}
    BY DEF ManagerLabels
  <2>3. QED
    BY <2>1, <2>2, LookingAgainKeeps
<1>6. CASE ReadCurrentTime("current again", "ready")
  <2> DEFINE l == IF oldest' # NoTime THEN "store" ELSE "ready"
  <2>1. /\ pc[Manager] = "current again" /\ pc' = [pc EXCEPT ![Manager] = l]
        /\ UNCHANGED <<Registered, ShutdownFlag, dataLock, firstData, timer, Current, ReadyList>>
    BY <1>6 DEF ReadCurrentTime, Goto, flags, queue, append
  <2>2. /\ l \in ManagerLabels \ {"loop", "sleep", "remove"} /\ l \in {"store", "ready"}
        /\ l = "store" => oldest' # NoTime
    BY DEF ManagerLabels
  <2> HIDE DEF l
  <2>3. QED
    BY <2>1, <2>2, LookingAgainKeeps
<1>7. CASE TestHasReady
  <2> DEFINE l == IF ReadyList # <<>> THEN "worked" ELSE "flag again"
  <2>1. /\ pc[Manager] = "ready" /\ pc' = [pc EXCEPT ![Manager] = l]
        /\ ReadyList # <<>> => FlushTime' = RIGHT_NOW
        /\ UNCHANGED <<Registered, ShutdownFlag, dataLock, firstData, timer, Current, ReadyList>>
    BY <1>7 DEF TestHasReady, Goto, flags, queue, append, worker
  <2>2. /\ l \in ManagerLabels \ {"loop", "sleep", "remove"} /\ l \in {"worked", "flag again"}
        /\ l = "worked" <=> ReadyList # <<>>
    BY DEF ManagerLabels
  <2>3. RIGHT_NOW # NoTime
    BY ParameterFacts
  <2> HIDE DEF l
  <2>4. QED
    BY <2>1, <2>2, <2>3, LookingAgainKeeps
<1>8. CASE TestCurrentFlagAgain
  <2>1. /\ pc[Manager] = "flag again" /\ pc' = [pc EXCEPT ![Manager] = "worked"]
        /\ FlushTime' = IF Current > 0 THEN Later ELSE FlushTime
        /\ UNCHANGED <<Registered, ShutdownFlag, dataLock, firstData, timer, Current, ReadyList>>
    BY <1>8 DEF TestCurrentFlagAgain, Goto, flags, queue, append, worker
  <2>2. "worked" \in ManagerLabels \ {"loop", "sleep", "remove"}
    BY DEF ManagerLabels
  <2>3. Later # NoTime
    BY ParameterFacts
  <2>4. CASE Registered
    <3>1. FlushTime' = NoTime => ~(Current > 0) /\ (ReadyList # <<>> => Asked)
      BY <2>1, <2>3, <2>4 DEF Wake, NothingForgotten
    <3>2. QED
      BY <2>1, <2>2, <3>1, LookingAgainKeeps
  <2>5. CASE ~Registered
    <3>1. ShutdownFlag
      BY <2>1, <2>5 DEF Wake, Untouched
    <3>2. "worked" \in ManagerLabels \ {"sleep", "store", "remove"}
      BY DEF ManagerLabels
    <3>3. QED
      BY <2>1, <2>5, <3>1, <3>2, StoppingKeeps
  <2>6. QED
    BY <2>4, <2>5
<1>9. CASE UpdateFromOldest
  <2>1. /\ pc[Manager] = "store" /\ pc' = [pc EXCEPT ![Manager] = "worked"]
        /\ FlushTime' = IF oldest = Due THEN RIGHT_NOW ELSE oldest
        /\ UNCHANGED <<Registered, ShutdownFlag, dataLock, firstData, timer, Current, ReadyList>>
    BY <1>9 DEF UpdateFromOldest, Goto, flags, queue, append
  <2>2. "worked" \in ManagerLabels \ {"loop", "sleep", "remove"}
    BY DEF ManagerLabels
  <2>3. oldest # NoTime
    BY <2>1 DEF Wake, NothingForgotten
  <2>4. FlushTime' # NoTime
    BY <2>1, <2>3, ParameterFacts
  <2>5. QED
    BY <2>1, <2>2, <2>4, LookingAgainKeeps
<1>10. QED
  BY <1>1, <1>2, <1>3, <1>4, <1>5, <1>6, <1>7, <1>8, <1>9 DEF UpdateFlushTimeAfterWork

LEMMA ReturnKeepsWake ==
  ASSUME IndInv, Wake, UNCHANGED operations, WorkerReturns \/ Reactivate
  PROVE  Wake'
<1> DEFINE l == IF pc[Manager] = "reactivate" THEN "loop"
                ELSE IF ShutdownFlag THEN "remove" ELSE "reactivate"
<1>1. /\ pc[Manager] \in {"worked", "reactivate"} /\ pc' = [pc EXCEPT ![Manager] = l]
      /\ pc[Manager] = "reactivate" => ActiveLinked' = (FlushTime # NoTime)
      /\ UNCHANGED <<Registered, ShutdownFlag, FlushTime, dataLock, firstData, timer, Current,
                     ReadyList>>
  BY DEF WorkerReturns, Reactivate, Goto, flags, queue, append, worker
<1>2. /\ l \in ManagerLabels /\ l \in {"loop", "remove", "reactivate"}
      /\ l = "remove" => ShutdownFlag
      /\ l = "loop" => pc[Manager] = "reactivate"
  BY DEF ManagerLabels
<1> HIDE DEF l
<1>3. /\ pc'[Manager] = l /\ \A c \in Callers : pc'[c] = pc[c]
      /\ Asked <=> Asked'
  BY <1>1, <1>2, CallersStay
<1>4. Registered \/ ShutdownFlag
  BY <1>1 DEF Wake, Untouched
<1>5. NothingForgotten'
  <2>1. \A d \in Callers : pc'[d] = "enqueue" /\ dataLock' = d => firstData'
    BY <1>1, <1>3 DEF Wake, NothingForgotten
  <2>2. Registered /\ FlushTime = NoTime => (Current > 0 \/ ReadyList # <<>> => Asked)
    BY <1>1 DEF Wake, NothingForgotten
  <2>3. QED
    BY <1>1, <1>2, <1>3, <2>1, <2>2 DEF NothingForgotten
<1>6. Told'
  BY <1>1, <1>2, <1>3 DEF Wake, Told
<1>7. QED
  BY <1>1, <1>2, <1>4, <1>5, <1>6, ManagerKeeps

LEMMA RemoveBackendKeepsWake ==
  ASSUME IndInv, Wake, UNCHANGED operations, RemoveBackend
  PROVE  Wake'
<1>1. /\ pc[Manager] = "remove" /\ pc' = [pc EXCEPT ![Manager] = "drain"] /\ Registered' = FALSE
      /\ UNCHANGED <<ShutdownFlag, dataLock, firstData, timer>>
  BY DEF RemoveBackend, Goto, append
<1>2. ShutdownFlag
  BY <1>1 DEF Wake, Untouched
<1>3. "drain" \in ManagerLabels
  BY DEF ManagerLabels
<1>4. pc'[Manager] = "drain" /\ \A c \in Callers : pc'[c] = pc[c]
  BY <1>1, <1>3, CallersStay
<1>5. Untouched'
  <2>1. \A c \in Callers : pc'[c] \notin {"register", "registered"}
    BY <1>2, <1>4 DEF Wake, Untouched
  <2>2. QED
    BY <1>1, <1>2, <1>4, <2>1 DEF Untouched
<1>6. NothingForgotten'
  <2>1. \A d \in Callers : pc'[d] = "enqueue" /\ dataLock' = d => firstData'
    BY <1>1, <1>4 DEF Wake, NothingForgotten
  <2>2. QED
    BY <1>1, <1>4, <2>1 DEF NothingForgotten
<1>7. Told'
  BY <1>1, <1>4 DEF Wake, Told
<1>8. QED
  BY <1>5, <1>6, <1>7 DEF Wake

LEMMA StopKeepsWake ==
  ASSUME IndInv, Wake, Removed, UNCHANGED operations,
         LoopStops \/ DrainQueue \/ SetShutdownCalled
  PROVE  Wake'
<1> DEFINE l == IF pc[Manager] = "loop" THEN "stopped"
                ELSE IF pc[Manager] = "called" THEN "loop"
                ELSE IF QueuedBytes # 0 THEN "take" ELSE "called"
<1>1. /\ pc[Manager] \in {"loop", "drain", "called"} /\ pc' = [pc EXCEPT ![Manager] = l]
      /\ pc[Manager] = "loop" => StopRequested
      /\ UNCHANGED <<Registered, ShutdownFlag, dataLock, firstData, timer>>
  BY DEF LoopStops, DrainQueue, SetShutdownCalled, Goto, flags, append, worker
<1>2. l \in ManagerLabels \ {"sleep", "store", "remove"}
  BY DEF ManagerLabels
<1>3. StopRequested \/ draining
  BY <1>1 DEF Removed, IndInv, InProgress
<1>4. ~Registered /\ ShutdownFlag
  BY <1>3 DEF Removed
<1> HIDE DEF l
<1>5. QED
  BY <1>1, <1>2, <1>4, StoppingKeeps

LEMMA TickKeepsWake ==
  ASSUME IndInv, Wake, UNCHANGED operations, Tick
  PROVE  Wake'
<1>1. /\ FlushTime' = Nearer(FlushTime) /\ oldest' = Nearer(oldest) /\ timer' = Nearer(timer)
      /\ ReadyList' = [i \in 1..Len(ReadyList) |-> [ReadyList[i] EXCEPT !.first = Nearer(@)]]
      /\ UNCHANGED <<Registered, ShutdownFlag, pc, dataLock, firstData, Current, ActiveLinked,
                     Reschedule>>
  BY DEF Tick, flags, manager
<1>2. /\ FlushTime' = NoTime <=> FlushTime = NoTime
      /\ oldest' = NoTime <=> oldest = NoTime
      /\ timer' = NoTime <=> timer = NoTime
      /\ timer = FlushTime => timer' = FlushTime'
  <2>1. FlushTime \in Times /\ oldest \in Times /\ timer \in Times
    BY Known DEF TypeOK, Times
  <2>2. QED
    BY <1>1, <2>1, NearerKeeps
<1>3. ReadyList' = <<>> <=> ReadyList = <<>>
  <2>1. ReadyList \in Seq(Buffers)
    BY Known DEF TypeOK
  <2>2. Len(ReadyList) \in Nat /\ DOMAIN ReadyList = 1..Len(ReadyList)
    BY <2>1, LenProperties
  <2>3. DOMAIN ReadyList' = DOMAIN ReadyList
    BY <1>1, <2>2
  <2>4. ReadyList = <<>> => ReadyList' = <<>>
    BY <1>1, EmptySeq
  <2>5. ReadyList' = <<>> => ReadyList = <<>>
    <3>1. SUFFICES ASSUME ReadyList' = <<>> PROVE ReadyList = <<>>
      OBVIOUS
    <3>2. DOMAIN ReadyList = {}
      BY <2>3, <3>1
    <3>3. Len(ReadyList) = 0
      BY <2>2, <3>2
    <3>4. QED
      BY <2>1, <3>3, EmptySeq
  <2>6. QED
    BY <2>4, <2>5
<1>4. (Asked <=> Asked') /\ (Telling <=> Telling')
  <2>1. \A c \in Callers : Asking(c) <=> Asking(c)'
    BY <1>1 DEF Asking
  <2>2. QED
    BY <1>1, <2>1 DEF Asked, Telling
<1>5. Untouched'
  BY <1>1, <1>2, <1>3 DEF Wake, Untouched
<1>6. NothingForgotten'
  BY <1>1, <1>2, <1>3, <1>4 DEF Wake, NothingForgotten
<1>7. Told'
  BY <1>1, <1>2, <1>4 DEF Wake, Told
<1>8. QED
  BY <1>5, <1>6, <1>7 DEF Wake

LEMMA CallerKeepsRemoved ==
  ASSUME IndInv, Wake, Removed, NEW c \in Callers,
         Display(c) \/ Flush(c) \/ Freeze(c) \/ CallStep(c)
  PROVE  Removed'
<1>1. UNCHANGED <<StopRequested, draining>>
  BY DEF Display, Flush, Freeze, CallStep, FactoryAdd, SetRegistered, LoadFlushTime, AppendFits,
         AppendFull, AppendDrops, CountQueued, DecideRequest, RequestRejected, RequestAccepted,
         Notify, FlushReturns, Publish, TakeReplacement, SwapCurrent, NothingToPublish,
         EnqueueReady, manager, worker
<1>2. ShutdownFlag => ShutdownFlag' /\ Registered' = Registered
  <2>1. SetRegistered(c) => ~ShutdownFlag
    BY DEF SetRegistered, Wake, Untouched
  <2>2. QED
    BY <2>1
       DEF Display, Flush, Freeze, CallStep, FactoryAdd, LoadFlushTime, AppendFits,
           AppendFull, AppendDrops, CountQueued, DecideRequest, RequestRejected, RequestAccepted,
           Notify, FlushReturns, Publish, TakeReplacement, SwapCurrent, NothingToPublish,
           EnqueueReady, flags
<1>3. pc'[Manager] = "called" => pc[Manager] = "called"
  <2>1. DOMAIN pc = Threads /\ c \in Threads /\ Manager \in Threads /\ c # Manager
    BY Known, ParameterFacts
  <2>2. CASE FactoryAdd(c)
    BY <2>1, <2>2 DEF FactoryAdd
  <2>3. CASE ~FactoryAdd(c)
    BY <2>1, <2>3
       DEF Display, Flush, Freeze, CallStep, SetRegistered, LoadFlushTime, AppendFits,
           AppendFull, AppendDrops, CountQueued, DecideRequest, RequestRejected, RequestAccepted,
           Notify, AfterRequest, FlushReturns, Publish, TakeReplacement, SwapCurrent,
           NothingToPublish, NotPublished, EnqueueReady, Published, Goto
  <2>4. QED
    BY <2>2, <2>3
<1>4. QED
  BY <1>1, <1>2, <1>3 DEF Removed

LEMMA ManagerKeepsRemoved ==
  ASSUME IndInv, Wake, Removed, ManagerStep
  PROVE  Removed'
<1>1. DOMAIN pc = Threads /\ Manager \in Threads
  BY Known, ParameterFacts
<1>2. CASE RemoveBackend
  <2>1. pc[Manager] = "remove"
    BY <1>2 DEF RemoveBackend
  <2>2. ShutdownFlag
    BY <2>1 DEF Wake, Untouched
  <2>3. ShutdownFlag' /\ Registered' = FALSE /\ draining'
    BY <1>2, <2>2 DEF RemoveBackend
  <2>4. QED
    BY <2>3 DEF Removed
<1>3. CASE SetShutdownCalled
  BY <1>1, <1>3 DEF SetShutdownCalled, Goto, manager, Removed
<1>4. CASE ~RemoveBackend /\ ~SetShutdownCalled
  <2>1. UNCHANGED <<StopRequested, draining, ShutdownFlag, Registered>>
    BY <1>4 DEF ManagerStep, LoopStops, WaitIdle, WaitUntilDue, WakeUp, RunBackend, WorkerFunc,
                TakeReady, NothingReady, WriteReadyData, Publish, TakeReplacement, SwapCurrent,
                NothingToPublish, EnqueueReady, UpdateFlushTimeAfterWork, ReadReadyTime,
                ReadCurrentTime, TestCurrentFlag, ClearFlushTime, TestHasReady,
                TestCurrentFlagAgain, UpdateFromOldest, WorkerReturns, Reactivate, DrainQueue,
                flags, manager, worker
  <2>2. pc'[Manager] = "called" => draining
    <3>1. CASE DrainQueue
      BY <1>1, <3>1 DEF DrainQueue, IndInv, InProgress
    <3>2. CASE WriteReadyData \/ Publish(Manager)
      BY <1>1, <3>2 DEF WriteReadyData, Publish, TakeReplacement, SwapCurrent, NothingToPublish,
                        NotPublished, EnqueueReady, Published, NextLoop, Goto
    <3>3. CASE ~DrainQueue /\ ~WriteReadyData /\ ~Publish(Manager)
      BY <1>1, <1>4, <3>3
         DEF ManagerStep, LoopStops, WaitIdle, WaitUntilDue, WakeUp, RunBackend, WorkerFunc,
             TakeReady, NothingReady, UpdateFlushTimeAfterWork, ReadReadyTime, ReadCurrentTime,
             TestCurrentFlag, ClearFlushTime, TestHasReady, TestCurrentFlagAgain,
             UpdateFromOldest, WorkerReturns, Reactivate, Goto
    <3>4. QED
      BY <3>1, <3>2, <3>3
  <2>3. QED
    BY <2>1, <2>2 DEF Removed
<1>5. QED
  BY <1>2, <1>3, <1>4

(* Flush() of a backend nobody has used yet is the one case in which a wakeup *)
(* is lost (FileBackend::Flush publishes and asks, FileManager::Notify ignores *)
(* a backend that is not registered): what follows is about the others.        *)
UsedBeforeFlush == \A s \in Scenarios : "flush" \in s.operations => s.registered

LEMMA InitWake ==
  ASSUME UsedBeforeFlush, Init
  PROVE  Wake /\ Removed
<1>1. /\ \E s \in Scenarios : operations = s.operations /\ Registered = s.registered
      /\ FlushTime = NoTime /\ ShutdownFlag = FALSE /\ Current = 0 /\ ReadyList = <<>>
      /\ ActiveLinked = FALSE /\ StopRequested = FALSE /\ dataLock = None
      /\ pc = [t \in Threads |->
                 IF t # Manager THEN "idle" ELSE IF Registered THEN "loop" ELSE "off"]
      /\ draining = FALSE /\ timer = NoTime
  BY DEF Init
<1>2. /\ \A c \in Callers : pc[c] = "idle"
      /\ pc[Manager] \in {"loop", "off"} /\ (pc[Manager] = "off" => ~Registered)
  BY <1>1, ParameterFacts
<1>3. ~Registered => "flush" \notin operations
  BY <1>1 DEF UsedBeforeFlush
<1>4. Untouched
  BY <1>1, <1>2, <1>3 DEF Untouched
<1>5. NothingForgotten
  <2>1. ~(Current > 0 \/ ReadyList # <<>>)
    BY <1>1
  <2>2. QED
    BY <1>2, <2>1 DEF NothingForgotten
<1>6. Told
  BY <1>1, <1>2 DEF Told
<1>7. Removed
  BY <1>1, <1>2 DEF Removed
<1>8. QED
  BY <1>4, <1>5, <1>6, <1>7 DEF Wake

LEMMA WakePreserved ==
  ASSUME IndInv, Wake, Removed, [Next]_<<operations, vars>>
  PROVE  Wake' /\ Removed'
<1>1. ASSUME UNCHANGED operations, NEW c \in Callers, Display(c) \/ Flush(c) \/ Freeze(c)
      PROVE  Wake' /\ Removed'
  BY <1>1, DisplayKeepsWake, FlushKeepsWake, FreezeKeepsWake, CallerKeepsRemoved
<1>2. ASSUME UNCHANGED operations, NEW c \in Callers, CallStep(c)
      PROVE  Wake' /\ Removed'
  <2>1. Removed'
    BY <1>2, CallerKeepsRemoved
  <2>2. Wake'
    BY <1>2, RegisterKeepsWake, DisplayKeepsWake, AppendKeepsWake, DecideKeepsWake,
       FlushKeepsWake, NotifyKeepsWake, PublishKeepsWake DEF CallStep
  <2>3. QED
    BY <2>1, <2>2
<1>3. ASSUME UNCHANGED operations, ManagerStep
      PROVE  Wake' /\ Removed'
  <2>1. Removed'
    BY <1>3, ManagerKeepsRemoved
  <2>2. Wake'
    BY <1>3, LoopKeepsWake, HeadKeepsWake, WorkerKeepsWake, WritingKeepsWake, UpdateKeepsWake,
       ReturnKeepsWake, RemoveBackendKeepsWake, StopKeepsWake DEF ManagerStep
  <2>3. QED
    BY <2>1, <2>2
<1>4. ASSUME UNCHANGED operations, Tick
      PROVE  Wake' /\ Removed'
  <2>1. Removed'
    BY <1>4 DEF Tick, Removed, flags, manager
  <2>2. QED
    BY <1>4, <2>1, TickKeepsWake
<1>5. CASE UNCHANGED <<operations, vars>>
  <2>1. UNCHANGED operations /\ UNCHANGED vars
    BY <1>5
  <2>2. QED
    BY <2>1 DEF vars, flags, queue, manager, append, worker, Wake, Untouched, NothingForgotten,
                Told, Asked, Asking, Telling, Removed
<1>6. QED
  BY <1>1, <1>2, <1>3, <1>4, <1>5 DEF Next

(* A manager that sleeps while nobody is about to ask or to tell has nothing   *)
(* in the queue, or a timer that is the FlushTime that stands.                 *)
LEMMA WakeGivesNoLostWakeup ==
  ASSUME IndInv, Wake
  PROVE  NoLostWakeup
<1>1. SUFFICES ASSUME Sleeping, Registered, \A c \in Callers : ~Busy(c)
               PROVE  IF timer = NoTime THEN QueuedBytes = 0 /\ FlushTime = NoTime
                                        ELSE FlushTime = timer
  BY DEF NoLostWakeup
<1>2. /\ pc[Manager] = "sleep" /\ ~Reschedule
      /\ \A c \in Callers : pc[c] \in {"idle", "wait"}
  BY <1>1 DEF Sleeping, Busy
<1>3. timer = FlushTime
  BY <1>1, <1>2 DEF Wake, Told, Telling
<1>4. ASSUME FlushTime = NoTime
      PROVE  QueuedBytes = 0
  <2>1. ~Asked
    BY <1>2 DEF Asked, Asking
  <2>2. ~(Current > 0) /\ ReadyList = <<>>
    BY <1>1, <1>2, <1>4, <2>1 DEF Wake, NothingForgotten
  <2>3. batch = <<>> /\ \A t \in Threads : hand[t] = NoBuffer
    BY <1>2, ParameterFacts DEF IndInv, Bounded
  <2>4. ReadyRecords = 0
    <3> DEFINE f == [i \in DOMAIN ReadyList |-> ReadyList[i].size]
    <3>1. DOMAIN f = {}
      BY <2>2, EmptySeq
    <3> HIDE DEF f
    <3>2. Records(f) = 0
      BY <3>1, RecordsOfNone
    <3>3. QED
      BY <3>2 DEF f, ReadyRecords
  <2>5. HandRecords = 0
    <3> DEFINE f == [t \in Threads |-> hand[t].size]
    <3>1. \A t \in DOMAIN f : f[t] = 0
      BY <2>3 DEF NoBuffer
    <3> HIDE DEF f
    <3>2. Records(f) = 0
      BY <3>1, RecordsOfNone
    <3>3. QED
      BY <3>2 DEF f, HandRecords
  <2>6. BatchRecords = 0
    <3>1. \A i \in DOMAIN batch : batch[i] = 0
      BY <2>3, EmptySeq
    <3>2. QED
      BY <3>1, RecordsOfNone DEF BatchRecords
  <2>7. Uncounted = 0
    <3>1. dataLock = None
      BY <1>2, Known DEF TypeOK, Holding
    <3>2. QED
      BY <3>1 DEF Uncounted
  <2>8. Current = 0
    BY <2>2, Numbers
  <2>9. QED
    BY <2>4, <2>5, <2>6, <2>7, <2>8, Numbers DEF Exact
<1>5. QED
  BY <1>3, <1>4

(* FileManager's thread never sleeps through a record or a FlushTime: not when *)
(* several callers log, flush, freeze and register at once, and not while      *)
(* UpdateFlushTimeAfterWork clears FlushTime behind their backs.               *)
THEOREM NoLostWakeupHolds == UsedBeforeFlush /\ Spec => []NoLostWakeup
<1>1. UsedBeforeFlush /\ Spec => [](Wake /\ Removed)
  <2>1. UsedBeforeFlush /\ Init => Wake /\ Removed
    BY InitWake
  <2>2. IndInv /\ Wake /\ Removed /\ [Next]_<<operations, vars>> => (Wake /\ Removed)'
    BY WakePreserved
  <2>3. QED
    BY <2>1, <2>2, IndInvHolds, PTL DEF Spec
<1>2. IndInv /\ Wake => NoLostWakeup
  BY WakeGivesNoLostWakeup
<1>3. QED
  BY <1>1, <1>2, IndInvHolds, PTL
=============================================================================
