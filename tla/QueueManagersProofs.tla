------------------------- MODULE QueueManagersProofs -------------------------
(***************************************************************************)
(* Proofs about the console's, the debug and the event log manager: every   *)
(* record displayed is in one place, once, and comes out in order; a flush   *)
(* returns when what it waits for is written; the first backend of an event  *)
(* log that goes leaves nothing behind.                                      *)
(*                                                                         *)
(* The argument has two halves.  Base says who has what where he is: it is   *)
(* shown action by action, each changing one caller or one worker while the  *)
(* others stay.  With it every step is one of six things that can happen to  *)
(* the records (DataStep), and what is said of the records is shown of       *)
(* those: that the places share nothing and hold everything (Kept), that     *)
(* what is in a manager's queue or with its worker it has taken (Taken), and  *)
(* that it has been taken in that order (Ordered).                           *)
(***************************************************************************)
EXTENDS QueueManagers, SequenceTheorems, FiniteSetTheorems, TLAPS

Labels ==
  {"idle", "add", "adding", "registered", "push", "drain push", "write push", "refused",
   "flush", "drain flush", "write flush", "flushed", "remove", "write remove", "removing",
   "forget"}

WorkerLabels ==
  {"none", "test", "blocking", "blocked", "write", "finish", "stop", "ended"}

(* A caller has a record from Display to the manager, a manager from the       *)
(* factory to the end of its call, and a batch only while it writes.           *)
Displaying == {"add", "adding", "registered", "push", "drain push", "write push", "refused"}
Managing   == Labels \ {"idle", "add", "registered"}
Writing    == {"write push", "write flush", "write remove"}
Flushing   == {"flush", "drain flush", "write flush", "flushed"}
Leaving    == {"remove", "write remove", "removing", "forget"}

Records == Nat \ {0}

(* The shape of the records' places. *)
DataShape ==
  /\ Buffer \in [Managers -> Seq(Records)]
  /\ batch \in [Threads \cup Managers -> Seq(Records)]
  /\ accepted \in [Managers -> Seq(Records)]
  /\ written \in Seq(Records) /\ drained \subseteq Managers
  /\ owner \in Seq(Threads) /\ record \in [Threads -> 0..Len(owner)]

(* The shape of everything else. *)
QueueShape ==
  /\ kind \in Kinds /\ policy \in Policies \cup {"block"} /\ QueueLimit \in QueueLimits
  /\ StopRequested \in [Managers -> BOOLEAN] /\ Reschedule \in [Managers -> BOOLEAN]
  /\ Processing \in [Managers -> BOOLEAN] /\ stopping \in [Managers -> BOOLEAN]
  /\ Backends \in [Managers -> SUBSET Threads]
  /\ worker \in [Managers -> WorkerLabels]
  /\ life \in [Managers -> {"alive", "join", "gone"}]

(* The managers made so far, or none. *)
Known == 0..created

CallShape ==
  /\ created \in 0..Cardinality(Managers) /\ Instance \in Known
  /\ factoryLock \in Threads \cup {None}
  /\ Registered \in [Threads -> BOOLEAN] /\ frozen \in [Threads -> BOOLEAN]
  /\ closing \in BOOLEAN
  /\ pc \in [Threads -> Labels] /\ next \in [Threads -> {"idle", "flush"}]
  /\ Manager \in [Threads -> Known] /\ manager \in [Threads -> Known]
  /\ DOMAIN pending = Threads

Limited == \A m \in Managers : Len(Buffer[m]) <= QueueLimit

Flushes == flushes \in Nat /\ flushes <= MaxFlushes + Cardinality({t \in Threads : frozen[t]})

(* What a caller has, where it is. *)
ControlOf(t) ==
  /\ record[t] # None <=> pc[t] \in Displaying
  /\ manager[t] # None <=> pc[t] \in Managing
  /\ batch[t] # <<>> => pc[t] \in Writing
  /\ pc[t] \in Writing => manager[t] \in drained
  /\ pc[t] \in {"refused", "write remove", "removing"} => ~IsConsole
  /\ pc[t] \in Leaving => frozen[t]
  /\ frozen[t] => ~Registered[t] /\ pc[t] \notin Displaying
  /\ pc[t] \in {"add", "adding"} => ~Registered[t]
  /\ IsConsole /\ pc[t] = "registered" => Registered[t]
  /\ IsConsole /\ Registered[t] => Manager[t] # None
  /\ pc[t] \in Displaying \ {"add", "adding"} /\ ~Registered[t] => next[t] = "flush"

Control == \A t \in Threads : ControlOf(t)

(* A worker has a batch only while it writes, and says so: nobody but the      *)
(* callers who empty a queue themselves, or one who gives a stopping worker    *)
(* up, says otherwise.                                                         *)
WorkingOf(m) ==
  /\ batch[m] # <<>> => worker[m] = "write"
  /\ batch[m] # <<>> /\ m \notin drained /\ ~StopRequested[m] => Processing[m]
  /\ ~IsConsole /\ worker[m] = "ended" => StopRequested[m]
  /\ ~IsConsole => worker[m] # "stop"

Working == \A m \in Managers : WorkingOf(m)

(* A manager's worker runs before anybody but the one who adds it refers to it. *)
MakingOf(t) ==
  /\ pc[t] = "adding" => factoryLock = t /\ manager[t] = Instance
  /\ ~IsConsole /\ pc[t] \in Managing \ {"adding"} => worker[manager[t]] # "none"

Made ==
  ~IsConsole =>
    \A m \in Known \ {None} : worker[m] # "none" \/ (factoryLock # None /\ m = Instance)

Making == Made /\ \A t \in Threads : MakingOf(t)

Base == QueueShape /\ CallShape /\ Control /\ Working /\ Making

(* Where a record can be. *)
Places ==
  ({"record"} \X Threads) \cup ({"buffer"} \X Managers)
    \cup ({"batch"} \X (Threads \cup Managers)) \cup ({"written", "ignored"} \X {None})

ContentOf(rec, buf, bat, wri, ign) ==
  [x \in Places |->
     CASE x[1] = "record" -> {rec[x[2]]} \ {None}
       [] x[1] = "buffer" -> ToSet(buf[x[2]])
       [] x[1] = "batch" -> ToSet(bat[x[2]])
       [] x[1] = "written" -> ToSet(wri)
       [] x[1] = "ignored" -> ign]

Content == ContentOf(record, Buffer, batch, written, ignored)

Apart(f) == \A x, y \in DOMAIN f : x # y => f[x] \cap f[y] = {}
All(f)   == UNION {f[x] : x \in DOMAIN f}

Owned == \A t \in Threads : record[t] # None => owner[record[t]] = t

Kept ==
  /\ Apart(Content)
  /\ All(Content) = 1..Len(owner)
  /\ IsInjective(written)
  /\ \A m \in Managers : IsInjective(Buffer[m])
  /\ \A p \in Threads \cup Managers : IsInjective(batch[p])

(* What a manager has taken is its own, and what is in its queue or with its   *)
(* worker it has taken.                                                        *)
Taken ==
  /\ \A m \in Managers :
       /\ IsInjective(accepted[m])
       /\ ToSet(accepted[m]) \subseteq 1..Len(owner)
       /\ ToSet(Buffer[m]) \cup ToSet(batch[m]) \subseteq ToSet(accepted[m])
       /\ accepted[m] # <<>> => m \in Known
       /\ \A t \in Threads : record[t] \notin ToSet(accepted[m])
       /\ \A n \in Managers : n # m => ToSet(accepted[m]) \cap ToSet(accepted[n]) = {}
  /\ \A t \in Threads : \A r \in ToSet(batch[t]) : \E d \in drained : r \in ToSet(accepted[d])

Sorted(s, a) ==
  \A i, j \in DOMAIN s, k, l \in DOMAIN a : i < j /\ s[i] = a[k] /\ s[j] = a[l] => k < l

Precede(S, T, a) == \A k, l \in DOMAIN a : a[k] \in S /\ a[l] \in T => k < l

Ordered ==
  \A m \in Managers \ drained :
    /\ Sorted(written, accepted[m])
    /\ Sorted(batch[m], accepted[m])
    /\ Sorted(Buffer[m], accepted[m])
    /\ Precede(ToSet(written), ToSet(batch[m]), accepted[m])
    /\ Precede(ToSet(written), ToSet(Buffer[m]), accepted[m])
    /\ Precede(ToSet(batch[m]), ToSet(Buffer[m]), accepted[m])

Ignored ==
  ignored # {} => IsConsole /\ (policy # "block" \/ TRUE \in {StopRequested[m] : m \in Managers})

(* A flush waits for what its manager has taken. *)
Waiting ==
  \A t \in Threads :
    pending[t] # {} => pc[t] \in Flushing /\ pending[t] \subseteq ToSet(accepted[manager[t]])

(* Event log: as long as no backend has gone, nobody stops a manager or        *)
(* empties a queue beside its worker.                                          *)
NobodyGone == kind = "event log" /\ ~closing /\ \A t \in Threads : frozen[t] => pc[t] = "remove"

Without(t) ==
  \A m \in Managers : \A r \in ToSet(Buffer[m]) \cup ToSet(batch[m]) : owner[r] # t

Quiet ==
  NobodyGone =>
    /\ \A m \in Managers : ~StopRequested[m]
    /\ drained = {} /\ created <= 1 /\ Instance = created
    /\ \A t \in Threads :
         /\ pc[t] \notin {"write remove", "removing", "forget", "drain push", "drain flush", "refused"}
         /\ Registered[t] => Instance # None
         /\ ~frozen[t] /\ ~Registered[t] /\ pc[t] # "flush" => Without(t)
         /\ pc[t] = "flushed" => Without(t)

Gone ==
  \A t \in Threads :
    kind = "event log" /\ ~closing /\ frozen[t] /\ pc[t] # "remove"
      /\ (\A u \in Threads : frozen[u] => u = t) => Without(t)

----------------------------------------------------------------------------
(* Facts about queues whose elements differ.                                 *)

(* An element that is not in the queue is appended. *)
LEMMA AppendToQueue ==
  ASSUME NEW S, NEW q \in Seq(S), NEW e \in S, IsInjective(q), e \notin ToSet(q)
  PROVE  /\ Append(q, e) \in Seq(S)
         /\ IsInjective(Append(q, e))
         /\ ToSet(Append(q, e)) = ToSet(q) \cup {e}
<1> DEFINE s == Append(q, e)
<1>1. /\ s \in Seq(S) /\ Len(q) \in Nat
      /\ DOMAIN q = 1..Len(q) /\ DOMAIN s = 1..(Len(q) + 1)
      /\ \A i \in 1..Len(q) : s[i] = q[i]
      /\ s[Len(q) + 1] = e
  BY AppendProperties, LenProperties
<1>2. DOMAIN s = DOMAIN q \cup {Len(q) + 1} /\ Len(q) + 1 \notin DOMAIN q
  BY <1>1
<1> HIDE DEF s
<1>3. IsInjective(s)
  BY <1>1, <1>2 DEF IsInjective, ToSet
<1>4. ToSet(s) = ToSet(q) \cup {e}
  <2>1. \A i \in DOMAIN q : i \in DOMAIN s /\ s[i] = q[i]
    BY <1>1, <1>2
  <2>2. Len(q) + 1 \in DOMAIN s /\ s[Len(q) + 1] = e
    BY <1>1, <1>2
  <2>3. \A i \in DOMAIN s : i \in DOMAIN q \/ i = Len(q) + 1
    BY <1>2
  <2>4. ToSet(q) \cup {e} \subseteq ToSet(s)
    BY <2>1, <2>2 DEF ToSet
  <2>5. ToSet(s) \subseteq ToSet(q) \cup {e}
    BY <2>1, <2>2, <2>3 DEF ToSet
  <2>6. QED
    BY <2>4, <2>5
<1>5. QED
  BY <1>1, <1>3, <1>4 DEF s

(* What is in a queue is of its elements. *)
LEMMA SeqRange ==
  ASSUME NEW S, NEW q \in Seq(S)
  PROVE  ToSet(q) \subseteq S
BY LenProperties, ElementOfSeq DEF ToSet

(* The first element is taken, and is not in the rest. *)
LEMMA TakeFromQueue ==
  ASSUME NEW S, NEW q \in Seq(S), q # <<>>, IsInjective(q)
  PROVE  /\ Head(q) \in S
         /\ Tail(q) \in Seq(S)
         /\ IsInjective(Tail(q))
         /\ ToSet(q) = ToSet(Tail(q)) \cup {Head(q)}
         /\ Head(q) \notin ToSet(Tail(q))
<1> DEFINE s == Tail(q)
<1>1. /\ s \in Seq(S) /\ Len(q) \in Nat /\ Len(q) >= 1
      /\ DOMAIN q = 1..Len(q) /\ DOMAIN s = 1..(Len(q) - 1)
      /\ \A i \in 1..(Len(q) - 1) : s[i] = q[i + 1]
      /\ Head(q) = q[1] /\ q[1] \in S
  BY HeadTailProperties, LenProperties, EmptySeq, ElementOfSeq
<1> HIDE DEF s
<1>2. \A i \in DOMAIN s : i + 1 \in DOMAIN q /\ i + 1 # 1 /\ s[i] = q[i + 1]
  BY <1>1
<1>3. \A j \in DOMAIN q : j = 1 \/ (j - 1 \in DOMAIN s /\ s[j - 1] = q[j])
  BY <1>1
<1>4. IsInjective(s)
  BY <1>1, <1>2 DEF IsInjective
<1>5. ToSet(q) = ToSet(s) \cup {q[1]}
  <2>1. 1 \in DOMAIN q
    BY <1>1
  <2>2. ToSet(s) \cup {q[1]} \subseteq ToSet(q)
    BY <1>2, <2>1 DEF ToSet
  <2>3. ToSet(q) \subseteq ToSet(s) \cup {q[1]}
    BY <1>2, <1>3 DEF ToSet
  <2>4. QED
    BY <2>2, <2>3
<1>6. q[1] \notin ToSet(s)
  <2> SUFFICES ASSUME NEW i \in DOMAIN s, s[i] = q[1] PROVE FALSE
    BY DEF ToSet
  <2>1. 1 \in DOMAIN q /\ q[i + 1] = q[1] /\ i + 1 \in DOMAIN q /\ i + 1 # 1
    BY <1>1, <1>2
  <2>2. QED
    BY <2>1 DEF IsInjective
<1>7. QED
  BY <1>1, <1>4, <1>5, <1>6 DEF s

-----------------------------------------------------------------------------
(* What a step does with the records. *)

Displayed(t) ==
  /\ record[t] = None
  /\ owner' = Append(owner, t)
  /\ record' = [record EXCEPT ![t] = Len(owner) + 1]
  /\ UNCHANGED <<Buffer, batch, written, ignored, accepted, drained>>

NotTaken(t) ==
  /\ record[t] # None
  /\ \/ ignored' = ignored \cup {record[t]} /\ UNCHANGED written
     \/ written' = Append(written, record[t]) /\ UNCHANGED ignored
  /\ record' = [record EXCEPT ![t] = None]
  /\ UNCHANGED <<Buffer, batch, accepted, drained, owner>>

Queued(t, m, kept) ==
  /\ record[t] # None /\ m \in Known
  /\ Len(kept) < QueueLimit
  /\ Buffer' = [Buffer EXCEPT ![m] = Append(kept, record[t])]
  /\ ignored' = ignored \cup (ToSet(Buffer[m]) \ ToSet(kept))
  /\ accepted' = [accepted EXCEPT ![m] = Append(@, record[t])]
  /\ record' = [record EXCEPT ![t] = None]
  /\ UNCHANGED <<batch, written, drained, owner>>

BatchTaken(p, m) ==
  /\ batch[p] = <<>>
  /\ batch' = [batch EXCEPT ![p] = Buffer[m]]
  /\ Buffer' = [Buffer EXCEPT ![m] = <<>>]
  /\ drained' = IF p = m THEN drained ELSE drained \cup {m}
  /\ UNCHANGED <<record, written, ignored, accepted, owner>>

BatchWritten(p) ==
  /\ written' = written \o batch[p]
  /\ batch' = [batch EXCEPT ![p] = <<>>]
  /\ UNCHANGED <<record, Buffer, ignored, accepted, drained, owner>>

RestWritten(m) ==
  /\ batch[m] = <<>>
  /\ written' = written \o Buffer[m]
  /\ Buffer' = [Buffer EXCEPT ![m] = <<>>]
  /\ UNCHANGED <<record, batch, ignored, accepted, drained, owner>>

Same == UNCHANGED <<record, Buffer, batch, written, ignored, accepted, drained, owner>>

DataStep ==
  \/ Same
  \/ \E t \in Threads : Displayed(t) \/ NotTaken(t)
  \/ \E t \in Threads, m \in Managers :
       Queued(t, m, Buffer[m]) \/ (Buffer[m] # <<>> /\ Queued(t, m, Tail(Buffer[m])))
  \/ \E m \in Managers : \E p \in Threads \cup {m} : BatchTaken(p, m)
  \/ \E p \in Threads \cup Managers : BatchWritten(p)
  \/ \E m \in Managers : RestWritten(m)
-----------------------------------------------------------------------------
-----------------------------------------------------------------------------
(* Facts about sequences. *)

LEMMA Joined ==
  ASSUME NEW S, NEW q \in Seq(S), NEW s \in Seq(S), IsInjective(q), IsInjective(s),
         ToSet(q) \cap ToSet(s) = {}
  PROVE  /\ q \o s \in Seq(S)
         /\ IsInjective(q \o s)
         /\ ToSet(q \o s) = ToSet(q) \cup ToSet(s)
<1> DEFINE w == q \o s
<1>1. /\ w \in Seq(S) /\ Len(q) \in Nat /\ Len(s) \in Nat
      /\ DOMAIN q = 1..Len(q) /\ DOMAIN s = 1..Len(s) /\ DOMAIN w = 1..(Len(q) + Len(s))
      /\ \A i \in 1..(Len(q) + Len(s)) : w[i] = IF i <= Len(q) THEN q[i] ELSE s[i - Len(q)]
  BY ConcatProperties, LenProperties
<1> HIDE DEF w
<1>2. \A i \in DOMAIN w : \/ (i \in DOMAIN q /\ w[i] = q[i])
                          \/ (i - Len(q) \in DOMAIN s /\ w[i] = s[i - Len(q)] /\ i \notin DOMAIN q)
  BY <1>1
<1>3. /\ \A i \in DOMAIN q : i \in DOMAIN w /\ w[i] = q[i]
      /\ \A i \in DOMAIN s : Len(q) + i \in DOMAIN w /\ w[Len(q) + i] = s[i]
  BY <1>1
<1>4. ToSet(w) = ToSet(q) \cup ToSet(s)
  BY <1>2, <1>3 DEF ToSet
<1>5. IsInjective(w)
  <2>1. SUFFICES ASSUME NEW i \in DOMAIN w, NEW j \in DOMAIN w, w[i] = w[j] PROVE i = j
    BY DEF IsInjective
  <2>2. \A k \in DOMAIN q : q[k] \in ToSet(q)
    BY DEF ToSet
  <2>3. \A k \in DOMAIN s : s[k] \in ToSet(s)
    BY DEF ToSet
  <2>4. CASE i \in DOMAIN q
    <3>1. w[j] \in ToSet(q)
      BY <1>3, <2>1, <2>2, <2>4
    <3>2. j \in DOMAIN q
      BY <1>2, <2>3, <3>1
    <3>3. QED
      BY <1>3, <2>1, <2>4, <3>2 DEF IsInjective
  <2>5. CASE i \notin DOMAIN q
    <3>1. i - Len(q) \in DOMAIN s /\ w[i] = s[i - Len(q)]
      BY <1>2, <2>5
    <3>2. j \notin DOMAIN q
      BY <1>3, <2>1, <2>2, <2>3, <3>1
    <3>3. j - Len(q) \in DOMAIN s /\ w[j] = s[j - Len(q)]
      BY <1>2, <3>2
    <3>4. i - Len(q) = j - Len(q)
      BY <2>1, <3>1, <3>3 DEF IsInjective
    <3>5. QED
      BY <1>1, <3>4
  <2>6. QED
    BY <2>4, <2>5
<1>6. QED
  BY <1>1, <1>4, <1>5 DEF w

LEMMA Nothing ==
  /\ IsInjective(<<>>) /\ ToSet(<<>>) = {} /\ Len(<<>>) = 0
  /\ \A S : <<>> \in Seq(S)
  /\ \A a : Sorted(<<>>, a)
<1>1. DOMAIN <<>> = {}
  BY EmptySeq
<1>2. QED
  BY <1>1, EmptySeq DEF IsInjective, ToSet, Sorted

(* What is left of a queue whose first element has been dropped.              *)
LEMMA WithoutFirst ==
  ASSUME NEW S, NEW q \in Seq(S), IsInjective(q), q # <<>>
  PROVE  /\ SubSeq(q, 2, Len(q)) = Tail(q)
         /\ Tail(q) \in Seq(S) /\ Len(Tail(q)) = Len(q) - 1
         /\ IsInjective(Tail(q))
         /\ Head(q) \in S /\ Head(q) \in ToSet(q)
         /\ ToSet(Tail(q)) = ToSet(q) \ {Head(q)}
         /\ \A a : Sorted(q, a) => Sorted(Tail(q), a)
<1>1. /\ Len(q) \in Nat /\ DOMAIN q = 1..Len(q) /\ Len(q) >= 1
  BY LenProperties, EmptySeq
<1>2. SubSeq(q, 2, Len(q)) = Tail(q)
  BY TailIsSubSeq
<1>3. /\ Tail(q) \in Seq(S) /\ IsInjective(Tail(q)) /\ Head(q) \in S
      /\ ToSet(q) = ToSet(Tail(q)) \cup {Head(q)} /\ Head(q) \notin ToSet(Tail(q))
  BY TakeFromQueue
<1>4. /\ Len(Tail(q)) = Len(q) - 1
      /\ \A i \in 1..Len(Tail(q)) : Tail(q)[i] = q[i + 1]
  BY HeadTailProperties
<1>5. DOMAIN Tail(q) = 1..(Len(q) - 1)
  BY <1>3, <1>4, LenProperties
<1> DEFINE s == Tail(q)
<1> HIDE DEF s
<1>6. \A i \in DOMAIN s : i + 1 \in DOMAIN q /\ s[i] = q[i + 1] /\ i \in Int
  BY <1>1, <1>4, <1>5 DEF s
<1>7. ASSUME NEW a, Sorted(q, a) PROVE Sorted(s, a)
  <2>1. SUFFICES ASSUME NEW i \in DOMAIN s, NEW j \in DOMAIN s, NEW k \in DOMAIN a,
                        NEW l \in DOMAIN a, i < j, s[i] = a[k], s[j] = a[l]
                 PROVE  k < l
    BY DEF Sorted
  <2>2. i + 1 < j + 1
    BY <1>6, <2>1
  <2>3. q[i + 1] = a[k] /\ q[j + 1] = a[l] /\ i + 1 \in DOMAIN q /\ j + 1 \in DOMAIN q
    BY <1>6, <2>1
  <2>4. QED
    BY <1>7, <2>2, <2>3 DEF Sorted
<1>8. QED
  BY <1>2, <1>3, <1>4, <1>7 DEF s

(* Orders of records, by the order in which a manager has taken them.         *)
LEMMA SortedJoined ==
  ASSUME NEW S, NEW q \in Seq(S), NEW s \in Seq(S), NEW a,
         Sorted(q, a), Sorted(s, a), Precede(ToSet(q), ToSet(s), a)
  PROVE  Sorted(q \o s, a)
<1> DEFINE w == q \o s
<1>1. /\ w \in Seq(S) /\ Len(q) \in Nat /\ Len(s) \in Nat
      /\ DOMAIN q = 1..Len(q) /\ DOMAIN s = 1..Len(s) /\ DOMAIN w = 1..(Len(q) + Len(s))
      /\ \A i \in 1..(Len(q) + Len(s)) : w[i] = IF i <= Len(q) THEN q[i] ELSE s[i - Len(q)]
  BY ConcatProperties, LenProperties
<1> HIDE DEF w
<1>2. SUFFICES ASSUME NEW i \in DOMAIN w, NEW j \in DOMAIN w, NEW k \in DOMAIN a,
                      NEW l \in DOMAIN a, i < j, w[i] = a[k], w[j] = a[l]
               PROVE  k < l
  BY DEF Sorted, w
<1>3. CASE j <= Len(q)
  <2>1. i \in DOMAIN q /\ j \in DOMAIN q /\ w[i] = q[i] /\ w[j] = q[j]
    BY <1>1, <1>2, <1>3
  <2>2. QED
    BY <1>2, <2>1 DEF Sorted
<1>4. CASE i <= Len(q) /\ j > Len(q)
  <2>1. i \in DOMAIN q /\ j - Len(q) \in DOMAIN s /\ w[i] = q[i] /\ w[j] = s[j - Len(q)]
    BY <1>1, <1>2, <1>4
  <2>2. a[k] \in ToSet(q) /\ a[l] \in ToSet(s)
    BY <1>2, <2>1 DEF ToSet
  <2>3. QED
    BY <2>2 DEF Precede
<1>5. CASE i > Len(q)
  <2>1. /\ i - Len(q) \in DOMAIN s /\ j - Len(q) \in DOMAIN s
        /\ w[i] = s[i - Len(q)] /\ w[j] = s[j - Len(q)] /\ i - Len(q) < j - Len(q)
    BY <1>1, <1>2, <1>5
  <2>2. QED
    BY <1>2, <2>1 DEF Sorted
<1>6. QED
  BY <1>1, <1>2, <1>3, <1>4, <1>5

(* A record that is taken now is behind all others. *)
LEMMA SortedLonger ==
  ASSUME NEW S, NEW a \in Seq(S), NEW r \in S, NEW T, NEW U, NEW s,
         r \notin T, Precede(T, U, a), Sorted(s, a), r \notin ToSet(s)
  PROVE  /\ Precede(T, U, Append(a, r))
         /\ Precede(T, U \cup {r}, Append(a, r)) \/ r \in ToSet(a)
         /\ Sorted(s, Append(a, r))
<1> DEFINE b == Append(a, r)
<1>1. /\ b \in Seq(S) /\ Len(a) \in Nat /\ DOMAIN a = 1..Len(a) /\ DOMAIN b = 1..(Len(a) + 1)
      /\ \A i \in 1..Len(a) : b[i] = a[i]
      /\ b[Len(a) + 1] = r
  BY AppendProperties, LenProperties
<1> HIDE DEF b
<1>2. \A i \in DOMAIN b : (i \in DOMAIN a /\ b[i] = a[i]) \/ (i = Len(a) + 1 /\ b[i] = r)
  <2>1. DOMAIN b = (DOMAIN a) \cup {Len(a) + 1}
    BY <1>1
  <2>2. QED
    BY <1>1, <2>1
<1>3. \A i \in DOMAIN a : i < Len(a) + 1
  BY <1>1
<1>4. Sorted(s, b)
  <2>1. SUFFICES ASSUME NEW i \in DOMAIN s, NEW j \in DOMAIN s, NEW k \in DOMAIN b,
                        NEW l \in DOMAIN b, i < j, s[i] = b[k], s[j] = b[l]
                 PROVE  k < l
    BY DEF Sorted
  <2>2. b[k] # r /\ b[l] # r
    BY <2>1 DEF ToSet
  <2>3. QED
    BY <1>2, <2>1, <2>2 DEF Sorted
<1>5. ASSUME r \notin ToSet(a) PROVE Precede(T, U \cup {r}, b)
  <2>1. SUFFICES ASSUME NEW k \in DOMAIN b, NEW l \in DOMAIN b, b[k] \in T, b[l] \in U \cup {r}
                 PROVE  k < l
    BY DEF Precede
  <2>2. k \in DOMAIN a /\ b[k] = a[k]
    BY <1>2, <2>1
  <2>3. CASE l = Len(a) + 1
    BY <1>3, <2>2, <2>3
  <2>4. CASE l \in DOMAIN a /\ b[l] = a[l]
    <3>1. a[l] # r
      BY <1>5, <2>4 DEF ToSet
    <3>2. a[l] \in U
      BY <2>1, <2>4, <3>1
    <3>3. QED
      BY <2>1, <2>2, <2>4, <3>2 DEF Precede
  <2>5. QED
    BY <1>2, <2>3, <2>4
<1>6. Precede(T, U, b)
  <2>1. SUFFICES ASSUME NEW k \in DOMAIN b, NEW l \in DOMAIN b, b[k] \in T, b[l] \in U
                 PROVE  k < l
    BY DEF Precede
  <2>2. k \in DOMAIN a /\ b[k] = a[k]
    BY <1>2, <2>1
  <2>3. CASE l = Len(a) + 1
    BY <1>3, <2>2, <2>3
  <2>4. CASE l \in DOMAIN a /\ b[l] = a[l]
    BY <2>1, <2>2, <2>4 DEF Precede
  <2>5. QED
    BY <1>2, <2>3, <2>4
<1>7. QED
  BY <1>4, <1>5, <1>6 DEF b

LEMMA SortedAppended ==
  ASSUME NEW S, NEW a \in Seq(S), NEW s \in Seq(S), NEW r \in S,
         Sorted(s, a), r \notin ToSet(s), r \notin ToSet(a)
  PROVE  Sorted(Append(s, r), Append(a, r))
<1> DEFINE b == Append(a, r)
           w == Append(s, r)
<1>1. /\ b \in Seq(S) /\ Len(a) \in Nat /\ DOMAIN a = 1..Len(a) /\ DOMAIN b = 1..(Len(a) + 1)
      /\ \A i \in 1..Len(a) : b[i] = a[i]
      /\ b[Len(a) + 1] = r
  BY AppendProperties, LenProperties
<1>2. /\ w \in Seq(S) /\ Len(s) \in Nat /\ DOMAIN s = 1..Len(s) /\ DOMAIN w = 1..(Len(s) + 1)
      /\ \A i \in 1..Len(s) : w[i] = s[i]
      /\ w[Len(s) + 1] = r
  BY AppendProperties, LenProperties
<1> HIDE DEF b, w
<1>3. /\ \A i \in DOMAIN b : (i \in DOMAIN a /\ b[i] = a[i]) \/ (i = Len(a) + 1 /\ b[i] = r)
      /\ \A i \in DOMAIN w : (i \in DOMAIN s /\ w[i] = s[i]) \/ (i = Len(s) + 1 /\ w[i] = r)
      /\ \A i \in DOMAIN a : i < Len(a) + 1 /\ a[i] # r
      /\ \A i \in DOMAIN s : i < Len(s) + 1 /\ s[i] # r
  <2>1. DOMAIN b = (DOMAIN a) \cup {Len(a) + 1} /\ DOMAIN w = (DOMAIN s) \cup {Len(s) + 1}
    BY <1>1, <1>2
  <2>2. (\A i \in DOMAIN a : a[i] # r) /\ (\A i \in DOMAIN s : s[i] # r)
    BY DEF ToSet
  <2>3. (\A i \in DOMAIN a : i < Len(a) + 1) /\ (\A i \in DOMAIN s : i < Len(s) + 1)
    BY <1>1, <1>2
  <2>4. QED
    BY <1>1, <1>2, <2>1, <2>2, <2>3
<1>4. SUFFICES ASSUME NEW i \in DOMAIN w, NEW j \in DOMAIN w, NEW k \in DOMAIN b,
                      NEW l \in DOMAIN b, i < j, w[i] = b[k], w[j] = b[l]
               PROVE  k < l
  BY DEF Sorted, b, w
<1>5. i \in DOMAIN s /\ w[i] = s[i]
  BY <1>1, <1>2, <1>3, <1>4
<1>6. k \in DOMAIN a /\ b[k] = a[k]
  BY <1>3, <1>4, <1>5
<1>7. CASE w[j] = r
  BY <1>3, <1>4, <1>6, <1>7
<1>8. CASE w[j] # r
  <2>1. j \in DOMAIN s /\ w[j] = s[j] /\ l \in DOMAIN a /\ b[l] = a[l]
    BY <1>3, <1>4, <1>8
  <2>2. QED
    BY <1>4, <1>5, <1>6, <2>1 DEF Sorted
<1>9. QED
  BY <1>7, <1>8

(* What another manager has taken does not come between.                      *)
LEMMA SortedOthers ==
  ASSUME NEW s, NEW a, ToSet(s) \cap ToSet(a) = {}
  PROVE  Sorted(s, a) /\ \A T : Precede(ToSet(s), T, a) /\ Precede(T, ToSet(s), a)
<1>1. \A k \in DOMAIN a : a[k] \notin ToSet(s)
  BY DEF ToSet
<1>2. \A i \in DOMAIN s : s[i] \in ToSet(s)
  BY DEF ToSet
<1>3. QED
  BY <1>1, <1>2 DEF Sorted, Precede

LEMMA PrecedeUnion ==
  ASSUME NEW T, NEW U, NEW V, NEW a
  PROVE  /\ Precede(T \cup U, V, a) <=> Precede(T, V, a) /\ Precede(U, V, a)
         /\ Precede({}, V, a) /\ Precede(T, {}, a)
BY DEF Precede
-----------------------------------------------------------------------------
(* Where records are, and how they move. *)

LEMMA ParameterFacts ==
  /\ Managers \subseteq Nat \ {0} /\ \A m \in Managers : m # None
  /\ \A t \in Threads : t # None /\ t \notin Managers
  /\ Cardinality(Managers) \in Nat /\ \A n \in 1..Cardinality(Managers) : n \in Managers
  /\ \A m \in Managers : m \notin Threads /\ m \in Nat /\ m <= Cardinality(Managers)
  /\ \A n \in QueueLimits : n \in Nat /\ n >= 1
  /\ IsFiniteSet(Threads) /\ IsFiniteSet(Managers) /\ None = 0
<1> DEFINE n == Cardinality(Managers)
<1>1. n \in Nat /\ Managers = 1..n
  BY QueueAssumption, FS_CardinalityType
<1> HIDE DEF n
<1>2. Managers \subseteq Nat \ {0} /\ (\A i \in 1..n : i \in Managers) /\ \A m \in Managers : m <= n
  BY <1>1
<1>3. \A t \in Threads : t # 0 /\ t \notin Managers
  <2>1. Threads \cap ({0} \cup Managers) = {}
    BY QueueAssumption
  <2>2. QED
    BY <2>1
<1>4. \A l \in QueueLimits : l \in Nat /\ l >= 1
  <2>1. QueueLimits \subseteq Nat \ {0}
    BY QueueAssumption
  <2>2. QED
    BY <2>1
<1>5. QED
  BY <1>1, <1>2, <1>3, <1>4, QueueAssumption DEF None, n

LEMMA PlaceCases ==
  /\ \A t \in Threads : <<"record", t>> \in Places
  /\ \A m \in Managers : <<"buffer", m>> \in Places
  /\ \A p \in Threads \cup Managers : <<"batch", p>> \in Places
  /\ <<"written", None>> \in Places /\ <<"ignored", None>> \in Places
  /\ \A x \in Places : \/ \E t \in Threads : x = <<"record", t>>
                       \/ \E m \in Managers : x = <<"buffer", m>>
                       \/ \E p \in Threads \cup Managers : x = <<"batch", p>>
                       \/ x = <<"written", None>>
                       \/ x = <<"ignored", None>>
BY DEF Places

LEMMA ContentIs ==
  ASSUME NEW rec, NEW buf, NEW bat, NEW wri, NEW ign
  PROVE  /\ DOMAIN ContentOf(rec, buf, bat, wri, ign) = Places
         /\ \A t \in Threads : ContentOf(rec, buf, bat, wri, ign)[<<"record", t>>] = {rec[t]} \ {None}
         /\ \A m \in Managers : ContentOf(rec, buf, bat, wri, ign)[<<"buffer", m>>] = ToSet(buf[m])
         /\ \A p \in Threads \cup Managers :
              ContentOf(rec, buf, bat, wri, ign)[<<"batch", p>>] = ToSet(bat[p])
         /\ ContentOf(rec, buf, bat, wri, ign)[<<"written", None>>] = ToSet(wri)
         /\ ContentOf(rec, buf, bat, wri, ign)[<<"ignored", None>>] = ign
BY PlaceCases DEF ContentOf

LEMMA Moved ==
  ASSUME NEW f, NEW g, DOMAIN g = DOMAIN f, NEW p \in DOMAIN f, NEW q \in DOMAIN f, p # q,
         NEW M, M \subseteq f[p], Apart(f), g[p] = f[p] \ M, g[q] = f[q] \cup M,
         \A x \in (DOMAIN f) \ {p, q} : g[x] = f[x]
  PROVE  Apart(g) /\ All(g) = All(f)
<1>1. Apart(g)
  <2>1. SUFFICES ASSUME NEW x \in DOMAIN f, NEW y \in DOMAIN f, NEW r, r \in g[x], r \in g[y]
                 PROVE  x = y
    BY DEF Apart
  <2>2. \A u, v \in DOMAIN f : r \in f[u] /\ r \in f[v] => u = v
    BY DEF Apart
  <2>3. \A u \in DOMAIN f : r \in g[u] => r \in f[u] \/ (u = q /\ r \in M)
    OBVIOUS
  <2>4. r \in M => r \in f[p] /\ r \notin g[p]
    OBVIOUS
  <2>5. QED
    BY <2>1, <2>2, <2>3, <2>4
<1>2. All(g) = All(f)
  <2>1. \A r : (\E x \in DOMAIN f : r \in g[x]) <=> (\E x \in DOMAIN f : r \in f[x])
    <3>1. ASSUME NEW r, NEW x \in DOMAIN f, r \in g[x] PROVE \E y \in DOMAIN f : r \in f[y]
      BY <3>1
    <3>2. ASSUME NEW r, NEW x \in DOMAIN f, r \in f[x] PROVE \E y \in DOMAIN f : r \in g[y]
      BY <3>2
    <3>3. QED
      BY <3>1, <3>2
  <2>2. QED
    BY <2>1 DEF All
<1>3. QED
  BY <1>1, <1>2

LEMMA Born ==
  ASSUME NEW f, NEW g, DOMAIN g = DOMAIN f, NEW p \in DOMAIN f, NEW r, r \notin All(f), Apart(f),
         g[p] = f[p] \cup {r}, \A x \in (DOMAIN f) \ {p} : g[x] = f[x]
  PROVE  Apart(g) /\ All(g) = All(f) \cup {r}
<1>1. \A x \in DOMAIN f : r \notin f[x]
  BY DEF All
<1>2. Apart(g)
  BY <1>1 DEF Apart
<1>3. \A s : (\E x \in DOMAIN f : s \in g[x]) <=> (\E x \in DOMAIN f : s \in f[x]) \/ s = r
  OBVIOUS
<1>4. All(g) = All(f) \cup {r}
  BY <1>3 DEF All
<1>5. QED
  BY <1>2, <1>4

(* Everything is in one place, and the order in which places are emptied and  *)
(* filled is as the sequences say.                                           *)
LEMMA OnePlace ==
  ASSUME Kept
  PROVE  /\ \A t \in Threads : \A m \in Managers : record[t] # None => record[t] \notin ToSet(Buffer[m])
         /\ \A t \in Threads : \A p \in Threads \cup Managers :
              record[t] # None => record[t] \notin ToSet(batch[p])
         /\ \A t \in Threads : record[t] # None => record[t] \notin ToSet(written) \cup ignored
         /\ \A t, u \in Threads : record[t] # None /\ record[t] = record[u] => t = u
         /\ \A m, n \in Managers : m # n => ToSet(Buffer[m]) \cap ToSet(Buffer[n]) = {}
         /\ \A m \in Managers : \A p \in Threads \cup Managers : ToSet(Buffer[m]) \cap ToSet(batch[p]) = {}
         /\ \A m \in Managers : ToSet(Buffer[m]) \cap (ToSet(written) \cup ignored) = {}
         /\ \A p, q \in Threads \cup Managers : p # q => ToSet(batch[p]) \cap ToSet(batch[q]) = {}
         /\ \A p \in Threads \cup Managers : ToSet(batch[p]) \cap (ToSet(written) \cup ignored) = {}
         /\ ToSet(written) \cap ignored = {}
<1> DEFINE f == ContentOf(record, Buffer, batch, written, ignored)
<1>1. /\ DOMAIN f = Places
      /\ \A t \in Threads : f[<<"record", t>>] = {record[t]} \ {None}
      /\ \A m \in Managers : f[<<"buffer", m>>] = ToSet(Buffer[m])
      /\ \A p \in Threads \cup Managers : f[<<"batch", p>>] = ToSet(batch[p])
      /\ f[<<"written", None>>] = ToSet(written)
      /\ f[<<"ignored", None>>] = ignored
  BY ContentIs
<1>2. \A x, y \in Places : x # y => f[x] \cap f[y] = {}
  BY <1>1 DEF Kept, Content, Apart
<1> HIDE DEF f
<1>3. \A t, u \in Threads : record[t] # None /\ record[t] = record[u] => t = u
  <2>1. \A t, u \in Threads : t # u => f[<<"record", t>>] \cap f[<<"record", u>>] = {}
    BY <1>2, PlaceCases
  <2>2. QED
    BY <1>1, <2>1
<1>4. \A t \in Threads : \A m \in Managers : record[t] # None => record[t] \notin ToSet(Buffer[m])
  <2>1. \A t \in Threads : \A m \in Managers : f[<<"record", t>>] \cap f[<<"buffer", m>>] = {}
    BY <1>2, PlaceCases
  <2>2. QED
    BY <1>1, <2>1
<1>5. \A t \in Threads : \A p \in Threads \cup Managers :
         record[t] # None => record[t] \notin ToSet(batch[p])
  <2>1. \A t \in Threads : \A p \in Threads \cup Managers : f[<<"record", t>>] \cap f[<<"batch", p>>] = {}
    BY <1>2, PlaceCases
  <2>2. QED
    BY <1>1, <2>1
<1>6. \A t \in Threads : record[t] # None => record[t] \notin ToSet(written) \cup ignored
  <2>1. \A t \in Threads : /\ f[<<"record", t>>] \cap f[<<"written", None>>] = {}
                           /\ f[<<"record", t>>] \cap f[<<"ignored", None>>] = {}
    BY <1>2, PlaceCases
  <2>2. ASSUME NEW t \in Threads, record[t] # None PROVE record[t] \notin ToSet(written) \cup ignored
    <3>1. record[t] \in f[<<"record", t>>]
      BY <1>1, <2>2
    <3>2. f[<<"written", None>>] = ToSet(written) /\ f[<<"ignored", None>>] = ignored
      BY <1>1
    <3>3. QED
      BY <2>1, <3>1, <3>2
  <2>3. QED
    BY <2>2
<1>7. \A m, n \in Managers : m # n => ToSet(Buffer[m]) \cap ToSet(Buffer[n]) = {}
  <2>1. \A m, n \in Managers : m # n => f[<<"buffer", m>>] \cap f[<<"buffer", n>>] = {}
    BY <1>2, PlaceCases
  <2>2. QED
    BY <1>1, <2>1
<1>8. \A m \in Managers : \A p \in Threads \cup Managers : ToSet(Buffer[m]) \cap ToSet(batch[p]) = {}
  <2>1. \A m \in Managers : \A p \in Threads \cup Managers : f[<<"buffer", m>>] \cap f[<<"batch", p>>] = {}
    BY <1>2, PlaceCases
  <2>2. QED
    BY <1>1, <2>1
<1>9. \A m \in Managers : ToSet(Buffer[m]) \cap (ToSet(written) \cup ignored) = {}
  <2>1. \A m \in Managers : /\ f[<<"buffer", m>>] \cap f[<<"written", None>>] = {}
                            /\ f[<<"buffer", m>>] \cap f[<<"ignored", None>>] = {}
    BY <1>2, PlaceCases
  <2>2. ASSUME NEW m \in Managers PROVE ToSet(Buffer[m]) \cap (ToSet(written) \cup ignored) = {}
    <3>1. f[<<"buffer", m>>] = ToSet(Buffer[m])
      BY <1>1
    <3>2. f[<<"written", None>>] = ToSet(written) /\ f[<<"ignored", None>>] = ignored
      BY <1>1
    <3>3. ToSet(Buffer[m]) \cap ToSet(written) = {} /\ ToSet(Buffer[m]) \cap ignored = {}
      BY <2>1, <3>1, <3>2
    <3>4. QED
      BY <3>3
  <2>3. QED
    BY <2>2
<1>10. \A p, q \in Threads \cup Managers : p # q => ToSet(batch[p]) \cap ToSet(batch[q]) = {}
  <2>1. \A p, q \in Threads \cup Managers : p # q => f[<<"batch", p>>] \cap f[<<"batch", q>>] = {}
    BY <1>2, PlaceCases
  <2>2. QED
    BY <1>1, <2>1
<1>11. \A p \in Threads \cup Managers : ToSet(batch[p]) \cap (ToSet(written) \cup ignored) = {}
  <2>1. \A p \in Threads \cup Managers : /\ f[<<"batch", p>>] \cap f[<<"written", None>>] = {}
                                         /\ f[<<"batch", p>>] \cap f[<<"ignored", None>>] = {}
    BY <1>2, PlaceCases
  <2>2. ASSUME NEW p \in Threads \cup Managers PROVE ToSet(batch[p]) \cap (ToSet(written) \cup ignored) = {}
    <3>1. f[<<"batch", p>>] = ToSet(batch[p])
      BY <1>1
    <3>2. f[<<"written", None>>] = ToSet(written) /\ f[<<"ignored", None>>] = ignored
      BY <1>1
    <3>3. ToSet(batch[p]) \cap ToSet(written) = {} /\ ToSet(batch[p]) \cap ignored = {}
      BY <2>1, <3>1, <3>2
    <3>4. QED
      BY <3>3
  <2>3. QED
    BY <2>2
<1>12. ToSet(written) \cap ignored = {}
  <2>1. f[<<"written", None>>] \cap f[<<"ignored", None>>] = {}
    BY <1>2, PlaceCases
  <2>2. QED
    BY <1>1, <2>1
<1>13. QED
  BY <1>3, <1>4, <1>5, <1>6, <1>7, <1>8, <1>9, <1>10, <1>11, <1>12
(* The calls and the workers: what a step does not touch stays as it is.      *)

OthersStay(t) ==
  /\ kind' = kind /\ drained \subseteq drained'
  /\ \A u \in Threads \ {t} :
       /\ pc'[u] = pc[u] /\ record'[u] = record[u] /\ manager'[u] = manager[u]
       /\ batch'[u] = batch[u] /\ frozen'[u] = frozen[u] /\ Registered'[u] = Registered[u]
       /\ Manager'[u] = Manager[u] /\ next'[u] = next[u]

LEMMA ControlFramed ==
  ASSUME Control, NEW t, OthersStay(t), t \in Threads => ControlOf(t)'
  PROVE  Control'
<1> SUFFICES ASSUME NEW u \in Threads, u # t PROVE ControlOf(u)'
  BY DEF Control
<1>1. ControlOf(u)
  BY DEF Control
<1>2. QED
  BY <1>1 DEF OthersStay, ControlOf, IsConsole

WorkersStay(m) ==
  /\ kind' = kind /\ drained \subseteq drained'
  /\ \A n \in Managers \ {m} :
       /\ worker'[n] = worker[n] /\ batch'[n] = batch[n]
       /\ StopRequested'[n] = StopRequested[n] /\ Processing'[n] = Processing[n]

LEMMA WorkingFramed ==
  ASSUME Working, NEW m, WorkersStay(m), m \in Managers => WorkingOf(m)'
  PROVE  Working'
<1> SUFFICES ASSUME NEW n \in Managers, n # m PROVE WorkingOf(n)'
  BY DEF Working
<1>1. WorkingOf(n)
  BY DEF Working
<1>2. QED
  BY <1>1 DEF WorkersStay, WorkingOf, IsConsole

(* Nobody is registered, and no worker is unmade. *)
FactoryStays(t) ==
  /\ kind' = kind /\ Known' = Known /\ Instance' = Instance /\ factoryLock' = factoryLock
  /\ \A m \in Managers : worker[m] # "none" => worker'[m] # "none"
  /\ \A u \in Threads \ {t} : pc'[u] = pc[u] /\ manager'[u] = manager[u]
  /\ t \in Threads => /\ pc'[t] # "adding"
                      /\ pc'[t] \in Managing => pc[t] \in Managing \ {"adding"} /\ manager'[t] = manager[t]

LEMMA MakingFramed ==
  ASSUME Making, NEW t, FactoryStays(t),
         \A m \in Known : m # None => m \in Managers,
         \A u \in Threads : pc[u] \in Managing => manager[u] \in Managers
  PROVE  Making'
<1>1. Made'
  BY DEF Making, Made, FactoryStays, IsConsole
<1>2. ASSUME NEW u \in Threads PROVE MakingOf(u)'
  <2>1. MakingOf(u) /\ (pc[u] \in Managing => manager[u] \in Managers)
    BY DEF Making
  <2>2. CASE u = t
    BY <2>1, <2>2 DEF MakingOf, FactoryStays, IsConsole
  <2>3. CASE u # t
    <3>1. pc'[u] = pc[u] /\ manager'[u] = manager[u] /\ "adding" \in Managing
      BY <2>3 DEF FactoryStays, Managing, Labels
    <3>2. QED
      BY <2>1, <3>1 DEF MakingOf, FactoryStays, IsConsole
  <2>4. QED
    BY <2>2, <2>3
<1>3. QED
  BY <1>1, <1>2 DEF Making

(* Whom a call has to do with. *)
LEMMA CallFacts ==
  ASSUME DataShape, CallShape, Control
  PROVE  /\ created \in Nat /\ created <= Cardinality(Managers)
         /\ None \in Known /\ \A m \in Known : m # None => m \in Managers
         /\ \A t \in Threads :
              /\ ControlOf(t) /\ pc[t] \in Labels
              /\ manager[t] \in Known
              /\ pc[t] \in Managing => manager[t] \in Managers
              /\ pc[t] \in Displaying => record[t] \in Records /\ record[t] \in 1..Len(owner)
              /\ pc[t] \notin Displaying => record[t] = None
              /\ pc[t] \notin Managing => manager[t] = None
              /\ pc[t] \notin Writing => batch[t] = <<>>
<1>1. created \in 0..Cardinality(Managers) /\ manager \in [Threads -> Known] /\ pc \in [Threads -> Labels]
  BY DEF CallShape
<1>2. record \in [Threads -> 0..Len(owner)] /\ Len(owner) \in Nat
  BY LenProperties DEF DataShape
<1>3. /\ created \in Nat /\ created <= Cardinality(Managers)
      /\ None \in Known /\ \A m \in Known : m # None => m \in Managers
  BY <1>1, ParameterFacts DEF Known
<1>4. \A t \in Threads : record[t] # None => record[t] \in Records /\ record[t] \in 1..Len(owner)
  BY <1>2 DEF None, Records
<1>5. \A t \in Threads : ControlOf(t)
  BY DEF Control
<1>6. QED
  BY <1>1, <1>3, <1>4, <1>5 DEF ControlOf

LEMMA DisplayControl ==
  ASSUME DataShape, Base, NEW t \in Threads, Display(t)
  PROVE  Base'
<1>0. QueueShape /\ CallShape /\ Control /\ Working /\ Making
  BY DEF Base
<1>1. /\ ControlOf(t) /\ pc[t] \in Labels /\ manager[t] \in Known /\ None \in Known
      /\ pc[t] \in Managing => manager[t] \in Managers
      /\ pc[t] \in Displaying => record[t] \in Records
      /\ \A u \in Threads : pc[u] \in Managing => manager[u] \in Managers
      /\ \A m \in Known : m # None => m \in Managers
      /\ t # None /\ t \notin Managers /\ \A m \in Managers : m # None /\ m \notin Threads
  BY <1>0, CallFacts, ParameterFacts
<1>2. Known' = Known
  BY DEF Known, Display, factory
<1>3. QueueShape'
  BY <1>0, <1>1 DEF QueueShape, WorkerLabels, Managing, Labels, Display, Goto,
     config, factory, queues, workers, backends, threads, history
<1>4. CallShape'
  BY <1>0, <1>1, <1>2 DEF CallShape, Labels, Display, Goto,
     config, factory, queues, workers, backends, threads, history
<1>5. /\ pc[t] = "idle" /\ ~frozen[t]
      /\ pc'[t] = IF Registered[t] THEN "registered" ELSE "add"
      /\ record'[t] # None
      /\ next'[t] = "idle"
      /\ manager'[t] = manager[t] /\ batch'[t] = batch[t] /\ frozen'[t] = frozen[t]
      /\ Registered'[t] = Registered[t] /\ Manager'[t] = Manager[t]
  <2>1. record'[t] = Len(owner) + 1 /\ Len(owner) \in Nat
    BY LenProperties DEF DataShape, Display
  <2>2. record'[t] # None
    BY <2>1 DEF None
  <2>3. QED
    BY <1>0, <1>1, <2>2 DEF CallShape, DataShape, IsConsole, Display, Goto,
       config, factory, queues, workers, backends, threads, history
<1>6. OthersStay(t)
  BY <1>0 DEF OthersStay, CallShape, DataShape, Display, Goto,
     config, factory, queues, workers, backends, threads, history
<1>7. ControlOf(t)'
  BY <1>1, <1>5, <1>6 DEF ControlOf, OthersStay, CallShape, Displaying, Managing, Writing, Leaving,
     Labels, IsConsole
<1>8. Control'
  BY <1>0, <1>6, <1>7, ControlFramed
<1>9. WorkersStay(None)
  BY <1>0, <1>1 DEF WorkersStay, DataShape, Display, Goto,
     config, factory, queues, workers, backends, threads, history
<1>10. Working'
  BY <1>0, <1>1, <1>9, WorkingFramed
<1>11. FactoryStays(t)
  BY <1>0, <1>1, <1>2, <1>5, <1>6, <1>9 DEF FactoryStays, WorkersStay, OthersStay, Managing,
     Displaying, Labels, CallShape, Display,
     config, factory, queues, workers, backends, threads, history
<1>12. Making'
  BY <1>0, <1>1, <1>11, MakingFramed
<1>13. QED
  BY <1>3, <1>4, <1>8, <1>10, <1>12 DEF Base

LEMMA DisplaySyncControl ==
  ASSUME DataShape, Base, NEW t \in Threads, DisplaySync(t)
  PROVE  Base'
<1>0. QueueShape /\ CallShape /\ Control /\ Working /\ Making
  BY DEF Base
<1>1. /\ ControlOf(t) /\ pc[t] \in Labels /\ manager[t] \in Known /\ None \in Known
      /\ pc[t] \in Managing => manager[t] \in Managers
      /\ pc[t] \in Displaying => record[t] \in Records
      /\ \A u \in Threads : pc[u] \in Managing => manager[u] \in Managers
      /\ \A m \in Known : m # None => m \in Managers
      /\ t # None /\ t \notin Managers /\ \A m \in Managers : m # None /\ m \notin Threads
  BY <1>0, CallFacts, ParameterFacts
<1>2. Known' = Known
  BY DEF Known, DisplaySync, factory
<1>3. QueueShape'
  BY <1>0, <1>1 DEF QueueShape, WorkerLabels, Managing, Labels, DisplaySync, Goto,
     config, factory, queues, workers, backends, threads, history
<1>4. CallShape'
  BY <1>0, <1>1, <1>2 DEF CallShape, Labels, DisplaySync, Goto,
     config, factory, queues, workers, backends, threads, history
<1>5. /\ pc[t] = "idle" /\ ~frozen[t] /\ ~IsConsole
      /\ pc'[t] = "registered"
      /\ record'[t] # None
      /\ next'[t] = "flush"
      /\ manager'[t] = manager[t] /\ batch'[t] = batch[t] /\ frozen'[t] = frozen[t]
      /\ Registered'[t] = Registered[t] /\ Manager'[t] = Manager[t]
  <2>1. record'[t] = Len(owner) + 1 /\ Len(owner) \in Nat
    BY LenProperties DEF DataShape, DisplaySync
  <2>2. record'[t] # None
    BY <2>1 DEF None
  <2>3. QED
    BY <1>0, <1>1, <2>2 DEF CallShape, DataShape, IsConsole, DisplaySync, Goto,
       config, factory, queues, workers, backends, threads, history
<1>6. OthersStay(t)
  BY <1>0 DEF OthersStay, CallShape, DataShape, DisplaySync, Goto,
     config, factory, queues, workers, backends, threads, history
<1>7. ControlOf(t)'
  BY <1>1, <1>5, <1>6 DEF ControlOf, OthersStay, CallShape, Displaying, Managing, Writing, Leaving,
     Labels, IsConsole
<1>8. Control'
  BY <1>0, <1>6, <1>7, ControlFramed
<1>9. WorkersStay(None)
  BY <1>0, <1>1 DEF WorkersStay, DataShape, DisplaySync, Goto,
     config, factory, queues, workers, backends, threads, history
<1>10. Working'
  BY <1>0, <1>1, <1>9, WorkingFramed
<1>11. FactoryStays(t)
  BY <1>0, <1>1, <1>2, <1>5, <1>6, <1>9 DEF FactoryStays, WorkersStay, OthersStay, Managing,
     Displaying, Labels, CallShape, DisplaySync,
     config, factory, queues, workers, backends, threads, history
<1>12. Making'
  BY <1>0, <1>1, <1>11, MakingFramed
<1>13. QED
  BY <1>3, <1>4, <1>8, <1>10, <1>12 DEF Base

LEMMA AddControl ==
  ASSUME DataShape, Base, NEW t \in Threads, Add(t)
  PROVE  Base'
<1>0. QueueShape /\ CallShape /\ Control /\ Working /\ Making
  BY DEF Base
<1>1. /\ ControlOf(t) /\ pc[t] \in Labels /\ manager[t] \in Known /\ None \in Known
      /\ pc[t] \in Managing => manager[t] \in Managers
      /\ pc[t] \in Displaying => record[t] \in Records
      /\ \A u \in Threads : pc[u] \in Managing => manager[u] \in Managers
      /\ \A m \in Known : m # None => m \in Managers
      /\ t # None /\ t \notin Managers /\ \A m \in Managers : m # None /\ m \notin Threads
  BY <1>0, CallFacts, ParameterFacts
<1>2. /\ Known \subseteq Known' /\ Known' \subseteq Known \cup {Instance'}
      /\ created' \in 0..Cardinality(Managers) /\ Instance' \in Known' \ {None}
  <2>1. /\ created \in Nat /\ created <= Cardinality(Managers) /\ Cardinality(Managers) \in Nat
        /\ \A m \in Managers : m <= Cardinality(Managers)
    BY <1>0, CallFacts, ParameterFacts
  <2>2. \/ created' = created + 1 /\ Instance' = created + 1 /\ created + 1 \in Managers
        \/ created' = created /\ Instance' = Instance /\ Instance # None /\ Instance \in Known
    BY <1>0 DEF Add, CallShape
  <2>3. QED
    BY <2>1, <2>2 DEF Known, None
<1>3. QueueShape'
  BY <1>0, <1>1 DEF QueueShape, WorkerLabels, Managing, Labels, Add, Goto,
     config, factory, queues, workers, backends, threads, history
<1>4. CallShape'
  BY <1>0, <1>1, <1>2 DEF CallShape, Labels, Add, Goto,
     config, factory, queues, workers, backends, threads, history
<1>5. /\ pc[t] = "add"
      /\ pc'[t] = "adding"
      /\ manager'[t] # None
      /\ record'[t] = record[t] /\ batch'[t] = batch[t] /\ frozen'[t] = frozen[t]
      /\ Registered'[t] = Registered[t] /\ Manager'[t] = Manager[t] /\ next'[t] = next[t]
  BY <1>0, <1>1 DEF CallShape, DataShape, IsConsole, Add, Goto,
     config, factory, queues, workers, backends, threads, history
<1>6. OthersStay(t)
  BY <1>0 DEF OthersStay, CallShape, DataShape, Add, Goto,
     config, factory, queues, workers, backends, threads, history
<1>7. ControlOf(t)'
  BY <1>1, <1>5, <1>6 DEF ControlOf, OthersStay, CallShape, Displaying, Managing, Writing, Leaving,
     Labels, IsConsole
<1>8. Control'
  BY <1>0, <1>6, <1>7, ControlFramed
<1>9. WorkersStay(None)
  BY <1>0, <1>1 DEF WorkersStay, DataShape, Add, Goto,
     config, factory, queues, workers, backends, threads, history
<1>10. Working'
  BY <1>0, <1>1, <1>9, WorkingFramed
<1>11. Making'
  <2>1. /\ pc' = [pc EXCEPT ![t] = "adding"] /\ manager' = [manager EXCEPT ![t] = Instance']
        /\ factoryLock = None /\ factoryLock' = t /\ worker' = worker /\ kind' = kind
        /\ DOMAIN pc = Threads /\ DOMAIN manager = Threads
    BY <1>0 DEF Add, Goto, workers, config, CallShape
  <2>2. \A u \in Threads : pc[u] # "adding"
    BY <1>0, <2>1, ParameterFacts DEF Making, MakingOf
  <2>3. Made'
    BY <1>0, <1>1, <1>2, <2>1 DEF Making, Made, IsConsole
  <2>4. \A u \in Threads : MakingOf(u)'
    BY <1>0, <2>1, <2>2 DEF Making, MakingOf, IsConsole
  <2>5. QED
    BY <2>3, <2>4 DEF Making
<1>13. QED
  BY <1>3, <1>4, <1>8, <1>10, <1>11 DEF Base

LEMMA AddBackendControl ==
  ASSUME DataShape, Base, NEW t \in Threads, AddBackend(t)
  PROVE  Base'
<1>0. QueueShape /\ CallShape /\ Control /\ Working /\ Making
  BY DEF Base
<1>1. /\ ControlOf(t) /\ pc[t] \in Labels /\ manager[t] \in Known /\ None \in Known
      /\ pc[t] \in Managing => manager[t] \in Managers
      /\ pc[t] \in Displaying => record[t] \in Records
      /\ \A u \in Threads : pc[u] \in Managing => manager[u] \in Managers
      /\ \A m \in Known : m # None => m \in Managers
      /\ t # None /\ t \notin Managers /\ \A m \in Managers : m # None /\ m \notin Threads
  BY <1>0, CallFacts, ParameterFacts
<1>2. Known' = Known
  BY DEF Known, AddBackend, factory
<1>3. QueueShape'
  BY <1>0, <1>1 DEF QueueShape, WorkerLabels, Managing, Labels, AddBackend, Goto,
     config, factory, queues, workers, backends, threads, history
<1>4. CallShape'
  BY <1>0, <1>1, <1>2 DEF CallShape, Labels, AddBackend, Goto,
     config, factory, queues, workers, backends, threads, history
<1>5. /\ pc[t] = "adding"
      /\ pc'[t] = "registered"
      /\ manager'[t] = None
      /\ Registered'[t] = TRUE
      /\ Manager'[t] = IF IsConsole THEN manager[t] ELSE None
      /\ record'[t] = record[t] /\ batch'[t] = batch[t] /\ frozen'[t] = frozen[t]
      /\ next'[t] = next[t]
  BY <1>0, <1>1 DEF CallShape, DataShape, IsConsole, AddBackend, Goto,
     config, factory, queues, workers, backends, threads, history
<1>6. OthersStay(t)
  BY <1>0 DEF OthersStay, CallShape, DataShape, AddBackend, Goto,
     config, factory, queues, workers, backends, threads, history
<1>7. ControlOf(t)'
  BY <1>1, <1>5, <1>6 DEF ControlOf, OthersStay, CallShape, Displaying, Managing, Writing, Leaving,
     Labels, IsConsole
<1>8. Control'
  BY <1>0, <1>6, <1>7, ControlFramed
<1>9. Working'
  <2>0. manager[t] \in Managers
    BY <1>1, <1>5 DEF Managing, Labels
  <2>1. WorkersStay(manager[t])
    BY <1>0, <1>1, <2>0 DEF WorkersStay, DataShape, QueueShape, AddBackend, Goto,
       config, factory, queues, workers, backends, threads, history
  <2>2. /\ worker'[manager[t]] = worker[manager[t]] \/ (worker[manager[t]] = "none" /\ worker'[manager[t]] = "test")
        /\ batch'[manager[t]] = batch[manager[t]]
        /\ StopRequested'[manager[t]] = StopRequested[manager[t]]
        /\ Processing'[manager[t]] = Processing[manager[t]]
    BY <1>0, <1>1, <1>5, <2>0 DEF DataShape, QueueShape, AddBackend, Goto,
       config, factory, queues, workers, backends, threads, history
  <2>3. WorkingOf(manager[t]) /\ drained \subseteq drained' /\ kind' = kind
    BY <1>0, <2>0, <2>1 DEF Working, WorkersStay
  <2>4. \A m \in Managers : m = manager[t] => WorkingOf(m)'
    BY <2>2, <2>3 DEF WorkingOf, IsConsole
  <2>5. QED
    BY <1>0, <2>0, <2>1, <2>4, WorkingFramed
<1>10. \A n \in Managers : worker[n] # "none" => worker'[n] # "none"
  BY <1>0 DEF QueueShape, AddBackend, Goto,
     config, factory, queues, workers, backends, threads, history
<1>11. Making'
  <2>1. /\ pc' = [pc EXCEPT ![t] = "registered"] /\ manager' = [manager EXCEPT ![t] = None]
        /\ factoryLock' = None /\ Instance' = Instance /\ kind' = kind
        /\ DOMAIN pc = Threads /\ DOMAIN manager = Threads
    BY <1>0 DEF AddBackend, Goto, config, CallShape
  <2>2. /\ pc[t] = "adding" /\ factoryLock = t /\ manager[t] = Instance
        /\ manager[t] \in Managers
        /\ \A u \in Threads \ {t} : pc[u] # "adding"
    BY <1>0, <1>1 DEF Making, MakingOf, AddBackend, Managing, Labels
  <2>3. /\ ~IsConsole => worker'[manager[t]] # "none"
        /\ \A n \in Managers : worker[n] # "none" => worker'[n] # "none"
    BY <1>0, <2>2 DEF AddBackend, QueueShape
  <2>4. Made'
    BY <1>0, <1>1, <1>2, <2>1, <2>2, <2>3 DEF Making, Made, IsConsole
  <2>5. \A u \in Threads : MakingOf(u)'
    <3>1. MakingOf(t)'
      BY <2>1 DEF MakingOf, Managing, Labels
    <3>2. ASSUME NEW u \in Threads, u # t PROVE MakingOf(u)'
      BY <1>0, <1>1, <2>1, <2>2, <2>3, <3>2 DEF Making, MakingOf, IsConsole
    <3>3. QED
      BY <3>1, <3>2
  <2>6. QED
    BY <2>4, <2>5 DEF Making
<1>13. QED
  BY <1>3, <1>4, <1>8, <1>9, <1>11 DEF Base

LEMMA TestStoppingControl ==
  ASSUME DataShape, Base, NEW t \in Threads, TestStopping(t)
  PROVE  Base'
<1>0. QueueShape /\ CallShape /\ Control /\ Working /\ Making
  BY DEF Base
<1>1. /\ ControlOf(t) /\ pc[t] \in Labels /\ manager[t] \in Known /\ None \in Known
      /\ pc[t] \in Managing => manager[t] \in Managers
      /\ pc[t] \in Displaying => record[t] \in Records
      /\ \A u \in Threads : pc[u] \in Managing => manager[u] \in Managers
      /\ \A m \in Known : m # None => m \in Managers
      /\ t # None /\ t \notin Managers /\ \A m \in Managers : m # None /\ m \notin Threads
  BY <1>0, CallFacts, ParameterFacts
<1>2. Known' = Known
  BY DEF Known, TestStopping, Target, NotAccepted, factory
<1>3. QueueShape'
  BY <1>0, <1>1 DEF QueueShape, WorkerLabels, Managing, Labels, TestStopping, Target, NotAccepted,
     Goto,
     config, factory, queues, workers, backends, threads, history
<1>4. CallShape'
  <2>1. manager' \in [Threads -> Known] /\ Manager' \in [Threads -> Known]
    BY <1>0, <1>1 DEF CallShape, TestStopping, Target, NotAccepted,
       config, factory, queues, workers, backends, threads, history
  <2>2. pc' \in [Threads -> Labels]
    <3>1. pc' = [pc EXCEPT ![t] = "idle"] \/ pc' = [pc EXCEPT ![t] = "push"]
      BY DEF TestStopping, NotAccepted, Goto
    <3>2. pc \in [Threads -> Labels] /\ "idle" \in Labels /\ "push" \in Labels
      BY <1>0 DEF CallShape, Labels
    <3>3. QED
      BY <3>1, <3>2
  <2>3. QED
    BY <1>0, <1>1, <1>2, <2>1, <2>2 DEF CallShape, TestStopping, Target, NotAccepted,
       config, factory, queues, workers, backends, threads, history
<1>5. /\ pc[t] = "registered"
      /\ \/ pc'[t] = "idle" /\ record'[t] = None /\ manager'[t] = None
         \/ pc'[t] = "push" /\ record'[t] = record[t] /\ manager'[t] # None
      /\ batch'[t] = batch[t] /\ frozen'[t] = frozen[t] /\ Registered'[t] = Registered[t]
      /\ Manager'[t] = Manager[t] /\ next'[t] = next[t]
  BY <1>0, <1>1 DEF CallShape, DataShape, IsConsole, TestStopping, Target, NotAccepted, Goto,
     config, factory, queues, workers, backends, threads, history
<1>6. OthersStay(t)
  BY <1>0 DEF OthersStay, CallShape, DataShape, TestStopping, Target, NotAccepted, Goto,
     config, factory, queues, workers, backends, threads, history
<1>7. ControlOf(t)'
  BY <1>1, <1>5, <1>6 DEF ControlOf, OthersStay, CallShape, Displaying, Managing, Writing, Leaving,
     Labels, IsConsole
<1>8. Control'
  BY <1>0, <1>6, <1>7, ControlFramed
<1>9. WorkersStay(None)
  BY <1>0, <1>1 DEF WorkersStay, DataShape, TestStopping, Target, NotAccepted, Goto,
     config, factory, queues, workers, backends, threads, history
<1>10. Working'
  BY <1>0, <1>1, <1>9, WorkingFramed
<1>11. Making'
  <2>1. /\ factoryLock' = factoryLock /\ worker' = worker /\ kind' = kind /\ Instance' = Instance
        /\ pc'[t] # "adding"
        /\ ~IsConsole /\ pc'[t] \in Managing => manager'[t] = Instance /\ Instance # None /\ factoryLock = None
    BY <1>0, <1>5 DEF TestStopping, Target, NotAccepted, Goto, CallShape, IsConsole, Managing,
       Labels,
       config, factory, workers
  <2>2. Instance \in Known
    BY <1>0 DEF CallShape
  <2>3. Made'
    BY <1>0, <1>2, <2>1 DEF Making, Made, IsConsole
  <2>4. MakingOf(t)'
    BY <1>0, <2>1, <2>2 DEF Making, Made, MakingOf, IsConsole
  <2>5. ASSUME NEW u \in Threads, u # t PROVE MakingOf(u)'
    BY <1>0, <1>6, <2>1, <2>5 DEF Making, MakingOf, OthersStay, IsConsole
  <2>6. QED
    BY <2>3, <2>4, <2>5 DEF Making
<1>13. QED
  BY <1>3, <1>4, <1>8, <1>10, <1>11 DEF Base

LEMMA PushWithSpaceControl ==
  ASSUME DataShape, Base, NEW t \in Threads, PushWithSpace(t)
  PROVE  Base'
<1>0. QueueShape /\ CallShape /\ Control /\ Working /\ Making
  BY DEF Base
<1>1. /\ ControlOf(t) /\ pc[t] \in Labels /\ manager[t] \in Known /\ None \in Known
      /\ pc[t] \in Managing => manager[t] \in Managers
      /\ pc[t] \in Displaying => record[t] \in Records
      /\ \A u \in Threads : pc[u] \in Managing => manager[u] \in Managers
      /\ \A m \in Known : m # None => m \in Managers
      /\ t # None /\ t \notin Managers /\ \A m \in Managers : m # None /\ m \notin Threads
  BY <1>0, CallFacts, ParameterFacts
<1>2. Known' = Known
  BY DEF Known, PushWithSpace, Enqueue, Notified, factory
<1>3. QueueShape'
  BY <1>0, <1>1 DEF QueueShape, WorkerLabels, Managing, Labels, PushWithSpace, Enqueue, Notified,
     Goto,
     config, factory, queues, workers, backends, threads, history
<1>4. CallShape'
  BY <1>0, <1>1, <1>2 DEF CallShape, Labels, PushWithSpace, Enqueue, Notified, Goto,
     config, factory, queues, workers, backends, threads, history
<1>5. /\ pc[t] = "push"
      /\ record'[t] = None
      /\ pc'[t] = next[t]
      /\ manager'[t] = IF next[t] = "flush" THEN manager[t] ELSE None
      /\ next[t] \in {"idle", "flush"}
      /\ batch'[t] = batch[t] /\ frozen'[t] = frozen[t] /\ Registered'[t] = Registered[t]
      /\ Manager'[t] = Manager[t] /\ next'[t] = next[t]
  BY <1>0, <1>1 DEF CallShape, DataShape, IsConsole, PushWithSpace, Enqueue, Notified, Goto,
     config, factory, queues, workers, backends, threads, history
<1>6. OthersStay(t)
  BY <1>0 DEF OthersStay, CallShape, DataShape, PushWithSpace, Enqueue, Notified, Goto,
     config, factory, queues, workers, backends, threads, history
<1>7. ControlOf(t)'
  BY <1>1, <1>5, <1>6 DEF ControlOf, OthersStay, CallShape, Displaying, Managing, Writing, Leaving,
     Labels, IsConsole
<1>8. Control'
  BY <1>0, <1>6, <1>7, ControlFramed
<1>9. Working'
  <2>0. manager[t] \in Managers
    BY <1>1, <1>5 DEF Managing, Labels
  <2>1. WorkersStay(manager[t])
    BY <1>0, <1>1, <2>0 DEF WorkersStay, DataShape, QueueShape, PushWithSpace, Enqueue, Notified,
       Goto,
       config, factory, queues, workers, backends, threads, history
  <2>2. /\ worker'[manager[t]] = worker[manager[t]] \/ (worker[manager[t]] = "blocked" /\ worker'[manager[t]] = "test")
        /\ batch'[manager[t]] = batch[manager[t]]
        /\ StopRequested'[manager[t]] = StopRequested[manager[t]]
        /\ Processing'[manager[t]] = Processing[manager[t]]
    BY <1>0, <1>1, <1>5, <2>0 DEF DataShape, QueueShape, PushWithSpace, Enqueue, Notified, Goto,
       config, factory, queues, workers, backends, threads, history
  <2>3. WorkingOf(manager[t]) /\ drained \subseteq drained' /\ kind' = kind
    BY <1>0, <2>0, <2>1 DEF Working, WorkersStay
  <2>4. \A m \in Managers : m = manager[t] => WorkingOf(m)'
    BY <2>2, <2>3 DEF WorkingOf, IsConsole
  <2>5. QED
    BY <1>0, <2>0, <2>1, <2>4, WorkingFramed
<1>10. \A n \in Managers : worker[n] # "none" => worker'[n] # "none"
  BY <1>0 DEF QueueShape, PushWithSpace, Enqueue, Notified, Goto,
     config, factory, queues, workers, backends, threads, history
<1>11. FactoryStays(t)
  BY <1>0, <1>1, <1>2, <1>5, <1>6, <1>10 DEF FactoryStays, WorkersStay, OthersStay, Managing,
     Displaying, Labels, CallShape, PushWithSpace, Enqueue, Notified,
     config, factory, queues, workers, backends, threads, history
<1>12. Making'
  BY <1>0, <1>1, <1>11, MakingFramed
<1>13. QED
  BY <1>3, <1>4, <1>8, <1>9, <1>12 DEF Base

LEMMA PushDropOldestControl ==
  ASSUME DataShape, Base, NEW t \in Threads, PushDropOldest(t)
  PROVE  Base'
<1>0. QueueShape /\ CallShape /\ Control /\ Working /\ Making
  BY DEF Base
<1>1. /\ ControlOf(t) /\ pc[t] \in Labels /\ manager[t] \in Known /\ None \in Known
      /\ pc[t] \in Managing => manager[t] \in Managers
      /\ pc[t] \in Displaying => record[t] \in Records
      /\ \A u \in Threads : pc[u] \in Managing => manager[u] \in Managers
      /\ \A m \in Known : m # None => m \in Managers
      /\ t # None /\ t \notin Managers /\ \A m \in Managers : m # None /\ m \notin Threads
  BY <1>0, CallFacts, ParameterFacts
<1>2. Known' = Known
  BY DEF Known, PushDropOldest, Enqueue, Notified, factory
<1>3. QueueShape'
  BY <1>0, <1>1 DEF QueueShape, WorkerLabels, Managing, Labels, PushDropOldest, Enqueue, Notified,
     Goto,
     config, factory, queues, workers, backends, threads, history
<1>4. CallShape'
  BY <1>0, <1>1, <1>2 DEF CallShape, Labels, PushDropOldest, Enqueue, Notified, Goto,
     config, factory, queues, workers, backends, threads, history
<1>5. /\ pc[t] = "push"
      /\ record'[t] = None
      /\ pc'[t] = next[t]
      /\ manager'[t] = IF next[t] = "flush" THEN manager[t] ELSE None
      /\ next[t] \in {"idle", "flush"}
      /\ batch'[t] = batch[t] /\ frozen'[t] = frozen[t] /\ Registered'[t] = Registered[t]
      /\ Manager'[t] = Manager[t] /\ next'[t] = next[t]
  BY <1>0, <1>1 DEF CallShape, DataShape, IsConsole, PushDropOldest, Enqueue, Notified, Goto,
     config, factory, queues, workers, backends, threads, history
<1>6. OthersStay(t)
  BY <1>0 DEF OthersStay, CallShape, DataShape, PushDropOldest, Enqueue, Notified, Goto,
     config, factory, queues, workers, backends, threads, history
<1>7. ControlOf(t)'
  BY <1>1, <1>5, <1>6 DEF ControlOf, OthersStay, CallShape, Displaying, Managing, Writing, Leaving,
     Labels, IsConsole
<1>8. Control'
  BY <1>0, <1>6, <1>7, ControlFramed
<1>9. Working'
  <2>0. manager[t] \in Managers
    BY <1>1, <1>5 DEF Managing, Labels
  <2>1. WorkersStay(manager[t])
    BY <1>0, <1>1, <2>0 DEF WorkersStay, DataShape, QueueShape, PushDropOldest, Enqueue, Notified,
       Goto,
       config, factory, queues, workers, backends, threads, history
  <2>2. /\ worker'[manager[t]] = worker[manager[t]] \/ (worker[manager[t]] = "blocked" /\ worker'[manager[t]] = "test")
        /\ batch'[manager[t]] = batch[manager[t]]
        /\ StopRequested'[manager[t]] = StopRequested[manager[t]]
        /\ Processing'[manager[t]] = Processing[manager[t]]
    BY <1>0, <1>1, <1>5, <2>0 DEF DataShape, QueueShape, PushDropOldest, Enqueue, Notified, Goto,
       config, factory, queues, workers, backends, threads, history
  <2>3. WorkingOf(manager[t]) /\ drained \subseteq drained' /\ kind' = kind
    BY <1>0, <2>0, <2>1 DEF Working, WorkersStay
  <2>4. \A m \in Managers : m = manager[t] => WorkingOf(m)'
    BY <2>2, <2>3 DEF WorkingOf, IsConsole
  <2>5. QED
    BY <1>0, <2>0, <2>1, <2>4, WorkingFramed
<1>10. \A n \in Managers : worker[n] # "none" => worker'[n] # "none"
  BY <1>0 DEF QueueShape, PushDropOldest, Enqueue, Notified, Goto,
     config, factory, queues, workers, backends, threads, history
<1>11. FactoryStays(t)
  BY <1>0, <1>1, <1>2, <1>5, <1>6, <1>10 DEF FactoryStays, WorkersStay, OthersStay, Managing,
     Displaying, Labels, CallShape, PushDropOldest, Enqueue, Notified,
     config, factory, queues, workers, backends, threads, history
<1>12. Making'
  BY <1>0, <1>1, <1>11, MakingFramed
<1>13. QED
  BY <1>3, <1>4, <1>8, <1>9, <1>12 DEF Base

LEMMA PushDropNewControl ==
  ASSUME DataShape, Base, NEW t \in Threads, PushDropNew(t)
  PROVE  Base'
<1>0. QueueShape /\ CallShape /\ Control /\ Working /\ Making
  BY DEF Base
<1>1. /\ ControlOf(t) /\ pc[t] \in Labels /\ manager[t] \in Known /\ None \in Known
      /\ pc[t] \in Managing => manager[t] \in Managers
      /\ pc[t] \in Displaying => record[t] \in Records
      /\ \A u \in Threads : pc[u] \in Managing => manager[u] \in Managers
      /\ \A m \in Known : m # None => m \in Managers
      /\ t # None /\ t \notin Managers /\ \A m \in Managers : m # None /\ m \notin Threads
  BY <1>0, CallFacts, ParameterFacts
<1>2. Known' = Known
  BY DEF Known, PushDropNew, NotAccepted, factory
<1>3. QueueShape'
  BY <1>0, <1>1 DEF QueueShape, WorkerLabels, Managing, Labels, PushDropNew, NotAccepted, Goto,
     config, factory, queues, workers, backends, threads, history
<1>4. CallShape'
  BY <1>0, <1>1, <1>2 DEF CallShape, Labels, PushDropNew, NotAccepted, Goto,
     config, factory, queues, workers, backends, threads, history
<1>5. /\ pc[t] = "push"
      /\ record'[t] = None
      /\ pc'[t] = "idle"
      /\ manager'[t] = None
      /\ batch'[t] = batch[t] /\ frozen'[t] = frozen[t] /\ Registered'[t] = Registered[t]
      /\ Manager'[t] = Manager[t] /\ next'[t] = next[t]
  BY <1>0, <1>1 DEF CallShape, DataShape, IsConsole, PushDropNew, NotAccepted, Goto,
     config, factory, queues, workers, backends, threads, history
<1>6. OthersStay(t)
  BY <1>0 DEF OthersStay, CallShape, DataShape, PushDropNew, NotAccepted, Goto,
     config, factory, queues, workers, backends, threads, history
<1>7. ControlOf(t)'
  BY <1>1, <1>5, <1>6 DEF ControlOf, OthersStay, CallShape, Displaying, Managing, Writing, Leaving,
     Labels, IsConsole
<1>8. Control'
  BY <1>0, <1>6, <1>7, ControlFramed
<1>9. WorkersStay(None)
  BY <1>0, <1>1 DEF WorkersStay, DataShape, PushDropNew, NotAccepted, Goto,
     config, factory, queues, workers, backends, threads, history
<1>10. Working'
  BY <1>0, <1>1, <1>9, WorkingFramed
<1>11. FactoryStays(t)
  BY <1>0, <1>1, <1>2, <1>5, <1>6, <1>9 DEF FactoryStays, WorkersStay, OthersStay, Managing,
     Displaying, Labels, CallShape, PushDropNew, NotAccepted,
     config, factory, queues, workers, backends, threads, history
<1>12. Making'
  BY <1>0, <1>1, <1>11, MakingFramed
<1>13. QED
  BY <1>3, <1>4, <1>8, <1>10, <1>12 DEF Base

LEMMA PushDrainsControl ==
  ASSUME DataShape, Base, NEW t \in Threads, PushDrains(t)
  PROVE  Base'
<1>0. QueueShape /\ CallShape /\ Control /\ Working /\ Making
  BY DEF Base
<1>1. /\ ControlOf(t) /\ pc[t] \in Labels /\ manager[t] \in Known /\ None \in Known
      /\ pc[t] \in Managing => manager[t] \in Managers
      /\ pc[t] \in Displaying => record[t] \in Records
      /\ \A u \in Threads : pc[u] \in Managing => manager[u] \in Managers
      /\ \A m \in Known : m # None => m \in Managers
      /\ t # None /\ t \notin Managers /\ \A m \in Managers : m # None /\ m \notin Threads
  BY <1>0, CallFacts, ParameterFacts
<1>2. Known' = Known
  BY DEF Known, PushDrains, TakeBatch, factory
<1>3. QueueShape'
  BY <1>0, <1>1 DEF QueueShape, WorkerLabels, Managing, Labels, PushDrains, TakeBatch, Goto,
     config, factory, queues, workers, backends, threads, history
<1>4. CallShape'
  BY <1>0, <1>1, <1>2 DEF CallShape, Labels, PushDrains, TakeBatch, Goto,
     config, factory, queues, workers, backends, threads, history
<1>5. /\ pc[t] = "push"
      /\ \/ IsConsole /\ pc'[t] = "drain push" /\ batch'[t] = batch[t]
         \/ ~IsConsole /\ pc'[t] = "write push" /\ manager[t] \in drained'
      /\ record'[t] = record[t] /\ manager'[t] = manager[t] /\ frozen'[t] = frozen[t]
      /\ Registered'[t] = Registered[t] /\ Manager'[t] = Manager[t] /\ next'[t] = next[t]
  BY <1>0, <1>1 DEF CallShape, DataShape, IsConsole, PushDrains, TakeBatch, Goto,
     config, factory, queues, workers, backends, threads, history
<1>6. OthersStay(t)
  BY <1>0 DEF OthersStay, CallShape, DataShape, PushDrains, TakeBatch, Goto,
     config, factory, queues, workers, backends, threads, history
<1>7. ControlOf(t)'
  BY <1>1, <1>5, <1>6 DEF ControlOf, OthersStay, CallShape, Displaying, Managing, Writing, Leaving,
     Labels, IsConsole
<1>8. Control'
  BY <1>0, <1>6, <1>7, ControlFramed
<1>9. Working'
  <2>0. manager[t] \in Managers
    BY <1>1, <1>5 DEF Managing, Labels
  <2>1. WorkersStay(manager[t])
    <3>1. /\ kind' = kind /\ drained \subseteq drained' /\ worker' = worker
          /\ StopRequested' = StopRequested
      BY <1>0 DEF PushDrains, TakeBatch, config, workers
    <3>2. \A n \in Managers \ {manager[t]} : batch'[n] = batch[n] /\ Processing'[n] = Processing[n]
      <4>1. /\ batch' = batch \/ batch' = [batch EXCEPT ![t] = Buffer[manager[t]]]
            /\ \/ Processing' = Processing
               \/ Processing' = [Processing EXCEPT ![manager[t]] = TRUE]
            /\ DOMAIN batch = Threads \cup Managers /\ DOMAIN Processing = Managers
        BY <1>0 DEF PushDrains, TakeBatch, DataShape, QueueShape
      <4>2. \A n \in Managers : n # t /\ n \in DOMAIN batch /\ n \in DOMAIN Processing
        BY <1>1, <4>1
      <4>3. QED
        BY <4>1, <4>2
    <3>3. QED
      BY <3>1, <3>2 DEF WorkersStay
  <2>2. /\ manager[t] \in drained' \/ Processing'[manager[t]] = Processing[manager[t]]
        /\ worker'[manager[t]] = worker[manager[t]]
        /\ batch'[manager[t]] = batch[manager[t]]
        /\ StopRequested'[manager[t]] = StopRequested[manager[t]]
    BY <1>0, <1>1, <1>5, <2>0 DEF DataShape, QueueShape, PushDrains, TakeBatch, Goto,
       config, factory, queues, workers, backends, threads, history
  <2>3. WorkingOf(manager[t]) /\ drained \subseteq drained' /\ kind' = kind
    BY <1>0, <2>0, <2>1 DEF Working, WorkersStay
  <2>4. \A m \in Managers : m = manager[t] => WorkingOf(m)'
    BY <2>2, <2>3 DEF WorkingOf, IsConsole
  <2>5. QED
    BY <1>0, <2>0, <2>1, <2>4, WorkingFramed
<1>10. \A n \in Managers : worker[n] # "none" => worker'[n] # "none"
  BY <1>0 DEF QueueShape, PushDrains, TakeBatch, Goto,
     config, factory, queues, workers, backends, threads, history
<1>11. FactoryStays(t)
  BY <1>0, <1>1, <1>2, <1>5, <1>6, <1>10 DEF FactoryStays, WorkersStay, OthersStay, Managing,
     Displaying, Labels, CallShape, PushDrains, TakeBatch,
     config, factory, queues, workers, backends, threads, history
<1>12. Making'
  BY <1>0, <1>1, <1>11, MakingFramed
<1>13. QED
  BY <1>3, <1>4, <1>8, <1>9, <1>12 DEF Base

LEMMA PushStoppedControl ==
  ASSUME DataShape, Base, NEW t \in Threads, PushStopped(t)
  PROVE  Base'
<1>0. QueueShape /\ CallShape /\ Control /\ Working /\ Making
  BY DEF Base
<1>1. /\ ControlOf(t) /\ pc[t] \in Labels /\ manager[t] \in Known /\ None \in Known
      /\ pc[t] \in Managing => manager[t] \in Managers
      /\ pc[t] \in Displaying => record[t] \in Records
      /\ \A u \in Threads : pc[u] \in Managing => manager[u] \in Managers
      /\ \A m \in Known : m # None => m \in Managers
      /\ t # None /\ t \notin Managers /\ \A m \in Managers : m # None /\ m \notin Threads
  BY <1>0, CallFacts, ParameterFacts
<1>2. Known' = Known
  BY DEF Known, PushStopped, NotAccepted, factory
<1>3. QueueShape'
  BY <1>0, <1>1 DEF QueueShape, WorkerLabels, Managing, Labels, PushStopped, NotAccepted, Goto,
     config, factory, queues, workers, backends, threads, history
<1>4. CallShape'
  BY <1>0, <1>1, <1>2 DEF CallShape, Labels, PushStopped, NotAccepted, Goto,
     config, factory, queues, workers, backends, threads, history
<1>5. /\ pc[t] \in {"push", "refused"}
      /\ record'[t] = None
      /\ pc'[t] = "idle"
      /\ manager'[t] = None
      /\ batch'[t] = batch[t] /\ frozen'[t] = frozen[t] /\ Registered'[t] = Registered[t]
      /\ Manager'[t] = Manager[t] /\ next'[t] = next[t]
  BY <1>0, <1>1 DEF CallShape, DataShape, IsConsole, PushStopped, NotAccepted, Goto,
     config, factory, queues, workers, backends, threads, history
<1>6. OthersStay(t)
  BY <1>0 DEF OthersStay, CallShape, DataShape, PushStopped, NotAccepted, Goto,
     config, factory, queues, workers, backends, threads, history
<1>7. ControlOf(t)'
  BY <1>1, <1>5, <1>6 DEF ControlOf, OthersStay, CallShape, Displaying, Managing, Writing, Leaving,
     Labels, IsConsole
<1>8. Control'
  BY <1>0, <1>6, <1>7, ControlFramed
<1>9. WorkersStay(None)
  BY <1>0, <1>1 DEF WorkersStay, DataShape, PushStopped, NotAccepted, Goto,
     config, factory, queues, workers, backends, threads, history
<1>10. Working'
  BY <1>0, <1>1, <1>9, WorkingFramed
<1>11. FactoryStays(t)
  BY <1>0, <1>1, <1>2, <1>5, <1>6, <1>9 DEF FactoryStays, WorkersStay, OthersStay, Managing,
     Displaying, Labels, CallShape, PushStopped, NotAccepted,
     config, factory, queues, workers, backends, threads, history
<1>12. Making'
  BY <1>0, <1>1, <1>11, MakingFramed
<1>13. QED
  BY <1>3, <1>4, <1>8, <1>10, <1>12 DEF Base

LEMMA DrainTakesControl ==
  ASSUME DataShape, Base, NEW t \in Threads, DrainTakes(t)
  PROVE  Base'
<1>0. QueueShape /\ CallShape /\ Control /\ Working /\ Making
  BY DEF Base
<1>1. /\ ControlOf(t) /\ pc[t] \in Labels /\ manager[t] \in Known /\ None \in Known
      /\ pc[t] \in Managing => manager[t] \in Managers
      /\ pc[t] \in Displaying => record[t] \in Records
      /\ \A u \in Threads : pc[u] \in Managing => manager[u] \in Managers
      /\ \A m \in Known : m # None => m \in Managers
      /\ t # None /\ t \notin Managers /\ \A m \in Managers : m # None /\ m \notin Threads
  BY <1>0, CallFacts, ParameterFacts
<1>2. Known' = Known
  BY DEF Known, DrainTakes, TakeBatch, factory
<1>3. QueueShape'
  BY <1>0, <1>1 DEF QueueShape, WorkerLabels, Managing, Labels, DrainTakes, TakeBatch, Goto,
     config, factory, queues, workers, backends, threads, history
<1>4. CallShape'
  BY <1>0, <1>1, <1>2 DEF CallShape, Labels, DrainTakes, TakeBatch, Goto,
     config, factory, queues, workers, backends, threads, history
<1>5. /\ pc[t] \in {"drain push", "drain flush"}
      /\ pc'[t] = IF pc[t] = "drain push" THEN "write push" ELSE "write flush"
      /\ manager[t] \in drained'
      /\ record'[t] = record[t] /\ manager'[t] = manager[t] /\ frozen'[t] = frozen[t]
      /\ Registered'[t] = Registered[t] /\ Manager'[t] = Manager[t] /\ next'[t] = next[t]
  BY <1>0, <1>1 DEF CallShape, DataShape, IsConsole, DrainTakes, TakeBatch, Goto,
     config, factory, queues, workers, backends, threads, history
<1>6. OthersStay(t)
  BY <1>0 DEF OthersStay, CallShape, DataShape, DrainTakes, TakeBatch, Goto,
     config, factory, queues, workers, backends, threads, history
<1>7. ControlOf(t)'
  BY <1>1, <1>5, <1>6 DEF ControlOf, OthersStay, CallShape, Displaying, Managing, Writing, Leaving,
     Labels, IsConsole
<1>8. Control'
  BY <1>0, <1>6, <1>7, ControlFramed
<1>9. Working'
  <2>0. manager[t] \in Managers
    BY <1>1, <1>5 DEF Managing, Labels
  <2>1. WorkersStay(manager[t])
    BY <1>0, <1>1, <2>0 DEF WorkersStay, DataShape, QueueShape, DrainTakes, TakeBatch, Goto,
       config, factory, queues, workers, backends, threads, history
  <2>2. /\ manager[t] \in drained'
        /\ worker'[manager[t]] = worker[manager[t]]
        /\ batch'[manager[t]] = batch[manager[t]]
        /\ StopRequested'[manager[t]] = StopRequested[manager[t]]
    BY <1>0, <1>1, <1>5, <2>0 DEF DataShape, QueueShape, DrainTakes, TakeBatch, Goto,
       config, factory, queues, workers, backends, threads, history
  <2>3. WorkingOf(manager[t]) /\ drained \subseteq drained' /\ kind' = kind
    BY <1>0, <2>0, <2>1 DEF Working, WorkersStay
  <2>4. \A m \in Managers : m = manager[t] => WorkingOf(m)'
    BY <2>2, <2>3 DEF WorkingOf, IsConsole
  <2>5. QED
    BY <1>0, <2>0, <2>1, <2>4, WorkingFramed
<1>10. \A n \in Managers : worker[n] # "none" => worker'[n] # "none"
  BY <1>0 DEF QueueShape, DrainTakes, TakeBatch, Goto,
     config, factory, queues, workers, backends, threads, history
<1>11. FactoryStays(t)
  BY <1>0, <1>1, <1>2, <1>5, <1>6, <1>10 DEF FactoryStays, WorkersStay, OthersStay, Managing,
     Displaying, Labels, CallShape, DrainTakes, TakeBatch,
     config, factory, queues, workers, backends, threads, history
<1>12. Making'
  BY <1>0, <1>1, <1>11, MakingFramed
<1>13. QED
  BY <1>3, <1>4, <1>8, <1>9, <1>12 DEF Base

LEMMA DrainFindsNothingControl ==
  ASSUME DataShape, Base, NEW t \in Threads, DrainFindsNothing(t)
  PROVE  Base'
<1>0. QueueShape /\ CallShape /\ Control /\ Working /\ Making
  BY DEF Base
<1>1. /\ ControlOf(t) /\ pc[t] \in Labels /\ manager[t] \in Known /\ None \in Known
      /\ pc[t] \in Managing => manager[t] \in Managers
      /\ pc[t] \in Displaying => record[t] \in Records
      /\ \A u \in Threads : pc[u] \in Managing => manager[u] \in Managers
      /\ \A m \in Known : m # None => m \in Managers
      /\ t # None /\ t \notin Managers /\ \A m \in Managers : m # None /\ m \notin Threads
  BY <1>0, CallFacts, ParameterFacts
<1>2. Known' = Known
  BY DEF Known, DrainFindsNothing, factory
<1>3. QueueShape'
  BY <1>0, <1>1 DEF QueueShape, WorkerLabels, Managing, Labels, DrainFindsNothing, Goto,
     config, factory, queues, workers, backends, threads, history
<1>4. CallShape'
  BY <1>0, <1>1, <1>2 DEF CallShape, Labels, DrainFindsNothing, Goto,
     config, factory, queues, workers, backends, threads, history
<1>5. /\ pc[t] \in {"drain push", "drain flush"}
      /\ pc'[t] = IF pc[t] = "drain push" THEN "push" ELSE "flush"
      /\ record'[t] = record[t] /\ manager'[t] = manager[t] /\ batch'[t] = batch[t]
      /\ frozen'[t] = frozen[t] /\ Registered'[t] = Registered[t]
      /\ Manager'[t] = Manager[t] /\ next'[t] = next[t]
  BY <1>0, <1>1 DEF CallShape, DataShape, IsConsole, DrainFindsNothing, Goto,
     config, factory, queues, workers, backends, threads, history
<1>6. OthersStay(t)
  BY <1>0 DEF OthersStay, CallShape, DataShape, DrainFindsNothing, Goto,
     config, factory, queues, workers, backends, threads, history
<1>7. ControlOf(t)'
  BY <1>1, <1>5, <1>6 DEF ControlOf, OthersStay, CallShape, Displaying, Managing, Writing, Leaving,
     Labels, IsConsole
<1>8. Control'
  BY <1>0, <1>6, <1>7, ControlFramed
<1>9. WorkersStay(None)
  BY <1>0, <1>1 DEF WorkersStay, DataShape, DrainFindsNothing, Goto,
     config, factory, queues, workers, backends, threads, history
<1>10. Working'
  BY <1>0, <1>1, <1>9, WorkingFramed
<1>11. FactoryStays(t)
  BY <1>0, <1>1, <1>2, <1>5, <1>6, <1>9 DEF FactoryStays, WorkersStay, OthersStay, Managing,
     Displaying, Labels, CallShape, DrainFindsNothing,
     config, factory, queues, workers, backends, threads, history
<1>12. Making'
  BY <1>0, <1>1, <1>11, MakingFramed
<1>13. QED
  BY <1>3, <1>4, <1>8, <1>10, <1>12 DEF Base

LEMMA DrainWritesControl ==
  ASSUME DataShape, Base, NEW t \in Threads, DrainWrites(t)
  PROVE  Base'
<1>0. QueueShape /\ CallShape /\ Control /\ Working /\ Making
  BY DEF Base
<1>1. /\ ControlOf(t) /\ pc[t] \in Labels /\ manager[t] \in Known /\ None \in Known
      /\ pc[t] \in Managing => manager[t] \in Managers
      /\ pc[t] \in Displaying => record[t] \in Records
      /\ \A u \in Threads : pc[u] \in Managing => manager[u] \in Managers
      /\ \A m \in Known : m # None => m \in Managers
      /\ t # None /\ t \notin Managers /\ \A m \in Managers : m # None /\ m \notin Threads
  BY <1>0, CallFacts, ParameterFacts
<1>2. Known' = Known
  BY DEF Known, DrainWrites, factory
<1>3. QueueShape'
  BY <1>0, <1>1 DEF QueueShape, WorkerLabels, Managing, Labels, DrainWrites, Goto,
     config, factory, queues, workers, backends, threads, history
<1>4. CallShape'
  BY <1>0, <1>1, <1>2 DEF CallShape, Labels, DrainWrites, Goto,
     config, factory, queues, workers, backends, threads, history
<1>5. /\ pc[t] \in {"write push", "write flush", "write remove"}
      /\ batch'[t] = <<>>
      /\ pc'[t] = pc[t] /\ record'[t] = record[t] /\ manager'[t] = manager[t]
      /\ frozen'[t] = frozen[t] /\ Registered'[t] = Registered[t]
      /\ Manager'[t] = Manager[t] /\ next'[t] = next[t]
  BY <1>0, <1>1 DEF CallShape, DataShape, IsConsole, DrainWrites, Goto,
     config, factory, queues, workers, backends, threads, history
<1>6. OthersStay(t)
  BY <1>0 DEF OthersStay, CallShape, DataShape, DrainWrites, Goto,
     config, factory, queues, workers, backends, threads, history
<1>7. ControlOf(t)'
  BY <1>1, <1>5, <1>6 DEF ControlOf, OthersStay, CallShape, Displaying, Managing, Writing, Leaving,
     Labels, IsConsole
<1>8. Control'
  BY <1>0, <1>6, <1>7, ControlFramed
<1>9. WorkersStay(None)
  BY <1>0, <1>1 DEF WorkersStay, DataShape, DrainWrites, Goto,
     config, factory, queues, workers, backends, threads, history
<1>10. Working'
  BY <1>0, <1>1, <1>9, WorkingFramed
<1>11. FactoryStays(t)
  BY <1>0, <1>1, <1>2, <1>5, <1>6, <1>9 DEF FactoryStays, WorkersStay, OthersStay, Managing,
     Displaying, Labels, CallShape, DrainWrites,
     config, factory, queues, workers, backends, threads, history
<1>12. Making'
  BY <1>0, <1>1, <1>11, MakingFramed
<1>13. QED
  BY <1>3, <1>4, <1>8, <1>10, <1>12 DEF Base

LEMMA DrainEndsControl ==
  ASSUME DataShape, Base, NEW t \in Threads, DrainEnds(t)
  PROVE  Base'
<1>0. QueueShape /\ CallShape /\ Control /\ Working /\ Making
  BY DEF Base
<1>1. /\ ControlOf(t) /\ pc[t] \in Labels /\ manager[t] \in Known /\ None \in Known
      /\ pc[t] \in Managing => manager[t] \in Managers
      /\ pc[t] \in Displaying => record[t] \in Records
      /\ \A u \in Threads : pc[u] \in Managing => manager[u] \in Managers
      /\ \A m \in Known : m # None => m \in Managers
      /\ t # None /\ t \notin Managers /\ \A m \in Managers : m # None /\ m \notin Threads
  BY <1>0, CallFacts, ParameterFacts
<1>2. Known' = Known
  BY DEF Known, DrainEnds, factory
<1>3. QueueShape'
  BY <1>0, <1>1 DEF QueueShape, WorkerLabels, Managing, Labels, DrainEnds, Goto,
     config, factory, queues, workers, backends, threads, history
<1>4. CallShape'
  BY <1>0, <1>1, <1>2 DEF CallShape, Labels, DrainEnds, Goto,
     config, factory, queues, workers, backends, threads, history
<1>5. /\ pc[t] \in {"write push", "write flush", "write remove"}
      /\ batch[t] = <<>>
      /\ pc[t] = "write remove" => pc'[t] = "removing"
      /\ pc[t] = "write push" => pc'[t] = IF IsConsole THEN "drain push" ELSE "refused"
      /\ pc[t] = "write flush" => pc'[t] = IF IsConsole THEN "drain flush" ELSE "flushed"
      /\ record'[t] = record[t] /\ manager'[t] = manager[t] /\ batch'[t] = batch[t]
      /\ frozen'[t] = frozen[t] /\ Registered'[t] = Registered[t]
      /\ Manager'[t] = Manager[t] /\ next'[t] = next[t]
  BY <1>0, <1>1 DEF CallShape, DataShape, IsConsole, DrainEnds, Goto,
     config, factory, queues, workers, backends, threads, history
<1>6. OthersStay(t)
  BY <1>0 DEF OthersStay, CallShape, DataShape, DrainEnds, Goto,
     config, factory, queues, workers, backends, threads, history
<1>7. ControlOf(t)'
  BY <1>1, <1>5, <1>6 DEF ControlOf, OthersStay, CallShape, Displaying, Managing, Writing, Leaving,
     Labels, IsConsole
<1>8. Control'
  BY <1>0, <1>6, <1>7, ControlFramed
<1>9. Working'
  <2>0. manager[t] \in Managers
    BY <1>1, <1>5 DEF Managing, Labels
  <2>1. WorkersStay(manager[t])
    BY <1>0, <1>1, <2>0 DEF WorkersStay, DataShape, QueueShape, DrainEnds, Goto,
       config, factory, queues, workers, backends, threads, history
  <2>2. /\ manager[t] \in drained
        /\ worker'[manager[t]] = worker[manager[t]]
        /\ batch'[manager[t]] = batch[manager[t]]
        /\ StopRequested'[manager[t]] = StopRequested[manager[t]]
    BY <1>0, <1>1, <1>5, <2>0 DEF DataShape, QueueShape, ControlOf, Writing, DrainEnds, Goto,
       config, factory, queues, workers, backends, threads, history
  <2>3. WorkingOf(manager[t]) /\ drained \subseteq drained' /\ kind' = kind
    BY <1>0, <2>0, <2>1 DEF Working, WorkersStay
  <2>4. \A m \in Managers : m = manager[t] => WorkingOf(m)'
    BY <2>2, <2>3 DEF WorkingOf, IsConsole
  <2>5. QED
    BY <1>0, <2>0, <2>1, <2>4, WorkingFramed
<1>10. \A n \in Managers : worker[n] # "none" => worker'[n] # "none"
  BY <1>0 DEF QueueShape, DrainEnds, Goto,
     config, factory, queues, workers, backends, threads, history
<1>11. FactoryStays(t)
  BY <1>0, <1>1, <1>2, <1>5, <1>6, <1>10 DEF FactoryStays, WorkersStay, OthersStay, Managing,
     Displaying, Labels, CallShape, DrainEnds,
     config, factory, queues, workers, backends, threads, history
<1>12. Making'
  BY <1>0, <1>1, <1>11, MakingFramed
<1>13. QED
  BY <1>3, <1>4, <1>8, <1>9, <1>12 DEF Base

LEMMA FlushControl ==
  ASSUME DataShape, Base, NEW t \in Threads, Flush(t)
  PROVE  Base'
<1>0. QueueShape /\ CallShape /\ Control /\ Working /\ Making
  BY DEF Base
<1>1. /\ ControlOf(t) /\ pc[t] \in Labels /\ manager[t] \in Known /\ None \in Known
      /\ pc[t] \in Managing => manager[t] \in Managers
      /\ pc[t] \in Displaying => record[t] \in Records
      /\ \A u \in Threads : pc[u] \in Managing => manager[u] \in Managers
      /\ \A m \in Known : m # None => m \in Managers
      /\ t # None /\ t \notin Managers /\ \A m \in Managers : m # None /\ m \notin Threads
  BY <1>0, CallFacts, ParameterFacts
<1>2. Known' = Known
  BY DEF Known, Flush, BeginFlush, factory
<1>3. QueueShape'
  BY <1>0, <1>1 DEF QueueShape, WorkerLabels, Managing, Labels, Flush, BeginFlush, Goto,
     config, factory, queues, workers, backends, threads, history
<1>4. CallShape'
  <2>1. manager' \in [Threads -> Known] /\ Manager' \in [Threads -> Known]
    BY <1>0, <1>1 DEF CallShape, Flush, BeginFlush,
       config, factory, queues, workers, backends, threads, history
  <2>2. pc' \in [Threads -> Labels]
    <3>1. pc' = [pc EXCEPT ![t] = "idle"] \/ pc' = [pc EXCEPT ![t] = "flush"]
      BY DEF Flush, BeginFlush, Goto
    <3>2. pc \in [Threads -> Labels] /\ "idle" \in Labels /\ "flush" \in Labels
      BY <1>0 DEF CallShape, Labels
    <3>3. QED
      BY <3>1, <3>2
  <2>3. QED
    BY <1>0, <1>1, <1>2, <2>1, <2>2 DEF CallShape, Flush, BeginFlush,
       config, factory, queues, workers, backends, threads, history
<1>5. /\ pc[t] = "idle"
      /\ pc'[t] = IF manager'[t] = None THEN "idle" ELSE "flush"
      /\ record'[t] = record[t] /\ batch'[t] = batch[t] /\ frozen'[t] = frozen[t]
      /\ Registered'[t] = Registered[t] /\ Manager'[t] = Manager[t] /\ next'[t] = next[t]
  BY <1>0, <1>1 DEF CallShape, DataShape, IsConsole, Flush, BeginFlush, Goto,
     config, factory, queues, workers, backends, threads, history
<1>6. OthersStay(t)
  BY <1>0 DEF OthersStay, CallShape, DataShape, Flush, BeginFlush, Goto,
     config, factory, queues, workers, backends, threads, history
<1>7. ControlOf(t)'
  BY <1>1, <1>5, <1>6 DEF ControlOf, OthersStay, CallShape, Displaying, Managing, Writing, Leaving,
     Labels, IsConsole
<1>8. Control'
  BY <1>0, <1>6, <1>7, ControlFramed
<1>9. WorkersStay(None)
  BY <1>0, <1>1 DEF WorkersStay, DataShape, Flush, BeginFlush, Goto,
     config, factory, queues, workers, backends, threads, history
<1>10. Working'
  BY <1>0, <1>1, <1>9, WorkingFramed
<1>11. Making'
  <2>1. /\ factoryLock' = factoryLock /\ worker' = worker /\ kind' = kind /\ Instance' = Instance
        /\ pc'[t] # "adding"
        /\ ~IsConsole /\ pc'[t] \in Managing => manager'[t] = Instance /\ Instance # None /\ factoryLock = None
    BY <1>0, <1>5 DEF Flush, BeginFlush, Goto, CallShape, IsConsole, Managing, Labels,
       config, factory, queues, workers
  <2>2. Instance \in Known
    BY <1>0 DEF CallShape
  <2>3. Made'
    BY <1>0, <1>2, <2>1 DEF Making, Made, IsConsole
  <2>4. MakingOf(t)'
    BY <1>0, <2>1, <2>2 DEF Making, Made, MakingOf, IsConsole
  <2>5. ASSUME NEW u \in Threads, u # t PROVE MakingOf(u)'
    BY <1>0, <1>6, <2>1, <2>5 DEF Making, MakingOf, OthersStay, IsConsole
  <2>6. QED
    BY <2>3, <2>4, <2>5 DEF Making
<1>13. QED
  BY <1>3, <1>4, <1>8, <1>10, <1>11 DEF Base

LEMMA FlushResetsControl ==
  ASSUME DataShape, Base, NEW t \in Threads, FlushResets(t)
  PROVE  Base'
<1>0. QueueShape /\ CallShape /\ Control /\ Working /\ Making
  BY DEF Base
<1>1. /\ ControlOf(t) /\ pc[t] \in Labels /\ manager[t] \in Known /\ None \in Known
      /\ pc[t] \in Managing => manager[t] \in Managers
      /\ pc[t] \in Displaying => record[t] \in Records
      /\ \A u \in Threads : pc[u] \in Managing => manager[u] \in Managers
      /\ \A m \in Known : m # None => m \in Managers
      /\ t # None /\ t \notin Managers /\ \A m \in Managers : m # None /\ m \notin Threads
  BY <1>0, CallFacts, ParameterFacts
<1>2. Known' = Known
  BY DEF Known, FlushResets, WorkerAvailable, factory
<1>3. QueueShape'
  BY <1>0, <1>1 DEF QueueShape, WorkerLabels, Managing, Labels, FlushResets, WorkerAvailable, Goto,
     config, factory, queues, workers, backends, threads, history
<1>4. CallShape'
  BY <1>0, <1>1, <1>2 DEF CallShape, Labels, FlushResets, WorkerAvailable, Goto,
     config, factory, queues, workers, backends, threads, history
<1>5. /\ pc[t] = "flush"
      /\ pc'[t] = pc[t] /\ record'[t] = record[t] /\ manager'[t] = manager[t]
      /\ batch'[t] = batch[t] /\ frozen'[t] = frozen[t] /\ Registered'[t] = Registered[t]
      /\ Manager'[t] = Manager[t] /\ next'[t] = next[t]
  BY <1>0, <1>1 DEF CallShape, DataShape, IsConsole, FlushResets, WorkerAvailable, Goto,
     config, factory, queues, workers, backends, threads, history
<1>6. OthersStay(t)
  BY <1>0 DEF OthersStay, CallShape, DataShape, FlushResets, WorkerAvailable, Goto,
     config, factory, queues, workers, backends, threads, history
<1>7. ControlOf(t)'
  BY <1>1, <1>5, <1>6 DEF ControlOf, OthersStay, CallShape, Displaying, Managing, Writing, Leaving,
     Labels, IsConsole
<1>8. Control'
  BY <1>0, <1>6, <1>7, ControlFramed
<1>9. Working'
  <2>0. manager[t] \in Managers
    BY <1>1, <1>5 DEF Managing, Labels
  <2>1. WorkersStay(manager[t])
    BY <1>0, <1>1, <2>0 DEF WorkersStay, DataShape, QueueShape, FlushResets, WorkerAvailable, Goto,
       config, factory, queues, workers, backends, threads, history
  <2>2. /\ worker[manager[t]] \in {"none", "ended"} \/ StopRequested[manager[t]]
        /\ worker'[manager[t]] = worker[manager[t]]
        /\ batch'[manager[t]] = batch[manager[t]]
        /\ StopRequested'[manager[t]] = StopRequested[manager[t]]
    BY <1>0, <1>1, <1>5, <2>0 DEF DataShape, QueueShape, FlushResets, WorkerAvailable, Goto,
       config, factory, queues, workers, backends, threads, history
  <2>3. WorkingOf(manager[t]) /\ drained \subseteq drained' /\ kind' = kind
    BY <1>0, <2>0, <2>1 DEF Working, WorkersStay
  <2>4. \A m \in Managers : m = manager[t] => WorkingOf(m)'
    BY <2>2, <2>3 DEF WorkingOf, IsConsole
  <2>5. QED
    BY <1>0, <2>0, <2>1, <2>4, WorkingFramed
<1>10. \A n \in Managers : worker[n] # "none" => worker'[n] # "none"
  BY <1>0 DEF QueueShape, FlushResets, WorkerAvailable, Goto,
     config, factory, queues, workers, backends, threads, history
<1>11. FactoryStays(t)
  BY <1>0, <1>1, <1>2, <1>5, <1>6, <1>10 DEF FactoryStays, WorkersStay, OthersStay, Managing,
     Displaying, Labels, CallShape, FlushResets, WorkerAvailable,
     config, factory, queues, workers, backends, threads, history
<1>12. Making'
  BY <1>0, <1>1, <1>11, MakingFramed
<1>13. QED
  BY <1>3, <1>4, <1>8, <1>9, <1>12 DEF Base

LEMMA FlushDrainsControl ==
  ASSUME DataShape, Base, NEW t \in Threads, FlushDrains(t)
  PROVE  Base'
<1>0. QueueShape /\ CallShape /\ Control /\ Working /\ Making
  BY DEF Base
<1>1. /\ ControlOf(t) /\ pc[t] \in Labels /\ manager[t] \in Known /\ None \in Known
      /\ pc[t] \in Managing => manager[t] \in Managers
      /\ pc[t] \in Displaying => record[t] \in Records
      /\ \A u \in Threads : pc[u] \in Managing => manager[u] \in Managers
      /\ \A m \in Known : m # None => m \in Managers
      /\ t # None /\ t \notin Managers /\ \A m \in Managers : m # None /\ m \notin Threads
  BY <1>0, CallFacts, ParameterFacts
<1>2. Known' = Known
  BY DEF Known, FlushDrains, TakeBatch, factory
<1>3. QueueShape'
  BY <1>0, <1>1 DEF QueueShape, WorkerLabels, Managing, Labels, FlushDrains, TakeBatch, Goto,
     config, factory, queues, workers, backends, threads, history
<1>4. CallShape'
  BY <1>0, <1>1, <1>2 DEF CallShape, Labels, FlushDrains, TakeBatch, Goto,
     config, factory, queues, workers, backends, threads, history
<1>5. /\ pc[t] = "flush"
      /\ \/ IsConsole /\ pc'[t] = "drain flush" /\ batch'[t] = batch[t]
         \/ ~IsConsole /\ pc'[t] = "write flush" /\ manager[t] \in drained'
      /\ record'[t] = record[t] /\ manager'[t] = manager[t] /\ frozen'[t] = frozen[t]
      /\ Registered'[t] = Registered[t] /\ Manager'[t] = Manager[t] /\ next'[t] = next[t]
  BY <1>0, <1>1 DEF CallShape, DataShape, IsConsole, FlushDrains, TakeBatch, Goto,
     config, factory, queues, workers, backends, threads, history
<1>6. OthersStay(t)
  BY <1>0 DEF OthersStay, CallShape, DataShape, FlushDrains, TakeBatch, Goto,
     config, factory, queues, workers, backends, threads, history
<1>7. ControlOf(t)'
  BY <1>1, <1>5, <1>6 DEF ControlOf, OthersStay, CallShape, Displaying, Managing, Writing, Leaving,
     Labels, IsConsole
<1>8. Control'
  BY <1>0, <1>6, <1>7, ControlFramed
<1>9. Working'
  <2>0. manager[t] \in Managers
    BY <1>1, <1>5 DEF Managing, Labels
  <2>1. WorkersStay(manager[t])
    BY <1>0, <1>1, <2>0 DEF WorkersStay, DataShape, QueueShape, FlushDrains, TakeBatch, Goto,
       config, factory, queues, workers, backends, threads, history
  <2>2. /\ manager[t] \in drained' \/ Processing'[manager[t]] = Processing[manager[t]]
        /\ worker'[manager[t]] = worker[manager[t]]
        /\ batch'[manager[t]] = batch[manager[t]]
        /\ StopRequested'[manager[t]] = StopRequested[manager[t]]
    BY <1>0, <1>1, <1>5, <2>0 DEF DataShape, QueueShape, FlushDrains, TakeBatch, Goto,
       config, factory, queues, workers, backends, threads, history
  <2>3. WorkingOf(manager[t]) /\ drained \subseteq drained' /\ kind' = kind
    BY <1>0, <2>0, <2>1 DEF Working, WorkersStay
  <2>4. \A m \in Managers : m = manager[t] => WorkingOf(m)'
    BY <2>2, <2>3 DEF WorkingOf, IsConsole
  <2>5. QED
    BY <1>0, <2>0, <2>1, <2>4, WorkingFramed
<1>10. \A n \in Managers : worker[n] # "none" => worker'[n] # "none"
  BY <1>0 DEF QueueShape, FlushDrains, TakeBatch, Goto,
     config, factory, queues, workers, backends, threads, history
<1>11. FactoryStays(t)
  BY <1>0, <1>1, <1>2, <1>5, <1>6, <1>10 DEF FactoryStays, WorkersStay, OthersStay, Managing,
     Displaying, Labels, CallShape, FlushDrains, TakeBatch,
     config, factory, queues, workers, backends, threads, history
<1>12. Making'
  BY <1>0, <1>1, <1>11, MakingFramed
<1>13. QED
  BY <1>3, <1>4, <1>8, <1>9, <1>12 DEF Base

LEMMA FlushFindsNothingControl ==
  ASSUME DataShape, Base, NEW t \in Threads, FlushFindsNothing(t)
  PROVE  Base'
<1>0. QueueShape /\ CallShape /\ Control /\ Working /\ Making
  BY DEF Base
<1>1. /\ ControlOf(t) /\ pc[t] \in Labels /\ manager[t] \in Known /\ None \in Known
      /\ pc[t] \in Managing => manager[t] \in Managers
      /\ pc[t] \in Displaying => record[t] \in Records
      /\ \A u \in Threads : pc[u] \in Managing => manager[u] \in Managers
      /\ \A m \in Known : m # None => m \in Managers
      /\ t # None /\ t \notin Managers /\ \A m \in Managers : m # None /\ m \notin Threads
  BY <1>0, CallFacts, ParameterFacts
<1>2. Known' = Known
  BY DEF Known, FlushFindsNothing, factory
<1>3. QueueShape'
  BY <1>0, <1>1 DEF QueueShape, WorkerLabels, Managing, Labels, FlushFindsNothing, Goto,
     config, factory, queues, workers, backends, threads, history
<1>4. CallShape'
  BY <1>0, <1>1, <1>2 DEF CallShape, Labels, FlushFindsNothing, Goto,
     config, factory, queues, workers, backends, threads, history
<1>5. /\ pc[t] = "flush"
      /\ pc'[t] = "flushed"
      /\ record'[t] = record[t] /\ manager'[t] = manager[t] /\ batch'[t] = batch[t]
      /\ frozen'[t] = frozen[t] /\ Registered'[t] = Registered[t]
      /\ Manager'[t] = Manager[t] /\ next'[t] = next[t]
  BY <1>0, <1>1 DEF CallShape, DataShape, IsConsole, FlushFindsNothing, Goto,
     config, factory, queues, workers, backends, threads, history
<1>6. OthersStay(t)
  BY <1>0 DEF OthersStay, CallShape, DataShape, FlushFindsNothing, Goto,
     config, factory, queues, workers, backends, threads, history
<1>7. ControlOf(t)'
  BY <1>1, <1>5, <1>6 DEF ControlOf, OthersStay, CallShape, Displaying, Managing, Writing, Leaving,
     Labels, IsConsole
<1>8. Control'
  BY <1>0, <1>6, <1>7, ControlFramed
<1>9. WorkersStay(None)
  BY <1>0, <1>1 DEF WorkersStay, DataShape, FlushFindsNothing, Goto,
     config, factory, queues, workers, backends, threads, history
<1>10. Working'
  BY <1>0, <1>1, <1>9, WorkingFramed
<1>11. FactoryStays(t)
  BY <1>0, <1>1, <1>2, <1>5, <1>6, <1>9 DEF FactoryStays, WorkersStay, OthersStay, Managing,
     Displaying, Labels, CallShape, FlushFindsNothing,
     config, factory, queues, workers, backends, threads, history
<1>12. Making'
  BY <1>0, <1>1, <1>11, MakingFramed
<1>13. QED
  BY <1>3, <1>4, <1>8, <1>10, <1>12 DEF Base

LEMMA FlushReturnsControl ==
  ASSUME DataShape, Base, NEW t \in Threads, FlushReturns(t)
  PROVE  Base'
<1>0. QueueShape /\ CallShape /\ Control /\ Working /\ Making
  BY DEF Base
<1>1. /\ ControlOf(t) /\ pc[t] \in Labels /\ manager[t] \in Known /\ None \in Known
      /\ pc[t] \in Managing => manager[t] \in Managers
      /\ pc[t] \in Displaying => record[t] \in Records
      /\ \A u \in Threads : pc[u] \in Managing => manager[u] \in Managers
      /\ \A m \in Known : m # None => m \in Managers
      /\ t # None /\ t \notin Managers /\ \A m \in Managers : m # None /\ m \notin Threads
  BY <1>0, CallFacts, ParameterFacts
<1>2. Known' = Known
  BY DEF Known, FlushReturns, factory
<1>3. QueueShape'
  BY <1>0, <1>1 DEF QueueShape, WorkerLabels, Managing, Labels, FlushReturns, Goto,
     config, factory, queues, workers, backends, threads, history
<1>4. CallShape'
  BY <1>0, <1>1, <1>2 DEF CallShape, Labels, FlushReturns, Goto,
     config, factory, queues, workers, backends, threads, history
<1>5. /\ pc[t] = "flushed"
      /\ pc'[t] = "idle"
      /\ manager'[t] = None
      /\ record'[t] = record[t] /\ batch'[t] = batch[t] /\ frozen'[t] = frozen[t]
      /\ Registered'[t] = Registered[t] /\ Manager'[t] = Manager[t] /\ next'[t] = next[t]
  BY <1>0, <1>1 DEF CallShape, DataShape, IsConsole, FlushReturns, Goto,
     config, factory, queues, workers, backends, threads, history
<1>6. OthersStay(t)
  BY <1>0 DEF OthersStay, CallShape, DataShape, FlushReturns, Goto,
     config, factory, queues, workers, backends, threads, history
<1>7. ControlOf(t)'
  BY <1>1, <1>5, <1>6 DEF ControlOf, OthersStay, CallShape, Displaying, Managing, Writing, Leaving,
     Labels, IsConsole
<1>8. Control'
  BY <1>0, <1>6, <1>7, ControlFramed
<1>9. WorkersStay(None)
  BY <1>0, <1>1 DEF WorkersStay, DataShape, FlushReturns, Goto,
     config, factory, queues, workers, backends, threads, history
<1>10. Working'
  BY <1>0, <1>1, <1>9, WorkingFramed
<1>11. FactoryStays(t)
  BY <1>0, <1>1, <1>2, <1>5, <1>6, <1>9 DEF FactoryStays, WorkersStay, OthersStay, Managing,
     Displaying, Labels, CallShape, FlushReturns,
     config, factory, queues, workers, backends, threads, history
<1>12. Making'
  BY <1>0, <1>1, <1>11, MakingFramed
<1>13. QED
  BY <1>3, <1>4, <1>8, <1>10, <1>12 DEF Base

LEMMA FreezeControl ==
  ASSUME DataShape, Base, NEW t \in Threads, Freeze(t)
  PROVE  Base'
<1>0. QueueShape /\ CallShape /\ Control /\ Working /\ Making
  BY DEF Base
<1>1. /\ ControlOf(t) /\ pc[t] \in Labels /\ manager[t] \in Known /\ None \in Known
      /\ pc[t] \in Managing => manager[t] \in Managers
      /\ pc[t] \in Displaying => record[t] \in Records
      /\ \A u \in Threads : pc[u] \in Managing => manager[u] \in Managers
      /\ \A m \in Known : m # None => m \in Managers
      /\ t # None /\ t \notin Managers /\ \A m \in Managers : m # None /\ m \notin Threads
  BY <1>0, CallFacts, ParameterFacts
<1>2. Known' = Known
  BY DEF Known, Freeze, BeginFlush, factory
<1>3. QueueShape'
  BY <1>0, <1>1 DEF QueueShape, WorkerLabels, Managing, Labels, Freeze, BeginFlush, Goto,
     config, factory, queues, workers, backends, threads, history
<1>4. CallShape'
  <2>1. manager' \in [Threads -> Known] /\ Manager' \in [Threads -> Known]
    BY <1>0, <1>1 DEF CallShape, Freeze, BeginFlush,
       config, factory, queues, workers, backends, threads, history
  <2>2. pc' \in [Threads -> Labels]
    <3>1. pc' = [pc EXCEPT ![t] = "idle"] \/ pc' = [pc EXCEPT ![t] = "flush"] \/ pc' = [pc EXCEPT ![t] = "remove"]
      BY DEF Freeze, BeginFlush, Goto
    <3>2. pc \in [Threads -> Labels] /\ "idle" \in Labels /\ "flush" \in Labels /\ "remove" \in Labels
      BY <1>0 DEF CallShape, Labels
    <3>3. QED
      BY <3>1, <3>2
  <2>3. QED
    BY <1>0, <1>1, <1>2, <2>1, <2>2 DEF CallShape, Freeze, BeginFlush,
       config, factory, queues, workers, backends, threads, history
<1>5. /\ pc[t] = "idle"
      /\ frozen'[t] = TRUE
      /\ Registered'[t] = FALSE
      /\ \/ pc'[t] = "remove" /\ manager'[t] # None
         \/ pc'[t] = IF manager'[t] = None THEN "idle" ELSE "flush"
      /\ record'[t] = record[t] /\ batch'[t] = batch[t] /\ next'[t] = next[t]
  BY <1>0, <1>1 DEF CallShape, DataShape, IsConsole, Freeze, BeginFlush, Goto,
     config, factory, queues, workers, backends, threads, history
<1>6. OthersStay(t)
  BY <1>0 DEF OthersStay, CallShape, DataShape, Freeze, BeginFlush, Goto,
     config, factory, queues, workers, backends, threads, history
<1>7. ControlOf(t)'
  BY <1>1, <1>5, <1>6 DEF ControlOf, OthersStay, CallShape, Displaying, Managing, Writing, Leaving,
     Labels, IsConsole
<1>8. Control'
  BY <1>0, <1>6, <1>7, ControlFramed
<1>9. WorkersStay(None)
  BY <1>0, <1>1 DEF WorkersStay, DataShape, Freeze, BeginFlush, Goto,
     config, factory, queues, workers, backends, threads, history
<1>10. Working'
  BY <1>0, <1>1, <1>9, WorkingFramed
<1>11. Making'
  <2>1. /\ factoryLock' = factoryLock /\ worker' = worker /\ kind' = kind /\ Instance' = Instance
        /\ pc'[t] # "adding"
        /\ ~IsConsole /\ pc'[t] \in Managing => manager'[t] = Instance /\ Instance # None /\ factoryLock = None
    BY <1>0, <1>5 DEF Freeze, BeginFlush, Goto, CallShape, IsConsole, Managing, Labels,
       config, factory, queues, workers
  <2>2. Instance \in Known
    BY <1>0 DEF CallShape
  <2>3. Made'
    BY <1>0, <1>2, <2>1 DEF Making, Made, IsConsole
  <2>4. MakingOf(t)'
    BY <1>0, <2>1, <2>2 DEF Making, Made, MakingOf, IsConsole
  <2>5. ASSUME NEW u \in Threads, u # t PROVE MakingOf(u)'
    BY <1>0, <1>6, <2>1, <2>5 DEF Making, MakingOf, OthersStay, IsConsole
  <2>6. QED
    BY <2>3, <2>4, <2>5 DEF Making
<1>13. QED
  BY <1>3, <1>4, <1>8, <1>10, <1>11 DEF Base

LEMMA RemoveDrainsControl ==
  ASSUME DataShape, Base, NEW t \in Threads, RemoveDrains(t)
  PROVE  Base'
<1>0. QueueShape /\ CallShape /\ Control /\ Working /\ Making
  BY DEF Base
<1>1. /\ ControlOf(t) /\ pc[t] \in Labels /\ manager[t] \in Known /\ None \in Known
      /\ pc[t] \in Managing => manager[t] \in Managers
      /\ pc[t] \in Displaying => record[t] \in Records
      /\ \A u \in Threads : pc[u] \in Managing => manager[u] \in Managers
      /\ \A m \in Known : m # None => m \in Managers
      /\ t # None /\ t \notin Managers /\ \A m \in Managers : m # None /\ m \notin Threads
  BY <1>0, CallFacts, ParameterFacts
<1>2. Known' = Known
  BY DEF Known, RemoveDrains, TakeBatch, factory
<1>3. QueueShape'
  BY <1>0, <1>1 DEF QueueShape, WorkerLabels, Managing, Labels, RemoveDrains, TakeBatch, Goto,
     config, factory, queues, workers, backends, threads, history
<1>4. CallShape'
  BY <1>0, <1>1, <1>2 DEF CallShape, Labels, RemoveDrains, TakeBatch, Goto,
     config, factory, queues, workers, backends, threads, history
<1>5. /\ pc[t] = "remove" /\ ~IsConsole
      /\ pc'[t] = "write remove"
      /\ manager[t] \in drained'
      /\ record'[t] = record[t] /\ manager'[t] = manager[t] /\ frozen'[t] = frozen[t]
      /\ Registered'[t] = Registered[t] /\ Manager'[t] = Manager[t] /\ next'[t] = next[t]
  BY <1>0, <1>1 DEF CallShape, DataShape, IsConsole, RemoveDrains, TakeBatch, Goto,
     config, factory, queues, workers, backends, threads, history
<1>6. OthersStay(t)
  BY <1>0 DEF OthersStay, CallShape, DataShape, RemoveDrains, TakeBatch, Goto,
     config, factory, queues, workers, backends, threads, history
<1>7. ControlOf(t)'
  BY <1>1, <1>5, <1>6 DEF ControlOf, OthersStay, CallShape, Displaying, Managing, Writing, Leaving,
     Labels, IsConsole
<1>8. Control'
  BY <1>0, <1>6, <1>7, ControlFramed
<1>9. Working'
  <2>0. manager[t] \in Managers
    BY <1>1, <1>5 DEF Managing, Labels
  <2>1. WorkersStay(manager[t])
    BY <1>0, <1>1, <2>0 DEF WorkersStay, DataShape, QueueShape, RemoveDrains, TakeBatch, Goto,
       config, factory, queues, workers, backends, threads, history
  <2>2. /\ manager[t] \in drained'
        /\ worker'[manager[t]] = worker[manager[t]]
        /\ batch'[manager[t]] = batch[manager[t]]
        /\ StopRequested'[manager[t]] = StopRequested[manager[t]]
    BY <1>0, <1>1, <1>5, <2>0 DEF DataShape, QueueShape, RemoveDrains, TakeBatch, Goto,
       config, factory, queues, workers, backends, threads, history
  <2>3. WorkingOf(manager[t]) /\ drained \subseteq drained' /\ kind' = kind
    BY <1>0, <2>0, <2>1 DEF Working, WorkersStay
  <2>4. \A m \in Managers : m = manager[t] => WorkingOf(m)'
    BY <2>2, <2>3 DEF WorkingOf, IsConsole
  <2>5. QED
    BY <1>0, <2>0, <2>1, <2>4, WorkingFramed
<1>10. \A n \in Managers : worker[n] # "none" => worker'[n] # "none"
  BY <1>0 DEF QueueShape, RemoveDrains, TakeBatch, Goto,
     config, factory, queues, workers, backends, threads, history
<1>11. FactoryStays(t)
  BY <1>0, <1>1, <1>2, <1>5, <1>6, <1>10 DEF FactoryStays, WorkersStay, OthersStay, Managing,
     Displaying, Labels, CallShape, RemoveDrains, TakeBatch,
     config, factory, queues, workers, backends, threads, history
<1>12. Making'
  BY <1>0, <1>1, <1>11, MakingFramed
<1>13. QED
  BY <1>3, <1>4, <1>8, <1>9, <1>12 DEF Base

LEMMA RemoveBackendControl ==
  ASSUME DataShape, Base, NEW t \in Threads, RemoveBackend(t)
  PROVE  Base'
<1>0. QueueShape /\ CallShape /\ Control /\ Working /\ Making
  BY DEF Base
<1>1. /\ ControlOf(t) /\ pc[t] \in Labels /\ manager[t] \in Known /\ None \in Known
      /\ pc[t] \in Managing => manager[t] \in Managers
      /\ pc[t] \in Displaying => record[t] \in Records
      /\ \A u \in Threads : pc[u] \in Managing => manager[u] \in Managers
      /\ \A m \in Known : m # None => m \in Managers
      /\ t # None /\ t \notin Managers /\ \A m \in Managers : m # None /\ m \notin Threads
  BY <1>0, CallFacts, ParameterFacts
<1>2. Known' = Known
  BY DEF Known, RemoveBackend, Notified, factory
<1>3. QueueShape'
  BY <1>0, <1>1 DEF QueueShape, WorkerLabels, Managing, Labels, RemoveBackend, Notified, Goto,
     config, factory, queues, workers, backends, threads, history
<1>4. CallShape'
  <2>1. manager' \in [Threads -> Known] /\ Manager' \in [Threads -> Known]
    BY <1>0, <1>1 DEF CallShape, RemoveBackend,
       config, factory, queues, workers, backends, threads, history
  <2>2. pc' \in [Threads -> Labels]
    <3>1. pc' = [pc EXCEPT ![t] = "idle"] \/ pc' = [pc EXCEPT ![t] = "forget"]
      BY DEF RemoveBackend, Goto
    <3>2. pc \in [Threads -> Labels] /\ "idle" \in Labels /\ "forget" \in Labels
      BY <1>0 DEF CallShape, Labels
    <3>3. QED
      BY <3>1, <3>2
  <2>3. QED
    BY <1>0, <1>1, <1>2, <2>1, <2>2 DEF CallShape, RemoveBackend,
       config, factory, queues, workers, backends, threads, history
<1>5. /\ pc[t] \in {"remove", "removing"}
      /\ \/ pc'[t] = "forget" /\ manager'[t] = manager[t] /\ Manager'[t] = Manager[t]
         \/ pc'[t] = "idle" /\ manager'[t] = None /\ Manager'[t] = None
      /\ record'[t] = record[t] /\ batch'[t] = batch[t] /\ frozen'[t] = frozen[t]
      /\ Registered'[t] = Registered[t] /\ next'[t] = next[t]
  BY <1>0, <1>1 DEF CallShape, DataShape, IsConsole, RemoveBackend, Notified, Goto,
     config, factory, queues, workers, backends, threads, history
<1>6. OthersStay(t)
  BY <1>0 DEF OthersStay, CallShape, DataShape, RemoveBackend, Notified, Goto,
     config, factory, queues, workers, backends, threads, history
<1>7. ControlOf(t)'
  BY <1>1, <1>5, <1>6 DEF ControlOf, OthersStay, CallShape, Displaying, Managing, Writing, Leaving,
     Labels, IsConsole
<1>8. Control'
  BY <1>0, <1>6, <1>7, ControlFramed
<1>9. Working'
  <2>0. manager[t] \in Managers
    BY <1>1, <1>5 DEF Managing, Labels
  <2>1. WorkersStay(manager[t])
    BY <1>0, <1>1, <2>0 DEF WorkersStay, DataShape, QueueShape, RemoveBackend, Notified, Goto,
       config, factory, queues, workers, backends, threads, history
  <2>2. /\ worker'[manager[t]] = worker[manager[t]] \/ (worker[manager[t]] = "blocked" /\ worker'[manager[t]] = "test")
        /\ StopRequested[manager[t]] => StopRequested'[manager[t]]
        /\ batch'[manager[t]] = batch[manager[t]]
        /\ Processing'[manager[t]] = Processing[manager[t]]
    BY <1>0, <1>1, <1>5, <2>0 DEF DataShape, QueueShape, RemoveBackend, Notified, Goto,
       config, factory, queues, workers, backends, threads, history
  <2>3. WorkingOf(manager[t]) /\ drained \subseteq drained' /\ kind' = kind
    BY <1>0, <2>0, <2>1 DEF Working, WorkersStay
  <2>4. \A m \in Managers : m = manager[t] => WorkingOf(m)'
    BY <2>2, <2>3 DEF WorkingOf, IsConsole
  <2>5. QED
    BY <1>0, <2>0, <2>1, <2>4, WorkingFramed
<1>10. \A n \in Managers : worker[n] # "none" => worker'[n] # "none"
  BY <1>0 DEF QueueShape, RemoveBackend, Notified, Goto,
     config, factory, queues, workers, backends, threads, history
<1>11. FactoryStays(t)
  BY <1>0, <1>1, <1>2, <1>5, <1>6, <1>10 DEF FactoryStays, WorkersStay, OthersStay, Managing,
     Displaying, Labels, CallShape, RemoveBackend, Notified,
     config, factory, queues, workers, backends, threads, history
<1>12. Making'
  BY <1>0, <1>1, <1>11, MakingFramed
<1>13. QED
  BY <1>3, <1>4, <1>8, <1>9, <1>12 DEF Base

LEMMA ForgetInstanceControl ==
  ASSUME DataShape, Base, NEW t \in Threads, ForgetInstance(t)
  PROVE  Base'
<1>0. QueueShape /\ CallShape /\ Control /\ Working /\ Making
  BY DEF Base
<1>1. /\ ControlOf(t) /\ pc[t] \in Labels /\ manager[t] \in Known /\ None \in Known
      /\ pc[t] \in Managing => manager[t] \in Managers
      /\ pc[t] \in Displaying => record[t] \in Records
      /\ \A u \in Threads : pc[u] \in Managing => manager[u] \in Managers
      /\ \A m \in Known : m # None => m \in Managers
      /\ t # None /\ t \notin Managers /\ \A m \in Managers : m # None /\ m \notin Threads
  BY <1>0, CallFacts, ParameterFacts
<1>2. Known' = Known
  BY DEF Known, ForgetInstance, factory
<1>3. QueueShape'
  BY <1>0, <1>1 DEF QueueShape, WorkerLabels, Managing, Labels, ForgetInstance, Goto,
     config, factory, queues, workers, backends, threads, history
<1>4. CallShape'
  BY <1>0, <1>1, <1>2 DEF CallShape, Labels, ForgetInstance, Goto,
     config, factory, queues, workers, backends, threads, history
<1>5. /\ pc[t] = "forget"
      /\ pc'[t] = "idle"
      /\ manager'[t] = None
      /\ Manager'[t] = None
      /\ record'[t] = record[t] /\ batch'[t] = batch[t] /\ frozen'[t] = frozen[t]
      /\ Registered'[t] = Registered[t] /\ next'[t] = next[t]
  BY <1>0, <1>1 DEF CallShape, DataShape, IsConsole, ForgetInstance, Goto,
     config, factory, queues, workers, backends, threads, history
<1>6. OthersStay(t)
  BY <1>0 DEF OthersStay, CallShape, DataShape, ForgetInstance, Goto,
     config, factory, queues, workers, backends, threads, history
<1>7. ControlOf(t)'
  BY <1>1, <1>5, <1>6 DEF ControlOf, OthersStay, CallShape, Displaying, Managing, Writing, Leaving,
     Labels, IsConsole
<1>8. Control'
  BY <1>0, <1>6, <1>7, ControlFramed
<1>9. WorkersStay(None)
  BY <1>0, <1>1 DEF WorkersStay, DataShape, ForgetInstance, Goto,
     config, factory, queues, workers, backends, threads, history
<1>10. Working'
  BY <1>0, <1>1, <1>9, WorkingFramed
<1>11. Making'
  <2>1. /\ factoryLock' = factoryLock /\ worker' = worker /\ kind' = kind /\ factoryLock = None
        /\ pc'[t] = "idle"
    BY <1>5 DEF ForgetInstance, config, workers
  <2>2. \A u \in Threads : pc[u] # "adding"
    BY <1>0, <2>1, ParameterFacts DEF Making, MakingOf
  <2>3. Made'
    BY <1>0, <1>2, <2>1 DEF Making, Made, IsConsole
  <2>4. MakingOf(t)'
    BY <2>1 DEF MakingOf, Managing
  <2>5. ASSUME NEW u \in Threads, u # t PROVE MakingOf(u)'
    BY <1>0, <1>6, <2>1, <2>2, <2>5 DEF Making, MakingOf, OthersStay, IsConsole
  <2>6. QED
    BY <2>3, <2>4, <2>5 DEF Making
<1>13. QED
  BY <1>3, <1>4, <1>8, <1>10, <1>11 DEF Base

LEMMA DestroyControl ==
  ASSUME DataShape, Base, NEW m \in Managers, Destroy(m)
  PROVE  Base'
<1>0. QueueShape /\ CallShape /\ Control /\ Working /\ Making
  BY DEF Base
<1>1. /\ None \in Known /\ \A n \in Known : n # None => n \in Managers
      /\ \A u \in Threads : pc[u] \in Managing => manager[u] \in Managers
      /\ m # None /\ m \notin Threads /\ None \notin Threads /\ \A u \in Threads : u # m
      /\ WorkingOf(m)
  BY <1>0, CallFacts, ParameterFacts DEF Working
<1>2. Known' = Known
  BY DEF Known, Destroy, Notified, factory
<1>3. QueueShape'
  BY <1>0, <1>1 DEF QueueShape, WorkerLabels, Managing, Labels, Destroy, Notified, Goto,
     config, factory, queues, workers, backends, threads, history
<1>4. CallShape'
  BY <1>0, <1>1, <1>2 DEF CallShape, Labels, Destroy, Notified, Goto,
     config, factory, queues, workers, backends, threads, history
<1>5. OthersStay(None)
  BY <1>0, <1>1 DEF OthersStay, DataShape, Destroy, Notified,
     config, factory, queues, workers, backends, threads, history
<1>6. Control'
  BY <1>0, <1>1, <1>5, ControlFramed
<1>7. WorkersStay(m)
  BY <1>0, <1>1 DEF WorkersStay, DataShape, QueueShape, Destroy, Notified,
     config, factory, queues, workers, backends, threads, history
<1>8. /\ worker'[m] = worker[m] \/ (worker[m] = "blocked" /\ worker'[m] = "test")
      /\ StopRequested'[m] = TRUE
      /\ batch'[m] = batch[m] /\ Processing'[m] = Processing[m]
  BY <1>0, <1>1 DEF DataShape, QueueShape, IsConsole, WorkerLabels, Destroy, Notified,
     config, factory, queues, workers, backends, threads, history
<1>9. WorkingOf(m)'
  BY <1>1, <1>7, <1>8 DEF WorkingOf, WorkersStay, IsConsole
<1>10. Working'
  BY <1>0, <1>7, <1>9, WorkingFramed
<1>11. FactoryStays(None)
  BY <1>0, <1>1, <1>2, <1>5, <1>7, <1>8 DEF FactoryStays, WorkersStay, OthersStay, Destroy,
     config, factory, queues, workers, backends, threads, history
<1>12. Making'
  BY <1>0, <1>1, <1>11, MakingFramed
<1>13. QED
  BY <1>3, <1>4, <1>6, <1>10, <1>12 DEF Base

LEMMA DestroyJoinedControl ==
  ASSUME DataShape, Base, NEW m \in Managers, DestroyJoined(m)
  PROVE  Base'
<1>0. QueueShape /\ CallShape /\ Control /\ Working /\ Making
  BY DEF Base
<1>1. /\ None \in Known /\ \A n \in Known : n # None => n \in Managers
      /\ \A u \in Threads : pc[u] \in Managing => manager[u] \in Managers
      /\ m # None /\ m \notin Threads /\ None \notin Threads /\ \A u \in Threads : u # m
      /\ WorkingOf(m)
  BY <1>0, CallFacts, ParameterFacts DEF Working
<1>2. Known' = Known
  BY DEF Known, DestroyJoined, factory
<1>3. QueueShape'
  BY <1>0, <1>1 DEF QueueShape, WorkerLabels, Managing, Labels, DestroyJoined, Goto,
     config, factory, queues, workers, backends, threads, history
<1>4. CallShape'
  BY <1>0, <1>1, <1>2 DEF CallShape, Labels, DestroyJoined, Goto,
     config, factory, queues, workers, backends, threads, history
<1>5. OthersStay(None)
  BY <1>0, <1>1 DEF OthersStay, DataShape, DestroyJoined,
     config, factory, queues, workers, backends, threads, history
<1>6. Control'
  BY <1>0, <1>1, <1>5, ControlFramed
<1>7. WorkersStay(m)
  BY <1>0, <1>1 DEF WorkersStay, DataShape, QueueShape, DestroyJoined,
     config, factory, queues, workers, backends, threads, history
<1>8. /\ worker'[m] = worker[m] /\ batch'[m] = batch[m]
      /\ StopRequested'[m] = StopRequested[m] /\ Processing'[m] = Processing[m]
  BY <1>0, <1>1 DEF DataShape, QueueShape, IsConsole, WorkerLabels, DestroyJoined,
     config, factory, queues, workers, backends, threads, history
<1>9. WorkingOf(m)'
  BY <1>1, <1>7, <1>8 DEF WorkingOf, WorkersStay, IsConsole
<1>10. Working'
  BY <1>0, <1>7, <1>9, WorkingFramed
<1>11. FactoryStays(None)
  BY <1>0, <1>1, <1>2, <1>5, <1>7, <1>8 DEF FactoryStays, WorkersStay, OthersStay, DestroyJoined,
     config, factory, queues, workers, backends, threads, history
<1>12. Making'
  BY <1>0, <1>1, <1>11, MakingFramed
<1>13. QED
  BY <1>3, <1>4, <1>6, <1>10, <1>12 DEF Base

LEMMA WorkerTestsControl ==
  ASSUME DataShape, Base, NEW m \in Managers, WorkerTests(m)
  PROVE  Base'
<1>0. QueueShape /\ CallShape /\ Control /\ Working /\ Making
  BY DEF Base
<1>1. /\ None \in Known /\ \A n \in Known : n # None => n \in Managers
      /\ \A u \in Threads : pc[u] \in Managing => manager[u] \in Managers
      /\ m # None /\ m \notin Threads /\ None \notin Threads /\ \A u \in Threads : u # m
      /\ WorkingOf(m)
  BY <1>0, CallFacts, ParameterFacts DEF Working
<1>2. Known' = Known
  BY DEF Known, WorkerTests, Goes, factory
<1>3. QueueShape'
  BY <1>0, <1>1 DEF QueueShape, WorkerLabels, Managing, Labels, WorkerTests, Goes, Goto,
     config, factory, queues, workers, backends, threads, history
<1>4. CallShape'
  BY <1>0, <1>1, <1>2 DEF CallShape, Labels, WorkerTests, Goes, Goto,
     config, factory, queues, workers, backends, threads, history
<1>5. OthersStay(None)
  BY <1>0, <1>1 DEF OthersStay, DataShape, WorkerTests, Goes,
     config, factory, queues, workers, backends, threads, history
<1>6. Control'
  BY <1>0, <1>1, <1>5, ControlFramed
<1>7. WorkersStay(m)
  BY <1>0, <1>1 DEF WorkersStay, DataShape, QueueShape, WorkerTests, Goes,
     config, factory, queues, workers, backends, threads, history
<1>8. /\ worker[m] = "test"
      /\ worker'[m] \in {"blocked", "blocking"}
      /\ batch'[m] = batch[m] /\ StopRequested'[m] = StopRequested[m]
      /\ Processing'[m] = Processing[m]
  BY <1>0, <1>1 DEF DataShape, QueueShape, IsConsole, WorkerLabels, WorkerTests, Goes,
     config, factory, queues, workers, backends, threads, history
<1>9. WorkingOf(m)'
  BY <1>1, <1>7, <1>8 DEF WorkingOf, WorkersStay, IsConsole
<1>10. Working'
  BY <1>0, <1>7, <1>9, WorkingFramed
<1>11. FactoryStays(None)
  BY <1>0, <1>1, <1>2, <1>5, <1>7, <1>8 DEF FactoryStays, WorkersStay, OthersStay, WorkerTests,
     config, factory, queues, workers, backends, threads, history
<1>12. Making'
  BY <1>0, <1>1, <1>11, MakingFramed
<1>13. QED
  BY <1>3, <1>4, <1>6, <1>10, <1>12 DEF Base

LEMMA WorkerBlocksControl ==
  ASSUME DataShape, Base, NEW m \in Managers, WorkerBlocks(m)
  PROVE  Base'
<1>0. QueueShape /\ CallShape /\ Control /\ Working /\ Making
  BY DEF Base
<1>1. /\ None \in Known /\ \A n \in Known : n # None => n \in Managers
      /\ \A u \in Threads : pc[u] \in Managing => manager[u] \in Managers
      /\ m # None /\ m \notin Threads /\ None \notin Threads /\ \A u \in Threads : u # m
      /\ WorkingOf(m)
  BY <1>0, CallFacts, ParameterFacts DEF Working
<1>2. Known' = Known
  BY DEF Known, WorkerBlocks, Goes, factory
<1>3. QueueShape'
  BY <1>0, <1>1 DEF QueueShape, WorkerLabels, Managing, Labels, WorkerBlocks, Goes, Goto,
     config, factory, queues, workers, backends, threads, history
<1>4. CallShape'
  BY <1>0, <1>1, <1>2 DEF CallShape, Labels, WorkerBlocks, Goes, Goto,
     config, factory, queues, workers, backends, threads, history
<1>5. OthersStay(None)
  BY <1>0, <1>1 DEF OthersStay, DataShape, WorkerBlocks, Goes,
     config, factory, queues, workers, backends, threads, history
<1>6. Control'
  BY <1>0, <1>1, <1>5, ControlFramed
<1>7. WorkersStay(m)
  BY <1>0, <1>1 DEF WorkersStay, DataShape, QueueShape, WorkerBlocks, Goes,
     config, factory, queues, workers, backends, threads, history
<1>8. /\ worker[m] = "blocking"
      /\ worker'[m] = "blocked"
      /\ batch'[m] = batch[m] /\ StopRequested'[m] = StopRequested[m]
      /\ Processing'[m] = Processing[m]
  BY <1>0, <1>1 DEF DataShape, QueueShape, IsConsole, WorkerLabels, WorkerBlocks, Goes,
     config, factory, queues, workers, backends, threads, history
<1>9. WorkingOf(m)'
  BY <1>1, <1>7, <1>8 DEF WorkingOf, WorkersStay, IsConsole
<1>10. Working'
  BY <1>0, <1>7, <1>9, WorkingFramed
<1>11. FactoryStays(None)
  BY <1>0, <1>1, <1>2, <1>5, <1>7, <1>8 DEF FactoryStays, WorkersStay, OthersStay, WorkerBlocks,
     config, factory, queues, workers, backends, threads, history
<1>12. Making'
  BY <1>0, <1>1, <1>11, MakingFramed
<1>13. QED
  BY <1>3, <1>4, <1>6, <1>10, <1>12 DEF Base

LEMMA WorkerTakesControl ==
  ASSUME DataShape, Base, NEW m \in Managers, WorkerTakes(m)
  PROVE  Base'
<1>0. QueueShape /\ CallShape /\ Control /\ Working /\ Making
  BY DEF Base
<1>1. /\ None \in Known /\ \A n \in Known : n # None => n \in Managers
      /\ \A u \in Threads : pc[u] \in Managing => manager[u] \in Managers
      /\ m # None /\ m \notin Threads /\ None \notin Threads /\ \A u \in Threads : u # m
      /\ WorkingOf(m)
  BY <1>0, CallFacts, ParameterFacts DEF Working
<1>2. Known' = Known
  BY DEF Known, WorkerTakes, Goes, factory
<1>3. QueueShape'
  BY <1>0, <1>1 DEF QueueShape, WorkerLabels, Managing, Labels, WorkerTakes, Goes, Goto,
     config, factory, queues, workers, backends, threads, history
<1>4. CallShape'
  BY <1>0, <1>1, <1>2 DEF CallShape, Labels, WorkerTakes, Goes, Goto,
     config, factory, queues, workers, backends, threads, history
<1>5. OthersStay(None)
  BY <1>0, <1>1 DEF OthersStay, DataShape, WorkerTakes, Goes,
     config, factory, queues, workers, backends, threads, history
<1>6. Control'
  BY <1>0, <1>1, <1>5, ControlFramed
<1>7. WorkersStay(m)
  BY <1>0, <1>1 DEF WorkersStay, DataShape, QueueShape, WorkerTakes, Goes,
     config, factory, queues, workers, backends, threads, history
<1>8. /\ worker[m] = "test"
      /\ batch'[m] = Buffer[m]
      /\ Buffer[m] # <<>> => worker'[m] = "write" /\ Processing'[m]
      /\ worker'[m] \in {"write", "finish", "test"} \/ (worker'[m] = "ended" /\ StopRequested[m])
      /\ StopRequested'[m] = StopRequested[m]
  BY <1>0, <1>1 DEF DataShape, QueueShape, IsConsole, WorkerLabels, WorkerTakes, Goes,
     config, factory, queues, workers, backends, threads, history
<1>9. WorkingOf(m)'
  BY <1>1, <1>7, <1>8 DEF WorkingOf, WorkersStay, IsConsole
<1>10. Working'
  BY <1>0, <1>7, <1>9, WorkingFramed
<1>11. FactoryStays(None)
  BY <1>0, <1>1, <1>2, <1>5, <1>7, <1>8 DEF FactoryStays, WorkersStay, OthersStay, WorkerTakes,
     config, factory, queues, workers, backends, threads, history
<1>12. Making'
  BY <1>0, <1>1, <1>11, MakingFramed
<1>13. QED
  BY <1>3, <1>4, <1>6, <1>10, <1>12 DEF Base

LEMMA WorkerWritesControl ==
  ASSUME DataShape, Base, NEW m \in Managers, WorkerWrites(m)
  PROVE  Base'
<1>0. QueueShape /\ CallShape /\ Control /\ Working /\ Making
  BY DEF Base
<1>1. /\ None \in Known /\ \A n \in Known : n # None => n \in Managers
      /\ \A u \in Threads : pc[u] \in Managing => manager[u] \in Managers
      /\ m # None /\ m \notin Threads /\ None \notin Threads /\ \A u \in Threads : u # m
      /\ WorkingOf(m)
  BY <1>0, CallFacts, ParameterFacts DEF Working
<1>2. Known' = Known
  BY DEF Known, WorkerWrites, Goes, factory
<1>3. QueueShape'
  BY <1>0, <1>1 DEF QueueShape, WorkerLabels, Managing, Labels, WorkerWrites, Goes, Goto,
     config, factory, queues, workers, backends, threads, history
<1>4. CallShape'
  BY <1>0, <1>1, <1>2 DEF CallShape, Labels, WorkerWrites, Goes, Goto,
     config, factory, queues, workers, backends, threads, history
<1>5. OthersStay(None)
  BY <1>0, <1>1 DEF OthersStay, DataShape, WorkerWrites, Goes,
     config, factory, queues, workers, backends, threads, history
<1>6. Control'
  BY <1>0, <1>1, <1>5, ControlFramed
<1>7. WorkersStay(m)
  BY <1>0, <1>1 DEF WorkersStay, DataShape, QueueShape, WorkerWrites, Goes,
     config, factory, queues, workers, backends, threads, history
<1>8. /\ worker[m] = "write"
      /\ worker'[m] = "finish"
      /\ batch'[m] = <<>>
      /\ StopRequested'[m] = StopRequested[m] /\ Processing'[m] = Processing[m]
  BY <1>0, <1>1 DEF DataShape, QueueShape, IsConsole, WorkerLabels, WorkerWrites, Goes,
     config, factory, queues, workers, backends, threads, history
<1>9. WorkingOf(m)'
  BY <1>1, <1>7, <1>8 DEF WorkingOf, WorkersStay, IsConsole
<1>10. Working'
  BY <1>0, <1>7, <1>9, WorkingFramed
<1>11. FactoryStays(None)
  BY <1>0, <1>1, <1>2, <1>5, <1>7, <1>8 DEF FactoryStays, WorkersStay, OthersStay, WorkerWrites,
     config, factory, queues, workers, backends, threads, history
<1>12. Making'
  BY <1>0, <1>1, <1>11, MakingFramed
<1>13. QED
  BY <1>3, <1>4, <1>6, <1>10, <1>12 DEF Base

LEMMA WorkerFinishesControl ==
  ASSUME DataShape, Base, NEW m \in Managers, WorkerFinishes(m)
  PROVE  Base'
<1>0. QueueShape /\ CallShape /\ Control /\ Working /\ Making
  BY DEF Base
<1>1. /\ None \in Known /\ \A n \in Known : n # None => n \in Managers
      /\ \A u \in Threads : pc[u] \in Managing => manager[u] \in Managers
      /\ m # None /\ m \notin Threads /\ None \notin Threads /\ \A u \in Threads : u # m
      /\ WorkingOf(m)
  BY <1>0, CallFacts, ParameterFacts DEF Working
<1>2. Known' = Known
  BY DEF Known, WorkerFinishes, Goes, factory
<1>3. QueueShape'
  BY <1>0, <1>1 DEF QueueShape, WorkerLabels, Managing, Labels, WorkerFinishes, Goes, Goto,
     config, factory, queues, workers, backends, threads, history
<1>4. CallShape'
  BY <1>0, <1>1, <1>2 DEF CallShape, Labels, WorkerFinishes, Goes, Goto,
     config, factory, queues, workers, backends, threads, history
<1>5. OthersStay(None)
  BY <1>0, <1>1 DEF OthersStay, DataShape, WorkerFinishes, Goes,
     config, factory, queues, workers, backends, threads, history
<1>6. Control'
  BY <1>0, <1>1, <1>5, ControlFramed
<1>7. WorkersStay(m)
  BY <1>0, <1>1 DEF WorkersStay, DataShape, QueueShape, WorkerFinishes, Goes,
     config, factory, queues, workers, backends, threads, history
<1>8. /\ worker[m] = "finish"
      /\ worker'[m] = "test" \/ (IsConsole /\ worker'[m] = "stop")
      /\ batch'[m] = batch[m] /\ StopRequested'[m] = StopRequested[m]
  BY <1>0, <1>1 DEF DataShape, QueueShape, IsConsole, WorkerLabels, WorkerFinishes, Goes,
     config, factory, queues, workers, backends, threads, history
<1>9. WorkingOf(m)'
  BY <1>1, <1>7, <1>8 DEF WorkingOf, WorkersStay, IsConsole
<1>10. Working'
  BY <1>0, <1>7, <1>9, WorkingFramed
<1>11. FactoryStays(None)
  BY <1>0, <1>1, <1>2, <1>5, <1>7, <1>8 DEF FactoryStays, WorkersStay, OthersStay, WorkerFinishes,
     config, factory, queues, workers, backends, threads, history
<1>12. Making'
  BY <1>0, <1>1, <1>11, MakingFramed
<1>13. QED
  BY <1>3, <1>4, <1>6, <1>10, <1>12 DEF Base

LEMMA WorkerStopsControl ==
  ASSUME DataShape, Base, NEW m \in Managers, WorkerStops(m)
  PROVE  Base'
<1>0. QueueShape /\ CallShape /\ Control /\ Working /\ Making
  BY DEF Base
<1>1. /\ None \in Known /\ \A n \in Known : n # None => n \in Managers
      /\ \A u \in Threads : pc[u] \in Managing => manager[u] \in Managers
      /\ m # None /\ m \notin Threads /\ None \notin Threads /\ \A u \in Threads : u # m
      /\ WorkingOf(m)
  BY <1>0, CallFacts, ParameterFacts DEF Working
<1>2. Known' = Known
  BY DEF Known, WorkerStops, Goes, factory
<1>3. QueueShape'
  BY <1>0, <1>1 DEF QueueShape, WorkerLabels, Managing, Labels, WorkerStops, Goes, Goto,
     config, factory, queues, workers, backends, threads, history
<1>4. CallShape'
  BY <1>0, <1>1, <1>2 DEF CallShape, Labels, WorkerStops, Goes, Goto,
     config, factory, queues, workers, backends, threads, history
<1>5. OthersStay(None)
  BY <1>0, <1>1 DEF OthersStay, DataShape, WorkerStops, Goes,
     config, factory, queues, workers, backends, threads, history
<1>6. Control'
  BY <1>0, <1>1, <1>5, ControlFramed
<1>7. WorkersStay(m)
  BY <1>0, <1>1 DEF WorkersStay, DataShape, QueueShape, WorkerStops, Goes,
     config, factory, queues, workers, backends, threads, history
<1>8. /\ worker[m] = "stop"
      /\ worker'[m] \in {"ended", "test"}
      /\ batch'[m] = batch[m] /\ StopRequested'[m] = StopRequested[m]
      /\ Processing'[m] = Processing[m]
  BY <1>0, <1>1 DEF DataShape, QueueShape, IsConsole, WorkerLabels, WorkerStops, Goes,
     config, factory, queues, workers, backends, threads, history
<1>9. WorkingOf(m)'
  BY <1>1, <1>7, <1>8 DEF WorkingOf, WorkersStay, IsConsole
<1>10. Working'
  BY <1>0, <1>7, <1>9, WorkingFramed
<1>11. FactoryStays(None)
  BY <1>0, <1>1, <1>2, <1>5, <1>7, <1>8 DEF FactoryStays, WorkersStay, OthersStay, WorkerStops,
     config, factory, queues, workers, backends, threads, history
<1>12. Making'
  BY <1>0, <1>1, <1>11, MakingFramed
<1>13. QED
  BY <1>3, <1>4, <1>6, <1>10, <1>12 DEF Base

LEMMA CloseControl ==
  ASSUME DataShape, Base, Close
  PROVE  Base'
<1>0. QueueShape /\ CallShape /\ Control /\ Working /\ Making
  BY DEF Base
<1>1. /\ None \in Known /\ \A n \in Known : n # None => n \in Managers
      /\ \A u \in Threads : pc[u] \in Managing => manager[u] \in Managers
      /\ None \notin Threads /\ \A m \in Managers : m \notin Threads /\ m # None
  BY <1>0, CallFacts, ParameterFacts
<1>2. Known' = Known /\ Instance \in Known
  BY <1>0 DEF Known, Close, factory, CallShape
<1>3. QueueShape'
  BY <1>0, <1>1, <1>2 DEF QueueShape, WorkerLabels, Close, Notified, config, workers
<1>4. CallShape'
  BY <1>0, <1>1, <1>2 DEF CallShape, Close, config, factory, backends, threads, history
<1>5. OthersStay(None)
  BY <1>0, <1>1 DEF OthersStay, Close, config, backends, threads, history
<1>6. Control'
  BY <1>0, <1>1, <1>5, ControlFramed
<1>7. /\ WorkersStay(Instance)
      /\ Instance \in Managers =>
           /\ StopRequested'[Instance] = StopRequested[Instance] \/ StopRequested'[Instance] = TRUE
           /\ \/ worker'[Instance] = worker[Instance]
              \/ worker[Instance] = "blocked" /\ worker'[Instance] = "test"
           /\ batch'[Instance] = batch[Instance] /\ Processing'[Instance] = Processing[Instance]
  BY <1>0, <1>1, <1>2 DEF WorkersStay, QueueShape, Close, Notified, config, history
<1>8. ASSUME NEW m \in Managers, m = Instance PROVE WorkingOf(m)'
  <2>1. WorkingOf(m)
    BY <1>0 DEF Working
  <2>2. QED
    BY <1>7, <1>8, <2>1 DEF WorkingOf, WorkersStay, IsConsole
<1>9. Working'
  BY <1>0, <1>7, <1>8, WorkingFramed
<1>10. FactoryStays(None)
  BY <1>0, <1>1, <1>2, <1>5, <1>7 DEF FactoryStays, WorkersStay, OthersStay, Close, factory
<1>11. Making'
  BY <1>0, <1>1, <1>10, MakingFramed
<1>12. QED
  BY <1>3, <1>4, <1>6, <1>9, <1>11 DEF Base

LEMMA NothingControl ==
  ASSUME Base, UNCHANGED vars
  PROVE  Base'
BY DEF Base, QueueShape, CallShape, Control, ControlOf, Working, WorkingOf, Making, Made, MakingOf,
   Known, IsConsole, vars, config, factory, queues, workers, backends, threads, history

LEMMA NextControl ==
  ASSUME DataShape, Base, [Next]_vars
  PROVE  Base'
<1>1. ASSUME NEW t \in Threads, Proceed(t) PROVE Base'
  BY <1>1, AddControl, AddBackendControl, TestStoppingControl, PushWithSpaceControl,
     PushDropOldestControl, PushDropNewControl, PushDrainsControl, PushStoppedControl,
     DrainTakesControl, DrainWritesControl, DrainEndsControl, DrainFindsNothingControl,
     FlushResetsControl, FlushDrainsControl, FlushFindsNothingControl, FlushReturnsControl,
     RemoveDrainsControl, RemoveBackendControl, ForgetInstanceControl DEF Proceed
<1>2. ASSUME NEW t \in Threads, Display(t) \/ DisplaySync(t) \/ Flush(t) \/ Freeze(t) PROVE Base'
  BY <1>2, DisplayControl, DisplaySyncControl, FlushControl, FreezeControl
<1>3. ASSUME NEW m \in Managers, ManagementThread(m) \/ Destructor(m) PROVE Base'
  BY <1>3, WorkerTestsControl, WorkerBlocksControl, WorkerTakesControl, WorkerWritesControl,
     WorkerFinishesControl, WorkerStopsControl, DestroyControl, DestroyJoinedControl
     DEF ManagementThread, Destructor
<1>4. QED
  BY <1>1, <1>2, <1>3, CloseControl, NothingControl DEF Next

-----------------------------------------------------------------------------
(* What each action does with the records. *)

LEMMA EnqueueIsData ==
  ASSUME Base, DataShape, NEW t \in Threads, pc[t] = "push", NEW kept, Enqueue(t, kept),
         Len(kept) < QueueLimit
  PROVE  Queued(t, manager[t], kept) /\ manager[t] \in Managers
<1>1. CallShape /\ Control
  BY DEF Base
<1>2. record[t] \in Records /\ manager[t] \in Managers /\ manager[t] \in Known
  BY <1>1, CallFacts DEF Displaying, Managing, Labels
<1>3. record[t] # None
  BY <1>2 DEF Records, None
<1>4. QED
  BY <1>2, <1>3 DEF Enqueue, Queued

LEMMA TakeBatchIsData ==
  ASSUME Base, DataShape, NEW t \in Threads, pc[t] \in Managing, pc[t] \notin Writing,
         NEW label, TakeBatch(t, label), UNCHANGED <<record, written, ignored, accepted, owner>>
  PROVE  BatchTaken(t, manager[t]) /\ manager[t] \in Managers
<1>1. CallShape /\ Control
  BY DEF Base
<1>2. manager[t] \in Managers /\ batch[t] = <<>> /\ t \notin Managers
  BY <1>1, CallFacts, ParameterFacts
<1>3. t # manager[t]
  BY <1>2
<1>4. QED
  BY <1>2, <1>3 DEF TakeBatch, BatchTaken

LEMMA NotAcceptedIsData ==
  ASSUME Base, DataShape, NEW t \in Threads, pc[t] \in Displaying, NotAccepted(t),
         UNCHANGED <<Buffer, batch, accepted, drained, owner>>
  PROVE  NotTaken(t)
<1>1. CallShape /\ Control
  BY DEF Base
<1>2. record[t] \in Records
  BY <1>1, CallFacts
<1>3. record[t] # None
  BY <1>2 DEF Records, None
<1>4. QED
  BY <1>3 DEF NotAccepted, NotTaken

LEMMA StepIsData ==
  ASSUME Base, DataShape, Limited, [Next]_vars
  PROVE  DataStep
<1>1. CallShape /\ Control /\ Working /\ QueueShape
  BY DEF Base
<1>2. \A t \in Threads : /\ pc[t] = "idle" => record[t] = None
                         /\ pc[t] \in Managing => manager[t] \in Managers
  BY <1>1, CallFacts DEF Displaying
<1>3. ASSUME NEW t \in Threads, Proceed(t) PROVE DataStep
  <2>1. CASE Add(t)
    BY <2>1 DEF DataStep, Same, Add, queues, history
  <2>2. CASE AddBackend(t)
    BY <2>2 DEF DataStep, Same, AddBackend, history
  <2>3. CASE TestStopping(t)
    <3>1. NotAccepted(t) => NotTaken(t)
      BY <2>3, NotAcceptedIsData DEF TestStopping, Displaying, queues
    <3>2. CASE NotAccepted(t)
      BY <3>1, <3>2 DEF DataStep
    <3>3. CASE ~NotAccepted(t)
      BY <2>3, <3>3 DEF TestStopping, DataStep, Same, queues
    <3>4. QED
      BY <3>2, <3>3
  <2>4. CASE PushWithSpace(t)
    <3>1. Queued(t, manager[t], Buffer[manager[t]]) /\ manager[t] \in Managers
      BY <2>4, EnqueueIsData DEF PushWithSpace, HasSpace
    <3>2. QED
      BY <3>1 DEF DataStep
  <2>5. CASE PushDropOldest(t)
    <3> DEFINE q == Buffer[manager[t]]
    <3>1. manager[t] \in Managers
      BY <1>2, <2>5 DEF PushDropOldest, Managing, Labels
    <3>2. q \in Seq(Records) /\ Len(q) <= QueueLimit /\ ~(Len(q) < QueueLimit)
      BY <2>5, <3>1 DEF PushDropOldest, HasSpace, DataShape, Limited
    <3>3. QueueLimit \in QueueLimits
      BY <1>1 DEF QueueShape
    <3>4. QueueLimit \in Nat /\ QueueLimit >= 1
      BY <3>3, ParameterFacts
    <3>5. Len(q) = QueueLimit
      BY <3>2, <3>4, LenProperties
    <3> HIDE DEF q
    <3>6. q # <<>>
      BY <3>2, <3>4, <3>5, EmptySeq
    <3>7. Len(q) - QueueLimit + 2 = 2
      BY <3>4, <3>5
    <3>8. SubSeq(q, 2, Len(q)) = Tail(q)
      BY <3>2, <3>6, TailIsSubSeq
    <3>9. Len(Tail(q)) < QueueLimit
      <4>1. Len(Tail(q)) = Len(q) - 1
        BY <3>2, <3>6, HeadTailProperties
      <4>2. QED
        BY <3>4, <3>5, <4>1
    <3>10. pc[t] = "push" /\ Enqueue(t, Tail(q))
      BY <2>5, <3>7, <3>8 DEF PushDropOldest, q
    <3>11. Queued(t, manager[t], Tail(q))
      BY <3>9, <3>10, EnqueueIsData
    <3>12. QED
      BY <3>1, <3>6, <3>11 DEF DataStep, q
  <2>6. CASE PushDropNew(t)
    <3>1. NotTaken(t)
      BY <2>6, NotAcceptedIsData DEF PushDropNew, Displaying, queues
    <3>2. QED
      BY <3>1 DEF DataStep
  <2>7. CASE PushDrains(t)
    <3>1. CASE IsConsole
      BY <2>7, <3>1 DEF PushDrains, DataStep, Same, history
    <3>2. CASE ~IsConsole
      <4>1. BatchTaken(t, manager[t]) /\ manager[t] \in Managers
        BY <2>7, <3>2, TakeBatchIsData DEF PushDrains, Managing, Writing, Labels
      <4>2. QED
        BY <4>1 DEF DataStep
    <3>3. QED
      BY <3>1, <3>2
  <2>8. CASE PushStopped(t)
    <3>1. NotTaken(t)
      BY <2>8, NotAcceptedIsData DEF PushStopped, Displaying, queues
    <3>2. QED
      BY <3>1 DEF DataStep
  <2>9. CASE DrainTakes(t)
    <3>1. BatchTaken(t, manager[t]) /\ manager[t] \in Managers
      BY <2>9, TakeBatchIsData DEF DrainTakes, Managing, Writing, Labels
    <3>2. QED
      BY <3>1 DEF DataStep
  <2>10. CASE DrainWrites(t)
    <3>1. BatchWritten(t)
      BY <2>10 DEF DrainWrites, BatchWritten, queues, threads
    <3>2. QED
      BY <3>1 DEF DataStep
  <2>11. CASE DrainEnds(t)
    BY <2>11 DEF DataStep, Same, DrainEnds, history
  <2>12. CASE DrainFindsNothing(t)
    BY <2>12 DEF DataStep, Same, DrainFindsNothing, queues, history
  <2>13. CASE FlushResets(t)
    BY <2>13 DEF DataStep, Same, FlushResets, threads, history
  <2>14. CASE FlushDrains(t)
    <3>1. CASE IsConsole
      BY <2>14, <3>1 DEF FlushDrains, DataStep, Same, history
    <3>2. CASE ~IsConsole
      <4>1. BatchTaken(t, manager[t]) /\ manager[t] \in Managers
        BY <2>14, <3>2, TakeBatchIsData DEF FlushDrains, Managing, Writing, Labels
      <4>2. QED
        BY <4>1 DEF DataStep
    <3>3. QED
      BY <3>1, <3>2
  <2>15. CASE FlushFindsNothing(t)
    BY <2>15 DEF DataStep, Same, FlushFindsNothing, queues, history
  <2>16. CASE FlushReturns(t)
    BY <2>16 DEF DataStep, Same, FlushReturns, queues
  <2>17. CASE RemoveDrains(t)
    <3>1. BatchTaken(t, manager[t]) /\ manager[t] \in Managers
      BY <2>17, TakeBatchIsData DEF RemoveDrains, Managing, Writing, Labels
    <3>2. QED
      BY <3>1 DEF DataStep
  <2>18. CASE RemoveBackend(t)
    BY <2>18 DEF DataStep, Same, RemoveBackend, history
  <2>19. CASE ForgetInstance(t)
    BY <2>19 DEF DataStep, Same, ForgetInstance, queues, history
  <2>20. QED
    BY <1>3, <2>1, <2>2, <2>3, <2>4, <2>5, <2>6, <2>7, <2>8, <2>9, <2>10, <2>11, <2>12, <2>13,
       <2>14, <2>15, <2>16, <2>17, <2>18, <2>19 DEF Proceed
<1>4. ASSUME NEW t \in Threads, Display(t) \/ DisplaySync(t) PROVE DataStep
  <2>1. Displayed(t)
    BY <1>2, <1>4 DEF Display, DisplaySync, Displayed, queues, history
  <2>2. QED
    BY <2>1 DEF DataStep
<1>5. ASSUME NEW t \in Threads, Flush(t) \/ Freeze(t) PROVE DataStep
  BY <1>5 DEF Flush, Freeze, DataStep, Same, queues
<1>6. ASSUME NEW m \in Managers, ManagementThread(m) \/ Destructor(m) PROVE DataStep
  <2>1. WorkingOf(m)
    BY <1>1 DEF Working
  <2>2. CASE WorkerTakes(m)
    <3>1. BatchTaken(m, m)
      BY <2>1, <2>2 DEF WorkerTakes, WorkingOf, BatchTaken, threads, history
    <3>2. QED
      BY <3>1 DEF DataStep
  <2>3. CASE WorkerWrites(m)
    <3>1. BatchWritten(m)
      BY <2>3 DEF WorkerWrites, BatchWritten, queues, threads
    <3>2. QED
      BY <3>1 DEF DataStep
  <2>4. CASE DestroyJoined(m)
    <3>1. RestWritten(m)
      BY <2>1, <2>4 DEF DestroyJoined, WorkingOf, RestWritten, threads
    <3>2. QED
      BY <3>1 DEF DataStep
  <2>5. CASE WorkerTests(m) \/ WorkerBlocks(m)
    BY <2>5 DEF WorkerTests, WorkerBlocks, DataStep, Same, queues, threads, history
  <2>6. CASE WorkerFinishes(m) \/ WorkerStops(m) \/ Destroy(m)
    BY <2>6 DEF WorkerFinishes, WorkerStops, Destroy, DataStep, Same, queues, threads, history
  <2>7. QED
    BY <1>6, <2>2, <2>3, <2>4, <2>5, <2>6 DEF ManagementThread, Destructor
<1>7. CASE Close
  BY <1>7 DEF Close, DataStep, Same, threads, history
<1>8. CASE UNCHANGED vars
  BY <1>8 DEF vars, DataStep, Same, queues, threads, history
<1>9. QED
  BY <1>3, <1>4, <1>5, <1>6, <1>7, <1>8 DEF Next

-----------------------------------------------------------------------------
(* A record enters a queue that keeps all it had, or all but its first.       *)

KeepsSome(m, kept) == kept = Buffer[m] \/ (Buffer[m] # <<>> /\ kept = Tail(Buffer[m]))

LEMMA StepCases ==
  ASSUME DataStep
  PROVE  \/ Same
         \/ \E t \in Threads : Displayed(t)
         \/ \E t \in Threads : NotTaken(t)
         \/ \E t \in Threads, m \in Managers : \E kept : KeepsSome(m, kept) /\ Queued(t, m, kept)
         \/ \E m \in Managers : \E p \in Threads \cup {m} : BatchTaken(p, m)
         \/ \E p \in Threads \cup Managers : BatchWritten(p)
         \/ \E m \in Managers : RestWritten(m)
<1>1. ASSUME NEW t \in Threads, NEW m \in Managers,
             Queued(t, m, Buffer[m]) \/ (Buffer[m] # <<>> /\ Queued(t, m, Tail(Buffer[m])))
      PROVE  \E kept : KeepsSome(m, kept) /\ Queued(t, m, kept)
  BY <1>1 DEF KeepsSome
<1>2. QED
  BY <1>1 DEF DataStep

LEMMA RecordFacts ==
  ASSUME DataShape
  PROVE  /\ Len(owner) \in Nat
         /\ \A t \in Threads : record[t] # None => record[t] \in Records /\ record[t] \in 1..Len(owner)
         /\ \A m \in Managers : Buffer[m] \in Seq(Records) /\ accepted[m] \in Seq(Records)
         /\ \A p \in Threads \cup Managers : batch[p] \in Seq(Records)
         /\ written \in Seq(Records)
         /\ None \notin Records
<1>1. /\ owner \in Seq(Threads) /\ record \in [Threads -> 0..Len(owner)]
      /\ Buffer \in [Managers -> Seq(Records)] /\ accepted \in [Managers -> Seq(Records)]
      /\ batch \in [Threads \cup Managers -> Seq(Records)] /\ written \in Seq(Records)
  BY DEF DataShape
<1>2. Len(owner) \in Nat
  BY <1>1, LenProperties
<1>3. \A t \in Threads : record[t] # None => record[t] \in Records /\ record[t] \in 1..Len(owner)
  BY <1>1, <1>2 DEF None, Records
<1>4. QED
  BY <1>1, <1>2, <1>3 DEF None, Records

LEMMA QueuedFacts ==
  ASSUME DataShape, NEW t \in Threads, NEW m \in Managers, NEW kept, KeepsSome(m, kept),
         Queued(t, m, kept)
  PROVE  /\ kept \in Seq(Records) /\ record[t] \in Records
         /\ Append(kept, record[t]) \in Seq(Records)
         /\ Len(Append(kept, record[t])) = Len(kept) + 1 /\ Len(kept) \in Nat
         /\ Append(accepted[m], record[t]) \in Seq(Records)
<1>1. record[t] \in Records /\ Buffer[m] \in Seq(Records) /\ accepted[m] \in Seq(Records)
  BY RecordFacts DEF Queued
<1>2. kept \in Seq(Records)
  BY <1>1, HeadTailProperties DEF KeepsSome
<1>3. QED
  BY <1>1, <1>2, AppendProperties, LenProperties

LEMMA DataShapeKept ==
  ASSUME DataShape, DataStep
  PROVE  DataShape'
<1>1. CASE Same
  BY <1>1 DEF Same, DataShape
<1>2. ASSUME NEW t \in Threads, Displayed(t) PROVE DataShape'
  <2>1. owner' \in Seq(Threads) /\ Len(owner') = Len(owner) + 1 /\ Len(owner) \in Nat
    BY <1>2, AppendProperties, LenProperties DEF Displayed, DataShape
  <2>2. /\ record \in [Threads -> 0..Len(owner)]
        /\ record' = [record EXCEPT ![t] = Len(owner) + 1]
    BY <1>2 DEF Displayed, DataShape
  <2>3. record' \in [Threads -> 0..Len(owner')]
    BY <2>1, <2>2
  <2>4. QED
    BY <1>2, <2>1, <2>3 DEF Displayed, DataShape
<1>3. ASSUME NEW t \in Threads, NotTaken(t) PROVE DataShape'
  <2>1. record[t] \in Records /\ written \in Seq(Records)
    BY <1>3, RecordFacts DEF NotTaken
  <2>2. written' \in Seq(Records)
    BY <1>3, <2>1, AppendProperties DEF NotTaken
  <2>3. record \in [Threads -> 0..Len(owner)] /\ Len(owner) \in Nat
    BY RecordFacts DEF DataShape
  <2>4. record' \in [Threads -> 0..Len(owner)]
    BY <1>3, <2>3 DEF NotTaken, None
  <2>5. QED
    BY <1>3, <2>2, <2>4 DEF NotTaken, DataShape
<1>4. ASSUME NEW t \in Threads, NEW m \in Managers, NEW kept, KeepsSome(m, kept), Queued(t, m, kept)
      PROVE  DataShape'
  <2>1. /\ Append(kept, record[t]) \in Seq(Records)
        /\ Append(accepted[m], record[t]) \in Seq(Records)
    BY <1>4, QueuedFacts
  <2>2. record \in [Threads -> 0..Len(owner)] /\ Len(owner) \in Nat
    BY RecordFacts DEF DataShape
  <2>3. record' \in [Threads -> 0..Len(owner)]
    BY <1>4, <2>2 DEF Queued, None
  <2>4. QED
    BY <1>4, <2>1, <2>3 DEF Queued, DataShape
<1>5. ASSUME NEW m \in Managers, NEW p \in Threads \cup {m}, BatchTaken(p, m) PROVE DataShape'
  <2>1. \A S : <<>> \in Seq(S)
    BY EmptySeq
  <2>2. QED
    BY <1>5, <2>1 DEF BatchTaken, DataShape
<1>6. ASSUME NEW p \in Threads \cup Managers, BatchWritten(p) PROVE DataShape'
  <2>1. written \o batch[p] \in Seq(Records)
    BY RecordFacts, ConcatProperties
  <2>2. \A S : <<>> \in Seq(S)
    BY EmptySeq
  <2>3. QED
    BY <1>6, <2>1, <2>2 DEF BatchWritten, DataShape
<1>7. ASSUME NEW m \in Managers, RestWritten(m) PROVE DataShape'
  <2>1. written \o Buffer[m] \in Seq(Records)
    BY RecordFacts, ConcatProperties
  <2>2. \A S : <<>> \in Seq(S)
    BY EmptySeq
  <2>3. QED
    BY <1>7, <2>1, <2>2 DEF RestWritten, DataShape
<1>8. QED
  BY <1>1, <1>2, <1>3, <1>4, <1>5, <1>6, <1>7, StepCases

LEMMA LimitedKept ==
  ASSUME DataShape, QueueShape, Limited, DataStep, QueueLimit' = QueueLimit
  PROVE  Limited'
<1>1. QueueLimit \in QueueLimits
  BY DEF QueueShape
<1>2. QueueLimit \in Nat
  BY <1>1, ParameterFacts
<1>3. Len(<<>>) = 0 /\ Len(<<>>) <= QueueLimit
  BY <1>2, EmptySeq
<1>4. ASSUME NEW t \in Threads, NEW m \in Managers, NEW kept, KeepsSome(m, kept), Queued(t, m, kept)
      PROVE  Limited'
  <2>1. Len(Append(kept, record[t])) = Len(kept) + 1 /\ Len(kept) \in Nat /\ Len(kept) < QueueLimit
    BY <1>4, QueuedFacts DEF Queued
  <2>2. Len(Append(kept, record[t])) <= QueueLimit
    BY <1>2, <2>1
  <2>3. QED
    BY <1>4, <2>2 DEF Queued, Limited, DataShape
<1>5. ASSUME NEW m \in Managers, NEW p \in Threads \cup {m}, BatchTaken(p, m) PROVE Limited'
  BY <1>3, <1>5 DEF BatchTaken, Limited, DataShape
<1>6. ASSUME NEW m \in Managers, RestWritten(m) PROVE Limited'
  BY <1>3, <1>6 DEF RestWritten, Limited, DataShape
<1>7. CASE \/ Same
           \/ \E t \in Threads : Displayed(t) \/ NotTaken(t)
           \/ \E p \in Threads \cup Managers : BatchWritten(p)
  BY <1>7 DEF Same, Displayed, NotTaken, BatchWritten, Limited
<1>8. QED
  BY <1>4, <1>5, <1>6, <1>7, StepCases

LEMMA OwnedKept ==
  ASSUME DataShape, Owned, DataStep
  PROVE  Owned'
<1>1. ASSUME NEW t \in Threads, Displayed(t) PROVE Owned'
  <2>1. /\ owner \in Seq(Threads) /\ DOMAIN record = Threads
        /\ \A u \in Threads : record[u] # None => record[u] \in 1..Len(owner)
    BY RecordFacts DEF DataShape
  <2>2. /\ \A i \in 1..Len(owner) : owner'[i] = owner[i]
        /\ owner'[Len(owner) + 1] = t
    BY <1>1, <2>1, AppendProperties DEF Displayed
  <2>3. record'[t] = Len(owner) + 1 /\ \A u \in Threads \ {t} : record'[u] = record[u]
    BY <1>1, <2>1 DEF Displayed
  <2>4. QED
    BY <2>1, <2>2, <2>3 DEF Owned
<1>2. CASE \E t \in Threads : NotTaken(t)
  BY <1>2 DEF NotTaken, Owned, DataShape
<1>3. CASE \E t \in Threads, m \in Managers : \E kept : KeepsSome(m, kept) /\ Queued(t, m, kept)
  BY <1>3 DEF Queued, Owned, DataShape
<1>4. CASE \/ Same
           \/ \E m \in Managers : \E p \in Threads \cup {m} : BatchTaken(p, m)
           \/ \E p \in Threads \cup Managers : BatchWritten(p)
           \/ \E m \in Managers : RestWritten(m)
  BY <1>4 DEF Same, BatchTaken, BatchWritten, RestWritten, Owned
<1>5. QED
  BY <1>1, <1>2, <1>3, <1>4, StepCases

-----------------------------------------------------------------------------
(* Every record stays in one place. *)

(* Records that go from one place to another. *)
LEMMA ContentMoved ==
  ASSUME DataShape, Kept, owner' = owner, NEW p \in Places, NEW q \in Places, p # q,
         NEW M, M \subseteq Content[p], Content'[p] = Content[p] \ M, Content'[q] = Content[q] \cup M,
         \A x \in Places \ {p, q} : Content'[x] = Content[x]
  PROVE  Apart(Content)' /\ All(Content)' = 1..Len(owner')
<1> DEFINE f == Content
           g == ContentOf(record', Buffer', batch', written', ignored')
<1>1. g = Content'
  BY DEF Content, ContentOf
<1>2. DOMAIN f = Places /\ DOMAIN g = Places
  BY ContentIs DEF Content
<1>3. Apart(f) /\ All(f) = 1..Len(owner)
  BY DEF Kept
<1>4. f[p] = Content[p] /\ f[q] = Content[q] /\ g[p] = f[p] \ M /\ g[q] = f[q] \cup M
      /\ \A x \in Places \ {p, q} : g[x] = f[x]
  BY <1>1
<1> HIDE DEF f, g
<1>5. Apart(g) /\ All(g) = All(f)
  <2>1. M \subseteq f[p] /\ \A x \in (DOMAIN f) \ {p, q} : g[x] = f[x]
    BY <1>2, <1>4
  <2>2. p \in DOMAIN f /\ q \in DOMAIN f /\ DOMAIN g = DOMAIN f
    BY <1>2
  <2>3. QED
    BY <1>3, <1>4, <2>1, <2>2, Moved
<1>6. QED
  BY <1>1, <1>3, <1>5 DEF Apart, All

(* What is where. *)
LEMMA ContentNow ==
  /\ DOMAIN Content = Places
  /\ \A t \in Threads : Content[<<"record", t>>] = {record[t]} \ {None}
  /\ \A m \in Managers : Content[<<"buffer", m>>] = ToSet(Buffer[m])
  /\ \A p \in Threads \cup Managers : Content[<<"batch", p>>] = ToSet(batch[p])
  /\ Content[<<"written", None>>] = ToSet(written)
  /\ Content[<<"ignored", None>>] = ignored
BY ContentIs DEF Content

LEMMA ContentThen ==
  /\ DOMAIN Content' = Places
  /\ \A t \in Threads : Content'[<<"record", t>>] = {record'[t]} \ {None}
  /\ \A m \in Managers : Content'[<<"buffer", m>>] = ToSet(Buffer'[m])
  /\ \A p \in Threads \cup Managers : Content'[<<"batch", p>>] = ToSet(batch'[p])
  /\ Content'[<<"written", None>>] = ToSet(written')
  /\ Content'[<<"ignored", None>>] = ignored'
<1>1. Content' = ContentOf(record', Buffer', batch', written', ignored')
  BY DEF Content, ContentOf
<1>2. QED
  BY <1>1, ContentIs

(* Nothing comes or goes where nothing changes. *)
LEMMA ContentStays ==
  ASSUME NEW X,
         \A t \in Threads : <<"record", t>> \notin X => record'[t] = record[t],
         \A m \in Managers : <<"buffer", m>> \notin X => Buffer'[m] = Buffer[m],
         \A p \in Threads \cup Managers : <<"batch", p>> \notin X => batch'[p] = batch[p],
         <<"written", None>> \notin X => written' = written,
         <<"ignored", None>> \notin X => ignored' = ignored
  PROVE  \A x \in Places \ X : Content'[x] = Content[x]
<1> SUFFICES ASSUME NEW x \in Places \ X PROVE Content'[x] = Content[x]
  OBVIOUS
<1>1. CASE \E t \in Threads : x = <<"record", t>>
  BY <1>1, ContentNow, ContentThen
<1>2. CASE \E m \in Managers : x = <<"buffer", m>>
  BY <1>2, ContentNow, ContentThen
<1>3. CASE \E p \in Threads \cup Managers : x = <<"batch", p>>
  BY <1>3, ContentNow, ContentThen
<1>4. CASE x = <<"written", None>>
  BY <1>4, ContentNow, ContentThen
<1>5. CASE x = <<"ignored", None>>
  BY <1>5, ContentNow, ContentThen
<1>6. QED
  BY <1>1, <1>2, <1>3, <1>4, <1>5, PlaceCases

LEMMA DisplayedKept ==
  ASSUME DataShape, Kept, NEW t \in Threads, Displayed(t)
  PROVE  Kept'
<1> DEFINE f == Content
           g == ContentOf(record', Buffer', batch', written', ignored')
           r == Len(owner) + 1
           p == <<"record", t>>
<1>1. g = Content'
  BY DEF Content, ContentOf
<1>2. /\ Len(owner) \in Nat /\ Len(owner') = Len(owner) + 1
      /\ r \notin 1..Len(owner) /\ 1..Len(owner') = (1..Len(owner)) \cup {r} /\ r # None
  <2>1. Len(owner) \in Nat /\ Len(owner') = Len(owner) + 1
    BY AppendProperties, LenProperties DEF Displayed, DataShape
  <2>2. QED
    BY <2>1 DEF None
<1>3. /\ record[t] = None /\ record' = [record EXCEPT ![t] = r] /\ DOMAIN record = Threads
      /\ Buffer' = Buffer /\ batch' = batch /\ written' = written /\ ignored' = ignored
  BY DEF Displayed, DataShape
<1>4. Apart(f) /\ All(f) = 1..Len(owner)
  BY DEF Kept
<1> HIDE DEF r
<1>5. f[p] = {} /\ g[p] = {r} /\ p \in Places
  BY <1>1, <1>2, <1>3, ContentNow, ContentThen, PlaceCases
<1>6. \A x \in Places \ {p} : g[x] = f[x]
  <2>1. \A u \in Threads : <<"record", u>> \notin {p} => record'[u] = record[u]
    BY <1>3
  <2>2. QED
    BY <1>1, <1>3, <2>1, ContentStays
<1>7. DOMAIN f = Places /\ DOMAIN g = Places
  BY <1>1, ContentNow, ContentThen
<1> HIDE DEF f, g, p
<1>8. Apart(g) /\ All(g) = All(f) \cup {r}
  <2>1. p \in DOMAIN f /\ DOMAIN g = DOMAIN f /\ r \notin All(f) /\ g[p] = f[p] \cup {r}
    BY <1>2, <1>4, <1>5, <1>7
  <2>2. \A x \in (DOMAIN f) \ {p} : g[x] = f[x]
    BY <1>6, <1>7
  <2>3. Apart(f)
    BY <1>4
  <2>4. QED
    BY <2>1, <2>2, <2>3, Born
<1>9. Apart(Content)' /\ All(Content)' = 1..Len(owner')
  BY <1>1, <1>2, <1>4, <1>8 DEF Apart, All
<1>10. QED
  BY <1>3, <1>9 DEF Kept

LEMMA NotTakenKept ==
  ASSUME DataShape, Kept, NEW t \in Threads, NotTaken(t)
  PROVE  Kept'
<1>1. /\ record[t] \in Records /\ record[t] # None /\ record' = [record EXCEPT ![t] = None]
      /\ DOMAIN record = Threads /\ written \in Seq(Records)
      /\ Buffer' = Buffer /\ batch' = batch /\ owner' = owner
  BY RecordFacts DEF NotTaken, DataShape
<1>2. record[t] \notin ToSet(written) /\ IsInjective(written)
  BY <1>1, OnePlace DEF Kept
<1>3. CASE ignored' = ignored \cup {record[t]} /\ written' = written
  <2> DEFINE p == <<"record", t>>
             q == <<"ignored", None>>
  <2>1. /\ {record[t]} \subseteq Content[p] /\ Content'[p] = Content[p] \ {record[t]}
        /\ Content'[q] = Content[q] \cup {record[t]} /\ p \in Places /\ q \in Places /\ p # q
    BY <1>1, <1>3, ContentNow, ContentThen, PlaceCases
  <2>2. \A x \in Places \ {p, q} : Content'[x] = Content[x]
    <3>1. \A u \in Threads : <<"record", u>> \notin {p, q} => record'[u] = record[u]
      BY <1>1
    <3>2. QED
      BY <1>1, <1>3, <3>1, ContentStays
  <2> HIDE DEF p, q
  <2>3. Apart(Content)' /\ All(Content)' = 1..Len(owner')
    BY <1>1, <2>1, <2>2, ContentMoved
  <2>4. QED
    BY <1>1, <1>3, <2>3 DEF Kept
<1>4. CASE written' = Append(written, record[t]) /\ ignored' = ignored
  <2> DEFINE p == <<"record", t>>
             q == <<"written", None>>
  <2>1. IsInjective(written') /\ ToSet(written') = ToSet(written) \cup {record[t]}
    BY <1>1, <1>2, <1>4, AppendToQueue
  <2>2. /\ {record[t]} \subseteq Content[p] /\ Content'[p] = Content[p] \ {record[t]}
        /\ Content'[q] = Content[q] \cup {record[t]} /\ p \in Places /\ q \in Places /\ p # q
    BY <1>1, <2>1, ContentNow, ContentThen, PlaceCases
  <2>3. \A x \in Places \ {p, q} : Content'[x] = Content[x]
    <3>1. \A u \in Threads : <<"record", u>> \notin {p, q} => record'[u] = record[u]
      BY <1>1
    <3>2. QED
      BY <1>1, <1>4, <3>1, ContentStays
  <2> HIDE DEF p, q
  <2>4. Apart(Content)' /\ All(Content)' = 1..Len(owner')
    BY <1>1, <2>2, <2>3, ContentMoved
  <2>5. QED
    BY <1>1, <2>1, <2>4 DEF Kept
<1>5. QED
  BY <1>3, <1>4 DEF NotTaken

(* What is kept of a queue, and with the record behind it. *)
LEMMA QueuedParts ==
  ASSUME DataShape, Kept, NEW t \in Threads, NEW m \in Managers, NEW kept, KeepsSome(m, kept),
         Queued(t, m, kept)
  PROVE  /\ IsInjective(kept) /\ ToSet(kept) \subseteq ToSet(Buffer[m])
         /\ record[t] \notin ToSet(Buffer[m]) /\ record[t] \notin ToSet(kept)
         /\ IsInjective(Append(kept, record[t]))
         /\ ToSet(Append(kept, record[t])) = ToSet(kept) \cup {record[t]}
<1>1. record[t] # None /\ record[t] \notin ToSet(Buffer[m])
  BY OnePlace DEF Queued
<1>2. Buffer[m] \in Seq(Records) /\ IsInjective(Buffer[m])
  BY RecordFacts DEF Kept
<1>3. IsInjective(kept) /\ ToSet(kept) \subseteq ToSet(Buffer[m])
  BY <1>2, WithoutFirst DEF KeepsSome
<1>4. kept \in Seq(Records) /\ record[t] \in Records
  BY QueuedFacts
<1>5. QED
  BY <1>1, <1>3, <1>4, AppendToQueue

LEMMA QueuedKept ==
  ASSUME DataShape, Kept, NEW t \in Threads, NEW m \in Managers, NEW kept, KeepsSome(m, kept),
         Queued(t, m, kept)
  PROVE  Kept'
<1> DEFINE r == record[t]
           lost == ToSet(Buffer[m]) \ ToSet(kept)
           b == <<"buffer", m>>
           i == <<"ignored", None>>
           p == <<"record", t>>
           f == Content
           h == [x \in Places |-> IF x = b THEN ToSet(kept)
                                  ELSE IF x = i THEN ignored \cup lost ELSE Content[x]]
           g == ContentOf(record', Buffer', batch', written', ignored')
<1>1. /\ r # None /\ r \in Records /\ record' = [record EXCEPT ![t] = None]
      /\ DOMAIN record = Threads /\ DOMAIN Buffer = Managers
      /\ Buffer' = [Buffer EXCEPT ![m] = Append(kept, r)] /\ ignored' = ignored \cup lost
      /\ batch' = batch /\ owner' = owner /\ written' = written
  BY RecordFacts DEF Queued, DataShape
<1>2. /\ IsInjective(kept) /\ ToSet(kept) \subseteq ToSet(Buffer[m])
      /\ r \notin ToSet(kept) /\ IsInjective(Append(kept, r))
      /\ ToSet(Append(kept, r)) = ToSet(kept) \cup {r}
  BY QueuedParts
<1>3. g = Content'
  BY DEF Content, ContentOf
<1>4. Apart(f) /\ All(f) = 1..Len(owner)
  BY DEF Kept
<1>5. /\ DOMAIN f = Places /\ DOMAIN g = Places /\ DOMAIN h = Places
      /\ b \in Places /\ i \in Places /\ p \in Places
      /\ b # i /\ p # b /\ p # i
  BY <1>3, ContentNow, ContentThen, PlaceCases
<1>6. /\ f[b] = ToSet(Buffer[m]) /\ f[i] = ignored /\ f[p] = {r} \ {None}
      /\ g[b] = ToSet(Append(kept, r)) /\ g[i] = ignored \cup lost /\ g[p] = {None} \ {None}
  BY <1>1, <1>3, ContentNow, ContentThen
<1>7. \A x \in Places \ {b, i, p} : g[x] = f[x]
  <2>1. \A u \in Threads : <<"record", u>> \notin {b, i, p} => record'[u] = record[u]
    BY <1>1
  <2>2. \A n \in Managers : <<"buffer", n>> \notin {b, i, p} => Buffer'[n] = Buffer[n]
    BY <1>1
  <2>3. <<"ignored", None>> \notin {b, i, p} => ignored' = ignored
    OBVIOUS
  <2>4. QED
    BY <1>1, <1>3, <2>1, <2>2, <2>3, ContentStays
<1>8. h[b] = ToSet(kept) /\ h[i] = ignored \cup lost /\ \A x \in Places \ {b, i} : h[x] = f[x]
  BY <1>5
<1> HIDE DEF f, g, h, b, i, p, r
<1>9. /\ lost \subseteq f[b] /\ h[b] = f[b] \ lost /\ h[i] = f[i] \cup lost
  BY <1>2, <1>6, <1>8
<1>10. /\ {r} \subseteq h[p] /\ g[p] = h[p] \ {r} /\ g[b] = h[b] \cup {r}
  BY <1>1, <1>2, <1>5, <1>6, <1>8
<1>11. \A x \in Places \ {p, b} : g[x] = h[x]
  <2>1. g[i] = h[i]
    BY <1>6, <1>8
  <2>2. QED
    BY <1>5, <1>7, <1>8, <2>1
<1> HIDE DEF lost
<1>12. Apart(h) /\ All(h) = All(f)
  <2>1. /\ DOMAIN h = DOMAIN f /\ b \in DOMAIN f /\ i \in DOMAIN f
        /\ \A x \in (DOMAIN f) \ {b, i} : h[x] = f[x]
    BY <1>5, <1>8
  <2>2. Apart(f) /\ b # i
    BY <1>4, <1>5
  <2>3. QED
    BY <1>9, <2>1, <2>2, Moved
<1>13. Apart(g) /\ All(g) = All(h)
  <2>1. DOMAIN g = DOMAIN h /\ p \in DOMAIN h /\ b \in DOMAIN h /\ p # b
        /\ \A x \in (DOMAIN h) \ {p, b} : g[x] = h[x]
    BY <1>5, <1>11
  <2>2. Apart(h)
    BY <1>12
  <2>3. QED
    BY <1>10, <2>1, <2>2, Moved
<1>14. Apart(g) /\ All(g) = 1..Len(owner')
  <2>1. owner' = owner
    BY <1>1
  <2>2. QED
    BY <1>4, <1>12, <1>13, <2>1
<1>15. Apart(Content)' /\ All(Content)' = 1..Len(owner')
  BY <1>3, <1>14 DEF Apart, All
<1>16. \A n \in Managers : IsInjective(Buffer'[n])
  BY <1>1, <1>2 DEF Kept
<1>17. QED
  BY <1>1, <1>15, <1>16 DEF Kept

LEMMA BatchTakenKept ==
  ASSUME DataShape, Kept, NEW m \in Managers, NEW p \in Threads \cup {m}, BatchTaken(p, m)
  PROVE  Kept'
<1> DEFINE b == <<"buffer", m>>
           q == <<"batch", p>>
<1>1. /\ Buffer' = [Buffer EXCEPT ![m] = <<>>] /\ batch' = [batch EXCEPT ![p] = Buffer[m]]
      /\ batch[p] = <<>> /\ record' = record /\ written' = written /\ ignored' = ignored
      /\ owner' = owner /\ DOMAIN Buffer = Managers /\ DOMAIN batch = Threads \cup Managers
      /\ p \in Threads \cup Managers
  BY DEF BatchTaken, DataShape
<1>2. ToSet(<<>>) = {} /\ IsInjective(<<>>)
  BY Nothing
<1>3. /\ Content[b] \subseteq Content[b] /\ Content'[b] = Content[b] \ Content[b]
      /\ Content'[q] = Content[q] \cup Content[b] /\ b \in Places /\ q \in Places /\ b # q
  BY <1>1, <1>2, ContentNow, ContentThen, PlaceCases
<1>4. \A x \in Places \ {b, q} : Content'[x] = Content[x]
  <2>1. /\ \A n \in Managers : <<"buffer", n>> \notin {b, q} => Buffer'[n] = Buffer[n]
        /\ \A s \in Threads \cup Managers : <<"batch", s>> \notin {b, q} => batch'[s] = batch[s]
    BY <1>1
  <2>2. QED
    BY <1>1, <2>1, ContentStays
<1> HIDE DEF b, q
<1>5. Apart(Content)' /\ All(Content)' = 1..Len(owner')
  BY <1>1, <1>3, <1>4, ContentMoved
<1>6. /\ \A n \in Managers : IsInjective(Buffer'[n])
      /\ \A s \in Threads \cup Managers : IsInjective(batch'[s])
  BY <1>1, <1>2 DEF Kept
<1>7. QED
  BY <1>1, <1>5, <1>6 DEF Kept

LEMMA BatchWrittenKept ==
  ASSUME DataShape, Kept, NEW p \in Threads \cup Managers, BatchWritten(p)
  PROVE  Kept'
<1> DEFINE b == <<"batch", p>>
           q == <<"written", None>>
<1>1. /\ batch' = [batch EXCEPT ![p] = <<>>] /\ written' = written \o batch[p]
      /\ record' = record /\ Buffer' = Buffer /\ ignored' = ignored
      /\ owner' = owner /\ DOMAIN batch = Threads \cup Managers
  BY DEF BatchWritten, DataShape
<1>2. ToSet(<<>>) = {} /\ IsInjective(<<>>)
  BY Nothing
<1>3. IsInjective(written') /\ ToSet(written') = ToSet(written) \cup ToSet(batch[p])
  <2>1. /\ written \in Seq(Records) /\ batch[p] \in Seq(Records)
        /\ IsInjective(written) /\ IsInjective(batch[p])
    BY RecordFacts DEF Kept
  <2>2. ToSet(written) \cap ToSet(batch[p]) = {}
    BY OnePlace
  <2>3. QED
    BY <1>1, <2>1, <2>2, Joined
<1>4. /\ Content[b] \subseteq Content[b] /\ Content'[b] = Content[b] \ Content[b]
      /\ Content'[q] = Content[q] \cup Content[b] /\ b \in Places /\ q \in Places /\ b # q
  BY <1>1, <1>2, <1>3, ContentNow, ContentThen, PlaceCases
<1>5. \A x \in Places \ {b, q} : Content'[x] = Content[x]
  <2>1. \A s \in Threads \cup Managers : <<"batch", s>> \notin {b, q} => batch'[s] = batch[s]
    BY <1>1
  <2>2. QED
    BY <1>1, <2>1, ContentStays
<1> HIDE DEF b, q
<1>6. Apart(Content)' /\ All(Content)' = 1..Len(owner')
  BY <1>1, <1>4, <1>5, ContentMoved
<1>7. \A s \in Threads \cup Managers : IsInjective(batch'[s])
  BY <1>1, <1>2 DEF Kept
<1>8. QED
  BY <1>1, <1>3, <1>6, <1>7 DEF Kept

LEMMA RestWrittenKept ==
  ASSUME DataShape, Kept, NEW m \in Managers, RestWritten(m)
  PROVE  Kept'
<1> DEFINE b == <<"buffer", m>>
           q == <<"written", None>>
<1>1. /\ Buffer' = [Buffer EXCEPT ![m] = <<>>] /\ written' = written \o Buffer[m]
      /\ record' = record /\ batch' = batch /\ ignored' = ignored
      /\ owner' = owner /\ DOMAIN Buffer = Managers
  BY DEF RestWritten, DataShape
<1>2. ToSet(<<>>) = {} /\ IsInjective(<<>>)
  BY Nothing
<1>3. IsInjective(written') /\ ToSet(written') = ToSet(written) \cup ToSet(Buffer[m])
  <2>1. /\ written \in Seq(Records) /\ Buffer[m] \in Seq(Records)
        /\ IsInjective(written) /\ IsInjective(Buffer[m])
    BY RecordFacts DEF Kept
  <2>2. ToSet(written) \cap ToSet(Buffer[m]) = {}
    BY OnePlace
  <2>3. QED
    BY <1>1, <2>1, <2>2, Joined
<1>4. /\ Content[b] \subseteq Content[b] /\ Content'[b] = Content[b] \ Content[b]
      /\ Content'[q] = Content[q] \cup Content[b] /\ b \in Places /\ q \in Places /\ b # q
  BY <1>1, <1>2, <1>3, ContentNow, ContentThen, PlaceCases
<1>5. \A x \in Places \ {b, q} : Content'[x] = Content[x]
  <2>1. \A n \in Managers : <<"buffer", n>> \notin {b, q} => Buffer'[n] = Buffer[n]
    BY <1>1
  <2>2. QED
    BY <1>1, <2>1, ContentStays
<1> HIDE DEF b, q
<1>6. Apart(Content)' /\ All(Content)' = 1..Len(owner')
  BY <1>1, <1>4, <1>5, ContentMoved
<1>7. \A n \in Managers : IsInjective(Buffer'[n])
  BY <1>1, <1>2 DEF Kept
<1>8. QED
  BY <1>1, <1>3, <1>6, <1>7 DEF Kept

LEMMA KeptKept ==
  ASSUME DataShape, Kept, DataStep
  PROVE  Kept'
<1>1. CASE Same
  <2>1. Content' = Content
    BY <1>1 DEF Same, Content, ContentOf
  <2>2. QED
    BY <1>1, <2>1 DEF Same, Kept, Apart, All
<1>2. QED
  BY <1>1, StepCases, DisplayedKept, NotTakenKept, QueuedKept, BatchTakenKept, BatchWrittenKept,
     RestWrittenKept

-----------------------------------------------------------------------------
(* What managers have taken stays theirs, and in the order in which they took it. *)

LEMMA TakenKept ==
  ASSUME DataShape, Kept, Taken, DataStep, Known \subseteq Known'
  PROVE  Taken'
<1>1. /\ \A m \in Managers :
           /\ IsInjective(accepted[m])
           /\ ToSet(accepted[m]) \subseteq 1..Len(owner)
           /\ ToSet(Buffer[m]) \cup ToSet(batch[m]) \subseteq ToSet(accepted[m])
           /\ accepted[m] # <<>> => m \in Known
           /\ \A t \in Threads : record[t] \notin ToSet(accepted[m])
           /\ \A n \in Managers : n # m => ToSet(accepted[m]) \cap ToSet(accepted[n]) = {}
      /\ \A t \in Threads : \A r \in ToSet(batch[t]) : \E d \in drained : r \in ToSet(accepted[d])
  BY DEF Taken
<1>2. /\ \A t \in Threads : t \notin Managers
      /\ DOMAIN record = Threads /\ DOMAIN Buffer = Managers /\ DOMAIN accepted = Managers
      /\ DOMAIN batch = Threads \cup Managers /\ drained \subseteq Managers
  BY ParameterFacts DEF DataShape
<1>3. \A m \in Managers : None \notin ToSet(accepted[m])
  BY RecordFacts, SeqRange
<1>4. ToSet(<<>>) = {}
  BY Nothing
<1>5. CASE Same
  BY <1>1, <1>5 DEF Same, Taken
<1>6. ASSUME NEW t \in Threads, Displayed(t) PROVE Taken'
  <2>1. Len(owner) \in Nat /\ Len(owner') = Len(owner) + 1
    BY <1>6, AppendProperties, LenProperties DEF Displayed, DataShape
  <2>2. 1..Len(owner) \subseteq 1..Len(owner') /\ Len(owner) + 1 \notin 1..Len(owner)
    BY <2>1
  <2>3. \A u \in Threads : \A m \in Managers : record'[u] \notin ToSet(accepted[m])
    BY <1>1, <1>2, <1>6, <2>2 DEF Displayed
  <2>4. /\ Buffer' = Buffer /\ batch' = batch /\ accepted' = accepted /\ drained' = drained
    BY <1>6 DEF Displayed
  <2>5. \A m \in Managers : ToSet(accepted[m]) \subseteq 1..Len(owner')
    BY <1>1, <2>2
  <2>6. QED
    BY <1>1, <2>3, <2>4, <2>5 DEF Taken
<1>7. ASSUME NEW t \in Threads, NotTaken(t) PROVE Taken'
  <2>1. \A u \in Threads : \A m \in Managers : record'[u] \notin ToSet(accepted[m])
    BY <1>1, <1>2, <1>3, <1>7 DEF NotTaken
  <2>2. Buffer' = Buffer /\ batch' = batch /\ accepted' = accepted /\ drained' = drained /\ owner' = owner
    BY <1>7 DEF NotTaken
  <2>3. QED
    BY <1>1, <2>1, <2>2 DEF Taken
<1>8. ASSUME NEW t \in Threads, NEW m \in Managers, NEW kept, KeepsSome(m, kept), Queued(t, m, kept)
      PROVE  Taken'
  <2> DEFINE r == record[t]
             a == Append(accepted[m], r)
             b == Append(kept, r)
  <2>1. /\ r # None /\ r \in Records /\ m \in Known /\ r \in 1..Len(owner)
        /\ accepted' = [accepted EXCEPT ![m] = a] /\ Buffer' = [Buffer EXCEPT ![m] = b]
        /\ record' = [record EXCEPT ![t] = None]
        /\ batch' = batch /\ drained' = drained /\ owner' = owner
    BY <1>8, RecordFacts DEF Queued
  <2>2. IsInjective(a) /\ ToSet(a) = ToSet(accepted[m]) \cup {r}
    BY <1>1, <2>1, RecordFacts, AppendToQueue
  <2>3. ToSet(b) \subseteq ToSet(Buffer[m]) \cup {r}
    BY <1>8, QueuedParts
  <2>4. \A u \in Threads \ {t} : record[u] # r
    BY <2>1, OnePlace
  <2> HIDE DEF a, b
  <2>5. \A u \in Threads : record'[u] # r /\ \A n \in Managers : record'[u] \notin ToSet(accepted[n])
    BY <1>1, <1>2, <1>3, <2>1, <2>4
  <2>6. \A n \in Managers : r \notin ToSet(accepted[n])
    BY <1>1 DEF r
  <2>7. ASSUME NEW n \in Managers
        PROVE  /\ IsInjective(accepted'[n])
               /\ ToSet(accepted'[n]) = IF n = m THEN ToSet(accepted[n]) \cup {r} ELSE ToSet(accepted[n])
               /\ ToSet(accepted'[n]) \subseteq 1..Len(owner)
               /\ ToSet(Buffer'[n]) \cup ToSet(batch[n]) \subseteq ToSet(accepted'[n])
               /\ accepted'[n] # <<>> => n \in Known
    BY <1>1, <1>2, <2>1, <2>2, <2>3
  <2>8. \A n, l \in Managers : l # n => ToSet(accepted'[n]) \cap ToSet(accepted'[l]) = {}
    <3>1. \A n \in Managers : /\ ToSet(accepted'[n]) \ {r} = ToSet(accepted[n])
                              /\ r \in ToSet(accepted'[n]) => n = m
      BY <2>6, <2>7
    <3>2. \A n, l \in Managers : l # n => ToSet(accepted[n]) \cap ToSet(accepted[l]) = {}
      BY <1>1
    <3>3. QED
      BY <3>1, <3>2
  <2>9. \A u \in Threads : \A n \in Managers : record'[u] \notin ToSet(accepted'[n])
    BY <2>5, <2>7
  <2>10. \A u \in Threads : \A s \in ToSet(batch[u]) : \E d \in drained : s \in ToSet(accepted'[d])
    <3>1. \A n \in Managers : ToSet(accepted[n]) \subseteq ToSet(accepted'[n])
      BY <2>7
    <3>2. \A u \in Threads : \A s \in ToSet(batch[u]) : \E d \in drained : s \in ToSet(accepted[d])
      BY <1>1
    <3>3. drained \subseteq Managers
      BY <1>2
    <3>4. QED
      BY <3>1, <3>2, <3>3
  <2>11. QED
    BY <2>1, <2>7, <2>8, <2>9, <2>10 DEF Taken
<1>9. ASSUME NEW m \in Managers, NEW p \in Threads \cup {m}, BatchTaken(p, m) PROVE Taken'
  <2>1. /\ accepted' = accepted /\ owner' = owner /\ record' = record
        /\ Buffer' = [Buffer EXCEPT ![m] = <<>>] /\ batch' = [batch EXCEPT ![p] = Buffer[m]]
        /\ drained' = IF p = m THEN drained ELSE drained \cup {m}
    BY <1>9 DEF BatchTaken
  <2>2. \A n \in Managers : ToSet(Buffer'[n]) \cup ToSet(batch'[n]) \subseteq ToSet(accepted[n])
    BY <1>1, <1>2, <1>4, <2>1
  <2>3. \A u \in Threads : \A r \in ToSet(batch'[u]) : \E d \in drained' : r \in ToSet(accepted[d])
    BY <1>1, <1>2, <2>1
  <2>4. QED
    BY <1>1, <2>1, <2>2, <2>3 DEF Taken
<1>10. ASSUME NEW p \in Threads \cup Managers, BatchWritten(p) PROVE Taken'
  BY <1>1, <1>2, <1>4, <1>10 DEF BatchWritten, Taken
<1>11. ASSUME NEW m \in Managers, RestWritten(m) PROVE Taken'
  BY <1>1, <1>2, <1>4, <1>11 DEF RestWritten, Taken
<1>12. QED
  BY <1>5, <1>6, <1>7, <1>8, <1>9, <1>10, <1>11, StepCases

OrderedOf(m) ==
  /\ Sorted(written, accepted[m])
  /\ Sorted(batch[m], accepted[m])
  /\ Sorted(Buffer[m], accepted[m])
  /\ Precede(ToSet(written), ToSet(batch[m]), accepted[m])
  /\ Precede(ToSet(written), ToSet(Buffer[m]), accepted[m])
  /\ Precede(ToSet(batch[m]), ToSet(Buffer[m]), accepted[m])

(* Records that a manager has not taken are written. *)
LEMMA OthersWritten ==
  ASSUME DataShape, NEW m \in Managers, OrderedOf(m), NEW s \in Seq(Records),
         ToSet(s) \cap ToSet(accepted[m]) = {}, ToSet(written \o s) = ToSet(written) \cup ToSet(s)
  PROVE  /\ Sorted(written \o s, accepted[m])
         /\ Precede(ToSet(written \o s), ToSet(batch[m]), accepted[m])
         /\ Precede(ToSet(written \o s), ToSet(Buffer[m]), accepted[m])
<1>1. /\ Sorted(s, accepted[m]) /\ Precede(ToSet(written), ToSet(s), accepted[m])
      /\ Precede(ToSet(s), ToSet(batch[m]), accepted[m])
      /\ Precede(ToSet(s), ToSet(Buffer[m]), accepted[m])
  BY SortedOthers
<1>2. Sorted(written \o s, accepted[m])
  BY <1>1, SortedJoined, RecordFacts DEF OrderedOf
<1>3. QED
  BY <1>1, <1>2, PrecedeUnion DEF OrderedOf

LEMMA OrderedNotTaken ==
  ASSUME DataShape, Kept, Taken, NEW m \in Managers, OrderedOf(m), NEW t \in Threads, NotTaken(t)
  PROVE  OrderedOf(m)'
<1>1. /\ Buffer' = Buffer /\ batch' = batch /\ accepted' = accepted
      /\ record[t] \in Records /\ record[t] # None /\ record[t] \notin ToSet(accepted[m])
      /\ written \in Seq(Records) /\ IsInjective(written) /\ record[t] \notin ToSet(written)
  BY RecordFacts, OnePlace DEF NotTaken, Taken, Kept
<1>2. CASE written' = written
  BY <1>1, <1>2 DEF OrderedOf
<1>3. CASE written' = Append(written, record[t])
  <2> DEFINE s == <<record[t]>>
  <2>1. s \in Seq(Records) /\ ToSet(s) = {record[t]} /\ IsInjective(s)
    <3>1. s \in Seq(Records) /\ Len(s) = 1 /\ DOMAIN s = {1} /\ s[1] = record[t]
      BY <1>1
    <3>2. QED
      BY <3>1 DEF ToSet, IsInjective
  <2>2. written' = written \o s
    BY <1>1, <1>3, <2>1
  <2> HIDE DEF s
  <2>3. ToSet(s) \cap ToSet(written) = {} /\ ToSet(s) \cap ToSet(accepted[m]) = {}
    BY <1>1, <2>1
  <2>4. ToSet(written \o s) = ToSet(written) \cup ToSet(s)
    BY <1>1, <2>1, <2>3, Joined
  <2>5. /\ Sorted(written', accepted[m])
        /\ Precede(ToSet(written'), ToSet(batch[m]), accepted[m])
        /\ Precede(ToSet(written'), ToSet(Buffer[m]), accepted[m])
    BY <2>1, <2>2, <2>3, <2>4, OthersWritten
  <2>6. QED
    BY <1>1, <2>5 DEF OrderedOf
<1>4. QED
  BY <1>2, <1>3 DEF NotTaken

LEMMA OrderedQueued ==
  ASSUME DataShape, Kept, Taken, NEW n \in Managers, OrderedOf(n), NEW t \in Threads,
         NEW m \in Managers, NEW kept, KeepsSome(m, kept), Queued(t, m, kept)
  PROVE  OrderedOf(n)'
<1>1. /\ Buffer' = [Buffer EXCEPT ![m] = Append(kept, record[t])]
      /\ accepted' = [accepted EXCEPT ![m] = Append(@, record[t])]
      /\ batch' = batch /\ written' = written
      /\ DOMAIN Buffer = Managers /\ DOMAIN accepted = Managers
  BY DEF Queued, DataShape
<1>2. CASE n # m
  BY <1>1, <1>2 DEF OrderedOf
<1>3. CASE n = m
  <2> DEFINE r == record[t]
             a == accepted[m]
             b == batch[m]
             T == ToSet(Buffer[m])
             U == ToSet(kept)
             W == ToSet(written)
             B == ToSet(b)
  <2>1. r \in Records /\ a \in Seq(Records) /\ kept \in Seq(Records)
    BY RecordFacts, QueuedFacts
  <2>2. r \notin W /\ r \notin B /\ r \notin ToSet(a) /\ r \notin U
    BY OnePlace, QueuedParts DEF Taken, Queued
  <2>3. U \subseteq T /\ ToSet(Append(kept, r)) = U \cup {r}
    BY QueuedParts
  <2>4. /\ Sorted(written, a) /\ Sorted(b, a) /\ Sorted(Buffer[m], a)
        /\ Precede(W, B, a) /\ Precede(W, T, a) /\ Precede(B, T, a)
    BY <1>3 DEF OrderedOf
  <2>5. Sorted(kept, a)
    <3>1. Buffer[m] \in Seq(Records) /\ IsInjective(Buffer[m])
      BY RecordFacts DEF Kept
    <3>2. QED
      BY <2>4, <3>1, WithoutFirst DEF KeepsSome
  <2>6. Precede(W, U, a) /\ Precede(B, U, a)
    BY <2>3, <2>4 DEF Precede
  <2> HIDE DEF r, a, b, T, U, W, B
  <2>7. Sorted(written, Append(a, r)) /\ Sorted(b, Append(a, r))
    BY <2>1, <2>2, <2>4, SortedLonger DEF W, B
  <2>8. Precede(W, B, Append(a, r))
    BY <2>1, <2>2, <2>4, SortedLonger DEF W
  <2>9. Precede(W, U \cup {r}, Append(a, r)) /\ Precede(B, U \cup {r}, Append(a, r))
    BY <2>1, <2>2, <2>4, <2>6, SortedLonger DEF W, B
  <2>10. Sorted(Append(kept, r), Append(a, r))
    BY <2>1, <2>2, <2>5, SortedAppended DEF U
  <2>11. accepted'[n] = Append(a, r) /\ Buffer'[n] = Append(kept, r) /\ batch'[n] = b /\ written' = written
    BY <1>1, <1>3 DEF a, b, r
  <2>12. QED
    BY <2>3, <2>7, <2>8, <2>9, <2>10, <2>11 DEF OrderedOf, W, B
<1>4. QED
  BY <1>2, <1>3

LEMMA OrderedWritten ==
  ASSUME DataShape, Kept, Taken, NEW n \in Managers, n \notin drained, OrderedOf(n),
         NEW p \in Threads \cup Managers, BatchWritten(p)
  PROVE  OrderedOf(n)'
<1>1. /\ written' = written \o batch[p] /\ batch' = [batch EXCEPT ![p] = <<>>]
      /\ Buffer' = Buffer /\ accepted' = accepted /\ DOMAIN batch = Threads \cup Managers
  BY DEF BatchWritten, DataShape
<1>2. /\ written \in Seq(Records) /\ batch[p] \in Seq(Records)
      /\ ToSet(written \o batch[p]) = ToSet(written) \cup ToSet(batch[p])
  <2>1. /\ written \in Seq(Records) /\ batch[p] \in Seq(Records)
        /\ IsInjective(written) /\ IsInjective(batch[p])
    BY RecordFacts DEF Kept
  <2>2. ToSet(written) \cap ToSet(batch[p]) = {}
    BY OnePlace
  <2>3. QED
    BY <2>1, <2>2, Joined
<1>3. CASE p = n
  <2>1. Sorted(written \o batch[n], accepted[n])
    BY <1>2, <1>3, RecordFacts, SortedJoined DEF OrderedOf
  <2>2. Precede(ToSet(written) \cup ToSet(batch[n]), ToSet(Buffer[n]), accepted[n])
    BY PrecedeUnion DEF OrderedOf
  <2>3. batch'[n] = <<>> /\ ToSet(<<>>) = {} /\ Sorted(<<>>, accepted[n])
    BY <1>1, <1>3, Nothing
  <2>4. \A T : Precede(T, {}, accepted[n]) /\ Precede({}, T, accepted[n])
    BY DEF Precede
  <2>5. QED
    BY <1>1, <1>2, <1>3, <2>1, <2>2, <2>3, <2>4 DEF OrderedOf
<1>4. CASE p # n
  <2>1. ToSet(batch[p]) \cap ToSet(accepted[n]) = {}
    <3>1. CASE p \in Managers
      BY <1>4, <3>1 DEF Taken
    <3>2. CASE p \in Threads
      <4>1. ASSUME NEW r \in ToSet(batch[p]) PROVE r \notin ToSet(accepted[n])
        <5>1. PICK d \in drained : r \in ToSet(accepted[d])
          BY <3>2 DEF Taken
        <5>2. d \in Managers /\ d # n
          BY DEF DataShape
        <5>3. QED
          BY <5>1, <5>2 DEF Taken
      <4>2. QED
        BY <4>1
    <3>3. QED
      BY <3>1, <3>2
  <2>2. /\ Sorted(written', accepted[n])
        /\ Precede(ToSet(written'), ToSet(batch[n]), accepted[n])
        /\ Precede(ToSet(written'), ToSet(Buffer[n]), accepted[n])
    BY <1>1, <1>2, <2>1, OthersWritten
  <2>3. batch'[n] = batch[n]
    BY <1>1, <1>4
  <2>4. QED
    BY <1>1, <2>2, <2>3 DEF OrderedOf
<1>5. QED
  BY <1>3, <1>4

LEMMA OrderedRest ==
  ASSUME DataShape, Kept, Taken, NEW n \in Managers, OrderedOf(n), NEW m \in Managers, RestWritten(m)
  PROVE  OrderedOf(n)'
<1>1. /\ written' = written \o Buffer[m] /\ Buffer' = [Buffer EXCEPT ![m] = <<>>]
      /\ batch' = batch /\ accepted' = accepted /\ DOMAIN Buffer = Managers /\ batch[m] = <<>>
  BY DEF RestWritten, DataShape
<1>2. /\ written \in Seq(Records) /\ Buffer[m] \in Seq(Records)
      /\ ToSet(written \o Buffer[m]) = ToSet(written) \cup ToSet(Buffer[m])
  <2>1. /\ written \in Seq(Records) /\ Buffer[m] \in Seq(Records)
        /\ IsInjective(written) /\ IsInjective(Buffer[m])
    BY RecordFacts DEF Kept
  <2>2. ToSet(written) \cap ToSet(Buffer[m]) = {}
    BY OnePlace
  <2>3. QED
    BY <2>1, <2>2, Joined
<1>3. CASE m = n
  <2>1. Sorted(written \o Buffer[n], accepted[n])
    BY <1>2, <1>3, RecordFacts, SortedJoined DEF OrderedOf
  <2>2. Buffer'[n] = <<>> /\ batch'[n] = <<>> /\ ToSet(<<>>) = {} /\ Sorted(<<>>, accepted[n])
    BY <1>1, <1>3, Nothing
  <2>3. \A T : Precede(T, {}, accepted[n]) /\ Precede({}, T, accepted[n])
    BY DEF Precede
  <2>4. QED
    BY <1>1, <1>3, <2>1, <2>2, <2>3 DEF OrderedOf
<1>4. CASE m # n
  <2>1. ToSet(Buffer[m]) \cap ToSet(accepted[n]) = {}
    BY <1>4 DEF Taken
  <2>2. /\ Sorted(written', accepted[n])
        /\ Precede(ToSet(written'), ToSet(batch[n]), accepted[n])
        /\ Precede(ToSet(written'), ToSet(Buffer[n]), accepted[n])
    BY <1>1, <1>2, <2>1, OthersWritten
  <2>3. Buffer'[n] = Buffer[n]
    BY <1>1, <1>4
  <2>4. QED
    BY <1>1, <2>2, <2>3 DEF OrderedOf
<1>5. QED
  BY <1>3, <1>4

LEMMA OrderedTaken ==
  ASSUME DataShape, NEW n \in Managers, n \notin drained', OrderedOf(n), NEW m \in Managers,
         NEW p \in Threads \cup {m}, BatchTaken(p, m)
  PROVE  OrderedOf(n)'
<1>1. /\ Buffer' = [Buffer EXCEPT ![m] = <<>>] /\ batch' = [batch EXCEPT ![p] = Buffer[m]]
      /\ written' = written /\ accepted' = accepted /\ batch[p] = <<>>
      /\ DOMAIN Buffer = Managers /\ DOMAIN batch = Threads \cup Managers
      /\ p = m \/ m \in drained'
  BY ParameterFacts DEF BatchTaken, DataShape
<1>2. CASE n # m
  <2>1. n # p
    BY <1>1, <1>2, ParameterFacts
  <2>2. QED
    BY <1>1, <1>2, <2>1 DEF OrderedOf
<1>3. CASE n = m
  <2>1. Buffer'[n] = <<>> /\ batch'[n] = Buffer[n]
    BY <1>1, <1>3
  <2>2. ToSet(<<>>) = {} /\ Sorted(<<>>, accepted[n])
    BY Nothing
  <2>3. \A T : Precede(T, {}, accepted[n]) /\ Precede({}, T, accepted[n])
    BY DEF Precede
  <2>4. QED
    BY <1>1, <2>1, <2>2, <2>3 DEF OrderedOf
<1>4. QED
  BY <1>2, <1>3

LEMMA OrderedKept ==
  ASSUME DataShape, Kept, Taken, Ordered, DataStep
  PROVE  Ordered'
<1>1. SUFFICES ASSUME NEW n \in Managers, n \notin drained' PROVE OrderedOf(n)'
  BY DEF Ordered, OrderedOf
<1>2. drained \subseteq drained'
  BY StepCases DEF Same, Displayed, NotTaken, Queued, BatchTaken, BatchWritten, RestWritten
<1>3. n \notin drained /\ OrderedOf(n)
  BY <1>1, <1>2 DEF Ordered, OrderedOf
<1>4. CASE Same \/ \E t \in Threads : Displayed(t)
  BY <1>3, <1>4 DEF Same, Displayed, OrderedOf
<1>5. QED
  BY <1>1, <1>3, <1>4, StepCases, OrderedNotTaken, OrderedQueued, OrderedTaken, OrderedWritten,
     OrderedRest

-----------------------------------------------------------------------------
(* What only grows, and why records are ignored. *)

LEMMA Grows ==
  ASSUME DataShape, DataStep
  PROVE  /\ drained \subseteq drained'
         /\ ToSet(written) \cup ignored \subseteq ToSet(written') \cup ignored'
         /\ \A m \in Managers : ToSet(accepted[m]) \subseteq ToSet(accepted'[m])
<1>1. drained \subseteq drained'
  BY StepCases DEF Same, Displayed, NotTaken, Queued, BatchTaken, BatchWritten, RestWritten
<1>2. \A s, q \in Seq(Records) : ToSet(s) \subseteq ToSet(s \o q)
  <2>1. ASSUME NEW s \in Seq(Records), NEW q \in Seq(Records), NEW i \in DOMAIN s
        PROVE  i \in DOMAIN (s \o q) /\ (s \o q)[i] = s[i]
    BY ConcatProperties, LenProperties
  <2>2. QED
    BY <2>1 DEF ToSet
<1>3. \A s \in Seq(Records), r \in Records : ToSet(s) \subseteq ToSet(Append(s, r))
  <2>1. ASSUME NEW s \in Seq(Records), NEW r \in Records, NEW i \in DOMAIN s
        PROVE  i \in DOMAIN Append(s, r) /\ Append(s, r)[i] = s[i]
    BY AppendProperties, LenProperties
  <2>2. QED
    BY <2>1 DEF ToSet
<1>4. ToSet(written) \subseteq ToSet(written') /\ ignored \subseteq ignored'
  BY <1>2, <1>3, StepCases, RecordFacts
     DEF Same, Displayed, NotTaken, Queued, BatchTaken, BatchWritten, RestWritten
<1>5. ASSUME NEW t \in Threads, NEW n \in Managers, NEW kept, Queued(t, n, kept)
      PROVE  \A m \in Managers : ToSet(accepted[m]) \subseteq ToSet(accepted'[m])
  <2>1. /\ accepted[n] \in Seq(Records) /\ record[t] \in Records /\ DOMAIN accepted = Managers
        /\ accepted' = [accepted EXCEPT ![n] = Append(@, record[t])]
    BY <1>5, RecordFacts DEF Queued, DataShape
  <2>2. QED
    BY <1>3, <2>1
<1>6. \A m \in Managers : ToSet(accepted[m]) \subseteq ToSet(accepted'[m])
  BY <1>5, StepCases DEF Same, Displayed, NotTaken, BatchTaken, BatchWritten, RestWritten
<1>7. QED
  BY <1>1, <1>4, <1>6

LEMMA ConfigStays ==
  ASSUME [Next]_vars
  PROVE  kind' = kind /\ policy' = policy /\ QueueLimit' = QueueLimit
<1>1. UNCHANGED config
  <2>1. ASSUME NEW t \in Threads, Proceed(t) PROVE UNCHANGED config
    BY <2>1 DEF Proceed, Add, AddBackend, TestStopping, PushWithSpace, PushDropOldest, Enqueue,
       PushDropNew, PushDrains, PushStopped, DrainTakes, DrainWrites, DrainEnds, DrainFindsNothing,
       FlushResets, FlushDrains, FlushFindsNothing, FlushReturns, RemoveDrains, RemoveBackend,
       ForgetInstance
  <2>2. ASSUME NEW m \in Managers, ManagementThread(m) \/ Destructor(m) PROVE UNCHANGED config
    BY <2>2 DEF ManagementThread, Destructor, WorkerTests, WorkerBlocks, WorkerTakes, WorkerWrites,
       WorkerFinishes, WorkerStops, Destroy, DestroyJoined
  <2>3. QED
    BY <2>1, <2>2 DEF Next, Display, DisplaySync, Flush, Freeze, Close, vars
<1>2. QED
  BY <1>1 DEF config

LEMMA StopsStay ==
  ASSUME QueueShape, [Next]_vars
  PROVE  \A m \in Managers : StopRequested[m] => StopRequested'[m]
<1>1. ASSUME NEW t \in Threads, Proceed(t)
      PROVE  \A m \in Managers : StopRequested[m] => StopRequested'[m]
  <2>1. CASE RemoveBackend(t)
    BY <2>1 DEF RemoveBackend, QueueShape
  <2>2. CASE ~RemoveBackend(t)
    <3>1. StopRequested' = StopRequested
      BY <1>1, <2>2 DEF Proceed, Add, AddBackend, TestStopping, PushWithSpace, PushDropOldest,
         Enqueue,
         PushDropNew, PushDrains, PushStopped, DrainTakes, DrainWrites, DrainEnds,
         DrainFindsNothing,
         FlushResets, FlushDrains, FlushFindsNothing, FlushReturns, RemoveDrains,
         ForgetInstance, queues
    <3>2. QED
      BY <3>1
  <2>3. QED
    BY <2>1, <2>2
<1>2. ASSUME NEW n \in Managers, ManagementThread(n) \/ Destructor(n)
      PROVE  \A m \in Managers : StopRequested[m] => StopRequested'[m]
  BY <1>2 DEF ManagementThread, Destructor, WorkerTests, WorkerBlocks, WorkerTakes, WorkerWrites,
     WorkerFinishes, WorkerStops, Destroy, DestroyJoined, queues, QueueShape
<1>3. CASE Close
  BY <1>3 DEF Close, QueueShape
<1>4. CASE \/ \E t \in Threads : Display(t) \/ DisplaySync(t) \/ Flush(t) \/ Freeze(t)
           \/ UNCHANGED vars
  BY <1>4 DEF Display, DisplaySync, Flush, Freeze, vars, queues
<1>5. QED
  BY <1>1, <1>2, <1>3, <1>4 DEF Next

LEMMA KnownGrows ==
  ASSUME CallShape, [Next]_vars
  PROVE  Known \subseteq Known'
<1>1. created' = created \/ created' = created + 1
  <2>1. ASSUME NEW t \in Threads, Proceed(t) PROVE created' = created \/ created' = created + 1
    BY <2>1 DEF Proceed, Add, AddBackend, TestStopping, PushWithSpace, PushDropOldest, Enqueue,
       PushDropNew, PushDrains, PushStopped, DrainTakes, DrainWrites, DrainEnds, DrainFindsNothing,
       FlushResets, FlushDrains, FlushFindsNothing, FlushReturns, RemoveDrains, RemoveBackend,
       ForgetInstance, factory
  <2>2. ASSUME NEW m \in Managers, ManagementThread(m) \/ Destructor(m) PROVE created' = created
    BY <2>2 DEF ManagementThread, Destructor, WorkerTests, WorkerBlocks, WorkerTakes, WorkerWrites,
       WorkerFinishes, WorkerStops, Destroy, DestroyJoined, factory
  <2>3. QED
    BY <2>1, <2>2 DEF Next, Display, DisplaySync, Flush, Freeze, Close, vars, factory
<1>2. created \in 0..Cardinality(Managers) /\ Cardinality(Managers) \in Nat
  BY ParameterFacts DEF CallShape
<1>3. QED
  BY <1>1, <1>2 DEF Known

LEMMA IgnoredKept ==
  ASSUME Base, DataShape, Ignored, [Next]_vars
  PROVE  Ignored'
<1>1. QueueShape /\ CallShape /\ Control
  BY DEF Base
<1>2. kind' = kind /\ policy' = policy /\ \A m \in Managers : StopRequested[m] => StopRequested'[m]
  BY <1>1, ConfigStays, StopsStay
<1>3. StopRequested \in [Managers -> BOOLEAN] /\ Base'
  BY <1>1, NextControl DEF QueueShape
<1>4. StopRequested' \in [Managers -> BOOLEAN]
  BY <1>3 DEF Base, QueueShape
<1>5. TRUE \in {StopRequested[m] : m \in Managers} => TRUE \in {StopRequested'[m] : m \in Managers}
  BY <1>2, <1>3, <1>4
<1>6. SUFFICES \/ ignored' = ignored
               \/ IsConsole /\ policy # "block"
               \/ IsConsole /\ TRUE \in {StopRequested[m] : m \in Managers}
  BY <1>2, <1>5 DEF Ignored, IsConsole
<1>7. ASSUME NEW t \in Threads, Proceed(t)
      PROVE  \/ ignored' = ignored
             \/ IsConsole /\ policy # "block"
             \/ IsConsole /\ TRUE \in {StopRequested[m] : m \in Managers}
  <2>1. CASE TestStopping(t)
    <3>1. CASE IsConsole
      <4>1. Manager[t] # None /\ Manager[t] \in Managers
        <5>1. ControlOf(t) /\ Manager[t] \in Known /\ \A m \in Known : m # None => m \in Managers
          BY <1>1, CallFacts DEF CallShape
        <5>2. QED
          BY <2>1, <3>1, <5>1 DEF TestStopping, ControlOf
      <4>2. ignored' = ignored \/ StopRequested[Manager[t]]
        BY <2>1, <3>1, <4>1 DEF TestStopping, Target
      <4>3. QED
        BY <1>3, <3>1, <4>1, <4>2
    <3>2. CASE ~IsConsole
      BY <2>1, <3>2 DEF TestStopping, NotAccepted
    <3>3. QED
      BY <3>1, <3>2
  <2>2. CASE PushWithSpace(t)
    BY <2>2 DEF PushWithSpace, Enqueue
  <2>3. CASE PushDropOldest(t) \/ PushDropNew(t)
    BY <2>3 DEF PushDropOldest, PushDropNew
  <2>4. CASE PushStopped(t)
    <3>1. ~IsConsole
      <4>1. ControlOf(t)
        BY <1>1, CallFacts
      <4>2. QED
        BY <2>4, <4>1 DEF PushStopped, ControlOf
    <3>2. QED
      BY <2>4, <3>1 DEF PushStopped, NotAccepted
  <2>5. QED
    BY <1>7, <2>1, <2>2, <2>3, <2>4 DEF Proceed, Add, AddBackend, PushDrains, DrainTakes,
       DrainWrites,
       DrainEnds, DrainFindsNothing, FlushResets, FlushDrains, FlushFindsNothing, FlushReturns,
       RemoveDrains, RemoveBackend, ForgetInstance, history
<1>8. ASSUME NEW m \in Managers, ManagementThread(m) \/ Destructor(m) PROVE ignored' = ignored
  BY <1>8 DEF ManagementThread, Destructor, WorkerTests, WorkerBlocks, WorkerTakes, WorkerWrites,
     WorkerFinishes, WorkerStops, Destroy, DestroyJoined, history
<1>9. QED
  BY <1>7, <1>8 DEF Next, Display, DisplaySync, Flush, Freeze, Close, vars, history

LEMMA FlushesKept ==
  ASSUME CallShape, Flushes, [Next]_vars
  PROVE  Flushes'
<1> DEFINE F == {t \in Threads : frozen[t]}
           G == {t \in Threads : frozen'[t]}
<1>1. MaxFlushes \in Nat /\ IsFiniteSet(Threads)
  BY QueueAssumption
<1>2. Cardinality(F) \in Nat /\ IsFiniteSet(F) /\ IsFiniteSet(G) /\ Cardinality(G) \in Nat
  BY <1>1, FS_Subset, FS_CardinalityType
<1>3. CASE flushes' = flushes /\ frozen' = frozen
  BY <1>3 DEF Flushes
<1>4. ASSUME NEW t \in Threads, Flush(t) PROVE Flushes'
  <2>1. flushes < MaxFlushes /\ flushes' = flushes + 1 /\ frozen' = frozen
    BY <1>4 DEF Flush, backends
  <2>2. G = F /\ flushes \in Nat
    BY <2>1 DEF Flushes
  <2> HIDE DEF F, G
  <2>3. flushes' \in Nat /\ flushes' <= MaxFlushes + Cardinality(G)
    BY <1>1, <1>2, <2>1, <2>2
  <2>4. QED
    BY <2>3 DEF Flushes, G
<1>5. ASSUME NEW t \in Threads, Freeze(t) PROVE Flushes'
  <2>1. /\ ~frozen[t] /\ frozen' = [frozen EXCEPT ![t] = TRUE] /\ DOMAIN frozen = Threads
        /\ flushes' = flushes \/ flushes' = flushes + 1
    BY <1>5 DEF Freeze, CallShape
  <2>2. G = F \cup {t} /\ t \notin F
    BY <2>1
  <2>3. flushes \in Nat /\ flushes <= MaxFlushes + Cardinality(F)
    BY DEF Flushes
  <2> HIDE DEF F, G
  <2>4. Cardinality(G) = Cardinality(F) + 1
    BY <1>2, <2>2, FS_AddElement
  <2>5. flushes' \in Nat /\ flushes' <= MaxFlushes + Cardinality(G)
    BY <1>1, <1>2, <2>1, <2>3, <2>4
  <2>6. QED
    BY <2>5 DEF Flushes, G
<1>6. ASSUME NEW t \in Threads, Proceed(t) PROVE flushes' = flushes /\ frozen' = frozen
  BY <1>6 DEF Proceed, Add, AddBackend, TestStopping, PushWithSpace, PushDropOldest, Enqueue,
     PushDropNew, PushDrains, PushStopped, DrainTakes, DrainWrites, DrainEnds, DrainFindsNothing,
     FlushResets, FlushDrains, FlushFindsNothing, FlushReturns, RemoveDrains, RemoveBackend,
     ForgetInstance, backends
<1>7. ASSUME NEW m \in Managers, ManagementThread(m) \/ Destructor(m)
      PROVE  flushes' = flushes /\ frozen' = frozen
  BY <1>7 DEF ManagementThread, Destructor, WorkerTests, WorkerBlocks, WorkerTakes, WorkerWrites,
     WorkerFinishes, WorkerStops, Destroy, DestroyJoined, backends
<1>8. QED
  BY <1>3, <1>4, <1>5, <1>6, <1>7 DEF Next, Display, DisplaySync, Close, vars, backends

-----------------------------------------------------------------------------
(* What a flush waits for, and when it returns. *)

FlushesOn(t) ==
  /\ pending'[t] = pending[t]
  /\ pc[t] \in Flushing => pc'[t] \in Flushing /\ manager'[t] = manager[t]
  /\ pc'[t] = "flushed" =>
       \/ pc[t] = "flushed"
       \/ pc[t] \in Flushing /\ (manager[t] \in drained \/ StopRequested[manager[t]])
       \/ pc[t] \in Flushing /\ Same /\ Buffer[manager[t]] = <<>> /\ batch[manager[t]] = <<>>

FlushBegins(t) ==
  /\ pc'[t] # "flushed"
  /\ \/ pending'[t] = {}
     \/ /\ pc'[t] = "flush" /\ manager'[t] \in Managers
        /\ pending'[t] \subseteq ToSet(accepted'[manager'[t]])

FlushStep(t) == FlushesOn(t) \/ FlushBegins(t)

(* Whoever makes no step flushes on. *)
LEMMA OthersFlushOn ==
  ASSUME NEW u \in Threads, pc'[u] = pc[u], manager'[u] = manager[u], pending'[u] = pending[u]
  PROVE  FlushStep(u)
BY DEF FlushStep, FlushesOn

(* So does one who is not flushing, and does not begin to. *)
LEMMA ElsewhereFlushOn ==
  ASSUME NEW t \in Threads, pc[t] \notin Flushing, pc'[t] # "flushed", pending'[t] = pending[t]
  PROVE  FlushStep(t)
BY DEF FlushStep, FlushesOn

LEMMA EnqueueFlushes ==
  ASSUME DataShape, Base, NEW t \in Threads, pc[t] = "push", NEW kept, Enqueue(t, kept)
  PROVE  FlushStep(t)
<1>1. CallShape /\ Control
  BY DEF Base
<1>2. /\ record[t] \in Records /\ manager[t] \in Managers /\ next[t] \in {"idle", "flush"}
      /\ accepted[manager[t]] \in Seq(Records)
      /\ DOMAIN pc = Threads /\ DOMAIN pending = Threads /\ DOMAIN accepted = Managers
  BY <1>1, CallFacts, RecordFacts DEF Displaying, Managing, Labels, CallShape, DataShape
<1>3. CASE next[t] = "flush"
  <2>1. /\ pc'[t] = "flush" /\ manager' = manager
        /\ pending'[t] = ToSet(accepted[manager[t]]) \cup {record[t]}
        /\ accepted'[manager[t]] = Append(accepted[manager[t]], record[t])
    BY <1>2, <1>3 DEF Enqueue, Goto
  <2> DEFINE a == accepted[manager[t]]
             b == Append(a, record[t])
  <2>2. /\ b \in Seq(Records) /\ Len(a) \in Nat /\ DOMAIN a = 1..Len(a)
        /\ DOMAIN b = 1..(Len(a) + 1)
        /\ \A i \in 1..Len(a) : b[i] = a[i]
        /\ b[Len(a) + 1] = record[t]
    BY <1>2, AppendProperties, LenProperties
  <2>3. Len(a) + 1 \in DOMAIN b /\ \A i \in DOMAIN a : i \in DOMAIN b /\ b[i] = a[i]
    BY <2>2
  <2> HIDE DEF a, b
  <2>4. ToSet(a) \cup {record[t]} \subseteq ToSet(b)
    BY <2>2, <2>3 DEF ToSet
  <2>5. pending'[t] \subseteq ToSet(accepted'[manager'[t]])
    BY <2>1, <2>4 DEF a, b
  <2>6. QED
    BY <1>2, <2>1, <2>5 DEF FlushStep, FlushBegins
<1>4. CASE next[t] = "idle"
  <2>1. pc'[t] = "idle" /\ pending'[t] = pending[t]
    BY <1>2, <1>4 DEF Enqueue, Goto
  <2>2. QED
    BY <2>1, ElsewhereFlushOn DEF Flushing
<1>5. QED
  BY <1>2, <1>3, <1>4

(* What is taken is empty when nobody says that it is processed. *)
LEMMA NothingIsTaken ==
  ASSUME DataShape, Base, NEW t \in Threads, FlushFindsNothing(t)
  PROVE  FlushStep(t)
<1> DEFINE m == manager[t]
<1>1. CallShape /\ Control /\ Working
  BY DEF Base
<1>2. m \in Managers /\ DOMAIN pc = Threads
  BY <1>1, CallFacts DEF FlushFindsNothing, Managing, Labels, CallShape
<1>3. WorkingOf(m)
  BY <1>1, <1>2 DEF Working
<1>4. /\ pc[t] = "flush" /\ pc'[t] = "flushed" /\ manager' = manager /\ pending' = pending
      /\ Same /\ Buffer[m] = <<>>
      /\ Processing[m] => ~IsConsole /\ ~WorkerAvailable(m)
  BY <1>2 DEF FlushFindsNothing, Goto, Same, queues, history
<1>5. batch[m] = <<>> \/ m \in drained \/ StopRequested[m]
  BY <1>3, <1>4 DEF WorkingOf, WorkerAvailable
<1>6. QED
  BY <1>4, <1>5 DEF FlushStep, FlushesOn, Flushing

LEMMA BeginFlushes ==
  ASSUME DataShape, Base, NEW t \in Threads, NEW m \in Known, BeginFlush(t, m), accepted' = accepted
  PROVE  FlushStep(t)
<1>1. CallShape /\ Control
  BY DEF Base
<1>2. /\ DOMAIN pc = Threads /\ DOMAIN pending = Threads /\ DOMAIN manager = Threads
      /\ m # None => m \in Managers
  BY <1>1, CallFacts DEF CallShape
<1>3. CASE m = None
  BY <1>2, <1>3 DEF BeginFlush, Goto, FlushStep, FlushBegins
<1>4. CASE m # None
  <2>1. pc'[t] = "flush" /\ manager'[t] = m /\ pending'[t] \subseteq ToSet(accepted[m])
    BY <1>2, <1>4 DEF BeginFlush, Goto, Unwritten
  <2>2. QED
    BY <1>2, <1>4, <2>1 DEF FlushStep, FlushBegins
<1>5. QED
  BY <1>3, <1>4

LEMMA StepFlushes ==
  ASSUME DataShape, Base, [Next]_vars
  PROVE  \A t \in Threads : FlushStep(t)
<1>1. CallShape /\ Control
  BY DEF Base
<1>2. /\ DOMAIN pc = Threads /\ DOMAIN pending = Threads /\ DOMAIN manager = Threads
      /\ Instance \in Known /\ \A t \in Threads : Manager[t] \in Known
      /\ \A t \in Threads : ControlOf(t)
  BY <1>1, CallFacts DEF CallShape
<1>3. SUFFICES ASSUME NEW t \in Threads PROVE FlushStep(t)
  OBVIOUS
<1>4. CASE pc'[t] = pc[t] /\ manager'[t] = manager[t] /\ pending'[t] = pending[t]
  BY <1>4, OthersFlushOn
<1>5. ASSUME NEW u \in Threads, u # t, Proceed(u) PROVE FlushStep(t)
  <2>1. CASE PushWithSpace(u) \/ PushDropOldest(u)
    BY <1>2, <1>4, <1>5, <2>1 DEF PushWithSpace, PushDropOldest, Enqueue, Goto
  <2>2. CASE ~(PushWithSpace(u) \/ PushDropOldest(u))
    BY <1>2, <1>4, <1>5, <2>2 DEF Proceed, Add, AddBackend, TestStopping, NotAccepted, PushDropNew,
       PushDrains, PushStopped, DrainTakes, DrainWrites, DrainEnds, DrainFindsNothing, FlushResets,
       FlushDrains, FlushFindsNothing, FlushReturns, RemoveDrains, RemoveBackend, ForgetInstance,
       TakeBatch, Goto, threads, history
  <2>3. QED
    BY <2>1, <2>2
<1>6. CASE Proceed(t)
  <2>1. CASE PushWithSpace(t) \/ PushDropOldest(t)
    BY <2>1, EnqueueFlushes DEF PushWithSpace, PushDropOldest
  <2>2. CASE FlushFindsNothing(t)
    BY <2>2, NothingIsTaken
  <2>3. CASE FlushReturns(t)
    BY <1>2, <2>3 DEF FlushReturns, FlushStep, FlushBegins, Goto
  <2>4. CASE DrainEnds(t)
    <3>1. CASE pc[t] = "write flush"
      <4>1. manager[t] \in drained
        BY <1>2, <3>1 DEF ControlOf, Writing
      <4>2. /\ pc'[t] \in {"drain flush", "flushed"} /\ manager'[t] = manager[t]
            /\ pending'[t] = pending[t]
        BY <1>2, <2>4, <3>1 DEF DrainEnds, Goto, history
      <4>3. QED
        BY <3>1, <4>1, <4>2 DEF FlushStep, FlushesOn, Flushing
    <3>2. CASE pc[t] # "write flush"
      <4>1. pc[t] \in {"write push", "write remove"} /\ pending'[t] = pending[t]
        BY <2>4, <3>2 DEF DrainEnds, history
      <4>2. pc'[t] \in {"removing", "drain push", "refused"}
        BY <1>2, <2>4, <4>1 DEF DrainEnds, Goto
      <4>3. QED
        BY <4>1, <4>2, ElsewhereFlushOn DEF Flushing
    <3>3. QED
      BY <3>1, <3>2
  <2>5. CASE FlushResets(t) \/ DrainWrites(t)
    BY <1>4, <2>5 DEF FlushResets, DrainWrites, threads, history
  <2>6. CASE FlushDrains(t)
    <3>1. /\ pc[t] = "flush" /\ pc'[t] \in {"drain flush", "write flush"}
          /\ manager'[t] = manager[t] /\ pending'[t] = pending[t]
      BY <1>2, <2>6 DEF FlushDrains, TakeBatch, Goto, history
    <3>2. QED
      BY <3>1 DEF FlushStep, FlushesOn, Flushing
  <2>7. CASE DrainTakes(t) \/ DrainFindsNothing(t)
    <3>1. manager'[t] = manager[t] /\ pending'[t] = pending[t]
      BY <2>7 DEF DrainTakes, DrainFindsNothing, history
    <3>2. CASE pc[t] = "drain push"
      <4>1. pc'[t] \in {"write push", "push"}
        BY <1>2, <2>7, <3>2 DEF DrainTakes, DrainFindsNothing, TakeBatch, Goto
      <4>2. QED
        BY <3>1, <3>2, <4>1, ElsewhereFlushOn DEF Flushing
    <3>3. CASE pc[t] = "drain flush"
      <4>1. pc'[t] \in {"write flush", "flush"}
        BY <1>2, <2>7, <3>3 DEF DrainTakes, DrainFindsNothing, TakeBatch, Goto
      <4>2. QED
        BY <3>1, <3>3, <4>1 DEF FlushStep, FlushesOn, Flushing
    <3>4. QED
      BY <2>7, <3>2, <3>3 DEF DrainTakes, DrainFindsNothing
  <2>8. CASE \/ Add(t) \/ AddBackend(t) \/ TestStopping(t) \/ PushDropNew(t) \/ PushDrains(t)
             \/ PushStopped(t) \/ RemoveDrains(t) \/ RemoveBackend(t) \/ ForgetInstance(t)
    <3>1. /\ pc[t] \in {"add", "adding", "registered", "push", "refused", "remove", "removing", "forget"}
          /\ pending'[t] = pending[t]
      BY <2>8 DEF Add, AddBackend, TestStopping, NotAccepted, PushDropNew, PushDrains, PushStopped,
         RemoveDrains, RemoveBackend, ForgetInstance, history
    <3>2. pc'[t] # "flushed"
      BY <1>2, <2>8 DEF Add, AddBackend, TestStopping, NotAccepted, PushDropNew, PushDrains,
         PushStopped, RemoveDrains, RemoveBackend, ForgetInstance, TakeBatch, Goto
    <3>3. QED
      BY <3>1, <3>2, ElsewhereFlushOn DEF Flushing
  <2>9. QED
    BY <1>6, <2>1, <2>2, <2>3, <2>4, <2>5, <2>6, <2>7, <2>8 DEF Proceed
<1>7. ASSUME NEW u \in Threads, u # t, Display(u) \/ DisplaySync(u) \/ Flush(u) \/ Freeze(u)
      PROVE  FlushStep(t)
  BY <1>2, <1>4, <1>7 DEF Display, DisplaySync, Flush, Freeze, BeginFlush, Goto, history
<1>8. CASE Display(t) \/ DisplaySync(t)
  <2>1. pc[t] = "idle" /\ pc'[t] \in {"registered", "add"} /\ pending'[t] = pending[t]
    BY <1>2, <1>8 DEF Display, DisplaySync, Goto, history
  <2>2. QED
    BY <2>1, ElsewhereFlushOn DEF Flushing
<1>9. CASE Flush(t)
  <2>1. PICK m \in Known : BeginFlush(t, m)
    BY <1>2, <1>9 DEF Flush
  <2>2. QED
    BY <1>9, <2>1, BeginFlushes DEF Flush
<1>10. CASE Freeze(t)
  <2>1. CASE Registered[t] /\ Instance # None
    <3>1. pc[t] = "idle" /\ pc'[t] = "remove" /\ pending'[t] = pending[t]
      BY <1>2, <1>10, <2>1 DEF Freeze, Goto
    <3>2. QED
      BY <3>1, ElsewhereFlushOn DEF Flushing
  <2>2. CASE ~(Registered[t] /\ Instance # None)
    <3>1. BeginFlush(t, IF Registered[t] THEN None ELSE Instance) /\ accepted' = accepted
      BY <1>10, <2>2 DEF Freeze
    <3>2. (IF Registered[t] THEN None ELSE Instance) \in Known
      BY <1>1, <1>2, CallFacts
    <3>3. QED
      BY <3>1, <3>2, BeginFlushes
  <2>3. QED
    BY <2>1, <2>2
<1>11. ASSUME NEW m \in Managers, ManagementThread(m) \/ Destructor(m) PROVE FlushStep(t)
  BY <1>4, <1>11 DEF ManagementThread, Destructor, WorkerTests, WorkerBlocks, WorkerTakes,
     WorkerWrites, WorkerFinishes, WorkerStops, Destroy, DestroyJoined, threads, history
<1>12. CASE Close \/ UNCHANGED vars
  BY <1>4, <1>12 DEF Close, vars, threads, history
<1>13. QED
  BY <1>5, <1>6, <1>7, <1>8, <1>9, <1>10, <1>11, <1>12 DEF Next

(* What a manager has taken is in its queue, with its worker, written or       *)
(* ignored, as long as nobody else empties the queue.                        *)
LEMMA Whereabouts ==
  ASSUME DataShape, Kept, Taken, NEW m \in Managers \ drained, NEW r \in ToSet(accepted[m])
  PROVE  r \in ToSet(Buffer[m]) \cup ToSet(batch[m]) \cup ToSet(written) \cup ignored
<1>1. r \in All(Content)
  BY DEF Taken, Kept
<1>2. PICK x \in Places : r \in Content[x]
  BY <1>1, ContentNow DEF All
<1>3. \A n \in Managers : n # m => r \notin ToSet(accepted[n])
  BY DEF Taken
<1>4. CASE \E t \in Threads : x = <<"record", t>>
  BY <1>2, <1>4, ContentNow DEF Taken
<1>5. CASE \E n \in Managers : x = <<"buffer", n>>
  <2>1. PICK n \in Managers : r \in ToSet(Buffer[n])
    BY <1>2, <1>5, ContentNow
  <2>2. r \in ToSet(accepted[n])
    BY <2>1 DEF Taken
  <2>3. QED
    BY <1>3, <2>1, <2>2
<1>6. CASE \E p \in Threads \cup Managers : x = <<"batch", p>>
  <2>1. PICK p \in Threads \cup Managers : r \in ToSet(batch[p])
    BY <1>2, <1>6, ContentNow
  <2>2. CASE p \in Threads
    <3>1. PICK d \in drained : r \in ToSet(accepted[d])
      BY <2>1, <2>2 DEF Taken
    <3>2. d \in Managers
      BY <3>1 DEF DataShape
    <3>3. QED
      BY <1>3, <3>1, <3>2
  <2>3. CASE p \in Managers
    <3>1. r \in ToSet(accepted[p])
      BY <2>1, <2>3 DEF Taken
    <3>2. QED
      BY <1>3, <2>1, <2>3, <3>1
  <2>4. QED
    BY <2>2, <2>3
<1>7. CASE x = <<"written", None>> \/ x = <<"ignored", None>>
  BY <1>2, <1>7, ContentNow
<1>8. QED
  BY <1>4, <1>5, <1>6, <1>7, PlaceCases

LEMMA WaitingKept ==
  ASSUME DataShape, Base, Limited, Waiting, [Next]_vars
  PROVE  Waiting'
<1>1. DataStep /\ \A t \in Threads : FlushStep(t)
  BY StepIsData, StepFlushes
<1>2. \A m \in Managers : ToSet(accepted[m]) \subseteq ToSet(accepted'[m])
  BY <1>1, Grows
<1>3. \A t \in Threads : pc[t] \in Flushing => manager[t] \in Managers
  BY CallFacts DEF Base, Flushing, Managing, Labels
<1>4. SUFFICES ASSUME NEW t \in Threads, pending'[t] # {}
               PROVE  pc'[t] \in Flushing /\ pending'[t] \subseteq ToSet(accepted'[manager'[t]])
  BY DEF Waiting
<1>5. CASE FlushesOn(t)
  <2>1. /\ pending'[t] = pending[t] /\ pc[t] \in Flushing
        /\ pending[t] \subseteq ToSet(accepted[manager[t]])
    BY <1>4, <1>5 DEF FlushesOn, Waiting
  <2>2. pc'[t] \in Flushing /\ manager'[t] = manager[t]
    BY <1>5, <2>1 DEF FlushesOn
  <2>3. QED
    BY <1>2, <1>3, <2>1, <2>2
<1>6. CASE FlushBegins(t)
  BY <1>4, <1>6 DEF FlushBegins, Flushing
<1>7. QED
  BY <1>1, <1>5, <1>6 DEF FlushStep

LEMMA FlushWritesKept ==
  ASSUME DataShape, Base, Limited, Kept, Taken, Waiting, FlushWrites, [Next]_vars
  PROVE  FlushWrites'
<1>1. DataStep /\ \A t \in Threads : FlushStep(t)
  BY StepIsData, StepFlushes
<1>2. /\ drained \subseteq drained'
      /\ ToSet(written) \cup ignored \subseteq ToSet(written') \cup ignored'
      /\ \A m \in Managers : StopRequested[m] => StopRequested'[m]
  BY <1>1, Grows, StopsStay DEF Base
<1>3. \A t \in Threads : pc[t] \in Flushing => manager[t] \in Managers
  BY CallFacts DEF Base, Flushing, Managing, Labels
<1>4. SUFFICES ASSUME NEW t \in Threads, pc'[t] = "flushed", ~StopRequested'[manager'[t]],
                      manager'[t] \notin drained'
               PROVE  pending'[t] \subseteq ToSet(written') \cup ignored'
  BY DEF FlushWrites
<1>5. FlushesOn(t)
  BY <1>1, <1>4 DEF FlushStep, FlushBegins
<1>6. pending'[t] = pending[t] /\ pc[t] \in Flushing /\ manager'[t] = manager[t]
  BY <1>4, <1>5 DEF FlushesOn, Flushing
<1>7. manager[t] \in Managers \ drained /\ ~StopRequested[manager[t]]
  BY <1>2, <1>3, <1>4, <1>6
<1>8. CASE pc[t] = "flushed"
  BY <1>2, <1>6, <1>7, <1>8 DEF FlushWrites
<1>9. CASE Same /\ Buffer[manager[t]] = <<>> /\ batch[manager[t]] = <<>>
  <2>1. pending[t] \subseteq ToSet(accepted[manager[t]])
    BY DEF Waiting
  <2>2. ToSet(Buffer[manager[t]]) = {} /\ ToSet(batch[manager[t]]) = {}
    BY <1>9, Nothing
  <2>3. \A r \in ToSet(accepted[manager[t]]) : r \in ToSet(written) \cup ignored
    BY <1>7, <2>2, Whereabouts
  <2>4. QED
    BY <1>2, <1>6, <2>1, <2>3
<1>10. QED
  BY <1>4, <1>5, <1>7, <1>8, <1>9 DEF FlushesOn
-----------------------------------------------------------------------------
(* Event log: whose records are left behind. *)

(* A backend that has none in the queues and with the workers gets one there   *)
(* by its own push only.                                                     *)
LEMMA WithoutKept ==
  ASSUME DataShape, Owned, Taken, DataStep, NEW t \in Threads, Without(t),
         record[t] = None \/ record'[t] = record[t] \/ accepted' = accepted
  PROVE  Without(t)'
<1>1. /\ DOMAIN record = Threads /\ DOMAIN Buffer = Managers /\ DOMAIN accepted = Managers
      /\ DOMAIN batch = Threads \cup Managers /\ owner \in Seq(Threads)
  BY DEF DataShape
<1>2. \A m \in Managers : \A r \in ToSet(Buffer[m]) \cup ToSet(batch[m]) :
        owner[r] # t /\ r \in 1..Len(owner)
  BY DEF Without, Taken
<1>3. CASE Same
  BY <1>3 DEF Same, Without
<1>4. ASSUME NEW u \in Threads, Displayed(u) PROVE Without(t)'
  <2>1. \A i \in 1..Len(owner) : owner'[i] = owner[i]
    BY <1>1, <1>4, AppendProperties DEF Displayed
  <2>2. QED
    BY <1>2, <1>4, <2>1 DEF Displayed, Without
<1>5. ASSUME NEW u \in Threads, NotTaken(u) PROVE Without(t)'
  BY <1>5 DEF NotTaken, Without
<1>6. ASSUME NEW u \in Threads, NEW n \in Managers, NEW kept, KeepsSome(n, kept), Queued(u, n, kept)
      PROVE  Without(t)'
  <2>1. /\ record[u] # None /\ owner' = owner /\ batch' = batch /\ record'[u] = None
        /\ Buffer' = [Buffer EXCEPT ![n] = Append(kept, record[u])]
        /\ accepted'[n] = Append(accepted[n], record[u])
    BY <1>1, <1>6 DEF Queued
  <2>2. u # t
    <3>1. accepted[n] \in Seq(Records) /\ record[u] \in Records
      BY <2>1, RecordFacts
    <3>2. Append(accepted[n], record[u]) # accepted[n]
      <4>1. /\ Len(Append(accepted[n], record[u])) = Len(accepted[n]) + 1
            /\ Len(accepted[n]) \in Nat
        BY <3>1, AppendProperties, LenProperties
      <4>2. QED
        BY <4>1
    <3>3. QED
      BY <2>1, <3>2
  <2>3. owner[record[u]] = u
    BY <2>1 DEF Owned
  <2>4. ToSet(kept) \subseteq ToSet(Buffer[n])
    <3>1. CASE kept = Buffer[n]
      BY <3>1
    <3>2. CASE Buffer[n] # <<>> /\ kept = Tail(Buffer[n])
      <4>1. Buffer[n] \in Seq(Records)
        BY RecordFacts
      <4>2. /\ Len(Buffer[n]) \in Nat /\ DOMAIN Buffer[n] = 1..Len(Buffer[n])
            /\ DOMAIN kept = 1..(Len(Buffer[n]) - 1)
            /\ \A i \in 1..(Len(Buffer[n]) - 1) : kept[i] = Buffer[n][i + 1]
        BY <3>2, <4>1, HeadTailProperties, LenProperties, EmptySeq
      <4>3. \A i \in DOMAIN kept : i + 1 \in DOMAIN Buffer[n] /\ kept[i] = Buffer[n][i + 1]
        BY <4>2
      <4>4. QED
        BY <4>3 DEF ToSet
    <3>3. QED
      BY <1>6, <3>1, <3>2 DEF KeepsSome
  <2>5. \A r \in ToSet(Append(kept, record[u])) : r \in ToSet(kept) \/ r = record[u]
    <3>1. kept \in Seq(Records) /\ record[u] \in Records
      BY <1>6, QueuedFacts
    <3> DEFINE w == Append(kept, record[u])
    <3>2. /\ Len(kept) \in Nat /\ DOMAIN kept = 1..Len(kept) /\ DOMAIN w = 1..(Len(kept) + 1)
          /\ \A i \in 1..Len(kept) : w[i] = kept[i]
          /\ w[Len(kept) + 1] = record[u]
      BY <3>1, AppendProperties, LenProperties
    <3>3. \A i \in DOMAIN w : (i \in DOMAIN kept /\ w[i] = kept[i]) \/ w[i] = record[u]
      BY <3>2
    <3> HIDE DEF w
    <3>4. \A r \in ToSet(w) : r \in ToSet(kept) \/ r = record[u]
      BY <3>3 DEF ToSet
    <3>5. QED
      BY <3>4 DEF w
  <2>6. ASSUME NEW m \in Managers, NEW r \in ToSet(Buffer'[m]) \cup ToSet(batch'[m])
        PROVE  owner'[r] # t
    <3>1. CASE r \in ToSet(Buffer[m]) \cup ToSet(batch[m])
      BY <1>2, <2>1, <3>1
    <3>2. CASE r \notin ToSet(Buffer[m]) \cup ToSet(batch[m])
      <4>1. m = n /\ r \in ToSet(Append(kept, record[u]))
        BY <1>1, <2>1, <2>6, <3>2
      <4>2. r = record[u]
        BY <2>4, <2>5, <3>2, <4>1
      <4>3. QED
        BY <2>1, <2>2, <2>3, <4>2
    <3>3. QED
      BY <3>1, <3>2
  <2>7. QED
    BY <2>6 DEF Without
<1>7. ASSUME NEW n \in Managers, NEW p \in Threads \cup {n}, BatchTaken(p, n) PROVE Without(t)'
  <2>1. /\ owner' = owner
        /\ \A m \in Managers : Buffer'[m] = Buffer[m] \/ Buffer'[m] = <<>>
        /\ \A m \in Managers : batch'[m] = batch[m] \/ (m = n /\ batch'[m] = Buffer[m])
    BY <1>1, <1>7, ParameterFacts DEF BatchTaken
  <2>2. QED
    BY <1>2, <2>1, Nothing DEF Without
<1>8. ASSUME NEW p \in Threads \cup Managers, BatchWritten(p) PROVE Without(t)'
  <2>1. /\ owner' = owner /\ Buffer' = Buffer
        /\ \A m \in Managers : batch'[m] = batch[m] \/ batch'[m] = <<>>
    BY <1>1, <1>8 DEF BatchWritten
  <2>2. QED
    BY <1>2, <2>1, Nothing DEF Without
<1>9. ASSUME NEW n \in Managers, RestWritten(n) PROVE Without(t)'
  <2>1. /\ owner' = owner /\ batch' = batch
        /\ \A m \in Managers : Buffer'[m] = Buffer[m] \/ Buffer'[m] = <<>>
    BY <1>1, <1>9 DEF RestWritten
  <2>2. QED
    BY <1>2, <2>1, Nothing DEF Without
<1>10. QED
  BY <1>3, <1>4, <1>5, <1>6, <1>7, <1>8, <1>9, StepCases

(* A backend that is frozen stays so, and one that has gone does not come back. *)
LEMMA FrozenStays ==
  ASSUME CallShape, [Next]_vars, NEW t \in Threads, frozen[t]
  PROVE  frozen'[t] /\ (pc[t] # "remove" => pc'[t] # "remove")
<1>1. DOMAIN frozen = Threads /\ DOMAIN pc = Threads /\ \A u \in Threads : next[u] \in {"idle", "flush"}
  BY DEF CallShape
<1>2. ASSUME NEW u \in Threads, Proceed(u)
      PROVE  frozen' = frozen /\ (pc[t] # "remove" => pc'[t] # "remove")
  <2>1. CASE PushWithSpace(u) \/ PushDropOldest(u)
    BY <1>1, <2>1 DEF PushWithSpace, PushDropOldest, Enqueue, backends, Goto
  <2>2. CASE ~(PushWithSpace(u) \/ PushDropOldest(u))
    BY <1>1, <1>2, <2>2 DEF Proceed, Add, AddBackend, TestStopping, NotAccepted, PushDropNew,
       PushDrains, PushStopped, DrainTakes, DrainWrites, DrainEnds, DrainFindsNothing, FlushResets,
       FlushDrains, FlushFindsNothing, FlushReturns, RemoveDrains, RemoveBackend, ForgetInstance,
       TakeBatch, Goto, threads, backends
  <2>3. QED
    BY <2>1, <2>2
<1>3. ASSUME NEW m \in Managers, ManagementThread(m) \/ Destructor(m)
      PROVE  frozen' = frozen /\ pc' = pc
  BY <1>3 DEF ManagementThread, Destructor, WorkerTests, WorkerBlocks, WorkerTakes, WorkerWrites,
     WorkerFinishes, WorkerStops, Destroy, DestroyJoined, threads, backends
<1>4. ASSUME NEW u \in Threads, Display(u) \/ DisplaySync(u) \/ Flush(u)
      PROVE  frozen' = frozen /\ (pc[t] # "remove" => pc'[t] # "remove")
  BY <1>1, <1>4 DEF Display, DisplaySync, Flush, BeginFlush, Goto, backends
<1>5. ASSUME NEW u \in Threads, Freeze(u)
      PROVE  frozen'[t] /\ pc'[t] = pc[t]
  <2>1. u # t
    BY <1>5 DEF Freeze
  <2>2. QED
    BY <1>1, <1>5, <2>1 DEF Freeze, BeginFlush, Goto
<1>6. CASE Close \/ UNCHANGED vars
  BY <1>6 DEF Close, vars, threads, backends
<1>7. QED
  BY <1>2, <1>3, <1>4, <1>5, <1>6 DEF Next

LEMMA ClosingStays ==
  ASSUME [Next]_vars
  PROVE  closing => closing'
<1>1. ASSUME NEW t \in Threads, Proceed(t) PROVE closing' = closing
  BY <1>1 DEF Proceed, Add, AddBackend, TestStopping, PushWithSpace, PushDropOldest, Enqueue,
     PushDropNew, PushDrains, PushStopped, DrainTakes, DrainWrites, DrainEnds, DrainFindsNothing,
     FlushResets, FlushDrains, FlushFindsNothing, FlushReturns, RemoveDrains, RemoveBackend,
     ForgetInstance
<1>2. ASSUME NEW m \in Managers, ManagementThread(m) \/ Destructor(m) PROVE closing' = closing
  BY <1>2 DEF ManagementThread, Destructor, WorkerTests, WorkerBlocks, WorkerTakes, WorkerWrites,
     WorkerFinishes, WorkerStops, Destroy, DestroyJoined
<1>3. QED
  BY <1>1, <1>2 DEF Next, Display, DisplaySync, Flush, Freeze, Close, vars

(* Whoever has gone was there before. *)
LEMMA NobodyWasGone ==
  ASSUME CallShape, [Next]_vars, NobodyGone'
  PROVE  NobodyGone
<1>1. kind = "event log" /\ ~closing
  BY ConfigStays, ClosingStays DEF NobodyGone
<1>2. \A t \in Threads : frozen[t] => pc[t] = "remove"
  BY FrozenStays DEF NobodyGone
<1>3. QED
  BY <1>1, <1>2 DEF NobodyGone

(* Meanwhile there is one manager, whose worker runs. *)
LEMMA OneManager ==
  ASSUME DataShape, Base, Taken, Quiet, NobodyGone
  PROVE  /\ ~IsConsole
         /\ \A t \in Threads :
              pc[t] \notin Writing \cup {"removing", "forget", "drain push", "drain flush", "refused"}
         /\ \A t \in Threads : pc[t] \in Managing \ {"adding"} =>
              /\ manager[t] = Instance /\ manager[t] \in Managers
              /\ WorkerAvailable(manager[t]) /\ ~StopRequested[manager[t]]
         /\ Instance # None => Instance \in Managers
         /\ \A m \in Managers : m # Instance => Buffer[m] = <<>> /\ batch[m] = <<>>
         /\ \A m \in Managers : ~Processing[m] => batch[m] = <<>>
<1>1. /\ \A m \in Managers : ~StopRequested[m]
      /\ drained = {} /\ created <= 1 /\ Instance = created
      /\ \A t \in Threads :
           pc[t] \notin {"write remove", "removing", "forget", "drain push", "drain flush", "refused"}
  BY DEF Quiet
<1>2. ~IsConsole
  BY DEF NobodyGone, IsConsole
<1>3. QueueShape /\ CallShape /\ Control /\ Working /\ Making
  BY DEF Base
<1>4. /\ created \in Nat /\ \A m \in Known : m # None => m \in Managers
      /\ \A t \in Threads : ControlOf(t) /\ manager[t] \in Known
      /\ \A t \in Threads : pc[t] \in Managing => manager[t] \in Managers
  BY <1>3, CallFacts
<1>5. \A t \in Threads :
        pc[t] \notin Writing \cup {"removing", "forget", "drain push", "drain flush", "refused"}
  BY <1>1, <1>4 DEF ControlOf
<1>6. \A n \in Known : n # None => n = Instance
  <2>1. created \in Nat /\ created <= 1
    BY <1>1, <1>4
  <2>2. \A n \in 0..created : n # 0 => n = created
    BY <2>1
  <2>3. QED
    BY <1>1, <2>2 DEF Known, None
<1>7. \A m \in Managers : m # None
  BY ParameterFacts
<1>8. ASSUME NEW t \in Threads, pc[t] \in Managing \ {"adding"}
      PROVE  /\ manager[t] = Instance /\ manager[t] \in Managers
             /\ WorkerAvailable(manager[t]) /\ ~StopRequested[manager[t]]
  <2>1. manager[t] \in Managers /\ manager[t] = Instance
    BY <1>4, <1>6, <1>7, <1>8
  <2>2. ~StopRequested[manager[t]]
    BY <1>1, <2>1
  <2>3. worker[manager[t]] # "none"
    BY <1>2, <1>3, <1>8 DEF Making, MakingOf
  <2>4. worker[manager[t]] # "ended"
    BY <1>2, <1>3, <2>1, <2>2 DEF Working, WorkingOf
  <2>5. QED
    BY <2>1, <2>2, <2>3, <2>4 DEF WorkerAvailable
<1>9. Instance # None => Instance \in Managers
  BY <1>3, <1>4 DEF CallShape
<1>10. ASSUME NEW m \in Managers, m # Instance PROVE Buffer[m] = <<>> /\ batch[m] = <<>>
  <2>1. m \notin Known
    BY <1>6, <1>7, <1>10
  <2>2. accepted[m] = <<>>
    BY <2>1 DEF Taken
  <2>3. ToSet(Buffer[m]) = {} /\ ToSet(batch[m]) = {}
    BY <2>2, Nothing DEF Taken
  <2>4. Buffer[m] \in Seq(Records) /\ batch[m] \in Seq(Records)
    BY RecordFacts
  <2>5. \A s \in Seq(Records) : ToSet(s) = {} => s = <<>>
    <3>1. ASSUME NEW s \in Seq(Records), s # <<>> PROVE ToSet(s) # {}
      <4>1. 1 \in DOMAIN s
        BY <3>1, EmptySeq, LenProperties
      <4>2. QED
        BY <4>1 DEF ToSet
    <3>2. QED
      BY <3>1
  <2>6. QED
    BY <2>3, <2>4, <2>5
<1>11. \A m \in Managers : ~Processing[m] => batch[m] = <<>>
  BY <1>1, <1>3 DEF Working, WorkingOf
<1>12. QED
  BY <1>2, <1>5, <1>8, <1>9, <1>10, <1>11

LEMMA AllWithout ==
  ASSUME \A m \in Managers : Buffer[m] = <<>> /\ batch[m] = <<>>
  PROVE  \A t \in Threads : Without(t)
BY Nothing DEF Without

(* A call with nothing left to do finds nothing of anyone. *)
LEMMA NothingLeft ==
  ASSUME DataShape, Base, Taken, Quiet, NobodyGone, NEW t \in Threads,
         pc[t] \in Managing \ {"adding"}, Buffer[manager[t]] = <<>>,
         ~Processing[manager[t]] \/ ~WorkerAvailable(manager[t])
  PROVE  \A u \in Threads : Without(u)
<1>1. /\ manager[t] = Instance /\ manager[t] \in Managers /\ ~Processing[manager[t]]
      /\ \A m \in Managers : m # Instance => Buffer[m] = <<>> /\ batch[m] = <<>>
      /\ batch[manager[t]] = <<>>
  BY OneManager
<1>2. QED
  BY <1>1, AllWithout

(* The steps of a call there are meanwhile. *)
LEMMA QuietSteps ==
  ASSUME DataShape, Base, Taken, Quiet, NobodyGone, NobodyGone', NEW t \in Threads, Proceed(t)
  PROVE  \/ Add(t) \/ AddBackend(t) \/ TestStopping(t) \/ PushWithSpace(t)
         \/ FlushFindsNothing(t) \/ FlushReturns(t)
<1>1. /\ ~IsConsole
      /\ pc[t] \notin Writing \cup {"removing", "forget", "drain push", "drain flush", "refused"}
      /\ pc[t] \in Managing \ {"adding"} =>
           WorkerAvailable(manager[t]) /\ ~StopRequested[manager[t]]
  BY OneManager
<1>2. ControlOf(t) /\ DOMAIN pc = Threads
  BY CallFacts DEF Base, CallShape
<1>3. pc[t] \in {"push", "flush", "remove"} => WorkerAvailable(manager[t]) /\ ~StopRequested[manager[t]]
  BY <1>1 DEF Managing, Labels
<1>4. ~PushDropOldest(t) /\ ~PushDropNew(t) /\ ~FlushResets(t)
  BY <1>1 DEF PushDropOldest, PushDropNew, FlushResets
<1>5. ~PushDrains(t) /\ ~PushStopped(t) /\ ~FlushDrains(t)
  BY <1>1, <1>3 DEF PushDrains, PushStopped, FlushDrains
<1>6. ~DrainTakes(t) /\ ~DrainFindsNothing(t) /\ ~DrainWrites(t) /\ ~DrainEnds(t) /\ ~ForgetInstance(t)
  BY <1>1 DEF DrainTakes, DrainFindsNothing, DrainWrites, DrainEnds, ForgetInstance, Writing
<1>7. ~RemoveDrains(t) /\ ~RemoveBackend(t)
  <2>1. ASSUME RemoveDrains(t) \/ RemoveBackend(t) PROVE FALSE
    <3>1. pc[t] = "remove" /\ frozen[t]
      BY <1>1, <1>2, <2>1 DEF RemoveDrains, RemoveBackend, ControlOf, Leaving
    <3>2. frozen' = frozen /\ pc'[t] # "remove"
      BY <1>2, <2>1 DEF RemoveDrains, RemoveBackend, TakeBatch, Goto, backends
    <3>3. QED
      BY <3>1, <3>2 DEF NobodyGone
  <2>2. QED
    BY <2>1
<1>8. QED
  BY <1>4, <1>5, <1>6, <1>7 DEF Proceed

(* The parts of Quiet. *)
QuietManagers ==
  /\ \A m \in Managers : ~StopRequested[m]
  /\ drained = {} /\ created <= 1 /\ Instance = created

QuietCall(t) ==
  /\ pc[t] \notin {"write remove", "removing", "forget", "drain push", "drain flush", "refused"}
  /\ Registered[t] => Instance # None
  /\ ~frozen[t] /\ ~Registered[t] /\ pc[t] # "flush" => Without(t)
  /\ pc[t] = "flushed" => Without(t)

LEMMA QuietParts ==
  Quiet <=> (NobodyGone => QuietManagers /\ \A t \in Threads : QuietCall(t))
BY DEF Quiet, QuietManagers, QuietCall

(* Who makes no step remains without records. *)
LEMMA OthersQuiet ==
  ASSUME DataShape, Owned, Taken, DataStep, NEW t \in Threads, QuietCall(t),
         pc'[t] = pc[t], frozen'[t] = frozen[t], Registered'[t] = Registered[t],
         record'[t] = record[t], Instance # None => Instance' # None
  PROVE  QuietCall(t)'
<1>1. Without(t) => Without(t)'
  BY WithoutKept
<1>2. QED
  BY <1>1 DEF QuietCall

LEMMA ProceedQuiet ==
  ASSUME DataShape, Base, Owned, Taken, Quiet, NobodyGone, NobodyGone', DataStep,
         NEW t \in Threads, Proceed(t)
  PROVE  QuietManagers' /\ \A u \in Threads : QuietCall(u)'
<1>1. /\ CallShape /\ Control /\ Making
      /\ QuietManagers /\ \A u \in Threads : QuietCall(u)
  BY QuietParts DEF Base
<1>2. /\ DOMAIN pc = Threads /\ DOMAIN record = Threads /\ DOMAIN Registered = Threads
      /\ created \in Nat /\ ControlOf(t) /\ Instance \in Known
      /\ Instance # None => Instance \in Managers
      /\ pc[t] \in Managing => manager[t] \in Managers
  BY <1>1, CallFacts, OneManager DEF CallShape, DataShape
<1>3. ~IsConsole
  BY OneManager
<1>4. /\ UNCHANGED <<StopRequested, frozen, drained>>
      /\ \A u \in Threads \ {t} : pc'[u] = pc[u] /\ record'[u] = record[u] /\ Registered'[u] = Registered[u]
  <2>1. CASE Add(t) \/ AddBackend(t) \/ TestStopping(t)
    BY <1>2, <2>1 DEF Add, AddBackend, TestStopping, NotAccepted, Goto, queues, backends, history
  <2>2. CASE PushWithSpace(t)
    BY <1>2, <2>2 DEF PushWithSpace, Enqueue, Goto, backends
  <2>3. CASE FlushFindsNothing(t) \/ FlushReturns(t)
    BY <1>2, <2>3 DEF FlushFindsNothing, FlushReturns, Goto, queues, backends, history
  <2>4. QED
    BY <2>1, <2>2, <2>3, QuietSteps
<1>5. created' <= 1 /\ Instance' = created' /\ (Instance # None => Instance' # None)
  <2>1. CASE Add(t)
    <3>1. CASE Instance = None
      <4>1. created = 0 /\ created' = created + 1 /\ Instance' = created + 1
        BY <1>1, <2>1, <3>1 DEF Add, QuietManagers, None
      <4>2. QED
        BY <3>1, <4>1
    <3>2. CASE Instance # None
      <4>1. ~StopRequested[Instance]
        BY <1>1, <1>2, <3>2 DEF QuietManagers
      <4>2. QED
        BY <1>1, <2>1, <3>2, <4>1 DEF Add, QuietManagers
    <3>3. QED
      BY <3>1, <3>2
  <2>2. CASE AddBackend(t) \/ TestStopping(t) \/ FlushFindsNothing(t) \/ FlushReturns(t)
    BY <1>1, <2>2 DEF AddBackend, TestStopping, FlushFindsNothing, FlushReturns, factory,
       QuietManagers
  <2>3. CASE PushWithSpace(t)
    BY <1>1, <2>3 DEF PushWithSpace, Enqueue, factory, QuietManagers
  <2>4. QED
    BY <2>1, <2>2, <2>3, QuietSteps
<1>6. QuietManagers'
  BY <1>1, <1>4, <1>5 DEF QuietManagers
<1>7. ASSUME NEW u \in Threads \ {t} PROVE QuietCall(u)'
  BY <1>1, <1>4, <1>5, OthersQuiet
<1>8. QuietCall(t) /\ frozen'[t] = frozen[t]
  BY <1>1, <1>4
<1>9. QuietCall(t)'
  <2>1. CASE Add(t)
    <3>1. pc[t] = "add" /\ pc'[t] = "adding" /\ Registered' = Registered /\ record' = record
      BY <1>2, <2>1 DEF Add, Goto, backends
    <3>2. Without(t) => Without(t)'
      BY <3>1, WithoutKept
    <3>3. QED
      BY <1>5, <1>8, <3>1, <3>2 DEF QuietCall
  <2>2. CASE AddBackend(t)
    <3>1. pc[t] = "adding" /\ pc'[t] = "registered" /\ Registered'[t] /\ Instance' = Instance
      BY <1>2, <2>2 DEF AddBackend, Goto
    <3>2. Instance # None
      <4>1. manager[t] = Instance /\ manager[t] \in Managers
        BY <1>1, <1>2, <3>1 DEF Making, MakingOf, Managing, Labels
      <4>2. QED
        BY <4>1, ParameterFacts
    <3>3. QED
      BY <3>1, <3>2 DEF QuietCall
  <2>3. CASE TestStopping(t)
    <3>1. /\ pc[t] = "registered" /\ pc'[t] \in {"idle", "push"} /\ Registered' = Registered
          /\ accepted' = accepted
      BY <1>2, <2>3 DEF TestStopping, NotAccepted, Goto, backends
    <3>2. Without(t) => Without(t)'
      BY <3>1, WithoutKept
    <3>3. QED
      BY <1>5, <1>8, <3>1, <3>2 DEF QuietCall
  <2>4. CASE PushWithSpace(t)
    <3>1. pc[t] = "push" /\ pc'[t] = next[t] /\ Registered' = Registered
      BY <1>2, <2>4 DEF PushWithSpace, Enqueue, Goto, backends
    <3>2. ~Registered[t] => next[t] = "flush"
      BY <1>2, <3>1 DEF ControlOf, Displaying
    <3>3. next[t] \in {"idle", "flush"}
      BY <1>1 DEF CallShape
    <3>4. QED
      BY <1>5, <1>8, <3>1, <3>2, <3>3 DEF QuietCall
  <2>5. CASE FlushFindsNothing(t)
    <3>1. /\ pc[t] = "flush" /\ pc'[t] = "flushed" /\ Registered' = Registered /\ record' = record
          /\ Buffer[manager[t]] = <<>> /\ (~Processing[manager[t]] \/ ~WorkerAvailable(manager[t]))
      BY <1>2, <2>5 DEF FlushFindsNothing, Goto, backends
    <3>2. Without(t)
      BY <3>1, NothingLeft DEF Managing, Labels
    <3>3. Without(t)'
      BY <3>1, <3>2, WithoutKept
    <3>4. QED
      BY <1>5, <1>8, <3>1, <3>3 DEF QuietCall
  <2>6. CASE FlushReturns(t)
    <3>1. pc[t] = "flushed" /\ pc'[t] = "idle" /\ Registered' = Registered /\ record' = record
      BY <1>2, <2>6 DEF FlushReturns, Goto, backends
    <3>2. Without(t)'
      BY <1>8, <3>1, WithoutKept DEF QuietCall
    <3>3. QED
      BY <1>5, <1>8, <3>1, <3>2 DEF QuietCall
  <2>7. QED
    BY <2>1, <2>2, <2>3, <2>4, <2>5, <2>6, QuietSteps
<1>10. QED
  BY <1>6, <1>7, <1>9

LEMMA QuietKept ==
  ASSUME DataShape, Base, Limited, Owned, Taken, Quiet, [Next]_vars
  PROVE  Quiet'
<1> SUFFICES ASSUME NobodyGone' PROVE QuietManagers' /\ \A u \in Threads : QuietCall(u)'
  BY QuietParts DEF Quiet, QuietManagers, QuietCall
<1>1. NobodyGone /\ DataStep /\ CallShape
  BY NobodyWasGone, StepIsData DEF Base
<1>2. QuietManagers /\ \A u \in Threads : QuietCall(u)
  BY <1>1, QuietParts
<1>3. /\ DOMAIN pc = Threads /\ DOMAIN record = Threads /\ DOMAIN Registered = Threads
      /\ DOMAIN frozen = Threads /\ ~IsConsole
  BY <1>1, OneManager DEF CallShape, DataShape
<1>4. ASSUME UNCHANGED <<StopRequested, drained, created, Instance>> PROVE QuietManagers'
  BY <1>2, <1>4 DEF QuietManagers
<1>5. ASSUME UNCHANGED <<pc, frozen, Registered, record, Instance>>, NEW u \in Threads
      PROVE  QuietCall(u)'
  BY <1>1, <1>2, <1>5, OthersQuiet
<1>6. ASSUME NEW t \in Threads, Proceed(t) PROVE QuietManagers' /\ \A u \in Threads : QuietCall(u)'
  BY <1>1, <1>6, ProceedQuiet
<1>7. ASSUME NEW t \in Threads, Display(t) \/ DisplaySync(t) \/ Flush(t) \/ Freeze(t)
      PROVE  QuietManagers' /\ \A u \in Threads : QuietCall(u)'
  <2>1. /\ UNCHANGED <<StopRequested, drained, created, Instance, accepted>>
        /\ pc[t] = "idle"
        /\ \A u \in Threads \ {t} : /\ pc'[u] = pc[u] /\ record'[u] = record[u]
                                    /\ frozen'[u] = frozen[u] /\ Registered'[u] = Registered[u]
    BY <1>3, <1>7 DEF Display, DisplaySync, Flush, Freeze, BeginFlush, Goto, factory, queues,
       backends,
       history
  <2>2. ASSUME NEW u \in Threads \ {t} PROVE QuietCall(u)'
    BY <1>1, <1>2, <2>1, OthersQuiet
  <2>3. Without(t) => Without(t)'
    BY <1>1, <2>1, WithoutKept
  <2>4. QuietCall(t)'
    <3>1. CASE Display(t) \/ DisplaySync(t) \/ Flush(t)
      <4>1. /\ pc'[t] \in {"registered", "add", "flush", "idle"}
            /\ frozen' = frozen /\ Registered' = Registered
        BY <1>3, <3>1 DEF Display, DisplaySync, Flush, BeginFlush, Goto, backends
      <4>2. QED
        BY <1>2, <2>1, <2>3, <4>1 DEF QuietCall
    <3>2. CASE Freeze(t)
      <4>1. pc'[t] \in {"remove", "idle", "flush"} /\ frozen'[t] /\ ~Registered'[t]
        BY <1>3, <3>2 DEF Freeze, BeginFlush, Goto
      <4>2. QED
        BY <4>1 DEF QuietCall
    <3>3. QED
      BY <1>7, <3>1, <3>2
  <2>5. QED
    BY <1>4, <2>1, <2>2, <2>4
<1>8. ASSUME NEW m \in Managers, ManagementThread(m) \/ DestroyJoined(m)
      PROVE  QuietManagers' /\ \A u \in Threads : QuietCall(u)'
  <2>1. /\ UNCHANGED <<StopRequested, drained, created, Instance>>
        /\ UNCHANGED <<pc, frozen, Registered, record>>
    BY <1>8 DEF ManagementThread, WorkerTests, WorkerBlocks, WorkerTakes, WorkerWrites,
       WorkerFinishes,
       WorkerStops, DestroyJoined, factory, queues, backends, threads, history
  <2>2. QED
    BY <1>4, <1>5, <2>1
<1>9. ASSUME NEW m \in Managers PROVE ~Destroy(m)
  <2>1. created \in Nat /\ created <= 1 /\ Instance = created /\ m \in Nat /\ m # 0
    BY <1>1, <1>2, ParameterFacts, CallFacts DEF Base, QuietManagers
  <2>2. m <= created => m = Instance
    BY <2>1
  <2>3. QED
    BY <2>2 DEF Destroy, Referenced
<1>10. ~Close
  BY DEF Close, NobodyGone
<1>11. CASE UNCHANGED vars
  <2>1. /\ UNCHANGED <<StopRequested, drained, created, Instance>>
        /\ UNCHANGED <<pc, frozen, Registered, record>>
    BY <1>11 DEF vars, factory, queues, backends, threads, history
  <2>2. QED
    BY <1>4, <1>5, <2>1
<1>12. QED
  BY <1>6, <1>7, <1>8, <1>9, <1>10, <1>11 DEF Next, Destructor

LEMMA GoneKept ==
  ASSUME DataShape, Base, Limited, Owned, Taken, Quiet, Gone, [Next]_vars
  PROVE  Gone'
<1>1. DataStep /\ CallShape /\ Control
  BY StepIsData DEF Base
<1> SUFFICES ASSUME NEW t \in Threads, kind' = "event log", ~closing', frozen'[t], pc'[t] # "remove",
                    \A u \in Threads : frozen'[u] => u = t
             PROVE  Without(t)'
  BY DEF Gone
<1>2. /\ kind = "event log" /\ ~closing /\ \A u \in Threads : frozen[u] => u = t
      /\ DOMAIN pc = Threads /\ DOMAIN frozen = Threads /\ DOMAIN record = Threads
      /\ ControlOf(t) /\ (pc[t] \notin Displaying => record[t] = None)
  BY <1>1, ConfigStays, ClosingStays, FrozenStays, CallFacts DEF CallShape, DataShape
<1>3. CASE frozen[t] /\ pc[t] # "remove"
  <2>1. Without(t)
    BY <1>2, <1>3 DEF Gone
  <2>2. record[t] = None
    BY <1>2, <1>3 DEF ControlOf
  <2>3. QED
    BY <1>1, <2>1, <2>2, WithoutKept
<1>4. ASSUME ~frozen[t] \/ pc[t] = "remove" PROVE NobodyGone
  BY <1>2, <1>4 DEF NobodyGone
<1>5. CASE ~frozen[t]
  <2>1. NobodyGone
    BY <1>4, <1>5
  <2>2. QuietManagers /\ QuietCall(t)
    BY <2>1, QuietParts
  <2>3. Freeze(t)
    <3>1. frozen' = frozen \/ \E u \in Threads : Freeze(u)
      <4>1. ASSUME NEW u \in Threads, Proceed(u) PROVE frozen' = frozen
        BY <4>1 DEF Proceed, Add, AddBackend, TestStopping, PushWithSpace, PushDropOldest, Enqueue,
           PushDropNew, PushDrains, PushStopped, DrainTakes, DrainWrites, DrainEnds,
           DrainFindsNothing,
           FlushResets, FlushDrains, FlushFindsNothing, FlushReturns, RemoveDrains, RemoveBackend,
           ForgetInstance, backends
      <4>2. ASSUME NEW m \in Managers, ManagementThread(m) \/ Destructor(m) PROVE frozen' = frozen
        BY <4>2 DEF ManagementThread, Destructor, WorkerTests, WorkerBlocks, WorkerTakes,
           WorkerWrites,
           WorkerFinishes, WorkerStops, Destroy, DestroyJoined, backends
      <4>3. QED
        BY <4>1, <4>2 DEF Next, Display, DisplaySync, Flush, Close, vars, backends
    <3>2. PICK u \in Threads : Freeze(u)
      BY <1>5, <3>1
    <3>3. u = t
      BY <1>2, <3>2 DEF Freeze
    <3>4. QED
      BY <3>2, <3>3
  <2>4. pc[t] = "idle" /\ record' = record
    BY <2>3 DEF Freeze
  <2>5. ~Registered[t]
    <3>1. ASSUME Registered[t] PROVE FALSE
      <4>1. Instance # None
        BY <2>2, <3>1 DEF QuietCall
      <4>2. pc'[t] = "remove"
        BY <1>2, <2>3, <3>1, <4>1 DEF Freeze, Goto
      <4>3. QED
        BY <4>2
    <3>2. QED
      BY <3>1
  <2>6. Without(t)
    BY <1>5, <2>2, <2>4, <2>5 DEF QuietCall
  <2>7. QED
    BY <1>1, <2>4, <2>6, WithoutKept
<1>6. CASE pc[t] = "remove"
  <2>1. NobodyGone
    BY <1>4, <1>6
  <2>2. /\ manager[t] = Instance /\ manager[t] \in Managers /\ WorkerAvailable(manager[t])
        /\ \A m \in Managers : m # Instance => Buffer[m] = <<>> /\ batch[m] = <<>>
        /\ \A m \in Managers : ~Processing[m] => batch[m] = <<>>
    BY <1>6, <2>1, OneManager DEF Managing, Labels
  <2>3. RemoveDrains(t) \/ RemoveBackend(t)
    <3>1. ASSUME NEW u \in Threads, u # t, Proceed(u) PROVE pc'[t] = pc[t]
      <4>1. CASE PushWithSpace(u) \/ PushDropOldest(u)
        BY <1>2, <3>1, <4>1 DEF PushWithSpace, PushDropOldest, Enqueue, Goto
      <4>2. CASE ~(PushWithSpace(u) \/ PushDropOldest(u))
        BY <1>2, <3>1, <4>2 DEF Proceed, Add, AddBackend, TestStopping, NotAccepted, PushDropNew,
           PushDrains, PushStopped, DrainTakes, DrainWrites, DrainEnds, DrainFindsNothing,
           FlushResets,
           FlushDrains, FlushFindsNothing, FlushReturns, RemoveDrains, RemoveBackend,
           ForgetInstance,
           TakeBatch, Goto, threads
      <4>3. QED
        BY <4>1, <4>2
    <3>2. ASSUME Proceed(t) PROVE RemoveDrains(t) \/ RemoveBackend(t)
      <4>1. ~(PushWithSpace(t) \/ PushDropOldest(t) \/ PushDropNew(t) \/ PushDrains(t) \/ PushStopped(t))
        BY <1>6 DEF PushWithSpace, PushDropOldest, PushDropNew, PushDrains, PushStopped
      <4>2. ~(Add(t) \/ AddBackend(t) \/ TestStopping(t) \/ DrainTakes(t) \/ DrainWrites(t)
              \/ DrainEnds(t) \/ DrainFindsNothing(t))
        BY <1>6 DEF Add, AddBackend, TestStopping, DrainTakes, DrainWrites, DrainEnds,
           DrainFindsNothing
      <4>3. ~(FlushResets(t) \/ FlushDrains(t) \/ FlushFindsNothing(t) \/ FlushReturns(t)
              \/ ForgetInstance(t))
        BY <1>6 DEF FlushResets, FlushDrains, FlushFindsNothing, FlushReturns, ForgetInstance
      <4>4. QED
        BY <3>2, <4>1, <4>2, <4>3 DEF Proceed
    <3>3. ASSUME NEW u \in Threads, Display(u) \/ DisplaySync(u) \/ Flush(u) \/ Freeze(u)
          PROVE  pc'[t] = pc[t]
      <4>1. u # t
        BY <1>6, <3>3 DEF Display, DisplaySync, Flush, Freeze
      <4>2. QED
        BY <1>2, <3>3, <4>1 DEF Display, DisplaySync, Flush, Freeze, BeginFlush, Goto
    <3>4. ASSUME NEW m \in Managers, ManagementThread(m) \/ Destructor(m) PROVE pc'[t] = pc[t]
      BY <3>4 DEF ManagementThread, Destructor, WorkerTests, WorkerBlocks, WorkerTakes,
         WorkerWrites,
         WorkerFinishes, WorkerStops, Destroy, DestroyJoined, threads
    <3>5. CASE Close \/ UNCHANGED vars
      BY <1>6, <3>5 DEF Close, vars, threads
    <3>6. QED
      BY <1>6, <3>1, <3>2, <3>3, <3>4, <3>5 DEF Next
  <2>4. CASE RemoveDrains(t)
    <3>1. /\ ~WaitsForWorker(manager[t]) /\ Buffer' = [Buffer EXCEPT ![manager[t]] = <<>>]
          /\ batch' = [batch EXCEPT ![t] = Buffer[manager[t]]]
      BY <2>4 DEF RemoveDrains, TakeBatch
    <3>2. batch[manager[t]] = <<>>
      BY <2>2, <3>1 DEF WaitsForWorker
    <3>3. DOMAIN Buffer = Managers /\ DOMAIN batch = Threads \cup Managers /\ t \notin Managers
      BY ParameterFacts DEF DataShape
    <3>4. \A m \in Managers : Buffer'[m] = <<>> /\ batch'[m] = <<>>
      BY <2>2, <3>1, <3>2, <3>3
    <3>5. QED
      BY <3>4, Nothing DEF Without
  <2>5. CASE RemoveBackend(t)
    <3>1. /\ ~WaitsForWorker(manager[t]) /\ Buffer[manager[t]] = <<>>
          /\ record' = record
      BY <1>2, <1>6, <2>5 DEF RemoveBackend
    <3>2. batch[manager[t]] = <<>>
      BY <2>2, <3>1 DEF WaitsForWorker
    <3>3. Without(t)
      BY <2>2, <3>1, <3>2, AllWithout
    <3>4. QED
      BY <1>1, <3>1, <3>3, WithoutKept
  <2>6. QED
    BY <2>3, <2>4, <2>5
<1>7. QED
  BY <1>3, <1>5, <1>6
-----------------------------------------------------------------------------
(* The inductive invariant: the types, who has what, where the records are,   *)
(* in which order, what a flush waits for, and that nothing is left of the    *)
(* first backend that goes.                                                  *)
IndInv ==
  /\ DataShape /\ Base /\ Limited /\ Flushes
  /\ Owned /\ Kept /\ Taken /\ Ordered /\ Ignored
  /\ Waiting /\ FlushWrites /\ Quiet /\ Gone

LEMMA InitShapes ==
  ASSUME Init
  PROVE  DataShape /\ QueueShape /\ CallShape
<1>1. DataShape
  BY Nothing DEF Init, DataShape, None
<1>2. QueueShape
  BY DEF Init, QueueShape, WorkerLabels
<1>3. CallShape
  <2>1. Cardinality(Managers) \in Nat
    BY ParameterFacts
  <2>2. created \in 0..Cardinality(Managers) /\ Instance \in Known /\ None \in Known
    BY <2>1 DEF Init, Known, None
  <2>3. QED
    BY <2>2 DEF Init, CallShape, Labels
<1>4. QED
  BY <1>1, <1>2, <1>3

LEMMA InitControl ==
  ASSUME Init
  PROVE  Control /\ Working /\ Making
<1>1. Control
  BY DEF Init, Control, ControlOf, Displaying, Managing, Writing, Leaving
<1>2. Working
  <2>1. \A m \in Managers : batch[m] = <<>> /\ worker[m] = "none"
    BY DEF Init
  <2>2. QED
    BY <2>1 DEF Working, WorkingOf
<1>3. Making
  <2>1. \A m \in Known : m = None
    BY DEF Init, Known, None
  <2>2. \A t \in Threads : pc[t] = "idle"
    BY DEF Init
  <2>3. QED
    BY <2>1, <2>2 DEF Making, Made, MakingOf, Managing
<1>4. QED
  BY <1>1, <1>2, <1>3

LEMMA InitRecords ==
  ASSUME Init
  PROVE  Limited /\ Flushes /\ Owned /\ Kept /\ Taken /\ Ordered /\ Ignored /\ Waiting /\ FlushWrites
<1>1. /\ \A m \in Managers : Buffer[m] = <<>> /\ accepted[m] = <<>>
      /\ \A p \in Threads \cup Managers : batch[p] = <<>>
      /\ \A t \in Threads : record[t] = None /\ pending[t] = {} /\ pc[t] = "idle" /\ ~frozen[t]
      /\ written = <<>> /\ ignored = {} /\ owner = <<>> /\ flushes = 0
  BY DEF Init
<1>2. Limited
  <2>1. QueueLimit \in QueueLimits
    BY DEF Init
  <2>2. QueueLimit \in Nat
    BY <2>1, ParameterFacts
  <2>3. QED
    BY <1>1, <2>2, Nothing DEF Limited
<1>3. Flushes
  <2>1. {t \in Threads : frozen[t]} = {} /\ MaxFlushes \in Nat
    BY <1>1, QueueAssumption
  <2>2. Cardinality({t \in Threads : frozen[t]}) = 0
    BY <2>1, FS_EmptySet
  <2>3. QED
    BY <1>1, <2>1, <2>2 DEF Flushes
<1>4. Owned /\ Ignored /\ Waiting /\ FlushWrites
  BY <1>1 DEF Owned, Ignored, Waiting, FlushWrites
<1>5. Kept
  <2>1. \A x \in Places : Content[x] = {}
    BY <1>1, ContentNow, PlaceCases, Nothing
  <2>2. Apart(Content)
    BY <2>1, ContentNow DEF Apart
  <2>3. All(Content) = {}
    BY <2>1, ContentNow DEF All
  <2>4. 1..Len(owner) = {}
    BY <1>1, Nothing
  <2>5. QED
    BY <1>1, <2>2, <2>3, <2>4, Nothing DEF Kept
<1>6. Taken
  BY <1>1, Nothing DEF Taken
<1>7. Ordered
  <2>1. \A a : Precede({}, {}, a)
    BY PrecedeUnion
  <2>2. QED
    BY <1>1, <2>1, Nothing DEF Ordered
<1>8. QED
  BY <1>2, <1>3, <1>4, <1>5, <1>6, <1>7

LEMMA InitQuiet ==
  ASSUME Init
  PROVE  Quiet /\ Gone
<1>1. /\ \A m \in Managers : Buffer[m] = <<>> /\ batch[m] = <<>> /\ ~StopRequested[m]
      /\ \A t \in Threads : pc[t] = "idle" /\ ~Registered[t] /\ ~frozen[t]
      /\ created = 0 /\ Instance = 0 /\ drained = {}
  BY DEF Init, None
<1>2. \A t \in Threads : Without(t)
  BY <1>1, AllWithout
<1>3. Quiet
  <2>1. QuietManagers
    BY <1>1 DEF QuietManagers
  <2>2. \A t \in Threads : QuietCall(t)
    BY <1>1, <1>2 DEF QuietCall
  <2>3. QED
    BY <2>1, <2>2, QuietParts
<1>4. Gone
  BY <1>1 DEF Gone
<1>5. QED
  BY <1>3, <1>4

LEMMA IndInvInit ==
  Init => IndInv
BY InitShapes, InitControl, InitRecords, InitQuiet DEF IndInv, Base

LEMMA IndInvNext ==
  IndInv /\ [Next]_vars => IndInv'
<1> SUFFICES ASSUME IndInv, [Next]_vars PROVE IndInv'
  OBVIOUS
<1>1. /\ DataShape /\ Base /\ Limited /\ Flushes /\ Owned /\ Kept /\ Taken /\ Ordered /\ Ignored
      /\ Waiting /\ FlushWrites /\ Quiet /\ Gone /\ QueueShape /\ CallShape
  BY DEF IndInv, Base
<1>2. DataStep /\ Base' /\ QueueLimit' = QueueLimit /\ Known \subseteq Known'
  BY <1>1, StepIsData, NextControl, ConfigStays, KnownGrows
<1>3. DataShape' /\ Limited' /\ Owned' /\ Kept'
  BY <1>1, <1>2, DataShapeKept, LimitedKept, OwnedKept, KeptKept
<1>4. Taken' /\ Ordered'
  BY <1>1, <1>2, TakenKept, OrderedKept
<1>5. Flushes' /\ Ignored' /\ Waiting' /\ FlushWrites'
  BY <1>1, FlushesKept, IgnoredKept, WaitingKept, FlushWritesKept
<1>6. Quiet' /\ Gone'
  BY <1>1, QuietKept, GoneKept
<1>7. QED
  BY <1>2, <1>3, <1>4, <1>5, <1>6 DEF IndInv

-----------------------------------------------------------------------------
(* What the invariant says of the types and of each record. *)

(* At most one element is at most one. *)
LEMMA Single ==
  ASSUME NEW S, \A x, y \in S : x = y
  PROVE  Cardinality(S) = IF S = {} THEN 0 ELSE 1
<1>1. CASE S = {}
  BY <1>1, FS_EmptySet
<1>2. CASE S # {}
  <2>1. PICK x : x \in S
    BY <1>2
  <2>2. S = {x}
    BY <2>1
  <2>3. QED
    BY <1>2, <2>2, FS_Singleton
<1>3. QED
  BY <1>1, <1>2

LEMMA TypesHold ==
  ASSUME IndInv
  PROVE  TypeOK
<1>1. /\ DataShape /\ QueueShape /\ CallShape /\ Limited /\ Flushes /\ Kept /\ Taken /\ Waiting
      /\ Control
  BY DEF IndInv, Base
<1>2. /\ kind \in Kinds /\ policy \in Policies \cup {"block"} /\ QueueLimit \in QueueLimits
      /\ {StopRequested, Reschedule, Processing, stopping} \subseteq [Managers -> BOOLEAN]
      /\ \A m \in Managers : /\ Backends[m] \subseteq Threads
                             /\ worker[m] \in {"none", "test", "blocking", "blocked", "write",
                                               "finish", "stop", "ended"}
                             /\ life[m] \in {"alive", "join", "gone"}
  BY <1>1 DEF QueueShape, WorkerLabels
<1>3. /\ created \in 0..Cardinality(Managers) /\ Instance \in 0..created
      /\ factoryLock \in Threads \cup {None}
      /\ {Registered, frozen} \subseteq [Threads -> BOOLEAN]
      /\ \A t \in Threads : {Manager[t], manager[t]} \subseteq 0..created
  BY <1>1 DEF CallShape, Known
<1>4. \A m \in Managers : Len(Buffer[m]) <= QueueLimit
  BY <1>1 DEF Limited
<1>5. \A t \in Threads : record[t] \in 0..Len(owner)
  BY <1>1 DEF DataShape
<1>6. \A t \in Threads : pending[t] \subseteq 1..Len(owner)
  <2>1. \A t \in Threads : pc[t] \in Flushing => manager[t] \in Managers
    BY <1>1, CallFacts DEF Flushing, Managing, Labels
  <2>2. \A m \in Managers : ToSet(accepted[m]) \subseteq 1..Len(owner)
    BY <1>1 DEF Taken
  <2>3. QED
    BY <1>1, <2>1, <2>2 DEF Waiting
<1>7. ToSet(owner) \subseteq Threads
  BY <1>1, SeqRange DEF DataShape
<1>8. ignored \subseteq 1..Len(owner) /\ ToSet(written) \subseteq 1..Len(owner)
  <2>1. ignored \subseteq All(Content) /\ ToSet(written) \subseteq All(Content)
    BY ContentNow, PlaceCases DEF All
  <2>2. QED
    BY <1>1, <2>1 DEF Kept
<1>9. flushes \in 0..(MaxFlushes + Cardinality(Threads))
  <2> DEFINE F == {t \in Threads : frozen[t]}
  <2>1. IsFiniteSet(Threads) /\ F \subseteq Threads /\ MaxFlushes \in Nat
    BY QueueAssumption
  <2>2. flushes \in Nat /\ flushes <= MaxFlushes + Cardinality(F)
    BY <1>1 DEF Flushes
  <2> HIDE DEF F
  <2>3. IsFiniteSet(F) /\ Cardinality(F) <= Cardinality(Threads)
    BY <2>1, FS_Subset
  <2>4. Cardinality(F) \in Nat /\ Cardinality(Threads) \in Nat
    BY <2>1, <2>3, FS_CardinalityType
  <2>5. QED
    BY <2>1, <2>2, <2>3, <2>4
<1>10. QED
  BY <1>2, <1>3, <1>4, <1>5, <1>6, <1>7, <1>8, <1>9 DEF TypeOK

(* A record is in exactly one of the places, and is once in a sequence. *)
LEMMA CountedInOnePlace ==
  ASSUME IndInv, NEW r \in 1..Len(owner)
  PROVE  Cardinality({t \in Threads : record[t] = r})
         + Cardinality({m \in Managers : r \in ToSet(Buffer[m])})
         + Cardinality({p \in Threads \cup Managers : r \in ToSet(batch[p])})
         + Cardinality({i \in DOMAIN written : written[i] = r})
         + (IF r \in ignored THEN 1 ELSE 0) = 1
<1> DEFINE A == {t \in Threads : record[t] = r}
           B == {m \in Managers : r \in ToSet(Buffer[m])}
           C == {p \in Threads \cup Managers : r \in ToSet(batch[p])}
           D == {i \in DOMAIN written : written[i] = r}
           E == {n \in {None} : r \in ignored}
<1>1. DataShape /\ Kept
  BY DEF IndInv
<1>2. r # None
  <2>1. Len(owner) \in Nat
    BY <1>1, RecordFacts
  <2>2. QED
    BY <2>1 DEF None
<1>3. /\ \A t \in Threads : \A m \in Managers : record[t] # None => record[t] \notin ToSet(Buffer[m])
      /\ \A t \in Threads : \A p \in Threads \cup Managers :
           record[t] # None => record[t] \notin ToSet(batch[p])
      /\ \A t \in Threads : record[t] # None => record[t] \notin ToSet(written) \cup ignored
      /\ \A t, u \in Threads : record[t] # None /\ record[t] = record[u] => t = u
      /\ \A m, n \in Managers : m # n => ToSet(Buffer[m]) \cap ToSet(Buffer[n]) = {}
      /\ \A m \in Managers : \A p \in Threads \cup Managers : ToSet(Buffer[m]) \cap ToSet(batch[p]) = {}
      /\ \A m \in Managers : ToSet(Buffer[m]) \cap (ToSet(written) \cup ignored) = {}
      /\ \A p, q \in Threads \cup Managers : p # q => ToSet(batch[p]) \cap ToSet(batch[q]) = {}
      /\ \A p \in Threads \cup Managers : ToSet(batch[p]) \cap (ToSet(written) \cup ignored) = {}
      /\ ToSet(written) \cap ignored = {}
  BY <1>1, OnePlace
<1>4. r \in ToSet(written) <=> D # {}
  BY DEF ToSet
<1>5. /\ A # {} => B = {} /\ C = {} /\ D = {} /\ E = {}
      /\ B # {} => C = {} /\ D = {} /\ E = {}
      /\ C # {} => D = {} /\ E = {}
      /\ D # {} => E = {}
  <2>1. A # {} => B = {} /\ C = {} /\ D = {} /\ E = {}
    <3>1. ASSUME NEW t \in Threads, record[t] = r
          PROVE  /\ \A m \in Managers : r \notin ToSet(Buffer[m])
                 /\ \A p \in Threads \cup Managers : r \notin ToSet(batch[p])
                 /\ r \notin ToSet(written) /\ r \notin ignored
      BY <1>2, <1>3, <3>1
    <3>2. QED
      BY <1>4, <3>1
  <2>2. B # {} => C = {} /\ D = {} /\ E = {}
    <3>1. ASSUME NEW m \in Managers, r \in ToSet(Buffer[m])
          PROVE  /\ \A p \in Threads \cup Managers : r \notin ToSet(batch[p])
                 /\ r \notin ToSet(written) /\ r \notin ignored
      BY <1>3, <3>1
    <3>2. QED
      BY <1>4, <3>1
  <2>3. C # {} => D = {} /\ E = {}
    <3>1. ASSUME NEW p \in Threads \cup Managers, r \in ToSet(batch[p])
          PROVE  r \notin ToSet(written) /\ r \notin ignored
      BY <1>3, <3>1
    <3>2. QED
      BY <1>4, <3>1
  <2>4. D # {} => E = {}
    BY <1>3, <1>4
  <2>5. QED
    BY <2>1, <2>2, <2>3, <2>4
<1>6. A # {} \/ B # {} \/ C # {} \/ D # {} \/ E # {}
  <2>1. r \in All(Content)
    BY <1>1 DEF Kept
  <2>2. PICK x \in Places : r \in Content[x]
    BY <2>1, ContentNow DEF All
  <2>3. \/ \E t \in Threads : r = record[t]
        \/ \E m \in Managers : r \in ToSet(Buffer[m])
        \/ \E p \in Threads \cup Managers : r \in ToSet(batch[p])
        \/ r \in ToSet(written)
        \/ r \in ignored
    BY <2>2, ContentNow, PlaceCases
  <2>4. QED
    BY <1>4, <2>3
<1>7. /\ \A x, y \in A : x = y
      /\ \A x, y \in B : x = y
      /\ \A x, y \in C : x = y
      /\ \A x, y \in D : x = y
  <2>1. \A x, y \in A : x = y
    BY <1>2, <1>3
  <2>2. \A x, y \in B : x = y
    BY <1>3
  <2>3. \A x, y \in C : x = y
    BY <1>3
  <2>4. \A x, y \in D : x = y
    BY <1>1 DEF Kept, IsInjective
  <2>5. QED
    BY <2>1, <2>2, <2>3, <2>4
<1>8. E = {} <=> r \notin ignored
  OBVIOUS
<1> HIDE DEF A, B, C, D, E
<1>9. /\ Cardinality(A) = IF A = {} THEN 0 ELSE 1
      /\ Cardinality(B) = IF B = {} THEN 0 ELSE 1
      /\ Cardinality(C) = IF C = {} THEN 0 ELSE 1
      /\ Cardinality(D) = IF D = {} THEN 0 ELSE 1
  <2>1. Cardinality(A) = IF A = {} THEN 0 ELSE 1
    BY <1>7, Single
  <2>2. Cardinality(B) = IF B = {} THEN 0 ELSE 1
    BY <1>7, Single
  <2>3. Cardinality(C) = IF C = {} THEN 0 ELSE 1
    BY <1>7, Single
  <2>4. Cardinality(D) = IF D = {} THEN 0 ELSE 1
    BY <1>7, Single
  <2>5. QED
    BY <2>1, <2>2, <2>3, <2>4
<1>10. Cardinality(A) + Cardinality(B) + Cardinality(C) + Cardinality(D)
       + (IF r \in ignored THEN 1 ELSE 0) = 1
  BY <1>5, <1>6, <1>8, <1>9
<1>11. QED
  BY <1>10 DEF A, B, C, D

LEMMA RecordsKeptFollows ==
  IndInv => RecordsKept
<1> SUFFICES ASSUME IndInv PROVE RecordsKept
  OBVIOUS
<1>1. TypeOK
  BY TypesHold
<1>2. \A r \in 1..Len(owner) :
         Cardinality({t \in Threads : record[t] = r})
         + Cardinality({m \in Managers : r \in ToSet(Buffer[m])})
         + Cardinality({p \in Threads \cup Managers : r \in ToSet(batch[p])})
         + Cardinality({i \in DOMAIN written : written[i] = r})
         + (IF r \in ignored THEN 1 ELSE 0) = 1
  BY CountedInOnePlace
<1>3. ignored # {} => IsConsole /\ (policy # "block" \/ TRUE \in {StopRequested[m] : m \in Managers})
  BY DEF IndInv, Ignored
<1>4. \A m \in Managers \ drained : Sorted(written, accepted[m])
  BY DEF IndInv, Ordered
<1>5. \A m \in Managers \ drained : \A i, j \in DOMAIN written, k, l \in DOMAIN accepted[m] :
        i < j /\ written[i] = accepted[m][k] /\ written[j] = accepted[m][l] => k < l
  BY <1>4 DEF Sorted
<1>6. QED
  BY <1>1, <1>2, <1>3, <1>5 DEF RecordsKept

LEMMA OwnersPresentFollows ==
  IndInv => OwnersPresent
<1> SUFFICES ASSUME IndInv PROVE OwnersPresent
  OBVIOUS
<1>1. DataShape /\ Kept /\ Taken /\ Gone
  BY DEF IndInv
<1>2. ASSUME NEW m \in Managers PROVE ToSet(Buffer[m] \o batch[m]) = ToSet(Buffer[m]) \cup ToSet(batch[m])
  <2>1. Buffer[m] \in Seq(Records) /\ batch[m] \in Seq(Records)
    BY <1>1, RecordFacts
  <2>2. IsInjective(Buffer[m]) /\ IsInjective(batch[m])
    BY <1>1 DEF Kept
  <2>3. ToSet(Buffer[m]) \cap ToSet(batch[m]) = {}
    BY <1>1, OnePlace
  <2>4. QED
    BY <2>1, <2>2, <2>3, Joined
<1>3. \A m \in Managers : \A r \in ToSet(Buffer[m]) \cup ToSet(batch[m]) : r \in 1..Len(owner)
  BY <1>1 DEF Taken
<1>4. \A r \in 1..Len(owner) : owner[r] \in Threads
  BY <1>1, LenProperties, ElementOfSeq DEF DataShape
<1>5. ASSUME kind = "event log", ~closing, NEW m \in Managers, NEW r \in ToSet(Buffer[m] \o batch[m]),
             frozen[owner[r]], pc[owner[r]] = "idle", \A t \in Threads : frozen[t] => t = owner[r]
      PROVE  FALSE
  <2>1. r \in ToSet(Buffer[m]) \cup ToSet(batch[m])
    BY <1>2
  <2>2. owner[r] \in Threads
    BY <1>3, <1>4, <2>1
  <2>3. Without(owner[r])
    BY <1>1, <1>5, <2>2 DEF Gone
  <2>4. QED
    BY <2>1, <2>3 DEF Without
<1>6. QED
  BY <1>5 DEF OwnersPresent

(* The inductive invariant holds in every state of every behaviour. *)
THEOREM IndInvHolds == Spec => []IndInv
<1>1. QED
  BY IndInvInit, IndInvNext, PTL DEF Spec

(* Every record displayed is in one place, once, and a manager that only its  *)
(* worker empties writes in the order of Push.                               *)
THEOREM RecordsKeptHolds == Spec => []RecordsKept
<1>1. QED
  BY IndInvHolds, RecordsKeptFollows, PTL

(* Flush returns when what was taken before it is written, unless the manager *)
(* stops or others empty its queue.                                          *)
THEOREM FlushWritesHolds == Spec => []FlushWrites
<1>1. IndInv => FlushWrites
  BY DEF IndInv
<1>2. QED
  BY <1>1, IndInvHolds, PTL

(* An event log's first backend that goes leaves none of its records in a     *)
(* queue or with a worker (RemoveBackend).                                   *)
THEOREM OwnersPresentHolds == Spec => []OwnersPresent
<1>1. QED
  BY IndInvHolds, OwnersPresentFollows, PTL
=============================================================================
