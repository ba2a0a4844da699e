------------------------- MODULE FileManagersProofs -------------------------
(***************************************************************************)
(* Theorems about FileManagers, for any bounds and times.                   *)
(*                                                                         *)
(* ManagersInv rests on one fact: all backends are with one manager         *)
(* (HomeInv), because one that stops has lost its last and Add waits for    *)
(* its thread.  So whoever has asked is announced to the manager that has   *)
(* it (NotifiedInv), which keeps it in its list or in hand (ServedInv), and *)
(* that list is in the order of time as long as nobody was late with what   *)
(* he announced (OrderInv).  A record in a queue has a manager that will     *)
(* write it, or is left of a Flush() that has not returned (QueuedInv):      *)
(* when the Logger has gone, nobody is in a call, nobody has a manager and   *)
(* no manager has a backend, hence no backend a record.                      *)
(*                                                                         *)
(* For each action of the managers a lemma of the name <Action>Does says    *)
(* what it changes, one value at a time, and that the types are kept; for    *)
(* each part of the invariant a lemma shows that all actions keep it.       *)
(***************************************************************************)
EXTENDS FileManagers, FiniteSetTheorems, SequenceTheorems, TLAPS

(* Where the threads are, and what they hold there. *)
Adding  == {"add", "stop", "join", "drain", "provide"}
Holding == {"stop", "join", "drain", "announce", "drop"}

LabelsInv ==
  /\ at[Owner] \in {"idle", "channels", "join", "drain", "done"}
  /\ at[Flusher] \in {"idle", "publish", "enqueue", "notify", "announce", "drop", "flushing"}
  /\ \A b \in FileBackends :
       at[b] \in Adding \cup {"idle", "register", "append", "notify", "announce", "drop"}

(* A backend that is being added is not registered and is not frozen. *)
AddingInv ==
  \A b \in FileBackends :
    /\ at[b] \in Adding \cup {"register"} => ~ Registered[b] /\ ~ ShutdownFlag[b]
    /\ at[b] = "append" => Registered[b] /\ ~ ShutdownFlag[b]

(* When the Owner has begun nobody adds or flushes, and when he has left the    *)
(* channels every backend is frozen and idle.                                 *)
OwnerInv ==
  /\ at[Owner] # "idle" =>
       /\ at[Flusher] = "idle"
       /\ \A b \in FileBackends : at[b] \in {"idle", "notify", "announce", "drop"}
  /\ at[Owner] \in {"join", "drain", "done"} =>
       Instance = 0 /\ \A b \in FileBackends : at[b] = "idle" /\ ShutdownFlag[b]

(* What a thread that waits or notifies has at hand. *)
FlushedInv ==
  /\ flushed = NoBackend <=> at[Flusher] = "idle"
  /\ flushed # NoBackend => Registered[flushed] \/ ShutdownFlag[flushed]

HeldInv ==
  \A t \in Clients :
    /\ held[t] # 0 <=> at[t] \in Holding
    /\ at[t] \in {"notify", "announce"} => when[t] # NoTime

ClientsInv ==
  /\ LabelsInv
  /\ AddingInv
  /\ OwnerInv
  /\ FlushedInv
  /\ HeldInv

(* A manager's thread has a backend in hand between its loops. *)
RunningInv ==
  \A m \in Managers :
    /\ place[m] \in {"none", "loop", "wait", "exited", "gone"} => running[m] = NoBackend
    /\ place[m] \in {"work", "again", "remove", "shutdown"} => running[m] \in FileBackends

(* Managers are used when they have been created, in their order. *)
CreatedInv ==
  \A m \in Managers :
    /\ place[m] # "none" <=> m <= created
    /\ StopRequested[m] => m <= created
    /\ \A t \in Clients : held[t] = m => m <= created

(* A manager that is no longer the factory's is stopping, and so is that one      *)
(* when the Owner has begun; until its thread has left somebody waits for it.   *)
StoppingInv ==
  \A m \in Managers :
    /\ place[m] \in {"exited", "destroy", "gone"} => StopRequested[m]
    /\ place[m] # "none" /\ (m # Instance \/ at[Owner] # "idle") => StopRequested[m]
    /\ Live(m) /\ m # Instance => \E t \in Clients : held[t] = m /\ at[t] \in {"stop", "join"}

(* While it is destroyed one thread waits for that and nobody else has a        *)
(* reference.                                                                *)
DestroyInv ==
  \A m \in Managers :
    /\ place[m] \in {"destroy", "gone"} =>
         m # Instance /\ \A t \in Clients : held[t] = m => at[t] \in {"drain", "drop"}
    /\ place[m] = "destroy" => \E t \in Clients : held[t] = m
    /\ place[m] = "gone" => Backends[m] = {}
    /\ \A t \in Clients :
         /\ held[t] = m /\ at[t] \in {"stop", "join", "drain", "drop"} => m # Instance
         /\ held[t] = m /\ at[t] \in {"drain", "drop"} => place[m] \in {"destroy", "gone"}

PlacesInv ==
  /\ RunningInv
  /\ CreatedInv
  /\ StoppingInv
  /\ DestroyInv

(* The manager that has all backends: the factory's, or the one that the Owner *)
(* ends.                                                                      *)
CurrentManager == IF at[Owner] \in {"join", "drain"} THEN held[Owner] ELSE Instance

(* Only one manager has backends, and all that are registered are there. *)
HomeInv ==
  /\ \A m \in Managers : Backends[m] # {} => m = CurrentManager
  /\ \A b \in FileBackends : Registered[b] \/ at[b] = "register" =>
       CurrentManager # 0 /\ b \in Backends[CurrentManager]

ActiveInv ==
  \A m \in Managers : \A b \in ToSet(Active[m]) : b \in Backends[m] /\ Registered[b]

(* A backend in hand is registered until it has been removed. *)
HandInv ==
  \A m \in Managers :
    /\ place[m] \in {"work", "again", "remove"} =>
         running[m] \in Backends[m] /\ Registered[running[m]]
    /\ place[m] \in {"remove", "shutdown", "destroy"} =>
         running[m] = NoBackend \/ ShutdownFlag[running[m]]
    /\ place[m] \in {"shutdown", "destroy"} =>
          running[m] = NoBackend \/ ~ Registered[running[m]]

UnregisteredInv ==
  \A b \in FileBackends : ~ Registered[b] => FlushTime[b] = NoTime \/ ShutdownFlag[b]

BackendsInv ==
  /\ HomeInv
  /\ ActiveInv
  /\ HandInv
  /\ UnregisteredInv

(* A manager stops when its last backend has been frozen; the other one can     *)
(* then be added too late, and nobody replaces that manager any more.          *)
FrozenInv ==
  at[Owner] = "idle" => \A m \in Managers : StopRequested[m] =>
    /\ Backends[m] \subseteq late
    /\ \E b \in FileBackends : ShutdownFlag[b] /\ ~ Registered[b]

LateInv ==
  at[Owner] = "idle" /\ late # {} =>
    /\ Instance # 0
    /\ StopRequested[Instance]
    /\ \A b \in FileBackends :
         /\ at[b] \notin Adding
         /\ Registered[b] \/ ShutdownFlag[b] \/ at[b] = "register"

StopInv ==
  /\ FrozenInv
  /\ LateInv

(* Flusher has records in its hands between two locks only. *)
TakenInv == taken > 0 => at[Flusher] = "enqueue"

(* A record that is stored has a manager that will write it, or is published    *)
(* by a Flush that has not returned.                                          *)
Stored(b) == current[b] + ready[b] > 0

QueuedInv ==
  \A b \in FileBackends : Stored(b) =>
    \/ Registered[b]
    \/ flushed = b
    \/ \E m \in Managers : running[m] = b /\ place[m] \in {"shutdown", "destroy"}

(* Who tells a manager of a registered backend tells the one that has it. *)
NotifiedInv ==
  \A t \in Clients : at[t] = "announce" =>
    (Registered[IF t = Flusher THEN flushed ELSE t] => held[t] = Instance)

ServedInv ==
  \A b \in FileBackends \ late :
    FlushTime[b] # NoTime /\ Registered[b] /\ at[Owner] = "idle" =>
      Announcing(b) \/ b = running[Instance] \/ b \in ToSet(Active[Instance])

(* The factory's manager, while it is at work and has been told of nothing      *)
(* outdated.                                                                 *)
InUse ==
  /\ at[Owner] = "idle"
  /\ Instance # 0
  /\ ~ StopRequested[Instance]
  /\ Instance \notin outdated

(* What is in its list has asked, unless it is in hand. *)
AskedInv ==
  InUse => \A b \in ToSet(Active[Instance]) : FlushTime[b] = NoTime => b = running[Instance]

(* The list is in order, but for a backend in hand and one about to be          *)
(* announced again.                                                          *)
SortedInv ==
  InUse => \A x, y \in FileBackends :
    Active[Instance] = <<x, y>> /\ x # y =>
      \/ FlushTime[x] <= FlushTime[y]
      \/ running[Instance] \in {x, y}
      \/ Announcing(y)

SleepInv ==
  InUse /\ place[Instance] = "wait" /\ ~ Reschedule[Instance] =>
    \A b \in ToSet(Active[Instance]) :
      Announcing(b) \/ CurrentEarliestTime[Instance] <= FlushTime[b]

OrderInv ==
  /\ AskedInv
  /\ SortedInv
  /\ SleepInv

ManagersInv ==
  /\ TypesOK
  /\ ClientsInv
  /\ PlacesInv
  /\ BackendsInv
  /\ StopInv
  /\ TakenInv
  /\ QueuedInv
  /\ NotifiedInv
  /\ ServedInv
  /\ OrderInv

----------------------------------------------------------------------------
(* Constants                                                                 *)

(* The times in their order. *)
LEMMA TimesAre ==
  /\ NoTime = -1 /\ RIGHT_NOW = 0 /\ Due = 1
  /\ FlushAfter \in Nat /\ FlushAfter > 0 /\ Later = 1 + FlushAfter /\ Never = Later + 1
  /\ Times = 0..Later /\ NoTime \notin Times /\ Never \notin Times
  /\ \A t \in Times : t \in Int /\ 0 <= t /\ t < Never
  /\ {NoTime, Never, Due, Later, RIGHT_NOW} \subseteq Int
  /\ {RIGHT_NOW, Due, Later} \subseteq Times
BY NumbersAssumption DEF NoTime, RIGHT_NOW, Due, Later, Never, Times

(* The threads are different ones. *)
LEMMA ClientsAre ==
  /\ Clients = FileBackends \cup {Flusher, Owner}
  /\ Flusher \notin FileBackends /\ Owner \notin FileBackends /\ Flusher # Owner
  /\ NoBackend \notin FileBackends
  /\ Managers = 1..MaxManagers /\ MaxManagers \in Nat /\ 0 \notin Managers
BY ClientsAssumption, NumbersAssumption DEF Clients, Managers

(* There are two backends at most. *)
LEMMA TwoBackends ==
  ASSUME NEW x \in FileBackends, NEW y \in FileBackends, NEW z \in FileBackends, x # y
  PROVE  z \in {x, y}
<1> SUFFICES ASSUME z \notin {x, y} PROVE FALSE
  OBVIOUS
<1>1. IsFiniteSet({x}) /\ Cardinality({x}) = 1
  BY FS_Singleton
<1>2. IsFiniteSet({x} \cup {y}) /\ Cardinality({x} \cup {y}) = 2
  BY <1>1, FS_AddElement
<1>3. IsFiniteSet(({x} \cup {y}) \cup {z}) /\ Cardinality(({x} \cup {y}) \cup {z}) = 3
  <2>1. z \notin {x} \cup {y}
    OBVIOUS
  <2>2. QED
    BY <1>2, <2>1, FS_AddElement
<1>4. ({x} \cup {y}) \cup {z} \subseteq FileBackends
  OBVIOUS
<1>5. 3 <= Cardinality(FileBackends)
  BY <1>3, <1>4, FS_Subset, ClientsAssumption
<1>6. Cardinality(FileBackends) \in Nat /\ Cardinality(FileBackends) <= 2
  BY FS_CardinalityType, ClientsAssumption
<1>7. QED
  BY <1>5, <1>6

----------------------------------------------------------------------------
(* Lists                                                                     *)

(* A list has a backend once at most. *)
IsList(s) == s \in Seq(FileBackends) /\ IsInjective(s)

(* The lists there are. *)
LEMMA EmptyList ==
  IsList(<<>>) /\ ToSet(<<>>) = {} /\ DOMAIN <<>> = {} /\ Len(<<>>) = 0
BY DEF IsList, ToSet, IsInjective

LEMMA OneList ==
  ASSUME NEW x \in FileBackends
  PROVE  /\ IsList(<<x>>) /\ ToSet(<<x>>) = {x} /\ DOMAIN <<x>> = {1} /\ Len(<<x>>) = 1
         /\ <<x>>[1] = x /\ <<x>> # <<>> /\ Head(<<x>>) = x /\ Tail(<<x>>) = <<>>
BY DEF IsList, ToSet, IsInjective

LEMMA TwoList ==
  ASSUME NEW x \in FileBackends, NEW y \in FileBackends, x # y
  PROVE  /\ IsList(<<x, y>>) /\ ToSet(<<x, y>>) = {x, y} /\ DOMAIN <<x, y>> = {1, 2}
         /\ Len(<<x, y>>) = 2 /\ <<x, y>>[1] = x /\ <<x, y>>[2] = y
         /\ <<x, y>> # <<>> /\ Head(<<x, y>>) = x /\ Tail(<<x, y>>) = <<y>>
<1>1. DOMAIN <<x, y>> = {1, 2} /\ <<x, y>>[1] = x /\ <<x, y>>[2] = y /\ Len(<<x, y>>) = 2
  OBVIOUS
<1>2. ToSet(<<x, y>>) = {x, y}
  BY <1>1 DEF ToSet
<1>3. <<x, y>> \in Seq(FileBackends) /\ IsInjective(<<x, y>>)
  BY <1>1 DEF IsInjective
<1>4. Head(<<x, y>>) = x /\ Tail(<<x, y>>) = <<y>>
  <2>1. Tail(<<x, y>>) = SubSeq(<<x, y>>, 2, 2)
    BY <1>1, <1>3, TailIsSubSeq
  <2>2. QED
    BY <1>1, <2>1
<1>5. QED
  BY <1>1, <1>2, <1>3, <1>4 DEF IsList

(* And no others. *)
LEMMA ListForms ==
  ASSUME NEW s, IsList(s)
  PROVE  \/ s = <<>>
         \/ \E x \in FileBackends : s = <<x>>
         \/ \E x, y \in FileBackends : x # y /\ s = <<x, y>>
<1>1. /\ s \in Seq(FileBackends) /\ Len(s) \in Nat /\ DOMAIN s = 1..Len(s)
      /\ \A i \in 1..Len(s) : s[i] \in FileBackends
      /\ \A i, j \in 1..Len(s) : s[i] = s[j] => i = j
  BY LenProperties DEF IsList, IsInjective
<1>2. Len(s) <= 2
  <2> SUFFICES ASSUME Len(s) >= 3 PROVE FALSE
    BY <1>1
  <2>1. 1 \in 1..Len(s) /\ 2 \in 1..Len(s) /\ 3 \in 1..Len(s)
    BY <1>1
  <2>2. s[1] # s[2] /\ s[3] # s[1] /\ s[3] # s[2]
    BY <1>1, <2>1
  <2>3. s[1] \in FileBackends /\ s[2] \in FileBackends /\ s[3] \in FileBackends
    BY <1>1, <2>1
  <2>4. QED
    BY <2>2, <2>3, TwoBackends
<1>3. CASE Len(s) = 0
  BY <1>1, <1>3
<1>4. CASE Len(s) = 1
  <2>1. s[1] \in FileBackends
    BY <1>1, <1>4
  <2>2. <<s[1]>> \in Seq(FileBackends) /\ Len(<<s[1]>>) = 1 /\ <<s[1]>>[1] = s[1]
    BY <2>1
  <2>3. s = <<s[1]>>
    BY <1>1, <1>4, <2>2, SeqEqual
  <2>4. QED
    BY <2>1, <2>3
<1>5. CASE Len(s) = 2
  <2>1. s[1] \in FileBackends /\ s[2] \in FileBackends /\ s[1] # s[2]
    BY <1>1, <1>5
  <2>2. /\ <<s[1], s[2]>> \in Seq(FileBackends) /\ Len(<<s[1], s[2]>>) = 2
        /\ <<s[1], s[2]>>[1] = s[1] /\ <<s[1], s[2]>>[2] = s[2]
    BY <2>1
  <2>3. \A i \in 1..Len(s) : s[i] = <<s[1], s[2]>>[i]
    BY <1>5, <2>2
  <2>4. s = <<s[1], s[2]>>
    BY <1>1, <1>5, <2>2, <2>3, SeqEqual
  <2>5. QED
    BY <2>1, <2>4
<1>6. QED
  BY <1>1, <1>2, <1>3, <1>4, <1>5

(* Pieces of lists, put together. *)
LEMMA PieceOfList ==
  ASSUME NEW s \in Seq(FileBackends), NEW i \in 1..Len(s)
  PROVE  SubSeq(s, i, i) = <<s[i]>>
<1>1. Len(s) \in Nat /\ i \in Int /\ s[i] \in FileBackends
  BY LenProperties
<1>2. \A j \in i..i : s[j] \in FileBackends
  BY <1>1
<1>3. /\ SubSeq(s, i, i) \in Seq(FileBackends)
      /\ Len(SubSeq(s, i, i)) = IF i <= i THEN i - i + 1 ELSE 0
      /\ \A k \in 1..(i - i + 1) : SubSeq(s, i, i)[k] = s[i + k - 1]
  BY <1>1, <1>2, SubSeqProperties
<1>4. Len(SubSeq(s, i, i)) = 1 /\ SubSeq(s, i, i)[1] = s[i]
  BY <1>1, <1>3
<1>5. <<s[i]>> \in Seq(FileBackends) /\ Len(<<s[i]>>) = 1 /\ <<s[i]>>[1] = s[i]
  BY <1>1
<1>6. \A k \in 1..Len(SubSeq(s, i, i)) : SubSeq(s, i, i)[k] = <<s[i]>>[k]
  BY <1>4, <1>5
<1>7. QED
  BY <1>3, <1>4, <1>5, <1>6, SeqEqual

LEMMA PutTogether ==
  ASSUME NEW x \in FileBackends, NEW y \in FileBackends
  PROVE  /\ <<>> \o <<x>> = <<x>> /\ <<x>> \o <<>> = <<x>> /\ Append(<<>>, x) = <<x>>
         /\ <<x>> \o <<y>> = <<x, y>> /\ Append(<<x>>, y) = <<x, y>>
<1>1. /\ <<x>> \in Seq(FileBackends) /\ <<y>> \in Seq(FileBackends)
      /\ <<x, y>> \in Seq(FileBackends) /\ <<>> \in Seq(FileBackends)
      /\ Len(<<x>>) = 1 /\ Len(<<y>>) = 1 /\ Len(<<x, y>>) = 2 /\ Len(<<>>) = 0
      /\ <<x>>[1] = x /\ <<y>>[1] = y /\ <<x, y>>[1] = x /\ <<x, y>>[2] = y
  OBVIOUS
<1>2. <<>> \o <<x>> = <<x>> /\ <<x>> \o <<>> = <<x>>
  BY <1>1, ConcatEmptySeq
<1>3. Append(<<>>, x) = <<x>>
  <2>1. /\ Append(<<>>, x) \in Seq(FileBackends) /\ Len(Append(<<>>, x)) = 0 + 1
        /\ Append(<<>>, x)[0 + 1] = x
    BY <1>1, AppendProperties
  <2>2. \A i \in 1..Len(Append(<<>>, x)) : Append(<<>>, x)[i] = <<x>>[i]
    BY <1>1, <2>1
  <2>3. Len(Append(<<>>, x)) = Len(<<x>>)
    BY <1>1, <2>1
  <2> DEFINE a == Append(<<>>, x)
             c == <<x>>
  <2>4. /\ a \in Seq(FileBackends) /\ c \in Seq(FileBackends) /\ Len(a) = Len(c)
        /\ \A i \in 1..Len(a) : a[i] = c[i]
    BY <1>1, <2>1, <2>2, <2>3
  <2> HIDE DEF a, c
  <2>5. a = c
    BY <2>4, SeqEqual
  <2>6. QED
    BY <2>5 DEF a, c
<1>4. <<x>> \o <<y>> = <<x, y>>
  <2>1. /\ <<x>> \o <<y>> \in Seq(FileBackends) /\ Len(<<x>> \o <<y>>) = 1 + 1
        /\ \A i \in 1..1 + 1 : (<<x>> \o <<y>>)[i] = IF i <= 1 THEN <<x>>[i] ELSE <<y>>[i - 1]
    BY <1>1, ConcatProperties
  <2>2. \A i \in 1..Len(<<x>> \o <<y>>) : (<<x>> \o <<y>>)[i] = <<x, y>>[i]
    BY <1>1, <2>1
  <2>3. Len(<<x>> \o <<y>>) = Len(<<x, y>>)
    BY <1>1, <2>1
  <2> DEFINE a == <<x>> \o <<y>>
             c == <<x, y>>
  <2>4. /\ a \in Seq(FileBackends) /\ c \in Seq(FileBackends) /\ Len(a) = Len(c)
        /\ \A i \in 1..Len(a) : a[i] = c[i]
    BY <1>1, <2>1, <2>2, <2>3, Zenon
  <2> HIDE DEF a, c
  <2>5. a = c
    BY <2>4, SeqEqual
  <2>6. QED
    BY <2>5 DEF a, c
<1>5. Append(<<x>>, y) = <<x, y>>
  <2>1. /\ Append(<<x>>, y) \in Seq(FileBackends) /\ Len(Append(<<x>>, y)) = 1 + 1
        /\ \A i \in 1..1 : Append(<<x>>, y)[i] = <<x>>[i]
        /\ Append(<<x>>, y)[1 + 1] = y
    BY <1>1, AppendProperties
  <2>2. \A i \in 1..Len(Append(<<x>>, y)) : Append(<<x>>, y)[i] = <<x, y>>[i]
    BY <1>1, <2>1
  <2>3. Len(Append(<<x>>, y)) = Len(<<x, y>>)
    BY <1>1, <2>1
  <2> DEFINE a == Append(<<x>>, y)
             c == <<x, y>>
  <2>4. /\ a \in Seq(FileBackends) /\ c \in Seq(FileBackends) /\ Len(a) = Len(c)
        /\ \A i \in 1..Len(a) : a[i] = c[i]
    BY <1>1, <2>1, <2>2, <2>3, Zenon
  <2> HIDE DEF a, c
  <2>5. a = c
    BY <2>4, SeqEqual
  <2>6. QED
    BY <2>5 DEF a, c
<1>6. QED
  BY <1>2, <1>3, <1>4, <1>5

(* A backend is taken off. *)
LEMMA WithoutIs ==
  ASSUME NEW s, IsList(s), NEW b \in FileBackends
  PROVE  /\ IsList(Without(s, b)) /\ ToSet(Without(s, b)) = ToSet(s) \ {b}
         /\ Without(s, b) = s \/ Len(Without(s, b)) < 2
         /\ Without(s, b) = <<>> \/ (\E y \in FileBackends : y # b /\ Without(s, b) = <<y>>)
            \/ Without(s, b) = s
         /\ b \in ToSet(s) => Without(s, b) = <<>> \/ \E y \in FileBackends :
               Without(s, b) = <<y>>
<1>1. CASE b \notin ToSet(s)
  <2>1. Without(s, b) = s
    BY <1>1 DEF Without
  <2>2. QED
    BY <1>1, <2>1
<1>2. CASE b \in ToSet(s)
  <2> DEFINE k == CHOOSE i \in DOMAIN s : s[i] = b
  <2>1. Without(s, b) = SubSeq(s, 1, k - 1) \o SubSeq(s, k + 1, Len(s))
    BY <1>2 DEF Without, RemoveAt
  <2>2. k \in DOMAIN s /\ s[k] = b
    BY <1>2 DEF ToSet
  <2> HIDE DEF k
  <2>3. CASE \E x \in FileBackends : s = <<x>>
    <3>1. PICK x \in FileBackends : s = <<x>>
      BY <2>3
    <3>2. k = 1 /\ x = b
      BY <2>2, <3>1, OneList
    <3>3. Len(s) = 1 /\ ToSet(s) = {b}
      BY <3>1, <3>2, OneList
    <3>4. SubSeq(s, 1, 0) = <<>> /\ SubSeq(s, 2, 1) = <<>>
      BY SubSeqEmpty
    <3>5. Without(s, b) = <<>> \o <<>>
      BY <2>1, <3>2, <3>3, <3>4
    <3>6. Without(s, b) = <<>>
      BY <3>5
    <3>7. QED
      BY <3>3, <3>6, EmptyList
  <2>4. CASE \E x, y \in FileBackends : x # y /\ s = <<x, y>>
    <3>1. PICK x \in FileBackends, y \in FileBackends : x # y /\ s = <<x, y>>
      BY <2>4
    <3>2. /\ ToSet(s) = {x, y} /\ DOMAIN s = {1, 2} /\ Len(s) = 2 /\ s[1] = x /\ s[2] = y
          /\ s \in Seq(FileBackends)
      BY <3>1, TwoList DEF IsList
    <3>3. CASE k = 1
      <4>1. SubSeq(s, 1, 0) = <<>>
        BY SubSeqEmpty
      <4>2. SubSeq(s, 2, 2) = <<y>>
        <5>1. 2 \in 1..Len(s)
          BY <3>2
        <5>2. QED
          BY <3>2, <5>1, PieceOfList
      <4>3. Without(s, b) = <<>> \o <<y>>
        <5>1. k - 1 = 0 /\ k + 1 = 2
          BY <3>3
        <5>2. QED
          BY <2>1, <3>2, <4>1, <4>2, <5>1
      <4>4. Without(s, b) = <<y>> /\ b = x
        BY <2>2, <3>2, <3>3, <4>3, PutTogether
      <4>5. QED
        BY <3>1, <3>2, <4>4, OneList
    <3>4. CASE k = 2
      <4>1. SubSeq(s, 3, 2) = <<>>
        BY SubSeqEmpty
      <4>2. SubSeq(s, 1, 1) = <<x>>
        <5>1. 1 \in 1..Len(s)
          BY <3>2
        <5>2. QED
          BY <3>2, <5>1, PieceOfList
      <4>3. Without(s, b) = <<x>> \o <<>>
        <5>1. k - 1 = 1 /\ k + 1 = 3
          BY <3>4
        <5>2. QED
          BY <2>1, <3>2, <4>1, <4>2, <5>1
      <4>4. Without(s, b) = <<x>> /\ b = y
        BY <2>2, <3>2, <3>4, <4>3, PutTogether
      <4>5. QED
        BY <3>1, <3>2, <4>4, OneList
    <3>5. QED
      BY <2>2, <3>2, <3>3, <3>4
  <2>5. CASE s = <<>>
    BY <1>2, <2>5, EmptyList
  <2>6. QED
    BY <2>3, <2>4, <2>5, ListForms
<1>3. QED
  BY <1>1, <1>2

(* The head is taken off. *)
LEMMA TailIs ==
  ASSUME NEW s, IsList(s), s # <<>>
  PROVE  /\ Head(s) \in FileBackends /\ Head(s) \in ToSet(s) /\ s[1] = Head(s) /\ 1 \in DOMAIN s
         /\ IsList(Tail(s)) /\ ToSet(Tail(s)) = ToSet(s) \ {Head(s)} /\ Len(Tail(s)) < 2
<1>1. CASE \E x \in FileBackends : s = <<x>>
  BY <1>1, OneList, EmptyList
<1>2. CASE \E x, y \in FileBackends : x # y /\ s = <<x, y>>
  <2>1. PICK x \in FileBackends, y \in FileBackends : x # y /\ s = <<x, y>>
    BY <1>2
  <2>2. Tail(s) = <<y>> /\ Head(s) = x /\ ToSet(s) = {x, y} /\ s[1] = x /\ 1 \in DOMAIN s
    BY <2>1, TwoList
  <2>3. QED
    BY <2>1, <2>2, OneList
<1>3. QED
  BY <1>1, <1>2, ListForms

(* What wants nothing is dropped from the front. *)
LEMMA WithoutStaleIs ==
  ASSUME NEW s, IsList(s)
  PROVE  /\ IsList(WithoutStale(s)) /\ ToSet(WithoutStale(s)) \subseteq ToSet(s)
         /\ \A b \in ToSet(s) : FlushTime[b] # NoTime => b \in ToSet(WithoutStale(s))
         /\ WithoutStale(s) # <<>> => FlushTime[Head(WithoutStale(s))] # NoTime
         /\ WithoutStale(s) = s \/ Len(WithoutStale(s)) < 2
<1> DEFINE asked == {i \in DOMAIN s : FlushTime[s[i]] # NoTime}
           first == CHOOSE i \in asked : \A j \in asked : i <= j
<1>1. WithoutStale(s) = IF asked = {} THEN <<>> ELSE SubSeq(s, first, Len(s))
  BY DEF WithoutStale
<1>2. CASE asked = {}
  <2>1. WithoutStale(s) = <<>> /\ \A b \in ToSet(s) : FlushTime[b] = NoTime
    BY <1>1, <1>2 DEF ToSet
  <2>2. QED
    BY <2>1, EmptyList
<1>3. CASE asked # {} /\ \E x \in FileBackends : s = <<x>>
  <2>1. PICK x \in FileBackends : s = <<x>>
    BY <1>3
  <2>2. DOMAIN s = {1} /\ s[1] = x /\ Len(s) = 1 /\ Head(s) = x /\ s \in Seq(FileBackends)
    BY <2>1, OneList DEF IsList
  <2>3. asked = {1} /\ FlushTime[x] # NoTime
    BY <1>3, <2>2
  <2>4. first = 1
    BY <2>3
  <2>5. SubSeq(s, 1, 1) = s
    BY <2>2, SubSeqFull
  <2>6. WithoutStale(s) = s
    BY <1>1, <2>2, <2>3, <2>4, <2>5
  <2>7. QED
    BY <2>2, <2>3, <2>6
<1>4. CASE asked # {} /\ \E x, y \in FileBackends : x # y /\ s = <<x, y>>
  <2>1. PICK x \in FileBackends, y \in FileBackends : x # y /\ s = <<x, y>>
    BY <1>4
  <2>2. /\ DOMAIN s = {1, 2} /\ s[1] = x /\ s[2] = y /\ Len(s) = 2 /\ Head(s) = x
        /\ s \in Seq(FileBackends) /\ ToSet(s) = {x, y}
    BY <2>1, TwoList DEF IsList
  <2>3. CASE FlushTime[x] # NoTime
    <3>1. 1 \in asked /\ \A j \in asked : 1 <= j
      BY <2>2, <2>3
    <3>2. first \in asked /\ \A j \in asked : first <= j
      BY <3>1
    <3>3. first = 1
      <4>1. first \in {1, 2} /\ first <= 1
        BY <2>2, <3>1, <3>2
      <4> HIDE DEF first
      <4>2. QED
        BY <4>1
    <3>4. SubSeq(s, 1, 2) = s
      BY <2>2, SubSeqFull
    <3>5. WithoutStale(s) = s
      BY <1>1, <1>4, <2>2, <3>3, <3>4
    <3>6. QED
      BY <2>2, <2>3, <3>5
  <2>4. CASE FlushTime[x] = NoTime
    <3>1. asked = {2} /\ FlushTime[y] # NoTime
      BY <1>4, <2>2, <2>4
    <3>2. first = 2
      BY <3>1
    <3>3. SubSeq(s, 2, 2) = <<y>>
      <4>1. 2 \in 1..Len(s)
        BY <2>2
      <4>2. QED
        BY <2>2, <4>1, PieceOfList
    <3>4. WithoutStale(s) = <<y>>
      BY <1>1, <1>4, <2>2, <3>2, <3>3
    <3>5. QED
      BY <2>2, <2>4, <3>1, <3>4, OneList
  <2>5. QED
    BY <2>3, <2>4
<1>5. CASE s = <<>>
  BY <1>2, <1>5, EmptyList
<1>6. QED
  BY <1>2, <1>3, <1>4, <1>5, ListForms

(* A backend is put where its time belongs. *)
LEMMA ActivateIs ==
  ASSUME NEW s, IsList(s), NEW b \in FileBackends, NEW time \in Times,
         FlushTime \in [FileBackends -> Times \cup {NoTime}]
  PROVE  /\ IsList(Activate(s, b, time)) /\ ToSet(Activate(s, b, time)) = ToSet(s) \cup {b}
         /\ \/ Activate(s, b, time) = <<b>>
            \/ \E y \in FileBackends :
                 /\ y # b
                 /\ \/ Activate(s, b, time) = <<b,
                          y>> /\ (time = RIGHT_NOW \/ time < FlushTime[y])
                    \/ Activate(s, b, time) = <<y, b>> /\ FlushTime[y] <= time
<1> DEFINE rest  == Without(s, b)
           Fits  == FlushTime[Last(rest)] # RIGHT_NOW /\ FlushTime[Last(rest)] <= time
           later == {i \in DOMAIN rest : FlushTime[rest[i]] > time}
           first == CHOOSE i \in later : \A j \in later : i <= j
<1>0. time \in Int /\ time >= 0 /\ time # NoTime /\ RIGHT_NOW = 0
  BY TimesAre
<1>1. Activate(s, b, time) = IF time = RIGHT_NOW THEN <<b>> \o rest
                             ELSE IF rest = <<>> \/ later = {} \/ Fits THEN Append(rest, b)
                             ELSE InsertAt(rest, first, b)
  BY <1>0 DEF Activate
<1>2. ToSet(rest) = ToSet(s) \ {b}
  BY WithoutIs
<1>3. rest = <<>> \/ \E y \in FileBackends : y # b /\ rest = <<y>>
  <2>1. IsList(rest)
    BY WithoutIs
  <2>2. ASSUME NEW y \in FileBackends, rest = <<y>> PROVE y # b
    BY <1>2, <2>2, OneList
  <2>3. ASSUME NEW x \in FileBackends, NEW y \in FileBackends, x # y, rest = <<x, y>>
          PROVE FALSE
    <3>1. x \in ToSet(rest) /\ y \in ToSet(rest)
      BY <2>3, TwoList
    <3>2. QED
      BY <1>2, <2>3, <3>1, TwoBackends
  <2> HIDE DEF rest
  <2>4. QED
    BY <2>1, <2>2, <2>3, ListForms
<1>4. CASE rest = <<>>
  <2>1. Activate(s, b, time) = <<b>>
    <3>1. <<b>> \o <<>> = <<b>> /\ Append(<<>>, b) = <<b>>
      BY PutTogether
    <3> HIDE DEF rest, Fits, later, first
    <3>2. QED
      BY <1>1, <1>4, <3>1
  <2>2. ToSet(s) \cup {b} = {b}
    BY <1>2, <1>4, EmptyList
  <2>3. QED
    BY <2>1, <2>2, OneList
<1>5. CASE \E y \in FileBackends : y # b /\ rest = <<y>>
  <2>1. PICK y \in FileBackends : y # b /\ rest = <<y>>
    BY <1>5
  <2>2. ToSet(s) \cup {b} = {b, y}
    BY <1>2, <2>1, OneList
  <2>3. DOMAIN rest = {1} /\ rest[1] = y /\ Len(rest) = 1 /\ rest # <<>> /\ Last(rest) = y
    BY <2>1, OneList DEF Last
  <2>4. <<b>> \o <<y>> = <<b, y>> /\ Append(<<y>>, b) = <<y, b>>
    BY <2>1, PutTogether
  <2>5. FlushTime[y] \in Int
    BY TimesAre
  <2>6. CASE time = RIGHT_NOW
    <3>1. Activate(s, b, time) = <<b, y>>
      <4> HIDE DEF rest
      <4>1. QED
        BY <1>1, <2>1, <2>4, <2>6
    <3>2. QED
      BY <2>1, <2>2, <2>6, <3>1, TwoList
  <2>7. CASE time # RIGHT_NOW /\ (later = {} \/ Fits)
    <3>1. Activate(s, b, time) = <<y, b>>
      <4> HIDE DEF rest, later, Fits
      <4>1. QED
        BY <1>1, <2>1, <2>4, <2>7
    <3>2. FlushTime[y] <= time
      <4>1. CASE later = {}
        <5>1. ~(FlushTime[y] > time)
          BY <2>3, <4>1
        <5>2. QED
          BY <1>0, <2>5, <5>1
      <4>2. CASE Fits
        BY <2>3, <4>2
      <4>3. QED
        BY <2>7, <4>1, <4>2
    <3>3. IsList(<<y, b>>) /\ ToSet(<<y, b>>) = {y, b}
      BY <2>1, TwoList
    <3>4. IsList(Activate(s, b, time)) /\ ToSet(Activate(s, b, time)) = ToSet(s) \cup {b}
      BY <2>2, <3>1, <3>3
    <3>5. QED
      BY <2>1, <3>1, <3>2, <3>4
  <2>8. CASE time # RIGHT_NOW /\ ~(later = {} \/ Fits)
    <3>1. later = {1} /\ FlushTime[y] > time
      BY <2>3, <2>8
    <3>2. first = 1
      BY <3>1
    <3>3. Activate(s, b, time) = InsertAt(<<y>>, 1, b)
      <4> HIDE DEF rest, later, Fits, first
      <4>1. QED
        BY <1>1, <2>1, <2>3, <2>8, <3>2
    <3>4. InsertAt(<<y>>, 1, b) = <<b, y>>
      <4>1. SubSeq(<<y>>, 1, 0) = <<>>
        BY SubSeqEmpty
      <4>2. SubSeq(<<y>>, 1, 1) = <<y>>
        <5>1. <<y>> \in Seq(FileBackends) /\ 1 \in 1..Len(<<y>>) /\ <<y>>[1] = y
          BY <2>1, OneList DEF IsList
        <5>2. QED
          BY <5>1, PieceOfList
      <4>3. InsertAt(<<y>>, 1, b) = (<<>> \o <<b>>) \o <<y>>
        BY <4>1, <4>2, OneList DEF InsertAt
      <4>4. QED
        BY <2>1, <2>4, <4>3, PutTogether
    <3>5. time < FlushTime[y]
      BY <1>0, <2>5, <3>1
    <3>6. QED
      BY <2>1, <2>2, <3>3, <3>4, <3>5, TwoList
  <2>9. QED
    BY <2>6, <2>7, <2>8
<1>6. QED
  BY <1>3, <1>4, <1>5

----------------------------------------------------------------------------
(* Operations on the abstractions of the steps                               *)

(* The backend a thread that notifies is about. *)
BackendOf(t) == IF t = Flusher THEN flushed ELSE t

(* A thread goes on when a manager has been destroyed. *)
Leaves(t) ==
  \/ t \in FileBackends /\ Destroyed(t, "drain", "provide")
  \/ Destroyed(t, "drop", After(t))
  \/ t = Owner /\ Destroyed(t, "drain", "done")

(* An immediate flush is news, an append asks for one or for a later one, and    *)
(* Flusher publishes one buffer after another.                                *)
News(b, t)  == FlushTime[b] = NoTime \/ t < FlushTime[b]
Asks(b)     == FlushTime[b] # RIGHT_NOW
Urgent(b)   == Queued(b) + 1 >= PressureRecords /\ Asks(b)
Deferred(b) == ~ (Queued(b) + 1 >= PressureRecords) /\ current[b] = 0 /\ FlushTime[b] = NoTime
Publishes   == PublishCurrent \/ EnqueueReady
Nearer(t)   == IF t > Due /\ t # Never THEN t - 1 ELSE t

(* A thread that notifies has a backend, a time and, later, a manager. *)
LEMMA Notifying ==
  ASSUME TypesOK, ClientsInv, NEW t \in Clients, at[t] \in {"notify", "announce"}
  PROVE  /\ BackendOf(t) \in FileBackends /\ when[t] \in Times /\ t # Owner
         /\ at[t] = "announce" => held[t] \in Managers
<1>1. t # Owner
  BY DEF ClientsInv, LabelsInv
<1>2. t = Flusher => flushed \in FileBackends
  BY DEF ClientsInv, FlushedInv, HeldInv, TypesOK
<1>3. when[t] \in Times
  BY DEF ClientsInv, FlushedInv, HeldInv, TypesOK
<1>4. at[t] = "announce" => held[t] \in Managers
  BY DEF ClientsInv, FlushedInv, HeldInv, TypesOK, Holding
<1>5. QED
  BY <1>1, <1>2, <1>3, <1>4, ClientsAre DEF BackendOf

(* A thread that waits holds a manager. *)
LEMMA HeldIs ==
  ASSUME TypesOK, ClientsInv, NEW t \in Clients, at[t] \in Holding
  PROVE  held[t] \in Managers
BY DEF TypesOK, ClientsInv, HeldInv

(* The times are compared as numbers. *)
LEMMA AsksFor ==
  ASSUME TypesOK, NEW b \in FileBackends
  PROVE  /\ News(b, RIGHT_NOW) <=> Asks(b)
         /\ FlushTime[b] = NoTime => Asks(b)
         /\ {RIGHT_NOW, Later} \subseteq Times
BY TimesAre DEF TypesOK, Asks, News

(* What a request does. *)
LEMMA RequestDoes ==
  ASSUME TypesOK, NEW t \in Clients, NEW b \in FileBackends, NEW time \in Times,
         RequestFlush(t, b, time)
  PROVE  /\ FlushTime' \in [FileBackends -> Times \cup {NoTime}]
         /\ \A c \in FileBackends : FlushTime'[c] = IF c = b /\ News(b, time) THEN time
               ELSE FlushTime[c]
         /\ when' \in [Clients -> Times \cup {NoTime}]
         /\ \A u \in Clients : when'[u] = IF u = t /\ News(b, time) THEN time ELSE when[u]
         /\ at' \in [Clients -> Labels]
         /\ \A u \in Clients :
              at'[u] = IF u = t THEN IF News(b, time) THEN "notify" ELSE After(t) ELSE at[u]
<1>1. CASE News(b, time)
  <2>1. /\ FlushTime' = [FlushTime EXCEPT ![b] = time]
        /\ when' = [when EXCEPT ![t] = time] /\ at' = [at EXCEPT ![t] = "notify"]
    BY <1>1 DEF RequestFlush, Goto, News
  <2>2. "notify" \in Labels
    BY DEF Labels
  <2>3. QED
    BY <1>1, <2>1, <2>2 DEF TypesOK
<1>2. CASE ~ News(b, time)
  <2>1. /\ FlushTime' = FlushTime /\ when' = when /\ at' = [at EXCEPT ![t] = After(t)]
    BY <1>2 DEF RequestFlush, Goto, News
  <2>2. After(t) \in Labels
    BY DEF Labels, After
  <2>3. QED
    BY <1>2, <2>1, <2>2 DEF TypesOK
<1>3. QED
  BY <1>1, <1>2

(* The lists of managers are lists. *)
LEMMA ActiveIs ==
  ASSUME TypesOK, NEW m \in Managers
  PROVE  IsList(Active[m])
BY DEF TypesOK, IsList

(* The factory's manager, if it has one. *)
LEMMA InstanceIs ==
  ASSUME TypesOK
  PROVE  Instance = 0 \/ Instance \in Managers
BY ClientsAre DEF TypesOK

(* And the one that has the backends. *)
LEMMA CurrentIs ==
  ASSUME TypesOK
  PROVE  CurrentManager = 0 \/ CurrentManager \in Managers
BY InstanceIs, ClientsAre DEF TypesOK, CurrentManager

(* The nearer time is a time. *)
LEMMA NearerIs ==
  /\ \A t \in Times : Nearer(t) \in Times /\ Nearer(t) # Never /\ Nearer(t) <= t
  /\ Nearer(Never) = Never /\ Nearer(NoTime) = NoTime /\ Nearer(RIGHT_NOW) = RIGHT_NOW
BY TimesAre DEF Nearer

(* What Display does. *)
LEMMA DisplayDoes ==
  ASSUME TypesOK, ClientsInv, PlacesInv, NEW b \in FileBackends, Display(b)
  PROVE  /\ TypesOK'
         /\ UNCHANGED <<Instance, created, Backends, Active, StopRequested, Reschedule,
               CurrentEarliestTime, place, running, Registered, ShutdownFlag, ShutdownCalled,
               FlushTime, current, ready, taken, flushed, when, held, flushes, late, outdated>>
         /\ at[b] = "idle"
         /\ ~ ShutdownFlag[b]
         /\ at[Owner] = "idle"
         /\ \A u \in Clients : at'[u] = IF u = b THEN IF Registered[b] THEN "append" ELSE "add"
               ELSE at[u]
         /\ appends' = appends + 1
<1>1. UNCHANGED <<Instance, created, Backends, Active, StopRequested, Reschedule,
        CurrentEarliestTime, place, running, Registered, ShutdownFlag, ShutdownCalled,
        FlushTime, current, ready, taken, flushed, when, held, flushes, late, outdated>>
  BY DEF Display, Goto, factory, lists, signals, managers, flags, data, threads, recorded
<1>2. at[b] = "idle"
  BY ClientsAre DEF Display, TypesOK
<1>3. ~ ShutdownFlag[b]
  BY ClientsAre DEF Display, TypesOK
<1>4. at[Owner] = "idle"
  BY ClientsAre DEF Display, TypesOK
<1>5. /\ at' \in [Clients -> Labels]
      /\ \A u \in Clients : at'[u] = IF u = b THEN IF Registered[b] THEN "append" ELSE "add"
            ELSE at[u]
  BY <1>2, <1>3, <1>4, ClientsAre DEF Display, Goto, TypesOK, Labels, After
<1>6. /\ appends' \in Nat
      /\ appends' = appends + 1
  BY <1>2, <1>3, <1>4, ClientsAre DEF Display, Goto, TypesOK
<1>7. TypesOK'
  BY <1>1, <1>5, <1>6 DEF TypesOK
<1>8. QED
  BY <1>7, <1>1, <1>2, <1>3, <1>4, <1>5, <1>6

(* What AddTakesStopping does. *)
LEMMA AddTakesStoppingDoes ==
  ASSUME TypesOK, ClientsInv, PlacesInv, NEW b \in FileBackends, AddTakesStopping(b)
  PROVE  /\ TypesOK'
         /\ UNCHANGED <<created, Backends, Active, StopRequested, Reschedule,
               CurrentEarliestTime, place, running, Registered, ShutdownFlag, ShutdownCalled,
               FlushTime, current, ready, taken, flushed, when, appends, flushes, late,
               outdated>>
         /\ at[b] = "add"
         /\ Instance' = IF Instance # 0 /\ StopRequested[Instance] THEN 0 ELSE Instance
         /\ \A u \in Clients : at'[u] = IF u = b THEN IF Instance # 0 /\ StopRequested[Instance]
               THEN "stop" ELSE "provide" ELSE at[u]
         /\ \A u \in Clients : held'[u] = IF u = b
               THEN IF Instance # 0 /\ StopRequested[Instance] THEN Instance ELSE held[b]
               ELSE held[u]
<1>1. Instance # 0 => Instance \in Managers
  BY InstanceIs
<1>2. IF Instance # 0 /\ StopRequested[Instance]
      THEN held' = [held EXCEPT ![b] = Instance] /\ Instance' = 0 /\ at' = [at EXCEPT ![b] = "stop"]
      ELSE at' = [at EXCEPT ![b] = "provide"] /\ held' = held
  BY DEF AddTakesStopping, Goto
<1>3. UNCHANGED <<created, Backends, Active, StopRequested, Reschedule, CurrentEarliestTime,
        place, running, Registered, ShutdownFlag, ShutdownCalled, FlushTime, current, ready,
        taken, flushed, when, appends, flushes, late, outdated>>
  BY DEF AddTakesStopping, Goto, factory, lists, signals, managers, flags, data, threads,
     recorded
<1>4. at[b] = "add"
  BY <1>1, <1>2, ClientsAre DEF AddTakesStopping, TypesOK
<1>5. /\ Instance' \in 0..created'
      /\ Instance' = IF Instance # 0 /\ StopRequested[Instance] THEN 0 ELSE Instance
  BY <1>1, <1>2, <1>4, ClientsAre DEF AddTakesStopping, Goto, TypesOK
<1>6. /\ at' \in [Clients -> Labels]
      /\ \A u \in Clients : at'[u] = IF u = b THEN IF Instance # 0 /\ StopRequested[Instance]
            THEN "stop" ELSE "provide" ELSE at[u]
  <2>1. CASE Instance # 0 /\ StopRequested[Instance]
    <3>1. at' = [at EXCEPT ![b] = "stop"]
      BY <1>2, <2>1
    <3>2. "stop" \in Labels
      BY DEF Labels
    <3>3. at \in [Clients -> Labels]
      BY DEF TypesOK
    <3>4. b \in Clients
      BY ClientsAre
    <3>5. QED
      BY <2>1, <3>1, <3>2, <3>3, <3>4
  <2>2. CASE ~ (Instance # 0 /\ StopRequested[Instance])
    <3>1. at' = [at EXCEPT ![b] = "provide"]
      BY <1>2, <2>2
    <3>2. "provide" \in Labels
      BY DEF Labels
    <3>3. at \in [Clients -> Labels]
      BY DEF TypesOK
    <3>4. b \in Clients
      BY ClientsAre
    <3>5. QED
      BY <2>2, <3>1, <3>2, <3>3, <3>4
  <2>3. QED
    BY <2>1, <2>2
<1>7. /\ held' \in [Clients -> Managers \cup {0}]
      /\ \A u \in Clients : held'[u] = IF u = b THEN IF Instance # 0 /\ StopRequested[Instance]
            THEN Instance ELSE held[b] ELSE held[u]
  <2>1. CASE Instance # 0 /\ StopRequested[Instance]
    <3>1. held' = [held EXCEPT ![b] = Instance] /\ Instance \in Managers /\ b \in Clients
      BY <2>1, <1>1, <1>2, ClientsAre
    <3>2. QED
      BY <2>1, <3>1 DEF TypesOK, Labels
  <2>2. CASE ~ (Instance # 0 /\ StopRequested[Instance])
    BY <1>1, <1>2, <1>4, ClientsAre, <2>2 DEF TypesOK, Labels
  <2>3. QED
    BY <2>1, <2>2
<1>8. TypesOK'
  BY <1>3, <1>5, <1>6, <1>7 DEF TypesOK
<1>9. QED
  BY <1>8, <1>3, <1>4, <1>5, <1>6, <1>7

(* What SetStopping does. *)
LEMMA SetStoppingDoes ==
  ASSUME TypesOK, ClientsInv, PlacesInv, NEW b \in FileBackends, SetStopping(b)
  PROVE  /\ TypesOK'
         /\ UNCHANGED <<Instance, created, Backends, Active, CurrentEarliestTime, place,
               running, Registered, ShutdownFlag, ShutdownCalled, FlushTime, current, ready,
               taken, flushed, when, held, appends, flushes, late, outdated>>
         /\ at[b] = "stop"
         /\ held[b] \in Managers
         /\ \A n \in Managers : StopRequested'[n] = IF n = held[b] THEN TRUE
               ELSE StopRequested[n]
         /\ \A n \in Managers : Reschedule'[n] = IF n = held[b] THEN TRUE ELSE Reschedule[n]
         /\ \A u \in Clients : at'[u] = IF u = b THEN "join" ELSE at[u]
<1>1. held[b] \in Managers
  BY HeldIs, ClientsAre DEF SetStopping, Holding
<1>2. UNCHANGED <<Instance, created, Backends, Active, CurrentEarliestTime, place, running,
        Registered, ShutdownFlag, ShutdownCalled, FlushTime, current, ready, taken, flushed,
        when, held, appends, flushes, late, outdated>>
  BY DEF SetStopping, Goto, factory, lists, signals, managers, flags, data, threads, recorded
<1>3. at[b] = "stop"
  BY <1>1, ClientsAre DEF SetStopping, TypesOK
<1>4. held[b] \in Managers
  BY <1>1, ClientsAre DEF SetStopping, TypesOK
<1>5. /\ StopRequested' \in [Managers -> BOOLEAN]
      /\ \A n \in Managers : StopRequested'[n] = IF n = held[b] THEN TRUE ELSE StopRequested[n]
  BY <1>1, <1>3, <1>4, ClientsAre DEF SetStopping, Goto, TypesOK
<1>6. /\ Reschedule' \in [Managers -> BOOLEAN]
      /\ \A n \in Managers : Reschedule'[n] = IF n = held[b] THEN TRUE ELSE Reschedule[n]
  BY <1>1, <1>3, <1>4, ClientsAre DEF SetStopping, Goto, TypesOK
<1>7. /\ at' \in [Clients -> Labels]
      /\ \A u \in Clients : at'[u] = IF u = b THEN "join" ELSE at[u]
  BY <1>1, <1>3, <1>4, ClientsAre DEF SetStopping, Goto, TypesOK, Labels, After
<1>8. TypesOK'
  BY <1>2, <1>5, <1>6, <1>7 DEF TypesOK
<1>9. QED
  BY <1>8, <1>2, <1>3, <1>4, <1>5, <1>6, <1>7

(* What WaitForStop does. *)
LEMMA WaitForStopDoes ==
  ASSUME TypesOK, ClientsInv, PlacesInv, NEW t \in Clients, WaitForStop(t)
  PROVE  /\ TypesOK'
         /\ UNCHANGED <<Instance, created, Backends, Active, StopRequested, Reschedule,
               CurrentEarliestTime, running, Registered, ShutdownFlag, ShutdownCalled,
               FlushTime, current, ready, taken, flushed, when, appends, flushes, late,
               outdated>>
         /\ at[t] = "join"
         /\ held[t] \in Managers
         /\ place[held[t]] = "exited"
         /\ \A n \in Managers : place'[n] = IF n = held[t] THEN IF LastReference(t, held[t])
               THEN "destroy" ELSE "exited" ELSE place[n]
         /\ \A u \in Clients : at'[u] = IF u = t THEN IF LastReference(t, held[t]) THEN "drain"
               ELSE IF t = Owner THEN "done" ELSE "provide" ELSE at[u]
         /\ \A u \in Clients : held'[u] = IF u = t THEN IF LastReference(t, held[t])
               THEN held[t] ELSE 0 ELSE held[u]
<1>1. held[t] \in Managers
  BY HeldIs, ClientsAre DEF WaitForStop, Holding
<1>2. UNCHANGED <<Instance, created, Backends, Active, StopRequested, Reschedule,
        CurrentEarliestTime, running, Registered, ShutdownFlag, ShutdownCalled, FlushTime,
        current, ready, taken, flushed, when, appends, flushes, late, outdated>>
  BY DEF WaitForStop, Goto, factory, lists, signals, managers, flags, data, threads, recorded
<1>3. at[t] = "join"
  BY <1>1, ClientsAre DEF WaitForStop, TypesOK
<1>4. held[t] \in Managers
  BY <1>1, ClientsAre DEF WaitForStop, TypesOK
<1>5. place[held[t]] = "exited"
  BY <1>1, ClientsAre DEF WaitForStop, TypesOK
<1>6. /\ place' \in [Managers -> Places]
      /\ \A n \in Managers : place'[n] = IF n = held[t] THEN IF LastReference(t, held[t])
            THEN "destroy" ELSE "exited" ELSE place[n]
  BY <1>1, <1>3, <1>4, <1>5, ClientsAre DEF WaitForStop, Goto, TypesOK, Places
<1>7. /\ at' \in [Clients -> Labels]
      /\ \A u \in Clients : at'[u] = IF u = t THEN IF LastReference(t, held[t]) THEN "drain"
            ELSE IF t = Owner THEN "done" ELSE "provide" ELSE at[u]
  <2>1. CASE LastReference(t, held[t])
    BY <1>1, <1>3, <1>4, <1>5, ClientsAre, <2>1 DEF WaitForStop, Goto, TypesOK, Labels,
       After
  <2>2. CASE ~ (LastReference(t, held[t]))
    BY <1>1, <1>3, <1>4, <1>5, ClientsAre, <2>2 DEF WaitForStop, Goto, TypesOK, Labels,
       After
  <2>3. QED
    BY <2>1, <2>2
<1>8. /\ held' \in [Clients -> Managers \cup {0}]
      /\ \A u \in Clients : held'[u] = IF u = t THEN IF LastReference(t, held[t]) THEN held[t]
            ELSE 0 ELSE held[u]
  BY <1>1, <1>3, <1>4, <1>5, ClientsAre DEF WaitForStop, Goto, TypesOK
<1>9. TypesOK'
  BY <1>2, <1>6, <1>7, <1>8 DEF TypesOK
<1>10. QED
  BY <1>9, <1>2, <1>3, <1>4, <1>5, <1>6, <1>7, <1>8

(* What Leaves does. *)
LEMMA LeavesDoes ==
  ASSUME TypesOK, ClientsInv, PlacesInv, NEW t \in Clients, Leaves(t)
  PROVE  /\ TypesOK'
         /\ UNCHANGED <<Instance, created, Backends, Active, StopRequested, Reschedule,
               CurrentEarliestTime, place, running, Registered, ShutdownFlag, ShutdownCalled,
               FlushTime, current, ready, taken, flushed, when, appends, flushes, late,
               outdated>>
         /\ at[t] \in {"drain", "drop"}
         /\ held[t] \in Managers
         /\ place[held[t]] = "gone"
         /\ \A u \in Clients : at'[u] = IF u = t THEN IF at[t] = "drop" THEN After(t)
               ELSE IF t = Owner THEN "done" ELSE "provide" ELSE at[u]
         /\ \A u \in Clients : held'[u] = IF u = t THEN 0 ELSE held[u]
<1>1. at[t] \in {"drain", "drop"}
  BY DEF Leaves, Destroyed
<1>2. held[t] \in Managers
  BY <1>1, HeldIs DEF Holding
<1>3. UNCHANGED <<Instance, created, Backends, Active, StopRequested, Reschedule,
        CurrentEarliestTime, place, running, Registered, ShutdownFlag, ShutdownCalled,
        FlushTime, current, ready, taken, flushed, when, appends, flushes, late, outdated>>
  BY DEF Leaves, Destroyed, Goto, factory, lists, signals, managers, flags, data, threads,
     recorded
<1>4. at[t] \in {"drain", "drop"}
  BY <1>1, <1>2, ClientsAre DEF Leaves, Destroyed, TypesOK
<1>5. held[t] \in Managers
  BY <1>1, <1>2, ClientsAre DEF Leaves, Destroyed, TypesOK
<1>6. place[held[t]] = "gone"
  BY <1>1, <1>2, ClientsAre DEF Leaves, Destroyed, TypesOK
<1>7. /\ at' \in [Clients -> Labels]
      /\ \A u \in Clients : at'[u] = IF u = t THEN IF at[t] = "drop" THEN After(t)
            ELSE IF t = Owner THEN "done" ELSE "provide" ELSE at[u]
  <2>1. CASE t \in FileBackends /\ Destroyed(t, "drain", "provide")
    BY <1>1, <1>2, <1>4, <1>5, <1>6, ClientsAre, <2>1
       DEF Destroyed, Goto, TypesOK, Labels, After
  <2>2. CASE Destroyed(t, "drop", After(t))
    BY <1>1, <1>2, <1>4, <1>5, <1>6, ClientsAre, <2>2
       DEF Destroyed, Goto, TypesOK, Labels, After
  <2>3. CASE t = Owner /\ Destroyed(t, "drain", "done")
    BY <1>1, <1>2, <1>4, <1>5, <1>6, ClientsAre, <2>3
       DEF Destroyed, Goto, TypesOK, Labels, After
  <2>4. QED
    BY <2>1, <2>2, <2>3, <1>1, <1>2, <1>4, <1>5, <1>6, ClientsAre DEF Leaves, Destroyed
<1>8. /\ held' \in [Clients -> Managers \cup {0}]
      /\ \A u \in Clients : held'[u] = IF u = t THEN 0 ELSE held[u]
  BY <1>1, <1>2, <1>4, <1>5, <1>6, ClientsAre DEF Leaves, Destroyed, Goto, TypesOK
<1>9. TypesOK'
  BY <1>3, <1>7, <1>8 DEF TypesOK
<1>10. QED
  BY <1>9, <1>3, <1>4, <1>5, <1>6, <1>7, <1>8

(* What Provide does. *)
LEMMA ProvideDoes ==
  ASSUME TypesOK, ClientsInv, PlacesInv, NEW b \in FileBackends, Provide(b)
  PROVE  /\ TypesOK'
         /\ UNCHANGED <<Active, StopRequested, Reschedule, CurrentEarliestTime, running,
               Registered, ShutdownFlag, ShutdownCalled, FlushTime, current, ready, taken,
               flushed, when, held, appends, flushes, outdated>>
         /\ at[b] = "provide"
         /\ Instance' \in Managers
         /\ created' = IF Instance = 0 THEN created + 1 ELSE created
         /\ Instance' = IF Instance = 0 THEN created + 1 ELSE Instance
         /\ \A n \in Managers : Backends'[n] = IF n = Instance' THEN Backends[n] \cup {b}
               ELSE Backends[n]
         /\ \A n \in Managers : place'[n] = IF n = Instance' THEN IF place[n] = "none"
               THEN "loop" ELSE place[n] ELSE place[n]
         /\ \A u \in Clients : at'[u] = IF u = b THEN "register" ELSE at[u]
         /\ late' = IF StopRequested[Instance'] THEN late \cup {b} ELSE late
<1>1. created \in Nat /\ Instance \in 0..created /\ created <= MaxManagers /\ (Instance # 0 \/ created < MaxManagers)
  BY NumbersAssumption DEF Provide, TypesOK
<1>2. UNCHANGED <<Active, StopRequested, Reschedule, CurrentEarliestTime, running, Registered,
        ShutdownFlag, ShutdownCalled, FlushTime, current, ready, taken, flushed, when, held,
        appends, flushes, outdated>>
  BY DEF Provide, Goto, factory, lists, signals, managers, flags, data, threads, recorded
<1>3. at[b] = "provide"
  BY <1>1, ClientsAre DEF Provide, TypesOK
<1>4. Instance' \in Managers
  BY <1>1, ClientsAre DEF Provide, TypesOK
<1>5. /\ created' \in 0..MaxManagers
      /\ created' = IF Instance = 0 THEN created + 1 ELSE created
  BY <1>1, <1>3, <1>4, ClientsAre DEF Provide, Goto, TypesOK
<1>6. /\ Instance' \in 0..created'
      /\ Instance' = IF Instance = 0 THEN created + 1 ELSE Instance
  BY <1>1, <1>3, <1>4, <1>5, ClientsAre DEF Provide, Goto, TypesOK
<1>7. /\ Backends' \in [Managers -> SUBSET FileBackends]
      /\ \A n \in Managers : Backends'[n] = IF n = Instance' THEN Backends[n] \cup {b}
            ELSE Backends[n]
  BY <1>1, <1>3, <1>4, <1>5, ClientsAre DEF Provide, Goto, TypesOK
<1>8. /\ place' \in [Managers -> Places]
      /\ \A n \in Managers : place'[n] = IF n = Instance' THEN IF place[n] = "none" THEN "loop"
            ELSE place[n] ELSE place[n]
  BY <1>1, <1>3, <1>4, <1>5, ClientsAre DEF Provide, Goto, TypesOK, Places
<1>9. /\ at' \in [Clients -> Labels]
      /\ \A u \in Clients : at'[u] = IF u = b THEN "register" ELSE at[u]
  BY <1>1, <1>3, <1>4, <1>5, ClientsAre DEF Provide, Goto, TypesOK, Labels, After
<1>10. /\ late' \subseteq FileBackends
      /\ late' = IF StopRequested[Instance'] THEN late \cup {b} ELSE late
  BY <1>1, <1>3, <1>4, <1>5, ClientsAre DEF Provide, Goto, TypesOK
<1>11. TypesOK'
  BY <1>2, <1>5, <1>6, <1>7, <1>8, <1>9, <1>10 DEF TypesOK
<1>12. QED
  BY <1>11, <1>2, <1>3, <1>4, <1>5, <1>6, <1>7, <1>8, <1>9, <1>10

(* What SetRegistered does. *)
LEMMA SetRegisteredDoes ==
  ASSUME TypesOK, ClientsInv, PlacesInv, NEW b \in FileBackends, SetRegistered(b)
  PROVE  /\ TypesOK'
         /\ UNCHANGED <<Instance, created, Backends, Active, StopRequested, Reschedule,
               CurrentEarliestTime, place, running, ShutdownFlag, ShutdownCalled, FlushTime,
               current, ready, taken, flushed, when, held, appends, flushes, late, outdated>>
         /\ at[b] = "register"
         /\ \A c \in FileBackends : Registered'[c] = IF c = b THEN TRUE ELSE Registered[c]
         /\ \A u \in Clients : at'[u] = IF u = b THEN "append" ELSE at[u]
<1>1. UNCHANGED <<Instance, created, Backends, Active, StopRequested, Reschedule,
        CurrentEarliestTime, place, running, ShutdownFlag, ShutdownCalled, FlushTime, current,
        ready, taken, flushed, when, held, appends, flushes, late, outdated>>
  BY DEF SetRegistered, Goto, factory, lists, signals, managers, flags, data, threads, recorded
<1>2. at[b] = "register"
  BY ClientsAre DEF SetRegistered, TypesOK
<1>3. /\ Registered' \in [FileBackends -> BOOLEAN]
      /\ \A c \in FileBackends : Registered'[c] = IF c = b THEN TRUE ELSE Registered[c]
  BY <1>2, ClientsAre DEF SetRegistered, Goto, TypesOK
<1>4. /\ at' \in [Clients -> Labels]
      /\ \A u \in Clients : at'[u] = IF u = b THEN "append" ELSE at[u]
  BY <1>2, ClientsAre DEF SetRegistered, Goto, TypesOK, Labels, After
<1>5. TypesOK'
  BY <1>1, <1>3, <1>4 DEF TypesOK
<1>6. QED
  BY <1>5, <1>1, <1>2, <1>3, <1>4

(* What AppendOutputData does. *)
LEMMA AppendOutputDataDoes ==
  ASSUME TypesOK, ClientsInv, PlacesInv, NEW b \in FileBackends, AppendOutputData(b)
  PROVE  /\ TypesOK'
         /\ UNCHANGED <<Instance, created, Backends, Active, StopRequested, Reschedule,
               CurrentEarliestTime, place, running, Registered, ShutdownFlag, ShutdownCalled,
               ready, taken, flushed, held, appends, flushes, late, outdated>>
         /\ at[b] = "append"
         /\ \A c \in FileBackends : FlushTime'[c] = IF c = b THEN IF Urgent(b) THEN RIGHT_NOW
               ELSE IF Deferred(b) THEN Later ELSE FlushTime[b] ELSE FlushTime[c]
         /\ \A c \in FileBackends : current'[c] = IF c = b THEN current[b] + 1 ELSE current[c]
         /\ \A u \in Clients : at'[u] = IF u = b THEN IF Urgent(b) \/ Deferred(b) THEN "notify"
               ELSE "idle" ELSE at[u]
         /\ \A u \in Clients : when'[u] = IF u = b THEN IF Urgent(b) THEN RIGHT_NOW
               ELSE IF Deferred(b) THEN Later ELSE when[b] ELSE when[u]
<1>1. RIGHT_NOW \in Times /\ Later \in Times /\ b \in Clients /\ After(b) = "idle"
  BY AsksFor, ClientsAre DEF After
<1>2. Urgent(b) \in BOOLEAN /\ Deferred(b) \in BOOLEAN
  BY DEF Urgent, Deferred, Asks
<1>3. /\ FlushTime' \in [FileBackends -> Times \cup {NoTime}]
      /\ \A c \in FileBackends : FlushTime'[c] = IF c = b THEN IF Urgent(b) THEN RIGHT_NOW
            ELSE IF Deferred(b) THEN Later ELSE FlushTime[b] ELSE FlushTime[c]
      /\ when' \in [Clients -> Times \cup {NoTime}]
      /\ \A u \in Clients : when'[u] = IF u = b THEN IF Urgent(b) THEN RIGHT_NOW
            ELSE IF Deferred(b) THEN Later ELSE when[b] ELSE when[u]
      /\ at' \in [Clients -> Labels]
      /\ \A u \in Clients : at'[u] = IF u = b THEN IF Urgent(b) \/ Deferred(b) THEN "notify"
            ELSE "idle" ELSE at[u]
  <2>1. CASE Queued(b) + 1 >= PressureRecords
    <3>1. RequestFlush(b, b, RIGHT_NOW)
      BY <2>1 DEF AppendOutputData
    <3>2. ~ Deferred(b) /\ (Urgent(b) <=> News(b, RIGHT_NOW))
      BY <2>1, AsksFor DEF Urgent, Deferred
    <3>3. /\ FlushTime' \in [FileBackends -> Times \cup {NoTime}]
          /\ \A c \in FileBackends : FlushTime'[c] = IF c = b /\ Urgent(b) THEN RIGHT_NOW
                ELSE FlushTime[c]
          /\ when' \in [Clients -> Times \cup {NoTime}]
          /\ \A u \in Clients : when'[u] = IF u = b /\ Urgent(b) THEN RIGHT_NOW ELSE when[u]
          /\ at' \in [Clients -> Labels]
          /\ \A u \in Clients : at'[u] = IF u = b THEN IF Urgent(b) THEN "notify" ELSE After(b)
                ELSE at[u]
      BY <1>1, <1>2, <3>1, <3>2, RequestDoes
    <3>4. QED
      BY <1>1, <3>2, <3>3
  <2>2. CASE ~ (Queued(b) + 1 >= PressureRecords) /\ current[b] = 0 /\ FlushTime[b] = NoTime
    <3>1. RequestFlush(b, b, Later)
      BY <2>2 DEF AppendOutputData
    <3>2. ~ Urgent(b) /\ Deferred(b)
      BY <2>2 DEF Urgent, Deferred
    <3>4. News(b, Later) /\ Deferred(b)
      BY <2>2, <3>2 DEF News
    <3>3. /\ FlushTime' \in [FileBackends -> Times \cup {NoTime}]
          /\ \A c \in FileBackends : FlushTime'[c] = IF c = b /\ Deferred(b) THEN Later
                ELSE FlushTime[c]
          /\ when' \in [Clients -> Times \cup {NoTime}]
          /\ \A u \in Clients : when'[u] = IF u = b /\ Deferred(b) THEN Later ELSE when[u]
          /\ at' \in [Clients -> Labels]
          /\ \A u \in Clients : at'[u] = IF u = b THEN IF Deferred(b) THEN "notify"
                ELSE After(b) ELSE at[u]
      BY <1>1, <1>2, <3>1, <3>4, RequestDoes
    <3>5. QED
      BY <1>1, <3>2, <3>3
  <2>3. CASE ~ (Queued(b) + 1 >= PressureRecords) /\ ~ (current[b] = 0 /\ FlushTime[b] = NoTime)
    <3>1. FlushTime' = FlushTime /\ when' = when /\ at' = [at EXCEPT ![b] = "idle"]
      BY <2>3 DEF AppendOutputData, Goto
    <3>2. ~ Urgent(b) /\ ~ Deferred(b) /\ "idle" \in Labels
      BY <2>3 DEF Urgent, Deferred, Labels
    <3>3. QED
      BY <1>1, <3>1, <3>2 DEF TypesOK
  <2>4. QED
  BY <2>1, <2>2, <2>3
<1>4. UNCHANGED <<Instance, created, Backends, Active, StopRequested, Reschedule,
        CurrentEarliestTime, place, running, Registered, ShutdownFlag, ShutdownCalled, ready,
        taken, flushed, held, appends, flushes, late, outdated>>
  BY DEF AppendOutputData, RequestFlush, Urgent, Deferred, After, Goto, factory, lists, signals,
     managers, flags, data, threads, recorded
<1>5. at[b] = "append"
  BY <1>1, <1>2, <1>3, ClientsAre DEF AppendOutputData, RequestFlush, Urgent, Deferred, After,
     TypesOK
<1>6. /\ FlushTime' \in [FileBackends -> Times \cup {NoTime}]
      /\ \A c \in FileBackends : FlushTime'[c] = IF c = b THEN IF Urgent(b) THEN RIGHT_NOW
            ELSE IF Deferred(b) THEN Later ELSE FlushTime[b] ELSE FlushTime[c]
  BY <1>3
<1>7. /\ current' \in [FileBackends -> Nat]
      /\ \A c \in FileBackends : current'[c] = IF c = b THEN current[b] + 1 ELSE current[c]
  BY DEF AppendOutputData, TypesOK
<1>8. /\ at' \in [Clients -> Labels]
      /\ \A u \in Clients : at'[u] = IF u = b THEN IF Urgent(b) \/ Deferred(b) THEN "notify"
            ELSE "idle" ELSE at[u]
  BY <1>3
<1>9. /\ when' \in [Clients -> Times \cup {NoTime}]
      /\ \A u \in Clients : when'[u] = IF u = b THEN IF Urgent(b) THEN RIGHT_NOW
            ELSE IF Deferred(b) THEN Later ELSE when[b] ELSE when[u]
  BY <1>3
<1>10. TypesOK'
  BY <1>4, <1>6, <1>7, <1>8, <1>9 DEF TypesOK
<1>11. QED
  BY <1>10, <1>4, <1>5, <1>6, <1>7, <1>8, <1>9

(* What Freeze does. *)
LEMMA FreezeDoes ==
  ASSUME TypesOK, ClientsInv, PlacesInv, NEW b \in FileBackends, Freeze(b)
  PROVE  /\ TypesOK'
         /\ UNCHANGED <<Instance, created, Backends, Active, StopRequested, Reschedule,
               CurrentEarliestTime, place, running, Registered, ShutdownCalled, current, ready,
               taken, flushed, held, appends, flushes, late, outdated>>
         /\ at[b] = "idle"
         /\ ~ ShutdownFlag[b]
         /\ \A c \in FileBackends : ShutdownFlag'[c] = IF c = b THEN TRUE ELSE ShutdownFlag[c]
         /\ \A c \in FileBackends : FlushTime'[c] = IF c = b THEN IF Asks(b) THEN RIGHT_NOW
               ELSE FlushTime[b] ELSE FlushTime[c]
         /\ \A u \in Clients : at'[u] = IF u = b THEN IF Asks(b) THEN "notify" ELSE "idle"
               ELSE at[u]
         /\ \A u \in Clients : when'[u] = IF u = b THEN IF Asks(b) THEN RIGHT_NOW ELSE when[b]
               ELSE when[u]
<1>1. News(b, RIGHT_NOW) <=> Asks(b)
  BY AsksFor
<1>2. RIGHT_NOW \in Times
  BY AsksFor
<1>3. RequestFlush(b, b, RIGHT_NOW) /\ b \in Clients
  BY ClientsAre DEF Freeze
<1>4. Asks(b) \in BOOLEAN /\ After(b) = "idle"
  BY ClientsAre DEF Asks, After
<1>5. /\ FlushTime' \in [FileBackends -> Times \cup {NoTime}]
      /\ \A c \in FileBackends : FlushTime'[c] = IF c = b /\ Asks(b) THEN RIGHT_NOW
            ELSE FlushTime[c]
      /\ when' \in [Clients -> Times \cup {NoTime}]
      /\ \A u \in Clients : when'[u] = IF u = b /\ Asks(b) THEN RIGHT_NOW ELSE when[u]
      /\ at' \in [Clients -> Labels]
      /\ \A u \in Clients : at'[u] = IF u = b THEN IF Asks(b) THEN "notify" ELSE "idle"
            ELSE at[u]
  BY <1>1, <1>2, <1>3, <1>4, RequestDoes
<1>6. UNCHANGED <<Instance, created, Backends, Active, StopRequested, Reschedule,
        CurrentEarliestTime, place, running, Registered, ShutdownCalled, current, ready, taken,
        flushed, held, appends, flushes, late, outdated>>
  BY DEF Freeze, RequestFlush, After, Goto, factory, lists, signals, managers, flags, data,
     threads, recorded
<1>7. at[b] = "idle"
  BY <1>1, <1>2, <1>3, <1>4, <1>5, ClientsAre DEF Freeze, RequestFlush, After, TypesOK
<1>8. ~ ShutdownFlag[b]
  BY <1>1, <1>2, <1>3, <1>4, <1>5, ClientsAre DEF Freeze, RequestFlush, After, TypesOK
<1>9. /\ ShutdownFlag' \in [FileBackends -> BOOLEAN]
      /\ \A c \in FileBackends : ShutdownFlag'[c] = IF c = b THEN TRUE ELSE ShutdownFlag[c]
  BY <1>1, <1>2, <1>3, <1>4, <1>5, <1>7, <1>8, ClientsAre
     DEF Freeze, RequestFlush, After, Goto, TypesOK
<1>10. /\ FlushTime' \in [FileBackends -> Times \cup {NoTime}]
      /\ \A c \in FileBackends : FlushTime'[c] = IF c = b THEN IF Asks(b) THEN RIGHT_NOW
            ELSE FlushTime[b] ELSE FlushTime[c]
  BY <1>5
<1>11. /\ at' \in [Clients -> Labels]
      /\ \A u \in Clients : at'[u] = IF u = b THEN IF Asks(b) THEN "notify" ELSE "idle"
            ELSE at[u]
  BY <1>5
<1>12. /\ when' \in [Clients -> Times \cup {NoTime}]
      /\ \A u \in Clients : when'[u] = IF u = b THEN IF Asks(b) THEN RIGHT_NOW ELSE when[b]
            ELSE when[u]
  BY <1>5
<1>13. TypesOK'
  BY <1>6, <1>9, <1>10, <1>11, <1>12 DEF TypesOK
<1>14. QED
  BY <1>13, <1>6, <1>7, <1>8, <1>9, <1>10, <1>11, <1>12

(* What Flush does. *)
LEMMA FlushDoes ==
  ASSUME TypesOK, ClientsInv, PlacesInv, NEW b \in FileBackends, Flush(b)
  PROVE  /\ TypesOK'
         /\ UNCHANGED <<Instance, created, Backends, Active, StopRequested, Reschedule,
               CurrentEarliestTime, place, running, Registered, ShutdownFlag, ShutdownCalled,
               FlushTime, current, ready, taken, when, held, appends, late, outdated>>
         /\ at[Flusher] = "idle"
         /\ Registered[b] \/ ShutdownFlag[b]
         /\ at[Owner] = "idle"
         /\ \A u \in Clients : at'[u] = IF u = Flusher THEN "publish" ELSE at[u]
         /\ flushed' = b
         /\ flushes' = flushes + 1
<1>1. UNCHANGED <<Instance, created, Backends, Active, StopRequested, Reschedule,
        CurrentEarliestTime, place, running, Registered, ShutdownFlag, ShutdownCalled,
        FlushTime, current, ready, taken, when, held, appends, late, outdated>>
  BY DEF Flush, Goto, factory, lists, signals, managers, flags, data, threads, recorded
<1>2. at[Flusher] = "idle"
  BY DEF Flush
<1>3. (Registered[b] \/ ShutdownFlag[b]) /\ at[Owner] = "idle"
  BY DEF Flush
<1>4. /\ at' \in [Clients -> Labels]
      /\ \A u \in Clients : at'[u] = IF u = Flusher THEN "publish" ELSE at[u]
  BY ClientsAre DEF Flush, Goto, TypesOK, Labels
<1>5. /\ flushed' \in FileBackends \cup {NoBackend}
      /\ flushed' = b
  BY DEF Flush
<1>6. /\ flushes' \in Nat
      /\ flushes' = flushes + 1
  BY DEF Flush, TypesOK
<1>7. TypesOK'
  BY <1>1, <1>4, <1>5, <1>6 DEF TypesOK
<1>8. QED
  BY <1>1, <1>2, <1>3, <1>4, <1>5, <1>6, <1>7

(* What PublishCurrent and EnqueueReady do. *)
LEMMA PublishesDoes ==
  ASSUME TypesOK, ClientsInv, PlacesInv, Publishes
  PROVE  /\ TypesOK'
         /\ UNCHANGED <<Instance, created, Backends, Active, StopRequested, Reschedule,
               CurrentEarliestTime, place, running, Registered, ShutdownFlag, ShutdownCalled,
               FlushTime, flushed, when, held, appends, flushes, late, outdated>>
         /\ at[Flusher] \in {"publish", "enqueue"}
         /\ flushed \in FileBackends
         /\ at'[Flusher] \in {"publish", "enqueue"}
         /\ \A u \in Clients : u # Flusher => at'[u] = at[u]
         /\ \A c \in FileBackends : c # flushed => current'[c] = current[c] /\ ready'[c] = ready[c]
         /\ at'[Flusher] = "publish" => taken' = 0
<1>1. UNCHANGED <<Instance, created, Backends, Active, StopRequested, Reschedule,
        CurrentEarliestTime, place, running, Registered, ShutdownFlag, ShutdownCalled,
        FlushTime, flushed, when, held, appends, flushes, late, outdated>>
  BY DEF Publishes, PublishCurrent, EnqueueReady, Goto, factory, lists, signals, managers,
     flags, data, threads, recorded
<1>2. at[Flusher] \in {"publish", "enqueue"}
  BY DEF Publishes, PublishCurrent, EnqueueReady
<1>3. flushed \in FileBackends
  BY <1>2 DEF ClientsInv, FlushedInv, TypesOK
<1>4. /\ at' \in [Clients -> Labels]
      /\ at'[Flusher] \in {"publish", "enqueue"}
      /\ \A u \in Clients : u # Flusher => at'[u] = at[u]
  BY ClientsAre DEF Publishes, PublishCurrent, EnqueueReady, Goto, TypesOK, Labels
<1>5. /\ current' \in [FileBackends -> Nat] /\ ready' \in [FileBackends -> Nat]
      /\ taken' \in Nat
      /\ \A c \in FileBackends : c # flushed => current'[c] = current[c] /\ ready'[c] = ready[c]
  <2>1. CASE PublishCurrent
    BY <1>3, <2>1 DEF PublishCurrent, TypesOK
  <2>2. CASE EnqueueReady
    BY <1>3, <2>2 DEF EnqueueReady, TypesOK
  <2>3. QED
    BY <2>1, <2>2 DEF Publishes
<1>6. at'[Flusher] = "publish" => taken' = 0
  BY ClientsAre DEF Publishes, PublishCurrent, EnqueueReady, Goto, TypesOK
<1>7. TypesOK'
  BY <1>1, <1>4, <1>5 DEF TypesOK
<1>8. QED
  BY <1>1, <1>2, <1>3, <1>4, <1>5, <1>6, <1>7

(* What AllPublished does. *)
LEMMA AllPublishedDoes ==
  ASSUME TypesOK, ClientsInv, PlacesInv, AllPublished
  PROVE  /\ TypesOK'
         /\ UNCHANGED <<Instance, created, Backends, Active, StopRequested, Reschedule,
               CurrentEarliestTime, place, running, Registered, ShutdownFlag, ShutdownCalled,
               current, ready, taken, flushed, held, appends, flushes, late, outdated>>
         /\ at[Flusher] = "publish"
         /\ flushed \in FileBackends
         /\ \A c \in FileBackends : FlushTime'[c] = IF c = flushed THEN IF Asks(c)
               THEN RIGHT_NOW ELSE FlushTime[c] ELSE FlushTime[c]
         /\ \A u \in Clients : at'[u] = IF u = Flusher THEN IF Asks(flushed) THEN "notify"
               ELSE "flushing" ELSE at[u]
         /\ \A u \in Clients : when'[u] = IF u = Flusher THEN IF Asks(flushed) THEN RIGHT_NOW
               ELSE when[Flusher] ELSE when[u]
<1>1. at[Flusher] = "publish"
  BY DEF AllPublished
<1>2. flushed \in FileBackends
  BY <1>1 DEF ClientsInv, FlushedInv, TypesOK
<1>3. News(flushed, RIGHT_NOW) <=> Asks(flushed)
  BY <1>2, AsksFor
<1>4. RIGHT_NOW \in Times
  BY <1>2, AsksFor
<1>5. RequestFlush(Flusher, flushed, RIGHT_NOW) /\ Flusher \in Clients
  BY ClientsAre DEF AllPublished
<1>6. Asks(flushed) \in BOOLEAN /\ After(Flusher) = "flushing"
  BY DEF Asks, After
<1>7. /\ FlushTime' \in [FileBackends -> Times \cup {NoTime}]
      /\ \A c \in FileBackends : FlushTime'[c] = IF c = flushed /\ Asks(flushed) THEN RIGHT_NOW
            ELSE FlushTime[c]
      /\ when' \in [Clients -> Times \cup {NoTime}]
      /\ \A u \in Clients : when'[u] = IF u = Flusher /\ Asks(flushed) THEN RIGHT_NOW
            ELSE when[u]
      /\ at' \in [Clients -> Labels]
      /\ \A u \in Clients : at'[u] = IF u = Flusher THEN IF Asks(flushed) THEN "notify"
            ELSE "flushing" ELSE at[u]
  BY <1>2, <1>3, <1>4, <1>5, <1>6, RequestDoes
<1>8. UNCHANGED <<Instance, created, Backends, Active, StopRequested, Reschedule,
        CurrentEarliestTime, place, running, Registered, ShutdownFlag, ShutdownCalled, current,
        ready, taken, flushed, held, appends, flushes, late, outdated>>
  BY DEF AllPublished, factory, lists, signals, managers, flags, recorded
<1>9. TypesOK'
  BY <1>7, <1>8 DEF TypesOK
<1>10. QED
  BY <1>1, <1>2, <1>7, <1>8, <1>9

(* What FlushDone does. *)
LEMMA FlushDoneDoes ==
  ASSUME TypesOK, ClientsInv, PlacesInv, FlushDone
  PROVE  /\ TypesOK'
         /\ UNCHANGED <<Instance, created, Backends, Active, StopRequested, Reschedule,
               CurrentEarliestTime, place, running, Registered, ShutdownFlag, ShutdownCalled,
               FlushTime, current, ready, taken, when, held, appends, flushes, late, outdated>>
         /\ at[Flusher] = "flushing"
         /\ Queued(flushed) = 0
         /\ \A u \in Clients : at'[u] = IF u = Flusher THEN "idle" ELSE at[u]
         /\ flushed' = NoBackend
<1>1. UNCHANGED <<Instance, created, Backends, Active, StopRequested, Reschedule,
        CurrentEarliestTime, place, running, Registered, ShutdownFlag, ShutdownCalled,
        FlushTime, current, ready, taken, when, held, appends, flushes, late, outdated>>
  BY DEF FlushDone, Goto, factory, lists, signals, managers, flags, data, threads, recorded
<1>2. at[Flusher] = "flushing"
  BY ClientsAre DEF FlushDone, TypesOK
<1>3. Queued(flushed) = 0
  BY ClientsAre DEF FlushDone, TypesOK
<1>4. /\ at' \in [Clients -> Labels]
      /\ \A u \in Clients : at'[u] = IF u = Flusher THEN "idle" ELSE at[u]
  BY <1>2, <1>3, ClientsAre DEF FlushDone, Goto, TypesOK, Labels, After
<1>5. /\ flushed' \in FileBackends \cup {NoBackend}
      /\ flushed' = NoBackend
  BY <1>2, <1>3, ClientsAre DEF FlushDone, Goto, TypesOK
<1>6. TypesOK'
  BY <1>1, <1>4, <1>5 DEF TypesOK
<1>7. QED
  BY <1>6, <1>1, <1>2, <1>3, <1>4, <1>5

(* What NotifyFactory does. *)
LEMMA NotifyFactoryDoes ==
  ASSUME TypesOK, ClientsInv, PlacesInv, NEW t \in Clients, NotifyFactory(t)
  PROVE  /\ TypesOK'
         /\ UNCHANGED <<Instance, created, Backends, Active, StopRequested, Reschedule,
               CurrentEarliestTime, place, running, Registered, ShutdownFlag, ShutdownCalled,
               FlushTime, current, ready, taken, flushed, appends, flushes, late, outdated>>
         /\ at[t] = "notify"
         /\ \A u \in Clients : at'[u] = IF u = t THEN IF Instance = 0 THEN After(t)
               ELSE "announce" ELSE at[u]
         /\ \A u \in Clients : when'[u] = IF u = t THEN IF Instance = 0 THEN NoTime ELSE when[t]
               ELSE when[u]
         /\ \A u \in Clients : held'[u] = IF u = t THEN Instance ELSE held[u]
<1>1. UNCHANGED <<Instance, created, Backends, Active, StopRequested, Reschedule,
        CurrentEarliestTime, place, running, Registered, ShutdownFlag, ShutdownCalled,
        FlushTime, current, ready, taken, flushed, appends, flushes, late, outdated>>
  BY DEF NotifyFactory, Goto, factory, lists, signals, managers, flags, data, threads, recorded
<1>2. at[t] = "notify"
  BY ClientsAre DEF NotifyFactory, TypesOK
<1>3. /\ at' \in [Clients -> Labels]
      /\ \A u \in Clients : at'[u] = IF u = t THEN IF Instance = 0 THEN After(t) ELSE "announce"
            ELSE at[u]
  BY <1>2, ClientsAre DEF NotifyFactory, Goto, TypesOK, Labels, After
<1>4. /\ when' \in [Clients -> Times \cup {NoTime}]
      /\ \A u \in Clients : when'[u] = IF u = t THEN IF Instance = 0 THEN NoTime ELSE when[t]
            ELSE when[u]
  BY <1>2, ClientsAre DEF NotifyFactory, Goto, TypesOK
<1>5. /\ held' \in [Clients -> Managers \cup {0}]
      /\ \A u \in Clients : held'[u] = IF u = t THEN Instance ELSE held[u]
  BY <1>2, ClientsAre DEF NotifyFactory, Goto, TypesOK
<1>6. TypesOK'
  BY <1>1, <1>3, <1>4, <1>5 DEF TypesOK
<1>7. QED
  BY <1>6, <1>1, <1>2, <1>3, <1>4, <1>5

(* What NotifyManager does. *)
LEMMA NotifyManagerDoes ==
  ASSUME TypesOK, ClientsInv, PlacesInv, NEW t \in Clients, NotifyManager(t)
  PROVE  /\ TypesOK'
         /\ UNCHANGED <<Instance, created, Backends, StopRequested, CurrentEarliestTime,
               running, Registered, ShutdownFlag, ShutdownCalled, FlushTime, current, ready,
               taken, flushed, appends, flushes, late>>
         /\ at[t] = "announce"
         /\ held[t] \in Managers
         /\ when[t] \in Times
         /\ BackendOf(t) \in FileBackends
         /\ \A n \in Managers : Active'[n] = IF n = held[t] THEN IF Registered[BackendOf(t)]
               THEN Activate(Active[n], BackendOf(t), when[t]) ELSE Active[n] ELSE Active[n]
         /\ \A n \in Managers : Reschedule'[n] = IF n = held[t]
               THEN Reschedule[n] \/ (Registered[BackendOf(t)] /\ Wakes(n, BackendOf(t),
               when[t], Activate(Active[n], BackendOf(t), when[t]))) ELSE Reschedule[n]
         /\ \A n \in Managers : place'[n] = IF n = held[t] THEN IF LastReference(t, held[t])
               THEN "destroy" ELSE place[n] ELSE place[n]
         /\ \A u \in Clients : at'[u] = IF u = t THEN IF LastReference(t, held[t]) THEN "drop"
               ELSE After(t) ELSE at[u]
         /\ \A u \in Clients : when'[u] = IF u = t THEN NoTime ELSE when[u]
         /\ \A u \in Clients : held'[u] = IF u = t THEN IF LastReference(t, held[t])
               THEN held[t] ELSE 0 ELSE held[u]
         /\ outdated' = IF when[t] = FlushTime[BackendOf(t)] THEN outdated
               ELSE outdated \cup {held[t]}
<1>1. BackendOf(t) \in FileBackends /\ when[t] \in Times /\ held[t] \in Managers
  BY Notifying DEF NotifyManager
<1>2. IsList(Active[held[t]])
  BY <1>1, ActiveIs
<1>3. IsList(Activate(Active[held[t]], BackendOf(t), when[t]))
  BY <1>1, <1>2, ActivateIs DEF TypesOK
<1>4. IF Registered[BackendOf(t)]
      THEN /\ Active' = [Active EXCEPT ![held[t]] = Activate(Active[held[t]], BackendOf(t),
                 when[t])]
           /\ Reschedule' = [Reschedule EXCEPT ![held[t]] = @ \/ Wakes(held[t], BackendOf(t),
                 when[t],
                                Activate(Active[held[t]], BackendOf(t), when[t]))]
      ELSE UNCHANGED <<Active, Reschedule>>
  BY DEF NotifyManager, BackendOf
<1>5. UNCHANGED <<Instance, created, Backends, StopRequested, CurrentEarliestTime, running,
        Registered, ShutdownFlag, ShutdownCalled, FlushTime, current, ready, taken, flushed,
        appends, flushes, late>>
  BY DEF NotifyManager, BackendOf, Goto, factory, lists, signals, managers, flags, data,
     threads, recorded
<1>6. at[t] = "announce"
  BY <1>1, <1>2, <1>3, <1>4, ClientsAre DEF NotifyManager, BackendOf, TypesOK
<1>7. held[t] \in Managers
  BY <1>1, <1>2, <1>3, <1>4, ClientsAre DEF NotifyManager, BackendOf, TypesOK
<1>8. when[t] \in Times
  BY <1>1, <1>2, <1>3, <1>4, ClientsAre DEF NotifyManager, BackendOf, TypesOK
<1>9. BackendOf(t) \in FileBackends
  BY <1>1, <1>2, <1>3, <1>4, ClientsAre DEF NotifyManager, BackendOf, TypesOK
<1>10. /\ Active' \in [Managers -> Seq(FileBackends)]
      /\ \A n \in Managers : Active'[n] = IF n = held[t] THEN IF Registered[BackendOf(t)]
            THEN Activate(Active[n], BackendOf(t), when[t]) ELSE Active[n] ELSE Active[n]
  <2>1. CASE Registered[BackendOf(t)]
    <3>1. /\ Active' = [Active EXCEPT ![held[t]] = Activate(Active[held[t]], BackendOf(t),
               when[t])]
          /\ Activate(Active[held[t]], BackendOf(t),
                when[t]) \in Seq(FileBackends) /\ held[t] \in Managers
      BY <2>1, <1>1, <1>3, <1>4 DEF IsList
    <3>2. QED
      BY <2>1, <3>1 DEF TypesOK
  <2>2. CASE ~ (Registered[BackendOf(t)])
    BY <1>1, <1>2, <1>3, <1>4, <1>6, <1>7, <1>8, <1>9, ClientsAre, <2>2 DEF TypesOK
  <2>3. QED
    BY <2>1, <2>2
<1>11. /\ Reschedule' \in [Managers -> BOOLEAN]
      /\ \A n \in Managers : Reschedule'[n] = IF n = held[t]
            THEN Reschedule[n] \/ (Registered[BackendOf(t)] /\ Wakes(n, BackendOf(t), when[t],
            Activate(Active[n], BackendOf(t), when[t]))) ELSE Reschedule[n]
  <2>1. CASE Registered[BackendOf(t)]
    <3>1. /\ held[t] \in Managers
          /\ Reschedule' = [Reschedule EXCEPT ![held[t]] = Reschedule[held[t]] \/ Wakes(held[t],
                BackendOf(t), when[t],
                                Activate(Active[held[t]], BackendOf(t), when[t]))]
          /\ Wakes(held[t], BackendOf(t), when[t], Activate(Active[held[t]], BackendOf(t),
                when[t])) \in BOOLEAN
      BY <2>1, <1>1, <1>4 DEF Wakes
    <3>2. QED
      BY <2>1, <3>1 DEF TypesOK
  <2>2. CASE ~ (Registered[BackendOf(t)])
    BY <1>1, <1>2, <1>3, <1>4, <1>6, <1>7, <1>8, <1>9, ClientsAre, <2>2 DEF TypesOK
  <2>3. QED
    BY <2>1, <2>2
<1>12. /\ place' \in [Managers -> Places]
      /\ \A n \in Managers : place'[n] = IF n = held[t] THEN IF LastReference(t, held[t])
            THEN "destroy" ELSE place[n] ELSE place[n]
  BY <1>1, <1>2, <1>3, <1>4, <1>6, <1>7, <1>8, <1>9, ClientsAre
     DEF NotifyManager, BackendOf, Goto, TypesOK, Places
<1>13. /\ at' \in [Clients -> Labels]
      /\ \A u \in Clients : at'[u] = IF u = t THEN IF LastReference(t, held[t]) THEN "drop"
            ELSE After(t) ELSE at[u]
  BY <1>1, <1>2, <1>3, <1>4, <1>6, <1>7, <1>8, <1>9, ClientsAre
     DEF NotifyManager, BackendOf, Goto, TypesOK, Labels, After
<1>14. /\ when' \in [Clients -> Times \cup {NoTime}]
      /\ \A u \in Clients : when'[u] = IF u = t THEN NoTime ELSE when[u]
  BY <1>1, <1>2, <1>3, <1>4, <1>6, <1>7, <1>8, <1>9, ClientsAre
     DEF NotifyManager, BackendOf, Goto, TypesOK
<1>15. /\ held' \in [Clients -> Managers \cup {0}]
      /\ \A u \in Clients : held'[u] = IF u = t THEN IF LastReference(t, held[t]) THEN held[t]
            ELSE 0 ELSE held[u]
  BY <1>1, <1>2, <1>3, <1>4, <1>6, <1>7, <1>8, <1>9, ClientsAre
     DEF NotifyManager, BackendOf, Goto, TypesOK
<1>16. /\ outdated' \subseteq Managers
      /\ outdated' = IF when[t] = FlushTime[BackendOf(t)] THEN outdated
            ELSE outdated \cup {held[t]}
  BY <1>1, <1>2, <1>3, <1>4, <1>6, <1>7, <1>8, <1>9, ClientsAre
     DEF NotifyManager, BackendOf, Goto, TypesOK
<1>17. \A n \in Managers : IsInjective(Active'[n])
  BY <1>1, <1>2, <1>3, <1>4, <1>6, <1>7, <1>8, <1>9, <1>10, ClientsAre
     DEF IsList, TypesOK
<1>18. TypesOK'
  BY <1>5, <1>10, <1>11, <1>12, <1>13, <1>14, <1>15, <1>16, <1>17 DEF TypesOK
<1>19. QED
  BY <1>18, <1>5, <1>6, <1>7, <1>8, <1>9, <1>10, <1>11, <1>12, <1>13, <1>14, <1>15, <1>16, <1>17

(* What Exit does. *)
LEMMA ExitDoes ==
  ASSUME TypesOK, ClientsInv, PlacesInv, NEW m \in Managers, Exit(m)
  PROVE  /\ TypesOK'
         /\ UNCHANGED <<Instance, created, Backends, Active, StopRequested, Reschedule,
               CurrentEarliestTime, running, Registered, ShutdownFlag, ShutdownCalled,
               FlushTime, current, ready, taken, at, flushed, when, held, appends, flushes,
               late, outdated>>
         /\ place[m] = "loop"
         /\ StopRequested[m]
         /\ \A n \in Managers : place'[n] = IF n = m THEN "exited" ELSE place[n]
<1>1. UNCHANGED <<Instance, created, Backends, Active, StopRequested, Reschedule,
        CurrentEarliestTime, running, Registered, ShutdownFlag, ShutdownCalled, FlushTime,
        current, ready, taken, at, flushed, when, held, appends, flushes, late, outdated>>
  BY DEF Exit, Goto, factory, lists, signals, managers, flags, data, threads, recorded
<1>2. place[m] = "loop"
  BY ClientsAre DEF Exit, TypesOK
<1>3. StopRequested[m]
  BY ClientsAre DEF Exit, TypesOK
<1>4. /\ place' \in [Managers -> Places]
      /\ \A n \in Managers : place'[n] = IF n = m THEN "exited" ELSE place[n]
  BY <1>2, <1>3, ClientsAre DEF Exit, Goto, TypesOK, Places
<1>5. TypesOK'
  BY <1>1, <1>4 DEF TypesOK
<1>6. QED
  BY <1>5, <1>1, <1>2, <1>3, <1>4

(* What WaitForWork does. *)
LEMMA WaitForWorkDoes ==
  ASSUME TypesOK, ClientsInv, PlacesInv, NEW m \in Managers, WaitForWork(m)
  PROVE  /\ TypesOK'
         /\ UNCHANGED <<Instance, created, Backends, StopRequested, Reschedule, running,
               Registered, ShutdownFlag, ShutdownCalled, FlushTime, current, ready, taken, at,
               flushed, when, held, appends, flushes, late, outdated>>
         /\ place[m] = "loop"
         /\ ~ StopRequested[m]
         /\ WithoutStale(Active[m]) # <<>> => FlushTime[Head(WithoutStale(Active[m]))] > Due
         /\ \A n \in Managers : Active'[n] = IF n = m THEN WithoutStale(Active[m])
               ELSE Active[n]
         /\ \A n \in Managers : CurrentEarliestTime'[n] = IF n = m
               THEN IF WithoutStale(Active[m]) = <<>> THEN Never
               ELSE FlushTime[Head(WithoutStale(Active[m]))] ELSE CurrentEarliestTime[n]
         /\ \A n \in Managers : place'[n] = IF n = m THEN "wait" ELSE place[n]
<1>1. IsList(Active[m])
  BY ActiveIs
<1>2. IsList(WithoutStale(Active[m]))
  BY <1>1, WithoutStaleIs
<1>3. WithoutStale(Active[m]) # <<>> => Head(WithoutStale(Active[m])) \in FileBackends
  BY <1>2, TailIs
<1>4. WithoutStale(Active[m]) # <<>> => FlushTime[Head(WithoutStale(Active[m]))] \in Times
  BY <1>1, <1>3, WithoutStaleIs DEF TypesOK
<1>5. UNCHANGED <<Instance, created, Backends, StopRequested, Reschedule, running, Registered,
        ShutdownFlag, ShutdownCalled, FlushTime, current, ready, taken, at, flushed, when,
        held, appends, flushes, late, outdated>>
  BY DEF WaitForWork, Goto, factory, lists, signals, managers, flags, data, threads, recorded
<1>6. place[m] = "loop"
  BY <1>1, <1>2, <1>3, <1>4, ClientsAre DEF WaitForWork, TypesOK
<1>7. ~ StopRequested[m]
  BY <1>1, <1>2, <1>3, <1>4, ClientsAre DEF WaitForWork, TypesOK
<1>8. WithoutStale(Active[m]) # <<>> => FlushTime[Head(WithoutStale(Active[m]))] > Due
  BY <1>1, <1>2, <1>3, <1>4, ClientsAre DEF WaitForWork, TypesOK
<1>9. /\ Active' \in [Managers -> Seq(FileBackends)]
      /\ \A n \in Managers : Active'[n] = IF n = m THEN WithoutStale(Active[m]) ELSE Active[n]
  BY <1>1, <1>2, <1>3, <1>4, <1>6, <1>7, <1>8, ClientsAre
     DEF WaitForWork, Goto, TypesOK, IsList
<1>10. /\ CurrentEarliestTime' \in [Managers -> Times \cup {Never}]
      /\ \A n \in Managers : CurrentEarliestTime'[n] = IF n = m
            THEN IF WithoutStale(Active[m]) = <<>> THEN Never
            ELSE FlushTime[Head(WithoutStale(Active[m]))] ELSE CurrentEarliestTime[n]
  BY <1>1, <1>2, <1>3, <1>4, <1>6, <1>7, <1>8, ClientsAre DEF WaitForWork, Goto, TypesOK
<1>11. /\ place' \in [Managers -> Places]
      /\ \A n \in Managers : place'[n] = IF n = m THEN "wait" ELSE place[n]
  BY <1>1, <1>2, <1>3, <1>4, <1>6, <1>7, <1>8, ClientsAre
     DEF WaitForWork, Goto, TypesOK, Places
<1>12. \A n \in Managers : IsInjective(Active'[n])
  BY <1>1, <1>2, <1>3, <1>4, <1>6, <1>7, <1>8, <1>9, ClientsAre DEF IsList, TypesOK
<1>13. TypesOK'
  BY <1>5, <1>9, <1>10, <1>11, <1>12 DEF TypesOK
<1>14. QED
  BY <1>13, <1>5, <1>6, <1>7, <1>8, <1>9, <1>10, <1>11, <1>12

(* What WakeUp does. *)
LEMMA WakeUpDoes ==
  ASSUME TypesOK, ClientsInv, PlacesInv, NEW m \in Managers, WakeUp(m)
  PROVE  /\ TypesOK'
         /\ UNCHANGED <<Instance, created, Backends, Active, StopRequested, running,
               Registered, ShutdownFlag, ShutdownCalled, FlushTime, current, ready, taken, at,
               flushed, when, held, appends, flushes, late, outdated>>
         /\ place[m] = "wait"
         /\ \A n \in Managers : Reschedule'[n] = IF n = m THEN FALSE ELSE Reschedule[n]
         /\ \A n \in Managers : CurrentEarliestTime'[n] = IF n = m THEN Never
               ELSE CurrentEarliestTime[n]
         /\ \A n \in Managers : place'[n] = IF n = m THEN "loop" ELSE place[n]
<1>1. UNCHANGED <<Instance, created, Backends, Active, StopRequested, running, Registered,
        ShutdownFlag, ShutdownCalled, FlushTime, current, ready, taken, at, flushed, when,
        held, appends, flushes, late, outdated>>
  BY DEF WakeUp, Goto, factory, lists, signals, managers, flags, data, threads, recorded
<1>2. place[m] = "wait"
  BY ClientsAre DEF WakeUp, TypesOK
<1>3. /\ Reschedule' \in [Managers -> BOOLEAN]
      /\ \A n \in Managers : Reschedule'[n] = IF n = m THEN FALSE ELSE Reschedule[n]
  BY <1>2, ClientsAre DEF WakeUp, Goto, TypesOK
<1>4. /\ CurrentEarliestTime' \in [Managers -> Times \cup {Never}]
      /\ \A n \in Managers : CurrentEarliestTime'[n] = IF n = m THEN Never
            ELSE CurrentEarliestTime[n]
  BY <1>2, ClientsAre DEF WakeUp, Goto, TypesOK
<1>5. /\ place' \in [Managers -> Places]
      /\ \A n \in Managers : place'[n] = IF n = m THEN "loop" ELSE place[n]
  BY <1>2, ClientsAre DEF WakeUp, Goto, TypesOK, Places
<1>6. TypesOK'
  BY <1>1, <1>3, <1>4, <1>5 DEF TypesOK
<1>7. QED
  BY <1>6, <1>1, <1>2, <1>3, <1>4, <1>5

(* What TakeHead does. *)
LEMMA TakeHeadDoes ==
  ASSUME TypesOK, ClientsInv, PlacesInv, NEW m \in Managers, TakeHead(m)
  PROVE  /\ TypesOK'
         /\ UNCHANGED <<Instance, created, Backends, StopRequested, Reschedule,
               CurrentEarliestTime, Registered, ShutdownFlag, ShutdownCalled, FlushTime,
               current, ready, taken, at, flushed, when, held, appends, flushes, late,
               outdated>>
         /\ place[m] = "loop"
         /\ ~ StopRequested[m]
         /\ WithoutStale(Active[m]) # <<>>
         /\ \A n \in Managers : Active'[n] = IF n = m THEN Tail(WithoutStale(Active[m]))
               ELSE Active[n]
         /\ \A n \in Managers : place'[n] = IF n = m
               THEN IF Head(WithoutStale(Active[m])) \in Backends[m] THEN "work" ELSE "loop"
               ELSE place[n]
         /\ \A n \in Managers : running'[n] = IF n = m
               THEN IF Head(WithoutStale(Active[m])) \in Backends[m]
               THEN Head(WithoutStale(Active[m])) ELSE running[m] ELSE running[n]
<1>1. IsList(Active[m])
  BY ActiveIs
<1>2. IsList(WithoutStale(Active[m])) /\ WithoutStale(Active[m]) # <<>>
  BY <1>1, WithoutStaleIs DEF TakeHead
<1>3. IsList(Tail(WithoutStale(Active[m]))) /\ Head(WithoutStale(Active[m])) \in FileBackends
  BY <1>2, TailIs
<1>4. IF Head(WithoutStale(Active[m])) \in Backends[m]
      THEN /\ running' = [running EXCEPT ![m] = Head(WithoutStale(Active[m]))]
           /\ place' = [place EXCEPT ![m] = "work"]
      ELSE UNCHANGED <<running, place>>
  BY DEF TakeHead
<1>5. UNCHANGED <<Instance, created, Backends, StopRequested, Reschedule, CurrentEarliestTime,
        Registered, ShutdownFlag, ShutdownCalled, FlushTime, current, ready, taken, at,
        flushed, when, held, appends, flushes, late, outdated>>
  BY DEF TakeHead, Goto, factory, lists, signals, managers, flags, data, threads, recorded
<1>6. place[m] = "loop"
  BY <1>1, <1>2, <1>3, <1>4, ClientsAre DEF TakeHead, TypesOK
<1>7. ~ StopRequested[m]
  BY <1>1, <1>2, <1>3, <1>4, ClientsAre DEF TakeHead, TypesOK
<1>8. WithoutStale(Active[m]) # <<>>
  BY <1>1, <1>2, <1>3, <1>4, ClientsAre DEF TakeHead, TypesOK
<1>9. /\ Active' \in [Managers -> Seq(FileBackends)]
      /\ \A n \in Managers : Active'[n] = IF n = m THEN Tail(WithoutStale(Active[m]))
            ELSE Active[n]
  BY <1>1, <1>2, <1>3, <1>4, <1>6, <1>7, <1>8, ClientsAre
     DEF TakeHead, Goto, TypesOK, IsList
<1>10. /\ place' \in [Managers -> Places]
      /\ \A n \in Managers : place'[n] = IF n = m
            THEN IF Head(WithoutStale(Active[m])) \in Backends[m] THEN "work" ELSE "loop"
            ELSE place[n]
  <2>1. CASE Head(WithoutStale(Active[m])) \in Backends[m]
    BY <1>1, <1>2, <1>3, <1>4, <1>6, <1>7, <1>8, ClientsAre, <2>1 DEF TypesOK, Places
  <2>2. CASE ~ (Head(WithoutStale(Active[m])) \in Backends[m])
    BY <1>1, <1>2, <1>3, <1>4, <1>6, <1>7, <1>8, ClientsAre, <2>2 DEF TypesOK, Places
  <2>3. QED
    BY <2>1, <2>2
<1>11. /\ running' \in [Managers -> FileBackends \cup {NoBackend}]
      /\ \A n \in Managers : running'[n] = IF n = m
            THEN IF Head(WithoutStale(Active[m])) \in Backends[m]
            THEN Head(WithoutStale(Active[m])) ELSE running[m] ELSE running[n]
  <2>1. CASE Head(WithoutStale(Active[m])) \in Backends[m]
    <3>1. /\ running' = [running EXCEPT ![m] = Head(WithoutStale(Active[m]))]
          /\ Head(WithoutStale(Active[m])) \in FileBackends
      BY <2>1, <1>3, <1>4
    <3>2. QED
      BY <2>1, <3>1 DEF TypesOK, Places
  <2>2. CASE ~ (Head(WithoutStale(Active[m])) \in Backends[m])
    BY <1>1, <1>2, <1>3, <1>4, <1>6, <1>7, <1>8, ClientsAre, <2>2 DEF TypesOK, Places
  <2>3. QED
    BY <2>1, <2>2
<1>12. \A n \in Managers : IsInjective(Active'[n])
  BY <1>1, <1>2, <1>3, <1>4, <1>6, <1>7, <1>8, <1>9, ClientsAre DEF IsList, TypesOK
<1>13. TypesOK'
  BY <1>5, <1>9, <1>10, <1>11, <1>12 DEF TypesOK
<1>14. QED
  BY <1>13, <1>5, <1>6, <1>7, <1>8, <1>9, <1>10, <1>11, <1>12

(* What WorkerFunc does. *)
LEMMA WorkerFuncDoes ==
  ASSUME TypesOK, ClientsInv, PlacesInv, NEW m \in Managers, WorkerFunc(m)
  PROVE  /\ TypesOK'
         /\ UNCHANGED <<Instance, created, Backends, Active, StopRequested, Reschedule,
               CurrentEarliestTime, running, Registered, ShutdownFlag, ShutdownCalled, taken,
               at, flushed, when, held, appends, flushes, late, outdated>>
         /\ place[m] = "work"
         /\ running[m] \in FileBackends
         /\ \A n \in Managers : place'[n] = IF n = m THEN IF ShutdownFlag[running[m]]
               THEN "remove" ELSE "again" ELSE place[n]
         /\ \A c \in FileBackends : c # running[m] => FlushTime'[c] = FlushTime[c]
         /\ \A c \in FileBackends : current'[c] \in {0, current[c]} /\ ready'[c] \in {0, ready[c]}
<1>1. running[m] \in FileBackends
  BY DEF WorkerFunc, PlacesInv, RunningInv
<1>2. place[m] = "work"
  BY DEF WorkerFunc
<1>3. UNCHANGED <<Instance, created, Backends, Active, StopRequested, Reschedule,
        CurrentEarliestTime, running, Registered, ShutdownFlag, ShutdownCalled, taken, at,
        flushed, when, held, appends, flushes, late, outdated>>
  BY DEF WorkerFunc, factory, lists, signals, managers, flags, data, threads, recorded
<1>4. /\ place' \in [Managers -> Places]
      /\ \A n \in Managers : place'[n] = IF n = m THEN IF ShutdownFlag[running[m]] THEN "remove"
            ELSE "again" ELSE place[n]
  BY <1>1, <1>2 DEF WorkerFunc, TypesOK, Places
<1>5. /\ FlushTime' \in [FileBackends -> Times \cup {NoTime}]
      /\ \A c \in FileBackends : c # running[m] => FlushTime'[c] = FlushTime[c]
      /\ current' \in [FileBackends -> Nat] /\ ready' \in [FileBackends -> Nat]
      /\ \A c \in FileBackends : current'[c] \in {0, current[c]} /\ ready'[c] \in {0, ready[c]}
  <2>1. RIGHT_NOW \in Times /\ \A b \in FileBackends : Left(b) \subseteq Times
    BY TimesAre DEF Left
  <2>2. CASE WritesReady(running[m])
    <3>1. PICK time \in Times \cup {NoTime} : FlushTime' = [FlushTime EXCEPT ![running[m]] = time]
      BY <1>1, <2>1, <2>2 DEF WritesReady
    <3>2. current' = current /\ ready' = [ready EXCEPT ![running[m]] = 0]
      BY <2>2 DEF WritesReady
    <3>3. QED
      BY <1>1, <3>1, <3>2 DEF TypesOK
  <2>3. CASE WritesCurrent(running[m])
    <3>1. /\ FlushTime' = [FlushTime EXCEPT ![running[m]] = NoTime]
          /\ current' = [current EXCEPT ![running[m]] = 0] /\ ready' = ready
      BY <2>3 DEF WritesCurrent
    <3>2. QED
      BY <1>1, <3>1 DEF TypesOK
  <2>4. CASE WritesNothing(running[m])
    <3>1. PICK time \in {RIGHT_NOW, NoTime} : FlushTime' = [FlushTime EXCEPT ![running[m]] = time]
      BY <2>4 DEF WritesNothing
    <3>2. current' = current /\ ready' = ready
      BY <2>4 DEF WritesNothing
    <3>3. QED
      BY <1>1, <2>1, <3>1, <3>2 DEF TypesOK
  <2>5. QED
    BY <2>2, <2>3, <2>4 DEF WorkerFunc
<1>6. TypesOK'
  BY <1>3, <1>4, <1>5 DEF TypesOK
<1>7. QED
  BY <1>1, <1>2, <1>3, <1>4, <1>5, <1>6

(* What Reactivate does. *)
LEMMA ReactivateDoes ==
  ASSUME TypesOK, ClientsInv, PlacesInv, NEW m \in Managers, Reactivate(m)
  PROVE  /\ TypesOK'
         /\ UNCHANGED <<Instance, created, Backends, StopRequested, Reschedule,
               CurrentEarliestTime, Registered, ShutdownFlag, ShutdownCalled, FlushTime,
               current, ready, taken, at, flushed, when, held, appends, flushes, late,
               outdated>>
         /\ place[m] = "again"
         /\ running[m] \in FileBackends
         /\ \A n \in Managers : Active'[n] = IF n = m THEN IF FlushTime[running[m]] = NoTime
               THEN Without(Active[m], running[m])
               ELSE Activate(Active[m], running[m], FlushTime[running[m]]) ELSE Active[n]
         /\ \A n \in Managers : place'[n] = IF n = m THEN "loop" ELSE place[n]
         /\ \A n \in Managers : running'[n] = IF n = m THEN NoBackend ELSE running[n]
<1>1. running[m] \in FileBackends
  BY DEF Reactivate, PlacesInv, RunningInv
<1>2. IsList(Active[m])
  BY ActiveIs
<1>3. IsList(Without(Active[m], running[m]))
  BY <1>1, <1>2, WithoutIs
<1>4. FlushTime[running[m]] # NoTime => FlushTime[running[m]] \in Times
  BY <1>1 DEF TypesOK
<1>5. FlushTime[running[m]] # NoTime => IsList(Activate(Active[m], running[m],
        FlushTime[running[m]]))
  BY <1>1, <1>2, <1>4, ActivateIs DEF TypesOK
<1>6. UNCHANGED <<Instance, created, Backends, StopRequested, Reschedule, CurrentEarliestTime,
        Registered, ShutdownFlag, ShutdownCalled, FlushTime, current, ready, taken, at,
        flushed, when, held, appends, flushes, late, outdated>>
  BY DEF Reactivate, Goto, factory, lists, signals, managers, flags, data, threads, recorded
<1>7. place[m] = "again"
  BY <1>1, <1>2, <1>3, <1>4, <1>5, ClientsAre DEF Reactivate, TypesOK
<1>8. running[m] \in FileBackends
  BY <1>1, <1>2, <1>3, <1>4, <1>5, ClientsAre DEF Reactivate, TypesOK
<1>9. /\ Active' \in [Managers -> Seq(FileBackends)]
      /\ \A n \in Managers : Active'[n] = IF n = m THEN IF FlushTime[running[m]] = NoTime
            THEN Without(Active[m], running[m]) ELSE Activate(Active[m], running[m],
            FlushTime[running[m]]) ELSE Active[n]
  BY <1>1, <1>2, <1>3, <1>4, <1>5, <1>7, <1>8, ClientsAre
     DEF Reactivate, Goto, TypesOK, IsList
<1>10. /\ place' \in [Managers -> Places]
      /\ \A n \in Managers : place'[n] = IF n = m THEN "loop" ELSE place[n]
  BY <1>1, <1>2, <1>3, <1>4, <1>5, <1>7, <1>8, ClientsAre
     DEF Reactivate, Goto, TypesOK, Places
<1>11. /\ running' \in [Managers -> FileBackends \cup {NoBackend}]
      /\ \A n \in Managers : running'[n] = IF n = m THEN NoBackend ELSE running[n]
  BY <1>1, <1>2, <1>3, <1>4, <1>5, <1>7, <1>8, ClientsAre DEF Reactivate, Goto, TypesOK
<1>12. \A n \in Managers : IsInjective(Active'[n])
  BY <1>1, <1>2, <1>3, <1>4, <1>5, <1>7, <1>8, <1>9, ClientsAre DEF IsList, TypesOK
<1>13. TypesOK'
  BY <1>6, <1>9, <1>10, <1>11, <1>12 DEF TypesOK
<1>14. QED
  BY <1>13, <1>6, <1>7, <1>8, <1>9, <1>10, <1>11, <1>12

(* What RemoveBackendLocked does. *)
LEMMA RemoveBackendLockedDoes ==
  ASSUME TypesOK, ClientsInv, PlacesInv, NEW m \in Managers, RemoveBackendLocked(m)
  PROVE  /\ TypesOK'
         /\ UNCHANGED <<Instance, created, Reschedule, CurrentEarliestTime, running,
               ShutdownFlag, ShutdownCalled, current, ready, taken, at, flushed, when, held,
               appends, flushes, late, outdated>>
         /\ place[m] = "remove"
         /\ running[m] \in FileBackends
         /\ \A n \in Managers : Backends'[n] = IF n = m THEN Backends[m] \ {running[m]}
               ELSE Backends[n]
         /\ \A n \in Managers : Active'[n] = IF n = m THEN Without(Active[m], running[m])
               ELSE Active[n]
         /\ \A n \in Managers : StopRequested'[n] = IF n = m
               THEN StopRequested[m] \/ Backends[m] \subseteq {running[m]} ELSE StopRequested[n]
         /\ \A n \in Managers : place'[n] = IF n = m THEN "shutdown" ELSE place[n]
         /\ \A c \in FileBackends : Registered'[c] = IF c = running[m] THEN FALSE
               ELSE Registered[c]
         /\ \A c \in FileBackends : FlushTime'[c] = IF c = running[m] THEN NoTime
               ELSE FlushTime[c]
<1>1. running[m] \in FileBackends
  BY DEF RemoveBackendLocked, PlacesInv, RunningInv
<1>2. IsList(Active[m])
  BY ActiveIs
<1>3. IsList(Without(Active[m], running[m]))
  BY <1>1, <1>2, WithoutIs
<1>4. UNCHANGED <<Instance, created, Reschedule, CurrentEarliestTime, running, ShutdownFlag,
        ShutdownCalled, current, ready, taken, at, flushed, when, held, appends, flushes, late,
        outdated>>
  BY DEF RemoveBackendLocked, Goto, factory, lists, signals, managers, flags, data, threads,
     recorded
<1>5. place[m] = "remove"
  BY <1>1, <1>2, <1>3, ClientsAre DEF RemoveBackendLocked, TypesOK
<1>6. running[m] \in FileBackends
  BY <1>1, <1>2, <1>3, ClientsAre DEF RemoveBackendLocked, TypesOK
<1>7. /\ Backends' \in [Managers -> SUBSET FileBackends]
      /\ \A n \in Managers : Backends'[n] = IF n = m THEN Backends[m] \ {running[m]}
            ELSE Backends[n]
  BY <1>1, <1>2, <1>3, <1>5, <1>6, ClientsAre DEF RemoveBackendLocked, Goto, TypesOK
<1>8. /\ Active' \in [Managers -> Seq(FileBackends)]
      /\ \A n \in Managers : Active'[n] = IF n = m THEN Without(Active[m], running[m])
            ELSE Active[n]
  BY <1>1, <1>2, <1>3, <1>5, <1>6, ClientsAre DEF RemoveBackendLocked, Goto, TypesOK,
     IsList
<1>9. /\ StopRequested' \in [Managers -> BOOLEAN]
      /\ \A n \in Managers : StopRequested'[n] = IF n = m
            THEN StopRequested[m] \/ Backends[m] \subseteq {running[m]} ELSE StopRequested[n]
  BY <1>1, <1>2, <1>3, <1>5, <1>6, ClientsAre DEF RemoveBackendLocked, Goto, TypesOK
<1>10. /\ place' \in [Managers -> Places]
      /\ \A n \in Managers : place'[n] = IF n = m THEN "shutdown" ELSE place[n]
  BY <1>1, <1>2, <1>3, <1>5, <1>6, ClientsAre DEF RemoveBackendLocked, Goto, TypesOK,
     Places
<1>11. /\ Registered' \in [FileBackends -> BOOLEAN]
      /\ \A c \in FileBackends : Registered'[c] = IF c = running[m] THEN FALSE
            ELSE Registered[c]
  BY <1>1, <1>2, <1>3, <1>5, <1>6, ClientsAre DEF RemoveBackendLocked, Goto, TypesOK
<1>12. /\ FlushTime' \in [FileBackends -> Times \cup {NoTime}]
      /\ \A c \in FileBackends : FlushTime'[c] = IF c = running[m] THEN NoTime ELSE FlushTime[c]
  BY <1>1, <1>2, <1>3, <1>5, <1>6, ClientsAre DEF RemoveBackendLocked, Goto, TypesOK
<1>13. \A n \in Managers : IsInjective(Active'[n])
  BY <1>1, <1>2, <1>3, <1>5, <1>6, <1>8, ClientsAre DEF IsList, TypesOK
<1>14. TypesOK'
  BY <1>4, <1>7, <1>8, <1>9, <1>10, <1>11, <1>12, <1>13 DEF TypesOK
<1>15. QED
  BY <1>14, <1>4, <1>5, <1>6, <1>7, <1>8, <1>9, <1>10, <1>11, <1>12, <1>13

(* What OnShutdown does. *)
LEMMA OnShutdownDoes ==
  ASSUME TypesOK, ClientsInv, PlacesInv, NEW m \in Managers, OnShutdown(m)
  PROVE  /\ TypesOK'
         /\ UNCHANGED <<Instance, created, Backends, Active, StopRequested, Reschedule,
               CurrentEarliestTime, Registered, ShutdownFlag, FlushTime, taken, at, flushed,
               when, held, appends, flushes, late, outdated>>
         /\ place[m] = "shutdown"
         /\ running[m] \in FileBackends
         /\ \A n \in Managers : place'[n] = IF n = m THEN "loop" ELSE place[n]
         /\ \A n \in Managers : running'[n] = IF n = m THEN NoBackend ELSE running[n]
         /\ \A c \in FileBackends : ShutdownCalled'[c] = IF c = running[m] THEN TRUE
               ELSE ShutdownCalled[c]
         /\ \A c \in FileBackends : current'[c] = IF c = running[m] THEN 0 ELSE current[c]
         /\ \A c \in FileBackends : ready'[c] = IF c = running[m] THEN 0 ELSE ready[c]
<1>1. running[m] \in FileBackends
  BY DEF OnShutdown, PlacesInv, RunningInv
<1>2. UNCHANGED <<Instance, created, Backends, Active, StopRequested, Reschedule,
        CurrentEarliestTime, Registered, ShutdownFlag, FlushTime, taken, at, flushed, when,
        held, appends, flushes, late, outdated>>
  BY DEF OnShutdown, Drain, Goto, factory, lists, signals, managers, flags, data, threads,
     recorded
<1>3. place[m] = "shutdown"
  BY <1>1, ClientsAre DEF OnShutdown, Drain, TypesOK
<1>4. running[m] \in FileBackends
  BY <1>1, ClientsAre DEF OnShutdown, Drain, TypesOK
<1>5. /\ place' \in [Managers -> Places]
      /\ \A n \in Managers : place'[n] = IF n = m THEN "loop" ELSE place[n]
  BY <1>1, <1>3, <1>4, ClientsAre DEF OnShutdown, Drain, Goto, TypesOK, Places
<1>6. /\ running' \in [Managers -> FileBackends \cup {NoBackend}]
      /\ \A n \in Managers : running'[n] = IF n = m THEN NoBackend ELSE running[n]
  BY <1>1, <1>3, <1>4, ClientsAre DEF OnShutdown, Drain, Goto, TypesOK
<1>7. /\ ShutdownCalled' \in [FileBackends -> BOOLEAN]
      /\ \A c \in FileBackends : ShutdownCalled'[c] = IF c = running[m] THEN TRUE
            ELSE ShutdownCalled[c]
  BY <1>1, <1>3, <1>4, ClientsAre DEF OnShutdown, Drain, Goto, TypesOK
<1>8. /\ current' \in [FileBackends -> Nat] /\ ready' \in [FileBackends -> Nat]
      /\ \A c \in FileBackends : current'[c] = IF c = running[m] THEN 0 ELSE current[c]
      /\ \A c \in FileBackends : ready'[c] = IF c = running[m] THEN 0 ELSE ready[c]
  BY <1>1, <1>3, <1>4, ClientsAre DEF OnShutdown, Drain, Goto, TypesOK
<1>9. TypesOK'
  BY <1>2, <1>5, <1>6, <1>7, <1>8 DEF TypesOK
<1>10. QED
  BY <1>9, <1>2, <1>3, <1>4, <1>5, <1>6, <1>7, <1>8

(* What Unregister does. *)
LEMMA UnregisterDoes ==
  ASSUME TypesOK, ClientsInv, PlacesInv, NEW m \in Managers, Unregister(m)
  PROVE  /\ TypesOK'
         /\ UNCHANGED <<Instance, created, Backends, StopRequested, Reschedule,
               CurrentEarliestTime, place, ShutdownFlag, ShutdownCalled, current, ready, taken,
               at, flushed, when, held, appends, flushes, late, outdated>>
         /\ place[m] = "destroy"
         /\ running[m] = NoBackend
         /\ running'[m] \in Backends[m]
         /\ \A n \in Managers : Active'[n] = IF n = m THEN Without(Active[m], running'[m])
               ELSE Active[n]
         /\ \A n \in Managers : running'[n] = IF n = m THEN running'[m] ELSE running[n]
         /\ \A c \in FileBackends : Registered'[c] = IF c = running'[m] THEN FALSE
               ELSE Registered[c]
         /\ \A c \in FileBackends : FlushTime'[c] = IF c = running'[m] THEN NoTime
               ELSE FlushTime[c]
<1>1. running'[m] \in Backends[m] /\ running'[m] \in FileBackends
  BY DEF Unregister, TypesOK
<1>2. IsList(Active[m])
  BY ActiveIs
<1>3. IsList(Without(Active[m], running'[m]))
  BY <1>1, <1>2, WithoutIs
<1>4. UNCHANGED <<Instance, created, Backends, StopRequested, Reschedule, CurrentEarliestTime,
        place, ShutdownFlag, ShutdownCalled, current, ready, taken, at, flushed, when, held,
        appends, flushes, late, outdated>>
  BY DEF Unregister, Goto, factory, lists, signals, managers, flags, data, threads, recorded
<1>5. place[m] = "destroy"
  BY <1>1, <1>2, <1>3, ClientsAre DEF Unregister, TypesOK
<1>6. running[m] = NoBackend
  BY <1>1, <1>2, <1>3, ClientsAre DEF Unregister, TypesOK
<1>7. running'[m] \in Backends[m]
  BY <1>1, <1>2, <1>3, ClientsAre DEF Unregister, TypesOK
<1>8. /\ Active' \in [Managers -> Seq(FileBackends)]
      /\ \A n \in Managers : Active'[n] = IF n = m THEN Without(Active[m], running'[m])
            ELSE Active[n]
  BY <1>1, <1>2, <1>3, <1>5, <1>6, <1>7, ClientsAre DEF Unregister, Goto, TypesOK, IsList
<1>9. /\ running' \in [Managers -> FileBackends \cup {NoBackend}]
      /\ \A n \in Managers : running'[n] = IF n = m THEN running'[m] ELSE running[n]
  BY <1>1, <1>2, <1>3, <1>5, <1>6, <1>7, ClientsAre DEF Unregister, Goto, TypesOK
<1>10. /\ Registered' \in [FileBackends -> BOOLEAN]
      /\ \A c \in FileBackends : Registered'[c] = IF c = running'[m] THEN FALSE
            ELSE Registered[c]
  BY <1>1, <1>2, <1>3, <1>5, <1>6, <1>7, ClientsAre DEF Unregister, Goto, TypesOK
<1>11. /\ FlushTime' \in [FileBackends -> Times \cup {NoTime}]
      /\ \A c \in FileBackends : FlushTime'[c] = IF c = running'[m] THEN NoTime
            ELSE FlushTime[c]
  BY <1>1, <1>2, <1>3, <1>5, <1>6, <1>7, ClientsAre DEF Unregister, Goto, TypesOK
<1>12. \A n \in Managers : IsInjective(Active'[n])
  BY <1>1, <1>2, <1>3, <1>5, <1>6, <1>7, <1>8, ClientsAre DEF IsList, TypesOK
<1>13. TypesOK'
  BY <1>4, <1>8, <1>9, <1>10, <1>11, <1>12 DEF TypesOK
<1>14. QED
  BY <1>13, <1>4, <1>5, <1>6, <1>7, <1>8, <1>9, <1>10, <1>11, <1>12

(* What DrainUnregistered does. *)
LEMMA DrainUnregisteredDoes ==
  ASSUME TypesOK, ClientsInv, PlacesInv, NEW m \in Managers, DrainUnregistered(m)
  PROVE  /\ TypesOK'
         /\ UNCHANGED <<Instance, created, Active, StopRequested, Reschedule,
               CurrentEarliestTime, place, Registered, ShutdownFlag, FlushTime, taken, at,
               flushed, when, held, appends, flushes, late, outdated>>
         /\ place[m] = "destroy"
         /\ running[m] \in FileBackends
         /\ \A n \in Managers : Backends'[n] = IF n = m THEN Backends[m] \ {running[m]}
               ELSE Backends[n]
         /\ \A n \in Managers : running'[n] = IF n = m THEN NoBackend ELSE running[n]
         /\ \A c \in FileBackends : ShutdownCalled'[c] = IF c = running[m] THEN TRUE
               ELSE ShutdownCalled[c]
         /\ \A c \in FileBackends : current'[c] = IF c = running[m] THEN 0 ELSE current[c]
         /\ \A c \in FileBackends : ready'[c] = IF c = running[m] THEN 0 ELSE ready[c]
<1>1. running[m] \in FileBackends
  BY DEF DrainUnregistered, TypesOK
<1>2. UNCHANGED <<Instance, created, Active, StopRequested, Reschedule, CurrentEarliestTime,
        place, Registered, ShutdownFlag, FlushTime, taken, at, flushed, when, held, appends, flushes,
        late, outdated>>
  BY DEF DrainUnregistered, Drain, Goto, factory, lists, signals, managers, flags, data,
     threads, recorded
<1>3. place[m] = "destroy"
  BY <1>1, ClientsAre DEF DrainUnregistered, Drain, TypesOK
<1>4. running[m] \in FileBackends
  BY <1>1, ClientsAre DEF DrainUnregistered, Drain, TypesOK
<1>5. /\ Backends' \in [Managers -> SUBSET FileBackends]
      /\ \A n \in Managers : Backends'[n] = IF n = m THEN Backends[m] \ {running[m]}
            ELSE Backends[n]
  BY <1>1, <1>3, <1>4, ClientsAre DEF DrainUnregistered, Drain, Goto, TypesOK
<1>6. /\ running' \in [Managers -> FileBackends \cup {NoBackend}]
      /\ \A n \in Managers : running'[n] = IF n = m THEN NoBackend ELSE running[n]
  BY <1>1, <1>3, <1>4, ClientsAre DEF DrainUnregistered, Drain, Goto, TypesOK
<1>7. /\ ShutdownCalled' \in [FileBackends -> BOOLEAN]
      /\ \A c \in FileBackends : ShutdownCalled'[c] = IF c = running[m] THEN TRUE
            ELSE ShutdownCalled[c]
  BY <1>1, <1>3, <1>4, ClientsAre DEF DrainUnregistered, Drain, Goto, TypesOK
<1>8. /\ current' \in [FileBackends -> Nat] /\ ready' \in [FileBackends -> Nat]
      /\ \A c \in FileBackends : current'[c] = IF c = running[m] THEN 0 ELSE current[c]
      /\ \A c \in FileBackends : ready'[c] = IF c = running[m] THEN 0 ELSE ready[c]
  BY <1>1, <1>3, <1>4, ClientsAre DEF DrainUnregistered, Drain, Goto, TypesOK
<1>9. TypesOK'
  BY <1>2, <1>5, <1>6, <1>7, <1>8 DEF TypesOK
<1>10. QED
  BY <1>9, <1>2, <1>3, <1>4, <1>5, <1>6, <1>7, <1>8

(* What Destroy does. *)
LEMMA DestroyDoes ==
  ASSUME TypesOK, ClientsInv, PlacesInv, NEW m \in Managers, Destroy(m)
  PROVE  /\ TypesOK'
         /\ UNCHANGED <<Instance, created, Backends, Active, StopRequested, Reschedule,
               CurrentEarliestTime, running, Registered, ShutdownFlag, ShutdownCalled,
               FlushTime, current, ready, taken, at, flushed, when, held, appends, flushes,
               late, outdated>>
         /\ place[m] = "destroy"
         /\ running[m] = NoBackend
         /\ Backends[m] = {}
         /\ \A n \in Managers : place'[n] = IF n = m THEN "gone" ELSE place[n]
<1>1. UNCHANGED <<Instance, created, Backends, Active, StopRequested, Reschedule,
        CurrentEarliestTime, running, Registered, ShutdownFlag, ShutdownCalled, FlushTime,
        current, ready, taken, at, flushed, when, held, appends, flushes, late, outdated>>
  BY DEF Destroy, Goto, factory, lists, signals, managers, flags, data, threads, recorded
<1>2. place[m] = "destroy"
  BY ClientsAre DEF Destroy, TypesOK
<1>3. running[m] = NoBackend
  BY ClientsAre DEF Destroy, TypesOK
<1>4. Backends[m] = {}
  BY ClientsAre DEF Destroy, TypesOK
<1>5. /\ place' \in [Managers -> Places]
      /\ \A n \in Managers : place'[n] = IF n = m THEN "gone" ELSE place[n]
  BY <1>2, <1>3, <1>4, ClientsAre DEF Destroy, Goto, TypesOK, Places
<1>6. TypesOK'
  BY <1>1, <1>5 DEF TypesOK
<1>7. QED
  BY <1>6, <1>1, <1>2, <1>3, <1>4, <1>5

(* What BeginDestruction does. *)
LEMMA BeginDestructionDoes ==
  ASSUME TypesOK, ClientsInv, PlacesInv, BeginDestruction
  PROVE  /\ TypesOK'
         /\ UNCHANGED <<Instance, created, Backends, Active, CurrentEarliestTime, place,
               running, Registered, ShutdownFlag, ShutdownCalled, FlushTime, current, ready,
               taken, flushed, when, held, appends, flushes, late, outdated>>
         /\ \A u \in Clients : at[u] = "idle"
         /\ \A n \in Managers : StopRequested'[n] <=> StopRequested[n] \/ n = Instance
         /\ \A n \in Managers : Reschedule'[n] <=> Reschedule[n] \/ n = Instance
         /\ \A u \in Clients : at'[u] = IF u = Owner THEN "channels" ELSE at[u]
<1>1. UNCHANGED <<Instance, created, Backends, Active, CurrentEarliestTime, place, running,
        Registered, ShutdownFlag, ShutdownCalled, FlushTime, current, ready, taken, flushed,
        when, held, appends, flushes, late, outdated>>
  BY DEF BeginDestruction, Goto, factory, lists, signals, managers, flags, data, threads,
     recorded
<1>2. \A u \in Clients : at[u] = "idle"
  BY ClientsAre DEF BeginDestruction, TypesOK
<1>3. /\ StopRequested' \in [Managers -> BOOLEAN]
      /\ \A n \in Managers : StopRequested'[n] <=> StopRequested[n] \/ n = Instance
  BY <1>2, ClientsAre DEF BeginDestruction, Goto, TypesOK
<1>4. /\ Reschedule' \in [Managers -> BOOLEAN]
      /\ \A n \in Managers : Reschedule'[n] <=> Reschedule[n] \/ n = Instance
  BY <1>2, ClientsAre DEF BeginDestruction, Goto, TypesOK
<1>5. /\ at' \in [Clients -> Labels]
      /\ \A u \in Clients : at'[u] = IF u = Owner THEN "channels" ELSE at[u]
  BY <1>2, ClientsAre DEF BeginDestruction, Goto, TypesOK, Labels, After
<1>6. TypesOK'
  BY <1>1, <1>3, <1>4, <1>5 DEF TypesOK
<1>7. QED
  BY <1>6, <1>1, <1>2, <1>3, <1>4, <1>5

(* What DestroyFactory does. *)
LEMMA DestroyFactoryDoes ==
  ASSUME TypesOK, ClientsInv, PlacesInv, DestroyFactory
  PROVE  /\ TypesOK'
         /\ UNCHANGED <<created, Backends, Active, StopRequested, Reschedule,
               CurrentEarliestTime, place, running, Registered, ShutdownFlag, ShutdownCalled,
               FlushTime, current, ready, taken, flushed, when, appends, flushes, late,
               outdated>>
         /\ at[Owner] = "channels"
         /\ \A c \in FileBackends : at[c] = "idle" /\ ShutdownFlag[c]
         /\ Instance' = 0
         /\ \A u \in Clients : at'[u] = IF u = Owner THEN IF Instance = 0 THEN "done"
               ELSE "join" ELSE at[u]
         /\ \A u \in Clients : held'[u] = IF u = Owner THEN Instance ELSE held[u]
<1>1. UNCHANGED <<created, Backends, Active, StopRequested, Reschedule, CurrentEarliestTime,
        place, running, Registered, ShutdownFlag, ShutdownCalled, FlushTime, current, ready,
        taken, flushed, when, appends, flushes, late, outdated>>
  BY DEF DestroyFactory, Goto, factory, lists, signals, managers, flags, data, threads, recorded
<1>2. at[Owner] = "channels"
  BY ClientsAre DEF DestroyFactory, TypesOK
<1>3. \A c \in FileBackends : at[c] = "idle" /\ ShutdownFlag[c]
  BY ClientsAre DEF DestroyFactory, TypesOK
<1>4. /\ Instance' \in 0..created'
      /\ Instance' = 0
  BY <1>2, <1>3, ClientsAre DEF DestroyFactory, Goto, TypesOK
<1>5. /\ at' \in [Clients -> Labels]
      /\ \A u \in Clients : at'[u] = IF u = Owner THEN IF Instance = 0 THEN "done" ELSE "join"
            ELSE at[u]
  BY <1>2, <1>3, ClientsAre DEF DestroyFactory, Goto, TypesOK, Labels, After
<1>6. /\ held' \in [Clients -> Managers \cup {0}]
      /\ \A u \in Clients : held'[u] = IF u = Owner THEN Instance ELSE held[u]
  BY <1>2, <1>3, ClientsAre DEF DestroyFactory, Goto, TypesOK
<1>7. TypesOK'
  BY <1>1, <1>4, <1>5, <1>6 DEF TypesOK
<1>8. QED
  BY <1>7, <1>1, <1>2, <1>3, <1>4, <1>5, <1>6

(* What Tick does. *)
LEMMA TickDoes ==
  ASSUME TypesOK, ClientsInv, PlacesInv, Tick
  PROVE  /\ TypesOK'
         /\ UNCHANGED <<Instance, created, Backends, Active, StopRequested, Reschedule, place,
               running, Registered, ShutdownFlag, ShutdownCalled, current, ready, taken, at,
               flushed, held, appends, flushes, late, outdated>>
         /\ \A n \in Managers : CurrentEarliestTime'[n] = Nearer(CurrentEarliestTime[n])
         /\ \A c \in FileBackends : FlushTime'[c] = Nearer(FlushTime[c])
         /\ \A u \in Clients : when'[u] = Nearer(when[u])
<1>1. FlushTime' = [c \in FileBackends |-> Nearer(FlushTime[c])]
  BY DEF Tick, Nearer
<1>2. when' = [u \in Clients |-> Nearer(when[u])]
  BY DEF Tick, Nearer
<1>3. CurrentEarliestTime' = [n \in Managers |-> Nearer(CurrentEarliestTime[n])]
  BY DEF Tick, Nearer
<1>4. UNCHANGED <<Instance, created, Backends, Active, StopRequested, Reschedule, place,
        running, Registered, ShutdownFlag, ShutdownCalled, current, ready, taken, at, flushed,
        held, appends, flushes, late, outdated>>
  BY DEF Tick, Nearer, Goto, factory, lists, signals, managers, flags, data, threads, recorded
<1>5. /\ CurrentEarliestTime' \in [Managers -> Times \cup {Never}]
      /\ \A n \in Managers : CurrentEarliestTime'[n] = Nearer(CurrentEarliestTime[n])
  BY <1>3, NearerIs DEF TypesOK
<1>6. /\ FlushTime' \in [FileBackends -> Times \cup {NoTime}]
      /\ \A c \in FileBackends : FlushTime'[c] = Nearer(FlushTime[c])
  BY <1>1, NearerIs DEF TypesOK
<1>7. /\ when' \in [Clients -> Times \cup {NoTime}]
      /\ \A u \in Clients : when'[u] = Nearer(when[u])
  BY <1>2, NearerIs DEF TypesOK
<1>8. TypesOK'
  BY <1>4, <1>5, <1>6, <1>7 DEF TypesOK
<1>9. QED
  BY <1>8, <1>4, <1>5, <1>6, <1>7

(* The steps there are. *)
LEMMA Steps ==
  ASSUME [ManagersNext]_managersVars
  PROVE  \/ \E b \in FileBackends :
              \/ Display(b) \/ Freeze(b) \/ Flush(b) \/ AddTakesStopping(b) \/ SetStopping(b)
              \/ Provide(b) \/ SetRegistered(b) \/ AppendOutputData(b)
         \/ \E t \in Clients :
               WaitForStop(t) \/ Leaves(t) \/ NotifyFactory(t) \/ NotifyManager(t)
         \/ \E m \in Managers :
              \/ Exit(m) \/ WaitForWork(m) \/ WakeUp(m) \/ TakeHead(m) \/ WorkerFunc(m)
              \/ Reactivate(m) \/ RemoveBackendLocked(m) \/ OnShutdown(m) \/ Unregister(m)
              \/ DrainUnregistered(m) \/ Destroy(m)
         \/ Publishes \/ AllPublished \/ FlushDone
         \/ BeginDestruction \/ DestroyFactory \/ Tick \/ UNCHANGED managersVars
BY ClientsAre DEF ManagersNext, BackendStep, NotifyStep, ManagerStep, FlushStep, OwnerStep,
   Leaves, Publishes, Terminated

(* Every step keeps the threads where they belong. *)
LEMMA ClientsKept ==
  ASSUME ManagersInv, [ManagersNext]_managersVars
  PROVE  ClientsInv'
<1>0. TypesOK /\ ClientsInv /\ PlacesInv /\ BackendsInv
  BY DEF ManagersInv
<1>1. ASSUME NEW b \in FileBackends, Display(b) PROVE ClientsInv'
  <2>1. /\ at[b] = "idle"
        /\ ~ ShutdownFlag[b]
        /\ at[Owner] = "idle"
        /\ UNCHANGED <<Instance, Registered, ShutdownFlag, flushed, when, held>>
        /\ \A u \in Clients : at'[u] = IF u = b THEN IF Registered[b] THEN "append" ELSE "add"
              ELSE at[u]
    BY <1>0, <1>1, DisplayDoes
  <2>2. QED
    BY <1>0, <2>1, ClientsAre, TimesAre DEF ClientsInv, LabelsInv, AddingInv, OwnerInv,
       FlushedInv, HeldInv, TypesOK, Adding, Holding, After
<1>2. ASSUME NEW b \in FileBackends, AddTakesStopping(b) PROVE ClientsInv'
  <2>1. /\ at[b] = "add"
        /\ UNCHANGED <<Registered, ShutdownFlag, flushed, when>>
        /\ Instance' = IF Instance # 0 /\ StopRequested[Instance] THEN 0 ELSE Instance
        /\ \A u \in Clients : at'[u] = IF u = b THEN IF Instance # 0 /\ StopRequested[Instance]
              THEN "stop" ELSE "provide" ELSE at[u]
        /\ \A u \in Clients : held'[u] = IF u = b
              THEN IF Instance # 0 /\ StopRequested[Instance] THEN Instance ELSE held[b]
              ELSE held[u]
    BY <1>0, <1>2, AddTakesStoppingDoes
  <2>2. QED
    BY <1>0, <2>1, ClientsAre, TimesAre DEF ClientsInv, LabelsInv, AddingInv, OwnerInv,
       FlushedInv, HeldInv, TypesOK, Adding, Holding, After
<1>3. ASSUME NEW b \in FileBackends, SetStopping(b) PROVE ClientsInv'
  <2>1. /\ at[b] = "stop"
        /\ held[b] \in Managers
        /\ UNCHANGED <<Instance, Registered, ShutdownFlag, flushed, when, held>>
        /\ \A u \in Clients : at'[u] = IF u = b THEN "join" ELSE at[u]
    BY <1>0, <1>3, SetStoppingDoes
  <2>2. QED
    BY <1>0, <2>1, ClientsAre, TimesAre DEF ClientsInv, LabelsInv, AddingInv, OwnerInv,
       FlushedInv, HeldInv, TypesOK, Adding, Holding, After
<1>4. ASSUME NEW t \in Clients, WaitForStop(t) PROVE ClientsInv'
  <2>1. /\ at[t] = "join"
        /\ held[t] \in Managers
        /\ place[held[t]] = "exited"
        /\ UNCHANGED <<Instance, Registered, ShutdownFlag, flushed, when>>
        /\ \A u \in Clients : at'[u] = IF u = t THEN IF LastReference(t, held[t]) THEN "drain"
              ELSE IF t = Owner THEN "done" ELSE "provide" ELSE at[u]
        /\ \A u \in Clients : held'[u] = IF u = t THEN IF LastReference(t, held[t]) THEN held[t]
              ELSE 0 ELSE held[u]
    BY <1>0, <1>4, WaitForStopDoes
  <2>2. t # Flusher /\ (t = Owner \/ t \in FileBackends)
    BY <1>0, <2>1, ClientsAre DEF ClientsInv, LabelsInv
  <2>3. t # Owner => at[Owner] = "idle"
    BY <1>0, <2>1, <2>2, ClientsAre DEF ClientsInv, OwnerInv
  <2>4. LabelsInv'
    BY <1>0, <2>1, <2>2, <2>3, ClientsAre DEF ClientsInv, LabelsInv, Adding, Holding, After
  <2>5. AddingInv'
    BY <1>0, <2>1, <2>2, <2>3, ClientsAre DEF ClientsInv, AddingInv, Adding, Holding, After
  <2>6. OwnerInv'
    BY <1>0, <2>1, <2>2, <2>3, ClientsAre DEF ClientsInv, OwnerInv, Adding, Holding, After
  <2>7. FlushedInv'
    BY <1>0, <2>1, <2>2, <2>3, ClientsAre DEF ClientsInv, FlushedInv, Adding, Holding, After
  <2>8. HeldInv'
    BY <1>0, <2>1, <2>2, <2>3, ClientsAre DEF ClientsInv, HeldInv, Adding, Holding, After
  <2>9. QED
    BY <2>4, <2>5, <2>6, <2>7, <2>8 DEF ClientsInv
<1>5. ASSUME NEW t \in Clients, Leaves(t) PROVE ClientsInv'
  <2>1. /\ at[t] \in {"drain", "drop"}
        /\ held[t] \in Managers
        /\ place[held[t]] = "gone"
        /\ UNCHANGED <<Instance, Registered, ShutdownFlag, flushed, when>>
        /\ \A u \in Clients : at'[u] = IF u = t THEN IF at[t] = "drop" THEN After(t)
              ELSE IF t = Owner THEN "done" ELSE "provide" ELSE at[u]
        /\ \A u \in Clients : held'[u] = IF u = t THEN 0 ELSE held[u]
    BY <1>0, <1>5, LeavesDoes
  <2>2. t = Owner \/ t = Flusher \/ t \in FileBackends
    BY ClientsAre
  <2>3. t \notin FileBackends /\ at[t] = "drain" => t = Owner
    BY <1>0, <2>1, <2>2 DEF ClientsInv, LabelsInv
  <2>4. t = Flusher => at[t] = "drop"
    BY <2>2, <2>3, ClientsAre, <2>1
  <2>5. t = Owner => at[t] = "drain"
    BY <1>0, <2>1 DEF ClientsInv, LabelsInv
  <2>6. After(t) = IF t = Flusher THEN "flushing" ELSE "idle"
    BY DEF After
  <2>7. LabelsInv'
    BY <1>0, <2>1, <2>2, <2>3, <2>4, <2>5, <2>6, ClientsAre
       DEF ClientsInv, LabelsInv, Adding, Holding
  <2>8. AddingInv'
    BY <1>0, <2>1, <2>2, <2>3, <2>4, <2>5, <2>6, ClientsAre
       DEF ClientsInv, AddingInv, Adding, Holding
  <2>9. OwnerInv'
    BY <1>0, <2>1, <2>2, <2>3, <2>4, <2>5, <2>6, ClientsAre
       DEF ClientsInv, OwnerInv, Adding, Holding
  <2>10. FlushedInv'
    BY <1>0, <2>1, <2>2, <2>3, <2>4, <2>5, <2>6, ClientsAre
       DEF ClientsInv, FlushedInv, Adding, Holding
  <2>11. HeldInv'
    BY <1>0, <2>1, <2>2, <2>3, <2>4, <2>5, <2>6, ClientsAre
       DEF ClientsInv, HeldInv, Adding, Holding
  <2>12. QED
    BY <2>7, <2>8, <2>9, <2>10, <2>11 DEF ClientsInv
<1>6. ASSUME NEW b \in FileBackends, Provide(b) PROVE ClientsInv'
  <2>1. /\ at[b] = "provide"
        /\ Instance' \in Managers
        /\ UNCHANGED <<Registered, ShutdownFlag, flushed, when, held>>
        /\ Instance' = IF Instance = 0 THEN created + 1 ELSE Instance
        /\ \A u \in Clients : at'[u] = IF u = b THEN "register" ELSE at[u]
    BY <1>0, <1>6, ProvideDoes
  <2>2. QED
    BY <1>0, <2>1, ClientsAre, TimesAre DEF ClientsInv, LabelsInv, AddingInv, OwnerInv,
       FlushedInv, HeldInv, TypesOK, Adding, Holding, After
<1>7. ASSUME NEW b \in FileBackends, SetRegistered(b) PROVE ClientsInv'
  <2>1. /\ at[b] = "register"
        /\ UNCHANGED <<Instance, ShutdownFlag, flushed, when, held>>
        /\ \A c \in FileBackends : Registered'[c] = IF c = b THEN TRUE ELSE Registered[c]
        /\ \A u \in Clients : at'[u] = IF u = b THEN "append" ELSE at[u]
    BY <1>0, <1>7, SetRegisteredDoes
  <2>2. QED
    BY <1>0, <2>1, ClientsAre, TimesAre DEF ClientsInv, LabelsInv, AddingInv, OwnerInv,
       FlushedInv, HeldInv, TypesOK, Adding, Holding, After
<1>8. ASSUME NEW b \in FileBackends, AppendOutputData(b) PROVE ClientsInv'
  <2>1. /\ at[b] = "append"
        /\ UNCHANGED <<Instance, Registered, ShutdownFlag, flushed, held>>
        /\ \A u \in Clients : at'[u] = IF u = b THEN IF Urgent(b) \/ Deferred(b) THEN "notify"
              ELSE "idle" ELSE at[u]
        /\ \A u \in Clients : when'[u] = IF u = b THEN IF Urgent(b) THEN RIGHT_NOW
              ELSE IF Deferred(b) THEN Later ELSE when[b] ELSE when[u]
    BY <1>0, <1>8, AppendOutputDataDoes
  <2>2. RIGHT_NOW # NoTime /\ Later # NoTime /\ b \in Clients /\ b # Owner /\ b # Flusher
    BY ClientsAre, TimesAre
  <2>3. LabelsInv'
    BY <1>0, <2>1, <2>2, ClientsAre DEF ClientsInv, LabelsInv, Adding, Holding, After
  <2>4. AddingInv'
    BY <1>0, <2>1, <2>2, ClientsAre DEF ClientsInv, AddingInv, Adding, Holding, After
  <2>5. OwnerInv'
    BY <1>0, <2>1, <2>2, ClientsAre DEF ClientsInv, OwnerInv, Adding, Holding, After
  <2>6. FlushedInv'
    BY <1>0, <2>1, <2>2, ClientsAre DEF ClientsInv, FlushedInv, Adding, Holding, After
  <2>7. HeldInv'
    BY <1>0, <2>1, <2>2, ClientsAre DEF ClientsInv, HeldInv, Adding, Holding, After
  <2>8. QED
    BY <2>3, <2>4, <2>5, <2>6, <2>7 DEF ClientsInv
<1>9. ASSUME NEW b \in FileBackends, Freeze(b) PROVE ClientsInv'
  <2>1. /\ at[b] = "idle"
        /\ ~ ShutdownFlag[b]
        /\ UNCHANGED <<Instance, Registered, flushed, held>>
        /\ \A c \in FileBackends : ShutdownFlag'[c] = IF c = b THEN TRUE ELSE ShutdownFlag[c]
        /\ \A u \in Clients : at'[u] = IF u = b THEN IF Asks(b) THEN "notify" ELSE "idle"
              ELSE at[u]
        /\ \A u \in Clients : when'[u] = IF u = b THEN IF Asks(b) THEN RIGHT_NOW ELSE when[b]
              ELSE when[u]
    BY <1>0, <1>9, FreezeDoes
  <2>2. flushed \in FileBackends \cup {NoBackend}
    BY <1>0 DEF TypesOK
  <2>3. RIGHT_NOW # NoTime /\ b \in Clients /\ b # Owner /\ b # Flusher
    BY ClientsAre, TimesAre
  <2>4. LabelsInv'
    BY <1>0, <2>1, <2>2, <2>3, ClientsAre DEF ClientsInv, LabelsInv, Adding, Holding, After
  <2>5. AddingInv'
    BY <1>0, <2>1, <2>2, <2>3, ClientsAre DEF ClientsInv, AddingInv, Adding, Holding, After
  <2>6. OwnerInv'
    BY <1>0, <2>1, <2>2, <2>3, ClientsAre DEF ClientsInv, OwnerInv, Adding, Holding, After
  <2>7. FlushedInv'
    BY <1>0, <2>1, <2>2, <2>3, ClientsAre DEF ClientsInv, FlushedInv, Adding, Holding, After
  <2>8. HeldInv'
    BY <1>0, <2>1, <2>2, <2>3, ClientsAre DEF ClientsInv, HeldInv, Adding, Holding, After
  <2>9. QED
    BY <2>4, <2>5, <2>6, <2>7, <2>8 DEF ClientsInv
<1>10. ASSUME NEW b \in FileBackends, Flush(b) PROVE ClientsInv'
  <2>1. /\ at[Flusher] = "idle"
        /\ Registered[b] \/ ShutdownFlag[b]
        /\ at[Owner] = "idle"
        /\ UNCHANGED <<Instance, Registered, ShutdownFlag, when, held>>
        /\ \A u \in Clients : at'[u] = IF u = Flusher THEN "publish" ELSE at[u]
        /\ flushed' = b
    BY <1>0, <1>10, FlushDoes
  <2>2. QED
    BY <1>0, <2>1, ClientsAre, TimesAre DEF ClientsInv, LabelsInv, AddingInv, OwnerInv,
       FlushedInv, HeldInv, TypesOK, Adding, Holding, After
<1>11. ASSUME Publishes PROVE ClientsInv'
  <2>1. /\ at[Flusher] \in {"publish", "enqueue"}
        /\ flushed \in FileBackends
        /\ UNCHANGED <<Instance, Registered, ShutdownFlag, when, held, flushed>>
        /\ at'[Flusher] \in {"publish", "enqueue"}
        /\ \A u \in Clients : u # Flusher => at'[u] = at[u]
    BY <1>0, <1>11, PublishesDoes
  <2>2. QED
    BY <1>0, <2>1, ClientsAre, TimesAre DEF ClientsInv, LabelsInv, AddingInv, OwnerInv,
       FlushedInv, HeldInv, TypesOK, Adding, Holding, After
<1>12. ASSUME AllPublished PROVE ClientsInv'
  <2>1. /\ at[Flusher] = "publish"
        /\ flushed \in FileBackends
        /\ UNCHANGED <<Instance, Registered, ShutdownFlag, held, flushed>>
        /\ \A u \in Clients : at'[u] = IF u = Flusher THEN IF Asks(flushed) THEN "notify"
              ELSE "flushing" ELSE at[u]
        /\ \A u \in Clients : when'[u] = IF u = Flusher THEN IF Asks(flushed) THEN RIGHT_NOW
              ELSE when[Flusher] ELSE when[u]
    BY <1>0, <1>12, AllPublishedDoes
  <2>2. RIGHT_NOW # NoTime /\ flushed # Owner /\ flushed # Flusher
    BY <2>1, ClientsAre, TimesAre
  <2>3. LabelsInv'
    BY <1>0, <2>1, <2>2, ClientsAre DEF ClientsInv, LabelsInv, Adding, Holding, After
  <2>4. AddingInv'
    BY <1>0, <2>1, <2>2, ClientsAre DEF ClientsInv, AddingInv, Adding, Holding, After
  <2>5. OwnerInv'
    BY <1>0, <2>1, <2>2, ClientsAre DEF ClientsInv, OwnerInv, Adding, Holding, After
  <2>6. FlushedInv'
    BY <1>0, <2>1, <2>2, ClientsAre DEF ClientsInv, FlushedInv, Adding, Holding, After
  <2>7. HeldInv'
    BY <1>0, <2>1, <2>2, ClientsAre DEF ClientsInv, HeldInv, Adding, Holding, After
  <2>8. QED
    BY <2>3, <2>4, <2>5, <2>6, <2>7 DEF ClientsInv
<1>13. ASSUME FlushDone PROVE ClientsInv'
  <2>1. /\ at[Flusher] = "flushing"
        /\ UNCHANGED <<Instance, Registered, ShutdownFlag, when, held>>
        /\ \A u \in Clients : at'[u] = IF u = Flusher THEN "idle" ELSE at[u]
        /\ flushed' = NoBackend
    BY <1>0, <1>13, FlushDoneDoes
  <2>2. QED
    BY <1>0, <2>1, ClientsAre, TimesAre DEF ClientsInv, LabelsInv, AddingInv, OwnerInv,
       FlushedInv, HeldInv, TypesOK, Adding, Holding, After
<1>14. ASSUME NEW t \in Clients, NotifyFactory(t) PROVE ClientsInv'
  <2>1. /\ at[t] = "notify"
        /\ UNCHANGED <<Instance, Registered, ShutdownFlag, flushed>>
        /\ \A u \in Clients : at'[u] = IF u = t THEN IF Instance = 0 THEN After(t)
              ELSE "announce" ELSE at[u]
        /\ \A u \in Clients : when'[u] = IF u = t THEN IF Instance = 0 THEN NoTime ELSE when[t]
              ELSE when[u]
        /\ \A u \in Clients : held'[u] = IF u = t THEN Instance ELSE held[u]
    BY <1>0, <1>14, NotifyFactoryDoes
  <2>2. t # Owner
    BY <1>0, <2>1 DEF ClientsInv, LabelsInv
  <2>3. After(t) = IF t = Flusher THEN "flushing" ELSE "idle"
    BY DEF After
  <2>4. LabelsInv'
    BY <1>0, <2>1, <2>2, <2>3, ClientsAre DEF ClientsInv, LabelsInv, Adding, Holding
  <2>5. AddingInv'
    BY <1>0, <2>1, <2>2, <2>3, ClientsAre DEF ClientsInv, AddingInv, Adding, Holding
  <2>6. OwnerInv'
    BY <1>0, <2>1, <2>2, <2>3, ClientsAre DEF ClientsInv, OwnerInv, Adding, Holding
  <2>7. FlushedInv'
    BY <1>0, <2>1, <2>2, <2>3, ClientsAre DEF ClientsInv, FlushedInv, Adding, Holding
  <2>8. HeldInv'
    BY <1>0, <2>1, <2>2, <2>3, ClientsAre DEF ClientsInv, HeldInv, Adding, Holding
  <2>9. QED
    BY <2>4, <2>5, <2>6, <2>7, <2>8 DEF ClientsInv
<1>15. ASSUME NEW t \in Clients, NotifyManager(t) PROVE ClientsInv'
  <2>1. /\ at[t] = "announce"
        /\ held[t] \in Managers
        /\ when[t] \in Times
        /\ BackendOf(t) \in FileBackends
        /\ UNCHANGED <<Instance, Registered, ShutdownFlag, flushed>>
        /\ \A u \in Clients : at'[u] = IF u = t THEN IF LastReference(t, held[t]) THEN "drop"
              ELSE After(t) ELSE at[u]
        /\ \A u \in Clients : when'[u] = IF u = t THEN NoTime ELSE when[u]
        /\ \A u \in Clients : held'[u] = IF u = t THEN IF LastReference(t, held[t]) THEN held[t]
              ELSE 0 ELSE held[u]
    BY <1>0, <1>15, NotifyManagerDoes
  <2>2. t # Owner
    BY <1>0, <2>1 DEF ClientsInv, LabelsInv
  <2>3. held[t] # 0
    BY <2>1, ClientsAre
  <2>4. After(t) = IF t = Flusher THEN "flushing" ELSE "idle"
    BY DEF After
  <2>5. LabelsInv'
    BY <1>0, <2>1, <2>2, <2>3, <2>4, ClientsAre DEF ClientsInv, LabelsInv, Adding, Holding
  <2>6. AddingInv'
    BY <1>0, <2>1, <2>2, <2>3, <2>4, ClientsAre DEF ClientsInv, AddingInv, Adding, Holding
  <2>7. OwnerInv'
    BY <1>0, <2>1, <2>2, <2>3, <2>4, ClientsAre DEF ClientsInv, OwnerInv, Adding, Holding
  <2>8. FlushedInv'
    BY <1>0, <2>1, <2>2, <2>3, <2>4, ClientsAre DEF ClientsInv, FlushedInv, Adding, Holding
  <2>9. HeldInv'
    BY <1>0, <2>1, <2>2, <2>3, <2>4, ClientsAre DEF ClientsInv, HeldInv, Adding, Holding
  <2>10. QED
    BY <2>5, <2>6, <2>7, <2>8, <2>9 DEF ClientsInv
<1>16. ASSUME NEW m \in Managers, RemoveBackendLocked(m) PROVE ClientsInv'
  <2>1. /\ place[m] = "remove"
        /\ running[m] \in FileBackends
        /\ UNCHANGED <<Instance, ShutdownFlag, at, flushed, when, held>>
        /\ \A c \in FileBackends : Registered'[c] = IF c = running[m] THEN FALSE
              ELSE Registered[c]
    BY <1>0, <1>16, RemoveBackendLockedDoes
  <2>2. flushed \in FileBackends \cup {NoBackend}
    BY <1>0 DEF TypesOK
  <2>3. ShutdownFlag[running[m]]
    BY <1>0, <2>1, ClientsAre DEF BackendsInv, HandInv
  <2>4. LabelsInv'
    BY <1>0, <2>1, <2>2, <2>3, ClientsAre DEF ClientsInv, LabelsInv, Adding, Holding, After
  <2>5. AddingInv'
    BY <1>0, <2>1, <2>2, <2>3, ClientsAre DEF ClientsInv, AddingInv, Adding, Holding, After
  <2>6. OwnerInv'
    BY <1>0, <2>1, <2>2, <2>3, ClientsAre DEF ClientsInv, OwnerInv, Adding, Holding, After
  <2>7. FlushedInv'
    BY <1>0, <2>1, <2>2, <2>3, ClientsAre DEF ClientsInv, FlushedInv, Adding, Holding, After
  <2>8. HeldInv'
    BY <1>0, <2>1, <2>2, <2>3, ClientsAre DEF ClientsInv, HeldInv, Adding, Holding, After
  <2>9. QED
    BY <2>4, <2>5, <2>6, <2>7, <2>8 DEF ClientsInv
<1>17. ASSUME NEW m \in Managers, Unregister(m) PROVE ClientsInv'
  <2>1. /\ place[m] = "destroy"
        /\ running[m] = NoBackend
        /\ running'[m] \in Backends[m]
        /\ UNCHANGED <<Instance, ShutdownFlag, at, flushed, when, held>>
        /\ \A c \in FileBackends : Registered'[c] = IF c = running'[m] THEN FALSE
              ELSE Registered[c]
    BY <1>0, <1>17, UnregisterDoes
  <2>2. flushed \in FileBackends \cup {NoBackend}
    BY <1>0 DEF TypesOK
  <2>3. \A c \in FileBackends : ShutdownFlag[c]
    BY <1>0, <2>1 DEF BackendsInv, HomeInv, CurrentManager, PlacesInv, DestroyInv, ClientsInv,
       OwnerInv
  <2>4. LabelsInv'
    BY <1>0, <2>1, <2>2, <2>3, ClientsAre DEF ClientsInv, LabelsInv, Adding, Holding, After
  <2>5. AddingInv'
    BY <1>0, <2>1, <2>2, <2>3, ClientsAre DEF ClientsInv, AddingInv, Adding, Holding, After
  <2>6. OwnerInv'
    BY <1>0, <2>1, <2>2, <2>3, ClientsAre DEF ClientsInv, OwnerInv, Adding, Holding, After
  <2>7. FlushedInv'
    BY <1>0, <2>1, <2>2, <2>3, ClientsAre DEF ClientsInv, FlushedInv, Adding, Holding, After
  <2>8. HeldInv'
    BY <1>0, <2>1, <2>2, <2>3, ClientsAre DEF ClientsInv, HeldInv, Adding, Holding, After
  <2>9. QED
    BY <2>4, <2>5, <2>6, <2>7, <2>8 DEF ClientsInv
<1>18. ASSUME BeginDestruction PROVE ClientsInv'
  <2>1. /\ \A u \in Clients : at[u] = "idle"
        /\ UNCHANGED <<Instance, Registered, ShutdownFlag, flushed, when, held>>
        /\ \A u \in Clients : at'[u] = IF u = Owner THEN "channels" ELSE at[u]
    BY <1>0, <1>18, BeginDestructionDoes
  <2>2. Flusher # Owner /\ Flusher \in Clients /\ Owner \in Clients /\ FileBackends \subseteq Clients
    BY ClientsAre
  <2>3. LabelsInv'
    BY <1>0, <2>1, <2>2, ClientsAre DEF ClientsInv, LabelsInv, Adding, Holding, After
  <2>4. AddingInv'
    BY <1>0, <2>1, <2>2, ClientsAre DEF ClientsInv, AddingInv, Adding, Holding, After
  <2>5. OwnerInv'
    BY <1>0, <2>1, <2>2, ClientsAre DEF ClientsInv, OwnerInv, Adding, Holding, After
  <2>6. FlushedInv'
    BY <1>0, <2>1, <2>2, ClientsAre DEF ClientsInv, FlushedInv, Adding, Holding, After
  <2>7. HeldInv'
    BY <1>0, <2>1, <2>2, ClientsAre DEF ClientsInv, HeldInv, Adding, Holding, After
  <2>8. QED
    BY <2>3, <2>4, <2>5, <2>6, <2>7 DEF ClientsInv
<1>19. ASSUME DestroyFactory PROVE ClientsInv'
  <2>1. /\ at[Owner] = "channels"
        /\ \A c \in FileBackends : at[c] = "idle" /\ ShutdownFlag[c]
        /\ UNCHANGED <<Registered, ShutdownFlag, flushed, when>>
        /\ Instance' = 0
        /\ \A u \in Clients : at'[u] = IF u = Owner THEN IF Instance = 0 THEN "done" ELSE "join"
              ELSE at[u]
        /\ \A u \in Clients : held'[u] = IF u = Owner THEN Instance ELSE held[u]
    BY <1>0, <1>19, DestroyFactoryDoes
  <2>2. LabelsInv'
    BY <1>0, <2>1, ClientsAre DEF ClientsInv, LabelsInv, Adding, Holding, After
  <2>3. AddingInv'
    BY <1>0, <2>1, ClientsAre DEF ClientsInv, AddingInv, Adding, Holding, After
  <2>4. OwnerInv'
    BY <1>0, <2>1, ClientsAre DEF ClientsInv, OwnerInv, Adding, Holding, After
  <2>5. FlushedInv'
    BY <1>0, <2>1, ClientsAre DEF ClientsInv, FlushedInv, Adding, Holding, After
  <2>6. HeldInv'
    BY <1>0, <2>1, ClientsAre DEF ClientsInv, HeldInv, Adding, Holding, After
  <2>7. QED
    BY <2>2, <2>3, <2>4, <2>5, <2>6 DEF ClientsInv
<1>20. ASSUME Tick PROVE ClientsInv'
  <2>1. /\ UNCHANGED <<Instance, Registered, ShutdownFlag, at, flushed, held>>
        /\ \A u \in Clients : when'[u] = Nearer(when[u])
    BY <1>0, <1>20, TickDoes
  <2>2. \A u \in Clients : when[u] \in Times \cup {NoTime}
    BY <1>0 DEF TypesOK
  <2>3. \A u \in Clients : when[u] # NoTime => when'[u] # NoTime
    BY <2>1, <2>2, NearerIs, TimesAre
  <2>4. LabelsInv'
    BY <1>0, <2>1, <2>2, <2>3, ClientsAre DEF ClientsInv, LabelsInv, Adding, Holding, After
  <2>5. AddingInv'
    BY <1>0, <2>1, <2>2, <2>3, ClientsAre DEF ClientsInv, AddingInv, Adding, Holding, After
  <2>6. OwnerInv'
    BY <1>0, <2>1, <2>2, <2>3, ClientsAre DEF ClientsInv, OwnerInv, Adding, Holding, After
  <2>7. FlushedInv'
    BY <1>0, <2>1, <2>2, <2>3, ClientsAre DEF ClientsInv, FlushedInv, Adding, Holding, After
  <2>8. HeldInv'
    BY <1>0, <2>1, <2>2, <2>3, ClientsAre DEF ClientsInv, HeldInv, Adding, Holding, After
  <2>9. QED
    BY <2>4, <2>5, <2>6, <2>7, <2>8 DEF ClientsInv
<1>21. ASSUME UNCHANGED <<Instance, Registered, ShutdownFlag, at, flushed, when, held>>
         PROVE ClientsInv'
  BY <1>0, <1>21 DEF ClientsInv, LabelsInv, AddingInv, OwnerInv, FlushedInv, HeldInv
<1>22. ASSUME NEW m \in Managers, Exit(m) PROVE ClientsInv'
  BY <1>0, <1>21, <1>22, ExitDoes
<1>23. ASSUME NEW m \in Managers, WaitForWork(m) PROVE ClientsInv'
  BY <1>0, <1>21, <1>23, WaitForWorkDoes
<1>24. ASSUME NEW m \in Managers, WakeUp(m) PROVE ClientsInv'
  BY <1>0, <1>21, <1>24, WakeUpDoes
<1>25. ASSUME NEW m \in Managers, TakeHead(m) PROVE ClientsInv'
  BY <1>0, <1>21, <1>25, TakeHeadDoes
<1>26. ASSUME NEW m \in Managers, WorkerFunc(m) PROVE ClientsInv'
  BY <1>0, <1>21, <1>26, WorkerFuncDoes
<1>27. ASSUME NEW m \in Managers, Reactivate(m) PROVE ClientsInv'
  BY <1>0, <1>21, <1>27, ReactivateDoes
<1>28. ASSUME NEW m \in Managers, OnShutdown(m) PROVE ClientsInv'
  BY <1>0, <1>21, <1>28, OnShutdownDoes
<1>29. ASSUME NEW m \in Managers, DrainUnregistered(m) PROVE ClientsInv'
  BY <1>0, <1>21, <1>29, DrainUnregisteredDoes
<1>30. ASSUME NEW m \in Managers, Destroy(m) PROVE ClientsInv'
  BY <1>0, <1>21, <1>30, DestroyDoes
<1>31. CASE UNCHANGED managersVars
  BY <1>21, <1>31 DEF managersVars, factory, lists, signals, managers, flags, data, threads,
     recorded
<1>32. QED
  BY Steps, <1>1, <1>2, <1>3, <1>4, <1>5, <1>6, <1>7, <1>8, <1>9, <1>10, <1>11, <1>12, <1>13,
     <1>14, <1>15, <1>16, <1>17, <1>18, <1>19, <1>20, <1>22, <1>23, <1>24, <1>25, <1>26, <1>27,
     <1>28, <1>29, <1>30, <1>31

(* A manager is destroyed when its thread has left. *)
LEMMA LastReferenceIs ==
  ASSUME TypesOK, ClientsInv, PlacesInv, NEW t \in Clients, at[t] = "announce",
     held[t] \in Managers,
         LastReference(t, held[t])
  PROVE  place[held[t]] = "exited" /\ StopRequested[held[t]] /\ running[held[t]] = NoBackend
<1>1. held[t] # Instance /\ \A u \in Clients : held[u] = held[t] => u = t
  BY DEF LastReference
<1>2. place[held[t]] # "none"
  BY DEF PlacesInv, CreatedInv
<1>3. ~ Live(held[t])
  BY <1>1 DEF PlacesInv, StoppingInv
<1>4. place[held[t]] \notin {"destroy", "gone"}
  BY DEF PlacesInv, DestroyInv
<1>5. place[held[t]] = "exited"
  BY <1>2, <1>3, <1>4 DEF TypesOK, Places, Live
<1>6. QED
  BY <1>5 DEF PlacesInv, StoppingInv, RunningInv

(* Every step keeps the managers where they belong. *)
LEMMA PlacesKept ==
  ASSUME ManagersInv, [ManagersNext]_managersVars
  PROVE  PlacesInv'
<1>0. TypesOK /\ ClientsInv /\ PlacesInv
  BY DEF ManagersInv
<1>1. ASSUME NEW b \in FileBackends, Display(b) PROVE PlacesInv'
  <2>1. /\ at[b] = "idle"
        /\ ~ ShutdownFlag[b]
        /\ at[Owner] = "idle"
        /\ UNCHANGED <<Instance, created, Backends, StopRequested, place, running, held>>
        /\ \A u \in Clients : at'[u] = IF u = b THEN IF Registered[b] THEN "append" ELSE "add"
              ELSE at[u]
    BY <1>0, <1>1, DisplayDoes
  <2>2. RunningInv'
    BY <1>0, <2>1, ClientsAre DEF PlacesInv, RunningInv, Live
  <2>3. CreatedInv'
    BY <1>0, <2>1, ClientsAre DEF PlacesInv, CreatedInv, Live
  <2>4. StoppingInv'
    BY <1>0, <2>1, ClientsAre DEF PlacesInv, StoppingInv, Live
  <2>5. DestroyInv'
    BY <1>0, <2>1, ClientsAre DEF PlacesInv, DestroyInv, Live
  <2>6. QED
    BY <2>2, <2>3, <2>4, <2>5 DEF PlacesInv
<1>2. ASSUME NEW b \in FileBackends, AddTakesStopping(b) PROVE PlacesInv'
  <2>1. /\ at[b] = "add"
        /\ UNCHANGED <<created, Backends, StopRequested, place, running>>
        /\ Instance' = IF Instance # 0 /\ StopRequested[Instance] THEN 0 ELSE Instance
        /\ \A u \in Clients : at'[u] = IF u = b THEN IF Instance # 0 /\ StopRequested[Instance]
              THEN "stop" ELSE "provide" ELSE at[u]
        /\ \A u \in Clients : held'[u] = IF u = b
              THEN IF Instance # 0 /\ StopRequested[Instance] THEN Instance ELSE held[b]
              ELSE held[u]
    BY <1>0, <1>2, AddTakesStoppingDoes
  <2>2. RunningInv'
    BY <1>0, <2>1, ClientsAre DEF PlacesInv, RunningInv, Live
  <2>3. CreatedInv'
    BY <1>0, <2>1, ClientsAre DEF PlacesInv, CreatedInv, Live
  <2>4. StoppingInv'
    BY <1>0, <2>1, ClientsAre DEF PlacesInv, StoppingInv, Live
  <2>5. DestroyInv'
    BY <1>0, <2>1, ClientsAre DEF PlacesInv, DestroyInv, Live
  <2>6. QED
    BY <2>2, <2>3, <2>4, <2>5 DEF PlacesInv
<1>3. ASSUME NEW b \in FileBackends, SetStopping(b) PROVE PlacesInv'
  <2>1. /\ at[b] = "stop"
        /\ held[b] \in Managers
        /\ UNCHANGED <<Instance, created, Backends, place, running, held>>
        /\ \A n \in Managers : StopRequested'[n] = IF n = held[b] THEN TRUE
              ELSE StopRequested[n]
        /\ \A u \in Clients : at'[u] = IF u = b THEN "join" ELSE at[u]
    BY <1>0, <1>3, SetStoppingDoes
  <2>2. held[b] <= created /\ held[b] # Instance /\ b \in Clients
    BY <1>0, <2>1, ClientsAre DEF PlacesInv, CreatedInv, DestroyInv
  <2>3. \A n \in Managers : (\E u \in Clients : held[u] = n /\ at[u] \in {"stop", "join"}) =>
          \E u \in Clients : held'[u] = n /\ at'[u] \in {"stop", "join"}
    BY <2>1, <2>2
  <2>4. RunningInv'
    BY <1>0, <2>1, <2>2, <2>3, ClientsAre DEF PlacesInv, RunningInv, Live
  <2>5. CreatedInv'
    BY <1>0, <2>1, <2>2 DEF PlacesInv, CreatedInv
  <2>6. StoppingInv'
    <3>1. \A n \in Managers : StopRequested[n] => StopRequested'[n]
      BY <2>1
    <3>2. UNCHANGED <<place, Instance>> /\ at'[Owner] = at[Owner]
      BY <2>1, ClientsAre
    <3>3. \A n \in Managers : Live(n)' <=> Live(n)
      BY <3>2 DEF Live
    <3>4. QED
      BY <1>0, <2>3, <3>1, <3>2, <3>3 DEF PlacesInv, StoppingInv
  <2>7. DestroyInv'
    BY <1>0, <2>1, <2>2, <2>3, ClientsAre DEF PlacesInv, DestroyInv, Live
  <2>8. QED
    BY <2>4, <2>5, <2>6, <2>7 DEF PlacesInv
<1>4. ASSUME NEW t \in Clients, WaitForStop(t) PROVE PlacesInv'
  <2>1. /\ at[t] = "join"
        /\ held[t] \in Managers
        /\ place[held[t]] = "exited"
        /\ UNCHANGED <<Instance, created, Backends, StopRequested, running>>
        /\ \A n \in Managers : place'[n] = IF n = held[t] THEN IF LastReference(t, held[t])
              THEN "destroy" ELSE "exited" ELSE place[n]
        /\ \A u \in Clients : at'[u] = IF u = t THEN IF LastReference(t, held[t]) THEN "drain"
              ELSE IF t = Owner THEN "done" ELSE "provide" ELSE at[u]
        /\ \A u \in Clients : held'[u] = IF u = t THEN IF LastReference(t, held[t]) THEN held[t]
              ELSE 0 ELSE held[u]
    BY <1>0, <1>4, WaitForStopDoes
  <2>2. LastReference(t, held[t]) => held[t] # Instance /\ \A u \in Clients :
          held[u] = held[t] => u = t
    BY DEF LastReference
  <2>3. held[t] # Instance /\ StopRequested[held[t]]
    BY <1>0, <2>1 DEF PlacesInv, DestroyInv, StoppingInv
  <2>4. RunningInv'
    BY <1>0, <2>1, <2>2, <2>3, ClientsAre DEF PlacesInv, RunningInv, Live
  <2>5. CreatedInv'
    BY <1>0, <2>1, <2>2, <2>3, ClientsAre DEF PlacesInv, CreatedInv, Live
  <2>6. StoppingInv'
    BY <1>0, <2>1, <2>2, <2>3, ClientsAre DEF PlacesInv, StoppingInv, Live
  <2>7. DestroyInv'
    BY <1>0, <2>1, <2>2, <2>3, ClientsAre DEF PlacesInv, DestroyInv, Live
  <2>8. QED
    BY <2>4, <2>5, <2>6, <2>7 DEF PlacesInv
<1>5. ASSUME NEW t \in Clients, Leaves(t) PROVE PlacesInv'
  <2>1. /\ at[t] \in {"drain", "drop"}
        /\ held[t] \in Managers
        /\ place[held[t]] = "gone"
        /\ UNCHANGED <<Instance, created, Backends, StopRequested, place, running>>
        /\ \A u \in Clients : at'[u] = IF u = t THEN IF at[t] = "drop" THEN After(t)
              ELSE IF t = Owner THEN "done" ELSE "provide" ELSE at[u]
        /\ \A u \in Clients : held'[u] = IF u = t THEN 0 ELSE held[u]
    BY <1>0, <1>5, LeavesDoes
  <2>2. RunningInv'
    BY <1>0, <2>1, ClientsAre DEF PlacesInv, RunningInv, Live
  <2>3. CreatedInv'
    BY <1>0, <2>1, ClientsAre DEF PlacesInv, CreatedInv, Live
  <2>4. StoppingInv'
    BY <1>0, <2>1, ClientsAre DEF PlacesInv, StoppingInv, Live
  <2>5. DestroyInv'
    BY <1>0, <2>1, ClientsAre DEF PlacesInv, DestroyInv, Live
  <2>6. QED
    BY <2>2, <2>3, <2>4, <2>5 DEF PlacesInv
<1>6. ASSUME NEW b \in FileBackends, Provide(b) PROVE PlacesInv'
  <2>1. /\ at[b] = "provide"
        /\ Instance' \in Managers
        /\ UNCHANGED <<StopRequested, running, held>>
        /\ Instance' = IF Instance = 0 THEN created + 1 ELSE Instance
        /\ created' = IF Instance = 0 THEN created + 1 ELSE created
        /\ \A n \in Managers : Backends'[n] = IF n = Instance' THEN Backends[n] \cup {b}
              ELSE Backends[n]
        /\ \A n \in Managers : place'[n] = IF n = Instance' THEN IF place[n] = "none"
              THEN "loop" ELSE place[n] ELSE place[n]
        /\ \A u \in Clients : at'[u] = IF u = b THEN "register" ELSE at[u]
    BY <1>0, <1>6, ProvideDoes
  <2>2. created \in Nat /\ (Instance # 0 => Instance \in Managers /\ Instance <= created)
    BY <1>0, ClientsAre DEF TypesOK
  <2>3. IF Instance = 0
        THEN /\ Instance' = created + 1 /\ place[Instance'] = "none" /\ ~ StopRequested[Instance']
             /\ \A u \in Clients : held[u] # Instance'
        ELSE Instance' = Instance /\ place[Instance] # "none"
    BY <1>0, <2>1, <2>2, ClientsAre DEF PlacesInv, CreatedInv
  <2>4. \A n \in Managers : n <= created' <=> n <= created \/ n = Instance'
    BY <2>1, <2>2, <2>3, ClientsAre
  <2>5. at[Owner] = "idle"
    BY <1>0, <2>1 DEF ClientsInv, OwnerInv
  <2>6. place'[Instance'] \notin {"destroy", "gone", "none"}
    BY <1>0, <2>1, <2>2, <2>3 DEF PlacesInv, DestroyInv
  <2>7. RunningInv'
    BY <1>0, <2>1, <2>2, <2>3, <2>4, <2>5, <2>6, ClientsAre DEF PlacesInv, RunningInv, Live
  <2>8. CreatedInv'
    BY <1>0, <2>1, <2>2, <2>3, <2>4, <2>5, <2>6, ClientsAre DEF PlacesInv, CreatedInv, Live
  <2>9. StoppingInv'
    BY <1>0, <2>1, <2>2, <2>3, <2>4, <2>5, <2>6, ClientsAre DEF PlacesInv, StoppingInv, Live
  <2>10. DestroyInv'
    <3>1. \A n \in Managers : place'[n] \in {"destroy", "gone"} =>
            n # Instance' /\ place'[n] = place[n] /\ Backends'[n] = Backends[n]
      BY <2>1, <2>6
    <3>2. \A u \in Clients : at'[u] \in {"stop", "join", "drain", "drop"} => at[u] = at'[u]
      BY <2>1
    <3>3. \A n \in Managers, u \in Clients : held[u] = n /\ at[u] \in {"stop", "join", "drain",
            "drop"} => n # Instance'
      BY <1>0, <2>3 DEF PlacesInv, DestroyInv
    <3>4. \A n \in Managers : place[n] \in {"destroy", "gone"} => place'[n] = place[n]
      BY <2>1
    <3>5. \A u \in Clients : at[u] \in {"drain", "drop"} => at'[u] = at[u]
      BY <2>1
    <3>6. UNCHANGED held
      BY <2>1
    <3>7. QED
      BY <1>0, <3>1, <3>2, <3>3, <3>4, <3>5, <3>6 DEF PlacesInv, DestroyInv
  <2>11. QED
    BY <2>7, <2>8, <2>9, <2>10 DEF PlacesInv
<1>7. ASSUME NEW b \in FileBackends, SetRegistered(b) PROVE PlacesInv'
  <2>1. /\ at[b] = "register"
        /\ UNCHANGED <<Instance, created, Backends, StopRequested, place, running, held>>
        /\ \A u \in Clients : at'[u] = IF u = b THEN "append" ELSE at[u]
    BY <1>0, <1>7, SetRegisteredDoes
  <2>2. RunningInv'
    BY <1>0, <2>1, ClientsAre DEF PlacesInv, RunningInv, Live
  <2>3. CreatedInv'
    BY <1>0, <2>1, ClientsAre DEF PlacesInv, CreatedInv, Live
  <2>4. StoppingInv'
    BY <1>0, <2>1, ClientsAre DEF PlacesInv, StoppingInv, Live
  <2>5. DestroyInv'
    BY <1>0, <2>1, ClientsAre DEF PlacesInv, DestroyInv, Live
  <2>6. QED
    BY <2>2, <2>3, <2>4, <2>5 DEF PlacesInv
<1>8. ASSUME NEW b \in FileBackends, AppendOutputData(b) PROVE PlacesInv'
  <2>1. /\ at[b] = "append"
        /\ UNCHANGED <<Instance, created, Backends, StopRequested, place, running, held>>
        /\ \A u \in Clients : at'[u] = IF u = b THEN IF Urgent(b) \/ Deferred(b) THEN "notify"
              ELSE "idle" ELSE at[u]
    BY <1>0, <1>8, AppendOutputDataDoes
  <2>2. RunningInv'
    BY <1>0, <2>1, ClientsAre DEF PlacesInv, RunningInv, Live
  <2>3. CreatedInv'
    BY <1>0, <2>1, ClientsAre DEF PlacesInv, CreatedInv, Live
  <2>4. StoppingInv'
    BY <1>0, <2>1, ClientsAre DEF PlacesInv, StoppingInv, Live
  <2>5. DestroyInv'
    BY <1>0, <2>1, ClientsAre DEF PlacesInv, DestroyInv, Live
  <2>6. QED
    BY <2>2, <2>3, <2>4, <2>5 DEF PlacesInv
<1>9. ASSUME NEW b \in FileBackends, Freeze(b) PROVE PlacesInv'
  <2>1. /\ at[b] = "idle"
        /\ ~ ShutdownFlag[b]
        /\ UNCHANGED <<Instance, created, Backends, StopRequested, place, running, held>>
        /\ \A u \in Clients : at'[u] = IF u = b THEN IF Asks(b) THEN "notify" ELSE "idle"
              ELSE at[u]
    BY <1>0, <1>9, FreezeDoes
  <2>2. RunningInv'
    BY <1>0, <2>1, ClientsAre DEF PlacesInv, RunningInv, Live
  <2>3. CreatedInv'
    BY <1>0, <2>1, ClientsAre DEF PlacesInv, CreatedInv, Live
  <2>4. StoppingInv'
    BY <1>0, <2>1, ClientsAre DEF PlacesInv, StoppingInv, Live
  <2>5. DestroyInv'
    BY <1>0, <2>1, ClientsAre DEF PlacesInv, DestroyInv, Live
  <2>6. QED
    BY <2>2, <2>3, <2>4, <2>5 DEF PlacesInv
<1>10. ASSUME NEW b \in FileBackends, Flush(b) PROVE PlacesInv'
  <2>1. /\ at[Flusher] = "idle"
        /\ Registered[b] \/ ShutdownFlag[b]
        /\ at[Owner] = "idle"
        /\ UNCHANGED <<Instance, created, Backends, StopRequested, place, running, held>>
        /\ \A u \in Clients : at'[u] = IF u = Flusher THEN "publish" ELSE at[u]
    BY <1>0, <1>10, FlushDoes
  <2>2. RunningInv'
    BY <1>0, <2>1, ClientsAre DEF PlacesInv, RunningInv, Live
  <2>3. CreatedInv'
    BY <1>0, <2>1, ClientsAre DEF PlacesInv, CreatedInv, Live
  <2>4. StoppingInv'
    BY <1>0, <2>1, ClientsAre DEF PlacesInv, StoppingInv, Live
  <2>5. DestroyInv'
    BY <1>0, <2>1, ClientsAre DEF PlacesInv, DestroyInv, Live
  <2>6. QED
    BY <2>2, <2>3, <2>4, <2>5 DEF PlacesInv
<1>11. ASSUME Publishes PROVE PlacesInv'
  <2>1. /\ at[Flusher] \in {"publish", "enqueue"}
        /\ flushed \in FileBackends
        /\ UNCHANGED <<Instance, created, Backends, StopRequested, place, running, held>>
        /\ at'[Flusher] \in {"publish", "enqueue"}
        /\ \A u \in Clients : u # Flusher => at'[u] = at[u]
    BY <1>0, <1>11, PublishesDoes
  <2>2. RunningInv'
    BY <1>0, <2>1, ClientsAre DEF PlacesInv, RunningInv, Live
  <2>3. CreatedInv'
    BY <1>0, <2>1, ClientsAre DEF PlacesInv, CreatedInv, Live
  <2>4. StoppingInv'
    BY <1>0, <2>1, ClientsAre DEF PlacesInv, StoppingInv, Live
  <2>5. DestroyInv'
    BY <1>0, <2>1, ClientsAre DEF PlacesInv, DestroyInv, Live
  <2>6. QED
    BY <2>2, <2>3, <2>4, <2>5 DEF PlacesInv
<1>12. ASSUME AllPublished PROVE PlacesInv'
  <2>1. /\ at[Flusher] = "publish"
        /\ flushed \in FileBackends
        /\ UNCHANGED <<Instance, created, Backends, StopRequested, place, running, held>>
        /\ \A u \in Clients : at'[u] = IF u = Flusher THEN IF Asks(flushed) THEN "notify"
              ELSE "flushing" ELSE at[u]
    BY <1>0, <1>12, AllPublishedDoes
  <2>2. RunningInv'
    BY <1>0, <2>1, ClientsAre DEF PlacesInv, RunningInv, Live
  <2>3. CreatedInv'
    BY <1>0, <2>1, ClientsAre DEF PlacesInv, CreatedInv, Live
  <2>4. StoppingInv'
    BY <1>0, <2>1, ClientsAre DEF PlacesInv, StoppingInv, Live
  <2>5. DestroyInv'
    BY <1>0, <2>1, ClientsAre DEF PlacesInv, DestroyInv, Live
  <2>6. QED
    BY <2>2, <2>3, <2>4, <2>5 DEF PlacesInv
<1>13. ASSUME FlushDone PROVE PlacesInv'
  <2>1. /\ at[Flusher] = "flushing"
        /\ UNCHANGED <<Instance, created, Backends, StopRequested, place, running, held>>
        /\ \A u \in Clients : at'[u] = IF u = Flusher THEN "idle" ELSE at[u]
    BY <1>0, <1>13, FlushDoneDoes
  <2>2. RunningInv'
    BY <1>0, <2>1, ClientsAre DEF PlacesInv, RunningInv, Live
  <2>3. CreatedInv'
    BY <1>0, <2>1, ClientsAre DEF PlacesInv, CreatedInv, Live
  <2>4. StoppingInv'
    BY <1>0, <2>1, ClientsAre DEF PlacesInv, StoppingInv, Live
  <2>5. DestroyInv'
    BY <1>0, <2>1, ClientsAre DEF PlacesInv, DestroyInv, Live
  <2>6. QED
    BY <2>2, <2>3, <2>4, <2>5 DEF PlacesInv
<1>14. ASSUME NEW t \in Clients, NotifyFactory(t) PROVE PlacesInv'
  <2>1. /\ at[t] = "notify"
        /\ UNCHANGED <<Instance, created, Backends, StopRequested, place, running>>
        /\ \A u \in Clients : at'[u] = IF u = t THEN IF Instance = 0 THEN After(t)
              ELSE "announce" ELSE at[u]
        /\ \A u \in Clients : held'[u] = IF u = t THEN Instance ELSE held[u]
    BY <1>0, <1>14, NotifyFactoryDoes
  <2>2. created \in Nat /\ (Instance # 0 => Instance \in Managers /\ Instance <= created)
    BY <1>0, ClientsAre DEF TypesOK
  <2>3. RunningInv'
    BY <1>0, <2>1, <2>2, ClientsAre DEF PlacesInv, RunningInv, Live
  <2>4. CreatedInv'
    BY <1>0, <2>1, <2>2, ClientsAre DEF PlacesInv, CreatedInv, Live
  <2>5. StoppingInv'
    BY <1>0, <2>1, <2>2, ClientsAre DEF PlacesInv, StoppingInv, Live
  <2>6. DestroyInv'
    BY <1>0, <2>1, <2>2, ClientsAre DEF PlacesInv, DestroyInv, Live
  <2>7. QED
    BY <2>3, <2>4, <2>5, <2>6 DEF PlacesInv
<1>15. ASSUME NEW t \in Clients, NotifyManager(t) PROVE PlacesInv'
  <2>1. /\ at[t] = "announce"
        /\ held[t] \in Managers
        /\ when[t] \in Times
        /\ BackendOf(t) \in FileBackends
        /\ UNCHANGED <<Instance, created, Backends, StopRequested, running>>
        /\ \A n \in Managers : place'[n] = IF n = held[t] THEN IF LastReference(t, held[t])
              THEN "destroy" ELSE place[n] ELSE place[n]
        /\ \A u \in Clients : at'[u] = IF u = t THEN IF LastReference(t, held[t]) THEN "drop"
              ELSE After(t) ELSE at[u]
        /\ \A u \in Clients : held'[u] = IF u = t THEN IF LastReference(t, held[t]) THEN held[t]
              ELSE 0 ELSE held[u]
    BY <1>0, <1>15, NotifyManagerDoes
  <2>2. LastReference(t, held[t]) =>
          place[held[t]] = "exited" /\ StopRequested[held[t]] /\ running[held[t]] = NoBackend
    BY <1>0, <2>1, LastReferenceIs
  <2>3. LastReference(t, held[t]) => held[t] # Instance /\ \A u \in Clients :
          held[u] = held[t] => u = t
    BY DEF LastReference
  <2>4. place[held[t]] # "none" /\ held[t] <= created
    BY <1>0, <2>1 DEF PlacesInv, CreatedInv
  <2>5. \A n \in Managers : (\E u \in Clients : held[u] = n /\ at[u] \in {"stop", "join"}) =>
          \E u \in Clients : held'[u] = n /\ at'[u] \in {"stop", "join"}
    BY <2>1
  <2>6. RunningInv'
    BY <1>0, <2>1, <2>2, <2>3, <2>4, <2>5, ClientsAre DEF PlacesInv, RunningInv, Live
  <2>7. CreatedInv'
    BY <1>0, <2>1, <2>2, <2>3, <2>4, <2>5, ClientsAre DEF PlacesInv, CreatedInv, Live
  <2>8. StoppingInv'
    BY <1>0, <2>1, <2>2, <2>3, <2>4, <2>5, ClientsAre DEF PlacesInv, StoppingInv, Live
  <2>9. DestroyInv'
    BY <1>0, <2>1, <2>2, <2>3, <2>4, <2>5, ClientsAre DEF PlacesInv, DestroyInv, Live
  <2>10. QED
    BY <2>6, <2>7, <2>8, <2>9 DEF PlacesInv
<1>16. ASSUME NEW m \in Managers, Exit(m) PROVE PlacesInv'
  <2>1. /\ place[m] = "loop"
        /\ StopRequested[m]
        /\ UNCHANGED <<Instance, created, Backends, StopRequested, running, at, held>>
        /\ \A n \in Managers : place'[n] = IF n = m THEN "exited" ELSE place[n]
    BY <1>0, <1>16, ExitDoes
  <2>2. RunningInv'
    BY <1>0, <2>1, ClientsAre DEF PlacesInv, RunningInv, Live
  <2>3. CreatedInv'
    BY <1>0, <2>1, ClientsAre DEF PlacesInv, CreatedInv, Live
  <2>4. StoppingInv'
    BY <1>0, <2>1, ClientsAre DEF PlacesInv, StoppingInv, Live
  <2>5. DestroyInv'
    BY <1>0, <2>1, ClientsAre DEF PlacesInv, DestroyInv, Live
  <2>6. QED
    BY <2>2, <2>3, <2>4, <2>5 DEF PlacesInv
<1>17. ASSUME NEW m \in Managers, WaitForWork(m) PROVE PlacesInv'
  <2>1. /\ place[m] = "loop"
        /\ ~ StopRequested[m]
        /\ WithoutStale(Active[m]) # <<>> => FlushTime[Head(WithoutStale(Active[m]))] > Due
        /\ UNCHANGED <<Instance, created, Backends, StopRequested, running, at, held>>
        /\ \A n \in Managers : place'[n] = IF n = m THEN "wait" ELSE place[n]
    BY <1>0, <1>17, WaitForWorkDoes
  <2>2. RunningInv'
    BY <1>0, <2>1, ClientsAre DEF PlacesInv, RunningInv, Live
  <2>3. CreatedInv'
    BY <1>0, <2>1, ClientsAre DEF PlacesInv, CreatedInv, Live
  <2>4. StoppingInv'
    BY <1>0, <2>1, ClientsAre DEF PlacesInv, StoppingInv, Live
  <2>5. DestroyInv'
    BY <1>0, <2>1, ClientsAre DEF PlacesInv, DestroyInv, Live
  <2>6. QED
    BY <2>2, <2>3, <2>4, <2>5 DEF PlacesInv
<1>18. ASSUME NEW m \in Managers, WakeUp(m) PROVE PlacesInv'
  <2>1. /\ place[m] = "wait"
        /\ UNCHANGED <<Instance, created, Backends, StopRequested, running, at, held>>
        /\ \A n \in Managers : place'[n] = IF n = m THEN "loop" ELSE place[n]
    BY <1>0, <1>18, WakeUpDoes
  <2>2. RunningInv'
    BY <1>0, <2>1, ClientsAre DEF PlacesInv, RunningInv, Live
  <2>3. CreatedInv'
    BY <1>0, <2>1, ClientsAre DEF PlacesInv, CreatedInv, Live
  <2>4. StoppingInv'
    BY <1>0, <2>1, ClientsAre DEF PlacesInv, StoppingInv, Live
  <2>5. DestroyInv'
    BY <1>0, <2>1, ClientsAre DEF PlacesInv, DestroyInv, Live
  <2>6. QED
    BY <2>2, <2>3, <2>4, <2>5 DEF PlacesInv
<1>19. ASSUME NEW m \in Managers, TakeHead(m) PROVE PlacesInv'
  <2>1. /\ place[m] = "loop"
        /\ ~ StopRequested[m]
        /\ WithoutStale(Active[m]) # <<>>
        /\ UNCHANGED <<Instance, created, Backends, StopRequested, at, held>>
        /\ \A n \in Managers : place'[n] = IF n = m
              THEN IF Head(WithoutStale(Active[m])) \in Backends[m] THEN "work" ELSE "loop"
              ELSE place[n]
        /\ \A n \in Managers : running'[n] = IF n = m
              THEN IF Head(WithoutStale(Active[m])) \in Backends[m]
              THEN Head(WithoutStale(Active[m])) ELSE running[m] ELSE running[n]
    BY <1>0, <1>19, TakeHeadDoes
  <2>2. Backends[m] \subseteq FileBackends
    BY <1>0 DEF TypesOK
  <2>3. RunningInv'
    BY <1>0, <2>1, <2>2, ClientsAre DEF PlacesInv, RunningInv, Live
  <2>4. CreatedInv'
    BY <1>0, <2>1, <2>2, ClientsAre DEF PlacesInv, CreatedInv, Live
  <2>5. StoppingInv'
    BY <1>0, <2>1, <2>2, ClientsAre DEF PlacesInv, StoppingInv, Live
  <2>6. DestroyInv'
    BY <1>0, <2>1, <2>2, ClientsAre DEF PlacesInv, DestroyInv, Live
  <2>7. QED
    BY <2>3, <2>4, <2>5, <2>6 DEF PlacesInv
<1>20. ASSUME NEW m \in Managers, WorkerFunc(m) PROVE PlacesInv'
  <2>1. /\ place[m] = "work"
        /\ running[m] \in FileBackends
        /\ UNCHANGED <<Instance, created, Backends, StopRequested, running, at, held>>
        /\ \A n \in Managers : place'[n] = IF n = m THEN IF ShutdownFlag[running[m]]
              THEN "remove" ELSE "again" ELSE place[n]
    BY <1>0, <1>20, WorkerFuncDoes
  <2>2. RunningInv'
    BY <1>0, <2>1, ClientsAre DEF PlacesInv, RunningInv, Live
  <2>3. CreatedInv'
    BY <1>0, <2>1, ClientsAre DEF PlacesInv, CreatedInv, Live
  <2>4. StoppingInv'
    BY <1>0, <2>1, ClientsAre DEF PlacesInv, StoppingInv, Live
  <2>5. DestroyInv'
    BY <1>0, <2>1, ClientsAre DEF PlacesInv, DestroyInv, Live
  <2>6. QED
    BY <2>2, <2>3, <2>4, <2>5 DEF PlacesInv
<1>21. ASSUME NEW m \in Managers, Reactivate(m) PROVE PlacesInv'
  <2>1. /\ place[m] = "again"
        /\ running[m] \in FileBackends
        /\ UNCHANGED <<Instance, created, Backends, StopRequested, at, held>>
        /\ \A n \in Managers : place'[n] = IF n = m THEN "loop" ELSE place[n]
        /\ \A n \in Managers : running'[n] = IF n = m THEN NoBackend ELSE running[n]
    BY <1>0, <1>21, ReactivateDoes
  <2>2. RunningInv'
    BY <1>0, <2>1, ClientsAre DEF PlacesInv, RunningInv, Live
  <2>3. CreatedInv'
    BY <1>0, <2>1, ClientsAre DEF PlacesInv, CreatedInv, Live
  <2>4. StoppingInv'
    BY <1>0, <2>1, ClientsAre DEF PlacesInv, StoppingInv, Live
  <2>5. DestroyInv'
    BY <1>0, <2>1, ClientsAre DEF PlacesInv, DestroyInv, Live
  <2>6. QED
    BY <2>2, <2>3, <2>4, <2>5 DEF PlacesInv
<1>22. ASSUME NEW m \in Managers, RemoveBackendLocked(m) PROVE PlacesInv'
  <2>1. /\ place[m] = "remove"
        /\ running[m] \in FileBackends
        /\ UNCHANGED <<Instance, created, running, at, held>>
        /\ \A n \in Managers : Backends'[n] = IF n = m THEN Backends[m] \ {running[m]}
              ELSE Backends[n]
        /\ \A n \in Managers : StopRequested'[n] = IF n = m
              THEN StopRequested[m] \/ Backends[m] \subseteq {running[m]} ELSE StopRequested[n]
        /\ \A n \in Managers : place'[n] = IF n = m THEN "shutdown" ELSE place[n]
    BY <1>0, <1>22, RemoveBackendLockedDoes
  <2>2. \A n \in Managers : StopRequested[n] => StopRequested'[n]
    BY <2>1
  <2>3. RunningInv'
    BY <1>0, <2>1, <2>2, ClientsAre DEF PlacesInv, RunningInv, Live
  <2>4. CreatedInv'
    BY <1>0, <2>1, <2>2, ClientsAre DEF PlacesInv, CreatedInv, Live
  <2>5. StoppingInv'
    BY <1>0, <2>1, <2>2, ClientsAre DEF PlacesInv, StoppingInv, Live
  <2>6. DestroyInv'
    BY <1>0, <2>1, <2>2, ClientsAre DEF PlacesInv, DestroyInv, Live
  <2>7. QED
    BY <2>3, <2>4, <2>5, <2>6 DEF PlacesInv
<1>23. ASSUME NEW m \in Managers, OnShutdown(m) PROVE PlacesInv'
  <2>1. /\ place[m] = "shutdown"
        /\ running[m] \in FileBackends
        /\ UNCHANGED <<Instance, created, Backends, StopRequested, at, held>>
        /\ \A n \in Managers : place'[n] = IF n = m THEN "loop" ELSE place[n]
        /\ \A n \in Managers : running'[n] = IF n = m THEN NoBackend ELSE running[n]
    BY <1>0, <1>23, OnShutdownDoes
  <2>2. RunningInv'
    BY <1>0, <2>1, ClientsAre DEF PlacesInv, RunningInv, Live
  <2>3. CreatedInv'
    BY <1>0, <2>1, ClientsAre DEF PlacesInv, CreatedInv, Live
  <2>4. StoppingInv'
    BY <1>0, <2>1, ClientsAre DEF PlacesInv, StoppingInv, Live
  <2>5. DestroyInv'
    BY <1>0, <2>1, ClientsAre DEF PlacesInv, DestroyInv, Live
  <2>6. QED
    BY <2>2, <2>3, <2>4, <2>5 DEF PlacesInv
<1>24. ASSUME NEW m \in Managers, Unregister(m) PROVE PlacesInv'
  <2>1. /\ place[m] = "destroy"
        /\ running[m] = NoBackend
        /\ running'[m] \in Backends[m]
        /\ UNCHANGED <<Instance, created, Backends, StopRequested, place, at, held>>
        /\ \A n \in Managers : running'[n] = IF n = m THEN running'[m] ELSE running[n]
    BY <1>0, <1>24, UnregisterDoes
  <2>2. RunningInv'
    BY <1>0, <2>1, ClientsAre DEF PlacesInv, RunningInv, Live
  <2>3. CreatedInv'
    BY <1>0, <2>1, ClientsAre DEF PlacesInv, CreatedInv, Live
  <2>4. StoppingInv'
    BY <1>0, <2>1, ClientsAre DEF PlacesInv, StoppingInv, Live
  <2>5. DestroyInv'
    BY <1>0, <2>1, ClientsAre DEF PlacesInv, DestroyInv, Live
  <2>6. QED
    BY <2>2, <2>3, <2>4, <2>5 DEF PlacesInv
<1>25. ASSUME NEW m \in Managers, DrainUnregistered(m) PROVE PlacesInv'
  <2>1. /\ place[m] = "destroy"
        /\ running[m] \in FileBackends
        /\ UNCHANGED <<Instance, created, StopRequested, place, at, held>>
        /\ \A n \in Managers : Backends'[n] = IF n = m THEN Backends[m] \ {running[m]}
              ELSE Backends[n]
        /\ \A n \in Managers : running'[n] = IF n = m THEN NoBackend ELSE running[n]
    BY <1>0, <1>25, DrainUnregisteredDoes
  <2>2. RunningInv'
    BY <1>0, <2>1, ClientsAre DEF PlacesInv, RunningInv, Live
  <2>3. CreatedInv'
    BY <1>0, <2>1, ClientsAre DEF PlacesInv, CreatedInv, Live
  <2>4. StoppingInv'
    BY <1>0, <2>1, ClientsAre DEF PlacesInv, StoppingInv, Live
  <2>5. DestroyInv'
    BY <1>0, <2>1, ClientsAre DEF PlacesInv, DestroyInv, Live
  <2>6. QED
    BY <2>2, <2>3, <2>4, <2>5 DEF PlacesInv
<1>26. ASSUME NEW m \in Managers, Destroy(m) PROVE PlacesInv'
  <2>1. /\ place[m] = "destroy"
        /\ running[m] = NoBackend
        /\ Backends[m] = {}
        /\ UNCHANGED <<Instance, created, Backends, StopRequested, running, at, held>>
        /\ \A n \in Managers : place'[n] = IF n = m THEN "gone" ELSE place[n]
    BY <1>0, <1>26, DestroyDoes
  <2>2. RunningInv'
    BY <1>0, <2>1, ClientsAre DEF PlacesInv, RunningInv, Live
  <2>3. CreatedInv'
    BY <1>0, <2>1, ClientsAre DEF PlacesInv, CreatedInv, Live
  <2>4. StoppingInv'
    BY <1>0, <2>1, ClientsAre DEF PlacesInv, StoppingInv, Live
  <2>5. DestroyInv'
    BY <1>0, <2>1, ClientsAre DEF PlacesInv, DestroyInv, Live
  <2>6. QED
    BY <2>2, <2>3, <2>4, <2>5 DEF PlacesInv
<1>27. ASSUME BeginDestruction PROVE PlacesInv'
  <2>1. /\ \A u \in Clients : at[u] = "idle"
        /\ UNCHANGED <<Instance, created, Backends, place, running, held>>
        /\ \A n \in Managers : StopRequested'[n] <=> StopRequested[n] \/ n = Instance
        /\ \A u \in Clients : at'[u] = IF u = Owner THEN "channels" ELSE at[u]
    BY <1>0, <1>27, BeginDestructionDoes
  <2>2. created \in Nat /\ (Instance # 0 => Instance \in Managers /\ Instance <= created)
    BY <1>0, ClientsAre DEF TypesOK
  <2>3. \A u \in Clients : at[u] \notin {"stop", "join"}
    BY <2>1
  <2>4. \A n \in Managers : Live(n) /\ n # Instance => FALSE
    BY <1>0, <2>3 DEF PlacesInv, StoppingInv
  <2>5. \A n \in Managers : StopRequested[n] => StopRequested'[n]
    BY <2>1
  <2>6. \A n \in Managers : place[n] # "none" /\ n # Instance => StopRequested[n]
    BY <1>0 DEF PlacesInv, StoppingInv
  <2>7. RunningInv'
    BY <1>0, <2>1, <2>2, <2>3, <2>4, <2>5, <2>6, ClientsAre DEF PlacesInv, RunningInv, Live
  <2>8. CreatedInv'
    BY <1>0, <2>1, <2>2, <2>3, <2>4, <2>5, <2>6, ClientsAre DEF PlacesInv, CreatedInv, Live
  <2>9. StoppingInv'
    BY <1>0, <2>1, <2>2, <2>3, <2>4, <2>5, <2>6, ClientsAre DEF PlacesInv, StoppingInv, Live
  <2>10. DestroyInv'
    BY <1>0, <2>1, <2>2, <2>3, <2>4, <2>5, <2>6, ClientsAre DEF PlacesInv, DestroyInv, Live
  <2>11. QED
    BY <2>7, <2>8, <2>9, <2>10 DEF PlacesInv
<1>28. ASSUME DestroyFactory PROVE PlacesInv'
  <2>1. /\ at[Owner] = "channels"
        /\ \A c \in FileBackends : at[c] = "idle" /\ ShutdownFlag[c]
        /\ UNCHANGED <<created, Backends, StopRequested, place, running>>
        /\ Instance' = 0
        /\ \A u \in Clients : at'[u] = IF u = Owner THEN IF Instance = 0 THEN "done" ELSE "join"
              ELSE at[u]
        /\ \A u \in Clients : held'[u] = IF u = Owner THEN Instance ELSE held[u]
    BY <1>0, <1>28, DestroyFactoryDoes
  <2>2. created \in Nat /\ (Instance # 0 => Instance \in Managers /\ Instance <= created)
    BY <1>0, ClientsAre DEF TypesOK
  <2>3. \A u \in Clients : at[u] \notin {"stop", "join"}
    BY <1>0, <2>1, ClientsAre DEF ClientsInv, OwnerInv
  <2>4. \A n \in Managers : Live(n) /\ n # Instance => FALSE
    BY <1>0, <2>3 DEF PlacesInv, StoppingInv
  <2>5. RunningInv'
    BY <1>0, <2>1, <2>2, <2>3, <2>4, ClientsAre DEF PlacesInv, RunningInv, Live
  <2>6. CreatedInv'
    BY <1>0, <2>1, <2>2, <2>3, <2>4, ClientsAre DEF PlacesInv, CreatedInv, Live
  <2>7. StoppingInv'
    BY <1>0, <2>1, <2>2, <2>3, <2>4, ClientsAre DEF PlacesInv, StoppingInv, Live
  <2>8. DestroyInv'
    BY <1>0, <2>1, <2>2, <2>3, <2>4, ClientsAre DEF PlacesInv, DestroyInv, Live
  <2>9. QED
    BY <2>5, <2>6, <2>7, <2>8 DEF PlacesInv
<1>29. ASSUME UNCHANGED <<Instance, created, Backends, StopRequested, place, running, at, held>>
         PROVE PlacesInv'
  BY <1>0, <1>29 DEF PlacesInv, RunningInv, CreatedInv, StoppingInv, DestroyInv, Live
<1>30. ASSUME Tick PROVE PlacesInv'
  BY <1>0, <1>29, <1>30, TickDoes
<1>31. CASE UNCHANGED managersVars
  BY <1>29, <1>31 DEF managersVars, factory, lists, signals, managers, flags, data, threads,
     recorded
<1>32. QED
  BY Steps, <1>1, <1>2, <1>3, <1>4, <1>5, <1>6, <1>7, <1>8, <1>9, <1>10, <1>11, <1>12, <1>13,
     <1>14, <1>15, <1>16, <1>17, <1>18, <1>19, <1>20, <1>21, <1>22, <1>23, <1>24, <1>25, <1>26,
     <1>27, <1>28, <1>30, <1>31

(* Every step keeps the backends where they belong. *)
LEMMA BackendsKept ==
  ASSUME ManagersInv, [ManagersNext]_managersVars
  PROVE  BackendsInv'
<1>0. TypesOK /\ ClientsInv /\ PlacesInv /\ BackendsInv /\ StopInv /\ NotifiedInv
  BY DEF ManagersInv
<1>1. ASSUME NEW b \in FileBackends, Display(b) PROVE BackendsInv'
  <2>1. /\ at[b] = "idle"
        /\ ~ ShutdownFlag[b]
        /\ at[Owner] = "idle"
        /\ UNCHANGED <<Instance, Backends, Active, place, running, Registered, ShutdownFlag,
              FlushTime, held>>
        /\ \A u \in Clients : at'[u] = IF u = b THEN IF Registered[b] THEN "append" ELSE "add"
              ELSE at[u]
    BY <1>0, <1>1, DisplayDoes
  <2>2. CurrentManager' = CurrentManager
    BY <2>1, ClientsAre DEF CurrentManager
  <2>3. HomeInv'
    BY <1>0, <2>1, <2>2, ClientsAre DEF BackendsInv, HomeInv
  <2>4. ActiveInv'
    BY <1>0, <2>1, <2>2, ClientsAre DEF BackendsInv, ActiveInv
  <2>5. HandInv'
    BY <1>0, <2>1, <2>2, ClientsAre DEF BackendsInv, HandInv
  <2>6. UnregisteredInv'
    BY <1>0, <2>1, <2>2, ClientsAre DEF BackendsInv, UnregisteredInv
  <2>7. QED
    BY <2>3, <2>4, <2>5, <2>6 DEF BackendsInv
<1>2. ASSUME NEW b \in FileBackends, AddTakesStopping(b) PROVE BackendsInv'
  <2>1. /\ at[b] = "add"
        /\ UNCHANGED <<Backends, Active, place, running, Registered, ShutdownFlag, FlushTime>>
        /\ Instance' = IF Instance # 0 /\ StopRequested[Instance] THEN 0 ELSE Instance
        /\ \A u \in Clients : at'[u] = IF u = b THEN IF Instance # 0 /\ StopRequested[Instance]
              THEN "stop" ELSE "provide" ELSE at[u]
        /\ \A u \in Clients : held'[u] = IF u = b
              THEN IF Instance # 0 /\ StopRequested[Instance] THEN Instance ELSE held[b]
              ELSE held[u]
    BY <1>0, <1>2, AddTakesStoppingDoes
  <2>2. at[Owner] = "idle" /\ CurrentManager = Instance
    BY <1>0, <2>1, ClientsAre DEF ClientsInv, OwnerInv, Adding, CurrentManager
  <2>3. Instance # 0 /\ StopRequested[Instance] => Backends[Instance] = {}
    BY <1>0, <2>1, <2>2, InstanceIs DEF StopInv, FrozenInv, LateInv, Adding
  <2>4. at'[Owner] = at[Owner] /\ CurrentManager' = Instance'
    BY <2>1, <2>2, ClientsAre DEF CurrentManager
  <2>5. CurrentManager' = CurrentManager \/ (CurrentManager' = 0 /\ \A n \in Managers :
          Backends[n] = {})
    BY <1>0, <2>1, <2>2, <2>3, <2>4 DEF BackendsInv, HomeInv
  <2>6. HomeInv'
    BY <1>0, <2>1, <2>2, <2>3, <2>4, <2>5, ClientsAre DEF BackendsInv, HomeInv
  <2>7. ActiveInv'
    BY <1>0, <2>1, <2>2, <2>3, <2>4, <2>5, ClientsAre DEF BackendsInv, ActiveInv
  <2>8. HandInv'
    BY <1>0, <2>1, <2>2, <2>3, <2>4, <2>5, ClientsAre DEF BackendsInv, HandInv
  <2>9. UnregisteredInv'
    BY <1>0, <2>1, <2>2, <2>3, <2>4, <2>5, ClientsAre DEF BackendsInv, UnregisteredInv
  <2>10. QED
    BY <2>6, <2>7, <2>8, <2>9 DEF BackendsInv
<1>3. ASSUME NEW b \in FileBackends, SetStopping(b) PROVE BackendsInv'
  <2>1. /\ at[b] = "stop"
        /\ held[b] \in Managers
        /\ UNCHANGED <<Instance, Backends, Active, place, running, Registered, ShutdownFlag,
              FlushTime, held>>
        /\ \A u \in Clients : at'[u] = IF u = b THEN "join" ELSE at[u]
    BY <1>0, <1>3, SetStoppingDoes
  <2>2. CurrentManager' = CurrentManager
    BY <2>1, ClientsAre DEF CurrentManager
  <2>3. HomeInv'
    BY <1>0, <2>1, <2>2, ClientsAre DEF BackendsInv, HomeInv
  <2>4. ActiveInv'
    BY <1>0, <2>1, <2>2, ClientsAre DEF BackendsInv, ActiveInv
  <2>5. HandInv'
    BY <1>0, <2>1, <2>2, ClientsAre DEF BackendsInv, HandInv
  <2>6. UnregisteredInv'
    BY <1>0, <2>1, <2>2, ClientsAre DEF BackendsInv, UnregisteredInv
  <2>7. QED
    BY <2>3, <2>4, <2>5, <2>6 DEF BackendsInv
<1>4. ASSUME NEW t \in Clients, WaitForStop(t) PROVE BackendsInv'
  <2>1. /\ at[t] = "join"
        /\ held[t] \in Managers
        /\ place[held[t]] = "exited"
        /\ UNCHANGED <<Instance, Backends, Active, running, Registered, ShutdownFlag,
              FlushTime>>
        /\ \A n \in Managers : place'[n] = IF n = held[t] THEN IF LastReference(t, held[t])
              THEN "destroy" ELSE "exited" ELSE place[n]
        /\ \A u \in Clients : at'[u] = IF u = t THEN IF LastReference(t, held[t]) THEN "drain"
              ELSE IF t = Owner THEN "done" ELSE "provide" ELSE at[u]
        /\ \A u \in Clients : held'[u] = IF u = t THEN IF LastReference(t, held[t]) THEN held[t]
              ELSE 0 ELSE held[u]
    BY <1>0, <1>4, WaitForStopDoes
  <2>2. t = Owner => \A u \in Clients : u # Owner => held[u] = 0
    BY <1>0, <2>1, ClientsAre DEF ClientsInv, OwnerInv, HeldInv, Holding
  <2>3. t = Owner => LastReference(t, held[t])
    BY <1>0, <2>1, <2>2, ClientsAre DEF LastReference, ClientsInv, OwnerInv
  <2>4. CurrentManager' = CurrentManager
    BY <1>0, <2>1, <2>3, ClientsAre DEF CurrentManager
  <2>5. HomeInv'
    BY <1>0, <2>1, <2>2, <2>3, <2>4, ClientsAre DEF BackendsInv, HomeInv
  <2>6. ActiveInv'
    BY <1>0, <2>1, <2>2, <2>3, <2>4, ClientsAre DEF BackendsInv, ActiveInv
  <2>7. HandInv'
    BY <1>0, <2>1, ClientsAre DEF BackendsInv, HandInv, PlacesInv, RunningInv
  <2>8. UnregisteredInv'
    BY <1>0, <2>1, <2>2, <2>3, <2>4, ClientsAre DEF BackendsInv, UnregisteredInv
  <2>9. QED
    BY <2>5, <2>6, <2>7, <2>8 DEF BackendsInv
<1>5. ASSUME NEW t \in Clients, Leaves(t) PROVE BackendsInv'
  <2>1. /\ at[t] \in {"drain", "drop"}
        /\ held[t] \in Managers
        /\ place[held[t]] = "gone"
        /\ UNCHANGED <<Instance, Backends, Active, place, running, Registered, ShutdownFlag,
              FlushTime>>
        /\ \A u \in Clients : at'[u] = IF u = t THEN IF at[t] = "drop" THEN After(t)
              ELSE IF t = Owner THEN "done" ELSE "provide" ELSE at[u]
        /\ \A u \in Clients : held'[u] = IF u = t THEN 0 ELSE held[u]
    BY <1>0, <1>5, LeavesDoes
  <2>2. t # Owner => CurrentManager' = CurrentManager
    BY <2>1, ClientsAre DEF CurrentManager
  <2>3. t = Owner => at[t] = "drain"
    BY <1>0, <2>1 DEF ClientsInv, LabelsInv
  <2>4. t = Owner => Backends[held[t]] = {} /\ CurrentManager = held[t]
    BY <1>0, <2>1, <2>3 DEF PlacesInv, DestroyInv, CurrentManager
  <2>5. t = Owner => \A n \in Managers : Backends[n] = {}
    BY <1>0, <2>4 DEF BackendsInv, HomeInv
  <2>6. \A u \in Clients : at'[u] = "register" => at[u] = "register"
    BY <2>1 DEF After
  <2>7. HomeInv'
    BY <1>0, <2>1, <2>2, <2>3, <2>4, <2>5, <2>6, ClientsAre DEF BackendsInv, HomeInv
  <2>8. ActiveInv'
    BY <1>0, <2>1, <2>2, <2>3, <2>4, <2>5, <2>6, ClientsAre DEF BackendsInv, ActiveInv
  <2>9. HandInv'
    BY <1>0, <2>1, <2>2, <2>3, <2>4, <2>5, <2>6, ClientsAre DEF BackendsInv, HandInv
  <2>10. UnregisteredInv'
    BY <1>0, <2>1, <2>2, <2>3, <2>4, <2>5, <2>6, ClientsAre DEF BackendsInv, UnregisteredInv
  <2>11. QED
    BY <2>7, <2>8, <2>9, <2>10 DEF BackendsInv
<1>6. ASSUME NEW b \in FileBackends, Provide(b) PROVE BackendsInv'
  <2>1. /\ at[b] = "provide"
        /\ Instance' \in Managers
        /\ UNCHANGED <<Active, running, Registered, ShutdownFlag, FlushTime, held>>
        /\ Instance' = IF Instance = 0 THEN created + 1 ELSE Instance
        /\ \A n \in Managers : Backends'[n] = IF n = Instance' THEN Backends[n] \cup {b}
              ELSE Backends[n]
        /\ \A n \in Managers : place'[n] = IF n = Instance' THEN IF place[n] = "none"
              THEN "loop" ELSE place[n] ELSE place[n]
        /\ \A u \in Clients : at'[u] = IF u = b THEN "register" ELSE at[u]
    BY <1>0, <1>6, ProvideDoes
  <2>2. at[Owner] = "idle" /\ CurrentManager = Instance
    BY <1>0, <2>1, ClientsAre DEF ClientsInv, OwnerInv, Adding, CurrentManager
  <2>3. CurrentManager' = Instance' /\ CurrentManager' # 0
    BY <2>1, <2>2, ClientsAre DEF CurrentManager
  <2>4. \A n \in Managers : Backends[n] # {} => n = Instance'
    BY <1>0, <2>1, <2>2, ClientsAre DEF BackendsInv, HomeInv
  <2>5. \A c \in FileBackends : Registered[c] \/ at[c] = "register" => c \in Backends[Instance']
    BY <1>0, <2>1, <2>2, <2>4, ClientsAre DEF BackendsInv, HomeInv
  <2>6. /\ \A n \in Managers : Backends[n] \subseteq Backends'[n]
        /\ \A n \in Managers : Backends'[n] # {} => n = Instance'
        /\ b \in Backends'[Instance']
        /\ \A c \in FileBackends : c # b => at'[c] = at[c]
    BY <2>1, <2>4, ClientsAre
  <2>7. UNCHANGED <<Registered, Active, running, ShutdownFlag>> /\ \A n \in Managers :
          place'[n] \in {"loop", place[n]}
    BY <2>1
  <2>8. HomeInv'
    <3>1. \A c \in FileBackends : Registered'[c] \/ at'[c] = "register" =>
            c = b \/ Registered[c] \/ at[c] = "register"
      BY <2>6, <2>7
    <3>2. \A c \in FileBackends : Registered'[c] \/ at'[c] = "register" =>
            c \in Backends'[Instance']
      BY <2>1, <2>5, <2>6, <3>1
    <3>3. QED
      BY <2>3, <2>6, <3>2 DEF HomeInv
  <2>9. ActiveInv'
    BY <1>0, <2>6, <2>7 DEF BackendsInv, ActiveInv
  <2>10. HandInv'
    BY <1>0, <2>6, <2>7 DEF BackendsInv, HandInv
  <2>11. UnregisteredInv'
    BY <1>0, <2>1, <2>2, <2>3, <2>4, <2>5, <2>6, <2>7, ClientsAre
       DEF BackendsInv, UnregisteredInv
  <2>12. QED
    BY <2>8, <2>9, <2>10, <2>11 DEF BackendsInv
<1>7. ASSUME NEW b \in FileBackends, SetRegistered(b) PROVE BackendsInv'
  <2>1. /\ at[b] = "register"
        /\ UNCHANGED <<Instance, Backends, Active, place, running, ShutdownFlag, FlushTime,
              held>>
        /\ \A c \in FileBackends : Registered'[c] = IF c = b THEN TRUE ELSE Registered[c]
        /\ \A u \in Clients : at'[u] = IF u = b THEN "append" ELSE at[u]
    BY <1>0, <1>7, SetRegisteredDoes
  <2>2. CurrentManager' = CurrentManager
    BY <2>1, ClientsAre DEF CurrentManager
  <2>3. ~ ShutdownFlag[b] /\ \A c \in FileBackends : Registered[c] => Registered'[c]
    BY <1>0, <2>1 DEF ClientsInv, AddingInv
  <2>4. \A n \in Managers : Backends[n] \subseteq FileBackends
    BY <1>0 DEF TypesOK
  <2>5. HomeInv'
    BY <1>0, <2>1, <2>2, <2>3, <2>4, ClientsAre DEF BackendsInv, HomeInv
  <2>6. ActiveInv'
    BY <1>0, <2>1, <2>3, <2>4 DEF BackendsInv, ActiveInv
  <2>7. HandInv'
    <3>1. \A n \in Managers : running[n] \in FileBackends \cup {NoBackend}
      BY <1>0 DEF TypesOK
    <3>2. \A n \in Managers : place[n] \in {"shutdown", "destroy"} =>
            running[n] = NoBackend \/ running[n] # b
      BY <1>0, <2>3, <3>1 DEF BackendsInv, HandInv
    <3>3. \A c \in FileBackends : c # b => Registered'[c] = Registered[c]
      BY <2>1
    <3>4. UNCHANGED <<place, running, Backends, ShutdownFlag>>
      BY <2>1
    <3>5. QED
      BY <1>0, <2>3, <2>4, <3>1, <3>2, <3>3, <3>4, ClientsAre DEF BackendsInv, HandInv
  <2>8. UnregisteredInv'
    BY <1>0, <2>1, <2>2, <2>3, <2>4, ClientsAre DEF BackendsInv, UnregisteredInv
  <2>9. QED
    BY <2>5, <2>6, <2>7, <2>8 DEF BackendsInv
<1>8. ASSUME NEW b \in FileBackends, AppendOutputData(b) PROVE BackendsInv'
  <2>1. /\ at[b] = "append"
        /\ UNCHANGED <<Instance, Backends, Active, place, running, Registered, ShutdownFlag,
              held>>
        /\ \A c \in FileBackends : FlushTime'[c] = IF c = b THEN IF Urgent(b) THEN RIGHT_NOW
              ELSE IF Deferred(b) THEN Later ELSE FlushTime[b] ELSE FlushTime[c]
        /\ \A u \in Clients : at'[u] = IF u = b THEN IF Urgent(b) \/ Deferred(b) THEN "notify"
              ELSE "idle" ELSE at[u]
    BY <1>0, <1>8, AppendOutputDataDoes
  <2>2. CurrentManager' = CurrentManager
    BY <2>1, ClientsAre DEF CurrentManager
  <2>3. HomeInv'
    BY <1>0, <2>1, <2>2, ClientsAre DEF BackendsInv, HomeInv
  <2>4. ActiveInv'
    BY <1>0, <2>1, <2>2, ClientsAre DEF BackendsInv, ActiveInv
  <2>5. HandInv'
    BY <1>0, <2>1, <2>2, ClientsAre DEF BackendsInv, HandInv
  <2>6. UnregisteredInv'
    BY <1>0, <2>1 DEF BackendsInv, UnregisteredInv, ClientsInv, AddingInv
  <2>7. QED
    BY <2>3, <2>4, <2>5, <2>6 DEF BackendsInv
<1>9. ASSUME NEW b \in FileBackends, Freeze(b) PROVE BackendsInv'
  <2>1. /\ at[b] = "idle"
        /\ ~ ShutdownFlag[b]
        /\ UNCHANGED <<Instance, Backends, Active, place, running, Registered, held>>
        /\ \A c \in FileBackends : ShutdownFlag'[c] = IF c = b THEN TRUE ELSE ShutdownFlag[c]
        /\ \A c \in FileBackends : FlushTime'[c] = IF c = b THEN IF Asks(b) THEN RIGHT_NOW
              ELSE FlushTime[b] ELSE FlushTime[c]
        /\ \A u \in Clients : at'[u] = IF u = b THEN IF Asks(b) THEN "notify" ELSE "idle"
              ELSE at[u]
    BY <1>0, <1>9, FreezeDoes
  <2>2. CurrentManager' = CurrentManager
    BY <2>1, ClientsAre DEF CurrentManager
  <2>3. \A c \in FileBackends : ShutdownFlag[c] => ShutdownFlag'[c]
    BY <2>1
  <2>4. HomeInv'
    BY <1>0, <2>1, <2>2, <2>3, ClientsAre DEF BackendsInv, HomeInv
  <2>5. ActiveInv'
    BY <1>0, <2>1, <2>2, <2>3, ClientsAre DEF BackendsInv, ActiveInv
  <2>6. HandInv'
    BY <1>0, <2>1, <2>3 DEF BackendsInv, HandInv, TypesOK
  <2>7. UnregisteredInv'
    BY <1>0, <2>1 DEF BackendsInv, UnregisteredInv
  <2>8. QED
    BY <2>4, <2>5, <2>6, <2>7 DEF BackendsInv
<1>10. ASSUME NEW b \in FileBackends, Flush(b) PROVE BackendsInv'
  <2>1. /\ at[Flusher] = "idle"
        /\ Registered[b] \/ ShutdownFlag[b]
        /\ at[Owner] = "idle"
        /\ UNCHANGED <<Instance, Backends, Active, place, running, Registered, ShutdownFlag,
              FlushTime, held>>
        /\ \A u \in Clients : at'[u] = IF u = Flusher THEN "publish" ELSE at[u]
    BY <1>0, <1>10, FlushDoes
  <2>2. CurrentManager' = CurrentManager
    BY <2>1, ClientsAre DEF CurrentManager
  <2>3. HomeInv'
    BY <1>0, <2>1, <2>2, ClientsAre DEF BackendsInv, HomeInv
  <2>4. ActiveInv'
    BY <1>0, <2>1, <2>2, ClientsAre DEF BackendsInv, ActiveInv
  <2>5. HandInv'
    BY <1>0, <2>1, <2>2, ClientsAre DEF BackendsInv, HandInv
  <2>6. UnregisteredInv'
    BY <1>0, <2>1, <2>2, ClientsAre DEF BackendsInv, UnregisteredInv
  <2>7. QED
    BY <2>3, <2>4, <2>5, <2>6 DEF BackendsInv
<1>11. ASSUME Publishes PROVE BackendsInv'
  <2>1. /\ at[Flusher] \in {"publish", "enqueue"}
        /\ flushed \in FileBackends
        /\ UNCHANGED <<Instance, Backends, Active, place, running, Registered, ShutdownFlag,
              FlushTime, held>>
        /\ at'[Flusher] \in {"publish", "enqueue"}
        /\ \A u \in Clients : u # Flusher => at'[u] = at[u]
    BY <1>0, <1>11, PublishesDoes
  <2>2. CurrentManager' = CurrentManager
    BY <2>1, ClientsAre DEF CurrentManager
  <2>3. HomeInv'
    BY <1>0, <2>1, <2>2, ClientsAre DEF BackendsInv, HomeInv
  <2>4. ActiveInv'
    BY <1>0, <2>1, <2>2, ClientsAre DEF BackendsInv, ActiveInv
  <2>5. HandInv'
    BY <1>0, <2>1, <2>2, ClientsAre DEF BackendsInv, HandInv
  <2>6. UnregisteredInv'
    BY <1>0, <2>1, <2>2, ClientsAre DEF BackendsInv, UnregisteredInv
  <2>7. QED
    BY <2>3, <2>4, <2>5, <2>6 DEF BackendsInv
<1>12. ASSUME AllPublished PROVE BackendsInv'
  <2>1. /\ at[Flusher] = "publish"
        /\ flushed \in FileBackends
        /\ UNCHANGED <<Instance, Backends, Active, place, running, Registered, ShutdownFlag,
              held>>
        /\ \A c \in FileBackends : FlushTime'[c] = IF c = flushed THEN IF Asks(c)
              THEN RIGHT_NOW ELSE FlushTime[c] ELSE FlushTime[c]
        /\ \A u \in Clients : at'[u] = IF u = Flusher THEN IF Asks(flushed) THEN "notify"
              ELSE "flushing" ELSE at[u]
    BY <1>0, <1>12, AllPublishedDoes
  <2>2. CurrentManager' = CurrentManager
    BY <2>1, ClientsAre DEF CurrentManager
  <2>3. HomeInv'
    BY <1>0, <2>1, <2>2, ClientsAre DEF BackendsInv, HomeInv
  <2>4. ActiveInv'
    BY <1>0, <2>1, <2>2, ClientsAre DEF BackendsInv, ActiveInv
  <2>5. HandInv'
    BY <1>0, <2>1, <2>2, ClientsAre DEF BackendsInv, HandInv
  <2>6. Registered[flushed] \/ ShutdownFlag[flushed]
    BY <1>0, <2>1, ClientsAre DEF ClientsInv, FlushedInv
  <2>7. UnregisteredInv'
    BY <1>0, <2>1, <2>6 DEF BackendsInv, UnregisteredInv
  <2>8. QED
    BY <2>3, <2>4, <2>5, <2>7 DEF BackendsInv
<1>13. ASSUME FlushDone PROVE BackendsInv'
  <2>1. /\ at[Flusher] = "flushing"
        /\ UNCHANGED <<Instance, Backends, Active, place, running, Registered, ShutdownFlag,
              FlushTime, held>>
        /\ \A u \in Clients : at'[u] = IF u = Flusher THEN "idle" ELSE at[u]
    BY <1>0, <1>13, FlushDoneDoes
  <2>2. CurrentManager' = CurrentManager
    BY <2>1, ClientsAre DEF CurrentManager
  <2>3. HomeInv'
    BY <1>0, <2>1, <2>2, ClientsAre DEF BackendsInv, HomeInv
  <2>4. ActiveInv'
    BY <1>0, <2>1, <2>2, ClientsAre DEF BackendsInv, ActiveInv
  <2>5. HandInv'
    BY <1>0, <2>1, <2>2, ClientsAre DEF BackendsInv, HandInv
  <2>6. UnregisteredInv'
    BY <1>0, <2>1, <2>2, ClientsAre DEF BackendsInv, UnregisteredInv
  <2>7. QED
    BY <2>3, <2>4, <2>5, <2>6 DEF BackendsInv
<1>14. ASSUME NEW t \in Clients, NotifyFactory(t) PROVE BackendsInv'
  <2>1. /\ at[t] = "notify"
        /\ UNCHANGED <<Instance, Backends, Active, place, running, Registered, ShutdownFlag,
              FlushTime>>
        /\ \A u \in Clients : at'[u] = IF u = t THEN IF Instance = 0 THEN After(t)
              ELSE "announce" ELSE at[u]
        /\ \A u \in Clients : held'[u] = IF u = t THEN Instance ELSE held[u]
    BY <1>0, <1>14, NotifyFactoryDoes
  <2>2. t # Owner
    BY <1>0, <2>1 DEF ClientsInv, LabelsInv
  <2>3. CurrentManager' = CurrentManager
    BY <2>1, <2>2, ClientsAre DEF CurrentManager
  <2>4. \A u \in Clients : at'[u] = "register" => at[u] = "register"
    BY <2>1 DEF After
  <2>5. HomeInv'
    BY <1>0, <2>1, <2>2, <2>3, <2>4, ClientsAre DEF BackendsInv, HomeInv
  <2>6. ActiveInv'
    BY <1>0, <2>1, <2>2, <2>3, <2>4, ClientsAre DEF BackendsInv, ActiveInv
  <2>7. HandInv'
    BY <1>0, <2>1, <2>2, <2>3, <2>4, ClientsAre DEF BackendsInv, HandInv
  <2>8. UnregisteredInv'
    BY <1>0, <2>1, <2>2, <2>3, <2>4, ClientsAre DEF BackendsInv, UnregisteredInv
  <2>9. QED
    BY <2>5, <2>6, <2>7, <2>8 DEF BackendsInv
<1>15. ASSUME NEW t \in Clients, NotifyManager(t) PROVE BackendsInv'
  <2>1. /\ at[t] = "announce"
        /\ held[t] \in Managers
        /\ when[t] \in Times
        /\ BackendOf(t) \in FileBackends
        /\ UNCHANGED <<Instance, Backends, running, Registered, ShutdownFlag, FlushTime>>
        /\ \A n \in Managers : Active'[n] = IF n = held[t] THEN IF Registered[BackendOf(t)]
              THEN Activate(Active[n], BackendOf(t), when[t]) ELSE Active[n] ELSE Active[n]
        /\ \A n \in Managers : place'[n] = IF n = held[t] THEN IF LastReference(t, held[t])
              THEN "destroy" ELSE place[n] ELSE place[n]
        /\ \A u \in Clients : at'[u] = IF u = t THEN IF LastReference(t, held[t]) THEN "drop"
              ELSE After(t) ELSE at[u]
        /\ \A u \in Clients : held'[u] = IF u = t THEN IF LastReference(t, held[t]) THEN held[t]
              ELSE 0 ELSE held[u]
    BY <1>0, <1>15, NotifyManagerDoes
  <2>2. t # Owner
    BY <1>0, <2>1 DEF ClientsInv, LabelsInv
  <2>3. CurrentManager' = CurrentManager
    BY <2>1, <2>2, ClientsAre DEF CurrentManager
  <2>4. \A u \in Clients : at'[u] = "register" => at[u] = "register"
    BY <2>1 DEF After
  <2>5. Registered[BackendOf(t)] =>
          held[t] = CurrentManager /\ BackendOf(t) \in Backends[CurrentManager]
    <3>1. Registered[BackendOf(t)] => held[t] = Instance
      BY <1>0, <2>1 DEF NotifiedInv, BackendOf
    <3>2. at[Owner] \notin {"join", "drain"}
      BY <1>0, <2>1, <2>2, ClientsAre DEF ClientsInv, OwnerInv
    <3>3. QED
      BY <1>0, <2>1, <3>1, <3>2 DEF CurrentManager, BackendsInv, HomeInv
  <2>6. \A n \in Managers :
          ToSet(Active'[n]) = ToSet(Active[n]) \/ (n = held[t] /\ Registered[BackendOf(t)] /\ ToSet(Active'[n]) = ToSet(Active[n]) \cup {BackendOf(t)})
    <3>1. CASE Registered[BackendOf(t)]
      <4>1. IsList(Active[held[t]])
        BY <1>0, <2>1, ActiveIs
      <4>2. FlushTime \in [FileBackends -> Times \cup {NoTime}]
        BY <1>0 DEF TypesOK
      <4>3. ToSet(Activate(Active[held[t]], BackendOf(t),
              when[t])) = ToSet(Active[held[t]]) \cup {BackendOf(t)}
        BY <2>1, <4>1, <4>2, ActivateIs
      <4>4. QED
        BY <2>1, <3>1, <4>3
    <3>2. CASE ~ Registered[BackendOf(t)]
      BY <2>1, <3>2
    <3>3. QED
      BY <3>1, <3>2
  <2>7. LastReference(t, held[t]) => running[held[t]] = NoBackend
    BY <1>0, <2>1, LastReferenceIs
  <2>8. HomeInv'
    BY <1>0, <2>1, <2>2, <2>3, <2>4, <2>5, <2>6, <2>7, ClientsAre DEF BackendsInv, HomeInv
  <2>9. ActiveInv'
    BY <1>0, <2>1, <2>2, <2>3, <2>4, <2>5, <2>6, <2>7, ClientsAre DEF BackendsInv, ActiveInv
  <2>10. HandInv'
    BY <1>0, <2>1, <2>7 DEF BackendsInv, HandInv
  <2>11. UnregisteredInv'
    BY <1>0, <2>1, <2>2, <2>3, <2>4, <2>5, <2>6, <2>7, ClientsAre
       DEF BackendsInv, UnregisteredInv
  <2>12. QED
    BY <2>8, <2>9, <2>10, <2>11 DEF BackendsInv
<1>16. ASSUME NEW m \in Managers, Exit(m) PROVE BackendsInv'
  <2>1. /\ place[m] = "loop"
        /\ StopRequested[m]
        /\ UNCHANGED <<Instance, Backends, Active, running, Registered, ShutdownFlag, FlushTime,
              at, held>>
        /\ \A n \in Managers : place'[n] = IF n = m THEN "exited" ELSE place[n]
    BY <1>0, <1>16, ExitDoes
  <2>2. CurrentManager' = CurrentManager
    BY <2>1, ClientsAre DEF CurrentManager
  <2>3. HomeInv'
    BY <1>0, <2>1, <2>2, ClientsAre DEF BackendsInv, HomeInv
  <2>4. ActiveInv'
    BY <1>0, <2>1, <2>2, ClientsAre DEF BackendsInv, ActiveInv
  <2>5. HandInv'
    BY <1>0, <2>1, <2>2, ClientsAre DEF BackendsInv, HandInv
  <2>6. UnregisteredInv'
    BY <1>0, <2>1, <2>2, ClientsAre DEF BackendsInv, UnregisteredInv
  <2>7. QED
    BY <2>3, <2>4, <2>5, <2>6 DEF BackendsInv
<1>17. ASSUME NEW m \in Managers, WaitForWork(m) PROVE BackendsInv'
  <2>1. /\ place[m] = "loop"
        /\ ~ StopRequested[m]
        /\ WithoutStale(Active[m]) # <<>> => FlushTime[Head(WithoutStale(Active[m]))] > Due
        /\ UNCHANGED <<Instance, Backends, running, Registered, ShutdownFlag, FlushTime, at,
              held>>
        /\ \A n \in Managers : Active'[n] = IF n = m THEN WithoutStale(Active[m]) ELSE Active[n]
        /\ \A n \in Managers : place'[n] = IF n = m THEN "wait" ELSE place[n]
    BY <1>0, <1>17, WaitForWorkDoes
  <2>2. CurrentManager' = CurrentManager
    BY <2>1, ClientsAre DEF CurrentManager
  <2>3. ToSet(WithoutStale(Active[m])) \subseteq ToSet(Active[m])
    BY <1>0, ActiveIs, WithoutStaleIs
  <2>4. HomeInv'
    BY <1>0, <2>1, <2>2, <2>3, ClientsAre DEF BackendsInv, HomeInv
  <2>5. ActiveInv'
    BY <1>0, <2>1, <2>2, <2>3, ClientsAre DEF BackendsInv, ActiveInv
  <2>6. HandInv'
    BY <1>0, <2>1, <2>2, <2>3, ClientsAre DEF BackendsInv, HandInv
  <2>7. UnregisteredInv'
    BY <1>0, <2>1, <2>2, <2>3, ClientsAre DEF BackendsInv, UnregisteredInv
  <2>8. QED
    BY <2>4, <2>5, <2>6, <2>7 DEF BackendsInv
<1>18. ASSUME NEW m \in Managers, WakeUp(m) PROVE BackendsInv'
  <2>1. /\ place[m] = "wait"
        /\ UNCHANGED <<Instance, Backends, Active, running, Registered, ShutdownFlag, FlushTime,
              at, held>>
        /\ \A n \in Managers : place'[n] = IF n = m THEN "loop" ELSE place[n]
    BY <1>0, <1>18, WakeUpDoes
  <2>2. CurrentManager' = CurrentManager
    BY <2>1, ClientsAre DEF CurrentManager
  <2>3. HomeInv'
    BY <1>0, <2>1, <2>2, ClientsAre DEF BackendsInv, HomeInv
  <2>4. ActiveInv'
    BY <1>0, <2>1, <2>2, ClientsAre DEF BackendsInv, ActiveInv
  <2>5. HandInv'
    BY <1>0, <2>1, <2>2, ClientsAre DEF BackendsInv, HandInv
  <2>6. UnregisteredInv'
    BY <1>0, <2>1, <2>2, ClientsAre DEF BackendsInv, UnregisteredInv
  <2>7. QED
    BY <2>3, <2>4, <2>5, <2>6 DEF BackendsInv
<1>19. ASSUME NEW m \in Managers, TakeHead(m) PROVE BackendsInv'
  <2>1. /\ place[m] = "loop"
        /\ ~ StopRequested[m]
        /\ WithoutStale(Active[m]) # <<>>
        /\ UNCHANGED <<Instance, Backends, Registered, ShutdownFlag, FlushTime, at, held>>
        /\ \A n \in Managers : Active'[n] = IF n = m THEN Tail(WithoutStale(Active[m]))
              ELSE Active[n]
        /\ \A n \in Managers : place'[n] = IF n = m
              THEN IF Head(WithoutStale(Active[m])) \in Backends[m] THEN "work" ELSE "loop"
              ELSE place[n]
        /\ \A n \in Managers : running'[n] = IF n = m
              THEN IF Head(WithoutStale(Active[m])) \in Backends[m]
              THEN Head(WithoutStale(Active[m])) ELSE running[m] ELSE running[n]
    BY <1>0, <1>19, TakeHeadDoes
  <2>2. CurrentManager' = CurrentManager
    BY <2>1, ClientsAre DEF CurrentManager
  <2>3. IsList(WithoutStale(Active[m])) /\ ToSet(WithoutStale(Active[m])) \subseteq ToSet(Active[m])
    BY <1>0, ActiveIs, WithoutStaleIs
  <2>4. Head(WithoutStale(Active[m])) \in ToSet(WithoutStale(Active[m])) /\ ToSet(Tail(WithoutStale(Active[m]))) \subseteq ToSet(Active[m])
    BY <2>1, <2>3, TailIs
  <2>5. HomeInv'
    BY <1>0, <2>1, <2>2, <2>3, <2>4, ClientsAre DEF BackendsInv, HomeInv
  <2>6. ActiveInv'
    BY <1>0, <2>1, <2>2, <2>3, <2>4, ClientsAre DEF BackendsInv, ActiveInv
  <2>7. HandInv'
    BY <1>0, <2>1, <2>2, <2>3, <2>4, ClientsAre DEF BackendsInv, HomeInv, ActiveInv, HandInv,
       UnregisteredInv
  <2>8. UnregisteredInv'
    BY <1>0, <2>1, <2>2, <2>3, <2>4, ClientsAre DEF BackendsInv, UnregisteredInv
  <2>9. QED
    BY <2>5, <2>6, <2>7, <2>8 DEF BackendsInv
<1>20. ASSUME NEW m \in Managers, WorkerFunc(m) PROVE BackendsInv'
  <2>1. /\ place[m] = "work"
        /\ running[m] \in FileBackends
        /\ UNCHANGED <<Instance, Backends, Active, running, Registered, ShutdownFlag, at, held>>
        /\ \A n \in Managers : place'[n] = IF n = m THEN IF ShutdownFlag[running[m]]
              THEN "remove" ELSE "again" ELSE place[n]
        /\ \A c \in FileBackends : c # running[m] => FlushTime'[c] = FlushTime[c]
    BY <1>0, <1>20, WorkerFuncDoes
  <2>2. CurrentManager' = CurrentManager
    BY <2>1, ClientsAre DEF CurrentManager
  <2>3. HomeInv'
    BY <1>0, <2>1, <2>2, ClientsAre DEF BackendsInv, HomeInv
  <2>4. ActiveInv'
    BY <1>0, <2>1, <2>2, ClientsAre DEF BackendsInv, ActiveInv
  <2>5. HandInv'
    BY <1>0, <2>1, <2>2, ClientsAre DEF BackendsInv, HandInv
  <2>6. UnregisteredInv'
    BY <1>0, <2>1, <2>2, ClientsAre DEF BackendsInv, HomeInv, ActiveInv, HandInv,
       UnregisteredInv
  <2>7. QED
    BY <2>3, <2>4, <2>5, <2>6 DEF BackendsInv
<1>21. ASSUME NEW m \in Managers, Reactivate(m) PROVE BackendsInv'
  <2>1. /\ place[m] = "again"
        /\ running[m] \in FileBackends
        /\ UNCHANGED <<Instance, Backends, Registered, ShutdownFlag, FlushTime, at, held>>
        /\ \A n \in Managers : Active'[n] = IF n = m THEN IF FlushTime[running[m]] = NoTime
              THEN Without(Active[m], running[m])
              ELSE Activate(Active[m], running[m], FlushTime[running[m]]) ELSE Active[n]
        /\ \A n \in Managers : place'[n] = IF n = m THEN "loop" ELSE place[n]
        /\ \A n \in Managers : running'[n] = IF n = m THEN NoBackend ELSE running[n]
    BY <1>0, <1>21, ReactivateDoes
  <2>2. CurrentManager' = CurrentManager
    BY <2>1, ClientsAre DEF CurrentManager
  <2>3. running[m] \in Backends[m] /\ Registered[running[m]]
    BY <1>0, <2>1 DEF BackendsInv, HandInv
  <2>4. ToSet(Active'[m]) \subseteq ToSet(Active[m]) \cup {running[m]}
    <3>1. IsList(Active[m]) /\ FlushTime \in [FileBackends -> Times \cup {NoTime}]
      BY <1>0, ActiveIs DEF TypesOK
    <3>2. CASE FlushTime[running[m]] = NoTime
      BY <2>1, <3>1, <3>2, WithoutIs
    <3>3. CASE FlushTime[running[m]] # NoTime
      <4>1. FlushTime[running[m]] \in Times
        BY <2>1, <3>1, <3>3
      <4>2. QED
        BY <2>1, <3>1, <3>3, <4>1, ActivateIs
    <3>4. QED
      BY <3>2, <3>3
  <2>5. HomeInv'
    BY <1>0, <2>1, <2>2, <2>3, <2>4, ClientsAre DEF BackendsInv, HomeInv
  <2>6. ActiveInv'
    BY <1>0, <2>1, <2>2, <2>3, <2>4, ClientsAre DEF BackendsInv, ActiveInv
  <2>7. HandInv'
    BY <1>0, <2>1, <2>2, <2>3, <2>4, ClientsAre DEF BackendsInv, HandInv
  <2>8. UnregisteredInv'
    BY <1>0, <2>1, <2>2, <2>3, <2>4, ClientsAre DEF BackendsInv, UnregisteredInv
  <2>9. QED
    BY <2>5, <2>6, <2>7, <2>8 DEF BackendsInv
<1>22. ASSUME NEW m \in Managers, RemoveBackendLocked(m) PROVE BackendsInv'
  <2>1. /\ place[m] = "remove"
        /\ running[m] \in FileBackends
        /\ UNCHANGED <<Instance, running, ShutdownFlag, at, held>>
        /\ \A n \in Managers : Backends'[n] = IF n = m THEN Backends[m] \ {running[m]}
              ELSE Backends[n]
        /\ \A n \in Managers : Active'[n] = IF n = m THEN Without(Active[m], running[m])
              ELSE Active[n]
        /\ \A n \in Managers : place'[n] = IF n = m THEN "shutdown" ELSE place[n]
        /\ \A c \in FileBackends : Registered'[c] = IF c = running[m] THEN FALSE
              ELSE Registered[c]
        /\ \A c \in FileBackends : FlushTime'[c] = IF c = running[m] THEN NoTime
              ELSE FlushTime[c]
    BY <1>0, <1>22, RemoveBackendLockedDoes
  <2>2. CurrentManager' = CurrentManager
    BY <2>1, ClientsAre DEF CurrentManager
  <2>3. running[m] \in Backends[m] /\ Registered[running[m]] /\ ShutdownFlag[running[m]] /\ m = CurrentManager
    BY <1>0, <2>1, ClientsAre DEF BackendsInv, HandInv, HomeInv
  <2>4. ToSet(Active'[m]) = ToSet(Active[m]) \ {running[m]}
    BY <1>0, <2>1, ActiveIs, WithoutIs
  <2>5. at[running[m]] # "register"
    BY <1>0, <2>1, <2>3 DEF ClientsInv, AddingInv
  <2>6. HomeInv'
    BY <1>0, <2>1, <2>2, <2>3, <2>5 DEF BackendsInv, HomeInv
  <2>7. ActiveInv'
    <3>1. \A n \in Managers : \A c \in ToSet(Active'[n]) :
            c \in ToSet(Active[n]) /\ c # running[m]
      <4>1. \A n \in Managers : n # m => ToSet(Active'[n]) = {}
        BY <1>0, <2>1, <2>3 DEF BackendsInv, ActiveInv, HomeInv
      <4>2. QED
        BY <2>1, <2>4, <4>1
    <3>2. \A c \in FileBackends : c # running[m] => Registered'[c] = Registered[c]
      BY <2>1
    <3>3. \A n \in Managers : Backends[n] \subseteq FileBackends
      BY <1>0 DEF TypesOK
    <3>4. \A n \in Managers : \A c \in Backends[n] : c # running[m] => c \in Backends'[n]
      BY <2>1
    <3>5. QED
      BY <1>0, <3>1, <3>2, <3>3, <3>4 DEF BackendsInv, ActiveInv
  <2>8. HandInv'
    <3>1. \A n \in Managers : place[n] \in {"work", "again", "remove"} => n = m
      BY <1>0, <2>3 DEF BackendsInv, HandInv, HomeInv
    <3>2. \A c \in FileBackends : Registered'[c] => Registered[c]
      BY <2>1
    <3>3. ~ Registered'[running[m]] /\ ShutdownFlag[running[m]]
      BY <2>1, <2>3
    <3>4. \A n \in Managers : running[n] \in FileBackends \cup {NoBackend}
      BY <1>0 DEF TypesOK
    <3>5. QED
      BY <1>0, <2>1, <3>1, <3>2, <3>3, <3>4 DEF BackendsInv, HandInv
  <2>9. UnregisteredInv'
    BY <1>0, <2>1, <2>2, <2>3, <2>4, <2>5, ClientsAre DEF BackendsInv, UnregisteredInv
  <2>10. QED
    BY <2>6, <2>7, <2>8, <2>9 DEF BackendsInv
<1>23. ASSUME NEW m \in Managers, OnShutdown(m) PROVE BackendsInv'
  <2>1. /\ place[m] = "shutdown"
        /\ running[m] \in FileBackends
        /\ UNCHANGED <<Instance, Backends, Active, Registered, ShutdownFlag, FlushTime, at,
              held>>
        /\ \A n \in Managers : place'[n] = IF n = m THEN "loop" ELSE place[n]
        /\ \A n \in Managers : running'[n] = IF n = m THEN NoBackend ELSE running[n]
    BY <1>0, <1>23, OnShutdownDoes
  <2>2. CurrentManager' = CurrentManager
    BY <2>1, ClientsAre DEF CurrentManager
  <2>3. HomeInv'
    BY <1>0, <2>1, <2>2, ClientsAre DEF BackendsInv, HomeInv
  <2>4. ActiveInv'
    BY <1>0, <2>1, <2>2, ClientsAre DEF BackendsInv, ActiveInv
  <2>5. HandInv'
    BY <1>0, <2>1, <2>2, ClientsAre DEF BackendsInv, HandInv
  <2>6. UnregisteredInv'
    BY <1>0, <2>1, <2>2, ClientsAre DEF BackendsInv, UnregisteredInv
  <2>7. QED
    BY <2>3, <2>4, <2>5, <2>6 DEF BackendsInv
<1>24. ASSUME NEW m \in Managers, Unregister(m) PROVE BackendsInv'
  <2>1. /\ place[m] = "destroy"
        /\ running[m] = NoBackend
        /\ running'[m] \in Backends[m]
        /\ UNCHANGED <<Instance, Backends, place, ShutdownFlag, at, held>>
        /\ \A n \in Managers : Active'[n] = IF n = m THEN Without(Active[m], running'[m])
              ELSE Active[n]
        /\ \A n \in Managers : running'[n] = IF n = m THEN running'[m] ELSE running[n]
        /\ \A c \in FileBackends : Registered'[c] = IF c = running'[m] THEN FALSE
              ELSE Registered[c]
        /\ \A c \in FileBackends : FlushTime'[c] = IF c = running'[m] THEN NoTime
              ELSE FlushTime[c]
    BY <1>0, <1>24, UnregisterDoes
  <2>2. CurrentManager' = CurrentManager
    BY <2>1, ClientsAre DEF CurrentManager
  <2>3. running'[m] \in FileBackends /\ m = CurrentManager
    BY <1>0, <2>1 DEF TypesOK, BackendsInv, HomeInv
  <2>4. at[Owner] \in {"join", "drain"}
    BY <1>0, <2>1, <2>3 DEF CurrentManager, PlacesInv, DestroyInv
  <2>5. \A c \in FileBackends : at[c] = "idle" /\ ShutdownFlag[c]
    BY <1>0, <2>4 DEF ClientsInv, OwnerInv
  <2>6. ToSet(Active'[m]) = ToSet(Active[m]) \ {running'[m]}
    BY <1>0, <2>1, <2>3, ActiveIs, WithoutIs
  <2>7. \A n \in Managers : n # m => ToSet(Active'[n]) = {}
    BY <1>0, <2>1, <2>3 DEF BackendsInv, HomeInv, ActiveInv
  <2>8. HomeInv'
    BY <1>0, <2>1, <2>2, <2>3, <2>4, <2>5, <2>6, <2>7, ClientsAre DEF BackendsInv, HomeInv
  <2>9. ActiveInv'
    <3>1. \A c \in FileBackends : c # running'[m] => Registered'[c] = Registered[c]
      BY <2>1
    <3>2. \A n \in Managers : \A c \in ToSet(Active'[n]) :
            c \in ToSet(Active[n]) /\ c # running'[m]
      BY <2>1, <2>6, <2>7
    <3>3. \A n \in Managers : Backends[n] \subseteq FileBackends
      BY <1>0 DEF TypesOK
    <3>4. QED
      BY <1>0, <2>1, <3>1, <3>2, <3>3 DEF BackendsInv, ActiveInv
  <2>10. HandInv'
    <3>1. \A n \in Managers : place[n] \in {"work", "again", "remove"} => n = m
      BY <1>0, <2>3 DEF BackendsInv, HandInv, HomeInv
    <3>2. \A c \in FileBackends : Registered'[c] => Registered[c]
      BY <2>1
    <3>3. ~ Registered'[running'[m]] /\ ShutdownFlag[running'[m]]
      BY <2>1, <2>3, <2>5
    <3>4. QED
      BY <1>0, <2>1, <3>1, <3>2, <3>3 DEF BackendsInv, HandInv, TypesOK
  <2>11. UnregisteredInv'
    BY <1>0, <2>1, <2>2, <2>3, <2>4, <2>5, <2>6, <2>7, ClientsAre
       DEF BackendsInv, UnregisteredInv
  <2>12. QED
    BY <2>8, <2>9, <2>10, <2>11 DEF BackendsInv
<1>25. ASSUME NEW m \in Managers, DrainUnregistered(m) PROVE BackendsInv'
  <2>1. /\ place[m] = "destroy"
        /\ running[m] \in FileBackends
        /\ UNCHANGED <<Instance, Active, place, Registered, ShutdownFlag, FlushTime, at, held>>
        /\ \A n \in Managers : Backends'[n] = IF n = m THEN Backends[m] \ {running[m]}
              ELSE Backends[n]
        /\ \A n \in Managers : running'[n] = IF n = m THEN NoBackend ELSE running[n]
    BY <1>0, <1>25, DrainUnregisteredDoes
  <2>2. CurrentManager' = CurrentManager
    BY <2>1, ClientsAre DEF CurrentManager
  <2>3. ~ Registered[running[m]]
    BY <1>0, <2>1, ClientsAre DEF BackendsInv, HandInv
  <2>4. \A c \in FileBackends : at[c] = "register" => m # CurrentManager
    BY <1>0, <2>1 DEF CurrentManager, PlacesInv, DestroyInv, ClientsInv, OwnerInv
  <2>5. HomeInv'
    <3>1. \A c \in FileBackends : Registered[c] \/ at[c] = "register" =>
            CurrentManager # 0 /\ c \in Backends'[CurrentManager]
      BY <1>0, <2>1, <2>3, <2>4, CurrentIs DEF BackendsInv, HomeInv
    <3>2. \A n \in Managers : Backends'[n] # {} => n = CurrentManager
      BY <1>0, <2>1 DEF BackendsInv, HomeInv
    <3>3. UNCHANGED <<Registered, at>>
      BY <2>1
    <3>4. QED
      BY <2>2, <3>1, <3>2, <3>3 DEF HomeInv
  <2>6. ActiveInv'
    BY <1>0, <2>1, <2>2, <2>3, <2>4, ClientsAre DEF BackendsInv, ActiveInv
  <2>7. HandInv'
    BY <1>0, <2>1, <2>2, <2>3, <2>4, ClientsAre DEF BackendsInv, HandInv
  <2>8. UnregisteredInv'
    BY <1>0, <2>1, <2>2, <2>3, <2>4, ClientsAre DEF BackendsInv, UnregisteredInv
  <2>9. QED
    BY <2>5, <2>6, <2>7, <2>8 DEF BackendsInv
<1>26. ASSUME NEW m \in Managers, Destroy(m) PROVE BackendsInv'
  <2>1. /\ place[m] = "destroy"
        /\ running[m] = NoBackend
        /\ Backends[m] = {}
        /\ UNCHANGED <<Instance, Backends, Active, running, Registered, ShutdownFlag, FlushTime,
              at, held>>
        /\ \A n \in Managers : place'[n] = IF n = m THEN "gone" ELSE place[n]
    BY <1>0, <1>26, DestroyDoes
  <2>2. CurrentManager' = CurrentManager
    BY <2>1, ClientsAre DEF CurrentManager
  <2>3. HomeInv'
    BY <1>0, <2>1, <2>2, ClientsAre DEF BackendsInv, HomeInv
  <2>4. ActiveInv'
    BY <1>0, <2>1, <2>2, ClientsAre DEF BackendsInv, ActiveInv
  <2>5. HandInv'
    BY <1>0, <2>1, <2>2, ClientsAre DEF BackendsInv, HandInv
  <2>6. UnregisteredInv'
    BY <1>0, <2>1, <2>2, ClientsAre DEF BackendsInv, UnregisteredInv
  <2>7. QED
    BY <2>3, <2>4, <2>5, <2>6 DEF BackendsInv
<1>27. ASSUME BeginDestruction PROVE BackendsInv'
  <2>1. /\ \A u \in Clients : at[u] = "idle"
        /\ UNCHANGED <<Instance, Backends, Active, place, running, Registered, ShutdownFlag,
              FlushTime, held>>
        /\ \A u \in Clients : at'[u] = IF u = Owner THEN "channels" ELSE at[u]
    BY <1>0, <1>27, BeginDestructionDoes
  <2>2. CurrentManager' = CurrentManager
    BY <2>1, ClientsAre DEF CurrentManager
  <2>3. HomeInv'
    BY <1>0, <2>1, <2>2, ClientsAre DEF BackendsInv, HomeInv
  <2>4. ActiveInv'
    BY <1>0, <2>1, <2>2, ClientsAre DEF BackendsInv, ActiveInv
  <2>5. HandInv'
    BY <1>0, <2>1, <2>2, ClientsAre DEF BackendsInv, HandInv
  <2>6. UnregisteredInv'
    BY <1>0, <2>1, <2>2, ClientsAre DEF BackendsInv, UnregisteredInv
  <2>7. QED
    BY <2>3, <2>4, <2>5, <2>6 DEF BackendsInv
<1>28. ASSUME DestroyFactory PROVE BackendsInv'
  <2>1. /\ at[Owner] = "channels"
        /\ \A c \in FileBackends : at[c] = "idle" /\ ShutdownFlag[c]
        /\ UNCHANGED <<Backends, Active, place, running, Registered, ShutdownFlag, FlushTime>>
        /\ Instance' = 0
        /\ \A u \in Clients : at'[u] = IF u = Owner THEN IF Instance = 0 THEN "done" ELSE "join"
              ELSE at[u]
        /\ \A u \in Clients : held'[u] = IF u = Owner THEN Instance ELSE held[u]
    BY <1>0, <1>28, DestroyFactoryDoes
  <2>2. CurrentManager' = CurrentManager
    BY <1>0, <2>1, ClientsAre DEF CurrentManager
  <2>3. HomeInv'
    BY <1>0, <2>1, <2>2, ClientsAre DEF BackendsInv, HomeInv
  <2>4. ActiveInv'
    BY <1>0, <2>1, <2>2, ClientsAre DEF BackendsInv, ActiveInv
  <2>5. HandInv'
    BY <1>0, <2>1, <2>2, ClientsAre DEF BackendsInv, HandInv
  <2>6. UnregisteredInv'
    BY <1>0, <2>1, <2>2, ClientsAre DEF BackendsInv, UnregisteredInv
  <2>7. QED
    BY <2>3, <2>4, <2>5, <2>6 DEF BackendsInv
<1>29. ASSUME Tick PROVE BackendsInv'
  <2>1. /\ UNCHANGED <<Instance, Backends, Active, place, running, Registered, ShutdownFlag, at,
             held>>
        /\ \A c \in FileBackends : FlushTime'[c] = Nearer(FlushTime[c])
    BY <1>0, <1>29, TickDoes
  <2>2. CurrentManager' = CurrentManager
    BY <2>1, ClientsAre DEF CurrentManager
  <2>3. HomeInv'
    BY <1>0, <2>1, <2>2, ClientsAre DEF BackendsInv, HomeInv
  <2>4. ActiveInv'
    BY <1>0, <2>1, <2>2, ClientsAre DEF BackendsInv, ActiveInv
  <2>5. HandInv'
    BY <1>0, <2>1, <2>2, ClientsAre DEF BackendsInv, HandInv
  <2>6. UnregisteredInv'
    BY <1>0, <2>1, NearerIs DEF BackendsInv, UnregisteredInv
  <2>7. QED
    BY <2>3, <2>4, <2>5, <2>6 DEF BackendsInv
<1>30. ASSUME UNCHANGED <<Instance, Backends, Active, place, running, Registered, ShutdownFlag,
         FlushTime, at, held>> PROVE BackendsInv'
  BY <1>0, <1>30 DEF BackendsInv, HomeInv, ActiveInv, HandInv, UnregisteredInv, CurrentManager
<1>31. CASE UNCHANGED managersVars
  BY <1>30, <1>31 DEF managersVars, factory, lists, signals, managers, flags, data, threads,
     recorded
<1>32. QED
  BY Steps, <1>1, <1>2, <1>3, <1>4, <1>5, <1>6, <1>7, <1>8, <1>9, <1>10, <1>11, <1>12, <1>13,
     <1>14, <1>15, <1>16, <1>17, <1>18, <1>19, <1>20, <1>21, <1>22, <1>23, <1>24, <1>25, <1>26,
     <1>27, <1>28, <1>29, <1>31

(* Every step keeps what is known of a manager that stops. *)
LEMMA StopKept ==
  ASSUME ManagersInv, [ManagersNext]_managersVars
  PROVE  StopInv'
<1>0. TypesOK /\ ClientsInv /\ PlacesInv /\ BackendsInv /\ StopInv
  BY DEF ManagersInv
<1>1. ASSUME NEW b \in FileBackends, Display(b) PROVE StopInv'
  <2>1. /\ at[b] = "idle"
        /\ ~ ShutdownFlag[b]
        /\ at[Owner] = "idle"
        /\ UNCHANGED <<Instance, Backends, StopRequested, Registered, ShutdownFlag, late>>
        /\ \A u \in Clients : at'[u] = IF u = b THEN IF Registered[b] THEN "append" ELSE "add"
              ELSE at[u]
    BY <1>0, <1>1, DisplayDoes
  <2>2. at'[Owner] = at[Owner]
    BY <2>1, ClientsAre
  <2>3. FrozenInv'
    BY <1>0, <2>1, <2>2, ClientsAre DEF StopInv, FrozenInv, LateInv, Adding
  <2>4. LateInv'
    BY <1>0, <2>1, <2>2, ClientsAre DEF StopInv, FrozenInv, LateInv, Adding
  <2>5. QED
    BY <2>3, <2>4 DEF StopInv
<1>2. ASSUME NEW b \in FileBackends, AddTakesStopping(b) PROVE StopInv'
  <2>1. /\ at[b] = "add"
        /\ UNCHANGED <<Backends, StopRequested, Registered, ShutdownFlag, late>>
        /\ Instance' = IF Instance # 0 /\ StopRequested[Instance] THEN 0 ELSE Instance
        /\ \A u \in Clients : at'[u] = IF u = b THEN IF Instance # 0 /\ StopRequested[Instance]
              THEN "stop" ELSE "provide" ELSE at[u]
    BY <1>0, <1>2, AddTakesStoppingDoes
  <2>2. at[Owner] = "idle"
    BY <1>0, <2>1, ClientsAre DEF ClientsInv, OwnerInv, Adding
  <2>3. late = {}
    BY <1>0, <2>1, <2>2 DEF StopInv, LateInv, Adding
  <2>4. FrozenInv'
    BY <1>0, <2>1, <2>2, <2>3, ClientsAre DEF StopInv, FrozenInv, LateInv, Adding
  <2>5. LateInv'
    BY <1>0, <2>1, <2>2, <2>3, ClientsAre DEF StopInv, FrozenInv, LateInv, Adding
  <2>6. QED
    BY <2>4, <2>5 DEF StopInv
<1>3. ASSUME NEW b \in FileBackends, SetStopping(b) PROVE StopInv'
  <2>1. /\ at[b] = "stop"
        /\ held[b] \in Managers
        /\ UNCHANGED <<Instance, Backends, Registered, ShutdownFlag, late>>
        /\ \A n \in Managers : StopRequested'[n] = IF n = held[b] THEN TRUE
              ELSE StopRequested[n]
        /\ \A u \in Clients : at'[u] = IF u = b THEN "join" ELSE at[u]
    BY <1>0, <1>3, SetStoppingDoes
  <2>2. at[Owner] = "idle"
    BY <1>0, <2>1, ClientsAre DEF ClientsInv, OwnerInv, Adding
  <2>3. late = {}
    BY <1>0, <2>1, <2>2 DEF StopInv, LateInv, Adding
  <2>4. held[b] # Instance /\ StopRequested[held[b]]
    BY <1>0, <2>1, ClientsAre DEF PlacesInv, CreatedInv, DestroyInv, StoppingInv
  <2>5. FrozenInv'
    BY <1>0, <2>1, <2>2, <2>3, <2>4, ClientsAre DEF StopInv, FrozenInv, LateInv, Adding
  <2>6. LateInv'
    BY <1>0, <2>1, <2>2, <2>3, <2>4, ClientsAre DEF StopInv, FrozenInv, LateInv, Adding
  <2>7. QED
    BY <2>5, <2>6 DEF StopInv
<1>4. ASSUME NEW t \in Clients, WaitForStop(t) PROVE StopInv'
  <2>1. /\ at[t] = "join"
        /\ held[t] \in Managers
        /\ place[held[t]] = "exited"
        /\ UNCHANGED <<Instance, Backends, StopRequested, Registered, ShutdownFlag, late>>
        /\ \A u \in Clients : at'[u] = IF u = t THEN IF LastReference(t, held[t]) THEN "drain"
              ELSE IF t = Owner THEN "done" ELSE "provide" ELSE at[u]
    BY <1>0, <1>4, WaitForStopDoes
  <2>2. t = Owner => at'[Owner] # "idle"
    BY <1>0, <2>1
  <2>3. t # Owner => late = {} \/ at[Owner] # "idle"
    BY <1>0, <2>1, ClientsAre DEF ClientsInv, LabelsInv, StopInv, LateInv, Adding
  <2>4. t # Owner => at'[Owner] = at[Owner]
    BY <2>1, ClientsAre
  <2>5. FrozenInv'
    BY <1>0, <2>1, <2>2, <2>3, <2>4, ClientsAre DEF StopInv, FrozenInv, LateInv, Adding
  <2>6. LateInv'
    BY <1>0, <2>1, <2>2, <2>3, <2>4, ClientsAre DEF StopInv, FrozenInv, LateInv, Adding
  <2>7. QED
    BY <2>5, <2>6 DEF StopInv
<1>5. ASSUME NEW t \in Clients, Leaves(t) PROVE StopInv'
  <2>1. /\ at[t] \in {"drain", "drop"}
        /\ held[t] \in Managers
        /\ place[held[t]] = "gone"
        /\ UNCHANGED <<Instance, Backends, StopRequested, Registered, ShutdownFlag, late>>
        /\ \A u \in Clients : at'[u] = IF u = t THEN IF at[t] = "drop" THEN After(t)
              ELSE IF t = Owner THEN "done" ELSE "provide" ELSE at[u]
    BY <1>0, <1>5, LeavesDoes
  <2>2. t = Owner => at'[Owner] # "idle"
    BY <1>0, <2>1 DEF ClientsInv, LabelsInv
  <2>3. t # Owner => at'[Owner] = at[Owner]
    BY <2>1, ClientsAre
  <2>4. t \in FileBackends /\ at[t] = "drain" => late = {} \/ at[Owner] # "idle"
    BY <1>0, <2>1 DEF StopInv, LateInv, Adding
  <2>5. \A c \in FileBackends : at'[c] \in Adding => at[c] \in Adding
    BY <2>1, ClientsAre DEF Adding, After
  <2>6. \A c \in FileBackends : at[c] = "register" => at'[c] = "register"
    BY <2>1, ClientsAre DEF After
  <2>7. FrozenInv'
    BY <1>0, <2>1, <2>2, <2>3, <2>4, <2>5, <2>6, ClientsAre
       DEF StopInv, FrozenInv, LateInv, Adding
  <2>8. LateInv'
    BY <1>0, <2>1, <2>2, <2>3, <2>4, <2>5, <2>6, ClientsAre
       DEF StopInv, FrozenInv, LateInv, Adding
  <2>9. QED
    BY <2>7, <2>8 DEF StopInv
<1>6. ASSUME NEW b \in FileBackends, Provide(b) PROVE StopInv'
  <2>1. /\ at[b] = "provide"
        /\ Instance' \in Managers
        /\ UNCHANGED <<StopRequested, Registered, ShutdownFlag>>
        /\ Instance' = IF Instance = 0 THEN created + 1 ELSE Instance
        /\ \A n \in Managers : Backends'[n] = IF n = Instance' THEN Backends[n] \cup {b}
              ELSE Backends[n]
        /\ \A u \in Clients : at'[u] = IF u = b THEN "register" ELSE at[u]
        /\ late' = IF StopRequested[Instance'] THEN late \cup {b} ELSE late
    BY <1>0, <1>6, ProvideDoes
  <2>2. at[Owner] = "idle"
    BY <1>0, <2>1, ClientsAre DEF ClientsInv, OwnerInv, Adding
  <2>3. late = {}
    BY <1>0, <2>1, <2>2 DEF StopInv, LateInv, Adding
  <2>4. IF StopRequested[Instance'] THEN Instance' = Instance /\ Instance # 0 /\ late' = {b}
          ELSE late' = {}
    BY <1>0, <2>1, <2>3 DEF TypesOK, PlacesInv, CreatedInv
  <2>5. \A n \in Managers : StopRequested[n] => Backends[n] = {}
    BY <1>0, <2>2, <2>3 DEF StopInv, FrozenInv
  <2>6. FrozenInv'
    BY <1>0, <2>1, <2>2, <2>3, <2>4, <2>5, ClientsAre DEF StopInv, FrozenInv, LateInv, Adding
  <2>7. LateInv'
    <3>1. CASE ~ StopRequested[Instance']
      BY <2>4, <3>1 DEF LateInv
    <3>2. CASE StopRequested[Instance']
      <4>1. PICK x \in FileBackends : ShutdownFlag[x] /\ ~ Registered[x]
        BY <1>0, <2>1, <2>2, <3>2 DEF StopInv, FrozenInv
      <4>2. x # b /\ at[x] \notin Adding
        BY <1>0, <2>1, <4>1 DEF ClientsInv, AddingInv, Adding
      <4>3. \A c \in FileBackends : c \in {x, b}
        BY <4>2, TwoBackends
      <4>4. at'[x] \notin Adding /\ at'[b] = "register" /\ ShutdownFlag'[x]
        BY <2>1, <4>1, <4>2, ClientsAre
      <4>5. StopRequested'[Instance'] /\ Instance' # 0
        BY <2>1, <2>4, <3>2
      <4>6. QED
        BY <4>3, <4>4, <4>5 DEF LateInv, Adding
    <3>3. QED
      BY <3>1, <3>2
  <2>8. QED
    BY <2>6, <2>7 DEF StopInv
<1>7. ASSUME NEW b \in FileBackends, SetRegistered(b) PROVE StopInv'
  <2>1. /\ at[b] = "register"
        /\ UNCHANGED <<Instance, Backends, StopRequested, ShutdownFlag, late>>
        /\ \A c \in FileBackends : Registered'[c] = IF c = b THEN TRUE ELSE Registered[c]
        /\ \A u \in Clients : at'[u] = IF u = b THEN "append" ELSE at[u]
    BY <1>0, <1>7, SetRegisteredDoes
  <2>2. at'[Owner] = at[Owner]
    BY <2>1, ClientsAre
  <2>3. ~ ShutdownFlag[b]
    BY <1>0, <2>1 DEF ClientsInv, AddingInv
  <2>4. \A c \in FileBackends : ShutdownFlag[c] /\ ~ Registered[c] =>
          ShutdownFlag'[c] /\ ~ Registered'[c]
    BY <2>1, <2>3
  <2>5. FrozenInv'
    BY <1>0, <2>1, <2>2, <2>3, <2>4, ClientsAre DEF StopInv, FrozenInv, LateInv, Adding
  <2>6. LateInv'
    BY <1>0, <2>1, <2>2, <2>3, <2>4, ClientsAre DEF StopInv, FrozenInv, LateInv, Adding
  <2>7. QED
    BY <2>5, <2>6 DEF StopInv
<1>8. ASSUME NEW b \in FileBackends, AppendOutputData(b) PROVE StopInv'
  <2>1. /\ at[b] = "append"
        /\ UNCHANGED <<Instance, Backends, StopRequested, Registered, ShutdownFlag, late>>
        /\ \A u \in Clients : at'[u] = IF u = b THEN IF Urgent(b) \/ Deferred(b) THEN "notify"
              ELSE "idle" ELSE at[u]
    BY <1>0, <1>8, AppendOutputDataDoes
  <2>2. at'[Owner] = at[Owner]
    BY <2>1, ClientsAre
  <2>3. FrozenInv'
    BY <1>0, <2>1, <2>2, ClientsAre DEF StopInv, FrozenInv, LateInv, Adding
  <2>4. LateInv'
    BY <1>0, <2>1, <2>2, ClientsAre DEF StopInv, FrozenInv, LateInv, Adding
  <2>5. QED
    BY <2>3, <2>4 DEF StopInv
<1>9. ASSUME NEW b \in FileBackends, Freeze(b) PROVE StopInv'
  <2>1. /\ at[b] = "idle"
        /\ ~ ShutdownFlag[b]
        /\ UNCHANGED <<Instance, Backends, StopRequested, Registered, late>>
        /\ \A c \in FileBackends : ShutdownFlag'[c] = IF c = b THEN TRUE ELSE ShutdownFlag[c]
        /\ \A u \in Clients : at'[u] = IF u = b THEN IF Asks(b) THEN "notify" ELSE "idle"
              ELSE at[u]
    BY <1>0, <1>9, FreezeDoes
  <2>2. at'[Owner] = at[Owner]
    BY <2>1, ClientsAre
  <2>3. \A c \in FileBackends : ShutdownFlag[c] /\ ~ Registered[c] =>
          ShutdownFlag'[c] /\ ~ Registered'[c]
    BY <2>1
  <2>4. FrozenInv'
    BY <1>0, <2>1, <2>2, <2>3, ClientsAre DEF StopInv, FrozenInv, LateInv, Adding
  <2>5. LateInv'
    BY <1>0, <2>1, <2>2, <2>3, ClientsAre DEF StopInv, FrozenInv, LateInv, Adding
  <2>6. QED
    BY <2>4, <2>5 DEF StopInv
<1>10. ASSUME NEW b \in FileBackends, Flush(b) PROVE StopInv'
  <2>1. /\ at[Flusher] = "idle"
        /\ Registered[b] \/ ShutdownFlag[b]
        /\ at[Owner] = "idle"
        /\ UNCHANGED <<Instance, Backends, StopRequested, Registered, ShutdownFlag, late>>
        /\ \A u \in Clients : at'[u] = IF u = Flusher THEN "publish" ELSE at[u]
    BY <1>0, <1>10, FlushDoes
  <2>2. at'[Owner] = at[Owner]
    BY <2>1, ClientsAre
  <2>3. FrozenInv'
    BY <1>0, <2>1, <2>2, ClientsAre DEF StopInv, FrozenInv, LateInv, Adding
  <2>4. LateInv'
    BY <1>0, <2>1, <2>2, ClientsAre DEF StopInv, FrozenInv, LateInv, Adding
  <2>5. QED
    BY <2>3, <2>4 DEF StopInv
<1>11. ASSUME Publishes PROVE StopInv'
  <2>1. /\ at[Flusher] \in {"publish", "enqueue"}
        /\ flushed \in FileBackends
        /\ UNCHANGED <<Instance, Backends, StopRequested, Registered, ShutdownFlag, late>>
        /\ at'[Flusher] \in {"publish", "enqueue"}
        /\ \A u \in Clients : u # Flusher => at'[u] = at[u]
    BY <1>0, <1>11, PublishesDoes
  <2>2. at'[Owner] = at[Owner]
    BY <2>1, ClientsAre
  <2>3. FrozenInv'
    BY <1>0, <2>1, <2>2, ClientsAre DEF StopInv, FrozenInv, LateInv, Adding
  <2>4. LateInv'
    BY <1>0, <2>1, <2>2, ClientsAre DEF StopInv, FrozenInv, LateInv, Adding
  <2>5. QED
    BY <2>3, <2>4 DEF StopInv
<1>12. ASSUME AllPublished PROVE StopInv'
  <2>1. /\ at[Flusher] = "publish"
        /\ flushed \in FileBackends
        /\ UNCHANGED <<Instance, Backends, StopRequested, Registered, ShutdownFlag, late>>
        /\ \A u \in Clients : at'[u] = IF u = Flusher THEN IF Asks(flushed) THEN "notify"
              ELSE "flushing" ELSE at[u]
    BY <1>0, <1>12, AllPublishedDoes
  <2>2. at'[Owner] = at[Owner]
    BY <2>1, ClientsAre
  <2>3. FrozenInv'
    BY <1>0, <2>1, <2>2, ClientsAre DEF StopInv, FrozenInv, LateInv, Adding
  <2>4. LateInv'
    BY <1>0, <2>1, <2>2, ClientsAre DEF StopInv, FrozenInv, LateInv, Adding
  <2>5. QED
    BY <2>3, <2>4 DEF StopInv
<1>13. ASSUME FlushDone PROVE StopInv'
  <2>1. /\ at[Flusher] = "flushing"
        /\ UNCHANGED <<Instance, Backends, StopRequested, Registered, ShutdownFlag, late>>
        /\ \A u \in Clients : at'[u] = IF u = Flusher THEN "idle" ELSE at[u]
    BY <1>0, <1>13, FlushDoneDoes
  <2>2. at'[Owner] = at[Owner]
    BY <2>1, ClientsAre
  <2>3. FrozenInv'
    BY <1>0, <2>1, <2>2, ClientsAre DEF StopInv, FrozenInv, LateInv, Adding
  <2>4. LateInv'
    BY <1>0, <2>1, <2>2, ClientsAre DEF StopInv, FrozenInv, LateInv, Adding
  <2>5. QED
    BY <2>3, <2>4 DEF StopInv
<1>14. ASSUME NEW t \in Clients, NotifyFactory(t) PROVE StopInv'
  <2>1. /\ at[t] = "notify"
        /\ UNCHANGED <<Instance, Backends, StopRequested, Registered, ShutdownFlag, late>>
        /\ \A u \in Clients : at'[u] = IF u = t THEN IF Instance = 0 THEN After(t)
              ELSE "announce" ELSE at[u]
    BY <1>0, <1>14, NotifyFactoryDoes
  <2>2. t # Owner /\ at'[Owner] = at[Owner]
    BY <1>0, <2>1, ClientsAre DEF ClientsInv, LabelsInv
  <2>3. \A c \in FileBackends : at'[c] \in Adding => at[c] \in Adding
    BY <2>1, ClientsAre DEF Adding, After
  <2>4. \A c \in FileBackends : at[c] = "register" => at'[c] = "register"
    BY <2>1, ClientsAre DEF After
  <2>5. FrozenInv'
    BY <1>0, <2>1, <2>2, <2>3, <2>4, ClientsAre DEF StopInv, FrozenInv, LateInv, Adding
  <2>6. LateInv'
    BY <1>0, <2>1, <2>2, <2>3, <2>4, ClientsAre DEF StopInv, FrozenInv, LateInv, Adding
  <2>7. QED
    BY <2>5, <2>6 DEF StopInv
<1>15. ASSUME NEW t \in Clients, NotifyManager(t) PROVE StopInv'
  <2>1. /\ at[t] = "announce"
        /\ held[t] \in Managers
        /\ when[t] \in Times
        /\ BackendOf(t) \in FileBackends
        /\ UNCHANGED <<Instance, Backends, StopRequested, Registered, ShutdownFlag, late>>
        /\ \A u \in Clients : at'[u] = IF u = t THEN IF LastReference(t, held[t]) THEN "drop"
              ELSE After(t) ELSE at[u]
    BY <1>0, <1>15, NotifyManagerDoes
  <2>2. t # Owner /\ at'[Owner] = at[Owner]
    BY <1>0, <2>1, ClientsAre DEF ClientsInv, LabelsInv
  <2>3. \A c \in FileBackends : at'[c] \in Adding => at[c] \in Adding
    BY <2>1, ClientsAre DEF Adding, After
  <2>4. \A c \in FileBackends : at[c] = "register" => at'[c] = "register"
    BY <2>1, ClientsAre DEF After
  <2>5. FrozenInv'
    BY <1>0, <2>1, <2>2, <2>3, <2>4, ClientsAre DEF StopInv, FrozenInv, LateInv, Adding
  <2>6. LateInv'
    BY <1>0, <2>1, <2>2, <2>3, <2>4, ClientsAre DEF StopInv, FrozenInv, LateInv, Adding
  <2>7. QED
    BY <2>5, <2>6 DEF StopInv
<1>16. ASSUME NEW m \in Managers, RemoveBackendLocked(m) PROVE StopInv'
  <2>1. /\ place[m] = "remove"
        /\ running[m] \in FileBackends
        /\ UNCHANGED <<Instance, ShutdownFlag, at, late>>
        /\ \A n \in Managers : Backends'[n] = IF n = m THEN Backends[m] \ {running[m]}
              ELSE Backends[n]
        /\ \A n \in Managers : StopRequested'[n] = IF n = m
              THEN StopRequested[m] \/ Backends[m] \subseteq {running[m]} ELSE StopRequested[n]
        /\ \A c \in FileBackends : Registered'[c] = IF c = running[m] THEN FALSE
              ELSE Registered[c]
    BY <1>0, <1>16, RemoveBackendLockedDoes
  <2>2. ShutdownFlag[running[m]] /\ ~ Registered'[running[m]]
    BY <1>0, <2>1, ClientsAre DEF BackendsInv, HandInv
  <2>3. \A c \in FileBackends : ShutdownFlag[c] /\ ~ Registered[c] =>
          ShutdownFlag'[c] /\ ~ Registered'[c]
    BY <2>1
  <2>4. FrozenInv'
    BY <1>0, <2>1, <2>2, <2>3, ClientsAre DEF StopInv, FrozenInv, LateInv, Adding
  <2>5. LateInv'
    <3>1. Instance # 0 /\ StopRequested[Instance] => StopRequested'[Instance]
      BY <1>0, <2>1, InstanceIs
    <3>2. \A c \in FileBackends : Registered[c] => Registered'[c] \/ ShutdownFlag'[c]
      BY <2>1, <2>2
    <3>3. UNCHANGED <<Instance, at, late, ShutdownFlag>>
      BY <2>1
    <3>4. QED
      BY <1>0, <3>1, <3>2, <3>3 DEF StopInv, LateInv
  <2>6. QED
    BY <2>4, <2>5 DEF StopInv
<1>17. ASSUME NEW m \in Managers, Unregister(m) PROVE StopInv'
  <2>1. /\ place[m] = "destroy"
        /\ running[m] = NoBackend
        /\ running'[m] \in Backends[m]
        /\ UNCHANGED <<Instance, Backends, StopRequested, ShutdownFlag, at, late>>
        /\ \A c \in FileBackends : Registered'[c] = IF c = running'[m] THEN FALSE
              ELSE Registered[c]
    BY <1>0, <1>17, UnregisterDoes
  <2>2. at[Owner] # "idle"
    BY <1>0, <2>1 DEF CurrentManager, PlacesInv, DestroyInv, BackendsInv, HomeInv
  <2>3. FrozenInv'
    BY <1>0, <2>1, <2>2, ClientsAre DEF StopInv, FrozenInv, LateInv, Adding
  <2>4. LateInv'
    BY <1>0, <2>1, <2>2, ClientsAre DEF StopInv, FrozenInv, LateInv, Adding
  <2>5. QED
    BY <2>3, <2>4 DEF StopInv
<1>18. ASSUME NEW m \in Managers, DrainUnregistered(m) PROVE StopInv'
  <2>1. /\ place[m] = "destroy"
        /\ running[m] \in FileBackends
        /\ UNCHANGED <<Instance, StopRequested, Registered, ShutdownFlag, at, late>>
        /\ \A n \in Managers : Backends'[n] = IF n = m THEN Backends[m] \ {running[m]}
              ELSE Backends[n]
    BY <1>0, <1>18, DrainUnregisteredDoes
  <2>2. FrozenInv'
    BY <1>0, <2>1, ClientsAre DEF StopInv, FrozenInv, LateInv, Adding
  <2>3. LateInv'
    BY <1>0, <2>1, ClientsAre DEF StopInv, FrozenInv, LateInv, Adding
  <2>4. QED
    BY <2>2, <2>3 DEF StopInv
<1>19. ASSUME BeginDestruction PROVE StopInv'
  <2>1. /\ \A u \in Clients : at[u] = "idle"
        /\ UNCHANGED <<Instance, Backends, Registered, ShutdownFlag, late>>
        /\ \A n \in Managers : StopRequested'[n] <=> StopRequested[n] \/ n = Instance
        /\ \A u \in Clients : at'[u] = IF u = Owner THEN "channels" ELSE at[u]
    BY <1>0, <1>19, BeginDestructionDoes
  <2>2. FrozenInv'
    BY <1>0, <2>1, ClientsAre DEF StopInv, FrozenInv, LateInv, Adding
  <2>3. LateInv'
    BY <1>0, <2>1, ClientsAre DEF StopInv, FrozenInv, LateInv, Adding
  <2>4. QED
    BY <2>2, <2>3 DEF StopInv
<1>20. ASSUME DestroyFactory PROVE StopInv'
  <2>1. /\ at[Owner] = "channels"
        /\ \A c \in FileBackends : at[c] = "idle" /\ ShutdownFlag[c]
        /\ UNCHANGED <<Backends, StopRequested, Registered, ShutdownFlag, late>>
        /\ Instance' = 0
        /\ \A u \in Clients : at'[u] = IF u = Owner THEN IF Instance = 0 THEN "done" ELSE "join"
              ELSE at[u]
    BY <1>0, <1>20, DestroyFactoryDoes
  <2>2. FrozenInv'
    BY <1>0, <2>1, ClientsAre DEF StopInv, FrozenInv, LateInv, Adding
  <2>3. LateInv'
    BY <1>0, <2>1, ClientsAre DEF StopInv, FrozenInv, LateInv, Adding
  <2>4. QED
    BY <2>2, <2>3 DEF StopInv
<1>21. ASSUME UNCHANGED <<Instance, Backends, StopRequested, Registered, ShutdownFlag, at,
         late>> PROVE StopInv'
  BY <1>0, <1>21 DEF StopInv, FrozenInv, LateInv
<1>22. ASSUME NEW m \in Managers, Exit(m) PROVE StopInv'
  BY <1>0, <1>21, <1>22, ExitDoes
<1>23. ASSUME NEW m \in Managers, WaitForWork(m) PROVE StopInv'
  BY <1>0, <1>21, <1>23, WaitForWorkDoes
<1>24. ASSUME NEW m \in Managers, WakeUp(m) PROVE StopInv'
  BY <1>0, <1>21, <1>24, WakeUpDoes
<1>25. ASSUME NEW m \in Managers, TakeHead(m) PROVE StopInv'
  BY <1>0, <1>21, <1>25, TakeHeadDoes
<1>26. ASSUME NEW m \in Managers, WorkerFunc(m) PROVE StopInv'
  BY <1>0, <1>21, <1>26, WorkerFuncDoes
<1>27. ASSUME NEW m \in Managers, Reactivate(m) PROVE StopInv'
  BY <1>0, <1>21, <1>27, ReactivateDoes
<1>28. ASSUME NEW m \in Managers, OnShutdown(m) PROVE StopInv'
  BY <1>0, <1>21, <1>28, OnShutdownDoes
<1>29. ASSUME NEW m \in Managers, Destroy(m) PROVE StopInv'
  BY <1>0, <1>21, <1>29, DestroyDoes
<1>30. ASSUME Tick PROVE StopInv'
  BY <1>0, <1>21, <1>30, TickDoes
<1>31. CASE UNCHANGED managersVars
  BY <1>21, <1>31 DEF managersVars, factory, lists, signals, managers, flags, data, threads,
     recorded
<1>32. QED
  BY Steps, <1>1, <1>2, <1>3, <1>4, <1>5, <1>6, <1>7, <1>8, <1>9, <1>10, <1>11, <1>12, <1>13,
     <1>14, <1>15, <1>16, <1>17, <1>18, <1>19, <1>20, <1>22, <1>23, <1>24, <1>25, <1>26, <1>27,
     <1>28, <1>29, <1>30, <1>31

(* Every step keeps the records that Flusher has taken in his hands. *)
LEMMA TakenKept ==
  ASSUME ManagersInv, [ManagersNext]_managersVars
  PROVE  TakenInv'
<1>0. TypesOK /\ ClientsInv /\ PlacesInv /\ TakenInv
  BY DEF ManagersInv
<1>1. ASSUME taken' = taken, at[Flusher] = "enqueue" => at'[Flusher] = "enqueue" PROVE TakenInv'
  BY <1>0, <1>1 DEF TakenInv
<1>2. ASSUME NEW b \in FileBackends, Display(b) PROVE TakenInv'
  BY <1>0, <1>1, <1>2, ClientsAre, DisplayDoes
<1>3. ASSUME NEW b \in FileBackends, AddTakesStopping(b) PROVE TakenInv'
  BY <1>0, <1>1, <1>3, ClientsAre, AddTakesStoppingDoes
<1>4. ASSUME NEW b \in FileBackends, SetStopping(b) PROVE TakenInv'
  BY <1>0, <1>1, <1>4, ClientsAre, SetStoppingDoes
<1>5. ASSUME NEW b \in FileBackends, Provide(b) PROVE TakenInv'
  BY <1>0, <1>1, <1>5, ClientsAre, ProvideDoes
<1>6. ASSUME NEW b \in FileBackends, SetRegistered(b) PROVE TakenInv'
  BY <1>0, <1>1, <1>6, ClientsAre, SetRegisteredDoes
<1>7. ASSUME NEW b \in FileBackends, AppendOutputData(b) PROVE TakenInv'
  BY <1>0, <1>1, <1>7, ClientsAre, AppendOutputDataDoes
<1>8. ASSUME NEW b \in FileBackends, Freeze(b) PROVE TakenInv'
  BY <1>0, <1>1, <1>8, ClientsAre, FreezeDoes
<1>9. ASSUME NEW b \in FileBackends, Flush(b) PROVE TakenInv'
  BY <1>0, <1>1, <1>9, ClientsAre, FlushDoes
<1>10. ASSUME NEW t \in Clients, WaitForStop(t) PROVE TakenInv'
  BY <1>0, <1>1, <1>10, ClientsAre, WaitForStopDoes
<1>11. ASSUME NEW t \in Clients, Leaves(t) PROVE TakenInv'
  BY <1>0, <1>1, <1>11, ClientsAre, LeavesDoes
<1>12. ASSUME NEW t \in Clients, NotifyFactory(t) PROVE TakenInv'
  BY <1>0, <1>1, <1>12, ClientsAre, NotifyFactoryDoes
<1>13. ASSUME NEW t \in Clients, NotifyManager(t) PROVE TakenInv'
  BY <1>0, <1>1, <1>13, ClientsAre, NotifyManagerDoes
<1>14. ASSUME NEW m \in Managers, Exit(m) PROVE TakenInv'
  BY <1>0, <1>1, <1>14, ClientsAre, ExitDoes
<1>15. ASSUME NEW m \in Managers, WaitForWork(m) PROVE TakenInv'
  BY <1>0, <1>1, <1>15, ClientsAre, WaitForWorkDoes
<1>16. ASSUME NEW m \in Managers, WakeUp(m) PROVE TakenInv'
  BY <1>0, <1>1, <1>16, ClientsAre, WakeUpDoes
<1>17. ASSUME NEW m \in Managers, TakeHead(m) PROVE TakenInv'
  BY <1>0, <1>1, <1>17, ClientsAre, TakeHeadDoes
<1>18. ASSUME NEW m \in Managers, WorkerFunc(m) PROVE TakenInv'
  BY <1>0, <1>1, <1>18, ClientsAre, WorkerFuncDoes
<1>19. ASSUME NEW m \in Managers, Reactivate(m) PROVE TakenInv'
  BY <1>0, <1>1, <1>19, ClientsAre, ReactivateDoes
<1>20. ASSUME NEW m \in Managers, RemoveBackendLocked(m) PROVE TakenInv'
  BY <1>0, <1>1, <1>20, ClientsAre, RemoveBackendLockedDoes
<1>21. ASSUME NEW m \in Managers, OnShutdown(m) PROVE TakenInv'
  BY <1>0, <1>1, <1>21, ClientsAre, OnShutdownDoes
<1>22. ASSUME NEW m \in Managers, Unregister(m) PROVE TakenInv'
  BY <1>0, <1>1, <1>22, ClientsAre, UnregisterDoes
<1>23. ASSUME NEW m \in Managers, DrainUnregistered(m) PROVE TakenInv'
  BY <1>0, <1>1, <1>23, ClientsAre, DrainUnregisteredDoes
<1>24. ASSUME NEW m \in Managers, Destroy(m) PROVE TakenInv'
  BY <1>0, <1>1, <1>24, ClientsAre, DestroyDoes
<1>25. ASSUME AllPublished PROVE TakenInv'
  BY <1>0, <1>1, <1>25, ClientsAre, AllPublishedDoes
<1>26. ASSUME FlushDone PROVE TakenInv'
  BY <1>0, <1>1, <1>26, ClientsAre, FlushDoneDoes
<1>27. ASSUME BeginDestruction PROVE TakenInv'
  BY <1>0, <1>1, <1>27, ClientsAre, BeginDestructionDoes
<1>28. ASSUME DestroyFactory PROVE TakenInv'
  BY <1>0, <1>1, <1>28, ClientsAre, DestroyFactoryDoes
<1>29. ASSUME Tick PROVE TakenInv'
  BY <1>0, <1>1, <1>29, ClientsAre, TickDoes
<1>30. ASSUME Publishes PROVE TakenInv'
  <2>1. at'[Flusher] \in {"publish", "enqueue"} /\ (at'[Flusher] = "publish" => taken' = 0)
    BY <1>0, <1>30, PublishesDoes
  <2>2. taken' = 0 => ~ (taken' > 0)
    OBVIOUS
  <2>3. QED
    BY <2>1, <2>2 DEF TakenInv
<1>31. CASE UNCHANGED managersVars
  BY <1>1, <1>31 DEF managersVars, data, threads
<1>32. QED
  BY Steps, <1>2, <1>3, <1>4, <1>5, <1>6, <1>7, <1>8, <1>9, <1>10, <1>11, <1>12, <1>13, <1>14,
     <1>15, <1>16, <1>17, <1>18, <1>19, <1>20, <1>21, <1>22, <1>23, <1>24, <1>25, <1>26, <1>27,
     <1>28, <1>29, <1>30, <1>31

(* Every step keeps a manager for every record. *)
LEMMA QueuedKept ==
  ASSUME ManagersInv, [ManagersNext]_managersVars
  PROVE  QueuedInv'
<1>0. TypesOK /\ ClientsInv /\ PlacesInv /\ BackendsInv /\ QueuedInv
  BY DEF ManagersInv
<1>1. ASSUME NEW t \in Clients, WaitForStop(t) PROVE QueuedInv'
  <2>1. /\ at[t] = "join"
        /\ held[t] \in Managers
        /\ place[held[t]] = "exited"
        /\ UNCHANGED <<running, Registered, current, ready, flushed>>
        /\ \A n \in Managers : place'[n] = IF n = held[t] THEN IF LastReference(t, held[t])
              THEN "destroy" ELSE "exited" ELSE place[n]
    BY <1>0, <1>1, WaitForStopDoes
  <2>2. \A c \in FileBackends : Stored(c)' <=> Stored(c)
    BY <2>1 DEF Stored
  <2>3. QueuedInv'
    BY <1>0, <2>1, <2>2, ClientsAre DEF QueuedInv
  <2>4. QED
    BY <2>3
<1>2. ASSUME NEW b \in FileBackends, Provide(b) PROVE QueuedInv'
  <2>1. /\ at[b] = "provide"
        /\ Instance' \in Managers
        /\ UNCHANGED <<running, Registered, current, ready, flushed>>
        /\ \A n \in Managers : place'[n] = IF n = Instance' THEN IF place[n] = "none"
              THEN "loop" ELSE place[n] ELSE place[n]
    BY <1>0, <1>2, ProvideDoes
  <2>2. \A n \in Managers : place[n] \in {"shutdown", "destroy"} =>
          running'[n] = running[n] /\ place'[n] = place[n]
    BY <2>1
  <2>3. \A c \in FileBackends : Stored(c)' <=> Stored(c)
    BY <2>1 DEF Stored
  <2>4. QueuedInv'
    BY <1>0, <2>1, <2>2, <2>3, ClientsAre DEF QueuedInv
  <2>5. QED
    BY <2>4
<1>3. ASSUME NEW b \in FileBackends, SetRegistered(b) PROVE QueuedInv'
  <2>1. /\ at[b] = "register"
        /\ UNCHANGED <<place, running, current, ready, flushed>>
        /\ \A c \in FileBackends : Registered'[c] = IF c = b THEN TRUE ELSE Registered[c]
    BY <1>0, <1>3, SetRegisteredDoes
  <2>2. \A c \in FileBackends : Stored(c)' <=> Stored(c)
    BY <2>1 DEF Stored
  <2>3. QueuedInv'
    BY <1>0, <2>1, <2>2, ClientsAre DEF QueuedInv
  <2>4. QED
    BY <2>3
<1>4. ASSUME NEW b \in FileBackends, AppendOutputData(b) PROVE QueuedInv'
  <2>1. /\ at[b] = "append"
        /\ UNCHANGED <<place, running, Registered, ready, flushed>>
        /\ \A c \in FileBackends : current'[c] = IF c = b THEN current[b] + 1 ELSE current[c]
    BY <1>0, <1>4, AppendOutputDataDoes
  <2>2. Registered[b]
    BY <1>0, <2>1 DEF ClientsInv, AddingInv
  <2>3. \A c \in FileBackends : c # b => (Stored(c)' <=> Stored(c))
    BY <2>1 DEF Stored
  <2>4. QueuedInv'
    BY <1>0, <2>1, <2>2, <2>3, ClientsAre DEF QueuedInv
  <2>5. QED
    BY <2>4
<1>5. ASSUME NEW t \in Clients, NotifyManager(t) PROVE QueuedInv'
  <2>1. /\ at[t] = "announce"
        /\ held[t] \in Managers
        /\ when[t] \in Times
        /\ BackendOf(t) \in FileBackends
        /\ UNCHANGED <<running, Registered, current, ready, flushed>>
        /\ \A n \in Managers : place'[n] = IF n = held[t] THEN IF LastReference(t, held[t])
              THEN "destroy" ELSE place[n] ELSE place[n]
    BY <1>0, <1>5, NotifyManagerDoes
  <2>2. \A c \in FileBackends : Stored(c)' <=> Stored(c)
    BY <2>1 DEF Stored
  <2>3. QueuedInv'
    BY <1>0, <2>1, <2>2, ClientsAre DEF QueuedInv
  <2>4. QED
    BY <2>3
<1>6. ASSUME NEW m \in Managers, Exit(m) PROVE QueuedInv'
  <2>1. /\ place[m] = "loop"
        /\ StopRequested[m]
        /\ UNCHANGED <<running, Registered, current, ready, flushed>>
        /\ \A n \in Managers : place'[n] = IF n = m THEN "exited" ELSE place[n]
    BY <1>0, <1>6, ExitDoes
  <2>2. \A c \in FileBackends : Stored(c)' <=> Stored(c)
    BY <2>1 DEF Stored
  <2>3. QueuedInv'
    BY <1>0, <2>1, <2>2, ClientsAre DEF QueuedInv
  <2>4. QED
    BY <2>3
<1>7. ASSUME NEW m \in Managers, WaitForWork(m) PROVE QueuedInv'
  <2>1. /\ place[m] = "loop"
        /\ ~ StopRequested[m]
        /\ WithoutStale(Active[m]) # <<>> => FlushTime[Head(WithoutStale(Active[m]))] > Due
        /\ UNCHANGED <<running, Registered, current, ready, flushed>>
        /\ \A n \in Managers : place'[n] = IF n = m THEN "wait" ELSE place[n]
    BY <1>0, <1>7, WaitForWorkDoes
  <2>2. \A c \in FileBackends : Stored(c)' <=> Stored(c)
    BY <2>1 DEF Stored
  <2>3. QueuedInv'
    BY <1>0, <2>1, <2>2, ClientsAre DEF QueuedInv
  <2>4. QED
    BY <2>3
<1>8. ASSUME NEW m \in Managers, WakeUp(m) PROVE QueuedInv'
  <2>1. /\ place[m] = "wait"
        /\ UNCHANGED <<running, Registered, current, ready, flushed>>
        /\ \A n \in Managers : place'[n] = IF n = m THEN "loop" ELSE place[n]
    BY <1>0, <1>8, WakeUpDoes
  <2>2. \A c \in FileBackends : Stored(c)' <=> Stored(c)
    BY <2>1 DEF Stored
  <2>3. QueuedInv'
    BY <1>0, <2>1, <2>2, ClientsAre DEF QueuedInv
  <2>4. QED
    BY <2>3
<1>9. ASSUME NEW m \in Managers, TakeHead(m) PROVE QueuedInv'
  <2>1. /\ place[m] = "loop"
        /\ ~ StopRequested[m]
        /\ WithoutStale(Active[m]) # <<>>
        /\ UNCHANGED <<Registered, current, ready, flushed>>
        /\ \A n \in Managers : place'[n] = IF n = m
              THEN IF Head(WithoutStale(Active[m])) \in Backends[m] THEN "work" ELSE "loop"
              ELSE place[n]
        /\ \A n \in Managers : running'[n] = IF n = m
              THEN IF Head(WithoutStale(Active[m])) \in Backends[m]
              THEN Head(WithoutStale(Active[m])) ELSE running[m] ELSE running[n]
    BY <1>0, <1>9, TakeHeadDoes
  <2>2. \A n \in Managers : place[n] \in {"shutdown", "destroy"} =>
          n # m /\ running'[n] = running[n] /\ place'[n] = place[n]
    BY <2>1
  <2>3. \A c \in FileBackends : Stored(c)' <=> Stored(c)
    BY <2>1 DEF Stored
  <2>4. QueuedInv'
    BY <1>0, <2>1, <2>2, <2>3, ClientsAre DEF QueuedInv
  <2>5. QED
    BY <2>4
<1>10. ASSUME NEW m \in Managers, WorkerFunc(m) PROVE QueuedInv'
  <2>1. /\ place[m] = "work"
        /\ running[m] \in FileBackends
        /\ UNCHANGED <<running, Registered, flushed>>
        /\ \A n \in Managers : place'[n] = IF n = m THEN IF ShutdownFlag[running[m]]
              THEN "remove" ELSE "again" ELSE place[n]
        /\ \A c \in FileBackends : current'[c] \in {0, current[c]} /\ ready'[c] \in {0, ready[c]}
    BY <1>0, <1>10, WorkerFuncDoes
  <2>2. \A c \in FileBackends : current[c] \in Nat /\ ready[c] \in Nat
    BY <1>0 DEF TypesOK
  <2>3. \A c \in FileBackends : Stored(c)' => Stored(c)
    BY <2>1, <2>2 DEF Stored
  <2>4. QueuedInv'
    BY <1>0, <2>1, <2>2, <2>3, ClientsAre DEF QueuedInv
  <2>5. QED
    BY <2>4
<1>11. ASSUME NEW m \in Managers, Reactivate(m) PROVE QueuedInv'
  <2>1. /\ place[m] = "again"
        /\ running[m] \in FileBackends
        /\ UNCHANGED <<Registered, current, ready, flushed>>
        /\ \A n \in Managers : place'[n] = IF n = m THEN "loop" ELSE place[n]
        /\ \A n \in Managers : running'[n] = IF n = m THEN NoBackend ELSE running[n]
    BY <1>0, <1>11, ReactivateDoes
  <2>2. \A c \in FileBackends : Stored(c)' <=> Stored(c)
    BY <2>1 DEF Stored
  <2>3. QueuedInv'
    BY <1>0, <2>1, <2>2, ClientsAre DEF QueuedInv
  <2>4. QED
    BY <2>3
<1>12. ASSUME NEW m \in Managers, RemoveBackendLocked(m) PROVE QueuedInv'
  <2>1. /\ place[m] = "remove"
        /\ running[m] \in FileBackends
        /\ UNCHANGED <<running, current, ready, flushed>>
        /\ \A n \in Managers : place'[n] = IF n = m THEN "shutdown" ELSE place[n]
        /\ \A c \in FileBackends : Registered'[c] = IF c = running[m] THEN FALSE
              ELSE Registered[c]
    BY <1>0, <1>12, RemoveBackendLockedDoes
  <2>2. \A n \in Managers : place[n] \in {"shutdown", "destroy"} =>
          place'[n] = place[n] /\ running'[n] = running[n]
    BY <2>1
  <2>3. place'[m] = "shutdown" /\ running'[m] = running[m]
    BY <2>1
  <2>4. UNCHANGED flushed /\ \A c \in FileBackends :
          c # running[m] => Registered'[c] = Registered[c]
    BY <2>1
  <2>5. \A c \in FileBackends : Stored(c)' <=> Stored(c)
    BY <2>1 DEF Stored
  <2>6. QueuedInv'
    BY <1>0, <2>2, <2>3, <2>4, <2>5 DEF QueuedInv
  <2>7. QED
    BY <2>6
<1>13. ASSUME NEW m \in Managers, OnShutdown(m) PROVE QueuedInv'
  <2>1. /\ place[m] = "shutdown"
        /\ running[m] \in FileBackends
        /\ UNCHANGED <<Registered, flushed>>
        /\ \A n \in Managers : place'[n] = IF n = m THEN "loop" ELSE place[n]
        /\ \A n \in Managers : running'[n] = IF n = m THEN NoBackend ELSE running[n]
        /\ \A c \in FileBackends : current'[c] = IF c = running[m] THEN 0 ELSE current[c]
        /\ \A c \in FileBackends : ready'[c] = IF c = running[m] THEN 0 ELSE ready[c]
    BY <1>0, <1>13, OnShutdownDoes
  <2>2. running[m] \in FileBackends
    BY <2>1
  <2>3. \A c \in FileBackends : IF c = running[m] THEN ~ Stored(c)' ELSE (Stored(c)' <=> Stored(c))
    BY <2>1 DEF Stored
  <2>4. QueuedInv'
    BY <1>0, <2>1, <2>2, <2>3, ClientsAre DEF QueuedInv
  <2>5. QED
    BY <2>4
<1>14. ASSUME NEW m \in Managers, Unregister(m) PROVE QueuedInv'
  <2>1. /\ place[m] = "destroy"
        /\ running[m] = NoBackend
        /\ running'[m] \in Backends[m]
        /\ UNCHANGED <<place, current, ready, flushed>>
        /\ \A n \in Managers : running'[n] = IF n = m THEN running'[m] ELSE running[n]
        /\ \A c \in FileBackends : Registered'[c] = IF c = running'[m] THEN FALSE
              ELSE Registered[c]
    BY <1>0, <1>14, UnregisterDoes
  <2>2. running'[m] \in FileBackends
    BY <1>0, <2>1 DEF TypesOK
  <2>3. \A n \in Managers, c \in FileBackends : running[n] = c /\ place[n] \in {"shutdown",
          "destroy"} => place'[n] = place[n] /\ running'[n] = running[n]
    BY <2>1, ClientsAre
  <2>4. place'[m] = "destroy"
    BY <2>1
  <2>5. UNCHANGED flushed /\ \A c \in FileBackends :
          c # running'[m] => Registered'[c] = Registered[c]
    BY <2>1
  <2>6. \A c \in FileBackends : Stored(c)' <=> Stored(c)
    BY <2>1 DEF Stored
  <2>7. QueuedInv'
    BY <1>0, <2>2, <2>3, <2>4, <2>5, <2>6 DEF QueuedInv
  <2>8. QED
    BY <2>7
<1>15. ASSUME NEW m \in Managers, DrainUnregistered(m) PROVE QueuedInv'
  <2>1. /\ place[m] = "destroy"
        /\ running[m] \in FileBackends
        /\ UNCHANGED <<place, Registered, flushed>>
        /\ \A n \in Managers : running'[n] = IF n = m THEN NoBackend ELSE running[n]
        /\ \A c \in FileBackends : current'[c] = IF c = running[m] THEN 0 ELSE current[c]
        /\ \A c \in FileBackends : ready'[c] = IF c = running[m] THEN 0 ELSE ready[c]
    BY <1>0, <1>15, DrainUnregisteredDoes
  <2>2. running[m] \in FileBackends
    BY <2>1
  <2>3. \A c \in FileBackends : IF c = running[m] THEN ~ Stored(c)' ELSE (Stored(c)' <=> Stored(c))
    BY <2>1 DEF Stored
  <2>4. QueuedInv'
    BY <1>0, <2>1, <2>2, <2>3, ClientsAre DEF QueuedInv
  <2>5. QED
    BY <2>4
<1>16. ASSUME NEW m \in Managers, Destroy(m) PROVE QueuedInv'
  <2>1. /\ place[m] = "destroy"
        /\ running[m] = NoBackend
        /\ Backends[m] = {}
        /\ UNCHANGED <<running, Registered, current, ready, flushed>>
        /\ \A n \in Managers : place'[n] = IF n = m THEN "gone" ELSE place[n]
    BY <1>0, <1>16, DestroyDoes
  <2>2. \A c \in FileBackends : running[m] # c
    BY <2>1, ClientsAre
  <2>3. \A c \in FileBackends : Stored(c)' <=> Stored(c)
    BY <2>1 DEF Stored
  <2>4. QueuedInv'
    BY <1>0, <2>1, <2>2, <2>3, ClientsAre DEF QueuedInv
  <2>5. QED
    BY <2>4
<1>17. ASSUME UNCHANGED <<current, ready, flushed, Registered, running, place>> PROVE QueuedInv'
  <2>1. \A c \in FileBackends : Stored(c)' <=> Stored(c)
    BY <1>17 DEF Stored
  <2>2. QED
    BY <1>0, <1>17, <2>1 DEF QueuedInv
<1>18. ASSUME NEW b \in FileBackends, Display(b) PROVE QueuedInv'
  BY <1>0, <1>17, <1>18, DisplayDoes
<1>19. ASSUME NEW b \in FileBackends, AddTakesStopping(b) PROVE QueuedInv'
  BY <1>0, <1>17, <1>19, AddTakesStoppingDoes
<1>20. ASSUME NEW b \in FileBackends, SetStopping(b) PROVE QueuedInv'
  BY <1>0, <1>17, <1>20, SetStoppingDoes
<1>21. ASSUME NEW t \in Clients, Leaves(t) PROVE QueuedInv'
  BY <1>0, <1>17, <1>21, LeavesDoes
<1>22. ASSUME NEW b \in FileBackends, Freeze(b) PROVE QueuedInv'
  BY <1>0, <1>17, <1>22, FreezeDoes
<1>23. ASSUME NEW b \in FileBackends, Flush(b) PROVE QueuedInv'
  <2>1. /\ at[Flusher] = "idle"
        /\ UNCHANGED <<running, Registered, place, current, ready>>
        /\ flushed' = b
    BY <1>0, <1>23, FlushDoes
  <2>2. flushed = NoBackend
    BY <1>0, <2>1 DEF ClientsInv, FlushedInv
  <2>3. \A c \in FileBackends : Stored(c)' <=> Stored(c)
    BY <2>1 DEF Stored
  <2>4. QED
    BY <1>0, <2>1, <2>2, <2>3, ClientsAre DEF QueuedInv
<1>24. ASSUME FlushDone PROVE QueuedInv'
  <2>1. /\ Queued(flushed) = 0
        /\ UNCHANGED <<running, Registered, place, current, ready, taken>>
    BY <1>0, <1>24, FlushDoneDoes
  <2>2. \A c \in FileBackends : current[c] \in Nat /\ ready[c] \in Nat /\ taken \in Nat
    BY <1>0 DEF TypesOK
  <2>3. \A c \in FileBackends : (Stored(c)' <=> Stored(c)) /\ (c = flushed => ~ Stored(c))
    BY <2>1, <2>2 DEF Stored, Queued
  <2>4. QED
    BY <1>0, <2>1, <2>3 DEF QueuedInv
<1>25. ASSUME NEW t \in Clients, NotifyFactory(t) PROVE QueuedInv'
  BY <1>0, <1>17, <1>25, NotifyFactoryDoes
<1>26. ASSUME BeginDestruction PROVE QueuedInv'
  BY <1>0, <1>17, <1>26, BeginDestructionDoes
<1>27. ASSUME DestroyFactory PROVE QueuedInv'
  BY <1>0, <1>17, <1>27, DestroyFactoryDoes
<1>28. ASSUME Tick PROVE QueuedInv'
  BY <1>0, <1>17, <1>28, TickDoes
<1>29. ASSUME Publishes PROVE QueuedInv'
  <2>1. /\ flushed \in FileBackends
        /\ UNCHANGED <<running, Registered, place, flushed>>
        /\ \A c \in FileBackends : c # flushed => current'[c] = current[c] /\ ready'[c] = ready[c]
    BY <1>0, <1>29, PublishesDoes
  <2>2. \A c \in FileBackends : c # flushed => (Stored(c)' <=> Stored(c))
    BY <2>1 DEF Stored
  <2>3. QED
    BY <1>0, <2>1, <2>2 DEF QueuedInv
<1>30. ASSUME AllPublished PROVE QueuedInv'
  BY <1>0, <1>17, <1>30, AllPublishedDoes
<1>31. CASE UNCHANGED managersVars
  BY <1>17, <1>31 DEF managersVars, factory, lists, signals, managers, flags, data, threads,
     recorded
<1>32. QED
  BY Steps, <1>1, <1>2, <1>3, <1>4, <1>5, <1>6, <1>7, <1>8, <1>9, <1>10, <1>11, <1>12, <1>13,
     <1>14, <1>15, <1>16, <1>18, <1>19, <1>20, <1>21, <1>22, <1>23, <1>24, <1>25, <1>26, <1>27,
     <1>28, <1>29, <1>30, <1>31

(* Every step keeps the threads that notify with the right manager. *)
LEMMA NotifiedKept ==
  ASSUME ManagersInv, [ManagersNext]_managersVars
  PROVE  NotifiedInv'
<1>0. TypesOK /\ ClientsInv /\ PlacesInv /\ BackendsInv /\ StopInv /\ NotifiedInv
  BY DEF ManagersInv
<1>1. ASSUME NEW b \in FileBackends, Display(b) PROVE NotifiedInv'
  <2>1. /\ at[b] = "idle"
        /\ ~ ShutdownFlag[b]
        /\ at[Owner] = "idle"
        /\ UNCHANGED <<Instance, Registered, flushed, held>>
        /\ \A u \in Clients : at'[u] = IF u = b THEN IF Registered[b] THEN "append" ELSE "add"
              ELSE at[u]
    BY <1>0, <1>1, DisplayDoes
  <2>2. NotifiedInv'
    BY <1>0, <2>1, ClientsAre DEF NotifiedInv, BackendOf, After
  <2>3. QED
    BY <2>2
<1>2. ASSUME NEW b \in FileBackends, AddTakesStopping(b) PROVE NotifiedInv'
  <2>1. /\ at[b] = "add"
        /\ UNCHANGED <<Registered, flushed>>
        /\ Instance' = IF Instance # 0 /\ StopRequested[Instance] THEN 0 ELSE Instance
        /\ \A u \in Clients : at'[u] = IF u = b THEN IF Instance # 0 /\ StopRequested[Instance]
              THEN "stop" ELSE "provide" ELSE at[u]
        /\ \A u \in Clients : held'[u] = IF u = b
              THEN IF Instance # 0 /\ StopRequested[Instance] THEN Instance ELSE held[b]
              ELSE held[u]
    BY <1>0, <1>2, AddTakesStoppingDoes
  <2>2. at[Owner] = "idle"
    BY <1>0, <2>1 DEF ClientsInv, OwnerInv, Adding
  <2>3. at[Owner] \in {"idle", "channels"} => \A c \in FileBackends :
          Registered[c] => Instance # 0 /\ c \in Backends[Instance]
    BY <1>0 DEF BackendsInv, HomeInv, CurrentManager
  <2>4. Instance # 0 /\ StopRequested[Instance] => Backends[Instance] = {}
    BY <1>0, <2>1, <2>2, InstanceIs DEF StopInv, FrozenInv, LateInv, Adding
  <2>5. Instance # 0 /\ StopRequested[Instance] => \A c \in FileBackends : ~ Registered[c]
    BY <2>2, <2>3, <2>4
  <2>6. \A u \in Clients : at'[u] = "announce" => u # b
    BY <2>1
  <2>7. \A u \in Clients : at[u] = "announce" => BackendOf(u) \in FileBackends
    BY <1>0, Notifying
  <2>8. NotifiedInv'
    BY <1>0, <2>1, <2>2, <2>3, <2>4, <2>5, <2>6, <2>7, ClientsAre
       DEF NotifiedInv, BackendOf, After
  <2>9. QED
    BY <2>8
<1>3. ASSUME NEW b \in FileBackends, SetStopping(b) PROVE NotifiedInv'
  <2>1. /\ at[b] = "stop"
        /\ held[b] \in Managers
        /\ UNCHANGED <<Instance, Registered, flushed, held>>
        /\ \A u \in Clients : at'[u] = IF u = b THEN "join" ELSE at[u]
    BY <1>0, <1>3, SetStoppingDoes
  <2>2. NotifiedInv'
    BY <1>0, <2>1, ClientsAre DEF NotifiedInv, BackendOf, After
  <2>3. QED
    BY <2>2
<1>4. ASSUME NEW t \in Clients, WaitForStop(t) PROVE NotifiedInv'
  <2>1. /\ at[t] = "join"
        /\ held[t] \in Managers
        /\ place[held[t]] = "exited"
        /\ UNCHANGED <<Instance, Registered, flushed>>
        /\ \A u \in Clients : at'[u] = IF u = t THEN IF LastReference(t, held[t]) THEN "drain"
              ELSE IF t = Owner THEN "done" ELSE "provide" ELSE at[u]
        /\ \A u \in Clients : held'[u] = IF u = t THEN IF LastReference(t, held[t]) THEN held[t]
              ELSE 0 ELSE held[u]
    BY <1>0, <1>4, WaitForStopDoes
  <2>2. NotifiedInv'
    BY <1>0, <2>1, ClientsAre DEF NotifiedInv, BackendOf, After
  <2>3. QED
    BY <2>2
<1>5. ASSUME NEW t \in Clients, Leaves(t) PROVE NotifiedInv'
  <2>1. /\ at[t] \in {"drain", "drop"}
        /\ held[t] \in Managers
        /\ place[held[t]] = "gone"
        /\ UNCHANGED <<Instance, Registered, flushed>>
        /\ \A u \in Clients : at'[u] = IF u = t THEN IF at[t] = "drop" THEN After(t)
              ELSE IF t = Owner THEN "done" ELSE "provide" ELSE at[u]
        /\ \A u \in Clients : held'[u] = IF u = t THEN 0 ELSE held[u]
    BY <1>0, <1>5, LeavesDoes
  <2>2. NotifiedInv'
    BY <1>0, <2>1, ClientsAre DEF NotifiedInv, BackendOf, After
  <2>3. QED
    BY <2>2
<1>6. ASSUME NEW b \in FileBackends, Provide(b) PROVE NotifiedInv'
  <2>1. /\ at[b] = "provide"
        /\ Instance' \in Managers
        /\ UNCHANGED <<Registered, flushed, held>>
        /\ Instance' = IF Instance = 0 THEN created + 1 ELSE Instance
        /\ \A u \in Clients : at'[u] = IF u = b THEN "register" ELSE at[u]
    BY <1>0, <1>6, ProvideDoes
  <2>2. at[Owner] = "idle"
    BY <1>0, <2>1 DEF ClientsInv, OwnerInv, Adding
  <2>3. at[Owner] \in {"idle", "channels"} => \A c \in FileBackends :
          Registered[c] => Instance # 0 /\ c \in Backends[Instance]
    BY <1>0 DEF BackendsInv, HomeInv, CurrentManager
  <2>4. \A u \in Clients : at[u] = "announce" => BackendOf(u) \in FileBackends
    BY <1>0, Notifying
  <2>5. NotifiedInv'
    BY <1>0, <2>1, <2>2, <2>3, <2>4, ClientsAre DEF NotifiedInv, BackendOf, After
  <2>6. QED
    BY <2>5
<1>7. ASSUME NEW b \in FileBackends, SetRegistered(b) PROVE NotifiedInv'
  <2>1. /\ at[b] = "register"
        /\ UNCHANGED <<Instance, flushed, held>>
        /\ \A c \in FileBackends : Registered'[c] = IF c = b THEN TRUE ELSE Registered[c]
        /\ \A u \in Clients : at'[u] = IF u = b THEN "append" ELSE at[u]
    BY <1>0, <1>7, SetRegisteredDoes
  <2>2. ~ Registered[b] /\ ~ ShutdownFlag[b]
    BY <1>0, <2>1 DEF ClientsInv, AddingInv
  <2>3. flushed # b
    BY <1>0, <2>2, ClientsAre DEF ClientsInv, FlushedInv
  <2>4. NotifiedInv'
    <3>1. ASSUME NEW u \in Clients, at'[u] = "announce", Registered'[BackendOf(u)]
            PROVE held[u] = Instance
      <4>1. at[u] = "announce" /\ u # b
        BY <2>1, <3>1
      <4>2. BackendOf(u) \in FileBackends /\ BackendOf(u) # b
        BY <1>0, <2>3, <4>1, Notifying DEF BackendOf
      <4>3. Registered[BackendOf(u)]
        BY <2>1, <3>1, <4>2
      <4>4. QED
        BY <1>0, <4>1, <4>3 DEF NotifiedInv, BackendOf
    <3>2. QED
      BY <2>1, <3>1 DEF NotifiedInv, BackendOf
  <2>5. QED
    BY <2>4
<1>8. ASSUME NEW b \in FileBackends, AppendOutputData(b) PROVE NotifiedInv'
  <2>1. /\ at[b] = "append"
        /\ UNCHANGED <<Instance, Registered, flushed, held>>
        /\ \A u \in Clients : at'[u] = IF u = b THEN IF Urgent(b) \/ Deferred(b) THEN "notify"
              ELSE "idle" ELSE at[u]
    BY <1>0, <1>8, AppendOutputDataDoes
  <2>2. NotifiedInv'
    BY <1>0, <2>1, ClientsAre DEF NotifiedInv, BackendOf, After
  <2>3. QED
    BY <2>2
<1>9. ASSUME NEW b \in FileBackends, Freeze(b) PROVE NotifiedInv'
  <2>1. /\ at[b] = "idle"
        /\ ~ ShutdownFlag[b]
        /\ UNCHANGED <<Instance, Registered, flushed, held>>
        /\ \A u \in Clients : at'[u] = IF u = b THEN IF Asks(b) THEN "notify" ELSE "idle"
              ELSE at[u]
    BY <1>0, <1>9, FreezeDoes
  <2>2. NotifiedInv'
    BY <1>0, <2>1, ClientsAre DEF NotifiedInv, BackendOf, After
  <2>3. QED
    BY <2>2
<1>10. ASSUME NEW b \in FileBackends, Flush(b) PROVE NotifiedInv'
  <2>1. /\ at[Flusher] = "idle"
        /\ Registered[b] \/ ShutdownFlag[b]
        /\ at[Owner] = "idle"
        /\ UNCHANGED <<Instance, Registered, held>>
        /\ \A u \in Clients : at'[u] = IF u = Flusher THEN "publish" ELSE at[u]
        /\ flushed' = b
    BY <1>0, <1>10, FlushDoes
  <2>2. NotifiedInv'
    BY <1>0, <2>1, ClientsAre DEF NotifiedInv, BackendOf, After
  <2>3. QED
    BY <2>2
<1>11. ASSUME Publishes PROVE NotifiedInv'
  <2>1. /\ at[Flusher] \in {"publish", "enqueue"}
        /\ flushed \in FileBackends
        /\ UNCHANGED <<Instance, Registered, held, flushed>>
        /\ at'[Flusher] \in {"publish", "enqueue"}
        /\ \A u \in Clients : u # Flusher => at'[u] = at[u]
    BY <1>0, <1>11, PublishesDoes
  <2>2. NotifiedInv'
    BY <1>0, <2>1, ClientsAre DEF NotifiedInv, BackendOf, After
  <2>3. QED
    BY <2>2
<1>12. ASSUME AllPublished PROVE NotifiedInv'
  <2>1. /\ at[Flusher] = "publish"
        /\ flushed \in FileBackends
        /\ UNCHANGED <<Instance, Registered, held, flushed>>
        /\ \A u \in Clients : at'[u] = IF u = Flusher THEN IF Asks(flushed) THEN "notify"
              ELSE "flushing" ELSE at[u]
    BY <1>0, <1>12, AllPublishedDoes
  <2>2. NotifiedInv'
    BY <1>0, <2>1, ClientsAre DEF NotifiedInv, BackendOf, After
  <2>3. QED
    BY <2>2
<1>13. ASSUME FlushDone PROVE NotifiedInv'
  <2>1. /\ at[Flusher] = "flushing"
        /\ UNCHANGED <<Instance, Registered, held>>
        /\ \A u \in Clients : at'[u] = IF u = Flusher THEN "idle" ELSE at[u]
        /\ flushed' = NoBackend
    BY <1>0, <1>13, FlushDoneDoes
  <2>2. NotifiedInv'
    BY <1>0, <2>1, ClientsAre DEF NotifiedInv, BackendOf, After
  <2>3. QED
    BY <2>2
<1>14. ASSUME NEW t \in Clients, NotifyFactory(t) PROVE NotifiedInv'
  <2>1. /\ at[t] = "notify"
        /\ UNCHANGED <<Instance, Registered, flushed>>
        /\ \A u \in Clients : at'[u] = IF u = t THEN IF Instance = 0 THEN After(t)
              ELSE "announce" ELSE at[u]
        /\ \A u \in Clients : held'[u] = IF u = t THEN Instance ELSE held[u]
    BY <1>0, <1>14, NotifyFactoryDoes
  <2>2. t # Owner
    BY <1>0, <2>1 DEF ClientsInv, LabelsInv
  <2>3. NotifiedInv'
    BY <1>0, <2>1, <2>2, ClientsAre DEF NotifiedInv, BackendOf, After
  <2>4. QED
    BY <2>3
<1>15. ASSUME NEW t \in Clients, NotifyManager(t) PROVE NotifiedInv'
  <2>1. /\ at[t] = "announce"
        /\ held[t] \in Managers
        /\ when[t] \in Times
        /\ BackendOf(t) \in FileBackends
        /\ UNCHANGED <<Instance, Registered, flushed>>
        /\ \A u \in Clients : at'[u] = IF u = t THEN IF LastReference(t, held[t]) THEN "drop"
              ELSE After(t) ELSE at[u]
        /\ \A u \in Clients : held'[u] = IF u = t THEN IF LastReference(t, held[t]) THEN held[t]
              ELSE 0 ELSE held[u]
    BY <1>0, <1>15, NotifyManagerDoes
  <2>2. t # Owner
    BY <1>0, <2>1 DEF ClientsInv, LabelsInv
  <2>3. NotifiedInv'
    BY <1>0, <2>1, <2>2, ClientsAre DEF NotifiedInv, BackendOf, After
  <2>4. QED
    BY <2>3
<1>16. ASSUME NEW m \in Managers, RemoveBackendLocked(m) PROVE NotifiedInv'
  <2>1. /\ place[m] = "remove"
        /\ running[m] \in FileBackends
        /\ UNCHANGED <<Instance, at, flushed, held>>
        /\ \A c \in FileBackends : Registered'[c] = IF c = running[m] THEN FALSE
              ELSE Registered[c]
    BY <1>0, <1>16, RemoveBackendLockedDoes
  <2>2. \A c \in FileBackends : Registered'[c] => Registered[c]
    BY <2>1
  <2>3. \A u \in Clients : at[u] = "announce" => BackendOf(u) \in FileBackends
    BY <1>0, Notifying
  <2>4. NotifiedInv'
    BY <1>0, <2>1, <2>2, <2>3, ClientsAre DEF NotifiedInv, BackendOf, After
  <2>5. QED
    BY <2>4
<1>17. ASSUME NEW m \in Managers, Unregister(m) PROVE NotifiedInv'
  <2>1. /\ place[m] = "destroy"
        /\ running[m] = NoBackend
        /\ running'[m] \in Backends[m]
        /\ UNCHANGED <<Instance, at, flushed, held>>
        /\ \A c \in FileBackends : Registered'[c] = IF c = running'[m] THEN FALSE
              ELSE Registered[c]
    BY <1>0, <1>17, UnregisterDoes
  <2>2. \A c \in FileBackends : Registered'[c] => Registered[c]
    BY <2>1
  <2>3. \A u \in Clients : at[u] = "announce" => BackendOf(u) \in FileBackends
    BY <1>0, Notifying
  <2>4. NotifiedInv'
    BY <1>0, <2>1, <2>2, <2>3, ClientsAre DEF NotifiedInv, BackendOf, After
  <2>5. QED
    BY <2>4
<1>18. ASSUME BeginDestruction PROVE NotifiedInv'
  <2>1. /\ \A u \in Clients : at[u] = "idle"
        /\ UNCHANGED <<Instance, Registered, flushed, held>>
        /\ \A u \in Clients : at'[u] = IF u = Owner THEN "channels" ELSE at[u]
    BY <1>0, <1>18, BeginDestructionDoes
  <2>2. NotifiedInv'
    BY <1>0, <2>1, ClientsAre DEF NotifiedInv, BackendOf, After
  <2>3. QED
    BY <2>2
<1>19. ASSUME DestroyFactory PROVE NotifiedInv'
  <2>1. /\ at[Owner] = "channels"
        /\ \A c \in FileBackends : at[c] = "idle" /\ ShutdownFlag[c]
        /\ UNCHANGED <<Registered, flushed>>
        /\ Instance' = 0
        /\ \A u \in Clients : at'[u] = IF u = Owner THEN IF Instance = 0 THEN "done" ELSE "join"
              ELSE at[u]
        /\ \A u \in Clients : held'[u] = IF u = Owner THEN Instance ELSE held[u]
    BY <1>0, <1>19, DestroyFactoryDoes
  <2>2. at[Flusher] = "idle"
    BY <1>0, <2>1 DEF ClientsInv, OwnerInv
  <2>3. \A u \in Clients : at'[u] # "announce"
    BY <2>1, <2>2, ClientsAre
  <2>4. NotifiedInv'
    BY <1>0, <2>1, <2>2, <2>3, ClientsAre DEF NotifiedInv, BackendOf, After
  <2>5. QED
    BY <2>4
<1>20. ASSUME UNCHANGED <<Instance, Registered, at, flushed, held>> PROVE NotifiedInv'
  BY <1>0, <1>20 DEF NotifiedInv, BackendOf
<1>21. ASSUME NEW m \in Managers, Exit(m) PROVE NotifiedInv'
  BY <1>0, <1>20, <1>21, ExitDoes
<1>22. ASSUME NEW m \in Managers, WaitForWork(m) PROVE NotifiedInv'
  BY <1>0, <1>20, <1>22, WaitForWorkDoes
<1>23. ASSUME NEW m \in Managers, WakeUp(m) PROVE NotifiedInv'
  BY <1>0, <1>20, <1>23, WakeUpDoes
<1>24. ASSUME NEW m \in Managers, TakeHead(m) PROVE NotifiedInv'
  BY <1>0, <1>20, <1>24, TakeHeadDoes
<1>25. ASSUME NEW m \in Managers, WorkerFunc(m) PROVE NotifiedInv'
  BY <1>0, <1>20, <1>25, WorkerFuncDoes
<1>26. ASSUME NEW m \in Managers, Reactivate(m) PROVE NotifiedInv'
  BY <1>0, <1>20, <1>26, ReactivateDoes
<1>27. ASSUME NEW m \in Managers, OnShutdown(m) PROVE NotifiedInv'
  BY <1>0, <1>20, <1>27, OnShutdownDoes
<1>28. ASSUME NEW m \in Managers, DrainUnregistered(m) PROVE NotifiedInv'
  BY <1>0, <1>20, <1>28, DrainUnregisteredDoes
<1>29. ASSUME NEW m \in Managers, Destroy(m) PROVE NotifiedInv'
  BY <1>0, <1>20, <1>29, DestroyDoes
<1>30. ASSUME Tick PROVE NotifiedInv'
  BY <1>0, <1>20, <1>30, TickDoes
<1>31. CASE UNCHANGED managersVars
  BY <1>20, <1>31 DEF managersVars, factory, lists, signals, managers, flags, data, threads,
     recorded
<1>32. QED
  BY Steps, <1>1, <1>2, <1>3, <1>4, <1>5, <1>6, <1>7, <1>8, <1>9, <1>10, <1>11, <1>12, <1>13,
     <1>14, <1>15, <1>16, <1>17, <1>18, <1>19, <1>21, <1>22, <1>23, <1>24, <1>25, <1>26, <1>27,
     <1>28, <1>29, <1>30, <1>31

(* Every step keeps a backend that wants a flush where it is seen. *)
LEMMA ServedKept ==
  ASSUME ManagersInv, [ManagersNext]_managersVars
  PROVE  ServedInv'
<1>0. TypesOK /\ ClientsInv /\ PlacesInv /\ BackendsInv /\ StopInv /\ NotifiedInv /\ ServedInv
  BY DEF ManagersInv
<1>1. ASSUME NEW b \in FileBackends, Display(b) PROVE ServedInv'
  <2>1. /\ at[b] = "idle"
        /\ ~ ShutdownFlag[b]
        /\ at[Owner] = "idle"
        /\ UNCHANGED <<Instance, Active, running, Registered, FlushTime, flushed, late>>
        /\ \A u \in Clients : at'[u] = IF u = b THEN IF Registered[b] THEN "append" ELSE "add"
              ELSE at[u]
    BY <1>0, <1>1, DisplayDoes
  <2>2. at'[Owner] = at[Owner]
    BY <2>1, ClientsAre
  <2>3. ServedInv'
    BY <1>0, <2>1, <2>2, ClientsAre DEF ServedInv, Announcing, After
  <2>4. QED
    BY <2>3
<1>2. ASSUME NEW b \in FileBackends, AddTakesStopping(b) PROVE ServedInv'
  <2>1. /\ at[b] = "add"
        /\ UNCHANGED <<Active, running, Registered, FlushTime, flushed, late>>
        /\ Instance' = IF Instance # 0 /\ StopRequested[Instance] THEN 0 ELSE Instance
        /\ \A u \in Clients : at'[u] = IF u = b THEN IF Instance # 0 /\ StopRequested[Instance]
              THEN "stop" ELSE "provide" ELSE at[u]
    BY <1>0, <1>2, AddTakesStoppingDoes
  <2>2. at[Owner] = "idle"
    BY <1>0, <2>1 DEF ClientsInv, OwnerInv, Adding
  <2>3. at[Owner] = "idle" => \A c \in FileBackends :
          Registered[c] => Instance \in Managers /\ c \in Backends[Instance]
    BY <1>0, InstanceIs DEF BackendsInv, HomeInv, CurrentManager
  <2>4. Instance # 0 /\ StopRequested[Instance] => Backends[Instance] = {}
    BY <1>0, <2>1, <2>2, InstanceIs DEF StopInv, FrozenInv, LateInv, Adding
  <2>5. Instance' # Instance => \A c \in FileBackends : ~ Registered[c]
    BY <2>1, <2>2, <2>3, <2>4
  <2>6. ServedInv'
    BY <1>0, <2>1, <2>2, <2>3, <2>4, <2>5, ClientsAre DEF ServedInv, Announcing, After
  <2>7. QED
    BY <2>6
<1>3. ASSUME NEW b \in FileBackends, SetStopping(b) PROVE ServedInv'
  <2>1. /\ at[b] = "stop"
        /\ held[b] \in Managers
        /\ UNCHANGED <<Instance, Active, running, Registered, FlushTime, flushed, late>>
        /\ \A u \in Clients : at'[u] = IF u = b THEN "join" ELSE at[u]
    BY <1>0, <1>3, SetStoppingDoes
  <2>2. ServedInv'
    BY <1>0, <2>1, ClientsAre DEF ServedInv, Announcing, After
  <2>3. QED
    BY <2>2
<1>4. ASSUME NEW t \in Clients, WaitForStop(t) PROVE ServedInv'
  <2>1. /\ at[t] = "join"
        /\ held[t] \in Managers
        /\ place[held[t]] = "exited"
        /\ UNCHANGED <<Instance, Active, running, Registered, FlushTime, flushed, late>>
        /\ \A u \in Clients : at'[u] = IF u = t THEN IF LastReference(t, held[t]) THEN "drain"
              ELSE IF t = Owner THEN "done" ELSE "provide" ELSE at[u]
    BY <1>0, <1>4, WaitForStopDoes
  <2>2. at'[Owner] = at[Owner] \/ at'[Owner] # "idle"
    BY <1>0, <2>1, ClientsAre DEF ClientsInv
  <2>3. ServedInv'
    BY <1>0, <2>1, <2>2, ClientsAre DEF ServedInv, Announcing, After
  <2>4. QED
    BY <2>3
<1>5. ASSUME NEW t \in Clients, Leaves(t) PROVE ServedInv'
  <2>1. /\ at[t] \in {"drain", "drop"}
        /\ held[t] \in Managers
        /\ place[held[t]] = "gone"
        /\ UNCHANGED <<Instance, Active, running, Registered, FlushTime, flushed, late>>
        /\ \A u \in Clients : at'[u] = IF u = t THEN IF at[t] = "drop" THEN After(t)
              ELSE IF t = Owner THEN "done" ELSE "provide" ELSE at[u]
    BY <1>0, <1>5, LeavesDoes
  <2>2. at'[Owner] = at[Owner] \/ at'[Owner] # "idle"
    BY <1>0, <2>1, ClientsAre DEF ClientsInv, LabelsInv
  <2>3. ServedInv'
    BY <1>0, <2>1, <2>2, ClientsAre DEF ServedInv, Announcing, After
  <2>4. QED
    BY <2>3
<1>6. ASSUME NEW b \in FileBackends, Provide(b) PROVE ServedInv'
  <2>1. /\ at[b] = "provide"
        /\ Instance' \in Managers
        /\ UNCHANGED <<Active, running, Registered, FlushTime, flushed>>
        /\ Instance' = IF Instance = 0 THEN created + 1 ELSE Instance
        /\ \A u \in Clients : at'[u] = IF u = b THEN "register" ELSE at[u]
        /\ late' = IF StopRequested[Instance'] THEN late \cup {b} ELSE late
    BY <1>0, <1>6, ProvideDoes
  <2>2. at[Owner] = "idle"
    BY <1>0, <2>1 DEF ClientsInv, OwnerInv, Adding
  <2>3. at[Owner] = "idle" => \A c \in FileBackends :
          Registered[c] => Instance \in Managers /\ c \in Backends[Instance]
    BY <1>0, InstanceIs DEF BackendsInv, HomeInv, CurrentManager
  <2>4. Instance' # Instance => \A c \in FileBackends : ~ Registered[c]
    BY <2>1, <2>2, <2>3, ClientsAre
  <2>5. UNCHANGED <<FlushTime, Registered, flushed, running, Active>> /\ late \subseteq late'
    BY <2>1
  <2>6. \A u \in Clients : at[u] \in {"notify", "announce"} => at'[u] = at[u]
    BY <2>1
  <2>7. at'[Owner] = at[Owner]
    BY <2>1, ClientsAre
  <2>8. ServedInv'
    BY <1>0, <2>4, <2>5, <2>6, <2>7, ClientsAre DEF ServedInv, Announcing
  <2>9. QED
    BY <2>8
<1>7. ASSUME NEW b \in FileBackends, SetRegistered(b) PROVE ServedInv'
  <2>1. /\ at[b] = "register"
        /\ UNCHANGED <<Instance, Active, running, FlushTime, flushed, late>>
        /\ \A c \in FileBackends : Registered'[c] = IF c = b THEN TRUE ELSE Registered[c]
        /\ \A u \in Clients : at'[u] = IF u = b THEN "append" ELSE at[u]
    BY <1>0, <1>7, SetRegisteredDoes
  <2>2. ~ Registered[b] /\ ~ ShutdownFlag[b]
    BY <1>0, <2>1 DEF ClientsInv, AddingInv
  <2>3. FlushTime[b] = NoTime
    BY <1>0, <2>2 DEF BackendsInv, UnregisteredInv
  <2>4. at'[Owner] = at[Owner]
    BY <2>1, ClientsAre
  <2>5. ServedInv'
    BY <1>0, <2>1, <2>2, <2>3, <2>4, ClientsAre DEF ServedInv, Announcing, After
  <2>6. QED
    BY <2>5
<1>8. ASSUME NEW b \in FileBackends, AppendOutputData(b) PROVE ServedInv'
  <2>1. /\ at[b] = "append"
        /\ UNCHANGED <<Instance, Active, running, Registered, flushed, late>>
        /\ \A c \in FileBackends : FlushTime'[c] = IF c = b THEN IF Urgent(b) THEN RIGHT_NOW
              ELSE IF Deferred(b) THEN Later ELSE FlushTime[b] ELSE FlushTime[c]
        /\ \A u \in Clients : at'[u] = IF u = b THEN IF Urgent(b) \/ Deferred(b) THEN "notify"
              ELSE "idle" ELSE at[u]
    BY <1>0, <1>8, AppendOutputDataDoes
  <2>2. at'[Owner] = at[Owner]
    BY <2>1, ClientsAre
  <2>3. \A c \in FileBackends : Announcing(c) => Announcing(c)'
    BY <2>1, ClientsAre DEF Announcing
  <2>4. FlushTime'[b] = FlushTime[b] \/ Announcing(b)'
    BY <2>1, ClientsAre DEF Announcing
  <2>5. ServedInv'
    BY <1>0, <2>1, <2>2, <2>3, <2>4 DEF ServedInv
  <2>6. QED
    BY <2>5
<1>9. ASSUME NEW b \in FileBackends, Freeze(b) PROVE ServedInv'
  <2>1. /\ at[b] = "idle"
        /\ ~ ShutdownFlag[b]
        /\ UNCHANGED <<Instance, Active, running, Registered, flushed, late>>
        /\ \A c \in FileBackends : FlushTime'[c] = IF c = b THEN IF Asks(b) THEN RIGHT_NOW
              ELSE FlushTime[b] ELSE FlushTime[c]
        /\ \A u \in Clients : at'[u] = IF u = b THEN IF Asks(b) THEN "notify" ELSE "idle"
              ELSE at[u]
    BY <1>0, <1>9, FreezeDoes
  <2>2. at'[Owner] = at[Owner]
    BY <2>1, ClientsAre
  <2>3. \A c \in FileBackends : Announcing(c) => Announcing(c)'
    BY <2>1, ClientsAre DEF Announcing
  <2>4. FlushTime'[b] = FlushTime[b] \/ Announcing(b)'
    BY <2>1, ClientsAre DEF Announcing
  <2>5. ServedInv'
    BY <1>0, <2>1, <2>2, <2>3, <2>4 DEF ServedInv
  <2>6. QED
    BY <2>5
<1>10. ASSUME NEW b \in FileBackends, Flush(b) PROVE ServedInv'
  <2>1. /\ at[Flusher] = "idle"
        /\ Registered[b] \/ ShutdownFlag[b]
        /\ at[Owner] = "idle"
        /\ UNCHANGED <<Instance, Active, running, Registered, FlushTime, late>>
        /\ \A u \in Clients : at'[u] = IF u = Flusher THEN "publish" ELSE at[u]
        /\ flushed' = b
    BY <1>0, <1>10, FlushDoes
  <2>2. at'[Owner] = at[Owner]
    BY <2>1, ClientsAre
  <2>3. \A c \in FileBackends : Announcing(c) => Announcing(c)'
    BY <2>1, ClientsAre DEF Announcing
  <2>4. ServedInv'
    BY <1>0, <2>1, <2>2, <2>3 DEF ServedInv
  <2>5. QED
    BY <2>4
<1>11. ASSUME Publishes PROVE ServedInv'
  <2>1. /\ at[Flusher] \in {"publish", "enqueue"}
        /\ flushed \in FileBackends
        /\ UNCHANGED <<Instance, Active, running, Registered, FlushTime, late, flushed>>
        /\ at'[Flusher] \in {"publish", "enqueue"}
        /\ \A u \in Clients : u # Flusher => at'[u] = at[u]
    BY <1>0, <1>11, PublishesDoes
  <2>2. at'[Owner] = at[Owner]
    BY <2>1, ClientsAre
  <2>3. \A c \in FileBackends : Announcing(c) => Announcing(c)'
    BY <2>1, ClientsAre DEF Announcing
  <2>4. ServedInv'
    BY <1>0, <2>1, <2>2, <2>3 DEF ServedInv
  <2>5. QED
    BY <2>4
<1>12. ASSUME AllPublished PROVE ServedInv'
  <2>1. /\ at[Flusher] = "publish"
        /\ flushed \in FileBackends
        /\ UNCHANGED <<Instance, Active, running, Registered, late, flushed>>
        /\ \A c \in FileBackends : FlushTime'[c] = IF c = flushed THEN IF Asks(c)
              THEN RIGHT_NOW ELSE FlushTime[c] ELSE FlushTime[c]
        /\ \A u \in Clients : at'[u] = IF u = Flusher THEN IF Asks(flushed) THEN "notify"
              ELSE "flushing" ELSE at[u]
    BY <1>0, <1>12, AllPublishedDoes
  <2>2. at'[Owner] = at[Owner]
    BY <2>1, ClientsAre
  <2>3. \A c \in FileBackends : Announcing(c) => Announcing(c)'
    BY <2>1, ClientsAre DEF Announcing
  <2>4. FlushTime'[flushed] = FlushTime[flushed] \/ Announcing(flushed)'
    BY <2>1, ClientsAre DEF Announcing
  <2>5. ServedInv'
    BY <1>0, <2>1, <2>2, <2>3, <2>4 DEF ServedInv
  <2>6. QED
    BY <2>5
<1>13. ASSUME FlushDone PROVE ServedInv'
  <2>1. /\ at[Flusher] = "flushing"
        /\ UNCHANGED <<Instance, Active, running, Registered, FlushTime, late>>
        /\ \A u \in Clients : at'[u] = IF u = Flusher THEN "idle" ELSE at[u]
        /\ flushed' = NoBackend
    BY <1>0, <1>13, FlushDoneDoes
  <2>2. at'[Owner] = at[Owner]
    BY <2>1, ClientsAre
  <2>3. \A c \in FileBackends : Announcing(c) => Announcing(c)'
    BY <2>1, ClientsAre DEF Announcing
  <2>4. ServedInv'
    BY <1>0, <2>1, <2>2, <2>3 DEF ServedInv
  <2>5. QED
    BY <2>4
<1>14. ASSUME NEW t \in Clients, NotifyFactory(t) PROVE ServedInv'
  <2>1. /\ at[t] = "notify"
        /\ UNCHANGED <<Instance, Active, running, Registered, FlushTime, flushed, late>>
        /\ \A u \in Clients : at'[u] = IF u = t THEN IF Instance = 0 THEN After(t)
              ELSE "announce" ELSE at[u]
    BY <1>0, <1>14, NotifyFactoryDoes
  <2>2. t # Owner /\ t \in FileBackends \cup {Flusher}
    BY <1>0, <2>1, ClientsAre DEF ClientsInv, LabelsInv
  <2>3. at[Owner] = "idle" => \A c \in FileBackends :
          Registered[c] => Instance \in Managers /\ c \in Backends[Instance]
    BY <1>0, InstanceIs DEF BackendsInv, HomeInv, CurrentManager
  <2>4. at'[Owner] = at[Owner]
    BY <2>1, <2>2, ClientsAre
  <2>5. Instance # 0 => \A c \in FileBackends : Announcing(c) => Announcing(c)'
    BY <2>1, ClientsAre DEF Announcing
  <2>6. ServedInv'
    BY <1>0, <2>1, <2>3, <2>4, <2>5, ClientsAre DEF ServedInv
  <2>7. QED
    BY <2>6
<1>15. ASSUME NEW t \in Clients, NotifyManager(t) PROVE ServedInv'
  <2>1. /\ at[t] = "announce"
        /\ held[t] \in Managers
        /\ when[t] \in Times
        /\ BackendOf(t) \in FileBackends
        /\ UNCHANGED <<Instance, running, Registered, FlushTime, flushed, late>>
        /\ \A n \in Managers : Active'[n] = IF n = held[t] THEN IF Registered[BackendOf(t)]
              THEN Activate(Active[n], BackendOf(t), when[t]) ELSE Active[n] ELSE Active[n]
        /\ \A u \in Clients : at'[u] = IF u = t THEN IF LastReference(t, held[t]) THEN "drop"
              ELSE After(t) ELSE at[u]
    BY <1>0, <1>15, NotifyManagerDoes
  <2>2. t # Owner /\ t \in FileBackends \cup {Flusher}
    BY <1>0, <2>1, ClientsAre DEF ClientsInv, LabelsInv
  <2>3. at[Owner] = "idle" => \A c \in FileBackends :
          Registered[c] => Instance \in Managers /\ c \in Backends[Instance]
    BY <1>0, InstanceIs DEF BackendsInv, HomeInv, CurrentManager
  <2>4. at'[Owner] = at[Owner]
    BY <2>1, <2>2, ClientsAre
  <2>5. Registered[BackendOf(t)] => held[t] = Instance
    BY <1>0, <2>1 DEF NotifiedInv, BackendOf
  <2>6. \A c \in FileBackends : c # BackendOf(t) /\ Announcing(c) => Announcing(c)'
    BY <2>1, ClientsAre DEF Announcing, BackendOf
  <2>7. Registered[BackendOf(t)] =>
          ToSet(Active'[Instance]) = ToSet(Active[Instance]) \cup {BackendOf(t)}
    <3>1. CASE Registered[BackendOf(t)]
      <4>1. IsList(Active[held[t]]) /\ FlushTime \in [FileBackends -> Times \cup {NoTime}]
        BY <1>0, <2>1, ActiveIs DEF TypesOK
      <4>2. ToSet(Activate(Active[held[t]], BackendOf(t),
              when[t])) = ToSet(Active[held[t]]) \cup {BackendOf(t)}
        BY <2>1, <4>1, ActivateIs
      <4>3. QED
        BY <2>1, <2>5, <3>1, <4>2
    <3>2. QED
      BY <3>1
  <2>8. Instance \in Managers /\ ~ Registered[BackendOf(t)] =>
          Active'[Instance] = Active[Instance]
    BY <2>1
  <2>9. UNCHANGED <<Instance, running, Registered, FlushTime, flushed, late>>
    BY <2>1
  <2>10. ServedInv'
    BY <1>0, <2>1, <2>3, <2>4, <2>6, <2>7, <2>8, <2>9 DEF ServedInv
  <2>11. QED
    BY <2>10
<1>16. ASSUME NEW m \in Managers, WaitForWork(m) PROVE ServedInv'
  <2>1. /\ place[m] = "loop"
        /\ ~ StopRequested[m]
        /\ WithoutStale(Active[m]) # <<>> => FlushTime[Head(WithoutStale(Active[m]))] > Due
        /\ UNCHANGED <<Instance, running, Registered, FlushTime, at, flushed, late>>
        /\ \A n \in Managers : Active'[n] = IF n = m THEN WithoutStale(Active[m]) ELSE Active[n]
    BY <1>0, <1>16, WaitForWorkDoes
  <2>2. \A c \in FileBackends, n \in Managers :
          c \in ToSet(Active[n]) /\ FlushTime[c] # NoTime => c \in ToSet(Active'[n])
    BY <1>0, <2>1, ActiveIs, WithoutStaleIs
  <2>3. at[Owner] = "idle" => \A c \in FileBackends :
          Registered[c] => Instance \in Managers /\ c \in Backends[Instance]
    BY <1>0, InstanceIs DEF BackendsInv, HomeInv, CurrentManager
  <2>4. ServedInv'
    BY <1>0, <2>1, <2>2, <2>3 DEF ServedInv, Announcing
  <2>5. QED
    BY <2>4
<1>17. ASSUME NEW m \in Managers, TakeHead(m) PROVE ServedInv'
  <2>1. /\ place[m] = "loop"
        /\ ~ StopRequested[m]
        /\ WithoutStale(Active[m]) # <<>>
        /\ UNCHANGED <<Instance, Registered, FlushTime, at, flushed, late>>
        /\ \A n \in Managers : Active'[n] = IF n = m THEN Tail(WithoutStale(Active[m]))
              ELSE Active[n]
        /\ \A n \in Managers : running'[n] = IF n = m
              THEN IF Head(WithoutStale(Active[m])) \in Backends[m]
              THEN Head(WithoutStale(Active[m])) ELSE running[m] ELSE running[n]
    BY <1>0, <1>17, TakeHeadDoes
  <2>2. IsList(WithoutStale(Active[m]))
    BY <1>0, ActiveIs, WithoutStaleIs
  <2>3. \A c \in FileBackends : c \in ToSet(Active[m]) /\ FlushTime[c] # NoTime =>
          c = Head(WithoutStale(Active[m])) \/ c \in ToSet(Tail(WithoutStale(Active[m])))
    <3>1. \A c \in FileBackends : c \in ToSet(Active[m]) /\ FlushTime[c] # NoTime =>
            c \in ToSet(WithoutStale(Active[m]))
      BY <1>0, ActiveIs, WithoutStaleIs
    <3>2. QED
      BY <2>1, <2>2, <3>1, TailIs
  <2>4. running[m] = NoBackend /\ Head(WithoutStale(Active[m])) \in Backends[m]
    <3>1. Head(WithoutStale(Active[m])) \in ToSet(Active[m])
      BY <1>0, <2>1, <2>2, ActiveIs, WithoutStaleIs, TailIs
    <3>2. QED
      BY <1>0, <2>1, <3>1 DEF BackendsInv, ActiveInv, PlacesInv, RunningInv
  <2>5. \A c \in FileBackends, n \in Managers :
          c \in ToSet(Active[n]) /\ FlushTime[c] # NoTime =>
          c \in ToSet(Active'[n]) \/ c = running'[n]
    BY <2>1, <2>3, <2>4
  <2>6. \A c \in FileBackends, n \in Managers : running[n] = c => running'[n] = c
    BY <2>1, <2>4, ClientsAre
  <2>7. at[Owner] = "idle" => \A c \in FileBackends :
          Registered[c] => Instance \in Managers /\ c \in Backends[Instance]
    BY <1>0, InstanceIs DEF BackendsInv, HomeInv, CurrentManager
  <2>8. UNCHANGED <<Instance, FlushTime, Registered, at, flushed, late>>
    BY <2>1
  <2>9. ServedInv'
    BY <1>0, <2>5, <2>6, <2>7, <2>8 DEF ServedInv, Announcing
  <2>10. QED
    BY <2>9
<1>18. ASSUME NEW m \in Managers, WorkerFunc(m) PROVE ServedInv'
  <2>1. /\ place[m] = "work"
        /\ running[m] \in FileBackends
        /\ UNCHANGED <<Instance, Active, running, Registered, at, flushed, late>>
        /\ \A c \in FileBackends : c # running[m] => FlushTime'[c] = FlushTime[c]
    BY <1>0, <1>18, WorkerFuncDoes
  <2>2. m = CurrentManager
    BY <1>0, <2>1 DEF BackendsInv, HandInv, HomeInv
  <2>3. ServedInv'
    BY <1>0, <2>1, <2>2 DEF ServedInv, Announcing, CurrentManager
  <2>4. QED
    BY <2>3
<1>19. ASSUME NEW m \in Managers, Reactivate(m) PROVE ServedInv'
  <2>1. /\ place[m] = "again"
        /\ running[m] \in FileBackends
        /\ UNCHANGED <<Instance, Registered, FlushTime, at, flushed, late>>
        /\ \A n \in Managers : Active'[n] = IF n = m THEN IF FlushTime[running[m]] = NoTime
              THEN Without(Active[m], running[m])
              ELSE Activate(Active[m], running[m], FlushTime[running[m]]) ELSE Active[n]
        /\ \A n \in Managers : running'[n] = IF n = m THEN NoBackend ELSE running[n]
    BY <1>0, <1>19, ReactivateDoes
  <2>2. \A c \in FileBackends, n \in Managers :
          FlushTime[c] # NoTime /\ (c \in ToSet(Active[n]) \/ c = running[n]) =>
          c \in ToSet(Active'[n]) \/ c = running'[n]
    <3>1. IsList(Active[m]) /\ FlushTime \in [FileBackends -> Times \cup {NoTime}]
      BY <1>0, ActiveIs DEF TypesOK
    <3>2. CASE FlushTime[running[m]] = NoTime
      <4>1. ToSet(Active'[m]) = ToSet(Active[m]) \ {running[m]}
        BY <2>1, <3>1, <3>2, WithoutIs
      <4>2. QED
        BY <2>1, <3>2, <4>1
    <3>3. CASE FlushTime[running[m]] # NoTime
      <4>1. FlushTime[running[m]] \in Times
        BY <2>1, <3>1, <3>3
      <4>2. ToSet(Active'[m]) = ToSet(Active[m]) \cup {running[m]}
        BY <2>1, <3>1, <3>3, <4>1, ActivateIs
      <4>3. QED
        BY <2>1, <4>2
    <3>4. QED
      BY <3>2, <3>3
  <2>3. at[Owner] = "idle" => \A c \in FileBackends :
          Registered[c] => Instance \in Managers /\ c \in Backends[Instance]
    BY <1>0, InstanceIs DEF BackendsInv, HomeInv, CurrentManager
  <2>4. ServedInv'
    BY <1>0, <2>1, <2>2, <2>3 DEF ServedInv, Announcing
  <2>5. QED
    BY <2>4
<1>20. ASSUME NEW m \in Managers, RemoveBackendLocked(m) PROVE ServedInv'
  <2>1. /\ place[m] = "remove"
        /\ running[m] \in FileBackends
        /\ UNCHANGED <<Instance, running, at, flushed, late>>
        /\ \A n \in Managers : Active'[n] = IF n = m THEN Without(Active[m], running[m])
              ELSE Active[n]
        /\ \A c \in FileBackends : Registered'[c] = IF c = running[m] THEN FALSE
              ELSE Registered[c]
        /\ \A c \in FileBackends : FlushTime'[c] = IF c = running[m] THEN NoTime
              ELSE FlushTime[c]
    BY <1>0, <1>20, RemoveBackendLockedDoes
  <2>2. \A c \in FileBackends, n \in Managers : c # running[m] /\ c \in ToSet(Active[n]) =>
          c \in ToSet(Active'[n])
    BY <1>0, <2>1, ActiveIs, WithoutIs
  <2>3. at[Owner] = "idle" => \A c \in FileBackends :
          Registered[c] => Instance \in Managers /\ c \in Backends[Instance]
    BY <1>0, InstanceIs DEF BackendsInv, HomeInv, CurrentManager
  <2>4. \A c \in FileBackends : Registered'[c] =>
          c # running[m] /\ Registered[c] /\ FlushTime'[c] = FlushTime[c]
    BY <2>1
  <2>5. ServedInv'
    BY <1>0, <2>1, <2>2, <2>3, <2>4 DEF ServedInv, Announcing
  <2>6. QED
    BY <2>5
<1>21. ASSUME NEW m \in Managers, OnShutdown(m) PROVE ServedInv'
  <2>1. /\ place[m] = "shutdown"
        /\ running[m] \in FileBackends
        /\ UNCHANGED <<Instance, Active, Registered, FlushTime, at, flushed, late>>
        /\ \A n \in Managers : running'[n] = IF n = m THEN NoBackend ELSE running[n]
    BY <1>0, <1>21, OnShutdownDoes
  <2>2. ~ Registered[running[m]]
    BY <1>0, <2>1, ClientsAre DEF BackendsInv, HandInv
  <2>3. at[Owner] = "idle" => \A c \in FileBackends :
          Registered[c] => Instance \in Managers /\ c \in Backends[Instance]
    BY <1>0, InstanceIs DEF BackendsInv, HomeInv, CurrentManager
  <2>4. ServedInv'
    BY <1>0, <2>1, <2>2, <2>3, ClientsAre DEF ServedInv, Announcing, After
  <2>5. QED
    BY <2>4
<1>22. ASSUME NEW m \in Managers, Unregister(m) PROVE ServedInv'
  <2>1. /\ place[m] = "destroy"
        /\ running[m] = NoBackend
        /\ running'[m] \in Backends[m]
        /\ UNCHANGED <<Instance, at, flushed, late>>
        /\ \A n \in Managers : Active'[n] = IF n = m THEN Without(Active[m], running'[m])
              ELSE Active[n]
        /\ \A n \in Managers : running'[n] = IF n = m THEN running'[m] ELSE running[n]
        /\ \A c \in FileBackends : Registered'[c] = IF c = running'[m] THEN FALSE
              ELSE Registered[c]
        /\ \A c \in FileBackends : FlushTime'[c] = IF c = running'[m] THEN NoTime
              ELSE FlushTime[c]
    BY <1>0, <1>22, UnregisterDoes
  <2>2. at[Owner] # "idle"
    BY <1>0, <2>1 DEF CurrentManager, PlacesInv, DestroyInv, BackendsInv, HomeInv
  <2>3. ServedInv'
    BY <1>0, <2>1, <2>2, ClientsAre DEF ServedInv, Announcing, After
  <2>4. QED
    BY <2>3
<1>23. ASSUME NEW m \in Managers, DrainUnregistered(m) PROVE ServedInv'
  <2>1. /\ place[m] = "destroy"
        /\ running[m] \in FileBackends
        /\ UNCHANGED <<Instance, Active, Registered, FlushTime, at, flushed, late>>
        /\ \A n \in Managers : running'[n] = IF n = m THEN NoBackend ELSE running[n]
    BY <1>0, <1>23, DrainUnregisteredDoes
  <2>2. m # Instance
    BY <1>0, <2>1 DEF PlacesInv, DestroyInv
  <2>3. at[Owner] = "idle" => \A c \in FileBackends :
          Registered[c] => Instance \in Managers /\ c \in Backends[Instance]
    BY <1>0, InstanceIs DEF BackendsInv, HomeInv, CurrentManager
  <2>4. ServedInv'
    BY <1>0, <2>1, <2>2, <2>3, ClientsAre DEF ServedInv, Announcing, After
  <2>5. QED
    BY <2>4
<1>24. ASSUME BeginDestruction PROVE ServedInv'
  <2>1. /\ \A u \in Clients : at[u] = "idle"
        /\ UNCHANGED <<Instance, Active, running, Registered, FlushTime, flushed, late>>
        /\ \A u \in Clients : at'[u] = IF u = Owner THEN "channels" ELSE at[u]
    BY <1>0, <1>24, BeginDestructionDoes
  <2>2. at'[Owner] # "idle"
    BY <2>1, ClientsAre
  <2>3. ServedInv'
    BY <1>0, <2>1, <2>2, ClientsAre DEF ServedInv, Announcing, After
  <2>4. QED
    BY <2>3
<1>25. ASSUME DestroyFactory PROVE ServedInv'
  <2>1. /\ at[Owner] = "channels"
        /\ \A c \in FileBackends : at[c] = "idle" /\ ShutdownFlag[c]
        /\ UNCHANGED <<Active, running, Registered, FlushTime, flushed, late>>
        /\ Instance' = 0
        /\ \A u \in Clients : at'[u] = IF u = Owner THEN IF Instance = 0 THEN "done" ELSE "join"
              ELSE at[u]
    BY <1>0, <1>25, DestroyFactoryDoes
  <2>2. at'[Owner] # "idle"
    BY <2>1, ClientsAre
  <2>3. ServedInv'
    BY <1>0, <2>1, <2>2, ClientsAre DEF ServedInv, Announcing, After
  <2>4. QED
    BY <2>3
<1>26. ASSUME Tick PROVE ServedInv'
  <2>1. /\ UNCHANGED <<Instance, Active, running, Registered, at, flushed, late>>
        /\ \A c \in FileBackends : FlushTime'[c] = Nearer(FlushTime[c])
    BY <1>0, <1>26, TickDoes
  <2>2. \A c \in FileBackends : FlushTime'[c] # NoTime => FlushTime[c] # NoTime
    BY <2>1, NearerIs
  <2>3. ServedInv'
    BY <1>0, <2>1, <2>2, ClientsAre DEF ServedInv, Announcing, After
  <2>4. QED
    BY <2>3
<1>27. ASSUME UNCHANGED <<late, FlushTime, Registered, at, flushed, running, Instance, Active>>
         PROVE ServedInv'
  BY <1>0, <1>27 DEF ServedInv, Announcing
<1>28. ASSUME NEW m \in Managers, Exit(m) PROVE ServedInv'
  BY <1>0, <1>27, <1>28, ExitDoes
<1>29. ASSUME NEW m \in Managers, WakeUp(m) PROVE ServedInv'
  BY <1>0, <1>27, <1>29, WakeUpDoes
<1>30. ASSUME NEW m \in Managers, Destroy(m) PROVE ServedInv'
  BY <1>0, <1>27, <1>30, DestroyDoes
<1>31. CASE UNCHANGED managersVars
  BY <1>27, <1>31 DEF managersVars, factory, lists, signals, managers, flags, data, threads,
     recorded
<1>32. QED
  BY Steps, <1>1, <1>2, <1>3, <1>4, <1>5, <1>6, <1>7, <1>8, <1>9, <1>10, <1>11, <1>12, <1>13,
     <1>14, <1>15, <1>16, <1>17, <1>18, <1>19, <1>20, <1>21, <1>22, <1>23, <1>24, <1>25, <1>26,
     <1>28, <1>29, <1>30, <1>31

(* What is in a list is a backend. *)
LEMMA ListsAreSets ==
  ASSUME TypesOK, NEW m \in Managers
  PROVE  ToSet(Active[m]) \subseteq FileBackends
BY DEF TypesOK, ToSet

(* Where ActivateBackend puts a backend among the others. *)
Placed(list, b, time) ==
  \/ list = <<b>>
  \/ \E y \in FileBackends :
       /\ y # b
       /\ \/ list = <<b, y>> /\ (time = RIGHT_NOW \/ time < FlushTime[y])
          \/ list = <<y, b>> /\ FlushTime[y] <= time

LEMMA ActivatePlaces ==
  ASSUME NEW s, IsList(s), NEW b \in FileBackends, NEW time \in Times,
         FlushTime \in [FileBackends -> Times \cup {NoTime}]
  PROVE  Placed(Activate(s, b, time), b, time)
BY ActivateIs DEF Placed

(* In a list of two it is before one that is later, or behind one that is not. *)
LEMMA PlacedOfTwo ==
  ASSUME NEW x \in FileBackends, NEW y \in FileBackends, x # y,
         NEW b \in FileBackends, NEW time, Placed(<<x, y>>, b, time)
  PROVE  \/ b = x /\ (time = RIGHT_NOW \/ time < FlushTime[y])
         \/ b = y /\ FlushTime[x] <= time
<1>1. Len(<<x, y>>) = 2 /\ Len(<<b>>) = 1
  OBVIOUS
<1>2. <<x, y>> # <<b>>
  BY <1>1
<1>3. PICK z \in FileBackends :
        /\ z # b
        /\ \/ <<x, y>> = <<b, z>> /\ (time = RIGHT_NOW \/ time < FlushTime[z])
           \/ <<x, y>> = <<z, b>> /\ FlushTime[z] <= time
  BY <1>2 DEF Placed
<1>4. <<x, y>> = <<b, z>> => x = b /\ y = z
  OBVIOUS
<1>5. <<x, y>> = <<z, b>> => x = z /\ y = b
  OBVIOUS
<1>6. QED
  BY <1>3, <1>4, <1>5

(* Time brings all that is to come nearer, in its order. *)
LEMMA NearerGrows ==
  /\ \A s, t \in Times \cup {NoTime} : s <= t => Nearer(s) <= Nearer(t)
  /\ \A s \in Times \cup {Never}, t \in Times \cup {NoTime} : s <= t => Nearer(s) <= Nearer(t)
BY TimesAre DEF Nearer

(* What many steps leave alone: the list and the times it is in the order of,    *)
(* while the manager is in use, and who is about to announce.                *)
ListKept ==
  InUse' =>
    /\ Active'[Instance] = Active[Instance]
    /\ running'[Instance] = running[Instance]
    /\ \A c \in FileBackends : FlushTime'[c] = FlushTime[c]
    /\ place'[Instance] = "wait" /\ ~ Reschedule'[Instance] =>
         /\ place[Instance] = "wait"
         /\ ~ Reschedule[Instance]
         /\ CurrentEarliestTime'[Instance] = CurrentEarliestTime[Instance]

AnnouncingKept ==
  \A c \in FileBackends : Announcing(c) /\ InUse' => Announcing(c)'

(* Such a step keeps the list in order. *)
LEMMA UndisturbedList ==
  ASSUME TypesOK, OrderInv, InUse' => InUse /\ Instance' = Instance,
         ListKept, AnnouncingKept
  PROVE  OrderInv'
<1>1. InUse => \A c \in ToSet(Active[Instance]) : c \in FileBackends
  BY InstanceIs, ListsAreSets DEF InUse
<1>2. AskedInv'
  BY <1>1 DEF OrderInv, AskedInv, ListKept, AnnouncingKept
<1>3. SortedInv'
  BY DEF OrderInv, SortedInv, ListKept, AnnouncingKept
<1>4. SleepInv'
  BY <1>1 DEF OrderInv, SleepInv, ListKept, AnnouncingKept
<1>5. QED
  BY <1>2, <1>3, <1>4 DEF OrderInv

(* Every step keeps the list in order. *)
LEMMA OrderKept ==
  ASSUME ManagersInv, [ManagersNext]_managersVars
  PROVE  OrderInv'
<1>0. TypesOK /\ ClientsInv /\ PlacesInv /\ BackendsInv /\ NotifiedInv /\ OrderInv
  BY DEF ManagersInv
<1>1. ASSUME NEW b \in FileBackends, Display(b) PROVE OrderInv'
  <2>1. /\ at[b] = "idle"
        /\ ~ ShutdownFlag[b]
        /\ at[Owner] = "idle"
        /\ UNCHANGED <<Instance, Active, StopRequested, Reschedule, CurrentEarliestTime, place,
              running, FlushTime, flushed, outdated>>
        /\ \A u \in Clients : at'[u] = IF u = b THEN IF Registered[b] THEN "append" ELSE "add"
              ELSE at[u]
    BY <1>0, <1>1, DisplayDoes
  <2>2. InUse' => InUse /\ Instance' = Instance
    BY <2>1, ClientsAre DEF InUse
  <2>3. ListKept
    BY <2>1 DEF ListKept
  <2>4. AnnouncingKept
    BY <2>1, ClientsAre DEF Announcing, After, AnnouncingKept
  <2>5. QED
    BY <1>0, <2>2, <2>3, <2>4, UndisturbedList
<1>2. ASSUME NEW b \in FileBackends, AddTakesStopping(b) PROVE OrderInv'
  <2>1. /\ at[b] = "add"
        /\ UNCHANGED <<Active, StopRequested, Reschedule, CurrentEarliestTime, place, running,
              FlushTime, flushed, outdated>>
        /\ Instance' = IF Instance # 0 /\ StopRequested[Instance] THEN 0 ELSE Instance
        /\ \A u \in Clients : at'[u] = IF u = b THEN IF Instance # 0 /\ StopRequested[Instance]
              THEN "stop" ELSE "provide" ELSE at[u]
    BY <1>0, <1>2, AddTakesStoppingDoes
  <2>2. at[Owner] = "idle"
    BY <1>0, <2>1 DEF ClientsInv, OwnerInv, Adding
  <2>3. InUse' => InUse /\ Instance' = Instance
    BY <2>1, ClientsAre DEF InUse
  <2>4. ListKept
    BY <2>1, <2>3 DEF ListKept
  <2>5. AnnouncingKept
    BY <2>1, ClientsAre DEF Announcing, After, AnnouncingKept
  <2>6. QED
    BY <1>0, <2>3, <2>4, <2>5, UndisturbedList
<1>3. ASSUME NEW b \in FileBackends, SetStopping(b) PROVE OrderInv'
  <2>1. /\ at[b] = "stop"
        /\ held[b] \in Managers
        /\ UNCHANGED <<Instance, Active, CurrentEarliestTime, place, running, FlushTime,
              flushed, outdated>>
        /\ \A n \in Managers : StopRequested'[n] = IF n = held[b] THEN TRUE
              ELSE StopRequested[n]
        /\ \A n \in Managers : Reschedule'[n] = IF n = held[b] THEN TRUE ELSE Reschedule[n]
        /\ \A u \in Clients : at'[u] = IF u = b THEN "join" ELSE at[u]
    BY <1>0, <1>3, SetStoppingDoes
  <2>2. held[b] # Instance
    BY <1>0, <2>1, ClientsAre DEF PlacesInv, DestroyInv
  <2>3. InUse' => InUse /\ Instance' = Instance
    BY <1>0, <2>1, <2>2, InstanceIs, ClientsAre DEF InUse
  <2>4. ListKept
    BY <1>0, <2>1, <2>2, <2>3, InstanceIs DEF InUse, ListKept
  <2>5. AnnouncingKept
    BY <2>1, ClientsAre DEF Announcing, After, AnnouncingKept
  <2>6. QED
    BY <1>0, <2>3, <2>4, <2>5, UndisturbedList
<1>4. ASSUME NEW t \in Clients, WaitForStop(t) PROVE OrderInv'
  <2>1. /\ at[t] = "join"
        /\ held[t] \in Managers
        /\ place[held[t]] = "exited"
        /\ UNCHANGED <<Instance, Active, StopRequested, Reschedule, CurrentEarliestTime,
              running, FlushTime, flushed, outdated>>
        /\ \A n \in Managers : place'[n] = IF n = held[t] THEN IF LastReference(t, held[t])
              THEN "destroy" ELSE "exited" ELSE place[n]
        /\ \A u \in Clients : at'[u] = IF u = t THEN IF LastReference(t, held[t]) THEN "drain"
              ELSE IF t = Owner THEN "done" ELSE "provide" ELSE at[u]
    BY <1>0, <1>4, WaitForStopDoes
  <2>2. held[t] # Instance
    BY <1>0, <2>1, ClientsAre DEF PlacesInv, DestroyInv
  <2>3. at'[Owner] = "idle" => at[Owner] = "idle"
    BY <2>1, ClientsAre
  <2>4. InUse' => InUse /\ Instance' = Instance
    BY <1>0, <2>1, <2>2, <2>3 DEF InUse
  <2>5. ListKept
    BY <1>0, <2>1, <2>2, <2>4, InstanceIs DEF InUse, ListKept
  <2>6. AnnouncingKept
    BY <2>1, ClientsAre DEF Announcing, After, AnnouncingKept
  <2>7. QED
    BY <1>0, <2>4, <2>5, <2>6, UndisturbedList
<1>5. ASSUME NEW t \in Clients, Leaves(t) PROVE OrderInv'
  <2>1. /\ at[t] \in {"drain", "drop"}
        /\ held[t] \in Managers
        /\ place[held[t]] = "gone"
        /\ UNCHANGED <<Instance, Active, StopRequested, Reschedule, CurrentEarliestTime, place,
              running, FlushTime, flushed, outdated>>
        /\ \A u \in Clients : at'[u] = IF u = t THEN IF at[t] = "drop" THEN After(t)
              ELSE IF t = Owner THEN "done" ELSE "provide" ELSE at[u]
    BY <1>0, <1>5, LeavesDoes
  <2>2. at'[Owner] = "idle" => at[Owner] = "idle"
    BY <1>0, <2>1, ClientsAre DEF ClientsInv, LabelsInv
  <2>3. InUse' => InUse /\ Instance' = Instance
    BY <1>0, <2>1, <2>2 DEF InUse
  <2>4. ListKept
    BY <1>0, <2>1, <2>2, <2>3, InstanceIs DEF InUse, ListKept
  <2>5. AnnouncingKept
    BY <2>1, ClientsAre DEF Announcing, After, AnnouncingKept
  <2>6. QED
    BY <1>0, <2>3, <2>4, <2>5, UndisturbedList
<1>6. ASSUME NEW b \in FileBackends, Provide(b) PROVE OrderInv'
  <2>1. /\ at[b] = "provide"
        /\ Instance' \in Managers
        /\ UNCHANGED <<Active, StopRequested, Reschedule, CurrentEarliestTime, running,
              FlushTime, flushed, outdated>>
        /\ Instance' = IF Instance = 0 THEN created + 1 ELSE Instance
        /\ \A n \in Managers : place'[n] = IF n = Instance' THEN IF place[n] = "none"
              THEN "loop" ELSE place[n] ELSE place[n]
        /\ \A u \in Clients : at'[u] = IF u = b THEN "register" ELSE at[u]
    BY <1>0, <1>6, ProvideDoes
  <2>2. at[Owner] = "idle"
    BY <1>0, <2>1 DEF ClientsInv, OwnerInv, Adding
  <2>3. created \in Nat /\ Instance \in 0..created
    BY <1>0 DEF TypesOK
  <2>4. Instance # 0 => Instance' = Instance /\ Instance \in Managers
    BY <1>0, <2>1, InstanceIs
  <2>5. Instance = 0 => ToSet(Active'[Instance']) = {} /\ place'[Instance'] # "wait"
    BY <1>0, <2>1, <2>2, <2>3, ClientsAre DEF PlacesInv, CreatedInv, BackendsInv, HomeInv,
       ActiveInv, CurrentManager
  <2>6. Instance # 0 => place'[Instance] = place[Instance]
    BY <1>0, <2>1, <2>3, <2>4 DEF PlacesInv, CreatedInv
  <2>7. Instance # 0 => (InUse' => InUse)
    BY <2>1, <2>2, <2>4 DEF InUse
  <2>8. \A c \in FileBackends : Announcing(c) => Announcing(c)'
    BY <2>1, ClientsAre DEF Announcing
  <2>9. UNCHANGED <<Active, running, FlushTime, Reschedule, CurrentEarliestTime>>
    BY <2>1
  <2>10. InUse => \A c \in ToSet(Active[Instance]) : c \in FileBackends
    BY <1>0, InstanceIs, ListsAreSets DEF InUse
  <2>11. AskedInv'
    BY <1>0, <2>4, <2>5, <2>7, <2>9 DEF OrderInv, AskedInv
  <2>12. SortedInv'
    <3> SUFFICES ASSUME InUse', NEW x \in FileBackends, NEW y \in FileBackends,
                        Active'[Instance'] = <<x, y>>, x # y, ~ Announcing(y)',
                        running'[Instance'] \notin {x, y}
                 PROVE  FlushTime'[x] <= FlushTime'[y]
      BY DEF SortedInv
    <3>1. Instance # 0
      BY <2>5, TwoList
    <3>2. QED
      BY <1>0, <2>4, <2>7, <2>8, <2>9, <3>1 DEF OrderInv, SortedInv
  <2>13. SleepInv'
    BY <1>0, <2>4, <2>5, <2>6, <2>7, <2>8, <2>9, <2>10 DEF OrderInv, SleepInv
  <2>14. QED
    BY <2>11, <2>12, <2>13 DEF OrderInv
<1>7. ASSUME NEW b \in FileBackends, SetRegistered(b) PROVE OrderInv'
  <2>1. /\ at[b] = "register"
        /\ UNCHANGED <<Instance, Active, StopRequested, Reschedule, CurrentEarliestTime, place,
              running, FlushTime, flushed, outdated>>
        /\ \A u \in Clients : at'[u] = IF u = b THEN "append" ELSE at[u]
    BY <1>0, <1>7, SetRegisteredDoes
  <2>2. InUse' => InUse /\ Instance' = Instance
    BY <2>1, ClientsAre DEF InUse
  <2>3. ListKept
    BY <2>1 DEF ListKept
  <2>4. AnnouncingKept
    BY <2>1, ClientsAre DEF Announcing, After, AnnouncingKept
  <2>5. QED
    BY <1>0, <2>2, <2>3, <2>4, UndisturbedList
<1>8. ASSUME NEW b \in FileBackends, AppendOutputData(b) PROVE OrderInv'
  <2>1. /\ at[b] = "append"
        /\ UNCHANGED <<Instance, Active, StopRequested, Reschedule, CurrentEarliestTime, place,
              running, flushed, outdated>>
        /\ \A c \in FileBackends : FlushTime'[c] = IF c = b THEN IF Urgent(b) THEN RIGHT_NOW
              ELSE IF Deferred(b) THEN Later ELSE FlushTime[b] ELSE FlushTime[c]
        /\ \A u \in Clients : at'[u] = IF u = b THEN IF Urgent(b) \/ Deferred(b) THEN "notify"
              ELSE "idle" ELSE at[u]
    BY <1>0, <1>8, AppendOutputDataDoes
  <2>2. InUse' => InUse /\ Instance' = Instance
    BY <2>1, ClientsAre DEF InUse
  <2>3. \A c \in FileBackends : Announcing(c) => Announcing(c)'
    BY <2>1, ClientsAre DEF Announcing
  <2>4. \A c \in FileBackends :
          FlushTime'[c] = FlushTime[c] \/ (FlushTime'[c] \in Times /\ Announcing(c)')
    BY <1>0, <2>1, ClientsAre, AsksFor DEF Announcing
  <2>5. \A c \in FileBackends :
          FlushTime'[c] = FlushTime[c] \/ FlushTime'[c] = RIGHT_NOW \/ FlushTime[c] = NoTime
    BY <1>0, <2>1 DEF Deferred
  <2>6. UNCHANGED <<Active, running, place, Reschedule, CurrentEarliestTime>>
    BY <2>1
  <2>7. InUse => \A c \in ToSet(Active[Instance]) : c \in FileBackends
    BY <1>0, InstanceIs, ListsAreSets DEF InUse
  <2>8. \A c \in FileBackends : FlushTime[c] \in Times \cup {NoTime}
    BY <1>0, <2>1 DEF TypesOK
  <2>9. \A x, y \in FileBackends : Active[Instance] = <<x, y>> /\ x # y =>
          x \in ToSet(Active[Instance]) /\ y \in ToSet(Active[Instance])
    BY TwoList
  <2>10. InUse => \A c \in ToSet(Active[Instance]) :
           FlushTime[c] = NoTime => c = running[Instance]
    BY <1>0 DEF OrderInv, AskedInv
  <2>11. InUse => \A x, y \in FileBackends : Active[Instance] = <<x, y>> /\ x # y =>
              FlushTime[x] <= FlushTime[y] \/ running[Instance] \in {x, y} \/ Announcing(y)
    BY <1>0 DEF OrderInv, SortedInv
  <2>12. AskedInv'
    BY <2>2, <2>4, <2>6, <2>7, <2>10, TimesAre DEF AskedInv
  <2>13. SortedInv'
    <3> SUFFICES ASSUME InUse', NEW x \in FileBackends, NEW y \in FileBackends,
                        Active'[Instance'] = <<x, y>>, x # y, ~ Announcing(y)',
                        running'[Instance'] \notin {x, y}
                 PROVE  FlushTime'[x] <= FlushTime'[y]
      BY DEF SortedInv
    <3>1. InUse /\ Active[Instance] = <<x, y>> /\ running[Instance] \notin {x,
            y} /\ ~ Announcing(y)
      BY <2>2, <2>3, <2>6
    <3>2. FlushTime[x] # NoTime /\ FlushTime[y] # NoTime /\ FlushTime'[y] = FlushTime[y]
      BY <3>1, <2>4, <2>9, <2>10
    <3>3. FlushTime[x] <= FlushTime[y]
      BY <3>1, <2>11
    <3>4. FlushTime'[x] = FlushTime[x] \/ FlushTime'[x] = RIGHT_NOW
      BY <3>2, <2>5
    <3>5. QED
      BY <3>2, <3>3, <3>4, <2>8, TimesAre
  <2>14. SleepInv'
    BY <1>0, <2>2, <2>3, <2>4, <2>6, <2>7 DEF OrderInv, SleepInv
  <2>15. QED
    BY <2>12, <2>13, <2>14 DEF OrderInv
<1>9. ASSUME NEW b \in FileBackends, Freeze(b) PROVE OrderInv'
  <2>1. /\ at[b] = "idle"
        /\ ~ ShutdownFlag[b]
        /\ UNCHANGED <<Instance, Active, StopRequested, Reschedule, CurrentEarliestTime, place,
              running, flushed, outdated>>
        /\ \A c \in FileBackends : FlushTime'[c] = IF c = b THEN IF Asks(b) THEN RIGHT_NOW
              ELSE FlushTime[b] ELSE FlushTime[c]
        /\ \A u \in Clients : at'[u] = IF u = b THEN IF Asks(b) THEN "notify" ELSE "idle"
              ELSE at[u]
    BY <1>0, <1>9, FreezeDoes
  <2>2. InUse' => InUse /\ Instance' = Instance
    BY <2>1, ClientsAre DEF InUse
  <2>3. \A c \in FileBackends : Announcing(c) => Announcing(c)'
    BY <2>1, ClientsAre DEF Announcing
  <2>4. \A c \in FileBackends :
          FlushTime'[c] = FlushTime[c] \/ (FlushTime'[c] \in Times /\ Announcing(c)')
    BY <1>0, <2>1, ClientsAre, AsksFor DEF Announcing
  <2>5. \A c \in FileBackends :
          FlushTime'[c] = FlushTime[c] \/ FlushTime'[c] = RIGHT_NOW \/ FlushTime[c] = NoTime
    BY <2>1
  <2>6. UNCHANGED <<Active, running, place, Reschedule, CurrentEarliestTime>>
    BY <2>1
  <2>7. InUse => \A c \in ToSet(Active[Instance]) : c \in FileBackends
    BY <1>0, InstanceIs, ListsAreSets DEF InUse
  <2>8. \A c \in FileBackends : FlushTime[c] \in Times \cup {NoTime}
    BY <1>0, <2>1 DEF TypesOK
  <2>9. \A x, y \in FileBackends : Active[Instance] = <<x, y>> /\ x # y =>
          x \in ToSet(Active[Instance]) /\ y \in ToSet(Active[Instance])
    BY TwoList
  <2>10. InUse => \A c \in ToSet(Active[Instance]) :
           FlushTime[c] = NoTime => c = running[Instance]
    BY <1>0 DEF OrderInv, AskedInv
  <2>11. InUse => \A x, y \in FileBackends : Active[Instance] = <<x, y>> /\ x # y =>
              FlushTime[x] <= FlushTime[y] \/ running[Instance] \in {x, y} \/ Announcing(y)
    BY <1>0 DEF OrderInv, SortedInv
  <2>12. AskedInv'
    BY <2>2, <2>4, <2>6, <2>7, <2>10, TimesAre DEF AskedInv
  <2>13. SortedInv'
    <3> SUFFICES ASSUME InUse', NEW x \in FileBackends, NEW y \in FileBackends,
                        Active'[Instance'] = <<x, y>>, x # y, ~ Announcing(y)',
                        running'[Instance'] \notin {x, y}
                 PROVE  FlushTime'[x] <= FlushTime'[y]
      BY DEF SortedInv
    <3>1. InUse /\ Active[Instance] = <<x, y>> /\ running[Instance] \notin {x,
            y} /\ ~ Announcing(y)
      BY <2>2, <2>3, <2>6
    <3>2. FlushTime[x] # NoTime /\ FlushTime[y] # NoTime /\ FlushTime'[y] = FlushTime[y]
      BY <3>1, <2>4, <2>9, <2>10
    <3>3. FlushTime[x] <= FlushTime[y]
      BY <3>1, <2>11
    <3>4. FlushTime'[x] = FlushTime[x] \/ FlushTime'[x] = RIGHT_NOW
      BY <3>2, <2>5
    <3>5. QED
      BY <3>2, <3>3, <3>4, <2>8, TimesAre
  <2>14. SleepInv'
    BY <1>0, <2>2, <2>3, <2>4, <2>6, <2>7 DEF OrderInv, SleepInv
  <2>15. QED
    BY <2>12, <2>13, <2>14 DEF OrderInv
<1>10. ASSUME NEW b \in FileBackends, Flush(b) PROVE OrderInv'
  <2>1. /\ at[Flusher] = "idle"
        /\ Registered[b] \/ ShutdownFlag[b]
        /\ at[Owner] = "idle"
        /\ UNCHANGED <<Instance, Active, StopRequested, Reschedule, CurrentEarliestTime, place,
              running, FlushTime, outdated>>
        /\ \A u \in Clients : at'[u] = IF u = Flusher THEN "publish" ELSE at[u]
        /\ flushed' = b
    BY <1>0, <1>10, FlushDoes
  <2>2. InUse' => InUse /\ Instance' = Instance
    BY <2>1, ClientsAre DEF InUse
  <2>3. ListKept
    BY <2>1 DEF ListKept
  <2>4. AnnouncingKept
    BY <2>1, ClientsAre DEF Announcing, After, AnnouncingKept
  <2>5. QED
    BY <1>0, <2>2, <2>3, <2>4, UndisturbedList
<1>11. ASSUME Publishes PROVE OrderInv'
  <2>1. /\ at[Flusher] \in {"publish", "enqueue"}
        /\ flushed \in FileBackends
        /\ UNCHANGED <<Instance, Active, StopRequested, Reschedule, CurrentEarliestTime, place,
              running, FlushTime, outdated, flushed>>
        /\ at'[Flusher] \in {"publish", "enqueue"}
        /\ \A u \in Clients : u # Flusher => at'[u] = at[u]
    BY <1>0, <1>11, PublishesDoes
  <2>2. InUse' => InUse /\ Instance' = Instance
    BY <2>1, ClientsAre DEF InUse
  <2>3. ListKept
    BY <2>1 DEF ListKept
  <2>4. AnnouncingKept
    BY <2>1, ClientsAre DEF Announcing, After, AnnouncingKept
  <2>5. QED
    BY <1>0, <2>2, <2>3, <2>4, UndisturbedList
<1>12. ASSUME AllPublished PROVE OrderInv'
  <2>1. /\ at[Flusher] = "publish"
        /\ flushed \in FileBackends
        /\ UNCHANGED <<Instance, Active, StopRequested, Reschedule, CurrentEarliestTime, place,
              running, outdated, flushed>>
        /\ \A c \in FileBackends : FlushTime'[c] = IF c = flushed THEN IF Asks(c)
              THEN RIGHT_NOW ELSE FlushTime[c] ELSE FlushTime[c]
        /\ \A u \in Clients : at'[u] = IF u = Flusher THEN IF Asks(flushed) THEN "notify"
              ELSE "flushing" ELSE at[u]
    BY <1>0, <1>12, AllPublishedDoes
  <2>2. InUse' => InUse /\ Instance' = Instance
    BY <2>1, ClientsAre DEF InUse
  <2>3. \A c \in FileBackends : Announcing(c) => Announcing(c)'
    BY <2>1, ClientsAre DEF Announcing
  <2>4. \A c \in FileBackends :
          FlushTime'[c] = FlushTime[c] \/ (FlushTime'[c] \in Times /\ Announcing(c)')
    BY <1>0, <2>1, ClientsAre, AsksFor DEF Announcing
  <2>5. \A c \in FileBackends :
          FlushTime'[c] = FlushTime[c] \/ FlushTime'[c] = RIGHT_NOW \/ FlushTime[c] = NoTime
    BY <2>1
  <2>6. UNCHANGED <<Active, running, place, Reschedule, CurrentEarliestTime>>
    BY <2>1
  <2>7. InUse => \A c \in ToSet(Active[Instance]) : c \in FileBackends
    BY <1>0, InstanceIs, ListsAreSets DEF InUse
  <2>8. \A c \in FileBackends : FlushTime[c] \in Times \cup {NoTime}
    BY <1>0, <2>1 DEF TypesOK
  <2>9. \A x, y \in FileBackends : Active[Instance] = <<x, y>> /\ x # y =>
          x \in ToSet(Active[Instance]) /\ y \in ToSet(Active[Instance])
    BY TwoList
  <2>10. InUse => \A c \in ToSet(Active[Instance]) :
           FlushTime[c] = NoTime => c = running[Instance]
    BY <1>0 DEF OrderInv, AskedInv
  <2>11. InUse => \A x, y \in FileBackends : Active[Instance] = <<x, y>> /\ x # y =>
              FlushTime[x] <= FlushTime[y] \/ running[Instance] \in {x, y} \/ Announcing(y)
    BY <1>0 DEF OrderInv, SortedInv
  <2>12. AskedInv'
    BY <2>2, <2>4, <2>6, <2>7, <2>10, TimesAre DEF AskedInv
  <2>13. SortedInv'
    <3> SUFFICES ASSUME InUse', NEW x \in FileBackends, NEW y \in FileBackends,
                        Active'[Instance'] = <<x, y>>, x # y, ~ Announcing(y)',
                        running'[Instance'] \notin {x, y}
                 PROVE  FlushTime'[x] <= FlushTime'[y]
      BY DEF SortedInv
    <3>1. InUse /\ Active[Instance] = <<x, y>> /\ running[Instance] \notin {x,
            y} /\ ~ Announcing(y)
      BY <2>2, <2>3, <2>6
    <3>2. FlushTime[x] # NoTime /\ FlushTime[y] # NoTime /\ FlushTime'[y] = FlushTime[y]
      BY <3>1, <2>4, <2>9, <2>10
    <3>3. FlushTime[x] <= FlushTime[y]
      BY <3>1, <2>11
    <3>4. FlushTime'[x] = FlushTime[x] \/ FlushTime'[x] = RIGHT_NOW
      BY <3>2, <2>5
    <3>5. QED
      BY <3>2, <3>3, <3>4, <2>8, TimesAre
  <2>14. SleepInv'
    BY <1>0, <2>2, <2>3, <2>4, <2>6, <2>7 DEF OrderInv, SleepInv
  <2>15. QED
    BY <2>12, <2>13, <2>14 DEF OrderInv
<1>13. ASSUME FlushDone PROVE OrderInv'
  <2>1. /\ at[Flusher] = "flushing"
        /\ UNCHANGED <<Instance, Active, StopRequested, Reschedule, CurrentEarliestTime, place,
              running, FlushTime, outdated>>
        /\ \A u \in Clients : at'[u] = IF u = Flusher THEN "idle" ELSE at[u]
        /\ flushed' = NoBackend
    BY <1>0, <1>13, FlushDoneDoes
  <2>2. InUse' => InUse /\ Instance' = Instance
    BY <2>1, ClientsAre DEF InUse
  <2>3. ListKept
    BY <2>1 DEF ListKept
  <2>4. AnnouncingKept
    BY <2>1, ClientsAre DEF Announcing, After, AnnouncingKept
  <2>5. QED
    BY <1>0, <2>2, <2>3, <2>4, UndisturbedList
<1>14. ASSUME NEW t \in Clients, NotifyFactory(t) PROVE OrderInv'
  <2>1. /\ at[t] = "notify"
        /\ UNCHANGED <<Instance, Active, StopRequested, Reschedule, CurrentEarliestTime, place,
              running, FlushTime, flushed, outdated>>
        /\ \A u \in Clients : at'[u] = IF u = t THEN IF Instance = 0 THEN After(t)
              ELSE "announce" ELSE at[u]
    BY <1>0, <1>14, NotifyFactoryDoes
  <2>2. t # Owner /\ t \in FileBackends \cup {Flusher}
    BY <1>0, <2>1, ClientsAre DEF ClientsInv, LabelsInv
  <2>3. InUse' => InUse /\ Instance' = Instance
    BY <2>1, <2>2, ClientsAre DEF InUse
  <2>4. ListKept
    BY <2>1, <2>3 DEF ListKept
  <2>5. AnnouncingKept
    BY <2>1, <2>2, ClientsAre DEF Announcing, InUse, AnnouncingKept
  <2>6. QED
    BY <1>0, <2>3, <2>4, <2>5, UndisturbedList
<1>15. ASSUME NEW t \in Clients, NotifyManager(t) PROVE OrderInv'
  <2>1. /\ at[t] = "announce"
        /\ held[t] \in Managers
        /\ when[t] \in Times
        /\ BackendOf(t) \in FileBackends
        /\ UNCHANGED <<Instance, StopRequested, CurrentEarliestTime, running, FlushTime,
              flushed>>
        /\ \A n \in Managers : Active'[n] = IF n = held[t] THEN IF Registered[BackendOf(t)]
              THEN Activate(Active[n], BackendOf(t), when[t]) ELSE Active[n] ELSE Active[n]
        /\ \A n \in Managers : Reschedule'[n] = IF n = held[t]
              THEN Reschedule[n] \/ (Registered[BackendOf(t)] /\ Wakes(n, BackendOf(t), when[t],
              Activate(Active[n], BackendOf(t), when[t]))) ELSE Reschedule[n]
        /\ \A n \in Managers : place'[n] = IF n = held[t] THEN IF LastReference(t, held[t])
              THEN "destroy" ELSE place[n] ELSE place[n]
        /\ \A u \in Clients : at'[u] = IF u = t THEN IF LastReference(t, held[t]) THEN "drop"
              ELSE After(t) ELSE at[u]
        /\ outdated' = IF when[t] = FlushTime[BackendOf(t)] THEN outdated
              ELSE outdated \cup {held[t]}
    BY <1>0, <1>15, NotifyManagerDoes
  <2>2. t # Owner /\ (t = Flusher \/ t \in FileBackends)
    BY <1>0, <2>1, Notifying, ClientsAre
  <2>3. InUse' =>
                  /\ InUse /\ Instance' = Instance /\ Instance \in Managers
                  /\ (held[t] = Instance => when[t] = FlushTime[BackendOf(t)])
    BY <1>0, <2>1, <2>2, InstanceIs, ClientsAre DEF InUse
  <2>4. Registered[BackendOf(t)] => held[t] = Instance
    BY <1>0, <2>1 DEF NotifiedInv, BackendOf
  <2>5. InUse => place'[Instance] = place[Instance]
    BY <1>0, <2>1, InstanceIs DEF InUse, LastReference
  <2>6. \A c \in FileBackends : c # BackendOf(t) /\ Announcing(c) => Announcing(c)'
    BY <2>1, <2>2, ClientsAre DEF Announcing, BackendOf
  <2>7. UNCHANGED <<FlushTime, running, CurrentEarliestTime>>
    BY <2>1
  <2>8. InUse => \A c \in ToSet(Active[Instance]) : c \in FileBackends
    BY <1>0, InstanceIs, ListsAreSets DEF InUse
  <2>9. InUse => \A c \in ToSet(Active[Instance]) :
          FlushTime[c] = NoTime => c = running[Instance]
    BY <1>0 DEF OrderInv, AskedInv
  <2>10. InUse => \A x, y \in FileBackends : Active[Instance] = <<x, y>> /\ x # y =>
              FlushTime[x] <= FlushTime[y] \/ running[Instance] \in {x, y} \/ Announcing(y)
    BY <1>0 DEF OrderInv, SortedInv
  <2>11. \A x, y \in FileBackends : Active[Instance] = <<x, y>> /\ x # y =>
           x \in ToSet(Active[Instance]) /\ y \in ToSet(Active[Instance])
    BY TwoList
  <2>12. BackendOf(t) \in FileBackends /\ when[t] \in Times /\ FlushTime \in [FileBackends -> Times \cup {NoTime}]
    BY <1>0, <2>1 DEF TypesOK
  <2>13. InUse /\ ~ Registered[BackendOf(t)] =>
                  /\ Active'[Instance] = Active[Instance]
                  /\ BackendOf(t) \notin ToSet(Active[Instance])
                  /\ ~ Reschedule'[Instance] => ~ Reschedule[Instance]
    BY <1>0, <2>1, InstanceIs DEF InUse, BackendsInv, ActiveInv
  <2>14. InUse /\ Registered[BackendOf(t)] =>
                  /\ IsList(Active[Instance])
                  /\ Active'[Instance] = Activate(Active[Instance], BackendOf(t), when[t])
                  /\ ~ Reschedule'[Instance] =>
                        ~ Reschedule[Instance] /\ ~ when[t] < CurrentEarliestTime[Instance]
    BY <1>0, <2>1, <2>4, InstanceIs, ActiveIs DEF InUse, Wakes
  <2>15. InUse /\ Registered[BackendOf(t)] =>
           ToSet(Active'[Instance]) = ToSet(Active[Instance]) \cup {BackendOf(t)}
    <3>1. SUFFICES ASSUME InUse, Registered[BackendOf(t)]
                  PROVE  ToSet(Active'[Instance]) = ToSet(Active[Instance]) \cup {BackendOf(t)}
      OBVIOUS
    <3>2. IsList(Active[Instance]) /\ Active'[Instance] = Activate(Active[Instance],
            BackendOf(t), when[t])
      BY <2>14, <3>1
    <3>3. QED
      BY <2>12, <3>2, ActivateIs
  <2>16. AskedInv'
    BY <2>3, <2>4, <2>7, <2>9, <2>12, <2>13, <2>15, TimesAre DEF AskedInv
  <2>17. SortedInv'
    <3> SUFFICES ASSUME InUse', NEW x \in FileBackends, NEW y \in FileBackends,
                        Active'[Instance'] = <<x, y>>, x # y, ~ Announcing(y)',
                        running'[Instance'] \notin {x, y}
                 PROVE  FlushTime'[x] <= FlushTime'[y]
      BY DEF SortedInv
    <3> DEFINE b == BackendOf(t)
    <3>1. InUse /\ Active'[Instance] = <<x, y>> /\ running[Instance] \notin {x,
            y} /\ UNCHANGED FlushTime
      BY <2>3, <2>7
    <3>2. CASE ~ Registered[b]
      <4>1. Active[Instance] = <<x, y>> /\ y # b
        BY <2>11, <2>13, <3>1, <3>2
      <4>2. ~ Announcing(y)
        BY <2>6, <4>1
      <4>3. QED
        BY <2>10, <3>1, <4>1, <4>2
    <3>3. CASE Registered[b]
      <4>1. /\ IsList(Active[Instance]) /\ b \in FileBackends
            /\ Activate(Active[Instance], b, when[t]) = <<x, y>>
        BY <2>12, <2>14, <3>1, <3>3
      <4>2. when[t] = FlushTime[b]
        BY <2>3, <2>4, <3>3
      <4>3. ToSet(<<x, y>>) = {x, y} /\ Len(<<x, y>>) = 2 /\ <<x, y>>[1] = x /\ <<x, y>>[2] = y
        BY TwoList
      <4>4. (b = x /\ (FlushTime[x] = RIGHT_NOW \/ FlushTime[x] < FlushTime[y])) \/ FlushTime[x] <= FlushTime[y]
        <5> HIDE DEF b
        <5>1. Placed(Activate(Active[Instance], b, when[t]), b, when[t])
          BY <2>12, <4>1, ActivatePlaces
        <5>2. Placed(<<x, y>>, b, when[t])
          BY <4>1, <5>1
        <5>3. QED
          BY <4>1, <4>2, <5>2, PlacedOfTwo
      <4>5. b = x => FlushTime[y] # NoTime
        BY <2>9, <2>15, <3>1, <3>3, <4>3
      <4>6. FlushTime[x] \in Times \cup {NoTime} /\ FlushTime[y] \in Times \cup {NoTime}
        BY <2>12
      <4>7. QED
        BY <3>1, <4>4, <4>5, <4>6, TimesAre
    <3>4. QED
      BY <3>2, <3>3
  <2>18. SleepInv'
    <3> SUFFICES ASSUME InUse', place'[Instance'] = "wait", ~ Reschedule'[Instance'],
                        NEW c \in ToSet(Active'[Instance']), ~ Announcing(c)'
                 PROVE  CurrentEarliestTime'[Instance'] <= FlushTime'[c]
      BY DEF SleepInv
    <3>1. /\ InUse /\ place[Instance] = "wait" /\ ~ Reschedule'[Instance] /\ c \in ToSet(Active'[Instance])
          /\ UNCHANGED <<Instance, FlushTime, CurrentEarliestTime>>
      BY <2>3, <2>5, <2>7
    <3>2. ~ Reschedule[Instance]
      BY <2>13, <2>14, <3>1
    <3>3. CASE c # BackendOf(t)
      <4>1. c \in ToSet(Active[Instance])
        BY <2>13, <2>15, <3>1, <3>3
      <4>2. ~ Announcing(c)
        BY <2>6, <2>8, <3>1, <3>3, <4>1
      <4>3. QED
        BY <1>0, <3>1, <3>2, <4>1, <4>2 DEF OrderInv, SleepInv
    <3>4. CASE c = BackendOf(t)
      <4>1. Registered[BackendOf(t)]
        BY <2>13, <3>1, <3>4
      <4>2. when[t] = FlushTime[c] /\ ~ when[t] < CurrentEarliestTime[Instance]
        <5>1. when[t] = FlushTime[c]
          BY <2>3, <2>4, <3>4, <4>1
        <5>2. ~ when[t] < CurrentEarliestTime[Instance]
          BY <2>14, <3>1, <4>1
        <5>3. QED
          BY <5>1, <5>2
      <4>3. CurrentEarliestTime[Instance] \in Times \cup {Never} /\ FlushTime[c] \in Times
        BY <1>0, <2>3, <2>12, <4>2 DEF TypesOK
      <4>4. QED
        BY <3>1, <4>2, <4>3, TimesAre
    <3>5. QED
      BY <3>3, <3>4
  <2>19. QED
    BY <2>16, <2>17, <2>18 DEF OrderInv
<1>16. ASSUME NEW m \in Managers, Exit(m) PROVE OrderInv'
  <2>1. /\ place[m] = "loop"
        /\ StopRequested[m]
        /\ UNCHANGED <<Instance, Active, StopRequested, Reschedule, CurrentEarliestTime,
              running, FlushTime, at, flushed, outdated>>
        /\ \A n \in Managers : place'[n] = IF n = m THEN "exited" ELSE place[n]
    BY <1>0, <1>16, ExitDoes
  <2>2. InUse' => InUse /\ Instance' = Instance
    BY <2>1 DEF InUse
  <2>3. ListKept
    BY <2>1, <2>2, <1>0, InstanceIs DEF InUse, ListKept
  <2>4. AnnouncingKept
    BY <2>1, ClientsAre DEF Announcing, After, AnnouncingKept
  <2>5. QED
    BY <1>0, <2>2, <2>3, <2>4, UndisturbedList
<1>17. ASSUME NEW m \in Managers, WaitForWork(m) PROVE OrderInv'
  <2>1. /\ place[m] = "loop"
        /\ ~ StopRequested[m]
        /\ WithoutStale(Active[m]) # <<>> => FlushTime[Head(WithoutStale(Active[m]))] > Due
        /\ UNCHANGED <<Instance, StopRequested, Reschedule, running, FlushTime, at, flushed,
              outdated>>
        /\ \A n \in Managers : Active'[n] = IF n = m THEN WithoutStale(Active[m]) ELSE Active[n]
        /\ \A n \in Managers : CurrentEarliestTime'[n] = IF n = m
              THEN IF WithoutStale(Active[m]) = <<>> THEN Never
              ELSE FlushTime[Head(WithoutStale(Active[m]))] ELSE CurrentEarliestTime[n]
        /\ \A n \in Managers : place'[n] = IF n = m THEN "wait" ELSE place[n]
    BY <1>0, <1>17, WaitForWorkDoes
  <2>2. m = Instance /\ running[m] = NoBackend
    BY <1>0, <2>1 DEF PlacesInv, StoppingInv, RunningInv
  <2>3. (InUse' => InUse) /\ UNCHANGED <<Instance, FlushTime>>
    BY <2>1 DEF InUse
  <2>4. \A c \in FileBackends : Announcing(c) => Announcing(c)'
    BY <2>1 DEF Announcing
  <2>5. InUse => \A c \in ToSet(Active[Instance]) : c \in FileBackends
    BY <1>0, InstanceIs, ListsAreSets DEF InUse
  <2>6. InUse => \A c \in ToSet(Active[Instance]) :
          FlushTime[c] = NoTime => c = running[Instance]
    BY <1>0 DEF OrderInv, AskedInv
  <2>7. InUse => \A x, y \in FileBackends : Active[Instance] = <<x, y>> /\ x # y =>
              FlushTime[x] <= FlushTime[y] \/ running[Instance] \in {x, y} \/ Announcing(y)
    BY <1>0 DEF OrderInv, SortedInv
  <2>8. InUse => \A c \in ToSet(Active[m]) : FlushTime[c] # NoTime
    BY <2>2, <2>5, <2>6, ClientsAre
  <2>9. IsList(Active'[m]) /\ ToSet(Active'[m]) \subseteq ToSet(Active[m])
                 /\ (Active'[m] = Active[m] \/ Len(Active'[m]) < 2)
    BY <1>0, <2>1, ActiveIs, WithoutStaleIs
  <2>10. UNCHANGED running
    BY <2>1
  <2>11. Active'[m] # <<>> => CurrentEarliestTime'[m] = FlushTime[Head(Active'[m])]
    BY <2>1
  <2>12. AskedInv'
    BY <2>2, <2>3, <2>8, <2>9 DEF AskedInv
  <2>13. SortedInv'
    BY <2>2, <2>3, <2>4, <2>7, <2>9, <2>10, TwoList DEF SortedInv
  <2>14. SleepInv'
    <3> SUFFICES ASSUME InUse', NEW c \in ToSet(Active'[Instance']), ~ Announcing(c)'
                 PROVE  CurrentEarliestTime'[Instance'] <= FlushTime'[c]
      BY DEF SleepInv
    <3>1. InUse /\ Instance' = m /\ c \in ToSet(Active'[m]) /\ c \in ToSet(Active[m]) /\ c \in FileBackends
      BY <2>2, <2>3, <2>5, <2>9
    <3>2. ~ Announcing(c) /\ FlushTime[c] \in Times
      BY <1>0, <2>4, <2>8, <3>1 DEF TypesOK
    <3>3. CASE Active'[m] = <<>>
      BY <3>1, <3>3, EmptyList
    <3>4. CASE \E x \in FileBackends : Active'[m] = <<x>>
      <4>1. CurrentEarliestTime'[m] = FlushTime[c]
        BY <2>11, <3>1, <3>4, OneList
      <4>2. QED
        BY <2>3, <3>1, <3>2, <4>1, TimesAre
    <3>5. CASE \E x, y \in FileBackends : x # y /\ Active'[m] = <<x, y>>
      <4>1. PICK x \in FileBackends, y \in FileBackends : x # y /\ Active'[m] = <<x, y>>
        BY <3>5
      <4>2. CurrentEarliestTime'[m] = FlushTime[x] /\ c \in {x, y} /\ Len(Active'[m]) = 2
        <5>1. c \in {x, y} /\ Len(<<x, y>>) = 2 /\ <<x, y>> # <<>> /\ Head(<<x, y>>) = x
          BY <3>1, <4>1, TwoList
        <5>2. QED
          BY <2>11, <4>1, <5>1
      <4>3. Active[m] = <<x, y>>
        BY <2>9, <4>1, <4>2
      <4>4. c = y => FlushTime[x] <= FlushTime[c]
        BY <2>2, <2>7, <3>1, <3>2, <4>1, <4>3, ClientsAre
      <4>5. c = x => FlushTime[x] <= FlushTime[c]
        BY <3>2, TimesAre
      <4>6. QED
        BY <2>3, <3>1, <4>2, <4>4, <4>5
    <3>6. QED
      BY <2>9, <3>3, <3>4, <3>5, ListForms
  <2>15. QED
    BY <2>12, <2>13, <2>14 DEF OrderInv
<1>18. ASSUME NEW m \in Managers, WakeUp(m) PROVE OrderInv'
  <2>1. /\ place[m] = "wait"
        /\ UNCHANGED <<Instance, Active, StopRequested, running, FlushTime, at, flushed,
              outdated>>
        /\ \A n \in Managers : Reschedule'[n] = IF n = m THEN FALSE ELSE Reschedule[n]
        /\ \A n \in Managers : CurrentEarliestTime'[n] = IF n = m THEN Never
              ELSE CurrentEarliestTime[n]
        /\ \A n \in Managers : place'[n] = IF n = m THEN "loop" ELSE place[n]
    BY <1>0, <1>18, WakeUpDoes
  <2>2. InUse' => InUse /\ Instance' = Instance
    BY <2>1 DEF InUse
  <2>3. ListKept
    BY <1>0, <2>1, <2>2, InstanceIs DEF InUse, ListKept
  <2>4. AnnouncingKept
    BY <2>1, ClientsAre DEF Announcing, After, AnnouncingKept
  <2>5. QED
    BY <1>0, <2>2, <2>3, <2>4, UndisturbedList
<1>19. ASSUME NEW m \in Managers, TakeHead(m) PROVE OrderInv'
  <2>1. /\ place[m] = "loop"
        /\ ~ StopRequested[m]
        /\ WithoutStale(Active[m]) # <<>>
        /\ UNCHANGED <<Instance, StopRequested, Reschedule, CurrentEarliestTime, FlushTime, at,
              flushed, outdated>>
        /\ \A n \in Managers : Active'[n] = IF n = m THEN Tail(WithoutStale(Active[m]))
              ELSE Active[n]
        /\ \A n \in Managers : place'[n] = IF n = m
              THEN IF Head(WithoutStale(Active[m])) \in Backends[m] THEN "work" ELSE "loop"
              ELSE place[n]
        /\ \A n \in Managers : running'[n] = IF n = m
              THEN IF Head(WithoutStale(Active[m])) \in Backends[m]
              THEN Head(WithoutStale(Active[m])) ELSE running[m] ELSE running[n]
    BY <1>0, <1>19, TakeHeadDoes
  <2>2. m = Instance /\ running[m] = NoBackend
    BY <1>0, <2>1 DEF PlacesInv, StoppingInv, RunningInv
  <2>3. (InUse' => InUse) /\ UNCHANGED <<Instance, FlushTime>>
    BY <2>1 DEF InUse
  <2>4. \A c \in FileBackends : Announcing(c) => Announcing(c)'
    BY <2>1 DEF Announcing
  <2>5. InUse => \A c \in ToSet(Active[Instance]) : c \in FileBackends
    BY <1>0, InstanceIs, ListsAreSets DEF InUse
  <2>6. InUse => \A c \in ToSet(Active[Instance]) :
          FlushTime[c] = NoTime => c = running[Instance]
    BY <1>0 DEF OrderInv, AskedInv
  <2>7. InUse => \A x, y \in FileBackends : Active[Instance] = <<x, y>> /\ x # y =>
              FlushTime[x] <= FlushTime[y] \/ running[Instance] \in {x, y} \/ Announcing(y)
    BY <1>0 DEF OrderInv, SortedInv
  <2>8. InUse => \A c \in ToSet(Active[m]) : FlushTime[c] # NoTime
    BY <2>2, <2>5, <2>6, ClientsAre
  <2>9. place'[m] # "wait"
    BY <2>1
  <2>10. IsList(WithoutStale(Active[m])) /\ ToSet(WithoutStale(Active[m])) \subseteq ToSet(Active[m])
    BY <1>0, ActiveIs, WithoutStaleIs
  <2>11. Len(Active'[m]) < 2 /\ ToSet(Active'[m]) \subseteq ToSet(Active[m])
    BY <2>1, <2>10, TailIs
  <2>12. AskedInv'
    BY <2>2, <2>3, <2>8, <2>11 DEF AskedInv
  <2>13. SortedInv'
    BY <2>2, <2>3, <2>11, TwoList DEF SortedInv
  <2>14. SleepInv'
    BY <2>2, <2>3, <2>9 DEF SleepInv
  <2>15. QED
    BY <2>12, <2>13, <2>14 DEF OrderInv
<1>20. ASSUME NEW m \in Managers, WorkerFunc(m) PROVE OrderInv'
  <2>1. /\ place[m] = "work"
        /\ running[m] \in FileBackends
        /\ UNCHANGED <<Instance, Active, StopRequested, Reschedule, CurrentEarliestTime,
              running, at, flushed, outdated>>
        /\ \A n \in Managers : place'[n] = IF n = m THEN IF ShutdownFlag[running[m]]
              THEN "remove" ELSE "again" ELSE place[n]
        /\ \A c \in FileBackends : c # running[m] => FlushTime'[c] = FlushTime[c]
    BY <1>0, <1>20, WorkerFuncDoes
  <2>2. running[m] \in Backends[m] /\ m = CurrentManager
    BY <1>0, <2>1 DEF BackendsInv, HandInv, HomeInv
  <2>3. InUse => m = Instance
    BY <2>2, ClientsAre DEF InUse, CurrentManager
  <2>4. (InUse' => InUse) /\ UNCHANGED <<Instance, Active, running>>
    BY <2>1 DEF InUse
  <2>5. \A c \in FileBackends : Announcing(c) => Announcing(c)'
    BY <2>1 DEF Announcing
  <2>6. InUse => \A c \in ToSet(Active[Instance]) : c \in FileBackends
    BY <1>0, InstanceIs, ListsAreSets DEF InUse
  <2>7. \A c \in FileBackends : c # running[m] => FlushTime'[c] = FlushTime[c]
    BY <2>1
  <2>8. place'[m] # "wait"
    BY <2>1
  <2>9. AskedInv'
    BY <1>0, <2>3, <2>4, <2>6, <2>7 DEF OrderInv, AskedInv
  <2>10. SortedInv'
    BY <1>0, <2>3, <2>4, <2>5, <2>7 DEF OrderInv, SortedInv
  <2>11. SleepInv'
    BY <2>3, <2>4, <2>8 DEF SleepInv
  <2>12. QED
    BY <2>9, <2>10, <2>11 DEF OrderInv
<1>21. ASSUME NEW m \in Managers, Reactivate(m) PROVE OrderInv'
  <2>1. /\ place[m] = "again"
        /\ running[m] \in FileBackends
        /\ UNCHANGED <<Instance, StopRequested, Reschedule, CurrentEarliestTime, FlushTime, at,
              flushed, outdated>>
        /\ \A n \in Managers : Active'[n] = IF n = m THEN IF FlushTime[running[m]] = NoTime
              THEN Without(Active[m], running[m])
              ELSE Activate(Active[m], running[m], FlushTime[running[m]]) ELSE Active[n]
        /\ \A n \in Managers : place'[n] = IF n = m THEN "loop" ELSE place[n]
        /\ \A n \in Managers : running'[n] = IF n = m THEN NoBackend ELSE running[n]
    BY <1>0, <1>21, ReactivateDoes
  <2>2. running[m] \in Backends[m] /\ m = CurrentManager
    BY <1>0, <2>1 DEF BackendsInv, HandInv, HomeInv
  <2>3. InUse => m = Instance
    BY <2>2, ClientsAre DEF InUse, CurrentManager
  <2>4. (InUse' => InUse) /\ UNCHANGED <<Instance, FlushTime>>
    BY <2>1 DEF InUse
  <2>5. \A c \in FileBackends : Announcing(c) => Announcing(c)'
    BY <2>1 DEF Announcing
  <2>6. InUse => \A c \in ToSet(Active[Instance]) : c \in FileBackends
    BY <1>0, InstanceIs, ListsAreSets DEF InUse
  <2>7. InUse => \A c \in ToSet(Active[Instance]) :
          FlushTime[c] = NoTime => c = running[Instance]
    BY <1>0 DEF OrderInv, AskedInv
  <2>8. InUse => \A x, y \in FileBackends : Active[Instance] = <<x, y>> /\ x # y =>
              FlushTime[x] <= FlushTime[y] \/ running[Instance] \in {x, y} \/ Announcing(y)
    BY <1>0 DEF OrderInv, SortedInv
  <2>9. place'[m] # "wait" /\ running'[m] = NoBackend
    BY <2>1
  <2>10. IsList(Active[m]) /\ FlushTime \in [FileBackends -> Times \cup {NoTime}]
    BY <1>0, ActiveIs DEF TypesOK
  <2>11. FlushTime[running[m]] = NoTime => Active'[m] = Without(Active[m], running[m])
    BY <2>1
  <2>12. FlushTime[running[m]] # NoTime => Active'[m] = Activate(Active[m], running[m],
           FlushTime[running[m]]) /\ FlushTime[running[m]] \in Times
    BY <2>1, <2>10
  <2>13. FlushTime[running[m]] = NoTime => ToSet(Active'[m]) = ToSet(Active[m]) \ {running[m]}
    BY <2>1, <2>10, <2>11, WithoutIs
  <2>14. FlushTime[running[m]] # NoTime =>
           ToSet(Active'[m]) = ToSet(Active[m]) \cup {running[m]}
    BY <2>1, <2>10, <2>12, ActivateIs
  <2>15. InUse => \A c \in ToSet(Active'[m]) : FlushTime[c] # NoTime
    BY <2>3, <2>7, <2>13, <2>14
  <2>16. AskedInv'
    BY <2>3, <2>4, <2>15 DEF AskedInv
  <2>17. SortedInv'
    <3> SUFFICES ASSUME InUse', NEW x \in FileBackends, NEW y \in FileBackends,
                        Active'[Instance'] = <<x, y>>, x # y, ~ Announcing(y)'
                 PROVE  FlushTime'[x] <= FlushTime'[y]
      BY DEF SortedInv
    <3>1. InUse /\ m = Instance /\ Active'[m] = <<x,
            y>> /\ ~ Announcing(y) /\ UNCHANGED FlushTime
      BY <2>3, <2>4, <2>5
    <3>2. ToSet(<<x, y>>) = {x, y} /\ Len(<<x, y>>) = 2 /\ <<x, y>> # <<>> /\ <<x,
            y>>[1] = x /\ <<x, y>>[2] = y
      BY TwoList
    <3>3. FlushTime[x] \in Times /\ FlushTime[y] \in Times
      BY <2>10, <2>15, <3>1, <3>2
    <3>4. CASE FlushTime[running[m]] = NoTime
      <4>1. Active[m] = <<x, y>>
        BY <2>1, <2>10, <2>11, <3>1, <3>2, <3>4, WithoutIs
      <4>2. running[m] \notin {x, y}
        BY <3>3, <3>4, TimesAre
      <4>3. QED
        BY <2>8, <3>1, <4>1, <4>2
    <3>5. CASE FlushTime[running[m]] # NoTime
      <4> DEFINE r == running[m]
      <4>1. r \in FileBackends /\ FlushTime[r] \in Times /\ Activate(Active[m], r,
              FlushTime[r]) = <<x, y>>
        BY <2>1, <2>12, <3>1, <3>5
      <4>2. (r = x /\ (FlushTime[x] = RIGHT_NOW \/ FlushTime[x] < FlushTime[y])) \/ FlushTime[x] <= FlushTime[y]
        <5> HIDE DEF r
        <5>1. Placed(Activate(Active[m], r, FlushTime[r]), r, FlushTime[r])
          BY <2>10, <4>1, ActivatePlaces
        <5>2. Placed(<<x, y>>, r, FlushTime[r])
          BY <4>1, <5>1
        <5>3. QED
          BY <4>1, <5>2, PlacedOfTwo
      <4>3. QED
        BY <3>1, <3>3, <4>2, TimesAre
    <3>6. QED
      BY <3>4, <3>5
  <2>18. SleepInv'
    BY <2>3, <2>4, <2>9 DEF SleepInv
  <2>19. QED
    BY <2>16, <2>17, <2>18 DEF OrderInv
<1>22. ASSUME NEW m \in Managers, RemoveBackendLocked(m) PROVE OrderInv'
  <2>1. /\ place[m] = "remove"
        /\ running[m] \in FileBackends
        /\ UNCHANGED <<Instance, Reschedule, CurrentEarliestTime, running, at, flushed,
              outdated>>
        /\ \A n \in Managers : Active'[n] = IF n = m THEN Without(Active[m], running[m])
              ELSE Active[n]
        /\ \A n \in Managers : StopRequested'[n] = IF n = m
              THEN StopRequested[m] \/ Backends[m] \subseteq {running[m]} ELSE StopRequested[n]
        /\ \A n \in Managers : place'[n] = IF n = m THEN "shutdown" ELSE place[n]
        /\ \A c \in FileBackends : FlushTime'[c] = IF c = running[m] THEN NoTime
              ELSE FlushTime[c]
    BY <1>0, <1>22, RemoveBackendLockedDoes
  <2>2. running[m] \in Backends[m] /\ m = CurrentManager
    BY <1>0, <2>1 DEF BackendsInv, HandInv, HomeInv
  <2>3. InUse' => InUse
    BY <1>0, <2>1, InstanceIs DEF InUse
  <2>4. InUse => m = Instance
    BY <2>2, ClientsAre DEF InUse, CurrentManager
  <2>5. \A c \in FileBackends : Announcing(c) => Announcing(c)'
    BY <2>1 DEF Announcing
  <2>6. InUse => \A c \in ToSet(Active[Instance]) : c \in FileBackends
    BY <1>0, InstanceIs, ListsAreSets DEF InUse
  <2>7. InUse => \A c \in ToSet(Active[Instance]) :
          FlushTime[c] = NoTime => c = running[Instance]
    BY <1>0 DEF OrderInv, AskedInv
  <2>8. InUse => \A x, y \in FileBackends : Active[Instance] = <<x, y>> /\ x # y =>
              FlushTime[x] <= FlushTime[y] \/ running[Instance] \in {x, y} \/ Announcing(y)
    BY <1>0 DEF OrderInv, SortedInv
  <2>9. place'[m] # "wait" /\ UNCHANGED <<Instance, running>>
    BY <2>1
  <2>10. \A c \in FileBackends : c # running[m] => FlushTime'[c] = FlushTime[c]
    BY <2>1
  <2>11. ToSet(Active'[m]) = ToSet(Active[m]) \ {running[m]}
    BY <1>0, <2>1, ActiveIs, WithoutIs
  <2>12. Active'[m] = <<>> \/ (\E z \in FileBackends :
           Active'[m] = <<z>>) \/ Active'[m] = Active[m]
    BY <1>0, <2>1, ActiveIs, WithoutIs
  <2>13. AskedInv'
    BY <2>3, <2>4, <2>6, <2>7, <2>9, <2>10, <2>11 DEF AskedInv
  <2>14. SortedInv'
    <3> SUFFICES ASSUME InUse', NEW x \in FileBackends, NEW y \in FileBackends,
                        Active'[Instance'] = <<x, y>>, x # y, ~ Announcing(y)'
                 PROVE  FlushTime'[x] <= FlushTime'[y]
      BY DEF SortedInv
    <3>1. InUse /\ m = Instance /\ Active'[m] = <<x, y>> /\ ~ Announcing(y)
      BY <2>3, <2>4, <2>5, <2>9
    <3>2. ToSet(<<x, y>>) = {x, y} /\ Len(<<x, y>>) = 2 /\ <<x, y>> # <<>>
      BY TwoList
    <3>3. Active[m] = <<x, y>>
      BY <2>12, <3>1, <3>2, OneList
    <3>4. running[m] \notin {x, y}
      BY <2>11, <3>1, <3>2
    <3>5. QED
      BY <2>8, <2>10, <3>1, <3>3, <3>4
  <2>15. SleepInv'
    BY <2>3, <2>4, <2>9 DEF SleepInv
  <2>16. QED
    BY <2>13, <2>14, <2>15 DEF OrderInv
<1>23. ASSUME NEW m \in Managers, OnShutdown(m) PROVE OrderInv'
  <2>1. /\ place[m] = "shutdown"
        /\ running[m] \in FileBackends
        /\ UNCHANGED <<Instance, Active, StopRequested, Reschedule, CurrentEarliestTime,
              FlushTime, at, flushed, outdated>>
        /\ \A n \in Managers : place'[n] = IF n = m THEN "loop" ELSE place[n]
        /\ \A n \in Managers : running'[n] = IF n = m THEN NoBackend ELSE running[n]
    BY <1>0, <1>23, OnShutdownDoes
  <2>2. (InUse' => InUse) /\ UNCHANGED <<Instance, Active, FlushTime, CurrentEarliestTime,
          Reschedule>>
    BY <2>1 DEF InUse
  <2>3. \A c \in FileBackends : Announcing(c) => Announcing(c)'
    BY <2>1 DEF Announcing
  <2>4. InUse => \A c \in ToSet(Active[Instance]) : c \in FileBackends
    BY <1>0, InstanceIs, ListsAreSets DEF InUse
  <2>5. \A x, y \in FileBackends : Active[Instance] = <<x, y>> /\ x # y =>
          x \in ToSet(Active[Instance]) /\ y \in ToSet(Active[Instance])
    BY TwoList
  <2>6. InUse => \A c \in ToSet(Active[Instance]) :
          FlushTime[c] = NoTime => c = running[Instance]
    BY <1>0 DEF OrderInv, AskedInv
  <2>7. InUse => \A x, y \in FileBackends : Active[Instance] = <<x, y>> /\ x # y =>
              FlushTime[x] <= FlushTime[y] \/ running[Instance] \in {x, y} \/ Announcing(y)
    BY <1>0 DEF OrderInv, SortedInv
  <2>8. InUse /\ m # Instance =>
          place'[Instance] = place[Instance] /\ running'[Instance] = running[Instance]
    BY <1>0, <2>1, InstanceIs DEF InUse
  <2>9. place'[m] # "wait" /\ running[m] \notin ToSet(Active[m])
    BY <1>0, <2>1, ClientsAre DEF BackendsInv, ActiveInv, HandInv
  <2>10. AskedInv'
    BY <2>2, <2>6, <2>8, <2>9 DEF AskedInv
  <2>11. SortedInv'
    BY <2>2, <2>3, <2>5, <2>7, <2>8, <2>9 DEF SortedInv
  <2>12. SleepInv'
    BY <1>0, <2>2, <2>3, <2>4, <2>8, <2>9 DEF OrderInv, SleepInv
  <2>13. QED
    BY <2>10, <2>11, <2>12 DEF OrderInv
<1>24. ASSUME NEW m \in Managers, Unregister(m) PROVE OrderInv'
  <2>1. /\ place[m] = "destroy"
        /\ running[m] = NoBackend
        /\ running'[m] \in Backends[m]
        /\ UNCHANGED <<Instance, StopRequested, Reschedule, CurrentEarliestTime, place, at,
              flushed, outdated>>
        /\ \A n \in Managers : Active'[n] = IF n = m THEN Without(Active[m], running'[m])
              ELSE Active[n]
        /\ \A n \in Managers : running'[n] = IF n = m THEN running'[m] ELSE running[n]
        /\ \A c \in FileBackends : FlushTime'[c] = IF c = running'[m] THEN NoTime
              ELSE FlushTime[c]
    BY <1>0, <1>24, UnregisterDoes
  <2>2. at[Owner] # "idle"
    BY <1>0, <2>1 DEF CurrentManager, PlacesInv, DestroyInv, BackendsInv, HomeInv
  <2>3. ~ InUse'
    BY <2>1, <2>2 DEF InUse
  <2>4. InUse' => InUse /\ Instance' = Instance
    BY <2>3
  <2>5. ListKept
    BY <2>3 DEF ListKept
  <2>6. AnnouncingKept
    BY <2>3 DEF AnnouncingKept
  <2>7. QED
    BY <1>0, <2>4, <2>5, <2>6, UndisturbedList
<1>25. ASSUME NEW m \in Managers, DrainUnregistered(m) PROVE OrderInv'
  <2>1. /\ place[m] = "destroy"
        /\ running[m] \in FileBackends
        /\ UNCHANGED <<Instance, Active, StopRequested, Reschedule, CurrentEarliestTime, place,
              FlushTime, at, flushed, outdated>>
        /\ \A n \in Managers : running'[n] = IF n = m THEN NoBackend ELSE running[n]
    BY <1>0, <1>25, DrainUnregisteredDoes
  <2>2. m # Instance
    BY <1>0, <2>1 DEF PlacesInv, DestroyInv
  <2>3. InUse' => InUse /\ Instance' = Instance
    BY <2>1 DEF InUse
  <2>4. ListKept
    BY <1>0, <2>1, <2>2, <2>3, InstanceIs DEF InUse, ListKept
  <2>5. AnnouncingKept
    BY <2>1, ClientsAre DEF Announcing, After, AnnouncingKept
  <2>6. QED
    BY <1>0, <2>3, <2>4, <2>5, UndisturbedList
<1>26. ASSUME NEW m \in Managers, Destroy(m) PROVE OrderInv'
  <2>1. /\ place[m] = "destroy"
        /\ running[m] = NoBackend
        /\ Backends[m] = {}
        /\ UNCHANGED <<Instance, Active, StopRequested, Reschedule, CurrentEarliestTime,
              running, FlushTime, at, flushed, outdated>>
        /\ \A n \in Managers : place'[n] = IF n = m THEN "gone" ELSE place[n]
    BY <1>0, <1>26, DestroyDoes
  <2>2. InUse' => InUse /\ Instance' = Instance
    BY <2>1 DEF InUse
  <2>3. ListKept
    BY <1>0, <2>1, <2>2, InstanceIs DEF InUse, ListKept
  <2>4. AnnouncingKept
    BY <2>1, ClientsAre DEF Announcing, After, AnnouncingKept
  <2>5. QED
    BY <1>0, <2>2, <2>3, <2>4, UndisturbedList
<1>27. ASSUME BeginDestruction PROVE OrderInv'
  <2>1. /\ \A u \in Clients : at[u] = "idle"
        /\ UNCHANGED <<Instance, Active, CurrentEarliestTime, place, running, FlushTime,
              flushed, outdated>>
        /\ \A n \in Managers : StopRequested'[n] <=> StopRequested[n] \/ n = Instance
        /\ \A n \in Managers : Reschedule'[n] <=> Reschedule[n] \/ n = Instance
        /\ \A u \in Clients : at'[u] = IF u = Owner THEN "channels" ELSE at[u]
    BY <1>0, <1>27, BeginDestructionDoes
  <2>2. ~ InUse'
    BY <2>1, ClientsAre DEF InUse
  <2>3. InUse' => InUse /\ Instance' = Instance
    BY <2>2
  <2>4. ListKept
    BY <2>2 DEF ListKept
  <2>5. AnnouncingKept
    BY <2>2 DEF AnnouncingKept
  <2>6. QED
    BY <1>0, <2>3, <2>4, <2>5, UndisturbedList
<1>28. ASSUME DestroyFactory PROVE OrderInv'
  <2>1. /\ at[Owner] = "channels"
        /\ \A c \in FileBackends : at[c] = "idle" /\ ShutdownFlag[c]
        /\ UNCHANGED <<Active, StopRequested, Reschedule, CurrentEarliestTime, place, running,
              FlushTime, flushed, outdated>>
        /\ Instance' = 0
        /\ \A u \in Clients : at'[u] = IF u = Owner THEN IF Instance = 0 THEN "done" ELSE "join"
              ELSE at[u]
    BY <1>0, <1>28, DestroyFactoryDoes
  <2>2. ~ InUse'
    BY <2>1, ClientsAre DEF InUse
  <2>3. InUse' => InUse /\ Instance' = Instance
    BY <2>2
  <2>4. ListKept
    BY <2>2 DEF ListKept
  <2>5. AnnouncingKept
    BY <2>2 DEF AnnouncingKept
  <2>6. QED
    BY <1>0, <2>3, <2>4, <2>5, UndisturbedList
<1>29. ASSUME Tick PROVE OrderInv'
  <2>1. /\ UNCHANGED <<Instance, Active, StopRequested, Reschedule, place, running, at, flushed,
             outdated>>
        /\ \A n \in Managers : CurrentEarliestTime'[n] = Nearer(CurrentEarliestTime[n])
        /\ \A c \in FileBackends : FlushTime'[c] = Nearer(FlushTime[c])
    BY <1>0, <1>29, TickDoes
  <2>2. (InUse' => InUse) /\ Instance' = Instance /\ UNCHANGED <<Active, running, place,
          Reschedule>>
    BY <2>1 DEF InUse
  <2>3. \A c \in FileBackends : Announcing(c) => Announcing(c)'
    BY <2>1 DEF Announcing
  <2>4. InUse => \A c \in ToSet(Active[Instance]) : c \in FileBackends
    BY <1>0, InstanceIs, ListsAreSets DEF InUse
  <2>5. \A c \in FileBackends : FlushTime[c] \in Times \cup {NoTime}
    BY <1>0, <2>1 DEF TypesOK
  <2>6. \A x, y \in FileBackends : Active[Instance] = <<x, y>> /\ x # y =>
          x \in ToSet(Active[Instance]) /\ y \in ToSet(Active[Instance])
    BY TwoList
  <2>7. \A c \in FileBackends : FlushTime'[c] = Nearer(FlushTime[c])
    BY <2>1
  <2>8. Instance # 0 =>
          CurrentEarliestTime'[Instance] = Nearer(CurrentEarliestTime[Instance]) /\ CurrentEarliestTime[Instance] \in Times \cup {Never}
    BY <1>0, <2>1, InstanceIs DEF TypesOK
  <2>9. AskedInv'
    BY <1>0, <2>2, <2>4, <2>5, <2>7, NearerIs, TimesAre DEF OrderInv, AskedInv
  <2>10. SortedInv'
    BY <1>0, <2>2, <2>3, <2>5, <2>7, NearerGrows DEF OrderInv, SortedInv
  <2>11. SleepInv'
    <3> SUFFICES ASSUME InUse', place'[Instance'] = "wait", ~ Reschedule'[Instance'],
                        NEW c \in ToSet(Active'[Instance']), ~ Announcing(c)'
                 PROVE  CurrentEarliestTime'[Instance'] <= FlushTime'[c]
      BY DEF SleepInv
    <3>1. InUse /\ place[Instance] = "wait" /\ ~ Reschedule[Instance] /\ c \in ToSet(Active[Instance])
      BY <2>2
    <3>2. Instance # 0 /\ c \in FileBackends /\ ~ Announcing(c)
      BY <3>1, <2>3, <2>4 DEF InUse
    <3>3. CurrentEarliestTime[Instance] <= FlushTime[c]
      BY <1>0, <3>1, <3>2 DEF OrderInv, SleepInv
    <3>4. QED
      BY <2>2, <2>5, <2>7, <2>8, <3>2, <3>3, NearerGrows
  <2>12. QED
    BY <2>9, <2>10, <2>11 DEF OrderInv
<1>30. ASSUME UNCHANGED <<at, Instance, StopRequested, outdated, Active, FlushTime, running,
         flushed, place, Reschedule, CurrentEarliestTime>> PROVE OrderInv'
  BY <1>0, <1>30 DEF OrderInv, AskedInv, SortedInv, SleepInv, InUse, Announcing
<1>31. CASE UNCHANGED managersVars
  BY <1>30, <1>31 DEF managersVars, factory, lists, signals, managers, flags, data, threads,
     recorded
<1>32. QED
  BY Steps, <1>1, <1>2, <1>3, <1>4, <1>5, <1>6, <1>7, <1>8, <1>9, <1>10, <1>11, <1>12, <1>13,
     <1>14, <1>15, <1>16, <1>17, <1>18, <1>19, <1>20, <1>21, <1>22, <1>23, <1>24, <1>25, <1>26,
     <1>27, <1>28, <1>29, <1>31

(* Every step keeps the types. *)
LEMMA TypesKept ==
  ASSUME ManagersInv, [ManagersNext]_managersVars
  PROVE  TypesOK'
<1>0. TypesOK /\ ClientsInv /\ PlacesInv
  BY DEF ManagersInv
<1>1. ASSUME NEW b \in FileBackends, Display(b) PROVE TypesOK'
  BY <1>0, <1>1, DisplayDoes
<1>2. ASSUME NEW b \in FileBackends, AddTakesStopping(b) PROVE TypesOK'
  BY <1>0, <1>2, AddTakesStoppingDoes
<1>3. ASSUME NEW b \in FileBackends, SetStopping(b) PROVE TypesOK'
  BY <1>0, <1>3, SetStoppingDoes
<1>4. ASSUME NEW t \in Clients, WaitForStop(t) PROVE TypesOK'
  BY <1>0, <1>4, WaitForStopDoes
<1>5. ASSUME NEW t \in Clients, Leaves(t) PROVE TypesOK'
  BY <1>0, <1>5, LeavesDoes
<1>6. ASSUME NEW b \in FileBackends, Provide(b) PROVE TypesOK'
  BY <1>0, <1>6, ProvideDoes
<1>7. ASSUME NEW b \in FileBackends, SetRegistered(b) PROVE TypesOK'
  BY <1>0, <1>7, SetRegisteredDoes
<1>8. ASSUME NEW b \in FileBackends, AppendOutputData(b) PROVE TypesOK'
  BY <1>0, <1>8, AppendOutputDataDoes
<1>9. ASSUME NEW b \in FileBackends, Freeze(b) PROVE TypesOK'
  BY <1>0, <1>9, FreezeDoes
<1>10. ASSUME NEW b \in FileBackends, Flush(b) PROVE TypesOK'
  BY <1>0, <1>10, FlushDoes
<1>11. ASSUME Publishes PROVE TypesOK'
  BY <1>0, <1>11, PublishesDoes
<1>12. ASSUME AllPublished PROVE TypesOK'
  BY <1>0, <1>12, AllPublishedDoes
<1>13. ASSUME FlushDone PROVE TypesOK'
  BY <1>0, <1>13, FlushDoneDoes
<1>14. ASSUME NEW t \in Clients, NotifyFactory(t) PROVE TypesOK'
  BY <1>0, <1>14, NotifyFactoryDoes
<1>15. ASSUME NEW t \in Clients, NotifyManager(t) PROVE TypesOK'
  BY <1>0, <1>15, NotifyManagerDoes
<1>16. ASSUME NEW m \in Managers, Exit(m) PROVE TypesOK'
  BY <1>0, <1>16, ExitDoes
<1>17. ASSUME NEW m \in Managers, WaitForWork(m) PROVE TypesOK'
  BY <1>0, <1>17, WaitForWorkDoes
<1>18. ASSUME NEW m \in Managers, WakeUp(m) PROVE TypesOK'
  BY <1>0, <1>18, WakeUpDoes
<1>19. ASSUME NEW m \in Managers, TakeHead(m) PROVE TypesOK'
  BY <1>0, <1>19, TakeHeadDoes
<1>20. ASSUME NEW m \in Managers, WorkerFunc(m) PROVE TypesOK'
  BY <1>0, <1>20, WorkerFuncDoes
<1>21. ASSUME NEW m \in Managers, Reactivate(m) PROVE TypesOK'
  BY <1>0, <1>21, ReactivateDoes
<1>22. ASSUME NEW m \in Managers, RemoveBackendLocked(m) PROVE TypesOK'
  BY <1>0, <1>22, RemoveBackendLockedDoes
<1>23. ASSUME NEW m \in Managers, OnShutdown(m) PROVE TypesOK'
  BY <1>0, <1>23, OnShutdownDoes
<1>24. ASSUME NEW m \in Managers, Unregister(m) PROVE TypesOK'
  BY <1>0, <1>24, UnregisterDoes
<1>25. ASSUME NEW m \in Managers, DrainUnregistered(m) PROVE TypesOK'
  BY <1>0, <1>25, DrainUnregisteredDoes
<1>26. ASSUME NEW m \in Managers, Destroy(m) PROVE TypesOK'
  BY <1>0, <1>26, DestroyDoes
<1>27. ASSUME BeginDestruction PROVE TypesOK'
  BY <1>0, <1>27, BeginDestructionDoes
<1>28. ASSUME DestroyFactory PROVE TypesOK'
  BY <1>0, <1>28, DestroyFactoryDoes
<1>29. ASSUME Tick PROVE TypesOK'
  BY <1>0, <1>29, TickDoes
<1>30. CASE UNCHANGED managersVars
  BY <1>0, <1>30 DEF managersVars, factory, lists, signals, managers, flags, data, threads,
     recorded, TypesOK
<1>31. QED
  BY Steps, <1>1, <1>2, <1>3, <1>4, <1>5, <1>6, <1>7, <1>8, <1>9, <1>10, <1>11, <1>12, <1>13,
     <1>14, <1>15, <1>16, <1>17, <1>18, <1>19, <1>20, <1>21, <1>22, <1>23, <1>24, <1>25, <1>26,
     <1>27, <1>28, <1>29, <1>30

(* The invariant holds at the beginning, when there is no manager. *)
LEMMA InitManagersInv ==
  ASSUME ManagersInit
  PROVE  ManagersInv
<1>1. /\ Instance = 0 /\ created = 0 /\ flushed = NoBackend /\ late = {} /\ outdated = {}
      /\ \A m \in Managers :
           /\ Backends[m] = {} /\ Active[m] = <<>> /\ ~ StopRequested[m] /\ ~ Reschedule[m]
           /\ place[m] = "none" /\ running[m] = NoBackend
      /\ \A b \in FileBackends :
           ~ Registered[b] /\ ~ ShutdownFlag[b] /\ FlushTime[b] = NoTime
           /\ current[b] = 0 /\ ready[b] = 0
      /\ taken = 0
      /\ \A t \in Clients : at[t] = "idle" /\ when[t] = NoTime /\ held[t] = 0
  BY DEF ManagersInit
<1>2. TypesOK
  <2>1. <<>> \in Seq(FileBackends) /\ IsInjective(<<>>)
    BY EmptyList DEF IsList
  <2>2. Active \in [Managers -> Seq(FileBackends)] /\ \A m \in Managers : IsInjective(Active[m])
    BY <1>1, <2>1 DEF ManagersInit
  <2>3. 0 \in 0..0 /\ 0 \in 0..MaxManagers
    BY ClientsAre
  <2>4. QED
    BY <1>1, <2>2, <2>3, TimesAre DEF ManagersInit, TypesOK, Labels, Places
<1>3. ClientsInv
  BY <1>1, ClientsAre DEF ClientsInv, LabelsInv, AddingInv, OwnerInv, FlushedInv, HeldInv,
     Adding,
                          Holding
<1>4. PlacesInv
  <2>1. \A m \in Managers : ~ m <= 0
    BY ClientsAre
  <2>2. QED
    BY <1>1, <2>1, ClientsAre DEF PlacesInv, RunningInv, CreatedInv, StoppingInv, DestroyInv,
       Live
<1>5. BackendsInv
  <2>1. \A m \in Managers : ToSet(Active[m]) = {}
    BY <1>1, EmptyList
  <2>2. QED
    BY <1>1, <2>1, ClientsAre DEF BackendsInv, HomeInv, ActiveInv, HandInv, UnregisteredInv
<1>6. StopInv /\ TakenInv /\ QueuedInv /\ NotifiedInv /\ ServedInv
  <2>1. ~ (taken > 0) /\ \A b \in FileBackends : ~ Stored(b)
    BY <1>1 DEF Stored
  <2>2. QED
    BY <1>1, <2>1, ClientsAre DEF StopInv, FrozenInv, LateInv, TakenInv, QueuedInv, NotifiedInv,
       ServedInv
<1>7. OrderInv
  BY <1>1 DEF OrderInv, AskedInv, SortedInv, SleepInv, InUse
<1>8. QED
  BY <1>2, <1>3, <1>4, <1>5, <1>6, <1>7 DEF ManagersInv

(* Every step of the managers, the backends and the threads preserves it. *)
LEMMA NextManagersInv ==
  ASSUME ManagersInv, [ManagersNext]_managersVars
  PROVE  ManagersInv'
BY TypesKept, ClientsKept, PlacesKept, BackendsKept, StopKept, TakenKept, QueuedKept,
   NotifiedKept, ServedKept, OrderKept DEF ManagersInv

(* The invariant above holds of every reachable state of the factory, its      *)
(* managers and their backends (FileManagerFactory.cpp, FileManager.cpp).      *)
THEOREM ManagersInvariance == ManagersSpec => []ManagersInv
BY InitManagersInv, NextManagersInv, PTL DEF ManagersSpec

----------------------------------------------------------------------------
(* A backend that has asked for a flush is about to be announced, or is with    *)
(* a manager whose thread will look at it, unless it was added too late.       *)
THEOREM BackendsAreServed == ManagersSpec => []ServedUnlessLate
<1>1. ManagersInv => ServedUnlessLate
  <2> SUFFICES ASSUME ManagersInv PROVE ServedUnlessLate
    OBVIOUS
  <2>1. TypesOK
    BY DEF ManagersInv
  <2>2. ASSUME NEW b \in FileBackends \ late,
               FlushTime[b] # NoTime, Registered[b], at[Owner] = "idle", ~ Announcing(b)
        PROVE  \E m \in Managers :
                 Live(m) /\ b \in Backends[m] /\ (b = running[m] \/ b \in ToSet(Active[m]))
    <3>1. Instance \in Managers /\ b \in Backends[Instance]
      <4>1. CurrentManager = Instance
        BY <2>2 DEF CurrentManager
      <4>2. QED
        BY <2>1, <2>2, <4>1, InstanceIs DEF ManagersInv, BackendsInv, HomeInv
    <3>2. ~ StopRequested[Instance]
      BY <2>2, <3>1 DEF ManagersInv, StopInv, FrozenInv
    <3>3. place[Instance] # "none"
      <4>1. Instance <= created
        BY <2>1 DEF TypesOK
      <4>2. QED
        BY <3>1, <4>1 DEF ManagersInv, PlacesInv, CreatedInv
    <3>4. Live(Instance)
      BY <3>1, <3>2, <3>3 DEF ManagersInv, PlacesInv, StoppingInv, Live
    <3>5. b = running[Instance] \/ b \in ToSet(Active[Instance])
      BY <2>2 DEF ManagersInv, ServedInv
    <3>6. QED
      BY <3>1, <3>4, <3>5
  <2>3. QED
    BY <2>1, <2>2 DEF ServedUnlessLate
<1>2. QED
  BY <1>1, ManagersInvariance, PTL

(* A manager's thread sleeps no longer than the nearest time its backends have *)
(* asked for, unless it was told of one that had changed.                      *)
THEOREM ManagersWakeInTime == ManagersSpec => []SleepsNoLonger
<1>1. ManagersInv => SleepsNoLonger
  <2> SUFFICES ASSUME ManagersInv, NEW m \in Managers \ outdated,
                      place[m] = "wait", ~ Reschedule[m], ~ StopRequested[m]
               PROVE  \A b \in ToSet(Active[m]) :
                        Announcing(b) \/ CurrentEarliestTime[m] <= FlushTime[b]
    BY DEF SleepsNoLonger
  <2>1. m = Instance /\ at[Owner] = "idle"
    BY DEF ManagersInv, PlacesInv, StoppingInv
  <2>2. InUse
    BY <2>1, ClientsAre DEF InUse
  <2>3. QED
    BY <2>1, <2>2 DEF ManagersInv, OrderInv, SleepInv
<1>2. QED
  BY <1>1, ManagersInvariance, PTL

(* When ~Logger has returned no backend has a record in its queue. *)
THEOREM NothingIsQueuedAtEnd == ManagersSpec => []NothingLeftAtEnd
<1>1. ManagersInv => NothingLeftAtEnd
  <2> SUFFICES ASSUME ManagersInv, at[Owner] = "done", NEW b \in FileBackends
               PROVE  Queued(b) = 0
    BY DEF NothingLeftAtEnd
  <2>1. Instance = 0 /\ CurrentManager = 0
    BY DEF ManagersInv, ClientsInv, OwnerInv, CurrentManager
  <2>2. ~ Registered[b]
    BY <2>1 DEF ManagersInv, BackendsInv, HomeInv
  <2>3. \A t \in Clients : at[t] \in {"idle", "done"} /\ held[t] = 0
    BY ClientsAre DEF ManagersInv, ClientsInv, OwnerInv, HeldInv, Holding
  <2>4. ASSUME NEW m \in Managers, place[m] \in {"shutdown", "destroy"} PROVE FALSE
    <3>1. m # Instance
      BY <2>1, ClientsAre
    <3>2. CASE place[m] = "shutdown"
      BY <2>3, <3>1, <3>2 DEF ManagersInv, PlacesInv, StoppingInv, Live
    <3>3. CASE place[m] = "destroy"
      BY <2>3, <3>3, ClientsAre DEF ManagersInv, PlacesInv, DestroyInv
    <3>4. QED
      BY <2>4, <3>2, <3>3
  <2>5. at[Flusher] = "idle"
    BY ClientsAre DEF ManagersInv, ClientsInv, OwnerInv
  <2>6. flushed # b
    BY <2>5, ClientsAre DEF ManagersInv, ClientsInv, FlushedInv
  <2>7. ~ Stored(b)
    BY <2>2, <2>4, <2>6 DEF ManagersInv, QueuedInv
  <2>8. current[b] \in Nat /\ ready[b] \in Nat
    BY DEF ManagersInv, TypesOK
  <2>9. QED
    BY <2>6, <2>7, <2>8 DEF Stored, Queued
<1>2. QED
  BY <1>1, ManagersInvariance, PTL
=============================================================================
