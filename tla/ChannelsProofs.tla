--------------------------- MODULE ChannelsProofs ---------------------------
(***************************************************************************)
(* Proofs about the channels and the way of a record through them, for any   *)
(* threads, names, operations, stack size and bounds.                        *)
(*                                                                         *)
(* The inductive invariant says what may be ahead of a thread: the kinds of   *)
(* steps come in an order (Ordered), the outputs ahead are those of the       *)
(* channels on the thread's stack (Unwinds), none of which has the record     *)
(* yet (HitsInv); a channel with a backend is known to the Logger, or        *)
(* somebody is going to clear it (BackendsInv), and from this follows what    *)
(* the fatal handler and DeleteAllChannels leave behind (FatalInv,            *)
(* ClosedInv).                                                              *)
(***************************************************************************)
EXTENDS Channels, FiniteSetTheorems, SequenceTheorems, WellFoundedInduction, TLAPS

----------------------------------------------------------------------------
(* The steps there are, and which may come after which in a program.         *)

OfObject == {"unlink", "add", "clear", "freeze", "output", "flush"}

Steps ==
  ({"store", "enabled", "display", "filter"} \X Objects \X BOOLEAN)
    \cup ({"link"} \X Objects \X LinksTo(Objects))
    \cup ({"linked"} \X LinksTo(Objects))
    \cup (OfObject \X Objects)
    \cup ({"autodelete", "delete", "find"} \X Names)
    \cup ({"reap", "take"} \X BOOLEAN)
    \cup {<<"stamp">>, <<"error">>, <<"fatal">>, <<"handler">>}

Work == {"reap", "stamp", "take", "freeze", "clear", "unlink", "store", "enabled", "link",
         "add", "autodelete", "delete"}

Shows == {"display", "linked", "filter", "output"}

Follows(kind) ==
  IF kind \in Work THEN Work \cup {"find"}
  ELSE IF kind \in Shows THEN {"output", "error", "fatal"}
  ELSE IF kind = "error" THEN {"fatal"}
  ELSE IF kind = "flush" THEN {"flush", "handler"}
  ELSE {}

Ordered(p) == \A i, j \in DOMAIN p : i < j => p[j][1] \in Follows(p[i][1])

Guards == [small : Seq(Objects), large : Seq(Objects), overflow : BOOLEAN]

ProgramsOK ==
  /\ program \in [Threads -> Seq(Steps)]
  /\ \A t \in Threads : Ordered(program[t])
  /\ guard \in [Threads -> Guards]
  /\ hits \in [Threads -> [Objects -> Nat]]

TypeInv ==
  /\ TypeOK
  /\ ToDelete \in Seq(Objects)
  /\ ProgramsOK

(* A thread has its stack to unwind: the channels on it, the last first, are  *)
(* those it is going to write to, behind one it may be about to enter.        *)
Entering(p) == IF p # <<>> /\ p[1][1] \in {"display", "linked"} THEN 1 ELSE 0

Unwinds(p, s) ==
  LET n == Entering(p) + Len(s) IN
    /\ n <= Len(p)
    /\ \A i \in DOMAIN p : p[i][1] \in {"filter", "output"} <=> Entering(p) < i /\ i <= n
    /\ \A i \in 1..Len(s) : p[n + 1 - i][2] = s[i]

(* It has written to none of them, and to no channel at all before it has     *)
(* come to the last one.                                                     *)
Fresh(p) == \E i \in DOMAIN p : p[i][1] \in {"find", "display", "linked", "filter"}

HitsInv(p, s, h) ==
  /\ \A o \in Objects : h[o] <= 1
  /\ \A i \in DOMAIN s : h[s[i]] = 0
  /\ IsInjective(s)
  /\ Fresh(p) => \A o \in Objects : h[o] = 0

CallInv ==
  \A t \in Threads :
    /\ Unwinds(program[t], Stack(guard[t]))
    /\ HitsInv(program[t], Stack(guard[t]), hits[t])

(* Whoever holds a channel's lock between a change and its store is at the    *)
(* store.                                                                    *)
Storing(u, o) == program[u] # <<>> /\ program[u][1][1] = "store" /\ program[u][1][2] = o

Cleared(u, o) ==
  /\ dataLock[o] = u
  /\ program[u] # <<>> /\ program[u][1] = <<"store", o, link[o] # NoLink>>
  /\ Backends[o] = {}

ToClear(u, o) == <<"clear", o>> \in Range(program[u])

Registered == Range(Channels) \cup Range(ToDelete)

BackendsInv ==
  \A o \in Objects :
    /\ dataLock[o] # None => Storing(dataLock[o], o)
    /\ Backends[o] # {} =>
         o \in Registered \/ o \in stray \/ \E u \in Threads : ToClear(u, o)
    /\ Backends[o] = {} /\ queued[o] # {} => \E u \in Threads : Cleared(u, o)

(* What a thread in the fatal handler has queued is going to be flushed by it *)
(* or is being removed by another.                                           *)
FatalInv ==
  \A t \in Threads, o \in Objects :
    t \in queued[o] /\ <<"handler">> \in Range(program[t]) =>
      \/ <<"flush", o>> \in Range(program[t])
      \/ o \in stray
      \/ \E u \in Threads \ {t} : ToClear(u, o) \/ Cleared(u, o)

(* The end.                                                                  *)
Closing == {"reap", "stamp", "take", "freeze", "clear", "unlink", "store"}

ClosedInv ==
  closed =>
    /\ \A t \in Threads : \A i \in DOMAIN program[t] : program[t][i][1] \in Closing
    /\ \A o \in Range(Channels) \ {0} :
         Backends[o] # {} => \E u \in Threads : ToClear(u, o)
    /\ ToDelete # <<>> /\ ~throttled =>
         \E u \in Threads : <<"reap", TRUE>> \in Range(program[u])
                            \/ <<"take", TRUE>> \in Range(program[u])

IndInv == TypeInv /\ CallInv /\ BackendsInv /\ FatalInv /\ ClosedInv

----------------------------------------------------------------------------
(* Sequences                                                                 *)

(* A finite set as a sequence has the elements of the set. *)
LEMMA SetAsSeq ==
  ASSUME NEW S, IsFiniteSet(S)
  PROVE  /\ SetToSeq(S) \in Seq(S)
         /\ Len(SetToSeq(S)) = Cardinality(S)
         /\ Cardinality(S) \in Nat
         /\ \A x \in S : \E i \in 1..Cardinality(S) : SetToSeq(S)[i] = x
         /\ IsInjective(SetToSeq(S))
<1> DEFINE n == Cardinality(S)
           s == SetToSeq(S)
<1>1. n \in Nat /\ ExistsBijection(1..n, S)
  BY FS_CardinalityType
<1>2. PICK f : f \in Bijection(1..n, S)
  BY <1>1 DEF ExistsBijection
<1>3. f \in [1..n -> S] /\ IsInjective(f)
  BY <1>2 DEF Bijection, Injection, IsInjective
<1>4. s \in [1..n -> S] /\ IsInjective(s)
  BY <1>3 DEF SetToSeq
<1> HIDE DEF s
<1>5. s \in Injection(1..n, S)
  BY <1>4 DEF Injection, IsInjective
<1>6. IsFiniteSet(1..n) /\ Cardinality(1..n) = n
  BY <1>1, FS_Interval
<1>7. s \in Surjection(1..n, S)
  BY <1>5, <1>6, FS_Injection
<1>8. s \in Seq(S) /\ Len(s) = n
  BY <1>1, <1>4
<1>9. \A x \in S : \E i \in 1..n : s[i] = x
  BY <1>7 DEF Surjection
<1>10. QED
  BY <1>1, <1>4, <1>8, <1>9 DEF s

(* What a sequence has. *)
LEMMA SeqHas ==
  ASSUME NEW S, NEW p \in Seq(S)
  PROVE  /\ Len(p) \in Nat /\ DOMAIN p = 1..Len(p)
         /\ \A i \in 1..Len(p) : p[i] \in S
         /\ \A x : x \in Range(p) <=> \E i \in 1..Len(p) : p[i] = x
         /\ p = <<>> <=> Len(p) = 0
BY DEF Range

(* The first step is replaced by others. *)
LEMMA Replaced ==
  ASSUME NEW S, NEW p \in Seq(S), p # <<>>, NEW q \in Seq(S), NEW r, r = q \o Tail(p)
  PROVE  /\ Len(p) \in Nat /\ Len(q) \in Nat /\ Len(p) >= 1
         /\ Head(p) = p[1] /\ p[1] \in S
         /\ r \in Seq(S) /\ Len(r) = Len(q) + Len(p) - 1
         /\ \A i \in 1..Len(q) : r[i] = q[i]
         /\ \A i \in (Len(q) + 1)..Len(r) : r[i] = p[i - Len(q) + 1]
<1>1. Tail(p) \in Seq(S) /\ Len(Tail(p)) = Len(p) - 1
      /\ \A i \in 1..(Len(p) - 1) : Tail(p)[i] = p[i + 1]
  BY HeadTailProperties
<1>2. Len(p) \in Nat /\ Len(q) \in Nat /\ Len(p) >= 1 /\ Head(p) = p[1] /\ p[1] \in S
  OBVIOUS
<1> DEFINE w == Tail(p)
<1> HIDE DEF w
<1>3. /\ r \in Seq(S) /\ Len(r) = Len(q) + Len(w)
      /\ \A i \in 1..(Len(q) + Len(w)) : r[i] = IF i <= Len(q) THEN q[i] ELSE w[i - Len(q)]
  BY <1>1, ConcatProperties DEF w
<1>4. Len(r) = Len(q) + Len(p) - 1 /\ \A i \in 1..Len(q) : r[i] = q[i]
  BY <1>1, <1>2, <1>3 DEF w
<1>5. ASSUME NEW i \in (Len(q) + 1)..Len(r) PROVE r[i] = p[i - Len(q) + 1]
  <2>1. i - Len(q) \in 1..(Len(p) - 1) /\ ~(i <= Len(q)) /\ i \in 1..(Len(q) + Len(w))
    BY <1>2, <1>3, <1>4
  <2>2. r[i] = w[i - Len(q)]
    BY <1>3, <2>1
  <2>3. QED
    BY <1>1, <2>1, <2>2 DEF w
<1>6. QED
  BY <1>2, <1>3, <1>4, <1>5

(* The others stay, and the new ones come. *)
LEMMA ReplacedRange ==
  ASSUME NEW S, NEW p \in Seq(S), p # <<>>, NEW q \in Seq(S)
  PROVE  /\ \A x : x \in Range(p) => x = p[1] \/ x \in Range(q \o Tail(p))
         /\ \A x : x \in Range(q) => x \in Range(q \o Tail(p))
         /\ \A x : x \in Range(q \o Tail(p)) => x \in Range(p) \/ x \in Range(q)
<1> DEFINE r == q \o Tail(p)
<1>1. r = q \o Tail(p)
  OBVIOUS
<1> HIDE DEF r
<1>2. /\ Len(p) \in Nat /\ Len(q) \in Nat /\ Len(p) >= 1
      /\ r \in Seq(S) /\ Len(r) = Len(q) + Len(p) - 1
      /\ \A i \in 1..Len(q) : r[i] = q[i]
      /\ \A i \in (Len(q) + 1)..Len(r) : r[i] = p[i - Len(q) + 1]
  BY <1>1, Replaced
<1>6. ASSUME NEW i \in 2..Len(p) PROVE i - 1 + Len(q) \in 1..Len(r) /\ r[i - 1 + Len(q)] = p[i]
  <2>1. i - 1 + Len(q) \in (Len(q) + 1)..Len(r) /\ (i - 1 + Len(q)) - Len(q) + 1 = i
        /\ i - 1 + Len(q) \in 1..Len(r)
    BY <1>2
  <2>2. QED
    BY <1>2, <2>1
<1>h. /\ \A x : x \in Range(p) <=> \E i \in 1..Len(p) : p[i] = x
      /\ \A x : x \in Range(q) <=> \E i \in 1..Len(q) : q[i] = x
      /\ \A x : x \in Range(r) <=> \E i \in 1..Len(r) : r[i] = x
  BY <1>2, SeqHas
<1>7. \A x : x \in Range(p) => x = p[1] \/ x \in Range(r)
  <2>1. \A i \in 1..Len(p) : i = 1 \/ i \in 2..Len(p)
    BY <1>2
  <2>2. QED
    BY <1>6, <1>h, <2>1
<1>8. \A x : x \in Range(q) => x \in Range(r)
  <2>1. \A i \in 1..Len(q) : i \in 1..Len(r)
    BY <1>2
  <2>2. QED
    BY <1>2, <1>h, <2>1
<1>9. \A x : x \in Range(r) => x \in Range(p) \/ x \in Range(q)
  <2>1. \A i \in 1..Len(r) : i \in 1..Len(q)
          \/ (i \in (Len(q) + 1)..Len(r) /\ i - Len(q) + 1 \in 1..Len(p))
    BY <1>2
  <2>2. QED
    BY <1>2, <1>h, <2>1
<1>10. QED
  BY <1>7, <1>8, <1>9 DEF r

(* Sequences of one, two and three steps. *)
LEMMA Few ==
  ASSUME NEW S, NEW a \in S, NEW b \in S, NEW c \in S
  PROVE  /\ <<>> \in Seq(S) /\ Len(<<>>) = 0
         /\ <<a>> \in Seq(S) /\ Len(<<a>>) = 1 /\ <<a>>[1] = a
         /\ <<a, b>> \in Seq(S) /\ Len(<<a, b>>) = 2 /\ <<a, b>>[1] = a /\ <<a, b>>[2] = b
         /\ <<a, b, c>> \in Seq(S) /\ Len(<<a, b, c>>) = 3
         /\ <<a, b, c>>[1] = a /\ <<a, b, c>>[2] = b /\ <<a, b, c>>[3] = c
OBVIOUS

(* A queue from which one has been taken. *)
LEMMA RemovedAt ==
  ASSUME NEW S, NEW p \in Seq(S), NEW i \in 1..Len(p)
  PROVE  /\ RemoveAt(p, i) \in Seq(S)
         /\ Range(RemoveAt(p, i)) \subseteq Range(p)
         /\ Range(p) \subseteq Range(RemoveAt(p, i)) \cup {p[i]}
<1> DEFINE q == SubSeq(p, 1, i - 1)
           w == SubSeq(p, i + 1, Len(p))
<1>1. Len(p) \in Nat /\ i \in Nat /\ i >= 1 /\ i <= Len(p)
  OBVIOUS
<1>2. /\ q \in Seq(S) /\ Len(q) = i - 1
      /\ \A j \in 1..(i - 1) : q[j] = p[j]
  BY <1>1
<1>3. /\ w \in Seq(S) /\ Len(w) = Len(p) - i
      /\ \A j \in 1..(Len(p) - i) : w[j] = p[j + i]
  BY <1>1
<1>4. RemoveAt(p, i) = q \o w
  BY DEF RemoveAt
<1> HIDE DEF q, w
<1>5. Range(q \o w) = Range(q) \cup Range(w) /\ q \o w \in Seq(S)
  BY <1>2, <1>3, RangeConcatenation, ConcatProperties
<1>h. /\ \A x : x \in Range(p) <=> \E j \in 1..Len(p) : p[j] = x
      /\ \A x : x \in Range(q) <=> \E j \in 1..Len(q) : q[j] = x
      /\ \A x : x \in Range(w) <=> \E j \in 1..Len(w) : w[j] = x
  BY <1>2, <1>3, SeqHas
<1>6. Range(q) \subseteq Range(p)
  BY <1>1, <1>2, SeqHas
<1>7. Range(w) \subseteq Range(p)
  <2>1. \A j \in 1..(Len(p) - i) : j + i \in 1..Len(p)
    BY <1>1
  <2>2. QED
    BY <1>3, <1>h, <2>1
<1>8. Range(p) \subseteq Range(q) \cup Range(w) \cup {p[i]}
  <2>1. \A j \in 1..Len(p) : \/ j = i \/ j \in 1..(i - 1)
                             \/ (j - i \in 1..(Len(p) - i) /\ (j - i) + i = j)
    BY <1>1
  <2>2. \A j \in 1..(i - 1) : p[j] \in Range(q)
    BY <1>2, <1>h
  <2>3. ASSUME NEW j \in 1..Len(p), j - i \in 1..(Len(p) - i), (j - i) + i = j
        PROVE  p[j] \in Range(w)
    <3>1. w[j - i] = p[j] /\ j - i \in 1..Len(w)
      BY <1>3, <2>3
    <3>2. QED
      BY <1>h, <3>1
  <2>4. QED
    BY <1>h, <2>1, <2>2, <2>3
<1>9. QED
  BY <1>4, <1>5, <1>6, <1>7, <1>8

----------------------------------------------------------------------------
(* Steps and programs                                                        *)

(* What a step of each kind is. *)
LEMMA StepShape ==
  ASSUME NEW s \in Steps
  PROVE  /\ s[1] \in {"store", "enabled", "display", "filter"} =>
              s[2] \in Objects /\ s[3] \in BOOLEAN
         /\ s[1] = "link" => s[2] \in Objects /\ s[3] \in LinksTo(Objects)
         /\ s[1] = "linked" => s[2] \in LinksTo(Objects)
         /\ s[1] \in OfObject => s[2] \in Objects /\ s = <<s[1], s[2]>>
         /\ s[1] \in {"autodelete", "delete", "find"} => s[2] \in Names
         /\ s[1] \in {"reap", "take"} => s[2] \in BOOLEAN /\ s = <<s[1], s[2]>>
BY DEF Steps, OfObject

(* The steps the operations are made of. *)
LEMMA StepIs ==
  /\ \A k \in {"store", "enabled", "display", "filter"}, o \in Objects, b \in BOOLEAN :
       <<k, o, b>> \in Steps
  /\ \A o \in Objects, to \in LinksTo(Objects) : <<"link", o, to>> \in Steps
  /\ \A to \in LinksTo(Objects) : <<"linked", to>> \in Steps
  /\ \A k \in OfObject, o \in Objects : <<k, o>> \in Steps
  /\ \A k \in {"autodelete", "delete", "find"}, n \in Names : <<k, n>> \in Steps
  /\ \A k \in {"reap", "take"}, b \in BOOLEAN : <<k, b>> \in Steps
  /\ <<"stamp">> \in Steps /\ <<"error">> \in Steps
  /\ <<"fatal">> \in Steps /\ <<"handler">> \in Steps
BY DEF Steps, OfObject

(* What may follow what. *)
LEMMA Order ==
  /\ \A k \in Work : Follows(k) = Work \cup {"find"}
  /\ \A k \in Shows : Follows(k) = {"output", "error", "fatal"}
  /\ Follows("error") = {"fatal"} /\ Follows("flush") = {"flush", "handler"}
  /\ Follows("find") = {} /\ Follows("fatal") = {} /\ Follows("handler") = {}
BY DEF Follows, Work, Shows

Fits(q, kind) ==
  /\ q \in Seq(Steps)
  /\ Ordered(q)
  /\ \A i \in 1..Len(q) : Follows(kind) \subseteq Follows(q[i][1])

(* Steps that fit take the place of the first one. *)
LEMMA ThenOrdered ==
  ASSUME NEW p \in Seq(Steps), p # <<>>, Ordered(p), NEW q, Fits(q, p[1][1]),
         NEW r, r = q \o Tail(p)
  PROVE  Ordered(r)
<1> DEFINE n == Len(q)
<1>1. /\ Len(p) \in Nat /\ n \in Nat /\ Len(p) >= 1
      /\ r \in Seq(Steps) /\ Len(r) = n + Len(p) - 1
      /\ \A i \in 1..n : r[i] = q[i]
      /\ \A i \in (n + 1)..Len(r) : r[i] = p[i - n + 1]
  BY Replaced DEF Fits
<1>2. DOMAIN r = 1..Len(r) /\ DOMAIN p = 1..Len(p) /\ DOMAIN q = 1..n
  BY <1>1, SeqHas DEF Fits
<1> HIDE DEF n
<1> SUFFICES ASSUME NEW i \in 1..Len(r), NEW j \in 1..Len(r), i < j
             PROVE  r[j][1] \in Follows(r[i][1])
  BY <1>2 DEF Ordered
<1>3. CASE j <= n
  <2>1. i \in 1..n /\ j \in 1..n
    BY <1>1, <1>3
  <2>2. QED
    BY <1>1, <1>2, <2>1 DEF Fits, Ordered
<1>4. CASE i > n
  <2>1. /\ i \in (n + 1)..Len(r) /\ j \in (n + 1)..Len(r)
        /\ i - n + 1 \in 1..Len(p) /\ j - n + 1 \in 1..Len(p) /\ i - n + 1 < j - n + 1
    <3>1. Len(p) \in Nat /\ n \in Nat /\ Len(r) = n + Len(p) - 1
      BY <1>1
    <3>2. QED
      BY <1>4, <3>1
  <2>2. p[j - n + 1][1] \in Follows(p[i - n + 1][1])
    BY <1>2, <2>1 DEF Ordered
  <2>3. QED
    BY <1>1, <2>1, <2>2
<1>5. CASE i <= n /\ j > n
  <2>1. /\ i \in 1..n /\ j \in (n + 1)..Len(r)
        /\ j - n + 1 \in 1..Len(p) /\ 1 < j - n + 1 /\ 1 \in 1..Len(p)
    BY <1>1, <1>5
  <2>2. p[j - n + 1][1] \in Follows(p[1][1])
    BY <1>2, <2>1 DEF Ordered
  <2>3. r[i] = q[i] /\ r[j] = p[j - n + 1]
    BY <1>1, <2>1
  <2>4. Follows(p[1][1]) \subseteq Follows(q[i][1])
    BY <2>1 DEF Fits, n
  <2>5. QED
    BY <2>2, <2>3, <2>4
<1>6. QED
  BY <1>1, <1>3, <1>4, <1>5

(* Up to three steps, each of which may follow those before it. *)
LEMMA FitsFew ==
  ASSUME NEW a \in Steps, NEW b \in Steps, NEW c \in Steps, NEW kind,
         Follows(kind) \subseteq Follows(a[1])
  PROVE  /\ Fits(<<>>, kind)
         /\ Fits(<<a>>, kind)
         /\ b[1] \in Follows(a[1]) /\ Follows(kind) \subseteq Follows(b[1]) =>
              /\ Fits(<<a, b>>, kind)
              /\ /\ c[1] \in Follows(a[1]) /\ c[1] \in Follows(b[1])
                 /\ Follows(kind) \subseteq Follows(c[1])
                 => Fits(<<a, b, c>>, kind)
<1>1. Fits(<<>>, kind)
  BY Few DEF Fits, Ordered
<1>2. Fits(<<a>>, kind)
  <2>1. <<a>> \in Seq(Steps) /\ Len(<<a>>) = 1 /\ <<a>>[1] = a /\ DOMAIN <<a>> = {1}
    OBVIOUS
  <2>2. QED
    BY <2>1 DEF Fits, Ordered
<1>3. ASSUME b[1] \in Follows(a[1]), Follows(kind) \subseteq Follows(b[1])
      PROVE  Fits(<<a, b>>, kind)
  <2> DEFINE q == <<a, b>>
  <2>1. q \in Seq(Steps) /\ Len(q) = 2 /\ q[1] = a /\ q[2] = b /\ DOMAIN q = 1..2
    OBVIOUS
  <2> HIDE DEF q
  <2>2. Ordered(q)
    BY <1>3, <2>1 DEF Ordered
  <2>3. QED
    BY <1>3, <2>1, <2>2 DEF Fits
<1>4. ASSUME b[1] \in Follows(a[1]), Follows(kind) \subseteq Follows(b[1]),
             c[1] \in Follows(a[1]), c[1] \in Follows(b[1]), Follows(kind) \subseteq Follows(c[1])
      PROVE  Fits(<<a, b, c>>, kind)
  <2> DEFINE q == <<a, b, c>>
  <2>1. /\ q \in Seq(Steps) /\ Len(q) = 3 /\ q[1] = a /\ q[2] = b /\ q[3] = c
        /\ DOMAIN q = 1..3
    OBVIOUS
  <2> HIDE DEF q
  <2>2. Ordered(q)
    BY <1>4, <2>1 DEF Ordered
  <2>3. QED
    BY <1>4, <2>1, <2>2 DEF Fits
<1>5. QED
  BY <1>1, <1>2, <1>3, <1>4

(* Work fits in the place of work. *)
LEMMA FitsWork ==
  ASSUME NEW kind \in Work, NEW q \in Seq(Steps), \A i \in 1..Len(q) : q[i][1] \in Work
  PROVE  Fits(q, kind)
<1>1. DOMAIN q = 1..Len(q)
  BY SeqHas
<1>2. QED
  BY <1>1, Order DEF Fits, Ordered

(* The program of the thread that takes a step, and the others'. *)
LEMMA Program ==
  ASSUME TypeInv, NEW t \in Threads, program[t] # <<>>, NEW q, Fits(q, program[t][1][1]),
         Then(t, q)
  PROVE  /\ program' \in [Threads -> Seq(Steps)]
         /\ \A u \in Threads : Ordered(program'[u])
         /\ \A u \in Threads \ {t} : program'[u] = program[u]
         /\ program'[t] = q \o Tail(program[t])
<1>1. program' = [program EXCEPT ![t] = q \o Tail(program[t])]
  BY DEF Then
<1>2. program \in [Threads -> Seq(Steps)] /\ \A u \in Threads : Ordered(program[u])
  BY DEF TypeInv, ProgramsOK
<1>3. program'[t] = q \o Tail(program[t]) /\ \A u \in Threads \ {t} : program'[u] = program[u]
  BY <1>1, <1>2
<1>4. program[t] \in Seq(Steps) /\ q \in Seq(Steps)
  BY <1>2 DEF Fits
<1>5. program'[t] \in Seq(Steps) /\ Ordered(program'[t])
  <2> DEFINE p == program[t]
             r == program'[t]
  <2>1. p \in Seq(Steps) /\ q \in Seq(Steps) /\ p # <<>> /\ Ordered(p) /\ Fits(q, p[1][1])
        /\ r = q \o Tail(p)
    BY <1>2, <1>3, <1>4
  <2> HIDE DEF p, r
  <2>2. r \in Seq(Steps)
    BY <2>1, Replaced
  <2>3. Ordered(r)
    BY <2>1, ThenOrdered
  <2>4. QED
    BY <2>2, <2>3 DEF r
<1>6. program' \in [Threads -> Seq(Steps)]
  BY <1>1, <1>2, <1>3, <1>5
<1>7. QED
  BY <1>2, <1>3, <1>5, <1>6

(* The first step of a thread. *)
LEMMA First ==
  ASSUME TypeInv, NEW t \in Threads, NEW kind, At(t, kind)
  PROVE  /\ program[t] \in Seq(Steps) /\ program[t] # <<>> /\ Len(program[t]) >= 1
         /\ Head(program[t]) = program[t][1] /\ program[t][1] \in Steps
         /\ program[t][1][1] = kind /\ On(t) = program[t][1][2]
         /\ \A i \in 2..Len(program[t]) : program[t][i][1] \in Follows(kind)
<1>1. program[t] \in Seq(Steps) /\ program[t] # <<>> /\ Ordered(program[t])
  BY DEF TypeInv, ProgramsOK, At
<1>2. Len(program[t]) >= 1 /\ Head(program[t]) = program[t][1] /\ program[t][1] \in Steps
      /\ DOMAIN program[t] = 1..Len(program[t]) /\ Len(program[t]) \in Nat
  BY <1>1, SeqHas
<1>3. program[t][1][1] = kind /\ On(t) = program[t][1][2]
  BY <1>2 DEF At, On
<1>4. \A i \in 2..Len(program[t]) : program[t][i][1] \in Follows(program[t][1][1])
  <2>1. \A i \in 2..Len(program[t]) : i \in 1..Len(program[t]) /\ 1 < i /\ 1 \in 1..Len(program[t])
    BY <1>2
  <2>2. QED
    BY <1>1, <1>2, <2>1 DEF Ordered
<1>5. QED
  BY <1>1, <1>2, <1>3, <1>4

----------------------------------------------------------------------------
(* The stack of DisplayReentryGuard                                          *)

(* On both stacks the guard pushes and pops at the end. *)
LEMMA PushPop ==
  ASSUME NEW g \in Guards
  PROVE  /\ Stack(g) \in Seq(Objects)
         /\ \A o \in Objects : Push(g, o) \in Guards /\ Stack(Push(g, o)) = Append(Stack(g), o)
         /\ Stack(g) # <<>> => Pop(g) \in Guards /\ Stack(Pop(g)) = Front(Stack(g))
<1>1. Stack(g) \in Seq(Objects)
  BY DEF Guards, Stack
<1>2. ASSUME NEW o \in Objects
      PROVE  Push(g, o) \in Guards /\ Stack(Push(g, o)) = Append(Stack(g), o)
  <2>1. Append(Stack(g), o) \in Seq(Objects)
    BY <1>1, AppendProperties
  <2>2. CASE ~g.overflow /\ Len(g.small) < SmallCapacity
    <3>1. Stack(g) = g.small /\ Push(g, o) = [g EXCEPT !.small = Append(g.small, o)]
      BY <2>2 DEF Stack, Push
    <3>2. QED
      BY <2>1, <2>2, <3>1 DEF Guards, Stack
  <2>3. CASE ~(~g.overflow /\ Len(g.small) < SmallCapacity)
    <3>1. Push(g, o) = [g EXCEPT !.large = Append(Stack(g), o), !.overflow = TRUE]
      BY <2>3 DEF Push
    <3> DEFINE q == Append(Stack(g), o)
    <3>2. q \in Seq(Objects) /\ Push(g, o) = [g EXCEPT !.large = q, !.overflow = TRUE]
      BY <2>1, <3>1
    <3> HIDE DEF q
    <3>3. Push(g, o) \in Guards /\ Stack(Push(g, o)) = q
      BY <3>2 DEF Guards, Stack
    <3>4. QED
      BY <3>3 DEF q
  <2>4. QED
    BY <2>2, <2>3
<1>3. ASSUME Stack(g) # <<>>
      PROVE  Pop(g) \in Guards /\ Stack(Pop(g)) = Front(Stack(g))
  <2>1. Front(Stack(g)) \in Seq(Objects)
    BY <1>1, <1>3 DEF Front
  <2> DEFINE q == Front(Stack(g))
  <2>2. CASE g.overflow
    <3>1. Stack(g) = g.large /\ Pop(g) = [g EXCEPT !.large = q]
      BY <2>2 DEF Stack, Pop
    <3> HIDE DEF q
    <3>2. Pop(g) \in Guards /\ Stack(Pop(g)) = q
      BY <2>1, <2>2, <3>1 DEF Guards, Stack, q
    <3>3. QED
      BY <3>2 DEF q
  <2>3. CASE ~g.overflow
    <3>1. Stack(g) = g.small /\ Pop(g) = [g EXCEPT !.small = q]
      BY <2>3 DEF Stack, Pop
    <3> HIDE DEF q
    <3>2. Pop(g) \in Guards /\ Stack(Pop(g)) = q
      BY <2>1, <2>3, <3>1 DEF Guards, Stack, q
    <3>3. QED
      BY <3>2 DEF q
  <2>4. QED
    BY <2>2, <2>3
<1>4. QED
  BY <1>1, <1>2, <1>3

----------------------------------------------------------------------------
(* Programs and stacks                                                       *)

(* A thread that is not displaying has an empty stack. *)
LEMMA EmptyStack ==
  ASSUME NEW p \in Seq(Steps), NEW s \in Seq(Objects), Unwinds(p, s),
         p = <<>> \/ p[1][1] \notin Shows
  PROVE  s = <<>>
<1>1. Len(p) \in Nat /\ Len(s) \in Nat /\ DOMAIN p = 1..Len(p) /\ (s = <<>> <=> Len(s) = 0)
      /\ (p = <<>> <=> Len(p) = 0)
  BY SeqHas
<1>2. Entering(p) = 0
  BY DEF Entering, Shows
<1>3. Len(s) <= Len(p)
      /\ \A i \in 1..Len(p) : p[i][1] \in {"filter", "output"} <=> 0 < i /\ i <= Len(s)
  BY <1>1, <1>2 DEF Unwinds
<1>4. ASSUME Len(s) >= 1 PROVE FALSE
  <2>1. 1 \in 1..Len(p) /\ p # <<>>
    BY <1>1, <1>3, <1>4
  <2>2. p[1][1] \in {"filter", "output"}
    BY <1>1, <1>3, <1>4, <2>1
  <2>3. QED
    BY <2>1, <2>2 DEF Shows
<1>5. QED
  BY <1>1, <1>4

(* Nor has one that has yet to begin to display. *)
LEMMA NotShown ==
  ASSUME NEW r \in Seq(Steps), \A i \in 2..Len(r) : r[i][1] \notin Shows,
         r # <<>> => r[1][1] \in {"display", "linked"} \/ r[1][1] \notin Shows
  PROVE  Unwinds(r, <<>>)
<1>1. Len(r) \in Nat /\ DOMAIN r = 1..Len(r) /\ (r = <<>> <=> Len(r) = 0) /\ Len(<<>>) = 0
  BY SeqHas
<1>2. Entering(r) \in {0, 1} /\ Entering(r) <= Len(r)
  BY <1>1 DEF Entering
<1>3. \A i \in 1..Len(r) : r[i][1] \notin {"filter", "output"}
  <2>1. \A i \in 1..Len(r) : i = 1 \/ i \in 2..Len(r)
    BY <1>1
  <2>2. QED
    BY <1>1, <2>1 DEF Shows
<1>4. QED
  BY <1>1, <1>2, <1>3 DEF Unwinds

(* The first step leaves, without or with its channel. *)
LEMMA TailUnwinds ==
  ASSUME NEW p \in Seq(Steps), p # <<>>, Ordered(p), NEW s \in Seq(Objects), Unwinds(p, s),
         p[1][1] \in Shows
  PROVE  /\ p[1][1] \in {"display", "linked"} => Unwinds(Tail(p), s)
         /\ p[1][1] \in {"filter", "output"} =>
              s # <<>> /\ p[1][2] = Last(s) /\ Unwinds(Tail(p), Front(s))
         /\ ~Fresh(Tail(p))
<1> DEFINE r == Tail(p)
<1>1. /\ Len(p) \in Nat /\ Len(p) >= 1 /\ Len(s) \in Nat /\ DOMAIN p = 1..Len(p)
      /\ (s = <<>> <=> Len(s) = 0)
      /\ r \in Seq(Steps) /\ Len(r) = Len(p) - 1 /\ DOMAIN r = 1..Len(r)
      /\ \A i \in 1..Len(r) : r[i] = p[i + 1]
      /\ (r = <<>> <=> Len(r) = 0)
  <2>1. /\ r \in Seq(Steps) /\ Len(r) = Len(p) - 1
        /\ \A i \in 1..Len(r) : r[i] = p[i + 1]
    BY HeadTailProperties
  <2> HIDE DEF r
  <2>2. DOMAIN r = 1..Len(r) /\ (r = <<>> <=> Len(r) = 0)
    BY <2>1, SeqHas
  <2>3. Len(p) \in Nat /\ Len(p) >= 1 /\ DOMAIN p = 1..Len(p)
    BY SeqHas
  <2>4. Len(s) \in Nat /\ (s = <<>> <=> Len(s) = 0)
    BY SeqHas
  <2>5. QED
    BY <2>1, <2>2, <2>3, <2>4
<1> HIDE DEF r
<1>2. \A i \in 1..Len(r) : r[i][1] \in {"output", "error", "fatal"}
  <2>1. \A i \in 1..Len(r) : i + 1 \in 1..Len(p) /\ 1 < i + 1 /\ 1 \in 1..Len(p)
    BY <1>1
  <2>2. \A i \in 1..Len(r) : p[i + 1][1] \in Follows(p[1][1])
    BY <1>1, <2>1 DEF Ordered
  <2>3. QED
    BY <1>1, <2>2, Order
<1>3. Entering(r) = 0
  BY <1>1, <1>2 DEF Entering
<1>4. ~Fresh(r)
  BY <1>1, <1>2 DEF Fresh
<1>5. ASSUME p[1][1] \in {"display", "linked"} PROVE Unwinds(r, s)
  <2>1. Entering(p) = 1
    BY <1>5 DEF Entering
  <2>2. /\ 1 + Len(s) <= Len(p)
        /\ \A i \in 1..Len(p) : p[i][1] \in {"filter", "output"} <=> 1 < i /\ i <= 1 + Len(s)
        /\ \A i \in 1..Len(s) : p[1 + Len(s) + 1 - i][2] = s[i]
    BY <1>1, <2>1 DEF Unwinds
  <2>3. \A i \in 1..Len(r) : r[i][1] \in {"filter", "output"} <=> i <= Len(s)
    <3>1. ASSUME NEW i \in 1..Len(r)
          PROVE  i + 1 \in 1..Len(p) /\ (i <= Len(s) <=> 1 < i + 1 /\ i + 1 <= 1 + Len(s))
      BY <1>1
    <3>2. QED
      BY <1>1, <2>2, <3>1
  <2>4. \A i \in 1..Len(s) : r[0 + Len(s) + 1 - i][2] = s[i]
    <3>1. ASSUME NEW i \in 1..Len(s)
          PROVE  /\ 0 + Len(s) + 1 - i \in 1..Len(r)
                 /\ (0 + Len(s) + 1 - i) + 1 = 1 + Len(s) + 1 - i
      BY <1>1, <2>2
    <3>2. QED
      BY <1>1, <2>2, <3>1
  <2>5. QED
    BY <1>1, <1>3, <2>2, <2>3, <2>4 DEF Unwinds
<1>6. ASSUME p[1][1] \in {"filter", "output"}
      PROVE  s # <<>> /\ p[1][2] = Last(s) /\ Unwinds(r, Front(s))
  <2>1. Entering(p) = 0
    BY <1>6 DEF Entering
  <2>2. /\ Len(s) <= Len(p)
        /\ \A i \in 1..Len(p) : p[i][1] \in {"filter", "output"} <=> i <= Len(s)
        /\ \A i \in 1..Len(s) : p[Len(s) + 1 - i][2] = s[i]
    BY <1>1, <2>1 DEF Unwinds
  <2>3. Len(s) >= 1 /\ 1 \in 1..Len(p)
    BY <1>1, <1>6, <2>2
  <2>4. p[1][2] = s[Len(s)]
    <3>1. Len(s) \in 1..Len(s) /\ Len(s) + 1 - Len(s) = 1
      BY <1>1, <2>3
    <3>2. QED
      BY <2>2, <3>1
  <2> DEFINE f == Front(s)
  <2>5. /\ f \in Seq(Objects) /\ Len(f) = Len(s) - 1 /\ \A i \in 1..(Len(s) - 1) : f[i] = s[i]
        /\ Last(s) = s[Len(s)]
    <3>1. Last(s) = s[Len(s)] /\ f = SubSeq(s, 1, Len(s) - 1)
      BY DEF Front, Last
    <3> HIDE DEF f
    <3>2. /\ Len(s) - 1 \in Nat /\ 1 \in Int /\ Len(s) - 1 \in Int
          /\ \A i \in 1..(Len(s) - 1) : i \in 1..Len(s) /\ s[i] \in Objects
      BY <1>1, <2>3
    <3>3. /\ f \in Seq(Objects) /\ Len(f) = IF 1 <= Len(s) - 1 THEN Len(s) - 1 - 1 + 1 ELSE 0
          /\ \A i \in 1..(Len(s) - 1 - 1 + 1) : f[i] = s[1 + i - 1]
      BY <3>1, <3>2, SubSeqProperties
    <3>4. Len(f) = Len(s) - 1 /\ \A i \in 1..(Len(s) - 1) : f[i] = s[i]
      <4>1. \A i \in 1..(Len(s) - 1) : i \in 1..(Len(s) - 1 - 1 + 1) /\ 1 + i - 1 = i
        BY <1>1
      <4>2. Len(f) = Len(s) - 1
        <5> DEFINE n == Len(s)
        <5>1. n \in Nat /\ n >= 1
          BY <1>1, <2>3
        <5>2. Len(f) = IF 1 <= n - 1 THEN n - 1 - 1 + 1 ELSE 0
          BY <3>3
        <5> HIDE DEF n
        <5>3. Len(f) = n - 1
          BY <5>1, <5>2
        <5>4. QED
          BY <5>3 DEF n
      <4>3. QED
        BY <3>3, <4>1, <4>2
    <3>5. QED
      BY <3>1, <3>3, <3>4
  <2> HIDE DEF f
  <2>6. \A i \in 1..Len(r) : r[i][1] \in {"filter", "output"} <=> i <= Len(f)
    <3>1. ASSUME NEW i \in 1..Len(r)
          PROVE  i + 1 \in 1..Len(p) /\ (i <= Len(f) <=> i + 1 <= Len(s))
      BY <1>1, <2>5
    <3>2. QED
      BY <1>1, <2>2, <3>1
  <2>7. \A i \in 1..Len(f) : r[0 + Len(f) + 1 - i][2] = f[i]
    <3>1. ASSUME NEW i \in 1..Len(f)
          PROVE  r[0 + Len(f) + 1 - i][2] = f[i]
      <4> DEFINE j == 0 + Len(f) + 1 - i
      <4>1. j \in 1..Len(r) /\ i \in 1..Len(s) /\ j + 1 = Len(s) + 1 - i /\ f[i] = s[i]
        BY <1>1, <2>2, <2>3, <2>5
      <4> HIDE DEF j
      <4>2. r[j] = p[j + 1]
        BY <1>1, <4>1
      <4>3. r[j][2] = f[i]
        BY <2>2, <4>1, <4>2
      <4>4. QED
        BY <4>3 DEF j
    <3>2. QED
      BY <3>1
  <2>8. Unwinds(r, f)
    <3>1. 0 + Len(f) <= Len(r) /\ \A i \in 1..Len(r) : 0 < i /\ (i <= 0 + Len(f) <=> i <= Len(f))
      BY <1>1, <2>2, <2>5
    <3>2. QED
      BY <1>1, <1>3, <2>6, <2>7, <3>1 DEF Unwinds
  <2>9. QED
    BY <1>1, <2>3, <2>4, <2>5, <2>8 DEF f
<1>7. QED
  BY <1>4, <1>5, <1>6 DEF r

(* Display enters a channel, follows its link, and comes to the linked one. *)
LEMMA ShowsUnwinds ==
  ASSUME NEW p \in Seq(Steps), p # <<>>, Ordered(p), NEW s \in Seq(Objects), Unwinds(p, s),
         NEW o \in Objects
  PROVE  /\ \A b \in BOOLEAN : p[1][1] \in {"display", "linked"} =>
              /\ Unwinds(<<<<"filter", o, b>>>> \o Tail(p), Append(s, o))
              /\ Unwinds(<<<<"display", o, b>>>> \o Tail(p), s)
         /\ \A to \in LinksTo(Objects) : p[1][1] = "filter" /\ p[1][2] = o =>
              Unwinds(<<<<"linked", to>>, <<"output", o>>>> \o Tail(p), s)
<1>1. /\ Len(p) \in Nat /\ Len(p) >= 1 /\ Len(s) \in Nat /\ DOMAIN p = 1..Len(p)
      /\ (s = <<>> <=> Len(s) = 0)
  BY SeqHas
<1>2. ASSUME p[1][1] \in {"display", "linked"}
      PROVE  /\ 1 + Len(s) <= Len(p)
             /\ \A i \in 1..Len(p) : p[i][1] \in {"filter", "output"} <=> 1 < i /\ i <= 1 + Len(s)
             /\ \A i \in 1..Len(s) : p[1 + Len(s) + 1 - i][2] = s[i]
  BY <1>1, <1>2 DEF Unwinds, Entering
<1>3. ASSUME NEW b \in BOOLEAN, NEW a \in Steps, p[1][1] \in {"display", "linked"}
      PROVE  \A r : r = <<a>> \o Tail(p) =>
               /\ r \in Seq(Steps) /\ Len(r) = Len(p) /\ r[1] = a
               /\ \A i \in 2..Len(p) : r[i] = p[i]
               /\ DOMAIN r = 1..Len(p) /\ r # <<>>
  <2> SUFFICES ASSUME NEW r, r = <<a>> \o Tail(p)
               PROVE  /\ r \in Seq(Steps) /\ Len(r) = Len(p) /\ r[1] = a
                      /\ \A i \in 2..Len(p) : r[i] = p[i]
                      /\ DOMAIN r = 1..Len(p) /\ r # <<>>
    OBVIOUS
  <2> DEFINE q == <<a>>
  <2>1. q \in Seq(Steps) /\ Len(q) = 1 /\ q[1] = a /\ r = q \o Tail(p)
    OBVIOUS
  <2> HIDE DEF q
  <2>2. /\ r \in Seq(Steps) /\ Len(r) = 1 + Len(p) - 1 /\ \A i \in 1..1 : r[i] = q[i]
        /\ \A i \in (1 + 1)..Len(r) : r[i] = p[i - 1 + 1]
    BY <2>1, Replaced
  <2>3. r[1] = a /\ Len(r) = Len(p)
    BY <1>1, <2>1, <2>2
  <2>4. \A i \in 2..Len(p) : r[i] = p[i]
    <3>1. \A i \in 2..Len(p) : i \in (1 + 1)..Len(r) /\ i - 1 + 1 = i
      BY <1>1, <2>3
    <3>2. QED
      BY <2>2, <3>1
  <2>5. QED
    BY <1>1, <2>2, <2>3, <2>4, SeqHas
<1>4. ASSUME NEW b \in BOOLEAN, p[1][1] \in {"display", "linked"}
      PROVE  Unwinds(<<<<"filter", o, b>>>> \o Tail(p), Append(s, o))
  <2> DEFINE r == <<<<"filter", o, b>>>> \o Tail(p)
             w == Append(s, o)
  <2>1. /\ Len(r) = Len(p) /\ r[1] = <<"filter", o, b>> /\ DOMAIN r = 1..Len(p) /\ r # <<>>
        /\ \A i \in 2..Len(p) : r[i] = p[i]
    BY <1>3, <1>4, StepIs
  <2>2. /\ w \in Seq(Objects) /\ Len(w) = Len(s) + 1 /\ w[Len(s) + 1] = o
        /\ \A i \in 1..Len(s) : w[i] = s[i]
    BY AppendProperties
  <2> HIDE DEF r, w
  <2>3. Entering(r) = 0 /\ r[1][1] = "filter" /\ r[1][2] = o
    BY <2>1 DEF Entering
  <2>4. \A i \in 1..Len(p) : r[i][1] \in {"filter", "output"} <=> i <= Len(w)
    <3>1. \A i \in 1..Len(p) : \/ i = 1 /\ i <= Len(w)
                               \/ i \in 2..Len(p) /\ (i <= Len(w) <=> 1 < i /\ i <= 1 + Len(s))
      BY <1>1, <2>2
    <3>2. QED
      BY <1>2, <1>4, <2>1, <2>3, <3>1
  <2>5. ASSUME NEW i \in 1..Len(w) PROVE r[0 + Len(w) + 1 - i][2] = w[i]
    <3>1. \/ i = Len(s) + 1 /\ 0 + Len(w) + 1 - i = 1
          \/ /\ i \in 1..Len(s) /\ 0 + Len(w) + 1 - i = 1 + Len(s) + 1 - i
             /\ 1 + Len(s) + 1 - i \in 2..Len(p)
      BY <1>1, <1>2, <1>4, <2>2
    <3>2. ASSUME i \in 1..Len(s)
          PROVE  p[1 + Len(s) + 1 - i][2] = s[i] /\ w[i] = s[i]
      BY <1>2, <1>4, <2>2, <3>2
    <3>3. CASE i = Len(s) + 1 /\ 0 + Len(w) + 1 - i = 1
      BY <2>2, <2>3, <3>3
    <3>4. CASE /\ i \in 1..Len(s) /\ 0 + Len(w) + 1 - i = 1 + Len(s) + 1 - i
               /\ 1 + Len(s) + 1 - i \in 2..Len(p)
      BY <2>1, <3>2, <3>4
    <3>5. QED
      BY <3>1, <3>3, <3>4
  <2>6. Unwinds(r, w)
    <3>1. 0 + Len(w) <= Len(r) /\ \A i \in 1..Len(p) : 0 < i
      BY <1>1, <1>2, <1>4, <2>1, <2>2
    <3>2. QED
      BY <2>1, <2>3, <2>4, <2>5, <3>1 DEF Unwinds
  <2>7. QED
    BY <2>6 DEF r, w
<1>5. ASSUME NEW b \in BOOLEAN, p[1][1] \in {"display", "linked"}
      PROVE  Unwinds(<<<<"display", o, b>>>> \o Tail(p), s)
  <2> DEFINE r == <<<<"display", o, b>>>> \o Tail(p)
  <2>1. /\ Len(r) = Len(p) /\ r[1] = <<"display", o, b>> /\ DOMAIN r = 1..Len(p) /\ r # <<>>
        /\ \A i \in 2..Len(p) : r[i] = p[i]
    BY <1>3, <1>5, StepIs
  <2> HIDE DEF r
  <2>2. Entering(r) = 1 /\ r[1][1] = "display"
    BY <2>1 DEF Entering
  <2>3. \A i \in 1..Len(p) : r[i][1] \in {"filter", "output"} <=> 1 < i /\ i <= 1 + Len(s)
    <3>1. \A i \in 1..Len(p) : (i = 1 /\ ~(1 < i)) \/ i \in 2..Len(p)
      BY <1>1
    <3>2. QED
      BY <1>2, <1>5, <2>1, <2>2, <3>1
  <2>4. \A i \in 1..Len(s) : r[1 + Len(s) + 1 - i][2] = s[i]
    <3>1. \A i \in 1..Len(s) : 1 + Len(s) + 1 - i \in 2..Len(p)
      BY <1>1, <1>2, <1>5
    <3>2. QED
      BY <1>2, <1>5, <2>1, <3>1
  <2>5. Unwinds(r, s)
    BY <1>2, <1>5, <2>1, <2>2, <2>3, <2>4 DEF Unwinds
  <2>6. QED
    BY <2>5 DEF r
<1>6. ASSUME NEW to \in LinksTo(Objects), p[1][1] = "filter", p[1][2] = o
      PROVE  Unwinds(<<<<"linked", to>>, <<"output", o>>>> \o Tail(p), s)
  <2> DEFINE q == <<<<"linked", to>>, <<"output", o>>>>
             r == q \o Tail(p)
  <2>1. /\ q \in Seq(Steps) /\ Len(q) = 2 /\ q[1] = <<"linked", to>> /\ q[2] = <<"output", o>>
    <3>1. <<"linked", to>> \in Steps /\ <<"output", o>> \in Steps
      BY StepIs DEF OfObject
    <3>2. QED
      BY <3>1, Few
  <2> HIDE DEF q
  <2>2. /\ r \in Seq(Steps) /\ Len(r) = 2 + Len(p) - 1 /\ \A i \in 1..2 : r[i] = q[i]
        /\ \A i \in (2 + 1)..Len(r) : r[i] = p[i - 2 + 1]
    <3>1. r = q \o Tail(p)
      OBVIOUS
    <3> HIDE DEF r
    <3>q. q \in Seq(Steps)
      BY <2>1
    <3>2. /\ r \in Seq(Steps) /\ Len(r) = Len(q) + Len(p) - 1
          /\ \A i \in 1..Len(q) : r[i] = q[i]
          /\ \A i \in (Len(q) + 1)..Len(r) : r[i] = p[i - Len(q) + 1]
      BY <3>q, <3>1, Replaced
    <3>3. QED
      BY <2>1, <3>2
  <2> HIDE DEF r
  <2>3. /\ Len(r) = Len(p) + 1 /\ r[1] = <<"linked", to>> /\ r[2] = <<"output", o>>
        /\ DOMAIN r = 1..(Len(p) + 1) /\ r # <<>>
    BY <1>1, <2>1, <2>2, SeqHas
  <2>4. \A i \in 3..(Len(p) + 1) : i - 1 \in 1..Len(p) /\ r[i] = p[i - 1]
    <3>1. \A i \in 3..(Len(p) + 1) : i \in (2 + 1)..Len(r) /\ i - 2 + 1 = i - 1 /\ i - 1 \in 1..Len(p)
      BY <1>1, <2>3
    <3>2. QED
      BY <2>2, <3>1
  <2>5. Entering(r) = 1 /\ r[1][1] = "linked" /\ r[2][1] = "output" /\ r[2][2] = o
    BY <2>3 DEF Entering
  <2>6. /\ Len(s) <= Len(p)
        /\ \A i \in 1..Len(p) : p[i][1] \in {"filter", "output"} <=> i <= Len(s)
        /\ \A i \in 1..Len(s) : p[Len(s) + 1 - i][2] = s[i]
    <3>1. Entering(p) = 0 /\ 0 + Len(s) = Len(s) /\ \A i \in 1..Len(p) : 0 < i
      BY <1>1, <1>6 DEF Entering
    <3>2. QED
      BY <1>1, <3>1 DEF Unwinds
  <2>7. Len(s) >= 1
    <3>1. 1 \in 1..Len(p)
      BY <1>1
    <3>2. QED
      BY <1>6, <2>6, <3>1
  <2>8. \A i \in 1..(Len(p) + 1) : r[i][1] \in {"filter", "output"} <=> 1 < i /\ i <= 1 + Len(s)
    <3>1. \A i \in 1..(Len(p) + 1) :
            \/ i = 1 /\ ~(1 < i)
            \/ i = 2 /\ 1 < i /\ i <= 1 + Len(s)
            \/ i \in 3..(Len(p) + 1) /\ (i - 1 <= Len(s) <=> 1 < i /\ i <= 1 + Len(s))
      BY <1>1, <2>6, <2>7
    <3>2. QED
      BY <2>4, <2>5, <2>6, <3>1
  <2>9. ASSUME NEW i \in 1..Len(s) PROVE r[1 + Len(s) + 1 - i][2] = s[i]
    <3>1. \/ 1 + Len(s) + 1 - i = 2 /\ Len(s) + 1 - i = 1
          \/ /\ 1 + Len(s) + 1 - i \in 3..(Len(p) + 1)
             /\ (1 + Len(s) + 1 - i) - 1 = Len(s) + 1 - i
      BY <1>1, <2>6
    <3>2. p[Len(s) + 1 - i][2] = s[i]
      BY <2>6
    <3>3. QED
      BY <1>6, <2>4, <2>5, <3>1, <3>2
  <2>10. Unwinds(r, s)
    <3>1. 1 + Len(s) <= Len(r)
      BY <1>1, <2>3, <2>6
    <3>2. QED
      BY <2>3, <2>5, <2>8, <2>9, <3>1 DEF Unwinds
  <2>11. QED
    BY <2>10 DEF r, q
<1>7. QED
  BY <1>4, <1>5, <1>6

----------------------------------------------------------------------------
(* What a step does to programs, stacks and counts                           *)

(* It is enough to look at the thread that takes the step. *)
LEMMA CallsKept ==
  ASSUME TypeInv, CallInv, NEW t \in Threads, program[t] # <<>>,
         NEW q, Fits(q, program[t][1][1]), Then(t, q),
         NEW g \in Guards, guard' = [guard EXCEPT ![t] = g],
         NEW h \in [Objects -> Nat], hits' = [hits EXCEPT ![t] = h],
         Unwinds(q \o Tail(program[t]), Stack(g)),
         HitsInv(q \o Tail(program[t]), Stack(g), h)
  PROVE  ProgramsOK' /\ CallInv'
<1>1. guard \in [Threads -> Guards] /\ hits \in [Threads -> [Objects -> Nat]]
  BY DEF TypeInv, ProgramsOK
<1>2. /\ program' \in [Threads -> Seq(Steps)]
      /\ \A u \in Threads : Ordered(program'[u])
      /\ \A u \in Threads \ {t} : program'[u] = program[u]
      /\ program'[t] = q \o Tail(program[t])
  BY Program
<1>3. /\ guard' \in [Threads -> Guards] /\ hits' \in [Threads -> [Objects -> Nat]]
      /\ guard'[t] = g /\ hits'[t] = h
      /\ \A u \in Threads \ {t} : guard'[u] = guard[u] /\ hits'[u] = hits[u]
  BY <1>1
<1>4. ProgramsOK'
  BY <1>2, <1>3 DEF ProgramsOK
<1>5. ASSUME NEW u \in Threads
      PROVE  /\ Unwinds(program'[u], Stack(guard'[u]))
             /\ HitsInv(program'[u], Stack(guard'[u]), hits'[u])
  <2>1. CASE u = t
    BY <1>2, <1>3, <2>1
  <2>2. CASE u # t
    BY <1>2, <1>3, <2>2 DEF CallInv
  <2>3. QED
    BY <2>1, <2>2
<1>6. CallInv'
  BY <1>5 DEF CallInv
<1>7. QED
  BY <1>4, <1>6

(* A step that begins no display, with neither stack nor counts touched. *)
LEMMA OtherCalls ==
  ASSUME TypeInv, CallInv, NEW t \in Threads, program[t] # <<>>,
         program[t][1][1] \notin Shows,
         NEW q, Fits(q, program[t][1][1]), Then(t, q),
         \A i \in 1..Len(q) : q[i][1] \notin Shows,
         \A i \in 1..Len(q) : q[i][1] # "find",
         UNCHANGED <<guard, hits>>
  PROVE  ProgramsOK' /\ CallInv'
<1> DEFINE p == program[t]
           r == q \o Tail(p)
           s == Stack(guard[t])
<1>1. /\ p \in Seq(Steps) /\ p # <<>> /\ Ordered(p) /\ q \in Seq(Steps)
      /\ guard[t] \in Guards /\ hits[t] \in [Objects -> Nat]
      /\ guard \in [Threads -> Guards] /\ hits \in [Threads -> [Objects -> Nat]]
  BY DEF TypeInv, ProgramsOK, Fits
<1>2. s \in Seq(Objects)
  BY <1>1, PushPop
<1>3. Unwinds(p, s) /\ HitsInv(p, s, hits[t])
  BY DEF CallInv
<1>c. p[1][1] \notin Shows
  OBVIOUS
<1> HIDE DEF p
<1>4. s = <<>>
  BY <1>1, <1>2, <1>3, <1>c, EmptyStack
<1>e. r = q \o Tail(p)
  OBVIOUS
<1> HIDE DEF r
<1>5. /\ Len(p) \in Nat /\ Len(q) \in Nat /\ Len(p) >= 1
      /\ r \in Seq(Steps) /\ Len(r) = Len(q) + Len(p) - 1
      /\ \A i \in 1..Len(q) : r[i] = q[i]
      /\ \A i \in (Len(q) + 1)..Len(r) : r[i] = p[i - Len(q) + 1]
  BY <1>1, <1>e, Replaced
<1>6. \A i \in 2..Len(p) : p[i][1] \notin Shows
  <2>1. \A i \in 2..Len(p) : i \in 1..Len(p) /\ 1 < i /\ 1 \in 1..Len(p)
    BY <1>5
  <2>2. DOMAIN p = 1..Len(p) /\ Entering(p) = 0 /\ Len(s) = 0
    BY <1>1, <1>c, <1>4, SeqHas DEF Entering, Shows
  <2>3. \A i \in 2..Len(p) : p[i][1] \notin {"filter", "output"}
    <3>1. \A i \in 1..Len(p) : p[i][1] \in {"filter", "output"} <=> 0 < i /\ i <= 0 + 0
      BY <1>3, <2>2 DEF Unwinds
    <3>2. QED
      BY <1>5, <2>1, <3>1
  <2>4. \A i \in 2..Len(p) : p[i][1] \in Follows(p[1][1])
    BY <1>1, <2>1, <2>2 DEF Ordered
  <2>5. \A k : \A f \in Follows(k) : f \notin {"display", "linked"}
    BY DEF Follows, Work, Shows
  <2>6. QED
    BY <2>3, <2>4, <2>5 DEF Shows
<1>7. \A i \in 1..Len(r) : r[i][1] \notin Shows
  <2>1. \A i \in 1..Len(r) : i \in 1..Len(q)
          \/ (i \in (Len(q) + 1)..Len(r) /\ i - Len(q) + 1 \in 2..Len(p))
    BY <1>5
  <2>2. QED
    BY <1>5, <1>6, <2>1
<1>8. Unwinds(r, <<>>)
  <2>1. \A i \in 2..Len(r) : i \in 1..Len(r)
    BY <1>5
  <2>2. r # <<>> => 1 \in 1..Len(r)
    BY <1>5
  <2>3. QED
    BY <1>5, <1>7, <2>1, <2>2, NotShown
<1>9. Fresh(r) => Fresh(p)
  <2>1. DOMAIN r = 1..Len(r) /\ DOMAIN p = 1..Len(p)
    BY <1>1, <1>5, SeqHas
  <2>2. ASSUME NEW i \in 1..Len(r), r[i][1] = "find" PROVE Fresh(p)
    <3>1. i \notin 1..Len(q)
      BY <1>5, <2>2
    <3>2. i \in (Len(q) + 1)..Len(r) /\ i - Len(q) + 1 \in 1..Len(p)
      BY <1>5, <3>1
    <3>3. p[i - Len(q) + 1][1] = "find"
      BY <1>5, <2>2, <3>2
    <3>4. QED
      BY <2>1, <3>2, <3>3 DEF Fresh
  <2>3. QED
    BY <1>7, <2>1, <2>2 DEF Fresh, Shows
<1>10. HitsInv(r, <<>>, hits[t])
  <2>1. DOMAIN <<>> = {} /\ (Fresh(r) => \A o \in Objects : hits[t][o] = 0)
        /\ \A o \in Objects : hits[t][o] <= 1
    BY <1>3, <1>9 DEF HitsInv
  <2>2. QED
    BY <2>1 DEF HitsInv, IsInjective
<1>11. guard' = [guard EXCEPT ![t] = guard[t]] /\ hits' = [hits EXCEPT ![t] = hits[t]]
  BY <1>1
<1>12. Unwinds(q \o Tail(program[t]), Stack(guard[t]))
       /\ HitsInv(q \o Tail(program[t]), Stack(guard[t]), hits[t])
  BY <1>4, <1>8, <1>10 DEF r, p, s
<1>13. QED
  BY <1>1, <1>11, <1>12, CallsKept

(* Work steps. *)
LEMMA WorkCalls ==
  ASSUME TypeInv, CallInv, NEW t \in Threads, program[t] # <<>>,
         program[t][1][1] \in Work,
         NEW q \in Seq(Steps), \A i \in 1..Len(q) : q[i][1] \in Work, Then(t, q),
         UNCHANGED <<guard, hits>>
  PROVE  ProgramsOK' /\ CallInv'
<1>1. Fits(q, program[t][1][1])
  BY FitsWork
<1>2. \A k \in Work : k \notin Shows /\ k # "find"
  BY DEF Work, Shows
<1>3. QED
  BY <1>1, <1>2, OtherCalls

(* The steps of DeleteChannel, and of the next round. *)
LEMMA Removal ==
  ASSUME NEW o \in Objects, NEW b \in BOOLEAN
  PROVE  /\ RemoveSteps(o) \in Seq(Steps)
         /\ \A i \in 1..Len(RemoveSteps(o)) : RemoveSteps(o)[i][1] \in Work \cap Closing
         /\ <<"clear", o>> \in Range(RemoveSteps(o))
         /\ RemoveSteps(o) \o <<<<"take", b>>>> \in Seq(Steps)
         /\ \A i \in 1..Len(RemoveSteps(o) \o <<<<"take", b>>>>) :
              (RemoveSteps(o) \o <<<<"take", b>>>>)[i][1] \in Work \cap Closing
         /\ <<"clear", o>> \in Range(RemoveSteps(o) \o <<<<"take", b>>>>)
         /\ <<"take", b>> \in Range(RemoveSteps(o) \o <<<<"take", b>>>>)
<1> DEFINE f == <<"freeze", o>>
           c == <<"clear", o>>
           u == <<"unlink", o>>
           w == <<"take", b>>
           r == RemoveSteps(o)
           d == <<w>>
           z == r \o d
<1>1. f \in Steps /\ c \in Steps /\ u \in Steps /\ w \in Steps
  BY StepIs DEF OfObject
<1>2. f[1] = "freeze" /\ c[1] = "clear" /\ u[1] = "unlink" /\ w[1] = "take"
  OBVIOUS
<1>3. r = <<f, c, u>>
  BY DEF RemoveSteps
<1> HIDE DEF f, c, u, w, r
<1>4. r \in Seq(Steps) /\ Len(r) = 3 /\ r[1] = f /\ r[2] = c /\ r[3] = u
  BY <1>1, <1>3, Few
<1>5. d \in Seq(Steps) /\ Len(d) = 1 /\ d[1] = w
  BY <1>1, Few
<1> HIDE DEF d
<1>6. /\ z \in Seq(Steps) /\ Len(z) = 3 + 1
      /\ \A i \in 1..(3 + 1) : z[i] = IF i <= 3 THEN r[i] ELSE d[i - 3]
  <2>1. /\ z \in Seq(Steps) /\ Len(z) = Len(r) + Len(d)
        /\ \A i \in 1..(Len(r) + Len(d)) : z[i] = IF i <= Len(r) THEN r[i] ELSE d[i - Len(r)]
    BY <1>4, <1>5, ConcatProperties
  <2>2. QED
    BY <1>4, <1>5, <2>1
<1> HIDE DEF z
<1>7. Len(z) = 4 /\ z[1] = f /\ z[2] = c /\ z[3] = u /\ z[4] = w
  BY <1>4, <1>5, <1>6
<1>8. {"freeze", "clear", "unlink", "take"} \subseteq Work \cap Closing
  BY DEF Work, Closing
<1>9. \A i \in 1..Len(r) : r[i][1] \in Work \cap Closing
  BY <1>2, <1>4, <1>8
<1>10. \A i \in 1..Len(z) : z[i][1] \in Work \cap Closing
  BY <1>2, <1>7, <1>8
<1>11. c \in Range(r)
  <2>1. 2 \in 1..Len(r)
    BY <1>4
  <2>2. QED
    BY <1>4, <2>1, SeqHas
<1>12. c \in Range(z) /\ w \in Range(z)
  <2>1. 2 \in 1..Len(z) /\ 4 \in 1..Len(z)
    BY <1>7
  <2>2. QED
    BY <1>6, <1>7, <2>1, SeqHas
<1>13. QED
  BY <1>4, <1>6, <1>9, <1>10, <1>11, <1>12 DEF c, w, z, d, r

----------------------------------------------------------------------------
(* What a step does to channels, backends and records                        *)

(* What the invariants about backends need to know of a step of a thread. *)
Effect(t) ==
  /\ \A u \in Threads \ {t} : program'[u] = program[u]
  /\ stray \subseteq stray'
  /\ <<"handler">> \in Range(program'[t]) /\ <<"handler">> \notin Range(program[t]) =>
       /\ Backends' = Backends
       /\ \A o \in Objects : o \in Registered' => <<"flush", o>> \in Range(program'[t])
  /\ \A o \in Objects :
       /\ Backends[o] = {} /\ Backends'[o] # {} =>
            dataLock[o] = None /\ (o \in Registered' \/ o \in stray')
       /\ o \in Registered => o \in Registered' \/ ToClear(t, o)'
       /\ ToClear(t, o) => ToClear(t, o)' \/ Backends'[o] = {}
       /\ queued'[o] \subseteq queued[o] \cup {t}
       /\ t \in queued'[o] /\ t \notin queued[o] =>
            Backends[o] # {} /\ Backends'[o] # {} /\ <<"handler">> \notin Range(program'[t])
       /\ Backends[o] # {} /\ Backends'[o] = {} => Cleared(t, o)'
       /\ \A u \in Threads \ {t} : dataLock[o] = u =>
            dataLock'[o] = u /\ link'[o] = link[o] /\ Backends'[o] = Backends[o]
       /\ dataLock[o] = t => dataLock'[o] = None /\ (Backends'[o] = {} => queued'[o] = {})
       /\ dataLock[o] = None => dataLock'[o] = None \/ (dataLock'[o] = t /\ Storing(t, o)')
       /\ <<"flush", o>> \in Range(program[t]) =>
            <<"flush", o>> \in Range(program'[t]) \/ queued'[o] = {}

(* No backend is left behind. *)
LEMMA EffectOnBackends ==
  ASSUME TypeInv, BackendsInv, NEW t \in Threads, Effect(t)
  PROVE  BackendsInv'
<1>1. None \notin Threads /\ dataLock \in [Objects -> Threads \cup {None}]
  BY ChannelsAssumption DEF TypeInv, TypeOK
<1> SUFFICES ASSUME NEW o \in Objects
             PROVE  /\ dataLock'[o] # None =>
                         LET p == program'[dataLock'[o]] IN
                           p # <<>> /\ p[1][1] = "store" /\ p[1][2] = o
                    /\ Backends'[o] # {} =>
                         \/ o \in Registered' \/ o \in stray'
                         \/ \E u \in Threads : <<"clear", o>> \in Range(program'[u])
                    /\ Backends'[o] = {} /\ queued'[o] # {} =>
                         \E u \in Threads : Cleared(u, o)'
  BY Zenon DEF BackendsInv, Storing, ToClear
<1>2. dataLock[o] \in Threads \cup {None}
  BY <1>1
<1>3. ASSUME dataLock'[o] # None
      PROVE  LET p == program'[dataLock'[o]] IN
               p # <<>> /\ p[1][1] = "store" /\ p[1][2] = o
  <2>1. CASE dataLock[o] = None
    <3>1. dataLock'[o] = t /\ Storing(t, o)'
      BY <1>3, <2>1 DEF Effect
    <3>2. QED
      BY <3>1 DEF Storing
  <2>2. CASE dataLock[o] \in Threads \ {t}
    <3>1. dataLock'[o] = dataLock[o] /\ program'[dataLock[o]] = program[dataLock[o]]
      BY <2>2 DEF Effect
    <3>2. Storing(dataLock[o], o)
      BY <1>1, <2>2 DEF BackendsInv
    <3>3. QED
      BY <3>1, <3>2 DEF Storing
  <2>3. QED
    BY <1>2, <1>3, <2>1, <2>2 DEF Effect
<1>4. ASSUME Backends'[o] # {}
      PROVE  o \in Registered' \/ o \in stray' \/ \E u \in Threads : ToClear(u, o)'
  <2>1. CASE Backends[o] = {}
    BY <1>4, <2>1 DEF Effect
  <2>2. CASE o \in Registered \/ o \in stray
    BY <2>2 DEF Effect
  <2>3. ASSUME NEW u \in Threads, ToClear(u, o) PROVE ToClear(u, o)'
    <3>1. CASE u = t
      BY <1>4, <2>3, <3>1 DEF Effect
    <3>2. CASE u # t
      BY <2>3, <3>2 DEF Effect, ToClear
    <3>3. QED
      BY <3>1, <3>2
  <2>4. QED
    BY <2>1, <2>2, <2>3 DEF BackendsInv
<1>5. ASSUME Backends'[o] = {}, queued'[o] # {} PROVE \E u \in Threads : Cleared(u, o)'
  <2>1. CASE Backends[o] # {}
    BY <1>5, <2>1 DEF Effect
  <2>2. CASE Backends[o] = {}
    <3>1. queued[o] # {}
      BY <1>5, <2>2 DEF Effect
    <3>2. PICK u \in Threads : Cleared(u, o)
      BY <2>2, <3>1 DEF BackendsInv
    <3>3. u # t
      BY <1>5, <3>2 DEF Effect, Cleared
    <3>4. /\ dataLock'[o] = u /\ link'[o] = link[o] /\ Backends'[o] = Backends[o]
          /\ program'[u] = program[u]
      BY <3>2, <3>3 DEF Effect, Cleared
    <3>5. Cleared(u, o)'
      BY <3>2, <3>4 DEF Cleared
    <3>6. QED
      BY <3>5
  <2>3. QED
    BY <2>1, <2>2
<1>6. QED
  BY <1>3, <1>4, <1>5 DEF ToClear

(* Before the fatal handler there is nothing but flushes, and after it nothing. *)
LEMMA HandlerOnly ==
  ASSUME NEW p \in Seq(Steps), Ordered(p), <<"handler">> \in Range(p)
  PROVE  \A i \in 1..Len(p) :
           /\ p[i][1] \in {"flush", "handler"}
           /\ p[i][1] = "handler" => i = Len(p)
<1>1. Len(p) \in Nat /\ DOMAIN p = 1..Len(p)
  BY SeqHas
<1>2. PICK i \in 1..Len(p) : p[i] = <<"handler">>
  BY SeqHas
<1>3. p[i][1] = "handler" /\ Follows("handler") = {}
  BY <1>2, Order
<1>4. \A k : "handler" \in Follows(k) => k = "flush"
  BY DEF Follows, Work, Shows
<1>5. ASSUME NEW j \in 1..Len(p), NEW k \in 1..Len(p), p[j][1] = "handler", j < k PROVE FALSE
  BY <1>1, <1>3, <1>5 DEF Ordered
<1>6. ASSUME NEW j \in 1..Len(p), j # i PROVE p[j][1] = "flush" /\ j < i
  <2>1. j < i
    BY <1>1, <1>3, <1>5, <1>6
  <2>2. p[i][1] \in Follows(p[j][1])
    BY <1>1, <2>1 DEF Ordered
  <2>3. QED
    BY <1>3, <1>4, <2>1, <2>2
<1>7. i = Len(p)
  <2> DEFINE n == Len(p)
  <2>0. n \in Nat /\ i \in 1..n
    BY <1>1
  <2> HIDE DEF n
  <2>1. n \in 1..n /\ (n = i \/ i < n)
    BY <2>0
  <2>2. QED
    BY <1>3, <1>5, <2>1 DEF n
<1>8. QED
  BY <1>3, <1>6, <1>7

(* Nor are records that a thread in the fatal handler has queued. *)
LEMMA EffectOnFatal ==
  ASSUME TypeInv, BackendsInv, FatalInv, NEW t \in Threads, Effect(t), ProgramsOK', BackendsInv'
  PROVE  FatalInv'
<1> SUFFICES ASSUME NEW v \in Threads, NEW o \in Objects,
                    v \in queued'[o], <<"handler">> \in Range(program'[v])
             PROVE  \/ <<"flush", o>> \in Range(program'[v])
                    \/ o \in stray'
                    \/ \E u \in Threads \ {v} : ToClear(u, o)' \/ Cleared(u, o)'
  BY DEF FatalInv
<1>1. ~ToClear(v, o)' /\ ~Cleared(v, o)'
  <2> DEFINE p == program'[v]
  <2>1. p \in Seq(Steps) /\ Ordered(p) /\ <<"handler">> \in Range(p)
    BY DEF ProgramsOK
  <2>2. ToClear(v, o)' <=> <<"clear", o>> \in Range(p)
    BY DEF ToClear
  <2>3. Cleared(v, o)' => p # <<>> /\ p[1][1] = "store"
    BY DEF Cleared
  <2> HIDE DEF p
  <2>4. \A i \in 1..Len(p) : p[i][1] \in {"flush", "handler"}
    BY <2>1, HandlerOnly
  <2>5. <<"clear", o>> \notin Range(p)
    <3>1. ASSUME NEW i \in 1..Len(p), p[i] = <<"clear", o>> PROVE FALSE
      <4>1. p[i][1] = "clear"
        BY <3>1
      <4>2. QED
        BY <2>4, <4>1
    <3>2. QED
      BY <2>1, <3>1, SeqHas
  <2>6. p # <<>> => 1 \in 1..Len(p)
    BY <2>1
  <2>7. QED
    BY <2>2, <2>3, <2>4, <2>5, <2>6
<1>2. CASE Backends'[o] = {}
  <2>1. PICK u \in Threads : Cleared(u, o)'
    BY <1>2 DEF BackendsInv
  <2>2. QED
    BY <1>1, <2>1
<1>3. CASE Backends'[o] # {} /\ v = t /\ <<"handler">> \notin Range(program[t])
  <2>1. CASE o \in Registered'
    BY <1>3, <2>1 DEF Effect
  <2>2. CASE o \in stray'
    BY <2>2
  <2>3. ASSUME NEW u \in Threads, ToClear(u, o)'
        PROVE  \E w \in Threads \ {v} : ToClear(w, o)' \/ Cleared(w, o)'
    BY <1>1, <2>3
  <2>4. QED
    BY <1>3, <2>1, <2>2, <2>3 DEF BackendsInv
<1>4. CASE Backends'[o] # {} /\ ~(v = t /\ <<"handler">> \notin Range(program[t]))
  <2>1. v \in queued[o]
    <3>1. CASE v = t
      BY <3>1 DEF Effect
    <3>2. CASE v # t
      BY <3>2 DEF Effect
    <3>3. QED
      BY <3>1, <3>2
  <2>2. <<"handler">> \in Range(program[v])
    BY <1>4 DEF Effect
  <2>3. Backends[o] # {}
    <3> SUFFICES ASSUME Backends[o] = {} PROVE FALSE
      OBVIOUS
    <3>1. dataLock[o] = None
      BY <1>4 DEF Effect
    <3>2. PICK u \in Threads : Cleared(u, o)
      BY <2>1 DEF BackendsInv
    <3>3. QED
      BY <3>1, <3>2, ChannelsAssumption DEF Cleared
  <2>4. CASE <<"flush", o>> \in Range(program[v])
    <3>1. <<"flush", o>> \in Range(program'[v])
      BY <2>4 DEF Effect
    <3>2. QED
      BY <3>1
  <2>5. CASE o \in stray
    BY <2>5 DEF Effect
  <2>6. ASSUME NEW u \in Threads \ {v}, ToClear(u, o) PROVE ToClear(u, o)'
    <3>1. CASE u = t
      BY <1>4, <2>6, <3>1 DEF Effect
    <3>2. CASE u # t
      BY <2>6, <3>2 DEF Effect, ToClear
    <3>3. QED
      BY <3>1, <3>2
  <2>7. \A u \in Threads : ~Cleared(u, o)
    BY <2>3 DEF Cleared
  <2>8. QED
    BY <2>1, <2>2, <2>4, <2>5, <2>6, <2>7 DEF FatalInv
<1>5. QED
  BY <1>2, <1>3, <1>4

(* What the invariant about the end needs to know of a step. *)
Reaps(t) == <<"reap", TRUE>> \in Range(program[t]) \/ <<"take", TRUE>> \in Range(program[t])

Closes(t) ==
  closed =>
    /\ \A i \in DOMAIN program'[t] : program'[t][i][1] \in Closing
    /\ Channels' = Channels
    /\ \A o \in Objects : Backends[o] = {} => Backends'[o] = {}
    /\ ToDelete = <<>> => ToDelete' = <<>>
    /\ throttled => throttled'
    /\ Reaps(t) => Reaps(t)' \/ throttled' \/ ToDelete' = <<>>

(* The channels the Logger knows. *)
LEMMA Known ==
  ASSUME TypeOK
  PROVE  /\ Created \subseteq Objects
         /\ DOMAIN nameOf = 1..Len(nameOf) /\ Len(nameOf) \in Nat
         /\ Range(Channels) \subseteq {0} \cup Objects
         /\ Range(ToDelete) \subseteq Objects
         /\ \A n \in Names : Channels[n] \in Range(Channels)
<1>1. nameOf \in Seq(Names) /\ Len(nameOf) <= MaxChannels
      /\ Channels \in [Names -> {0} \cup Created] /\ Range(ToDelete) \subseteq Created
  BY DEF TypeOK
<1>2. DOMAIN nameOf = 1..Len(nameOf) /\ Len(nameOf) \in Nat
  BY <1>1, SeqHas
<1>3. Created \subseteq Objects
  BY <1>1, <1>2, ChannelsAssumption DEF Created, Objects
<1>4. Range(Channels) \subseteq {0} \cup Created /\ \A n \in Names : Channels[n] \in Range(Channels)
  BY <1>1 DEF Range
<1>5. QED
  BY <1>1, <1>2, <1>3, <1>4

(* In the end, nothing is left that nobody is going to remove. *)
LEMMA ClosesOn ==
  ASSUME TypeInv, ClosedInv, NEW t \in Threads, Effect(t), Closes(t), closed' = closed
  PROVE  ClosedInv'
<1> SUFFICES ASSUME closed
             PROVE  /\ \A u \in Threads : \A i \in DOMAIN program'[u] : program'[u][i][1] \in Closing
                    /\ \A o \in Range(Channels') \ {0} :
                         Backends'[o] # {} => \E u \in Threads : ToClear(u, o)'
                    /\ ToDelete' # <<>> /\ ~throttled' => \E u \in Threads : Reaps(u)'
  BY DEF ClosedInv, Reaps
<1>1. ASSUME NEW u \in Threads PROVE \A i \in DOMAIN program'[u] : program'[u][i][1] \in Closing
  <2>1. CASE u = t
    BY <2>1 DEF Closes
  <2>2. CASE u # t
    BY <2>2 DEF Effect, ClosedInv
  <2>3. QED
    BY <2>1, <2>2
<1>2. ASSUME NEW o \in Range(Channels') \ {0}, Backends'[o] # {}
      PROVE  \E u \in Threads : ToClear(u, o)'
  <2>1. o \in Range(Channels) \ {0}
    BY DEF Closes
  <2>2. o \in Objects
    BY <2>1, Known DEF TypeInv
  <2>3. PICK u \in Threads : ToClear(u, o)
    BY <1>2, <2>1, <2>2 DEF Closes, ClosedInv
  <2>4. CASE u = t
    BY <1>2, <2>2, <2>3, <2>4 DEF Effect
  <2>5. CASE u # t
    BY <2>3, <2>5 DEF Effect, ToClear
  <2>6. QED
    BY <2>4, <2>5
<1>3. ASSUME ToDelete' # <<>>, ~throttled' PROVE \E u \in Threads : Reaps(u)'
  <2>1. PICK u \in Threads : Reaps(u)
    BY <1>3 DEF Closes, ClosedInv, Reaps
  <2>2. CASE u = t
    BY <1>3, <2>1, <2>2 DEF Closes
  <2>3. CASE u # t
    BY <2>1, <2>3 DEF Effect, Reaps
  <2>4. QED
    BY <2>2, <2>3
<1>4. QED
  BY <1>1, <1>2, <1>3

----------------------------------------------------------------------------
(* The effects of the operations                                             *)

(* The program before and after a step. *)
LEMMA Shift ==
  ASSUME TypeInv, NEW t \in Threads, program[t] # <<>>, NEW q \in Seq(Steps), Then(t, q)
  PROVE  /\ \A u \in Threads \ {t} : program'[u] = program[u]
         /\ program[t] \in Seq(Steps) /\ program'[t] \in Seq(Steps) /\ program[t][1] \in Steps
         /\ \A x : x \in Range(program[t]) => x = program[t][1] \/ x \in Range(program'[t])
         /\ \A x : x \in Range(q) => x \in Range(program'[t])
         /\ \A x : x \in Range(program'[t]) => x \in Range(program[t]) \/ x \in Range(q)
         /\ q # <<>> => program'[t] # <<>> /\ program'[t][1] = q[1]
<1>1. program' = [program EXCEPT ![t] = q \o Tail(program[t])] /\ program \in [Threads -> Seq(Steps)]
  BY DEF Then, TypeInv, ProgramsOK
<1>2. \A u \in Threads \ {t} : program'[u] = program[u]
  BY <1>1
<1> DEFINE p == program[t]
           r == program'[t]
<1>3. p \in Seq(Steps) /\ p # <<>> /\ q \in Seq(Steps) /\ r = q \o Tail(p)
  BY <1>1
<1> HIDE DEF p, r
<1>4. /\ Len(p) \in Nat /\ Len(q) \in Nat /\ Len(p) >= 1
      /\ p[1] \in Steps /\ r \in Seq(Steps) /\ Len(r) = Len(q) + Len(p) - 1
  BY <1>3, Replaced
<1>r. /\ \A x : x \in Range(p) => x = p[1] \/ x \in Range(r)
      /\ \A x : x \in Range(q) => x \in Range(r)
      /\ \A x : x \in Range(r) => x \in Range(p) \/ x \in Range(q)
  BY <1>3, ReplacedRange
<1>i. \A i \in 1..Len(q) : r[i] = q[i]
  BY <1>3, Replaced
<1>5. ASSUME q # <<>> PROVE r # <<>> /\ r[1] = q[1]
  <2>1. Len(q) # 0
    BY <1>5, SeqHas
  <2>2. 1 \in 1..Len(q) /\ Len(r) # 0
    BY <1>4, <2>1
  <2>3. QED
    BY <1>4, <1>i, <2>2, SeqHas
<1>6. QED
  BY <1>2, <1>3, <1>4, <1>5, <1>r DEF p, r

(* Kinds of single steps. *)
LEMMA Kinds ==
  ASSUME NEW o
  PROVE  /\ <<"clear", o>>[1] = "clear" /\ <<"flush", o>>[1] = "flush"
         /\ <<"handler">>[1] = "handler"
         /\ <<"clear", o>>[2] = o /\ <<"flush", o>>[2] = o
OBVIOUS

(* Steps that neither queue nor clear, nor hold a lock. *)
LEMMA Quiet ==
  ASSUME TypeInv, BackendsInv, NEW t \in Threads, program[t] # <<>>,
         program[t][1][1] \notin {"store", "clear", "flush"},
         NEW q \in Seq(Steps), Then(t, q), <<"handler">> \notin Range(q),
         UNCHANGED <<queued, dataLock, link, stray>>,
         \A o \in Objects : /\ Backends'[o] = {} <=> Backends[o] = {}
                            /\ dataLock[o] # None => Backends'[o] = Backends[o],
         \A o \in Objects : o \in Registered => o \in Registered' \/ <<"clear", o>> \in Range(q)
  PROVE  Effect(t)
<1>1. /\ \A u \in Threads \ {t} : program'[u] = program[u]
      /\ \A x : x \in Range(program[t]) => x = program[t][1] \/ x \in Range(program'[t])
      /\ \A x : x \in Range(q) => x \in Range(program'[t])
      /\ \A x : x \in Range(program'[t]) => x \in Range(program[t]) \/ x \in Range(q)
  BY Shift
<1>2. \A o : program[t][1] # <<"clear", o>> /\ program[t][1] # <<"flush", o>>
  BY Kinds
<1>3. None \notin Threads /\ dataLock \in [Objects -> Threads \cup {None}]
  BY ChannelsAssumption DEF TypeInv, TypeOK
<1>4. \A o \in Objects : dataLock[o] # t
  BY <1>3 DEF BackendsInv, Storing
<1>5. \A o \in Objects : ToClear(t, o) => ToClear(t, o)'
  BY <1>1, <1>2 DEF ToClear
<1>6. \A o \in Objects : o \in Registered => o \in Registered' \/ ToClear(t, o)'
  BY <1>1 DEF ToClear
<1>7. \A o \in Objects :
        <<"flush", o>> \in Range(program[t]) => <<"flush", o>> \in Range(program'[t])
  BY <1>1, <1>2
<1>8. <<"handler">> \in Range(program'[t]) => <<"handler">> \in Range(program[t])
  BY <1>1
<1>9. QED
  BY <1>1, <1>3, <1>4, <1>5, <1>6, <1>7, <1>8 DEF Effect

(* A change of a channel under its lock. *)
LEMMA Changes ==
  ASSUME TypeInv, BackendsInv, NEW t \in Threads, program[t] # <<>>,
         program[t][1][1] \notin {"store", "flush"},
         NEW o \in Objects, NEW to, NEW b \in SUBSET {"new", "live", "frozen"},
         Change(t, o, to, b), stray \subseteq stray',
         Backends[o] = {} /\ b # {} => o \in Registered \/ o \in stray',
         program[t][1][1] = "clear" => program[t][1][2] = o /\ b = {}
  PROVE  Effect(t)
<1> DEFINE a == ActiveOf(to # NoLink, Enabled[o], Cardinality(b))
           s == <<"store", o, a>>
           q == <<s>>
<1>1. a \in BOOLEAN /\ (b = {} => a = (to # NoLink))
  <2>1. b = {} => Cardinality(b) = 0
    BY FS_EmptySet
  <2>2. Enabled[o] \in BOOLEAN
    BY DEF TypeInv, TypeOK
  <2>3. QED
    BY <2>1, <2>2 DEF ActiveOf
<1>2. Then(t, q) /\ dataLock[o] = None /\ dataLock' = [dataLock EXCEPT ![o] = t]
      /\ link' = [link EXCEPT ![o] = to] /\ Backends' = [Backends EXCEPT ![o] = b]
      /\ queued' = queued /\ Channels' = Channels /\ ToDelete' = ToDelete
  BY DEF Change, registry
<1> HIDE DEF a
<1>3. q \in Seq(Steps) /\ s[1] = "store" /\ s[2] = o /\ Range(q) = {s} /\ q # <<>> /\ q[1] = s
  <2>1. s \in Steps /\ s[1] = "store" /\ s[2] = o
    BY <1>1, StepIs
  <2> HIDE DEF s
  <2>2. q \in Seq(Steps) /\ Len(q) = 1 /\ q[1] = s
    BY <2>1, Few
  <2> HIDE DEF q
  <2>3. \A x : x \in Range(q) <=> x = s
    BY <2>2, SeqHas
  <2>4. q # <<>>
    <3>1. q \in Seq(Steps)
      BY <2>2
    <3>2. q = <<>> <=> Len(q) = 0
      BY <3>1, SeqHas
    <3>3. QED
      BY <2>2, <3>2
  <2>5. QED
    BY <2>1, <2>2, <2>3, <2>4
<1>s. s = <<"store", o, a>>
  OBVIOUS
<1> HIDE DEF s, q
<1>4. /\ \A u \in Threads \ {t} : program'[u] = program[u]
      /\ \A x : x \in Range(program[t]) => x = program[t][1] \/ x \in Range(program'[t])
      /\ \A x : x \in Range(program'[t]) => x \in Range(program[t]) \/ x = s
      /\ program'[t] # <<>> /\ program'[t][1] = s
  BY <1>2, <1>3, Shift
<1>5. \A x : /\ program[t][1] # <<"flush", x>> /\ s # <<"handler">>
             /\ program[t][1] = <<"clear", x>> => x = o /\ b = {}
  BY <1>3, Kinds
<1>6. /\ None \notin Threads /\ dataLock \in [Objects -> Threads \cup {None}]
      /\ DOMAIN Backends = Objects /\ DOMAIN link = Objects
  BY ChannelsAssumption DEF TypeInv, TypeOK
<1>7. \A x \in Objects : dataLock[x] # t
  BY <1>6 DEF BackendsInv, Storing
<1>8. /\ \A x \in Objects \ {o} : /\ Backends'[x] = Backends[x] /\ link'[x] = link[x]
                                  /\ dataLock'[x] = dataLock[x]
      /\ Backends'[o] = b /\ dataLock'[o] = t /\ link'[o] = to
  BY <1>2, <1>6
<1>9. Registered' = Registered
  BY <1>2 DEF Registered
<1>10. ASSUME NEW x \in Objects, ToClear(t, x) PROVE ToClear(t, x)' \/ Backends'[x] = {}
  BY <1>4, <1>5, <1>8, <1>10 DEF ToClear
<1>11. ASSUME b = {} PROVE Cleared(t, o)'
  BY <1>1, <1>4, <1>8, <1>11, <1>s DEF Cleared
<1>12. Storing(t, o)'
  BY <1>3, <1>4 DEF Storing
<1>13. <<"handler">> \in Range(program'[t]) => <<"handler">> \in Range(program[t])
  BY <1>4, <1>5
<1>14. \A x \in Objects :
         <<"flush", x>> \in Range(program[t]) => <<"flush", x>> \in Range(program'[t])
  BY <1>4, <1>5
<1>15. ASSUME NEW x \in Objects
       PROVE  /\ Backends[x] = {} /\ Backends'[x] # {} =>
                   dataLock[x] = None /\ (x \in Registered' \/ x \in stray')
              /\ Backends[x] # {} /\ Backends'[x] = {} => Cleared(t, x)'
              /\ \A u \in Threads \ {t} : dataLock[x] = u =>
                   dataLock'[x] = u /\ link'[x] = link[x] /\ Backends'[x] = Backends[x]
              /\ dataLock[x] = None =>
                   dataLock'[x] = None \/ (dataLock'[x] = t /\ Storing(t, x)')
  <2>1. CASE x = o
    BY <1>2, <1>6, <1>8, <1>9, <1>11, <1>12, <2>1
  <2>2. CASE x # o
    BY <1>8, <2>2
  <2>3. QED
    BY <2>1, <2>2
<1>16. QED
  BY <1>2, <1>4, <1>7, <1>9, <1>10, <1>13, <1>14, <1>15 DEF Effect

(* A thread that does what is never done in the end: the end has not begun. *)
LEMMA NotClosed ==
  ASSUME TypeInv, ClosedInv, NEW t \in Threads, program[t] # <<>>,
         program[t][1][1] \notin Closing
  PROVE  ~closed /\ Closes(t)
<1>1. 1 \in DOMAIN program[t]
  <2>1. program[t] \in Seq(Steps)
    BY DEF TypeInv, ProgramsOK
  <2>2. QED
    BY <2>1
<1>2. ~closed
  BY <1>1 DEF ClosedInv
<1>3. QED
  BY <1>2 DEF Closes

(* One that does go on closing. *)
LEMMA ClosesToo ==
  ASSUME TypeInv, ClosedInv, NEW t \in Threads, program[t] # <<>>,
         NEW q \in Seq(Steps), \A i \in 1..Len(q) : q[i][1] \in Closing, Then(t, q),
         Channels' = Channels,
         \A o \in Objects : Backends[o] = {} => Backends'[o] = {},
         ToDelete = <<>> => ToDelete' = <<>>,
         throttled => throttled',
         program[t][1] \in {<<"reap", TRUE>>, <<"take", TRUE>>} =>
           <<"take", TRUE>> \in Range(q) \/ throttled' \/ ToDelete' = <<>>
  PROVE  Closes(t)
<1> DEFINE p == program[t]
           r == program'[t]
<1>1. /\ program[t] \in Seq(Steps) /\ program'[t] \in Seq(Steps)
      /\ \A x : x \in Range(program[t]) => x = program[t][1] \/ x \in Range(program'[t])
      /\ \A x : x \in Range(q) => x \in Range(program'[t])
      /\ \A x : x \in Range(program'[t]) => x \in Range(program[t]) \/ x \in Range(q)
  BY Shift
<1>2. ASSUME closed PROVE \A i \in DOMAIN r : r[i][1] \in Closing
  <2>1. \A i \in DOMAIN p : p[i][1] \in Closing
    BY <1>2 DEF ClosedInv
  <2>2. /\ p \in Seq(Steps) /\ r \in Seq(Steps)
        /\ \A x : x \in Range(r) => x \in Range(p) \/ x \in Range(q)
    BY <1>1
  <2> HIDE DEF p, r
  <2>3. /\ \A x : x \in Range(p) <=> \E i \in 1..Len(p) : p[i] = x
        /\ \A x : x \in Range(q) <=> \E i \in 1..Len(q) : q[i] = x
        /\ \A x : x \in Range(r) <=> \E i \in 1..Len(r) : r[i] = x
        /\ DOMAIN p = 1..Len(p) /\ DOMAIN r = 1..Len(r)
    BY <2>2, SeqHas
  <2>4. \A x : x \in Range(r) => x[1] \in Closing
    BY <2>1, <2>2, <2>3
  <2>5. QED
    BY <2>3, <2>4
<1>3. ASSUME Reaps(t) PROVE Reaps(t)' \/ throttled' \/ ToDelete' = <<>>
  BY <1>1, <1>3 DEF Reaps
<1>4. QED
  BY <1>2, <1>3 DEF Closes

----------------------------------------------------------------------------
(* Steps keep the invariant.                                                 *)

Keeps(t) ==
  /\ TypeOK' /\ ToDelete' \in Seq(Objects)
  /\ ProgramsOK' /\ CallInv'
  /\ Effect(t)
  /\ Closes(t) /\ closed' = closed

(* A step of an operation keeps the invariant when it keeps its five parts. *)
LEMMA Kept ==
  ASSUME IndInv, NEW t \in Threads, Keeps(t)
  PROVE  IndInv'
<1>1. TypeInv' /\ CallInv'
  BY DEF Keeps, TypeInv
<1>2. BackendsInv'
  BY EffectOnBackends DEF IndInv, Keeps
<1>3. FatalInv'
  BY <1>2, EffectOnFatal DEF IndInv, Keeps
<1>4. ClosedInv'
  BY ClosesOn DEF IndInv, Keeps
<1>5. QED
  BY <1>1, <1>2, <1>3, <1>4 DEF IndInv

(* A call begins. *)
LEMMA Begins ==
  ASSUME TypeInv, CallInv, BackendsInv, NEW t \in Threads, Idle(t),
         NEW q \in Seq(Steps), q # <<>>, Ordered(q), program' = [program EXCEPT ![t] = q],
         \A i \in 1..Len(q) : q[i][1] \notin Shows /\ q[i][1] \notin {"handler", "flush"},
         UNCHANGED <<Channels, ToDelete, Backends, queued, dataLock, link, stray, guard>>,
         \/ hits' = [hits EXCEPT ![t] = [o \in Objects |-> 0]]
         \/ hits' = hits /\ \A i \in 1..Len(q) : q[i][1] # "find"
  PROVE  ProgramsOK' /\ CallInv' /\ Effect(t)
<1>1. /\ program \in [Threads -> Seq(Steps)] /\ \A u \in Threads : Ordered(program[u])
      /\ guard \in [Threads -> Guards] /\ hits \in [Threads -> [Objects -> Nat]]
  BY DEF TypeInv, ProgramsOK
<1>2. program'[t] = q /\ program[t] = <<>> /\ \A u \in Threads \ {t} : program'[u] = program[u]
  BY <1>1 DEF Idle
<1>3. hits' \in [Threads -> [Objects -> Nat]] /\ \A u \in Threads \ {t} : hits'[u] = hits[u]
  <2> DEFINE z == [o \in Objects |-> 0]
  <2>1. z \in [Objects -> Nat]
    OBVIOUS
  <2>2. hits' = hits \/ hits' = [hits EXCEPT ![t] = z]
    OBVIOUS
  <2> HIDE DEF z
  <2>3. QED
    BY <1>1, <2>1, <2>2
<1>4. ProgramsOK'
  <2>1. program' \in [Threads -> Seq(Steps)]
    BY <1>1
  <2>2. \A u \in Threads : Ordered(program'[u])
    BY <1>1, <1>2
  <2>3. QED
    BY <1>1, <1>3, <2>1, <2>2 DEF ProgramsOK
<1> DEFINE s == Stack(guard[t])
<1>5. s = <<>>
  <2>1. s \in Seq(Objects)
    BY <1>1, PushPop
  <2>2. Unwinds(<<>>, s)
    BY <1>2 DEF CallInv
  <2>3. <<>> \in Seq(Steps)
    OBVIOUS
  <2> HIDE DEF s
  <2>4. QED
    BY <2>1, <2>2, <2>3, EmptyStack
<1>6. Len(q) \in Nat /\ DOMAIN q = 1..Len(q) /\ (\A x : x \in Range(q) <=> \E i \in 1..Len(q) : q[i] = x)
      /\ 1 \in 1..Len(q)
  BY SeqHas
<1>7. Unwinds(q, s)
  <2>1. \A i \in 2..Len(q) : i \in 1..Len(q)
    BY <1>6
  <2>2. QED
    BY <1>5, <1>6, <2>1, NotShown
<1>8. HitsInv(q, s, hits'[t])
  <2>1. hits'[t] = [o \in Objects |-> 0] \/ (hits'[t] = hits[t] /\ ~Fresh(q))
    BY <1>1, <1>6 DEF Fresh, Shows
  <2>2. \A o \in Objects : hits[t][o] <= 1
    BY DEF CallInv, HitsInv
  <2>3. \A o \in Objects : hits'[t][o] <= 1 /\ (Fresh(q) => hits'[t][o] = 0)
    BY <2>1, <2>2
  <2>4. QED
    BY <1>5, <2>3 DEF HitsInv, IsInjective
<1>9. CallInv'
  <2> SUFFICES ASSUME NEW u \in Threads
               PROVE  /\ Unwinds(program'[u], Stack(guard[u]))
                      /\ HitsInv(program'[u], Stack(guard[u]), hits'[u])
    BY DEF CallInv
  <2>1. CASE u = t
    BY <1>2, <1>7, <1>8, <2>1
  <2>2. CASE u # t
    BY <1>2, <1>3, <2>2 DEF CallInv
  <2>3. QED
    BY <2>1, <2>2
<1>10. None \notin Threads /\ \A o \in Objects : dataLock[o] # t
  BY <1>2, ChannelsAssumption DEF BackendsInv, Storing
<1>11. \A x : x \notin Range(program[t])
  BY <1>2 DEF Range
<1>12. <<"handler">> \notin Range(program'[t])
  BY <1>2, <1>6, Kinds
<1>13. Registered' = Registered
  BY DEF Registered
<1>14. Effect(t)
  BY <1>2, <1>10, <1>11, <1>12, <1>13 DEF Effect, ToClear
<1>15. QED
  BY <1>4, <1>9, <1>14

----------------------------------------------------------------------------
(* The operations on channels                                                *)

(* No step, and one. *)
LEMMA Nothing ==
  <<>> \in Seq(Steps) /\ (\A i \in 1..Len(<<>>) : FALSE) /\ \A x : x \notin Range(<<>>)
BY DEF Range

(* A program of one step. *)
LEMMA Single ==
  ASSUME NEW s \in Steps
  PROVE  /\ <<s>> \in Seq(Steps) /\ \A i \in 1..Len(<<s>>) : <<s>>[i] = s
         /\ \A x : x \in Range(<<s>>) <=> x = s
BY DEF Range

(* A program of two steps. *)
LEMMA Pair ==
  ASSUME NEW a \in Steps, NEW b \in Steps
  PROVE  /\ <<a, b>> \in Seq(Steps) /\ \A i \in 1..Len(<<a, b>>) : <<a, b>>[i] \in {a, b}
         /\ \A x : x \in Range(<<a, b>>) <=> x \in {a, b}
BY DEF Range

(* Work that neither queues nor clears. *)
LEMMA WorkStep ==
  ASSUME IndInv, NEW t \in Threads, program[t] # <<>>,
         program[t][1][1] \in Work \ {"store", "clear"},
         NEW q \in Seq(Steps), \A i \in 1..Len(q) : q[i][1] \in Work, Then(t, q),
         UNCHANGED <<guard, hits, queued, dataLock, link, stray, closed>>,
         TypeOK', ToDelete' \in Seq(Objects),
         \A o \in Objects : /\ Backends'[o] = {} <=> Backends[o] = {}
                            /\ dataLock[o] # None => Backends'[o] = Backends[o],
         \A o \in Objects : o \in Registered => o \in Registered' \/ <<"clear", o>> \in Range(q),
         program[t][1][1] \in Closing =>
           /\ \A i \in 1..Len(q) : q[i][1] \in Closing
           /\ Channels' = Channels
           /\ ToDelete = <<>> => ToDelete' = <<>>
           /\ throttled => throttled'
           /\ program[t][1] \in {<<"reap", TRUE>>, <<"take", TRUE>>} =>
                <<"take", TRUE>> \in Range(q) \/ throttled' \/ ToDelete' = <<>>
  PROVE  Keeps(t)
<1>1. TypeInv /\ CallInv /\ BackendsInv /\ ClosedInv
  BY DEF IndInv
<1>2. ProgramsOK' /\ CallInv'
  BY <1>1, WorkCalls
<1>3. <<"handler">> \notin Range(q)
  <2>1. "handler" \notin Work
    BY DEF Work
  <2>2. \A i \in 1..Len(q) : q[i] # <<"handler">>
    BY <2>1, Kinds
  <2>3. QED
    BY <2>2, SeqHas
<1>4. "flush" \notin Work
  BY DEF Work
<1>5. Effect(t)
  BY <1>1, <1>3, <1>4, Quiet
<1>6. Closes(t)
  <2>1. CASE program[t][1][1] \in Closing
    BY <1>1, <2>1, ClosesToo
  <2>2. CASE program[t][1][1] \notin Closing
    BY <1>1, <2>2, NotClosed
  <2>3. QED
    BY <2>1, <2>2
<1>7. QED
  BY <1>2, <1>5, <1>6 DEF Keeps

(* A change under a channel's lock. *)
LEMMA ChangeStep ==
  ASSUME IndInv, NEW t \in Threads, NEW kind \in {"link", "unlink", "add", "clear"}, At(t, kind),
         NEW o \in Objects, o = On(t), NEW to \in LinksTo(Objects) \cup {NoLink},
         NEW b \in SUBSET {"new", "live", "frozen"}, Change(t, o, to, b),
         stray \subseteq stray', stray' \subseteq Objects,
         UNCHANGED <<logs, operations, closed, throttled>>,
         Backends[o] = {} /\ b # {} => kind = "add" /\ (o \in Registered \/ o \in stray'),
         kind = "clear" => b = {}
  PROVE  Keeps(t)
<1>1. TypeInv /\ CallInv /\ BackendsInv /\ ClosedInv
  BY DEF IndInv
<1>2. program[t] # <<>> /\ program[t][1][1] = kind /\ program[t][1][2] = o
  BY <1>1, First
<1> DEFINE a == ActiveOf(to # NoLink, Enabled[o], Cardinality(b))
           s == <<"store", o, a>>
<1>3. a \in BOOLEAN
  <2>1. Cardinality(b) \in Nat /\ Enabled[o] \in BOOLEAN
    <3>1. IsFiniteSet({"new", "live", "frozen"})
      <4>1. IsFiniteSet({"new"}) /\ IsFiniteSet({"live"}) /\ IsFiniteSet({"frozen"})
        BY FS_Singleton
      <4>2. IsFiniteSet(({"new"} \cup {"live"}) \cup {"frozen"})
        BY <4>1, FS_Union
      <4>3. {"new", "live", "frozen"} = ({"new"} \cup {"live"}) \cup {"frozen"}
        OBVIOUS
      <4>4. QED
        BY <4>2, <4>3
    <3>2. IsFiniteSet(b)
      BY <3>1, FS_Subset
    <3>3. QED
      BY <1>1, <3>2, FS_CardinalityType DEF TypeInv, TypeOK
  <2>2. QED
    BY <2>1 DEF ActiveOf
<1>4. /\ Then(t, <<s>>) /\ dataLock' = [dataLock EXCEPT ![o] = t]
      /\ link' = [link EXCEPT ![o] = to] /\ Backends' = [Backends EXCEPT ![o] = b]
      /\ UNCHANGED <<registry, recent, FatalHandling, Enabled, Active, queued, call>>
  BY DEF Change
<1> HIDE DEF a
<1>5. s \in Steps /\ s[1] = "store"
  BY <1>3, StepIs
<1> HIDE DEF s
<1>6. <<s>> \in Seq(Steps) /\ \A i \in 1..Len(<<s>>) : <<s>>[i][1] = "store"
  BY <1>5, Single
<1>7. kind \in Work /\ "store" \in Work \cap Closing /\ kind \notin {"store", "flush"}
      /\ kind \notin {"reap", "take"} /\ (kind \in Closing => kind # "add")
  BY DEF Work, Closing
<1>8. ProgramsOK' /\ CallInv'
  BY <1>1, <1>2, <1>4, <1>6, <1>7, WorkCalls DEF call
<1>9. Effect(t)
  BY <1>1, <1>2, <1>7, Changes
<1>10. TypeOK' /\ ToDelete' \in Seq(Objects)
  <2>1. TypeOK /\ ToDelete \in Seq(Objects)
    BY <1>1 DEF TypeInv
  <2>2. dataLock' \in [Objects -> Threads \cup {None}]
        /\ link' \in [Objects -> LinksTo(Objects) \cup {NoLink}]
        /\ Backends' \in [Objects -> SUBSET {"new", "live", "frozen"}]
    BY <1>4, <2>1 DEF TypeOK
  <2>3. UNCHANGED <<Channels, ToDelete, nameOf, recent, FatalHandling, Enabled, Active, queued, level>>
    BY <1>4 DEF registry, call
  <2>4. Created' = Created
    BY <2>3 DEF Created
  <2>5. QED
    BY <2>1, <2>2, <2>3, <2>4 DEF TypeOK
<1>11. Closes(t)
  <2>1. CASE kind \in Closing
    <3>1. \A x \in Objects : Backends[x] = {} => Backends'[x] = {}
      <4>1. DOMAIN Backends = Objects
        BY <1>1 DEF TypeInv, TypeOK
      <4>2. QED
        BY <1>4, <1>7, <2>1, <4>1
    <3>2. program[t][1] \notin {<<"reap", TRUE>>, <<"take", TRUE>>}
      <4>1. <<"reap", TRUE>>[1] = "reap" /\ <<"take", TRUE>>[1] = "take"
        OBVIOUS
      <4>2. QED
        BY <1>2, <1>7, <4>1
    <3>3. Channels' = Channels /\ ToDelete' = ToDelete
      BY <1>4 DEF registry
    <3>4. QED
      BY <1>1, <1>2, <1>4, <1>6, <1>7, <3>1, <3>2, <3>3, ClosesToo
  <2>2. CASE kind \notin Closing
    BY <1>1, <1>2, <2>2, NotClosed
  <2>3. QED
    BY <2>1, <2>2
<1>12. QED
  BY <1>8, <1>9, <1>10, <1>11 DEF Keeps

(* Each of the operations. *)
LEMMA LinksKept ==
  ASSUME IndInv, NEW t \in Threads, AddLink(t) \/ RemoveLink(t)
  PROVE  Keeps(t)
<1>1. TypeInv
  BY DEF IndInv
<1>2. UNCHANGED <<logs, operations, closed, throttled, stray>>
  BY DEF AddLink, RemoveLink, history
<1>3. Backends \in [Objects -> SUBSET {"new", "live", "frozen"}] /\ stray \subseteq Objects
  BY <1>1 DEF TypeInv, TypeOK
<1>4. CASE AddLink(t)
  <2>1. /\ At(t, "link")
        /\ Change(t, On(t), Linked(link[On(t)], Head(program[t])[3]), Backends[On(t)])
    BY <1>4 DEF AddLink
  <2>2. On(t) \in Objects /\ Head(program[t])[3] \in LinksTo(Objects)
    BY <1>1, <2>1, First, StepShape
  <2>3. Linked(link[On(t)], Head(program[t])[3]) \in LinksTo(Objects)
    BY <2>2 DEF Linked, LinksTo
  <2>4. QED
    BY <1>2, <1>3, <2>1, <2>2, <2>3, ChangeStep
<1>5. CASE RemoveLink(t)
  <2>1. At(t, "unlink") /\ Change(t, On(t), NoLink, Backends[On(t)])
    BY <1>5 DEF RemoveLink
  <2>2. On(t) \in Objects
    BY <1>1, <2>1, First, StepShape DEF OfObject
  <2>3. QED
    BY <1>2, <1>3, <2>1, <2>2, ChangeStep
<1>6. QED
  BY <1>4, <1>5

(* Channel::AddBackend writes the list with the backend added. *)
LEMMA AddBackendKept ==
  ASSUME IndInv, NEW t \in Threads, AddBackend(t)
  PROVE  Keeps(t)
<1>1. TypeInv
  BY DEF IndInv
<1> DEFINE o == On(t)
           b == IF "live" \in Backends[o] THEN Backends[o] ELSE Backends[o] \cup {"new"}
<1>2. /\ At(t, "add") /\ Change(t, o, link[o], b)
      /\ stray' = IF o \in Range(Channels) \cup Range(ToDelete) THEN stray ELSE stray \cup {o}
      /\ UNCHANGED <<logs, operations, closed, throttled>>
  BY DEF AddBackend
<1>3. o \in Objects
  BY <1>1, <1>2, First, StepShape DEF OfObject
<1>4. /\ stray \subseteq Objects
      /\ link[o] \in LinksTo(Objects) \cup {NoLink}
      /\ b \in SUBSET {"new", "live", "frozen"}
  BY <1>1, <1>3 DEF TypeInv, TypeOK
<1>5. o \in Registered \/ o \in stray'
  BY <1>2 DEF Registered
<1>6. stray \subseteq stray' /\ stray' \subseteq Objects
  BY <1>2, <1>3, <1>4
<1> HIDE DEF b
<1>7. QED
  BY <1>2, <1>3, <1>4, <1>5, <1>6, ChangeStep

(* Channel::RemoveBackends empties the list. *)
LEMMA ClearKept ==
  ASSUME IndInv, NEW t \in Threads, ClearBackends(t)
  PROVE  Keeps(t)
<1>1. TypeInv
  BY DEF IndInv
<1>2. At(t, "clear") /\ Change(t, On(t), link[On(t)], {})
      /\ UNCHANGED <<logs, operations, closed, throttled, stray>>
  BY DEF ClearBackends, history
<1>3. On(t) \in Objects
  BY <1>1, <1>2, First, StepShape DEF OfObject
<1>4. link[On(t)] \in LinksTo(Objects) \cup {NoLink} /\ stray \subseteq Objects
  BY <1>1, <1>3 DEF TypeInv, TypeOK
<1>5. QED
  BY <1>2, <1>3, <1>4, ChangeStep

(* UpdateActive stores what was computed from the list: the end of a change. *)
LEMMA UpdateActiveKept ==
  ASSUME IndInv, NEW t \in Threads, UpdateActive(t)
  PROVE  Keeps(t)
<1>1. TypeInv /\ CallInv /\ BackendsInv /\ ClosedInv
  BY DEF IndInv
<1> DEFINE o == On(t)
<1>2. /\ At(t, "store") /\ (dataLock[o] = t /\ Backends[o] = {} => queued[o] = {})
      /\ Active' = [Active EXCEPT ![o] = Head(program[t])[3]]
      /\ dataLock' = [dataLock EXCEPT ![o] = IF dataLock[o] = t THEN None ELSE dataLock[o]]
      /\ Then(t, <<>>)
      /\ UNCHANGED <<registry, recent, FatalHandling, Enabled, link, Backends, queued, call, history>>
  BY DEF UpdateActive
<1>3. /\ program[t] # <<>> /\ program[t][1][1] = "store" /\ program[t][1][2] = o
      /\ o \in Objects /\ Head(program[t])[3] \in BOOLEAN
  BY <1>1, <1>2, First, StepShape
<1>k. \A x : program[t][1] # <<"clear", x>> /\ program[t][1] # <<"flush", x>>
  BY <1>3, Kinds
<1> HIDE DEF o
<1>4. UNCHANGED <<Channels, ToDelete, nameOf, guard, level, hits, logs, operations, closed,
                 throttled, stray>>
  BY <1>2 DEF registry, call, history
<1>5. "store" \in Work \cap Closing
  BY DEF Work, Closing
<1>6. ProgramsOK' /\ CallInv'
  BY <1>1, <1>2, <1>3, <1>4, <1>5, Nothing, WorkCalls
<1>7. TypeOK /\ ToDelete \in Seq(Objects)
  BY <1>1 DEF TypeInv
<1>8. /\ \A x \in Objects \ {o} : dataLock'[x] = dataLock[x]
      /\ dataLock'[o] = IF dataLock[o] = t THEN None ELSE dataLock[o]
      /\ dataLock' \in [Objects -> Threads \cup {None}] /\ Active' \in [Objects -> BOOLEAN]
      /\ None \notin Threads
  BY <1>2, <1>3, <1>7, ChannelsAssumption DEF TypeOK
<1>9. TypeOK' /\ ToDelete' \in Seq(Objects)
  <2>1. Created' = Created
    BY <1>4 DEF Created
  <2>2. QED
    BY <1>2, <1>4, <1>7, <1>8, <2>1 DEF TypeOK
<1>10. /\ \A u \in Threads \ {t} : program'[u] = program[u]
       /\ \A x : x \in Range(program[t]) => x = program[t][1] \/ x \in Range(program'[t])
       /\ \A x : x \in Range(program'[t]) => x \in Range(program[t])
  BY <1>1, <1>2, <1>3, Shift, Nothing
<1>11. \A x \in Objects : dataLock[x] = t => x = o
  BY <1>1, <1>3, <1>8 DEF BackendsInv, Storing
<1>12. Registered' = Registered
  BY <1>4 DEF Registered
<1>13. \A x \in Objects : /\ ToClear(t, x) => ToClear(t, x)'
                          /\ <<"flush", x>> \in Range(program[t]) =>
                               <<"flush", x>> \in Range(program'[t])
  BY <1>10, <1>k DEF ToClear
<1>14. ASSUME NEW x \in Objects
       PROVE  /\ dataLock[x] = t => dataLock'[x] = None /\ (Backends'[x] = {} => queued'[x] = {})
              /\ dataLock[x] = None => dataLock'[x] = None
              /\ \A u \in Threads \ {t} : dataLock[x] = u => dataLock'[x] = u
  <2>1. CASE x = o
    BY <1>2, <1>8, <2>1
  <2>2. CASE x # o
    BY <1>8, <1>11, <2>2
  <2>3. QED
    BY <2>1, <2>2
<1>15. Effect(t)
  BY <1>2, <1>4, <1>10, <1>12, <1>13, <1>14 DEF Effect
<1>16. Closes(t)
  <2>1. program[t][1] \notin {<<"reap", TRUE>>, <<"take", TRUE>>}
    <3>1. <<"reap", TRUE>>[1] = "reap" /\ <<"take", TRUE>>[1] = "take"
      OBVIOUS
    <3>2. QED
      BY <1>3, <3>1
  <2>2. QED
    BY <1>1, <1>2, <1>3, <1>4, <2>1, Nothing, ClosesToo
<1>17. QED
  BY <1>4, <1>6, <1>9, <1>15, <1>16 DEF Keeps

(* Channel::SetEnabled touches nothing that is to be removed. *)
LEMMA SetEnabledKept ==
  ASSUME IndInv, NEW t \in Threads, SetEnabled(t)
  PROVE  Keeps(t)
<1>1. TypeInv /\ TypeOK /\ ToDelete \in Seq(Objects)
  BY DEF IndInv, TypeInv
<1> DEFINE o == On(t)
           enable == Head(program[t])[3]
           s == <<"store", o, ActiveOf(link[o] # NoLink, enable, Cardinality(Backends[o]))>>
<1>2. /\ At(t, "enabled") /\ Enabled' = [Enabled EXCEPT ![o] = enable] /\ Then(t, <<s>>)
      /\ UNCHANGED <<registry, recent, FatalHandling, Active, link, Backends, queued, dataLock,
                     call, history>>
  BY DEF SetEnabled
<1>3. /\ program[t] # <<>> /\ program[t][1][1] = "enabled"
      /\ o \in Objects /\ enable \in BOOLEAN
  BY <1>1, <1>2, First, StepShape
<1>4. s \in Steps /\ s[1] = "store"
  <2>1. ActiveOf(link[o] # NoLink, enable, Cardinality(Backends[o])) \in BOOLEAN
    BY <1>3 DEF ActiveOf
  <2>2. QED
    BY <1>3, <2>1, StepIs
<1>5. "store" \in Work /\ "enabled" \in Work \ {"store", "clear"} /\ "enabled" \notin Closing
  BY DEF Work, Closing
<1> HIDE DEF s, o, enable
<1>6. UNCHANGED <<Channels, ToDelete, nameOf, guard, level, hits, logs, operations, closed,
                 throttled, stray>>
  BY <1>2 DEF registry, call, history
<1>7. TypeOK'
  <2>1. Created' = Created
    BY <1>6 DEF Created
  <2>2. Enabled' \in [Objects -> BOOLEAN]
    BY <1>1, <1>2, <1>3 DEF TypeOK
  <2>3. QED
    BY <1>1, <1>2, <1>6, <2>1, <2>2 DEF TypeOK
<1>8. Registered' = Registered
  BY <1>6 DEF Registered
<1>9. <<s>> \in Seq(Steps) /\ \A i \in 1..Len(<<s>>) : <<s>>[i][1] \in Work
  BY <1>4, <1>5, Single
<1>10. QED
  BY <1>1, <1>2, <1>3, <1>5, <1>6, <1>7, <1>8, <1>9, WorkStep

(* Channel::Freeze keeps the backends of the channel, frozen. *)
LEMMA FreezeKept ==
  ASSUME IndInv, NEW t \in Threads, Freeze(t)
  PROVE  Keeps(t)
<1>1. TypeInv /\ TypeOK /\ ToDelete \in Seq(Objects)
  BY DEF IndInv, TypeInv
<1> DEFINE o == On(t)
<1>2. /\ At(t, "freeze") /\ dataLock[o] = None /\ Then(t, <<>>)
      /\ Backends' = [Backends EXCEPT ![o] = Freezed(o)]
      /\ UNCHANGED <<registry, recent, FatalHandling, Enabled, Active, link, queued, dataLock,
                     call, history>>
  BY DEF Freeze
<1>3. program[t] # <<>> /\ program[t][1][1] = "freeze" /\ o \in Objects
  BY <1>1, <1>2, First, StepShape DEF OfObject
<1> HIDE DEF o
<1>4. UNCHANGED <<Channels, ToDelete, nameOf, guard, level, hits, logs, operations, closed,
                 throttled, stray>>
  BY <1>2 DEF registry, call, history
<1>5. /\ Backends' \in [Objects -> SUBSET {"new", "live", "frozen"}]
      /\ \A x \in Objects : (Backends'[x] = {} <=> Backends[x] = {})
                            /\ (dataLock[x] # None => Backends'[x] = Backends[x])
  BY <1>1, <1>2, <1>3 DEF TypeOK, Freezed
<1>6. TypeOK'
  <2>1. Created' = Created
    BY <1>4 DEF Created
  <2>2. QED
    BY <1>1, <1>2, <1>4, <1>5, <2>1 DEF TypeOK
<1>7. Registered' = Registered
  BY <1>4 DEF Registered
<1>8. "freeze" \in Work \ {"store", "clear"}
  BY DEF Work
<1>9. program[t][1] \notin {<<"reap", TRUE>>, <<"take", TRUE>>}
  <2>1. <<"reap", TRUE>>[1] = "reap" /\ <<"take", TRUE>>[1] = "take"
    OBVIOUS
  <2>2. QED
    BY <1>3, <2>1
<1>10. QED
  BY <1>1, <1>2, <1>3, <1>4, <1>5, <1>6, <1>7, <1>8, <1>9, Nothing, WorkStep

(* Logger::Autodelete moves a channel from the registry to the queue. *)
LEMMA AutodeleteKept ==
  ASSUME IndInv, NEW t \in Threads, Autodelete(t)
  PROVE  Keeps(t)
<1>1. TypeInv /\ TypeOK /\ ToDelete \in Seq(Objects)
  BY DEF IndInv, TypeInv
<1> DEFINE n == On(t)
           o == Channels[n]
<1>2. /\ At(t, "autodelete") /\ Then(t, <<>>)
      /\ UNCHANGED <<recent, FatalHandling, Enabled, Active, link, queued, dataLock, call, history>>
      /\ IF o = 0 THEN UNCHANGED <<registry, Backends>>
         ELSE /\ dataLock[o] = None
              /\ Channels' = [Channels EXCEPT ![n] = 0]
              /\ ToDelete' = Append(ToDelete, o)
              /\ Backends' = [Backends EXCEPT ![o] = Freezed(o)]
              /\ UNCHANGED nameOf
  BY DEF Autodelete
<1>3. program[t] # <<>> /\ program[t][1][1] = "autodelete" /\ n \in Names
  BY <1>1, <1>2, First, StepShape
<1> HIDE DEF n
<1>4. /\ o \in {0} \cup Created /\ Channels \in [Names -> {0} \cup Created]
      /\ Created \subseteq Objects
  BY <1>1, <1>3, Known DEF TypeOK
<1>5. UNCHANGED <<nameOf, guard, level, hits, logs, operations, closed, throttled, stray>>
  BY <1>2 DEF registry, call, history
<1>6. Created' = Created
  BY <1>5 DEF Created
<1>7. "autodelete" \in Work \ {"store", "clear"} /\ "autodelete" \notin Closing
  BY DEF Work, Closing
<1>o. o = Channels[n]
  OBVIOUS
<1> HIDE DEF o
<1>8. CASE o = 0
  <2>1. UNCHANGED <<Channels, ToDelete, Backends>>
    BY <1>2, <1>8 DEF registry
  <2>2. TypeOK'
    BY <1>1, <1>2, <1>5, <1>6, <2>1 DEF TypeOK
  <2>3. Registered' = Registered
    BY <2>1 DEF Registered
  <2>4. QED
    BY <1>1, <1>2, <1>3, <1>5, <1>7, <2>1, <2>2, <2>3, Nothing, WorkStep
<1>9. CASE o # 0
  <2>1. /\ dataLock[o] = None /\ o \in Created /\ o \in Objects
        /\ Channels' = [Channels EXCEPT ![n] = 0]
        /\ ToDelete' = Append(ToDelete, o)
        /\ Backends' = [Backends EXCEPT ![o] = Freezed(o)]
    BY <1>2, <1>4, <1>9
  <2>2. /\ Backends' \in [Objects -> SUBSET {"new", "live", "frozen"}]
        /\ \A x \in Objects : (Backends'[x] = {} <=> Backends[x] = {})
                              /\ (dataLock[x] # None => Backends'[x] = Backends[x])
    BY <1>1, <2>1 DEF TypeOK, Freezed
  <2>3. ToDelete' \in Seq(Objects) /\ Range(ToDelete') = Range(ToDelete) \cup {o}
    <3>1. ToDelete' \in Seq(Objects)
      BY <1>1, <2>1
    <3>2. /\ Len(ToDelete) \in Nat /\ Len(ToDelete') = Len(ToDelete) + 1
          /\ \A i \in 1..Len(ToDelete) : ToDelete'[i] = ToDelete[i]
          /\ ToDelete'[Len(ToDelete) + 1] = o
      BY <1>1, <2>1, AppendProperties
    <3>3. /\ \A x : x \in Range(ToDelete) <=> \E i \in 1..Len(ToDelete) : ToDelete[i] = x
          /\ \A x : x \in Range(ToDelete') <=> \E i \in 1..Len(ToDelete') : ToDelete'[i] = x
      BY <1>1, <3>1, SeqHas
    <3>4. \A i : i \in 1..Len(ToDelete') <=> i \in 1..Len(ToDelete) \/ i = Len(ToDelete) + 1
      BY <3>2
    <3>5. QED
      BY <3>1, <3>2, <3>3, <3>4
  <2>4. TypeOK'
    <3>1. Channels' \in [Names -> {0} \cup Created]
      BY <1>3, <1>4, <2>1
    <3>2. Range(ToDelete') \subseteq Created
      BY <1>1, <2>1, <2>3 DEF TypeOK
    <3>3. QED
      BY <1>1, <1>2, <1>5, <1>6, <2>2, <3>1, <3>2 DEF TypeOK
  <2>5. \A x : x \in Registered => x \in Registered'
    <3>1. ASSUME NEW x \in Range(Channels), x # o PROVE x \in Range(Channels')
      <4>1. PICK m \in Names : Channels[m] = x
        BY <1>4 DEF Range
      <4>2. m # n
        BY <1>o, <3>1, <4>1
      <4>3. Channels'[m] = x /\ DOMAIN Channels' = Names
        BY <1>4, <2>1, <4>1, <4>2
      <4>4. QED
        BY <4>3 DEF Range
    <3>2. QED
      BY <2>3, <3>1 DEF Registered
  <2>6. QED
    BY <1>1, <1>2, <1>3, <1>5, <1>7, <2>2, <2>3, <2>4, <2>5, Nothing, WorkStep
<1>10. QED
  BY <1>8, <1>9

(* Logger::DeleteChannel: who lets the channel go is the one to clear it. *)
LEMMA DeleteChannelKept ==
  ASSUME IndInv, NEW t \in Threads, DeleteChannel(t)
  PROVE  Keeps(t)
<1>1. TypeInv /\ TypeOK /\ ToDelete \in Seq(Objects)
  BY DEF IndInv, TypeInv
<1> DEFINE n == On(t)
           o == Channels[n]
           q == IF o = 0 THEN <<>> ELSE RemoveSteps(o)
<1>2. /\ At(t, "delete") /\ Then(t, q) /\ Channels' = [Channels EXCEPT ![n] = 0]
      /\ UNCHANGED <<ToDelete, nameOf, recent, FatalHandling, state, call, history>>
  BY DEF DeleteChannel
<1>3. program[t] # <<>> /\ program[t][1][1] = "delete" /\ n \in Names
  BY <1>1, <1>2, First, StepShape
<1> HIDE DEF n
<1>4. /\ o \in {0} \cup Objects /\ Channels \in [Names -> {0} \cup Created]
      /\ Created \subseteq Objects
  BY <1>1, <1>3, Known DEF TypeOK
<1>5. UNCHANGED <<Enabled, Active, link, Backends, queued, dataLock, guard, level, hits, logs,
                 operations, closed, throttled, stray>>
  BY <1>2 DEF state, call, history
<1>6. Created' = Created
  BY <1>2 DEF Created
<1>7. "delete" \in Work \ {"store", "clear"} /\ "delete" \notin Closing
  BY DEF Work, Closing
<1>8. q \in Seq(Steps) /\ (\A i \in 1..Len(q) : q[i][1] \in Work)
      /\ (o # 0 => <<"clear", o>> \in Range(q))
  <2>1. CASE o = 0
    BY <2>1, Nothing
  <2>2. CASE o # 0
    BY <1>4, <2>2, Removal
  <2>3. QED
    BY <2>1, <2>2
<1>o. o = Channels[n]
  OBVIOUS
<1> HIDE DEF o, q
<1>9. TypeOK'
  <2>1. Channels' \in [Names -> {0} \cup Created]
    BY <1>2, <1>3, <1>4
  <2>2. QED
    BY <1>1, <1>2, <1>5, <1>6, <2>1 DEF TypeOK
<1>10. ASSUME NEW x \in Objects, x \in Registered
       PROVE  x \in Registered' \/ <<"clear", x>> \in Range(q)
  <2>1. CASE x \in Range(ToDelete)
    BY <1>2, <2>1 DEF Registered
  <2>2. CASE x = o
    BY <1>8, <1>10, <2>2 DEF Objects
  <2>3. CASE x \in Range(Channels) /\ x # o
    <3>1. PICK m \in Names : Channels[m] = x
      BY <1>4, <2>3 DEF Range
    <3>2. m # n
      BY <1>o, <2>3, <3>1
    <3>3. Channels'[m] = x /\ DOMAIN Channels' = Names
      BY <1>2, <1>4, <3>1, <3>2
    <3>4. QED
      BY <3>3 DEF Range, Registered
  <2>4. QED
    BY <1>10, <2>1, <2>2, <2>3 DEF Registered
<1>11. QED
  BY <1>1, <1>2, <1>3, <1>5, <1>7, <1>8, <1>9, <1>10, WorkStep

(* Logger::DoAutodelete: who takes the queue clears all that was in it. *)
LEMMA DoAutodeleteKept ==
  ASSUME IndInv, NEW t \in Threads, DoAutodelete(t)
  PROVE  Keeps(t)
<1>1. TypeInv /\ TypeOK /\ ToDelete \in Seq(Objects)
  BY DEF IndInv, TypeInv
<1> DEFINE force == On(t)
           q == IF recent \/ (ToDelete = <<>> /\ ~force) THEN <<>>
                ELSE <<<<"stamp">>, <<"take", force>>>>
<1>2. /\ At(t, "reap") /\ Then(t, q) /\ throttled' = (throttled \/ (force /\ recent))
      /\ UNCHANGED <<registry, recent, FatalHandling, state, call, logs, operations, closed, stray>>
  BY DEF DoAutodelete
<1>3. /\ program[t] # <<>> /\ program[t][1][1] = "reap" /\ force \in BOOLEAN
      /\ program[t][1] = <<"reap", force>>
  BY <1>1, <1>2, First, StepShape
<1> HIDE DEF force
<1>4. UNCHANGED <<Channels, ToDelete, nameOf, Enabled, Active, link, Backends, queued, dataLock,
                 guard, level, hits>>
  BY <1>2 DEF registry, state, call
<1>5. q \in Seq(Steps) /\ (\A i \in 1..Len(q) : q[i][1] \in Work \cap Closing)
      /\ (q # <<>> => <<"take", force>> \in Range(q))
  <2> DEFINE a == <<"stamp">>
             b == <<"take", force>>
  <2>1. a \in Steps /\ b \in Steps /\ a[1] = "stamp" /\ b[1] = "take"
    BY <1>3, StepIs
  <2>2. "stamp" \in Work \cap Closing /\ "take" \in Work \cap Closing
    BY DEF Work, Closing
  <2>3. q = <<>> \/ q = <<a, b>>
    OBVIOUS
  <2> HIDE DEF a, b, q
  <2>4. <<a, b>> \in Seq(Steps) /\ Len(<<a, b>>) = 2 /\ <<a, b>>[1] = a /\ <<a, b>>[2] = b
    BY <2>1, Few
  <2>5. (\A i \in 1..Len(<<a, b>>) : <<a, b>>[i] \in {a, b}) /\ b \in Range(<<a, b>>)
    BY <2>4 DEF Range
  <2>6. QED
    BY <2>1, <2>2, <2>3, <2>4, <2>5, Nothing DEF b
<1>6. force => <<"take", force>> \in Range(q) \/ throttled'
  <2>1. q = <<>> /\ force => recent
    <3>1. <<<<"stamp">>, <<"take", force>>>> # <<>>
      OBVIOUS
    <3>2. QED
      BY <3>1
  <2>2. QED
    BY <1>2, <1>5, <2>1
<1> HIDE DEF q
<1>7. throttled' \in BOOLEAN /\ (throttled => throttled')
  BY <1>1, <1>2, <1>3 DEF TypeOK
<1>8. TypeOK'
  <2>1. Created' = Created
    BY <1>4 DEF Created
  <2>2. QED
    BY <1>1, <1>2, <1>4, <1>7, <2>1 DEF TypeOK
<1>9. Registered' = Registered
  BY <1>4 DEF Registered
<1>10. program[t][1] \in {<<"reap", TRUE>>, <<"take", TRUE>>} =>
         <<"take", TRUE>> \in Range(q) \/ throttled'
  <2>1. <<"reap", force>>[1] = "reap" /\ <<"take", TRUE>>[1] = "take"
        /\ <<"reap", force>>[2] = force /\ <<"reap", TRUE>>[2] = TRUE
    OBVIOUS
  <2>2. program[t][1] = <<"reap", TRUE>> => force = TRUE
    BY <1>3, <2>1
  <2>3. program[t][1] # <<"take", TRUE>>
    BY <1>3, <2>1
  <2>4. QED
    BY <1>6, <2>2, <2>3
<1>11. "reap" \in Work \ {"store", "clear"}
  BY DEF Work
<1>12. QED
  BY <1>1, <1>2, <1>3, <1>4, <1>5, <1>7, <1>8, <1>9, <1>10, <1>11, WorkStep

(* The time of the last DoAutodelete. *)
LEMMA StampKept ==
  ASSUME IndInv, NEW t \in Threads, Stamp(t)
  PROVE  Keeps(t)
<1>1. TypeInv /\ TypeOK /\ ToDelete \in Seq(Objects)
  BY DEF IndInv, TypeInv
<1>2. /\ At(t, "stamp") /\ Then(t, <<>>) /\ recent' = TRUE
      /\ UNCHANGED <<registry, FatalHandling, state, call, history>>
  BY DEF Stamp
<1>3. program[t] # <<>> /\ program[t][1][1] = "stamp"
  BY <1>1, <1>2, First
<1>4. UNCHANGED <<Channels, ToDelete, nameOf, Enabled, Active, link, Backends, queued, dataLock,
                 guard, level, hits, logs, operations, closed, throttled, stray>>
  BY <1>2 DEF registry, state, call, history
<1>5. TypeOK'
  <2>1. Created' = Created
    BY <1>4 DEF Created
  <2>2. QED
    BY <1>1, <1>2, <1>4, <2>1 DEF TypeOK
<1>6. Registered' = Registered
  BY <1>4 DEF Registered
<1>7. program[t][1] \notin {<<"reap", TRUE>>, <<"take", TRUE>>}
  <2>1. <<"reap", TRUE>>[1] = "reap" /\ <<"take", TRUE>>[1] = "take"
    OBVIOUS
  <2>2. QED
    BY <1>3, <2>1
<1>8. "stamp" \in Work \ {"store", "clear"}
  BY DEF Work
<1>9. QED
  BY <1>1, <1>2, <1>3, <1>4, <1>5, <1>6, <1>7, <1>8, Nothing, WorkStep

(* Of numbers, one is the least. *)
LEMMA Least ==
  ASSUME NEW S, S \subseteq Nat, S # {}
  PROVE  \E m \in S : \A n \in S : m <= n
<1> DEFINE less == OpToRel(<, Nat)
<1>1. \E m \in S : \A n \in S : ~(<<n, m>> \in less)
  <2> HIDE DEF less
  <2>1. IsWellFoundedOn(less, Nat)
    BY NatLessThanWellFounded DEF less
  <2>2. QED
    BY <2>1, WFMin
<1>2. \A m, n \in Nat : ~(<<n, m>> \in less) => m <= n
  BY DEF OpToRel
<1>3. QED
  BY <1>1, <1>2

(* The next channel of the queue DoAutodelete has taken. *)
LEMMA TakeNextKept ==
  ASSUME IndInv, NEW t \in Threads, TakeNext(t)
  PROVE  Keeps(t)
<1>1. TypeInv /\ TypeOK /\ ToDelete \in Seq(Objects)
  BY DEF IndInv, TypeInv
<1> DEFINE force == On(t)
           ready == {i \in DOMAIN ToDelete : force \/ IsIdle(ToDelete[i])}
           i == CHOOSE k \in ready : \A j \in ready : k <= j
<1>2. /\ At(t, "take")
      /\ IF ready = {} THEN Then(t, <<>>) /\ UNCHANGED ToDelete
         ELSE /\ ToDelete' = RemoveAt(ToDelete, i)
              /\ Then(t, RemoveSteps(ToDelete[i]) \o <<<<"take", force>>>>)
      /\ UNCHANGED <<Channels, nameOf, recent, FatalHandling, state, call, history>>
  BY DEF TakeNext
<1>3. /\ program[t] # <<>> /\ program[t][1][1] = "take" /\ force \in BOOLEAN
      /\ program[t][1] = <<"take", force>>
  BY <1>1, <1>2, First, StepShape
<1>4. UNCHANGED <<Channels, nameOf, Enabled, Active, link, Backends, queued, dataLock,
                 guard, level, hits, logs, operations, closed, throttled, stray>>
  BY <1>2 DEF state, call, history
<1>5. Len(ToDelete) \in Nat /\ DOMAIN ToDelete = 1..Len(ToDelete)
      /\ (ToDelete = <<>> <=> Len(ToDelete) = 0)
  BY <1>1, SeqHas
<1>6. "take" \in Work \ {"store", "clear"}
  BY DEF Work
<1>f. force /\ ready = {} => ToDelete = <<>>
  <2>1. force /\ ready = {} => 1 \notin 1..Len(ToDelete)
    BY <1>5
  <2>2. QED
    BY <1>5, <2>1
<1>7. program[t][1] \in {<<"reap", TRUE>>, <<"take", TRUE>>} => force = TRUE
  <2>1. <<"take", force>>[1] = "take" /\ <<"reap", TRUE>>[1] = "reap"
        /\ <<"take", force>>[2] = force /\ <<"take", TRUE>>[2] = TRUE
    OBVIOUS
  <2>2. QED
    BY <1>3, <2>1
<1>8. Created' = Created
  BY <1>4 DEF Created
<1>9. CASE ready = {}
  <2>1. Then(t, <<>>) /\ ToDelete' = ToDelete
    BY <1>2, <1>9
  <2>2. TypeOK'
    BY <1>1, <1>2, <1>4, <1>8, <2>1 DEF TypeOK
  <2>3. Registered' = Registered
    BY <1>4, <2>1 DEF Registered
  <2>4. QED
    BY <1>1, <1>3, <1>4, <1>6, <1>7, <1>9, <1>f, <2>1, <2>2, <2>3, Nothing, WorkStep
<1>10. CASE ready # {}
  <2>1. i \in 1..Len(ToDelete)
    <3>1. ready \subseteq 1..Len(ToDelete)
      BY <1>5
    <3> HIDE DEF ready
    <3>2. \E k \in ready : \A j \in ready : k <= j
      <4>1. ready \subseteq Nat
        BY <1>5, <3>1
      <4>2. QED
        BY <1>10, <4>1, Least
    <3>3. QED
      BY <3>1, <3>2
  <2> DEFINE o == ToDelete[i]
             q == RemoveSteps(o) \o <<<<"take", force>>>>
  <2>2. Then(t, q) /\ ToDelete' = RemoveAt(ToDelete, i)
    BY <1>2, <1>10
  <2> HIDE DEF ready, i
  <2>3. o \in Objects
    BY <1>1, <2>1
  <2>4. /\ ToDelete' \in Seq(Objects)
        /\ Range(ToDelete') \subseteq Range(ToDelete)
        /\ Range(ToDelete) \subseteq Range(ToDelete') \cup {o}
    BY <1>1, <2>1, <2>2, RemovedAt
  <2> HIDE DEF force, o
  <2>5. /\ q \in Seq(Steps) /\ \A k \in 1..Len(q) : q[k][1] \in Work \cap Closing
        /\ <<"clear", o>> \in Range(q) /\ <<"take", force>> \in Range(q)
    BY <1>3, <2>3, Removal
  <2> HIDE DEF q
  <2>6. TypeOK'
    BY <1>1, <1>2, <1>4, <1>8, <2>4 DEF TypeOK
  <2>7. \A x : x \in Registered => x \in Registered' \/ <<"clear", x>> \in Range(q)
    BY <1>4, <2>4, <2>5 DEF Registered
  <2>8. ToDelete = <<>> => ToDelete' = <<>>
    BY <1>5, <2>1
  <2>9. QED
    BY <1>1, <1>3, <1>4, <1>6, <1>7, <2>2, <2>4, <2>5, <2>6, <2>7, <2>8, WorkStep
<1>11. QED
  BY <1>9, <1>10

----------------------------------------------------------------------------
(* Display                                                                   *)

(* A channel that is found, or created. *)
LEMMA Gets ==
  ASSUME TypeOK, NEW n \in Names, NEW o \in Objects, GetChannel(n, o)
  PROVE  /\ nameOf' \in Seq(Names) /\ Len(nameOf') <= MaxChannels /\ Created \subseteq Created'
         /\ Channels' \in [Names -> {0} \cup Created']
         /\ \A x \in Objects : x \in Range(Channels) => x \in Range(Channels')
<1>1. /\ nameOf \in Seq(Names) /\ Len(nameOf) <= MaxChannels
      /\ Channels \in [Names -> {0} \cup Created] /\ MaxChannels \in Nat
  BY ChannelsAssumption DEF TypeOK
<1>2. CASE Channels[n] # 0
  BY <1>1, <1>2 DEF GetChannel, Created
<1>3. CASE Channels[n] = 0
  <2>1. /\ o = Len(nameOf) + 1 /\ nameOf' = Append(nameOf, n)
        /\ Channels' = [Channels EXCEPT ![n] = o]
    BY <1>3 DEF GetChannel
  <2>2. /\ nameOf' \in Seq(Names) /\ Len(nameOf') = Len(nameOf) + 1
        /\ DOMAIN nameOf = 1..Len(nameOf) /\ DOMAIN nameOf' = 1..Len(nameOf')
        /\ Len(nameOf) \in Nat
    BY <1>1, <2>1, AppendProperties, SeqHas
  <2>3. Created' = Created \cup {o} /\ Len(nameOf') <= MaxChannels
    BY <1>1, <2>1, <2>2 DEF Created, Objects
  <2>4. Channels' \in [Names -> {0} \cup Created']
    BY <1>1, <2>1, <2>3
  <2>5. ASSUME NEW x \in Objects, x \in Range(Channels) PROVE x \in Range(Channels')
    <3>1. PICK m \in Names : Channels[m] = x
      BY <1>1, <2>5 DEF Range
    <3>2. m # n
      BY <1>3, <2>5, <3>1 DEF Objects
    <3>3. Channels'[m] = x /\ DOMAIN Channels' = Names
      BY <1>1, <2>1, <3>1, <3>2
    <3>4. QED
      BY <3>3 DEF Range
  <2>6. QED
    BY <2>2, <2>3, <2>4, <2>5
<1>4. QED
  BY <1>2, <1>3

(* Steps of a record's way that queue nothing. *)
LEMMA WayStep ==
  ASSUME IndInv, NEW t \in Threads, program[t] # <<>>,
         program[t][1][1] \in Shows \cup {"find", "error", "fatal", "handler"},
         NEW q \in Seq(Steps), Then(t, q), <<"handler">> \notin Range(q),
         UNCHANGED <<ToDelete, Backends, queued, dataLock, link, stray, closed>>,
         \A x \in Objects : x \in Range(Channels) => x \in Range(Channels'),
         TypeOK', ProgramsOK', CallInv'
  PROVE  Keeps(t)
<1>1. TypeInv /\ BackendsInv /\ ClosedInv /\ ToDelete' \in Seq(Objects)
  BY DEF IndInv, TypeInv
<1>2. program[t][1][1] \notin Closing /\ program[t][1][1] \notin {"store", "clear", "flush"}
  BY DEF Closing, Shows
<1>3. \A x \in Objects : x \in Registered => x \in Registered'
  BY DEF Registered
<1>4. Effect(t)
  BY <1>1, <1>2, <1>3, Quiet
<1>5. Closes(t)
  BY <1>1, <1>2, NotClosed
<1>6. QED
  BY <1>1, <1>4, <1>5 DEF Keeps

(* The first step of a record's way leaves nothing that changes the types. *)
LEMMA TypesKept ==
  ASSUME TypeOK, UNCHANGED <<Channels, ToDelete, nameOf, recent, Enabled, Active, link, Backends,
                             queued, dataLock, level, logs, operations, closed, throttled, stray>>,
         FatalHandling' \in BOOLEAN
  PROVE  TypeOK'
<1>1. Created' = Created
  BY DEF Created
<1>2. QED
  BY <1>1 DEF TypeOK

(* The stack, the counts and the program of a thread. *)
LEMMA Way ==
  ASSUME IndInv, NEW t \in Threads, program[t] # <<>>
  PROVE  /\ program[t] \in Seq(Steps) /\ Ordered(program[t]) /\ Tail(program[t]) \in Seq(Steps)
         /\ guard[t] \in Guards /\ Stack(guard[t]) \in Seq(Objects)
         /\ hits[t] \in [Objects -> Nat]
         /\ Unwinds(program[t], Stack(guard[t]))
         /\ HitsInv(program[t], Stack(guard[t]), hits[t])
         /\ guard' = guard => guard' = [guard EXCEPT ![t] = guard[t]]
         /\ hits' = hits => hits' = [hits EXCEPT ![t] = hits[t]]
         /\ <<>> \o Tail(program[t]) = Tail(program[t])
         /\ program[t][1][1] \in {"find", "display", "linked", "filter"} =>
              \A o \in Objects : hits[t][o] = 0
<1>1. /\ program[t] \in Seq(Steps) /\ Ordered(program[t])
      /\ guard[t] \in Guards /\ hits[t] \in [Objects -> Nat]
      /\ guard \in [Threads -> Guards] /\ hits \in [Threads -> [Objects -> Nat]]
  BY DEF IndInv, TypeInv, ProgramsOK
<1>2. Unwinds(program[t], Stack(guard[t])) /\ HitsInv(program[t], Stack(guard[t]), hits[t])
  BY DEF IndInv, CallInv
<1>3. Tail(program[t]) \in Seq(Steps) /\ 1 \in DOMAIN program[t]
  BY <1>1, HeadTailProperties
<1>4. <<>> \o Tail(program[t]) = Tail(program[t])
  BY <1>3
<1>5. Stack(guard[t]) \in Seq(Objects)
  BY <1>1, PushPop
<1>6. program[t][1][1] \in {"find", "display", "linked", "filter"} => Fresh(program[t])
  BY <1>3 DEF Fresh
<1>7. QED
  BY <1>1, <1>2, <1>3, <1>4, <1>5, <1>6 DEF HitsInv

(* The counts of a stack with a channel more or less. *)
LEMMA StackHits ==
  ASSUME NEW s \in Seq(Objects), NEW h \in [Objects -> Nat], NEW p, HitsInv(p, s, h), NEW r
  PROVE  /\ ~Fresh(r) => HitsInv(r, s, h)
         /\ (\A o \in Objects : h[o] = 0) => HitsInv(r, s, h)
         /\ \A o \in Objects :
              o \notin Range(s) /\ (\A x \in Objects : h[x] = 0) => HitsInv(r, Append(s, o), h)
         /\ s # <<>> /\ ~Fresh(r) =>
              /\ HitsInv(r, Front(s), h)
              /\ HitsInv(r, Front(s), [h EXCEPT ![Last(s)] = h[Last(s)] + 1])
<1>1. (~Fresh(r) \/ \A o \in Objects : h[o] = 0) => HitsInv(r, s, h)
  BY DEF HitsInv
<1>2. ASSUME NEW o \in Objects, o \notin Range(s), \A x \in Objects : h[x] = 0
      PROVE  HitsInv(r, Append(s, o), h)
  <2> DEFINE w == Append(s, o)
  <2>1. /\ w \in Seq(Objects) /\ Len(w) = Len(s) + 1 /\ w[Len(s) + 1] = o
        /\ \A i \in 1..Len(s) : w[i] = s[i]
        /\ DOMAIN w = 1..(Len(s) + 1) /\ DOMAIN s = 1..Len(s) /\ Len(s) \in Nat
    BY AppendProperties, SeqHas
  <2>2. \A i \in 1..Len(s) : s[i] # o
    BY <1>2, SeqHas
  <2> HIDE DEF w
  <2>3. IsInjective(s)
    BY DEF HitsInv
  <2>4. ASSUME NEW i \in DOMAIN w, NEW j \in DOMAIN w, w[i] = w[j] PROVE i = j
    <3>1. (i \in 1..Len(s) \/ i = Len(s) + 1) /\ (j \in 1..Len(s) \/ j = Len(s) + 1)
      BY <2>1
    <3>2. QED
      BY <2>1, <2>2, <2>3, <2>4, <3>1 DEF IsInjective
  <2>5. IsInjective(w)
    BY <2>4 DEF IsInjective
  <2>6. \A i \in DOMAIN w : w[i] \in Objects
    BY <2>1
  <2>7. \A x \in Objects : h[x] <= 1
    BY <1>2
  <2>8. QED
    BY <1>2, <2>5, <2>6, <2>7 DEF HitsInv, w
<1>3. ASSUME s # <<>>, ~Fresh(r)
      PROVE  /\ HitsInv(r, Front(s), h)
             /\ HitsInv(r, Front(s), [h EXCEPT ![Last(s)] = h[Last(s)] + 1])
  <2> DEFINE f == Front(s)
             k == [h EXCEPT ![Last(s)] = h[Last(s)] + 1]
  <2>1. Len(s) \in Nat /\ Len(s) >= 1 /\ DOMAIN s = 1..Len(s) /\ Last(s) = s[Len(s)]
    BY <1>3, SeqHas DEF Last
  <2>2. /\ DOMAIN f = 1..(Len(s) - 1)
        /\ \A i \in 1..(Len(s) - 1) : f[i] = s[i] /\ i \in DOMAIN s /\ i # Len(s)
    <3> DEFINE n == Len(s)
    <3>1. f = SubSeq(s, 1, n - 1)
      BY DEF Front
    <3>2. n \in 1..n /\ n \in 1..Len(s)
      BY <2>1
    <3>3. /\ SubSeq(s, 1, n - 1) \in Seq(Objects) /\ Len(SubSeq(s, 1, n - 1)) = n - 1
          /\ \A i \in 1..(n - 1) : SubSeq(s, 1, n - 1)[i] = s[i]
      BY <2>1
    <3> HIDE DEF f
    <3>4. DOMAIN f = 1..(n - 1) /\ \A i \in 1..(n - 1) : f[i] = s[i]
      BY <3>1, <3>3, SeqHas
    <3>5. n \in Nat /\ DOMAIN s = 1..n
      BY <2>1
    <3>e. f = Front(s) /\ n = Len(s)
      BY DEF f
    <3> HIDE DEF n
    <3>7. \A i \in 1..(n - 1) : i \in DOMAIN s /\ i # n
      BY <3>5
    <3>6. QED
      BY <3>4, <3>7, <3>e
  <2> HIDE DEF f
  <2>3. /\ IsInjective(s) /\ (\A x \in Objects : h[x] <= 1)
        /\ (\A i \in DOMAIN s : h[s[i]] = 0)
    BY DEF HitsInv
  <2>4. Len(s) \in DOMAIN s /\ \A i \in DOMAIN s : s[i] \in Objects
    BY <2>1
  <2>5. \A i \in DOMAIN f : f[i] # Last(s) /\ f[i] \in Objects /\ h[f[i]] = 0
    BY <2>1, <2>2, <2>3, <2>4 DEF IsInjective
  <2>6. IsInjective(f)
    BY <2>2, <2>3 DEF IsInjective
  <2>7. HitsInv(r, f, h)
    BY <1>3, <2>3, <2>5, <2>6 DEF HitsInv
  <2>8. (\A x \in Objects \ {Last(s)} : k[x] = h[x]) /\ k[Last(s)] = 1 /\ Last(s) \in Objects
    BY <2>1, <2>3, <2>4
  <2> HIDE DEF k
  <2>9. (\A x \in Objects : k[x] <= 1) /\ \A i \in DOMAIN f : k[f[i]] = 0
    BY <2>3, <2>5, <2>8
  <2>10. HitsInv(r, f, k)
    BY <1>3, <2>6, <2>9 DEF HitsInv
  <2>11. QED
    BY <2>7, <2>10 DEF f, k
<1>4. QED
  BY <1>1, <1>2, <1>3

(* Channel::Display enters a channel the thread is not in yet. *)
LEMMA DisplayKept ==
  ASSUME IndInv, NEW t \in Threads, Display(t)
  PROVE  Keeps(t)
<1>1. TypeInv /\ TypeOK /\ CallInv
  BY DEF IndInv, TypeInv
<1> DEFINE o == On(t)
           b == Head(program[t])[3]
           s == Stack(guard[t])
           p == program[t]
<1>2. /\ At(t, "display") /\ dataLock[o] = None
      /\ IF Enabled[o] /\ ~Entered(guard[t], o)
         THEN /\ guard' = [guard EXCEPT ![t] = Push(guard[t], o)]
              /\ Then(t, <<<<"filter", o, b>>>>)
         ELSE Then(t, <<>>) /\ UNCHANGED guard
      /\ UNCHANGED <<registry, recent, FatalHandling, state, level, hits, history>>
  BY DEF Display
<1>3. p # <<>> /\ p[1][1] = "display" /\ o \in Objects /\ b \in BOOLEAN
  BY <1>1, <1>2, First, StepShape
<1> HIDE DEF o, b
<1>4. UNCHANGED <<Channels, ToDelete, nameOf, Enabled, Active, link, Backends, queued, dataLock,
                 logs, operations, closed, throttled, stray>>
  BY <1>2 DEF registry, state, history
<1>5. TypeOK'
  BY <1>1, <1>2, <1>4, TypesKept DEF TypeOK
<1>6. /\ p \in Seq(Steps) /\ Ordered(p) /\ Tail(p) \in Seq(Steps)
      /\ guard[t] \in Guards /\ s \in Seq(Objects) /\ hits[t] \in [Objects -> Nat]
      /\ Unwinds(p, s) /\ HitsInv(p, s, hits[t])
      /\ (guard' = guard => guard' = [guard EXCEPT ![t] = guard[t]])
      /\ hits' = [hits EXCEPT ![t] = hits[t]]
      /\ <<>> \o Tail(p) = Tail(p)
      /\ \A x \in Objects : hits[t][x] = 0
  BY <1>2, <1>3, Way
<1>7. "display" \in Shows
  BY DEF Shows
<1>8. \A x \in Objects : x \in Range(Channels) => x \in Range(Channels')
  BY <1>4
<1>9. CASE Enabled[o] /\ ~Entered(guard[t], o)
  <2> DEFINE a == <<"filter", o, b>>
             g == Push(guard[t], o)
  <2>1. a \in Steps /\ a[1] = "filter"
    BY <1>3, StepIs
  <2>2. Then(t, <<a>>) /\ guard' = [guard EXCEPT ![t] = g] /\ o \notin Range(s)
    BY <1>2, <1>9 DEF Entered
  <2>3. g \in Guards /\ Stack(g) = Append(s, o)
    BY <1>3, <1>6, PushPop
  <2>4. Unwinds(<<a>> \o Tail(p), Append(s, o))
    BY <1>3, <1>6, ShowsUnwinds
  <2> HIDE DEF s, p
  <2>5. HitsInv(<<a>> \o Tail(p), Append(s, o), hits[t])
    BY <1>3, <1>6, <2>2, StackHits
  <2> HIDE DEF a, g
  <2>6. Fits(<<a>>, "display")
    <3>1. Follows("display") \subseteq Follows(a[1])
      BY <2>1 DEF Follows, Work, Shows
    <3>2. QED
      BY <2>1, <3>1, FitsFew
  <2>7. ProgramsOK' /\ CallInv'
    <3>1. Unwinds(<<a>> \o Tail(p), Stack(g)) /\ HitsInv(<<a>> \o Tail(p), Stack(g), hits[t])
      BY <2>3, <2>4, <2>5
    <3>2. program[t][1][1] = "display" /\ program[t] # <<>> /\ p = program[t]
      BY <1>3 DEF p
    <3>3. QED
      BY <1>1, <1>6, <2>2, <2>3, <2>6, <3>1, <3>2, CallsKept
  <2>8. <<a>> \in Seq(Steps) /\ <<"handler">> \notin Range(<<a>>)
    BY <2>1, Single, Kinds
  <2>9. QED
    BY <1>3, <1>4, <1>5, <1>7, <1>8, <2>2, <2>7, <2>8, WayStep DEF p
<1>10. CASE ~(Enabled[o] /\ ~Entered(guard[t], o))
  <2>1. Then(t, <<>>) /\ guard' = guard
    BY <1>2, <1>10
  <2>2. Unwinds(<<>> \o Tail(p), s) /\ ~Fresh(Tail(p))
    BY <1>3, <1>6, <1>7, TailUnwinds
  <2> HIDE DEF s, p
  <2>3. HitsInv(<<>> \o Tail(p), s, hits[t])
    BY <1>6, <2>2, StackHits
  <2>4. Fits(<<>>, "display")
    BY Nothing DEF Fits, Ordered
  <2>5. ProgramsOK' /\ CallInv'
    BY <1>1, <1>3, <1>6, <2>1, <2>2, <2>3, <2>4, CallsKept DEF p, s
  <2>6. QED
    BY <1>3, <1>4, <1>5, <1>7, <1>8, <2>1, <2>5, Nothing, WayStep DEF p
<1>11. QED
  BY <1>9, <1>10

(* The thread leaves the last channel of its stack. *)
LEMMA Leaves ==
  ASSUME IndInv, NEW t \in Threads, program[t] # <<>>,
         program[t][1][1] \in {"filter", "output"},
         guard' = [guard EXCEPT ![t] = Pop(guard[t])], Then(t, <<>>),
         \/ hits' = hits
         \/ hits' = [hits EXCEPT ![t][program[t][1][2]] = hits[t][program[t][1][2]] + 1]
  PROVE  ProgramsOK' /\ CallInv'
<1> DEFINE s == Stack(guard[t])
           p == program[t]
           g == Pop(guard[t])
           o == Last(s)
           h == [hits[t] EXCEPT ![o] = hits[t][o] + 1]
<1>1. TypeInv /\ CallInv
  BY DEF IndInv
<1>2. /\ p \in Seq(Steps) /\ Ordered(p) /\ Tail(p) \in Seq(Steps)
      /\ guard[t] \in Guards /\ s \in Seq(Objects) /\ hits[t] \in [Objects -> Nat]
      /\ Unwinds(p, s) /\ HitsInv(p, s, hits[t])
      /\ <<>> \o Tail(p) = Tail(p)
      /\ (hits' = hits => hits' = [hits EXCEPT ![t] = hits[t]])
  BY Way
<1>3. p[1][1] \in Shows
  BY DEF Shows
<1>4. s # <<>> /\ p[1][2] = o /\ Unwinds(<<>> \o Tail(p), Front(s)) /\ ~Fresh(<<>> \o Tail(p))
  BY <1>2, <1>3, TailUnwinds
<1>5. g \in Guards /\ Stack(g) = Front(s)
  BY <1>2, <1>4, PushPop
<1>p. p = program[t] /\ h \in [Objects -> Nat]
  <2>1. o \in Objects
    <3>1. Len(s) \in Nat /\ Len(s) >= 1 /\ o = s[Len(s)]
      BY <1>2, <1>4, SeqHas DEF Last
    <3>2. Len(s) \in 1..Len(s)
      BY <3>1
    <3>3. QED
      BY <1>2, <3>1, <3>2, SeqHas
  <2>2. hits[t][o] + 1 \in Nat
    BY <1>2, <2>1
  <2>3. QED
    BY <1>2, <2>2
<1>6. /\ HitsInv(<<>> \o Tail(p), Front(s), hits[t])
      /\ HitsInv(<<>> \o Tail(p), Front(s), h)
  BY <1>2, <1>4, StackHits
<1>7. hits' = [hits EXCEPT ![t] = hits[t]] \/ hits' = [hits EXCEPT ![t] = h]
  BY <1>2, <1>4
<1>8. Fits(<<>>, p[1][1])
  BY Nothing DEF Fits, Ordered
<1>9. guard' = [guard EXCEPT ![t] = g] /\ p # <<>>
  OBVIOUS
<1> HIDE DEF s, p, g, h
<1>10. Unwinds(<<>> \o Tail(p), Stack(g))
       /\ HitsInv(<<>> \o Tail(p), Stack(g), hits[t]) /\ HitsInv(<<>> \o Tail(p), Stack(g), h)
  BY <1>4, <1>5, <1>6
<1>11. CASE hits' = [hits EXCEPT ![t] = hits[t]]
  BY <1>1, <1>2, <1>5, <1>8, <1>9, <1>10, <1>11, <1>p, CallsKept
<1>12. CASE hits' = [hits EXCEPT ![t] = h]
  BY <1>1, <1>2, <1>5, <1>8, <1>9, <1>10, <1>12, <1>p, CallsKept
<1>13. QED
  BY <1>7, <1>11, <1>12

(* Channel::Display: the filter or the level rejects the record. *)
LEMMA RejectKept ==
  ASSUME IndInv, NEW t \in Threads, Reject(t)
  PROVE  Keeps(t)
<1>1. TypeInv /\ TypeOK
  BY DEF IndInv, TypeInv
<1>2. /\ At(t, "filter") /\ guard' = [guard EXCEPT ![t] = Pop(guard[t])] /\ Then(t, <<>>)
      /\ UNCHANGED <<registry, recent, FatalHandling, state, level, hits, history>>
  BY DEF Reject
<1>3. program[t] # <<>> /\ program[t][1][1] = "filter"
  BY <1>1, <1>2, First
<1>4. UNCHANGED <<Channels, ToDelete, nameOf, Enabled, Active, link, Backends, queued, dataLock,
                 logs, operations, closed, throttled, stray>>
  BY <1>2 DEF registry, state, history
<1>5. TypeOK'
  BY <1>1, <1>2, <1>4, TypesKept DEF TypeOK
<1>6. ProgramsOK' /\ CallInv'
  BY <1>2, <1>3, Leaves
<1>7. "filter" \in Shows
  BY DEF Shows
<1>8. QED
  BY <1>3, <1>4, <1>5, <1>6, <1>7, <1>2, Nothing, WayStep

(* Channel::Display goes on to the linked channel, its own output ahead. *)
LEMMA FollowKept ==
  ASSUME IndInv, NEW t \in Threads, Follow(t)
  PROVE  Keeps(t)
<1>1. TypeInv /\ TypeOK /\ CallInv
  BY DEF IndInv, TypeInv
<1> DEFINE o == On(t)
           s == Stack(guard[t])
           p == program[t]
           a == <<"linked", link[o]>>
           b == <<"output", o>>
<1>2. /\ At(t, "filter") /\ FollowsLink(t) /\ Then(t, <<a, b>>)
      /\ UNCHANGED <<registry, recent, FatalHandling, state, call, history>>
  BY DEF Follow
<1>3. p # <<>> /\ p[1][1] = "filter" /\ p[1][2] = o /\ o \in Objects
  BY <1>1, <1>2, First, StepShape
<1>4. UNCHANGED <<Channels, ToDelete, nameOf, Enabled, Active, link, Backends, queued, dataLock,
                 guard, level, hits, logs, operations, closed, throttled, stray>>
  BY <1>2 DEF registry, state, call, history
<1>5. TypeOK'
  BY <1>1, <1>2, <1>4, TypesKept DEF TypeOK
<1>l. link[o] \in LinksTo(Objects)
  BY <1>1, <1>2, <1>3 DEF TypeOK, FollowsLink
<1>6. /\ p \in Seq(Steps) /\ Ordered(p)
      /\ guard[t] \in Guards /\ s \in Seq(Objects) /\ hits[t] \in [Objects -> Nat]
      /\ Unwinds(p, s) /\ HitsInv(p, s, hits[t])
      /\ guard' = [guard EXCEPT ![t] = guard[t]]
      /\ hits' = [hits EXCEPT ![t] = hits[t]]
      /\ \A x \in Objects : hits[t][x] = 0
  BY <1>3, <1>4, Way
<1>7. a \in Steps /\ b \in Steps /\ a[1] = "linked" /\ b[1] = "output"
  BY <1>3, <1>l, StepIs DEF OfObject
<1>8. Unwinds(<<a, b>> \o Tail(p), s)
  BY <1>3, <1>6, <1>l, ShowsUnwinds
<1>9. p = program[t] /\ s = Stack(guard[t])
  OBVIOUS
<1> HIDE DEF a, b, p, s
<1>10. HitsInv(<<a, b>> \o Tail(p), s, hits[t])
  BY <1>6, StackHits
<1>11. Fits(<<a, b>>, "filter")
  <2>1. Follows("filter") \subseteq Follows(a[1]) /\ b[1] \in Follows(a[1])
        /\ Follows("filter") \subseteq Follows(b[1])
    BY <1>7, Order DEF Shows
  <2>2. QED
    BY <1>7, <2>1, FitsFew
<1>12. ProgramsOK' /\ CallInv'
  <2>1. Unwinds(<<a, b>> \o Tail(program[t]), Stack(guard[t]))
        /\ HitsInv(<<a, b>> \o Tail(program[t]), Stack(guard[t]), hits[t])
        /\ program[t] # <<>> /\ program[t][1][1] = "filter"
    BY <1>3, <1>8, <1>9, <1>10
  <2>2. QED
    BY <1>1, <1>2, <1>6, <1>11, <2>1, CallsKept
<1>13. <<a, b>> \in Seq(Steps) /\ <<"handler">> \notin Range(<<a, b>>)
  <2>1. a # <<"handler">> /\ b # <<"handler">>
    BY <1>7, Kinds
  <2>2. QED
    BY <1>7, <2>1, Pair
<1>14. "filter" \in Shows
  BY DEF Shows
<1>15. QED
  BY <1>2, <1>3, <1>4, <1>5, <1>9, <1>12, <1>13, <1>14, WayStep

(* Channel::Display on the channel of a link, created if it is not there. *)
LEMMA DisplayLinkedKept ==
  ASSUME IndInv, NEW t \in Threads, DisplayLinked(t)
  PROVE  Keeps(t)
<1>1. TypeInv /\ TypeOK /\ CallInv
  BY DEF IndInv, TypeInv
<1>2. PICK o \in Objects :
        /\ IF On(t)[1] = "id" THEN GetChannel(On(t)[2], o)
                              ELSE o = On(t)[2] /\ UNCHANGED <<Channels, nameOf>>
        /\ Then(t, <<<<"display", o, FALSE>>>>)
  BY DEF DisplayLinked
<1>3. /\ At(t, "linked")
      /\ UNCHANGED <<ToDelete, recent, FatalHandling, state, call, history>>
  BY DEF DisplayLinked
<1> DEFINE s == Stack(guard[t])
           p == program[t]
           a == <<"display", o, FALSE>>
<1>4. p # <<>> /\ p[1][1] = "linked" /\ On(t) \in LinksTo(Objects)
  BY <1>1, <1>3, First, StepShape
<1>5. UNCHANGED <<Enabled, Active, link, Backends, queued, dataLock,
                 guard, level, hits, logs, operations, closed, throttled, stray>>
  BY <1>3 DEF state, call, history
<1>6. /\ nameOf' \in Seq(Names) /\ Len(nameOf') <= MaxChannels /\ Created \subseteq Created'
      /\ Channels' \in [Names -> {0} \cup Created']
      /\ \A x \in Objects : x \in Range(Channels) => x \in Range(Channels')
  <2>1. CASE On(t)[1] = "id"
    <3>1. On(t)[2] \in Names
      BY <1>4, <2>1 DEF LinksTo
    <3>2. GetChannel(On(t)[2], o)
      BY <1>2, <2>1
    <3>3. QED
      BY <1>1, <3>1, <3>2, Gets
  <2>2. CASE On(t)[1] # "id"
    BY <1>1, <1>2, <2>2 DEF TypeOK, Created
  <2>3. QED
    BY <2>1, <2>2
<1>7. TypeOK'
  BY <1>1, <1>3, <1>5, <1>6 DEF TypeOK
<1>8. /\ p \in Seq(Steps) /\ Ordered(p)
      /\ guard[t] \in Guards /\ s \in Seq(Objects) /\ hits[t] \in [Objects -> Nat]
      /\ Unwinds(p, s) /\ HitsInv(p, s, hits[t])
      /\ guard' = [guard EXCEPT ![t] = guard[t]]
      /\ hits' = [hits EXCEPT ![t] = hits[t]]
      /\ \A x \in Objects : hits[t][x] = 0
  BY <1>4, <1>5, Way
<1>9. a \in Steps /\ a[1] = "display"
  BY StepIs
<1>10. Unwinds(<<a>> \o Tail(p), s)
  BY <1>4, <1>8, ShowsUnwinds
<1>11. p = program[t] /\ s = Stack(guard[t]) /\ Then(t, <<a>>)
  BY <1>2
<1> HIDE DEF a, p, s
<1>12. HitsInv(<<a>> \o Tail(p), s, hits[t])
  BY <1>8, StackHits
<1>13. Fits(<<a>>, "linked")
  <2>1. Follows("linked") \subseteq Follows(a[1])
    BY <1>9, Order DEF Shows
  <2>2. QED
    BY <1>9, <2>1, FitsFew
<1>14. ProgramsOK' /\ CallInv'
  <2>1. Unwinds(<<a>> \o Tail(program[t]), Stack(guard[t]))
        /\ HitsInv(<<a>> \o Tail(program[t]), Stack(guard[t]), hits[t])
        /\ program[t] # <<>> /\ program[t][1][1] = "linked"
    BY <1>4, <1>10, <1>11, <1>12
  <2>2. QED
    BY <1>1, <1>8, <1>11, <1>13, <2>1, CallsKept
<1>15. <<a>> \in Seq(Steps) /\ <<"handler">> \notin Range(<<a>>)
  BY <1>9, Single, Kinds
<1>16. "linked" \in Shows
  BY DEF Shows
<1>17. QED
  BY <1>3, <1>4, <1>5, <1>6, <1>7, <1>11, <1>14, <1>15, <1>16, WayStep

(* Channel::Display hands the record to the backends, once. *)
LEMMA OutputKept ==
  ASSUME IndInv, NEW t \in Threads, Output(t)
  PROVE  Keeps(t)
<1>1. TypeInv /\ TypeOK /\ BackendsInv /\ ClosedInv /\ ToDelete \in Seq(Objects)
      /\ program \in [Threads -> Seq(Steps)]
  BY DEF IndInv, TypeInv, ProgramsOK
<1> DEFINE o == On(t)
<1>2. /\ At(t, "output") \/ At(t, "filter")
      /\ dataLock[o] = None
      /\ IF Backends[o] \subseteq {"frozen"} THEN UNCHANGED <<Backends, queued, hits>>
         ELSE /\ Backends' = [Backends EXCEPT ![o] = (Backends[o] \ {"new"}) \cup {"live"}]
              /\ queued' = [queued EXCEPT ![o] = queued[o] \cup {t}]
              /\ hits' = [hits EXCEPT ![t][o] = hits[t][o] + 1]
      /\ guard' = [guard EXCEPT ![t] = Pop(guard[t])]
      /\ Then(t, <<>>)
      /\ UNCHANGED <<registry, recent, FatalHandling, Enabled, Active, link, dataLock, level, history>>
  BY DEF Output
<1>3. /\ program[t] # <<>> /\ program[t][1][1] \in {"filter", "output"}
      /\ program[t][1][2] = o /\ o \in Objects
  <2>1. CASE At(t, "output")
    BY <1>1, <2>1, First, StepShape DEF OfObject
  <2>2. CASE At(t, "filter")
    BY <1>1, <2>2, First, StepShape
  <2>3. QED
    BY <1>2, <2>1, <2>2
<1> HIDE DEF o
<1>4. UNCHANGED <<Channels, ToDelete, nameOf, logs, operations, closed, throttled, stray>>
  BY <1>2 DEF registry, history
<1>5. ProgramsOK' /\ CallInv'
  <2>1. hits' = hits \/ hits' = [hits EXCEPT ![t][o] = hits[t][o] + 1]
    BY <1>2
  <2>2. QED
    BY <1>2, <1>3, <2>1, Leaves
<1>6. /\ Backends' \in [Objects -> SUBSET {"new", "live", "frozen"}]
      /\ queued' \in [Objects -> SUBSET Threads]
      /\ \A x \in Objects \ {o} : Backends'[x] = Backends[x] /\ queued'[x] = queued[x]
      /\ Backends'[o] = {} <=> Backends[o] = {}
      /\ queued'[o] \subseteq queued[o] \cup {t}
      /\ t \in queued'[o] /\ t \notin queued[o] => Backends[o] # {}
  <2>1. /\ Backends \in [Objects -> SUBSET {"new", "live", "frozen"}]
        /\ queued \in [Objects -> SUBSET Threads]
    BY <1>1 DEF TypeOK
  <2>2. CASE Backends[o] \subseteq {"frozen"}
    BY <1>2, <2>1, <2>2
  <2>3. CASE ~(Backends[o] \subseteq {"frozen"})
    <3>1. /\ Backends' = [Backends EXCEPT ![o] = (Backends[o] \ {"new"}) \cup {"live"}]
          /\ queued' = [queued EXCEPT ![o] = queued[o] \cup {t}]
      BY <1>2, <2>3
    <3>2. QED
      BY <1>3, <2>1, <2>3, <3>1
  <2>4. QED
    BY <2>2, <2>3
<1>7. TypeOK'
  <2>1. Created' = Created
    BY <1>4 DEF Created
  <2>2. QED
    BY <1>1, <1>2, <1>4, <1>6, <2>1 DEF TypeOK
<1>8. program[t][1][1] \in Shows /\ program[t][1][1] \notin Closing
      /\ program[t][1][1] \notin {"flush", "handler", "store", "clear"}
  BY <1>3 DEF Shows, Closing
<1>9. <<"handler">> \notin Range(program[t])
  <2>1. 1 \in 1..Len(program[t]) /\ program[t] \in Seq(Steps) /\ Ordered(program[t])
    BY <1>1, <1>3 DEF TypeInv, ProgramsOK
  <2>2. QED
    BY <1>8, <2>1, HandlerOnly
<1>10. /\ \A u \in Threads \ {t} : program'[u] = program[u]
       /\ \A x : x \in Range(program[t]) => x = program[t][1] \/ x \in Range(program'[t])
       /\ \A x : x \in Range(program'[t]) => x \in Range(program[t])
  BY <1>1, <1>2, <1>3, Shift, Nothing
<1>11. \A x : program[t][1] # <<"clear", x>> /\ program[t][1] # <<"flush", x>>
  BY <1>8, Kinds
<1>12. \A x \in Objects : /\ ToClear(t, x) => ToClear(t, x)'
                          /\ <<"flush", x>> \in Range(program[t]) =>
                               <<"flush", x>> \in Range(program'[t])
  BY <1>10, <1>11 DEF ToClear
<1>13. None \notin Threads /\ \A x \in Objects : dataLock[x] # t
  BY <1>1, <1>8, ChannelsAssumption DEF BackendsInv, Storing
<1>14. Registered' = Registered
  BY <1>4 DEF Registered
<1>15. <<"handler">> \notin Range(program'[t])
  BY <1>9, <1>10
<1>16. ASSUME NEW x \in Objects
       PROVE  /\ Backends'[x] = {} <=> Backends[x] = {}
              /\ queued'[x] \subseteq queued[x] \cup {t}
              /\ t \in queued'[x] /\ t \notin queued[x] => Backends[x] # {}
              /\ \A u \in Threads \ {t} : dataLock[x] = u => Backends'[x] = Backends[x]
  <2>1. CASE x = o
    BY <1>2, <1>6, <1>13, <2>1
  <2>2. CASE x # o
    BY <1>6, <2>2
  <2>3. QED
    BY <2>1, <2>2
<1>17. Effect(t)
  BY <1>2, <1>4, <1>10, <1>12, <1>13, <1>14, <1>15, <1>16 DEF Effect
<1>18. Closes(t)
  BY <1>1, <1>3, <1>8, NotClosed
<1>19. QED
  BY <1>1, <1>4, <1>5, <1>7, <1>17, <1>18 DEF Keeps

----------------------------------------------------------------------------
(* DoLog                                                                     *)

(* A thread with an empty stack begins to display, or not. *)
LEMMA ShowBegins ==
  ASSUME IndInv, NEW t \in Threads, program[t] # <<>>, program[t][1][1] \in {"find", "error"},
         NEW q, Fits(q, program[t][1][1]), Then(t, q),
         \A i \in 1..Len(q) : (q[i][1] = "display" /\ i = 1) \/ q[i][1] \in {"error", "fatal"},
         guard' = guard,
         NEW h \in [Objects -> Nat], \A o \in Objects : h[o] = 0, hits' = [hits EXCEPT ![t] = h]
  PROVE  ProgramsOK' /\ CallInv'
<1> DEFINE s == Stack(guard[t])
           p == program[t]
           r == q \o Tail(p)
<1>1. TypeInv /\ CallInv
  BY DEF IndInv
<1>2. /\ p \in Seq(Steps) /\ Ordered(p) /\ guard[t] \in Guards /\ s \in Seq(Objects)
      /\ Unwinds(p, s) /\ HitsInv(p, s, hits[t])
      /\ guard' = [guard EXCEPT ![t] = guard[t]]
  BY Way
<1>3. q \in Seq(Steps) /\ r = q \o Tail(p) /\ p # <<>> /\ p[1][1] \in {"find", "error"}
      /\ p = program[t]
  BY DEF Fits
<1> HIDE DEF p, s, r
<1>4. s = <<>>
  <2>1. p[1][1] \notin Shows
    BY <1>3 DEF Shows
  <2>2. QED
    BY <1>2, <2>1, EmptyStack
<1>5. /\ Len(p) \in Nat /\ Len(q) \in Nat /\ Len(p) >= 1
      /\ r \in Seq(Steps) /\ Len(r) = Len(q) + Len(p) - 1
      /\ \A i \in 1..Len(q) : r[i] = q[i]
      /\ \A i \in (Len(q) + 1)..Len(r) : r[i] = p[i - Len(q) + 1]
  BY <1>2, <1>3, Replaced
<1>6. \A i \in 2..Len(p) : p[i][1] = "fatal"
  <2>1. \A i \in 2..Len(p) : i \in DOMAIN p /\ 1 \in DOMAIN p /\ 1 < i
    BY <1>2, <1>5, SeqHas
  <2>2. Follows(p[1][1]) \subseteq {"fatal"}
    BY <1>3, Order
  <2>3. QED
    BY <1>2, <2>1, <2>2 DEF Ordered
<1>7. \A i \in 1..Len(r) : (r[i][1] = "display" /\ i = 1) \/ r[i][1] \in {"error", "fatal"}
  <2>1. \A i \in 1..Len(r) : i \in 1..Len(q)
          \/ (i \in (Len(q) + 1)..Len(r) /\ i - Len(q) + 1 \in 2..Len(p))
    BY <1>5
  <2>2. ASSUME NEW i \in 1..Len(r) PROVE (r[i][1] = "display" /\ i = 1) \/ r[i][1] \in {"error", "fatal"}
    <3>1. CASE i \in 1..Len(q)
      BY <1>5, <3>1
    <3>2. CASE i \notin 1..Len(q)
      BY <1>5, <1>6, <2>1, <3>2
    <3>3. QED
      BY <3>1, <3>2
  <2>3. QED
    BY <2>2
<1>8. Unwinds(r, <<>>)
  <2>1. \A i \in 2..Len(r) : i \in 1..Len(r) /\ i # 1
    BY <1>5
  <2>2. r # <<>> => 1 \in 1..Len(r)
    BY <1>5
  <2>3. \A i \in 2..Len(r) : r[i][1] \in {"error", "fatal"}
    BY <1>7, <2>1
  <2>4. r # <<>> => r[1][1] \in {"display", "error", "fatal"}
    BY <1>7, <2>2
  <2>5. "error" \notin Shows /\ "fatal" \notin Shows
    BY DEF Shows
  <2>6. QED
    BY <1>5, <2>3, <2>4, <2>5, NotShown
<1>9. HitsInv(r, <<>>, h)
  <2>1. DOMAIN <<>> = {} /\ \A o \in Objects : h[o] <= 1
    OBVIOUS
  <2>2. QED
    BY <2>1 DEF HitsInv, IsInjective
<1>10. Unwinds(q \o Tail(program[t]), Stack(guard[t]))
       /\ HitsInv(q \o Tail(program[t]), Stack(guard[t]), h)
  BY <1>3, <1>4, <1>8, <1>9 DEF s
<1>11. QED
  BY <1>1, <1>2, <1>10, CallsKept

(* Logger::DoLog: an override or the subsystems withhold the record. *)
LEMMA WithholdKept ==
  ASSUME IndInv, NEW t \in Threads, Withhold(t)
  PROVE  Keeps(t)
<1>1. TypeInv /\ TypeOK /\ CallInv
  BY DEF IndInv, TypeInv
<1>2. /\ At(t, "find") /\ Then(t, <<>>)
      /\ UNCHANGED <<registry, recent, FatalHandling, state, call, history>>
  BY DEF Withhold
<1>3. program[t] # <<>> /\ program[t][1][1] = "find"
  BY <1>1, <1>2, First
<1>4. UNCHANGED <<Channels, ToDelete, nameOf, Enabled, Active, link, Backends, queued, dataLock,
                 guard, level, hits, logs, operations, closed, throttled, stray>>
  BY <1>2 DEF registry, state, call, history
<1>5. TypeOK'
  BY <1>1, <1>2, <1>4, TypesKept DEF TypeOK
<1>6. ProgramsOK' /\ CallInv'
  <2>1. Fits(<<>>, "find") /\ "find" \notin Shows
    BY Nothing DEF Fits, Ordered, Shows
  <2>2. QED
    BY <1>1, <1>2, <1>3, <1>4, <2>1, Nothing, OtherCalls
<1>7. QED
  BY <1>2, <1>3, <1>4, <1>5, <1>6, Nothing, WayStep

(* One step, and another. *)
LEMMA Appended ==
  ASSUME NEW S, NEW a \in S, NEW b \in S
  PROVE  Append(<<a>>, b) = <<a, b>>
<1> DEFINE q == Append(<<a>>, b)
<1>1. q \in Seq(S) /\ Len(q) = 2 /\ q[1] = a /\ q[2] = b
  BY AppendProperties
<1> HIDE DEF q
<1>2. q = <<q[1], q[2]>>
  BY <1>1
<1>3. QED
  BY <1>1, <1>2 DEF q

(* What Find may put ahead of the thread. *)
LEMMA FindSteps ==
  ASSUME NEW o \in Objects, NEW e \in BOOLEAN, NEW f \in BOOLEAN, NEW q,
         q = <<<<"display", o, FALSE>>>> \o (IF e THEN <<<<"error">>>> ELSE <<>>)
                                        \o (IF f THEN <<<<"fatal">>>> ELSE <<>>)
  PROVE  /\ Fits(q, "find")
         /\ \A i \in 1..Len(q) : (q[i][1] = "display" /\ i = 1) \/ q[i][1] \in {"error", "fatal"}
<1> DEFINE d == <<"display", o, FALSE>>
           x == <<"error">>
           y == <<"fatal">>
<1>1. /\ d \in Steps /\ d[1] = "display" /\ x \in Steps /\ x[1] = "error"
      /\ y \in Steps /\ y[1] = "fatal"
  BY StepIs
<1>2. q = <<d>> \/ q = <<d, x>> \/ q = <<d, y>> \/ q = <<d, x, y>>
  <2> HIDE DEF d, x, y
  <2>1. q = <<d>> \o (IF e THEN <<x>> ELSE <<>>) \o (IF f THEN <<y>> ELSE <<>>)
    BY DEF d, x, y
  <2>2. (e \in {TRUE, FALSE}) /\ (f \in {TRUE, FALSE})
    OBVIOUS
  <2>3. CASE e /\ f
    BY <2>1, <2>3
  <2>c. /\ <<d>> \in Seq(Steps) /\ <<d, x>> \in Seq(Steps)
        /\ \A z \in Seq(Steps) : z \o <<>> = z
    BY <1>1
  <2>4. CASE e /\ ~f
    <3>1. q = (<<d>> \o <<x>>) \o <<>>
      BY <2>1, <2>4
    <3>2. <<d>> \o <<x>> = <<d, x>>
      <4>1. Append(<<d>>, x) = <<d>> \o <<x>>
        BY <1>1, <2>c, AppendIsConcat
      <4>2. Append(<<d>>, x) = <<d, x>>
        BY <1>1, <2>c, Appended
      <4>3. QED
        BY <4>1, <4>2
    <3>3. QED
      BY <2>c, <3>1, <3>2
  <2>5. CASE ~e /\ f
    <3>1. q = (<<d>> \o <<>>) \o <<y>>
      BY <2>1, <2>5
    <3>2. <<d>> \o <<y>> = <<d, y>>
      <4>1. Append(<<d>>, y) = <<d>> \o <<y>>
        BY <1>1, <2>c, AppendIsConcat
      <4>2. Append(<<d>>, y) = <<d, y>>
        BY <1>1, <2>c, Appended
      <4>3. QED
        BY <4>1, <4>2
    <3>3. QED
      BY <2>c, <3>1, <3>2
  <2>6. CASE ~e /\ ~f
    <3>1. q = (<<d>> \o <<>>) \o <<>>
      BY <2>1, <2>6
    <3>2. QED
      BY <2>c, <3>1
  <2>7. QED
    BY <2>2, <2>3, <2>4, <2>5, <2>6
<1> HIDE DEF d, x, y
<1>3. /\ Follows("find") = {} /\ x[1] \in Follows(d[1]) /\ y[1] \in Follows(d[1])
      /\ y[1] \in Follows(x[1])
  BY <1>1, Order DEF Shows
<1>4. Fits(<<d>>, "find") /\ Fits(<<d, x>>, "find") /\ Fits(<<d, y>>, "find")
      /\ Fits(<<d, x, y>>, "find")
  BY <1>1, <1>3, FitsFew
<1>5. /\ Len(<<d>>) = 1 /\ <<d>>[1] = d
      /\ Len(<<d, x>>) = 2 /\ <<d, x>>[1] = d /\ <<d, x>>[2] = x
      /\ Len(<<d, y>>) = 2 /\ <<d, y>>[1] = d /\ <<d, y>>[2] = y
      /\ Len(<<d, x, y>>) = 3 /\ <<d, x, y>>[1] = d /\ <<d, x, y>>[2] = x /\ <<d, x, y>>[3] = y
  BY <1>1, Few
<1>6. /\ \A i \in 1..1 : i = 1
      /\ \A i \in 1..2 : i = 1 \/ i = 2
      /\ \A i \in 1..3 : i = 1 \/ i = 2 \/ i = 3
  OBVIOUS
<1>7. ASSUME NEW i \in 1..Len(q)
      PROVE  (q[i][1] = "display" /\ i = 1) \/ q[i][1] \in {"error", "fatal"}
  <2>1. CASE q = <<d>>
    BY <1>1, <1>5, <1>6, <2>1
  <2>2. CASE q = <<d, x>>
    BY <1>1, <1>5, <1>6, <2>2
  <2>3. CASE q = <<d, y>>
    BY <1>1, <1>5, <1>6, <2>3
  <2>4. CASE q = <<d, x, y>>
    BY <1>1, <1>5, <1>6, <2>4
  <2>5. QED
    BY <1>2, <2>1, <2>2, <2>3, <2>4
<1>8. QED
  BY <1>2, <1>4, <1>7

(* Logger::DoLog finds the channel and takes on what is to be done. *)
LEMMA FindKept ==
  ASSUME IndInv, NEW t \in Threads, Find(t)
  PROVE  Keeps(t)
<1>1. TypeInv /\ TypeOK /\ CallInv
  BY DEF IndInv, TypeInv
<1>2. At(t, "find") /\ UNCHANGED <<ToDelete, recent, FatalHandling, state, call, history>>
  BY DEF Find
<1>3. program[t] # <<>> /\ program[t][1][1] = "find" /\ On(t) \in Names
  BY <1>1, <1>2, First, StepShape
<1>4. UNCHANGED <<Enabled, Active, link, Backends, queued, dataLock,
                 guard, level, hits, logs, operations, closed, throttled, stray>>
  BY <1>2 DEF state, call, history
<1>5. PICK o, q :
        /\ o \in Objects /\ GetChannel(On(t), o)
        /\ Then(t, q)
        /\ \/ q = <<>>
           \/ \E e, f \in BOOLEAN :
                q = <<<<"display", o, FALSE>>>> \o (IF e THEN <<<<"error">>>> ELSE <<>>)
                                               \o (IF f THEN <<<<"fatal">>>> ELSE <<>>)
  <2>1. PICK o \in Objects, quiet \in BOOLEAN :
          /\ GetChannel(On(t), o)
          /\ LET active == Active[o] /\ ~quiet
                 forward == level[t] # "info" /\ On(t) # ErrorChannel IN
               Then(t, IF ~active /\ ~forward THEN <<>>
                       ELSE <<<<"display", o, FALSE>>>>
                              \o (IF forward THEN <<<<"error">>>> ELSE <<>>)
                              \o (IF level[t] = "critical" THEN <<<<"fatal">>>> ELSE <<>>))
    BY DEF Find
  <2> DEFINE e == level[t] # "info" /\ On(t) # ErrorChannel
             f == level[t] = "critical"
             r == <<<<"display", o, FALSE>>>> \o (IF e THEN <<<<"error">>>> ELSE <<>>)
                                             \o (IF f THEN <<<<"fatal">>>> ELSE <<>>)
  <2>2. Then(t, <<>>) \/ Then(t, r)
    <3>1. CASE ~(Active[o] /\ ~quiet) /\ ~e
      BY <2>1, <3>1
    <3>2. CASE ~(~(Active[o] /\ ~quiet) /\ ~e)
      BY <2>1, <3>2
    <3>3. QED
      BY <3>1, <3>2
  <2>3. e \in BOOLEAN /\ f \in BOOLEAN
    OBVIOUS
  <2>4. QED
    BY <2>1, <2>2, <2>3
<1>6. Fits(q, "find")
      /\ \A i \in 1..Len(q) : (q[i][1] = "display" /\ i = 1) \/ q[i][1] \in {"error", "fatal"}
  <2>1. CASE q = <<>>
    BY <2>1, Nothing DEF Fits, Ordered
  <2>2. CASE \E e, f \in BOOLEAN :
                q = <<<<"display", o, FALSE>>>> \o (IF e THEN <<<<"error">>>> ELSE <<>>)
                                               \o (IF f THEN <<<<"fatal">>>> ELSE <<>>)
    <3>1. PICK e, f \in BOOLEAN :
                q = <<<<"display", o, FALSE>>>> \o (IF e THEN <<<<"error">>>> ELSE <<>>)
                                               \o (IF f THEN <<<<"fatal">>>> ELSE <<>>)
      BY <2>2
    <3>2. o \in Objects
      BY <1>5
    <3>3. QED
      BY <3>1, <3>2, FindSteps
  <2>3. QED
    BY <1>5, <2>1, <2>2
<1>7. /\ nameOf' \in Seq(Names) /\ Len(nameOf') <= MaxChannels /\ Created \subseteq Created'
      /\ Channels' \in [Names -> {0} \cup Created']
      /\ \A x \in Objects : x \in Range(Channels) => x \in Range(Channels')
  BY <1>1, <1>3, <1>5, Gets
<1>8. TypeOK'
  BY <1>1, <1>2, <1>4, <1>7 DEF TypeOK
<1>9. /\ hits[t] \in [Objects -> Nat] /\ hits' = [hits EXCEPT ![t] = hits[t]]
      /\ \A x \in Objects : hits[t][x] = 0
  BY <1>3, <1>4, Way
<1>10. ProgramsOK' /\ CallInv'
  BY <1>3, <1>4, <1>5, <1>6, <1>9, ShowBegins
<1>11. q \in Seq(Steps) /\ <<"handler">> \notin Range(q)
  <2>1. q \in Seq(Steps)
    BY <1>6 DEF Fits
  <2>2. \A i \in 1..Len(q) : q[i] # <<"handler">>
    BY <1>6, Kinds
  <2>3. QED
    BY <2>1, <2>2, SeqHas
<1>12. QED
  BY <1>2, <1>3, <1>4, <1>5, <1>7, <1>8, <1>10, <1>11, WayStep

(* Logger::DoLog: the error channel gets the record too. *)
LEMMA DisplayErrorKept ==
  ASSUME IndInv, NEW t \in Threads, DisplayError(t)
  PROVE  Keeps(t)
<1>1. TypeInv /\ TypeOK /\ CallInv /\ hits \in [Threads -> [Objects -> Nat]]
  BY DEF IndInv, TypeInv, ProgramsOK
<1> DEFINE o == Channels[ErrorChannel]
           a == <<"display", o, TRUE>>
           q == IF o = 0 THEN <<>> ELSE <<a>>
           h == [x \in Objects |-> 0]
<1>2. /\ At(t, "error") /\ Then(t, q) /\ hits' = [hits EXCEPT ![t] = h]
      /\ UNCHANGED <<registry, recent, FatalHandling, state, guard, level, history>>
  BY DEF DisplayError
<1>3. program[t] # <<>> /\ program[t][1][1] = "error"
  BY <1>1, <1>2, First
<1>4. UNCHANGED <<Channels, ToDelete, nameOf, Enabled, Active, link, Backends, queued, dataLock,
                 logs, operations, closed, throttled, stray>>
  BY <1>2 DEF registry, state, history
<1>5. TypeOK'
  BY <1>1, <1>2, <1>4, TypesKept DEF TypeOK
<1>6. o \in {0} \cup Objects
  BY <1>1, Known, ChannelsAssumption
<1>7. h \in [Objects -> Nat] /\ \A x \in Objects : h[x] = 0
  OBVIOUS
<1>8. CASE o = 0
  <2>1. Then(t, <<>>)
    BY <1>2, <1>8
  <2>2. Fits(<<>>, "error")
    BY Nothing DEF Fits, Ordered
  <2> HIDE DEF h
  <2>3. ProgramsOK' /\ CallInv'
    BY <1>2, <1>3, <1>7, <2>1, <2>2, Nothing, ShowBegins
  <2>4. QED
    BY <1>2, <1>3, <1>4, <1>5, <2>1, <2>3, Nothing, WayStep
<1>9. CASE o # 0
  <2>1. Then(t, <<a>>)
    BY <1>2, <1>9
  <2>2. a \in Steps /\ a[1] = "display"
    BY <1>6, <1>9, StepIs
  <2> HIDE DEF h, a, o, q
  <2>3. Follows("error") \subseteq Follows(a[1])
    BY <2>2, Order DEF Shows
  <2>4. Fits(<<a>>, "error")
    BY <2>2, <2>3, FitsFew
  <2>5. \A i \in 1..Len(<<a>>) : i = 1 /\ <<a>>[i] = a
    OBVIOUS
  <2>6. ProgramsOK' /\ CallInv'
    BY <1>2, <1>3, <1>7, <2>1, <2>2, <2>4, <2>5, ShowBegins
  <2>7. <<a>> \in Seq(Steps) /\ <<"handler">> \notin Range(<<a>>)
    BY <2>2, Single, Kinds
  <2>8. QED
    BY <1>2, <1>3, <1>4, <1>5, <2>1, <2>6, <2>7, WayStep
<1>10. QED
  BY <1>8, <1>9

(* The flushes of HandleFatal, and its handler. *)
LEMMA FlushSteps ==
  ASSUME NEW all \in Seq(Objects), NEW q,
         q = [i \in DOMAIN all |-> <<"flush", all[i]>>] \o <<<<"handler">>>>
  PROVE  /\ Fits(q, "fatal")
         /\ \A i \in 1..Len(q) : q[i][1] \in {"flush", "handler"}
         /\ \A o : o \in Range(all) => <<"flush", o>> \in Range(q)
<1> DEFINE a == [i \in DOMAIN all |-> <<"flush", all[i]>>]
           h == <<"handler">>
<1>1. Len(all) \in Nat /\ DOMAIN all = 1..Len(all) /\ \A i \in 1..Len(all) : all[i] \in Objects
  BY SeqHas
<1>2. /\ h \in Steps /\ h[1] = "handler"
      /\ \A o \in Objects : <<"flush", o>> \in Steps /\ <<"flush", o>>[1] = "flush"
  BY StepIs DEF OfObject
<1>3. a \in Seq(Steps) /\ Len(a) = Len(all)
      /\ \A i \in 1..Len(all) : a[i] = <<"flush", all[i]>>
  <2>1. \A i \in 1..Len(all) : <<"flush", all[i]>> \in Steps
    BY <1>1, <1>2
  <2>2. a = [i \in 1..Len(all) |-> <<"flush", all[i]>>]
    BY <1>1
  <2>3. a \in [1..Len(all) -> Steps]
    BY <2>1, <2>2
  <2>4. QED
    BY <1>1, <2>2, <2>3
<1>4. q = a \o <<h>>
  OBVIOUS
<1> HIDE DEF a, h
<1>5. <<h>> \in Seq(Steps) /\ Len(<<h>>) = 1 /\ <<h>>[1] = h
  BY <1>2, Few
<1>6. /\ q \in Seq(Steps) /\ Len(q) = Len(all) + 1
      /\ \A i \in 1..Len(all) : q[i] = <<"flush", all[i]>>
      /\ q[Len(all) + 1] = h
  <2> DEFINE z == <<h>>
  <2>1. z \in Seq(Steps) /\ Len(z) = 1 /\ z[1] = h
    BY <1>5
  <2> HIDE DEF z
  <2>2. /\ a \o z \in Seq(Steps) /\ Len(a \o z) = Len(a) + Len(z)
        /\ \A i \in 1..(Len(a) + Len(z)) :
             (a \o z)[i] = IF i <= Len(a) THEN a[i] ELSE z[i - Len(a)]
    BY <1>3, <2>1, ConcatProperties
  <2>3. q = a \o z
    BY <1>4 DEF z
  <2>4. q \in Seq(Steps) /\ Len(q) = Len(all) + 1
    BY <1>3, <2>1, <2>2, <2>3
  <2>5. ASSUME NEW i \in 1..Len(all) PROVE q[i] = <<"flush", all[i]>>
    <3>1. i \in 1..(Len(a) + Len(z)) /\ i <= Len(a)
      BY <1>1, <1>3, <2>1
    <3>2. q[i] = a[i]
      BY <2>2, <2>3, <3>1
    <3>3. QED
      BY <1>3, <3>2
  <2>6. q[Len(all) + 1] = h
    <3>1. Len(all) + 1 \in 1..(Len(a) + Len(z)) /\ ~(Len(all) + 1 <= Len(a))
          /\ (Len(all) + 1) - Len(a) = 1
      BY <1>1, <1>3, <2>1
    <3>2. QED
      BY <2>1, <2>2, <2>3, <3>1
  <2>7. QED
    BY <2>4, <2>5, <2>6
<1>7. \A i \in 1..Len(q) : i \in 1..Len(all) \/ i = Len(all) + 1
  BY <1>1, <1>6
<1>8. /\ \A i \in 1..Len(all) : q[i][1] = "flush"
      /\ q[Len(all) + 1][1] = "handler"
  BY <1>1, <1>2, <1>6
<1>9. \A i \in 1..Len(q) : q[i][1] \in {"flush", "handler"}
  BY <1>7, <1>8
<1>10. DOMAIN q = 1..Len(q)
  BY <1>6, SeqHas
<1>11. Ordered(q)
  <2>1. Follows("flush") = {"flush", "handler"}
    BY Order
  <2>2. ASSUME NEW i \in 1..Len(q), NEW j \in 1..Len(q), i < j PROVE q[i][1] = "flush"
    <3>1. i \in 1..Len(all)
      BY <1>1, <1>6, <2>2
    <3>2. QED
      BY <1>8, <3>1
  <2>3. QED
    BY <1>9, <1>10, <2>1, <2>2 DEF Ordered
<1>12. Fits(q, "fatal")
  BY <1>6, <1>11, Order DEF Fits
<1>13. ASSUME NEW o, o \in Range(all) PROVE <<"flush", o>> \in Range(q)
  <2>1. PICK i \in 1..Len(all) : all[i] = o
    BY <1>13, SeqHas
  <2>2. i \in 1..Len(q) /\ q[i] = <<"flush", o>>
    BY <1>1, <1>6, <2>1
  <2>3. QED
    BY <1>6, <2>2, SeqHas
<1>14. QED
  BY <1>9, <1>12, <1>13

(* All the channels there are, those to be deleted too. *)
LEMMA AllChannels ==
  ASSUME TypeOK, ToDelete \in Seq(Objects), NEW all,
         all = SetToSeq(Range(Channels) \ {0}) \o ToDelete
  PROVE  all \in Seq(Objects) /\ \A o \in Objects : o \in Registered => o \in Range(all)
<1> DEFINE S == Range(Channels) \ {0}
           s == SetToSeq(S)
<1>1. S \subseteq Objects /\ IsFiniteSet(S)
  <2>1. S \subseteq Objects
    BY Known
  <2>2. IsFiniteSet(Objects)
    BY ChannelsAssumption, FS_Interval DEF Objects
  <2>3. QED
    BY <2>1, <2>2, FS_Subset
<1> HIDE DEF S
<1>2. s \in Seq(S) /\ Len(s) = Cardinality(S) /\ \A x \in S : \E i \in 1..Cardinality(S) : s[i] = x
  BY <1>1, SetAsSeq
<1>e. all = s \o ToDelete
  BY DEF S
<1> HIDE DEF s
<1>3. s \in Seq(Objects) /\ \A x \in S : x \in Range(s)
  <2>1. s \in Seq(Objects)
    BY <1>1, <1>2
  <2>2. QED
    BY <1>2, <2>1, SeqHas
<1>4. all \in Seq(Objects) /\ Range(all) = Range(s) \cup Range(ToDelete)
  <2>1. s \in Seq(Objects) /\ ToDelete \in Seq(Objects)
    BY <1>3
  <2>2. Range(s \o ToDelete) = Range(s) \cup Range(ToDelete)
    BY <2>1, RangeConcatenation
  <2>3. s \o ToDelete \in Seq(Objects)
    BY <2>1, ConcatProperties
  <2>4. QED
    BY <1>e, <2>2, <2>3
<1>5. ASSUME NEW o \in Objects, o \in Registered PROVE o \in Range(all)
  <2>1. o # 0
    BY DEF Objects
  <2>2. QED
    BY <1>3, <1>4, <1>5, <2>1 DEF Registered, S
<1>6. QED
  BY <1>4, <1>5

(* Logger::HandleFatal takes on the flush of all the channels there are. *)
LEMMA HandleFatalKept ==
  ASSUME IndInv, NEW t \in Threads, HandleFatal(t)
  PROVE  Keeps(t)
<1>1. TypeInv /\ TypeOK /\ CallInv /\ BackendsInv /\ ClosedInv /\ ToDelete \in Seq(Objects)
  BY DEF IndInv, TypeInv
<1> DEFINE all == SetToSeq(Range(Channels) \ {0}) \o ToDelete
           q == [i \in DOMAIN all |-> <<"flush", all[i]>>] \o <<<<"handler">>>>
<1>2. /\ At(t, "fatal")
      /\ IF FatalHandling THEN Then(t, <<>>) /\ UNCHANGED FatalHandling
         ELSE FatalHandling' = TRUE /\ Then(t, q)
      /\ UNCHANGED <<registry, recent, state, call, history>>
  BY DEF HandleFatal
<1>3. program[t] # <<>> /\ program[t][1][1] = "fatal"
  BY <1>1, <1>2, First
<1>4. UNCHANGED <<Channels, ToDelete, nameOf, Enabled, Active, link, Backends, queued, dataLock,
                 guard, level, hits, logs, operations, closed, throttled, stray>>
  BY <1>2 DEF registry, state, call, history
<1>5. TypeOK'
  <2>1. FatalHandling' \in BOOLEAN
    BY <1>1, <1>2 DEF TypeOK
  <2>2. QED
    BY <1>1, <1>2, <1>4, <2>1, TypesKept
<1>6. "fatal" \notin Shows /\ "fatal" \notin Closing /\ \A x \in {"flush", "handler"} : x \notin Shows
  BY DEF Shows, Closing
<1>7. CASE FatalHandling
  <2>1. Then(t, <<>>) /\ Fits(<<>>, "fatal")
    BY <1>2, <1>7, Nothing DEF Fits, Ordered
  <2>2. ProgramsOK' /\ CallInv'
    BY <1>1, <1>3, <1>4, <1>6, <2>1, Nothing, OtherCalls
  <2>3. QED
    BY <1>2, <1>3, <1>4, <1>5, <2>1, <2>2, Nothing, WayStep
<1>8. CASE ~FatalHandling
  <2>1. Then(t, q)
    BY <1>2, <1>8
  <2>2. all \in Seq(Objects) /\ \A o \in Objects : o \in Registered => o \in Range(all)
    BY <1>1, AllChannels
  <2> HIDE DEF all
  <2>3. /\ Fits(q, "fatal") /\ \A i \in 1..Len(q) : q[i][1] \in {"flush", "handler"}
        /\ \A o : o \in Range(all) => <<"flush", o>> \in Range(q)
    BY <2>2, FlushSteps
  <2> HIDE DEF q
  <2>4. q \in Seq(Steps)
    BY <2>3 DEF Fits
  <2>5. ProgramsOK' /\ CallInv'
    BY <1>1, <1>3, <1>4, <1>6, <2>1, <2>3, OtherCalls
  <2>6. /\ \A u \in Threads \ {t} : program'[u] = program[u]
        /\ \A x : x \in Range(program[t]) => x = program[t][1] \/ x \in Range(program'[t])
        /\ \A x : x \in Range(q) => x \in Range(program'[t])
    BY <1>1, <1>3, <2>1, <2>4, Shift
  <2>7. \A x : program[t][1] # <<"clear", x>> /\ program[t][1] # <<"flush", x>>
    BY <1>3, Kinds
  <2>8. \A x \in Objects : /\ ToClear(t, x) => ToClear(t, x)'
                           /\ <<"flush", x>> \in Range(program[t]) =>
                                <<"flush", x>> \in Range(program'[t])
    BY <2>6, <2>7 DEF ToClear
  <2>9. None \notin Threads /\ \A x \in Objects : dataLock[x] # t
    BY <1>1, <1>3, ChannelsAssumption DEF BackendsInv, Storing
  <2>10. Registered' = Registered
    BY <1>4 DEF Registered
  <2>11. \A o \in Objects : o \in Registered' => <<"flush", o>> \in Range(program'[t])
    BY <2>2, <2>3, <2>6, <2>10
  <2>12. Effect(t)
    BY <1>4, <2>6, <2>8, <2>9, <2>10, <2>11 DEF Effect
  <2>13. Closes(t)
    BY <1>1, <1>3, <1>6, NotClosed
  <2>14. QED
    BY <1>1, <1>4, <1>5, <2>5, <2>12, <2>13 DEF Keeps
<1>9. QED
  BY <1>7, <1>8

(* Channel::Flush: nothing of this channel is queued after it. *)
LEMMA FlushKept ==
  ASSUME IndInv, NEW t \in Threads, Flush(t)
  PROVE  Keeps(t)
<1>1. TypeInv /\ TypeOK /\ CallInv /\ BackendsInv /\ ClosedInv /\ ToDelete \in Seq(Objects)
  BY DEF IndInv, TypeInv
<1> DEFINE o == On(t)
<1>2. /\ At(t, "flush") /\ (queued[o] = {} \/ (Backends[o] = {} /\ dataLock[o] = None))
      /\ Then(t, <<>>)
      /\ UNCHANGED <<registry, recent, FatalHandling, state, call, history>>
  BY DEF Flush
<1>3. program[t] # <<>> /\ program[t][1][1] = "flush" /\ o \in Objects /\ program[t][1] = <<"flush", o>>
  BY <1>1, <1>2, First, StepShape DEF OfObject
<1> HIDE DEF o
<1>4. UNCHANGED <<Channels, ToDelete, nameOf, Enabled, Active, link, Backends, queued, dataLock,
                 guard, level, hits, logs, operations, closed, throttled, stray>>
  BY <1>2 DEF registry, state, call, history
<1>5. TypeOK'
  BY <1>1, <1>2, <1>4, TypesKept DEF TypeOK
<1>6. "flush" \notin Shows /\ "flush" \notin Closing
  BY DEF Shows, Closing
<1>7. ProgramsOK' /\ CallInv'
  <2>1. Fits(<<>>, "flush")
    BY Nothing DEF Fits, Ordered
  <2>2. QED
    BY <1>1, <1>2, <1>3, <1>4, <1>6, <2>1, Nothing, OtherCalls
<1>8. None \notin Threads /\ \A x \in Objects : dataLock[x] # t
  BY <1>1, <1>3, ChannelsAssumption DEF BackendsInv, Storing
<1>9. queued[o] = {}
  <2>1. ASSUME Backends[o] = {}, dataLock[o] = None, queued[o] # {} PROVE FALSE
    <3>1. PICK u \in Threads : Cleared(u, o)
      BY <1>1, <1>3, <2>1 DEF BackendsInv
    <3>2. QED
      BY <1>8, <2>1, <3>1 DEF Cleared
  <2>2. QED
    BY <1>2, <2>1
<1>10. /\ \A u \in Threads \ {t} : program'[u] = program[u]
       /\ \A x : x \in Range(program[t]) => x = program[t][1] \/ x \in Range(program'[t])
       /\ \A x : x \in Range(program'[t]) => x \in Range(program[t])
  BY <1>1, <1>2, <1>3, Shift, Nothing
<1>11. ASSUME NEW x \in Objects
       PROVE  /\ ToClear(t, x) => ToClear(t, x)'
              /\ <<"flush", x>> \in Range(program[t]) =>
                   <<"flush", x>> \in Range(program'[t]) \/ queued'[x] = {}
  <2>1. <<"clear", x>> # program[t][1]
    BY <1>3, Kinds
  <2>2. <<"flush", x>> = program[t][1] => x = o
    BY <1>3, Kinds
  <2>3. QED
    BY <1>4, <1>9, <1>10, <2>1, <2>2 DEF ToClear
<1>12. Registered' = Registered
  BY <1>4 DEF Registered
<1>13. Effect(t)
  BY <1>4, <1>8, <1>10, <1>11, <1>12 DEF Effect
<1>14. Closes(t)
  BY <1>1, <1>3, <1>6, NotClosed
<1>15. QED
  BY <1>1, <1>4, <1>5, <1>7, <1>13, <1>14 DEF Keeps

(* Logger::HandleFatal: the handler has run. *)
LEMMA FatalHandlerKept ==
  ASSUME IndInv, NEW t \in Threads, FatalHandler(t)
  PROVE  Keeps(t)
<1>1. TypeInv /\ TypeOK /\ CallInv
  BY DEF IndInv, TypeInv
<1>2. /\ At(t, "handler") /\ FatalHandling' = FALSE /\ Then(t, <<>>)
      /\ UNCHANGED <<registry, recent, state, call, history>>
  BY DEF FatalHandler
<1>3. program[t] # <<>> /\ program[t][1][1] = "handler"
  BY <1>1, <1>2, First
<1>4. UNCHANGED <<Channels, ToDelete, nameOf, Enabled, Active, link, Backends, queued, dataLock,
                 guard, level, hits, logs, operations, closed, throttled, stray>>
  BY <1>2 DEF registry, state, call, history
<1>5. TypeOK'
  BY <1>1, <1>2, <1>4, TypesKept
<1>6. ProgramsOK' /\ CallInv'
  <2>1. Fits(<<>>, "handler") /\ "handler" \notin Shows
    BY Nothing DEF Fits, Ordered, Shows
  <2>2. QED
    BY <1>1, <1>2, <1>3, <1>4, <2>1, Nothing, OtherCalls
<1>7. QED
  BY <1>2, <1>3, <1>4, <1>5, <1>6, Nothing, WayStep

----------------------------------------------------------------------------
(* Calls, and the end                                                        *)

(* A call of Logger::Log begins. *)
LEMMA LogKept ==
  ASSUME IndInv, NEW t \in Threads, Log(t)
  PROVE  Keeps(t)
<1>1. TypeInv /\ TypeOK /\ CallInv /\ BackendsInv /\ ToDelete \in Seq(Objects)
  BY DEF IndInv, TypeInv
<1>2. PICK n \in Names, l \in Levels :
        /\ level' = [level EXCEPT ![t] = l]
        /\ program' = [program EXCEPT ![t] = <<<<"reap", FALSE>>, <<"find", n>>>>]
  BY DEF Log
<1>3. /\ Idle(t) /\ ~closed /\ logs < MaxLogs /\ logs' = logs + 1
      /\ hits' = [hits EXCEPT ![t] = [o \in Objects |-> 0]]
      /\ UNCHANGED <<registry, recent, FatalHandling, state, guard, operations, closed, throttled,
                     stray>>
  BY DEF Log
<1>4. UNCHANGED <<Channels, ToDelete, nameOf, Enabled, Active, link, Backends, queued, dataLock>>
  BY <1>3 DEF registry, state
<1>5. TypeOK'
  <2>1. Created' = Created
    BY <1>4 DEF Created
  <2>2. level' \in [Threads -> Levels]
    BY <1>1, <1>2 DEF TypeOK
  <2>3. logs' \in 0..MaxLogs
    <3>1. logs \in 0..MaxLogs /\ MaxLogs \in Nat
      BY <1>1, ChannelsAssumption DEF TypeOK
    <3>2. QED
      BY <1>3, <3>1
  <2>4. QED
    BY <1>1, <1>3, <1>4, <2>1, <2>2, <2>3 DEF TypeOK
<1> DEFINE a == <<"reap", FALSE>>
           b == <<"find", n>>
<1>6. a \in Steps /\ b \in Steps /\ a[1] = "reap" /\ b[1] = "find"
  BY StepIs
<1>7. program' = [program EXCEPT ![t] = <<a, b>>]
  BY <1>2
<1> HIDE DEF a, b
<1>8. Ordered(<<a, b>>) /\ <<a, b>> # <<>>
  <2>1. b[1] \in Follows(a[1]) /\ Follows("find") \subseteq Follows(a[1])
        /\ Follows("find") \subseteq Follows(b[1])
    <3>1. "reap" \in Work
      BY DEF Work
    <3>2. QED
      BY <1>6, <3>1, Order
  <2>2. Fits(<<a, b>>, "find")
    BY <1>6, <2>1, FitsFew
  <2>3. <<a, b>> # <<>>
    OBVIOUS
  <2>4. QED
    BY <2>2, <2>3 DEF Fits
<1>9. <<a, b>> \in Seq(Steps)
      /\ \A i \in 1..Len(<<a, b>>) : <<a, b>>[i][1] \notin Shows
                                     /\ <<a, b>>[i][1] \notin {"handler", "flush"}
  <2>1. \A x \in {a, b} : x[1] \notin Shows /\ x[1] \notin {"handler", "flush"}
    BY <1>6 DEF Shows
  <2>2. QED
    BY <1>6, <2>1, Pair
<1>10. ProgramsOK' /\ CallInv' /\ Effect(t)
  BY <1>1, <1>3, <1>4, <1>7, <1>8, <1>9, Begins
<1>11. Closes(t)
  BY <1>3 DEF Closes
<1>12. QED
  BY <1>1, <1>3, <1>4, <1>5, <1>10, <1>11 DEF Keeps

(* A call of one of the other operations begins. *)
LEMMA CallKept ==
  ASSUME IndInv, NEW t \in Threads, Call(t)
  PROVE  Keeps(t)
<1>1. TypeInv /\ TypeOK /\ CallInv /\ BackendsInv /\ ToDelete \in Seq(Objects)
  BY DEF IndInv, TypeInv
<1>2. /\ Idle(t) /\ ~closed /\ operations < MaxOperations /\ operations' = operations + 1
      /\ UNCHANGED <<registry, recent, FatalHandling, state, call, logs, closed, throttled, stray>>
  BY DEF Call
<1>3. PICK op \in Operations, n \in Names :
       \/ /\ op \in {"autodelete", "delete"}
          /\ program' = [program EXCEPT ![t] = <<<<op, n>>>>]
       \/ /\ Channels[n] # 0
          /\ \/ /\ op \in {"add", "unlink"}
                /\ program' = [program EXCEPT ![t] = <<<<op, Channels[n]>>>>]
             \/ /\ op = "remove"
                /\ program' = [program EXCEPT ![t] = <<<<"freeze", Channels[n]>>,
                                                       <<"clear", Channels[n]>>>>]
             \/ /\ op = "enabled"
                /\ \E b \in BOOLEAN :
                     program' = [program EXCEPT ![t] = <<<<op, Channels[n], b>>>>]
             \/ /\ op = "link"
                /\ \E to \in LinksTo(Created) :
                     program' = [program EXCEPT ![t] = <<<<op, Channels[n], to>>>>]
  BY DEF Call
<1>4. UNCHANGED <<Channels, ToDelete, nameOf, Enabled, Active, link, Backends, queued, dataLock,
                  guard, level, hits>>
  BY <1>2 DEF registry, state, call
<1>5. TypeOK'
  <2>1. Created' = Created
    BY <1>4 DEF Created
  <2>2. operations' \in 0..MaxOperations
    <3>1. operations \in 0..MaxOperations /\ MaxOperations \in Nat
      BY <1>1, ChannelsAssumption DEF TypeOK
    <3>2. QED
      BY <1>2, <3>1
  <2>3. QED
    BY <1>1, <1>2, <1>4, <2>1, <2>2 DEF TypeOK
<1>6. /\ Channels[n] # 0 => Channels[n] \in Objects
      /\ LinksTo(Created) \subseteq LinksTo(Objects)
  BY <1>1, Known DEF LinksTo
<1>7. \E a, b \in Steps : /\ a[1] \in Work /\ b[1] \in Work
                          /\ \/ program' = [program EXCEPT ![t] = <<a>>]
                             \/ program' = [program EXCEPT ![t] = <<a, b>>]
  <2>0. {"autodelete", "delete", "add", "unlink", "freeze", "clear", "enabled", "link"} \subseteq Work
    BY DEF Work
  <2>1. CASE op \in {"autodelete", "delete"} /\ program' = [program EXCEPT ![t] = <<<<op, n>>>>]
    <3>1. <<op, n>> \in Steps /\ <<op, n>>[1] = op
      BY <2>1, StepIs
    <3>2. QED
      BY <2>0, <2>1, <3>1
  <2>2. CASE Channels[n] # 0 /\ op \in {"add", "unlink"}
             /\ program' = [program EXCEPT ![t] = <<<<op, Channels[n]>>>>]
    <3>1. <<op, Channels[n]>> \in Steps /\ <<op, Channels[n]>>[1] = op
      BY <1>6, <2>2, StepIs DEF OfObject
    <3>2. QED
      BY <2>0, <2>2, <3>1
  <2>3. CASE Channels[n] # 0
             /\ program' = [program EXCEPT ![t] = <<<<"freeze", Channels[n]>>, <<"clear", Channels[n]>>>>]
    <3>1. /\ <<"freeze", Channels[n]>> \in Steps /\ <<"freeze", Channels[n]>>[1] = "freeze"
          /\ <<"clear", Channels[n]>> \in Steps /\ <<"clear", Channels[n]>>[1] = "clear"
      BY <1>6, <2>3, StepIs DEF OfObject
    <3>2. QED
      BY <2>0, <2>3, <3>1
  <2>4. ASSUME Channels[n] # 0, op = "enabled", NEW b \in BOOLEAN,
               program' = [program EXCEPT ![t] = <<<<op, Channels[n], b>>>>]
        PROVE  \E a \in Steps : a[1] \in Work /\ program' = [program EXCEPT ![t] = <<a>>]
    <3>1. <<op, Channels[n], b>> \in Steps /\ <<op, Channels[n], b>>[1] = op
      BY <1>6, <2>4, StepIs
    <3>2. QED
      BY <2>0, <2>4, <3>1
  <2>5. ASSUME Channels[n] # 0, op = "link", NEW to \in LinksTo(Created),
               program' = [program EXCEPT ![t] = <<<<op, Channels[n], to>>>>]
        PROVE  \E a \in Steps : a[1] \in Work /\ program' = [program EXCEPT ![t] = <<a>>]
    <3>1. <<op, Channels[n], to>> \in Steps /\ <<op, Channels[n], to>>[1] = op
      BY <1>6, <2>5, StepIs
    <3>2. QED
      BY <2>0, <2>5, <3>1
  <2>6. QED
    BY <1>3, <2>1, <2>2, <2>3, <2>4, <2>5
<1>8. PICK a, b \in Steps : /\ a[1] \in Work /\ b[1] \in Work
                            /\ \/ program' = [program EXCEPT ![t] = <<a>>]
                               \/ program' = [program EXCEPT ![t] = <<a, b>>]
  BY <1>7
<1>9. ASSUME NEW q \in Seq(Steps), \A i \in 1..Len(q) : q[i][1] \in Work, q # <<>>,
             program' = [program EXCEPT ![t] = q]
      PROVE  ProgramsOK' /\ CallInv' /\ Effect(t)
  <2>1. \A x \in Work : x \notin Shows /\ x \notin {"handler", "flush"} /\ x # "find"
    BY DEF Work, Shows
  <2>2. Ordered(q)
    <3>1. "reap" \in Work
      BY DEF Work
    <3>2. Fits(q, "reap")
      BY <1>9, <3>1, FitsWork
    <3>3. QED
      BY <3>2 DEF Fits
  <2>3. \A i \in 1..Len(q) : q[i][1] \notin Shows /\ q[i][1] \notin {"handler", "flush"}
                             /\ q[i][1] # "find"
    BY <1>9, <2>1
  <2>4. QED
    BY <1>1, <1>2, <1>4, <1>9, <2>2, <2>3, Begins
<1>10. ProgramsOK' /\ CallInv' /\ Effect(t)
  <2>1. CASE program' = [program EXCEPT ![t] = <<a>>]
    <3>1. <<a>> \in Seq(Steps) /\ (\A i \in 1..Len(<<a>>) : <<a>>[i][1] \in Work) /\ <<a>> # <<>>
      BY <1>8, Single
    <3>2. QED
      BY <1>9, <2>1, <3>1
  <2>2. CASE program' = [program EXCEPT ![t] = <<a, b>>]
    <3>1. <<a, b>> \in Seq(Steps) /\ (\A i \in 1..Len(<<a, b>>) : <<a, b>>[i][1] \in Work)
          /\ <<a, b>> # <<>>
      BY <1>8, Pair
    <3>2. QED
      BY <1>9, <2>2, <3>1
  <2>3. QED
    BY <1>8, <2>1, <2>2
<1>11. Closes(t)
  BY <1>2 DEF Closes
<1>12. QED
  BY <1>1, <1>2, <1>4, <1>5, <1>10, <1>11 DEF Keeps

(* The program of DeleteAllChannels. *)
LEMMA ClosingSteps ==
  ASSUME NEW all \in Seq(Objects), NEW each, each = <<"unlink", "freeze", "clear">>, NEW q,
         q = <<<<"reap", TRUE>>>> \o [i \in 1..(3 * Len(all)) |->
                                      <<each[((i - 1) % 3) + 1], all[((i - 1) \div 3) + 1]>>]
  PROVE  /\ q \in Seq(Steps) /\ q # <<>>
         /\ \A i \in 1..Len(q) : q[i][1] \in {"reap", "unlink", "freeze", "clear"}
         /\ <<"reap", TRUE>> \in Range(q)
         /\ \A o \in Range(all) : <<"clear", o>> \in Range(q)
<1> DEFINE n == Len(all)
           s(i) == <<each[((i - 1) % 3) + 1], all[((i - 1) \div 3) + 1]>>
           a == [i \in 1..(3 * n) |-> s(i)]
           f == <<"reap", TRUE>>
           d == <<f>>
<1>1. n \in Nat /\ DOMAIN all = 1..n /\ \A i \in 1..n : all[i] \in Objects
  BY SeqHas
<1>2. f \in Steps /\ f[1] = "reap"
  BY StepIs
<1>3. d \in Seq(Steps) /\ Len(d) = 1 /\ d[1] = f
  BY <1>2, Few
<1>4. \A i \in 1..3 : each[i] \in {"unlink", "freeze", "clear"}
  BY DEF Steps
<1>5. each[3] = "clear"
  OBVIOUS
<1>q. q = d \o a
  OBVIOUS
<1> HIDE DEF n, d, f
<1>6. ASSUME NEW i \in 1..(3 * n)
      PROVE  ((i - 1) % 3) + 1 \in 1..3 /\ ((i - 1) \div 3) + 1 \in 1..n
  BY <1>1
<1>7. ASSUME NEW i \in 1..(3 * n)
      PROVE  s(i) \in Steps /\ s(i)[1] \in {"unlink", "freeze", "clear"}
  <2>1. each[((i - 1) % 3) + 1] \in {"unlink", "freeze", "clear"} /\ all[((i - 1) \div 3) + 1] \in Objects
    BY <1>1, <1>4, <1>6
  <2>2. \A k \in {"unlink", "freeze", "clear"}, o \in Objects : <<k, o>> \in Steps /\ <<k, o>>[1] = k
    BY StepIs DEF OfObject
  <2>3. QED
    BY <2>1, <2>2
<1>8. a \in Seq(Steps) /\ Len(a) = 3 * n /\ \A i \in 1..(3 * n) : a[i] = s(i)
  <2>1. 3 * n \in Nat
    BY <1>1
  <2>2. a \in [1..(3 * n) -> Steps]
    BY <1>7
  <2>3. \A i \in 1..(3 * n) : a[i] = s(i)
    OBVIOUS
  <2> DEFINE m == 3 * n
  <2> HIDE DEF a, s, m
  <2>4. m \in Nat /\ a \in [1..m -> Steps]
    BY <2>1, <2>2 DEF m
  <2>5. a \in Seq(Steps) /\ Len(a) = m
    BY <2>4
  <2>6. QED
    BY <2>3, <2>5 DEF m
<1>9. ASSUME NEW k \in 1..n PROVE 3 * k \in 1..(3 * n) /\ s(3 * k) = <<"clear", all[k]>>
  <2>1. 3 * k \in 1..(3 * n) /\ ((3 * k - 1) % 3) + 1 = 3 /\ ((3 * k - 1) \div 3) + 1 = k
    BY <1>1
  <2>2. QED
    BY <1>5, <2>1
<1> HIDE DEF a, s
<1>10. /\ q \in Seq(Steps) /\ Len(q) = 1 + 3 * n
       /\ q[1] = f /\ 1 \in 1..Len(q)
       /\ \A i \in 1..(3 * n) : i + 1 \in 1..Len(q) /\ q[i + 1] = s(i)
  <2> DEFINE m == 3 * n
  <2>1. m \in Nat
    BY <1>1
  <2>2. a \in Seq(Steps) /\ Len(a) = m /\ \A i \in 1..m : a[i] = s(i)
    BY <1>8
  <2> HIDE DEF m
  <2>3. /\ q \in Seq(Steps) /\ Len(q) = 1 + m
        /\ \A i \in 1..(1 + m) : q[i] = IF i <= 1 THEN d[i] ELSE a[i - 1]
    <3>1. /\ d \o a \in Seq(Steps) /\ Len(d \o a) = Len(d) + Len(a)
          /\ \A i \in 1..(Len(d) + Len(a)) : (d \o a)[i] = IF i <= Len(d) THEN d[i] ELSE a[i - Len(d)]
      BY <1>3, <2>2, ConcatProperties
    <3>2. Len(d) = 1 /\ Len(a) = m
      BY <1>3, <2>2
    <3>3. QED
      BY <1>q, <3>1, <3>2
  <2>4. 1 \in 1..Len(q) /\ q[1] = f
    <3>1. 1 \in 1..(1 + m) /\ 1 <= 1
      BY <2>1
    <3>2. QED
      BY <1>3, <2>3, <3>1
  <2>5. ASSUME NEW i \in 1..m PROVE i + 1 \in 1..Len(q) /\ q[i + 1] = s(i)
    <3>1. i + 1 \in 1..(1 + m) /\ ~(i + 1 <= 1) /\ (i + 1) - 1 = i
      BY <2>1
    <3>2. QED
      BY <2>2, <2>3, <3>1
  <2>6. QED
    BY <2>3, <2>4, <2>5 DEF m
<1>13. \A i \in 1..Len(q) : i = 1 \/ (i - 1 \in 1..(3 * n) /\ (i - 1) + 1 = i)
  BY <1>1, <1>10
<1>14. ASSUME NEW i \in 1..Len(q) PROVE q[i][1] \in {"reap", "unlink", "freeze", "clear"}
  <2>1. CASE i = 1
    BY <1>2, <1>10, <2>1
  <2>2. CASE i # 1
    <3>1. q[i] = s(i - 1) /\ i - 1 \in 1..(3 * n)
      BY <1>10, <1>13, <2>2
    <3>2. QED
      BY <1>7, <3>1
  <2>3. QED
    BY <2>1, <2>2
<1>m. q \in Seq(Steps)
  BY <1>10
<1>r. (\A x : x \in Range(q) <=> \E i \in 1..Len(q) : q[i] = x) /\ (q = <<>> <=> Len(q) = 0)
  BY <1>m, SeqHas
<1>15. f \in Range(q) /\ q # <<>>
  <2>1. f \in Range(q)
    BY <1>10, <1>r
  <2>2. Len(q) # 0
    BY <1>1, <1>10
  <2>3. QED
    BY <1>r, <2>1, <2>2
<1>16. ASSUME NEW o \in Range(all) PROVE <<"clear", o>> \in Range(q)
  <2>1. PICK k \in 1..n : all[k] = o
    BY SeqHas DEF n
  <2>2. 3 * k + 1 \in 1..Len(q) /\ q[3 * k + 1] = <<"clear", o>>
    BY <1>9, <1>10, <2>1
  <2>3. QED
    BY <1>r, <2>2
<1>17. QED
  BY <1>10, <1>14, <1>15, <1>16 DEF f

(* Logger::DeleteAllChannels begins: whatever is registered is to be cleared. *)
LEMMA DeleteAllKept ==
  ASSUME IndInv, NEW t \in Threads, DeleteAllChannels(t)
  PROVE  IndInv'
<1>1. TypeInv /\ TypeOK /\ CallInv /\ BackendsInv /\ FatalInv /\ ToDelete \in Seq(Objects)
  BY DEF IndInv, TypeInv
<1> DEFINE S == Range(Channels) \ {0}
           all == SetToSeq(S)
           each == <<"unlink", "freeze", "clear">>
           q == <<<<"reap", TRUE>>>> \o [i \in 1..(3 * Len(all)) |->
                                         <<each[((i - 1) % 3) + 1], all[((i - 1) \div 3) + 1]>>]
<1>2. /\ (\A u \in Threads : Idle(u)) /\ ~closed /\ closed' = TRUE
      /\ program' = [program EXCEPT ![t] = q]
      /\ UNCHANGED <<registry, recent, FatalHandling, state, call, logs, operations, throttled,
                     stray>>
  BY DEF DeleteAllChannels
<1>3. UNCHANGED <<Channels, ToDelete, nameOf, Enabled, Active, link, Backends, queued, dataLock,
                 guard, level, hits>>
  BY <1>2 DEF registry, state, call
<1>4. S \subseteq Objects /\ IsFiniteSet(S)
  <2>1. S \subseteq Objects
    BY <1>1, Known
  <2>2. IsFiniteSet(Objects)
    BY ChannelsAssumption, FS_Interval DEF Objects
  <2>3. QED
    BY <2>1, <2>2, FS_Subset
<1>s. S = Range(Channels) \ {0}
  OBVIOUS
<1> HIDE DEF S
<1>5. all \in Seq(Objects) /\ S \subseteq Range(all)
  <2>1. all \in Seq(S) /\ Len(all) = Cardinality(S) /\ \A x \in S : \E i \in 1..Cardinality(S) : all[i] = x
    BY <1>4, SetAsSeq
  <2> HIDE DEF all
  <2>2. all \in Seq(Objects)
    BY <1>4, <2>1
  <2>3. QED
    BY <2>1, <2>2, SeqHas
<1> HIDE DEF all
<1>6. /\ q \in Seq(Steps) /\ q # <<>>
      /\ \A i \in 1..Len(q) : q[i][1] \in {"reap", "unlink", "freeze", "clear"}
      /\ <<"reap", TRUE>> \in Range(q)
      /\ \A o \in Range(all) : <<"clear", o>> \in Range(q)
  BY <1>5, ClosingSteps
<1> HIDE DEF q, each
<1>7. {"reap", "unlink", "freeze", "clear"} \subseteq Work \cap Closing
      /\ \A x \in {"reap", "unlink", "freeze", "clear"} :
           x \notin Shows /\ x \notin {"handler", "flush"} /\ x # "find"
  BY DEF Work, Closing, Shows
<1>8. Ordered(q)
  <2>1. Fits(q, "reap")
    BY <1>6, <1>7, FitsWork
  <2>2. QED
    BY <2>1 DEF Fits
<1>9. ProgramsOK' /\ CallInv' /\ Effect(t)
  <2>1. \A i \in 1..Len(q) : q[i][1] \notin Shows /\ q[i][1] \notin {"handler", "flush"}
                             /\ q[i][1] # "find"
    BY <1>6, <1>7
  <2>2. Idle(t) /\ program' = [program EXCEPT ![t] = q] /\ hits' = hits
        /\ UNCHANGED <<Channels, ToDelete, Backends, queued, dataLock, link, stray, guard>>
    BY <1>2, <1>3
  <2>3. QED
    BY <1>1, <1>6, <1>8, <2>1, <2>2, Begins
<1>10. TypeOK'
  <2>1. Created' = Created
    BY <1>3 DEF Created
  <2>2. QED
    BY <1>1, <1>2, <1>3, <2>1 DEF TypeOK
<1>11. TypeInv'
  BY <1>1, <1>3, <1>9, <1>10 DEF TypeInv
<1>12. BackendsInv'
  BY <1>1, <1>9, EffectOnBackends
<1>13. FatalInv'
  BY <1>1, <1>9, <1>12, EffectOnFatal
<1>14. program'[t] = q /\ \A u \in Threads \ {t} : program'[u] = <<>>
  <2>1. program \in [Threads -> Seq(Steps)]
    BY <1>1 DEF TypeInv, ProgramsOK
  <2>2. QED
    BY <1>2, <2>1 DEF Idle
<1>15. ClosedInv'
  <2>1. ASSUME NEW u \in Threads PROVE \A i \in DOMAIN program'[u] : program'[u][i][1] \in Closing
    <3>1. CASE u = t
      <4>1. DOMAIN q = 1..Len(q)
        BY <1>6, SeqHas
      <4>2. \A i \in 1..Len(q) : q[i][1] \in Closing
        BY <1>6, <1>7
      <4>3. QED
        BY <1>14, <3>1, <4>1, <4>2
    <3>2. CASE u # t
      BY <1>14, <3>2
    <3>3. QED
      BY <3>1, <3>2
  <2>2. ASSUME NEW o \in Range(Channels') \ {0} PROVE <<"clear", o>> \in Range(program'[t])
    BY <1>3, <1>5, <1>6, <1>14, <1>s
  <2>3. <<"reap", TRUE>> \in Range(program'[t])
    BY <1>6, <1>14
  <2>4. QED
    BY <2>1, <2>2, <2>3 DEF ClosedInv, ToClear
<1>16. QED
  BY <1>9, <1>11, <1>12, <1>13, <1>15 DEF IndInv

(* Written records do no harm, nor does time. *)
LEMMA RestKept ==
  ASSUME IndInv,
         UNCHANGED <<Channels, ToDelete, nameOf, FatalHandling, Enabled, Active, link, Backends,
                     dataLock, program, guard, level, hits, logs, operations, closed, throttled,
                     stray>>,
         recent' \in BOOLEAN, queued' \in [Objects -> SUBSET Threads],
         \A o \in Objects : queued'[o] \subseteq queued[o]
  PROVE  IndInv'
<1>1. TypeInv /\ TypeOK /\ CallInv /\ BackendsInv /\ FatalInv /\ ClosedInv /\ ProgramsOK
  BY DEF IndInv, TypeInv
<1>3. UNCHANGED <<Channels, ToDelete, nameOf, FatalHandling, Enabled, Active, link,
                 Backends, dataLock, program, guard, level, hits, logs, operations, closed,
                 throttled, stray>>
  OBVIOUS
<1>4. /\ queued' \in [Objects -> SUBSET Threads] /\ recent' \in BOOLEAN
      /\ \A o \in Objects : queued'[o] \subseteq queued[o]
  OBVIOUS
<1>5. TypeInv'
  <2>1. Created' = Created
    BY <1>3 DEF Created
  <2>2. TypeOK'
    BY <1>1, <1>3, <1>4, <2>1 DEF TypeOK
  <2>3. ProgramsOK'
    BY <1>1, <1>3 DEF ProgramsOK
  <2>4. QED
    BY <1>1, <1>3, <2>2, <2>3 DEF TypeInv
<1>6. CallInv'
  BY <1>1, <1>3 DEF CallInv
<1>7. /\ \A u, o : /\ ToClear(u, o)' <=> ToClear(u, o)
                   /\ Cleared(u, o)' <=> Cleared(u, o)
      /\ Registered' = Registered
  BY <1>3 DEF ToClear, Cleared, Registered
<1>8. BackendsInv'
  <2>1. ASSUME NEW o \in Objects
        PROVE  /\ dataLock'[o] # None =>
                    LET p == program'[dataLock'[o]] IN p # <<>> /\ p[1][1] = "store" /\ p[1][2] = o
               /\ Backends'[o] # {} =>
                    o \in Registered' \/ o \in stray' \/ \E u \in Threads : ToClear(u, o)'
               /\ Backends'[o] = {} /\ queued'[o] # {} => \E u \in Threads : Cleared(u, o)'
    <3>1. queued'[o] # {} => queued[o] # {}
      BY <1>4
    <3>2. QED
      BY <1>1, <1>3, <1>7, <3>1 DEF BackendsInv, Storing
  <2>2. QED
    BY <2>1 DEF BackendsInv, Storing
<1>9. FatalInv'
  <2>1. ASSUME NEW u \in Threads, NEW o \in Objects,
               u \in queued'[o], <<"handler">> \in Range(program'[u])
        PROVE  \/ <<"flush", o>> \in Range(program'[u])
               \/ o \in stray'
               \/ \E v \in Threads \ {u} : ToClear(v, o)' \/ Cleared(v, o)'
    BY <1>1, <1>3, <1>4, <1>7, <2>1 DEF FatalInv
  <2>2. QED
    BY <2>1 DEF FatalInv
<1>10. ClosedInv'
  BY <1>1, <1>3 DEF ClosedInv, ToClear
<1>11. QED
  BY <1>5, <1>6, <1>8, <1>9, <1>10 DEF IndInv

(* The thread of a backend writes what is queued. *)
LEMMA WriteKept ==
  ASSUME IndInv, NEW w \in Objects, Write(w)
  PROVE  IndInv'
<1>1. TypeOK
  BY DEF IndInv, TypeInv
<1>2. PICK t \in queued[w] : queued' = [queued EXCEPT ![w] = queued[w] \ {t}]
  BY DEF Write
<1>3. UNCHANGED <<Channels, ToDelete, nameOf, recent, FatalHandling, Enabled, Active, link,
                 Backends, dataLock, program, guard, level, hits, logs, operations, closed,
                 throttled, stray>>
  BY DEF Write, registry, call, history
<1>4. /\ queued' \in [Objects -> SUBSET Threads] /\ recent' \in BOOLEAN
      /\ \A o \in Objects : queued'[o] \subseteq queued[o]
  BY <1>1, <1>2, <1>3 DEF TypeOK
<1>5. QED
  BY <1>3, <1>4, RestKept

(* What a thread with nothing ahead may begin. *)
LEMMA IdleKept ==
  ASSUME IndInv, TimePasses \/ UNCHANGED vars
  PROVE  IndInv'
<1>1. TypeOK
  BY DEF IndInv, TypeInv
<1>2. /\ UNCHANGED <<Channels, ToDelete, nameOf, FatalHandling, Enabled, Active, link,
                     Backends, queued, dataLock, program, guard, level, hits, logs, operations,
                     closed, throttled, stray>>
      /\ recent' = recent \/ recent' = FALSE
  BY DEF TimePasses, vars, registry, state, call, history
<1>3. /\ queued' \in [Objects -> SUBSET Threads] /\ recent' \in BOOLEAN
      /\ \A o \in Objects : queued'[o] \subseteq queued[o]
  BY <1>1, <1>2 DEF TypeOK
<1>4. QED
  BY <1>2, <1>3, RestKept

(* Every step of an operation keeps the invariant. *)
LEMMA StepKept ==
  ASSUME IndInv, NEW t \in Threads, Step(t)
  PROVE  IndInv'
<1>1. Keeps(t)
  BY UpdateActiveKept, SetEnabledKept, LinksKept, AddBackendKept, FreezeKept, ClearKept,
     AutodeleteKept, DeleteChannelKept, DoAutodeleteKept, StampKept, TakeNextKept,
     DisplayKept, RejectKept, FollowKept, DisplayLinkedKept, OutputKept,
     WithholdKept, FindKept, DisplayErrorKept, HandleFatalKept, FlushKept, FatalHandlerKept
  DEF Step
<1>2. QED
  BY <1>1, Kept

(* Every step of the system does. *)
LEMMA NextKept ==
  ASSUME IndInv, [Next]_vars
  PROVE  IndInv'
<1>1. ASSUME NEW t \in Threads, Step(t) PROVE IndInv'
  BY <1>1, StepKept
<1>2. ASSUME NEW t \in Threads, Log(t) PROVE IndInv'
  BY <1>2, LogKept, Kept
<1>3. ASSUME NEW t \in Threads, Call(t) PROVE IndInv'
  BY <1>3, CallKept, Kept
<1>4. ASSUME NEW t \in Threads, DeleteAllChannels(t) PROVE IndInv'
  BY <1>4, DeleteAllKept
<1>5. ASSUME NEW o \in Objects, Write(o) PROVE IndInv'
  BY <1>5, WriteKept
<1>6. CASE TimePasses \/ Over \/ UNCHANGED vars
  BY <1>6, IdleKept DEF Over
<1>7. QED
  BY <1>1, <1>2, <1>3, <1>4, <1>5, <1>6 DEF Next

----------------------------------------------------------------------------
(* In the beginning                                                          *)

(* The channels there are in the beginning, one for each name. *)
LEMMA InitNames ==
  ASSUME Init
  PROVE  /\ nameOf \in Seq(Names) /\ Len(nameOf) <= MaxChannels
         /\ Created \subseteq Objects /\ Created = 1..Len(nameOf) /\ Len(nameOf) \in Nat
         /\ Channels \in [Names -> Created]
         /\ \A o \in Created : o \in Range(Channels)
<1> DEFINE c == Cardinality(Names)
<1>1. nameOf = SetToSeq(Names)
      /\ Channels = [n \in Names |-> CHOOSE o \in Created : nameOf[o] = n]
  BY DEF Init
<1>2. /\ nameOf \in Seq(Names) /\ Len(nameOf) = c /\ c \in Nat
      /\ \A n \in Names : \E i \in 1..c : nameOf[i] = n
      /\ IsInjective(nameOf)
  <2>1. IsFiniteSet(Names)
    BY ChannelsAssumption
  <2>2. QED
    BY <1>1, <2>1, SetAsSeq
<1>3. c <= MaxChannels
  <2>1. MaxOperations \in Nat /\ MaxChannels \in Nat /\ c + MaxOperations <= MaxChannels
    BY ChannelsAssumption
  <2>2. QED
    BY <1>2, <2>1
<1> HIDE DEF c
<1>4. Created = 1..c /\ DOMAIN nameOf = 1..c
  BY <1>2, SeqHas DEF Created
<1>5. Created \subseteq Objects
  BY <1>2, <1>3, <1>4, ChannelsAssumption DEF Objects
<1>6. Channels \in [Names -> Created]
  <2>1. ASSUME NEW n \in Names PROVE (CHOOSE o \in Created : nameOf[o] = n) \in Created
    <3>1. \E o \in Created : nameOf[o] = n
      BY <1>2, <1>4
    <3>2. QED
      BY <3>1
  <2>2. QED
    BY <1>1, <2>1
<1>7. ASSUME NEW o \in Created PROVE o \in Range(Channels)
  <2> DEFINE n == nameOf[o]
  <2>1. n \in Names
    BY <1>2, <1>4, SeqHas
  <2>2. \A x \in Created : nameOf[x] = n => x = o
    BY <1>2, <1>4 DEF IsInjective
  <2>3. Channels[n] = o
    <3>1. Channels[n] = CHOOSE x \in Created : nameOf[x] = n
      BY <1>1, <2>1
    <3>2. QED
      BY <2>2, <3>1
  <2>4. DOMAIN Channels = Names
    BY <1>1
  <2>5. QED
    BY <2>1, <2>3, <2>4 DEF Range
<1>8. QED
  BY <1>2, <1>3, <1>4, <1>5, <1>6, <1>7

(* The invariant holds in the beginning. *)
LEMMA InitHolds ==
  ASSUME Init
  PROVE  IndInv
<1>1. /\ nameOf \in Seq(Names) /\ Len(nameOf) <= MaxChannels
      /\ Created \subseteq Objects /\ Created = 1..Len(nameOf) /\ Len(nameOf) \in Nat
      /\ Channels \in [Names -> Created]
      /\ \A o \in Created : o \in Range(Channels)
  BY InitNames
<1>2. /\ ToDelete = <<>> /\ recent = FALSE /\ FatalHandling = FALSE
      /\ Enabled = [o \in Objects |-> TRUE]
      /\ link = [o \in Objects |-> IF o \in Created THEN <<"id", nameOf[(o % Len(nameOf)) + 1]>>
                                                   ELSE NoLink]
      /\ Active = [o \in Objects |-> o \in Created]
      /\ Backends = [o \in Objects |-> IF o \in Created THEN {"new"} ELSE {}]
      /\ queued = [o \in Objects |-> {}]
      /\ dataLock = [o \in Objects |-> None]
      /\ program = [t \in Threads |-> <<>>]
      /\ guard = [t \in Threads |-> EmptyGuard]
      /\ level = [t \in Threads |-> "info"]
      /\ hits = [t \in Threads |-> [o \in Objects |-> 0]]
      /\ logs = 0 /\ operations = 0 /\ closed = FALSE /\ throttled = FALSE /\ stray = {}
  BY DEF Init
<1>3. link \in [Objects -> LinksTo(Objects) \cup {NoLink}]
  <2>1. ASSUME NEW o \in Created PROVE <<"id", nameOf[(o % Len(nameOf)) + 1]>> \in LinksTo(Objects)
    <3>1. (o % Len(nameOf)) + 1 \in 1..Len(nameOf)
      <4> DEFINE n == Len(nameOf)
      <4>1. o \in 1..n /\ n \in Nat
        BY <1>1
      <4> HIDE DEF n
      <4>2. o % n \in 0..(n - 1)
        BY <4>1
      <4>3. (o % n) + 1 \in 1..n
        BY <4>1, <4>2
      <4>4. QED
        BY <4>3 DEF n
    <3>2. nameOf[(o % Len(nameOf)) + 1] \in Names
      BY <1>1, <3>1, SeqHas
    <3>3. QED
      BY <3>2 DEF LinksTo
  <2>2. QED
    BY <1>2, <2>1
<1>4. TypeOK /\ ToDelete \in Seq(Objects)
  <2>1. Range(ToDelete) \subseteq Created
    BY <1>2 DEF Range
  <2>2. {MaxLogs, MaxOperations} \subseteq Nat
    BY ChannelsAssumption
  <2>3. logs \in 0..MaxLogs /\ operations \in 0..MaxOperations
    BY <1>2, <2>2
  <2>4. level \in [Threads -> Levels]
    BY <1>2 DEF Levels
  <2>5. Backends \in [Objects -> SUBSET {"new", "live", "frozen"}]
    BY <1>2
  <2>6. Active \in [Objects -> BOOLEAN] /\ Enabled \in [Objects -> BOOLEAN]
    BY <1>2
  <2>7. Channels \in [Names -> {0} \cup Created]
    BY <1>1
  <2>8. queued \in [Objects -> SUBSET Threads] /\ dataLock \in [Objects -> Threads \cup {None}]
    BY <1>2
  <2>9. {recent, FatalHandling, closed, throttled} \subseteq BOOLEAN /\ stray \subseteq Objects
    BY <1>2
  <2>10. ToDelete \in Seq(Objects)
    BY <1>2
  <2>11. nameOf \in Seq(Names) /\ Len(nameOf) <= MaxChannels
    BY <1>1
  <2>12. QED
    BY <1>3, <2>1, <2>3, <2>4, <2>5, <2>6, <2>7, <2>8, <2>9, <2>10, <2>11 DEF TypeOK
<1>5. EmptyGuard \in Guards /\ Stack(EmptyGuard) = <<>>
  BY DEF EmptyGuard, Guards, Stack
<1>6. ProgramsOK
  <2>1. Ordered(<<>>)
    BY DEF Ordered
  <2>2. QED
    BY <1>2, <1>5, <2>1 DEF ProgramsOK
<1>7. CallInv
  <2>1. Unwinds(<<>>, <<>>)
    <3>1. (\A i \in 2..Len(<<>>) : FALSE) /\ <<>> \in Seq(Steps)
      OBVIOUS
    <3>2. QED
      BY <3>1, NotShown
  <2>2. ASSUME NEW t \in Threads PROVE HitsInv(<<>>, <<>>, hits[t])
    <3>1. \A o \in Objects : hits[t][o] = 0
      BY <1>2
    <3>2. DOMAIN <<>> = {}
      OBVIOUS
    <3>3. QED
      BY <3>1, <3>2 DEF HitsInv, IsInjective
  <2>3. QED
    BY <1>2, <1>5, <2>1, <2>2 DEF CallInv
<1>8. BackendsInv
  BY <1>1, <1>2 DEF BackendsInv, Registered
<1>9. FatalInv /\ ClosedInv
  BY <1>2 DEF FatalInv, ClosedInv
<1>10. QED
  BY <1>4, <1>6, <1>7, <1>8, <1>9 DEF IndInv, TypeInv

----------------------------------------------------------------------------
(* The theorems                                                              *)

(* What is ahead of a thread, which channels it has entered and which it has *)
(* written to, and who is to remove the backends of a channel the Logger has *)
(* let go, stay in order through every operation (Logger.cpp, Channel.cpp).  *)
THEOREM IndInvHolds == Spec => []IndInv
<1>1. Init => IndInv
  BY InitHolds
<1>2. IndInv /\ [Next]_vars => IndInv'
  BY NextKept
<1>3. QED
  BY <1>1, <1>2, PTL DEF Spec

(* The registry, the channels and the queue of those to be deleted keep to   *)
(* their types: Logger::Autodelete queues channels that exist only, and      *)
(* GetChannel never runs out of numbers for them within its bound.           *)
THEOREM TypesHold == Spec => []TypeOK
<1>1. IndInv => TypeOK
  BY DEF IndInv, TypeInv
<1>2. QED
  BY <1>1, IndInvHolds, PTL

(* Channel::Display writes a record to a channel's backends at most once,    *)
(* whatever links there are, and DisplayReentryGuard leaves the thread's     *)
(* stack empty, for any SMALL_CAPACITY.                                      *)
THEOREM WrittenOnceHolds == Spec => []WrittenOnce
<1>1. ASSUME IndInv PROVE WrittenOnce
  <2>1. ASSUME NEW t \in Threads PROVE \A o \in Objects : hits[t][o] <= 1
    BY <1>1 DEF IndInv, CallInv, HitsInv
  <2>2. ASSUME NEW t \in Threads, Idle(t) PROVE Stack(guard[t]) = <<>>
    <3>1. guard[t] \in Guards
      BY <1>1 DEF IndInv, TypeInv, ProgramsOK
    <3>2. Stack(guard[t]) \in Seq(Objects) /\ <<>> \in Seq(Steps)
      BY <3>1, PushPop
    <3>3. Unwinds(<<>>, Stack(guard[t]))
      BY <1>1, <2>2 DEF IndInv, CallInv, Idle
    <3>4. QED
      BY <3>2, <3>3, EmptyStack
  <2>3. QED
    BY <2>1, <2>2 DEF WrittenOnce
<1>2. QED
  BY <1>1, IndInvHolds, PTL

(* Logger::HandleFatal: when the fatal handler runs, nothing its thread has  *)
(* logged is queued anywhere, but where another thread is removing the       *)
(* backends, or they were added to a channel that had been deleted.          *)
THEOREM FatalFlushedHolds == Spec => []FatalFlushed
<1>1. ASSUME IndInv PROVE FatalFlushed
  <2> SUFFICES ASSUME NEW t \in Threads, NEW o \in Objects, At(t, "handler"), t \in queued[o],
                      o \notin stray
               PROVE  \E u \in Threads \ {t} : \E i \in DOMAIN program[u] :
                        program[u][i] \in {<<"freeze", o>>, <<"clear", o>>,
                                           <<"store", o, link[o] # NoLink>>}
    BY DEF FatalFlushed
  <2>1. TypeInv /\ FatalInv
    BY <1>1 DEF IndInv
  <2> DEFINE p == program[t]
  <2>2. p \in Seq(Steps) /\ Ordered(p) /\ Len(p) >= 1 /\ p[1] \in Steps /\ p[1][1] = "handler"
    BY <2>1, First DEF TypeInv, ProgramsOK
  <2>3. p[1] = <<"handler">>
    BY <2>2 DEF Steps, OfObject
  <2> HIDE DEF p
  <2>4. Len(p) \in Nat /\ DOMAIN p = 1..Len(p) /\ (\A x : x \in Range(p) <=> \E i \in 1..Len(p) : p[i] = x)
    BY <2>2, SeqHas
  <2>5. 1 \in 1..Len(p) /\ <<"handler">> \in Range(p)
    BY <2>2, <2>3, <2>4
  <2>6. 1 = Len(p)
    BY <2>2, <2>5, HandlerOnly
  <2>7. <<"flush", o>> \notin Range(p)
    <3>1. p[1] # <<"flush", o>>
      BY <2>2, Kinds
    <3>2. \A i \in 1..1 : i = 1
      OBVIOUS
    <3>3. 1..Len(p) = 1..1
      BY <2>6
    <3>4. QED
      BY <2>4, <3>1, <3>2, <3>3
  <2>8. PICK u \in Threads \ {t} : ToClear(u, o) \/ Cleared(u, o)
    BY <2>1, <2>5, <2>7 DEF FatalInv, p
  <2>9. program[u] \in Seq(Steps)
    BY <2>1 DEF TypeInv, ProgramsOK
  <2>10. DOMAIN program[u] = 1..Len(program[u]) /\ Len(program[u]) \in Nat
         /\ (program[u] = <<>> <=> Len(program[u]) = 0)
         /\ \A x : x \in Range(program[u]) <=> \E i \in 1..Len(program[u]) : program[u][i] = x
    BY <2>9, SeqHas
  <2>11. CASE ToClear(u, o)
    BY <2>10, <2>11 DEF ToClear
  <2>12. CASE Cleared(u, o)
    <3>1. program[u] # <<>> /\ program[u][1] = <<"store", o, link[o] # NoLink>>
      BY <2>12 DEF Cleared
    <3>2. 1 \in DOMAIN program[u]
      BY <2>10, <3>1
    <3>3. QED
      BY <3>1, <3>2
  <2>13. QED
    BY <2>8, <2>11, <2>12
<1>2. QED
  BY <1>1, IndInvHolds, PTL

(* Logger::DeleteAllChannels: in the end no channel has a backend but those  *)
(* to be deleted when the forced DoAutodelete was within 100 ms of the last, *)
(* and those given one after their deletion.                                 *)
THEOREM NothingLeftHolds == Spec => []NothingLeft
<1>1. ASSUME IndInv PROVE NothingLeft
  <2> SUFFICES ASSUME closed, \A t \in Threads : Idle(t), NEW o \in Objects,
                      Backends[o] # {}, o \notin stray
               PROVE  throttled /\ o \in Range(ToDelete)
    BY DEF NothingLeft
  <2>1. BackendsInv /\ ClosedInv
    BY <1>1 DEF IndInv
  <2>2. \A t \in Threads : \A x : x \notin Range(program[t])
    BY DEF Idle, Range
  <2>3. \A t \in Threads : ~ToClear(t, o)
    BY <2>2 DEF ToClear
  <2>4. o \in Registered
    BY <2>1, <2>3 DEF BackendsInv
  <2>5. o \notin Range(Channels)
    <3>1. o # 0
      BY DEF Objects
    <3>2. QED
      BY <2>1, <2>3, <3>1 DEF ClosedInv
  <2>6. o \in Range(ToDelete)
    BY <2>4, <2>5 DEF Registered
  <2>7. ToDelete # <<>>
    BY <2>6 DEF Range
  <2>8. throttled
    BY <2>1, <2>2, <2>7 DEF ClosedInv
  <2>9. QED
    BY <2>6, <2>8
<1>2. QED
  BY <1>1, IndInvHolds, PTL
=============================================================================
