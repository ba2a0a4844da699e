------------------------- MODULE LogStatisticsProofs -------------------------
(***************************************************************************)
(* What is proved of LogStatistics, for any threads, call sites, channels   *)
(* and bounds: every record collected since the last reset is counted once, *)
(* where it belongs (CountedOnce), and a report made of a stopped           *)
(* collection says what was collected (ReportExact).                        *)
(*                                                                         *)
(* The invariant is IndInv.  Its heart is Places: in each part, a record     *)
(* collected is owed by a call, or counted in an overflow, or in one slot of *)
(* one site object, and never in two of these.  A call may only be counted   *)
(* where it belongs because what it logs stays what it was (Calls), because  *)
(* the caches lead to the site object of the call site (Caches, Found), and  *)
(* because a channel's name and its backend's number go together (Names).    *)
(* A reset finds nobody who still owes a count because the commands wait     *)
(* (Waited), on a number that is exact (InFlightExact).                      *)
(***************************************************************************)
EXTENDS LogStatistics, SequenceTheorems, FiniteSetTheorems, TLAPS

(* Where a call is once Check has let it in, and where it owes a count. *)
Owing  == {"store site", "store generation", "find", "create", "count"}
Inside == {"load generation", "load site", "miss"} \cup Owing
Labels == {"idle", "next", "enter", "check", "leave"} \cup Inside

InFlightThreads == {t \in Threads : pc[t] \notin {"idle", "next", "enter"}}

(* The shape of the state. *)
Variables ==
  /\ pc \in [Threads -> Labels]
  /\ part \in [Threads -> Parts]
  /\ record \in [Threads -> Nat]
  /\ DOMAIN callSite = Threads /\ DOMAIN address = Threads
  /\ site \in [Threads -> Nat] /\ slot \in [Threads -> Nat]
  /\ SiteByKey \in [CallSites -> Nat] /\ Statistics \in [CallSites -> Nat]
  /\ Generation \in [CallSites -> BOOLEAN]
  /\ DOMAIN channels = Addresses
  /\ logged \in Seq(ToSet(logged))
  /\ Sites \in Seq(ToSet(Sites))
  /\ DOMAIN report = {"source", "output", "active"}
  /\ {Active, HasSession, wasActive} \subseteq BOOLEAN
  /\ command \in {"idle", "start", "stop", "reset", "activate", "dump"}
  /\ commands \in 0..MaxCommands

SiteShapes ==
  \A i \in 1..Len(Sites) :
    /\ DOMAIN Sites[i] = {"callSite", "slots", "overflow"}
    /\ DOMAIN Sites[i].slots = Parts /\ DOMAIN Sites[i].overflow = Parts
    /\ \A p \in Parts :
         /\ Sites[i].slots[p] \in Seq(ToSet(Sites[i].slots[p]))
         /\ Len(Sites[i].slots[p]) <= SlotCount
         /\ Sites[i].overflow[p] \subseteq 1..Len(logged)
         /\ \A j \in 1..Len(Sites[i].slots[p]) :
              /\ DOMAIN Sites[i].slots[p][j] = {"key", "name", "counted"}
              /\ Sites[i].slots[p][j].counted \subseteq 1..Len(logged)

(* What a call logs stays what it was when it was logged: its channel is not *)
(* replaced under it. *)
CallOf(t) ==
  IF pc[t] = "idle"
  THEN record[t] = None /\ part[t] = "source"
  ELSE /\ record[t] \in 1..Len(logged)
       /\ callSite[t] \in CallSites /\ address[t] \in Addresses
       /\ logged[record[t]].callSite = callSite[t]
       /\ logged[record[t]].name = channels[address[t]].name

Calls ==
  /\ \A t \in Threads : CallOf(t)
  /\ \A t, u \in Threads : record[t] = record[u] /\ record[t] # None => t = u

(* A cached site object is the one of its call site, and there is one. *)
Caches ==
  /\ \A s \in CallSites :
       /\ Generation[s] => Statistics[s] # None
       /\ Statistics[s] # None => Statistics[s] \in 1..Len(Sites) /\ Sites[Statistics[s]].callSite = s
       /\ SiteByKey[s] # None => SiteByKey[s] \in 1..Len(Sites) /\ Sites[SiteByKey[s]].callSite = s
  /\ \A i \in 1..Len(Sites) :
       Sites[i].callSite \in CallSites /\ SiteByKey[Sites[i].callSite] = i

(* What a call has found is what it looked for. *)
FoundBy(t) ==
  /\ site[t] \in 0..Len(Sites) /\ slot[t] \in 0..SlotCount
  /\ pc[t] \notin {"count", "leave"} => slot[t] = None
  /\ pc[t] \in {"load site", "store generation"} => Statistics[callSite[t]] # None
  /\ pc[t] \in Owing => site[t] # None /\ Sites[site[t]].callSite = callSite[t]
  /\ pc[t] = "count" /\ slot[t] # None =>
       /\ slot[t] \in 1..Len(Sites[site[t]].slots[part[t]])
       /\ Sites[site[t]].slots[part[t]][slot[t]].key = Key(t)

Found == \A t \in Threads : FoundBy(t)

(* A channel's name and its backend's number go together. *)
Names ==
  /\ \A a \in Addresses : channels[a].name = channels[a].number
  /\ \A i \in 1..Len(Sites) : \A j \in 1..Len(Sites[i].slots["output"]) :
       Sites[i].slots["output"][j].name = Sites[i].slots["output"][j].key

(* The places of a record of a part: it is owed by a call, or counted.       *)
Owed(p, r)    == \E t \in Threads : pc[t] \in Owing /\ part[t] = p /\ record[t] = r
InOverflow(p, r) == \E i \in 1..Len(Sites) : r \in Sites[i].overflow[p]
InSlot(p, r) ==
  \E i \in 1..Len(Sites) : \E j \in 1..Len(Sites[i].slots[p]) : r \in Sites[i].slots[p][j].counted

Places ==
  /\ collected \subseteq Parts \X (1..Len(logged))
  /\ \A p \in Parts, r \in 1..Len(logged) :
       /\ <<p, r>> \in collected <=> Owed(p, r) \/ InOverflow(p, r) \/ InSlot(p, r)
       /\ ~ (Owed(p, r) /\ InOverflow(p, r)) /\ ~ (Owed(p, r) /\ InSlot(p, r))
       /\ ~ (InOverflow(p, r) /\ InSlot(p, r))
  /\ \A p \in Parts, i \in 1..Len(Sites) : \A j, k \in 1..Len(Sites[i].slots[p]) :
       \A r \in Sites[i].slots[p][j].counted : r \in Sites[i].slots[p][k].counted => j = k

(* What a call has yet to collect was not collected. *)
Uncollected == {"enter", "check", "load generation", "load site", "miss"}

AheadOf(t) ==
  /\ pc[t] \in Uncollected => <<part[t], record[t]>> \notin collected
  /\ pc[t] # "idle" /\ part[t] = "source" => <<"output", record[t]>> \notin collected

Ahead == \A t \in Threads : AheadOf(t)

(* The commands wait for the calls inside. *)
NobodyInside == \A t \in Threads : pc[t] \notin Inside

Waited ==
  /\ command \in {"start", "stop", "reset", "activate"} => ~ Active
  /\ ~ Active /\ ~ (command \in {"start", "stop", "reset"} /\ wasActive) => NobodyInside

(* The entries of a report made of a stopped collection are what was collected. *)
Reported ==
  command = "dump" /\ ~ report.active =>
    /\ ~ Active
    /\ report.source = {r \in 1..Len(logged) : <<"source", r>> \in collected}

InFlightExact == InFlight = Cardinality(InFlightThreads)

IndInv ==
  /\ Variables /\ SiteShapes /\ Calls /\ Caches /\ Found /\ Names /\ Attributed
  /\ Places /\ Ahead /\ Waited /\ Reported /\ InFlightExact

(* A sequence over a set is one over a larger set. *)
LEMMA SeqOfMore ==
  ASSUME NEW S, NEW T, S \subseteq T, NEW q \in Seq(S)
  PROVE  q \in Seq(T)
<1>1. q \in [1..Len(q) -> T] /\ Len(q) \in Nat
  BY LenProperties
<1>2. QED
  BY <1>1, SeqDef

----------------------------------------------------------------------------
(* Lemmas about sequences and about the sections of the collector. *)

(* A sequence is one over its own elements. *)
LEMMA OwnElements ==
  ASSUME NEW S, NEW q \in Seq(S)
  PROVE  q \in Seq(ToSet(q))
<1>1. Len(q) \in Nat /\ q \in [1..Len(q) -> S]
  BY LenProperties
<1>2. q \in [1..Len(q) -> ToSet(q)]
  BY <1>1 DEF ToSet
<1>3. QED
  BY <1>1, <1>2, SeqDef

(* What Append does, whatever the elements are. *)
LEMMA AppendOwn ==
  ASSUME NEW q, q \in Seq(ToSet(q)), NEW e
  PROVE  /\ Append(q, e) \in Seq(ToSet(Append(q, e)))
         /\ Len(q) \in Nat /\ Len(Append(q, e)) = Len(q) + 1
         /\ \A i \in 1..Len(q) : Append(q, e)[i] = q[i]
         /\ Append(q, e)[Len(q) + 1] = e
<1> DEFINE S == ToSet(q) \cup {e}
<1>1. q \in Seq(S)
  BY SeqOfMore
<1> HIDE DEF S
<1>2. e \in S
  BY DEF S
<1>3. Append(q, e) \in Seq(S)
  BY <1>1, <1>2, AppendProperties
<1>4. Append(q, e) \in Seq(ToSet(Append(q, e)))
  BY <1>3, OwnElements, Zenon
<1>5. Len(q) \in Nat
  BY <1>1, LenProperties
<1>6. /\ Len(Append(q, e)) = Len(q) + 1
      /\ \A i \in 1..Len(q) : Append(q, e)[i] = q[i]
      /\ Append(q, e)[Len(q) + 1] = e
  BY <1>1, <1>2, AppendProperties
<1>7. QED
  BY <1>4, <1>5, <1>6

(* The sequences of the model have their indexes as domain. *)
LEMMA OwnDomain ==
  ASSUME NEW q, q \in Seq(ToSet(q))
  PROVE  Len(q) \in Nat /\ DOMAIN q = 1..Len(q)
BY LenProperties

(* The calls in flight can be counted. *)
LEMMA InFlightFinite == IsFiniteSet(InFlightThreads) /\ Cardinality(InFlightThreads) \in Nat
<1>1. IsFiniteSet(InFlightThreads)
  BY StatisticsAssumption, FS_Subset DEF InFlightThreads
<1>2. QED
  BY <1>1, FS_CardinalityType

(* While no call is in flight none is inside. *)
LEMMA IdleMeansNobody ==
  ASSUME Variables, InFlightExact, InFlight = 0
  PROVE  NobodyInside
<1>1. InFlightThreads = {}
  BY InFlightFinite, FS_EmptySet DEF InFlightExact
<1>2. QED
  BY <1>1 DEF InFlightThreads, NobodyInside, Inside, Owing

(* Part by part, what a step leaves alone. *)
LEMMA DataStays ==
  ASSUME SiteShapes, Names, Attributed, UNCHANGED <<Sites, logged, channels>>
  PROVE  SiteShapes' /\ Names' /\ Attributed'
<1>1. SiteShapes'
  BY DEF SiteShapes
<1>2. Names'
  BY DEF Names
<1>3. Attributed'
  BY DEF Attributed
<1>4. QED
  BY <1>1, <1>2, <1>3

(* The caches stay. *)
LEMMA CachesStay ==
  ASSUME Caches, UNCHANGED <<Sites, SiteByKey, Statistics, Generation>>
  PROVE  Caches'
BY DEF Caches

(* What a thread has found stays true while others move. *)
LEMMA FoundStays ==
  ASSUME NEW u \in Threads, FoundBy(u), pc'[u] = pc[u], site'[u] = site[u], slot'[u] = slot[u],
         part'[u] = part[u], callSite'[u] = callSite[u], address'[u] = address[u],
         UNCHANGED <<Sites, channels>>,
         Statistics[callSite[u]] # None => Statistics'[callSite[u]] # None
  PROVE  FoundBy(u)'
BY DEF FoundBy, Key

(* The places stay as long as the same calls owe the same records. *)
LEMMA PlacesStay ==
  ASSUME Places, UNCHANGED <<Sites, logged, collected>>,
         \A u \in Threads : pc'[u] \in Owing <=> pc[u] \in Owing,
         \A u \in Threads : pc[u] \in Owing => part'[u] = part[u] /\ record'[u] = record[u]
  PROVE  Places'
<1>1. \A p, r : Owed(p, r)' <=> Owed(p, r)
  BY DEF Owed
<1>2. \A p, r : (InOverflow(p, r)' <=> InOverflow(p, r)) /\ (InSlot(p, r)' <=> InSlot(p, r))
  BY DEF InOverflow, InSlot
<1>3. QED
  BY <1>1, <1>2 DEF Places

(* The number in flight, when a call enters, leaves, or does neither. *)
LEMMA InFlightMoves ==
  ASSUME Variables, InFlightExact, NEW t \in Threads, NEW l \in Labels,
         pc' = [pc EXCEPT ![t] = l],
         InFlight' = IF pc[t] \in {"idle", "next", "enter"}
                     THEN IF l \in {"idle", "next", "enter"} THEN InFlight ELSE InFlight + 1
                     ELSE IF l \in {"idle", "next", "enter"} THEN InFlight - 1 ELSE InFlight
  PROVE  InFlightExact'
<1>1. Threads = DOMAIN pc /\ InFlight = Cardinality(InFlightThreads)
        /\ IsFiniteSet(InFlightThreads) /\ Cardinality(InFlightThreads) \in Nat
  BY InFlightFinite DEF Variables, InFlightExact
<1>2. \A u \in Threads : pc'[u] = IF u = t THEN l ELSE pc[u]
  BY <1>1
<1>3. CASE t \notin InFlightThreads /\ l \notin {"idle", "next", "enter"}
  <2>1. InFlightThreads' = InFlightThreads \cup {t}
    BY <1>2, <1>3 DEF InFlightThreads
  <2>2. Cardinality(InFlightThreads') = Cardinality(InFlightThreads) + 1
    BY <1>1, <1>3, <2>1, FS_AddElement
  <2>3. InFlight' = InFlight + 1
    BY <1>3 DEF InFlightThreads
  <2>4. QED
    BY <1>1, <2>2, <2>3 DEF InFlightExact
<1>4. CASE t \in InFlightThreads /\ l \in {"idle", "next", "enter"}
  <2>1. InFlightThreads' = InFlightThreads \ {t}
    BY <1>2, <1>4 DEF InFlightThreads
  <2>2. Cardinality(InFlightThreads') = Cardinality(InFlightThreads) - 1
    BY <1>1, <1>4, <2>1, FS_RemoveElement
  <2>3. InFlight' = InFlight - 1
    BY <1>4 DEF InFlightThreads
  <2>4. QED
    BY <1>1, <2>2, <2>3 DEF InFlightExact
<1>5. CASE t \in InFlightThreads <=> l \notin {"idle", "next", "enter"}
  <2>1. InFlightThreads' = InFlightThreads
    BY <1>2, <1>5 DEF InFlightThreads
  <2>2. InFlight' = InFlight
    BY <1>5 DEF InFlightThreads
  <2>3. QED
    BY <1>1, <2>1, <2>2 DEF InFlightExact
<1>6. QED
  BY <1>3, <1>4, <1>5

(* A step of a thread that logs nothing, collects nothing and counts nothing: *)
(* it moves on, and perhaps finds or caches something.                         *)
LEMMA ThreadMoves ==
  ASSUME IndInv, NEW t \in Threads, NEW l \in Labels \ {"idle"},
         pc[t] # "idle", pc' = [pc EXCEPT ![t] = l],
         UNCHANGED <<Active, HasSession, Sites, SiteByKey, channels, call, control, logged,
                     collected, report>>,
         InFlight' = IF pc[t] \in {"idle", "next", "enter"}
                     THEN IF l \in {"idle", "next", "enter"} THEN InFlight ELSE InFlight + 1
                     ELSE IF l \in {"idle", "next", "enter"} THEN InFlight - 1 ELSE InFlight,
         pc[t] \in Owing <=> l \in Owing,
         l \in Inside => pc[t] \in Inside \/ Active,
         l \in Uncollected => pc[t] \in Uncollected,
         site' \in [Threads -> Nat], slot' \in [Threads -> Nat],
         \A u \in Threads \ {t} : site'[u] = site[u] /\ slot'[u] = slot[u],
         FoundBy(t)',
         Statistics' \in [CallSites -> Nat], Generation' \in [CallSites -> BOOLEAN],
         \A s \in CallSites : Statistics[s] # None => Statistics'[s] # None,
         Caches'
  PROVE  IndInv'
<1>1. \A u \in Threads : pc'[u] = IF u = t THEN l ELSE pc[u]
  BY DEF IndInv, Variables
<1>2. Variables'
  BY DEF IndInv, Variables, call, control
<1>3. SiteShapes' /\ Names' /\ Attributed'
  BY DataStays DEF IndInv
<1>4. Calls'
  BY <1>1 DEF IndInv, Calls, CallOf, call
<1>5. Found'
  <2>1. \A u \in Threads : pc[u] # "idle" => callSite[u] \in CallSites
    BY DEF IndInv, Calls, CallOf
  <2>2. ASSUME NEW u \in Threads, u # t PROVE FoundBy(u)'
    <3>1. /\ FoundBy(u) /\ pc'[u] = pc[u] /\ site'[u] = site[u] /\ slot'[u] = slot[u]
          /\ UNCHANGED <<Sites, channels, part, callSite, address>>
      BY <1>1, <2>2 DEF IndInv, Found, call
    <3>2. CASE pc[u] = "idle"
      BY <3>1, <3>2 DEF FoundBy, Key, Owing
    <3>3. CASE pc[u] # "idle"
      BY <2>1, <3>1, <3>3, FoundStays
    <3>4. QED
      BY <3>2, <3>3
  <2>3. QED
    BY <2>2 DEF Found
<1>6. Places'
  <2>1. /\ \A u \in Threads : pc'[u] \in Owing <=> pc[u] \in Owing
        /\ UNCHANGED <<part, record>>
    BY <1>1 DEF call
  <2>2. QED
    BY <2>1, PlacesStay DEF IndInv
<1>7. Ahead'
  BY <1>1 DEF IndInv, Ahead, AheadOf, call
<1>8. Waited'
  BY <1>1 DEF IndInv, Waited, NobodyInside, control
<1>9. Reported'
  BY DEF IndInv, Reported, control
<1>10. InFlightExact'
  BY InFlightMoves DEF IndInv
<1>11. QED
  BY <1>2, <1>3, <1>4, <1>5, <1>6, <1>7, <1>8, <1>9, <1>10 DEF IndInv

----------------------------------------------------------------------------
(* The steps of a call. *)

(* No record is collected twice, and a counter of its own is empty: the      *)
(* record a call starts to owe joins what is collected.                      *)
LEMMA CollectKeepsPlaces ==
  ASSUME IndInv, NEW t \in Threads, NEW l \in Owing, pc[t] \in Uncollected,
         pc' = [pc EXCEPT ![t] = l], UNCHANGED <<part, record, logged>>,
         collected' = collected \cup {<<part[t], record[t]>>},
         \A p \in Parts, r \in 1..Len(logged) :
           (InOverflow(p, r)' <=> InOverflow(p, r)) /\ (InSlot(p, r)' <=> InSlot(p, r)),
         \A p \in Parts, i \in 1..Len(Sites') : \A j, k \in 1..Len(Sites'[i].slots[p]) :
           \A r \in Sites'[i].slots[p][j].counted : r \in Sites'[i].slots[p][k].counted => j = k
  PROVE  /\ Places'
         /\ \A u \in Threads \ {t} : AheadOf(u)'
         /\ AheadOf(t)'
<1>1. \A u \in Threads : pc'[u] = IF u = t THEN l ELSE pc[u]
  BY DEF IndInv, Variables
<1>2. /\ part[t] \in Parts /\ record[t] \in 1..Len(logged) /\ pc[t] # "idle"
      /\ <<part[t], record[t]>> \notin collected /\ pc[t] \notin Owing /\ l # "idle"
      /\ l \notin Uncollected
  BY DEF IndInv, Variables, Calls, CallOf, Ahead, AheadOf, Uncollected, Owing
<1>3. \A p \in Parts, r \in 1..Len(logged) :
        Owed(p, r)' <=> Owed(p, r) \/ (p = part[t] /\ r = record[t])
  BY <1>1, <1>2 DEF Owed
<1>4. ~ InOverflow(part[t], record[t]) /\ ~ InSlot(part[t], record[t])
        /\ ~ Owed(part[t], record[t])
  BY <1>2 DEF IndInv, Places
<1>5. collected' \subseteq Parts \X (1..Len(logged'))
  BY <1>2 DEF IndInv, Places
<1>6. Places'
  <2>1. \A p \in Parts, r \in 1..Len(logged) :
          /\ <<p, r>> \in collected' <=> Owed(p, r)' \/ InOverflow(p, r)' \/ InSlot(p, r)'
          /\ ~ (Owed(p, r)' /\ InOverflow(p, r)') /\ ~ (Owed(p, r)' /\ InSlot(p, r)')
          /\ ~ (InOverflow(p, r)' /\ InSlot(p, r)')
    BY <1>2, <1>3, <1>4 DEF IndInv, Places
  <2>2. QED
    BY <1>5, <2>1 DEF Places
<1>7. ASSUME NEW u \in Threads \ {t} PROVE AheadOf(u)'
  <2>1. AheadOf(u) /\ CallOf(u) /\ pc'[u] = pc[u]
    BY <1>1 DEF IndInv, Ahead, Calls
  <2>2. pc[u] # "idle" => record[u] # record[t]
    <3>1. record[t] # None
      BY <1>2 DEF None
    <3>2. QED
      BY <3>1 DEF IndInv, Calls
  <2>3. QED
    BY <2>1, <2>2 DEF AheadOf, Uncollected
<1>8. AheadOf(t)'
  <2>1. AheadOf(t)
    BY DEF IndInv, Ahead
  <2>2. QED
    BY <1>1, <1>2, <2>1 DEF AheadOf
<1>9. QED
  BY <1>6, <1>7, <1>8

(* LoadCachedSite finds the site object of the call site. *)
LEMMA LoadSitePreserves ==
  ASSUME IndInv, NEW t \in Threads, LoadSite(t)
  PROVE  IndInv'
<1>1. /\ pc[t] = "load site" /\ pc' = [pc EXCEPT ![t] = "find"]
      /\ site' = [site EXCEPT ![t] = Statistics[callSite[t]]]
      /\ collected' = collected \cup {<<part[t], record[t]>>}
      /\ UNCHANGED <<Active, HasSession, Sites, SiteByKey, InFlight, Statistics, Generation,
                     channels, part, record, callSite, address, slot, command, wasActive,
                     commands, logged, report>>
  BY DEF LoadSite, Goto, Collect, collector, cache, call, control
<1>2. \A u \in Threads : pc'[u] = IF u = t THEN "find" ELSE pc[u]
  BY <1>1 DEF IndInv, Variables
<1>3. /\ callSite[t] \in CallSites /\ Statistics[callSite[t]] \in 1..Len(Sites)
      /\ Sites[Statistics[callSite[t]]].callSite = callSite[t]
  BY <1>1 DEF IndInv, Calls, CallOf, Found, FoundBy, Caches
<1>4. \A u \in Threads : site'[u] = IF u = t THEN Statistics[callSite[t]] ELSE site[u]
  BY <1>1 DEF IndInv, Variables
<1>5. Variables'
  <2>1. site' \in [Threads -> Nat]
    BY <1>1, <1>3 DEF IndInv, Variables
  <2>2. QED
    BY <1>1, <2>1 DEF IndInv, Variables, Labels, Inside, Owing
<1>6. SiteShapes' /\ Names' /\ Attributed' /\ Caches'
  BY <1>1, DataStays, CachesStay DEF IndInv
<1>7. Calls'
  <2>1. \A u \in Threads : CallOf(u)'
    <3>1. \A u \in Threads : CallOf(u)
      BY DEF IndInv, Calls
    <3>2. \A u \in Threads : pc'[u] = "idle" <=> pc[u] = "idle"
      <4>1. pc[t] # "idle"
        BY <1>1
      <4>2. QED
        BY <1>2, <4>1
    <3>3. QED
      BY <1>1, <3>1, <3>2 DEF CallOf
  <2>2. QED
    BY <1>1, <2>1 DEF IndInv, Calls
<1>8. Found'
  <2>1. ASSUME NEW u \in Threads, u # t PROVE FoundBy(u)'
    <3>1. FoundBy(u)
      BY DEF IndInv, Found
    <3>2. QED
      BY <1>1, <1>2, <1>4, <2>1, <3>1, FoundStays
  <2>2. FoundBy(t)'
    <3>1. slot[t] = None /\ slot[t] \in 0..SlotCount
      BY <1>1 DEF IndInv, Found, FoundBy
    <3>2. site'[t] \in 1..Len(Sites') /\ Sites'[site'[t]].callSite = callSite'[t]
      BY <1>1, <1>3, <1>4
    <3>3. site'[t] \in 0..Len(Sites') /\ site'[t] # None
      BY <3>2 DEF None
    <3>4. QED
      <4>1. pc'[t] = "find" /\ slot'[t] = slot[t]
        BY <1>1, <1>2
      <4>2. QED
        BY <3>1, <3>2, <3>3, <4>1 DEF FoundBy
  <2>3. QED
    BY <2>1, <2>2 DEF Found
<1>9. Places' /\ Ahead'
  <2>1. \A p, r : (InOverflow(p, r)' <=> InOverflow(p, r)) /\ (InSlot(p, r)' <=> InSlot(p, r))
    BY <1>1 DEF InOverflow, InSlot
  <2>2. \A p \in Parts, i \in 1..Len(Sites') : \A j, k \in 1..Len(Sites'[i].slots[p]) :
          \A r \in Sites'[i].slots[p][j].counted : r \in Sites'[i].slots[p][k].counted => j = k
    <3>1. \A p \in Parts, i \in 1..Len(Sites) : \A j, k \in 1..Len(Sites[i].slots[p]) :
            \A r \in Sites[i].slots[p][j].counted : r \in Sites[i].slots[p][k].counted => j = k
      BY DEF IndInv, Places
    <3>2. Sites' = Sites
      BY <1>1
    <3>3. QED
      BY <3>1, <3>2
  <2>3. pc[t] \in Uncollected /\ "find" \in Owing
    BY <1>1 DEF Uncollected, Owing
  <2>4. QED
    BY <1>1, <2>1, <2>2, <2>3, CollectKeepsPlaces DEF Ahead
<1>10. Waited'
  BY <1>1, <1>2 DEF IndInv, Waited, NobodyInside, Inside, Owing
<1>11. Reported'
  <2>1. pc[t] \in Inside
    BY <1>1 DEF Inside
  <2>2. command = "dump" => Active
    BY <2>1 DEF IndInv, Waited, NobodyInside
  <2>3. QED
    BY <1>1, <2>2 DEF IndInv, Reported
<1>12. InFlightExact'
  BY <1>1, InFlightMoves DEF IndInv, Labels, Inside, Owing
<1>13. QED
  BY <1>5, <1>6, <1>7, <1>8, <1>9, <1>10, <1>11, <1>12 DEF IndInv

(* The steps that only move on, find or cache. *)
LEMMA MovesPreserve ==
  ASSUME IndInv, NEW t \in Threads,
         \/ Enter(t) \/ Check(t) \/ Leave(t) \/ LoadGeneration(t)
         \/ StoreSite(t) \/ StoreGeneration(t) \/ FindSlot(t)
  PROVE  IndInv'
<1>0. /\ callSite[t] \in CallSites \/ pc[t] = "idle"
      /\ site[t] \in Nat /\ slot[t] \in 0..SlotCount /\ FoundBy(t)
      /\ site \in [Threads -> Nat] /\ slot \in [Threads -> Nat]
      /\ Statistics \in [CallSites -> Nat] /\ Generation \in [CallSites -> BOOLEAN]
      /\ pc \in [Threads -> Labels]
  BY DEF IndInv, Calls, CallOf, Found, FoundBy, Variables
<1>1. CASE Enter(t)
  <2>1. /\ pc[t] = "enter" /\ pc' = [pc EXCEPT ![t] = "check"] /\ InFlight' = InFlight + 1
        /\ pc'[t] = "check"
        /\ UNCHANGED <<Active, HasSession, Sites, SiteByKey, Statistics, Generation, channels,
                       call, site, slot, control, logged, collected, report>>
    BY <1>0, <1>1 DEF Enter, Goto, collector, cache, found
  <2>2. FoundBy(t)'
    BY <1>0, <2>1 DEF FoundBy, Owing, call
  <2>3. Caches'
    BY <2>1, CachesStay DEF IndInv
  <2>4. QED
    BY <1>0, <2>1, <2>2, <2>3, ThreadMoves DEF Labels, Inside, Owing, Uncollected
<1>2. CASE Check(t)
  <2> DEFINE l == IF Active THEN "load generation" ELSE "leave"
  <2>1. /\ pc[t] = "check" /\ pc' = [pc EXCEPT ![t] = l]
        /\ pc'[t] = l /\ l \in {"load generation", "leave"} /\ (l = "load generation" => Active)
        /\ UNCHANGED <<Active, HasSession, Sites, SiteByKey, InFlight, Statistics, Generation,
                       channels, call, site, slot, control, logged, collected, report>>
    BY <1>0, <1>2 DEF Check, Goto, collector, cache, found
  <2> HIDE DEF l
  <2>2. FoundBy(t)'
    BY <1>0, <2>1 DEF FoundBy, Owing, call
  <2>3. Caches'
    BY <2>1, CachesStay DEF IndInv
  <2>4. QED
    BY <1>0, <2>1, <2>2, <2>3, ThreadMoves DEF Labels, Inside, Owing, Uncollected
<1>3. CASE Leave(t)
  <2>1. /\ pc[t] = "leave" /\ pc' = [pc EXCEPT ![t] = "next"] /\ InFlight' = InFlight - 1
        /\ pc'[t] = "next" /\ site'[t] = None /\ slot'[t] = None
        /\ site' = [site EXCEPT ![t] = None] /\ slot' = [slot EXCEPT ![t] = None]
        /\ UNCHANGED <<Active, HasSession, Sites, SiteByKey, Statistics, Generation, channels,
                       call, control, logged, collected, report>>
    BY <1>0, <1>3 DEF Leave, Goto, collector, cache
  <2>2. FoundBy(t)'
    <3>1. None \in 0..Len(Sites) /\ None \in 0..SlotCount
      BY OwnDomain, StatisticsAssumption DEF None, IndInv, Variables
    <3>2. QED
      BY <2>1, <3>1 DEF FoundBy, Owing, call
  <2>3. Caches'
    BY <2>1, CachesStay DEF IndInv
  <2>4. /\ site' \in [Threads -> Nat] /\ slot' \in [Threads -> Nat]
        /\ \A u \in Threads \ {t} : site'[u] = site[u] /\ slot'[u] = slot[u]
    BY <1>0, <2>1 DEF None
  <2>5. QED
    BY <1>0, <2>1, <2>2, <2>3, <2>4, ThreadMoves DEF Labels, Inside, Owing, Uncollected
<1>4. CASE LoadGeneration(t)
  <2> DEFINE l == IF Generation[callSite[t]] THEN "load site"
                  ELSE IF part[t] = "source" THEN "miss" ELSE "leave"
  <2>1. /\ pc[t] = "load generation" /\ pc' = [pc EXCEPT ![t] = l]
        /\ pc'[t] = l /\ l \in {"load site", "miss", "leave"}
        /\ (l = "load site" => Generation[callSite[t]])
        /\ UNCHANGED <<Active, HasSession, Sites, SiteByKey, InFlight, Statistics, Generation,
                       channels, call, site, slot, control, logged, collected, report>>
    BY <1>0, <1>4 DEF LoadGeneration, Goto, collector, cache, found
  <2> HIDE DEF l
  <2>2. FoundBy(t)'
    <3>1. l = "load site" => Statistics[callSite[t]] # None
      BY <1>0, <2>1 DEF IndInv, Caches
    <3>2. QED
      BY <1>0, <2>1, <3>1 DEF FoundBy, Owing, call
  <2>3. Caches'
    BY <2>1, CachesStay DEF IndInv
  <2>4. QED
    BY <1>0, <2>1, <2>2, <2>3, ThreadMoves DEF Labels, Inside, Owing, Uncollected
<1>5. CASE StoreSite(t)
  <2>1. /\ pc[t] = "store site" /\ pc' = [pc EXCEPT ![t] = "store generation"]
        /\ pc'[t] = "store generation"
        /\ Statistics' = [Statistics EXCEPT ![callSite[t]] = site[t]]
        /\ UNCHANGED <<Active, HasSession, Sites, SiteByKey, InFlight, Generation,
                       channels, call, site, slot, control, logged, collected, report>>
    BY <1>0, <1>5 DEF StoreSite, Goto, collector, found
  <2>2. /\ site[t] # None /\ Sites[site[t]].callSite = callSite[t] /\ callSite[t] \in CallSites
        /\ site[t] \in 1..Len(Sites)
    <3>1. site[t] # None /\ Sites[site[t]].callSite = callSite[t] /\ callSite[t] \in CallSites
            /\ site[t] \in 0..Len(Sites)
      BY <1>0, <2>1 DEF FoundBy, Owing
    <3>2. QED
      BY <3>1, <1>0 DEF None
  <2>3. \A s \in CallSites : Statistics'[s] = IF s = callSite[t] THEN site[t] ELSE Statistics[s]
    BY <1>0, <2>1
  <2>4. Caches'
    <3>1. \A s \in CallSites : Statistics'[s] # None =>
            Statistics'[s] \in 1..Len(Sites) /\ Sites[Statistics'[s]].callSite = s
      BY <2>2, <2>3 DEF IndInv, Caches
    <3>2. \A s \in CallSites : Generation[s] => Statistics'[s] # None
      BY <2>2, <2>3 DEF IndInv, Caches
    <3>3. QED
      BY <2>1, <3>1, <3>2 DEF IndInv, Caches
  <2>5. FoundBy(t)'
    BY <1>0, <2>1, <2>2, <2>3 DEF FoundBy, Owing, call
  <2>6. /\ Statistics' \in [CallSites -> Nat]
        /\ \A s \in CallSites : Statistics[s] # None => Statistics'[s] # None
    BY <1>0, <2>1, <2>2, <2>3
  <2>7. QED
    BY <1>0, <2>1, <2>4, <2>5, <2>6, ThreadMoves DEF Labels, Inside, Owing, Uncollected
<1>6. CASE StoreGeneration(t)
  <2>1. /\ pc[t] = "store generation" /\ pc' = [pc EXCEPT ![t] = "find"] /\ pc'[t] = "find"
        /\ Generation' = [Generation EXCEPT ![callSite[t]] = TRUE]
        /\ UNCHANGED <<Active, HasSession, Sites, SiteByKey, InFlight, Statistics,
                       channels, call, site, slot, control, logged, collected, report>>
    BY <1>0, <1>6 DEF StoreGeneration, Goto, collector, found
  <2>2. Statistics[callSite[t]] # None
    BY <1>0, <2>1 DEF FoundBy
  <2>3. Generation' \in [CallSites -> BOOLEAN]
    BY <1>0, <2>1
  <2>4. Caches'
    <3>1. \A s \in CallSites : Generation'[s] => Statistics[s] # None
      BY <1>0, <2>1, <2>2 DEF IndInv, Caches
    <3>2. QED
      BY <2>1, <3>1 DEF IndInv, Caches
  <2>5. FoundBy(t)'
    BY <1>0, <2>1 DEF FoundBy, Owing, call
  <2>6. QED
    BY <1>0, <2>1, <2>3, <2>4, <2>5, ThreadMoves DEF Labels, Inside, Owing, Uncollected
<1>7. CASE FindSlot(t)
  <2>1. PICK l \in {"create", "count"} :
          /\ pc[t] = "find" /\ pc' = [pc EXCEPT ![t] = l] /\ pc'[t] = l
          /\ l = "create" => slot' = slot
          /\ l = "count" => \E i \in SlotsWithKey(t) : slot' = [slot EXCEPT ![t] = i]
          /\ UNCHANGED <<Active, HasSession, Sites, SiteByKey, InFlight, Statistics, Generation,
                         channels, call, site, control, logged, collected, report>>
    BY <1>0, <1>7 DEF FindSlot, Goto, collector, cache
  <2>2. slot[t] = None /\ site[t] \in 1..Len(Sites) /\ part[t] \in Parts
    <3>1. slot[t] = None /\ site[t] # None /\ site[t] \in 0..Len(Sites)
      BY <1>0, <2>1 DEF FoundBy, Owing
    <3>2. QED
      BY <1>0, <3>1 DEF None, IndInv, Variables
  <2>3. \A i \in SlotsWithKey(t) :
          /\ i \in 1..Len(Sites[site[t]].slots[part[t]]) /\ i \in 1..SlotCount
          /\ Sites[site[t]].slots[part[t]][i].key = Key(t)
    <3>1. /\ Sites[site[t]].slots[part[t]] \in Seq(ToSet(Sites[site[t]].slots[part[t]]))
          /\ Len(Sites[site[t]].slots[part[t]]) <= SlotCount
      BY <2>2 DEF IndInv, SiteShapes
    <3>2. QED
      BY <3>1, OwnDomain, StatisticsAssumption DEF SlotsWithKey
  <2>4. CASE l = "create"
    <3>1. FoundBy(t)'
      BY <1>0, <2>1, <2>2, <2>4 DEF FoundBy, Owing, call
    <3>2. Caches'
      BY <2>1, CachesStay DEF IndInv
    <3>3. QED
      BY <1>0, <2>1, <2>4, <3>1, <3>2, ThreadMoves DEF Labels, Inside, Owing, Uncollected
  <2>5. CASE l = "count"
    <3>1. PICK i \in SlotsWithKey(t) : slot' = [slot EXCEPT ![t] = i]
      BY <2>1, <2>5
    <3>2. /\ slot' \in [Threads -> Nat] /\ slot'[t] = i /\ i \in 0..SlotCount
          /\ \A u \in Threads \ {t} : slot'[u] = slot[u]
      BY <1>0, <2>3, <3>1, StatisticsAssumption
    <3>3. Key(t)' = Key(t)
      BY <2>1 DEF Key, call
    <3>4. FoundBy(t)'
      BY <1>0, <2>1, <2>3, <2>5, <3>2, <3>3 DEF FoundBy, Owing, call
    <3>5. Caches'
      BY <2>1, CachesStay DEF IndInv
    <3>6. QED
      BY <1>0, <2>1, <2>5, <3>2, <3>4, <3>5, ThreadMoves DEF Labels, Inside, Owing, Uncollected
  <2>6. QED
    BY <2>4, <2>5
<1>8. QED
  BY <1>1, <1>2, <1>3, <1>4, <1>5, <1>6, <1>7

(* GetOrCreateSite finds or makes the site object of the call site: an empty one. *)
LEMMA GetOrCreateSitePreserves ==
  ASSUME IndInv, NEW t \in Threads, GetOrCreateSite(t)
  PROVE  IndInv'
<1> DEFINE s == callSite[t]
           n == Len(Sites)
<1>1. /\ pc[t] = "miss" /\ pc' = [pc EXCEPT ![t] = "store site"]
      /\ site' = [site EXCEPT ![t] = SiteByKey'[s]]
      /\ collected' = collected \cup {<<part[t], record[t]>>}
      /\ UNCHANGED <<Active, HasSession, InFlight, Statistics, Generation,
                     channels, part, record, callSite, address, slot, command, wasActive,
                     commands, logged, report>>
  BY DEF GetOrCreateSite, Goto, Collect, cache, call, control
<1>2. \A u \in Threads : pc'[u] = IF u = t THEN "store site" ELSE pc[u]
  BY <1>1 DEF IndInv, Variables
<1>3. s \in CallSites
  BY <1>1 DEF IndInv, Calls, CallOf
<1>n. n \in Nat /\ Sites \in Seq(ToSet(Sites)) /\ SiteByKey \in [CallSites -> Nat]
  BY OwnDomain DEF IndInv, Variables
<1> DEFINE new == SiteByKey[s] = None
<1>a. /\ Sites' \in Seq(ToSet(Sites'))
      /\ Len(Sites') = IF new THEN n + 1 ELSE n
      /\ \A i \in 1..n : Sites'[i] = Sites[i]
      /\ new => Sites'[n + 1] = EmptySite(s)
      /\ \A c \in CallSites : SiteByKey'[c] = IF new /\ c = s THEN n + 1 ELSE SiteByKey[c]
      /\ SiteByKey' \in [CallSites -> Nat]
  <2>1. CASE new
    <3>1. Sites' = Append(Sites, EmptySite(s)) /\ SiteByKey' = [SiteByKey EXCEPT ![s] = n + 1]
      BY <2>1 DEF GetOrCreateSite
    <3>2. /\ Sites' \in Seq(ToSet(Sites')) /\ Len(Sites') = n + 1
          /\ \A i \in 1..n : Sites'[i] = Sites[i]
          /\ Sites'[n + 1] = EmptySite(s)
      BY <1>n, <3>1, AppendOwn
    <3>3. QED
      BY <1>3, <1>n, <2>1, <3>1, <3>2
  <2>2. CASE ~ new
    <3>1. UNCHANGED <<Sites, SiteByKey>>
      BY <2>2 DEF GetOrCreateSite
    <3>2. QED
      BY <1>n, <2>2, <3>1
  <2>3. QED
    BY <2>1, <2>2
<1>b. /\ \A i \in 1..Len(Sites') : i \in 1..n \/ (new /\ i = n + 1)
      /\ \A i \in 1..n : i \in 1..Len(Sites') /\ i # n + 1
      /\ new => n + 1 \in 1..Len(Sites')
      /\ \A i \in 0..n : i \in 0..Len(Sites')
  BY <1>n, <1>a
<1>c. /\ EmptySite(s).callSite = s
      /\ DOMAIN EmptySite(s) = {"callSite", "slots", "overflow"}
      /\ DOMAIN EmptySite(s).slots = Parts /\ DOMAIN EmptySite(s).overflow = Parts
      /\ \A p \in Parts : EmptySite(s).slots[p] = <<>> /\ EmptySite(s).overflow[p] = {}
  BY DEF EmptySite
<1>d. SiteByKey'[s] \in 1..Len(Sites') /\ Sites'[SiteByKey'[s]].callSite = s
  <2>1. CASE new
    BY <1>3, <1>a, <1>b, <1>c, <2>1
  <2>2. CASE ~ new
    BY <1>3, <1>a, <1>b, <2>2 DEF IndInv, Caches
  <2>3. QED
    BY <2>1, <2>2
<1> HIDE DEF s, n, new
<1>4. \A u \in Threads : site'[u] = IF u = t THEN SiteByKey'[s] ELSE site[u]
  BY <1>1 DEF IndInv, Variables
<1>5. Variables'
  <2>1. site' \in [Threads -> Nat]
    BY <1>1, <1>3, <1>a DEF IndInv, Variables
  <2>2. QED
    BY <1>1, <1>a, <2>1 DEF IndInv, Variables, Labels, Inside, Owing
<1>6. SiteShapes'
  <2>1. Len(<<>>) = 0 /\ <<>> \in Seq(ToSet(<<>>)) /\ 0 <= SlotCount
    <3>1. <<>> \in Seq({}) /\ Len(<<>>) = 0
      BY EmptySeq
    <3>2. QED
      BY <3>1, OwnElements, StatisticsAssumption
  <2>2. ASSUME NEW i \in 1..Len(Sites')
        PROVE  /\ DOMAIN Sites'[i] = {"callSite", "slots", "overflow"}
               /\ DOMAIN Sites'[i].slots = Parts /\ DOMAIN Sites'[i].overflow = Parts
               /\ \A p \in Parts :
                    /\ Sites'[i].slots[p] \in Seq(ToSet(Sites'[i].slots[p]))
                    /\ Len(Sites'[i].slots[p]) <= SlotCount
                    /\ Sites'[i].overflow[p] \subseteq 1..Len(logged)
                    /\ \A j \in 1..Len(Sites'[i].slots[p]) :
                         /\ DOMAIN Sites'[i].slots[p][j] = {"key", "name", "counted"}
                         /\ Sites'[i].slots[p][j].counted \subseteq 1..Len(logged)
    <3>1. CASE i \in 1..n
      <4>1. Sites'[i] = Sites[i]
        BY <1>a, <3>1
      <4>2. i \in 1..Len(Sites)
        BY <3>1 DEF n
      <4>3. QED
        BY <4>1, <4>2 DEF IndInv, SiteShapes
    <3>2. CASE new /\ i = n + 1
      <4>1. Sites'[i] = EmptySite(s)
        BY <1>a, <3>2
      <4>2. \A p \in Parts : 1..Len(Sites'[i].slots[p]) = {}
        BY <1>c, <2>1, <4>1
      <4>3. QED
        BY <1>c, <2>1, <4>1, <4>2
    <3>3. QED
      BY <1>b, <3>1, <3>2
  <2>3. logged' = logged
    BY <1>1
  <2>4. QED
    BY <2>2, <2>3 DEF SiteShapes
<1>7. Calls'
  <2>1. \A u \in Threads : CallOf(u)
    BY DEF IndInv, Calls
  <2>a. \A u \in Threads : pc'[u] = "idle" <=> pc[u] = "idle"
    <3>1. pc[t] # "idle"
      BY <1>1
    <3>2. QED
      BY <1>2, <3>1
  <2>2. \A u \in Threads : CallOf(u)'
    BY <1>1, <2>1, <2>a DEF CallOf
  <2>3. QED
    BY <1>1, <2>2 DEF IndInv, Calls
<1>8. Caches'
  <2>0. /\ \A c \in CallSites :
             /\ Generation[c] => Statistics[c] # None
             /\ Statistics[c] # None => Statistics[c] \in 1..n /\ Sites[Statistics[c]].callSite = c
             /\ SiteByKey[c] # None => SiteByKey[c] \in 1..n /\ Sites[SiteByKey[c]].callSite = c
        /\ \A i \in 1..n : Sites[i].callSite \in CallSites /\ SiteByKey[Sites[i].callSite] = i
        /\ \A i \in 1..n : i # None
    BY <1>n DEF IndInv, Caches, n, None
  <2>1. \A c \in CallSites :
          /\ Generation'[c] => Statistics'[c] # None
          /\ Statistics'[c] # None =>
               Statistics'[c] \in 1..Len(Sites') /\ Sites'[Statistics'[c]].callSite = c
    BY <1>1, <1>a, <1>b, <2>0
  <2>2. \A c \in CallSites : SiteByKey'[c] # None =>
          SiteByKey'[c] \in 1..Len(Sites') /\ Sites'[SiteByKey'[c]].callSite = c
    BY <1>a, <1>b, <1>d, <2>0
  <2>3. ASSUME NEW i \in 1..Len(Sites')
        PROVE  Sites'[i].callSite \in CallSites /\ SiteByKey'[Sites'[i].callSite] = i
    <3>1. CASE i \in 1..n
      <4>1. Sites'[i].callSite = Sites[i].callSite /\ SiteByKey[Sites[i].callSite] = i
              /\ Sites[i].callSite \in CallSites /\ i # None
        BY <1>a, <2>0, <3>1
      <4>2. ~ (new /\ Sites[i].callSite = s)
        BY <4>1 DEF new
      <4>3. QED
        BY <1>a, <4>1, <4>2
    <3>2. CASE new /\ i = n + 1
      BY <1>3, <1>a, <1>c, <3>2
    <3>3. QED
      BY <1>b, <3>1, <3>2
  <2>4. QED
    BY <2>1, <2>2, <2>3 DEF Caches
<1>9. Found'
  <2>1. ASSUME NEW u \in Threads, u # t PROVE FoundBy(u)'
    <3>1. FoundBy(u) /\ (pc[u] \in Owing => site[u] \in 1..n)
      <4>1. FoundBy(u)
        BY DEF IndInv, Found
      <4>2. site[u] \in 0..n /\ (pc[u] \in Owing => site[u] # 0)
        BY <4>1 DEF FoundBy, None, n
      <4>3. QED
        BY <1>n, <4>1, <4>2
    <3>2. /\ pc'[u] = pc[u] /\ site'[u] = site[u] /\ slot'[u] = slot[u]
          /\ UNCHANGED <<part, callSite, address, channels, Statistics>>
      BY <1>1, <1>2, <1>4, <2>1
    <3>3. site'[u] \in 0..Len(Sites')
      BY <1>b, <3>1, <3>2 DEF FoundBy, n
    <3>4. pc[u] \in Owing => Sites'[site'[u]] = Sites[site[u]]
      BY <1>a, <3>1, <3>2
    <3>5. Key(u)' = Key(u) /\ (pc[u] = "count" => pc[u] \in Owing)
      BY <3>2 DEF Key, Owing
    <3>6. QED
      BY <3>1, <3>2, <3>3, <3>4, <3>5 DEF FoundBy
  <2>2. FoundBy(t)'
    <3>1. slot[t] = None /\ slot[t] \in 0..SlotCount
      BY <1>1 DEF IndInv, Found, FoundBy
    <3>2. site'[t] \in 1..Len(Sites') /\ Sites'[site'[t]].callSite = callSite'[t]
      BY <1>1, <1>4, <1>d DEF s
    <3>3. site'[t] \in 0..Len(Sites') /\ site'[t] # None
      BY <3>2 DEF None
    <3>4. pc'[t] = "store site" /\ slot'[t] = slot[t]
      BY <1>1, <1>2
    <3>5. QED
      BY <3>1, <3>2, <3>3, <3>4 DEF FoundBy
  <2>3. QED
    BY <2>1, <2>2 DEF Found
<1>10. Names'
  <2>1. \A i \in 1..Len(Sites') : \A j \in 1..Len(Sites'[i].slots["output"]) :
          i \in 1..n /\ Sites'[i] = Sites[i]
    BY <1>a, <1>b, <1>c, EmptySeq DEF Parts
  <2>2. QED
    <3>1. \A i \in 1..n : \A j \in 1..Len(Sites[i].slots["output"]) :
            Sites[i].slots["output"][j].name = Sites[i].slots["output"][j].key
      BY DEF IndInv, Names, n
    <3>2. \A i \in 1..Len(Sites') : \A j \in 1..Len(Sites'[i].slots["output"]) :
            Sites'[i].slots["output"][j].name = Sites'[i].slots["output"][j].key
      BY <2>1, <3>1
    <3>3. \A a \in Addresses : channels'[a].name = channels'[a].number
      BY <1>1 DEF IndInv, Names
    <3>4. QED
      BY <3>2, <3>3 DEF Names
<1>11. Attributed'
  <2>1. \A i, j \in 1..Len(Sites') : Sites'[i].callSite = Sites'[j].callSite => i = j
    BY <1>8 DEF Caches
  <2>2. DOMAIN Sites' = 1..Len(Sites') /\ DOMAIN Sites = 1..n
    BY <1>5, <1>n, OwnDomain DEF Variables, n
  <2>3. \A i \in DOMAIN Sites', p \in Parts :
          \/ i \in DOMAIN Sites /\ Sites'[i] = Sites[i]
          \/ Sites'[i].overflow[p] = {} /\ DOMAIN Sites'[i].slots[p] = {}
    <3>1. DOMAIN <<>> = {}
      OBVIOUS
    <3>2. QED
      BY <1>a, <1>b, <1>c, <2>2, <3>1
  <2>4. ASSUME NEW i \in DOMAIN Sites', NEW p \in Parts
        PROVE  /\ \A r \in Sites'[i].overflow[p] : logged[r].callSite = Sites'[i].callSite
               /\ \A j \in DOMAIN Sites'[i].slots[p] :
                    /\ \A k \in DOMAIN Sites'[i].slots[p] :
                         Sites'[i].slots[p][j].key = Sites'[i].slots[p][k].key => j = k
                    /\ \A r \in Sites'[i].slots[p][j].counted :
                         /\ logged[r].callSite = Sites'[i].callSite
                         /\ p = "output" => logged[r].name = Sites'[i].slots[p][j].name
    <3>1. CASE i \in DOMAIN Sites /\ Sites'[i] = Sites[i]
      BY <3>1 DEF IndInv, Attributed
    <3>2. CASE Sites'[i].overflow[p] = {} /\ DOMAIN Sites'[i].slots[p] = {}
      BY <3>2
    <3>3. QED
      BY <2>3, <3>1, <3>2
  <2>5. logged' = logged
    BY <1>1
  <2>6. QED
    BY <2>1, <2>2, <2>4, <2>5 DEF Attributed
<1>12. Places' /\ Ahead'
  <2>1. /\ \A i \in 1..Len(Sites'), p \in Parts :
             \/ i \in 1..n /\ Sites'[i] = Sites[i]
             \/ Sites'[i].overflow[p] = {} /\ 1..Len(Sites'[i].slots[p]) = {}
        /\ \A i \in 1..n : i \in 1..Len(Sites') /\ Sites'[i] = Sites[i]
    <3>1. 1..Len(<<>>) = {}
      BY EmptySeq
    <3>2. QED
      BY <1>a, <1>b, <1>c, <3>1
  <2>2. ASSUME NEW p \in Parts, NEW r \in 1..Len(logged)
        PROVE  (InOverflow(p, r)' <=> InOverflow(p, r)) /\ (InSlot(p, r)' <=> InSlot(p, r))
    <3>1. InOverflow(p, r)' <=> InOverflow(p, r)
      BY <2>1 DEF InOverflow, n
    <3>2. InSlot(p, r)' => InSlot(p, r)
      BY <2>1 DEF InSlot, n
    <3>3. InSlot(p, r) => InSlot(p, r)'
      BY <2>1 DEF InSlot, n
    <3>4. QED
      BY <3>1, <3>2, <3>3
  <2>3. \A p \in Parts, i \in 1..Len(Sites') : \A j, k \in 1..Len(Sites'[i].slots[p]) :
          \A r \in Sites'[i].slots[p][j].counted : r \in Sites'[i].slots[p][k].counted => j = k
    <3>1. \A p \in Parts, i \in 1..n : \A j, k \in 1..Len(Sites[i].slots[p]) :
            \A r \in Sites[i].slots[p][j].counted : r \in Sites[i].slots[p][k].counted => j = k
      BY DEF IndInv, Places, n
    <3>2. QED
      BY <2>1, <3>1
  <2>4. pc[t] \in Uncollected /\ "store site" \in Owing
    BY <1>1 DEF Uncollected, Owing
  <2>5. QED
    BY <1>1, <2>2, <2>3, <2>4, CollectKeepsPlaces DEF Ahead
<1>13. Waited'
  BY <1>1, <1>2 DEF IndInv, Waited, NobodyInside, Inside, Owing
<1>14. Reported'
  <2>1. pc[t] \in Inside
    BY <1>1 DEF Inside
  <2>2. command = "dump" => Active
    BY <2>1 DEF IndInv, Waited, NobodyInside
  <2>3. QED
    BY <1>1, <2>2 DEF IndInv, Reported
<1>15. InFlightExact'
  BY <1>1, InFlightMoves DEF IndInv, Labels, Inside, Owing
<1>16. QED
  BY <1>5, <1>6, <1>7, <1>8, <1>9, <1>10, <1>11, <1>12, <1>13, <1>14, <1>15 DEF IndInv

(* The site objects keep their call sites. *)
SameSites ==
  /\ Sites' \in Seq(ToSet(Sites')) /\ Len(Sites') = Len(Sites)
  /\ \A i \in 1..Len(Sites) :
       /\ Sites'[i].callSite = Sites[i].callSite
       /\ DOMAIN Sites'[i] = {"callSite", "slots", "overflow"}
       /\ DOMAIN Sites'[i].slots = Parts /\ DOMAIN Sites'[i].overflow = Parts

(* Their slots keep what names them, and may become more. *)
SlotsGrow ==
  \A i \in 1..Len(Sites), p \in Parts :
    /\ Sites'[i].slots[p] \in Seq(ToSet(Sites'[i].slots[p]))
    /\ Len(Sites[i].slots[p]) <= Len(Sites'[i].slots[p])
    /\ Len(Sites'[i].slots[p]) <= SlotCount
    /\ \A j \in 1..Len(Sites[i].slots[p]) :
         Sites'[i].slots[p][j].key = Sites[i].slots[p][j].key

(* They count records that were logged. *)
CountersFit ==
  \A i \in 1..Len(Sites), p \in Parts :
    /\ Sites'[i].overflow[p] \subseteq 1..Len(logged)
    /\ \A j \in 1..Len(Sites'[i].slots[p]) :
         /\ DOMAIN Sites'[i].slots[p][j] = {"key", "name", "counted"}
         /\ Sites'[i].slots[p][j].counted \subseteq 1..Len(logged)

(* What such a change keeps. *)
LEMMA SitesEvolve ==
  ASSUME IndInv, SameSites, SlotsGrow, CountersFit,
         UNCHANGED <<SiteByKey, Statistics, Generation, logged, channels, part, callSite, address>>
  PROVE  /\ SiteShapes' /\ Caches'
         /\ \A u \in Threads :
              (/\ pc'[u] = pc[u] \/ (pc[u] \in Owing /\ pc'[u] = "count")
               /\ site'[u] = site[u] /\ slot'[u] = slot[u])
                => FoundBy(u)'
<1>1. SiteShapes'
  <2>1. \A i \in 1..Len(Sites') : i \in 1..Len(Sites)
    BY DEF SameSites
  <2>2. ASSUME NEW i \in 1..Len(Sites)
        PROVE  /\ DOMAIN Sites'[i] = {"callSite", "slots", "overflow"}
               /\ DOMAIN Sites'[i].slots = Parts /\ DOMAIN Sites'[i].overflow = Parts
    BY DEF SameSites
  <2>3. ASSUME NEW i \in 1..Len(Sites), NEW p \in Parts
        PROVE  /\ Sites'[i].slots[p] \in Seq(ToSet(Sites'[i].slots[p]))
               /\ Len(Sites'[i].slots[p]) <= SlotCount
    BY DEF SlotsGrow
  <2>4. ASSUME NEW i \in 1..Len(Sites), NEW p \in Parts
        PROVE  /\ Sites'[i].overflow[p] \subseteq 1..Len(logged')
               /\ \A j \in 1..Len(Sites'[i].slots[p]) :
                    /\ DOMAIN Sites'[i].slots[p][j] = {"key", "name", "counted"}
                    /\ Sites'[i].slots[p][j].counted \subseteq 1..Len(logged')
    BY DEF CountersFit
  <2>5. QED
    BY <2>1, <2>2, <2>3, <2>4 DEF SiteShapes
<1>2. Caches'
  <2>1. Len(Sites') = Len(Sites)
          /\ \A i \in 1..Len(Sites) : Sites'[i].callSite = Sites[i].callSite
    BY DEF SameSites
  <2>2. QED
    BY <2>1 DEF IndInv, Caches
<1>3. ASSUME NEW u \in Threads, pc'[u] = pc[u] \/ (pc[u] \in Owing /\ pc'[u] = "count"),
             site'[u] = site[u], slot'[u] = slot[u]
      PROVE  FoundBy(u)'
  <2>1. FoundBy(u) /\ part[u] \in Parts /\ Len(Sites) \in Nat
    BY OwnDomain DEF IndInv, Found, Variables
  <2>2. Key(u)' = Key(u)
    BY DEF Key
  <2>3. pc[u] \in Owing => site[u] \in 1..Len(Sites)
    <3>1. site[u] \in 0..Len(Sites) /\ (pc[u] \in Owing => site[u] # 0)
      BY <2>1 DEF FoundBy, None
    <3>2. QED
      BY <2>1, <3>1
  <2>4. pc'[u] \in Owing => pc[u] \in Owing
    BY <1>3
  <2>5. pc'[u] = "count" /\ slot[u] # None =>
          /\ pc[u] = "count" /\ site[u] \in 1..Len(Sites)
          /\ slot[u] \in 1..Len(Sites[site[u]].slots[part[u]])
          /\ Sites[site[u]].slots[part[u]][slot[u]].key = Key(u)
    BY <1>3, <2>1, <2>3 DEF FoundBy, Owing
  <2>6. \A i \in 1..Len(Sites), p \in Parts :
          \A j \in 1..Len(Sites[i].slots[p]) : j \in 1..Len(Sites'[i].slots[p])
    <3>1. \A i \in 1..Len(Sites), p \in Parts :
            /\ Len(Sites[i].slots[p]) \in Nat /\ Len(Sites'[i].slots[p]) \in Nat
            /\ Len(Sites[i].slots[p]) <= Len(Sites'[i].slots[p])
      BY OwnDomain DEF IndInv, SiteShapes, SlotsGrow
    <3>2. QED
      BY <3>1
  <2>7. pc'[u] \notin {"count", "leave"} => pc[u] \notin {"count", "leave"}
    BY <1>3
  <2>8. pc'[u] \in {"load site", "store generation"} => pc[u] \in {"load site", "store generation"}
    BY <1>3
  <2>9. pc'[u] \in Owing => site'[u] # None /\ Sites'[site'[u]].callSite = callSite'[u]
    BY <1>3, <2>1, <2>3, <2>4 DEF FoundBy, SameSites
  <2>10. pc'[u] = "count" /\ slot'[u] # None =>
           /\ slot'[u] \in 1..Len(Sites'[site'[u]].slots[part'[u]])
           /\ Sites'[site'[u]].slots[part'[u]][slot'[u]].key = Key(u)'
    <3>1. ASSUME pc'[u] = "count", slot[u] # None
          PROVE  /\ slot[u] \in 1..Len(Sites'[site[u]].slots[part[u]])
                 /\ Sites'[site[u]].slots[part[u]][slot[u]].key = Key(u)
      <4>1. /\ site[u] \in 1..Len(Sites)
            /\ slot[u] \in 1..Len(Sites[site[u]].slots[part[u]])
            /\ Sites[site[u]].slots[part[u]][slot[u]].key = Key(u)
        BY <2>5, <3>1
      <4>2. Sites'[site[u]].slots[part[u]][slot[u]].key = Sites[site[u]].slots[part[u]][slot[u]].key
        BY <2>1, <4>1 DEF SlotsGrow
      <4>3. slot[u] \in 1..Len(Sites'[site[u]].slots[part[u]])
        BY <2>1, <2>6, <4>1
      <4>4. QED
        BY <4>1, <4>2, <4>3
    <3>2. QED
      BY <1>3, <2>2, <3>1
  <2>11. QED
    BY <1>3, <2>1, <2>7, <2>8, <2>9, <2>10 DEF FoundBy, SameSites
<1>4. QED
  BY <1>1, <1>2, <1>3

(* The elements of a sequence are replaced. *)
LEMMA ReplacedOwn ==
  ASSUME NEW q, q \in Seq(ToSet(q)), NEW s, DOMAIN s = DOMAIN q, s = [i \in DOMAIN q |-> s[i]]
  PROVE  s \in Seq(ToSet(s)) /\ Len(s) = Len(q)
<1>1. Len(q) \in Nat /\ DOMAIN q = 1..Len(q)
  BY LenProperties
<1>2. s \in [1..Len(q) -> ToSet(s)]
  BY <1>1 DEF ToSet
<1>3. s \in Seq(ToSet(s))
  BY <1>1, <1>2, SeqDef
<1>4. QED
  BY <1>1, <1>3, LenProperties

(* The slots of one part of a site object are replaced. *)
SlotsBecome(k, q, s) == Sites' = [Sites EXCEPT ![k].slots[q] = s]

(* What that does to the site objects. *)
LEMMA SlotsReplaced ==
  ASSUME IndInv, NEW k \in 1..Len(Sites), NEW q \in Parts, NEW s,
         SlotsBecome(k, q, s)
  PROVE  /\ Sites' \in Seq(ToSet(Sites')) /\ Len(Sites') = Len(Sites)
         /\ \A i \in 1..Len(Sites) :
              /\ Sites'[i].callSite = Sites[i].callSite
              /\ Sites'[i].overflow = Sites[i].overflow
              /\ DOMAIN Sites'[i] = {"callSite", "slots", "overflow"}
              /\ DOMAIN Sites'[i].slots = Parts
              /\ \A p \in Parts :
                   Sites'[i].slots[p] = IF i = k /\ p = q THEN s ELSE Sites[i].slots[p]
<1>1. /\ \A i \in 1..Len(Sites) :
           DOMAIN Sites[i] = {"callSite", "slots", "overflow"} /\ DOMAIN Sites[i].slots = Parts
      /\ Sites \in Seq(ToSet(Sites))
  BY DEF IndInv, SiteShapes, Variables
<1> DEFINE e == [Sites[k] EXCEPT !.slots[q] = s]
<1>2. Sites' = [Sites EXCEPT ![k] = e]
  BY DEF SlotsBecome
<1>3. /\ e.callSite = Sites[k].callSite /\ e.overflow = Sites[k].overflow
      /\ DOMAIN e = {"callSite", "slots", "overflow"} /\ DOMAIN e.slots = Parts
      /\ \A p \in Parts : e.slots[p] = IF p = q THEN s ELSE Sites[k].slots[p]
  BY <1>1
<1> HIDE DEF e
<1>4. /\ Sites' \in Seq(ToSet(Sites')) /\ Len(Sites') = Len(Sites)
      /\ \A i \in 1..Len(Sites) : Sites'[i] = IF i = k THEN e ELSE Sites[i]
  <2>1. Sites \in Seq(ToSet(Sites))
    BY <1>1
  <2>2. DOMAIN Sites = 1..Len(Sites)
    BY <2>1, OwnDomain
  <2>3. /\ DOMAIN Sites' = DOMAIN Sites /\ Sites' = [i \in DOMAIN Sites |-> Sites'[i]]
        /\ \A i \in 1..Len(Sites) : Sites'[i] = IF i = k THEN e ELSE Sites[i]
    BY <1>2, <2>2
  <2>4. Sites' \in Seq(ToSet(Sites')) /\ Len(Sites') = Len(Sites)
    BY <2>1, <2>3, ReplacedOwn
  <2>5. QED
    BY <2>3, <2>4
<1>5. QED
  BY <1>1, <1>3, <1>4

(* A slot is found under the Lock after all, or there is no room for one. *)
LEMMA FoundSlotPreserves ==
  ASSUME IndInv, NEW t \in Threads, GetOrCreateSlot(t), UNCHANGED Sites
  PROVE  IndInv'
<1>1. /\ pc[t] = "create" /\ pc' = [pc EXCEPT ![t] = "count"] /\ pc'[t] = "count"
      /\ UNCHANGED <<Active, HasSession, Sites, SiteByKey, InFlight, Statistics, Generation,
                     channels, call, site, control, logged, collected, report>>
  BY DEF GetOrCreateSlot, Goto, cache, IndInv, Variables
<1>2. /\ slot[t] = None /\ slot[t] \in 0..SlotCount /\ site[t] \in 1..Len(Sites)
      /\ part[t] \in Parts /\ FoundBy(t)
      /\ site \in [Threads -> Nat] /\ slot \in [Threads -> Nat]
      /\ Statistics \in [CallSites -> Nat] /\ Generation \in [CallSites -> BOOLEAN]
  <2>1. /\ slot[t] = None /\ site[t] # None /\ site[t] \in 0..Len(Sites) /\ slot[t] \in 0..SlotCount
        /\ FoundBy(t)
    BY <1>1 DEF IndInv, Found, FoundBy, Owing
  <2>2. QED
    BY <2>1 DEF None, IndInv, Variables
<1> DEFINE slots == Sites[site[t]].slots[part[t]]
<1>3. slots \in Seq(ToSet(slots)) /\ Len(slots) <= SlotCount
  BY <1>2 DEF IndInv, SiteShapes
<1>4. Len(slots) \in Nat /\ DOMAIN slots = 1..Len(slots)
  BY <1>3, OwnDomain
<1>5. \A i \in SlotsWithKey(t) :
        i \in 1..Len(slots) /\ i \in 1..SlotCount /\ slots[i].key = Key(t)
  BY <1>3, <1>4, StatisticsAssumption DEF SlotsWithKey
<1>6. slot' = slot \/ \E i \in SlotsWithKey(t) : slot' = [slot EXCEPT ![t] = i]
  <2>1. CASE SlotsWithKey(t) # {}
    <3>1. (CHOOSE i \in SlotsWithKey(t) : TRUE) \in SlotsWithKey(t)
      BY <2>1
    <3>2. slot' = [slot EXCEPT ![t] = CHOOSE i \in SlotsWithKey(t) : TRUE]
      BY <2>1 DEF GetOrCreateSlot
    <3>3. QED
      BY <3>1, <3>2
  <2>2. CASE SlotsWithKey(t) = {} /\ Len(slots) < SlotCount
    <3>1. Sites' = [Sites EXCEPT ![site[t]].slots[part[t]] = Append(slots, EmptySlot(t))]
      BY <2>2 DEF GetOrCreateSlot
    <3>2. Sites'[site[t]].slots[part[t]] = Append(slots, EmptySlot(t))
      <4> DEFINE k == site[t]
                 q == part[t]
                 s == Append(slots, EmptySlot(t))
      <4>1. k \in 1..Len(Sites) /\ q \in Parts /\ SlotsBecome(k, q, s)
        BY <1>2, <3>1 DEF SlotsBecome
      <4> HIDE DEF k, q, s
      <4>2. Sites'[k].slots[q] = s
        BY <4>1, SlotsReplaced
      <4>3. QED
        BY <4>2 DEF k, q, s
    <3>3. Len(Append(slots, EmptySlot(t))) = Len(slots) + 1
      BY <1>3, AppendOwn
    <3>4. FALSE
      <4>1. Append(slots, EmptySlot(t)) = slots
        BY <3>2
      <4>2. QED
        BY <1>4, <3>3, <4>1
    <3>5. QED
      BY <3>4
  <2>3. CASE SlotsWithKey(t) = {} /\ ~ (Len(slots) < SlotCount)
    BY <2>3 DEF GetOrCreateSlot
  <2>4. QED
    BY <2>1, <2>2, <2>3
<1>7. /\ slot' \in [Threads -> Nat] /\ slot'[t] \in 0..SlotCount
      /\ \A u \in Threads \ {t} : slot'[u] = slot[u]
      /\ slot'[t] # None => slot'[t] \in 1..Len(slots) /\ slots[slot'[t]].key = Key(t)
  BY <1>2, <1>5, <1>6
<1>8. FoundBy(t)'
  <2>1. Key(t)' = Key(t)
    BY <1>1 DEF Key, call
  <2>2. QED
    BY <1>1, <1>2, <1>7, <2>1 DEF FoundBy, Owing, call
<1>9. Caches'
  BY <1>1, CachesStay DEF IndInv
<1>10. QED
  BY <1>1, <1>2, <1>7, <1>8, <1>9, ThreadMoves DEF Labels, Inside, Owing, Uncollected

(* An empty slot is made. *)
LEMMA NewSlotPreserves ==
  ASSUME IndInv, NEW t \in Threads, pc[t] = "create", SlotsWithKey(t) = {},
         Len(Sites[site[t]].slots[part[t]]) < SlotCount, GetOrCreateSlot(t)
  PROVE  IndInv'
<1> DEFINE k == site[t]
           q == part[t]
           slots == Sites[k].slots[q]
           m == Len(slots)
<1>1. /\ pc' = [pc EXCEPT ![t] = "count"]
      /\ slot' = [slot EXCEPT ![t] = m + 1]
      /\ Sites' = [Sites EXCEPT ![k].slots[q] = Append(slots, EmptySlot(t))]
      /\ UNCHANGED <<Active, HasSession, InFlight, SiteByKey, Statistics, Generation, site,
                     channels, part, record, callSite, address, command, wasActive,
                     commands, logged, collected, report>>
  BY DEF GetOrCreateSlot, Goto, cache, call, control
<1>2. /\ \A u \in Threads : pc'[u] = IF u = t THEN "count" ELSE pc[u]
      /\ \A u \in Threads : slot'[u] = IF u = t THEN m + 1 ELSE slot[u]
  BY <1>1 DEF IndInv, Variables
<1>3. k \in 1..Len(Sites) /\ q \in Parts /\ Sites[k].callSite = callSite[t]
  <2>1. site[t] # None /\ site[t] \in 0..Len(Sites) /\ Sites[k].callSite = callSite[t]
    BY DEF IndInv, Found, FoundBy, Owing
  <2>2. QED
    BY <2>1 DEF None, IndInv, Variables
<1>4. /\ \A i \in 1..Len(Sites) :
           /\ DOMAIN Sites[i] = {"callSite", "slots", "overflow"}
           /\ DOMAIN Sites[i].slots = Parts /\ DOMAIN Sites[i].overflow = Parts
      /\ \A i \in 1..Len(Sites), p \in Parts :
           /\ Sites[i].slots[p] \in Seq(ToSet(Sites[i].slots[p]))
           /\ Len(Sites[i].slots[p]) \in Nat /\ Len(Sites[i].slots[p]) <= SlotCount
           /\ DOMAIN Sites[i].slots[p] = 1..Len(Sites[i].slots[p])
      /\ Sites \in Seq(ToSet(Sites)) /\ DOMAIN Sites = 1..Len(Sites) /\ Len(Sites) \in Nat
  BY OwnDomain DEF IndInv, SiteShapes, Variables
<1>e. /\ DOMAIN EmptySlot(t) = {"key", "name", "counted"} /\ EmptySlot(t).counted = {}
      /\ EmptySlot(t).key = Key(t) /\ EmptySlot(t).name = channels[address[t]].name
  BY DEF EmptySlot
<1>s. /\ Append(slots, EmptySlot(t)) \in Seq(ToSet(Append(slots, EmptySlot(t))))
      /\ m \in Nat /\ m < SlotCount /\ Len(Append(slots, EmptySlot(t))) = m + 1
      /\ \A j \in 1..m : Append(slots, EmptySlot(t))[j] = slots[j]
      /\ Append(slots, EmptySlot(t))[m + 1] = EmptySlot(t)
  BY <1>3, <1>4, AppendOwn
<1>5. /\ Sites' \in Seq(ToSet(Sites')) /\ Len(Sites') = Len(Sites)
      /\ \A i \in 1..Len(Sites) :
           /\ Sites'[i].callSite = Sites[i].callSite
           /\ Sites'[i].overflow = Sites[i].overflow
           /\ DOMAIN Sites'[i] = {"callSite", "slots", "overflow"}
           /\ DOMAIN Sites'[i].slots = Parts
           /\ \A p \in Parts : Sites'[i].slots[p] =
                IF i = k /\ p = q THEN Append(slots, EmptySlot(t)) ELSE Sites[i].slots[p]
  <2> DEFINE s == Append(slots, EmptySlot(t))
  <2>1. k \in 1..Len(Sites) /\ q \in Parts /\ SlotsBecome(k, q, s)
    BY <1>1, <1>3 DEF SlotsBecome
  <2> HIDE DEF k, q, s
  <2>2. QED
    BY <2>1, SlotsReplaced DEF s
<1>6. \A i \in 1..Len(Sites), p \in Parts :
        /\ Sites'[i].slots[p] \in Seq(ToSet(Sites'[i].slots[p]))
        /\ Len(Sites'[i].slots[p]) =
             IF i = k /\ p = q THEN Len(Sites[i].slots[p]) + 1 ELSE Len(Sites[i].slots[p])
        /\ Len(Sites'[i].slots[p]) <= SlotCount
        /\ Len(Sites[i].slots[p]) <= Len(Sites'[i].slots[p])
        /\ \A j \in 1..Len(Sites[i].slots[p]) : Sites'[i].slots[p][j] = Sites[i].slots[p][j]
  <2>1. m + 1 <= SlotCount /\ m <= m + 1
    BY <1>s, StatisticsAssumption
  <2>2. ASSUME NEW i \in 1..Len(Sites), NEW p \in Parts, i = k, p = q
        PROVE  /\ Sites'[i].slots[p] \in Seq(ToSet(Sites'[i].slots[p]))
               /\ Len(Sites'[i].slots[p]) = Len(Sites[i].slots[p]) + 1
               /\ Len(Sites'[i].slots[p]) <= SlotCount
               /\ Len(Sites[i].slots[p]) <= Len(Sites'[i].slots[p])
               /\ \A j \in 1..Len(Sites[i].slots[p]) : Sites'[i].slots[p][j] = Sites[i].slots[p][j]
    <3>1. Sites'[i].slots[p] = Append(slots, EmptySlot(t)) /\ Sites[i].slots[p] = slots
      BY <1>3, <1>5, <2>2
    <3>2. QED
      BY <1>s, <2>1, <3>1
  <2>3. ASSUME NEW i \in 1..Len(Sites), NEW p \in Parts, ~ (i = k /\ p = q)
        PROVE  /\ Sites'[i].slots[p] \in Seq(ToSet(Sites'[i].slots[p]))
               /\ Len(Sites'[i].slots[p]) = Len(Sites[i].slots[p])
               /\ Len(Sites'[i].slots[p]) <= SlotCount
               /\ Len(Sites[i].slots[p]) <= Len(Sites'[i].slots[p])
               /\ \A j \in 1..Len(Sites[i].slots[p]) : Sites'[i].slots[p][j] = Sites[i].slots[p][j]
    <3>1. Sites'[i].slots[p] = Sites[i].slots[p]
      BY <1>5, <2>3
    <3>2. QED
      BY <1>4, <3>1
  <2>4. QED
    BY <2>2, <2>3
<1>7. Sites'[k].slots[q][m + 1] = EmptySlot(t)
  BY <1>3, <1>5, <1>s
<1>8. \A i \in 1..Len(Sites), p \in Parts : \A j \in 1..Len(Sites'[i].slots[p]) :
        \/ j \in 1..Len(Sites[i].slots[p])
        \/ i = k /\ p = q /\ j = m + 1 /\ Sites'[i].slots[p][j] = EmptySlot(t)
  <2>1. SUFFICES ASSUME NEW i \in 1..Len(Sites), NEW p \in Parts,
                        NEW j \in 1..Len(Sites'[i].slots[p])
                 PROVE  \/ j \in 1..Len(Sites[i].slots[p])
                        \/ i = k /\ p = q /\ j = m + 1 /\ Sites'[i].slots[p][j] = EmptySlot(t)
    OBVIOUS
  <2>2. CASE i = k /\ p = q
    <3>1. Len(Sites'[i].slots[p]) = m + 1 /\ Len(Sites[i].slots[p]) = m
      BY <1>6, <2>2
    <3>2. j \in 1..m \/ j = m + 1
      <4>1. j \in 1..(m + 1) /\ m \in Nat
        BY <1>s, <3>1
      <4>2. QED
        BY <4>1
    <3>3. QED
      BY <1>7, <2>2, <3>1, <3>2
  <2>3. CASE ~ (i = k /\ p = q)
    <3>1. Len(Sites'[i].slots[p]) = Len(Sites[i].slots[p])
      BY <1>6, <2>3
    <3>2. QED
      BY <3>1
  <2>4. QED
    BY <2>2, <2>3
<1>k. \A j \in 1..m : slots[j].key # Key(t)
  BY <1>3, <1>4 DEF SlotsWithKey
<1>z. m + 1 \in 0..SlotCount /\ m + 1 \in 1..(m + 1) /\ m + 1 \notin 1..m
  <2>1. m \in Nat /\ SlotCount \in Nat /\ m < SlotCount
    BY <1>s, StatisticsAssumption
  <2> HIDE DEF m
  <2>2. QED
    BY <2>1
<1>9. Variables'
  <2>1. slot' \in [Threads -> Nat]
    BY <1>1, <1>s DEF IndInv, Variables
  <2>2. pc' \in [Threads -> Labels]
    BY <1>1 DEF IndInv, Variables, Labels, Inside, Owing
  <2>3. QED
    BY <1>1, <1>5, <2>1, <2>2 DEF IndInv, Variables
<1>10. /\ SiteShapes' /\ Caches'
       /\ \A u \in Threads \ {t} : FoundBy(u)'
  <2>1. \A i \in 1..Len(Sites), p \in Parts :
          /\ Sites'[i].overflow[p] \subseteq 1..Len(logged)
          /\ \A j \in 1..Len(Sites'[i].slots[p]) :
               /\ DOMAIN Sites'[i].slots[p][j] = {"key", "name", "counted"}
               /\ Sites'[i].slots[p][j].counted \subseteq 1..Len(logged)
    <3>1. SUFFICES ASSUME NEW i \in 1..Len(Sites), NEW p \in Parts
                   PROVE  /\ Sites'[i].overflow[p] \subseteq 1..Len(logged)
                          /\ \A j \in 1..Len(Sites'[i].slots[p]) :
                               /\ DOMAIN Sites'[i].slots[p][j] = {"key", "name", "counted"}
                               /\ Sites'[i].slots[p][j].counted \subseteq 1..Len(logged)
      OBVIOUS
    <3>2. /\ Sites[i].overflow[p] \subseteq 1..Len(logged)
          /\ \A j \in 1..Len(Sites[i].slots[p]) :
               /\ DOMAIN Sites[i].slots[p][j] = {"key", "name", "counted"}
               /\ Sites[i].slots[p][j].counted \subseteq 1..Len(logged)
      BY DEF IndInv, SiteShapes
    <3>3. Sites'[i].overflow[p] \subseteq 1..Len(logged)
      BY <1>5, <3>2
    <3>4. ASSUME NEW j \in 1..Len(Sites'[i].slots[p])
          PROVE  /\ DOMAIN Sites'[i].slots[p][j] = {"key", "name", "counted"}
                 /\ Sites'[i].slots[p][j].counted \subseteq 1..Len(logged)
      <4>1. CASE j \in 1..Len(Sites[i].slots[p])
        <5>1. Sites'[i].slots[p][j] = Sites[i].slots[p][j]
          BY <1>6, <4>1
        <5>2. QED
          BY <3>2, <4>1, <5>1
      <4>2. CASE Sites'[i].slots[p][j] = EmptySlot(t)
        BY <1>e, <4>2
      <4>3. QED
        BY <1>8, <4>1, <4>2
    <3>5. QED
      BY <3>3, <3>4
  <2>2. \A i \in 1..Len(Sites) : DOMAIN Sites'[i].overflow = Parts
    BY <1>4, <1>5
  <2>3. \A i \in 1..Len(Sites), p \in Parts : \A j \in 1..Len(Sites[i].slots[p]) :
          Sites'[i].slots[p][j].key = Sites[i].slots[p][j].key
    BY <1>6
  <2>4. \A u \in Threads \ {t} : pc'[u] = pc[u] /\ site'[u] = site[u] /\ slot'[u] = slot[u]
    BY <1>1, <1>2
  <2>5. QED
    <3>1. SameSites
      BY <1>5, <2>2 DEF SameSites
    <3>2. SlotsGrow
      BY <1>6, <2>3 DEF SlotsGrow
    <3>3. CountersFit
      BY <2>1 DEF CountersFit
    <3>4. QED
      BY <1>1, <2>4, <3>1, <3>2, <3>3, SitesEvolve
<1>11. Calls'
  <2>1. \A u \in Threads : CallOf(u)
    BY DEF IndInv, Calls
  <2>2. pc[t] # "idle"
    OBVIOUS
  <2>3. \A u \in Threads : pc'[u] = "idle" <=> pc[u] = "idle"
    BY <1>2, <2>2
  <2>4. \A u \in Threads : CallOf(u)'
    BY <1>1, <2>1, <2>3 DEF CallOf
  <2>5. QED
    BY <1>1, <2>4 DEF IndInv, Calls
<1>12. Found'
  <2>1. Key(t)' = Key(t)
    BY <1>1 DEF Key
  <2>2. pc'[t] = "count" /\ slot'[t] = m + 1 /\ site'[t] = k /\ part'[t] = q
    BY <1>1, <1>2
  <2>3. Len(Sites'[k].slots[q]) = m + 1
    BY <1>3, <1>6
  <2>4. site'[t] \in 0..Len(Sites') /\ site'[t] # None
    BY <1>3, <1>5, <2>2 DEF None
  <2>5. Sites'[site'[t]].callSite = callSite'[t]
    BY <1>1, <1>3, <1>5, <2>2
  <2>6. FoundBy(t)'
    BY <1>7, <1>e, <1>z, <2>1, <2>2, <2>3, <2>4, <2>5 DEF FoundBy
  <2>7. QED
    BY <1>10, <2>6 DEF Found
<1>13. Names'
  <2>1. q = "output" => EmptySlot(t).name = EmptySlot(t).key
    <3>1. address[t] \in Addresses
      BY DEF IndInv, Calls, CallOf
    <3>2. QED
      BY <1>e, <3>1 DEF Key, IndInv, Names
  <2>2. "output" \in Parts
    BY DEF Parts
  <2>3. \A i \in 1..Len(Sites) : \A j \in 1..Len(Sites'[i].slots["output"]) :
          Sites'[i].slots["output"][j].name = Sites'[i].slots["output"][j].key
    <3>1. SUFFICES ASSUME NEW i \in 1..Len(Sites), NEW j \in 1..Len(Sites'[i].slots["output"])
                   PROVE  Sites'[i].slots["output"][j].name = Sites'[i].slots["output"][j].key
      OBVIOUS
    <3>2. CASE j \in 1..Len(Sites[i].slots["output"])
      <4>1. Sites'[i].slots["output"][j] = Sites[i].slots["output"][j]
        BY <1>6, <2>2, <3>2
      <4>2. QED
        BY <3>2, <4>1 DEF IndInv, Names
    <3>3. CASE q = "output" /\ Sites'[i].slots["output"][j] = EmptySlot(t)
      BY <2>1, <3>3
    <3>4. QED
      BY <1>8, <2>2, <3>2, <3>3
  <2>4. QED
    BY <1>1, <1>5, <2>3 DEF IndInv, Names
<1>14. Attributed'
  <2>1. DOMAIN Sites' = 1..Len(Sites)
          /\ \A i \in 1..Len(Sites), p \in Parts :
               DOMAIN Sites'[i].slots[p] = 1..Len(Sites'[i].slots[p])
    BY <1>5, <1>6, OwnDomain
  <2>2. \A i, j \in 1..Len(Sites) : Sites'[i].callSite = Sites'[j].callSite => i = j
    <3>1. \A i, j \in 1..Len(Sites) : Sites[i].callSite = Sites[j].callSite => i = j
      BY <1>4 DEF IndInv, Attributed
    <3>2. QED
      BY <1>5, <3>1
  <2>3. ASSUME NEW i \in 1..Len(Sites), NEW p \in Parts
        PROVE  /\ \A r \in Sites'[i].overflow[p] : logged[r].callSite = Sites'[i].callSite
               /\ \A j \in 1..Len(Sites'[i].slots[p]) :
                    /\ \A l \in 1..Len(Sites'[i].slots[p]) :
                         Sites'[i].slots[p][j].key = Sites'[i].slots[p][l].key => j = l
                    /\ \A r \in Sites'[i].slots[p][j].counted :
                         /\ logged[r].callSite = Sites'[i].callSite
                         /\ p = "output" => logged[r].name = Sites'[i].slots[p][j].name
    <3>1. /\ \A r \in Sites[i].overflow[p] : logged[r].callSite = Sites[i].callSite
          /\ \A j \in 1..Len(Sites[i].slots[p]) :
               /\ \A l \in 1..Len(Sites[i].slots[p]) :
                    Sites[i].slots[p][j].key = Sites[i].slots[p][l].key => j = l
               /\ \A r \in Sites[i].slots[p][j].counted :
                    /\ logged[r].callSite = Sites[i].callSite
                    /\ p = "output" => logged[r].name = Sites[i].slots[p][j].name
      <4>1. i \in DOMAIN Sites /\ DOMAIN Sites[i].slots[p] = 1..Len(Sites[i].slots[p])
        BY <1>4
      <4>2. Attributed
        BY DEF IndInv
      <4>3. QED
        BY <4>1, <4>2 DEF Attributed
    <3>2. \A r \in Sites'[i].overflow[p] : logged[r].callSite = Sites'[i].callSite
      BY <1>5, <3>1
    <3>3. \A j, l \in 1..Len(Sites'[i].slots[p]) :
            Sites'[i].slots[p][j].key = Sites'[i].slots[p][l].key => j = l
      <4>1. SUFFICES ASSUME NEW j \in 1..Len(Sites'[i].slots[p]),
                            NEW l \in 1..Len(Sites'[i].slots[p]),
                            Sites'[i].slots[p][j].key = Sites'[i].slots[p][l].key
                     PROVE  j = l
        OBVIOUS
      <4>2. CASE j \in 1..Len(Sites[i].slots[p]) /\ l \in 1..Len(Sites[i].slots[p])
        <5>1. /\ Sites'[i].slots[p][j] = Sites[i].slots[p][j]
              /\ Sites'[i].slots[p][l] = Sites[i].slots[p][l]
          BY <1>6, <4>2
        <5>2. QED
          BY <3>1, <4>1, <4>2, <5>1
      <4>3. ASSUME NEW x \in 1..Len(Sites'[i].slots[p]), NEW y \in 1..Len(Sites'[i].slots[p]),
                   Sites'[i].slots[p][x].key = Sites'[i].slots[p][y].key,
                   x \in 1..Len(Sites[i].slots[p]), y \notin 1..Len(Sites[i].slots[p])
            PROVE  FALSE
        <5>1. i = k /\ p = q /\ Sites'[i].slots[p][y] = EmptySlot(t)
          BY <1>8, <4>3
        <5>2. x \in 1..m /\ Sites'[i].slots[p][x] = slots[x]
          BY <1>6, <4>3, <5>1
        <5>3. QED
          BY <1>e, <1>k, <4>3, <5>1, <5>2
      <4>4. CASE j \notin 1..Len(Sites[i].slots[p]) /\ l \notin 1..Len(Sites[i].slots[p])
        <5>1. j = m + 1 /\ l = m + 1
          BY <1>8, <4>4
        <5>2. QED
          BY <5>1
      <4>5. QED
        BY <4>1, <4>2, <4>3, <4>4
    <3>4. \A j \in 1..Len(Sites'[i].slots[p]) : \A r \in Sites'[i].slots[p][j].counted :
            /\ logged[r].callSite = Sites'[i].callSite
            /\ p = "output" => logged[r].name = Sites'[i].slots[p][j].name
      <4>1. SUFFICES ASSUME NEW j \in 1..Len(Sites'[i].slots[p]),
                            NEW r \in Sites'[i].slots[p][j].counted
                     PROVE  /\ logged[r].callSite = Sites'[i].callSite
                            /\ p = "output" => logged[r].name = Sites'[i].slots[p][j].name
        OBVIOUS
      <4>2. j \in 1..Len(Sites[i].slots[p])
        BY <1>8, <1>e
      <4>3. Sites'[i].slots[p][j] = Sites[i].slots[p][j]
        BY <1>6, <4>2
      <4>4. Sites'[i].callSite = Sites[i].callSite
        BY <1>5
      <4>5. QED
        BY <3>1, <4>1, <4>2, <4>3, <4>4
    <3>5. QED
      BY <3>2, <3>3, <3>4
  <2>4. logged' = logged
    BY <1>1
  <2>5. ASSUME NEW i \in DOMAIN Sites', NEW p \in Parts
        PROVE  /\ \A r \in Sites'[i].overflow[p] : logged[r].callSite = Sites'[i].callSite
               /\ \A j \in DOMAIN Sites'[i].slots[p] :
                    /\ \A l \in DOMAIN Sites'[i].slots[p] :
                         Sites'[i].slots[p][j].key = Sites'[i].slots[p][l].key => j = l
                    /\ \A r \in Sites'[i].slots[p][j].counted :
                         /\ logged[r].callSite = Sites'[i].callSite
                         /\ p = "output" => logged[r].name = Sites'[i].slots[p][j].name
    <3>1. i \in 1..Len(Sites) /\ DOMAIN Sites'[i].slots[p] = 1..Len(Sites'[i].slots[p])
      BY <2>1
    <3>2. QED
      BY <2>3, <3>1
  <2>6. QED
    BY <2>1, <2>2, <2>4, <2>5 DEF Attributed
<1>15. Places'
  <2>1. \A p, r : Owed(p, r)' <=> Owed(p, r)
    BY <1>1, <1>2 DEF Owed, Owing
  <2>2. \A p \in Parts, r \in 1..Len(logged) : InOverflow(p, r)' <=> InOverflow(p, r)
    BY <1>5 DEF InOverflow
  <2>3. \A p \in Parts, r \in 1..Len(logged) : InSlot(p, r)' => InSlot(p, r)
    <3>1. SUFFICES ASSUME NEW p \in Parts, NEW r \in 1..Len(logged), InSlot(p, r)'
                   PROVE  InSlot(p, r)
      OBVIOUS
    <3>2. PICK i \in 1..Len(Sites) : \E j \in 1..Len(Sites'[i].slots[p]) :
            r \in Sites'[i].slots[p][j].counted
      BY <1>5, <3>1 DEF InSlot
    <3>3. PICK j \in 1..Len(Sites'[i].slots[p]) : r \in Sites'[i].slots[p][j].counted
      BY <3>2
    <3>4. j \in 1..Len(Sites[i].slots[p])
      BY <1>8, <1>e, <3>3
    <3>5. Sites'[i].slots[p][j] = Sites[i].slots[p][j]
      BY <1>6, <3>4
    <3>6. QED
      BY <3>3, <3>4, <3>5 DEF InSlot
  <2>4. \A i \in 1..Len(Sites), p \in Parts : \A j \in 1..Len(Sites[i].slots[p]) :
          j \in 1..Len(Sites'[i].slots[p])
    <3>1. SUFFICES ASSUME NEW i \in 1..Len(Sites), NEW p \in Parts,
                          NEW j \in 1..Len(Sites[i].slots[p])
                   PROVE  j \in 1..Len(Sites'[i].slots[p])
      OBVIOUS
    <3> DEFINE n == Len(Sites[i].slots[p])
               n2 == Len(Sites'[i].slots[p])
    <3>2. n \in Nat
      BY <1>4
    <3>3. n2 = n + 1 \/ n2 = n
      BY <1>6
    <3>4. j \in 1..n
      OBVIOUS
    <3> HIDE DEF n, n2
    <3>5. j \in 1..n2
      BY <3>2, <3>3, <3>4
    <3>6. QED
      BY <3>5 DEF n2
  <2>5. \A p \in Parts, r \in 1..Len(logged) : InSlot(p, r) => InSlot(p, r)'
    <3>1. SUFFICES ASSUME NEW p \in Parts, NEW r \in 1..Len(logged), InSlot(p, r)
                   PROVE  InSlot(p, r)'
      OBVIOUS
    <3>2. PICK i \in 1..Len(Sites) : \E j \in 1..Len(Sites[i].slots[p]) :
            r \in Sites[i].slots[p][j].counted
      BY <3>1 DEF InSlot
    <3>3. PICK j \in 1..Len(Sites[i].slots[p]) : r \in Sites[i].slots[p][j].counted
      BY <3>2
    <3>4. j \in 1..Len(Sites'[i].slots[p]) /\ Sites'[i].slots[p][j] = Sites[i].slots[p][j]
      BY <1>6, <2>4
    <3>5. i \in 1..Len(Sites') /\ r \in Sites'[i].slots[p][j].counted
      BY <1>5, <3>3, <3>4
    <3>6. QED
      BY <3>4, <3>5 DEF InSlot
  <2>6. \A p \in Parts, i \in 1..Len(Sites) : \A j, l \in 1..Len(Sites'[i].slots[p]) :
          \A r \in Sites'[i].slots[p][j].counted : r \in Sites'[i].slots[p][l].counted => j = l
    <3>1. \A p \in Parts, i \in 1..Len(Sites) : \A j, l \in 1..Len(Sites[i].slots[p]) :
            \A r \in Sites[i].slots[p][j].counted : r \in Sites[i].slots[p][l].counted => j = l
      BY DEF IndInv, Places
    <3>2. QED
      <4>1. SUFFICES ASSUME NEW p \in Parts, NEW i \in 1..Len(Sites),
                            NEW j \in 1..Len(Sites'[i].slots[p]),
                            NEW l \in 1..Len(Sites'[i].slots[p]), NEW r,
                            r \in Sites'[i].slots[p][j].counted,
                            r \in Sites'[i].slots[p][l].counted
                     PROVE  j = l
        BY Zenon
      <4>2. j \in 1..Len(Sites[i].slots[p]) /\ l \in 1..Len(Sites[i].slots[p])
        BY <1>8, <1>e, <4>1
      <4>3. /\ Sites'[i].slots[p][j] = Sites[i].slots[p][j]
            /\ Sites'[i].slots[p][l] = Sites[i].slots[p][l]
        BY <1>6, <4>2
      <4>4. QED
        BY <3>1, <4>1, <4>2, <4>3
  <2>7. \A p \in Parts, r \in 1..Len(logged) :
          /\ <<p, r>> \in collected <=> Owed(p, r) \/ InOverflow(p, r) \/ InSlot(p, r)
          /\ ~ (Owed(p, r) /\ InOverflow(p, r)) /\ ~ (Owed(p, r) /\ InSlot(p, r))
          /\ ~ (InOverflow(p, r) /\ InSlot(p, r))
    BY DEF IndInv, Places
  <2>8. \A p \in Parts, r \in 1..Len(logged) :
          /\ <<p, r>> \in collected' <=> Owed(p, r)' \/ InOverflow(p, r)' \/ InSlot(p, r)'
          /\ ~ (Owed(p, r)' /\ InOverflow(p, r)') /\ ~ (Owed(p, r)' /\ InSlot(p, r)')
          /\ ~ (InOverflow(p, r)' /\ InSlot(p, r)')
    BY <1>1, <2>1, <2>2, <2>3, <2>5, <2>7
  <2>9. collected' \subseteq Parts \X (1..Len(logged')) /\ logged' = logged
    BY <1>1 DEF IndInv, Places
  <2>10. QED
    BY <1>5, <2>6, <2>8, <2>9 DEF Places
<1>16. Ahead'
  <2>1. \A u \in Threads : AheadOf(u)
    BY DEF IndInv, Ahead
  <2>2. ~ ("count" \in Uncollected) /\ pc[t] # "idle"
    BY DEF Uncollected
  <2>3. QED
    BY <1>1, <1>2, <2>1, <2>2 DEF Ahead, AheadOf
<1>17. Waited' /\ Reported'
  <2>1. pc[t] \in Inside
    BY DEF Inside, Owing
  <2>2. "count" \in Inside
    BY DEF Inside, Owing
  <2>3. Waited'
    BY <1>1, <1>2, <2>1, <2>2 DEF IndInv, Waited, NobodyInside
  <2>4. QED
    BY <1>1, <2>3 DEF IndInv, Reported
<1>18. InFlightExact'
  BY <1>1, InFlightMoves DEF IndInv, Labels, Inside, Owing
<1>19. QED
  BY <1>9, <1>10, <1>11, <1>12, <1>13, <1>14, <1>15, <1>16, <1>17, <1>18 DEF IndInv

(* A counter of a call is the overflow of its part, or the slot it found. *)
Counter(t, i, p) == i = site[t] /\ p = part[t]

(* What Count does to the site objects: the record joins one counter. *)
SameSlots ==
  \A i \in 1..Len(Sites), p \in Parts :
    /\ Sites'[i].slots[p] \in Seq(ToSet(Sites'[i].slots[p]))
    /\ Len(Sites'[i].slots[p]) = Len(Sites[i].slots[p])
    /\ \A j \in 1..Len(Sites[i].slots[p]) :
         /\ DOMAIN Sites'[i].slots[p][j] = {"key", "name", "counted"}
         /\ Sites'[i].slots[p][j].key = Sites[i].slots[p][j].key
         /\ Sites'[i].slots[p][j].name = Sites[i].slots[p][j].name

OverflowCounts(t) ==
  \A i \in 1..Len(Sites), p \in Parts :
    Sites'[i].overflow[p] = IF Counter(t, i, p) /\ slot[t] = None
                            THEN Sites[i].overflow[p] \cup {record[t]} ELSE Sites[i].overflow[p]

SlotCounts(t) ==
  \A i \in 1..Len(Sites), p \in Parts : \A j \in 1..Len(Sites[i].slots[p]) :
    Sites'[i].slots[p][j].counted =
      IF Counter(t, i, p) /\ j = slot[t]
      THEN Sites[i].slots[p][j].counted \cup {record[t]} ELSE Sites[i].slots[p][j].counted

CountedIn(t) == SameSites /\ SameSlots /\ OverflowCounts(t) /\ SlotCounts(t)

(* The record joins the overflow. *)
LEMMA CountsInOverflow ==
  ASSUME IndInv, NEW t \in Threads, pc[t] = "count", slot[t] = None, Count(t)
  PROVE  CountedIn(t)
<1> DEFINE k == site[t]
           q == part[t]
           r == record[t]
           e == [Sites[k] EXCEPT !.overflow[q] = @ \cup {r}]
<1>1. Sites' = [Sites EXCEPT ![k] = e]
  BY DEF Count
<1>2. k \in 1..Len(Sites) /\ q \in Parts
  <2>1. site[t] # None /\ site[t] \in 0..Len(Sites)
    BY DEF IndInv, Found, FoundBy, Owing
  <2>2. QED
    BY <2>1 DEF None, IndInv, Variables
<1>3. /\ \A i \in 1..Len(Sites) :
           /\ DOMAIN Sites[i] = {"callSite", "slots", "overflow"}
           /\ DOMAIN Sites[i].slots = Parts /\ DOMAIN Sites[i].overflow = Parts
      /\ \A i \in 1..Len(Sites), p \in Parts :
           /\ Sites[i].slots[p] \in Seq(ToSet(Sites[i].slots[p]))
           /\ \A j \in 1..Len(Sites[i].slots[p]) :
                DOMAIN Sites[i].slots[p][j] = {"key", "name", "counted"}
      /\ Sites \in Seq(ToSet(Sites)) /\ DOMAIN Sites = 1..Len(Sites)
  <2>1. Sites \in Seq(ToSet(Sites)) /\ DOMAIN Sites = 1..Len(Sites)
    BY OwnDomain DEF IndInv, Variables
  <2>2. QED
    BY <2>1 DEF IndInv, SiteShapes
<1>4. /\ DOMAIN e = {"callSite", "slots", "overflow"} /\ DOMAIN e.overflow = Parts
      /\ e.callSite = Sites[k].callSite /\ e.slots = Sites[k].slots
      /\ \A p \in Parts : e.overflow[p] = IF p = q THEN Sites[k].overflow[p] \cup {r}
                                          ELSE Sites[k].overflow[p]
  BY <1>2, <1>3
<1> HIDE DEF e
<1>5. /\ DOMAIN Sites' = DOMAIN Sites /\ Sites' = [i \in DOMAIN Sites |-> Sites'[i]]
      /\ \A i \in 1..Len(Sites) : Sites'[i] = IF i = k THEN e ELSE Sites[i]
  BY <1>1, <1>3
<1>6. Sites' \in Seq(ToSet(Sites')) /\ Len(Sites') = Len(Sites)
  BY <1>3, <1>5, ReplacedOwn
<1>7. \A i \in 1..Len(Sites) :
        /\ Sites'[i].callSite = Sites[i].callSite /\ Sites'[i].slots = Sites[i].slots
        /\ DOMAIN Sites'[i] = {"callSite", "slots", "overflow"}
        /\ DOMAIN Sites'[i].overflow = Parts
        /\ \A p \in Parts : Sites'[i].overflow[p] =
             IF i = k /\ p = q THEN Sites[i].overflow[p] \cup {r} ELSE Sites[i].overflow[p]
  BY <1>3, <1>4, <1>5
<1>8. \A i \in 1..Len(Sites), p \in Parts : \A j \in 1..Len(Sites[i].slots[p]) : j # slot[t]
  BY DEF None
<1>9. SameSites
  BY <1>3, <1>6, <1>7 DEF SameSites
<1>10. SameSlots
  BY <1>3, <1>7 DEF SameSlots
<1>11. OverflowCounts(t)
  BY <1>7 DEF OverflowCounts, Counter
<1>12. SlotCounts(t)
  BY <1>7, <1>8 DEF SlotCounts
<1>13. QED
  BY <1>9, <1>10, <1>11, <1>12 DEF CountedIn

(* The record joins the slot found. *)
LEMMA CountsInSlot ==
  ASSUME IndInv, NEW t \in Threads, pc[t] = "count", slot[t] # None, Count(t)
  PROVE  CountedIn(t)
<1> DEFINE k == site[t]
           q == part[t]
           r == record[t]
           o == slot[t]
           slots == Sites[k].slots[q]
           e == [slots[o] EXCEPT !.counted = @ \cup {r}]
           s == [slots EXCEPT ![o] = e]
<1>1. SlotsBecome(k, q, s)
  BY DEF Count, SlotsBecome
<1>2. k \in 1..Len(Sites) /\ q \in Parts /\ o \in 1..Len(slots)
  <2>1. site[t] # None /\ site[t] \in 0..Len(Sites) /\ o \in 1..Len(slots)
    BY DEF IndInv, Found, FoundBy, Owing
  <2>2. QED
    BY <2>1 DEF None, IndInv, Variables
<1>3. /\ \A i \in 1..Len(Sites) :
           /\ DOMAIN Sites[i] = {"callSite", "slots", "overflow"}
           /\ DOMAIN Sites[i].slots = Parts /\ DOMAIN Sites[i].overflow = Parts
      /\ \A i \in 1..Len(Sites), p \in Parts :
           /\ Sites[i].slots[p] \in Seq(ToSet(Sites[i].slots[p]))
           /\ \A j \in 1..Len(Sites[i].slots[p]) :
                DOMAIN Sites[i].slots[p][j] = {"key", "name", "counted"}
  BY DEF IndInv, SiteShapes
<1>4. slots \in Seq(ToSet(slots)) /\ DOMAIN slots = 1..Len(slots)
        /\ \A j \in 1..Len(slots) : DOMAIN slots[j] = {"key", "name", "counted"}
  BY <1>2, <1>3, OwnDomain
<1>5. /\ DOMAIN e = {"key", "name", "counted"} /\ e.key = slots[o].key /\ e.name = slots[o].name
      /\ e.counted = slots[o].counted \cup {r}
  BY <1>2, <1>4
<1> HIDE DEF e
<1>6. /\ DOMAIN s = DOMAIN slots /\ s = [i \in DOMAIN slots |-> s[i]]
      /\ \A j \in 1..Len(slots) : s[j] = IF j = o THEN e ELSE slots[j]
  BY <1>4
<1>7. s \in Seq(ToSet(s)) /\ Len(s) = Len(slots)
  BY <1>4, <1>6, ReplacedOwn
<1> HIDE DEF s
<1>8. \A j \in 1..Len(slots) :
        /\ DOMAIN s[j] = {"key", "name", "counted"}
        /\ s[j].key = slots[j].key /\ s[j].name = slots[j].name
        /\ s[j].counted = IF j = o THEN slots[j].counted \cup {r} ELSE slots[j].counted
  BY <1>4, <1>5, <1>6
<1>9. /\ Sites' \in Seq(ToSet(Sites')) /\ Len(Sites') = Len(Sites)
      /\ \A i \in 1..Len(Sites) :
           /\ Sites'[i].callSite = Sites[i].callSite
           /\ Sites'[i].overflow = Sites[i].overflow
           /\ DOMAIN Sites'[i] = {"callSite", "slots", "overflow"}
           /\ DOMAIN Sites'[i].slots = Parts
           /\ \A p \in Parts :
                Sites'[i].slots[p] = IF i = k /\ p = q THEN s ELSE Sites[i].slots[p]
  <2> HIDE DEF k, q
  <2>1. QED
    BY <1>1, <1>2, SlotsReplaced
<1>10. SameSlots
  <2>1. ASSUME NEW i \in 1..Len(Sites), NEW p \in Parts
        PROVE  /\ Sites'[i].slots[p] \in Seq(ToSet(Sites'[i].slots[p]))
               /\ Len(Sites'[i].slots[p]) = Len(Sites[i].slots[p])
               /\ \A j \in 1..Len(Sites[i].slots[p]) :
                    /\ DOMAIN Sites'[i].slots[p][j] = {"key", "name", "counted"}
                    /\ Sites'[i].slots[p][j].key = Sites[i].slots[p][j].key
                    /\ Sites'[i].slots[p][j].name = Sites[i].slots[p][j].name
    <3>1. CASE i = k /\ p = q
      <4>1. Sites'[i].slots[p] = s /\ Sites[i].slots[p] = slots
        BY <1>9, <3>1
      <4>2. QED
        BY <1>7, <1>8, <4>1
    <3>2. CASE ~ (i = k /\ p = q)
      <4>1. Sites'[i].slots[p] = Sites[i].slots[p]
        BY <1>9, <3>2
      <4>2. QED
        BY <1>3, <4>1
    <3>3. QED
      BY <3>1, <3>2
  <2>2. QED
    BY <2>1 DEF SameSlots
<1>11. \A i \in 1..Len(Sites), p \in Parts : Sites'[i].overflow[p] = Sites[i].overflow[p]
  BY <1>9
<1>12. \A i \in 1..Len(Sites) : DOMAIN Sites'[i].overflow = Parts
  BY <1>3, <1>9
<1>13. SameSites
  BY <1>9, <1>12 DEF SameSites
<1>15. OverflowCounts(t)
  <2>1. slot[t] # None
    OBVIOUS
  <2>2. QED
    BY <1>11, <2>1, Zenon DEF OverflowCounts
<1>16. SlotCounts(t)
  <2>1. SUFFICES ASSUME NEW i \in 1..Len(Sites), NEW p \in Parts,
                        NEW j \in 1..Len(Sites[i].slots[p])
                 PROVE  Sites'[i].slots[p][j].counted =
                          IF (i = k /\ p = q) /\ j = o
                          THEN Sites[i].slots[p][j].counted \cup {r}
                          ELSE Sites[i].slots[p][j].counted
    BY DEF SlotCounts, Counter
  <2>2. CASE i = k /\ p = q
    <3>1. Sites'[i].slots[p] = s /\ Sites[i].slots[p] = slots
      BY <1>9, <2>2
    <3>2. QED
      BY <1>8, <2>2, <3>1
  <2>3. CASE ~ (i = k /\ p = q)
    <3>1. Sites'[i].slots[p] = Sites[i].slots[p]
      BY <1>9, <2>3
    <3>2. QED
      BY <2>3, <3>1
  <2>4. QED
    BY <2>2, <2>3
<1>17. QED
  BY <1>10, <1>13, <1>15, <1>16 DEF CountedIn

(* Record and the overflow counters: the record a call owed is counted where it *)
(* belongs. *)
LEMMA CountPreserves ==
  ASSUME IndInv, NEW t \in Threads, Count(t)
  PROVE  IndInv'
<1> DEFINE k == site[t]
           q == part[t]
           n == record[t]
<1>1. /\ pc[t] = "count" /\ pc' = [pc EXCEPT ![t] = "leave"]
      /\ UNCHANGED <<Active, HasSession, SiteByKey, InFlight, Statistics, Generation, channels,
                     part, record, callSite, address, site, slot, command, wasActive,
                     commands, logged, collected, report>>
  BY DEF Count, Goto, cache, call, control, found
<1>2. \A u \in Threads : pc'[u] = IF u = t THEN "leave" ELSE pc[u]
  BY <1>1 DEF IndInv, Variables
<1>3. CountedIn(t)
  BY <1>1, CountsInOverflow, CountsInSlot
<1>4. /\ k \in 1..Len(Sites) /\ q \in Parts /\ Sites[k].callSite = callSite[t]
      /\ slot[t] # None => /\ slot[t] \in 1..Len(Sites[k].slots[q])
                           /\ Sites[k].slots[q][slot[t]].key = Key(t)
  <2>1. /\ site[t] # None /\ site[t] \in 0..Len(Sites) /\ Sites[k].callSite = callSite[t]
        /\ slot[t] # None => /\ slot[t] \in 1..Len(Sites[k].slots[q])
                             /\ Sites[k].slots[q][slot[t]].key = Key(t)
    BY <1>1 DEF IndInv, Found, FoundBy, Owing
  <2>2. QED
    BY <2>1 DEF None, IndInv, Variables
<1>5. /\ n \in 1..Len(logged) /\ n # None /\ address[t] \in Addresses
      /\ logged[n].callSite = callSite[t] /\ logged[n].name = channels[address[t]].name
  <2>1. /\ n \in 1..Len(logged) /\ address[t] \in Addresses
        /\ logged[n].callSite = callSite[t] /\ logged[n].name = channels[address[t]].name
    BY <1>1 DEF IndInv, Calls, CallOf
  <2>2. QED
    BY <2>1 DEF None
<1>6. Owed(q, n) /\ ~ InOverflow(q, n) /\ ~ InSlot(q, n)
  <2>1. Owed(q, n)
    BY <1>1 DEF Owed, Owing
  <2>2. QED
    BY <1>4, <1>5, <2>1 DEF IndInv, Places
<1>7. \A p, r : Owed(p, r)' <=> Owed(p, r) /\ ~ (p = q /\ r = n)
  <2>1. \A u \in Threads : record[u] = n => u = t
    BY <1>5 DEF IndInv, Calls
  <2>2. "leave" \notin Owing
    BY DEF Owing
  <2>3. QED
    BY <1>1, <1>2, <2>1, <2>2 DEF Owed
<1>8. \A i \in 1..Len(Sites), p \in Parts : \A r :
        r \in Sites'[i].overflow[p] <=>
          r \in Sites[i].overflow[p] \/ (i = k /\ p = q /\ r = n /\ slot[t] = None)
  <2>1. \A i \in 1..Len(Sites), p \in Parts :
          Sites'[i].overflow[p] = IF Counter(t, i, p) /\ slot[t] = None
                                  THEN Sites[i].overflow[p] \cup {record[t]}
                                  ELSE Sites[i].overflow[p]
    BY <1>3 DEF CountedIn, OverflowCounts
  <2>2. ASSUME NEW i \in 1..Len(Sites), NEW p \in Parts, NEW r
        PROVE  r \in Sites'[i].overflow[p] <=>
                 r \in Sites[i].overflow[p] \/ (i = k /\ p = q /\ r = n /\ slot[t] = None)
    <3>1. CASE i = k /\ p = q /\ slot[t] = None
      <4>1. Sites'[i].overflow[p] = Sites[i].overflow[p] \cup {n}
        BY <2>1, <3>1 DEF Counter
      <4>2. QED
        BY <3>1, <4>1
    <3>2. CASE ~ (i = k /\ p = q /\ slot[t] = None)
      <4>1. Sites'[i].overflow[p] = Sites[i].overflow[p]
        BY <2>1, <3>2 DEF Counter
      <4>2. QED
        BY <3>2, <4>1
    <3>3. QED
      BY <3>1, <3>2
  <2>3. QED
    BY <2>2
<1>9. \A i \in 1..Len(Sites), p \in Parts : \A j \in 1..Len(Sites[i].slots[p]) : \A r :
        r \in Sites'[i].slots[p][j].counted <=>
          r \in Sites[i].slots[p][j].counted \/ (i = k /\ p = q /\ j = slot[t] /\ r = n)
  <2>1. \A i \in 1..Len(Sites), p \in Parts : \A j \in 1..Len(Sites[i].slots[p]) :
          Sites'[i].slots[p][j].counted =
            IF Counter(t, i, p) /\ j = slot[t]
            THEN Sites[i].slots[p][j].counted \cup {record[t]} ELSE Sites[i].slots[p][j].counted
    BY <1>3 DEF CountedIn, SlotCounts
  <2>2. ASSUME NEW i \in 1..Len(Sites), NEW p \in Parts, NEW j \in 1..Len(Sites[i].slots[p]), NEW r
        PROVE  r \in Sites'[i].slots[p][j].counted <=>
                 r \in Sites[i].slots[p][j].counted \/ (i = k /\ p = q /\ j = slot[t] /\ r = n)
    <3>1. CASE i = k /\ p = q /\ j = slot[t]
      <4>1. Sites'[i].slots[p][j].counted = Sites[i].slots[p][j].counted \cup {n}
        BY <2>1, <3>1 DEF Counter
      <4>2. QED
        BY <3>1, <4>1
    <3>2. CASE ~ (i = k /\ p = q /\ j = slot[t])
      <4>1. Sites'[i].slots[p][j].counted = Sites[i].slots[p][j].counted
        BY <2>1, <3>2 DEF Counter
      <4>2. QED
        BY <3>2, <4>1
    <3>3. QED
      BY <3>1, <3>2
  <2>3. QED
    BY <2>2, Zenon
<1>10. /\ Sites' \in Seq(ToSet(Sites')) /\ Len(Sites') = Len(Sites)
       /\ \A i \in 1..Len(Sites) :
            /\ Sites'[i].callSite = Sites[i].callSite
            /\ DOMAIN Sites'[i] = {"callSite", "slots", "overflow"}
            /\ DOMAIN Sites'[i].slots = Parts /\ DOMAIN Sites'[i].overflow = Parts
       /\ \A i \in 1..Len(Sites), p \in Parts :
            /\ Sites'[i].slots[p] \in Seq(ToSet(Sites'[i].slots[p]))
            /\ Len(Sites'[i].slots[p]) = Len(Sites[i].slots[p])
       /\ \A i \in 1..Len(Sites), p \in Parts : \A j \in 1..Len(Sites[i].slots[p]) :
            /\ DOMAIN Sites'[i].slots[p][j] = {"key", "name", "counted"}
            /\ Sites'[i].slots[p][j].key = Sites[i].slots[p][j].key
            /\ Sites'[i].slots[p][j].name = Sites[i].slots[p][j].name
  BY <1>3 DEF CountedIn, SameSites, SameSlots
<1> HIDE DEF k, q, n
<1>11. Variables'
  <2>1. pc' \in [Threads -> Labels]
    BY <1>1 DEF IndInv, Variables, Labels
  <2>2. QED
    BY <1>1, <1>10, <2>1 DEF IndInv, Variables
<1>12. /\ SiteShapes' /\ Caches'
       /\ \A u \in Threads \ {t} : FoundBy(u)'
  <2>1. \A i \in 1..Len(Sites), p \in Parts :
          /\ Len(Sites[i].slots[p]) \in Nat /\ Len(Sites[i].slots[p]) <= SlotCount
          /\ Sites[i].overflow[p] \subseteq 1..Len(logged)
          /\ \A j \in 1..Len(Sites[i].slots[p]) : Sites[i].slots[p][j].counted \subseteq 1..Len(logged)
    BY OwnDomain DEF IndInv, SiteShapes
  <2>2. \A i \in 1..Len(Sites), p \in Parts :
          /\ Len(Sites[i].slots[p]) <= Len(Sites'[i].slots[p])
          /\ Len(Sites'[i].slots[p]) <= SlotCount
    BY <1>10, <2>1
  <2>3. \A i \in 1..Len(Sites), p \in Parts :
          /\ Sites'[i].overflow[p] \subseteq 1..Len(logged)
          /\ \A j \in 1..Len(Sites[i].slots[p]) : Sites'[i].slots[p][j].counted \subseteq 1..Len(logged)
    BY <1>5, <1>8, <1>9, <2>1 DEF n
  <2>4. \A u \in Threads \ {t} : pc'[u] = pc[u] /\ site'[u] = site[u] /\ slot'[u] = slot[u]
    BY <1>1, <1>2
  <2>5. \A i \in 1..Len(Sites), p \in Parts :
          /\ \A j \in 1..Len(Sites'[i].slots[p]) :
               /\ DOMAIN Sites'[i].slots[p][j] = {"key", "name", "counted"}
               /\ Sites'[i].slots[p][j].counted \subseteq 1..Len(logged)
          /\ \A j \in 1..Len(Sites[i].slots[p]) :
               Sites'[i].slots[p][j].key = Sites[i].slots[p][j].key
    <3>1. SUFFICES ASSUME NEW i \in 1..Len(Sites), NEW p \in Parts
                   PROVE  /\ \A j \in 1..Len(Sites'[i].slots[p]) :
                               /\ DOMAIN Sites'[i].slots[p][j] = {"key", "name", "counted"}
                               /\ Sites'[i].slots[p][j].counted \subseteq 1..Len(logged)
                          /\ \A j \in 1..Len(Sites[i].slots[p]) :
                               Sites'[i].slots[p][j].key = Sites[i].slots[p][j].key
      OBVIOUS
    <3>2. 1..Len(Sites'[i].slots[p]) = 1..Len(Sites[i].slots[p])
      BY <1>10
    <3>3. QED
      BY <1>10, <2>3, <3>2
  <2>6. SameSites
    BY <1>10 DEF SameSites
  <2>7. SlotsGrow
    BY <1>10, <2>2, <2>5 DEF SlotsGrow
  <2>8. CountersFit
    BY <2>3, <2>5 DEF CountersFit
  <2>9. QED
    BY <1>1, <2>4, <2>6, <2>7, <2>8, SitesEvolve
<1>13. Calls'
  <2>1. \A u \in Threads : CallOf(u)
    BY DEF IndInv, Calls
  <2>2. pc[t] # "idle"
    BY <1>1
  <2>3. \A u \in Threads : pc'[u] = "idle" <=> pc[u] = "idle"
    BY <1>2, <2>2
  <2>4. \A u \in Threads : CallOf(u)'
    BY <1>1, <2>1, <2>3 DEF CallOf
  <2>5. QED
    BY <1>1, <2>4 DEF IndInv, Calls
<1>14. Found'
  <2>1. site[t] \in 0..Len(Sites) /\ slot[t] \in 0..SlotCount
    BY DEF IndInv, Found, FoundBy
  <2>2. pc'[t] = "leave" /\ site'[t] = site[t] /\ slot'[t] = slot[t] /\ Len(Sites') = Len(Sites)
    BY <1>1, <1>2, <1>10
  <2>3. FoundBy(t)'
    BY <2>1, <2>2 DEF FoundBy, Owing
  <2>4. QED
    BY <1>12, <2>3 DEF Found
<1>15. Names'
  <2>1. "output" \in Parts
    BY DEF Parts
  <2>2. \A i \in 1..Len(Sites) : \A j \in 1..Len(Sites[i].slots["output"]) :
          Sites'[i].slots["output"][j].name = Sites'[i].slots["output"][j].key
    BY <1>10, <2>1 DEF IndInv, Names
  <2>3. Len(Sites') = Len(Sites) /\ channels' = channels
          /\ \A i \in 1..Len(Sites) : Len(Sites'[i].slots["output"]) = Len(Sites[i].slots["output"])
    BY <1>1, <1>10, <2>1
  <2>4. QED
    BY <2>2, <2>3 DEF IndInv, Names
<1>16. Attributed'
  <2>1. /\ DOMAIN Sites' = 1..Len(Sites) /\ DOMAIN Sites = 1..Len(Sites)
        /\ \A i \in 1..Len(Sites), p \in Parts :
             /\ DOMAIN Sites'[i].slots[p] = 1..Len(Sites[i].slots[p])
             /\ DOMAIN Sites[i].slots[p] = 1..Len(Sites[i].slots[p])
    BY <1>10, OwnDomain DEF IndInv, SiteShapes, Variables
  <2>2. \A i, j \in 1..Len(Sites) : Sites'[i].callSite = Sites'[j].callSite => i = j
    <3>1. \A i, j \in 1..Len(Sites) : Sites[i].callSite = Sites[j].callSite => i = j
      BY <2>1 DEF IndInv, Attributed
    <3>2. QED
      BY <1>10, <3>1
  <2>3. ASSUME NEW i \in 1..Len(Sites), NEW p \in Parts
        PROVE  /\ \A r \in Sites'[i].overflow[p] : logged[r].callSite = Sites'[i].callSite
               /\ \A j \in 1..Len(Sites[i].slots[p]) :
                    /\ \A l \in 1..Len(Sites[i].slots[p]) :
                         Sites'[i].slots[p][j].key = Sites'[i].slots[p][l].key => j = l
                    /\ \A r \in Sites'[i].slots[p][j].counted :
                         /\ logged[r].callSite = Sites'[i].callSite
                         /\ p = "output" => logged[r].name = Sites'[i].slots[p][j].name
    <3>1. /\ \A r \in Sites[i].overflow[p] : logged[r].callSite = Sites[i].callSite
          /\ \A j \in 1..Len(Sites[i].slots[p]) :
               /\ \A l \in 1..Len(Sites[i].slots[p]) :
                    Sites[i].slots[p][j].key = Sites[i].slots[p][l].key => j = l
               /\ \A r \in Sites[i].slots[p][j].counted :
                    /\ logged[r].callSite = Sites[i].callSite
                    /\ p = "output" => logged[r].name = Sites[i].slots[p][j].name
      <4>1. i \in DOMAIN Sites /\ DOMAIN Sites[i].slots[p] = 1..Len(Sites[i].slots[p])
        BY <2>1
      <4>2. Attributed
        BY DEF IndInv
      <4>3. QED
        BY <4>1, <4>2 DEF Attributed
    <3>2. i = k => logged[n].callSite = Sites[i].callSite
      BY <1>4, <1>5
    <3>3. \A r \in Sites'[i].overflow[p] : logged[r].callSite = Sites'[i].callSite
      BY <1>8, <1>10, <3>1, <3>2
    <3>4. \A j, l \in 1..Len(Sites[i].slots[p]) :
            Sites'[i].slots[p][j].key = Sites'[i].slots[p][l].key => j = l
      BY <1>10, <3>1
    <3>5. ASSUME NEW j \in 1..Len(Sites[i].slots[p]), NEW r \in Sites'[i].slots[p][j].counted
          PROVE  /\ logged[r].callSite = Sites'[i].callSite
                 /\ p = "output" => logged[r].name = Sites'[i].slots[p][j].name
      <4>1. Sites'[i].callSite = Sites[i].callSite
              /\ Sites'[i].slots[p][j].name = Sites[i].slots[p][j].name
        BY <1>10
      <4>2. CASE r \in Sites[i].slots[p][j].counted
        BY <3>1, <4>1, <4>2
      <4>3. CASE i = k /\ p = q /\ j = slot[t] /\ r = n
        <5>1. logged[r].callSite = Sites'[i].callSite
          BY <3>2, <4>1, <4>3
        <5>2. ASSUME p = "output" PROVE logged[r].name = Sites'[i].slots[p][j].name
          <6>1. Key(t) = channels[address[t]].number
            BY <4>3, <5>2 DEF Key, q
          <6>2. channels[address[t]].number = channels[address[t]].name
            BY <1>5 DEF IndInv, Names
          <6>3. slot[t] # None
            BY <4>3 DEF None
          <6>4. Sites[i].slots[p][j].key = Key(t)
            BY <1>4, <4>3, <6>3
          <6>5. Sites[i].slots[p][j].name = Sites[i].slots[p][j].key
            BY <5>2 DEF IndInv, Names
          <6>6. QED
            BY <1>5, <4>1, <4>3, <6>1, <6>2, <6>4, <6>5
        <5>3. QED
          BY <5>1, <5>2
      <4>4. QED
        BY <1>9, <4>2, <4>3
    <3>6. QED
      BY <3>3, <3>4, <3>5
  <2>4. logged' = logged
    BY <1>1
  <2>5. \A i \in DOMAIN Sites', p \in Parts :
          /\ \A r \in Sites'[i].overflow[p] : logged'[r].callSite = Sites'[i].callSite
          /\ \A j \in DOMAIN Sites'[i].slots[p] :
               /\ \A l \in DOMAIN Sites'[i].slots[p] :
                    Sites'[i].slots[p][j].key = Sites'[i].slots[p][l].key => j = l
               /\ \A r \in Sites'[i].slots[p][j].counted :
                    /\ logged'[r].callSite = Sites'[i].callSite
                    /\ p = "output" => logged'[r].name = Sites'[i].slots[p][j].name
    <3>1. ASSUME NEW i \in DOMAIN Sites', NEW p \in Parts
          PROVE  /\ \A r \in Sites'[i].overflow[p] : logged[r].callSite = Sites'[i].callSite
                 /\ \A j \in DOMAIN Sites'[i].slots[p] :
                      /\ \A l \in DOMAIN Sites'[i].slots[p] :
                           Sites'[i].slots[p][j].key = Sites'[i].slots[p][l].key => j = l
                      /\ \A r \in Sites'[i].slots[p][j].counted :
                           /\ logged[r].callSite = Sites'[i].callSite
                           /\ p = "output" => logged[r].name = Sites'[i].slots[p][j].name
      <4>1. i \in 1..Len(Sites) /\ DOMAIN Sites'[i].slots[p] = 1..Len(Sites[i].slots[p])
        BY <2>1
      <4>2. QED
        BY <2>3, <4>1
    <3>2. QED
      BY <2>4, <3>1
  <2>6. QED
    BY <2>1, <2>2, <2>5, Zenon DEF Attributed
<1>17. Places'
  <2>1. ASSUME NEW p \in Parts, NEW r \in 1..Len(logged)
        PROVE  InOverflow(p, r)' <=> InOverflow(p, r) \/ (p = q /\ r = n /\ slot[t] = None)
    BY <1>4, <1>8, <1>10 DEF InOverflow
  <2>2. ASSUME NEW p \in Parts, NEW r \in 1..Len(logged), InSlot(p, r)'
        PROVE  InSlot(p, r) \/ (p = q /\ r = n /\ slot[t] # None)
    <3>1. PICK i \in 1..Len(Sites) : \E j \in 1..Len(Sites'[i].slots[p]) :
            r \in Sites'[i].slots[p][j].counted
      BY <1>10, <2>2 DEF InSlot
    <3>2. PICK j \in 1..Len(Sites'[i].slots[p]) : r \in Sites'[i].slots[p][j].counted
      BY <3>1
    <3>3. j \in 1..Len(Sites[i].slots[p])
      BY <1>10
    <3>4. CASE r \in Sites[i].slots[p][j].counted
      BY <3>3, <3>4 DEF InSlot
    <3>5. CASE i = k /\ p = q /\ j = slot[t] /\ r = n
      <4>1. slot[t] # 0
        BY <3>3, <3>5
      <4>2. QED
        BY <3>5, <4>1 DEF None
    <3>6. QED
      BY <1>9, <3>2, <3>3, <3>4, <3>5
  <2>3. ASSUME NEW p \in Parts, NEW r \in 1..Len(logged), InSlot(p, r)
        PROVE  InSlot(p, r)'
    <3>1. PICK i \in 1..Len(Sites) : \E j \in 1..Len(Sites[i].slots[p]) :
            r \in Sites[i].slots[p][j].counted
      BY <2>3 DEF InSlot
    <3>2. PICK j \in 1..Len(Sites[i].slots[p]) : r \in Sites[i].slots[p][j].counted
      BY <3>1
    <3>3. r \in Sites'[i].slots[p][j].counted
      BY <1>9, <3>2
    <3>4. i \in 1..Len(Sites') /\ j \in 1..Len(Sites'[i].slots[p])
      BY <1>10
    <3>5. QED
      BY <3>3, <3>4 DEF InSlot
  <2>4. ASSUME NEW p \in Parts, NEW r \in 1..Len(logged), p = q, r = n, slot[t] # None
        PROVE  InSlot(p, r)'
    <3>1. slot[t] \in 1..Len(Sites[k].slots[p])
      BY <1>4, <2>4
    <3>2. r \in Sites'[k].slots[p][slot[t]].counted
      BY <1>4, <1>9, <2>4, <3>1
    <3>3. k \in 1..Len(Sites') /\ slot[t] \in 1..Len(Sites'[k].slots[p])
      BY <1>4, <1>10, <2>4, <3>1
    <3>4. QED
      BY <3>2, <3>3 DEF InSlot
  <2>5. ASSUME NEW p \in Parts, NEW r \in 1..Len(logged)
        PROVE  InSlot(p, r)' <=> InSlot(p, r) \/ (p = q /\ r = n /\ slot[t] # None)
    BY <2>2, <2>3, <2>4
  <2>6. \A p \in Parts, r \in 1..Len(logged) :
          /\ <<p, r>> \in collected <=> Owed(p, r) \/ InOverflow(p, r) \/ InSlot(p, r)
          /\ ~ (Owed(p, r) /\ InOverflow(p, r)) /\ ~ (Owed(p, r) /\ InSlot(p, r))
          /\ ~ (InOverflow(p, r) /\ InSlot(p, r))
    BY DEF IndInv, Places
  <2>7. \A p \in Parts, r \in 1..Len(logged) :
          /\ <<p, r>> \in collected <=> Owed(p, r)' \/ InOverflow(p, r)' \/ InSlot(p, r)'
          /\ ~ (Owed(p, r)' /\ InOverflow(p, r)') /\ ~ (Owed(p, r)' /\ InSlot(p, r)')
          /\ ~ (InOverflow(p, r)' /\ InSlot(p, r)')
    BY <1>6, <1>7, <2>1, <2>5, <2>6
  <2>8. ASSUME NEW p \in Parts, NEW i \in 1..Len(Sites),
               NEW j \in 1..Len(Sites[i].slots[p]), NEW l \in 1..Len(Sites[i].slots[p]),
               NEW r \in Sites'[i].slots[p][j].counted, r \in Sites'[i].slots[p][l].counted
        PROVE  j = l
    <3>1. CASE r \in Sites[i].slots[p][j].counted /\ r \in Sites[i].slots[p][l].counted
      BY <3>1 DEF IndInv, Places
    <3>2. ASSUME NEW x \in 1..Len(Sites[i].slots[p]), r \in Sites[i].slots[p][x].counted,
                 i = k, p = q, r = n
          PROVE  FALSE
      BY <1>6, <3>2 DEF InSlot
    <3>3. CASE r \notin Sites[i].slots[p][j].counted
      <4>1. i = k /\ p = q /\ j = slot[t] /\ r = n
        BY <1>9, <2>8, <3>3
      <4>2. r \notin Sites[i].slots[p][l].counted
        BY <3>2, <4>1
      <4>3. QED
        BY <1>9, <2>8, <4>1, <4>2
    <3>4. CASE r \notin Sites[i].slots[p][l].counted
      <4>1. i = k /\ p = q /\ l = slot[t] /\ r = n
        BY <1>9, <2>8, <3>4
      <4>2. r \notin Sites[i].slots[p][j].counted
        BY <3>2, <4>1
      <4>3. QED
        BY <1>9, <2>8, <4>1, <4>2
    <3>5. QED
      BY <3>1, <3>3, <3>4
  <2>9. collected' = collected /\ logged' = logged /\ Len(Sites') = Len(Sites)
        /\ collected \subseteq Parts \X (1..Len(logged))
        /\ \A i \in 1..Len(Sites), p \in Parts : Len(Sites'[i].slots[p]) = Len(Sites[i].slots[p])
    BY <1>1, <1>10 DEF IndInv, Places
  <2>10. QED
    BY <2>7, <2>8, <2>9 DEF Places
<1>18. Ahead'
  <2>1. \A u \in Threads : AheadOf(u)
    BY DEF IndInv, Ahead
  <2>2. ~ ("leave" \in Uncollected) /\ pc[t] # "idle"
    BY <1>1 DEF Uncollected
  <2>3. QED
    BY <1>1, <1>2, <2>1, <2>2 DEF Ahead, AheadOf
<1>19. Waited' /\ Reported'
  <2>1. pc[t] \in Inside /\ "leave" \notin Inside
    BY <1>1 DEF Inside, Owing
  <2>2. Waited'
    BY <1>1, <1>2, <2>1 DEF IndInv, Waited, NobodyInside
  <2>3. QED
    <3>1. Reported
      BY DEF IndInv
    <3>2. QED
      <4>1. /\ command' = command /\ report' = report /\ Active' = Active
            /\ logged' = logged /\ collected' = collected
        BY <1>1
      <4>2. QED
        BY <2>2, <3>1, <4>1 DEF Reported
<1>20. InFlightExact'
  <2>1. "leave" \in Labels
    BY DEF Labels
  <2>2. QED
    BY <1>1, <2>1, InFlightMoves DEF IndInv
<1>21. QED
  BY <1>11, <1>12, <1>13, <1>14, <1>15, <1>16, <1>17, <1>18, <1>19, <1>20 DEF IndInv

(* GetOrCreateChannel and GetOrCreateBackend. *)
LEMMA GetOrCreateSlotPreserves ==
  ASSUME IndInv, NEW t \in Threads, GetOrCreateSlot(t)
  PROVE  IndInv'
<1>1. pc[t] = "create"
  BY DEF GetOrCreateSlot
<1>2. CASE SlotsWithKey(t) = {} /\ Len(Sites[site[t]].slots[part[t]]) < SlotCount
  BY <1>1, <1>2, NewSlotPreserves
<1>3. CASE ~ (SlotsWithKey(t) = {} /\ Len(Sites[site[t]].slots[part[t]]) < SlotCount)
  <2>1. UNCHANGED Sites
    BY <1>3 DEF GetOrCreateSlot
  <2>2. QED
    BY <2>1, FoundSlotPreserves
<1>4. QED
  BY <1>2, <1>3

----------------------------------------------------------------------------
(* A call begins, goes on to the backend, and ends: outside the collector. *)

(* What a call outside the collector may do. *)
LEMMA OutsideMoves ==
  ASSUME IndInv, NEW t \in Threads, NEW l \in {"idle", "next", "enter"},
         pc[t] \in {"idle", "next"}, pc' = [pc EXCEPT ![t] = l],
         UNCHANGED <<Active, HasSession, Sites, SiteByKey, InFlight, Statistics, Generation,
                     channels, site, slot, command, wasActive, commands, collected, report>>,
         logged' \in Seq(ToSet(logged')), Len(logged) <= Len(logged'),
         \A r \in 1..Len(logged) : logged'[r] = logged[r],
         part' \in [Threads -> Parts], record' \in [Threads -> Nat],
         DOMAIN callSite' = Threads, DOMAIN address' = Threads,
         \A u \in Threads \ {t} : /\ part'[u] = part[u] /\ record'[u] = record[u]
                                  /\ callSite'[u] = callSite[u] /\ address'[u] = address[u],
         record'[t] \in {None, record[t]} \/ record'[t] \notin 1..Len(logged),
         CallOf(t)', AheadOf(t)'
  PROVE  IndInv'
<1>1. \A u \in Threads : pc'[u] = IF u = t THEN l ELSE pc[u]
  BY DEF IndInv, Variables
<1>2. Len(logged) \in Nat /\ Len(logged') \in Nat
        /\ \A r \in 1..Len(logged) : r \in 1..Len(logged') /\ r # None
  <2>1. Len(logged) \in Nat /\ Len(logged') \in Nat
    BY OwnDomain DEF IndInv, Variables
  <2>2. QED
    BY <2>1 DEF None
<1>3. Variables'
  <2>1. pc' \in [Threads -> Labels]
    BY DEF IndInv, Variables, Labels
  <2>2. QED
    BY <2>1 DEF IndInv, Variables
<1>4. SiteShapes'
  <2>1. 1..Len(logged) \subseteq 1..Len(logged')
    BY <1>2
  <2>2. QED
    BY <2>1 DEF IndInv, SiteShapes
<1>5. Calls'
  <2>1. ASSUME NEW u \in Threads \ {t} PROVE CallOf(u)'
    <3>1. CallOf(u) /\ pc'[u] = pc[u]
      BY <1>1 DEF IndInv, Calls
    <3>2. QED
      BY <1>2, <3>1 DEF CallOf
  <2>2. \A u, v \in Threads : record[u] = record[v] /\ record[u] # None => u = v
    BY DEF IndInv, Calls
  <2>3. \A u \in Threads : record[u] = None \/ record[u] \in 1..Len(logged)
    BY DEF IndInv, Calls, CallOf
  <2>4. \A u, v \in Threads : record'[u] = record'[v] /\ record'[u] # None => u = v
    BY <2>2, <2>3
  <2>5. QED
    BY <2>1, <2>4 DEF Calls
<1>6. Caches'
  BY CachesStay DEF IndInv
<1>7. Found'
  <2>1. ASSUME NEW u \in Threads \ {t} PROVE FoundBy(u)'
    <3>1. FoundBy(u) /\ pc'[u] = pc[u]
      BY <1>1 DEF IndInv, Found
    <3>2. QED
      BY <3>1, FoundStays
  <2>2. FoundBy(t)'
    <3>1. site[t] \in 0..Len(Sites) /\ slot[t] \in 0..SlotCount /\ slot[t] = None
      BY DEF IndInv, Found, FoundBy
    <3>2. pc'[t] = l /\ l \notin Owing /\ l \notin {"count", "leave", "load site", "store generation"}
      BY <1>1 DEF Owing
    <3>3. QED
      BY <3>1, <3>2 DEF FoundBy
  <2>3. QED
    BY <2>1, <2>2 DEF Found
<1>8. Names'
  BY DEF IndInv, Names
<1>9. Attributed'
  <2>1. DOMAIN Sites = 1..Len(Sites)
    BY OwnDomain DEF IndInv, Variables
  <2>2. \A i \in 1..Len(Sites), p \in Parts :
          /\ DOMAIN Sites[i].slots[p] = 1..Len(Sites[i].slots[p])
          /\ \A r \in Sites[i].overflow[p] : logged'[r] = logged[r]
          /\ \A j \in 1..Len(Sites[i].slots[p]) : \A r \in Sites[i].slots[p][j].counted :
               logged'[r] = logged[r]
    BY OwnDomain DEF IndInv, SiteShapes
  <2>3. ASSUME NEW i \in 1..Len(Sites), NEW p \in Parts
        PROVE  /\ \A r \in Sites[i].overflow[p] : logged'[r].callSite = Sites[i].callSite
               /\ \A j \in DOMAIN Sites[i].slots[p] :
                    /\ \A k \in DOMAIN Sites[i].slots[p] :
                         Sites[i].slots[p][j].key = Sites[i].slots[p][k].key => j = k
                    /\ \A r \in Sites[i].slots[p][j].counted :
                         /\ logged'[r].callSite = Sites[i].callSite
                         /\ p = "output" => logged'[r].name = Sites[i].slots[p][j].name
    <3>1. /\ \A r \in Sites[i].overflow[p] : logged[r].callSite = Sites[i].callSite
          /\ \A j \in DOMAIN Sites[i].slots[p] :
               /\ \A k \in DOMAIN Sites[i].slots[p] :
                    Sites[i].slots[p][j].key = Sites[i].slots[p][k].key => j = k
               /\ \A r \in Sites[i].slots[p][j].counted :
                    /\ logged[r].callSite = Sites[i].callSite
                    /\ p = "output" => logged[r].name = Sites[i].slots[p][j].name
      BY <2>1 DEF IndInv, Attributed
    <3>2. \A r \in Sites[i].overflow[p] : logged'[r].callSite = Sites[i].callSite
      BY <2>2, <3>1
    <3>3. ASSUME NEW j \in DOMAIN Sites[i].slots[p], NEW r \in Sites[i].slots[p][j].counted
          PROVE  /\ logged'[r].callSite = Sites[i].callSite
                 /\ p = "output" => logged'[r].name = Sites[i].slots[p][j].name
      <4>1. logged'[r] = logged[r]
        <5>1. j \in 1..Len(Sites[i].slots[p])
          BY <2>2
        <5>2. QED
          BY <2>2, <5>1
      <4>2. QED
        BY <3>1, <4>1
    <3>4. QED
      BY <3>1, <3>2, <3>3
  <2>4. \A i, j \in DOMAIN Sites : Sites[i].callSite = Sites[j].callSite => i = j
    BY DEF IndInv, Attributed
  <2>5. Sites' = Sites
    OBVIOUS
  <2>6. QED
    BY <2>1, <2>3, <2>4, <2>5 DEF Attributed
<1>10. Places'
  <2>1. l \notin Owing /\ pc[t] \notin Owing
    BY DEF Owing
  <2>2. \A p, r : Owed(p, r)' <=> Owed(p, r)
    <3>1. \A u \in Threads : pc'[u] \in Owing <=> pc[u] \in Owing
      BY <1>1, <2>1
    <3>2. \A u \in Threads : pc[u] \in Owing => part'[u] = part[u] /\ record'[u] = record[u]
      BY <2>1
    <3>3. QED
      BY <3>1, <3>2 DEF Owed
  <2>3. \A p, r : (InOverflow(p, r)' <=> InOverflow(p, r)) /\ (InSlot(p, r)' <=> InSlot(p, r))
    BY DEF InOverflow, InSlot
  <2>4. ASSUME NEW p \in Parts, NEW r \in 1..Len(logged'), r \notin 1..Len(logged)
        PROVE  <<p, r>> \notin collected /\ ~ Owed(p, r) /\ ~ InOverflow(p, r) /\ ~ InSlot(p, r)
    <3>1. <<p, r>> \notin collected
      BY <2>4 DEF IndInv, Places
    <3>2. ~ Owed(p, r)
      <4>1. \A u \in Threads : pc[u] \in Owing => record[u] \in 1..Len(logged)
        BY DEF IndInv, Calls, CallOf, Owing
      <4>2. QED
        BY <2>4, <4>1 DEF Owed
    <3>3. ~ InOverflow(p, r) /\ ~ InSlot(p, r)
      BY <2>4 DEF IndInv, SiteShapes, InOverflow, InSlot
    <3>4. QED
      BY <3>1, <3>2, <3>3
  <2>5. \A p \in Parts, r \in 1..Len(logged') :
          /\ <<p, r>> \in collected <=> Owed(p, r) \/ InOverflow(p, r) \/ InSlot(p, r)
          /\ ~ (Owed(p, r) /\ InOverflow(p, r)) /\ ~ (Owed(p, r) /\ InSlot(p, r))
          /\ ~ (InOverflow(p, r) /\ InSlot(p, r))
    BY <2>4 DEF IndInv, Places
  <2>6. collected \subseteq Parts \X (1..Len(logged'))
    BY <1>2 DEF IndInv, Places
  <2>7. QED
    BY <2>2, <2>3, <2>5, <2>6 DEF IndInv, Places
<1>11. Ahead'
  <2>1. \A u \in Threads \ {t} : AheadOf(u)'
    BY <1>1 DEF IndInv, Ahead, AheadOf
  <2>2. QED
    BY <2>1 DEF Ahead
<1>12. Waited'
  <2>1. l \notin Inside /\ pc[t] \notin Inside
    BY DEF Inside, Owing
  <2>2. NobodyInside' <=> NobodyInside
    BY <1>1, <2>1 DEF NobodyInside
  <2>3. QED
    BY <2>2 DEF IndInv, Waited
<1>13. Reported'
  <2>1. {r \in 1..Len(logged') : <<"source", r>> \in collected}
          = {r \in 1..Len(logged) : <<"source", r>> \in collected}
    BY <1>2 DEF IndInv, Places
  <2>2. Reported
    BY DEF IndInv
  <2>3. QED
    BY <2>1, <2>2 DEF Reported
<1>14. InFlightExact'
  <2>1. l \in Labels
    BY DEF Labels
  <2>2. QED
    BY <2>1, InFlightMoves DEF IndInv
<1>15. QED
  BY <1>3, <1>4, <1>5, <1>6, <1>7, <1>8, <1>9, <1>10, <1>11, <1>12, <1>13, <1>14 DEF IndInv

(* DoLog: a record is logged. *)
LEMMA LogPreserves ==
  ASSUME IndInv, NEW t \in Threads, NEW s \in CallSites, NEW a \in Addresses, Log(t, s, a)
  PROVE  IndInv'
<1> DEFINE n == Len(logged)
           e == [callSite |-> s, name |-> channels[a].name]
           l == IF Active THEN "enter" ELSE "next"
<1>1. /\ pc[t] = "idle" /\ pc' = [pc EXCEPT ![t] = l]
      /\ logged' = Append(logged, e)
      /\ record' = [record EXCEPT ![t] = n + 1] /\ callSite' = [callSite EXCEPT ![t] = s]
      /\ address' = [address EXCEPT ![t] = a] /\ part' = [part EXCEPT ![t] = "source"]
      /\ UNCHANGED <<Active, HasSession, Sites, SiteByKey, InFlight, Statistics, Generation,
                     channels, site, slot, command, wasActive, commands, collected, report>>
  BY DEF Log, Goto, collector, cache, found, control
<1>2. l \in {"next", "enter"}
  OBVIOUS
<1> HIDE DEF e, l
<1>3. /\ n \in Nat /\ logged' \in Seq(ToSet(logged')) /\ Len(logged') = n + 1
      /\ \A r \in 1..n : logged'[r] = logged[r]
      /\ logged'[n + 1] = e
  BY <1>1, AppendOwn DEF IndInv, Variables
<1>4. n <= n + 1 /\ n + 1 \in Nat /\ n + 1 \in 1..(n + 1) /\ n + 1 \notin 1..n
  BY <1>3
<1>5. /\ part' \in [Threads -> Parts] /\ record' \in [Threads -> Nat]
      /\ DOMAIN callSite' = Threads /\ DOMAIN address' = Threads
      /\ \A u \in Threads \ {t} : /\ part'[u] = part[u] /\ record'[u] = record[u]
                                  /\ callSite'[u] = callSite[u] /\ address'[u] = address[u]
      /\ record'[t] = n + 1 /\ callSite'[t] = s /\ address'[t] = a /\ part'[t] = "source"
      /\ pc'[t] = l
  BY <1>1, <1>4 DEF IndInv, Variables, Parts
<1> HIDE DEF n
<1>6. CallOf(t)'
  <2>1. logged'[record'[t]].callSite = s /\ logged'[record'[t]].name = channels'[address'[t]].name
    BY <1>1, <1>3, <1>5 DEF e
  <2>2. pc'[t] # "idle"
    BY <1>2, <1>5
  <2>3. record'[t] \in 1..Len(logged')
    BY <1>3, <1>4, <1>5
  <2>4. QED
    BY <1>5, <2>1, <2>2, <2>3 DEF CallOf
<1>7. AheadOf(t)'
  <2>1. \A p : <<p, n + 1>> \notin collected
    BY <1>4 DEF IndInv, Places, n
  <2>2. QED
    BY <1>1, <1>5, <2>1 DEF AheadOf
<1>8. record'[t] \notin 1..Len(logged) /\ Len(logged) <= Len(logged')
        /\ \A r \in 1..Len(logged) : logged'[r] = logged[r]
  BY <1>3, <1>4, <1>5 DEF n
<1>9. l \in {"idle", "next", "enter"} /\ pc[t] \in {"idle", "next"}
  BY <1>1, <1>2
<1>10. QED
  BY <1>1, <1>3, <1>5, <1>6, <1>7, <1>8, <1>9, OutsideMoves

(* The backend accepts the record. *)
LEMMA OutputPreserves ==
  ASSUME IndInv, NEW t \in Threads, Output(t)
  PROVE  IndInv'
<1> DEFINE l == IF Active THEN "enter" ELSE "next"
<1>1. /\ pc[t] = "next" /\ part[t] = "source" /\ pc' = [pc EXCEPT ![t] = l]
      /\ part' = [part EXCEPT ![t] = "output"]
      /\ UNCHANGED <<Active, HasSession, Sites, SiteByKey, InFlight, Statistics, Generation,
                     channels, site, slot, command, wasActive, commands, collected, report,
                     record, callSite, address, logged>>
  BY DEF Output, Goto, collector, cache, found, control
<1>2. l \in {"next", "enter"}
  OBVIOUS
<1> HIDE DEF l
<1>3. /\ part' \in [Threads -> Parts] /\ record' \in [Threads -> Nat]
      /\ DOMAIN callSite' = Threads /\ DOMAIN address' = Threads
      /\ \A u \in Threads \ {t} : /\ part'[u] = part[u] /\ record'[u] = record[u]
                                  /\ callSite'[u] = callSite[u] /\ address'[u] = address[u]
      /\ part'[t] = "output" /\ pc'[t] = l
  BY <1>1 DEF IndInv, Variables, Parts
<1>4. CallOf(t) /\ AheadOf(t)
  BY DEF IndInv, Calls, Ahead
<1>5. CallOf(t)'
  BY <1>1, <1>2, <1>3, <1>4 DEF CallOf
<1>6. AheadOf(t)'
  BY <1>1, <1>3, <1>4 DEF AheadOf
<1>7. logged' \in Seq(ToSet(logged')) /\ Len(logged) <= Len(logged')
  BY <1>1, OwnDomain DEF IndInv, Variables
<1>8. l \in {"idle", "next", "enter"} /\ pc[t] \in {"idle", "next"}
  BY <1>1, <1>2
<1>9. record'[t] = record[t] /\ \A r \in 1..Len(logged) : logged'[r] = logged[r]
  BY <1>1
<1>10. QED
  BY <1>1, <1>3, <1>5, <1>6, <1>7, <1>8, <1>9, OutsideMoves

(* The call returns. *)
LEMMA ReturnPreserves ==
  ASSUME IndInv, NEW t \in Threads, Return(t)
  PROVE  IndInv'
<1>1. /\ pc[t] = "next" /\ part[t] = "output" /\ pc' = [pc EXCEPT ![t] = "idle"]
      /\ record' = [record EXCEPT ![t] = None] /\ callSite' = [callSite EXCEPT ![t] = None]
      /\ address' = [address EXCEPT ![t] = None] /\ part' = [part EXCEPT ![t] = "source"]
      /\ UNCHANGED <<Active, HasSession, Sites, SiteByKey, InFlight, Statistics, Generation,
                     channels, site, slot, command, wasActive, commands, collected, report,
                     logged>>
  BY DEF Return, Goto, collector, cache, found, control
<1>2. None \in Nat
  BY DEF None
<1>3. /\ part' \in [Threads -> Parts] /\ record' \in [Threads -> Nat]
      /\ DOMAIN callSite' = Threads /\ DOMAIN address' = Threads
      /\ \A u \in Threads \ {t} : /\ part'[u] = part[u] /\ record'[u] = record[u]
                                  /\ callSite'[u] = callSite[u] /\ address'[u] = address[u]
      /\ part'[t] = "source" /\ pc'[t] = "idle" /\ record'[t] = None
  BY <1>1, <1>2 DEF IndInv, Variables, Parts
<1>4. CallOf(t)'
  BY <1>3 DEF CallOf
<1>5. AheadOf(t)'
  BY <1>3 DEF AheadOf, Uncollected
<1>6. logged' \in Seq(ToSet(logged')) /\ Len(logged) <= Len(logged')
  BY <1>1, OwnDomain DEF IndInv, Variables
<1>7. \A r \in 1..Len(logged) : logged'[r] = logged[r]
  BY <1>1
<1>8. "idle" \in {"idle", "next", "enter"} /\ pc[t] \in {"idle", "next"}
  BY <1>1
<1>9. QED
  BY <1>1, <1>3, <1>4, <1>5, <1>6, <1>7, <1>8, OutsideMoves

(* A channel no call holds is replaced. *)
LEMMA ReplaceChannelPreserves ==
  ASSUME IndInv, NEW a \in Addresses, ReplaceChannel(a)
  PROVE  IndInv'
<1>1. /\ \A t \in Threads : address[t] # a
      /\ \E n : channels' = [channels EXCEPT ![a] = [name |-> n, number |-> n]]
      /\ UNCHANGED <<Active, HasSession, Sites, SiteByKey, InFlight, Statistics, Generation, pc,
                     part, record, callSite, address, site, slot, command, wasActive, commands,
                     logged, collected, report>>
  BY DEF ReplaceChannel, collector, cache, call, found, control
<1>2. /\ DOMAIN channels' = Addresses
      /\ \A b \in Addresses : b # a => channels'[b] = channels[b]
      /\ channels'[a].name = channels'[a].number
  BY <1>1 DEF IndInv, Variables
<1>3. Variables'
  BY <1>1, <1>2 DEF IndInv, Variables
<1>4. SiteShapes' /\ Caches' /\ Attributed'
  <2>1. SiteShapes'
    BY <1>1 DEF IndInv, SiteShapes
  <2>2. Caches'
    BY <1>1, CachesStay DEF IndInv
  <2>3. Attributed'
    BY <1>1 DEF IndInv, Attributed
  <2>4. QED
    BY <2>1, <2>2, <2>3
<1>5. \A t \in Threads : pc[t] # "idle" => channels'[address[t]] = channels[address[t]]
  BY <1>1, <1>2 DEF IndInv, Calls, CallOf
<1>6. Calls'
  <2>1. \A t \in Threads : CallOf(t)
    BY DEF IndInv, Calls
  <2>2. \A t \in Threads : CallOf(t)'
    BY <1>1, <1>5, <2>1 DEF CallOf
  <2>3. QED
    BY <1>1, <2>2 DEF IndInv, Calls
<1>7. Found'
  <2>1. ASSUME NEW t \in Threads PROVE FoundBy(t)'
    <3>1. FoundBy(t) /\ (pc[t] = "count" => Key(t)' = Key(t))
      BY <1>1, <1>5 DEF IndInv, Found, Key
    <3>2. QED
      BY <1>1, <3>1 DEF FoundBy
  <2>2. QED
    BY <2>1 DEF Found
<1>8. Names'
  BY <1>1, <1>2 DEF IndInv, Names
<1>9. Places'
  BY <1>1, PlacesStay DEF IndInv
<1>10. Ahead' /\ Waited' /\ Reported' /\ InFlightExact'
  <2>1. Ahead'
    BY <1>1 DEF IndInv, Ahead, AheadOf
  <2>2. Waited'
    BY <1>1 DEF IndInv, Waited, NobodyInside
  <2>3. Reported'
    BY <1>1 DEF IndInv, Reported
  <2>4. InFlightExact'
    BY <1>1 DEF IndInv, InFlightExact, InFlightThreads
  <2>5. QED
    BY <2>1, <2>2, <2>3, <2>4
<1>11. QED
  BY <1>3, <1>4, <1>6, <1>7, <1>8, <1>9, <1>10 DEF IndInv

----------------------------------------------------------------------------
(* The commands. *)

(* What the counters of a part say, record by record. *)
LEMMA CountedIs ==
  ASSUME NEW p
  PROVE  \A r : r \in Counted(p) <=>
           \/ \E i \in DOMAIN Sites : r \in Sites[i].overflow[p]
           \/ \E i \in DOMAIN Sites : \E j \in DOMAIN Sites[i].slots[p] :
                r \in Sites[i].slots[p][j].counted
<1>1. \A i \in DOMAIN Sites : \A r :
        r \in UNION {s.counted : s \in ToSet(Sites[i].slots[p])} <=>
          \E j \in DOMAIN Sites[i].slots[p] : r \in Sites[i].slots[p][j].counted
  BY DEF ToSet
<1>2. \A r : r \in Counted(p) <=> \E object \in ToSet(Sites) :
        \/ r \in object.overflow[p]
        \/ r \in UNION {s.counted : s \in ToSet(object.slots[p])}
  BY DEF Counted
<1>3. \A r : r \in Counted(p) <=> \E i \in DOMAIN Sites :
        \/ r \in Sites[i].overflow[p]
        \/ r \in UNION {s.counted : s \in ToSet(Sites[i].slots[p])}
  BY <1>2 DEF ToSet
<1>4. QED
  BY <1>1, <1>3

(* While nobody is inside, the counters say what was collected. *)
LEMMA CountedExact ==
  ASSUME IndInv, NobodyInside, NEW p \in Parts
  PROVE  Counted(p) = {r \in 1..Len(logged) : <<p, r>> \in collected}
<1>1. /\ DOMAIN Sites = 1..Len(Sites)
      /\ \A i \in 1..Len(Sites) : DOMAIN Sites[i].slots[p] = 1..Len(Sites[i].slots[p])
  BY OwnDomain DEF IndInv, SiteShapes, Variables
<1>2. \A r : r \in Counted(p) <=> InOverflow(p, r) \/ InSlot(p, r)
  <2>1. ASSUME NEW r PROVE r \in Counted(p) <=> InOverflow(p, r) \/ InSlot(p, r)
    <3>1. InOverflow(p, r) <=> \E i \in DOMAIN Sites : r \in Sites[i].overflow[p]
      BY <1>1 DEF InOverflow
    <3>2. InSlot(p, r) <=> \E i \in DOMAIN Sites : \E j \in DOMAIN Sites[i].slots[p] :
                             r \in Sites[i].slots[p][j].counted
      BY <1>1 DEF InSlot
    <3>3. QED
      BY <3>1, <3>2, CountedIs
  <2>2. QED
    BY <2>1
<1>3. \A r : InOverflow(p, r) \/ InSlot(p, r) => r \in 1..Len(logged)
  BY DEF IndInv, SiteShapes, InOverflow, InSlot
<1>4. \A r : ~ Owed(p, r)
  BY DEF NobodyInside, Inside, Owed
<1>5. \A r \in 1..Len(logged) : <<p, r>> \in collected <=> InOverflow(p, r) \/ InSlot(p, r)
  BY <1>4 DEF IndInv, Places
<1>6. QED
  BY <1>2, <1>3, <1>5

(* What a command that leaves the counters alone must keep. *)
LEMMA CommandMoves ==
  ASSUME IndInv, Variables', Waited', Reported',
         UNCHANGED <<Sites, SiteByKey, InFlight, Statistics, Generation, channels, pc, part, record,
                     callSite, address, site, slot, logged, collected>>
  PROVE  IndInv'
<1>1. SiteShapes' /\ Names' /\ Attributed' /\ Caches'
  BY DataStays, CachesStay DEF IndInv
<1>2. Calls'
  BY DEF IndInv, Calls, CallOf
<1>3. Found'
  BY DEF IndInv, Found, FoundBy, Key
<1>4. Places'
  BY PlacesStay DEF IndInv
<1>5. Ahead'
  BY DEF IndInv, Ahead, AheadOf
<1>6. InFlightExact'
  BY DEF IndInv, InFlightExact, InFlightThreads
<1>7. QED
  BY <1>1, <1>2, <1>3, <1>4, <1>5, <1>6 DEF IndInv

(* A command that has waited finds nobody inside. *)
LEMMA IdleFindsNobody ==
  ASSUME IndInv, command \in {"start", "stop", "reset"}, Idle
  PROVE  NobodyInside /\ ~ Active
<1>1. CASE wasActive
  BY <1>1, IdleMeansNobody DEF IndInv, Idle, Waited
<1>2. CASE ~ wasActive
  BY <1>2 DEF IndInv, Waited
<1>3. QED
  BY <1>1, <1>2

(* The commands that leave the counters alone. *)
LEMMA CommandsPreserve ==
  ASSUME IndInv,
         \/ \E what \in {"start", "stop", "reset"} : Exchange(what)
         \/ Stop \/ Activate \/ DumpEntries \/ DumpOutputs
  PROVE  IndInv'
<1>1. ASSUME NEW what \in {"start", "stop", "reset"}, Exchange(what) PROVE IndInv'
  <2>1. /\ command = "idle" /\ commands < MaxCommands /\ commands' = commands + 1
        /\ wasActive' = Active /\ Active' = FALSE /\ command' = what
        /\ UNCHANGED <<HasSession, Sites, SiteByKey, InFlight, Statistics, Generation, channels, pc,
                       part, record, callSite, address, site, slot, logged, collected, report>>
    BY <1>1 DEF Exchange, collector, cache, call, found
  <2>2. commands + 1 \in 0..MaxCommands
    BY <2>1, StatisticsAssumption DEF IndInv, Variables
  <2>3. Variables'
    BY <2>1, <2>2 DEF IndInv, Variables
  <2>4. Waited'
    <3>1. ~ Active => NobodyInside
      BY <2>1 DEF IndInv, Waited
    <3>2. NobodyInside' <=> NobodyInside
      BY <2>1 DEF NobodyInside
    <3>3. QED
      BY <2>1, <3>1, <3>2 DEF Waited
  <2>5. Reported'
    BY <2>1 DEF Reported
  <2>6. QED
    BY <2>1, <2>3, <2>4, <2>5, CommandMoves
<1>2. ASSUME Stop PROVE IndInv'
  <2>1. /\ command = "stop" /\ Idle /\ command' = "idle"
        /\ UNCHANGED <<Active, HasSession, Sites, SiteByKey, InFlight, Statistics, Generation,
                       channels, pc, part, record, callSite, address, site, slot, wasActive,
                       commands, logged, collected, report>>
    BY <1>2 DEF Stop, collector, cache, call, found
  <2>2. Variables'
    BY <2>1 DEF IndInv, Variables
  <2>3. Waited'
    <3>1. NobodyInside'
      BY <2>1, IdleFindsNobody DEF NobodyInside
    <3>2. QED
      BY <2>1, <3>1 DEF Waited
  <2>4. Reported'
    BY <2>1 DEF Reported
  <2>5. QED
    BY <2>1, <2>2, <2>3, <2>4, CommandMoves
<1>3. ASSUME Activate PROVE IndInv'
  <2>1. /\ command = "activate" /\ Active' = TRUE /\ command' = "idle"
        /\ UNCHANGED <<HasSession, Sites, SiteByKey, InFlight, Statistics, Generation,
                       channels, pc, part, record, callSite, address, site, slot, wasActive,
                       commands, logged, collected, report>>
    BY <1>3 DEF Activate, collector, cache, call, found
  <2>2. Variables'
    BY <2>1 DEF IndInv, Variables
  <2>3. Waited' /\ Reported'
    BY <2>1 DEF Waited, Reported
  <2>4. QED
    BY <2>1, <2>2, <2>3, CommandMoves
<1>4. ASSUME DumpEntries PROVE IndInv'
  <2>1. /\ command = "idle" /\ commands < MaxCommands /\ commands' = commands + 1
        /\ report' = [source |-> Counted("source"), output |-> {}, active |-> Active]
        /\ command' = "dump"
        /\ UNCHANGED <<Active, HasSession, Sites, SiteByKey, InFlight, Statistics, Generation,
                       channels, pc, part, record, callSite, address, site, slot, wasActive,
                       logged, collected>>
    BY <1>4 DEF DumpEntries, collector, cache, call, found
  <2>2. commands + 1 \in 0..MaxCommands
    BY <2>1, StatisticsAssumption DEF IndInv, Variables
  <2>3. Variables'
    <3>1. DOMAIN report' = {"source", "output", "active"}
      BY <2>1
    <3>2. QED
      BY <2>1, <2>2, <3>1 DEF IndInv, Variables
  <2>4. ~ Active => NobodyInside
    BY <2>1 DEF IndInv, Waited
  <2>5. Waited'
    BY <2>1, <2>4 DEF Waited, NobodyInside
  <2>6. Reported'
    <3>1. report'.active = Active /\ report'.source = Counted("source")
      BY <2>1
    <3>2. "source" \in Parts
      BY DEF Parts
    <3>3. ~ Active => Counted("source") = {r \in 1..Len(logged) : <<"source", r>> \in collected}
      BY <2>4, <3>2, CountedExact
    <3>4. QED
      BY <2>1, <3>1, <3>3 DEF Reported
  <2>7. QED
    BY <2>1, <2>3, <2>5, <2>6, CommandMoves
<1>5. ASSUME DumpOutputs PROVE IndInv'
  <2>1. /\ command = "dump" /\ report' = [report EXCEPT !.output = Counted("output")]
        /\ command' = "idle"
        /\ UNCHANGED <<Active, HasSession, Sites, SiteByKey, InFlight, Statistics, Generation,
                       channels, pc, part, record, callSite, address, site, slot, wasActive,
                       commands, logged, collected>>
    BY <1>5 DEF DumpOutputs, collector, cache, call, found
  <2>2. Variables'
    BY <2>1 DEF IndInv, Variables
  <2>3. Waited'
    BY <2>1 DEF IndInv, Waited, NobodyInside
  <2>4. Reported'
    BY <2>1 DEF Reported
  <2>5. QED
    BY <2>1, <2>2, <2>3, <2>4, CommandMoves
<1>6. QED
  BY <1>1, <1>2, <1>3, <1>4, <1>5

(* A reset, and a start, clear every counter, and nobody still owes a count.  *)
LEMMA ResetPreserves ==
  ASSUME IndInv, Reset
  PROVE  IndInv'
<1>1. /\ command \in {"start", "reset"} /\ Idle
      /\ Sites' = [i \in DOMAIN Sites |-> Cleared(Sites[i])]
      /\ HasSession' = (HasSession \/ command = "start")
      /\ collected' = {}
      /\ command' \in {"activate", "idle"}
      /\ UNCHANGED <<Active, SiteByKey, InFlight, Statistics, Generation, channels, pc, part, record,
                     callSite, address, site, slot, wasActive, commands, logged, report>>
  BY DEF Reset, cache, call, found
<1>2. NobodyInside /\ ~ Active
  BY <1>1, IdleFindsNobody
<1>3. /\ \A i \in 1..Len(Sites) :
           /\ DOMAIN Sites[i] = {"callSite", "slots", "overflow"}
           /\ DOMAIN Sites[i].slots = Parts /\ DOMAIN Sites[i].overflow = Parts
      /\ \A i \in 1..Len(Sites), p \in Parts :
           /\ Sites[i].slots[p] \in Seq(ToSet(Sites[i].slots[p]))
           /\ DOMAIN Sites[i].slots[p] = 1..Len(Sites[i].slots[p])
           /\ Len(Sites[i].slots[p]) \in Nat /\ Len(Sites[i].slots[p]) <= SlotCount
           /\ \A j \in 1..Len(Sites[i].slots[p]) :
                DOMAIN Sites[i].slots[p][j] = {"key", "name", "counted"}
      /\ Sites \in Seq(ToSet(Sites)) /\ DOMAIN Sites = 1..Len(Sites)
  BY OwnDomain DEF IndInv, SiteShapes, Variables
<1>4. ASSUME NEW i \in 1..Len(Sites)
      PROVE  /\ Cleared(Sites[i]).callSite = Sites[i].callSite
             /\ DOMAIN Cleared(Sites[i]) = {"callSite", "slots", "overflow"}
             /\ DOMAIN Cleared(Sites[i]).slots = Parts /\ DOMAIN Cleared(Sites[i]).overflow = Parts
             /\ \A p \in Parts :
                  /\ Cleared(Sites[i]).overflow[p] = {}
                  /\ Cleared(Sites[i]).slots[p] = [j \in DOMAIN Sites[i].slots[p] |->
                       [Sites[i].slots[p][j] EXCEPT !.counted = {}]]
  BY <1>3 DEF Cleared
<1>5. /\ DOMAIN Sites' = DOMAIN Sites /\ Sites' = [i \in DOMAIN Sites |-> Sites'[i]]
      /\ \A i \in 1..Len(Sites) : Sites'[i] = Cleared(Sites[i])
  BY <1>1, <1>3
<1>6. Sites' \in Seq(ToSet(Sites')) /\ Len(Sites') = Len(Sites)
  BY <1>3, <1>5, ReplacedOwn
<1>7. \A i \in 1..Len(Sites) :
        /\ Sites'[i].callSite = Sites[i].callSite
        /\ DOMAIN Sites'[i] = {"callSite", "slots", "overflow"}
        /\ DOMAIN Sites'[i].slots = Parts /\ DOMAIN Sites'[i].overflow = Parts
        /\ \A p \in Parts : Sites'[i].overflow[p] = {}
  BY <1>4, <1>5
<1>8. ASSUME NEW i \in 1..Len(Sites), NEW p \in Parts
      PROVE  /\ Sites'[i].slots[p] \in Seq(ToSet(Sites'[i].slots[p]))
             /\ Len(Sites'[i].slots[p]) = Len(Sites[i].slots[p])
             /\ \A j \in 1..Len(Sites[i].slots[p]) :
                  /\ DOMAIN Sites'[i].slots[p][j] = {"key", "name", "counted"}
                  /\ Sites'[i].slots[p][j].key = Sites[i].slots[p][j].key
                  /\ Sites'[i].slots[p][j].name = Sites[i].slots[p][j].name
                  /\ Sites'[i].slots[p][j].counted = {}
  <2> DEFINE slots == Sites[i].slots[p]
             s == Sites'[i].slots[p]
  <2>1. s = [j \in DOMAIN slots |-> [slots[j] EXCEPT !.counted = {}]]
    BY <1>4, <1>5
  <2>2. /\ slots \in Seq(ToSet(slots)) /\ DOMAIN slots = 1..Len(slots)
        /\ \A j \in 1..Len(slots) : DOMAIN slots[j] = {"key", "name", "counted"}
    BY <1>3
  <2> HIDE DEF s, slots
  <2>3. DOMAIN s = DOMAIN slots /\ s = [j \in DOMAIN slots |-> s[j]]
    BY <2>1
  <2>4. s \in Seq(ToSet(s)) /\ Len(s) = Len(slots)
    BY <2>2, <2>3, ReplacedOwn
  <2>5. \A j \in 1..Len(slots) :
          /\ DOMAIN s[j] = {"key", "name", "counted"}
          /\ s[j].key = slots[j].key /\ s[j].name = slots[j].name /\ s[j].counted = {}
    BY <2>1, <2>2
  <2>6. QED
    BY <2>4, <2>5 DEF s, slots
<1>9. \A i \in 1..Len(Sites), p \in Parts :
        1..Len(Sites'[i].slots[p]) = 1..Len(Sites[i].slots[p])
  BY <1>8
<1>10. Variables'
  <2>1. HasSession' \in BOOLEAN
    BY <1>1 DEF IndInv, Variables
  <2>2. QED
    BY <1>1, <1>6, <2>1 DEF IndInv, Variables
<1>11. /\ SiteShapes' /\ Caches'
       /\ \A u \in Threads : FoundBy(u)'
  <2>1. \A i \in 1..Len(Sites), p \in Parts :
          /\ Sites'[i].slots[p] \in Seq(ToSet(Sites'[i].slots[p]))
          /\ Len(Sites[i].slots[p]) <= Len(Sites'[i].slots[p])
          /\ Len(Sites'[i].slots[p]) <= SlotCount
          /\ Sites'[i].overflow[p] \subseteq 1..Len(logged)
    BY <1>3, <1>7, <1>8
  <2>2. \A i \in 1..Len(Sites), p \in Parts :
          \A j \in 1..Len(Sites'[i].slots[p]) :
            /\ DOMAIN Sites'[i].slots[p][j] = {"key", "name", "counted"}
            /\ Sites'[i].slots[p][j].counted \subseteq 1..Len(logged)
    <3>1. ASSUME NEW i \in 1..Len(Sites), NEW p \in Parts, NEW j \in 1..Len(Sites'[i].slots[p])
          PROVE  /\ DOMAIN Sites'[i].slots[p][j] = {"key", "name", "counted"}
                 /\ Sites'[i].slots[p][j].counted \subseteq 1..Len(logged)
      <4>1. j \in 1..Len(Sites[i].slots[p])
        BY <1>9
      <4>2. QED
        BY <1>8, <4>1
    <3>2. QED
      BY <3>1
  <2>3. \A i \in 1..Len(Sites), p \in Parts : \A j \in 1..Len(Sites[i].slots[p]) :
          Sites'[i].slots[p][j].key = Sites[i].slots[p][j].key
    BY <1>8
  <2>4. QED
    <3>1. SameSites
      BY <1>6, <1>7 DEF SameSites
    <3>2. SlotsGrow
      BY <2>1, <2>3 DEF SlotsGrow
    <3>3. CountersFit
      BY <2>1, <2>2 DEF CountersFit
    <3>4. QED
      BY <1>1, <3>1, <3>2, <3>3, SitesEvolve
<1>12. Calls'
  BY <1>1 DEF IndInv, Calls, CallOf
<1>13. Names'
  <2>1. "output" \in Parts
    BY DEF Parts
  <2>2. \A i \in 1..Len(Sites) : \A j \in 1..Len(Sites[i].slots["output"]) :
          Sites'[i].slots["output"][j].name = Sites'[i].slots["output"][j].key
    BY <1>8, <2>1 DEF IndInv, Names
  <2>3. Len(Sites') = Len(Sites) /\ channels' = channels
          /\ \A i \in 1..Len(Sites) : Len(Sites'[i].slots["output"]) = Len(Sites[i].slots["output"])
    BY <1>1, <1>6, <1>8, <2>1
  <2>4. QED
    BY <2>2, <2>3 DEF IndInv, Names
<1>14. Attributed'
  <2>1. DOMAIN Sites' = 1..Len(Sites)
          /\ \A i \in 1..Len(Sites), p \in Parts :
               DOMAIN Sites'[i].slots[p] = 1..Len(Sites[i].slots[p])
    BY <1>3, <1>5, <1>8, <1>9, OwnDomain
  <2>2. \A i, j \in 1..Len(Sites) : Sites'[i].callSite = Sites'[j].callSite => i = j
    <3>1. \A i, j \in 1..Len(Sites) : Sites[i].callSite = Sites[j].callSite => i = j
      BY <1>3 DEF IndInv, Attributed
    <3>2. QED
      BY <1>7, <3>1
  <2>3. ASSUME NEW i \in 1..Len(Sites), NEW p \in Parts
        PROVE  \A j \in 1..Len(Sites[i].slots[p]) :
                 /\ Sites'[i].slots[p][j].counted = {}
                 /\ \A k \in 1..Len(Sites[i].slots[p]) :
                      Sites'[i].slots[p][j].key = Sites'[i].slots[p][k].key => j = k
    <3>1. \A j, k \in 1..Len(Sites[i].slots[p]) :
            Sites[i].slots[p][j].key = Sites[i].slots[p][k].key => j = k
      <4>1. i \in DOMAIN Sites /\ DOMAIN Sites[i].slots[p] = 1..Len(Sites[i].slots[p])
        BY <1>3
      <4>2. Attributed
        BY DEF IndInv
      <4>3. QED
        BY <4>1, <4>2 DEF Attributed
    <3>2. QED
      BY <1>8, <3>1
  <2>4. ASSUME NEW i \in DOMAIN Sites', NEW p \in Parts
        PROVE  /\ Sites'[i].overflow[p] = {}
               /\ \A j \in DOMAIN Sites'[i].slots[p] :
                    /\ Sites'[i].slots[p][j].counted = {}
                    /\ \A k \in DOMAIN Sites'[i].slots[p] :
                         Sites'[i].slots[p][j].key = Sites'[i].slots[p][k].key => j = k
    <3>1. i \in 1..Len(Sites) /\ DOMAIN Sites'[i].slots[p] = 1..Len(Sites[i].slots[p])
      BY <2>1
    <3>2. QED
      BY <1>7, <2>3, <3>1
  <2>5. QED
    BY <2>1, <2>2, <2>4 DEF Attributed
<1>15. Places'
  <2>1. \A p, r : ~ Owed(p, r)'
    BY <1>1, <1>2 DEF Owed, NobodyInside, Inside
  <2>2. \A p \in Parts, r \in 1..Len(logged) : ~ InOverflow(p, r)'
    BY <1>6, <1>7 DEF InOverflow
  <2>3. \A p \in Parts, r \in 1..Len(logged) : ~ InSlot(p, r)'
    BY <1>6, <1>8, <1>9 DEF InSlot
  <2>4. \A p \in Parts, i \in 1..Len(Sites') : \A j \in 1..Len(Sites'[i].slots[p]) :
          Sites'[i].slots[p][j].counted = {}
    BY <1>6, <1>8, <1>9
  <2>5. QED
    <3>1. collected' = {} /\ logged' = logged
      BY <1>1
    <3>2. \A p \in Parts, r \in 1..Len(logged') :
            /\ <<p, r>> \in collected' <=> Owed(p, r)' \/ InOverflow(p, r)' \/ InSlot(p, r)'
            /\ ~ (Owed(p, r)' /\ InOverflow(p, r)') /\ ~ (Owed(p, r)' /\ InSlot(p, r)')
            /\ ~ (InOverflow(p, r)' /\ InSlot(p, r)')
      BY <2>1, <2>2, <2>3, <3>1
    <3>3. QED
      BY <2>4, <3>1, <3>2 DEF Places
<1>16. Ahead'
  BY <1>1 DEF Ahead, AheadOf
<1>17. Waited'
  BY <1>1, <1>2 DEF Waited, NobodyInside
<1>18. Reported'
  <2>1. command' # "dump"
    BY <1>1
  <2>2. QED
    BY <2>1 DEF Reported
<1>19. InFlightExact'
  BY <1>1 DEF IndInv, InFlightExact, InFlightThreads
<1>20. QED
  BY <1>10, <1>11, <1>12, <1>13, <1>14, <1>15, <1>16, <1>17, <1>18, <1>19 DEF IndInv, Found

----------------------------------------------------------------------------
(* The invariant. *)

(* It holds at first. *)
LEMMA InitIndInv == Init => IndInv
<1> SUFFICES ASSUME Init PROVE IndInv
  OBVIOUS
<1>1. <<>> \in Seq(ToSet(<<>>)) /\ Len(<<>>) = 0 /\ 1..Len(<<>>) = {} /\ DOMAIN <<>> = {}
  <2>1. <<>> \in Seq({}) /\ Len(<<>>) = 0
    BY EmptySeq
  <2>2. QED
    BY <2>1, OwnElements
<1>2. None \in Nat /\ None \in 0..Len(<<>>) /\ None \in 0..SlotCount /\ 0 \in 0..MaxCommands
  BY <1>1, StatisticsAssumption DEF None
<1>3. Variables
  <2>1. DOMAIN channels = Addresses
    BY DEF Init, FirstChannels
  <2>2. logged \in Seq(ToSet(logged)) /\ Sites \in Seq(ToSet(Sites))
    BY <1>1 DEF Init
  <2>3. DOMAIN report = {"source", "output", "active"}
    BY DEF Init
  <2>4. pc \in [Threads -> Labels] /\ part \in [Threads -> Parts]
    BY DEF Init, Labels, Parts
  <2>5. QED
    BY <1>2, <2>1, <2>2, <2>3, <2>4 DEF Init, Variables
<1>4. SiteShapes /\ Attributed
  BY <1>1 DEF Init, SiteShapes, Attributed
<1>5. Calls
  BY DEF Init, Calls, CallOf
<1>6. Caches
  BY <1>1 DEF Init, Caches
<1>7. Found
  BY <1>2 DEF Init, Found, FoundBy, Owing
<1>8. Names
  <2>1. \A a \in Addresses : channels[a].name = channels[a].number
    <3> DEFINE order == SetToSeq(Addresses)
               At(a) == CHOOSE i \in DOMAIN order : order[i] = a
    <3>1. channels = [a \in Addresses |-> [name |-> At(a), number |-> At(a)]]
      BY DEF Init, FirstChannels
    <3> HIDE DEF At
    <3>2. QED
      BY <3>1
  <2>2. QED
    BY <1>1, <2>1 DEF Init, Names
<1>9. Places
  BY <1>1 DEF Init, Places
<1>10. Ahead
  BY DEF Init, Ahead, AheadOf
<1>11. Waited /\ Reported
  BY DEF Init, Waited, NobodyInside, Inside, Owing, Reported
<1>12. InFlightExact
  <2>1. InFlightThreads = {}
    BY DEF Init, InFlightThreads
  <2>2. QED
    BY <2>1, FS_EmptySet DEF Init, InFlightExact
<1>13. QED
  BY <1>3, <1>4, <1>5, <1>6, <1>7, <1>8, <1>9, <1>10, <1>11, <1>12 DEF IndInv

(* Every step keeps it. *)
LEMMA NextIndInv == IndInv /\ [Next]_vars => IndInv'
<1> SUFFICES ASSUME IndInv, [Next]_vars PROVE IndInv'
  OBVIOUS
<1>1. ASSUME NEW t \in Threads, Proceed(t) PROVE IndInv'
  BY <1>1, OutputPreserves, ReturnPreserves, MovesPreserve, LoadSitePreserves,
     GetOrCreateSitePreserves, GetOrCreateSlotPreserves, CountPreserves DEF Proceed
<1>2. ASSUME NEW t \in Threads, NEW s \in CallSites, NEW a \in Addresses, Log(t, s, a) PROVE IndInv'
  BY <1>2, LogPreserves
<1>3. ASSUME NEW a \in Addresses, ReplaceChannel(a) PROVE IndInv'
  BY <1>3, ReplaceChannelPreserves
<1>4. ASSUME NEW what \in {"start", "stop", "reset"}, Exchange(what) PROVE IndInv'
  BY <1>4, CommandsPreserve
<1>5. CASE DumpEntries
  BY <1>5, CommandsPreserve
<1>6. CASE Complete
  BY <1>6, CommandsPreserve, ResetPreserves DEF Complete
<1>7. CASE UNCHANGED vars
  <2>1. UNCHANGED <<Active, HasSession, Sites, SiteByKey, InFlight, Statistics, Generation, channels,
                    pc, part, record, callSite, address, site, slot, command, wasActive, commands,
                    logged, collected, report>>
    BY <1>7 DEF vars, collector, cache, call, found, control
  <2>2. Variables'
    BY <2>1 DEF IndInv, Variables
  <2>3. Waited'
    BY <2>1 DEF IndInv, Waited, NobodyInside
  <2>4. Reported'
    BY <2>1 DEF IndInv, Reported
  <2>5. QED
    BY <2>1, <2>2, <2>3, <2>4, CommandMoves
<1>8. QED
  BY <1>1, <1>2, <1>3, <1>4, <1>5, <1>6, <1>7 DEF Next

(* So it always holds. *)
THEOREM IndInvHolds == Spec => []IndInv
BY InitIndInv, NextIndInv, PTL DEF Spec

----------------------------------------------------------------------------
(* The properties. *)

(* What there is at most one of counts as none or one. *)
LEMMA AtMostOne ==
  ASSUME NEW S, \A x, y \in S : x = y
  PROVE  Cardinality(S) = IF S = {} THEN 0 ELSE 1
<1>1. CASE S = {}
  BY <1>1, FS_EmptySet
<1>2. CASE S # {}
  <2>1. PICK x : x \in S
    BY <1>2
  <2>2. S = {x}
    BY <2>1
  <2>3. Cardinality({x}) = 1
    BY FS_Singleton
  <2>4. QED
    BY <1>2, <2>2, <2>3
<1>3. QED
  BY <1>1, <1>2

(* A record is in one place of a part, if it was collected for it, and in none  *)
(* otherwise. *)
LEMMA OnePlaceEach ==
  ASSUME IndInv, NEW p \in Parts, NEW r \in 1..Len(logged)
  PROVE  Cardinality({t \in Threads : /\ part[t] = p /\ record[t] = r
                                      /\ pc[t] \in {"store site", "store generation", "find",
                                                    "create", "count"}})
         + Cardinality({i \in DOMAIN Sites : r \in Sites[i].overflow[p]})
         + Cardinality({at \in (DOMAIN Sites) \X (1..SlotCount) :
                          /\ at[2] \in DOMAIN Sites[at[1]].slots[p]
                          /\ r \in Sites[at[1]].slots[p][at[2]].counted})
         = IF <<p, r>> \in collected THEN 1 ELSE 0
<1> DEFINE A == {t \in Threads : /\ part[t] = p /\ record[t] = r
                                 /\ pc[t] \in {"store site", "store generation", "find",
                                               "create", "count"}}
           B == {i \in DOMAIN Sites : r \in Sites[i].overflow[p]}
           C == {at \in (DOMAIN Sites) \X (1..SlotCount) :
                   /\ at[2] \in DOMAIN Sites[at[1]].slots[p]
                   /\ r \in Sites[at[1]].slots[p][at[2]].counted}
<1>1. /\ DOMAIN Sites = 1..Len(Sites)
      /\ \A i \in 1..Len(Sites) : /\ DOMAIN Sites[i].slots[p] = 1..Len(Sites[i].slots[p])
                                  /\ Len(Sites[i].slots[p]) \in Nat
                                  /\ Len(Sites[i].slots[p]) <= SlotCount
  BY OwnDomain DEF IndInv, SiteShapes, Variables
<1>2. r # None
  BY DEF None
<1>3. /\ \A i, j \in 1..Len(Sites) : Sites[i].callSite = Sites[j].callSite => i = j
      /\ \A i \in 1..Len(Sites) :
           /\ r \in Sites[i].overflow[p] => logged[r].callSite = Sites[i].callSite
           /\ \A j \in 1..Len(Sites[i].slots[p]) :
                r \in Sites[i].slots[p][j].counted => logged[r].callSite = Sites[i].callSite
  <2>1. Attributed
    BY DEF IndInv
  <2>2. \A i, j \in 1..Len(Sites) : Sites[i].callSite = Sites[j].callSite => i = j
    BY <1>1, <2>1 DEF Attributed
  <2>3. ASSUME NEW i \in 1..Len(Sites)
        PROVE  /\ r \in Sites[i].overflow[p] => logged[r].callSite = Sites[i].callSite
               /\ \A j \in 1..Len(Sites[i].slots[p]) :
                    r \in Sites[i].slots[p][j].counted => logged[r].callSite = Sites[i].callSite
    <3>1. i \in DOMAIN Sites /\ DOMAIN Sites[i].slots[p] = 1..Len(Sites[i].slots[p])
      BY <1>1
    <3>2. QED
      BY <2>1, <3>1 DEF Attributed
  <2>4. QED
    BY <2>2, <2>3
<1>4. (\A x, y \in A : x = y) /\ (A # {} <=> Owed(p, r))
  <2>1. \A x, y \in Threads : record[x] = record[y] /\ record[x] # None => x = y
    BY DEF IndInv, Calls
  <2>2. \A x, y \in A : x = y
    BY <1>2, <2>1
  <2>3. A # {} <=> Owed(p, r)
    BY DEF Owed, Owing
  <2>4. QED
    BY <2>2, <2>3
<1>5. (\A x, y \in B : x = y) /\ (B # {} <=> InOverflow(p, r))
  BY <1>1, <1>3 DEF InOverflow
<1>6. \A x, y \in C : x = y
  <2>1. SUFFICES ASSUME NEW x \in C, NEW y \in C PROVE x = y
    OBVIOUS
  <2>2. /\ x = <<x[1], x[2]>> /\ y = <<y[1], y[2]>>
        /\ x[1] \in 1..Len(Sites) /\ y[1] \in 1..Len(Sites)
        /\ x[2] \in 1..Len(Sites[x[1]].slots[p]) /\ y[2] \in 1..Len(Sites[y[1]].slots[p])
        /\ r \in Sites[x[1]].slots[p][x[2]].counted /\ r \in Sites[y[1]].slots[p][y[2]].counted
    <3>1. ASSUME NEW z \in C
          PROVE  /\ z = <<z[1], z[2]>> /\ z[1] \in 1..Len(Sites)
                 /\ z[2] \in 1..Len(Sites[z[1]].slots[p])
                 /\ r \in Sites[z[1]].slots[p][z[2]].counted
      <4>1. z \in (DOMAIN Sites) \X (1..SlotCount)
        OBVIOUS
      <4>2. z = <<z[1], z[2]>> /\ z[1] \in 1..Len(Sites)
        BY <1>1, <4>1
      <4>3. /\ z[2] \in DOMAIN Sites[z[1]].slots[p]
            /\ r \in Sites[z[1]].slots[p][z[2]].counted
        OBVIOUS
      <4>4. z[2] \in 1..Len(Sites[z[1]].slots[p])
        BY <1>1, <4>2, <4>3
      <4>5. QED
        BY <4>2, <4>3, <4>4
    <3> HIDE DEF C
    <3>2. QED
      BY <3>1
  <2>3. x[1] = y[1]
    BY <1>3, <2>2
  <2>4. x[2] = y[2]
    BY <2>2, <2>3 DEF IndInv, Places
  <2>5. QED
    BY <2>2, <2>3, <2>4
<1>7. C # {} <=> InSlot(p, r)
  <2>1. ASSUME NEW x \in C PROVE InSlot(p, r)
    <3>1. /\ x[1] \in 1..Len(Sites) /\ x[2] \in 1..Len(Sites[x[1]].slots[p])
          /\ r \in Sites[x[1]].slots[p][x[2]].counted
      BY <1>1
    <3>2. QED
      BY <3>1 DEF InSlot
  <2>2. ASSUME InSlot(p, r) PROVE C # {}
    <3>1. PICK i \in 1..Len(Sites) : \E j \in 1..Len(Sites[i].slots[p]) :
            r \in Sites[i].slots[p][j].counted
      BY <2>2 DEF InSlot
    <3>2. PICK j \in 1..Len(Sites[i].slots[p]) : r \in Sites[i].slots[p][j].counted
      BY <3>1
    <3>3. j \in 1..SlotCount
      BY <1>1, StatisticsAssumption
    <3>4. <<i, j>> \in C
      BY <1>1, <3>2, <3>3
    <3>5. QED
      BY <3>4
  <2>3. QED
    BY <2>1, <2>2
<1> HIDE DEF A, B, C
<1>8. /\ Cardinality(A) = IF Owed(p, r) THEN 1 ELSE 0
      /\ Cardinality(B) = IF InOverflow(p, r) THEN 1 ELSE 0
      /\ Cardinality(C) = IF InSlot(p, r) THEN 1 ELSE 0
  BY <1>4, <1>5, <1>6, <1>7, AtMostOne
<1>9. /\ <<p, r>> \in collected <=> Owed(p, r) \/ InOverflow(p, r) \/ InSlot(p, r)
      /\ ~ (Owed(p, r) /\ InOverflow(p, r)) /\ ~ (Owed(p, r) /\ InSlot(p, r))
      /\ ~ (InOverflow(p, r) /\ InSlot(p, r))
  BY DEF IndInv, Places
<1>10. Cardinality(A) + Cardinality(B) + Cardinality(C) = IF <<p, r>> \in collected THEN 1 ELSE 0
  BY <1>8, <1>9
<1>11. QED
  BY <1>10 DEF A, B, C

(* The types. *)
LEMMA TypesHold == IndInv => TypeOK
<1> SUFFICES ASSUME IndInv PROVE TypeOK
  OBVIOUS
<1>1. Len(Sites) \in Nat /\ Len(logged) \in Nat
  BY OwnDomain DEF IndInv, Variables
<1>2. InFlight = Cardinality({t \in Threads : pc[t] \notin {"idle", "next", "enter"}})
  BY DEF IndInv, InFlightExact, InFlightThreads
<1>3. \A s \in CallSites : {SiteByKey[s], Statistics[s]} \subseteq 0..Len(Sites)
  <2>1. \A s \in CallSites : /\ SiteByKey[s] = 0 \/ SiteByKey[s] \in 1..Len(Sites)
                             /\ Statistics[s] = 0 \/ Statistics[s] \in 1..Len(Sites)
    BY DEF IndInv, Caches, None
  <2>2. QED
    BY <1>1, <2>1
<1>4. \A t \in Threads : record[t] \in 0..Len(logged)
  <2>1. \A t \in Threads : record[t] = 0 \/ record[t] \in 1..Len(logged)
    BY DEF IndInv, Calls, CallOf, None
  <2>2. QED
    BY <1>1, <2>1
<1>5. \A t \in Threads : /\ site[t] \in 0..Len(Sites)
                         /\ pc[t] \in {"store site", "store generation", "find", "create", "count"}
                              => site[t] # None
                         /\ slot[t] \in 0..SlotCount
  BY DEF IndInv, Found, FoundBy, Owing
<1>6. QED
  BY <1>2, <1>3, <1>4, <1>5 DEF IndInv, Variables, TypeOK

(* What is collected since the last reset is counted once, where it belongs, or *)
(* is about to be, and nothing else is (WaitForIdle, Reset, Record).          *)
THEOREM CountedOnceHolds == Spec => []CountedOnce
<1>1. IndInv => CountedOnce
  BY TypesHold, OnePlaceEach DEF CountedOnce, IndInv
<1>2. QED
  BY <1>1, IndInvHolds, PTL

(* What is reported of a stopped collection is what was collected             *)
(* (StopLogStatistics, FormatStatus).                                         *)
THEOREM ReportExactHolds == Spec => ReportExact
<1>1. ASSUME IndInv, [Next]_vars, command = "dump", command' = "idle", ~ report.active
      PROVE  {<<"source", r>> : r \in report'.source} \cup {<<"output", r>> : r \in report'.output}
               = collected
  <2>1. DumpOutputs
    <3>1. command' # command
      BY <1>1
    <3>2. ASSUME NEW t \in Threads, Proceed(t) PROVE command' = command
      BY <3>2 DEF Proceed, Output, Return, Enter, Check, LoadGeneration, LoadSite, GetOrCreateSite,
                  StoreSite, StoreGeneration, FindSlot, GetOrCreateSlot, Count, Leave, control
    <3>3. ASSUME NEW t \in Threads, NEW s \in CallSites, NEW a \in Addresses, Log(t, s, a)
          PROVE  command' = command
      BY <3>3 DEF Log, control
    <3>4. ASSUME NEW a \in Addresses, ReplaceChannel(a) PROVE command' = command
      BY <3>4 DEF ReplaceChannel, control
    <3>5. ~ \E what \in {"start", "stop", "reset"} : Exchange(what)
      BY <1>1 DEF Exchange
    <3>6. ~ DumpEntries /\ ~ Stop /\ ~ Reset /\ ~ Activate
      BY <1>1 DEF DumpEntries, Stop, Reset, Activate
    <3>7. ~ UNCHANGED vars
      BY <3>1 DEF vars, control
    <3>8. QED
      BY <1>1, <3>1, <3>2, <3>3, <3>4, <3>5, <3>6, <3>7 DEF Next, Complete
  <2>2. report'.source = report.source /\ report'.output = Counted("output")
    BY <1>1, <2>1 DEF DumpOutputs, IndInv, Variables
  <2>3. ~ Active /\ report.source = {r \in 1..Len(logged) : <<"source", r>> \in collected}
    BY <1>1 DEF IndInv, Reported
  <2>4. NobodyInside
    BY <1>1, <2>3 DEF IndInv, Waited
  <2>5. Counted("output") = {r \in 1..Len(logged) : <<"output", r>> \in collected}
    BY <1>1, <2>4, CountedExact DEF Parts
  <2>6. collected \subseteq {"source", "output"} \X (1..Len(logged))
    BY <1>1 DEF IndInv, Places, Parts
  <2>7. \A x \in collected : \/ \E r \in report'.source : x = <<"source", r>>
                            \/ \E r \in report'.output : x = <<"output", r>>
    <3>1. ASSUME NEW x \in collected
          PROVE  \/ \E r \in report'.source : x = <<"source", r>>
                 \/ \E r \in report'.output : x = <<"output", r>>
      <4>1. PICK p \in {"source", "output"}, r \in 1..Len(logged) : x = <<p, r>>
        BY <2>6
      <4>2. CASE p = "source"
        BY <2>2, <2>3, <3>1, <4>1, <4>2
      <4>3. CASE p = "output"
        BY <2>2, <2>5, <3>1, <4>1, <4>3
      <4>4. QED
        BY <4>1, <4>2, <4>3
    <3>2. QED
      BY <3>1
  <2>8. /\ \A r \in report'.source : <<"source", r>> \in collected
        /\ \A r \in report'.output : <<"output", r>> \in collected
    BY <2>2, <2>3, <2>5
  <2>9. QED
    BY <2>7, <2>8
<1>2. IndInv /\ [Next]_vars =>
        [command = "dump" /\ command' = "idle" /\ ~report.active =>
           {<<"source", r>> : r \in report'.source} \cup {<<"output", r>> : r \in report'.output}
             = collected]_vars
  BY <1>1
<1>3. QED
  BY <1>2, IndInvHolds, PTL DEF Spec, ReportExact
==============================================================================
