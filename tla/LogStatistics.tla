----------------------------- MODULE LogStatistics -----------------------------
(***************************************************************************)
(* On-demand statistics of a logger (LogStatistics.cpp, Logger::DoLog, the  *)
(* RecordLogBackendOutput calls of the backends): threads that log count    *)
(* their records, without a lock, in slots of the call site, while the      *)
(* control commands start, stop and reset the collection under them.        *)
(*                                                                         *)
(* A record is a number; a counter is the set of the records counted in it, *)
(* which stands for their number, their bytes and their maximum.  A call     *)
(* site has one cache (Context::Cache, LogmeCContextCache), and no name is   *)
(* longer than the copy the collector keeps.  A site object is the index of  *)
(* its entry in Sites.  A channel is known by its address, which a later     *)
(* channel may have again, a backend by a number of its own.  Sections under *)
(* the collector's Lock are one step; the commands, serialized by            *)
(* LogStatisticsControlLock, are one process.                                *)
(***************************************************************************)
EXTENDS Integers, Sequences, FiniteSets, SequencesExt

CONSTANTS
  Threads,
  CallSites,
  Addresses,           \* where channels may be
  SlotCount,           \* CHANNEL_SLOT_COUNT and BACKEND_SLOT_COUNT
  MaxRecords,          \* bound on the records logged
  MaxCommands,         \* bound on start, stop and reset
  MaxChannels          \* bound on the channels made

ASSUME StatisticsAssumption ==
  /\ IsFiniteSet(Threads) /\ IsFiniteSet(CallSites) /\ IsFiniteSet(Addresses)
  /\ SlotCount \in Nat \ {0}
  /\ {MaxRecords, MaxCommands, MaxChannels} \subseteq Nat
  /\ MaxChannels >= Cardinality(Addresses)

VARIABLES
  Active,              \* ActiveLogStatistics is the collector
  HasSession,
  InFlight,
  Sites,               \* the site objects
  SiteByKey,           \* the site object of a call site, 0 if there is none
  Statistics,          \* the cached site object of a call site, 0 for nullptr
  Generation,          \* the cache is of this collector
  channels,            \* at each address: the channel's name, and its backend's number
  pc,
  part,                \* of the record: "source", or "output" to the backend
  record, callSite, address,  \* what the thread logs, where, and to which channel
  site, slot,          \* the site object and the slot found, 0 for none
  command,             \* what the control commands do: "idle", or a command and its step
  wasActive,           \* Active, before the command
  commands,            \* history: commands given
  logged,              \* history: call site and channel of each record
  collected,           \* history: what is to be counted, since the last Reset
  report               \* history: the last report: what it counted

collector == <<HasSession, Sites, SiteByKey>>
cache     == <<Statistics, Generation>>
call      == <<part, record, callSite, address>>
found     == <<site, slot>>
control   == <<command, wasActive, commands>>
vars == <<Active, collector, InFlight, cache, channels, pc, call, found, control, logged, collected,
          report>>

None == 0
Parts == {"source", "output"}

Goto(t, label) == pc' = [pc EXCEPT ![t] = label]

(* What names a slot: the channel's address, or the backend's number.        *)
Key(t) == IF part[t] = "source" THEN address[t] ELSE channels[address[t]].number

EmptySite(s) ==
  [callSite |-> s, slots |-> [p \in Parts |-> <<>>], overflow |-> [p \in Parts |-> {}]]

EmptySlot(t) == [key |-> Key(t), name |-> channels[address[t]].name, counted |-> {}]

SlotsWithKey(t) ==
  {i \in DOMAIN Sites[site[t]].slots[part[t]] : Sites[site[t]].slots[part[t]][i].key = Key(t)}

----------------------------------------------------------------------------
(* Logger::DoLog and RecordLogBackendOutput                                  *)

(* ActiveLogStatistics is loaded, and again when the collector is entered.   *)
Log(t, s, a) ==
  /\ pc[t] = "idle"
  /\ Len(logged) < MaxRecords
  /\ logged' = Append(logged, [callSite |-> s, name |-> channels[a].name])
  /\ record' = [record EXCEPT ![t] = Len(logged) + 1]
  /\ callSite' = [callSite EXCEPT ![t] = s]
  /\ address' = [address EXCEPT ![t] = a]
  /\ part' = [part EXCEPT ![t] = "source"]
  /\ Goto(t, IF Active THEN "enter" ELSE "next")
  /\ UNCHANGED <<Active, collector, InFlight, cache, channels, found, control, collected, report>>

(* Channel::Display, after the source is counted: the backend accepts.       *)
Output(t) ==
  /\ pc[t] = "next" /\ part[t] = "source"
  /\ part' = [part EXCEPT ![t] = "output"]
  /\ Goto(t, IF Active THEN "enter" ELSE "next")
  /\ UNCHANGED <<Active, collector, InFlight, cache, channels, record, callSite, address, found,
                 control, logged, collected, report>>

Return(t) ==
  /\ pc[t] = "next" /\ part[t] = "output"
  /\ Goto(t, "idle")
  /\ record' = [record EXCEPT ![t] = None]
  /\ callSite' = [callSite EXCEPT ![t] = None]
  /\ address' = [address EXCEPT ![t] = None]
  /\ part' = [part EXCEPT ![t] = "source"]
  /\ UNCHANGED <<Active, collector, InFlight, cache, channels, found, control, logged, collected,
                 report>>

Enter(t) ==
  /\ pc[t] = "enter"
  /\ InFlight' = InFlight + 1
  /\ Goto(t, "check")
  /\ UNCHANGED <<Active, collector, cache, channels, call, found, control, logged, collected,
                 report>>

(* Deviant: a call that comes too late does not leave.                       *)
CheckStays(t) ==
  /\ pc[t] = "check"
  /\ Goto(t, IF Active THEN "load generation" ELSE "next")
  /\ UNCHANGED <<Active, collector, InFlight, cache, channels, call, found, control, logged,
                 collected, report>>

(* What is recorded from here on belongs to the session.                     *)
Check(t) ==
  /\ pc[t] = "check"
  /\ Goto(t, IF Active THEN "load generation" ELSE "leave")
  /\ UNCHANGED <<Active, collector, InFlight, cache, channels, call, found, control, logged,
                 collected, report>>

Leave(t) ==
  /\ pc[t] = "leave"
  /\ InFlight' = InFlight - 1
  /\ site' = [site EXCEPT ![t] = None]
  /\ slot' = [slot EXCEPT ![t] = None]
  /\ Goto(t, "next")
  /\ UNCHANGED <<Active, collector, cache, channels, call, control, logged, collected, report>>

----------------------------------------------------------------------------
(* The call site's cache                                                     *)

Collect(t) == collected' = collected \cup {<<part[t], record[t]>>}

(* LoadCachedSite: a backend's output is only recorded at a cached site.     *)
LoadGeneration(t) ==
  /\ pc[t] = "load generation"
  /\ Goto(t, IF Generation[callSite[t]] THEN "load site"
             ELSE IF part[t] = "source" THEN "miss" ELSE "leave")
  /\ UNCHANGED <<Active, collector, InFlight, cache, channels, call, found, control, logged,
                 collected, report>>

LoadSite(t) ==
  /\ pc[t] = "load site"
  /\ site' = [site EXCEPT ![t] = Statistics[callSite[t]]]
  /\ Collect(t)
  /\ Goto(t, "find")
  /\ UNCHANGED <<Active, collector, InFlight, cache, channels, call, slot, control, logged, report>>

(* Deviant: the site is not looked for again under the Lock.                 *)
GetOrCreateSiteTwice(t) ==
  LET s == callSite[t] IN
    /\ pc[t] = "miss"
    /\ Sites' = Append(Sites, EmptySite(s))
    /\ SiteByKey' = [SiteByKey EXCEPT ![s] = Len(Sites) + 1]
    /\ site' = [site EXCEPT ![t] = SiteByKey'[s]]
    /\ Collect(t)
    /\ Goto(t, "store site")
    /\ UNCHANGED <<Active, HasSession, InFlight, cache, channels, call, slot, control, logged,
                   report>>

GetOrCreateSite(t) ==
  LET s == callSite[t] IN
    /\ pc[t] = "miss"
    /\ IF SiteByKey[s] # None
       THEN UNCHANGED <<Sites, SiteByKey>>
       ELSE /\ Sites' = Append(Sites, EmptySite(s))
            /\ SiteByKey' = [SiteByKey EXCEPT ![s] = Len(Sites) + 1]
    /\ site' = [site EXCEPT ![t] = SiteByKey'[s]]
    /\ Collect(t)
    /\ Goto(t, "store site")
    /\ UNCHANGED <<Active, HasSession, InFlight, cache, channels, call, slot, control, logged,
                   report>>

(* StoreCachedSite: the generation is stored when the site is there.         *)
StoreSite(t) ==
  /\ pc[t] = "store site"
  /\ Statistics' = [Statistics EXCEPT ![callSite[t]] = site[t]]
  /\ Goto(t, "store generation")
  /\ UNCHANGED <<Active, collector, InFlight, Generation, channels, call, found, control, logged,
                 collected, report>>

StoreGeneration(t) ==
  /\ pc[t] = "store generation"
  /\ Generation' = [Generation EXCEPT ![callSite[t]] = TRUE]
  /\ Goto(t, "find")
  /\ UNCHANGED <<Active, collector, InFlight, Statistics, channels, call, found, control, logged,
                 collected, report>>

----------------------------------------------------------------------------
(* The slots                                                                 *)

(* The slots are searched without the Lock, and with it before one is made.  *)
FindSlot(t) ==
  /\ pc[t] = "find"
  /\ \/ /\ SlotsWithKey(t) = {}
        /\ Goto(t, "create")
        /\ UNCHANGED slot
     \/ \E i \in SlotsWithKey(t) : /\ slot' = [slot EXCEPT ![t] = i]
                                   /\ Goto(t, "count")
  /\ UNCHANGED <<Active, collector, InFlight, cache, channels, call, site, control, logged,
                 collected, report>>

(* GetOrCreateChannel, GetOrCreateBackend: no free slot leaves the overflow. *)
GetOrCreateSlot(t) ==
  LET slots == Sites[site[t]].slots[part[t]] IN
    /\ pc[t] = "create"
    /\ \/ /\ SlotsWithKey(t) # {}
          /\ slot' = [slot EXCEPT ![t] = CHOOSE i \in SlotsWithKey(t) : TRUE]
          /\ UNCHANGED Sites
       \/ /\ SlotsWithKey(t) = {} /\ Len(slots) < SlotCount
          /\ slot' = [slot EXCEPT ![t] = Len(slots) + 1]
          /\ Sites' = [Sites EXCEPT ![site[t]].slots[part[t]] = Append(slots, EmptySlot(t))]
       \/ /\ SlotsWithKey(t) = {} /\ Len(slots) = SlotCount
          /\ UNCHANGED <<slot, Sites>>
    /\ Goto(t, "count")
    /\ UNCHANGED <<Active, HasSession, SiteByKey, InFlight, cache, channels, call, site, control,
                   logged, collected, report>>

(* Record, BackendStatistics::Record, the overflow counters.                 *)
Count(t) ==
  /\ pc[t] = "count"
  /\ Sites' = IF slot[t] = None
              THEN [Sites EXCEPT ![site[t]].overflow[part[t]] = @ \cup {record[t]}]
              ELSE [Sites EXCEPT ![site[t]].slots[part[t]][slot[t]].counted = @ \cup {record[t]}]
  /\ Goto(t, "leave")
  /\ UNCHANGED <<Active, HasSession, SiteByKey, InFlight, cache, channels, call, found, control,
                 logged, collected, report>>

(* A channel no call holds is deleted, and another one is made at its place. *)
ReplaceChannel(a) ==
  LET last == Max({channels[b].number : b \in Addresses}) IN
    /\ last < MaxChannels
    /\ \A t \in Threads : address[t] # a
    /\ channels' = [channels EXCEPT ![a] = [name |-> last + 1, number |-> last + 1]]
    /\ UNCHANGED <<Active, collector, InFlight, cache, pc, call, found, control, logged, collected,
                   report>>

----------------------------------------------------------------------------
(* StartLogStatistics, StopLogStatistics, ResetLogStatistics                 *)

Exchange(what) ==
  /\ command = "idle"
  /\ commands < MaxCommands
  /\ what = "stop" => Active
  /\ commands' = commands + 1
  /\ wasActive' = Active
  /\ Active' = FALSE
  /\ command' = what
  /\ UNCHANGED <<collector, InFlight, cache, channels, pc, call, found, logged, collected, report>>

(* Deviant: no one is waited for.                                            *)
IdleAlways == wasActive \in BOOLEAN

Idle == wasActive => InFlight = 0

Cleared(object) ==
  [object EXCEPT !.slots = [p \in Parts |-> [i \in DOMAIN @[p] |-> [@[p][i] EXCEPT !.counted = {}]]],
                 !.overflow = [p \in Parts |-> {}]]

(* Deviant: a stop does not wait for the calls on their way.                 *)
StopAtOnce ==
  /\ command = "stop"
  /\ command' = "idle"
  /\ UNCHANGED <<Active, collector, InFlight, cache, channels, pc, call, found, wasActive, commands,
                 logged, collected, report>>

Stop ==
  /\ command = "stop"
  /\ Idle
  /\ command' = "idle"
  /\ UNCHANGED <<Active, collector, InFlight, cache, channels, pc, call, found, wasActive, commands,
                 logged, collected, report>>

(* Start resets the counters of a session before it becomes active.          *)
Reset ==
  /\ command \in {"start", "reset"}
  /\ Idle
  /\ Sites' = [i \in DOMAIN Sites |-> Cleared(Sites[i])]
  /\ HasSession' = (HasSession \/ command = "start")
  /\ collected' = {}
  /\ command' = IF command = "start" \/ wasActive THEN "activate" ELSE "idle"
  /\ UNCHANGED <<Active, SiteByKey, InFlight, cache, channels, pc, call, found, wasActive, commands,
                 logged, report>>

Activate ==
  /\ command = "activate"
  /\ Active' = TRUE
  /\ command' = "idle"
  /\ UNCHANGED <<collector, InFlight, cache, channels, pc, call, found, wasActive, commands, logged,
                 collected, report>>

(* What the counters of a part say.                                          *)
Counted(p) ==
  UNION {object.overflow[p] \cup UNION {s.counted : s \in ToSet(object.slots[p])}
         : object \in ToSet(Sites)}

(* FormatStatus: one snapshot of the entries, another one of the outputs.    *)
DumpEntries ==
  /\ command = "idle"
  /\ HasSession
  /\ commands < MaxCommands
  /\ commands' = commands + 1
  /\ report' = [source |-> Counted("source"), output |-> {}, active |-> Active]
  /\ command' = "dump"
  /\ UNCHANGED <<Active, collector, InFlight, cache, channels, pc, call, found, wasActive, logged,
                 collected>>

DumpOutputs ==
  /\ command = "dump"
  /\ report' = [report EXCEPT !.output = Counted("output")]
  /\ command' = "idle"
  /\ UNCHANGED <<Active, collector, InFlight, cache, channels, pc, call, found, wasActive, commands,
                 logged, collected>>

----------------------------------------------------------------------------
(* Every channel has a name and a backend of its own.                        *)
FirstChannels ==
  LET order == SetToSeq(Addresses)
      At(a) == CHOOSE i \in DOMAIN order : order[i] = a IN
    [a \in Addresses |-> [name |-> At(a), number |-> At(a)]]

Init ==
  /\ Active = FALSE
  /\ HasSession = FALSE
  /\ InFlight = 0
  /\ Sites = <<>>
  /\ SiteByKey = [s \in CallSites |-> None]
  /\ Statistics = [s \in CallSites |-> None]
  /\ Generation = [s \in CallSites |-> FALSE]
  /\ channels = FirstChannels
  /\ pc = [t \in Threads |-> "idle"]
  /\ part = [t \in Threads |-> "source"]
  /\ record = [t \in Threads |-> None]
  /\ callSite = [t \in Threads |-> None]
  /\ address = [t \in Threads |-> None]
  /\ site = [t \in Threads |-> None]
  /\ slot = [t \in Threads |-> None]
  /\ command = "idle"
  /\ wasActive = FALSE
  /\ commands = 0
  /\ logged = <<>>
  /\ collected = {}
  /\ report = [source |-> {}, output |-> {}, active |-> FALSE]

Proceed(t) ==
  \/ Output(t)
  \/ Return(t)
  \/ Enter(t)
  \/ Check(t)
  \/ LoadGeneration(t)
  \/ LoadSite(t)
  \/ GetOrCreateSite(t)
  \/ StoreSite(t)
  \/ StoreGeneration(t)
  \/ FindSlot(t)
  \/ GetOrCreateSlot(t)
  \/ Count(t)
  \/ Leave(t)

Complete == Stop \/ Reset \/ Activate \/ DumpOutputs

Next ==
  \/ \E t \in Threads : Proceed(t)
  \/ \E t \in Threads, s \in CallSites, a \in Addresses : Log(t, s, a)
  \/ \E a \in Addresses : ReplaceChannel(a)
  \/ \E what \in {"start", "stop", "reset"} : Exchange(what)
  \/ DumpEntries
  \/ Complete

Fairness == (\A t \in Threads : WF_vars(Proceed(t))) /\ WF_vars(Complete)

Spec == Init /\ [][Next]_vars /\ Fairness

----------------------------------------------------------------------------
(* Deep enough in a call, a thread has a site object.                        *)
TypeOK ==
  /\ {Active, HasSession, wasActive} \subseteq BOOLEAN
  /\ InFlight = Cardinality({t \in Threads : pc[t] \notin {"idle", "next", "enter"}})
  /\ \A s \in CallSites : {SiteByKey[s], Statistics[s]} \subseteq 0..Len(Sites)
  /\ \A t \in Threads : /\ site[t] \in 0..Len(Sites)
                        /\ pc[t] \in {"store site", "store generation", "find", "create", "count"}
                             => site[t] # None
                        /\ slot[t] \in 0..SlotCount /\ record[t] \in 0..Len(logged)
  /\ command \in {"idle", "start", "stop", "reset", "activate", "dump"}
  /\ commands \in 0..MaxCommands

(* A call site has one site object, whose slots are of distinct channels and *)
(* backends, and where only its records are counted, an output in the slot   *)
(* of its channel (GetOrCreateSite, GetOrCreateChannel, GetOrCreateBackend). *)
Attributed ==
  /\ \A i, j \in DOMAIN Sites : Sites[i].callSite = Sites[j].callSite => i = j
  /\ \A i \in DOMAIN Sites, p \in Parts :
       /\ \A r \in Sites[i].overflow[p] : logged[r].callSite = Sites[i].callSite
       /\ \A j \in DOMAIN Sites[i].slots[p] :
            /\ \A k \in DOMAIN Sites[i].slots[p] :
                 Sites[i].slots[p][j].key = Sites[i].slots[p][k].key => j = k
            /\ \A r \in Sites[i].slots[p][j].counted :
                 /\ logged[r].callSite = Sites[i].callSite
                 /\ p = "output" => logged[r].name = Sites[i].slots[p][j].name

(* The types, and: whatever is collected since the last reset is counted      *)
(* once, where it belongs, or is about to be, and nothing else is: a reset    *)
(* and a start find no thread that still counts for the time before           *)
(* (WaitForIdle, Reset, Record).                                              *)
CountedOnce ==
  /\ TypeOK
  /\ Attributed
  /\ \A p \in Parts, r \in 1..Len(logged) :
       Cardinality({t \in Threads : /\ part[t] = p /\ record[t] = r
                                    /\ pc[t] \in {"store site", "store generation", "find",
                                                  "create", "count"}})
       + Cardinality({i \in DOMAIN Sites : r \in Sites[i].overflow[p]})
       + Cardinality({at \in (DOMAIN Sites) \X (1..SlotCount) :
                        /\ at[2] \in DOMAIN Sites[at[1]].slots[p]
                        /\ r \in Sites[at[1]].slots[p][at[2]].counted})
       = IF <<p, r>> \in collected THEN 1 ELSE 0

(* What is reported when the collection is stopped is what was collected,    *)
(* until the next command (StopLogStatistics, FormatStatus).                 *)
ReportExact ==
  [][command = "dump" /\ command' = "idle" /\ ~report.active =>
       {<<"source", r>> : r \in report'.source} \cup {<<"output", r>> : r \in report'.output}
         = collected]_vars

(* Every command comes to its end, whatever the threads log.                 *)
CommandsReturn == []<>(command = "idle")
=============================================================================
