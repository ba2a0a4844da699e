------------------------------ MODULE Channels ------------------------------
(***************************************************************************)
(* The Logger's channels and the way of a record through them (Channel.cpp, *)
(* Logger.cpp, ReentryGuard.cpp): DoLog finds or creates a channel, Display *)
(* writes to its backends and follows its link, whatever is added, removed, *)
(* linked or deleted in the meantime.                                       *)
(*                                                                         *)
(* A section of the Logger's or of a channel's DataLock is one action; the   *)
(* store of Active, which other code reads and writes without the lock, is   *)
(* a step of its own and dataLock says who is between the two.  A thread's   *)
(* program is the sequence of steps ahead of it: a call puts the steps of    *)
(* the callee in front.  A channel has at most one live backend, of which    *)
(* is known whose records it has queued.                                     *)
(*                                                                         *)
(* Channels are numbered as they are created; 0 is none.  The model keeps a  *)
(* channel as long as somebody uses it, which DoLog, with the address only,  *)
(* does not ensure.                                                          *)
(***************************************************************************)
EXTENDS Integers, Sequences, FiniteSets, SequencesExt

CONSTANTS
  Threads,             \* application threads
  None,                \* "no thread"
  Names,               \* channel names
  ErrorChannel,        \* the name of the error channel
  Operations,          \* what threads do besides logging
  SmallCapacity,       \* SMALL_CAPACITY of DisplayReentryGuard
  MaxChannels,         \* bound on the channels ever created
  MaxLogs,             \* bound on the records logged
  MaxOperations        \* bound on the other operations

ASSUME ChannelsAssumption ==
  /\ IsFiniteSet(Threads)
  /\ None \notin Threads
  /\ IsFiniteSet(Names)
  /\ ErrorChannel \in Names
  /\ {SmallCapacity, MaxChannels, MaxLogs, MaxOperations} \subseteq Nat
  /\ Cardinality(Names) + MaxOperations <= MaxChannels

VARIABLES
  Channels,            \* the channel of a name, 0 if there is none
  ToDelete,            \* channels to be deleted when idle
  recent,              \* DoAutodelete has run less than 100 ms ago
  FatalHandling,
  nameOf,              \* the names of the channels created so far
  Enabled,             \* of a channel, and so on
  Active,
  link,                \* Link or LinkTo: a name or a channel
  Backends,            \* subset of {"new", "live", "frozen"}
  queued,              \* threads with records in the backends' queues
  dataLock,            \* the thread between a change and its store of Active
  program,             \* steps ahead of a thread
  guard,               \* the thread's DisplayReentryGuard::State
  level,               \* of the thread's record
  logs,                \* history: records logged
  operations,          \* history: operations begun
  hits,                \* history: how often the record reached a channel
  closed,              \* history: DeleteAllChannels has begun
  throttled,           \* history: a forced DoAutodelete did nothing
  stray                \* history: channels given a backend when deleted

registry == <<Channels, ToDelete, nameOf>>
state    == <<Enabled, Active, link, Backends, queued, dataLock>>
call     == <<guard, level, hits>>
history  == <<logs, operations, closed, throttled, stray>>
vars     == <<registry, recent, FatalHandling, state, program, call, history>>

----------------------------------------------------------------------------
Levels  == {"info", "error", "critical"}
Objects == 1..MaxChannels
Created == DOMAIN nameOf
NoLink  == <<"none", 0>>
LinksTo(objects) == ({"id"} \X Names) \cup ({"ptr"} \X objects)

EmptyGuard == [small |-> <<>>, large |-> <<>>, overflow |-> FALSE]

At(t, step)    == program[t] # <<>> /\ Head(program[t])[1] = step
On(t)          == Head(program[t])[2]
Then(t, steps) == program' = [program EXCEPT ![t] = steps \o Tail(@)]
Idle(t)        == program[t] = <<>>

(* The names have channels with a backend each, linked by name in a circle.  *)
Init ==
  /\ nameOf = SetToSeq(Names)
  /\ Channels = [n \in Names |-> CHOOSE o \in Created : nameOf[o] = n]
  /\ ToDelete = <<>>
  /\ recent = FALSE
  /\ FatalHandling = FALSE
  /\ Enabled = [o \in Objects |-> TRUE]
  /\ link = [o \in Objects |-> IF o \in Created THEN <<"id", nameOf[(o % Len(nameOf)) + 1]>>
                                               ELSE NoLink]
  /\ Active = [o \in Objects |-> o \in Created]
  /\ Backends = [o \in Objects |-> IF o \in Created THEN {"new"} ELSE {}]
  /\ queued = [o \in Objects |-> {}]
  /\ dataLock = [o \in Objects |-> None]
  /\ program = [t \in Threads |-> <<>>]
  /\ guard = [t \in Threads |-> EmptyGuard]
  /\ level = [t \in Threads |-> "info"]
  /\ hits = [t \in Threads |-> [o \in Objects |-> 0]]
  /\ logs = 0
  /\ operations = 0
  /\ closed = FALSE
  /\ throttled = FALSE
  /\ stray = {}

(* GetChannel: found, or created without a backend.                          *)
GetChannel(n, o) ==
  IF Channels[n] # 0
  THEN o = Channels[n] /\ UNCHANGED <<Channels, nameOf>>
  ELSE /\ o = Len(nameOf) + 1
       /\ o \in Objects
       /\ nameOf' = Append(nameOf, n)
       /\ Channels' = [Channels EXCEPT ![n] = o]

----------------------------------------------------------------------------
(* Changes of a channel, which end with UpdateActive.                        *)

ActiveOf(linked, enabled, count) == linked \/ (enabled /\ count > 0)

(* A section under DataLock that changes the link or the backends.           *)
Change(t, o, to, backends) ==
  /\ dataLock[o] = None
  /\ dataLock' = [dataLock EXCEPT ![o] = t]
  /\ link' = [link EXCEPT ![o] = to]
  /\ Backends' = [Backends EXCEPT ![o] = backends]
  /\ Then(t, <<<<"store", o, ActiveOf(to # NoLink, Enabled[o], Cardinality(backends))>>>>)
  /\ UNCHANGED <<registry, recent, FatalHandling, Enabled, Active, queued, call>>

(* UpdateActive stores and the section ends.  If it has dropped the          *)
(* backends, their destructors have waited for the records.                  *)
UpdateActive(t) ==
  /\ At(t, "store")
  /\ LET o == On(t) IN
       /\ dataLock[o] = t /\ Backends[o] = {} => queued[o] = {}
       /\ Active' = [Active EXCEPT ![o] = Head(program[t])[3]]
       /\ dataLock' = [dataLock EXCEPT ![o] = IF @ = t THEN None ELSE @]
  /\ Then(t, <<>>)
  /\ UNCHANGED <<registry, recent, FatalHandling, Enabled, link, Backends, queued, call,
                 history>>

SetEnabled(t) ==
  /\ At(t, "enabled")
  /\ LET o == On(t)
         enable == Head(program[t])[3] IN
       /\ Enabled' = [Enabled EXCEPT ![o] = enable]
       /\ Then(t, <<<<"store", o, ActiveOf(link[o] # NoLink, enable, Cardinality(Backends[o]))>>>>)
  /\ UNCHANGED <<registry, recent, FatalHandling, Active, link, Backends, queued, dataLock,
                 call, history>>

(* Link and LinkTo are kept side by side and Display prefers LinkTo: until      *)
(* RemoveLink resets both, a name makes no difference to it.                  *)
Linked(old, to) == IF old \in {"ptr"} \X Objects /\ to \in {"id"} \X Names THEN old ELSE to

AddLink(t) ==
  /\ At(t, "link")
  /\ Change(t, On(t), Linked(link[On(t)], Head(program[t])[3]), Backends[On(t)])
  /\ UNCHANGED history

RemoveLink(t) ==
  /\ At(t, "unlink")
  /\ Change(t, On(t), NoLink, Backends[On(t)])
  /\ UNCHANGED history

(* A backend that is already there is not added again.                       *)
AddBackend(t) ==
  /\ At(t, "add")
  /\ LET o == On(t) IN
       /\ Change(t, o, link[o],
                 IF "live" \in Backends[o] THEN Backends[o] ELSE Backends[o] \cup {"new"})
       /\ stray' = IF o \in Range(Channels) \cup Range(ToDelete) THEN stray ELSE stray \cup {o}
  /\ UNCHANGED <<logs, operations, closed, throttled>>

(* RemoveBackends is two sections: Freeze, and this one.                     *)
ClearBackends(t) ==
  /\ At(t, "clear")
  /\ Change(t, On(t), link[On(t)], {})
  /\ UNCHANGED history

Freezed(o) == IF Backends[o] = {} THEN {} ELSE {"frozen"}

Freeze(t) ==
  /\ At(t, "freeze")
  /\ dataLock[On(t)] = None
  /\ Backends' = [Backends EXCEPT ![On(t)] = Freezed(On(t))]
  /\ Then(t, <<>>)
  /\ UNCHANGED <<registry, recent, FatalHandling, Enabled, Active, link, queued, dataLock,
                 call, history>>

(* Deviant: the backends are left.                                           *)
RemoveStepsKeep(o) == <<<<"freeze", o>>, <<"unlink", o>>>>

RemoveSteps(o) == <<<<"freeze", o>>, <<"clear", o>>, <<"unlink", o>>>>

----------------------------------------------------------------------------
(* Deletion                                                                  *)

(* Autodelete freezes the channel under the Logger's lock.                   *)
Autodelete(t) ==
  /\ At(t, "autodelete")
  /\ LET n == On(t)
         o == Channels[n] IN
       IF o = 0
       THEN UNCHANGED <<registry, Backends>>
       ELSE /\ dataLock[o] = None
            /\ Channels' = [Channels EXCEPT ![n] = 0]
            /\ ToDelete' = Append(ToDelete, o)
            /\ Backends' = [Backends EXCEPT ![o] = Freezed(o)]
            /\ UNCHANGED nameOf
  /\ Then(t, <<>>)
  /\ UNCHANGED <<recent, FatalHandling, Enabled, Active, link, queued, dataLock, call, history>>

DeleteChannel(t) ==
  /\ At(t, "delete")
  /\ LET n == On(t)
         o == Channels[n] IN
       /\ Channels' = [Channels EXCEPT ![n] = 0]
       /\ Then(t, IF o = 0 THEN <<>> ELSE RemoveSteps(o))
  /\ UNCHANGED <<ToDelete, nameOf, recent, FatalHandling, state, call, history>>

(* DoAutodelete does nothing within 100 ms of the last time, forced or not.  *)
DoAutodelete(t) ==
  /\ At(t, "reap")
  /\ LET force == On(t) IN
       /\ Then(t, IF recent \/ (ToDelete = <<>> /\ ~force) THEN <<>>
                  ELSE <<<<"stamp">>, <<"take", force>>>>)
       /\ throttled' = (throttled \/ (force /\ recent))
  /\ UNCHANGED <<registry, recent, FatalHandling, state, call, logs, operations, closed, stray>>

Stamp(t) ==
  /\ At(t, "stamp")
  /\ recent' = TRUE
  /\ Then(t, <<>>)
  /\ UNCHANGED <<registry, FatalHandling, state, call, history>>

(* A file backend is idle if nothing is queued and it is frozen or has never *)
(* had output.                                                               *)
IsIdle(o) == queued[o] = {} /\ "live" \notin Backends[o]

(* Deviant: the slot is cleared and stays in the list.                       *)
TakeNextKeepSlot(t) ==
  /\ At(t, "take")
  /\ LET force == On(t)
         ready == {i \in DOMAIN ToDelete : force \/ IsIdle(ToDelete[i])} IN
       /\ \A o \in Range(ToDelete) : force \/ dataLock[o] = None
       /\ IF ready = {}
          THEN Then(t, <<>>) /\ UNCHANGED ToDelete
          ELSE LET i == CHOOSE k \in ready : \A j \in ready : k <= j IN
                 /\ ToDelete' = [ToDelete EXCEPT ![i] = 0]
                 /\ Then(t, RemoveSteps(ToDelete[i]) \o <<<<"take", force>>>>)
  /\ UNCHANGED <<Channels, nameOf, recent, FatalHandling, state, call, history>>

(* The first idle channel is taken, and then the next.                       *)
TakeNext(t) ==
  /\ At(t, "take")
  /\ LET force == On(t)
         ready == {i \in DOMAIN ToDelete : force \/ IsIdle(ToDelete[i])} IN
       /\ \A o \in Range(ToDelete) : force \/ dataLock[o] = None
       /\ IF ready = {}
          THEN Then(t, <<>>) /\ UNCHANGED ToDelete
          ELSE LET i == CHOOSE k \in ready : \A j \in ready : k <= j IN
                 /\ ToDelete' = RemoveAt(ToDelete, i)
                 /\ Then(t, RemoveSteps(ToDelete[i]) \o <<<<"take", force>>>>)
  /\ UNCHANGED <<Channels, nameOf, recent, FatalHandling, state, call, history>>

----------------------------------------------------------------------------
(* Display and its guard                                                     *)

(* The thread's stack of channels: on the heap, for good, once it has        *)
(* outgrown the small one.                                                   *)
Stack(g) == IF g.overflow THEN g.large ELSE g.small

(* Deviant: only the last channel is compared.                               *)
EnteredTop(g, o) == Stack(g) # <<>> /\ o = Last(Stack(g))

Entered(g, o) == o \in Range(Stack(g))

Push(g, o) ==
  IF ~g.overflow /\ Len(g.small) < SmallCapacity
  THEN [g EXCEPT !.small = Append(@, o)]
  ELSE [g EXCEPT !.large = Append(Stack(g), o), !.overflow = TRUE]

Pop(g) == IF g.overflow THEN [g EXCEPT !.large = Front(@)] ELSE [g EXCEPT !.small = Front(@)]

(* A disabled channel, or one the thread is displaying on already, is left   *)
(* at once.                                                                  *)
Display(t) ==
  /\ At(t, "display")
  /\ LET o == On(t) IN
       /\ dataLock[o] = None
       /\ IF Enabled[o] /\ ~Entered(guard[t], o)
          THEN /\ guard' = [guard EXCEPT ![t] = Push(@, o)]
               /\ Then(t, <<<<"filter", o, Head(program[t])[3]>>>>)
          ELSE Then(t, <<>>) /\ UNCHANGED guard
  /\ UNCHANGED <<registry, recent, FatalHandling, state, level, hits, history>>

(* The display filter, called without the lock, or the level may reject.     *)
Reject(t) ==
  /\ At(t, "filter")
  /\ guard' = [guard EXCEPT ![t] = Pop(@)]
  /\ Then(t, <<>>)
  /\ UNCHANGED <<registry, recent, FatalHandling, state, level, hits, history>>

FollowsLink(t) == link[On(t)] # NoLink /\ ~Head(program[t])[3]

(* The lock is released to display on the linked channel first.              *)
Follow(t) ==
  /\ At(t, "filter")
  /\ dataLock[On(t)] = None
  /\ FollowsLink(t)
  /\ Then(t, <<<<"linked", link[On(t)]>>, <<"output", On(t)>>>>)
  /\ UNCHANGED <<registry, recent, FatalHandling, state, call, history>>

(* A link by name creates the channel if it is not there (any more).         *)
DisplayLinked(t) ==
  /\ At(t, "linked")
  /\ \E o \in Objects :
       /\ IF On(t)[1] = "id" THEN GetChannel(On(t)[2], o)
                             ELSE o = On(t)[2] /\ UNCHANGED <<Channels, nameOf>>
       /\ Then(t, <<<<"display", o, FALSE>>>>)
  /\ UNCHANGED <<ToDelete, recent, FatalHandling, state, call, history>>

(* The record goes to the backends that are not frozen.                      *)
Output(t) ==
  /\ At(t, "output") \/ (At(t, "filter") /\ ~FollowsLink(t))
  /\ LET o == On(t) IN
       /\ dataLock[o] = None
       /\ IF Backends[o] \subseteq {"frozen"}
          THEN UNCHANGED <<Backends, queued, hits>>
          ELSE /\ Backends' = [Backends EXCEPT ![o] = (@ \ {"new"}) \cup {"live"}]
               /\ queued' = [queued EXCEPT ![o] = @ \cup {t}]
               /\ hits' = [hits EXCEPT ![t][o] = @ + 1]
  /\ guard' = [guard EXCEPT ![t] = Pop(@)]
  /\ Then(t, <<>>)
  /\ UNCHANGED <<registry, recent, FatalHandling, Enabled, Active, link, dataLock, level,
                 history>>

----------------------------------------------------------------------------
(* DoLog                                                                     *)

(* The override's limits and the lists of subsystems may end the call.       *)
Withhold(t) ==
  /\ At(t, "find")
  /\ Then(t, <<>>)
  /\ UNCHANGED <<registry, recent, FatalHandling, state, call, history>>

(* An inactive channel, or one whose level is above the record's, ends the   *)
(* call, except for an error the error channel may want.                     *)
Find(t) ==
  /\ At(t, "find")
  /\ \E o \in Objects, quiet \in BOOLEAN :
       /\ GetChannel(On(t), o)
       /\ LET active == Active[o] /\ ~quiet
              forward == level[t] # "info" /\ On(t) # ErrorChannel IN
            Then(t, IF ~active /\ ~forward THEN <<>>
                    ELSE <<<<"display", o, FALSE>>>>
                           \o (IF forward THEN <<<<"error">>>> ELSE <<>>)
                           \o (IF level[t] = "critical" THEN <<<<"fatal">>>> ELSE <<>>))
  /\ UNCHANGED <<ToDelete, recent, FatalHandling, state, call, history>>

(* The error channel gets the record too, without its link.                  *)
DisplayError(t) ==
  /\ At(t, "error")
  /\ LET o == Channels[ErrorChannel] IN
       Then(t, IF o = 0 THEN <<>> ELSE <<<<"display", o, TRUE>>>>)
  /\ hits' = [hits EXCEPT ![t] = [o \in Objects |-> 0]]
  /\ UNCHANGED <<registry, recent, FatalHandling, state, guard, level, history>>

(* Deviant: channels to be deleted are not flushed.                          *)
HandleFatalRegistered(t) ==
  /\ At(t, "fatal")
  /\ IF FatalHandling
     THEN Then(t, <<>>) /\ UNCHANGED FatalHandling
     ELSE /\ FatalHandling' = TRUE
          /\ LET all == SetToSeq(Range(Channels) \ {0}) IN
               Then(t, [i \in DOMAIN all |-> <<"flush", all[i]>>] \o <<<<"handler">>>>)
  /\ UNCHANGED <<registry, recent, state, call, history>>

(* HandleFatal: FlushAll copies the channels, those to be deleted included.  *)
HandleFatal(t) ==
  /\ At(t, "fatal")
  /\ IF FatalHandling
     THEN Then(t, <<>>) /\ UNCHANGED FatalHandling
     ELSE /\ FatalHandling' = TRUE
          /\ LET all == SetToSeq(Range(Channels) \ {0}) \o ToDelete IN
               Then(t, [i \in DOMAIN all |-> <<"flush", all[i]>>] \o <<<<"handler">>>>)
  /\ UNCHANGED <<registry, recent, state, call, history>>

Flush(t) ==
  /\ At(t, "flush")
  /\ queued[On(t)] = {} \/ (Backends[On(t)] = {} /\ dataLock[On(t)] = None)
  /\ Then(t, <<>>)
  /\ UNCHANGED <<registry, recent, FatalHandling, state, call, history>>

FatalHandler(t) ==
  /\ At(t, "handler")
  /\ FatalHandling' = FALSE
  /\ Then(t, <<>>)
  /\ UNCHANGED <<registry, recent, state, call, history>>

----------------------------------------------------------------------------
(* Calls                                                                     *)

Log(t) ==
  /\ Idle(t) /\ ~closed
  /\ logs < MaxLogs
  /\ logs' = logs + 1
  /\ \E n \in Names, l \in Levels :
       /\ level' = [level EXCEPT ![t] = l]
       /\ program' = [program EXCEPT ![t] = <<<<"reap", FALSE>>, <<"find", n>>>>]
  /\ hits' = [hits EXCEPT ![t] = [o \in Objects |-> 0]]
  /\ UNCHANGED <<registry, recent, FatalHandling, state, guard, operations, closed, throttled,
                 stray>>

(* The caller of an operation has looked its channel up, if it needs one.    *)
Call(t) ==
  /\ Idle(t) /\ ~closed
  /\ operations < MaxOperations
  /\ operations' = operations + 1
  /\ \E op \in Operations, n \in Names :
       \/ /\ op \in {"autodelete", "delete"}
          /\ program' = [program EXCEPT ![t] = <<<<op, n>>>>]
       \/ /\ Channels[n] # 0
          /\ \/ /\ op \in {"add", "unlink"}
                /\ program' = [program EXCEPT ![t] = <<<<op, Channels[n]>>>>]
             \/ /\ op = "remove"
                /\ program' = [program EXCEPT ![t] = <<<<"freeze", Channels[n]>>,
                                                       <<"clear", Channels[n]>>>>]
             \/ /\ op = "enabled"
                /\ \E b \in BOOLEAN :
                     program' = [program EXCEPT ![t] = <<<<op, Channels[n], b>>>>]
             \/ /\ op = "link"
                /\ \E to \in LinksTo(Created) :
                     program' = [program EXCEPT ![t] = <<<<op, Channels[n], to>>>>]
  /\ UNCHANGED <<registry, recent, FatalHandling, state, call, logs, closed, throttled, stray>>

(* DeleteAllChannels, at the end, when nobody else uses the Logger.          *)
DeleteAllChannels(t) ==
  /\ \A u \in Threads : Idle(u)
  /\ ~closed
  /\ closed' = TRUE
  /\ LET all  == SetToSeq(Range(Channels) \ {0})
         each == <<"unlink", "freeze", "clear">> IN
       program' = [program EXCEPT ![t] =
         <<<<"reap", TRUE>>>> \o [i \in 1..(3 * Len(all)) |->
                                  <<each[((i - 1) % 3) + 1], all[((i - 1) \div 3) + 1]>>]]
  /\ UNCHANGED <<registry, recent, FatalHandling, state, call, logs, operations, throttled,
                 stray>>

(* A backend's manager writes what a thread has queued.                      *)
Write(o) ==
  /\ \E t \in queued[o] : queued' = [queued EXCEPT ![o] = @ \ {t}]
  /\ UNCHANGED <<registry, recent, FatalHandling, Enabled, Active, link, Backends, dataLock,
                 program, call, history>>

(* 100 ms have passed.                                                       *)
TimePasses ==
  /\ recent
  /\ recent' = FALSE
  /\ UNCHANGED <<registry, FatalHandling, state, program, call, history>>

Over == closed /\ (\A t \in Threads : Idle(t)) /\ UNCHANGED vars

Step(t) ==
  \/ UpdateActive(t) \/ SetEnabled(t) \/ AddLink(t) \/ RemoveLink(t)
  \/ AddBackend(t) \/ Freeze(t) \/ ClearBackends(t)
  \/ Autodelete(t) \/ DeleteChannel(t) \/ DoAutodelete(t) \/ Stamp(t) \/ TakeNext(t)
  \/ Display(t) \/ Reject(t) \/ Follow(t) \/ DisplayLinked(t) \/ Output(t)
  \/ Withhold(t) \/ Find(t) \/ DisplayError(t) \/ HandleFatal(t) \/ Flush(t) \/ FatalHandler(t)

Next ==
  \/ \E t \in Threads : Step(t) \/ Log(t) \/ Call(t) \/ DeleteAllChannels(t)
  \/ \E o \in Objects : Write(o)
  \/ TimePasses
  \/ Over

Spec ==
  /\ Init /\ [][Next]_vars
  /\ \A t \in Threads : WF_vars(Step(t))
  /\ \A o \in Objects : WF_vars(Write(o))

----------------------------------------------------------------------------
TypeOK ==
  /\ Channels \in [Names -> {0} \cup Created]
  /\ Range(ToDelete) \subseteq Created
  /\ {recent, FatalHandling, closed, throttled} \subseteq BOOLEAN
  /\ nameOf \in Seq(Names) /\ Len(nameOf) <= MaxChannels
  /\ Enabled \in [Objects -> BOOLEAN]
  /\ Active \in [Objects -> BOOLEAN]
  /\ link \in [Objects -> LinksTo(Objects) \cup {NoLink}]
  /\ Backends \in [Objects -> SUBSET {"new", "live", "frozen"}]
  /\ queued \in [Objects -> SUBSET Threads]
  /\ dataLock \in [Objects -> Threads \cup {None}]
  /\ level \in [Threads -> Levels]
  /\ logs \in 0..MaxLogs
  /\ operations \in 0..MaxOperations
  /\ stray \subseteq Objects

(* Channel::Display with links, in a circle too: one call writes a record to *)
(* a channel's backends at most once, and when the thread has returned its   *)
(* reentry guard is empty, whether or not the small stack was outgrown.      *)
WrittenOnce ==
  \A t \in Threads :
    /\ \A o \in Objects : hits[t][o] <= 1
    /\ Idle(t) => Stack(guard[t]) = <<>>

(* Logger::HandleFatal: when the fatal handler runs, whatever its thread has *)
(* logged is in the files, also what went to channels that are being         *)
(* deleted, unless another thread is about to delete the channel.            *)
FatalFlushed ==
  \A t \in Threads, o \in Objects :
    At(t, "handler") /\ t \in queued[o] =>
      \/ \E u \in Threads \ {t} : \E i \in DOMAIN program[u] :
           program[u][i] \in {<<"freeze", o>>, <<"clear", o>>, <<"store", o, link[o] # NoLink>>}
      \/ o \in stray

(* Logger::DeleteAllChannels: a backend and its channel own each other, so   *)
(* that nothing is freed unless the backends are removed.  In the end no     *)
(* channel has one, except those to be deleted if the forced DoAutodelete    *)
(* was within 100 ms of the last, and those given one after their deletion.  *)
NothingLeft ==
  closed /\ (\A t \in Threads : Idle(t)) =>
    \A o \in Objects :
      Backends[o] # {} => o \in stray \/ (throttled /\ o \in Range(ToDelete))
=============================================================================
