---------------------------- MODULE FileManagers ----------------------------
(***************************************************************************)
(* The managers a FileManagerFactory creates one after another, and the     *)
(* backends that move between them (File/FileManagerFactory.cpp,            *)
(* File/FileManager.cpp).  A manager stops when its last backend has been   *)
(* frozen; the next backend to be added puts a new one in its place.        *)
(*                                                                         *)
(* A section of the factory's Lock, of a manager's Lock or of BufferLock is *)
(* one action.  Every backend has one thread, which logs and freezes under  *)
(* the channel's DataLock; Flusher calls Flush without it and Owner is the  *)
(* thread that destroys the Logger.  What WorkerFunc and the appender do to *)
(* each other inside a backend is the subject of AsyncFileBackend: here an  *)
(* append and its claim of FlushTime are one step, and so is WorkerFunc.    *)
(* Flush publishes in steps of its own, with what it has taken off the      *)
(* current buffer in its hands; every publisher finds a replacement.        *)
(*                                                                         *)
(* The links of an active list are in the backends themselves, so that the   *)
(* lists of two managers that hold the same backend could tangle.  The       *)
(* sequences here do not show that, which two backends cannot tell.         *)
(*                                                                         *)
(* Managers are numbered as they are created; 0 is no manager.  Times are   *)
(* relative to the present, as in AsyncFileBackend.                         *)
(***************************************************************************)
EXTENDS Integers, Sequences, FiniteSets, SequencesExt

CONSTANTS
  FileBackends,        \* the backends
  Flusher,             \* a thread that calls Flush
  Owner,               \* the thread that destroys the Logger
  NoBackend,           \* "no backend"
  FlushAfter,
  PressureRecords,     \* records at which an append asks for an immediate flush
  MaxManagers,         \* bound on the number of managers
  MaxRecords,          \* bound on the records logged
  MaxFlushes           \* bound on the calls of Flush

ASSUME ClientsAssumption ==
  /\ IsFiniteSet(FileBackends) /\ Cardinality(FileBackends) <= 2
  /\ Flusher \notin FileBackends /\ Owner \notin FileBackends /\ Flusher # Owner
  /\ NoBackend \notin FileBackends

ASSUME NumbersAssumption ==
  /\ {FlushAfter, PressureRecords, MaxManagers} \subseteq Nat \ {0}
  /\ {MaxRecords, MaxFlushes} \subseteq Nat

Clients  == FileBackends \cup {Flusher, Owner}
Managers == 1..MaxManagers

NoTime    == -1              \* FlushTime 0
RIGHT_NOW == 0
Due       == 1               \* a deadline that has passed
Later     == Due + FlushAfter
Never     == Later + 1       \* UINT64_MAX

VARIABLES
  Instance,            \* of the factory
  created,             \* the number of managers created so far
  Backends,            \* of a manager, and so on: the registered backends
  Active,              \* its list of active backends
  StopRequested,
  Reschedule,
  CurrentEarliestTime,
  place,               \* where its thread is, or how far its destructor
  running,             \* the backend it has in hand
  Registered,          \* of a backend, and so on
  ShutdownFlag,
  ShutdownCalled,
  FlushTime,
  current,             \* records in its current buffer
  ready,               \* records in its ready list
  taken,               \* records in the buffer Flusher has in its hands
  at,                  \* where a thread is
  flushed,             \* the backend Flusher has called Flush of
  when,                \* the argument of a Notify in progress
  held,                \* the manager a thread has a shared_ptr to
  appends,             \* history: records logged so far
  flushes,             \* history: calls of Flush so far
  late,                \* history: backends added to a manager that was stopping
  outdated             \* history: managers told of a FlushTime that had changed

factory      == <<Instance, created>>
lists        == <<Backends, Active>>
signals      == <<StopRequested, Reschedule, CurrentEarliestTime>>
managers     == <<lists, signals, place, running>>
flags        == <<Registered, ShutdownFlag, ShutdownCalled>>
data         == <<FlushTime, current, ready, taken>>
threads      == <<at, flushed, when, held>>
recorded     == <<appends, flushes, late, outdated>>
managersVars == <<factory, managers, flags, data, threads, recorded>>

----------------------------------------------------------------------------
Goto(t, label) == at' = [at EXCEPT ![t] = label]

ManagersInit ==
  /\ Instance = 0
  /\ created = 0
  /\ Backends = [m \in Managers |-> {}]
  /\ Active = [m \in Managers |-> <<>>]
  /\ StopRequested = [m \in Managers |-> FALSE]
  /\ Reschedule = [m \in Managers |-> FALSE]
  /\ CurrentEarliestTime = [m \in Managers |-> RIGHT_NOW]
  /\ place = [m \in Managers |-> "none"]
  /\ running = [m \in Managers |-> NoBackend]
  /\ Registered = [b \in FileBackends |-> FALSE]
  /\ ShutdownFlag = [b \in FileBackends |-> FALSE]
  /\ ShutdownCalled = [b \in FileBackends |-> FALSE]
  /\ FlushTime = [b \in FileBackends |-> NoTime]
  /\ current = [b \in FileBackends |-> 0]
  /\ ready = [b \in FileBackends |-> 0]
  /\ taken = 0
  /\ at = [t \in Clients |-> "idle"]
  /\ flushed = NoBackend
  /\ when = [t \in Clients |-> NoTime]
  /\ held = [t \in Clients |-> 0]
  /\ appends = 0
  /\ flushes = 0
  /\ late = {}
  /\ outdated = {}

(* QueuedBytes: whatever has been appended and not been written. *)
Queued(b) == current[b] + ready[b] + IF b = flushed THEN taken ELSE 0

(* RegisterAsync holds BufferLock from its second test of Registered on;    *)
(* a drained backend takes it to announce that its queue is empty.          *)
BufferLocked(b) == at[b] \in {"add", "stop", "join", "drain", "provide", "register"}

(* The last shared_ptr to a manager destroys it. *)
LastReference(t, m) ==
  /\ m # 0
  /\ Instance # m
  /\ \A u \in Clients \ {t} : held[u] # m

(* A backend is taken off a list, which holds it once at most.                *)
Without(s, b) ==
  IF b \in ToSet(s) THEN RemoveAt(s, CHOOSE i \in DOMAIN s : s[i] = b) ELSE s

(* A variant of ActivateBackend that keeps no order. *)
ActivateLast(s, b, time) == IF time = NoTime THEN s ELSE Append(Without(s, b), b)

(* ActivateBackend: RIGHT_NOW goes to the front, another time behind the     *)
(* last if that is not later, and else before the first that is.            *)
Activate(s, b, time) ==
  LET rest   == Without(s, b)
      Fits   == FlushTime[Last(rest)] # RIGHT_NOW /\ FlushTime[Last(rest)] <= time
      later  == {i \in DOMAIN rest : FlushTime[rest[i]] > time}
      first  == CHOOSE i \in later : \A j \in later : i <= j
  IN CASE time = NoTime    -> s
       [] time = RIGHT_NOW -> <<b>> \o rest
       [] time > RIGHT_NOW ->
            IF rest = <<>> \/ later = {} \/ Fits
            THEN Append(rest, b)
            ELSE InsertAt(rest, first, b)

----------------------------------------------------------------------------
(* Variants of the steps below: a thread that does not put a backend back or *)
(* does not remove it, a destructor that does not drain.                    *)

ReactivateNever(m) ==
  /\ place[m] = "again"
  /\ Active' = [Active EXCEPT ![m] = Without(@, running[m])]
  /\ place' = [place EXCEPT ![m] = "loop"]
  /\ running' = [running EXCEPT ![m] = NoBackend]
  /\ UNCHANGED <<factory, Backends, signals, flags, data, threads, recorded>>

DestroyUndrained(m) ==
  /\ place[m] = "destroy"
  /\ running[m] = NoBackend
  /\ place' = [place EXCEPT ![m] = "gone"]
  /\ UNCHANGED <<factory, lists, signals, running, flags, data, threads, recorded>>

RemoveKeepsRegistered(m) ==
  /\ place[m] = "remove"
  /\ Active' = [Active EXCEPT ![m] = Without(@, running[m])]
  /\ place' = [place EXCEPT ![m] = "loop"]
  /\ running' = [running EXCEPT ![m] = NoBackend]
  /\ UNCHANGED <<factory, Backends, signals, flags, data, threads, recorded>>

----------------------------------------------------------------------------
(* Logging: Display and RegisterAsync *)

Display(b) ==
  /\ at[b] = "idle"
  /\ ~ ShutdownFlag[b]
  /\ appends < MaxRecords
  /\ at[Owner] = "idle"
  /\ appends' = appends + 1
  /\ Goto(b, IF Registered[b] THEN "append" ELSE "add")
  /\ UNCHANGED <<factory, managers, flags, data, flushed, when, held, flushes, late,
                 outdated>>

(* FileManagerFactory::Add, its first section: a stopping manager is taken   *)
(* out, and stopped and joined outside the factory's Lock.                  *)
AddTakesStopping(b) ==
  /\ at[b] = "add"
  /\ IF Instance # 0 /\ StopRequested[Instance]
     THEN /\ held' = [held EXCEPT ![b] = Instance]
          /\ Instance' = 0
          /\ Goto(b, "stop")
     ELSE Goto(b, "provide") /\ UNCHANGED <<Instance, held>>
  /\ UNCHANGED <<created, managers, flags, data, flushed, when, recorded>>

(* FileManager::SetStopping *)
SetStopping(b) ==
  /\ at[b] = "stop"
  /\ StopRequested' = [StopRequested EXCEPT ![held[b]] = TRUE]
  /\ Reschedule' = [Reschedule EXCEPT ![held[b]] = TRUE]
  /\ Goto(b, "join")
  /\ UNCHANGED <<factory, lists, CurrentEarliestTime, place, running, flags, data,
                 flushed, when, held, recorded>>

(* WaitForStop, after which the reference is dropped.  Whoever drops the     *)
(* last one runs the destructor and goes on when it is through.             *)
WaitForStop(t) ==
  /\ at[t] = "join"
  /\ place[held[t]] = "exited"
  /\ IF LastReference(t, held[t])
     THEN /\ place' = [place EXCEPT ![held[t]] = "destroy"]
          /\ Goto(t, "drain")
          /\ UNCHANGED held
     ELSE /\ held' = [held EXCEPT ![t] = 0]
          /\ Goto(t, IF t = Owner THEN "done" ELSE "provide")
          /\ UNCHANGED place
  /\ UNCHANGED <<factory, lists, signals, running, flags, data, flushed, when, recorded>>

Destroyed(t, label, next) ==
  /\ at[t] = label
  /\ place[held[t]] = "gone"
  /\ held' = [held EXCEPT ![t] = 0]
  /\ Goto(t, next)
  /\ UNCHANGED <<factory, managers, flags, data, flushed, when, recorded>>

(* The second section of Add, with FileManager::AddBackend in it.  Nobody    *)
(* looks again whether the manager is stopping.                             *)
Provide(b) ==
  /\ at[b] = "provide"
  /\ Instance # 0 \/ created < MaxManagers
  /\ LET m == IF Instance = 0 THEN created + 1 ELSE Instance
     IN /\ Instance' = m
        /\ created' = IF Instance = 0 THEN m ELSE created
        /\ Backends' = [Backends EXCEPT ![m] = @ \cup {b}]
        /\ place' = [place EXCEPT ![m] = IF @ = "none" THEN "loop" ELSE @]
        /\ late' = IF StopRequested[m] THEN late \cup {b} ELSE late
  /\ Goto(b, "register")
  /\ UNCHANGED <<Active, signals, running, flags, data, flushed, when, held, appends,
                 flushes, outdated>>

SetRegistered(b) ==
  /\ at[b] = "register"
  /\ Registered' = [Registered EXCEPT ![b] = TRUE]
  /\ Goto(b, "append")
  /\ UNCHANGED <<factory, managers, ShutdownFlag, ShutdownCalled, data, flushed, when,
                 held, recorded>>

(* RequestFlush up to its Notify: an earlier time than the one asked for     *)
(* already is claimed and announced.                                        *)
After(t) == IF t = Flusher THEN "flushing" ELSE "idle"

RequestFlush(t, b, time) ==
  IF FlushTime[b] = NoTime \/ time < FlushTime[b]
  THEN /\ FlushTime' = [FlushTime EXCEPT ![b] = time]
       /\ when' = [when EXCEPT ![t] = time]
       /\ Goto(t, "notify")
  ELSE Goto(t, After(t)) /\ UNCHANGED <<FlushTime, when>>

(* AppendOutputData: a queue under pressure is flushed at once, the first    *)
(* record of an empty buffer after FlushAfter if nothing has been asked for. *)
AppendOutputData(b) ==
  /\ at[b] = "append"
  /\ current' = [current EXCEPT ![b] = @ + 1]
  /\ IF Queued(b) + 1 >= PressureRecords
     THEN RequestFlush(b, b, RIGHT_NOW)
     ELSE IF current[b] = 0 /\ FlushTime[b] = NoTime
     THEN RequestFlush(b, b, Later)
     ELSE Goto(b, "idle") /\ UNCHANGED <<FlushTime, when>>
  /\ UNCHANGED <<factory, managers, flags, ready, taken, flushed, held, recorded>>

Freeze(b) ==
  /\ at[b] = "idle"
  /\ ~ ShutdownFlag[b]
  /\ ShutdownFlag' = [ShutdownFlag EXCEPT ![b] = TRUE]
  /\ RequestFlush(b, b, RIGHT_NOW)
  /\ UNCHANGED <<factory, managers, Registered, ShutdownCalled, current, ready, taken,
                 flushed, held, recorded>>

(* Flush of a backend that has been in use.  It publishes until nothing is    *)
(* left in the current buffer, asks for a flush and waits for an empty queue. *)
Flush(b) ==
  /\ at[Flusher] = "idle"
  /\ flushes < MaxFlushes
  /\ Registered[b] \/ ShutdownFlag[b]
  /\ at[Owner] = "idle"
  /\ flushes' = flushes + 1
  /\ flushed' = b
  /\ Goto(Flusher, "publish")
  /\ UNCHANGED <<factory, managers, flags, data, when, held, appends, late, outdated>>

(* PublishCurrent takes the buffer first, *)
PublishCurrent ==
  /\ at[Flusher] = "publish"
  /\ current[flushed] > 0
  /\ taken' = current[flushed]
  /\ current' = [current EXCEPT ![flushed] = 0]
  /\ Goto(Flusher, "enqueue")
  /\ UNCHANGED <<factory, managers, flags, FlushTime, ready, flushed, when, held, recorded>>

(* and adds it to the ready list under another lock: in between the backend's *)
(* manager does not see its records.                                          *)
EnqueueReady ==
  /\ at[Flusher] = "enqueue"
  /\ ready' = [ready EXCEPT ![flushed] = @ + taken]
  /\ taken' = 0
  /\ Goto(Flusher, "publish")
  /\ UNCHANGED <<factory, managers, flags, FlushTime, current, flushed, when, held, recorded>>

AllPublished ==
  /\ at[Flusher] = "publish"
  /\ current[flushed] = 0
  /\ RequestFlush(Flusher, flushed, RIGHT_NOW)
  /\ UNCHANGED <<factory, managers, flags, current, ready, taken, flushed, held, recorded>>

FlushDone ==
  /\ at[Flusher] = "flushing"
  /\ Queued(flushed) = 0
  /\ ~ BufferLocked(flushed)
  /\ flushed' = NoBackend
  /\ Goto(Flusher, "idle")
  /\ UNCHANGED <<factory, managers, flags, data, when, held, recorded>>

----------------------------------------------------------------------------
(* Notify: the factory's section, which copies the pointer, and the          *)
(* manager's, after which the copy is dropped.                              *)

NotifyFactory(t) ==
  /\ at[t] = "notify"
  /\ held' = [held EXCEPT ![t] = Instance]
  /\ IF Instance = 0
     THEN Goto(t, After(t)) /\ when' = [when EXCEPT ![t] = NoTime]
     ELSE Goto(t, "announce") /\ UNCHANGED when
  /\ UNCHANGED <<factory, managers, flags, data, flushed, recorded>>

Wakes(m, b, time, list) ==
  Head(list) = b \/ time = RIGHT_NOW \/ time < CurrentEarliestTime[m]

NotifyManager(t) ==
  /\ at[t] = "announce"
  /\ LET m    == held[t]
         b    == IF t = Flusher THEN flushed ELSE t
         list == Activate(Active[m], b, when[t])
     IN /\ IF Registered[b]
           THEN /\ Active' = [Active EXCEPT ![m] = list]
                /\ Reschedule' = [Reschedule EXCEPT
                                    ![m] = @ \/ Wakes(m, b, when[t], list)]
           ELSE UNCHANGED <<Active, Reschedule>>
        /\ outdated' = IF when[t] = FlushTime[b] THEN outdated ELSE outdated \cup {m}
        /\ IF LastReference(t, m)
           THEN /\ place' = [place EXCEPT ![m] = "destroy"]
                /\ Goto(t, "drop")
                /\ UNCHANGED held
           ELSE /\ held' = [held EXCEPT ![t] = 0]
                /\ Goto(t, After(t))
                /\ UNCHANGED place
  /\ when' = [when EXCEPT ![t] = NoTime]
  /\ UNCHANGED <<factory, Backends, StopRequested, CurrentEarliestTime, running, flags,
                 data, flushed, appends, flushes, late>>

----------------------------------------------------------------------------
(* ManagementThread *)

(* One round of the loop: backends at the head that want nothing any more    *)
(* are dropped, and what is left says what to do.                           *)
WithoutStale(s) ==
  LET asked == {i \in DOMAIN s : FlushTime[s[i]] # NoTime}
      first == CHOOSE i \in asked : \A j \in asked : i <= j
  IN IF asked = {} THEN <<>> ELSE SubSeq(s, first, Len(s))

Exit(m) ==
  /\ place[m] = "loop"
  /\ StopRequested[m]
  /\ place' = [place EXCEPT ![m] = "exited"]
  /\ UNCHANGED <<factory, lists, signals, running, flags, data, threads, recorded>>

WaitForWork(m) ==
  /\ place[m] = "loop"
  /\ ~ StopRequested[m]
  /\ LET list == WithoutStale(Active[m])
     IN /\ Active' = [Active EXCEPT ![m] = list]
        /\ CurrentEarliestTime' =
             [CurrentEarliestTime EXCEPT
                ![m] = IF list = <<>> THEN Never ELSE FlushTime[Head(list)]]
        /\ list # <<>> => FlushTime[Head(list)] > Due
  /\ place' = [place EXCEPT ![m] = "wait"]
  /\ UNCHANGED <<factory, Backends, StopRequested, Reschedule, running, flags, data,
                 threads, recorded>>

(* Both waits end with the signal; the timed one when its time has come.     *)
WakeUp(m) ==
  /\ place[m] = "wait"
  /\ StopRequested[m] \/ Reschedule[m] \/ CurrentEarliestTime[m] = Due
  /\ Reschedule' = [Reschedule EXCEPT ![m] = FALSE]
  /\ CurrentEarliestTime' = [CurrentEarliestTime EXCEPT ![m] = Never]
  /\ place' = [place EXCEPT ![m] = "loop"]
  /\ UNCHANGED <<factory, lists, StopRequested, running, flags, data, threads, recorded>>

(* A backend that is not (or no longer) registered here is only taken off.   *)
TakeHead(m) ==
  /\ place[m] = "loop"
  /\ ~ StopRequested[m]
  /\ LET list == WithoutStale(Active[m])
     IN /\ list # <<>>
        /\ FlushTime[Head(list)] \in {RIGHT_NOW, Due}
        /\ Active' = [Active EXCEPT ![m] = Tail(list)]
        /\ IF Head(list) \in Backends[m]
           THEN /\ running' = [running EXCEPT ![m] = Head(list)]
                /\ place' = [place EXCEPT ![m] = "work"]
           ELSE UNCHANGED <<running, place>>
  /\ UNCHANGED <<factory, Backends, signals, flags, data, threads, recorded>>

(***************************************************************************)
(* WorkerFunc writes what is ready, and only if nothing is and it is asked   *)
(* to do so publishes the current buffer and writes that.  FlushTime becomes *)
(* the deadline of what is left in the current buffer: a scheduled run that  *)
(* finds nothing ready finds it overdue.                                     *)
(***************************************************************************)
Left(b) == {RIGHT_NOW} \cup (Due + 1)..Later

WritesReady(b) ==
  /\ ready[b] > 0
  /\ ~ BufferLocked(b)
  /\ ready' = [ready EXCEPT ![b] = 0]
  /\ \E time \in IF current[b] = 0 THEN {NoTime} ELSE Left(b) :
       FlushTime' = [FlushTime EXCEPT ![b] = time]
  /\ UNCHANGED current

Forced(b) == FlushTime[b] = RIGHT_NOW \/ ShutdownFlag[b]

WritesCurrent(b) ==
  /\ ready[b] = 0
  /\ Forced(b)
  /\ ~ BufferLocked(b)
  /\ current' = [current EXCEPT ![b] = 0]
  /\ FlushTime' = [FlushTime EXCEPT ![b] = NoTime]
  /\ UNCHANGED ready

WritesNothing(b) ==
  /\ ready[b] = 0
  /\ ~ Forced(b)
  /\ FlushTime' = [FlushTime EXCEPT ![b] = IF current[b] = 0 THEN NoTime ELSE RIGHT_NOW]
  /\ UNCHANGED <<current, ready>>

WorkerFunc(m) ==
  /\ place[m] = "work"
  /\ LET b == running[m]
     IN /\ WritesReady(b) \/ WritesCurrent(b) \/ WritesNothing(b)
        /\ place' = [place EXCEPT ![m] = IF ShutdownFlag[b] THEN "remove" ELSE "again"]
  /\ UNCHANGED <<factory, lists, signals, running, flags, taken, threads, recorded>>

Reactivate(m) ==
  /\ place[m] = "again"
  /\ LET b == running[m]
     IN Active' = [Active EXCEPT
                     ![m] = IF FlushTime[b] = NoTime THEN Without(@, b)
                            ELSE Activate(@, b, FlushTime[b])]
  /\ place' = [place EXCEPT ![m] = "loop"]
  /\ running' = [running EXCEPT ![m] = NoBackend]
  /\ UNCHANGED <<factory, Backends, signals, flags, data, threads, recorded>>

RemoveBackendLocked(m) ==
  /\ place[m] = "remove"
  /\ LET b == running[m]
     IN /\ Active' = [Active EXCEPT ![m] = Without(@, b)]
        /\ Registered' = [Registered EXCEPT ![b] = FALSE]
        /\ FlushTime' = [FlushTime EXCEPT ![b] = NoTime]
        /\ Backends' = [Backends EXCEPT ![m] = @ \ {b}]
        /\ StopRequested' = [StopRequested EXCEPT ![m] = @ \/ Backends[m] \subseteq {b}]
  /\ place' = [place EXCEPT ![m] = "shutdown"]
  /\ UNCHANGED <<factory, Reschedule, CurrentEarliestTime, running, ShutdownFlag,
                 ShutdownCalled, current, ready, taken, threads, recorded>>

(* OnShutdown writes what is ready or can be published until the queue is    *)
(* empty or, when the rest of it is in Flusher's hands, gives up.            *)
Drain(b) ==
  /\ Queued(b) > 0 => ~ BufferLocked(b)
  /\ current' = [current EXCEPT ![b] = 0]
  /\ ready' = [ready EXCEPT ![b] = 0]
  /\ ShutdownCalled' = [ShutdownCalled EXCEPT ![b] = TRUE]

OnShutdown(m) ==
  /\ place[m] = "shutdown"
  /\ Drain(running[m])
  /\ place' = [place EXCEPT ![m] = "loop"]
  /\ running' = [running EXCEPT ![m] = NoBackend]
  /\ UNCHANGED <<factory, lists, signals, Registered, ShutdownFlag, FlushTime, taken,
                 threads, recorded>>

----------------------------------------------------------------------------
(* ~FileManager takes the backends that are left one after another. *)

Unregister(m) ==
  /\ place[m] = "destroy"
  /\ running[m] = NoBackend
  /\ \E b \in Backends[m] :
       /\ Active' = [Active EXCEPT ![m] = Without(@, b)]
       /\ Registered' = [Registered EXCEPT ![b] = FALSE]
       /\ FlushTime' = [FlushTime EXCEPT ![b] = NoTime]
       /\ running' = [running EXCEPT ![m] = b]
  /\ UNCHANGED <<factory, Backends, signals, place, ShutdownFlag, ShutdownCalled, current,
                 ready, taken, threads, recorded>>

DrainUnregistered(m) ==
  /\ place[m] = "destroy"
  /\ running[m] # NoBackend
  /\ Drain(running[m])
  /\ Backends' = [Backends EXCEPT ![m] = @ \ {running[m]}]
  /\ running' = [running EXCEPT ![m] = NoBackend]
  /\ UNCHANGED <<factory, Active, signals, place, Registered, ShutdownFlag, FlushTime,
                 taken, threads, recorded>>

Destroy(m) ==
  /\ place[m] = "destroy"
  /\ running[m] = NoBackend
  /\ Backends[m] = {}
  /\ place' = [place EXCEPT ![m] = "gone"]
  /\ UNCHANGED <<factory, lists, signals, running, flags, data, threads, recorded>>

----------------------------------------------------------------------------
(* ~Logger stops the manager, removes the channels, whose backends freeze,   *)
(* and ends with ~FileManagerFactory.                                       *)

BeginDestruction ==
  /\ at[Owner] = "idle"
  /\ \A t \in Clients : at[t] = "idle"
  /\ StopRequested' = [m \in Managers |-> StopRequested[m] \/ m = Instance]
  /\ Reschedule' = [m \in Managers |-> Reschedule[m] \/ m = Instance]
  /\ Goto(Owner, "channels")
  /\ UNCHANGED <<factory, lists, CurrentEarliestTime, place, running, flags, data, flushed,
                 when, held, recorded>>

DestroyFactory ==
  /\ at[Owner] = "channels"
  /\ \A b \in FileBackends : at[b] = "idle" /\ ShutdownFlag[b]
  /\ held' = [held EXCEPT ![Owner] = Instance]
  /\ Instance' = 0
  /\ Goto(Owner, IF Instance = 0 THEN "done" ELSE "join")
  /\ UNCHANGED <<created, managers, flags, data, flushed, when, recorded>>

----------------------------------------------------------------------------
Tick ==
  LET Nearer(t) == IF t > Due /\ t # Never THEN t - 1 ELSE t
  IN /\ FlushTime' = [b \in FileBackends |-> Nearer(FlushTime[b])]
     /\ when' = [t \in Clients |-> Nearer(when[t])]
     /\ CurrentEarliestTime' = [m \in Managers |-> Nearer(CurrentEarliestTime[m])]
     /\ <<FlushTime, when, CurrentEarliestTime>>' # <<FlushTime, when, CurrentEarliestTime>>
     /\ UNCHANGED <<factory, lists, StopRequested, Reschedule, place, running, flags,
                    current, ready, taken, at, flushed, held, recorded>>

(* OnShutdown has given up on records that Flusher held then. *)
GivenUp(b) == ShutdownCalled[b] /\ Queued(b) > 0

(* The end, and a Flush that waits for a manager without a thread, or for one *)
(* that has given up.                                                         *)
Terminated ==
  /\ \/ at[Owner] = "done"
     \/ at[Flusher] = "flushing" /\ (flushed \in late \/ GivenUp(flushed))
  /\ UNCHANGED managersVars

BackendStep(b) ==
  \/ AddTakesStopping(b)
  \/ SetStopping(b)
  \/ WaitForStop(b)
  \/ Destroyed(b, "drain", "provide")
  \/ Provide(b)
  \/ SetRegistered(b)
  \/ AppendOutputData(b)

NotifyStep(t) ==
  \/ NotifyFactory(t)
  \/ NotifyManager(t)
  \/ Destroyed(t, "drop", After(t))

ManagerStep(m) ==
  \/ Exit(m)
  \/ WaitForWork(m)
  \/ WakeUp(m)
  \/ TakeHead(m)
  \/ WorkerFunc(m)
  \/ Reactivate(m)
  \/ RemoveBackendLocked(m)
  \/ OnShutdown(m)
  \/ Unregister(m)
  \/ DrainUnregistered(m)
  \/ Destroy(m)

FlushStep ==
  \/ PublishCurrent
  \/ EnqueueReady
  \/ AllPublished
  \/ FlushDone

OwnerStep ==
  \/ DestroyFactory
  \/ WaitForStop(Owner)
  \/ Destroyed(Owner, "drain", "done")

ManagersNext ==
  \/ \E b \in FileBackends : Display(b) \/ Freeze(b) \/ Flush(b) \/ BackendStep(b)
  \/ \E t \in Clients : NotifyStep(t)
  \/ FlushStep
  \/ \E m \in Managers : ManagerStep(m)
  \/ BeginDestruction
  \/ OwnerStep
  \/ Tick
  \/ Terminated

(* A thread inside a call and a manager's thread go on, and time passes.     *)
Fairness ==
  /\ \A b \in FileBackends : WF_managersVars(BackendStep(b))
  /\ \A t \in Clients : WF_managersVars(NotifyStep(t))
  /\ WF_managersVars(FlushStep)
  /\ \A m \in Managers : WF_managersVars(ManagerStep(m))
  /\ WF_managersVars(OwnerStep)
  /\ WF_managersVars(Tick)

ManagersSpec == ManagersInit /\ [][ManagersNext]_managersVars /\ Fairness

----------------------------------------------------------------------------
(* Properties *)

Labels == {"idle", "add", "stop", "join", "drain", "provide", "register", "append",
           "notify", "announce", "drop", "publish", "enqueue", "flushing", "channels",
           "done"}
Places == {"none", "loop", "wait", "work", "again", "remove", "shutdown", "exited",
           "destroy", "gone"}
Times  == RIGHT_NOW..Later

TypesOK ==
  /\ Instance \in 0..created
  /\ created \in 0..MaxManagers
  /\ Backends \in [Managers -> SUBSET FileBackends]
  /\ Active \in [Managers -> Seq(FileBackends)]
  /\ \A m \in Managers : IsInjective(Active[m])
  /\ StopRequested \in [Managers -> BOOLEAN]
  /\ Reschedule \in [Managers -> BOOLEAN]
  /\ CurrentEarliestTime \in [Managers -> Times \cup {Never}]
  /\ place \in [Managers -> Places]
  /\ running \in [Managers -> FileBackends \cup {NoBackend}]
  /\ Registered \in [FileBackends -> BOOLEAN]
  /\ ShutdownFlag \in [FileBackends -> BOOLEAN]
  /\ ShutdownCalled \in [FileBackends -> BOOLEAN]
  /\ FlushTime \in [FileBackends -> Times \cup {NoTime}]
  /\ current \in [FileBackends -> Nat]
  /\ ready \in [FileBackends -> Nat]
  /\ taken \in Nat
  /\ at \in [Clients -> Labels]
  /\ flushed \in FileBackends \cup {NoBackend}
  /\ when \in [Clients -> Times \cup {NoTime}]
  /\ held \in [Clients -> Managers \cup {0}]
  /\ appends \in Nat
  /\ flushes \in Nat
  /\ late \subseteq FileBackends
  /\ outdated \subseteq Managers

Live(m) == place[m] \notin {"none", "exited", "destroy", "gone"}

Announcing(b) ==
  \/ at[b] \in {"notify", "announce"}
  \/ flushed = b /\ at[Flusher] \in {"notify", "announce"}

(***************************************************************************)
(* The types, and: a backend that has asked for a flush is about to be      *)
(* announced, or is in the active list or the hands of a manager whose       *)
(* thread will look at it, whichever managers have come and gone: unless it  *)
(* was added to a manager that had already stopped, or the Logger is being   *)
(* destroyed.                                                               *)
(***************************************************************************)
ServedUnlessLate ==
  /\ TypesOK
  /\ \A b \in FileBackends \ late :
       FlushTime[b] # NoTime /\ Registered[b] /\ at[Owner] = "idle" =>
         \/ Announcing(b)
         \/ \E m \in Managers :
              /\ Live(m)
              /\ b \in Backends[m]
              /\ b = running[m] \/ b \in ToSet(Active[m])

(***************************************************************************)
(* A manager with nothing to wake it sleeps no longer than the nearest       *)
(* FlushTime of its active backends, unless it was told of a FlushTime that  *)
(* had changed in the meantime: the claim and its Notify are two steps, and *)
(* the list is then no longer in the order of time.                         *)
(***************************************************************************)
SleepsNoLonger ==
  \A m \in Managers \ outdated :
    place[m] = "wait" /\ ~ Reschedule[m] /\ ~ StopRequested[m] =>
      \A b \in ToSet(Active[m]) :
        Announcing(b) \/ CurrentEarliestTime[m] <= FlushTime[b]

(***************************************************************************)
(* When the Logger is gone nothing is left in a queue: what its threads did *)
(* not write because SetStopping came first, the destructor of a manager     *)
(* has written.  A Flush() whose records OnShutdown has given up on never    *)
(* returns, and the Logger is not destroyed while it is called.              *)
(***************************************************************************)
NothingLeftAtEnd ==
  at[Owner] = "done" => \A b \in FileBackends : Queued(b) = 0

(***************************************************************************)
(* While the Logger lives, what has been logged is written, unless its       *)
(* manager was late or has given up on it while a Flush() held it; and a      *)
(* backend that was frozen is released by its manager.                       *)
(***************************************************************************)
EventuallyWritten ==
  \A b \in FileBackends :
    /\ Queued(b) > 0 ~> Queued(b) = 0 \/ b \in late \/ GivenUp(b) \/ at[Owner] # "idle"
    /\ ShutdownFlag[b] /\ Registered[b] ~>
         ~ Registered[b] \/ b \in late \/ at[Owner] # "idle"
=============================================================================
