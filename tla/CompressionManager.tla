------------------------- MODULE CompressionManager -------------------------
(***************************************************************************)
(* CompressionManager and its factory (File/CompressionManager.cpp).       *)
(* Backends register as users and submit completed files; the one manager  *)
(* of the factory queues them for a worker thread, which is started by a    *)
(* submission and leaves when no user remains and the queue is empty.      *)
(*                                                                         *)
(* A section of the manager's Lock is one action.  factoryLock is a         *)
(* variable because Submit holds the factory's Lock while it joins a       *)
(* worker.  worker is the std::thread object and the place of its thread:  *)
(* it is joinable unless "none".  Two threads that join at once race on     *)
(* that object; here the second one waits for the thread it then holds.    *)
(* A module may extend both this one and FileRotation: no name is in both.  *)
(***************************************************************************)
EXTENDS Integers, Sequences, FiniteSets, SequencesExt

CONSTANTS
  Users,               \* backends with compression
  Stopper,             \* the thread that destroys the Logger
  None,
  MaxRegistrations,    \* bound on the registrations of one user
  MaxSubmits           \* bound on the files submitted

ASSUME UsersAssumption ==
  /\ IsFiniteSet(Users)
  /\ Stopper \notin Users
  /\ None \notin Users \cup {Stopper}

ASSUME BoundsAssumption == MaxRegistrations \in Nat /\ MaxSubmits \in Nat

VARIABLES
  UserCount,           \* of the factory
  Stopping,
  Instance,            \* whether the manager exists
  factoryLock,
  StopRequested,       \* of the manager, and so on
  Stopped,
  ManagerUserCount,    \* its UserCount
  Queue,
  worker,
  compressing,         \* the file the worker has taken
  at,
  isUser,          \* whether a user holds an active registration
  count,               \* the userCount a releasing user has read
  file,                \* the file a user is submitting
  registrations,       \* history: how often each user has registered
  submits,             \* history: the number of files, which are numbered
  accepted,            \* history: the files that entered the queue
  compressed,          \* history: the files the worker has processed
  late                 \* history: the files queued while the worker was leaving

factory == <<UserCount, Stopping, Instance, factoryLock>>
manager == <<StopRequested, Stopped, ManagerUserCount, Queue, worker, compressing>>
threads == <<at, isUser, count, file>>
history == <<registrations, submits, accepted, compressed, late>>
compressionVars == <<factory, manager, threads, history>>

Callers == Users \cup {Stopper}

Proceed(t, label) == at' = [at EXCEPT ![t] = label]

CompressionInit ==
  /\ UserCount = 0
  /\ Stopping = FALSE
  /\ Instance = FALSE
  /\ factoryLock = None
  /\ StopRequested = FALSE
  /\ Stopped = TRUE
  /\ ManagerUserCount = 0
  /\ Queue = <<>>
  /\ worker = "none"
  /\ compressing = 0
  /\ at = [t \in Callers |-> "idle"]
  /\ isUser = [u \in Users |-> FALSE]
  /\ count = [u \in Users |-> 0]
  /\ file = [u \in Users |-> 0]
  /\ registrations = [u \in Users |-> 0]
  /\ submits = 0
  /\ accepted = {}
  /\ compressed = {}
  /\ late = {}

----------------------------------------------------------------------------
(* Variants of the steps below: a file that is taken and not removed, a      *)
(* worker that leaves before the queue is empty, a SetStopping that does not *)
(* announce itself.                                                        *)

TakeFileKept ==
  /\ worker = "wait"
  /\ Queue # <<>>
  /\ compressing' = Head(Queue)
  /\ worker' = "compress"
  /\ UNCHANGED <<factory, StopRequested, Stopped, ManagerUserCount, Queue, threads,
                 history>>

LeaveAtOnce ==
  /\ worker = "wait"
  /\ StopRequested \/ ManagerUserCount = 0
  /\ worker' = "leave"
  /\ UNCHANGED <<factory, StopRequested, Stopped, ManagerUserCount, Queue,
                 compressing, threads, history>>

StopManagerUnannounced ==
  /\ at[Stopper] = "stop"
  /\ Proceed(Stopper, "join")
  /\ UNCHANGED <<factory, manager, isUser, count, file, history>>

----------------------------------------------------------------------------
(* Users come and go *)

(* A factory that is stopping hands out a registration that does nothing. *)
RegisterUser(u) ==
  /\ at[u] = "idle"
  /\ ~ isUser[u]
  /\ registrations[u] < MaxRegistrations
  /\ factoryLock = None
  /\ ~ Stopping
  /\ UserCount' = UserCount + 1
  /\ ManagerUserCount' = IF Instance THEN UserCount + 1 ELSE ManagerUserCount
  /\ isUser' = [isUser EXCEPT ![u] = TRUE]
  /\ registrations' = [registrations EXCEPT ![u] = @ + 1]
  /\ UNCHANGED <<Stopping, Instance, factoryLock, StopRequested, Stopped, Queue,
                 worker, compressing, at, count, file, submits, accepted,
                 compressed, late>>

(* The count is read under the factory's lock and used after it. *)
ReleaseUser(u) ==
  /\ at[u] = "idle"
  /\ isUser[u]
  /\ factoryLock = None
  /\ isUser' = [isUser EXCEPT ![u] = FALSE]
  /\ IF UserCount = 0
     THEN UNCHANGED <<UserCount, count, at>>
     ELSE /\ UserCount' = UserCount - 1
          /\ count' = [count EXCEPT ![u] = UserCount - 1]
          /\ Proceed(u, IF Instance THEN "release" ELSE "idle")
  /\ UNCHANGED <<Stopping, Instance, factoryLock, manager, file, history>>

SetUserCount(u) ==
  /\ at[u] = "release"
  /\ ManagerUserCount' = count[u]
  /\ Proceed(u, IF count[u] = 0 THEN "stop" ELSE "idle")
  /\ UNCHANGED <<factory, StopRequested, Stopped, Queue, worker, compressing,
                 isUser, count, file, history>>

StopWhenQueueEmpty(u) ==
  /\ at[u] = "stop"
  /\ ManagerUserCount' = 0
  /\ Proceed(u, "idle")
  /\ UNCHANGED <<factory, StopRequested, Stopped, Queue, worker, compressing,
                 isUser, count, file, history>>

----------------------------------------------------------------------------
(* Submissions.  A file a stopping factory refuses changes nothing. *)

Submit(u) ==
  /\ at[u] = "idle"
  /\ isUser[u]
  /\ submits < MaxSubmits
  /\ factoryLock = None
  /\ ~ Stopping /\ UserCount # 0
  /\ factoryLock' = u
  /\ submits' = submits + 1
  /\ file' = [file EXCEPT ![u] = submits + 1]
  /\ Proceed(u, IF Instance /\ Stopped THEN "join" ELSE "count")
  /\ UNCHANGED <<UserCount, Stopping, Instance, manager, isUser, count,
                 registrations, accepted, compressed, late>>

(* CompressionManager::Join looks first and then waits, without a lock of   *)
(* the manager.                                                            *)
Join(t, next) ==
  /\ at[t] = "join"
  /\ Proceed(t, IF worker = "none" THEN next ELSE "joining")
  /\ UNCHANGED <<factory, manager, isUser, count, file, history>>

Joined(t, next) ==
  /\ at[t] = "joining"
  /\ worker \in {"none", "exited"}
  /\ worker' = "none"
  /\ Proceed(t, next)
  /\ UNCHANGED <<factory, StopRequested, Stopped, ManagerUserCount, Queue,
                 compressing, isUser, count, file, history>>

(* The manager is created if need be and told the number of users. *)
ProvideInstance(u) ==
  /\ at[u] = "count"
  /\ Instance' = TRUE
  /\ ManagerUserCount' = UserCount
  /\ factoryLock' = None
  /\ Proceed(u, "enqueue")
  /\ UNCHANGED <<UserCount, Stopping, StopRequested, Stopped, Queue, worker,
                 compressing, isUser, count, file, history>>

(* A thread that has marked itself stopped is joined and replaced; one that *)
(* has not is believed to be there.                                        *)
StartWorkerLocked ==
  IF worker = "none" \/ Stopped
  THEN worker' = "wait" /\ Stopped' = FALSE
  ELSE UNCHANGED <<worker, Stopped>>

EnqueueFile(u) ==
  /\ at[u] = "enqueue"
  /\ ~ StopRequested
  /\ Queue' = Append(Queue, file[u])
  /\ StartWorkerLocked
  /\ accepted' = accepted \cup {file[u]}
  /\ late' = IF worker = "leave" THEN late \cup {file[u]} ELSE late
  /\ file' = [file EXCEPT ![u] = 0]
  /\ Proceed(u, "idle")
  /\ UNCHANGED <<factory, StopRequested, ManagerUserCount, compressing, isUser,
                 count, registrations, submits, compressed>>

Refuse(u) ==
  /\ at[u] = "enqueue"
  /\ StopRequested
  /\ file' = [file EXCEPT ![u] = 0]
  /\ Proceed(u, "idle")
  /\ UNCHANGED <<factory, manager, isUser, count, history>>

----------------------------------------------------------------------------
(* CompressionManagerFactory::SetStopping *)

CallSetStopping ==
  /\ at[Stopper] = "idle"
  /\ Proceed(Stopper, "lock")
  /\ UNCHANGED <<factory, manager, isUser, count, file, history>>

SetStopping ==
  /\ at[Stopper] = "lock"
  /\ factoryLock = None
  /\ Stopping' = TRUE
  /\ UserCount' = 0
  /\ Proceed(Stopper, IF Instance THEN "stop" ELSE "done")
  /\ UNCHANGED <<Instance, factoryLock, manager, isUser, count, file, history>>

StopManager ==
  /\ at[Stopper] = "stop"
  /\ StopRequested' = TRUE
  /\ ManagerUserCount' = 0
  /\ Proceed(Stopper, "join")
  /\ UNCHANGED <<factory, Stopped, Queue, worker, compressing, isUser, count,
                 file, history>>

----------------------------------------------------------------------------
(* WorkerFunc *)

TakeFile ==
  /\ worker = "wait"
  /\ Queue # <<>>
  /\ compressing' = Head(Queue)
  /\ Queue' = Tail(Queue)
  /\ worker' = "compress"
  /\ UNCHANGED <<factory, StopRequested, Stopped, ManagerUserCount, threads, history>>

(* Whether a file can be compressed is between it and the file system. *)
CompressFile ==
  /\ worker = "compress"
  /\ compressed' = compressed \cup {compressing}
  /\ compressing' = 0
  /\ worker' = "wait"
  /\ UNCHANGED <<factory, StopRequested, Stopped, ManagerUserCount, Queue, threads,
                 registrations, submits, accepted, late>>

Leave ==
  /\ worker = "wait"
  /\ Queue = <<>>
  /\ StopRequested \/ ManagerUserCount = 0
  /\ worker' = "leave"
  /\ UNCHANGED <<factory, StopRequested, Stopped, ManagerUserCount, Queue,
                 compressing, threads, history>>

(* Another section of the lock than the one that found the queue empty. *)
MarkStopped ==
  /\ worker = "leave"
  /\ Stopped' = TRUE
  /\ worker' = "exited"
  /\ UNCHANGED <<factory, StopRequested, ManagerUserCount, Queue, compressing,
                 threads, history>>

----------------------------------------------------------------------------
UserStep(u) ==
  \/ SetUserCount(u)
  \/ StopWhenQueueEmpty(u)
  \/ Join(u, "count")
  \/ Joined(u, "count")
  \/ ProvideInstance(u)
  \/ EnqueueFile(u)
  \/ Refuse(u)

StopperStep ==
  \/ SetStopping
  \/ StopManager
  \/ Join(Stopper, "done")
  \/ Joined(Stopper, "done")

WorkerStep ==
  \/ TakeFile
  \/ CompressFile
  \/ Leave
  \/ MarkStopped

CompressionNext ==
  \/ \E u \in Users : RegisterUser(u) \/ ReleaseUser(u) \/ Submit(u) \/ UserStep(u)
  \/ CallSetStopping
  \/ StopperStep
  \/ WorkerStep

(* A thread inside a call and the worker go on. *)
Fairness ==
  /\ \A u \in Users : WF_compressionVars(UserStep(u))
  /\ WF_compressionVars(StopperStep)
  /\ WF_compressionVars(WorkerStep)

CompressionSpec == CompressionInit /\ [][CompressionNext]_compressionVars /\ Fairness

----------------------------------------------------------------------------
(* Properties *)

Labels ==
  {"idle", "release", "stop", "join", "joining", "count", "enqueue", "lock", "done"}
Places == {"none", "wait", "compress", "leave", "exited"}
Files  == 1..submits

CompressionTypeOK ==
  /\ UserCount \in Nat
  /\ Stopping \in BOOLEAN
  /\ Instance \in BOOLEAN
  /\ factoryLock \in Users \cup {None}
  /\ StopRequested \in BOOLEAN
  /\ Stopped \in BOOLEAN
  /\ ManagerUserCount \in Nat
  /\ Queue \in Seq(Files)
  /\ worker \in Places
  /\ compressing \in Files \cup {0}
  /\ at \in [Callers -> Labels]
  /\ isUser \in [Users -> BOOLEAN]
  /\ count \in [Users -> Nat]
  /\ file \in [Users -> Files \cup {0}]
  /\ registrations \in [Users -> Nat]
  /\ submits \in Nat
  /\ accepted \subseteq Files
  /\ compressed \subseteq accepted
  /\ late \subseteq accepted

(***************************************************************************)
(* An accepted file is in the queue, with the worker or processed, in one   *)
(* of these places and once: none is lost and none is compressed again.    *)
(***************************************************************************)
FilesConserved ==
  /\ IsInjective(Queue)
  /\ ToSet(Queue) \cap compressed = {}
  /\ compressing \notin ToSet(Queue) \cup compressed
  /\ accepted = (ToSet(Queue) \cup compressed \cup {compressing}) \ {0}

(***************************************************************************)
(* A file is left in the queue by a worker that has gone only if it came    *)
(* between the worker's last look at the queue and its farewell.           *)
(***************************************************************************)
LeftOnlyWhileLeaving ==
  worker \in {"none", "exited"} => ToSet(Queue) \subseteq late

(***************************************************************************)
(* Every other accepted file is processed, whoever has left by then and      *)
(* whether or not the factory stops.                                        *)
(***************************************************************************)
EventuallyCompressed == []<>(accepted \subseteq compressed \cup late)

(***************************************************************************)
(* SetStopping returns, unless a user waits, with the factory's lock in its  *)
(* hands, for a worker that another has started since it looked: the worker *)
(* then waits for SetStopping or ReleaseUser, which need that lock.          *)
(***************************************************************************)
JoinsLiveWorker == \E u \in Users : at[u] = "joining" /\ ~ Stopped

SetStoppingReturns == []<>(at[Stopper] \in {"idle", "done"} \/ JoinsLiveWorker)
=============================================================================
