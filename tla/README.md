# logme: a TLA+ verification of its concurrent parts

logme is a C++ logging library. An application logs to *channels*; a channel
hands each record to its *backends*; most backends store the record and return,
and threads of the library write it. This directory holds TLA+ modules of the
parts of logme that are run by several threads or that survive failures, the TLC
configurations that check them on small instances, and proofs of what holds for
any instance. `FileBackend.cpp` and the like are in `logme/source` or its
subdirectories.

## 1. Inventory

| Component | State | Operations | Module |
|---|---|---|---|
| `BufferQueue` | current buffer, free list, ready list, counters, limits | Append, PublishCurrent, TakeReady, Recycle, the trim | `BufferQueue` |
| `FileBackend`, asynchronous path | `FlushTime`, `QueuedBytes`, `Registered`, `ShutdownFlag`, `ShutdownCalled`, its queue | Display, Flush, Freeze, WorkerFunc, OnShutdown | `AsyncFileBackend` |
| `FileManager`, its factory | backends, sorted active list, `Reschedule`, `StopRequested`, the current instance | Add, Notify, the management thread, Remove, SetStopping, the destructor | `FileManagers` |
| `FileBackend`, rotation; archive, period and retention policies; `DirectorySizeWatchdog` | the files, the open handle, period and index | ApplySizeLimit, CompleteCurrentFile, TakeName, Retain, the watchdog's pass, restart | `FileRotation` |
| `CompressionManager`, its factory | queue of files, user count, worker | RegisterUser, ReleaseUser, Submit, WorkerFunc, SetStopping | `CompressionManager`, and `Compress` of `FileRotation` |
| `Channel`, `DisplayReentryGuard`, registry and fatal handler of `Logger` | backends, link, filter, `Enabled`, `Active`; channels, channels to be deleted | Display, AddLink, Freeze, Autodelete, DoAutodelete, DoLog, FlushAll, DeleteAllChannels | `Channels` |
| `Logger`, subsystem levels | snapshots, the reader count, the reclamation flag | SetSubsystemLevel, GetSubsystemLevel | `SubsystemSnapshot` |
| `ConsoleManager`, `DebugManager`, `WindowsEventLogManager`, factories and backends | bounded queue, policy, worker, registrations | Push, the drain, Flush, RemoveBackend, SetStopping, the destructors | `QueueManagers` |
| `LogStatistics` | active flag, threads inside, sites, slots, per-call-site cache | Record, Start, Stop, Reset, FormatStatus | `LogStatistics` |
| Control server and discovery | descriptors, `ControlThreads`, `ControlSocket`, threads | Start, Stop, listener, handlers, discovery | `ControlServer` |
| Buffer cache, control commands, formatting, configuration, TLS, C interface, tools | see section 7 | | not modelled |

How they interact. `Logger::DoLog` finds a channel and calls its `Display`, which
takes the channel's `DataLock`, calls the backends and releases it before it
follows a link: an append of a file backend, or the push of a console backend,
runs under `DataLock`, while `Channel::Flush` calls the backends without it. A
file backend talks to a management thread through its `BufferQueue`, the atomic
`FlushTime` and `FileManager::Notify`; the thread answers through `FlushTime`,
`QueuedBytes` and condition variables. The factories of the managers replace a
manager that stops when its last backend leaves; another backend may be added at
that moment. The rotation hands completed files to the compression manager,
while retention and the watchdog delete files. `DoLog` counts a record in the
statistics, the control server turns them on and off, and both run while the
application goes on logging.

What is hard: a decision taken under one lock and carried out under another (the
limits, the factories, the leaving workers, the archive names); atomics that are
read by one thread as it decides to sleep and by another as it decides to wake
it; raw pointers to objects that a queue, a cache or a caller still has; locks
held during a join; shutdown against everything; a file system that fails or a
process that ends between two calls. `PROJECT.json` lists the main hazards at their
lines, with the properties that would catch them going wrong.

What makes each component correct is what its properties say (section 3).

## 2. Modules

Common to all of them: a section of a lock that calls nothing which waits is one
action; a lock that is held across several actions is a variable; `pc` (or
`program`, `worker`, `place`) is where a thread is in the code. Data is what the
properties tell apart: a record is a number, a name or a thread a model value.
History variables are named as such in the declarations. Memory operations are
sequentially consistent.

**`RecordSink`, `LevelTable`** are abstract: what a queue promises (a record
that was offered is accepted or refused, and delivered once) and what a table
read without a lock promises (a lookup returns a level that was current during the
call).

**`BufferQueue`** (`BufferQueueProofs`). `Current` and the ready buffers are
sequences of bytes, a byte being its record's number, so that a record that is
split, lost or doubled shows. The free list is its length. An append that fits is
`AppendFits`; one that does not is `AppendFull`, `TryTakeFreeBuffer`, perhaps
`TryCreateBuffer` and `CountCreated`, `SwapForAppend` (or `RejectTooLarge`),
`MaybeGrowAdaptive`, `EnqueueReady`, under `DataLock` throughout; `PublishCurrent`
goes the same way but holds `DataLock` for the swap only. The second `CanAppend`
test of `Append` has no action: `StillFull`, which is proved, says that it cannot
succeed.

**`AsyncFileBackend`** (`AsyncFileBackendProofs`): one backend, its callers and the thread that serves it,
split wherever the code reads or writes an atomic. The queue is seen from
outside. `GivesUp` is the state in which `OnShutdown` leaves records behind. Times are
relative: `Tick` brings every deadline nearer, down to `Due`,
so that time has no bound. The file does not fail here.

**`FileManagers`** (`FileManagersProofs`): several backends, managers that stop and are
replaced, and the owner of the logger that ends them. The list is kept in order by the
`when` of the caller, `Notify` uses the pointer it finds, `Add` waits for a stopping
manager's thread. A queue is three numbers: records in the current buffer, in the ready
list, and in the hands of a `Flush`, which publishes in two steps until the current buffer
is empty. `OnShutdown` writes what it can reach and gives up on what is in those hands.
`late`, `outdated` and `GivenUp` are the backends and managers that one of
the windows of section 5 has hit; the properties except them by name.

**`FileRotation`** (`ArchiveProofs`): the active file, its archives and what each of
them holds, and of the times of last write their order (`older`); every call on the file system is a step, moves and opens may fail, the process
may end between two steps and starts again from what is on the disk. The
rotation by time runs in the caller (`"display"`), the rotation by size where the
data is written, which is the manager's thread (`"write"`) for an asynchronous
backend.

**`CompressionManager`** (`ArchiveProofs`): users, which are backends
that compress, the factory, its manager and the worker. `worker` is the
`std::thread` object with the place of its thread: "none" is not joinable,
"leave" has left the loop and not yet set `Stopped`. `ReleaseUser` is three
actions because the count it has read is used after the lock. Two joins of one
thread object may race; of the outcomes the module takes the one where the late
join waits for the new thread.

**`Channels`** (`ChannelsProofs`): a thread's `program` is the sequence of steps ahead of it, and a
call puts the callee's steps in front, which follows links, the error channel and
the fatal handler through the recursion of the code. A link has a name or a pointer, and a
name added to a pointer makes no difference (`Linked`). `guard` is the reentry
guard with its small array and its vector. Channels are numbered as they are
created and stay while someone uses them, though DoLog with its raw pointer does
not ensure that (section 5). The conditions that withhold a record (flags,
levels, repetition, frequency) are one nondeterministic step, `Withhold`.

**`SubsystemSnapshot`** (`LoggerProofs`): every atomic operation of
`AcquireSubsystemLevelSnapshot` is a step; a snapshot is the number of its
allocation; following a pointer is allowed to go wrong and `NoUseAfterReclaim`
says that it does not. `table` and `current` are histories that let the module
implement `LevelTable` without a prophecy.

**`QueueManagers`** (`QueueManagersProofs`): the three managers are variants of one design, so one module
with `kind` holds their actions, and a guard names the kind where the code
differs: the policies of the console, the wait of the event log's `RemoveBackend`,
`SetStopping` without the lock in the debug and event-log managers. A thread has
a backend of its own, as a channel's lock would have it.

**`LogStatistics`** (`LogStatisticsProofs`): a counter is the set of the records counted in it. The entry
of a thread (test the active flag, count in, test again) and the exit, the two
words of the call site's cache and the search of the slots are steps. A channel
is known by its address, which a later channel may have again.

**`ControlServer`** (`LoggerProofs`): the process's table of descriptors, the
lowest free one being the next to be given, whoever asks; that is what makes a
socket closed too early another's. `recv`, `send` and the `read` of the discovery thread
are a step in which they begin and one that needs the other side (`Received`,
`ClientReads` and `SendFails`, `DiscoveryClientAsks`); on a descriptor that has become
another's they may go on "astray", fail or wait there. The wakes do nothing without a
port or a descriptor. The application calls from one thread, with any of `Ports`.

The `MC` modules give the instances their constants.

## 3. Runs

| Run | Instance | Properties | States |
|---|---|---|---|
| `queue` | 2 callers that append and publish and the worker; buffers of 2 bytes, at most 3; records of 1 and of 3 (too large); 4 appends | `BuffersConserved`, `LimitRespected`, `StoredOnce`, `InvertedOnlyByPublish`, refinement `DeliversEachRecordOnce` | 361,000 |
| `async` | 2 callers, 3 buffers; log and flush on a registered backend, log and freeze on a new one (3 records each), log, flush and freeze together (1 record) | `QueuedExact`, `NoLostWakeup`, `EventuallyWritten`, `FlushReturnsEventually`, `FreezeIsAnswered` | 631,000 |
| `managers` | 2 backends, a flusher and an owner; 2 managers, 2 records, 1 flush | `ServedUnlessLate`, `SleepsNoLonger`, `NothingLeftAtEnd`, `EventuallyWritten` | 430,000 |
| `rotation` | 4 records, a file full after 1, 2 periods, 1 failing call, 1 crash, 1 pass of the watchdog; synchronous by time with 3 parts and gzip, the same with 2 parts and no gzip, asynchronous by size with gzip | `RecordsKept`, `KeepsOpen`, `ArchivesInOrder`, `RetainsNewest` | 291,000 |
| `compression` | 2 users, 2 registrations each, 4 files | `FilesConserved`, `LeftOnlyWhileLeaving`, `EventuallyCompressed`, `SetStoppingReturns` | 284,000 |
| `channels` | 2 threads, 2 names, at most 3 channels, 2 records, 1 other operation (7 kinds), a reentry guard that overflows after 1 | `TypeOK`, `WrittenOnce`, `FatalFlushed`, `NothingLeft` | 1,505,000 |
| `levels` | 2 readers, 2 writers, one subsystem with two levels or none, 3 changes, limit 1 | `NoUseAfterReclaim`, `SnapshotsBounded`, refinement `ImplementsLevelTable`, `ChangesEnd` | 385,000 |
| `queue_managers` | all three kinds, both policies, limits 1 and 2, 2 threads, 2 managers, 2 records, 1 flush, with and without the end of the logger | `RecordsKept`, `FlushWrites`, `OwnersPresent`, `EventuallyDone` | 958,000 |
| `statistics` | 2 threads, 2 call sites, 1 address used by 2 channels in turn, 1 slot, 2 records, 3 commands | `CountedOnce`, `ReportExact`, `CommandsReturn` | 906,000 |
| `control` | 3 descriptors, 2 connections, 1 command each, 1 start with or without a port, 1 file of the application | `OwnConnection`, `NothingLeft`, `CallsReturn` | 751,000 |
| `flush_before_first_record` | violation | `FlushReturnsEventually` | |
| `rotation_two_threads` | violation | `NoCollision` | |

What they show, in the order of the table: no buffer or record is lost, counted
twice or written twice, and records change their order only where a publication
is in progress; the byte counter that `Flush` and shutdown wait for is exact, a
sleeping manager has nothing to do before its timer, and every record is written
without anybody's help and every `Flush` returns, with `Freeze` in between, unless
`OnShutdown` gives up; whoever asked for a flush is in the list of a living
manager or about to be announced, and at the end of the logger nothing is left;
failures, crashes, compression, deletions and restarts lose no record but those
the policies delete and those in memory, archives stay in order, and retention leaves no
more of them than allowed, as many as allowed but one if it deletes any (the active
file is counted), and none that is older than those it deletes; a file is
left behind in one window only; linked channels in a circle write a record once in each
call of `Display` (an error record may reach the error channel by a second call),
the fatal handler finds its thread's records in the files, and nothing keeps a
backend alive after `DeleteAllChannels`; no snapshot is read after its deletion
and lookups are linearizable; every record accepted by a queue is written once and
in order, or ignored by the policy, and no manager writes for a backend that has
gone; every record collected is in one counter, and a stopped collection's
report is exact; the server leaves no thread, socket or entry behind, and its calls return
though the clients of the server stay connected and silent. Where the
code keeps its promise with an exception, the property names the exception
(`GivesUp` and `GivenUp`, `late`, `outdated`, `stray`, `throttled`, `drained`,
`JoinsLiveWorker`, `NotWoken` and `HeldByHandler`), and section 5 says what it is. A
property shows nothing about its exceptions.

Why the bounds are enough. Two callers and a worker give every pair of racing
calls. Buffers of two bytes are the smallest that can be partly filled, and with
three of them a publisher and an appender hold one each and the limit is still
reached. One record is enough for what a `Flush` holds while the backend is frozen;
how many records a scenario has is a constant of its operations (`MaxAppends`). Two managers are one that stops and its successor. Four records, two
periods and a size of one complete by size, by time, twice in one period and
after a restart, and retention has more to delete than one file. Two
registrations let a worker leave and be met by a user that comes late. A reentry
guard of one overflows at the first link. A snapshot limit of one makes every
change after the first reclaim. Queue limits of one and two are the full queue
and the one with room. One slot and two channels overflow. Three descriptors are
one too few for everything that wants one at a time. A start of a server that runs
stops it first and is in the proofs only, which have any number of starts. The constants named `Max...`
are the bounds on behaviour; `FlushAfter` and the like are parameters of the code.

Runs that do not check deadlock (`CHECK_DEADLOCK FALSE`) are of systems that
stop: all records logged, the logger gone, the commands given.

Fairness is weak and per thread: a thread inside a call, a management thread, a
worker, a listener and its handlers go on, because the operating system schedules
them and the sections of every lock are finite; time passes. Nobody is obliged
to log, flush, freeze, connect or stop, nothing has to fail, and no crash is
assumed to come or not to come (`rotation` states no liveness). Weak fairness is
enough for contended locks because the bounds make callers take them finitely
often; an unfair mutex can starve a thread as long as others never pause, which no
run claims otherwise. A reader of the levels gets past writers only if their
changes stop, so no property claims it.

## 4. Proofs

All theorems are for any value of the constants that satisfies the named
assumptions of the modules: threads, call sites and addresses are finite in number
and distinct, sizes and limits are naturals (the snapshot limit above zero). In each
module an inductive invariant joins the property to what its steps rely on, every
action has a lemma that it keeps it, and the temporal theorem combines them.

`BufferQueueProofs`: `TypeCorrect`, `BuffersAreConserved`, `LimitIsRespected`,
`UsedIsExact`, `DataIsVisible`, `StillFullHolds`. None of these is inductive
alone. `IndInv` joins them with `LockOwners`, which thread holds which lock by
where it is, so that at most one thread is between the two limit tests and nobody
but the appender touches `Current` while it looks for a replacement; three lemmas
count the threads that hold a buffer. `RecInvHolds` adds the records to it:
`RecInv` says that every number has been given out (`Numbered`), that a record is
in one buffer (`OnePlace`) and is somewhere unless it was dropped or `Append` is not
done with it (`Kept`), that `Current` is newer than all that has left it
(`CurrentIsNewest`), that the buffer of the appender is newer than all others and
one in any other hand was published (`HandsInOrder`), and `InvertedOnlyByPublish`.
`StoredOnceHolds` and `OnlyPublishInverts` follow, and `ImplementsSink`: every
step of the queue is a step of `RecordSink` or none.

`FileManagersProofs`: `BackendsAreServed`, `ManagersWakeInTime`,
`NothingIsQueuedAtEnd`, for two backends and any number of managers, records, flushes
and times. `ManagersInv` starts from where threads and managers are (`ClientsInv`,
`PlacesInv`): a manager that is not the factory's any more was told to stop, and until
its thread has left somebody waits for it. Hence all backends are with one manager
(`HomeInv`): the one in its place comes after the thread has gone, and a manager that
is told to stop early has lost its last backend (`FrozenInv`). So an announcement, which copies
the pointer in one section and uses it in another, reaches the manager that has the
backend (`NotifiedInv`), and who has asked stays in the list or in the hands of that one
(`ServedInv`). `OrderInv` is about sleep: what is in the list has asked, the list is in
the order of time but for a backend in hand or about to be announced again, and a
thread that sleeps will wake for the head. `QueuedInv` says who answers for a stored
record: a registered backend's manager, or the one that has it in hand while it goes, or a
`Flush` of the backend that has not returned, whose records `OnShutdown` may have given up
on. The destructor of the logger begins when nobody is in a call, and when it has returned
there is no manager with a backend, for late backends too; so nothing is stored, and
`TakenInv` says that nothing is in a `Flush`'s hands. The assumption of two backends at most
is `ClientsAssumption`; more would need the links of the list, which the backends have, as
variables.

`AsyncFileBackendProofs`: `QueuedExactHolds`, from `IndInv`: who may hold
`DataLock` where (`Locked`), what a buffer and a hand may hold (`Bounded`), and that
the record of an append in progress is in `Current`, so that no write subtracts what
has not been counted yet (`InProgress`). `NoLostWakeupHolds` rests on `Wake`, which
says who is responsible: while `FlushTime` is clear, a queue that is not empty has a
caller who will ask (`NothingForgotten`); while it is set, the manager knows or a
caller is about to tell it (`Told`); a backend that is not registered has never been
used (`Untouched`) or has been frozen (`Removed`). The theorem has the hypothesis
`UsedBeforeFlush`: in no scenario does somebody flush a backend that has not been
registered. Without it the property is false; that is finding 1 of section 5. What
`OnShutdown` gives up on is no wakeup that was lost, and needs no hypothesis here.

`LoggerProofs`, about `SubsystemSnapshot`: `TypeCorrect`, `SnapshotsAreSafe`,
`SnapshotsAreBounded` and the refinement `LevelTableImplemented`. `IInv` joins
`Control` (one writer, who bars readers, and nobody reads while it deletes),
`Counted` (the counter is the number of readers inside, so that a zero means what
the writer takes it for), `Memory` (the newest snapshot is the active one, only an
unfinished change exceeds the limit) and `Calls` (what a reader has found or will
find was current). `TableStep` maps each step to one of `LevelTable` or to none.

`ArchiveProofs`, about `FileRotation`: `RecordsAreKept`, `FileIsKeptOpen`,
`ArchivesAreInOrder`, `NewestAreRetained` and `OneThreadNeverCollides`, for any bounds,
sizes, failures, crashes and passes of the watchdog, and any configurations of which
none is asynchronous and rotated by time (`OneCompletes`). That hypothesis is no
convenience: with it one thread completes files, without it two do, and
`rotation_two_threads` shows one archive moved onto the other. `RecordsKept` is not
inductive; `IndInv` adds, in this order: where the two threads are (`ControlInv`);
what the backend has open, and that it is closed only within a completion or after an
open that failed (`HandleInv`, `CalmInv`); that memory, the disk, what is gone and
what is dropped share no record (`PlacesInv`); that the size known is that of something
written (`SizeInv`); that the index taken is greater than that of every archive of the
period, compressed or not, and that no archive is of a later period than the policy's
(`NamesInv`), which is why a move never overwrites; that what is in memory is
newer than what is on the disk, and the active file newer than the archives
(`OrderInv`); that the times of last write are a linear order and, without compression,
that of the records (`TimesInv`). For retention an archive's `Rank` is the number of
older ones: ranks are different and less than the number of archives, so that no more
archives than allowed have one that is kept (`FewArchivesLeft`), whether or not the active
file has been counted among them, and no more deleted than there are ranks below the excess
(`FewOlder`, `EnoughArchivesLeft`).

`ArchiveProofs`, about `CompressionManager`: `CompressionTypes`, `FilesAreConserved` and
`NothingElseIsLeft`, for any users and files. The invariant joins the types, the
accounting of `FilesConserved` and what ties the place of the worker to what it
has in its hands, the flags and the queue it leaves behind: a worker that is
leaving saw an empty queue, and what has been queued since is in `late`. The two
specifications share no name, so that one module can be about both.

`LogStatisticsProofs`: `CountedOnceHolds`, `ReportExactHolds`. In
`IndInv`, `InFlightExact` and `Waited` are the two-step entry against the wait for
idle: the counter is the number of threads inside, and while the collection is not
active and no command is still waiting, nobody is inside. `Places` and
`Ahead` say that a record collected is owed by the call that has it or in one
counter, and never collected again; `Caches`, `Found`, `Names` and `Attributed`
that what a call finds in the cache or among the slots is its own call site's and
its channel's; `Reported` what a report of a stopped collection holds. `Variables`,
`SiteShapes` and `Calls` are the types.

`LoggerProofs`, about `ControlServer`: `HandlersServeTheirOwn`, `NothingIsLeft`, for any
ports and any number of descriptors, connections and starts. `ControlInv` says which
descriptor is whose (`EntriesKnown`, `SocketsKnown`, `LiveKnown`), that a connection is
accepted once (`BacklogNew`, `FutureNew`), and which socket the listener and the callers
still have to close (`ListenerKnown`, `ServerKnown`), a socket that never came to listen
among them. The two specifications share no name.

`QueueManagersProofs`: `RecordsKeptHolds`, `FlushWritesHolds`, `OwnersPresentHolds`.
`IndInv` has three layers. `Base` is who has what where he is: a record, a manager, a
batch (`ControlOf`); that a worker with a batch has said so, unless others
empty its queue (`WorkingOf`); that a manager somebody can push to has a worker
(`MakingOf`). With it every step does one of six things to the records
(`DataStep`), or nothing, and the second layer is shown of those six: the places
share nothing and hold everything (`Kept`), what is in a queue or with its worker the
manager has taken (`Taken`), and as long as nobody else empties the queue what is
written, in the batch and in the queue is in the order of Push (`Ordered`). A
flush waits for what was taken (`Waiting`); when it finds the queue empty and nobody
processing, `Kept` and `Taken` leave no place for that but the output. The third layer is
about the event log: as long as no backend has gone there is one manager that nobody
stops (`Quiet`), so that the first one to go finds everything written (`Gone`).

`ChannelsProofs`: `TypesHold`, `WrittenOnceHolds`, `FatalFlushedHolds`,
`NothingLeftHolds`, all from one `IndInv` about what is still ahead of a thread. The
recursion of the code is a sequence of steps that grows in front, so the invariant
speaks of the whole sequence. `Ordered` says which kinds of steps may come after which:
behind a display there is only the rest of the calls it was made from, behind a
flush only flushes and the handler. `Unwinds` says that the outputs ahead are those of the
channels on the thread's reentry guard, the last first, and `HitsInv` that none of these
has had the record, and none at all before the last channel of the links is
reached; so the guard's test is enough against circles, and when nothing is ahead the guard
is empty. `BackendsInv` says who is responsible for a backend: a channel that has one is
registered or to be deleted, or a thread has its `clear` ahead (`ToClear`), or it was given
after the deletion (`stray`); and what is queued for a channel without backends is waited
for by the thread between the change and its store (`Cleared`). From that follow
`FatalInv`, that a record of a thread in the fatal handler has a flush ahead or somebody
else who removes its backend, and `ClosedInv`, what `DeleteAllChannels` still has to clear.
An action that only replaces its own first step is shown once and for all
(`WorkStep`, `WayStep`, `ChangeStep`): such a lemma asks what the new steps are and what
has happened to the channel, and gives the invariant.

Every safety property of a passing run is proved. Only model-checked: liveness, in all
modules that state it. Out of the prover's reach: liveness under fairness, ENABLED, and what a recursive definition computes for every input (induction over
data). No module here declares a RECURSIVE operator.

## 5. Findings and observations

Two runs disagree with the repository's own words.

1. `flush_before_first_record`: `Flush()` on a backend that has not logged sets
   `FlushTime` to `RIGHT_NOW`; `Notify` ignores an unregistered backend, later
   requests are rejected because one stands, and the next `Flush()` never returns
   (FileBackend.cpp:529).
2. `rotation_two_threads`: with rotation by time and by size on an asynchronous
   backend, the caller and the manager's thread may take the same archive name,
   and the second move overwrites the first archive (FileArchivePolicy.cpp:196),
   though docs/file_backend_lifecycle.md says that collisions do not overwrite.

What the modelling has shown besides. Properties except these cases by name, or
the model follows the code and no property says otherwise.

*File backend and managers.* `Flush()` takes the current buffer off under one lock and
queues it under another. If the manager drains the backend in between, because it was
frozen, it finds nothing ready and nothing to publish and gives up
(FileBackend.cpp:1674): the record is queued for nobody, and that `Flush()` does not
return (`GivesUp`, `GivenUp`), though the change log says that shutdown and flush were made
consistent. Without the exception `EventuallyWritten` and `FlushReturnsEventually` are
violated in the third scenario of `async`. A queue limit of one, which the setter accepts, makes `Flush()` hang
(295). Asynchronous records are dropped while the file is closed (747); a batch
that could not be written is counted out of `QueuedBytes` (1460). The assertion at
207 fails when a channel drops a backend that is still known to the factory. `Add`
tests `Stopping()` before it adds: a backend may be added to a manager that has
stopped (`late`, FileManagerFactory.cpp:31 and 52), and `Add` joins the old thread
under `DataLock` and `BufferLock`. `~FileManager` unregisters a backend before it
drains it, and a request made in between is told to nobody; `SetRegistered(true)`
after `Add` may overwrite that. The list is sorted by a `when` that may be stale
(`outdated`, FileManager.cpp:967).

*Rotation.* `max-files` counts every file that matches, the active one too
(RetentionCleaner.cpp:192), so that retention keeps one archive less than allowed and
none of one; docs/file_backend_lifecycle.md:84 says that retention rules apply to completed
archives, not to the active file. `RetainsNewest` says "but one" for it. When the archives
have a directory of their own a second pass, which is not modelled, counts only them. A batch larger than the limit rotates an empty file. With gzip, retention
judges by the time of compression, so that it can delete the newest archive. The watchdog keeps
the wrong end of a full batch: it deletes the newest files it collected
(DirectorySizeWatchdog.cpp:176-186 against the comment of its header), and may
take the active file between its closing and its reopening. A restart after
the end of a period archives the old data under the new one. `Stop()` of the
watchdog sets its flag without the lock.

*Compression.* A file submitted between the worker's last look and its farewell
stays until the next one comes, or for good (CompressionManager.cpp:209 and 230).
Two users that submit their first files at once: one may join, under the factory's
lock, the worker the other has started, and `ReleaseUser` and `SetStopping` wait
for that lock (408). Two releases that hand on their counts in the wrong order
leave the manager with a user that has gone.

*Channels.* `DoLog` keeps a raw `Channel*` while others delete the channel
(Logger.cpp:1450). `Display` does not test `Enabled` again after it has called the
filter (Channel.cpp:164). A link by name re-creates a deleted channel (192). A
backend added to a deleted channel is never removed (`stray`). `DoAutodelete`
does nothing within 100 ms of the last time even if forced (`throttled`,
Logger.cpp:469). Racing `SetEnabled` and `AddBackend` leave `Active` stale.
A second thread's critical record is not flushed while the first is in the fatal
handler.

*Queue managers.* A console's `Flush` may return while the worker still writes the
batch it has (ConsoleManager.cpp:427-480; Backend.h:80 and the change log promise
more). A caller that drains writes beside the worker, and the first of them to
finish clears `Processing` (`drained`); two event-log backends removed at once
rely on it. A backend added to a manager that stops stays mute. When the destructor
of `Logger` has requested the stop, `RemoveBackend` does not wait.
`SetStopping` of the debug and event-log managers sets the flag without the lock;
the wakeup it loses is made good by the next one.

*Statistics.* A channel is its address: a later channel there is counted under the
first one's name (docs/log_statistics.md:22-23 says by name). Two loggers that
share a call site's cache are not modelled.

*Control server.* A client that connects to the discovery endpoint and sends nothing keeps
its thread in `read` (ControlDiscovery.cpp:454), and `StopControlServer`, with it the
destructor of `Logger`, waits for that thread for ever (`discovery = "read"` in
`CallsReturn`). The listener closes the sockets before it joins their handlers,
one of which may still receive or send on a descriptor that has been given again ("astray",
in `HeldByHandler`). A handler whose client does not read stays in `send`: the shutdown is of
the side that reads (Control.cpp:961), and the join waits. A socket of
an ended handler stays open until the next connection. A failing accept ends the
listener while `ControlSocket` stays set; so does a failing setsockopt
(`StartLeavesSocket`). The wakes need a descriptor and that of the listener a port: with none
of the first or port 0, `StopControlServer` waits for ever (`NotWoken`). A command that
stops the server from its handler joins itself. A restart without a certificate
keeps the old context.

## 6. Plan

Modelled in this order: `BufferQueue`, `AsyncFileBackend`, `SubsystemSnapshot`,
`CompressionManager`, `FileManagers`, `FileRotation`, `QueueManagers`, `Channels`,
`LogStatistics`, `ControlServer`. What would add most next:

1. more than two backends in `FileManagers`, which needs the links of the list as
   variables;
2. a store buffer for the relaxed atomics of `AsyncFileBackend` and for the
   acquire-only handshake of `LogStatistics`;
3. the early run of `SCHEDULED_RUN_GAP_MS` with several backends; the redirection
   of the console; the age and size limits of retention.

## 7. Not modelled

* Left out of modelled components: `PrepareSoftFlushCurrent` and
  `PublishCurrentIfMatches` (no callers), failing allocations, limits changed at
  run time; with several managers the early run; `Truncate` as the other size
  policy, archive names without a template, limits of age and total size; moves of
  a compression registration; redirection of the console, `PushAndFlush`, limits
  in bytes; what flags and levels say about a record; counters of asynchronous
  file backends, layout of the reports, metadata that is cut; what a control
  command says, authorization, TLS sessions, pipes.
* The buffer cache of `FileManager`: a list under one lock.
* Most of the implementation by size is text processing and input handling of one
  thread, without state that outlives the call: the macros of `Logme.h`, `Context`,
  formatting, colours, obfuscation, templates, statistics reports, configuration,
  control commands. A model would be a transcription of string code, and tests
  reach it. That is why the share of all lines that the modules stand for is
  small, though they cover the parts whose order of steps matters.
* Ring, memory, callback and shared-file backends are called under the channel's
  lock, one call at a time; file locks, TLS and the event log are external.
* Crash logging, the C interface, tools and examples: no threads of their own.

`PROJECT.json` gives the reason for each component, and the lines each definition
stands for.
