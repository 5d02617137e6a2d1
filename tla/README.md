# make-initrd in TLA+

make-initrd builds an initramfs image and supplies the programs that run in
it.  This directory holds TLA+ models of that program, the TLC instances that
check them, and TLAPS proofs about them.  Paths below are relative to the root
of the repository (`src/` in `PROJECT.json`).

1. [The system](#the-system)
2. [Modules](#modules)
3. [Runs](#runs)
4. [Bounds](#bounds)
5. [Fairness](#fairness)
6. [Proofs](#proofs)
7. [Where code and documentation differ](#where-code-and-documentation-differ)
8. [Abstractions](#abstractions)
9. [What is not modelled](#what-is-not-modelled)

## The system

Two halves share the repository.  On the host, a make-driven builder collects
files: `utils/` and `tools/` are its programs, `features/` and `guess/` its
hooks.  In the initramfs, a few daemons and many short scripts cooperate through
directories, locks and pipes until the real root is mounted.  On the host two
tools run threads and all of them are algorithms with a definition to be checked
against; in the initramfs the orders of events matter.

| Part | State | Operations | Interacts with |
|---|---|---|---|
| ueventd (`features/runtime/src/ueventd/`) | watch list with flags `F_DIRTY`, `F_PAUSED` and `q_pid`; `dirty_queues`, `pause_all`, `timer_changed`; descriptors for inotify, signals, a pipe, a timer | scan the roots, read notifications, reap workers, read retry messages, move delayed events, start workers | every client through `queues/`, `events/`, `timers/` and `confdb/queue/pause/` |
| worker (`queue-processor.c`) | the copied watch element, two open directories | open, mkdir, rename each file, run the handler, report leftovers | ueventd (pipe, SIGCHLD), the handler |
| clients (`uevent-sh-functions`, `ueventctl`) | none beyond the directories | publish, publish later, finish, pause, create and remove a queue | ueventd |
| handlers (`ueventd-queue`, `lib/uevent/handlers/`) | the batch in `events/<queue>` | finish events, leave events, publish others | worker, rootdelay, fstab |
| rootdelayd and rootdelay functions | deadline, pause lock, pause time, reset time | pause, unpause, reset, expire | handlers, console lock, emergency shell |
| init, rc, telinit | runlevel, services started, the telinit pipe | change runlevel, start and stop services, switch root | mount handler, services |
| console and fstab locks | two lock files | lock, unlock, shared lock | all scripts |
| ueventd-mounts | the last mount table | wait for a change, compare, publish events | ueventd |
| pipeline | step counter, step directories | run a step, pause, wait for a device | ueventd queue `pipeline` |
| md and btrfs member timeouts | deadline of an incomplete array | check, re-arm, force assembly | `timers/`, rootdelay |
| kickstart | installation commands | partition, format, install | pauses of queues |
| nfsmount | ports, file handle, one RPC call | ask the portmapper, call MNT, mount, UMNT | NFS server, kernel, dummy portmapper |
| halt | what was synced, flushed, taken down | record, sync, interfaces, disks, reboot() | init, kernel |
| resume, environ, sysexec, chrooted, runas, timestamp | local | sequential system calls | the kernel |
| initrd-put | tree and queue of files, library cache, threads | enqueue, resolve links, interpreters, libraries, copy | host file system |
| initrd-scanmod | rulesets, list of modules, threads | read rules, take a module, match, print | libkmod |
| kmod-depinfo, udev-rules | module graph, rule list | traverse, match, pair labels | libkmod |
| initrd-cpio, initrd-parse, initrd-decompress, initrd-ls, initrd-extract | position in a stream | read a header, skip, decompress, write | none |
| sort-services | service graph | order, find loops | rc |
| make-initrd, mk, guess, features | files | copy, guess, pack | host |

What is hard to test here: notifications that arrive between a scan and a
watch; a SIGCHLD that stands for two workers; a queue that is removed and
created again while its handler runs; a pause entry older than the queue; a
delayed event published during the scan that arms the timer; files published
while a worker empties the directory; a daemon stopped while its children run;
pauses of the root delay that overlap, are counted by two processes or lose
their owner; a deadline written by a process that does not hold the lock; mounts
that change while they are listed; replies that come late, twice or not at all;
members of an array that appear while its timer fires; a step of a pipeline that
fails between two of its effects; files copied by threads into directories that
other threads make; a service stopped before what depends on it.
`PROJECT.json` lists the most important of them at the line where they bite, with
the properties that watch them.

## Modules

`Ueventd` is the daemon with the kernel objects it uses, its workers, their
handlers and the clients.  One action is one step that another process can
come between: a directory opened, one rename, one notification read.

| In the model | In the code |
|---|---|
| `dir`, `gens` | existence and inode of `queues/q`, `events/q`, `timers/q` |
| `loc`, `due` | the directory an event file is in; the time in the name of a delayed one |
| `pause` | entries of `confdb/queue/pause`, `All` for `.all` |
| `inotify`, `wds`, `kwatch` | queued notifications, what each watch descriptor was added for, which ones the kernel still serves |
| `pipe`, `sigchld`, `tfd` | the retry pipe, the pending signal, the timerfd |
| `watch_list`, `dirty`, `paused`, `q_pid` | `struct watch` elements and their flags |
| `pc`, `scan`, `pend`, `todo`, `tscan`, `duetodo`, `cur`, ... | where the single thread of the daemon is, with the locals of its loops |
| `wpc`, `wq`, `wwd`, `wsrc`, `wdst`, `wtodo` | each forked worker |

The client actions are `MkDir`, `Publish`, `PublishTimer`, `DoneEvent`,
`PauseQueue`, `RemoveQueue` and `RemoveDir` (one `rm -rf` is several steps). The
daemon starts with `Start`, `FirstScan`, `ScanEntry`, `LinkWatch`, `ScanDone`,
`FirstPause`; a round of its loop is `EpollWait`, `Dispatch` with `ReapWorkers`,
`ReadTimer`, `ReadModify`, `ReadDeleteSelf`, `ReadCreate`, `ReadPause`,
`ReadPipe`, then `BeginUpdate` to `EndUpdate` for `update_timerfd` and `Spawn`
or `SpawnFails` for each queue it may serve. `Fatal` stands for the `rd_fatal`
calls the modelled steps can reach, `Stop` and `Restart` for the uevent service.
A worker is `WorkerOpen`, `WorkerMkdir`, `WorkerMove`, `WorkerCheck`,
`WorkerRecheck`, `WorkerSignal`, `WorkerQuit`; a handler finishes events with
`HandlerDone` and ends with `HandlerExit`.

The constant `Env` selects what the surroundings do in an instance: `create`
and `remove` queues, `pause` them, withdraw events (`done`), let forks fail
(`forkfail`), `stop` the daemon, or let the kernel's queue `overflow`.

`UeventQueue` is the promise to authors of filters and handlers in five
actions: events arrive at any time, are collected into a batch only while the
queue is not being served, a batch has one handler, and what it leaves is
served again.  `Ueventd` implements it under the mapping in `Promise`.

`MCUeventd` instantiates `Ueventd` for TLC.  The proofs about it are a chain of
six modules, each extending the one before:

| Module | Holds |
|---|---|
| `UeventdTypes` | the type lemmas, one per group of actions |
| `UeventdKeptProofs` | workers and elements; what is kept while no queue is removed |
| `UeventdWakeProofs` | control of the daemon, pauses, notifications and watches |
| `UeventdEventProofs` | events, workers, the retry pipe: no lost wakeup |
| `UeventdTimerProofs` | delayed events and the timerfd |
| `UeventdProofs` | the counter of dirty elements, the refinement, and the theorems that need the whole chain |

`Rootdelay` is the wait for the root file system: `rootdelayd`, the commands
that pause it and the handlers that restart its period.  One action is one
test, read, write or lock operation of a script.

| In the model | In the code |
|---|---|
| `lockfile`, `sh`, `ex` | existence of `pause.lock` and who holds it shared and exclusive |
| `pauseTime`, `reset`, `deadline` | the files `pause.time`, `reset` and `deadline`, -1 when missing |
| `disabled`, `resumed`, `initenv` | the directory `disabled`, `resume_checked`, `/.initrd/initenv` |
| `console` | the holder of `console.lock` |
| `pc`, `start`, `found`, `seen`, `wake` | where each script is and its local variables |
| `owed`, `cap` | no code: the end of the wait as a user would reckon it |

`PauseBegin` to `PauserGone` are `run_rootdelay_paused` (`rootdelay_pause` and
`rootdelay_unpause` are the same steps without the command, and have no caller
outside the tests); `FinTry` to `FinClose` are `_rootdelay_finalize_pause`, run
by a pauser or by the daemon; `ResetBegin` to `ResetEnd` are
`rootdelay_reset_timer`; `GiveUp` is `sysinit_found` of the mount handler;
`Loop` to `Wake` are the loop of the daemon.  `MCRootdelay` instantiates it.

The programs beside these two have one module each.  An action is a step of the
program that something else can come between, or, in a sequential program, one
iteration of a loop or one call of a function that is recursive in the code.

| Module | Code | State | Steps |
|---|---|---|---|
| `PutQueue` | initrd-put up to the copying | the LIFO queue with its flags, the tree `files`, `elf_cache`, the walk over links | an argument, a link followed, a queue entry with its parent, target, interpreter, libraries, notes; an entry that is gone or has no place |
| `PutInstall` | initrd-put's copying | the destination, each file's content in chunks, `installed`, the threads | a directory, a file taken, a chunk by each of the three ways, a read that ends early or fails, a hard link, permissions, the log |
| `Scanmod` | initrd-scanmod | rules files read, list of paths, per thread a path and what is known of it | read a file, start a thread, pop, match a ruleset |
| `KmodDepinfo` | kmod-depinfo | a stack of frames for the recursive functions, what was tracked, the lines printed | one call each |
| `InitrdExtract` | initrd-parse, -cpio, -decompress, -ls, -extract | a stack of streams with offsets, archives found, the output by offset | bootconfig, decompress, a stream that yields nothing, open, read an entry, close, write an entry, trailer |
| `Boot` | sort-services, init, rc, the mount handler | headers, Kahn's queue, `rc_order`, the fifo, lock files, mounts, the handler | begin, pop and end a level; read the fifo; a line of rc.order with a start or stop that may fail; a mount; the handler's tests and its lock |
| `MountMonitor` | ueventd-mounts | the kernel's table and notification queue, the daemon's list, the event being written | mount, umount, move; mark, list a page, read, compare, write, release |
| `Nfsmount` | nfsmount | messages under way, the call with its tries and the length of its reply, the server's rmtab, the dummy portmapper | send, lose, duplicate, serve, read a reply or a piece of it, time out, mount, bail out |
| `Halt` | halt | name, options, disks, interfaces, what was done | one stage of main(), one disk, one interface in each pass of `ifdown()` |
| `MemberTimeout` | md and btrfs timeout handlers | members seen, arrays, queue, timers, seconds of quiet | a member appears, the filter, a timer, a batch, the stages of process_timeout, with the full scan and the new root delay of btrfs |
| `Pipeline` | 500-pipeline and its functions | events, the batch and the event that was served, the tmpfs, steps that are ready, failure counters | initialization, a step done, failed, skipped or missing, the removal of its event, a kill between them, unpause, a second start |

`MCBuild` holds the first six for TLC, `MCRuntime` the other five: the variable
`tool` says which program a behaviour runs, the others stay at their start.
`Boot` is a composition of its own: the order that sort-services computes is the
one rc uses, and the mount handler's request reaches init through the fifo while
rc holds the console.  `BootProofs` holds the proofs about `Pipeline`,
`MemberTimeout` and `Halt`, `ToolProofs` those about `Scanmod`, `InitrdExtract`,
`Nfsmount` and `Rootdelay`.

Operators named after another one with a suffix and commented "Mutant" are
plausible mistakes in that code; replacing the original by them makes TLC
report the property they are paired with in `PROJECT.json`, which shows that
the property depends on that code.

## Runs

| Run | Checks | Shows |
|---|---|---|
| `queues` | `DaemonSurvives`, `NoLostWakeup`, `PausesFollowed` | two queues and two workers, pauses coming and going: no path to `rd_fatal`, nothing waits unseen while the daemon sleeps, no pause outlives its entry and `.all` pauses every queue |
| `lifecycle` | `Inv`, `OneWorkerPerWatch` | a queue created, removed and created again, failing forks, dropped notifications, stop and restart: the counter never loses a flag and no watch element has two workers |
| `timers` | `TimerArmed`, `NeverEarly`, `TimerFires` | delayed events with an invalid, a near and a far due time, some withdrawn: the timer covers each, none moves early, each leaves `timers/` in its time |
| `liveness` | `OneHandlerPerQueue`, `ReadyServed`, `LeftoverRetried` | two events of one queue, two free workers and pauses: one handler at a time, events are collected and leftovers retried unless the queue is paused |
| `promise` | `ImplementsFairQueue` | two queues without pauses: refinement of `UeventQueue` with its liveness |
| `handlers` (violation) | `OneHandlerPerQueue` | two handlers of one queue when it is removed and created again |
| `pauses` (violation) | `PauseHonoured` | a pause entry older than the queue is ignored |
| `exact` | `GrantInv`, `NotShortened`, `NotProlonged`, `NoEarlyExpiry` | two pauses in any overlap, a kill anywhere: the deadline moves by the time in pause, no less, and without a kill no more |
| `settle` | `PauseSettled`, `ExpiryComes` | a killed pauser on the console, a reset, a mount handler that gives up, a resume device and `rdshell`: a pause is counted in the end and a passed deadline opens the shell |
| `giveup` (violation) | `ZeroKept` | the deadline 0 of the mount handler is overwritten by a process that counts a pause |
| `build` | `BuildTypeOK` and the properties below | each tool on its set of inputs, threads in any order |
| `runtime` | `RuntimeTypeOK` and the properties below | each program with its faults, arrivals and losses in any order |

`build`, by program:

* initrd-put.  `PutClosure`: when copying begins the tree is closed under what
  its files need, by a definition that knows neither queue nor cache, also where
  two libraries of one name lie on different paths.
  `PutInstalled`: exit status 0 means every file is there, whole, with its
  permissions, and no file was taken by two threads or counted twice.
  `PutNoFalseFailure`: on a sound host the rounds get everything installed, but
  for a hard link whose directory comes in a later round (`LateLink`).
* initrd-scanmod.  `ScanOnce` and `ScanExact`: a module is printed exactly when
  it satisfies all rules of some file, and once.
* kmod-depinfo.  `DepOutput`: the output is the closure of the names under
  dependencies, with firmware, nothing else and nothing twice; the tree is the
  tree of dependencies; the exit status tells whether something was missing.
* initrd-extract and initrd-ls.  `ExtractReadable`: what is written is found
  again at the offsets the reader computes.  `ExtractFaithful`: every image that
  should be taken is, and the archives asked for come out entry by entry, under
  the numbers that initrd-ls shows.
* `BootInOrder`: sort-services succeeds exactly when every level can be ordered,
  each line is behind those that must precede it and its tier is the length of
  the longest chain (`SortRight`); in every change of runlevel a service is up
  only while those it requires are, failed starts and stops apart
  (`BootUpheld`); the real init starts with
  everything mounted, the other services stopped and no handler at work, and
  boot does not end elsewhere (`BootSwitches`).
* `ToolTerminates`: each of them ends; boot ends at the switch or in a wait for
  something that does not come.

`runtime`, by program:

* ueventd-mounts.  `MountFollowed`: while the daemon waits in poll() its list is
  the kernel's table, the events told the same story, and it gives up only for a
  temporary file that an earlier daemon left.
* nfsmount.  `NfsHandle`: mount() is not called on the status of an earlier reply,
  and gets a handle that came whole from the server; over UDP if no
  `PROG_MISMATCH` came before, over TCP if the reply is not cut.
  `NfsCleanedUp`: over TCP with whole replies a run that fails takes its entry
  back; over any network an answer to another call is not taken for UMNT's, and
  the dummy portmapper is gone.
* halt.  `HaltInOrder`: sync() before interfaces, disks and the end; shapers
  before what is below them, with `-i` all interfaces before a disk, and the disks
  flushed before the end.  `HaltHarmless`: a call that does not stop the system
  leaves init running, gives CTRL-ALT-DEL back to it (it is with init when halt
  starts) and with `-w` writes only the record.
* `MemberWaits`: a degraded array is started only after the delay without a
  batch of members, and never with delay 0.
* pipeline.  `PipeOneByOne`, `PipeResults`, `PipeRetries`: one event for a step
  at any time, each step after those before it with the last one's result, and
  no more failures than pipe-retry, the unpausings and failed pauses allow.  An
  event that handler_step() is through with stays when rm fails or the handler is
  killed; `tears` counts these, and each may add one event.
* `RuntimeSettles`: every program comes to rest, the arrays started.

Deadlock is not checked for `Ueventd` and `Rootdelay`: when every event is
finished the daemon sleeps in `epoll_wait` for good, which is its normal end,
and a run of `Rootdelay` ends with the horizon of its clock.  `build` and
`runtime` check it; the step `Rest` lets a program that has ended, or that waits
for the next event, stay where it is, and the liveness properties say that it
gets there.

## Bounds

* One or two queues.  Queues share only the counter `dirty_queues`, the
  descriptors and the order of the loops; two of them make these meet.
* One or two events.  Two let one arrive while the other is moved, handled or
  left behind.
* `MaxGen` = 2: a directory is removed and made again once, which is what it
  takes to confuse two instances.  `MaxWd` = 4 descriptors cover both
  instances in two runs of the daemon.
* `MaxInotify` is 2 or 3.  Without `overflow` in `Env`, clients wait when the
  kernel's queue is full; a longer queue adds no new order of notifications
  with this many directories.  With `overflow`, what does not fit is dropped.
* `MaxTime` = 2 with due times 0 (invalid), 1 and 2: past, present, future.
* `MaxFaults` = 1 failing fork or stop.
* Workers are interchangeable, so `Pid` is a symmetry set in the runs that
  check invariants only; so are the events of `lifecycle`, which belong to one
  queue.
* `exact` has two pausers, one of them on the console as fsck is, and `MaxTime`
  5 with a period of 2 seconds: the period, a pause and the wait after it fit.
  `settle` has one pauser and one handler that resets; the handler's test of the
  lock and the daemon's make the pauser's `flock -n` fail as a second pauser
  would.  A period of 1 second ends well before its horizon of 3.
* `build`: two threads, which is what a race needs; contents of two chunks, so
  that a fallback can come in the middle; `MAXSYMLINKS` 3 instead of 40, reached
  by a loop of links.  Each input is made for a branch: links, hard links, also
  below a link of a later round, cached and private libraries with RPATH or
  RUNPATH, dlopen notes, prefixes, a destination that has files already, unsound
  hosts; rules
  that agree, disagree and are empty; cycles, builtin and unknown modules;
  archives plain, compressed, nested, damaged, padded, empty, with bootconfig, in
  one or several zstd frames.  `Boot` has up to six scripts with loops, missing
  and double providers, services whose start or stop fails or that are refused,
  one or two file systems, a resume device and a user.
* `runtime`: `MaxId` 3 mounts of two kinds with one move, pages of one mount,
  two queued notifications and one kill; `MAX_TRIES` 3 instead of 100, so that
  tries run out; replies that come whole and in pieces; every set of halt's
  options under every name; two arrays with one or two members and delays 0 and
  2; pipelines of up to four steps with faults and kills, one unpausing and two
  starts.

The theorems hold for all values of these constants.

## Fairness

`FairSpec` asks for weak fairness of the daemon (one thread that never blocks
except in `epoll_wait`), of each worker, of `HandlerExit` (a handler that never
ends blocks its own queue by design) and of the clock.  No client, no finishing
of an event and no fault is fair.  In `Rootdelay` each script goes on once it has
begun, paused commands end, the cmdline service runs and the clock advances;
nobody has to begin a pause or a reset, to give up or to leave the shell.
In `build` the program that runs goes on, which is what a process does; in
`Boot` the resume check ends too, as the code that calls it always does, and the
surroundings do what they are there for: other handlers mount what fstab names
in the end (the case that they do not is the wait that `Rootdelay` limits).  In
`runtime` each program goes on, nfsmount's servers and its dummy portmapper
answer what reaches them, time passes and ueventd runs timers and handlers (the
runs `timers` and `liveness` show that it does).  Nobody has to mount or unmount
anything, no datagram has to arrive, no member has to appear, no pause is
lifted.
`UeventQueue` asks for strong fairness of
collecting, because serving a queue disables it again and again.

## Proofs

The proofs about `Ueventd` are for any set of queues, events and workers and for
any bounds; they assume `ConstantsAssumption` only, which TLC evaluates in each
of its runs, and what is said below about `Env`.

**Whole specification**, with removals, faults, overflow and restarts.
`Invariance` is `Spec => []Inv`.

* `TypeOK` alone is not inductive: a step that takes a dirty element lowers
  `dirty_queues`, which stays a natural number only because of the guard of
  the loop, and elements must belong to allocated descriptors.  `WorkerInv`
  adds what `OneWorkerPerWatch` needs: a descriptor that has been allocated and
  not yet linked belongs to no worker (`FreshWatch`), since descriptors are never
  reused by one daemon.  `TypeCorrect` and `WorkerUnique` follow.
* `DirtyCounted`, `Cardinality(dirty) <= dirty_queues`: marking adds one to
  both or to neither, taking removes one from both, and `unwatch_path` only
  removes flags.  It excludes the `BUG: dirty_queues == 0` exit.
  `DirtyQueuesCounted` follows.
* `NotBeforeDue`: no delayed event is moved early.  Between the reading of
  `timers/` and the rename other steps come in, so `DueInv` says that the clock
  value the daemon holds is not ahead of the clock and that what it has selected
  was due then and can only have been moved or withdrawn since.

**Unless a notification is lost** (`NoOverflow`), `PausesKept`: while
the daemon sleeps with nothing to read, a queue is paused only if an entry asks for
it, and `.all` pauses every queue.  The other direction for a single entry does not
hold (run `pauses`).  The invariant `PauseInv` says that this is so or a
notification is on its way; `ControlInv` says where each local
variable of the daemon is in use and that the roots were scanned before the loop.

**While no queue is removed and the daemon is not stopped** (`NoRemoval`),
`KeptInvariance`: `Spec => []KeptInv`.  Watches only accumulate, every directory
has one watch at most (`WatchesUnique`, which rests on `IN_MASK_CREATE`), scans
meet existing directories (`ScansExist`), and each worker's element outlives it
and carries its queue (`WorkersOwned`).  From it:

* `NeverFatal` (the daemon never ends by `rd_fatal`) and `SingleHandler` (one
  handler per queue).  `SingleHandler` fails without the assumption; the run
  `handlers` is the counterexample.
* `TimerKept`, with `NoOverflow`: `TimerArmed`.  `ClockInv` adds to `KeptInv` that
  each timer directory has a watch or somebody is about to find it (`Found`),
  that delayed events are in existing directories (`TimersFiled`), and that each
  of them is covered at every point of the loop (`AllArmed`): by the timerfd, by
  a notification, by `timer_changed`, or by the round of `update_timerfd` that has
  not yet come to it.
* `WakeupsKept`: `NoLostWakeup` if besides pausing the surroundings do nothing
  unusual (`Undisturbed`, `Env \subseteq {"pause"}`).  `WakeInv` gives
  every event somebody who will look at it.  For one in `queues/`
  (`ReadyNoticed`): a dirty element, a notification, a watch not yet added, or a
  worker that has not yet read the directory or has the file in its list.  For
  one in `events/` (`LeftAttended`): a worker, the retry pipe, or
  a dirty element.  The assumption is needed: TLC
  finds lost wakeups when one of the others is allowed.  A worker that meets a
  withdrawn event (`done`) or an `events/` directory that somebody else made
  (`create`) ends without writing to the pipe; a failed fork (`forkfail`) has
  taken the dirty flag already; a dropped notification (`overflow`) is not
  repeated.  In each case the event waits until the next one for its queue.
* `KeepsPromise`, when also no event is withdrawn (`NoWithdrawal`):
  `Spec => ImplementsQueue`.  The initial states map to initial ones
  and every step to a step of `UeventQueue` or to a stutter, with `TodoOwned` (a
  worker's list belongs to its queue) and `OneWorkerPerQueue` as the facts that
  keep filters out of a batch.

`BootProofs`, for `Pipeline`: `PipeCallsOneByOne`, `PipePassesResults` and
`PipeFailuresBounded` (`PipeOneByOne`, `PipeResults`, `PipeRetries`) for pipelines
of every length, any number of faults, kills, starts and unpausings, and any
outcome of a step.  `CountInv` is the number of events for steps; it needs
`QueueInv`, that what was served is still in the queue and is not looked at again
in its batch.  `ProperInv`: every event names the result of the last existing step
before it, and all of them have one, left-behind events included.  `OnceInv`: while
nothing was left behind a step that mounts is ready as soon as it has succeeded,
which is why the handler's test of the mount point suffices when a step is run
again.  `RetryInv`: the counter of a step exceeds what is allowed, by one, only
while the queue is paused.

For `MemberTimeout`: `DegradedStartWaits` (`MemberWaits`) for any number of arrays
and members and any delay.  `MemberInv`: there is at most one timer, none between
a cancellation and the next one, and the seconds it has to go and those that were
quiet make up the delay.

For `Halt`: `StopsInOrder` (`HaltInOrder`) and `StayingIsHarmless`
(`HaltHarmless`), for any lists of interfaces and disks, any `MAX_IFS`, all options
and any answer of the kernel.  `HaltInv` follows the two loops: in the first pass of
`ifdown()` only shapers go and those before the current index are down
(`IfdownInv`), the disks before the current one are flushed unless one of them
stopped the walk (`DisksInv`), sync() came before all of it (`NetInv`), and each
stage of main() keeps what the later ones have not touched (`HaltedInv`).

`ToolProofs`, for `Scanmod`: `ScanPrintsOnce` (`ScanOnce`) for any number of
threads, modules and rules.  A count of 1 for each module is not inductive;
`ScanInv` adds that the path of a thread that matches lies before `current`, is
no other thread's and has not been printed.

For `InitrdExtract`: `ExtractRoundTrip` (`ExtractReadable`) for every image whose
lengths are numbers.  The arithmetic is in the first lemmas: the reader pads a
name by its own length and the writer by the offset it has reached (`NamePad`),
the two agree at multiples of four, and the writer always leaves one
(`WriteAligned`); `RoundTrip` puts them together for one entry.  The invariant
says that the output so far is a chain of such entries and that everything the
reader holds has lengths that are numbers; the reader's steps keep the second
half, the writer's the first.

For `Nfsmount`: `HandleComplete` (`NfsHandle`) and `NothingLeftBehind`
(`NfsCleanedUp`), for any number of tries.  `NfsInv` says that the call at work is
the one `nfs_mount()` waits for (`CallInv`), that the room left for the good reply
holds a whole handle or not even a status while nothing of a length in between has
come (`HandleInv`), that an answer to UMNT exists only after the server has removed
the entry (`KnowInv`), and, over TCP with a server that is up and whole replies,
exactly which message is under way at each point (`ServerInv`).

For `Rootdelay`, with `NoResets` (no handler resets or gives up, no resume device):
`Spec => []GrantInv` for any number of pausers, any period and any number of
kills.  `NotShortened` is not inductive: between the reading of the deadline and the
removal of `pause.time` it depends on what a script has in its local variables.
`LockInv` says that such a script holds the lock alone; `CountInv` that what it has
read is still in the files; `PauseInv` that a stamp is written in the second in
which it was found missing, so the second of two stamps changes nothing;
`DecideInv` that the daemon's reading stays good until it decides.
`PausesGivenBack`, `PausesCountedOnce` and `ExpiryNotEarly` follow.  With a handler
that writes the deadline without the lock `CountInv` is lost; the run `giveup`
shows the effect.

Only model-checked:

* Liveness (`ReadyServed`, `LeftoverRetried`, `TimerFires`, `PauseSettled`,
  `ExpiryComes`, `ToolTerminates`, `RuntimeSettles`, and the fairness in
  `ImplementsFairQueue`), which is outside what TLAPS can prove here.
* What a recursive definition or a closure computes for every input:
  `PutClosure`, `DepOutput`, `BootInOrder`, `ExtractFaithful`.  They
  compare the code with a definition on the instances; for every input they need
  induction over data, which the installed provers do not do.
* `PutInstalled`, `PutNoFalseFailure`, `ScanExact` and `MountFollowed`, and the
  type invariants `BuildTypeOK` and `RuntimeTypeOK` of the programs together: no
  proof has been attempted beyond what the theorems above need.
* `Rootdelay` with resets, `OneHandlerPerQueue` in the runs with removals, and
  `PauseHonoured`, which does not hold.

## Where code and documentation differ

* `Documentation/UeventDetails.md:32` says "The daemon never starts two
  handlers for the same queue at the same time."  When a queue is removed while
  its handler runs, `unwatch_path` frees the element together with `q_pid`; a
  queue of the same name then gets a new element and a second handler
  (run `handlers`).
* `ueventctl:25` says of `--pause`: "pause the execution of the queue."
  `watch_path` gives a new element `F_PAUSED` only for `pause/.all`, and nothing
  applies the pauses again, so an entry older than the queue's directory is
  ignored until the pause directory changes (run `pauses`).
* The test `testing/tests/ts0047-rootdelay-pause/run:88` says "Deadline 0 is
  preserved" by a pause.  It is when the 0 is there before the pause is
  counted; `sysinit_found` does not take `pause.lock`, so a 0 written between
  the read and the write of `_rootdelay_finalize_pause` is lost (run `giveup`).

The models follow the code in the following places as well; the properties are
stated so that they do not cover them, and say where.

* initrd-put: `elf_cache` also remembers what ldd found through the RUNPATH of a
  library (`enqueue-library.c:339`), and gives it to a binary for which ldd
  would find another file of that name (`OneAnswer`).  `link()` fails for good
  where other files are retried (`initrd-put.c:785`, `LateLink`).  A file that
  is shorter than its size when it is copied is counted as installed, with a
  hole at its end (`Pieces`).  mkdir() takes `EEXIST` for success, also when
  what exists is no directory; a directory is dropped from the queue when the
  destination has a file in its place, and what belongs below such a file ends
  the program (`ENOTDIR`).  Between access() and creat() a link may come into
  being, through which a file that the destination had is overwritten.  A device
  is made with `st_dev` of the file that names it (`initrd-put.c:554`).  Of two
  sources with one destination either content may stay.
* initrd-scanmod: when no thread can be started nothing is printed and the exit
  status is 0 (`initrd-scanmod-walk.c:478`).
* kmod-depinfo: a bad entry of `modules.builtin.modinfo` is reported as
  "(ignored)" and drops all builtin modules (`kmod-depinfo.c:252`).
* Archives: a bzip2 stream whose unpacked size is a multiple of 16384 is
  rejected; data behind a zstd frame that is no frame, or a frame before the last
  that reaches beyond the first read, may keep the loop of `unzstd()` running for
  ever (`ExtractEndless`);
  a header whose name length exceeds the name is not readable after extraction.
* ueventd-mounts: an overflow of the notification queue, and a change between
  reading `/proc/self/mounts` and opening it for poll(), go unnoticed until the
  next change; a temporary file left by a killed daemon ends every later one at
  its first event (`ueventd-mounts.c:101`).
* nfsmount: the fallback to `MOUNT_PORT` is overwritten (`mount.c:88`); over TCP
  there is no timeout, and one read() has to bring the whole reply
  (`sunrpc.c:24`): a shorter one is an error after which MNT is not taken back, or,
  if the status has come, a file handle of which a part is what the buffer held
  before; over UDP a `PROG_MISMATCH` shortens what later tries may read in the same
  way; what the dummy portmapper has buffered for its file is
  lost at SIGTERM, while `README.locking` says that it "records any transactions
  it gets to a file".
* halt: `halt.c:4` says "If called as reboot, it will reboot the system."; with
  a slash in its name (`/sbin/reboot`) the comparison fails and it halts
  (`halt.c:164`).  An attribute that cannot be read ends the walk over the disks.
  `ifdown()` takes shapers down first and gives as its reason a warning of the
  driver that, as quoted (`ifdown.c:33-35`), asks for the opposite order;
  `HaltShapers` is the order the code announces.  Interfaces beyond the first 64
  stay up.
* Member timeouts: a timeout event that reaches the queue while a batch of
  members is handled starts the degraded array at once, although
  `mdadm/README.md` speaks of seconds after the last member.
* Pipeline: an event that was served stays when rm fails or the handler is killed
  before it, and its step is called again beside the next one, although the
  feature "calls the pipe elements one by one"; a step that mounts and then fails
  has its result taken for good at the next call;
  steps with the same number of earlier calls share one counter of failures; a
  failure between the mount of the tmpfs and the first event, or of the event that
  replaces a missing step's, loses the pipeline.
* Boot: a service that requires one that is not stopped in the same level makes
  sort-services fail ("unknown dependence"); X-Start-Before has no counterpart
  for stopping; rc starts what depends on a service that failed to start, and
  stops what a service needs although that service's own stop failed.

## Abstractions

* Event files have unique names and no content; `.tmp` files are not events.
* `IN_DELETE_SELF` is queued at rmdir.  The kernel delays it while a worker
  holds the directory open; a later arrival is one of the modelled orders.
* `rm -rf` of one directory with its files is one step; a readdir loop sees the
  entries present when it starts.
* `WorkerOpen` opens both directories and reads the source in one step when
  `events/q` exists.  `EnsureQueueDir` makes the directory and adds the watch in
  one step.
* `PR_SET_PDEATHSIG` takes effect at the fork.
* The retry pipe is a set: reading a descriptor twice in a row is the same as
  reading it once.
* `Dispatch` may take the ready descriptors in any order; `epoll_wait` returns
  them in the order they became ready.
* In `Rootdelay` the clock advances only while every script is at a place where
  it may stay (a command, a sleep, a lock of the console): the steps in
  between take less than the second that `current_seconds` resolves.  A script
  delayed by a second between reading the clock and writing a file can be off
  by that second.
* `write_atomic` and `rm` are one step each; a killed pauser loses its locks at
  once, and its command is not counted any longer.  Whether a waiting message
  is due (`QUIET`, every 15 seconds) is left open.  `reboot -f` under `panic=0`
  and what the user does in the shell are left out.
* A pattern of initrd-scanmod is the set of strings it matches; a module is what
  libkmod says of it; ldd's output, a shebang and the dlopen notes are part of a
  file.  A file's content is the inode it came from, chunk by chunk.
* An image is, per stream, its size and what begins at which offset; a
  decompressor succeeds, fails or does not end, and its output is a stream.
* A call of nfsmount is named by its procedure, since each has its own xid.
  Ports and file handles are names; lengths of replies count words, with a handle
  of two.  The clock of `MemberTimeout` counts seconds
  to go.
* A service of `Boot` is its header, whether it leaves a lock file, whether its
  start or its stop fails and whether the user is asked.  `Boot` has ueventd
  only as what starts the mount handler once an event waits, which `Ueventd`
  justifies.
* Errors that need a broken system (no memory, `epoll_ctl` failing) are not
  modelled.

`NoLostWakeup` is stated for instances without `create`, `done`, `forkfail`,
`remove` and `overflow`: with them the code does leave files behind until the
next event of the queue.  The hazards of `PROJECT.json` say where.

## What is not modelled

Log messages, listings and `ueventctl`'s status output; the parsing of options,
of the kernel command line, of rules and of headers; the compressed formats; the
programs of a pipeline's steps; kickstart's disk operations; resume, environ,
sysexec, chrooted, runas and timestamp, which are a few system calls in a row;
udev-rules, a generated parser with one pass over its result; the make rules,
guess and the remaining features, which copy files.  They have no state that
outlives a call, or their results are those of the calls they make.
`PROJECT.json` lists each part with its reason.
