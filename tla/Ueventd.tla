------------------------------ MODULE Ueventd ------------------------------
(***************************************************************************)
(* The queue daemon of the initramfs, ueventd, with the processes around   *)
(* it: the kernel's inotify, signalfd, timerfd and pipe, the worker it     *)
(* forks for a queue and the handler that worker runs, and the clients     *)
(* (filters, ueventctl, services) that create directories and publish      *)
(* event files.                                                            *)
(*                                                                         *)
(* A queue is three directories: queues/q ("queue"), events/q ("events")   *)
(* and timers/q ("timer").  A directory instance has a generation, which   *)
(* stands for its inode number: mkdir after rmdir is a new generation.     *)
(* An event is a file with a unique name; loc says which directory holds   *)
(* it.                                                                     *)
(***************************************************************************)
EXTENDS Integers, Sequences, FiniteSets

CONSTANTS
    Queue,        \* queue names
    Event,        \* event files that may be published
    QueueOf,      \* the queue an event belongs to
    All,          \* the pause entry ".all"
    NoEvent,      \* "no event is being moved"
    Pid,          \* process ids of workers
    NoPid,        \* q_pid = 0
    Dues,         \* due times clients may give to a delayed event
    Env,          \* what the environment may do, a subset of EnvOps
    MaxGen,       \* bound: instances of one directory
    MaxWd,        \* bound: inotify watch descriptors of one daemon run
    MaxInotify,   \* bound: fs.inotify.max_queued_events
    MaxTime,      \* bound: CLOCK_BOOTTIME
    MaxFaults     \* bound: failing forks and daemon stops

EnvOps == {"create", "remove", "pause", "done", "forkfail", "stop",
           "overflow"}

ASSUME ConstantsAssumption ==
    /\ Queue # {} /\ QueueOf \in [Event -> Queue]
    /\ All \notin Queue
    /\ NoEvent \notin Event
    /\ NoPid \notin Pid
    /\ Dues \subseteq Nat
    /\ Env \subseteq EnvOps
    /\ MaxGen \in Nat /\ MaxWd \in Nat /\ MaxInotify \in Nat
    /\ MaxTime \in Nat /\ MaxFaults \in Nat

Kind == {"queue", "events", "timer"}
Wd == 1 .. MaxWd
Fd == {"inotify", "signal", "pipe", "timer"}
Loc == {"none", "timer", "ready", "events", "done", "removed"}
WatchKind == {"queue", "timer"}

VARIABLES
    \* the file system
    dir,           \* generation of each directory, 0 when it does not exist
    gens,          \* generations used so far
    loc,           \* where each event file is
    due,           \* the due time in the name of a delayed event
    pause,         \* entries of confdb/queue/pause
    rmpc,          \* progress of "ueventctl queue --remove"
    now,           \* CLOCK_BOOTTIME
    \* the kernel objects of the daemon
    inotify,       \* queued notifications
    wds,           \* the directory each watch descriptor was added for
    kwatch,        \* watch descriptors still attached to a directory
    pipe,          \* watch descriptors written by workers
    sigchld,       \* SIGCHLD is pending
    tfd,           \* expiry of the timerfd, 0 when disarmed
    \* the daemon's data
    watch_list,    \* F_QUEUE_DIR and F_TIMER_DIR elements, by q_watchfd
    dirty,         \* elements with F_DIRTY
    paused,        \* elements with F_PAUSED
    q_pid,         \* worker of each element
    pause_all, dirty_queues, timer_changed,
    \* the daemon's control state
    pc, booted, todo, scan, skind, pend, tscan, duetodo, cur, tnow, tnext,
    \* the workers
    wpc,           \* control state of each worker
    wq, wwd,       \* its copy of the watch element: q_name and q_watchfd
    wsrc, wdst,    \* the directory instances it opened
    wtodo,         \* entries it still has to move
    faults         \* failing forks and stops so far

dirVars == <<dir, gens>>
clientVars == <<due, pause, rmpc, now>>
fsVars == <<dirVars, loc, clientVars>>
attachVars == <<wds, kwatch>>
wakeVars == <<pipe, sigchld, tfd>>
kernelVars == <<inotify, attachVars, wakeVars>>
dirtyVars == <<dirty, dirty_queues>>
pauseVars == <<paused, pause_all>>
watchVars == <<watch_list, dirtyVars, pauseVars, q_pid, timer_changed>>
updateVars == <<tscan, duetodo, cur, tnow, tnext>>
localVars == <<booted, todo, scan, skind, pend, updateVars>>
daemonVars == <<watchVars, pc, localVars>>
jobVars == <<wsrc, wdst, wtodo>>
workerVars == <<wpc, wq, wwd, jobVars>>
vars == <<fsVars, kernelVars, daemonVars, workerVars, faults>>

----------------------------------------------------------------------------
(* Directories, notifications and watch elements                           *)

Existing(k) == {q \in Queue : dir[k][q] # 0}
Files(l, q) == {e \in Event : loc[e] = l /\ QueueOf[e] = q}

\* The root and pause watches are in place once main() has added them.
RootWatched == pc \notin {"dead", "start"}

Ev(mask, w) == [mask |-> mask, wd |-> w]

\* The kernel queues a notification, merging it with an equal last one, and
\* drops it when the queue is full.
Notify(s, ev) ==
    IF \/ s # <<>> /\ s[Len(s)] = ev
       \/ "overflow" \in Env /\ Len(s) >= MaxInotify
    THEN s ELSE Append(s, ev)

\* Unless overflow is part of the instance, clients wait for the daemon when
\* the queue is full.
Room == "overflow" \in Env \/ Len(inotify) < MaxInotify

\* Attached watch descriptors of the present instance of a directory.
WatchOf(k, q) ==
    {w \in kwatch : wds[w].kind = k /\ wds[w].queue = q
                      /\ wds[w].gen = dir[k][q]}

NotifyDir(s, k, q, mask) ==
    IF WatchOf(k, q) = {} THEN s
    ELSE Notify(s, Ev(mask, CHOOSE w \in WatchOf(k, q) : TRUE))

NotifyRoot(s, mask) == IF RootWatched THEN Notify(s, Ev(mask, 0)) ELSE s

\* watch_list is a linked list with the newest element first, so a search
\* finds the newest of the elements W that match.
FoundFirst(w, W) == w \in W /\ \A v \in W : v <= w

QueueWatches(q) ==
    {w \in watch_list : wds[w].kind = "queue" /\ wds[w].queue = q}

\* Mutant: the flag is set, the counter forgotten.
MarkDirtyUncounted(w) ==
    dirty' = dirty \cup {w} /\ UNCHANGED dirty_queues

\* mark_queue_dirty
MarkDirty(w) ==
    /\ dirty' = dirty \cup {w}
    /\ dirty_queues' = IF w \in dirty THEN dirty_queues ELSE dirty_queues + 1

\* What the daemon loses when it ends.  PR_SET_PDEATHSIG kills the workers;
\* a handler already running goes on without its worker.
Die ==
    /\ pc' = "dead"
    /\ inotify' = <<>> /\ wds' = <<>> /\ kwatch' = {} /\ pipe' = {}
    /\ sigchld' = FALSE /\ tfd' = 0
    /\ watch_list' = {} /\ dirty' = {} /\ paused' = {}
    /\ q_pid' = [w \in Wd |-> NoPid]
    /\ pause_all' = FALSE /\ dirty_queues' = 0 /\ timer_changed' = FALSE
    /\ booted' = FALSE /\ todo' = {} /\ scan' = {} /\ skind' = "queue"
    /\ pend' = 0 /\ tscan' = {} /\ duetodo' = {} /\ cur' = NoEvent
    /\ tnow' = 0 /\ tnext' = 0
    /\ wpc' = [p \in Pid |-> IF wpc[p] \in {"handler", "orphan"}
                             THEN "orphan" ELSE "none"]
    /\ wsrc' = [p \in Pid |-> 0] /\ wdst' = [p \in Pid |-> 0]
    /\ wtodo' = [p \in Pid |-> {}]
    /\ UNCHANGED <<fsVars, wq, wwd>>

Init ==
    /\ dir = [k \in Kind |-> [q \in Queue |-> 0]]
    /\ gens = [k \in Kind |-> [q \in Queue |-> 0]]
    /\ loc = [e \in Event |-> "none"]
    /\ due = [e \in Event |-> 0]
    /\ pause = {}
    /\ rmpc = [q \in Queue |-> "idle"]
    /\ now = 0
    /\ inotify = <<>> /\ wds = <<>> /\ kwatch = {} /\ pipe = {}
    /\ sigchld = FALSE /\ tfd = 0
    /\ watch_list = {} /\ dirty = {} /\ paused = {}
    /\ q_pid = [w \in Wd |-> NoPid]
    /\ pause_all = FALSE /\ dirty_queues = 0 /\ timer_changed = FALSE
    /\ pc = "start" /\ booted = FALSE /\ todo = {} /\ scan = {}
    /\ skind = "queue" /\ pend = 0 /\ tscan = {} /\ duetodo = {}
    /\ cur = NoEvent /\ tnow = 0 /\ tnext = 0
    /\ wpc = [p \in Pid |-> "none"]
    /\ wq = [p \in Pid |-> CHOOSE q \in Queue : TRUE] /\ wwd = [p \in Pid |-> 0]
    /\ wsrc = [p \in Pid |-> 0] /\ wdst = [p \in Pid |-> 0]
    /\ wtodo = [p \in Pid |-> {}]
    /\ faults = 0

----------------------------------------------------------------------------
(* Clients: filters, handlers, services and ueventctl                      *)

\* mkdir -p of a queue's directories.  queues/q is made before the others;
\* timers/q is made for delayed events, events/q by ueventctl queue --create.
MkDir(k, q) ==
    /\ dir[k][q] = 0 /\ gens[k][q] < MaxGen /\ Room
    /\ k # "queue" => gens["queue"][q] > 0
    /\ k = "timer" => Dues # {}
    /\ k = "events" => "create" \in Env
    /\ gens' = [gens EXCEPT ![k][q] = @ + 1]
    /\ dir' = [dir EXCEPT ![k][q] = gens[k][q] + 1]
    /\ inotify' = CASE k = "queue" -> NotifyRoot(inotify, "create_queue")
                    [] k = "timer" -> NotifyRoot(inotify, "create_timer")
                    [] k = "events" -> inotify
    /\ UNCHANGED <<loc, clientVars, attachVars, wakeVars, daemonVars,
                   workerVars, faults>>

\* make_event, release_event: the file is renamed out of queues/q/.tmp.
Publish(e) ==
    /\ loc[e] = "none" /\ dir["queue"][QueueOf[e]] # 0 /\ Room
    /\ loc' = [loc EXCEPT ![e] = "ready"]
    /\ inotify' = NotifyDir(inotify, "queue", QueueOf[e], "modify")
    /\ UNCHANGED <<dirVars, clientVars, attachVars, wakeVars, daemonVars,
                   workerVars, faults>>

\* make_timer_event, release_event_at
PublishTimer(e, d) ==
    /\ loc[e] = "none" /\ dir["timer"][QueueOf[e]] # 0 /\ Room
    /\ loc' = [loc EXCEPT ![e] = "timer"]
    /\ due' = [due EXCEPT ![e] = d]
    /\ inotify' = NotifyDir(inotify, "timer", QueueOf[e], "modify")
    /\ UNCHANGED <<dirVars, pause, rmpc, now, attachVars, wakeVars, daemonVars,
                   workerVars, faults>>

\* ueventctl done-event, queue_cancel_events: the file is deleted.
DoneEvent(e) ==
    /\ "done" \in Env
    /\ loc[e] \in {"timer", "ready", "events"}
    /\ loc' = [loc EXCEPT ![e] = "removed"]
    /\ UNCHANGED <<dirVars, clientVars, kernelVars, daemonVars, workerVars,
                   faults>>

\* mkdir and rm of an entry of the pause directory (ueventctl queue --pause
\* and --unpause, kickstart, pipeline); x is a queue or All.
PauseQueue(x) ==
    /\ "pause" \in Env /\ Room
    /\ pause' = IF x \in pause THEN pause \ {x} ELSE pause \cup {x}
    /\ inotify' = NotifyRoot(inotify, "pause")
    /\ UNCHANGED <<dirVars, loc, due, rmpc, now, attachVars, wakeVars,
                   daemonVars, workerVars, faults>>

\* ueventctl queue --remove: one rm -rf of pause/q, queues/q, events/q and
\* timers/q, in this order.
RemoveQueue(q) ==
    /\ "remove" \in Env /\ Room
    /\ rmpc[q] = "idle" /\ dir["queue"][q] # 0
    /\ rmpc' = [rmpc EXCEPT ![q] = "queue"]
    /\ pause' = pause \ {q}
    /\ inotify' = IF q \in pause THEN NotifyRoot(inotify, "pause") ELSE inotify
    /\ UNCHANGED <<dirVars, loc, due, now, attachVars, wakeVars, daemonVars,
                   workerVars, faults>>

AfterRm == [queue |-> "events", events |-> "timer", timer |-> "idle"]
HeldIn == [queue |-> "ready", events |-> "events", timer |-> "timer"]

RemoveDir(q) ==
    LET k == rmpc[q] IN
    /\ k # "idle" /\ Room
    /\ rmpc' = [rmpc EXCEPT ![q] = AfterRm[k]]
    /\ dir' = [dir EXCEPT ![k][q] = 0]
    /\ loc' = [e \in Event |-> IF loc[e] = HeldIn[k] /\ QueueOf[e] = q
                               THEN "removed" ELSE loc[e]]
    /\ inotify' = NotifyDir(inotify, k, q, "delete_self")
    /\ kwatch' = kwatch \ WatchOf(k, q)
    /\ UNCHANGED <<gens, due, pause, now, wds, wakeVars, daemonVars,
                   workerVars, faults>>

Tick ==
    /\ now < MaxTime
    /\ now' = now + 1
    /\ UNCHANGED <<dirVars, loc, due, pause, rmpc, kernelVars, daemonVars,
                   workerVars, faults>>

----------------------------------------------------------------------------
(* The daemon: watching directories                                        *)

\* A step that only moves the daemon's control.
Goto(from, to) ==
    /\ pc = from /\ pc' = to
    /\ UNCHANGED <<fsVars, kernelVars, watchVars, localVars, workerVars, faults>>

\* main(): the descriptors and the watches on the pause directory and on
\* both roots.
Start == Goto("start", "rootwatch")

\* opendir of the root in watch_queues and watch_timer_queues.
BeginScan(k) ==
    /\ pc' = "scan" /\ skind' = k /\ scan' = Existing(k)
    /\ UNCHANGED <<booted, todo, pend, updateVars>>

FirstScan ==
    /\ pc = "rootwatch"
    /\ BeginScan("queue")
    /\ UNCHANGED <<fsVars, kernelVars, watchVars, workerVars, faults>>

\* add_queue_dir: a new watch descriptor for instance g of a directory.
AddQueueDir(k, q, g) ==
    /\ Len(wds) < MaxWd
    /\ wds' = Append(wds, [kind |-> k, queue |-> q, gen |-> g, ino |-> g])
    /\ kwatch' = kwatch \cup {Len(wds) + 1}
    /\ pend' = Len(wds) + 1
    /\ pc' = "link"

\* Mutant: without IN_MASK_CREATE the kernel returns the descriptor that the
\* directory already has.
ScanEntrySameWd(q) ==
    /\ pc = "scan" /\ q \in scan
    /\ dir[skind][q] # 0
    /\ scan' = scan \ {q}
    /\ IF WatchOf(skind, q) = {}
       THEN AddQueueDir(skind, q, dir[skind][q])
       ELSE /\ pend' \in WatchOf(skind, q) /\ pc' = "link"
            /\ UNCHANGED attachVars
    /\ UNCHANGED <<fsVars, inotify, wakeVars, watchVars, booted, todo, skind,
                   updateVars, workerVars, faults>>

\* watch_path in the loop over the root's entries, up to the stat().
ScanEntry(q) ==
    /\ pc = "scan" /\ q \in scan
    /\ dir[skind][q] # 0
    /\ scan' = scan \ {q}
    /\ IF WatchOf(skind, q) = {}
       THEN AddQueueDir(skind, q, dir[skind][q])
       ELSE UNCHANGED <<attachVars, pend, pc>>      \* EEXIST
    /\ UNCHANGED <<fsVars, inotify, wakeVars, watchVars, booted, todo, skind,
                   updateVars, workerVars, faults>>

\* Mutant: watch_path takes every directory for an empty one.
NotEmptyNever(l, q) == FALSE

\* !empty_directory
NotEmpty(l, q) == Files(l, q) # {}

\* A new element is paused if everything is; pause/q is not looked at.
PausedAtOnce(w) == IF pause_all THEN {w} ELSE {}

\* The rest of watch_path.  The path may name a newer instance than the one
\* the descriptor was added for; q_ino is what stat() found.
LinkWatch ==
    LET k == wds[pend].kind
        q == wds[pend].queue IN
    /\ pc = "link"
    /\ dir[k][q] # 0
    /\ wds' = [wds EXCEPT ![pend].ino = dir[k][q]]
    /\ watch_list' = watch_list \cup {pend}
    /\ IF k = "queue" /\ NotEmpty("ready", q)
       THEN MarkDirty(pend) ELSE UNCHANGED dirtyVars
    /\ timer_changed' = (timer_changed
                           \/ (k = "timer" /\ NotEmpty("timer", q)))
    /\ paused' = paused \cup PausedAtOnce(pend)
    /\ pend' = 0
    /\ pc' = IF cur = NoEvent THEN "scan" ELSE "move"
    /\ UNCHANGED <<fsVars, inotify, kwatch, wakeVars, q_pid, pause_all, booted,
                   todo, scan, skind, updateVars, workerVars, faults>>

\* main() scans both roots before it applies the pauses; later scans are
\* part of process_inotify_events.
ScanDone ==
    /\ pc = "scan" /\ scan = {}
    /\ IF ~booted /\ skind = "queue"
       THEN BeginScan("timer")
       ELSE /\ pc' = IF booted THEN "inotify" ELSE "applypause"
            /\ UNCHANGED localVars
    /\ UNCHANGED <<fsVars, kernelVars, watchVars, workerVars, faults>>

\* Mutant: F_PAUSED is not cleared first.
ApplyPauseNoReset ==
    /\ pause_all' = (All \in pause)
    /\ paused' = paused \cup
                   {w \in watch_list : wds[w].kind = "queue"
                      /\ (All \in pause \/ wds[w].queue \in pause)}

\* apply_pause
ApplyPause ==
    /\ pause_all' = (All \in pause)
    /\ paused' = {w \in watch_list : wds[w].kind = "queue"
                    /\ (All \in pause \/ wds[w].queue \in pause)}

FirstPause ==
    /\ pc = "applypause" /\ pc' = "timers"
    /\ ApplyPause
    /\ UNCHANGED <<fsVars, kernelVars, watch_list, dirtyVars, q_pid,
                   timer_changed, localVars, workerVars, faults>>

----------------------------------------------------------------------------
(* The daemon: one round of the main loop                                  *)

ReadyFds ==
    {f \in Fd : \/ f = "inotify" /\ inotify # <<>>
                \/ f = "signal" /\ sigchld
                \/ f = "pipe" /\ pipe # {}
                \/ f = "timer" /\ tfd # 0 /\ tfd <= now}

\* Mutant: epoll_wait without a timeout.
TimeoutNever == FALSE

\* The timeout of epoll_wait.
Timeout == dirty_queues # 0

EpollWait ==
    /\ pc = "wait" /\ pc' = "dispatch"
    /\ ReadyFds # {} \/ Timeout
    /\ todo' = ReadyFds
    /\ UNCHANGED <<fsVars, kernelVars, watchVars, booted, scan, skind, pend,
                   updateVars, workerVars, faults>>

\* The handlers of the ready descriptors are called in any order; those that
\* read until EAGAIN are loops of their own.
Dispatch(f) ==
    /\ f \in {"inotify", "pipe"}
    /\ pc = "dispatch" /\ f \in todo
    /\ todo' = todo \ {f}
    /\ pc' = f
    /\ UNCHANGED <<fsVars, kernelVars, watchVars, booted, scan, skind, pend,
                   updateVars, workerVars, faults>>

\* process_signal_events: waitpid until no child is left to reap.
ReapWorkers ==
    /\ pc = "dispatch" /\ "signal" \in todo
    /\ todo' = todo \ {"signal"}
    /\ sigchld' = FALSE
    /\ q_pid' = [w \in Wd |-> IF \E p \in Pid : q_pid[w] = p /\ wpc[p] = "zombie"
                              THEN NoPid ELSE q_pid[w]]
    /\ wpc' = [p \in Pid |-> IF wpc[p] = "zombie" THEN "none" ELSE wpc[p]]
    /\ UNCHANGED <<fsVars, inotify, attachVars, pipe, tfd, watch_list,
                   dirtyVars, pauseVars, timer_changed, pc, booted, scan,
                   skind, pend, updateVars, wq, wwd, jobVars, faults>>

\* Mutant: the expiry is read and forgotten.
ReadTimerUnnoticed ==
    /\ pc = "dispatch" /\ "timer" \in todo
    /\ todo' = todo \ {"timer"}
    /\ tfd' = 0
    /\ UNCHANGED <<fsVars, inotify, attachVars, pipe, sigchld, watchVars, pc,
                   booted, scan, skind, pend, updateVars, workerVars, faults>>

\* process_timerfd_events
ReadTimer ==
    /\ pc = "dispatch" /\ "timer" \in todo
    /\ todo' = todo \ {"timer"}
    /\ tfd' = 0
    /\ timer_changed' = TRUE
    /\ UNCHANGED <<fsVars, inotify, attachVars, pipe, sigchld, watch_list,
                   dirtyVars, pauseVars, q_pid, pc, booted, scan, skind, pend,
                   updateVars, workerVars, faults>>

\* process_inotify_events: a file appeared in a watched directory.
ReadModify ==
    LET w == Head(inotify).wd IN
    /\ pc = "inotify" /\ inotify # <<>> /\ Head(inotify).mask = "modify"
    /\ inotify' = Tail(inotify)
    /\ IF w \in watch_list /\ wds[w].kind = "queue"
       THEN MarkDirty(w) ELSE UNCHANGED dirtyVars
    /\ timer_changed' = (timer_changed
                           \/ (w \in watch_list /\ wds[w].kind = "timer"))
    /\ UNCHANGED <<fsVars, attachVars, wakeVars, watch_list, pauseVars, q_pid,
                   pc, localVars, workerVars, faults>>

\* Elements unwatch_path(q_ino) compares equal to w.
SameIno(w) ==
    {v \in watch_list : wds[v].kind = wds[w].kind
       /\ wds[v].queue = wds[w].queue /\ wds[v].ino = wds[w].ino}

\* unwatch_path frees element v, whatever its flags and its worker.  The
\* IN_IGNORED that follows finds element w only if v is another one.
UnwatchPath(w, v) ==
    LET redirty == v # w /\ wds[w].kind = "queue" IN
    /\ watch_list' = watch_list \ {v}
    /\ paused' = paused \ {v}
    /\ q_pid' = [q_pid EXCEPT ![v] = NoPid]
    /\ kwatch' = kwatch \ {v}
    /\ dirty' = (dirty \ {v}) \cup (IF redirty THEN {w} ELSE {})
    /\ dirty_queues' = IF redirty /\ w \notin dirty
                       THEN dirty_queues + 1 ELSE dirty_queues
    /\ timer_changed' = (timer_changed \/ (v # w /\ wds[w].kind = "timer"))

\* process_inotify_events: a watched directory was deleted.
ReadDeleteSelf ==
    LET w == Head(inotify).wd IN
    /\ pc = "inotify" /\ inotify # <<>> /\ Head(inotify).mask = "delete_self"
    /\ inotify' = Tail(inotify)
    /\ \/ /\ w \notin watch_list
          /\ UNCHANGED <<kwatch, watch_list, dirtyVars, paused, q_pid,
                         timer_changed>>
       \/ /\ w \in watch_list
          /\ \E v \in SameIno(w) : FoundFirst(v, SameIno(w)) /\ UnwatchPath(w, v)
    /\ UNCHANGED <<fsVars, wds, wakeVars, pause_all, pc, localVars, workerVars,
                   faults>>

\* process_inotify_events: a directory was created in one of the roots.
ReadCreate ==
    /\ pc = "inotify" /\ inotify # <<>>
    /\ \/ /\ Head(inotify).mask = "create_queue"
          /\ BeginScan("queue") /\ UNCHANGED timer_changed
       \/ /\ Head(inotify).mask = "create_timer"
          /\ BeginScan("timer") /\ timer_changed' = TRUE
    /\ inotify' = Tail(inotify)
    /\ UNCHANGED <<fsVars, attachVars, wakeVars, watch_list, dirtyVars,
                   pauseVars, q_pid, workerVars, faults>>

\* process_inotify_events: the pause directory changed.
ReadPause ==
    /\ pc = "inotify" /\ inotify # <<>> /\ Head(inotify).mask = "pause"
    /\ inotify' = Tail(inotify)
    /\ ApplyPause
    /\ UNCHANGED <<fsVars, attachVars, wakeVars, watch_list, dirtyVars, q_pid,
                   timer_changed, pc, localVars, workerVars, faults>>

InotifyDrained == inotify = <<>> /\ Goto("inotify", "dispatch")

\* process_pipefd_events: a worker left events behind.
ReadPipe(w) ==
    /\ pc = "pipe" /\ w \in pipe
    /\ pipe' = pipe \ {w}
    /\ IF w \in watch_list /\ wds[w].kind = "queue"
       THEN MarkDirty(w) ELSE UNCHANGED dirtyVars
    /\ UNCHANGED <<fsVars, inotify, attachVars, sigchld, tfd, watch_list,
                   pauseVars, q_pid, timer_changed, pc, localVars, workerVars,
                   faults>>

PipeDrained == pipe = {} /\ Goto("pipe", "dispatch")

Dispatched == todo = {} /\ Goto("dispatch", "timers")

----------------------------------------------------------------------------
(* The daemon: update_timerfd and starting workers                         *)

BeginUpdate ==
    /\ pc = "timers"
    /\ IF timer_changed \/ ~booted
       THEN /\ pc' = "update" /\ tscan' = Existing("timer") /\ tnow' = now
       ELSE /\ pc' = "spawn" /\ UNCHANGED <<tscan, tnow>>
    /\ UNCHANGED <<fsVars, kernelVars, watchVars, booted, todo, scan, skind,
                   pend, duetodo, cur, tnext, workerVars, faults>>

\* Mutant: the last due time read wins.
EarliestLastRead(d, S) == IF S = {} THEN d = 0 ELSE d \in S

\* d is the least element of a set of due times, 0 when there is none.
Earliest(d, S) == IF S = {} THEN d = 0 ELSE d \in S /\ \A x \in S : d <= x

\* Mutant: an event is moved a second early.
IsDueEarly(e) == due[e] # 0 /\ due[e] <= tnow + 1

\* A due time of 0 is a bad name.
IsDue(e) == due[e] # 0 /\ due[e] <= tnow

\* One directory of timers/: the due events are to be moved, the others
\* decide when the timer has to fire.
ReadTimerDir(q) ==
    LET later == {due[e] : e \in {f \in Files("timer", q) : due[f] > tnow}}
                   \cup ({tnext} \ {0}) IN
    /\ pc = "update" /\ duetodo = {} /\ q \in tscan /\ dir["timer"][q] # 0
    /\ tscan' = tscan \ {q}
    /\ duetodo' = {e \in Files("timer", q) : IsDue(e)}
    /\ \E d \in later \cup {0} : Earliest(d, later) /\ tnext' = d
    /\ UNCHANGED <<fsVars, kernelVars, watchVars, pc, booted, todo, scan,
                   skind, pend, cur, tnow, workerVars, faults>>

\* ensure_queue_dir, up to the stat() in watch_path.
EnsureQueueDir(e) ==
    LET q == QueueOf[e]
        missing == dir["queue"][q] = 0
        g == IF missing THEN gens["queue"][q] + 1 ELSE dir["queue"][q] IN
    /\ pc = "update" /\ e \in duetodo
    /\ g <= MaxGen
    /\ dir' = [dir EXCEPT !["queue"][q] = g]
    /\ gens' = [gens EXCEPT !["queue"][q] = IF missing THEN g ELSE @]
    /\ inotify' = IF missing THEN NotifyRoot(inotify, "create_queue") ELSE inotify
    /\ cur' = e
    /\ IF QueueWatches(q) # {} \/ WatchOf("queue", q) # {}
       THEN pc' = "move" /\ UNCHANGED <<attachVars, pend>>
       ELSE AddQueueDir("queue", q, g)
    /\ UNCHANGED <<loc, clientVars, wakeVars, watchVars, booted, todo, scan,
                   skind, tscan, duetodo, tnow, tnext, workerVars, faults>>

\* The rename in move_timer_event; ENOENT is not an error.
MoveTimerEvent ==
    LET q == QueueOf[cur] IN
    /\ pc = "move" /\ pc' = "update"
    /\ IF loc[cur] = "timer" /\ dir["queue"][q] # 0
       THEN /\ loc' = [loc EXCEPT ![cur] = "ready"]
            /\ inotify' = NotifyDir(inotify, "queue", q, "modify")
            /\ IF QueueWatches(q) = {}
               THEN UNCHANGED dirtyVars
               ELSE \E w \in QueueWatches(q) :
                      FoundFirst(w, QueueWatches(q)) /\ MarkDirty(w)
       ELSE UNCHANGED <<loc, inotify, dirtyVars>>
    /\ duetodo' = duetodo \ {cur}
    /\ cur' = NoEvent
    /\ UNCHANGED <<dirVars, clientVars, attachVars, wakeVars, watch_list,
                   pauseVars, q_pid, timer_changed, booted, todo, scan, skind,
                   pend, tscan, tnow, tnext, workerVars, faults>>

\* timerfd_settime, and on to the loop over the watch list; the update of
\* main() before the loop goes to epoll_wait.
EndUpdate ==
    /\ pc = "update" /\ duetodo = {} /\ tscan = {}
    /\ tfd' = tnext
    /\ timer_changed' = FALSE
    /\ tnow' = 0 /\ tnext' = 0
    /\ booted' = TRUE
    /\ pc' = IF booted THEN "spawn" ELSE "wait"
    /\ UNCHANGED <<fsVars, inotify, attachVars, pipe, sigchld, watch_list,
                   dirtyVars, pauseVars, q_pid, todo, scan, skind, pend, tscan,
                   duetodo, cur, workerVars, faults>>

\* Mutant: the loop does not look at q_pid.
EligibleBusy == dirty \ paused

\* The elements that the loop of main() does not skip.
Eligible == {w \in dirty \ paused : q_pid[w] = NoPid}

\* The loop of main() over the watch list takes element w.
TakeDirty(w) ==
    /\ pc = "spawn" /\ w \in Eligible /\ dirty_queues # 0
    /\ dirty_queues' = dirty_queues - 1
    /\ dirty' = dirty \ {w}

\* spawn_worker
Spawn(w, p) ==
    /\ TakeDirty(w)
    /\ wpc[p] = "none"
    /\ q_pid' = [q_pid EXCEPT ![w] = p]
    /\ wpc' = [wpc EXCEPT ![p] = "start"]
    /\ wq' = [wq EXCEPT ![p] = wds[w].queue]
    /\ wwd' = [wwd EXCEPT ![p] = w]
    /\ UNCHANGED <<fsVars, kernelVars, watch_list, pauseVars, timer_changed,
                   pc, localVars, jobVars, faults>>

\* fork() fails in spawn_worker, which then returns 0.
SpawnFails(w) ==
    /\ TakeDirty(w)
    /\ "forkfail" \in Env /\ faults < MaxFaults
    /\ faults' = faults + 1
    /\ UNCHANGED <<fsVars, kernelVars, watch_list, pauseVars, q_pid,
                   timer_changed, pc, localVars, workerVars>>

Spawned == Eligible = {} /\ Goto("spawn", "wait")

\* rd_fatal: watch_path or xopendir fails because the directory is gone, or
\* "BUG: dirty_queues == 0, but dirty queues are present".
Fatal ==
    /\ \/ pc = "scan" /\ \E q \in scan : dir[skind][q] = 0
       \/ pc = "link" /\ dir[wds[pend].kind][wds[pend].queue] = 0
       \/ pc = "update" /\ duetodo = {} /\ \E q \in tscan : dir["timer"][q] = 0
       \/ pc = "spawn" /\ Eligible # {} /\ dirty_queues = 0
    /\ Die /\ UNCHANGED faults

\* SIGTERM and the like: process_signal_events returns -1.
Stop ==
    /\ pc \in {"dispatch", "wait"}
    /\ "stop" \in Env /\ faults < MaxFaults
    /\ Die /\ faults' = faults + 1

\* The uevent service starts the daemon again.
Restart == "stop" \in Env /\ Goto("dead", "start")

----------------------------------------------------------------------------
(* A worker (process_events) and its handler (ueventd-queue)               *)

\* exit(): the worker is a zombie until the daemon reaps it.
WorkerExit(p) ==
    /\ wpc' = [wpc EXCEPT ![p] = "zombie"]
    /\ wsrc' = [wsrc EXCEPT ![p] = 0]
    /\ wdst' = [wdst EXCEPT ![p] = 0]
    /\ wtodo' = [wtodo EXCEPT ![p] = {}]
    /\ sigchld' = TRUE

\* readdir of the source directory, whose instance g is open.
Entries(q, g) == IF dir["queue"][q] = g THEN Files("ready", q) ELSE {}

\* move_files: open both directories.
WorkerOpen(p) ==
    LET q == wq[p] IN
    /\ wpc[p] = "start"
    /\ \/ /\ dir["queue"][q] = 0
          /\ WorkerExit(p)
       \/ /\ dir["queue"][q] # 0 /\ dir["events"][q] = 0
          /\ wpc' = [wpc EXCEPT ![p] = "mkdir"]
          /\ wsrc' = [wsrc EXCEPT ![p] = dir["queue"][q]]
          /\ UNCHANGED <<wdst, wtodo, sigchld>>
       \/ /\ dir["queue"][q] # 0 /\ dir["events"][q] # 0
          /\ wpc' = [wpc EXCEPT ![p] = "move"]
          /\ wsrc' = [wsrc EXCEPT ![p] = dir["queue"][q]]
          /\ wdst' = [wdst EXCEPT ![p] = dir["events"][q]]
          /\ wtodo' = [wtodo EXCEPT ![p] = Files("ready", q)]
          /\ UNCHANGED sigchld
    /\ UNCHANGED <<fsVars, inotify, attachVars, pipe, tfd, daemonVars, wq, wwd,
                   faults>>

\* move_files: events/q was missing; EEXIST from mkdir is fatal.
WorkerMkdir(p) ==
    LET q == wq[p]
        g == gens["events"][q] + 1 IN
    /\ wpc[p] = "mkdir"
    /\ \/ /\ dir["events"][q] # 0
          /\ WorkerExit(p)
          /\ UNCHANGED <<dir, gens>>
       \/ /\ dir["events"][q] = 0 /\ g <= MaxGen
          /\ dir' = [dir EXCEPT !["events"][q] = g]
          /\ gens' = [gens EXCEPT !["events"][q] = g]
          /\ wpc' = [wpc EXCEPT ![p] = "move"]
          /\ wdst' = [wdst EXCEPT ![p] = g]
          /\ wtodo' = [wtodo EXCEPT ![p] = Entries(q, wsrc[p])]
          /\ UNCHANGED <<wsrc, sigchld>>
    /\ UNCHANGED <<loc, clientVars, inotify, attachVars, pipe, tfd, daemonVars,
                   wq, wwd, faults>>

\* move_files: one renameat; a file or directory that is gone is fatal.
WorkerMove(p, e) ==
    /\ wpc[p] = "move" /\ e \in wtodo[p]
    /\ \/ /\ loc[e] = "ready" /\ dir["events"][wq[p]] = wdst[p]
          /\ loc' = [loc EXCEPT ![e] = "events"]
          /\ wtodo' = [wtodo EXCEPT ![p] = @ \ {e}]
          /\ UNCHANGED <<wpc, wsrc, wdst, sigchld>>
       \/ /\ loc[e] # "ready" \/ dir["events"][wq[p]] # wdst[p]
          /\ WorkerExit(p)
          /\ UNCHANGED loc
    /\ UNCHANGED <<dirVars, clientVars, inotify, attachVars, pipe, tfd,
                   daemonVars, wq, wwd, faults>>

\* process_events: nothing to do, or fork the handler.
WorkerCheck(p) ==
    LET q == wq[p] IN
    /\ wpc[p] = "move" /\ wtodo[p] = {}
    /\ IF dir["events"][q] = 0 \/ ~NotEmpty("events", q)
       THEN WorkerExit(p)
       ELSE /\ wpc' = [wpc EXCEPT ![p] = "handler"]
            /\ UNCHANGED <<wsrc, wdst, wtodo, sigchld>>
    /\ UNCHANGED <<fsVars, inotify, attachVars, pipe, tfd, daemonVars, wq, wwd,
                   faults>>

\* event_handler: fork() fails, and process_events goes on.
HandlerFails(p) ==
    /\ "forkfail" \in Env /\ faults < MaxFaults
    /\ wpc[p] = "move" /\ wtodo[p] = {}
    /\ dir["events"][wq[p]] # 0 /\ NotEmpty("events", wq[p])
    /\ faults' = faults + 1
    /\ wpc' = [wpc EXCEPT ![p] = "recheck"]
    /\ UNCHANGED <<fsVars, kernelVars, daemonVars, wq, wwd, jobVars>>

\* done_event in a handler
HandlerDone(p, e) ==
    /\ wpc[p] \in {"handler", "orphan"}
    /\ loc[e] = "events" /\ QueueOf[e] = wq[p]
    /\ loc' = [loc EXCEPT ![e] = "done"]
    /\ UNCHANGED <<dirVars, clientVars, kernelVars, daemonVars, workerVars,
                   faults>>

HandlerExit(p) ==
    /\ wpc[p] \in {"handler", "orphan"}
    /\ wpc' = [wpc EXCEPT ![p] = IF @ = "handler" THEN "recheck" ELSE "none"]
    /\ UNCHANGED <<fsVars, kernelVars, daemonVars, wq, wwd, jobVars, faults>>

\* Mutant: events left by the handler are not reported.
UnhandledIgnored(q) == FALSE

\* The handler left events behind.
Unhandled(q) == dir["events"][q] # 0 /\ NotEmpty("events", q)

\* process_events, after the handler.
WorkerRecheck(p) ==
    /\ wpc[p] = "recheck"
    /\ IF Unhandled(wq[p])
       THEN /\ wpc' = [wpc EXCEPT ![p] = "signal"]
            /\ UNCHANGED <<wsrc, wdst, wtodo, sigchld>>
       ELSE WorkerExit(p)
    /\ UNCHANGED <<fsVars, inotify, attachVars, pipe, tfd, daemonVars, wq, wwd,
                   faults>>

\* signal_unhandled_events
WorkerSignal(p) ==
    /\ wpc[p] = "signal"
    /\ pipe' = pipe \cup {wwd[p]}
    /\ wpc' = [wpc EXCEPT ![p] = "exit"]
    /\ UNCHANGED <<fsVars, inotify, attachVars, sigchld, tfd, daemonVars, wq,
                   wwd, jobVars, faults>>

\* The end of process_events.
WorkerQuit(p) ==
    /\ wpc[p] = "exit"
    /\ WorkerExit(p)
    /\ UNCHANGED <<fsVars, inotify, attachVars, pipe, tfd, daemonVars, wq, wwd,
                   faults>>

----------------------------------------------------------------------------
Client ==
    \/ \E k \in Kind, q \in Queue : MkDir(k, q)
    \/ \E e \in Event : Publish(e)
    \/ \E e \in Event, d \in Dues : PublishTimer(e, d)
    \/ \E e \in Event : DoneEvent(e)
    \/ \E x \in Queue \cup {All} : PauseQueue(x)
    \/ \E q \in Queue : RemoveQueue(q)
    \/ \E q \in Queue : RemoveDir(q)

Daemon ==
    \/ Start \/ FirstScan \/ ScanDone \/ LinkWatch \/ FirstPause
    \/ \E q \in Queue : ScanEntry(q)
    \/ EpollWait \/ Dispatched
    \/ \E f \in Fd : Dispatch(f)
    \/ ReapWorkers \/ ReadTimer
    \/ ReadModify \/ ReadDeleteSelf \/ ReadCreate \/ ReadPause
    \/ InotifyDrained
    \/ \E w \in Wd : ReadPipe(w)
    \/ PipeDrained
    \/ BeginUpdate \/ MoveTimerEvent \/ EndUpdate
    \/ \E q \in Queue : ReadTimerDir(q)
    \/ \E e \in Event : EnsureQueueDir(e)
    \/ \E w \in Wd, p \in Pid : Spawn(w, p)
    \/ \E w \in Wd : SpawnFails(w)
    \/ Spawned \/ Fatal

Worker(p) ==
    \/ WorkerOpen(p) \/ WorkerMkdir(p) \/ WorkerCheck(p)
    \/ WorkerRecheck(p) \/ WorkerSignal(p) \/ WorkerQuit(p)
    \/ \E e \in Event : WorkerMove(p, e)
    \/ HandlerFails(p)

Handler(p) == HandlerExit(p) \/ \E e \in Event : HandlerDone(p, e)

Next ==
    \/ Client \/ Daemon \/ Stop \/ Restart \/ Tick
    \/ \E p \in Pid : Worker(p) \/ Handler(p)

Spec == Init /\ [][Next]_vars

\* The daemon and its children keep running, every handler ends, and time
\* passes.  No client and no fault is fair.
Fairness ==
    /\ WF_vars(Daemon)
    /\ \A p \in Pid : WF_vars(Worker(p)) /\ WF_vars(HandlerExit(p))
    /\ WF_vars(Tick)

FairSpec == Spec /\ Fairness

----------------------------------------------------------------------------
(* Properties                                                              *)

WatchNode == [kind : WatchKind, queue : Queue, gen : 1 .. MaxGen,
              ino : 1 .. MaxGen]
InotifyEvent ==
    [mask : {"modify", "delete_self"}, wd : Wd]
      \cup [mask : {"create_queue", "create_timer", "pause"}, wd : {0}]
DaemonPc ==
    {"dead", "start", "rootwatch", "scan", "link", "applypause", "timers",
     "update", "move", "wait", "dispatch", "inotify", "pipe", "spawn"}
WorkerPc ==
    {"none", "start", "mkdir", "move", "handler", "recheck", "signal", "exit",
     "zombie", "orphan"}

FsType ==
    /\ dir \in [Kind -> [Queue -> 0 .. MaxGen]]
    /\ gens \in [Kind -> [Queue -> 0 .. MaxGen]]
    /\ loc \in [Event -> Loc]
    /\ due \in [Event -> Nat]
    /\ pause \subseteq Queue \cup {All}
    /\ rmpc \in [Queue -> Kind \cup {"idle"}]
    /\ now \in 0 .. MaxTime

KernelType ==
    /\ inotify \in Seq(InotifyEvent)
    /\ wds \in Seq(WatchNode) /\ Len(wds) <= MaxWd
    /\ kwatch \subseteq DOMAIN wds
    /\ pipe \subseteq DOMAIN wds
    /\ sigchld \in BOOLEAN
    /\ tfd \in Nat

WatchType ==
    /\ watch_list \subseteq DOMAIN wds
    /\ dirty \subseteq watch_list
    /\ paused \subseteq watch_list
    /\ q_pid \in [Wd -> Pid \cup {NoPid}]
    /\ pause_all \in BOOLEAN
    /\ dirty_queues \in Nat
    /\ timer_changed \in BOOLEAN

ControlType ==
    /\ pc \in DaemonPc /\ booted \in BOOLEAN /\ todo \subseteq Fd
    /\ scan \subseteq Queue /\ skind \in WatchKind
    /\ pend \in {0} \cup DOMAIN wds
    /\ tscan \subseteq Queue /\ duetodo \subseteq Event
    /\ cur \in Event \cup {NoEvent}
    /\ tnow \in Nat /\ tnext \in Nat
    /\ pc = "link" => pend # 0
    /\ pc = "move" => cur # NoEvent

WorkerType ==
    /\ wpc \in [Pid -> WorkerPc] /\ wq \in [Pid -> Queue]
    /\ wwd \in [Pid -> 0 .. MaxWd]
    /\ wsrc \in [Pid -> 0 .. MaxGen] /\ wdst \in [Pid -> 0 .. MaxGen]
    /\ wtodo \in [Pid -> SUBSET Event]
    /\ faults \in 0 .. MaxFaults

\* Every variable keeps its type, flags belong to elements of the watch
\* list, and every descriptor in use has been allocated.
TypeOK == FsType /\ KernelType /\ WatchType /\ ControlType /\ WorkerType

\* The counter dirty_queues never falls below the number of elements with
\* F_DIRTY, so the rd_fatal("BUG: ...") of main() cannot be reached.
DirtyCounted == Cardinality(dirty) <= dirty_queues

Children == {p \in Pid : wpc[p] \notin {"none", "orphan"}}

\* An element of the watch list never has two workers: as long as a worker
\* has not been reaped, q_pid of its element names it, and the loop of main()
\* leaves the element alone.
OneWorkerPerWatch ==
    \A p \in Children :
        wwd[p] \in watch_list => q_pid[wwd[p]] = p

\* A descriptor that watch_path has just been given belongs to no element
\* and to no worker yet; workers know allocated descriptors only.
FreshWatch ==
    /\ \A p \in Children : wwd[p] \in DOMAIN wds
    /\ pc = "link" => pend \notin watch_list
                        /\ \A p \in Children : wwd[p] # pend

\* The inductive invariant behind the theorems of UeventdProofs.
Inv == TypeOK /\ DirtyCounted /\ OneWorkerPerWatch /\ FreshWatch

Handling(q) == {p \in Pid : wpc[p] \in {"handler", "orphan"} /\ wq[p] = q}

\* At most one handler runs for a queue.
OneHandlerPerQueue == \A q \in Queue : Cardinality(Handling(q)) <= 1

\* The daemon does not end by itself: neither a directory that vanished under
\* a scan nor the counter of dirty queues makes it call rd_fatal.
DaemonSurvives == pc # "dead"

\* No client removes a queue and nobody stops the daemon.
NoRemoval == "remove" \notin Env /\ "stop" \notin Env

\* What NoRemoval adds to Inv.  Watches only accumulate and belong to the
\* present instance of their directory, so a directory has one at most.
WatchesUnique ==
    /\ kwatch = DOMAIN wds
    /\ \A w \in DOMAIN wds :
         wds[w].gen = dir[wds[w].kind][wds[w].queue] /\ wds[w].ino = wds[w].gen
    /\ \A v, w \in DOMAIN wds :
         wds[v].kind = wds[w].kind /\ wds[v].queue = wds[w].queue => v = w

\* No directory is reported as deleted, and scans meet existing ones only.
ScansExist ==
    /\ \A q \in Queue : rmpc[q] = "idle"
    /\ inotify \in Seq({ev \in InotifyEvent : ev.mask # "delete_self"})
    /\ scan \subseteq Existing(skind) /\ tscan \subseteq Existing("timer")

\* The element of a worker outlives it and no handler outlives its worker.
WorkersOwned ==
    /\ \A w \in dirty : wds[w].kind = "queue"
    /\ \A p \in Pid : wpc[p] # "orphan"
    /\ \A p \in Children :
         /\ wwd[p] \in watch_list
         /\ wds[wwd[p]].kind = "queue" /\ wds[wwd[p]].queue = wq[p]

\* What DirtyCounted means for spawn_worker: with a dirty element, there is
\* something to count down.
DirtySeen == dirty # {} => dirty_queues # 0

\* The inductive invariant while no queue is removed.
KeptInv == Inv /\ DirtySeen /\ WatchesUnique /\ ScansExist /\ WorkersOwned /\ DaemonSurvives

\* When the daemon sleeps in epoll_wait with nothing to read and no child is
\* left, every event that still waits in queues/ or events/ belongs to a
\* queue that is marked dirty, so that the next round or the end of the
\* pause starts a worker for it.  No wakeup is lost.
NoLostWakeup ==
    (pc = "wait" /\ ReadyFds = {} /\ Children = {})
      => \A e \in Event : loc[e] \in {"ready", "events"}
            => \E w \in dirty : wds[w].queue = QueueOf[e]

\* A delayed event with a valid due time is never forgotten: while the
\* daemon sleeps, the timerfd is set to fire no later than that time, or a
\* notification that makes the daemon look at timers/ again is queued.
TimerArmed ==
    pc = "wait" =>
      \A e \in Event : loc[e] = "timer" /\ due[e] # 0 =>
        \/ tfd # 0 /\ tfd <= due[e]
        \/ \E i \in DOMAIN inotify :
             \/ inotify[i].mask = "create_timer"
             \/ /\ inotify[i].mask = "modify"
                /\ inotify[i].wd \in watch_list
                /\ wds[inotify[i].wd].kind = "timer"

\* No delayed event reaches its queue before its due time.
NeverEarly ==
    [][\A e \in Event :
         loc[e] = "timer" /\ loc'[e] = "ready" => due[e] <= now]_vars

IsPaused(q) == q \in pause \/ All \in pause

\* Once the daemon has read all notifications, an element is paused only if
\* the pause directory says so: lifting a pause is never missed.
NoStalePause ==
    (pc = "wait" /\ inotify = <<>>) =>
      \A w \in paused : wds[w].kind = "queue" => IsPaused(wds[w].queue)

\* Once the daemon has read all notifications, pause/.all holds back every
\* queue, those included whose watch was added while it was there.
PauseAllHonoured ==
    (pc = "wait" /\ inotify = <<>> /\ All \in pause) =>
      \A w \in watch_list : wds[w].kind = "queue" => w \in paused

\* No pause outlives the entries that ask for it, and pause/.all holds back
\* every queue, whatever the order of entries, removals and queues that appear
\* meanwhile.  An entry for a single queue is left out: one that is older than
\* the queue's watch does not pause it, see PauseHonoured.
PausesFollowed == NoStalePause /\ PauseAllHonoured

\* Once the daemon has read all notifications, every queue with an entry in
\* the pause directory is paused.
PauseHonoured ==
    (pc = "wait" /\ inotify = <<>>) =>
      \A w \in watch_list :
        wds[w].kind = "queue" /\ IsPaused(wds[w].queue) => w \in paused

\* A published event does not stay in queues/ while its queue is not paused.
ReadyServed ==
    \A e \in Event :
        loc[e] = "ready" ~> (loc[e] # "ready" \/ IsPaused(QueueOf[e]))

\* An event that a handler left in events/ is given to a handler again.
LeftoverRetried ==
    \A e \in Event :
        loc[e] = "events" ~> (\/ loc[e] # "events"
                              \/ IsPaused(QueueOf[e])
                              \/ Handling(QueueOf[e]) # {})

\* A delayed event leaves timers/ once its time has come.
TimerFires ==
    \A e \in Event : (loc[e] = "timer" /\ due[e] \in 1 .. MaxTime)
                        ~> loc[e] # "timer"

----------------------------------------------------------------------------
(* The promise of UeventQueue                                              *)

\* What a filter or a handler sees of an event that is in directory l.
Stage(l) ==
    CASE l \in {"none", "timer"} -> "new"
      [] l = "ready" -> "waiting"
      [] l = "events" -> "batch"
      [] OTHER -> "finished"

Promise == INSTANCE UeventQueue WITH
    state <- [e \in Event |-> Stage(loc[e])],
    serving <- {q \in Queue : Handling(q) # {}}

\* While no queue is removed, no event withdrawn and the daemon not stopped,
\* every step of the daemon, its workers and the clients is a step of
\* UeventQueue: batches are isolated from filters and served one at a time.
ImplementsQueue == Promise!QSpec

\* Under the fairness of FairSpec and without pauses the daemon also keeps
\* the liveness part of the promise.
ImplementsFairQueue == Promise!QFairSpec

============================================================================
