------------------------- MODULE UeventdTimerProofs -------------------------
(***************************************************************************)
(* Delayed events: none reaches its queue early, and the timer is armed for *)
(* every one of them.                                                      *)
(***************************************************************************)
EXTENDS UeventdEventProofs

USE ConstantsAssumption
\* Zenon with thirty seconds for a leaf, unless the leaf names another prover.
USE ZenonT(30)

----------------------------------------------------------------------------
(* Not before the due time *)

\* update_timerfd moves only what was due when it read the clock: the events it
\* has found keep their due times, however long the round takes.
DueInv ==
    /\ tnow <= now
    /\ \A e \in duetodo : loc[e] # "none" /\ due[e] <= tnow
    /\ cur # NoEvent => cur \in duetodo /\ pc \in {"link", "move"}
    /\ duetodo # {} => pc = "update" \/ cur # NoEvent

\* Every step keeps DueInv.
LEMMA DueStep ==
    ASSUME TypeOK, DueInv, Next
    PROVE  DueInv'
  <1>1. /\ loc \in [Event -> Loc] /\ due \in [Event -> Nat] /\ now \in Nat
        /\ tnow \in Nat /\ duetodo \subseteq Event /\ cur \in Event \cup {NoEvent}
        /\ pc = "move" => cur # NoEvent
    BY SMTT(30) DEF TypeOK, FsType, ControlType
  <1>2. ASSUME now' \in Nat, now <= now', UNCHANGED <<tnow, duetodo, cur, pc>>,
               \A e \in duetodo : loc'[e] # "none" /\ due'[e] = due[e]
        PROVE  DueInv'
    BY <1>1, <1>2, SMTT(30) DEF DueInv
  <1>3. CASE UNCHANGED <<loc, due, now, tnow, duetodo, cur, pc>>
    BY <1>1, <1>2, <1>3 DEF DueInv
  <1>4. CASE UNCHANGED <<loc, due, now, tnow, duetodo, cur>> /\ pc # "update" /\ cur = NoEvent
    BY <1>1, <1>4 DEF DueInv
  <1>5. CASE Client
    <2>1. UNCHANGED <<now, tnow, duetodo, cur, pc>>
      BY <1>5 DEF Client, MkDir, Publish, PublishTimer, DoneEvent, PauseQueue, RemoveQueue,
                  RemoveDir, clientVars, daemonVars, localVars, updateVars
    <2>2. \A e \in duetodo : loc'[e] # "none" /\ due'[e] = due[e]
      <3>1. CASE UNCHANGED <<loc, due>>
        BY <3>1 DEF DueInv
      <3>2. CASE \E q \in Queue : RemoveDir(q)
        BY <1>1, <3>2 DEF RemoveDir, DueInv
      <3>3. ASSUME NEW e \in Event, Publish(e) \/ DoneEvent(e)
            PROVE  \A x \in duetodo : loc'[x] # "none" /\ due'[x] = due[x]
        BY <1>1, <3>3 DEF Publish, DoneEvent, clientVars, DueInv
      <3>4. ASSUME NEW e \in Event, NEW d \in Dues, PublishTimer(e, d)
            PROVE  \A x \in duetodo : loc'[x] # "none" /\ due'[x] = due[x]
        BY <1>1, <3>4 DEF PublishTimer, DueInv
      <3> QED
        BY <1>5, <3>1, <3>2, <3>3, <3>4 DEF Client, MkDir, PauseQueue, RemoveQueue, clientVars
    <2> QED
      BY <1>1, <1>2, <2>1, <2>2, SMTT(30)
  <1>6. ASSUME NEW p \in Pid, Worker(p) \/ Handler(p)
        PROVE  DueInv'
    <2>1. UNCHANGED <<due, now, tnow, duetodo, cur, pc>>
      BY <1>6, WorkerFrame DEF clientVars, daemonVars, localVars, updateVars
    <2>2. \A e \in duetodo : loc'[e] # "none"
      <3>1. \/ loc' = loc
            \/ \E e \in Event : loc' = [loc EXCEPT ![e] = "events"]
            \/ \E e \in Event : loc' = [loc EXCEPT ![e] = "done"]
        BY <1>6 DEF Worker, Handler, WorkerOpen, WorkerMkdir, WorkerMove, WorkerCheck,
                    HandlerFails, WorkerRecheck, WorkerSignal, WorkerQuit, HandlerExit,
                    HandlerDone, fsVars
      <3> QED
        BY <1>1, <3>1 DEF DueInv
    <2> QED
      BY <1>1, <1>2, <2>1, <2>2, SMTT(30)
  <1>7. CASE Tick
    BY <1>1, <1>2, <1>7, SMTT(30) DEF Tick, daemonVars, localVars, updateVars, DueInv
  <1>8. CASE Stop \/ Fatal
    <2>1. UNCHANGED <<loc, due, now>> /\ Die
      BY <1>8 DEF Stop, Fatal, Die, fsVars, clientVars
    <2>2. duetodo' = {} /\ cur' = NoEvent /\ tnow' = 0
      BY <2>1 DEF Die
    <2> QED
      BY <1>1, <2>1, <2>2, SMTT(30) DEF DueInv
  <1>9. CASE BeginUpdate
    <2>1. duetodo = {} /\ cur = NoEvent
      BY <1>9 DEF BeginUpdate, DueInv
    <2> QED
      BY <1>1, <1>9, <2>1, SMTT(30) DEF BeginUpdate, fsVars, clientVars, DueInv
  <1>10. ASSUME NEW q \in Queue, ReadTimerDir(q)
         PROVE  DueInv'
    <2>1. \A e \in duetodo' : loc[e] # "none" /\ due[e] <= tnow
      BY <1>10 DEF ReadTimerDir, Files, IsDue
    <2> QED
      BY <1>1, <1>10, <2>1 DEF ReadTimerDir, fsVars, clientVars, DueInv
  <1>11. ASSUME NEW e \in Event, EnsureQueueDir(e)
         PROVE  DueInv'
    BY <1>1, <1>11 DEF EnsureQueueDir, AddQueueDir, clientVars, DueInv
  <1>12. CASE LinkWatch
    <2>1. UNCHANGED <<loc, due, now, tnow, duetodo, cur>>
      BY <1>12 DEF LinkWatch, fsVars, clientVars, updateVars
    <2>2. pc' = IF cur = NoEvent THEN "scan" ELSE "move"
      BY <1>12 DEF LinkWatch
    <2>3. pc = "link"
      BY <1>12 DEF LinkWatch
    <2> QED
      BY <1>1, <2>1, <2>2, <2>3 DEF DueInv
  <1>13. CASE MoveTimerEvent
    <2>1. /\ pc = "move" /\ pc' = "update" /\ duetodo' = duetodo \ {cur} /\ cur' = NoEvent
          /\ UNCHANGED <<due, now, tnow>>
      BY <1>13 DEF MoveTimerEvent, clientVars
    <2>2. loc' = loc \/ loc' = [loc EXCEPT ![cur] = "ready"]
      BY <1>13 DEF MoveTimerEvent
    <2> QED
      BY <1>1, <2>1, <2>2 DEF DueInv
  <1>14. CASE EndUpdate
    BY <1>1, <1>14, SMTT(30) DEF EndUpdate, fsVars, clientVars, DueInv
  <1>15. CASE Start \/ Restart \/ FirstScan \/ ScanDone \/ FirstPause \/ EpollWait
                \/ Dispatched \/ (\E f \in Fd : Dispatch(f)) \/ ReadCreate \/ InotifyDrained
                \/ PipeDrained \/ Spawned \/ (\E q \in Queue : ScanEntry(q))
    <2>1. UNCHANGED <<loc, due, now, tnow, duetodo, cur>>
      BY <1>15 DEF Start, Restart, FirstScan, ScanDone, BeginScan, FirstPause, EpollWait,
                   Dispatched, Dispatch, ReadCreate, InotifyDrained, PipeDrained, Spawned,
                   ScanEntry, Goto, fsVars, clientVars, localVars, updateVars
    <2>2. pc \notin {"link", "move", "update"}
      BY <1>15 DEF Start, Restart, FirstScan, ScanDone, FirstPause, EpollWait, Dispatched,
                   Dispatch, ReadCreate, InotifyDrained, PipeDrained, Spawned, ScanEntry, Goto
    <2> QED
      BY <1>4, <2>1, <2>2 DEF DueInv
  <1>16. CASE ReapWorkers \/ ReadTimer \/ ReadModify \/ ReadDeleteSelf \/ ReadPause
                \/ (\E w \in Wd : ReadPipe(w)) \/ (\E w \in Wd, p \in Pid : Spawn(w, p))
                \/ (\E w \in Wd : SpawnFails(w))
    BY <1>3, <1>16 DEF ReapWorkers, ReadTimer, ReadModify, ReadDeleteSelf, ReadPause, ReadPipe,
                       Spawn, SpawnFails, fsVars, clientVars, localVars, updateVars
  <1> QED
    BY <1>5, <1>6, <1>7, <1>8, <1>9, <1>10, <1>11, <1>12, <1>13, <1>14, <1>15, <1>16
       DEF Next, Daemon

\* No delayed event reaches its queue before its due time, whatever happens to
\* queues, daemon and clock between the reading of timers/ and the rename.
THEOREM NotBeforeDue == Spec => NeverEarly
  <1>1. Init => DueInv
    BY SMTT(30) DEF Init, DueInv
  <1>2. TypeOK /\ DueInv /\ [Next]_vars => DueInv'
    <2> SUFFICES ASSUME TypeOK, DueInv, [Next]_vars PROVE DueInv'
      OBVIOUS
    <2>1. CASE UNCHANGED vars
      BY <2>1 DEF vars, fsVars, clientVars, daemonVars, localVars, updateVars, DueInv
    <2> QED
      BY <2>1, DueStep
  <1>3. TypeOK /\ DueInv /\ [Next]_vars
          => [\A e \in Event : loc[e] = "timer" /\ loc'[e] = "ready" => due[e] <= now]_vars
    <2> SUFFICES ASSUME TypeOK, DueInv, Next, NEW e \in Event, loc[e] = "timer", loc'[e] = "ready"
                 PROVE  due[e] <= now
      OBVIOUS
    <2>1. loc \in [Event -> Loc] /\ due \in [Event -> Nat] /\ now \in Nat /\ tnow \in Nat
      BY SMTT(30) DEF TypeOK, FsType, ControlType
    <2>2. MoveTimerEvent
      <3>1. ~Client
        BY <2>1 DEF Client, MkDir, Publish, PublishTimer, DoneEvent, PauseQueue, RemoveQueue,
                    RemoveDir
      <3>2. \A p \in Pid : ~Worker(p) /\ ~Handler(p)
        <4>1. \A p \in Pid : ~(\E f \in Event : WorkerMove(p, f) \/ HandlerDone(p, f))
          BY <2>1, SMTT(30) DEF WorkerMove, HandlerDone
        <4> QED
          BY <2>1, <4>1 DEF Worker, Handler, WorkerOpen, WorkerMkdir, WorkerCheck,
             HandlerFails, WorkerRecheck, WorkerSignal, WorkerQuit, HandlerExit, fsVars
      <3>3. ~Stop /\ ~Restart /\ ~Tick /\ ~Fatal
        BY DEF Stop, Restart, Tick, Fatal, Die, Goto, fsVars
      <3>4. Daemon /\ ~MoveTimerEvent /\ ~Fatal => UNCHANGED loc
        BY DEF Daemon, Start, FirstScan, ScanDone, LinkWatch, FirstPause,
               ScanEntry, EpollWait, Dispatched, Dispatch, ReapWorkers, ReadTimer, ReadModify,
               ReadDeleteSelf, ReadCreate, ReadPause, InotifyDrained, ReadPipe, PipeDrained,
               BeginUpdate, EndUpdate, ReadTimerDir, EnsureQueueDir, Spawn, SpawnFails,
               Spawned, Goto, fsVars
      <3> QED
        BY <3>1, <3>2, <3>3, <3>4 DEF Next
    <2>3. e = cur /\ cur # NoEvent
      BY <2>1, <2>2 DEF MoveTimerEvent
    <2> QED
      BY <2>1, <2>3, SMTT(30) DEF DueInv
  <1> QED
    BY <1>1, <1>2, <1>3, TypeCorrect, PTL DEF Spec, NeverEarly

----------------------------------------------------------------------------
(* The timer *)

\* A delayed event is in an existing directory, and ensure_queue_dir has made
\* the directory the event is moved to.
TimersFiled ==
    /\ \A e \in Event : loc[e] = "timer" => dir["timer"][QueueOf[e]] # 0
    /\ cur # NoEvent => dir["queue"][QueueOf[cur]] # 0
    /\ pc = "link" /\ cur # NoEvent => wds[pend].kind = "queue"

\* main() will call update_timerfd, at once or when it reads a notification.
TimerNoted ==
    \/ Noted("create_timer")
    \/ \E w \in DOMAIN wds : wds[w].kind = "timer" /\ Ev("modify", w) \in Queued(inotify)
UpdateDue == TimerNoted \/ (~InUpdate /\ (timer_changed \/ ~booted))

\* The timerfd will fire for e in time: it is armed, or update_timerfd will run, or
\* runs and has not read timers/q yet, has still to move e or has noted its time.
Armed(e) ==
    \/ UpdateDue
    \/ ~InUpdate /\ tfd # 0 /\ tfd <= due[e]
    \/ pc = "link" /\ pend \in Watches("timer", QueueOf[e])
    \/ InUpdate /\ (QueueOf[e] \in tscan \/ e \in duetodo \/ (tnext # 0 /\ tnext <= due[e]))

AllArmed == \A e \in Event : loc[e] = "timer" /\ due[e] # 0 => Armed(e)

\* Every step keeps TimersFiled.
LEMMA TimersFiledStep ==
    ASSUME NoRemoval, KeptInv, ControlInv, TimersFiled, Next
    PROVE  TimersFiled'
  <1>1. ~Stop /\ ~Fatal /\ TypeOK
    BY NothingLost DEF KeptInv, Inv
  <1>2. \A k \in Kind, q \in Queue : dir[k][q] # 0 => dir'[k][q] # 0
    BY DirsStep DEF DirsKept
  <1>3. ASSUME NEW e \in Event, loc'[e] = "timer"
        PROVE  dir'["timer"][QueueOf[e]] # 0
    <2>1. dir["timer"][QueueOf[e]] # 0
      <3>1. CASE loc[e] = "timer"
        BY <3>1 DEF TimersFiled
      <3>2. CASE loc[e] # "timer"
        BY <1>3, <3>2, LocChanges DEF PublishTimer
      <3> QED
        BY <3>1, <3>2
    <2> QED
      BY <1>2, <2>1 DEF Kind
  <1>4. ASSUME UNCHANGED <<pc, cur, pend, wds>>
        PROVE  TimersFiled'
    BY <1>1, <1>2, <1>3, <1>4 DEF TimersFiled, TypeOK, ControlType, Kind
  <1>5. ASSUME cur' = NoEvent
        PROVE  TimersFiled'
    BY <1>3, <1>5 DEF TimersFiled
  <1>6. CASE cur = NoEvent /\ \A e \in Event : ~EnsureQueueDir(e)
    <2>1. CASE Daemon
      BY <1>1, <1>5, <1>6, <2>1 DEF Daemon, Start, FirstScan, BeginScan, ScanDone, LinkWatch,
           FirstPause, ScanEntry, EpollWait, Dispatched, Dispatch, ReapWorkers, ReadTimer,
           ReadModify, ReadDeleteSelf, ReadCreate, ReadPause, InotifyDrained, ReadPipe,
           PipeDrained, BeginUpdate, MoveTimerEvent, EndUpdate, ReadTimerDir, Spawn, SpawnFails,
           Spawned, Goto, localVars, updateVars
    <2>2. CASE ~Daemon
      <3>1. UNCHANGED daemonVars
        BY <1>1, <2>2, KeptCases, WorkerFrame DEF MkDir, Publish, PublishTimer, DoneEvent,
             PauseQueue, Tick
      <3> QED
        BY <1>5, <1>6, <3>1 DEF daemonVars, localVars, updateVars
    <2> QED
      BY <2>1, <2>2
  <1>7. ASSUME NEW e \in Event, EnsureQueueDir(e)
        PROVE  TimersFiled'
    <2> DEFINE q == QueueOf[e]
               g == IF dir["queue"][q] = 0 THEN gens["queue"][q] + 1 ELSE dir["queue"][q]
    <2>1. q \in Queue /\ cur' = e /\ dir' = [dir EXCEPT !["queue"][q] = g]
      BY <1>7 DEF EnsureQueueDir
    <2>2. dir'["queue"][q] # 0
      BY <1>1, <2>1, SMTT(30) DEF TypeOK, FsType, Kind
    <2>3. ASSUME pc' = "link"
          PROVE  wds'[pend'].kind = "queue"
      <3>1. AddQueueDir("queue", q, g)
        BY <1>7, <2>3 DEF EnsureQueueDir
      <3> DEFINE node == [kind |-> "queue", queue |-> q, gen |-> g, ino |-> g]
      <3>2. wds' = Append(wds, node) /\ pend' = Len(wds) + 1 /\ wds \in Seq(WatchNode)
        BY <1>1, <3>1 DEF AddQueueDir, TypeOK, KernelType
      <3>3. node.kind = "queue"
        OBVIOUS
      <3> HIDE DEF node
      <3> QED
        BY <3>2, <3>3, SMTT(30)
    <2> QED
      BY <1>3, <2>1, <2>2, <2>3 DEF TimersFiled
  <1>8. CASE cur # NoEvent
    <2>1. pc \in {"link", "move"}
      BY <1>8 DEF ControlInv
    <2>2. CASE LinkWatch
      <3>1. cur' = cur /\ pc' # "link"
        BY <2>2 DEF LinkWatch, updateVars
      <3> QED
        BY <1>1, <1>2, <1>3, <1>8, <3>1 DEF TimersFiled, TypeOK, ControlType, Kind
    <2>3. CASE MoveTimerEvent
      BY <1>5, <2>3 DEF MoveTimerEvent
    <2>4. ASSUME ~LinkWatch, ~MoveTimerEvent
          PROVE  ~Daemon
      BY <1>1, <2>1, <2>4 DEF Daemon, Start, FirstScan, ScanDone, FirstPause, ScanEntry,
           EpollWait, Dispatched, Dispatch, ReapWorkers, ReadTimer, ReadModify, ReadDeleteSelf,
           ReadCreate, ReadPause, InotifyDrained, ReadPipe, PipeDrained, BeginUpdate, EndUpdate,
           ReadTimerDir, EnsureQueueDir, Spawn, SpawnFails, TakeDirty, Spawned, Goto
    <2>5. CASE ~Daemon
      <3>1. UNCHANGED <<daemonVars, wds>>
        BY <1>1, <2>5, KeptCases, WorkerFrame DEF MkDir, Publish, PublishTimer, DoneEvent,
             PauseQueue, Tick, kernelVars, attachVars
      <3> QED
        BY <1>4, <3>1 DEF daemonVars, localVars, updateVars
    <2> QED
      BY <2>2, <2>3, <2>4, <2>5
  <1> QED
    BY <1>6, <1>7, <1>8

\* The daemon acts on a notification about timers/.
LEMMA TimerHeard ==
    ASSUME NoRemoval, NoOverflow, KeptInv, Linked, Next, TimerNoted
    PROVE  UpdateDue'
  <1>1. ~Stop /\ ~Fatal /\ ~ReadDeleteSelf /\ TypeOK
    BY NothingLost DEF KeptInv, Inv
  <1>2. NodesKept
    BY <1>1, NodesStep
  <1>3. CASE Queued(inotify) \subseteq Queued(inotify')
    BY <1>2, <1>3 DEF TimerNoted, Noted, UpdateDue, NodesKept
  <1>4. CASE pc = "inotify" /\ Queued(inotify) = Queued(inotify') \cup {Head(inotify)}
               /\ (ReadModify \/ ReadCreate \/ ReadPause)
    <2>1. CASE ReadCreate /\ Head(inotify).mask = "create_timer"
      BY <2>1 DEF ReadCreate, BeginScan, UpdateDue, InUpdate
    <2>2. ASSUME NEW w \in DOMAIN wds, wds[w].kind = "timer", Head(inotify) = Ev("modify", w)
          PROVE  UpdateDue'
      <3>1. ReadModify /\ Head(inotify).wd = w
        BY <1>4, <2>2, SMTT(30) DEF ReadModify, ReadCreate, ReadPause, Ev
      <3>2. w \in watch_list
        BY <1>4 DEF Linked
      <3>3. timer_changed' = TRUE /\ pc' = "inotify"
        BY <2>2, <3>1, <3>2 DEF ReadModify
      <3> QED
        BY <3>3 DEF UpdateDue, InUpdate
    <2>3. ASSUME Head(inotify).mask # "create_timer",
                 \A w \in DOMAIN wds : wds[w].kind = "timer" => Head(inotify) # Ev("modify", w)
          PROVE  TimerNoted'
      BY <1>2, <1>4, <2>3 DEF TimerNoted, Noted, NodesKept
    <2>4. Head(inotify).mask = "create_timer" => ReadCreate
      BY <1>4 DEF ReadModify, ReadPause
    <2> QED
      BY <2>1, <2>2, <2>3, <2>4 DEF UpdateDue
  <1> QED
    BY <1>1, <1>3, <1>4, NotesKept

\* A directory of timers/ that is not watched will be scanned, and the scan is
\* followed by update_timerfd.
LEMMA UnwatchedDue ==
    ASSUME ControlInv, Found("timer"), NEW q \in Queue, dir["timer"][q] # 0,
           Watches("timer", q) = {}, booted \in BOOLEAN
    PROVE  UpdateDue
  <1>1. q \in Existing("timer")
    BY DEF Existing
  <1>2. CASE Noted("create_timer")
    BY <1>2 DEF UpdateDue, TimerNoted
  <1>3. CASE pc \in {"start", "rootwatch"}
    BY <1>3 DEF UpdateDue, InUpdate, ControlInv
  <1>4. CASE Scanning /\ (~booted \/ timer_changed)
    BY <1>4 DEF UpdateDue, InUpdate, Scanning
  <1> QED
    BY <1>1, <1>2, <1>3, <1>4 DEF Found, CreateMask, ControlInv

\* A step outside update_timerfd that leaves the timerfd alone, or inside it one
\* that reads no directory and moves no event.
LEMMA ArmedQuiet ==
    ASSUME NEW e \in Event, Armed(e), NodesKept, TimerNoted => UpdateDue', InUpdate' <=> InUpdate,
           timer_changed => timer_changed', UNCHANGED <<booted, tfd, tscan, duetodo, tnext>>,
           due'[e] = due[e], pc = "link" => UNCHANGED <<pc, pend>>
    PROVE  Armed(e)'
  <1>1. CASE UpdateDue
    BY <1>1 DEF Armed, UpdateDue
  <1>2. CASE pc = "link" /\ pend \in Watches("timer", QueueOf[e])
    BY <1>2, WatchesStay DEF Armed
  <1>3. CASE ~UpdateDue /\ ~(pc = "link" /\ pend \in Watches("timer", QueueOf[e]))
    BY <1>3 DEF Armed
  <1> QED
    BY <1>1, <1>2, <1>3

\* update_timerfd reads one directory: an event is due or counts for the timer.
LEMMA ArmedRead ==
    ASSUME TypeOK, NEW e \in Event, loc[e] = "timer", due[e] # 0, NEW x \in Queue, ReadTimerDir(x),
           QueueOf[e] \in tscan \/ e \in duetodo \/ (tnext # 0 /\ tnext <= due[e])
    PROVE  QueueOf[e] \in tscan' \/ e \in duetodo' \/ (tnext' # 0 /\ tnext' <= due[e])
  <1> DEFINE later == {due[y] : y \in {f \in Files("timer", x) : due[f] > tnow}} \cup ({tnext} \ {0})
  <1>1. due \in [Event -> Nat] /\ tnow \in Nat /\ tnext \in Nat
    BY DEF TypeOK, FsType, ControlType
  <1>2. /\ tscan' = tscan \ {x} /\ duetodo = {} /\ duetodo' = {y \in Files("timer", x) : IsDue(y)}
        /\ Earliest(tnext', later)
    BY DEF ReadTimerDir
  <1>3. \A d \in later : d \in Nat /\ d # 0
    BY <1>1, SMTT(30) DEF Files
  <1>4. ASSUME NEW d \in later, d <= due[e]
        PROVE  tnext' # 0 /\ tnext' <= due[e]
    <2>1. tnext' \in later /\ tnext' <= d
      BY <1>2 DEF Earliest
    <2> QED
      BY <1>1, <1>3, <1>4, <2>1, SMTT(30)
  <1>5. CASE QueueOf[e] = x
    <2>1. e \in Files("timer", x)
      BY <1>5 DEF Files
    <2>2. CASE due[e] <= tnow
      BY <1>2, <2>1, <2>2 DEF IsDue
    <2>3. CASE ~(due[e] <= tnow)
      <3>1. due[e] \in later /\ due[e] <= due[e]
        BY <1>1, <2>1, <2>3, SMTT(30)
      <3> QED
        BY <1>4, <3>1
    <2> QED
      BY <2>2, <2>3
  <1>6. CASE QueueOf[e] # x
    <2>1. CASE QueueOf[e] \in tscan
      BY <1>2, <1>6, <2>1
    <2>2. CASE tnext # 0 /\ tnext <= due[e]
      BY <1>4, <2>2
    <2> QED
      BY <1>2, <2>1, <2>2
  <1> QED
    BY <1>5, <1>6

\* A step of the daemon keeps a delayed event armed.
LEMMA ArmedDaemon ==
    ASSUME NoRemoval, NoOverflow, KeptInv, ControlInv, Linked, TimersFiled, NEW e \in Event,
           loc[e] = "timer", loc'[e] = "timer", due[e] # 0, Armed(e), Daemon
    PROVE  Armed(e)'
  <1> USE DEF UpdateDue
  <1>1. ~Stop /\ ~Fatal /\ ~ReadDeleteSelf /\ TypeOK /\ Next
    BY NothingLost DEF KeptInv, Inv, Next
  <1>2. NodesKept /\ (TimerNoted => UpdateDue') /\ due' = due
    <2>1. due' = due
      BY <1>1 DEF Daemon, Start, FirstScan, ScanDone, LinkWatch, FirstPause, ScanEntry, EpollWait,
           Dispatched, Dispatch, ReapWorkers, ReadTimer, ReadModify, ReadCreate, ReadPause,
           InotifyDrained, ReadPipe, PipeDrained, BeginUpdate, MoveTimerEvent, EndUpdate,
           ReadTimerDir, EnsureQueueDir, Spawn, SpawnFails, Spawned, Goto, fsVars, clientVars
    <2> QED
      BY <1>1, <2>1, NodesStep, TimerHeard
  <1>3. CASE TimerNoted
    BY <1>2, <1>3 DEF Armed
  <1> SUFFICES ASSUME ~TimerNoted PROVE Armed(e)'
    BY <1>3
  <1>4. ASSUME InUpdate' <=> InUpdate, timer_changed => timer_changed', pc # "link",
               UNCHANGED <<booted, tfd, tscan, duetodo, tnext>>
        PROVE  Armed(e)'
    BY <1>2, <1>4, ArmedQuiet
  <1>5. CASE Start \/ FirstScan \/ ScanDone \/ FirstPause \/ EpollWait \/ Dispatched \/ InotifyDrained
               \/ PipeDrained \/ Spawned \/ (\E f \in Fd : Dispatch(f))
    <2>1. timer_changed' = timer_changed /\ UNCHANGED <<booted, tfd, tscan, duetodo, tnext>>
      BY <1>5 DEF Start, FirstScan, BeginScan, ScanDone, FirstPause, EpollWait, Dispatched,
                  InotifyDrained, PipeDrained, Spawned, Dispatch, Goto, kernelVars, wakeVars,
                  watchVars, localVars, updateVars
    <2>2. pc # "link" /\ ~InUpdate /\ ~InUpdate'
      BY <1>5 DEF Start, FirstScan, BeginScan, ScanDone, FirstPause, EpollWait, Dispatched,
                  InotifyDrained, PipeDrained, Spawned, Dispatch, Goto, InUpdate
    <2> QED
      BY <1>4, <2>1, <2>2
  <1>6. CASE ReapWorkers \/ ReadModify \/ ReadCreate \/ ReadPause \/ (\E w \in Wd : ReadPipe(w))
               \/ (\E w \in Wd, p \in Pid : Spawn(w, p)) \/ (\E w \in Wd : SpawnFails(w))
    <2>1. UNCHANGED <<booted, tfd, tscan, duetodo, tnext>>
      BY <1>6 DEF ReapWorkers, ReadModify, ReadCreate, BeginScan, ReadPause, ReadPipe, Spawn,
                  SpawnFails, kernelVars, wakeVars, localVars, updateVars
    <2>2. timer_changed => timer_changed'
      BY <1>6 DEF ReapWorkers, ReadModify, ReadCreate, ReadPause, ReadPipe, Spawn, SpawnFails
    <2>3. pc # "link" /\ ~InUpdate /\ ~InUpdate'
      BY <1>6 DEF ReapWorkers, ReadModify, ReadCreate, BeginScan, ReadPause, ReadPipe, Spawn,
                  SpawnFails, TakeDirty, InUpdate
    <2> QED
      BY <1>4, <2>1, <2>2, <2>3
  <1>7. ASSUME NEW q \in Queue, ScanEntry(q)
        PROVE  Armed(e)'
    <2>1. timer_changed' = timer_changed /\ UNCHANGED <<booted, tfd, tscan, duetodo, tnext, cur>>
      BY <1>7 DEF ScanEntry, wakeVars, watchVars, updateVars
    <2>2. pc = "scan" /\ pc' \in {"scan", "link"} /\ cur = NoEvent
      BY <1>7 DEF ScanEntry, AddQueueDir, ControlInv
    <2> QED
      BY <1>4, <2>1, <2>2 DEF InUpdate
  <1>8. CASE LinkWatch
    <2>1. /\ (timer_changed => timer_changed') /\ UNCHANGED <<booted, tfd, tscan, duetodo, tnext, cur>>
          /\ pc = "link" /\ pc' = IF cur = NoEvent THEN "scan" ELSE "move"
      BY <1>8 DEF LinkWatch, wakeVars, updateVars
    <2>2. CASE pend \in Watches("timer", QueueOf[e])
      <3>1. NotEmpty("timer", QueueOf[e]) /\ wds[pend].kind = "timer" /\ wds[pend].queue = QueueOf[e]
        BY <2>2 DEF NotEmpty, Files, Watches
      <3>2. timer_changed' = TRUE /\ cur = NoEvent
        BY <1>8, <2>1, <3>1 DEF LinkWatch, TimersFiled
      <3> QED
        BY <2>1, <3>2 DEF Armed, InUpdate
    <2>3. CASE pend \notin Watches("timer", QueueOf[e])
      BY <1>2, <2>1, <2>3 DEF Armed, InUpdate
    <2> QED
      BY <2>2, <2>3
  <1>9. CASE ReadTimer
    BY <1>9 DEF ReadTimer, Armed, InUpdate
  <1>10. CASE BeginUpdate
    <2>1. QueueOf[e] \in Existing("timer")
      BY DEF TimersFiled, Existing
    <2>2. CASE timer_changed \/ ~booted
      BY <1>10, <2>1, <2>2 DEF BeginUpdate, Armed, InUpdate
    <2>3. CASE ~(timer_changed \/ ~booted)
      <3>1. pc = "timers" /\ pc' = "spawn" /\ tfd' = tfd
        BY <1>10, <2>3 DEF BeginUpdate, kernelVars, wakeVars
      <3> QED
        BY <1>2, <2>3, <3>1 DEF Armed, InUpdate
    <2> QED
      BY <2>2, <2>3
  <1>11. ASSUME NEW q \in Queue, ReadTimerDir(q)
         PROVE  Armed(e)'
    <2>1. pc = "update" /\ pc' = "update"
      BY <1>11 DEF ReadTimerDir
    <2>2. QueueOf[e] \in tscan \/ e \in duetodo \/ (tnext # 0 /\ tnext <= due[e])
      BY <2>1 DEF Armed, InUpdate
    <2>3. QueueOf[e] \in tscan' \/ e \in duetodo' \/ (tnext' # 0 /\ tnext' <= due[e])
      BY <1>1, <1>11, <2>2, ArmedRead
    <2> QED
      BY <1>2, <2>1, <2>3 DEF Armed, InUpdate
  <1>12. ASSUME NEW x \in Event, EnsureQueueDir(x)
         PROVE  Armed(e)'
    <2>1. timer_changed' = timer_changed /\ UNCHANGED <<booted, tfd, tscan, duetodo, tnext>>
      BY <1>12 DEF EnsureQueueDir, wakeVars, watchVars
    <2>2. pc = "update" /\ pc' \in {"link", "move"} /\ cur' # NoEvent
      BY <1>12 DEF EnsureQueueDir, AddQueueDir
    <2> QED
      BY <1>4, <2>1, <2>2 DEF InUpdate
  <1>13. CASE MoveTimerEvent
    <2>1. pc = "move" /\ pc' = "update" /\ UNCHANGED <<tscan, tnext>> /\ duetodo' = duetodo \ {cur}
      BY <1>13 DEF MoveTimerEvent
    <2>2. e # cur
      BY <1>1, <1>13 DEF MoveTimerEvent, TimersFiled, TypeOK, FsType
    <2> QED
      BY <1>2, <2>1, <2>2 DEF Armed, InUpdate
  <1>14. CASE EndUpdate
    <2>1. /\ pc = "update" /\ pc' \in {"spawn", "wait"} /\ tfd' = tnext
          /\ tscan = {} /\ duetodo = {}
      BY <1>14 DEF EndUpdate
    <2> QED
      BY <1>2, <2>1 DEF Armed, InUpdate
  <1> QED
    BY <1>1, <1>5, <1>6, <1>7, <1>8, <1>9, <1>10, <1>11, <1>12, <1>13, <1>14 DEF Daemon

\* Every step keeps AllArmed.
LEMMA ArmedStep ==
    ASSUME NoRemoval, NoOverflow, KeptInv, ControlInv, Linked, Found("timer"), TimersFiled,
           AllArmed, Next
    PROVE  AllArmed'
  <1> SUFFICES ASSUME NEW e \in Event, loc'[e] = "timer", due'[e] # 0
               PROVE  Armed(e)'
    BY DEF AllArmed
  <1>1. ~Stop /\ ~Fatal /\ TypeOK
    BY NothingLost DEF KeptInv, Inv
  <1>2. NodesKept /\ (TimerNoted => UpdateDue')
    BY <1>1, NodesStep, TimerHeard
  <1>3. CASE loc[e] # "timer"
    <2>1. PICK d \in Dues : PublishTimer(e, d)
      BY <1>3, LocChanges
    <2>2. /\ dir["timer"][QueueOf[e]] # 0 /\ UNCHANGED <<daemonVars, wds>>
          /\ inotify' = NotifyDir(inotify, "timer", QueueOf[e], "modify")
      BY <2>1 DEF PublishTimer, attachVars
    <2>3. UNCHANGED <<pc, cur, timer_changed, booted, wds>>
      BY <2>2 DEF daemonVars, watchVars, localVars, updateVars
    <2>4. CASE WatchOf("timer", QueueOf[e]) = {}
      <3>1. UpdateDue
        BY <1>1, <2>2, <2>4, UnwatchedDue, WatchOfKept DEF TypeOK, ControlType
      <3>2. UpdateDue'
        BY <1>2, <2>3, <3>1 DEF UpdateDue, InUpdate
      <3> QED
        BY <3>2 DEF Armed
    <2>5. ASSUME NEW w \in WatchOf("timer", QueueOf[e]),
                 Queued(inotify') = Queued(inotify) \cup {Ev("modify", w)}
          PROVE  Armed(e)'
      <3>1. w \in DOMAIN wds' /\ wds'[w].kind = "timer" /\ Ev("modify", w) \in Queued(inotify')
        BY <1>1, <2>3, <2>5 DEF WatchOf, TypeOK, KernelType
      <3> QED
        BY <3>1 DEF Armed, UpdateDue, TimerNoted
    <2> QED
      BY <1>1, <2>2, <2>4, <2>5, DirQueues
  <1>4. CASE loc[e] = "timer"
    <2>1. due'[e] = due[e]
      <3>1. \A d \in Dues : ~PublishTimer(e, d)
        BY <1>4 DEF PublishTimer
      <3>2. ASSUME NEW x \in Event, NEW d \in Dues, PublishTimer(x, d)
            PROVE  due'[e] = due[e]
        BY <1>1, <3>1, <3>2 DEF PublishTimer, TypeOK, FsType
      <3>3. CASE Daemon
        BY <1>1, <3>3, NothingLost DEF Daemon, Start, FirstScan, ScanDone, LinkWatch, FirstPause,
             ScanEntry, EpollWait, Dispatched, Dispatch, ReapWorkers, ReadTimer, ReadModify,
             ReadCreate, ReadPause, InotifyDrained, ReadPipe, PipeDrained, BeginUpdate,
             MoveTimerEvent, EndUpdate, ReadTimerDir, EnsureQueueDir, Spawn, SpawnFails, Spawned,
             Goto, fsVars, clientVars
      <3>4. CASE ~Daemon
        BY <3>2, <3>4, KeptCases, WorkerFrame DEF MkDir, Publish, DoneEvent, PauseQueue, Tick,
             clientVars
      <3> QED
        BY <3>3, <3>4
    <2>2. Armed(e) /\ due[e] # 0
      BY <1>4, <2>1 DEF AllArmed
    <2>3. CASE Daemon
      BY <1>4, <2>2, <2>3, ArmedDaemon
    <2>4. CASE ~Daemon
      <3>1. UNCHANGED <<daemonVars, tfd>>
        <4>1. ASSUME NEW p \in Pid, Worker(p) \/ Handler(p)
              PROVE  UNCHANGED tfd
          BY <4>1 DEF Worker, Handler, WorkerOpen, WorkerMkdir, WorkerMove, WorkerCheck,
               HandlerFails, WorkerRecheck, WorkerSignal, WorkerQuit, HandlerExit, HandlerDone,
               kernelVars, wakeVars
        <4> QED
          BY <2>4, <4>1, KeptCases, WorkerFrame DEF MkDir, Publish, PublishTimer, DoneEvent,
               PauseQueue, Tick, kernelVars, wakeVars
      <3> QED
        BY <1>2, <2>1, <2>2, <3>1, ArmedQuiet DEF daemonVars, watchVars, localVars, updateVars,
             InUpdate
    <2> QED
      BY <2>3, <2>4
  <1> QED
    BY <1>3, <1>4

\* The inductive invariant: KeptInv, and that every delayed event has a timer.
ClockInv == ControlInv /\ Linked /\ Found("timer") /\ TimersFiled /\ AllArmed

\* Initially.
LEMMA ClockInitial == Init => ClockInv
  <1> USE DEF ClockInv
  <1> SUFFICES ASSUME Init PROVE ClockInv
    OBVIOUS
  <1>1. ControlInv /\ Found("timer") /\ Linked
    BY SMTT(30) DEF Init, ControlInv, Found, Linked
  <1>2. TimersFiled /\ AllArmed
    BY DEF Init, TimersFiled, AllArmed
  <1> QED
    BY <1>1, <1>2

\* Every step keeps ClockInv.
LEMMA ClockStep ==
    ASSUME NoRemoval, NoOverflow
    PROVE  KeptInv /\ ClockInv /\ [Next]_vars => ClockInv'
  <1> USE DEF ClockInv
  <1> SUFFICES ASSUME KeptInv, ClockInv, [Next]_vars PROVE ClockInv'
    OBVIOUS
  <1>1. CASE UNCHANGED vars
    <2>1. /\ UNCHANGED <<dir, loc, due, inotify, wds, tfd, watch_list, timer_changed>>
          /\ UNCHANGED <<pc, booted, scan, skind, pend, tscan, duetodo, cur, tnext>>
      BY <1>1 DEF vars, fsVars, dirVars, clientVars, kernelVars, attachVars, wakeVars, daemonVars,
                  watchVars, localVars, updateVars
    <2>2. ControlInv' /\ Linked' /\ TimersFiled'
      BY <2>1 DEF ControlInv, InUpdate, Scanning, Linked, TimersFiled
    <2>3. Found("timer")'
      BY <2>1 DEF Found, Existing, Watches, Noted, Queued, Scanning
    <2>4. AllArmed'
      BY <2>1 DEF AllArmed, Armed, UpdateDue, TimerNoted, Noted, Queued, InUpdate, Watches
    <2> QED
      BY <2>2, <2>3, <2>4
  <1>2. CASE Next
    BY <1>2, ControlStep, LinkedStep, DirsFoundStep, TimersFiledStep, ArmedStep
       DEF KeptInv, Inv, WatchKind
  <1> QED
    BY <1>1, <1>2

\* While the daemon sleeps, ClockInv says that the timer is armed.
LEMMA ClockEnough == KeptInv /\ ClockInv => TimerArmed
  <1> USE DEF ClockInv
  <1> SUFFICES ASSUME ClockInv, pc = "wait", NEW e \in Event, loc[e] = "timer", due[e] # 0
               PROVE  \/ tfd # 0 /\ tfd <= due[e]
                      \/ \E i \in DOMAIN inotify :
                           \/ inotify[i].mask = "create_timer"
                           \/ /\ inotify[i].mask = "modify"
                              /\ inotify[i].wd \in watch_list
                              /\ wds[inotify[i].wd].kind = "timer"
    BY DEF TimerArmed
  <1>1. ~InUpdate /\ booted /\ ~timer_changed
    BY DEF InUpdate, ControlInv
  <1>2. TimerNoted \/ (tfd # 0 /\ tfd <= due[e])
    BY <1>1 DEF AllArmed, Armed, UpdateDue
  <1>3. CASE Noted("create_timer")
    BY <1>3 DEF Noted, Queued
  <1>4. ASSUME NEW w \in DOMAIN wds, wds[w].kind = "timer", Ev("modify", w) \in Queued(inotify)
        PROVE  \E i \in DOMAIN inotify : /\ inotify[i].mask = "modify"
                                         /\ inotify[i].wd \in watch_list
                                         /\ wds[inotify[i].wd].kind = "timer"
    <2>1. w \in watch_list
      BY DEF Linked
    <2>2. PICK i \in DOMAIN inotify : inotify[i] = Ev("modify", w)
      BY <1>4 DEF Queued
    <2>3. inotify[i].mask = "modify" /\ inotify[i].wd = w
      BY <2>2, SMTT(30) DEF Ev
    <2> QED
      BY <1>4, <2>1, <2>3
  <1> QED
    BY <1>2, <1>3, <1>4 DEF TimerNoted

============================================================================
