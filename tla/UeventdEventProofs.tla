------------------------- MODULE UeventdEventProofs -------------------------
(***************************************************************************)
(* No event is forgotten: every event in queues/ and events/ has somebody  *)
(* who will look at it.                                                    *)
(***************************************************************************)
EXTENDS UeventdWakeProofs

USE ConstantsAssumption
\* Zenon with thirty seconds for a leaf, unless the leaf names another prover.
USE ZenonT(30)

----------------------------------------------------------------------------
(* What a step changes, while no queue is removed *)

\* The ways an event changes directory.
LEMMA LocChanges ==
    ASSUME NoRemoval, KeptInv, Next, NEW e \in Event, loc'[e] # loc[e]
    PROVE  \/ Publish(e) /\ loc'[e] = "ready"
           \/ (\E d \in Dues : PublishTimer(e, d)) /\ loc'[e] = "timer"
           \/ DoneEvent(e) /\ loc'[e] = "removed"
           \/ /\ MoveTimerEvent /\ e = cur /\ dir["queue"][QueueOf[e]] # 0
              /\ loc[e] = "timer" /\ loc'[e] = "ready"
           \/ \E p \in Pid : /\ WorkerMove(p, e) /\ dir["events"][wq[p]] = wdst[p]
                             /\ loc[e] = "ready" /\ loc'[e] = "events"
           \/ loc[e] = "events" /\ loc'[e] = "done"
  <1>1. loc \in [Event -> Loc]
    BY DEF KeptInv, Inv, TypeOK, FsType
  <1>2. CASE (\E x \in Event : Publish(x) \/ DoneEvent(x))
               \/ (\E x \in Event, d \in Dues : PublishTimer(x, d))
    BY <1>1, <1>2 DEF Publish, DoneEvent, PublishTimer
  <1>3. CASE MoveTimerEvent
    BY <1>1, <1>3 DEF MoveTimerEvent
  <1>4. ASSUME NEW p \in Pid, NEW x \in Event, WorkerMove(p, x)
        PROVE  /\ x = e /\ dir["events"][wq[p]] = wdst[p]
               /\ loc[e] = "ready" /\ loc'[e] = "events"
    BY <1>1, <1>4 DEF WorkerMove
  <1>5. ASSUME NEW p \in Pid, NEW x \in Event, HandlerDone(p, x)
        PROVE  loc[e] = "events" /\ loc'[e] = "done"
    BY <1>1, <1>5 DEF HandlerDone
  <1>6. ASSUME NEW p \in Pid, Worker(p) \/ Handler(p)
        PROVE  \E x \in Event : WorkerMove(p, x) \/ HandlerDone(p, x)
    BY <1>6 DEF Worker, Handler, WorkerOpen, WorkerMkdir, WorkerCheck, HandlerFails,
                WorkerRecheck, WorkerSignal, WorkerQuit, HandlerExit, fsVars
  <1>7. ~Tick /\ (\A k \in Kind, q \in Queue : ~MkDir(k, q))
          /\ \A x \in Queue \cup {All} : ~PauseQueue(x)
    BY DEF Tick, MkDir, PauseQueue
  <1>8. Daemon /\ ~Fatal /\ ~ReadDeleteSelf => MoveTimerEvent
    BY DEF Daemon, Start, FirstScan, ScanDone, LinkWatch, FirstPause, ScanEntry, EpollWait,
           Dispatched, Dispatch, ReapWorkers, ReadTimer, ReadModify, ReadCreate, ReadPause,
           InotifyDrained, ReadPipe, PipeDrained, BeginUpdate, EndUpdate, ReadTimerDir,
           EnsureQueueDir, Spawn, SpawnFails, Spawned, Goto, fsVars
  <1> QED
    BY <1>2, <1>3, <1>4, <1>5, <1>6, <1>7, <1>8, KeptCases

\* The ways a worker goes on; p may be free, and forked or reaped.
LEMMA WorkerChanges ==
    ASSUME NoRemoval, KeptInv, Next, NEW p \in Pid
    PROVE  \/ /\ wpc'[p] = wpc[p] /\ wq'[p] = wq[p] /\ wwd'[p] = wwd[p]
              /\ wsrc'[p] = wsrc[p] /\ wdst'[p] = wdst[p] /\ wtodo'[p] = wtodo[p]
           \/ (Worker(p) \/ HandlerExit(p)) /\ wq'[p] = wq[p] /\ wwd'[p] = wwd[p]
           \/ wpc[p] \in {"none", "zombie"} /\ wpc'[p] \in {"none", "zombie", "start"}
  <1> DEFINE Same(r) ==
          /\ wpc'[r] = wpc[r] /\ wq'[r] = wq[r] /\ wwd'[r] = wwd[r]
          /\ wsrc'[r] = wsrc[r] /\ wdst'[r] = wdst[r] /\ wtodo'[r] = wtodo[r]
  <1>1. /\ wpc \in [Pid -> WorkerPc] /\ wq \in [Pid -> Queue] /\ wwd \in [Pid -> 0 .. MaxWd]
        /\ wsrc \in [Pid -> 0 .. MaxGen] /\ wdst \in [Pid -> 0 .. MaxGen]
        /\ wtodo \in [Pid -> SUBSET Event]
    BY DEF KeptInv, Inv, TypeOK, WorkerType
  <1>2. CASE UNCHANGED workerVars
    BY <1>2 DEF workerVars, jobVars
  <1>3. ASSUME NEW r \in Pid, Worker(r) \/ Handler(r), r # p
        PROVE  Same(p)
    <2>1. wq' = wq /\ wwd' = wwd
      BY <1>3, WorkerFrame
    <2>2. CASE WorkerOpen(r) \/ WorkerMkdir(r)
      BY <1>1, <1>3, <2>1, <2>2 DEF WorkerOpen, WorkerMkdir, WorkerExit
    <2>3. CASE \E e \in Event : WorkerMove(r, e)
      BY <1>1, <1>3, <2>1, <2>3 DEF WorkerMove, WorkerExit
    <2>4. CASE WorkerCheck(r) \/ WorkerRecheck(r) \/ WorkerSignal(r) \/ WorkerQuit(r)
                 \/ HandlerFails(r)
      BY <1>1, <1>3, <2>1, <2>4 DEF WorkerCheck, WorkerRecheck, WorkerSignal, WorkerQuit,
                                    HandlerFails, WorkerExit, jobVars
    <2>5. CASE Handler(r)
      BY <1>1, <1>3, <2>1, <2>5 DEF Handler, HandlerExit, HandlerDone, workerVars, jobVars
    <2> QED
      BY <1>3, <2>2, <2>3, <2>4, <2>5 DEF Worker
  <1>4. CASE Worker(p) \/ Handler(p)
    <2>1. wq' = wq /\ wwd' = wwd
      BY <1>4, WorkerFrame
    <2> QED
      BY <1>2, <1>4, <2>1 DEF Handler, HandlerDone
  <1>5. CASE ReapWorkers
    BY <1>1, <1>5 DEF ReapWorkers, jobVars
  <1>6. ASSUME NEW w \in Wd, NEW r \in Pid, Spawn(w, r)
        PROVE  Same(p) \/ (wpc[p] = "none" /\ wpc'[p] = "start")
    BY <1>1, <1>6 DEF Spawn, jobVars
  <1>7. CASE (\E k \in Kind, q \in Queue : MkDir(k, q)) \/ (\E e \in Event : Publish(e) \/ DoneEvent(e))
               \/ (\E e \in Event, d \in Dues : PublishTimer(e, d)) \/ Tick
               \/ (\E x \in Queue \cup {All} : PauseQueue(x))
    BY <1>2, <1>7 DEF MkDir, Publish, DoneEvent, PublishTimer, Tick, PauseQueue
  <1>8. ASSUME Daemon, ~Fatal, ~ReadDeleteSelf, ~ReapWorkers,
               \A w \in Wd, r \in Pid : ~Spawn(w, r)
        PROVE  UNCHANGED workerVars
    BY <1>8 DEF Daemon, Start, FirstScan, ScanDone, LinkWatch, FirstPause, ScanEntry, EpollWait,
                Dispatched, Dispatch, ReadTimer, ReadModify, ReadCreate, ReadPause,
                InotifyDrained, ReadPipe, PipeDrained, BeginUpdate, MoveTimerEvent,
                EndUpdate, ReadTimerDir, EnsureQueueDir, SpawnFails, Spawned, Goto
  <1> QED
    BY <1>2, <1>3, <1>4, <1>5, <1>6, <1>7, <1>8, KeptCases

\* F_DIRTY goes when the loop of main() takes the element.
LEMMA DirtyStays ==
    ASSUME NoRemoval, KeptInv, Next, NEW w \in dirty
    PROVE  \/ w \in dirty'
           \/ (\E p \in Pid : Spawn(w, p)) \/ SpawnFails(w)
  <1>1. ASSUME UNCHANGED dirtyVars
        PROVE  w \in dirty'
    BY <1>1 DEF dirtyVars
  <1>2. ASSUME NEW v, MarkDirty(v)
        PROVE  w \in dirty'
    BY <1>2 DEF MarkDirty
  <1>3. CASE LinkWatch \/ ReadModify \/ MoveTimerEvent \/ \E v \in Wd : ReadPipe(v)
    BY <1>1, <1>2, <1>3 DEF LinkWatch, ReadModify, MoveTimerEvent, ReadPipe
  <1>4. CASE (\E v \in Wd, p \in Pid : Spawn(v, p)) \/ (\E v \in Wd : SpawnFails(v))
    BY <1>4 DEF Spawn, SpawnFails, TakeDirty
  <1>5. CASE (\E k \in Kind, q \in Queue : MkDir(k, q)) \/ (\E e \in Event : Publish(e) \/ DoneEvent(e))
               \/ (\E e \in Event, d \in Dues : PublishTimer(e, d)) \/ Tick
               \/ (\E x \in Queue \cup {All} : PauseQueue(x))
    BY <1>1, <1>5 DEF MkDir, Publish, DoneEvent, PublishTimer, Tick, PauseQueue, daemonVars,
                      watchVars
  <1>6. ASSUME NEW p \in Pid, Worker(p) \/ Handler(p)
        PROVE  w \in dirty'
    BY <1>1, <1>6, WorkerFrame DEF daemonVars, watchVars
  <1>7. ASSUME Daemon, ~Fatal, ~ReadDeleteSelf, ~LinkWatch, ~ReadModify, ~MoveTimerEvent,
               \A v \in Wd : ~ReadPipe(v) /\ ~SpawnFails(v), \A v \in Wd, p \in Pid : ~Spawn(v, p)
        PROVE  UNCHANGED dirtyVars
    BY <1>7 DEF Daemon, Start, FirstScan, ScanDone, FirstPause, ScanEntry, EpollWait,
                Dispatched, Dispatch, ReapWorkers, ReadTimer, ReadCreate, ReadPause,
                InotifyDrained, PipeDrained, BeginUpdate, EndUpdate, ReadTimerDir,
                EnsureQueueDir, Spawned, Goto, watchVars
  <1> QED
    BY <1>1, <1>3, <1>4, <1>5, <1>6, <1>7, KeptCases

\* What is in the pipe was written by a worker and is there until it is read.
LEMMA PipeStays ==
    ASSUME NoRemoval, KeptInv, Next
    PROVE  /\ \A w \in pipe : w \in pipe' \/ ReadPipe(w)
           /\ \A w \in pipe' : w \in pipe \/ \E p \in Pid : wpc[p] = "signal" /\ w = wwd[p]
  <1> DEFINE Goal == /\ \A w \in pipe : w \in pipe' \/ ReadPipe(w)
                     /\ \A w \in pipe' : w \in pipe \/ \E p \in Pid : wpc[p] = "signal" /\ w = wwd[p]
  <1>1. CASE UNCHANGED pipe
    BY <1>1
  <1>2. CASE \E w \in Wd : ReadPipe(w)
    <2>1. PICK w \in Wd : ReadPipe(w)
      BY <1>2
    <2>2. pipe' = pipe \ {w}
      BY <2>1 DEF ReadPipe
    <2> QED
      BY <2>1, <2>2
  <1>3. ASSUME NEW p \in Pid, WorkerSignal(p)
        PROVE  Goal
    BY <1>3 DEF WorkerSignal
  <1>4. ASSUME NEW p \in Pid, Worker(p) \/ Handler(p), ~WorkerSignal(p)
        PROVE  UNCHANGED pipe
    BY <1>4 DEF Worker, Handler, WorkerOpen, WorkerMkdir, WorkerMove, WorkerCheck, HandlerFails,
                WorkerRecheck, WorkerQuit, HandlerExit, HandlerDone, kernelVars, wakeVars
  <1>5. CASE (\E k \in Kind, q \in Queue : MkDir(k, q)) \/ (\E e \in Event : Publish(e) \/ DoneEvent(e))
               \/ (\E e \in Event, d \in Dues : PublishTimer(e, d)) \/ Tick
               \/ (\E x \in Queue \cup {All} : PauseQueue(x))
    BY <1>1, <1>5 DEF MkDir, Publish, DoneEvent, PublishTimer, Tick, PauseQueue, kernelVars,
                      wakeVars
  <1>6. ASSUME Daemon, ~Fatal, ~ReadDeleteSelf, \A v \in Wd : ~ReadPipe(v)
        PROVE  UNCHANGED pipe
    BY <1>6 DEF Daemon, Start, FirstScan, ScanDone, LinkWatch, FirstPause, ScanEntry, EpollWait,
                Dispatched, Dispatch, ReapWorkers, ReadTimer, ReadModify, ReadCreate, ReadPause,
                InotifyDrained, PipeDrained, BeginUpdate, MoveTimerEvent, EndUpdate,
                ReadTimerDir, EnsureQueueDir, Spawn, SpawnFails, Spawned, Goto, kernelVars,
                wakeVars
  <1> QED
    BY <1>1, <1>2, <1>3, <1>4, <1>5, <1>6, KeptCases

----------------------------------------------------------------------------
(* No lost wakeup *)

\* Nothing happens to the queues behind the daemon's back but pauses: no event is
\* withdrawn, no fork fails, no notification is lost, and no client removes a
\* queue or makes events/q.
Undisturbed == Env \subseteq {"pause"}

\* The steps that such surroundings do not take.
LEMMA UndisturbedEnv ==
    ASSUME Undisturbed
    PROVE  /\ NoRemoval /\ NoOverflow
           /\ \A e \in Event : ~DoneEvent(e)
           /\ \A w \in Wd : ~SpawnFails(w)
           /\ \A p \in Pid : ~HandlerFails(p)
           /\ \A q \in Queue : ~MkDir("events", q)
  BY DEF Undisturbed, NoRemoval, NoOverflow, DoneEvent, SpawnFails, HandlerFails, MkDir

\* An event is in an existing directory.
EventsFiled ==
    \A e \in Event : /\ loc[e] = "ready" => dir["queue"][QueueOf[e]] # 0
                     /\ loc[e] = "events" => dir["events"][QueueOf[e]] # 0

\* The directories a worker has opened are those of its queue, and what it has
\* still to move is there.
Opened ==
    \A p \in Pid :
        /\ wpc[p] = "mkdir" => /\ wsrc[p] # 0 /\ wsrc[p] = dir["queue"][wq[p]]
                               /\ dir["events"][wq[p]] = 0
        /\ wpc[p] = "move" => /\ wdst[p] # 0 /\ wdst[p] = dir["events"][wq[p]]
                              /\ wtodo[p] \subseteq Files("ready", wq[p])

\* The pipe holds elements of queues.
PipeOwned == \A w \in pipe : w \in watch_list /\ wds[w].kind = "queue"

\* Every step keeps PipeOwned.
LEMMA PipeOwnedStep ==
    ASSUME NoRemoval, KeptInv, PipeOwned, Next
    PROVE  PipeOwned'
  <1>1. ~Stop /\ ~Fatal /\ TypeOK
    BY NothingLost DEF KeptInv, Inv
  <1>2. NodesKept /\ watch_list \subseteq watch_list' /\ watch_list \subseteq DOMAIN wds
    BY <1>1, NodesStep, ListGrows DEF TypeOK, WatchType
  <1>3. \A p \in Pid : wpc[p] = "signal" => wwd[p] \in watch_list /\ wds[wwd[p]].kind = "queue"
    BY DEF KeptInv, WorkersOwned, Children
  <1> QED
    BY <1>2, <1>3, PipeStays, SMTT(30) DEF PipeOwned, NodesKept

\* Every step keeps EventsFiled.
LEMMA FiledStep ==
    ASSUME NoRemoval, KeptInv, Opened, EventsFiled, Next
    PROVE  EventsFiled'
  <1> SUFFICES ASSUME NEW e \in Event
               PROVE  /\ loc'[e] = "ready" => dir'["queue"][QueueOf[e]] # 0
                      /\ loc'[e] = "events" => dir'["events"][QueueOf[e]] # 0
    BY DEF EventsFiled
  <1>1. QueueOf[e] \in Queue
    OBVIOUS
  <1>2. \A k \in Kind : dir[k][QueueOf[e]] # 0 => dir'[k][QueueOf[e]] # 0
    BY <1>1, DirsStep DEF DirsKept
  <1>3. CASE loc'[e] = loc[e]
    BY <1>2, <1>3 DEF EventsFiled, Kind
  <1>4. ASSUME NEW p \in Pid, WorkerMove(p, e)
        PROVE  dir["events"][QueueOf[e]] # 0
    BY <1>4 DEF WorkerMove, Opened, Files
  <1>5. CASE loc'[e] # loc[e]
    BY <1>2, <1>4, <1>5, LocChanges DEF Publish, Kind
  <1> QED
    BY <1>3, <1>5

\* events/q is made by the worker of q.
LEMMA EventsDirMade ==
    ASSUME Undisturbed, KeptInv, Next, NEW q \in Queue, dir'["events"][q] # dir["events"][q]
    PROVE  \E p \in Pid : WorkerMkdir(p) /\ wq[p] = q
  <1>1. dir \in [Kind -> [Queue -> 0 .. MaxGen]] /\ wq \in [Pid -> Queue]
    BY DEF KeptInv, Inv, TypeOK, FsType, WorkerType
  <1>2. ASSUME NEW p \in Pid, WorkerMkdir(p)
        PROVE  wq[p] = q
    BY <1>1, <1>2, SMTT(30) DEF WorkerMkdir, Kind
  <1>3. ASSUME NEW p \in Pid, Worker(p) \/ Handler(p)
        PROVE  WorkerMkdir(p)
    BY <1>3, WorkerFrame DEF dirVars
  <1>4. \A k \in Kind, x \in Queue : ~MkDir(k, x)
    BY <1>1, UndisturbedEnv DEF MkDir, Kind
  <1>5. ~Tick /\ (\A e \in Event : ~Publish(e) /\ ~DoneEvent(e))
          /\ (\A e \in Event, d \in Dues : ~PublishTimer(e, d))
          /\ \A x \in Queue \cup {All} : ~PauseQueue(x)
    BY DEF Tick, Publish, DoneEvent, PublishTimer, PauseQueue, dirVars
  <1>6. \A e \in Event : ~EnsureQueueDir(e)
    BY <1>1 DEF EnsureQueueDir, Kind
  <1>7. ~(Daemon /\ ~Fatal /\ ~ReadDeleteSelf)
    BY <1>6 DEF Daemon, Start, FirstScan, ScanDone, LinkWatch, FirstPause, ScanEntry, EpollWait,
                Dispatched, Dispatch, ReapWorkers, ReadTimer, ReadModify, ReadCreate, ReadPause,
                InotifyDrained, ReadPipe, PipeDrained, BeginUpdate, MoveTimerEvent, EndUpdate,
                ReadTimerDir, Spawn, SpawnFails, Spawned, Goto, fsVars, dirVars
  <1> QED
    BY <1>2, <1>3, <1>4, <1>5, <1>7, KeptCases, UndisturbedEnv

\* What a worker's own step makes of Opened.
LEMMA WorkerOpened ==
    ASSUME Undisturbed, KeptInv, Opened, NEW p \in Pid, Worker(p) \/ HandlerExit(p)
    PROVE  /\ wpc'[p] = "mkdir" => /\ wsrc'[p] # 0 /\ wsrc'[p] = dir'["queue"][wq[p]]
                                   /\ dir'["events"][wq[p]] = 0
           /\ wpc'[p] = "move" => /\ wdst'[p] # 0 /\ wdst'[p] = dir'["events"][wq[p]]
                                  /\ wtodo'[p] \subseteq {e \in Event : loc'[e] = "ready" /\ QueueOf[e] = wq[p]}
  <1>1. /\ wpc \in [Pid -> WorkerPc] /\ wq \in [Pid -> Queue] /\ wsrc \in [Pid -> 0 .. MaxGen]
        /\ wdst \in [Pid -> 0 .. MaxGen] /\ wtodo \in [Pid -> SUBSET Event]
        /\ dir \in [Kind -> [Queue -> 0 .. MaxGen]] /\ gens \in [Kind -> [Queue -> 0 .. MaxGen]]
        /\ loc \in [Event -> Loc]
    BY DEF KeptInv, Inv, TypeOK, WorkerType, FsType
  <1>2. CASE WorkerOpen(p)
    BY <1>1, <1>2, SMTT(30) DEF WorkerOpen, WorkerExit, Files, fsVars, dirVars
  <1>3. CASE WorkerMkdir(p)
    BY <1>1, <1>3, SMTT(30) DEF WorkerMkdir, WorkerExit, Entries, Files, Kind
  <1>4. CASE \E e \in Event : WorkerMove(p, e)
    BY <1>1, <1>4, SMTT(30) DEF WorkerMove, WorkerExit, Opened, Files, dirVars
  <1>5. CASE WorkerCheck(p) \/ WorkerRecheck(p) \/ WorkerSignal(p) \/ WorkerQuit(p) \/ HandlerExit(p)
    BY <1>1, <1>5 DEF WorkerCheck, WorkerRecheck, WorkerSignal, WorkerQuit, HandlerExit, WorkerExit
  <1> QED
    BY <1>2, <1>3, <1>4, <1>5, UndisturbedEnv DEF Worker

\* Every step keeps Opened: nobody but the one worker of a queue makes events/q
\* and moves events out of queues/q.
LEMMA OpenedStep ==
    ASSUME Undisturbed, KeptInv, Opened, Next
    PROVE  Opened'
  <1> SUFFICES ASSUME NEW p \in Pid
               PROVE  /\ wpc'[p] = "mkdir" => /\ wsrc'[p] # 0 /\ wsrc'[p] = dir'["queue"][wq'[p]]
                                              /\ dir'["events"][wq'[p]] = 0
                      /\ wpc'[p] = "move" => /\ wdst'[p] # 0 /\ wdst'[p] = dir'["events"][wq'[p]]
                                             /\ wtodo'[p] \subseteq {e \in Event : loc'[e] = "ready" /\ QueueOf[e] = wq'[p]}
    BY DEF Opened, Files
  <1> DEFINE q == wq[p]
  <1>1. q \in Queue /\ NoRemoval
    BY UndisturbedEnv DEF KeptInv, Inv, TypeOK, WorkerType
  <1>2. CASE (Worker(p) \/ HandlerExit(p)) /\ wq'[p] = q
    BY <1>2, WorkerOpened
  <1>3. CASE wpc'[p] \in {"none", "zombie", "start"}
    BY <1>3
  <1>4. ASSUME wpc'[p] = wpc[p], wq'[p] = q, wsrc'[p] = wsrc[p], wdst'[p] = wdst[p],
               wtodo'[p] = wtodo[p], wpc[p] \in {"mkdir", "move"}, ~Worker(p)
        PROVE  /\ wpc[p] = "mkdir" => /\ wsrc[p] # 0 /\ wsrc[p] = dir'["queue"][q]
                                      /\ dir'["events"][q] = 0
               /\ wpc[p] = "move" => /\ wdst[p] # 0 /\ wdst[p] = dir'["events"][q]
                                     /\ wtodo[p] \subseteq {e \in Event : loc'[e] = "ready" /\ QueueOf[e] = q}
    <2>1. p \in Children
      BY <1>4 DEF Children
    <2>2. dir'["events"][q] = dir["events"][q]
      <3>1. ASSUME NEW r \in Pid, WorkerMkdir(r), wq[r] = q
            PROVE  FALSE
        <4>1. r \in Children
          BY <3>1 DEF WorkerMkdir, Children
        <4> QED
          BY <1>4, <2>1, <3>1, <4>1, OneWorkerPerQueue DEF Worker
      <3> QED
        BY <1>1, <3>1, EventsDirMade
    <2>3. dir["queue"][q] # 0 => dir'["queue"][q] = dir["queue"][q]
      BY <1>1, DirsStep DEF DirsKept, Kind
    <2>4. ASSUME wpc[p] = "move", NEW e \in wtodo[p]
          PROVE  e \in Event /\ loc'[e] = "ready" /\ QueueOf[e] = q
      <3>1. e \in Event /\ loc[e] = "ready" /\ QueueOf[e] = q
        BY <2>4 DEF Opened, Files
      <3>2. ASSUME NEW r \in Pid, WorkerMove(r, e)
            PROVE  FALSE
        <4>1. r \in Children /\ e \in Files("ready", wq[r])
          BY <3>2 DEF WorkerMove, Children, Opened
        <4>2. r = p
          BY <2>1, <3>1, <4>1, OneWorkerPerQueue DEF Files
        <4> QED
          BY <1>4, <3>1, <3>2, <4>2 DEF Worker
      <3> QED
        BY <1>1, <3>1, <3>2, LocChanges, UndisturbedEnv DEF Publish, PublishTimer
    <2> QED
      BY <1>4, <2>2, <2>3, <2>4 DEF Opened
  <1>5. CASE wpc'[p] = wpc[p] /\ wq'[p] = q /\ wsrc'[p] = wsrc[p] /\ wdst'[p] = wdst[p]
               /\ wtodo'[p] = wtodo[p]
    <2>1. CASE Worker(p)
      BY <1>5, <2>1, WorkerOpened
    <2>2. CASE ~Worker(p) /\ wpc[p] \in {"mkdir", "move"}
      BY <1>4, <1>5, <2>2
    <2> QED
      BY <1>5, <2>1, <2>2
  <1> QED
    BY <1>1, <1>2, <1>3, <1>5, WorkerChanges

\* Somebody will look at queues/q for event e: its element is dirty, a notification
\* is queued, no watch has been added yet or watch_path has not yet looked, or the
\* queue's worker has still to read the directory or to move e.
Noticed(e, q) ==
    \/ \E w \in dirty : wds[w].queue = q
    \/ \E w \in Watches("queue", q) : Ev("modify", w) \in Queued(inotify)
    \/ Watches("queue", q) = {}
    \/ pc = "link" /\ pend \in Watches("queue", q)
    \/ \E p \in Pid : /\ wq[p] = q
                      /\ wpc[p] \in {"start", "mkdir"} \/ (wpc[p] = "move" /\ e \in wtodo[p])

\* Somebody will look at events/q: its element is dirty or in the pipe, or the
\* queue's worker has still to look.
AtWork == {"start", "mkdir", "move", "handler", "recheck", "signal"}
Attended(q) ==
    \/ \E w \in dirty \cup pipe : wds[w].queue = q
    \/ \E p \in Pid : wq[p] = q /\ wpc[p] \in AtWork

ReadyNoticed == \A e \in Event : loc[e] = "ready" => Noticed(e, QueueOf[e])
LeftAttended == \A e \in Event : loc[e] = "events" => Attended(QueueOf[e])

\* A worker's queue is there.
LEMMA WorkerDir ==
    ASSUME KeptInv, NEW p \in Children
    PROVE  dir["queue"][wq[p]] # 0
  <1>1. wwd[p] \in DOMAIN wds /\ wds[wwd[p]].kind = "queue" /\ wds[wwd[p]].queue = wq[p]
    BY DEF KeptInv, WorkersOwned, Inv, TypeOK, WatchType
  <1>2. wds[wwd[p]] \in WatchNode
    BY <1>1, SMTT(30) DEF KeptInv, Inv, TypeOK, KernelType
  <1>3. wds[wwd[p]].gen # 0
    BY <1>2, SMTT(30) DEF WatchNode
  <1> QED
    BY <1>1, <1>3 DEF KeptInv, WatchesUnique

\* A dirty element stays dirty until a worker is started for its queue.
LEMMA DirtyServed ==
    ASSUME Undisturbed, KeptInv, Next, NEW q, NEW w \in dirty, wds[w].queue = q
    PROVE  \/ \E v \in dirty' : wds'[v].queue = q
           \/ \E p \in Pid : wq'[p] = q /\ wpc'[p] = "start"
  <1>1. NoRemoval /\ NodesKept /\ w \in DOMAIN wds
    BY UndisturbedEnv, NothingLost, NodesStep DEF KeptInv, Inv, TypeOK, WatchType
  <1>2. CASE w \in dirty'
    BY <1>1, <1>2 DEF NodesKept
  <1>3. ASSUME NEW p \in Pid, Spawn(w, p)
        PROVE  wq'[p] = q /\ wpc'[p] = "start"
    BY <1>3 DEF Spawn, KeptInv, Inv, TypeOK, WorkerType
  <1> QED
    BY <1>1, <1>2, <1>3, DirtyStays, UndisturbedEnv, SMTT(30) DEF KeptInv, Inv, TypeOK, WatchType, KernelType, Wd

\* process_events does not end while there is an event in events/q, but by
\* writing to the pipe.
LEMMA WorkerAttends ==
    ASSUME Undisturbed, KeptInv, Opened, EventsFiled, NEW p \in Pid, wpc[p] \in AtWork,
           NEW e \in Event, loc[e] = "events", QueueOf[e] = wq[p], Worker(p) \/ HandlerExit(p)
    PROVE  wpc'[p] \in AtWork \/ wwd[p] \in pipe'
  <1>1. wpc \in [Pid -> WorkerPc]
    BY DEF KeptInv, Inv, TypeOK, WorkerType
  <1>2. p \in Children /\ dir["queue"][wq[p]] # 0 /\ dir["events"][wq[p]] # 0 /\ NotEmpty("events", wq[p])
    BY WorkerDir DEF Children, AtWork, EventsFiled, NotEmpty, Files
  <1>3. CASE WorkerOpen(p)
    BY <1>1, <1>2, <1>3 DEF WorkerOpen, AtWork
  <1>4. CASE WorkerMkdir(p)
    BY <1>1, <1>2, <1>4 DEF WorkerMkdir, Opened, AtWork
  <1>5. CASE \E x \in Event : WorkerMove(p, x)
    BY <1>1, <1>5 DEF WorkerMove, Opened, Files, AtWork
  <1>6. CASE WorkerCheck(p) \/ WorkerRecheck(p)
    BY <1>1, <1>2, <1>6 DEF WorkerCheck, WorkerRecheck, Unhandled, AtWork
  <1>7. CASE WorkerSignal(p) \/ WorkerQuit(p)
    BY <1>7 DEF WorkerSignal, WorkerQuit, AtWork
  <1>8. CASE HandlerExit(p)
    BY <1>1, <1>8 DEF HandlerExit, AtWork, KeptInv, WorkersOwned
  <1> QED
    BY <1>3, <1>4, <1>5, <1>6, <1>7, <1>8, UndisturbedEnv DEF Worker

\* Every step keeps LeftAttended.
LEMMA LeftStep ==
    ASSUME Undisturbed, KeptInv, Opened, EventsFiled, PipeOwned, LeftAttended, Next
    PROVE  LeftAttended'
  <1> SUFFICES ASSUME NEW e \in Event, loc'[e] = "events"
               PROVE  Attended(QueueOf[e])'
    BY DEF LeftAttended
  <1> DEFINE q == QueueOf[e]
  <1>1. NoRemoval /\ NodesKept /\ TypeOK
    BY UndisturbedEnv, NothingLost, NodesStep DEF KeptInv, Inv
  <1>2. CASE loc[e] # "events"
    <2>1. PICK p \in Pid : WorkerMove(p, e) /\ dir["events"][wq[p]] = wdst[p] /\ loc[e] = "ready"
      BY <1>1, <1>2, LocChanges
    <2>2. wpc'[p] = "move" /\ wq'[p] = wq[p] /\ wq[p] = q
      BY <2>1 DEF WorkerMove, Opened, Files
    <2> QED
      BY <2>2 DEF Attended, AtWork
  <1>3. ASSUME NEW w \in dirty, wds[w].queue = q
        PROVE  Attended(q)'
    BY <1>3, DirtyServed, SMTT(30) DEF Attended, AtWork
  <1>4. ASSUME NEW w \in pipe, wds[w].queue = q
        PROVE  Attended(q)'
    <2>1. w \in DOMAIN wds /\ w \in watch_list /\ wds[w].kind = "queue"
      BY <1>1 DEF PipeOwned, TypeOK, WatchType
    <2>2. w \in pipe' \/ w \in dirty'
      BY <1>1, <2>1, PipeStays DEF ReadPipe, MarkDirty
    <2> QED
      BY <1>1, <1>4, <2>1, <2>2 DEF Attended, NodesKept
  <1>5. ASSUME NEW p \in Pid, wq[p] = q, wpc[p] \in AtWork, loc[e] = "events"
        PROVE  Attended(q)'
    <2>1. CASE wpc'[p] = wpc[p] /\ wq'[p] = wq[p]
      BY <1>5, <2>1 DEF Attended
    <2>2. CASE (Worker(p) \/ HandlerExit(p)) /\ wq'[p] = wq[p]
      <3>1. wwd[p] \in DOMAIN wds /\ wds[wwd[p]].queue = q
        BY <1>1, <1>5 DEF AtWork, KeptInv, WorkersOwned, Children, TypeOK, WatchType
      <3> QED
        BY <1>1, <1>5, <2>2, <3>1, WorkerAttends DEF Attended, NodesKept
    <2> QED
      BY <1>1, <1>5, <2>1, <2>2, WorkerChanges DEF AtWork
  <1> QED
    BY <1>2, <1>3, <1>4, <1>5 DEF LeftAttended, Attended

\* The kernel's watches of a directory are the daemon's.
LEMMA WatchOfKept ==
    ASSUME KeptInv, NEW k, NEW q
    PROVE  WatchOf(k, q) = Watches(k, q)
  BY DEF KeptInv, WatchesUnique, WatchOf, Watches

\* An event that arrives in a watched queue is notified.
LEMMA ArrivalNoticed ==
    ASSUME NoOverflow, KeptInv, NEW e, NEW q, inotify' = NotifyDir(inotify, "queue", q, "modify"),
           wds' = wds
    PROVE  Noticed(e, q)'
  <1>1. Watches("queue", q)' = Watches("queue", q)
    BY DEF Watches
  <1>2. \/ Watches("queue", q) = {}
        \/ \E w \in Watches("queue", q) : Queued(inotify') = Queued(inotify) \cup {Ev("modify", w)}
    BY DirQueues, WatchOfKept, SMTT(30) DEF KeptInv, Inv
  <1> QED
    BY <1>1, <1>2 DEF Noticed

\* What becomes of a queued notification about a queue directory.
LEMMA ModifyHeard ==
    ASSUME NoRemoval, NoOverflow, KeptInv, Linked, Next, NEW q, NEW w \in Watches("queue", q),
           Ev("modify", w) \in Queued(inotify)
    PROVE  /\ w \in Watches("queue", q)'
           /\ w \in dirty' \/ Ev("modify", w) \in Queued(inotify')
  <1>1. ~Stop /\ ~Fatal /\ ~ReadDeleteSelf /\ TypeOK
    BY NothingLost DEF KeptInv, Inv
  <1>2. w \in Watches("queue", q)'
    BY <1>1, NodesStep, WatchesStay
  <1>3. CASE ReadModify /\ Head(inotify) = Ev("modify", w)
    <2>1. Head(inotify).wd = w /\ pc = "inotify"
      BY <1>3, SMTT(30) DEF ReadModify, Ev
    <2>2. w \in watch_list /\ wds[w].kind = "queue"
      BY <2>1 DEF Linked, Watches
    <2> QED
      BY <1>2, <1>3, <2>1, <2>2 DEF ReadModify, MarkDirty
  <1>4. CASE (ReadCreate \/ ReadPause) /\ Head(inotify) = Ev("modify", w)
    BY <1>4, SMTT(30) DEF ReadCreate, ReadPause, Ev
  <1> QED
    BY <1>1, <1>2, <1>3, <1>4, NotesKept

\* move_files finds an event that is in queues/q and keeps it until it has
\* moved it.
LEMMA WorkerFinds ==
    ASSUME Undisturbed, KeptInv, Opened, NEW p \in Pid, NEW e \in Event, loc[e] = "ready",
           QueueOf[e] = wq[p], wpc[p] \in {"start", "mkdir"} \/ (wpc[p] = "move" /\ e \in wtodo[p]),
           Worker(p) \/ HandlerExit(p), loc'[e] = "ready"
    PROVE  wpc'[p] \in {"start", "mkdir"} \/ (wpc'[p] = "move" /\ e \in wtodo'[p])
  <1>1. wpc \in [Pid -> WorkerPc] /\ wtodo \in [Pid -> SUBSET Event] /\ loc \in [Event -> Loc]
    BY DEF KeptInv, Inv, TypeOK, WorkerType, FsType
  <1>2. p \in Children /\ dir["queue"][wq[p]] # 0 /\ e \in Files("ready", wq[p])
    BY WorkerDir DEF Children, Files
  <1>3. CASE WorkerOpen(p)
    BY <1>1, <1>2, <1>3 DEF WorkerOpen
  <1>4. CASE WorkerMkdir(p)
    BY <1>1, <1>2, <1>4 DEF WorkerMkdir, Opened, Entries
  <1>5. ASSUME NEW x \in Event, WorkerMove(p, x)
        PROVE  wpc'[p] = "move" /\ e \in wtodo'[p]
    <2>1. loc[x] = "ready" /\ dir["events"][wq[p]] = wdst[p]
      BY <1>5 DEF WorkerMove, Opened, Files
    <2>2. loc' = [loc EXCEPT ![x] = "events"] /\ wpc' = wpc /\ wtodo' = [wtodo EXCEPT ![p] = @ \ {x}]
      BY <1>5, <2>1 DEF WorkerMove
    <2>3. x # e
      BY <1>1, <2>2
    <2> QED
      BY <1>1, <1>5, <2>2, <2>3 DEF WorkerMove
  <1>6. ~WorkerCheck(p) /\ ~WorkerRecheck(p) /\ ~WorkerSignal(p) /\ ~WorkerQuit(p) /\ ~HandlerExit(p)
    BY DEF WorkerCheck, WorkerRecheck, WorkerSignal, WorkerQuit, HandlerExit
  <1> QED
    BY <1>3, <1>4, <1>5, <1>6, UndisturbedEnv DEF Worker

\* Every step keeps ReadyNoticed.
LEMMA ReadyStep ==
    ASSUME Undisturbed, KeptInv, Linked, Opened, ReadyNoticed, Next
    PROVE  ReadyNoticed'
  <1> SUFFICES ASSUME NEW e \in Event, loc'[e] = "ready"
               PROVE  Noticed(e, QueueOf[e])'
    BY DEF ReadyNoticed
  <1> DEFINE q == QueueOf[e]
  <1>1. NoRemoval /\ NoOverflow /\ NodesKept /\ TypeOK /\ ~Stop /\ ~Fatal
    BY UndisturbedEnv, NothingLost, NodesStep DEF KeptInv, Inv
  <1>2. CASE loc[e] # "ready"
    <2>1. Publish(e) \/ (MoveTimerEvent /\ e = cur /\ loc[e] = "timer" /\ dir["queue"][q] # 0)
      BY <1>1, <1>2, LocChanges
    <2>2. inotify' = NotifyDir(inotify, "queue", q, "modify") /\ wds' = wds
      BY <2>1 DEF Publish, MoveTimerEvent, attachVars
    <2> QED
      BY <1>1, <2>2, ArrivalNoticed
  <1>3. ASSUME NEW w \in dirty, wds[w].queue = q
        PROVE  Noticed(e, q)'
    BY <1>3, DirtyServed DEF Noticed
  <1>4. ASSUME NEW w \in Watches("queue", q), Ev("modify", w) \in Queued(inotify)
        PROVE  Noticed(e, q)'
    <2>1. w \in Watches("queue", q)' /\ (w \in dirty' \/ Ev("modify", w) \in Queued(inotify'))
      BY <1>1, <1>4, ModifyHeard
    <2> QED
      BY <2>1 DEF Noticed, Watches
  <1>5. CASE Watches("queue", q) = {}
    <2>1. \A w \in Watches("queue", q)' : w \notin DOMAIN wds
      BY <1>1, <1>5 DEF Watches, NodesKept
    <2>2. \A w \in Watches("queue", q)' : pc' = "link" /\ w = pend'
      BY <1>1, <2>1, WatchAdded DEF Watches
    <2> QED
      BY <2>2 DEF Noticed
  <1>6. CASE pc = "link" /\ pend \in Watches("queue", q) /\ loc[e] = "ready"
    <2>1. pend \in Watches("queue", q)'
      BY <1>1, <1>6, WatchesStay
    <2>2. CASE LinkWatch
      <3>1. NotEmpty("ready", q) /\ wds[pend].kind = "queue" /\ wds[pend].queue = q
        BY <1>6 DEF NotEmpty, Files, Watches
      <3>2. pend \in dirty'
        BY <2>2, <3>1 DEF LinkWatch, MarkDirty
      <3> QED
        BY <2>1, <3>2 DEF Noticed, Watches
    <2>3. CASE ~LinkWatch
      BY <1>1, <1>6, <2>1, <2>3, LinkPending DEF Noticed
    <2> QED
      BY <2>2, <2>3
  <1>7. ASSUME NEW p \in Pid, wq[p] = q, loc[e] = "ready",
               wpc[p] \in {"start", "mkdir"} \/ (wpc[p] = "move" /\ e \in wtodo[p])
        PROVE  Noticed(e, q)'
    <2>1. CASE wpc'[p] = wpc[p] /\ wq'[p] = wq[p] /\ wtodo'[p] = wtodo[p]
      BY <1>7, <2>1 DEF Noticed
    <2>2. CASE (Worker(p) \/ HandlerExit(p)) /\ wq'[p] = wq[p]
      BY <1>7, <2>2, WorkerFinds DEF Noticed
    <2> QED
      BY <1>1, <1>7, <2>1, <2>2, WorkerChanges
  <1> QED
    BY <1>2, <1>3, <1>4, <1>5, <1>6, <1>7 DEF ReadyNoticed, Noticed

\* The inductive invariant: KeptInv, and that every event has somebody who will
\* look at it.
WakeInv ==
    /\ ControlInv /\ Linked /\ Found("queue") /\ EventsFiled /\ Opened /\ PipeOwned
    /\ ReadyNoticed /\ LeftAttended

\* Initially.
LEMMA WakeInitial == Init => WakeInv
  <1> SUFFICES ASSUME Init PROVE WakeInv
    OBVIOUS
  <1>1. ControlInv /\ Found("queue")
    BY DEF Init, ControlInv, Found
  <1>2. Linked /\ PipeOwned
    BY SMTT(30) DEF Init, Linked, PipeOwned
  <1>3. EventsFiled /\ Opened /\ ReadyNoticed /\ LeftAttended
    BY DEF Init, EventsFiled, Opened, ReadyNoticed, LeftAttended
  <1> QED
    BY <1>1, <1>2, <1>3 DEF WakeInv

\* Every step keeps WakeInv.
LEMMA WakeStep ==
    ASSUME Undisturbed
    PROVE  KeptInv /\ WakeInv /\ [Next]_vars => WakeInv'
  <1> SUFFICES ASSUME KeptInv, WakeInv, [Next]_vars PROVE WakeInv'
    OBVIOUS
  <1>1. CASE UNCHANGED vars
    <2>1. /\ UNCHANGED <<dir, loc, inotify, wds, pipe, watch_list, dirty, timer_changed>>
          /\ UNCHANGED <<pc, booted, scan, skind, pend, tscan, duetodo, cur>>
          /\ UNCHANGED <<wpc, wq, wsrc, wdst, wtodo>>
      BY <1>1 DEF vars, fsVars, dirVars, kernelVars, attachVars, wakeVars, daemonVars, watchVars,
                  dirtyVars, localVars, updateVars, workerVars, jobVars
    <2>2. ControlInv' /\ Linked' /\ PipeOwned' /\ EventsFiled'
      BY <2>1 DEF WakeInv, ControlInv, InUpdate, Scanning, Linked, PipeOwned, EventsFiled
    <2>3. Found("queue")'
      BY <2>1 DEF WakeInv, Found, Existing, Watches, Noted, Queued, Scanning
    <2>4. Opened'
      BY <2>1 DEF WakeInv, Opened, Files
    <2>5. LeftAttended'
      BY <2>1 DEF WakeInv, LeftAttended, Attended
    <2>6. ReadyNoticed'
      BY <2>1, SMTT(30) DEF WakeInv, ReadyNoticed, Noticed, Watches, Queued
    <2> QED
      BY <2>2, <2>3, <2>4, <2>5, <2>6 DEF WakeInv
  <1>2. CASE Next
    <2>1. ControlInv' /\ Linked' /\ Found("queue")'
      BY UndisturbedEnv, <1>2, ControlStep, LinkedStep, DirsFoundStep DEF WakeInv, KeptInv, Inv, WatchKind
    <2>2. EventsFiled' /\ Opened' /\ PipeOwned'
      BY UndisturbedEnv, <1>2, FiledStep, OpenedStep, PipeOwnedStep DEF WakeInv
    <2>3. ReadyNoticed' /\ LeftAttended'
      BY <1>2, ReadyStep, LeftStep DEF WakeInv
    <2> QED
      BY <2>1, <2>2, <2>3 DEF WakeInv
  <1> QED
    BY <1>1, <1>2

\* When everybody sleeps, what is left of WakeInv is that the queue is dirty.
LEMMA WakeEnough == KeptInv /\ WakeInv => NoLostWakeup
  <1> SUFFICES ASSUME KeptInv, WakeInv, pc = "wait", ReadyFds = {}, Children = {},
                      NEW e \in Event, loc[e] \in {"ready", "events"}
               PROVE  \E w \in dirty : wds[w].queue = QueueOf[e]
    BY DEF NoLostWakeup
  <1>1. inotify = <<>> /\ pipe = {}
    BY DEF ReadyFds, Fd
  <1>2. Queued(inotify) = {}
    BY <1>1, SMTT(30) DEF Queued
  <1>3. \A p \in Pid : wpc[p] = "none"
    BY DEF Children, KeptInv, WorkersOwned
  <1>4. CASE loc[e] = "ready"
    <2>1. Watches("queue", QueueOf[e]) # {}
      BY <1>2, <1>4 DEF WakeInv, Found, Existing, EventsFiled, ControlInv, Scanning, Noted
    <2> QED
      BY <1>2, <1>3, <1>4, <2>1 DEF WakeInv, ReadyNoticed, Noticed
  <1>5. CASE loc[e] = "events"
    BY <1>1, <1>3, <1>5 DEF WakeInv, LeftAttended, Attended, AtWork
  <1> QED
    BY <1>4, <1>5

============================================================================
