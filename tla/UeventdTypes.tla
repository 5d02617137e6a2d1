---------------------------- MODULE UeventdTypes ----------------------------
(***************************************************************************)
(* The steps of the clients, of the workers, of the scans that install the *)
(* watches and of the daemon's loop keep every variable in its type.       *)
(***************************************************************************)
EXTENDS Ueventd, TLAPS

USE ConstantsAssumption
\* Zenon with thirty seconds for a leaf, unless the leaf names another prover.
USE ZenonT(30)

\* Rewriting one entry of a sequence, as LinkWatch does with the inode of a
\* watch node, keeps its length and its type.
LEMMA ReplaceNode ==
    ASSUME NEW S, NEW s \in Seq(S), NEW i \in DOMAIN s, NEW e \in S
    PROVE  /\ [s EXCEPT ![i] = e] \in Seq(S)
           /\ Len([s EXCEPT ![i] = e]) = Len(s)
           /\ DOMAIN [s EXCEPT ![i] = e] = DOMAIN s
  <1> DEFINE r == [s EXCEPT ![i] = e]
  <1>1. DOMAIN r = 1 .. Len(s) /\ Len(s) \in Nat
    BY SMTT(30)
  <1>2. r \in [1 .. Len(s) -> S]
    BY SMTT(30)
  <1>3. r \in Seq(S)
    BY <1>1, <1>2, SMTT(30)
  <1> QED
    BY <1>1, <1>3, SMTT(30)

\* Queueing a notification keeps the queue well typed.
LEMMA NotifyType ==
    ASSUME NEW s \in Seq(InotifyEvent), NEW ev \in InotifyEvent
    PROVE  Notify(s, ev) \in Seq(InotifyEvent)
  BY SMTT(30) DEF Notify

\* So does reporting a change to the watches of the parent directories.
LEMMA NotifyRootType ==
    ASSUME KernelType, NEW m \in {"create_queue", "create_timer", "pause"}
    PROVE  NotifyRoot(inotify, m) \in Seq(InotifyEvent)
  <1>1. Ev(m, 0) \in InotifyEvent
    BY DEF Ev, InotifyEvent
  <1> QED
    BY <1>1, NotifyType DEF NotifyRoot, KernelType

\* So does a change of a queue or timer directory, watched or not.
LEMMA NotifyDirType ==
    ASSUME KernelType, NEW k, NEW q, NEW m \in {"modify", "delete_self"}
    PROVE  NotifyDir(inotify, k, q, m) \in Seq(InotifyEvent)
  <1>1. CASE WatchOf(k, q) = {}
    BY <1>1 DEF NotifyDir, KernelType
  <1>2. CASE WatchOf(k, q) # {}
    <2> DEFINE w == CHOOSE v \in WatchOf(k, q) : TRUE
    <2>1. w \in kwatch
      BY <1>2 DEF WatchOf
    <2>2. w \in Wd
      BY <2>1, SMTT(30) DEF KernelType, Wd
    <2>3. Ev(m, w) \in InotifyEvent
      BY <2>2 DEF Ev, InotifyEvent
    <2> QED
      BY <1>2, <2>3, NotifyType DEF NotifyDir, KernelType
  <1> QED
    BY <1>1, <1>2

----------------------------------------------------------------------------
(* A group of variables that a step leaves alone keeps its type.           *)

\* A step of the daemon that touches no file keeps the types of the files.
LEMMA FsStutter == FsType /\ UNCHANGED fsVars => FsType'
  BY DEF FsType, fsVars, dirVars, clientVars

\* A step that neither waits, wakes nor watches keeps the kernel's types.
LEMMA KernelStutter == KernelType /\ UNCHANGED kernelVars => KernelType'
  BY DEF KernelType, kernelVars, attachVars, wakeVars

\* A step that leaves the watch list alone keeps its type.
LEMMA WatchStutter == WatchType /\ UNCHANGED <<watchVars, wds>> => WatchType'
  BY DEF WatchType, watchVars, dirtyVars, pauseVars

\* A step outside the daemon's loop keeps the type of the loop's locals.
LEMMA ControlStutter ==
    ControlType /\ UNCHANGED <<pc, localVars, wds>> => ControlType'
  BY DEF ControlType, localVars, updateVars

\* A step that leaves the workers alone keeps their type.
LEMMA WorkerStutter == WorkerType /\ UNCHANGED <<workerVars, faults>> => WorkerType'
  BY DEF WorkerType, workerVars, jobVars

\* apply_pause gives F_PAUSED to elements of the watch list only.
LEMMA ApplyPauseType ==
    ASSUME WatchType, ApplyPause,
           UNCHANGED <<watch_list, dirtyVars, q_pid, timer_changed, wds>>
    PROVE  WatchType'
  <1>1. paused' \subseteq watch_list
    BY DEF ApplyPause
  <1>2. pause_all' \in BOOLEAN
    BY SMTT(30) DEF ApplyPause
  <1> QED
    BY <1>1, <1>2 DEF WatchType, dirtyVars

\* mark_queue_dirty on an element of the watch list.
LEMMA MarkDirtyType ==
    ASSUME WatchType, UNCHANGED dirtyVars \/ (\E w \in watch_list : MarkDirty(w)),
           UNCHANGED <<watch_list, pauseVars, q_pid, timer_changed, wds>>
    PROVE  WatchType'
  <1>1. dirty' \subseteq watch_list
    BY DEF WatchType, MarkDirty, dirtyVars
  <1>2. dirty_queues' \in Nat
    BY SMTT(30) DEF WatchType, MarkDirty, dirtyVars
  <1> QED
    BY <1>1, <1>2 DEF WatchType, pauseVars

\* The loop of main() takes an element: the counter stays a natural number.
LEMMA TakeDirtyType ==
    ASSUME WatchType, NEW w, TakeDirty(w), q_pid' \in [Wd -> Pid \cup {NoPid}],
           UNCHANGED <<watch_list, pauseVars, timer_changed, wds>>
    PROVE  WatchType'
  <1>1. dirty' \subseteq watch_list
    BY DEF WatchType, TakeDirty
  <1>2. dirty_queues' \in Nat
    BY SMTT(30) DEF WatchType, TakeDirty
  <1> QED
    BY <1>1, <1>2 DEF WatchType, pauseVars

\* watch_path is called for a directory that exists.
LEMMA ScannedDir ==
    ASSUME TypeOK, NEW q \in Queue, ScanEntry(q)
    PROVE  dir[skind][q] \in 1 .. MaxGen /\ skind \in WatchKind
  <1>1. skind \in WatchKind
    BY DEF TypeOK, ControlType
  <1>2. dir[skind][q] \in 0 .. MaxGen
    BY <1>1, SMTT(30) DEF TypeOK, FsType, WatchKind, Kind
  <1>3. dir[skind][q] # 0
    BY DEF ScanEntry
  <1> QED
    BY <1>1, <1>2, <1>3, SMTT(30)

\* ensure_queue_dir returns with an instance of the queue's directory.
LEMMA EnsuredDir ==
    ASSUME TypeOK, NEW e \in Event, EnsureQueueDir(e)
    PROVE  /\ QueueOf[e] \in Queue
           /\ (IF dir["queue"][QueueOf[e]] = 0 THEN gens["queue"][QueueOf[e]] + 1
                                               ELSE dir["queue"][QueueOf[e]])
                \in 1 .. MaxGen
  <1>1. QueueOf[e] \in Queue
    OBVIOUS
  <1>2. /\ dir["queue"][QueueOf[e]] \in 0 .. MaxGen
        /\ gens["queue"][QueueOf[e]] \in 0 .. MaxGen
    BY <1>1, SMTT(30) DEF TypeOK, FsType, Kind
  <1>3. (IF dir["queue"][QueueOf[e]] = 0 THEN gens["queue"][QueueOf[e]] + 1
                                         ELSE dir["queue"][QueueOf[e]]) <= MaxGen
    BY DEF EnsureQueueDir
  <1> QED
    BY <1>1, <1>2, <1>3, SMTT(30)

\* Clients only touch the file system and the notification queue.
LEMMA ClientType ==
    ASSUME TypeOK, Client
    PROVE  TypeOK'
  <1> USE DEF TypeOK
  <1>1. ASSUME UNCHANGED <<wds, daemonVars, workerVars, faults>>
        PROVE  WatchType' /\ ControlType' /\ WorkerType'
    BY <1>1, WatchStutter, ControlStutter, WorkerStutter DEF daemonVars
  <1>2. ASSUME NEW k \in Kind, NEW q \in Queue, MkDir(k, q)
        PROVE  TypeOK'
    <2>1. FsType'
      BY <1>2, SMTT(30) DEF MkDir, FsType, clientVars
    <2>2. inotify' \in Seq(InotifyEvent)
      BY <1>2, NotifyRootType DEF MkDir, Kind, KernelType
    <2>3. KernelType'
      BY <1>2, <2>2 DEF MkDir, KernelType, attachVars, wakeVars
    <2> QED
      BY <1>1, <1>2, <2>1, <2>3 DEF MkDir, attachVars
  <1>3. ASSUME NEW e \in Event, Publish(e)
        PROVE  TypeOK'
    <2>1. FsType'
      BY <1>3 DEF Publish, FsType, dirVars, clientVars, Loc
    <2>2. inotify' \in Seq(InotifyEvent)
      BY <1>3, NotifyDirType DEF Publish
    <2>3. KernelType'
      BY <1>3, <2>2 DEF Publish, KernelType, attachVars, wakeVars
    <2> QED
      BY <1>1, <1>3, <2>1, <2>3 DEF Publish, attachVars
  <1>4. ASSUME NEW e \in Event, NEW d \in Dues, PublishTimer(e, d)
        PROVE  TypeOK'
    <2>1. FsType'
      BY <1>4 DEF PublishTimer, FsType, dirVars, Loc
    <2>2. inotify' \in Seq(InotifyEvent)
      BY <1>4, NotifyDirType DEF PublishTimer
    <2>3. KernelType'
      BY <1>4, <2>2 DEF PublishTimer, KernelType, attachVars, wakeVars
    <2> QED
      BY <1>1, <1>4, <2>1, <2>3 DEF PublishTimer, attachVars
  <1>5. ASSUME NEW e \in Event, DoneEvent(e)
        PROVE  TypeOK'
    <2>1. FsType'
      BY <1>5 DEF DoneEvent, FsType, dirVars, clientVars, Loc
    <2> QED
      BY <1>1, <1>5, <2>1, KernelStutter DEF DoneEvent, kernelVars, attachVars
  <1>6. ASSUME NEW x \in Queue \cup {All}, PauseQueue(x)
        PROVE  TypeOK'
    <2>1. FsType'
      BY <1>6 DEF PauseQueue, FsType, dirVars
    <2>2. inotify' \in Seq(InotifyEvent)
      BY <1>6, NotifyRootType DEF PauseQueue
    <2>3. KernelType'
      BY <1>6, <2>2 DEF PauseQueue, KernelType, attachVars, wakeVars
    <2> QED
      BY <1>1, <1>6, <2>1, <2>3 DEF PauseQueue, attachVars
  <1>7. ASSUME NEW q \in Queue, RemoveQueue(q)
        PROVE  TypeOK'
    <2>1. FsType'
      BY <1>7 DEF RemoveQueue, FsType, dirVars, Kind
    <2>2. inotify' \in Seq(InotifyEvent)
      BY <1>7, NotifyRootType DEF RemoveQueue, KernelType
    <2>3. KernelType'
      BY <1>7, <2>2 DEF RemoveQueue, KernelType, attachVars, wakeVars
    <2> QED
      BY <1>1, <1>7, <2>1, <2>3 DEF RemoveQueue, attachVars
  <1>8. ASSUME NEW q \in Queue, RemoveDir(q)
        PROVE  TypeOK'
    <2>1. FsType'
      BY <1>8, SMTT(30) DEF RemoveDir, FsType, Kind, Loc, AfterRm
    <2>2. inotify' \in Seq(InotifyEvent)
      BY <1>8, NotifyDirType DEF RemoveDir
    <2>3. KernelType'
      BY <1>8, <2>2 DEF RemoveDir, KernelType, wakeVars
    <2> QED
      BY <1>1, <1>8, <2>1, <2>3 DEF RemoveDir
  <1> QED
    BY <1>2, <1>3, <1>4, <1>5, <1>6, <1>7, <1>8 DEF Client

\* The steps of a worker and of its handler.
LEMMA WorkerExitType ==
    ASSUME WorkerType, NEW p \in Pid, WorkerExit(p), UNCHANGED <<wq, wwd, faults>>
    PROVE  WorkerType'
  BY SMTT(30) DEF WorkerExit, WorkerType, WorkerPc

\* What a worker and its handler leave alone: the daemon's memory, its
\* watches and notifications, and every directory unless events/q is made.
LEMMA WorkerFrame ==
    ASSUME NEW p \in Pid, Worker(p) \/ Handler(p)
    PROVE  /\ UNCHANGED <<daemonVars, clientVars, inotify, attachVars, wq, wwd>>
           /\ WorkerMkdir(p) \/ UNCHANGED dirVars
  BY DEF Worker, Handler, WorkerOpen, WorkerMkdir, WorkerMove, WorkerCheck,
         HandlerFails, WorkerRecheck, WorkerSignal, WorkerQuit, HandlerExit,
         HandlerDone, fsVars, kernelVars, workerVars

\* Steps of process_events in a worker and of the handler it waits for.
LEMMA WorkerStepType ==
    ASSUME TypeOK, \A p \in Children : wwd[p] \in DOMAIN wds,
           NEW p \in Pid, Worker(p) \/ Handler(p)
    PROVE  TypeOK'
  <1> USE DEF TypeOK
  <1>1. ASSUME UNCHANGED <<wds, daemonVars>>
        PROVE  WatchType' /\ ControlType'
    BY <1>1, WatchStutter, ControlStutter DEF daemonVars
  <1>2. CASE WorkerOpen(p)
    <2>1. FsType' /\ KernelType'
      BY <1>2, FsStutter DEF WorkerOpen, WorkerExit, KernelType, attachVars
    <2>2. WorkerType'
      <3>1. CASE WorkerExit(p)
        BY <1>2, <3>1, WorkerExitType DEF WorkerOpen
      <3>2. CASE ~WorkerExit(p)
        <4>1. /\ dir["queue"][wq[p]] \in 0 .. MaxGen
              /\ dir["events"][wq[p]] \in 0 .. MaxGen
          BY SMTT(30) DEF FsType, WorkerType, Kind
        <4>2. Files("ready", wq[p]) \subseteq Event
          BY DEF Files
        <4>3. /\ \E c \in WorkerPc : wpc' = [wpc EXCEPT ![p] = c]
              /\ wsrc' = [wsrc EXCEPT ![p] = dir["queue"][wq[p]]]
              /\ UNCHANGED <<wq, wwd, faults>>
          BY <1>2, <3>2 DEF WorkerOpen, WorkerPc
        <4>4. \/ UNCHANGED <<wdst, wtodo>>
              \/ /\ wdst' = [wdst EXCEPT ![p] = dir["events"][wq[p]]]
                 /\ wtodo' = [wtodo EXCEPT ![p] = Files("ready", wq[p])]
          BY <1>2, <3>2 DEF WorkerOpen
        <4> QED
          BY <4>1, <4>2, <4>3, <4>4, SMTT(30) DEF WorkerType
      <3> QED
        BY <3>1, <3>2
    <2> QED
      BY <1>1, <1>2, <2>1, <2>2 DEF WorkerOpen, attachVars
  <1>3. CASE WorkerMkdir(p)
    <2>1. KernelType'
      BY <1>3 DEF WorkerMkdir, WorkerExit, KernelType, attachVars
    <2>2. FsType'
      <3>1. wq[p] \in Queue /\ gens["events"][wq[p]] \in Nat
        BY SMTT(30) DEF FsType, WorkerType, Kind
      <3>2. \/ dir' = dir /\ gens' = gens
            \/ \E g \in 0 .. MaxGen : /\ dir' = [dir EXCEPT !["events"][wq[p]] = g]
                                      /\ gens' = [gens EXCEPT !["events"][wq[p]] = g]
        BY <1>3, <3>1, SMTT(30) DEF WorkerMkdir
      <3>3. UNCHANGED <<loc, due, pause, rmpc, now>>
        BY <1>3 DEF WorkerMkdir, clientVars
      <3> QED
        BY <3>1, <3>2, <3>3, SMTT(30) DEF FsType, Kind
    <2>3. WorkerType'
      <3>1. CASE WorkerExit(p)
        BY <1>3, <3>1, WorkerExitType DEF WorkerMkdir
      <3>2. CASE ~WorkerExit(p)
        <4>1. gens["events"][wq[p]] + 1 \in 0 .. MaxGen
          BY <1>3, <3>2, SMTT(30) DEF WorkerMkdir, FsType, WorkerType, Kind
        <4>2. Entries(wq[p], wsrc[p]) \subseteq Event
          BY DEF Entries, Files
        <4> QED
          BY <1>3, <3>2, <4>1, <4>2, SMTT(30) DEF WorkerMkdir, WorkerType, WorkerPc
      <3> QED
        BY <3>1, <3>2
    <2> QED
      BY <1>1, <1>3, <2>1, <2>2, <2>3 DEF WorkerMkdir, attachVars
  <1>4. ASSUME NEW e \in Event, WorkerMove(p, e)
        PROVE  TypeOK'
    <2>1. KernelType'
      BY <1>4 DEF WorkerMove, WorkerExit, KernelType, attachVars
    <2>2. FsType'
      BY <1>4 DEF WorkerMove, FsType, dirVars, clientVars, Loc
    <2>3. WorkerType'
      <3>1. CASE WorkerExit(p)
        BY <1>4, <3>1, WorkerExitType DEF WorkerMove
      <3>2. CASE ~WorkerExit(p)
        <4>1. /\ wtodo' = [wtodo EXCEPT ![p] = @ \ {e}]
              /\ UNCHANGED <<wpc, wsrc, wdst, wq, wwd, faults>>
          BY <1>4, <3>2 DEF WorkerMove
        <4> QED
          BY <4>1 DEF WorkerType
      <3> QED
        BY <3>1, <3>2
    <2> QED
      BY <1>1, <1>4, <2>1, <2>2, <2>3 DEF WorkerMove, attachVars
  <1>5. CASE WorkerCheck(p)
    <2>1. FsType' /\ KernelType'
      BY <1>5, FsStutter DEF WorkerCheck, WorkerExit, KernelType, attachVars
    <2>2. WorkerType'
      BY <1>5, WorkerExitType DEF WorkerCheck, WorkerType, WorkerPc
    <2> QED
      BY <1>1, <1>5, <2>1, <2>2 DEF WorkerCheck, attachVars
  <1>6. CASE HandlerFails(p)
    <2>1. WorkerType'
      BY <1>6, SMTT(30) DEF HandlerFails, WorkerType, WorkerPc, jobVars
    <2> QED
      BY <1>1, <1>6, <2>1, FsStutter, KernelStutter
      DEF HandlerFails, kernelVars, attachVars
  <1>7. CASE WorkerRecheck(p) \/ WorkerQuit(p)
    <2>1. FsType' /\ KernelType'
      BY <1>7, FsStutter
      DEF WorkerRecheck, WorkerQuit, WorkerExit, KernelType, attachVars
    <2>2. WorkerType'
      BY <1>7, WorkerExitType DEF WorkerRecheck, WorkerQuit, WorkerType, WorkerPc
    <2> QED
      BY <1>1, <1>7, <2>1, <2>2 DEF WorkerRecheck, WorkerQuit, attachVars
  <1>8. CASE WorkerSignal(p)
    <2>1. wwd[p] \in DOMAIN wds
      BY <1>8 DEF WorkerSignal, Children
    <2>2. FsType' /\ KernelType'
      BY <1>8, <2>1, FsStutter DEF WorkerSignal, KernelType, attachVars
    <2>3. WorkerType'
      BY <1>8 DEF WorkerSignal, WorkerType, WorkerPc, jobVars
    <2> QED
      BY <1>1, <1>8, <2>2, <2>3 DEF WorkerSignal, attachVars
  <1>9. CASE HandlerExit(p)
    <2>1. WorkerType'
      BY <1>9 DEF HandlerExit, WorkerType, WorkerPc, jobVars
    <2> QED
      BY <1>1, <1>9, <2>1, FsStutter, KernelStutter
      DEF HandlerExit, kernelVars, attachVars
  <1>10. ASSUME NEW e \in Event, HandlerDone(p, e)
        PROVE  TypeOK'
    <2>1. FsType'
      BY <1>10 DEF HandlerDone, FsType, dirVars, clientVars, Loc
    <2> QED
      BY <1>1, <1>10, <2>1, KernelStutter, WorkerStutter
      DEF HandlerDone, kernelVars, attachVars
  <1> QED
    BY <1>2, <1>3, <1>4, <1>5, <1>6, <1>7, <1>8, <1>9, <1>10
    DEF Worker, Handler

\* The end of the daemon.
LEMMA DieType ==
    ASSUME TypeOK, Die, faults' \in 0 .. MaxFaults
    PROVE  TypeOK'
  <1>1. FsType'
    BY FsStutter DEF TypeOK, Die
  <1>2. <<>> \in Seq(InotifyEvent) /\ <<>> \in Seq(WatchNode) /\ Len(<<>>) = 0
    BY SMTT(30)
  <1>7. /\ inotify' = <<>> /\ wds' = <<>> /\ kwatch' = {} /\ pipe' = {}
        /\ sigchld' = FALSE /\ tfd' = 0
    BY DEF Die
  <1>8. Len(wds') <= MaxWd /\ wds' \in Seq(WatchNode) /\ inotify' \in Seq(InotifyEvent)
    BY <1>2, <1>7, SMTT(30)
  <1>9. kwatch' \subseteq DOMAIN wds' /\ pipe' \subseteq DOMAIN wds'
    BY <1>7
  <1>10. sigchld' \in BOOLEAN
    BY <1>7
  <1>11. tfd' \in Nat
    BY <1>7
  <1>3. KernelType'
    BY <1>8, <1>9, <1>10, <1>11 DEF KernelType
  <1>4. WatchType'
    BY DEF Die, WatchType
  <1>5. ControlType'
    BY DEF Die, ControlType, DaemonPc, WatchKind
  <1>6. WorkerType'
    BY SMTT(30) DEF TypeOK, Die, WorkerType, WorkerPc
  <1> QED
    BY <1>1, <1>3, <1>4, <1>5, <1>6 DEF TypeOK

\* Steps that only move the control of the daemon.
LEMMA GotoType ==
    ASSUME TypeOK, NEW from, NEW to \in DaemonPc \ {"link", "move"}, Goto(from, to)
    PROVE  TypeOK'
  <1> USE DEF TypeOK, Goto
  <1>1. FsType' /\ KernelType' /\ WorkerType'
    BY FsStutter, KernelStutter, WorkerStutter
  <1>2. WatchType'
    BY WatchStutter DEF kernelVars, attachVars
  <1>3. ControlType'
    BY DEF ControlType, localVars, updateVars, kernelVars, attachVars
  <1> QED
    BY <1>1, <1>2, <1>3

\* add_queue_dir allocates a descriptor and passes it to watch_path.
LEMMA AddQueueDirType ==
    ASSUME TypeOK, NEW k \in WatchKind, NEW q \in Queue, NEW g \in 1 .. MaxGen,
           AddQueueDir(k, q, g)
    PROVE  /\ wds' \in Seq(WatchNode) /\ Len(wds') <= MaxWd
           /\ Len(wds') = Len(wds) + 1
           /\ DOMAIN wds' = DOMAIN wds \cup {Len(wds) + 1}
           /\ kwatch' \subseteq DOMAIN wds'
           /\ pend' \in DOMAIN wds' /\ pend' # 0
  <1> DEFINE node == [kind |-> k, queue |-> q, gen |-> g, ino |-> g]
  <1>1. node \in WatchNode
    BY DEF WatchNode
  <1>2. wds \in Seq(WatchNode) /\ Len(wds) \in Nat /\ kwatch \subseteq DOMAIN wds
    BY SMTT(30) DEF TypeOK, KernelType
  <1> HIDE DEF node
  <1>3. wds' = Append(wds, node) /\ Len(wds) < MaxWd
    BY DEF AddQueueDir, node
  <1>4. wds' \in Seq(WatchNode) /\ Len(wds') = Len(wds) + 1
    BY <1>1, <1>2, <1>3, SMTT(30)
  <1>5. DOMAIN wds' = 1 .. Len(wds') /\ DOMAIN wds = 1 .. Len(wds)
    BY <1>2, <1>4, SMTT(30)
  <1>6. DOMAIN wds' = DOMAIN wds \cup {Len(wds) + 1}
    BY <1>2, <1>4, <1>5, SMTT(30)
  <1> QED
    BY <1>2, <1>3, <1>4, <1>5, <1>6, SMTT(30) DEF AddQueueDir

\* Steps of the scans and of watch_path.
LEMMA ScanType ==
    ASSUME TypeOK, FirstScan \/ ScanDone \/ LinkWatch \/ FirstPause
                     \/ (\E q \in Queue : ScanEntry(q))
    PROVE  TypeOK'
  <1> USE DEF TypeOK
  <1>1. CASE FirstScan
    <2>1. FsType' /\ KernelType' /\ WorkerType' /\ WatchType'
      BY <1>1, FsStutter, KernelStutter, WorkerStutter, WatchStutter
      DEF FirstScan, kernelVars, attachVars
    <2>2. ControlType'
      BY <1>1 DEF FirstScan, BeginScan, ControlType, updateVars, kernelVars,
                  attachVars, DaemonPc, WatchKind, Existing
    <2> QED
      BY <2>1, <2>2
  <1>2. CASE ScanDone
    <2>1. FsType' /\ KernelType' /\ WorkerType' /\ WatchType'
      BY <1>2, FsStutter, KernelStutter, WorkerStutter, WatchStutter
      DEF ScanDone, kernelVars, attachVars
    <2>2. ControlType'
      BY <1>2 DEF ScanDone, BeginScan, ControlType, localVars, updateVars,
                  kernelVars, attachVars, DaemonPc, WatchKind, Existing
    <2> QED
      BY <2>1, <2>2
  <1>3. CASE FirstPause
    <2>1. FsType' /\ KernelType' /\ WorkerType'
      BY <1>3, FsStutter, KernelStutter, WorkerStutter DEF FirstPause
    <2>2. WatchType'
      BY <1>3, ApplyPauseType DEF FirstPause, kernelVars, attachVars
    <2>3. ControlType'
      BY <1>3 DEF FirstPause, ControlType, localVars, updateVars, kernelVars,
                  attachVars, DaemonPc
    <2> QED
      BY <2>1, <2>2, <2>3
  <1>4. ASSUME NEW q \in Queue, ScanEntry(q)
        PROVE  TypeOK'
    <2>1. FsType' /\ WorkerType'
      BY <1>4, FsStutter, WorkerStutter DEF ScanEntry
    <2>2. CASE WatchOf(skind, q) = {}
      <3>1. dir[skind][q] \in 1 .. MaxGen /\ skind \in WatchKind
        BY <1>4, ScannedDir
      <3>2. AddQueueDir(skind, q, dir[skind][q])
        BY <1>4, <2>2 DEF ScanEntry
      <3>3. /\ wds' \in Seq(WatchNode) /\ Len(wds') <= MaxWd
            /\ DOMAIN wds \subseteq DOMAIN wds'
            /\ kwatch' \subseteq DOMAIN wds'
            /\ pend' \in DOMAIN wds' /\ pend' # 0
        BY <3>1, <3>2, AddQueueDirType
      <3>4. KernelType'
        BY <1>4, <3>3 DEF ScanEntry, KernelType, wakeVars
      <3>5. WatchType'
        BY <1>4, <3>3 DEF ScanEntry, WatchType, watchVars, dirtyVars, pauseVars
      <3>6. ControlType'
        BY <1>4, <3>2, <3>3
        DEF ScanEntry, AddQueueDir, ControlType, updateVars, DaemonPc
      <3> QED
        BY <2>1, <3>4, <3>5, <3>6
    <2>3. CASE WatchOf(skind, q) # {}
      <3>1. KernelType' /\ WatchType'
        BY <1>4, <2>3, KernelStutter, WatchStutter
        DEF ScanEntry, kernelVars, attachVars
      <3>2. ControlType'
        BY <1>4, <2>3 DEF ScanEntry, ControlType, updateVars, attachVars
      <3> QED
        BY <2>1, <3>1, <3>2
    <2> QED
      BY <2>2, <2>3
  <1>5. CASE LinkWatch
    <2>1. FsType' /\ WorkerType'
      BY <1>5, FsStutter, WorkerStutter DEF LinkWatch
    <2>2. pend \in DOMAIN wds
      BY <1>5 DEF LinkWatch, ControlType
    <2> DEFINE node == wds[pend]
    <2>3. node \in WatchNode
      BY <2>2, SMTT(30) DEF KernelType
    <2>4. dir[node.kind][node.queue] \in 1 .. MaxGen
      <3>1. node.kind \in Kind /\ node.queue \in Queue
        BY <2>3 DEF WatchNode, WatchKind, Kind
      <3>2. dir[node.kind][node.queue] # 0
        BY <1>5 DEF LinkWatch
      <3>3. dir[node.kind] \in [Queue -> 0 .. MaxGen]
        BY <3>1 DEF FsType
      <3>4. dir[node.kind][node.queue] \in 0 .. MaxGen
        BY <3>1, <3>3
      <3> QED
        BY <3>2, <3>4, SMTT(30)
    <2>5. [node EXCEPT !.ino = dir[node.kind][node.queue]] \in WatchNode
      BY <2>3, <2>4 DEF WatchNode
    <2>6. wds' = [wds EXCEPT ![pend] = [node EXCEPT !.ino = dir[node.kind][node.queue]]]
      BY <1>5 DEF LinkWatch
    <2> HIDE DEF node
    <2>7. wds' \in Seq(WatchNode) /\ Len(wds') = Len(wds) /\ DOMAIN wds' = DOMAIN wds
      BY <2>2, <2>5, <2>6, ReplaceNode, SMTT(30) DEF KernelType
    <2>8. KernelType'
      BY <1>5, <2>7 DEF LinkWatch, KernelType, wakeVars
    <2>9. WatchType'
      BY <1>5, <2>2, <2>7, SMTT(30) DEF LinkWatch, WatchType, MarkDirty, PausedAtOnce, dirtyVars
    <2>10. ControlType'
      BY <1>5, <2>7 DEF LinkWatch, ControlType, updateVars, DaemonPc
    <2> QED
      BY <2>1, <2>8, <2>9, <2>10
  <1> QED
    BY <1>1, <1>2, <1>3, <1>4, <1>5

----------------------------------------------------------------------------
(* The daemon's loop *)

\* Taking the first notification off the queue.
LEMMA HeadType ==
    ASSUME KernelType, inotify # <<>>
    PROVE  Head(inotify) \in InotifyEvent /\ Tail(inotify) \in Seq(InotifyEvent)
  BY SMTT(30) DEF KernelType

\* Steps of process_inotify_events.
LEMMA InotifyStepType ==
    ASSUME TypeOK, ReadModify \/ ReadDeleteSelf \/ ReadCreate \/ ReadPause
    PROVE  TypeOK'
  <1> USE DEF TypeOK
  <1>1. inotify # <<>>
    BY DEF ReadModify, ReadDeleteSelf, ReadCreate, ReadPause
  <1>2. Head(inotify) \in InotifyEvent /\ Tail(inotify) \in Seq(InotifyEvent)
    BY <1>1, HeadType
  <1> DEFINE w == Head(inotify).wd
  <1>3. CASE ReadModify
    <2>1. FsType' /\ WorkerType' /\ ControlType'
      BY <1>3, FsStutter, WorkerStutter, ControlStutter
      DEF ReadModify, attachVars
    <2>2. KernelType'
      BY <1>2, <1>3 DEF ReadModify, KernelType, attachVars, wakeVars
    <2>3. WatchType'
      <3>1. /\ watch_list' \subseteq DOMAIN wds' /\ dirty' \subseteq watch_list'
            /\ paused' \subseteq watch_list'
            /\ q_pid' \in [Wd -> Pid \cup {NoPid}] /\ dirty_queues' \in Nat
        <4>1. /\ UNCHANGED <<watch_list, paused, q_pid, wds>>
              /\ \/ UNCHANGED <<dirty, dirty_queues>>
                 \/ /\ w \in watch_list /\ dirty' = dirty \cup {w}
                    /\ dirty_queues' \in {dirty_queues, dirty_queues + 1}
          BY <1>3 DEF ReadModify, MarkDirty, dirtyVars, pauseVars, attachVars
        <4> HIDE DEF w
        <4>2. /\ watch_list \subseteq DOMAIN wds /\ dirty \subseteq watch_list
              /\ paused \subseteq watch_list
              /\ q_pid \in [Wd -> Pid \cup {NoPid}] /\ dirty_queues \in Nat
          BY DEF WatchType
        <4> QED
          BY <4>1, <4>2, SMTT(30)
      <3>2. pause_all' \in BOOLEAN /\ timer_changed' \in BOOLEAN
        BY <1>3 DEF ReadModify, WatchType, pauseVars
      <3> QED
        BY <3>1, <3>2 DEF WatchType
    <2> QED
      BY <2>1, <2>2, <2>3
  <1>4. CASE ReadDeleteSelf
    <2>1. FsType' /\ WorkerType' /\ ControlType'
      BY <1>4, FsStutter, WorkerStutter, ControlStutter DEF ReadDeleteSelf
    <2>2. CASE w \notin watch_list
      <3>1. KernelType'
        BY <1>2, <1>4, <2>2 DEF ReadDeleteSelf, KernelType, wakeVars
      <3>2. WatchType'
        BY <1>4, <2>2 DEF ReadDeleteSelf, WatchType, dirtyVars
      <3> QED
        BY <2>1, <3>1, <3>2
    <2>3. CASE w \in watch_list
      <3>1. PICK v \in SameIno(w) : UnwatchPath(w, v)
        BY <1>4, <2>3 DEF ReadDeleteSelf
      <3>2. KernelType'
        BY <1>2, <1>4, <3>1 DEF ReadDeleteSelf, UnwatchPath, KernelType, wakeVars
      <3>3. /\ watch_list' \subseteq DOMAIN wds' /\ paused' \subseteq watch_list'
            /\ dirty' \subseteq watch_list' /\ dirty_queues' \in Nat
        <4>1. watch_list' = watch_list \ {v} /\ paused' = paused \ {v} /\ wds' = wds
          BY <1>4, <3>1 DEF ReadDeleteSelf, UnwatchPath
        <4>2. dirty' \subseteq (dirty \ {v}) \cup ({w} \ {v})
          BY <3>1 DEF UnwatchPath
        <4>3. /\ watch_list' \subseteq DOMAIN wds' /\ paused' \subseteq watch_list'
              /\ dirty \subseteq watch_list
          BY <4>1 DEF WatchType
        <4>4. dirty' \subseteq watch_list'
          BY <2>3, <4>1, <4>2, <4>3
        <4>5. dirty_queues' \in Nat
          <5>1. dirty_queues' \in {dirty_queues, dirty_queues + 1}
            BY <3>1 DEF UnwatchPath
          <5> QED
            BY <5>1, SMTT(30) DEF WatchType
        <4> QED
          BY <4>3, <4>4, <4>5
      <3>4. q_pid' \in [Wd -> Pid \cup {NoPid}]
        BY <3>1 DEF UnwatchPath, WatchType
      <3>5. pause_all' \in BOOLEAN /\ timer_changed' \in BOOLEAN
        BY <1>4, <3>1 DEF ReadDeleteSelf, UnwatchPath, WatchType
      <3> QED
        BY <2>1, <3>2, <3>3, <3>4, <3>5 DEF WatchType
    <2> QED
      BY <2>2, <2>3
  <1>5. CASE ReadCreate
    <2>1. FsType' /\ WorkerType'
      BY <1>5, FsStutter, WorkerStutter DEF ReadCreate
    <2>2. KernelType'
      BY <1>2, <1>5 DEF ReadCreate, KernelType, attachVars, wakeVars
    <2>3. WatchType'
      BY <1>5 DEF ReadCreate, WatchType, dirtyVars, pauseVars, attachVars
    <2>4. ControlType'
      BY <1>5 DEF ReadCreate, BeginScan, ControlType, updateVars, attachVars,
                  DaemonPc, WatchKind, Existing
    <2> QED
      BY <2>1, <2>2, <2>3, <2>4
  <1>6. CASE ReadPause
    <2>1. FsType' /\ WorkerType' /\ ControlType'
      BY <1>6, FsStutter, WorkerStutter, ControlStutter DEF ReadPause, attachVars
    <2>2. KernelType'
      BY <1>2, <1>6 DEF ReadPause, KernelType, attachVars, wakeVars
    <2>3. WatchType'
      BY <1>6, ApplyPauseType DEF ReadPause, attachVars
    <2> QED
      BY <2>1, <2>2, <2>3
  <1> QED
    BY <1>3, <1>4, <1>5, <1>6

\* The other steps of one round of the loop of main().
LEMMA RoundType ==
    ASSUME TypeOK, EpollWait \/ ReapWorkers \/ ReadTimer
                     \/ (\E f \in Fd : Dispatch(f)) \/ (\E w \in Wd : ReadPipe(w))
    PROVE  TypeOK'
  <1> USE DEF TypeOK
  <1>1. CASE EpollWait
    <2>1. FsType' /\ KernelType' /\ WorkerType' /\ WatchType'
      BY <1>1, FsStutter, KernelStutter, WorkerStutter, WatchStutter
      DEF EpollWait, kernelVars, attachVars
    <2>2. ControlType'
      BY <1>1 DEF EpollWait, ControlType, updateVars, kernelVars, attachVars,
                  DaemonPc, ReadyFds
    <2> QED
      BY <2>1, <2>2
  <1>2. ASSUME NEW f \in Fd, Dispatch(f)
        PROVE  TypeOK'
    <2>1. FsType' /\ KernelType' /\ WorkerType' /\ WatchType'
      BY <1>2, FsStutter, KernelStutter, WorkerStutter, WatchStutter
      DEF Dispatch, kernelVars, attachVars
    <2>2. ControlType'
      BY <1>2 DEF Dispatch, ControlType, updateVars, kernelVars, attachVars, DaemonPc
    <2> QED
      BY <2>1, <2>2
  <1>3. CASE ReapWorkers
    <2>1. FsType'
      BY <1>3, FsStutter DEF ReapWorkers
    <2>2. KernelType'
      BY <1>3 DEF ReapWorkers, KernelType, attachVars
    <2>3. q_pid' \in [Wd -> Pid \cup {NoPid}]
      BY <1>3 DEF ReapWorkers, WatchType
    <2>4. WatchType'
      BY <1>3, <2>3 DEF ReapWorkers, WatchType, dirtyVars, pauseVars, attachVars
    <2>5. ControlType'
      BY <1>3 DEF ReapWorkers, ControlType, updateVars, attachVars
    <2>6. WorkerType'
      BY <1>3 DEF ReapWorkers, WorkerType, WorkerPc, jobVars
    <2> QED
      BY <2>1, <2>2, <2>4, <2>5, <2>6
  <1>4. CASE ReadTimer
    <2>1. FsType' /\ WorkerType'
      BY <1>4, FsStutter, WorkerStutter DEF ReadTimer
    <2>2. KernelType'
      BY <1>4 DEF ReadTimer, KernelType, attachVars
    <2>3. WatchType'
      BY <1>4 DEF ReadTimer, WatchType, dirtyVars, pauseVars, attachVars
    <2>4. ControlType'
      BY <1>4 DEF ReadTimer, ControlType, updateVars, attachVars
    <2> QED
      BY <2>1, <2>2, <2>3, <2>4
  <1>5. ASSUME NEW w \in Wd, ReadPipe(w)
        PROVE  TypeOK'
    <2>1. FsType' /\ WorkerType' /\ ControlType'
      BY <1>5, FsStutter, WorkerStutter, ControlStutter DEF ReadPipe, attachVars
    <2>2. KernelType'
      BY <1>5 DEF ReadPipe, KernelType, attachVars
    <2>3. WatchType'
      <3>1. UNCHANGED dirtyVars \/ (w \in watch_list /\ MarkDirty(w))
        BY <1>5 DEF ReadPipe
      <3> QED
        BY <1>5, <3>1, MarkDirtyType DEF ReadPipe, attachVars
    <2> QED
      BY <2>1, <2>2, <2>3
  <1> QED
    BY <1>1, <1>2, <1>3, <1>4, <1>5

\* Steps of update_timerfd.
LEMMA UpdateType ==
    ASSUME TypeOK, BeginUpdate \/ MoveTimerEvent \/ EndUpdate
                     \/ (\E q \in Queue : ReadTimerDir(q))
                     \/ (\E e \in Event : EnsureQueueDir(e))
    PROVE  TypeOK'
  <1> USE DEF TypeOK
  <1>1. CASE BeginUpdate
    <2>1. FsType' /\ KernelType' /\ WorkerType' /\ WatchType'
      BY <1>1, FsStutter, KernelStutter, WorkerStutter, WatchStutter
      DEF BeginUpdate, kernelVars, attachVars
    <2>2. tscan' \subseteq Queue /\ tnow' \in Nat
      <3>1. Existing("timer") \subseteq Queue
        BY DEF Existing
      <3>2. now \in Nat /\ tscan \subseteq Queue /\ tnow \in Nat
        BY SMTT(30) DEF FsType, ControlType
      <3> QED
        BY <1>1, <3>1, <3>2 DEF BeginUpdate
    <2>3. ControlType'
      BY <1>1, <2>2 DEF BeginUpdate, ControlType, kernelVars, attachVars, DaemonPc
    <2> QED
      BY <2>1, <2>3
  <1>2. ASSUME NEW q \in Queue, ReadTimerDir(q)
        PROVE  TypeOK'
    <2>1. FsType' /\ KernelType' /\ WorkerType' /\ WatchType'
      BY <1>2, FsStutter, KernelStutter, WorkerStutter, WatchStutter
      DEF ReadTimerDir, kernelVars, attachVars
    <2>2. tnext' \in Nat
      <3>1. \A e \in Files("timer", q) : due[e] \in Nat
        BY DEF Files, FsType
      <3>2. tnext \in Nat
        BY DEF ControlType
      <3> DEFINE later == {due[e] : e \in {f \in Files("timer", q) : due[f] > tnow}}
                            \cup ({tnext} \ {0})
      <3>3. tnext' \in later \cup {0}
        BY <1>2 DEF ReadTimerDir
      <3> QED
        BY <3>1, <3>2, <3>3, SMTT(30)
    <2>3. ControlType'
      BY <1>2, <2>2 DEF ReadTimerDir, ControlType, kernelVars, attachVars, Files
    <2> QED
      BY <2>1, <2>3
  <1>3. ASSUME NEW e \in Event, EnsureQueueDir(e)
        PROVE  TypeOK'
    <2> DEFINE q == QueueOf[e]
               g == IF dir["queue"][q] = 0 THEN gens["queue"][q] + 1
                                           ELSE dir["queue"][q]
    <2>1. q \in Queue /\ g \in 1 .. MaxGen
      BY <1>3, EnsuredDir
    <2>2. WorkerType'
      BY <1>3, WorkerStutter DEF EnsureQueueDir
    <2>3. FsType'
      <3>1. /\ dir' = [dir EXCEPT !["queue"][q] = g]
            /\ gens' = gens \/ gens' = [gens EXCEPT !["queue"][q] = g]
        <4>1. CASE dir["queue"][q] = 0
          BY <1>3, <4>1 DEF EnsureQueueDir
        <4>2. CASE dir["queue"][q] # 0
          <5>1. gens' = [gens EXCEPT !["queue"][q] = gens["queue"][q]]
            BY <1>3, <4>2 DEF EnsureQueueDir
          <5>2. gens' = gens
            BY <5>1, <2>1, SMTT(30) DEF FsType, Kind
          <5> QED
            BY <1>3, <4>2, <5>2 DEF EnsureQueueDir
        <4> QED
          BY <4>1, <4>2
      <3>2. UNCHANGED <<loc, due, pause, rmpc, now>>
        BY <1>3 DEF EnsureQueueDir, clientVars
      <3> HIDE DEF q, g
      <3> QED
        BY <2>1, <3>1, <3>2, SMTT(30) DEF FsType, Kind
    <2>4. inotify' \in Seq(InotifyEvent)
      BY <1>3, NotifyRootType DEF EnsureQueueDir, KernelType
    <2>5. CASE QueueWatches(q) # {} \/ WatchOf("queue", q) # {}
      <3>1. KernelType' /\ WatchType'
        BY <1>3, <2>4, <2>5, WatchStutter
        DEF EnsureQueueDir, KernelType, attachVars, wakeVars
      <3>2. ControlType'
        BY <1>3, <2>5 DEF EnsureQueueDir, ControlType, attachVars, DaemonPc
      <3> QED
        BY <2>2, <2>3, <3>1, <3>2
    <2>6. CASE ~(QueueWatches(q) # {} \/ WatchOf("queue", q) # {})
      <3>1. AddQueueDir("queue", q, g)
        BY <1>3, <2>6 DEF EnsureQueueDir
      <3>2. /\ wds' \in Seq(WatchNode) /\ Len(wds') <= MaxWd
            /\ DOMAIN wds \subseteq DOMAIN wds'
            /\ kwatch' \subseteq DOMAIN wds'
            /\ pend' \in DOMAIN wds' /\ pend' # 0
        BY <2>1, <3>1, AddQueueDirType DEF WatchKind
      <3>3. KernelType'
        BY <1>3, <2>4, <3>2 DEF EnsureQueueDir, KernelType, wakeVars
      <3>4. WatchType'
        BY <1>3, <3>2 DEF EnsureQueueDir, WatchType, watchVars, dirtyVars, pauseVars
      <3>5. ControlType'
        BY <1>3, <3>1, <3>2 DEF EnsureQueueDir, AddQueueDir, ControlType, DaemonPc
      <3> QED
        BY <2>2, <2>3, <3>3, <3>4, <3>5
    <2> QED
      BY <2>5, <2>6
  <1>4. CASE MoveTimerEvent
    <2>1. WorkerType'
      BY <1>4, WorkerStutter DEF MoveTimerEvent
    <2>2. FsType'
      BY <1>4 DEF MoveTimerEvent, FsType, dirVars, clientVars, Loc
    <2>3. inotify' \in Seq(InotifyEvent)
      <3>1. \/ inotify' = inotify
            \/ inotify' = NotifyDir(inotify, "queue", QueueOf[cur], "modify")
        BY <1>4 DEF MoveTimerEvent
      <3>2. NotifyDir(inotify, "queue", QueueOf[cur], "modify") \in Seq(InotifyEvent)
        BY NotifyDirType
      <3>3. inotify \in Seq(InotifyEvent)
        BY DEF KernelType
      <3> QED
        BY <3>1, <3>2, <3>3
    <2>4. KernelType'
      BY <1>4, <2>3 DEF MoveTimerEvent, KernelType, attachVars, wakeVars
    <2>5. WatchType'
      <3>1. \/ UNCHANGED dirtyVars
            \/ \E w \in QueueWatches(QueueOf[cur]) : MarkDirty(w)
        BY <1>4 DEF MoveTimerEvent
      <3>2. UNCHANGED dirtyVars \/ (\E w \in watch_list : MarkDirty(w))
        BY <3>1 DEF QueueWatches
      <3> QED
        BY <1>4, <3>2, MarkDirtyType DEF MoveTimerEvent, attachVars
    <2>6. ControlType'
      BY <1>4 DEF MoveTimerEvent, ControlType, attachVars, DaemonPc
    <2> QED
      BY <2>1, <2>2, <2>4, <2>5, <2>6
  <1>5. CASE EndUpdate
    <2>1. FsType' /\ WorkerType'
      BY <1>5, FsStutter, WorkerStutter DEF EndUpdate
    <2>2. KernelType'
      BY <1>5 DEF EndUpdate, KernelType, ControlType, attachVars
    <2>3. WatchType'
      BY <1>5 DEF EndUpdate, WatchType, dirtyVars, pauseVars, attachVars
    <2>4. ControlType'
      BY <1>5 DEF EndUpdate, ControlType, attachVars, DaemonPc
    <2> QED
      BY <2>1, <2>2, <2>3, <2>4
  <1> QED
    BY <1>1, <1>2, <1>3, <1>4, <1>5

\* The loop of main() that starts workers.
LEMMA SpawnType ==
    ASSUME TypeOK, (\E w \in Wd, p \in Pid : Spawn(w, p)) \/ (\E w \in Wd : SpawnFails(w))
    PROVE  TypeOK'
  <1> USE DEF TypeOK
  <1>1. ASSUME NEW w \in Wd, NEW p \in Pid, Spawn(w, p)
        PROVE  TypeOK'
    <2>1. FsType' /\ KernelType' /\ ControlType'
      BY <1>1, FsStutter, KernelStutter, ControlStutter
      DEF Spawn, kernelVars, attachVars
    <2>2. w \in DOMAIN wds
      BY <1>1 DEF Spawn, TakeDirty, Eligible, WatchType
    <2>3. wds[w].queue \in Queue
      <3>1. wds[w] \in WatchNode
        BY <2>2, SMTT(30) DEF KernelType
      <3> QED
        BY <3>1 DEF WatchNode
    <2>4. WatchType'
      <3>1. q_pid' = [q_pid EXCEPT ![w] = p]
        BY <1>1 DEF Spawn
      <3>2. q_pid' \in [Wd -> Pid \cup {NoPid}]
        BY <3>1 DEF WatchType
      <3> QED
        BY <1>1, <3>2, TakeDirtyType DEF Spawn, kernelVars, attachVars
    <2>5. /\ wpc' = [wpc EXCEPT ![p] = "start"]
          /\ wq' = [wq EXCEPT ![p] = wds[w].queue]
          /\ wwd' = [wwd EXCEPT ![p] = w]
          /\ UNCHANGED <<wsrc, wdst, wtodo, faults>>
      BY <1>1 DEF Spawn, jobVars
    <2>6. WorkerType'
      BY <2>3, <2>5, SMTT(30) DEF WorkerType, WorkerPc, Wd
    <2> QED
      BY <2>1, <2>4, <2>6
  <1>2. ASSUME NEW w \in Wd, SpawnFails(w)
        PROVE  TypeOK'
    <2>1. FsType' /\ KernelType' /\ ControlType'
      BY <1>2, FsStutter, KernelStutter, ControlStutter
      DEF SpawnFails, kernelVars, attachVars
    <2>2. WatchType'
      <3>1. q_pid' \in [Wd -> Pid \cup {NoPid}]
        BY <1>2 DEF SpawnFails, WatchType
      <3> QED
        BY <1>2, <3>1, TakeDirtyType DEF SpawnFails, kernelVars, attachVars
    <2>3. WorkerType'
      <3>1. faults' \in 0 .. MaxFaults
        <4>1. faults' = faults + 1 /\ faults < MaxFaults
          BY <1>2 DEF SpawnFails
        <4>2. faults \in 0 .. MaxFaults
          BY DEF WorkerType
        <4> QED
          BY <4>1, <4>2, SMTT(30)
      <3>2. UNCHANGED workerVars
        BY <1>2 DEF SpawnFails
      <3> QED
        BY <3>1, <3>2 DEF WorkerType, workerVars, jobVars
    <2> QED
      BY <2>1, <2>2, <2>3
  <1> QED
    BY <1>1, <1>2

\* Every step keeps every variable in its type.
LEMMA TypeStep ==
    ASSUME TypeOK, FreshWatch, Next
    PROVE  TypeOK'
  <1>1. CASE Client
    BY <1>1, ClientType
  <1>2. ASSUME NEW p \in Pid, Worker(p) \/ Handler(p)
        PROVE  TypeOK'
    BY <1>2, WorkerStepType DEF FreshWatch
  <1>3. CASE Tick
    <2>1. FsType'
      <3>1. now' \in 0 .. MaxTime
        BY <1>3, SMTT(30) DEF Tick, TypeOK, FsType
      <3> QED
        BY <1>3, <3>1 DEF Tick, TypeOK, FsType, dirVars
    <2> QED
      BY <1>3, <2>1, KernelStutter, WatchStutter, ControlStutter, WorkerStutter
      DEF Tick, TypeOK, daemonVars, kernelVars, attachVars
  <1>4. CASE Stop
    <2>1. faults' \in 0 .. MaxFaults
      BY <1>4, SMTT(30) DEF Stop, TypeOK, WorkerType
    <2> QED
      BY <1>4, <2>1, DieType DEF Stop
  <1>5. CASE Restart
    BY <1>5, GotoType DEF Restart, DaemonPc
  <1>6. CASE Start \/ Dispatched \/ InotifyDrained \/ PipeDrained \/ Spawned
    BY <1>6, GotoType DEF Start, Dispatched, InotifyDrained, PipeDrained, Spawned,
                          DaemonPc
  <1>7. CASE Fatal
    BY <1>7, DieType DEF Fatal, TypeOK, WorkerType
  <1>8. CASE Daemon
    BY <1>6, <1>7, <1>8, ScanType, InotifyStepType, RoundType, UpdateType, SpawnType
    DEF Daemon
  <1> QED
    BY <1>1, <1>2, <1>3, <1>4, <1>5, <1>8 DEF Next

============================================================================
