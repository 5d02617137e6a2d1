------------------------- MODULE UeventdKeptProofs --------------------------
(***************************************************************************)
(* Types and workers, and what holds while no queue is removed and nobody  *)
(* stops the daemon: it does not end by itself, and what it knows of the   *)
(* directories is true.                                                    *)
(***************************************************************************)
EXTENDS UeventdTypes

USE ConstantsAssumption
\* Zenon with thirty seconds for a leaf, unless the leaf names another prover.
USE ZenonT(30)

----------------------------------------------------------------------------
(* Types and workers *)

\* A step that starts no worker, reaps none and links no element leaves the
\* relation between workers and elements alone.
LEMMA WorkersQuiet ==
    ASSUME OneWorkerPerWatch, FreshWatch,
           Children' \subseteq Children, wwd' = wwd, q_pid' = q_pid,
           watch_list' = watch_list, DOMAIN wds \subseteq DOMAIN wds',
           pc' = "link" => pc = "link" /\ pend' = pend
    PROVE  OneWorkerPerWatch' /\ FreshWatch'
  BY DEF OneWorkerPerWatch, FreshWatch

\* The children of the daemon after a step of worker p: the same, or fewer.
LEMMA WorkerStepChildren ==
    ASSUME WorkerType, NEW p \in Pid, Worker(p) \/ Handler(p)
    PROVE  Children' = Children
  <1>1. CASE wpc' = wpc
    BY <1>1 DEF Children
  <1>2. ASSUME NEW x \in WorkerPc \ {"none", "orphan"}, p \in Children,
               wpc' = [wpc EXCEPT ![p] = x]
        PROVE  Children' = Children
    BY <1>2 DEF Children, WorkerType
  <1>3. CASE WorkerOpen(p)
    BY <1>2, <1>3 DEF WorkerOpen, WorkerExit, WorkerPc, Children
  <1>4. CASE WorkerMkdir(p)
    BY <1>2, <1>4 DEF WorkerMkdir, WorkerExit, WorkerPc, Children
  <1>5. ASSUME NEW e \in Event, WorkerMove(p, e)
        PROVE  Children' = Children
    BY <1>1, <1>2, <1>5 DEF WorkerMove, WorkerExit, WorkerPc, Children
  <1>6. CASE WorkerCheck(p)
    BY <1>2, <1>6 DEF WorkerCheck, WorkerExit, WorkerPc, Children
  <1>7. CASE HandlerFails(p)
    BY <1>2, <1>7 DEF HandlerFails, WorkerPc, Children
  <1>8. CASE WorkerRecheck(p) \/ WorkerQuit(p)
    BY <1>2, <1>8 DEF WorkerRecheck, WorkerQuit, WorkerExit, WorkerPc, Children
  <1>9. CASE WorkerSignal(p)
    BY <1>2, <1>9 DEF WorkerSignal, WorkerPc, Children
  <1>10. CASE HandlerExit(p)
    BY <1>10 DEF HandlerExit, WorkerType, Children
  <1>11. ASSUME NEW e \in Event, HandlerDone(p, e)
         PROVE  Children' = Children
    BY <1>1, <1>11 DEF HandlerDone, workerVars
  <1> QED
    BY <1>3, <1>4, <1>5, <1>6, <1>7, <1>8, <1>9,
       <1>10, <1>11 DEF Worker, Handler

\* A descriptor that has just been allocated is fresh.
LEMMA AllocatedFresh ==
    ASSUME TypeOK, OneWorkerPerWatch, FreshWatch,
           pend' = Len(wds) + 1, DOMAIN wds \subseteq DOMAIN wds',
           UNCHANGED <<wpc, wwd, q_pid, watch_list>>
    PROVE  OneWorkerPerWatch' /\ FreshWatch'
  <1>1. DOMAIN wds = 1 .. Len(wds) /\ Len(wds) \in Nat
    BY SMTT(30) DEF TypeOK, KernelType
  <1>2. pend' \notin DOMAIN wds
    BY <1>1, SMTT(30)
  <1>3. watch_list \subseteq DOMAIN wds
    BY DEF TypeOK, WatchType
  <1>4. Children' = Children
    BY DEF Children
  <1> QED
    BY <1>2, <1>3, <1>4 DEF OneWorkerPerWatch, FreshWatch

\* Every step keeps the workers and the watch list in step.
LEMMA WorkersStep ==
    ASSUME TypeOK, OneWorkerPerWatch, FreshWatch, Next
    PROVE  OneWorkerPerWatch' /\ FreshWatch'
  <1> DEFINE Goal == OneWorkerPerWatch' /\ FreshWatch'
  <1>1. ASSUME UNCHANGED <<wpc, wwd, q_pid, watch_list, wds>>,
               pc' = "link" => pc = "link" /\ pend' = pend
        PROVE  Goal
    BY <1>1, WorkersQuiet DEF Children
  <1>2. CASE Client
    <2>1. UNCHANGED <<daemonVars, workerVars, wds>>
      BY <1>2 DEF Client, MkDir, Publish, PublishTimer, DoneEvent, PauseQueue,
                  RemoveQueue, RemoveDir, attachVars, kernelVars
    <2> QED
      BY <1>1, <2>1 DEF daemonVars, watchVars, localVars, workerVars
  <1>3. ASSUME NEW p \in Pid, Worker(p) \/ Handler(p)
        PROVE  Goal
    <2>1. UNCHANGED <<daemonVars, wwd, wds>>
      BY <1>3, WorkerFrame DEF attachVars
    <2>2. Children' = Children
      BY <1>3, WorkerStepChildren DEF TypeOK
    <2> QED
      BY <2>1, <2>2, WorkersQuiet DEF daemonVars, watchVars, localVars
  <1>4. CASE Tick
    BY <1>1, <1>4 DEF Tick, daemonVars, watchVars, localVars, workerVars,
                      kernelVars, attachVars
  <1>5. ASSUME Die
        PROVE  Goal
    <2>1. Children' = {}
      BY <1>5 DEF Die, Children
    <2> QED
      BY <1>5, <2>1 DEF Die, OneWorkerPerWatch, FreshWatch
  <1>6. CASE Stop \/ Restart
    BY <1>1, <1>5, <1>6 DEF Stop, Restart, Goto, watchVars, workerVars,
                            kernelVars, attachVars
  <1>7. CASE Start \/ Dispatched \/ InotifyDrained \/ PipeDrained \/ Spawned
    BY <1>1, <1>7 DEF Start, Dispatched, InotifyDrained, PipeDrained, Spawned,
                      Goto, watchVars, workerVars, kernelVars, attachVars
  <1>8. CASE FirstScan \/ ScanDone \/ FirstPause
    BY <1>1, <1>8 DEF FirstScan, ScanDone, BeginScan, FirstPause, watchVars,
                      workerVars, kernelVars, attachVars
  <1>9. ASSUME NEW q \in Queue, ScanEntry(q)
        PROVE  Goal
    <2>1. CASE WatchOf(skind, q) = {}
      <3>1. dir[skind][q] \in 1 .. MaxGen /\ skind \in WatchKind
        BY <1>9, ScannedDir
      <3>2. AddQueueDir(skind, q, dir[skind][q])
        BY <1>9, <2>1 DEF ScanEntry
      <3>3. DOMAIN wds \subseteq DOMAIN wds' /\ pend' = Len(wds) + 1
        BY <3>1, <3>2, AddQueueDirType DEF AddQueueDir
      <3> QED
        BY <1>9, <3>3, AllocatedFresh DEF ScanEntry, watchVars, workerVars
    <2>2. CASE WatchOf(skind, q) # {}
      BY <1>1, <1>9, <2>2 DEF ScanEntry, watchVars, workerVars, attachVars
    <2> QED
      BY <2>1, <2>2
  <1>10. CASE LinkWatch
    <2>1. /\ wpc' = wpc /\ wwd' = wwd /\ q_pid' = q_pid
          /\ watch_list' = watch_list \cup {pend} /\ pc' # "link" /\ pc = "link"
      BY <1>10 DEF LinkWatch, workerVars
    <2>2. DOMAIN wds' = DOMAIN wds
      BY <1>10 DEF LinkWatch
    <2>3. Children' = Children
      BY <2>1 DEF Children
    <2> QED
      BY <2>1, <2>2, <2>3 DEF OneWorkerPerWatch, FreshWatch
  <1>11. CASE EpollWait \/ ReadTimer \/ (\E f \in Fd : Dispatch(f))
    BY <1>1, <1>11 DEF EpollWait, ReadTimer, Dispatch, watchVars, workerVars,
                       kernelVars, attachVars
  <1>12. CASE ReapWorkers
    <2>1. /\ UNCHANGED <<wwd, watch_list, wds, pc>>
          /\ pc # "link"
      BY <1>12 DEF ReapWorkers, attachVars
    <2>2. Children' \subseteq Children
          /\ \A p \in Children' : wpc[p] # "zombie"
      BY <1>12 DEF ReapWorkers, Children
    <2>3. ASSUME NEW p \in Children', wwd[p] \in watch_list
          PROVE  q_pid'[wwd[p]] = p
      <3>1. q_pid[wwd[p]] = p /\ wpc[p] # "zombie"
        BY <2>2, <2>3 DEF OneWorkerPerWatch
      <3>2. wwd[p] \in Wd
        <4>1. watch_list \subseteq DOMAIN wds /\ DOMAIN wds \subseteq Wd
          BY SMTT(30) DEF TypeOK, WatchType, KernelType, Wd
        <4> QED
          BY <2>3, <4>1
      <3> QED
        BY <1>12, <3>1, <3>2 DEF ReapWorkers
    <2> QED
      BY <2>1, <2>2, <2>3 DEF OneWorkerPerWatch, FreshWatch
  <1>13. CASE ReadModify \/ ReadCreate \/ ReadPause
    BY <1>1, <1>13 DEF ReadModify, ReadCreate, ReadPause, BeginScan, workerVars,
                       attachVars, localVars
  <1>14. CASE ReadDeleteSelf
    <2>1. UNCHANGED <<wds, pc, wpc, wwd>> /\ pc # "link"
      BY <1>14 DEF ReadDeleteSelf, workerVars
    <2>2. CASE UNCHANGED <<watch_list, q_pid>>
      BY <1>1, <2>1, <2>2
    <2>3. ASSUME NEW w, NEW v, UnwatchPath(w, v)
          PROVE  Goal
      <3>1. /\ watch_list' = watch_list \ {v}
            /\ q_pid' = [q_pid EXCEPT ![v] = NoPid]
        BY <2>3 DEF UnwatchPath
      <3>2. Children' = Children
        BY <2>1 DEF Children
      <3>3. watch_list \subseteq Wd /\ DOMAIN q_pid = Wd
        BY SMTT(30) DEF TypeOK, WatchType, KernelType, Wd
      <3> QED
        BY <2>1, <3>1, <3>2, <3>3 DEF OneWorkerPerWatch, FreshWatch
    <2> QED
      BY <1>14, <2>2, <2>3 DEF ReadDeleteSelf
  <1>15. CASE \E w \in Wd : ReadPipe(w)
    BY <1>1, <1>15 DEF ReadPipe, workerVars, attachVars, localVars
  <1>16. CASE BeginUpdate \/ MoveTimerEvent \/ EndUpdate
                \/ (\E q \in Queue : ReadTimerDir(q))
    BY <1>1, <1>16 DEF BeginUpdate, MoveTimerEvent, EndUpdate, ReadTimerDir,
                       watchVars, workerVars, kernelVars, attachVars
  <1>17. ASSUME NEW e \in Event, EnsureQueueDir(e)
         PROVE  Goal
    <2> DEFINE q == QueueOf[e]
               g == IF dir["queue"][q] = 0 THEN gens["queue"][q] + 1
                                           ELSE dir["queue"][q]
    <2>1. CASE pc' = "move" /\ UNCHANGED <<attachVars, pend>>
      BY <1>1, <1>17, <2>1 DEF EnsureQueueDir, watchVars, workerVars, attachVars
    <2>2. CASE AddQueueDir("queue", q, g)
      <3>1. q \in Queue /\ g \in 1 .. MaxGen
        BY <1>17, EnsuredDir
      <3>2. DOMAIN wds \subseteq DOMAIN wds' /\ pend' = Len(wds) + 1
        BY <2>2, <3>1, AddQueueDirType DEF AddQueueDir, WatchKind
      <3> QED
        BY <1>17, <3>2, AllocatedFresh DEF EnsureQueueDir, watchVars, workerVars
    <2> QED
      BY <1>17, <2>1, <2>2 DEF EnsureQueueDir
  <1>18. ASSUME NEW w \in Wd, NEW p \in Pid, Spawn(w, p)
         PROVE  Goal
    <2>1. w \in watch_list /\ q_pid[w] = NoPid /\ w \in DOMAIN wds
      <3>1. w \in dirty /\ q_pid[w] = NoPid
        BY <1>18 DEF Spawn, TakeDirty, Eligible
      <3>2. dirty \subseteq watch_list /\ watch_list \subseteq DOMAIN wds
        BY DEF TypeOK, WatchType
      <3> QED
        BY <3>1, <3>2
    <2>2. /\ wwd' = [wwd EXCEPT ![p] = w] /\ q_pid' = [q_pid EXCEPT ![w] = p]
          /\ UNCHANGED <<watch_list, wds, pc>> /\ pc # "link"
      BY <1>18 DEF Spawn, TakeDirty, kernelVars, attachVars
    <2>3. Children' = Children \cup {p}
      BY <1>18, SMTT(30) DEF Spawn, Children, TypeOK, WorkerType
    <2>4. wwd \in [Pid -> 0 .. MaxWd] /\ q_pid \in [Wd -> Pid \cup {NoPid}]
      BY DEF TypeOK, WorkerType, WatchType
    <2>5. \A x \in Children : x # p /\ (wwd[x] \in watch_list => wwd[x] # w)
      BY <1>18, <2>1 DEF Spawn, Children, OneWorkerPerWatch
    <2>6. OneWorkerPerWatch'
      <3> SUFFICES ASSUME NEW x \in Children', wwd'[x] \in watch_list
                   PROVE  q_pid'[wwd'[x]] = x
        BY <2>2 DEF OneWorkerPerWatch
      <3>1. CASE x = p
        BY <2>2, <2>4, <3>1
      <3>2. CASE x # p
        <4>1. x \in Children /\ wwd'[x] = wwd[x]
          BY <2>2, <2>3, <2>4, <3>2 DEF Children
        <4>2. q_pid[wwd[x]] = x /\ wwd[x] # w
          BY <2>5, <4>1 DEF OneWorkerPerWatch
        <4>3. watch_list \subseteq Wd
          BY SMTT(30) DEF TypeOK, WatchType, KernelType, Wd
        <4>4. wwd[x] \in Wd
          BY <4>1, <4>3
        <4> QED
          BY <2>2, <2>4, <4>1, <4>2, <4>4
      <3> QED
        BY <3>1, <3>2
    <2>7. FreshWatch'
      BY <2>1, <2>2, <2>3, <2>4 DEF FreshWatch, Children
    <2> QED
      BY <2>6, <2>7
  <1>19. CASE \E w \in Wd : SpawnFails(w)
    BY <1>1, <1>19 DEF SpawnFails, TakeDirty, workerVars, kernelVars, attachVars
  <1>20. CASE Fatal
    BY <1>5, <1>20 DEF Fatal
  <1>21. CASE Daemon
    BY <1>7, <1>8, <1>9, <1>10, <1>11, <1>12, <1>13, <1>14, <1>15, <1>16, <1>17,
       <1>18, <1>19, <1>20, <1>21 DEF Daemon
  <1> QED
    BY <1>2, <1>3, <1>4, <1>6, <1>21 DEF Next

\* What every variable holds and who works for whom, whatever is removed or killed.
WorkerInv == TypeOK /\ OneWorkerPerWatch /\ FreshWatch

\* The initial state.
LEMMA InitWorkers == Init => WorkerInv
  <1> SUFFICES ASSUME Init PROVE WorkerInv
    OBVIOUS
  <1>1. FsType
    <2>1. /\ dir = [k \in Kind |-> [q \in Queue |-> 0]]
          /\ gens = [k \in Kind |-> [q \in Queue |-> 0]]
          /\ loc = [e \in Event |-> "none"] /\ due = [e \in Event |-> 0]
          /\ pause = {} /\ rmpc = [q \in Queue |-> "idle"] /\ now = 0
      BY DEF Init
    <2> QED
      BY <2>1, SMTT(30) DEF FsType, Loc
  <1>2. KernelType
    <2>1. /\ inotify = <<>> /\ wds = <<>> /\ kwatch = {} /\ pipe = {}
          /\ sigchld = FALSE /\ tfd = 0
      BY DEF Init
    <2>2. <<>> \in Seq(InotifyEvent) /\ <<>> \in Seq(WatchNode) /\ Len(<<>>) = 0
      BY SMTT(30)
    <2>3. inotify \in Seq(InotifyEvent) /\ wds \in Seq(WatchNode) /\ Len(wds) = 0
      BY <2>1, <2>2
    <2>4. 0 <= MaxWd /\ tfd \in Nat
      BY <2>1, SMTT(30)
    <2>5. Len(wds) <= MaxWd
      BY <2>3, <2>4
    <2>6. sigchld \in BOOLEAN
      BY <2>1
    <2> QED
      BY <2>1, <2>3, <2>4, <2>5, <2>6 DEF KernelType
  <1>3. WatchType
    <2>1. /\ watch_list = {} /\ dirty = {} /\ paused = {}
          /\ q_pid = [w \in Wd |-> NoPid]
          /\ pause_all = FALSE /\ dirty_queues = 0 /\ timer_changed = FALSE
      BY DEF Init
    <2> QED
      BY <2>1 DEF WatchType
  <1>4. ControlType
    <2>1. /\ pc = "start" /\ booted = FALSE /\ todo = {} /\ scan = {}
          /\ skind = "queue" /\ pend = 0 /\ tscan = {} /\ duetodo = {}
          /\ cur = NoEvent /\ tnow = 0 /\ tnext = 0
      BY DEF Init
    <2> QED
      BY <2>1 DEF ControlType, DaemonPc, WatchKind
  <1>5. WorkerType
    <2>1. /\ wpc = [p \in Pid |-> "none"]
          /\ wq = [p \in Pid |-> CHOOSE q \in Queue : TRUE]
          /\ wwd = [p \in Pid |-> 0] /\ wsrc = [p \in Pid |-> 0]
          /\ wdst = [p \in Pid |-> 0] /\ wtodo = [p \in Pid |-> {}] /\ faults = 0
      BY DEF Init
    <2> QED
      BY <2>1, SMTT(30) DEF WorkerType, WorkerPc
  <1>6. Children = {} /\ pc = "start"
    BY DEF Init, Children
  <1> QED
    BY <1>1, <1>2, <1>3, <1>4, <1>5, <1>6
    DEF WorkerInv, TypeOK, OneWorkerPerWatch, FreshWatch

\* A stuttering step.
LEMMA WorkersStutter ==
    ASSUME WorkerInv, UNCHANGED vars
    PROVE  WorkerInv'
  <1>1. UNCHANGED <<fsVars, kernelVars, watchVars, pc, localVars, workerVars, faults>>
    BY DEF vars, daemonVars
  <1>2. TypeOK'
    BY <1>1, FsStutter, KernelStutter, WatchStutter, ControlStutter,
       WorkerStutter DEF WorkerInv, TypeOK, kernelVars, attachVars
  <1>3. OneWorkerPerWatch' /\ FreshWatch'
    BY <1>1, WorkersQuiet DEF WorkerInv, Children, watchVars, localVars, workerVars,
                              kernelVars, attachVars
  <1> QED
    BY <1>2, <1>3 DEF WorkerInv

\* WorkerInv is inductive: every step of the clients, of the daemon and of its
\* workers, and every fault, preserves it.
THEOREM WorkersInvariance == Spec => []WorkerInv
  <1>1. WorkerInv /\ [Next]_vars => WorkerInv'
    BY TypeStep, WorkersStep, WorkersStutter DEF WorkerInv
  <1> QED
    BY <1>1, InitWorkers, PTL DEF Spec

\* Type correctness of the daemon, its workers and its file system, for any
\* number of queues, events, processes and descriptors.
THEOREM TypeCorrect == Spec => []TypeOK
  <1>1. WorkerInv => TypeOK
    BY DEF WorkerInv
  <1> QED
    BY <1>1, WorkersInvariance, PTL

\* No element of the watch list is ever given to two workers at a time.
THEOREM WorkerUnique == Spec => []OneWorkerPerWatch
  <1>1. WorkerInv => OneWorkerPerWatch
    BY DEF WorkerInv
  <1> QED
    BY <1>1, WorkersInvariance, PTL

----------------------------------------------------------------------------
(* While no queue is removed *)

KeptEvent == {ev \in InotifyEvent : ev.mask # "delete_self"}

\* Notifications of clients never report a deleted directory.
LEMMA NotifyKept ==
    ASSUME NEW s \in Seq(KeptEvent), NEW ev \in KeptEvent
    PROVE  Notify(s, ev) \in Seq(KeptEvent)
  BY SMTT(30) DEF Notify

\* A notification of the roots or of the pause directory.
LEMMA NotifyRootKept ==
    ASSUME inotify \in Seq(KeptEvent), NEW m \in {"create_queue", "create_timer", "pause"}
    PROVE  NotifyRoot(inotify, m) \in Seq(KeptEvent)
  <1>1. Ev(m, 0) \in KeptEvent
    BY DEF Ev, InotifyEvent, KeptEvent
  <1> QED
    BY <1>1, NotifyKept DEF NotifyRoot

\* A notification that a file appeared in a watched directory.
LEMMA NotifyDirKept ==
    ASSUME KernelType, inotify \in Seq(KeptEvent), NEW k, NEW q
    PROVE  NotifyDir(inotify, k, q, "modify") \in Seq(KeptEvent)
  <1>1. CASE WatchOf(k, q) = {}
    BY <1>1 DEF NotifyDir
  <1>2. CASE WatchOf(k, q) # {}
    <2> DEFINE w == CHOOSE v \in WatchOf(k, q) : TRUE
    <2>1. w \in Wd
      BY <1>2, SMTT(30) DEF WatchOf, KernelType, Wd
    <2>2. Ev("modify", w) \in KeptEvent
      BY <2>1 DEF Ev, InotifyEvent, KeptEvent
    <2> QED
      BY <1>2, <2>2, NotifyKept DEF NotifyDir
  <1> QED
    BY <1>1, <1>2

\* The steps that cannot happen: removing a queue, reading that a directory
\* was deleted, and every end of the daemon.
LEMMA NothingLost ==
    ASSUME NoRemoval, KeptInv
    PROVE  /\ ~Stop /\ ~Restart /\ ~Fatal /\ ~ReadDeleteSelf
           /\ \A q \in Queue : ~RemoveQueue(q) /\ ~RemoveDir(q)
  <1>1. ~Stop /\ ~Restart
    BY DEF NoRemoval, Stop, Restart
  <1>2. \A q \in Queue : ~RemoveQueue(q) /\ ~RemoveDir(q)
    BY DEF NoRemoval, RemoveQueue, RemoveDir, KeptInv, ScansExist
  <1>3. ~ReadDeleteSelf
    <2>1. inotify # <<>> => Head(inotify) \in KeptEvent
      BY SMTT(30) DEF KeptInv, ScansExist, KeptEvent
    <2> QED
      BY <2>1 DEF ReadDeleteSelf, KeptEvent
  <1>4. ~Fatal
    <2>1. ~(pc = "scan" /\ \E q \in scan : dir[skind][q] = 0)
      BY DEF KeptInv, ScansExist, Existing
    <2>2. ~(pc = "link" /\ dir[wds[pend].kind][wds[pend].queue] = 0)
      <3> SUFFICES ASSUME pc = "link" PROVE dir[wds[pend].kind][wds[pend].queue] # 0
        OBVIOUS
      <3>1. pend \in DOMAIN wds
        BY DEF KeptInv, Inv, TypeOK, ControlType
      <3>2. wds[pend] \in WatchNode
        BY <3>1, SMTT(30) DEF KeptInv, Inv, TypeOK, KernelType
      <3>3. wds[pend].gen # 0
        BY <3>2, SMTT(30) DEF WatchNode
      <3> QED
        BY <3>1, <3>3 DEF KeptInv, WatchesUnique
    <2>3. ~(pc = "update" /\ duetodo = {} /\ \E q \in tscan : dir["timer"][q] = 0)
      BY DEF KeptInv, ScansExist, Existing
    <2>4. ~(pc = "spawn" /\ Eligible # {} /\ dirty_queues = 0)
      <3> SUFFICES ASSUME Eligible # {} PROVE dirty_queues # 0
        OBVIOUS
      <3> QED
        BY DEF Eligible, KeptInv, DirtySeen
    <2> QED
      BY <2>1, <2>2, <2>3, <2>4 DEF Fatal
  <1> QED
    BY <1>1, <1>2, <1>3, <1>4

\* A step that removes no directory.
DirsKept ==
    \A k \in Kind, q \in Queue : dir[k][q] # 0 => dir'[k][q] = dir[k][q]

\* What a step can be while nothing is removed.
LEMMA KeptCases ==
    ASSUME NoRemoval, KeptInv, Next
    PROVE  \/ \E k \in Kind, q \in Queue : MkDir(k, q)
           \/ \E e \in Event : Publish(e)
           \/ \E e \in Event, d \in Dues : PublishTimer(e, d)
           \/ \E e \in Event : DoneEvent(e)
           \/ \E x \in Queue \cup {All} : PauseQueue(x)
           \/ Daemon /\ ~Fatal /\ ~ReadDeleteSelf
           \/ Tick
           \/ \E p \in Pid : Worker(p) \/ Handler(p)
  BY NothingLost DEF Next, Client

\* Directories stay.
LEMMA DirsStep ==
    ASSUME NoRemoval, KeptInv, Next
    PROVE  DirsKept
  <1>1. CASE UNCHANGED dir
    BY <1>1 DEF DirsKept
  <1>2. ASSUME NEW k \in Kind, NEW q \in Queue, MkDir(k, q)
        PROVE  DirsKept
    BY <1>2 DEF MkDir, DirsKept, KeptInv, Inv, TypeOK, FsType
  <1>3. ASSUME NEW e \in Event, EnsureQueueDir(e)
        PROVE  DirsKept
    BY <1>3 DEF EnsureQueueDir, DirsKept, KeptInv, Inv, TypeOK, FsType, Kind
  <1>4. ASSUME NEW p \in Pid, WorkerMkdir(p)
        PROVE  DirsKept
    BY <1>4, SMTT(30) DEF WorkerMkdir, DirsKept, KeptInv, Inv, TypeOK, FsType, WorkerType, Kind
  <1>5. CASE Tick \/ (\E e \in Event : Publish(e) \/ DoneEvent(e))
               \/ (\E e \in Event, d \in Dues : PublishTimer(e, d))
               \/ (\E x \in Queue \cup {All} : PauseQueue(x))
    BY <1>1, <1>5 DEF Tick, Publish, DoneEvent, PublishTimer, PauseQueue, dirVars
  <1>6. ASSUME NEW p \in Pid, Worker(p) \/ Handler(p), ~WorkerMkdir(p)
        PROVE  DirsKept
    BY <1>1, <1>6, WorkerFrame DEF dirVars
  <1>7. ASSUME Daemon, ~Fatal, ~ReadDeleteSelf, \A e \in Event : ~EnsureQueueDir(e)
        PROVE  DirsKept
    <2>1. UNCHANGED dir
      BY <1>7 DEF Daemon, Start, FirstScan, ScanDone, LinkWatch, FirstPause,
                  ScanEntry, EpollWait, Dispatched, Dispatch, ReapWorkers,
                  ReadTimer, ReadModify, ReadCreate, ReadPause, InotifyDrained,
                  ReadPipe, PipeDrained, BeginUpdate, MoveTimerEvent, EndUpdate,
                  ReadTimerDir, Spawn, SpawnFails, Spawned, Goto, fsVars, dirVars
    <2> QED
      BY <1>1, <2>1
  <1> QED
    BY <1>2, <1>3, <1>4, <1>5, <1>6, <1>7, KeptCases

\* A step that adds no watch keeps the watches unique.
LEMMA WatchesQuiet ==
    ASSUME KeptInv, DirsKept, UNCHANGED <<wds, kwatch>>
    PROVE  WatchesUnique'
  <1>1. \A w \in DOMAIN wds : wds[w] \in WatchNode
    BY SMTT(30) DEF KeptInv, Inv, TypeOK, KernelType
  <1>2. \A w \in DOMAIN wds :
          wds[w].kind \in Kind /\ wds[w].queue \in Queue /\ wds[w].gen # 0
    BY <1>1, SMTT(30) DEF WatchNode, WatchKind, Kind
  <1> QED
    BY <1>2, SMTT(30) DEF KeptInv, WatchesUnique, DirsKept

\* add_queue_dir adds the first watch of a directory.
LEMMA AddQueueDirUnique ==
    ASSUME KeptInv, DirsKept, NEW k \in WatchKind, NEW q \in Queue,
           NEW g \in 1 .. MaxGen, AddQueueDir(k, q, g), WatchOf(k, q) = {},
           dir'[k][q] = g
    PROVE  WatchesUnique'
  <1> DEFINE node == [kind |-> k, queue |-> q, gen |-> g, ino |-> g]
             new == Len(wds) + 1
  <1>1. wds \in Seq(WatchNode) /\ Len(wds) \in Nat /\ DOMAIN wds = 1 .. Len(wds)
    BY SMTT(30) DEF KeptInv, Inv, TypeOK, KernelType
  <1>2. \A w \in DOMAIN wds :
          wds[w].kind \in Kind /\ wds[w].queue \in Queue /\ wds[w].gen # 0
    <2>1. \A w \in DOMAIN wds : wds[w] \in WatchNode
      BY <1>1, SMTT(30)
    <2> QED
      BY <2>1, SMTT(30) DEF WatchNode, WatchKind, Kind
  <1>3. \A w \in DOMAIN wds : ~(wds[w].kind = k /\ wds[w].queue = q)
    BY DEF KeptInv, WatchesUnique, WatchOf
  <1>4. /\ node.kind = k /\ node.queue = q /\ node.gen = g /\ node.ino = g
        /\ node \in WatchNode
    BY DEF WatchNode
  <1>5. wds' = Append(wds, node) /\ kwatch' = kwatch \cup {new}
    BY DEF AddQueueDir
  <1> HIDE DEF node
  <1>6. /\ DOMAIN wds' = DOMAIN wds \cup {new} /\ new \notin DOMAIN wds
        /\ \A w \in DOMAIN wds : wds'[w] = wds[w]
        /\ wds'[new] = node
    BY <1>1, <1>4, <1>5, SMTT(30)
  <1> HIDE DEF new
  <1>7. kwatch' = DOMAIN wds'
    BY <1>5, <1>6 DEF KeptInv, WatchesUnique
  <1>8. \A w \in DOMAIN wds' :
          /\ wds'[w].gen = dir'[wds'[w].kind][wds'[w].queue]
          /\ wds'[w].ino = wds'[w].gen
    <2>1. \A w \in DOMAIN wds :
            /\ wds[w].gen = dir'[wds[w].kind][wds[w].queue]
            /\ wds[w].ino = wds[w].gen
      BY <1>2, SMTT(30) DEF KeptInv, WatchesUnique, DirsKept
    <2> QED
      BY <1>4, <1>6, <2>1
  <1>9. \A v, w \in DOMAIN wds' :
          wds'[v].kind = wds'[w].kind /\ wds'[v].queue = wds'[w].queue => v = w
    BY <1>3, <1>4, <1>6, SMTT(30) DEF KeptInv, WatchesUnique
  <1> QED
    BY <1>7, <1>8, <1>9 DEF WatchesUnique

\* Every step keeps the watches unique.
LEMMA UniqueStep ==
    ASSUME NoRemoval, KeptInv, Next
    PROVE  WatchesUnique'
  <1>1. DirsKept
    BY DirsStep
  <1>2. CASE UNCHANGED attachVars
    BY <1>1, <1>2, WatchesQuiet DEF attachVars
  <1>3. ASSUME NEW q \in Queue, ScanEntry(q)
        PROVE  WatchesUnique'
    <2>1. dir[skind][q] \in 1 .. MaxGen /\ skind \in WatchKind
      BY <1>3, SMTT(30) DEF ScanEntry, KeptInv, Inv, TypeOK, FsType, ControlType, WatchKind, Kind
    <2>2. CASE WatchOf(skind, q) = {}
      <3>1. AddQueueDir(skind, q, dir[skind][q]) /\ dir' = dir
        BY <1>3, <2>2 DEF ScanEntry, fsVars, dirVars
      <3> QED
        BY <1>1, <2>1, <2>2, <3>1, AddQueueDirUnique
    <2>3. CASE WatchOf(skind, q) # {}
      BY <1>2, <1>3, <2>3 DEF ScanEntry
    <2> QED
      BY <2>2, <2>3
  <1>4. CASE LinkWatch
    <2>1. pend \in DOMAIN wds /\ kwatch' = kwatch /\ dir' = dir
      BY <1>4 DEF LinkWatch, KeptInv, Inv, TypeOK, ControlType, fsVars, dirVars
    <2>2. wds' = [wds EXCEPT ![pend].ino = dir[wds[pend].kind][wds[pend].queue]]
      BY <1>4 DEF LinkWatch
    <2>3. wds[pend] \in WatchNode
      BY <2>1, SMTT(30) DEF KeptInv, Inv, TypeOK, KernelType
    <2>4. dir[wds[pend].kind][wds[pend].queue] = wds[pend].ino
      BY <2>1 DEF KeptInv, WatchesUnique
    <2>5. DOMAIN wds' = DOMAIN wds /\ \A w \in DOMAIN wds : wds'[w] = wds[w]
      BY <2>1, <2>2, <2>3, <2>4 DEF WatchNode
    <2> QED
      BY <2>1, <2>5 DEF KeptInv, WatchesUnique
  <1>5. ASSUME NEW e \in Event, EnsureQueueDir(e)
        PROVE  WatchesUnique'
    <2> DEFINE q == QueueOf[e]
               g == IF dir["queue"][q] = 0 THEN gens["queue"][q] + 1
                                           ELSE dir["queue"][q]
    <2>1. q \in Queue /\ g \in 1 .. MaxGen
      <3>1. /\ q \in Queue /\ dir["queue"][q] \in 0 .. MaxGen /\ gens["queue"][q] \in 0 .. MaxGen
        BY SMTT(30) DEF KeptInv, Inv, TypeOK, FsType, Kind
      <3>2. g <= MaxGen
        BY <1>5 DEF EnsureQueueDir
      <3> QED
        BY <3>1, <3>2, SMTT(30)
    <2>2. dir'["queue"][q] = g
      BY <1>5, <2>1 DEF EnsureQueueDir, KeptInv, Inv, TypeOK, FsType, Kind
    <2>3. CASE QueueWatches(q) # {} \/ WatchOf("queue", q) # {}
      BY <1>2, <1>5, <2>3 DEF EnsureQueueDir
    <2>4. CASE ~(QueueWatches(q) # {} \/ WatchOf("queue", q) # {})
      <3>1. AddQueueDir("queue", q, g) /\ WatchOf("queue", q) = {}
        BY <1>5, <2>4 DEF EnsureQueueDir
      <3> QED
        BY <1>1, <2>1, <2>2, <3>1, AddQueueDirUnique DEF WatchKind
    <2> QED
      BY <2>3, <2>4
  <1>6. CASE Tick \/ (\E e \in Event : Publish(e) \/ DoneEvent(e))
               \/ (\E k \in Kind, q \in Queue : MkDir(k, q))
               \/ (\E e \in Event, d \in Dues : PublishTimer(e, d))
               \/ (\E x \in Queue \cup {All} : PauseQueue(x))
    BY <1>2, <1>6 DEF Tick, MkDir, Publish, DoneEvent, PublishTimer, PauseQueue,
                      kernelVars
  <1>7. ASSUME NEW p \in Pid, Worker(p) \/ Handler(p)
        PROVE  WatchesUnique'
    BY <1>2, <1>7, WorkerFrame DEF attachVars
  <1>8. ASSUME Daemon, ~Fatal, ~ReadDeleteSelf, ~LinkWatch,
               \A q \in Queue : ~ScanEntry(q), \A e \in Event : ~EnsureQueueDir(e)
        PROVE  WatchesUnique'
    <2>1. UNCHANGED attachVars
      BY <1>8 DEF Daemon, Start, FirstScan, ScanDone, FirstPause, EpollWait,
                  Dispatched, Dispatch, ReapWorkers, ReadTimer, ReadModify,
                  ReadCreate, ReadPause, InotifyDrained, ReadPipe, PipeDrained,
                  BeginUpdate, MoveTimerEvent, EndUpdate, ReadTimerDir, Spawn,
                  SpawnFails, Spawned, Goto, kernelVars
    <2> QED
      BY <1>2, <2>1
  <1> QED
    BY <1>3, <1>4, <1>5, <1>6, <1>7, <1>8, KeptCases

\* No directory is reported as deleted.
LEMMA KnownStep ==
    ASSUME NoRemoval, KeptInv, Next
    PROVE  rmpc' = rmpc /\ inotify' \in Seq(KeptEvent)
  <1> DEFINE Goal == rmpc' = rmpc /\ inotify' \in Seq(KeptEvent)
  <1>1. inotify \in Seq(KeptEvent) /\ KernelType
    BY DEF KeptInv, ScansExist, KeptEvent, Inv, TypeOK
  <1>2. CASE UNCHANGED <<rmpc, inotify>>
    BY <1>1, <1>2
  <1>3. CASE rmpc' = rmpc /\ inotify # <<>> /\ inotify' = Tail(inotify)
    BY <1>1, <1>3, SMTT(30)
  <1>4. ASSUME NEW k \in Kind, NEW q \in Queue, MkDir(k, q)
        PROVE  Goal
    BY <1>1, <1>4, NotifyRootKept DEF MkDir, clientVars, Kind
  <1>5. CASE (\E e \in Event : Publish(e)) \/ (\E e \in Event, d \in Dues : PublishTimer(e, d))
    BY <1>1, <1>5, NotifyDirKept, SMTT(30) DEF Publish, PublishTimer, clientVars
  <1>6. CASE \E x \in Queue \cup {All} : PauseQueue(x)
    BY <1>1, <1>6, NotifyRootKept DEF PauseQueue
  <1>7. CASE Tick \/ \E e \in Event : DoneEvent(e)
    BY <1>2, <1>7 DEF Tick, DoneEvent, clientVars, kernelVars
  <1>8. ASSUME NEW p \in Pid, Worker(p) \/ Handler(p)
        PROVE  Goal
    BY <1>2, <1>8, WorkerFrame DEF clientVars
  <1>9. CASE ReadModify \/ ReadCreate \/ ReadPause
    BY <1>3, <1>9 DEF ReadModify, ReadCreate, ReadPause, fsVars, clientVars
  <1>10. ASSUME NEW e \in Event, EnsureQueueDir(e)
         PROVE  Goal
    BY <1>1, <1>10, NotifyRootKept DEF EnsureQueueDir, clientVars
  <1>11. CASE MoveTimerEvent
    <2>1. \/ inotify' = inotify
          \/ inotify' = NotifyDir(inotify, "queue", QueueOf[cur], "modify")
      BY <1>11 DEF MoveTimerEvent
    <2>2. rmpc' = rmpc
      BY <1>11 DEF MoveTimerEvent, clientVars
    <2> QED
      BY <1>1, <2>1, <2>2, NotifyDirKept
  <1>12. ASSUME Daemon, ~Fatal, ~ReadDeleteSelf, ~ReadModify, ~ReadCreate, ~ReadPause,
                \A e \in Event : ~EnsureQueueDir(e), ~MoveTimerEvent
         PROVE  Goal
    <2>1. UNCHANGED <<rmpc, inotify>>
      BY <1>12 DEF Daemon, Start, FirstScan, ScanDone, LinkWatch, FirstPause,
                   ScanEntry, EpollWait, Dispatched, Dispatch, ReapWorkers,
                   ReadTimer, InotifyDrained, ReadPipe, PipeDrained, BeginUpdate,
                   EndUpdate, ReadTimerDir, Spawn, SpawnFails, Spawned, Goto,
                   kernelVars, fsVars, clientVars
    <2> QED
      BY <1>2, <2>1
  <1> QED
    BY <1>4, <1>5, <1>6, <1>7, <1>8, <1>9, <1>10, <1>11, <1>12, KeptCases

\* The scans of both roots meet existing directories only.
LEMMA FoundStep ==
    ASSUME NoRemoval, KeptInv, Next
    PROVE  scan' \subseteq Existing(skind)' /\ tscan' \subseteq Existing("timer")'
  <1> DEFINE Goal == scan' \subseteq Existing(skind)' /\ tscan' \subseteq Existing("timer")'
  <1>1. \A k \in Kind, q \in Queue : dir[k][q] # 0 => dir'[k][q] # 0
    BY DirsStep DEF DirsKept
  <1>2. skind \in Kind /\ "timer" \in Kind
    BY DEF KeptInv, Inv, TypeOK, ControlType, WatchKind, Kind
  <1>3. scan \subseteq Existing(skind) /\ tscan \subseteq Existing("timer")
    BY DEF KeptInv, ScansExist
  <1>4. ASSUME scan' \subseteq scan, skind' = skind, tscan' \subseteq tscan
        PROVE  Goal
    BY <1>1, <1>2, <1>3, <1>4 DEF Existing
  <1>5. ASSUME NEW k \in WatchKind, BeginScan(k), dir' = dir
        PROVE  Goal
    BY <1>1, <1>2, <1>3, <1>5 DEF BeginScan, updateVars, Existing
  <1>6. CASE FirstScan \/ ReadCreate
    BY <1>5, <1>6 DEF FirstScan, ReadCreate, fsVars, dirVars, WatchKind
  <1>7. CASE ScanDone
    BY <1>4, <1>5, <1>7 DEF ScanDone, localVars, updateVars, fsVars, dirVars, WatchKind
  <1>8. CASE BeginUpdate
    BY <1>1, <1>2, <1>3, <1>8 DEF BeginUpdate, fsVars, dirVars, Existing
  <1>9. CASE (\E q \in Queue : ScanEntry(q) \/ ReadTimerDir(q))
    BY <1>4, <1>9 DEF ScanEntry, ReadTimerDir, updateVars
  <1>10. CASE Tick \/ (\E e \in Event : Publish(e) \/ DoneEvent(e))
                \/ (\E k \in Kind, q \in Queue : MkDir(k, q))
                \/ (\E e \in Event, d \in Dues : PublishTimer(e, d))
                \/ (\E x \in Queue \cup {All} : PauseQueue(x))
    BY <1>4, <1>10 DEF Tick, MkDir, Publish, DoneEvent, PublishTimer, PauseQueue,
                       daemonVars, localVars, updateVars
  <1>11. ASSUME NEW p \in Pid, Worker(p) \/ Handler(p)
         PROVE  Goal
    <2>1. UNCHANGED daemonVars
      BY <1>11, WorkerFrame
    <2> QED
      BY <1>4, <2>1 DEF daemonVars, localVars, updateVars
  <1>12. ASSUME Daemon, ~Fatal, ~ReadDeleteSelf, ~FirstScan, ~ReadCreate, ~ScanDone,
                ~BeginUpdate, \A q \in Queue : ~ScanEntry(q) /\ ~ReadTimerDir(q)
         PROVE  Goal
    <2>1. UNCHANGED <<scan, skind, tscan>>
      BY <1>12 DEF Daemon, Start, LinkWatch, FirstPause, EpollWait, Dispatched,
                   Dispatch, ReapWorkers, ReadTimer, ReadModify, ReadPause,
                   InotifyDrained, ReadPipe, PipeDrained, MoveTimerEvent,
                   EndUpdate, EnsureQueueDir, Spawn, SpawnFails, Spawned, Goto,
                   localVars, updateVars
    <2> QED
      BY <1>4, <2>1
  <1> QED
    BY <1>6, <1>7, <1>8, <1>9, <1>10, <1>11, <1>12, KeptCases

\* The kind and the queue of a descriptor never change.
NodesKept ==
    \A w \in DOMAIN wds : /\ w \in DOMAIN wds'
                          /\ wds'[w].kind = wds[w].kind
                          /\ wds'[w].queue = wds[w].queue

\* add_queue_dir leaves the earlier descriptors alone.
LEMMA NodesAppend ==
    ASSUME KernelType, NEW k, NEW q, NEW g, AddQueueDir(k, q, g)
    PROVE  NodesKept
  <1> DEFINE node == [kind |-> k, queue |-> q, gen |-> g, ino |-> g]
  <1>1. wds \in Seq(WatchNode) /\ wds' = Append(wds, node)
    BY DEF KernelType, AddQueueDir
  <1> HIDE DEF node
  <1>2. \A w \in DOMAIN wds : w \in DOMAIN wds' /\ wds'[w] = wds[w]
    BY <1>1, SMTT(30)
  <1> QED
    BY <1>2 DEF NodesKept

\* A step that marks no element dirty, starts no worker and frees no element.
LEMMA OwnedQuiet ==
    ASSUME KeptInv, NodesKept, dirty' \subseteq dirty, watch_list \subseteq watch_list',
           Children' \subseteq Children, wwd' = wwd, wq' = wq,
           \A p \in Pid : wpc'[p] # "orphan"
    PROVE  WorkersOwned'
  <1>1. dirty \subseteq DOMAIN wds /\ watch_list \subseteq DOMAIN wds
    BY DEF KeptInv, Inv, TypeOK, WatchType
  <1> QED
    BY <1>1 DEF KeptInv, WorkersOwned, NodesKept

\* mark_queue_dirty on an element of a queue directory.
LEMMA OwnedMarkDirty ==
    ASSUME KeptInv, NodesKept, NEW w \in DOMAIN wds, wds[w].kind = "queue", MarkDirty(w),
           watch_list \subseteq watch_list', UNCHANGED workerVars
    PROVE  WorkersOwned'
  <1>1. dirty \subseteq DOMAIN wds /\ watch_list \subseteq DOMAIN wds
    BY DEF KeptInv, Inv, TypeOK, WatchType
  <1>2. wpc' = wpc /\ wwd' = wwd /\ wq' = wq /\ Children' = Children
    BY DEF workerVars, Children
  <1> QED
    BY <1>1, <1>2 DEF KeptInv, WorkersOwned, NodesKept, MarkDirty

\* Every step keeps the elements of the workers.
LEMMA OwnedStep ==
    ASSUME NoRemoval, KeptInv, Next
    PROVE  WorkersOwned'
  <1>2. ASSUME NodesKept, dirty' \subseteq dirty, watch_list \subseteq watch_list',
               UNCHANGED workerVars
        PROVE  WorkersOwned'
    <2>1. wpc' = wpc /\ wwd' = wwd /\ wq' = wq /\ Children' = Children
      BY <1>2 DEF workerVars, Children
    <2> QED
      BY <1>2, <2>1, OwnedQuiet DEF KeptInv, WorkersOwned
  <1>3. ASSUME UNCHANGED <<wds, watch_list, dirty, workerVars>>
        PROVE  WorkersOwned'
    BY <1>2, <1>3 DEF NodesKept
  <1>4. watch_list \subseteq DOMAIN wds
    BY DEF KeptInv, Inv, TypeOK, WatchType
  <1>5. ASSUME UNCHANGED <<wds, watch_list, workerVars>>, NEW w \in watch_list,
               wds[w].kind = "queue", MarkDirty(w)
        PROVE  WorkersOwned'
    BY <1>4, <1>5, OwnedMarkDirty DEF NodesKept
  <1>6. CASE Tick \/ (\E e \in Event : Publish(e) \/ DoneEvent(e))
               \/ (\E k \in Kind, q \in Queue : MkDir(k, q))
               \/ (\E e \in Event, d \in Dues : PublishTimer(e, d))
               \/ (\E x \in Queue \cup {All} : PauseQueue(x))
    BY <1>3, <1>6 DEF Tick, MkDir, Publish, DoneEvent, PublishTimer, PauseQueue,
                      daemonVars, watchVars, dirtyVars, kernelVars, attachVars
  <1>7. ASSUME NEW p \in Pid, Worker(p) \/ Handler(p)
        PROVE  WorkersOwned'
    <2>1. UNCHANGED <<daemonVars, wwd, wq, wds>>
      BY <1>7, WorkerFrame DEF attachVars
    <2>2. Children' = Children
      BY <1>7, WorkerStepChildren DEF KeptInv, Inv, TypeOK
    <2>3. \A x \in Pid : wpc'[x] # "orphan"
      <3>1. \A x \in Pid : wpc[x] # "orphan"
        BY DEF KeptInv, WorkersOwned
      <3>2. \/ wpc' = wpc
            \/ \E x \in WorkerPc \ {"orphan"} : wpc' = [wpc EXCEPT ![p] = x]
        BY <1>7, <3>1 DEF Worker, Handler, WorkerOpen, WorkerMkdir, WorkerMove,
                  WorkerCheck, WorkerRecheck, WorkerSignal, WorkerQuit, WorkerExit,
                  HandlerFails, HandlerExit, HandlerDone, workerVars, WorkerPc
      <3>3. wpc \in [Pid -> WorkerPc]
        BY DEF KeptInv, Inv, TypeOK, WorkerType
      <3> QED
        BY <3>1, <3>2, <3>3
    <2> QED
      BY <2>1, <2>2, <2>3, OwnedQuiet DEF daemonVars, watchVars, dirtyVars, NodesKept
  <1>8. ASSUME NEW q \in Queue, ScanEntry(q)
        PROVE  WorkersOwned'
    <2>1. NodesKept
      BY <1>8, NodesAppend DEF ScanEntry, attachVars, NodesKept, KeptInv, Inv, TypeOK
    <2> QED
      BY <1>2, <1>8, <2>1 DEF ScanEntry, watchVars, dirtyVars
  <1>9. ASSUME NEW e \in Event, EnsureQueueDir(e)
        PROVE  WorkersOwned'
    <2>1. NodesKept
      BY <1>9, NodesAppend DEF EnsureQueueDir, attachVars, NodesKept, KeptInv, Inv, TypeOK
    <2> QED
      BY <1>2, <1>9, <2>1 DEF EnsureQueueDir, watchVars, dirtyVars
  <1>10. CASE LinkWatch
    <2>1. pend \in DOMAIN wds /\ wds[pend] \in WatchNode
      BY <1>10, SMTT(30) DEF LinkWatch, KeptInv, Inv, TypeOK, ControlType, KernelType
    <2>2. NodesKept
      BY <1>10, <2>1 DEF LinkWatch, NodesKept, WatchNode
    <2>3. /\ UNCHANGED workerVars /\ watch_list \subseteq watch_list'
          /\ \/ UNCHANGED dirtyVars
             \/ MarkDirty(pend) /\ wds[pend].kind = "queue"
      BY <1>10 DEF LinkWatch
    <2> QED
      BY <1>2, <2>1, <2>2, <2>3, OwnedMarkDirty DEF dirtyVars
  <1>11. CASE ReadModify
    BY <1>3, <1>5, <1>11 DEF ReadModify, attachVars, dirtyVars
  <1>12. CASE \E w \in Wd : ReadPipe(w)
    BY <1>3, <1>5, <1>12 DEF ReadPipe, attachVars, dirtyVars
  <1>13. CASE MoveTimerEvent
    BY <1>3, <1>5, <1>13 DEF MoveTimerEvent, QueueWatches, attachVars, dirtyVars
  <1>14. CASE ReapWorkers
    <2>1. /\ Children' \subseteq Children /\ \A p \in Pid : wpc'[p] # "orphan"
          /\ UNCHANGED <<wwd, wq, wds, watch_list, dirty>>
      BY <1>14 DEF ReapWorkers, Children, attachVars, dirtyVars, KeptInv, WorkersOwned
    <2> QED
      BY <2>1, OwnedQuiet DEF NodesKept
  <1>15. ASSUME NEW w \in Wd, NEW p \in Pid, Spawn(w, p)
         PROVE  WorkersOwned'
    <2>1. w \in watch_list /\ wds[w].kind = "queue" /\ dirty' \subseteq dirty
      BY <1>15 DEF Spawn, TakeDirty, Eligible, KeptInv, Inv, TypeOK, WatchType,
                   WorkersOwned
    <2>2. /\ wwd' = [wwd EXCEPT ![p] = w] /\ wq' = [wq EXCEPT ![p] = wds[w].queue]
          /\ wpc' = [wpc EXCEPT ![p] = "start"] /\ UNCHANGED <<watch_list, wds>>
      BY <1>15 DEF Spawn, kernelVars, attachVars
    <2>3. wwd \in [Pid -> 0 .. MaxWd] /\ wq \in [Pid -> Queue] /\ wpc \in [Pid -> WorkerPc]
      BY DEF KeptInv, Inv, TypeOK, WorkerType
    <2>4. Children' = Children \cup {p} /\ \A x \in Pid : wpc'[x] # "orphan"
      BY <2>2, <2>3 DEF Children, KeptInv, WorkersOwned
    <2>5. \A x \in Children' : /\ wwd'[x] \in watch_list /\ wds[wwd'[x]].kind = "queue"
                               /\ wds[wwd'[x]].queue = wq'[x]
      BY <2>1, <2>2, <2>3, <2>4 DEF KeptInv, WorkersOwned, Children
    <2> QED
      BY <2>1, <2>2, <2>4, <2>5 DEF WorkersOwned, KeptInv
  <1>16. CASE \E w \in Wd : SpawnFails(w)
    BY <1>2, <1>16 DEF SpawnFails, TakeDirty, NodesKept, kernelVars, attachVars
  <1>17. CASE FirstScan \/ ScanDone \/ FirstPause \/ Start \/ Dispatched
                \/ InotifyDrained \/ PipeDrained \/ Spawned
    BY <1>3, <1>17 DEF FirstScan, ScanDone, FirstPause, Start, Dispatched,
                       InotifyDrained, PipeDrained, Spawned, Goto, watchVars,
                       dirtyVars, kernelVars, attachVars
  <1>18. CASE EpollWait \/ ReadTimer \/ (\E f \in Fd : Dispatch(f)) \/ ReadCreate
                \/ ReadPause \/ BeginUpdate \/ EndUpdate
                \/ (\E q \in Queue : ReadTimerDir(q))
    BY <1>3, <1>18 DEF EpollWait, ReadTimer, Dispatch, ReadCreate, ReadPause,
                       BeginUpdate, EndUpdate, ReadTimerDir, watchVars, dirtyVars,
                       kernelVars, attachVars
  <1> QED
    BY <1>6, <1>7, <1>8, <1>9, <1>10, <1>11, <1>12, <1>13, <1>14, <1>15, <1>16,
       <1>17, <1>18, KeptCases DEF Daemon

\* A queue has one worker at most, from fork() until it is reaped.
LEMMA OneWorkerPerQueue ==
    ASSUME KeptInv, NEW p \in Children, NEW r \in Children, wq[p] = wq[r]
    PROVE  p = r
  <1>1. \A x \in Children : /\ q_pid[wwd[x]] = x /\ wwd[x] \in DOMAIN wds
                            /\ wds[wwd[x]].kind = "queue" /\ wds[wwd[x]].queue = wq[x]
    <2>1. watch_list \subseteq DOMAIN wds
      BY DEF KeptInv, Inv, TypeOK, WatchType
    <2> QED
      BY <2>1 DEF KeptInv, WorkersOwned, Inv, OneWorkerPerWatch
  <1>2. wwd[p] = wwd[r]
    BY <1>1, SMTT(30) DEF KeptInv, WatchesUnique
  <1> QED
    BY <1>1, <1>2

============================================================================
