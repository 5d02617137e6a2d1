--------------------------- MODULE UeventdProofs ----------------------------
(***************************************************************************)
(* What is proved of ueventd as a whole: the counting of dirty elements, the *)
(* theorems that rest on it, and that ueventd keeps what UeventQueue promises *)
(* to filters and handlers.                                                *)
(***************************************************************************)
EXTENDS UeventdTimerProofs, FiniteSetTheorems

USE ConstantsAssumption
\* Zenon with thirty seconds for a leaf, unless the leaf names another prover.
USE ZenonT(30)

----------------------------------------------------------------------------
(* Dirty elements *)

\* The set of dirty elements is finite, being a set of descriptors.
LEMMA DirtyFinite ==
    ASSUME KernelType, WatchType
    PROVE  IsFiniteSet(dirty) /\ Cardinality(dirty) \in Nat
  <1>1. dirty \subseteq 1 .. Len(wds) /\ Len(wds) \in Nat
    BY SMTT(30) DEF KernelType, WatchType
  <1>2. IsFiniteSet(1 .. Len(wds))
    BY <1>1, FS_Interval, SMTT(30)
  <1> QED
    BY <1>1, <1>2, FS_Subset, FS_CardinalityType

\* mark_queue_dirty keeps the counter in step with the flags.
LEMMA MarkDirtyCounts ==
    ASSUME KernelType, WatchType, DirtyCounted, NEW w, MarkDirty(w)
    PROVE  DirtyCounted' /\ dirty_queues' \in Nat
  <1>1. IsFiniteSet(dirty) /\ Cardinality(dirty) \in Nat
    BY DirtyFinite
  <1>2. Cardinality(dirty \cup {w})
          = IF w \in dirty THEN Cardinality(dirty) ELSE Cardinality(dirty) + 1
    BY <1>1, FS_AddElement
  <1>3. dirty_queues \in Nat
    BY DEF WatchType
  <1> QED
    BY <1>1, <1>2, <1>3, SMTT(30) DEF MarkDirty, DirtyCounted

\* Every step keeps dirty_queues at or above the number of dirty elements.
LEMMA DirtyStep ==
    ASSUME TypeOK, DirtyCounted, Next
    PROVE  DirtyCounted'
  <1> USE DEF TypeOK
  <1>1. ASSUME UNCHANGED dirtyVars
        PROVE  DirtyCounted'
    BY <1>1 DEF DirtyCounted, dirtyVars
  <1>2. IsFiniteSet(dirty) /\ Cardinality(dirty) \in Nat /\ dirty_queues \in Nat
    BY DirtyFinite DEF WatchType
  <1>3. CASE Client
    BY <1>1, <1>3 DEF Client, MkDir, Publish, PublishTimer, DoneEvent, PauseQueue,
                      RemoveQueue, RemoveDir, daemonVars, watchVars
  <1>4. ASSUME NEW p \in Pid, Worker(p) \/ Handler(p)
        PROVE  DirtyCounted'
    BY <1>1, <1>4, WorkerFrame DEF daemonVars, watchVars
  <1>5. CASE Tick
    BY <1>1, <1>5 DEF Tick, daemonVars, watchVars
  <1>6. ASSUME Die
        PROVE  DirtyCounted'
    <2>1. Cardinality({}) = 0
      BY FS_EmptySet
    <2> QED
      BY <1>6, <2>1, SMTT(30) DEF Die, DirtyCounted
  <1>7. CASE Stop \/ Restart
    BY <1>1, <1>6, <1>7 DEF Stop, Restart, Goto, watchVars
  <1>8. CASE Start \/ Dispatched \/ InotifyDrained \/ PipeDrained \/ Spawned
    BY <1>1, <1>8 DEF Start, Dispatched, InotifyDrained, PipeDrained, Spawned,
                      Goto, watchVars
  <1>9. CASE FirstScan \/ ScanDone \/ FirstPause \/ (\E q \in Queue : ScanEntry(q))
    BY <1>1, <1>9 DEF FirstScan, ScanDone, FirstPause, ScanEntry, watchVars
  <1>10. CASE LinkWatch
    <2>1. CASE UNCHANGED dirtyVars
      BY <1>1, <2>1
    <2>2. CASE MarkDirty(pend)
      BY <2>2, MarkDirtyCounts
    <2> QED
      BY <1>10, <2>1, <2>2 DEF LinkWatch
  <1>11. CASE EpollWait \/ ReapWorkers \/ ReadTimer \/ (\E f \in Fd : Dispatch(f))
    BY <1>1, <1>11 DEF EpollWait, ReapWorkers, ReadTimer, Dispatch, watchVars
  <1>12. CASE ReadModify
    BY <1>1, <1>12, MarkDirtyCounts DEF ReadModify
  <1>13. CASE ReadDeleteSelf
    <2> DEFINE w == Head(inotify).wd
    <2>1. CASE UNCHANGED dirtyVars
      BY <1>1, <2>1
    <2>2. ASSUME NEW v \in SameIno(w), UnwatchPath(w, v)
          PROVE  DirtyCounted'
      <3>1. IsFiniteSet(dirty \ {v}) /\ Cardinality(dirty \ {v}) <= Cardinality(dirty)
            /\ Cardinality(dirty \ {v}) \in Nat
        BY <1>2, FS_Subset, FS_CardinalityType
      <3>2. Cardinality((dirty \ {v}) \cup {w})
              = IF w \in dirty \ {v} THEN Cardinality(dirty \ {v})
                                     ELSE Cardinality(dirty \ {v}) + 1
        BY <3>1, FS_AddElement
      <3>3. CASE v # w /\ wds[w].kind = "queue"
        <4>1. /\ dirty' = (dirty \ {v}) \cup {w}
              /\ dirty_queues' = IF w \notin dirty THEN dirty_queues + 1
                                                  ELSE dirty_queues
          BY <2>2, <3>3 DEF UnwatchPath
        <4>2. w \in dirty \ {v} <=> w \in dirty
          BY <3>3
        <4>3. Cardinality(dirty) <= dirty_queues
          BY DEF DirtyCounted
        <4>4. CASE w \in dirty
          <5>1. /\ Cardinality(dirty') = Cardinality(dirty \ {v})
                /\ dirty_queues' = dirty_queues
            BY <3>2, <4>1, <4>2, <4>4
          <5> QED
            BY <1>2, <3>1, <4>3, <5>1, SMTT(30) DEF DirtyCounted
        <4>5. CASE w \notin dirty
          <5>1. /\ Cardinality(dirty') = Cardinality(dirty \ {v}) + 1
                /\ dirty_queues' = dirty_queues + 1
            BY <3>2, <4>1, <4>2, <4>5
          <5> QED
            BY <1>2, <3>1, <4>3, <5>1, SMTT(30) DEF DirtyCounted
        <4> QED
          BY <4>4, <4>5
      <3>4. CASE ~(v # w /\ wds[w].kind = "queue")
        <4>1. dirty' = dirty \ {v} /\ dirty_queues' = dirty_queues
          BY <2>2, <3>4 DEF UnwatchPath
        <4> QED
          BY <1>2, <3>1, <4>1, SMTT(30) DEF DirtyCounted
      <3> QED
        BY <3>3, <3>4
    <2> QED
      BY <1>13, <2>1, <2>2 DEF ReadDeleteSelf
  <1>14. CASE ReadCreate \/ ReadPause
    BY <1>1, <1>14 DEF ReadCreate, ReadPause
  <1>15. CASE \E w \in Wd : ReadPipe(w)
    BY <1>1, <1>15, MarkDirtyCounts DEF ReadPipe
  <1>16. CASE BeginUpdate \/ EndUpdate \/ (\E q \in Queue : ReadTimerDir(q))
                \/ (\E e \in Event : EnsureQueueDir(e))
    BY <1>1, <1>16 DEF BeginUpdate, EndUpdate, ReadTimerDir, EnsureQueueDir, watchVars
  <1>17. CASE MoveTimerEvent
    BY <1>1, <1>17, MarkDirtyCounts DEF MoveTimerEvent
  <1>18. ASSUME NEW w \in Wd, TakeDirty(w)
         PROVE  DirtyCounted'
    <2>1. w \in dirty
      BY <1>18 DEF TakeDirty, Eligible
    <2>2. Cardinality(dirty \ {w}) = Cardinality(dirty) - 1
      BY <1>2, <2>1, FS_RemoveElement
    <2> QED
      BY <1>2, <1>18, <2>2, SMTT(30) DEF TakeDirty, DirtyCounted
  <1>19. CASE (\E w \in Wd, p \in Pid : Spawn(w, p)) \/ (\E w \in Wd : SpawnFails(w))
    BY <1>18, <1>19 DEF Spawn, SpawnFails
  <1>20. CASE Fatal
    BY <1>6, <1>20 DEF Fatal
  <1>21. CASE Daemon
    BY <1>8, <1>9, <1>10, <1>11, <1>12, <1>13, <1>14, <1>15, <1>16, <1>17, <1>19,
       <1>20, <1>21 DEF Daemon
  <1> QED
    BY <1>3, <1>4, <1>5, <1>7, <1>21 DEF Next

\* With more counted than there are elements, an element means that something is
\* counted.
LEMMA CountSeen ==
    ASSUME NEW n \in Nat, NEW c \in Nat, NEW S \in SUBSET (1 .. n), Cardinality(S) <= c
    PROVE  S # {} => c # 0
  <1>1. IsFiniteSet(S) /\ Cardinality(S) \in Nat
    <2>1. IsFiniteSet(1 .. n) /\ S \subseteq 1 .. n
      BY FS_Interval, SMTT(30)
    <2> QED
      BY <2>1, FS_Subset, FS_CardinalityType
  <1>2. S # {} => Cardinality(S) # 0
    BY <1>1, FS_EmptySet
  <1> QED
    BY <1>1, <1>2, SMTT(30)

\* In every state, and in the next one, what dirty_queues counts can be counted
\* down for a dirty element.
LEMMA InvSeen == (Inv => DirtySeen) /\ (Inv' => DirtySeen')
  <1>1. ASSUME Inv PROVE DirtySeen
    <2>1. Len(wds) \in Nat /\ dirty_queues \in Nat /\ dirty \in SUBSET (1 .. Len(wds))
      BY <1>1, SMTT(30) DEF Inv, TypeOK, KernelType, WatchType
    <2> QED
      BY <1>1, <2>1, CountSeen DEF Inv, DirtyCounted, DirtySeen
  <1>2. ASSUME Inv' PROVE DirtySeen'
    <2>1. Len(wds') \in Nat /\ dirty_queues' \in Nat /\ dirty' \in SUBSET (1 .. Len(wds'))
      BY <1>2, SMTT(30) DEF Inv, TypeOK, KernelType, WatchType
    <2> QED
      BY <1>2, <2>1, CountSeen DEF Inv, DirtyCounted, DirtySeen
  <1> QED
    BY <1>1, <1>2

\* The initial state satisfies the inductive invariant.
LEMMA InitInv == Init => Inv
  <1> SUFFICES ASSUME Init PROVE Inv
    OBVIOUS
  <1>1. dirty = {} /\ dirty_queues = 0
    BY DEF Init
  <1>2. DirtyCounted
    BY <1>1, FS_EmptySet, SMTT(30) DEF DirtyCounted
  <1> QED
    BY <1>2, InitWorkers DEF Inv, WorkerInv

\* The invariant is inductive.
LEMMA InvStep ==
    ASSUME Inv, [Next]_vars
    PROVE  Inv'
  <1>1. CASE Next
    BY <1>1, TypeStep, DirtyStep, WorkersStep DEF Inv
  <1>2. CASE UNCHANGED vars
    <2>1. DirtyCounted'
      BY <1>2 DEF vars, daemonVars, Inv, DirtyCounted, watchVars, dirtyVars
    <2> QED
      BY <1>2, <2>1, WorkersStutter DEF Inv, WorkerInv
  <1> QED
    BY <1>1, <1>2

\* Inv holds in every reachable state.
THEOREM Invariance == Spec => []Inv
  BY InitInv, InvStep, PTL DEF Spec

\* dirty_queues never falls below the number of dirty elements, whatever is
\* created, removed, paused or killed in the meantime.
THEOREM DirtyQueuesCounted == Spec => []DirtyCounted
  <1>1. Inv => DirtyCounted
    BY DEF Inv
  <1> QED
    BY <1>1, Invariance, PTL

----------------------------------------------------------------------------
(* While no queue is removed *)

\* While no queue is removed and nobody stops the daemon, KeptInv is an
\* invariant.
THEOREM KeptInvariance ==
    ASSUME NoRemoval
    PROVE  Spec => []KeptInv
  <1>1. Init => KeptInv
    <2> SUFFICES ASSUME Init PROVE KeptInv
      OBVIOUS
    <2>1. Inv /\ DirtySeen
      BY InitInv, InvSeen
    <2>2. WatchesUnique
      <3>1. wds = <<>> /\ kwatch = {}
        BY DEF Init
      <3>2. DOMAIN wds = {}
        BY <3>1, SMTT(30)
      <3> QED
        BY <3>1, <3>2 DEF WatchesUnique
    <2>3. ScansExist
      BY SMTT(30) DEF Init, ScansExist
    <2>4. WorkersOwned
      BY DEF Init, WorkersOwned, Children
    <2> QED
      BY <2>1, <2>2, <2>3, <2>4 DEF KeptInv, DaemonSurvives, Init
  <1>2. KeptInv /\ [Next]_vars => KeptInv'
    <2> SUFFICES ASSUME KeptInv, [Next]_vars PROVE KeptInv'
      OBVIOUS
    <2>1. Inv' /\ DirtySeen'
      <3>1. Inv'
        BY InvStep DEF KeptInv
      <3> QED
        BY <3>1, InvSeen
    <2>2. CASE Next
      <3>1. rmpc' = rmpc /\ inotify' \in Seq(KeptEvent)
        BY <2>2, KnownStep
      <3>2. ScansExist'
        BY <2>2, <3>1, FoundStep DEF ScansExist, KeptInv, KeptEvent
      <3>3. DaemonSurvives'
        BY <2>2, KeptCases, WorkerFrame DEF DaemonSurvives, KeptInv, Daemon, Start, FirstScan,
           BeginScan, ScanDone, LinkWatch, FirstPause, ScanEntry, AddQueueDir,
           EpollWait, Dispatched, Dispatch, ReapWorkers, ReadTimer, ReadModify,
           ReadCreate, ReadPause, InotifyDrained, ReadPipe, PipeDrained,
           BeginUpdate, MoveTimerEvent, EndUpdate, ReadTimerDir, EnsureQueueDir,
           Spawn, TakeDirty, SpawnFails, Spawned, Goto, Tick, MkDir, Publish,
           PublishTimer, DoneEvent, PauseQueue, daemonVars
      <3> QED
        BY <2>1, <2>2, <3>2, <3>3, UniqueStep, OwnedStep DEF KeptInv
    <2>3. CASE UNCHANGED vars
      BY <2>1, <2>3 DEF vars, KeptInv, WatchesUnique, ScansExist, WorkersOwned,
         DaemonSurvives, Existing, Children, fsVars, dirVars, clientVars,
         kernelVars, attachVars, daemonVars, watchVars, dirtyVars, localVars,
         updateVars, workerVars
    <2> QED
      BY <2>2, <2>3
  <1> QED
    BY <1>1, <1>2, PTL DEF Spec

\* While no queue is removed and nobody stops it, the daemon never reaches
\* one of the rd_fatal calls of its scans and of its main loop.
THEOREM NeverFatal ==
    ASSUME NoRemoval
    PROVE  Spec => []DaemonSurvives
  <1>1. KeptInv => DaemonSurvives
    BY DEF KeptInv
  <1> QED
    BY <1>1, KeptInvariance, PTL

\* While no queue is removed and nobody stops the daemon, two handlers never
\* run for the same queue.
THEOREM SingleHandler ==
    ASSUME NoRemoval
    PROVE  Spec => []OneHandlerPerQueue
  <1>1. KeptInv => OneHandlerPerQueue
    <2> SUFFICES ASSUME KeptInv, NEW q \in Queue
                 PROVE  Cardinality(Handling(q)) <= 1
      BY DEF OneHandlerPerQueue
    <2>1. Handling(q) \subseteq Children /\ \A p \in Handling(q) : wq[p] = q
      BY DEF Handling, Children, KeptInv, WorkersOwned
    <2>2. \A p, r \in Handling(q) : p = r
      BY <2>1, OneWorkerPerQueue
    <2>3. CASE Handling(q) = {}
      BY <2>3, FS_EmptySet, SMTT(30)
    <2>4. CASE Handling(q) # {}
      <3>1. PICK p \in Handling(q) : TRUE
        BY <2>4
      <3>2. Handling(q) = {p}
        BY <2>2, <3>1
      <3> QED
        BY <3>2, FS_Singleton, SMTT(30)
    <2> QED
      BY <2>3, <2>4
  <1> QED
    BY <1>1, KeptInvariance, PTL

----------------------------------------------------------------------------
(* Events and timers *)

\* Unless an event is withdrawn, a fork fails, a notification is lost or somebody
\* else makes or removes a queue's directories, no interleaving of filters, pauses,
\* the daemon, its workers and its handlers loses a wakeup: when everybody sleeps,
\* an event that waits has its queue marked dirty.
THEOREM WakeupsKept ==
    ASSUME Undisturbed
    PROVE  Spec => []NoLostWakeup
  <1>1. NoRemoval
    BY UndisturbedEnv
  <1> QED
    BY <1>1, WakeInitial, WakeStep, WakeEnough, KeptInvariance, PTL DEF Spec

\* While no queue is removed and no notification is lost, whoever withdraws
\* events, makes directories or lets forks fail: when the daemon sleeps, the timerfd
\* is set for every delayed event, or a notification that makes the daemon call
\* update_timerfd is queued.
THEOREM TimerKept ==
    ASSUME NoRemoval, NoOverflow
    PROVE  Spec => []TimerArmed
  BY ClockInitial, ClockStep, ClockEnough, KeptInvariance, PTL DEF Spec

----------------------------------------------------------------------------
(* The promise *)

----------------------------------------------------------------------------
(* Batches and handlers *)

\* No client withdraws an event.
NoWithdrawal == "done" \notin Env

\* move_files moves events of the worker's own queue.
TodoOwned ==
    \A p \in Pid : wpc[p] = "move" => \A e \in wtodo[p] : QueueOf[e] = wq[p]

\* The events a worker has still to move are the ones it found in its queue.
LEMMA TodoStep ==
    ASSUME TypeOK, TodoOwned, Next
    PROVE  TodoOwned'
  <1>1. wpc \in [Pid -> WorkerPc] /\ wtodo \in [Pid -> SUBSET Event] /\ wq \in [Pid -> Queue]
    BY DEF TypeOK, WorkerType
  <1>2. CASE UNCHANGED workerVars
    BY <1>2 DEF workerVars, jobVars, TodoOwned
  <1>3. CASE Client \/ Tick
    BY <1>2, <1>3 DEF Client, MkDir, Publish, PublishTimer, DoneEvent, PauseQueue,
                      RemoveQueue, RemoveDir, Tick
  <1>4. ASSUME NEW p \in Pid, Worker(p) \/ Handler(p)
        PROVE  TodoOwned'
    <2>1. wq' = wq
      BY <1>4, WorkerFrame
    <2>2. CASE WorkerOpen(p) \/ WorkerMkdir(p)
      <3>1. CASE WorkerOpen(p)
        BY <1>1, <2>1, <3>1, SMTT(30) DEF WorkerOpen, WorkerExit, Entries, Files, TodoOwned
      <3>2. CASE WorkerMkdir(p)
        BY <1>1, <2>1, <3>2, SMTT(30) DEF WorkerMkdir, WorkerExit, Entries, Files, TodoOwned
      <3> QED
        BY <2>2, <3>1, <3>2
    <2>3. CASE \E e \in Event : WorkerMove(p, e)
      BY <1>1, <2>1, <2>3, SMTT(30) DEF WorkerMove, WorkerExit, TodoOwned
    <2>4. CASE WorkerCheck(p) \/ WorkerRecheck(p) \/ WorkerSignal(p) \/ WorkerQuit(p)
                 \/ HandlerFails(p)
      BY <1>1, <2>1, <2>4 DEF WorkerCheck, WorkerRecheck, WorkerSignal, WorkerQuit,
                              HandlerFails, WorkerExit, jobVars, TodoOwned
    <2>5. CASE Handler(p)
      BY <1>1, <2>1, <2>5 DEF Handler, HandlerExit, HandlerDone, workerVars, jobVars, TodoOwned
    <2> QED
      BY <1>4, <2>2, <2>3, <2>4, <2>5 DEF Worker
  <1>5. ASSUME Die
        PROVE  TodoOwned'
    BY <1>5 DEF Die, TodoOwned
  <1>6. CASE ReapWorkers
    BY <1>1, <1>6 DEF ReapWorkers, jobVars, TodoOwned
  <1>7. ASSUME NEW w \in Wd, NEW p \in Pid, Spawn(w, p)
        PROVE  TodoOwned'
    BY <1>1, <1>7 DEF Spawn, jobVars, TodoOwned
  <1>8. CASE Stop \/ Fatal
    BY <1>5, <1>8 DEF Stop, Fatal
  <1>9. ASSUME Daemon \/ Restart, ~Fatal, ~ReapWorkers, \A w \in Wd, p \in Pid : ~Spawn(w, p)
        PROVE  TodoOwned'
    <2>1. UNCHANGED workerVars
      BY <1>9 DEF Daemon, Restart, Start, FirstScan, ScanDone, LinkWatch, FirstPause,
                  ScanEntry, EpollWait, Dispatched, Dispatch, ReadTimer, ReadModify,
                  ReadDeleteSelf, ReadCreate, ReadPause, InotifyDrained, ReadPipe,
                  PipeDrained, BeginUpdate, MoveTimerEvent, EndUpdate, ReadTimerDir,
                  EnsureQueueDir, SpawnFails, Spawned, Goto
    <2> QED
      BY <1>2, <2>1
  <1> QED
    BY <1>3, <1>4, <1>6, <1>7, <1>8, <1>9 DEF Next

\* A step that shows nothing to filters and handlers.
Unseen ==
    /\ \A e \in Event : Stage(loc'[e]) = Stage(loc[e])
    /\ \A q \in Queue : Handling(q)' = Handling(q)

\* Such a step is a stuttering step of UeventQueue.
LEMMA UnseenStutters ==
    ASSUME Unseen
    PROVE  UNCHANGED Promise!qvars
  BY DEF Unseen, Promise!qvars

\* The file of one event changes directory and no handler comes or goes.
LEMMA EventMoves ==
    ASSUME TypeOK, NEW e \in Event, NEW l \in Loc, loc' = [loc EXCEPT ![e] = l],
           UNCHANGED <<wpc, wq>>
    PROVE  /\ [x \in Event |-> Stage(loc'[x])]
                = [[x \in Event |-> Stage(loc[x])] EXCEPT ![e] = Stage(l)]
           /\ {q \in Queue : Handling(q)' # {}} = {q \in Queue : Handling(q) # {}}
  <1>1. loc \in [Event -> Loc]
    BY DEF TypeOK, FsType
  <1>2. \A x \in Event : loc'[x] = IF x = e THEN l ELSE loc[x]
    BY <1>1
  <1>3. [x \in Event |-> Stage(loc'[x])]
          = [[x \in Event |-> Stage(loc[x])] EXCEPT ![e] = Stage(l)]
    <2>1. \A x \in Event : Stage(loc'[x]) = IF x = e THEN Stage(l) ELSE Stage(loc[x])
      <3> SUFFICES ASSUME NEW x \in Event
                   PROVE  Stage(loc'[x]) = IF x = e THEN Stage(l) ELSE Stage(loc[x])
        OBVIOUS
      <3>1. CASE x = e
        <4>1. loc'[x] = l
          BY <1>2, <3>1
        <4> QED
          BY <3>1, <4>1, SMTT(30)
      <3>2. CASE x # e
        <4>1. loc'[x] = loc[x]
          BY <1>2, <3>2
        <4> QED
          BY <3>2, <4>1, SMTT(30)
      <3> QED
        BY <3>1, <3>2
    <2> QED
      BY <2>1
  <1>4. \A q \in Queue : Handling(q)' = Handling(q)
    BY DEF Handling
  <1> QED
    BY <1>3, <1>4

\* Publishing an event, at once or when its time has come.
LEMMA ArriveStep ==
    ASSUME TypeOK, NEW e \in Event, loc[e] \in {"none", "timer"},
           loc' = [loc EXCEPT ![e] = "ready"], UNCHANGED <<wpc, wq>>
    PROVE  Promise!QNext
  <1>1. Promise!Arrive(e)
    BY EventMoves DEF Promise!Arrive, Stage, Loc
  <1> QED
    BY <1>1 DEF Promise!QNext

\* The clients' steps: only Publish is seen.
LEMMA ClientPromise ==
    ASSUME NoRemoval, NoWithdrawal, KeptInv, Client
    PROVE  Promise!QNext \/ UNCHANGED Promise!qvars
  <1>1. TypeOK
    BY DEF KeptInv, Inv
  <1>2. CASE UNCHANGED <<loc, workerVars>>
    BY <1>2, UnseenStutters DEF Unseen, Handling, workerVars
  <1>3. ASSUME NEW e \in Event, Publish(e)
        PROVE  Promise!QNext
    BY <1>1, <1>3, ArriveStep DEF Publish, workerVars
  <1>4. ASSUME NEW e \in Event, NEW d \in Dues, PublishTimer(e, d)
        PROVE  UNCHANGED Promise!qvars
    <2>1. loc' = [loc EXCEPT ![e] = "timer"] /\ loc[e] = "none" /\ loc \in [Event -> Loc]
      BY <1>1, <1>4 DEF PublishTimer, TypeOK, FsType
    <2>2. \A x \in Event : Stage(loc'[x]) = Stage(loc[x])
      BY <2>1 DEF Stage
    <2>3. UNCHANGED workerVars
      BY <1>4 DEF PublishTimer
    <2> QED
      BY <2>2, <2>3, UnseenStutters DEF Unseen, Handling, workerVars
  <1>5. \A e \in Event : ~DoneEvent(e)
    BY DEF NoWithdrawal, DoneEvent
  <1>6. \A q \in Queue : ~RemoveQueue(q) /\ ~RemoveDir(q)
    BY NothingLost
  <1>7. CASE (\E k \in Kind, q \in Queue : MkDir(k, q))
               \/ (\E x \in Queue \cup {All} : PauseQueue(x))
    BY <1>2, <1>7 DEF MkDir, PauseQueue
  <1> QED
    BY <1>3, <1>4, <1>5, <1>6, <1>7 DEF Client

\* The daemon's steps: only a delayed event that it moves to its queue is seen.
LEMMA DaemonPromise ==
    ASSUME KeptInv, Daemon, ~Fatal, ~ReadDeleteSelf
    PROVE  Promise!QNext \/ UNCHANGED Promise!qvars
  <1>1. TypeOK /\ wpc \in [Pid -> WorkerPc] /\ wq \in [Pid -> Queue]
    BY DEF KeptInv, Inv, TypeOK, WorkerType
  <1>2. CASE UNCHANGED <<loc, workerVars>>
    BY <1>2, UnseenStutters DEF Unseen, Handling, workerVars
  <1>3. CASE MoveTimerEvent
    <2>1. cur \in Event
      BY <1>1, <1>3 DEF MoveTimerEvent, TypeOK, ControlType
    <2>2. CASE loc[cur] = "timer" /\ dir["queue"][QueueOf[cur]] # 0
      BY <1>1, <1>3, <2>1, <2>2, ArriveStep DEF MoveTimerEvent, workerVars
    <2>3. CASE ~(loc[cur] = "timer" /\ dir["queue"][QueueOf[cur]] # 0)
      BY <1>2, <1>3, <2>3 DEF MoveTimerEvent
    <2> QED
      BY <2>2, <2>3
  <1>4. CASE ReapWorkers
    <2>1. \A q \in Queue : Handling(q)' = Handling(q)
      BY <1>1, <1>4 DEF ReapWorkers, Handling
    <2> QED
      BY <1>4, <2>1, UnseenStutters DEF ReapWorkers, Unseen, fsVars
  <1>5. ASSUME NEW w \in Wd, NEW p \in Pid, Spawn(w, p)
        PROVE  UNCHANGED Promise!qvars
    <2>1. \A q \in Queue : Handling(q)' = Handling(q)
      BY <1>1, <1>5 DEF Spawn, Handling
    <2> QED
      BY <1>5, <2>1, UnseenStutters DEF Spawn, Unseen, fsVars
  <1>6. ASSUME ~MoveTimerEvent, ~ReapWorkers, \A w \in Wd, p \in Pid : ~Spawn(w, p)
        PROVE  UNCHANGED <<loc, workerVars>>
    BY <1>6 DEF Daemon, Start, FirstScan, ScanDone, LinkWatch, FirstPause,
                ScanEntry, EpollWait, Dispatched, Dispatch, ReadTimer, ReadModify,
                ReadCreate, ReadPause, InotifyDrained, ReadPipe, PipeDrained,
                BeginUpdate, EndUpdate, ReadTimerDir, EnsureQueueDir, SpawnFails,
                Spawned, Goto, fsVars
  <1> QED
    BY <1>2, <1>3, <1>4, <1>5, <1>6

\* A worker collects events of its own queue only, for which no handler runs
\* meanwhile.
LEMMA CollectStep ==
    ASSUME KeptInv, TodoOwned, NEW p \in Pid, NEW e \in Event, WorkerMove(p, e),
           loc[e] = "ready", dir["events"][wq[p]] = wdst[p]
    PROVE  Promise!QNext
  <1>1. /\ loc' = [loc EXCEPT ![e] = "events"] /\ UNCHANGED <<wpc, wq>>
        /\ wpc[p] = "move" /\ QueueOf[e] = wq[p] /\ TypeOK
    BY DEF WorkerMove, TodoOwned, KeptInv, Inv
  <1>2. Handling(QueueOf[e]) = {}
    <2> SUFFICES ASSUME NEW r \in Handling(QueueOf[e]) PROVE FALSE
      OBVIOUS
    <2>1. p \in Children /\ r \in Children /\ wq[r] = wq[p] /\ wpc[r] # "move"
      BY <1>1 DEF Handling, Children, KeptInv, WorkersOwned
    <2> QED
      BY <1>1, <2>1, OneWorkerPerQueue
  <1>3. Promise!Collect(e)
    BY <1>1, <1>2, EventMoves DEF Promise!Collect, Stage, Loc
  <1> QED
    BY <1>3 DEF Promise!QNext

\* A handler starts for a batch that is not empty, when no other one runs for
\* its queue.
LEMMA ServeStep ==
    ASSUME KeptInv, NEW p \in Pid, WorkerCheck(p), wpc' = [wpc EXCEPT ![p] = "handler"],
           NotEmpty("events", wq[p])
    PROVE  Promise!QNext
  <1> DEFINE q == wq[p]
  <1>1. /\ wpc \in [Pid -> WorkerPc] /\ wq \in [Pid -> Queue] /\ q \in Queue
        /\ wpc[p] = "move" /\ UNCHANGED <<loc, wq>>
    BY DEF WorkerCheck, KeptInv, Inv, TypeOK, WorkerType, fsVars
  <1>2. Handling(q) = {}
    <2> SUFFICES ASSUME NEW r \in Handling(q) PROVE FALSE
      OBVIOUS
    <2>1. p \in Children /\ r \in Children /\ wq[r] = wq[p] /\ wpc[r] # "move"
      BY <1>1 DEF Handling, Children, KeptInv, WorkersOwned
    <2> QED
      BY <1>1, <2>1, OneWorkerPerQueue
  <1>3. /\ p \in Handling(q)'
        /\ \A x \in Queue : x # q => Handling(x)' = Handling(x)
    BY <1>1 DEF Handling
  <1> DEFINE was == {x \in Queue : Handling(x) # {}}
             is == {x \in Queue : Handling(x)' # {}}
  <1>4. q \notin was /\ is = was \cup {q}
    BY <1>1, <1>2, <1>3
  <1>5. PICK e \in Event : loc[e] = "events" /\ QueueOf[e] = q
    BY DEF NotEmpty, Files
  <1>6. e \in Promise!Batch(q)
    BY <1>5 DEF Promise!Batch, Stage
  <1>7. Promise!Serve(q)
    BY <1>1, <1>4, <1>6 DEF Promise!Serve
  <1> QED
    BY <1>1, <1>7 DEF Promise!QNext

\* A handler ends, and its queue is served no more.
LEMMA LeaveStep ==
    ASSUME KeptInv, NEW p \in Pid, HandlerExit(p)
    PROVE  Promise!QNext
  <1> DEFINE q == wq[p]
  <1>1. /\ wpc \in [Pid -> WorkerPc] /\ wq \in [Pid -> Queue] /\ q \in Queue
        /\ wpc[p] = "handler" /\ UNCHANGED <<loc, wq>>
        /\ wpc' = [wpc EXCEPT ![p] = "recheck"]
    BY DEF HandlerExit, KeptInv, Inv, TypeOK, WorkerType, WorkersOwned, fsVars
  <1>2. p \in Handling(q) /\ Handling(q)' = {}
    <2>1. p \in Handling(q)
      BY <1>1 DEF Handling
    <2>2. ASSUME NEW r \in Pid, wpc[r] \in {"handler", "orphan"}, wq[r] = q
          PROVE  r = p
      <3>1. p \in Children /\ r \in Children
        BY <1>1, <2>2 DEF Children, KeptInv, WorkersOwned
      <3> QED
        BY <2>2, <3>1, OneWorkerPerQueue
    <2> QED
      BY <1>1, <2>1, <2>2 DEF Handling
  <1>3. \A x \in Queue : x # q => Handling(x)' = Handling(x)
    BY <1>1 DEF Handling
  <1> DEFINE was == {x \in Queue : Handling(x) # {}}
             is == {x \in Queue : Handling(x)' # {}}
  <1>4. q \in was /\ is = was \ {q}
    BY <1>1, <1>2, <1>3
  <1>5. Promise!Leave(q)
    BY <1>1, <1>4 DEF Promise!Leave
  <1> QED
    BY <1>1, <1>5 DEF Promise!QNext

\* A handler finishes an event of its batch.
LEMMA FinishStep ==
    ASSUME KeptInv, NEW p \in Pid, NEW e \in Event, HandlerDone(p, e)
    PROVE  Promise!QNext
  <1>1. /\ loc' = [loc EXCEPT ![e] = "done"] /\ loc[e] = "events" /\ UNCHANGED <<wpc, wq>>
        /\ QueueOf[e] = wq[p] /\ QueueOf[e] \in Queue /\ TypeOK
    BY DEF HandlerDone, workerVars, KeptInv, Inv
  <1>2. p \in Handling(QueueOf[e])
    BY <1>1 DEF HandlerDone, Handling
  <1>3. Promise!Finish(e)
    BY <1>1, <1>2, EventMoves DEF Promise!Finish, Stage, Loc
  <1> QED
    BY <1>3 DEF Promise!QNext

\* The steps of a worker and its handler.
LEMMA WorkerPromise ==
    ASSUME KeptInv, TodoOwned, NEW p \in Pid, Worker(p) \/ Handler(p)
    PROVE  Promise!QNext \/ UNCHANGED Promise!qvars
  <1>1. /\ wpc \in [Pid -> WorkerPc] /\ wq \in [Pid -> Queue] /\ wq' = wq
        /\ \A x \in Pid : wpc[x] # "orphan"
    BY WorkerFrame DEF KeptInv, Inv, TypeOK, WorkerType, WorkersOwned
  <1>2. ASSUME loc' = loc, wpc[p] # "handler",
               NEW l \in WorkerPc \ {"handler", "orphan"}, wpc' = [wpc EXCEPT ![p] = l]
        PROVE  UNCHANGED Promise!qvars
    <2>1. \A q \in Queue : Handling(q)' = Handling(q)
      BY <1>1, <1>2 DEF Handling
    <2> QED
      BY <1>2, <2>1, UnseenStutters DEF Unseen
  <1>3. CASE WorkerOpen(p) \/ WorkerMkdir(p) \/ WorkerRecheck(p) \/ WorkerSignal(p)
               \/ WorkerQuit(p) \/ HandlerFails(p)
    BY <1>2, <1>3 DEF WorkerOpen, WorkerMkdir, WorkerRecheck, WorkerSignal, WorkerQuit,
                      HandlerFails, WorkerExit, WorkerPc, fsVars
  <1>4. CASE WorkerCheck(p)
    <2>1. CASE dir["events"][wq[p]] = 0 \/ ~NotEmpty("events", wq[p])
      BY <1>2, <1>4, <2>1 DEF WorkerCheck, WorkerExit, WorkerPc, fsVars
    <2>2. CASE ~(dir["events"][wq[p]] = 0 \/ ~NotEmpty("events", wq[p]))
      BY <1>4, <2>2, ServeStep DEF WorkerCheck
    <2> QED
      BY <2>1, <2>2
  <1>5. ASSUME NEW e \in Event, WorkerMove(p, e)
        PROVE  Promise!QNext \/ UNCHANGED Promise!qvars
    <2>1. CASE loc[e] = "ready" /\ dir["events"][wq[p]] = wdst[p]
      BY <1>5, <2>1, CollectStep
    <2>2. CASE ~(loc[e] = "ready" /\ dir["events"][wq[p]] = wdst[p])
      BY <1>2, <1>5, <2>2 DEF WorkerMove, WorkerExit, WorkerPc
    <2> QED
      BY <2>1, <2>2
  <1>6. CASE Handler(p)
    BY <1>6, LeaveStep, FinishStep DEF Handler
  <1> QED
    BY <1>3, <1>4, <1>5, <1>6 DEF Worker

\* Initially.
LEMMA PromiseInitial == Init => Promise!QInit /\ TodoOwned
  BY SMTT(30) DEF Init, Promise!QInit, Stage, Handling, TodoOwned

\* Every step is a step of UeventQueue, or none that filters and handlers see.
LEMMA PromiseStep ==
    ASSUME NoRemoval, NoWithdrawal
    PROVE  KeptInv /\ TodoOwned /\ [Next]_vars => [Promise!QNext]_(Promise!qvars)
  <1> SUFFICES ASSUME KeptInv, TodoOwned, [Next]_vars
               PROVE  Promise!QNext \/ UNCHANGED Promise!qvars
    OBVIOUS
  <1>1. CASE UNCHANGED <<loc, workerVars>>
    BY <1>1, UnseenStutters DEF Unseen, Handling, workerVars
  <1>2. CASE UNCHANGED vars \/ Tick
    BY <1>1, <1>2 DEF vars, fsVars, Tick
  <1>3. CASE Next
    BY <1>2, <1>3, NothingLost, ClientPromise, DaemonPromise, WorkerPromise DEF Next
  <1> QED
    BY <1>2, <1>3

\* While no queue is removed, no event withdrawn and the daemon not stopped,
\* every step of the daemon, its workers and the clients is a step of UeventQueue
\* or none that filters and handlers see: batches are isolated from filters and
\* served one at a time, whatever the number of queues, events and workers.
THEOREM KeepsPromise ==
    ASSUME NoRemoval, NoWithdrawal
    PROVE  Spec => ImplementsQueue
  <1>1. KeptInv /\ TodoOwned /\ [Next]_vars => TodoOwned'
    BY TodoStep DEF KeptInv, Inv, vars, workerVars, jobVars, TodoOwned
  <1> QED
    BY <1>1, PromiseInitial, PromiseStep, KeptInvariance, PTL DEF Spec, ImplementsQueue, Promise!QSpec

============================================================================
