------------------------- MODULE UeventdWakeProofs --------------------------
(***************************************************************************)
(* What ueventd is told by notifications it acts on, as long as fs.inotify's *)
(* queue does not overflow: pauses are followed, and a directory that exists *)
(* is watched or about to be found.                                        *)
(***************************************************************************)
EXTENDS UeventdKeptProofs

USE ConstantsAssumption
\* Zenon with thirty seconds for a leaf, unless the leaf names another prover.
USE ZenonT(30)

----------------------------------------------------------------------------
(* The daemon's control *)

\* In watch_path for an entry of a root, and in update_timerfd.
Scanning == pc = "scan" \/ (pc = "link" /\ cur = NoEvent)
InUpdate == pc \in {"update", "move"} \/ (pc = "link" /\ cur # NoEvent)

\* The local variables of a function are in use only while it runs; main()
\* enters its loop once it has scanned the roots, and sleeps and starts workers
\* only when the timers are up to date.
ControlInv ==
    /\ booted => pc \notin {"dead", "start", "rootwatch", "applypause"}
    /\ pc \in {"wait", "dispatch", "inotify", "pipe", "spawn"} => booted
    /\ cur # NoEvent => pc \in {"link", "move"}
    /\ scan # {} => Scanning
    /\ (tscan # {} \/ duetodo # {}) => InUpdate
    /\ pc \in {"wait", "spawn"} => ~timer_changed
    /\ booted /\ skind = "timer" /\ scan # {} => timer_changed

\* Every step keeps ControlInv.
LEMMA ControlStep ==
    ASSUME TypeOK, ControlInv, Next
    PROVE  ControlInv'
  <1> USE DEF ControlInv, Scanning, InUpdate
  <1>1. /\ pc \in DaemonPc /\ cur \in Event \cup {NoEvent} /\ booted \in BOOLEAN
        /\ timer_changed \in BOOLEAN /\ pc = "move" => cur # NoEvent
    BY DEF TypeOK, ControlType, WatchType
  <1>2. CASE UNCHANGED <<pc, localVars, timer_changed>>
    BY <1>2 DEF localVars, updateVars
  <1>3. CASE Client \/ Tick
    BY <1>2, <1>3 DEF Client, MkDir, Publish, PublishTimer, DoneEvent, PauseQueue, RemoveQueue,
                      RemoveDir, Tick, daemonVars, watchVars
  <1>4. ASSUME NEW p \in Pid, Worker(p) \/ Handler(p)
        PROVE  ControlInv'
    BY <1>2, <1>4, WorkerFrame DEF daemonVars, watchVars
  <1>5. CASE Stop \/ Fatal
    BY <1>5 DEF Stop, Fatal, Die
  <1>6. CASE Start \/ Restart \/ Dispatched \/ InotifyDrained \/ PipeDrained
    BY <1>6, SMTT(30) DEF Start, Restart, Dispatched, InotifyDrained, PipeDrained, Goto, localVars,
                updateVars, watchVars
  <1>7. CASE Spawned \/ FirstPause
    BY <1>7, SMTT(30) DEF Spawned, FirstPause, Goto, localVars, updateVars, watchVars
  <1>8. CASE FirstScan \/ ReadCreate
    BY <1>8 DEF FirstScan, ReadCreate, BeginScan, updateVars, watchVars
  <1>9. CASE ScanDone
    BY <1>9 DEF ScanDone, BeginScan, localVars, updateVars, watchVars
  <1>10. CASE \E q \in Queue : ScanEntry(q)
    BY <1>10, SMTT(30) DEF ScanEntry, AddQueueDir, updateVars, watchVars
  <1>11. CASE LinkWatch
    BY <1>1, <1>11 DEF LinkWatch, updateVars
  <1>12. CASE EpollWait \/ \E f \in Fd : Dispatch(f)
    BY <1>12 DEF EpollWait, Dispatch, updateVars, watchVars
  <1>13. CASE ReapWorkers \/ ReadTimer
    BY <1>13 DEF ReapWorkers, ReadTimer, updateVars
  <1>14. CASE ReadModify \/ ReadDeleteSelf
    BY <1>14 DEF ReadModify, ReadDeleteSelf, UnwatchPath, localVars, updateVars
  <1>15. CASE ReadPause \/ \E w \in Wd : ReadPipe(w)
    BY <1>2, <1>15 DEF ReadPause, ReadPipe
  <1>16. CASE BeginUpdate
    BY <1>16 DEF BeginUpdate, watchVars
  <1>17. CASE \E q \in Queue : ReadTimerDir(q)
    BY <1>17 DEF ReadTimerDir, watchVars
  <1>18. ASSUME NEW e \in Event, EnsureQueueDir(e)
         PROVE  ControlInv'
    BY <1>18 DEF EnsureQueueDir, AddQueueDir, watchVars
  <1>19. CASE MoveTimerEvent
    BY <1>1, <1>19 DEF MoveTimerEvent
  <1>20. CASE EndUpdate
    BY <1>1, <1>20 DEF EndUpdate
  <1>21. CASE (\E w \in Wd, p \in Pid : Spawn(w, p)) \/ (\E w \in Wd : SpawnFails(w))
    BY <1>2, <1>21 DEF Spawn, SpawnFails
  <1> QED
    BY <1>3, <1>4, <1>5, <1>6, <1>7, <1>8, <1>9, <1>10, <1>11, <1>12, <1>13, <1>14, <1>15,
       <1>16, <1>17, <1>18, <1>19, <1>20, <1>21 DEF Next, Daemon

----------------------------------------------------------------------------
(* Notifications *)

\* fs.inotify.max_queued_events is never reached.
NoOverflow == "overflow" \notin Env

Queued(s) == {s[i] : i \in DOMAIN s}
Noted(mask) == \E ev \in Queued(inotify) : ev.mask = mask

\* Without an overflow the kernel loses nothing: an equal last notification is
\* the notification.
LEMMA NotifyQueues ==
    ASSUME NoOverflow, NEW s \in Seq(InotifyEvent), NEW ev \in InotifyEvent
    PROVE  Queued(Notify(s, ev)) = Queued(s) \cup {ev}
  <1>1. CASE s # <<>> /\ s[Len(s)] = ev
    <2>1. Len(s) \in DOMAIN s
      BY <1>1, SMTT(30)
    <2> QED
      BY <1>1, <2>1 DEF Notify, Queued
  <1>2. CASE ~(s # <<>> /\ s[Len(s)] = ev)
    <2>1. Notify(s, ev) = Append(s, ev)
      BY <1>2 DEF Notify, NoOverflow
    <2>2. /\ DOMAIN Append(s, ev) = DOMAIN s \cup {Len(s) + 1}
          /\ \A i \in DOMAIN s : Append(s, ev)[i] = s[i]
          /\ Append(s, ev)[Len(s) + 1] = ev
      BY SMTT(30)
    <2> QED
      BY <2>1, <2>2 DEF Queued
  <1> QED
    BY <1>1, <1>2

\* Reading takes one notification.
LEMMA TailQueues ==
    ASSUME NEW s \in Seq(InotifyEvent), s # <<>>
    PROVE  Queued(s) = Queued(Tail(s)) \cup {Head(s)}
  <1> DEFINE t == Tail(s)
  <1>1. Head(s) = s[1] /\ 1 \in DOMAIN s
    BY SMTT(30)
  <1>2. /\ DOMAIN s = 1 .. Len(s) /\ Len(s) \in Nat
        /\ DOMAIN t = 1 .. Len(s) - 1 /\ \A i \in 1 .. Len(s) - 1 : t[i] = s[i + 1]
    BY SMTT(30)
  <1> HIDE DEF t
  <1>3. \A i \in DOMAIN t : i + 1 \in DOMAIN s /\ t[i] = s[i + 1]
    BY <1>2, SMTT(30)
  <1>4. ASSUME NEW i \in DOMAIN s, i # 1
        PROVE  i - 1 \in DOMAIN t /\ t[i - 1] = s[i]
    <2>1. i - 1 \in 1 .. Len(s) - 1 /\ (i - 1) + 1 = i
      BY <1>2, <1>4, SMTT(30)
    <2> QED
      BY <1>2, <2>1
  <1>5. Queued(s) \subseteq Queued(t) \cup {s[1]}
    <2> SUFFICES ASSUME NEW i \in DOMAIN s, i # 1 PROVE s[i] \in Queued(t)
      BY DEF Queued
    <2> QED
      BY <1>4 DEF Queued
  <1>6. Queued(t) \subseteq Queued(s) /\ s[1] \in Queued(s)
    BY <1>1, <1>3, SMTT(30) DEF Queued
  <1> QED
    BY <1>1, <1>5, <1>6 DEF t

\* A notification of the roots or of the pause directory reaches the daemon once
\* main() has added their watches.
LEMMA RootQueues ==
    ASSUME NoOverflow, TypeOK, NEW m \in {"create_queue", "create_timer", "pause"}
    PROVE  Queued(NotifyRoot(inotify, m))
             = IF RootWatched THEN Queued(inotify) \cup {Ev(m, 0)} ELSE Queued(inotify)
  <1>1. Ev(m, 0) \in InotifyEvent
    BY DEF Ev, InotifyEvent
  <1> QED
    BY <1>1, NotifyQueues DEF NotifyRoot, TypeOK, KernelType

\* A notification of a queue's directory reaches the daemon if it watches it.
LEMMA DirQueues ==
    ASSUME NoOverflow, TypeOK, NEW k, NEW q, NEW m \in {"modify", "delete_self"}
    PROVE  \/ WatchOf(k, q) = {} /\ NotifyDir(inotify, k, q, m) = inotify
           \/ \E w \in WatchOf(k, q) :
                Queued(NotifyDir(inotify, k, q, m)) = Queued(inotify) \cup {Ev(m, w)}
  <1>1. CASE WatchOf(k, q) = {}
    BY <1>1 DEF NotifyDir
  <1>2. CASE WatchOf(k, q) # {}
    <2> DEFINE w == CHOOSE v \in WatchOf(k, q) : TRUE
    <2>1. w \in WatchOf(k, q) /\ w \in Wd
      BY <1>2, SMTT(30) DEF WatchOf, TypeOK, KernelType, Wd
    <2>2. Ev(m, w) \in InotifyEvent
      BY <2>1 DEF Ev, InotifyEvent
    <2> QED
      BY <1>2, <2>1, <2>2, NotifyQueues DEF NotifyDir, TypeOK, KernelType
  <1> QED
    BY <1>1, <1>2

\* Nothing is lost but by reading it, or with the daemon.
LEMMA NotesKept ==
    ASSUME NoOverflow, TypeOK, Next, ~Stop, ~Fatal
    PROVE  \/ Queued(inotify) \subseteq Queued(inotify')
           \/ /\ pc = "inotify" /\ inotify # <<>> /\ inotify' = Tail(inotify)
              /\ Queued(inotify) = Queued(inotify') \cup {Head(inotify)}
              /\ ReadModify \/ ReadDeleteSelf \/ ReadCreate \/ ReadPause
  <1> DEFINE Goal == Queued(inotify) \subseteq Queued(inotify')
  <1>1. CASE UNCHANGED inotify
    BY <1>1
  <1>2. CASE ReadModify \/ ReadDeleteSelf \/ ReadCreate \/ ReadPause
    <2>1. pc = "inotify" /\ inotify # <<>> /\ inotify' = Tail(inotify)
      BY <1>2 DEF ReadModify, ReadDeleteSelf, ReadCreate, ReadPause
    <2> QED
      BY <1>2, <2>1, TailQueues DEF TypeOK, KernelType
  <1>3. ASSUME NEW m \in {"create_queue", "create_timer", "pause"},
               inotify' \in {inotify, NotifyRoot(inotify, m)}
        PROVE  Goal
    BY <1>3, RootQueues
  <1>4. ASSUME NEW k, NEW q, NEW m \in {"modify", "delete_self"},
               inotify' \in {inotify, NotifyDir(inotify, k, q, m)}
        PROVE  Goal
    BY <1>4, DirQueues, SMTT(30)
  <1>5. CASE (\E k \in Kind, q \in Queue : MkDir(k, q)) \/ (\E q \in Queue : RemoveQueue(q))
               \/ (\E x \in Queue \cup {All} : PauseQueue(x))
               \/ (\E e \in Event : EnsureQueueDir(e))
    BY <1>3, <1>5 DEF MkDir, RemoveQueue, PauseQueue, EnsureQueueDir, Kind
  <1>6. CASE (\E e \in Event : Publish(e)) \/ (\E e \in Event, d \in Dues : PublishTimer(e, d))
               \/ (\E q \in Queue : RemoveDir(q)) \/ MoveTimerEvent
    BY <1>4, <1>6 DEF Publish, PublishTimer, RemoveDir, MoveTimerEvent
  <1>7. CASE Tick \/ Restart \/ \E e \in Event : DoneEvent(e)
    BY <1>1, <1>7 DEF Tick, Restart, DoneEvent, Goto, kernelVars
  <1>8. ASSUME NEW p \in Pid, Worker(p) \/ Handler(p)
        PROVE  Goal
    BY <1>1, <1>8, WorkerFrame
  <1>9. ASSUME Daemon, ~ReadModify, ~ReadDeleteSelf, ~ReadCreate, ~ReadPause,
               \A e \in Event : ~EnsureQueueDir(e), ~MoveTimerEvent
        PROVE  UNCHANGED inotify
    BY <1>9 DEF Daemon, Start, FirstScan, ScanDone, LinkWatch, FirstPause, ScanEntry,
                EpollWait, Dispatched, Dispatch, ReapWorkers, ReadTimer, InotifyDrained,
                ReadPipe, PipeDrained, BeginUpdate, EndUpdate, ReadTimerDir, Spawn,
                SpawnFails, Spawned, Goto, kernelVars
  <1> QED
    BY <1>1, <1>2, <1>5, <1>6, <1>7, <1>8, <1>9 DEF Next, Client

----------------------------------------------------------------------------
(* Pauses *)

\* main() has applied the pauses it found.
Applied == booted \/ pc = "timers" \/ InUpdate

\* F_PAUSED and pause_all agree with the pause directory, unless a notification
\* is on its way; until the pauses are applied for the first time nothing is
\* paused.
PauseInv ==
    /\ ~Applied => pause_all = FALSE /\ paused = {}
    /\ \/ Noted("pause")
       \/ /\ pause_all => All \in pause
          /\ \A w \in paused : wds[w].kind = "queue" => IsPaused(wds[w].queue)
          /\ Applied => /\ All \in pause => pause_all
                        /\ pause_all => \A w \in watch_list : wds[w].kind = "queue" => w \in paused

\* No step but the end of the daemon changes what a descriptor was added for.
LEMMA NodesStep ==
    ASSUME TypeOK, Next, ~Stop, ~Fatal
    PROVE  NodesKept
  <1>1. CASE UNCHANGED wds
    BY <1>1 DEF NodesKept
  <1>2. CASE \E q \in Queue : ScanEntry(q)
    BY <1>1, <1>2, NodesAppend DEF ScanEntry, attachVars, TypeOK
  <1>3. CASE \E e \in Event : EnsureQueueDir(e)
    BY <1>1, <1>3, NodesAppend DEF EnsureQueueDir, attachVars, TypeOK
  <1>4. CASE LinkWatch
    <2>1. pend \in DOMAIN wds /\ wds[pend] \in WatchNode
      BY <1>4, SMTT(30) DEF LinkWatch, TypeOK, ControlType, KernelType
    <2> QED
      BY <1>4, <2>1 DEF LinkWatch, NodesKept, WatchNode
  <1>5. CASE Client \/ Tick \/ Restart
    BY <1>1, <1>5 DEF Client, MkDir, Publish, PublishTimer, DoneEvent, PauseQueue, RemoveQueue,
                      RemoveDir, Tick, Restart, Goto, kernelVars, attachVars
  <1>6. ASSUME NEW p \in Pid, Worker(p) \/ Handler(p)
        PROVE  NodesKept
    BY <1>1, <1>6, WorkerFrame DEF attachVars
  <1>7. ASSUME Daemon, \A q \in Queue : ~ScanEntry(q), \A e \in Event : ~EnsureQueueDir(e),
               ~LinkWatch
        PROVE  UNCHANGED wds
    BY <1>7 DEF Daemon, Start, FirstScan, ScanDone, FirstPause, EpollWait, Dispatched,
                Dispatch, ReapWorkers, ReadTimer, ReadModify, ReadDeleteSelf, ReadCreate,
                ReadPause, InotifyDrained, ReadPipe, PipeDrained, BeginUpdate,
                MoveTimerEvent, EndUpdate, ReadTimerDir, Spawn, SpawnFails, Spawned, Goto,
                kernelVars, attachVars
  <1> QED
    BY <1>1, <1>2, <1>3, <1>4, <1>5, <1>6, <1>7 DEF Next

\* A step that changes neither the pauses nor their flags.
LEMMA PauseQuiet ==
    ASSUME TypeOK, PauseInv, NodesKept, Noted("pause") => Noted("pause")', Applied' <=> Applied,
           UNCHANGED <<pause, pause_all>>, paused' \subseteq paused,
           watch_list' \subseteq watch_list, watch_list' \cap paused \subseteq paused'
    PROVE  PauseInv'
  <1>1. watch_list \subseteq DOMAIN wds /\ paused \subseteq watch_list
    BY DEF TypeOK, WatchType
  <1>2. \A w \in watch_list : wds'[w].kind = wds[w].kind /\ wds'[w].queue = wds[w].queue
    BY <1>1 DEF NodesKept
  <1> QED
    BY <1>1, <1>2 DEF PauseInv, IsPaused

\* A client changes the pause directory: the daemon hears of it, or has not
\* looked at it yet.
LEMMA PauseChanged ==
    ASSUME NoOverflow, TypeOK, ControlInv, PauseInv, inotify' = NotifyRoot(inotify, "pause"),
           UNCHANGED <<daemonVars, wds>>
    PROVE  PauseInv'
  <1>1. UNCHANGED <<pc, booted, cur, paused, pause_all>> /\ Applied' = Applied
    BY DEF daemonVars, watchVars, pauseVars, localVars, updateVars, Applied, InUpdate
  <1>2. CASE RootWatched
    <2>1. Ev("pause", 0) \in Queued(inotify')
      BY <1>2, RootQueues
    <2>2. Noted("pause")'
      BY <2>1 DEF Noted, Ev
    <2> QED
      BY <1>1, <2>2 DEF PauseInv
  <1>3. CASE ~RootWatched
    <2>1. ~Applied
      BY <1>3 DEF RootWatched, Applied, InUpdate, ControlInv
    <2> QED
      BY <1>1, <2>1 DEF PauseInv
  <1> QED
    BY <1>2, <1>3

\* apply_pause() makes the flags agree with the directory.
LEMMA PauseApplied ==
    ASSUME TypeOK, ApplyPause, Applied', UNCHANGED <<pause, watch_list, wds>>
    PROVE  PauseInv'
  BY DEF ApplyPause, PauseInv, IsPaused

\* Every step keeps PauseInv.
LEMMA PauseStep ==
    ASSUME NoOverflow, TypeOK, ControlInv, PauseInv, Next
    PROVE  PauseInv'
  <1>1. CASE Stop \/ Fatal
    BY <1>1 DEF Stop, Fatal, Die, PauseInv, Applied, InUpdate
  <1>2. CASE ReadPause \/ FirstPause
    <2>1. Applied' /\ ApplyPause /\ UNCHANGED <<pause, watch_list, wds>>
      BY <1>2 DEF ReadPause, FirstPause, Applied, InUpdate, ControlInv, fsVars, clientVars,
                  kernelVars, attachVars, localVars
    <2> QED
      BY <2>1, PauseApplied
  <1> SUFFICES ASSUME ~Stop, ~Fatal, ~ReadPause, ~FirstPause PROVE PauseInv'
    BY <1>1, <1>2
  <1>3. NodesKept
    BY NodesStep
  <1>4. Noted("pause") => Noted("pause")'
    <2>1. CASE Queued(inotify) \subseteq Queued(inotify')
      BY <2>1 DEF Noted
    <2>2. CASE ReadModify \/ ReadDeleteSelf \/ ReadCreate
      <3>1. Head(inotify).mask # "pause"
        BY <2>2 DEF ReadModify, ReadDeleteSelf, ReadCreate
      <3>2. Queued(inotify) \subseteq Queued(inotify') \cup {Head(inotify)}
        BY NotesKept
      <3> QED
        BY <3>1, <3>2 DEF Noted
    <2> QED
      BY <2>1, <2>2, NotesKept
  <1>5. ASSUME Applied' <=> Applied, UNCHANGED <<pause, pauseVars, watch_list>>
        PROVE  PauseInv'
    BY <1>3, <1>4, <1>5, PauseQuiet DEF pauseVars
  <1>6. ASSUME UNCHANGED <<pause, daemonVars>>
        PROVE  PauseInv'
    BY <1>5, <1>6 DEF daemonVars, watchVars, localVars, updateVars, Applied, InUpdate
  <1>7. CASE \E x \in Queue \cup {All} : PauseQueue(x)
    BY <1>7, PauseChanged DEF PauseQueue, attachVars
  <1>8. ASSUME NEW q \in Queue, RemoveQueue(q)
        PROVE  PauseInv'
    <2>1. CASE q \in pause
      BY <1>8, <2>1, PauseChanged DEF RemoveQueue, attachVars
    <2>2. CASE q \notin pause
      BY <1>6, <1>8, <2>2 DEF RemoveQueue
    <2> QED
      BY <2>1, <2>2
  <1>9. CASE (\E k \in Kind, q \in Queue : MkDir(k, q)) \/ (\E q \in Queue : RemoveDir(q))
               \/ (\E e \in Event : Publish(e) \/ DoneEvent(e)) \/ Tick
               \/ (\E e \in Event, d \in Dues : PublishTimer(e, d))
    BY <1>6, <1>9 DEF MkDir, RemoveDir, Publish, DoneEvent, PublishTimer, Tick, clientVars
  <1>10. ASSUME NEW p \in Pid, Worker(p) \/ Handler(p)
         PROVE  PauseInv'
    BY <1>6, <1>10, WorkerFrame DEF clientVars
  <1>11. CASE LinkWatch
    <2>1. /\ pend \in DOMAIN wds /\ watch_list \subseteq DOMAIN wds /\ paused \subseteq watch_list
          /\ pause_all \in BOOLEAN
      BY <1>11 DEF LinkWatch, TypeOK, ControlType, WatchType
    <2>2. /\ watch_list' = watch_list \cup {pend} /\ UNCHANGED <<pause, pause_all, inotify>>
          /\ paused' = IF pause_all THEN paused \cup {pend} ELSE paused
      BY <1>11 DEF LinkWatch, PausedAtOnce, fsVars, clientVars
    <2>3. Applied' <=> Applied
      BY <1>11 DEF LinkWatch, Applied, InUpdate, updateVars
    <2>4. \A w \in DOMAIN wds : wds'[w].kind = wds[w].kind /\ wds'[w].queue = wds[w].queue
      BY <1>3 DEF NodesKept
    <2> QED
      BY <1>4, <2>1, <2>2, <2>3, <2>4 DEF PauseInv, IsPaused
  <1>12. CASE ReadDeleteSelf
    <2>1. /\ UNCHANGED <<pause, pause_all>> /\ paused' \subseteq paused
          /\ watch_list' \subseteq watch_list /\ watch_list' \cap paused \subseteq paused'
      BY <1>12 DEF ReadDeleteSelf, UnwatchPath, fsVars, clientVars
    <2>2. Applied' <=> Applied
      BY <1>12 DEF ReadDeleteSelf, Applied, InUpdate, localVars, updateVars
    <2> QED
      BY <1>3, <1>4, <2>1, <2>2, PauseQuiet
  <1>13. CASE Start \/ Restart \/ Dispatched \/ InotifyDrained \/ PipeDrained \/ Spawned
                \/ FirstScan \/ ScanDone \/ ReadCreate \/ EpollWait \/ (\E f \in Fd : Dispatch(f))
    <2>1. UNCHANGED <<pause, pauseVars, watch_list>>
      BY <1>13 DEF Start, Restart, Dispatched, InotifyDrained, PipeDrained, Spawned, FirstScan,
                   ScanDone, ReadCreate, EpollWait, Dispatch, Goto, fsVars, clientVars, watchVars
    <2>2. Applied' <=> Applied
      BY <1>13 DEF Start, Restart, Dispatched, InotifyDrained, PipeDrained, Spawned, FirstScan,
                   ScanDone, BeginScan, ReadCreate, EpollWait, Dispatch, Goto, localVars,
                   updateVars, Applied, InUpdate, ControlInv
    <2> QED
      BY <1>5, <2>1, <2>2
  <1>14. CASE (\E q \in Queue : ScanEntry(q) \/ ReadTimerDir(q)) \/ BeginUpdate \/ MoveTimerEvent
                \/ EndUpdate \/ (\E e \in Event : EnsureQueueDir(e))
    <2>1. UNCHANGED <<pause, pauseVars, watch_list>>
      BY <1>14 DEF ScanEntry, ReadTimerDir, BeginUpdate, MoveTimerEvent, EndUpdate,
                   EnsureQueueDir, fsVars, clientVars, watchVars
    <2>2. Applied' <=> Applied
      <3>1. ASSUME NEW q \in Queue, ScanEntry(q) \/ ReadTimerDir(q)
            PROVE  Applied' <=> Applied
        <4>1. UNCHANGED <<booted, cur>>
          BY <3>1 DEF ScanEntry, ReadTimerDir, updateVars
        <4>2. \/ pc = "scan" /\ cur = NoEvent /\ pc' \in {"scan", "link"}
              \/ pc = "update" /\ pc' = pc
          BY <3>1 DEF ScanEntry, ReadTimerDir, AddQueueDir, ControlInv
        <4> QED
          BY <4>1, <4>2 DEF Applied, InUpdate
      <3>2. CASE BeginUpdate \/ EndUpdate \/ MoveTimerEvent
        <4>1. pc \in {"timers", "update", "move"}
          BY <3>2 DEF BeginUpdate, EndUpdate, MoveTimerEvent
        <4>2. pc' = "update" \/ booted'
          BY <3>2, SMTT(30) DEF BeginUpdate, EndUpdate, MoveTimerEvent
        <4> QED
          BY <4>1, <4>2 DEF Applied, InUpdate
      <3>3. CASE \E e \in Event : EnsureQueueDir(e)
        BY <3>3 DEF EnsureQueueDir, AddQueueDir, Applied, InUpdate
      <3> QED
        BY <1>14, <3>1, <3>2, <3>3
    <2> QED
      BY <1>5, <2>1, <2>2
  <1>15. CASE ReapWorkers \/ ReadTimer \/ ReadModify \/ (\E w \in Wd : ReadPipe(w))
                \/ (\E w \in Wd, p \in Pid : Spawn(w, p)) \/ (\E w \in Wd : SpawnFails(w))
    BY <1>5, <1>15 DEF ReapWorkers, ReadTimer, ReadModify, ReadPipe, Spawn, SpawnFails, fsVars,
                       clientVars, localVars, updateVars, Applied, InUpdate
  <1> QED
    BY <1>7, <1>8, <1>9, <1>10, <1>11, <1>12, <1>13, <1>14, <1>15 DEF Next, Client, Daemon

\* Unless notifications are lost, as soon as the daemon has read what is queued
\* an element has F_PAUSED only if an entry of the pause directory asks for it, so
\* a pause that was lifted is never overlooked, and pause/.all holds back every
\* queue, those included that appear meanwhile and those found again by a
\* restarted daemon.  That the entry of a single queue pauses it is not claimed:
\* watch_path() does not look for one, see PauseHonoured.
THEOREM PausesKept ==
    ASSUME NoOverflow
    PROVE  Spec => []PausesFollowed
  <1>1. Init => ControlInv /\ PauseInv
    BY DEF Init, ControlInv, PauseInv, Applied, InUpdate, Scanning
  <1>2. TypeOK /\ ControlInv /\ PauseInv /\ [Next]_vars => ControlInv' /\ PauseInv'
    <2> SUFFICES ASSUME TypeOK, ControlInv, PauseInv, [Next]_vars PROVE ControlInv' /\ PauseInv'
      OBVIOUS
    <2>1. CASE UNCHANGED vars
      BY <2>1 DEF vars, fsVars, clientVars, kernelVars, attachVars, daemonVars, watchVars,
                  pauseVars, localVars, updateVars, ControlInv, PauseInv, Applied, InUpdate,
                  Scanning, Noted, Queued, IsPaused
    <2> QED
      BY <2>1, ControlStep, PauseStep
  <1>3. TypeOK /\ ControlInv /\ PauseInv => PausesFollowed
    <2> SUFFICES ASSUME ControlInv, PauseInv, pc = "wait", inotify = <<>>
                 PROVE  /\ \A w \in paused : wds[w].kind = "queue" => IsPaused(wds[w].queue)
                        /\ All \in pause => \A w \in watch_list : wds[w].kind = "queue" => w \in paused
      BY DEF PausesFollowed, NoStalePause, PauseAllHonoured
    <2>1. ~Noted("pause")
      BY SMTT(30) DEF Noted, Queued
    <2>2. Applied
      BY DEF Applied, ControlInv
    <2> QED
      BY <2>1, <2>2 DEF PauseInv
  <1> QED
    BY <1>1, <1>2, <1>3, TypeCorrect, PTL DEF Spec

----------------------------------------------------------------------------
(* Watches, while no queue is removed *)

\* The daemon watches directory k of queue q.
Watches(k, q) == {w \in DOMAIN wds : wds[w].kind = k /\ wds[w].queue = q}

\* Every descriptor belongs to an element of the list, but for the one that
\* watch_path is about to link.
Linked == \A w \in DOMAIN wds : w \in watch_list \/ (pc = "link" /\ w = pend)

\* The notification of a directory created in a root.
CreateMask(k) == IF k = "queue" THEN "create_queue" ELSE "create_timer"

\* An existing directory is watched, or a scan will find it.
Found(k) ==
    \A q \in Existing(k) :
        \/ Watches(k, q) # {}
        \/ pc \in {"start", "rootwatch"}
        \/ skind = k /\ q \in scan
        \/ k = "timer" /\ ~booted /\ skind = "queue" /\ Scanning
        \/ Noted(CreateMask(k))

\* A watch is added by the functions that go on to link it.
LEMMA WatchAdded ==
    ASSUME TypeOK, Next, ~Stop, ~Fatal
    PROVE  \A w \in DOMAIN wds' : w \in DOMAIN wds \/ (pc' = "link" /\ w = pend')
  <1>1. CASE DOMAIN wds' = DOMAIN wds
    BY <1>1
  <1>2. ASSUME NEW k, NEW q, NEW g, AddQueueDir(k, q, g)
        PROVE  \A w \in DOMAIN wds' : w \in DOMAIN wds \/ (pc' = "link" /\ w = pend')
    <2> DEFINE node == [kind |-> k, queue |-> q, gen |-> g, ino |-> g]
    <2>1. /\ wds \in Seq(WatchNode) /\ wds' = Append(wds, node)
          /\ pc' = "link" /\ pend' = Len(wds) + 1
      BY <1>2 DEF AddQueueDir, TypeOK, KernelType
    <2> HIDE DEF node
    <2>2. DOMAIN wds' = DOMAIN wds \cup {Len(wds) + 1}
      BY <2>1, SMTT(30)
    <2> QED
      BY <2>1, <2>2
  <1>3. CASE (\E q \in Queue : ScanEntry(q)) \/ (\E e \in Event : EnsureQueueDir(e))
    BY <1>1, <1>2, <1>3 DEF ScanEntry, EnsureQueueDir, attachVars
  <1>4. CASE LinkWatch
    BY <1>1, <1>4 DEF LinkWatch
  <1>5. CASE Client \/ Tick \/ Restart
    BY <1>1, <1>5 DEF Client, MkDir, Publish, PublishTimer, DoneEvent, PauseQueue, RemoveQueue,
                      RemoveDir, Tick, Restart, Goto, kernelVars, attachVars
  <1>6. ASSUME NEW p \in Pid, Worker(p) \/ Handler(p)
        PROVE  DOMAIN wds' = DOMAIN wds
    BY <1>6, WorkerFrame DEF attachVars
  <1>7. ASSUME Daemon, \A q \in Queue : ~ScanEntry(q), \A e \in Event : ~EnsureQueueDir(e),
               ~LinkWatch
        PROVE  UNCHANGED wds
    BY <1>7 DEF Daemon, Start, FirstScan, ScanDone, FirstPause, EpollWait, Dispatched,
                Dispatch, ReapWorkers, ReadTimer, ReadModify, ReadDeleteSelf, ReadCreate,
                ReadPause, InotifyDrained, ReadPipe, PipeDrained, BeginUpdate,
                MoveTimerEvent, EndUpdate, ReadTimerDir, Spawn, SpawnFails, Spawned, Goto,
                kernelVars, attachVars
  <1> QED
    BY <1>1, <1>3, <1>4, <1>5, <1>6, <1>7 DEF Next

\* While watch_path has a descriptor to link, the daemon does nothing else.
LEMMA LinkPending ==
    ASSUME Next, ~Stop, ~Fatal, pc = "link", ~LinkWatch
    PROVE  UNCHANGED <<pc, pend, watch_list, cur>>
  <1>1. CASE Client \/ Tick
    BY <1>1 DEF Client, MkDir, Publish, PublishTimer, DoneEvent, PauseQueue, RemoveQueue,
                RemoveDir, Tick, daemonVars, watchVars, localVars, updateVars
  <1>2. ASSUME NEW p \in Pid, Worker(p) \/ Handler(p)
        PROVE  UNCHANGED <<pc, pend, watch_list, cur>>
    BY <1>2, WorkerFrame DEF daemonVars, watchVars, localVars, updateVars
  <1>3. ~Restart /\ ~Daemon
    BY DEF Restart, Daemon, Start, FirstScan, ScanDone, FirstPause, ScanEntry, EpollWait,
           Dispatched, Dispatch, ReapWorkers, ReadTimer, ReadModify, ReadDeleteSelf,
           ReadCreate, ReadPause, InotifyDrained, ReadPipe, PipeDrained, BeginUpdate,
           MoveTimerEvent, EndUpdate, ReadTimerDir, EnsureQueueDir, Spawn, SpawnFails,
           TakeDirty, Spawned, Goto
  <1> QED
    BY <1>1, <1>2, <1>3 DEF Next

\* While no queue is removed, no element is freed.
LEMMA ListGrows ==
    ASSUME NoRemoval, KeptInv, Next
    PROVE  watch_list \subseteq watch_list'
  <1>1. CASE LinkWatch
    BY <1>1 DEF LinkWatch
  <1>2. CASE Tick \/ (\E e \in Event : Publish(e) \/ DoneEvent(e))
               \/ (\E k \in Kind, q \in Queue : MkDir(k, q))
               \/ (\E e \in Event, d \in Dues : PublishTimer(e, d))
               \/ (\E x \in Queue \cup {All} : PauseQueue(x))
    BY <1>2 DEF Tick, MkDir, Publish, DoneEvent, PublishTimer, PauseQueue, daemonVars, watchVars
  <1>3. ASSUME NEW p \in Pid, Worker(p) \/ Handler(p)
        PROVE  watch_list' = watch_list
    BY <1>3, WorkerFrame DEF daemonVars, watchVars
  <1>4. ASSUME Daemon, ~Fatal, ~ReadDeleteSelf, ~LinkWatch
        PROVE  watch_list' = watch_list
    BY <1>4 DEF Daemon, Start, FirstScan, ScanDone, FirstPause, ScanEntry, EpollWait,
                Dispatched, Dispatch, ReapWorkers, ReadTimer, ReadModify, ReadCreate,
                ReadPause, InotifyDrained, ReadPipe, PipeDrained, BeginUpdate,
                MoveTimerEvent, EndUpdate, ReadTimerDir, EnsureQueueDir, Spawn, SpawnFails,
                Spawned, Goto, watchVars
  <1> QED
    BY <1>1, <1>2, <1>3, <1>4, KeptCases

\* Every step keeps Linked.
LEMMA LinkedStep ==
    ASSUME NoRemoval, KeptInv, Linked, Next
    PROVE  Linked'
  <1>1. ~Stop /\ ~Fatal
    BY NothingLost
  <1>2. watch_list \subseteq watch_list'
    BY ListGrows
  <1>3. pc = "link" => pend \in watch_list' \/ (pc' = "link" /\ pend' = pend)
    BY <1>1, LinkPending DEF LinkWatch
  <1> QED
    BY <1>1, <1>2, <1>3, WatchAdded DEF Linked, KeptInv, Inv

\* A watch stays, as no queue is removed.
LEMMA WatchesStay ==
    ASSUME NodesKept, NEW k, NEW q
    PROVE  Watches(k, q) \subseteq Watches(k, q)'
  BY DEF NodesKept, Watches

\* A step that creates no directory of kind k and begins or ends no scan.
LEMMA FoundQuiet ==
    ASSUME NEW k \in WatchKind, Found(k), NodesKept, Noted(CreateMask(k)) => Noted(CreateMask(k))',
           Existing(k)' \subseteq Existing(k), UNCHANGED <<scan, skind>>,
           pc \in {"start", "rootwatch"} => pc' \in {"start", "rootwatch"},
           ~booted /\ Scanning => ~booted' /\ Scanning'
    PROVE  Found(k)'
  BY WatchesStay DEF Found, CreateMask

\* mkdir: the daemon scans later or is notified.
LEMMA FoundCreated ==
    ASSUME NoOverflow, TypeOK, DaemonSurvives, NEW k \in WatchKind, Found(k), NodesKept,
           NEW q \in Queue, Existing(k)' \subseteq Existing(k) \cup {q},
           inotify' = NotifyRoot(inotify, CreateMask(k)), UNCHANGED <<scan, skind, booted>>,
           UNCHANGED <<pc, cur>> \/ pc = "update"
    PROVE  Found(k)'
  <1>1. CreateMask(k) \in {"create_queue", "create_timer", "pause"}
    BY DEF CreateMask
  <1>2. CASE pc = "start"
    BY <1>2 DEF Found
  <1>3. CASE pc # "start"
    <2>1. Ev(CreateMask(k), 0) \in Queued(inotify')
      BY <1>1, <1>3, RootQueues DEF RootWatched, DaemonSurvives
    <2>2. Noted(CreateMask(k))'
      BY <2>1 DEF Noted, Ev, CreateMask
    <2> QED
      BY <2>2 DEF Found
  <1> QED
    BY <1>2, <1>3

\* Every step keeps Found, for queues and for timers.
LEMMA DirsFoundStep ==
    ASSUME NoRemoval, NoOverflow, KeptInv, ControlInv, NEW k \in WatchKind, Found(k), Next
    PROVE  Found(k)'
  <1>1. TypeOK /\ DaemonSurvives /\ ~Stop /\ ~Fatal
    BY NothingLost DEF KeptInv, Inv
  <1>2. NodesKept
    BY <1>1, NodesStep
  <1>3. Noted(CreateMask(k)) => Noted(CreateMask(k))' \/ ReadCreate
    <2>1. CASE Queued(inotify) \subseteq Queued(inotify')
      BY <2>1 DEF Noted
    <2>2. CASE ReadModify \/ ReadDeleteSelf \/ ReadPause
      <3>1. Head(inotify).mask # CreateMask(k)
        BY <2>2 DEF ReadModify, ReadDeleteSelf, ReadPause, CreateMask
      <3>2. Queued(inotify) \subseteq Queued(inotify') \cup {Head(inotify)}
        BY <1>1, NotesKept
      <3> QED
        BY <3>1, <3>2 DEF Noted
    <2> QED
      BY <1>1, <2>1, <2>2, NotesKept
  <1>4. CASE ReadCreate
    <2>1. pc = "inotify" /\ scan = {} /\ booted /\ ~Scanning /\ dir' = dir
      BY <1>4 DEF ReadCreate, ControlInv, Scanning, fsVars, dirVars
    <2>2. CASE Head(inotify).mask = CreateMask(k)
      <3>1. skind' = k /\ scan' = Existing(k)
        BY <1>4, <2>2 DEF ReadCreate, BeginScan, CreateMask, WatchKind
      <3> QED
        BY <2>1, <3>1 DEF Found, Existing
    <2>3. CASE Head(inotify).mask # CreateMask(k)
      <3>1. Queued(inotify) \subseteq Queued(inotify') \cup {Head(inotify)}
        BY <1>1, NotesKept
      <3>2. Noted(CreateMask(k)) => Noted(CreateMask(k))'
        BY <2>3, <3>1 DEF Noted
      <3> QED
        BY <1>2, <2>1, <3>2, WatchesStay DEF Found, Existing
    <2> QED
      BY <2>2, <2>3
  <1> SUFFICES ASSUME ~ReadCreate PROVE Found(k)'
    BY <1>4
  <1>5. ASSUME UNCHANGED <<dir, daemonVars>> PROVE Found(k)'
    BY <1>2, <1>3, <1>5, FoundQuiet DEF daemonVars, localVars, updateVars, Scanning, Existing
  <1>6. ASSUME NEW l \in Kind, NEW q \in Queue, MkDir(l, q) PROVE Found(k)'
    <2>1. UNCHANGED <<scan, skind, booted, pc, cur>> /\ dir \in [Kind -> [Queue -> 0 .. MaxGen]]
      BY <1>1, <1>6 DEF MkDir, daemonVars, localVars, updateVars, TypeOK, FsType
    <2>2. CASE l = k
      <3>1. inotify' = NotifyRoot(inotify, CreateMask(k))
        BY <1>6, <2>2 DEF MkDir, CreateMask, WatchKind
      <3>2. Existing(k)' \subseteq Existing(k) \cup {q}
        BY <1>6, <2>1, <2>2 DEF MkDir, Existing
      <3> QED
        BY <1>1, <1>2, <2>1, <3>1, <3>2, FoundCreated
    <2>3. CASE l # k
      <3>1. Existing(k)' \subseteq Existing(k)
        BY <1>6, <2>1, <2>3 DEF MkDir, Existing, WatchKind, Kind
      <3> QED
        BY <1>2, <1>3, <2>1, <3>1, FoundQuiet DEF Scanning
    <2> QED
      BY <2>2, <2>3
  <1>7. CASE (\E e \in Event : Publish(e) \/ DoneEvent(e)) \/ Tick
               \/ (\E e \in Event, d \in Dues : PublishTimer(e, d))
               \/ (\E x \in Queue \cup {All} : PauseQueue(x))
    BY <1>5, <1>7 DEF Publish, DoneEvent, PublishTimer, PauseQueue, Tick, dirVars
  <1>8. ASSUME NEW p \in Pid, Worker(p) \/ Handler(p) PROVE Found(k)'
    <2>1. UNCHANGED daemonVars
      BY <1>8, WorkerFrame
    <2>2. CASE UNCHANGED dirVars
      BY <1>5, <2>1, <2>2 DEF dirVars
    <2>3. CASE WorkerMkdir(p)
      <3>1. Existing(k)' \subseteq Existing(k)
        BY <1>1, <2>3 DEF WorkerMkdir, Existing, WatchKind, Kind, TypeOK, FsType
      <3> QED
        BY <1>2, <1>3, <2>1, <3>1, FoundQuiet DEF daemonVars, localVars, updateVars, Scanning
    <2> QED
      BY <1>8, <2>2, <2>3, WorkerFrame
  <1>9. CASE FirstScan
    <2>1. dir' = dir /\ skind' = "queue" /\ scan' = Existing("queue") /\ ~booted' /\ Scanning'
      BY <1>9 DEF FirstScan, BeginScan, ControlInv, Scanning, fsVars, dirVars
    <2> QED
      BY <2>1 DEF Found, Existing, WatchKind
  <1>10. CASE ScanDone
    <2>1. pc = "scan" /\ scan = {} /\ dir' = dir
      BY <1>10 DEF ScanDone, fsVars, dirVars
    <2>2. CASE ~booted /\ skind = "queue"
      <3>1. skind' = "timer" /\ scan' = Existing("timer")
        BY <1>10, <2>2 DEF ScanDone, BeginScan
      <3>2. CASE k = "timer"
        BY <2>1, <3>1, <3>2 DEF Found, Existing
      <3>3. CASE k = "queue"
        BY <1>2, <1>3, <2>1, <3>3, WatchesStay DEF Found, Existing
      <3> QED
        BY <3>2, <3>3 DEF WatchKind
    <2>3. CASE ~(~booted /\ skind = "queue")
      BY <1>2, <1>3, <2>1, <2>3, WatchesStay DEF Found, Existing
    <2> QED
      BY <2>2, <2>3
  <1>11. ASSUME NEW q \in Queue, ScanEntry(q) PROVE Found(k)'
    <2>1. /\ scan' = scan \ {q} /\ UNCHANGED <<dir, skind, booted, cur>>
          /\ pc = "scan" /\ pc' \in {"scan", "link"}
      BY <1>11 DEF ScanEntry, AddQueueDir, fsVars, dirVars, updateVars
    <2>2. Scanning'
      BY <2>1 DEF ControlInv, Scanning
    <2>3. Watches(skind, q)' # {}
      <3>1. CASE WatchOf(skind, q) # {}
        <4>1. PICK w \in WatchOf(skind, q) : TRUE
          BY <3>1
        <4>2. w \in Watches(skind, q)
          BY <1>1, <4>1 DEF WatchOf, Watches, TypeOK, KernelType
        <4> QED
          BY <1>2, <2>1, <4>2 DEF Watches, NodesKept
      <3>2. CASE WatchOf(skind, q) = {}
        <4> DEFINE node == [kind |-> skind, queue |-> q, gen |-> dir[skind][q], ino |-> dir[skind][q]]
        <4>1. wds' = Append(wds, node) /\ wds \in Seq(WatchNode)
          BY <1>1, <1>11, <3>2 DEF ScanEntry, AddQueueDir, TypeOK, KernelType
        <4>2. node.kind = skind /\ node.queue = q
          OBVIOUS
        <4> HIDE DEF node
        <4>3. Len(wds) + 1 \in DOMAIN wds' /\ wds'[Len(wds) + 1] = node
          BY <4>1, SMTT(30)
        <4> QED
          BY <2>1, <4>2, <4>3 DEF Watches
      <3> QED
        BY <3>1, <3>2
    <2> QED
      BY <1>2, <1>3, <2>1, <2>2, <2>3, WatchesStay, SMTT(30) DEF Found, Existing
  <1>12. ASSUME NEW e \in Event, EnsureQueueDir(e) PROVE Found(k)'
    <2> DEFINE q == QueueOf[e]
    <2>1. /\ UNCHANGED <<scan, skind, booted>> /\ pc = "update" /\ q \in Queue
          /\ dir \in [Kind -> [Queue -> 0 .. MaxGen]]
      BY <1>1, <1>12 DEF EnsureQueueDir, TypeOK, FsType
    <2>2. CASE k = "queue" /\ dir["queue"][q] = 0
      <3>1. inotify' = NotifyRoot(inotify, CreateMask(k))
        BY <1>12, <2>2 DEF EnsureQueueDir, CreateMask
      <3>2. Existing(k)' \subseteq Existing(k) \cup {q}
        BY <1>12, <2>1, <2>2 DEF EnsureQueueDir, Existing, Kind
      <3> QED
        BY <1>1, <1>2, <2>1, <3>1, <3>2, FoundCreated
    <2>3. CASE ~(k = "queue" /\ dir["queue"][q] = 0)
      <3>1. Existing(k)' \subseteq Existing(k)
        BY <1>12, <2>1, <2>3 DEF EnsureQueueDir, Existing, WatchKind, Kind
      <3> QED
        BY <1>2, <1>3, <2>1, <3>1, FoundQuiet DEF Scanning
    <2> QED
      BY <2>2, <2>3
  <1>13. ASSUME UNCHANGED <<dir, scan, skind>>, pc \in {"start", "rootwatch"} => pc' = "rootwatch",
                ~booted /\ Scanning => ~booted' /\ Scanning'
         PROVE  Found(k)'
    BY <1>2, <1>3, <1>13, FoundQuiet DEF Existing
  <1>14. CASE LinkWatch
    BY <1>13, <1>14 DEF LinkWatch, Scanning, fsVars, dirVars, updateVars
  <1>15. CASE Start \/ FirstPause \/ Dispatched \/ InotifyDrained \/ PipeDrained \/ Spawned
                \/ EpollWait \/ (\E f \in Fd : Dispatch(f))
    BY <1>13, <1>15 DEF Start, FirstPause, Dispatched, InotifyDrained, PipeDrained, Spawned,
                        EpollWait, Dispatch, Goto, fsVars, dirVars, localVars, Scanning
  <1>16. CASE ReapWorkers \/ ReadTimer \/ ReadModify \/ ReadPause \/ \E w \in Wd : ReadPipe(w)
    BY <1>13, <1>16 DEF ReapWorkers, ReadTimer, ReadModify, ReadPause, ReadPipe, fsVars, dirVars,
                        localVars, Scanning
  <1>17. CASE BeginUpdate \/ MoveTimerEvent \/ EndUpdate \/ \E q \in Queue : ReadTimerDir(q)
    BY <1>13, <1>17 DEF BeginUpdate, MoveTimerEvent, EndUpdate, ReadTimerDir, fsVars, dirVars,
                        Scanning
  <1>18. CASE (\E w \in Wd, p \in Pid : Spawn(w, p)) \/ (\E w \in Wd : SpawnFails(w))
    BY <1>13, <1>18 DEF Spawn, SpawnFails, TakeDirty, fsVars, dirVars, localVars, Scanning
  <1> QED
    BY <1>6, <1>7, <1>8, <1>9, <1>10, <1>11, <1>12, <1>14, <1>15, <1>16, <1>17, <1>18, KeptCases
       DEF Daemon

============================================================================
