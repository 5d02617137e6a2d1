---------------------------- MODULE MountMonitor ----------------------------
(***************************************************************************)
(* ueventd-mounts (features/runtime/src/ueventd-mounts): follows the       *)
(* kernel's mount table, with fanotify or through /proc/self/mounts, and   *)
(* queues an event for ueventd whenever a mount comes or goes.  A mount is *)
(* an id and a key: its target, source and type.                           *)
(***************************************************************************)
EXTENDS Naturals, Sequences, FiniteSets, SequencesExt

CONSTANTS
  Keys,        \* target, source and type of a mount
  MaxId,       \* bound: the mounts there ever are
  MaxMoves,    \* bound: mounts moved
  MaxEvents,   \* the length of fanotify's queue
  Page,        \* the ids one listmount() returns at most
  MaxKills     \* bound: times the service is stopped and started

VARIABLES
  table,      \* kernel: id -> key
  lastId,     \* kernel: the last id given
  moves,      \* kernel: mounts moved so far
  kq,         \* kernel: fanotify's queue of [id, attach, detach]
  overflow,   \* kernel: an event of this queue was lost
  changed,    \* kernel: poll() of /proc/self/mounts will report
  monitor,    \* where main() is
  known,      \* the list "mounts"
  ops,        \* what the function at work has still to do
  writing,    \* create_event() has its temporary file open
  tmp,        \* the temporary file exists
  told,       \* the keys that are mounted, by the start and the events since
  missed,     \* what was listed may be stale, and nothing will report it: the table
              \* changed before /proc/self/mounts was opened, or fanotify's listing failed
  stacked,    \* a mount was put on an equal one, or listed beside an equal one since gone
  kills

kernelVars == <<table, lastId, moves, kq, overflow, changed, missed, stacked>>
mountVars == <<kernelVars, monitor, known, ops, writing, tmp, told, kills>>

Op(op, x) == [op |-> op, arg |-> x]
Entry0(i, k) == [id |-> i, key |-> k, old |-> FALSE]
KeysOf(list) == {list[n].key : n \in DOMAIN list}
Ordered(ids) == SetToSortSeq(ids, LAMBDA a, b : a < b)

MountInit ==
  /\ lastId \in 0..Page
  /\ table \in [1..lastId -> Keys]
  /\ moves = 0 /\ kq = <<>> /\ overflow = FALSE /\ changed = FALSE
  /\ monitor = "start" /\ known = <<>> /\ ops = <<>> /\ writing = FALSE
  /\ tmp = FALSE /\ told = {} /\ missed = FALSE /\ kills = 0
  /\ stacked = (Cardinality({table[i] : i \in DOMAIN table}) < lastId)

----------------------------------------------------------------------------
(* The kernel *)

Marked == monitor \in {"list", "fanotify"}
Notify(i, a, d) ==
  /\ IF ~Marked THEN UNCHANGED <<kq, overflow>>
     ELSE IF Len(kq) < MaxEvents THEN kq' = Append(kq, [id |-> i, attach |-> a, detach |-> d]) /\ UNCHANGED overflow
     ELSE overflow' = TRUE /\ UNCHANGED kq
  /\ changed' = (changed \/ monitor = "procfs")
  /\ missed' = (missed \/ monitor = "open")
  /\ UNCHANGED <<monitor, known, ops, writing, tmp, told, kills>>

Mount ==
  \E k \in Keys :
    LET i == lastId + 1   \* an id is never given twice
    IN /\ i <= MaxId
       /\ lastId' = i
       /\ table' = [j \in DOMAIN table \cup {i} |-> IF j = i THEN k ELSE table[j]]
       /\ stacked' = (stacked \/ \E j \in DOMAIN table : table[j] = k)
       /\ Notify(i, TRUE, FALSE)
       /\ UNCHANGED moves
Umount ==
  \E i \in DOMAIN table :
    /\ table' = [j \in DOMAIN table \ {i} |-> table[j]]
    /\ Notify(i, FALSE, TRUE)
    /\ UNCHANGED <<lastId, moves, stacked>>
Move ==
  \E i \in DOMAIN table, k \in Keys :
    /\ moves < MaxMoves /\ k # table[i]
    /\ moves' = moves + 1
    /\ table' = [table EXCEPT ![i] = k]
    /\ stacked' = (stacked \/ \E j \in DOMAIN table \ {i} : table[j] = k)
    /\ Notify(i, TRUE, TRUE)
    /\ UNCHANGED lastId

----------------------------------------------------------------------------
(* The list "mounts" and the events *)

mount_find(i, k) ==
  SelectInSeq(known, LAMBDA m : IF i > 0 /\ m.id > 0 THEN m.id = i ELSE k \in Keys /\ m.key = k)

Working == monitor \in {"list", "fanotify", "procfs"} /\ ops # <<>>
Doing(op) == Working /\ Head(ops).op = op
Arg == Head(ops).arg

\* create_event(), first half, of mount_attach() and mount_detach(): a temporary
\* file somebody left is fatal.
OpenTemp ==
  /\ Doing("attach") \/ Doing("detach")
  /\ ~writing
  /\ IF tmp THEN monitor' = "dead" /\ UNCHANGED <<known, writing, tmp>>
     ELSE /\ known' = IF Head(ops).op = "attach" THEN Append(known, Arg) ELSE known
          /\ writing' = TRUE /\ tmp' = TRUE /\ UNCHANGED monitor
  /\ UNCHANGED <<kernelVars, ops, told, kills>>

\* Second half: the file gets its name in the queue.
RenameTemp ==
  /\ Doing("attach") \/ Doing("detach")
  /\ writing
  /\ writing' = FALSE /\ tmp' = FALSE /\ ops' = Tail(ops)
  /\ IF Head(ops).op = "attach" THEN told' = told \cup {Arg.key} /\ UNCHANGED known
     ELSE told' = told \ {Arg.key} /\ known' = RemoveFirst(known, Arg)
  /\ UNCHANGED <<kernelVars, monitor, kills>>

----------------------------------------------------------------------------
(* backend-fanotify.c *)

\* fanotify_init_backend() up to the mark, or the fall back to /proc.
FanotifyMark ==
  /\ monitor = "start"
  /\ \/ monitor' = "list" /\ ops' = <<Op("page", 0)>>
     \/ monitor' = "read" /\ UNCHANGED ops
  /\ UNCHANGED <<kernelVars, known, writing, tmp, told, kills>>

\* Mutant: a full page is taken for the last one.
ListMountsOnePage ==
  /\ Doing("page")
  /\ LET above == Ordered({i \in DOMAIN table : i > Arg})
         nr == IF Len(above) < Page THEN Len(above) ELSE Page
     IN ops' = [n \in 1..nr |-> Op("learn", above[n])]
  /\ UNCHANGED <<kernelVars, monitor, known, writing, tmp, told, kills>>

\* Mutant: the next page is asked for from the start (req.param is not advanced).
ListMountsAgain ==
  /\ Doing("page")
  /\ LET all == Ordered(DOMAIN table)
         nr == IF Len(all) < Page THEN Len(all) ELSE Page
     IN ops' = [n \in 1..nr |-> Op("learn", all[n])] \o (IF nr < Page THEN <<>> ELSE <<Op("page", all[nr])>>)
  /\ UNCHANGED <<kernelVars, monitor, known, writing, tmp, told, kills>>

\* fanotify_read_mounts(): a page of ids above the last one; a failure closes the
\* queue and leaves to /proc what was read.
ListMounts ==
  /\ Doing("page")
  /\ \/ LET above == Ordered({i \in DOMAIN table : i > Arg})
            nr == IF Len(above) < Page THEN Len(above) ELSE Page
        IN /\ ops' = [n \in 1..nr |-> Op("learn", above[n])]
                     \o (IF nr < Page THEN <<>> ELSE <<Op("page", above[nr])>>)
           /\ UNCHANGED <<monitor, kq, missed>>
     \/ monitor' = "read" /\ ops' = <<>> /\ kq' = <<>> /\ missed' = (known # <<>>)
  /\ UNCHANGED <<table, lastId, moves, overflow, changed, stacked, known, writing, tmp, told, kills>>

\* statmount_alloc() of an id listed: by now the mount may be gone.
Learn ==
  /\ Doing("learn")
  /\ IF mount_find(Arg, <<>>) > 0 \/ Arg \notin DOMAIN table THEN UNCHANGED <<known, told, stacked>>
     ELSE /\ known' = Append(known, Entry0(Arg, table[Arg]))
          /\ told' = told \cup {table[Arg]}
          /\ stacked' = (stacked \/ table[Arg] \in KeysOf(known))
  /\ ops' = Tail(ops)
  /\ UNCHANGED <<table, lastId, moves, kq, overflow, changed, missed, monitor, writing, tmp, kills>>

StartFanotify ==
  /\ monitor = "list" /\ ops = <<>>
  /\ monitor' = "fanotify"
  /\ UNCHANGED <<kernelVars, known, ops, writing, tmp, told, kills>>

\* fanotify_dispatch(): an event.
ReadEvent ==
  /\ monitor = "fanotify" /\ ops = <<>> /\ kq # <<>>
  /\ LET e == Head(kq)
         m == mount_find(e.id, <<>>)
     IN ops' = (IF m > 0 THEN <<Op("detach", known[m])>> ELSE <<>>)
               \o (IF e.attach THEN <<Op("stat", e.id)>> ELSE <<>>)
  /\ kq' = Tail(kq)
  /\ UNCHANGED <<table, lastId, moves, overflow, changed, missed, stacked, monitor, known, writing, tmp, told, kills>>

Stat ==
  /\ Doing("stat")
  /\ ops' = (IF Arg \in DOMAIN table THEN <<Op("attach", Entry0(Arg, table[Arg]))>> ELSE <<>>) \o Tail(ops)
  /\ UNCHANGED <<kernelVars, monitor, known, writing, tmp, told, kills>>

----------------------------------------------------------------------------
(* backend-procfs.c *)

\* The file lists the mounts in order; getmntent() gives no id.
Listing == LET s == Ordered(DOMAIN table) IN [n \in DOMAIN s |-> table[s[n]]]
\* procfs_read_mounts(): an entry is new if the list, as it was, has no equal.
NewEntries == LET new == SelectSeq(Listing, LAMBDA k : mount_find(0, k) = 0)
              IN [n \in DOMAIN new |-> Entry0(0, new[n])]

\* procfs_init_backend(): reads, and only then opens what will be polled.
ProcfsRead ==
  /\ monitor = "read"
  /\ known' = known \o NewEntries
  /\ told' = told \cup KeysOf(NewEntries)
  /\ monitor' = "open"
  /\ UNCHANGED <<kernelVars, ops, writing, tmp, kills>>
ProcfsOpen ==
  /\ monitor = "open"
  /\ monitor' = "procfs"
  /\ UNCHANGED <<kernelVars, known, ops, writing, tmp, told, kills>>

\* procfs_dispatch(): the first entry equal to a line is current, whatever is
\* left is old and detached, then the new ones are attached.
Current == {mount_find(0, Listing[n]) : n \in DOMAIN Listing} \ {0}
ProcfsDispatch ==
  /\ monitor = "procfs" /\ ops = <<>> /\ changed
  /\ changed' = FALSE
  /\ missed' = FALSE
  /\ LET keep == [n \in DOMAIN known |-> [known[n] EXCEPT !.old = n \notin Current]]
         old == SelectSeq(keep, LAMBDA m : m.old)
     IN /\ known' = keep
        /\ ops' = [n \in DOMAIN old |-> Op("detach", old[n])]
                  \o [n \in DOMAIN NewEntries |-> Op("attach", NewEntries[n])]
  /\ UNCHANGED <<table, lastId, moves, kq, overflow, stacked, monitor, writing, tmp, told, kills>>

\* The service is stopped, at any point, and started again.
Restart ==
  /\ kills < MaxKills /\ kills' = kills + 1
  /\ monitor' = "start" /\ known' = <<>> /\ ops' = <<>> /\ writing' = FALSE /\ told' = {}
  /\ kq' = <<>> /\ overflow' = FALSE /\ changed' = FALSE /\ missed' = FALSE
  /\ UNCHANGED <<table, lastId, moves, stacked, tmp>>

Kernel == Mount \/ Umount \/ Move
Daemon == OpenTemp \/ RenameTemp \/ FanotifyMark \/ ListMounts \/ Learn \/ StartFanotify \/ ReadEvent \/ Stat
          \/ ProcfsRead \/ ProcfsOpen \/ ProcfsDispatch
MountStep == Kernel \/ Daemon \/ Restart

----------------------------------------------------------------------------
(* Properties *)

\* The state of ueventd-mounts; a file it writes to is one that exists.
MountTypeOK ==
  /\ DOMAIN table \subseteq 1..lastId /\ \A i \in DOMAIN table : table[i] \in Keys
  /\ monitor \in {"start", "list", "fanotify", "read", "open", "procfs", "dead"}
  /\ told \subseteq Keys /\ Len(kq) <= MaxEvents
  /\ writing => tmp

\* The daemon waits in poll() with nothing to report.
Quiet == /\ ops = <<>> /\ kq = <<>> /\ ~changed
         /\ monitor \in {"fanotify", "procfs"}
         /\ ~overflow /\ ~missed

\* In poll() the daemon's list is the kernel's table, whatever was mounted,
\* unmounted or moved while it started, listed page by page or wrote events: the
\* same ids at the same places with fanotify, the same places with /proc.  Not
\* covered, as the code does not recover from them before the next change: an
\* overflow of fanotify's queue, a change just before /proc/self/mounts is opened,
\* and a listing that failed after its first page.
MountKnown ==
  Quiet => IF monitor = "fanotify"
           THEN /\ Len(known) = Cardinality(DOMAIN table)
                /\ \A n \in DOMAIN known : known[n].id \in DOMAIN table /\ known[n].key = table[known[n].id]
           ELSE KeysOf(known) = {table[i] : i \in DOMAIN table}

\* And so is the picture of who follows the events from the start, as long as no
\* mount was put on an equal one: the last event of a place tells what it is.
MountTold == Quiet /\ ~stacked => told = {table[i] : i \in DOMAIN table}

\* The daemon gives up only for a temporary file that an earlier life left behind:
\* its own events never meet one another there.
MonitorAlive == monitor = "dead" => tmp /\ ~writing /\ kills > 0

\* ueventd-mounts follows the mount table: in its list, in the events it queues,
\* and without stopping over its own temporary file.
MountFollowed == MountKnown /\ MountTold /\ MonitorAlive

============================================================================
