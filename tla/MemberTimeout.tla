---------------------------- MODULE MemberTimeout ----------------------------
(***************************************************************************)
(* The handlers of the queues md-raid-member and btrfs-member: devices of  *)
(* an array appear one by one, and when no more have come for "delay"      *)
(* seconds an incomplete array is started, or mounted, without the rest.   *)
(* Every batch of members cancels the delayed event and arms it anew.  The *)
(* clock is in seconds to go, so there is no last second.                  *)
(***************************************************************************)
EXTENDS Naturals, Sequences, FiniteSets

VARIABLES
  mem,       \* kind (md or btrfs), delay, and the arrays with their members
  seen,      \* <<array, member>> that have appeared
  scanned,   \* those the kernel knows as members
  owed,      \* those whose udev rules have not reached the filter yet
  arrays,    \* array -> its array_state, or for btrfs the option in fstab
  mq,        \* events of the queue: member and timeout; late: a batch of members
             \* was handled since it got there
  timers,    \* seconds to go of the delayed events, 0: due
  mpc,       \* where the handler is
  arest,     \* arrays its loop has still to look at
  inactive,  \* "inactive" of process_timeout(), or for btrfs "changed"
  late,      \* the timeout at work is a late one
  quiet,     \* seconds since a batch of members was handled
  extended   \* rootdelay_reset_timer() was called

memberVars == <<mem, seen, scanned, owed, arrays, mq, timers, mpc, arest, inactive, late, quiet, extended>>

Member == [type |-> "member", late |-> FALSE]
Timeout == [type |-> "timeout", late |-> FALSE]
Names == DOMAIN mem.arrays
Have(a) == {m \in mem.arrays[a].members : <<a, m>> \in scanned}
AllHere(a) == Have(a) = mem.arrays[a].members

MemberStart(jobs) ==
  /\ mem \in jobs
  /\ seen = {} /\ scanned = {} /\ owed = {} /\ arrays = [a \in Names |-> "none"] /\ mq = {} /\ timers = <<>>
  /\ mpc = "idle" /\ arest = {} /\ inactive = FALSE /\ late = FALSE /\ quiet = mem.delay
  /\ extended = FALSE

----------------------------------------------------------------------------
(* udev and ueventd *)

\* The rules give a member to "mdadm --incremental", or to "btrfs device scan",
\* which may come too early, and then run the filter.  mdadm starts an array that
\* is complete.
Appear ==
  \E a \in Names : \E m \in mem.arrays[a].members :
    /\ <<a, m>> \notin seen
    /\ seen' = seen \cup {<<a, m>>} /\ owed' = owed \cup {<<a, m>>}
    /\ scanned' = scanned \cup {<<a, m>>} \/ (mem.kind = "btrfs" /\ mem.arrays[a].hasty /\ scanned' = scanned)
    /\ \E s \in IF mem.kind = "btrfs" \/ arrays[a] \notin {"none", "inactive"} THEN {arrays[a]}
                ELSE IF Have(a) \cup {m} = mem.arrays[a].members THEN {"read-auto", "active"} ELSE {"inactive"} :
         arrays' = [arrays EXCEPT ![a] = s]
    /\ UNCHANGED <<mem, mq, timers, mpc, arest, inactive, late, quiet, extended>>
Filter ==
  /\ \E x \in owed : owed' = owed \ {x}
  /\ mq' = mq \cup {Member}
  /\ UNCHANGED <<mem, seen, scanned, arrays, timers, mpc, arest, inactive, late, quiet, extended>>

\* ueventd moves a delayed event into its queue once it is due.
FireTimer ==
  /\ \E i \in DOMAIN timers : /\ timers[i] = 0
                              /\ timers' = SubSeq(timers, 1, i - 1) \o SubSeq(timers, i + 1, Len(timers))
  /\ mq' = mq \cup {Timeout}
  /\ UNCHANGED <<mem, seen, scanned, owed, arrays, mpc, arest, inactive, late, quiet, extended>>
Tick ==
  /\ timers' = [i \in DOMAIN timers |-> IF timers[i] > 0 THEN timers[i] - 1 ELSE 0]
  /\ quiet' = IF quiet < mem.delay THEN quiet + 1 ELSE quiet
  /\ UNCHANGED <<mem, seen, scanned, owed, arrays, mq, mpc, arest, inactive, late, extended>>

----------------------------------------------------------------------------
(* The handler *)

\* The batch is all of the queue and all of it is done; a member beats a timeout.
TakeBatch ==
  /\ mpc = "idle" /\ mq # {}
  /\ mq' = {}
  /\ mpc' = IF Member \in mq THEN "cancel" ELSE IF mem.kind = "md" THEN "scan" ELSE "devices"
  /\ arest' = Names /\ inactive' = FALSE /\ late' = (Timeout \notin mq)
  /\ UNCHANGED <<mem, seen, scanned, owed, arrays, timers, quiet, extended>>

\* Mutant: the timer that is running stays.
CancelNone ==
  /\ mpc = "cancel"
  /\ mpc' = IF mem.delay = 0 THEN "idle" ELSE IF mem.kind = "md" THEN "arm" ELSE "check"
  /\ mq' = {IF e.type = "timeout" THEN [e EXCEPT !.late = TRUE] ELSE e : e \in mq}
  /\ quiet' = 0
  /\ UNCHANGED <<mem, seen, scanned, owed, arrays, timers, arest, inactive, late, extended>>

\* queue_cancel_timeouts() reaches the delayed events only, not one that ueventd
\* has moved already.
Cancel ==
  /\ mpc = "cancel"
  /\ timers' = <<>>
  /\ mpc' = IF mem.delay = 0 THEN "idle" ELSE IF mem.kind = "md" THEN "arm" ELSE "check"
  /\ mq' = {IF e.type = "timeout" THEN [e EXCEPT !.late = TRUE] ELSE e : e \in mq}
  /\ quiet' = 0
  /\ UNCHANGED <<mem, seen, scanned, owed, arrays, arest, inactive, late, extended>>

\* A file system of fstab with several devices, and some of them missing.
Missing(a) ==
  /\ mem.arrays[a].configured /\ Have(a) # {} /\ ~AllHere(a)
  /\ Cardinality(mem.arrays[a].members) > 1
check_btrfs_arrays ==
  /\ mpc = "check"
  /\ mpc' = IF \E a \in Names : Missing(a) THEN "arm" ELSE "idle"
  /\ UNCHANGED <<mem, seen, scanned, owed, arrays, mq, timers, arest, inactive, late, quiet, extended>>

queue_timeout_after ==
  /\ mpc = "arm"
  /\ timers' = Append(timers, mem.delay)
  /\ mpc' = "idle"
  /\ UNCHANGED <<mem, seen, scanned, owed, arrays, mq, arest, inactive, late, quiet, extended>>

\* process_timeout() of md: is any of our arrays inactive?  Then mdadm -IRs starts
\* all it can; and what is read-only until the first write is made writable.
is_raid(a) == mem.arrays[a].configured /\ arrays[a] # "none"
ScanArrays ==
  /\ mpc = "scan"
  /\ IF arest = {} THEN mpc' = (IF inactive THEN "run" ELSE "write") /\ arest' = Names /\ UNCHANGED inactive
     ELSE \E a \in arest : /\ arest' = arest \ {a}
                           /\ inactive' = (inactive \/ (is_raid(a) /\ arrays[a] = "inactive"))
                           /\ UNCHANGED mpc
  /\ UNCHANGED <<mem, seen, scanned, owed, arrays, mq, timers, late, quiet, extended>>
\* External: mdadm -IRs starts the arrays that have members enough.
Enough(a) == Cardinality(Have(a)) >= mem.arrays[a].need
RunArrays ==
  /\ mpc = "run"
  /\ arrays' \in {f \in [Names -> {arrays[a] : a \in Names} \cup {"read-auto", "active"}] :
                    \A a \in Names : IF arrays[a] = "inactive" /\ Enough(a) THEN f[a] \in {"read-auto", "active"}
                                     ELSE f[a] = arrays[a]}
  /\ mpc' = "write"
  /\ UNCHANGED <<mem, seen, scanned, owed, mq, timers, arest, inactive, late, quiet, extended>>
WriteArrays ==
  /\ mpc = "write"
  /\ IF arest = {} THEN mpc' = "idle" /\ UNCHANGED <<arest, arrays>>
     ELSE \E a \in arest : /\ arest' = arest \ {a}
                           /\ arrays' = IF arrays[a] = "read-auto" /\ is_raid(a) THEN [arrays EXCEPT ![a] = "active"] ELSE arrays
                           /\ UNCHANGED mpc
  /\ UNCHANGED <<mem, seen, scanned, owed, mq, timers, inactive, late, quiet, extended>>

\* process_timeout() of btrfs, under fstab's lock: a full scan, and where devices
\* are still missing the option "degraded".  A changed fstab gives the root its
\* whole delay again.
ScanDevices ==
  /\ mpc = "devices"
  /\ scanned' = seen
  /\ mpc' = "degrade"
  /\ UNCHANGED <<mem, seen, owed, arrays, mq, timers, arest, inactive, late, quiet, extended>>
DegradeArrays ==
  /\ mpc = "degrade"
  /\ IF arest = {} THEN mpc' = "idle" /\ extended' = (extended \/ inactive) /\ UNCHANGED <<arest, arrays, inactive>>
     ELSE \E a \in arest : /\ arest' = arest \ {a}
                           /\ arrays' = IF Missing(a) THEN [arrays EXCEPT ![a] = "degraded"] ELSE arrays
                           /\ inactive' = (inactive \/ arrays' # arrays)
                           /\ UNCHANGED <<mpc, extended>>
  /\ UNCHANGED <<mem, seen, scanned, owed, mq, timers, late, quiet>>

MemberHandler == TakeBatch \/ Cancel \/ check_btrfs_arrays \/ queue_timeout_after
                 \/ ScanArrays \/ RunArrays \/ WriteArrays \/ ScanDevices \/ DegradeArrays
MemberStep == Appear \/ Filter \/ FireTimer \/ Tick \/ MemberHandler

----------------------------------------------------------------------------
(* Properties *)

\* "The number of seconds to wait after the last raid member appears before
\* starting the degraded raid", and 0 never starts it: process_timeout() runs only
\* when no batch of members was handled for that long; never by a timer that an
\* earlier batch had armed, of which there is one at a time.  The exception is a
\* timer that had fired, and was in the queue, before the batch was handled.
MemberWaits ==
  /\ Len(timers) <= 1
  /\ mpc \in {"scan", "run", "write", "devices", "degrade"} => mem.delay > 0 /\ (late \/ quiet = mem.delay)

\* What "the feature waits for" ends: once no more members come, every array of
\* ours that has members enough is active, and every file system that misses
\* devices gets the option "degraded" and time to be mounted with it, however
\* members, timers and batches met.
MemberSettled ==
  /\ owed = {} /\ mq = {} /\ timers = <<>> /\ mpc = "idle"
  /\ mem.delay > 0 => \A a \in Names :
       IF mem.kind = "md" THEN mem.arrays[a].configured /\ Have(a) # {} /\ Enough(a) => arrays[a] = "active"
       ELSE Missing(a) => arrays[a] = "degraded" /\ extended

=============================================================================
