----------------------------- MODULE Rootdelay -----------------------------
(***************************************************************************)
(* rootdelayd waits ROOTDELAY seconds for the root file system and then    *)
(* opens an emergency shell.  Commands that may take long (fsck, kickstart)*)
(* pause the countdown by a shared flock on pause.lock; the first of them  *)
(* notes the time in pause.time, and whoever gets the exclusive lock after *)
(* them moves the deadline by the time that has passed.  Handlers that     *)
(* make progress reset the deadline without taking the lock.               *)
(***************************************************************************)
EXTENDS Integers

CONSTANTS
    Pauser,       \* processes that call run_rootdelay_paused
    OnConsole,    \* those of them that hold the console lock (fsck)
    Resetter,     \* processes that call rootdelay_reset_timer
    Delayd,       \* the daemon
    Nobody,       \* no holder of a lock
    ROOTDELAY,
    Resume,       \* a resume device is configured
    Env,          \* subset of {"crash", "giveup", "rdshell"}
    MaxTime,      \* horizon of the clock
    MaxFaults     \* number of crashes

None == -1        \* the file does not exist
Finalizer == Pauser \cup {Delayd}
Proc == Finalizer \cup Resetter

ASSUME RootdelayAssumption ==
    /\ ROOTDELAY \in Nat \ {0} /\ MaxTime \in Nat /\ MaxFaults \in Nat
    /\ Resume \in BOOLEAN
    /\ OnConsole \subseteq Pauser
    /\ Delayd \notin Pauser \cup Resetter /\ Pauser \cap Resetter = {}
    /\ Nobody \notin Proc

VARIABLES
    lockfile, pauseTime, reset, deadline,   \* files of /.initrd/rootdelay
    disabled,                               \* its directory disabled
    resumed,        \* resume_checked
    initenv,        \* /.initrd/initenv: "empty", "plain" or with "rdshell"
    sh, ex,         \* holders of pause.lock, shared and exclusive
    console,        \* holder of console.lock
    pc,             \* where each process is
    start,          \* pause_start of each finalizer
    found,          \* the deadline a process has read or computed
    seen,           \* what current_seconds gave each process
    wake,           \* when the daemon's sleep ends
    now, faults,
    owed, cap       \* bookkeeping of the time granted, see Properties

fileVars == <<lockfile, pauseTime, reset, deadline, disabled, resumed, initenv>>
lockVars == <<sh, ex, console>>
localVars == <<start, found, seen, wake>>
clockVars == <<now, faults>>
grantVars == <<owed, cap>>
vars == <<fileVars, lockVars, pc, localVars, clockVars, grantVars>>

Init ==
    /\ lockfile = FALSE /\ pauseTime = None /\ reset = None /\ deadline = None
    /\ disabled = FALSE /\ resumed = ~Resume /\ initenv = "empty"
    /\ sh = {} /\ ex = Nobody /\ console = Nobody
    /\ pc = [x \in Proc |-> IF x = Delayd THEN "loop" ELSE "idle"]
    /\ start = [x \in Proc |-> 0] /\ found = [x \in Proc |-> 0]
    /\ seen = [x \in Proc |-> 0]
    /\ wake = 0 /\ now = 0 /\ faults = 0
    /\ owed = 0 /\ cap = 0

At(x, l) == pc[x] = l
Goto(x, l) == pc' = [pc EXCEPT ![x] = l]

\* flock -n -x would succeed.
Free == ex = Nobody /\ sh = {}

\* The daemon sleeps for one period.
SleepUntil == wake' = IF now < MaxTime THEN now + 1 ELSE MaxTime

\* The local variables of x go out of scope.
Forget(x) ==
    /\ start' = [start EXCEPT ![x] = 0]
    /\ found' = [found EXCEPT ![x] = 0]
    /\ seen' = [seen EXCEPT ![x] = 0]
    /\ UNCHANGED wake

\* rootdelay_set_deadline with a new period of waiting.
Grant(t) ==
    /\ deadline' = t + ROOTDELAY
    /\ owed' = t + ROOTDELAY /\ cap' = t + ROOTDELAY

----------------------------------------------------------------------------
(* _rootdelay_finalize_pause, in a pauser or in the daemon                 *)

\* What the caller does next: a pauser ignores the result, the daemon naps
\* when the lock was taken.
Returned(x, rc) ==
    IF x # Delayd THEN "done" ELSE IF rc = 0 THEN "loop" ELSE "nap"

FinTry(x) ==
    /\ At(x, "fin")
    /\ \/ ~lockfile /\ Goto(x, Returned(x, 0)) /\ UNCHANGED ex
       \/ lockfile /\ Free /\ ex' = x /\ Goto(x, "fin_read")
       \/ lockfile /\ ~Free /\ Goto(x, Returned(x, 1)) /\ UNCHANGED ex
    /\ UNCHANGED <<fileVars, sh, console, localVars, clockVars, grantVars>>

FinRead(x) ==
    /\ At(x, "fin_read")
    /\ IF pauseTime = None
       THEN Goto(x, "fin_close") /\ UNCHANGED start
       ELSE /\ start' = [start EXCEPT ![x] =
                           IF reset > pauseTime THEN reset ELSE pauseTime]
            /\ Goto(x, IF reset = None THEN "fin_count" ELSE "fin_reset")
    /\ UNCHANGED <<fileVars, lockVars, found, seen, wake, clockVars, grantVars>>

FinReset(x) ==
    /\ At(x, "fin_reset")
    /\ reset' = None
    /\ Goto(x, "fin_count")
    /\ UNCHANGED <<lockfile, pauseTime, deadline, disabled, resumed, initenv,
                   lockVars, localVars, clockVars, grantVars>>

\* The deadline after the pause.
Extended(x) == deadline + (now - start[x])

FinCount(x) ==
    /\ At(x, "fin_count")
    /\ IF deadline > 0 /\ now > start[x]
       THEN found' = [found EXCEPT ![x] = Extended(x)] /\ Goto(x, "fin_set")
       ELSE UNCHANGED found /\ Goto(x, "fin_end")
    /\ UNCHANGED <<fileVars, lockVars, start, seen, wake, clockVars, grantVars>>

FinSet(x) ==
    /\ At(x, "fin_set")
    /\ deadline' = found[x]
    /\ Goto(x, "fin_end")
    /\ UNCHANGED <<lockfile, pauseTime, reset, disabled, resumed, initenv,
                   lockVars, localVars, clockVars, grantVars>>

\* Mutant: pause.time stays.
FinEndKeeps(x) ==
    /\ At(x, "fin_end")
    /\ Goto(x, "fin_close")
    /\ UNCHANGED <<fileVars, lockVars, localVars, clockVars, grantVars>>

FinEnd(x) ==
    /\ At(x, "fin_end")
    /\ pauseTime' = None
    /\ Goto(x, "fin_close")
    /\ UNCHANGED <<lockfile, reset, deadline, disabled, resumed, initenv,
                   lockVars, localVars, clockVars, grantVars>>

FinClose(x) ==
    /\ At(x, "fin_close")
    /\ ex' = Nobody
    /\ Goto(x, Returned(x, 0))
    /\ Forget(x)
    /\ UNCHANGED <<fileVars, sh, console, clockVars, grantVars>>

Finalize(x) ==
    \/ FinTry(x) \/ FinRead(x) \/ FinReset(x) \/ FinCount(x) \/ FinSet(x)
    \/ FinEnd(x) \/ FinClose(x)

----------------------------------------------------------------------------
(* run_rootdelay_paused                                                    *)

PauseBegin(p) ==
    /\ At(p, "idle")
    /\ p \in OnConsole => console = Nobody
    /\ console' = IF p \in OnConsole THEN p ELSE console
    /\ lockfile' = TRUE
    /\ Goto(p, "lock")
    /\ UNCHANGED <<pauseTime, reset, deadline, disabled, resumed, initenv, sh, ex,
                   localVars, clockVars, grantVars>>

\* flock -s
PauseLock(p) ==
    /\ At(p, "lock") /\ ex = Nobody
    /\ sh' = sh \cup {p}
    /\ Goto(p, "stamp")
    /\ UNCHANGED <<fileVars, ex, console, localVars, clockVars, grantVars>>

\* Mutant: a later pause overwrites the time of the first.
PauseStampAlways(p) ==
    /\ At(p, "stamp")
    /\ seen' = [seen EXCEPT ![p] = now]
    /\ Goto(p, "write")
    /\ UNCHANGED <<fileVars, lockVars, start, found, wake, clockVars, grantVars>>

PauseStamp(p) ==
    /\ At(p, "stamp")
    /\ IF pauseTime = None
       THEN seen' = [seen EXCEPT ![p] = now] /\ Goto(p, "write")
       ELSE UNCHANGED seen /\ Goto(p, "busy")
    /\ UNCHANGED <<fileVars, lockVars, start, found, wake, clockVars, grantVars>>

PauseWrite(p) ==
    /\ At(p, "write")
    /\ pauseTime' = seen[p]
    /\ Goto(p, "busy")
    /\ UNCHANGED <<lockfile, reset, deadline, disabled, resumed, initenv,
                   lockVars, localVars, clockVars, grantVars>>

\* The command has ended and the lock is closed.
PauseEnd(p) ==
    /\ At(p, "busy")
    /\ sh' = sh \ {p}
    /\ Goto(p, "fin")
    /\ UNCHANGED <<fileVars, ex, console, localVars, clockVars, grantVars>>

PauserGone(p) ==
    /\ At(p, "done")
    /\ console' = IF console = p THEN Nobody ELSE console
    /\ Goto(p, "gone")
    /\ UNCHANGED <<fileVars, sh, ex, localVars, clockVars, grantVars>>

Pausing(p) ==
    \/ PauseBegin(p) \/ PauseLock(p) \/ PauseStamp(p) \/ PauseWrite(p)
    \/ PauseEnd(p) \/ PauserGone(p)

\* A pauser is killed; the kernel closes its locks.
Crash(p) ==
    /\ "crash" \in Env /\ faults < MaxFaults
    /\ pc[p] \notin {"idle", "gone"}
    /\ faults' = faults + 1
    /\ sh' = sh \ {p}
    /\ ex' = IF ex = p THEN Nobody ELSE ex
    /\ console' = IF console = p THEN Nobody ELSE console
    /\ Goto(p, "gone")
    /\ Forget(p)
    /\ UNCHANGED <<fileVars, now, grantVars>>

----------------------------------------------------------------------------
(* rootdelay_reset_timer, in a handler or in the daemon                    *)

ResetBegin(r) ==
    /\ At(r, "idle")
    /\ seen' = [seen EXCEPT ![r] = now]
    /\ Grant(now)
    /\ Goto(r, "probe")
    /\ UNCHANGED <<lockfile, pauseTime, reset, disabled, resumed, initenv,
                   lockVars, start, found, wake, clockVars>>

\* rootdelay_paused, at the end of rootdelay_reset_timer
ResetProbe(r) ==
    /\ At(r, "probe")
    /\ \/ ~lockfile /\ Goto(r, "reset_end") /\ UNCHANGED ex
       \/ lockfile /\ Free /\ ex' = r /\ Goto(r, "unprobe")
       \/ lockfile /\ ~Free /\ Goto(r, "reset_write") /\ UNCHANGED ex
    /\ UNCHANGED <<fileVars, sh, console, localVars, clockVars, grantVars>>

ResetUnprobe(r) ==
    /\ At(r, "unprobe")
    /\ ex' = Nobody
    /\ Goto(r, "reset_end")
    /\ UNCHANGED <<fileVars, sh, console, localVars, clockVars, grantVars>>

ResetWrite(r) ==
    /\ At(r, "reset_write")
    /\ reset' = seen[r]
    /\ Goto(r, "reset_end")
    /\ UNCHANGED <<lockfile, pauseTime, deadline, disabled, resumed, initenv,
                   lockVars, localVars, clockVars, grantVars>>

ResetEnd(r) ==
    /\ At(r, "reset_end")
    /\ IF r = Delayd
       THEN SleepUntil /\ Goto(r, "sleep") /\ UNCHANGED <<start, found, seen>>
       ELSE Forget(r) /\ Goto(r, "gone")
    /\ UNCHANGED <<fileVars, lockVars, clockVars, grantVars>>

Resetting(r) ==
    ResetProbe(r) \/ ResetUnprobe(r) \/ ResetWrite(r) \/ ResetEnd(r)

\* sysinit_found of the mount handler: waiting any longer is pointless.
GiveUp ==
    /\ "giveup" \in Env /\ deadline # None
    /\ deadline' = 0 /\ owed' = 0 /\ cap' = 0
    /\ UNCHANGED <<lockfile, pauseTime, reset, disabled, resumed, initenv,
                   lockVars, pc, localVars, clockVars>>

----------------------------------------------------------------------------
(* The loop of rootdelayd                                                  *)

\* disabled, or rootdelay_paused
Loop ==
    /\ At(Delayd, "loop")
    /\ \/ /\ disabled \/ (lockfile /\ ~Free)
          /\ SleepUntil /\ Goto(Delayd, "sleep") /\ UNCHANGED ex
       \/ /\ ~disabled /\ ~lockfile
          /\ Goto(Delayd, "check") /\ UNCHANGED <<wake, ex>>
       \/ /\ ~disabled /\ lockfile /\ Free
          /\ ex' = Delayd /\ Goto(Delayd, "unlock") /\ UNCHANGED wake
    /\ UNCHANGED <<fileVars, sh, console, start, found, seen, clockVars, grantVars>>

\* Mutant: the descriptor stays open, and with it the lock.
UnlockKeeps ==
    /\ At(Delayd, "unlock")
    /\ Goto(Delayd, "check")
    /\ UNCHANGED <<fileVars, lockVars, localVars, clockVars, grantVars>>

\* rootdelay_paused closes its descriptor.
Unlock ==
    /\ At(Delayd, "unlock")
    /\ ex' = Nobody
    /\ Goto(Delayd, "check")
    /\ UNCHANGED <<fileVars, sh, console, localVars, clockVars, grantVars>>

\* Mutant: a pause left behind is not looked for.
CheckForgets ==
    /\ At(Delayd, "check")
    /\ \/ initenv = "empty" /\ Goto(Delayd, "nap") /\ UNCHANGED seen
       \/ /\ initenv = "plain"
          /\ seen' = [seen EXCEPT ![Delayd] = now] /\ Goto(Delayd, "timer")
    /\ UNCHANGED <<fileVars, lockVars, start, found, wake, clockVars, grantVars>>

\* A pause left behind, the wait for the cmdline service, current_seconds.
Check ==
    /\ At(Delayd, "check")
    /\ \/ pauseTime # None /\ Goto(Delayd, "fin") /\ UNCHANGED seen
       \/ pauseTime = None /\ initenv = "empty" /\ Goto(Delayd, "nap") /\ UNCHANGED seen
       \/ /\ pauseTime = None /\ initenv = "plain"
          /\ seen' = [seen EXCEPT ![Delayd] = now] /\ Goto(Delayd, "timer")
    /\ UNCHANGED <<fileVars, lockVars, start, found, wake, clockVars, grantVars>>

\* The boot parameter rdshell asks for a shell at once.
Emergency ==
    /\ At(Delayd, "check") /\ pauseTime = None /\ initenv = "rdshell"
    /\ disabled' = TRUE
    /\ Goto(Delayd, "emergency")
    /\ UNCHANGED <<lockfile, pauseTime, reset, deadline, resumed, initenv,
                   lockVars, localVars, clockVars, grantVars>>

EmergencyShell ==
    /\ At(Delayd, "emergency") /\ console = Nobody
    /\ console' = Delayd
    /\ Goto(Delayd, "shell")
    /\ UNCHANGED <<fileVars, sh, ex, localVars, clockVars, grantVars>>

\* The deadline is read, or set in the first iteration.
Timer ==
    /\ At(Delayd, "timer")
    /\ IF deadline = None
       THEN Grant(seen[Delayd]) ELSE UNCHANGED <<deadline, grantVars>>
    /\ found' = [found EXCEPT ![Delayd] = deadline']
    /\ Goto(Delayd, "decide")
    /\ UNCHANGED <<lockfile, pauseTime, reset, disabled, resumed, initenv,
                   lockVars, start, seen, wake, clockVars>>

\* Mutant: off by one.
OverdueSoon == found[Delayd] <= seen[Delayd] + 1

Overdue == found[Delayd] <= seen[Delayd]

\* The time is up: give up on the resume device first.
DecideResume ==
    /\ At(Delayd, "decide") /\ Overdue /\ ~resumed
    /\ resumed' = TRUE
    /\ Grant(seen[Delayd])
    /\ Goto(Delayd, "probe")
    /\ UNCHANGED <<lockfile, pauseTime, reset, disabled, initenv, lockVars,
                   localVars, clockVars>>

\* The time is up, or a message may be due, or there is nothing to say.
Decide ==
    /\ At(Delayd, "decide")
    /\ \/ Overdue /\ resumed /\ Goto(Delayd, "expire") /\ UNCHANGED wake
       \/ ~Overdue /\ Goto(Delayd, "message") /\ UNCHANGED wake
       \/ ~Overdue /\ SleepUntil /\ Goto(Delayd, "sleep")
    /\ UNCHANGED <<fileVars, lockVars, start, found, seen, clockVars, grantVars>>

\* show_waiting_message under the console lock
ShowMessage ==
    /\ At(Delayd, "message") /\ console = Nobody
    /\ SleepUntil
    /\ Goto(Delayd, "sleep")
    /\ UNCHANGED <<fileVars, lockVars, start, found, seen, clockVars, grantVars>>

\* timeout_expired under the console lock
Expire ==
    /\ At(Delayd, "expire") /\ console = Nobody
    /\ console' = Delayd
    /\ disabled' = TRUE
    /\ Goto(Delayd, "shell")
    /\ UNCHANGED <<lockfile, pauseTime, reset, deadline, resumed, initenv, sh, ex,
                   localVars, clockVars, grantVars>>

\* The shell ends; a bad exit status ends the daemon (set -e).
ShellExit ==
    /\ At(Delayd, "shell")
    /\ console' = Nobody
    /\ Goto(Delayd, "loop") \/ Goto(Delayd, "gone")
    /\ UNCHANGED <<fileVars, sh, ex, localVars, clockVars, grantVars>>

Wake ==
    /\ \/ At(Delayd, "sleep") /\ now >= wake
       \/ At(Delayd, "nap")
    /\ Goto(Delayd, "loop")
    /\ UNCHANGED <<fileVars, lockVars, localVars, clockVars, grantVars>>

Daemon ==
    \/ Loop \/ Unlock \/ Check \/ Emergency \/ EmergencyShell \/ Timer
    \/ DecideResume \/ Decide \/ ShowMessage \/ Expire \/ Wake \/ Finalize(Delayd) \/ Resetting(Delayd)

----------------------------------------------------------------------------
\* The cmdline service writes /.initrd/initenv with the boot parameters.
Cmdline ==
    /\ initenv = "empty"
    /\ initenv' \in {"plain"} \cup (Env \cap {"rdshell"})
    /\ UNCHANGED <<lockfile, pauseTime, reset, deadline, disabled, resumed,
                   lockVars, pc, localVars, clockVars, grantVars>>

\* The places where a process may stay for a second or more: the steps of a
\* script between two of them take less than the clock can tell.
Lasting ==
    {"idle", "busy", "gone", "sleep", "nap", "message", "expire", "emergency",
     "shell"}

Busy == {p \in Pauser : pc[p] = "busy"}

Tick ==
    /\ now < MaxTime /\ \A x \in Proc : pc[x] \in Lasting
    /\ now' = now + 1
    /\ owed' = IF owed # 0 /\ Busy # {} THEN owed + 1 ELSE owed
    /\ cap' = IF cap # 0 /\ pauseTime # None THEN cap + 1 ELSE cap
    /\ UNCHANGED <<fileVars, lockVars, pc, localVars, faults>>

Next ==
    \/ \E p \in Pauser : Pausing(p) \/ Finalize(p) \/ Crash(p)
    \/ \E r \in Resetter : ResetBegin(r) \/ Resetting(r)
    \/ Daemon \/ ShellExit \/ GiveUp \/ Cmdline \/ Tick

Spec == Init /\ [][Next]_vars

\* Every script goes on, paused commands end, the cmdline service runs and
\* time passes.  Nobody has to start a pause, leave the shell or give up.
Fairness ==
    /\ WF_vars(Daemon) /\ WF_vars(Cmdline) /\ WF_vars(Tick)
    /\ \A p \in Pauser : WF_vars(Pausing(p) /\ pc[p] # "idle") /\ WF_vars(Finalize(p))
    /\ \A r \in Resetter : WF_vars(Resetting(r))

FairSpec == Spec /\ Fairness

----------------------------------------------------------------------------
(* Properties.  owed is the end of the waiting time as the users see it:   *)
(* ROOTDELAY seconds from the start or the last reset, and one more for    *)
(* every second in which a paused command ran.  cap also counts the        *)
(* seconds in which only pause.time was left of a pause.                   *)

Short ==
    {"fin", "fin_read", "fin_reset", "fin_count", "fin_set", "fin_end",
     "fin_close", "lock", "stamp", "write", "done", "probe", "unprobe",
     "reset_write", "reset_end", "loop", "unlock", "check", "timer", "decide"}

\* Every variable keeps its type, and no file holds a time in the future.
TypeOK ==
    /\ lockfile \in BOOLEAN /\ disabled \in BOOLEAN /\ resumed \in BOOLEAN
    /\ initenv \in {"empty", "plain", "rdshell"}
    /\ now \in Nat /\ pauseTime \in {None} \cup (0 .. now)
    /\ reset \in {None} \cup (0 .. now)
    /\ deadline \in {None} \cup Nat
    /\ sh \subseteq Pauser /\ ex \in Proc \cup {Nobody}
    /\ console \in Finalizer \cup {Nobody}
    /\ pc \in [Proc -> Lasting \cup Short]
    /\ start \in [Proc -> 0 .. now] /\ seen \in [Proc -> 0 .. now]
    /\ found \in [Proc -> Nat]
    /\ wake \in Nat /\ faults \in 0 .. MaxFaults
    /\ owed \in Nat /\ cap \in Nat

\* The deadline once the pause that is noted in pause.time has been counted.
Effective ==
    IF pauseTime = None THEN deadline ELSE deadline + (now - pauseTime)

\* A pause never costs waiting time: every second that a paused command runs
\* is added to the deadline, however many pauses overlap, whoever counts them
\* and wherever a pauser is killed.
NotShortened == deadline # None => owed <= Effective

\* No second of a pause is counted twice, unless a process is killed after it
\* has moved the deadline and before it removes pause.time.
NotProlonged ==
    faults = 0 /\ deadline # None /\ (\A x \in Finalizer : pc[x] # "fin_end")
      => Effective <= cap

\* The daemon decides that the time has expired only when all that is owed
\* has passed.
NoEarlyExpiry == At(Delayd, "expire") => owed <= now

\* Nobody asks for a new period and no resume device is waited for.
NoResets == Resetter = {} /\ ~Resume /\ "giveup" \notin Env

FinLocked ==
    {"fin_read", "fin_reset", "fin_count", "fin_set", "fin_end", "fin_close"}

\* Who counts a pause holds the lock alone, who is paused shares it.
LockInv ==
    /\ ex # Nobody => sh = {}
    /\ \A x \in Finalizer : pc[x] \in FinLocked \cup {"unlock"} => ex = x
    /\ \A p \in Pauser : pc[p] \in {"stamp", "write", "busy"} => p \in sh

QuietInv ==
    /\ reset = None /\ resumed
    /\ \A x \in Finalizer :
         pc[x] \notin {"fin_reset", "probe", "unprobe", "reset_write", "reset_end"}

\* pause.time exists while a paused command runs, and it is written in the
\* second in which it was found missing.
PauseInv ==
    /\ \A p \in Pauser : pc[p] = "busy" => pauseTime # None
    /\ \A p \in Pauser :
         pc[p] = "write" => seen[p] = now /\ pauseTime \in {None, now}

\* What a process that counts a pause knows stays true until it is done.
CountInv ==
    /\ \A x \in Finalizer :
         /\ pc[x] \in {"fin_count", "fin_set"} =>
              pauseTime # None /\ start[x] = pauseTime
         /\ pc[x] = "fin_set" =>
              /\ deadline > 0 /\ now > start[x]
              /\ found[x] = deadline + (now - start[x])
         /\ pc[x] = "fin_end" /\ deadline # None => owed <= deadline
    /\ deadline # None => deadline > 0

\* What the daemon has read stays good enough until it decides.
DecideInv ==
    /\ pc[Delayd] \in {"timer", "decide"} =>
         seen[Delayd] = now /\ pauseTime \in {None, now}
    /\ pc[Delayd] = "decide" => owed <= found[Delayd]

\* Between a move of the deadline and the removal of pause.time the deadline
\* itself is within what was granted; and something was granted.
CapInv ==
    faults = 0 /\ deadline # None =>
      cap > 0 /\ \A x \in Finalizer : pc[x] = "fin_end" => deadline <= cap

\* The inductive invariant behind NotShortened, NotProlonged and NoEarlyExpiry.
GrantInv ==
    /\ TypeOK /\ LockInv /\ QuietInv /\ PauseInv /\ CountInv /\ DecideInv /\ CapInv
    /\ NotShortened /\ NotProlonged /\ NoEarlyExpiry

\* After the mount handler has given up, the deadline stays 0 until somebody
\* asks for a new period.
ZeroKept == deadline # None /\ owed = 0 => deadline = 0

\* When the last paused command is over, pause.time does not stay behind,
\* even if the pauser was killed or could not get the lock.
PauseSettled == sh = {} ~> (pauseTime = None \/ sh # {} \/ disabled)

\* A deadline that has passed is acted upon: the shell opens, unless a pause
\* or a new period comes first.
ExpiryComes ==
    (deadline # None /\ deadline <= now)
      ~> (disabled \/ deadline > now \/ sh # {})

============================================================================
