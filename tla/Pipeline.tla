------------------------------ MODULE Pipeline ------------------------------
(***************************************************************************)
(* The feature pipeline: the steps named on the kernel's command line run  *)
(* one after the other, each by an event of the queue "pipeline" that the  *)
(* step before it creates.  A step that fails leaves its event to be tried *)
(* again, until pipe-retry pauses the queue.  Creating or removing an      *)
(* event, mounting the tmpfs and making a directory may fail, and the      *)
(* handler may be killed.  Steps count from 1 here and from 0 in the code. *)
(***************************************************************************)
EXTENDS Naturals, Sequences, FiniteSets

CONSTANTS
  MaxFaults,    \* bound: things that fail in the handler itself, and kills
  MaxUnpause,   \* bound: times the queue is unpaused by hand
  MaxStarts,    \* bound: times the service is started
  Unlimited     \* PIPE_RETRY is not set

VARIABLES
  pipe,      \* PIPELINE as steps [name, there, mounts, late, rcs], and PIPE_RETRY
  pevents,   \* the events of the queue: [id, s, prev, num]
  batch,     \* those the running handler has still to look at
  served,    \* the event handler_init() or handler_step() returned 0 for, until done_event()
  mntdir,    \* the tmpfs is mounted
  ready,     \* steps whose destdir is a mountpoint
  failed,    \* the files of step-failed: callnum -> count
  paused,    \* the queue is paused
  ended,     \* a step asked to stop, or there are no more
  begun,     \* the first step's event was created
  lost,      \* the event of a step that is not there was done without the next one
  tears,     \* times an event stayed that handler_step() had returned 0 for
  wins,      \* step -> times it ran with success
  losses,    \* step -> times it failed
  faults, unpauses, starts

eventVars == <<pevents, batch, served>>
countVars == <<failed, paused, wins, losses>>
pipeVars == <<pipe, eventVars, mntdir, ready, countVars, ended, begun, lost, tears, faults, unpauses, starts>>

PIPELINE == pipe.steps
Steps == DOMAIN PIPELINE
None == [id |-> 0, s |-> "none", prev |-> 0, num |-> 0]

\* make_event() and release_event(): a new file, however many say the same.
Event(s, prev, num) ==   \* prev 0: none
  LET e(i) == [id |-> i, s |-> s, prev |-> prev, num |-> num]
  IN e(CHOOSE i \in 1 .. Cardinality(pevents) + 1 : e(i) \notin pevents)

PipeStart(jobs) ==
  /\ pipe \in jobs
  /\ pevents = {} /\ batch = {} /\ served = None
  /\ mntdir = FALSE /\ ready = {} /\ failed = [c \in 0 .. Len(PIPELINE) |-> 0]
  /\ paused = FALSE /\ ended = FALSE /\ begun = FALSE /\ lost = FALSE /\ tears = 0
  /\ wins = [n \in Steps |-> 0] /\ losses = [n \in Steps |-> 0]
  /\ faults = 0 /\ unpauses = 0 /\ starts = 0

Fault == faults < MaxFaults /\ faults' = faults + 1

\* How often a step of this name comes before it.
pipe_callnum(n) == Cardinality({i \in 1 .. n - 1 : PIPELINE[i].name = PIPELINE[n].name})

\* The init script, at every start of the service.
pipe_init ==
  /\ starts < MaxStarts /\ starts' = starts + 1
  /\ pevents' = pevents \cup {Event("init", 0, 0)}
  /\ UNCHANGED <<pipe, batch, served, mntdir, ready, countVars, ended, begun, lost, tears, faults, unpauses>>

----------------------------------------------------------------------------
(* The handler.  ueventd looks at the pause only when it starts a batch. *)

StartBatch ==
  /\ ~paused /\ batch = {} /\ served = None /\ pevents # {}
  /\ batch' = pevents
  /\ UNCHANGED <<pipe, pevents, served, mntdir, ready, countVars, ended, begun, lost, tears, faults, unpauses, starts>>

\* The events of a kind one after the other, those of "init" first.
LookAt(e) == served = None /\ e \in batch /\ batch' = batch \ {e}
Return0(e) == served' = e
Return1 == UNCHANGED <<served, pevents>>

\* Mutant: the tmpfs may be there already.
HandlerInitAgain ==
  /\ \E e \in batch : e.s = "init" /\ LookAt(e) /\ Return0(e)
  /\ mntdir' = TRUE /\ begun' = TRUE /\ pevents' = pevents \cup {Event("step", 0, 1)}
  /\ UNCHANGED <<pipe, ready, countVars, ended, lost, tears, faults, unpauses, starts>>

\* handler_init(): once the tmpfs is mounted there is nothing to do, even if what
\* came after the mount failed the last time.
HandlerInit ==
  /\ \E e \in batch :
       /\ e.s = "init" /\ LookAt(e)
       /\ IF mntdir \/ PIPELINE = <<>> THEN Return0(e) /\ UNCHANGED <<pevents, mntdir, begun, faults>>
          ELSE \/ Fault /\ mntdir' \in BOOLEAN /\ Return1 /\ UNCHANGED begun
               \/ /\ mntdir' = TRUE /\ begun' = TRUE
                  /\ pevents' = pevents \cup {Event("step", 0, 1)} /\ Return0(e)
                  /\ UNCHANGED faults
  /\ UNCHANGED <<pipe, ready, countVars, ended, lost, tears, unpauses, starts>>

\* pipe_event() for the step behind e, at the end of handler_step().
Forward(e, prev) == \/ pevents' = pevents \cup {Event("step", prev, e.num + 1)} /\ Return0(e) /\ UNCHANGED faults
                    \/ Fault /\ Return1

\* No such step: the pipeline is over.
Nameless(n) == n \in Steps => PIPELINE[n].name = ""
StepOver(e) ==
  /\ Nameless(e.num)
  /\ ended' = TRUE /\ Return0(e)
  /\ UNCHANGED <<pevents, ready, countVars, lost, faults>>

\* Mutant: the step that is not there is passed on as the previous one.
StepIgnoredPrev(e) ==
  /\ ~Nameless(e.num) /\ ~PIPELINE[e.num].there
  /\ Return0(e) /\ pevents' = pevents \cup {Event("step", e.num, e.num + 1)}
  /\ UNCHANGED <<ready, countVars, ended, lost, faults>>

\* No executable for it: ignored, and the next one gets the step before.  Here the
\* result of pipe_event() is not looked at.
StepIgnored(e) ==
  /\ ~Nameless(e.num) /\ ~PIPELINE[e.num].there
  /\ Return0(e)
  /\ \/ pevents' = pevents \cup {Event("step", e.prev, e.num + 1)} /\ UNCHANGED <<lost, faults>>
     \/ Fault /\ lost' = TRUE /\ UNCHANGED pevents
  /\ UNCHANGED <<ready, countVars, ended>>

\* Its destination was mounted before: only the event is made again.
Present(e) == ~Nameless(e.num) /\ PIPELINE[e.num].there
StepSkipped(e) ==
  /\ Present(e) /\ e.num \in ready
  /\ Forward(e, e.num)
  /\ UNCHANGED <<ready, countVars, ended, lost>>

\* Its directories cannot be made.
StepNoDir(e) ==
  /\ Present(e) /\ e.num \notin ready /\ Fault /\ Return1
  /\ UNCHANGED <<ready, countVars, ended, lost>>

\* It runs: with success, with the exit status PIPE_RETCODE_STOP, or with another.
\* The step rootfs moves its predecessor's mount away before it stops the pipeline.
Runs(e, rc) == Present(e) /\ e.num \notin ready /\ rc \in PIPELINE[e.num].rcs
StepDone(e) ==
  /\ Runs(e, "ok")
  /\ wins' = [wins EXCEPT ![e.num] = IF @ < 2 THEN @ + 1 ELSE @]
  /\ ready' = IF PIPELINE[e.num].mounts THEN ready \cup {e.num} ELSE ready
  /\ Forward(e, e.num)
  /\ UNCHANGED <<failed, paused, losses, ended, lost>>
StepStops(e) ==
  /\ Runs(e, "stop")
  /\ ended' = TRUE /\ Return0(e) /\ ready' \in {ready, ready \ {e.prev}}
  /\ UNCHANGED <<pevents, countVars, lost, faults>>

\* Mutant: the failure before this one is compared with pipe-retry.
pipe_failedOld(c) == pipe.retry = Unlimited \/ failed[c] <= pipe.retry

\* pipe_failed(): all failures of the steps with this callnum, with the new one.
\* The pause may fail to be made.  A step that is "late" may have mounted its
\* destination when it fails; those of the features mount last.
pipe_failed(c) == pipe.retry = Unlimited \/ failed[c] + 1 <= pipe.retry
StepFails(e) ==
  LET c == pipe_callnum(e.num)
  IN /\ Runs(e, "fail") /\ Return1
     /\ ready' \in {ready, ready \ {e.prev}} \cup (IF PIPELINE[e.num].late THEN {ready \cup {e.num}} ELSE {})
     /\ IF pipe.retry = Unlimited THEN UNCHANGED <<failed, losses>>
        ELSE failed' = [failed EXCEPT ![c] = @ + 1] /\ losses' = [losses EXCEPT ![e.num] = @ + 1]
     /\ \/ paused' = (paused \/ ~pipe_failed(c)) /\ UNCHANGED faults
        \/ ~pipe_failed(c) /\ Fault /\ UNCHANGED paused
     /\ UNCHANGED <<ended, lost, wins>>

HandlerStep ==
  /\ \A e \in batch : e.s # "init"
  /\ \E e \in batch :
       /\ LookAt(e)
       /\ \/ StepOver(e) \/ StepIgnored(e) \/ StepSkipped(e) \/ StepNoDir(e)
          \/ StepDone(e) \/ StepStops(e) \/ StepFails(e)
  /\ UNCHANGED <<pipe, mntdir, begun, tears, unpauses, starts>>

\* Nothing more will be done with the event served; when it stays in the queue it
\* is served again.
Torn == tears' = IF served.s = "step" THEN tears + 1 ELSE tears
DoneEvent ==
  /\ served # None /\ served' = None
  /\ \/ pevents' = pevents \ {served} /\ UNCHANGED <<tears, faults>>
     \/ Fault /\ Torn /\ UNCHANGED pevents
  /\ UNCHANGED <<pipe, batch, mntdir, ready, countVars, ended, begun, lost, unpauses, starts>>

\* The handler is killed, between any two of its steps.
Kill ==
  /\ batch # {} \/ served # None
  /\ Fault /\ Torn /\ batch' = {} /\ served' = None
  /\ UNCHANGED <<pipe, pevents, mntdir, ready, countVars, ended, begun, lost, unpauses, starts>>

\* ueventctl unpause, by hand.
Unpause ==
  /\ paused /\ unpauses < MaxUnpause
  /\ unpauses' = unpauses + 1 /\ paused' = FALSE
  /\ UNCHANGED <<pipe, eventVars, mntdir, ready, failed, wins, losses, ended, begun, lost, tears, faults, starts>>

PipeHandler == StartBatch \/ HandlerInit \/ HandlerStep \/ DoneEvent
PipeStep == pipe_init \/ PipeHandler \/ Kill \/ Unpause

----------------------------------------------------------------------------
(* Properties *)

Tokens == {e \in pevents : e.s = "step"} \ {served}

\* "The feature calls the pipe elements one by one": from the first event on there
\* is exactly one event for a step until the end, whatever fails or is killed in
\* the handler, is tried again or is started twice, and none once it has ended.
\* The exception are events that handler_step() is through with and that stay,
\* because rm fails or the handler is killed before it: each is one more at most.
PipeOneByOne ==
  LET one == IF begun /\ ~ended /\ ~lost THEN 1 ELSE 0
  IN Cardinality(Tokens) \in one .. one + tears

\* "... and passes them the results of the previous elements": a step is called
\* when all steps before it that exist have succeeded, or have mounted their
\* result before they failed, with the result of the last of them, even when an
\* event was left behind; if none was, what a step has mounted it never mounts
\* again.
PipeResults ==
  /\ \A e \in Tokens :
       LET before == {i \in Steps : i < e.num /\ PIPELINE[i].there}
       IN /\ \A i \in before : wins[i] > 0 \/ PIPELINE[i].late
          /\ IF before = {} THEN e.prev = 0 ELSE e.prev \in before /\ \A i \in before : i <= e.prev
  /\ tears = 0 => \A n \in Steps : PIPELINE[n].mounts => wins[n] <= 1

\* "pipe-retry determines how many times a certain step can fail": one time more
\* and the queue is paused, and every unpausing, and every pause that cannot be
\* made, allows one more.  Steps with the same callnum share their count.  An
\* event that was left behind may fail in the same batch as another.
PipeRetries ==
  pipe.retry # Unlimited =>
    /\ tears = 0 => \A n \in Steps : losses[n] <= pipe.retry + 1 + unpauses + faults
    /\ paused => \E c \in DOMAIN failed : failed[c] > pipe.retry

\* The pipeline comes to its end, or to a pause nobody lifts, if it may not fail
\* for ever and nothing failed between the mount and the first event.
PipeRests == pipe.retry = Unlimited \/ ended \/ paused \/ lost \/ (~begun /\ \A e \in pevents : e.s # "init")

============================================================================
