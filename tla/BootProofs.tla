---------------------------- MODULE BootProofs -----------------------------
(***************************************************************************)
(* Proofs about three parts of the image: the handlers of the pipeline and *)
(* of the members of arrays, and halt.                                     *)
(***************************************************************************)
EXTENDS Pipeline, MemberTimeout, Halt, FiniteSetTheorems, TLAPS

\* Zenon with thirty seconds for a leaf, unless the leaf names another prover.
USE ZenonT(30)

----------------------------------------------------------------------------
(* The feature pipeline *)

\* The queue and the batch: an event for a step comes after the first one, and
\* what a handler has returned 0 for it does not look at again.
QueueInv ==
  /\ \A e \in pevents : e.s \in {"init", "step"} /\ (e.s = "step" => begun /\ e.num \in Nat)
  /\ batch \subseteq pevents /\ served \notin batch
  /\ served = None \/ served \in pevents
  /\ begun => mntdir
  /\ ended \/ lost => begun

\* How many events for steps there are.
One == IF begun /\ ~ended /\ ~lost THEN 1 ELSE 0
CountInv == IsFiniteSet(Tokens) /\ tears \in Nat /\ Cardinality(Tokens) \in One .. One + tears

\* What handler_step() does with the event it looks at.
Kept(e) == UNCHANGED <<pevents, served, ended, lost>>
Forwarded(e) ==
  /\ served' = e /\ UNCHANGED <<ended, lost>>
  /\ \E p : pevents' = pevents \cup {Event("step", p, e.num + 1)}
Over(e) == served' = e /\ pevents' = pevents /\ (ended' \/ lost') /\ (ended => ended') /\ (lost => lost')

\* One of the outcomes of handler_step().
StepOutcome(e) == \/ StepOver(e) \/ StepIgnored(e) \/ StepSkipped(e) \/ StepNoDir(e)
                  \/ StepDone(e) \/ StepStops(e) \/ StepFails(e)

\* handler_step() keeps the event, replaces it, or ends the pipeline.
LEMMA Effects ==
  ASSUME NEW e, StepOutcome(e)
  PROVE  Kept(e) \/ Forwarded(e) \/ Over(e)
<1>1. CASE StepOver(e) \/ StepStops(e)
  BY <1>1 DEF StepOver, StepStops, Return0, Over
<1>2. CASE StepIgnored(e)
  BY <1>2 DEF StepIgnored, Return0, Forwarded, Over
<1>3. CASE StepSkipped(e) \/ StepDone(e)
  BY <1>3 DEF StepSkipped, StepDone, Forward, Return0, Return1, Forwarded, Kept
<1>4. CASE StepNoDir(e) \/ StepFails(e)
  BY <1>4 DEF StepNoDir, StepFails, Return1, Kept
<1> QED BY <1>1, <1>2, <1>3, <1>4 DEF StepOutcome

\* No event is none.
LEMMA NoneKind == None.s # "step" /\ None.s # "init"
BY SMTT(30) DEF None

\* The event handler_step() looks at is one of a step.
LEMMA LooksAtStep ==
  ASSUME QueueInv, NEW e, LookAt(e), \A x \in batch : x.s # "init"
  PROVE  e \in Tokens /\ e \in pevents /\ e.s = "step" /\ e.num \in Nat /\ begun /\ served = None
<1>1. e \in pevents /\ served = None /\ e.s = "step"
  BY DEF QueueInv, LookAt
<1>2. e # None
  BY <1>1, NoneKind
<1> QED BY <1>1, <1>2 DEF QueueInv, Tokens

\* What handler_init() does: nothing, or it creates the first event.
LEMMA InitEffects ==
  ASSUME HandlerInit
  PROVE  \E e : /\ LookAt(e) /\ e.s = "init" /\ (mntdir => mntdir') /\ UNCHANGED <<ended, lost, tears, ready, wins, pipe>>
                /\ \/ pevents' = pevents /\ UNCHANGED begun /\ served' \in {served, e}
                   \/ /\ ~mntdir /\ mntdir' /\ begun' /\ served' = e
                      /\ pevents' = pevents \cup {Event("step", 0, 1)}
<1>1. PICK e \in batch :
        /\ e.s = "init" /\ LookAt(e)
        /\ IF mntdir \/ PIPELINE = <<>> THEN Return0(e) /\ UNCHANGED <<pevents, mntdir, begun, faults>>
           ELSE \/ Fault /\ mntdir' \in BOOLEAN /\ Return1 /\ UNCHANGED begun
                \/ /\ mntdir' = TRUE /\ begun' = TRUE
                   /\ pevents' = pevents \cup {Event("step", 0, 1)} /\ Return0(e)
                   /\ UNCHANGED faults
  BY DEF HandlerInit
<1>2. UNCHANGED <<ended, lost, tears, ready, wins, pipe>>
  BY DEF HandlerInit, countVars
<1>3. CASE mntdir \/ PIPELINE = <<>>
  BY <1>1, <1>2, <1>3, SMTT(30) DEF Return0
<1>4. CASE ~(mntdir \/ PIPELINE = <<>>)
  <2>1. CASE Fault /\ mntdir' \in BOOLEAN /\ Return1 /\ UNCHANGED begun
    BY <1>1, <1>2, <1>4, <2>1 DEF Return1
  <2>2. CASE mntdir' = TRUE /\ begun' = TRUE /\ pevents' = pevents \cup {Event("step", 0, 1)} /\ Return0(e)
    BY <1>1, <1>2, <1>4, <2>2 DEF Return0
  <2> QED BY <1>1, <1>4, <2>1, <2>2
<1> QED BY <1>3, <1>4

\* Every step of the service keeps queue and batch in order.
LEMMA QueueKept ==
  ASSUME QueueInv, [PipeStep]_pipeVars
  PROVE  QueueInv'
<1>1. CASE pipe_init
  <2>1. pevents' = pevents \cup {Event("init", 0, 0)} /\ UNCHANGED <<batch, served, begun, mntdir, ended, lost>>
    BY <1>1 DEF pipe_init
  <2>2. Event("init", 0, 0).s = "init"
    BY DEF Event
  <2> QED BY <2>1, <2>2 DEF QueueInv
<1>2. CASE StartBatch
  <2>1. batch' = pevents /\ served = None /\ UNCHANGED <<pevents, served, begun, mntdir, ended, lost>>
    BY <1>2 DEF StartBatch
  <2>2. None \notin pevents
    BY NoneKind DEF QueueInv
  <2> QED BY <2>1, <2>2 DEF QueueInv
<1>3. CASE HandlerInit
  <2>1. PICK e : /\ LookAt(e) /\ (mntdir => mntdir') /\ UNCHANGED <<ended, lost>>
                 /\ \/ pevents' = pevents /\ UNCHANGED begun /\ served' \in {served, e}
                    \/ /\ mntdir' /\ begun' /\ served' = e
                       /\ pevents' = pevents \cup {Event("step", 0, 1)}
    BY <1>3, InitEffects
  <2>2. batch' = batch \ {e} /\ served = None /\ e \in pevents
    BY <2>1 DEF LookAt, QueueInv
  <2>3. batch' \subseteq pevents' /\ served' \notin batch' /\ (served' = None \/ served' \in pevents')
    BY <2>1, <2>2 DEF QueueInv
  <2>4. \A x \in pevents' : x.s \in {"init", "step"} /\ (x.s = "step" => begun' /\ x.num \in Nat)
    <3>1. 1 \in Nat
      BY SMTT(30)
    <3>2. Event("step", 0, 1).s = "step" /\ Event("step", 0, 1).num = 1
      BY DEF Event
    <3>3. \A x \in pevents : x.s \in {"init", "step"} /\ (x.s = "step" => begun' /\ x.num \in Nat)
      BY <2>1, SMTT(30) DEF QueueInv
    <3>4. CASE pevents' = pevents
      BY <3>3, <3>4
    <3>5. CASE pevents' = pevents \cup {Event("step", 0, 1)} /\ begun'
      BY <3>1, <3>2, <3>3, <3>5
    <3> QED BY <2>1, <3>4, <3>5
  <2>5. (begun' => mntdir') /\ (ended' \/ lost' => begun')
    BY <2>1, SMTT(30) DEF QueueInv
  <2> QED BY <2>3, <2>4, <2>5 DEF QueueInv
<1>4. CASE HandlerStep
  <2>1. PICK e \in batch : LookAt(e) /\ StepOutcome(e)
    BY <1>4 DEF HandlerStep, StepOutcome
  <2>2. UNCHANGED <<begun, mntdir>> /\ \A x \in batch : x.s # "init"
    BY <1>4 DEF HandlerStep
  <2>3. e \in pevents /\ e.num \in Nat /\ begun /\ served = None /\ batch' = batch \ {e}
    BY <2>1, <2>2, LooksAtStep DEF LookAt
  <2>4. Kept(e) \/ Forwarded(e) \/ Over(e)
    BY <2>1, Effects
  <2>5. batch' \subseteq pevents' /\ served' \notin batch' /\ (served' = None \/ served' \in pevents')
    BY <2>3, <2>4 DEF QueueInv, Kept, Forwarded, Over
  <2>6. \A x \in pevents' : x.s \in {"init", "step"} /\ (x.s = "step" => begun' /\ x.num \in Nat)
    <3>1. e.num + 1 \in Nat
      BY <2>3, SMTT(30)
    <3>2. \A p : Event("step", p, e.num + 1).s = "step" /\ Event("step", p, e.num + 1).num = e.num + 1
      BY DEF Event
    <3>3. \A x \in pevents : x.s \in {"init", "step"} /\ (x.s = "step" => begun' /\ x.num \in Nat)
      BY <2>2 DEF QueueInv
    <3>4. CASE pevents' = pevents
      BY <3>3, <3>4
    <3>5. CASE \E p : pevents' = pevents \cup {Event("step", p, e.num + 1)}
      BY <2>2, <2>3, <3>1, <3>2, <3>3, <3>5
    <3> QED BY <2>4, <3>4, <3>5 DEF Kept, Forwarded, Over
  <2> QED BY <2>2, <2>3, <2>5, <2>6 DEF QueueInv
<1>5. CASE DoneEvent \/ Kill
  <2>1. /\ served' = None /\ UNCHANGED <<begun, mntdir, ended, lost>> /\ batch' \in {batch, {}}
        /\ pevents' = pevents \/ (pevents' = pevents \ {served} /\ batch' = batch)
    BY <1>5 DEF DoneEvent, Kill
  <2>2. None \notin pevents
    BY NoneKind DEF QueueInv
  <2>3. batch' \subseteq pevents' /\ served' \notin batch'
    BY <2>1, <2>2 DEF QueueInv
  <2> QED BY <2>1, <2>3 DEF QueueInv
<1>6. CASE Unpause \/ UNCHANGED pipeVars
  <2>1. UNCHANGED <<pevents, batch, served, begun, mntdir, ended, lost>>
    BY <1>6 DEF Unpause, pipeVars, eventVars
  <2> QED BY <2>1 DEF QueueInv
<1> QED BY <1>1, <1>2, <1>3, <1>4, <1>5, <1>6 DEF PipeStep, PipeHandler

\* An element taken off a finite set, and another one put in.
LEMMA Exchange ==
  ASSUME NEW T, IsFiniteSet(T), NEW e \in T, NEW f
  PROVE  /\ Cardinality(T) \in Nat /\ IsFiniteSet(T \ {e}) /\ Cardinality(T \ {e}) = Cardinality(T) - 1
         /\ IsFiniteSet((T \ {e}) \cup {f}) /\ Cardinality((T \ {e}) \cup {f}) \in 1 .. Cardinality(T)
<1>1. Cardinality(T) \in Nat
  BY FS_CardinalityType
<1>2. IsFiniteSet(T \ {e}) /\ Cardinality(T \ {e}) = Cardinality(T) - 1
  BY FS_RemoveElement
<1>3. Cardinality(T \ {e}) \in Nat
  BY <1>2, FS_CardinalityType
<1> DEFINE U == T \ {e}
<1>4. IsFiniteSet(U \cup {f}) /\ Cardinality(U \cup {f}) = IF f \in U THEN Cardinality(U) ELSE Cardinality(U) + 1
  BY <1>2, FS_AddElement
<1>5. U \cup {f} # {}
  OBVIOUS
<1>6. Cardinality(U \cup {f}) # 0 /\ Cardinality(U \cup {f}) \in Nat
  BY <1>4, <1>5, FS_EmptySet, FS_CardinalityType
<1>7. Cardinality(U \cup {f}) \in 1 .. Cardinality(T)
  BY <1>1, <1>2, <1>3, <1>4, <1>6, SMTT(30)
<1> QED BY <1>1, <1>2, <1>4, <1>7

\* What changes neither the events of steps nor how many there should be.
LEMMA CountStays ==
  ASSUME CountInv, Tokens' = Tokens, UNCHANGED <<begun, ended, lost, tears>>
  PROVE  CountInv'
BY DEF CountInv, One

\* The event that was served stays in the queue.
LEMMA TearCounts ==
  ASSUME QueueInv, CountInv, Torn, served' = None, UNCHANGED <<pevents, begun, ended, lost>>
  PROVE  CountInv'
<1>1. CASE served.s = "step"
  <2>1. served \in pevents /\ None.s # "step"
    BY <1>1, NoneKind DEF QueueInv
  <2>2. Tokens' = Tokens \cup {served}
    BY <1>1, <2>1 DEF Tokens
  <2>3. tears' = tears + 1 /\ One' = One
    BY <1>1 DEF Torn, One
  <2>4. /\ IsFiniteSet(Tokens \cup {served})
        /\ Cardinality(Tokens \cup {served}) \in {Cardinality(Tokens), Cardinality(Tokens) + 1}
    BY FS_AddElement DEF CountInv
  <2>5. tears \in Nat /\ One \in Nat /\ Cardinality(Tokens) \in Nat /\ Cardinality(Tokens) \in One .. One + tears
    BY FS_CardinalityType, SMTT(30) DEF CountInv, One
  <2>6. tears + 1 \in Nat /\ Cardinality(Tokens \cup {served}) \in One .. One + (tears + 1)
    BY <2>4, <2>5, SMTT(30)
  <2> QED BY <2>2, <2>3, <2>4, <2>6 DEF CountInv
<1>2. CASE served.s # "step"
  <2>1. Tokens' = Tokens /\ tears' = tears
    BY <1>2, NoneKind DEF Tokens, Torn
  <2> QED BY <2>1, CountStays
<1> QED BY <1>1, <1>2

\* handler_step() leaves one event for the one it took, or none at the end.
LEMMA NextTokens ==
  ASSUME QueueInv, NEW e, LookAt(e), \A x \in batch : x.s # "init"
  PROVE  /\ Kept(e) => Tokens' = Tokens
         /\ Forwarded(e) => \E f : Tokens' = (Tokens \ {e}) \cup {f} /\ f.num = e.num + 1
         /\ Over(e) => Tokens' = Tokens \ {e}
<1>1. e \in Tokens /\ e \in pevents /\ e.s = "step" /\ e.num \in Nat /\ served = None
  BY LooksAtStep
<1>2. \A x \in pevents : x # None
  BY NoneKind DEF QueueInv
<1>3. ASSUME Kept(e) PROVE Tokens' = Tokens
  BY <1>3 DEF Tokens, Kept
<1>4. ASSUME Forwarded(e) PROVE \E f : Tokens' = (Tokens \ {e}) \cup {f} /\ f.num = e.num + 1
  <2>1. PICK p : pevents' = pevents \cup {Event("step", p, e.num + 1)}
    BY <1>4 DEF Forwarded
  <2> DEFINE f == Event("step", p, e.num + 1)
  <2>2. f.s = "step" /\ f.num = e.num + 1
    BY DEF Event
  <2>3. e.num + 1 # e.num
    BY <1>1, SMTT(30)
  <2>4. pevents' = pevents \cup {f} /\ served' = e /\ f # e
    BY <1>4, <2>1, <2>2, <2>3 DEF Forwarded
  <2> HIDE DEF f
  <2>5. Tokens' = (Tokens \ {e}) \cup {f}
    BY <1>1, <1>2, <2>2, <2>4 DEF Tokens
  <2> QED BY <2>2, <2>5
<1>5. ASSUME Over(e) PROVE Tokens' = Tokens \ {e}
  BY <1>1, <1>2, <1>5 DEF Tokens, Over
<1> QED BY <1>3, <1>4, <1>5

\* And so their number stays within its bounds.
LEMMA StepCounts ==
  ASSUME QueueInv, CountInv, HandlerStep
  PROVE  CountInv'
<1>1. PICK e \in batch : LookAt(e) /\ StepOutcome(e)
  BY DEF HandlerStep, StepOutcome
<1>2. UNCHANGED <<begun, tears>> /\ \A x \in batch : x.s # "init"
  BY DEF HandlerStep
<1>3. e \in Tokens
  BY <1>1, <1>2, LooksAtStep
<1>4. IsFiniteSet(Tokens) /\ tears \in Nat /\ Cardinality(Tokens) \in One .. One + tears
  BY DEF CountInv
<1>5. CASE Kept(e)
  <2>1. Tokens' = Tokens
    BY <1>1, <1>2, <1>5, NextTokens
  <2> QED BY <1>2, <1>5, <2>1, CountStays DEF Kept
<1>6. CASE Forwarded(e)
  <2>1. PICK f : Tokens' = (Tokens \ {e}) \cup {f}
    BY <1>1, <1>2, <1>6, NextTokens
  <2>2. IsFiniteSet(Tokens') /\ Cardinality(Tokens') \in 1 .. Cardinality(Tokens) /\ Cardinality(Tokens) \in Nat
    BY <1>3, <1>4, <2>1, Exchange
  <2>3. One' = One /\ tears' = tears
    BY <1>2, <1>6 DEF One, Forwarded
  <2>4. One \in {0, 1}
    BY DEF One
  <2>5. Cardinality(Tokens') \in One .. One + tears
    BY <1>4, <2>2, <2>4, SMTT(30)
  <2> QED BY <1>4, <2>2, <2>3, <2>5 DEF CountInv
<1>7. CASE Over(e)
  <2>1. Tokens' = Tokens \ {e}
    BY <1>1, <1>2, <1>7, NextTokens
  <2>2. IsFiniteSet(Tokens') /\ Cardinality(Tokens') = Cardinality(Tokens) - 1 /\ Cardinality(Tokens) \in Nat
    BY <1>3, <1>4, <2>1, Exchange
  <2>3. Cardinality(Tokens) # 0
    BY <1>3, <1>4, FS_EmptySet
  <2>4. One' = 0 /\ One \in {0, 1} /\ tears' = tears
    BY <1>2, <1>7 DEF One, Over
  <2>5. Cardinality(Tokens') \in 0 .. 0 + tears
    BY <1>4, <2>2, <2>3, <2>4, SMTT(30)
  <2> QED BY <1>4, <2>2, <2>4, <2>5 DEF CountInv
<1> QED BY <1>1, <1>5, <1>6, <1>7, Effects

\* handler_init() creates the first event only when there is none.
LEMMA InitCounts ==
  ASSUME QueueInv, CountInv, HandlerInit
  PROVE  CountInv'
<1>1. PICK e : /\ LookAt(e) /\ e.s = "init" /\ UNCHANGED <<ended, lost, tears>>
               /\ \/ pevents' = pevents /\ UNCHANGED begun /\ served' \in {served, e}
                  \/ /\ ~mntdir /\ begun' /\ served' = e
                     /\ pevents' = pevents \cup {Event("step", 0, 1)}
  BY InitEffects
<1>2. served = None /\ None.s # "step" /\ e.s # "step"
  BY <1>1, NoneKind DEF LookAt
<1>3. CASE pevents' = pevents /\ UNCHANGED begun /\ served' \in {served, e}
  <2>1. Tokens' = Tokens
    BY <1>2, <1>3 DEF Tokens
  <2> QED BY <1>1, <1>3, <2>1, CountStays
<1>4. CASE ~mntdir /\ begun' /\ served' = e /\ pevents' = pevents \cup {Event("step", 0, 1)}
  <2> DEFINE f == Event("step", 0, 1)
  <2>1. ~begun /\ ~ended /\ ~lost
    BY <1>4 DEF QueueInv
  <2>2. \A x \in pevents : x.s # "step"
    BY <2>1 DEF QueueInv
  <2>3. f.s = "step"
    BY DEF Event
  <2> HIDE DEF f
  <2>4. Tokens' = {f}
    <3>1. pevents' = pevents \cup {f} /\ served' = e
      BY <1>4 DEF f
    <3> QED BY <1>2, <2>2, <2>3, <3>1 DEF Tokens
  <2>5. One' = 1 /\ tears' = tears
    BY <1>1, <1>4, <2>1 DEF One
  <2>6. IsFiniteSet(Tokens') /\ Cardinality(Tokens') = 1
    BY <2>4, FS_Singleton
  <2>7. tears \in Nat /\ 1 \in 1 .. 1 + tears
    BY SMTT(30) DEF CountInv
  <2> QED BY <2>5, <2>6, <2>7 DEF CountInv
<1> QED BY <1>1, <1>3, <1>4

\* Every step of the service, of the handler and of the one who unpauses the queue.
LEMMA CountKept ==
  ASSUME QueueInv, CountInv, [PipeStep]_pipeVars
  PROVE  CountInv'
<1>1. CASE pipe_init
  <2>1. pevents' = pevents \cup {Event("init", 0, 0)} /\ UNCHANGED <<served, begun, ended, lost, tears>>
    BY <1>1 DEF pipe_init
  <2>2. Event("init", 0, 0).s = "init"
    BY DEF Event
  <2>3. Tokens' = Tokens
    BY <2>1, <2>2 DEF Tokens
  <2> QED BY <2>1, <2>3, CountStays
<1>2. CASE DoneEvent
  <2>1. served' = None /\ UNCHANGED <<begun, ended, lost>>
    BY <1>2 DEF DoneEvent
  <2>2. CASE pevents' = pevents \ {served} /\ UNCHANGED tears
    <3>1. Tokens' = Tokens
      BY <2>1, <2>2, NoneKind DEF Tokens
    <3> QED BY <2>1, <2>2, <3>1, CountStays
  <2>3. CASE Torn /\ UNCHANGED pevents
    BY <2>1, <2>3, TearCounts
  <2> QED BY <1>2, <2>2, <2>3 DEF DoneEvent
<1>3. CASE Kill
  BY <1>3, TearCounts DEF Kill
<1>4. CASE StartBatch \/ Unpause \/ UNCHANGED pipeVars
  <2>1. UNCHANGED <<pevents, served, begun, ended, lost, tears>>
    BY <1>4 DEF StartBatch, Unpause, pipeVars, eventVars
  <2>2. Tokens' = Tokens
    BY <2>1 DEF Tokens
  <2> QED BY <2>1, <2>2, CountStays
<1> QED BY <1>1, <1>2, <1>3, <1>4, InitCounts, StepCounts DEF PipeStep, PipeHandler

\* At the start the queue is empty.
LEMMA QueueInitial ==
  ASSUME NEW Jobs, PipeStart(Jobs)
  PROVE  QueueInv /\ CountInv
<1>1. pevents = {} /\ batch = {} /\ served = None /\ begun = FALSE /\ ended = FALSE /\ lost = FALSE /\ tears = 0
  BY DEF PipeStart
<1>2. Tokens = {} /\ One = 0
  BY <1>1 DEF Tokens, One
<1>3. 0 \in Nat /\ 0 \in 0 .. 0 + 0
  BY SMTT(30)
<1> QED BY <1>1, <1>2, <1>3, FS_EmptySet DEF QueueInv, CountInv

\* "The feature calls the pipe elements one by one" (README.md of the feature):
\* for pipelines of every length and any number of faults, kills, retries and
\* starts of the service there is one event for a step, and one more at most for
\* every event that was served and could not be removed.
THEOREM PipeCallsOneByOne ==
  ASSUME NEW Jobs
  PROVE  PipeStart(Jobs) /\ [][PipeStep]_pipeVars => []PipeOneByOne
<1>1. CountInv => PipeOneByOne
  BY DEF CountInv, One, PipeOneByOne
<1>2. PipeStart(Jobs) => QueueInv /\ CountInv
  BY QueueInitial
<1> QED BY <1>1, <1>2, QueueKept, CountKept, PTL

\* The steps that exist before number n, and the result that n is given.
Before(n) == {i \in Steps : i < n /\ PIPELINE[i].there}
Result(i) == wins[i] > 0 \/ PIPELINE[i].late
Proper(e) ==
  /\ e.num \in Nat \ {0}
  /\ \A i \in Before(e.num) : Result(i)
  /\ IF Before(e.num) = {} THEN e.prev = 0 ELSE e.prev \in Before(e.num) /\ \A i \in Before(e.num) : i <= e.prev

\* Every event has its results, what is mounted is one, and no step has run
\* before the first event.
ProperInv ==
  /\ Steps \subseteq Nat \ {0}
  /\ wins \in [Steps -> 0 .. 2]
  /\ \A e \in pevents : e.s = "step" => Proper(e)
  /\ \A n \in ready : n \in Steps /\ Result(n)
  /\ ~begun => \A n \in Steps : wins[n] = 0

\* A step that mounts is ready as soon as it has succeeded, until the pipeline
\* has gone on to the next one.
OnceInv ==
  tears = 0 =>
    /\ \A n \in Steps : PIPELINE[n].mounts => wins[n] <= 1
    /\ \A e \in Tokens : \A n \in Steps : n >= e.num /\ PIPELINE[n].mounts /\ n \notin ready => wins[n] = 0

\* Results stay results.
LEMMA ProperNext ==
  ASSUME ProperInv, UNCHANGED pipe, wins' \in [Steps -> 0 .. 2],
         \A i \in Steps : wins[i] > 0 => wins'[i] > 0,
         \A x \in pevents' : x.s = "step" => x \in pevents \/ Proper(x)',
         \A n \in ready' : n \in ready \/ (n \in Steps /\ Result(n)'),
         ~begun' => ~begun /\ wins' = wins
  PROVE  ProperInv'
<1>1. Steps' = Steps /\ PIPELINE' = PIPELINE
  BY DEF Steps, PIPELINE
<1>2. \A i \in Steps : Result(i) => Result(i)'
  BY <1>1 DEF Result
<1>3. \A n : Before(n)' = Before(n) /\ Before(n) \subseteq Steps
  BY <1>1 DEF Before
<1>4. \A x : Proper(x) => Proper(x)'
  BY <1>2, <1>3 DEF Proper
<1>5. \A x \in pevents' : x.s = "step" => Proper(x)'
  BY <1>4 DEF ProperInv
<1>6. \A n \in ready' : n \in Steps /\ Result(n)'
  BY <1>2 DEF ProperInv
<1>7. ~begun' => \A n \in Steps : wins'[n] = 0
  BY DEF ProperInv
<1> QED BY <1>1, <1>5, <1>6, <1>7 DEF ProperInv

\* The event of the next step, after a step that exists has its result.
LEMMA Succeeds ==
  ASSUME Steps \subseteq Nat \ {0}, NEW e, Proper(e), e.num \in Steps, PIPELINE[e.num].there, UNCHANGED pipe,
         Result(e.num)', \A i \in Steps : wins[i] > 0 => wins'[i] > 0, NEW f, f.num = e.num + 1, f.prev = e.num
  PROVE  Proper(f)'
<1> DEFINE n == e.num
<1>1. Steps' = Steps /\ PIPELINE' = PIPELINE
  BY DEF Steps, PIPELINE
<1>2. n \in Nat \ {0} /\ Steps \subseteq Nat
  BY DEF Proper
<1>3. \A i \in Steps : i < n + 1 <=> (i < n \/ i = n)
  BY <1>2, SMTT(30)
<1>4. Before(n + 1) = Before(n) \cup {n} /\ Before(n) \subseteq Steps
  BY <1>3 DEF Before
<1>5. Before(n + 1)' = Before(n) \cup {n}
  BY <1>1, <1>4 DEF Before
<1>6. \A i \in Before(n) : Result(i)'
  BY <1>1, <1>4 DEF Proper, Result
<1>7. \A i \in Before(n) \cup {n} : i <= n
  BY <1>2, <1>4, SMTT(30) DEF Before
<1>8. n + 1 \in Nat \ {0}
  BY <1>2, SMTT(30)
<1> QED BY <1>5, <1>6, <1>7, <1>8 DEF Proper

\* The event of the next step, after one that does not exist.
LEMMA Passes ==
  ASSUME Steps \subseteq Nat \ {0}, NEW e, Proper(e), e.num \in Steps, ~PIPELINE[e.num].there,
         UNCHANGED <<pipe, wins>>, NEW f, f.num = e.num + 1, f.prev = e.prev
  PROVE  Proper(f)'
<1> DEFINE n == e.num
<1>1. Steps' = Steps /\ PIPELINE' = PIPELINE
  BY DEF Steps, PIPELINE
<1>2. n \in Nat \ {0} /\ Steps \subseteq Nat
  BY DEF Proper
<1>3. \A i \in Steps : i < n + 1 <=> (i < n \/ i = n)
  BY <1>2, SMTT(30)
<1>4. Before(n + 1) = Before(n)
  BY <1>3 DEF Before
<1>5. Before(n + 1)' = Before(n) /\ \A i : Result(i)' <=> Result(i)
  BY <1>1, <1>4 DEF Before, Result
<1>6. n + 1 \in Nat \ {0}
  BY <1>2, SMTT(30)
<1> QED BY <1>5, <1>6 DEF Proper

\* A step that runs with success has won once more.
LEMMA Wins ==
  ASSUME ProperInv, NEW e, StepDone(e)
  PROVE  /\ e.num \in Steps /\ PIPELINE[e.num].there /\ e.num \notin ready
         /\ wins' \in [Steps -> 0 .. 2] /\ wins'[e.num] > 0 /\ \A i \in Steps : i # e.num => wins'[i] = wins[i]
         /\ wins[e.num] = 0 => wins'[e.num] <= 1
         /\ ready' = IF PIPELINE[e.num].mounts THEN ready \cup {e.num} ELSE ready
<1> DEFINE n == e.num
           w == IF wins[n] < 2 THEN wins[n] + 1 ELSE wins[n]
<1>1. n \in Steps /\ PIPELINE[n].there /\ n \notin ready
  BY DEF StepDone, Runs, Present, Nameless
<1>2. wins \in [Steps -> 0 .. 2] /\ wins[n] \in 0 .. 2
  BY <1>1 DEF ProperInv
<1>3. w \in 0 .. 2 /\ w > 0 /\ (wins[n] = 0 => w <= 1)
  BY <1>2, SMTT(30)
<1>4. wins' = [wins EXCEPT ![n] = w]
  BY DEF StepDone
<1>5. ready' = IF PIPELINE[n].mounts THEN ready \cup {n} ELSE ready
  BY DEF StepDone
<1> HIDE DEF w, n
<1>6. wins' \in [Steps -> 0 .. 2] /\ wins'[n] = w /\ \A i \in Steps : i # n => wins'[i] = wins[i]
  BY <1>1, <1>2, <1>3, <1>4
<1> QED BY <1>1, <1>3, <1>5, <1>6 DEF n

\* handler_step() passes results on.
LEMMA StepProper ==
  ASSUME QueueInv, ProperInv, HandlerStep
  PROVE  ProperInv'
<1>1. PICK e \in batch : LookAt(e) /\ StepOutcome(e)
  BY DEF HandlerStep, StepOutcome
<1>2. UNCHANGED <<pipe, begun>> /\ \A x \in batch : x.s # "init"
  BY DEF HandlerStep
<1>3. e \in pevents /\ e.s = "step" /\ begun
  BY <1>1, <1>2, LooksAtStep
<1>4. Proper(e) /\ Steps \subseteq Nat \ {0} /\ wins \in [Steps -> 0 .. 2]
  BY <1>3 DEF ProperInv
<1>5. PIPELINE' = PIPELINE
  BY <1>2 DEF PIPELINE
<1>6. CASE StepOver(e) \/ StepStops(e) \/ StepNoDir(e) \/ StepFails(e)
  <2>1. UNCHANGED <<pevents, wins>>
    BY <1>6 DEF StepOver, StepStops, StepNoDir, StepFails, Return1, countVars
  <2>2. \A n \in ready' : n \in ready \/ (n = e.num /\ PIPELINE[n].late /\ n \in Steps)
    BY <1>6 DEF StepOver, StepStops, StepNoDir, StepFails, Runs, Present, Nameless
  <2>3. \A n \in ready' : n \in ready \/ (n \in Steps /\ Result(n)')
    BY <1>5, <2>2 DEF Result
  <2> QED BY <1>2, <1>3, <1>4, <2>1, <2>3, ProperNext
<1>7. CASE StepIgnored(e)
  <2>1. UNCHANGED <<ready, wins>> /\ e.num \in Steps /\ ~PIPELINE[e.num].there
    BY <1>7 DEF StepIgnored, Nameless, countVars
  <2>f. PICK f : f = Event("step", e.prev, e.num + 1)
    OBVIOUS
  <2>2. pevents' = pevents \/ pevents' = pevents \cup {f}
    BY <2>f, <1>7 DEF StepIgnored
  <2>3. f.num = e.num + 1 /\ f.prev = e.prev
    BY <2>f DEF Event
  <2>4. Proper(f)'
    BY <1>2, <1>4, <2>1, <2>3, Passes
  <2>5. \A x \in pevents' : x.s = "step" => x \in pevents \/ Proper(x)'
    BY <2>2, <2>4
  <2> QED BY <1>2, <1>3, <1>4, <2>1, <2>5, ProperNext
<1>8. CASE StepSkipped(e)
  <2>1. UNCHANGED <<ready, wins>> /\ e.num \in Steps /\ PIPELINE[e.num].there /\ e.num \in ready
    BY <1>8 DEF StepSkipped, Present, Nameless, countVars
  <2>2. Result(e.num)'
    BY <1>5, <2>1 DEF ProperInv, Result
  <2>f. PICK f : f = Event("step", e.num, e.num + 1)
    OBVIOUS
  <2>3. pevents' = pevents \/ pevents' = pevents \cup {f}
    BY <2>f, <1>8 DEF StepSkipped, Forward, Return1
  <2>4. f.num = e.num + 1 /\ f.prev = e.num
    BY <2>f DEF Event
  <2>5. Proper(f)'
    BY <1>2, <1>4, <2>1, <2>2, <2>4, Succeeds
  <2>6. \A x \in pevents' : x.s = "step" => x \in pevents \/ Proper(x)'
    BY <2>3, <2>5
  <2> QED BY <1>2, <1>3, <1>4, <2>1, <2>6, ProperNext
<1>9. CASE StepDone(e)
  <2>1. /\ e.num \in Steps /\ PIPELINE[e.num].there
        /\ wins' \in [Steps -> 0 .. 2] /\ wins'[e.num] > 0 /\ \A i \in Steps : i # e.num => wins'[i] = wins[i]
        /\ ready' = IF PIPELINE[e.num].mounts THEN ready \cup {e.num} ELSE ready
    BY <1>9, Wins
  <2>2. Result(e.num)' /\ \A i \in Steps : wins[i] > 0 => wins'[i] > 0
    BY <2>1 DEF Result
  <2>f. PICK f : f = Event("step", e.num, e.num + 1)
    OBVIOUS
  <2>3. pevents' = pevents \/ pevents' = pevents \cup {f}
    BY <2>f, <1>9 DEF StepDone, Forward, Return1
  <2>4. f.num = e.num + 1 /\ f.prev = e.num
    BY <2>f DEF Event
  <2>5. Proper(f)'
    BY <1>2, <1>4, <2>1, <2>2, <2>4, Succeeds
  <2>6. \A x \in pevents' : x.s = "step" => x \in pevents \/ Proper(x)'
    BY <2>3, <2>5
  <2>7. \A n \in ready' : n \in ready \/ (n \in Steps /\ Result(n)')
    BY <2>1, <2>2
  <2> QED BY <1>2, <1>3, <2>1, <2>2, <2>6, <2>7, ProperNext
<1> QED BY <1>1, <1>6, <1>7, <1>8, <1>9 DEF StepOutcome

\* Every step of the service keeps the events' results.
LEMMA ProperKept ==
  ASSUME QueueInv, ProperInv, [PipeStep]_pipeVars
  PROVE  ProperInv'
<1>1. wins \in [Steps -> 0 .. 2]
  BY DEF ProperInv
<1>2. CASE pipe_init
  <2>1. pevents' = pevents \cup {Event("init", 0, 0)} /\ UNCHANGED <<pipe, begun, ready, wins>>
    BY <1>2 DEF pipe_init, countVars
  <2>2. Event("init", 0, 0).s = "init"
    BY DEF Event
  <2>3. \A x \in pevents' : x.s = "step" => x \in pevents
    BY <2>1, <2>2
  <2> QED BY <1>1, <2>1, <2>3, ProperNext
<1>3. CASE HandlerInit
  <2>1. UNCHANGED <<pipe, ready, wins>>
    BY <1>3, InitEffects
  <2>f. PICK f : f = Event("step", 0, 1)
    OBVIOUS
  <2>2. (pevents' = pevents /\ UNCHANGED begun) \/ (begun' /\ pevents' = pevents \cup {f})
    BY <1>3, <2>f, InitEffects
  <2>3. ~begun' => ~begun
    BY <2>2, SMTT(30)
  <2>4. f.num = 1 /\ f.prev = 0
    BY <2>f DEF Event
  <2>5. Before(1)' = {} /\ 1 \in Nat \ {0}
    <3>1. Steps' = Steps
      BY <2>1 DEF Steps, PIPELINE
    <3>2. 1 \in Nat \ {0} /\ \A i \in Steps : ~(i < 1)
      BY SMTT(30) DEF ProperInv
    <3> QED BY <3>1, <3>2 DEF Before
  <2>6. Proper(f)'
    BY <2>4, <2>5 DEF Proper
  <2>7. \A x \in pevents' : x.s = "step" => x \in pevents \/ Proper(x)'
    BY <2>2, <2>6
  <2> QED BY <1>1, <2>1, <2>3, <2>7, ProperNext
<1>4. CASE StartBatch \/ DoneEvent \/ Kill \/ Unpause \/ UNCHANGED pipeVars
  <2>1. UNCHANGED <<pipe, begun, ready, wins>>
    BY <1>4 DEF StartBatch, DoneEvent, Kill, Unpause, pipeVars, countVars
  <2>2. pevents' \subseteq pevents
    BY <1>4 DEF StartBatch, DoneEvent, Kill, Unpause, pipeVars, eventVars
  <2> QED BY <1>1, <2>1, <2>2, ProperNext
<1> QED BY <1>2, <1>3, <1>4, StepProper DEF PipeStep, PipeHandler

\* As long as no event was left behind there is one at most.
LEMMA OnlyToken ==
  ASSUME CountInv, tears = 0, NEW e \in Tokens
  PROVE  Tokens = {e}
<1>1. IsFiniteSet(Tokens) /\ Cardinality(Tokens) \in One .. One + 0 /\ One \in {0, 1}
  BY DEF CountInv, One
<1>2. Cardinality(Tokens) # 0 /\ Cardinality(Tokens) \in Nat
  BY <1>1, FS_EmptySet, FS_CardinalityType
<1>3. Cardinality(Tokens) = 1
  BY <1>1, <1>2, SMTT(30)
<1>4. \E x : Tokens = {x}
  BY <1>1, <1>3, FS_Singleton
<1> QED BY <1>4

\* What neither runs a step nor makes an event for one.
LEMMA OnceStays ==
  ASSUME OnceInv, UNCHANGED <<pipe, wins, ready>>, tears' = 0 => tears = 0 /\ Tokens' \subseteq Tokens
  PROVE  OnceInv'
<1>1. Steps' = Steps /\ PIPELINE' = PIPELINE
  BY DEF Steps, PIPELINE
<1> QED BY <1>1 DEF OnceInv

\* handler_step() mounts nothing again.
LEMMA StepOnce ==
  ASSUME QueueInv, CountInv, ProperInv, OnceInv, HandlerStep
  PROVE  OnceInv'
<1>1. PICK e \in batch : LookAt(e) /\ StepOutcome(e)
  BY DEF HandlerStep, StepOutcome
<1>2. UNCHANGED <<pipe, tears>> /\ \A x \in batch : x.s # "init"
  BY DEF HandlerStep
<1>3. SUFFICES ASSUME tears = 0 PROVE OnceInv'
  BY <1>2 DEF OnceInv
<1>4. e \in Tokens /\ e \in pevents /\ e.s = "step" /\ e.num \in Nat
  BY <1>1, <1>2, LooksAtStep
<1>5. Tokens = {e} /\ Proper(e)
  BY <1>3, <1>4, OnlyToken DEF ProperInv
<1>6. Steps' = Steps /\ PIPELINE' = PIPELINE
  BY <1>2 DEF Steps, PIPELINE
<1>7. Steps \subseteq Nat
  BY DEF ProperInv
<1>8. /\ \A n \in Steps : PIPELINE[n].mounts => wins[n] <= 1
      /\ \A n \in Steps : n >= e.num /\ PIPELINE[n].mounts /\ n \notin ready => wins[n] = 0
  BY <1>3, <1>4 DEF OnceInv
\* The events there are now are for this step or a later one.
<1>9. \A x \in Tokens' : x.num \in Nat /\ \A n \in Steps : n >= x.num => n >= e.num /\ (x # e => n # e.num)
  <2>1. Kept(e) \/ Forwarded(e) \/ Over(e)
    BY <1>1, Effects
  <2>2. Tokens' \subseteq {e} \/ \E f : Tokens' = {f} /\ f.num = e.num + 1
    <3>1. CASE Kept(e)
      BY <1>1, <1>2, <1>5, <3>1, NextTokens
    <3>2. CASE Forwarded(e)
      <4>1. PICK f : Tokens' = (Tokens \ {e}) \cup {f} /\ f.num = e.num + 1
        BY <1>1, <1>2, <3>2, NextTokens
      <4>2. Tokens' = {f}
        BY <1>5, <4>1
      <4> QED BY <4>1, <4>2
    <3>3. CASE Over(e)
      <4>1. Tokens' = Tokens \ {e}
        BY <1>1, <1>2, <3>3, NextTokens
      <4> QED BY <1>5, <4>1
    <3> QED BY <2>1, <3>1, <3>2, <3>3
  <2>3. CASE Tokens' \subseteq {e}
    BY <1>4, <2>3
  <2>4. CASE \E f : Tokens' = {f} /\ f.num = e.num + 1
    BY <1>4, <1>7, <2>4, SMTT(30)
  <2> QED BY <2>2, <2>3, <2>4
<1>10. CASE StepDone(e)
  <2>1. /\ e.num \in Steps /\ e.num \notin ready
        /\ \A i \in Steps : i # e.num => wins'[i] = wins[i]
        /\ wins[e.num] = 0 => wins'[e.num] <= 1
        /\ ready' = IF PIPELINE[e.num].mounts THEN ready \cup {e.num} ELSE ready
    BY <1>10, Wins
  <2>2. e.num >= e.num
    BY <1>4, SMTT(30)
  <2>3. PIPELINE[e.num].mounts => wins'[e.num] <= 1 /\ e.num \in ready'
    BY <1>8, <2>1, <2>2
  <2>4. \A n \in Steps : PIPELINE[n].mounts => wins'[n] <= 1
    BY <1>8, <2>1, <2>3
  <2>5. \A n \in Steps : n >= e.num /\ PIPELINE[n].mounts /\ n \notin ready' => wins'[n] = 0
    BY <1>8, <2>1, <2>3
  <2> QED BY <1>6, <1>9, <2>4, <2>5 DEF OnceInv
<1>11. CASE ~StepDone(e)
  <2>1. UNCHANGED wins
    BY <1>1, <1>11 DEF StepOutcome, StepOver, StepIgnored, StepSkipped, StepNoDir, StepStops, StepFails, countVars
  <2>2. ready \ {e.prev} \subseteq ready'
    BY <1>1, <1>11 DEF StepOutcome, StepOver, StepIgnored, StepSkipped, StepNoDir, StepStops, StepFails
  <2>3. \A n \in Steps : n >= e.num => n # e.prev
    <3>1. e.prev = 0 \/ e.prev \in Before(e.num)
      BY <1>5 DEF Proper
    <3>2. e.num # 0 /\ \A n \in Steps : n # 0
      BY <1>5 DEF Proper, ProperInv
    <3>3. CASE e.prev = 0
      BY <3>2, <3>3
    <3>4. CASE e.prev \in Before(e.num)
      BY <1>4, <1>7, <3>4, SMTT(30) DEF Before
    <3> QED BY <3>1, <3>3, <3>4
  <2>4. \A n \in Steps : n >= e.num /\ PIPELINE[n].mounts /\ n \notin ready' => wins'[n] = 0
    BY <1>8, <2>1, <2>2, <2>3
  <2> QED BY <1>6, <1>8, <1>9, <2>1, <2>4 DEF OnceInv
<1> QED BY <1>10, <1>11

\* Every step of the service.
LEMMA OnceKept ==
  ASSUME QueueInv, CountInv, ProperInv, OnceInv, [PipeStep]_pipeVars
  PROVE  OnceInv'
<1>1. CASE pipe_init
  <2>1. pevents' = pevents \cup {Event("init", 0, 0)} /\ UNCHANGED <<pipe, served, ready, wins, tears>>
    BY <1>1 DEF pipe_init, countVars
  <2>2. Event("init", 0, 0).s = "init"
    BY DEF Event
  <2>3. Tokens' = Tokens
    BY <2>1, <2>2 DEF Tokens
  <2> QED BY <2>1, <2>3, OnceStays
<1>2. CASE HandlerInit
  <2>1. PICK e : /\ LookAt(e) /\ e.s = "init" /\ UNCHANGED <<tears, ready, wins, pipe>>
                 /\ (pevents' = pevents /\ served' \in {served, e}) \/ ~mntdir
    BY <1>2, InitEffects
  <2>2. CASE pevents' = pevents /\ served' \in {served, e}
    <3>1. served = None /\ e.s # "step"
      BY <2>1 DEF LookAt
    <3>2. Tokens' = Tokens
      BY <2>2, <3>1, NoneKind DEF Tokens
    <3> QED BY <2>1, <3>2, OnceStays
  <2>3. CASE ~mntdir
    <3>1. \A n \in Steps : wins[n] = 0
      BY <2>3 DEF QueueInv, ProperInv
    <3>2. Steps' = Steps /\ PIPELINE' = PIPELINE
      BY <2>1 DEF Steps, PIPELINE
    <3> QED BY <2>1, <3>1, <3>2 DEF OnceInv
  <2> QED BY <2>1, <2>2, <2>3
<1>3. CASE DoneEvent \/ Kill
  <2>1. UNCHANGED <<pipe, wins, ready>> /\ served' = None /\ pevents' \subseteq pevents
    BY <1>3 DEF DoneEvent, Kill, countVars
  <2>2. tears \in Nat /\ tears + 1 # 0
    BY SMTT(30) DEF CountInv
  <2>3. CASE Torn
    <3>1. tears' = 0 => tears = 0 /\ served.s # "step"
      BY <2>2, <2>3 DEF Torn
    <3>2. served.s # "step" => Tokens' \subseteq Tokens
      BY <2>1 DEF Tokens
    <3> QED BY <2>1, <3>1, <3>2, OnceStays
  <2>4. CASE pevents' = pevents \ {served} /\ UNCHANGED tears
    <3>1. Tokens' \subseteq Tokens
      BY <2>4 DEF Tokens
    <3> QED BY <2>1, <2>4, <3>1, OnceStays
  <2> QED BY <1>3, <2>3, <2>4 DEF DoneEvent, Kill
<1>4. CASE StartBatch \/ Unpause \/ UNCHANGED pipeVars
  <2>1. UNCHANGED <<pipe, pevents, served, wins, ready, tears>>
    BY <1>4 DEF StartBatch, Unpause, pipeVars, eventVars, countVars
  <2>2. Tokens' = Tokens
    BY <2>1 DEF Tokens
  <2> QED BY <2>1, <2>2, OnceStays
<1> QED BY <1>1, <1>2, <1>3, <1>4, StepOnce DEF PipeStep, PipeHandler

\* "... and passes them the results of the previous elements": for pipelines of
\* every length and whatever is left behind a step is called when every step
\* before it that exists has its result, with the result of the last one; and
\* while no event is left behind no step mounts its result twice.
THEOREM PipePassesResults ==
  ASSUME NEW Jobs, \A j \in Jobs : DOMAIN j.steps \subseteq Nat \ {0}
  PROVE  PipeStart(Jobs) /\ [][PipeStep]_pipeVars => []PipeResults
<1>1. PipeStart(Jobs) => QueueInv /\ CountInv
  BY QueueInitial
<1>2. PipeStart(Jobs) => ProperInv /\ OnceInv
  <2> SUFFICES ASSUME PipeStart(Jobs) PROVE ProperInv /\ OnceInv
    OBVIOUS
  <2>1. Steps \subseteq Nat \ {0}
    BY DEF PipeStart, Steps, PIPELINE
  <2>2. wins = [n \in Steps |-> 0] /\ pevents = {} /\ ready = {}
    BY DEF PipeStart
  <2>3. wins \in [Steps -> 0 .. 2] /\ \A n \in Steps : wins[n] = 0 /\ wins[n] <= 1
    BY <2>2, SMTT(30)
  <2> QED BY <2>1, <2>2, <2>3 DEF ProperInv, OnceInv
<1>3. ProperInv /\ OnceInv => PipeResults
  <2> SUFFICES ASSUME ProperInv, OnceInv PROVE PipeResults
    OBVIOUS
  <2>1. \A e \in Tokens : Proper(e)
    BY DEF ProperInv, Tokens
  <2> QED BY <2>1 DEF OnceInv, PipeResults, Proper, Before, Result
<1> QED BY <1>1, <1>2, <1>3, QueueKept, CountKept, ProperKept, OnceKept, PTL

\* pipe-retry: a step's failures are among those of its callnum, and as long as
\* no event was left behind each callnum has one failure more than pipe-retry,
\* the unpausings and the faults allow only while the queue is paused for it;
\* the handler then looks at no step until the batch is over.
Allowed == pipe.retry + unpauses + faults
RetryInv ==
  /\ Len(PIPELINE) \in Nat /\ Steps = 1 .. Len(PIPELINE)
  /\ failed \in [0 .. Len(PIPELINE) -> Nat] /\ losses \in [Steps -> Nat]
  /\ unpauses \in Nat /\ faults \in Nat /\ paused \in BOOLEAN
  /\ tears = 0 /\ paused => \A e \in batch : e.s # "step"
  /\ pipe.retry # Unlimited =>
       /\ pipe.retry \in Nat
       /\ \A n \in Steps : losses[n] <= failed[pipe_callnum(n)]
       /\ tears = 0 => \A c \in DOMAIN failed : failed[c] <= Allowed + 1 /\ (~paused => failed[c] <= Allowed)
       /\ paused => \E c \in DOMAIN failed : failed[c] > pipe.retry

\* A step's callnum is at most the number of steps.
LEMMA Callnum ==
  ASSUME NEW k \in Nat, NEW n \in 1 .. k
  PROVE  pipe_callnum(n) \in 0 .. k
<1> DEFINE T == {i \in 1 .. n - 1 : PIPELINE[i].name = PIPELINE[n].name}
<1>1. IsFiniteSet(1 .. n - 1) /\ Cardinality(1 .. n - 1) \in {0, n - 1}
  BY FS_Interval, SMTT(30)
<1>2. IsFiniteSet(T) /\ Cardinality(T) <= Cardinality(1 .. n - 1)
  BY <1>1, FS_Subset
<1>3. Cardinality(T) \in Nat
  BY <1>2, FS_CardinalityType
<1> QED BY <1>1, <1>2, <1>3, SMTT(30) DEF pipe_callnum

\* What leaves the counts and the pause as they are; faults allow more.
LEMMA RetryStays ==
  ASSUME RetryInv, UNCHANGED <<pipe, failed, losses, paused, unpauses>>, faults' \in {faults, faults + 1},
         tears' = 0 => tears = 0 /\ (paused => \A e \in batch' : e \in batch)
  PROVE  RetryInv'
<1>1. PIPELINE' = PIPELINE /\ Steps' = Steps /\ \A n : pipe_callnum(n)' = pipe_callnum(n)
  BY DEF PIPELINE, Steps, pipe_callnum
<1>2. faults' \in Nat
  BY SMTT(30) DEF RetryInv
<1>3. pipe.retry # Unlimited /\ tears = 0 =>
        \A c \in DOMAIN failed : failed[c] <= Allowed' + 1 /\ (~paused => failed[c] <= Allowed')
  <2> SUFFICES ASSUME pipe.retry # Unlimited, tears = 0, NEW c \in DOMAIN failed
               PROVE  failed[c] <= Allowed' + 1 /\ (~paused => failed[c] <= Allowed')
    OBVIOUS
  <2>1. /\ failed[c] \in Nat /\ pipe.retry \in Nat /\ unpauses \in Nat /\ faults \in Nat
        /\ failed[c] <= pipe.retry + unpauses + faults + 1
        /\ ~paused => failed[c] <= pipe.retry + unpauses + faults
    BY DEF RetryInv, Allowed
  <2>2. Allowed' = pipe.retry + unpauses + faults'
    BY DEF Allowed
  <2> QED BY <2>1, <2>2, SMTT(30)
<1>4. tears' = 0 /\ paused' => \A e \in batch' : e.s # "step"
  BY DEF RetryInv
<1> QED BY <1>1, <1>2, <1>3, <1>4 DEF RetryInv

\* The failure is counted for the step and for its callnum.
LEMMA Counted ==
  ASSUME RetryInv, NEW n \in Steps, UNCHANGED pipe,
         failed' = [failed EXCEPT ![pipe_callnum(n)] = @ + 1], losses' = [losses EXCEPT ![n] = @ + 1],
         pipe.retry # Unlimited
  PROVE  /\ failed' \in [0 .. Len(PIPELINE) -> Nat] /\ losses' \in [Steps -> Nat] /\ DOMAIN failed' = DOMAIN failed
         /\ pipe_callnum(n) \in DOMAIN failed /\ failed'[pipe_callnum(n)] = failed[pipe_callnum(n)] + 1
         /\ \A d \in DOMAIN failed : d # pipe_callnum(n) => failed'[d] = failed[d]
         /\ \A m \in Steps : losses'[m] <= failed'[pipe_callnum(m)]
<1> DEFINE c == pipe_callnum(n)
<1>1. /\ pipe.retry \in Nat /\ failed \in [0 .. Len(PIPELINE) -> Nat] /\ losses \in [Steps -> Nat]
      /\ \A m \in Steps : losses[m] <= failed[pipe_callnum(m)]
  BY DEF RetryInv
<1>2. c \in DOMAIN failed /\ \A m \in Steps : pipe_callnum(m) \in DOMAIN failed
  BY Callnum DEF RetryInv
<1>c. c = pipe_callnum(n) /\ failed' = [failed EXCEPT ![c] = @ + 1]
  OBVIOUS
<1> HIDE DEF c
<1>3. c \in 0 .. Len(PIPELINE) /\ failed[c] \in Nat /\ losses[n] \in Nat
  BY <1>1, <1>2
<1>4. failed[c] + 1 \in Nat /\ losses[n] + 1 \in Nat
  BY <1>3, SMTT(30)
<1>5. failed' \in [0 .. Len(PIPELINE) -> Nat] /\ DOMAIN failed' = DOMAIN failed
  BY <1>c, <1>1, <1>3, <1>4
<1>6. losses' \in [Steps -> Nat]
  BY <1>1, <1>4
<1>7. failed'[c] = failed[c] + 1 /\ \A d \in DOMAIN failed : d # c => failed'[d] = failed[d]
  BY <1>c, <1>1, <1>2
<1>8. \A m \in Steps : losses'[m] = IF m = n THEN losses[m] + 1 ELSE losses[m]
  BY <1>1
<1>9. \A m \in Steps : losses'[m] <= failed'[pipe_callnum(m)]
  <2> SUFFICES ASSUME NEW m \in Steps PROVE losses'[m] <= failed'[pipe_callnum(m)]
    OBVIOUS
  <2>1. losses[m] \in Nat /\ failed[pipe_callnum(m)] \in Nat /\ losses[m] <= failed[pipe_callnum(m)]
    BY <1>1, <1>2
  <2>2. m = n => pipe_callnum(m) = c
    BY DEF c
  <2>3. failed'[pipe_callnum(m)] >= failed[pipe_callnum(m)]
    BY <1>2, <1>7, <2>1, SMTT(30)
  <2>4. CASE m = n
    BY <1>7, <1>8, <2>1, <2>2, <2>4, SMTT(30)
  <2>5. CASE m # n
    BY <1>2, <1>5, <1>8, <2>1, <2>3, <2>5, SMTT(30)
  <2> QED BY <2>4, <2>5
<1> QED BY <1>2, <1>5, <1>6, <1>7, <1>9 DEF c

\* pipe_failed() counts the failure and pauses the queue.
LEMMA StepFailsKeeps ==
  ASSUME RetryInv, NEW e, StepFails(e), UNCHANGED <<pipe, unpauses, tears>>,
         tears = 0 => ~paused /\ \A x \in batch' : x.s # "step"
  PROVE  RetryInv'
<1> DEFINE n == e.num
           c == pipe_callnum(n)
<1>1. PIPELINE' = PIPELINE /\ Steps' = Steps /\ \A m : pipe_callnum(m)' = pipe_callnum(m)
  BY DEF PIPELINE, Steps, pipe_callnum
<1>2. n \in Steps
  BY DEF StepFails, Runs, Present, Nameless
<1>3. faults' = faults \/ faults' = faults + 1
  BY DEF StepFails, Fault
<1>4. faults' \in Nat /\ faults \in Nat /\ unpauses \in Nat
  BY <1>3, SMTT(30) DEF RetryInv
<1>5. CASE pipe.retry = Unlimited
  <2>1. UNCHANGED <<failed, losses>>
    BY <1>5 DEF StepFails
  <2>2. paused' = paused
    BY <1>5 DEF StepFails, pipe_failed, RetryInv
  <2>3. tears' = 0 => ~paused'
    BY <2>2
  <2> QED BY <1>1, <1>4, <1>5, <2>1, <2>2, <2>3 DEF RetryInv
<1>6. CASE pipe.retry # Unlimited
  <2>1. failed' = [failed EXCEPT ![c] = @ + 1] /\ losses' = [losses EXCEPT ![n] = @ + 1]
    BY <1>6 DEF StepFails
  <2>2. /\ failed' \in [0 .. Len(PIPELINE) -> Nat] /\ losses' \in [Steps -> Nat] /\ DOMAIN failed' = DOMAIN failed
        /\ c \in DOMAIN failed /\ failed'[c] = failed[c] + 1
        /\ \A d \in DOMAIN failed : d # c => failed'[d] = failed[d]
        /\ \A m \in Steps : losses'[m] <= failed'[pipe_callnum(m)]
    BY <1>2, <1>6, <2>1, Counted
  <2>3. failed \in [0 .. Len(PIPELINE) -> Nat] /\ pipe.retry \in Nat
    BY <1>6 DEF RetryInv
  <2>4. failed[c] \in Nat
    BY <2>2, <2>3
  <2>5. \/ paused' = (paused \/ ~(failed[c] + 1 <= pipe.retry)) /\ faults' = faults
        \/ ~(failed[c] + 1 <= pipe.retry) /\ faults' = faults + 1 /\ paused' = paused
    BY <1>6 DEF StepFails, pipe_failed, Fault
  <2> HIDE DEF n, c
  <2>6. paused' \in BOOLEAN /\ (paused' => paused \/ failed'[c] > pipe.retry)
    <3>1. ~(failed[c] + 1 <= pipe.retry) => failed'[c] > pipe.retry
      BY <2>2, <2>3, <2>4, SMTT(30)
    <3>2. paused \in BOOLEAN
      BY DEF RetryInv
    <3> QED BY <2>5, <3>1, <3>2
  <2>7. paused' => \E d \in DOMAIN failed' : failed'[d] > pipe.retry
    <3>1. CASE failed'[c] > pipe.retry
      BY <2>2, <3>1
    <3>2. CASE paused /\ ~(failed'[c] > pipe.retry)
      <4>1. PICK d \in DOMAIN failed : failed[d] > pipe.retry
        BY <1>6, <3>2 DEF RetryInv
      <4>2. failed[c] > pipe.retry => failed'[c] > pipe.retry
        BY <2>2, <2>3, <2>4, SMTT(30)
      <4>3. d # c
        BY <3>2, <4>1, <4>2
      <4> QED BY <2>2, <4>1, <4>3
    <3> QED BY <2>6, <3>1, <3>2
  <2>8. ASSUME tears = 0, NEW d \in DOMAIN failed'
        PROVE  failed'[d] <= Allowed' + 1 /\ (~paused' => failed'[d] <= Allowed')
    <3>1. ~paused /\ d \in DOMAIN failed
      BY <2>2, <2>8
    <3>2. failed[d] \in Nat /\ failed[d] <= pipe.retry + unpauses + faults
      BY <1>6, <2>3, <2>8, <3>1 DEF RetryInv, Allowed
    <3>3. Allowed' = pipe.retry + unpauses + faults'
      BY DEF Allowed
    <3>4. CASE d # c
      <4>1. failed'[d] = failed[d]
        BY <2>2, <3>1, <3>4
      <4> QED BY <1>3, <1>4, <2>3, <3>2, <3>3, <4>1, SMTT(30)
    <3>5. CASE d = c
      <4>1. failed'[d] = failed[d] + 1
        BY <2>2, <3>5
      <4>2. failed'[d] <= Allowed' + 1
        BY <1>3, <1>4, <2>3, <3>2, <3>3, <4>1, SMTT(30)
      <4>3. ~paused' => failed[d] + 1 <= pipe.retry \/ faults' = faults + 1
        BY <2>5, <3>5
      <4>4. ~paused' => failed'[d] <= Allowed'
        BY <1>3, <1>4, <2>3, <3>2, <3>3, <4>1, <4>3, SMTT(30)
      <4> QED BY <4>2, <4>4
    <3> QED BY <3>4, <3>5
  <2> QED BY <1>1, <1>4, <2>2, <2>3, <2>6, <2>7, <2>8 DEF RetryInv
<1> QED BY <1>5, <1>6

\* The queue is unpaused by hand, and one failure more is allowed.
LEMMA UnpauseKeeps ==
  ASSUME RetryInv, Unpause
  PROVE  RetryInv'
<1>1. PIPELINE' = PIPELINE /\ Steps' = Steps /\ \A m : pipe_callnum(m)' = pipe_callnum(m)
  BY DEF Unpause, PIPELINE, Steps, pipe_callnum
<1>2. UNCHANGED <<pipe, failed, losses, faults, tears>> /\ unpauses' = unpauses + 1 /\ paused' = FALSE
  BY DEF Unpause
<1>3. pipe.retry # Unlimited /\ tears = 0 =>
        \A c \in DOMAIN failed : failed[c] <= Allowed' /\ failed[c] <= Allowed' + 1
  <2> SUFFICES ASSUME pipe.retry # Unlimited, tears = 0, NEW c \in DOMAIN failed
               PROVE  failed[c] <= Allowed' /\ failed[c] <= Allowed' + 1
    OBVIOUS
  <2>1. /\ failed[c] \in Nat /\ pipe.retry \in Nat /\ unpauses \in Nat /\ faults \in Nat
        /\ failed[c] <= pipe.retry + unpauses + faults + 1
    BY DEF RetryInv, Allowed
  <2>2. Allowed' = pipe.retry + unpauses' + faults
    BY <1>2 DEF Allowed
  <2> QED BY <1>2, <2>1, <2>2, SMTT(30)
<1>4. unpauses' \in Nat
  BY <1>2, SMTT(30) DEF RetryInv
<1> QED BY <1>1, <1>2, <1>3, <1>4 DEF RetryInv

\* What the handler does beside counting a failure.
LEMMA RetryKept ==
  ASSUME QueueInv, CountInv, RetryInv, [PipeStep]_pipeVars
  PROVE  RetryInv'
<1>1. CASE pipe_init \/ HandlerInit \/ UNCHANGED pipeVars
  <2>1. UNCHANGED <<pipe, failed, losses, paused, unpauses, tears>> /\ batch' \subseteq batch
    BY <1>1 DEF pipe_init, HandlerInit, LookAt, pipeVars, eventVars, countVars
  <2>2. faults' \in {faults, faults + 1}
    BY <1>1 DEF pipe_init, HandlerInit, Fault, pipeVars
  <2> QED BY <2>1, <2>2, RetryStays
<1>2. CASE StartBatch
  <2>1. UNCHANGED <<pipe, failed, losses, paused, unpauses, tears, faults>> /\ ~paused
    BY <1>2 DEF StartBatch, countVars
  <2> QED BY <2>1, RetryStays
<1>3. CASE DoneEvent \/ Kill
  <2>1. UNCHANGED <<pipe, failed, losses, paused, unpauses>> /\ batch' \subseteq batch
    BY <1>3 DEF DoneEvent, Kill, countVars
  <2>2. faults' \in {faults, faults + 1} /\ tears' \in {tears, tears + 1}
    BY <1>3 DEF DoneEvent, Kill, Fault, Torn
  <2>3. tears' = 0 => tears = 0
    BY <2>2, SMTT(30) DEF CountInv
  <2> QED BY <2>1, <2>2, <2>3, RetryStays
<1>4. CASE HandlerStep
  <2>1. PICK e \in batch : LookAt(e) /\ StepOutcome(e)
    BY <1>4 DEF HandlerStep, StepOutcome
  <2>2. UNCHANGED <<pipe, unpauses, tears>> /\ \A x \in batch : x.s # "init"
    BY <1>4 DEF HandlerStep
  <2>3. e \in Tokens /\ e.s = "step" /\ served = None /\ batch' = batch \ {e}
    BY <2>1, <2>2, LooksAtStep DEF LookAt
  <2>4. CASE StepFails(e)
    <3>1. tears = 0 => ~paused
      BY <2>3 DEF RetryInv, LookAt
    <3>2. ASSUME tears = 0, NEW x \in batch', x.s = "step" PROVE FALSE
      <4>1. x \in pevents /\ x # e
        BY <2>3, <3>2 DEF QueueInv
      <4>2. x \in Tokens
        BY <2>3, <3>2, <4>1, NoneKind DEF Tokens
      <4> QED BY <2>3, <3>2, <4>1, <4>2, OnlyToken
    <3> QED BY <2>2, <2>4, <3>1, <3>2, StepFailsKeeps
  <2>5. CASE ~StepFails(e)
    <3>1. UNCHANGED <<failed, losses, paused>>
      BY <2>1, <2>5 DEF StepOutcome, StepOver, StepIgnored, StepSkipped, StepNoDir, StepDone, StepStops, countVars
    <3>2. faults' \in {faults, faults + 1}
      BY <2>1, <2>5 DEF StepOutcome, StepOver, StepIgnored, StepSkipped, StepNoDir, StepDone, StepStops, Forward, Fault
    <3> QED BY <2>2, <2>3, <3>1, <3>2, RetryStays
  <2> QED BY <2>4, <2>5
<1> QED BY <1>1, <1>2, <1>3, <1>4, UnpauseKeeps DEF PipeStep, PipeHandler

\* "pipe-retry determines how many times a certain step can fail", for pipelines
\* of every length, every pipe-retry and any number of faults and of pauses lifted
\* by hand: one failure more pauses the queue, and each unpausing allows one more.
THEOREM PipeFailuresBounded ==
  ASSUME NEW Jobs, NEW Recs, \A j \in Jobs : j.steps \in Seq(Recs) /\ (j.retry = Unlimited \/ j.retry \in Nat)
  PROVE  PipeStart(Jobs) /\ [][PipeStep]_pipeVars => []PipeRetries
<1>1. PipeStart(Jobs) => QueueInv /\ CountInv
  BY QueueInitial
<1>2. PipeStart(Jobs) => RetryInv
  <2> SUFFICES ASSUME PipeStart(Jobs) PROVE RetryInv
    OBVIOUS
  <2>1. PIPELINE \in Seq(Recs) /\ (pipe.retry = Unlimited \/ pipe.retry \in Nat)
    BY DEF PipeStart, PIPELINE
  <2>2. Len(PIPELINE) \in Nat /\ Steps = 1 .. Len(PIPELINE)
    BY <2>1, SMTT(30) DEF Steps
  <2>3. failed = [c \in 0 .. Len(PIPELINE) |-> 0] /\ losses = [n \in Steps |-> 0]
    BY DEF PipeStart
  <2>4. unpauses = 0 /\ faults = 0 /\ paused = FALSE
    BY DEF PipeStart
  <2>5. \A n \in Steps : losses[n] <= failed[pipe_callnum(n)]
    BY <2>2, <2>3, Callnum, SMTT(30)
  <2>6. failed \in [0 .. Len(PIPELINE) -> Nat] /\ losses \in [Steps -> Nat] /\ 0 \in Nat
    BY <2>3, SMTT(30)
  <2>7. pipe.retry \in Nat => \A c \in DOMAIN failed : failed[c] <= Allowed + 1 /\ failed[c] <= Allowed
    BY <2>3, <2>4, SMTT(30) DEF Allowed
  <2> QED BY <2>1, <2>2, <2>4, <2>5, <2>6, <2>7 DEF RetryInv
<1>3. RetryInv => PipeRetries
  <2> SUFFICES ASSUME RetryInv, pipe.retry # Unlimited
               PROVE  /\ tears = 0 => \A n \in Steps : losses[n] <= pipe.retry + 1 + unpauses + faults
                      /\ paused => \E c \in DOMAIN failed : failed[c] > pipe.retry
    BY DEF PipeRetries
  <2>1. ASSUME tears = 0, NEW n \in Steps PROVE losses[n] <= pipe.retry + 1 + unpauses + faults
    <3>1. pipe_callnum(n) \in DOMAIN failed
      BY Callnum DEF RetryInv
    <3>2. /\ losses[n] \in Nat /\ failed[pipe_callnum(n)] \in Nat
          /\ pipe.retry \in Nat /\ unpauses \in Nat /\ faults \in Nat
          /\ losses[n] <= failed[pipe_callnum(n)]
          /\ failed[pipe_callnum(n)] <= pipe.retry + unpauses + faults + 1
      BY <2>1, <3>1 DEF RetryInv, Allowed
    <3> QED BY <3>2, SMTT(30)
  <2> QED BY <2>1 DEF RetryInv
<1> QED BY <1>1, <1>2, <1>3, QueueKept, CountKept, RetryKept, PTL

----------------------------------------------------------------------------
(* md-raid-member and btrfs-member *)

\* What keeps a timeout honest: there is at most one timer, none between a
\* cancellation and the new one, and the seconds it has to go and those that
\* were quiet make up the delay; a timeout in the queue that no batch of members
\* has followed was due after a quiet delay.
Timeouts == [type : {"timeout"}, late : BOOLEAN]
MemberInv ==
  /\ mem.delay \in Nat
  /\ quiet \in 0 .. mem.delay
  /\ late \in BOOLEAN
  /\ mpc \in {"idle", "cancel", "check", "arm", "scan", "run", "write", "devices", "degrade"}
  /\ \/ timers = <<>>
     \/ \E t \in 0 .. mem.delay : timers = <<t>> /\ t + quiet >= mem.delay /\ mem.delay > 0
  /\ mpc \in {"check", "arm"} => timers = <<>> /\ mem.delay > 0
  /\ mpc \in {"scan", "run", "write", "devices", "degrade"} => mem.delay > 0 /\ (late \/ quiet = mem.delay)
  /\ \A e \in mq : e = Member \/ (e \in Timeouts /\ mem.delay > 0)
  /\ Timeout \in mq => quiet = mem.delay

\* The start of the service.
LEMMA MemberInitial ==
  ASSUME NEW Jobs, \A j \in Jobs : j.delay \in Nat, MemberStart(Jobs)
  PROVE  MemberInv
<1>1. mem.delay \in Nat /\ quiet = mem.delay /\ late = FALSE
  BY DEF MemberStart
<1>2. mpc = "idle" /\ timers = <<>> /\ mq = {}
  BY DEF MemberStart
<1>3. quiet \in 0 .. mem.delay
  BY <1>1, SMTT(30)
<1> QED BY <1>1, <1>2, <1>3 DEF MemberInv

\* A member and a timeout are different events, and a late timeout is another one.
LEMMA MemberEvents ==
  /\ Timeout \in Timeouts /\ Timeout.late = FALSE /\ Member.type # "timeout"
  /\ \A e \in Timeouts : e.type = "timeout" /\ [e EXCEPT !.late = TRUE] \in Timeouts /\ [e EXCEPT !.late = TRUE].late = TRUE
<1>1. Timeout \in Timeouts /\ Timeout.late = FALSE /\ Member.type # "timeout"
  BY DEF Member, Timeout, Timeouts
<1>2. \A e \in Timeouts : e.type = "timeout" /\ [e EXCEPT !.late = TRUE] \in Timeouts
  BY DEF Timeouts
<1>3. \A e \in Timeouts : [e EXCEPT !.late = TRUE].late = TRUE
  BY DEF Timeouts
<1> QED BY <1>1, <1>2, <1>3

\* The delayed events when one of them has fired: there was no other.
LEMMA OneTimer ==
  ASSUME NEW t, NEW i \in DOMAIN <<t>>
  PROVE  i = 1 /\ SubSeq(<<t>>, 1, i - 1) \o SubSeq(<<t>>, i + 1, Len(<<t>>)) = <<>>
<1>1. i = 1 /\ Len(<<t>>) = 1
  BY SMTT(30)
<1>2. SubSeq(<<t>>, 1, 0) = <<>> /\ SubSeq(<<t>>, 2, 1) = <<>>
  BY SMTT(30)
<1> QED BY <1>1, <1>2, SMTT(30)

\* udev, ueventd and time.
LEMMA AroundKeeps ==
  ASSUME MemberInv, Appear \/ Filter \/ FireTimer \/ Tick
  PROVE  MemberInv'
<1>1. CASE Appear
  BY <1>1, SMTT(30) DEF Appear, MemberInv
<1>2. CASE Filter
  BY <1>2, MemberEvents DEF Filter, MemberInv
<1>3. CASE FireTimer
  <2>1. PICK i \in DOMAIN timers : timers[i] = 0 /\ timers' = SubSeq(timers, 1, i - 1) \o SubSeq(timers, i + 1, Len(timers))
    BY <1>3 DEF FireTimer
  <2>2. PICK t \in 0 .. mem.delay : timers = <<t>> /\ t + quiet >= mem.delay /\ mem.delay > 0
    <3>1. timers # <<>>
      BY SMTT(30)
    <3> QED BY <3>1 DEF MemberInv
  <2>3. t = 0 /\ timers' = <<>>
    BY <2>1, <2>2, OneTimer, SMTT(30)
  <2>4. quiet = mem.delay
    BY <2>2, <2>3, SMTT(30) DEF MemberInv
  <2> QED BY <1>3, <2>2, <2>3, <2>4, MemberEvents DEF FireTimer, MemberInv
<1>4. CASE Tick
  <2>1. quiet' \in 0 .. mem.delay /\ quiet' >= quiet /\ (quiet < mem.delay => quiet' = quiet + 1)
    BY <1>4, SMTT(30) DEF Tick, MemberInv
  <2>2. quiet = mem.delay => quiet' = quiet
    BY <2>1, SMTT(30) DEF MemberInv
  <2>3. CASE timers = <<>>
    <3>1. timers' = <<>>
      BY <1>4, <2>3, SMTT(30) DEF Tick
    <3> QED BY <1>4, <2>1, <2>2, <3>1 DEF Tick, MemberInv
  <2>4. CASE timers # <<>>
    <3>1. PICK t \in 0 .. mem.delay : timers = <<t>> /\ t + quiet >= mem.delay /\ mem.delay > 0
      BY <2>4 DEF MemberInv
    <3>2. timers' = <<IF t > 0 THEN t - 1 ELSE 0>>
      BY <1>4, <3>1, SMTT(30) DEF Tick
    <3>3. PICK u \in 0 .. mem.delay : timers' = <<u>> /\ u + quiet' >= mem.delay
      BY <2>1, <2>2, <3>1, <3>2, SMTT(30) DEF MemberInv
    <3>4. mpc \notin {"check", "arm"}
      BY <2>4 DEF MemberInv
    <3> QED BY <1>4, <2>1, <2>2, <3>1, <3>3, <3>4 DEF Tick, MemberInv
  <2> QED BY <2>3, <2>4
<1> QED BY <1>1, <1>2, <1>3, <1>4

\* The handler, whose batch of members cancels the timer before it arms the next.
LEMMA MemberHandlerKeeps ==
  ASSUME MemberInv, MemberHandler
  PROVE  MemberInv'
<1>1. CASE TakeBatch
  <2>1. mq' = {} /\ late' = (Timeout \notin mq) /\ UNCHANGED <<mem, timers, quiet>>
    BY <1>1 DEF TakeBatch
  <2>2. mpc' \in {"cancel", "scan", "devices"}
    BY <1>1 DEF TakeBatch
  <2>3. mpc' # "cancel" => mem.delay > 0 /\ (late' \/ quiet = mem.delay)
    BY <1>1, <2>1, MemberEvents DEF TakeBatch, MemberInv
  <2> QED BY <2>1, <2>2, <2>3 DEF MemberInv
<1>2. CASE Cancel
  <2>1. timers' = <<>> /\ quiet' = 0 /\ UNCHANGED <<mem, late>>
    BY <1>2 DEF Cancel
  <2>2. mpc' \in {"idle", "arm", "check"} /\ (mpc' # "idle" => mem.delay > 0)
    BY <1>2, SMTT(30) DEF Cancel, MemberInv
  <2>3. mq' = {IF e.type = "timeout" THEN [e EXCEPT !.late = TRUE] ELSE e : e \in mq}
    BY <1>2 DEF Cancel
  <2>4. \A e \in mq : (e = Member \/ (e \in Timeouts /\ mem.delay > 0))
    BY DEF MemberInv
  <2>5. \A e \in mq' : (e = Member \/ (e \in Timeouts /\ mem.delay > 0)) /\ e # Timeout
    <3> SUFFICES ASSUME NEW f \in mq'
                 PROVE  (f = Member \/ (f \in Timeouts /\ mem.delay > 0)) /\ f # Timeout
      OBVIOUS
    <3>1. PICK e \in mq : f = IF e.type = "timeout" THEN [e EXCEPT !.late = TRUE] ELSE e
      BY <2>3
    <3>2. CASE e = Member
      BY <3>1, <3>2, MemberEvents
    <3>3. CASE e \in Timeouts /\ mem.delay > 0
      <4>1. f = [e EXCEPT !.late = TRUE]
        BY <3>1, <3>3, MemberEvents
      <4>2. f \in Timeouts /\ f.late = TRUE
        BY <3>3, <4>1, MemberEvents
      <4> QED BY <3>3, <4>2, MemberEvents
    <3> QED BY <2>4, <3>2, <3>3
  <2> QED BY <2>1, <2>2, <2>5, SMTT(30) DEF MemberInv
<1>3. CASE check_btrfs_arrays
  BY <1>3 DEF check_btrfs_arrays, MemberInv
<1>4. CASE queue_timeout_after
  <2>1. timers' = <<mem.delay>> /\ mpc' = "idle" /\ UNCHANGED <<mem, mq, late, quiet>> /\ mem.delay > 0
    BY <1>4, SMTT(30) DEF queue_timeout_after, MemberInv
  <2> QED BY <2>1, SMTT(30) DEF MemberInv
<1>5. CASE ScanArrays
  BY <1>5 DEF ScanArrays, MemberInv
<1>6. CASE RunArrays
  BY <1>6 DEF RunArrays, MemberInv
<1>7. CASE WriteArrays
  BY <1>7 DEF WriteArrays, MemberInv
<1>8. CASE ScanDevices
  BY <1>8 DEF ScanDevices, MemberInv
<1>9. CASE DegradeArrays
  BY <1>9 DEF DegradeArrays, MemberInv
<1> QED BY <1>1, <1>2, <1>3, <1>4, <1>5, <1>6, <1>7, <1>8, <1>9 DEF MemberHandler

\* "The number of seconds to wait after the last raid member appears before
\* starting the degraded raid": however members, timers and batches meet, for any
\* number of arrays and members and any delay, process_timeout() runs only after
\* a delay without members, except for a timeout that was in the queue already
\* when the members were handled; and a delay of 0 never starts anything.
THEOREM DegradedStartWaits ==
  ASSUME NEW Jobs, \A j \in Jobs : j.delay \in Nat
  PROVE  MemberStart(Jobs) /\ [][MemberStep]_memberVars => []MemberWaits
<1>1. MemberStart(Jobs) => MemberInv
  BY MemberInitial
<1>2. MemberInv /\ [MemberStep]_memberVars => MemberInv'
  <2> SUFFICES ASSUME MemberInv, [MemberStep]_memberVars PROVE MemberInv'
    OBVIOUS
  <2>1. CASE UNCHANGED memberVars
    BY <2>1 DEF memberVars, MemberInv
  <2> QED BY <2>1, AroundKeeps, MemberHandlerKeeps DEF MemberStep
<1>3. MemberInv => MemberWaits
  <2> SUFFICES ASSUME MemberInv PROVE MemberWaits
    OBVIOUS
  <2>1. Len(timers) <= 1
    <3>1. CASE timers = <<>>
      BY <3>1, SMTT(30)
    <3>2. CASE \E t : timers = <<t>>
      BY <3>2, SMTT(30)
    <3> QED BY <3>1, <3>2 DEF MemberInv
  <2> QED BY <2>1 DEF MemberInv, MemberWaits
<1> QED BY <1>1, <1>2, <1>3, PTL

----------------------------------------------------------------------------
(* halt *)

Stops == {"halt", "poweroff", "reboot", "kexec"}
Shaper(i) == halt.ifs[i].kind = "shaper" /\ halt.ifs[i].works /\ i <= numif
Other(i) == halt.ifs[i].kind \notin {"shaper", "lo", "alias"} /\ halt.ifs[i].works /\ i <= numif
AreUp == {i \in DOMAIN halt.ifs : halt.ifs[i].up}
Wanted(i) == List1(halt.disks[i]) = "take" /\ Flushes(halt.disks[i])
Reached(i) == \A j \in 1 .. i : List1(halt.disks[j]) # "stop"
Walked == \A i \in DOMAIN halt.disks : Reached(i) /\ Wanted(i) => i \in flushed
Touched == flushed \cup standby # {}

\* The loops count through lists.
ListsInv ==
  /\ Len(halt.ifs) \in Nat /\ DOMAIN halt.ifs = 1 .. Len(halt.ifs)
  /\ Len(halt.disks) \in Nat /\ DOMAIN halt.disks = 1 .. Len(halt.disks)
  /\ at \in Nat \ {0} /\ pass \in {0, 1}
  /\ numif \in Nat /\ numif <= Len(halt.ifs)

\* ifdown(): in the first pass only shapers go, those before "at"; then none of
\* them is left, and the others go.
IfdownInv ==
  /\ pass = 1 => \A i \in AreUp : halt.ifs[i].kind # "shaper" => i \in ups
  /\ pass = 1 /\ hpc = "ifdown" => \A i \in ups : Shaper(i) => at <= i
  /\ pass = 0 => \A i \in ups : ~Shaper(i)
  /\ pass = 0 /\ hpc = "ifdown" => \A i \in ups : Other(i) => at <= i

\* sync() was first, and the interfaces are down before a disk is touched.
NetInv ==
  /\ Touched \/ ups # AreUp => Has("n") \/ synced
  /\ Has("i") /\ halt.inet /\ (hpc = "disks" \/ Touched) => \A i \in ups : ~Shaper(i) /\ ~Other(i)

\* list_disks(): what comes before "at" was flushed; afterwards all of them, up to
\* the one that stopped the walk.
DisksInv ==
  /\ hpc = "disks" => \A i \in DOMAIN halt.disks : i < at /\ Wanted(i) => i \in flushed
  /\ hpc \in {"down", "reboot", "halt", "back"} \/ fate \in Stops => Walked
  /\ hpc \in {"ifdown", "disks", "down", "reboot", "halt", "back"} \/ fate \in Stops => Has("n") \/ synced

\* What was not done yet, and what -w never does.
HaltedInv ==
  /\ hpc \notin {"exit1", "off"} => fate = "up"
  /\ hpc = "exit1" => fate \notin Stops
  /\ hpc \notin {"halt", "back", "off"} => cad = FALSE /\ stopped = FALSE
  /\ hpc \in {"args", "wtmp", "sync"} =>
       flushed = {} /\ standby = {} /\ ups = AreUp /\ synced = FALSE /\ pass = 1 /\ at = 1
  /\ do_nothing => fate = "up" /\ hpc \notin {"down", "reboot", "halt", "back", "off"}
  /\ do_nothing /\ {"h", "i"} \cap halt.opts = {} =>
       hpc \in {"args", "wtmp", "exit0", "exit1"} /\ flushed = {} /\ ups = AreUp /\ synced = FALSE

HaltInv == HaltTypeOK /\ ListsInv /\ IfdownInv /\ NetInv /\ DisksInv /\ HaltedInv

\* The program as it starts, on a machine with any interfaces and disks.
LEMMA HaltInitial ==
  ASSUME NEW Jobs, NEW Ifs, NEW Devs, \A j \in Jobs : j.ifs \in Seq(Ifs) /\ j.disks \in Seq(Devs),
         HaltStart(Jobs)
  PROVE  HaltInv
<1>1. halt.ifs \in Seq(Ifs) /\ halt.disks \in Seq(Devs) /\ ups = AreUp
  BY DEF HaltStart, AreUp
<1>2. ListsInv
  <2>1. numif \in Nat /\ numif <= Len(halt.ifs)
    BY <1>1, MaxIfsAssumption, SMTT(30) DEF numif
  <2> QED BY <1>1, <2>1, SMTT(30) DEF HaltStart, ListsInv
<1>3. NetInv
  BY <1>1 DEF HaltStart, NetInv, Touched
<1> QED BY <1>1, <1>2, <1>3, SMTT(30) DEF HaltStart, HaltInv, HaltTypeOK, IfdownInv, DisksInv, HaltedInv, Stops, AreUp

\* Definitions that depend on the machine and the options only.
LEMMA HaltConstant ==
  ASSUME UNCHANGED halt
  PROVE  /\ AreUp' = AreUp /\ do_nothing' = do_nothing /\ do_sync' = do_sync /\ do_reboot' = do_reboot
         /\ \A o : Has(o)' = Has(o)
         /\ \A i : Wanted(i)' = Wanted(i) /\ Shaper(i)' = Shaper(i) /\ Other(i)' = Other(i) /\ Reached(i)' = Reached(i)
         /\ numif' = numif
BY DEF AreUp, do_nothing, do_sync, do_reboot, Named, Has, Wanted, Shaper, Other, Reached, numif

\* The options, the record and sync().
LEMMA PrepareKeeps ==
  ASSUME HaltInv, Arguments \/ WriteWtmp \/ Sync
  PROVE  HaltInv'
<1>1. UNCHANGED <<halt, pass, at, ups, flushed, standby, cad, stopped>>
  BY DEF Arguments, WriteWtmp, Sync
<1>2. hpc \in {"args", "wtmp", "sync"} /\ fate = "up" /\ cad = FALSE /\ stopped = FALSE
  BY DEF Arguments, WriteWtmp, Sync, HaltInv, HaltedInv
<1>3. flushed = {} /\ standby = {} /\ ups = AreUp /\ pass = 1 /\ at = 1
  BY <1>2 DEF HaltInv, HaltedInv
<1>4. ListsInv' /\ IfdownInv'
  <2>1. ListsInv'
    BY <1>1, HaltConstant DEF HaltInv, ListsInv
  <2>2. \A i \in AreUp : i \in Nat /\ 1 <= i
    BY SMTT(30) DEF AreUp, HaltInv, ListsInv
  <2> QED BY <1>1, <1>3, <2>1, <2>2, HaltConstant, SMTT(30) DEF IfdownInv
<1>8. ~Touched' /\ ups' = AreUp'
  BY <1>1, <1>3, HaltConstant DEF Touched
<1>5. CASE Arguments
  <2>1. UNCHANGED synced /\ synced = FALSE /\ hpc' \in {"exit1", "wtmp"} /\ (hpc' = "wtmp" => fate' = "up")
    BY <1>2, <1>5 DEF Arguments, do_shutdown, HaltInv, HaltedInv
  <2>2. fate' \in {"up", "shutdown -r", "shutdown -h"} /\ (do_nothing => fate' = "up")
    BY <1>2, <1>5 DEF Arguments, do_shutdown
  <2>3. HaltTypeOK'
    BY <1>1, <2>1 DEF HaltInv, HaltTypeOK
  <2>4. DisksInv'
    BY <2>1, <2>2 DEF DisksInv, Stops
  <2>5. fate' \notin Stops
    BY <2>2 DEF Stops
  <2>6. HaltedInv'
    <3>1. do_nothing' => fate' = "up"
      BY <1>1, <2>2, HaltConstant
    <3>2. AreUp' = AreUp /\ synced' = FALSE /\ cad' = FALSE /\ stopped' = FALSE
      BY <1>1, <1>2, <2>1, HaltConstant
    <3> QED BY <1>1, <1>3, <2>1, <2>5, <3>1, <3>2 DEF HaltedInv
  <2> QED BY <1>4, <1>8, <2>1, <2>3, <2>4, <2>6 DEF HaltInv, NetInv
<1>6. CASE WriteWtmp
  <2>1. UNCHANGED <<synced, fate>> /\ synced = FALSE /\ hpc' \in {"exit0", "sync"}
    BY <1>2, <1>6 DEF WriteWtmp, HaltInv, HaltedInv
  <2>2. do_nothing /\ {"h", "i"} \cap halt.opts = {} => hpc' = "exit0"
    BY <1>6 DEF WriteWtmp, Has
  <2>3. HaltTypeOK'
    BY <1>1, <2>1 DEF HaltInv, HaltTypeOK
  <2>4. DisksInv'
    BY <1>2, <2>1 DEF DisksInv, Stops
  <2>5. HaltedInv'
    BY <1>1, <1>2, <1>3, <2>1, <2>2, HaltConstant, SMTT(30) DEF HaltedInv
  <2> QED BY <1>4, <1>8, <2>1, <2>3, <2>4, <2>5 DEF HaltInv, NetInv
<1>7. CASE Sync
  <2>1. synced' = do_sync /\ UNCHANGED fate /\ hpc = "sync" /\ hpc' = IF Has("i") THEN "ifdown" ELSE "disks"
    BY <1>7 DEF Sync
  <2>2. Has("n") \/ synced'
    BY <2>1 DEF do_sync
  <2>3. HaltTypeOK'
    BY <1>1, <2>1 DEF HaltInv, HaltTypeOK
  <2>4. \A i \in DOMAIN halt.disks : ~(i < at)
    BY <1>3, SMTT(30) DEF HaltInv, ListsInv
  <2>5. DisksInv'
    BY <1>1, <1>2, <2>1, <2>2, <2>4, HaltConstant DEF DisksInv, Stops
  <2>6. ~(do_nothing /\ {"h", "i"} \cap halt.opts = {})
    BY <2>1 DEF HaltInv, HaltedInv
  <2>7. HaltedInv'
    BY <1>1, <1>2, <2>1, <2>6, HaltConstant, SMTT(30) DEF HaltedInv
  <2>8. NetInv'
    BY <1>1, <1>8, <2>1, HaltConstant DEF NetInv
  <2> QED BY <1>4, <2>3, <2>5, <2>7, <2>8 DEF HaltInv
<1> QED BY <1>5, <1>6, <1>7

\* ifdown(), two passes over the interfaces.
LEMMA IfdownKeeps ==
  ASSUME HaltInv, Ifdown
  PROVE  HaltInv'
<1>1. UNCHANGED <<halt, synced, flushed, standby, cad, stopped, fate>> /\ hpc = "ifdown" /\ fate = "up"
  BY DEF Ifdown, HaltInv, HaltedInv
<1>2. hpc' \in {"ifdown", "disks"} /\ (hpc' = "disks" => at' = 1) /\ ups' \subseteq ups
  BY <1>1 DEF Ifdown, HaltInv, HaltedInv
<1>3. HaltTypeOK'
  BY <1>1, <1>2 DEF HaltInv, HaltTypeOK
<1>4. ListsInv'
  BY <1>1, HaltConstant, SMTT(30) DEF Ifdown, HaltInv, ListsInv
<1>c. AreUp' = AreUp /\ UNCHANGED halt /\ \A i : Shaper(i)' = Shaper(i) /\ Other(i)' = Other(i)
  BY <1>1, HaltConstant
<1>5. IfdownInv'
  <2>1. CASE halt.inet /\ at <= numif
    <3>1. ups' = (IF Takes(at) THEN ups \ {at} ELSE ups) /\ at' = at + 1 /\ UNCHANGED <<pass, hpc>>
      BY <2>1, SMTT(30) DEF Ifdown, HaltInv, ListsInv
    <3>2. at \in Nat /\ ups \subseteq Nat
      BY SMTT(30) DEF HaltInv, ListsInv, HaltTypeOK
    <3>3. CASE pass = 1
      <4>1. \A i \in AreUp : halt.ifs[i].kind # "shaper" => i \in ups'
        BY <3>1, <3>3 DEF Takes, HaltInv, IfdownInv
      <4>2. Shaper(at) => at \notin ups'
        BY <3>1, <3>3 DEF Shaper, Takes
      <4>3. \A i \in ups : Shaper(i) => at <= i
        BY <1>1, <3>3 DEF HaltInv, IfdownInv
      <4>4. \A i \in ups' : Shaper(i) => at + 1 <= i
        BY <1>2, <3>2, <4>2, <4>3, SMTT(30)
      <4> QED BY <1>c, <3>1, <3>3, <4>1, <4>4, SMTT(30) DEF IfdownInv
    <3>4. CASE pass = 0
      <4>1. \A i \in ups' : ~Shaper(i)
        BY <1>2, <3>4 DEF HaltInv, IfdownInv
      <4>2. Other(at) => at \notin ups'
        BY <3>1, <3>4, SMTT(30) DEF Other, Takes
      <4>3. \A i \in ups : Other(i) => at <= i
        BY <1>1, <3>4 DEF HaltInv, IfdownInv
      <4>4. \A i \in ups' : Other(i) => at + 1 <= i
        BY <1>2, <3>2, <4>2, <4>3, SMTT(30)
      <4> QED BY <1>c, <3>1, <3>4, <4>1, <4>4, SMTT(30) DEF IfdownInv
    <3> QED BY <3>3, <3>4 DEF HaltInv, ListsInv
  <2>2. CASE halt.inet /\ ~(at <= numif)
    <3>1. at' = 1 /\ UNCHANGED ups /\ pass' = 0
      BY <2>2 DEF Ifdown, HaltInv, ListsInv
    <3>2. \A i \in ups : i \in Nat /\ 1 <= i
      BY SMTT(30) DEF HaltInv, HaltTypeOK, ListsInv
    <3>3. \A i \in ups : ~Shaper(i)
      <4>1. CASE pass = 1
        <5>1. \A i \in ups : Shaper(i) => at <= i
          BY <1>1, <4>1 DEF HaltInv, IfdownInv
        <5>2. \A i \in ups : Shaper(i) => i <= numif
          BY DEF Shaper
        <5> QED BY <2>2, <3>2, <5>1, <5>2, SMTT(30) DEF HaltInv, ListsInv
      <4>2. CASE pass = 0
        BY <4>2 DEF HaltInv, IfdownInv
      <4> QED BY <4>1, <4>2 DEF HaltInv, ListsInv
    <3> QED BY <1>c, <3>1, <3>2, <3>3, SMTT(30) DEF IfdownInv
  <2>3. CASE ~halt.inet
    <3>1. UNCHANGED <<pass, ups>> /\ hpc' = "disks"
      BY <2>3 DEF Ifdown
    <3> QED BY <1>1, <3>1, HaltConstant DEF HaltInv, IfdownInv
  <2> QED BY <2>1, <2>2, <2>3
<1>6. DisksInv'
  <2>1. hpc' = "disks" => \A i \in DOMAIN halt.disks : ~(i < at')
    BY <1>2, SMTT(30) DEF HaltInv, ListsInv
  <2>2. Has("n") \/ synced
    BY <1>1 DEF HaltInv, DisksInv
  <2> QED BY <1>1, <1>2, <2>1, <2>2, HaltConstant DEF DisksInv, Stops
<1>7. HaltedInv'
  BY <1>1, <1>2, HaltConstant, SMTT(30) DEF HaltInv, HaltedInv
<1>8. NetInv'
  <2>1. Has("n") \/ synced
    BY <1>1 DEF HaltInv, DisksInv
  <2>2. Has("i") /\ halt.inet /\ hpc' = "disks" => \A i \in ups' : ~Shaper(i) /\ ~Other(i)
    <3> SUFFICES ASSUME halt.inet, hpc' = "disks" PROVE \A i \in ups' : ~Shaper(i) /\ ~Other(i)
      OBVIOUS
    <3>1. pass = 0 /\ at > numif /\ UNCHANGED ups
      BY <1>1 DEF Ifdown, HaltInv, ListsInv
    <3>2. \A i \in ups : i \in Nat /\ ~Shaper(i) /\ (Other(i) => at <= i)
      <4>1. \A i \in ups : i \in Nat
        BY SMTT(30) DEF HaltInv, HaltTypeOK, ListsInv
      <4>2. \A i \in ups : ~Shaper(i) /\ (Other(i) => at <= i)
        BY <1>1, <3>1 DEF HaltInv, IfdownInv
      <4> QED BY <4>1, <4>2
    <3>3. \A i \in ups : Other(i) => i <= numif
      BY DEF Other
    <3> QED BY <3>1, <3>2, <3>3, SMTT(30) DEF HaltInv, ListsInv
  <2>3. Has("i") /\ halt.inet /\ Touched => \A i \in ups : ~Shaper(i) /\ ~Other(i)
    BY DEF HaltInv, NetInv
  <2>4. Touched' = Touched
    BY <1>1 DEF Touched
  <2> QED BY <1>1, <1>2, <2>1, <2>2, <2>3, <2>4, HaltConstant DEF NetInv
<1> QED BY <1>3, <1>4, <1>5, <1>6, <1>7, <1>8 DEF HaltInv

\* list_disks() and do_standby_disk(), disk by disk.
LEMMA DisksKeeps ==
  ASSUME HaltInv, Disks
  PROVE  HaltInv'
<1>1. UNCHANGED <<halt, synced, pass, ups, cad, stopped, fate>> /\ hpc = "disks" /\ fate = "up"
  BY DEF Disks, HaltInv, HaltedInv
<1>2. IfdownInv'
  <2>1. hpc' # "ifdown"
    BY <1>1 DEF Disks
  <2> QED BY <1>1, <2>1, HaltConstant DEF HaltInv, IfdownInv
<1>3. Has("n") \/ synced
  BY <1>1 DEF HaltInv, DisksInv
<1>4. cad = FALSE /\ stopped = FALSE /\ ~(do_nothing /\ {"h", "i"} \cap halt.opts = {})
  BY <1>1 DEF HaltInv, HaltedInv
<1>c. AreUp' = AreUp /\ do_nothing' = do_nothing
  BY <1>1, HaltConstant
<1>7. NetInv'
  <2>1. Has("i") /\ halt.inet => \A i \in ups : ~Shaper(i) /\ ~Other(i)
    BY <1>1 DEF HaltInv, NetInv
  <2> QED BY <1>1, <1>3, <2>1, HaltConstant DEF NetInv
<1>5. CASE at <= Len(halt.disks) /\ List1(halt.disks[at]) # "stop"
  <2>1. at' = at + 1 /\ UNCHANGED hpc /\ at \in DOMAIN halt.disks /\ at \in Nat
    BY <1>5, SMTT(30) DEF Disks, HaltInv, ListsInv
  <2>2. flushed' = IF Wanted(at) THEN flushed \cup {at} ELSE flushed
    BY <1>5 DEF Disks, Wanted
  <2>3. standby' \subseteq standby \cup {at}
    BY <1>5 DEF Disks
  <2>4. HaltTypeOK' /\ ListsInv'
    BY <1>1, <2>1, <2>2, <2>3, HaltConstant, SMTT(30) DEF HaltInv, HaltTypeOK, ListsInv
  <2>5. \A i \in DOMAIN halt.disks : i < at + 1 /\ Wanted(i) => i \in flushed'
    <3>1. \A i \in DOMAIN halt.disks : i < at /\ Wanted(i) => i \in flushed
      BY <1>1 DEF HaltInv, DisksInv
    <3>2. \A i \in DOMAIN halt.disks : i < at + 1 => i < at \/ i = at
      BY <2>1, SMTT(30) DEF HaltInv, ListsInv
    <3> QED BY <2>2, <3>1, <3>2
  <2>6. DisksInv'
    BY <1>1, <1>3, <2>1, <2>5, HaltConstant DEF DisksInv, Stops
  <2>7. HaltedInv'
    BY <1>1, <1>4, <1>c, <2>1, SMTT(30) DEF HaltedInv
  <2> QED BY <1>2, <1>7, <2>4, <2>6, <2>7 DEF HaltInv
<1>6. CASE ~(at <= Len(halt.disks) /\ List1(halt.disks[at]) # "stop")
  <2>1. hpc' = (IF do_nothing THEN "exit0" ELSE "down") /\ UNCHANGED <<at, flushed, standby>>
    BY <1>6 DEF Disks
  <2>2. Walked
    <3> SUFFICES ASSUME NEW i \in DOMAIN halt.disks, Reached(i), Wanted(i)
                 PROVE  i \in flushed
      BY DEF Walked
    <3>1. at \in 1 .. i => List1(halt.disks[at]) # "stop"
      BY DEF Reached
    <3>2. i < at
      BY <1>6, <3>1, SMTT(30) DEF HaltInv, ListsInv
    <3> QED BY <1>1, <3>2 DEF HaltInv, DisksInv
  <2>3. Walked'
    BY <1>1, <2>1, <2>2, HaltConstant DEF Walked
  <2>4. HaltTypeOK' /\ ListsInv'
    BY <1>1, <2>1, HaltConstant DEF HaltInv, HaltTypeOK, ListsInv
  <2>5. DisksInv'
    BY <1>1, <1>3, <2>1, <2>3, HaltConstant DEF DisksInv, Stops
  <2>6. HaltedInv'
    BY <1>1, <1>4, <1>c, <2>1, SMTT(30) DEF HaltedInv
  <2> QED BY <1>2, <1>7, <2>4, <2>5, <2>6 DEF HaltInv
<1> QED BY <1>5, <1>6

\* reboot(), one way after the other, and back from it.
LEMMA DownKeeps ==
  ASSUME HaltInv, Down \/ LastWay \/ ComeBack
  PROVE  HaltInv'
<1>1. UNCHANGED <<halt, synced, pass, at, ups, flushed, standby>>
  BY DEF Down, LastWay, ComeBack
<1>2. hpc \in {"down", "reboot", "halt", "back", "off"} /\ ~do_nothing
  BY DEF Down, LastWay, ComeBack, HaltInv, HaltedInv
<1>3. hpc' \in {"reboot", "halt", "back", "off", "exit0"} /\ (hpc' # "off" => fate' = "up")
  BY DEF Down, LastWay, ComeBack, Reboots, HaltInv, HaltedInv
<1>4. hpc' \notin {"halt", "back", "off"} => cad' = FALSE /\ stopped' = FALSE
  BY DEF Down, LastWay, ComeBack, Reboots, HaltInv, HaltedInv
<1>5. hpc' # "exit0" => Walked /\ (Has("n") \/ synced)
  BY <1>2 DEF Down, LastWay, ComeBack, Reboots, HaltInv, DisksInv
<1>6. HaltTypeOK' /\ ListsInv'
  BY <1>1, <1>3, HaltConstant DEF HaltInv, HaltTypeOK, ListsInv
<1>7. IfdownInv'
  BY <1>1, <1>3, HaltConstant DEF HaltInv, IfdownInv
<1>8. DisksInv'
  <2>1. Walked' = Walked
    BY <1>1, HaltConstant DEF Walked
  <2> QED BY <1>1, <1>3, <1>5, <2>1, HaltConstant DEF DisksInv, Stops
<1>9. HaltedInv'
  BY <1>1, <1>2, <1>3, <1>4, HaltConstant, SMTT(30) DEF HaltedInv
<1>10. NetInv'
  <2>1. Touched' = Touched
    BY <1>1 DEF Touched
  <2> QED BY <1>1, <1>3, <2>1, HaltConstant DEF HaltInv, NetInv
<1> QED BY <1>6, <1>7, <1>8, <1>9, <1>10 DEF HaltInv

\* main(), step by step.
LEMMA HaltStepKeeps == HaltInv /\ [HaltStep]_haltVars => HaltInv'
<1> SUFFICES ASSUME HaltInv, [HaltStep]_haltVars PROVE HaltInv'
  OBVIOUS
<1>1. CASE UNCHANGED haltVars
  <2>1. Walked' = Walked
    BY <1>1, HaltConstant DEF haltVars, Walked
  <2>2. HaltTypeOK' /\ ListsInv' /\ IfdownInv' /\ DisksInv'
    BY <1>1, <2>1, HaltConstant DEF haltVars, HaltInv, HaltTypeOK, ListsInv, IfdownInv, DisksInv
  <2>5. NetInv'
    BY <1>1, HaltConstant DEF haltVars, HaltInv, NetInv, Touched
  <2>3. /\ AreUp' = AreUp /\ do_nothing' = do_nothing
        /\ UNCHANGED <<halt, hpc, synced, pass, at, ups, flushed, standby, cad, stopped, fate>>
    BY <1>1, HaltConstant DEF haltVars
  <2>4. HaltedInv'
    BY <2>3 DEF HaltInv, HaltedInv
  <2> QED BY <2>2, <2>4, <2>5 DEF HaltInv
<1> QED BY <1>1, PrepareKeeps, IfdownKeeps, DisksKeeps, DownKeeps DEF HaltStep

\* Whatever the options, the interfaces, the disks, the answers of the kernel and
\* MAX_IFS: sync() comes first, unless -n forbids it; among the first MAX_IFS
\* interfaces the shapers go down before the others, and with -i all of them
\* before a disk is touched; and the system stops only after the disks of
\* list_disks() were flushed that come before one that stops its walk.
THEOREM StopsInOrder ==
  ASSUME NEW Jobs, NEW Ifs, NEW Devs, \A j \in Jobs : j.ifs \in Seq(Ifs) /\ j.disks \in Seq(Devs)
  PROVE  HaltStart(Jobs) /\ [][HaltStep]_haltVars => []HaltInOrder
<1>1. HaltStart(Jobs) => HaltInv
  BY HaltInitial
<1>2. HaltInv => HaltInOrder
  <2> SUFFICES ASSUME HaltInv PROVE HaltInOrder
    OBVIOUS
  <2>1. HaltFlushed
    BY DEF HaltInv, DisksInv, HaltFlushed, Walked, Wanted, Reached, Stops
  <2>2. HaltShapers
    BY DEF HaltInv, IfdownInv, ListsInv, HaltShapers, Shaper, AreUp
  <2>3. HaltSynced
    BY DEF HaltInv, DisksInv, NetInv, HaltSynced, Touched, AreUp, Stops
  <2>4. HaltNetFirst
    BY DEF HaltInv, NetInv, HaltNetFirst, Touched, Shaper, Other
  <2> QED BY <2>1, <2>2, <2>3, <2>4 DEF HaltInOrder
<1> QED BY <1>1, <1>2, HaltStepKeeps, PTL

\* A program that did not stop the system leaves init running and CTRL-ALT-DEL to
\* init, and -w without -h and -i changes nothing but the record, for every
\* machine, option and answer of the kernel.
THEOREM StayingIsHarmless ==
  ASSUME NEW Jobs, NEW Ifs, NEW Devs, \A j \in Jobs : j.ifs \in Seq(Ifs) /\ j.disks \in Seq(Devs)
  PROVE  HaltStart(Jobs) /\ [][HaltStep]_haltVars => []HaltHarmless
<1>1. HaltStart(Jobs) => HaltInv
  BY HaltInitial
<1>2. HaltInv => HaltHarmless
  <2> SUFFICES ASSUME HaltInv PROVE HaltHarmless
    OBVIOUS
  <2>1. HaltUndone
    BY DEF HaltInv, HaltedInv, HaltUndone
  <2>2. HaltRecordOnly
    BY DEF HaltInv, HaltedInv, HaltRecordOnly, AreUp
  <2> QED BY <2>1, <2>2 DEF HaltHarmless
<1> QED BY <1>1, <1>2, HaltStepKeeps, PTL

============================================================================
