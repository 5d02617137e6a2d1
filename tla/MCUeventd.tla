----------------------------- MODULE MCUeventd -----------------------------
(* Instances of Ueventd for TLC.                                           *)
EXTENDS Ueventd, TLC

CONSTANTS q1, q2, e1, e2, p1, p2, p3

OneQueue == [e \in Event |-> q1]
TwoQueues == [e \in Event |-> IF e = e2 THEN q2 ELSE q1]

PidSymmetry == Permutations(Pid)

\* Sound where all events belong to one queue.
PidEventSymmetry == Permutations(Pid) \cup Permutations(Event)

============================================================================
