------------------------------ MODULE Barrier ------------------------------
(***************************************************************************)
(* What a reusable barrier promises: a thread leaves its k-th barrier only *)
(* when every thread has reached its k-th.                                 *)
(***************************************************************************)
EXTENDS Naturals

CONSTANT Threads

VARIABLES
  round,     \* round[t]: the barriers t has left
  waiting    \* the threads inside barrier()

Init == round = [t \in Threads |-> 0] /\ waiting = {}

Reached(s, k) == round[s] > k \/ (round[s] = k /\ s \in waiting)

\* Some threads reach the barrier.
Arrive(S) == /\ S \cap waiting = {}
             /\ waiting' = waiting \cup S
             /\ UNCHANGED round

\* Some threads leave it.
Depart(S) == /\ S \subseteq waiting
             /\ \A t \in S, s \in Threads : Reached(s, round[t])
             /\ round' = [t \in Threads |-> IF t \in S THEN round[t] + 1
                                                       ELSE round[t]]
             /\ waiting' = waiting \ S

Next == \E S \in SUBSET Threads : Arrive(S) \/ Depart(S)

Spec == Init /\ [][Next]_<<round, waiting>>
=============================================================================
