------------------------------ MODULE FifoLock ------------------------------
(***************************************************************************)
(* What a queue lock promises: the threads get in one at a time, in the    *)
(* order in which they arrived.                                            *)
(***************************************************************************)
EXTENDS Sequences

CONSTANT Threads

VARIABLES
  queue,    \* the threads that have arrived and wait, in order
  inside    \* the threads inside

Init == queue = <<>> /\ inside = {}

Arrive(t) == queue' = Append(queue, t) /\ UNCHANGED inside

Enter(t) == /\ inside = {}
            /\ queue # <<>> /\ Head(queue) = t
            /\ queue' = Tail(queue)
            /\ inside' = {t}

Leave(t) == t \in inside /\ inside' = inside \ {t} /\ UNCHANGED queue

Next == \E t \in Threads : Arrive(t) \/ Enter(t) \/ Leave(t)

Spec == Init /\ [][Next]_<<queue, inside>>
=============================================================================
