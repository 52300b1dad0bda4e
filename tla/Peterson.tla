------------------------------ MODULE Peterson ------------------------------
(***************************************************************************)
(* intro/peterson.c: Peterson's algorithm for two threads, with one full   *)
(* fence between the stores of lock() and the loop that reads them back.   *)
(* Threads is {0, 1}.                                                      *)
(***************************************************************************)
EXTENDS TSOCountLoop

vars == <<loopvars, memvars>>

States(i) == <<"states", i>>
Turn == <<"turn", 0>>

Init == /\ LoopInit
        /\ MemInit([a \in {States(0), States(1), Turn, Counter} |-> 0])

Other(i) == (i + 1) % 2

-----------------------------------------------------------------------------
(* lock() *)

\* states[i] = 1
SetState(i) == /\ pc[i] = "begin"
               /\ Write(i, States(i), 1)
               /\ Goto(i, "turn")
               /\ UNCHANGED <<reg, iter>>

\* turn = j
GiveTurn(i) == /\ pc[i] = "turn"
               /\ Write(i, Turn, Other(i))
               /\ Goto(i, "fence")
               /\ UNCHANGED <<reg, iter>>

\* Mutant: no fence.
NoFence(i) == /\ pc[i] = "fence"
              /\ Goto(i, "states")
              /\ UNCHANGED <<reg, iter, memvars>>

\* __atomic_thread_fence(__ATOMIC_SEQ_CST)
Fence(i) == /\ pc[i] = "fence"
            /\ Drained(i)
            /\ Goto(i, "states")
            /\ UNCHANGED <<reg, iter, memvars>>

\* The loop reads states[j] ...
TestStates(i) ==
  /\ pc[i] = "states"
  /\ Goto(i, IF Read(i, States(Other(i))) = 0 THEN "load" ELSE "testTurn")
  /\ UNCHANGED <<reg, iter, memvars>>

\* ... and, when it is set, turn.
TestTurn(i) ==
  /\ pc[i] = "testTurn"
  /\ Goto(i, IF Read(i, Turn) = Other(i) THEN "states" ELSE "load")
  /\ UNCHANGED <<reg, iter, memvars>>

-----------------------------------------------------------------------------

\* `counter += 1` in count().
Count(i) == Load(i) \/ Store(i)

\* unlock(): states[i] = 0, with no fence.
Unlock(i) == /\ pc[i] = "unlock"
             /\ Write(i, States(i), 0)
             /\ EndIteration(i)

Step(i) == \/ SetState(i) \/ GiveTurn(i) \/ Fence(i)
           \/ TestStates(i) \/ TestTurn(i) \/ Count(i) \/ Unlock(i)

Join == Joined

Next == (\E i \in Threads : Step(i) \/ Drain(i)) \/ Join

Spec == Init /\ [][Next]_vars

\* Processors execute instructions and drain store buffers.
FairSpec == Spec /\ \A i \in Threads : WF_vars(Step(i)) /\ WF_vars(Drain(i))

-----------------------------------------------------------------------------

\* A step that keeps to the turn: when a thread waits past its fence and the
\* other has given it the turn after that, the other does not get in first.
TurnGoesFirst ==
  \A i \in Threads :
    /\ pc[i] \in {"states", "testTurn"}
    /\ mem[Turn] = i
    /\ pc[Other(i)] # "load"
    => pc'[Other(i)] # "load"
=============================================================================
