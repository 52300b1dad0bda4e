----------------------------- MODULE FastMutex -----------------------------
(***************************************************************************)
(* intro/fast.c: Lamport's fast mutex.  Without contention a thread makes  *)
(* seven accesses; with contention it withdraws and waits for the flags b. *)
(***************************************************************************)
EXTENDS TSOCountLoop, Integers

N == Cardinality(Threads)   \* NUM_THREADS; Threads is 0..N-1

VARIABLE j   \* j[i]: the index of the for loop of lock()

vars == <<loopvars, memvars, j>>

B(i) == <<"b", i>>
X == <<"x", 0>>
Y == <<"y", 0>>

Init == /\ LoopInit
        /\ MemInit([a \in {B(i) : i \in Threads} \cup {X, Y, Counter} |->
                      IF a \in {X, Y} THEN -1 ELSE 0])
        /\ j = [i \in Threads |-> 0]

-----------------------------------------------------------------------------
(* lock() *)

\* start: b[i] = 1
RaiseB(i) == /\ pc[i] = "begin"
             /\ Write(i, B(i), 1)
             /\ Goto(i, "x")
             /\ UNCHANGED <<reg, iter, j>>

\* x = i
SetX(i) == /\ pc[i] = "x"
           /\ Write(i, X, i)
           /\ Goto(i, "testY")
           /\ UNCHANGED <<reg, iter, j>>

\* The full fence, then if (y >= 0)
TestY(i) == /\ pc[i] = "testY"
            /\ Drained(i)
            /\ Goto(i, IF Read(i, Y) >= 0 THEN "withdraw" ELSE "y")
            /\ UNCHANGED <<reg, iter, memvars, j>>

\* b[i] = 0 before waiting for y
Withdraw(i) == /\ pc[i] = "withdraw"
               /\ Write(i, B(i), 0)
               /\ Goto(i, "awaitY")
               /\ UNCHANGED <<reg, iter, j>>

\* while (y >= 0); goto start, at both of its places
AwaitY(i) == /\ pc[i] = "awaitY"
             /\ Goto(i, IF Read(i, Y) < 0 THEN "begin" ELSE "awaitY")
             /\ UNCHANGED <<reg, iter, memvars, j>>

\* y = i
SetY(i) == /\ pc[i] = "y"
           /\ Write(i, Y, i)
           /\ Goto(i, "testX")
           /\ UNCHANGED <<reg, iter, j>>

\* The full fence, then if (x != i)
TestX(i) == /\ pc[i] = "testX"
            /\ Drained(i)
            /\ Goto(i, IF Read(i, X) = i THEN "load" ELSE "lower")
            /\ UNCHANGED <<reg, iter, memvars, j>>

\* b[i] = 0 on the slow path
LowerB(i) == /\ pc[i] = "lower"
             /\ Write(i, B(i), 0)
             /\ Goto(i, "awaitB")
             /\ UNCHANGED <<reg, iter, j>>

\* Mutant: the flags of the others are not awaited.
SkipB(i) == /\ pc[i] = "awaitB"
            /\ Goto(i, "recheckY")
            /\ UNCHANGED <<reg, iter, memvars, j>>

\* for (j ...) while (b[j]);
AwaitB(i) ==
  /\ pc[i] = "awaitB"
  /\ IF Read(i, B(j[i])) = 0
       THEN /\ j' = [j EXCEPT ![i] = (@ + 1) % N]
            /\ Goto(i, IF j[i] + 1 < N THEN "awaitB" ELSE "recheckY")
       ELSE UNCHANGED <<j, pc>>
  /\ UNCHANGED <<reg, iter, memvars>>

\* if (y != i)
RecheckY(i) == /\ pc[i] = "recheckY"
               /\ Goto(i, IF Read(i, Y) = i THEN "load" ELSE "awaitY")
               /\ UNCHANGED <<reg, iter, memvars, j>>

-----------------------------------------------------------------------------

\* `counter += 1` in count().
Count(i) == (Load(i) \/ Store(i)) /\ UNCHANGED j

\* unlock(): the full fence, then y = -1
ResetY(i) == /\ pc[i] = "unlock"
             /\ Drained(i)
             /\ Write(i, Y, -1)
             /\ Goto(i, "unlockB")
             /\ UNCHANGED <<reg, iter, j>>

\* unlock(): b[i] = 0
ResetB(i) == /\ pc[i] = "unlockB"
             /\ Write(i, B(i), 0)
             /\ EndIteration(i)
             /\ UNCHANGED j

Step(i) == \/ RaiseB(i) \/ SetX(i) \/ TestY(i) \/ Withdraw(i) \/ AwaitY(i)
           \/ SetY(i) \/ TestX(i) \/ LowerB(i) \/ AwaitB(i) \/ RecheckY(i)
           \/ Count(i) \/ ResetY(i) \/ ResetB(i)

DrainStep(i) == Drain(i) /\ UNCHANGED j

Join == Joined /\ UNCHANGED j

Next == (\E i \in Threads : Step(i) \/ DrainStep(i)) \/ Join

Spec == Init /\ [][Next]_vars

\* Processors execute instructions and drain store buffers.
FairSpec == Spec /\ \A i \in Threads : WF_vars(Step(i)) /\ WF_vars(DrainStep(i))

-----------------------------------------------------------------------------

\* A critical section is visible to newcomers: whatever the store buffers
\* hold, memory says y >= 0 for as long as a thread is inside.  (Another
\* thread may have overwritten y with its own index, and the previous owner's
\* y = -1 must not arrive late.)
InsideIsVisible ==
  \A i \in Threads : pc[i] \in {"load", "store", "unlock"} => mem[Y] >= 0
=============================================================================
