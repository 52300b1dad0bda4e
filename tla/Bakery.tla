------------------------------- MODULE Bakery -------------------------------
(***************************************************************************)
(* intro/bakery.c: Lamport's bakery algorithm.  max() reads each number    *)
(* once to compare it and once more to take it, and the waiting loop reads *)
(* number[j] up to three times for each test; each read is a step here.    *)
(***************************************************************************)
EXTENDS TSOCountLoop

N == Cardinality(Threads)   \* NUM_THREADS; Threads is 0..N-1

VARIABLES
  j,     \* j[i]: the index of the for loop of max() or of lock()
  max    \* max[i]: the greatest number max() has taken so far

vars == <<loopvars, memvars, j, max>>

Choosing(i) == <<"choosing", i>>
Number(i) == <<"number", i>>

Init == /\ LoopInit
        /\ MemInit([a \in {Choosing(i) : i \in Threads} \cup
                          {Number(i) : i \in Threads} \cup {Counter} |-> 0])
        /\ j = [i \in Threads |-> 0]
        /\ max = [i \in Threads |-> 0]

\* The for loop of the calling function goes on to the next index, or to exit.
NextIndex(i, loop, exit) ==
  /\ j' = [j EXCEPT ![i] = (@ + 1) % N]
  /\ Goto(i, IF j[i] + 1 < N THEN loop ELSE exit)

-----------------------------------------------------------------------------
(* lock() *)

\* choosing[i] = 1 and the call of max().  The __ATOMIC_RELEASE fence in
\* between does not order the store with the loads of max().
SetChoosing(i) == /\ pc[i] = "begin"
                  /\ Write(i, Choosing(i), 1)
                  /\ max' = [max EXCEPT ![i] = 0]
                  /\ Goto(i, "maxTest")
                  /\ UNCHANGED <<reg, iter, j>>

\* max(): if (v[i] > max)
MaxTest(i) ==
  /\ pc[i] = "maxTest"
  /\ IF Read(i, Number(j[i])) > max[i]
       THEN Goto(i, "maxTake") /\ UNCHANGED j
       ELSE NextIndex(i, "maxTest", "number")
  /\ UNCHANGED <<reg, iter, memvars, max>>

\* max(): max = v[i], a second read.
MaxTake(i) ==
  /\ pc[i] = "maxTake"
  /\ max' = [max EXCEPT ![i] = Read(i, Number(j[i]))]
  /\ NextIndex(i, "maxTest", "number")
  /\ UNCHANGED <<reg, iter, memvars>>

\* number[i] = max(...) + 1
SetNumber(i) == /\ pc[i] = "number"
                /\ Write(i, Number(i), max[i] + 1)
                /\ Goto(i, "chosen")
                /\ UNCHANGED <<reg, iter, j, max>>

\* The full fence, then choosing[i] = 0.
Chosen(i) == /\ pc[i] = "chosen"
             /\ Drained(i)
             /\ Write(i, Choosing(i), 0)
             /\ Goto(i, "choosing")
             /\ UNCHANGED <<reg, iter, j, max>>

\* while (choosing[j]);
AwaitChoosing(i) == /\ pc[i] = "choosing"
                    /\ Goto(i, IF Read(i, Choosing(j[i])) = 0 THEN "positive"
                                                              ELSE "choosing")
                    /\ UNCHANGED <<reg, iter, memvars, j, max>>

\* while (number[j] > 0 && ...
TestPositive(i) ==
  /\ pc[i] = "positive"
  /\ IF Read(i, Number(j[i])) > 0
       THEN Goto(i, "less") /\ UNCHANGED j
       ELSE NextIndex(i, "choosing", "load")
  /\ UNCHANGED <<reg, iter, memvars, max>>

\* ... (number[j] < number[i] || ...
TestLess(i) ==
  /\ pc[i] = "less"
  /\ Goto(i, IF Read(i, Number(j[i])) < Read(i, Number(i)) THEN "positive"
                                                           ELSE "equal")
  /\ UNCHANGED <<reg, iter, memvars, j, max>>

\* Mutant: every tie waits.
TestEqualAlways(i) ==
  /\ pc[i] = "equal"
  /\ IF Read(i, Number(j[i])) = Read(i, Number(i)) /\ j[i] # i
       THEN Goto(i, "positive") /\ UNCHANGED j
       ELSE NextIndex(i, "choosing", "load")
  /\ UNCHANGED <<reg, iter, memvars, max>>

\* ... number[j] == number[i] && j < i)), the tie broken by the index.
TestEqual(i) ==
  /\ pc[i] = "equal"
  /\ IF Read(i, Number(j[i])) = Read(i, Number(i)) /\ j[i] < i
       THEN Goto(i, "positive") /\ UNCHANGED j
       ELSE NextIndex(i, "choosing", "load")
  /\ UNCHANGED <<reg, iter, memvars, max>>

-----------------------------------------------------------------------------

\* `counter += 1` in count().
Count(i) == (Load(i) \/ Store(i)) /\ UNCHANGED <<j, max>>

\* unlock(): the full fence, then number[i] = 0.
Unlock(i) == /\ pc[i] = "unlock"
             /\ Drained(i)
             /\ Write(i, Number(i), 0)
             /\ EndIteration(i)
             /\ UNCHANGED <<j, max>>

Step(i) == \/ SetChoosing(i) \/ MaxTest(i) \/ MaxTake(i) \/ SetNumber(i)
           \/ Chosen(i) \/ AwaitChoosing(i)
           \/ TestPositive(i) \/ TestLess(i) \/ TestEqual(i)
           \/ Count(i) \/ Unlock(i)

Join == Joined /\ UNCHANGED <<j, max>>

DrainStep(i) == Drain(i) /\ UNCHANGED <<j, max>>

Next == (\E i \in Threads : Step(i) \/ DrainStep(i)) \/ Join

Spec == Init /\ [][Next]_vars

\* Processors execute instructions and drain store buffers.
FairSpec == Spec /\ \A i \in Threads : WF_vars(Step(i)) /\ WF_vars(DrainStep(i))

-----------------------------------------------------------------------------

Waiting(i) == pc[i] \in {"choosing", "positive", "less", "equal"}

\* First come, first served: once a thread has gone past index k in its
\* waiting loop, thread k does not get into the critical section before it.
PassedIsBehind ==
  \A i, k \in Threads :
    i # k /\ Waiting(i) /\ j[i] > k => pc[k] \notin {"load", "store", "unlock"}
=============================================================================
