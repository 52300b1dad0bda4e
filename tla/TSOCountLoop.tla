---------------------------- MODULE TSOCountLoop ----------------------------
(***************************************************************************)
(* The body of count() over the memory of module TSO: the counter is a     *)
(* memory word like those of the lock, so that an increment can sit in the *)
(* store buffer of a thread that has already left its critical section.    *)
(***************************************************************************)
EXTENDS TSO, FiniteSets

CONSTANT Iterations   \* iterations of each thread (MAX_COUNT/NUM_THREADS)

ASSUME IterationsAssumption == Iterations \in Nat \ {0}

\* main starts NUM_THREADS threads.
ASSUME ThreadsAssumption == IsFiniteSet(Threads)

VARIABLES
  pc,        \* pc[t]: the next instruction of thread t
  reg,       \* reg[t]: the register t increments counter in
  iter       \* iter[t]: the loop variable i of count()

loopvars == <<pc, reg, iter>>

Counter == <<"counter", 0>>

LoopInit == /\ pc = [t \in Threads |-> "begin"]
            /\ reg = [t \in Threads |-> 0]
            /\ iter = [t \in Threads |-> 0]

Goto(t, label) == pc' = [pc EXCEPT ![t] = label]

\* `counter += 1`, first half.
Load(t) == /\ pc[t] = "load"
           /\ reg' = [reg EXCEPT ![t] = Read(t, Counter)]
           /\ Goto(t, "store")
           /\ UNCHANGED <<iter, mem, buf>>

\* Second half; the register is dead from here on.
Store(t) == /\ pc[t] = "store"
            /\ Write(t, Counter, reg[t] + 1)
            /\ reg' = [reg EXCEPT ![t] = 0]
            /\ Goto(t, "unlock")
            /\ UNCHANGED iter

\* i++ and the test of the for loop: where thread t goes after unlock().
After(t) == IF iter[t] + 1 = Iterations THEN "done" ELSE "begin"

\* The last instruction of unlock().
EndIteration(t) ==
  /\ iter' = [iter EXCEPT ![t] = @ + 1]
  /\ Goto(t, After(t))
  /\ UNCHANGED reg

\* A store buffer drains by itself.
Drain(t) == Flush(t) /\ UNCHANGED loopvars

\* The exit of a thread, which main's join waits for, drains its buffer.
AllDone == \A t \in Threads : pc[t] = "done" /\ Drained(t)

Joined == AllDone /\ UNCHANGED <<loopvars, memvars>>

-----------------------------------------------------------------------------
\* At most one thread is between the return of lock() and unlock().
MutualExclusion ==
  \A s, t \in Threads :
    pc[s] \in {"load", "store", "unlock"} /\ pc[t] \in {"load", "store", "unlock"}
      => s = t

\* When main has joined the threads, the counter has the value that every
\* program prints next to it: `Counter value: %d Expected: %d`.
ExpectedCount ==
  AllDone => mem[Counter] = Cardinality(Threads) * Iterations

\* Every thread finishes and main prints the expected count.
Termination ==
  <>(AllDone /\ mem[Counter] = Cardinality(Threads) * Iterations)
=============================================================================
