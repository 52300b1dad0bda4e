----------------------------- MODULE CountLoop -----------------------------
(***************************************************************************)
(* The harness shared by the counting programs (intro, hardware,           *)
(* spinlocks, futex, monitors): the body of count(), with `counter += 1`   *)
(* as the two memory accesses the unoptimised build makes of it.  A lock   *)
(* module extends this one, adds the actions of its lock() between the     *)
(* labels "begin" and "load", and those of its unlock() from the label     *)
(* "unlock" to the end of the iteration.                                   *)
(***************************************************************************)
EXTENDS Naturals, FiniteSets

CONSTANTS
  Threads,   \* the threads main creates
  Max        \* iterations of each (MAX_COUNT/NUM_THREADS in the code)

ASSUME MaxAssumption == Max \in Nat \ {0}

VARIABLES
  pc,        \* pc[t]: the next instruction of thread t
  counter,   \* the shared variable the program increments
  reg,       \* reg[t]: the register t increments counter in
  iter       \* iter[t]: the loop variable i of count()

loopvars == <<pc, counter, reg, iter>>

LoopInit == /\ pc = [t \in Threads |-> "begin"]
            /\ counter = 0
            /\ reg = [t \in Threads |-> 0]
            /\ iter = [t \in Threads |-> 0]

Goto(t, label) == pc' = [pc EXCEPT ![t] = label]

\* `counter += 1`, first half: counter is read into a register.
Load(t) == /\ pc[t] = "load"
           /\ reg' = [reg EXCEPT ![t] = counter]
           /\ Goto(t, "store")
           /\ UNCHANGED <<counter, iter>>

\* Second half: the incremented value is written back.  The register is dead
\* from here on and is cleared, so that states do not differ in it.
Store(t) == /\ pc[t] = "store"
            /\ counter' = reg[t] + 1
            /\ reg' = [reg EXCEPT ![t] = 0]
            /\ Goto(t, "unlock")
            /\ UNCHANGED iter

\* i++ and the test of the for loop: where thread t goes after unlock().
After(t) == IF iter[t] + 1 = Max THEN "done" ELSE "begin"

\* The last instruction of unlock().
EndIteration(t) ==
  /\ iter' = [iter EXCEPT ![t] = @ + 1]
  /\ Goto(t, After(t))
  /\ UNCHANGED <<counter, reg>>

AllDone == \A t \in Threads : pc[t] = "done"

\* main has joined every thread: the program prints its result and ends.
Joined == AllDone /\ UNCHANGED loopvars
=============================================================================
