--------------------------- MODULE AtomicCounter ---------------------------
(***************************************************************************)
(* What every counting program of the repository promises.  Each program   *)
(* starts NUM_THREADS threads that execute `counter += 1` MAX_COUNT /      *)
(* NUM_THREADS times each under the lock it demonstrates, and prints       *)
(*     Counter value: %d Expected: %d                                      *)
(* The promise is that the increments behave as if they were atomic: the   *)
(* counter only ever moves up by one, on behalf of one thread that still   *)
(* owed an increment.  The lock modules are shown to implement this.       *)
(***************************************************************************)
EXTENDS Naturals

CONSTANTS
  Threads,   \* the threads main creates
  Max        \* increments each thread makes (MAX_COUNT/NUM_THREADS)

VARIABLES
  total,     \* the value of the shared counter
  done       \* done[t]: the increments thread t has made

avars == <<total, done>>

AInit == /\ total = 0
         /\ done = [t \in Threads |-> 0]

\* One indivisible `counter += 1`.
Increment(t) == /\ done[t] < Max
                /\ total' = total + 1
                /\ done' = [done EXCEPT ![t] = @ + 1]

ANext == \E t \in Threads : Increment(t)

ASpec == AInit /\ [][ANext]_avars
=============================================================================
