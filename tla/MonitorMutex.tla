---------------------------- MODULE MonitorMutex ----------------------------
(***************************************************************************)
(* monitors/mutex.c and monitors/mutex_relaxed.c: a mutex simulated with a *)
(* pthread mutex and a condition variable.  In the relaxed version         *)
(* unlock() touches neither the pthread mutex nor any other lock.          *)
(* monitors/CounterMutex.java is mutex.c with a synchronized object.       *)
(***************************************************************************)
EXTENDS CountLoop

CONSTANT Relaxed   \* TRUE for mutex_relaxed.c

VARIABLES
  locked,    \* the simulated mutex
  mutex,     \* the threads that hold the pthread mutex
  sleeping   \* the threads blocked in pthread_cond_wait

monvars == <<locked, mutex, sleeping>>
vars == <<loopvars, monvars>>

Init == LoopInit /\ locked = 0 /\ mutex = {} /\ sleeping = {}

-----------------------------------------------------------------------------
(* lock() *)

\* Mutant: an if in place of the while: a woken thread does not test again.
AcquireNoRetest(t) ==
  /\ pc[t] \in {"begin", "relock"}
  /\ mutex = {}
  /\ \/ pc[t] = "begin" /\ mutex' = {t} /\ Goto(t, "test") /\ UNCHANGED locked
     \/ pc[t] = "relock" /\ locked' = 1 /\ Goto(t, "load") /\ UNCHANGED mutex
  /\ UNCHANGED <<counter, reg, iter, sleeping>>

\* pthread_mutex_lock, by lock() or by pthread_cond_wait before it returns.
Acquire(t) == /\ pc[t] \in {"begin", "relock"}
              /\ mutex = {}
              /\ mutex' = {t}
              /\ Goto(t, "test")
              /\ UNCHANGED <<counter, reg, iter, locked, sleeping>>

\* while (locked): on to the wait, or locked = 1 and pthread_mutex_unlock.
Test(t) ==
  /\ pc[t] = "test"
  /\ \/ /\ locked = 1
        /\ Goto(t, "wait")
        /\ UNCHANGED <<locked, mutex>>
     \/ /\ locked = 0
        /\ locked' = 1
        /\ mutex' = {}
        /\ Goto(t, "load")
  /\ UNCHANGED <<counter, reg, iter, sleeping>>

\* pthread_cond_wait: the mutex is released and the thread queued in one step.
Wait(t) == /\ pc[t] = "wait"
           /\ mutex' = {}
           /\ sleeping' = sleeping \cup {t}
           /\ Goto(t, "asleep")
           /\ UNCHANGED <<counter, reg, iter, locked>>

\* POSIX lets pthread_cond_wait return with no signal.
SpuriousWake(t) == /\ t \in sleeping
                   /\ sleeping' = sleeping \ {t}
                   /\ Goto(t, "relock")
                   /\ UNCHANGED <<counter, reg, iter, locked, mutex>>

-----------------------------------------------------------------------------
(* count() and unlock() *)

\* `counter += 1` in count().
Count(t) == (Load(t) \/ Store(t)) /\ UNCHANGED monvars

\* pthread_cond_signal as the last call of unlock(): one waiter, if any, wakes.
SignalAndLeave(t) ==
  /\ iter' = [iter EXCEPT ![t] = @ + 1]
  /\ \/ sleeping = {} /\ sleeping' = sleeping /\ Goto(t, After(t))
     \/ \E w \in sleeping :
          /\ sleeping' = sleeping \ {w}
          /\ pc' = [pc EXCEPT ![t] = After(t), ![w] = "relock"]
  /\ UNCHANGED <<counter, reg>>

\* unlock() of mutex.c, all of it under the pthread mutex.
Unlock(t) == /\ pc[t] = "unlock" /\ ~ Relaxed
             /\ mutex = {}
             /\ locked' = 0
             /\ SignalAndLeave(t)
             /\ UNCHANGED mutex

\* unlock() of mutex_relaxed.c: locked = 0 ...
RelaxedStore(t) == /\ pc[t] = "unlock" /\ Relaxed
                   /\ locked' = 0
                   /\ Goto(t, "signal")
                   /\ UNCHANGED <<counter, reg, iter, mutex, sleeping>>

\* ... and pthread_cond_signal.
RelaxedSignal(t) == /\ pc[t] = "signal"
                    /\ SignalAndLeave(t)
                    /\ UNCHANGED <<locked, mutex>>

Step(t) == \/ Acquire(t) \/ Test(t) \/ Wait(t) \/ Count(t)
           \/ Unlock(t) \/ RelaxedStore(t) \/ RelaxedSignal(t)

\* main: the threads run until all of them have been joined.
Join == Joined /\ UNCHANGED monvars

Next == (\E t \in Threads : Step(t) \/ SpuriousWake(t)) \/ Join

Spec == Init /\ [][Next]_vars

\* A thread that can execute its next instruction eventually does, and
\* spurious wakeups do not go on for ever (an endless storm of them could keep
\* the pthread mutex from the thread that wants to unlock).
FairSpec == /\ Spec
            /\ \A t \in Threads : WF_vars(Step(t))
            /\ <>[][\A t \in Threads : ~ SpuriousWake(t)]_vars

-----------------------------------------------------------------------------

\* The increments that count() has made so far.
Made == [t \in Threads |->
          IF pc[t] \in {"unlock", "signal"} THEN iter[t] + 1 ELSE iter[t]]

Atomic == INSTANCE AtomicCounter WITH total <- counter, done <- Made

\* Under the simulated mutex, `counter += 1` behaves as one atomic increment,
\* in both versions.
AtomicIncrements == Atomic!ASpec

\* No wakeup is lost: while the mutex is free, a thread that waits for it was
\* signalled, or another one is about to take it or to signal.
NoLostWakeup ==
  sleeping # {} /\ locked = 0 =>
    \E t \in Threads : pc[t] \in {"begin", "relock", "test", "signal"}

\* Every thread finishes its iterations and main prints the expected count.
Termination == <>(AllDone /\ counter = Cardinality(Threads) * Max)
=============================================================================
