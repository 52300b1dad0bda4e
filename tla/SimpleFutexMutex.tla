-------------------------- MODULE SimpleFutexMutex --------------------------
(***************************************************************************)
(* futex/simple_mutex.c: a futex mutex with a count of waiters.  unlock()  *)
(* frees the word with a release store, a plain store on x86, and then     *)
(* loads the count, so the memory is that of module TSO.                   *)
(***************************************************************************)
EXTENDS TSOCountLoop

VARIABLE sleeping   \* the threads the kernel has queued on futex->locked

vars == <<loopvars, memvars, sleeping>>

Locked == <<"locked", 0>>
Waiters == <<"waiters", 0>>

Init == /\ LoopInit
        /\ MemInit([a \in {Locked, Waiters, Counter} |-> 0])
        /\ sleeping = {}

-----------------------------------------------------------------------------
(* lock() *)

\* local = exchange(locked, 1); if (local == 0) return
Exchange(t) == /\ pc[t] = "begin"
               /\ Update(t, Locked, 1)
               /\ Goto(t, IF mem[Locked] = 0 THEN "load" ELSE "inc")
               /\ UNCHANGED <<reg, iter, sleeping>>

\* fetch_add(waiters, 1)
IncWaiters(t) == /\ pc[t] = "inc"
                 /\ Update(t, Waiters, mem[Waiters] + 1)
                 /\ Goto(t, "wait")
                 /\ UNCHANGED <<reg, iter, sleeping>>

\* FUTEX_WAIT while the word is 1; the system call drains the buffer.
FutexWait(t) ==
  /\ pc[t] = "wait"
  /\ Drained(t)
  /\ \/ mem[Locked] = 1 /\ sleeping' = sleeping \cup {t} /\ Goto(t, "asleep")
     \/ mem[Locked] # 1 /\ sleeping' = sleeping /\ Goto(t, "dec")
  /\ UNCHANGED <<reg, iter, memvars>>

\* FUTEX_WAIT returns with no FUTEX_WAKE (a signal).
SpuriousWake(t) == /\ t \in sleeping
                   /\ sleeping' = sleeping \ {t}
                   /\ Goto(t, "dec")
                   /\ UNCHANGED <<reg, iter, memvars>>

\* fetch_sub(waiters, 1), and the while (1) of lock()
DecWaiters(t) == /\ pc[t] = "dec"
                 /\ Update(t, Waiters, mem[Waiters] - 1)
                 /\ Goto(t, "begin")
                 /\ UNCHANGED <<reg, iter, sleeping>>

-----------------------------------------------------------------------------

\* `counter += 1` in count().
Count(t) == (Load(t) \/ Store(t)) /\ UNCHANGED sleeping

\* unlock(): the release store of 0
Release(t) == /\ pc[t] = "unlock"
              /\ Write(t, Locked, 0)
              /\ Goto(t, "test")
              /\ UNCHANGED <<reg, iter, sleeping>>

\* Mutant: the test is off by one.
TestWaitersOff(t) ==
  /\ pc[t] = "test"
  /\ IF Read(t, Waiters) > 1 THEN Goto(t, "wake") /\ UNCHANGED <<reg, iter>>
                             ELSE EndIteration(t)
  /\ UNCHANGED <<memvars, sleeping>>

\* unlock(): if (futex->waiters > 0)
TestWaiters(t) ==
  /\ pc[t] = "test"
  /\ IF Read(t, Waiters) > 0 THEN Goto(t, "wake") /\ UNCHANGED <<reg, iter>>
                             ELSE EndIteration(t)
  /\ UNCHANGED <<memvars, sleeping>>

\* FUTEX_WAKE of one thread; the system call drains the buffer.
FutexWake(t) ==
  /\ pc[t] = "wake"
  /\ Drained(t)
  /\ iter' = [iter EXCEPT ![t] = @ + 1]
  /\ \/ sleeping = {} /\ sleeping' = sleeping /\ Goto(t, After(t))
     \/ \E w \in sleeping :
          /\ sleeping' = sleeping \ {w}
          /\ pc' = [pc EXCEPT ![t] = After(t), ![w] = "dec"]
  /\ UNCHANGED <<reg, memvars>>

Step(t) == \/ Exchange(t) \/ IncWaiters(t) \/ FutexWait(t) \/ DecWaiters(t)
           \/ Count(t) \/ Release(t) \/ TestWaiters(t) \/ FutexWake(t)

DrainStep(t) == Drain(t) /\ UNCHANGED sleeping

Join == Joined /\ UNCHANGED sleeping

Next == (\E t \in Threads : Step(t) \/ SpuriousWake(t) \/ DrainStep(t)) \/ Join

Spec == Init /\ [][Next]_vars

\* Processors execute instructions and drain store buffers.
FairSpec == Spec /\ \A t \in Threads : WF_vars(Step(t)) /\ WF_vars(DrainStep(t))

-----------------------------------------------------------------------------

\* A sleeper is never forgotten: while the lock is free and threads sleep,
\* some thread is on its way to wake one of them or to take the lock, after
\* which its own unlock() finds waiters > 0.
NoLostWakeup ==
  sleeping # {} /\ mem[Locked] = 0 =>
    \E t \in Threads : pc[t] \in {"test", "wake", "dec", "begin"}

\* waiters never counts fewer threads than the futex queue holds, so that the
\* test in unlock() cannot skip a sleeper that it can see.
WaitersCountSleepers == mem[Waiters] >= Cardinality(sleeping)
=============================================================================
