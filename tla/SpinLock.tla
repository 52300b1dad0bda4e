------------------------------ MODULE SpinLock ------------------------------
(***************************************************************************)
(* The spinlocks of spinlocks/ and hardware/ that keep one word, and the   *)
(* counter that needs no lock.  They are one algorithm: the programs       *)
(* differ in the instruction that takes the word, in whether they read the *)
(* word first, and in what a thread does after it has failed.  unlock() is *)
(* a plain store, so the memory is that of module TSO.                     *)
(***************************************************************************)
EXTENDS TSOCountLoop

VARIABLE prog    \* the program that runs; it never changes

vars == <<loopvars, memvars, prog>>

Mutex == <<"mutex", 0>>

Program(primitive, tested, pause) ==
  [primitive |-> primitive, tested |-> tested, pause |-> pause]

\* spinlocks/: the word is read before it is tried.
SimpleSpinlock == Program("test_and_set", TRUE, "none")
TestTestAndSet == Program("test_and_set", TRUE, "none")
TestAndSetYield == Program("test_and_set", TRUE, "yield")
TestAndSetBackoff == Program("test_and_set", TRUE, "backoff")
TestSwap == Program("exchange", TRUE, "none")
SwapYield == Program("exchange", TRUE, "yield")
SwapBackoff == Program("exchange", TRUE, "backoff")
TestCompareAndSwap == Program("compare_exchange", TRUE, "none")
GoTestCompareAndSwap == Program("compare_exchange", TRUE, "none")
CompareAndSwapYield == Program("compare_exchange", TRUE, "yield")
CompareAndSwapBackoff == Program("compare_exchange", TRUE, "backoff")

\* hardware/: it is tried at once.
CounterTestAndSet == Program("test_and_set", FALSE, "none")
CounterSwap == Program("exchange", FALSE, "none")
CounterGetAndSet == Program("exchange", FALSE, "none")
GoCounterSwap == Program("exchange", FALSE, "none")
CounterCompareAndSwap == Program("compare_exchange", FALSE, "none")
GoCounterCompareAndSwap == Program("compare_exchange", FALSE, "none")
CounterUltimate == Program("add_fetch", FALSE, "none")
GoCounterUltimate == Program("add_fetch", FALSE, "none")

Programs ==
  {SimpleSpinlock, TestTestAndSet, TestAndSetYield, TestAndSetBackoff,
   TestSwap, SwapYield, SwapBackoff, TestCompareAndSwap, GoTestCompareAndSwap,
   CompareAndSwapYield, CompareAndSwapBackoff, CounterTestAndSet, CounterSwap,
   CounterGetAndSet, GoCounterSwap, CounterCompareAndSwap,
   GoCounterCompareAndSwap, CounterUltimate, GoCounterUltimate}

Init == /\ prog \in Programs
        /\ LoopInit
        /\ MemInit([a \in {Mutex, Counter} |-> 0])

-----------------------------------------------------------------------------
(* lock() *)

Enter(t) == Goto(t, "load")

\* The end of the body of the loop.
Fail(t) == Goto(t, IF prog.pause = "none" THEN "begin" ELSE "pause")

\* The plain read of mutex in the condition of the loop.
TestMutex(t) == /\ pc[t] = "begin" /\ prog.tested
                /\ IF Read(t, Mutex) = 0 THEN Goto(t, "take") ELSE Fail(t)
                /\ UNCHANGED <<reg, iter, memvars, prog>>

\* t is at the atomic instruction of the loop.
Tries(t, primitive) ==
  /\ prog.primitive = primitive
  /\ pc[t] = IF prog.tested THEN "take" ELSE "begin"

\* The atomic instructions leave value in mutex; who found 0 has the lock.
Take(t, value) == /\ Update(t, Mutex, value)
                  /\ IF mem[Mutex] = 0 THEN Enter(t) ELSE Fail(t)
                  /\ UNCHANGED <<reg, iter, prog>>

\* __atomic_test_and_set(&mutex)
TestAndSet(t) == Tries(t, "test_and_set") /\ Take(t, 1)

\* __atomic_exchange(&mutex, &local, &local), where local is 1.
Exchange(t) == Tries(t, "exchange") /\ Take(t, 1)

\* Mutant: the outcome of the compare and swap is not looked at.
CompareExchangeIgnored(t) ==
  /\ Tries(t, "compare_exchange")
  /\ Update(t, Mutex, 1)
  /\ Enter(t)
  /\ UNCHANGED <<reg, iter, prog>>

\* __atomic_compare_exchange_n(&mutex, &local, 1), where local is 0.
CompareExchange(t) ==
  Tries(t, "compare_exchange") /\ Take(t, IF mem[Mutex] = 0 THEN 1 ELSE mem[Mutex])

\* sched_yield()
Yield(t) == /\ pc[t] = "pause" /\ prog.pause = "yield"
            /\ Goto(t, "begin")
            /\ UNCHANGED <<reg, iter, memvars, prog>>

\* backoff(++failures): the sleep is bounded, so that it only takes time.
Backoff(t) == /\ pc[t] = "pause" /\ prog.pause = "backoff"
              /\ Drained(t)
              /\ Goto(t, "begin")
              /\ UNCHANGED <<reg, iter, memvars, prog>>

-----------------------------------------------------------------------------
(* count() and unlock() *)

\* `counter += 1` in count().
Count(t) == (Load(t) \/ Store(t)) /\ UNCHANGED prog

\* mutex = 0; the release fence before it emits no instruction.
Unlock(t) == /\ pc[t] = "unlock"
             /\ Write(t, Mutex, 0)
             /\ EndIteration(t)
             /\ UNCHANGED prog

\* c = __atomic_add_fetch(&counter, 1), with no lock at all.
AddFetch(t) == /\ pc[t] = "begin" /\ prog.primitive = "add_fetch"
               /\ Update(t, Counter, mem[Counter] + 1)
               /\ EndIteration(t)
               /\ UNCHANGED prog

Step(t) == \/ TestMutex(t) \/ TestAndSet(t) \/ Exchange(t) \/ CompareExchange(t)
           \/ Yield(t) \/ Backoff(t) \/ Count(t) \/ Unlock(t) \/ AddFetch(t)

DrainStep(t) == Drain(t) /\ UNCHANGED prog

Join == Joined /\ UNCHANGED prog

Next == (\E t \in Threads : Step(t) \/ DrainStep(t)) \/ Join

Spec == Init /\ [][Next]_vars

\* Processors execute instructions and drain store buffers.
FairSpec == Spec /\ \A t \in Threads : WF_vars(Step(t)) /\ WF_vars(DrainStep(t))
=============================================================================
