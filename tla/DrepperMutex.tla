---------------------------- MODULE DrepperMutex ----------------------------
(***************************************************************************)
(* futex/mutex_drepper.c: Drepper's three-valued futex mutex.  Every access *)
(* to the futex word but `*futex = 0` is a sequentially consistent          *)
(* read-modify-write, and that store is followed by a system call, so       *)
(* interleaving the instructions is exact for the x86 and ARM builds.       *)
(***************************************************************************)
EXTENDS CountLoop, TLAPS

VARIABLES
  futex,     \* the futex word: 0 unlocked, 1 locked, 2 locked and waiters
  sleeping   \* the threads the kernel has queued on the futex word

vars == <<loopvars, futex, sleeping>>

Init == LoopInit /\ futex = 0 /\ sleeping = {}

-----------------------------------------------------------------------------
(* lock() *)

\* The compare and exchange of 0 by 1: returns on success; a value of 1 goes
\* on to the exchange, a value of 2 straight to FUTEX_WAIT.
LockCas(t) ==
  /\ pc[t] = "begin"
  /\ \/ futex = 0 /\ futex' = 1 /\ Goto(t, "load")
     \/ futex = 1 /\ futex' = futex /\ Goto(t, "swap")
     \/ futex = 2 /\ futex' = futex /\ Goto(t, "wait")
  /\ UNCHANGED <<counter, reg, iter, sleeping>>

\* Mutant: the exchange writes 2 only over a locked word, as if the acquirer
\* knew that nobody waits.
LockSwapForgetsWaiters(t) ==
  /\ pc[t] = "swap"
  /\ futex' = IF futex = 0 THEN 1 ELSE 2
  /\ Goto(t, IF futex = 0 THEN "load" ELSE "wait")
  /\ UNCHANGED <<counter, reg, iter, sleeping>>

\* Mutant: the loop tests c == 2 instead of c != 0.
LockSwapTestsTwo(t) ==
  /\ pc[t] = "swap"
  /\ futex' = 2
  /\ Goto(t, IF futex # 2 THEN "load" ELSE "wait")
  /\ UNCHANGED <<counter, reg, iter, sleeping>>

\* Mutant: the word is incremented instead of set to 2.
LockSwapAdds(t) ==
  /\ pc[t] = "swap"
  /\ futex' = futex + 1
  /\ Goto(t, IF futex = 0 THEN "load" ELSE "wait")
  /\ UNCHANGED <<counter, reg, iter, sleeping>>

\* c = exchange(futex, 2), the one before the loop and the one inside it.
LockSwap(t) ==
  /\ pc[t] = "swap"
  /\ futex' = 2
  /\ Goto(t, IF futex = 0 THEN "load" ELSE "wait")
  /\ UNCHANGED <<counter, reg, iter, sleeping>>

\* FUTEX_WAIT: the kernel compares the word with 2 and queues the thread in
\* one step; any other value makes the call return at once (EAGAIN).
FutexWait(t) ==
  /\ pc[t] = "wait"
  /\ IF futex = 2
       THEN sleeping' = sleeping \cup {t} /\ Goto(t, "asleep")
       ELSE sleeping' = sleeping /\ Goto(t, "swap")
  /\ UNCHANGED <<counter, reg, iter, futex>>

\* FUTEX_WAIT may return with no FUTEX_WAKE (a signal): the loop re-exchanges.
SpuriousWake(t) ==
  /\ t \in sleeping
  /\ sleeping' = sleeping \ {t}
  /\ Goto(t, "swap")
  /\ UNCHANGED <<counter, reg, iter, futex>>

-----------------------------------------------------------------------------
(* count() and unlock() *)

\* `counter += 1` in count().
Count(t) == (Load(t) \/ Store(t)) /\ UNCHANGED <<futex, sleeping>>

\* The fetch_sub: a previous value of 1 ends unlock(), 2 goes on to the store.
UnlockSub(t) ==
  /\ pc[t] = "unlock"
  /\ futex' = futex - 1
  /\ IF futex # 1 THEN Goto(t, "zero") /\ UNCHANGED <<counter, reg, iter>>
                  ELSE EndIteration(t)
  /\ UNCHANGED sleeping

\* *futex = 0, a plain store.
UnlockZero(t) ==
  /\ pc[t] = "zero"
  /\ futex' = 0
  /\ Goto(t, "wake")
  /\ UNCHANGED <<counter, reg, iter, sleeping>>

\* FUTEX_WAKE of one thread: whichever the kernel picks returns from its wait.
\* The waker leaves unlock().
UnlockWake(t) ==
  /\ pc[t] = "wake"
  /\ iter' = [iter EXCEPT ![t] = @ + 1]
  /\ \/ sleeping = {} /\ sleeping' = sleeping /\ Goto(t, After(t))
     \/ \E w \in sleeping :
          /\ sleeping' = sleeping \ {w}
          /\ pc' = [pc EXCEPT ![t] = After(t), ![w] = "swap"]
  /\ UNCHANGED <<counter, reg, futex>>

Step(t) == \/ LockCas(t) \/ LockSwap(t) \/ FutexWait(t)
           \/ Count(t)
           \/ UnlockSub(t) \/ UnlockZero(t) \/ UnlockWake(t)

\* main: the threads run until all of them have been joined.
Join == Joined /\ UNCHANGED <<futex, sleeping>>

Next == (\E t \in Threads : Step(t) \/ SpuriousWake(t)) \/ Join

Spec == Init /\ [][Next]_vars

\* A thread that can execute its next instruction eventually does.
FairSpec == Spec /\ \A t \in Threads : WF_vars(Step(t))

-----------------------------------------------------------------------------
(* Properties *)

Labels == {"begin", "swap", "wait", "asleep", "load", "store", "unlock",
           "zero", "wake", "done"}

\* The variables stay within their types; a thread is in the kernel's queue
\* exactly while it is inside FUTEX_WAIT.
TypeOK == /\ pc \in [Threads -> Labels]
          /\ counter \in Nat
          /\ reg \in [Threads -> Nat]
          /\ iter \in [Threads -> 0..Max]
          /\ futex \in 0..2
          /\ sleeping = {t \in Threads : pc[t] = "asleep"}

\* Holding the lock: from lock()'s return to the instruction that frees it.
Critical == {"load", "store", "unlock"}

\* A thread between the fetch_sub that leaves 1 and the store of 0 still keeps
\* the others out.
Owner(t) == pc[t] \in Critical \cup {"zero"}

\* At most one thread is between lock()'s return and the instruction of
\* unlock() that frees the futex word.
MutualExclusion == \A s, t \in Threads : Owner(s) /\ Owner(t) => s = t

\* The futex word is 0 exactly when nobody owns the lock.
HeldWord == futex # 0 <=> \E t \in Threads : Owner(t)

\* A thread that is still running has iterations left.
LoopBound == \A t \in Threads : pc[t] # "done" => iter[t] < Max

\* Between the two halves of `counter += 1` nobody else writes counter.
FreshRegister == \A t \in Threads : pc[t] = "store" => reg[t] = counter

\* No wakeup is lost: while a thread sleeps in FUTEX_WAIT, either the word
\* says 2, so that the next unlock() will wake, or a thread is already on its
\* way to write the 2 or to call FUTEX_WAKE.  (The store `*futex = 0` can
\* overwrite a 2 that a third thread has just exchanged in.)
NoLostWakeup ==
  sleeping # {} => \/ futex = 2
                   \/ \E t \in Threads : pc[t] \in {"swap", "zero", "wake"}

\* The inductive invariant of the proofs.
IInv == /\ TypeOK /\ LoopBound
        /\ MutualExclusion /\ HeldWord /\ FreshRegister
        /\ NoLostWakeup

\* The increments that count() has made so far.
Made == [t \in Threads |->
          IF pc[t] \in {"unlock", "zero", "wake"} THEN iter[t] + 1 ELSE iter[t]]

Atomic == INSTANCE AtomicCounter WITH total <- counter, done <- Made

\* Under the mutex, `counter += 1` behaves as one atomic increment.
AtomicIncrements == Atomic!ASpec

\* Every thread finishes its iterations and main prints the expected count.
Termination == <>(AllDone /\ counter = Cardinality(Threads) * Max)

-----------------------------------------------------------------------------
(* Theorems, for any set of threads and any number of iterations           *)

\* A step of thread t ends in the next iteration or in the end of count().
LEMMA EndLabel ==
  ASSUME TypeOK, NEW t \in Threads, iter[t] < Max
  PROVE  /\ iter[t] + 1 \in 0..Max
         /\ After(t) \in {"done", "begin"}
         /\ After(t) # "done" => iter[t] + 1 < Max
  BY MaxAssumption DEF TypeOK, After

-----------------------------------------------------------------------------
\* The type invariant is inductive together with the loop bound.
LEMMA TypeInit == Init => TypeOK /\ LoopBound
  BY MaxAssumption DEF Init, LoopInit, TypeOK, LoopBound, Labels

LEMMA TypeStep == ASSUME TypeOK, LoopBound, HeldWord, [Next]_vars
                  PROVE  TypeOK' /\ LoopBound'
<1> USE DEF TypeOK, LoopBound, Labels
<1>1. CASE UNCHANGED vars
  BY <1>1 DEF vars, loopvars
<1>2. CASE Join
  BY <1>2 DEF Join, Joined, loopvars
<1>3. ASSUME NEW t \in Threads, LockCas(t) \/ LockSwap(t) \/ FutexWait(t)
                                \/ SpuriousWake(t)
      PROVE  TypeOK' /\ LoopBound'
  <2>1. CASE LockCas(t)
    BY <2>1 DEF LockCas, Goto
  <2>2. CASE LockSwap(t)
    BY <2>2 DEF LockSwap, Goto
  <2>3. CASE FutexWait(t)
    BY <2>3 DEF FutexWait, Goto
  <2>4. CASE SpuriousWake(t)
    BY <2>4 DEF SpuriousWake, Goto
  <2>5. QED
    BY <1>3, <2>1, <2>2, <2>3, <2>4
<1>4. ASSUME NEW t \in Threads, Count(t)
      PROVE  TypeOK' /\ LoopBound'
  BY <1>4 DEF Count, Load, Store, Goto
<1>5. ASSUME NEW t \in Threads, UnlockSub(t)
      PROVE  TypeOK' /\ LoopBound'
  <2>1. futex # 0
    BY <1>5 DEF HeldWord, UnlockSub, Owner, Critical
  <2>2. CASE futex = 1
    BY <1>5, <2>2, EndLabel DEF UnlockSub, EndIteration, Goto
  <2>3. CASE futex = 2
    BY <1>5, <2>3 DEF UnlockSub, Goto
  <2>4. QED
    BY <2>1, <2>2, <2>3
<1>6. ASSUME NEW t \in Threads, UnlockZero(t)
      PROVE  TypeOK' /\ LoopBound'
  BY <1>6 DEF UnlockZero, Goto
<1>7. ASSUME NEW t \in Threads, UnlockWake(t)
      PROVE  TypeOK' /\ LoopBound'
  <2>1. CASE sleeping = {}
    BY <1>7, <2>1, EndLabel DEF UnlockWake, Goto
  <2>2. CASE sleeping # {}
    <3>1. PICK w \in sleeping :
            /\ sleeping' = sleeping \ {w}
            /\ pc' = [pc EXCEPT ![t] = After(t), ![w] = "swap"]
      BY <1>7, <2>2 DEF UnlockWake
    <3>2. w # t /\ w \in Threads /\ iter[t] < Max
      BY <1>7 DEF UnlockWake
    <3>3. QED
      BY <1>7, <3>1, <3>2, EndLabel DEF UnlockWake
  <2>3. QED
    BY <2>1, <2>2
<1>8. QED
  BY <1>1, <1>2, <1>3, <1>4, <1>5, <1>6, <1>7 DEF Next, Step
-----------------------------------------------------------------------------
\* Mutual exclusion is inductive together with HeldWord: a thread enters only
\* by finding the word 0, and the word is 0 only when nobody owns the lock.
LEMMA ExclusionStep ==
  ASSUME TypeOK, LoopBound, MutualExclusion, HeldWord, [Next]_vars
  PROVE  MutualExclusion' /\ HeldWord'
<1> USE DEF TypeOK, MutualExclusion, HeldWord, Owner, Critical
<1>1. CASE UNCHANGED vars
  BY <1>1 DEF vars, loopvars
<1>2. CASE Join
  BY <1>2 DEF Join, Joined, loopvars
<1>3. ASSUME NEW t \in Threads, LockCas(t)
      PROVE  MutualExclusion' /\ HeldWord'
  BY <1>3 DEF LockCas, Goto
<1>4. ASSUME NEW t \in Threads, LockSwap(t)
      PROVE  MutualExclusion' /\ HeldWord'
  BY <1>4 DEF LockSwap, Goto
<1>5. ASSUME NEW t \in Threads, FutexWait(t) \/ SpuriousWake(t)
      PROVE  MutualExclusion' /\ HeldWord'
  BY <1>5 DEF FutexWait, SpuriousWake, Goto
<1>6. ASSUME NEW t \in Threads, Count(t)
      PROVE  MutualExclusion' /\ HeldWord'
  BY <1>6 DEF Count, Load, Store, Goto
<1>7. ASSUME NEW t \in Threads, UnlockSub(t)
      PROVE  MutualExclusion' /\ HeldWord'
  <2>1. CASE futex = 1
    <3>1. After(t) \in {"done", "begin"}
      BY DEF After
    <3>2. QED
      BY <1>7, <2>1, <3>1 DEF UnlockSub, EndIteration, Goto
  <2>2. CASE futex = 2
    BY <1>7, <2>2 DEF UnlockSub, Goto
  <2>3. QED
    BY <1>7, <2>1, <2>2 DEF UnlockSub
<1>8. ASSUME NEW t \in Threads, UnlockZero(t)
      PROVE  MutualExclusion' /\ HeldWord'
  BY <1>8 DEF UnlockZero, Goto
<1>9. ASSUME NEW t \in Threads, UnlockWake(t)
      PROVE  MutualExclusion' /\ HeldWord'
  <2>1. \A s \in Threads : Owner(s)' <=> Owner(s)
    BY <1>9 DEF UnlockWake, Goto, After
  <2>2. QED
    BY <1>9, <2>1 DEF UnlockWake
<1>10. QED
  BY <1>1, <1>2, <1>3, <1>4, <1>5, <1>6, <1>7, <1>8, <1>9 DEF Next, Step

-----------------------------------------------------------------------------
\* The register a thread is about to write back is never stale.
LEMMA FreshStep ==
  ASSUME TypeOK, MutualExclusion, FreshRegister, [Next]_vars
  PROVE  FreshRegister'
<1> USE DEF TypeOK, FreshRegister
<1>1. CASE UNCHANGED vars
  BY <1>1 DEF vars, loopvars
<1>2. CASE Join
  BY <1>2 DEF Join, Joined, loopvars
<1>3. ASSUME NEW t \in Threads, Load(t)
      PROVE  FreshRegister'
  BY <1>3 DEF Load, Goto
<1>4. ASSUME NEW t \in Threads, Store(t)
      PROVE  FreshRegister'
  BY <1>4 DEF Store, Goto, MutualExclusion, Owner, Critical
<1>5. ASSUME NEW t \in Threads, Step(t) \/ SpuriousWake(t), ~ Count(t)
      PROVE  FreshRegister'
  <2>1. UNCHANGED <<counter, reg>>
    BY <1>5 DEF Step, SpuriousWake, LockCas, LockSwap, FutexWait, UnlockSub,
                EndIteration, UnlockZero, UnlockWake
  <2>2. \A s \in Threads : pc'[s] = "store" => pc[s] = "store"
    BY <1>5 DEF Step, SpuriousWake, LockCas, LockSwap, FutexWait, UnlockSub,
                EndIteration, UnlockZero, UnlockWake, Goto, After
  <2>3. QED
    BY <2>1, <2>2
<1>6. QED
  BY <1>1, <1>2, <1>3, <1>4, <1>5 DEF Next, Count

-----------------------------------------------------------------------------
\* While a thread sleeps, the word is 2 or a waker is on its way.
LEMMA WakeupStep ==
  ASSUME TypeOK, HeldWord, NoLostWakeup, [Next]_vars
  PROVE  NoLostWakeup'
<1> USE DEF TypeOK, NoLostWakeup
<1>1. CASE UNCHANGED vars
  BY <1>1 DEF vars, loopvars
<1>2. CASE Join
  BY <1>2 DEF Join, Joined, loopvars
<1>3. ASSUME NEW t \in Threads, LockCas(t)
      PROVE  NoLostWakeup'
  BY <1>3 DEF LockCas, Goto
<1>4. ASSUME NEW t \in Threads, LockSwap(t) \/ FutexWait(t) \/ SpuriousWake(t)
      PROVE  NoLostWakeup'
  BY <1>4 DEF LockSwap, FutexWait, SpuriousWake, Goto
<1>5. ASSUME NEW t \in Threads, Count(t)
      PROVE  NoLostWakeup'
  BY <1>5 DEF Count, Load, Store, Goto
<1>6. ASSUME NEW t \in Threads, UnlockSub(t)
      PROVE  NoLostWakeup'
  BY <1>6 DEF UnlockSub, EndIteration, Goto
<1>7. ASSUME NEW t \in Threads, UnlockZero(t)
      PROVE  NoLostWakeup'
  BY <1>7 DEF UnlockZero, Goto
<1>8. ASSUME NEW t \in Threads, UnlockWake(t)
      PROVE  NoLostWakeup'
  <2>1. CASE sleeping = {}
    BY <1>8, <2>1 DEF UnlockWake
  <2>2. CASE sleeping # {}
    <3>1. PICK w \in sleeping :
            pc' = [pc EXCEPT ![t] = After(t), ![w] = "swap"]
      BY <1>8, <2>2 DEF UnlockWake
    <3>2. w \in Threads /\ pc'[w] = "swap"
      BY <3>1
    <3>3. QED
      BY <3>2
  <2>3. QED
    BY <2>1, <2>2
<1>9. QED
  BY <1>1, <1>2, <1>3, <1>4, <1>5, <1>6, <1>7, <1>8 DEF Next, Step

-----------------------------------------------------------------------------
\* The inductive invariant of mutex_drepper.c: a thread enters only through a
\* word that is 0, and no sleeper is left without a waker.
THEOREM Invariance == Spec => []IInv
<1>1. Init => IInv
  <2>1. Init => MutualExclusion /\ HeldWord /\ FreshRegister /\ NoLostWakeup
    BY DEF Init, LoopInit, MutualExclusion, HeldWord, Owner, Critical,
           FreshRegister, NoLostWakeup
  <2>2. QED
    BY <2>1, TypeInit DEF IInv
<1>2. IInv /\ [Next]_vars => IInv'
  BY TypeStep, ExclusionStep, FreshStep, WakeupStep DEF IInv
<1>3. QED
  BY <1>1, <1>2, PTL DEF Spec

\* The futex word only takes the three values its comment lists, and the
\* kernel's queue holds exactly the threads inside FUTEX_WAIT.
THEOREM TypeCorrect == Spec => []TypeOK
<1>1. IInv => TypeOK
  BY DEF IInv
<1>2. QED
  BY <1>1, Invariance, PTL

\* lock() and unlock() of mutex_drepper.c give mutual exclusion.
THEOREM Exclusion == Spec => []MutualExclusion
<1>1. IInv => MutualExclusion
  BY DEF IInv
<1>2. QED
  BY <1>1, Invariance, PTL

\* unlock() of mutex_drepper.c never leaves a sleeper without a waker.
THEOREM NoWakeupLost == Spec => []NoLostWakeup
<1>1. IInv => NoLostWakeup
  BY DEF IInv
<1>2. QED
  BY <1>1, Invariance, PTL

-----------------------------------------------------------------------------
\* The counting program under the mutex implements atomic increments.
THEOREM Refinement == Spec => AtomicIncrements
<1>1. Init => Atomic!AInit
  BY DEF Init, LoopInit, Atomic!AInit, Made
<1>2. IInv /\ [Next]_vars => [Atomic!ANext]_(Atomic!avars)
  <2> SUFFICES ASSUME IInv, [Next]_vars
               PROVE  Atomic!ANext \/ UNCHANGED Atomic!avars
    OBVIOUS
  <2> USE DEF IInv, TypeOK
  <2>1. CASE UNCHANGED vars
    BY <2>1 DEF vars, loopvars, Atomic!avars, Made
  <2>2. CASE Join
    BY <2>2 DEF Join, Joined, loopvars, Atomic!avars, Made
  <2>3. ASSUME NEW t \in Threads, Store(t)
        PROVE  Atomic!ANext
    <3>1. counter' = counter + 1
      BY <2>3 DEF Store, FreshRegister
    <3>2. Made[t] < Max
      BY <2>3 DEF Store, LoopBound, Made
    <3>3. Made' = [Made EXCEPT ![t] = @ + 1]
      BY <2>3 DEF Store, Goto, Made
    <3>4. QED
      BY <3>1, <3>2, <3>3 DEF Atomic!ANext, Atomic!Increment
  <2>4. ASSUME NEW t \in Threads, Step(t) \/ SpuriousWake(t), ~ Store(t)
        PROVE  UNCHANGED Atomic!avars
    <3>1. counter' = counter
      BY <2>4 DEF Step, SpuriousWake, LockCas, LockSwap, FutexWait, UnlockSub,
                  Count, Load, EndIteration, UnlockZero, UnlockWake
    <3>2. Made' = Made
      <4>1. CASE LockCas(t) \/ LockSwap(t) \/ FutexWait(t) \/ SpuriousWake(t)
        BY <4>1 DEF LockCas, LockSwap, FutexWait, SpuriousWake, Goto, Made
      <4>2. CASE Load(t)
        BY <4>2 DEF Load, Goto, Made
      <4>3. CASE UnlockSub(t)
        BY <4>3, EndLabel DEF UnlockSub, EndIteration, Goto, Made, LoopBound
      <4>4. CASE UnlockZero(t)
        BY <4>4 DEF UnlockZero, Goto, Made
      <4>5. CASE UnlockWake(t)
        <5>1. pc[t] = "wake" /\ iter' = [iter EXCEPT ![t] = @ + 1]
          BY <4>5 DEF UnlockWake
        <5>2. \A s \in Threads \ {t} :
                  pc'[s] = pc[s] \/ (pc[s] = "asleep" /\ pc'[s] = "swap")
          BY <4>5 DEF UnlockWake, Goto
        <5>3. pc'[t] \in {"done", "begin"}
          BY <4>5 DEF UnlockWake, Goto, After
        <5>4. QED
          BY <5>1, <5>2, <5>3 DEF Made
      <4>6. QED
        BY <2>4, <4>1, <4>2, <4>3, <4>4, <4>5 DEF Step, Count
    <3>3. QED
      BY <3>1, <3>2 DEF Atomic!avars
  <2>5. QED
    BY <2>1, <2>2, <2>3, <2>4 DEF Next
<1>3. QED
  BY <1>1, <1>2, Invariance, PTL DEF Spec, AtomicIncrements, Atomic!ASpec
=============================================================================
