----------------------------- MODULE Semaphores -----------------------------
(***************************************************************************)
(* The semaphores, each one used as the mutex of a counting program:       *)
(* futex/semaphore.c, futex/semaphore_spinlock.c, monitors/semaphore.c and *)
(* semaphores/semaphore.c with mutex.c, whose semaphore and mutex are the  *)
(* library's; channels/mutex.go and semaphore.go, whose channel is that    *)
(* same semaphore, and channels/semaphore2.go, which keeps the value in a  *)
(* channel and queues in another.  FUTEX_WAIT is called with a word that   *)
(* nobody writes, so it always sleeps; that it may also return without a   *)
(* wake is left out, as the two futex semaphores would not survive it.     *)
(***************************************************************************)
EXTENDS CountLoop, Integers

VARIABLES
  sem,       \* which runs: "futex", "spinlock", "monitor", "posix", "channels"
  value,     \* its value
  waiters,   \* "spinlock": threads that wait or are about to; "channels": the
             \* messages in the queue, which has room for one
  holder,    \* the threads that hold the spinlock or the pthread mutex
  sleeping   \* the threads in FUTEX_WAIT or pthread_cond_wait

semvars == <<sem, value, waiters, holder, sleeping>>
vars == <<loopvars, semvars>>

Init == /\ LoopInit
        /\ sem \in {"futex", "spinlock", "monitor", "posix", "channels"}
        /\ value = 1 /\ waiters = 0 /\ holder = {} /\ sleeping = {}

Running(name, t, label) == sem = name /\ pc[t] = label

\* FUTEX_WAIT: the thread sleeps until it is woken.
Sleep(t) == /\ pc[t] = "sleep"
            /\ sleeping' = sleeping \cup {t}
            /\ Goto(t, "asleep")
            /\ UNCHANGED <<counter, reg, iter, sem, value, waiters, holder>>

\* One sleeper w wakes, at the label there; t goes to next.
Wakes(t, w, there, next) == /\ sleeping' = sleeping \ {w}
                            /\ pc' = [pc EXCEPT ![t] = next, ![w] = there]

-----------------------------------------------------------------------------
\* futex/semaphore.c

FutexWait(t) ==
  /\ Running("futex", t, "begin")
  /\ value' = value - 1
  /\ Goto(t, IF value' < 0 THEN "sleep" ELSE "load")
  /\ UNCHANGED <<counter, reg, iter, sem, waiters, holder, sleeping>>

FutexSignal(t) ==
  /\ Running("futex", t, "unlock")
  /\ value' = value + 1
  /\ IF value' <= 0 THEN Goto(t, "wake") /\ UNCHANGED <<counter, reg, iter>>
                    ELSE EndIteration(t)
  /\ UNCHANGED <<sem, waiters, holder, sleeping>>

\* while (FUTEX_WAKE < 1) sched_yield()
FutexWake(t) ==
  /\ Running("futex", t, "wake")
  /\ \E w \in sleeping : Wakes(t, w, "load", After(t))
  /\ iter' = [iter EXCEPT ![t] = @ + 1]
  /\ UNCHANGED <<counter, reg, sem, value, waiters, holder>>

-----------------------------------------------------------------------------
\* futex/semaphore_spinlock.c

\* spin_lock(), by wait() or by signal().
SpinLock(t) ==
  /\ sem = "spinlock" /\ holder = {} /\ pc[t] \in {"begin", "unlock"}
  /\ holder' = {t}
  /\ Goto(t, IF pc[t] = "begin" THEN "wait" ELSE "signal")
  /\ UNCHANGED <<counter, reg, iter, sem, value, waiters, sleeping>>

SpinWait(t) ==
  /\ Running("spinlock", t, "wait")
  /\ holder' = {}
  /\ IF waiters > 0 \/ value <= 0
       THEN waiters' = waiters + 1 /\ Goto(t, "sleep") /\ UNCHANGED value
       ELSE value' = value - 1 /\ Goto(t, "load") /\ UNCHANGED waiters
  /\ UNCHANGED <<counter, reg, iter, sem, sleeping>>

\* With nobody waiting the value grows; otherwise it is handed over to one
\* sleeper, with the spinlock held until there is one.
SpinSignal(t) ==
  /\ Running("spinlock", t, "signal")
  /\ \/ /\ waiters = 0
        /\ value' = value + 1
        /\ Goto(t, After(t))
        /\ UNCHANGED <<waiters, sleeping>>
     \/ /\ waiters > 0
        /\ \E w \in sleeping : Wakes(t, w, "load", After(t))
        /\ waiters' = waiters - 1
        /\ UNCHANGED value
  /\ holder' = {}
  /\ iter' = [iter EXCEPT ![t] = @ + 1]
  /\ UNCHANGED <<counter, reg, sem>>

-----------------------------------------------------------------------------
\* monitors/semaphore.c

\* p() takes the mutex, first or when pthread_cond_wait() returns.
MonitorEnter(t) ==
  /\ sem = "monitor" /\ holder = {} /\ pc[t] \in {"begin", "relock"}
  /\ holder' = {t}
  /\ Goto(t, "p")
  /\ UNCHANGED <<counter, reg, iter, sem, value, waiters, sleeping>>

\* while (sem_value == 0) pthread_cond_wait(): it leaves the mutex and sleeps.
MonitorP(t) ==
  /\ Running("monitor", t, "p")
  /\ holder' = {}
  /\ IF value = 0
       THEN sleeping' = sleeping \cup {t} /\ Goto(t, "asleep") /\ UNCHANGED value
       ELSE value' = value - 1 /\ Goto(t, "load") /\ UNCHANGED sleeping
  /\ UNCHANGED <<counter, reg, iter, sem, waiters>>

\* POSIX lets pthread_cond_wait() return with no signal.
SpuriousWake(t) == /\ sem = "monitor" /\ t \in sleeping
                   /\ sleeping' = sleeping \ {t}
                   /\ Goto(t, "relock")
                   /\ UNCHANGED <<counter, reg, iter, sem, value, waiters, holder>>

\* v(), all of it under the mutex.
MonitorV(t) ==
  /\ Running("monitor", t, "unlock") /\ holder = {}
  /\ value' = value + 1
  /\ IF sleeping = {} THEN Goto(t, After(t)) /\ UNCHANGED sleeping
                      ELSE \E w \in sleeping : Wakes(t, w, "relock", After(t))
  /\ iter' = [iter EXCEPT ![t] = @ + 1]
  /\ UNCHANGED <<counter, reg, sem, waiters, holder>>

-----------------------------------------------------------------------------
\* semaphores/semaphore.c and mutex.c: sem_wait(), sem_post() (external)

PosixWait(t) == /\ Running("posix", t, "begin") /\ value > 0
                /\ value' = value - 1
                /\ Goto(t, "load")
                /\ UNCHANGED <<counter, reg, iter, sem, waiters, holder, sleeping>>

PosixPost(t) == /\ Running("posix", t, "unlock")
                /\ value' = value + 1
                /\ EndIteration(t)
                /\ UNCHANGED <<sem, waiters, holder, sleeping>>

-----------------------------------------------------------------------------
\* channels/semaphore2.go.  The value is out of its channel, for the others to
\* wait for, from its receive to its send: one step.

ChannelWait(t) ==
  /\ Running("channels", t, "begin")
  /\ value' = value - 1
  /\ Goto(t, IF value' < 0 THEN "receive" ELSE "load")
  /\ UNCHANGED <<counter, reg, iter, sem, waiters, holder, sleeping>>

\* <-s.queue
ReceiveTurn(t) ==
  /\ Running("channels", t, "receive") /\ waiters > 0
  /\ waiters' = waiters - 1
  /\ Goto(t, "load")
  /\ UNCHANGED <<counter, reg, iter, sem, value, holder, sleeping>>

ChannelSignal(t) ==
  /\ Running("channels", t, "unlock")
  /\ value' = value + 1
  /\ IF value' <= 0 THEN Goto(t, "send") /\ UNCHANGED <<counter, reg, iter>>
                    ELSE EndIteration(t)
  /\ UNCHANGED <<sem, waiters, holder, sleeping>>

\* s.queue <- Empty{}
SendTurn(t) ==
  /\ Running("channels", t, "send") /\ waiters < 1
  /\ waiters' = waiters + 1
  /\ EndIteration(t)
  /\ UNCHANGED <<sem, value, holder, sleeping>>

-----------------------------------------------------------------------------

\* `counter += 1` in count().
Count(t) == (Load(t) \/ Store(t)) /\ UNCHANGED semvars

Step(t) == \/ Sleep(t) \/ FutexWait(t) \/ FutexSignal(t) \/ FutexWake(t)
           \/ SpinLock(t) \/ SpinWait(t) \/ SpinSignal(t) \/ MonitorEnter(t)
           \/ MonitorP(t) \/ MonitorV(t) \/ PosixWait(t) \/ PosixPost(t)
           \/ ChannelWait(t) \/ ReceiveTurn(t) \/ ChannelSignal(t) \/ SendTurn(t) \/ Count(t)

Join == Joined /\ UNCHANGED semvars

Next == (\E t \in Threads : Step(t) \/ SpuriousWake(t)) \/ Join

-----------------------------------------------------------------------------

Waiting == {t \in Threads : pc[t] \in {"sleep", "asleep", "receive"}}
Inside == {t \in Threads : pc[t] \in {"load", "store", "unlock", "signal", "wake", "send"}}

\* Nobody sleeps, or is about to, unless a thread that is inside will signal,
\* a thread that was woken is on its way in, or its turn is in the queue.
SemaphoreNoLostWakeup ==
  Waiting # {} => \/ Inside # {} \/ \E t \in Threads : pc[t] \in {"relock", "p"}
                  \/ sem = "channels" /\ waiters > 0

Made == [t \in Threads |->
          IF pc[t] \in {"unlock", "wake", "signal", "send"} THEN iter[t] + 1 ELSE iter[t]]

Atomic == INSTANCE AtomicCounter WITH total <- counter, done <- Made

\* Every increment made under the semaphore is atomic.
SemaphoreIncrementsAtomic == Atomic!ASpec

Termination == <>(AllDone /\ counter = Cardinality(Threads) * Max)
=============================================================================
