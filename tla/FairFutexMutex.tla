--------------------------- MODULE FairFutexMutex ---------------------------
(***************************************************************************)
(* The three ticket mutexes on a futex:                                    *)
(*   "plain"   futex/fair_mutex.c         wakes every waiter               *)
(*   "bitset"  futex/fair_mutex_bitset.c  wakes the waiters of one bit     *)
(*   "spin"    futex/fair_mutex_spin.c    spins before it waits or wakes   *)
(* The plain accesses (the loads of turn and number, the store of current) *)
(* race with the atomic ones, so the memory is that of module TSO.         *)
(***************************************************************************)
EXTENDS TSOCountLoop

CONSTANTS
  Variant,    \* "plain", "bitset" or "spin": which of the three programs
  Wrap,       \* 2^32: number, turn and current are unsigned
  MaskBits    \* 32: MASK(N) is 1 << (N % 32)

VARIABLES
  ticket,     \* ticket[t]: the local `number` of lock()
  seen,       \* seen[t]: the local `turn` of lock()
  next,       \* next[t]: the local `current` of unlock()
  sleeping    \* the threads the kernel has queued on futex->turn

locals == <<ticket, seen, next>>
vars == <<loopvars, memvars, locals, sleeping>>

Number == <<"number", 0>>
Turn == <<"turn", 0>>
Current == <<"current", 0>>

Init == /\ LoopInit
        /\ MemInit([a \in {Number, Turn, Current, Counter} |-> 0])
        /\ ticket = [t \in Threads |-> 0]
        /\ seen = [t \in Threads |-> 0]
        /\ next = [t \in Threads |-> 0]
        /\ sleeping = {}

-----------------------------------------------------------------------------
(* lock() *)

\* number = fetch_add(&futex->number, 1)
TakeNumber(t) ==
  /\ pc[t] = "begin"
  /\ ticket' = [ticket EXCEPT ![t] = mem[Number]]
  /\ Update(t, Number, (mem[Number] + 1) % Wrap)
  /\ Goto(t, "turn")
  /\ UNCHANGED <<reg, iter, seen, next, sleeping>>

\* Mutant: the loop ends as soon as the turn is within one of the ticket.
ReadTurnLate(t) ==
  /\ pc[t] = "turn"
  /\ seen' = [seen EXCEPT ![t] = Read(t, Turn)]
  /\ Goto(t, IF Read(t, Turn) + 1 < ticket[t] THEN "wait"
             ELSE IF Variant = "plain" THEN "load" ELSE "current")
  /\ UNCHANGED <<reg, iter, memvars, ticket, next, sleeping>>

\* turn = futex->turn and the test of the loop.  The up to 100 reads of turn
\* that fair_mutex_spin.c makes before have no effect: they only move this
\* read to a later moment.
ReadTurn(t) ==
  /\ pc[t] = "turn"
  /\ seen' = [seen EXCEPT ![t] = Read(t, Turn)]
  /\ Goto(t, IF Read(t, Turn) # ticket[t] THEN "wait"
             ELSE IF Variant = "plain" THEN "load" ELSE "current")
  /\ UNCHANGED <<reg, iter, memvars, ticket, next, sleeping>>

\* FUTEX_WAIT (FUTEX_WAIT_BITSET) while futex->turn is still the turn read.
FutexWait(t) ==
  /\ pc[t] = "wait"
  /\ Drained(t)
  /\ \/ mem[Turn] = seen[t] /\ sleeping' = sleeping \cup {t} /\ Goto(t, "asleep")
     \/ mem[Turn] # seen[t] /\ sleeping' = sleeping /\ Goto(t, "turn")
  /\ UNCHANGED <<reg, iter, memvars, locals>>

\* FUTEX_WAIT returns with no FUTEX_WAKE (a signal).
SpuriousWake(t) == /\ t \in sleeping
                   /\ sleeping' = sleeping \ {t}
                   /\ Goto(t, "turn")
                   /\ UNCHANGED <<reg, iter, memvars, locals>>

\* futex->current = number, a plain store ("bitset" and "spin").
SetCurrent(t) == /\ pc[t] = "current"
                 /\ Write(t, Current, ticket[t])
                 /\ Goto(t, "load")
                 /\ UNCHANGED <<reg, iter, locals, sleeping>>

-----------------------------------------------------------------------------
(* count() and unlock() *)

\* `counter += 1` in count().
Count(t) == (Load(t) \/ Store(t)) /\ UNCHANGED <<locals, sleeping>>

\* current = add_fetch(&futex->turn, 1): a locked instruction on x86.
AdvanceTurn(t) ==
  /\ pc[t] = "unlock"
  /\ next' = [next EXCEPT ![t] = (mem[Turn] + 1) % Wrap]
  /\ Update(t, Turn, (mem[Turn] + 1) % Wrap)
  /\ Goto(t, IF Variant = "spin" THEN "testCurrent" ELSE "testNumber")
  /\ UNCHANGED <<reg, iter, ticket, seen, sleeping>>

\* Goes on to FUTEX_WAKE, or leaves unlock().
WakeIf(t, condition) ==
  /\ IF condition THEN Goto(t, "wake") /\ UNCHANGED <<reg, iter>>
                  ELSE EndIteration(t)
  /\ UNCHANGED <<memvars, locals, sleeping>>

\* if (futex->number >= current)
TestNumber(t) == /\ pc[t] = "testNumber"
                 /\ WakeIf(t, Read(t, Number) >= next[t])

\* if (current > futex->current), after up to 100 reads of futex->current
\* that only delay this one ("spin").
TestCurrent(t) == /\ pc[t] = "testCurrent"
                  /\ WakeIf(t, next[t] > Read(t, Current))

\* FUTEX_WAKE of INT_MAX threads wakes every sleeper in the set.
WakeAll(t, sleepers) ==
  /\ iter' = [iter EXCEPT ![t] = @ + 1]
  /\ sleeping' = sleeping \ sleepers
  /\ pc' = [s \in Threads |-> IF s = t THEN After(t)
                              ELSE IF s \in sleepers THEN "turn" ELSE pc[s]]
  /\ UNCHANGED <<reg, memvars, locals>>

\* FUTEX_WAKE ("plain" and "spin").
FutexWake(t) == /\ pc[t] = "wake" /\ Variant # "bitset"
                /\ Drained(t)
                /\ WakeAll(t, sleeping)

\* The threads that wait with the mask of ticket n.
WaitersOf(n) == {s \in sleeping : ticket[s] % MaskBits = n % MaskBits}

\* FUTEX_WAKE_BITSET with MASK(current).
FutexWakeBitset(t) == /\ pc[t] = "wake" /\ Variant = "bitset"
                      /\ Drained(t)
                      /\ WakeAll(t, WaitersOf(next[t]))

Step(t) == \/ TakeNumber(t) \/ ReadTurn(t) \/ FutexWait(t) \/ SetCurrent(t)
           \/ Count(t) \/ AdvanceTurn(t) \/ TestNumber(t) \/ TestCurrent(t)
           \/ FutexWake(t) \/ FutexWakeBitset(t)

DrainStep(t) == Drain(t) /\ UNCHANGED <<locals, sleeping>>

Join == Joined /\ UNCHANGED <<locals, sleeping>>

Next == (\E t \in Threads : Step(t) \/ SpuriousWake(t) \/ DrainStep(t)) \/ Join

Spec == Init /\ [][Next]_vars

\* Processors execute instructions and drain store buffers.
FairSpec == Spec /\ \A t \in Threads : WF_vars(Step(t)) /\ WF_vars(DrainStep(t))

-----------------------------------------------------------------------------

\* The thread whose turn it is does not sleep on: if it is in the futex queue,
\* an unlock() has advanced the turn to its ticket and is still going to wake it.
NextIsAwake ==
  \A t \in sleeping : mem[Turn] = ticket[t] =>
    \E u \in Threads : /\ pc[u] \in {"testNumber", "testCurrent", "wake"}
                       /\ next[u] = ticket[t]

\* A step that respects the tickets: nobody enters while a thread with a
\* smaller ticket is still in lock().
SmallerTicketFirst ==
  \A s, t \in Threads :
    /\ pc[t] \in {"turn", "current"} /\ pc'[t] \in {"current", "load"}
    /\ s # t /\ pc[s] \in {"turn", "wait", "asleep"}
    => ticket[t] < ticket[s]
=============================================================================
