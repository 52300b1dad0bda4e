----------------------------- MODULE SlotLocks -----------------------------
(***************************************************************************)
(* The spinlocks that give each thread a place with a fetch and add, over  *)
(* module TSO.  The ticket locks, spinlocks/ticket_lock.c and              *)
(* ticket_lock_yield.c with 16-bit counters and                            *)
(* hardware/counter_get_and_add.c and gocounter_get_and_add.go with 32-bit *)
(* ones, wait for a turn.  Anderson's array lock, spinlocks/array_lock.c   *)
(* (padding 32) and array_lock_variable_size.c (padding from the command   *)
(* line), waits for the flag of a slot; the heap that malloc() takes the   *)
(* second one's flags from is fresh, so that they are 0.  turn and the     *)
(* flags are read, and the flags and the counter written, with plain       *)
(* instructions.                                                           *)
(***************************************************************************)
EXTENDS TSOCountLoop

CONSTANTS
  Wrap,       \* 2^16 or 2^32: number, turn, tail and the indices wrap around
  Padding     \* PADDING: the distance between two flags

VARIABLES
  prog,       \* the program that runs; it never changes
  ticket      \* ticket[t]: the local `number` of lock(), or the index of count()

vars == <<loopvars, memvars, prog, ticket>>

Inc(n) == (n + 1) % Wrap

\* `counter += 1` in count().
Count(t) == (Load(t) \/ Store(t)) /\ UNCHANGED <<prog, ticket>>

-----------------------------------------------------------------------------
(* The ticket locks *)

Number == <<"number", 0>>
Turn == <<"turn", 0>>

\* first: the turn the program starts with, and the first ticket it gives.
Tickets(first, pause) == [lock |-> "ticket", first |-> first, pause |-> pause]
GetAndAdd == Tickets(0, FALSE)
GoGetAndAdd == Tickets(1, FALSE)
Ticket == Tickets(0, FALSE)
TicketYield == Tickets(0, TRUE)

TicketInit == /\ prog \in {GetAndAdd, GoGetAndAdd, Ticket, TicketYield}
              /\ MemInit([a \in {Number, Turn, Counter} |->
                            IF a = Turn THEN prog.first ELSE 0])

\* number = fetch_add(&ticket_lock.number, 1); AddUint32 returns the new value.
TakeNumber(t) ==
  /\ pc[t] = "begin"
  /\ ticket' = [ticket EXCEPT ![t] = (mem[Number] + prog.first) % Wrap]
  /\ Update(t, Number, Inc(mem[Number]))
  /\ Goto(t, "wait")
  /\ UNCHANGED <<reg, iter, prog>>

\* Mutant: lock() waits while its turn is still to come.
AwaitTurnBelow(t) ==
  /\ pc[t] = "wait"
  /\ Goto(t, IF Read(t, Turn) >= ticket[t] THEN "load"
             ELSE IF prog.pause THEN "pause" ELSE "wait")
  /\ UNCHANGED <<reg, iter, memvars, prog, ticket>>

\* while (number != ticket_lock.turn)
AwaitTurn(t) ==
  /\ pc[t] = "wait"
  /\ Goto(t, IF Read(t, Turn) = ticket[t] THEN "load"
             ELSE IF prog.pause THEN "pause" ELSE "wait")
  /\ UNCHANGED <<reg, iter, memvars, prog, ticket>>

\* sched_yield()
Yield(t) == /\ pc[t] = "pause"
            /\ Goto(t, "wait")
            /\ UNCHANGED <<reg, iter, memvars, prog, ticket>>

\* fetch_add(&ticket_lock.turn, 1): a locked instruction.
PassTurn(t) == /\ pc[t] = "unlock"
               /\ Update(t, Turn, Inc(mem[Turn]))
               /\ EndIteration(t)
               /\ UNCHANGED <<prog, ticket>>

TicketStep(t) == TakeNumber(t) \/ AwaitTurn(t) \/ Yield(t) \/ PassTurn(t)

-----------------------------------------------------------------------------
(* The array lock *)

ArrayLock == [lock |-> "array"]

NumThreads == Cardinality(Threads)
Size == NumThreads * Padding
TailWord == <<"tail", 0>>
Flag(k) == <<"flag", k>>

\* flag[0] = 1 in main()
ArrayInit ==
  /\ prog = ArrayLock
  /\ MemInit([a \in {TailWord, Counter} \cup {Flag(k) : k \in 0 .. Size - 1}
                |-> IF a = Flag(0) THEN 1 ELSE 0])

\* slot = fetch_add(&tail, 1), then the index of the slot.
TakeSlot(t) ==
  /\ pc[t] = "begin"
  /\ ticket' = [ticket EXCEPT ![t] = ((mem[TailWord] % NumThreads) * Padding) % Wrap]
  /\ Update(t, TailWord, Inc(mem[TailWord]))
  /\ Goto(t, "wait")
  /\ UNCHANGED <<reg, iter, prog>>

\* while (! flag[*my_index])
AwaitFlag(t) == /\ pc[t] = "wait"
                /\ Goto(t, IF Read(t, Flag(ticket[t])) # 0 THEN "clear" ELSE "wait")
                /\ UNCHANGED <<reg, iter, memvars, prog, ticket>>

\* flag[*my_index] = 0
ClearFlag(t) == /\ pc[t] = "clear"
                /\ Write(t, Flag(ticket[t]), 0)
                /\ Goto(t, "load")
                /\ UNCHANGED <<reg, iter, prog, ticket>>

\* Mutant: the flag of the own slot, not that of the next one.
PassOwnFlag(t) == /\ pc[t] = "unlock"
                  /\ Write(t, Flag(ticket[t]), 1)
                  /\ EndIteration(t)
                  /\ UNCHANGED <<prog, ticket>>

\* flag[(*my_index + PADDING) % SIZE] = 1, a release store.
PassFlag(t) == /\ pc[t] = "unlock"
               /\ Write(t, Flag((ticket[t] + Padding) % Size), 1)
               /\ EndIteration(t)
               /\ UNCHANGED <<prog, ticket>>

ArrayStep(t) == TakeSlot(t) \/ AwaitFlag(t) \/ ClearFlag(t) \/ PassFlag(t)

-----------------------------------------------------------------------------

Init == /\ TicketInit \/ ArrayInit
        /\ LoopInit
        /\ ticket = [t \in Threads |-> 0]

Step(t) == \/ prog.lock = "ticket" /\ TicketStep(t)
           \/ prog.lock = "array" /\ ArrayStep(t)
           \/ Count(t)

DrainStep(t) == Drain(t) /\ UNCHANGED <<prog, ticket>>

Join == Joined /\ UNCHANGED <<prog, ticket>>

Next == (\E t \in Threads : Step(t) \/ DrainStep(t)) \/ Join

Spec == Init /\ [][Next]_vars
=============================================================================
