---------------------------- MODULE SpinRWLocks ----------------------------
(***************************************************************************)
(* The reader-writer spinlocks, over module TSO.                           *)
(* spinlocks/rw_lock.c keeps one word, the number of readers inside and    *)
(* the bit of a writer: a writer sets the bit and then waits for the       *)
(* readers to leave.  spinlocks/ticket_rw_lock.c is first come first       *)
(* served: a reader passes the turn of the readers on as soon as it is in, *)
(* and that of the writers when it leaves; a writer passes both on, in one *)
(* store of 32 bits over the two turns of 16.                              *)
(***************************************************************************)
EXTENDS TSOCountLoop

CONSTANTS
  Period,    \* 10: one iteration of Period is a writer's
  Wrap       \* 2^16: number and the turns wrap around

VARIABLES
  prog,      \* the program that runs; it never changes
  ticket,    \* ticket[t]: the local `number`
  turn       \* turn[t]: the turns that t has read, to pass them on

vars == <<loopvars, memvars, prog, ticket, turn>>

RW == <<"rw_lock", 0>>
Word(w, n) == [writer |-> w, readers |-> n]

Number == <<"number", 0>>
WriterTurn == <<"writer_turn", 0>>
ReaderTurn == <<"reader_turn", 0>>

WordInit == MemInit([a \in {RW, Counter} |-> IF a = RW THEN Word(FALSE, 0) ELSE 0])
TicketInit == MemInit([a \in {Number, WriterTurn, ReaderTurn, Counter} |-> 0])

Init == /\ \/ prog = "rw_lock" /\ WordInit
           \/ prog = "ticket_rw_lock" /\ TicketInit
        /\ LoopInit
        /\ ticket = [t \in Threads |-> 0]
        /\ turn = [t \in Threads |-> 0]

\* if (i % 10)
Reads(t) == iter[t] % Period # 0

\* `c = counter` of a reader and `counter += 1` of a writer, in count().
ReadCounter(t) == pc[t] = "read" /\ Goto(t, "leave") /\ UNCHANGED <<reg, iter, memvars>>
Count(t) == (Load(t) \/ Store(t) \/ ReadCounter(t)) /\ UNCHANGED <<prog, ticket, turn>>

-----------------------------------------------------------------------------
(* rw_lock.c *)

\* while (rw_lock & 0x80000000)
AwaitWriter(t) == /\ pc[t] = "begin" /\ ~ Read(t, RW).writer
                  /\ Goto(t, "old")
                  /\ UNCHANGED <<reg, iter, memvars>>

\* old = rw_lock & 0x7fffffff
ReadOld(t) == /\ pc[t] = "old"
              /\ reg' = [reg EXCEPT ![t] = Read(t, RW).readers]
              /\ Goto(t, "take")
              /\ UNCHANGED <<iter, memvars>>

\* The compare and swap of old by new succeeds, with what is done next, or the
\* loop starts again.
CompareExchange(t, new, next) ==
  /\ pc[t] = "take" /\ Drained(t)
  /\ IF mem[RW] = Word(FALSE, reg[t])
       THEN Update(t, RW, new) /\ Goto(t, next)
       ELSE Goto(t, "begin") /\ UNCHANGED memvars
  /\ reg' = [reg EXCEPT ![t] = 0]
  /\ UNCHANGED iter

ReaderTake(t) == Reads(t) /\ CompareExchange(t, Word(FALSE, reg[t] + 1), "read")

\* Mutant: a writer does not wait for the readers.
WriterTakeAtOnce(t) == ~ Reads(t) /\ CompareExchange(t, Word(TRUE, reg[t]), "load")

WriterTake(t) == ~ Reads(t) /\ CompareExchange(t, Word(TRUE, reg[t]), "readers")

\* while (rw_lock & 0x7fffffff)
AwaitReaders(t) == /\ pc[t] = "readers" /\ Read(t, RW).readers = 0
                   /\ Goto(t, "load")
                   /\ UNCHANGED <<reg, iter, memvars>>

\* __atomic_fetch_add(&rw_lock, -1)
ReaderUnlock(t) == /\ pc[t] = "leave"
                   /\ Update(t, RW, [mem[RW] EXCEPT !.readers = @ - 1])
                   /\ EndIteration(t)

\* __atomic_store_n(&rw_lock, 0, __ATOMIC_RELEASE)
WriterUnlock(t) == /\ pc[t] = "unlock"
                   /\ Write(t, RW, Word(FALSE, 0))
                   /\ EndIteration(t)

WordStep(t) ==
  /\ \/ AwaitWriter(t) \/ ReadOld(t) \/ ReaderTake(t) \/ WriterTake(t)
     \/ AwaitReaders(t) \/ ReaderUnlock(t) \/ WriterUnlock(t)
  /\ UNCHANGED <<prog, ticket, turn>>

-----------------------------------------------------------------------------
(* ticket_rw_lock.c *)

Inc(n) == (n + 1) % Wrap
ReadTurn(t, a) == turn' = [turn EXCEPT ![t] = Read(t, a)]
Forget(t) == turn' = [turn EXCEPT ![t] = 0]

\* number = __atomic_fetch_add(&rw_lock.number, 1), in both locks.
TakeNumber(t) == /\ pc[t] = "begin"
                 /\ ticket' = [ticket EXCEPT ![t] = mem[Number]]
                 /\ Update(t, Number, Inc(mem[Number]))
                 /\ Goto(t, "wait")
                 /\ UNCHANGED <<reg, iter, turn>>

\* while (number != rw_lock.writer_turn)
TicketWriterLock(t) == /\ pc[t] = "wait" /\ ~ Reads(t)
                       /\ Read(t, WriterTurn) = ticket[t]
                       /\ Goto(t, "load")
                       /\ UNCHANGED <<reg, iter, memvars, ticket, turn>>

\* while (number != rw_lock.reader_turn)
TicketReaderLock(t) == /\ pc[t] = "wait" /\ Reads(t)
                       /\ Read(t, ReaderTurn) = ticket[t]
                       /\ Goto(t, "turn")
                       /\ UNCHANGED <<reg, iter, memvars, ticket, turn>>

\* rw_lock.reader_turn++: a load and a store.
LoadTurn(t) == /\ pc[t] = "turn"
               /\ ReadTurn(t, ReaderTurn)
               /\ Goto(t, "pass")
               /\ UNCHANGED <<reg, iter, memvars, ticket>>

PassTurn(t) == /\ pc[t] = "pass"
               /\ Write(t, ReaderTurn, Inc(turn[t]))
               /\ Forget(t)
               /\ Goto(t, "read")
               /\ UNCHANGED <<reg, iter, ticket>>

\* __atomic_fetch_add(&rw_lock.writer_turn, 1)
TicketReaderUnlock(t) == /\ pc[t] = "leave"
                         /\ Update(t, WriterTurn, Inc(mem[WriterTurn]))
                         /\ EndIteration(t)
                         /\ UNCHANGED <<ticket, turn>>

\* writer_unlock(): the two loads, and the store of both turns.
LoadTurns(t) == /\ pc[t] = "unlock"
                /\ ReadTurn(t, WriterTurn)
                /\ Goto(t, "both")
                /\ UNCHANGED <<reg, iter, memvars, ticket>>

TicketWriterUnlock(t) ==
  /\ pc[t] = "both"
  /\ WriteAll(t, [a \in {WriterTurn, ReaderTurn} |->
                    Inc(IF a = WriterTurn THEN turn[t] ELSE Read(t, ReaderTurn))])
  /\ Forget(t)
  /\ EndIteration(t)
  /\ UNCHANGED ticket

TicketStep(t) ==
  /\ \/ TakeNumber(t) \/ TicketWriterLock(t) \/ TicketReaderLock(t)
     \/ LoadTurn(t) \/ PassTurn(t) \/ TicketReaderUnlock(t)
     \/ LoadTurns(t) \/ TicketWriterUnlock(t)
  /\ UNCHANGED prog

-----------------------------------------------------------------------------

Step(t) == \/ prog = "rw_lock" /\ WordStep(t)
           \/ prog = "ticket_rw_lock" /\ TicketStep(t)
           \/ Count(t)

DrainStep(t) == Drain(t) /\ UNCHANGED <<prog, ticket, turn>>

Join == Joined /\ UNCHANGED <<prog, ticket, turn>>

Next == (\E t \in Threads : Step(t) \/ DrainStep(t)) \/ Join

Spec == Init /\ [][Next]_vars

-----------------------------------------------------------------------------

\* No reader is between its lock and its unlock while a writer is.
ReadersExcludeWriter ==
  \A t, u \in Threads :
    pc[t] \in {"load", "store", "unlock", "both"} =>
      pc[u] \notin {"turn", "pass", "read", "leave"}
=============================================================================
