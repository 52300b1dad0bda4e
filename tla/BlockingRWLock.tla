--------------------------- MODULE BlockingRWLock ---------------------------
(***************************************************************************)
(* The reader-writer locks that block:                                     *)
(*   "plain"    semaphores/rw_lock.py and channels/rw_lock.go              *)
(*   "fair"     semaphores/rw_lock_fair.py                                 *)
(*   "faster"   semaphores/rw_lock_fair_faster.py                          *)
(*   "monitor"  monitors/rw_lock.py                                        *)
(*   "java"     monitors/ReaderWriter.java                                 *)
(* A channel with one message is a lock: taking the message locks it.  The *)
(* methods of the monitors, and what the others do under a lock without    *)
(* blocking, are one step each.                                            *)
(***************************************************************************)
EXTENDS CountLoop

CONSTANT Period    \* 10: one iteration of Period is a writer's

VARIABLES
  rw,          \* the lock that runs
  held,        \* the locks that are taken, of "writer", "mx", "entry" and "exit"
  readers,     \* the readers inside; those that entered, in "faster"
  out,         \* readers_out of "faster"
  wait,        \* wait of "faster"
  writing,     \* writing of the monitors
  sleeping     \* the threads in wait() of the monitors

rwvars == <<rw, held, readers, out, wait, writing, sleeping>>
vars == <<loopvars, rwvars>>

Init == /\ LoopInit
        /\ rw \in {"plain", "fair", "faster", "monitor", "java"}
        /\ held = {} /\ readers = 0 /\ out = 0
        /\ wait = FALSE /\ writing = FALSE /\ sleeping = {}

\* if i % 10
Reads(t) == iter[t] % Period # 0
Reader(kinds, t, label) == rw \in kinds /\ pc[t] = label /\ Reads(t)
Writer(kinds, t, label) == rw \in kinds /\ pc[t] = label /\ ~ Reads(t)
Free(lock) == lock \notin held

\* t's iteration ends as the threads of woken return from their wait().
EndAndWake(t, woken) ==
  /\ sleeping' = sleeping \ woken
  /\ pc' = [u \in DOMAIN pc |-> IF u = t THEN After(t)
                                ELSE IF u \in woken THEN "begin" ELSE pc[u]]
  /\ iter' = [iter EXCEPT ![t] = @ + 1]
  /\ UNCHANGED <<counter, reg>>

-----------------------------------------------------------------------------
\* rw_lock.py and rw_lock_fair.py, where every lock() takes entry first

TakeEntry(t) == /\ rw \in {"fair", "faster"} /\ pc[t] = "begin" /\ Free("entry")
                /\ rw = "faster" => ~ Reads(t)
                /\ held' = held \cup {"entry"}
                /\ Goto(t, "entered")
                /\ UNCHANGED <<counter, reg, iter, rw, readers, out, wait, writing, sleeping>>

Entered(t) == \/ rw = "plain" /\ pc[t] = "begin"
              \/ rw = "fair" /\ pc[t] = "entered"

\* reader_lock(): the first reader goes on to take the lock of the writers,
\* with mx (and entry) in its hands.
ReaderLock(t) ==
  /\ Entered(t) /\ Reads(t) /\ Free("mx")
  /\ readers' = readers + 1
  /\ IF readers' = 1 THEN held' = held \cup {"mx"} /\ Goto(t, "first")
                     ELSE held' = held \ {"entry"} /\ Goto(t, "read")
  /\ UNCHANGED <<counter, reg, iter, rw, out, wait, writing, sleeping>>

FirstReader(t) ==
  /\ pc[t] = "first" /\ Free("writer")
  /\ held' = (held \cup {"writer"}) \ {"mx", "entry"}
  /\ Goto(t, "read")
  /\ UNCHANGED <<counter, reg, iter, rw, readers, out, wait, writing, sleeping>>

\* reader_unlock()
ReaderUnlock(t) ==
  /\ Reader({"plain", "fair"}, t, "leave") /\ Free("mx")
  /\ readers' = readers - 1
  /\ held' = IF readers' = 0 THEN held \ {"writer"} ELSE held
  /\ EndIteration(t)
  /\ UNCHANGED <<rw, out, wait, writing, sleeping>>

\* writer_lock(), writer_unlock()
WriterLock(t) ==
  /\ Entered(t) /\ ~ Reads(t) /\ Free("writer")
  /\ held' = held \cup {"writer"}
  /\ Goto(t, "load")
  /\ UNCHANGED <<counter, reg, iter, rw, readers, out, wait, writing, sleeping>>

WriterUnlock(t) ==
  /\ Writer({"plain", "fair"}, t, "unlock")
  /\ held' = held \ {"writer", "entry"}
  /\ EndIteration(t)
  /\ UNCHANGED <<rw, readers, out, wait, writing, sleeping>>

-----------------------------------------------------------------------------
\* rw_lock_fair_faster.py: readers are counted when they enter and when they
\* leave, under two locks, and a writer keeps entry.

FasterReaderLock(t) ==
  /\ Reader({"faster"}, t, "begin") /\ Free("entry")
  /\ readers' = readers + 1
  /\ Goto(t, "read")
  /\ UNCHANGED <<counter, reg, iter, rw, held, out, wait, writing, sleeping>>

\* release() of a lock that is not taken raises an exception: the thread ends
\* with exit in its hands.
FasterReaderUnlock(t) ==
  /\ Reader({"faster"}, t, "leave") /\ Free("exit")
  /\ out' = out + 1
  /\ IF wait /\ readers = out' /\ Free("writer")
       THEN held' = held \cup {"exit"} /\ Goto(t, "failed") /\ UNCHANGED <<counter, reg, iter>>
       ELSE /\ held' = IF wait /\ readers = out' THEN held \ {"writer"} ELSE held
            /\ EndIteration(t)
  /\ UNCHANGED <<rw, readers, wait, writing, sleeping>>

\* writer_lock() with entry taken: are there readers inside?
FasterWriterLock(t) ==
  /\ Writer({"faster"}, t, "entered") /\ Free("exit")
  /\ wait' = (wait \/ readers # out)
  /\ Goto(t, IF readers = out THEN "load" ELSE "await")
  /\ UNCHANGED <<counter, reg, iter, rw, held, readers, out, writing, sleeping>>

FasterAwait(t) ==
  /\ Writer({"faster"}, t, "await") /\ Free("writer")
  /\ held' = held \cup {"writer"}
  /\ Goto(t, "awaited")
  /\ UNCHANGED <<counter, reg, iter, rw, readers, out, wait, writing, sleeping>>

FasterAwaited(t) ==
  /\ Writer({"faster"}, t, "awaited")
  /\ wait' = FALSE
  /\ Goto(t, "load")
  /\ UNCHANGED <<counter, reg, iter, rw, held, readers, out, writing, sleeping>>

FasterWriterUnlock(t) ==
  /\ Writer({"faster"}, t, "unlock")
  /\ held' = held \ {"entry"}
  /\ EndIteration(t)
  /\ UNCHANGED <<rw, readers, out, wait, writing, sleeping>>

-----------------------------------------------------------------------------
\* The monitors.  In rw_lock.py readers and writers wait for conditions of
\* their own and notify() wakes one thread; in Java notifyAll() wakes all.

Sleepers(reading) == {t \in sleeping : Reads(t) = reading}

\* The sets of threads that notify() of one condition may wake.
Notified(reading) ==
  IF rw = "java" THEN {sleeping}
  ELSE IF Sleepers(reading) = {} THEN {{}} ELSE {{t} : t \in Sleepers(reading)}

MonitorReaderLock(t) ==
  /\ Reader({"monitor", "java"}, t, "begin") /\ t \notin sleeping
  /\ IF writing
       THEN sleeping' = sleeping \cup {t} /\ UNCHANGED <<pc, readers>>
       ELSE \E woken \in Notified(TRUE) :
              /\ readers' = readers + 1
              /\ sleeping' = sleeping \ woken
              /\ Goto(t, "read")
  /\ UNCHANGED <<counter, reg, iter, rw, held, out, wait, writing>>

MonitorReaderUnlock(t) ==
  /\ Reader({"monitor", "java"}, t, "leave")
  /\ readers' = readers - 1
  /\ \E woken \in IF readers' = 0 THEN Notified(FALSE) ELSE {{}} : EndAndWake(t, woken)
  /\ UNCHANGED <<rw, held, out, wait, writing>>

MonitorWriterLock(t) ==
  /\ Writer({"monitor", "java"}, t, "begin") /\ t \notin sleeping
  /\ IF writing \/ readers # 0
       THEN sleeping' = sleeping \cup {t} /\ UNCHANGED <<pc, writing>>
       ELSE writing' = TRUE /\ Goto(t, "load") /\ UNCHANGED sleeping
  /\ UNCHANGED <<counter, reg, iter, rw, held, readers, out, wait>>

\* Mutant: only a writer is woken.
WriterUnlockForWriters(t) ==
  /\ Writer({"monitor", "java"}, t, "unlock")
  /\ writing' = FALSE
  /\ \E woken \in Notified(FALSE) : EndAndWake(t, woken)
  /\ UNCHANGED <<rw, held, readers, out, wait>>

MonitorWriterUnlock(t) ==
  /\ Writer({"monitor", "java"}, t, "unlock")
  /\ writing' = FALSE
  /\ \E one \in Notified(TRUE), other \in Notified(FALSE) : EndAndWake(t, one \cup other)
  /\ UNCHANGED <<rw, held, readers, out, wait>>

\* Object.wait() may return without a notify; wait() of Python does not.
SpuriousWake(t) == /\ rw = "java" /\ t \in sleeping
                   /\ sleeping' = sleeping \ {t}
                   /\ UNCHANGED <<loopvars, rw, held, readers, out, wait, writing>>

-----------------------------------------------------------------------------

\* `c = counter` of a reader and `counter += 1` of a writer.
Count(t) == /\ \/ Load(t) \/ Store(t)
               \/ pc[t] = "read" /\ Goto(t, "leave") /\ UNCHANGED <<counter, reg, iter>>
            /\ UNCHANGED rwvars

Step(t) == \/ TakeEntry(t) \/ ReaderLock(t) \/ FirstReader(t) \/ ReaderUnlock(t)
           \/ WriterLock(t) \/ WriterUnlock(t) \/ FasterReaderLock(t)
           \/ FasterReaderUnlock(t) \/ FasterWriterLock(t) \/ FasterAwait(t)
           \/ FasterAwaited(t) \/ FasterWriterUnlock(t) \/ MonitorReaderLock(t)
           \/ MonitorReaderUnlock(t) \/ MonitorWriterLock(t) \/ MonitorWriterUnlock(t)
           \/ Count(t)

\* A thread of "faster" ended with the lock exit, for which the others wait.
Stuck == \E t \in Threads : pc[t] = "failed"

-----------------------------------------------------------------------------

Reading == {t \in Threads : pc[t] \in {"read", "leave"}}
Writing == {t \in Threads : pc[t] \in {"load", "store", "unlock"}}

\* A writer is alone.  In "faster" the lock for which a writer waits starts free
\* and the first one to wait does not, so that only writers exclude each other.
WriterIsAlone == \A t \in Writing : /\ Writing = {t}
                                    /\ rw # "faster" => Reading = {}

\* Whoever sleeps in a monitor has a reason: a thread inside that wakes it, or one
\* on its way in that does.
SleepersHaveAReason ==
  /\ Sleepers(TRUE) # {} =>
       writing \/ \E t \in Threads \ sleeping : pc[t] = "begin"
  /\ Sleepers(FALSE) # {} =>
       writing \/ readers # 0 \/ \E t \in Threads \ sleeping : pc[t] = "begin"

\* The writers' iterations, as many as increments.
Increments(n) == Cardinality({i \in 0 .. n - 1 : i % Period = 0})
Made == [t \in Threads |-> Increments(IF pc[t] = "unlock" THEN iter[t] + 1 ELSE iter[t])]
Atomic == INSTANCE AtomicCounter WITH total <- counter, done <- Made, Max <- Increments(Max)

\* Every thread has finished and main prints the expected count.
Ended == AllDone /\ counter = Cardinality(Threads) * Increments(Max)
=============================================================================
