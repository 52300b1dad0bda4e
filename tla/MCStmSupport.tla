---------------------------- MODULE MCStmSupport ----------------------------
(***************************************************************************)
(* The parts of TinySTM around its transactions, for TLC: quiescence       *)
(* (for the roll-over of the clock, with only plain transactions, and for  *)
(* serial mode), the garbage collector (up to its roll-overs, and through  *)
(* them), the modules and the wrappers.  The initial state chooses the     *)
(* part.  The proofs, of the roll-over and of the garbage collector for    *)
(* any number of threads, come after the properties.                       *)
(***************************************************************************)
EXTENDS Naturals, Sequences, FiniteSets, TLC, FiniteSetTheorems, SequenceTheorems, TLAPS

LOCAL INSTANCE Functions

CONSTANTS
  Parts,           \* the parts to check
  Threads,         \* the threads of the quiescence and of the garbage collector
  Duo,             \* those of the modules
  NoThread,
  RollBuffer,      \* the store buffers in the roll-over,
  SerialBuffer,    \* and in serial mode; 0 is sequential consistency
  GcSlots,         \* MAX_GC_THREADS
  GcTasks,         \* for each part of the collector: [script, limit]
  MaxRetries,
  Bytes, MaxSize

\* stm_init() is called by a thread, and there is room for one in the collector.
ASSUME SupportAssumption == IsFiniteSet(Threads)
ASSUME GcAssumption == Threads # {} /\ GcSlots \in Nat \ {0}

\* The tasks for TLC.  While a thread scans the slots, another one leaves its
\* slot and a third one takes it; one commits often enough after a roll-over to
\* free what it has unlinked after it, while the others start, run and leave.
ThreeThreads ==
  [gc    |-> [script |-> << <<"read">>, <<"read">>, <<"free", "free">> >>, limit |-> 2],
   reset |-> [script |-> << <<>>, <<"read">>, [k \in 1 .. 6 |-> "free"] >>, limit |-> 3]]

VARIABLES
  part,
  mem, buf, script, pc, mutex, waiting, threads, threads_nb, todo, want, time,
  slots, nb_active, clock, limit, at, loc, base, freed,
  work, op, stage, data, undo, heap, held, icb, stats, total, samples, ab,
  report, queries, saved,
  machine, cells, expected, result, meant, aligned, accesses

quiesceonly == <<mem, buf, pc, mutex, waiting, threads, threads_nb, todo, want, time>>
gconly == <<slots, nb_active, clock, limit, at, loc, base, freed>>
modonly == <<work, op, stage, data, undo, heap, held, icb, stats, total, samples, ab,
             report, queries, saved>>
wraponly == <<machine, cells, expected, result, meant, aligned, accesses>>
mcvars == <<part, script, quiesceonly, gconly, modonly, wraponly>>

-----------------------------------------------------------------------------
\* The instances.  A roll-over happens after two commits, or never.

PlainScripts == {<<"plain">>, <<"plain", "plain">>}
SerialScripts == {<<>>, <<"plain">>, <<"serial">>, <<"late">>}

Rolls == INSTANCE StmQuiesce WITH Scripts <- PlainScripts, ClockMax <- 2,
                                  BufferSize <- RollBuffer
Serial == INSTANCE StmQuiesce WITH Scripts <- SerialScripts, ClockMax <- 9,
                                   BufferSize <- SerialBuffer

GcParts == {"gc", "reset"}
GcScripts == UNION {Range(GcTasks[p].script) : p \in GcParts}
Gc == INSTANCE EpochGC WITH MAX_GC_THREADS <- GcSlots,
                            EPOCH_MAX <- 99, Scripts <- GcScripts,
                            OwnBlocks <- <<"tx">>, Limits <- {GcTasks[p].limit : p \in GcParts}

Logs(c) == [op |-> "log", cell |-> c]
Mallocs == [op |-> "malloc"]
Frees == [op |-> "free"]
Tx(ops) == [id |-> 1, ops |-> ops]
LogWork == <<Tx(<<Logs("w"), Logs("b"), Logs("w")>>), Tx(<<>>)>>
HeapWork == <<Tx(<<Mallocs, Mallocs, Frees>>), Tx(<<Frees>>), Tx(<<>>), Tx(<<>>)>>
ModWorkloads == {LogWork, HeapWork}
CellType(c) == IF c = "w" THEN "word" ELSE "bytes"
Mods == INSTANCE StmModules WITH Threads <- Duo, Cells <- {"w", "b"}, TypeOf <- CellType,
                                 Workloads <- ModWorkloads, Lengths <- {1, 2},
                                 BUFFER_SIZE <- 2, SamplingPeriod <- 2,
                                 ReservoirSize <- 2, MaxQueries <- 1

Wraps == INSTANCE Wrappers WITH WordSizes <- {4, 8}, LongSizes <- {4, 8}, MaxAccesses <- 1

\* The variables of the parts that do not run.
NoQuiesce == /\ mem = 0 /\ buf = 0 /\ pc = [t \in Threads |-> "exited"] /\ mutex = 0
             /\ waiting = 0 /\ threads = 0 /\ threads_nb = 0 /\ todo = 0 /\ want = 0 /\ time = 0
NoGc == /\ slots = 0 /\ nb_active = 0 /\ clock = 0 /\ limit = 0
        /\ at = 0 /\ loc = 0 /\ base = 0 /\ freed = 0
NoMods == /\ work = 0 /\ op = 0 /\ stage = 0 /\ data = 0 /\ undo = 0 /\ heap = 0 /\ held = 0
          /\ icb = 0 /\ stats = 0 /\ total = 0 /\ samples = 0 /\ ab = 0 /\ report = 0
          /\ queries = 0 /\ saved = 0
NoWraps == /\ machine = 0 /\ cells = 0 /\ expected = 0 /\ result = 0 /\ meant = 0
           /\ aligned = TRUE /\ accesses = 0

\* Serial mode next to plain transactions, or two threads that ask for it and
\* nobody else: with two of them and a third thread, which waits for the first
\* and does not look again, SerialRunsAlone does not hold.
Asking == {t \in Threads : script[t] \in {<<"serial">>, <<"late">>}}
FewSerial == \/ Cardinality(Asking) = 1
             \/ Cardinality(Asking) = 2 /\ \A t \in Threads \ Asking : script[t] = <<>>

\* The threads of a part are interchangeable: one order of their tasks is enough.
InOrder(S, tasks) == \A t, u \in S : t < u => Len(tasks[t]) <= Len(tasks[u])

MCInit ==
  /\ part \in Parts
  /\ \/ part = "roll" /\ Rolls!QuiesceInit /\ InOrder(Threads, script) /\ NoGc /\ NoMods /\ NoWraps
     \/ /\ part = "serial" /\ Serial!QuiesceInit /\ FewSerial /\ InOrder(Threads, script)
        /\ NoGc /\ NoMods /\ NoWraps
     \/ /\ part \in GcParts /\ Gc!GcInit /\ script = GcTasks[part].script
        /\ limit = GcTasks[part].limit
        /\ NoQuiesce /\ NoMods /\ NoWraps
     \/ /\ part = "modules" /\ Mods!Init /\ work \in {<<LogWork, LogWork>>, <<LogWork, HeapWork>>}
        /\ script = 0 /\ NoQuiesce /\ NoGc /\ NoWraps
     \/ part = "wrappers" /\ Wraps!WrapInit /\ script = 0 /\ NoQuiesce /\ NoGc /\ NoMods

\* A step that the scheduler owes thread t.
MCStep(t) ==
  \/ /\ part = "roll" /\ t \in Threads /\ (Rolls!QuiesceStep(t) \/ Rolls!QuiesceDrain(t))
     /\ UNCHANGED <<part, gconly, modonly, wraponly>>
  \/ /\ part = "serial" /\ t \in Threads /\ (Serial!QuiesceStep(t) \/ Serial!QuiesceDrain(t))
     /\ UNCHANGED <<part, gconly, modonly, wraponly>>
  \/ /\ part = "gc" /\ t \in Threads /\ Gc!GcStep(t)
     /\ UNCHANGED <<part, quiesceonly, modonly, wraponly>>

\* An abort and the restart.
MCRestart(t) == /\ part = "gc" /\ t \in Threads /\ Gc!Restart(t)
                /\ UNCHANGED <<part, quiesceonly, modonly, wraponly>>

\* The roll-over and the end of the garbage collector.
MCGc == /\ part = "gc" /\ (Gc!Rollover \/ Gc!gc_exit)
        /\ UNCHANGED <<part, quiesceonly, modonly, wraponly>>

\* The steps of the parts that no liveness property is about.
MCCall ==
  \/ /\ part = "reset" /\ Gc!GcNext
     /\ UNCHANGED <<part, quiesceonly, modonly, wraponly>>
  \/ /\ part = "modules" /\ \E t \in Duo : Mods!ModStep(t) \/ Mods!Abort(t)
     /\ UNCHANGED <<part, script, quiesceonly, gconly, wraponly>>
  \/ /\ part = "modules" /\ \E id \in Mods!Ids : Mods!GetAbStats(id)
     /\ UNCHANGED <<part, script, quiesceonly, gconly, wraponly>>
  \/ /\ part = "wrappers" /\ Wraps!WrapNext
     /\ UNCHANGED <<part, script, quiesceonly, gconly, modonly>>

MCOver == /\ part = "roll" => Rolls!AllExited
          /\ part = "serial" => Serial!AllExited
          /\ part \in GcParts => Gc!GcOver
          /\ part = "modules" => Mods!ModOver
          /\ part = "wrappers" => Wraps!WrapOver

MCNext == \/ \E t \in Threads : MCStep(t) \/ MCRestart(t)
          \/ MCGc \/ MCCall
          \/ MCOver /\ UNCHANGED mcvars

\* Threads execute their next instruction in the end; a transaction that aborts
\* does not do so for ever.
MCSpec == /\ MCInit /\ [][MCNext]_mcvars
          /\ \A t \in Threads : WF_mcvars(MCStep(t))
          /\ WF_mcvars(MCGc)
          /\ <>[][\A t \in Threads : ~ MCRestart(t)]_mcvars

-----------------------------------------------------------------------------

\* stm_check_quiesce(): "Serial irrevocable mode: we are executing alone".
SerialRunsAlone == part = "serial" => Serial!SerialRunsAlone

\* stm_quiesce_barrier(), rollover_clock(): the clock is reset while no thread
\* runs a transaction.
ResetWhileIdle == [][part = "roll" => Rolls!ResetStep]_mcvars

\* gc.c: what is freed cannot be reached by a running transaction, is freed
\* once and in the end, and the epochs of a slot increase.
GcIsSafe ==
  part \in GcParts => /\ Gc!FreedIsUnreachable /\ Gc!FreedOnce /\ Gc!NothingLeaks
                 /\ Gc!EpochsIncrease

\* mod_log.c, mod_cb_mem.c: an aborted attempt leaves neither a written value
\* nor a block behind, a committed one frees each block once.
AbortsLeaveNothing == part = "modules" => Mods!AbortRestoresData /\ Mods!BlocksAreFreedOnce

\* mod_stats.c, mod_ab.c: no commit, retry or sample of any thread is lost.
NothingIsUncounted == part = "modules" => Mods!StatisticsAddUp /\ Mods!SamplesAreKept

\* wrappers.c: a typed access touches exactly its own bytes.
BytesAreExact == part = "wrappers" => Wraps!BytesAreExact

\* The barrier counts the threads, and every thread gets through it, past the
\* serial transactions of others, and through the garbage collection.  The
\* collector is followed up to the first roll-over.
EveryThreadExits ==
  <>\/ part = "roll" /\ Rolls!AllExited
    \/ part = "serial" /\ Serial!AllExited
    \/ part = "gc" /\ (Gc!GcOver \/ base # 0)
    \/ part \in {"reset", "modules", "wrappers"}
-----------------------------------------------------------------------------
\* The roll-over of the clock.

\* Where a thread is that the barrier does not wait for.
Away == {"init", "exited", "asleep", "woken"}

Here == {"idle", "prepare", "barrier", "activate", "check", "deactivate", "loop", "reactivate",
         "run", "commit", "rollback", "spin", "try", "quiesce", "block", "fence", "scan",
         "serial", "release", "unlock"}

\* The threads that the barrier waits for.
Busy(f) == {t \in Threads : f[t] \notin Away}

\* The barrier's counter is the number of threads that are neither in it nor
\* outside of the library, and those that sleep in it are known to it.
RollInv ==
  /\ pc \in [Threads -> Away \cup Here]
  /\ time \in Nat
  /\ waiting = {t \in Threads : pc[t] = "asleep"}
  /\ threads_nb = Cardinality(Busy(pc))

\* A step of t that the barrier does not see.
Quiet(t) ==
  /\ pc' \in [Threads -> Away \cup Here] /\ \A u \in Threads \ {t} : pc'[u] = pc[u]
  /\ pc[t] \notin Away /\ pc'[t] \notin Away
  /\ time' = time \/ time' = time + 1
  /\ UNCHANGED <<waiting, threads_nb>>

\* A step to a label that the barrier does not see either.
LEMMA GoesQuietly ==
  ASSUME RollInv, NEW t \in Threads, NEW l \in Here, pc[t] \in Here,
         pc' = [pc EXCEPT ![t] = l], time' = time \/ time' = time + 1, UNCHANGED <<waiting, threads_nb>>
  PROVE  Quiet(t)
<1>1. \A m \in Here : m \notin Away
  BY DEF Here, Away
<1>2. pc' \in [Threads -> Away \cup Here] /\ pc'[t] = l /\ \A u \in Threads \ {t} : pc'[u] = pc[u]
  BY DEF RollInv
<1>3. QED
  BY <1>1, <1>2 DEF Quiet

\* The number of busy threads follows the one thread that moves.
LEMMA BusyMoves ==
  ASSUME NEW f, NEW g, NEW t \in Threads,
         \A u \in Threads \ {t} : g[u] \in Away <=> f[u] \in Away
  PROVE  /\ Cardinality(Busy(f)) \in Nat /\ Cardinality(Busy(g)) \in Nat
         /\ (f[t] \in Away <=> g[t] \in Away) => Cardinality(Busy(g)) = Cardinality(Busy(f))
         /\ f[t] \in Away /\ g[t] \notin Away => Cardinality(Busy(g)) = Cardinality(Busy(f)) + 1
         /\ f[t] \notin Away /\ g[t] \in Away => Cardinality(Busy(g)) = Cardinality(Busy(f)) - 1
<1>1. IsFiniteSet(Busy(f)) /\ IsFiniteSet(Busy(g))
  BY SupportAssumption, FS_Subset DEF Busy
<1>2. Cardinality(Busy(f)) \in Nat /\ Cardinality(Busy(g)) \in Nat
  BY <1>1, FS_CardinalityType
<1>3. (f[t] \in Away <=> g[t] \in Away) => Busy(g) = Busy(f)
  BY DEF Busy
<1>4. ASSUME f[t] \in Away, g[t] \notin Away
      PROVE  Cardinality(Busy(g)) = Cardinality(Busy(f)) + 1
  <2>1. Busy(g) = Busy(f) \cup {t} /\ t \notin Busy(f)
    BY <1>4 DEF Busy
  <2>2. QED
    BY <1>1, <2>1, FS_AddElement
<1>5. ASSUME f[t] \notin Away, g[t] \in Away
      PROVE  Cardinality(Busy(g)) = Cardinality(Busy(f)) - 1
  <2>1. Busy(g) = Busy(f) \ {t} /\ t \in Busy(f)
    BY <1>5 DEF Busy
  <2>2. QED
    BY <1>1, <2>1, FS_RemoveElement
<1>6. QED
  BY <1>2, <1>3, <1>4, <1>5

\* When one thread is busy and it is t, nobody else is.
LEMMA OneBusy ==
  ASSUME NEW f, NEW t \in Threads, f[t] \notin Away, Cardinality(Busy(f)) = 1
  PROVE  \A u \in Threads \ {t} : f[u] \in Away
<1>1. IsFiniteSet(Busy(f)) /\ t \in Busy(f)
  BY SupportAssumption, FS_Subset DEF Busy
<1>2. Cardinality(Busy(f) \ {t}) = 0 /\ IsFiniteSet(Busy(f) \ {t})
  BY <1>1, FS_RemoveElement
<1>3. Busy(f) \ {t} = {}
  BY <1>2, FS_EmptySet
<1>4. QED
  BY <1>3 DEF Busy

\* When the counter is zero, nobody is busy.
LEMMA NoneBusy ==
  ASSUME NEW f, Cardinality(Busy(f)) = 0
  PROVE  \A u \in Threads : f[u] \in Away
<1>1. IsFiniteSet(Busy(f))
  BY SupportAssumption, FS_Subset DEF Busy
<1>2. Busy(f) = {}
  BY <1>1, FS_EmptySet
<1>3. QED
  BY <1>2 DEF Busy

\* The steps of a thread: in and out of the library, in and out of the barrier,
\* and those that the barrier does not see.
LEMMA RollSteps ==
  ASSUME RollInv, NEW t \in Threads, Rolls!QuiesceStep(t)
  PROVE  \/ Rolls!EnterThread(t) \/ Rolls!ExitThread(t) \/ Rolls!EnterBarrier(t)
         \/ Rolls!LeaveWait(t) \/ Quiet(t)
<1>1. CASE Rolls!Begin(t)
  <2>1. /\ pc[t] = "idle" /\ time' = time /\ UNCHANGED <<waiting, threads_nb>>
        /\ pc' = [pc EXCEPT ![t] = "prepare"]
    BY <1>1 DEF Rolls!Begin, Rolls!Others, Rolls!At, Rolls!Goto
  <2>2. {"idle", "prepare"} \subseteq Here
    BY DEF Here
  <2>3. QED
    BY <2>1, <2>2, GoesQuietly
<1>2. CASE Rolls!Prepare(t)
  <2>1. /\ pc[t] = "prepare" /\ time' = time /\ UNCHANGED <<waiting, threads_nb>>
        /\ \/ pc' = [pc EXCEPT ![t] = "barrier"]
           \/ pc' = [pc EXCEPT ![t] = "activate"]
           \/ pc' = [pc EXCEPT ![t] = "spin"]
           \/ pc' = [pc EXCEPT ![t] = "quiesce"]
    BY <1>2 DEF Rolls!Prepare, Rolls!Others, Rolls!At, Rolls!Goto
  <2>2. {"prepare", "barrier", "activate", "spin", "quiesce"} \subseteq Here
    BY DEF Here
  <2>3. QED
    BY <2>1, <2>2, GoesQuietly
<1>3. CASE Rolls!Activate(t)
  <2>1. /\ pc[t] = "activate" /\ time' = time /\ UNCHANGED <<waiting, threads_nb>>
        /\ pc' = [pc EXCEPT ![t] = "check"]
    BY <1>3 DEF Rolls!Activate, Rolls!Others, Rolls!At, Rolls!Goto
  <2>2. {"activate", "check"} \subseteq Here
    BY DEF Here
  <2>3. QED
    BY <2>1, <2>2, GoesQuietly
<1>4. CASE Rolls!CheckQuiesce(t)
  <2>1. /\ pc[t] = "check" /\ time' = time /\ UNCHANGED <<waiting, threads_nb>>
        /\ \/ pc' = [pc EXCEPT ![t] = "deactivate"]
           \/ pc' = [pc EXCEPT ![t] = "run"]
    BY <1>4 DEF Rolls!CheckQuiesce, Rolls!Others, Rolls!At, Rolls!Goto
  <2>2. {"check", "deactivate", "run"} \subseteq Here
    BY DEF Here
  <2>3. QED
    BY <2>1, <2>2, GoesQuietly
<1>5. CASE Rolls!Deactivate(t)
  <2>1. /\ pc[t] = "deactivate" /\ time' = time /\ UNCHANGED <<waiting, threads_nb>>
        /\ pc' = [pc EXCEPT ![t] = "loop"]
    BY <1>5 DEF Rolls!Deactivate, Rolls!Others, Rolls!At, Rolls!Goto
  <2>2. {"deactivate", "loop"} \subseteq Here
    BY DEF Here
  <2>3. QED
    BY <2>1, <2>2, GoesQuietly
<1>6. CASE Rolls!AwaitRelease(t)
  <2>1. /\ pc[t] = "loop" /\ time' = time /\ UNCHANGED <<waiting, threads_nb>>
        /\ pc' = [pc EXCEPT ![t] = "reactivate"]
    BY <1>6 DEF Rolls!AwaitRelease, Rolls!Others, Rolls!At, Rolls!Goto
  <2>2. {"loop", "reactivate"} \subseteq Here
    BY DEF Here
  <2>3. QED
    BY <2>1, <2>2, GoesQuietly
<1>7. CASE Rolls!Reactivate(t)
  <2>1. /\ pc[t] = "reactivate" /\ time' = time /\ UNCHANGED <<waiting, threads_nb>>
        /\ pc' = [pc EXCEPT ![t] = "run"]
    BY <1>7 DEF Rolls!Reactivate, Rolls!Others, Rolls!At, Rolls!Goto
  <2>2. {"reactivate", "run"} \subseteq Here
    BY DEF Here
  <2>3. QED
    BY <2>1, <2>2, GoesQuietly
<1>8. CASE Rolls!TakeTime(t)
  <2>1. /\ pc[t] = "run" /\ time' = time + 1 /\ UNCHANGED <<waiting, threads_nb>>
        /\ pc' = [pc EXCEPT ![t] = "commit"]
    BY <1>8 DEF Rolls!TakeTime, Rolls!Others, Rolls!At, Rolls!Goto
  <2>2. {"run", "commit"} \subseteq Here
    BY DEF Here
  <2>3. QED
    BY <2>1, <2>2, GoesQuietly
<1>9. CASE Rolls!Committed(t)
  <2>1. /\ pc[t] = "commit" /\ time' = time /\ UNCHANGED <<waiting, threads_nb>>
        /\ pc' = [pc EXCEPT ![t] = "idle"]
    BY <1>9 DEF Rolls!Committed, Rolls!Others, Rolls!At, Rolls!Goto
  <2>2. {"commit", "idle"} \subseteq Here
    BY DEF Here
  <2>3. QED
    BY <2>1, <2>2, GoesQuietly
<1>10. CASE Rolls!Request(t)
  <2>1. /\ pc[t] = "run" /\ time' = time /\ UNCHANGED <<waiting, threads_nb>>
        /\ \/ pc' = [pc EXCEPT ![t] = "try"]
           \/ pc' = [pc EXCEPT ![t] = "rollback"]
    BY <1>10 DEF Rolls!Request, Rolls!Others, Rolls!At, Rolls!Goto
  <2>2. {"run", "try", "rollback"} \subseteq Here
    BY DEF Here
  <2>3. QED
    BY <2>1, <2>2, GoesQuietly
<1>11. CASE Rolls!Rollback(t)
  <2>1. /\ pc[t] = "rollback" /\ time' = time /\ UNCHANGED <<waiting, threads_nb>>
        /\ pc' = [pc EXCEPT ![t] = "prepare"]
    BY <1>11 DEF Rolls!Rollback, Rolls!Others, Rolls!At, Rolls!Goto
  <2>2. {"rollback", "prepare"} \subseteq Here
    BY DEF Here
  <2>3. QED
    BY <2>1, <2>2, GoesQuietly
<1>12. CASE Rolls!SpinIrrevocable(t)
  <2>1. /\ pc[t] = "spin" /\ time' = time /\ UNCHANGED <<waiting, threads_nb>>
        /\ pc' = [pc EXCEPT ![t] = "quiesce"]
    BY <1>12 DEF Rolls!SpinIrrevocable, Rolls!Others, Rolls!At, Rolls!Goto
  <2>2. {"spin", "quiesce"} \subseteq Here
    BY DEF Here
  <2>3. QED
    BY <2>1, <2>2, GoesQuietly
<1>13. CASE Rolls!LockQuiesce(t)
  <2>1. /\ pc[t] \in {"try", "quiesce"} /\ time' = time /\ UNCHANGED <<waiting, threads_nb>>
        /\ \/ pc' = [pc EXCEPT ![t] = "block"]
           \/ pc' = [pc EXCEPT ![t] = "rollback"]
    BY <1>13 DEF Rolls!LockQuiesce, Rolls!Others, Rolls!At, Rolls!Goto
  <2>2. {"try", "quiesce", "block", "rollback"} \subseteq Here
    BY DEF Here
  <2>3. QED
    BY <2>1, <2>2, GoesQuietly
<1>14. CASE Rolls!Block(t)
  <2>1. /\ pc[t] = "block" /\ time' = time /\ UNCHANGED <<waiting, threads_nb>>
        /\ pc' = [pc EXCEPT ![t] = "fence"]
    BY <1>14 DEF Rolls!Block, Rolls!Others, Rolls!At, Rolls!Goto
  <2>2. {"block", "fence"} \subseteq Here
    BY DEF Here
  <2>3. QED
    BY <2>1, <2>2, GoesQuietly
<1>15. CASE Rolls!Fence(t)
  <2>1. /\ pc[t] = "fence" /\ time' = time /\ UNCHANGED <<waiting, threads_nb>>
        /\ pc' = [pc EXCEPT ![t] = "scan"]
    BY <1>15 DEF Rolls!Fence, Rolls!Others, Rolls!At, Rolls!Goto
  <2>2. {"fence", "scan"} \subseteq Here
    BY DEF Here
  <2>3. QED
    BY <2>1, <2>2, GoesQuietly
<1>16. CASE Rolls!Scan(t)
  <2>1. pc[t] = "scan" /\ pc' = pc /\ time' = time /\ UNCHANGED <<waiting, threads_nb>>
    BY <1>16 DEF Rolls!Scan, Rolls!At
  <2>2. "scan" \in Here
    BY DEF Here
  <2>3. pc' = [pc EXCEPT ![t] = "scan"]
    BY <2>1 DEF RollInv
  <2>4. QED
    BY <2>1, <2>2, <2>3, GoesQuietly
<1>17. CASE Rolls!BecomeSerial(t)
  <2>1. /\ pc[t] = "scan" /\ time' = time /\ UNCHANGED <<waiting, threads_nb>>
        /\ pc' = [pc EXCEPT ![t] = "serial"]
    BY <1>17 DEF Rolls!BecomeSerial, Rolls!Others, Rolls!At, Rolls!Goto
  <2>2. {"scan", "serial"} \subseteq Here
    BY DEF Here
  <2>3. QED
    BY <2>1, <2>2, GoesQuietly
<1>18. CASE Rolls!ReleaseIrrevocable(t)
  <2>1. /\ pc[t] = "serial" /\ time' = time /\ UNCHANGED <<waiting, threads_nb>>
        /\ pc' = [pc EXCEPT ![t] = "release"]
    BY <1>18 DEF Rolls!ReleaseIrrevocable, Rolls!Others, Rolls!At, Rolls!Goto
  <2>2. {"serial", "release"} \subseteq Here
    BY DEF Here
  <2>3. QED
    BY <2>1, <2>2, GoesQuietly
<1>19. CASE Rolls!QuiesceRelease(t)
  <2>1. /\ pc[t] = "release" /\ time' = time /\ UNCHANGED <<waiting, threads_nb>>
        /\ pc' = [pc EXCEPT ![t] = "unlock"]
    BY <1>19 DEF Rolls!QuiesceRelease, Rolls!Others, Rolls!At, Rolls!Goto
  <2>2. {"release", "unlock"} \subseteq Here
    BY DEF Here
  <2>3. QED
    BY <2>1, <2>2, GoesQuietly
<1>20. CASE Rolls!Unlock(t)
  <2>1. /\ pc[t] = "unlock" /\ time' = time /\ UNCHANGED <<waiting, threads_nb>>
        /\ pc' = [pc EXCEPT ![t] = "commit"]
    BY <1>20 DEF Rolls!Unlock, Rolls!Others, Rolls!At, Rolls!Goto
  <2>2. {"unlock", "commit"} \subseteq Here
    BY DEF Here
  <2>3. QED
    BY <2>1, <2>2, GoesQuietly
<1>21. QED
  BY <1>1, <1>2, <1>3, <1>4, <1>5, <1>6, <1>7, <1>8, <1>9, <1>10, <1>11, <1>12, <1>13, <1>14, <1>15, <1>16, <1>17, <1>18, <1>19, <1>20 DEF Rolls!QuiesceStep

\* A step of t that keeps everybody else busy or away keeps the counter right.
LEMMA RollCounts ==
  ASSUME RollInv, NEW t \in Threads, NEW g \in [Threads -> Away \cup Here],
         \A u \in Threads \ {t} : g[u] \in Away <=> pc[u] \in Away
  PROVE  /\ Cardinality(Busy(g)) \in Nat /\ threads_nb \in Nat
         /\ (pc[t] \in Away <=> g[t] \in Away) => Cardinality(Busy(g)) = threads_nb
         /\ pc[t] \in Away /\ g[t] \notin Away => Cardinality(Busy(g)) = threads_nb + 1
         /\ pc[t] \notin Away /\ g[t] \in Away => Cardinality(Busy(g)) = threads_nb - 1
BY BusyMoves DEF RollInv

\* The loop in the barrier, entered with nb busy threads besides t: the clock
\* is reset when there are none.
LEMMA RollBarrier ==
  ASSUME RollInv, NEW t \in Threads, NEW nb \in Nat, NEW q, Rolls!BarrierLoop(t, nb, q),
         pc[t] \in {"barrier", "woken"},
         nb = Cardinality({u \in Threads \ {t} : pc[u] \notin Away})
  PROVE  RollInv' /\ Rolls!ResetStep
<1> DEFINE B == {u \in Threads \ {t} : pc[u] \notin Away}
<1>1. IsFiniteSet(B) /\ B \subseteq Threads /\ t \notin B
  BY SupportAssumption, FS_Subset
<1>2. pc \in [Threads -> Away \cup Here] /\ time \in Nat /\ waiting = {u \in Threads : pc[u] = "asleep"}
  BY DEF RollInv
<1>3. {"prepare", "barrier"} \subseteq Here /\ {"asleep", "woken"} \subseteq Away /\ "prepare" \notin Away
      /\ "barrier" \notin Away
  BY DEF Here, Away
<1>4. CASE nb = 0 /\ time' = 0 /\ waiting' = {} /\ threads_nb' = 1
           /\ pc' = [u \in Threads |-> IF u = t THEN "prepare" ELSE IF u \in waiting THEN "woken" ELSE pc[u]]
  <2>1. \A u \in Threads \ {t} : pc[u] \in Away
    BY <1>1, <1>4, FS_EmptySet
  <2>2. pc[t] \notin {"run", "check", "commit"} /\ \A l \in Away : l \notin {"run", "check", "commit"}
    BY DEF Away
  <2>3. Rolls!ResetStep
    BY <2>1, <2>2 DEF Rolls!ResetStep
  <2>4. pc' \in [Threads -> Away \cup Here] /\ {} = {u \in Threads : pc'[u] = "asleep"}
    BY <1>2, <1>3, <1>4
  <2>5. Busy(pc') = {t}
    BY <1>3, <1>4, <2>1 DEF Busy
  <2>6. Cardinality(Busy(pc')) = 1
    BY <2>5, FS_Singleton
  <2>7. QED
    BY <1>4, <2>3, <2>4, <2>6 DEF RollInv
<1>5. CASE pc' = [pc EXCEPT ![t] = "asleep"] /\ waiting' = waiting \cup {t} /\ threads_nb' = nb /\ time' = time
  <2>1. pc' \in [Threads -> Away \cup Here] /\ waiting' = {u \in Threads : pc'[u] = "asleep"}
    BY <1>2, <1>3, <1>5
  <2>2. Busy(pc') = B
    BY <1>2, <1>3, <1>5 DEF Busy
  <2>a. time' \in Nat /\ ~ (time' < time)
    BY <1>2, <1>5
  <2>b. threads_nb' = Cardinality(Busy(pc'))
    BY ZenonT(30), <1>5, <2>2
  <2>3. threads_nb' = Cardinality(Busy(pc')) /\ time' \in Nat /\ ~ (time' < time)
    BY <2>a, <2>b
  <2>4. QED
    BY <2>1, <2>3 DEF RollInv, Rolls!ResetStep
<1>6. CASE pc' = [pc EXCEPT ![t] = "prepare"] /\ waiting' = waiting /\ threads_nb' = nb + 1 /\ time' = time
  <2>1. pc' \in [Threads -> Away \cup Here] /\ waiting' = {u \in Threads : pc'[u] = "asleep"}
    BY <1>2, <1>3, <1>6
  <2>2. Busy(pc') = B \cup {t}
    BY <1>2, <1>3, <1>6 DEF Busy
  <2>3. Cardinality(Busy(pc')) = nb + 1
    BY <1>1, <2>2, FS_AddElement
  <2>4. QED
    BY <1>2, <1>6, <2>1, <2>3 DEF RollInv, Rolls!ResetStep
<1>7. QED
  BY <1>4, <1>5, <1>6 DEF Rolls!BarrierLoop, Rolls!Goto

\* Every step keeps the counter right, and the clock is reset when nobody runs.
LEMMA RollKeeps ==
  ASSUME RollInv, NEW t \in Threads, Rolls!QuiesceStep(t) \/ Rolls!QuiesceDrain(t)
  PROVE  RollInv' /\ Rolls!ResetStep
<1>1. pc \in [Threads -> Away \cup Here] /\ time \in Nat /\ waiting = {u \in Threads : pc[u] = "asleep"}
  BY DEF RollInv
<1>2. Cardinality(Busy(pc)) \in Nat /\ IsFiniteSet(Busy(pc))
  BY SupportAssumption, FS_Subset, FS_CardinalityType DEF Busy
<1>3. CASE Rolls!QuiesceDrain(t)
  BY <1>1, <1>3 DEF Rolls!QuiesceDrain, Rolls!qvars, RollInv, Rolls!ResetStep, Busy
<1>4. CASE Rolls!EnterThread(t)
  <2>1. pc[t] = "init" /\ threads_nb' = threads_nb + 1 /\ pc' = [pc EXCEPT ![t] = "idle"]
        /\ UNCHANGED <<waiting, time>>
    BY <1>4 DEF Rolls!EnterThread, Rolls!At, Rolls!Goto
  <2>2. "idle" \in Here /\ "idle" \notin Away /\ "init" \in Away
    BY DEF Here, Away
  <2>3. pc' \in [Threads -> Away \cup Here] /\ waiting' = {u \in Threads : pc'[u] = "asleep"}
        /\ pc'[t] = "idle" /\ \A u \in Threads \ {t} : pc'[u] = pc[u]
    BY <1>1, <2>1, <2>2
  <2>4. Cardinality(Busy(pc')) = threads_nb + 1
    BY ZenonT(40), <2>1, <2>2, <2>3, RollCounts
  <2>5. QED
    BY <1>1, <2>1, <2>3, <2>4 DEF RollInv, Rolls!ResetStep
<1>5. CASE Rolls!ExitThread(t)
  <2>1. PICK W \in SUBSET waiting :
          /\ pc[t] = "idle" /\ threads_nb' = threads_nb - 1 /\ UNCHANGED time
          /\ waiting' = waiting \ W
          /\ pc' = [u \in Threads |-> IF u = t THEN "exited" ELSE IF u \in W THEN "woken" ELSE pc[u]]
    <3>1. pc[t] = "idle" /\ threads_nb' = threads_nb - 1 /\ UNCHANGED time
      BY <1>5 DEF Rolls!ExitThread, Rolls!At
    <3>2. CASE Rolls!Goto(t, "exited") /\ UNCHANGED waiting
      <4>1. /\ waiting' = waiting \ {}
            /\ pc' = [u \in Threads |-> IF u = t THEN "exited" ELSE IF u \in {} THEN "woken" ELSE pc[u]]
        BY <1>1, <3>2 DEF Rolls!Goto
      <4>2. {} \in SUBSET waiting
        OBVIOUS
      <4>3. QED
        BY <3>1, <4>1, <4>2
    <3>3. ASSUME NEW u \in waiting, waiting' = waiting \ {u},
                 pc' = [pc EXCEPT ![t] = "exited", ![u] = "woken"]
          PROVE  \E W \in SUBSET waiting :
                   /\ waiting' = waiting \ W
                   /\ pc' = [v \in Threads |-> IF v = t THEN "exited" ELSE IF v \in W THEN "woken" ELSE pc[v]]
      <4>1. u # t /\ u \in Threads
        BY <1>1, <3>1
      <4>2. pc' = [v \in Threads |-> IF v = t THEN "exited" ELSE IF v \in {u} THEN "woken" ELSE pc[v]]
        BY <1>1, <3>3, <4>1
      <4>3. QED
        BY <3>3, <4>2
    <3>4. CASE \E u \in waiting : waiting' = waiting \ {u} /\ pc' = [pc EXCEPT ![t] = "exited", ![u] = "woken"]
      BY <3>1, <3>3, <3>4
    <3>5. \/ \E u \in waiting : waiting' = waiting \ {u} /\ pc' = [pc EXCEPT ![t] = "exited", ![u] = "woken"]
          \/ Rolls!Goto(t, "exited") /\ UNCHANGED waiting
      <4>1. CASE mem[Rolls!Quiesce] # 0 /\ waiting # {}
        BY <1>5, <4>1 DEF Rolls!ExitThread
      <4>2. CASE ~ (mem[Rolls!Quiesce] # 0 /\ waiting # {})
        BY <1>5, <4>2 DEF Rolls!ExitThread
      <4>3. QED
        BY <4>1, <4>2
    <3>6. QED
      BY <3>2, <3>4, <3>5
  <2>2. "idle" \in Here /\ "idle" \notin Away /\ {"exited", "asleep", "woken"} \subseteq Away
    BY DEF Here, Away
  <2>3. pc' \in [Threads -> Away \cup Here] /\ waiting' = {u \in Threads : pc'[u] = "asleep"}
        /\ pc'[t] = "exited" /\ \A u \in Threads \ {t} : pc'[u] \in Away <=> pc[u] \in Away
    BY <1>1, <2>1, <2>2
  <2>4. Cardinality(Busy(pc')) = threads_nb - 1
    BY <2>1, <2>2, <2>3, RollCounts
  <2>5. QED
    BY <1>1, <2>1, <2>3, <2>4 DEF RollInv, Rolls!ResetStep
<1>6. CASE Rolls!EnterBarrier(t)
  <2>1. pc[t] = "barrier" /\ "barrier" \notin Away
    BY <1>6 DEF Rolls!EnterBarrier, Rolls!At, Away
  <2>2. t \in Busy(pc) /\ Busy(pc) \ {t} = {u \in Threads \ {t} : pc[u] \notin Away}
    BY <2>1 DEF Busy
  <2>3. Cardinality({u \in Threads \ {t} : pc[u] \notin Away}) = threads_nb - 1
        /\ Cardinality({u \in Threads \ {t} : pc[u] \notin Away}) \in Nat
    BY <1>2, <2>2, FS_RemoveElement, FS_CardinalityType DEF RollInv
  <2>4. \E q : Rolls!BarrierLoop(t, threads_nb - 1, q)
    BY <1>6 DEF Rolls!EnterBarrier
  <2>5. QED
    BY <2>1, <2>3, <2>4, RollBarrier
<1>7. CASE Rolls!LeaveWait(t)
  <2>1. pc[t] = "woken" /\ "woken" \in Away
    BY <1>7 DEF Rolls!LeaveWait, Rolls!At, Away
  <2>2. Busy(pc) = {u \in Threads \ {t} : pc[u] \notin Away}
    BY <2>1 DEF Busy
  <2>3. Cardinality({u \in Threads \ {t} : pc[u] \notin Away}) = threads_nb /\ threads_nb \in Nat
    BY <1>2, <2>2 DEF RollInv
  <2>4. \E q : Rolls!BarrierLoop(t, threads_nb, q)
    BY <1>7 DEF Rolls!LeaveWait
  <2>5. QED
    BY <2>1, <2>3, <2>4, RollBarrier
<1>8. CASE Quiet(t)
  <2>1. pc' \in [Threads -> Away \cup Here] /\ \A u \in Threads \ {t} : pc'[u] = pc[u]
    BY <1>8 DEF Quiet
  <2>2. pc[t] \notin Away /\ pc'[t] \notin Away /\ "asleep" \in Away
    BY <1>8 DEF Quiet, Away
  <2>3. Cardinality(Busy(pc')) = threads_nb
    BY <2>1, <2>2, RollCounts
  <2>4. waiting' = {u \in Threads : pc'[u] = "asleep"}
    BY <1>1, <1>8, <2>1, <2>2 DEF Quiet
  <2>5. time' \in Nat /\ ~ (time' < time) /\ threads_nb' = threads_nb
    BY <1>1, <1>8 DEF Quiet
  <2>6. QED
    BY <2>1, <2>3, <2>4, <2>5 DEF RollInv, Rolls!ResetStep
<1>9. QED
  BY <1>3, <1>4, <1>5, <1>6, <1>7, <1>8, RollSteps

\* The roll-over is right when it runs.
SupportInv == part = "roll" => RollInv

\* In the initial states nobody is busy or asleep.
LEMMA SupportFirst ==
  ASSUME MCInit
  PROVE  SupportInv
<1> SUFFICES ASSUME part = "roll" PROVE RollInv
  BY DEF SupportInv
<1>1. pc = [t \in Threads |-> "init"] /\ waiting = {} /\ threads_nb = 0 /\ time = 0
  <2>1. Rolls!QuiesceInit
    BY DEF MCInit, GcParts
  <2>2. QED
    BY <2>1 DEF Rolls!QuiesceInit
<1>2. Busy(pc) = {}
  BY <1>1 DEF Busy, Away
<1>3. "init" \in Away
  BY DEF Away
<1>4. QED
  BY <1>1, <1>2, <1>3, FS_EmptySet DEF RollInv

\* The steps of the other parts have nothing to do with the barrier.
LEMMA SupportKeeps ==
  ASSUME SupportInv, [MCNext]_mcvars
  PROVE  SupportInv' /\ (part = "roll" => Rolls!ResetStep)
<1>1. CASE UNCHANGED mcvars
  BY <1>1 DEF mcvars, quiesceonly, SupportInv, RollInv, Busy, Rolls!ResetStep
<1>2. CASE part # "roll"
  <2>1. part' = part
    BY DEF MCNext, MCStep, MCRestart, MCGc, MCCall, mcvars
  <2>2. QED
    BY <1>2, <2>1 DEF SupportInv
<1>3. ASSUME NEW t \in Threads, part = "roll", MCStep(t)
      PROVE  SupportInv' /\ Rolls!ResetStep
  <2>1. RollInv /\ (Rolls!QuiesceStep(t) \/ Rolls!QuiesceDrain(t))
    BY <1>3 DEF SupportInv, MCStep
  <2>2. QED
    BY <2>1, RollKeeps DEF SupportInv
<1>4. part = "roll" => ~ MCGc /\ ~ MCCall /\ \A t \in Threads : ~ MCRestart(t)
  BY DEF MCGc, MCCall, MCRestart
<1>5. QED
  BY <1>1, <1>2, <1>3, <1>4 DEF MCNext

\* The clock is set back by stm_quiesce_barrier() only while no thread runs a
\* transaction.
THEOREM ClockResetWhileIdle == MCSpec => ResetWhileIdle
<1>1. MCInit => SupportInv
  BY SupportFirst
<1>2. SupportInv /\ [MCNext]_mcvars => SupportInv'
  BY SupportKeeps
<1>3. SupportInv /\ [MCNext]_mcvars => [part = "roll" => Rolls!ResetStep]_mcvars
  BY SupportKeeps
<1>4. QED
  BY <1>1, <1>2, <1>3, PTL DEF MCSpec, ResetWhileIdle

-----------------------------------------------------------------------------
\* The labels of a thread of the collector: without a slot, with one, on its way
\* to or in a transaction, while it frees a block, and on its way out.
Seeking == {"init", "find", "cas"}
Entering == {"epoch", "bound", "idle"}
InTx == {"entered", "start", "publish", "run", "barrier"}
Freeing == {"clock", "free", "cleanup", "scan", "scan_ts", "collect"}
Leaving == {"clear", "release"}
Gone == {"uncount", "exited", "over"}
Owning == Entering \cup InTx \cup Freeing \cup Leaving

\* What is freed: the blocks that transactions unlink and the descriptors.
Blk == {<<"node", n>> : n \in Nat} \cup {<<"tx", t>> : t \in Threads}
Uses == {"NULL", "BUSY", "FREE_EMPTY", "FREE_FULL"}
RegionType == [ts : Nat, blocks : Seq(Blk)]
SlotType == [used : Uses, ts : Nat, regions : Seq(RegionType)]
LocalType == [i : Gc!Slots, used : Uses, start : Nat, now : Nat, scan : Nat, min : Nat,
              todo : Seq(Blk), reg : BOOLEAN, late : BOOLEAN, since : Nat]

Owns(t) == at[t] \in Owning
Mine(t) == slots[loc[t].i]
Holds(t) == at[t] \in {"clock", "free"}
LeftAt(l, r) == l \in Leaving \cup Gone \/ (l \in Freeing /\ ~ r.reg)
Left(t) == LeftAt(at[t], loc[t])

TypesOf(l, r) ==
  /\ IF l \in {"clock", "free"} THEN \E b \in Blk : r.todo = <<b>> ELSE r.todo = <<>>
  /\ l \in InTx => r.reg
  /\ r.reg => l \in InTx \cup Freeing
GcTypes ==
  /\ clock \in Nat /\ base \in Nat /\ freed \subseteq Blk
  /\ at \in [Threads -> Seeking \cup Owning \cup Gone]
  /\ loc \in [Threads -> LocalType]
  /\ slots \in [Gc!Slots -> SlotType]
  /\ \A t \in Threads : TypesOf(at[t], loc[t])

\* A slot has one owner, and the slots that have been used come first.
GcOwners ==
  /\ \A t \in Threads : Owns(t) => Mine(t).used = "BUSY"
  /\ \A t, u \in Threads : Owns(t) /\ Owns(u) /\ loc[t].i = loc[u].i => t = u
  /\ \A t \in Threads : at[t] = "init" => loc[t].i = 1
  /\ \A t \in Threads : at[t] = "cas" =>
       loc[t].used # "BUSY" /\ (loc[t].used # "NULL" => Mine(t).used # "NULL")
  /\ \A t \in Threads : at[t] \in {"find", "cas"} =>
       \A j \in Gc!Slots : j < loc[t].i => slots[j].used # "NULL"
  /\ \A i, j \in Gc!Slots : i < j /\ slots[i].used = "NULL" => slots[j].used = "NULL"
  /\ \A i \in Gc!Slots : slots[i].used = "NULL" => slots[i].regions = <<>>

\* The bound in a slot is one: it is no later than the start of the
\* transactions to come.
Bound(ts, n) == ts = 99 \/ ts <= n
BoundsOf(l, r, ts, c) ==
  /\ l = "bound" => r.late \/ r.start <= c
  /\ l \in {"idle", "entered", "start", "publish", "run"} \cup Freeing => r.late \/ Bound(ts, c)
  /\ l = "start" => ~ r.late
  /\ l \in Freeing /\ r.reg => ~ r.late
  /\ l = "publish" => /\ r.since = r.start /\ r.start <= c
                      /\ r.late \/ Bound(ts, r.since)
  /\ l = "run" => Bound(ts, r.since) /\ Bound(ts, c)
GcBounds == \A t \in Threads : BoundsOf(at[t], loc[t], Mine(t).ts, clock)

\* The minimum that a scan has is a bound for the transactions it has passed.
Scan == {"scan", "scan_ts", "collect"}
Passed(l, r, u) == Gc!Running(u) /\ (l = "collect" \/ loc[u].i < r.scan)
ScanOf(t, l, r, rs) ==
  /\ l = "scan" => r.scan \in 1 .. GcSlots + 1
  /\ l = "scan_ts" => r.scan \in Gc!Slots
  /\ l \in Scan /\ rs # <<>> =>
       r.min <= clock /\ \A u \in Threads \ {t} : Passed(l, r, u) => r.min <= loc[u].since
GcScans == \A t \in Threads : ScanOf(t, at[t], loc[t], Mine(t).regions)

\* A block is freed when it was unlinked before the transactions that run.
Before(b, n) == b[1] = "node" => b[2] < n
GcTimes ==
  /\ \A b \in freed :
       /\ Before(b, base + clock)
       /\ \A u \in Threads : Gc!Running(u) => Before(b, base + loc[u].since)
  /\ \A i \in Gc!Slots : \A k \in DOMAIN slots[i].regions :
       \A m \in DOMAIN slots[i].regions[k].blocks :
         /\ Before(slots[i].regions[k].blocks[m], base + clock)
         /\ Before(slots[i].regions[k].blocks[m], base + slots[i].regions[k].ts)
  /\ \A t \in Threads : Holds(t) =>
       /\ loc[t].todo[1][1] = "node" => loc[t].reg
       /\ Before(loc[t].todo[1], base + clock)
       /\ at[t] = "free" => Before(loc[t].todo[1], base + loc[t].now)

\* A block is in one place.
GcOnce ==
  /\ Gc!FreedOnce
  /\ \A t \in Threads : Holds(t) => loc[t].todo[1] \notin Gc!Waiting \cup freed
  /\ \A t, u \in Threads : Holds(t) /\ Holds(u) /\ loc[t].todo[1] = loc[u].todo[1] => t = u
  /\ \A t, u \in Threads : Holds(t) /\ loc[t].todo[1] = <<"tx", u>> => u = t /\ Left(t)
  /\ \A t \in Threads : ~ Left(t) => <<"tx", t>> \notin Gc!Waiting \cup freed

\* And it is not lost.
GcKept ==
  /\ \A n \in 0 .. base + clock - 1 :
       <<"node", n>> \in freed \cup Gc!Waiting \/ \E t \in Threads : Holds(t) /\ loc[t].todo = <<<<"node", n>>>>
  /\ \A t \in Threads : Left(t) =>
       <<"tx", t>> \in freed \cup Gc!Waiting \/ (Holds(t) /\ loc[t].todo = <<<<"tx", t>>>>)
  /\ \A t \in Threads : at[t] = "over" => Gc!Waiting = {} /\ \A u \in Threads : at[u] = "over"

\* The regions of a slot are no later than the clock.  After a roll-over this
\* is not so of a thread that has left the list, and had read the clock before:
\* it meets its own slot, which has no bound now, in its scan, for ever.
AllBy(s, n) == \A k \in DOMAIN s.regions : s.regions[k].ts <= n
StuckAt(l, r, s) ==
  /\ s.ts = 99 /\ ~ r.reg
  /\ l = "cleanup" \/ (l \in {"scan", "scan_ts"} /\ r.scan <= r.i)
FreeOf(r, s, c) == AllBy(s, r.now) /\ (r.now <= c \/ (~ r.reg /\ s.ts = 99))
GcEpochs ==
  /\ \A i \in Gc!Slots :
       \/ AllBy(slots[i], clock)
       \/ \E t \in Threads : loc[t].i = i /\ StuckAt(at[t], loc[t], slots[i])
  /\ \A t \in Threads : at[t] = "free" => FreeOf(loc[t], Mine(t), clock)

GcInv == /\ GcTypes /\ GcOwners /\ GcBounds /\ GcScans /\ GcTimes /\ GcOnce /\ GcKept /\ GcEpochs

-----------------------------------------------------------------------------
\* A step of one thread: its label, its locals and its slot.
Step(t, l, r, s) ==
  /\ at' = [at EXCEPT ![t] = l] /\ loc' = [loc EXCEPT ![t] = r]
  /\ slots' = [slots EXCEPT ![loc[t].i] = s]
  /\ base' = base

\* What the step changes and what it leaves.
Effect(t, l, r, s) ==
  /\ at'[t] = l /\ loc'[t] = r /\ slots'[loc[t].i] = s
  /\ \A u \in Threads \ {t} : at'[u] = at[u] /\ loc'[u] = loc[u]
  /\ \A j \in Gc!Slots \ {loc[t].i} : slots'[j] = slots[j]
  /\ base' = base
  /\ at' \in [Threads -> Seeking \cup Owning \cup Gone] /\ loc' \in [Threads -> LocalType]
  /\ slots' \in [Gc!Slots -> SlotType]

\* The slots are numbered 1 .. GcSlots.
LEMMA SlotFacts ==
  /\ GcSlots \in Nat
  /\ Gc!Slots = 1 .. GcSlots /\ Gc!Slots' = Gc!Slots
  /\ Gc!Slots \subseteq Nat
BY GcAssumption DEF Gc!Slots

\* Such a step, thread by thread and slot by slot.
LEMMA StepEffect ==
  ASSUME GcTypes, NEW t \in Threads, NEW l \in Seeking \cup Owning \cup Gone, NEW r \in LocalType,
         NEW s \in SlotType, Step(t, l, r, s)
  PROVE  Effect(t, l, r, s) /\ loc[t].i \in Gc!Slots /\ \A u \in Threads : loc[u].i \in Gc!Slots
<1>1. /\ at \in [Threads -> Seeking \cup Owning \cup Gone] /\ loc \in [Threads -> LocalType]
      /\ slots \in [Gc!Slots -> SlotType]
  BY DEF GcTypes
<1>2. \A u \in Threads : loc[u].i \in Gc!Slots
  BY <1>1 DEF LocalType
<1>3. /\ at' \in [Threads -> Seeking \cup Owning \cup Gone] /\ at'[t] = l
      /\ \A u \in Threads \ {t} : at'[u] = at[u]
  BY <1>1 DEF Step
<1>4. loc' \in [Threads -> LocalType] /\ loc'[t] = r /\ \A u \in Threads \ {t} : loc'[u] = loc[u]
  BY <1>1 DEF Step
<1>5. /\ slots' \in [Gc!Slots -> SlotType] /\ slots'[loc[t].i] = s
      /\ \A j \in Gc!Slots \ {loc[t].i} : slots'[j] = slots[j]
  BY <1>1, <1>2 DEF Step
<1>6. QED
  BY <1>2, <1>3, <1>4, <1>5 DEF Step, Effect

\* The owner of a slot stays its owner.
LEMMA OwnerStays ==
  ASSUME GcTypes, GcOwners, NEW t \in Threads, NEW l, NEW r, NEW s, Effect(t, l, r, s),
         Owns(t), l \in Owning, r.i = loc[t].i, s.used = "BUSY"
  PROVE  GcOwners'
<1> USE DEF Owns, Mine
<1>1. Gc!Slots' = Gc!Slots /\ Gc!Slots \subseteq Nat /\ \A u \in Threads : loc[u].i \in Gc!Slots
  BY SlotFacts DEF GcTypes, LocalType
<1>2. l \notin {"init", "find", "cas"}
  BY DEF Owning, Entering, InTx, Freeing, Leaving
<1>3. Mine(t).used = "BUSY" /\ \A u \in Threads : Owns(u) /\ u # t => loc[u].i # loc[t].i
  BY DEF GcOwners
<1>4. \A j \in Gc!Slots : slots'[j].used = slots[j].used
  BY <1>3 DEF Effect
<1>5. \A u \in Threads \ {t} : at'[u] = at[u] /\ loc'[u] = loc[u]
  BY DEF Effect
<1>6. at'[t] = l /\ loc'[t] = r
  BY DEF Effect
<1>a. \A u \in Threads : loc'[u].i = loc[u].i
  BY <1>5, <1>6
<1>b. \A u \in Threads : Mine(u)'.used = Mine(u).used
  BY <1>1, <1>4, <1>a
<1>7. \A u \in Threads : Owns(u)' => Mine(u)'.used = "BUSY"
  BY <1>3, <1>5, <1>6, <1>b DEF GcOwners
<1>8. \A u, v \in Threads : Owns(u)' /\ Owns(v)' /\ loc'[u].i = loc'[v].i => u = v
  BY <1>5, <1>6 DEF GcOwners
<1>9. /\ \A u \in Threads : at'[u] = "init" => loc'[u].i = 1
      /\ \A u \in Threads : at'[u] = "cas" =>
           loc'[u].used # "BUSY" /\ (loc'[u].used # "NULL" => Mine(u)'.used # "NULL")
  BY <1>2, <1>5, <1>6, <1>b DEF GcOwners
<1>10. \A u \in Threads : at'[u] \in {"find", "cas"} =>
         \A j \in Gc!Slots : j < loc'[u].i => slots'[j].used # "NULL"
  BY <1>2, <1>4, <1>5, <1>6 DEF GcOwners
<1>11. \A i, j \in Gc!Slots : i < j /\ slots'[i].used = "NULL" => slots'[j].used = "NULL"
  BY <1>4 DEF GcOwners
<1>12. \A i \in Gc!Slots : slots'[i].used = "NULL" => slots'[i].regions = <<>>
  <2> SUFFICES ASSUME NEW i \in Gc!Slots, slots'[i].used = "NULL" PROVE slots'[i].regions = <<>>
    OBVIOUS
  <2>1. i # loc[t].i
    BY <1>3, <1>4
  <2>2. slots'[i] = slots[i]
    BY <2>1 DEF Effect
  <2>3. QED
    BY <2>2 DEF GcOwners
<1>13. QED
  BY <1>1, <1>7, <1>8, <1>9, <1>10, <1>11, <1>12 DEF GcOwners

\* A thread that has no slot looks for one, or is gone.
LEMMA SeekerMoves ==
  ASSUME GcTypes, GcOwners, NEW t \in Threads, NEW l, NEW r \in LocalType, Effect(t, l, r, Mine(t)),
         l \notin Owning, l # "init",
         l = "cas" => /\ r.used # "BUSY"
                      /\ r.used # "NULL" => slots[r.i].used # "NULL",
         l \in {"find", "cas"} => \A j \in Gc!Slots : j < r.i => slots[j].used # "NULL"
  PROVE  GcOwners'
<1> USE DEF Owns
<1>1. Gc!Slots' = Gc!Slots /\ \A u \in Threads : loc[u].i \in Gc!Slots
  BY SlotFacts DEF GcTypes, LocalType
<1>2. \A j \in Gc!Slots : slots'[j] = slots[j]
  BY DEF Effect, Mine
<1>3. \A u \in Threads \ {t} : at'[u] = at[u] /\ loc'[u] = loc[u] /\ Mine(u)' = Mine(u)
  BY <1>1, <1>2 DEF Effect, Mine
<1>4. at'[t] = l /\ loc'[t] = r /\ Mine(t)' = slots[r.i]
  BY <1>2 DEF Effect, Mine, LocalType
<1>5. \A u \in Threads : Owns(u)' => u # t /\ Owns(u)
  BY <1>3, <1>4
<1>6. \A u \in Threads : Owns(u)' => Mine(u)'.used = "BUSY"
  BY <1>3, <1>5 DEF GcOwners
<1>7. \A u, v \in Threads : Owns(u)' /\ Owns(v)' /\ loc'[u].i = loc'[v].i => u = v
  BY <1>3, <1>5 DEF GcOwners
<1>8. \A u \in Threads : at'[u] = "init" => loc'[u].i = 1
  BY <1>3, <1>4 DEF GcOwners
<1>9. \A u \in Threads : at'[u] = "cas" =>
        loc'[u].used # "BUSY" /\ (loc'[u].used # "NULL" => Mine(u)'.used # "NULL")
  BY <1>3, <1>4 DEF GcOwners
<1>10. \A u \in Threads : at'[u] \in {"find", "cas"} =>
         \A j \in Gc!Slots : j < loc'[u].i => slots'[j].used # "NULL"
  BY <1>2, <1>3, <1>4 DEF GcOwners
<1>11. /\ \A i, j \in Gc!Slots : i < j /\ slots'[i].used = "NULL" => slots'[j].used = "NULL"
       /\ \A i \in Gc!Slots : slots'[i].used = "NULL" => slots'[i].regions = <<>>
  BY <1>2 DEF GcOwners
<1>12. QED
  BY <1>1, <1>6, <1>7, <1>8, <1>9, <1>10, <1>11 DEF GcOwners

\* A slot that nobody owns gets an owner.
LEMMA SlotClaimed ==
  ASSUME GcTypes, GcOwners, NEW t \in Threads, NEW l \in Owning, NEW r, NEW s, Effect(t, l, r, s),
         at[t] = "cas", Mine(t).used = loc[t].used, r.i = loc[t].i, s.used = "BUSY",
         s.regions = Mine(t).regions
  PROVE  GcOwners'
<1> USE DEF Owns
<1> DEFINE i == loc[t].i
<1>1. Gc!Slots' = Gc!Slots /\ Gc!Slots \subseteq Nat /\ \A u \in Threads : loc[u].i \in Gc!Slots
  BY SlotFacts DEF GcTypes, LocalType
<1>2. Mine(t).used # "BUSY" /\ \A j \in Gc!Slots : j < i => slots[j].used # "NULL"
  BY DEF GcOwners
<1>3. \A u \in Threads \ {t} : Owns(u) => loc[u].i # i
  BY <1>2 DEF GcOwners, Mine
<1>4. l \notin {"init", "find", "cas"}
  BY DEF Owning, Entering, InTx, Freeing, Leaving
<1>5. \A u \in Threads \ {t} : at'[u] = at[u] /\ loc'[u] = loc[u]
  BY DEF Effect
<1>6. at'[t] = l /\ loc'[t].i = i /\ slots'[i].used = "BUSY" /\ slots'[i].regions = slots[i].regions
  BY DEF Effect, Mine
<1>7. \A j \in Gc!Slots \ {i} : slots'[j] = slots[j]
  BY DEF Effect
<1>8. \A j \in Gc!Slots : slots'[j].used = "NULL" => slots[j].used = "NULL" /\ j # i
  BY <1>6, <1>7
<1>9. ASSUME NEW u \in Threads, Owns(u)' PROVE Mine(u)'.used = "BUSY"
  <2>1. CASE u = t
    BY <1>6, <2>1 DEF Mine
  <2>2. CASE u # t
    <3>1. Owns(u) /\ loc'[u] = loc[u] /\ loc[u].i # i /\ loc[u].i \in Gc!Slots
      BY <1>1, <1>3, <1>5, <1>9, <2>2
    <3>2. slots'[loc[u].i] = slots[loc[u].i]
      BY <1>7, <3>1
    <3>3. slots[loc[u].i].used = "BUSY"
      BY <3>1 DEF GcOwners, Mine
    <3>4. QED
      BY <3>1, <3>2, <3>3 DEF Mine
  <2>3. QED
    BY <2>1, <2>2
<1>10. \A u, v \in Threads : Owns(u)' /\ Owns(v)' /\ loc'[u].i = loc'[v].i => u = v
  BY <1>3, <1>5, <1>6 DEF GcOwners
<1>11. \A u \in Threads : at'[u] = "init" => loc'[u].i = 1
  BY <1>4, <1>5, <1>6 DEF GcOwners
<1>12. \A u \in Threads : at'[u] = "cas" =>
         loc'[u].used # "BUSY" /\ (loc'[u].used # "NULL" => Mine(u)'.used # "NULL")
  <2> SUFFICES ASSUME NEW u \in Threads, at'[u] = "cas"
               PROVE  loc'[u].used # "BUSY" /\ (loc'[u].used # "NULL" => Mine(u)'.used # "NULL")
    OBVIOUS
  <2>1. at[u] = "cas" /\ loc'[u] = loc[u]
    BY <1>4, <1>5, <1>6
  <2>2. Mine(u)'.used = "NULL" => Mine(u).used = "NULL"
    BY <1>1, <1>8, <2>1 DEF Mine
  <2>3. QED
    BY <2>1, <2>2 DEF GcOwners
<1>13. \A u \in Threads : at'[u] \in {"find", "cas"} =>
         \A j \in Gc!Slots : j < loc'[u].i => slots'[j].used # "NULL"
  BY <1>4, <1>5, <1>6, <1>8 DEF GcOwners
<1>14. \A j, k \in Gc!Slots : j < k /\ slots'[j].used = "NULL" => slots'[k].used = "NULL"
  <2> SUFFICES ASSUME NEW j \in Gc!Slots, NEW k \in Gc!Slots, j < k, slots'[j].used = "NULL"
               PROVE  slots'[k].used = "NULL"
    OBVIOUS
  <2>1. slots[j].used = "NULL" /\ j # i
    BY <1>8
  <2>2. slots[k].used = "NULL"
    BY <2>1 DEF GcOwners
  <2>3. k # i
    BY <1>2, <2>1
  <2>4. QED
    BY <1>7, <2>2, <2>3
<1>15. \A j \in Gc!Slots : slots'[j].used = "NULL" => slots'[j].regions = <<>>
  BY <1>7, <1>8 DEF GcOwners
<1>16. QED
  BY <1>1, <1>9, <1>10, <1>11, <1>12, <1>13, <1>14, <1>15 DEF GcOwners

\* The owner of a slot leaves it.
LEMMA SlotReleased ==
  ASSUME GcTypes, GcOwners, NEW t \in Threads, NEW l \in Gone, NEW r, NEW s, Effect(t, l, r, s),
         Owns(t), s.used \in {"FREE_EMPTY", "FREE_FULL"}
  PROVE  GcOwners'
<1> USE DEF Owns
<1> DEFINE i == loc[t].i
<1>1. Gc!Slots' = Gc!Slots /\ Gc!Slots \subseteq Nat /\ \A u \in Threads : loc[u].i \in Gc!Slots
  BY SlotFacts DEF GcTypes, LocalType
<1>2. Mine(t).used = "BUSY" /\ \A u \in Threads \ {t} : Owns(u) => loc[u].i # i
  BY DEF GcOwners
<1>4. l \notin {"init", "find", "cas"} /\ l \notin Owning
  BY DEF Gone, Owning, Entering, InTx, Freeing, Leaving
<1>5. \A u \in Threads \ {t} : at'[u] = at[u] /\ loc'[u] = loc[u]
  BY DEF Effect
<1>6. at'[t] = l /\ slots'[i].used # "NULL"
  BY DEF Effect
<1>7. \A j \in Gc!Slots \ {i} : slots'[j] = slots[j]
  BY DEF Effect
<1>8. \A j \in Gc!Slots : (slots'[j].used = "NULL" <=> slots[j].used = "NULL") /\ (slots'[j].used = "NULL" => j # i)
  BY <1>2, <1>6, <1>7 DEF Mine
<1>9. ASSUME NEW u \in Threads, Owns(u)' PROVE Mine(u)'.used = "BUSY"
  <2>1. u # t /\ Owns(u) /\ loc'[u] = loc[u]
    BY <1>4, <1>5, <1>6, <1>9
  <2>2. Mine(u)' = Mine(u)
    BY <1>1, <1>2, <1>7, <2>1 DEF Mine
  <2>3. QED
    BY <2>1, <2>2 DEF GcOwners
<1>10. \A u, v \in Threads : Owns(u)' /\ Owns(v)' /\ loc'[u].i = loc'[v].i => u = v
  BY <1>4, <1>5, <1>6 DEF GcOwners
<1>11. \A u \in Threads : at'[u] = "init" => loc'[u].i = 1
  BY <1>4, <1>5, <1>6 DEF GcOwners
<1>12. \A u \in Threads : at'[u] = "cas" =>
         loc'[u].used # "BUSY" /\ (loc'[u].used # "NULL" => Mine(u)'.used # "NULL")
  <2> SUFFICES ASSUME NEW u \in Threads, at'[u] = "cas"
               PROVE  loc'[u].used # "BUSY" /\ (loc'[u].used # "NULL" => Mine(u)'.used # "NULL")
    OBVIOUS
  <2>1. at[u] = "cas" /\ loc'[u] = loc[u]
    BY <1>4, <1>5, <1>6
  <2>2. Mine(u)'.used = "NULL" => Mine(u).used = "NULL"
    BY <1>1, <1>8, <2>1 DEF Mine
  <2>3. QED
    BY <2>1, <2>2 DEF GcOwners
<1>13. \A u \in Threads : at'[u] \in {"find", "cas"} =>
         \A j \in Gc!Slots : j < loc'[u].i => slots'[j].used # "NULL"
  BY <1>4, <1>5, <1>6, <1>8 DEF GcOwners
<1>14. \A j, k \in Gc!Slots : j < k /\ slots'[j].used = "NULL" => slots'[k].used = "NULL"
  BY <1>8 DEF GcOwners
<1>15. \A j \in Gc!Slots : slots'[j].used = "NULL" => slots'[j].regions = <<>>
  BY <1>7, <1>8 DEF GcOwners
<1>16. QED
  BY <1>1, <1>9, <1>10, <1>11, <1>12, <1>13, <1>14, <1>15 DEF GcOwners

\* The other owners keep their slots as they are.
LEMMA OthersKeep ==
  ASSUME GcTypes, GcOwners, NEW t \in Threads, NEW l, NEW r, NEW s, Effect(t, l, r, s),
         Owns(t) \/ s = Mine(t) \/ Mine(t).used # "BUSY"
  PROVE  \A u \in Threads \ {t} : Owns(u) => Mine(u)' = Mine(u)
<1> SUFFICES ASSUME NEW u \in Threads \ {t}, Owns(u) PROVE slots'[loc[u].i] = slots[loc[u].i]
  BY DEF Mine, Effect
<1>1. loc[u].i \in Gc!Slots
  BY DEF GcTypes, LocalType
<1>2. loc[u].i = loc[t].i => s = Mine(t)
  BY DEF GcOwners, Mine
<1>3. QED
  BY <1>1, <1>2 DEF Effect, Mine

\* The bounds of the other threads hold, the clock going on.
LEMMA BoundsStay ==
  ASSUME GcTypes, GcOwners, GcBounds, NEW t \in Threads, NEW l, NEW r, NEW s, Effect(t, l, r, s),
         Owns(t) \/ s = Mine(t) \/ Mine(t).used # "BUSY",
         clock' \in Nat, clock <= clock', r.i = loc[t].i \/ l \notin Owning, BoundsOf(l, r, s.ts, clock')
  PROVE  GcBounds'
<1> SUFFICES ASSUME NEW u \in Threads PROVE BoundsOf(at[u], loc[u], Mine(u).ts, clock)'
  BY DEF GcBounds
<1>1. CASE u = t /\ r.i = loc[t].i
  <2>1. at'[u] = l /\ loc'[u] = r /\ Mine(u)' = s
    BY <1>1 DEF Effect, Mine
  <2>2. QED
    BY <2>1
<1>2. CASE u = t /\ l \notin Owning
  <2>1. at'[u] \notin Owning
    BY <1>2 DEF Effect
  <2>2. QED
    BY <2>1 DEF BoundsOf, Owning, Entering, InTx, Freeing
<1>3. CASE u # t /\ Owns(u)
  <2>1. at'[u] = at[u] /\ loc'[u] = loc[u] /\ Mine(u)' = Mine(u)
    BY <1>3, OthersKeep DEF Effect
  <2>2. BoundsOf(at[u], loc[u], Mine(u).ts, clock)
    BY DEF GcBounds
  <2>3. loc[u].start \in Nat /\ loc[u].since \in Nat /\ Mine(u).ts \in Nat /\ clock \in Nat
    BY DEF GcTypes, LocalType, SlotType, Mine
  <2>4. \A n, m \in Nat : n <= m /\ Bound(Mine(u).ts, n) => Bound(Mine(u).ts, m)
    BY <2>3 DEF Bound
  <2>5. QED
    BY <2>1, <2>2, <2>3, <2>4 DEF BoundsOf
<1>4. CASE u # t /\ ~ Owns(u)
  <2>1. at'[u] \notin Owning
    BY <1>4 DEF Effect, Owns
  <2>2. QED
    BY <2>1 DEF BoundsOf, Owning, Entering, InTx, Freeing
<1>5. QED
  BY <1>1, <1>2, <1>3, <1>4

\* The transaction of t may use what has been linked from now on, or it could
\* already use it.
Since(t, l, r) ==
  l = "run" \/ (l = "publish" /\ ~ r.late) =>
    clock <= r.since \/ (Gc!Running(t) /\ r.since = loc[t].since /\ r.i = loc[t].i)

\* Which transactions run after a step of t.
LEMMA RunningIs ==
  ASSUME NEW t \in Threads, NEW l, NEW r, NEW s, Effect(t, l, r, s)
  PROVE  /\ Gc!Running(t)' <=> (l = "run" \/ (l = "publish" /\ ~ r.late))
         /\ \A u \in Threads \ {t} : Gc!Running(u)' <=> Gc!Running(u)
BY DEF Effect, Gc!Running, Gc!At

\* The scans of the other threads stay right.
LEMMA ScansStay ==
  ASSUME GcTypes, GcOwners, GcScans, NEW t \in Threads, NEW l, NEW r \in LocalType, NEW s, Effect(t, l, r, s),
         Owns(t) \/ s = Mine(t) \/ Mine(t).used # "BUSY",
         clock' \in Nat, clock <= clock', r.i = loc[t].i \/ l \notin Owning,
         ScanOf(t, l, r, s.regions), Since(t, l, r)
  PROVE  GcScans'
<1> SUFFICES ASSUME NEW u \in Threads PROVE ScanOf(u, at[u], loc[u], Mine(u).regions)'
  BY DEF GcScans
<1> USE SlotFacts
<1>0. Scan \subseteq Owning /\ "scan" \in Scan /\ "scan_ts" \in Scan
  BY DEF Scan, Owning, Freeing
<1>1. CASE u = t /\ r.i = loc[t].i
  <2>1. at'[u] = l /\ loc'[u] = r /\ Mine(u)' = s
    BY <1>1 DEF Effect, Mine
  <2>2. ASSUME NEW v \in Threads \ {t}, Passed(l, r, v)' PROVE Passed(l, r, v) /\ loc'[v].since = loc[v].since
    BY <2>2, RunningIs DEF Passed, Effect
  <2>3. ASSUME l \in Scan, s.regions # <<>>
        PROVE  r.min <= clock' /\ \A v \in Threads \ {t} : Passed(l, r, v)' => r.min <= loc'[v].since
    <3>1. r.min <= clock /\ \A v \in Threads \ {t} : Passed(l, r, v) => r.min <= loc[v].since
      BY <2>3 DEF ScanOf
    <3>2. r.min <= clock'
      BY <3>1 DEF LocalType, GcTypes
    <3>3. QED
      BY <2>2, <3>1, <3>2
  <2>4. QED
    BY <1>1, <2>1, <2>3 DEF ScanOf
<1>2. CASE u = t /\ l \notin Owning
  <2>1. at'[u] \notin Scan
    BY <1>0, <1>2 DEF Effect
  <2>2. QED
    BY <1>0, <2>1 DEF ScanOf
<1>3. CASE u # t /\ Owns(u)
  <2>1. at'[u] = at[u] /\ loc'[u] = loc[u] /\ Mine(u)' = Mine(u)
    BY <1>3, OthersKeep DEF Effect
  <2>2. ScanOf(u, at[u], loc[u], Mine(u).regions)
    BY DEF GcScans
  <2>3. ASSUME at[u] \in Scan, Mine(u).regions # <<>>
        PROVE  loc[u].min <= clock' /\ \A v \in Threads \ {u} : Passed(at[u], loc[u], v)' => loc[u].min <= loc'[v].since
    <3>1. loc[u].min <= clock /\ \A v \in Threads \ {u} : Passed(at[u], loc[u], v) => loc[u].min <= loc[v].since
      BY <2>2, <2>3 DEF ScanOf
    <3>2. loc[u].min \in Nat /\ clock \in Nat /\ r.since \in Nat
      BY DEF GcTypes, LocalType
    <3>3. ASSUME NEW v \in Threads \ {u}, Passed(at[u], loc[u], v)', v # t PROVE loc[u].min <= loc'[v].since
      <4>1. Passed(at[u], loc[u], v) /\ loc'[v] = loc[v]
        BY <2>1, <3>3, RunningIs DEF Passed, Effect
      <4>2. QED
        BY <3>1, <4>1
    <3>4. ASSUME Passed(at[u], loc[u], t)' PROVE loc[u].min <= loc'[t].since
      <4>1. loc'[t] = r /\ (l = "run" \/ (l = "publish" /\ ~ r.late))
        BY <3>4, RunningIs DEF Passed, Effect
      <4>2. clock <= r.since \/ (Gc!Running(t) /\ r.since = loc[t].since /\ r.i = loc[t].i)
        BY <4>1 DEF Since
      <4>3. CASE clock <= r.since
        BY <3>1, <3>2, <4>1, <4>3
      <4>4. CASE Gc!Running(t) /\ r.since = loc[t].since /\ r.i = loc[t].i
        <5>1. Passed(at[u], loc[u], t)
          BY <2>1, <3>4, <4>1, <4>4 DEF Passed
        <5>2. QED
          BY <1>3, <3>1, <4>1, <4>4, <5>1
      <4>5. QED
        BY <4>2, <4>3, <4>4
    <3>5. QED
      BY <3>1, <3>2, <3>3, <3>4
  <2>4. QED
    BY <2>1, <2>2, <2>3 DEF ScanOf
<1>4. CASE u # t /\ ~ Owns(u)
  <2>1. at'[u] \notin Scan
    BY <1>0, <1>4 DEF Effect, Owns
  <2>2. QED
    BY <1>0, <2>1 DEF ScanOf
<1>5. QED
  BY <1>1, <1>2, <1>3, <1>4

\* A step that keeps the regions of its slot keeps what waits.
LEMMA RegionsStay ==
  ASSUME GcTypes, NEW t \in Threads, NEW l, NEW r, NEW s, Effect(t, l, r, s), s.regions = Mine(t).regions
  PROVE  /\ \A j \in Gc!Slots : slots'[j].regions = slots[j].regions
         /\ Gc!Waiting' = Gc!Waiting
         /\ freed' = freed => (Gc!FreedOnce => Gc!FreedOnce')
<1>1. \A j \in Gc!Slots : slots'[j].regions = slots[j].regions
  BY DEF Effect, Mine
<1>2. Gc!Slots' = Gc!Slots
  BY SlotFacts
<1>3. Gc!Waiting' = Gc!Waiting
  BY <1>1, <1>2 DEF Gc!Waiting, Gc!Blocks
<1>4. QED
  BY SMTT(30), <1>1, <1>2, <1>3 DEF Gc!FreedOnce

\* What was unlinked before n was unlinked before every later m.
LEMMA BeforeMore ==
  ASSUME NEW b \in Blk, NEW n \in Nat, NEW m \in Nat, n <= m, Before(b, n)
  PROVE  Before(b, m)
<1>1. CASE b[1] = "node"
  <2>1. b[2] \in Nat
    BY <1>1 DEF Blk
  <2>2. QED
    BY <2>1 DEF Before
<1>2. QED
  BY <1>1 DEF Before

\* The types of what a slot or a thread holds.
LEMMA RegionsAre ==
  ASSUME GcTypes, NEW i \in Gc!Slots
  PROVE  /\ slots[i].regions \in Seq(RegionType)
         /\ \A k \in DOMAIN slots[i].regions :
              /\ slots[i].regions[k] \in RegionType /\ slots[i].regions[k].ts \in Nat
              /\ slots[i].regions[k].blocks \in Seq(Blk)
              /\ \A m \in DOMAIN slots[i].regions[k].blocks : slots[i].regions[k].blocks[m] \in Blk
<1>1. slots[i].regions \in Seq(RegionType)
  BY DEF GcTypes, SlotType
<1>2. ASSUME NEW k \in DOMAIN slots[i].regions
      PROVE  /\ slots[i].regions[k] \in RegionType /\ slots[i].regions[k].ts \in Nat
             /\ slots[i].regions[k].blocks \in Seq(Blk)
             /\ \A m \in DOMAIN slots[i].regions[k].blocks : slots[i].regions[k].blocks[m] \in Blk
  <2>1. slots[i].regions[k] \in RegionType
    BY <1>1, <1>2, ElementOfSeq
  <2>2. slots[i].regions[k].ts \in Nat /\ slots[i].regions[k].blocks \in Seq(Blk)
    BY <2>1 DEF RegionType
  <2>3. ASSUME NEW m \in DOMAIN slots[i].regions[k].blocks PROVE slots[i].regions[k].blocks[m] \in Blk
    BY <2>2, <2>3, ElementOfSeq
  <2>4. QED
    BY <2>1, <2>2, <2>3
<1>3. QED
  BY <1>1, <1>2

\* A thread that has a block to free has one, and it is a block.
LEMMA HeldIs ==
  ASSUME GcTypes, NEW u \in Threads, Holds(u)
  PROVE  loc[u].todo[1] \in Blk /\ loc[u].todo = <<loc[u].todo[1]>>
<1>1. PICK b \in Blk : loc[u].todo = <<b>>
  BY DEF GcTypes, TypesOf, Holds
<1>2. QED
  BY <1>1

\* The blocks that are freed and those that wait stay what they are.
LEMMA TimesStay ==
  ASSUME GcTypes, GcTimes, NEW t \in Threads, NEW l, NEW r \in LocalType, NEW s, Effect(t, l, r, s),
         s.regions = Mine(t).regions, freed' = freed, clock' \in Nat, clock <= clock', Since(t, l, r),
         l \in {"clock", "free"} =>
           /\ r.todo[1][1] = "node" => r.reg
           /\ Before(r.todo[1], base + clock')
           /\ l = "free" => Before(r.todo[1], base + r.now)
  PROVE  GcTimes'
<1>a. clock \in Nat /\ base \in Nat /\ \A u \in Threads : loc[u].since \in Nat
  BY DEF GcTypes, LocalType
<1>b. base' = base
  BY DEF Effect
<1>0. /\ base + clock \in Nat /\ base + clock' \in Nat
      /\ base + clock <= base + clock'
  BY <1>a
<1>1. ASSUME NEW b \in freed
      PROVE  /\ Before(b, base + clock')
             /\ \A u \in Threads : Gc!Running(u)' => Before(b, base + loc'[u].since)
  <2>0. b \in Blk
    BY DEF GcTypes
  <2>1. Before(b, base + clock) /\ \A u \in Threads : Gc!Running(u) => Before(b, base + loc[u].since)
    BY DEF GcTimes
  <2>2. Before(b, base + clock')
    BY <1>0, <1>a, <1>b, <2>0, <2>1, BeforeMore
  <2>3. ASSUME NEW u \in Threads, Gc!Running(u)', u # t PROVE Before(b, base + loc'[u].since)
    <3>1. Gc!Running(u) /\ loc'[u] = loc[u]
      BY <2>3, RunningIs DEF Effect
    <3>2. QED
      BY <2>1, <3>1
  <2>4. ASSUME Gc!Running(t)' PROVE Before(b, base + loc'[t].since)
    <3>1. loc'[t] = r /\ (clock <= r.since \/ (Gc!Running(t) /\ r.since = loc[t].since))
      BY <2>4, RunningIs DEF Since, Effect
    <3>2. CASE clock <= r.since
      <4>1. base + r.since \in Nat /\ base + clock <= base + r.since
        BY <1>0, <1>a, <1>b, <3>2 DEF LocalType
      <4>2. QED
        BY <1>0, <1>a, <1>b, <2>0, <2>1, <3>1, <4>1, BeforeMore
    <3>3. CASE Gc!Running(t) /\ r.since = loc[t].since
      BY <2>1, <3>1, <3>3
    <3>4. QED
      BY <3>1, <3>2, <3>3
  <2>5. QED
    BY <2>2, <2>3, <2>4
<1>2. ASSUME NEW i \in Gc!Slots, NEW k \in DOMAIN slots[i].regions,
             NEW m \in DOMAIN slots[i].regions[k].blocks
      PROVE  /\ Before(slots[i].regions[k].blocks[m], base + clock')
             /\ Before(slots[i].regions[k].blocks[m], base + slots[i].regions[k].ts)
  <2>1. /\ Before(slots[i].regions[k].blocks[m], base + clock)
        /\ Before(slots[i].regions[k].blocks[m], base + slots[i].regions[k].ts)
    BY DEF GcTimes
  <2>2. slots[i].regions[k].blocks[m] \in Blk
    BY RegionsAre
  <2>3. QED
    BY <1>0, <1>a, <1>b, <2>1, <2>2, BeforeMore
<1>3. ASSUME NEW u \in Threads, Holds(u)'
      PROVE  /\ loc'[u].todo[1][1] = "node" => loc'[u].reg
             /\ Before(loc'[u].todo[1], base + clock')
             /\ at'[u] = "free" => Before(loc'[u].todo[1], base + loc'[u].now)
  <2>1. CASE u = t
    <3>1. at'[u] = l /\ loc'[u] = r /\ l \in {"clock", "free"}
      BY <1>3, <2>1 DEF Effect, Holds
    <3>2. QED
      BY <3>1
  <2>2. CASE u # t
    <3>1. at'[u] = at[u] /\ loc'[u] = loc[u] /\ Holds(u)
      BY <1>3, <2>2 DEF Effect, Holds
    <3>2. /\ loc[u].todo[1][1] = "node" => loc[u].reg
          /\ Before(loc[u].todo[1], base + clock)
          /\ at[u] = "free" => Before(loc[u].todo[1], base + loc[u].now)
      BY <3>1 DEF GcTimes
    <3>3. Before(loc[u].todo[1], base + clock')
      BY <1>0, <1>a, <1>b, <3>1, <3>2, HeldIs, BeforeMore
    <3>4. QED
      BY <3>1, <3>2, <3>3
  <2>3. QED
    BY <2>1, <2>2
<1>4. /\ Gc!Slots' = Gc!Slots
      /\ \A j \in Gc!Slots : slots'[j].regions = slots[j].regions
  BY SlotFacts, RegionsStay
<1>5. QED
  BY <1>0, <1>a, <1>b, <1>1, <1>2, <1>3, <1>4 DEF GcTimes

\* What t holds is what it held, or a block that is nowhere else.
LEMMA OnceStays ==
  ASSUME GcTypes, GcOnce, NEW t \in Threads, NEW l, NEW r, NEW s, Effect(t, l, r, s),
         s.regions = Mine(t).regions, freed' = freed, Left(t) => LeftAt(l, r),
         l \in {"clock", "free"} =>
           \/ Holds(t) /\ r.todo = loc[t].todo
           \/ /\ r.todo[1] \notin Gc!Waiting \cup freed
              /\ \A u \in Threads \ {t} : Holds(u) => loc[u].todo[1] # r.todo[1]
              /\ \A u \in Threads : r.todo[1] = <<"tx", u>> => u = t /\ LeftAt(l, r)
  PROVE  GcOnce'
<1>1. Gc!Waiting' = Gc!Waiting /\ Gc!FreedOnce'
  BY RegionsStay DEF GcOnce
<1>2. \A u \in Threads \ {t} : /\ at'[u] = at[u] /\ loc'[u] = loc[u]
                               /\ Holds(u)' <=> Holds(u)
                               /\ Left(u)' <=> Left(u)
  BY DEF Effect, Holds, Left, LeftAt
<1>3. /\ at'[t] = l /\ loc'[t] = r
      /\ Holds(t)' <=> l \in {"clock", "free"}
      /\ Left(t)' <=> LeftAt(l, r)
  BY DEF Effect, Holds, Left, LeftAt
<1>4. Holds(t)' => /\ r.todo[1] \notin Gc!Waiting \cup freed
                   /\ \A u \in Threads \ {t} : Holds(u) => loc[u].todo[1] # r.todo[1]
                   /\ \A u \in Threads : r.todo[1] = <<"tx", u>> => u = t /\ LeftAt(l, r)
  BY <1>3 DEF GcOnce
<1>5. \A u \in Threads : Holds(u)' => loc'[u].todo[1] \notin Gc!Waiting \cup freed
  BY <1>2, <1>3, <1>4 DEF GcOnce
<1>6. \A u, v \in Threads : Holds(u)' /\ Holds(v)' /\ loc'[u].todo[1] = loc'[v].todo[1] => u = v
  BY <1>2, <1>3, <1>4 DEF GcOnce
<1>7. \A u, v \in Threads : Holds(u)' /\ loc'[u].todo[1] = <<"tx", v>> => v = u /\ Left(u)'
  BY <1>2, <1>3, <1>4 DEF GcOnce
<1>8. \A u \in Threads : ~ Left(u)' => <<"tx", u>> \notin Gc!Waiting \cup freed
  BY <1>2, <1>3 DEF GcOnce
<1>9. QED
  BY <1>1, <1>5, <1>6, <1>7, <1>8 DEF GcOnce

\* Nothing is lost either.
LEMMA KeptStays ==
  ASSUME GcTypes, GcKept, NEW t \in Threads, NEW l, NEW r, NEW s, Effect(t, l, r, s),
         s.regions = Mine(t).regions, freed' = freed, at[t] # "over", l # "over",
         Holds(t) => l \in {"clock", "free"} /\ r.todo = loc[t].todo,
         LeftAt(l, r) => Left(t) \/ (l \in {"clock", "free"} /\ r.todo = <<<<"tx", t>>>>),
         \/ clock' = clock
         \/ clock' = clock + 1 /\ l \in {"clock", "free"} /\ r.todo = <<<<"node", base + clock>>>>
  PROVE  GcKept'
<1>0. clock \in Nat /\ base \in Nat /\ base' = base
  BY DEF GcTypes, Effect
<1>1. Gc!Waiting' = Gc!Waiting
  BY RegionsStay
<1>2. \A u \in Threads \ {t} : /\ at'[u] = at[u] /\ loc'[u] = loc[u]
                               /\ Holds(u)' <=> Holds(u)
                               /\ Left(u)' <=> Left(u)
  BY DEF Effect, Holds, Left, LeftAt
<1>3. /\ at'[t] = l /\ loc'[t] = r
      /\ Holds(t)' <=> l \in {"clock", "free"}
      /\ Left(t)' <=> LeftAt(l, r)
  BY DEF Effect, Holds, Left, LeftAt
<1>4. \A u \in Threads : Holds(u) => Holds(u)' /\ loc'[u].todo = loc[u].todo
  BY <1>2, <1>3
<1>5. ASSUME NEW n \in 0 .. base + clock' - 1
      PROVE  \/ <<"node", n>> \in freed \cup Gc!Waiting
             \/ \E u \in Threads : Holds(u)' /\ loc'[u].todo = <<<<"node", n>>>>
  <2>1. CASE n \in 0 .. base + clock - 1
    BY <1>4, <2>1 DEF GcKept
  <2>2. CASE n = base + clock /\ l \in {"clock", "free"} /\ r.todo = <<<<"node", base + clock>>>>
    BY <1>3, <2>2
  <2>3. QED
    BY <1>0, <2>1, <2>2
<1>6. \A u \in Threads : Left(u)' =>
         <<"tx", u>> \in freed \cup Gc!Waiting \/ (Holds(u)' /\ loc'[u].todo = <<<<"tx", u>>>>)
  BY <1>2, <1>3, <1>4 DEF GcKept
<1>7. \A u \in Threads : at'[u] # "over"
  BY <1>2, <1>3 DEF GcKept
<1>8. QED
  BY <1>0, <1>1, <1>5, <1>6, <1>7 DEF GcKept

\* A thread that waits for itself still has its slot.
LEMMA StuckOwns ==
  ASSUME GcTypes, GcOwners, NEW t \in Threads, NEW u \in Threads, StuckAt(at[u], loc[u], slots[loc[t].i]),
         loc[u].i = loc[t].i
  PROVE  Owns(u) /\ Mine(t).used = "BUSY" /\ (Owns(t) => u = t)
BY DEF StuckAt, Owns, Owning, Freeing, GcOwners, Mine

\* A step of t is right for the epochs of everybody if it is for those of t.
LEMMA EpochsStep ==
  ASSUME GcTypes, GcOwners, GcEpochs, NEW t \in Threads, NEW l, NEW r, NEW s, Effect(t, l, r, s),
         Owns(t) \/ s = Mine(t) \/ Mine(t).used # "BUSY", r.i = loc[t].i \/ l \notin Owning,
         clock' \in Nat, clock <= clock',
         \/ ~ Owns(t) /\ s = Mine(t)
         \/ AllBy(s, clock')
         \/ StuckAt(l, r, s),
         l = "free" => FreeOf(r, s, clock')
  PROVE  GcEpochs'
<1>1. clock \in Nat /\ \A u \in Threads : loc[u].now \in Nat /\ loc[u].i \in Gc!Slots
  BY DEF GcTypes, LocalType
<1>0. "free" \in Owning /\ "cleanup" \in Owning /\ "scan" \in Owning /\ "scan_ts" \in Owning
  BY DEF Owning, Freeing
<1>a. /\ at'[t] = l /\ loc'[t] = r /\ slots'[loc[t].i] = s
      /\ \A u \in Threads \ {t} : at'[u] = at[u] /\ loc'[u] = loc[u]
      /\ \A j \in Gc!Slots \ {loc[t].i} : slots'[j] = slots[j]
  BY DEF Effect
<1>b. ASSUME NEW i \in Gc!Slots, AllBy(slots[i], clock) PROVE AllBy(slots[i], clock')
  <2>1. ASSUME NEW k \in DOMAIN slots[i].regions PROVE slots[i].regions[k].ts <= clock'
    <3>1. slots[i].regions[k].ts \in Nat
      BY <2>1, RegionsAre
    <3>2. slots[i].regions[k].ts <= clock
      BY <1>b, <2>1 DEF AllBy
    <3>3. QED
      BY <1>1, <3>1, <3>2
  <2>2. QED
    BY <2>1 DEF AllBy
<1>2. ASSUME NEW i \in Gc!Slots
      PROVE  AllBy(slots'[i], clock') \/ \E u \in Threads : loc'[u].i = i /\ StuckAt(at'[u], loc'[u], slots'[i])
  <2>1. CASE i = loc[t].i /\ AllBy(s, clock')
    BY <1>a, <2>1
  <2>2. CASE i = loc[t].i /\ StuckAt(l, r, s)
    <3>1. l \in Owning
      BY <1>0, <2>2 DEF StuckAt
    <3>2. QED
      BY <1>a, <2>2, <3>1
  <2>3. CASE i # loc[t].i \/ (~ Owns(t) /\ s = Mine(t))
    <3>1. slots'[i] = slots[i]
      BY <1>a, <2>3 DEF Mine
    <3>2. CASE AllBy(slots[i], clock)
      BY <1>b, <3>1, <3>2
    <3>3. ASSUME NEW u \in Threads, loc[u].i = i, StuckAt(at[u], loc[u], slots[i])
          PROVE  \E v \in Threads : loc'[v].i = i /\ StuckAt(at'[v], loc'[v], slots'[i])
      <4>1. Owns(u)
        BY <1>0, <3>3 DEF StuckAt, Owns
      <4>2. u # t
        BY <2>3, <3>3, <4>1
      <4>3. QED
        BY <1>a, <3>1, <3>3, <4>2
    <3>4. QED
      BY <3>2, <3>3 DEF GcEpochs
  <2>4. QED
    BY <2>1, <2>2, <2>3
<1>3. ASSUME NEW u \in Threads, at'[u] = "free" PROVE FreeOf(loc'[u], Mine(u)', clock')
  <2>1. CASE u = t
    <3>1. l = "free" /\ loc'[u] = r /\ Mine(u)' = s
      BY <1>0, <1>3, <1>a, <2>1 DEF Mine
    <3>2. QED
      BY <3>1
  <2>2. CASE u # t
    <3>1. at[u] = "free" /\ loc'[u] = loc[u] /\ Mine(u)' = Mine(u)
      BY <1>0, <1>3, <1>a, <2>2, OthersKeep DEF Owns
    <3>2. FreeOf(loc[u], Mine(u), clock)
      BY <3>1 DEF GcEpochs
    <3>3. loc[u].now <= clock => loc[u].now <= clock'
      BY <1>1
    <3>4. FreeOf(loc[u], Mine(u), clock')
      BY <3>2, <3>3 DEF FreeOf
    <3>5. QED
      BY <3>1, <3>4
  <2>3. QED
    BY <2>1, <2>2
<1>4. QED
  BY <1>2, <1>3, SlotFacts DEF GcEpochs

\* A step that leaves the regions.
LEMMA EpochsStay ==
  ASSUME GcTypes, GcOwners, GcEpochs, NEW t \in Threads, NEW l, NEW r, NEW s, Effect(t, l, r, s),
         Owns(t) \/ s = Mine(t) \/ Mine(t).used # "BUSY", r.i = loc[t].i \/ l \notin Owning,
         s.regions = Mine(t).regions, clock' \in Nat, clock <= clock',
         at[t] \in {"cleanup", "scan", "scan_ts"} =>
           (StuckAt(at[t], loc[t], Mine(t)) => StuckAt(l, r, s) \/ s.regions = <<>>),
         l = "free" => FreeOf(r, s, clock')
  PROVE  GcEpochs'
<1>1. loc[t].i \in Gc!Slots /\ clock \in Nat
  BY DEF GcTypes, LocalType
<1>2. CASE AllBy(Mine(t), clock)
  <2>1. ASSUME NEW k \in DOMAIN s.regions PROVE s.regions[k].ts <= clock'
    <3>1. Mine(t).regions[k].ts \in Nat
      BY <1>1, <2>1, RegionsAre DEF Mine
    <3>2. Mine(t).regions[k].ts <= clock
      BY <1>2, <2>1 DEF AllBy
    <3>3. QED
      BY <1>1, <3>1, <3>2
  <2>2. AllBy(s, clock')
    BY <2>1 DEF AllBy
  <2>3. QED
    BY <2>2, EpochsStep
<1>3. ASSUME NEW u \in Threads, loc[u].i = loc[t].i, StuckAt(at[u], loc[u], Mine(t)) PROVE GcEpochs'
  <2>1. Owns(u) /\ Mine(t).used = "BUSY" /\ (Owns(t) => u = t)
    BY <1>3, StuckOwns DEF Mine
  <2>2. CASE Owns(t)
    <3>1. StuckAt(l, r, s) \/ s.regions = <<>>
      BY <1>3, <2>1, <2>2 DEF StuckAt
    <3>2. s.regions = <<>> => AllBy(s, clock')
      BY DEF AllBy
    <3>3. QED
      BY <3>1, <3>2, EpochsStep
  <2>3. CASE ~ Owns(t)
    <3>1. s = Mine(t)
      BY <2>1, <2>3
    <3>2. QED
      BY <2>3, <3>1, EpochsStep
  <2>4. QED
    BY <2>2, <2>3
<1>4. QED
  BY <1>1, <1>2, <1>3 DEF GcEpochs, Mine

\* What the invariant says of one thread.
LEMMA OneThread ==
  ASSUME GcInv, NEW t \in Threads
  PROVE  /\ loc[t] \in LocalType /\ Mine(t) \in SlotType /\ TypesOf(at[t], loc[t])
         /\ at[t] \in Seeking \cup Owning \cup Gone
         /\ BoundsOf(at[t], loc[t], Mine(t).ts, clock)
         /\ ScanOf(t, at[t], loc[t], Mine(t).regions)
         /\ clock \in Nat /\ base \in Nat
         /\ Owns(t) => Mine(t).used = "BUSY"
         /\ loc[t].i \in Gc!Slots
<1>1. loc[t] \in LocalType /\ at[t] \in Seeking \cup Owning \cup Gone
  BY DEF GcInv, GcTypes
<1>2. loc[t].i \in Gc!Slots
  BY <1>1 DEF LocalType
<1>3. Mine(t) \in SlotType
  BY <1>2 DEF GcInv, GcTypes, Mine
<1>4. TypesOf(at[t], loc[t]) /\ clock \in Nat /\ base \in Nat
  BY DEF GcInv, GcTypes
<1>5. BoundsOf(at[t], loc[t], Mine(t).ts, clock) /\ ScanOf(t, at[t], loc[t], Mine(t).regions)
  BY DEF GcInv, GcBounds, GcScans
<1>6. Owns(t) => Mine(t).used = "BUSY"
  BY DEF GcInv, GcOwners
<1>7. QED
  BY <1>1, <1>2, <1>3, <1>4, <1>5, <1>6

\* What stays is its own update.
LEMMA Same ==
  ASSUME GcTypes, NEW t \in Threads
  PROVE  /\ at = [at EXCEPT ![t] = at[t]] /\ loc = [loc EXCEPT ![t] = loc[t]]
         /\ slots = [slots EXCEPT ![loc[t].i] = Mine(t)]
BY DEF GcTypes, Mine

\* A step that moves no block keeps the invariant if it is right for t.
LEMMA QuietStep ==
  ASSUME GcInv, NEW t \in Threads, NEW l, NEW r \in LocalType, NEW s \in SlotType, Effect(t, l, r, s),
         GcOwners',
         Owns(t) \/ s = Mine(t) \/ Mine(t).used # "BUSY", r.i = loc[t].i \/ l \notin Owning,
         s.regions = Mine(t).regions, freed' = freed, clock' = clock,
         TypesOf(l, r), BoundsOf(l, r, s.ts, clock), ScanOf(t, l, r, s.regions), Since(t, l, r),
         at[t] \notin {"clock", "free", "over"}, l \notin {"clock", "free", "over"},
         at[t] \in {"cleanup", "scan", "scan_ts"} =>
           (StuckAt(at[t], loc[t], Mine(t)) => StuckAt(l, r, s) \/ s.regions = <<>>),
         LeftAt(l, r) <=> Left(t)
  PROVE  GcInv'
<1>1. /\ GcTypes /\ GcOwners /\ GcBounds /\ GcScans /\ GcTimes /\ GcOnce /\ GcKept /\ GcEpochs
      /\ clock \in Nat /\ clock <= clock'
  BY DEF GcInv, GcTypes
<1>2. GcTypes'
  <2>1. \A u \in Threads : TypesOf(at[u], loc[u])'
    BY DEF Effect, GcInv, GcTypes, TypesOf
  <2>2. QED
    BY <2>1, SlotFacts DEF GcInv, GcTypes, Effect
<1>3. ~ Holds(t)
  BY DEF Holds
<1>4. BoundsOf(l, r, s.ts, clock')
  OBVIOUS
<1>5. GcBounds'
  BY <1>1, <1>4, BoundsStay
<1>6. GcScans'
  BY <1>1, ScansStay
<1>7. GcTimes'
  BY <1>1, TimesStay
<1>8. GcOnce'
  BY <1>1, OnceStays
<1>9. GcKept'
  BY <1>1, <1>3, KeptStays
<1>10. GcEpochs'
  BY <1>1, EpochsStay
<1>11. QED
  BY <1>2, <1>5, <1>6, <1>7, <1>8, <1>9, <1>10 DEF GcInv

\* The same of the owner of a slot.
LEMMA OwnerStep ==
  ASSUME GcInv, NEW t \in Threads, NEW l \in Owning, NEW r \in LocalType, NEW s \in SlotType,
         Step(t, l, r, s), Owns(t), r.i = loc[t].i, s.used = "BUSY",
         s.regions = Mine(t).regions, freed' = freed, clock' = clock,
         TypesOf(l, r), BoundsOf(l, r, s.ts, clock), ScanOf(t, l, r, s.regions), Since(t, l, r),
         at[t] \notin {"clock", "free", "over"}, l \notin {"clock", "free", "over"},
         at[t] \in {"cleanup", "scan", "scan_ts"} =>
           (StuckAt(at[t], loc[t], Mine(t)) => StuckAt(l, r, s) \/ s.regions = <<>>),
         LeftAt(l, r) <=> Left(t)
  PROVE  GcInv'
<1>1. GcTypes /\ GcOwners
  BY DEF GcInv
<1>2. Effect(t, l, r, s)
  BY <1>1, StepEffect
<1>3. GcOwners'
  BY <1>1, <1>2, OwnerStays
<1>4. QED
  BY <1>2, <1>3, QuietStep

-----------------------------------------------------------------------------
\* gc_init_thread()

\* The next slot to look at, after one that is in use.
LEMMA NextSlotIs ==
  ASSUME GcInv, NEW t \in Threads, at[t] \in {"find", "cas"}, Mine(t).used # "NULL",
         NEW r, r = [loc[t] EXCEPT !.i = IF @ = GcSlots THEN 1 ELSE @ + 1]
  PROVE  r \in LocalType /\ \A j \in Gc!Slots : j < r.i => slots[j].used # "NULL"
<1>1. loc[t] \in LocalType /\ loc[t].i \in 1 .. GcSlots /\ Gc!Slots = 1 .. GcSlots
      /\ GcSlots \in Nat
  BY OneThread, SlotFacts
<1>2. r.i = (IF loc[t].i = GcSlots THEN 1 ELSE loc[t].i + 1)
  BY <1>1 DEF LocalType
<1>3. r.i \in Gc!Slots
  BY <1>1, <1>2
<1>4. r \in LocalType
  BY <1>1, <1>2, <1>3 DEF LocalType
<1>5. ASSUME NEW j \in Gc!Slots, j < r.i PROVE slots[j].used # "NULL"
  <2>1. j < loc[t].i \/ j = loc[t].i
    BY <1>1, <1>2, <1>5
  <2>2. QED
    BY <2>1 DEF GcInv, GcOwners, Mine
<1>6. QED
  BY <1>4, <1>5

\* A thread that looks for a slot, or has left it, moves on.
LEMMA SeekerStep ==
  ASSUME GcInv, NEW t \in Threads, NEW l \in Seeking \cup Gone, NEW r \in LocalType,
         Step(t, l, r, Mine(t)), freed' = freed, clock' = clock,
         l \notin {"init", "over"}, at[t] \in Seeking \cup {"uncount"}, l \in Gone <=> at[t] = "uncount",
         r.todo = loc[t].todo, r.reg = loc[t].reg,
         l = "cas" => /\ r.used # "BUSY"
                      /\ r.used # "NULL" => slots[r.i].used # "NULL",
         l \in {"find", "cas"} => \A j \in Gc!Slots : j < r.i => slots[j].used # "NULL"
  PROVE  GcInv'
<1>1. /\ TypesOf(at[t], loc[t]) /\ Mine(t) \in SlotType
      /\ GcTypes /\ GcOwners
  BY OneThread DEF GcInv
<1>2. l \notin Owning /\ l \notin Scan /\ l \notin {"clock", "free", "run", "publish"}
  BY DEF Owning, Entering, InTx, Freeing, Leaving, Seeking, Gone, Scan
<1>3. Effect(t, l, r, Mine(t))
  BY <1>1, StepEffect
<1>4. GcOwners'
  BY <1>1, <1>2, <1>3, SeekerMoves
<1>5. TypesOf(l, r)
  BY <1>1, <1>2 DEF TypesOf, Owning, InTx, Freeing, Seeking
<1>6. BoundsOf(l, r, Mine(t).ts, clock) /\ ScanOf(t, l, r, Mine(t).regions) /\ Since(t, l, r)
  BY <1>2 DEF BoundsOf, ScanOf, Since, Owning, Entering, InTx, Freeing, Scan
<1>7. at[t] \notin {"clock", "free", "over", "cleanup", "scan", "scan_ts"} /\ (LeftAt(l, r) <=> Left(t))
  BY <1>2 DEF Left, LeftAt, Seeking, Gone, Leaving, Freeing
<1>8. QED
  BY <1>1, <1>2, <1>3, <1>4, <1>5, <1>6, <1>7, QuietStep

\* The atomic increment of nb_active.
LEMMA CountThreadKeeps ==
  ASSUME GcInv, NEW t \in Threads, Gc!CountThread(t)
  PROVE  GcInv'
<1>1. at[t] = "init" /\ loc[t] \in LocalType /\ loc[t].i = 1
  BY OneThread DEF Gc!CountThread, Gc!At, GcInv, GcOwners
<1>2. Step(t, "find", loc[t], Mine(t))
  BY Same DEF Gc!CountThread, Gc!Goto, Step, GcInv
<1>3. \A j \in Gc!Slots : j < loc[t].i => slots[j].used # "NULL"
  BY <1>1, SlotFacts
<1>4. QED
  BY <1>1, <1>2, <1>3, SeekerStep DEF Gc!CountThread, Seeking, Gone

\* The load of the state of a slot.
LEMMA LoadUsedKeeps ==
  ASSUME GcInv, NEW t \in Threads, Gc!LoadUsed(t)
  PROVE  GcInv'
<1>0. /\ at[t] = "find" /\ loc[t] \in LocalType /\ Mine(t) \in SlotType
      /\ freed' = freed /\ clock' = clock /\ GcTypes
  BY OneThread DEF Gc!LoadUsed, Gc!At, GcInv
<1>1. CASE Mine(t).used = "BUSY"
  <2> DEFINE r == [loc[t] EXCEPT !.i = IF @ = GcSlots THEN 1 ELSE @ + 1]
  <2>1. Step(t, "find", r, Mine(t))
    BY <1>0, <1>1, Same DEF Gc!LoadUsed, Gc!NextSlot, Gc!Locals, Gc!Slot, Mine, Step
  <2>2. r \in LocalType /\ \A j \in Gc!Slots : j < r.i => slots[j].used # "NULL"
    BY <1>0, <1>1, NextSlotIs
  <2>3. r.todo = loc[t].todo /\ r.reg = loc[t].reg
    BY <1>0 DEF LocalType
  <2> HIDE DEF r
  <2>4. QED
    BY <1>0, <2>1, <2>2, <2>3, SeekerStep DEF Seeking, Gone
<1>2. CASE Mine(t).used # "BUSY"
  <2> DEFINE r == [loc[t] EXCEPT !.used = Mine(t).used]
  <2>1. Step(t, "cas", r, Mine(t))
    BY <1>0, <1>2, Same DEF Gc!LoadUsed, Gc!Goto, Gc!Locals, Gc!Slot, Mine, Step
  <2>2. /\ r \in LocalType /\ r.todo = loc[t].todo /\ r.reg = loc[t].reg /\ r.i = loc[t].i
        /\ r.used = Mine(t).used
    BY <1>0 DEF LocalType, SlotType
  <2>3. \A j \in Gc!Slots : j < r.i => slots[j].used # "NULL"
    BY <1>0, <2>2 DEF GcInv, GcOwners
  <2>4. r.used # "BUSY" /\ (r.used # "NULL" => slots[r.i].used # "NULL")
    BY <1>2, <2>2 DEF Mine
  <2> HIDE DEF r
  <2>5. QED
    BY <1>0, <2>1, <2>2, <2>3, <2>4, SeekerStep DEF Seeking, Gone
<1>3. QED
  BY <1>1, <1>2

\* The compare and swap that claims the slot: nobody has it.
LEMMA ClaimSlotKeeps ==
  ASSUME GcInv, NEW t \in Threads, Gc!ClaimSlot(t)
  PROVE  GcInv'
<1>0. /\ at[t] = "cas" /\ loc[t] \in LocalType /\ Mine(t) \in SlotType /\ TypesOf(at[t], loc[t])
      /\ freed' = freed /\ clock' = clock /\ GcTypes /\ GcOwners
  BY OneThread DEF Gc!ClaimSlot, Gc!At, GcInv
<1>1. CASE Mine(t).used = loc[t].used
  <2> DEFINE r == [loc[t] EXCEPT !.used = "NULL"]
             s == [Mine(t) EXCEPT !.used = "BUSY"]
  <2>1. Step(t, "epoch", r, s)
    BY <1>0, <1>1 DEF Gc!ClaimSlot, Gc!Goto, Gc!Locals, Gc!Slot, Gc!SetSlot, Mine, Step
  <2>2. r \in LocalType /\ r.todo = loc[t].todo /\ r.reg = loc[t].reg /\ r.i = loc[t].i
    BY <1>0 DEF LocalType, Uses
  <2>3. s \in SlotType /\ s.used = "BUSY" /\ s.regions = Mine(t).regions
    BY <1>0 DEF SlotType, Uses
  <2> HIDE DEF r, s
  <2>4. Effect(t, "epoch", r, s) /\ "epoch" \in Owning
    BY <1>0, <2>1, <2>2, <2>3, StepEffect DEF Owning, Entering
  <2>5. GcOwners'
    BY <1>0, <1>1, <2>2, <2>3, <2>4, SlotClaimed
  <2>6. Mine(t).used # "BUSY"
    BY <1>0, <1>1 DEF GcOwners
  <2>7. /\ TypesOf("epoch", r) /\ BoundsOf("epoch", r, s.ts, clock) /\ ScanOf(t, "epoch", r, s.regions)
        /\ Since(t, "epoch", r) /\ (LeftAt("epoch", r) <=> Left(t))
    BY <1>0, <2>2 DEF TypesOf, BoundsOf, ScanOf, Since, Left, LeftAt, InTx, Freeing, Leaving, Gone, Scan
  <2>8. QED
    BY <1>0, <2>2, <2>3, <2>4, <2>5, <2>6, <2>7, QuietStep
<1>2. CASE Mine(t).used # loc[t].used
  <2> DEFINE r == [loc[t] EXCEPT !.i = IF @ = GcSlots THEN 1 ELSE @ + 1]
  <2>0. Mine(t).used # "NULL"
    BY <1>0, <1>2 DEF GcOwners
  <2>1. Step(t, "find", r, Mine(t))
    BY <1>0, <1>2, Same DEF Gc!ClaimSlot, Gc!NextSlot, Gc!Goto, Gc!Locals, Gc!Slot, Mine, Step
  <2>2. r \in LocalType /\ \A j \in Gc!Slots : j < r.i => slots[j].used # "NULL"
    BY <1>0, <2>0, NextSlotIs
  <2>3. r.todo = loc[t].todo /\ r.reg = loc[t].reg
    BY <1>0 DEF LocalType
  <2> HIDE DEF r
  <2>4. QED
    BY <1>0, <2>1, <2>2, <2>3, SeekerStep DEF Seeking, Gone
<1>3. QED
  BY <1>1, <1>2

\* The load of the epoch for the first lower bound.
LEMMA ReadEpochKeeps ==
  ASSUME GcInv, NEW t \in Threads, Gc!ReadEpoch(t)
  PROVE  GcInv'
<1>0. /\ at[t] = "epoch" /\ loc[t] \in LocalType /\ Mine(t) \in SlotType /\ TypesOf(at[t], loc[t])
      /\ Mine(t).used = "BUSY" /\ Owns(t) /\ clock \in Nat
      /\ freed' = freed /\ clock' = clock /\ GcTypes
  BY OneThread DEF Gc!ReadEpoch, Gc!At, GcInv, Owns, Owning, Entering
<1> DEFINE r == [loc[t] EXCEPT !.start = clock]
<1>1. Step(t, "bound", r, Mine(t)) /\ "bound" \in Owning
  BY <1>0, Same DEF Gc!ReadEpoch, Gc!Goto, Gc!Locals, Step, Owning, Entering
<1>2. r \in LocalType /\ r.todo = loc[t].todo /\ r.reg = loc[t].reg /\ r.i = loc[t].i /\ r.start = clock
  BY <1>0 DEF LocalType
<1> HIDE DEF r
<1>3. /\ TypesOf("bound", r) /\ BoundsOf("bound", r, Mine(t).ts, clock) /\ ScanOf(t, "bound", r, Mine(t).regions)
      /\ Since(t, "bound", r) /\ (LeftAt("bound", r) <=> Left(t))
  BY <1>0, <1>2 DEF TypesOf, BoundsOf, ScanOf, Since, Left, LeftAt, InTx, Freeing, Leaving, Gone, Scan
<1>4. QED
  BY <1>0, <1>1, <1>2, <1>3, OwnerStep

\* The first lower bound, which a roll-over may have made useless.
LEMMA SetLowerBoundKeeps ==
  ASSUME GcInv, NEW t \in Threads, Gc!SetLowerBound(t)
  PROVE  GcInv'
<1>0. /\ at[t] = "bound" /\ loc[t] \in LocalType /\ Mine(t) \in SlotType /\ TypesOf(at[t], loc[t])
      /\ Mine(t).used = "BUSY" /\ Owns(t) /\ BoundsOf(at[t], loc[t], Mine(t).ts, clock)
      /\ freed' = freed /\ clock' = clock /\ GcTypes
  BY OneThread DEF Gc!SetLowerBound, Gc!At, GcInv, Owns, Owning, Entering
<1> DEFINE s == [Mine(t) EXCEPT !.ts = loc[t].start]
<1>1. Step(t, "idle", loc[t], s) /\ "idle" \in Owning
  BY <1>0, Same DEF Gc!SetLowerBound, Gc!Goto, Gc!SetSlot, Gc!Slot, Mine, Step, Owning, Entering
<1>2. s \in SlotType /\ s.used = "BUSY" /\ s.regions = Mine(t).regions /\ s.ts = loc[t].start
  BY <1>0 DEF SlotType, LocalType
<1> HIDE DEF s
<1>3. /\ TypesOf("idle", loc[t]) /\ BoundsOf("idle", loc[t], s.ts, clock) /\ ScanOf(t, "idle", loc[t], s.regions)
      /\ Since(t, "idle", loc[t]) /\ (LeftAt("idle", loc[t]) <=> Left(t))
  BY <1>0, <1>2 DEF TypesOf, BoundsOf, Bound, ScanOf, Since, Left, LeftAt, InTx, Freeing, Leaving, Gone, Scan
<1>4. QED
  BY <1>0, <1>1, <1>2, <1>3, OwnerStep

\* From now on the roll-over waits for t.
LEMMA EnterKeeps ==
  ASSUME GcInv, NEW t \in Threads, Gc!Enter(t)
  PROVE  GcInv'
<1>0. /\ at[t] = "idle" /\ loc[t] \in LocalType /\ Mine(t) \in SlotType /\ TypesOf(at[t], loc[t])
      /\ Mine(t).used = "BUSY" /\ Owns(t) /\ BoundsOf(at[t], loc[t], Mine(t).ts, clock)
      /\ freed' = freed /\ clock' = clock /\ GcTypes
  BY OneThread DEF Gc!Enter, Gc!At, GcInv, Owns, Owning, Entering
<1> DEFINE r == [loc[t] EXCEPT !.reg = TRUE]
<1>1. Step(t, "entered", r, Mine(t)) /\ "entered" \in Owning
  BY <1>0, Same DEF Gc!Enter, Gc!Goto, Gc!Locals, Step, Owning, InTx
<1>2. r \in LocalType /\ r.todo = loc[t].todo /\ r.reg /\ r.i = loc[t].i /\ r.late = loc[t].late
  BY <1>0 DEF LocalType
<1> HIDE DEF r
<1>3. /\ TypesOf("entered", r) /\ BoundsOf("entered", r, Mine(t).ts, clock) /\ ScanOf(t, "entered", r, Mine(t).regions)
      /\ Since(t, "entered", r) /\ (LeftAt("entered", r) <=> Left(t))
  BY <1>0, <1>2 DEF TypesOf, BoundsOf, ScanOf, Since, Left, LeftAt, InTx, Freeing, Leaving, Gone, Scan
<1>4. QED
  BY <1>0, <1>1, <1>2, <1>3, OwnerStep

-----------------------------------------------------------------------------
\* Transactions

\* A transaction reads the clock.
LEMMA StartKeeps ==
  ASSUME GcInv, NEW t \in Threads, Gc!Start(t)
  PROVE  GcInv'
<1>0. /\ at[t] \in {"start", "entered"} /\ loc[t] \in LocalType /\ Mine(t) \in SlotType
      /\ Mine(t).used = "BUSY" /\ Owns(t) /\ BoundsOf(at[t], loc[t], Mine(t).ts, clock)
      /\ freed' = freed /\ clock' = clock /\ GcTypes /\ clock \in Nat /\ TypesOf(at[t], loc[t])
  BY OneThread DEF Gc!Start, Gc!At, GcInv, Owns, Owning, InTx
<1> DEFINE r == [loc[t] EXCEPT !.start = clock, !.since = clock]
           l == IF clock >= limit THEN "barrier" ELSE "publish"
<1>1. Step(t, l, r, Mine(t)) /\ l \in Owning
  BY <1>0, Same DEF Gc!Start, Gc!Goto, Gc!Locals, Step, Owning, InTx
<1>2. /\ r \in LocalType /\ r.todo = loc[t].todo /\ r.reg = loc[t].reg /\ r.i = loc[t].i
      /\ r.late = loc[t].late /\ r.start = clock /\ r.since = clock
  BY <1>0 DEF LocalType
<1>3. /\ TypesOf(l, r) /\ BoundsOf(l, r, Mine(t).ts, clock) /\ ScanOf(t, l, r, Mine(t).regions)
      /\ Since(t, l, r) /\ (LeftAt(l, r) <=> Left(t))
  <2> HIDE DEF r
  <2>1. TypesOf(l, r) /\ ScanOf(t, l, r, Mine(t).regions) /\ (LeftAt(l, r) <=> Left(t))
    BY <1>0, <1>2 DEF TypesOf, ScanOf, Left, LeftAt, InTx, Freeing, Leaving, Gone, Scan
  <2>2. loc[t].late \/ Bound(Mine(t).ts, clock)
    BY <1>0 DEF BoundsOf
  <2>3. BoundsOf(l, r, Mine(t).ts, clock)
    BY <1>0, <1>2, <2>2 DEF BoundsOf, Freeing
  <2>4. Since(t, l, r)
    BY <1>0, <1>2 DEF Since
  <2>5. QED
    BY <2>1, <2>3, <2>4
<1> HIDE DEF r
<1>4. l \notin {"clock", "free", "over"}
  OBVIOUS
<1> HIDE DEF l
<1>5. QED
  BY <1>0, <1>1, <1>2, <1>3, <1>4, OwnerStep

\* It publishes its start, and can be seen from then on.
LEMMA SetEpochKeeps ==
  ASSUME GcInv, NEW t \in Threads, Gc!gc_set_epoch(t)
  PROVE  GcInv'
<1>0. /\ at[t] = "publish" /\ loc[t] \in LocalType /\ Mine(t) \in SlotType
      /\ Mine(t).used = "BUSY" /\ Owns(t) /\ BoundsOf(at[t], loc[t], Mine(t).ts, clock)
      /\ freed' = freed /\ clock' = clock /\ GcTypes /\ clock \in Nat /\ TypesOf(at[t], loc[t])
  BY OneThread DEF Gc!gc_set_epoch, Gc!At, GcInv, Owns, Owning, InTx
<1> DEFINE r == [loc[t] EXCEPT !.since = IF loc[t].late THEN clock ELSE @]
           s == [Mine(t) EXCEPT !.ts = loc[t].start]
<1>1. Step(t, "run", r, s) /\ "run" \in Owning
  BY <1>0, Same DEF Gc!gc_set_epoch, Gc!Goto, Gc!Locals, Gc!SetSlot, Gc!Slot, Mine, Step, Owning, InTx
<1>2. /\ r \in LocalType /\ r.todo = loc[t].todo /\ r.reg = loc[t].reg /\ r.i = loc[t].i
      /\ r.since = (IF loc[t].late THEN clock ELSE loc[t].since)
  BY <1>0 DEF LocalType
<1>3. s \in SlotType /\ s.used = "BUSY" /\ s.regions = Mine(t).regions /\ s.ts = loc[t].start
  BY <1>0 DEF SlotType, LocalType
<1> HIDE DEF r, s
<1>4. loc[t].since = loc[t].start /\ loc[t].start <= clock
  BY <1>0 DEF BoundsOf
<1>5. /\ TypesOf("run", r) /\ BoundsOf("run", r, s.ts, clock) /\ ScanOf(t, "run", r, s.regions)
      /\ LeftAt("run", r) <=> Left(t)
  BY <1>0, <1>2, <1>3, <1>4 DEF TypesOf, BoundsOf, Bound, ScanOf, Left, LeftAt, InTx, Freeing, Leaving, Gone, Scan, LocalType
<1>6. Since(t, "run", r)
  BY <1>0, <1>2 DEF Since, Gc!Running, Gc!At
<1>7. QED
  BY <1>0, <1>1, <1>2, <1>3, <1>5, <1>6, OwnerStep

\* The transaction of t is over.
LEMMA EndedIs ==
  ASSUME GcInv, NEW t \in Threads
  PROVE  /\ Gc!Ended(t) \in LocalType /\ Gc!Ended(t).todo = loc[t].todo
         /\ Gc!Ended(t).reg = loc[t].reg /\ Gc!Ended(t).i = loc[t].i /\ ~ Gc!Ended(t).late
         /\ Gc!Ended(t).since = loc[t].since
BY OneThread DEF Gc!Ended, LocalType

\* It commits without a block to free, or aborts.
LEMMA EndKeeps ==
  ASSUME GcInv, NEW t \in Threads, at[t] = "run", NEW l \in {"start", "entered"},
         Gc!Goto(t, l), Gc!Locals(t, Gc!Ended(t)),
         UNCHANGED <<slots, clock, limit, base, freed>>
  PROVE  GcInv'
<1>0. /\ loc[t] \in LocalType /\ Mine(t) \in SlotType
      /\ Mine(t).used = "BUSY" /\ Owns(t) /\ BoundsOf(at[t], loc[t], Mine(t).ts, clock)
      /\ freed' = freed /\ clock' = clock /\ GcTypes /\ TypesOf(at[t], loc[t])
  BY OneThread DEF GcInv, Owns, Owning, InTx
<1>1. Step(t, l, Gc!Ended(t), Mine(t)) /\ l \in Owning
  BY <1>0, Same DEF Gc!Goto, Gc!Locals, Step, Owning, InTx
<1>2. /\ TypesOf(l, Gc!Ended(t)) /\ ScanOf(t, l, Gc!Ended(t), Mine(t).regions)
      /\ Since(t, l, Gc!Ended(t)) /\ (LeftAt(l, Gc!Ended(t)) <=> Left(t))
  BY <1>0, EndedIs DEF TypesOf, ScanOf, Since, Left, LeftAt, InTx, Freeing, Leaving, Gone, Scan
<1>3. Bound(Mine(t).ts, clock)
  BY <1>0 DEF BoundsOf
<1>4. BoundsOf(l, Gc!Ended(t), Mine(t).ts, clock)
  BY <1>3, EndedIs DEF BoundsOf, Freeing
<1>5. l \notin {"clock", "free", "over"}
  OBVIOUS
<1>6. QED
  BY <1>0, <1>1, <1>2, <1>4, <1>5, EndedIs, OwnerStep

-----------------------------------------------------------------------------
\* gc_cleanup() and gc_compute_min()

\* The minimum starts as the present epoch.
LEMMA CleanupKeeps ==
  ASSUME GcInv, NEW t \in Threads, Gc!gc_cleanup(t)
  PROVE  GcInv'
<1>0. /\ at[t] = "cleanup" /\ loc[t] \in LocalType /\ Mine(t) \in SlotType
      /\ Mine(t).used = "BUSY" /\ Owns(t) /\ BoundsOf(at[t], loc[t], Mine(t).ts, clock)
      /\ freed' = freed /\ clock' = clock /\ GcTypes /\ clock \in Nat /\ TypesOf(at[t], loc[t])
  BY OneThread DEF Gc!gc_cleanup, Gc!At, GcInv, Owns, Owning, Freeing
<1>a. loc[t].todo = <<>> /\ loc[t].reg \in BOOLEAN
  BY <1>0 DEF TypesOf, LocalType
<1>1. CASE Mine(t).regions = <<>>
  <2> DEFINE l == IF loc[t].reg THEN "entered" ELSE "clear"
  <2>1. Gc!AfterFree(t) = l
    BY <1>a DEF Gc!AfterFree, Gc!Registered
  <2>2. Step(t, l, loc[t], Mine(t)) /\ l \in Owning
    BY <1>0, <1>1, <2>1, Same DEF Gc!gc_cleanup, Gc!Goto, Gc!Slot, Mine, Step, Owning, InTx, Leaving
  <2>3. TypesOf(l, loc[t]) /\ ScanOf(t, l, loc[t], Mine(t).regions)
    BY <1>0, <1>a DEF TypesOf, ScanOf, InTx, Freeing, Scan
  <2>4. Since(t, l, loc[t]) /\ (LeftAt(l, loc[t]) <=> Left(t))
    BY <1>0, <1>a DEF Since, Left, LeftAt, Freeing, Leaving, Gone
  <2>5. BoundsOf(l, loc[t], Mine(t).ts, clock)
    BY <1>0, <1>a DEF BoundsOf, Freeing
  <2>6. l \notin {"clock", "free", "over"}
    OBVIOUS
  <2> HIDE DEF l
  <2>7. QED
    BY <1>0, <1>1, <2>2, <2>3, <2>4, <2>5, <2>6, OwnerStep
<1>2. CASE Mine(t).regions # <<>>
  <2> DEFINE r == [loc[t] EXCEPT !.min = clock, !.scan = 1]
  <2>1. Step(t, "scan", r, Mine(t)) /\ "scan" \in Owning
    BY <1>0, <1>2, Same DEF Gc!gc_cleanup, Gc!Goto, Gc!Locals, Gc!Slot, Mine, Step, Owning, Freeing
  <2>2. /\ r \in LocalType /\ r.todo = loc[t].todo /\ r.reg = loc[t].reg /\ r.i = loc[t].i
        /\ r.late = loc[t].late /\ r.min = clock /\ r.scan = 1
    BY <1>0 DEF LocalType
  <2> HIDE DEF r
  <2>3. /\ TypesOf("scan", r) /\ BoundsOf("scan", r, Mine(t).ts, clock)
        /\ Since(t, "scan", r) /\ (LeftAt("scan", r) <=> Left(t))
    BY <1>0, <2>2 DEF TypesOf, BoundsOf, Since, Left, LeftAt, InTx, Freeing, Leaving, Gone
  <2>a. \A u \in Threads : loc[u].i \in 1 .. GcSlots
    BY OneThread, SlotFacts
  <2>b. \A u \in Threads : ~ (loc[u].i < 1)
    BY <2>a, SlotFacts
  <2>4. \A u \in Threads : ~ Passed("scan", r, u)
    BY <2>2, <2>b DEF Passed
  <2>5. ScanOf(t, "scan", r, Mine(t).regions)
    BY <1>0, <2>2, <2>4, SlotFacts DEF ScanOf
  <2>6. r.scan <= r.i
    BY <2>2, <2>a
  <2>7. StuckAt(at[t], loc[t], Mine(t)) => StuckAt("scan", r, Mine(t))
    BY <2>2, <2>6 DEF StuckAt
  <2>8. QED
    BY <1>0, <2>1, <2>2, <2>3, <2>5, <2>7, OwnerStep
<1>3. QED
  BY <1>1, <1>2

\* A thread that runs is in a slot that is in use.
LEMMA RunningOwns ==
  ASSUME GcInv, NEW u \in Threads, Gc!Running(u)
  PROVE  /\ Owns(u) /\ Mine(u).used = "BUSY" /\ at[u] \notin Freeing
         /\ Bound(Mine(u).ts, loc[u].since)
<1>1. Owns(u) /\ at[u] \notin Freeing /\ (at[u] = "run" \/ (at[u] = "publish" /\ ~ loc[u].late))
  BY DEF Gc!Running, Gc!At, Owns, Owning, InTx, Freeing
<1>2. BoundsOf(at[u], loc[u], Mine(u).ts, clock)
  BY OneThread
<1>3. QED
  BY <1>1, <1>2, OneThread DEF BoundsOf

\* The first slot that was never used ends the scan; a free one has no bound.
LEMMA ScanUsedKeeps ==
  ASSUME GcInv, NEW t \in Threads, Gc!ScanUsed(t)
  PROVE  GcInv'
<1>0. /\ at[t] = "scan" /\ loc[t] \in LocalType /\ Mine(t) \in SlotType
      /\ Mine(t).used = "BUSY" /\ Owns(t) /\ BoundsOf(at[t], loc[t], Mine(t).ts, clock)
      /\ freed' = freed /\ clock' = clock /\ GcTypes /\ clock \in Nat /\ TypesOf(at[t], loc[t])
      /\ ScanOf(t, at[t], loc[t], Mine(t).regions)
  BY OneThread DEF Gc!ScanUsed, Gc!At, GcInv, Owns, Owning, Freeing
<1>a. /\ loc[t].todo = <<>> /\ loc[t].scan \in Nat /\ loc[t].scan \in 1 .. GcSlots + 1
      /\ loc[t].min \in Nat
  BY <1>0 DEF TypesOf, LocalType, ScanOf
<1>b. Gc!Slots = 1 .. GcSlots /\ GcSlots \in Nat /\ \A u \in Threads : loc[u].i \in Gc!Slots
  BY SlotFacts, OneThread
<1> DEFINE used == IF loc[t].scan > GcSlots THEN "NULL" ELSE slots[loc[t].scan].used
<1>c. ~ (loc[t].scan > GcSlots) => loc[t].scan \in Gc!Slots /\ used = slots[loc[t].scan].used
  BY <1>a, <1>b
<1>d. Mine(t).regions # <<>> =>
        loc[t].min <= clock /\ \A u \in Threads \ {t} : Passed("scan", loc[t], u) => loc[t].min <= loc[u].since
  BY <1>0 DEF ScanOf, Scan
<1>1. CASE used = "NULL" /\ Gc!Goto(t, "collect") /\ UNCHANGED loc
  <2>1. Step(t, "collect", loc[t], Mine(t)) /\ "collect" \in Owning
    BY <1>0, <1>1, Same DEF Gc!ScanUsed, Gc!Goto, Step, Owning, Freeing
  <2>2. /\ TypesOf("collect", loc[t]) /\ BoundsOf("collect", loc[t], Mine(t).ts, clock)
        /\ Since(t, "collect", loc[t]) /\ (LeftAt("collect", loc[t]) <=> Left(t))
    BY <1>0 DEF TypesOf, BoundsOf, Since, Left, LeftAt, InTx, Freeing, Leaving, Gone
  <2>3. ASSUME NEW u \in Threads, Passed("collect", loc[t], u) PROVE Passed("scan", loc[t], u)
    <3>1. Gc!Running(u) /\ Mine(u).used = "BUSY"
      BY <2>3, RunningOwns DEF Passed
    <3>2. loc[u].i < loc[t].scan
      <4>1. CASE loc[t].scan > GcSlots
        BY <1>a, <1>b, <4>1
      <4>2. CASE ~ (loc[t].scan > GcSlots)
        <5>1. loc[t].scan \in Gc!Slots /\ slots[loc[t].scan].used = "NULL"
          BY <1>1, <1>c, <4>2
        <5>2. ~ (loc[t].scan < loc[u].i)
          BY <1>b, <3>1, <5>1 DEF GcInv, GcOwners, Mine
        <5>3. loc[t].scan # loc[u].i
          BY <3>1, <5>1 DEF Mine
        <5>4. QED
          BY <1>a, <1>b, <5>2, <5>3
      <4>3. QED
        BY <4>1, <4>2
    <3>3. QED
      BY <3>1, <3>2 DEF Passed
  <2>4. ScanOf(t, "collect", loc[t], Mine(t).regions)
    BY <1>d, <2>3 DEF ScanOf
  <2>5. ~ StuckAt(at[t], loc[t], Mine(t))
    <3>1. CASE loc[t].scan > GcSlots
      <4>1. ~ (loc[t].scan <= loc[t].i)
        BY <1>a, <1>b, <3>1
      <4>2. QED
        BY <1>0, <4>1 DEF StuckAt
    <3>2. CASE ~ (loc[t].scan > GcSlots)
      <4>1. loc[t].scan \in Gc!Slots /\ slots[loc[t].scan].used = "NULL" /\ loc[t].i \in Gc!Slots
        BY <1>1, <1>b, <1>c, <3>2
      <4>2. ~ (loc[t].scan < loc[t].i)
        BY <1>0, <4>1 DEF GcInv, GcOwners, Mine
      <4>3. loc[t].scan # loc[t].i
        BY <1>0, <4>1 DEF Mine
      <4>4. ~ (loc[t].scan <= loc[t].i)
        BY <1>a, <1>b, <4>2, <4>3
      <4>5. QED
        BY <1>0, <4>4 DEF StuckAt
    <3>3. QED
      BY <3>1, <3>2
  <2>6. QED
    BY <1>0, <2>1, <2>2, <2>4, <2>5, OwnerStep
<1>2. CASE used = "BUSY" /\ Gc!Goto(t, "scan_ts") /\ UNCHANGED loc
  <2>1. Step(t, "scan_ts", loc[t], Mine(t)) /\ "scan_ts" \in Owning
    BY <1>0, <1>2, Same DEF Gc!ScanUsed, Gc!Goto, Step, Owning, Freeing
  <2>2. /\ TypesOf("scan_ts", loc[t]) /\ BoundsOf("scan_ts", loc[t], Mine(t).ts, clock)
        /\ Since(t, "scan_ts", loc[t]) /\ (LeftAt("scan_ts", loc[t]) <=> Left(t))
    BY <1>0 DEF TypesOf, BoundsOf, Since, Left, LeftAt, InTx, Freeing, Leaving, Gone
  <2>3. \A u \in Threads : Passed("scan_ts", loc[t], u) => Passed("scan", loc[t], u)
    BY DEF Passed
  <2>4. loc[t].scan \in Gc!Slots
    BY <1>2, <1>c
  <2>5. ScanOf(t, "scan_ts", loc[t], Mine(t).regions)
    BY <1>d, <2>3, <2>4 DEF ScanOf
  <2>6. StuckAt(at[t], loc[t], Mine(t)) => StuckAt("scan_ts", loc[t], Mine(t))
    BY <1>0 DEF StuckAt
  <2>7. QED
    BY <1>0, <2>1, <2>2, <2>5, <2>6, OwnerStep
<1>3. CASE used \in {"FREE_EMPTY", "FREE_FULL"} /\ Gc!Locals(t, [loc[t] EXCEPT !.scan = @ + 1]) /\ UNCHANGED at
  <2> DEFINE r == [loc[t] EXCEPT !.scan = @ + 1]
  <2>1. Step(t, "scan", r, Mine(t)) /\ "scan" \in Owning
    BY <1>0, <1>3, Same DEF Gc!ScanUsed, Gc!Locals, Step, Owning, Freeing
  <2>2. /\ r \in LocalType /\ r.todo = loc[t].todo /\ r.reg = loc[t].reg /\ r.i = loc[t].i
        /\ r.late = loc[t].late /\ r.min = loc[t].min /\ r.scan = loc[t].scan + 1
    BY SMTT(30), <1>0 DEF LocalType
  <2>3. loc[t].scan \in Gc!Slots /\ slots[loc[t].scan].used # "BUSY" /\ r.scan \in 1 .. GcSlots + 1
    BY <1>3, <1>a, <1>b, <1>c, <2>2
  <2> HIDE DEF r
  <2>4. /\ TypesOf("scan", r) /\ BoundsOf("scan", r, Mine(t).ts, clock)
        /\ Since(t, "scan", r) /\ (LeftAt("scan", r) <=> Left(t))
    BY <1>0, <2>2 DEF TypesOf, BoundsOf, Since, Left, LeftAt, InTx, Freeing, Leaving, Gone
  <2>5. ASSUME NEW u \in Threads, Passed("scan", r, u) PROVE Passed("scan", loc[t], u)
    <3>1. Gc!Running(u) /\ Mine(u).used = "BUSY" /\ loc[u].i < loc[t].scan + 1
      BY <2>2, <2>5, RunningOwns DEF Passed
    <3>2. loc[t].scan # loc[u].i
      BY <2>3, <3>1 DEF Mine
    <3>3. loc[u].i < loc[t].scan
      BY <1>a, <1>b, <3>1, <3>2
    <3>4. QED
      BY <3>1, <3>3 DEF Passed
  <2>6. ScanOf(t, "scan", r, Mine(t).regions)
    BY <1>d, <2>2, <2>3, <2>5 DEF ScanOf
  <2>7. StuckAt(at[t], loc[t], Mine(t)) => StuckAt("scan", r, Mine(t))
    <3>1. loc[t].scan # loc[t].i
      BY <1>0, <2>3 DEF Mine
    <3>2. loc[t].scan <= loc[t].i => r.scan <= r.i
      BY <1>a, <1>b, <2>2, <3>1
    <3>3. QED
      BY <1>0, <2>2, <3>2 DEF StuckAt
  <2>8. QED
    BY <1>0, <2>1, <2>2, <2>4, <2>6, <2>7, OwnerStep
<1>4. QED
  BY <1>1, <1>2, <1>3 DEF Gc!ScanUsed

\* The bound of a slot lowers the minimum.
LEMMA ScanTsKeeps ==
  ASSUME GcInv, NEW t \in Threads, Gc!ScanTs(t)
  PROVE  GcInv'
<1>0. /\ at[t] = "scan_ts" /\ loc[t] \in LocalType /\ Mine(t) \in SlotType
      /\ Mine(t).used = "BUSY" /\ Owns(t) /\ BoundsOf(at[t], loc[t], Mine(t).ts, clock)
      /\ freed' = freed /\ clock' = clock /\ GcTypes /\ clock \in Nat /\ TypesOf(at[t], loc[t])
      /\ ScanOf(t, at[t], loc[t], Mine(t).regions)
  BY OneThread DEF Gc!ScanTs, Gc!At, GcInv, Owns, Owning, Freeing
<1>a. loc[t].todo = <<>> /\ loc[t].scan \in Nat /\ loc[t].scan \in Gc!Slots /\ loc[t].min \in Nat
  BY <1>0 DEF TypesOf, LocalType, ScanOf
<1>b. Gc!Slots = 1 .. GcSlots /\ GcSlots \in Nat /\ \A u \in Threads : loc[u].i \in Gc!Slots
  BY SlotFacts, OneThread
<1>d. Mine(t).regions # <<>> =>
        loc[t].min <= clock /\ \A u \in Threads \ {t} : Passed("scan", loc[t], u) => loc[t].min <= loc[u].since
  BY <1>0 DEF ScanOf, Scan, Passed
<1> DEFINE ts == slots[loc[t].scan].ts
<1>e. ts \in Nat
  BY <1>a DEF GcInv, GcTypes, SlotType
<1>1. CASE ts = 99
  <2>1. Step(t, "scan", loc[t], Mine(t)) /\ "scan" \in Owning
    BY <1>0, <1>1, Same DEF Gc!ScanTs, Gc!Goto, Step, Owning, Freeing
  <2>2. /\ TypesOf("scan", loc[t]) /\ BoundsOf("scan", loc[t], Mine(t).ts, clock)
        /\ Since(t, "scan", loc[t]) /\ (LeftAt("scan", loc[t]) <=> Left(t))
    BY <1>0 DEF TypesOf, BoundsOf, Since, Left, LeftAt, InTx, Freeing, Leaving, Gone
  <2>3. loc[t].scan \in 1 .. GcSlots + 1
    BY <1>a, <1>b
  <2>4. ScanOf(t, "scan", loc[t], Mine(t).regions)
    BY <1>d, <2>3 DEF ScanOf
  <2>5. StuckAt(at[t], loc[t], Mine(t)) => StuckAt("scan", loc[t], Mine(t))
    BY <1>0 DEF StuckAt
  <2>6. QED
    BY <1>0, <2>1, <2>2, <2>4, <2>5, OwnerStep
<1>2. CASE ts # 99
  <2> DEFINE m == IF ts < loc[t].min THEN ts ELSE loc[t].min
             n == loc[t].scan + 1
             r == [loc[t] EXCEPT !.min = m, !.scan = n]
  <2>1. Step(t, "scan", r, Mine(t)) /\ "scan" \in Owning
    BY <1>0, <1>2, Same DEF Gc!ScanTs, Gc!Goto, Gc!Locals, Step, Owning, Freeing
  <2>2. /\ r.todo = loc[t].todo /\ r.reg = loc[t].reg /\ r.i = loc[t].i
        /\ r.late = loc[t].late /\ r.scan = loc[t].scan + 1
        /\ r.min = (IF ts < loc[t].min THEN ts ELSE loc[t].min)
    BY <1>0 DEF LocalType
  <2>a. m \in Nat /\ n \in Nat
    BY <1>a, <1>e
  <2>3. r \in LocalType
    <3> HIDE DEF m, n
    <3>1. QED
      BY <1>0, <2>a DEF LocalType
  <2>4. r.scan \in 1 .. GcSlots + 1 /\ r.min \in Nat /\ r.min <= loc[t].min /\ r.min <= ts
    BY <1>a, <1>b, <1>e, <2>2
  <2> HIDE DEF r
  <2>5. /\ TypesOf("scan", r) /\ BoundsOf("scan", r, Mine(t).ts, clock)
        /\ Since(t, "scan", r) /\ (LeftAt("scan", r) <=> Left(t))
    BY <1>0, <2>2 DEF TypesOf, BoundsOf, Since, Left, LeftAt, InTx, Freeing, Leaving, Gone
  <2>6. ASSUME NEW u \in Threads \ {t}, Passed("scan", r, u), Mine(t).regions # <<>>
        PROVE  r.min <= loc[u].since
    <3>1. Gc!Running(u) /\ Bound(Mine(u).ts, loc[u].since) /\ loc[u].i < loc[t].scan + 1
      BY <2>2, <2>6, RunningOwns DEF Passed
    <3>2. loc[u].since \in Nat
      BY OneThread DEF LocalType
    <3>3. CASE loc[u].i = loc[t].scan
      <4>1. ts <= loc[u].since
        BY <1>2, <3>1, <3>3 DEF Mine, Bound
      <4>2. QED
        BY <1>e, <2>4, <3>2, <4>1
    <3>4. CASE loc[u].i # loc[t].scan
      <4>1. loc[u].i < loc[t].scan
        BY <1>a, <1>b, <3>1, <3>4
      <4>2. loc[t].min <= loc[u].since
        BY <1>d, <2>6, <3>1, <4>1 DEF Passed
      <4>3. QED
        BY <1>a, <2>4, <3>2, <4>2
    <3>5. QED
      BY <3>3, <3>4
  <2>7. Mine(t).regions # <<>> => r.min <= clock
    BY <1>0, <1>a, <1>d, <2>4
  <2>8. ScanOf(t, "scan", r, Mine(t).regions)
    BY <2>4, <2>6, <2>7 DEF ScanOf
  <2>9. StuckAt(at[t], loc[t], Mine(t)) => StuckAt("scan", r, Mine(t))
    <3>1. ASSUME StuckAt(at[t], loc[t], Mine(t)) PROVE r.scan <= r.i
      <4>1. loc[t].scan <= loc[t].i /\ slots[loc[t].i].ts = 99
        BY <1>0, <3>1 DEF StuckAt, Mine
      <4>2. loc[t].scan # loc[t].i
        BY <1>2, <4>1
      <4>3. QED
        BY <1>a, <1>b, <2>2, <4>1, <4>2
    <3>2. QED
      BY <1>0, <2>2, <3>1 DEF StuckAt
  <2>10. QED
    BY <1>0, <2>1, <2>2, <2>3, <2>5, <2>8, <2>9, OwnerStep
<1>3. QED
  BY <1>1, <1>2

-----------------------------------------------------------------------------
\* gc_exit_thread()

\* The exit removes the bound.
LEMMA ClearTsKeeps ==
  ASSUME GcInv, NEW t \in Threads, Gc!ClearTs(t)
  PROVE  GcInv'
<1>0. /\ at[t] = "clear" /\ loc[t] \in LocalType /\ Mine(t) \in SlotType /\ TypesOf(at[t], loc[t])
      /\ Mine(t).used = "BUSY" /\ Owns(t)
      /\ freed' = freed /\ clock' = clock /\ GcTypes
  BY OneThread DEF Gc!ClearTs, Gc!At, GcInv, Owns, Owning, Leaving
<1> DEFINE s == [Mine(t) EXCEPT !.ts = 99]
<1>1. Step(t, "release", loc[t], s) /\ "release" \in Owning
  BY <1>0, Same DEF Gc!ClearTs, Gc!Goto, Gc!SetSlot, Gc!Slot, Mine, Step, Owning, Leaving
<1>2. s \in SlotType /\ s.used = "BUSY" /\ s.regions = Mine(t).regions
  BY <1>0 DEF SlotType
<1> HIDE DEF s
<1>3. /\ TypesOf("release", loc[t]) /\ BoundsOf("release", loc[t], s.ts, clock)
      /\ ScanOf(t, "release", loc[t], s.regions)
      /\ Since(t, "release", loc[t]) /\ (LeftAt("release", loc[t]) <=> Left(t))
  BY <1>0, <1>2 DEF TypesOf, BoundsOf, ScanOf, Since, Left, LeftAt, InTx, Freeing, Leaving, Gone, Scan
<1>4. QED
  BY <1>0, <1>1, <1>2, <1>3, OwnerStep

\* The exit gives the slot back; what waits in it stays.
LEMMA ReleaseSlotKeeps ==
  ASSUME GcInv, NEW t \in Threads, Gc!ReleaseSlot(t)
  PROVE  GcInv'
<1>0. /\ at[t] = "release" /\ loc[t] \in LocalType /\ Mine(t) \in SlotType /\ TypesOf(at[t], loc[t])
      /\ Owns(t) /\ freed' = freed /\ clock' = clock /\ GcTypes /\ GcOwners
  BY OneThread DEF Gc!ReleaseSlot, Gc!At, GcInv, Owns, Owning, Leaving
<1> DEFINE s == [Mine(t) EXCEPT !.used = IF Mine(t).regions = <<>> THEN "FREE_EMPTY" ELSE "FREE_FULL"]
<1>1. Step(t, "uncount", loc[t], s) /\ "uncount" \in Gone
  BY <1>0, Same DEF Gc!ReleaseSlot, Gc!Goto, Gc!SetSlot, Gc!Slot, Mine, Step, Gone
<1>2. s \in SlotType /\ s.used \in {"FREE_EMPTY", "FREE_FULL"} /\ s.regions = Mine(t).regions
  BY <1>0 DEF SlotType, Uses
<1> HIDE DEF s
<1>3. Effect(t, "uncount", loc[t], s)
  BY <1>0, <1>1, <1>2, StepEffect
<1>4. GcOwners'
  BY <1>0, <1>1, <1>2, <1>3, SlotReleased
<1>5. /\ TypesOf("uncount", loc[t]) /\ BoundsOf("uncount", loc[t], s.ts, clock)
      /\ ScanOf(t, "uncount", loc[t], s.regions)
      /\ Since(t, "uncount", loc[t]) /\ (LeftAt("uncount", loc[t]) <=> Left(t))
  BY <1>0, <1>2 DEF TypesOf, BoundsOf, ScanOf, Since, Left, LeftAt, InTx, Freeing, Leaving, Gone, Scan
<1>6. QED
  BY <1>0, <1>2, <1>3, <1>4, <1>5, QuietStep

\* The atomic decrement of nb_active.
LEMMA UncountThreadKeeps ==
  ASSUME GcInv, NEW t \in Threads, Gc!UncountThread(t)
  PROVE  GcInv'
<1>1. at[t] = "uncount" /\ loc[t] \in LocalType /\ GcTypes
  BY OneThread DEF Gc!UncountThread, Gc!At, GcInv
<1>2. Step(t, "exited", loc[t], Mine(t))
  BY SMTT(30), <1>1, Same DEF Gc!UncountThread, Gc!Goto, Step
<1>3. QED
  BY <1>1, <1>2, SeekerStep DEF Gc!UncountThread, Seeking, Gone

-----------------------------------------------------------------------------
\* The commit of a transaction that frees, the exit, and the call of gc_free().

\* What waits, block by block.
LEMMA WaitingIs ==
  /\ \A b \in Gc!Waiting : \E i \in Gc!Slots : \E k \in DOMAIN slots[i].regions :
       \E m \in DOMAIN slots[i].regions[k].blocks : b = slots[i].regions[k].blocks[m]
  /\ \A i \in Gc!Slots : \A k \in DOMAIN slots[i].regions :
       \A m \in DOMAIN slots[i].regions[k].blocks : slots[i].regions[k].blocks[m] \in Gc!Waiting
BY DEF Gc!Waiting, Gc!Blocks, Gc!Range

\* What waits was unlinked before now.
LEMMA WaitingBefore ==
  ASSUME GcInv, NEW b \in Gc!Waiting
  PROVE  b \in Blk /\ Before(b, base + clock)
<1>1. PICK i \in Gc!Slots : \E k \in DOMAIN slots[i].regions :
        \E m \in DOMAIN slots[i].regions[k].blocks : b = slots[i].regions[k].blocks[m]
  BY WaitingIs
<1>2. PICK k \in DOMAIN slots[i].regions : \E m \in DOMAIN slots[i].regions[k].blocks :
        b = slots[i].regions[k].blocks[m]
  BY <1>1
<1>3. PICK m \in DOMAIN slots[i].regions[k].blocks : b = slots[i].regions[k].blocks[m]
  BY <1>2
<1>4. b \in Blk
  BY <1>3, RegionsAre DEF GcInv
<1>5. Before(b, base + clock)
  BY <1>3 DEF GcInv, GcTimes
<1>6. QED
  BY <1>4, <1>5

\* The owner of a slot that is not stuck.
LEMMA NotStuck ==
  ASSUME GcInv, NEW t \in Threads, Owns(t), ~ StuckAt(at[t], loc[t], Mine(t))
  PROVE  AllBy(Mine(t), clock)
<1>1. loc[t].i \in Gc!Slots
  BY OneThread
<1>2. ASSUME NEW u \in Threads, loc[u].i = loc[t].i, StuckAt(at[u], loc[u], Mine(t)) PROVE FALSE
  BY <1>2, StuckOwns DEF GcInv, Mine
<1>3. QED
  BY <1>1, <1>2 DEF GcInv, GcEpochs, Mine

\* A thread that has a block to free.
LEMMA HoldStep ==
  ASSUME GcInv, NEW t \in Threads, NEW l \in {"clock", "free"}, NEW r \in LocalType,
         Step(t, l, r, Mine(t)), Owns(t), r.i = loc[t].i, freed' = freed, at[t] # "over",
         clock' \in Nat, clock <= clock',
         TypesOf(l, r), BoundsOf(l, r, Mine(t).ts, clock'),
         /\ r.todo[1][1] = "node" => r.reg
         /\ Before(r.todo[1], base + clock')
         /\ l = "free" => Before(r.todo[1], base + r.now),
         Left(t) => LeftAt(l, r),
         \/ Holds(t) /\ r.todo = loc[t].todo
         \/ /\ r.todo[1] \notin Gc!Waiting \cup freed
            /\ \A u \in Threads \ {t} : Holds(u) => loc[u].todo[1] # r.todo[1]
            /\ \A u \in Threads : r.todo[1] = <<"tx", u>> => u = t /\ LeftAt(l, r),
         Holds(t) => r.todo = loc[t].todo,
         LeftAt(l, r) => Left(t) \/ r.todo = <<<<"tx", t>>>>,
         \/ clock' = clock
         \/ clock' = clock + 1 /\ r.todo = <<<<"node", base + clock>>>>,
         at[t] \notin {"cleanup", "scan", "scan_ts"}, l = "free" => FreeOf(r, Mine(t), clock')
  PROVE  GcInv'
<1>1. /\ GcTypes /\ GcOwners /\ GcBounds /\ GcScans /\ GcTimes /\ GcOnce /\ GcKept /\ GcEpochs
      /\ Mine(t) \in SlotType /\ Mine(t).used = "BUSY"
  BY OneThread DEF GcInv
<1>2. l \in Owning /\ l \notin Scan /\ l # "over" /\ l \notin {"run", "publish"}
  BY DEF Owning, Freeing, Scan
<1>3. Effect(t, l, r, Mine(t))
  BY <1>1, <1>2, StepEffect
<1>4. GcTypes'
  <2>1. \A u \in Threads : TypesOf(at[u], loc[u])'
    BY <1>3 DEF Effect, GcInv, GcTypes, TypesOf
  <2>2. QED
    BY <1>3, <2>1, SlotFacts DEF GcInv, GcTypes, Effect
<1>5. GcOwners'
  BY <1>1, <1>2, <1>3, OwnerStays
<1>6. ScanOf(t, l, r, Mine(t).regions) /\ Since(t, l, r)
  BY <1>2 DEF ScanOf, Since, Scan
<1>7. GcBounds'
  BY <1>1, <1>2, <1>3, BoundsStay
<1>8. GcScans'
  BY <1>1, <1>2, <1>3, <1>6, ScansStay
<1>9. GcTimes'
  BY <1>1, <1>3, <1>6, TimesStay
<1>10. GcOnce'
  BY <1>1, <1>3, OnceStays
<1>11. GcKept'
  BY <1>1, <1>2, <1>3, KeptStays
<1>12. GcEpochs'
  BY <1>1, <1>2, <1>3, EpochsStay
<1>13. QED
  BY <1>4, <1>5, <1>7, <1>8, <1>9, <1>10, <1>11, <1>12 DEF GcInv

\* The commit moves the clock, so that nobody starts before it any more.
LEMMA CommitFreeKeeps ==
  ASSUME GcInv, NEW t \in Threads, Gc!CommitFree(t)
  PROVE  GcInv'
<1> DEFINE b == <<"node", base + clock>>
           q == <<b>>
           r == [Gc!Ended(t) EXCEPT !.todo = q]
<1>0. /\ at[t] = "run" /\ loc[t] \in LocalType /\ Mine(t) \in SlotType /\ TypesOf(at[t], loc[t])
      /\ Owns(t) /\ BoundsOf(at[t], loc[t], Mine(t).ts, clock)
      /\ clock \in Nat /\ base \in Nat /\ GcTypes
  BY OneThread DEF Gc!CommitFree, Gc!At, GcInv, Owns, Owning, InTx
<1>1. freed' = freed /\ clock' = clock + 1 /\ base' = base
  BY DEF Gc!CommitFree
<1>2. Step(t, "clock", r, Mine(t))
  BY <1>0, Same DEF Gc!CommitFree, Gc!Goto, Gc!Locals, Gc!Node, Step
<1>3. b \in Blk /\ Before(b, base + clock')
  <2>1. base + clock \in Nat /\ base + clock < base + clock'
    BY <1>0, <1>1
  <2>2. QED
    BY <2>1 DEF Blk, Before
<1>4. /\ r \in LocalType /\ r.todo = <<b>> /\ r.reg = loc[t].reg /\ r.i = loc[t].i /\ ~ r.late
  <2>1. q \in Seq(Blk)
    <3> HIDE DEF b
    <3>1. QED
      BY <1>3
  <2>2. /\ r \in LocalType /\ r.todo = q /\ r.i = loc[t].i
        /\ r.reg = loc[t].reg /\ ~ r.late
    <3> HIDE DEF q
    <3>1. QED
      BY EndedIs, <2>1 DEF LocalType
  <2>3. QED
    BY <2>2
<1>5. b[1] = "node" /\ \A u : b # <<"tx", u>>
  OBVIOUS
<1>6. ~ Before(b, base + clock)
  BY <1>0 DEF Before
<1>7. b \notin Gc!Waiting \cup freed
  BY <1>6, WaitingBefore DEF GcInv, GcTimes
<1>8. \A u \in Threads : Holds(u) => loc[u].todo[1] # b
  BY <1>6 DEF GcInv, GcTimes
<1> HIDE DEF r
<1>9. loc[t].reg /\ ~ Holds(t) /\ ~ Left(t)
  BY <1>0 DEF TypesOf, InTx, Holds, Left, LeftAt, Freeing, Leaving, Gone
<1>10. TypesOf("clock", r) /\ ~ LeftAt("clock", r)
  BY <1>3, <1>4, <1>9 DEF TypesOf, InTx, Freeing, LeftAt, Leaving, Gone
<1>11. BoundsOf("clock", r, Mine(t).ts, clock')
  <2>1. Bound(Mine(t).ts, clock) /\ Mine(t).ts \in Nat
    BY <1>0 DEF BoundsOf, SlotType
  <2>2. Bound(Mine(t).ts, clock')
    BY <1>0, <1>1, <2>1 DEF Bound
  <2>3. QED
    BY <1>4, <2>2 DEF BoundsOf
<1>12. /\ r.todo[1] = b /\ clock' \in Nat /\ clock <= clock'
       /\ b[1] = "node" => r.reg
  BY <1>0, <1>1, <1>4, <1>9
<1>13. \A u \in Threads : b = <<"tx", u>> => u = t /\ LeftAt("clock", r)
  BY <1>5
<1>14. r.todo = <<<<"node", base + clock>>>>
  BY <1>4
<1> HIDE DEF b
<1>15. at[t] # "over"
  BY <1>0
<1>16. QED
  BY <1>0, <1>1, <1>2, <1>3, <1>4, <1>7, <1>8, <1>9, <1>10, <1>11, <1>12, <1>13, <1>14, <1>15, HoldStep

\* The thread leaves the list and has its descriptor to free.
LEMMA LeaveKeeps ==
  ASSUME GcInv, NEW t \in Threads, Gc!Leave(t)
  PROVE  GcInv'
<1> DEFINE b == <<"tx", t>>
           q == <<b>>
           r == [loc[t] EXCEPT !.todo = q, !.reg = FALSE]
<1>0. /\ at[t] = "entered" /\ loc[t] \in LocalType /\ Mine(t) \in SlotType /\ TypesOf(at[t], loc[t])
      /\ Owns(t) /\ BoundsOf(at[t], loc[t], Mine(t).ts, clock)
      /\ clock \in Nat /\ base \in Nat /\ GcTypes
  BY OneThread DEF Gc!Leave, Gc!At, GcInv, Owns, Owning, InTx
<1>1. freed' = freed /\ clock' = clock /\ base' = base
  BY DEF Gc!Leave
<1>a. [k \in DOMAIN <<"tx">> |-> <<<<"tx">>[k], t>>] = <<b>>
  OBVIOUS
<1>2. Step(t, "clock", r, Mine(t))
  BY <1>0, <1>a, Same DEF Gc!Leave, Gc!Goto, Gc!Locals, Step
<1>3. b \in Blk /\ \A n : Before(b, n)
  BY DEF Blk, Before
<1>4. /\ r \in LocalType /\ r.todo = <<b>> /\ r.reg = FALSE /\ r.i = loc[t].i /\ r.late = loc[t].late
  <2>1. q \in Seq(Blk)
    <3> HIDE DEF b
    <3>1. QED
      BY <1>3
  <2>2. /\ r \in LocalType /\ r.todo = q /\ r.i = loc[t].i
        /\ r.reg = FALSE /\ r.late = loc[t].late
    <3> HIDE DEF q
    <3>1. QED
      BY <1>0, <2>1 DEF LocalType
  <2>3. QED
    BY <2>2
<1>5. b[1] # "node" /\ \A u \in Threads : b = <<"tx", u>> => u = t
  OBVIOUS
<1> HIDE DEF r
<1>9. ~ Holds(t) /\ ~ Left(t)
  BY <1>0 DEF Holds, Left, LeftAt, Freeing, Leaving, Gone
<1>7. b \notin Gc!Waiting \cup freed
  BY <1>9 DEF GcInv, GcOnce
<1>8. \A u \in Threads \ {t} : Holds(u) => loc[u].todo[1] # b
  BY DEF GcInv, GcOnce
<1>10. TypesOf("clock", r) /\ LeftAt("clock", r)
  BY <1>3, <1>4 DEF TypesOf, InTx, Freeing, LeftAt
<1>11. BoundsOf("clock", r, Mine(t).ts, clock')
  <2>1. loc[t].late \/ Bound(Mine(t).ts, clock)
    BY <1>0 DEF BoundsOf
  <2>2. QED
    BY <1>1, <1>4, <2>1 DEF BoundsOf
<1>12. r.todo[1] = b /\ clock' \in Nat /\ clock <= clock'
  BY <1>0, <1>1, <1>4
<1>14. r.todo = <<<<"tx", t>>>>
  BY <1>4
<1> HIDE DEF b
<1>15. at[t] # "over"
  BY <1>0
<1>16. QED
  BY <1>0, <1>1, <1>2, <1>3, <1>4, <1>5, <1>7, <1>8, <1>9, <1>10, <1>11, <1>12, <1>14, <1>15, HoldStep

\* The epoch of the block: no transaction starts before it.
LEMMA ReadClockKeeps ==
  ASSUME GcInv, NEW t \in Threads, Gc!ReadClock(t)
  PROVE  GcInv'
<1> DEFINE b == loc[t].todo[1]
           r == [loc[t] EXCEPT !.now = clock]
<1>0. /\ at[t] = "clock" /\ loc[t] \in LocalType /\ Mine(t) \in SlotType /\ TypesOf(at[t], loc[t])
      /\ Owns(t) /\ BoundsOf(at[t], loc[t], Mine(t).ts, clock) /\ Holds(t)
      /\ clock \in Nat /\ base \in Nat /\ GcTypes
  BY OneThread DEF Gc!ReadClock, Gc!At, GcInv, Owns, Owning, Freeing, Holds
<1>1. freed' = freed /\ clock' = clock /\ base' = base
  BY DEF Gc!ReadClock
<1>2. Step(t, "free", r, Mine(t))
  BY <1>0, Same DEF Gc!ReadClock, Gc!Goto, Gc!Locals, Step
<1>3. /\ r \in LocalType /\ r.todo = loc[t].todo /\ r.reg = loc[t].reg /\ r.i = loc[t].i
      /\ r.late = loc[t].late /\ r.now = clock
  BY <1>0 DEF LocalType
<1> HIDE DEF r
<1>4. /\ b[1] = "node" => r.reg
      /\ Before(b, base + clock)
  BY <1>0, <1>3 DEF GcInv, GcTimes
<1>5. TypesOf("free", r) /\ (LeftAt("free", r) <=> Left(t))
  BY <1>0, <1>3 DEF TypesOf, InTx, Freeing, Left, LeftAt, Leaving, Gone
<1>6. BoundsOf("free", r, Mine(t).ts, clock')
  <2>1. (loc[t].late \/ Bound(Mine(t).ts, clock)) /\ (loc[t].reg => ~ loc[t].late)
    BY <1>0 DEF BoundsOf, Freeing
  <2>2. QED
    BY <1>1, <1>3, <2>1 DEF BoundsOf
<1>7. AllBy(Mine(t), r.now)
  <2>1. ~ StuckAt(at[t], loc[t], Mine(t))
    BY <1>0 DEF StuckAt
  <2>2. QED
    BY <1>0, <1>3, <2>1, NotStuck
<1>8. clock' \in Nat /\ clock <= clock' /\ r.now <= clock' /\ r.todo[1] = b
  BY <1>0, <1>1, <1>3
<1>9. r.todo[1][1] = "node" => r.reg
  BY <1>4, <1>8
<1>10. Before(r.todo[1], base + clock') /\ Before(r.todo[1], base + r.now)
  BY <1>1, <1>3, <1>4, <1>8
<1> HIDE DEF b
<1>11. at[t] # "over" /\ at[t] \notin {"cleanup", "scan", "scan_ts"} /\ (Left(t) <=> LeftAt("free", r))
  BY <1>0, <1>5
<1>12. FreeOf(r, Mine(t), clock')
  BY <1>7, <1>8 DEF FreeOf
<1>13. QED
  BY <1>0, <1>1, <1>2, <1>3, <1>5, <1>6, <1>8, <1>9, <1>10, <1>11, <1>12, HoldStep

-----------------------------------------------------------------------------
\* What gc_free() and gc_cleanup_thread() do to the regions of a slot.

Distinct(rs) ==
  \A k, l \in DOMAIN rs : \A m \in DOMAIN rs[k].blocks, n \in DOMAIN rs[l].blocks :
    rs[k].blocks[m] = rs[l].blocks[n] => k = l /\ m = n

\* A block of a sequence of regions.
LEMMA BlocksAre ==
  ASSUME NEW rs, NEW b
  PROVE  b \in Gc!Blocks(rs) <=>
           \E k \in DOMAIN rs : \E m \in DOMAIN rs[k].blocks : b = rs[k].blocks[m]
BY DEF Gc!Blocks, Gc!Range

\* The block has a region of its own after the others, or comes first in the last.
OwnRegion(rs, ps, b, now, n) ==
  /\ DOMAIN ps = DOMAIN rs \cup {n + 1} /\ n + 1 \notin DOMAIN rs
  /\ \A k \in DOMAIN rs : ps[k] = rs[k]
  /\ ps[n + 1].ts = now /\ DOMAIN ps[n + 1].blocks = {1} /\ ps[n + 1].blocks[1] = b
LastRegion(rs, ps, b, now, n, len) ==
  /\ DOMAIN ps = DOMAIN rs /\ n \in DOMAIN rs
  /\ \A k \in DOMAIN rs : k # n => ps[k] = rs[k]
  /\ ps[n].ts = rs[n].ts /\ now <= rs[n].ts
  /\ DOMAIN rs[n].blocks = 1 .. len /\ DOMAIN ps[n].blocks = 1 .. len + 1
  /\ ps[n].blocks[1] = b
  /\ \A m \in 1 .. len : ps[n].blocks[m + 1] = rs[n].blocks[m]

\* What the two have in common.
Adds(rs, ps, b, now) ==
  /\ Gc!Blocks(ps) = Gc!Blocks(rs) \cup {b}
  /\ Distinct(rs) /\ b \notin Gc!Blocks(rs) => Distinct(ps)
  /\ \A k \in DOMAIN ps : ps[k].ts = now \/ (k \in DOMAIN rs /\ ps[k].ts = rs[k].ts)
  /\ \A k \in DOMAIN ps : \A m \in DOMAIN ps[k].blocks :
       \/ ps[k].blocks[m] = b /\ now <= ps[k].ts
       \/ /\ k \in DOMAIN rs /\ ps[k].ts = rs[k].ts
          /\ \E o \in DOMAIN rs[k].blocks : ps[k].blocks[m] = rs[k].blocks[o]

\* The block goes to the last region or to a new one.
Pushed(rs, b, now) ==
  IF Len(rs) = 0 \/ rs[Len(rs)].ts < now
    THEN Append(rs, [ts |-> now, blocks |-> <<b>>])
    ELSE [rs EXCEPT ![Len(rs)].blocks = <<b>> \o @]

\* A region of its own.
LEMMA PushedNew ==
  ASSUME NEW rs \in Seq(RegionType), NEW b \in Blk, NEW now \in Nat,
         Len(rs) = 0 \/ rs[Len(rs)].ts < now, NEW ps, ps = Pushed(rs, b, now)
  PROVE  ps \in Seq(RegionType) /\ OwnRegion(rs, ps, b, now, Len(rs))
<1> DEFINE x == [ts |-> now, blocks |-> <<b>>]
<1>1. x \in RegionType /\ x.ts = now /\ x.blocks = <<b>>
  BY DEF RegionType
<1>2. ps = Append(rs, x)
  BY DEF Pushed
<1> HIDE DEF x
<1>3. ps \in Seq(RegionType) /\ Len(ps) = Len(rs) + 1 /\ Len(rs) \in Nat
      /\ DOMAIN ps = 1 .. Len(rs) + 1 /\ DOMAIN rs = 1 .. Len(rs)
      /\ (\A k \in 1 .. Len(rs) : ps[k] = rs[k]) /\ ps[Len(rs) + 1] = x
  BY <1>1, <1>2, AppendProperties
<1>4. DOMAIN x.blocks = {1} /\ x.blocks[1] = b
  BY <1>1
<1>5. QED
  BY <1>1, <1>3, <1>4 DEF OwnRegion

\* The first place of the last region.
LEMMA PushedOld ==
  ASSUME NEW rs \in Seq(RegionType), NEW b \in Blk, NEW now \in Nat,
         ~ (Len(rs) = 0 \/ rs[Len(rs)].ts < now), NEW ps, ps = Pushed(rs, b, now)
  PROVE  /\ ps \in Seq(RegionType) /\ Len(rs[Len(rs)].blocks) \in Nat
         /\ LastRegion(rs, ps, b, now, Len(rs), Len(rs[Len(rs)].blocks))
<1> DEFINE n == Len(rs)
           old == rs[n].blocks
           new == <<b>> \o old
           y == [rs[n] EXCEPT !.blocks = new]
<1>1. n \in Nat /\ n # 0 /\ n \in DOMAIN rs /\ DOMAIN rs = 1 .. n
  BY LenProperties
<1>2. rs[n] \in RegionType
  BY <1>1, ElementOfSeq
<1>3. old \in Seq(Blk) /\ rs[n].ts \in Nat
  BY <1>2 DEF RegionType
<1>4. <<b>> \in Seq(Blk) /\ Len(<<b>>) = 1 /\ <<b>>[1] = b
  OBVIOUS
<1>5. new \in Seq(Blk) /\ Len(new) = 1 + Len(old) /\ Len(old) \in Nat
  BY <1>3, <1>4, ConcatProperties, LenProperties
<1>6. DOMAIN old = 1 .. Len(old) /\ DOMAIN new = 1 .. Len(old) + 1
  BY <1>3, <1>5, LenProperties
<1>7. new[1] = b /\ \A m \in 1 .. Len(old) : new[m + 1] = old[m]
  BY <1>3, <1>5
<1>8. ps = [rs EXCEPT ![n] = y]
  BY DEF Pushed
<1>9. y \in RegionType /\ y.ts = rs[n].ts /\ y.blocks = new
  <2> HIDE DEF new
  <2>1. QED
    BY <1>2, <1>5 DEF RegionType
<1> HIDE DEF y, new
<1>10. ps \in Seq(RegionType) /\ DOMAIN ps = DOMAIN rs /\ ps[n] = y /\ \A k \in DOMAIN rs : k # n => ps[k] = rs[k]
  BY <1>1, <1>8, <1>9, ExceptSeq
<1>11. now <= rs[n].ts
  BY <1>1, <1>3
<1>12. QED
  BY <1>1, <1>5, <1>6, <1>7, <1>9, <1>10, <1>11 DEF LastRegion

\* Where the blocks of the new regions were: in a region of its own the block
\* comes after the others.
LEMMA InNewRegion ==
  ASSUME NEW rs, NEW ps, NEW b, NEW now \in Nat, NEW n \in Nat, OwnRegion(rs, ps, b, now, n)
  PROVE  Adds(rs, ps, b, now)
<1> USE DEF OwnRegion
<1>3. ASSUME NEW k \in DOMAIN ps, NEW m \in DOMAIN ps[k].blocks
      PROVE  \/ ps[k].blocks[m] = b /\ k = n + 1 /\ m = 1 /\ ps[k].ts = now
             \/ k \in DOMAIN rs /\ ps[k] = rs[k]
  BY <1>3
<1>4. ASSUME NEW x PROVE x \in Gc!Blocks(ps) <=> x \in Gc!Blocks(rs) \/ x = b
  <2>1. x \in Gc!Blocks(ps) => x \in Gc!Blocks(rs) \/ x = b
    BY <1>3, BlocksAre
  <2>2. x \in Gc!Blocks(rs) => x \in Gc!Blocks(ps)
    BY BlocksAre
  <2>3. b \in Gc!Blocks(ps)
    BY BlocksAre
  <2>4. QED
    BY <2>1, <2>2, <2>3
<1>5. ASSUME Distinct(rs), b \notin Gc!Blocks(rs) PROVE Distinct(ps)
  <2> SUFFICES ASSUME NEW k \in DOMAIN ps, NEW l \in DOMAIN ps,
                      NEW m \in DOMAIN ps[k].blocks, NEW o \in DOMAIN ps[l].blocks,
                      ps[k].blocks[m] = ps[l].blocks[o]
               PROVE  k = l /\ m = o
    BY DEF Distinct
  <2>1. CASE k \in DOMAIN rs /\ ps[k] = rs[k] /\ l \in DOMAIN rs /\ ps[l] = rs[l]
    BY <1>5, <2>1 DEF Distinct
  <2>2. CASE k \in DOMAIN rs /\ ps[k] = rs[k] /\ ps[l].blocks[o] = b
    BY <1>5, <2>2, BlocksAre
  <2>3. CASE l \in DOMAIN rs /\ ps[l] = rs[l] /\ ps[k].blocks[m] = b
    BY <1>5, <2>3, BlocksAre
  <2>4. CASE k = n + 1 /\ m = 1 /\ l = n + 1 /\ o = 1
    BY <2>4
  <2>5. QED
    BY <1>3, <2>1, <2>2, <2>3, <2>4
<1>6. \A k \in DOMAIN ps : ps[k].ts = now \/ (k \in DOMAIN rs /\ ps[k].ts = rs[k].ts)
  OBVIOUS
<1>7. QED
  BY <1>3, <1>4, <1>5, <1>6 DEF Adds

\* In the last region it comes before the others.
LEMMA InLastRegion ==
  ASSUME NEW rs, NEW ps, NEW b, NEW now \in Nat, NEW n \in Nat, NEW len \in Nat,
         LastRegion(rs, ps, b, now, n, len)
  PROVE  Adds(rs, ps, b, now)
<1> USE DEF LastRegion
<1> DEFINE old == rs[n].blocks
<1>2. ASSUME NEW k \in DOMAIN ps, NEW m \in DOMAIN ps[k].blocks
      PROVE  \/ ps[k].blocks[m] = b /\ k = n /\ m = 1
             \/ k # n /\ ps[k] = rs[k]
             \/ k = n /\ m - 1 \in DOMAIN old /\ m \in Nat /\ ps[k].blocks[m] = old[m - 1]
  <2>1. CASE k # n
    BY <2>1
  <2>2. CASE k = n /\ m = 1
    BY <2>2
  <2>3. CASE k = n /\ m # 1
    <3>1. m - 1 \in 1 .. len /\ (m - 1) + 1 = m /\ m \in Nat
      BY <1>2, <2>3
    <3>2. QED
      BY <2>3, <3>1
  <2>4. QED
    BY <2>1, <2>2, <2>3
<1>3. ASSUME NEW x PROVE x \in Gc!Blocks(ps) <=> x \in Gc!Blocks(rs) \/ x = b
  <2>1. ASSUME x \in Gc!Blocks(ps) PROVE x \in Gc!Blocks(rs) \/ x = b
    <3>1. PICK k \in DOMAIN ps : \E m \in DOMAIN ps[k].blocks : x = ps[k].blocks[m]
      BY <2>1, BlocksAre
    <3>2. PICK m \in DOMAIN ps[k].blocks : x = ps[k].blocks[m]
      BY <3>1
    <3>3. CASE k = n /\ m - 1 \in DOMAIN old /\ ps[k].blocks[m] = old[m - 1]
      BY <3>2, <3>3, BlocksAre
    <3>4. CASE k # n /\ ps[k] = rs[k]
      BY <3>2, <3>4, BlocksAre
    <3>5. QED
      BY <1>2, <3>2, <3>3, <3>4
  <2>2. ASSUME x \in Gc!Blocks(rs) PROVE x \in Gc!Blocks(ps)
    <3>1. PICK k \in DOMAIN rs : \E m \in DOMAIN rs[k].blocks : x = rs[k].blocks[m]
      BY <2>2, BlocksAre
    <3>2. PICK m \in DOMAIN rs[k].blocks : x = rs[k].blocks[m]
      BY <3>1
    <3>3. CASE k # n
      BY <3>2, <3>3, BlocksAre
    <3>4. CASE k = n
      <4>1. m + 1 \in DOMAIN ps[n].blocks /\ ps[n].blocks[m + 1] = x
        BY <3>2, <3>4
      <4>2. QED
        BY <4>1, BlocksAre
    <3>5. QED
      BY <3>3, <3>4
  <2>3. b \in Gc!Blocks(ps)
    <3>1. 1 \in DOMAIN ps[n].blocks
      OBVIOUS
    <3>2. QED
      BY <3>1, BlocksAre
  <2>4. QED
    BY <2>1, <2>2, <2>3
<1>4. ASSUME Distinct(rs), b \notin Gc!Blocks(rs) PROVE Distinct(ps)
  <2> SUFFICES ASSUME NEW k \in DOMAIN ps, NEW l \in DOMAIN ps,
                      NEW m \in DOMAIN ps[k].blocks, NEW o \in DOMAIN ps[l].blocks,
                      ps[k].blocks[m] = ps[l].blocks[o]
               PROVE  k = l /\ m = o
    BY DEF Distinct
  <2>a. \A i \in DOMAIN rs : \A j \in DOMAIN rs[i].blocks : rs[i].blocks[j] # b
    BY <1>4, BlocksAre
  <2>1. CASE k # n /\ l # n
    BY <1>4, <2>1 DEF Distinct
  <2>b. \A j \in DOMAIN ps[n].blocks :
          ps[n].blocks[j] = b \/ (j - 1 \in DOMAIN old /\ ps[n].blocks[j] = old[j - 1])
    BY <1>2
  <2>c. \A i \in DOMAIN rs : i # n =>
          \A p \in DOMAIN rs[i].blocks, q \in DOMAIN old : rs[i].blocks[p] # old[q]
    BY <1>4 DEF Distinct
  <2>2. CASE k # n /\ l = n
    <3>1. k \in DOMAIN rs /\ ps[k] = rs[k] /\ n \in DOMAIN rs
      BY <2>2
    <3>2. ps[n].blocks[o] = rs[k].blocks[m] /\ m \in DOMAIN rs[k].blocks /\ o \in DOMAIN ps[n].blocks
      BY <2>2, <3>1
    <3>3. o - 1 \in DOMAIN old /\ ps[n].blocks[o] = old[o - 1]
      BY <2>a, <2>b, <3>1, <3>2
    <3>4. \A p \in DOMAIN rs[k].blocks, q \in DOMAIN old : rs[k].blocks[p] # old[q]
      BY <2>2, <2>c, <3>1
    <3> HIDE DEF old
    <3>5. QED
      BY <3>2, <3>3, <3>4
  <2>3. CASE k = n /\ l # n
    <3>1. l \in DOMAIN rs /\ ps[l] = rs[l] /\ n \in DOMAIN rs
      BY <2>3
    <3>2. ps[n].blocks[m] = rs[l].blocks[o] /\ o \in DOMAIN rs[l].blocks /\ m \in DOMAIN ps[n].blocks
      BY <2>3, <3>1
    <3>3. m - 1 \in DOMAIN old /\ ps[n].blocks[m] = old[m - 1]
      BY <2>a, <2>b, <3>1, <3>2
    <3>4. \A p \in DOMAIN rs[l].blocks, q \in DOMAIN old : rs[l].blocks[p] # old[q]
      BY <2>3, <2>c, <3>1
    <3> HIDE DEF old
    <3>5. QED
      BY <3>2, <3>3, <3>4
  <2>4. CASE k = n /\ l = n
    <3>1. m = 1 \/ (m - 1 \in DOMAIN old /\ m \in Nat /\ ps[k].blocks[m] = old[m - 1])
      BY <1>2, <2>4
    <3>2. o = 1 \/ (o - 1 \in DOMAIN old /\ o \in Nat /\ ps[l].blocks[o] = old[o - 1])
      BY <1>2, <2>4
    <3>3. CASE m = 1 /\ o = 1
      BY <2>4, <3>3
    <3>4. CASE m = 1 /\ o # 1
      BY <2>a, <2>4, <3>2, <3>4
    <3>5. CASE m # 1 /\ o = 1
      BY <2>a, <2>4, <3>1, <3>5
    <3>6. CASE m # 1 /\ o # 1
      <4>1. m - 1 = o - 1
        BY <1>4, <2>4, <3>1, <3>2, <3>6 DEF Distinct
      <4>2. QED
        BY <2>4, <3>1, <3>2, <3>6, <4>1
    <3>7. QED
      BY <3>3, <3>4, <3>5, <3>6
  <2>5. QED
    BY <2>1, <2>2, <2>3, <2>4
<1>5. \A k \in DOMAIN ps : ps[k].ts = rs[k].ts /\ k \in DOMAIN rs
  OBVIOUS
<1>6. ASSUME NEW k \in DOMAIN ps, NEW m \in DOMAIN ps[k].blocks
      PROVE  \/ ps[k].blocks[m] = b /\ now <= ps[k].ts
             \/ /\ k \in DOMAIN rs /\ ps[k].ts = rs[k].ts
                /\ \E o \in DOMAIN rs[k].blocks : ps[k].blocks[m] = rs[k].blocks[o]
  BY SMTT(30), <1>2, <1>5, <1>6
<1>7. QED
  BY <1>3, <1>4, <1>5, <1>6 DEF Adds

\* The new regions are regions.
LEMMA PushedAre ==
  ASSUME NEW rs \in Seq(RegionType), NEW b \in Blk, NEW now \in Nat,
         NEW ps, ps = Pushed(rs, b, now)
  PROVE  ps \in Seq(RegionType) /\ Adds(rs, ps, b, now)
<1>0. Len(rs) \in Nat
  BY LenProperties
<1>1. CASE Len(rs) = 0 \/ rs[Len(rs)].ts < now
  <2>1. ps \in Seq(RegionType) /\ OwnRegion(rs, ps, b, now, Len(rs))
    BY <1>1, PushedNew
  <2>2. QED
    BY <1>0, <2>1, InNewRegion
<1>2. CASE ~ (Len(rs) = 0 \/ rs[Len(rs)].ts < now)
  <2>1. /\ ps \in Seq(RegionType) /\ Len(rs[Len(rs)].blocks) \in Nat
        /\ LastRegion(rs, ps, b, now, Len(rs), Len(rs[Len(rs)].blocks))
    BY <1>2, PushedOld
  <2>2. QED
    BY <1>0, <2>1, InLastRegion
<1>3. QED
  BY <1>1, <1>2

\* Arithmetic of an index after the first n.
LEMMA ShiftedIndex ==
  ASSUME NEW len \in Nat, NEW n \in Nat, n <= len, NEW k \in 1 .. len - n
  PROVE  k \in 1 .. len - (n + 1) + 1 /\ n + 1 + k - 1 = k + n /\ k + n \in 1 .. len
OBVIOUS

\* Arithmetic of the length of what comes after the first n.
LEMMA RestLength ==
  ASSUME NEW len \in Nat, NEW n \in Nat, n <= len
  PROVE  (IF n + 1 <= len THEN len - (n + 1) + 1 ELSE 0) = len - n
OBVIOUS

\* The first regions, and the others.
LEMMA SplitIs ==
  ASSUME NEW rs \in Seq(RegionType), NEW n \in 0 .. Len(rs),
         NEW hs, hs = SubSeq(rs, 1, n), NEW ls, ls = SubSeq(rs, n + 1, Len(rs))
  PROVE  /\ DOMAIN rs = 1 .. Len(rs)
         /\ DOMAIN hs = 1 .. n /\ \A k \in 1 .. n : k \in DOMAIN rs /\ hs[k] = rs[k]
         /\ ls \in Seq(RegionType) /\ DOMAIN ls = 1 .. Len(rs) - n
         /\ \A k \in DOMAIN ls : k + n \in DOMAIN rs /\ ls[k] = rs[k + n]
<1>1. Len(rs) \in Nat /\ n \in Nat /\ n <= Len(rs) /\ DOMAIN rs = 1 .. Len(rs)
  BY LenProperties
<1>2. DOMAIN hs = 1 .. n /\ \A k \in 1 .. n : k \in DOMAIN rs /\ hs[k] = rs[k]
  <2>1. \A i \in 1 .. n : rs[i] \in RegionType
    BY <1>1, ElementOfSeq
  <2>2. hs \in Seq(RegionType) /\ Len(hs) = n /\ \A k \in 1 .. n : hs[k] = rs[k]
    <3>1. Len(hs) = (IF 1 <= n THEN n - 1 + 1 ELSE 0) /\ hs \in Seq(RegionType)
          /\ \A k \in 1 .. n - 1 + 1 : hs[k] = rs[1 + k - 1]
      BY <1>1, <2>1, SubSeqProperties
    <3>2. n - 1 + 1 = n /\ \A k \in 1 .. n : 1 + k - 1 = k
      BY <1>1
    <3>3. QED
      BY <1>1, <3>1, <3>2
  <2>3. DOMAIN hs = 1 .. n
    BY <2>2, LenProperties
  <2>4. QED
    BY <1>1, <2>2, <2>3
<1>3. /\ ls \in Seq(RegionType) /\ DOMAIN ls = 1 .. Len(rs) - n
      /\ \A k \in DOMAIN ls : k + n \in DOMAIN rs /\ ls[k] = rs[k + n]
  <2>1. \A i \in n + 1 .. Len(rs) : rs[i] \in RegionType
    BY <1>1, ElementOfSeq
  <2>2. ls \in Seq(RegionType) /\ Len(ls) = (IF n + 1 <= Len(rs) THEN Len(rs) - (n + 1) + 1 ELSE 0)
        /\ \A k \in 1 .. Len(rs) - (n + 1) + 1 : ls[k] = rs[n + 1 + k - 1]
    BY <1>1, <2>1, SubSeqProperties
  <2>a. DOMAIN ls = 1 .. Len(ls)
    BY SMTT(30), <2>2, LenProperties
  <2>c. (IF n + 1 <= Len(rs) THEN Len(rs) - (n + 1) + 1 ELSE 0) = Len(rs) - n
    BY <1>1, RestLength
  <2>b. Len(ls) = Len(rs) - n
    BY <2>2, <2>c
  <2>3. Len(ls) = Len(rs) - n /\ DOMAIN ls = 1 .. Len(ls)
    BY <2>a, <2>b
  <2>4. \A k \in DOMAIN ls : k + n \in DOMAIN rs /\ ls[k] = rs[k + n]
    <3>1. ASSUME NEW k \in 1 .. Len(rs) - n PROVE k + n \in DOMAIN rs /\ ls[k] = rs[k + n]
      <4>1. /\ k \in 1 .. Len(rs) - (n + 1) + 1 /\ n + 1 + k - 1 = k + n
            /\ k + n \in 1 .. Len(rs)
        BY <1>1, <3>1, ShiftedIndex
      <4>2. ls[k] = rs[k + n]
        BY <2>2, <4>1
      <4>3. QED
        BY <1>1, <4>1, <4>2
    <3>2. QED
      BY <2>3, <3>1
  <2>5. QED
    BY <2>2, <2>3, <2>4
<1>4. QED
  BY <1>1, <1>2, <1>3

Splits(rs, hs, ls, len, n) ==
  /\ DOMAIN rs = 1 .. len /\ DOMAIN hs = 1 .. n /\ DOMAIN ls = 1 .. len - n
  /\ \A k \in 1 .. n : k \in DOMAIN rs /\ hs[k] = rs[k]
  /\ \A k \in DOMAIN ls : k + n \in DOMAIN rs /\ ls[k] = rs[k + n]

\* The first n regions and the rest have the blocks, each once.
LEMMA SplitAre ==
  ASSUME NEW rs, NEW hs, NEW ls, NEW len \in Nat, NEW n \in 0 .. len,
         Splits(rs, hs, ls, len, n)
  PROVE  /\ Gc!Blocks(rs) = Gc!Blocks(hs) \cup Gc!Blocks(ls)
         /\ Distinct(rs) => Distinct(ls) /\ Gc!Blocks(hs) \cap Gc!Blocks(ls) = {}
<1> /\ DOMAIN rs = 1 .. len /\ DOMAIN hs = 1 .. n /\ DOMAIN ls = 1 .. len - n
    /\ \A k \in 1 .. n : k \in DOMAIN rs /\ hs[k] = rs[k]
    /\ \A k \in DOMAIN ls : k + n \in DOMAIN rs /\ ls[k] = rs[k + n]
  BY DEF Splits
<1>1. n \in Nat /\ n <= len
  OBVIOUS
<1>4. ASSUME NEW x PROVE x \in Gc!Blocks(rs) <=> x \in Gc!Blocks(hs) \/ x \in Gc!Blocks(ls)
  <2>1. ASSUME x \in Gc!Blocks(rs) PROVE x \in Gc!Blocks(hs) \/ x \in Gc!Blocks(ls)
    <3>1. PICK k \in DOMAIN rs : \E m \in DOMAIN rs[k].blocks : x = rs[k].blocks[m]
      BY <2>1, BlocksAre
    <3>2. CASE k <= n
      <4>1. k \in DOMAIN hs /\ hs[k] = rs[k]
        BY <1>1, <3>2
      <4>2. QED
        BY <3>1, <4>1, BlocksAre
    <3>3. CASE ~ (k <= n)
      <4>1. k - n \in DOMAIN ls /\ (k - n) + n = k
        BY <1>1, <3>3
      <4>2. ls[k - n] = rs[k]
        BY <4>1
      <4>3. QED
        BY <3>1, <4>1, <4>2, BlocksAre
    <3>4. QED
      BY <3>2, <3>3
  <2>2. x \in Gc!Blocks(hs) => x \in Gc!Blocks(rs)
    BY BlocksAre
  <2>3. x \in Gc!Blocks(ls) => x \in Gc!Blocks(rs)
    BY BlocksAre
  <2>4. QED
    BY <2>1, <2>2, <2>3
<1>5. ASSUME Distinct(rs) PROVE Distinct(ls) /\ Gc!Blocks(hs) \cap Gc!Blocks(ls) = {}
  <2>1. ASSUME NEW k \in DOMAIN ls, NEW l \in DOMAIN ls,
               NEW m \in DOMAIN ls[k].blocks, NEW o \in DOMAIN ls[l].blocks,
               ls[k].blocks[m] = ls[l].blocks[o]
        PROVE  k = l /\ m = o
    <3>1. k + n = l + n /\ m = o
      BY <1>5, <2>1 DEF Distinct
    <3>2. k \in Int /\ l \in Int
      OBVIOUS
    <3>3. QED
      BY <1>1, <3>1, <3>2
  <2>2. ASSUME NEW x, x \in Gc!Blocks(hs), x \in Gc!Blocks(ls) PROVE FALSE
    <3>1. PICK k \in DOMAIN hs : \E m \in DOMAIN hs[k].blocks : x = hs[k].blocks[m]
      BY <2>2, BlocksAre
    <3>2. PICK l \in DOMAIN ls : \E m \in DOMAIN ls[l].blocks : x = ls[l].blocks[m]
      BY <2>2, BlocksAre
    <3>3. hs[k] = rs[k] /\ k \in DOMAIN rs /\ ls[l] = rs[l + n] /\ l + n \in DOMAIN rs
      OBVIOUS
    <3>4. k # l + n
      BY <1>1
    <3>a. PICK m \in DOMAIN rs[k].blocks : x = rs[k].blocks[m]
      BY <3>1, <3>3
    <3>b. PICK o \in DOMAIN rs[l + n].blocks : x = rs[l + n].blocks[o]
      BY <3>2, <3>3
    <3>c. \A i, j \in DOMAIN rs : i # j =>
            \A p \in DOMAIN rs[i].blocks, q \in DOMAIN rs[j].blocks : rs[i].blocks[p] # rs[j].blocks[q]
      BY <1>5 DEF Distinct
    <3>d. \A p \in DOMAIN rs[k].blocks, q \in DOMAIN rs[l + n].blocks :
            rs[k].blocks[p] # rs[l + n].blocks[q]
      BY <3>3, <3>4, <3>c
    <3>5. QED
      BY <3>a, <3>b, <3>d
  <2>3. Distinct(ls)
    BY <2>1 DEF Distinct
  <2>4. QED
    BY <2>2, <2>3
<1>6. QED
  BY <1>4, <1>5

-----------------------------------------------------------------------------
\* Where blocks wait, before a step and after it.

\* What waits, slot by slot, before a step and after it.
LEMMA WaitsIn ==
  /\ Gc!Slots' = Gc!Slots
  /\ \A x : x \in Gc!Waiting <=> \E i \in Gc!Slots : x \in Gc!Blocks(slots[i].regions)
  /\ \A x : x \in Gc!Waiting' <=> \E i \in Gc!Slots : x \in Gc!Blocks(slots'[i].regions)
BY SlotFacts DEF Gc!Waiting

\* No two regions share a block, and none of their blocks has been freed.
LEMMA OnceIs ==
  ASSUME Gc!FreedOnce
  PROVE  /\ Gc!Waiting \cap freed = {}
         /\ \A i \in Gc!Slots : Distinct(slots[i].regions)
         /\ \A i, j \in Gc!Slots : i # j =>
              \A x \in Gc!Blocks(slots[i].regions) : x \notin Gc!Blocks(slots[j].regions)
<1>0. \A i, j \in Gc!Slots : \A k \in DOMAIN slots[i].regions, l \in DOMAIN slots[j].regions :
        \A m \in DOMAIN slots[i].regions[k].blocks, n \in DOMAIN slots[j].regions[l].blocks :
          slots[i].regions[k].blocks[m] = slots[j].regions[l].blocks[n] => i = j /\ k = l /\ m = n
  BY DEF Gc!FreedOnce
<1>1. \A i \in Gc!Slots : Distinct(slots[i].regions)
  BY <1>0 DEF Distinct
<1>2. ASSUME NEW i \in Gc!Slots, NEW j \in Gc!Slots, i # j,
             NEW x \in Gc!Blocks(slots[i].regions), x \in Gc!Blocks(slots[j].regions)
      PROVE  FALSE
  <2>1. PICK k \in DOMAIN slots[i].regions : \E m \in DOMAIN slots[i].regions[k].blocks :
          x = slots[i].regions[k].blocks[m]
    BY BlocksAre
  <2>2. PICK m \in DOMAIN slots[i].regions[k].blocks : x = slots[i].regions[k].blocks[m]
    BY <2>1
  <2>3. PICK l \in DOMAIN slots[j].regions : \E n \in DOMAIN slots[j].regions[l].blocks :
          x = slots[j].regions[l].blocks[n]
    BY <1>2, BlocksAre
  <2>4. PICK n \in DOMAIN slots[j].regions[l].blocks : x = slots[j].regions[l].blocks[n]
    BY <2>3
  <2>5. slots[i].regions[k].blocks[m] = slots[j].regions[l].blocks[n]
    BY <2>2, <2>4
  <2>6. slots[i].regions[k].blocks[m] = slots[j].regions[l].blocks[n] => i = j
    BY <1>0
  <2>7. QED
    BY <1>2, <2>5, <2>6
<1>3. QED
  BY <1>1, <1>2 DEF Gc!FreedOnce

\* The same after a step.
LEMMA OnceNext ==
  ASSUME Gc!Waiting' \cap freed' = {},
         \A i \in Gc!Slots : Distinct(slots'[i].regions),
         \A i, j \in Gc!Slots : i # j =>
           \A x \in Gc!Blocks(slots'[i].regions) : x \notin Gc!Blocks(slots'[j].regions)
  PROVE  Gc!FreedOnce'
<1>1. ASSUME NEW i \in Gc!Slots, NEW j \in Gc!Slots,
             NEW k \in DOMAIN slots'[i].regions, NEW l \in DOMAIN slots'[j].regions,
             NEW m \in DOMAIN slots'[i].regions[k].blocks, NEW n \in DOMAIN slots'[j].regions[l].blocks,
             slots'[i].regions[k].blocks[m] = slots'[j].regions[l].blocks[n]
      PROVE  i = j /\ k = l /\ m = n
  <2>1. slots'[i].regions[k].blocks[m] \in Gc!Blocks(slots'[i].regions)
    BY BlocksAre
  <2>2. slots'[i].regions[k].blocks[m] \in Gc!Blocks(slots'[j].regions)
    BY <1>1, BlocksAre
  <2>3. i = j
    BY <2>1, <2>2
  <2>4. QED
    BY <1>1, <2>3 DEF Distinct
<1>2. Gc!Slots' = Gc!Slots
  BY SlotFacts
<1>3. QED
  BY <1>1, <1>2 DEF Gc!FreedOnce

-----------------------------------------------------------------------------
\* gc_free()

\* The step of t, in terms of the block and of the regions.
LEMMA FreeIs ==
  ASSUME GcInv, NEW t \in Threads, Gc!gc_free(t), NEW b, b = loc[t].todo[1],
         NEW ps, ps = Pushed(Mine(t).regions, b, loc[t].now)
  PROVE  \E r \in LocalType : \E s \in SlotType :
           /\ Effect(t, "cleanup", r, s)
           /\ r.i = loc[t].i /\ r.todo = <<>> /\ r.reg = loc[t].reg /\ r.late = loc[t].late
           /\ s.used = Mine(t).used /\ s.ts = Mine(t).ts /\ s.regions = ps
<1>0. /\ at[t] = "free" /\ loc[t] \in LocalType /\ Mine(t) \in SlotType /\ GcTypes /\ Holds(t)
  BY OneThread DEF Gc!gc_free, Gc!At, GcInv, Holds
<1>1. b \in Blk /\ loc[t].todo = <<b>>
  BY <1>0, HeldIs
<1>2. Head(loc[t].todo) = b /\ Tail(loc[t].todo) = <<>>
  BY <1>1
<1>3. Mine(t).regions \in Seq(RegionType) /\ loc[t].now \in Nat
  BY <1>0 DEF SlotType, LocalType
<1>4. ps \in Seq(RegionType)
  BY SMTT(30), <1>1, <1>3, PushedAre
<1> DEFINE e == <<>>
           r == [loc[t] EXCEPT !.todo = e]
           s == [Mine(t) EXCEPT !.regions = ps]
<1>5. slots' = [slots EXCEPT ![loc[t].i] = s]
  BY <1>2 DEF Gc!gc_free, Gc!SetSlot, Gc!Slot, Mine, Pushed
<1>6. Step(t, "cleanup", r, s)
  BY <1>0, <1>2, <1>5 DEF Gc!gc_free, Gc!Goto, Gc!Locals, Step
<1>7. e \in Seq(Blk)
  OBVIOUS
<1>8. r \in LocalType /\ r.i = loc[t].i /\ r.todo = e /\ r.reg = loc[t].reg /\ r.late = loc[t].late
  <2> HIDE DEF e
  <2>1. QED
    BY <1>0, <1>7 DEF LocalType
<1>9. s \in SlotType /\ s.used = Mine(t).used /\ s.ts = Mine(t).ts /\ s.regions = ps
  <2> HIDE <1>5
  <2>1. QED
    BY <1>0, <1>4 DEF SlotType
<1> HIDE DEF r, s
<1>10. Effect(t, "cleanup", r, s)
  BY <1>0, <1>6, <1>8, <1>9, StepEffect DEF Owning, Freeing
<1>11. QED
  BY <1>8, <1>9, <1>10

\* gc_free() puts the block that the thread holds, and nobody else has, last.
LEMMA FreeKeeps ==
  ASSUME GcInv, NEW t \in Threads, Gc!gc_free(t)
  PROVE  GcInv'
<1> DEFINE i == loc[t].i
           rs == Mine(t).regions
           b == loc[t].todo[1]
           now == loc[t].now
           ps == Pushed(rs, b, now)
<1>0. /\ at[t] = "free" /\ loc[t] \in LocalType /\ Mine(t) \in SlotType /\ TypesOf(at[t], loc[t])
      /\ Mine(t).used = "BUSY" /\ Owns(t) /\ BoundsOf(at[t], loc[t], Mine(t).ts, clock) /\ Holds(t)
      /\ clock \in Nat /\ base \in Nat /\ GcTypes /\ i \in Gc!Slots
  BY OneThread DEF Gc!gc_free, Gc!At, GcInv, Owns, Owning, Freeing, Holds
<1>1. freed' = freed /\ clock' = clock /\ base' = base
  BY DEF Gc!gc_free
<1>2. /\ GcOwners /\ GcBounds /\ GcScans /\ GcTimes /\ GcOnce /\ GcKept /\ GcEpochs
  BY DEF GcInv
<1>3. b \in Blk /\ rs \in Seq(RegionType) /\ now \in Nat /\ loc[t].todo = <<b>>
  BY <1>0, HeldIs DEF SlotType, LocalType
<1>4. ps \in Seq(RegionType) /\ Adds(rs, ps, b, now)
  BY <1>3, PushedAre
<1>5. PICK r \in LocalType : \E s \in SlotType :
        /\ Effect(t, "cleanup", r, s)
        /\ r.i = loc[t].i /\ r.todo = <<>> /\ r.reg = loc[t].reg /\ r.late = loc[t].late
        /\ s.used = Mine(t).used /\ s.ts = Mine(t).ts /\ s.regions = ps
  BY FreeIs
<1>6. PICK s \in SlotType :
        /\ Effect(t, "cleanup", r, s)
        /\ r.i = loc[t].i /\ r.todo = <<>> /\ r.reg = loc[t].reg /\ r.late = loc[t].late
        /\ s.used = Mine(t).used /\ s.ts = Mine(t).ts /\ s.regions = ps
  BY <1>5
<1> HIDE DEF ps
<1>7. b \notin Gc!Waiting \cup freed
  BY <1>0, <1>2 DEF GcOnce
<1>8. /\ \A u \in Threads \ {t} : at'[u] = at[u] /\ loc'[u] = loc[u]
      /\ at'[t] = "cleanup" /\ loc'[t] = r /\ slots'[i].regions = ps
      /\ \A j \in Gc!Slots \ {i} : slots'[j] = slots[j]
      /\ Gc!Slots' = Gc!Slots
  BY <1>6, SlotFacts DEF Effect
<1>9. ~ Holds(t)' /\ (Left(t)' <=> Left(t))
  BY <1>0, <1>6, <1>8 DEF Holds, Left, LeftAt, Freeing, Leaving, Gone
<1>10. \A u \in Threads \ {t} : (Holds(u)' <=> Holds(u)) /\ (Left(u)' <=> Left(u))
  BY <1>8 DEF Holds, Left, LeftAt
<1>11. \A x : x \in Gc!Waiting' <=> x \in Gc!Waiting \/ x = b
  <2>1. rs = slots[i].regions
    BY DEF Mine
  <2>2. \A x : x \in Gc!Blocks(ps) <=> x \in Gc!Blocks(rs) \/ x = b
    BY <1>4 DEF Adds
  <2>3. QED
    BY <1>0, <1>8, <2>1, <2>2, WaitsIn
<1>12. GcTypes'
  <2>1. TypesOf("cleanup", r)
    BY <1>0, <1>6 DEF TypesOf, InTx, Freeing
  <2>2. \A u \in Threads : TypesOf(at[u], loc[u])'
    BY <1>8, <2>1 DEF GcTypes, GcInv, TypesOf
  <2>3. QED
    BY <1>0, <1>1, <1>6, <1>8, <2>2 DEF GcTypes, Effect
<1>13. GcOwners'
  BY <1>0, <1>2, <1>6, OwnerStays DEF Owning, Freeing
<1>14. GcBounds'
  <2>1. BoundsOf("cleanup", r, s.ts, clock')
    BY <1>0, <1>1, <1>6 DEF BoundsOf, Freeing
  <2>2. QED
    BY <1>0, <1>1, <1>2, <1>6, <2>1, BoundsStay
<1>15. GcScans'
  <2>1. ScanOf(t, "cleanup", r, s.regions) /\ Since(t, "cleanup", r)
    BY DEF ScanOf, Since, Scan
  <2>2. QED
    BY <1>0, <1>1, <1>2, <1>6, <2>1, ScansStay
<1>16. GcTimes'
  <2>1. \A x \in freed : /\ Before(x, base + clock)
                         /\ \A u \in Threads : Gc!Running(u)' => Before(x, base + loc'[u].since)
    <3>1. \A u \in Threads : Gc!Running(u)' => Gc!Running(u) /\ loc'[u] = loc[u]
      BY <1>6, <1>8, RunningIs
    <3>2. QED
      BY <1>2, <3>1 DEF GcTimes
  <2>2. Before(b, base + clock) /\ Before(b, base + now)
    BY <1>0, <1>2 DEF GcTimes
  <2>3. ASSUME NEW k \in DOMAIN ps, NEW m \in DOMAIN ps[k].blocks
        PROVE  Before(ps[k].blocks[m], base + clock) /\ Before(ps[k].blocks[m], base + ps[k].ts)
    <3>1. CASE ps[k].blocks[m] = b /\ now <= ps[k].ts
      <4>1. ps[k].ts \in Nat
        <5>1. ps[k] \in RegionType
          BY <1>4, <2>3, ElementOfSeq
        <5>2. QED
          BY <5>1 DEF RegionType
      <4>2. base + now \in Nat /\ base + ps[k].ts \in Nat /\ base + now <= base + ps[k].ts
        BY SMTT(30), <1>0, <1>3, <3>1, <4>1
      <4>3. QED
        BY <1>3, <2>2, <3>1, <4>2, BeforeMore
    <3>2. CASE /\ k \in DOMAIN rs /\ ps[k].ts = rs[k].ts
               /\ \E o \in DOMAIN rs[k].blocks : ps[k].blocks[m] = rs[k].blocks[o]
      BY <1>0, <1>2, <3>2 DEF GcTimes, Mine
    <3>3. QED
      BY <1>4, <2>3, <3>1, <3>2 DEF Adds
  <2>4. \A j \in Gc!Slots : \A k \in DOMAIN slots'[j].regions :
          \A m \in DOMAIN slots'[j].regions[k].blocks :
            /\ Before(slots'[j].regions[k].blocks[m], base + clock)
            /\ Before(slots'[j].regions[k].blocks[m], base + slots'[j].regions[k].ts)
    <3>2. ASSUME NEW j \in Gc!Slots, NEW k \in DOMAIN slots'[j].regions,
                 NEW m \in DOMAIN slots'[j].regions[k].blocks
          PROVE  /\ Before(slots'[j].regions[k].blocks[m], base + clock)
                 /\ Before(slots'[j].regions[k].blocks[m], base + slots'[j].regions[k].ts)
      <4>1. CASE j = i
        BY <1>8, <2>3, <3>2, <4>1
      <4>2. CASE j # i
        BY <1>2, <1>8, <3>2, <4>2 DEF GcTimes
      <4>3. QED
        BY <4>1, <4>2
    <3>3. QED
      BY <3>2
  <2>5. \A u \in Threads : Holds(u)' =>
          /\ loc'[u].todo[1][1] = "node" => loc'[u].reg
          /\ Before(loc'[u].todo[1], base + clock)
          /\ at'[u] = "free" => Before(loc'[u].todo[1], base + loc'[u].now)
    BY <1>2, <1>8, <1>9, <1>10 DEF GcTimes
  <2>6. QED
    BY <1>1, <1>8, <2>1, <2>4, <2>5 DEF GcTimes
<1>17. GcOnce'
  <2>1. Gc!FreedOnce'
    <3>0. /\ Gc!Waiting \cap freed = {} /\ \A j \in Gc!Slots : Distinct(slots[j].regions)
          /\ \A j, k \in Gc!Slots : j # k =>
               \A x \in Gc!Blocks(slots[j].regions) : x \notin Gc!Blocks(slots[k].regions)
      BY <1>2, OnceIs DEF GcOnce
    <3>1. Gc!Waiting' \cap freed' = {}
      BY <1>1, <1>7, <1>11, <3>0
    <3>2. b \notin Gc!Blocks(rs) /\ \A j \in Gc!Slots : b \notin Gc!Blocks(slots[j].regions)
      BY <1>0, <1>7, WaitsIn DEF Mine
    <3>3. \A j \in Gc!Slots : Distinct(slots'[j].regions)
      <4>1. Distinct(rs)
        BY <1>0, <3>0 DEF Mine
      <4>2. Distinct(ps)
        BY <1>4, <3>2, <4>1 DEF Adds
      <4>3. QED
        BY <1>8, <3>0, <4>2
    <3>4. \A x : x \in Gc!Blocks(ps) <=> x \in Gc!Blocks(slots[i].regions) \/ x = b
      BY <1>4 DEF Adds, Mine
    <3>5. \A j, k \in Gc!Slots : j # k =>
            \A x \in Gc!Blocks(slots'[j].regions) : x \notin Gc!Blocks(slots'[k].regions)
      BY <1>0, <1>8, <3>0, <3>2, <3>4
    <3>6. QED
      BY <3>1, <3>3, <3>5, OnceNext
  <2>2. \A u \in Threads : Holds(u)' => loc'[u].todo[1] \notin Gc!Waiting' \cup freed'
    BY <1>0, <1>1, <1>2, <1>8, <1>9, <1>10, <1>11 DEF GcOnce
  <2>3. \A u, v \in Threads : Holds(u)' /\ Holds(v)' /\ loc'[u].todo[1] = loc'[v].todo[1] => u = v
    BY <1>2, <1>8, <1>9, <1>10 DEF GcOnce
  <2>4. \A u, v \in Threads : Holds(u)' /\ loc'[u].todo[1] = <<"tx", v>> => v = u /\ Left(u)'
    BY <1>2, <1>8, <1>9, <1>10 DEF GcOnce
  <2>5. \A u \in Threads : ~ Left(u)' => <<"tx", u>> \notin Gc!Waiting' \cup freed'
    BY <1>0, <1>1, <1>2, <1>9, <1>10, <1>11 DEF GcOnce
  <2>6. QED
    BY <2>1, <2>2, <2>3, <2>4, <2>5 DEF GcOnce
<1>18. GcKept'
  <2>1. ASSUME NEW x, NEW u \in Threads, Holds(u), loc[u].todo = <<x>>
        PROVE  x \in Gc!Waiting' \/ (Holds(u)' /\ loc'[u].todo = <<x>>)
    <3>1. CASE u = t
      BY <1>11, <2>1, <3>1
    <3>2. CASE u # t
      BY <1>8, <1>10, <2>1, <3>2
    <3>3. QED
      BY <3>1, <3>2
  <2>2. ASSUME NEW n \in 0 .. base + clock - 1
        PROVE  <<"node", n>> \in freed' \cup Gc!Waiting' \/ \E u \in Threads : Holds(u)' /\ loc'[u].todo = <<<<"node", n>>>>
    <3>1. CASE <<"node", n>> \in freed \cup Gc!Waiting
      BY <1>1, <1>11, <3>1
    <3>2. CASE \E u \in Threads : Holds(u) /\ loc[u].todo = <<<<"node", n>>>>
      BY <2>1, <3>2
    <3>3. QED
      BY <1>2, <3>1, <3>2 DEF GcKept
  <2>3. ASSUME NEW u \in Threads, Left(u)'
        PROVE  <<"tx", u>> \in freed' \cup Gc!Waiting' \/ (Holds(u)' /\ loc'[u].todo = <<<<"tx", u>>>>)
    <3>0. Left(u)
      BY <1>9, <1>10, <2>3
    <3>1. CASE <<"tx", u>> \in freed \cup Gc!Waiting
      BY <1>1, <1>11, <3>1
    <3>2. CASE Holds(u) /\ loc[u].todo = <<<<"tx", u>>>>
      BY <2>1, <3>2
    <3>3. QED
      BY <1>2, <3>0, <3>1, <3>2 DEF GcKept
  <2>4. \A u \in Threads : at'[u] # "over"
    BY <1>0, <1>2, <1>8 DEF GcKept
  <2>5. QED
    BY <1>1, <2>2, <2>3, <2>4 DEF GcKept
<1>19. GcEpochs'
  <2>1. FreeOf(loc[t], Mine(t), clock)
    BY <1>0, <1>2 DEF GcEpochs
  <2>2. AllBy(s, now)
    <3>1. ASSUME NEW k \in DOMAIN ps PROVE ps[k].ts <= now
      <4>1. ps[k].ts = now \/ (k \in DOMAIN rs /\ ps[k].ts = rs[k].ts)
        BY <1>4, <3>1 DEF Adds
      <4>2. k \in DOMAIN rs => rs[k].ts <= now
        BY <2>1 DEF FreeOf, AllBy
      <4>3. now <= now
        BY <1>3
      <4>4. QED
        BY <4>1, <4>2, <4>3
    <3>2. QED
      BY <1>6, <3>1 DEF AllBy
  <2>3. CASE now <= clock
    <3>1. ASSUME NEW k \in DOMAIN s.regions PROVE s.regions[k].ts <= clock
      <4>1. s.regions[k].ts \in Nat
        <5>1. s.regions[k] \in RegionType
          BY <1>4, <1>6, <3>1
        <5>2. QED
          BY <5>1 DEF RegionType
      <4>2. s.regions[k].ts <= now
        BY <2>2, <3>1 DEF AllBy
      <4>3. QED
        BY <1>0, <1>3, <2>3, <4>1, <4>2
    <3>2. AllBy(s, clock')
      BY <1>1, <3>1 DEF AllBy
    <3>3. QED
      BY <1>0, <1>1, <1>2, <1>6, <3>2, EpochsStep
  <2>4. CASE ~ loc[t].reg /\ Mine(t).ts = 99
    <3>1. StuckAt("cleanup", r, s)
      BY <1>6, <2>4 DEF StuckAt
    <3>2. QED
      BY <1>0, <1>1, <1>2, <1>6, <3>1, EpochsStep
  <2>5. QED
    BY <2>1, <2>3, <2>4 DEF FreeOf
<1>20. QED
  BY <1>12, <1>13, <1>14, <1>15, <1>16, <1>17, <1>18, <1>19 DEF GcInv

-----------------------------------------------------------------------------
\* gc_cleanup_thread()

\* The step of t, in terms of the number of regions that it frees.
LEMMA CollectIs ==
  ASSUME GcInv, NEW t \in Threads, Gc!gc_cleanup_thread(t)
  PROVE  \E l \in {"entered", "clear"} : \E r \in LocalType : \E s \in SlotType :
         \E n \in 0 .. Len(Mine(t).regions) :
           /\ \A k \in 1 .. n : Mine(t).regions[k].ts < loc[t].min
           /\ freed' = freed \cup Gc!Blocks(SubSeq(Mine(t).regions, 1, n))
           /\ Effect(t, l, r, s)
           /\ r.i = loc[t].i /\ r.todo = <<>> /\ r.reg = loc[t].reg /\ r.late = loc[t].late
           /\ l = "entered" <=> loc[t].reg
           /\ s.used = Mine(t).used /\ s.ts = Mine(t).ts
           /\ s.regions = SubSeq(Mine(t).regions, n + 1, Len(Mine(t).regions))
<1>0. /\ at[t] = "collect" /\ loc[t] \in LocalType /\ Mine(t) \in SlotType /\ GcTypes
      /\ loc[t].todo = <<>>
  BY OneThread DEF Gc!gc_cleanup_thread, Gc!At, GcInv, TypesOf
<1>1. Mine(t).regions \in Seq(RegionType)
  BY SMTT(30), <1>0 DEF SlotType
<1> DEFINE rs == Mine(t).regions
           l == IF loc[t].reg THEN "entered" ELSE "clear"
           r == [loc[t] EXCEPT !.scan = 1, !.min = 0, !.now = 0]
<1>2. PICK n \in 0 .. Len(rs) :
        /\ \A k \in 1 .. n : rs[k].ts < loc[t].min
        /\ freed' = freed \cup Gc!Blocks(SubSeq(rs, 1, n))
        /\ slots' = [slots EXCEPT ![loc[t].i] = [Mine(t) EXCEPT !.regions = SubSeq(rs, n + 1, Len(rs))]]
  BY DEF Gc!gc_cleanup_thread, Gc!SetSlot, Gc!Slot, Mine
<1> DEFINE ls == SubSeq(rs, n + 1, Len(rs))
           s == [Mine(t) EXCEPT !.regions = ls]
<1>3. ls \in Seq(RegionType)
  BY <1>1, SplitIs
<1>4. s \in SlotType /\ s.used = Mine(t).used /\ s.ts = Mine(t).ts /\ s.regions = ls
  <2> HIDE DEF ls
  <2>1. QED
    BY <1>0, <1>3 DEF SlotType
<1>5. /\ r \in LocalType /\ r.i = loc[t].i /\ r.todo = loc[t].todo /\ r.reg = loc[t].reg
      /\ r.late = loc[t].late
  BY <1>0 DEF LocalType
<1>6. Gc!AfterFree(t) = l
  BY <1>0 DEF Gc!AfterFree, Gc!Registered
<1>7. at' = [at EXCEPT ![t] = l] /\ loc' = [loc EXCEPT ![t] = r]
  BY <1>0, <1>6 DEF Gc!gc_cleanup_thread, Gc!Goto, Gc!Locals
<1>8. base' = base
  BY DEF Gc!gc_cleanup_thread
<1>9. slots' = [slots EXCEPT ![loc[t].i] = s]
  BY <1>2
<1>10. l \in Owning /\ l \in {"entered", "clear"} /\ (l = "entered" <=> loc[t].reg)
  BY DEF Owning, InTx, Leaving
<1> HIDE DEF r, s, l, ls
<1>11. Step(t, l, r, s)
  BY <1>7, <1>8, <1>9 DEF Step
<1>12. Effect(t, l, r, s)
  BY <1>0, <1>4, <1>5, <1>10, <1>11, StepEffect
<1>13. s.regions = SubSeq(rs, n + 1, Len(rs))
  BY <1>4 DEF ls
<1>14. r.todo = <<>>
  BY <1>0, <1>5
<1>15. QED
  BY <1>2, <1>4, <1>5, <1>10, <1>12, <1>13, <1>14

\* Arithmetic of an epoch before a bound.
LEMMA LaterBound ==
  ASSUME NEW n \in Nat, NEW a \in Nat, NEW m \in Nat, NEW c \in Nat, a < m, m <= c
  PROVE  n + a \in Nat /\ n + c \in Nat /\ n + a <= n + c
OBVIOUS

\* gc_cleanup_thread() frees what no running transaction may use.
LEMMA CollectKeeps ==
  ASSUME GcInv, NEW t \in Threads, Gc!gc_cleanup_thread(t)
  PROVE  GcInv'
<1> DEFINE i == loc[t].i
           rs == Mine(t).regions
<1>0. /\ at[t] = "collect" /\ loc[t] \in LocalType /\ Mine(t) \in SlotType /\ TypesOf(at[t], loc[t])
      /\ Mine(t).used = "BUSY" /\ Owns(t) /\ BoundsOf(at[t], loc[t], Mine(t).ts, clock)
      /\ ScanOf(t, at[t], loc[t], Mine(t).regions)
      /\ clock \in Nat /\ base \in Nat /\ GcTypes /\ i \in Gc!Slots
  BY OneThread DEF Gc!gc_cleanup_thread, Gc!At, GcInv, Owns, Owning, Freeing
<1>1. clock' = clock /\ base' = base
  BY DEF Gc!gc_cleanup_thread
<1>2. /\ GcOwners /\ GcBounds /\ GcScans /\ GcTimes /\ GcOnce /\ GcKept /\ GcEpochs
  BY DEF GcInv
<1>3. rs \in Seq(RegionType) /\ Len(rs) \in Nat
  <2>1. rs \in Seq(RegionType)
    BY <1>0 DEF SlotType
  <2>2. QED
    BY <2>1, LenProperties
<1>4. PICK l \in {"entered", "clear"} : \E r \in LocalType : \E s \in SlotType :
         \E n \in 0 .. Len(Mine(t).regions) :
           /\ \A k \in 1 .. n : Mine(t).regions[k].ts < loc[t].min
           /\ freed' = freed \cup Gc!Blocks(SubSeq(Mine(t).regions, 1, n))
           /\ Effect(t, l, r, s)
           /\ r.i = loc[t].i /\ r.todo = <<>> /\ r.reg = loc[t].reg /\ r.late = loc[t].late
           /\ l = "entered" <=> loc[t].reg
           /\ s.used = Mine(t).used /\ s.ts = Mine(t).ts
           /\ s.regions = SubSeq(Mine(t).regions, n + 1, Len(Mine(t).regions))
  BY CollectIs
<1>5. PICK r \in LocalType, s \in SlotType, n \in 0 .. Len(rs) :
           /\ \A k \in 1 .. n : rs[k].ts < loc[t].min
           /\ freed' = freed \cup Gc!Blocks(SubSeq(rs, 1, n))
           /\ Effect(t, l, r, s)
           /\ r.i = loc[t].i /\ r.todo = <<>> /\ r.reg = loc[t].reg /\ r.late = loc[t].late
           /\ l = "entered" <=> loc[t].reg
           /\ s.used = Mine(t).used /\ s.ts = Mine(t).ts
           /\ s.regions = SubSeq(rs, n + 1, Len(rs))
  BY <1>4
<1> DEFINE hs == SubSeq(rs, 1, n)
           ls == SubSeq(rs, n + 1, Len(rs))
<1>6. /\ ls \in Seq(RegionType) /\ DOMAIN hs = 1 .. n
      /\ \A k \in 1 .. n : k \in DOMAIN rs /\ hs[k] = rs[k]
      /\ \A k \in DOMAIN ls : k + n \in DOMAIN rs /\ ls[k] = rs[k + n]
      /\ DOMAIN rs = 1 .. Len(rs) /\ DOMAIN ls = 1 .. Len(rs) - n
  BY <1>3, SplitIs
<1>7. freed' = freed \cup Gc!Blocks(hs) /\ s.regions = ls
  BY <1>5
<1> HIDE DEF hs, ls
<1>8. /\ \A x : x \in Gc!Blocks(rs) <=> x \in Gc!Blocks(hs) \/ x \in Gc!Blocks(ls)
      /\ Distinct(rs) => Distinct(ls) /\ \A x \in Gc!Blocks(hs) : x \notin Gc!Blocks(ls)
  <2>1. /\ Gc!Blocks(rs) = Gc!Blocks(hs) \cup Gc!Blocks(ls)
        /\ Distinct(rs) => Distinct(ls) /\ Gc!Blocks(hs) \cap Gc!Blocks(ls) = {}
    <3>1. Splits(rs, hs, ls, Len(rs), n)
      BY <1>6 DEF Splits
    <3>2. Len(rs) \in Nat /\ n \in 0 .. Len(rs)
      BY <1>3
    <3> HIDE DEF rs
    <3>3. QED
      BY <3>1, <3>2, SplitAre
  <2>2. QED
    BY <2>1
<1>9. /\ \A u \in Threads \ {t} : at'[u] = at[u] /\ loc'[u] = loc[u]
      /\ at'[t] = l /\ loc'[t] = r /\ slots'[i].regions = ls
      /\ \A j \in Gc!Slots \ {i} : slots'[j] = slots[j]
      /\ Gc!Slots' = Gc!Slots
  BY <1>5, <1>7, SlotFacts DEF Effect
<1>10. ~ Holds(t)' /\ ~ Holds(t) /\ (Left(t)' <=> Left(t))
  BY <1>0, <1>5, <1>9 DEF Holds, Left, LeftAt, Freeing, Leaving, Gone
<1>11. \A u \in Threads : /\ Holds(u)' <=> Holds(u)
                          /\ Left(u)' <=> Left(u)
                          /\ Holds(u) => u # t
  BY <1>9, <1>10 DEF Holds, Left, LeftAt
<1>a. /\ Gc!Waiting \cap freed = {} /\ \A j \in Gc!Slots : Distinct(slots[j].regions)
      /\ \A j, k \in Gc!Slots : j # k =>
           \A x \in Gc!Blocks(slots[j].regions) : x \notin Gc!Blocks(slots[k].regions)
  BY <1>2, OnceIs DEF GcOnce
<1>b. rs = slots[i].regions
  BY DEF Mine
<1>12. \A x : x \in Gc!Waiting' \cup freed' <=> x \in Gc!Waiting \cup freed
  BY <1>0, <1>7, <1>8, <1>9, <1>b, WaitsIn
<1>13. GcTypes'
  <2>1. TypesOf(l, r)
    BY <1>0, <1>5 DEF TypesOf, InTx, Freeing
  <2>2. \A u \in Threads : TypesOf(at[u], loc[u])'
    BY <1>9, <2>1 DEF GcTypes, GcInv, TypesOf
  <2>3. \A x \in freed' : x \in Blk
    BY <1>12, WaitingBefore DEF GcTypes, GcInv
  <2>4. QED
    BY <1>0, <1>1, <1>5, <1>9, <2>2, <2>3 DEF GcTypes, Effect
<1>14. GcOwners'
  BY <1>0, <1>2, <1>5, OwnerStays DEF Owning, InTx, Leaving
<1>15. GcBounds'
  <2>1. BoundsOf(l, r, s.ts, clock')
    BY <1>0, <1>1, <1>5 DEF BoundsOf, Freeing
  <2>2. QED
    BY <1>0, <1>1, <1>2, <1>5, <2>1, BoundsStay
<1>c. ScanOf(t, l, r, s.regions) /\ Since(t, l, r)
  BY DEF ScanOf, Since, Scan
<1>16. GcScans'
  <2>1. Effect(t, l, r, s) /\ r.i = loc[t].i /\ clock' \in Nat /\ clock <= clock'
    BY <1>0, <1>1, <1>5
  <2>2. QED
    BY <1>0, <1>2, <1>c, <2>1, ScansStay
<1>17. GcTimes'
  <2>0. \A u \in Threads : Gc!Running(u)' => Gc!Running(u) /\ loc'[u] = loc[u] /\ u # t
    BY <1>5, <1>9, RunningIs
  <2>1. ASSUME NEW x \in freed'
        PROVE  /\ Before(x, base + clock)
               /\ \A u \in Threads : Gc!Running(u)' => Before(x, base + loc'[u].since)
    <3>1. CASE x \in freed
      BY <1>2, <2>0, <3>1 DEF GcTimes
    <3>2. CASE x \in Gc!Blocks(hs)
      <4>1. PICK k \in DOMAIN hs : \E m \in DOMAIN hs[k].blocks : x = hs[k].blocks[m]
        BY <3>2, BlocksAre
      <4>2. k \in 1 .. n /\ k \in DOMAIN rs /\ hs[k] = rs[k]
        BY <1>6
      <4>3. PICK m \in DOMAIN rs[k].blocks : x = rs[k].blocks[m]
        BY <4>1, <4>2
      <4>4. rs[k].ts < loc[t].min /\ loc[t].min \in Nat
        BY <1>0, <1>5, <4>2 DEF LocalType
      <4>5. rs # <<>>
        BY SMTT(30), <4>2
      <4>6. /\ Before(x, base + clock) /\ Before(x, base + rs[k].ts)
            /\ x \in Blk /\ rs[k].ts \in Nat
        <5>1. /\ Before(slots[i].regions[k].blocks[m], base + clock)
              /\ Before(slots[i].regions[k].blocks[m], base + slots[i].regions[k].ts)
          BY <1>0, <1>2, <1>b, <4>2 DEF GcTimes
        <5>2. slots[i].regions[k].blocks[m] \in Blk /\ slots[i].regions[k].ts \in Nat
          BY <1>0, <1>b, <4>2, RegionsAre
        <5>3. QED
          BY <1>b, <4>3, <5>1, <5>2
      <4>7. ASSUME NEW u \in Threads, Gc!Running(u)' PROVE Before(x, base + loc'[u].since)
        <5>1. Gc!Running(u) /\ loc'[u] = loc[u] /\ u # t
          BY <2>0, <4>7
        <5>2. loc[t].min <= loc[u].since
          BY <1>0, <4>5, <5>1 DEF ScanOf, Scan, Passed
        <5>3. loc[u].since \in Nat
          BY OneThread DEF LocalType
        <5>4. base + rs[k].ts \in Nat /\ base + loc[u].since \in Nat /\ base + rs[k].ts <= base + loc[u].since
          BY <1>0, <4>4, <4>6, <5>2, <5>3, LaterBound
        <5>5. QED
          BY <4>6, <5>1, <5>4, BeforeMore
      <4>8. QED
        BY <4>6, <4>7
    <3>3. QED
      BY <1>7, <3>1, <3>2
  <2>2. \A j \in Gc!Slots : \A k \in DOMAIN slots'[j].regions :
          \A m \in DOMAIN slots'[j].regions[k].blocks :
            /\ Before(slots'[j].regions[k].blocks[m], base + clock)
            /\ Before(slots'[j].regions[k].blocks[m], base + slots'[j].regions[k].ts)
    <3>1. ASSUME NEW j \in Gc!Slots, NEW k \in DOMAIN slots'[j].regions,
                 NEW m \in DOMAIN slots'[j].regions[k].blocks
          PROVE  /\ Before(slots'[j].regions[k].blocks[m], base + clock)
                 /\ Before(slots'[j].regions[k].blocks[m], base + slots'[j].regions[k].ts)
      <4>1. CASE j = i
        <5>1. k + n \in DOMAIN rs /\ slots'[j].regions[k] = rs[k + n]
          BY <1>6, <1>9, <3>1, <4>1
        <5>2. QED
          BY <1>0, <1>2, <1>b, <3>1, <5>1 DEF GcTimes
      <4>2. CASE j # i
        BY <1>2, <1>9, <3>1, <4>2 DEF GcTimes
      <4>3. QED
        BY <4>1, <4>2
    <3>2. QED
      BY <3>1
  <2>3. \A u \in Threads : Holds(u)' =>
          /\ loc'[u].todo[1][1] = "node" => loc'[u].reg
          /\ Before(loc'[u].todo[1], base + clock)
          /\ at'[u] = "free" => Before(loc'[u].todo[1], base + loc'[u].now)
    BY <1>2, <1>9, <1>11 DEF GcTimes
  <2>4. QED
    BY <1>1, <1>9, <2>1, <2>2, <2>3 DEF GcTimes
<1>18. GcOnce'
  <2>1. Gc!FreedOnce'
    <3>1. ASSUME NEW x, x \in Gc!Waiting', x \in freed' PROVE FALSE
      <4>1. PICK j \in Gc!Slots : x \in Gc!Blocks(slots'[j].regions)
        BY <3>1, WaitsIn
      <4>2. CASE j = i
        BY <1>0, <1>7, <1>8, <1>9, <1>a, <1>b, <3>1, <4>1, <4>2, WaitsIn
      <4>3. CASE j # i
        BY <1>0, <1>7, <1>8, <1>9, <1>a, <1>b, <3>1, <4>1, <4>3, WaitsIn
      <4>4. QED
        BY <4>2, <4>3
    <3>2. \A j \in Gc!Slots : Distinct(slots'[j].regions)
      BY <1>0, <1>8, <1>9, <1>a, <1>b
    <3>3. \A j, k \in Gc!Slots : j # k =>
            \A x \in Gc!Blocks(slots'[j].regions) : x \notin Gc!Blocks(slots'[k].regions)
      <4>1. ASSUME NEW j \in Gc!Slots, NEW x \in Gc!Blocks(slots'[j].regions)
            PROVE  x \in Gc!Blocks(slots[j].regions)
        <5>1. CASE j = i
          BY <1>8, <1>9, <1>b, <4>1, <5>1
        <5>2. CASE j # i
          BY <1>9, <4>1, <5>2
        <5>3. QED
          BY <5>1, <5>2
      <4>2. QED
        BY <1>a, <4>1
    <3>4. QED
      BY <3>1, <3>2, <3>3, OnceNext
  <2>2. \A u \in Threads : Holds(u)' => loc'[u].todo[1] \notin Gc!Waiting' \cup freed'
    BY <1>2, <1>9, <1>11, <1>12 DEF GcOnce
  <2>3. \A u, v \in Threads : Holds(u)' /\ Holds(v)' /\ loc'[u].todo[1] = loc'[v].todo[1] => u = v
    BY <1>2, <1>9, <1>11 DEF GcOnce
  <2>4. \A u, v \in Threads : Holds(u)' /\ loc'[u].todo[1] = <<"tx", v>> => v = u /\ Left(u)'
    BY <1>2, <1>9, <1>11 DEF GcOnce
  <2>5. \A u \in Threads : ~ Left(u)' => <<"tx", u>> \notin Gc!Waiting' \cup freed'
    BY <1>2, <1>11, <1>12 DEF GcOnce
  <2>6. QED
    BY <2>1, <2>2, <2>3, <2>4, <2>5 DEF GcOnce
<1>19. GcKept'
  <2>1. ASSUME NEW m \in 0 .. base + clock - 1
        PROVE  <<"node", m>> \in freed' \cup Gc!Waiting' \/ \E u \in Threads : Holds(u)' /\ loc'[u].todo = <<<<"node", m>>>>
    BY <1>2, <1>9, <1>11, <1>12 DEF GcKept
  <2>2. \A u \in Threads : Left(u)' =>
          <<"tx", u>> \in freed' \cup Gc!Waiting' \/ (Holds(u)' /\ loc'[u].todo = <<<<"tx", u>>>>)
    BY <1>2, <1>9, <1>11, <1>12 DEF GcKept
  <2>3. \A u \in Threads : at'[u] # "over"
    BY <1>0, <1>2, <1>9 DEF GcKept
  <2>4. QED
    BY <1>1, <2>1, <2>2, <2>3 DEF GcKept
<1>20. GcEpochs'
  <2>1. ~ StuckAt(at[t], loc[t], Mine(t))
    BY <1>0 DEF StuckAt
  <2>2. AllBy(Mine(t), clock)
    BY <1>0, <2>1, NotStuck
  <2>3. ASSUME NEW k \in DOMAIN ls PROVE ls[k].ts <= clock
    <3>1. k + n \in DOMAIN rs /\ ls[k] = rs[k + n]
      BY <1>6, <2>3
    <3>2. rs[k + n].ts <= clock
      BY <2>2, <3>1 DEF AllBy
    <3>3. QED
      BY <3>1, <3>2
  <2>a. AllBy(s, clock')
    BY <1>1, <1>7, <2>3 DEF AllBy
  <2>4. QED
    BY <1>0, <1>1, <1>2, <1>5, <2>a, EpochsStep
<1>21. QED
  BY <1>13, <1>14, <1>15, <1>16, <1>17, <1>18, <1>19, <1>20 DEF GcInv

-----------------------------------------------------------------------------
\* The roll-over and the end.  No region is left, and everything that waited is
\* freed.

Emptied ==
  /\ Gc!Slots' = Gc!Slots /\ Gc!Waiting' = {} /\ freed' = freed \cup Gc!Waiting
  /\ slots' \in [Gc!Slots -> SlotType]
  /\ \A i \in Gc!Slots : slots'[i].used = slots[i].used /\ slots'[i].regions = <<>>

\* Without regions nothing waits.
LEMMA NoRegions ==
  <<>> \in Seq(RegionType) /\ \A x : x \notin Gc!Blocks(<<>>)
<1>1. <<>> \in Seq(RegionType) /\ DOMAIN <<>> = {}
  OBVIOUS
<1>2. \A x : x \notin Gc!Blocks(<<>>)
  BY <1>1, BlocksAre
<1>3. QED
  BY <1>1, <1>2

\* A function that empties the regions of every slot.
LEMMA EmptiedIs ==
  ASSUME GcInv, NEW B \in SUBSET Gc!Slots, NEW ts \in [Gc!Slots -> Nat],
         slots' = [i \in Gc!Slots |-> IF i \notin B THEN slots[i]
                     ELSE [slots[i] EXCEPT !.ts = ts[i], !.regions = <<>>]],
         \A i \in Gc!Slots \ B : slots[i].regions = <<>>, freed' = freed \cup Gc!Waiting
  PROVE  Emptied /\ \A i \in B : slots'[i].ts = ts[i]
<1> DEFINE e == <<>>
<1>1. e \in Seq(RegionType) /\ \A x : x \notin Gc!Blocks(e)
  BY NoRegions
<1>2. ASSUME NEW i \in Gc!Slots
      PROVE  /\ slots'[i] \in SlotType /\ slots'[i].used = slots[i].used /\ slots'[i].regions = e
             /\ i \in B => slots'[i].ts = ts[i]
  <2>1. slots[i] \in SlotType
    BY DEF GcInv, GcTypes
  <2>2. CASE i \in B
    <3>1. slots'[i] = [slots[i] EXCEPT !.ts = ts[i], !.regions = e]
      BY <2>2
    <3> HIDE DEF e
    <3>2. QED
      BY <1>1, <2>1, <2>2, <3>1 DEF SlotType
  <2>3. CASE i \notin B
    BY <2>1, <2>3
  <2>4. QED
    BY <2>2, <2>3
<1>3. slots' \in [Gc!Slots -> SlotType]
  BY <1>2
<1>4. \A x : x \notin Gc!Waiting'
  BY <1>1, <1>2, WaitsIn
<1>5. Gc!Waiting' = {}
  BY <1>4
<1>6. QED
  BY <1>2, <1>3, <1>5, SlotFacts DEF Emptied

\* Equals less one are equal.
LEMMA LessOne ==
  ASSUME base \in Nat, clock \in Nat, base' \in Nat, clock' \in Nat, base' + clock' = base + clock
  PROVE  base' + clock' - 1 = base + clock - 1
<1>1. base' + clock' - 1 = (base' + clock') - 1 /\ base + clock - 1 = (base + clock) - 1
  OBVIOUS
<1>2. QED
  BY <1>1

\* What holds of the blocks and of the slots after it.
LEMMA EmptiedKeeps ==
  ASSUME GcInv, Emptied,
         \A u \in Threads : (Owns(u)' => Owns(u)) /\ loc'[u].i = loc[u].i /\ loc'[u].used = loc[u].used,
         \A u \in Threads : at'[u] \in Seeking => at'[u] = at[u],
         \A u \in Threads : Holds(u)' => Holds(u) /\ loc'[u].todo = loc[u].todo,
         \A u \in Threads : Holds(u) => Holds(u)',
         \A u \in Threads : Left(u)' <=> Left(u),
         base' + clock' = base + clock, base' \in Nat, clock' \in Nat,
         (\E u \in Threads : at'[u] = "over") => \A u \in Threads : at'[u] = "over"
  PROVE  GcOwners' /\ GcOnce' /\ GcKept'
<1>1. /\ GcOwners /\ GcOnce /\ GcKept
      /\ Gc!Slots' = Gc!Slots /\ Gc!Waiting' = {} /\ freed' = freed \cup Gc!Waiting
      /\ \A i \in Gc!Slots : slots'[i].used = slots[i].used /\ slots'[i].regions = <<>>
      /\ \A u \in Threads : loc[u].i \in Gc!Slots
      /\ base \in Nat /\ clock \in Nat
  BY OneThread DEF GcInv, GcTypes, Emptied
<1>2. \A u \in Threads : Mine(u)'.used = Mine(u).used
  BY <1>1 DEF Mine
<1>3. GcOwners'
  <2>1. \A u \in Threads : Owns(u)' => Mine(u)'.used = "BUSY"
    BY <1>1, <1>2 DEF GcOwners
  <2>2. \A u, v \in Threads : Owns(u)' /\ Owns(v)' /\ loc'[u].i = loc'[v].i => u = v
    BY <1>1 DEF GcOwners
  <2>3. \A u \in Threads : at'[u] \in {"init", "find", "cas"} => at'[u] = at[u]
    BY DEF Seeking
  <2>4. \A u \in Threads : at'[u] = "init" => loc'[u].i = 1
    BY <1>1, <2>3 DEF GcOwners
  <2>5. \A u \in Threads : at'[u] = "cas" =>
          loc'[u].used # "BUSY" /\ (loc'[u].used # "NULL" => Mine(u)'.used # "NULL")
    BY <1>1, <1>2, <2>3 DEF GcOwners
  <2>6. \A u \in Threads : at'[u] \in {"find", "cas"} =>
          \A j \in Gc!Slots : j < loc'[u].i => slots'[j].used # "NULL"
    BY <1>1, <2>3 DEF GcOwners
  <2>7. /\ \A i, j \in Gc!Slots : i < j /\ slots'[i].used = "NULL" => slots'[j].used = "NULL"
        /\ \A i \in Gc!Slots : slots'[i].used = "NULL" => slots'[i].regions = <<>>
    BY <1>1 DEF GcOwners
  <2>8. QED
    BY <1>1, <2>1, <2>2, <2>4, <2>5, <2>6, <2>7 DEF GcOwners
<1>4. GcOnce'
  <2>1. Gc!FreedOnce'
    <3>1. \A i \in Gc!Slots : DOMAIN slots'[i].regions = {}
      BY <1>1
    <3>2. \A i \in Gc!Slots : Distinct(slots'[i].regions)
      BY <3>1 DEF Distinct
    <3>3. \A i \in Gc!Slots : \A x : x \notin Gc!Blocks(slots'[i].regions)
      BY <3>1, BlocksAre
    <3>4. Gc!Waiting' \cap freed' = {}
      BY <1>1
    <3>5. QED
      BY <3>2, <3>3, <3>4, OnceNext
  <2>2. QED
    BY <1>1, <2>1 DEF GcOnce
<1>5. GcKept'
  <2>1. \A n \in 0 .. base + clock - 1 :
          <<"node", n>> \in freed' \/ \E t \in Threads : Holds(t)' /\ loc'[t].todo = <<<<"node", n>>>>
    BY ZenonT(40), <1>1 DEF GcKept
  <2>2. \A u \in Threads : Left(u)' => <<"tx", u>> \in freed' \/ (Holds(u)' /\ loc'[u].todo = <<<<"tx", u>>>>)
    BY <1>1 DEF GcKept
  <2>3. \A u \in Threads : at'[u] = "over" => \A v \in Threads : at'[v] = "over"
    OBVIOUS
  <2>4. base' + clock' - 1 = base + clock - 1
    <3>1. /\ base' \in Nat /\ clock' \in Nat /\ base \in Nat /\ clock \in Nat
          /\ base' + clock' = base + clock
      BY <1>1
    <3>2. QED
      BY <3>1, LessOne
  <2>5. QED
    BY <1>1, <2>1, <2>2, <2>3, <2>4 DEF GcKept
<1>6. QED
  BY <1>3, <1>4, <1>5

\* gc_reset() runs while no transaction does.
LEMMA RolloverKeeps ==
  ASSUME GcInv, Gc!Rollover
  PROVE  GcInv'
<1> DEFINE B == {i \in Gc!Slots : \A j \in 1 .. i : slots[j].used # "NULL"}
           ts == [i \in Gc!Slots |-> 99]
<1>1. /\ GcTypes /\ GcOwners /\ GcBounds /\ GcScans /\ GcTimes /\ GcOnce /\ GcKept /\ GcEpochs
      /\ clock \in Nat /\ base \in Nat
      /\ at \in [Threads -> Seeking \cup Owning \cup Gone] /\ loc \in [Threads -> LocalType]
  BY DEF GcInv, GcTypes
<1>2. /\ base' = base + clock /\ clock' = 0 /\ freed' = freed \cup Gc!Waiting
      /\ at' = [t \in Threads |-> IF at[t] = "barrier" THEN "start" ELSE at[t]]
      /\ loc' = [t \in Threads |-> [loc[t] EXCEPT !.late = at[t] = "bound"]]
      /\ \A t \in Threads : loc[t].reg => at[t] = "barrier"
      /\ \E t \in Threads : at[t] = "barrier"
  BY DEF Gc!Rollover, Gc!At, Gc!Registered
<1>3. base' + clock' = base + clock /\ base' \in Nat /\ clock' \in Nat
  BY <1>1, <1>2
<1>4. ASSUME NEW i \in Gc!Slots, slots[i].used # "NULL" PROVE i \in B
  <2>1. ASSUME NEW j \in 1 .. i PROVE slots[j].used # "NULL"
    <3>1. j \in Gc!Slots /\ (j = i \/ j < i)
      BY <1>4, <2>1, SlotFacts
    <3>2. QED
      BY <1>1, <1>4, <3>1 DEF GcOwners
  <2>2. QED
    BY <2>1
<1>5. \A i \in Gc!Slots \ B : slots[i].regions = <<>>
  BY <1>1, <1>4 DEF GcOwners
<1>6. slots' = [i \in Gc!Slots |-> IF i \notin B THEN slots[i]
                  ELSE [slots[i] EXCEPT !.ts = ts[i], !.regions = <<>>]]
  BY DEF Gc!Rollover
<1>7. ts \in [Gc!Slots -> Nat] /\ B \in SUBSET Gc!Slots /\ \A i \in Gc!Slots : ts[i] = 99
  OBVIOUS
<1> HIDE DEF B, ts
<1>8. Emptied /\ \A i \in B : slots'[i].ts = 99
  <2>1. Emptied /\ \A i \in B : slots'[i].ts = ts[i]
    BY <1>2, <1>5, <1>6, <1>7, EmptiedIs
  <2>2. QED
    BY SMTT(30), <1>7, <2>1
<1>9. ASSUME NEW u \in Threads
      PROVE  /\ at'[u] = (IF at[u] = "barrier" THEN "start" ELSE at[u])
             /\ loc'[u] \in LocalType
             /\ loc'[u].i = loc[u].i /\ loc'[u].used = loc[u].used /\ loc'[u].todo = loc[u].todo
             /\ loc'[u].reg = loc[u].reg /\ loc'[u].now = loc[u].now /\ loc'[u].scan = loc[u].scan
             /\ loc'[u].late = (at[u] = "bound")
  <2>1. loc[u] \in LocalType /\ loc'[u] = [loc[u] EXCEPT !.late = at[u] = "bound"]
    BY <1>1, <1>2
  <2>2. loc'[u].late = (at[u] = "bound")
    <3>1. loc'[u].late = [loc[u] EXCEPT !.late = at[u] = "bound"].late
      BY <2>1
    <3>2. QED
      BY <2>1, <3>1 DEF LocalType
  <2>3. QED
    BY <1>2, <2>1, <2>2 DEF LocalType
<1>10. ASSUME NEW u \in Threads
       PROVE  /\ TypesOf(at[u], loc[u]) /\ at[u] \in Seeking \cup Owning \cup Gone
              /\ loc[u].reg => at[u] = "barrier"
              /\ at[u] \in InTx => at[u] = "barrier"
              /\ at'[u] \in InTx => at'[u] = "start" /\ at[u] = "barrier"
              /\ Owns(u)' <=> Owns(u)
              /\ at[u] = "barrier" => loc[u].reg /\ Owns(u)
  <2>1. TypesOf(at[u], loc[u]) /\ at[u] \in Seeking \cup Owning \cup Gone /\ (loc[u].reg => at[u] = "barrier")
    BY <1>2, OneThread
  <2>2. at[u] \in InTx => at[u] = "barrier"
    BY <2>1 DEF TypesOf
  <2>3. at[u] = "barrier" => loc[u].reg /\ Owns(u)
    BY <2>1 DEF TypesOf, Owns, Owning, InTx
  <2>4. "start" \in Owning /\ "barrier" \in Owning /\ "start" \in InTx
    BY DEF Owning, InTx
  <2>5. Owns(u)' <=> Owns(u)
    BY <1>9, <2>4 DEF Owns
  <2>6. at'[u] \in InTx => at'[u] = "start" /\ at[u] = "barrier"
    BY <1>9, <2>2
  <2>7. QED
    BY <2>1, <2>2, <2>3, <2>5, <2>6
<1>11. ASSUME NEW u \in Threads
       PROVE  (Holds(u)' <=> Holds(u)) /\ (Left(u)' <=> Left(u))
  BY <1>9, <1>10 DEF Holds, Left, LeftAt, Freeing, Leaving, Gone
<1>12. GcTypes'
  <2>1. at' \in [Threads -> Seeking \cup Owning \cup Gone] /\ loc' \in [Threads -> LocalType]
    <3>1. "start" \in Owning
      BY DEF Owning, InTx
    <3>2. \A u \in Threads : at'[u] \in Seeking \cup Owning \cup Gone
      BY <1>9, <1>10, <3>1
    <3>3. QED
      BY <1>2, <1>9, <3>2
  <2>2. \A x \in freed' : x \in Blk
    BY <1>1, <1>2, WaitingBefore DEF GcTypes
  <2>3. ASSUME NEW u \in Threads PROVE TypesOf(at'[u], loc'[u])
    BY <1>9, <1>10 DEF TypesOf, InTx, Freeing
  <2>4. \A u \in Threads : TypesOf(at[u], loc[u])'
    BY <2>3 DEF TypesOf
  <2>5. QED
    BY <1>1, <1>2, <1>3, <1>8, <2>1, <2>2, <2>4 DEF GcTypes, Emptied
<1>13. \A u \in Threads : at'[u] = "over" <=> at[u] = "over"
  BY <1>9
<1>14. GcOwners' /\ GcOnce' /\ GcKept'
  <2>1. \A u \in Threads : at'[u] \in Seeking => at'[u] = at[u]
    BY <1>9 DEF Seeking
  <2>2. (\E u \in Threads : at'[u] = "over") => \A u \in Threads : at'[u] = "over"
    BY <1>1, <1>13 DEF GcKept
  <2>3. QED
    BY <1>3, <1>8, <1>9, <1>10, <1>11, <2>1, <2>2, EmptiedKeeps
<1>15. GcBounds'
  <2> SUFFICES ASSUME NEW u \in Threads PROVE BoundsOf(at'[u], loc'[u], Mine(u)'.ts, 0)
    BY <1>2 DEF GcBounds, BoundsOf
  <2>1. Owns(u) => Mine(u)'.ts = 99
    <3>1. Owns(u) => slots[loc[u].i].used = "BUSY" /\ loc[u].i \in Gc!Slots
      BY OneThread DEF Mine
    <3>2. Owns(u) => loc[u].i \in B
      BY <1>4, <3>1
    <3>3. QED
      BY <1>8, <1>9, <3>2 DEF Mine
  <2>2. CASE at'[u] \in InTx
    <3>1. at'[u] = "start" /\ Mine(u)'.ts = 99 /\ ~ loc'[u].late
      BY <1>9, <1>10, <2>1, <2>2
    <3>2. QED
      BY <3>1 DEF BoundsOf, Bound, Freeing
  <2>3. CASE at'[u] \in Freeing \cup {"idle"}
    <3>1. at[u] \in Freeing \cup {"idle"} /\ at'[u] = at[u] /\ ~ loc'[u].reg /\ Owns(u)
      BY <1>9, <1>10, <2>3 DEF Freeing, Owns, Owning, Entering
    <3>2. Mine(u)'.ts = 99
      BY <2>1, <3>1
    <3>3. QED
      BY <2>3, <3>1, <3>2 DEF BoundsOf, Bound, Freeing
  <2>4. CASE at'[u] = "bound"
    <3>1. loc'[u].late
      BY <1>9, <2>4
    <3>2. QED
      BY <2>4, <3>1 DEF BoundsOf, Freeing
  <2>5. CASE at'[u] \notin InTx \cup Freeing \cup {"idle", "bound"}
    BY <2>5 DEF BoundsOf, InTx, Freeing
  <2>6. QED
    BY <2>2, <2>3, <2>4, <2>5
<1>16. \A u \in Threads : Mine(u)'.regions = <<>> /\ ~ Gc!Running(u)'
  <2> TAKE u \in Threads
  <2>1. Mine(u)'.regions = <<>>
    <3>1. loc[u].i \in Gc!Slots
      BY OneThread
    <3>2. QED
      BY <1>8, <1>9, <3>1 DEF Emptied, Mine
  <2>2. ~ Gc!Running(u)'
    BY <1>10 DEF Gc!Running, Gc!At, InTx
  <2>3. QED
    BY <2>1, <2>2
<1>17. GcScans'
  <2> SUFFICES ASSUME NEW u \in Threads PROVE ScanOf(u, at[u], loc[u], Mine(u).regions)'
    BY DEF GcScans
  <2>1. ScanOf(u, at[u], loc[u], Mine(u).regions)
    BY OneThread
  <2>2. QED
    BY <1>9, <1>16, <2>1, SlotFacts DEF ScanOf, Scan
<1>18. GcTimes'
  <2>1. \A x \in freed' : Before(x, base + clock)
    BY <1>1, <1>2, WaitingBefore DEF GcTimes
  <2>2. ASSUME NEW u \in Threads, Holds(u)'
        PROVE  /\ loc'[u].todo[1][1] = "node" => loc'[u].reg
               /\ \A n : Before(loc'[u].todo[1], n)
    <3>1. Holds(u) /\ loc'[u].todo = loc[u].todo /\ loc'[u].reg = loc[u].reg
      BY <1>9, <1>11, <2>2
    <3>2. ~ loc[u].reg
      BY <1>10, <3>1 DEF Holds
    <3>3. loc[u].todo[1][1] # "node"
      BY <1>1, <3>1, <3>2 DEF GcTimes
    <3>4. QED
      BY <3>1, <3>3 DEF Before
  <2>3. base' + clock' = base + clock
    BY <1>3
  <2>4. \A i \in Gc!Slots : DOMAIN slots'[i].regions = {}
    BY <1>8 DEF Emptied
  <2>5. Gc!Slots' = Gc!Slots
    BY SlotFacts
  <2>6. QED
    BY <1>16, <2>1, <2>2, <2>3, <2>4, <2>5 DEF GcTimes
<1>19. GcEpochs'
  <2>1. \A i \in Gc!Slots : AllBy(slots'[i], clock')
    BY <1>8 DEF Emptied, AllBy
  <2>2. ASSUME NEW u \in Threads, at'[u] = "free" PROVE FreeOf(loc'[u], Mine(u)', clock')
    <3>1. at[u] = "free" /\ loc'[u].i = loc[u].i /\ loc'[u].reg = loc[u].reg
      BY <1>9, <2>2
    <3>2. ~ loc[u].reg
      BY <1>10, <3>1
    <3>3. Owns(u)
      BY <3>1 DEF Owns, Owning, Freeing
    <3>4. loc[u].i \in Gc!Slots /\ slots[loc[u].i].used = "BUSY"
      BY <3>3, OneThread DEF Mine
    <3>5. Mine(u)'.ts = 99 /\ Mine(u)'.regions = <<>>
      BY <1>4, <1>8, <3>1, <3>4 DEF Mine, Emptied
    <3>6. AllBy(Mine(u)', loc'[u].now)
      BY <3>5 DEF AllBy
    <3>7. QED
      BY <3>1, <3>2, <3>5, <3>6 DEF FreeOf
  <2>3. QED
    BY <2>1, <2>2, SlotFacts DEF GcEpochs
<1>20. QED
  BY <1>12, <1>14, <1>15, <1>17, <1>18, <1>19 DEF GcInv

\* gc_exit() runs when all threads have gone.
LEMMA ExitKeeps ==
  ASSUME GcInv, Gc!gc_exit
  PROVE  GcInv'
<1> DEFINE ts == [i \in Gc!Slots |-> slots[i].ts]
<1>1. /\ GcTypes /\ GcOwners /\ GcScans /\ GcTimes /\ GcOnce /\ GcKept /\ GcEpochs
      /\ clock \in Nat /\ base \in Nat
      /\ at \in [Threads -> Seeking \cup Owning \cup Gone] /\ loc \in [Threads -> LocalType]
  BY DEF GcInv, GcTypes
<1>2. /\ base' = base /\ clock' = clock /\ freed' = freed \cup Gc!Waiting
      /\ at' = [t \in Threads |-> "over"] /\ loc' = loc
      /\ \A t \in Threads : at[t] = "exited"
      /\ slots' = [i \in Gc!Slots |-> [slots[i] EXCEPT !.regions = <<>>]]
  BY DEF Gc!gc_exit, Gc!At
<1>3. base' + clock' = base + clock /\ base' \in Nat /\ clock' \in Nat
  BY <1>1, <1>2
<1>4. ts \in [Gc!Slots -> Nat] /\ \A i \in Gc!Slots : ts[i] = slots[i].ts /\ slots[i] \in SlotType
  BY <1>1 DEF GcTypes, SlotType
<1> HIDE DEF ts
<1>5. slots' = [i \in Gc!Slots |-> IF i \notin Gc!Slots THEN slots[i]
                  ELSE [slots[i] EXCEPT !.ts = ts[i], !.regions = <<>>]]
  <2> DEFINE e == <<>>
  <2>1. ASSUME NEW i \in Gc!Slots
        PROVE  [slots[i] EXCEPT !.regions = e] = [slots[i] EXCEPT !.ts = ts[i], !.regions = e]
    <3> HIDE DEF e
    <3>1. QED
      BY <1>4 DEF SlotType
  <2>2. QED
    BY <1>2, <2>1
<1>6. Emptied
  BY <1>2, <1>4, <1>5, EmptiedIs
<1>7. \A u \in Threads : /\ at'[u] = "over" /\ at[u] = "exited" /\ loc'[u] = loc[u]
                         /\ ~ Owns(u)' /\ ~ Holds(u)' /\ ~ Holds(u) /\ Left(u)' /\ Left(u)
                         /\ ~ Gc!Running(u)' /\ at'[u] \notin Seeking
  BY <1>2 DEF Owns, Holds, Left, LeftAt, Owning, Entering, InTx, Freeing, Leaving, Gone,
              Gc!Running, Gc!At, Seeking
<1>8. GcOwners' /\ GcOnce' /\ GcKept'
  BY <1>3, <1>6, <1>7, EmptiedKeeps
<1>9. GcTypes'
  <2>1. at' \in [Threads -> Seeking \cup Owning \cup Gone]
    BY <1>2 DEF Gone
  <2>2. \A x \in freed' : x \in Blk
    BY <1>1, <1>2, WaitingBefore DEF GcTypes
  <2>3. \A u \in Threads : TypesOf(at[u], loc[u])'
    <3>1. \A u \in Threads : TypesOf(at[u], loc[u])
      BY OneThread
    <3>2. QED
      BY <1>7, <3>1 DEF TypesOf, InTx, Freeing
  <2>4. QED
    BY <1>1, <1>2, <1>3, <1>6, <2>1, <2>2, <2>3 DEF GcTypes, Emptied
<1>10. GcBounds' /\ GcScans'
  BY <1>7, SlotFacts DEF GcBounds, GcScans, BoundsOf, ScanOf, Scan, Freeing
<1>11. \A i \in Gc!Slots : DOMAIN slots'[i].regions = {}
  BY <1>6 DEF Emptied
<1>12. GcTimes'
  <2>1. \A x \in freed' : Before(x, base' + clock')
    BY <1>1, <1>2, WaitingBefore DEF GcTimes
  <2>2. QED
    BY <1>7, <1>11, <2>1, SlotFacts DEF GcTimes
<1>13. GcEpochs'
  BY <1>7, <1>11, SlotFacts DEF GcEpochs, AllBy
<1>14. QED
  BY <1>8, <1>9, <1>10, <1>12, <1>13 DEF GcInv

-----------------------------------------------------------------------------
\* The invariant, and what it says.

\* In the initial states nobody has a slot and there is nothing to free.
LEMMA GcFirst ==
  ASSUME Gc!GcInit
  PROVE  GcInv
<1>1. /\ slots = [i \in Gc!Slots |-> [used |-> "NULL", ts |-> 99, regions |-> <<>>]]
      /\ clock = 0 /\ base = 0 /\ freed = {}
      /\ at = [t \in Threads |-> "init"] /\ loc = [t \in Threads |-> Gc!NoLocals]
  BY DEF Gc!GcInit
<1>2. \A t \in Threads : 1 \in Gc!Slots
  BY GcAssumption, SlotFacts
<1>3. \A t \in Threads : /\ at[t] = "init" /\ loc[t] \in LocalType
                         /\ loc[t].i = 1 /\ loc[t].todo = <<>> /\ loc[t].reg = FALSE
  <2> DEFINE e == <<>>
  <2>1. e \in Seq(Blk)
    OBVIOUS
  <2>2. \A t \in Threads : loc[t] = [i |-> 1, used |-> "NULL", start |-> 0, now |-> 0, scan |-> 1,
                                  min |-> 0, todo |-> e, reg |-> FALSE, late |-> FALSE, since |-> 0]
    BY <1>1 DEF Gc!NoLocals
  <2>3. ASSUME NEW t \in Threads
        PROVE  loc[t] \in LocalType /\ loc[t].i = 1 /\ loc[t].todo = e /\ loc[t].reg = FALSE
    <3> HIDE DEF e
    <3>1. loc[t] = [i |-> 1, used |-> "NULL", start |-> 0, now |-> 0, scan |-> 1,
                    min |-> 0, todo |-> e, reg |-> FALSE, late |-> FALSE, since |-> 0]
      BY <2>2, <2>3
    <3>2. 1 \in Gc!Slots /\ "NULL" \in Uses
      BY <1>2, <2>3 DEF Uses
    <3>3. loc[t] \in LocalType
      BY <2>1, <3>1, <3>2 DEF LocalType
    <3>4. QED
      BY <3>1, <3>3
  <2>4. QED
    BY <1>1, <2>3
<1>4. \A i \in Gc!Slots : slots[i] \in SlotType /\ slots[i].used = "NULL" /\ slots[i].regions = <<>>
  <2> DEFINE e == <<>>
  <2>1. e \in Seq(RegionType)
    OBVIOUS
  <2>2. \A i \in Gc!Slots : slots[i] = [used |-> "NULL", ts |-> 99, regions |-> e]
    BY <1>1
  <2>3. \A i \in Gc!Slots : slots[i] \in SlotType /\ slots[i].used = "NULL" /\ slots[i].regions = e
    <3> HIDE DEF e
    <3>1. QED
      BY <2>1, <2>2 DEF SlotType, Uses
  <2>4. QED
    BY <2>3
<1>5. \A t \in Threads : /\ ~ Owns(t) /\ ~ Holds(t) /\ ~ Left(t) /\ ~ Gc!Running(t)
                         /\ at[t] \notin InTx \cup Freeing \cup Scan \cup {"bound", "idle", "cas", "find", "free", "over"}
  BY <1>3 DEF Owns, Holds, Left, LeftAt, Gc!Running, Gc!At, Owning, Entering, InTx, Freeing, Leaving, Gone, Scan
<1>6. \A i \in Gc!Slots : DOMAIN slots[i].regions = {}
  BY <1>4
<1>7. Gc!Waiting = {}
  BY <1>6, WaitingIs
<1>8. GcTypes
  <2>1. at \in [Threads -> Seeking \cup Owning \cup Gone]
    BY <1>1 DEF Seeking
  <2>2. loc \in [Threads -> LocalType]
    BY <1>1, <1>3
  <2>3. slots \in [Gc!Slots -> SlotType]
    BY <1>1, <1>4
  <2>4. \A t \in Threads : TypesOf(at[t], loc[t])
    BY <1>3, <1>5 DEF TypesOf
  <2>5. QED
    BY <1>1, <2>1, <2>2, <2>3, <2>4 DEF GcTypes
<1>9. GcOwners
  BY <1>3, <1>4, <1>5 DEF GcOwners
<1>10. GcBounds /\ GcScans
  BY <1>5 DEF GcBounds, GcScans, BoundsOf, ScanOf, InTx, Freeing, Scan
<1>11. GcTimes
  BY <1>1, <1>5, <1>6 DEF GcTimes
<1>12. GcOnce
  BY <1>1, <1>5, <1>6, <1>7 DEF GcOnce, Gc!FreedOnce
<1>13. GcKept
  <2>1. 0 .. base + clock - 1 = {}
    BY <1>1
  <2>2. QED
    BY <1>5, <2>1 DEF GcKept
<1>14. GcEpochs
  BY <1>5, <1>6 DEF GcEpochs, AllBy
<1>15. QED
  BY <1>8, <1>9, <1>10, <1>11, <1>12, <1>13, <1>14 DEF GcInv

\* Every step of a thread keeps the invariant.
LEMMA GcStepKeeps ==
  ASSUME GcInv, NEW t \in Threads, Gc!GcStep(t) \/ Gc!Restart(t)
  PROVE  GcInv'
<1>1. CASE Gc!CommitRead(t) \/ Gc!Restart(t)
  <2>1. CASE Gc!CommitRead(t)
    <3>1. /\ at[t] = "run" /\ Gc!Goto(t, "entered") /\ Gc!Locals(t, Gc!Ended(t))
          /\ UNCHANGED <<slots, clock, limit, base, freed>>
      BY <2>1 DEF Gc!CommitRead, Gc!At
    <3>2. QED
      BY <3>1, EndKeeps
  <2>2. CASE Gc!Restart(t)
    <3>1. /\ at[t] = "run" /\ Gc!Goto(t, "start") /\ Gc!Locals(t, Gc!Ended(t))
          /\ UNCHANGED <<slots, clock, limit, base, freed>>
      BY <2>2 DEF Gc!Restart, Gc!At
    <3>2. QED
      BY <3>1, EndKeeps
  <2>3. QED
    BY <1>1, <2>1, <2>2
<1>2. CASE Gc!GcStep(t) /\ ~ Gc!CommitRead(t)
  BY <1>2, CountThreadKeeps, LoadUsedKeeps, ClaimSlotKeeps, ReadEpochKeeps, SetLowerBoundKeeps,
     EnterKeeps, StartKeeps, SetEpochKeeps, CommitFreeKeeps, LeaveKeeps, ReadClockKeeps,
     FreeKeeps, CleanupKeeps, ScanUsedKeeps, ScanTsKeeps, CollectKeeps, ClearTsKeeps,
     ReleaseSlotKeeps, UncountThreadKeeps
  DEF Gc!GcStep
<1>3. QED
  BY <1>1, <1>2

\* The collector in the composition.
GcPart == part \in {"gc", "reset"} => GcInv

\* Every step of the composition does.
LEMMA GcPartKeeps ==
  ASSUME GcPart, MCNext \/ UNCHANGED mcvars
  PROVE  GcPart'
<1> SUFFICES ASSUME part' \in {"gc", "reset"} PROVE GcInv'
  BY DEF GcPart
<1>1. part' = part
  BY DEF MCNext, MCStep, MCRestart, MCGc, MCCall, mcvars
<1>a. part \in {"gc", "reset"} /\ GcInv
  BY <1>1 DEF GcPart
<1>2. ASSUME NEW t \in Threads, Gc!GcStep(t) \/ Gc!Restart(t) PROVE GcInv'
  BY <1>a, <1>2, GcStepKeeps
<1>3. ASSUME Gc!Rollover \/ Gc!gc_exit PROVE GcInv'
  BY <1>a, <1>3, RolloverKeeps, ExitKeeps
<1>4. CASE UNCHANGED mcvars
  <2>1. UNCHANGED <<slots, clock, limit, at, loc, base, freed>>
    BY <1>4 DEF mcvars, gconly
  <2>2. Gc!Waiting' = Gc!Waiting /\ Gc!Slots' = Gc!Slots /\ (Gc!FreedOnce => Gc!FreedOnce')
        /\ \A u : Gc!Running(u)' <=> Gc!Running(u)
    BY <2>1, SlotFacts DEF Gc!Waiting, Gc!FreedOnce, Gc!Running, Gc!At
  <2>3. GcTypes' /\ GcOwners'
    BY <1>a, <2>1, <2>2 DEF GcInv, GcTypes, GcOwners, Owns, Mine
  <2>4. GcBounds' /\ GcScans'
    BY <1>a, <2>1, <2>2 DEF GcInv, GcBounds, GcScans, BoundsOf, ScanOf, Passed, Mine
  <2>5. GcTimes' /\ GcEpochs'
    BY <1>a, <2>1, <2>2 DEF GcInv, GcTimes, GcEpochs, Holds, Mine
  <2>6. GcOnce' /\ GcKept'
    BY <1>a, <2>1, <2>2 DEF GcInv, GcOnce, GcKept, Holds, Left
  <2>7. QED
    BY <2>3, <2>4, <2>5, <2>6 DEF GcInv
<1>5. CASE \E t \in Threads : MCStep(t) \/ MCRestart(t)
  BY <1>a, <1>2, <1>5 DEF MCStep, MCRestart
<1>6. CASE MCGc
  BY <1>3, <1>6 DEF MCGc
<1>7. CASE MCCall
  BY <1>a, <1>2, <1>3, <1>7 DEF MCCall, Gc!GcNext
<1>8. QED
  BY <1>4, <1>5, <1>6, <1>7 DEF MCNext

\* The invariant says that the collector is safe.
LEMMA GcSafe ==
  ASSUME GcInv
  PROVE  /\ Gc!FreedIsUnreachable /\ Gc!FreedOnce /\ Gc!NothingLeaks
         /\ Gc!EpochsIncrease
<1>1. Gc!FreedIsUnreachable
  BY DEF GcInv, GcTimes, Before, Gc!FreedIsUnreachable
<1>2. Gc!FreedOnce
  BY DEF GcInv, GcOnce
<1>3. Gc!NothingLeaks
  <2> SUFFICES ASSUME \A t \in Threads : at[t] = "over"
               PROVE  /\ {<<"node", n>> : n \in 0 .. base + clock - 1} \subseteq freed
                      /\ \A t \in Threads, k \in DOMAIN <<"tx">> : <<<<"tx">>[k], t>> \in freed
    BY DEF Gc!NothingLeaks, Gc!GcOver, Gc!At, Gc!Node
  <2>1. Gc!Waiting = {}
    BY GcAssumption DEF GcInv, GcKept
  <2>2. \A t \in Threads : ~ Holds(t) /\ Left(t)
    BY DEF Holds, Left, LeftAt, Gone
  <2>3. \A n \in 0 .. base + clock - 1 : <<"node", n>> \in freed
    BY <2>1, <2>2 DEF GcInv, GcKept
  <2>4. \A t \in Threads : <<"tx", t>> \in freed
    BY <2>1, <2>2 DEF GcInv, GcKept
  <2>5. \A k \in DOMAIN <<"tx">> : <<"tx">>[k] = "tx"
    OBVIOUS
  <2>6. QED
    BY <2>3, <2>4, <2>5
<1>4. Gc!EpochsIncrease
  <2> SUFFICES ASSUME NEW t \in Threads, at[t] = "free", Mine(t).regions # <<>>
               PROVE  Mine(t).regions[Len(Mine(t).regions)].ts <= loc[t].now
    BY DEF Gc!EpochsIncrease, Gc!At, Gc!Slot, Mine
  <2>1. Mine(t).regions \in Seq(RegionType)
    BY OneThread DEF SlotType
  <2>2. Len(Mine(t).regions) \in DOMAIN Mine(t).regions
    BY <2>1, LenProperties
  <2>3. QED
    BY <2>2 DEF GcInv, GcEpochs, FreeOf, AllBy
<1>5. QED
  BY <1>1, <1>2, <1>3, <1>4

\* gc.c: no block is freed while a transaction may use it, or twice, or never.
THEOREM MemoryIsReclaimed == MCSpec => []GcIsSafe
<1>1. MCInit => GcPart
  BY GcFirst, GcAssumption DEF MCInit, GcPart, GcParts
<1>2. GcPart /\ [MCNext]_mcvars => GcPart'
  BY GcPartKeeps
<1>3. GcPart => GcIsSafe
  BY GcSafe DEF GcPart, GcIsSafe, GcParts
<1>4. QED
  BY <1>1, <1>2, <1>3, PTL DEF MCSpec
=============================================================================
