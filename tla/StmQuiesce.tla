----------------------------- MODULE StmQuiesce -----------------------------
(***************************************************************************)
(* Quiescence in TinySTM (transactional/tinySTM/src/stm_internal.h): how   *)
(* the threads stop for the roll-over of the clock (stm_quiesce_barrier()) *)
(* and for a transaction in serial irrevocable mode (stm_quiesce()), over  *)
(* the memory of module TSO.  A thread registers, runs its transactions,   *)
(* of which only the kind matters here, and exits.  A "plain" transaction  *)
(* takes a timestamp; a "serial" one asks for serial irrevocability before *)
(* it starts, a "late" one while it runs.                                  *)
(***************************************************************************)
EXTENDS TSO, FiniteSets

LOCAL INSTANCE SequencesExt

CONSTANTS
  NoThread,
  Scripts,      \* sequences of kinds of transactions, one script a thread
  ClockMax      \* VERSION_MAX

VARIABLES
  script,       \* the transactions that each thread still has to run
  pc,           \* pc[t]: the next step of t
  mutex,        \* quiesce_mutex: its owner
  waiting,      \* the threads inside pthread_cond_wait(&quiesce_cond)
  threads,      \* the list of descriptors, newest first
  threads_nb,   \* threads that the barrier waits for
  todo,         \* todo[t]: the descriptors that stm_quiesce() still has to see
  want,         \* want[t]: tx->irrevocable: 0 none, 1 wanted, 2 lock, 3 serial
  time          \* CLOCK

qvars == <<script, pc, mutex, waiting, threads, threads_nb, todo, want, time>>
quiescevars == <<memvars, qvars>>

Quiesce == <<"quiesce", NoThread>>    \* _tinystm.quiesce
Irrev == <<"irrevocable", NoThread>>  \* _tinystm.irrevocable
Status(t) == <<"status", t>>          \* tx->status, as IS_ACTIVE() sees it

QuiesceInit ==
  /\ MemInit([x \in {Quiesce, Irrev} \cup {Status(t) : t \in Threads} |->
                IF x \in {Quiesce, Irrev} THEN 0 ELSE FALSE])
  /\ script \in [Threads -> Scripts]
  /\ pc = [t \in Threads |-> "init"]
  /\ mutex = NoThread /\ waiting = {}
  /\ threads = <<>> /\ threads_nb = 0
  /\ todo = [t \in Threads |-> <<>>]
  /\ want = [t \in Threads |-> 0]
  /\ time = 0

At(t, l) == pc[t] = l
Goto(t, l) == pc' = [pc EXCEPT ![t] = l]
Want(t, n) == want' = [want EXCEPT ![t] = n]
Others == <<script, mutex, waiting, threads, threads_nb, todo, want, time>>

\* stm_quiesce_enter_thread()
EnterThread(t) ==
  /\ At(t, "init") /\ mutex = NoThread /\ Drained(t)
  /\ threads' = <<t>> \o threads
  /\ threads_nb' = threads_nb + 1
  /\ Goto(t, "idle")
  /\ UNCHANGED <<memvars, script, mutex, waiting, todo, want, time>>

\* stm_quiesce_exit_thread(): the condition is signalled if quiesce is set.
ExitThread(t) ==
  /\ At(t, "idle") /\ script[t] = <<>> /\ mutex = NoThread /\ Drained(t)
  /\ threads' = SelectSeq(threads, LAMBDA u : u # t)
  /\ threads_nb' = threads_nb - 1
  /\ IF mem[Quiesce] # 0 /\ waiting # {}
       THEN \E u \in waiting : /\ waiting' = waiting \ {u}
                               /\ pc' = [pc EXCEPT ![t] = "exited", ![u] = "woken"]
       ELSE Goto(t, "exited") /\ UNCHANGED waiting
  /\ UNCHANGED <<memvars, script, mutex, todo, want, time>>

\* stm_set_irrevocable() outside of a transaction, then the start.
Begin(t) ==
  /\ At(t, "idle") /\ script[t] # <<>>
  /\ IF Head(script[t]) = "serial" THEN Want(t, 1) ELSE UNCHANGED want
  /\ Goto(t, "prepare")
  /\ UNCHANGED <<memvars, script, mutex, waiting, threads, threads_nb, todo, time>>

\* int_stm_prepare(): the reading of the clock.
Prepare(t) ==
  /\ At(t, "prepare")
  /\ Goto(t, IF time >= ClockMax THEN "barrier"
             ELSE IF want[t] = 0 THEN "activate"
             ELSE IF want[t] = 1 THEN "spin" ELSE "quiesce")
  /\ UNCHANGED <<memvars, Others>>

-----------------------------------------------------------------------------
\* stm_quiesce_barrier()
\* Mutant: the clock is reset with one thread missing.
BarrierLoopEarly(t, nb, q) ==
  \/ /\ q # 0 /\ nb <= 1
     /\ time' = 0
     /\ mem' = [mem EXCEPT ![Quiesce] = 0]
     /\ pc' = [u \in Threads |-> IF u = t THEN "prepare"
                                 ELSE IF u \in waiting THEN "woken" ELSE pc[u]]
     /\ waiting' = {} /\ threads_nb' = nb + 1
  \/ /\ q # 0 /\ nb > 1
     /\ mem' = [mem EXCEPT ![Quiesce] = q]
     /\ Goto(t, "asleep") /\ waiting' = waiting \cup {t}
     /\ threads_nb' = nb /\ UNCHANGED time
  \/ /\ q = 0
     /\ Goto(t, "prepare") /\ threads_nb' = nb + 1
     /\ UNCHANGED <<mem, waiting, time>>

\* The loop under the mutex, q being the value of quiesce: the last thread
\* resets the clock and wakes the others.
BarrierLoop(t, nb, q) ==
  \/ /\ q # 0 /\ nb = 0
     /\ time' = 0
     /\ mem' = [mem EXCEPT ![Quiesce] = 0]
     /\ pc' = [u \in Threads |-> IF u = t THEN "prepare"
                                 ELSE IF u \in waiting THEN "woken" ELSE pc[u]]
     /\ waiting' = {} /\ threads_nb' = 1
  \/ /\ q # 0 /\ nb > 0
     /\ mem' = [mem EXCEPT ![Quiesce] = q]
     /\ Goto(t, "asleep") /\ waiting' = waiting \cup {t}
     /\ threads_nb' = nb /\ UNCHANGED time
  \/ /\ q = 0
     /\ Goto(t, "prepare") /\ threads_nb' = nb + 1
     /\ UNCHANGED <<mem, waiting, time>>

EnterBarrier(t) ==
  /\ At(t, "barrier") /\ mutex = NoThread /\ Drained(t)
  /\ BarrierLoop(t, threads_nb - 1, IF mem[Quiesce] = 0 THEN 1 ELSE mem[Quiesce])
  /\ UNCHANGED <<buf, script, mutex, threads, todo, want>>

\* A signalled thread takes the mutex again.
LeaveWait(t) ==
  /\ At(t, "woken") /\ mutex = NoThread /\ Drained(t)
  /\ BarrierLoop(t, threads_nb, mem[Quiesce])
  /\ UNCHANGED <<buf, script, mutex, threads, todo, want>>

-----------------------------------------------------------------------------
\* A transaction that is not serial.

\* UPDATE_STATUS(tx->status, TX_ACTIVE)
Activate(t) == /\ At(t, "activate") /\ Write(t, Status(t), TRUE) /\ Goto(t, "check")
               /\ UNCHANGED Others

\* stm_check_quiesce(): the load of quiesce.
CheckQuiesce(t) ==
  /\ At(t, "check")
  /\ Goto(t, IF Read(t, Quiesce) = 2 THEN "deactivate" ELSE "run")
  /\ UNCHANGED <<memvars, Others>>

Deactivate(t) == /\ At(t, "deactivate") /\ Write(t, Status(t), FALSE)
                 /\ Goto(t, "loop") /\ UNCHANGED Others

AwaitRelease(t) == /\ At(t, "loop") /\ Read(t, Quiesce) # 2
                   /\ Goto(t, "reactivate") /\ UNCHANGED <<memvars, Others>>

Reactivate(t) == /\ At(t, "reactivate") /\ Write(t, Status(t), TRUE)
                 /\ Goto(t, "run") /\ UNCHANGED Others

\* The commit takes a timestamp.
TakeTime(t) ==
  /\ At(t, "run") /\ Head(script[t]) = "plain" /\ Drained(t)
  /\ time' = time + 1 /\ Goto(t, "commit")
  /\ UNCHANGED <<memvars, script, mutex, waiting, threads, threads_nb, todo, want>>

\* SET_STATUS(tx->status, TX_COMMITTED)
Committed(t) ==
  /\ At(t, "commit") /\ Write(t, Status(t), FALSE)
  /\ script' = [script EXCEPT ![t] = Tail(@)]
  /\ Goto(t, "idle")
  /\ UNCHANGED <<mutex, waiting, threads, threads_nb, todo, want, time>>

-----------------------------------------------------------------------------
\* Serial irrevocability: int_stm_set_irrevocable(tx, 1)

\* The request of a running transaction: one try for the global lock.
Request(t) ==
  /\ At(t, "run") /\ Head(script[t]) = "late" /\ Drained(t)
  /\ IF mem[Irrev] = 0
       THEN mem' = [mem EXCEPT ![Irrev] = 1] /\ Want(t, 2) /\ Goto(t, "try")
       ELSE UNCHANGED mem /\ Want(t, 1) /\ Goto(t, "rollback")
  /\ UNCHANGED <<buf, script, mutex, waiting, threads, threads_nb, todo, time>>

\* stm_rollback(): SET_STATUS(tx->status, TX_ABORTED), then the restart.
Rollback(t) == /\ At(t, "rollback") /\ Write(t, Status(t), FALSE)
               /\ Goto(t, "prepare") /\ UNCHANGED Others

\* After a restart: spin for the global lock.
SpinIrrevocable(t) ==
  /\ At(t, "spin") /\ mem[Irrev] = 0 /\ Update(t, Irrev, 1)
  /\ Want(t, 2) /\ Goto(t, "quiesce")
  /\ UNCHANGED <<script, mutex, waiting, threads, threads_nb, todo, time>>

\* stm_quiesce(): an active transaction only tries the mutex, an inactive one
\* waits for it.
LockQuiesce(t) ==
  /\ At(t, "try") \/ (At(t, "quiesce") /\ mutex = NoThread)
  /\ Drained(t)
  /\ IF mutex = NoThread THEN mutex' = t /\ Goto(t, "block")
                         ELSE UNCHANGED mutex /\ Goto(t, "rollback")
  /\ UNCHANGED <<memvars, script, waiting, threads, threads_nb, todo, want, time>>

Block(t) == /\ At(t, "block") /\ Write(t, Quiesce, 2) /\ Goto(t, "fence")
            /\ UNCHANGED Others

Fence(t) == /\ At(t, "fence") /\ Drained(t)
            /\ todo' = [todo EXCEPT ![t] = SelectSeq(threads, LAMBDA u : u # t)]
            /\ Goto(t, "scan")
            /\ UNCHANGED <<memvars, script, mutex, waiting, threads, threads_nb, want, time>>
\* Mutant: nobody is waited for.
ScanPast(t) ==
  /\ At(t, "scan") /\ todo[t] # <<>>
  /\ todo' = [todo EXCEPT ![t] = Tail(@)]
  /\ UNCHANGED <<memvars, script, pc, mutex, waiting, threads, threads_nb, want, time>>

\* The other transactions, one after the other, must be inactive.
Scan(t) ==
  /\ At(t, "scan") /\ todo[t] # <<>> /\ ~ Read(t, Status(Head(todo[t])))
  /\ todo' = [todo EXCEPT ![t] = Tail(@)]
  /\ UNCHANGED <<memvars, script, pc, mutex, waiting, threads, threads_nb, want, time>>

\* UPDATE_STATUS(tx->status, TX_IRREVOCABLE); stm_check_quiesce() lets it run.
BecomeSerial(t) ==
  /\ At(t, "scan") /\ todo[t] = <<>>
  /\ Write(t, Status(t), TRUE) /\ Want(t, 3) /\ Goto(t, "serial")
  /\ UNCHANGED <<script, mutex, waiting, threads, threads_nb, todo, time>>

\* The end of int_stm_commit(): the global lock, stm_quiesce_release(), and the
\* status.
ReleaseIrrevocable(t) == /\ At(t, "serial") /\ Write(t, Irrev, 0)
                         /\ Goto(t, "release") /\ UNCHANGED Others

QuiesceRelease(t) == /\ At(t, "release") /\ Write(t, Quiesce, 0)
                     /\ Goto(t, "unlock") /\ UNCHANGED Others

Unlock(t) == /\ At(t, "unlock") /\ Drained(t)
             /\ mutex' = NoThread /\ Want(t, 0) /\ Goto(t, "commit")
             /\ UNCHANGED <<memvars, script, waiting, threads, threads_nb, todo, time>>

-----------------------------------------------------------------------------

QuiesceStep(t) ==
  \/ EnterThread(t) \/ ExitThread(t) \/ Begin(t) \/ Prepare(t) \/ EnterBarrier(t)
  \/ LeaveWait(t) \/ Activate(t) \/ CheckQuiesce(t) \/ Deactivate(t)
  \/ AwaitRelease(t) \/ Reactivate(t) \/ TakeTime(t) \/ Committed(t) \/ Request(t)
  \/ Rollback(t) \/ SpinIrrevocable(t) \/ LockQuiesce(t) \/ Block(t) \/ Fence(t)
  \/ Scan(t) \/ BecomeSerial(t) \/ ReleaseIrrevocable(t) \/ QuiesceRelease(t)
  \/ Unlock(t)

QuiesceDrain(t) == Flush(t) /\ UNCHANGED qvars

AllExited == \A t \in Threads : At(t, "exited") /\ Drained(t)

QuiesceNext == \/ \E t \in Threads : QuiesceStep(t) \/ QuiesceDrain(t)
               \/ AllExited /\ UNCHANGED quiescevars

\* Processors execute instructions and drain store buffers.  A thread that
\* waits for the mutex or for the global lock gets it in the end: the other
\* threads take it a bounded number of times.
QuiesceSpec ==
  /\ QuiesceInit /\ [][QuiesceNext]_quiescevars
  /\ \A t \in Threads : /\ WF_quiescevars(QuiesceStep(t))
                        /\ WF_quiescevars(QuiesceDrain(t))

-----------------------------------------------------------------------------

\* "Serial irrevocable mode: we are executing alone" (stm_check_quiesce()).
SerialRunsAlone ==
  \A t, u \in Threads : At(t, "serial") /\ pc[u] \in {"run", "serial", "try"} => t = u

\* The clock is reset while no transaction is running, and no thread misses it:
\* a thread that sleeps at the barrier is waited for by those still to come.
ResetStep == time' < time => \A t \in Threads : pc[t] \notin {"run", "check", "commit"}
RolloverWhileIdle == [][ResetStep]_quiescevars

\* The barrier's counter is the number of registered threads not waiting in it.
ThreadsCounted ==
  threads_nb + Cardinality({t \in Threads : pc[t] \in {"asleep", "woken"}}) = Len(threads)

\* Every thread runs its transactions and exits.
EveryThreadExits == <>AllExited
=============================================================================
