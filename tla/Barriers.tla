------------------------------ MODULE Barriers ------------------------------
(***************************************************************************)
(* The ten barrier programs.  run() calls barrier() PHASES + 1 times, with *)
(* a random sleep before most of the calls, and main joins the threads.    *)
(* The initial state chooses the program:                                  *)
(*                                                                         *)
(*   "futex"      futex/barrier.c, Drepper's barrier.  Its lock is the     *)
(*                mutex of module DrepperMutex, which is proved to         *)
(*                exclude: here it is one Boolean.  The fields it protects *)
(*                change in one step with it; phase is also read outside.  *)
(*   "semaphore"  semaphores/barrier.c, barrier.py and Barrier.java.       *)
(*                counter changes under a mutex, in one step; the tests of *)
(*                counter that follow are made outside it.                 *)
(*   "monitor"    monitors/barrier.c, barrier.py and Barrier.java.  The    *)
(*                wait is not in a loop.  pthread_cond_wait() and          *)
(*                Object.wait() may return without a signal, the wait() of *)
(*                Python's Condition does not.                             *)
(*   "channel"    channels/barrier.go, two channels with room for a value. *)
(*   "async"      channels/barrier_2p_async.go, goroutines A and B.        *)
(*   "sync"       channels/barrier_2p_sync.go, the same on unbuffered      *)
(*                channels, where a send and its receive are one step.     *)
(*                                                                         *)
(* A plain store is always followed by a system call or a locked           *)
(* instruction before the thread reads anything, so the memory is          *)
(* sequentially consistent.                                                *)
(***************************************************************************)
EXTENDS Naturals, FiniteSets

CONSTANTS
  Threads,
  Rounds,      \* the calls of barrier() of each thread
  A, B,        \* the goroutines of the programs for two
  Meetings,    \* the programs that may run
  Spurious     \* the monitor: TRUE in C and Java, FALSE in Python

VARIABLES
  meeting,     \* the program that runs
  pc,          \* pc[t]: where thread t is
  round,       \* round[t]: the calls t has returned from
  shared,      \* the fields or variables of the barrier, a record
  local        \* local[t]: `phase` of barrier_wait(), `v` of Barrier()

vars == <<meeting, pc, round, shared, local>>

NumThreads == Cardinality(Threads)

\* The threads of the program that runs.
Members == DOMAIN pc

\* The value of a channel that holds none.
Empty == 0

\* The fields of each program, as its declarations and main leave them.
SharedInit ==
  [futex     |-> [lock |-> FALSE, phase |-> 0, to_arrive |-> NumThreads],
   semaphore |-> [arrival |-> 1, departure |-> 0, counter |-> 0],
   monitor   |-> [mutex |-> FALSE, arrived |-> 0],
   channel   |-> [arrival |-> NumThreads, departure |-> Empty],
   async     |-> [t \in {A, B} |-> Empty],
   sync      |-> [t \in {A, B} |-> Empty]]

Init == /\ meeting \in Meetings
        /\ pc = [t \in IF meeting \in {"async", "sync"} THEN {A, B}
                                                        ELSE Threads |-> "begin"]
        /\ round = [t \in Members |-> 0]
        /\ shared = SharedInit[meeting]
        /\ local = [t \in Members |-> 0]

At(t, program, label) == meeting = program /\ pc[t] = label

Goto(t, label) == /\ pc' = [pc EXCEPT ![t] = label]
                  /\ UNCHANGED round

After(t) == IF round[t] + 1 = Rounds THEN "done" ELSE "begin"

\* The return of barrier().
Return(t) == /\ round' = [round EXCEPT ![t] = @ + 1]
             /\ pc' = [pc EXCEPT ![t] = After(t)]

\* t goes on at a label, and the threads that sleep at another one.
WakeAndGoto(t, label, woken) ==
  /\ pc' = [s \in Members |-> IF s = t THEN label
                           ELSE IF pc[s] = "asleep" THEN woken ELSE pc[s]]
  /\ UNCHANGED round

-----------------------------------------------------------------------------
(* futex/barrier.c                                                         *)

\* _barrier_lock(), to_arrive--, its test and, if it is not 0, the read of phase.
Arrive(t) ==
  /\ At(t, "futex", "begin")
  /\ ~ shared.lock
  /\ shared' = [shared EXCEPT !.lock = TRUE, !.to_arrive = @ - 1]
  /\ IF shared'.to_arrive > 0
       THEN local' = [local EXCEPT ![t] = shared.phase] /\ Goto(t, "unlock")
       ELSE UNCHANGED local /\ Goto(t, "last")

\* _barrier_unlock() of a thread that has to wait.
UnlockToWait(t) == /\ At(t, "futex", "unlock")
                   /\ shared' = [shared EXCEPT !.lock = FALSE]
                   /\ Goto(t, "wait")
                   /\ UNCHANGED local

\* FUTEX_WAIT: sleeps if phase is still the one read.
FutexWait(t) == /\ At(t, "futex", "wait")
                /\ Goto(t, IF shared.phase = local[t] THEN "asleep" ELSE "test")
                /\ UNCHANGED <<shared, local>>

\* Mutant: whatever wakes the thread up lets it through.
TestPhaseNever(t) == /\ At(t, "futex", "test")
                     /\ Return(t)
                     /\ UNCHANGED <<shared, local>>

\* while (barrier->phase == phase)
TestPhase(t) == /\ At(t, "futex", "test")
                /\ IF shared.phase = local[t] THEN Goto(t, "wait") ELSE Return(t)
                /\ UNCHANGED <<shared, local>>

\* The last thread: phase++ and to_arrive = processes.
NewPhase(t) ==
  /\ At(t, "futex", "last")
  /\ shared' = [shared EXCEPT !.phase = @ + 1, !.to_arrive = NumThreads]
  /\ Goto(t, "wake")
  /\ UNCHANGED local

\* Mutant: FUTEX_WAKE of one thread.
WakeOne(t) ==
  /\ At(t, "futex", "wake")
  /\ \E s \in {s \in Members : pc[s] = "asleep"} \cup {t} :
       /\ s = t => \A r \in Members : pc[r] # "asleep"
       /\ pc' = [pc EXCEPT ![s] = "test", ![t] = "release"]
  /\ UNCHANGED <<round, shared, local>>

\* FUTEX_WAKE of INT_MAX threads.
WakeAll(t) == /\ At(t, "futex", "wake")
              /\ WakeAndGoto(t, "release", "test")
              /\ UNCHANGED <<shared, local>>

\* _barrier_unlock() of the last thread.
Release(t) == /\ At(t, "futex", "release")
              /\ shared' = [shared EXCEPT !.lock = FALSE]
              /\ Return(t)
              /\ UNCHANGED local

FutexStep(t) == \/ Arrive(t) \/ UnlockToWait(t) \/ FutexWait(t) \/ TestPhase(t)
                \/ NewPhase(t) \/ WakeAll(t) \/ Release(t)

-----------------------------------------------------------------------------
(* semaphores/barrier.c                                                    *)

\* sem_wait(&arrival)
WaitArrival(t) == /\ At(t, "semaphore", "begin")
                  /\ shared.arrival > 0
                  /\ shared' = [shared EXCEPT !.arrival = @ - 1]
                  /\ Goto(t, "in")

\* counter++
CountIn(t) == /\ At(t, "semaphore", "in")
              /\ shared' = [shared EXCEPT !.counter = @ + 1]
              /\ Goto(t, "testIn")

\* counter < n, outside the mutex.
TestIn(t) == /\ At(t, "semaphore", "testIn")
             /\ Goto(t, IF shared.counter < NumThreads THEN "nextIn" ELSE "lastIn")
             /\ UNCHANGED shared

\* sem_post(&arrival) or, after the last arrival, sem_post(&departure)
PostIn(t) == /\ \/ /\ At(t, "semaphore", "nextIn")
                   /\ shared' = [shared EXCEPT !.arrival = @ + 1]
                \/ /\ At(t, "semaphore", "lastIn")
                   /\ shared' = [shared EXCEPT !.departure = @ + 1]
             /\ Goto(t, "departure")

\* sem_wait(&departure)
WaitDeparture(t) == /\ At(t, "semaphore", "departure")
                    /\ shared.departure > 0
                    /\ shared' = [shared EXCEPT !.departure = @ - 1]
                    /\ Goto(t, "out")

\* counter--
CountOut(t) == /\ At(t, "semaphore", "out")
               /\ shared' = [shared EXCEPT !.counter = @ - 1]
               /\ Goto(t, "testOut")

\* counter > 0, outside the mutex.
TestOut(t) == /\ At(t, "semaphore", "testOut")
              /\ Goto(t, IF shared.counter > 0 THEN "nextOut" ELSE "lastOut")
              /\ UNCHANGED shared

\* sem_post(&departure) or, after the last departure, sem_post(&arrival)
PostOut(t) == /\ \/ /\ At(t, "semaphore", "nextOut")
                    /\ shared' = [shared EXCEPT !.departure = @ + 1]
                 \/ /\ At(t, "semaphore", "lastOut")
                    /\ shared' = [shared EXCEPT !.arrival = @ + 1]
              /\ Return(t)

SemaphoreStep(t) ==
  /\ \/ WaitArrival(t) \/ CountIn(t) \/ TestIn(t) \/ PostIn(t)
     \/ WaitDeparture(t) \/ CountOut(t) \/ TestOut(t) \/ PostOut(t)
  /\ UNCHANGED local

-----------------------------------------------------------------------------
(* monitors/barrier.c                                                      *)

\* pthread_mutex_lock(&mutex)
Lock(t) == /\ At(t, "monitor", "begin")
           /\ ~ shared.mutex
           /\ shared' = [shared EXCEPT !.mutex = TRUE]
           /\ Goto(t, "inside")

\* arrived++, and the last thread's pthread_cond_broadcast(&allArrived)
Broadcast(t) == /\ At(t, "monitor", "inside")
                /\ shared.arrived + 1 = NumThreads
                /\ shared' = [shared EXCEPT !.arrived = 0]
                /\ WakeAndGoto(t, "unlock", "woken")

\* arrived++ and pthread_cond_wait(&allArrived, &mutex)
Wait(t) == /\ At(t, "monitor", "inside")
           /\ shared.arrived + 1 # NumThreads
           /\ shared' = [shared EXCEPT !.arrived = @ + 1, !.mutex = FALSE]
           /\ Goto(t, "asleep")

\* A thread that has been woken gets the mutex again.
Relock(t) == /\ At(t, "monitor", "woken")
             /\ ~ shared.mutex
             /\ shared' = [shared EXCEPT !.mutex = TRUE]
             /\ Goto(t, "unlock")

\* pthread_mutex_unlock(&mutex)
Unlock(t) == /\ At(t, "monitor", "unlock")
             /\ shared' = [shared EXCEPT !.mutex = FALSE]
             /\ Return(t)

MonitorStep(t) ==
  /\ Lock(t) \/ Broadcast(t) \/ Wait(t) \/ Relock(t) \/ Unlock(t)
  /\ UNCHANGED local

\* FUTEX_WAIT returns with no FUTEX_WAKE (a signal), or the wait of a monitor
\* with no broadcast.
SpuriousWake(t) ==
  /\ \/ At(t, "futex", "asleep") /\ Goto(t, "test")
     \/ Spurious /\ At(t, "monitor", "asleep") /\ Goto(t, "woken")
  /\ UNCHANGED <<meeting, shared, local>>

-----------------------------------------------------------------------------
(* channels/barrier.go                                                     *)

\* v = <-b.arrival
GetArrival(t) == /\ At(t, "channel", "begin")
                 /\ shared.arrival # Empty
                 /\ local' = [local EXCEPT ![t] = shared.arrival]
                 /\ shared' = [shared EXCEPT !.arrival = Empty]
                 /\ Goto(t, "arrived")

\* b.arrival <- v - 1 or, for the last one, b.departure <- b.n
PutArrival(t) ==
  /\ At(t, "channel", "arrived")
  /\ \/ /\ local[t] > 1 /\ shared.arrival = Empty
        /\ shared' = [shared EXCEPT !.arrival = local[t] - 1]
     \/ /\ local[t] <= 1 /\ shared.departure = Empty
        /\ shared' = [shared EXCEPT !.departure = NumThreads]
  /\ Goto(t, "departure")
  /\ UNCHANGED local

\* v = <-b.departure
GetDeparture(t) == /\ At(t, "channel", "departure")
                   /\ shared.departure # Empty
                   /\ local' = [local EXCEPT ![t] = shared.departure]
                   /\ shared' = [shared EXCEPT !.departure = Empty]
                   /\ Goto(t, "departed")

\* b.departure <- v - 1 or, for the last one, b.arrival <- b.n
PutDeparture(t) ==
  /\ At(t, "channel", "departed")
  /\ \/ /\ local[t] > 1 /\ shared.departure = Empty
        /\ shared' = [shared EXCEPT !.departure = local[t] - 1]
     \/ /\ local[t] <= 1 /\ shared.arrival = Empty
        /\ shared' = [shared EXCEPT !.arrival = NumThreads]
  /\ Return(t)
  /\ UNCHANGED local

ChannelStep(t) == GetArrival(t) \/ PutArrival(t) \/ GetDeparture(t) \/ PutDeparture(t)

-----------------------------------------------------------------------------
(* channels/barrier_2p_async.go and barrier_2p_sync.go                     *)

Peer(t) == IF t = A THEN B ELSE A

\* a <- true of A and b <- true of B, into the buffer.
SendPair(t) == /\ At(t, "async", "begin")
               /\ shared[t] = Empty
               /\ shared' = [shared EXCEPT ![t] = 1]
               /\ Goto(t, "receive")

\* <-b of A and <-a of B.
ReceivePair(t) == /\ At(t, "async", "receive")
                  /\ shared[Peer(t)] # Empty
                  /\ shared' = [shared EXCEPT ![Peer(t)] = Empty]
                  /\ Return(t)

\* a <- true of A with <-a of B: both go on in one step, A's.
MeetA(t) == /\ t = A /\ \A s \in Members : At(s, "sync", "begin")
            /\ pc' = [s \in Members |-> "receive"]
            /\ UNCHANGED <<round, shared>>

\* b <- true of B with <-b of A: both return in one step, B's.
MeetB(t) == /\ t = B /\ \A s \in Members : At(s, "sync", "receive")
            /\ pc' = [s \in Members |-> After(s)]
            /\ round' = [s \in Members |-> round[s] + 1]
            /\ UNCHANGED shared

PairStep(t) == /\ SendPair(t) \/ ReceivePair(t) \/ MeetA(t) \/ MeetB(t)
               /\ UNCHANGED local

-----------------------------------------------------------------------------

Step(t) == /\ \/ FutexStep(t) \/ SemaphoreStep(t) \/ MonitorStep(t)
              \/ ChannelStep(t) \/ PairStep(t)
           /\ UNCHANGED meeting

AllDone == \A t \in Members : pc[t] = "done"

\* main has joined the threads and the program ends.
Join == AllDone /\ UNCHANGED vars

Next == (\E t \in Members : Step(t) \/ SpuriousWake(t)) \/ Join

Spec == Init /\ [][Next]_vars

-----------------------------------------------------------------------------
\* The threads inside barrier().
Waiting == {t \in Members : pc[t] \notin {"begin", "done"}}

\* Nobody is past a barrier that some thread has not reached: "finished phase"
\* is printed when all the threads have finished that phase.
NobodyEarly ==
  \A s, t \in Members :
    round[t] <= round[s] + (IF s \in Waiting THEN 1 ELSE 0)

\* What a barrier promises to the threads of the program.
All == INSTANCE Barrier WITH waiting <- Waiting
Pair == INSTANCE Barrier WITH waiting <- Waiting, Threads <- {A, B}

\* A step of the abstract barrier, or none.
PromiseStep == \/ IF meeting \in {"async", "sync"} THEN Pair!Next ELSE All!Next
               \/ UNCHANGED <<round, Waiting>>

\* futex/barrier.c: a thread asleep in a phase that has ended is about to be
\* woken by the thread that ended it, which still holds the lock; and to_arrive
\* counts the threads the current phase still lacks.
NoSleeperLeftBehind ==
  meeting = "futex" =>
    /\ \A t \in Members : pc[t] = "asleep" /\ local[t] # shared.phase =>
         \E s \in Members : pc[s] = "wake"
    /\ (\A s \in Members : pc[s] # "last") =>
         shared.to_arrive = NumThreads - Cardinality(
           {t \in Members : /\ pc[t] \in {"unlock", "wait", "asleep", "test"}
                         /\ local[t] = shared.phase})

\* semaphores/barrier.c: the two semaphores are one baton: at most one thread
\* is between a wait and the post that follows it, and then both are 0.  This is
\* why the tests of counter outside the mutex read the value the thread itself
\* has left.
OneBaton ==
  meeting = "semaphore" =>
    shared.arrival + shared.departure +
      Cardinality({t \in Members : pc[t] \notin {"begin", "departure", "done"}}) = 1
=============================================================================
