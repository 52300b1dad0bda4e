----------------------------- MODULE MCBlocking -----------------------------
(***************************************************************************)
(* The programs that block instead of spinning (monitors/, semaphores/,    *)
(* channels/, futex/ and the barriers) and the lock-free stacks, for TLC:  *)
(* the initial state chooses the program, with its own threads.            *)
(***************************************************************************)
EXTENDS CountLoop

CONSTANTS
  Crew,        \* the threads of the barriers
  A, B,        \* the goroutines of the barriers for two
  Rounds,
  Duo,         \* the threads of the stacks
  Nodes, NULL, Operations, Variants,
  Writes,      \* iterations and period of the reader-writer locks
  Period,
  N, Meals,    \* philosophers, and how often they eat
  Producers, Consumers, Size, ToProduce

\* There are two philosophers at least, and as many threads as main creates;
\* the heap is finite and NULL is no node of it.  The program "freelist" of
\* TreiberStack is not among those that run: it is the one called "FAULTY".
ASSUME BlockingAssumption == /\ IsFiniteSet(Threads) /\ IsFiniteSet(Crew) /\ Crew # {}
                             /\ N \in Nat \ {0, 1}
                             /\ A # B
                             /\ Writes \in Nat \ {0} /\ Period \in Nat \ {0}
                             /\ IsFiniteSet(Nodes) /\ NULL \notin Nodes
                             /\ Variants \subseteq {"tagged", "llsc"}
                             /\ IsFiniteSet(Producers) /\ IsFiniteSet(Consumers) /\ Size \in Nat

VARIABLES
  program,     \* the program that runs
  locked, mutex, sleeping,                             \* of MonitorMutex
  sem, value, waiters, holder,                         \* of Semaphores
  variant, head, next, e, old, after, call,            \* of TreiberStack
  meeting, round, shared, local,                       \* of Barriers
  rw, held, readers, out, wait, writing,               \* of BlockingRWLock
  table, forks, status, sync, todo,                    \* of Philosophers
  shop, buffer, notFull, notEmpty                      \* of BoundedBuffer

semonly == <<sem, value, waiters, holder>>
stackonly == <<variant, head, next, e, old, after, call>>
barrieronly == <<meeting, round, shared, local>>
rwonly == <<rw, held, readers, out, wait, writing>>
philonly == <<table, forks, status, sync, todo>>
shoponly == <<shop, buffer, notFull, notEmpty>>
mcvars == <<loopvars, program, locked, mutex, sleeping, semonly, stackonly, barrieronly,
            rwonly, philonly, shoponly>>

Monitor == INSTANCE MonitorMutex WITH Relaxed <- FALSE
RelaxedMonitor == INSTANCE MonitorMutex WITH Relaxed <- TRUE
Sems == INSTANCE Semaphores
Stacks == INSTANCE TreiberStack WITH Threads <- Duo
Meets == INSTANCE Barriers WITH
  Threads <- Crew, Spurious <- FALSE,
  Meetings <- {"futex", "semaphore", "monitor", "channel", "async", "sync"}
RWs == INSTANCE BlockingRWLock WITH Max <- Writes
Phils == INSTANCE Philosophers WITH EatCount <- Meals
Shops == INSTANCE BoundedBuffer

Counts == {"mutex", "mutex_relaxed"}

\* The variables of the modules that do not run.
NoSem == sem = 0 /\ value = 0 /\ waiters = 0 /\ holder = 0
NoStack == variant = 0 /\ head = 0 /\ next = 0 /\ e = 0 /\ old = 0 /\ after = 0 /\ call = 0
NoBarrier == meeting = 0 /\ round = 0 /\ shared = 0 /\ local = 0
NoRW == rw = 0 /\ held = 0 /\ readers = 0 /\ out = 0 /\ wait = 0 /\ writing = 0
NoPhil == table = 0 /\ forks = 0 /\ status = 0 /\ sync = 0 /\ todo = 0
NoShop == shop = 0 /\ buffer = 0 /\ notFull = 0 /\ notEmpty = 0
NoneOfThese == NoRW /\ NoPhil /\ NoShop
NoneOfThose == locked = 0 /\ mutex = 0 /\ NoSem /\ NoStack /\ NoBarrier

MCInit ==
  \/ program \in Counts /\ Monitor!Init /\ NoSem /\ NoStack /\ NoBarrier /\ NoneOfThese
  \/ /\ program = "sem" /\ Sems!Init
     /\ locked = 0 /\ mutex = 0 /\ NoStack /\ NoBarrier /\ NoneOfThese
  \/ /\ program = "stack" /\ Stacks!Init
     /\ counter = 0 /\ reg = 0 /\ locked = 0 /\ mutex = 0 /\ sleeping = 0
     /\ NoSem /\ NoBarrier /\ NoneOfThese
  \/ /\ program = "barrier" /\ Meets!Init
     /\ counter = 0 /\ reg = 0 /\ iter = 0 /\ locked = 0 /\ mutex = 0 /\ sleeping = 0
     /\ NoSem /\ NoStack /\ NoneOfThese
  \/ program = "rw" /\ RWs!Init /\ NoneOfThose /\ NoPhil /\ NoShop
  \/ program = "phil" /\ Phils!PhilInit /\ counter = 0 /\ reg = 0 /\ NoneOfThose /\ NoRW /\ NoShop
  \/ program = "shop" /\ Shops!ShopInit /\ counter = 0 /\ reg = 0 /\ NoneOfThose /\ NoRW /\ NoPhil

these == <<rwonly, philonly, shoponly>>
those == <<program, locked, mutex, semonly, stackonly, barrieronly>>
Everybody == Crew \cup {A, B} \cup Phils!Seats

\* A step of thread t that the scheduler owes it.
MCStep(t) ==
  \/ /\ program = "mutex" /\ t \in Threads /\ Monitor!Step(t)
     /\ UNCHANGED <<program, semonly, stackonly, barrieronly, these>>
  \/ /\ program = "mutex_relaxed" /\ t \in Threads /\ RelaxedMonitor!Step(t)
     /\ UNCHANGED <<program, semonly, stackonly, barrieronly, these>>
  \/ /\ program = "sem" /\ t \in Threads /\ Sems!Step(t)
     /\ UNCHANGED <<program, locked, mutex, stackonly, barrieronly, these>>
  \/ /\ program = "stack" /\ t \in Duo /\ Stacks!Step(t)
     /\ UNCHANGED <<program, counter, reg, locked, mutex, sleeping, semonly, barrieronly, these>>
  \/ /\ program = "barrier" /\ t \in Meets!Members /\ Meets!Step(t)
     /\ UNCHANGED <<program, counter, reg, iter, locked, mutex, sleeping, semonly, stackonly,
                    these>>
  \/ /\ program = "rw" /\ t \in Threads /\ RWs!Step(t)
     /\ UNCHANGED <<those, philonly, shoponly>>
  \/ /\ program = "phil" /\ t \in Phils!Seats /\ Phils!PhilStep(t)
     /\ UNCHANGED <<those, counter, reg, rwonly, shoponly>>
  \/ /\ program = "shop" /\ t \in Shops!Workers /\ Shops!ShopStep(t)
     /\ UNCHANGED <<those, counter, reg, rwonly, philonly>>

\* The goroutine of philosophers_provider.go.
MCProvide == /\ program = "phil" /\ Phils!Provide
             /\ UNCHANGED <<those, counter, reg, rwonly, shoponly>>

\* A wakeup that nobody asked for.
MCSpuriousWake(t) ==
  \/ /\ program \in Counts /\ t \in Threads /\ Monitor!SpuriousWake(t)
     /\ UNCHANGED <<program, semonly, stackonly, barrieronly, these>>
  \/ /\ program = "sem" /\ t \in Threads /\ Sems!SpuriousWake(t)
     /\ UNCHANGED <<program, locked, mutex, stackonly, barrieronly, these>>
  \/ /\ program = "barrier" /\ t \in Meets!Members /\ Meets!SpuriousWake(t)
     /\ UNCHANGED <<program, counter, reg, iter, locked, mutex, sleeping, semonly, stackonly,
                    these>>
  \/ /\ program = "rw" /\ t \in Threads /\ RWs!SpuriousWake(t)
     /\ UNCHANGED <<those, philonly, shoponly>>
  \/ /\ program = "phil" /\ t \in Phils!Seats /\ Phils!SpuriousWake(t)
     /\ UNCHANGED <<those, counter, reg, rwonly, shoponly>>
  \/ /\ program = "shop" /\ t \in Shops!Workers /\ Shops!SpuriousWake(t)
     /\ UNCHANGED <<those, counter, reg, rwonly, philonly>>

\* main has joined the threads and the program ends; or the process hangs after
\* an exception in rw_lock_fair_faster.py.
MCDone == \A t \in DOMAIN pc : pc[t] = "done"
MCJoin == (MCDone \/ (program = "rw" /\ RWs!Stuck)) /\ UNCHANGED mcvars

MCNext == (\E t \in Everybody : MCStep(t) \/ MCSpuriousWake(t)) \/ MCProvide \/ MCJoin

\* A thread that can execute its next instruction eventually does, and spurious
\* wakeups do not go on for ever (an endless storm of them could keep the
\* pthread mutex from the thread that wants to unlock).
MCSpec == /\ MCInit /\ [][MCNext]_mcvars
          /\ \A t \in Everybody : WF_mcvars(MCStep(t))
          /\ WF_mcvars(MCProvide)
          /\ <>[][\A t \in Everybody : ~ MCSpuriousWake(t)]_mcvars

-----------------------------------------------------------------------------

\* mutex.c of monitors/, the semaphores, the reader-writer monitors and the
\* philosophers: a thread that waits has been woken, or another one is about to
\* take what it waits for, or will signal.  The futex barrier never leaves a
\* sleeper of an old phase behind and its to_arrive is the number of threads
\* that are missing; the semaphores of the semaphore barrier are one baton.
NobodyIsForgotten == /\ program = "mutex" => Monitor!NoLostWakeup
                     /\ program = "sem" => Sems!SemaphoreNoLostWakeup
                     /\ program = "rw" => RWs!SleepersHaveAReason
                     /\ program = "phil" => Phils!NobodyStarvesUnnoticed
                     /\ program = "barrier" => Meets!NoSleeperLeftBehind /\ Meets!OneBaton

\* A writer is alone with what the lock protects, and neighbours at the table
\* never eat together.
NobodyShares == /\ program = "rw" => RWs!WriterIsAlone
                /\ program = "phil" => Phils!NeighboursEatApart

\* `counter += 1` under a monitor, a semaphore or the lock of a writer is one
\* atomic increment.
IncrementsAreAtomic ==
  [][/\ program \in Counts => Monitor!Atomic!ANext \/ UNCHANGED Monitor!Atomic!avars
     /\ program = "sem" => Sems!Atomic!ANext \/ UNCHANGED Sems!Atomic!avars
     /\ program = "rw" => RWs!Atomic!ANext \/ UNCHANGED RWs!Atomic!avars]_mcvars

\* Every barrier implements the abstract one: no thread leaves before all of
\* them have reached it, in every round, although fast threads are already in
\* the next round while slow ones are still leaving.
BarriersImplementBarrier == [][program = "barrier" => Meets!PromiseStep]_mcvars

\* Stacks and buffers are linearizable: every step is a push or a pop of the
\* abstract stack and its free list, or changes neither; a buffer is a queue
\* that drops nothing and does not grow past its size.
ObjectsAreLinearizable ==
  [][/\ program = "stack" => \/ Stacks!Stack!Next
                             \/ UNCHANGED <<Stacks!Contents, e>>
     /\ program = "shop" => Shops!QueueStep]_mcvars

\* Every thread finishes, except those of mutex_relaxed.c and
\* rw_lock_fair_faster.py, which may not; the counting programs end with the
\* count that main expects.
EveryThreadFinishes ==
  <>(\/ program = "mutex_relaxed"
     \/ program = "rw" /\ rw = "faster"
     \/ /\ MCDone
        /\ program \in {"mutex", "sem"} => counter = Cardinality(Threads) * Max
        /\ program = "rw" => RWs!Ended)
=============================================================================
