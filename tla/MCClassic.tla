------------------------------ MODULE MCClassic ------------------------------
(***************************************************************************)
(* The locks of intro/ and futex/ that mix plain and atomic accesses, for  *)
(* TLC: the initial state chooses the program, with its own number of      *)
(* threads and memory.  Peterson's algorithm, the fast mutex and the three *)
(* ticket mutexes run with store buffers, the bakery algorithm and the     *)
(* simple futex mutex with a sequentially consistent memory.  The fast     *)
(* mutex has a number of iterations of its own: one is enough for the late *)
(* stores of one owner to meet the next.                                   *)
(***************************************************************************)
EXTENDS TSOCountLoop

CONSTANTS
  Wrap, MaskBits,   \* of the ticket mutexes
  FastIterations    \* iterations of a thread of the fast mutex

\* The loops that look at every thread count from 0 to NUM_THREADS - 1.
ASSUME IndexAssumption == Threads = 0 .. Cardinality(Threads) - 1

\* The numbers of a ticket mutex do not wrap around in MAX_COUNT iterations, and a
\* mask has a bit.
ASSUME NumbersAssumption == /\ Wrap \in Nat /\ Cardinality(Threads) * Iterations < Wrap
                            /\ MaskBits \in Nat \ {0}

VARIABLES
  program,                       \* the program that runs
  j, max,                        \* of Bakery and FastMutex
  sleeping, ticket, seen, next   \* of the futex mutexes

scanvars == <<j, max>>
ticketvars == <<ticket, seen, next>>
mcvars == <<loopvars, memvars, scanvars, sleeping, ticketvars, program>>

PetersonThreads == {0, 1}

P == INSTANCE Peterson WITH Threads <- PetersonThreads
B == INSTANCE Bakery WITH BufferSize <- 0
F == INSTANCE FastMutex WITH Iterations <- FastIterations
Simple == INSTANCE SimpleFutexMutex WITH BufferSize <- 0
Plain == INSTANCE FairFutexMutex WITH Variant <- "plain"
Bitset == INSTANCE FairFutexMutex WITH Variant <- "bitset"
Spin == INSTANCE FairFutexMutex WITH Variant <- "spin"

Tickets == {"plain", "bitset", "spin"}

NoScan == j = <<>> /\ max = <<>>
NoTickets == ticket = <<>> /\ seen = <<>> /\ next = <<>>

MCInit ==
  \/ program = "peterson" /\ P!Init /\ NoScan /\ sleeping = {} /\ NoTickets
  \/ program = "bakery" /\ B!Init /\ sleeping = {} /\ NoTickets
  \/ program = "fast" /\ F!Init /\ max = <<>> /\ sleeping = {} /\ NoTickets
  \/ program = "simple" /\ Simple!Init /\ NoScan /\ NoTickets
  \/ program \in Tickets /\ Plain!Init /\ NoScan

\* What a program that runs leaves alone.
Frame == /\ UNCHANGED program
         /\ program # "bakery" => UNCHANGED max
         /\ program \notin {"bakery", "fast"} => UNCHANGED j
         /\ program \notin Tickets => UNCHANGED ticketvars
         /\ program \notin Tickets \cup {"simple"} => UNCHANGED sleeping

MCNext == /\ \/ program = "peterson" /\ P!Next
             \/ program = "bakery" /\ B!Next
             \/ program = "fast" /\ F!Next
             \/ program = "simple" /\ Simple!Next
             \/ program = "plain" /\ Plain!Next
             \/ program = "bitset" /\ Bitset!Next
             \/ program = "spin" /\ Spin!Next
          /\ Frame

\* An instruction of thread t.
MCStep(t) == /\ \/ program = "peterson" /\ t \in PetersonThreads /\ P!Step(t)
                \/ program = "bakery" /\ B!Step(t)
                \/ program = "fast" /\ F!Step(t)
                \/ program = "simple" /\ Simple!Step(t)
                \/ program = "plain" /\ Plain!Step(t)
                \/ program = "bitset" /\ Bitset!Step(t)
                \/ program = "spin" /\ Spin!Step(t)
             /\ Frame

\* The draining of one store of thread t.
MCDrain(t) == /\ \/ program = "peterson" /\ t \in PetersonThreads /\ P!Drain(t)
                 \/ program = "fast" /\ F!DrainStep(t)
                 \/ program \in Tickets /\ Plain!DrainStep(t)
              /\ Frame

\* Processors execute instructions and drain store buffers.
MCSpec == /\ MCInit /\ [][MCNext]_mcvars
          /\ \A t \in Threads : WF_mcvars(MCStep(t)) /\ WF_mcvars(MCDrain(t))

-----------------------------------------------------------------------------

\* lock() of every program lets one thread in at a time.
OneThreadInside == IF program = "peterson" THEN P!MutualExclusion
                   ELSE MutualExclusion

\* Bakery: a thread that another one has passed in its waiting loop does not
\* get in before it.  Fast mutex: memory says y >= 0 while a thread is inside.
InsideIsVisible == /\ program = "bakery" => B!PassedIsBehind
                   /\ program = "fast" => F!InsideIsVisible

\* Simple mutex: while it is free and threads sleep, one is on its way to wake
\* them or to take it, and the count of waiters covers the futex queue.  Ticket
\* mutexes: the thread whose turn it is sleeps only if the unlock() that served
\* it is still going to wake it.
SleepersAreWoken ==
  /\ program = "simple" => Simple!NoLostWakeup /\ Simple!WaitersCountSleepers
  /\ program \in Tickets => Plain!NextIsAwake

\* Peterson: a thread that gave the turn away to a waiting one does not overtake
\* it.  Ticket mutexes: nobody gets in before a thread with a smaller ticket.
NobodyOvertakes == [][/\ program = "peterson" => P!TurnGoesFirst
                      /\ program \in Tickets => Plain!SmallerTicketFirst]_mcvars

\* Each program ends, with the count that main expects in memory.
EveryProgramEnds ==
  <>CASE program = "peterson" -> P!AllDone /\ P!ExpectedCount
      [] program = "fast" -> F!AllDone /\ F!ExpectedCount
      [] OTHER -> AllDone /\ ExpectedCount
=============================================================================
