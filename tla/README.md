# A TLA+ verification of `concurrencia`

The repository holds small programs that synchronise threads: in C, Python, Java
and Go, with plain memory accesses, atomic instructions, futexes, semaphores,
monitors, channels and transactions, and the library TinySTM. Nearly all of them
are one algorithm in a harness: threads that call `lock()`, do `counter += 1`, call
`unlock()`, and a `main()` that joins them and prints the counter next to the value
it expects. This directory has one TLA+ module per algorithm, or per family of
programs that differ in details, the TLC runs that check them and proofs about the
locks of `intro/` and `futex/`, the spinlocks, the programs that block, the distributed
mutexes, and the roll-over of the clock and the garbage collector of TinySTM.

Contents: 1. inventory; 2. modules and code; 3. runs, bounds, fairness; 4. findings;
5. other observations and how to reproduce them; 6. proofs; 7. not modelled;
8. plan.

## 1. Inventory

| Part of the repository | State | Operations | What is hard | Correct when | Module |
|---|---|---|---|---|---|
| `intro/` (Peterson, bakery, fast mutex) | flags, turns, numbers in plain memory | `lock`, `unlock` | store buffers, several reads in one condition | exclusion, order of service, termination | `Peterson`, `Bakery`, `FastMutex` |
| `futex/` mutexes | one to three words, the kernel's queue | `lock`, `unlock`, `FUTEX_WAIT`, `FUTEX_WAKE` | value tested before it is slept on, spurious wakeups | exclusion, no lost wakeup, ticket order | `DrepperMutex`, `SimpleFutexMutex`, `FairFutexMutex` |
| `spinlocks/`, `hardware/counter_*` | a word, tickets, slots, queue nodes | `lock`, `unlock` | late stores, wrapping tickets, nodes that are recycled | exclusion, first come first served | `SpinLock`, `SlotLocks`, `NodeLocks` |
| `spinlocks/*rw_lock.c` | readers and a writer's bit; two turns in one word | reader and writer `lock`/`unlock` | writer that waits with the bit set, plain increments, carries | writers alone, termination | `SpinRWLocks` |
| barriers (`futex/`, `semaphores/`, `monitors/`, `channels/`) | phase, counters, semaphores, channels | `barrier` | fast threads in the next round, spurious wakeups | nobody leaves before all have arrived | `Barriers` |
| `monitors/mutex*.c` | `locked`, pthread mutex, condition variable | `lock`, `unlock` | signals that find nobody, spurious wakeups | exclusion, no lost wakeup | `MonitorMutex` |
| semaphores (`futex/`, `monitors/`, `semaphores/`, `channels/`) | value, waiters, futex, spinlock or channels | `wait`, `signal` | wakeups between the test and the sleep | atomic increments, no lost wakeup, termination | `Semaphores` |
| reader-writer locks that block | locks, counters, conditions, channels | reader and writer `lock`/`unlock` | hand-over between readers and writers, locks held while waiting | writers alone, nobody forgotten, termination | `BlockingRWLock` |
| philosophers | forks, statuses, conditions, a provider | `pick`, `release` | circular waits, decisions for a neighbour | neighbours apart, no deadlock | `Philosophers` |
| producers and consumers | a bounded deque, semaphores, conditions, a channel | `append`, `take` | overflow that drops data, one notification for many | a queue that loses nothing | `BoundedBuffer` |
| `hardware/stack_*` | list of nodes, free list, tag or reservation | `push`, `pop` | ABA | a stack and a free list | `TreiberStack` |
| `channels/distributed/*.go` | per node: clock, tables, token, deferred requests; channels between nodes | request, reply, pass the token, forward | two goroutines a node, sends that block with a mutex held | exclusion, one token, no cycle of blocked nodes, termination | `RicartAgrawala`, `TokenPassing`, `NeilsenMizuno` |
| `transactional/`, `transactional/intel/` | a lock and a transaction, an array | elided `lock`/`unlock`, transactions | aborts racing the fallback | exclusion of both paths, termination | `Elision` |
| `transactional/tinySTM` transactions | clock, lock table, memory; per thread: snapshot, read set, write set | start, load, store, commit, abort, irrevocability | optimistic reads, overflow of sets and of the clock | consistent snapshots, serializability, clean aborts | `StmInternal`, `WriteBackETL`, `WriteBackCTL`, `WriteThrough` |
| tinySTM quiescence | list of threads, `quiesce`, statuses, barrier | barrier, `stm_quiesce`, release | flags written and read crosswise | the clock is reset while idle, serial mode is alone | `StmQuiesce` |
| tinySTM `gc.c` | a slot per thread, regions of blocks | `gc_free`, `gc_set_epoch`, cleanup | slots that change owners during a scan | nothing freed that can be reached | `EpochGC` |
| tinySTM `mod_*.c`, `wrappers.c` | undo log, lists of blocks, statistics; bytes and words | callbacks of transactions; typed accesses | order of the undo, double frees, partial words | aborts leave nothing, nothing uncounted, exact bytes | `StmModules`, `Wrappers` |

The programs hardly call each other: each is an algorithm, its harness and below
them the hardware, the kernel or a library. The parts that interact are these. The
futex barrier contains Drepper's mutex. The distributed programs have three or more
nodes with two goroutines each. In TinySTM the transactions use the clock and the
lock table (`StmInternal` and a design), stop in the roll-over barrier and for serial
transactions (`StmQuiesce`), publish their start times to the collector (`EpochGC`),
call the modules at start, commit and abort (`StmModules`), and are called through the
wrappers (`Wrappers`) by the clients in `transactional/` (`MCTinySTM`) or as the
fallback of a hardware transaction (`Elision`).

What is hard to test is listed in `PROJECT.json` under "hazards", each at its line with
the properties that would notice it.

## 2. Modules and how they correspond to the code

**Harnesses.** `CountLoop` is `count()` and `main()` of the counting programs:
`pc[t]` is the next instruction of a thread, the load and the store of
`counter += 1` are two actions (`Load`, `Store`, with `reg[t]` the register),
`EndIteration` is the end of an iteration, `Joined` is the state in which main
has joined everybody and prints. It is the only state in which a model may
stay for ever, so TLC's deadlock check stays on in every run. `TSOCountLoop` is
the same with the counter in the memory of module `TSO`.

**Memory.** The Makefiles compile with `gcc -pthread` and no optimisation, for
x86_64, so that every access of the C text is an instruction in program order and
what remains of the memory model is the store buffer. `TSO` models it: a plain or
`__ATOMIC_RELEASE` store, or a store after a release fence, enters a FIFO buffer;
a load forwards from it; a locked instruction, a `SEQ_CST` fence or a system call
waits until it is empty; it drains one store at a time at any moment.
`BufferSize = 0` is a sequentially consistent memory. `TSO` is used by every
program that synchronises with plain accesses, and by `StmQuiesce`. The others use
ordinary variables, which is exact for them: all the shared words of
`mutex_drepper.c` are accessed by locked instructions and system calls, except
`*futex = 0`, which a system call follows, and `counter`, which only the owner of the
lock reads before the locked instruction of `unlock()` has drained it; in the futex
barrier every plain store is followed by a system call or a locked instruction before
the thread reads anything; pthread mutexes, semaphores, Java monitors, Python and Go
channels synchronise by themselves; TinySTM's transactions take locks and timestamps
with locked instructions, and x86 keeps its other stores, and its loads, in order.

**Kernel.** `FUTEX_WAIT` compares the word and queues the thread in one step;
`FUTEX_WAKE` takes threads out of the queue; `SpuriousWake` is a return of the
system call because of a signal. A condition variable is the same without the
comparison.

**Locks.** One action per memory access or system call, named after what it does
and commented with the line. `Peterson`, `Bakery` and `FastMutex` follow the text
access by access (`max()` of the bakery reads each number twice, and so does the
model). A spin loop is a step that may leave everything unchanged, and `sched_yield()`
and `backoff()` are steps that return to the loop. The 100 reads that
`fair_mutex_spin.c` makes before it waits have no effect of their own: they move
the deciding read to a later moment, which the interleaving already allows. A
program variant is a constant (`FairFutexMutex!Variant`, `MonitorMutex!Relaxed`), a
record (`SpinLock`, `SlotLocks` for the ticket and array locks, `NodeLocks` for CLH and MCS,
`Elision`: the definition named
for a program says in what it differs from the others) or a variable that the initial
state chooses (`meeting`, `rw`, `table`, `shop`, `sem`, `variant`).

**Programs that block.** In `Barriers`, `Semaphores`, `BlockingRWLock`, `Philosophers` and
`BoundedBuffer` a method that holds a mutex and cannot block is one step; a wait
releases the mutex in the same step and gets it again in another. A Go channel with
one message is a lock or a semaphore: taking the message locks it. An unbuffered send
and its receive are one step. The header of each module says which value of its
variable is which file.

**Distributed mutexes.** A node is the goroutine that locks (`pc`) and the receiver
(`rpc`). The node's `sync.Mutex` is state wherever a goroutine can block
while it holds it (`target` of `TokenPassing`, the blocked labels of
`NeilsenMizuno`), since that is where these programs could deadlock; a locked part
that cannot block is one step. `requested` of `TokenPassing` is raised outside the
mutex, as in the code.

**Hardware transactions.** `Elision` has RTM and HLE as the programs use them
(external): stores are private until the commit, a conflicting access of another
processor aborts at once, an abort may come at any step, and the thread is then back
at `_xbegin()` or at the exchange, which it repeats without elision. TinySTM as a
fallback, and the compiler's `__transaction_atomic`, are atomic steps there.

**TinySTM.** A thread runs a program, a sequence of calls. A step is one access to
shared memory: the reads of a lock, a value and the lock again (`Read1` to `Read3`), the
compare and swap of a lock, a timestamp, the validation of one entry, one word written
back. A word has two halves, so that masked stores are real, and a half holds the stamp
of the store that wrote it, so that a read tells which store it saw. `hist` is a history
variable: the memory after each commit. `StmInternal` is what the designs share
(`stm_internal.h` and `stm.c`), the three designs implement the rest and are instantiated
by `MCTinySTM`, which also has the calls and the client programs. The roll-over is one
step there (`Rollover`), once everybody waits in the barrier; how they get there is
`StmQuiesce`. `EpochGC` keeps of a transaction when it started and what it may
still reach: the commit of a transaction that frees replaces the block of its time, so that
the blocks have numbers in the order in which they are unlinked. `base` is the number of
commits before the last roll-over. A thread for which no slot is left waits before
`gc_init_thread()`, where the code would end the program. `StmModules` runs transactions that call `mod_log`, `mod_cb_mem`, `mod_stats` and
`mod_ab`, with aborts between any two calls. `Wrappers` computes every typed access
from word accesses and keeps, beside it, the memory that the definition of the access
gives, byte by byte.

**Abstract specifications.** `AtomicCounter`: the counter is incremented atomically
(refined by Drepper's mutex, both monitors, the semaphores and the blocking
reader-writer locks). `FifoLock`: a lock that serves in order of arrival (refined by the
ticket, array, CLH and MCS locks; the history variable `arrived` of `MCSpinlocks` records
the order of the atomic instruction that gives a thread its place). `Barrier`: nobody
leaves its k-th barrier before everybody has reached its k-th (refined by all the
barriers). `LifoStack`: a stack and its free list (refined by the tagged and the LL/SC
stack).

**MC modules.** `MCClassic`, `MCSpinlocks`, `MCBlocking`, `MCDistributed`, `MCTinySTM` and
`MCStmSupport` each take a family of programs; the initial state chooses one, and the
other programs' variables are constant. A property of one program says so
(`program = "..." => ...`).

Definitions called "Mutant" are wrong versions of the definition that follows
them. No specification uses them; each stands for a plausible bug and shows that a
property notices it.

## 3. Runs

| Run | What it checks | Result |
|---|---|---|
| `drepper` | Drepper's mutex, 3 threads x 2 iterations | holds, 6 thousand states |
| `classic` | Peterson (2 threads), the fast mutex (3), the three ticket mutexes (3) with store buffers; the bakery and the simple futex mutex (3) sequentially consistent | holds, 747 thousand states |
| `spinlocks` | 19 one-word spinlocks, the ticket, array, CLH and MCS locks, two reader-writer locks and the 13 programs of `Elision`, 3 threads with store buffers | holds, 588 thousand states |
| `blocking` | two monitors, the semaphores, six kinds of barriers, two stacks, five kinds of reader-writer locks, of philosophers and of buffers | holds, 127 thousand states |
| `distributed_mutexes` | Ricart-Agrawala and token passing with 3 nodes, Neilsen-Mizuno with 4, two iterations each | holds, 302 thousand states |
| `tinystm` | three designs (and the default one with CM_DELAY) x two threads x any pair of 18 programs | holds, 796 thousand states |
| `stm_support` | roll-over and serial mode with 3 threads, the collector with 3 threads and 2 slots, the modules with 2 threads, every typed access | holds, 1.14 million states |
| `bakery_tso`, `simple_futex_tso`, `monitor_relaxed`, `barrier_spurious`, `serial_alone` | one property each | violated (findings 1 to 5) |

**The properties.** Besides exclusion and termination (which includes the final
count), the runs check the argument of each algorithm:

* `NoLostWakeup`, `SleepersAreWoken`, `NobodyIsForgotten`: whoever sleeps has been woken or
  will be by somebody who is already on the way. The last one includes that `to_arrive`
  of the futex barrier counts the missing threads and that the two semaphores of
  `semaphores/barrier.c` are one baton, which is why `counter` may be tested outside its
  mutex.
* `NobodyOvertakes`, `InsideIsVisible`, `RequestsAreOrdered`, `QueueLocksAreFifo`: the order of
  service. `InsideIsVisible` includes that a late `y = -1` of an earlier owner of the fast
  mutex never hides the present one; `RequestsAreOrdered` that the deferred channel never
  blocks the receiver.
* `QueueNodesAreSafe`: in CLH no node has two users and in MCS no store into a
  node arrives after the round it belongs to, store buffers included.
* `OneNodeInside`, `TokenSentToWaiter`, `ParentsFormForest`: the token is unique, its table is
  the newest, a node that blocks to send it (holding its mutex) sends it to a node that
  will take it, and the nodes of Neilsen-Mizuno never wait in a circle.
* `ReadersExcludeWriter`, `ElisionIsExclusive`, `NobodyShares`: writers are alone, no hardware
  transaction lives on beside the fallback, neighbours at the table eat apart.
* `IncrementsAreAtomic`, `BarriersImplementBarrier`, `ObjectsAreLinearizable`: refinement of
  `AtomicCounter`, `Barrier`, `LifoStack`, and of a queue that drops nothing.
* `Snapshot`, `ReadsOwnWrites`, `MemoryIsCommitted`, `NoOrphanLocks`, `Serializable`,
  `IrrevocableCannotAbort`: all reads of a transaction are from one memory, the one at the
  end of its snapshot; it reads its own writes, halves included; memory under a free lock
  is the committed one at the version of the lock, also after aborts of write-through;
  locks belong to running transactions; what commits at time ts has read the memory of the
  commits before ts; an irrevocable transaction does not abort.
* `SerialRunsAlone`, `ResetWhileIdle`, `EveryThreadExits`, `GcIsSafe`, `AbortsLeaveNothing`,
  `NothingIsUncounted`, `BytesAreExact`: the parts around them.

**Bounds.** Three threads are the smallest number with an owner, a waiter and a
third that interferes (the case of `*futex = 0` in Drepper's mutex, of the late
`y = -1` in the fast mutex, of two waiters with one mask); two iterations make every
thread come back with the state of its first round left behind, which is what
recycled nodes, late stores and stale requests need. A thread of the fast mutex
runs one iteration (`FastIterations`), to keep its buffers deep. Neilsen-Mizuno has four nodes (`TreeNodes`), so that a
request can be forwarded while another is; it was also explored with 5 nodes and with 3
iterations. `BufferSize` is at least the number of stores between two draining
instructions of Peterson and the fast mutex (4) and of the ticket mutexes
(2); in `spinlocks` it is 2, enough for the counter and the release to be
delayed together. `Wrap` is 3 in `spinlocks`, the smallest that three threads allow and a
multiple of the number of threads as 2^16 is of 4, so that tickets wrap in every
behaviour; in `classic` it is larger than the number of `lock()` calls, as 2^32 is in the
program (`NumbersAssumption`). `MaskBits` is 2 instead of 32, so that tickets of three threads share a bit. The
barriers have 4 threads and 3 rounds; the philosophers are 5, as in the code; the buffers
have size 2, two producers of 3 data and two consumers; readers and writers alternate
(`Period` 2, three iterations, so that a thread writes twice). The stacks have 2 threads,
2 nodes and 2 operations each, the smallest with ABA (which the mutant finds).

In `tinystm` there are three words, two of which share a lock; `RW_SET_SIZE` is 1, so that
the second store overflows the write set; `VERSION_MAX` is 3, so that the clock rolls over
in runs with three commits; `INCARNATION_MAX` is 1, so that incarnations overflow. The
programs are one or two transactions of up to four calls with every kind of conflict, and the
three client programs with two iterations. They contain every call of the designs but the
variants of load and store for a read or write that follows another one (`int_stm_RaR()`, `RaW`,
`WaR`, `WaW`), which `include/stm.h` does not offer; of those only `RfW` is modelled. Threads are
interchangeable: `SYMMETRY` is used there and nowhere else (the run has no liveness
property). In `stm_support` the roll-over comes after two commits and has a store buffer of
1; serial mode has no store buffer (the finding is what happens with one) and at most one
serial transaction beside plain ones, or two alone. The collector has three threads and two
slots (`MAX_GC_THREADS`), so that a slot changes its owner while a third thread scans, in two
tasks (`ThreeThreads`). In "gc" one thread unlinks two blocks and two threads read. In
"reset" one thread unlinks six with `VERSION_MAX` = 3, so that the clock rolls over while
another one is inside `gc_init_thread()`, and blocks unlinked after that are freed while that
one sets its bound, starts and runs. Other tasks, with three slots, were explored once (up to
5.6 million states) and pass. The modules have up to two retries, so that the extremes of two
exiting threads differ; two threads that both allocate are left out, as the lists of blocks are
each thread's own. Typed accesses cover words and longs of
4 and 8 bytes, every offset in a word and ranges of up to 11 bytes.

**Fairness.** Weak fairness of the steps of each thread, goroutine, receiver and store
buffer: the kernel and the Go scheduler run every thread that can run, and a store buffer
drains. Nothing is assumed of who gets a contended lock. Spurious wakeups are never
assumed to happen; in `MCBlocking` they are assumed to stop some day, since an endless
storm of them can keep the pthread mutex from the thread that wants to unlock. In
`MCStmSupport` aborts are assumed to stop, which CM_SUICIDE does not promise but which is
not what that run is about; nothing is assumed of the parts "reset", "modules" and "wrappers", of
which no liveness is asked. A thread that acquires a contended lock needs no strong
fairness, because each thread makes a finite number of iterations. `tinystm` checks no
liveness: transactions that abort each other for ever are what CM_SUICIDE allows.

## 4. Findings

1. `intro/bakery.c:34` (`bakery_tso`). The fence after `choosing[i] = 1` is
   `__ATOMIC_RELEASE`, which orders nothing with the loads of `max()` and emits no
   instruction on x86. Two threads choose without seeing each other and both get in: the
   printed count is short of `Expected`.
2. `futex/simple_mutex.c:37` (`simple_futex_tso`). `unlock()` stores `locked` and then reads
   `waiters`; the store may still be buffered when `waiters` is read as 0, while the waiter
   finds `locked` set and sleeps for ever.
3. `monitors/mutex_relaxed.c:29` (`monitor_relaxed`). `unlock()` clears and signals without
   the mutex, between the test and the wait of a `lock()`: the signal is lost.
4. `monitors/barrier.c:30`, `monitors/Barrier.java:18` (`barrier_spurious`). The wait is not in
   a loop: a spurious wakeup lets a thread through before the others have arrived.
5. `tinySTM/src/stm_internal.h:627` (`serial_alone`). `stm_check_quiesce()` reads `quiesce`
   right after the plain store of its status; the comment says that no full barrier is
   required. With the store in the buffer both sides miss each other, and a transaction
   runs next to a serial one.

In each case the same model without the cause (a sequentially consistent memory,
the mutex held, no spurious wakeups) passes.

## 5. Other observations

Seen while modelling; the runs avoid them, and each can be reproduced as described or
read in the code. Paths are under `transactional/tinySTM/` unless they start elsewhere.

* `src/stm_wt.h:322-326`: a second, wider store to a word logged with a partial mask
  overwrites the undo log with the current value. `MCTinySTM` with `Bodies = {"wtlog",
  "reader"}` violates `MemoryIsCommitted`.
* `src/stm_wbctl.h:185-186`: an irrevocable transaction that reads a word it has partly
  written does not see its own part. `Bodies = {"irrpart", "reader"}` violates
  `ReadsOwnWrites`.
* `include/stm.h:353-354` promises that a load is consistent with the earlier ones. A load
  from a stripe that the transaction has locked itself need not be (the transaction will
  abort). `Bodies = {"stripe", "writer", "twice"}` with `Opacity` as an invariant, design
  ETL; `Snapshot` is the part that holds.
* Roll-over: with three threads and `Bodies = {"skew", "skew2", "later"}` one of them waits
  for irrevocability while its owner waits in the barrier (deadlock).
* Serial mode: with two serial transactions and a waiting third thread, the third goes on
  after the first one without looking again (`AwaitRelease`, `Reactivate`): drop `FewSerial` in
  `MCStmSupport`.
* `src/gc.c:436`, `:423-425`: `gc_reset()` clears the lower bound of a thread that is exiting;
  if that thread then frees something it waits for itself in `gc_compute_min()` for ever,
  and so does whoever scans its slot. Replace `(Gc!GcOver \/ base # 0)` by `Gc!GcOver` in `EveryThreadExits`. `gc_cleanup_all()`
  (`src/gc.c:410-414`) would do the same, but nothing calls it.
* `src/gc.c:282`: a thread in `gc_init_thread()` may have read the clock for its first bound
  before a roll-over and store it after, since it is not yet in the list of threads that the
  roll-over waits for. The bound is then higher than the clock, and not "a lower bound on
  the minimum start time" (`src/gc.c:119`): between the moment the thread's first transaction
  reads the clock and the moment it publishes what it read, blocks that were linked at that
  time can be freed. This does no harm, since `gc_set_epoch()` comes before the first load and
  the transaction finds none of them any more. `EpochGC` has the case (`late`), and
  `FreedIsUnreachable` asks of such a transaction what it asks of the others, from the moment it
  has published its start (`since`). Without the condition on `late` in `Running`, the part
  "reset" violates `GcIsSafe`.
* The same reset meets the rule of `gc_free()` that epochs do not decrease
  (`src/gc.c:345`). A thread that has left the list and read the clock for its last
  `gc_free()` before a roll-over puts an old, larger epoch in its slot, which smaller ones
  would follow. They never do, because this is the thread of the last item but one, which waits
  for itself. This is why `EpochsIncrease` holds after roll-overs too.
* `src/mod_log.c:68-71`: the entries for 16, 32 and 64 bit integers keep the old value in a
  `char`. `StmModules!Kept` has it; give a cell such a type in `CellType` and
  `AbortsLeaveNothing` fails.
* `stm_commit()` returns 1 after a `no_retry` transaction has been aborted by its commit
  (`include/stm.h:327-328`); an irrevocable transaction does abort when its write set is
  full; the extension of the write set of a `no_retry` transaction leaves a lock behind;
  `stm_unit_store2()` ignores its mask; the comparison of `cm_karma` and the validation for
  `DESIGN == MODULAR` (`src/stm.c:993-998`) look inverted.
* `semaphores/rw_lock_fair_faster.py:11`: the lock on which a writer waits for the readers
  starts unlocked. The first writer that should wait does not, and a reader may release
  a free lock, an exception that leaves `exit` locked. Drop the exemption `rw = "faster"` of
  `EveryThreadFinishes` in `MCBlocking`, or that of `WriterIsAlone` in `BlockingRWLock`.
* `futex/semaphore.c:27`, `semaphore_spinlock.c`: `FUTEX_WAIT` is not in a loop; `Semaphores` has
  no spurious return for them, and with one the semaphore is broken like finding 4.
* `hardware/stack_cas_freelist.c` says itself that it is faulty: `Variants = {"freelist"}`
  in `MCBlocking` shows the ABA.
* `transactional/intel/array_rtm_tinystm.c` never calls `stm_init()`.
* `spinlocks/array_lock.c:27-28`: `tail` has 16 bits and its value modulo `NUM_THREADS` is the
  slot. After a wrap the slots follow each other only if `NUM_THREADS` divides 2^16, which 4
  does; with 3 threads two of them would get one slot. `SlotAssumption` of `MCSpinlocks` says
  so, and the proof of the array lock needs it.

## 6. Proofs

`DrepperMutex` has its own proofs, for every set `Threads` and every `Max` (the only
assumption is `MaxAssumption`, that `Max` is a positive number):

* `TypeCorrect`: the futex word takes only 0, 1 and 2, and the kernel's queue is the
  set of the threads inside `FUTEX_WAIT`;
* `Exclusion`: mutual exclusion;
* `NoWakeupLost`: nobody sleeps without the word saying 2 or somebody on the way to
  say it or to wake;
* `Refinement`: `Spec => AtomicIncrements`, the program implements `AtomicCounter`.

All follow from one inductive invariant, `IInv` (theorem `Invariance`). Exclusion is not
inductive by itself: that a compare and swap finds 0 must mean that nobody owns the
lock. `HeldWord` says so (the word is 0 exactly when there is no owner, where a
thread between the `fetch_sub` of `unlock()` and its store of 0 still counts as the owner).
`FreshRegister` says that the register of a thread between load and store equals the
counter; it rests on exclusion and gives the refinement, whose abstract increment is
the step `Store`. `LoopBound` bounds the loop variable and is needed for the type of
`iter`. `NoLostWakeup` uses `HeldWord` for the step in which the word goes from 2 to 1 and
then to 0. Each lemma `...Step` takes one part of `IInv` through every action. TLC checks
the properties on the run's instance.

`DistributedProofs` proves about `MCDistributed` what the run `distributed_mutexes` checks,
liveness apart: `OneNodeInsideHolds`, `RequestsAreOrderedHolds`, `TokenSentToWaiterHolds` and
`ParentsFormForestHolds`, for any number of nodes and of increments. `NodesAssumption`
says how `main` numbers its nodes: 0, 1, ... with at least two of them; for Neilsen-Mizuno,
numbers among which is 0, the node with the token. The theorems follow from
`DistributedInvariant`: whichever program runs, its inductive invariant holds.

* Token passing (`TPInv`): `TPFlags` says where the goroutines of a node are (the mutex is
  held exactly while one of them sends) and that one node holds the token. `TPRequests`
  bounds what a node knows of the others by what they have said. `TPTable` says that the
  holder's `granted` is the newest, and of every node that is not on its way to the token
  that its last request is in it as granted. Together they say why the loop of `sendToken()`
  finds only nodes that wait: a request above `granted` is a request not yet served.
* Neilsen-Mizuno (`NMInv`): `NMToken` says that one node owns the token, `NMRoots` that a
  root (a node without a parent) has the token or gets it and has promised it to nobody,
  `NMRequests` that a request that is handled or deferred somewhere is the one request of
  a node that awaits the token, and nowhere else. That the parent pointers form no cycle
  is not inductive by itself: the invariant, `NMTree`, is that they and the requests under
  way are the edges of the star that `main` builds around node 0, each in exactly one of
  four shapes (a pointer up or down, a request up or down); a request turns the edge it
  travels on.
* Ricart-Agrawala (`RAInv`): `RAReplies` is an account of the answers: every node that has
  been asked owes one, as a request still to be read, an entry in its channel of deferred
  replies, or a reply under way, never two of them, and `i` counts those received. `RAOrder`
  says that a node that has seen a request has a `highestNum` at least as large, and, if
  it requests too and has not deferred it, comes after. Two nodes inside would each
  come before the other. The channel of deferred replies never fills up because its
  entries are distinct and none is its owner (`QueueFits`).

TLC checks `DInv` on the run's instance as well.

`SpinlockProofs` proves about `MCSpinlocks` every invariant that the run `spinlocks` checks,
and its refinement, for any number of threads and of iterations, any width of the tickets and
store buffers of any size (the threads of `Elision` hold back one store, as in the run):
`MutualExclusionHolds`, `ReadersExcludeWriterHolds`, `QueueNodesAreSafeHolds`,
`ElisionIsExclusiveHolds` and `QueueLocksAreFifoHolds`. The assumptions are that `main` starts a finite number of threads
(`ThreadsAssumption`), no more than there are tickets (`WrapAssumption`), that the array lock
has slots that go round when `tail` wraps (`SlotAssumption`, used for that lock only), and
that the first node of CLH and NULL are nobody's node (`NodesAssumption`).

`TSOProofs` has the lemmas about the store buffers. A proof about a program on them needs to
know little of a buffer: whether `t` holds a store to word `a` back (`Late(t, a)`), that it is
the only one (`Once`), what `t` itself reads there, and, for two words, which store comes
first (`Before`). `WriteEffect`, `UpdateEffect` and `FlushEffect` say what a store, a locked
instruction and a flush do to these, for memory words and threads one by one: `Kept(u, a)`
is that nothing happens. Each lock then has an inductive invariant:

* `SpinInv`, the locks of one word: an owner is inside *or has left with its store of 0 still
  in the buffer*. There is at most one, and the word in memory is not 0 while there is one.
  Exclusion alone is not inductive, since a thread may be in before an earlier store of 0
  has arrived; what saves it is that this store is the owner's own.
* `TicketInv`: with tickets that wrap, "smaller than" means nothing. `Books` says instead
  that the turn, the threads that have a ticket and the next ticket are an interval of the
  circle of `Wrap` numbers: as many tickets are out as threads are served, each within the
  interval and no two the same. `BooksTake`, `BooksPass` and `BooksLeave` are the three ways to
  move on. The turn moves with a locked instruction and is never late.
* `TurnInv`, ticket_rw_lock: the same books with two turns. The readers that have passed the
  turn of the readers on (`Passed`) are between the turns; both turns may be late, that
  of a writer in one store over two words (`WriteAllTogether`, `FlushTogether`).
* `WordInv`, rw_lock: `readers` counts the readers inside and `writer` is set while a writer
  waits, is inside, or has left with its store late; a writer inside has seen no reader.
* `ArrayInv`: there is a head, the slot whose flag is on its way. The slots of the threads
  that wait are the interval from the head to `tail` modulo the number of threads
  (`NextSlot` is the arithmetic of that), and for each flag `LateFlag` and `SetFlag` say which
  stores may still be under way: one owner at most has seen, clears, or passes the flag.
* `ClhInv`: the threads' nodes are different and one node is nobody's; the predecessors of
  queued threads are different, none is the tail, and the nodes they have are those of queued
  threads. A late store to a node's word (`ClhStore`) is its owner's 1 before the exchange
  or the 0 of the thread that has just left the node to nobody. A thread is inside only when
  its predecessor's node is the one that is nobody's and its word is 0 in memory.
* `McsInv`: one thread has the lock or is being given it (`McsOwner`: the store of 0 in its
  `locked` may still be late), every other queued thread waits behind a different one, not
  behind the tail and in no circle (`McsQueue`). `McsLocked` and `McsNext` say for each word
  of a node who may have a store to it in its buffer: the node's own thread, before the
  exchange; for `locked`, the one that passes the lock on; for `next`, the one behind.
* `ElisionInv`: a transaction that goes on has the mutex among its reads and never among its
  writes. With a mutex (`MutexHeld`), an owner in the sense of `SpinInv` is alone with a
  transaction of its own; with TinySTM (`StmCounted`), `in_stm` is the number of threads there,
  and while it is not 0 no transaction goes on.

TLC has checked them on the run's instance, too. The theorems then take
the families of `MCSpec` one by one (`SpinsInv`, `SlotsInv`, `NodesInv`, `RwInv`, `ElidedInv`).

That the queue locks implement `FifoLock` (`QueueLocksAreFifoHolds`) takes a relation between
the history `arrived`, the abstract queue, and the queue that each lock keeps in its own way:
`Line` says that `arrived` lists the threads that wait, each once, that every one of them
`Follows` the one before it, and that the last one is where the next thread will queue
(`IsLast`). A thread follows another one when its ticket or slot is the next number, when its
`pred` is the other one's node, or when it waits for the other one to hand the lock over.
`QuietStep`, `ArrivalStep`, `EntryStep` and `IdleStep` keep `Line` and are steps of `FifoLock`
or stutter; what is left for each lock is that the thread that enters is the head. It is,
because a thread that is behind another one cannot enter: its turn or flag would be that of
the head of the interval (`BooksHead`: only the last of a full circle of tickets comes just
before the head), the word of its predecessor's CLH node is still 1, and in MCS nobody has
given it the lock. That nobody is inside follows from the invariants above.

`ClassicProofs` proves about `MCClassic` every safety property that the run `classic` checks,
for any number of threads (two for Peterson's algorithm) and of iterations, and store buffers
of any size where the run has one: the invariants `OneThreadInsideHolds`,
`InsideIsVisibleHolds` and `SleepersAreWokenHolds`, and the action property
`NobodyOvertakesHolds`. Besides `ThreadsAssumption` they need that the threads are numbered
0, 1, ... (`IndexAssumption`), over which the loops of the bakery algorithm and the fast mutex
run, and that the tickets do not wrap in the iterations there are (`NumbersAssumption`). Each
program has an inductive invariant, and `ClassicInv` is that of the program that runs:

* `PetersonInv`: exclusion needs to know when the other thread can see an announcement. A
  thread is `Visible` from its fence on, or as soon as its store to `turn` has drained: the one
  to `states[i]` went before it (`Before`, which `BeforeAfterWrite`, `BeforeAfterAppend` and
  `BeforeAfterFlush` keep). A thread inside has the turn if the other one is visible.
* `FastInv`: a thread is `Inside` until memory knows that it has left, as its `y = -1` may be
  late. It has come in by `x`, and then its flag `b` is still 1 in memory and goes down only
  after `y = -1` has arrived (`ByX`), or by `y`, which is still its own while no other thread
  is trying (`ByY`). Every other thread is `Hopeless`: it will find another `x` if it is trying,
  and another `y` if it is waiting for flags. `FastClear` relates two threads on the way there:
  if `k` has gone past the flag of `i` in its loop and `y` is `k`, then `i` neither tries nor is
  inside.
* `BakeryInv`: thread `k` has gone past `i` in its waiting loop (`Past`, or `Cleared` when it has
  only seen that `i` is not choosing). Then either `i` has a number and `k` is ahead of it, or
  the scan of `max()` in `i` has not reached `k`, or has found a number as large (`Scan`): what is
  still undecided will come after `k`. The two reads that `max()` makes of one number, and the
  two of the waiting loop, are covered by `Scan` and `NotLess`.
* `SimpleInv`: `waiters` is the number of threads between their two updates of it, so that
  an `unlock()` that reads 0 leaves no sleeper, and `locked` is 1 while a thread is inside.
* `TicketInv`, for the three ticket mutexes at once (`PlainSteps`, `BitsetSteps` and
  `SpinSteps` say that their instructions are those of `TicketStep`): `number` is the number of
  iterations that have taken a ticket, and so stays below `Wrap`; no two threads have the
  same ticket, and whoever is served has the ticket that equals `turn`. A thread goes to sleep
  only with another ticket. For the wakeups it takes `CurrentIsPast`: `futex->current`, plainly
  stored and late, is either behind the turn or the ticket of a thread inside, so an
  `unlock()` that finds it as large as its own `current` has nobody to wake (`NobodyToWake`).

TLC has checked `ClassicInv` on the run's instance, but for the conjuncts that only say which
values a variable may have. The action property is a consequence of it, step by step: in
Peterson's algorithm a thread that waits behind its fence is visible, so that the other one
reads its flag and, while the turn is the waiting thread's, does not get in
(`PetersonTurnFirst`); in the ticket mutexes whoever gets in has the turn for a ticket, and
the tickets of those that wait are not smaller (`TicketFirst`).

`BlockingProofs` proves about `MCBlocking` everything that the run `blocking` checks, liveness
apart: the invariants `WritersAndNeighboursAreAlone` and `SleepersAreRemembered`, the
refinements `BlockingLocksCount` (the abstract counter), `BarriersKeepTheirPromise` (the abstract
barrier) and `ObjectsActAtOnce` (the abstract stack and the queue). They hold for any number of
threads, philosophers, goroutines, nodes and iterations. `BlockingAssumption` says what `main`
guarantees: finitely many threads and nodes, two philosophers at least, the two goroutines of a
barrier are not the same, NULL is not a node, and "freelist", the stack that calls itself
faulty, is not among the programs. The theorems follow from `MCInvariant`: whichever program
runs, its inductive invariant holds.

* `RWInv`: `readers`, `out` and `writing` are the numbers of threads at certain labels
  (`Placed` is the set of those threads and `PlacedMoves` what one move makes of its
  size). A writer is inside only while both sides of this account are empty, and
  whoever sleeps finds in it the thread that will wake it.
* `MonInv` and `SemInv`: with `mutex.c` of `monitors/`, a thread that waits in the queue of the
  condition leaves somebody outside it who has the lock or was woken for it. For the
  semaphores `value`, the places taken, and the wakeups on the way add up to the initial value
  (`FutexInv`, `SemMonitorInv`); `OneWriter` is mutual exclusion of the increments, and with it the
  register between load and store is the counter.
* `BarInv` is `FutexBarInv`, `SemBarInv`, `MonBarInv`, `ChanBarInv`, `AsyncInv` or `SyncInv`. Each one
  relates the rounds of the threads to the shared counters: all threads are in round `k` or
  `k + 1`, and `to_arrive`, `arrived` or the value of a semaphore count those of one
  group. For the semaphores there is one baton: exactly one of the thread inside, the
  open turnstile, and the closed one. That a fast thread in the next round cannot take
  a token of the last one is what makes the step of a thread that leaves a step of `Barrier`.
* `PhilInv`: with one mutex a fork, nobody else holds a fork that is taken (`ForksInv`); in the
  monitors the forks that `forks` counts are those that those who eat have left
  (`TableInv`). In `philosophers_2.py` whoever could eat has been told so (`StatusInv`); with
  the provider, whoever could eat is in `todo` (`ProviderInv`). That a hungry philosopher cannot
  eat is why it sleeps, and the neighbour that eats is the one that will tell it.
* `StackInv`: the lists of the stack and of the free nodes are chains of `next` that share no
  node, and every other node in use belongs to one thread (`Chains`). It is not enough: a
  thread compares the head with what it read of it and then puts `after`, read from a node that
  may have been popped, pushed and popped again in the meantime, on top. `InCall` says that while
  the head still equals what the thread read, pointer and count, `after` is the next node: a count
  read earlier is smaller than the count of every later head. `ChainsPush`, `ChainsPop`,
  `ChainsTake` and `ChainsWrite` are what the four kinds of store do to the lists, and
  `ChainIs` that the sequence of the invariant is the one that `Contents` reads from the heads
  (two sequences along the same links are prefixes of each other).
* `ShopInv`: with semaphores, `notFull`, the places on their way between a thread's two steps
  (`InTransit`) and the elements add up to `Size`; hence an `append()` never finds the deque full,
  where it would drop the first element.

TLC has checked the parts of these invariants that are not types on the run's instance, but for
those of the stacks and the shops, which were proved directly.

`MCStmSupport` ends with the proofs about two of the parts that the run `stm_support` checks.

* `ClockResetWhileIdle`: the clock is reset only while no thread runs a transaction, for any
  number of threads (`SupportAssumption`: finitely many) and store buffers of any size. The
  reason is that the counter of the barrier is exact (`RollInv`): `threads_nb` is the number of
  threads that are neither outside of the library nor in the barrier (`Busy`), and those that
  sleep are those in `waiting`. `RollCounts` is the arithmetic for one thread that moves, and
  `RollBarrier` the loop in which the last one resets the clock.
* `MemoryIsReclaimed`: `GcIsSafe`, for any number of threads and of slots, any transactions and
  any `VERSION_MAX` (`GcAssumption`: there is a thread and a slot). What it says of freed blocks
  is not inductive, as they are freed on the strength of a minimum that was computed before.
  `GcInv` has eight parts. `GcOwners`: no two threads have the same slot, and the slots that
  have been used come first, so that a scan may stop at the first one that was not.
  `GcBounds`: the bound in a slot is no later than the start of the transactions to come,
  unless its owner is `late`. `GcScans`: the minimum of a scan bounds the transactions
  of the slots it has passed; it still does when one of them changes its owner, since the
  new one starts no earlier than the clock at which the scan began. `GcTimes`: the blocks of
  a region were unlinked before its epoch. `GcOnce` and `GcKept`: a block is in one place, and it
  is not lost. `GcEpochs`: the epochs of a slot are no later than the clock, unless its owner waits
  for itself. `GcTypes` are the types. Every action has a lemma `...Keeps`; `OwnerStep` and
  `SeekerStep` reduce the steps that move no block to what they do to one thread and its slot.

TLC checks these two on the run's instance.

Only model-checked: termination and every other liveness property (liveness is outside
the prover), what recursive definitions compute for every input (induction over data),
what the run `tinystm` checks, and of `stm_support` serial mode, the modules and the wrappers
(`SerialRunsAlone`, `AbortsLeaveNothing`, `NothingIsUncounted`, `BytesAreExact`).

## 7. Not modelled

* Printing, random sleeps, the creation of threads one after another (a thread that
  has not been created is one that has not run yet) and the return values that no
  program tests.
* Compiler reorderings: the build does not optimise. The Go programs with plain
  accesses (`mutex = 0`) are modelled as compiled for amd64. The weaker memory of ARM:
  the LL/SC stack is modelled sequentially consistent, although its `push` has no barrier.
* `array_lock_variable_size.c` does not clear the memory of `malloc()`; the model takes
  the fresh heap of a process that has freed nothing, which is zero, and paddings
  whose indices fit in 16 bits.
* The wrap of the 32-bit tickets of `fair_mutex*.c`, which `MAX_COUNT` does not reach.
* `hardware/stack_cas_malloc.c` reads nodes that may have been freed: undefined
  behaviour on every path that matters.
* Programs whose lock is the language's (`lock.py`, `CounterLock.java`, `go_mutex.go` and
  others): the program "posix" of `Semaphores` stands for them. Python programs run with
  the interpreter's lock and have no spurious wakeups.
* `parallel_matrix_multiplication.go`, scripts and logs: no shared state.
* TinySTM: CM_MODULAR with killing, visible reads and its policies, the timing of
  CM_BACKOFF, unit loads and stores, `int_stm_RaR()` and its like, parameters, the hybrid ASF mode (no processor has it),
  the ABIs of compilers (calling conventions over the same library), the atomic operations
  library (macros, whose x86 meaning the models use), `gc_cleanup_all()`, mean and variance
  of `mod_ab`, `mod_order`, `mod_print`.

## 8. Plan

Done, in this order: Drepper's mutex and its proof, the locks of plain accesses over
`TSO`, the other futex mutexes, the distributed mutexes, monitors, spinlocks, barriers,
reader-writer locks, semaphores, stacks, lock elision, TinySTM's designs, what is around
them, the blocking reader-writer locks, philosophers and buffers, the proofs of the
distributed mutexes, of the spinlocks, of the locks of `intro/` and `futex/`, of the programs
that block, of the roll-over and of the garbage collector. What is left:

1. Proofs about TinySTM: `SerialRunsAlone` of `StmQuiesce`, `NoOrphanLocks` and
   `MemoryIsCommitted` of the designs.
2. CM_MODULAR: killing a transaction while it commits, with visible reads.
