------------------------------ MODULE Elision ------------------------------
(***************************************************************************)
(* The programs of transactional/ and transactional/intel/ that do not use *)
(* TinySTM alone: counters under a lock, under a lock elided with RTM or   *)
(* HLE, in a compiler's transaction, and in hardware transactions that     *)
(* fall back to TinySTM.                                                   *)
(*                                                                         *)
(* A hardware transaction keeps its stores to itself until it commits and  *)
(* is aborted at once when another processor writes what it has read or    *)
(* written, or reads what it has written; the processor may also abort it  *)
(* for reasons of its own.  An aborted thread is back at _xbegin(), or at  *)
(* the elided exchange, which it then repeats without elision.             *)
(***************************************************************************)
EXTENDS TSOCountLoop

CONSTANTS
  Period,    \* 10: one iteration of Period is a writer's in the rw_ programs
  Retries    \* 10: attempts with RTM before the lock is taken

VARIABLES
  prog,      \* the program that runs; it never changes
  htm        \* htm[t]: the hardware transaction of t and its attempts

vars == <<loopvars, memvars, prog, htm>>

\* lock: what count() brackets an iteration with, or falls back to; rtm: whether
\* a hardware transaction is tried first; reads: most iterations only read;
\* cells: the entries of counter.
Uses(lock, rtm, reads, cells) ==
  [lock |-> lock, rtm |-> rtm, reads |-> reads, cells |-> cells]

ArrayMutex == Uses("pthread", FALSE, FALSE, 2)
ArraySpinlock == Uses("spin", FALSE, FALSE, 2)
RwSpinlock == Uses("spin", FALSE, TRUE, 1)
MutexTransaction == Uses("gcc", FALSE, FALSE, 1)
ArrayTransaction == Uses("gcc", FALSE, FALSE, 2)
RwTransaction == Uses("gcc", FALSE, TRUE, 1)
MutexHle == Uses("hle", FALSE, FALSE, 1)
ArrayHle == Uses("hle", FALSE, FALSE, 2)
RwHle == Uses("hle", FALSE, TRUE, 1)
MutexRtm == Uses("spin", TRUE, FALSE, 1)
ArrayRtm == Uses("spin", TRUE, FALSE, 2)
RwRtm == Uses("hle", TRUE, TRUE, 1)
ArrayRtmTinystm == Uses("stm", TRUE, FALSE, 2)

Programs == {ArrayMutex, ArraySpinlock, RwSpinlock, MutexTransaction,
             ArrayTransaction, RwTransaction, MutexHle, ArrayHle, RwHle,
             MutexRtm, ArrayRtm, RwRtm, ArrayRtmTinystm}

\* mutex, or in_stm, the word that a hardware transaction tests; counter[i];
\* and, for the abstract TinySTM, the version of counter[i].
Guard == <<"guard", 0>>
Cell(i) == <<"counter", i>>
Version(i) == <<"version", i>>

NoTx == [on |-> FALSE, elided |-> FALSE, rset |-> {}, wset |-> <<>>]

Init == /\ prog \in Programs
        /\ LoopInit
        /\ MemInit([a \in {Guard} \cup {Cell(i) : i \in 0 .. 1}
                                  \cup {Version(i) : i \in 0 .. 1} |-> 0])
        /\ htm = [t \in Threads |-> [tx |-> NoTx, tries |-> 0, snap |-> 0]]

MyCell(t) == Cell(iter[t] % prog.cells)
Writes(t) == ~ prog.reads \/ iter[t] % Period = 0

-----------------------------------------------------------------------------
\* The hardware (external).

\* The other transactions that an access of t to the words in as aborts.
Hit(t, as, write) ==
  {u \in Threads \ {t} :
     /\ htm[u].tx.on
     /\ as \cap (DOMAIN htm[u].tx.wset \cup (IF write THEN htm[u].tx.rset ELSE {})) # {}}

Abort(h) == [h EXCEPT !.tx = NoTx]

\* A step of t with that access: t goes to label with descriptor h and r in its
\* register, and the transactions it hits are aborted.
Access(t, as, write, label, h, r) ==
  LET hit == Hit(t, as, write)
      failed(u) == IF htm[u].tx.elided THEN "again" ELSE "failed"
  IN  /\ pc' = [u \in Threads |-> IF u = t THEN label
                                  ELSE IF u \in hit THEN failed(u) ELSE pc[u]]
      /\ htm' = [u \in Threads |-> IF u = t THEN h
                                   ELSE IF u \in hit THEN Abort(htm[u]) ELSE htm[u]]
      /\ reg' = [u \in Threads |-> IF u = t THEN r ELSE IF u \in hit THEN 0 ELSE reg[u]]

Loads(t, a, label, r) ==
  Access(t, {a}, FALSE, label,
         IF htm[t].tx.on THEN [htm[t] EXCEPT !.tx.rset = @ \cup {a}] ELSE htm[t], r)

\* A store buffer drains: the store is seen by the other processors.
DrainStep(t) ==
  /\ Flush(t)
  /\ Access(t, DOMAIN Head(buf[t]), TRUE, pc[t], htm[t], reg[t])
  /\ UNCHANGED <<iter, prog>>

\* The processor aborts a transaction of its own accord.
Spontaneous(t) ==
  /\ htm[t].tx.on
  /\ htm' = [htm EXCEPT ![t] = Abort(@)]
  /\ Goto(t, IF htm[t].tx.elided THEN "again" ELSE "failed")
  /\ reg' = [reg EXCEPT ![t] = 0]
  /\ UNCHANGED <<iter, memvars, prog>>

\* _xend() and the elided store of unlock(): the stores are seen at once.
Commits(t, label) ==
  LET w == htm[t].tx.wset
  IN  /\ Drained(t)
      /\ mem' = Stored(mem, w)
      /\ Access(t, DOMAIN w, TRUE, label, [Abort(htm[t]) EXCEPT !.tries = 0], 0)
      /\ iter' = [iter EXCEPT ![t] = @ + 1]
      /\ UNCHANGED <<buf, prog>>

-----------------------------------------------------------------------------
\* rtm_lock()

\* _xbegin() in the loop on c and status.
XBegin(t) ==
  /\ pc[t] = "begin" /\ prog.rtm /\ htm[t].tries < Retries
  /\ htm' = [htm EXCEPT ![t].tx = [NoTx EXCEPT !.on = TRUE]]
  /\ Goto(t, "test")
  /\ UNCHANGED <<reg, iter, memvars, prog>>

\* Mutant: the transaction does not look at the mutex.
TestGuardSkipped(t) == /\ pc[t] = "test"
                       /\ Goto(t, "tload")
                       /\ UNCHANGED <<reg, iter, memvars, prog, htm>>

\* if (! mutex) return; _xabort(0xff);   (in_stm in array_rtm_tinystm.c)
TestGuard(t) ==
  /\ pc[t] = "test"
  /\ IF Read(t, Guard) = 0
       THEN Loads(t, Guard, "tload", 0)
       ELSE htm' = [htm EXCEPT ![t] = Abort(@)] /\ Goto(t, "failed") /\ UNCHANGED reg
  /\ UNCHANGED <<iter, memvars, prog>>

\* c++ and the test of the status: retry, unless the status is not zero and
\* has neither a code nor the retry bit.  There is no retry before TinySTM.
Failed(t) ==
  /\ pc[t] = "failed"
  /\ \/ /\ prog.lock # "stm" /\ htm[t].tries + 1 < Retries
        /\ htm' = [htm EXCEPT ![t].tries = @ + 1]
        /\ Goto(t, "begin")
     \/ /\ htm' = [htm EXCEPT ![t].tries = 0]
        /\ Goto(t, "lock")
  /\ UNCHANGED <<reg, iter, memvars, prog>>

-----------------------------------------------------------------------------
\* lock()

\* __atomic_exchange_n(&mutex, 1) or pthread_mutex_lock(); the elided exchange
\* is not elided after an abort, and when the mutex is taken.
Lock(t) ==
  /\ pc[t] \in {"lock", "again"} \/ (pc[t] = "begin" /\ ~ prog.rtm)
  /\ prog.lock \in {"spin", "pthread", "hle"}
  /\ Drained(t)
  /\ Access(t, {Guard}, TRUE, IF mem[Guard] = 0 THEN "load" ELSE "lock", htm[t], 0)
  /\ mem' = [mem EXCEPT ![Guard] = 1]
  /\ UNCHANGED <<iter, buf, prog>>

\* __ATOMIC_HLE_ACQUIRE: the exchange only reads the mutex and starts a
\* transaction in which it looks taken.
Elide(t) ==
  /\ pc[t] = "lock" \/ (pc[t] = "begin" /\ ~ prog.rtm)
  /\ prog.lock = "hle" /\ mem[Guard] = 0 /\ Drained(t)
  /\ Access(t, {Guard}, FALSE, "tload",
            [htm[t] EXCEPT !.tx = [on |-> TRUE, elided |-> TRUE, rset |-> {Guard},
                                   wset |-> <<>>]], 0)
  /\ UNCHANGED <<iter, memvars, prog>>

-----------------------------------------------------------------------------
\* The body of count(), with the lock held or in a hardware transaction.

\* The load of counter[i]; a reader needs no more.
LoadCell(t) ==
  /\ pc[t] \in {"load", "tload"}
  /\ Loads(t, MyCell(t), IF htm[t].tx.on THEN IF Writes(t) THEN "tstore" ELSE "xend"
                         ELSE IF Writes(t) THEN "store" ELSE "unlock",
           IF Writes(t) THEN Read(t, MyCell(t)) ELSE 0)
  /\ UNCHANGED <<iter, memvars, prog>>

\* What the other processors see of a plain store before the buffer drains.
Seen(as) == IF BufferSize = 0 THEN as ELSE {}

\* The store, into memory or into the transaction.
StoreCell(t) ==
  /\ pc[t] = "store"
  /\ Write(t, MyCell(t), reg[t] + 1)
  /\ Access(t, Seen({MyCell(t)}), TRUE, "unlock", htm[t], 0)
  /\ UNCHANGED <<iter, prog>>

StoreInTx(t) ==
  /\ pc[t] = "tstore"
  /\ Access(t, {MyCell(t)}, TRUE, "xend",
            [htm[t] EXCEPT !.tx.wset = [a \in {MyCell(t)} |-> reg[t] + 1]], 0)
  /\ UNCHANGED <<iter, memvars, prog>>

\* unlock(), and rtm_unlock() when mutex is set.
Unlock(t) ==
  /\ pc[t] = "unlock"
  /\ Read(t, Guard) # 0
  /\ Write(t, Guard, 0)
  /\ Access(t, Seen({Guard}), TRUE, After(t), htm[t], 0)
  /\ iter' = [iter EXCEPT ![t] = @ + 1]
  /\ UNCHANGED prog

\* rtm_unlock() when mutex is not set, and the elided unlock().
XEnd(t) == /\ pc[t] = "xend"
           /\ htm[t].tx.elided \/ Read(t, Guard) = 0
           /\ Commits(t, After(t))

\* __transaction_atomic { ... } (external: the compiler's library)
CompilerTransaction(t) ==
  /\ pc[t] = "begin" /\ prog.lock = "gcc" /\ Drained(t)
  /\ mem' = [mem EXCEPT ![MyCell(t)] = IF Writes(t) THEN @ + 1 ELSE @]
  /\ EndIteration(t)
  /\ UNCHANGED <<buf, prog, htm>>

-----------------------------------------------------------------------------
\* array_rtm_tinystm.c: the fallback to TinySTM

\* __atomic_fetch_add(&in_stm, 1)
EnterStm(t) ==
  /\ pc[t] = "lock" /\ prog.lock = "stm" /\ Drained(t)
  /\ Access(t, {Guard}, TRUE, "stm_load", htm[t], 0)
  /\ mem' = [mem EXCEPT ![Guard] = @ + 1]
  /\ UNCHANGED <<iter, buf, prog>>

\* stm_load_int() of a transaction of TinySTM, which is serializable with
\* others of its kind (module StmInternal) but not with hardware transactions.
StmLoad(t) ==
  /\ pc[t] = "stm_load"
  /\ Access(t, {MyCell(t)}, FALSE, "stm_commit",
            [htm[t] EXCEPT !.snap = mem[Version(iter[t] % prog.cells)]],
            mem[MyCell(t)])
  /\ UNCHANGED <<iter, memvars, prog>>

\* stm_store_int() and stm_commit(): another commit in between is a conflict.
StmCommit(t) ==
  LET v == Version(iter[t] % prog.cells)
  IN  /\ pc[t] = "stm_commit" /\ Drained(t)
      /\ IF mem[v] = htm[t].snap
           THEN /\ mem' = [mem EXCEPT ![MyCell(t)] = reg[t] + 1, ![v] = @ + 1]
                /\ Access(t, {MyCell(t)}, TRUE, "leave", [htm[t] EXCEPT !.snap = 0], 0)
           ELSE /\ Goto(t, "stm_load")
                /\ htm' = [htm EXCEPT ![t].snap = 0]
                /\ reg' = [reg EXCEPT ![t] = 0]
                /\ UNCHANGED mem
      /\ UNCHANGED <<iter, buf, prog>>

\* __atomic_fetch_sub(&in_stm, 1)
LeaveStm(t) ==
  /\ pc[t] = "leave" /\ Drained(t)
  /\ Access(t, {Guard}, TRUE, After(t), htm[t], 0)
  /\ mem' = [mem EXCEPT ![Guard] = @ - 1]
  /\ iter' = [iter EXCEPT ![t] = @ + 1]
  /\ UNCHANGED <<buf, prog>>

-----------------------------------------------------------------------------

Step(t) ==
  \/ XBegin(t) \/ TestGuard(t) \/ Failed(t) \/ Lock(t) \/ Elide(t) \/ LoadCell(t)
  \/ StoreCell(t) \/ StoreInTx(t) \/ Unlock(t) \/ XEnd(t) \/ CompilerTransaction(t)
  \/ EnterStm(t) \/ StmLoad(t) \/ StmCommit(t) \/ LeaveStm(t)

Join == Joined /\ UNCHANGED <<prog, htm>>

Next == (\E t \in Threads : Step(t) \/ DrainStep(t) \/ Spontaneous(t)) \/ Join

\* Processors execute instructions and drain store buffers.
FairSpec == /\ Init /\ [][Next]_vars
            /\ \A t \in Threads : WF_vars(Step(t)) /\ WF_vars(DrainStep(t))

-----------------------------------------------------------------------------

\* A hardware transaction that has found the lock free, or nobody in TinySTM,
\* does not live on while another thread holds the lock or runs there: none of
\* them reads what the other is still writing.
FallbackExcludesTransactions ==
  \A t, u \in Threads :
    pc[t] \in {"load", "store", "unlock", "stm_load", "stm_commit"} =>
      pc[u] \notin {"tload", "tstore", "xend"}
=============================================================================
