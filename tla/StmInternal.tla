---------------------------- MODULE StmInternal ----------------------------
(***************************************************************************)
(* The part of TinySTM that its three designs share                        *)
(* (transactional/tinySTM/src/stm_internal.h and stm.c): the descriptor of *)
(* a transaction, start and restart, rollback, commit, irrevocability and  *)
(* the roll-over of the clock.  The designs (WriteBackETL, WriteBackCTL,   *)
(* WriteThrough) add reads, writes, validation and the work of commit and  *)
(* rollback.                                                               *)
(*                                                                         *)
(* A thread runs a program: a sequence of calls of the library, in which   *)
(* transactions are bracketed by "start" and "commit".  A step is one      *)
(* access to memory the threads share.  A word has two halves, so that     *)
(* stm_store2() can write a part of it, and a half holds the stamp of the  *)
(* store that wrote it.  The memory is sequentially consistent: the build  *)
(* uses fences or locked instructions wherever the order of these accesses *)
(* matters on x86, the one exception being modelled in StmQuiesce.         *)
(***************************************************************************)
EXTENDS Naturals, Sequences, FiniteSets

LOCAL INSTANCE SequencesExt

CONSTANTS
  Threads, NoThread,
  Addrs,          \* words of memory that programs access
  Stripes,        \* entries of the array of versioned locks
  GET_LOCK(_),    \* the stripe of an address
  Programs,       \* what a thread may run
  RW_SET_SIZE,    \* initial capacity of a write set
  VERSION_MAX,    \* the clock value that forces a roll-over
  Delay           \* contention management is CM_DELAY

ASSUME StmAssumption == /\ NoThread \notin Threads
                        /\ \A a \in Addrs : GET_LOCK(a) \in Stripes
                        /\ RW_SET_SIZE \in Nat \ {0}
                        /\ VERSION_MAX \in Nat \ {0}

VARIABLES
  clock,          \* CLOCK
  locks,          \* _tinystm.locks
  mem,            \* the words that transactions access
  irrevocable,    \* _tinystm.irrevocable: the global irrevocability lock
  tx,             \* tx[t]: the descriptor stm_tx_t of thread t
  prog, ip,       \* the program of t and the call it has reached
  pc, reg,        \* the step of t inside that call and its local variables
  hist,           \* ghost: hist[k + 1] is the memory committed up to time k
  seen            \* ghost: what the loads of the running transaction returned

sharedvars == <<clock, locks, mem, irrevocable>>
stmvars == <<sharedvars, tx, prog, ip, pc, reg, hist, seen>>

-----------------------------------------------------------------------------
\* Words and masks.

Halves == {1, 2}
Full == Halves
Nothing == {}
Stamp(t) == [h \in Halves |-> <<t, ip[t]>>]
Initially == [h \in Halves |-> <<NoThread, 0>>]

\* (old & ~mask) | (new & mask)
Merge(old, new, mask) == [h \in Halves |-> IF h \in mask THEN new[h] ELSE old[h]]

\* A versioned lock: owned, or a timestamp and an incarnation number.
Unlocked(ts, inc) == [owner |-> NoThread, ts |-> ts, inc |-> inc]
LockedBy(t) == [owner |-> t, ts |-> 0, inc |-> 0]
LOCK_GET_OWNED(l) == l.owner # NoThread

-----------------------------------------------------------------------------
\* Descriptors.  attr: [ro, no_retry].  A read entry is [lock, version], a
\* write entry [addr, lock, mask, value, old, held]: old is the lock word (the
\* version) that it replaced and held the negation of no_drop.

NoAttr == [ro |-> FALSE, no_retry |-> FALSE]
NoReg == [ret |-> "none"]

\* int_stm_init_thread()
NewDescriptor ==
  [attr |-> NoAttr, status |-> "IDLE", start |-> 0, end |-> 0, rset |-> <<>>,
   wset |-> <<>>, size |-> RW_SET_SIZE, irrev |-> 0, nesting |-> 0,
   c_lock |-> {}, begin |-> 0]

StmInit ==
  /\ clock = 0
  /\ locks = [s \in Stripes |-> Unlocked(0, 0)]
  /\ mem = [a \in Addrs |-> Initially]
  /\ irrevocable = 0
  /\ tx = [t \in Threads |-> NewDescriptor]
  /\ prog \in [Threads -> Programs]
  /\ ip = [t \in Threads |-> 1]
  /\ pc = [t \in Threads |-> "call"]
  /\ reg = [t \in Threads |-> NoReg]
  /\ hist = <<mem>>
  /\ seen = [t \in Threads |-> {}]

\* stm_has_read(), stm_has_written(): the entries of a stripe, of an address.
stm_has_read(t, s) == \E i \in DOMAIN tx[t].rset : tx[t].rset[i].lock = s
stm_has_written(t, a) == SelectInSeq(tx[t].wset, LAMBDA w : w.addr = a)

\* The list that w->next links: the entries of one stripe in the order in which
\* they were added.  Its last entry is the one that drops the lock.
LastOfStripe(t, i) == \A j \in i + 1 .. Len(tx[t].wset) :
                          tx[t].wset[j].lock # tx[t].wset[i].lock
FirstOfStripe(t, s) == SelectInSeq(tx[t].wset, LAMBDA w : w.lock = s)

-----------------------------------------------------------------------------
\* Control.

At(t, label) == pc[t] = label
Call(t) == prog[t][ip[t]]
Calls(t, op) == At(t, "call") /\ ip[t] \in DOMAIN prog[t] /\ Call(t).op = op

Go(t, label, r) == /\ pc' = [pc EXCEPT ![t] = label]
                   /\ reg' = [reg EXCEPT ![t] = r]
Jump(t, label) == Go(t, label, NoReg)
SetTx(t, f) == tx' = [tx EXCEPT ![t] = f]

\* The call returns to the program, which goes on with the next one.
Return(t) == Jump(t, "call") /\ ip' = [ip EXCEPT ![t] = @ + 1]

\* The program is told that its transaction is gone, and leaves it (programs
\* that meet this do not nest).
CommitOf(t) == CHOOSE i \in ip[t] .. Len(prog[t]) :
                  /\ prog[t][i].op = "commit"
                  /\ \A j \in ip[t] .. i - 1 : prog[t][j].op # "commit"
LeaveTransaction(t) == /\ Jump(t, "call")
                       /\ ip' = [ip EXCEPT ![t] = CommitOf(t) + 1]

\* A load of address a returns value v; own says that the stripe was locked by
\* the transaction.
Loaded(t, a, v, own) ==
  seen' = [seen EXCEPT ![t] = @ \cup
             {[addr |-> a, half |-> h, val |-> v[h], at |-> ip[t], own |-> own] :
                 h \in Halves}]

\* stm_rollback(): the design undoes the writes, one entry at a time.
Rollback(t, why) ==
  Go(t, IF tx[t].wset = <<>> THEN "aborted" ELSE "undo",
     [ret |-> why, i |-> 1, ts |-> 0])
\* A conflict: the transaction kills itself (CM_SUICIDE), or also waits for the
\* lock before it restarts (CM_DELAY).
Conflict(t, s) == /\ SetTx(t, [tx[t] EXCEPT !.c_lock = IF Delay THEN {s} ELSE {}])
                  /\ Rollback(t, "CONFLICT")

\* Ghost: time k begins with the memory of time k - 1; a transaction that
\* commits at time ts adds the values of new to it and to later times.
Ticked == Append(hist, hist[Len(hist)])
Published(h, new, ts) == [k \in DOMAIN h |->
  IF k > ts THEN [a \in Addrs |-> IF a \in DOMAIN new THEN new[a] ELSE h[k][a]]
            ELSE h[k]]

\* stm_*_validate(): one entry of the read set in a step, then what the caller
\* does next.
ValidateEntry(t, valid(_), next) ==
  LET i == reg[t].i
      n == Len(tx[t].rset)
      good == n # 0 => valid(tx[t].rset[i])
  IN  /\ At(t, "validate")
      /\ \/ good /\ i >= n /\ next
         \/ /\ good /\ i < n
            /\ Go(t, "validate", [reg[t] EXCEPT !.i = @ + 1])
            /\ UNCHANGED <<tx, ip, hist, seen>>
         \/ /\ ~ good
            /\ Rollback(t, "VALIDATE")
            /\ UNCHANGED <<tx, ip, hist, seen>>
      /\ UNCHANGED <<sharedvars, prog>>

\* stm_*_extend() up to the validation; now is the end of the new snapshot.
Extend(t) ==
  /\ At(t, "extend")
  /\ IF clock >= VERSION_MAX
       THEN Rollback(t, "VAL_READ")
       ELSE Go(t, "validate", [reg[t] EXCEPT !.i = 1, !.now = clock])
  /\ UNCHANGED <<sharedvars, tx, prog, ip, hist, seen>>
\* Mutant: the irrevocable transaction itself is not exempted.
CheckIrrevocableAll(t) ==
  /\ At(t, "commit")
  /\ IF irrevocable = 1 THEN Rollback(t, "IRREVOCABLE") ELSE Jump(t, "timestamp")
  /\ UNCHANGED <<sharedvars, tx, prog, ip, hist, seen>>

\* The check of stm_*_commit() for an irrevocable transaction.
CheckIrrevocable(t) ==
  /\ At(t, "commit")
  /\ IF tx[t].irrev = 0 /\ irrevocable = 1 THEN Rollback(t, "IRREVOCABLE")
                                           ELSE Jump(t, "timestamp")
  /\ UNCHANGED <<sharedvars, tx, prog, ip, hist, seen>>
\* Mutant: one commit since the start is overlooked.
TakeTimestampLate(t, new) ==
  LET ts == clock + 1
  IN  /\ At(t, "timestamp")
      /\ clock' = ts
      /\ IF tx[t].irrev # 0 \/ tx[t].start + 2 >= ts
           THEN /\ Go(t, "install", [ret |-> "commit", i |-> 1, ts |-> ts])
                /\ hist' = Published(Ticked, new, ts)
           ELSE /\ Go(t, "validate", [ret |-> "commit", i |-> 1, ts |-> ts])
                /\ hist' = Ticked
      /\ UNCHANGED <<locks, mem, irrevocable, tx, prog, ip, seen>>

\* The timestamp of stm_*_commit().  The reads are validated unless nobody has
\* committed since the start; new are the values that the commit installs.
TakeTimestamp(t, new) ==
  LET ts == clock + 1
  IN  /\ At(t, "timestamp")
      /\ clock' = ts
      /\ IF tx[t].irrev # 0 \/ tx[t].start = ts - 1
           THEN /\ Go(t, "install", [ret |-> "commit", i |-> 1, ts |-> ts])
                /\ hist' = Published(Ticked, new, ts)
           ELSE /\ Go(t, "validate", [ret |-> "commit", i |-> 1, ts |-> ts])
                /\ hist' = Ticked
      /\ UNCHANGED <<locks, mem, irrevocable, tx, prog, ip, seen>>

\* The validation for int_stm_set_irrevocable() or for a commit has succeeded.
Irrevocable(t) == /\ reg[t].ret = "irrevocable"
                  /\ SetTx(t, [tx[t] EXCEPT !.irrev = 3])
                  /\ Return(t) /\ UNCHANGED <<hist, seen>>
Committing(t, new) == /\ reg[t].ret = "commit"
                      /\ Go(t, "install", [reg[t] EXCEPT !.i = 1])
                      /\ hist' = Published(hist, new, reg[t].ts)
                      /\ UNCHANGED <<tx, ip, seen>>

\* After the entry i of the write set: the next one, or the end.
NextEntry(t, label, last) ==
  IF reg[t].i < Len(tx[t].wset) THEN Go(t, label, [reg[t] EXCEPT !.i = @ + 1])
                                ELSE Go(t, last, reg[t])

-----------------------------------------------------------------------------
\* Start.

\* int_stm_start(): a nested start only counts.
Start(t) ==
  /\ Calls(t, "start")
  /\ IF tx[t].nesting > 0
       THEN /\ SetTx(t, [tx[t] EXCEPT !.nesting = @ + 1])
            /\ Return(t)
       ELSE /\ SetTx(t, [tx[t] EXCEPT !.nesting = 1, !.attr = Call(t).attr,
                                      !.begin = ip[t] + 1])
            /\ Jump(t, "prepare") /\ UNCHANGED ip
  /\ UNCHANGED <<sharedvars, prog, hist, seen>>

\* The transaction runs: execution goes on after the outermost start.
Run(t, f) == /\ SetTx(t, f)
             /\ ip' = [ip EXCEPT ![t] = f.begin]
             /\ Jump(t, "call")

\* int_stm_prepare() up to the reading of the clock.
Prepare(t) ==
  LET f == [tx[t] EXCEPT !.rset = <<>>, !.wset = <<>>,
                         !.start = clock, !.end = clock]
  IN  /\ At(t, "prepare")
      /\ seen' = [seen EXCEPT ![t] = {}]
      /\ \/ /\ clock >= VERSION_MAX
            /\ Jump(t, "barrier") /\ SetTx(t, f) /\ UNCHANGED ip
         \/ /\ clock < VERSION_MAX /\ f.irrev = 0
            /\ Run(t, [f EXCEPT !.status = "ACTIVE"])
         \/ /\ clock < VERSION_MAX /\ f.irrev = 1
            /\ Jump(t, "irrevocable") /\ SetTx(t, f) /\ UNCHANGED ip
         \/ /\ clock < VERSION_MAX /\ f.irrev > 1
            /\ Run(t, [f EXCEPT !.status = "IRREVOCABLE", !.irrev = 3])
      /\ UNCHANGED <<sharedvars, prog, hist>>

\* stm_quiesce_barrier() with rollover_clock(): once every thread that has a
\* descriptor waits there, the last one resets the clock and the locks.  The
\* barrier itself is the subject of StmQuiesce.
Rollover ==
  /\ \E t \in Threads : At(t, "barrier")
  /\ \A t \in Threads : At(t, "barrier") \/ At(t, "exited")
  /\ clock' = 0
  /\ locks' = [s \in Stripes |-> Unlocked(0, 0)]
  /\ hist' = <<mem>>
  /\ pc' = [t \in Threads |-> IF At(t, "barrier") THEN "prepare" ELSE pc[t]]
  /\ UNCHANGED <<mem, irrevocable, tx, prog, ip, reg, seen>>

-----------------------------------------------------------------------------
\* Irrevocability (int_stm_set_irrevocable(), not serial).

\* After a restart: spin until the global lock is free.
AcquireIrrevocability(t) ==
  /\ At(t, "irrevocable") /\ irrevocable = 0
  /\ irrevocable' = 1
  /\ Run(t, [tx[t] EXCEPT !.irrev = 3, !.status = "IRREVOCABLE"])
  /\ UNCHANGED <<clock, locks, mem, prog, hist, seen>>

\* The request: outside of a transaction it is for the next one; inside, the
\* global lock is tried once, and the reads are validated.
SetIrrevocable(t) ==
  /\ Calls(t, "irrevocable")
  /\ \/ /\ tx[t].nesting = 0
        /\ SetTx(t, [tx[t] EXCEPT !.irrev = 1])
        /\ Return(t) /\ UNCHANGED irrevocable
     \/ /\ tx[t].nesting > 0 /\ tx[t].irrev = 3
        /\ Return(t) /\ UNCHANGED <<irrevocable, tx>>
     \/ /\ tx[t].nesting > 0 /\ tx[t].irrev = 0 /\ irrevocable = 1
        /\ SetTx(t, [tx[t] EXCEPT !.irrev = 1])
        /\ Rollback(t, "IRREVOCABLE") /\ UNCHANGED <<irrevocable, ip>>
     \/ /\ tx[t].nesting > 0 /\ tx[t].irrev = 0 /\ irrevocable = 0
        /\ irrevocable' = 1
        /\ SetTx(t, [tx[t] EXCEPT !.irrev = 2])
        /\ Go(t, "validate", [ret |-> "irrevocable", i |-> 1]) /\ UNCHANGED ip
  /\ UNCHANGED <<clock, locks, mem, prog, hist, seen>>

-----------------------------------------------------------------------------
\* End.

\* int_stm_commit() up to the work of the design.
Commit(t) ==
  /\ Calls(t, "commit")
  /\ SetTx(t, [tx[t] EXCEPT !.nesting = @ - 1])
  /\ \/ tx[t].nesting > 1 /\ Return(t)
     \/ tx[t].nesting = 1 /\ tx[t].wset = <<>> /\ Jump(t, "end") /\ UNCHANGED ip
     \/ tx[t].nesting = 1 /\ tx[t].wset # <<>> /\ Jump(t, "commit") /\ UNCHANGED ip
  /\ UNCHANGED <<sharedvars, prog, hist, seen>>

\* int_stm_commit() from the label end.
End(t) ==
  /\ At(t, "end")
  /\ irrevocable' = IF tx[t].irrev # 0 THEN 0 ELSE irrevocable
  /\ SetTx(t, [tx[t] EXCEPT !.irrev = 0, !.status = "COMMITTED"])
  /\ Return(t)
  /\ seen' = [seen EXCEPT ![t] = {}]
  /\ UNCHANGED <<clock, locks, mem, prog, hist>>

\* stm_abort(STM_ABORT_NO_RETRY)
UserAbort(t) ==
  /\ Calls(t, "abort") /\ Rollback(t, "NO_RETRY")
  /\ UNCHANGED <<sharedvars, tx, prog, ip, hist, seen>>

\* stm_rollback() after the undoing: a full write set grows, the contended lock
\* is waited for, and the transaction restarts.  Without retry the call that
\* aborted returns: a commit goes on to its end, any other tells the program.
Aborted(t) ==
  LET f == [tx[t] EXCEPT !.status = "ABORTED", !.nesting = 1, !.c_lock = {},
                !.size = IF reg[t].ret = "EXTEND_WS" THEN 2 * @ ELSE @]
  IN  /\ At(t, "aborted")
      /\ \A s \in tx[t].c_lock : ~ LOCK_GET_OWNED(locks[s])
      /\ IF f.attr.no_retry \/ reg[t].ret = "NO_RETRY"
           THEN /\ SetTx(t, [f EXCEPT !.nesting = 0])
                /\ IF Call(t).op = "commit" THEN Jump(t, "end") /\ UNCHANGED ip
                                            ELSE LeaveTransaction(t)
           ELSE SetTx(t, f) /\ Jump(t, "prepare") /\ UNCHANGED ip
      /\ UNCHANGED <<sharedvars, prog, hist, seen>>

\* int_stm_exit_thread()
Exit(t) == /\ At(t, "call") /\ ip[t] > Len(prog[t])
           /\ Jump(t, "exited")
           /\ UNCHANGED <<sharedvars, tx, prog, ip, hist, seen>>

CommonStep(t) ==
  \/ Start(t) \/ Prepare(t) \/ AcquireIrrevocability(t) \/ SetIrrevocable(t)
  \/ Commit(t) \/ End(t) \/ UserAbort(t) \/ Aborted(t) \/ Exit(t)

-----------------------------------------------------------------------------
\* Properties.

StmTypeOK ==
  /\ clock \in Nat /\ irrevocable \in {0, 1}
  /\ \A s \in Stripes : locks[s].owner \in Threads \cup {NoThread}
  /\ \A t \in Threads : /\ tx[t].irrev \in 0 .. 3 /\ tx[t].nesting \in Nat
                        /\ Len(tx[t].wset) <= tx[t].size
                        /\ tx[t].start <= tx[t].end
  /\ Len(hist) = clock + 1

\* The store of the transaction of t that wrote half h of address a last before
\* the call at position i; 0 if there is none.
OwnStore(t, a, h, i) ==
  LET own == {j \in tx[t].begin .. i - 1 : /\ prog[t][j].op = "store"
                                          /\ prog[t][j].addr = a
                                          /\ h \in prog[t][j].mask}
  IN  IF own = {} THEN 0 ELSE CHOOSE j \in own : \A k \in own : k <= j

\* A load returns what the transaction itself wrote.
ReadsOwnWrites ==
  \A t \in Threads : \A r \in seen[t] :
    LET j == OwnStore(t, r.addr, r.half, r.at)
    IN  j # 0 => r.val = <<t, j>>

\* The reads of t agree with the memory m, its own writes left aside.
Agree(t, rs, m) ==
  \A r \in rs : \/ OwnStore(t, r.addr, r.half, r.at) # 0
                \/ r.val = m[r.addr][r.half]

\* stm_load(): "the value returned is consistent with respect to previous reads
\* from the same transaction" (include/stm.h).  All of them are from the memory
\* at the end of the transaction's snapshot.
Running(t) == tx[t].nesting > 0 /\ At(t, "call") /\ tx[t].irrev = 0
Opacity == \A t \in Threads : Running(t) => Agree(t, seen[t], hist[tx[t].end + 1])

\* The same for loads from stripes that the transaction has not locked.
Snapshot ==
  \A t \in Threads :
    Running(t) => Agree(t, {r \in seen[t] : ~ r.own}, hist[tx[t].end + 1])

\* A transaction that commits writes at time ts has read the memory of the
\* transactions with smaller timestamps and of no other: the commits are
\* serializable in the order of their timestamps.
SerializableStep ==
  \A t \in Threads :
    pc'[t] = "install" /\ pc[t] \in {"timestamp", "validate"}
      => Agree(t, seen[t], hist'[reg'[t].ts])
Serializable == [][SerializableStep]_stmvars

\* The memory of a stripe that nobody has locked is the committed one, and the
\* version of the stripe says since when.
MemoryIsCommitted ==
  \A a \in Addrs :
    LET l == locks[GET_LOCK(a)]
    IN  ~ LOCK_GET_OWNED(l) => /\ mem[a] = hist[Len(hist)][a]
                               /\ mem[a] = hist[l.ts + 1][a]

\* Only a running transaction holds locks, and it will release them.
NoOrphanLocks ==
  \A s \in Stripes : \A t \in Threads :
    locks[s].owner = t =>
      /\ ~ (pc[t] \in {"prepare", "barrier", "irrevocable", "aborted", "end", "exited"})
      /\ tx[t].nesting > 0 \/ Call(t).op = "commit"
      /\ \E i \in DOMAIN tx[t].wset : tx[t].wset[i].lock = s

\* One thread at a time has the global irrevocability lock.
IrrevocableIsUnique ==
  /\ irrevocable = 1 <=> \E t \in Threads : tx[t].irrev > 1
  /\ \A t, u \in Threads : tx[t].irrev > 1 /\ tx[u].irrev > 1 => t = u

\* stm_rollback(): "Irrevocable cannot abort"; the extension of a full write
\* set is the exception.
IrrevocableStep ==
  \A t \in Threads : tx[t].irrev = 3 /\ pc'[t] \in {"undo", "aborted"} =>
                       reg'[t].ret = "EXTEND_WS"
IrrevocableCannotAbort == [][IrrevocableStep]_stmvars

Finished == \A t \in Threads : At(t, "exited")
=============================================================================
