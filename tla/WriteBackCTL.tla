---------------------------- MODULE WriteBackCTL ----------------------------
(***************************************************************************)
(* TinySTM's design with commit-time locking                               *)
(* (transactional/tinySTM/src/stm_wbctl.h).  Stores only fill the write    *)
(* set; the commit locks the stripes, last entry first, takes a timestamp, *)
(* validates the reads, writes the values back and releases the locks.     *)
(* stm_wbctl_RfW() is a load.                                              *)
(***************************************************************************)
EXTENDS StmInternal

LOCAL INSTANCE SequencesExt
LOCAL INSTANCE FiniteSetsExt

Stripe(t) == GET_LOCK(Call(t).addr)

-----------------------------------------------------------------------------
\* stm_wbctl_read()

\* The lock word l has been read (label restart_no_load): spin while locked.
ReadWithLock(t, l) ==
  IF LOCK_GET_OWNED(l) THEN Jump(t, "read1")
                       ELSE Go(t, "read2", [ret |-> "extend", l |-> l])

\* A word that was wholly written comes from the write set.
Read1(t) ==
  LET i == stm_has_written(t, Call(t).addr)
  IN  /\ Calls(t, "load") \/ Calls(t, "RfW") \/ At(t, "read1")
      /\ IF i # 0 /\ tx[t].wset[i].mask = Full
           THEN /\ Loaded(t, Call(t).addr, tx[t].wset[i].value, FALSE)
                /\ Return(t)
           ELSE ReadWithLock(t, locks[Stripe(t)]) /\ UNCHANGED <<ip, seen>>
      /\ UNCHANGED <<sharedvars, tx, prog, hist>>

Read2(t) ==
  /\ At(t, "read2")
  /\ Go(t, "read3", [ret |-> "extend", l |-> reg[t].l, i |-> 0, now |-> 0,
                     value |-> mem[Call(t).addr]])
  /\ UNCHANGED <<sharedvars, tx, prog, ip, hist, seen>>

\* An irrevocable transaction returns the value from memory; any other adds the
\* part it wrote itself, and remembers the version.
ReadDone(t) ==
  LET i == stm_has_written(t, Call(t).addr)
      v == IF i = 0 THEN reg[t].value
           ELSE Merge(reg[t].value, tx[t].wset[i].value, tx[t].wset[i].mask)
  IN  /\ Return(t)
      /\ IF tx[t].irrev # 0
           THEN Loaded(t, Call(t).addr, reg[t].value, FALSE) /\ UNCHANGED tx
           ELSE /\ Loaded(t, Call(t).addr, v, FALSE)
                /\ SetTx(t, IF tx[t].attr.ro THEN tx[t] ELSE
                     [tx[t] EXCEPT !.rset =
                        Append(@, [lock |-> Stripe(t), version |-> reg[t].l.ts])])

Read3(t) ==
  LET l == reg[t].l
      l2 == locks[Stripe(t)]
  IN  /\ At(t, "read3")
      /\ \/ l # l2 /\ ReadWithLock(t, l2) /\ UNCHANGED <<tx, ip, seen>>
         \/ l = l2 /\ (tx[t].irrev # 0 \/ l.ts <= tx[t].end) /\ ReadDone(t)
         \/ /\ l = l2 /\ tx[t].irrev = 0 /\ l.ts > tx[t].end
            /\ IF tx[t].attr.ro THEN Rollback(t, "VAL_READ")
                                ELSE Go(t, "extend", reg[t])
            /\ UNCHANGED <<tx, ip, seen>>
      /\ UNCHANGED <<sharedvars, prog, hist>>

\* After the extension; on a change the code tries again with the old word.
Read4(t) ==
  /\ At(t, "read4")
  /\ \/ /\ reg[t].l # locks[Stripe(t)]
        /\ ReadWithLock(t, reg[t].l) /\ UNCHANGED <<tx, ip, seen>>
     \/ reg[t].l = locks[Stripe(t)] /\ ReadDone(t)
  /\ UNCHANGED <<sharedvars, prog, hist>>

-----------------------------------------------------------------------------
\* stm_wbctl_write(): a full write set is extended in place.

Write1(t) ==
  LET it == Call(t)
      l == locks[Stripe(t)]
      i == stm_has_written(t, it.addr)
      new == [addr |-> it.addr, lock |-> Stripe(t), mask |-> it.mask, old |-> l,
              value |-> IF it.mask = Nothing THEN Initially ELSE Stamp(t),
              held |-> FALSE]
  IN  /\ Calls(t, "store") \/ At(t, "write1")
      /\ \/ LOCK_GET_OWNED(l) /\ Jump(t, "write1") /\ UNCHANGED <<tx, ip>>
         \/ /\ ~ LOCK_GET_OWNED(l) /\ i # 0
            /\ SetTx(t, [tx[t] EXCEPT !.wset[i].value = Merge(@, Stamp(t), it.mask),
                                      !.wset[i].mask = @ \cup it.mask])
            /\ Return(t)
         \/ /\ ~ LOCK_GET_OWNED(l) /\ i = 0
            /\ tx[t].irrev = 0 /\ l.ts > tx[t].end /\ stm_has_read(t, Stripe(t))
            /\ Rollback(t, "VAL_WRITE") /\ UNCHANGED <<tx, ip>>
         \/ /\ ~ LOCK_GET_OWNED(l) /\ i = 0
            /\ tx[t].irrev = 0 => l.ts <= tx[t].end \/ ~ stm_has_read(t, Stripe(t))
            /\ SetTx(t, [tx[t] EXCEPT !.wset = Append(@, new),
                  !.size = IF Len(tx[t].wset) = @ THEN 2 * @ ELSE @])
            /\ Return(t)
      /\ UNCHANGED <<sharedvars, prog, hist, seen>>

-----------------------------------------------------------------------------
\* stm_wbctl_commit()

\* Entry n + 1 - i is locked in the i-th turn.
Turn(t) == IF At(t, "commit") /\ reg[t].ret = "none" THEN 1 ELSE reg[t].i
EntryOf(t) == Len(tx[t].wset) + 1 - Turn(t)
NextLock(t) ==
  IF EntryOf(t) > 1 THEN Go(t, "lock", [ret |-> "lock", i |-> Turn(t) + 1])
                    ELSE Go(t, "commit", [ret |-> "locked"])

LoadLock(t) ==
  LET s == tx[t].wset[EntryOf(t)].lock
      l == locks[s]
  IN  /\ At(t, "lock") \/ (At(t, "commit") /\ reg[t].ret = "none")
      /\ \/ l.owner = t /\ NextLock(t) /\ UNCHANGED tx
         \/ /\ LOCK_GET_OWNED(l) /\ l.owner # t /\ tx[t].irrev # 0
            /\ UNCHANGED <<pc, reg, tx>>
         \/ /\ LOCK_GET_OWNED(l) /\ l.owner # t /\ tx[t].irrev = 0
            /\ Conflict(t, s)
         \/ /\ ~ LOCK_GET_OWNED(l)
            /\ Go(t, "cas", [ret |-> "lock", i |-> Turn(t), l |-> l]) /\ UNCHANGED tx
      /\ UNCHANGED <<sharedvars, prog, ip, hist, seen>>

SwapLock(t) ==
  LET s == tx[t].wset[EntryOf(t)].lock
  IN  /\ At(t, "cas")
      /\ \/ /\ locks[s] = reg[t].l
            /\ locks' = [locks EXCEPT ![s] = LockedBy(t)]
            /\ SetTx(t, [tx[t] EXCEPT !.wset[EntryOf(t)].held = TRUE,
                                      !.wset[EntryOf(t)].old = reg[t].l])
            /\ NextLock(t)
         \/ /\ locks[s] # reg[t].l
            /\ Go(t, "lock", [ret |-> "lock", i |-> reg[t].i]) /\ UNCHANGED <<locks, tx>>
      /\ UNCHANGED <<clock, mem, irrevocable, prog, ip, hist, seen>>

CheckLocked(t) == reg[t].ret = "locked" /\ CheckIrrevocable(t)

\* The values that a commit writes back.
NewValues(t) ==
  LET ws == {w \in Range(tx[t].wset) : w.mask # Nothing}
  IN  [a \in {w.addr : w \in ws} |->
         LET w == CHOOSE x \in ws : x.addr = a IN Merge(mem[a], w.value, w.mask)]

Timestamp(t) == TakeTimestamp(t, NewValues(t))

\* stm_wbctl_validate(): our own lock counts if it replaced the version read.
Valid(t, r) ==
  LET l == locks[r.lock]
  IN  \/ /\ l.owner = t
         /\ \E w \in Range(tx[t].wset) :
               w.lock = r.lock /\ w.held /\ w.old.ts = r.version
      \/ ~ LOCK_GET_OWNED(l) /\ l.ts = r.version

Extended(t) == /\ reg[t].ret = "extend"
               /\ SetTx(t, [tx[t] EXCEPT !.end = reg[t].now])
               /\ Go(t, "read4", reg[t]) /\ UNCHANGED <<ip, hist, seen>>

Validate(t) ==
  ValidateEntry(t, LAMBDA r : Valid(t, r),
                Extended(t) \/ Irrevocable(t) \/ Committing(t, NewValues(t)))

Install(t) ==
  LET w == tx[t].wset[reg[t].i]
  IN  /\ At(t, "install")
      /\ mem' = [mem EXCEPT ![w.addr] = Merge(@, w.value, w.mask)]
      /\ IF w.held THEN Go(t, "drop", reg[t]) ELSE NextEntry(t, "install", "end")
      /\ UNCHANGED <<clock, locks, irrevocable, tx, prog, ip, hist, seen>>

Drop(t) ==
  /\ At(t, "drop")
  /\ locks' = [locks EXCEPT ![tx[t].wset[reg[t].i].lock] = Unlocked(reg[t].ts, 0)]
  /\ NextEntry(t, "install", "end")
  /\ UNCHANGED <<clock, mem, irrevocable, tx, prog, ip, hist, seen>>
\* Mutant: only the lock that was acquired last is released.
UndoLastOnly(t) ==
  LET held == {i \in DOMAIN tx[t].wset : tx[t].wset[i].held}
      w == tx[t].wset[Max(held)]
  IN  /\ At(t, "undo")
      /\ locks' = IF held = {} THEN locks ELSE [locks EXCEPT ![w.lock] = w.old]
      /\ Go(t, "aborted", reg[t])
      /\ UNCHANGED <<clock, mem, irrevocable, tx, prog, ip, hist, seen>>

\* stm_wbctl_rollback(): the acquired locks, last entry first.
Undo(t) ==
  LET held == {i \in DOMAIN tx[t].wset : tx[t].wset[i].held}
      w == tx[t].wset[Max(held)]
  IN  /\ At(t, "undo")
      /\ IF held = {}
           THEN Go(t, "aborted", reg[t]) /\ UNCHANGED <<locks, tx>>
           ELSE /\ locks' = [locks EXCEPT ![w.lock] = w.old]
                /\ SetTx(t, [tx[t] EXCEPT !.wset[Max(held)].held = FALSE])
                /\ UNCHANGED <<pc, reg>>
      /\ UNCHANGED <<clock, mem, irrevocable, prog, ip, hist, seen>>

Step(t) ==
  \/ CommonStep(t) \/ Read1(t) \/ Read2(t) \/ Read3(t) \/ Read4(t) \/ Extend(t)
  \/ Write1(t) \/ LoadLock(t) \/ SwapLock(t) \/ CheckLocked(t) \/ Timestamp(t)
  \/ Validate(t) \/ Install(t) \/ Drop(t) \/ Undo(t)

Next == Rollover \/ \E t \in Threads : Step(t)
=============================================================================
