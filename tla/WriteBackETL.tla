---------------------------- MODULE WriteBackETL ----------------------------
(***************************************************************************)
(* TinySTM's default design (transactional/tinySTM/src/stm_wbetl.h):       *)
(* write-back with encounter-time locking.  A store locks the stripe of    *)
(* its address at once and keeps the value in the write set; the commit    *)
(* takes a timestamp, validates the reads, writes the values back and      *)
(* releases the locks.                                                     *)
(***************************************************************************)
EXTENDS StmInternal

LOCAL INSTANCE SequencesExt

Mine(t, l) == l.owner = t

-----------------------------------------------------------------------------
\* stm_wbetl_read_invisible()

AddToReadSet(t, version) ==
  SetTx(t, IF tx[t].attr.ro THEN tx[t] ELSE
    [tx[t] EXCEPT !.rset = Append(@, [lock |-> GET_LOCK(Call(t).addr),
                                      version |-> version])])
\* Mutant: the memory, although the transaction has written the address.
OwnedFromMemory(t, a) == mem[a]

\* The value of an address whose stripe we own: from the write set, or from
\* memory if it is not there or its mask is empty.
OwnedValue(t, a) ==
  LET i == stm_has_written(t, a)
  IN  IF i = 0 \/ tx[t].wset[i].mask = Nothing THEN mem[a] ELSE tx[t].wset[i].value

\* The lock word l has been read (label restart_no_load).
ReadWithLock(t, l) ==
  \/ /\ Mine(t, l)
     /\ Loaded(t, Call(t).addr, OwnedValue(t, Call(t).addr), TRUE)
     /\ Return(t) /\ UNCHANGED tx
  \/ /\ LOCK_GET_OWNED(l) /\ ~ Mine(t, l) /\ tx[t].irrev # 0
     /\ Jump(t, "read1") /\ UNCHANGED <<tx, ip, seen>>
  \/ /\ LOCK_GET_OWNED(l) /\ ~ Mine(t, l) /\ tx[t].irrev = 0
     /\ Conflict(t, GET_LOCK(Call(t).addr)) /\ UNCHANGED <<ip, seen>>
  \/ /\ ~ LOCK_GET_OWNED(l)
     /\ Go(t, "read2", [ret |-> "extend", l |-> l]) /\ UNCHANGED <<tx, ip, seen>>

Read1(t) ==
  /\ Calls(t, "load") \/ At(t, "read1")
  /\ ReadWithLock(t, locks[GET_LOCK(Call(t).addr)])
  /\ UNCHANGED <<sharedvars, prog, hist>>

Read2(t) ==
  /\ At(t, "read2")
  /\ Go(t, "read3", [ret |-> "extend", l |-> reg[t].l, i |-> 0, now |-> 0,
                     value |-> mem[Call(t).addr]])
  /\ UNCHANGED <<sharedvars, tx, prog, ip, hist, seen>>

\* The value read is good: it is returned.
ReadDone(t) ==
  /\ IF tx[t].irrev # 0 THEN UNCHANGED tx ELSE AddToReadSet(t, reg[t].l.ts)
  /\ Loaded(t, Call(t).addr, reg[t].value, FALSE)
  /\ Return(t)

\* Mutant: the version is not compared with the snapshot.
Read3AnyVersion(t) ==
  LET l2 == locks[GET_LOCK(Call(t).addr)]
  IN  /\ At(t, "read3")
      /\ \/ reg[t].l # l2 /\ ReadWithLock(t, l2)
         \/ reg[t].l = l2 /\ ReadDone(t)
      /\ UNCHANGED <<sharedvars, prog, hist>>

Read3(t) ==
  LET l == reg[t].l
      l2 == locks[GET_LOCK(Call(t).addr)]
  IN  /\ At(t, "read3")
      /\ \/ l # l2 /\ ReadWithLock(t, l2)
         \/ l = l2 /\ (tx[t].irrev # 0 \/ l.ts <= tx[t].end) /\ ReadDone(t)
         \/ /\ l = l2 /\ tx[t].irrev = 0 /\ l.ts > tx[t].end
            /\ IF tx[t].attr.ro THEN Rollback(t, "VAL_READ")
                                ELSE Go(t, "extend", reg[t])
            /\ UNCHANGED <<tx, ip, seen>>
      /\ UNCHANGED <<sharedvars, prog, hist>>

\* After the extension: the value may have been overwritten meanwhile.
Read4(t) ==
  LET l2 == locks[GET_LOCK(Call(t).addr)]
  IN  /\ At(t, "read4")
      /\ \/ reg[t].l # l2 /\ ReadWithLock(t, l2)
         \/ reg[t].l = l2 /\ ReadDone(t)
      /\ UNCHANGED <<sharedvars, prog, hist>>

-----------------------------------------------------------------------------
\* stm_wbetl_write(); stm_wbetl_RfW() writes with an empty mask and then reads
\* the memory.

Entry(t, l) ==
  LET it == Call(t)
  IN  [addr |-> it.addr, lock |-> GET_LOCK(it.addr), mask |-> it.mask, old |-> l,
       value |-> IF it.mask = Nothing THEN Initially
                 ELSE Merge(mem[it.addr], Stamp(t), it.mask)]

Stored(t) == /\ IF Call(t).op = "RfW"
                  THEN Loaded(t, Call(t).addr, mem[Call(t).addr], TRUE)
                  ELSE UNCHANGED seen
             /\ Return(t)

FullWriteSet(t) == Len(tx[t].wset) = tx[t].size

\* The stripe is ours: update the entry of the address or add one.
WriteOwned(t) ==
  LET it == Call(t)
      i == stm_has_written(t, it.addr)
  IN  \/ it.mask = Nothing /\ Stored(t) /\ UNCHANGED tx
      \/ /\ it.mask # Nothing /\ i # 0
         /\ SetTx(t, [tx[t] EXCEPT
               !.wset[i].value = Merge(OwnedValue(t, it.addr), Stamp(t), it.mask),
               !.wset[i].mask = @ \cup it.mask])
         /\ Stored(t)
      \/ /\ it.mask # Nothing /\ i = 0 /\ FullWriteSet(t)
         /\ Rollback(t, "EXTEND_WS") /\ UNCHANGED <<tx, ip, seen>>
      \/ /\ it.mask # Nothing /\ i = 0 /\ ~ FullWriteSet(t)
         /\ SetTx(t, [tx[t] EXCEPT !.wset =
               Append(@, Entry(t, @[FirstOfStripe(t, GET_LOCK(it.addr))].old))])
         /\ Stored(t)

\* The stripe is free: a stripe that was read before must not have changed.
WriteFree(t, l) ==
  /\ IF tx[t].irrev = 0 /\ l.ts > tx[t].end /\ stm_has_read(t, GET_LOCK(Call(t).addr))
       THEN Rollback(t, "VAL_WRITE")
       ELSE IF FullWriteSet(t) THEN Rollback(t, "EXTEND_WS")
                               ELSE Go(t, "acquire", [ret |-> "none", l |-> l])
  /\ UNCHANGED <<tx, ip, seen>>

Write1(t) ==
  LET l == locks[GET_LOCK(Call(t).addr)]
  IN  /\ Calls(t, "store") \/ Calls(t, "RfW") \/ At(t, "write1")
      /\ \/ Mine(t, l) /\ WriteOwned(t)
         \/ /\ LOCK_GET_OWNED(l) /\ ~ Mine(t, l) /\ tx[t].irrev # 0
            /\ Jump(t, "write1") /\ UNCHANGED <<tx, ip, seen>>
         \/ /\ LOCK_GET_OWNED(l) /\ ~ Mine(t, l) /\ tx[t].irrev = 0
            /\ Conflict(t, GET_LOCK(Call(t).addr)) /\ UNCHANGED <<ip, seen>>
         \/ ~ LOCK_GET_OWNED(l) /\ WriteFree(t, l)
      /\ UNCHANGED <<sharedvars, prog, hist>>

\* The compare and swap of the lock.
Acquire(t) ==
  LET s == GET_LOCK(Call(t).addr)
  IN  /\ At(t, "acquire")
      /\ \/ /\ locks[s] = reg[t].l
            /\ locks' = [locks EXCEPT ![s] = LockedBy(t)]
            /\ SetTx(t, [tx[t] EXCEPT !.wset = Append(@, Entry(t, reg[t].l))])
            /\ Stored(t)
         \/ /\ locks[s] # reg[t].l
            /\ Jump(t, "write1") /\ UNCHANGED <<locks, tx, ip, seen>>
      /\ UNCHANGED <<clock, mem, irrevocable, prog, hist>>

-----------------------------------------------------------------------------
\* stm_wbetl_validate(), stm_wbetl_extend(), stm_wbetl_commit(),
\* stm_wbetl_rollback()

\* The values that a commit writes back.
NewValues(t) ==
  LET ws == {w \in Range(tx[t].wset) : w.mask # Nothing}
  IN  [a \in {w.addr : w \in ws} |-> (CHOOSE w \in ws : w.addr = a).value]
\* Our own lock, or free with the version that was read.
Valid(t, r) ==
  \/ Mine(t, locks[r.lock])
  \/ ~ LOCK_GET_OWNED(locks[r.lock]) /\ locks[r.lock].ts = r.version

Extended(t) == /\ reg[t].ret = "extend"
               /\ SetTx(t, [tx[t] EXCEPT !.end = reg[t].now])
               /\ Go(t, "read4", reg[t]) /\ UNCHANGED <<ip, hist, seen>>

Validate(t) ==
  ValidateEntry(t, LAMBDA r : Valid(t, r),
                Extended(t) \/ Irrevocable(t) \/ Committing(t, NewValues(t)))

Timestamp(t) == TakeTimestamp(t, NewValues(t))

\* The value of entry i goes to memory; its lock is dropped by the last entry
\* of the stripe.
Install(t) ==
  LET w == tx[t].wset[reg[t].i]
  IN  /\ At(t, "install")
      /\ mem' = IF w.mask = Nothing THEN mem ELSE [mem EXCEPT ![w.addr] = w.value]
      /\ IF LastOfStripe(t, reg[t].i) THEN Go(t, "drop", reg[t])
                                      ELSE NextEntry(t, "install", "end")
      /\ UNCHANGED <<clock, locks, irrevocable, tx, prog, ip, hist, seen>>

Drop(t) ==
  /\ At(t, "drop")
  /\ locks' = [locks EXCEPT ![tx[t].wset[reg[t].i].lock] = Unlocked(reg[t].ts, 0)]
  /\ NextEntry(t, "install", "end")
  /\ UNCHANGED <<clock, mem, irrevocable, tx, prog, ip, hist, seen>>

Undo(t) ==
  LET w == tx[t].wset[reg[t].i]
  IN  /\ At(t, "undo")
      /\ locks' = IF LastOfStripe(t, reg[t].i) THEN [locks EXCEPT ![w.lock] = w.old]
                                               ELSE locks
      /\ NextEntry(t, "undo", "aborted")
      /\ UNCHANGED <<clock, mem, irrevocable, tx, prog, ip, hist, seen>>

Step(t) ==
  \/ CommonStep(t) \/ Read1(t) \/ Read2(t) \/ Read3(t) \/ Read4(t) \/ Extend(t)
  \/ Write1(t) \/ Acquire(t) \/ Validate(t) \/ CheckIrrevocable(t)
  \/ Timestamp(t) \/ Install(t) \/ Drop(t) \/ Undo(t)

Next == Rollover \/ \E t \in Threads : Step(t)
=============================================================================
