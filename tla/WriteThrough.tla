---------------------------- MODULE WriteThrough ----------------------------
(***************************************************************************)
(* TinySTM's write-through design (transactional/tinySTM/src/stm_wt.h).  A *)
(* store locks the stripe of its address at once and writes the memory;    *)
(* the write set is an undo log.  A rollback restores the memory and gives *)
(* the lock a new incarnation number, by which readers detect that they    *)
(* may have read the undone value.                                         *)
(***************************************************************************)
EXTENDS StmInternal

LOCAL INSTANCE SequencesExt

CONSTANT INCARNATION_MAX

Stripe(t) == GET_LOCK(Call(t).addr)

-----------------------------------------------------------------------------
\* stm_wt_read()

ReadWithLock(t, l) ==
  \/ /\ l.owner = t
     /\ Loaded(t, Call(t).addr, mem[Call(t).addr], TRUE)
     /\ Return(t) /\ UNCHANGED tx
  \/ /\ LOCK_GET_OWNED(l) /\ l.owner # t /\ tx[t].irrev # 0
     /\ Jump(t, "read1") /\ UNCHANGED <<tx, ip, seen>>
  \/ /\ LOCK_GET_OWNED(l) /\ l.owner # t /\ tx[t].irrev = 0
     /\ Conflict(t, Stripe(t)) /\ UNCHANGED <<ip, seen>>
  \/ /\ ~ LOCK_GET_OWNED(l)
     /\ Go(t, "read2", [ret |-> "extend", l |-> l]) /\ UNCHANGED <<tx, ip, seen>>

Read1(t) == /\ Calls(t, "load") \/ At(t, "read1")
            /\ ReadWithLock(t, locks[Stripe(t)])
            /\ UNCHANGED <<sharedvars, prog, hist>>

Read2(t) ==
  /\ At(t, "read2")
  /\ Go(t, "read3", [ret |-> "extend", l |-> reg[t].l, i |-> 0, now |-> 0,
                     value |-> mem[Call(t).addr]])
  /\ UNCHANGED <<sharedvars, tx, prog, ip, hist, seen>>

\* stm_wt_add_to_rs(), before the version is checked.
Remembered(t, version) ==
  IF tx[t].attr.ro THEN tx[t] ELSE
    [tx[t] EXCEPT !.rset = Append(@, [lock |-> Stripe(t), version |-> version])]

ReadDone(t) == Loaded(t, Call(t).addr, reg[t].value, FALSE) /\ Return(t)

Read3(t) ==
  LET l == reg[t].l
      l2 == locks[Stripe(t)]
  IN  /\ At(t, "read3")
      /\ \/ l # l2 /\ ReadWithLock(t, l2)
         \/ l = l2 /\ tx[t].irrev # 0 /\ ReadDone(t) /\ UNCHANGED tx
         \/ /\ l = l2 /\ tx[t].irrev = 0 /\ l.ts <= tx[t].end
            /\ SetTx(t, Remembered(t, l.ts)) /\ ReadDone(t)
         \/ /\ l = l2 /\ tx[t].irrev = 0 /\ l.ts > tx[t].end
            /\ SetTx(t, Remembered(t, l.ts))
            /\ IF tx[t].attr.ro THEN Rollback(t, "VAL_READ")
                                ELSE Go(t, "extend", reg[t])
            /\ UNCHANGED <<ip, seen>>
      /\ UNCHANGED <<sharedvars, prog, hist>>

-----------------------------------------------------------------------------
\* stm_wt_write(); stm_wt_RfW() writes with an empty mask and then reads.

Stored(t) == /\ IF Call(t).op = "RfW"
                  THEN Loaded(t, Call(t).addr, mem[Call(t).addr], TRUE)
                  ELSE UNCHANGED seen
             /\ Return(t)
Put(t) == mem' = [mem EXCEPT ![Call(t).addr] = Merge(@, Stamp(t), Call(t).mask)]

Entry(t, l) == [addr |-> Call(t).addr, lock |-> Stripe(t), mask |-> Call(t).mask,
                old |-> l, value |-> IF Call(t).mask = Nothing THEN Initially
                                     ELSE mem[Call(t).addr]]
\* Mutant: the value to restore is overwritten by a later one.
UpdateLogAlways(t) ==
  LET w == FirstOfStripe(t, Stripe(t))
  IN  [tx[t].wset EXCEPT ![w].value = mem[Call(t).addr]]

\* The stripe is ours.  For an address that is in the undo log the code looks
\* at the mask of the first entry of the stripe (w), not at that of the entry
\* it has found (prev), and remembers the old value in the first one.
UpdateLog(t) ==
  LET w == FirstOfStripe(t, Stripe(t))
  IN  IF tx[t].wset[w].mask # Nothing THEN tx[t].wset
      ELSE [tx[t].wset EXCEPT ![w].value = mem[Call(t).addr],
                              ![w].mask = Call(t).mask]

WriteOwned(t) ==
  LET it == Call(t)
      i == stm_has_written(t, it.addr)
  IN  \/ it.mask = Nothing /\ Stored(t) /\ UNCHANGED <<mem, tx>>
      \/ /\ it.mask # Nothing /\ i # 0
         /\ SetTx(t, [tx[t] EXCEPT !.wset = UpdateLog(t)])
         /\ Put(t) /\ Stored(t)
      \/ /\ it.mask # Nothing /\ i = 0 /\ Len(tx[t].wset) = tx[t].size
         /\ Rollback(t, "EXTEND_WS") /\ UNCHANGED <<mem, tx, ip, seen>>
      \/ /\ it.mask # Nothing /\ i = 0 /\ Len(tx[t].wset) < tx[t].size
         /\ SetTx(t, [tx[t] EXCEPT !.wset =
               Append(@, Entry(t, @[FirstOfStripe(t, Stripe(t))].old))])
         /\ Put(t) /\ Stored(t)

WriteFree(t, l) ==
  /\ IF tx[t].irrev = 0 /\ l.ts > tx[t].end /\ stm_has_read(t, Stripe(t))
       THEN Rollback(t, "VAL_WRITE")
       ELSE IF Len(tx[t].wset) = tx[t].size
              THEN Rollback(t, "EXTEND_WS")
              ELSE Go(t, "acquire", [ret |-> "none", l |-> l])
  /\ UNCHANGED <<mem, tx, ip, seen>>

Write1(t) ==
  LET l == locks[Stripe(t)]
  IN  /\ Calls(t, "store") \/ Calls(t, "RfW") \/ At(t, "write1")
      /\ \/ l.owner = t /\ WriteOwned(t)
         \/ /\ LOCK_GET_OWNED(l) /\ l.owner # t /\ tx[t].irrev # 0
            /\ Jump(t, "write1") /\ UNCHANGED <<mem, tx, ip, seen>>
         \/ /\ LOCK_GET_OWNED(l) /\ l.owner # t /\ tx[t].irrev = 0
            /\ Conflict(t, Stripe(t)) /\ UNCHANGED <<mem, ip, seen>>
         \/ ~ LOCK_GET_OWNED(l) /\ WriteFree(t, l)
      /\ UNCHANGED <<clock, locks, irrevocable, prog, hist>>

Acquire(t) ==
  LET s == Stripe(t)
  IN  /\ At(t, "acquire")
      /\ \/ /\ locks[s] = reg[t].l
            /\ locks' = [locks EXCEPT ![s] = LockedBy(t)]
            /\ SetTx(t, [tx[t] EXCEPT !.wset = Append(@, Entry(t, reg[t].l))])
            /\ Jump(t, "put")
         \/ /\ locks[s] # reg[t].l
            /\ Jump(t, "write1") /\ UNCHANGED <<locks, tx>>
      /\ UNCHANGED <<clock, mem, irrevocable, prog, ip, hist, seen>>

\* The store that follows the locking.
PutFirst(t) ==
  /\ At(t, "put") /\ Put(t) /\ Stored(t)
  /\ UNCHANGED <<clock, locks, irrevocable, tx, prog, hist>>

-----------------------------------------------------------------------------
\* stm_wt_validate(), stm_wt_extend(), stm_wt_commit()

Valid(t, r) ==
  \/ locks[r.lock].owner = t
  \/ ~ LOCK_GET_OWNED(locks[r.lock]) /\ locks[r.lock].ts = r.version

\* The value need not be read again: it is in the read set already.
Extended(t) == /\ reg[t].ret = "extend"
               /\ SetTx(t, [tx[t] EXCEPT !.end = reg[t].now])
               /\ ReadDone(t) /\ UNCHANGED hist

NewValues(t) ==
  [a \in {w.addr : w \in {x \in Range(tx[t].wset) : x.mask # Nothing}} |-> mem[a]]

Validate(t) ==
  ValidateEntry(t, LAMBDA r : Valid(t, r),
                Extended(t) \/ Irrevocable(t) \/ Committing(t, NewValues(t)))

Timestamp(t) == TakeTimestamp(t, NewValues(t))

Drop(t) ==
  /\ At(t, "install")
  /\ locks' = IF LastOfStripe(t, reg[t].i)
                THEN [locks EXCEPT ![tx[t].wset[reg[t].i].lock] = Unlocked(reg[t].ts, 0)]
                ELSE locks
  /\ NextEntry(t, "install", "end")
  /\ UNCHANGED <<clock, mem, irrevocable, tx, prog, ip, hist, seen>>

-----------------------------------------------------------------------------
\* stm_wt_rollback()

Undo(t) ==
  LET w == tx[t].wset[reg[t].i]
  IN  /\ At(t, "undo")
      /\ mem' = IF w.mask = Nothing THEN mem ELSE [mem EXCEPT ![w.addr] = w.value]
      /\ IF LastOfStripe(t, reg[t].i) THEN Go(t, "undrop", reg[t])
                                      ELSE NextEntry(t, "undo", "aborted")
      /\ UNCHANGED <<clock, locks, irrevocable, tx, prog, ip, hist, seen>>

Exhausted(t) == tx[t].wset[reg[t].i].old.inc = INCARNATION_MAX

\* No incarnation number is left: a new version, taken once.
NewVersion(t) ==
  /\ At(t, "undrop") /\ Exhausted(t) /\ reg[t].ts = 0
  /\ clock' = clock + 1 /\ hist' = Ticked
  /\ Go(t, "undrop", [reg[t] EXCEPT !.ts = clock + 1])
  /\ UNCHANGED <<locks, mem, irrevocable, tx, prog, ip, seen>>

UndoDrop(t) ==
  LET w == tx[t].wset[reg[t].i]
  IN  /\ At(t, "undrop") /\ ~ (Exhausted(t) /\ reg[t].ts = 0)
      /\ locks' = [locks EXCEPT ![w.lock] =
                     IF Exhausted(t) THEN Unlocked(reg[t].ts, 0)
                                     ELSE Unlocked(w.old.ts, w.old.inc + 1)]
      /\ NextEntry(t, "undo", "aborted")
      /\ UNCHANGED <<clock, mem, irrevocable, tx, prog, ip, hist, seen>>

Step(t) ==
  \/ CommonStep(t) \/ Read1(t) \/ Read2(t) \/ Read3(t) \/ Extend(t) \/ Write1(t)
  \/ Acquire(t) \/ PutFirst(t) \/ Validate(t) \/ CheckIrrevocable(t)
  \/ Timestamp(t) \/ Drop(t) \/ Undo(t) \/ NewVersion(t) \/ UndoDrop(t)

Next == Rollover \/ \E t \in Threads : Step(t)
=============================================================================
