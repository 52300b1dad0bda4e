------------------------------- MODULE EpochGC -------------------------------
(***************************************************************************)
(* TinySTM's epoch-based garbage collector                                 *)
(* (transactional/tinySTM/src/gc.c) with its callers in stm_internal.h and *)
(* mod_cb_mem.c (build option EPOCH_GC).  A thread publishes the start     *)
(* time of its transaction in a slot; a block that a transaction unlinked  *)
(* waits in a region of the slot until every published time is later.      *)
(*                                                                         *)
(* Of the transactions only this is kept: the commit at time u of a        *)
(* transaction that frees replaces the block that was linked at u - 1, so  *)
(* that a transaction with start time s may use the blocks linked from s   *)
(* on.  Block base + s is the one that is linked at time s.                *)
(*                                                                         *)
(* A thread that has read the clock for the lower bound of its new slot    *)
(* before a roll-over stores it after (late): it bounds nothing, up to the *)
(* first transaction, which may then use the blocks linked since it has    *)
(* published its start.                                                    *)
(***************************************************************************)
EXTENDS Naturals, Sequences, FiniteSets, Functions

CONSTANTS
  Threads,
  MAX_GC_THREADS,
  EPOCH_MAX,
  Scripts,        \* sequences of "read" and "free" transactions
  OwnBlocks,      \* what an exiting thread frees: r_set.entries, w_set.entries, tx
  Limits          \* values of VERSION_MAX

VARIABLES
  slots,          \* gc_threads.slots: [used, ts, regions]
  nb_active,      \* gc_threads.nb_active
  clock,          \* CLOCK, which gc_current_epoch() reads
  limit,          \* VERSION_MAX
  script,         \* the transactions that each thread still has to run
  at,             \* at[t]: the next step of t
  loc,            \* loc[t]: its local variables, and the ghosts late and since
  base,           \* ghost: the number of the block linked at time 0
  freed           \* the blocks given back to the allocator

gcvars == <<slots, nb_active, clock, limit, script, at, loc, base, freed>>

Slots == 1 .. MAX_GC_THREADS
Node(n) == <<"node", n>>
NoLocals == [i |-> 1, used |-> "NULL", start |-> 0, now |-> 0, scan |-> 1, min |-> 0,
             todo |-> <<>>, reg |-> FALSE, late |-> FALSE, since |-> 0]

\* gc_init(), called by stm_init()
GcInit ==
  /\ slots = [i \in Slots |-> [used |-> "NULL", ts |-> EPOCH_MAX, regions |-> <<>>]]
  /\ nb_active = 0 /\ clock = 0 /\ limit \in Limits
  /\ script \in [Threads -> Scripts]
  /\ at = [t \in Threads |-> "init"]
  /\ loc = [t \in Threads |-> NoLocals]
  /\ base = 0 /\ freed = {}

At(t, l) == at[t] = l
Goto(t, l) == at' = [at EXCEPT ![t] = l]
Locals(t, r) == loc' = [loc EXCEPT ![t] = r]
Slot(t) == slots[loc[t].i]
\* The threads that stm_quiesce_barrier() waits for.
Registered(t) == loc[t].reg
Blocks(rs) == UNION {Range(rs[k].blocks) : k \in DOMAIN rs}
Waiting == UNION {Blocks(slots[i].regions) : i \in Slots}
SetSlot(t, f) == slots' = [slots EXCEPT ![loc[t].i] = f]

-----------------------------------------------------------------------------
\* gc_init_thread()

CountThread(t) ==
  /\ At(t, "init") /\ nb_active < MAX_GC_THREADS
  /\ nb_active' = nb_active + 1
  /\ Goto(t, "find")
  /\ UNCHANGED <<slots, clock, limit, script, loc, base, freed>>

NextSlot(t) == Locals(t, [loc[t] EXCEPT !.i = IF @ = MAX_GC_THREADS THEN 1 ELSE @ + 1])

LoadUsed(t) ==
  /\ At(t, "find")
  /\ IF Slot(t).used = "BUSY"
       THEN NextSlot(t) /\ UNCHANGED at
       ELSE Goto(t, "cas") /\ Locals(t, [loc[t] EXCEPT !.used = Slot(t).used])
  /\ UNCHANGED <<slots, nb_active, clock, limit, script, base, freed>>

\* Mutant: a slot that nobody has used yet is not claimed.
ClaimSlotUsedBefore(t) ==
  /\ At(t, "cas")
  /\ IF Slot(t).used = loc[t].used /\ loc[t].used # "NULL"
       THEN /\ SetSlot(t, [Slot(t) EXCEPT !.used = "BUSY"])
            /\ Goto(t, "epoch") /\ Locals(t, [loc[t] EXCEPT !.used = "NULL"])
       ELSE NextSlot(t) /\ Goto(t, "find") /\ UNCHANGED slots
  /\ UNCHANGED <<nb_active, clock, limit, script, base, freed>>

ClaimSlot(t) ==
  /\ At(t, "cas")
  /\ IF Slot(t).used = loc[t].used
       THEN /\ SetSlot(t, [Slot(t) EXCEPT !.used = "BUSY"])
            /\ Goto(t, "epoch") /\ Locals(t, [loc[t] EXCEPT !.used = "NULL"])
       ELSE NextSlot(t) /\ Goto(t, "find") /\ UNCHANGED slots
  /\ UNCHANGED <<nb_active, clock, limit, script, base, freed>>

ReadEpoch(t) ==
  /\ At(t, "epoch")
  /\ Locals(t, [loc[t] EXCEPT !.start = clock]) /\ Goto(t, "bound")
  /\ UNCHANGED <<slots, nb_active, clock, limit, script, base, freed>>

SetLowerBound(t) ==
  /\ At(t, "bound")
  /\ SetSlot(t, [Slot(t) EXCEPT !.ts = loc[t].start]) /\ Goto(t, "idle")
  /\ UNCHANGED <<nb_active, clock, limit, script, loc, base, freed>>

\* stm_quiesce_enter_thread(): from now on the roll-over waits for the thread.
Enter(t) ==
  /\ At(t, "idle")
  /\ Locals(t, [loc[t] EXCEPT !.reg = TRUE]) /\ Goto(t, "entered")
  /\ UNCHANGED <<slots, nb_active, clock, limit, script, base, freed>>

-----------------------------------------------------------------------------
\* Transactions: int_stm_prepare() with gc_set_epoch(), and commit.

Start(t) ==
  /\ At(t, "start") \/ (At(t, "entered") /\ script[t] # <<>>)
  /\ Locals(t, [loc[t] EXCEPT !.start = clock, !.since = clock])
  /\ Goto(t, IF clock >= limit THEN "barrier" ELSE "publish")
  /\ UNCHANGED <<slots, nb_active, clock, limit, script, base, freed>>

gc_set_epoch(t) ==
  /\ At(t, "publish")
  /\ SetSlot(t, [Slot(t) EXCEPT !.ts = loc[t].start]) /\ Goto(t, "run")
  /\ Locals(t, [loc[t] EXCEPT !.since = IF loc[t].late THEN clock ELSE @])
  /\ UNCHANGED <<nb_active, clock, limit, script, base, freed>>

\* The transaction is over: the next one has its bound in the slot.
Ended(t) == [loc[t] EXCEPT !.late = FALSE]

Restart(t) ==
  /\ At(t, "run") /\ Goto(t, "start") /\ Locals(t, Ended(t))
  /\ UNCHANGED <<slots, nb_active, clock, limit, script, base, freed>>

CommitRead(t) ==
  /\ At(t, "run") /\ Head(script[t]) = "read"
  /\ script' = [script EXCEPT ![t] = Tail(@)] /\ Goto(t, "entered") /\ Locals(t, Ended(t))
  /\ UNCHANGED <<slots, nb_active, clock, limit, base, freed>>

\* The commit unlinks a block; mod_cb_on_commit() then calls epoch_free().
CommitFree(t) ==
  /\ At(t, "run") /\ Head(script[t]) = "free"
  /\ clock' = clock + 1
  /\ script' = [script EXCEPT ![t] = Tail(@)]
  /\ Locals(t, [Ended(t) EXCEPT !.todo = <<Node(base + clock)>>]) /\ Goto(t, "clock")
  /\ UNCHANGED <<slots, nb_active, limit, base, freed>>

\* int_stm_exit_thread(): the thread leaves the list of those that the roll-over
\* waits for, and frees its two sets and its descriptor.
Leave(t) ==
  /\ At(t, "entered") /\ script[t] = <<>>
  /\ Locals(t, [loc[t] EXCEPT !.todo = [k \in DOMAIN OwnBlocks |-> <<OwnBlocks[k], t>>],
                               !.reg = FALSE])
  /\ Goto(t, "clock")
  /\ UNCHANGED <<slots, nb_active, clock, limit, script, base, freed>>

ReadClock(t) ==
  /\ At(t, "clock")
  /\ Locals(t, [loc[t] EXCEPT !.now = clock]) /\ Goto(t, "free")
  /\ UNCHANGED <<slots, nb_active, clock, limit, script, base, freed>>

-----------------------------------------------------------------------------
\* gc_free(): the block goes to the last region or to a new one.
gc_free(t) ==
  LET rs == Slot(t).regions
      n == Len(rs)
      b == Head(loc[t].todo)
      more == IF n = 0 \/ rs[n].ts < loc[t].now
                THEN Append(rs, [ts |-> loc[t].now, blocks |-> <<b>>])
                ELSE [rs EXCEPT ![n].blocks = <<b>> \o @]
  IN  /\ At(t, "free")
      /\ SetSlot(t, [Slot(t) EXCEPT !.regions = more])
      /\ Locals(t, [loc[t] EXCEPT !.todo = Tail(@)]) /\ Goto(t, "cleanup")
      /\ UNCHANGED <<nb_active, clock, limit, script, base, freed>>

\* The call of gc_free() is over: the next block, or what the caller does next.
AfterFree(t) == IF loc[t].todo # <<>> THEN "free"
                ELSE IF Registered(t) THEN "entered" ELSE "clear"

\* gc_cleanup(), called after every gc_free() (CLEANUP_FREQUENCY is 1), up to
\* the reading of the epoch.
gc_cleanup(t) ==
  /\ At(t, "cleanup")
  /\ IF Slot(t).regions = <<>>
       THEN Goto(t, AfterFree(t)) /\ UNCHANGED loc
       ELSE /\ Locals(t, [loc[t] EXCEPT !.min = clock, !.scan = 1])
            /\ Goto(t, "scan")
  /\ UNCHANGED <<slots, nb_active, clock, limit, script, base, freed>>

\* gc_compute_min(): the load of used and, for a used slot, of ts.
ScanUsed(t) ==
  LET i == loc[t].scan
      used == IF i > MAX_GC_THREADS THEN "NULL" ELSE slots[i].used
  IN  /\ At(t, "scan")
      /\ \/ used = "NULL" /\ Goto(t, "collect") /\ UNCHANGED loc
         \/ used = "BUSY" /\ Goto(t, "scan_ts") /\ UNCHANGED loc
         \/ /\ used \in {"FREE_EMPTY", "FREE_FULL"}
            /\ Locals(t, [loc[t] EXCEPT !.scan = @ + 1]) /\ UNCHANGED at
      /\ UNCHANGED <<slots, nb_active, clock, limit, script, base, freed>>

ScanTs(t) ==
  LET ts == slots[loc[t].scan].ts
  IN  /\ At(t, "scan_ts") /\ Goto(t, "scan")
      /\ IF ts = EPOCH_MAX
           THEN UNCHANGED loc
           ELSE Locals(t, [loc[t] EXCEPT !.min = IF ts < @ THEN ts ELSE @,
                                         !.scan = @ + 1])
      /\ UNCHANGED <<slots, nb_active, clock, limit, script, base, freed>>

\* gc_cleanup_thread(): the regions older than the minimum are freed.
gc_cleanup_thread(t) ==
  LET rs == Slot(t).regions
      old == {n \in 0 .. Len(rs) : \A k \in 1 .. n : rs[k].ts < loc[t].min}
  IN  /\ At(t, "collect")
      /\ \E n \in old :
           /\ \A m \in old : m <= n
           /\ freed' = freed \cup Blocks(SubSeq(rs, 1, n))
           /\ SetSlot(t, [Slot(t) EXCEPT !.regions = SubSeq(rs, n + 1, Len(rs))])
      /\ Goto(t, AfterFree(t))
      /\ Locals(t, [loc[t] EXCEPT !.scan = 1, !.min = 0,
                                  !.now = IF loc[t].todo = <<>> THEN 0 ELSE @])
      /\ UNCHANGED <<nb_active, clock, limit, script, base>>

-----------------------------------------------------------------------------
\* gc_exit_thread()

ClearTs(t) ==
  /\ At(t, "clear")
  /\ SetSlot(t, [Slot(t) EXCEPT !.ts = EPOCH_MAX]) /\ Goto(t, "release")
  /\ UNCHANGED <<nb_active, clock, limit, script, loc, base, freed>>

ReleaseSlot(t) ==
  /\ At(t, "release")
  /\ SetSlot(t, [Slot(t) EXCEPT !.used = IF Slot(t).regions = <<>> THEN "FREE_EMPTY"
                                         ELSE "FREE_FULL"])
  /\ Goto(t, "uncount")
  /\ UNCHANGED <<nb_active, clock, limit, script, loc, base, freed>>

UncountThread(t) ==
  /\ At(t, "uncount")
  /\ nb_active' = nb_active - 1 /\ Goto(t, "exited")
  /\ UNCHANGED <<slots, clock, limit, script, loc, base, freed>>

\* rollover_clock() with gc_reset(), once all registered threads wait for it:
\* everything that waits is freed, and no slot has a lower bound.
Rollover ==
  LET busy == {i \in Slots : \A j \in 1 .. i : slots[j].used # "NULL"}
  IN  /\ \E t \in Threads : At(t, "barrier")
      /\ \A t \in Threads : Registered(t) => At(t, "barrier")
      /\ base' = base + clock /\ clock' = 0
      /\ freed' = freed \cup Waiting
      /\ slots' = [i \in Slots |-> IF i \notin busy THEN slots[i] ELSE
                     [slots[i] EXCEPT !.ts = EPOCH_MAX, !.regions = <<>>]]
      /\ at' = [t \in Threads |-> IF At(t, "barrier") THEN "start" ELSE at[t]]
      /\ loc' = [t \in Threads |-> [loc[t] EXCEPT !.late = At(t, "bound")]]
      /\ UNCHANGED <<nb_active, limit, script>>

\* gc_exit(), called by stm_exit() after all threads have exited.
gc_exit ==
  /\ \A t \in Threads : At(t, "exited")
  /\ nb_active = 0
  /\ freed' = freed \cup Waiting
  /\ slots' = [i \in Slots |-> [slots[i] EXCEPT !.regions = <<>>]]
  /\ at' = [t \in Threads |-> "over"]
  /\ UNCHANGED <<nb_active, clock, limit, script, loc, base>>

GcStep(t) ==
  \/ CountThread(t) \/ LoadUsed(t) \/ ClaimSlot(t) \/ ReadEpoch(t) \/ SetLowerBound(t)
  \/ Enter(t) \/ Start(t) \/ gc_set_epoch(t) \/ CommitRead(t) \/ CommitFree(t)
  \/ Leave(t) \/ ReadClock(t) \/ gc_free(t) \/ gc_cleanup(t) \/ ScanUsed(t) \/ ScanTs(t)
  \/ gc_cleanup_thread(t) \/ ClearTs(t) \/ ReleaseSlot(t) \/ UncountThread(t)

GcOver == \A t \in Threads : At(t, "over")
GcNext == (\E t \in Threads : GcStep(t) \/ Restart(t)) \/ Rollover \/ gc_exit

-----------------------------------------------------------------------------

\* A block that a running transaction may use has not been freed: it was linked
\* at the start of the transaction or after it.
Running(t) == At(t, "run") \/ (At(t, "publish") /\ ~ loc[t].late)
FreedIsUnreachable ==
  \A t \in Threads : Running(t) =>
    \A b \in freed : b[1] = "node" => b[2] < base + loc[t].since

\* Every block is freed at most once, those that still wait included.
FreedOnce ==
  /\ Waiting \cap freed = {}
  /\ \A i, j \in Slots : \A k \in DOMAIN slots[i].regions, l \in DOMAIN slots[j].regions :
       \A m \in DOMAIN slots[i].regions[k].blocks, n \in DOMAIN slots[j].regions[l].blocks :
         slots[i].regions[k].blocks[m] = slots[j].regions[l].blocks[n] => <<i, k, m>> = <<j, l, n>>

\* When the library is closed every unlinked block has been freed.
NothingLeaks ==
  GcOver => /\ {Node(n) : n \in 0 .. base + clock - 1} \subseteq freed
            /\ \A t \in Threads, k \in DOMAIN OwnBlocks : <<OwnBlocks[k], t>> \in freed

\* gc_free(): "Function must be called with non-decreasing epoch numbers for any
\* given thread!", which its assertion states of the slot.
EpochsIncrease ==
  \A t \in Threads : At(t, "free") /\ Slot(t).regions # <<>> =>
                       Slot(t).regions[Len(Slot(t).regions)].ts <= loc[t].now
==============================================================================
