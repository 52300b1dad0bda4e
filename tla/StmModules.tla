----------------------------- MODULE StmModules -----------------------------
(***************************************************************************)
(* The modules that TinySTM's users plug into their transactions           *)
(* (transactional/tinySTM/src): mod_log.c keeps an undo log for memory     *)
(* that transactions write directly, mod_cb_mem.c undoes allocations and   *)
(* delays deallocations, mod_stats.c and mod_ab.c keep statistics.  They   *)
(* register callbacks for the start, the commit and the abort of           *)
(* transactions and for the exit of threads.                               *)
(*                                                                         *)
(* A thread runs transactions, each a sequence of calls of these modules;  *)
(* an attempt may abort before any of them, MaxRetries times in a thread.  The *)
(* callbacks of a commit or an abort only touch memory of their thread, or *)
(* hold ab_mutex, and are one step; the exit of a thread adds to global    *)
(* counters with atomic instructions, one a step.                          *)
(***************************************************************************)
EXTENDS Integers, Sequences, FiniteSets

LOCAL INSTANCE SequencesExt
LOCAL INSTANCE FiniteSetsExt

CONSTANTS
  Threads,
  Cells,              \* memory that a thread writes directly
  TypeOf(_),          \* the type that a cell is logged with
  Workloads,          \* sequences of transactions: [id, ops]
  MaxRetries,
  Lengths,            \* possible lengths of a transaction
  BUFFER_SIZE, SamplingPeriod, ReservoirSize,
  MaxQueries          \* calls of stm_get_ab_stats()

VARIABLES
  work, op,           \* the transactions left to t and the next call in the first
  stage,              \* stage[t]: "run" or the next step of its exit, and a value it has loaded
  data,               \* data[t]: the cells of t
  undo,               \* undo[t]: the entries of mod_log, [addr, v, buf]
  heap,               \* heap[b]: how often block b has been freed
  held,               \* held[t]: the blocks that the program of t still uses
  icb,                \* icb[t]: the callbacks [commit, abort] of mod_cb_mem
  stats, total,       \* mod_stats: of each thread, and mod_stats_global
  samples,            \* samples[t]: mod_ab's buffer
  ab,                 \* ab[id]: the smart counter of an atomic block
  report, queries,    \* the last answer of stm_get_ab_stats()
  saved               \* ghost: saved[t]: [data, held] at the start of the transaction

threadvars == <<work, op, stage, data, undo, held, icb>>
modvars == <<threadvars, heap, stats, total, samples, ab, report, queries, saved>>

\* ULONG_MAX
Infinite == 99
NoStats == [commits |-> 0, retries |-> 0, min |-> Infinite, max |-> 0, acc |-> 0,
            cnt |-> 0]
NoReport == [id |-> 0]
Ids == {w.id : w \in UNION {Range(s) : s \in Workloads}}

\* sc_init()
sc_init == [samples |-> 0, min |-> 0, max |-> 0, reservoir |-> <<>>, sorted |-> TRUE]

\* The initialisation of the modules, and their callbacks for new threads.
mod_log_init == undo = [t \in Threads |-> <<>>]
NoCallbacks == [commit |-> <<>>, abort |-> <<>>]
mod_cb_mem_init == icb = [t \in Threads |-> NoCallbacks]
mod_stats_init == stats = [t \in Threads |-> NoStats] /\ total = NoStats
mod_ab_init == /\ samples = [t \in Threads |-> [buffer |-> <<>>, total |-> 0]]
               /\ ab = [id \in {} |-> sc_init]

Init ==
  /\ work \in [Threads -> Workloads]
  /\ op = [t \in Threads |-> 1]
  /\ stage = [t \in Threads |-> <<"run", 0>>]
  /\ data = [t \in Threads |-> [c \in Cells |-> <<0, 0>>]]
  /\ heap = [b \in {} |-> 0]
  /\ held = [t \in Threads |-> <<>>]
  /\ mod_log_init /\ mod_cb_mem_init /\ mod_stats_init /\ mod_ab_init
  /\ report = NoReport /\ queries = 0
  /\ saved = [t \in Threads |-> [data |-> data[t], held |-> held[t]]]

InStage(t, s) == stage[t][1] = s
Working(t) == InStage(t, "run") /\ work[t] # <<>>
Ops(t) == Head(work[t]).ops
Calls(t, name) == Working(t) /\ op[t] <= Len(Ops(t)) /\ Ops(t)[op[t]].op = name
Advance(t) == op' = [op EXCEPT ![t] = @ + 1]

-----------------------------------------------------------------------------
\* mod_log

\* The old value as an entry of this type keeps it: the members u16, u32 and
\* u64 of the union have a char for it.
Kept(type, v) == IF type \in {"u16", "u32", "u64"} THEN <<v[1], 0>> ELSE v

\* stm_log_*() and the write that the program does next.  stm_log_bytes()
\* allocates a buffer for the old value.
Log(t) ==
  LET c == Ops(t)[op[t]].cell
      type == TypeOf(c)
      new == <<op[t], op[t]>>
  IN  /\ Calls(t, "log")
      /\ undo' = [undo EXCEPT ![t] = Append(@, [addr |-> c, v |-> Kept(type, data[t][c]),
                                                buf |-> type = "bytes"])]
      /\ data' = [data EXCEPT ![t][c] = new]
      /\ Advance(t)
      /\ UNCHANGED <<work, stage, heap, held, icb, stats, total, samples, ab, report, queries,
                     saved>>
\* Mutant: the log in the order of the writes.
UndoneForward(t) ==
  LET redo[k \in 0 .. Len(undo[t])] ==
        IF k = 0 THEN data[t] ELSE [redo[k - 1] EXCEPT ![undo[t][k].addr] = undo[t][k].v]
  IN  redo[Len(undo[t])]

\* mod_log_on_abort(): the log in reverse order, from entry n down.
Undone(t) ==
  LET n == Len(undo[t])
      back[k \in 0 .. n] ==
        IF k = 0 THEN data[t]
        ELSE [back[k - 1] EXCEPT ![undo[t][n + 1 - k].addr] = undo[t][n + 1 - k].v]
  IN  back[n]

mod_log_on_abort(t) == /\ data' = [data EXCEPT ![t] = Undone(t)]
                       /\ undo' = [undo EXCEPT ![t] = <<>>]
mod_log_on_commit(t) == undo' = [undo EXCEPT ![t] = <<>>] /\ UNCHANGED data

-----------------------------------------------------------------------------
\* mod_cb_mem

\* int_stm_malloc(), int_stm_calloc(): freed if the transaction aborts.
Malloc(t) ==
  LET b == <<t, Cardinality({x \in DOMAIN heap : x[1] = t}) + 1>>
  IN  /\ Calls(t, "malloc")
      /\ heap' = [x \in DOMAIN heap \cup {b} |-> IF x = b THEN 0 ELSE heap[x]]
      /\ held' = [held EXCEPT ![t] = Append(@, b)]
      /\ icb' = [icb EXCEPT ![t].abort = Append(@, b)]
      /\ Advance(t)
      /\ UNCHANGED <<work, stage, data, undo, stats, total, samples, ab, report, queries, saved>>

\* int_stm_free2() of the oldest block: freed when the transaction commits.
Free(t) ==
  /\ Calls(t, "free")
  /\ icb' = [icb EXCEPT ![t].commit = Append(@, Head(held[t]))]
  /\ held' = [held EXCEPT ![t] = Tail(@)]
  /\ Advance(t)
  /\ UNCHANGED <<work, stage, data, undo, heap, stats, total, samples, ab, report, queries,
                 saved>>

\* Every callback of the list frees its block.
FreedAll(list) ==
  [b \in DOMAIN heap |-> heap[b] + Cardinality({k \in DOMAIN list : list[k] = b})]

mod_cb_on_commit(t) == /\ heap' = FreedAll(icb[t].commit)
                       /\ icb' = [icb EXCEPT ![t] = NoCallbacks]
mod_cb_on_abort(t) == /\ heap' = FreedAll(icb[t].abort)
                      /\ icb' = [icb EXCEPT ![t] = NoCallbacks]

-----------------------------------------------------------------------------
\* mod_ab

\* sc_add_sample(): once the reservoir is full the sample replaces a random
\* element of it or is dropped.
sc_add_sample(c, n) ==
  LET counted == [c EXCEPT !.samples = @ + 1, !.sorted = FALSE,
                           !.min = IF c.samples = 0 \/ n < @ THEN n ELSE @,
                           !.max = IF c.samples = 0 \/ n > @ THEN n ELSE @]
  IN  IF c.samples < ReservoirSize
        THEN {[counted EXCEPT !.reservoir = Append(@, n)]}
        ELSE {counted} \cup {[counted EXCEPT !.reservoir[k] = n] : k \in DOMAIN c.reservoir}

Counter(f, id) == IF id \in DOMAIN f THEN f[id] ELSE sc_init

\* sc_add_samples(): the samples of a buffer, added one after the other to the
\* counters of their atomic blocks.
AddSamples(buffer) ==
  LET add[k \in 0 .. Len(buffer)] ==
        IF k = 0 THEN {ab}
        ELSE UNION {{[id \in DOMAIN f \cup {buffer[k].id} |->
                        IF id = buffer[k].id THEN c ELSE f[id]] :
                      c \in sc_add_sample(Counter(f, buffer[k].id), buffer[k].length)} :
                    f \in add[k - 1]}
  IN  add[Len(buffer)]

mod_ab_on_commit(t, id, length) ==
  LET n == samples[t].total + 1
      s == [samples[t] EXCEPT !.total = n]
      kept == [s EXCEPT !.buffer = Append(@, [id |-> id, length |-> length])]
  IN  \/ n % SamplingPeriod # 0 /\ samples' = [samples EXCEPT ![t] = s] /\ UNCHANGED ab
      \/ /\ n % SamplingPeriod = 0 /\ Len(kept.buffer) < BUFFER_SIZE
         /\ samples' = [samples EXCEPT ![t] = kept] /\ UNCHANGED ab
      \/ /\ n % SamplingPeriod = 0 /\ Len(kept.buffer) = BUFFER_SIZE
         /\ samples' = [samples EXCEPT ![t] = [kept EXCEPT !.buffer = <<>>]]
         /\ ab' \in AddSamples(kept.buffer)

\* sc_percentile(), with sc_round(); the array is sorted first.
Percentile(c, sorted, p) ==
  LET length == Len(c.reservoir)
      i == (2 * length * p + 100) \div 200
  IN  IF i <= 0 THEN c.min ELSE IF i >= length THEN c.max ELSE sorted[i + 1]

\* stm_get_ab_stats()
GetAbStats(id) ==
  LET c == ab[id]
      r == IF c.sorted THEN c.reservoir ELSE SortSeq(c.reservoir, LAMBDA x, y : x < y)
  IN  /\ queries < MaxQueries /\ id \in DOMAIN ab
      /\ report' = [id |-> id, min |-> c.min, max |-> c.max, p50 |-> Percentile(c, r, 50),
                    p90 |-> Percentile(c, r, 90), p95 |-> Percentile(c, r, 95)]
      /\ ab' = IF Len(r) < 2 THEN ab
               ELSE [ab EXCEPT ![id].reservoir = r, ![id].sorted = TRUE]
      /\ queries' = queries + 1
      /\ UNCHANGED <<threadvars, heap, stats, total, samples, saved>>

-----------------------------------------------------------------------------
\* mod_stats

mod_stats_on_commit(t) ==
  LET n == stats[t].retries
  IN  stats' = [stats EXCEPT ![t] =
                  [@ EXCEPT !.commits = @ + 1, !.acc = @ + n, !.cnt = @ + 1, !.retries = 0,
                            !.min = IF @ > n THEN n ELSE @, !.max = IF @ < n THEN n ELSE @]]
mod_stats_on_abort(t) == stats' = [stats EXCEPT ![t].retries = @ + 1]

-----------------------------------------------------------------------------
\* The end of an attempt: the callbacks of all modules.

Commit(t) ==
  /\ Working(t) /\ op[t] > Len(Ops(t))
  /\ mod_log_on_commit(t) /\ mod_cb_on_commit(t) /\ mod_stats_on_commit(t)
  /\ \E n \in Lengths : mod_ab_on_commit(t, Head(work[t]).id, n)
  /\ work' = [work EXCEPT ![t] = Tail(@)]
  /\ op' = [op EXCEPT ![t] = 1]
  /\ saved' = [saved EXCEPT ![t] = [data |-> data[t], held |-> held[t]]]
  /\ UNCHANGED <<stage, held, total, report, queries>>

\* The program restarts with the variables that it had at the start.
Abort(t) ==
  /\ Working(t) /\ stats[t].retries + stats[t].acc < MaxRetries
  /\ mod_log_on_abort(t) /\ mod_cb_on_abort(t) /\ mod_stats_on_abort(t)
  /\ held' = [held EXCEPT ![t] = saved[t].held]
  /\ op' = [op EXCEPT ![t] = 1]
  /\ UNCHANGED <<work, stage, total, samples, ab, report, queries, saved>>

-----------------------------------------------------------------------------
\* mod_ab_on_thread_exit() and mod_stats_on_thread_exit().

Others == <<work, op, data, undo, held, icb, heap, stats, report, queries, saved>>
StageWith(t, s, n) == stage' = [stage EXCEPT ![t] = <<s, n>>]
Stage(t, s) == StageWith(t, s, 0)

ExitAb(t) ==
  /\ InStage(t, "run") /\ work[t] = <<>>
  /\ ab' \in AddSamples(samples[t].buffer)
  /\ samples' = [samples EXCEPT ![t].buffer = <<>>]
  /\ Stage(t, "commits") /\ UNCHANGED <<Others, total>>

\* The three ATOMIC_FETCH_ADD_FULL()
AddGlobal(t) ==
  /\ \/ /\ InStage(t, "commits") /\ Stage(t, "cnt")
        /\ total' = [total EXCEPT !.commits = @ + stats[t].commits]
     \/ /\ InStage(t, "cnt") /\ Stage(t, "acc")
        /\ total' = [total EXCEPT !.cnt = @ + stats[t].cnt]
     \/ /\ InStage(t, "acc") /\ Stage(t, "max")
        /\ total' = [total EXCEPT !.acc = @ + stats[t].acc]
  /\ UNCHANGED <<Others, samples, ab>>

\* retry_max and retry_min: a load, and a compare and swap if it is worth it.
LoadMax(t) ==
  /\ InStage(t, "max")
  /\ IF stats[t].max > total.max THEN StageWith(t, "cas_max", total.max) ELSE Stage(t, "min")
  /\ UNCHANGED <<Others, total, samples, ab>>

\* Mutant: the maximum is stored whatever it has become since the load.
CasMaxBlind(t) ==
  /\ InStage(t, "cas_max")
  /\ total' = [total EXCEPT !.max = stats[t].max] /\ Stage(t, "min")
  /\ UNCHANGED <<Others, samples, ab>>

CasMax(t) ==
  /\ InStage(t, "cas_max")
  /\ IF total.max = stage[t][2]
       THEN total' = [total EXCEPT !.max = stats[t].max] /\ Stage(t, "min")
       ELSE Stage(t, "max") /\ UNCHANGED total
  /\ UNCHANGED <<Others, samples, ab>>

LoadMin(t) ==
  /\ InStage(t, "min")
  /\ IF stats[t].min < total.min THEN StageWith(t, "cas_min", total.min) ELSE Stage(t, "exited")
  /\ UNCHANGED <<Others, total, samples, ab>>

CasMin(t) ==
  /\ InStage(t, "cas_min")
  /\ IF total.min = stage[t][2]
       THEN total' = [total EXCEPT !.min = stats[t].min] /\ Stage(t, "exited")
       ELSE Stage(t, "min") /\ UNCHANGED total
  /\ UNCHANGED <<Others, samples, ab>>

ModStep(t) ==
  \/ Log(t) \/ Malloc(t) \/ Free(t) \/ Commit(t) \/ ExitAb(t) \/ AddGlobal(t)
  \/ LoadMax(t) \/ CasMax(t) \/ LoadMin(t) \/ CasMin(t)

ModOver == \A t \in Threads : InStage(t, "exited")
ModNext == \/ \E t \in Threads : ModStep(t) \/ Abort(t)
           \/ \E id \in Ids : GetAbStats(id)

-----------------------------------------------------------------------------

\* mod_log: an attempt starts with the memory that the first one started with.
AbortRestoresData ==
  \A t \in Threads : Working(t) /\ op[t] = 1 => data[t] = saved[t].data

\* mod_cb_mem: no block is freed twice, none that the program still uses (or
\* will use again after an abort) is freed, and between transactions the blocks
\* that are not freed are those in use.
BlocksAreFreedOnce ==
  /\ \A b \in DOMAIN heap : heap[b] <= 1
  /\ \A t \in Threads : /\ \A b \in Range(held[t]) \cup Range(saved[t].held) : heap[b] = 0
                        /\ op[t] = 1 => {b \in DOMAIN heap : b[1] = t /\ heap[b] = 0}
                                          = Range(held[t])

\* mod_stats: when all threads have exited the global counters are the sums and
\* the extremes of theirs, although they have been updated concurrently.
SumOver(f(_)) == MapThenSumSet(f, Threads)
StatisticsAddUp ==
  LET Commits(t) == stats[t].commits
      Retries(t) == stats[t].acc
  IN  ModOver => /\ total.commits = SumOver(Commits) /\ total.cnt = total.commits
                 /\ total.acc = SumOver(Retries)
                 /\ total.max = Max({stats[t].max : t \in Threads})
                 /\ total.min = Min({stats[t].min : t \in Threads})

\* mod_ab: no sample is lost, and what stm_get_ab_stats() reports is ordered;
\* "At this point, the reservoir is sorted".
SamplesAreKept ==
  LET Buffered(t) == Len(samples[t].buffer)
      Due(t) == samples[t].total \div SamplingPeriod
      Counted(id) == ab[id].samples
  IN  /\ MapThenSumSet(Counted, DOMAIN ab) + SumOver(Buffered) = SumOver(Due)
      /\ \A id \in DOMAIN ab :
           LET r == ab[id].reservoir
           IN  ab[id].sorted => \A j, k \in DOMAIN r : j < k => r[j] <= r[k]
      /\ report # NoReport =>
           /\ report.min <= report.p50 /\ report.p50 <= report.p90
           /\ report.p90 <= report.p95 /\ report.p95 <= report.max
=============================================================================
