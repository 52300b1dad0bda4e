----------------------------- MODULE MCTinySTM -----------------------------
(***************************************************************************)
(* The three designs of TinySTM for TLC: the initial state chooses the     *)
(* design and a program for each thread.  The programs are the counting    *)
(* ones of this repository (transactional/mutex_tinystm.c, array_tinystm.c *)
(* and rw_tinystm.c) and single transactions.  An int is half a word, so   *)
(* that stm_store_int() is a masked store (wrappers.c) and two elements of *)
(* the array share a word.                                                 *)
(***************************************************************************)
EXTENDS StmInternal

LOCAL INSTANCE TLC
LOCAL INSTANCE SequencesExt

CONSTANTS
  a, b, c, INCARNATION_MAX, Designs, Bodies,
  Iterations      \* rounds of the loop of count()

VARIABLE design

mcvars == <<stmvars, design>>

ETL == INSTANCE WriteBackETL
CTL == INSTANCE WriteBackCTL
WT == INSTANCE WriteThrough
ETLDelay == INSTANCE WriteBackETL WITH Delay <- TRUE

\* b and c share a stripe.
MCAddrs == {a, b, c}
MCStripes == {1, 2}
MCGetLock(x) == IF x = a THEN 1 ELSE 2

-----------------------------------------------------------------------------
\* The calls of the programs.
Begin == [op |-> "start", attr |-> NoAttr]
BeginReadOnly == [op |-> "start", attr |-> [NoAttr EXCEPT !.ro = TRUE]]
BeginNoRetry == [op |-> "start", attr |-> [NoAttr EXCEPT !.no_retry = TRUE]]
Commits == [op |-> "commit"]
Aborts == [op |-> "abort"]
Irrevocably == [op |-> "irrevocable"]
Load(x) == [op |-> "load", addr |-> x]
Store2(x, m) == [op |-> "store", addr |-> x, mask |-> m]
Store(x) == Store2(x, Full)
RfW(x) == [op |-> "RfW", addr |-> x, mask |-> Nothing]

\* One iteration of the loops: a transaction that increments an int in half h of
\* word x, or only reads it.
Increment(x, h) == <<Begin, Load(x), Store2(x, {h}), Commits>>
ReadInt(x) == <<Begin, Load(x), Commits>>

Loop(Body(_)) == FlattenSeq([i \in 1 .. Iterations |-> Body(i - 1)])

\* count() of mutex_tinystm.c: always the same counter.
mutex_tinystm(x) == LET body(i) == Increment(x, 1) IN Loop(body)

\* count() of array_tinystm.c: the elements in turn.
array_tinystm(x) == LET body(i) == Increment(x, 1 + (i % 2)) IN Loop(body)

\* count() of rw_tinystm.c: one transaction in ten writes; here the first one.
rw_tinystm(x) ==
  LET body(i) == IF i % 10 = 0 THEN Increment(x, 1) ELSE ReadInt(x) IN Loop(body)

-----------------------------------------------------------------------------
\* The programs: the counting programs, and single transactions in which every
\* call and every kind of conflict between two of them happens.
Program == [
  counter  |-> mutex_tinystm(a),
  array    |-> array_tinystm(a),
  rw       |-> rw_tinystm(a),
  readonly |-> <<BeginReadOnly, Load(a), Load(b), Commits>>,
  reader   |-> <<Begin, Load(b), Load(a), Commits>>,
  writer   |-> <<Begin, Store(a), Store(b), Commits>>,
  skew     |-> <<Begin, Load(a), Store(b), Commits>>,
  skew2    |-> <<Begin, Load(b), Store(a), Commits>>,
  chain    |-> <<Begin, Store(b), Store2(c, {1}), Load(c), Commits>>,
  part     |-> <<Begin, Store2(a, {1}), Store2(a, {2}), Load(a), Commits>>,
  rfw      |-> <<Begin, RfW(b), RfW(c), Store2(b, {2}), Commits>>,
  nested   |-> <<Begin, Begin, Load(a), Commits, Store(a), Commits>>,
  aborts   |-> <<Begin, Store(b), Aborts, Commits>>,
  noretry  |-> <<BeginNoRetry, Load(a), Store(b), Commits>>,
  later    |-> <<Begin, Load(a), Irrevocably, Store(b), Commits>>,
  before   |-> <<Irrevocably, Begin, Load(b), Store(a), Commits>>,
  wtlog    |-> <<Begin, RfW(b), Store(c), Store(c), Aborts, Commits>>,
  twice    |-> <<Begin, Load(a), Store(a), Commits, Begin, Load(a), Store(b), Commits>>,
  stripe   |-> <<Begin, Load(a), Store(c), Load(b), Commits>>,
  irrpart  |-> <<Irrevocably, Begin, Store2(a, {1}), Load(a), Commits>>]

MCPrograms == {Program[n] : n \in Bodies}

MCInit == StmInit /\ design \in Designs

MCStep(t) == /\ UNCHANGED design
             /\ \/ design = "ETL" /\ ETL!Step(t)
                \/ design = "CTL" /\ CTL!Step(t)
                \/ design = "WT" /\ WT!Step(t)
                \/ design = "ETLDelay" /\ ETLDelay!Step(t)

MCNext == \/ UNCHANGED design /\ Rollover
          \/ \E t \in Threads : MCStep(t)
          \/ Finished /\ UNCHANGED mcvars

\* Threads are interchangeable: all of them may run any program.
Symmetry == Permutations(Threads)

MCSpec == MCInit /\ [][MCNext]_mcvars
=============================================================================
