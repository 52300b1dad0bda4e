--------------------------- MODULE BlockingProofs ---------------------------
(***************************************************************************)
(* Theorems about the programs that block, for any number of threads,      *)
(* goroutines and philosophers and any number of iterations.  Each program *)
(* has an inductive invariant of its own; the one of the whole is that the *)
(* program that runs has its invariant.                                    *)
(***************************************************************************)
EXTENDS MCBlocking, FiniteSetTheorems, SequenceTheorems,
        WellFoundedInduction, TLAPS

-----------------------------------------------------------------------------
(* Reader-writer locks                                                     *)

\* The threads of S that p puts at the labels L.
Placed(S, p, L) == {t \in S : p[t] \in L}

\* One thread moves: what its move makes of a count.
LEMMA PlacedMoves ==
  ASSUME NEW S, IsFiniteSet(S), NEW p, NEW q, NEW L, NEW t \in S,
         \A u \in S \ {t} : q[u] = p[u]
  PROVE  /\ Cardinality(Placed(S, p, L)) \in Nat /\ Cardinality(Placed(S, q, L)) \in Nat
         /\ p[t] \in L /\ q[t] \in L => Cardinality(Placed(S, q, L)) = Cardinality(Placed(S, p, L))
         /\ p[t] \notin L /\ q[t] \notin L => Cardinality(Placed(S, q, L)) = Cardinality(Placed(S, p, L))
         /\ p[t] \notin L /\ q[t] \in L => Cardinality(Placed(S, q, L)) = Cardinality(Placed(S, p, L)) + 1
         /\ p[t] \in L /\ q[t] \notin L => Cardinality(Placed(S, q, L)) = Cardinality(Placed(S, p, L)) - 1
<1> DEFINE P == Placed(S, p, L)
           Q == Placed(S, q, L)
<1>1. P \subseteq S /\ Q \subseteq S
  BY DEF Placed
<1>2. IsFiniteSet(P) /\ IsFiniteSet(Q) /\ Cardinality(P) \in Nat /\ Cardinality(Q) \in Nat
  BY <1>1, FS_Subset, FS_CardinalityType
<1>3. t \in P <=> p[t] \in L
  BY DEF Placed
<1>4. Q = IF q[t] \in L THEN P \cup {t} ELSE P \ {t}
  BY DEF Placed
<1> HIDE DEF P, Q
<1>5. Cardinality(P \cup {t}) = IF t \in P THEN Cardinality(P) ELSE Cardinality(P) + 1
  BY <1>2, FS_AddElement
<1>6. Cardinality(P \ {t}) = IF t \in P THEN Cardinality(P) - 1 ELSE Cardinality(P)
  BY <1>2, FS_RemoveElement
<1>7. QED
  BY <1>2, <1>3, <1>4, <1>5, <1>6 DEF P, Q

\* Nobody is counted exactly when nobody is there.
LEMMA NonePlaced ==
  ASSUME NEW S, IsFiniteSet(S), NEW p, NEW L
  PROVE  /\ Cardinality(Placed(S, p, L)) \in Nat
         /\ Cardinality(Placed(S, p, L)) = 0 <=> \A t \in S : p[t] \notin L
<1>1. Placed(S, p, L) \subseteq S
  BY DEF Placed
<1>2. IsFiniteSet(Placed(S, p, L))
  BY <1>1, FS_Subset
<1>3. QED
  BY <1>2, FS_CardinalityType, FS_EmptySet DEF Placed

-----------------------------------------------------------------------------

RWLabels == {"begin", "entered", "first", "read", "leave", "load", "store", "unlock",
             "await", "awaited", "failed", "done"}
WriteLabels == {"load", "store", "unlock"}
ReadLabels == {"read", "leave"}
W(t) == pc[t] \in WriteLabels
R(t) == pc[t] \in ReadLabels
Rd(t) == RWs!Reads(t)

\* A thread counts the iterations of its loop, reads in those of a reader and
\* writes in the others, and the register of the writer is the counter.
RWLoop == /\ pc \in [Threads -> RWLabels]
          /\ iter \in [Threads -> Nat] /\ reg \in [Threads -> Nat] /\ counter \in Nat
          /\ \A t \in Threads : /\ pc[t] # "done" => iter[t] < Writes
                                /\ W(t) => ~ Rd(t)
                                /\ pc[t] \in {"first", "read", "leave"} => Rd(t)
                                /\ pc[t] = "store" => reg[t] = counter
OneWriter == \A t, u \in Threads : W(t) /\ W(u) => t = u

\* rw_lock.py, rw_lock.go, rw_lock_fair.py
PlainInv == /\ \A t \in Threads : pc[t] \in RWLabels \ {"await", "awaited", "failed"}
            /\ rw = "plain" => \A t \in Threads : pc[t] # "entered"
            /\ \A t, u \in Threads : pc[t] = "first" => /\ pc[u] = "first" => t = u
                                                        /\ ~ R(u)
            /\ "mx" \in held <=> \E t \in Threads : pc[t] = "first"
            /\ "writer" \in held <=> \E t \in Threads : W(t) \/ R(t)
            /\ \A t, u \in Threads : ~ (W(t) /\ R(u))
            /\ readers = Cardinality(Placed(Threads, pc, {"first", "read", "leave"}))
            /\ sleeping = {}

\* rw_lock_fair_faster.py: a writer keeps entry.
EntryLabels == {"entered", "await", "awaited"} \cup WriteLabels
FasterInv == /\ \A t \in Threads : pc[t] # "first"
             /\ \A t, u \in Threads : pc[t] \in EntryLabels /\ pc[u] \in EntryLabels => t = u
             /\ \A t \in Threads : pc[t] \in EntryLabels => "entry" \in held
             /\ sleeping = {}

\* The monitors.  A reader that sleeps has another one on its way in, or a
\* writer inside; a writer that sleeps, one on its way in or anybody inside.
OnTheWay(t) == pc[t] = "begin" /\ t \notin sleeping
RWMonitorInv ==
  /\ \A t \in Threads : pc[t] \in {"begin", "done"} \cup ReadLabels \cup WriteLabels
  /\ writing \in BOOLEAN
  /\ writing <=> \E t \in Threads : W(t)
  /\ \A t, u \in Threads : ~ (W(t) /\ R(u))
  /\ readers = Cardinality(Placed(Threads, pc, ReadLabels))
  /\ \A t \in sleeping : t \in Threads /\ pc[t] = "begin"
  /\ \A s \in sleeping :
       \/ writing
       \/ Rd(s) /\ \E t \in Threads : OnTheWay(t) /\ Rd(t)
       \/ ~ Rd(s) /\ readers # 0
       \/ ~ Rd(s) /\ \E t \in Threads : OnTheWay(t) /\ ~ Rd(t)

RWInv == /\ rw \in {"plain", "fair", "faster", "monitor", "java"}
         /\ RWLoop /\ OneWriter
         /\ rw \in {"plain", "fair"} => PlainInv
         /\ rw = "faster" => FasterInv
         /\ rw \in {"monitor", "java"} => RWMonitorInv

\* The reader-writer locks as main leaves them.
LEMMA RWFirst == RWs!Init => RWInv
<1> SUFFICES ASSUME RWs!Init PROVE RWInv
  OBVIOUS
<1> USE DEF RWs!Init, RWs!LoopInit
<1>1. \A t \in Threads : pc[t] = "begin" /\ iter[t] = 0
  OBVIOUS
<1>2. RWLoop
  BY <1>1, BlockingAssumption DEF RWLoop, RWLabels, W, WriteLabels
<1>3. OneWriter
  BY <1>1 DEF OneWriter, W, WriteLabels
<1>4. \A L : "begin" \notin L => Cardinality(Placed(Threads, pc, L)) = 0
  BY <1>1, NonePlaced, BlockingAssumption
<1>5. PlainInv
  BY <1>1, <1>4 DEF PlainInv, W, R, WriteLabels, ReadLabels, RWLabels
<1>6. FasterInv
  BY <1>1 DEF FasterInv, EntryLabels, WriteLabels
<1>7. RWMonitorInv
  BY <1>1, <1>4 DEF RWMonitorInv, W, R, WriteLabels, ReadLabels, RWLabels
<1>8. QED
  BY <1>2, <1>3, <1>5, <1>6, <1>7 DEF RWInv

\* A thread goes on at another label of the same iteration.
LEMMA RWGoesOn ==
  ASSUME RWLoop, NEW t \in Threads, NEW l \in RWLabels \ {"store", "done"},
         pc' = [pc EXCEPT ![t] = l], UNCHANGED <<counter, reg, iter>>, pc[t] # "done",
         l \in WriteLabels => ~ Rd(t), l \in {"first", "read", "leave"} => Rd(t)
  PROVE  RWLoop'
<1>1. pc \in [Threads -> RWLabels] /\ pc' \in [Threads -> RWLabels]
  BY DEF RWLoop
<1>2. \A u \in Threads : pc'[u] = IF u = t THEN l ELSE pc[u]
  BY <1>1
<1>3. \A u \in Threads : Rd(u)' <=> Rd(u)
  BY DEF Rd, RWs!Reads
<1>4. \A u \in Threads : /\ pc'[u] # "done" => iter'[u] < Writes
                         /\ W(u)' => ~ Rd(u)'
                         /\ pc'[u] \in {"first", "read", "leave"} => Rd(u)'
                         /\ pc'[u] = "store" => reg'[u] = counter'
  BY <1>2, <1>3 DEF RWLoop, W
<1>6. iter' \in [Threads -> Nat] /\ reg' \in [Threads -> Nat] /\ counter' \in Nat
  BY DEF RWLoop
<1>5. QED
  BY <1>1, <1>4, <1>6 DEF RWLoop

\* A thread ends an iteration.
LEMMA RWEnds ==
  ASSUME RWLoop, NEW t \in Threads, pc[t] # "done", pc' = [pc EXCEPT ![t] = RWs!After(t)],
         iter' = [iter EXCEPT ![t] = iter[t] + 1], UNCHANGED <<counter, reg>>
  PROVE  /\ RWLoop'
         /\ \E l \in {"begin", "done"} : pc' = [pc EXCEPT ![t] = l]
<1>1. pc \in [Threads -> RWLabels] /\ iter \in [Threads -> Nat] /\ Writes \in Nat
      /\ iter[t] \in Nat /\ iter[t] < Writes
  BY BlockingAssumption DEF RWLoop
<1>2. PICK l \in {"begin", "done"} : /\ pc' = [pc EXCEPT ![t] = l]
                                     /\ l # "done" => iter[t] + 1 < Writes
  <2>1. RWs!After(t) = IF iter[t] + 1 = Writes THEN "done" ELSE "begin"
    BY DEF RWs!After
  <2>2. iter[t] + 1 # Writes => iter[t] + 1 < Writes
    BY <1>1
  <2>3. QED
    BY <2>1, <2>2
<1>3. \A u \in Threads : pc'[u] = IF u = t THEN l ELSE pc[u]
  BY <1>1, <1>2
<1>4. \A u \in Threads : iter'[u] = IF u = t THEN iter[t] + 1 ELSE iter[u]
  BY <1>1
<1>5. \A u \in Threads \ {t} : Rd(u)' <=> Rd(u)
  BY <1>4 DEF Rd, RWs!Reads
<1>6. \A u \in Threads : /\ pc'[u] # "done" => iter'[u] < Writes
                         /\ W(u)' => ~ Rd(u)'
                         /\ pc'[u] \in {"first", "read", "leave"} => Rd(u)'
                         /\ pc'[u] = "store" => reg'[u] = counter'
  BY <1>2, <1>3, <1>4, <1>5 DEF RWLoop, W, WriteLabels
<1>7. pc' \in [Threads -> RWLabels] /\ iter' \in [Threads -> Nat]
  BY <1>1, <1>2 DEF RWLabels
<1>8. QED
  BY <1>2, <1>6, <1>7 DEF RWLoop

\* `counter += 1` and `c = counter`.
LEMMA RWCounts ==
  ASSUME RWLoop, OneWriter, NEW t \in Threads, RWs!Count(t)
  PROVE  /\ RWLoop'
         /\ \E l \in {"leave", "store", "unlock"} :
              /\ pc' = [pc EXCEPT ![t] = l]
              /\ W(t) <=> l \in WriteLabels
              /\ R(t) <=> l \in ReadLabels
              /\ pc[t] \in {"read", "load", "store"}
         /\ UNCHANGED <<rw, held, readers, out, wait, writing, sleeping>>
<1>1. pc \in [Threads -> RWLabels] /\ reg \in [Threads -> Nat] /\ counter \in Nat
  BY DEF RWLoop
<1>2. CASE RWs!Load(t)
  <2>1. /\ pc[t] = "load" /\ pc' = [pc EXCEPT ![t] = "store"]
        /\ reg' = [reg EXCEPT ![t] = counter] /\ UNCHANGED <<counter, iter>>
    BY <1>2 DEF RWs!Load, RWs!Goto
  <2>8. \A u \in Threads : Rd(u)' <=> Rd(u)
    BY <2>1 DEF Rd, RWs!Reads
  <2>2. \A u \in Threads : /\ pc'[u] = IF u = t THEN "store" ELSE pc[u]
                           /\ reg'[u] = IF u = t THEN counter ELSE reg[u]
                           /\ Rd(u)' <=> Rd(u)
    BY <1>1, <2>1, <2>8
  <2>3. \A u \in Threads : /\ pc'[u] # "done" => iter'[u] < Writes
                           /\ W(u)' => ~ Rd(u)'
                           /\ pc'[u] \in {"first", "read", "leave"} => Rd(u)'
                           /\ pc'[u] = "store" => reg'[u] = counter'
    BY <2>1, <2>2 DEF RWLoop, W, WriteLabels
  <2>4. pc' \in [Threads -> RWLabels] /\ reg' \in [Threads -> Nat]
    BY <1>1, <2>1 DEF RWLabels
  <2>5. RWLoop'
    BY <2>1, <2>3, <2>4 DEF RWLoop
  <2>6. UNCHANGED <<rw, held, readers, out, wait, writing, sleeping>>
    BY DEF RWs!Count, RWs!rwvars
  <2>7. QED
    BY <2>1, <2>5, <2>6 DEF W, R, WriteLabels, ReadLabels
<1>3. CASE RWs!Store(t)
  <2>1. /\ pc[t] = "store" /\ pc' = [pc EXCEPT ![t] = "unlock"]
        /\ reg' = [reg EXCEPT ![t] = 0] /\ counter' = reg[t] + 1 /\ UNCHANGED iter
    BY <1>3 DEF RWs!Store, RWs!Goto
  <2>9. \A u \in Threads : Rd(u)' <=> Rd(u)
    BY <2>1 DEF Rd, RWs!Reads
  <2>2. \A u \in Threads : /\ pc'[u] = IF u = t THEN "unlock" ELSE pc[u]
                           /\ Rd(u)' <=> Rd(u)
    BY <1>1, <2>1, <2>9
  <2>3. \A u \in Threads : pc'[u] # "store"
    BY <2>1, <2>2 DEF OneWriter, W, WriteLabels
  <2>4. \A u \in Threads : /\ pc'[u] # "done" => iter'[u] < Writes
                           /\ W(u)' => ~ Rd(u)'
                           /\ pc'[u] \in {"first", "read", "leave"} => Rd(u)'
                           /\ pc'[u] = "store" => reg'[u] = counter'
    BY <2>1, <2>2, <2>3 DEF RWLoop, W, WriteLabels
  <2>5. pc' \in [Threads -> RWLabels] /\ reg' \in [Threads -> Nat] /\ counter' \in Nat
    BY <1>1, <2>1 DEF RWLabels
  <2>6. RWLoop'
    BY <2>1, <2>4, <2>5 DEF RWLoop
  <2>7. UNCHANGED <<rw, held, readers, out, wait, writing, sleeping>>
    BY DEF RWs!Count, RWs!rwvars
  <2>8. QED
    BY <2>1, <2>6, <2>7 DEF W, R, WriteLabels, ReadLabels
<1>4. CASE pc[t] = "read" /\ RWs!Goto(t, "leave") /\ UNCHANGED <<counter, reg, iter>>
  <2>1. pc' = [pc EXCEPT ![t] = "leave"] /\ pc[t] = "read"
    BY <1>4 DEF RWs!Goto
  <2>2. "leave" \in RWLabels \ {"store", "done"} /\ "leave" \notin WriteLabels /\ Rd(t)
    BY <2>1 DEF RWLabels, WriteLabels, RWLoop
  <2>3. RWLoop'
    BY <1>4, <2>1, <2>2, RWGoesOn
  <2>4. UNCHANGED <<rw, held, readers, out, wait, writing, sleeping>>
    BY DEF RWs!Count, RWs!rwvars
  <2>5. QED
    BY <2>1, <2>3, <2>4 DEF W, R, WriteLabels, ReadLabels
<1>5. QED
  BY <1>2, <1>3, <1>4 DEF RWs!Count

\* rw_lock.py, rw_lock.go, rw_lock_fair.py
LEMMA PlainStep ==
  ASSUME RWLoop, OneWriter, PlainInv, rw \in {"plain", "fair"}, NEW t \in Threads, RWs!Step(t)
  PROVE  RWLoop' /\ OneWriter' /\ PlainInv' /\ rw' = rw
<1> DEFINE Inside == {"first", "read", "leave"}
           Readers(p) == Cardinality(Placed(Threads, p, Inside))
           Moves(l) == /\ pc' = [pc EXCEPT ![t] = l]
                       /\ UNCHANGED <<rw, sleeping>>
<1> USE DEF W, R, WriteLabels, ReadLabels
<1>a. pc \in [Threads -> RWLabels] /\ pc[t] \in RWLabels \ {"await", "awaited", "failed"}
      /\ IsFiniteSet(Threads) /\ readers = Readers(pc) /\ Readers(pc) \in Nat
  BY BlockingAssumption, NonePlaced DEF RWLoop, PlainInv
<1>b. ASSUME NEW l \in RWLabels, Moves(l)
      PROVE  /\ pc' \in [Threads -> RWLabels] /\ pc'[t] = l
             /\ \A u \in Threads \ {t} : pc'[u] = pc[u]
             /\ pc[t] \in Inside /\ l \in Inside => Readers(pc') = readers
             /\ pc[t] \notin Inside /\ l \notin Inside => Readers(pc') = readers
             /\ pc[t] \notin Inside /\ l \in Inside => Readers(pc') = readers + 1
             /\ pc[t] \in Inside /\ l \notin Inside => Readers(pc') = readers - 1
             /\ Readers(pc') = 0 <=> \A u \in Threads : pc'[u] \notin Inside
  <2>1. pc' \in [Threads -> RWLabels] /\ pc'[t] = l /\ \A u \in Threads \ {t} : pc'[u] = pc[u]
    BY <1>a, <1>b
  <2> HIDE DEF Inside
  <2>2. /\ pc[t] \in Inside /\ pc'[t] \in Inside => Readers(pc') = Readers(pc)
        /\ pc[t] \notin Inside /\ pc'[t] \notin Inside => Readers(pc') = Readers(pc)
        /\ pc[t] \notin Inside /\ pc'[t] \in Inside => Readers(pc') = Readers(pc) + 1
        /\ pc[t] \in Inside /\ pc'[t] \notin Inside => Readers(pc') = Readers(pc) - 1
    BY <1>a, <2>1, PlacedMoves
  <2>3. Readers(pc') = 0 <=> \A u \in Threads : pc'[u] \notin Inside
    BY <1>a, NonePlaced
  <2>4. QED
    BY <1>a, <2>1, <2>2, <2>3
<1>c. readers = 0 <=> \A u \in Threads : pc[u] \notin {"first", "read", "leave"}
  BY <1>a, NonePlaced
<1>d. ASSUME NEW l \in RWLabels \ {"await", "awaited", "failed"}, Moves(l),
             rw = "plain" => l # "entered",
             \A u, v \in Threads : pc'[u] = "first" => /\ pc'[v] = "first" => u = v
                                                       /\ ~ R(v)',
             "mx" \in held' <=> \E u \in Threads : pc'[u] = "first",
             "writer" \in held' <=> \E u \in Threads : W(u)' \/ R(u)',
             \A u, v \in Threads : ~ (W(u)' /\ R(v)'), readers' = Readers(pc')
      PROVE  PlainInv'
  BY <1>b, <1>d DEF PlainInv
<1> HIDE DEF Readers
<1>1. CASE RWs!TakeEntry(t)
  <2>1. /\ pc[t] = "begin" /\ rw = "fair" /\ held' = held \cup {"entry"} /\ readers' = readers
        /\ Moves("entered") /\ UNCHANGED <<counter, reg, iter>>
    BY <1>1 DEF RWs!TakeEntry, RWs!Goto
  <2>2. "entered" \in RWLabels \ {"await", "awaited", "failed", "store", "done"}
    BY DEF RWLabels
  <2>3. RWLoop'
    BY <2>1, <2>2, RWGoesOn
  <2>4. readers' = Readers(pc')
    BY <1>a, <1>b, <2>1, <2>2
  <2>5. OneWriter'
    BY <1>b, <2>1, <2>2 DEF OneWriter
  <2>8. \A u \in Threads : /\ W(u)' <=> W(u)
                           /\ R(u)' <=> R(u)
                           /\ pc'[u] = "first" <=> pc[u] = "first"
    BY <1>b, <2>1, <2>2
  <2>9. /\ "mx" \in held' <=> "mx" \in held
        /\ "writer" \in held' <=> "writer" \in held
        /\ rw # "plain"
    BY <2>1
  <2>6. PlainInv'
    <3>1. "mx" \in held' <=> \E u \in Threads : pc'[u] = "first"
      BY <2>8, <2>9 DEF PlainInv
    <3>2. "writer" \in held' <=> \E u \in Threads : W(u)' \/ R(u)'
      BY <2>8, <2>9 DEF PlainInv
    <3>3. \A u, v \in Threads : /\ ~ (W(u)' /\ R(v)')
                                /\ pc'[u] = "first" => /\ pc'[v] = "first" => u = v
                                                       /\ ~ R(v)'
      BY <2>8 DEF PlainInv
    <3>4. QED
      BY ZenonT(40), <1>d, <2>1, <2>2, <2>4, <2>9, <3>1, <3>2, <3>3
  <2>7. QED
    BY <2>1, <2>3, <2>5, <2>6
<1>2. CASE RWs!ReaderLock(t)
  <2>1. /\ pc[t] \in {"begin", "entered"} /\ Rd(t) /\ "mx" \notin held /\ readers' = readers + 1
        /\ \/ readers = 0 /\ held' = held \cup {"mx"} /\ Moves("first")
           \/ readers # 0 /\ held' = held \ {"entry"} /\ Moves("read")
        /\ UNCHANGED <<counter, reg, iter>>
    <3>1. readers + 1 = 1 <=> readers = 0
      BY <1>a
    <3>2. QED
      BY <1>2, <3>1 DEF RWs!ReaderLock, RWs!Entered, RWs!Goto, RWs!Free, Rd
  <2>2. \A l \in {"first", "read"} :
           /\ l \in RWLabels \ {"await", "awaited", "failed", "store", "done"}
           /\ l # "entered" /\ l \notin WriteLabels
    BY DEF RWLabels
  <2>3. RWLoop'
    BY <2>1, <2>2, RWGoesOn
  <2>4. ASSUME NEW l \in {"first", "read"}, Moves(l)
        PROVE  readers' = Readers(pc')
    BY <1>a, <1>b, <2>1, <2>2, <2>4
  <2>5. \A u \in Threads : pc[u] # "first"
    BY <2>1 DEF PlainInv
  <2>6. CASE readers = 0 /\ held' = held \cup {"mx"} /\ Moves("first")
    <3>1. \A u \in Threads : /\ pc'[u] = "first" <=> u = t
                             /\ ~ R(u)'
                             /\ W(u)' <=> W(u)
      BY <1>b, <1>c, <2>1, <2>2, <2>6
    <3>2. /\ \A u \in Threads : ~ R(u)
          /\ "mx" \in held'
          /\ "writer" \in held' <=> "writer" \in held
      BY <1>c, <2>6
    <3>3. PlainInv'
      BY <1>d, <2>2, <2>4, <2>6, <3>1, <3>2 DEF PlainInv
    <3>4. OneWriter'
      BY <3>1 DEF OneWriter
    <3>5. QED
      BY <2>3, <2>6, <3>3, <3>4
  <2>7. CASE readers # 0 /\ held' = held \ {"entry"} /\ Moves("read")
    <3>1. \A u \in Threads : /\ pc'[u] # "first"
                             /\ R(u)' <=> R(u) \/ u = t
                             /\ W(u)' <=> W(u)
      BY <1>b, <2>1, <2>2, <2>5, <2>7
    <3>2. /\ \E u \in Threads : R(u)
          /\ "mx" \notin held'
          /\ "writer" \in held' <=> "writer" \in held
      BY <1>c, <2>1, <2>5, <2>7
    <3>3. PlainInv'
      BY <1>d, <2>2, <2>4, <2>7, <3>1, <3>2 DEF PlainInv
    <3>4. OneWriter'
      BY <3>1 DEF OneWriter
    <3>5. QED
      BY <2>3, <2>7, <3>3, <3>4
  <2>8. QED
    BY <2>1, <2>6, <2>7
<1>3. CASE RWs!FirstReader(t)
  <2>1. /\ pc[t] = "first" /\ "writer" \notin held /\ readers' = readers /\ Moves("read")
        /\ held' = (held \cup {"writer"}) \ {"mx", "entry"} /\ UNCHANGED <<counter, reg, iter>>
    BY <1>3 DEF RWs!FirstReader, RWs!Goto, RWs!Free
  <2>2. /\ "read" \in RWLabels \ {"await", "awaited", "failed", "store", "done"}
        /\ "read" \notin WriteLabels /\ Rd(t)
    BY <2>1 DEF RWLabels, RWLoop
  <2>3. RWLoop'
    BY <2>1, <2>2, RWGoesOn
  <2>4. readers' = Readers(pc')
    BY <1>a, <1>b, <2>1, <2>2
  <2>5. \A u \in Threads : ~ W(u) /\ ~ R(u) /\ (pc[u] = "first" <=> u = t)
    BY <2>1 DEF PlainInv
  <2>6. \A u \in Threads : ~ W(u)' /\ (R(u)' <=> u = t) /\ pc'[u] # "first"
    BY <1>b, <2>1, <2>2, <2>5
  <2>7. "mx" \notin held' /\ "writer" \in held'
    BY <2>1
  <2>8. PlainInv'
    BY <1>d, <2>1, <2>2, <2>4, <2>6, <2>7
  <2>9. OneWriter'
    BY <2>6 DEF OneWriter
  <2>10. QED
    BY <2>1, <2>3, <2>8, <2>9
<1>4. CASE RWs!ReaderUnlock(t)
  <2>1. /\ pc[t] = "leave" /\ "mx" \notin held /\ readers' = readers - 1
        /\ held' = IF readers' = 0 THEN held \ {"writer"} ELSE held
        /\ pc' = [pc EXCEPT ![t] = RWs!After(t)] /\ iter' = [iter EXCEPT ![t] = iter[t] + 1]
        /\ UNCHANGED <<counter, reg, rw, sleeping>>
    BY <1>4 DEF RWs!ReaderUnlock, RWs!Reader, RWs!Free, RWs!EndIteration, RWs!Goto
  <2>2. RWLoop' /\ \E l \in {"begin", "done"} : Moves(l)
    BY <2>1, RWEnds
  <2>3. PICK l \in {"begin", "done"} : Moves(l)
    BY <2>2
  <2>4. l \in RWLabels \ {"await", "awaited", "failed"}
    BY DEF RWLabels
  <2>5. readers' = Readers(pc')
    BY <1>a, <1>b, <2>1, <2>3, <2>4
  <2>6. \A u \in Threads : /\ ~ W(u) /\ pc[u] # "first"
                           /\ ~ W(u)' /\ pc'[u] # "first"
    BY <1>b, <2>1, <2>3, <2>4 DEF PlainInv
  <2>7. readers' = 0 <=> \A u \in Threads : ~ R(u)'
    BY <1>b, <2>3, <2>4, <2>5, <2>6
  <2>8. "writer" \in held
    BY <2>1 DEF PlainInv
  <2>9. "mx" \notin held' /\ ("writer" \in held' <=> readers' # 0)
    BY <2>1, <2>8
  <2>10. PlainInv'
    BY <1>d, <2>3, <2>4, <2>5, <2>6, <2>7, <2>9
  <2>11. OneWriter'
    BY <2>6 DEF OneWriter
  <2>12. QED
    BY <2>2, <2>3, <2>10, <2>11
<1>5. CASE RWs!WriterLock(t)
  <2>1. /\ pc[t] \in {"begin", "entered"} /\ ~ Rd(t) /\ "writer" \notin held /\ readers' = readers
        /\ Moves("load") /\ held' = held \cup {"writer"} /\ UNCHANGED <<counter, reg, iter>>
    BY <1>5 DEF RWs!WriterLock, RWs!Entered, RWs!Goto, RWs!Free, Rd
  <2>2. "load" \in RWLabels \ {"await", "awaited", "failed", "store", "done"}
    BY DEF RWLabels
  <2>3. RWLoop'
    BY <2>1, <2>2, RWGoesOn
  <2>4. readers' = Readers(pc')
    BY <1>a, <1>b, <2>1, <2>2
  <2>5. \A u \in Threads : ~ W(u) /\ ~ R(u)
    BY <2>1 DEF PlainInv
  <2>6. \A u \in Threads : /\ W(u)' <=> u = t
                           /\ ~ R(u)'
                           /\ pc'[u] = "first" <=> pc[u] = "first"
    BY <1>b, <2>1, <2>2, <2>5
  <2>7. /\ "mx" \in held' <=> "mx" \in held
        /\ "writer" \in held'
    BY <2>1
  <2>8. PlainInv'
    BY <1>d, <2>1, <2>2, <2>4, <2>6, <2>7 DEF PlainInv
  <2>9. OneWriter'
    BY <2>6 DEF OneWriter
  <2>10. QED
    BY <2>1, <2>3, <2>8, <2>9
<1>6. CASE RWs!WriterUnlock(t)
  <2>1. /\ pc[t] = "unlock" /\ readers' = readers /\ held' = held \ {"writer", "entry"}
        /\ pc' = [pc EXCEPT ![t] = RWs!After(t)] /\ iter' = [iter EXCEPT ![t] = iter[t] + 1]
        /\ UNCHANGED <<counter, reg, rw, sleeping>>
    BY <1>6 DEF RWs!WriterUnlock, RWs!Writer, RWs!EndIteration, RWs!Goto
  <2>2. RWLoop' /\ \E l \in {"begin", "done"} : Moves(l)
    BY <2>1, RWEnds
  <2>3. PICK l \in {"begin", "done"} : Moves(l)
    BY <2>2
  <2>4. l \in RWLabels \ {"await", "awaited", "failed"}
    BY DEF RWLabels
  <2>5. readers' = Readers(pc')
    BY <1>a, <1>b, <2>1, <2>3, <2>4
  <2>6. \A u \in Threads : (W(u) => u = t) /\ ~ R(u)
    BY <2>1 DEF PlainInv, OneWriter
  <2>7. \A u \in Threads : /\ ~ W(u)' /\ ~ R(u)'
                           /\ pc'[u] = "first" <=> pc[u] = "first"
    BY <1>b, <2>1, <2>3, <2>4, <2>6
  <2>8. /\ "mx" \in held' <=> "mx" \in held
        /\ "writer" \notin held'
    BY <2>1
  <2>9. PlainInv'
    BY <1>d, <2>3, <2>4, <2>5, <2>7, <2>8 DEF PlainInv
  <2>10. OneWriter'
    BY <2>7 DEF OneWriter
  <2>11. QED
    BY <2>2, <2>3, <2>9, <2>10
<1>7. CASE RWs!Count(t)
  <2>1. /\ RWLoop' /\ UNCHANGED <<rw, held, readers, sleeping>>
        /\ \E l \in {"leave", "store", "unlock"} :
              /\ pc' = [pc EXCEPT ![t] = l]
              /\ W(t) <=> l \in WriteLabels
              /\ R(t) <=> l \in ReadLabels
              /\ pc[t] \in {"read", "load", "store"}
    BY <1>7, RWCounts
  <2>2. PICK l \in {"leave", "store", "unlock"} :
              /\ Moves(l)
              /\ W(t) <=> l \in WriteLabels
              /\ R(t) <=> l \in ReadLabels
              /\ pc[t] \in {"read", "load", "store"}
    BY <2>1
  <2>3. l \in RWLabels \ {"await", "awaited", "failed"} /\ l # "entered"
    BY DEF RWLabels
  <2>4. \A u \in Threads : /\ W(u)' <=> W(u)
                           /\ R(u)' <=> R(u)
                           /\ pc'[u] = "first" <=> pc[u] = "first"
    BY <1>b, <2>2, <2>3
  <2>5. readers' = Readers(pc')
    BY <1>a, <1>b, <2>1, <2>2, <2>3
  <2>6. PlainInv'
    <3>1. "mx" \in held' <=> \E u \in Threads : pc'[u] = "first"
      BY <2>1, <2>4 DEF PlainInv
    <3>2. "writer" \in held' <=> \E u \in Threads : W(u)' \/ R(u)'
      BY <2>1, <2>4 DEF PlainInv
    <3>3. \A u, v \in Threads : /\ ~ (W(u)' /\ R(v)')
                                /\ pc'[u] = "first" => /\ pc'[v] = "first" => u = v
                                                       /\ ~ R(v)'
      BY <2>4 DEF PlainInv
    <3>4. QED
      BY ZenonT(40), <1>d, <2>2, <2>3, <2>5, <3>1, <3>2, <3>3
  <2>7. OneWriter'
    BY <2>4 DEF OneWriter
  <2>8. QED
    BY <2>1, <2>6, <2>7
<1>8. QED
  BY <1>1, <1>2, <1>3, <1>4, <1>5, <1>6, <1>7
  DEF RWs!Step, RWs!FasterReaderLock, RWs!FasterReaderUnlock, RWs!FasterWriterLock,
      RWs!FasterAwait, RWs!FasterAwaited, RWs!FasterWriterUnlock, RWs!MonitorReaderLock,
      RWs!MonitorReaderUnlock, RWs!MonitorWriterLock, RWs!MonitorWriterUnlock,
      RWs!Reader, RWs!Writer

\* rw_lock_fair_faster.py
LEMMA FasterStep ==
  ASSUME RWLoop, OneWriter, FasterInv, rw = "faster", NEW t \in Threads, RWs!Step(t)
  PROVE  RWLoop' /\ OneWriter' /\ FasterInv' /\ rw' = rw
<1> DEFINE Moves(l) == pc' = [pc EXCEPT ![t] = l] /\ UNCHANGED <<rw, sleeping>>
           E(k) == pc[k] \in EntryLabels
<1> USE DEF W, R, WriteLabels, ReadLabels, EntryLabels
<1>a. pc \in [Threads -> RWLabels] /\ pc[t] # "first"
      /\ \A u \in Threads : E(u) => /\ "entry" \in held
                                    /\ \A v \in Threads : E(v) => u = v
  BY DEF RWLoop, FasterInv
<1>b. ASSUME NEW l \in RWLabels, Moves(l)
      PROVE  pc'[t] = l /\ \A u \in Threads \ {t} : pc'[u] = pc[u]
  BY <1>a, <1>b
\* The writer that has entry goes on, or nobody has it and t does not get it.
<1>c. ASSUME NEW l \in RWLabels \ {"first"}, Moves(l),
             l \in EntryLabels => /\ "entry" \in held'
                                  /\ \A u \in Threads : E(u) => u = t,
             "entry" \in held => "entry" \in held' \/ E(t)
      PROVE  OneWriter' /\ FasterInv'
  <2>1. \A u \in Threads : /\ E(u)' <=> IF u = t THEN l \in EntryLabels ELSE E(u)
                           /\ pc'[u] # "first"
    BY <1>b, <1>c DEF FasterInv
  <2>2. \A u, v \in Threads : E(u)' /\ E(v)' => u = v
    BY <1>a, <1>c, <2>1
  <2>3. \A u \in Threads : E(u)' => "entry" \in held'
    BY <1>a, <1>c, <2>1
  <2>4. OneWriter'
    BY <2>2 DEF OneWriter
  <2>5. sleeping' = {}
    BY <1>c DEF FasterInv
  <2>6. QED
    BY <2>1, <2>2, <2>3, <2>4, <2>5 DEF FasterInv
<1>d. /\ \A l \in {"entered", "read", "await", "awaited", "load"} :
           l \in RWLabels \ {"first", "store", "done"}
      /\ \A l \in {"begin", "done", "failed", "leave", "store", "unlock"} : l \in RWLabels \ {"first"}
      /\ "failed" \notin {"store", "done"}
  BY DEF RWLabels
<1>1. CASE RWs!TakeEntry(t)
  <2>1. /\ pc[t] = "begin" /\ ~ Rd(t) /\ "entry" \notin held /\ held' = held \cup {"entry"}
        /\ Moves("entered") /\ UNCHANGED <<counter, reg, iter>>
    BY <1>1 DEF RWs!TakeEntry, RWs!Goto, RWs!Free, Rd
  <2>2. RWLoop'
    BY <1>d, <2>1, RWGoesOn
  <2>3. OneWriter' /\ FasterInv'
    BY <1>a, <1>c, <1>d, <2>1
  <2>4. QED
    BY <2>1, <2>2, <2>3
<1>2. CASE RWs!FasterReaderLock(t)
  <2>1. /\ pc[t] = "begin" /\ Rd(t) /\ Moves("read") /\ UNCHANGED <<counter, reg, iter, held>>
    BY <1>2 DEF RWs!FasterReaderLock, RWs!Reader, RWs!Goto, Rd
  <2>2. RWLoop'
    BY <1>d, <2>1, RWGoesOn
  <2>3. OneWriter' /\ FasterInv'
    BY <1>c, <1>d, <2>1
  <2>4. QED
    BY <2>1, <2>2, <2>3
<1>3. CASE RWs!FasterReaderUnlock(t)
  <2>1. /\ pc[t] = "leave" /\ UNCHANGED <<rw, sleeping>> /\ ("entry" \in held => "entry" \in held')
        /\ \/ pc' = [pc EXCEPT ![t] = "failed"] /\ UNCHANGED <<counter, reg, iter>>
           \/ /\ pc' = [pc EXCEPT ![t] = RWs!After(t)] /\ iter' = [iter EXCEPT ![t] = iter[t] + 1]
              /\ UNCHANGED <<counter, reg>>
    BY <1>3 DEF RWs!FasterReaderUnlock, RWs!Reader, RWs!EndIteration, RWs!Goto
  <2>2. CASE pc' = [pc EXCEPT ![t] = "failed"] /\ UNCHANGED <<counter, reg, iter>>
    <3>1. RWLoop'
      BY <1>d, <2>1, <2>2, RWGoesOn
    <3>2. OneWriter' /\ FasterInv'
      BY <1>c, <1>d, <2>1, <2>2
    <3>3. QED
      BY <2>1, <3>1, <3>2
  <2>3. CASE /\ pc' = [pc EXCEPT ![t] = RWs!After(t)] /\ iter' = [iter EXCEPT ![t] = iter[t] + 1]
             /\ UNCHANGED <<counter, reg>>
    <3>1. RWLoop' /\ \E l \in {"begin", "done"} : Moves(l)
      BY <2>1, <2>3, RWEnds
    <3>2. OneWriter' /\ FasterInv'
      BY <1>c, <1>d, <2>1, <3>1
    <3>3. QED
      BY <2>1, <3>1, <3>2
  <2>4. QED
    BY <2>1, <2>2, <2>3
<1>4. CASE RWs!FasterWriterLock(t)
  <2>1. /\ pc[t] = "entered" /\ ~ Rd(t) /\ UNCHANGED <<counter, reg, iter, held>>
        /\ Moves("load") \/ Moves("await")
    BY <1>4 DEF RWs!FasterWriterLock, RWs!Writer, RWs!Goto, Rd
  <2>2. RWLoop'
    BY <1>d, <2>1, RWGoesOn
  <2>3. OneWriter' /\ FasterInv'
    BY <1>a, <1>c, <1>d, <2>1
  <2>4. QED
    BY <2>1, <2>2, <2>3
<1>5. CASE RWs!FasterAwait(t)
  <2>1. /\ pc[t] = "await" /\ ~ Rd(t) /\ held' = held \cup {"writer"}
        /\ Moves("awaited") /\ UNCHANGED <<counter, reg, iter>>
    BY <1>5 DEF RWs!FasterAwait, RWs!Writer, RWs!Goto, Rd
  <2>2. RWLoop'
    BY <1>d, <2>1, RWGoesOn
  <2>3. OneWriter' /\ FasterInv'
    BY <1>a, <1>c, <1>d, <2>1
  <2>4. QED
    BY <2>1, <2>2, <2>3
<1>6. CASE RWs!FasterAwaited(t)
  <2>1. /\ pc[t] = "awaited" /\ ~ Rd(t) /\ Moves("load") /\ UNCHANGED <<counter, reg, iter, held>>
    BY <1>6 DEF RWs!FasterAwaited, RWs!Writer, RWs!Goto, Rd
  <2>2. RWLoop'
    BY <1>d, <2>1, RWGoesOn
  <2>3. OneWriter' /\ FasterInv'
    BY <1>a, <1>c, <1>d, <2>1
  <2>4. QED
    BY <2>1, <2>2, <2>3
<1>7. CASE RWs!FasterWriterUnlock(t)
  <2>1. /\ pc[t] = "unlock" /\ pc' = [pc EXCEPT ![t] = RWs!After(t)]
        /\ iter' = [iter EXCEPT ![t] = iter[t] + 1] /\ UNCHANGED <<counter, reg, rw, sleeping>>
    BY <1>7 DEF RWs!FasterWriterUnlock, RWs!Writer, RWs!EndIteration, RWs!Goto
  <2>2. RWLoop' /\ \E l \in {"begin", "done"} : Moves(l)
    BY <2>1, RWEnds
  <2>3. OneWriter' /\ FasterInv'
    BY <1>c, <1>d, <2>1, <2>2
  <2>4. QED
    BY <2>1, <2>2, <2>3
<1>8. CASE RWs!Count(t)
  <2>1. /\ RWLoop' /\ UNCHANGED <<rw, held, sleeping>>
        /\ \E l \in {"leave", "store", "unlock"} :
              /\ pc' = [pc EXCEPT ![t] = l]
              /\ W(t) <=> l \in WriteLabels
              /\ R(t) <=> l \in ReadLabels
              /\ pc[t] \in {"read", "load", "store"}
    BY <1>8, RWCounts
  <2>2. OneWriter' /\ FasterInv'
    BY <1>a, <1>c, <1>d, <2>1
  <2>3. QED
    BY <2>1, <2>2
<1>9. QED
  BY <1>1, <1>2, <1>3, <1>4, <1>5, <1>6, <1>7, <1>8, <1>a
  DEF RWs!Step, RWs!ReaderLock, RWs!FirstReader, RWs!ReaderUnlock, RWs!WriterLock,
      RWs!WriterUnlock, RWs!MonitorReaderLock, RWs!Entered,
      RWs!MonitorReaderUnlock, RWs!MonitorWriterLock, RWs!MonitorWriterUnlock,
      RWs!Reader, RWs!Writer

\* notify() and notifyAll() wake one of those that wait for it.
LEMMA NotifiedReaders ==
  ASSUME NEW woken \in RWs!Notified(TRUE)
  PROVE  woken \subseteq sleeping /\ \A s \in sleeping : Rd(s) => \E u \in woken : Rd(u)
<1>1. CASE rw = "java"
  BY <1>1 DEF RWs!Notified
<1>2. CASE rw # "java"
  <2>1. \A s : s \in RWs!Sleepers(TRUE) <=> s \in sleeping /\ Rd(s)
    BY DEF RWs!Sleepers, Rd, RWs!Reads
  <2>2. woken \in IF RWs!Sleepers(TRUE) = {} THEN {{}} ELSE {{s} : s \in RWs!Sleepers(TRUE)}
    BY <1>2 DEF RWs!Notified
  <2>3. QED
    BY <2>1, <2>2
<1>3. QED
  BY <1>1, <1>2

\* A notification for the writers reaches one of those that sleep.
LEMMA NotifiedWriters ==
  ASSUME NEW woken \in RWs!Notified(FALSE)
  PROVE  woken \subseteq sleeping /\ \A s \in sleeping : ~ Rd(s) => \E u \in woken : ~ Rd(u)
<1>1. CASE rw = "java"
  BY <1>1 DEF RWs!Notified
<1>2. CASE rw # "java"
  <2>1. \A s : s \in RWs!Sleepers(FALSE) <=> s \in sleeping /\ ~ Rd(s)
    BY DEF RWs!Sleepers, Rd, RWs!Reads
  <2>2. woken \in IF RWs!Sleepers(FALSE) = {} THEN {{}} ELSE {{s} : s \in RWs!Sleepers(FALSE)}
    BY <1>2 DEF RWs!Notified
  <2>3. QED
    BY <2>1, <2>2
<1>3. QED
  BY <1>1, <1>2

\* monitors/rw_lock.py and ReaderWriter.java
LEMMA RWMonitorStep ==
  ASSUME RWLoop, OneWriter, RWMonitorInv, rw \in {"monitor", "java"}, NEW t \in Threads,
         RWs!Step(t) \/ RWs!SpuriousWake(t)
  PROVE  RWLoop' /\ OneWriter' /\ RWMonitorInv' /\ rw' = rw
<1> DEFINE Readers(p) == Cardinality(Placed(Threads, p, ReadLabels))
           Moves(l) == pc' = [pc EXCEPT ![t] = l] /\ rw' = rw
           Reason(s) ==
             \/ writing
             \/ Rd(s) /\ \E u \in Threads : OnTheWay(u) /\ Rd(u)
             \/ ~ Rd(s) /\ readers # 0
             \/ ~ Rd(s) /\ \E u \in Threads : OnTheWay(u) /\ ~ Rd(u)
           Labels == {"begin", "done", "read", "leave", "load", "store", "unlock"}
<1>a. /\ pc \in [Threads -> RWLabels] /\ pc[t] \in Labels
      /\ IsFiniteSet(Threads) /\ readers = Readers(pc) /\ Readers(pc) \in Nat
      /\ \A s \in sleeping : s \in Threads /\ pc[s] = "begin" /\ Reason(s)
  BY BlockingAssumption, NonePlaced DEF RWLoop, RWMonitorInv, ReadLabels, WriteLabels
<1>b. ASSUME NEW l \in Labels, Moves(l)
      PROVE  /\ pc' \in [Threads -> RWLabels] /\ pc'[t] = l
             /\ \A u \in Threads \ {t} : pc'[u] = pc[u]
             /\ pc[t] \in ReadLabels /\ l \in ReadLabels => Readers(pc') = readers
             /\ pc[t] \notin ReadLabels /\ l \notin ReadLabels => Readers(pc') = readers
             /\ pc[t] \notin ReadLabels /\ l \in ReadLabels => Readers(pc') = readers + 1
             /\ pc[t] \in ReadLabels /\ l \notin ReadLabels => Readers(pc') = readers - 1
             /\ Readers(pc') = 0 <=> \A u \in Threads : pc'[u] \notin ReadLabels
  <2>1. pc' \in [Threads -> RWLabels] /\ pc'[t] = l /\ \A u \in Threads \ {t} : pc'[u] = pc[u]
    BY <1>a, <1>b DEF RWLabels
  <2>2. /\ pc[t] \in ReadLabels /\ pc'[t] \in ReadLabels => Readers(pc') = Readers(pc)
        /\ pc[t] \notin ReadLabels /\ pc'[t] \notin ReadLabels => Readers(pc') = Readers(pc)
        /\ pc[t] \notin ReadLabels /\ pc'[t] \in ReadLabels => Readers(pc') = Readers(pc) + 1
        /\ pc[t] \in ReadLabels /\ pc'[t] \notin ReadLabels => Readers(pc') = Readers(pc) - 1
    BY <1>a, <2>1, PlacedMoves
  <2>3. Readers(pc') = 0 <=> \A u \in Threads : pc'[u] \notin ReadLabels
    BY <1>a, NonePlaced
  <2>4. QED
    BY <1>a, <2>1, <2>2, <2>3
<1>c. readers = 0 <=> \A u \in Threads : ~ R(u)
  BY <1>a, NonePlaced DEF R
<1> HIDE DEF Readers
<1> USE DEF W, R, WriteLabels, ReadLabels
<1>d. ASSUME NEW l \in Labels, Moves(l), writing' \in BOOLEAN,
             writing' <=> \E u \in Threads : W(u)',
             \A u, v \in Threads : ~ (W(u)' /\ R(v)'), readers' = Readers(pc'),
             \A s \in sleeping' : s \in Threads /\ pc'[s] = "begin" /\ Reason(s)'
      PROVE  RWMonitorInv'
  <2>1. \A u \in Threads : pc'[u] \in {"begin", "done"} \cup ReadLabels \cup WriteLabels
    BY <1>b, <1>d DEF RWMonitorInv
  <2>2. readers' = Cardinality(Placed(Threads, pc', ReadLabels))
    BY <1>d DEF Readers
  <2>3. QED
    BY <1>d, <2>1, <2>2 DEF RWMonitorInv
<1>e. \A l \in Labels : l \in RWLabels
  BY DEF RWLabels
\* A thread that goes to sleep, or wakes up by itself, changes nothing else.
<1>f. ASSUME pc' = pc, UNCHANGED <<counter, reg, iter, rw, readers, writing>>,
             \A s \in sleeping' : s \in Threads /\ pc'[s] = "begin" /\ Reason(s)'
      PROVE  RWLoop' /\ OneWriter' /\ RWMonitorInv' /\ rw' = rw
  <2>1. Moves(pc[t])
    BY <1>a, <1>f
  <2>2. \A u \in Threads : (W(u)' <=> W(u)) /\ (R(u)' <=> R(u)) /\ (Rd(u)' <=> Rd(u))
    BY <1>f DEF Rd, RWs!Reads
  <2>3. RWLoop'
    BY <1>f, <2>2 DEF RWLoop
  <2>4. OneWriter'
    BY <2>2 DEF OneWriter
  <2>5. readers' = Readers(pc')
    BY <1>a, <1>f
  <2>6. /\ writing' \in BOOLEAN
        /\ writing' <=> \E u \in Threads : W(u)'
        /\ \A u, v \in Threads : ~ (W(u)' /\ R(v)')
    BY <1>f, <2>2 DEF RWMonitorInv
  <2>7. RWMonitorInv'
    BY <1>a, <1>d, <1>f, <2>1, <2>5, <2>6
  <2>8. QED
    BY <1>f, <2>3, <2>4, <2>7
<1>1. CASE RWs!MonitorReaderLock(t)
  <2>1. /\ pc[t] = "begin" /\ Rd(t) /\ t \notin sleeping /\ UNCHANGED <<counter, reg, iter, rw, writing>>
        /\ \/ writing /\ sleeping' = sleeping \cup {t} /\ pc' = pc /\ readers' = readers
           \/ /\ ~ writing /\ readers' = readers + 1 /\ Moves("read")
              /\ \E woken \in RWs!Notified(TRUE) : sleeping' = sleeping \ woken
    BY <1>1 DEF RWs!MonitorReaderLock, RWs!Reader, RWs!Goto, Rd
  <2>2. CASE writing
    <3>1. \A s \in sleeping' : s \in Threads /\ pc'[s] = "begin" /\ Reason(s)'
      BY <1>a, <2>1, <2>2
    <3>2. QED
      BY <1>f, <2>1, <2>2, <3>1
  <2>3. CASE ~ writing
    <3>1. RWLoop'
      BY <1>e, <2>1, <2>3, RWGoesOn
    <3>2. PICK woken \in RWs!Notified(TRUE) : sleeping' = sleeping \ woken
      BY <2>1, <2>3
    <3>3. woken \subseteq sleeping /\ \A s \in sleeping : Rd(s) => \E u \in woken : Rd(u)
      BY NotifiedReaders
    <3>4. \A u \in Threads : ~ W(u) /\ ~ W(u)' /\ (u # t => pc'[u] = pc[u])
      BY <1>b, <2>1, <2>3 DEF RWMonitorInv
    <3>5. \A u : Rd(u)' <=> Rd(u)
      BY <2>1 DEF Rd, RWs!Reads
    <3>6. readers' # 0 /\ readers' = Readers(pc')
      BY <1>a, <1>b, <2>1, <2>3
    <3>7. \A s \in sleeping' : s \in Threads /\ s # t /\ pc'[s] = "begin"
      BY <1>a, <2>1, <3>2, <3>4
    <3>8. ASSUME NEW s \in sleeping', Rd(s)
          PROVE  \E u \in Threads : OnTheWay(u)' /\ Rd(u)'
      <4>1. PICK u \in woken : Rd(u)
        BY <3>2, <3>3, <3>8
      <4>2. u \in Threads /\ u # t /\ pc'[u] = "begin" /\ u \notin sleeping'
        BY <1>a, <2>1, <3>2, <3>3, <3>4
      <4>3. QED
        BY <3>5, <4>1, <4>2 DEF OnTheWay
    <3>9. \A s \in sleeping' : Reason(s)'
      BY <3>5, <3>6, <3>8
    <3>13. /\ writing' \in BOOLEAN
           /\ writing' <=> \E u \in Threads : W(u)'
           /\ \A u, v \in Threads : ~ (W(u)' /\ R(v)')
      BY <2>1, <2>3, <3>4 DEF RWMonitorInv
    <3>10. RWMonitorInv'
      BY <1>d, <2>1, <2>3, <3>6, <3>7, <3>9, <3>13
    <3>11. OneWriter'
      BY <3>4 DEF OneWriter
    <3>12. QED
      BY <2>1, <3>1, <3>10, <3>11
  <2>4. QED
    BY <2>2, <2>3

<1>2. CASE RWs!MonitorReaderUnlock(t)
  <2> DEFINE Some(woken) == \/ readers' = 0 /\ woken \in RWs!Notified(FALSE)
                            \/ readers' # 0 /\ woken = {}
  <2>1. /\ pc[t] = "leave" /\ readers' = readers - 1 /\ UNCHANGED <<counter, reg, rw, writing>>
        /\ iter' = [iter EXCEPT ![t] = iter[t] + 1]
        /\ \E woken : /\ Some(woken) /\ sleeping' = sleeping \ woken
                      /\ pc' = [u \in DOMAIN pc |-> IF u = t THEN RWs!After(t)
                                                   ELSE IF u \in woken THEN "begin" ELSE pc[u]]
    BY <1>2 DEF RWs!MonitorReaderUnlock, RWs!Reader, RWs!EndAndWake
  <2>2. PICK woken : /\ Some(woken) /\ sleeping' = sleeping \ woken
                     /\ pc' = [u \in DOMAIN pc |-> IF u = t THEN RWs!After(t)
                                                  ELSE IF u \in woken THEN "begin" ELSE pc[u]]
    BY <2>1
  <2>3. woken \subseteq sleeping
        /\ (readers' = 0 => \A s \in sleeping : ~ Rd(s) => \E u \in woken : ~ Rd(u))
    BY <2>2, NotifiedWriters
  <2>4. pc' = [pc EXCEPT ![t] = RWs!After(t)]
    BY <1>a, <2>2, <2>3
  <2>5. RWLoop' /\ \E l \in {"begin", "done"} : Moves(l)
    BY <2>1, <2>4, RWEnds
  <2>6. PICK l \in {"begin", "done"} : Moves(l)
    BY <2>5
  <2>7. \A u \in Threads : ~ W(u) /\ ~ W(u)' /\ (u # t => pc'[u] = pc[u])
    BY <1>b, <2>1, <2>6 DEF RWMonitorInv
  <2>8. \A u \in Threads \ {t} : Rd(u)' <=> Rd(u)
    BY <2>1 DEF Rd, RWs!Reads
  <2>9. readers' = Readers(pc') /\ readers' \in Nat
    <3>1. readers' = Readers(pc')
      BY <1>a, <1>b, <2>1, <2>6
    <3>2. Readers(pc') \in Nat
      BY <1>a, NonePlaced DEF Readers
    <3>3. QED
      BY <3>1, <3>2
  <2>10. \A s \in sleeping' : s \in sleeping /\ s \in Threads /\ s # t /\ pc'[s] = "begin"
    BY <1>a, <2>1, <2>2, <2>7
  <2>11. \A s \in sleeping' : Reason(s)'
    <3> SUFFICES ASSUME NEW s \in sleeping' PROVE Reason(s)'
      OBVIOUS
    <3>1. Rd(s)' <=> Rd(s)
      BY <2>8, <2>10
    <3>2. CASE Rd(s)
      <4>1. PICK u \in Threads : OnTheWay(u) /\ Rd(u)
        BY <1>a, <2>1, <2>7, <2>10, <3>2 DEF RWMonitorInv
      <4>2. u # t /\ OnTheWay(u)' /\ Rd(u)'
        BY <2>1, <2>2, <2>7, <2>8, <4>1 DEF OnTheWay
      <4>3. QED
        BY <3>1, <3>2, <4>2
    <3>3. CASE ~ Rd(s) /\ readers' = 0
      <4>1. PICK u \in woken : ~ Rd(u)
        BY <2>3, <2>10, <3>3
      <4>2. u \in Threads /\ u # t /\ OnTheWay(u)' /\ ~ Rd(u)'
        BY <1>a, <2>1, <2>2, <2>3, <2>7, <2>8, <4>1 DEF OnTheWay
      <4>3. QED
        BY <3>1, <3>3, <4>2
    <3>4. CASE ~ Rd(s) /\ readers' # 0
      BY <3>1, <3>4
    <3>5. QED
      BY <3>2, <3>3, <3>4
  <2>12. /\ writing' \in BOOLEAN
         /\ writing' <=> \E u \in Threads : W(u)'
         /\ \A u, v \in Threads : ~ (W(u)' /\ R(v)')
    BY <2>1, <2>7 DEF RWMonitorInv
  <2>13. RWMonitorInv'
    BY <1>d, <2>6, <2>9, <2>10, <2>11, <2>12
  <2>14. OneWriter'
    BY <2>7 DEF OneWriter
  <2>15. QED
    BY <2>5, <2>6, <2>13, <2>14
<1>3. CASE RWs!MonitorWriterLock(t)
  <2>1. /\ pc[t] = "begin" /\ ~ Rd(t) /\ t \notin sleeping
        /\ UNCHANGED <<counter, reg, iter, rw, readers>>
        /\ \/ /\ writing \/ readers # 0
              /\ sleeping' = sleeping \cup {t} /\ pc' = pc /\ writing' = writing
           \/ /\ ~ writing /\ readers = 0
              /\ sleeping' = sleeping /\ Moves("load") /\ writing' = TRUE
    BY <1>3 DEF RWs!MonitorWriterLock, RWs!Writer, RWs!Goto, Rd
  <2>2. CASE /\ writing \/ readers # 0
             /\ sleeping' = sleeping \cup {t} /\ pc' = pc /\ writing' = writing
    <3>1. \A u : Rd(u)' <=> Rd(u)
      BY <2>1 DEF Rd, RWs!Reads
    <3>2. \A s \in sleeping' : s \in Threads /\ pc'[s] = "begin"
      BY <1>a, <2>1, <2>2
    <3>3. \A s \in sleeping' : Reason(s)'
      <4> SUFFICES ASSUME NEW s \in sleeping', ~ writing PROVE Reason(s)'
        BY <2>2
      <4>1. CASE Rd(s)
        <5>1. PICK u \in Threads : OnTheWay(u) /\ Rd(u)
          BY <1>a, <2>1, <2>2, <4>1
        <5>2. OnTheWay(u)' /\ Rd(u)'
          BY <2>1, <2>2, <3>1, <5>1 DEF OnTheWay
        <5>3. QED
          BY <3>1, <4>1, <5>2
      <4>2. CASE ~ Rd(s)
        BY <2>1, <2>2, <3>1, <4>2
      <4>3. QED
        BY <4>1, <4>2
    <3>4. QED
      BY <1>f, <2>1, <2>2, <3>2, <3>3
  <2>3. CASE /\ ~ writing /\ readers = 0
             /\ sleeping' = sleeping /\ Moves("load") /\ writing' = TRUE
    <3>1. RWLoop'
      BY <1>e, <2>1, <2>3, RWGoesOn
    <3>2. \A u \in Threads : /\ ~ W(u) /\ ~ R(u)
                             /\ u # t => pc'[u] = pc[u]
                             /\ W(u)' <=> u = t
                             /\ ~ R(u)'
      BY <1>b, <1>c, <2>1, <2>3 DEF RWMonitorInv
    <3>3. readers' = Readers(pc')
      BY <1>a, <1>b, <2>1, <2>3
    <3>4. \A s \in sleeping' : s \in Threads /\ pc'[s] = "begin" /\ Reason(s)'
      BY <1>a, <2>1, <2>3, <3>2
    <3>5. RWMonitorInv'
      BY <1>d, <2>3, <3>2, <3>3, <3>4
    <3>6. OneWriter'
      BY <3>2 DEF OneWriter
    <3>7. QED
      BY <2>1, <3>1, <3>5, <3>6
  <2>4. QED
    BY <2>1, <2>2, <2>3
<1>4. CASE RWs!MonitorWriterUnlock(t)
  <2>1. /\ pc[t] = "unlock" /\ writing' = FALSE /\ UNCHANGED <<counter, reg, rw, readers>>
        /\ iter' = [iter EXCEPT ![t] = iter[t] + 1]
        /\ \E one \in RWs!Notified(TRUE), other \in RWs!Notified(FALSE) :
             /\ sleeping' = sleeping \ (one \cup other)
             /\ pc' = [u \in DOMAIN pc |-> IF u = t THEN RWs!After(t)
                                          ELSE IF u \in one \cup other THEN "begin" ELSE pc[u]]
    BY <1>4 DEF RWs!MonitorWriterUnlock, RWs!Writer, RWs!EndAndWake
  <2>2. PICK one \in RWs!Notified(TRUE), other \in RWs!Notified(FALSE) :
             /\ sleeping' = sleeping \ (one \cup other)
             /\ pc' = [u \in DOMAIN pc |-> IF u = t THEN RWs!After(t)
                                          ELSE IF u \in one \cup other THEN "begin" ELSE pc[u]]
    BY <2>1
  <2>3. /\ one \subseteq sleeping /\ other \subseteq sleeping
        /\ \A s \in sleeping : Rd(s) => \E u \in one : Rd(u)
        /\ \A s \in sleeping : ~ Rd(s) => \E u \in other : ~ Rd(u)
    BY <2>2, NotifiedReaders, NotifiedWriters
  <2>4. pc' = [pc EXCEPT ![t] = RWs!After(t)]
    BY <1>a, <2>2, <2>3
  <2>5. RWLoop' /\ \E l \in {"begin", "done"} : Moves(l)
    BY <2>1, <2>4, RWEnds
  <2>6. PICK l \in {"begin", "done"} : Moves(l)
    BY <2>5
  <2>7. \A u \in Threads : ~ R(u) /\ ~ R(u)' /\ ~ W(u)' /\ (u # t => pc'[u] = pc[u])
    BY ZenonT(40), <1>b, <2>1, <2>6 DEF RWMonitorInv, OneWriter
  <2>8. \A u \in Threads \ {t} : Rd(u)' <=> Rd(u)
    BY <2>1 DEF Rd, RWs!Reads
  <2>9. readers' = Readers(pc')
    BY <1>a, <1>b, <2>1, <2>6
  <2>10. \A s \in sleeping' : s \in sleeping /\ s \in Threads /\ s # t /\ pc'[s] = "begin"
    BY <1>a, <2>1, <2>2, <2>7
  <2>11. \A s \in sleeping' : Reason(s)'
    <3> SUFFICES ASSUME NEW s \in sleeping' PROVE Reason(s)'
      OBVIOUS
    <3>1. Rd(s)' <=> Rd(s)
      BY <2>8, <2>10
    <3>2. PICK u \in one \cup other : Rd(u) <=> Rd(s)
      BY <2>3, <2>10
    <3>3. u \in Threads /\ u # t /\ OnTheWay(u)' /\ (Rd(u)' <=> Rd(u))
      BY <1>a, <2>1, <2>2, <2>3, <2>7, <2>8, <3>2 DEF OnTheWay
    <3>4. QED
      BY <3>1, <3>2, <3>3
  <2>12. /\ writing' \in BOOLEAN
         /\ writing' <=> \E u \in Threads : W(u)'
         /\ \A u, v \in Threads : ~ (W(u)' /\ R(v)')
    BY <2>1, <2>7
  <2>13. RWMonitorInv'
    BY <1>d, <2>6, <2>9, <2>10, <2>11, <2>12
  <2>14. OneWriter'
    BY <2>7 DEF OneWriter
  <2>15. QED
    BY <2>5, <2>6, <2>13, <2>14
<1>5. CASE RWs!Count(t)
  <2>1. /\ RWLoop' /\ UNCHANGED <<rw, readers, writing, sleeping>>
        /\ \E l \in {"leave", "store", "unlock"} :
              /\ pc' = [pc EXCEPT ![t] = l]
              /\ W(t) <=> l \in WriteLabels
              /\ R(t) <=> l \in ReadLabels
              /\ pc[t] \in {"read", "load", "store"}
    BY <1>5, RWCounts
  <2>2. PICK l \in {"leave", "store", "unlock"} :
              /\ Moves(l)
              /\ W(t) <=> l \in WriteLabels
              /\ R(t) <=> l \in ReadLabels
              /\ pc[t] \in {"read", "load", "store"}
    BY <2>1
  <2>3. \A u \in Threads : /\ W(u)' <=> W(u)
                           /\ R(u)' <=> R(u)
                           /\ pc[u] = "begin" => u # t /\ pc'[u] = "begin"
    BY <1>b, <2>2
  <2>4. readers' = Readers(pc')
    BY <1>a, <1>b, <2>1, <2>2
  <2>5. \A u : Rd(u)' <=> Rd(u)
    <3>1. iter' = iter
      BY <1>5, <1>a, <2>2 DEF RWs!Count, RWs!Load, RWs!Store
    <3>2. QED
      BY <3>1 DEF Rd, RWs!Reads
  <2>6. \A s \in sleeping' : s \in Threads /\ pc'[s] = "begin"
    BY <1>a, <2>1, <2>3
  <2>7. \A u \in Threads : OnTheWay(u) => OnTheWay(u)'
    BY <2>1, <2>3 DEF OnTheWay
  <2>8. \A s \in sleeping' : Reason(s)'
    BY <1>a, <2>1, <2>5, <2>7
  <2>9. /\ writing' \in BOOLEAN
        /\ writing' <=> \E u \in Threads : W(u)'
        /\ \A u, v \in Threads : ~ (W(u)' /\ R(v)')
    BY <2>1, <2>3 DEF RWMonitorInv
  <2>10. RWMonitorInv'
    BY <1>d, <2>2, <2>4, <2>6, <2>8, <2>9
  <2>11. OneWriter'
    BY <2>3 DEF OneWriter
  <2>12. QED
    BY <2>1, <2>10, <2>11
<1>6. CASE RWs!SpuriousWake(t)
  <2>1. sleeping' = sleeping \ {t} /\ UNCHANGED <<pc, counter, reg, iter, rw, readers, writing>>
    BY <1>6 DEF RWs!SpuriousWake, RWs!loopvars
  <2>2. \A u : Rd(u)' <=> Rd(u)
    BY <2>1 DEF Rd, RWs!Reads
  <2>3. \A u \in Threads : OnTheWay(u) => OnTheWay(u)'
    BY <2>1 DEF OnTheWay
  <2>4. \A s \in sleeping' : Reason(s)'
    BY <1>a, <2>1, <2>2, <2>3
  <2>5. \A s \in sleeping' : s \in Threads /\ pc'[s] = "begin"
    BY <1>a, <2>1
  <2>6. QED
    BY <1>f, <2>1, <2>4, <2>5
<1>7. QED
  BY <1>1, <1>2, <1>3, <1>4, <1>5, <1>6, <1>a
  DEF RWs!Step, RWs!TakeEntry, RWs!ReaderLock, RWs!FirstReader, RWs!ReaderUnlock,
      RWs!WriterLock, RWs!WriterUnlock, RWs!Entered, RWs!FasterReaderLock,
      RWs!FasterReaderUnlock, RWs!FasterWriterLock, RWs!FasterAwait, RWs!FasterAwaited,
      RWs!FasterWriterUnlock, RWs!Reader, RWs!Writer

\* No step of the threads, or of nobody, breaks RWInv.
LEMMA RWKeeps ==
  ASSUME RWInv,
         \/ \E t \in Threads : RWs!Step(t) \/ RWs!SpuriousWake(t)
         \/ UNCHANGED <<loopvars, rwonly, sleeping>>
  PROVE  RWInv'
<1>1. CASE UNCHANGED <<loopvars, rwonly, sleeping>>
  <2>1. UNCHANGED <<pc, counter, reg, iter, rw, held, readers, out, wait, writing, sleeping>>
    BY <1>1 DEF loopvars, rwonly
  <2>2. \A t : Rd(t)' <=> Rd(t)
    BY <2>1 DEF Rd, RWs!Reads
  <2>3. RWLoop' /\ OneWriter'
    BY <2>1, <2>2 DEF RWInv, RWLoop, OneWriter, W
  <2>4. (PlainInv => PlainInv') /\ (FasterInv => FasterInv')
    BY <2>1 DEF PlainInv, FasterInv, W, R
  <2>5. RWMonitorInv => RWMonitorInv'
    BY <2>1, <2>2 DEF RWMonitorInv, W, R, OnTheWay
  <2>6. QED
    BY <2>1, <2>3, <2>4, <2>5 DEF RWInv
<1>2. ASSUME NEW t \in Threads, RWs!Step(t) \/ RWs!SpuriousWake(t) PROVE RWInv'
  <2>1. CASE rw \in {"plain", "fair", "faster"}
    <3>1. RWs!Step(t)
      BY <1>2, <2>1 DEF RWs!SpuriousWake
    <3>2. QED
      BY <2>1, <3>1, PlainStep, FasterStep DEF RWInv
  <2>2. CASE rw \in {"monitor", "java"}
    BY <1>2, <2>2, RWMonitorStep DEF RWInv
  <2>3. QED
    BY <2>1, <2>2 DEF RWInv
<1>3. QED
  BY <1>1, <1>2

\* A writer is alone, and those who sleep have a reason.
LEMMA RWPromises ==
  ASSUME RWInv
  PROVE  RWs!WriterIsAlone /\ RWs!SleepersHaveAReason
<1>1. RWs!WriterIsAlone
  <2> SUFFICES ASSUME NEW t \in RWs!Writing
               PROVE  RWs!Writing = {t} /\ (rw # "faster" => RWs!Reading = {})
    BY DEF RWs!WriterIsAlone
  <2>1. \A u : /\ u \in RWs!Writing <=> u \in Threads /\ W(u)
               /\ u \in RWs!Reading <=> u \in Threads /\ R(u)
    BY DEF RWs!Writing, RWs!Reading, W, R, WriteLabels, ReadLabels
  <2>2. \A u \in RWs!Writing : u = t
    BY <2>1 DEF RWInv, OneWriter
  <2>3. rw # "faster" => \A u \in Threads : ~ R(u)
    BY <2>1 DEF RWInv, PlainInv, RWMonitorInv
  <2>4. QED
    BY <2>1, <2>2, <2>3
<1>2. RWs!SleepersHaveAReason
  <2>1. \A u : /\ u \in RWs!Sleepers(TRUE) <=> u \in sleeping /\ Rd(u)
               /\ u \in RWs!Sleepers(FALSE) <=> u \in sleeping /\ ~ Rd(u)
    BY DEF RWs!Sleepers, Rd, RWs!Reads
  <2>2. CASE sleeping = {}
    BY <2>1, <2>2 DEF RWs!SleepersHaveAReason
  <2>3. CASE sleeping # {}
    <3>1. RWMonitorInv
      BY <2>3 DEF RWInv, PlainInv, FasterInv
    <3>2. QED
      BY <2>1, <3>1 DEF RWs!SleepersHaveAReason, RWMonitorInv, OnTheWay
  <2>4. QED
    BY <2>2, <2>3
<1>3. QED
  BY <1>1, <1>2

-----------------------------------------------------------------------------

\* The iterations of a writer among the first n, and one more.
LEMMA IncrementsFacts ==
  ASSUME NEW n \in Nat
  PROVE  /\ RWs!Increments(n) \in Nat
         /\ n % Period = 0 => RWs!Increments(n + 1) = RWs!Increments(n) + 1
         /\ n % Period # 0 => RWs!Increments(n + 1) = RWs!Increments(n)
         /\ n < Writes => RWs!Increments(n + 1) <= RWs!Increments(Writes)
<1> DEFINE S(m) == {i \in 0 .. m - 1 : i % Period = 0}
<1>1. \A m \in Nat : IsFiniteSet(S(m)) /\ Cardinality(S(m)) \in Nat
  <2> TAKE m \in Nat
  <2>1. IsFiniteSet(0 .. m - 1)
    BY FS_Interval
  <2>2. S(m) \subseteq 0 .. m - 1
    OBVIOUS
  <2>3. QED
    BY <2>1, <2>2, FS_Subset, FS_CardinalityType
<1>2. n \notin S(n) /\ 0 .. (n + 1) - 1 = (0 .. n - 1) \cup {n}
  OBVIOUS
<1>3. ASSUME n % Period = 0 PROVE Cardinality(S(n + 1)) = Cardinality(S(n)) + 1
  <2>1. S(n + 1) = S(n) \cup {n}
    BY <1>2, <1>3
  <2>2. Cardinality(S(n) \cup {n}) = Cardinality(S(n)) + 1
    BY <1>1, <1>2, FS_AddElement
  <2>3. QED
    BY <2>1, <2>2
<1>4. ASSUME n % Period # 0 PROVE Cardinality(S(n + 1)) = Cardinality(S(n))
  <2>1. S(n + 1) = S(n)
    BY <1>2, <1>4
  <2>2. QED
    BY <2>1
<1>5. ASSUME n < Writes PROVE Cardinality(S(n + 1)) <= Cardinality(S(Writes))
  <2>1. Writes \in Nat /\ \A i \in 0 .. (n + 1) - 1 : i \in 0 .. Writes - 1
    BY <1>5, BlockingAssumption
  <2>2. S(n + 1) \in SUBSET S(Writes)
    BY <2>1
  <2>3. IsFiniteSet(S(Writes))
    BY <1>1, <2>1
  <2>4. QED
    BY <2>2, <2>3, FS_Subset
<1>6. \A m : RWs!Increments(m) = Cardinality(S(m))
  BY Zenon DEF RWs!Increments, RWs!Cardinality, Cardinality
<1> HIDE DEF S
<1>7. n + 1 \in Nat /\ Writes \in Nat
  BY BlockingAssumption
<1>8. QED
  BY <1>1, <1>3, <1>4, <1>5, <1>6, <1>7

\* A store is an increment of the abstract counter, and nothing else counts.
LEMMA RWIncrements ==
  ASSUME RWInv,
         \/ \E t \in Threads : RWs!Step(t) \/ RWs!SpuriousWake(t)
         \/ UNCHANGED <<loopvars, rwonly, sleeping>>
  PROVE  RWs!Atomic!ANext \/ UNCHANGED RWs!Atomic!avars
<1> DEFINE M(u) == RWs!Increments(IF pc[u] = "unlock" THEN iter[u] + 1 ELSE iter[u])
<1>a. RWLoop /\ OneWriter /\ \A u \in sleeping : u \in Threads /\ pc[u] = "begin"
  BY DEF RWInv, PlainInv, FasterInv, RWMonitorInv
<1>b. /\ pc \in [Threads -> RWLabels] /\ iter \in [Threads -> Nat]
      /\ \A u \in Threads : pc[u] # "done" => iter[u] < Writes
      /\ RWs!Made = [u \in Threads |-> M(u)]
  BY <1>a DEF RWLoop, RWs!Made
<1>c. ASSUME UNCHANGED counter, \A u \in Threads : M(u)' = M(u)
      PROVE  UNCHANGED RWs!Atomic!avars
  <2>1. RWs!Made' = [u \in Threads |-> M(u)']
    BY DEF RWs!Made
  <2>2. RWs!Made' = RWs!Made
    BY <1>b, <1>c, <2>1
  <2>3. QED
    BY <1>c, <2>2 DEF RWs!Atomic!avars
\* A move within an iteration that does not leave the lock of a writer.
<1>d. ASSUME NEW t \in Threads, NEW l, pc' = [pc EXCEPT ![t] = l], UNCHANGED <<counter, iter>>,
             l # "unlock", pc[t] # "unlock"
      PROVE  UNCHANGED RWs!Atomic!avars
  <2>1. \A u \in Threads : (pc'[u] = "unlock" <=> pc[u] = "unlock") /\ iter'[u] = iter[u]
    BY <1>b, <1>d
  <2>2. \A u \in Threads : M(u)' = M(u)
    BY <2>1
  <2>3. QED
    BY <1>c, <1>d, <2>2
\* The end of an iteration, of a writer or of a reader.
<1>e. ASSUME NEW t \in Threads, pc' = [pc EXCEPT ![t] = RWs!After(t)],
             iter' = [iter EXCEPT ![t] = iter[t] + 1], UNCHANGED <<counter>>,
             pc[t] = "unlock" \/ pc[t] = "leave"
      PROVE  UNCHANGED RWs!Atomic!avars
  <2>1. RWs!After(t) # "unlock"
    BY DEF RWs!After
  <2>2. \A u \in Threads \ {t} : M(u)' = M(u)
    BY <1>b, <1>e
  <2>3. M(t)' = RWs!Increments(iter[t] + 1)
    BY <1>b, <1>e, <2>1
  <2>4. M(t) = RWs!Increments(iter[t] + 1)
    <3>1. CASE pc[t] = "unlock"
      BY <3>1
    <3>2. CASE pc[t] = "leave"
      <4>1. Rd(t) /\ iter[t] \in Nat
        BY <1>a, <1>b, <3>2 DEF RWLoop
      <4>2. iter[t] % Period # 0
        BY <4>1 DEF Rd, RWs!Reads
      <4>3. QED
        BY <3>2, <4>1, <4>2, IncrementsFacts
    <3>3. QED
      BY <1>e, <3>1, <3>2
  <2>5. QED
    BY <1>c, <1>e, <2>2, <2>3, <2>4
<1>1. CASE UNCHANGED <<loopvars, rwonly, sleeping>>
  <2>1. UNCHANGED <<pc, counter, iter>>
    BY <1>1 DEF loopvars
  <2>2. \A u \in Threads : M(u)' = M(u)
    BY <2>1
  <2>3. QED
    BY <1>c, <2>1, <2>2
<1>2. ASSUME NEW t \in Threads, RWs!SpuriousWake(t)
      PROVE  UNCHANGED RWs!Atomic!avars
  <2>1. UNCHANGED <<pc, counter, iter>>
    BY <1>2 DEF RWs!SpuriousWake, RWs!loopvars
  <2>2. \A u \in Threads : M(u)' = M(u)
    BY <2>1
  <2>3. QED
    BY <1>c, <2>1, <2>2
<1>3. ASSUME NEW t \in Threads, RWs!Store(t)
      PROVE  RWs!Atomic!ANext
  <2>1. /\ pc[t] = "store" /\ pc' = [pc EXCEPT ![t] = "unlock"] /\ counter' = counter + 1
        /\ UNCHANGED iter
    BY <1>3, <1>a DEF RWs!Store, RWs!Goto, RWLoop
  <2>2. iter[t] \in Nat /\ iter[t] < Writes /\ ~ Rd(t)
    BY <1>a, <1>b, <2>1 DEF RWLoop, W, WriteLabels
  <2>3. iter[t] % Period = 0
    BY <2>2 DEF Rd, RWs!Reads
  <2>4. /\ RWs!Increments(iter[t]) \in Nat
        /\ RWs!Increments(iter[t] + 1) = RWs!Increments(iter[t]) + 1
        /\ RWs!Increments(iter[t] + 1) <= RWs!Increments(Writes)
        /\ RWs!Increments(Writes) \in Nat
    BY <2>2, <2>3, IncrementsFacts, BlockingAssumption
  <2>5. \A u \in Threads \ {t} : M(u)' = M(u)
    BY <1>b, <2>1
  <2>6. M(t) = RWs!Increments(iter[t]) /\ M(t)' = RWs!Increments(iter[t] + 1)
    BY <1>b, <2>1
  <2>7. RWs!Made' = [u \in Threads |-> M(u)']
    BY DEF RWs!Made
  <2> HIDE DEF M
  <2>8. RWs!Made' = [RWs!Made EXCEPT ![t] = RWs!Made[t] + 1]
    BY <1>b, <2>4, <2>5, <2>6, <2>7
  <2>9. RWs!Made[t] < RWs!Increments(Writes)
    BY <1>b, <2>4, <2>6
  <2>10. QED
    BY <2>1, <2>8, <2>9 DEF RWs!Atomic!ANext, RWs!Atomic!Increment
<1>4. ASSUME NEW t \in Threads, RWs!Step(t), ~ RWs!Store(t)
      PROVE  UNCHANGED RWs!Atomic!avars
  <2>1. \/ /\ \E l : l # "unlock" /\ pc' = [pc EXCEPT ![t] = l]
           /\ pc[t] # "unlock" /\ UNCHANGED <<counter, iter>>
        \/ /\ pc' = [pc EXCEPT ![t] = RWs!After(t)] /\ iter' = [iter EXCEPT ![t] = iter[t] + 1]
           /\ UNCHANGED counter /\ pc[t] \in {"unlock", "leave"}
    <3> DEFINE Within == /\ \E l : l # "unlock" /\ pc' = [pc EXCEPT ![t] = l]
                         /\ pc[t] # "unlock" /\ UNCHANGED <<counter, iter>>
               Ends == /\ pc' = [pc EXCEPT ![t] = RWs!After(t)]
                       /\ iter' = [iter EXCEPT ![t] = iter[t] + 1]
                       /\ UNCHANGED counter /\ pc[t] \in {"unlock", "leave"}
    <3>1. CASE RWs!TakeEntry(t) \/ RWs!FirstReader(t) \/ RWs!FasterReaderLock(t) \/ RWs!WriterLock(t)
      BY <3>1 DEF RWs!TakeEntry, RWs!FirstReader, RWs!FasterReaderLock, RWs!WriterLock,
                  RWs!Entered, RWs!Goto, RWs!Reader
    <3>2. CASE RWs!ReaderLock(t) \/ RWs!FasterWriterLock(t) \/ RWs!FasterAwait(t)
               \/ RWs!FasterAwaited(t)
      BY <3>2 DEF RWs!ReaderLock, RWs!FasterWriterLock, RWs!FasterAwait, RWs!FasterAwaited,
                  RWs!Entered, RWs!Goto, RWs!Writer
    <3>3. CASE RWs!ReaderUnlock(t) \/ RWs!WriterUnlock(t) \/ RWs!FasterReaderUnlock(t)
               \/ RWs!FasterWriterUnlock(t)
      BY <3>3 DEF RWs!ReaderUnlock, RWs!WriterUnlock, RWs!FasterReaderUnlock,
                  RWs!FasterWriterUnlock, RWs!Goto, RWs!Reader, RWs!Writer, RWs!EndIteration
    <3>4. CASE RWs!MonitorReaderLock(t) \/ RWs!MonitorWriterLock(t)
      <4>1. pc' = pc \/ \E l : l # "unlock" /\ pc' = [pc EXCEPT ![t] = l]
        BY <3>4 DEF RWs!MonitorReaderLock, RWs!MonitorWriterLock, RWs!Goto
      <4>2. pc[t] = "begin" /\ UNCHANGED <<counter, iter>>
        BY <3>4 DEF RWs!MonitorReaderLock, RWs!MonitorWriterLock, RWs!Reader, RWs!Writer
      <4>3. pc = [pc EXCEPT ![t] = "begin"]
        BY <1>b, <4>2
      <4>4. QED
        BY <4>1, <4>2, <4>3
    <3>5. CASE RWs!MonitorReaderUnlock(t) \/ RWs!MonitorWriterUnlock(t)
      <4>1. PICK woken : RWs!EndAndWake(t, woken) /\ woken \subseteq sleeping
        BY <3>5, NotifiedReaders, NotifiedWriters
        DEF RWs!MonitorReaderUnlock, RWs!MonitorWriterUnlock
      <4>2. pc[t] \in {"unlock", "leave"}
        BY <3>5 DEF RWs!MonitorReaderUnlock, RWs!MonitorWriterUnlock, RWs!Reader, RWs!Writer
      <4>3. /\ pc' = [u \in DOMAIN pc |-> IF u = t THEN RWs!After(t)
                                         ELSE IF u \in woken THEN "begin" ELSE pc[u]]
            /\ iter' = [iter EXCEPT ![t] = iter[t] + 1] /\ UNCHANGED counter
        BY <4>1 DEF RWs!EndAndWake
      <4>4. pc' = [pc EXCEPT ![t] = RWs!After(t)]
        BY <1>a, <1>b, <4>1, <4>3
      <4>5. QED
        BY <4>2, <4>3, <4>4
    <3>6. CASE RWs!Count(t)
      BY <3>6, <1>4 DEF RWs!Count, RWs!Load, RWs!Goto
    <3>7. QED
      BY <1>4, <3>1, <3>2, <3>3, <3>4, <3>5, <3>6 DEF RWs!Step
  <2>2. QED
    BY <1>d, <1>e, <2>1
<1>5. QED
  BY <1>1, <1>2, <1>3, <1>4

-----------------------------------------------------------------------------
(* Monitors                                                                *)

\* A counting program whose threads have labels of L: a thread at "store" has
\* the counter in its register.
Loop(L) == /\ pc \in [Threads -> L]
           /\ iter \in [Threads -> Nat] /\ reg \in [Threads -> Nat] /\ counter \in Nat
           /\ \A t \in Threads : /\ pc[t] # "done" => iter[t] < Max
                                 /\ pc[t] = "store" => reg[t] = counter

\* A thread goes on, at another label of the same iteration.
LEMMA LoopGoesOn ==
  ASSUME NEW L, Loop(L), NEW t \in Threads, NEW l \in L \ {"store", "done"}, pc[t] # "done",
         pc' = [pc EXCEPT ![t] = l], UNCHANGED <<counter, reg, iter>>
  PROVE  /\ Loop(L)'
         /\ \A u \in Threads : pc'[u] = IF u = t THEN l ELSE pc[u]
<1>1. pc' \in [Threads -> L] /\ \A u \in Threads : pc'[u] = IF u = t THEN l ELSE pc[u]
  BY DEF Loop
<1>2. QED
  BY <1>1 DEF Loop

\* Thread t ends an iteration, and may take the threads of V to the label l.
LEMMA LoopEnds ==
  ASSUME NEW L, Loop(L), NEW t \in Threads, pc[t] # "done", {"begin", "done"} \subseteq L,
         NEW V, \A v \in V : v \in Threads /\ pc[v] # "done",
         NEW l, V # {} => l \in L \ {"store", "done"},
         pc' = [u \in Threads |-> IF u = t THEN After(t) ELSE IF u \in V THEN l ELSE pc[u]],
         iter' = [iter EXCEPT ![t] = iter[t] + 1], UNCHANGED <<counter, reg>>
  PROVE  Loop(L)'
<1>1. /\ After(t) \in {"begin", "done"} /\ iter[t] + 1 \in Nat
      /\ After(t) # "done" => iter[t] + 1 < Max
  BY MaxAssumption DEF Loop, After
<1>2. /\ iter' \in [Threads -> Nat]
      /\ \A u \in Threads : iter'[u] = IF u = t THEN iter[t] + 1 ELSE iter[u]
  BY <1>1 DEF Loop
<1>3. /\ pc' \in [Threads -> L]
      /\ \A u \in Threads : pc'[u] = IF u = t THEN After(t) ELSE IF u \in V THEN l ELSE pc[u]
  BY <1>1 DEF Loop
<1>4. \A u \in Threads : pc'[u] # "done" => iter'[u] < Max
  BY <1>1, <1>2, <1>3 DEF Loop
<1>5. \A u \in Threads : pc'[u] = "store" => reg'[u] = counter'
  BY <1>1, <1>3 DEF Loop
<1>6. QED
  BY <1>2, <1>3, <1>4, <1>5 DEF Loop

\* A thread counts, with no other one in the middle of it.
LEMMA LoopCounts ==
  ASSUME NEW L, Loop(L), NEW t \in Threads, {"store", "unlock"} \subseteq L,
         \A u \in Threads : W(u) => u = t, Load(t) \/ Store(t)
  PROVE  /\ Loop(L)' /\ UNCHANGED iter
         /\ pc[t] \in {"load", "store"}
         /\ \E l \in {"store", "unlock"} : pc' = [pc EXCEPT ![t] = l]
<1>1. CASE Load(t)
  <2>1. pc' = [pc EXCEPT ![t] = "store"] /\ reg' = [reg EXCEPT ![t] = counter]
    BY <1>1 DEF Load, Goto
  <2>2. /\ pc' \in [Threads -> L] /\ \A u \in Threads : pc'[u] = IF u = t THEN "store" ELSE pc[u]
        /\ reg' \in [Threads -> Nat] /\ \A u \in Threads : reg'[u] = IF u = t THEN counter ELSE reg[u]
    BY <2>1 DEF Loop
  <2>3. QED
    BY <1>1, <2>1, <2>2 DEF Loop, Load
<1>2. CASE Store(t)
  <2>1. pc' = [pc EXCEPT ![t] = "unlock"] /\ reg' = [reg EXCEPT ![t] = 0] /\ reg[t] + 1 \in Nat
    BY <1>2 DEF Store, Goto, Loop
  <2>2. /\ pc' \in [Threads -> L] /\ \A u \in Threads : pc'[u] = IF u = t THEN "unlock" ELSE pc[u]
        /\ reg' \in [Threads -> Nat]
    BY <2>1 DEF Loop
  <2>3. \A u \in Threads : pc'[u] # "store"
    BY <2>2 DEF W, WriteLabels
  <2>4. QED
    BY <1>2, <2>1, <2>2, <2>3 DEF Loop, Store
<1>3. QED
  BY <1>1, <1>2

-----------------------------------------------------------------------------

\* monitors/mutex.c and mutex_relaxed.c
MonLabels == {"begin", "test", "wait", "asleep", "relock", "load", "store", "unlock",
              "signal", "done"}
MonInv == /\ Loop(MonLabels) /\ OneWriter
          /\ locked \in {0, 1}
          /\ locked = 1 <=> \E t \in Threads : W(t)
          /\ \A t \in Threads : pc[t] \in {"test", "wait"} => mutex = {t}
          /\ sleeping = Placed(Threads, pc, {"asleep"})
          /\ program = "mutex" => /\ \A t \in Threads : /\ pc[t] = "wait" => locked = 1
                                                        /\ pc[t] # "signal"
                                  /\ Monitor!NoLostWakeup

\* The last call of unlock(), in either version.
MonLeaves(t) == /\ \/ pc[t] = "unlock" /\ mutex = {} /\ locked' = 0
                   \/ pc[t] = "signal" /\ UNCHANGED locked
                /\ Monitor!SignalAndLeave(t)
                /\ UNCHANGED mutex

\* A step of either version, with the name of the version that can take it.
MonStep(t) == \/ Monitor!Acquire(t) \/ Monitor!Test(t) \/ Monitor!Wait(t) \/ Monitor!Count(t)
              \/ Monitor!SpuriousWake(t) \/ MonLeaves(t)
              \/ program # "mutex" /\ RelaxedMonitor!RelaxedStore(t)

\* The steps of mutex.c are those of MonStep.
LEMMA StrictStep ==
  ASSUME NEW t, Monitor!Step(t) \/ Monitor!SpuriousWake(t)
  PROVE  MonStep(t)
<1>1. ~ Monitor!RelaxedStore(t)
  BY DEF Monitor!RelaxedStore
<1>2. Monitor!Unlock(t) \/ Monitor!RelaxedSignal(t) => MonLeaves(t)
  BY DEF Monitor!Unlock, Monitor!RelaxedSignal, MonLeaves
<1>3. QED
  BY <1>1, <1>2 DEF Monitor!Step, MonStep

\* So are the steps of mutex_relaxed.c.
LEMMA RelaxedStep ==
  ASSUME NEW t, RelaxedMonitor!Step(t) \/ RelaxedMonitor!SpuriousWake(t), program # "mutex"
  PROVE  MonStep(t)
<1>1. ~ RelaxedMonitor!Unlock(t)
  BY DEF RelaxedMonitor!Unlock
<1>2. RelaxedMonitor!RelaxedSignal(t) => MonLeaves(t)
  BY DEF RelaxedMonitor!RelaxedSignal, MonLeaves, RelaxedMonitor!SignalAndLeave,
         Monitor!SignalAndLeave, RelaxedMonitor!After, Monitor!After, RelaxedMonitor!Goto,
         Monitor!Goto
<1>3. RelaxedMonitor!Acquire(t) => Monitor!Acquire(t)
  BY DEF RelaxedMonitor!Acquire, Monitor!Acquire, RelaxedMonitor!Goto, Monitor!Goto
<1>4. RelaxedMonitor!Test(t) => Monitor!Test(t)
  BY DEF RelaxedMonitor!Test, Monitor!Test, RelaxedMonitor!Goto, Monitor!Goto
<1>5. RelaxedMonitor!Wait(t) => Monitor!Wait(t)
  BY DEF RelaxedMonitor!Wait, Monitor!Wait, RelaxedMonitor!Goto, Monitor!Goto
<1>6. RelaxedMonitor!SpuriousWake(t) => Monitor!SpuriousWake(t)
  BY DEF RelaxedMonitor!SpuriousWake, Monitor!SpuriousWake, RelaxedMonitor!Goto, Monitor!Goto
<1>7. RelaxedMonitor!Count(t) => Monitor!Count(t)
  BY DEF RelaxedMonitor!Count, Monitor!Count, RelaxedMonitor!Goto, Monitor!Goto,
         RelaxedMonitor!Load, Monitor!Load, RelaxedMonitor!Store, Monitor!Store,
         RelaxedMonitor!monvars, Monitor!monvars
<1>8. QED
  BY <1>1, <1>2, <1>3, <1>4, <1>5, <1>6, <1>7 DEF RelaxedMonitor!Step, MonStep

\* The monitor as main leaves it.
LEMMA MonFirst == Monitor!Init => MonInv
<1> SUFFICES ASSUME Monitor!Init PROVE MonInv
  OBVIOUS
<1> USE DEF Monitor!Init, Monitor!LoopInit
<1>1. \A t \in Threads : pc[t] = "begin"
  OBVIOUS
<1>2. Loop(MonLabels)
  BY <1>1, MaxAssumption DEF Loop, MonLabels
<1>3. sleeping = Placed(Threads, pc, {"asleep"}) /\ Monitor!NoLostWakeup
  BY <1>1 DEF Placed, Monitor!NoLostWakeup
<1>4. QED
  BY <1>1, <1>2, <1>3 DEF MonInv, OneWriter, W, WriteLabels

\* What is left to show when thread t moves to l.
LEMMA MonMoves ==
  ASSUME MonInv, UNCHANGED program, NEW t \in Threads, NEW l \in MonLabels \ {"done", "signal"},
         pc' = [pc EXCEPT ![t] = l], Loop(MonLabels)', pc[t] # "done",
         mutex' \in {mutex, {}, {t}}, locked' \in {0, 1},
         mutex = {} \/ mutex = {t} \/ mutex' = mutex,
         l \in {"test", "wait"} => mutex' = {t},
         W(t)' /\ ~ W(t) => locked = 0 /\ locked' = 1,
         W(t) => W(t)' /\ UNCHANGED locked,
         ~ W(t) /\ ~ W(t)' => UNCHANGED locked,
         l = "wait" => locked = 1,
         sleeping' = IF l = "asleep" THEN sleeping \cup {t} ELSE sleeping \ {t},
         l = "asleep" => pc[t] = "wait"
  PROVE  MonInv'
<1>1. /\ pc \in [Threads -> MonLabels]
      /\ \A u \in Threads : pc'[u] = IF u = t THEN l ELSE pc[u]
  BY DEF MonInv, Loop
<1>2. \A u \in Threads : W(u)' <=> IF u = t THEN W(t)' ELSE W(u)
  BY <1>1 DEF W
<1>3. OneWriter'
  BY <1>2 DEF MonInv, OneWriter
<1>4. locked' = 1 <=> \E u \in Threads : W(u)'
  BY <1>2 DEF MonInv
<1>5. \A u \in Threads : pc'[u] \in {"test", "wait"} => mutex' = {u}
  BY <1>1 DEF MonInv
<1>6. sleeping' = Placed(Threads, pc', {"asleep"})
  BY <1>1 DEF MonInv, Placed
<1>7. program = "mutex" => \A u \in Threads : /\ pc'[u] = "wait" => locked' = 1
                                              /\ pc'[u] # "signal"
  BY <1>1 DEF MonInv, W, WriteLabels
<1>8. program = "mutex" => Monitor!NoLostWakeup'
  BY <1>1, <1>2, <1>4 DEF MonInv, Monitor!NoLostWakeup, W, WriteLabels, MonLabels
<1>9. QED
  BY <1>3, <1>4, <1>5, <1>6, <1>7, <1>8 DEF MonInv

\* What unlock() leaves when it signals.
LEMMA MonUnlocks ==
  ASSUME MonInv, UNCHANGED program, NEW t \in Threads, MonLeaves(t)
  PROVE  MonInv'
<1>1. /\ pc \in [Threads -> MonLabels] /\ pc[t] \in {"unlock", "signal"}
      /\ iter' = [iter EXCEPT ![t] = iter[t] + 1] /\ UNCHANGED <<counter, reg, mutex>>
  BY DEF MonInv, Loop, MonLeaves, Monitor!SignalAndLeave
<1>2. PICK V : /\ V \subseteq sleeping
               /\ V = {} => sleeping = {}
               /\ sleeping' = sleeping \ V
               /\ pc' = [u \in Threads |-> IF u = t THEN After(t)
                                           ELSE IF u \in V THEN "relock" ELSE pc[u]]
  <2>1. CASE sleeping = {}
    <3>1. pc' = [pc EXCEPT ![t] = After(t)] /\ sleeping' = {}
      BY <2>1 DEF MonLeaves, Monitor!SignalAndLeave, Monitor!Goto, Monitor!After, After
    <3>2. pc' = [u \in Threads |-> IF u = t THEN After(t)
                                   ELSE IF u \in {} THEN "relock" ELSE pc[u]]
      BY <1>1, <3>1
    <3>3. {} \subseteq sleeping /\ sleeping' = sleeping \ {}
      BY <2>1, <3>1
    <3>4. QED
      BY <2>1, <3>2, <3>3
  <2>2. CASE sleeping # {}
    <3>1. PICK w \in sleeping : /\ sleeping' = sleeping \ {w}
                                /\ pc' = [pc EXCEPT ![t] = After(t), ![w] = "relock"]
      BY <2>2 DEF MonLeaves, Monitor!SignalAndLeave, Monitor!Goto, Monitor!After, After
    <3>2. w # t /\ w \in Threads
      BY <1>1 DEF MonInv, Placed
    <3>3. pc' = [u \in Threads |-> IF u = t THEN After(t)
                                   ELSE IF u \in {w} THEN "relock" ELSE pc[u]]
      BY <1>1, <3>1, <3>2
    <3>4. QED
      BY <3>1, <3>3
  <2>3. QED
    BY <2>1, <2>2
<1>3. \A v \in V : v \in Threads /\ pc[v] = "asleep"
  BY <1>2 DEF MonInv, Placed
<1>4. After(t) \in {"begin", "done"}
  BY DEF After
<1>5. \A u \in Threads : pc'[u] = IF u = t THEN After(t) ELSE IF u \in V THEN "relock" ELSE pc[u]
  BY <1>2
<1>6. Loop(MonLabels)'
  <2>1. {"begin", "done"} \subseteq MonLabels /\ "relock" \in MonLabels \ {"store", "done"}
    BY DEF MonLabels
  <2>2. Loop(MonLabels) /\ pc[t] # "done" /\ \A v \in V : v \in Threads /\ pc[v] # "done"
    BY <1>1, <1>3 DEF MonInv
  <2>3. QED
    BY <1>1, <1>2, <2>1, <2>2, LoopEnds
<1>7. \A u \in Threads : W(u)' <=> W(u) /\ u # t
  BY <1>3, <1>4, <1>5 DEF W, WriteLabels
<1>8. OneWriter'
  BY <1>7 DEF OneWriter, MonInv
<1>9. locked' \in {0, 1} /\ (locked' = 1 <=> \E u \in Threads : W(u)')
  <2>1. CASE pc[t] = "unlock"
    BY <1>1, <1>7, <2>1 DEF MonInv, OneWriter, W, WriteLabels, MonLeaves
  <2>2. CASE pc[t] = "signal"
    BY <1>1, <1>7, <2>2 DEF MonInv, W, WriteLabels, MonLeaves
  <2>3. QED
    BY <1>1, <2>1, <2>2
<1>10. \A u \in Threads : pc'[u] \in {"test", "wait"} => mutex' = {u}
  BY <1>1, <1>4, <1>5 DEF MonInv
<1>11. sleeping' = Placed(Threads, pc', {"asleep"})
  BY <1>1, <1>2, <1>3, <1>4, <1>5 DEF MonInv, Placed
<1>12. program = "mutex" => \A u \in Threads : pc'[u] # "wait" /\ pc'[u] # "signal"
  BY <1>1, <1>4, <1>5 DEF MonInv, MonLeaves
<1>13. Monitor!NoLostWakeup'
  BY <1>2, <1>3, <1>5, <1>1, <1>11 DEF Monitor!NoLostWakeup, Placed
<1>14. QED
  BY <1>6, <1>8, <1>9, <1>10, <1>11, <1>12, <1>13 DEF MonInv

\* Every step of the two monitors keeps their invariant.
LEMMA MonKeeps ==
  ASSUME MonInv, UNCHANGED program,
         (\E t \in Threads : MonStep(t)) \/ UNCHANGED <<loopvars, locked, mutex, sleeping>>
  PROVE  MonInv'
<1>1. ASSUME UNCHANGED <<loopvars, locked, mutex, sleeping>> PROVE MonInv'
  BY <1>1 DEF MonInv, Loop, OneWriter, W, Placed, Monitor!NoLostWakeup, loopvars
<1>2. ASSUME NEW t \in Threads, MonStep(t) PROVE MonInv'
  <2>0. Loop(MonLabels) /\ pc \in [Threads -> MonLabels]
    BY DEF MonInv, Loop
  <2>1. CASE Monitor!Acquire(t)
    <3>1. /\ pc' = [pc EXCEPT ![t] = "test"] /\ mutex = {} /\ mutex' = {t}
          /\ pc[t] \in {"begin", "relock"} /\ UNCHANGED <<counter, reg, iter, locked, sleeping>>
      BY <2>1 DEF Monitor!Acquire, Monitor!Goto
    <3>2. Loop(MonLabels)' /\ \A u \in Threads : pc'[u] = IF u = t THEN "test" ELSE pc[u]
      BY <2>0, <3>1, LoopGoesOn DEF MonLabels
    <3>3. ~ W(t) /\ ~ W(t)' /\ t \notin sleeping
      BY <3>1, <3>2 DEF MonInv, Placed, W, WriteLabels
    <3>4. QED
      BY ZenonT(40), <3>1, <3>2, <3>3, MonMoves DEF MonLabels, MonInv
  <2>2. CASE Monitor!Test(t)
    <3>1. PICK l \in {"wait", "load"} :
            /\ pc' = [pc EXCEPT ![t] = l] /\ pc[t] = "test"
            /\ UNCHANGED <<counter, reg, iter, sleeping>>
            /\ l = "wait" => locked = 1 /\ UNCHANGED <<locked, mutex>>
            /\ l = "load" => locked = 0 /\ locked' = 1 /\ mutex' = {}
      BY <2>2 DEF Monitor!Test, Monitor!Goto
    <3>2. Loop(MonLabels)' /\ \A u \in Threads : pc'[u] = IF u = t THEN l ELSE pc[u]
      BY <2>0, <3>1, LoopGoesOn DEF MonLabels
    <3>3. ~ W(t) /\ (W(t)' <=> l = "load") /\ t \notin sleeping /\ mutex = {t}
      BY <3>1, <3>2 DEF MonInv, Placed, W, WriteLabels
    <3>a. sleeping' = sleeping \ {t} /\ l \in MonLabels \ {"done", "signal"} /\ l # "asleep"
      BY <3>1, <3>3 DEF MonLabels
    <3>4. CASE l = "wait"
      <4>1. UNCHANGED <<mutex, locked>> /\ locked \in {0, 1} /\ ~ W(t)'
        BY <3>1, <3>3, <3>4 DEF MonInv
      <4>2. QED
        BY <3>1, <3>2, <3>3, <3>a, <3>4, <4>1, MonMoves
    <3>5. CASE l = "load"
      BY <3>1, <3>2, <3>3, <3>a, <3>5, MonMoves
    <3>6. QED
      BY <3>4, <3>5
  <2>3. CASE Monitor!Wait(t)
    <3>1. /\ pc' = [pc EXCEPT ![t] = "asleep"] /\ mutex' = {} /\ sleeping' = sleeping \cup {t}
          /\ pc[t] = "wait" /\ UNCHANGED <<counter, reg, iter, locked>>
      BY <2>3 DEF Monitor!Wait, Monitor!Goto
    <3>2. Loop(MonLabels)' /\ \A u \in Threads : pc'[u] = IF u = t THEN "asleep" ELSE pc[u]
      BY <2>0, <3>1, LoopGoesOn DEF MonLabels
    <3>3. ~ W(t) /\ ~ W(t)' /\ mutex = {t}
      BY <3>1, <3>2 DEF MonInv, W, WriteLabels
    <3>4. QED
      BY <3>1, <3>2, <3>3, MonMoves DEF MonLabels, MonInv
  <2>4. CASE Monitor!SpuriousWake(t)
    <3>1. /\ pc' = [pc EXCEPT ![t] = "relock"] /\ sleeping' = sleeping \ {t}
          /\ pc[t] = "asleep" /\ UNCHANGED <<counter, reg, iter, locked, mutex>>
      BY <2>4 DEF Monitor!SpuriousWake, Monitor!Goto, MonInv, Placed
    <3>2. Loop(MonLabels)' /\ \A u \in Threads : pc'[u] = IF u = t THEN "relock" ELSE pc[u]
      BY <2>0, <3>1, LoopGoesOn DEF MonLabels
    <3>3. ~ W(t) /\ ~ W(t)'
      BY <3>1, <3>2 DEF W, WriteLabels
    <3>4. QED
      BY <3>1, <3>2, <3>3, MonMoves DEF MonLabels, MonInv
  <2>5. CASE Monitor!Count(t)
    <3>1. Load(t) \/ Store(t)
      BY <2>5 DEF Monitor!Count, Monitor!Load, Load, Monitor!Store, Store, Monitor!Goto, Goto
    <3>2. UNCHANGED <<locked, mutex, sleeping>>
      BY <2>5 DEF Monitor!Count, Monitor!monvars
    <3>3. W(t)
      BY <3>1 DEF Load, Store, W, WriteLabels
    <3>4. \A u \in Threads : W(u) => u = t
      BY <3>3 DEF MonInv, OneWriter
    <3>5. /\ Loop(MonLabels)' /\ pc[t] \in {"load", "store"}
          /\ \E l \in {"store", "unlock"} : pc' = [pc EXCEPT ![t] = l]
      BY <2>0, <3>1, <3>4, LoopCounts DEF MonLabels
    <3>6. PICK l \in {"store", "unlock"} : pc' = [pc EXCEPT ![t] = l]
      BY <3>5
    <3>7. W(t)' /\ t \notin sleeping
      BY <2>0, <3>5, <3>6 DEF W, WriteLabels, MonInv, Placed
    <3>8. sleeping' = sleeping \ {t} /\ l \in MonLabels \ {"done", "signal"}
      BY <3>2, <3>6, <3>7 DEF MonLabels
    <3>9. locked' \in {0, 1} /\ l \notin {"test", "wait", "asleep"}
      BY <3>2, <3>6 DEF MonInv
    <3>10. QED
      BY <3>2, <3>3, <3>5, <3>6, <3>7, <3>8, <3>9, MonMoves
  <2>6. CASE program # "mutex" /\ RelaxedMonitor!RelaxedStore(t)
    <3>1. /\ pc' = [pc EXCEPT ![t] = "signal"] /\ locked' = 0 /\ program # "mutex"
          /\ pc[t] = "unlock" /\ UNCHANGED <<counter, reg, iter, mutex, sleeping>>
      BY <2>6 DEF RelaxedMonitor!RelaxedStore, RelaxedMonitor!Goto
    <3>2. Loop(MonLabels)' /\ \A u \in Threads : pc'[u] = IF u = t THEN "signal" ELSE pc[u]
      BY <2>0, <3>1, LoopGoesOn DEF MonLabels
    <3>3. W(t) /\ \A u \in Threads : W(u)' <=> W(u) /\ u # t
      BY <3>1, <3>2 DEF W, WriteLabels
    <3>4. OneWriter' /\ \A u \in Threads : ~ W(u)'
      BY <3>3 DEF MonInv, OneWriter
    <3>5. \A u \in Threads : pc'[u] \in {"test", "wait"} => mutex' = {u}
      BY <3>1, <3>2 DEF MonInv
    <3>6. sleeping' = Placed(Threads, pc', {"asleep"})
      BY <3>1, <3>2 DEF MonInv, Placed
    <3>7. QED
      BY <3>1, <3>2, <3>4, <3>5, <3>6 DEF MonInv
  <2>7. CASE MonLeaves(t)
    BY <2>7, MonUnlocks
  <2>8. QED
    BY <1>2, <2>1, <2>2, <2>3, <2>4, <2>5, <2>6, <2>7 DEF MonStep
<1>3. QED
  BY <1>1, <1>2

-----------------------------------------------------------------------------

\* The addition of thread t is an increment of the abstract counter.
LEMMA MonIncrements ==
  ASSUME MonInv, (\E t \in Threads : MonStep(t)) \/ UNCHANGED <<loopvars, locked, mutex, sleeping>>
  PROVE  Monitor!Atomic!ANext \/ UNCHANGED Monitor!Atomic!avars
<1> DEFINE M(u) == IF pc[u] \in {"unlock", "signal"} THEN iter[u] + 1 ELSE iter[u]
<1>a. /\ Loop(MonLabels) /\ pc \in [Threads -> MonLabels] /\ iter \in [Threads -> Nat]
      /\ sleeping = Placed(Threads, pc, {"asleep"})
      /\ Monitor!Made = [u \in Threads |-> M(u)]
      /\ Monitor!Made' = [u \in Threads |-> M(u)']
  BY DEF MonInv, Loop, Monitor!Made
<1>b. ASSUME UNCHANGED counter, \A u \in Threads : M(u)' = M(u)
      PROVE  UNCHANGED Monitor!Atomic!avars
  BY <1>a, <1>b DEF Monitor!Atomic!avars
<1>1. ASSUME UNCHANGED <<loopvars, locked, mutex, sleeping>>
      PROVE  UNCHANGED Monitor!Atomic!avars
  BY <1>1 DEF Monitor!Atomic!avars, Monitor!Made, loopvars
<1>2. ASSUME NEW t \in Threads, MonStep(t)
      PROVE  Monitor!Atomic!ANext \/ UNCHANGED Monitor!Atomic!avars
  <2>1. ASSUME NEW l, pc' = [pc EXCEPT ![t] = l], UNCHANGED <<counter, iter>>,
               l \in {"unlock", "signal"} <=> pc[t] \in {"unlock", "signal"}
        PROVE  UNCHANGED Monitor!Atomic!avars
    <3>1. \A u \in Threads : /\ pc'[u] \in {"unlock", "signal"} <=> pc[u] \in {"unlock", "signal"}
                             /\ iter'[u] = iter[u]
      BY <1>a, <2>1
    <3>2. QED
      BY <1>b, <2>1, <3>1
  <2>2. CASE Monitor!Acquire(t) \/ Monitor!Test(t) \/ Monitor!Wait(t) \/ Monitor!SpuriousWake(t)
             \/ RelaxedMonitor!RelaxedStore(t)
    <3>1. CASE Monitor!Acquire(t)
      BY <2>1, <3>1 DEF Monitor!Acquire, Monitor!Goto
    <3>2. CASE Monitor!Test(t)
      BY <2>1, <3>2 DEF Monitor!Test, Monitor!Goto
    <3>3. CASE Monitor!Wait(t)
      BY <2>1, <3>3 DEF Monitor!Wait, Monitor!Goto
    <3>4. CASE Monitor!SpuriousWake(t)
      <4>1. pc[t] = "asleep"
        BY <1>a, <3>4 DEF Monitor!SpuriousWake, Placed
      <4>2. QED
        BY <2>1, <3>4, <4>1 DEF Monitor!SpuriousWake, Monitor!Goto
    <3>5. CASE RelaxedMonitor!RelaxedStore(t)
      BY <2>1, <3>5 DEF RelaxedMonitor!RelaxedStore, RelaxedMonitor!Goto
    <3>6. QED
      BY <2>2, <3>1, <3>2, <3>3, <3>4, <3>5
  <2>3. CASE Monitor!Count(t)
    <3>1. CASE Monitor!Load(t)
      BY <2>1, <3>1 DEF Monitor!Load, Monitor!Goto
    <3>2. CASE Monitor!Store(t)
      <4>1. /\ pc[t] = "store" /\ pc' = [pc EXCEPT ![t] = "unlock"] /\ UNCHANGED iter
            /\ counter' = reg[t] + 1 /\ reg[t] = counter /\ iter[t] < Max
        BY <1>a, <3>2 DEF Monitor!Store, Monitor!Goto, Loop
      <4>2. \A u \in Threads : M(u)' = IF u = t THEN M(t) + 1 ELSE M(u)
        BY <1>a, <4>1
      <4>3. Monitor!Made' = [Monitor!Made EXCEPT ![t] = Monitor!Made[t] + 1]
        BY <1>a, <4>2
      <4>4. Monitor!Made[t] < Max
        BY <1>a, <4>1
      <4>5. QED
        BY <4>1, <4>3, <4>4 DEF Monitor!Atomic!ANext, Monitor!Atomic!Increment
    <3>3. QED
      BY <2>3, <3>1, <3>2 DEF Monitor!Count
  <2>4. CASE MonLeaves(t)
    <3>1. /\ pc[t] \in {"unlock", "signal"} /\ UNCHANGED counter
          /\ iter' = [iter EXCEPT ![t] = iter[t] + 1]
          /\ \/ pc' = [pc EXCEPT ![t] = After(t)]
             \/ \E w \in sleeping : pc' = [pc EXCEPT ![t] = After(t), ![w] = "relock"]
      BY <2>4 DEF MonLeaves, Monitor!SignalAndLeave, Monitor!Goto, Monitor!After, After
    <3>2. After(t) \in {"begin", "done"}
      BY DEF After
    <3>3. \A u \in Threads \ {t} : /\ iter'[u] = iter[u]
                                   /\ \/ pc'[u] = pc[u]
                                      \/ pc[u] = "asleep" /\ pc'[u] = "relock"
      <4>1. \A w \in sleeping : w \in Threads /\ pc[w] = "asleep"
        BY <1>a DEF Placed
      <4>2. ASSUME pc' = [pc EXCEPT ![t] = After(t)]
            PROVE  \A u \in Threads \ {t} : pc'[u] = pc[u]
        BY <1>a, <4>2
      <4>3. ASSUME NEW w \in sleeping, pc' = [pc EXCEPT ![t] = After(t), ![w] = "relock"]
            PROVE  \A u \in Threads \ {t} : pc'[u] = IF u = w THEN "relock" ELSE pc[u]
        BY <1>a, <4>1, <4>3
      <4>4. \A u \in Threads \ {t} : iter'[u] = iter[u]
        BY <1>a, <3>1
      <4>5. QED
        BY <3>1, <4>1, <4>2, <4>3, <4>4
    <3>4. pc'[t] \in {"begin", "done"} /\ iter'[t] = iter[t] + 1
      BY <1>a, <3>1, <3>2 DEF Placed
    <3>5. \A u \in Threads : M(u)' = M(u)
      BY <3>1, <3>3, <3>4
    <3>6. QED
      BY <1>b, <3>1, <3>5
  <2>5. QED
    BY <1>2, <2>2, <2>3, <2>4 DEF MonStep
<1>3. QED
  BY <1>1, <1>2

-----------------------------------------------------------------------------
(* Semaphores                                                              *)

\* The labels of the semaphores; those of a thread that is inside, of one that
\* waits, and of those that the value counts.
SemLabels == {"begin", "wait", "p", "relock", "sleep", "asleep", "receive", "load", "store",
              "unlock", "signal", "wake", "send", "done"}
InsideLabels == {"load", "store", "unlock", "signal", "wake", "send"}
In(t) == pc[t] \in InsideLabels
AsleepLabels == {"sleep", "asleep", "receive"}
Waits(t) == pc[t] \in AsleepLabels
TakenLabels == WriteLabels \cup AsleepLabels
Taken == Cardinality(Placed(Threads, pc, TakenLabels))
Asleep == Cardinality(Placed(Threads, pc, AsleepLabels))

\* One thread is inside, and sleeping is who sleeps.
SemCore == /\ Loop(SemLabels)
           /\ \A t, u \in Threads : In(t) /\ In(u) => t = u
           /\ sleeping = Placed(Threads, pc, {"asleep"})

\* Who waits has a thread inside, one on its way in, or a turn in the queue.
SemReason == (\E t \in Threads : Waits(t)) =>
               \/ \E t \in Threads : In(t)
               \/ sem = "monitor" /\ \E t \in Threads : pc[t] \in {"relock", "p"}
               \/ sem = "channels" /\ waiters = 1

\* futex/semaphore.c: the value is 1 less those inside and those that wait; one
\* that wakes has somebody to wake.
FutexInv == /\ \A t \in Threads : pc[t] \in {"begin", "sleep", "asleep", "wake", "done"} \cup WriteLabels
            /\ value = 1 - Taken
            /\ (\E t \in Threads : pc[t] = "wake") => \E t \in Threads : Waits(t)
\* futex/semaphore_spinlock.c: waiters counts, and the value is 0 with one inside.
SpinInv == /\ \A t \in Threads :
                /\ pc[t] \in {"begin", "wait", "signal", "sleep", "asleep", "done"} \cup WriteLabels
                /\ pc[t] \in {"wait", "signal"} => holder = {t}
           /\ waiters = Asleep
           /\ value \in {0, 1}
           /\ value = 0 <=> \E t \in Threads : In(t)
\* monitors/semaphore.c
SemMonitorInv ==
  /\ \A t \in Threads : /\ pc[t] \in {"begin", "relock", "p", "asleep", "done"} \cup WriteLabels
                        /\ pc[t] = "p" => holder = {t}
  /\ value \in {0, 1}
  /\ value = 0 <=> \E t \in Threads : In(t)
\* semaphores/semaphore.c
PosixInv == /\ \A t \in Threads : pc[t] \in {"begin", "done"} \cup WriteLabels
            /\ value \in {0, 1}
            /\ value = 0 <=> \E t \in Threads : In(t)
\* channels/semaphore2.go: the turn in the queue is somebody's who waits, and
\* nobody is inside meanwhile.
ChannelsInv ==
  /\ \A t \in Threads : pc[t] \in {"begin", "receive", "send", "done"} \cup WriteLabels
  /\ value = 1 - Taken
  /\ waiters \in {0, 1}
  /\ waiters = 1 => \A t \in Threads : ~ In(t)
  /\ (\E t \in Threads : pc[t] = "send") \/ waiters = 1 => \E t \in Threads : Waits(t)

SemInv == /\ sem \in {"futex", "spinlock", "monitor", "posix", "channels"}
          /\ SemCore /\ SemReason
          /\ sem = "futex" => FutexInv
          /\ sem = "spinlock" => SpinInv
          /\ sem = "monitor" => SemMonitorInv
          /\ sem = "posix" => PosixInv
          /\ sem = "channels" => ChannelsInv

\* The semaphores as main leaves them.
LEMMA SemFirst == Sems!Init => SemInv
<1> SUFFICES ASSUME Sems!Init PROVE SemInv
  OBVIOUS
<1> USE DEF Sems!Init, Sems!LoopInit
<1>1. \A t \in Threads : pc[t] = "begin"
  OBVIOUS
<1>2. Loop(SemLabels)
  BY <1>1, MaxAssumption DEF Loop, SemLabels
<1>3. SemCore
  BY <1>1, <1>2 DEF SemCore, In, InsideLabels, Placed
<1>4. SemReason /\ \A t \in Threads : ~ In(t) /\ ~ Waits(t)
  BY <1>1 DEF SemReason, Waits, AsleepLabels, In, InsideLabels
<1>5. Taken = 0 /\ Asleep = 0
  BY <1>1, NonePlaced, BlockingAssumption DEF Taken, TakenLabels, WriteLabels, Asleep, AsleepLabels
<1>6. FutexInv /\ SpinInv
  BY <1>1, <1>4, <1>5 DEF FutexInv, SpinInv
<1>7. SemMonitorInv /\ PosixInv /\ ChannelsInv
  BY <1>1, <1>4, <1>5 DEF SemMonitorInv, PosixInv, ChannelsInv
<1>8. QED
  BY <1>3, <1>4, <1>6, <1>7 DEF SemInv

\* What the invariant says, whichever semaphore runs, about Taken and Asleep.
LEMMA Counted ==
  ASSUME SemCore
  PROVE  /\ Taken \in Nat /\ Asleep \in Nat
         /\ Taken = 0 <=> \A t \in Threads : ~ Waits(t) /\ ~ W(t)
         /\ Asleep = 0 <=> \A t \in Threads : ~ Waits(t)
BY NonePlaced, BlockingAssumption DEF Taken, Asleep, TakenLabels, Waits, W

\* Thread t moves to l and nobody else does.
Goes(t, l) == /\ pc' = [pc EXCEPT ![t] = l]
              /\ UNCHANGED <<counter, reg, iter, sem>>
              /\ sleeping' = IF l = "asleep" THEN sleeping \cup {t}
                             ELSE IF pc[t] = "asleep" THEN sleeping \ {t} ELSE sleeping

\* A thread that is not at the end of its iteration goes to another label.
LEMMA SemGoes ==
  ASSUME SemCore, NEW t \in Threads, NEW l \in SemLabels \ {"store", "done"}, pc[t] # "done",
         Goes(t, l), l \in InsideLabels => In(t) \/ \A u \in Threads : ~ In(u)
  PROVE  /\ SemCore'
         /\ \A u \in Threads : pc'[u] = IF u = t THEN l ELSE pc[u]
<1>1. Loop(SemLabels)' /\ \A u \in Threads : pc'[u] = IF u = t THEN l ELSE pc[u]
  BY ZenonT(40), LoopGoesOn DEF SemCore, Goes
<1>2. \A u, v \in Threads : In(u)' /\ In(v)' => u = v
  BY <1>1 DEF SemCore, In
<1>3. sleeping' = Placed(Threads, pc', {"asleep"})
  BY <1>1 DEF SemCore, Goes, Placed
<1>4. QED
  BY <1>1, <1>2, <1>3 DEF SemCore

\* What that makes of the counts.
LEMMA GoesCounted ==
  ASSUME SemCore, NEW t \in Threads, NEW l,
         \A u \in Threads : pc'[u] = IF u = t THEN l ELSE pc[u]
  PROVE  /\ Taken' = Taken + (IF l \in TakenLabels THEN 1 ELSE 0)
                           - (IF pc[t] \in TakenLabels THEN 1 ELSE 0)
         /\ Asleep' = Asleep + (IF l \in AsleepLabels THEN 1 ELSE 0)
                             - (IF Waits(t) THEN 1 ELSE 0)
<1>1. pc'[t] = l /\ \A u \in Threads \ {t} : pc'[u] = pc[u]
  OBVIOUS
<1>2. Taken' = Cardinality(Placed(Threads, pc', TakenLabels))
  BY DEF Taken
<1>3. Asleep' = Cardinality(Placed(Threads, pc', AsleepLabels))
  BY DEF Asleep
<1>4. Taken' = Taken + (IF l \in TakenLabels THEN 1 ELSE 0)
                     - (IF pc[t] \in TakenLabels THEN 1 ELSE 0)
  BY <1>1, <1>2, PlacedMoves, BlockingAssumption DEF Taken
<1>5. Asleep' = Asleep + (IF l \in AsleepLabels THEN 1 ELSE 0)
                       - (IF Waits(t) THEN 1 ELSE 0)
  <2>1. Waits(t) <=> pc[t] \in AsleepLabels
    BY DEF Waits
  <2>2. QED
    BY <1>1, <1>3, <2>1, PlacedMoves, BlockingAssumption DEF Asleep
<1>6. QED
  BY <1>4, <1>5

\* Thread t ends its iteration and wakes nobody, or the thread w.
Leaves(t) == /\ pc' = [pc EXCEPT ![t] = After(t)]
             /\ iter' = [iter EXCEPT ![t] = iter[t] + 1]
             /\ UNCHANGED <<counter, reg, sem, sleeping>>
LeavesTo(t, w, l) == /\ pc' = [pc EXCEPT ![t] = After(t), ![w] = l]
                     /\ iter' = [iter EXCEPT ![t] = iter[t] + 1]
                     /\ sleeping' = sleeping \ {w}
                     /\ UNCHANGED <<counter, reg, sem>>

\* A thread ends its iteration.
LEMMA SemLeaves ==
  ASSUME SemCore, NEW t \in Threads, In(t), Leaves(t)
  PROVE  /\ SemCore' /\ pc'[t] \in {"begin", "done"}
         /\ \A u \in Threads \ {t} : pc'[u] = pc[u]
         /\ \A u \in Threads : ~ In(u)'
<1>1. After(t) \in {"begin", "done"} /\ pc \in [Threads -> SemLabels] /\ pc[t] # "done"
  BY DEF After, SemCore, Loop, In, InsideLabels
<1>2. pc'[t] = After(t) /\ \A u \in Threads \ {t} : pc'[u] = pc[u]
  BY <1>1 DEF Leaves
<1>3. Loop(SemLabels)'
  <2> DEFINE V == {}
  <2>1. pc' = [u \in Threads |-> IF u = t THEN After(t) ELSE IF u \in V THEN "load" ELSE pc[u]]
    BY <1>1 DEF Leaves
  <2>a. V = {}
    OBVIOUS
  <2> HIDE DEF V
  <2>2. {"begin", "done"} \subseteq SemLabels
    BY DEF SemLabels
  <2>3. Loop(SemLabels)
    BY DEF SemCore
  <2>4. QED
    BY ZenonT(40), <1>1, <2>1, <2>a, <2>2, <2>3, LoopEnds DEF Leaves
<1>4. \A u \in Threads : ~ In(u)'
  BY <1>1, <1>2 DEF SemCore, In, InsideLabels
<1>5. t \notin sleeping
  BY DEF SemCore, Placed, In, InsideLabels
<1>6. sleeping' = Placed(Threads, pc', {"asleep"})
  BY <1>1, <1>2, <1>5 DEF SemCore, Leaves, Placed
<1>7. QED
  BY <1>1, <1>2, <1>3, <1>4, <1>6 DEF SemCore

\* A thread ends its iteration and wakes one that sleeps.
LEMMA SemLeavesTo ==
  ASSUME SemCore, NEW t \in Threads, In(t), NEW w \in sleeping, NEW l \in {"load", "relock"},
         LeavesTo(t, w, l)
  PROVE  /\ SemCore' /\ pc'[t] \in {"begin", "done"}
         /\ w \in Threads /\ w # t /\ pc[w] = "asleep" /\ pc'[w] = l
         /\ \A u \in Threads \ {t, w} : pc'[u] = pc[u] /\ ~ In(u)'
<1>1. /\ After(t) \in {"begin", "done"} /\ pc \in [Threads -> SemLabels] /\ pc[t] # "done"
      /\ w \in Threads /\ w # t /\ pc[w] = "asleep"
  BY DEF After, SemCore, Loop, In, InsideLabels, Placed
<1>2. pc'[t] = After(t) /\ pc'[w] = l /\ \A u \in Threads \ {t, w} : pc'[u] = pc[u]
  BY <1>1 DEF LeavesTo
<1>3. Loop(SemLabels)'
  <2> DEFINE V == {w}
  <2>1. pc' = [u \in Threads |-> IF u = t THEN After(t) ELSE IF u \in V THEN l ELSE pc[u]]
    BY <1>1 DEF LeavesTo
  <2>2. {"begin", "done"} \subseteq SemLabels /\ l \in SemLabels \ {"store", "done"}
    BY DEF SemLabels
  <2>3. Loop(SemLabels) /\ \A v \in V : v \in Threads /\ pc[v] # "done"
    BY <1>1 DEF SemCore
  <2> HIDE DEF V
  <2>4. iter' = [iter EXCEPT ![t] = iter[t] + 1] /\ UNCHANGED <<counter, reg>>
    BY DEF LeavesTo
  <2>5. QED
    BY <1>1, <2>1, <2>2, <2>3, <2>4, LoopEnds
<1>4. ~ In(t)' /\ \A u \in Threads \ {t, w} : ~ In(u)'
  BY <1>1, <1>2 DEF SemCore, In, InsideLabels
<1>5. \A u, v \in Threads : In(u)' /\ In(v)' => u = v
  BY <1>4
<1>6. sleeping' = Placed(Threads, pc', {"asleep"})
  BY <1>1, <1>2 DEF SemCore, LeavesTo, Placed, In, InsideLabels
<1>7. QED
  BY <1>1, <1>2, <1>3, <1>4, <1>5, <1>6 DEF SemCore

\* What the end of the iteration makes of the counts.
LEMMA LeavesCounted ==
  ASSUME SemCore, NEW t \in Threads, ~ Waits(t), pc'[t] \in {"begin", "done"},
         \A u \in Threads \ {t} : pc'[u] = pc[u]
  PROVE  Taken' = Taken - (IF W(t) THEN 1 ELSE 0) /\ Asleep' = Asleep
<1>1. pc'[t] \notin TakenLabels /\ (pc[t] \in TakenLabels <=> W(t))
  BY DEF TakenLabels, WriteLabels, AsleepLabels, W, Waits
<1>2. Taken' = Cardinality(Placed(Threads, pc', TakenLabels))
  BY DEF Taken
<1>3. Asleep' = Cardinality(Placed(Threads, pc', AsleepLabels))
  BY DEF Asleep
<1>4. Taken' = Taken - (IF W(t) THEN 1 ELSE 0)
  BY <1>1, <1>2, PlacedMoves, BlockingAssumption DEF Taken
<1>5. Asleep' = Asleep
  <2>1. pc'[t] \notin AsleepLabels /\ pc[t] \notin AsleepLabels
    BY DEF AsleepLabels, Waits
  <2>2. QED
    BY <1>3, <2>1, PlacedMoves, BlockingAssumption DEF Asleep
<1>6. QED
  BY <1>4, <1>5

\* The places taken do not change when the one that leaves hands its own to a sleeper.
LEMMA LeavesToCounted ==
  ASSUME SemCore, NEW t \in Threads, ~ Waits(t), ~ W(t), pc'[t] \in {"begin", "done"},
         NEW w \in Threads \ {t}, pc[w] = "asleep", pc'[w] = "load",
         \A u \in Threads \ {t, w} : pc'[u] = pc[u]
  PROVE  Taken' = Taken /\ Asleep' = Asleep - 1
<1>1. Placed(Threads, pc', TakenLabels) = Placed(Threads, pc, TakenLabels)
  BY DEF Placed, TakenLabels, WriteLabels, AsleepLabels, W, Waits
<1>2. Taken' = Taken
  BY <1>1 DEF Taken
<1>3. PICK p : /\ \A u \in Threads \ {w} : p[u] = pc[u]
               /\ p[w] = "load"
  <2>1. [pc EXCEPT ![w] = "load"][w] = "load"
    BY DEF SemCore, Loop
  <2>2. \A u \in Threads \ {w} : [pc EXCEPT ![w] = "load"][u] = pc[u]
    BY DEF SemCore, Loop
  <2>3. QED
    BY <2>1, <2>2
<1>4. Placed(Threads, pc', AsleepLabels) = Placed(Threads, p, AsleepLabels)
  BY <1>3 DEF Placed, Waits, AsleepLabels
<1>5. Cardinality(Placed(Threads, p, AsleepLabels))
        = Cardinality(Placed(Threads, pc, AsleepLabels)) - 1
  <2>1. pc[w] \in AsleepLabels /\ p[w] \notin AsleepLabels
    BY <1>3 DEF AsleepLabels
  <2>2. w \in Threads /\ IsFiniteSet(Threads) /\ \A u \in Threads \ {w} : p[u] = pc[u]
    BY <1>3, BlockingAssumption
  <2>3. QED
    BY <2>1, <2>2, PlacedMoves
<1>6. Asleep' = Asleep - 1
  BY <1>4, <1>5 DEF Asleep
<1>7. QED
  BY <1>2, <1>6

\* A thread that is inside counts: it stays inside and nothing else changes.
LEMMA SemCounts ==
  ASSUME SemInv, NEW t \in Threads, Sems!Count(t)
  PROVE  SemInv'
<1>1. /\ Load(t) \/ Store(t)
      /\ UNCHANGED <<sem, value, waiters, holder, sleeping>>
  BY DEF Sems!Count, Sems!Load, Load, Sems!Store, Store, Sems!Goto, Goto, Sems!semvars
<1>2. pc[t] \in {"load", "store"} /\ W(t) /\ In(t)
  BY <1>1 DEF Load, Store, W, WriteLabels, In, InsideLabels
<1>3. \A u \in Threads : W(u) => u = t
  BY <1>2 DEF SemInv, SemCore, In, InsideLabels, W, WriteLabels
<1>4. /\ Loop(SemLabels) /\ {"store", "unlock"} \subseteq SemLabels
      /\ pc \in [Threads -> SemLabels]
  BY DEF SemInv, SemCore, Loop, SemLabels
<1>5. PICK l \in {"store", "unlock"} : pc' = [pc EXCEPT ![t] = l]
  BY <1>1, <1>3, <1>4, LoopCounts
<1>6. \A u \in Threads : pc'[u] = IF u = t THEN l ELSE pc[u]
  BY <1>4, <1>5
<1>7. \A u \in Threads : (In(u)' <=> In(u)) /\ (W(u)' <=> W(u)) /\ (Waits(u)' <=> Waits(u))
  BY <1>2, <1>6 DEF In, InsideLabels, W, WriteLabels, Waits, AsleepLabels
<1>8. SemCore'
  <2>1. Loop(SemLabels)'
    BY <1>1, <1>3, <1>4, LoopCounts
  <2>2. sleeping' = Placed(Threads, pc', {"asleep"})
    BY <1>1, <1>2, <1>6 DEF SemInv, SemCore, Placed
  <2>3. QED
    BY <1>7, <2>1, <2>2 DEF SemInv, SemCore
<1>9. Taken' = Taken /\ Asleep' = Asleep
  <2>1. /\ pc[t] \in TakenLabels /\ pc[t] \notin AsleepLabels
        /\ l \in TakenLabels /\ l \notin AsleepLabels
    BY <1>2 DEF TakenLabels, WriteLabels, AsleepLabels
  <2>2. SemCore /\ Taken \in Nat /\ Asleep \in Nat
    BY Counted DEF SemInv
  <2>3. QED
    BY <1>6, <2>1, <2>2, GoesCounted DEF Waits
<1>10. SemReason'
  BY <1>1, <1>2, <1>7 DEF SemInv, SemReason
<1>11. \A u \in Threads : pc'[u] = pc[u] \/ (u = t /\ pc'[u] \in {"store", "unlock"})
  <2>1. l \in {"store", "unlock"}
    BY <1>5
  <2>2. QED
    BY <1>6, <2>1
<1>12. sem = "futex" => FutexInv'
  BY <1>1, <1>7, <1>9, <1>11 DEF SemInv, FutexInv, WriteLabels
<1>13. sem = "spinlock" => SpinInv'
  BY <1>1, <1>7, <1>9, <1>11 DEF SemInv, SpinInv, WriteLabels
<1>14. sem = "monitor" => SemMonitorInv'
  BY <1>1, <1>7, <1>11 DEF SemInv, SemMonitorInv, WriteLabels
<1>15. sem = "posix" => PosixInv'
  BY <1>1, <1>7, <1>11 DEF SemInv, PosixInv, WriteLabels
<1>16. sem = "channels" => ChannelsInv'
  BY <1>1, <1>7, <1>9, <1>11 DEF SemInv, ChannelsInv, WriteLabels
<1>17. QED
  BY <1>1, <1>8, <1>10, <1>12, <1>13, <1>14, <1>15, <1>16 DEF SemInv

\* FUTEX_WAIT, by either futex semaphore.
LEMMA SleepStep ==
  ASSUME SemInv, NEW t \in Threads, Sems!Sleep(t)
  PROVE  SemInv'
<1>1. /\ Goes(t, "asleep") /\ pc[t] = "sleep"
      /\ UNCHANGED <<sem, value, waiters, holder>>
  BY DEF Sems!Sleep, Sems!Goto, Goes
<1>2. SemCore' /\ \A u \in Threads : pc'[u] = IF u = t THEN "asleep" ELSE pc[u]
  BY <1>1, SemGoes DEF SemInv, SemLabels, InsideLabels
<1>3. \A u \in Threads : (In(u)' <=> In(u)) /\ (W(u)' <=> W(u)) /\ (Waits(u)' <=> Waits(u))
  BY <1>1, <1>2 DEF In, InsideLabels, W, WriteLabels, Waits, AsleepLabels
<1>4. Taken' = Taken /\ Asleep' = Asleep
  <2>1. /\ pc[t] \in TakenLabels /\ Waits(t)
        /\ "asleep" \in TakenLabels /\ "asleep" \in AsleepLabels
    BY <1>1 DEF TakenLabels, WriteLabels, AsleepLabels, Waits
  <2>2. SemCore /\ Taken \in Nat /\ Asleep \in Nat
    BY Counted DEF SemInv
  <2>3. QED
    BY <1>2, <2>1, <2>2, GoesCounted
<1>5. SemReason'
  BY <1>1, <1>2, <1>3 DEF SemInv, SemReason
<1>6. sem \in {"futex", "spinlock"}
  BY <1>1 DEF SemInv, SemMonitorInv, PosixInv, ChannelsInv, WriteLabels
<1>7. sem = "futex" => FutexInv'
  BY <1>1, <1>2, <1>3, <1>4 DEF SemInv, FutexInv
<1>8. sem = "spinlock" => SpinInv'
  BY <1>1, <1>2, <1>3, <1>4 DEF SemInv, SpinInv
<1>9. QED
  BY <1>1, <1>2, <1>5, <1>6, <1>7, <1>8 DEF SemInv

\* futex/semaphore.c keeps the invariant.
LEMMA FutexStep ==
  ASSUME SemInv, NEW t \in Threads,
         Sems!FutexWait(t) \/ Sems!FutexSignal(t) \/ Sems!FutexWake(t)
  PROVE  SemInv'
<1>0. /\ sem = "futex" /\ sem' = sem /\ SemCore /\ SemReason /\ FutexInv
      /\ Taken \in Nat /\ Asleep \in Nat
      /\ Taken = 0 <=> \A u \in Threads : ~ Waits(u) /\ ~ W(u)
  BY Counted DEF SemInv, Sems!FutexWait, Sems!FutexSignal, Sems!FutexWake, Sems!Running
<1>1. CASE Sems!FutexWait(t)
  <2>1. PICK l \in {"sleep", "load"} :
          /\ pc[t] = "begin" /\ Goes(t, l) /\ value' = value - 1
          /\ l = "sleep" <=> value - 1 < 0
    BY <1>1 DEF Sems!FutexWait, Sems!Running, Sems!Goto, Goes
  <2>2. l = "load" => Taken = 0
    BY <1>0, <2>1 DEF FutexInv
  <2>3. \A u \in Threads : In(u) => W(u) \/ \E v \in Threads : Waits(v)
    BY <1>0 DEF FutexInv, In, InsideLabels, W, WriteLabels
  <2>4. SemCore' /\ \A u \in Threads : pc'[u] = IF u = t THEN l ELSE pc[u]
    <3>1. l \in SemLabels \ {"store", "done"} /\ pc[t] # "done"
      BY <2>1 DEF SemLabels
    <3>2. l \in InsideLabels => \A u \in Threads : ~ In(u)
      BY <1>0, <2>2, <2>3 DEF InsideLabels
    <3>3. QED
      BY <1>0, <2>1, <3>1, <3>2, SemGoes
  <2>5. Taken' = Taken + 1
    <3>1. l \in TakenLabels /\ pc[t] \notin TakenLabels
      BY <2>1 DEF TakenLabels, WriteLabels, AsleepLabels
    <3>2. QED
      BY <1>0, <2>4, <3>1, GoesCounted
  <2>6. FutexInv'
    <3>1. \A u \in Threads : pc'[u] \in {"begin", "sleep", "asleep", "wake", "done"} \cup WriteLabels
      BY <1>0, <2>1, <2>4 DEF FutexInv, WriteLabels
    <3>2. value' = 1 - Taken'
      BY <1>0, <2>1, <2>5 DEF FutexInv
    <3>3. (\E u \in Threads : pc'[u] = "wake") => \E u \in Threads : Waits(u)'
      BY <1>0, <2>1, <2>4 DEF FutexInv, Waits, AsleepLabels
    <3>4. QED
      BY <3>1, <3>2, <3>3 DEF FutexInv
  <2>7. SemReason'
    <3>1. CASE l = "load"
      BY <2>4, <3>1 DEF SemReason, In, InsideLabels
    <3>2. CASE l = "sleep"
      <4>1. \E u \in Threads : Waits(u) \/ W(u)
        BY <1>0, <2>1, <3>2 DEF FutexInv
      <4>2. \E u \in Threads : In(u)
        BY <1>0, <4>1 DEF SemReason, W, WriteLabels, In, InsideLabels
      <4>3. \E u \in Threads : In(u)'
        BY <2>1, <2>4, <4>2 DEF In, InsideLabels
      <4>4. QED
        BY <4>3 DEF SemReason
    <3>3. QED
      BY <3>1, <3>2
  <2>8. QED
    BY <1>0, <2>4, <2>6, <2>7 DEF SemInv
<1>2. CASE Sems!FutexSignal(t)
  <2>1. pc[t] = "unlock" /\ value' = value + 1 /\ W(t) /\ In(t) /\ ~ Waits(t)
    BY <1>2 DEF Sems!FutexSignal, Sems!Running, W, WriteLabels, In, InsideLabels, Waits, AsleepLabels
  <2>2. \A u \in Threads : W(u) => u = t
    BY <1>0, <2>1 DEF SemCore, In, InsideLabels, W, WriteLabels
  <2>3. CASE value' <= 0
    <3>1. Goes(t, "wake")
      BY <1>0, <1>2, <2>1, <2>3 DEF Sems!FutexSignal, Sems!Goto, Goes
    <3>2. SemCore' /\ \A u \in Threads : pc'[u] = IF u = t THEN "wake" ELSE pc[u]
      BY <1>0, <2>1, <3>1, SemGoes DEF SemLabels
    <3>3. Taken' = Taken - 1
      <4>1. pc[t] \in TakenLabels /\ "wake" \notin TakenLabels
        BY <2>1 DEF TakenLabels, WriteLabels, AsleepLabels
      <4>2. QED
        BY <1>0, <3>2, <4>1, GoesCounted
    <3>4. \E u \in Threads : Waits(u)'
      <4>1. Taken' \in Nat /\ Taken' # 0
        BY <1>0, <2>1, <2>3, <3>3 DEF FutexInv
      <4>2. \A u \in Threads : W(u)' => W(u) /\ u # t
        BY <3>2 DEF W, WriteLabels
      <4>3. Taken' = Cardinality(Placed(Threads, pc', TakenLabels))
        BY DEF Taken
      <4>4. \E u \in Threads : pc'[u] \in TakenLabels
        BY <4>1, <4>3, NonePlaced, BlockingAssumption
      <4>5. QED
        BY <2>2, <4>2, <4>4 DEF TakenLabels, Waits, W
    <3>5. FutexInv'
      <4>1. \A u \in Threads : pc'[u] \in {"begin", "sleep", "asleep", "wake", "done"} \cup WriteLabels
        BY <1>0, <3>2 DEF FutexInv, WriteLabels
      <4>2. value' = 1 - Taken'
        BY <1>0, <2>1, <3>3 DEF FutexInv
      <4>3. QED
        BY <3>4, <4>1, <4>2 DEF FutexInv
    <3>6. SemReason'
      BY <3>2 DEF SemReason, In, InsideLabels
    <3>7. QED
      BY <1>0, <3>2, <3>5, <3>6 DEF SemInv
  <2>4. CASE ~ value' <= 0
    <3>1. Leaves(t)
      BY <1>0, <1>2, <2>1, <2>4
      DEF Sems!FutexSignal, Sems!EndIteration, Sems!After, After, Sems!Goto, Leaves
    <3>2. /\ SemCore' /\ pc'[t] \in {"begin", "done"} /\ \A u \in Threads \ {t} : pc'[u] = pc[u]
          /\ \A u \in Threads : ~ In(u)'
      BY <1>0, <2>1, <3>1, SemLeaves
    <3>3. Taken' = Taken - 1
      BY <1>0, <2>1, <3>2, LeavesCounted
    <3>4. Taken' = 0
      <4>1. Taken # 0
        BY <1>0, <2>1
      <4>2. QED
        BY <1>0, <2>1, <2>4, <3>3, <4>1 DEF FutexInv
    <3>5. \A u \in Threads : ~ Waits(u)'
      <4>1. Taken' = Cardinality(Placed(Threads, pc', TakenLabels))
        BY DEF Taken
      <4>2. \A u \in Threads : pc'[u] \notin TakenLabels
        BY <3>4, <4>1, NonePlaced, BlockingAssumption
      <4>3. QED
        BY <4>2 DEF TakenLabels, Waits
    <3>6. FutexInv'
      <4>1. \A u \in Threads : pc'[u] \in {"begin", "sleep", "asleep", "wake", "done"} \cup WriteLabels
        BY <1>0, <3>2 DEF FutexInv, WriteLabels
      <4>2. value' = 1 - Taken'
        BY <1>0, <2>1, <3>3 DEF FutexInv
      <4>3. ~ \E u \in Threads : pc'[u] = "wake"
        BY <3>2 DEF In, InsideLabels
      <4>4. QED
        BY <4>1, <4>2, <4>3 DEF FutexInv
    <3>7. SemReason'
      BY <3>5 DEF SemReason
    <3>8. QED
      BY <1>0, <3>2, <3>6, <3>7 DEF SemInv
  <2>5. QED
    BY <2>3, <2>4
<1>3. CASE Sems!FutexWake(t)
  <2>1. /\ pc[t] = "wake" /\ In(t) /\ ~ W(t) /\ ~ Waits(t) /\ UNCHANGED value
        /\ \E w \in sleeping : LeavesTo(t, w, "load")
    BY <1>3 DEF Sems!FutexWake, Sems!Running, Sems!Wakes, Sems!After, After, LeavesTo,
                In, InsideLabels, W, WriteLabels, Waits, AsleepLabels
  <2>2. PICK w \in sleeping : LeavesTo(t, w, "load")
    BY <2>1
  <2>3. /\ SemCore' /\ pc'[t] \in {"begin", "done"}
        /\ w \in Threads /\ w # t /\ pc[w] = "asleep" /\ pc'[w] = "load"
        /\ \A u \in Threads \ {t, w} : pc'[u] = pc[u] /\ ~ In(u)'
    BY <1>0, <2>1, <2>2, SemLeavesTo
  <2>4. Taken' = Taken
    BY <1>0, <2>1, <2>3, LeavesToCounted
  <2>5. FutexInv'
    <3>1. \A u \in Threads : pc'[u] \in {"begin", "sleep", "asleep", "wake", "done"} \cup WriteLabels
      BY <1>0, <2>3 DEF FutexInv, WriteLabels
    <3>2. value' = 1 - Taken'
      BY <1>0, <2>1, <2>4 DEF FutexInv
    <3>3. \A u \in Threads : pc'[u] # "wake"
      BY <2>3 DEF In, InsideLabels
    <3>4. QED
      BY <3>1, <3>2, <3>3 DEF FutexInv
  <2>6. SemReason'
    BY <2>3 DEF SemReason, In, InsideLabels
  <2>7. QED
    BY <1>0, <2>3, <2>5, <2>6 DEF SemInv
<1>4. QED
  BY <1>1, <1>2, <1>3

\* futex/semaphore_spinlock.c keeps the invariant.
LEMMA SpinStep ==
  ASSUME SemInv, NEW t \in Threads,
         Sems!SpinLock(t) \/ Sems!SpinWait(t) \/ Sems!SpinSignal(t)
  PROVE  SemInv'
<1> DEFINE Labels == {"begin", "wait", "signal", "sleep", "asleep", "done"} \cup WriteLabels
<1>0. /\ sem = "spinlock" /\ sem' = sem /\ SemCore /\ SemReason /\ SpinInv
      /\ Taken \in Nat /\ Asleep \in Nat
      /\ Asleep = 0 <=> \A u \in Threads : ~ Waits(u)
  BY Counted DEF SemInv, Sems!SpinLock, Sems!SpinWait, Sems!SpinSignal, Sems!Running
<1>1. CASE Sems!SpinLock(t)
  <2>1. PICK l \in {"wait", "signal"} :
          /\ Goes(t, l) /\ holder = {} /\ holder' = {t} /\ UNCHANGED <<value, waiters>>
          /\ pc[t] = IF l = "wait" THEN "begin" ELSE "unlock"
    BY <1>1 DEF Sems!SpinLock, Sems!Goto, Goes
  <2>2. SemCore' /\ \A u \in Threads : pc'[u] = IF u = t THEN l ELSE pc[u]
    <3>1. /\ l \in SemLabels \ {"store", "done"} /\ pc[t] # "done"
          /\ l \in InsideLabels => In(t)
      BY <2>1 DEF SemLabels, InsideLabels, In
    <3>2. QED
      BY <1>0, <2>1, <3>1, SemGoes
  <2>3. \A u \in Threads : (In(u)' <=> In(u)) /\ (Waits(u)' <=> Waits(u))
    BY <2>1, <2>2 DEF In, InsideLabels, Waits, AsleepLabels
  <2>4. Asleep' = Asleep
    <3>1. l \notin AsleepLabels /\ ~ Waits(t)
      BY <2>1 DEF AsleepLabels, Waits
    <3>2. QED
      BY <1>0, <2>2, <3>1, GoesCounted
  <2>5. \A u \in Threads : pc'[u] \in Labels /\ (pc'[u] \in {"wait", "signal"} => holder' = {u})
    BY <1>0, <2>1, <2>2 DEF SpinInv, WriteLabels
  <2>6. SpinInv'
    BY <1>0, <2>1, <2>3, <2>4, <2>5 DEF SpinInv
  <2>7. SemReason'
    BY <1>0, <2>3 DEF SemReason
  <2>8. QED
    BY <1>0, <2>2, <2>6, <2>7 DEF SemInv
<1>2. CASE Sems!SpinWait(t)
  <2>1. PICK l \in {"sleep", "load"} :
          /\ pc[t] = "wait" /\ Goes(t, l) /\ holder' = {}
          /\ l = "sleep" => /\ waiters > 0 \/ value <= 0
                            /\ waiters' = waiters + 1 /\ UNCHANGED value
          /\ l = "load" => /\ ~ (waiters > 0 \/ value <= 0)
                           /\ value' = value - 1 /\ UNCHANGED waiters
    <3>1. pc[t] = "wait" /\ holder' = {} /\ UNCHANGED <<counter, reg, iter, sem, sleeping>>
      BY <1>2 DEF Sems!SpinWait, Sems!Running
    <3>2. CASE waiters > 0 \/ value <= 0
      <4>1. Goes(t, "sleep") /\ waiters' = waiters + 1 /\ UNCHANGED value
        BY <1>2, <3>1, <3>2 DEF Sems!SpinWait, Sems!Goto, Goes
      <4>2. QED
        BY <3>1, <3>2, <4>1
    <3>3. CASE ~ (waiters > 0 \/ value <= 0)
      <4>1. Goes(t, "load") /\ value' = value - 1 /\ UNCHANGED waiters
        BY <1>2, <3>1, <3>3 DEF Sems!SpinWait, Sems!Goto, Goes
      <4>2. QED
        BY <3>1, <3>3, <4>1
    <3>4. QED
      BY <3>2, <3>3
  <2>2. l = "load" => value = 1 /\ \A u \in Threads : ~ In(u)
    BY <1>0, <2>1 DEF SpinInv
  <2>3. SemCore' /\ \A u \in Threads : pc'[u] = IF u = t THEN l ELSE pc[u]
    <3>1. /\ l \in SemLabels \ {"store", "done"} /\ pc[t] # "done"
          /\ l \in InsideLabels => l = "load"
      BY <2>1 DEF SemLabels, InsideLabels
    <3>2. QED
      BY <1>0, <2>1, <2>2, <3>1, SemGoes
  <2>4. \A u \in Threads : In(u)' <=> In(u) \/ (u = t /\ l = "load")
    BY <2>1, <2>3 DEF In, InsideLabels
  <2>5. waiters' = Asleep'
    <3>1. ~ Waits(t) /\ (l \in AsleepLabels <=> l = "sleep")
      BY <2>1 DEF Waits, AsleepLabels
    <3>2. Asleep' = IF l = "sleep" THEN Asleep + 1 ELSE Asleep
      BY <1>0, <2>3, <3>1, GoesCounted
    <3>3. QED
      BY <1>0, <2>1, <3>2 DEF SpinInv
  <2>6. \A u \in Threads : pc'[u] \in Labels /\ pc'[u] \notin {"wait", "signal"}
    <3>1. holder = {t}
      BY <1>0, <2>1 DEF SpinInv
    <3>2. \A u \in Threads : pc[u] \in {"wait", "signal"} => u = t
      BY <1>0, <3>1 DEF SpinInv
    <3>3. QED
      BY <1>0, <2>1, <2>3, <3>2 DEF SpinInv, WriteLabels
  <2>7. value' \in {0, 1} /\ (value' = 0 <=> \E u \in Threads : In(u)')
    BY <1>0, <2>1, <2>2, <2>4 DEF SpinInv
  <2>8. SpinInv'
    BY <2>5, <2>6, <2>7 DEF SpinInv
  <2>9. SemReason'
    <3>1. CASE l = "load"
      BY <2>4, <3>1 DEF SemReason
    <3>2. CASE l = "sleep"
      <4>1. value = 0 \/ \E u \in Threads : Waits(u)
        BY <1>0, <2>1, <3>2 DEF SpinInv
      <4>2. \E u \in Threads : In(u)
        BY <1>0, <4>1 DEF SpinInv, SemReason
      <4>3. QED
        BY <2>4, <4>2 DEF SemReason
    <3>3. QED
      BY <3>1, <3>2
  <2>10. QED
    BY <1>0, <2>3, <2>8, <2>9 DEF SemInv
<1>3. CASE Sems!SpinSignal(t)
  <2>1. /\ pc[t] = "signal" /\ In(t) /\ ~ W(t) /\ ~ Waits(t) /\ value = 0 /\ holder' = {}
        /\ \A u \in Threads : pc[u] \in {"wait", "signal"} => u = t
    <3>1. pc[t] = "signal" /\ holder' = {}
      BY <1>3 DEF Sems!SpinSignal, Sems!Running
    <3>2. In(t) /\ ~ W(t) /\ ~ Waits(t)
      BY <3>1 DEF In, InsideLabels, W, WriteLabels, Waits, AsleepLabels
    <3>3. holder = {t}
      BY <1>0, <3>1 DEF SpinInv
    <3>4. \A u \in Threads : pc[u] \in {"wait", "signal"} => u = t
      BY <1>0, <3>3 DEF SpinInv
    <3>5. QED
      BY <1>0, <3>1, <3>2, <3>4 DEF SpinInv
  <2>2. \/ waiters = 0 /\ value' = value + 1 /\ Leaves(t) /\ UNCHANGED waiters
        \/ /\ \E w \in sleeping : LeavesTo(t, w, "load")
           /\ waiters' = waiters - 1 /\ UNCHANGED value
    BY <1>3 DEF Sems!SpinSignal, Sems!Wakes, Sems!Goto, Sems!After, After, Leaves, LeavesTo
  <2>3. CASE waiters = 0 /\ value' = value + 1 /\ Leaves(t) /\ UNCHANGED waiters
    <3>1. /\ SemCore' /\ pc'[t] \in {"begin", "done"} /\ \A u \in Threads \ {t} : pc'[u] = pc[u]
          /\ \A u \in Threads : ~ In(u)'
      BY <1>0, <2>1, <2>3, SemLeaves
    <3>2. Asleep' = Asleep
      BY <1>0, <2>1, <3>1, LeavesCounted
    <3>3. \A u \in Threads : pc'[u] \in Labels /\ pc'[u] \notin {"wait", "signal"}
      BY <1>0, <2>1, <3>1 DEF SpinInv, WriteLabels
    <3>4. SpinInv'
      <4>a. value' = 0 + 1
        BY <2>1, <2>3
      <4>b. waiters = Asleep
        BY <1>0 DEF SpinInv
      <4>1. value' = 1 /\ waiters' = Asleep'
        BY <2>3, <3>2, <4>a, <4>b
      <4>2. QED
        BY <3>1, <3>3, <4>1 DEF SpinInv
    <3>5. \A u \in Threads : ~ Waits(u)'
      BY <1>0, <2>3, <3>1 DEF SpinInv, Waits, AsleepLabels
    <3>6. SemReason'
      BY <3>5 DEF SemReason
    <3>7. QED
      BY <1>0, <3>1, <3>4, <3>6 DEF SemInv
  <2>4. CASE /\ \E w \in sleeping : LeavesTo(t, w, "load")
             /\ waiters' = waiters - 1 /\ UNCHANGED value
    <3>1. PICK w \in sleeping : LeavesTo(t, w, "load")
      BY <2>4
    <3>2. /\ SemCore' /\ pc'[t] \in {"begin", "done"}
          /\ w \in Threads /\ w # t /\ pc[w] = "asleep" /\ pc'[w] = "load"
          /\ \A u \in Threads \ {t, w} : pc'[u] = pc[u] /\ ~ In(u)'
      BY <1>0, <2>1, <3>1, SemLeavesTo
    <3>3. Asleep' = Asleep - 1
      BY <1>0, <2>1, <3>2, LeavesToCounted
    <3>4. \A u \in Threads : pc'[u] \in Labels /\ pc'[u] \notin {"wait", "signal"}
      BY <1>0, <2>1, <3>2 DEF SpinInv, WriteLabels
    <3>5. In(w)'
      BY <3>2 DEF In, InsideLabels
    <3>6. SpinInv'
      BY <1>0, <2>1, <2>4, <3>2, <3>3, <3>4, <3>5 DEF SpinInv
    <3>7. SemReason'
      BY <3>2, <3>5 DEF SemReason
    <3>8. QED
      BY <1>0, <3>2, <3>6, <3>7 DEF SemInv
  <2>5. QED
    BY <2>2, <2>3, <2>4
<1>4. QED
  BY <1>1, <1>2, <1>3

\* semaphores/semaphore.c, and what works like it, keeps the invariant.
LEMMA PosixStep ==
  ASSUME SemInv, NEW t \in Threads, Sems!PosixWait(t) \/ Sems!PosixPost(t)
  PROVE  SemInv'
<1>0. sem = "posix" /\ sem' = sem /\ SemCore /\ SemReason /\ PosixInv
  BY DEF SemInv, Sems!PosixWait, Sems!PosixPost, Sems!Running
<1>a. \A u \in Threads : ~ Waits(u)
  BY <1>0 DEF PosixInv, WriteLabels, Waits, AsleepLabels
<1>1. CASE Sems!PosixWait(t)
  <2>1. pc[t] = "begin" /\ value > 0 /\ value' = value - 1 /\ Goes(t, "load")
    BY <1>1 DEF Sems!PosixWait, Sems!Running, Sems!Goto, Goes
  <2>2. value = 1 /\ \A u \in Threads : ~ In(u)
    BY <1>0, <2>1 DEF PosixInv
  <2>3. SemCore' /\ \A u \in Threads : pc'[u] = IF u = t THEN "load" ELSE pc[u]
    BY <1>0, <2>1, <2>2, SemGoes DEF SemLabels
  <2>4. In(t)'
    BY <2>3 DEF In, InsideLabels
  <2>5. \A u \in Threads : pc'[u] \in {"begin", "done"} \cup WriteLabels
    BY <1>0, <2>3 DEF PosixInv, WriteLabels
  <2>6. PosixInv'
    BY <2>1, <2>2, <2>4, <2>5 DEF PosixInv
  <2>7. SemReason'
    BY <2>4 DEF SemReason
  <2>8. QED
    BY <1>0, <2>3, <2>6, <2>7 DEF SemInv
<1>2. CASE Sems!PosixPost(t)
  <2>1. pc[t] = "unlock" /\ value' = value + 1 /\ Leaves(t) /\ In(t)
    BY <1>2 DEF Sems!PosixPost, Sems!Running, Sems!EndIteration, Sems!After, After, Sems!Goto,
                Leaves, In, InsideLabels
  <2>2. value = 0
    BY <1>0, <2>1 DEF PosixInv
  <2>3. /\ SemCore' /\ pc'[t] \in {"begin", "done"} /\ \A u \in Threads \ {t} : pc'[u] = pc[u]
        /\ \A u \in Threads : ~ In(u)'
    BY <1>0, <2>1, SemLeaves
  <2>4. \A u \in Threads : pc'[u] \in {"begin", "done"} \cup WriteLabels /\ ~ Waits(u)'
    BY <1>0, <2>3 DEF PosixInv, WriteLabels, Waits, AsleepLabels
  <2>5. PosixInv'
    BY <2>1, <2>2, <2>3, <2>4 DEF PosixInv
  <2>6. SemReason'
    BY <2>4 DEF SemReason
  <2>7. QED
    BY <1>0, <2>3, <2>5, <2>6 DEF SemInv
<1>3. QED
  BY <1>1, <1>2

\* monitors/semaphore.c keeps the invariant, spurious wakeups included.
LEMMA SemMonitorStep ==
  ASSUME SemInv, NEW t \in Threads,
         Sems!MonitorEnter(t) \/ Sems!MonitorP(t) \/ Sems!MonitorV(t) \/ Sems!SpuriousWake(t)
  PROVE  SemInv'
<1> DEFINE Labels == {"begin", "relock", "p", "asleep", "done"} \cup WriteLabels
           OnItsWay == \E u \in Threads : pc[u] \in {"relock", "p"}
<1>0. sem = "monitor" /\ sem' = sem /\ SemCore /\ SemReason /\ SemMonitorInv
  BY DEF SemInv, Sems!MonitorEnter, Sems!MonitorP, Sems!MonitorV, Sems!SpuriousWake, Sems!Running
<1>1. CASE Sems!MonitorEnter(t)
  <2>1. /\ Goes(t, "p") /\ holder = {} /\ holder' = {t} /\ UNCHANGED value
        /\ pc[t] \in {"begin", "relock"}
    BY <1>1 DEF Sems!MonitorEnter, Sems!Goto, Goes
  <2>2. SemCore' /\ \A u \in Threads : pc'[u] = IF u = t THEN "p" ELSE pc[u]
    <3>1. "p" \in SemLabels \ {"store", "done"} /\ pc[t] # "done" /\ "p" \notin InsideLabels
      BY <2>1 DEF SemLabels, InsideLabels
    <3>2. QED
      BY <1>0, <2>1, <3>1, SemGoes
  <2>3. \A u \in Threads : In(u)' <=> In(u)
    BY <2>1, <2>2 DEF In, InsideLabels
  <2>4. \A u \in Threads : pc'[u] \in Labels /\ (pc'[u] = "p" => holder' = {u})
    BY <1>0, <2>1, <2>2 DEF SemMonitorInv, WriteLabels
  <2>5. SemMonitorInv'
    BY <1>0, <2>1, <2>3, <2>4 DEF SemMonitorInv
  <2>6. SemReason'
    BY <1>0, <2>2 DEF SemReason
  <2>7. QED
    BY <1>0, <2>2, <2>5, <2>6 DEF SemInv
<1>2. CASE Sems!MonitorP(t)
  <2>1. PICK l \in {"asleep", "load"} :
          /\ pc[t] = "p" /\ Goes(t, l) /\ holder' = {}
          /\ l = "asleep" => value = 0 /\ UNCHANGED value
          /\ l = "load" => value # 0 /\ value' = value - 1
    <3>1. pc[t] = "p" /\ holder' = {} /\ UNCHANGED <<counter, reg, iter, sem>>
      BY <1>2 DEF Sems!MonitorP, Sems!Running
    <3>2. CASE value = 0
      <4>1. Goes(t, "asleep") /\ UNCHANGED value
        BY <1>2, <3>1, <3>2 DEF Sems!MonitorP, Sems!Goto, Goes
      <4>2. QED
        BY <3>1, <3>2, <4>1
    <3>3. CASE value # 0
      <4>1. Goes(t, "load") /\ value' = value - 1
        BY <1>2, <3>1, <3>3 DEF Sems!MonitorP, Sems!Goto, Goes
      <4>2. QED
        BY <3>1, <3>3, <4>1
    <3>4. QED
      BY <3>2, <3>3
  <2>2. l = "load" => value = 1 /\ \A u \in Threads : ~ In(u)
    BY <1>0, <2>1 DEF SemMonitorInv
  <2>3. SemCore' /\ \A u \in Threads : pc'[u] = IF u = t THEN l ELSE pc[u]
    <3>1. /\ l \in SemLabels \ {"store", "done"} /\ pc[t] # "done"
          /\ l \in InsideLabels => l = "load"
      BY <2>1 DEF SemLabels, InsideLabels
    <3>2. QED
      BY <1>0, <2>1, <2>2, <3>1, SemGoes
  <2>4. \A u \in Threads : In(u)' <=> In(u) \/ (u = t /\ l = "load")
    BY <2>1, <2>3 DEF In, InsideLabels
  <2>5. \A u \in Threads : pc'[u] \in Labels /\ pc'[u] # "p"
    <3>1. holder = {t}
      BY <1>0, <2>1 DEF SemMonitorInv
    <3>2. \A u \in Threads : pc[u] = "p" => u = t
      BY <1>0, <3>1 DEF SemMonitorInv
    <3>3. QED
      BY <1>0, <2>1, <2>3, <3>2 DEF SemMonitorInv, WriteLabels
  <2>6. value' \in {0, 1} /\ (value' = 0 <=> \E u \in Threads : In(u)')
    BY <1>0, <2>1, <2>2, <2>4 DEF SemMonitorInv
  <2>7. SemMonitorInv'
    BY <2>5, <2>6 DEF SemMonitorInv
  <2>8. SemReason'
    BY <1>0, <2>1, <2>4 DEF SemReason, SemMonitorInv
  <2>9. QED
    BY <1>0, <2>3, <2>7, <2>8 DEF SemInv
<1>3. CASE Sems!SpuriousWake(t)
  <2>1. pc[t] = "asleep"
    BY <1>0, <1>3 DEF Sems!SpuriousWake, SemCore, Placed
  <2>2. Goes(t, "relock") /\ UNCHANGED <<value, holder>>
    BY <1>3, <2>1 DEF Sems!SpuriousWake, Sems!Goto, Goes
  <2>3. SemCore' /\ \A u \in Threads : pc'[u] = IF u = t THEN "relock" ELSE pc[u]
    <3>1. "relock" \in SemLabels \ {"store", "done"} /\ "relock" \notin InsideLabels
      BY DEF SemLabels, InsideLabels
    <3>2. QED
      BY <1>0, <2>1, <2>2, <3>1, SemGoes
  <2>4. \A u \in Threads : In(u)' <=> In(u)
    BY <2>1, <2>3 DEF In, InsideLabels
  <2>5. \A u \in Threads : pc'[u] \in Labels /\ (pc'[u] = "p" => holder' = {u})
    BY <1>0, <2>2, <2>3 DEF SemMonitorInv, WriteLabels
  <2>6. SemMonitorInv'
    BY <1>0, <2>2, <2>4, <2>5 DEF SemMonitorInv
  <2>7. SemReason'
    BY <1>0, <2>3 DEF SemReason
  <2>8. QED
    BY <1>0, <2>3, <2>6, <2>7 DEF SemInv
<1>4. CASE Sems!MonitorV(t)
  <2>1. pc[t] = "unlock" /\ In(t) /\ value' = value + 1 /\ holder = {} /\ UNCHANGED holder
    BY <1>4 DEF Sems!MonitorV, Sems!Running, In, InsideLabels
  <2>2. value' = 1
    BY <1>0, <2>1 DEF SemMonitorInv
  <2>3. \/ sleeping = {} /\ Leaves(t)
        \/ \E w \in sleeping : LeavesTo(t, w, "relock")
    BY <1>4 DEF Sems!MonitorV, Sems!Wakes, Sems!Goto, Sems!After, After, Leaves, LeavesTo
  <2>4. CASE sleeping = {} /\ Leaves(t)
    <3>1. /\ SemCore' /\ pc'[t] \in {"begin", "done"} /\ \A u \in Threads \ {t} : pc'[u] = pc[u]
          /\ \A u \in Threads : ~ In(u)'
      BY <1>0, <2>1, <2>4, SemLeaves
    <3>2. \A u \in Threads : pc'[u] \in Labels /\ (pc'[u] = "p" => holder' = {u})
      BY <1>0, <2>1, <3>1 DEF SemMonitorInv, WriteLabels
    <3>3. SemMonitorInv'
      BY <2>2, <3>1, <3>2 DEF SemMonitorInv
    <3>4. \A u \in Threads : ~ Waits(u)'
      <4>1. \A u \in Threads : pc[u] # "asleep"
        BY <1>0, <2>4 DEF SemCore, Placed
      <4>2. QED
        BY <1>0, <3>1, <4>1 DEF SemMonitorInv, WriteLabels, Waits, AsleepLabels
    <3>5. SemReason'
      BY <3>4 DEF SemReason
    <3>6. QED
      BY <1>0, <3>1, <3>3, <3>5 DEF SemInv
  <2>5. ASSUME NEW w \in sleeping, LeavesTo(t, w, "relock") PROVE SemInv'
    <3>1. /\ SemCore' /\ pc'[t] \in {"begin", "done"}
          /\ w \in Threads /\ w # t /\ pc[w] = "asleep" /\ pc'[w] = "relock"
          /\ \A u \in Threads \ {t, w} : pc'[u] = pc[u] /\ ~ In(u)'
      BY <1>0, <2>1, <2>5, SemLeavesTo
    <3>2. \A u \in Threads : pc'[u] \in Labels /\ (pc'[u] = "p" => holder' = {u})
      BY <1>0, <2>1, <3>1 DEF SemMonitorInv, WriteLabels
    <3>3. \A u \in Threads : ~ In(u)'
      BY <3>1 DEF In, InsideLabels
    <3>4. SemMonitorInv'
      BY <2>2, <3>2, <3>3 DEF SemMonitorInv
    <3>5. SemReason'
      BY <1>0, <3>1 DEF SemReason
    <3>6. QED
      BY <1>0, <3>1, <3>4, <3>5 DEF SemInv
  <2>6. QED
    BY <2>3, <2>4, <2>5
<1>5. QED
  BY <1>1, <1>2, <1>3, <1>4

\* channels/semaphore2.go keeps the invariant.
LEMMA ChannelsStep ==
  ASSUME SemInv, NEW t \in Threads,
         \/ Sems!ChannelWait(t) \/ Sems!ReceiveTurn(t)
         \/ Sems!ChannelSignal(t) \/ Sems!SendTurn(t)
  PROVE  SemInv'
<1> DEFINE Labels == {"begin", "receive", "send", "done"} \cup WriteLabels
<1>0. /\ sem = "channels" /\ sem' = sem /\ SemCore /\ SemReason /\ ChannelsInv
      /\ Taken \in Nat
      /\ Taken = 0 <=> \A u \in Threads : ~ Waits(u) /\ ~ W(u)
  BY Counted DEF SemInv, Sems!ChannelWait, Sems!ReceiveTurn, Sems!ChannelSignal, Sems!SendTurn,
                 Sems!Running
<1>1. CASE Sems!ChannelWait(t)
  <2>1. PICK l \in {"receive", "load"} :
          /\ pc[t] = "begin" /\ Goes(t, l) /\ value' = value - 1 /\ UNCHANGED waiters
          /\ l = "receive" <=> value - 1 < 0
    BY <1>1 DEF Sems!ChannelWait, Sems!Running, Sems!Goto, Goes
  <2>2. l = "load" => Taken = 0
    BY <1>0, <2>1 DEF ChannelsInv
  <2>3. \A u \in Threads : In(u) => W(u) \/ \E v \in Threads : Waits(v)
    BY <1>0 DEF ChannelsInv, In, InsideLabels, W, WriteLabels
  <2>4. SemCore' /\ \A u \in Threads : pc'[u] = IF u = t THEN l ELSE pc[u]
    <3>1. l \in SemLabels \ {"store", "done"} /\ pc[t] # "done"
      BY <2>1 DEF SemLabels
    <3>2. l \in InsideLabels => \A u \in Threads : ~ In(u)
      BY <1>0, <2>2, <2>3 DEF InsideLabels
    <3>3. QED
      BY <1>0, <2>1, <3>1, <3>2, SemGoes
  <2>5. value' = 1 - Taken'
    <3>1. l \in TakenLabels /\ pc[t] \notin TakenLabels
      BY <2>1 DEF TakenLabels, WriteLabels, AsleepLabels
    <3>2. Taken' = Taken + 1
      BY <1>0, <2>4, <3>1, GoesCounted
    <3>3. QED
      BY <1>0, <2>1, <3>2 DEF ChannelsInv
  <2>6. \A u \in Threads : /\ pc'[u] \in Labels
                           /\ Waits(u) => Waits(u)'
                           /\ pc'[u] = "send" <=> pc[u] = "send"
                           /\ In(u)' <=> In(u) \/ (u = t /\ l = "load")
    BY <1>0, <2>1, <2>4 DEF ChannelsInv, WriteLabels, Waits, AsleepLabels, In, InsideLabels
  <2>7. (\E u \in Threads : pc'[u] = "send") \/ waiters' = 1 => \E u \in Threads : Waits(u)'
    BY <1>0, <2>1, <2>6 DEF ChannelsInv
  <2>8. waiters' \in {0, 1} /\ (waiters' = 1 => \A u \in Threads : ~ In(u)')
    BY <1>0, <2>1, <2>2, <2>6 DEF ChannelsInv
  <2>9. ChannelsInv'
    BY <2>5, <2>6, <2>7, <2>8 DEF ChannelsInv
  <2>10. SemReason'
    <3>1. CASE l = "load"
      BY <2>6, <3>1 DEF SemReason
    <3>2. CASE l = "receive"
      <4>1. \E u \in Threads : Waits(u) \/ W(u)
        BY <1>0, <2>1, <3>2 DEF ChannelsInv
      <4>2. waiters = 1 \/ \E u \in Threads : In(u)
        BY <1>0, <4>1 DEF SemReason, W, WriteLabels, In, InsideLabels
      <4>3. QED
        BY <1>0, <2>1, <2>6, <4>2 DEF SemReason
    <3>3. QED
      BY <3>1, <3>2
  <2>11. QED
    BY <1>0, <2>4, <2>9, <2>10 DEF SemInv
<1>2. CASE Sems!ReceiveTurn(t)
  <2>1. /\ pc[t] = "receive" /\ Goes(t, "load") /\ waiters > 0 /\ waiters' = waiters - 1
        /\ UNCHANGED value
    BY <1>2 DEF Sems!ReceiveTurn, Sems!Running, Sems!Goto, Goes
  <2>2. waiters = 1 /\ waiters' = 0 /\ \A u \in Threads : ~ In(u)
    BY <1>0, <2>1 DEF ChannelsInv
  <2>3. SemCore' /\ \A u \in Threads : pc'[u] = IF u = t THEN "load" ELSE pc[u]
    <3>1. "load" \in SemLabels \ {"store", "done"} /\ pc[t] # "done"
      BY <2>1 DEF SemLabels
    <3>2. QED
      BY <1>0, <2>1, <2>2, <3>1, SemGoes
  <2>4. value' = 1 - Taken'
    <3>1. "load" \in TakenLabels /\ pc[t] \in TakenLabels
      BY <2>1 DEF TakenLabels, WriteLabels, AsleepLabels
    <3>2. Taken' = Taken
      BY <1>0, <2>3, <3>1, GoesCounted
    <3>3. QED
      BY <1>0, <2>1, <3>2 DEF ChannelsInv
  <2>5. \A u \in Threads : pc'[u] \in Labels /\ pc'[u] # "send"
    BY <1>0, <2>2, <2>3 DEF ChannelsInv, WriteLabels, In, InsideLabels
  <2>6. ChannelsInv'
    BY <2>2, <2>4, <2>5 DEF ChannelsInv
  <2>7. In(t)'
    BY <2>3 DEF In, InsideLabels
  <2>8. SemReason'
    BY <2>7 DEF SemReason
  <2>9. QED
    BY <1>0, <2>3, <2>6, <2>8 DEF SemInv
<1>3. CASE Sems!ChannelSignal(t)
  <2>1. /\ pc[t] = "unlock" /\ value' = value + 1 /\ W(t) /\ In(t) /\ ~ Waits(t)
        /\ UNCHANGED waiters
    BY <1>3 DEF Sems!ChannelSignal, Sems!Running, W, WriteLabels, In, InsideLabels,
                Waits, AsleepLabels
  <2>2. waiters = 0 /\ \A u \in Threads : W(u) => u = t
    BY <1>0, <2>1 DEF ChannelsInv, SemCore, In, InsideLabels, W, WriteLabels
  <2>3. CASE value' <= 0
    <3>1. Goes(t, "send")
      BY <1>0, <1>3, <2>1, <2>3 DEF Sems!ChannelSignal, Sems!Goto, Goes
    <3>2. SemCore' /\ \A u \in Threads : pc'[u] = IF u = t THEN "send" ELSE pc[u]
      BY <1>0, <2>1, <3>1, SemGoes DEF SemLabels
    <3>3. Taken' = Taken - 1
      <4>1. pc[t] \in TakenLabels /\ "send" \notin TakenLabels
        BY <2>1 DEF TakenLabels, WriteLabels, AsleepLabels
      <4>2. QED
        BY <1>0, <3>2, <4>1, GoesCounted
    <3>4. \E u \in Threads : Waits(u)'
      <4>1. Taken' \in Nat /\ Taken' # 0
        BY <1>0, <2>1, <2>3, <3>3 DEF ChannelsInv
      <4>2. \A u \in Threads : W(u)' => W(u) /\ u # t
        BY <3>2 DEF W, WriteLabels
      <4>3. Taken' = Cardinality(Placed(Threads, pc', TakenLabels))
        BY DEF Taken
      <4>4. \E u \in Threads : pc'[u] \in TakenLabels
        BY <4>1, <4>3, NonePlaced, BlockingAssumption
      <4>5. QED
        BY <2>2, <4>2, <4>4 DEF TakenLabels, Waits, W
    <3>5. ChannelsInv'
      <4>1. \A u \in Threads : pc'[u] \in Labels
        BY <1>0, <3>2 DEF ChannelsInv, WriteLabels
      <4>2. value' = 1 - Taken'
        BY <1>0, <2>1, <3>3 DEF ChannelsInv
      <4>3. QED
        BY <2>1, <2>2, <3>4, <4>1, <4>2 DEF ChannelsInv
    <3>6. SemReason'
      BY <3>2 DEF SemReason, In, InsideLabels
    <3>7. QED
      BY <1>0, <3>2, <3>5, <3>6 DEF SemInv
  <2>4. CASE ~ value' <= 0
    <3>1. Leaves(t)
      BY <1>0, <1>3, <2>1, <2>4
      DEF Sems!ChannelSignal, Sems!EndIteration, Sems!After, After, Sems!Goto, Leaves
    <3>2. /\ SemCore' /\ pc'[t] \in {"begin", "done"} /\ \A u \in Threads \ {t} : pc'[u] = pc[u]
          /\ \A u \in Threads : ~ In(u)'
      BY <1>0, <2>1, <3>1, SemLeaves
    <3>3. Taken' = Taken - 1
      BY <1>0, <2>1, <3>2, LeavesCounted
    <3>4. Taken' = 0
      <4>1. Taken # 0
        BY <1>0, <2>1
      <4>2. QED
        BY <1>0, <2>1, <2>4, <3>3, <4>1 DEF ChannelsInv
    <3>5. \A u \in Threads : ~ Waits(u)'
      <4>1. Taken' = Cardinality(Placed(Threads, pc', TakenLabels))
        BY DEF Taken
      <4>2. \A u \in Threads : pc'[u] \notin TakenLabels
        BY <3>4, <4>1, NonePlaced, BlockingAssumption
      <4>3. QED
        BY <4>2 DEF TakenLabels, Waits
    <3>6. ChannelsInv'
      <4>1. \A u \in Threads : pc'[u] \in Labels
        BY <1>0, <3>2 DEF ChannelsInv, WriteLabels
      <4>2. value' = 1 - Taken'
        BY <1>0, <2>1, <3>3 DEF ChannelsInv
      <4>3. ~ \E u \in Threads : pc'[u] = "send"
        BY <3>2 DEF In, InsideLabels
      <4>4. QED
        BY <2>1, <2>2, <4>1, <4>2, <4>3 DEF ChannelsInv
    <3>7. SemReason'
      BY <3>5 DEF SemReason
    <3>8. QED
      BY <1>0, <3>2, <3>6, <3>7 DEF SemInv
  <2>5. QED
    BY <2>3, <2>4
<1>4. CASE Sems!SendTurn(t)
  <2>1. /\ pc[t] = "send" /\ Leaves(t) /\ waiters < 1 /\ waiters' = waiters + 1
        /\ UNCHANGED value
    BY <1>4 DEF Sems!SendTurn, Sems!Running, Sems!EndIteration, Sems!After, After, Sems!Goto,
                Leaves
  <2>2. In(t) /\ ~ W(t) /\ ~ Waits(t)
    BY <2>1 DEF In, InsideLabels, W, WriteLabels, Waits, AsleepLabels
  <2>3. /\ SemCore' /\ pc'[t] \in {"begin", "done"} /\ \A u \in Threads \ {t} : pc'[u] = pc[u]
        /\ \A u \in Threads : ~ In(u)'
    BY <1>0, <2>1, <2>2, SemLeaves
  <2>4. Taken' = Taken
    BY <1>0, <2>2, <2>3, LeavesCounted
  <2>5. \E u \in Threads : Waits(u)'
    <3>1. PICK u \in Threads : Waits(u)
      BY <1>0, <2>1 DEF ChannelsInv
    <3>2. u # t
      BY <2>2, <3>1
    <3>3. QED
      BY <2>3, <3>1, <3>2 DEF Waits
  <2>6. waiters' = 1
    BY <1>0, <2>1 DEF ChannelsInv
  <2>7. \A u \in Threads : pc'[u] \in Labels
    BY <1>0, <2>3 DEF ChannelsInv, WriteLabels
  <2>8. ChannelsInv'
    BY <1>0, <2>1, <2>3, <2>4, <2>5, <2>6, <2>7 DEF ChannelsInv
  <2>9. SemReason'
    BY <1>0, <2>6 DEF SemReason
  <2>10. QED
    BY <1>0, <2>3, <2>8, <2>9 DEF SemInv
<1>5. QED
  BY <1>1, <1>2, <1>3, <1>4

\* Every step of the five semaphores keeps their invariant.
LEMMA SemKeeps ==
  ASSUME SemInv,
         \/ \E t \in Threads : Sems!Step(t) \/ Sems!SpuriousWake(t)
         \/ UNCHANGED <<loopvars, semonly, sleeping>>
  PROVE  SemInv'
<1>1. ASSUME UNCHANGED <<loopvars, semonly, sleeping>> PROVE SemInv'
  <2>1. UNCHANGED <<pc, counter, reg, iter, sem, value, waiters, holder, sleeping>>
    BY <1>1 DEF loopvars, semonly
  <2>2. SemCore' /\ SemReason'
    BY <2>1 DEF SemInv, SemCore, SemReason, Loop, In, Waits, Placed
  <2>3. Taken' = Taken /\ Asleep' = Asleep
    BY <2>1 DEF Taken, Asleep, Placed
  <2>4. sem = "futex" => FutexInv'
    BY <2>1, <2>3 DEF SemInv, FutexInv, Waits
  <2>5. sem = "spinlock" => SpinInv'
    BY <2>1, <2>3 DEF SemInv, SpinInv, In
  <2>6. sem = "monitor" => SemMonitorInv'
    BY <2>1 DEF SemInv, SemMonitorInv, In
  <2>7. sem = "posix" => PosixInv'
    BY <2>1 DEF SemInv, PosixInv, In
  <2>8. sem = "channels" => ChannelsInv'
    BY <2>1, <2>3 DEF SemInv, ChannelsInv, In, Waits
  <2>9. QED
    BY <2>1, <2>2, <2>4, <2>5, <2>6, <2>7, <2>8 DEF SemInv
<1>2. ASSUME NEW t \in Threads, Sems!Step(t) \/ Sems!SpuriousWake(t) PROVE SemInv'
  BY <1>2, SemCounts, SleepStep, FutexStep, SpinStep, PosixStep, SemMonitorStep, ChannelsStep
  DEF Sems!Step
<1>3. QED
  BY <1>1, <1>2

\* Who waits for a semaphore is not forgotten.
LEMMA SemPromises == SemInv => Sems!SemaphoreNoLostWakeup
<1> SUFFICES ASSUME SemInv, Sems!Waiting # {}
             PROVE  \/ Sems!Inside # {} \/ \E t \in Threads : pc[t] \in {"relock", "p"}
                    \/ sem = "channels" /\ waiters > 0
  BY DEF Sems!SemaphoreNoLostWakeup
<1>1. \E t \in Threads : Waits(t)
  BY DEF Sems!Waiting, Waits, AsleepLabels
<1>2. (\E t \in Threads : In(t)) => Sems!Inside # {}
  BY DEF Sems!Inside, In, InsideLabels
<1>3. QED
  BY <1>1, <1>2 DEF SemInv, SemReason

-----------------------------------------------------------------------------

\* The addition of thread t is an increment of the abstract counter.
LEMMA SemIncrements ==
  ASSUME SemInv,
         \/ \E t \in Threads : Sems!Step(t) \/ Sems!SpuriousWake(t)
         \/ UNCHANGED <<loopvars, semonly, sleeping>>
  PROVE  Sems!Atomic!ANext \/ UNCHANGED Sems!Atomic!avars
<1> DEFINE Incremented == {"unlock", "wake", "signal", "send"}
           M(u) == IF pc[u] \in Incremented THEN iter[u] + 1 ELSE iter[u]
<1>a. /\ Loop(SemLabels) /\ pc \in [Threads -> SemLabels] /\ iter \in [Threads -> Nat]
      /\ \A w \in sleeping : w \in Threads /\ pc[w] = "asleep"
      /\ Sems!Made = [u \in Threads |-> M(u)]
      /\ Sems!Made' = [u \in Threads |-> M(u)']
  BY DEF SemInv, SemCore, Placed, Loop, Sems!Made
<1>b. ASSUME UNCHANGED counter, \A u \in Threads : M(u)' = M(u)
      PROVE  UNCHANGED Sems!Atomic!avars
  BY <1>a, <1>b DEF Sems!Atomic!avars
<1>1. ASSUME UNCHANGED <<loopvars, semonly, sleeping>>
      PROVE  UNCHANGED Sems!Atomic!avars
  BY <1>1 DEF Sems!Atomic!avars, Sems!Made, loopvars
<1>2. ASSUME NEW t \in Threads, Sems!Step(t) \/ Sems!SpuriousWake(t)
      PROVE  Sems!Atomic!ANext \/ UNCHANGED Sems!Atomic!avars
  <2>1. ASSUME NEW l, pc' = [pc EXCEPT ![t] = l], UNCHANGED <<counter, iter>>,
               l \in Incremented <=> pc[t] \in Incremented
        PROVE  UNCHANGED Sems!Atomic!avars
    <3>1. \A u \in Threads : /\ pc'[u] \in Incremented <=> pc[u] \in Incremented
                             /\ iter'[u] = iter[u]
      BY <1>a, <2>1
    <3>2. QED
      BY <1>b, <2>1, <3>1
  <2>2. ASSUME pc[t] \in Incremented, Leaves(t), UNCHANGED counter
        PROVE  UNCHANGED Sems!Atomic!avars
    <3>1. After(t) \in {"begin", "done"}
      BY DEF After
    <3>2. \A u \in Threads \ {t} : iter'[u] = iter[u] /\ pc'[u] = pc[u]
      BY <1>a, <2>2 DEF Leaves
    <3>3. pc'[t] \in {"begin", "done"} /\ iter'[t] = iter[t] + 1
      BY <1>a, <2>2, <3>1 DEF Leaves
    <3>4. \A u \in Threads : M(u)' = M(u)
      BY <2>2, <3>2, <3>3
    <3>5. QED
      BY <1>b, <2>2, <3>4
  <2>3. ASSUME pc[t] \in Incremented, NEW w \in sleeping, NEW l \in {"load", "relock"},
               LeavesTo(t, w, l)
        PROVE  UNCHANGED Sems!Atomic!avars
    <3>1. After(t) \in {"begin", "done"} /\ w # t /\ w \in Threads /\ pc[w] = "asleep"
      BY <1>a, <2>3 DEF After
    <3>2. /\ pc'[w] = l /\ iter'[w] = iter[w]
          /\ \A u \in Threads \ {t, w} : iter'[u] = iter[u] /\ pc'[u] = pc[u]
      BY <1>a, <2>3, <3>1 DEF LeavesTo
    <3>3. pc'[t] \in {"begin", "done"} /\ iter'[t] = iter[t] + 1
      BY <1>a, <2>3, <3>1 DEF LeavesTo
    <3>4. \A u \in Threads : M(u)' = M(u)
      BY <2>3, <3>1, <3>2, <3>3
    <3>5. UNCHANGED counter
      BY <2>3 DEF LeavesTo
    <3>6. QED
      BY <1>b, <3>4, <3>5
  <2>4. CASE Sems!Sleep(t) \/ Sems!FutexWait(t) \/ Sems!SpinWait(t) \/ Sems!MonitorEnter(t)
             \/ Sems!MonitorP(t) \/ Sems!PosixWait(t) \/ Sems!ChannelWait(t) \/ Sems!ReceiveTurn(t)
             \/ Sems!SpinLock(t)
    <3>1. CASE Sems!Sleep(t)
      BY <2>1, <3>1 DEF Sems!Sleep, Sems!Goto
    <3>2. CASE Sems!FutexWait(t)
      BY <2>1, <3>2 DEF Sems!FutexWait, Sems!Goto, Sems!Running
    <3>3. CASE Sems!SpinWait(t)
      <4>1. \E l \in {"sleep", "load"} : pc' = [pc EXCEPT ![t] = l]
        BY <3>3 DEF Sems!SpinWait, Sems!Goto
      <4>2. pc[t] = "wait" /\ UNCHANGED <<counter, iter>>
        BY <3>3 DEF Sems!SpinWait, Sems!Running
      <4>3. QED
        BY <2>1, <4>1, <4>2
    <3>4. CASE Sems!MonitorEnter(t)
      BY <2>1, <3>4 DEF Sems!MonitorEnter, Sems!Goto
    <3>5. CASE Sems!MonitorP(t)
      <4>1. \E l \in {"asleep", "load"} : pc' = [pc EXCEPT ![t] = l]
        BY <3>5 DEF Sems!MonitorP, Sems!Goto
      <4>2. pc[t] = "p" /\ UNCHANGED <<counter, iter>>
        BY <3>5 DEF Sems!MonitorP, Sems!Running
      <4>3. QED
        BY <2>1, <4>1, <4>2
    <3>6. CASE Sems!PosixWait(t)
      BY <2>1, <3>6 DEF Sems!PosixWait, Sems!Goto, Sems!Running
    <3>7. CASE Sems!ChannelWait(t)
      BY <2>1, <3>7 DEF Sems!ChannelWait, Sems!Goto, Sems!Running
    <3>8. CASE Sems!ReceiveTurn(t)
      BY <2>1, <3>8 DEF Sems!ReceiveTurn, Sems!Goto, Sems!Running
    <3>9. CASE Sems!SpinLock(t)
      <4>1. UNCHANGED <<counter, iter>> /\ pc[t] \in {"begin", "unlock"}
        BY <3>9 DEF Sems!SpinLock
      <4>2. CASE pc[t] = "begin"
        BY <2>1, <3>9, <4>1, <4>2 DEF Sems!SpinLock, Sems!Goto
      <4>3. CASE pc[t] = "unlock"
        BY <2>1, <3>9, <4>1, <4>3 DEF Sems!SpinLock, Sems!Goto
      <4>4. QED
        BY <4>1, <4>2, <4>3
    <3>10. QED
      BY <2>4, <3>1, <3>2, <3>3, <3>4, <3>5, <3>6, <3>7, <3>8, <3>9
  <2>5. CASE Sems!FutexSignal(t) \/ Sems!PosixPost(t) \/ Sems!ChannelSignal(t) \/ Sems!SendTurn(t)
    <3>1. pc[t] \in Incremented /\ UNCHANGED <<counter, sem, sleeping>>
      BY <2>5 DEF Sems!FutexSignal, Sems!PosixPost, Sems!ChannelSignal, Sems!SendTurn,
                  Sems!Running, Sems!EndIteration
    <3>2. \/ \E l \in Incremented : pc' = [pc EXCEPT ![t] = l] /\ UNCHANGED iter
          \/ Leaves(t)
      BY <2>5, <3>1
      DEF Sems!FutexSignal, Sems!PosixPost, Sems!ChannelSignal, Sems!SendTurn, Leaves,
          Sems!Running, Sems!EndIteration, Sems!Goto, Sems!After, After
    <3>3. QED
      BY <2>1, <2>2, <3>1, <3>2
  <2>6. CASE Sems!FutexWake(t)
    <3>1. pc[t] \in Incremented /\ \E w \in sleeping : LeavesTo(t, w, "load")
      BY <2>6 DEF Sems!FutexWake, Sems!Running, Sems!Wakes, Sems!After, After, LeavesTo
    <3>2. QED
      BY <2>3, <3>1
  <2>7. CASE Sems!SpinSignal(t)
    <3>1. pc[t] \in Incremented /\ UNCHANGED counter
      BY <2>7 DEF Sems!SpinSignal, Sems!Running
    <3>2. Leaves(t) \/ \E w \in sleeping : LeavesTo(t, w, "load")
      BY <2>7 DEF Sems!SpinSignal, Sems!Wakes, Sems!Goto, Sems!After, After, Leaves, LeavesTo
    <3>3. QED
      BY <2>2, <2>3, <3>1, <3>2
  <2>8. CASE Sems!MonitorV(t)
    <3>1. pc[t] \in Incremented /\ UNCHANGED counter
      BY <2>8 DEF Sems!MonitorV, Sems!Running
    <3>2. Leaves(t) \/ \E w \in sleeping : LeavesTo(t, w, "relock")
      BY <2>8 DEF Sems!MonitorV, Sems!Wakes, Sems!Goto, Sems!After, After, Leaves, LeavesTo
    <3>3. QED
      BY <2>2, <2>3, <3>1, <3>2
  <2>9. CASE Sems!SpuriousWake(t)
    <3>1. pc[t] = "asleep"
      BY <1>a, <2>9 DEF Sems!SpuriousWake
    <3>2. QED
      BY <2>1, <2>9, <3>1 DEF Sems!SpuriousWake, Sems!Goto
  <2>10. CASE Sems!Count(t)
    <3>1. CASE Sems!Load(t)
      BY <2>1, <3>1 DEF Sems!Load, Sems!Goto
    <3>2. CASE Sems!Store(t)
      <4>1. /\ pc[t] = "store" /\ pc' = [pc EXCEPT ![t] = "unlock"] /\ UNCHANGED iter
            /\ counter' = reg[t] + 1 /\ reg[t] = counter /\ iter[t] < Max
        BY <1>a, <3>2 DEF Sems!Store, Sems!Goto, Loop
      <4>2. \A u \in Threads : M(u)' = IF u = t THEN M(t) + 1 ELSE M(u)
        BY <1>a, <4>1
      <4>3. Sems!Made' = [Sems!Made EXCEPT ![t] = Sems!Made[t] + 1]
        BY <1>a, <4>2
      <4>4. Sems!Made[t] < Max
        BY <1>a, <4>1
      <4>5. QED
        BY <4>1, <4>3, <4>4 DEF Sems!Atomic!ANext, Sems!Atomic!Increment
    <3>3. QED
      BY <2>10, <3>1, <3>2 DEF Sems!Count
  <2>11. QED
    BY <1>2, <2>4, <2>5, <2>6, <2>7, <2>8, <2>9, <2>10 DEF Sems!Step
<1>3. QED
  BY <1>1, <1>2

-----------------------------------------------------------------------------
(* Barriers                                                                *)

\* How many of the threads of the barriers are at the labels L.
Count(L) == Cardinality(Placed(Crew, pc, L))
Wt(t) == pc[t] \notin {"begin", "done"}
BarLoop(L) == /\ pc \in [Crew -> L] /\ round \in [Crew -> Nat] /\ local \in [Crew -> Nat]
CrewSize == Cardinality(Crew)

\* There are some threads, and as many as main says.
LEMMA CrewFacts == CrewSize \in Nat /\ CrewSize # 0 /\ Meets!NumThreads = CrewSize
<1>1. CrewSize \in Nat /\ CrewSize # 0
  BY BlockingAssumption, FS_CardinalityType, FS_EmptySet DEF CrewSize
<1>2. Meets!NumThreads = CrewSize
  BY DEF Meets!NumThreads, Meets!Cardinality, Cardinality, CrewSize
<1>3. QED
  BY <1>1, <1>2

\* A count is a number up to that of the threads.
LEMMA CountFacts ==
  ASSUME NEW L
  PROVE  /\ Count(L) \in Nat /\ Count(L) <= CrewSize
         /\ Count(L) = 0 <=> \A t \in Crew : pc[t] \notin L
         /\ Count(L) = CrewSize <=> \A t \in Crew : pc[t] \in L
<1>1. Placed(Crew, pc, L) \in SUBSET Crew
  BY DEF Placed
<1>2. /\ Count(L) \in Nat /\ Count(L) <= CrewSize
      /\ Count(L) = CrewSize => Placed(Crew, pc, L) = Crew
  BY <1>1, BlockingAssumption, FS_Subset, FS_CardinalityType DEF Count, CrewSize
<1>3. Count(L) = 0 <=> \A t \in Crew : pc[t] \notin L
  BY NonePlaced, BlockingAssumption DEF Count
<1>4. (\A t \in Crew : pc[t] \in L) => Placed(Crew, pc, L) = Crew
  BY DEF Placed
<1>5. Placed(Crew, pc, L) = Crew => \A t \in Crew : pc[t] \in L
  BY DEF Placed
<1>6. QED
  BY <1>2, <1>3, <1>4, <1>5 DEF Count, CrewSize

\* One thread moves: what its move makes of a count.
LEMMA CountMoves ==
  ASSUME NEW L, NEW t \in Crew, \A u \in Crew \ {t} : pc'[u] = pc[u]
  PROVE  /\ pc[t] \in L /\ pc'[t] \notin L => Count(L)' = Count(L) - 1
         /\ pc[t] \notin L /\ pc'[t] \in L => Count(L)' = Count(L) + 1
         /\ (pc[t] \in L <=> pc'[t] \in L) => Count(L)' = Count(L)
<1>1. Count(L)' = Cardinality(Placed(Crew, pc', L))
  BY DEF Count
<1>2. QED
  BY <1>1, PlacedMoves, BlockingAssumption DEF Count

\* A step is nothing, one thread coming to the barrier, or one leaving it.
LEMMA Stays ==
  ASSUME NEW L, pc \in [Crew -> L], NEW M, pc' \in [Crew -> M],
         \A u \in Crew : Wt(u)' <=> Wt(u), round' = round
  PROVE  Meets!PromiseStep
<1>1. Meets!Waiting = {u \in Crew : Wt(u)} /\ Meets!Waiting' = {u \in Crew : Wt(u)'}
  BY DEF Meets!Waiting, Meets!Members, Wt
<1>2. QED
  BY <1>1 DEF Meets!PromiseStep

\* One thread comes to the barrier.
LEMMA Enters ==
  ASSUME NEW L, pc \in [Crew -> L], NEW M, pc' \in [Crew -> M], meeting \notin {"async", "sync"},
         NEW t \in Crew, ~ Wt(t), Wt(t)',
         \A u \in Crew \ {t} : Wt(u)' <=> Wt(u), round' = round
  PROVE  Meets!PromiseStep
<1>1. Meets!Waiting = {u \in Crew : Wt(u)} /\ Meets!Waiting' = {u \in Crew : Wt(u)'}
  BY DEF Meets!Waiting, Meets!Members, Wt
<1>2. Meets!All!Arrive({t})
  BY <1>1 DEF Meets!All!Arrive
<1>3. {t} \in SUBSET Crew
  OBVIOUS
<1>4. QED
  BY <1>2, <1>3 DEF Meets!PromiseStep, Meets!All!Next

\* One thread leaves the barrier that everybody has reached.
LEMMA Exits ==
  ASSUME NEW L, pc \in [Crew -> L], NEW M, pc' \in [Crew -> M], meeting \notin {"async", "sync"},
         NEW t \in Crew, Wt(t), ~ Wt(t)', round \in [Crew -> Nat],
         \A u \in Crew \ {t} : Wt(u)' <=> Wt(u), round' = [round EXCEPT ![t] = round[t] + 1],
         \A s \in Crew : round[s] > round[t] \/ (round[s] = round[t] /\ Wt(s))
  PROVE  Meets!PromiseStep
<1>1. Meets!Waiting = {u \in Crew : Wt(u)} /\ Meets!Waiting' = {u \in Crew : Wt(u)'}
  BY DEF Meets!Waiting, Meets!Members, Wt
<1>2. round' = [u \in Crew |-> IF u \in {t} THEN round[u] + 1 ELSE round[u]]
  OBVIOUS
<1>3. \A s \in Crew : Meets!All!Reached(s, round[t])
  BY <1>1 DEF Meets!All!Reached
<1>4. Meets!Waiting' = Meets!Waiting \ {t} /\ {t} \subseteq Meets!Waiting
  BY <1>1
<1>5. Meets!All!Depart({t})
  BY <1>2, <1>3, <1>4 DEF Meets!All!Depart
<1>6. {t} \in SUBSET Crew
  OBVIOUS
<1>7. QED
  BY <1>5, <1>6 DEF Meets!PromiseStep, Meets!All!Next

\* The return of barrier().
LEMMA Returns ==
  ASSUME NEW L, BarLoop(L), {"begin", "done"} \subseteq L, NEW t \in Crew, Meets!Return(t)
  PROVE  /\ pc' \in [Crew -> L] /\ round' \in [Crew -> Nat]
         /\ round' = [round EXCEPT ![t] = round[t] + 1]
         /\ pc'[t] \in {"begin", "done"} /\ round'[t] = round[t] + 1
         /\ \A u \in Crew \ {t} : pc'[u] = pc[u] /\ round'[u] = round[u]
BY DEF BarLoop, Meets!Return, Meets!After

\* A thread goes on inside barrier().
LEMMA GoesTo ==
  ASSUME NEW L, BarLoop(L), NEW l \in L, NEW t \in Crew, Meets!Goto(t, l)
  PROVE  /\ pc' \in [Crew -> L] /\ round' = round /\ pc'[t] = l
         /\ \A u \in Crew \ {t} : pc'[u] = pc[u]
BY DEF BarLoop, Meets!Goto

-----------------------------------------------------------------------------

\* semaphores/barrier.c: the arrivals of round k, or its departures.
Baton == {"in", "testIn", "nextIn", "lastIn", "out", "testOut", "nextOut", "lastOut"}
Arrived == {"testIn", "nextIn", "lastIn", "departure"}
ToLeave == {"departure", "out"}
Coming(k) ==
  /\ \A t \in Crew : round[t] = k /\ pc[t] \in {"begin", "done", "in"} \cup Arrived
  /\ shared.departure = 0
  /\ shared.counter = Count(Arrived)
  /\ shared.arrival = 1 \/ (\E t \in Crew : pc[t] = "nextIn") => shared.counter < CrewSize
  /\ (\E t \in Crew : pc[t] = "lastIn") => shared.counter = CrewSize
Going(k) ==
  /\ \A t \in Crew : \/ round[t] = k /\ pc[t] \in {"testOut", "nextOut", "lastOut"} \cup ToLeave
                     \/ round[t] = k + 1 /\ pc[t] \in {"begin", "done"}
  /\ shared.arrival = 0
  /\ shared.counter = Count(ToLeave)
  /\ shared.departure = 1 \/ (\E t \in Crew : pc[t] = "nextOut") => shared.counter > 0
  /\ (\E t \in Crew : pc[t] = "lastOut") => shared.counter = 0
BatonLabels == {"begin", "done", "departure"} \cup Baton
SemBarInv ==
  /\ BarLoop(BatonLabels)
  /\ shared \in [arrival : {0, 1}, departure : {0, 1}, counter : Nat]
  /\ \A s, t \in Crew : pc[s] \in Baton /\ pc[t] \in Baton => s = t
  /\ (\E t \in Crew : pc[t] \in Baton) <=> shared.arrival = 0 /\ shared.departure = 0
  /\ \E k \in Nat : Coming(k) \/ Going(k)

\* One thread moves, and the semaphores say who holds the baton.
LEMMA BatonMoves ==
  ASSUME SemBarInv, NEW t \in Crew, pc' \in [Crew -> BatonLabels],
         \A u \in Crew \ {t} : pc'[u] = pc[u], local' = local, round' \in [Crew -> Nat],
         shared' \in [arrival : {0, 1}, departure : {0, 1}, counter : Nat],
         pc'[t] \in Baton => pc[t] \in Baton \/ shared.arrival = 1 \/ shared.departure = 1,
         pc[t] \in Baton \/ pc'[t] \in Baton,
         pc'[t] \in Baton <=> shared'.arrival = 0 /\ shared'.departure = 0
  PROVE  /\ BarLoop(BatonLabels)'
         /\ \A s, v \in Crew : pc'[s] \in Baton /\ pc'[v] \in Baton => s = v
         /\ (\E u \in Crew : pc'[u] \in Baton) <=> shared'.arrival = 0 /\ shared'.departure = 0
<1>1. BarLoop(BatonLabels)'
  BY DEF SemBarInv, BarLoop
<1>2. \A u \in Crew : pc'[u] \in Baton => u = t
  BY DEF SemBarInv
<1>3. QED
  BY <1>1, <1>2

\* semaphores/barrier.c keeps its invariant and its promise.
LEMMA SemBarStep ==
  ASSUME SemBarInv, meeting = "semaphore", NEW t \in Crew, Meets!SemaphoreStep(t)
  PROVE  SemBarInv' /\ Meets!PromiseStep
<1> DEFINE Typed == shared' \in [arrival : {0, 1}, departure : {0, 1}, counter : Nat]
           Others == \A u \in Crew \ {t} : pc'[u] = pc[u]
<1>0. /\ BarLoop(BatonLabels) /\ local' = local /\ pc \in [Crew -> BatonLabels]
      /\ shared \in [arrival : {0, 1}, departure : {0, 1}, counter : Nat]
      /\ \A s \in Crew : pc[s] \in Baton /\ pc[t] \in Baton => s = t
      /\ (\E s \in Crew : pc[s] \in Baton) <=> shared.arrival = 0 /\ shared.departure = 0
  BY DEF SemBarInv, Meets!SemaphoreStep, BarLoop
<1>k. PICK k \in Nat : Coming(k) \/ Going(k)
  BY DEF SemBarInv
<1>n. CrewSize \in Nat /\ CrewSize # 0 /\ Meets!NumThreads = CrewSize
  BY CrewFacts
<1>c. /\ Count(Arrived) \in Nat /\ Count(Arrived) <= CrewSize
      /\ Count(Arrived) = CrewSize <=> \A s \in Crew : pc[s] \in Arrived
      /\ Count(ToLeave) \in Nat
      /\ Count(ToLeave) = 0 <=> \A s \in Crew : pc[s] \notin ToLeave
  BY CountFacts
<1>1. CASE Meets!WaitArrival(t)
  <2>1. /\ pc[t] = "begin" /\ shared.arrival = 1 /\ Meets!Goto(t, "in")
        /\ shared' = [shared EXCEPT !.arrival = 0]
    BY <1>0, <1>1 DEF Meets!WaitArrival, Meets!At
  <2>2. /\ pc' \in [Crew -> BatonLabels] /\ round' = round /\ pc'[t] = "in" /\ Others
    BY <1>0, <2>1, GoesTo DEF BatonLabels, Baton
  <2>3. Typed /\ shared'.arrival = 0 /\ shared'.departure = shared.departure
              /\ shared'.counter = shared.counter
    BY <1>0, <2>1
  <2>4. Coming(k) /\ shared.departure = 0
    BY <1>k, <2>1 DEF Going, Coming
  <2>5. Count(Arrived)' = Count(Arrived)
    BY <2>1, <2>2, CountMoves DEF Arrived
  <2>6. Coming(k)'
    BY <1>c, <2>1, <2>2, <2>3, <2>4, <2>5 DEF Coming, Arrived
  <2>7. SemBarInv'
    BY <1>0, <1>k, <2>1, <2>2, <2>3, <2>4, <2>6, BatonMoves DEF SemBarInv, Baton, BarLoop
  <2>8. Meets!PromiseStep
    BY <1>0, <2>1, <2>2, Enters DEF Wt
  <2>9. QED
    BY <2>7, <2>8
<1>2. CASE Meets!CountIn(t)
  <2>1. /\ pc[t] = "in" /\ Meets!Goto(t, "testIn")
        /\ shared' = [shared EXCEPT !.counter = shared.counter + 1]
    BY <1>0, <1>2 DEF Meets!CountIn, Meets!At
  <2>2. /\ pc' \in [Crew -> BatonLabels] /\ round' = round /\ pc'[t] = "testIn" /\ Others
    BY <1>0, <2>1, GoesTo DEF BatonLabels, Baton
  <2>3. /\ Typed /\ shared'.arrival = shared.arrival /\ shared'.departure = shared.departure
        /\ shared'.counter = shared.counter + 1
    BY <1>0, <2>1
  <2>4. Coming(k) /\ shared.departure = 0 /\ shared.arrival = 0
    BY <1>0, <1>k, <2>1 DEF Going, Coming, ToLeave, Baton
  <2>5. Count(Arrived)' = Count(Arrived) + 1
    BY <2>1, <2>2, CountMoves DEF Arrived
  <2>6. \A s \in Crew : pc'[s] \notin {"nextIn", "lastIn"}
    BY <1>0, <2>1, <2>2 DEF Baton
  <2>7. Coming(k)'
    BY <1>c, <2>1, <2>2, <2>3, <2>4, <2>5, <2>6 DEF Coming, Arrived
  <2>8. SemBarInv'
    BY <1>0, <1>k, <2>1, <2>2, <2>3, <2>4, <2>7, BatonMoves DEF SemBarInv, Baton, BarLoop
  <2>9. Meets!PromiseStep
    BY <1>0, <2>1, <2>2, Stays DEF Wt
  <2>10. QED
    BY <2>8, <2>9
<1>3. CASE Meets!TestIn(t)
  <2>1. PICK l \in {"nextIn", "lastIn"} :
          /\ pc[t] = "testIn" /\ Meets!Goto(t, l) /\ shared' = shared
          /\ l = "nextIn" <=> shared.counter < CrewSize
    BY <1>3, <1>n DEF Meets!TestIn, Meets!At
  <2>2. /\ pc' \in [Crew -> BatonLabels] /\ round' = round /\ pc'[t] = l /\ Others
    BY <1>0, <2>1, GoesTo DEF BatonLabels, Baton
  <2>3. Coming(k) /\ shared.departure = 0 /\ shared.arrival = 0
    BY <1>0, <1>k, <2>1 DEF Going, Coming, ToLeave, Baton
  <2>4. Count(Arrived)' = Count(Arrived)
    BY <2>1, <2>2, CountMoves DEF Arrived
  <2>5. \A s \in Crew : pc'[s] \in {"nextIn", "lastIn"} => s = t
    BY <1>0, <2>1, <2>2 DEF Baton
  <2>6. Coming(k)'
    <3>1. shared.counter = Count(Arrived)
      BY <2>3 DEF Coming
    <3>2. l = "lastIn" => shared.counter = CrewSize
      BY <1>c, <1>n, <2>1, <3>1
    <3>3. \A s \in Crew : round'[s] = k /\ pc'[s] \in {"begin", "done", "in"} \cup Arrived
      BY <2>1, <2>2, <2>3 DEF Coming, Arrived
    <3>4. QED
      BY <2>1, <2>2, <2>3, <2>4, <2>5, <3>1, <3>2, <3>3 DEF Coming
  <2>7. SemBarInv'
    BY <1>0, <1>k, <2>1, <2>2, <2>3, <2>6, BatonMoves DEF SemBarInv, Baton, BarLoop
  <2>8. Meets!PromiseStep
    BY <1>0, <2>1, <2>2, Stays DEF Wt
  <2>9. QED
    BY <2>7, <2>8
<1>4. CASE Meets!PostIn(t)
  <2>1. /\ pc[t] \in {"nextIn", "lastIn"} /\ Meets!Goto(t, "departure")
        /\ shared' = IF pc[t] = "nextIn" THEN [shared EXCEPT !.arrival = shared.arrival + 1]
                     ELSE [shared EXCEPT !.departure = shared.departure + 1]
    BY <1>4 DEF Meets!PostIn, Meets!At
  <2>2. /\ pc' \in [Crew -> BatonLabels] /\ round' = round /\ pc'[t] = "departure" /\ Others
    <3>1. "departure" \in BatonLabels
      BY DEF BatonLabels
    <3>2. QED
      BY <1>0, <2>1, <3>1, GoesTo
  <2>3. Coming(k) /\ shared.departure = 0 /\ shared.arrival = 0
    BY <1>0, <1>k, <2>1 DEF Going, Coming, ToLeave, Baton
  <2>4. /\ Typed /\ shared'.counter = shared.counter
        /\ shared'.arrival = (IF pc[t] = "nextIn" THEN 1 ELSE 0)
        /\ shared'.departure = (IF pc[t] = "nextIn" THEN 0 ELSE 1)
    BY <1>0, <2>1, <2>3
  <2>5. \A s \in Crew : pc'[s] \notin Baton
    BY <1>0, <2>1, <2>2 DEF Baton
  <2>6. CASE pc[t] = "nextIn"
    <3>1. Count(Arrived)' = Count(Arrived)
      BY <2>2, <2>6, CountMoves DEF Arrived
    <3>2. \A s \in Crew : round'[s] = k /\ pc'[s] \in {"begin", "done", "in"} \cup Arrived
      BY <2>2, <2>3 DEF Coming, Arrived
    <3>3. shared.counter = Count(Arrived) /\ shared.counter < CrewSize
      BY <2>3, <2>6 DEF Coming
    <3>4. Coming(k)'
      BY <2>4, <2>5, <2>6, <3>1, <3>2, <3>3 DEF Coming, Baton
    <3>5. SemBarInv'
      BY <1>0, <1>k, <2>1, <2>2, <2>4, <2>5, <2>6, <3>4, BatonMoves DEF SemBarInv, Baton, BarLoop
    <3>6. QED
      BY <3>5, <1>0, <2>1, <2>2, Stays DEF Wt
  <2>7. CASE pc[t] = "lastIn"
    <3>1. shared.counter = Count(Arrived) /\ shared.counter = CrewSize
      BY <2>3, <2>7 DEF Coming
    <3>2. \A s \in Crew : pc[s] \in Arrived
      BY <1>c, <3>1
    <3>3. \A s \in Crew : pc'[s] = "departure" /\ round'[s] = k
      BY <2>2, <2>3, <2>5, <3>2 DEF Coming, Arrived, Baton
    <3>4. Count(ToLeave)' = CrewSize
      <4>1. \A s \in Crew : pc'[s] \in ToLeave
        BY <3>3 DEF ToLeave
      <4>2. Placed(Crew, pc', ToLeave) = Crew
        BY <4>1 DEF Placed
      <4>3. QED
        BY <4>2 DEF Count, CrewSize
    <3>5. Going(k)'
      BY <1>n, <2>4, <2>7, <3>1, <3>3, <3>4 DEF Going, ToLeave
    <3>6. SemBarInv'
      BY <1>0, <1>k, <2>1, <2>2, <2>4, <2>5, <2>7, <3>5, BatonMoves DEF SemBarInv, Baton, BarLoop
    <3>7. QED
      BY <3>6, <1>0, <2>1, <2>2, Stays DEF Wt
  <2>8. QED
    BY <2>1, <2>6, <2>7
<1>5. CASE Meets!WaitDeparture(t)
  <2>1. /\ pc[t] = "departure" /\ shared.departure = 1 /\ Meets!Goto(t, "out")
        /\ shared' = [shared EXCEPT !.departure = 0]
    BY <1>0, <1>5 DEF Meets!WaitDeparture, Meets!At
  <2>2. /\ pc' \in [Crew -> BatonLabels] /\ round' = round /\ pc'[t] = "out" /\ Others
    BY <1>0, <2>1, GoesTo DEF BatonLabels, Baton
  <2>3. Typed /\ shared'.departure = 0 /\ shared'.arrival = shared.arrival
              /\ shared'.counter = shared.counter
    BY <1>0, <2>1
  <2>4. Going(k) /\ shared.arrival = 0
    BY <1>k, <2>1 DEF Going, Coming
  <2>5. Count(ToLeave)' = Count(ToLeave)
    BY <2>1, <2>2, CountMoves DEF ToLeave
  <2>6. Going(k)'
    <3>1. \A s \in Crew : pc[s] \notin Baton
      BY <1>0, <2>1
    <3>2. \A s \in Crew : pc'[s] \notin {"nextOut", "lastOut"}
      BY <2>2, <3>1 DEF Baton
    <3>3. \A s \in Crew : \/ round'[s] = k /\ pc'[s] \in {"testOut", "nextOut", "lastOut"} \cup ToLeave
                          \/ round'[s] = k + 1 /\ pc'[s] \in {"begin", "done"}
      BY <2>1, <2>2, <2>4 DEF Going, ToLeave
    <3>4. shared.counter = Count(ToLeave)
      BY <2>4 DEF Going
    <3>5. QED
      BY <2>3, <2>4, <2>5, <3>2, <3>3, <3>4 DEF Going
  <2>7. SemBarInv'
    BY <1>0, <1>k, <2>1, <2>2, <2>3, <2>4, <2>6, BatonMoves DEF SemBarInv, Baton, BarLoop
  <2>8. Meets!PromiseStep
    BY <1>0, <2>1, <2>2, Stays DEF Wt
  <2>9. QED
    BY <2>7, <2>8
<1>6. CASE Meets!CountOut(t)
  <2>1. /\ pc[t] = "out" /\ Meets!Goto(t, "testOut")
        /\ shared' = [shared EXCEPT !.counter = shared.counter - 1]
    BY <1>0, <1>6 DEF Meets!CountOut, Meets!At
  <2>2. /\ pc' \in [Crew -> BatonLabels] /\ round' = round /\ pc'[t] = "testOut" /\ Others
    BY <1>0, <2>1, GoesTo DEF BatonLabels, Baton
  <2>3. Going(k) /\ shared.departure = 0 /\ shared.arrival = 0
    BY <1>0, <1>k, <2>1 DEF Going, Coming, Arrived, Baton
  <2>4. Count(ToLeave)' = Count(ToLeave) - 1 /\ Count(ToLeave) # 0
    BY <1>c, <2>1, <2>2, CountMoves DEF ToLeave
  <2>5. shared.counter = Count(ToLeave)
    BY <2>3 DEF Going
  <2>6. /\ Typed /\ shared'.arrival = shared.arrival /\ shared'.departure = shared.departure
        /\ shared'.counter = shared.counter - 1
    BY <1>0, <1>c, <2>1, <2>4, <2>5
  <2>7. \A s \in Crew : pc'[s] \notin {"nextOut", "lastOut"}
    BY <1>0, <2>1, <2>2 DEF Baton
  <2>8. Going(k)'
    <3>1. \A s \in Crew : \/ round'[s] = k /\ pc'[s] \in {"testOut", "nextOut", "lastOut"} \cup ToLeave
                          \/ round'[s] = k + 1 /\ pc'[s] \in {"begin", "done"}
      BY <2>1, <2>2, <2>3 DEF Going, ToLeave
    <3>2. QED
      BY <2>3, <2>4, <2>5, <2>6, <2>7, <3>1 DEF Going
  <2>9. SemBarInv'
    BY <1>0, <1>k, <2>1, <2>2, <2>3, <2>6, <2>8, BatonMoves DEF SemBarInv, Baton, BarLoop
  <2>10. Meets!PromiseStep
    BY <1>0, <2>1, <2>2, Stays DEF Wt
  <2>11. QED
    BY <2>9, <2>10
<1>7. CASE Meets!TestOut(t)
  <2>1. PICK l \in {"nextOut", "lastOut"} :
          /\ pc[t] = "testOut" /\ Meets!Goto(t, l) /\ shared' = shared
          /\ l = "nextOut" <=> shared.counter > 0
    BY <1>7 DEF Meets!TestOut, Meets!At
  <2>2. /\ pc' \in [Crew -> BatonLabels] /\ round' = round /\ pc'[t] = l /\ Others
    BY <1>0, <2>1, GoesTo DEF BatonLabels, Baton
  <2>3. Going(k) /\ shared.departure = 0 /\ shared.arrival = 0
    BY <1>0, <1>k, <2>1 DEF Going, Coming, Arrived, Baton
  <2>4. Count(ToLeave)' = Count(ToLeave)
    BY <2>1, <2>2, CountMoves DEF ToLeave
  <2>5. \A s \in Crew : pc'[s] \in {"nextOut", "lastOut"} => s = t
    BY <1>0, <2>1, <2>2 DEF Baton
  <2>6. Going(k)'
    <3>1. shared.counter = Count(ToLeave)
      BY <2>3 DEF Going
    <3>2. l = "lastOut" => shared.counter = 0
      BY <1>c, <2>1, <3>1
    <3>3. \A s \in Crew : \/ round'[s] = k /\ pc'[s] \in {"testOut", "nextOut", "lastOut"} \cup ToLeave
                          \/ round'[s] = k + 1 /\ pc'[s] \in {"begin", "done"}
      BY <2>1, <2>2, <2>3 DEF Going, ToLeave
    <3>4. QED
      BY <2>1, <2>2, <2>3, <2>4, <2>5, <3>1, <3>2, <3>3 DEF Going
  <2>7. SemBarInv'
    BY <1>0, <1>k, <2>1, <2>2, <2>3, <2>6, BatonMoves DEF SemBarInv, Baton, BarLoop
  <2>8. Meets!PromiseStep
    BY <1>0, <2>1, <2>2, Stays DEF Wt
  <2>9. QED
    BY <2>7, <2>8
<1>8. CASE Meets!PostOut(t)
  <2>1. /\ pc[t] \in {"nextOut", "lastOut"} /\ Meets!Return(t)
        /\ shared' = IF pc[t] = "nextOut" THEN [shared EXCEPT !.departure = shared.departure + 1]
                     ELSE [shared EXCEPT !.arrival = shared.arrival + 1]
    BY <1>8 DEF Meets!PostOut, Meets!At
  <2>2. /\ pc' \in [Crew -> BatonLabels] /\ round' \in [Crew -> Nat]
        /\ round' = [round EXCEPT ![t] = round[t] + 1]
        /\ pc'[t] \in {"begin", "done"} /\ round'[t] = round[t] + 1
        /\ \A u \in Crew \ {t} : pc'[u] = pc[u] /\ round'[u] = round[u]
    BY <1>0, <2>1, Returns DEF BatonLabels
  <2>3. Going(k) /\ shared.departure = 0 /\ shared.arrival = 0 /\ round[t] = k
    BY <1>0, <1>k, <2>1 DEF Going, Coming, Arrived, Baton
  <2>4. /\ Typed /\ shared'.counter = shared.counter
        /\ shared'.departure = (IF pc[t] = "nextOut" THEN 1 ELSE 0)
        /\ shared'.arrival = (IF pc[t] = "nextOut" THEN 0 ELSE 1)
    BY <1>0, <2>1, <2>3
  <2>5. \A s \in Crew : pc'[s] \notin Baton
    BY <1>0, <2>1, <2>2 DEF Baton
  <2>6. Count(ToLeave)' = Count(ToLeave) /\ shared.counter = Count(ToLeave)
    BY <2>1, <2>2, <2>3, CountMoves DEF ToLeave, Going
  <2>7. \A s \in Crew : \/ round'[s] = k /\ pc'[s] \in {"testOut", "nextOut", "lastOut"} \cup ToLeave
                        \/ round'[s] = k + 1 /\ pc'[s] \in {"begin", "done"}
    BY <2>2, <2>3 DEF Going
  <2>8. \E j \in Nat : Coming(j)' \/ Going(j)'
    <3>1. CASE pc[t] = "nextOut"
      <4>1. shared.counter > 0
        BY <2>3, <3>1 DEF Going
      <4>2. Going(k)'
        BY <2>4, <2>5, <2>6, <2>7, <3>1, <4>1 DEF Going, Baton
      <4>3. QED
        BY <4>2
    <3>2. CASE pc[t] = "lastOut"
      <4>1. shared.counter = 0
        BY <2>3, <3>2 DEF Going
      <4>2. \A s \in Crew : pc[s] \notin ToLeave
        BY <1>c, <2>6, <4>1
      <4>3. \A s \in Crew : pc'[s] \notin ToLeave
        BY <2>2, <4>2 DEF ToLeave
      <4>4. \A s \in Crew : round'[s] = k + 1 /\ pc'[s] \in {"begin", "done"}
        BY <2>5, <2>7, <4>3 DEF Baton
      <4>5. Count(Arrived)' = 0
        <5>1. \A s \in Crew : pc'[s] \notin Arrived
          BY <4>4 DEF Arrived
        <5>2. QED
          BY <5>1, NonePlaced, BlockingAssumption DEF Count
      <4>6. Coming(k + 1)'
        BY <1>n, <2>4, <3>2, <4>1, <4>4, <4>5 DEF Coming
      <4>7. k + 1 \in Nat
        OBVIOUS
      <4>8. QED
        BY <4>6, <4>7
    <3>3. QED
      BY <2>1, <3>1, <3>2
  <2>9. SemBarInv'
    BY <1>0, <2>1, <2>2, <2>4, <2>5, <2>8, BatonMoves DEF SemBarInv, Baton, BarLoop
  <2>10. \A s \in Crew : round[s] > round[t] \/ (round[s] = round[t] /\ Wt(s))
    BY <2>3 DEF Going, Wt, ToLeave
  <2>11. Meets!PromiseStep
    BY <1>0, <2>1, <2>2, <2>10, Exits DEF Wt, BarLoop
  <2>12. QED
    BY <2>9, <2>11
<1>9. QED
  BY <1>1, <1>2, <1>3, <1>4, <1>5, <1>6, <1>7, <1>8 DEF Meets!SemaphoreStep

\* The semaphores are one baton.
LEMMA SemBarPromises == SemBarInv => Meets!OneBaton
<1> SUFFICES ASSUME SemBarInv
             PROVE  shared.arrival + shared.departure +
                      Meets!Cardinality({t \in Meets!Members : pc[t] \notin {"begin", "departure", "done"}}) = 1
  BY DEF Meets!OneBaton
<1> DEFINE H == {t \in Crew : pc[t] \in Baton}
<1>1. /\ pc \in [Crew -> BatonLabels]
      /\ shared.arrival \in {0, 1} /\ shared.departure \in {0, 1}
      /\ shared.arrival = 0 \/ shared.departure = 0
  BY DEF SemBarInv, BarLoop, Coming, Going
<1>2. {t \in Meets!Members : pc[t] \notin {"begin", "departure", "done"}} = H
  BY <1>1 DEF Meets!Members, BatonLabels, Baton
<1>3. Meets!Cardinality(H) = Cardinality(H)
  BY Zenon DEF Meets!Cardinality, Cardinality
<1>4. CASE \E t \in Crew : pc[t] \in Baton
  <2>1. PICK t \in Crew : pc[t] \in Baton
    BY <1>4
  <2>2. H = {t}
    BY <2>1 DEF SemBarInv
  <2>3. Cardinality(H) = 1
    BY <2>2, FS_Singleton
  <2>4. shared.arrival = 0 /\ shared.departure = 0
    BY <1>4 DEF SemBarInv
  <2>5. QED
    BY <1>2, <1>3, <2>3, <2>4
<1>5. CASE ~ \E t \in Crew : pc[t] \in Baton
  <2>1. H = {}
    BY <1>5
  <2>2. Cardinality(H) = 0
    BY <2>1, FS_EmptySet
  <2>3. shared.arrival # 0 \/ shared.departure # 0
    BY <1>5 DEF SemBarInv
  <2>4. shared.arrival + shared.departure = 1
    BY <1>1, <2>3
  <2>5. QED
    BY <1>2, <1>3, <2>2, <2>4
<1>6. QED
  BY <1>4, <1>5

-----------------------------------------------------------------------------

\* monitors/barrier.c: k rounds are over; who was in the last one may still be
\* on its way out.
Dozing == {"asleep"}
MeetLabels == {"begin", "inside", "asleep", "woken", "unlock", "done"}
Rounded(k) ==
  \A t \in Crew : \/ round[t] = k /\ pc[t] \in {"begin", "inside", "asleep", "done"}
                  \/ round[t] + 1 = k /\ pc[t] \in {"woken", "unlock"}
MonBarInv ==
  /\ BarLoop(MeetLabels)
  /\ shared \in [mutex : BOOLEAN, arrived : Nat]
  /\ shared.arrived = Count(Dozing)
  /\ \E k \in Nat : Rounded(k)

\* monitors/barrier.c keeps its invariant and its promise.
LEMMA MonBarStep ==
  ASSUME MonBarInv, meeting = "monitor", NEW t \in Crew, Meets!MonitorStep(t)
  PROVE  MonBarInv' /\ Meets!PromiseStep
<1> DEFINE Typed == shared' \in [mutex : BOOLEAN, arrived : Nat]
           Others == \A u \in Crew \ {t} : pc'[u] = pc[u]
<1>0. /\ BarLoop(MeetLabels) /\ local' = local /\ pc \in [Crew -> MeetLabels]
      /\ round \in [Crew -> Nat] /\ local \in [Crew -> Nat]
      /\ shared \in [mutex : BOOLEAN, arrived : Nat]
      /\ shared.arrived = Count(Dozing)
  BY DEF MonBarInv, Meets!MonitorStep, BarLoop
<1>k. PICK k \in Nat : Rounded(k)
  BY DEF MonBarInv
<1>n. CrewSize \in Nat /\ CrewSize # 0 /\ Meets!NumThreads = CrewSize
  BY CrewFacts
\* A move that leaves the sleepers alone.
<1>a. ASSUME NEW l \in MeetLabels \ {"asleep"}, NEW b \in BOOLEAN, Meets!Goto(t, l),
             pc[t] # "asleep", shared' = [shared EXCEPT !.mutex = b],
             pc[t] \in {"begin", "woken"}, l = IF pc[t] = "begin" THEN "inside" ELSE "unlock"
      PROVE  MonBarInv' /\ Meets!PromiseStep
  <2>1. pc' \in [Crew -> MeetLabels] /\ round' = round /\ pc'[t] = l /\ Others
    BY <1>0, <1>a, GoesTo
  <2>2. Typed /\ shared'.arrived = shared.arrived
    BY <1>0, <1>a
  <2>3. Count(Dozing)' = Count(Dozing)
    BY <1>a, <2>1, CountMoves DEF Dozing
  <2>4. Rounded(k)'
    BY <1>k, <1>a, <2>1 DEF Rounded
  <2>5. MonBarInv'
    BY <1>0, <2>1, <2>2, <2>3, <2>4 DEF MonBarInv, BarLoop
  <2>6. CASE pc[t] = "begin"
    <3>1. ~ Wt(t) /\ Wt(t)' /\ \A u \in Crew \ {t} : Wt(u)' <=> Wt(u)
      BY <1>a, <2>1, <2>6 DEF Wt
    <3>2. QED
      BY <1>0, <2>1, <2>5, <3>1, Enters
  <2>7. CASE pc[t] = "woken"
    <3>1. \A u \in Crew : Wt(u)' <=> Wt(u)
      BY <1>a, <2>1, <2>7 DEF Wt
    <3>2. QED
      BY <1>0, <2>1, <2>5, <3>1, Stays
  <2>8. QED
    BY <1>a, <2>6, <2>7
<1>1. CASE Meets!Lock(t)
  BY <1>1, <1>a DEF Meets!Lock, Meets!At, MeetLabels
<1>2. CASE Meets!Relock(t)
  BY <1>2, <1>a DEF Meets!Relock, Meets!At, MeetLabels
<1>3. CASE Meets!Broadcast(t)
  <2>1. /\ pc[t] = "inside" /\ shared.arrived + 1 = CrewSize /\ round' = round
        /\ shared' = [shared EXCEPT !.arrived = 0]
        /\ pc' = [s \in Crew |-> IF s = t THEN "unlock"
                                 ELSE IF pc[s] = "asleep" THEN "woken" ELSE pc[s]]
    BY <1>0, <1>3, <1>n DEF Meets!Broadcast, Meets!At, Meets!WakeAndGoto, Meets!Members
  <2>2. \A s \in Crew \ {t} : pc[s] = "asleep"
    <3>1. PICK p : /\ \A u \in Crew \ {t} : p[u] = pc[u]
                   /\ p[t] = "asleep"
      <4>1. [pc EXCEPT ![t] = "asleep"][t] = "asleep"
        BY <1>0
      <4>2. \A u \in Crew \ {t} : [pc EXCEPT ![t] = "asleep"][u] = pc[u]
        BY <1>0
      <4>3. QED
        BY <4>1, <4>2
    <3>2. Cardinality(Placed(Crew, p, Dozing)) = Count(Dozing) + 1
      <4>1. pc[t] \notin Dozing /\ p[t] \in Dozing
        BY <2>1, <3>1 DEF Dozing
      <4>2. QED
        BY <3>1, <4>1, PlacedMoves, BlockingAssumption DEF Count
    <3>3. Placed(Crew, p, Dozing) \in SUBSET Crew
      BY DEF Placed
    <3>4. Cardinality(Placed(Crew, p, Dozing)) = Cardinality(Crew)
      BY <1>0, <2>1, <3>2 DEF CrewSize
    <3>5. Placed(Crew, p, Dozing) = Crew
      BY <3>3, <3>4, BlockingAssumption, FS_Subset
    <3>6. QED
      BY <3>1, <3>5 DEF Placed, Dozing
  <2>3. \A s \in Crew : pc'[s] \in {"woken", "unlock"} /\ round[s] = k
    BY <1>k, <2>1, <2>2 DEF Rounded
  <2>4. pc' \in [Crew -> MeetLabels]
    BY <2>1, <2>3 DEF MeetLabels
  <2>5. Typed /\ shared'.arrived = 0
    BY <1>0, <2>1
  <2>6. Count(Dozing)' = 0
    <3>1. \A s \in Crew : pc'[s] \notin Dozing
      BY <2>3 DEF Dozing
    <3>2. QED
      BY <3>1, NonePlaced, BlockingAssumption DEF Count
  <2>7. Rounded(k + 1)' /\ k + 1 \in Nat
    BY <2>1, <2>3 DEF Rounded
  <2>8. MonBarInv'
    BY <1>0, <2>1, <2>4, <2>5, <2>6, <2>7 DEF MonBarInv, BarLoop
  <2>9. \A u \in Crew : Wt(u)' <=> Wt(u)
    BY <2>1, <2>2, <2>3 DEF Wt
  <2>10. QED
    BY <1>0, <2>1, <2>4, <2>8, <2>9, Stays
<1>4. CASE Meets!Wait(t)
  <2>1. /\ pc[t] = "inside" /\ Meets!Goto(t, "asleep")
        /\ shared' = [shared EXCEPT !.arrived = shared.arrived + 1, !.mutex = FALSE]
    BY <1>4 DEF Meets!Wait, Meets!At
  <2>2. pc' \in [Crew -> MeetLabels] /\ round' = round /\ pc'[t] = "asleep" /\ Others
    <3>1. "asleep" \in MeetLabels
      BY DEF MeetLabels
    <3>2. QED
      BY <1>0, <2>1, <3>1, GoesTo
  <2>3. Typed /\ shared'.arrived = shared.arrived + 1
    <3>1. shared.arrived + 1 \in Nat /\ FALSE \in BOOLEAN
      BY <1>0
    <3>2. shared'.arrived = shared.arrived + 1 /\ shared'.mutex = FALSE
      BY <1>0, <2>1
    <3>3. shared' = [mutex |-> FALSE, arrived |-> shared.arrived + 1]
      BY <1>0, <2>1
    <3>4. QED
      BY <3>1, <3>2, <3>3
  <2>4. Count(Dozing)' = Count(Dozing) + 1
    BY <2>1, <2>2, CountMoves DEF Dozing
  <2>5. Rounded(k)'
    BY <1>k, <2>1, <2>2 DEF Rounded
  <2>6. MonBarInv'
    BY <1>0, <2>2, <2>3, <2>4, <2>5 DEF MonBarInv, BarLoop
  <2>7. \A u \in Crew : Wt(u)' <=> Wt(u)
    BY <2>1, <2>2 DEF Wt
  <2>8. QED
    BY <1>0, <2>2, <2>6, <2>7, Stays
<1>5. CASE Meets!Unlock(t)
  <2>1. pc[t] = "unlock" /\ Meets!Return(t) /\ shared' = [shared EXCEPT !.mutex = FALSE]
    BY <1>5 DEF Meets!Unlock, Meets!At
  <2>2. /\ pc' \in [Crew -> MeetLabels] /\ round' \in [Crew -> Nat]
        /\ round' = [round EXCEPT ![t] = round[t] + 1]
        /\ pc'[t] \in {"begin", "done"} /\ round'[t] = round[t] + 1
        /\ \A u \in Crew \ {t} : pc'[u] = pc[u] /\ round'[u] = round[u]
    BY <1>0, <2>1, Returns DEF MeetLabels
  <2>3. Typed /\ shared'.arrived = shared.arrived
    BY <1>0, <2>1
  <2>4. Count(Dozing)' = Count(Dozing)
    BY <2>1, <2>2, CountMoves DEF Dozing
  <2>5. Rounded(k)' /\ round[t] + 1 = k
    BY <1>k, <2>1, <2>2 DEF Rounded
  <2>6. MonBarInv'
    BY <1>0, <2>2, <2>3, <2>4, <2>5 DEF MonBarInv, BarLoop
  <2>7. \A s \in Crew : round[s] > round[t] \/ (round[s] = round[t] /\ Wt(s))
    BY <1>0, <1>k, <2>5 DEF Rounded, Wt
  <2>8. Wt(t) /\ ~ Wt(t)' /\ \A u \in Crew \ {t} : Wt(u)' <=> Wt(u)
    BY <2>1, <2>2 DEF Wt
  <2>9. QED
    BY <1>0, <2>2, <2>6, <2>7, <2>8, Exits
<1>6. QED
  BY <1>1, <1>2, <1>3, <1>4, <1>5 DEF Meets!MonitorStep

-----------------------------------------------------------------------------

\* channels/barrier.go: the arrivals of round k, or its departures.
Stay == {"departure"}
ChanLabels == {"begin", "done", "arrived", "departure", "departed"}
Taking == {"arrived", "departed"}
ChanComing(k) ==
  /\ \A t \in Crew : round[t] = k /\ pc[t] \in {"begin", "done", "arrived", "departure"}
  /\ shared.departure = 0
  /\ \A t \in Crew : pc[t] = "arrived" => shared.arrival = 0 /\ local[t] = CrewSize - Count(Stay)
  /\ shared.arrival # 0 => shared.arrival = CrewSize - Count(Stay)
ChanGoing(k) ==
  /\ \A t \in Crew : \/ round[t] = k /\ pc[t] \in {"departure", "departed"}
                     \/ round[t] = k + 1 /\ pc[t] \in {"begin", "done"}
  /\ shared.arrival = 0
  /\ \A t \in Crew : pc[t] = "departed" => shared.departure = 0 /\ local[t] = Count(Stay) + 1
  /\ shared.departure # 0 => shared.departure = Count(Stay)
ChanBarInv ==
  /\ BarLoop(ChanLabels)
  /\ shared \in [arrival : Nat, departure : Nat]
  /\ \A s, t \in Crew : pc[s] \in Taking /\ pc[t] \in Taking => s = t
  /\ \A t \in Crew : pc[t] \in Taking => shared.arrival = 0 /\ shared.departure = 0
  /\ \E k \in Nat : ChanComing(k) \/ ChanGoing(k)

\* channels/barrier.go keeps its invariant and its promise.
LEMMA ChanBarStep ==
  ASSUME ChanBarInv, meeting = "channel", NEW t \in Crew, Meets!ChannelStep(t)
  PROVE  ChanBarInv' /\ Meets!PromiseStep
<1> DEFINE Typed == shared' \in [arrival : Nat, departure : Nat]
           Others == \A u \in Crew \ {t} : pc'[u] = pc[u]
<1>0. /\ BarLoop(ChanLabels) /\ pc \in [Crew -> ChanLabels]
      /\ round \in [Crew -> Nat] /\ local \in [Crew -> Nat]
      /\ shared \in [arrival : Nat, departure : Nat]
      /\ \A s \in Crew : pc[s] \in Taking /\ pc[t] \in Taking => s = t
      /\ \A s \in Crew : pc[s] \in Taking => shared.arrival = 0 /\ shared.departure = 0
  BY DEF ChanBarInv, BarLoop
<1>k. PICK k \in Nat : ChanComing(k) \/ ChanGoing(k)
  BY DEF ChanBarInv
<1>n. CrewSize \in Nat /\ CrewSize # 0 /\ Meets!NumThreads = CrewSize
  BY CrewFacts
<1>c. /\ Count(Stay) \in Nat /\ Count(Stay) <= CrewSize
      /\ Count(Stay) = CrewSize <=> \A s \in Crew : pc[s] \in Stay
      /\ Count(Stay) = 0 <=> \A s \in Crew : pc[s] \notin Stay
  BY CountFacts
<1>1. CASE Meets!GetArrival(t)
  <2>1. /\ pc[t] = "begin" /\ shared.arrival # 0 /\ Meets!Goto(t, "arrived")
        /\ local' = [local EXCEPT ![t] = shared.arrival]
        /\ shared' = [shared EXCEPT !.arrival = 0]
    BY <1>1 DEF Meets!GetArrival, Meets!At, Meets!Empty
  <2>2. /\ pc' \in [Crew -> ChanLabels] /\ round' = round /\ pc'[t] = "arrived" /\ Others
    <3>1. "arrived" \in ChanLabels
      BY DEF ChanLabels
    <3>2. QED
      BY <1>0, <2>1, <3>1, GoesTo
  <2>3. /\ Typed /\ shared'.arrival = 0 /\ shared'.departure = shared.departure
        /\ local' \in [Crew -> Nat] /\ local'[t] = shared.arrival
    BY <1>0, <2>1
  <2>4. ChanComing(k) /\ shared.departure = 0
    BY <1>k, <2>1 DEF ChanGoing, ChanComing
  <2>5. Count(Stay)' = Count(Stay)
    BY <2>1, <2>2, CountMoves DEF Stay
  <2>6. \A s \in Crew : pc'[s] \in Taking => s = t
    BY <1>0, <2>1, <2>2
  <2>7. ChanComing(k)'
    <3>1. \A s \in Crew : round'[s] = k /\ pc'[s] \in {"begin", "done", "arrived", "departure"}
      BY <2>2, <2>4 DEF ChanComing
    <3>2. local'[t] = CrewSize - Count(Stay)
      BY <2>1, <2>3, <2>4 DEF ChanComing
    <3>3. QED
      BY <2>3, <2>4, <2>5, <2>6, <3>1, <3>2 DEF ChanComing, Taking
  <2>8. ChanBarInv'
    BY <1>0, <2>2, <2>3, <2>4, <2>6, <2>7 DEF ChanBarInv, BarLoop
  <2>9. ~ Wt(t) /\ Wt(t)' /\ \A u \in Crew \ {t} : Wt(u)' <=> Wt(u)
    BY <2>1, <2>2 DEF Wt
  <2>10. QED
    BY <1>0, <2>2, <2>8, <2>9, Enters
<1>2. CASE Meets!PutArrival(t)
  <2>1. /\ pc[t] = "arrived" /\ Meets!Goto(t, "departure") /\ local' = local
        /\ \/ local[t] > 1 /\ shared' = [shared EXCEPT !.arrival = local[t] - 1]
           \/ local[t] <= 1 /\ shared' = [shared EXCEPT !.departure = CrewSize]
    BY <1>2, <1>n DEF Meets!PutArrival, Meets!At
  <2>2. /\ pc' \in [Crew -> ChanLabels] /\ round' = round /\ pc'[t] = "departure" /\ Others
    <3>1. "departure" \in ChanLabels
      BY DEF ChanLabels
    <3>2. QED
      BY <1>0, <2>1, <3>1, GoesTo
  <2>3. /\ ChanComing(k) /\ shared.departure = 0 /\ shared.arrival = 0
        /\ local[t] = CrewSize - Count(Stay) /\ local[t] \in Nat
    BY <1>0, <1>k, <2>1 DEF ChanGoing, ChanComing, Taking
  <2>4. Count(Stay)' = Count(Stay) + 1
    BY <2>1, <2>2, CountMoves DEF Stay
  <2>5. \A s \in Crew : pc'[s] \notin Taking
    BY <1>0, <2>1, <2>2 DEF Taking
  <2>6. \A s \in Crew : round'[s] = k /\ pc'[s] \in {"begin", "done", "departure"}
    <3>1. \A s \in Crew : pc[s] \in {"begin", "done", "arrived", "departure"} /\ round[s] = k
      BY <2>3 DEF ChanComing
    <3>2. QED
      BY <2>2, <2>5, <3>1 DEF Taking
  <2>7. \A u \in Crew : Wt(u)' <=> Wt(u)
    BY <2>1, <2>2 DEF Wt
  <2>8. Meets!PromiseStep
    BY <1>0, <2>2, <2>7, Stays
  <2>9. CASE local[t] > 1 /\ shared' = [shared EXCEPT !.arrival = local[t] - 1]
    <3>1. local[t] - 1 \in Nat /\ local[t] - 1 = CrewSize - (Count(Stay) + 1)
      BY <1>c, <1>n, <2>3, <2>9
    <3>2. Typed /\ shared'.arrival = local[t] - 1 /\ shared'.departure = shared.departure
      BY <1>0, <2>9, <3>1
    <3>3. shared'.arrival = CrewSize - Count(Stay)'
      BY <2>4, <3>1, <3>2
    <3>4. ChanComing(k)'
      BY <2>3, <2>5, <2>6, <3>2, <3>3 DEF ChanComing, Taking
    <3>5. ChanBarInv'
      BY <1>0, <2>1, <2>2, <2>5, <3>2, <3>4 DEF ChanBarInv, BarLoop
    <3>6. QED
      BY <2>8, <3>5
  <2>10. CASE local[t] <= 1 /\ shared' = [shared EXCEPT !.departure = CrewSize]
    <3>1. Typed /\ shared'.arrival = 0 /\ shared'.departure = CrewSize
      BY <1>0, <1>n, <2>3, <2>10
    <3>2. Count(Stay)' = CrewSize
      <4>1. CrewSize <= Count(Stay) + 1
        BY <1>c, <1>n, <2>3, <2>10
      <4>2. Count(Stay)' <= CrewSize
        <5>1. Placed(Crew, pc', Stay) \in SUBSET Crew
          BY DEF Placed
        <5>2. QED
          BY <5>1, BlockingAssumption, FS_Subset DEF Count, CrewSize
      <4>3. QED
        BY <1>c, <1>n, <2>4, <4>1, <4>2
    <3>3. \A s \in Crew : pc'[s] = "departure"
      <4>1. Placed(Crew, pc', Stay) \in SUBSET Crew
        BY DEF Placed
      <4>2. Cardinality(Placed(Crew, pc', Stay)) = Cardinality(Crew)
        BY <3>2 DEF Count, CrewSize
      <4>3. Placed(Crew, pc', Stay) = Crew
        BY <4>1, <4>2, BlockingAssumption, FS_Subset
      <4>4. QED
        BY <4>3 DEF Placed, Stay
    <3>4. ChanGoing(k)'
      BY <2>6, <3>1, <3>2, <3>3 DEF ChanGoing
    <3>5. ChanBarInv'
      BY <1>0, <2>1, <2>2, <2>5, <3>1, <3>4 DEF ChanBarInv, BarLoop
    <3>6. QED
      BY <2>8, <3>5
  <2>11. QED
    BY <2>1, <2>9, <2>10
<1>3. CASE Meets!GetDeparture(t)
  <2>1. /\ pc[t] = "departure" /\ shared.departure # 0 /\ Meets!Goto(t, "departed")
        /\ local' = [local EXCEPT ![t] = shared.departure]
        /\ shared' = [shared EXCEPT !.departure = 0]
    BY <1>3 DEF Meets!GetDeparture, Meets!At, Meets!Empty
  <2>2. /\ pc' \in [Crew -> ChanLabels] /\ round' = round /\ pc'[t] = "departed" /\ Others
    <3>1. "departed" \in ChanLabels
      BY DEF ChanLabels
    <3>2. QED
      BY <1>0, <2>1, <3>1, GoesTo
  <2>3. /\ Typed /\ shared'.arrival = shared.arrival /\ shared'.departure = 0
        /\ local' \in [Crew -> Nat] /\ local'[t] = shared.departure
    BY <1>0, <2>1
  <2>4. ChanGoing(k) /\ shared.arrival = 0 /\ shared.departure = Count(Stay)
    BY <1>k, <2>1 DEF ChanGoing, ChanComing
  <2>5. Count(Stay)' = Count(Stay) - 1
    BY <2>1, <2>2, CountMoves DEF Stay
  <2>6. \A s \in Crew : pc'[s] \in Taking => s = t
    BY <1>0, <2>1, <2>2
  <2>7. ChanGoing(k)'
    <3>1. \A s \in Crew : \/ round'[s] = k /\ pc'[s] \in {"departure", "departed"}
                          \/ round'[s] = k + 1 /\ pc'[s] \in {"begin", "done"}
      BY <2>1, <2>2, <2>4 DEF ChanGoing
    <3>2. local'[t] = Count(Stay)' + 1
      BY <1>c, <2>3, <2>4, <2>5
    <3>3. QED
      BY <2>3, <2>4, <2>6, <3>1, <3>2 DEF ChanGoing, Taking
  <2>8. ChanBarInv'
    BY <1>0, <2>2, <2>3, <2>4, <2>6, <2>7 DEF ChanBarInv, BarLoop
  <2>9. \A u \in Crew : Wt(u)' <=> Wt(u)
    BY <2>1, <2>2 DEF Wt
  <2>10. QED
    BY <1>0, <2>2, <2>8, <2>9, Stays
<1>4. CASE Meets!PutDeparture(t)
  <2>1. /\ pc[t] = "departed" /\ Meets!Return(t) /\ local' = local
        /\ \/ local[t] > 1 /\ shared' = [shared EXCEPT !.departure = local[t] - 1]
           \/ local[t] <= 1 /\ shared' = [shared EXCEPT !.arrival = CrewSize]
    BY <1>4, <1>n DEF Meets!PutDeparture, Meets!At
  <2>2. /\ pc' \in [Crew -> ChanLabels] /\ round' \in [Crew -> Nat]
        /\ round' = [round EXCEPT ![t] = round[t] + 1]
        /\ pc'[t] \in {"begin", "done"} /\ round'[t] = round[t] + 1
        /\ \A u \in Crew \ {t} : pc'[u] = pc[u] /\ round'[u] = round[u]
    <3>1. {"begin", "done"} \subseteq ChanLabels
      BY DEF ChanLabels
    <3>2. QED
      BY <1>0, <2>1, <3>1, Returns
  <2>3. /\ ChanGoing(k) /\ shared.departure = 0 /\ shared.arrival = 0 /\ round[t] = k
        /\ local[t] = Count(Stay) + 1
    BY <1>0, <1>k, <2>1 DEF ChanGoing, ChanComing, Taking
  <2>4. Count(Stay)' = Count(Stay)
    BY <2>1, <2>2, CountMoves DEF Stay
  <2>5. \A s \in Crew : pc'[s] \notin Taking
    BY <1>0, <2>1, <2>2 DEF Taking
  <2>6. \A s \in Crew : \/ round'[s] = k /\ pc'[s] = "departure"
                        \/ round'[s] = k + 1 /\ pc'[s] \in {"begin", "done"}
    BY <2>2, <2>3, <2>5 DEF ChanGoing, Taking
  <2>7. \A s \in Crew : round[s] > round[t] \/ (round[s] = round[t] /\ Wt(s))
    BY <2>3 DEF ChanGoing, Wt
  <2>8. Wt(t) /\ ~ Wt(t)' /\ \A u \in Crew \ {t} : Wt(u)' <=> Wt(u)
    BY <2>1, <2>2 DEF Wt
  <2>9. Meets!PromiseStep
    BY <1>0, <2>2, <2>7, <2>8, Exits
  <2>10. CASE local[t] > 1 /\ shared' = [shared EXCEPT !.departure = local[t] - 1]
    <3>1. local[t] - 1 = Count(Stay)
      BY <1>c, <2>3
    <3>2. Typed /\ shared'.departure = Count(Stay)' /\ shared'.arrival = 0
      BY <1>0, <1>c, <2>3, <2>4, <2>10, <3>1
    <3>3. ChanGoing(k)'
      BY <2>5, <2>6, <3>2 DEF ChanGoing, Taking
    <3>4. ChanBarInv'
      BY <1>0, <2>1, <2>2, <2>5, <3>2, <3>3 DEF ChanBarInv, BarLoop
    <3>5. QED
      BY <2>9, <3>4
  <2>11. CASE local[t] <= 1 /\ shared' = [shared EXCEPT !.arrival = CrewSize]
    <3>1. Count(Stay) = 0
      BY <1>c, <2>3, <2>11
    <3>2. \A s \in Crew : pc[s] # "departure"
      BY <1>c, <3>1 DEF Stay
    <3>3. \A s \in Crew : round'[s] = k + 1 /\ pc'[s] \in {"begin", "done"}
      BY <2>2, <2>6, <3>2
    <3>4. Typed /\ shared'.arrival = CrewSize /\ shared'.departure = 0
      BY <1>0, <1>n, <2>3, <2>11
    <3>5. CrewSize = CrewSize - Count(Stay)'
      BY <1>n, <2>4, <3>1
    <3>6. ChanComing(k + 1)' /\ k + 1 \in Nat
      BY <3>3, <3>4, <3>5 DEF ChanComing
    <3>7. ChanBarInv'
      BY <1>0, <2>1, <2>2, <2>5, <3>4, <3>6 DEF ChanBarInv, BarLoop
    <3>8. QED
      BY <2>9, <3>7
  <2>12. QED
    BY <2>1, <2>10, <2>11
<1>5. QED
  BY <1>1, <1>2, <1>3, <1>4 DEF Meets!ChannelStep

-----------------------------------------------------------------------------

\* channels/barrier_2p_async.go and barrier_2p_sync.go: what each goroutine has
\* sent is what the other one has received and what is in the channel.
PairLabels == {"begin", "receive", "done"}
PairLoop == pc \in [{A, B} -> PairLabels] /\ round \in [{A, B} -> Nat]
Sent(t) == IF pc[t] = "receive" THEN round[t] + 1 ELSE round[t]
AsyncInv == /\ PairLoop /\ shared \in [{A, B} -> {0, 1}]
            /\ shared[A] + round[B] = Sent(A)
            /\ shared[B] + round[A] = Sent(B)
SyncInv == PairLoop /\ pc[A] = pc[B] /\ round[A] = round[B]

\* barrier_2p_async.go keeps its invariant and its promise.
LEMMA AsyncStep ==
  ASSUME AsyncInv, meeting = "async", NEW t \in {A, B}, Meets!SendPair(t) \/ Meets!ReceivePair(t)
  PROVE  AsyncInv' /\ Meets!PromiseStep
<1> DEFINE q == Meets!Peer(t)
<1>0. /\ q \in {A, B} /\ {A, B} = {t, q} /\ t # q /\ A # B
      /\ pc \in [{A, B} -> PairLabels] /\ round \in [{A, B} -> Nat]
      /\ shared \in [{A, B} -> {0, 1}]
  BY BlockingAssumption DEF Meets!Peer, AsyncInv, PairLoop
<1>p. shared[t] + round[q] = Sent(t) /\ shared[q] + round[t] = Sent(q)
  BY BlockingAssumption DEF Meets!Peer, AsyncInv
\* It is enough to show it of the two, whichever is A.
<1>i. ASSUME PairLoop', shared' \in [{A, B} -> {0, 1}],
             shared'[t] + round'[q] = Sent(t)', shared'[q] + round'[t] = Sent(q)'
      PROVE  AsyncInv'
  BY <1>0, <1>i DEF AsyncInv
<1>w. /\ Meets!Waiting = {u \in {A, B} : Wt(u)}
      /\ pc' \in [{A, B} -> PairLabels] => Meets!Waiting' = {u \in {A, B} : Wt(u)'}
  BY <1>0 DEF Meets!Waiting, Meets!Members, Wt
<1> HIDE DEF q
<1>1. CASE Meets!SendPair(t)
  <2>1. /\ pc[t] = "begin" /\ shared[t] = 0 /\ shared' = [shared EXCEPT ![t] = 1]
        /\ pc' = [pc EXCEPT ![t] = "receive"] /\ round' = round
    BY <1>1 DEF Meets!SendPair, Meets!At, Meets!Goto, Meets!Empty
  <2>2. /\ pc' \in [{A, B} -> PairLabels] /\ pc'[t] = "receive" /\ pc'[q] = pc[q]
        /\ shared' \in [{A, B} -> {0, 1}] /\ shared'[t] = 1 /\ shared'[q] = shared[q]
    BY <1>0, <2>1 DEF PairLabels
  <2>3. AsyncInv'
    BY <1>0, <1>p, <1>i, <2>1, <2>2 DEF PairLoop, Sent
  <2>4. Meets!Waiting' = Meets!Waiting \cup {t} /\ t \notin Meets!Waiting
    BY <1>0, <1>w, <2>1, <2>2 DEF Wt
  <2>5. Meets!Pair!Arrive({t}) /\ {t} \in SUBSET {A, B}
    BY <2>1, <2>4 DEF Meets!Pair!Arrive
  <2>6. Meets!PromiseStep
    BY <2>5 DEF Meets!PromiseStep, Meets!Pair!Next
  <2>7. QED
    BY <2>3, <2>6
<1>2. CASE Meets!ReceivePair(t)
  <2>1. /\ pc[t] = "receive" /\ shared[q] # 0 /\ shared' = [shared EXCEPT ![q] = 0]
        /\ pc' = [pc EXCEPT ![t] = Meets!After(t)]
        /\ round' = [round EXCEPT ![t] = round[t] + 1]
        /\ Meets!After(t) \in {"begin", "done"}
    BY <1>2 DEF Meets!ReceivePair, Meets!At, Meets!Return, Meets!Empty, Meets!After, q
  <2>2. /\ pc' \in [{A, B} -> PairLabels] /\ pc'[t] \in {"begin", "done"} /\ pc'[q] = pc[q]
        /\ shared' \in [{A, B} -> {0, 1}] /\ shared'[q] = 0 /\ shared'[t] = shared[t]
        /\ round' \in [{A, B} -> Nat] /\ round'[t] = round[t] + 1 /\ round'[q] = round[q]
    BY <1>0, <2>1 DEF PairLabels
  <2>3. shared[q] = 1
    BY <1>0, <2>1
  <2>4. AsyncInv'
    BY <1>0, <1>p, <1>i, <2>1, <2>2, <2>3 DEF PairLoop, Sent
  <2>5. Meets!Waiting' = Meets!Waiting \ {t} /\ {t} \subseteq Meets!Waiting
    BY <1>0, <1>w, <2>1, <2>2 DEF Wt
  <2>6. round[q] > round[t] \/ (round[q] = round[t] /\ q \in Meets!Waiting)
    <3>1. round[t] + 1 = Sent(q) /\ round[q] \in Nat /\ round[t] \in Nat
      BY <1>0, <1>p, <2>3
    <3>2. pc[q] = "receive" => q \in Meets!Waiting
      BY <1>0, <1>w DEF Wt
    <3>3. QED
      BY <3>1, <3>2 DEF Sent
  <2>7. \A s \in {A, B} : Meets!Pair!Reached(s, round[t])
    BY <1>0, <2>5, <2>6 DEF Meets!Pair!Reached
  <2>8. round' = [u \in {A, B} |-> IF u \in {t} THEN round[u] + 1 ELSE round[u]]
    BY <1>0, <2>1
  <2>9. Meets!Pair!Depart({t}) /\ {t} \in SUBSET {A, B}
    BY <2>5, <2>7, <2>8 DEF Meets!Pair!Depart
  <2>10. Meets!PromiseStep
    BY <2>9 DEF Meets!PromiseStep, Meets!Pair!Next
  <2>11. QED
    BY <2>4, <2>10
<1>3. QED
  BY <1>1, <1>2

\* barrier_2p_sync.go keeps its invariant and its promise.
LEMMA SyncStep ==
  ASSUME SyncInv, meeting = "sync", NEW t, Meets!MeetA(t) \/ Meets!MeetB(t)
  PROVE  SyncInv' /\ Meets!PromiseStep
<1>0. /\ pc \in [{A, B} -> PairLabels] /\ round \in [{A, B} -> Nat]
      /\ pc[A] = pc[B] /\ round[A] = round[B]
  BY DEF SyncInv, PairLoop
<1>w. /\ Meets!Waiting = {u \in {A, B} : Wt(u)}
      /\ pc' \in [{A, B} -> PairLabels] => Meets!Waiting' = {u \in {A, B} : Wt(u)'}
      /\ Meets!Members = {A, B}
  BY <1>0 DEF Meets!Waiting, Meets!Members, Wt
<1>1. CASE Meets!MeetA(t)
  <2>1. /\ pc[A] = "begin" /\ pc[B] = "begin" /\ round' = round
        /\ pc' = [s \in {A, B} |-> "receive"]
    BY <1>1, <1>w DEF Meets!MeetA, Meets!At
  <2>2. pc' \in [{A, B} -> PairLabels] /\ pc'[A] = "receive" /\ pc'[B] = "receive"
    BY <2>1 DEF PairLabels
  <2>3. SyncInv'
    BY <1>0, <2>1, <2>2 DEF SyncInv, PairLoop
  <2>4. Meets!Waiting = {} /\ Meets!Waiting' = {A, B}
    BY <1>w, <2>1, <2>2 DEF Wt
  <2>5. Meets!Pair!Arrive({A, B}) /\ {A, B} \in SUBSET {A, B}
    BY <2>1, <2>4 DEF Meets!Pair!Arrive
  <2>6. QED
    BY <2>3, <2>5 DEF Meets!PromiseStep, Meets!Pair!Next
<1>2. CASE Meets!MeetB(t)
  <2>1. /\ pc[A] = "receive" /\ pc[B] = "receive"
        /\ round' = [s \in {A, B} |-> round[s] + 1]
        /\ pc' = [s \in {A, B} |-> Meets!After(s)]
    BY <1>2, <1>w DEF Meets!MeetB, Meets!At
  <2>2. /\ pc'[A] = Meets!After(A) /\ pc'[B] = Meets!After(B)
        /\ Meets!After(A) = Meets!After(B) /\ Meets!After(A) \in {"begin", "done"}
    BY <1>0, <2>1 DEF Meets!After
  <2>3. /\ pc' \in [{A, B} -> PairLabels] /\ round' \in [{A, B} -> Nat]
        /\ round'[A] = round'[B]
    BY <1>0, <2>1, <2>2 DEF PairLabels
  <2>4. SyncInv'
    BY <2>2, <2>3 DEF SyncInv, PairLoop
  <2>5. Meets!Waiting = {A, B} /\ Meets!Waiting' = {}
    BY <1>w, <2>1, <2>2, <2>3 DEF Wt
  <2>6. \A u, s \in {A, B} : Meets!Pair!Reached(s, round[u])
    BY <1>0, <2>5 DEF Meets!Pair!Reached
  <2>7. round' = [u \in {A, B} |-> IF u \in {A, B} THEN round[u] + 1 ELSE round[u]]
    BY <2>1
  <2>8. Meets!Pair!Depart({A, B}) /\ {A, B} \in SUBSET {A, B}
    BY <2>5, <2>6, <2>7 DEF Meets!Pair!Depart
  <2>9. QED
    BY <2>4, <2>8 DEF Meets!PromiseStep, Meets!Pair!Next
<1>3. QED
  BY <1>1, <1>2

-----------------------------------------------------------------------------

\* futex/barrier.c: everybody has returned phase times, or is on its way out of
\* the phase before.
Held == {"unlock", "last", "wake", "release"}
Sleepy == {"wait", "asleep", "test"}
FutexLabels == {"begin", "done"} \cup Held \cup Sleepy
Here(t) == \/ pc[t] = "last"
           \/ pc[t] \in Sleepy \cup {"unlock"} /\ local[t] = shared.phase
InPhase == {t \in Crew : Here(t)}
Placing(t) ==
  \/ pc[t] \in {"begin", "done", "last"} /\ round[t] = shared.phase
  \/ pc[t] \in Sleepy \cup {"unlock"} /\ round[t] = shared.phase /\ local[t] = shared.phase
  \/ pc[t] \in Sleepy /\ round[t] + 1 = shared.phase /\ local[t] = round[t]
  \/ pc[t] \in {"wake", "release"} /\ round[t] + 1 = shared.phase
FutexBarInv ==
  /\ BarLoop(FutexLabels)
  /\ shared \in [lock : BOOLEAN, phase : Nat, to_arrive : Nat]
  /\ \A s, t \in Crew : pc[s] \in Held /\ pc[t] \in Held => s = t
  /\ \A t \in Crew : pc[t] \in Held => shared.lock
  /\ \A t \in Crew : Placing(t)
  /\ \A t \in Crew : pc[t] = "asleep" /\ local[t] # shared.phase => \E s \in Crew : pc[s] = "wake"
  /\ shared.to_arrive + Cardinality(InPhase) = CrewSize
  /\ (\E t \in Crew : pc[t] = "last") <=> shared.to_arrive = 0

\* A thread that does not hold the lock moves between the places where it waits.
LEMMA WaiterMoves ==
  ASSUME FutexBarInv, NEW t \in Crew, pc[t] \in Sleepy, NEW l \in Sleepy,
         Meets!Goto(t, l), UNCHANGED <<shared, local>>,
         l = "asleep" => local[t] = shared.phase
  PROVE  FutexBarInv' /\ Meets!PromiseStep
<1>0. /\ BarLoop(FutexLabels) /\ pc \in [Crew -> FutexLabels]
      /\ round \in [Crew -> Nat] /\ local \in [Crew -> Nat]
  BY DEF FutexBarInv, BarLoop
<1>1. /\ pc' \in [Crew -> FutexLabels] /\ round' = round /\ pc'[t] = l
      /\ \A u \in Crew \ {t} : pc'[u] = pc[u]
  BY <1>0, GoesTo DEF FutexLabels
<1>2. \A u \in Crew : /\ pc'[u] \in Held <=> pc[u] \in Held
                      /\ pc'[u] = "last" <=> pc[u] = "last"
                      /\ pc'[u] = "wake" <=> pc[u] = "wake"
                      /\ Here(u)' <=> Here(u)
                      /\ Wt(u)' <=> Wt(u)
  BY <1>1 DEF Held, Sleepy, Here, Wt
<1>3. \A u \in Crew : Placing(u)'
  BY <1>1 DEF FutexBarInv, Placing, Sleepy
<1>4. InPhase' = InPhase
  BY <1>2 DEF InPhase
<1>5. \A u \in Crew : pc'[u] = "asleep" /\ local'[u] # shared'.phase => \E s \in Crew : pc'[s] = "wake"
  BY <1>1, <1>2 DEF FutexBarInv
<1>6. FutexBarInv'
  BY <1>0, <1>1, <1>2, <1>3, <1>4, <1>5 DEF FutexBarInv, BarLoop
<1>7. QED
  BY <1>0, <1>1, <1>2, <1>6, Stays

\* futex/barrier.c keeps its invariant and its promise.
LEMMA FutexBarStep ==
  ASSUME FutexBarInv, meeting = "futex", NEW t \in Crew,
         Meets!FutexStep(t) \/ Meets!SpuriousWake(t)
  PROVE  FutexBarInv' /\ Meets!PromiseStep
<1> DEFINE Typed == shared' \in [lock : BOOLEAN, phase : Nat, to_arrive : Nat]
           Others == \A u \in Crew \ {t} : pc'[u] = pc[u]
<1>0. /\ BarLoop(FutexLabels) /\ pc \in [Crew -> FutexLabels]
      /\ round \in [Crew -> Nat] /\ local \in [Crew -> Nat]
      /\ shared \in [lock : BOOLEAN, phase : Nat, to_arrive : Nat]
      /\ \A s \in Crew : pc[s] \in Held /\ pc[t] \in Held => s = t
      /\ \A s \in Crew : pc[s] \in Held => shared.lock
      /\ \A s \in Crew : Placing(s)
      /\ shared.to_arrive + Cardinality(InPhase) = CrewSize
      /\ (\E s \in Crew : pc[s] = "last") <=> shared.to_arrive = 0
  BY DEF FutexBarInv, BarLoop
<1>n. CrewSize \in Nat /\ CrewSize # 0 /\ Meets!NumThreads = CrewSize
  BY CrewFacts
<1>i. InPhase \in SUBSET Crew /\ IsFiniteSet(InPhase) /\ Cardinality(InPhase) \in Nat
  BY BlockingAssumption, FS_Subset, FS_CardinalityType DEF InPhase
<1>r. \A s, u \in Crew : round[u] + 1 = shared.phase /\ Wt(u) =>
        round[s] > round[u] \/ (round[s] = round[u] /\ Wt(s))
  BY <1>0 DEF Placing, Wt, Sleepy
<1>1. CASE Meets!Arrive(t)
  <2>1. /\ pc[t] = "begin" /\ shared.lock = FALSE /\ round' = round
        /\ shared' = [shared EXCEPT !.lock = TRUE, !.to_arrive = shared.to_arrive - 1]
    BY <1>0, <1>1 DEF Meets!Arrive, Meets!At, Meets!Goto
  <2>2. \A s \in Crew : pc[s] \notin Held
    BY <1>0, <2>1
  <2>3. shared.to_arrive # 0 /\ shared.to_arrive - 1 \in Nat
    BY <1>0, <2>2 DEF Held
  <2>4. /\ Typed /\ shared'.lock = TRUE /\ shared'.phase = shared.phase
        /\ shared'.to_arrive = shared.to_arrive - 1
    <3>1. TRUE \in BOOLEAN
      OBVIOUS
    <3>2. shared' = [lock |-> TRUE, phase |-> shared.phase, to_arrive |-> shared.to_arrive - 1]
      BY <1>0, <2>1
    <3>3. QED
      BY <1>0, <2>3, <3>1, <3>2
  <2>5. PICK l \in {"unlock", "last"} :
          /\ Meets!Goto(t, l)
          /\ l = "unlock" <=> shared.to_arrive - 1 > 0
          /\ l = "unlock" => local' = [local EXCEPT ![t] = shared.phase]
          /\ l = "last" => local' = local
    <3>1. CASE shared.to_arrive - 1 > 0
      BY <1>1, <2>4, <3>1 DEF Meets!Arrive
    <3>2. CASE ~ (shared.to_arrive - 1 > 0)
      BY <1>1, <2>4, <3>2 DEF Meets!Arrive
    <3>3. QED
      BY <3>1, <3>2
  <2>6. pc' \in [Crew -> FutexLabels] /\ pc'[t] = l /\ Others
    BY <1>0, <2>5, GoesTo DEF FutexLabels, Held
  <2>7. /\ local' \in [Crew -> Nat] /\ \A u \in Crew \ {t} : local'[u] = local[u]
        /\ l = "unlock" => local'[t] = shared.phase
    BY <1>0, <2>5
  <2>8. \A u \in Crew : Here(u)' <=> u = t \/ Here(u)
    BY <2>4, <2>6, <2>7 DEF Here
  <2>9. t \notin InPhase /\ InPhase' = InPhase \cup {t}
    BY <2>1, <2>8 DEF InPhase, Here, Sleepy
  <2>10. Cardinality(InPhase') = Cardinality(InPhase) + 1
    BY <1>i, <2>9, FS_AddElement
  <2>11. shared'.to_arrive + Cardinality(InPhase') = CrewSize
    BY <1>0, <1>i, <2>3, <2>4, <2>10
  <2>12. \A u \in Crew : pc'[u] \in Held <=> u = t
    BY <2>2, <2>6 DEF Held
  <2>13. (\E u \in Crew : pc'[u] = "last") <=> shared'.to_arrive = 0
    <3>1. (\E u \in Crew : pc'[u] = "last") <=> l = "last"
      BY <2>2, <2>6 DEF Held
    <3>2. l = "last" <=> shared.to_arrive - 1 = 0
      <4>1. shared.to_arrive - 1 > 0 <=> shared.to_arrive - 1 # 0
        BY <1>0, <2>3
      <4>2. l = "last" <=> ~ (l = "unlock")
        BY <2>5
      <4>3. QED
        BY <2>5, <4>1, <4>2
    <3>3. QED
      BY <2>4, <3>1, <3>2
  <2>14. \A u \in Crew : Placing(u)'
    <3>1. Placing(t)'
      <4>1. round'[t] = shared'.phase
        BY <1>0, <2>1, <2>4 DEF Placing, Sleepy
      <4>2. CASE l = "unlock"
        BY <2>4, <2>6, <2>7, <4>1, <4>2 DEF Placing, Sleepy
      <4>3. CASE l = "last"
        BY <2>6, <4>1, <4>3 DEF Placing, Sleepy
      <4>4. QED
        BY <4>2, <4>3
    <3>2. \A u \in Crew \ {t} : Placing(u)'
      BY <1>0, <2>1, <2>4, <2>6, <2>7 DEF Placing
    <3>3. QED
      BY <3>1, <3>2
  <2>15. \A u \in Crew : pc'[u] = "asleep" => local'[u] = shared'.phase
    <3>1. \A u \in Crew : pc[u] = "asleep" => local[u] = shared.phase
      BY <2>2 DEF FutexBarInv, Held
    <3>2. QED
      BY <2>4, <2>6, <2>7, <3>1
  <2>16. FutexBarInv'
    BY <1>0, <2>1, <2>4, <2>6, <2>7, <2>11, <2>12, <2>13, <2>14, <2>15 DEF FutexBarInv, BarLoop
  <2>17. ~ Wt(t) /\ Wt(t)' /\ \A u \in Crew \ {t} : Wt(u)' <=> Wt(u)
    BY <2>1, <2>6 DEF Wt
  <2>18. QED
    BY <1>0, <2>1, <2>6, <2>16, <2>17, Enters
<1>2. CASE Meets!UnlockToWait(t)
  <2>1. /\ pc[t] = "unlock" /\ Meets!Goto(t, "wait") /\ local' = local
        /\ shared' = [shared EXCEPT !.lock = FALSE]
    BY <1>2 DEF Meets!UnlockToWait, Meets!At
  <2>2. pc' \in [Crew -> FutexLabels] /\ round' = round /\ pc'[t] = "wait" /\ Others
    BY <1>0, <2>1, GoesTo DEF FutexLabels, Sleepy
  <2>3. Typed /\ shared'.phase = shared.phase /\ shared'.to_arrive = shared.to_arrive
    BY <1>0, <2>1
  <2>4. \A u \in Crew : pc[u] \in Held => u = t
    BY <1>0, <2>1 DEF Held
  <2>5. \A u \in Crew : /\ pc'[u] \notin Held
                        /\ pc[u] # "last" /\ pc[u] # "wake"
                        /\ Here(u)' <=> Here(u)
                        /\ Wt(u)' <=> Wt(u)
    BY <2>1, <2>2, <2>3, <2>4 DEF Held, Sleepy, Here, Wt
  <2>6. InPhase' = InPhase
    BY <2>5 DEF InPhase
  <2>7. \A u \in Crew : Placing(u)'
    BY <1>0, <2>1, <2>2, <2>3 DEF Placing, Sleepy
  <2>8. \A u \in Crew : pc'[u] = "asleep" => local'[u] = shared'.phase
    BY <2>1, <2>2, <2>3, <2>5 DEF FutexBarInv
  <2>9. ~ \E u \in Crew : pc'[u] = "last"
    BY <2>5 DEF Held
  <2>10. shared'.to_arrive # 0
    BY <1>0, <2>3, <2>5
  <2>11. FutexBarInv'
    BY <1>0, <2>1, <2>2, <2>3, <2>5, <2>6, <2>7, <2>8, <2>9, <2>10 DEF FutexBarInv, BarLoop
  <2>12. QED
    BY <1>0, <2>2, <2>5, <2>11, Stays
<1>3. CASE Meets!FutexWait(t)
  <2>1. PICK l \in {"asleep", "test"} :
          /\ pc[t] = "wait" /\ Meets!Goto(t, l) /\ UNCHANGED <<shared, local>>
          /\ l = "asleep" => local[t] = shared.phase
    BY <1>3 DEF Meets!FutexWait, Meets!At
  <2>2. pc[t] \in Sleepy /\ l \in Sleepy
    BY <2>1 DEF Sleepy
  <2>3. QED
    BY <2>1, <2>2, WaiterMoves
<1>4. CASE Meets!SpuriousWake(t)
  <2>1. pc[t] = "asleep" /\ Meets!Goto(t, "test") /\ UNCHANGED <<shared, local>>
    BY <1>4 DEF Meets!SpuriousWake, Meets!At
  <2>2. pc[t] \in Sleepy /\ "test" \in Sleepy
    BY <2>1 DEF Sleepy
  <2>3. QED
    BY <2>1, <2>2, WaiterMoves
<1>5. CASE Meets!TestPhase(t)
  <2>1. /\ pc[t] = "test" /\ UNCHANGED <<shared, local>>
        /\ shared.phase = local[t] => Meets!Goto(t, "wait")
        /\ shared.phase # local[t] => Meets!Return(t)
    BY <1>5 DEF Meets!TestPhase, Meets!At
  <2>2. CASE shared.phase = local[t]
    <3>1. pc[t] \in Sleepy /\ "wait" \in Sleepy
      BY <2>1 DEF Sleepy
    <3>2. QED
      BY <2>1, <2>2, <3>1, WaiterMoves
  <2>3. CASE shared.phase # local[t]
    <3>1. /\ pc' \in [Crew -> FutexLabels] /\ round' \in [Crew -> Nat]
          /\ round' = [round EXCEPT ![t] = round[t] + 1]
          /\ pc'[t] \in {"begin", "done"} /\ round'[t] = round[t] + 1
          /\ \A u \in Crew \ {t} : pc'[u] = pc[u] /\ round'[u] = round[u]
      BY <1>0, <2>1, <2>3, Returns DEF FutexLabels
    <3>2. round[t] + 1 = shared.phase
      BY <1>0, <2>1, <2>3 DEF Placing
    <3>3. \A u \in Crew : /\ pc'[u] \in Held <=> pc[u] \in Held
                          /\ pc'[u] = "last" <=> pc[u] = "last"
                          /\ pc'[u] = "wake" <=> pc[u] = "wake"
                          /\ pc'[u] = "asleep" <=> pc[u] = "asleep"
                          /\ Here(u)' <=> Here(u)
      BY <2>1, <2>3, <3>1 DEF Held, Sleepy, Here
    <3>4. InPhase' = InPhase
      BY <3>3 DEF InPhase
    <3>5. \A u \in Crew : Placing(u)'
      BY <1>0, <2>1, <3>1, <3>2 DEF Placing
    <3>6. FutexBarInv'
      BY <1>0, <2>1, <3>1, <3>3, <3>4, <3>5 DEF FutexBarInv, BarLoop
    <3>7. Wt(t) /\ ~ Wt(t)' /\ \A u \in Crew \ {t} : Wt(u)' <=> Wt(u)
      BY <2>1, <3>1 DEF Wt
    <3>8. QED
      BY <1>0, <1>r, <3>1, <3>2, <3>6, <3>7, Exits
  <2>4. QED
    BY <2>2, <2>3
<1>6. CASE Meets!NewPhase(t)
  <2>1. /\ pc[t] = "last" /\ Meets!Goto(t, "wake") /\ local' = local
        /\ shared' = [shared EXCEPT !.phase = shared.phase + 1, !.to_arrive = CrewSize]
    BY <1>6, <1>n DEF Meets!NewPhase, Meets!At
  <2>2. pc' \in [Crew -> FutexLabels] /\ round' = round /\ pc'[t] = "wake" /\ Others
    BY <1>0, <2>1, GoesTo DEF FutexLabels, Held
  <2>3. /\ Typed /\ shared'.phase = shared.phase + 1 /\ shared'.to_arrive = CrewSize
        /\ shared'.lock = shared.lock
    <3>1. shared' = [lock |-> shared.lock, phase |-> shared.phase + 1, to_arrive |-> CrewSize]
      BY <1>0, <2>1
    <3>2. QED
      BY <1>0, <1>n, <3>1
  <2>4. InPhase = Crew
    <3>1. Cardinality(InPhase) = Cardinality(Crew)
      BY <1>0, <1>i, <2>1 DEF CrewSize
    <3>2. QED
      BY <1>i, <3>1, BlockingAssumption, FS_Subset
  <2>5. \A u \in Crew \ {t} : pc[u] \in Sleepy /\ local[u] = shared.phase
    BY <1>0, <2>1, <2>4 DEF InPhase, Here, Held
  <2>6. \A u \in Crew : ~ Here(u)'
    BY <1>0, <2>1, <2>2, <2>3, <2>5 DEF Here, Sleepy
  <2>7. Cardinality(InPhase') = 0
    <3>1. InPhase' = {}
      BY <2>6 DEF InPhase
    <3>2. QED
      BY <3>1, FS_EmptySet
  <2>8. \A u \in Crew : Placing(u)'
    <3>1. Placing(t)'
      BY <1>0, <2>1, <2>2, <2>3 DEF Placing, Sleepy
    <3>2. \A u \in Crew \ {t} : Placing(u)'
      BY <1>0, <2>1, <2>2, <2>3, <2>5 DEF Placing, Sleepy
    <3>3. QED
      BY <3>1, <3>2
  <2>9. \A u \in Crew : (pc'[u] \in Held <=> u = t) /\ pc'[u] # "last"
    BY <2>2, <2>5 DEF Held, Sleepy
  <2>10. shared.lock
    BY <1>0, <2>1 DEF Held
  <2>11. FutexBarInv'
    BY <1>0, <1>n, <2>1, <2>2, <2>3, <2>7, <2>8, <2>9, <2>10 DEF FutexBarInv, BarLoop
  <2>12. \A u \in Crew : Wt(u)' <=> Wt(u)
    BY <2>1, <2>2 DEF Wt
  <2>13. QED
    BY <1>0, <2>2, <2>11, <2>12, Stays
<1>7. CASE Meets!WakeAll(t)
  <2>1. /\ pc[t] = "wake" /\ round' = round /\ UNCHANGED <<shared, local>>
        /\ pc' = [s \in Crew |-> IF s = t THEN "release"
                                 ELSE IF pc[s] = "asleep" THEN "test" ELSE pc[s]]
    BY <1>0, <1>7 DEF Meets!WakeAll, Meets!At, Meets!WakeAndGoto, Meets!Members
  <2>2. pc' \in [Crew -> FutexLabels]
    BY <1>0, <2>1 DEF FutexLabels, Held, Sleepy
  <2>3. \A u \in Crew : /\ pc'[u] \in Held <=> pc[u] \in Held
                        /\ pc'[u] = "last" <=> pc[u] = "last"
                        /\ pc'[u] # "asleep"
                        /\ Here(u)' <=> Here(u)
                        /\ Wt(u)' <=> Wt(u)
    BY <2>1 DEF Held, Sleepy, Here, Wt
  <2>4. InPhase' = InPhase
    BY <2>3 DEF InPhase
  <2>5. \A u \in Crew : Placing(u)'
    BY <1>0, <2>1 DEF Placing, Sleepy
  <2>6. FutexBarInv'
    BY <1>0, <2>1, <2>2, <2>3, <2>4, <2>5 DEF FutexBarInv, BarLoop
  <2>7. QED
    BY <1>0, <2>1, <2>2, <2>3, <2>6, Stays
<1>8. CASE Meets!Release(t)
  <2>1. /\ pc[t] = "release" /\ Meets!Return(t) /\ local' = local
        /\ shared' = [shared EXCEPT !.lock = FALSE]
    BY <1>8 DEF Meets!Release, Meets!At
  <2>2. /\ pc' \in [Crew -> FutexLabels] /\ round' \in [Crew -> Nat]
        /\ round' = [round EXCEPT ![t] = round[t] + 1]
        /\ pc'[t] \in {"begin", "done"} /\ round'[t] = round[t] + 1
        /\ \A u \in Crew \ {t} : pc'[u] = pc[u] /\ round'[u] = round[u]
    BY <1>0, <2>1, Returns DEF FutexLabels
  <2>3. Typed /\ shared'.phase = shared.phase /\ shared'.to_arrive = shared.to_arrive
    BY <1>0, <2>1
  <2>4. round[t] + 1 = shared.phase
    BY <1>0, <2>1 DEF Placing, Sleepy
  <2>5. \A u \in Crew : pc[u] \in Held => u = t
    BY <1>0, <2>1 DEF Held
  <2>6. \A u \in Crew : /\ pc'[u] \notin Held
                        /\ pc[u] # "last" /\ pc[u] # "wake"
                        /\ Here(u)' <=> Here(u)
    BY <2>1, <2>2, <2>3, <2>5 DEF Held, Sleepy, Here
  <2>7. InPhase' = InPhase
    BY <2>6 DEF InPhase
  <2>8. \A u \in Crew : Placing(u)'
    BY <1>0, <2>1, <2>2, <2>3, <2>4 DEF Placing
  <2>9. \A u \in Crew : pc'[u] = "asleep" => local'[u] = shared'.phase
    BY <2>1, <2>2, <2>3, <2>6 DEF FutexBarInv
  <2>10. (~ \E u \in Crew : pc'[u] = "last") /\ shared'.to_arrive # 0
    BY <1>0, <2>3, <2>6 DEF Held
  <2>11. FutexBarInv'
    BY <1>0, <2>1, <2>2, <2>3, <2>6, <2>7, <2>8, <2>9, <2>10 DEF FutexBarInv, BarLoop
  <2>12. Wt(t) /\ ~ Wt(t)' /\ \A u \in Crew \ {t} : Wt(u)' <=> Wt(u)
    BY <2>1, <2>2 DEF Wt
  <2>13. QED
    BY <1>0, <1>r, <2>2, <2>4, <2>11, <2>12, Exits
<1>9. QED
  BY <1>1, <1>2, <1>3, <1>4, <1>5, <1>6, <1>7, <1>8 DEF Meets!FutexStep

\* No sleeper of an old phase is left behind.
LEMMA FutexBarPromises == FutexBarInv => Meets!NoSleeperLeftBehind
<1> SUFFICES ASSUME FutexBarInv PROVE Meets!NoSleeperLeftBehind
  OBVIOUS
<1>1. Meets!Members = Crew
  BY DEF FutexBarInv, BarLoop, Meets!Members
<1> DEFINE X == {t \in Crew : /\ pc[t] \in {"unlock", "wait", "asleep", "test"}
                              /\ local[t] = shared.phase}
<1>2. ASSUME \A s \in Crew : pc[s] # "last"
      PROVE  shared.to_arrive = Meets!NumThreads - Meets!Cardinality(X)
  <2>1. X = InPhase
    BY <1>2 DEF InPhase, Here, Sleepy
  <2>2. Meets!Cardinality(X) = Cardinality(X)
    BY Zenon DEF Meets!Cardinality, Cardinality
  <2>3. InPhase \in SUBSET Crew
    BY DEF InPhase
  <2>4. Cardinality(InPhase) \in Nat
    BY <2>3, BlockingAssumption, FS_Subset, FS_CardinalityType
  <2>5. shared.to_arrive \in Nat /\ shared.to_arrive + Cardinality(InPhase) = CrewSize
    BY DEF FutexBarInv
  <2>6. QED
    BY <2>1, <2>2, <2>4, <2>5, CrewFacts
<1>3. \A t \in Crew : pc[t] = "asleep" /\ local[t] # shared.phase => \E s \in Crew : pc[s] = "wake"
  BY DEF FutexBarInv
<1>4. QED
  BY <1>1, <1>2, <1>3 DEF Meets!NoSleeperLeftBehind

-----------------------------------------------------------------------------

\* The barrier that runs keeps its invariant; the threads are those of Crew, or
\* the two goroutines.
BarInv ==
  /\ meeting \in {"futex", "semaphore", "monitor", "channel", "async", "sync"}
  /\ meeting = "futex" => FutexBarInv
  /\ meeting = "semaphore" => SemBarInv
  /\ meeting = "monitor" => MonBarInv
  /\ meeting = "channel" => ChanBarInv
  /\ meeting = "async" => AsyncInv
  /\ meeting = "sync" => SyncInv

\* Who the threads of the program are.
LEMMA BarMembers ==
  BarInv => Meets!Members = IF meeting \in {"async", "sync"} THEN {A, B} ELSE Crew
BY DEF BarInv, FutexBarInv, SemBarInv, MonBarInv, ChanBarInv, AsyncInv, SyncInv, BarLoop, PairLoop,
       Meets!Members

\* The barriers as main leaves them.
LEMMA BarFirst == ASSUME Meets!Init PROVE BarInv
<1>1. meeting \in {"futex", "semaphore", "monitor", "channel", "async", "sync"}
  BY DEF Meets!Init
<1>n. CrewSize \in Nat /\ CrewSize # 0 /\ Meets!NumThreads = CrewSize
  BY CrewFacts
<1>2. ASSUME meeting \notin {"async", "sync"}
      PROVE  /\ pc = [t \in Crew |-> "begin"] /\ round = [t \in Crew |-> 0]
             /\ local = [t \in Crew |-> 0]
  BY <1>2 DEF Meets!Init, Meets!Members
<1>3. ASSUME meeting \in {"async", "sync"}
      PROVE  pc = [t \in {A, B} |-> "begin"] /\ round = [t \in {A, B} |-> 0]
  BY <1>3 DEF Meets!Init, Meets!Members
<1>4. CASE meeting = "futex"
  <2>1. shared = [lock |-> FALSE, phase |-> 0, to_arrive |-> CrewSize]
    BY <1>4, <1>n DEF Meets!Init, Meets!SharedInit
  <2>2. BarLoop(FutexLabels)
    BY <1>2, <1>4 DEF BarLoop, FutexLabels
  <2>3. \A t \in Crew : pc[t] = "begin" /\ round[t] = 0
    BY <1>2, <1>4
  <2>4. \A t \in Crew : pc[t] \notin Held /\ Placing(t) /\ ~ Here(t)
    BY <2>1, <2>3 DEF Held, Placing, Here, Sleepy
  <2>5. Cardinality(InPhase) = 0
    <3>1. InPhase = {}
      BY <2>4 DEF InPhase
    <3>2. QED
      BY <3>1, FS_EmptySet
  <2>6. FALSE \in BOOLEAN
    OBVIOUS
  <2>7. shared \in [lock : BOOLEAN, phase : Nat, to_arrive : Nat]
    BY <1>n, <2>1, <2>6
  <2>8. FutexBarInv
    BY <1>n, <2>1, <2>2, <2>3, <2>4, <2>5, <2>7 DEF FutexBarInv
  <2>9. QED
    BY <1>4, <2>8 DEF BarInv
<1>5. CASE meeting = "semaphore"
  <2>1. shared = [arrival |-> 1, departure |-> 0, counter |-> 0]
    BY <1>5 DEF Meets!Init, Meets!SharedInit
  <2>2. BarLoop(BatonLabels)
    BY <1>2, <1>5 DEF BarLoop, BatonLabels
  <2>3. \A t \in Crew : pc[t] = "begin" /\ round[t] = 0
    BY <1>2, <1>5
  <2>4. \A t \in Crew : pc[t] \notin Baton /\ pc[t] \notin Arrived
    BY <2>3 DEF Baton, Arrived
  <2>5. Count(Arrived) = 0
    BY <2>4, CountFacts
  <2>6. Coming(0)
    BY <1>n, <2>1, <2>3, <2>5 DEF Coming
  <2>7. SemBarInv
    BY <2>1, <2>2, <2>4, <2>6 DEF SemBarInv
  <2>8. QED
    BY <1>5, <2>7 DEF BarInv
<1>6. CASE meeting = "monitor"
  <2>1. shared = [mutex |-> FALSE, arrived |-> 0]
    BY <1>6 DEF Meets!Init, Meets!SharedInit
  <2>2. BarLoop(MeetLabels)
    BY <1>2, <1>6 DEF BarLoop, MeetLabels
  <2>3. \A t \in Crew : pc[t] = "begin" /\ round[t] = 0
    BY <1>2, <1>6
  <2>4. Count(Dozing) = 0
    <3>1. \A t \in Crew : pc[t] \notin Dozing
      BY <2>3 DEF Dozing
    <3>2. QED
      BY <3>1, CountFacts
  <2>5. Rounded(0)
    BY <1>n, <2>1, <2>3, <2>4 DEF Rounded
  <2>6. shared \in [mutex : BOOLEAN, arrived : Nat]
    <3>1. FALSE \in BOOLEAN
      OBVIOUS
    <3>2. QED
      BY <2>1, <3>1
  <2>7. MonBarInv
    BY <2>1, <2>2, <2>4, <2>5, <2>6 DEF MonBarInv
  <2>8. QED
    BY <1>6, <2>7 DEF BarInv
<1>7. CASE meeting = "channel"
  <2>1. shared = [arrival |-> CrewSize, departure |-> 0]
    BY <1>7, <1>n DEF Meets!Init, Meets!SharedInit, Meets!Empty
  <2>2. BarLoop(ChanLabels)
    BY <1>2, <1>7 DEF BarLoop, ChanLabels
  <2>3. \A t \in Crew : pc[t] = "begin" /\ round[t] = 0
    BY <1>2, <1>7
  <2>4. Count(Stay) = 0
    <3>1. \A t \in Crew : pc[t] \notin Stay
      BY <2>3 DEF Stay
    <3>2. QED
      BY <3>1, CountFacts
  <2>5. ChanComing(0)
    BY <1>n, <2>1, <2>3, <2>4 DEF ChanComing
  <2>6. \A t \in Crew : pc[t] \notin Taking
    BY <2>3 DEF Taking
  <2>7. ChanBarInv
    BY <1>n, <2>1, <2>2, <2>5, <2>6 DEF ChanBarInv
  <2>8. QED
    BY <1>7, <2>7 DEF BarInv
<1>8. CASE meeting = "async"
  <2>1. shared = [t \in {A, B} |-> 0]
    BY <1>8 DEF Meets!Init, Meets!SharedInit, Meets!Empty
  <2>2. AsyncInv
    BY <1>3, <1>8, <2>1 DEF AsyncInv, PairLoop, PairLabels, Sent
  <2>3. QED
    BY <1>8, <2>2 DEF BarInv
<1>9. CASE meeting = "sync"
  <2>1. SyncInv
    BY <1>3, <1>9 DEF SyncInv, PairLoop, PairLabels
  <2>2. QED
    BY <1>9, <2>1 DEF BarInv
<1>10. QED
  BY <1>1, <1>4, <1>5, <1>6, <1>7, <1>8, <1>9

\* Each step belongs to one program.
LEMMA WhoseStep ==
  ASSUME NEW t \in Meets!Members
  PROVE  /\ Meets!FutexStep(t) => meeting = "futex"
         /\ Meets!SemaphoreStep(t) => meeting = "semaphore"
         /\ Meets!MonitorStep(t) => meeting = "monitor"
         /\ Meets!ChannelStep(t) => meeting = "channel"
         /\ Meets!SendPair(t) \/ Meets!ReceivePair(t) => meeting = "async"
         /\ Meets!MeetA(t) \/ Meets!MeetB(t) => meeting = "sync"
         /\ Meets!SpuriousWake(t) => meeting = "futex"
<1>1. Meets!FutexStep(t) => meeting = "futex"
  BY DEF Meets!FutexStep, Meets!At, Meets!Arrive, Meets!UnlockToWait, Meets!FutexWait,
         Meets!TestPhase, Meets!NewPhase, Meets!WakeAll, Meets!Release
<1>2. Meets!SemaphoreStep(t) => meeting = "semaphore"
  BY DEF Meets!SemaphoreStep, Meets!At, Meets!WaitArrival, Meets!CountIn, Meets!TestIn,
         Meets!PostIn, Meets!WaitDeparture, Meets!CountOut, Meets!TestOut, Meets!PostOut
<1>3. Meets!MonitorStep(t) => meeting = "monitor"
  BY DEF Meets!MonitorStep, Meets!At, Meets!Lock, Meets!Broadcast, Meets!Wait, Meets!Relock,
         Meets!Unlock
<1>4. Meets!ChannelStep(t) => meeting = "channel"
  BY DEF Meets!ChannelStep, Meets!At, Meets!GetArrival, Meets!PutArrival, Meets!GetDeparture,
         Meets!PutDeparture
<1>5. Meets!SendPair(t) \/ Meets!ReceivePair(t) => meeting = "async"
  BY DEF Meets!At, Meets!SendPair, Meets!ReceivePair
<1>6. Meets!MeetA(t) \/ Meets!MeetB(t) => meeting = "sync"
  BY DEF Meets!At, Meets!MeetA, Meets!MeetB
<1>7. Meets!SpuriousWake(t) => meeting = "futex"
  BY DEF Meets!At, Meets!SpuriousWake
<1>8. QED
  BY <1>1, <1>2, <1>3, <1>4, <1>5, <1>6, <1>7

\* A step of a barrier keeps the invariant and is a step of the abstract barrier.
LEMMA BarStep ==
  ASSUME BarInv, NEW t \in Meets!Members, Meets!Step(t) \/ Meets!SpuriousWake(t)
  PROVE  BarInv' /\ Meets!PromiseStep
<1>1. meeting' = meeting
  BY DEF Meets!Step, Meets!SpuriousWake
<1>2. meeting \notin {"async", "sync"} => t \in Crew
  BY BarMembers
<1>3. meeting \in {"async", "sync"} => t \in {A, B}
  BY BarMembers
<1>4. CASE Meets!FutexStep(t) \/ Meets!SpuriousWake(t)
  <2>1. meeting = "futex" /\ t \in Crew /\ FutexBarInv
    BY <1>2, <1>4, WhoseStep DEF BarInv
  <2>2. FutexBarInv' /\ Meets!PromiseStep
    BY <1>4, <2>1, FutexBarStep
  <2>3. QED
    BY <1>1, <2>1, <2>2 DEF BarInv
<1>5. CASE Meets!SemaphoreStep(t)
  <2>1. meeting = "semaphore" /\ t \in Crew /\ SemBarInv
    BY <1>2, <1>5, WhoseStep DEF BarInv
  <2>2. SemBarInv' /\ Meets!PromiseStep
    BY <1>5, <2>1, SemBarStep
  <2>3. QED
    BY <1>1, <2>1, <2>2 DEF BarInv
<1>6. CASE Meets!MonitorStep(t)
  <2>1. meeting = "monitor" /\ t \in Crew /\ MonBarInv
    BY <1>2, <1>6, WhoseStep DEF BarInv
  <2>2. MonBarInv' /\ Meets!PromiseStep
    BY <1>6, <2>1, MonBarStep
  <2>3. QED
    BY <1>1, <2>1, <2>2 DEF BarInv
<1>7. CASE Meets!ChannelStep(t)
  <2>1. meeting = "channel" /\ t \in Crew /\ ChanBarInv
    BY <1>2, <1>7, WhoseStep DEF BarInv
  <2>2. ChanBarInv' /\ Meets!PromiseStep
    BY <1>7, <2>1, ChanBarStep
  <2>3. QED
    BY <1>1, <2>1, <2>2 DEF BarInv
<1>8. CASE Meets!SendPair(t) \/ Meets!ReceivePair(t)
  <2>1. meeting = "async" /\ t \in {A, B} /\ AsyncInv
    BY <1>3, <1>8, WhoseStep DEF BarInv
  <2>2. AsyncInv' /\ Meets!PromiseStep
    BY <1>8, <2>1, AsyncStep
  <2>3. QED
    BY <1>1, <2>1, <2>2 DEF BarInv
<1>9. CASE Meets!MeetA(t) \/ Meets!MeetB(t)
  <2>1. meeting = "sync" /\ SyncInv
    BY <1>9, WhoseStep DEF BarInv
  <2>2. SyncInv' /\ Meets!PromiseStep
    BY <1>9, <2>1, SyncStep
  <2>3. QED
    BY <1>1, <2>1, <2>2 DEF BarInv
<1>10. QED
  BY <1>4, <1>5, <1>6, <1>7, <1>8, <1>9 DEF Meets!Step, Meets!PairStep

\* A step of something else changes nothing here.
LEMMA BarStutters ==
  ASSUME BarInv, UNCHANGED <<pc, barrieronly>>
  PROVE  BarInv' /\ Meets!PromiseStep
<1>1. pc' = pc /\ meeting' = meeting /\ round' = round /\ shared' = shared /\ local' = local
  BY DEF barrieronly
<1>2. /\ FutexBarInv => FutexBarInv'
      /\ AsyncInv => AsyncInv'
      /\ SyncInv => SyncInv'
  BY <1>1 DEF FutexBarInv, BarLoop, Placing, InPhase, Here, AsyncInv, SyncInv, PairLoop, Sent
<1>3. SemBarInv => SemBarInv'
  <2> SUFFICES ASSUME SemBarInv PROVE SemBarInv'
    OBVIOUS
  <2>1. PICK k \in Nat : Coming(k) \/ Going(k)
    BY DEF SemBarInv
  <2>2. Count(Arrived)' = Count(Arrived) /\ Count(ToLeave)' = Count(ToLeave)
    BY <1>1 DEF Count, Placed
  <2>3. Coming(k) => Coming(k)'
    BY <1>1, <2>2 DEF Coming
  <2>4. Going(k) => Going(k)'
    BY <1>1, <2>2 DEF Going
  <2>5. QED
    BY <1>1, <2>1, <2>3, <2>4 DEF SemBarInv, BarLoop
<1>4. MonBarInv => MonBarInv'
  <2>1. Count(Dozing)' = Count(Dozing)
    BY <1>1 DEF Count, Placed
  <2>2. QED
    BY <1>1, <2>1 DEF MonBarInv, BarLoop, Rounded
<1>5. ChanBarInv => ChanBarInv'
  <2> SUFFICES ASSUME ChanBarInv PROVE ChanBarInv'
    OBVIOUS
  <2>1. PICK k \in Nat : ChanComing(k) \/ ChanGoing(k)
    BY DEF ChanBarInv
  <2>2. Count(Stay)' = Count(Stay)
    BY <1>1 DEF Count, Placed
  <2>3. ChanComing(k) => ChanComing(k)'
    BY <1>1, <2>2 DEF ChanComing
  <2>4. ChanGoing(k) => ChanGoing(k)'
    BY <1>1, <2>2 DEF ChanGoing
  <2>5. QED
    BY <1>1, <2>1, <2>3, <2>4 DEF ChanBarInv, BarLoop
<1>6. Meets!PromiseStep
  BY <1>1 DEF Meets!PromiseStep, Meets!Waiting, Meets!Members
<1>7. QED
  BY <1>1, <1>2, <1>3, <1>4, <1>5, <1>6 DEF BarInv

\* What the run checks of the states of the barriers.
LEMMA BarPromises == BarInv => Meets!NoSleeperLeftBehind /\ Meets!OneBaton
BY FutexBarPromises, SemBarPromises DEF BarInv, Meets!NoSleeperLeftBehind, Meets!OneBaton

-----------------------------------------------------------------------------
(* Philosophers                                                            *)

Seats == Phils!Seats
Left(i) == Phils!Left(i)
Right(i) == Phils!Right(i)
Eats(i) == pc[i] = "eat"
Plates(i) == IF Eats(i) THEN 1 ELSE 0

PhilLabels == {"think", "second", "eat", "right", "sync", "await", "done"}

\* Philosopher i has fork f in its hand, in the programs with a lock for each.
Holds(i, f) == \/ pc[i] = "second" /\ f = Phils!FirstFork(i)
               \/ pc[i] = "eat" /\ f \in {i, Right(i)}
               \/ pc[i] = "right" /\ f = Right(i)

InTodo(i) == \E k \in DOMAIN todo : todo[k] = i

PhilType == /\ pc \in [Seats -> PhilLabels]
            /\ forks \in [Seats -> Int]
            /\ status \in [Seats -> {"THINKING", "HUNGRY", "EATING"}]
            /\ sync \in [Seats -> {0, 1}]
            /\ todo \in Seq(Seats)
            /\ sleeping \subseteq Seats

\* philosophers_1.py and the like
ForksInv == /\ \A i \in Seats : pc[i] \in {"think", "second", "eat", "right", "done"}
            /\ \A i, f \in Seats : Holds(i, f) => forks[f] = 0
            /\ \A i, k, f \in Seats : Holds(i, f) /\ Holds(k, f) => i = k
            /\ sleeping = {} /\ \A i \in Seats : status[i] = "THINKING"

\* philosophers_2.py
StatusInv ==
  /\ \A i \in Seats : /\ pc[i] \in {"think", "sync", "eat", "done"}
                      /\ pc[i] = "eat" => status[i] = "EATING"
                      /\ status[i] = "EATING" <=> pc[i] = "eat" \/ sync[i] = 1
                      /\ sync[i] = 1 => pc[i] = "sync"
                      /\ status[i] = "HUNGRY" => pc[i] = "sync"
                      /\ ~ Phils!CanEat(status, i)
                      /\ status[i] = "EATING" => status[Left(i)] # "EATING"
                                                 /\ status[Right(i)] # "EATING"
  /\ todo = <<>> /\ sleeping = {}

\* philosophers_provider.go
ProviderInv ==
  /\ \A i \in Seats : /\ pc[i] \in {"think", "await", "eat", "done"}
                      /\ status[i] = "EATING" <=> pc[i] = "eat"
                      /\ status[i] = "HUNGRY" <=> pc[i] = "await"
                      /\ Phils!CanEat(status, i) => InTodo(i)
                      /\ status[i] = "EATING" => status[Left(i)] # "EATING"
                                                 /\ status[Right(i)] # "EATING"
  /\ sleeping = {}

\* The monitors: forks are counted as the philosophers eat.
TableInv ==
  /\ \A i \in Seats : /\ pc[i] \in {"think", "eat", "done"}
                      /\ Eats(i) => ~ Eats(Left(i)) /\ ~ Eats(Right(i))
                      /\ i \in sleeping => pc[i] = "think" /\ ~ Phils!Available(i)
                      /\ status[i] = "THINKING"
  /\ table = "counts" =>
       \A i \in Seats : forks[i] = IF Left(i) = Right(i) THEN 2 - Plates(Left(i))
                                   ELSE 2 - Plates(Left(i)) - Plates(Right(i))
  /\ table = "table" => \A i \in Seats : forks[i] = 1 - Plates(i) - Plates(Left(i))

PhilInv == /\ PhilType
           /\ table \in {"forks", "status", "provider", "counts", "table"}
           /\ table = "forks" => ForksInv
           /\ table = "status" => StatusInv
           /\ table = "provider" => ProviderInv
           /\ table \in {"counts", "table"} => TableInv

\* The neighbours of a philosopher are two others, and it is theirs.
LEMMA SeatFacts ==
  /\ N \in Nat \ {0, 1}
  /\ \A i \in Seats : /\ Left(i) \in Seats /\ Right(i) \in Seats
                      /\ Left(i) # i /\ Right(i) # i
                      /\ Left(Right(i)) = i /\ Right(Left(i)) = i
                      /\ Phils!Neighbours(i) = {Left(i), Right(i)}
                      /\ Phils!FirstFork(i) # Phils!SecondFork(i)
                      /\ {Phils!FirstFork(i), Phils!SecondFork(i)} = {i, Right(i)}
<1>1. N \in Int /\ N > 1 /\ N \in Nat \ {0, 1}
  BY BlockingAssumption
<1>2. \A i \in Seats : Right(i) = IF i = N - 1 THEN 0 ELSE i + 1
  <2> TAKE i \in Seats
  <2>1. i \in Int /\ 0 <= i /\ i < N
    BY <1>1 DEF Seats, Phils!Seats
  <2>2. CASE i = N - 1
    <3>1. i + 1 = N
      BY <1>1, <2>2
    <3>2. N % N = 0
      BY <1>1
    <3>3. QED
      BY <2>2, <3>1, <3>2 DEF Right, Phils!Right
  <2>3. CASE i # N - 1
    <3>1. (i + 1) % N = i + 1
      BY <1>1, <2>1, <2>3
    <3>2. QED
      BY <2>3, <3>1 DEF Right, Phils!Right
  <2>4. QED
    BY <2>2, <2>3
<1>3. \A i \in Seats : Left(i) = IF i = 0 THEN N - 1 ELSE i - 1
  <2> TAKE i \in Seats
  <2>1. i \in Int /\ 0 <= i /\ i < N
    BY <1>1 DEF Seats, Phils!Seats
  <2>2. CASE i = 0
    <3>1. (0 - 1) % N = N - 1
      BY <1>1
    <3>2. QED
      BY <2>2, <3>1 DEF Left, Phils!Left
  <2>3. CASE i # 0
    <3>1. (i - 1) % N = i - 1
      BY <1>1, <2>1, <2>3
    <3>2. QED
      BY <2>3, <3>1 DEF Left, Phils!Left
  <2>4. QED
    BY <2>2, <2>3
<1>4. \A i \in Seats : /\ Left(i) \in Seats /\ Right(i) \in Seats
                       /\ Left(i) # i /\ Right(i) # i
                       /\ Left(Right(i)) = i /\ Right(Left(i)) = i
  BY <1>1, <1>2, <1>3 DEF Seats, Phils!Seats
<1>5. QED
  BY <1>1, <1>4
  DEF Phils!Neighbours, Left, Right, Phils!FirstFork, Phils!SecondFork

\* The tables as main leaves them.
LEMMA PhilFirst == Phils!PhilInit => PhilInv
<1> SUFFICES ASSUME Phils!PhilInit
             PROVE  PhilInv
  OBVIOUS
<1> USE SeatFacts DEF Phils!PhilInit, Seats
<1>1. \A i \in Seats : pc[i] = "think" /\ status[i] = "THINKING" /\ sync[i] = 0
                      /\ forks[i] = IF table = "counts" THEN 2 ELSE 1
  OBVIOUS
<1>2. PhilType
  <2>1. pc \in [Seats -> PhilLabels] /\ sleeping \subseteq Seats /\ todo = <<>>
    BY DEF PhilLabels
  <2>2. forks \in [Seats -> Int] /\ sync \in [Seats -> {0, 1}]
    OBVIOUS
  <2>3. status \in [Seats -> {"THINKING", "HUNGRY", "EATING"}]
    OBVIOUS
  <2>4. <<>> \in Seq(Seats)
    OBVIOUS
  <2>5. QED
    BY <2>1, <2>2, <2>3, <2>4 DEF PhilType
<1>3. ForksInv
  BY <1>1 DEF ForksInv, Holds
<1>4. StatusInv /\ ProviderInv
  BY <1>1 DEF StatusInv, ProviderInv, Phils!CanEat
<1>5. TableInv
  <2>1. \A i \in Seats : Plates(i) = 0 /\ ~ Eats(i)
    BY <1>1 DEF Eats, Plates
  <2>2. \A i \in Seats : Left(i) \in Seats /\ Right(i) \in Seats
    OBVIOUS
  <2>3. \A i \in Seats : i \notin sleeping /\ pc[i] = "think"
    BY <1>1
  <2>4. table = "counts" =>
          \A i \in Seats : forks[i] = IF Left(i) = Right(i) THEN 2 - Plates(Left(i))
                                      ELSE 2 - Plates(Left(i)) - Plates(Right(i))
    BY <1>1, <2>1, <2>2
  <2>5. table = "table" => \A i \in Seats : forks[i] = 1 - Plates(i) - Plates(Left(i))
    BY <1>1, <2>1, <2>2
  <2>6. QED
    BY <1>1, <2>1, <2>2, <2>3, <2>4, <2>5 DEF TableInv
<1>6. QED
  BY <1>2, <1>3, <1>4, <1>5 DEF PhilInv

\* An end of a meal.
LEMMA MealEnds ==
  ASSUME PhilType, NEW i \in Seats, Phils!EndMeal(i)
  PROVE  \E l \in {"done", "think"} : pc' = [pc EXCEPT ![i] = l]
BY DEF Phils!EndMeal

\* The programs with a lock for each fork.
LEMMA ForksStep ==
  ASSUME PhilType, ForksInv, table = "forks", NEW i \in Seats, Phils!PhilStep(i)
  PROVE  PhilType' /\ ForksInv' /\ table' = table
<1> DEFINE F == Phils!FirstFork(i)
           G == Phils!SecondFork(i)
<1> HIDE DEF F, G
<1>a. /\ F \in Seats /\ G \in Seats /\ F # G /\ {F, G} = {i, Right(i)} /\ Right(i) \in Seats
      /\ Right(i) # i
      /\ \A f : Holds(i, f) <=> \/ pc[i] = "second" /\ f = F
                                \/ pc[i] = "eat" /\ f \in {i, Right(i)}
                                \/ pc[i] = "right" /\ f = Right(i)
  BY SeatFacts DEF F, G, Holds
<1>b. pc \in [Seats -> PhilLabels] /\ forks \in [Seats -> Int]
  BY DEF PhilType
\* What the hands of the others hold, and theirs alone is what i changes.
<1>c. ASSUME NEW l \in PhilLabels, pc' = [pc EXCEPT ![i] = l]
      PROVE  /\ \A k \in Seats \ {i} : \A f : Holds(k, f)' <=> Holds(k, f)
             /\ \A f : Holds(i, f)' <=> \/ l = "second" /\ f = F
                                        \/ l = "eat" /\ f \in {i, Right(i)}
                                        \/ l = "right" /\ f = Right(i)
  BY <1>b, <1>c DEF Holds, F
<1>d. ASSUME NEW l \in {"think", "second", "eat", "right", "done"}, NEW f \in Seats,
             NEW v \in {0, 1}, pc' = [pc EXCEPT ![i] = l], forks' = [forks EXCEPT ![f] = v],
             UNCHANGED <<table, status, sync, todo, sleeping>>,
             \/ /\ v = 0 /\ forks[f] # 0
                /\ \A g \in Seats : Holds(i, g)' <=> Holds(i, g) \/ g = f
             \/ /\ v = 1 /\ Holds(i, f)
                /\ \A g \in Seats : Holds(i, g)' <=> Holds(i, g) /\ g # f
      PROVE  PhilType' /\ ForksInv' /\ table' = table
  <2>1. l \in PhilLabels
    BY DEF PhilLabels
  <2>2. PhilType'
    BY <1>d, <2>1, <1>b DEF PhilType
  <2>3. \A k \in Seats \ {i} : \A g : Holds(k, g)' <=> Holds(k, g)
    BY <1>c, <1>d, <2>1
  <2>4. \A k \in Seats : pc'[k] \in {"think", "second", "eat", "right", "done"}
    BY <1>b, <1>d DEF ForksInv
  <2>5. \A k, g \in Seats : Holds(k, g)' => forks'[g] = 0
    BY <1>b, <1>d, <2>3 DEF ForksInv
  <2>6. \A m, k, g \in Seats : Holds(m, g)' /\ Holds(k, g)' => m = k
    BY <1>b, <1>d, <2>3 DEF ForksInv
  <2>7. QED
    BY <1>d, <2>2, <2>4, <2>5, <2>6 DEF ForksInv
<1>1. CASE Phils!PickFirst(i)
  <2>1. /\ pc' = [pc EXCEPT ![i] = "second"] /\ forks' = [forks EXCEPT ![F] = 0]
        /\ forks[F] = 1 /\ pc[i] = "think" /\ UNCHANGED <<table, status, sync, todo, sleeping>>
    BY <1>1 DEF Phils!PickFirst, Phils!Take, Phils!At, Phils!Goto, F
  <2>2. "second" \in PhilLabels
    BY DEF PhilLabels
  <2>3. \A f \in Seats : Holds(i, f)' <=> Holds(i, f) \/ f = F
    BY <1>a, <1>c, <2>1, <2>2
  <2>4. F \in Seats /\ 0 \in {0, 1} /\ forks[F] # 0
    BY <1>a, <2>1
  <2>5. QED
    BY <1>d, <2>1, <2>3, <2>4
<1>2. CASE Phils!PickSecond(i)
  <2>1. /\ pc' = [pc EXCEPT ![i] = "eat"] /\ forks' = [forks EXCEPT ![G] = 0]
        /\ forks[G] = 1 /\ pc[i] = "second" /\ UNCHANGED <<table, status, sync, todo, sleeping>>
    BY <1>2 DEF Phils!PickSecond, Phils!Take, Phils!At, Phils!Goto, G
  <2>2. "eat" \in PhilLabels
    BY DEF PhilLabels
  <2>3. \A f \in Seats : Holds(i, f)' <=> Holds(i, f) \/ f = G
    BY <1>a, <1>c, <2>1, <2>2
  <2>4. G \in Seats /\ 0 \in {0, 1} /\ forks[G] # 0
    BY <1>a, <2>1
  <2>5. QED
    BY <1>d, <2>1, <2>3, <2>4
<1>3. CASE Phils!PutBack(i)
  <2>1. /\ pc' = [pc EXCEPT ![i] = "right"] /\ forks' = [forks EXCEPT ![i] = 1]
        /\ pc[i] = "eat" /\ UNCHANGED <<table, status, sync, todo, sleeping>>
    BY <1>3 DEF Phils!PutBack, Phils!At, Phils!Goto
  <2>2. "right" \in PhilLabels
    BY DEF PhilLabels
  <2>3. \A f \in Seats : Holds(i, f)' <=> Holds(i, f) /\ f # i
    <3>1. \A f \in Seats : Holds(i, f)' <=> f = Right(i)
      BY <1>c, <2>1, <2>2
    <3>2. \A f \in Seats : Holds(i, f) <=> f \in {i, Right(i)}
      BY <1>a, <2>1
    <3>3. QED
      BY <1>a, <3>1, <3>2
  <2>4. 1 \in {0, 1} /\ Holds(i, i)
    BY <1>a, <2>1
  <2>5. QED
    BY <1>d, <2>1, <2>3, <2>4
<1>4. CASE Phils!PutBackRight(i)
  <2>1. PICK l \in {"done", "think"} : pc' = [pc EXCEPT ![i] = l]
    BY <1>4, MealEnds DEF Phils!PutBackRight
  <2>2. /\ forks' = [forks EXCEPT ![Right(i)] = 1]
        /\ pc[i] = "right" /\ UNCHANGED <<table, status, sync, todo, sleeping>>
    BY <1>4 DEF Phils!PutBackRight, Phils!At, Right
  <2>3. l \in PhilLabels
    BY DEF PhilLabels
  <2>4. \A f \in Seats : Holds(i, f)' <=> Holds(i, f) /\ f # Right(i)
    BY <1>a, <1>c, <2>1, <2>2, <2>3
  <2>5. Right(i) \in Seats /\ 1 \in {0, 1} /\ Holds(i, Right(i))
    BY <1>a, <2>2
  <2>6. l \in {"think", "second", "eat", "right", "done"}
    OBVIOUS
  <2>7. QED
    BY <1>d, <2>1, <2>2, <2>4, <2>5, <2>6
<1>5. QED
  BY <1>1, <1>2, <1>3, <1>4
  DEF Phils!PhilStep, Phils!At, Phils!PickHungry, Phils!AcquireSync, Phils!ReleaseBoth,
      Phils!AskProvider, Phils!TellProvider, Phils!MonitorPick, Phils!MonitorRelease

\* Who may begin to eat.
LEMMA MayEat ==
  ASSUME NEW s, NEW i \in Seats
  PROVE  Phils!CanEat(s, i) <=> /\ s[i] = "HUNGRY"
                                /\ s[Left(i)] # "EATING" /\ s[Right(i)] # "EATING"
BY SeatFacts DEF Phils!CanEat

Statuses == {"THINKING", "HUNGRY", "EATING"}

\* canEat(i) in state s: a philosopher that may eat begins to, and nobody else.
LEMMA SeatedEffect ==
  ASSUME NEW s \in [Seats -> Statuses], NEW i \in Seats
  PROVE  \/ Phils!CanEat(s, i) /\ Phils!Seated(s, i) = [s EXCEPT ![i] = "EATING"]
         \/ ~ Phils!CanEat(s, i) /\ Phils!Seated(s, i) = s
BY DEF Phils!Seated

\* philosophers_2.py
LEMMA StatusStep ==
  ASSUME PhilType, StatusInv, table = "status", NEW i \in Seats, Phils!PhilStep(i)
  PROVE  PhilType' /\ StatusInv' /\ table' = table
<1> DEFINE Own(k) == /\ pc[k] \in {"think", "sync", "eat", "done"}
                     /\ pc[k] = "eat" => status[k] = "EATING"
                     /\ status[k] = "EATING" <=> pc[k] = "eat" \/ sync[k] = 1
                     /\ sync[k] = 1 => pc[k] = "sync"
                     /\ status[k] = "HUNGRY" => pc[k] = "sync"
           Alone(k) == status[k] = "EATING" => status[Left(k)] # "EATING"
                                               /\ status[Right(k)] # "EATING"
           Told(k) == ~ (/\ status[k] = "HUNGRY"
                           /\ status[Left(k)] # "EATING" /\ status[Right(k)] # "EATING")
<1>a. /\ \A k \in Seats : Own(k) /\ Alone(k) /\ Told(k)
      /\ todo = <<>> /\ sleeping = {}
  BY MayEat DEF StatusInv
<1>b. ASSUME (\A k \in Seats : Own(k) /\ Alone(k) /\ Told(k))', UNCHANGED <<todo, sleeping>>
      PROVE  StatusInv'
  <2>1. \A k \in Seats : Phils!CanEat(status', k) <=>
           /\ status'[k] = "HUNGRY"
           /\ status'[Left(k)] # "EATING" /\ status'[Right(k)] # "EATING"
    BY MayEat
  <2>2. QED
    BY <1>a, <1>b, <2>1 DEF StatusInv
<1>c. /\ pc \in [Seats -> PhilLabels] /\ status \in [Seats -> Statuses]
      /\ sync \in [Seats -> {0, 1}] /\ \A k \in Seats : Left(k) \in Seats /\ Right(k) \in Seats
  BY SeatFacts DEF PhilType, Statuses
<1>e. sync \in [Seats -> {0, 1}] /\ sync = [k \in Seats |-> sync[k]]
      /\ \A k \in Seats : sync[k] = 0 \/ sync[k] = 1
  BY DEF PhilType
<1>d. ASSUME pc' \in [Seats -> PhilLabels], status' \in [Seats -> Statuses],
             sync' \in [Seats -> {0, 1}], UNCHANGED <<forks, todo, sleeping>>
      PROVE  PhilType'
  BY <1>d DEF PhilType, Statuses
<1>1. CASE Phils!PickHungry(i)
  <2> DEFINE s == [status EXCEPT ![i] = "HUNGRY"]
  <2>1. /\ pc[i] = "think" /\ status[i] = "THINKING" /\ sync[i] = 0
        /\ pc' = [pc EXCEPT ![i] = "sync"] /\ UNCHANGED <<table, forks, todo, sleeping>>
    BY <1>1, <1>a, <1>c DEF Phils!PickHungry, Phils!At, Phils!Goto, Statuses
  <2>2. s \in [Seats -> Statuses] /\ s[i] = "HUNGRY"
        /\ \A k \in Seats \ {i} : s[k] = status[k]
    BY <1>c DEF Statuses
  <2>3. \/ /\ status[Left(i)] # "EATING" /\ status[Right(i)] # "EATING"
           /\ status' = [status EXCEPT ![i] = "EATING"]
           /\ sync' = [sync EXCEPT ![i] = 1]
        \/ /\ status[Left(i)] = "EATING" \/ status[Right(i)] = "EATING"
           /\ status' = [status EXCEPT ![i] = "HUNGRY"]
           /\ sync' = sync
    <3>1. Phils!CanEat(s, i) <=> status[Left(i)] # "EATING" /\ status[Right(i)] # "EATING"
      BY <2>2, MayEat, SeatFacts
    <3>2. status' = Phils!Seated(s, i) /\ sync' = Phils!Released(s, status')
      BY <1>1 DEF Phils!PickHungry
    <3>3. CASE Phils!CanEat(s, i)
      <4>1. status' = [s EXCEPT ![i] = "EATING"]
        BY <3>2, <3>3, <2>2, SeatedEffect
      <4>2. \A k \in Seats : s[k] # "EATING" /\ status'[k] = "EATING" <=> k = i
        BY <4>1, <2>2
      <4>3. sync' = [k \in Seats |-> IF k = i THEN sync[k] + 1 ELSE sync[k]]
        BY <3>2, <4>2 DEF Phils!Released, Seats
      <4>4. sync' = [sync EXCEPT ![i] = 1]
        BY <4>3, <2>1, <1>e
      <4>5. status' = [status EXCEPT ![i] = "EATING"]
        BY <4>1, <1>c
      <4>6. QED
        BY <3>1, <3>3, <4>4, <4>5
    <3>4. CASE ~ Phils!CanEat(s, i)
      <4>1. status' = s
        BY <3>2, <3>4, <2>2, SeatedEffect
      <4>2. sync' = [k \in Seats |-> sync[k]]
        BY <3>2, <4>1 DEF Phils!Released, Seats
      <4>3. sync' = sync
        BY <4>2, <1>c
      <4>4. QED
        BY <3>1, <3>4, <4>1, <4>3
    <3>5. QED
      BY <3>3, <3>4
  <2>4. PhilType'
    <3>1. pc' \in [Seats -> PhilLabels]
      BY <1>c, <2>1 DEF PhilLabels
    <3>2. status' \in [Seats -> Statuses] /\ sync' \in [Seats -> {0, 1}]
      BY <1>c, <2>3 DEF Statuses
    <3>3. QED
      BY <3>1, <3>2, <2>1, <1>d
  <2>5. \A k \in Seats : Own(k)'
    BY <1>a, <1>c, <2>1, <2>3
  <2>6. \A k \in Seats : Alone(k)' /\ Told(k)'
    BY <1>a, <1>c, <2>1, <2>3, SeatFacts
  <2>7. QED
    BY <1>b, <2>1, <2>4, <2>5, <2>6
<1>2. CASE Phils!AcquireSync(i)
  <2>1. /\ pc[i] = "sync" /\ sync[i] > 0 /\ sync' = [sync EXCEPT ![i] = sync[i] - 1]
        /\ pc' = [pc EXCEPT ![i] = "eat"] /\ UNCHANGED <<table, forks, status, todo, sleeping>>
    BY <1>2 DEF Phils!AcquireSync, Phils!At, Phils!Goto
  <2>2. sync[i] = 1 /\ sync' = [sync EXCEPT ![i] = 0]
    <3>1. sync[i] = 1
      BY <2>1, <1>e
    <3>2. 1 - 1 = 0
      OBVIOUS
    <3>3. QED
      BY <2>1, <3>1, <3>2
  <2>3. PhilType'
    <3>1. pc' \in [Seats -> PhilLabels]
      BY <1>c, <2>1 DEF PhilLabels
    <3>2. QED
      BY <3>1, <2>1, <2>2, <1>c, <1>d
  <2>4. \A k \in Seats : Own(k)'
    BY <1>a, <1>c, <2>1, <2>2
  <2>5. \A k \in Seats : Alone(k)' /\ Told(k)'
    BY <1>a, <2>1
  <2>6. QED
    BY <1>b, <2>1, <2>3, <2>4, <2>5
<1>3. CASE Phils!ReleaseBoth(i)
  <2> DEFINE s == [status EXCEPT ![i] = "THINKING"]
             u == Phils!Seated(s, Right(i))
             FeedR == Phils!CanEat(s, Right(i))
             FeedL == Phils!CanEat(u, Left(i))
  <2>1. PICK l \in {"done", "think"} : pc' = [pc EXCEPT ![i] = l]
    BY <1>3, MealEnds DEF Phils!ReleaseBoth
  <2>2. /\ pc[i] = "eat" /\ status[i] = "EATING" /\ UNCHANGED <<table, forks, todo, sleeping>>
        /\ status' = Phils!Seated(u, Left(i)) /\ sync' = Phils!Released(s, status')
    BY <1>3, <1>a DEF Phils!ReleaseBoth, Phils!At, Left, Right
  <2>3. /\ s \in [Seats -> Statuses] /\ s[i] = "THINKING"
        /\ \A k \in Seats \ {i} : s[k] = status[k]
    BY <1>c DEF Statuses
  <2>4. /\ Left(i) \in Seats /\ Right(i) \in Seats /\ Left(i) # i /\ Right(i) # i
        /\ Left(Right(i)) = i /\ Right(Left(i)) = i
    BY SeatFacts
  <2>5. u = IF FeedR THEN [s EXCEPT ![Right(i)] = "EATING"] ELSE s
    BY <2>3, <2>4, SeatedEffect
  <2>6. u \in [Seats -> Statuses]
    BY <2>3, <2>4, <2>5 DEF Statuses
  <2>7. status' = IF FeedL THEN [u EXCEPT ![Left(i)] = "EATING"] ELSE u
    BY <2>2, <2>4, <2>6, SeatedEffect
  <2> HIDE DEF u, s
  <2>8. /\ FeedR <=> s[Right(i)] = "HUNGRY" /\ s[Right(Right(i))] # "EATING"
        /\ FeedL <=> u[Left(i)] = "HUNGRY" /\ u[Left(Left(i))] # "EATING" /\ u[i] # "EATING"
    <3>1. Phils!CanEat(s, Right(i)) <=> s[Right(i)] = "HUNGRY" /\ s[Right(Right(i))] # "EATING"
      <4>1. s[Left(Right(i))] # "EATING"
        BY <2>3, <2>4
      <4>2. QED
        BY <2>4, <4>1, MayEat
    <3>2. Phils!CanEat(u, Left(i)) <=>
            u[Left(i)] = "HUNGRY" /\ u[Left(Left(i))] # "EATING" /\ u[i] # "EATING"
      BY <2>4, MayEat
    <3>3. QED
      BY <3>1, <3>2
  <2> HIDE DEF FeedR, FeedL
  <2>9. status' \in [Seats -> Statuses]
    BY <2>4, <2>6, <2>7 DEF Statuses
  <2>10. \A k \in Seats : status'[k] = IF k = i THEN "THINKING"
                                       ELSE IF (FeedR /\ k = Right(i)) \/ (FeedL /\ k = Left(i))
                                       THEN "EATING" ELSE status[k]
    BY <2>3, <2>4, <2>5, <2>6, <2>7
  <2>11. /\ FeedR => status[Right(i)] = "HUNGRY" /\ Right(i) # i
         /\ FeedL => status[Left(i)] = "HUNGRY" /\ Left(i) # i
    BY <2>3, <2>4, <2>5, <2>8
  <2>12. \A k \in Seats : sync'[k] = IF (FeedR /\ k = Right(i)) \/ (FeedL /\ k = Left(i)) THEN 1 ELSE sync[k]
    <3>1. sync' = [k \in Seats |-> IF s[k] # "EATING" /\ status'[k] = "EATING"
                                  THEN sync[k] + 1 ELSE sync[k]]
      BY <2>2 DEF Phils!Released, Seats
    <3>2. \A k \in Seats : s[k] # "EATING" /\ status'[k] = "EATING" <=>
                             (FeedR /\ k = Right(i)) \/ (FeedL /\ k = Left(i))
      BY <2>3, <2>4, <2>10, <2>11
    <3>3. /\ FeedR => sync[Right(i)] = 0
          /\ FeedL => sync[Left(i)] = 0
      BY <1>a, <1>e, <2>4, <2>11
    <3>4. QED
      BY <3>1, <3>2, <3>3
  <2>13. sync' \in [Seats -> {0, 1}]
    <3>1. sync' = [k \in Seats |-> sync'[k]]
      BY <2>2 DEF Phils!Released, Seats
    <3>2. QED
      BY <3>1, <2>12, <1>e
  <2>14. PhilType'
    <3>1. pc' \in [Seats -> PhilLabels]
      BY <1>c, <2>1 DEF PhilLabels
    <3>2. QED
      BY <3>1, <2>2, <2>9, <2>13, <1>d
  <2>15. \A k \in Seats : Own(k)'
    BY <1>a, <1>c, <1>e, <2>1, <2>2, <2>4, <2>10, <2>11, <2>12
  <2>16. \A k \in Seats : Alone(k)' /\ Told(k)'
    <3> SUFFICES ASSUME NEW k \in Seats PROVE Alone(k)' /\ Told(k)'
      OBVIOUS
    <3>1. /\ Left(k) \in Seats /\ Right(k) \in Seats /\ Left(k) # k /\ Right(k) # k
          /\ Left(Right(k)) = k /\ Right(Left(k)) = k
      BY SeatFacts
    <3>2. /\ Right(Right(i)) \in Seats /\ Left(Left(i)) \in Seats
          /\ Right(Right(i)) # Right(i) /\ Left(Left(i)) # Left(i)
      BY <2>4, SeatFacts
    <3>3. \A m \in Seats : status'[m] = "HUNGRY" <=>
            status[m] = "HUNGRY" /\ ~ (FeedR /\ m = Right(i)) /\ ~ (FeedL /\ m = Left(i)) /\ m # i
      BY <2>10
    <3>4. \A m \in Seats : status'[m] = "EATING" <=>
            m # i /\ (status[m] = "EATING" \/ (FeedR /\ m = Right(i)) \/ (FeedL /\ m = Left(i)))
      BY <2>10, <2>4
    <3>5. FeedR <=> status[Right(i)] = "HUNGRY" /\ (Right(Right(i)) = i \/ status[Right(Right(i))] # "EATING")
      BY <2>3, <2>4, <2>8, <3>2
    <3>6. FeedL <=> /\ status[Left(i)] = "HUNGRY" /\ ~ (FeedR /\ Left(i) = Right(i))
                    /\ ~ (FeedR /\ Left(Left(i)) = Right(i))
                    /\ Left(Left(i)) = i \/ status[Left(Left(i))] # "EATING"
      BY <2>3, <2>4, <2>5, <2>8, <3>2
    <3>7. status[Left(i)] # "EATING" /\ status[Right(i)] # "EATING"
      BY <1>a, <2>2
    <3>8. Alone(k)'
      BY <1>a, <2>4, <3>1, <3>2, <3>4, <3>5, <3>6, <3>7
    <3>9. Told(k)'
      BY <1>a, <2>4, <3>1, <3>2, <3>3, <3>4, <3>5, <3>6, <3>7
    <3>10. QED
      BY <3>8, <3>9
  <2>17. QED
    BY <1>b, <2>2, <2>14, <2>15, <2>16
<1>4. QED
  BY <1>1, <1>2, <1>3
  DEF Phils!PhilStep, Phils!At, Phils!PickFirst, Phils!PickSecond, Phils!Take,
      Phils!PutBack, Phils!PutBackRight,
      Phils!AskProvider, Phils!TellProvider, Phils!MonitorPick, Phils!MonitorRelease

\* What is left to look at.
LEMMA TodoFacts ==
  ASSUME todo \in Seq(Seats), todo # <<>>
  PROVE  /\ Head(todo) \in Seats /\ Tail(todo) \in Seq(Seats)
         /\ \A k : InTodo(k) => k = Head(todo) \/ \E j \in DOMAIN Tail(todo) : Tail(todo)[j] = k
<1>1. /\ Len(todo) \in Nat /\ Len(todo) > 0 /\ DOMAIN todo = 1 .. Len(todo)
      /\ Head(todo) = todo[1] /\ Tail(todo) \in Seq(Seats) /\ Head(todo) \in Seats
      /\ Len(Tail(todo)) = Len(todo) - 1 /\ DOMAIN Tail(todo) = 1 .. Len(todo) - 1
      /\ \A j \in 1 .. Len(todo) - 1 : Tail(todo)[j] = todo[j + 1]
  BY EmptySeq, HeadTailProperties, LenProperties
<1>2. ASSUME NEW k, InTodo(k), k # Head(todo)
      PROVE  \E j \in DOMAIN Tail(todo) : Tail(todo)[j] = k
  <2>1. PICK m \in 1 .. Len(todo) : todo[m] = k
    BY <1>1, <1>2 DEF InTodo
  <2>2. m - 1 \in 1 .. Len(todo) - 1 /\ (m - 1) + 1 = m
    BY <1>1, <1>2, <2>1
  <2>3. QED
    BY <1>1, <2>1, <2>2
<1>3. QED
  BY <1>1, <1>2

\* philosophers_provider.go
LEMMA ProviderStep ==
  ASSUME PhilType, ProviderInv, table = "provider",
         Phils!Provide \/ \E i \in Seats : Phils!PhilStep(i)
  PROVE  PhilType' /\ ProviderInv' /\ table' = table
<1> DEFINE Own(k) == /\ pc[k] \in {"think", "await", "eat", "done"}
                     /\ status[k] = "EATING" <=> pc[k] = "eat"
                     /\ status[k] = "HUNGRY" <=> pc[k] = "await"
           Alone(k) == status[k] = "EATING" => status[Left(k)] # "EATING"
                                               /\ status[Right(k)] # "EATING"
           Might(k) == /\ status[k] = "HUNGRY"
                       /\ status[Left(k)] # "EATING" /\ status[Right(k)] # "EATING"
<1>a. sleeping = {} /\ \A k \in Seats : Own(k) /\ Alone(k) /\ (Might(k) => InTodo(k))
  BY MayEat DEF ProviderInv
<1>b. ASSUME \A k \in Seats : Own(k)' /\ Alone(k)' /\ (Might(k)' => InTodo(k)'), sleeping' = sleeping
      PROVE  ProviderInv'
  <2>1. \A k \in Seats : Phils!CanEat(status', k) <=> Might(k)'
    BY MayEat
  <2>2. QED
    BY <1>a, <1>b, <2>1 DEF ProviderInv
<1>c. /\ pc \in [Seats -> PhilLabels] /\ status \in [Seats -> Statuses] /\ todo \in Seq(Seats)
      /\ \A k \in Seats : /\ Left(k) \in Seats /\ Right(k) \in Seats
                          /\ Left(k) # k /\ Right(k) # k
                          /\ Left(Right(k)) = k /\ Right(Left(k)) = k
  BY SeatFacts DEF PhilType, Statuses
<1>d. ASSUME pc' \in [Seats -> PhilLabels], status' \in [Seats -> Statuses],
             todo' \in Seq(Seats), UNCHANGED <<forks, sync, sleeping>>
      PROVE  PhilType'
  BY <1>d DEF PhilType, Statuses
<1>e. "await" \in PhilLabels /\ "eat" \in PhilLabels /\ "done" \in PhilLabels
      /\ "think" \in PhilLabels /\ "HUNGRY" \in Statuses /\ "THINKING" \in Statuses
      /\ "EATING" \in Statuses
  BY DEF PhilLabels, Statuses
<1>1. ASSUME NEW i \in Seats, Phils!AskProvider(i)
      PROVE  PhilType' /\ ProviderInv' /\ table' = table
  <2>1. /\ pc[i] = "think" /\ todo = <<>> /\ pc' = [pc EXCEPT ![i] = "await"]
        /\ status' = [status EXCEPT ![i] = "HUNGRY"] /\ todo' = <<i>>
        /\ UNCHANGED <<table, forks, sync, sleeping>>
    BY <1>1 DEF Phils!AskProvider, Phils!At, Phils!Goto
  <2>2. status[i] = "THINKING" /\ \A k \in Seats : ~ InTodo(k) /\ ~ Might(k)
    BY <1>a, <1>c, <2>1 DEF InTodo, Statuses
  <2>3. InTodo(i)'
    BY <2>1 DEF InTodo
  <2>4. \A k \in Seats : Own(k)'
    BY <1>a, <1>c, <2>1
  <2>5. \A k \in Seats : Alone(k)' /\ (Might(k)' => k = i)
    BY <1>a, <1>c, <2>1, <2>2
  <2>6. PhilType'
    <3>1. pc' \in [Seats -> PhilLabels] /\ status' \in [Seats -> Statuses]
      BY <1>c, <1>e, <2>1
    <3>2. todo' \in Seq(Seats)
      BY <1>1, <2>1
    <3>3. QED
      BY <1>d, <2>1, <3>1, <3>2
  <2>7. QED
    BY <1>b, <2>1, <2>3, <2>4, <2>5, <2>6
<1>2. ASSUME NEW i \in Seats, Phils!TellProvider(i)
      PROVE  PhilType' /\ ProviderInv' /\ table' = table
  <2>1. PICK l \in {"done", "think"} : pc' = [pc EXCEPT ![i] = l]
    BY <1>2, MealEnds DEF Phils!TellProvider
  <2>2. /\ pc[i] = "eat" /\ todo = <<>> /\ status' = [status EXCEPT ![i] = "THINKING"]
        /\ todo' = <<Left(i), Right(i)>> /\ UNCHANGED <<table, forks, sync, sleeping>>
    BY <1>2 DEF Phils!TellProvider, Phils!At, Left, Right
  <2>3. \A k \in Seats : ~ InTodo(k) /\ ~ Might(k)
    BY <1>a, <2>2 DEF InTodo
  <2>4. InTodo(Left(i))' /\ InTodo(Right(i))'
    <3>1. 1 \in DOMAIN todo' /\ 2 \in DOMAIN todo' /\ todo'[1] = Left(i) /\ todo'[2] = Right(i)
      BY <2>2
    <3>2. QED
      BY <3>1 DEF InTodo
  <2>5. \A k \in Seats : Own(k)'
    BY <1>a, <1>c, <2>1, <2>2
  <2>6. \A k \in Seats : Alone(k)' /\ (Might(k)' => k = Left(i) \/ k = Right(i))
    BY <1>a, <1>c, <2>2, <2>3
  <2>7. PhilType'
    <3>1. pc' \in [Seats -> PhilLabels] /\ status' \in [Seats -> Statuses]
      BY <1>c, <1>e, <2>1, <2>2
    <3>2. todo' \in Seq(Seats)
      BY <1>c, <1>2, <2>2
    <3>3. QED
      BY <1>d, <2>2, <3>1, <3>2
  <2>8. QED
    BY <1>b, <2>2, <2>4, <2>5, <2>6, <2>7
<1>3. CASE Phils!Provide
  <2> DEFINE h == Head(todo)
  <2>1. /\ todo # <<>> /\ status' = Phils!Seated(status, h) /\ todo' = Tail(todo)
        /\ Phils!CanEat(status, h) => pc' = [pc EXCEPT ![h] = "eat"]
        /\ ~ Phils!CanEat(status, h) => pc' = pc
        /\ UNCHANGED <<table, forks, sync, sleeping>>
    BY <1>3 DEF Phils!Provide, Phils!Goto
  <2>2. /\ h \in Seats /\ todo' \in Seq(Seats)
        /\ \A k : InTodo(k) => k = h \/ InTodo(k)'
    BY <1>c, <2>1, TodoFacts DEF InTodo
  <2> HIDE DEF h
  <2>3. Phils!CanEat(status, h) <=> Might(h)
    BY <2>2, MayEat
  <2>4. \/ Might(h) /\ status' = [status EXCEPT ![h] = "EATING"] /\ pc' = [pc EXCEPT ![h] = "eat"]
        \/ ~ Might(h) /\ status' = status /\ pc' = pc
    BY <1>c, <2>1, <2>2, <2>3, SeatedEffect
  <2>5. \A k \in Seats : Own(k)'
    BY <1>a, <1>c, <2>2, <2>4
  <2>6. \A k \in Seats : Alone(k)'
    BY <1>a, <1>c, <2>2, <2>4
  <2>7. \A k \in Seats : Might(k)' => Might(k) /\ k # h
    BY <1>a, <1>c, <2>2, <2>4
  <2>8. PhilType'
    <3>1. pc' \in [Seats -> PhilLabels] /\ status' \in [Seats -> Statuses]
      BY <1>c, <1>e, <2>2, <2>4
    <3>2. QED
      BY <1>d, <2>1, <2>2, <3>1
  <2>9. \A k \in Seats : Might(k)' => InTodo(k)'
    BY <1>a, <2>2, <2>7
  <2>10. QED
    BY <1>b, <2>1, <2>5, <2>6, <2>8, <2>9
<1>4. QED
  BY <1>1, <1>2, <1>3
  DEF Phils!PhilStep, Phils!At, Phils!PickFirst, Phils!PickSecond, Phils!Take,
      Phils!PutBack, Phils!PutBackRight, Phils!PickHungry, Phils!AcquireSync,
      Phils!ReleaseBoth, Phils!MonitorPick, Phils!MonitorRelease

\* The forks of "counts" and of "table", when those who eat in p have theirs.
Plate(p, k) == IF p[k] = "eat" THEN 1 ELSE 0
Laid(f, p) ==
  IF table = "counts"
    THEN \A k \in Seats : f[k] = IF Left(k) = Right(k) THEN 2 - Plate(p, Left(k))
                                 ELSE 2 - Plate(p, Left(k)) - Plate(p, Right(k))
    ELSE \A k \in Seats : f[k] = 1 - Plate(p, k) - Plate(p, Left(k))
Free(f, k) == IF table = "counts" THEN f[k] = 2 ELSE f[k] = 1 /\ f[Right(k)] = 1

\* A philosopher that does not eat may if no neighbour does.
LEMMA FreeForks ==
  ASSUME NEW f, NEW p, Laid(f, p), NEW k \in Seats, p[k] # "eat"
  PROVE  Free(f, k) <=> p[Left(k)] # "eat" /\ p[Right(k)] # "eat"
<1>1. Left(k) \in Seats /\ Right(k) \in Seats /\ Left(Right(k)) = k
  BY SeatFacts
<1>2. CASE table = "counts"
  BY <1>1, <1>2 DEF Laid, Free, Plate
<1>3. CASE table # "counts"
  BY <1>1, <1>3 DEF Laid, Free, Plate
<1>4. QED
  BY <1>2, <1>3

\* Philosopher i begins to eat, or ends: its forks are taken, or put back.
Served(f, p, i, g, q) ==
  \E l \in PhilLabels :
    /\ q = [p EXCEPT ![i] = l]
    /\ \/ /\ p[i] # "eat" /\ l = "eat"
          /\ g = [j \in Seats |-> IF j \in Phils!MonitorTaken(i) THEN f[j] - 1 ELSE f[j]]
       \/ /\ p[i] = "eat" /\ l # "eat"
          /\ g = [j \in Seats |-> IF j \in Phils!MonitorTaken(i) THEN f[j] + 1 ELSE f[j]]

\* The forks of a philosopher change with its place.
LEMMA LaidAgain ==
  ASSUME NEW f, NEW p \in [Seats -> PhilLabels], Laid(f, p), NEW i \in Seats,
         NEW g, NEW q, Served(f, p, i, g, q)
  PROVE  Laid(g, q)
<1> DEFINE d == Plate(q, i) - Plate(p, i)
<1>1. /\ d \in {-1, 1} /\ \A k \in Seats \ {i} : Plate(q, k) = Plate(p, k)
      /\ \A k \in Seats : g[k] = IF k \in Phils!MonitorTaken(i) THEN f[k] - d ELSE f[k]
      /\ \A k \in Seats : Plate(p, k) \in Int /\ Plate(q, k) \in Int
      /\ Plate(q, i) = Plate(p, i) + d
  <2>1. PICK l \in PhilLabels :
           /\ q = [p EXCEPT ![i] = l]
           /\ \/ /\ p[i] # "eat" /\ l = "eat"
                 /\ g = [j \in Seats |-> IF j \in Phils!MonitorTaken(i) THEN f[j] - 1 ELSE f[j]]
              \/ /\ p[i] = "eat" /\ l # "eat"
                 /\ g = [j \in Seats |-> IF j \in Phils!MonitorTaken(i) THEN f[j] + 1 ELSE f[j]]
    BY DEF Served
  <2>2. q[i] = l /\ \A k \in Seats \ {i} : q[k] = p[k]
    BY <2>1
  <2>3. \A k \in Seats : f[k] \in Int
    BY SeatFacts DEF Laid, Plate
  <2>4. CASE p[i] # "eat"
    <3>1. d = 1 /\ l = "eat" /\ \A k \in Seats \ {i} : Plate(q, k) = Plate(p, k)
      BY <2>1, <2>2, <2>4 DEF Plate
    <3>2. QED
      BY <2>1, <2>2, <2>4, <3>1 DEF Plate
  <2>5. CASE p[i] = "eat"
    <3>1. d = -1 /\ l # "eat" /\ \A k \in Seats \ {i} : Plate(q, k) = Plate(p, k)
      BY <2>1, <2>2, <2>5 DEF Plate
    <3>2. \A k \in Seats : f[k] - d = f[k] + 1
      BY <2>3, <3>1
    <3>3. g = [j \in Seats |-> IF j \in Phils!MonitorTaken(i) THEN f[j] + 1 ELSE f[j]]
      BY <2>1, <2>5
    <3>4. \A k \in Seats : g[k] = IF k \in Phils!MonitorTaken(i) THEN f[k] - d ELSE f[k]
      BY <3>2, <3>3
    <3>5. Plate(q, i) = 0 /\ Plate(p, i) = 1
      BY <2>2, <2>5, <3>1 DEF Plate
    <3>6. \A k \in Seats : Plate(p, k) \in Int /\ Plate(q, k) \in Int
      BY DEF Plate
    <3>7. d \in {-1, 1} /\ Plate(q, i) = Plate(p, i) + d
      BY <3>1, <3>5
    <3>8. QED
      BY <3>1, <3>4, <3>6, <3>7
  <2>6. QED
    BY <2>4, <2>5
<1> HIDE DEF d
<1>2. \A k \in Seats : /\ Left(k) \in Seats /\ Right(k) \in Seats
                       /\ Left(k) # k /\ Right(k) # k
                       /\ Left(Right(k)) = k /\ Right(Left(k)) = k
  BY SeatFacts
<1>3. CASE table = "counts"
  <2>1. Phils!MonitorTaken(i) = {Left(i), Right(i)}
    BY <1>3, SeatFacts DEF Phils!MonitorTaken
  <2>2. \A k \in Seats : k \in Phils!MonitorTaken(i) <=> Left(k) = i \/ Right(k) = i
    BY <1>2, <2>1
  <2>3. \A k \in Seats : g[k] = IF Left(k) = Right(k) THEN 2 - Plate(q, Left(k))
                                ELSE 2 - Plate(q, Left(k)) - Plate(q, Right(k))
    <3> SUFFICES ASSUME NEW k \in Seats
                 PROVE  g[k] = IF Left(k) = Right(k) THEN 2 - Plate(q, Left(k))
                               ELSE 2 - Plate(q, Left(k)) - Plate(q, Right(k))
      OBVIOUS
    <3>1. /\ f[k] = IF Left(k) = Right(k) THEN 2 - Plate(p, Left(k))
                    ELSE 2 - Plate(p, Left(k)) - Plate(p, Right(k))
          /\ g[k] = IF Left(k) = i \/ Right(k) = i THEN f[k] - d ELSE f[k]
      BY <1>1, <1>3, <2>2 DEF Laid
    <3>2. /\ Plate(q, Left(k)) = IF Left(k) = i THEN Plate(p, Left(k)) + d ELSE Plate(p, Left(k))
          /\ Plate(q, Right(k)) = IF Right(k) = i THEN Plate(p, Right(k)) + d ELSE Plate(p, Right(k))
          /\ Plate(p, Left(k)) \in Int /\ Plate(p, Right(k)) \in Int
      BY <1>1, <1>2
    <3>3. d \in Int
      BY <1>1
    <3>4. QED
      BY <3>1, <3>2, <3>3
  <2>4. QED
    BY <1>3, <2>3 DEF Laid
<1>4. CASE table # "counts"
  <2>1. Phils!MonitorTaken(i) = {i, Right(i)}
    BY <1>4 DEF Phils!MonitorTaken, Right
  <2>2. \A k \in Seats : k \in Phils!MonitorTaken(i) <=> k = i \/ Left(k) = i
    BY <1>2, <2>1
  <2>3. \A k \in Seats : g[k] = 1 - Plate(q, k) - Plate(q, Left(k))
    <3> SUFFICES ASSUME NEW k \in Seats
                 PROVE  g[k] = 1 - Plate(q, k) - Plate(q, Left(k))
      OBVIOUS
    <3>1. /\ f[k] = 1 - Plate(p, k) - Plate(p, Left(k))
          /\ g[k] = IF k = i \/ Left(k) = i THEN f[k] - d ELSE f[k]
      BY <1>1, <1>4, <2>2 DEF Laid
    <3>2. /\ Plate(q, Left(k)) = IF Left(k) = i THEN Plate(p, Left(k)) + d ELSE Plate(p, Left(k))
          /\ Plate(q, k) = IF k = i THEN Plate(p, k) + d ELSE Plate(p, k)
          /\ Plate(p, Left(k)) \in Int /\ Plate(p, k) \in Int
      BY <1>1, <1>2
    <3>3. d \in Int /\ Left(k) # k
      BY <1>1, <1>2
    <3>4. QED
      BY <3>1, <3>2, <3>3
  <2>4. QED
    BY <1>4, <2>3 DEF Laid
<1>5. QED
  BY <1>3, <1>4

\* The monitors
LEMMA TableStep ==
  ASSUME PhilType, TableInv, table \in {"counts", "table"}, NEW i \in Seats,
         Phils!PhilStep(i) \/ Phils!SpuriousWake(i)
  PROVE  PhilType' /\ TableInv' /\ table' = table
<1> DEFINE Own(k) == /\ pc[k] \in {"think", "eat", "done"}
                     /\ pc[k] = "eat" => pc[Left(k)] # "eat" /\ pc[Right(k)] # "eat"
                     /\ status[k] = "THINKING"
           Napping(k) == /\ pc[k] = "think"
                         /\ pc[Left(k)] = "eat" \/ pc[Right(k)] = "eat"
<1>a. /\ pc \in [Seats -> PhilLabels] /\ sleeping \subseteq Seats
      /\ \A k \in Seats : /\ Left(k) \in Seats /\ Right(k) \in Seats
                          /\ Left(k) # k /\ Right(k) # k
                          /\ Left(Right(k)) = k /\ Right(Left(k)) = k
  BY SeatFacts DEF PhilType
<1>b. Laid(forks, pc)
  BY DEF TableInv, Laid, Plate, Plates, Eats
<1>c. \A k \in Seats : Phils!Available(k) <=> Free(forks, k)
  BY DEF Phils!Available, Free, Right
<1>d. \A k \in Seats : Own(k)
  BY DEF TableInv, Eats
<1>e. \A k \in sleeping : Napping(k)
  BY <1>a, <1>b, <1>c, FreeForks DEF TableInv
<1>f. ASSUME NEW l \in PhilLabels, pc' = [pc EXCEPT ![i] = l], UNCHANGED <<table, status, sync, todo>>,
             forks' \in [Seats -> Int], sleeping' \subseteq Seats, Laid(forks', pc'),
             \A k \in Seats : Own(k)', \A k \in sleeping' : Napping(k)'
      PROVE  PhilType' /\ TableInv' /\ table' = table
  <2>1. PhilType'
    BY <1>f, <1>a DEF PhilType
  <2>2. \A k \in Seats : Phils!Available(k)' <=> Free(forks', k)
    BY <1>f DEF Phils!Available, Free, Right
  <2>3. \A k \in Seats : k \in sleeping' => pc'[k] = "think" /\ ~ Phils!Available(k)'
    <3> SUFFICES ASSUME NEW k \in Seats, k \in sleeping'
                 PROVE  pc'[k] = "think" /\ ~ Phils!Available(k)'
      OBVIOUS
    <3>1. Napping(k)'
      BY <1>f
    <3>2. Free(forks', k) <=> pc'[Left(k)] # "eat" /\ pc'[Right(k)] # "eat"
      <4>1. Laid(forks', pc')
        BY <1>f
      <4>2. pc'[k] # "eat"
        BY <3>1
      <4>3. QED
        BY <4>1, <4>2, FreeForks
    <3>3. QED
      BY <2>2, <3>1, <3>2
  <2>4. /\ table' = "counts" =>
             \A k \in Seats : forks'[k] = IF Left(k) = Right(k) THEN 2 - Plates(Left(k))'
                                          ELSE 2 - Plates(Left(k))' - Plates(Right(k))'
        /\ table' = "table" => \A k \in Seats : forks'[k] = 1 - Plates(k)' - Plates(Left(k))'
    BY <1>f DEF Laid, Plate, Plates, Eats
  <2>5. \A k \in Seats : /\ pc'[k] \in {"think", "eat", "done"}
                         /\ Eats(k)' => ~ Eats(Left(k))' /\ ~ Eats(Right(k))'
                         /\ status'[k] = "THINKING"
    BY <1>f DEF Eats
  <2>6. QED
    BY <1>f, <2>1, <2>3, <2>4, <2>5 DEF TableInv
<1>g. forks \in [Seats -> Int] /\ pc[i] \in PhilLabels
      /\ "eat" \in PhilLabels /\ "done" \in PhilLabels /\ "think" \in PhilLabels
  BY <1>a DEF PhilLabels, PhilType
<1>1. CASE Phils!MonitorPick(i)
  <2>1. /\ pc[i] = "think" /\ UNCHANGED <<table, status, sync, todo>>
        /\ \/ /\ Phils!Available(i) /\ pc' = [pc EXCEPT ![i] = "eat"] /\ sleeping' = sleeping
              /\ forks' = [j \in Seats |-> IF j \in Phils!MonitorTaken(i) THEN forks[j] - 1 ELSE forks[j]]
           \/ /\ ~ Phils!Available(i) /\ pc' = pc /\ forks' = forks
              /\ sleeping' = sleeping \cup {i}
    BY <1>1 DEF Phils!MonitorPick, Phils!Goto, Seats
  <2>2. Phils!Available(i) <=> pc[Left(i)] # "eat" /\ pc[Right(i)] # "eat"
    BY <1>b, <1>c, <2>1, FreeForks
  <2>3. CASE Phils!Available(i)
    <3>1. Served(forks, pc, i, forks', pc')
      BY <1>g, <2>1, <2>3 DEF Served
    <3>7. Laid(forks', pc')
      BY <1>a, <1>b, <3>1, LaidAgain
    <3>2. \A k \in Seats : Own(k)'
      BY <1>a, <1>d, <2>1, <2>2, <2>3
    <3>3. \A k \in sleeping' : k # i
      BY <1>e, <2>1, <2>2, <2>3
    <3>4. \A k \in sleeping' : Napping(k)'
      BY <1>a, <1>e, <2>1, <2>3, <3>3
    <3>5. forks' \in [Seats -> Int]
      BY <1>g, <2>1, <2>3
    <3>6. QED
      BY <1>a, <1>f, <1>g, <2>1, <2>3, <3>2, <3>4, <3>5, <3>7
  <2>4. CASE ~ Phils!Available(i)
    <3>1. pc' = [pc EXCEPT ![i] = pc[i]]
      BY <1>a, <2>1, <2>4
    <3>2. \A k \in sleeping' : Napping(k)'
      BY <1>e, <2>1, <2>2, <2>4
    <3>3. \A k \in Seats : Own(k)'
      BY <1>d, <2>1, <2>4
    <3>4. Laid(forks', pc')
      BY <1>b, <2>1, <2>4
    <3>5. sleeping' \subseteq Seats /\ forks' \in [Seats -> Int]
      BY <1>a, <1>g, <2>1, <2>4
    <3>6. QED
      BY <1>f, <1>g, <2>1, <3>1, <3>2, <3>3, <3>4, <3>5
  <2>5. QED
    BY <2>3, <2>4
<1>2. CASE Phils!MonitorRelease(i)
  <2>1. PICK l \in {"done", "think"} : pc' = [pc EXCEPT ![i] = l]
    BY <1>2, MealEnds DEF Phils!MonitorRelease
  <2>2. /\ pc[i] = "eat" /\ UNCHANGED <<table, status, sync, todo>>
        /\ forks' = [j \in Seats |-> IF j \in Phils!MonitorTaken(i) THEN forks[j] + 1 ELSE forks[j]]
        /\ sleeping' = IF table = "counts" THEN sleeping \ {j \in Phils!Neighbours(i) : forks'[j] = 2}
                                           ELSE {}
    BY <1>2 DEF Phils!MonitorRelease, Seats
  <2>3. Laid(forks', pc')
    <3>1. l \in PhilLabels /\ l # "eat"
      BY <1>g, <2>1
    <3>2. Served(forks, pc, i, forks', pc')
      BY <2>1, <2>2, <3>1 DEF Served
    <3>3. QED
      BY <1>a, <1>b, <3>2, LaidAgain
  <2>4. \A k \in Seats : Own(k)'
    BY <1>a, <1>d, <2>1, <2>2
  <2>5. \A k \in sleeping' : Napping(k)'
    <3> SUFFICES ASSUME NEW k \in sleeping' PROVE Napping(k)'
      OBVIOUS
    <3>1. table = "counts" /\ k \in sleeping /\ ~ (k \in Phils!Neighbours(i) /\ forks'[k] = 2)
      BY <2>2
    <3>2. k \in Seats /\ Napping(k) /\ k # i
      BY <1>a, <1>e, <2>2, <3>1
    <3>3. pc'[k] = "think"
      BY <1>a, <2>1, <3>2
    <3>4. CASE k \in Phils!Neighbours(i)
      <4>1. ~ Free(forks', k)
        BY <3>1, <3>4 DEF Free
      <4>2. QED
        BY <2>3, <3>2, <3>3, <4>1, FreeForks
    <3>5. CASE k \notin Phils!Neighbours(i)
      <4>1. Left(k) # i /\ Right(k) # i
        BY <1>a, <3>2, <3>5, SeatFacts
      <4>2. QED
        BY <1>a, <2>1, <3>2, <3>3, <4>1
    <3>6. QED
      BY <3>4, <3>5
  <2>6. forks' \in [Seats -> Int] /\ sleeping' \subseteq Seats
    BY <1>a, <1>g, <2>2
  <2>7. QED
    BY <1>f, <1>g, <2>1, <2>2, <2>3, <2>4, <2>5, <2>6
<1>3. CASE Phils!SpuriousWake(i)
  <2>1. sleeping' = sleeping \ {i} /\ UNCHANGED <<table, pc, forks, status, sync, todo>>
    BY <1>3 DEF Phils!SpuriousWake
  <2>2. pc' = [pc EXCEPT ![i] = pc[i]] /\ Laid(forks', pc')
    BY <1>a, <1>b, <2>1
  <2>3. \A k \in Seats : Own(k)'
    BY <1>d, <2>1
  <2>4. \A k \in sleeping' : Napping(k)'
    BY <1>e, <2>1
  <2>5. forks' \in [Seats -> Int] /\ sleeping' \subseteq Seats
    BY <1>a, <1>g, <2>1
  <2>6. QED
    BY <1>f, <1>g, <2>1, <2>2, <2>3, <2>4, <2>5
<1>4. QED
  BY <1>1, <1>2, <1>3
  DEF Phils!PhilStep, Phils!At, Phils!PickFirst, Phils!PickSecond, Phils!Take,
      Phils!PutBack, Phils!PutBackRight, Phils!PickHungry, Phils!AcquireSync,
      Phils!ReleaseBoth, Phils!AskProvider, Phils!TellProvider

\* No step of the philosophers, of the provider or of nobody breaks PhilInv.
LEMMA PhilKeeps ==
  ASSUME PhilInv,
         \/ Phils!Provide
         \/ \E i \in Seats : Phils!PhilStep(i) \/ Phils!SpuriousWake(i)
         \/ UNCHANGED <<pc, philonly, sleeping>>
  PROVE  PhilInv'
<1>1. CASE UNCHANGED <<pc, philonly, sleeping>>
  BY <1>1 DEF PhilInv, PhilType, ForksInv, StatusInv, ProviderInv, TableInv, philonly, Holds,
     InTodo, Phils!CanEat, Phils!Available, Eats, Plates
<1>2. CASE Phils!Provide
  <2>1. table = "provider"
    BY <1>2 DEF Phils!Provide
  <2>2. QED
    BY <1>2, <2>1, ProviderStep DEF PhilInv
<1>3. ASSUME NEW i \in Seats, Phils!PhilStep(i) \/ Phils!SpuriousWake(i) PROVE PhilInv'
  <2>1. CASE Phils!SpuriousWake(i)
    <3>1. sleeping # {}
      BY <2>1 DEF Phils!SpuriousWake
    <3>2. table \in {"counts", "table"}
      BY <3>1 DEF PhilInv, ForksInv, StatusInv, ProviderInv
    <3>3. QED
      BY <2>1, <3>2, TableStep DEF PhilInv
  <2>2. CASE Phils!PhilStep(i)
    BY <2>2, ForksStep, StatusStep, ProviderStep, TableStep DEF PhilInv
  <2>3. QED
    BY <1>3, <2>1, <2>2
<1>4. QED
  BY <1>1, <1>2, <1>3

\* Neighbours eat apart, and nobody who could eat is forgotten.
LEMMA PhilPromises ==
  ASSUME PhilInv
  PROVE  Phils!NeighboursEatApart /\ Phils!NobodyStarvesUnnoticed
<1> USE SeatFacts DEF PhilInv
<1>1. CASE table = "forks"
  <2>1. Phils!NeighboursEatApart
    <3> SUFFICES ASSUME NEW i \in Seats, pc[i] = "eat"
                 PROVE  pc[Left(i)] \notin {"eat", "right"} /\ pc[Right(i)] # "eat"
      BY DEF Phils!NeighboursEatApart, Seats, Left, Right
    <3>1. Holds(i, i) /\ Holds(i, Right(i))
      BY DEF Holds
    <3>2. pc[Left(i)] \in {"eat", "right"} => Holds(Left(i), i)
      BY DEF Holds
    <3>3. pc[Right(i)] = "eat" => Holds(Right(i), Right(i))
      BY DEF Holds
    <3>4. QED
      BY <1>1, <3>1, <3>2, <3>3 DEF ForksInv
  <2>2. Phils!NobodyStarvesUnnoticed
    BY <1>1 DEF Phils!NobodyStarvesUnnoticed, ForksInv, Phils!CanEat, Seats
  <2>3. QED
    BY <2>1, <2>2
<1>2. CASE table = "status"
  <2>1. Phils!NeighboursEatApart
    BY <1>2 DEF StatusInv, Phils!NeighboursEatApart, Seats, Left, Right
  <2>2. Phils!NobodyStarvesUnnoticed
    BY <1>2 DEF StatusInv, PhilType, Phils!NobodyStarvesUnnoticed, Seats
  <2>3. QED
    BY <2>1, <2>2
<1>3. CASE table = "provider"
  <2>1. Phils!NeighboursEatApart
    BY <1>3 DEF ProviderInv, Phils!NeighboursEatApart, Seats, Left, Right
  <2>2. Phils!NobodyStarvesUnnoticed
    BY <1>3 DEF ProviderInv, InTodo, Phils!NobodyStarvesUnnoticed, Seats
  <2>3. QED
    BY <2>1, <2>2
<1>4. CASE table \in {"counts", "table"}
  <2>1. Phils!NeighboursEatApart
    BY <1>4 DEF TableInv, Eats, Phils!NeighboursEatApart, Seats, Left, Right
  <2>2. Phils!NobodyStarvesUnnoticed
    BY <1>4 DEF TableInv, PhilType, Phils!NobodyStarvesUnnoticed, Phils!CanEat, Seats
  <2>3. QED
    BY <2>1, <2>2
<1>5. QED
  BY <1>1, <1>2, <1>3, <1>4

-----------------------------------------------------------------------------
(* Stacks                                                                  *)

Lists == Stacks!Lists
Ends == Nodes \cup {NULL}
StackLabels == {"read", "link", "linked", "swap", "clear", "done"}
Calls == {"get", "put", "take", "back"}

\* What follows the first i nodes of the sequence s, which starts at n.
LinkOf(f, s, n, i) == IF i = 0 THEN n ELSE f[s[i]]

\* Chain(n) of TreiberStack for any links f and number m of nodes.
ChainOf(f, n, m) ==
  CHOOSE s \in UNION {[1 .. k -> Nodes] : k \in 0 .. m} :
    /\ \A i \in 1 .. Len(s) : s[i] = LinkOf(f, s, n, i - 1)
    /\ Len(s) < m => LinkOf(f, s, n, Len(s)) = NULL

\* s is the list that starts at n.
FullChain(f, s, n) == /\ \A i \in 1 .. Len(s) : s[i] = LinkOf(f, s, n, i - 1)
                      /\ LinkOf(f, s, n, Len(s)) = NULL

\* The lists L start at the heads h, and a node is once in one of them or belongs
\* to one thread.
Chains(L, h, f, o) ==
  /\ L \in [Lists -> Seq(Nodes)]
  /\ \A l \in Lists : FullChain(f, L[l], h[l].node)
  /\ \A l, k \in Lists : \A i \in 1 .. Len(L[l]), j \in 1 .. Len(L[k]) :
       L[l][i] = L[k][j] => l = k /\ i = j
  /\ \A t \in Duo : \A l \in Lists : \A i \in 1 .. Len(L[l]) : o[t] # L[l][i]
  /\ \A t, u \in Duo : o[t] = o[u] /\ o[t] # NULL => t = u

StackTypes ==
  /\ head \in [Lists -> [node : Ends, aba : Nat]]
  /\ next \in [Nodes -> Ends]
  /\ e \in [Duo -> Ends]
  /\ old \in [Duo -> [node : Ends, aba : Nat]]
  /\ after \in [Duo -> Ends]
  /\ call \in [Duo -> Calls]
  /\ pc \in [Duo -> StackLabels]

\* A pop owns no node, and a push owns one; what a thread has read of a head is
\* not newer than the head.  If it still is the head, the pointer that the thread
\* would put there, or has put into its node, is the right one.
InCall(t) ==
  /\ e[t] = NULL <=> Stacks!Pops(t)
  /\ pc[t] \in {"linked", "clear"} => ~ Stacks!Pops(t)
  /\ pc[t] \in {"link", "linked", "swap"} => old[t].aba <= head[Stacks!List(t)].aba
  /\ pc[t] = "swap" /\ old[t] = head[Stacks!List(t)] =>
       IF Stacks!Pops(t) THEN old[t].node # NULL /\ after[t] = next[old[t].node]
                         ELSE next[e[t]] = old[t].node

StackInv == /\ variant \in {"tagged", "llsc"}
            /\ StackTypes
            /\ \A t \in Duo : InCall(t)
            /\ \E L : Chains(L, head, next, e)

\* A nonempty set of naturals has a least element.
LEMMA LeastOf ==
  ASSUME NEW S, S \subseteq Nat, S # {}
  PROVE  \E x \in S : \A y \in S : x <= y
<1>1. PICK x \in S : \A y \in S : ~ (<<y, x>> \in OpToRel(<, Nat))
  BY NatLessThanWellFounded, WFMin
<1>2. ASSUME NEW y \in S, y < x
      PROVE  <<y, x>> \in OpToRel(<, Nat)
  BY <1>2 DEF OpToRel
<1>3. ASSUME NEW y \in S
      PROVE  x <= y
  <2>1. ~ (y < x)
    BY <1>1, <1>2
  <2>2. QED
    BY <2>1
<1>4. QED
  BY <1>3

\* Of two sequences that follow the links from n, the one that ends at NULL, or
\* has all the nodes, is the longer.
LEMMA ChainPrefix ==
  ASSUME NEW f, NEW n, NEW s \in Seq(Nodes), NEW q \in Seq(Nodes), NULL \notin Nodes,
         NEW m \in Nat, Len(s) <= m,
         \A i \in 1 .. Len(s) : s[i] = LinkOf(f, s, n, i - 1),
         \A i \in 1 .. Len(q) : q[i] = LinkOf(f, q, n, i - 1),
         Len(q) < m => LinkOf(f, q, n, Len(q)) = NULL
  PROVE  Len(s) <= Len(q) /\ \A i \in 1 .. Len(s) : s[i] = q[i]
<1> DEFINE D == {i \in 1 .. Len(s) : i > Len(q) \/ s[i] # q[i]}
<1>0. Len(s) \in Nat /\ Len(q) \in Nat
  OBVIOUS
<1>1. SUFFICES ASSUME D # {} PROVE FALSE
  BY <1>0
<1>2. PICK i \in D : \A j \in D : i <= j
  <2>1. D \subseteq Nat
    OBVIOUS
  <2> HIDE DEF D
  <2>2. QED
    BY <1>1, <2>1, LeastOf
<1>3. i \in 1 .. Len(s) /\ i \in Nat /\ i - 1 \in Nat /\ (i > Len(q) \/ s[i] # q[i])
  BY <1>0, <1>2
<1>4. \A j \in 1 .. i - 1 : j \in 1 .. Len(s) /\ j <= Len(q) /\ s[j] = q[j]
  BY <1>0, <1>2, <1>3
<1>5. i - 1 <= Len(q)
  <2>1. CASE i = 1
    BY <2>1, <1>0
  <2>2. CASE i # 1
    <3>1. i - 1 \in 1 .. i - 1
      BY <2>2, <1>3
    <3>2. QED
      BY <3>1, <1>4
  <2>3. QED
    BY <2>1, <2>2
<1>6. LinkOf(f, s, n, i - 1) = LinkOf(f, q, n, i - 1)
  <2>1. CASE i = 1
    BY <2>1 DEF LinkOf
  <2>2. CASE i # 1
    <3>1. i - 1 \in 1 .. i - 1
      BY <2>2, <1>3
    <3>2. s[i - 1] = q[i - 1]
      BY <3>1, <1>4
    <3>3. QED
      BY <3>2 DEF LinkOf
  <2>3. QED
    BY <2>1, <2>2
<1>7. s[i] = LinkOf(f, q, n, i - 1) /\ s[i] \in Nodes
  BY <1>3, <1>6, ElementOfSeq
<1>8. CASE i <= Len(q)
  <2>1. q[i] = LinkOf(f, q, n, i - 1)
    BY <1>3, <1>8, <1>0
  <2>2. QED
    BY <2>1, <1>3, <1>7, <1>8, <1>0
<1>9. CASE i > Len(q)
  <2>1. Len(q) = i - 1
    BY <1>0, <1>3, <1>5, <1>9
  <2>2. Len(q) < m
    BY <2>1, <1>0, <1>3
  <2>3. LinkOf(f, q, n, i - 1) = NULL
    BY <2>1, <2>2
  <2>4. QED
    BY <2>3, <1>7
<1>10. QED
  BY <1>0, <1>3, <1>8, <1>9

\* A list without repetitions is what TreiberStack reads from its head.
LEMMA ChainIs ==
  ASSUME IsFiniteSet(Nodes), NULL \notin Nodes, NEW f, NEW n, NEW s \in Seq(Nodes),
         FullChain(f, s, n), \A i, j \in 1 .. Len(s) : s[i] = s[j] => i = j
  PROVE  ChainOf(f, n, Cardinality(Nodes)) = s
<1> DEFINE m == Cardinality(Nodes)
           All == UNION {[1 .. k -> Nodes] : k \in 0 .. m}
           Fits(q) == /\ \A i \in 1 .. Len(q) : q[i] = LinkOf(f, q, n, i - 1)
                      /\ Len(q) < m => LinkOf(f, q, n, Len(q)) = NULL
<1>1. m \in Nat /\ Len(s) \in Nat /\ s \in [1 .. Len(s) -> Nodes]
  BY FS_CardinalityType
<1>2. Len(s) <= m
  <2>1. s \in Injection(1 .. Len(s), Nodes)
    BY <1>1 DEF Injection, IsInjective
  <2>2. Cardinality(1 .. Len(s)) <= m
    BY <2>1, FS_Injection
  <2> DEFINE k == Len(s)
  <2>3. Cardinality(1 .. Len(s)) = Len(s)
    <3> HIDE DEF k
    <3>1. k \in Nat => Cardinality(1 .. k) = IF 1 > k THEN 0 ELSE k - 1 + 1
      BY FS_Interval
    <3>2. k \in Nat => Cardinality(1 .. k) = k
      BY <3>1
    <3>3. QED
      BY <1>1, <3>2 DEF k
  <2>4. QED
    BY <2>2, <2>3
<1>3. s \in All /\ Fits(s)
  BY <1>1, <1>2 DEF FullChain
<1>4. ASSUME NEW q \in All, Fits(q) PROVE q = s
  <2>1. PICK k \in 0 .. m : q \in [1 .. k -> Nodes]
    OBVIOUS
  <2>2. q \in Seq(Nodes) /\ Len(q) = k
    BY <2>1
  <2> HIDE DEF m
  <2>3. Len(q) \in Nat /\ Len(q) <= m
    BY <1>1, <2>2
  <2>a. /\ \A i \in 1 .. Len(q) : q[i] = LinkOf(f, q, n, i - 1)
        /\ Len(q) < m => LinkOf(f, q, n, Len(q)) = NULL
    BY <1>4
  <2>b. /\ \A i \in 1 .. Len(s) : s[i] = LinkOf(f, s, n, i - 1)
        /\ LinkOf(f, s, n, Len(s)) = NULL
    BY DEF FullChain
  <2>4. Len(s) <= Len(q) /\ \A i \in 1 .. Len(s) : s[i] = q[i]
    BY <1>1, <1>2, <2>a, <2>b, <2>2, ChainPrefix
  <2>5. Len(q) <= Len(s) /\ \A i \in 1 .. Len(q) : q[i] = s[i]
    BY <1>1, <2>a, <2>b, <2>2, <2>3, ChainPrefix
  <2>6. Len(q) = Len(s)
    BY <1>1, <2>3, <2>4, <2>5
  <2>7. QED
    BY <2>2, <2>5, <2>6, SeqEqual
<1> HIDE DEF m, All, Fits
<1>5. s = CHOOSE q \in All : Fits(q)
  BY <1>3, <1>4
<1>6. QED
  BY <1>5 DEF All, Fits, m, ChainOf

\* A store into a node that belongs to a thread changes no list.
LEMMA ChainsWrite ==
  ASSUME NEW L, NEW h, NEW f, NEW o, Chains(L, h, f, o), f \in [Nodes -> Ends],
         NEW t \in Duo, NEW n
  PROVE  Chains(L, h, [f EXCEPT ![o[t]] = n], o)
<1> DEFINE g == [f EXCEPT ![o[t]] = n]
<1>1. ASSUME NEW l \in Lists PROVE FullChain(g, L[l], h[l].node)
  <2>1. FullChain(f, L[l], h[l].node) /\ L[l] \in Seq(Nodes)
    BY DEF Chains
  <2>2. \A i \in 1 .. Len(L[l]) : L[l][i] \in Nodes /\ o[t] # L[l][i]
    BY <2>1, ElementOfSeq DEF Chains
  <2>3. \A i \in 1 .. Len(L[l]) : g[L[l][i]] = f[L[l][i]]
    BY <2>2
  <2> HIDE DEF g
  <2>4. Len(L[l]) \in Nat
    BY <2>1
  <2>5. \A i \in 0 .. Len(L[l]) : LinkOf(g, L[l], h[l].node, i) = LinkOf(f, L[l], h[l].node, i)
    BY <2>3, <2>4 DEF LinkOf
  <2>6. QED
    BY <2>1, <2>4, <2>5 DEF FullChain
<1> HIDE DEF g
<1>2. QED
  BY <1>1 DEF Chains, g

\* malloc() returns a node that is nobody's.
LEMMA ChainsTake ==
  ASSUME NEW L, NEW h, NEW f, NEW o, Chains(L, h, f, o), o \in [Duo -> Ends],
         NEW t \in Duo, NEW n \in Nodes, \A u \in Duo : o[u] # n,
         \A l \in Lists : \A i \in 1 .. Len(L[l]) : L[l][i] # n
  PROVE  Chains(L, h, f, [o EXCEPT ![t] = n])
<1> DEFINE p == [o EXCEPT ![t] = n]
<1>1. p[t] = n /\ \A u \in Duo \ {t} : p[u] = o[u]
  OBVIOUS
<1> HIDE DEF p
<1>2. QED
  BY <1>1 DEF Chains, p

\* push() puts the node of t before the list l.
LEMMA ChainsPush ==
  ASSUME NEW L, NEW h, NEW f, NEW o, Chains(L, h, f, o), o \in [Duo -> Ends], NULL \notin Nodes,
         h \in [Lists -> [node : Ends, aba : Nat]],
         NEW t \in Duo, NEW l \in Lists, NEW a, o[t] \in Nodes, f[o[t]] = h[l].node
  PROVE  Chains([L EXCEPT ![l] = <<o[t]>> \o @], [h EXCEPT ![l] = [node |-> o[t], aba |-> a]],
                f, [o EXCEPT ![t] = NULL])
<1> DEFINE p == [o EXCEPT ![t] = NULL]
           g == [h EXCEPT ![l] = [node |-> o[t], aba |-> a]]
           M == [L EXCEPT ![l] = <<o[t]>> \o @]
<1>1. p[t] = NULL /\ \A u \in Duo \ {t} : p[u] = o[u]
  OBVIOUS
<1>2. g[l].node = o[t] /\ \A k \in Lists \ {l} : g[k] = h[k]
  OBVIOUS
<1>3. L \in [Lists -> Seq(Nodes)] /\ L[l] \in Seq(Nodes) /\ <<o[t]>> \in Seq(Nodes)
  BY DEF Chains
<1>4. M \in [Lists -> Seq(Nodes)] /\ M[l] = <<o[t]>> \o L[l] /\ \A k \in Lists \ {l} : M[k] = L[k]
  BY <1>3
<1> HIDE DEF p, g, M
<1>5. /\ Len(L[l]) \in Nat /\ Len(M[l]) = Len(L[l]) + 1 /\ M[l][1] = o[t]
      /\ \A i \in 2 .. Len(M[l]) : M[l][i] = L[l][i - 1]
  BY <1>3, <1>4, ConcatProperties
<1>6. FullChain(f, M[l], g[l].node)
  <2>1. FullChain(f, L[l], h[l].node)
    BY DEF Chains
  <2>2. \A i \in 1 .. Len(L[l]) + 1 : LinkOf(f, M[l], o[t], i) = LinkOf(f, L[l], h[l].node, i - 1)
    <3>1. LinkOf(f, M[l], o[t], 1) = LinkOf(f, L[l], h[l].node, 0)
      BY <1>5 DEF LinkOf
    <3>2. ASSUME NEW i \in 2 .. Len(L[l]) + 1
          PROVE  LinkOf(f, M[l], o[t], i) = LinkOf(f, L[l], h[l].node, i - 1)
      <4>1. i # 0 /\ i - 1 # 0 /\ M[l][i] = L[l][i - 1]
        BY <1>5
      <4>2. QED
        BY <4>1 DEF LinkOf
    <3>3. QED
      BY <1>5, <3>1, <3>2
  <2>3. LinkOf(f, M[l], o[t], Len(M[l])) = NULL
    BY <1>5, <2>1, <2>2 DEF FullChain
  <2>4. ASSUME NEW i \in 1 .. Len(M[l]) PROVE M[l][i] = LinkOf(f, M[l], o[t], i - 1)
    <3>1. CASE i = 1
      BY <1>5, <3>1 DEF LinkOf
    <3>2. CASE i # 1
      <4>1. i - 1 \in 1 .. Len(L[l]) /\ i \in 2 .. Len(M[l])
        BY <1>5, <3>2
      <4>2. L[l][i - 1] = LinkOf(f, L[l], h[l].node, i - 1 - 1)
        BY <2>1, <4>1 DEF FullChain
      <4>3. LinkOf(f, M[l], o[t], i - 1) = LinkOf(f, L[l], h[l].node, i - 1 - 1)
        BY <2>2, <4>1, <1>5
      <4>4. QED
        BY <1>5, <4>1, <4>2, <4>3
    <3>3. QED
      BY <3>1, <3>2
  <2>5. QED
    BY <1>2, <2>3, <2>4 DEF FullChain
<1>7. \A k \in Lists : FullChain(f, M[k], g[k].node)
  BY <1>2, <1>4, <1>6 DEF Chains
<1>8. \A k \in Lists : \A i \in 1 .. Len(M[k]) :
        \/ k = l /\ i = 1 /\ M[k][i] = o[t]
        \/ k = l /\ i - 1 \in 1 .. Len(L[l]) /\ M[k][i] = L[l][i - 1]
        \/ k # l /\ i \in 1 .. Len(L[k]) /\ M[k][i] = L[k][i]
  BY <1>4, <1>5
<1>9. \A k \in Lists : \A i \in 1 .. Len(L[k]) : L[k][i] # o[t] /\ i \in Nat
  BY DEF Chains
<1>d. \A k, j \in Lists : \A i \in 1 .. Len(L[k]), m \in 1 .. Len(L[j]) :
        L[k][i] = L[j][m] => k = j /\ i = m
  BY DEF Chains
<1>10. ASSUME NEW k \in Lists, NEW j \in Lists, NEW i \in 1 .. Len(M[k]), NEW m \in 1 .. Len(M[j]),
              M[k][i] = M[j][m]
       PROVE  k = j /\ i = m
  <2>1. i \in Nat /\ m \in Nat
    BY <1>4
  <2>2. \/ k = l /\ i = 1 /\ M[k][i] = o[t]
        \/ k = l /\ i - 1 \in 1 .. Len(L[k]) /\ M[k][i] = L[k][i - 1]
        \/ k # l /\ i \in 1 .. Len(L[k]) /\ M[k][i] = L[k][i]
    BY <1>8
  <2>3. \/ j = l /\ m = 1 /\ M[j][m] = o[t]
        \/ j = l /\ m - 1 \in 1 .. Len(L[j]) /\ M[j][m] = L[j][m - 1]
        \/ j # l /\ m \in 1 .. Len(L[j]) /\ M[j][m] = L[j][m]
    BY <1>8
  <2>4. CASE k = l /\ i = 1 /\ M[k][i] = o[t]
    BY <1>9, <1>10, <2>3, <2>4
  <2>5. CASE k = l /\ i - 1 \in 1 .. Len(L[k]) /\ M[k][i] = L[k][i - 1]
    <3>1. ~ (j = l /\ m = 1 /\ M[j][m] = o[t])
      BY <1>9, <1>10, <2>5
    <3>2. CASE j = l /\ m - 1 \in 1 .. Len(L[j]) /\ M[j][m] = L[j][m - 1]
      <4>1. \A q \in 1 .. Len(L[j]) : L[k][i - 1] = L[j][q] => i - 1 = q
        BY SMTT(30), <1>d, <2>5
      <4>2. i - 1 = m - 1
        BY <1>10, <2>5, <3>2, <4>1
      <4>3. QED
        BY <2>1, <2>5, <3>2, <4>2
    <3>3. CASE j # l /\ m \in 1 .. Len(L[j]) /\ M[j][m] = L[j][m]
      BY <1>d, <1>10, <2>5, <3>3
    <3>4. QED
      BY <2>3, <3>1, <3>2, <3>3
  <2>6. CASE k # l /\ i \in 1 .. Len(L[k]) /\ M[k][i] = L[k][i]
    <3>1. ~ (j = l /\ m = 1 /\ M[j][m] = o[t])
      BY <1>9, <1>10, <2>6
    <3>2. ~ (j = l /\ m - 1 \in 1 .. Len(L[j]) /\ M[j][m] = L[j][m - 1])
      <4>1. \A q \in 1 .. Len(L[j]) : L[k][i] = L[j][q] => k = j
        BY <1>d, <2>6
      <4>2. QED
        BY <1>10, <2>6, <4>1
    <3>3. QED
      BY <1>d, <1>10, <2>3, <2>6, <3>1, <3>2
  <2>7. QED
    BY <2>2, <2>4, <2>5, <2>6
<1>11. ASSUME NEW u \in Duo, NEW k \in Lists, NEW i \in 1 .. Len(M[k]) PROVE p[u] # M[k][i]
  <2>1. M[k][i] \in Nodes
    BY <1>4, ElementOfSeq
  <2>2. CASE u = t
    BY <1>1, <2>1, <2>2
  <2>3. CASE u # t
    <3>1. p[u] = o[u] /\ (o[u] = o[t] => FALSE)
      BY <1>1, <2>3 DEF Chains
    <3>2. \A j \in Lists : \A m \in 1 .. Len(L[j]) : o[u] # L[j][m]
      BY DEF Chains
    <3>3. \/ M[k][i] = o[t]
          \/ i - 1 \in 1 .. Len(L[l]) /\ M[k][i] = L[l][i - 1]
          \/ i \in 1 .. Len(L[k]) /\ M[k][i] = L[k][i]
      BY <1>8
    <3>4. QED
      BY <3>1, <3>2, <3>3
  <2>4. QED
    BY <2>2, <2>3
<1>12. \A u, v \in Duo : p[u] = p[v] /\ p[u] # NULL => u = v
  BY <1>1 DEF Chains
<1>13. QED
  BY <1>4, <1>7, <1>10, <1>11, <1>12 DEF Chains, p, g, M

\* The head of a list that is not empty.
LEMMA ChainsHead ==
  ASSUME NEW L, NEW h, NEW f, NEW o, Chains(L, h, f, o), NEW l \in Lists
  PROVE  /\ h[l].node = NULL => L[l] = <<>> \/ NULL \in Nodes
         /\ h[l].node # NULL => L[l] # <<>> /\ Len(L[l]) \in Nat \ {0} /\ Head(L[l]) = h[l].node /\ L[l][1] = h[l].node
                                /\ h[l].node \in Nodes
<1>1. FullChain(f, L[l], h[l].node) /\ L[l] \in Seq(Nodes)
  BY DEF Chains
<1>2. Len(L[l]) = 0 => h[l].node = NULL
  BY <1>1 DEF FullChain, LinkOf
<1>3. ASSUME Len(L[l]) # 0
      PROVE  1 \in 1 .. Len(L[l]) /\ L[l][1] = h[l].node /\ L[l][1] \in Nodes /\ L[l] # <<>> /\ Head(L[l]) = L[l][1]
  <2>1. 1 \in 1 .. Len(L[l])
    BY <1>1, <1>3
  <2>2. L[l][1] = LinkOf(f, L[l], h[l].node, 0)
    BY <1>1, <2>1 DEF FullChain
  <2>3. QED
    BY <1>1, <1>3, <2>1, <2>2, ElementOfSeq DEF LinkOf
<1>4. QED
  BY <1>1, <1>2, <1>3

\* pop() gives t the first node of the list l.
LEMMA ChainsPop ==
  ASSUME NEW L, NEW h, NEW f, NEW o, Chains(L, h, f, o), o \in [Duo -> Ends],
         h \in [Lists -> [node : Ends, aba : Nat]],
         NEW t \in Duo, NEW l \in Lists, NEW a, h[l].node # NULL
  PROVE  Chains([L EXCEPT ![l] = Tail(@)], [h EXCEPT ![l] = [node |-> f[h[l].node], aba |-> a]],
                f, [o EXCEPT ![t] = h[l].node])
<1> DEFINE p == [o EXCEPT ![t] = h[l].node]
           g == [h EXCEPT ![l] = [node |-> f[h[l].node], aba |-> a]]
           M == [L EXCEPT ![l] = Tail(@)]
<1>1. p[t] = h[l].node /\ \A u \in Duo \ {t} : p[u] = o[u]
  OBVIOUS
<1>2. g[l].node = f[h[l].node] /\ \A k \in Lists \ {l} : g[k] = h[k]
  OBVIOUS
<1>3. /\ L \in [Lists -> Seq(Nodes)] /\ L[l] \in Seq(Nodes) /\ L[l] # <<>>
      /\ Len(L[l]) \in Nat \ {0} /\ L[l][1] = h[l].node
  <2>1. L \in [Lists -> Seq(Nodes)]
    BY DEF Chains
  <2>2. QED
    BY <2>1, ChainsHead
<1>4. M \in [Lists -> Seq(Nodes)] /\ M[l] = Tail(L[l]) /\ \A k \in Lists \ {l} : M[k] = L[k]
  BY <1>3
<1> HIDE DEF p, g, M
<1>5. /\ Len(M[l]) \in Nat /\ Len(L[l]) = Len(M[l]) + 1
      /\ \A i \in 1 .. Len(M[l]) : M[l][i] = L[l][i + 1]
  BY <1>3, <1>4, HeadTailProperties
<1>6. FullChain(f, M[l], g[l].node)
  <2>1. FullChain(f, L[l], h[l].node)
    BY DEF Chains
  <2>2. ASSUME NEW i \in 0 .. Len(M[l])
        PROVE  LinkOf(f, M[l], g[l].node, i) = LinkOf(f, L[l], h[l].node, i + 1)
    <3>1. CASE i = 0
      BY <1>2, <1>3, <3>1 DEF LinkOf
    <3>2. CASE i # 0
      <4>1. i + 1 # 0 /\ M[l][i] = L[l][i + 1]
        BY <1>5, <3>2
      <4>2. QED
        BY <3>2, <4>1 DEF LinkOf
    <3>3. QED
      BY <3>1, <3>2
  <2>3. LinkOf(f, M[l], g[l].node, Len(M[l])) = NULL
    BY <1>5, <2>1, <2>2 DEF FullChain
  <2>4. ASSUME NEW i \in 1 .. Len(M[l]) PROVE M[l][i] = LinkOf(f, M[l], g[l].node, i - 1)
    <3>1. i + 1 \in 1 .. Len(L[l]) /\ i - 1 \in 0 .. Len(M[l]) /\ (i + 1) - 1 = (i - 1) + 1
      BY <1>5
    <3>2. L[l][i + 1] = LinkOf(f, L[l], h[l].node, (i + 1) - 1)
      BY <2>1, <3>1 DEF FullChain
    <3>3. QED
      BY <1>5, <2>2, <3>1, <3>2
  <2>5. QED
    BY <2>3, <2>4 DEF FullChain
<1>7. \A k \in Lists : FullChain(f, M[k], g[k].node)
  BY <1>2, <1>4, <1>6 DEF Chains
<1>8. ASSUME NEW k \in Lists, NEW i \in 1 .. Len(M[k])
      PROVE  /\ i \in Nat
             /\ \/ k = l /\ i + 1 \in 1 .. Len(L[k]) /\ M[k][i] = L[k][i + 1]
                \/ k # l /\ i \in 1 .. Len(L[k]) /\ M[k][i] = L[k][i]
  <2>1. i \in Nat
    BY <1>4
  <2>2. CASE k = l
    BY <1>5, <2>1, <2>2
  <2>3. CASE k # l
    BY <1>4, <2>1, <2>3
  <2>4. QED
    BY <2>1, <2>2, <2>3
<1>d. \A k, j \in Lists : \A i \in 1 .. Len(L[k]), m \in 1 .. Len(L[j]) :
        L[k][i] = L[j][m] => k = j /\ i = m
  BY DEF Chains
<1>9. ASSUME NEW k \in Lists, NEW j \in Lists, NEW i \in 1 .. Len(M[k]), NEW m \in 1 .. Len(M[j]),
             M[k][i] = M[j][m]
      PROVE  k = j /\ i = m
  <2>1. i \in Nat /\ m \in Nat
    BY <1>8
  <2>2. CASE k = l /\ i + 1 \in 1 .. Len(L[k]) /\ M[k][i] = L[k][i + 1]
    <3>1. CASE j = l /\ m + 1 \in 1 .. Len(L[j]) /\ M[j][m] = L[j][m + 1]
      <4>1. i + 1 = m + 1
        BY <1>d, <1>9, <2>2, <3>1
      <4>2. QED
        BY <2>1, <2>2, <3>1, <4>1
    <3>2. CASE j # l /\ m \in 1 .. Len(L[j]) /\ M[j][m] = L[j][m]
      BY <1>d, <1>9, <2>2, <3>2
    <3>3. QED
      BY <1>8, <3>1, <3>2
  <2>3. CASE k # l /\ i \in 1 .. Len(L[k]) /\ M[k][i] = L[k][i]
    <3>1. ~ (j = l /\ m + 1 \in 1 .. Len(L[j]) /\ M[j][m] = L[j][m + 1])
      BY <1>d, <1>9, <2>3
    <3>2. CASE j # l /\ m \in 1 .. Len(L[j]) /\ M[j][m] = L[j][m]
      <4>1. L[k][i] = L[j][m]
        BY <1>9, <2>3, <3>2
      <4>2. QED
        BY <1>d, <2>3, <3>2, <4>1
    <3>3. QED
      BY <1>8, <3>1, <3>2
  <2>4. QED
    BY <1>8, <2>2, <2>3
<1>10. 1 \in 1 .. Len(L[l])
  BY <1>3
<1>11. ASSUME NEW u \in Duo, NEW k \in Lists, NEW i \in 1 .. Len(M[k]) PROVE p[u] # M[k][i]
  <2>1. CASE u = t
    <3>1. p[u] = L[l][1]
      BY <1>1, <1>3, <2>1
    <3>2. CASE k = l /\ i + 1 \in 1 .. Len(L[k]) /\ M[k][i] = L[k][i + 1]
      <4>1. i + 1 # 1
        BY <1>8
      <4>2. QED
        BY <1>d, <1>10, <3>1, <3>2, <4>1
    <3>3. CASE k # l /\ i \in 1 .. Len(L[k]) /\ M[k][i] = L[k][i]
      BY <1>d, <1>10, <3>1, <3>3
    <3>4. QED
      BY <1>8, <3>2, <3>3
  <2>2. CASE u # t
    <3>1. p[u] = o[u]
      BY <1>1, <2>2
    <3>2. \A j \in Lists : \A m \in 1 .. Len(L[j]) : o[u] # L[j][m]
      BY DEF Chains
    <3>3. QED
      BY <1>8, <3>1, <3>2
  <2>3. QED
    BY <2>1, <2>2
<1>12. \A u, v \in Duo : p[u] = p[v] /\ p[u] # NULL => u = v
  <2>1. \A u \in Duo : o[u] # L[l][1]
    BY <1>10 DEF Chains
  <2>2. QED
    BY <1>1, <1>3, <2>1 DEF Chains
<1>13. QED
  BY <1>4, <1>7, <1>9, <1>11, <1>12 DEF Chains, p, g, M

\* The lists of the invariant are those that TreiberStack maps to LifoStack.
LEMMA ContentsAre ==
  ASSUME NEW L, Chains(L, head, next, e)
  PROVE  Stacks!Contents = L
<1>1. ASSUME NEW l \in Lists PROVE ChainOf(next, head[l].node, Cardinality(Nodes)) = L[l]
  <2>1. L[l] \in Seq(Nodes) /\ FullChain(next, L[l], head[l].node)
    BY DEF Chains
  <2>2. \A i, j \in 1 .. Len(L[l]) : L[l][i] = L[l][j] => i = j
    BY DEF Chains
  <2>3. QED
    BY <2>1, <2>2, ChainIs, BlockingAssumption
<1>2. Stacks!Cardinality(Nodes) = Cardinality(Nodes)
  BY DEF Stacks!Cardinality, Cardinality
<1>3. L = [l \in Lists |-> L[l]]
  BY DEF Chains
<1>4. Stacks!Contents = [l \in Lists |-> ChainOf(next, head[l].node, Stacks!Cardinality(Nodes))]
  BY DEF Stacks!Contents, Stacks!Chain, Stacks!Link, ChainOf, LinkOf, Lists
<1>5. QED
  BY <1>1, <1>2, <1>3, <1>4

\* So are those of the next state.
LEMMA ContentsWillBe ==
  ASSUME NEW L, Chains(L, head', next', e')
  PROVE  Stacks!Contents' = L
<1>1. ASSUME NEW l \in Lists PROVE ChainOf(next', head'[l].node, Cardinality(Nodes)) = L[l]
  <2>1. L[l] \in Seq(Nodes) /\ FullChain(next', L[l], head'[l].node)
    BY DEF Chains
  <2>2. \A i, j \in 1 .. Len(L[l]) : L[l][i] = L[l][j] => i = j
    BY DEF Chains
  <2>3. QED
    BY <2>1, <2>2, ChainIs, BlockingAssumption
<1>2. Stacks!Cardinality(Nodes) = Cardinality(Nodes)
  BY DEF Stacks!Cardinality, Cardinality
<1>3. L = [l \in Lists |-> L[l]]
  BY DEF Chains
<1>4. Stacks!Contents' =
        [l \in Lists |-> ChainOf(next', head'[l].node, Stacks!Cardinality(Nodes))]
  BY DEF Stacks!Contents, Stacks!Chain, Stacks!Link, ChainOf, LinkOf, Lists
<1>5. QED
  BY <1>1, <1>2, <1>3, <1>4

\* A thread moves and leaves the heads alone, and the nodes of the others.
LEMMA QuietMove ==
  ASSUME StackInv, NEW t \in Duo, NEW L, Chains(L, head, next, e), Chains(L, head, next', e'),
         UNCHANGED <<variant, head>>, StackTypes', InCall(t)',
         \A u \in Duo \ {t} : /\ e'[u] = e[u] /\ old'[u] = old[u] /\ after'[u] = after[u]
                              /\ call'[u] = call[u] /\ pc'[u] = pc[u],
         \A n \in Nodes : n # e[t] => next'[n] = next[n]
  PROVE  StackInv' /\ UNCHANGED Stacks!Contents
<1>1. ASSUME NEW u \in Duo \ {t} PROVE InCall(u)'
  <2>1. InCall(u)
    BY DEF StackInv
  <2>2. ASSUME pc[u] = "swap", old[u] = head[Stacks!List(u)], Stacks!Pops(u)
        PROVE  next'[old[u].node] = next[old[u].node]
    <3>1. Stacks!List(u) \in Lists
      BY DEF Stacks!List, Lists, Stacks!Lists
    <3>2. old[u].node # NULL /\ head[Stacks!List(u)].node # NULL
      BY <2>1, <2>2 DEF InCall
    <3>3. /\ Len(L[Stacks!List(u)]) \in Nat \ {0}
          /\ L[Stacks!List(u)][1] = old[u].node /\ old[u].node \in Nodes
      BY <2>2, <3>1, <3>2, ChainsHead
    <3>4. e[t] # old[u].node
      BY <3>1, <3>3 DEF Chains
    <3>5. QED
      BY <3>3, <3>4
  <2>3. ASSUME pc[u] = "swap", ~ Stacks!Pops(u)
        PROVE  next'[e[u]] = next[e[u]]
    <3>1. e[u] # NULL /\ e[u] \in Nodes /\ e[u] # e[t]
      BY <2>1, <2>3 DEF InCall, Chains, StackInv, StackTypes, Ends
    <3>2. QED
      BY <3>1
  <2>4. /\ e'[u] = e[u] /\ old'[u] = old[u] /\ after'[u] = after[u]
        /\ call'[u] = call[u] /\ pc'[u] = pc[u] /\ head' = head
    OBVIOUS
  <2>5. (Stacks!Pops(u)' <=> Stacks!Pops(u)) /\ Stacks!List(u)' = Stacks!List(u)
    BY <2>4 DEF Stacks!Pops, Stacks!List
  <2>6. QED
    BY <2>1, <2>2, <2>3, <2>4, <2>5 DEF InCall
<1>2. \A u \in Duo : InCall(u)'
  BY <1>1
<1>3. Stacks!Contents = L /\ Stacks!Contents' = L
  BY ContentsAre, ContentsWillBe
<1>4. QED
  BY <1>2, <1>3 DEF StackInv

\* The steps of t that change no list keep the invariant.
LEMMA StackQuiet ==
  ASSUME StackInv, NEW t \in Duo,
         \/ Stacks!ReadHead(t) \/ Stacks!ReadNext(t) \/ Stacks!WriteNext(t)
         \/ Stacks!LoadLinked(t) \/ Stacks!SwapFails(t) \/ Stacks!ClearNext(t)
  PROVE  StackInv' /\ UNCHANGED <<Stacks!Contents, e>>
<1>1. PICK L : Chains(L, head, next, e)
  BY DEF StackInv
<1>2. StackTypes /\ InCall(t)
  BY DEF StackInv
<1>3. Stacks!List(t) \in Lists /\ head[Stacks!List(t)] \in [node : Ends, aba : Nat]
  BY <1>2 DEF Stacks!List, Lists, Stacks!Lists, StackTypes
<1>4. ~ Stacks!Pops(t) => e[t] \in Nodes
  BY <1>2 DEF InCall, StackTypes, Ends
<1>c. UNCHANGED call => (Stacks!Pops(t)' <=> Stacks!Pops(t)) /\ Stacks!List(t)' = Stacks!List(t)
  BY DEF Stacks!Pops, Stacks!List
<1>5. CASE Stacks!ReadHead(t)
  <2>1. UNCHANGED <<variant, head, next, e, after, call>> /\ pc[t] = "read"
    BY <1>5 DEF Stacks!ReadHead
  <2>2. old' = [old EXCEPT ![t] = head[Stacks!List(t)]] /\ pc' = [pc EXCEPT ![t] = "link"]
    BY <1>5 DEF Stacks!ReadHead, Stacks!Goto
  <2>3. "link" \in StackLabels
    BY DEF StackLabels
  <2>4. StackTypes'
    BY <1>2, <1>3, <2>1, <2>2, <2>3 DEF StackTypes
  <2>5. old'[t] = head[Stacks!List(t)] /\ pc'[t] = "link"
    BY <1>2, <2>2 DEF StackTypes
  <2>6. InCall(t)'
    BY <1>2, <1>3, <1>c, <2>1, <2>5 DEF InCall
  <2>7. Chains(L, head, next', e')
    BY <1>1, <2>1
  <2>8. \A u \in Duo \ {t} : old'[u] = old[u] /\ pc'[u] = pc[u]
    BY <1>2, <2>2 DEF StackTypes
  <2>9. QED
    BY <1>1, <2>1, <2>4, <2>6, <2>7, <2>8, QuietMove
<1>6. CASE Stacks!ReadNext(t)
  <2>1. /\ UNCHANGED <<variant, head, next, e, old, call>>
        /\ pc[t] = "link" /\ Stacks!Pops(t) /\ old[t].node # NULL
    BY <1>6 DEF Stacks!ReadNext
  <2>2. after' = [after EXCEPT ![t] = next[old[t].node]] /\ pc' = [pc EXCEPT ![t] = "swap"]
    BY <1>6 DEF Stacks!ReadNext, Stacks!Goto
  <2>3. "swap" \in StackLabels
    BY DEF StackLabels
  <2>a. next[old[t].node] \in Ends
    BY <1>2, <2>1 DEF StackTypes, Ends
  <2>4. StackTypes'
    BY <1>2, <2>1, <2>2, <2>3, <2>a DEF StackTypes
  <2>5. after'[t] = next[old[t].node] /\ pc'[t] = "swap"
    BY <1>2, <2>2 DEF StackTypes
  <2>6. InCall(t)'
    BY <1>2, <1>c, <2>1, <2>5 DEF InCall
  <2>7. Chains(L, head, next', e')
    BY <1>1, <2>1
  <2>8. \A u \in Duo \ {t} : after'[u] = after[u] /\ pc'[u] = pc[u]
    BY <1>2, <2>2 DEF StackTypes
  <2>9. QED
    BY <1>1, <2>1, <2>4, <2>6, <2>7, <2>8, QuietMove
<1>7. CASE Stacks!WriteNext(t)
  <2>1. /\ UNCHANGED <<variant, head, e, old, after, call>>
        /\ pc[t] = "link" /\ ~ Stacks!Pops(t)
    BY <1>7 DEF Stacks!WriteNext
  <2>2. PICK l \in {"linked", "swap"} :
          /\ next' = [next EXCEPT ![e[t]] = old[t].node]
          /\ pc' = [pc EXCEPT ![t] = l]
    BY <1>7 DEF Stacks!WriteNext, Stacks!Goto
  <2>3. l \in StackLabels
    BY DEF StackLabels
  <2>a. old[t].node \in Ends
    BY <1>2 DEF StackTypes
  <2>4. StackTypes'
    BY <1>2, <2>1, <2>2, <2>3, <2>a DEF StackTypes
  <2>5. next'[e[t]] = old[t].node /\ pc'[t] = l
    BY <1>2, <1>4, <2>1, <2>2 DEF StackTypes
  <2>6. InCall(t)'
    BY <1>2, <1>c, <2>1, <2>5 DEF InCall
  <2>7. Chains(L, head, next', e')
    BY <1>1, <1>2, <2>1, <2>2, ChainsWrite DEF StackTypes
  <2>8. /\ \A u \in Duo \ {t} : pc'[u] = pc[u]
        /\ \A n \in Nodes : n # e[t] => next'[n] = next[n]
    BY <1>2, <2>2 DEF StackTypes
  <2>9. QED
    BY <1>1, <2>1, <2>4, <2>6, <2>7, <2>8, QuietMove
<1>8. CASE Stacks!LoadLinked(t)
  <2>1. UNCHANGED <<variant, head, next, e, after, call>> /\ pc[t] = "linked"
    BY <1>8 DEF Stacks!LoadLinked
  <2>2. CASE /\ head[Stacks!List(t)].node = next[e[t]]
             /\ old' = [old EXCEPT ![t] = head[Stacks!List(t)]] /\ pc' = [pc EXCEPT ![t] = "swap"]
    <3>1. "swap" \in StackLabels
      BY DEF StackLabels
    <3>2. StackTypes'
      BY <1>2, <1>3, <2>1, <2>2, <3>1 DEF StackTypes
    <3>3. old'[t] = head[Stacks!List(t)] /\ pc'[t] = "swap"
      BY <1>2, <2>2 DEF StackTypes
    <3>4. InCall(t)'
      BY <1>2, <1>3, <1>c, <2>1, <2>2, <3>3 DEF InCall
    <3>5. Chains(L, head, next', e')
      BY <1>1, <2>1
    <3>6. \A u \in Duo \ {t} : old'[u] = old[u] /\ pc'[u] = pc[u]
      BY <1>2, <2>2 DEF StackTypes
    <3>7. QED
      BY <1>1, <2>1, <3>2, <3>4, <3>5, <3>6, QuietMove
  <2>3. CASE pc' = [pc EXCEPT ![t] = "read"] /\ UNCHANGED old
    <3>1. "read" \in StackLabels
      BY DEF StackLabels
    <3>2. StackTypes'
      BY <1>2, <2>1, <2>3, <3>1 DEF StackTypes
    <3>3. pc'[t] = "read"
      BY <1>2, <2>3 DEF StackTypes
    <3>4. InCall(t)'
      BY <1>2, <1>c, <2>1, <3>3 DEF InCall
    <3>5. Chains(L, head, next', e')
      BY <1>1, <2>1
    <3>6. \A u \in Duo \ {t} : old'[u] = old[u] /\ pc'[u] = pc[u]
      BY <1>2, <2>3 DEF StackTypes
    <3>7. QED
      BY <1>1, <2>1, <3>2, <3>4, <3>5, <3>6, QuietMove
  <2>4. QED
    BY <1>8, <2>2, <2>3 DEF Stacks!LoadLinked, Stacks!Goto
<1>9. CASE Stacks!SwapFails(t)
  <2>1. UNCHANGED <<variant, head, next, e, after, call>> /\ pc[t] = "swap"
    BY <1>9 DEF Stacks!SwapFails
  <2>2. PICK l \in {"link", "read"}, m \in {old[t], head[Stacks!List(t)]} :
          /\ old' = [old EXCEPT ![t] = m] /\ pc' = [pc EXCEPT ![t] = l]
    BY <1>2, <1>9 DEF Stacks!SwapFails, Stacks!Goto, StackTypes
  <2>3. l \in StackLabels /\ m \in [node : Ends, aba : Nat]
    BY <1>2, <1>3 DEF StackLabels, StackTypes
  <2>4. StackTypes'
    BY <1>2, <2>1, <2>2, <2>3 DEF StackTypes
  <2>5. old'[t] = m /\ pc'[t] = l
    BY <1>2, <2>2 DEF StackTypes
  <2>6. InCall(t)'
    BY <1>2, <1>3, <1>c, <2>1, <2>3, <2>5 DEF InCall
  <2>7. Chains(L, head, next', e')
    BY <1>1, <2>1
  <2>8. \A u \in Duo \ {t} : old'[u] = old[u] /\ pc'[u] = pc[u]
    BY <1>2, <2>2 DEF StackTypes
  <2>9. QED
    BY <1>1, <2>1, <2>4, <2>6, <2>7, <2>8, QuietMove
<1>10. CASE Stacks!ClearNext(t)
  <2>1. UNCHANGED <<variant, head, e, old, after, call>> /\ pc[t] = "clear" /\ ~ Stacks!Pops(t)
    BY <1>2, <1>10 DEF Stacks!ClearNext, InCall
  <2>2. next' = [next EXCEPT ![e[t]] = NULL] /\ pc' = [pc EXCEPT ![t] = "read"]
    BY <1>10 DEF Stacks!ClearNext, Stacks!Goto
  <2>3. "read" \in StackLabels /\ NULL \in Ends
    BY DEF StackLabels, Ends
  <2>4. StackTypes'
    BY <1>2, <2>1, <2>2, <2>3 DEF StackTypes
  <2>5. pc'[t] = "read"
    BY <1>2, <2>2 DEF StackTypes
  <2>6. InCall(t)'
    BY <1>2, <1>c, <2>1, <2>5 DEF InCall
  <2>7. Chains(L, head, next', e')
    BY <1>1, <1>2, <2>1, <2>2, ChainsWrite DEF StackTypes
  <2>8. /\ \A u \in Duo \ {t} : pc'[u] = pc[u]
        /\ \A n \in Nodes : n # e[t] => next'[n] = next[n]
    BY <1>2, <2>2 DEF StackTypes
  <2>9. QED
    BY <1>1, <2>1, <2>4, <2>6, <2>7, <2>8, QuietMove
<1>11. QED
  BY <1>5, <1>6, <1>7, <1>8, <1>9, <1>10

\* The call that returns leaves t before its next one.
LEMMA StackBegins ==
  ASSUME StackTypes, NEW t \in Duo, NEW c \in Calls, NEW l \in StackLabels, Stacks!Begin(t, c, l)
  PROVE  /\ old' \in [Duo -> [node : Ends, aba : Nat]] /\ after' \in [Duo -> Ends]
         /\ call' \in [Duo -> Calls] /\ pc' \in [Duo -> StackLabels]
         /\ call'[t] = c /\ pc'[t] = l
         /\ \A u \in Duo \ {t} : /\ old'[u] = old[u] /\ after'[u] = after[u]
                                 /\ call'[u] = call[u] /\ pc'[u] = pc[u]
<1>1. /\ call' = [call EXCEPT ![t] = c] /\ pc' = [pc EXCEPT ![t] = l]
      /\ old' = [old EXCEPT ![t] = [node |-> NULL, aba |-> 0]] /\ after' = [after EXCEPT ![t] = NULL]
  BY DEF Stacks!Begin, Stacks!Goto, Stacks!NoHead
<1>2. NULL \in Ends /\ [node |-> NULL, aba |-> 0] \in [node : Ends, aba : Nat]
  BY DEF Ends
<1>3. QED
  BY <1>1, <1>2 DEF StackTypes

\* pop() finds the list empty.
LEMMA StackEmpty ==
  ASSUME StackInv, NEW t \in Duo, Stacks!Empty(t)
  PROVE  StackInv' /\ (Stacks!Stack!Next \/ UNCHANGED <<Stacks!Contents, e>>)
<1>1. PICK L : Chains(L, head, next, e)
  BY DEF StackInv
<1>2. StackTypes /\ InCall(t)
  BY DEF StackInv
<1>3. UNCHANGED <<variant, head, next>> /\ Stacks!Pops(t) /\ e[t] = NULL
  BY <1>2 DEF Stacks!Empty, InCall
<1>4. CASE call[t] = "get"
  <2>1. PICK n \in Nodes : /\ \A u \in Duo : e[u] # n
                           /\ \A m \in Nodes : next[m] # n
                           /\ \A l \in Lists : head[l].node # n
                           /\ e' = [e EXCEPT ![t] = n]
    BY <1>4 DEF Stacks!Empty, Lists
  <2>2. Stacks!Begin(t, "put", "read")
    BY <1>4 DEF Stacks!Empty
  <2>3. "put" \in Calls /\ "read" \in StackLabels
    BY DEF Calls, StackLabels
  <2>4. /\ old' \in [Duo -> [node : Ends, aba : Nat]] /\ after' \in [Duo -> Ends]
        /\ call' \in [Duo -> Calls] /\ pc' \in [Duo -> StackLabels]
        /\ call'[t] = "put" /\ pc'[t] = "read"
        /\ \A u \in Duo \ {t} : /\ old'[u] = old[u] /\ after'[u] = after[u]
                                /\ call'[u] = call[u] /\ pc'[u] = pc[u]
    BY <1>2, <2>2, <2>3, StackBegins
  <2>5. n \in Ends /\ n # NULL
    BY BlockingAssumption DEF Ends
  <2>6. e' \in [Duo -> Ends] /\ e'[t] = n /\ \A u \in Duo \ {t} : e'[u] = e[u]
    BY <1>2, <2>1, <2>5 DEF StackTypes
  <2>7. StackTypes'
    BY <1>2, <1>3, <2>4, <2>6 DEF StackTypes
  <2>8. ~ Stacks!Pops(t)'
    BY <2>4 DEF Stacks!Pops
  <2>9. InCall(t)'
    BY <2>4, <2>5, <2>6, <2>8 DEF InCall
  <2>10. ASSUME NEW l \in Lists, NEW i \in 1 .. Len(L[l]) PROVE L[l][i] # n
    <3>1. L[l] \in Seq(Nodes) /\ FullChain(next, L[l], head[l].node)
      BY <1>1 DEF Chains
    <3>2. L[l][i] = LinkOf(next, L[l], head[l].node, i - 1)
      BY <3>1 DEF FullChain
    <3>3. CASE i = 1
      BY <2>1, <3>2, <3>3 DEF LinkOf
    <3>4. CASE i # 1
      <4>1. i - 1 \in 1 .. Len(L[l]) /\ i - 1 # 0
        BY <3>1, <3>4
      <4>2. L[l][i - 1] \in Nodes
        BY <3>1, <4>1, ElementOfSeq
      <4>3. L[l][i] = next[L[l][i - 1]]
        BY <3>2, <4>1 DEF LinkOf
      <4>4. QED
        BY <2>1, <4>2, <4>3
    <3>5. QED
      BY <3>3, <3>4
  <2>11. Chains(L, head, next, e')
    BY <1>1, <1>2, <2>1, <2>10, ChainsTake DEF StackTypes
  <2>12. Chains(L, head, next', e')
    BY <1>3, <2>11
  <2>13. StackInv' /\ UNCHANGED Stacks!Contents
    BY <1>1, <1>3, <2>4, <2>6, <2>7, <2>9, <2>12, QuietMove
  <2>14. Stacks!Contents = L
    BY <1>1, ContentsAre
  <2>15. n \notin Stacks!Stack!Listed
    <3>1. \A l \in Lists : \A i \in DOMAIN L[l] : L[l][i] # n
      <4>1. \A l \in Lists : DOMAIN L[l] = 1 .. Len(L[l])
        BY <1>1, LenProperties DEF Chains
      <4>2. QED
        BY <2>10, <4>1
    <3>2. QED
      BY <2>14, <3>1 DEF Stacks!Stack!Listed, Lists
  <2>16. n \notin Stacks!Stack!Owned
    BY <2>1 DEF Stacks!Stack!Owned
  <2>17. Stacks!Stack!Malloc(t)
    BY <1>3, <2>1, <2>13, <2>15, <2>16 DEF Stacks!Stack!Malloc
  <2>18. QED
    BY <2>13, <2>17 DEF Stacks!Stack!Next
<1>5. CASE call[t] # "get"
  <2>1. UNCHANGED e /\ Stacks!EndIteration(t)
    BY <1>5 DEF Stacks!Empty
  <2>2. PICK l \in {"done", "read"} : Stacks!Begin(t, "get", l)
    BY <2>1 DEF Stacks!EndIteration
  <2>3. "get" \in Calls /\ l \in StackLabels
    BY DEF Calls, StackLabels
  <2>4. /\ old' \in [Duo -> [node : Ends, aba : Nat]] /\ after' \in [Duo -> Ends]
        /\ call' \in [Duo -> Calls] /\ pc' \in [Duo -> StackLabels]
        /\ call'[t] = "get" /\ pc'[t] = l
        /\ \A u \in Duo \ {t} : /\ old'[u] = old[u] /\ after'[u] = after[u]
                                /\ call'[u] = call[u] /\ pc'[u] = pc[u]
    BY <1>2, <2>2, <2>3, StackBegins
  <2>5. StackTypes'
    BY <1>2, <1>3, <2>1, <2>4 DEF StackTypes
  <2>6. Stacks!Pops(t)'
    BY <2>4 DEF Stacks!Pops
  <2>7. InCall(t)'
    BY <1>3, <2>1, <2>4, <2>6 DEF InCall
  <2>8. Chains(L, head, next', e')
    BY <1>1, <1>3, <2>1
  <2>9. QED
    BY <1>1, <1>3, <2>1, <2>4, <2>5, <2>7, <2>8, QuietMove
<1>6. QED
  BY <1>4, <1>5

\* The head of a list is replaced: t pushes its node or pops the first one.
LEMMA StackSwap ==
  ASSUME StackInv, NEW t \in Duo, Stacks!Swap(t)
  PROVE  StackInv' /\ Stacks!Stack!Next
<1> DEFINE l == Stacks!List(t)
           top == IF Stacks!Pops(t) THEN after[t] ELSE e[t]
           new == IF Stacks!Pops(t) THEN old[t].node ELSE NULL
<1>1. PICK L : Chains(L, head, next, e)
  BY DEF StackInv
<1>2. StackTypes /\ InCall(t) /\ variant \in {"tagged", "llsc"}
  BY DEF StackInv
<1>3. l \in Lists /\ head[l] \in [node : Ends, aba : Nat]
  BY <1>2 DEF Stacks!List, Lists, Stacks!Lists, StackTypes
<1>4. UNCHANGED <<variant, next>> /\ pc[t] = "swap" /\ head[l] = old[t]
  BY <1>2 DEF Stacks!Swap, Stacks!Matches
<1>5. head' = [head EXCEPT ![l] = [node |-> top, aba |-> head[l].aba + 1]]
  BY <1>2, <1>3 DEF Stacks!Swap, StackTypes
<1>6. e' = [e EXCEPT ![t] = new]
  BY DEF Stacks!Swap
<1>7. /\ Stacks!Pops(t) => head[l].node # NULL /\ top = next[head[l].node] /\ new = head[l].node
      /\ ~ Stacks!Pops(t) => next[e[t]] = head[l].node /\ top = e[t] /\ new = NULL /\ e[t] # NULL
  BY <1>2, <1>4 DEF InCall
<1>8. top \in Ends /\ new \in Ends
  BY <1>2 DEF StackTypes, Ends
<1>9. \E c \in Calls, p \in StackLabels :
        /\ Stacks!Begin(t, c, p) /\ p \notin {"link", "linked", "swap"}
        /\ c \in {"get", "take"} <=> ~ Stacks!Pops(t)
        /\ p = "clear" => c = "back"
  <2>1. {"get", "put", "take", "back"} \subseteq Calls /\ {"read", "clear", "done"} \subseteq StackLabels
    BY DEF Calls, StackLabels
  <2>2. call[t] = "get" \/ call[t] = "put" \/ call[t] = "take" \/ call[t] = "back"
    BY <1>2 DEF StackTypes, Calls
  <2>3. CASE call[t] = "get"
    <3>1. Stacks!Begin(t, "put", "read")
      BY <2>3 DEF Stacks!Swap
    <3>2. QED
      BY <2>1, <2>3, <3>1 DEF Stacks!Pops
  <2>4. CASE call[t] = "put"
    <3>1. Stacks!Begin(t, "take", "read")
      BY <2>4 DEF Stacks!Swap
    <3>2. QED
      BY <2>1, <2>4, <3>1 DEF Stacks!Pops
  <2>5. CASE call[t] = "take"
    <3>1. PICK p \in {"read", "clear"} : Stacks!Begin(t, "back", p)
      BY <2>5 DEF Stacks!Swap
    <3>2. QED
      BY <2>1, <2>5, <3>1 DEF Stacks!Pops
  <2>6. CASE call[t] = "back"
    <3>1. Stacks!EndIteration(t)
      BY <2>6 DEF Stacks!Swap
    <3>2. PICK p \in {"read", "done"} : Stacks!Begin(t, "get", p)
      BY <3>1 DEF Stacks!EndIteration
    <3>3. QED
      BY <2>1, <2>6, <3>2 DEF Stacks!Pops
  <2>7. QED
    BY <2>2, <2>3, <2>4, <2>5, <2>6
<1>10. PICK c \in Calls, p \in StackLabels :
         /\ Stacks!Begin(t, c, p) /\ p \notin {"link", "linked", "swap"}
         /\ c \in {"get", "take"} <=> ~ Stacks!Pops(t)
         /\ p = "clear" => c = "back"
  BY <1>9
<1>11. /\ old' \in [Duo -> [node : Ends, aba : Nat]] /\ after' \in [Duo -> Ends]
       /\ call' \in [Duo -> Calls] /\ pc' \in [Duo -> StackLabels]
       /\ call'[t] = c /\ pc'[t] = p
       /\ \A u \in Duo \ {t} : /\ old'[u] = old[u] /\ after'[u] = after[u]
                               /\ call'[u] = call[u] /\ pc'[u] = pc[u]
  BY <1>2, <1>10, StackBegins
<1> HIDE DEF l, top, new
<1>12. e' \in [Duo -> Ends] /\ e'[t] = new /\ \A u \in Duo \ {t} : e'[u] = e[u]
  BY <1>2, <1>6, <1>8 DEF StackTypes
<1>13. head' \in [Lists -> [node : Ends, aba : Nat]] /\ head'[l] = [node |-> top, aba |-> head[l].aba + 1]
       /\ \A k \in Lists \ {l} : head'[k] = head[k]
  BY <1>2, <1>3, <1>5, <1>8 DEF StackTypes
<1>14. StackTypes'
  BY <1>2, <1>4, <1>11, <1>12, <1>13 DEF StackTypes
<1>15. Stacks!Pops(t)' <=> ~ Stacks!Pops(t)
  BY <1>10, <1>11 DEF Stacks!Pops
<1>16. InCall(t)'
  <2>1. p = "clear" => ~ Stacks!Pops(t)'
    BY <1>10, <1>11 DEF Stacks!Pops
  <2>2. e'[t] = NULL <=> Stacks!Pops(t)'
    BY <1>7, <1>12, <1>15
  <2>3. QED
    BY <1>10, <1>11, <2>1, <2>2 DEF InCall
<1>17. ASSUME NEW u \in Duo \ {t} PROVE InCall(u)'
  <2>1. InCall(u) /\ old[u] \in [node : Ends, aba : Nat]
    BY <1>2 DEF StackInv, StackTypes
  <2>2. /\ e'[u] = e[u] /\ old'[u] = old[u] /\ after'[u] = after[u]
        /\ call'[u] = call[u] /\ pc'[u] = pc[u] /\ next' = next
    BY <1>4, <1>11, <1>12
  <2>3. (Stacks!Pops(u)' <=> Stacks!Pops(u)) /\ Stacks!List(u)' = Stacks!List(u)
        /\ Stacks!List(u) \in Lists
    BY <2>2 DEF Stacks!Pops, Stacks!List, Lists, Stacks!Lists
  <2>4. CASE Stacks!List(u) = l
    <3>1. /\ head'[Stacks!List(u)].aba = head[Stacks!List(u)].aba + 1
          /\ head[Stacks!List(u)].aba \in Nat /\ old[u].aba \in Nat
      BY <1>3, <1>13, <2>1, <2>4
    <3>2. pc[u] \in {"link", "linked", "swap"} => old[u].aba < head'[Stacks!List(u)].aba
      BY <2>1, <3>1 DEF InCall
    <3>3. pc[u] = "swap" => old[u] # head'[Stacks!List(u)]
      BY <3>1, <3>2
    <3>4. QED
      BY <2>1, <2>2, <2>3, <3>1, <3>2, <3>3 DEF InCall
  <2>5. CASE Stacks!List(u) # l
    <3>1. head'[Stacks!List(u)] = head[Stacks!List(u)]
      BY <1>13, <2>3, <2>5
    <3>2. QED
      BY <2>1, <2>2, <2>3, <3>1 DEF InCall
  <2>6. QED
    BY <2>4, <2>5
<1>18. Stacks!Contents = L
  BY <1>1, ContentsAre
<1>19. l \in Stacks!Lists
  BY <1>3 DEF Lists
<1>20. CASE Stacks!Pops(t)
  <2>1. Chains([L EXCEPT ![l] = Tail(@)], head', next, e')
    <3>1. /\ head' = [head EXCEPT ![l] = [node |-> next[head[l].node], aba |-> head[l].aba + 1]]
          /\ e' = [e EXCEPT ![t] = head[l].node]
      BY <1>5, <1>6, <1>7, <1>20
    <3>2. Chains([L EXCEPT ![l] = Tail(@)],
                 [head EXCEPT ![l] = [node |-> next[head[l].node], aba |-> head[l].aba + 1]],
                 next, [e EXCEPT ![t] = head[l].node])
      BY <1>1, <1>2, <1>3, <1>7, <1>20, ChainsPop DEF StackTypes
    <3>3. QED
      BY <3>1, <3>2
  <2>2. Chains([L EXCEPT ![l] = Tail(@)], head', next', e')
    BY <1>4, <2>1
  <2>3. Stacks!Contents' = [L EXCEPT ![l] = Tail(@)]
    BY <2>2, ContentsWillBe
  <2>4. e[t] = NULL
    BY <1>2, <1>20 DEF InCall
  <2>5. L[l] # <<>> /\ Head(L[l]) = head[l].node
    BY <1>1, <1>3, <1>7, <1>20, ChainsHead
  <2>6. Stacks!Stack!Pop(t, l)
    BY <1>6, <1>7, <1>18, <1>20, <2>3, <2>4, <2>5 DEF Stacks!Stack!Pop
  <2>7. Stacks!Stack!Next
    BY <1>19, <2>6 DEF Stacks!Stack!Next
  <2>8. QED
    BY <1>2, <1>4, <1>14, <1>16, <1>17, <2>2, <2>7 DEF StackInv
<1>21. CASE ~ Stacks!Pops(t)
  <2>1. e[t] \in Nodes
    BY <1>2, <1>7, <1>21 DEF StackTypes, Ends
  <2>2. Chains([L EXCEPT ![l] = <<e[t]>> \o @], head', next, e')
    <3>1. /\ head' = [head EXCEPT ![l] = [node |-> e[t], aba |-> head[l].aba + 1]]
          /\ e' = [e EXCEPT ![t] = NULL]
      BY <1>5, <1>6, <1>7, <1>21
    <3>2. Chains([L EXCEPT ![l] = <<e[t]>> \o @],
                 [head EXCEPT ![l] = [node |-> e[t], aba |-> head[l].aba + 1]],
                 next, [e EXCEPT ![t] = NULL])
      BY <1>1, <1>2, <1>3, <1>7, <1>21, <2>1, ChainsPush, BlockingAssumption DEF StackTypes
    <3>3. QED
      BY <3>1, <3>2
  <2>3. Chains([L EXCEPT ![l] = <<e[t]>> \o @], head', next', e')
    BY <1>4, <2>2
  <2>4. Stacks!Contents' = [L EXCEPT ![l] = <<e[t]>> \o @]
    BY <2>3, ContentsWillBe
  <2>5. e[t] \notin Stacks!Stack!Listed
    <3>1. \A k \in Lists : DOMAIN L[k] = 1 .. Len(L[k])
      BY <1>1, LenProperties DEF Chains
    <3>2. \A k \in Lists : \A i \in DOMAIN L[k] : e[t] # L[k][i]
      BY <1>1, <3>1 DEF Chains
    <3>3. QED
      BY <1>18, <3>2 DEF Stacks!Stack!Listed, Lists
  <2>6. Stacks!Stack!Push(t, l)
    BY <1>6, <1>7, <1>18, <1>21, <2>1, <2>4, <2>5 DEF Stacks!Stack!Push
  <2>7. Stacks!Stack!Next
    BY <1>19, <2>6 DEF Stacks!Stack!Next
  <2>8. QED
    BY <1>2, <1>4, <1>14, <1>16, <1>17, <2>3, <2>7 DEF StackInv
<1>22. QED
  BY <1>20, <1>21

\* The stacks as main leaves them.
LEMMA StackFirst == Stacks!Init => StackInv
<1> SUFFICES ASSUME Stacks!Init PROVE StackInv
  OBVIOUS
<1>1. NULL \in Ends /\ [node |-> NULL, aba |-> 0] \in [node : Ends, aba : Nat]
      /\ "get" \in Calls /\ "read" \in StackLabels
  BY DEF Ends, Calls, StackLabels
<1>2. StackTypes /\ variant \in {"tagged", "llsc"}
  BY <1>1, BlockingAssumption DEF Stacks!Init, Stacks!NoHead, Stacks!Lists, Lists, StackTypes
<1>3. \A t \in Duo : e[t] = NULL /\ call[t] = "get" /\ pc[t] = "read"
  BY DEF Stacks!Init
<1>4. \A t \in Duo : InCall(t)
  BY <1>3 DEF InCall, Stacks!Pops
<1>5. \A l \in Lists : head[l].node = NULL
  BY DEF Stacks!Init, Lists, Stacks!NoHead
<1>6. Chains([l \in Lists |-> <<>>], head, next, e)
  <2> DEFINE L == [l \in Lists |-> <<>>]
  <2>1. L \in [Lists -> Seq(Nodes)] /\ \A l \in Lists : Len(L[l]) = 0
    OBVIOUS
  <2> HIDE DEF L
  <2>2. \A l \in Lists : 1 .. Len(L[l]) = {}
    BY <2>1
  <2>3. \A l \in Lists : FullChain(next, L[l], head[l].node)
    BY <1>5, <2>1, <2>2 DEF FullChain, LinkOf
  <2>4. QED
    BY <1>3, <2>1, <2>2, <2>3 DEF Chains, L
<1>7. QED
  BY <1>2, <1>4, <1>6 DEF StackInv

\* Every step of the stacks keeps their invariant, and is one of the abstract
\* stack or changes nothing it speaks of.
LEMMA StackStep ==
  ASSUME StackInv, NEW t \in Duo, Stacks!Step(t)
  PROVE  StackInv' /\ (Stacks!Stack!Next \/ UNCHANGED <<Stacks!Contents, e>>)
BY StackQuiet, StackEmpty, StackSwap DEF Stacks!Step

\* What a stack does not see changes nothing.
LEMMA StackStutters ==
  ASSUME StackInv, UNCHANGED <<pc, stackonly>>
  PROVE  StackInv' /\ UNCHANGED <<Stacks!Contents, e>>
<1>1. PICK L : Chains(L, head, next, e)
  BY DEF StackInv
<1>2. UNCHANGED <<pc, variant, head, next, e, old, after, call>>
  BY DEF stackonly
<1>3. Chains(L, head', next', e')
  BY <1>1, <1>2
<1>4. Stacks!Contents' = Stacks!Contents
  BY <1>1, <1>3, ContentsAre, ContentsWillBe
<1>5. StackTypes'
  BY <1>2 DEF StackInv, StackTypes
<1>6. \A t \in Duo : InCall(t)'
  BY <1>2 DEF StackInv, InCall, Stacks!Pops, Stacks!List
<1>7. QED
  BY <1>2, <1>3, <1>4, <1>5, <1>6 DEF StackInv

-----------------------------------------------------------------------------
(* Producers and consumers                                                 *)

Data == Producers \X Nat
Turns == {"begin", "put", "posted", "take", "taken", "done"}

\* The threads between their acquire() of a place and append(), or between
\* popleft() and their release() of it.
InTransit(p) == Cardinality(Placed(Shops!Workers, p, {"put", "taken"}))

\* A bounded buffer does not grow past its size: with semaphores, because every
\* place is free, taken by an element, or in transit.
ShopInv ==
  /\ shop \in {"infinite", "semaphores", "conditions", "java", "channel"}
  /\ pc \in [Shops!Workers -> Turns]
  /\ iter \in [Shops!Workers -> Nat]
  /\ buffer \in Seq(Data)
  /\ shop # "infinite" => Len(buffer) <= Size
  /\ shop = "semaphores" => notFull \in Nat /\ notFull + InTransit(pc) + Len(buffer) = Size

\* One worker moves.
LEMMA TransitMoves ==
  ASSUME NEW p, NEW q, NEW t \in Shops!Workers, \A u \in Shops!Workers \ {t} : q[u] = p[u]
  PROVE  /\ InTransit(p) \in Nat /\ InTransit(q) \in Nat
         /\ p[t] \in {"put", "taken"} => InTransit(p) > 0
         /\ (p[t] \in {"put", "taken"} <=> q[t] \in {"put", "taken"}) => InTransit(q) = InTransit(p)
         /\ p[t] \notin {"put", "taken"} /\ q[t] \in {"put", "taken"} => InTransit(q) = InTransit(p) + 1
         /\ p[t] \in {"put", "taken"} /\ q[t] \notin {"put", "taken"} => InTransit(q) = InTransit(p) - 1
<1> DEFINE S == Shops!Workers
           L == {"put", "taken"}
<1>1. IsFiniteSet(S)
  BY BlockingAssumption, FS_Union DEF Shops!Workers
<1> HIDE DEF S, L
<1>2. /\ Cardinality(Placed(S, p, L)) \in Nat /\ Cardinality(Placed(S, q, L)) \in Nat
      /\ p[t] \in L /\ q[t] \in L => Cardinality(Placed(S, q, L)) = Cardinality(Placed(S, p, L))
      /\ p[t] \notin L /\ q[t] \notin L => Cardinality(Placed(S, q, L)) = Cardinality(Placed(S, p, L))
      /\ p[t] \notin L /\ q[t] \in L => Cardinality(Placed(S, q, L)) = Cardinality(Placed(S, p, L)) + 1
      /\ p[t] \in L /\ q[t] \notin L => Cardinality(Placed(S, q, L)) = Cardinality(Placed(S, p, L)) - 1
  <2>1. t \in S /\ \A u \in S \ {t} : q[u] = p[u]
    BY DEF S
  <2>2. QED
    BY <1>1, <2>1, PlacedMoves
<1>3. p[t] \in L => Cardinality(Placed(S, p, L)) > 0
  <2>1. Placed(S, p, L) \subseteq S /\ (p[t] \in L => t \in Placed(S, p, L))
    BY DEF Placed, S
  <2>2. IsFiniteSet(Placed(S, p, L))
    BY <1>1, <2>1, FS_Subset
  <2>3. p[t] \in L => Cardinality(Placed(S, p, L)) # 0
    BY <2>1, <2>2, FS_EmptySet
  <2>4. QED
    BY <1>2, <2>3
<1>4. InTransit(p) = Cardinality(Placed(S, p, L)) /\ InTransit(q) = Cardinality(Placed(S, q, L))
  BY DEF InTransit, S, L
<1>5. QED
  BY <1>2, <1>3, <1>4 DEF L

\* The shops as main opens them.
LEMMA ShopFirst == Shops!ShopInit => ShopInv
<1> SUFFICES ASSUME Shops!ShopInit PROVE ShopInv
  OBVIOUS
<1>1. pc = [t \in Shops!Workers |-> "begin"] /\ "begin" \in Turns
  BY DEF Shops!ShopInit, Turns
<1>2. Placed(Shops!Workers, pc, {"put", "taken"}) = {}
  BY <1>1 DEF Placed
<1>3. InTransit(pc) = 0
  BY <1>2, FS_EmptySet DEF InTransit
<1>4. buffer = <<>> /\ notFull = Size /\ Size \in Nat
  BY BlockingAssumption DEF Shops!ShopInit
<1>5. buffer \in Seq(Data) /\ Len(buffer) = 0
  BY <1>4
<1>6. iter \in [Shops!Workers -> Nat]
  BY DEF Shops!ShopInit
<1>7. QED
  BY <1>1, <1>3, <1>4, <1>5, <1>6 DEF ShopInv, Shops!ShopInit

\* A worker moves; it leaves the buffer alone, puts a datum at the end or takes
\* the first one, and the places are still all counted.
LEMMA ShopMove ==
  ASSUME ShopInv, NEW t \in Shops!Workers, shop' = shop,
         NEW p \in Turns, NEW i \in Nat, pc' = [pc EXCEPT ![t] = p], iter' = [iter EXCEPT ![t] = i],
         \/ buffer' = buffer
         \/ t \in Producers /\ buffer' = Append(buffer, <<t, iter[t]>>)
         \/ buffer # <<>> /\ buffer' = Tail(buffer),
         shop # "infinite" => Len(buffer') <= Size,
         shop = "semaphores" => notFull' \in Nat /\ notFull' + InTransit(pc') + Len(buffer') = Size
  PROVE  ShopInv' /\ Shops!QueueStep
<1>1. pc' \in [Shops!Workers -> Turns] /\ iter' \in [Shops!Workers -> Nat]
  BY DEF ShopInv
<1>2. t \in Producers => <<t, iter[t]>> \in Data
  BY DEF ShopInv, Data
<1>3. buffer' \in Seq(Data)
  <2>1. buffer \in Seq(Data)
    BY DEF ShopInv
  <2>2. ASSUME t \in Producers, buffer' = Append(buffer, <<t, iter[t]>>) PROVE buffer' \in Seq(Data)
    BY <1>2, <2>1, <2>2, AppendProperties
  <2>3. ASSUME buffer # <<>>, buffer' = Tail(buffer) PROVE buffer' \in Seq(Data)
    BY <2>1, <2>3, HeadTailProperties
  <2>4. QED
    BY <2>1, <2>2, <2>3
<1>4. ShopInv'
  BY <1>1, <1>3 DEF ShopInv, InTransit
<1>5. Shops!QueueStep
  BY DEF Shops!QueueStep
<1>6. QED
  BY <1>4, <1>5

\* Every step of the shops keeps their invariant and is a step of the queue.
LEMMA ShopWorks ==
  ASSUME ShopInv, NEW t \in Shops!Workers, Shops!ShopStep(t)
  PROVE  ShopInv' /\ Shops!QueueStep
<1>t. /\ "begin" \in Turns /\ "put" \in Turns /\ "posted" \in Turns
      /\ "take" \in Turns /\ "taken" \in Turns /\ "done" \in Turns
  BY DEF Turns
<1>i. pc \in [Shops!Workers -> Turns] /\ iter \in [Shops!Workers -> Nat] /\ buffer \in Seq(Data)
      /\ Len(buffer) \in Nat /\ Size \in Nat
  BY BlockingAssumption DEF ShopInv
<1>g. ASSUME NEW l, Shops!Goto(t, l)
      PROVE  pc' = [pc EXCEPT ![t] = l] /\ iter' = [iter EXCEPT ![t] = iter[t]] /\ iter[t] \in Nat
  BY <1>g, <1>i DEF Shops!Goto
<1>e. ASSUME Shops!EndIteration(t)
      PROVE  /\ \E l \in {"begin", "done"} : pc' = [pc EXCEPT ![t] = l]
             /\ iter' = [iter EXCEPT ![t] = iter[t] + 1] /\ iter[t] + 1 \in Nat
  <2>1. /\ iter' = [iter EXCEPT ![t] = iter[t] + 1]
        /\ pc' = [pc EXCEPT ![t] = IF iter[t] + 1 = ToProduce THEN "done" ELSE "begin"]
    BY <1>e DEF Shops!EndIteration
  <2>2. iter[t] + 1 \in Nat
    BY <1>i
  <2>3. CASE iter[t] + 1 = ToProduce
    BY <2>1, <2>2, <2>3
  <2>4. CASE iter[t] + 1 # ToProduce
    BY <2>1, <2>2, <2>4
  <2>5. QED
    BY <2>3, <2>4
<1>m. ASSUME NEW l, pc' = [pc EXCEPT ![t] = l]
      PROVE  /\ InTransit(pc) \in Nat /\ InTransit(pc') \in Nat
             /\ pc[t] \in {"put", "taken"} => InTransit(pc) > 0
             /\ (pc[t] \in {"put", "taken"} <=> l \in {"put", "taken"}) => InTransit(pc') = InTransit(pc)
             /\ pc[t] \notin {"put", "taken"} /\ l \in {"put", "taken"} => InTransit(pc') = InTransit(pc) + 1
             /\ pc[t] \in {"put", "taken"} /\ l \notin {"put", "taken"} => InTransit(pc') = InTransit(pc) - 1
  <2>1. pc'[t] = l /\ \A u \in Shops!Workers \ {t} : pc'[u] = pc[u]
    BY <1>i, <1>m
  <2>2. QED
    BY <2>1, TransitMoves
<1>p. ASSUME Shops!Put(t), shop \in {"semaphores", "conditions"} => Len(buffer) < Size
      PROVE  /\ buffer' = Append(buffer, <<t, iter[t]>>)
             /\ Len(buffer') = Len(buffer) + 1
  <2>1. buffer' = Append(buffer, <<t, iter[t]>>)
    BY <1>i, <1>p DEF Shops!Put
  <2>2. QED
    BY <1>i, <2>1
<1>l. ASSUME buffer # <<>>, buffer' = Tail(buffer)
      PROVE  Len(buffer') = Len(buffer) - 1
  BY <1>i, <1>l
<1>1. CASE t \in Producers /\ Shops!AcquireNotFull(t)
  <2>1. /\ pc[t] = "begin" /\ UNCHANGED <<shop, buffer>> /\ Shops!Goto(t, "put")
        /\ shop = "semaphores" => notFull > 0 /\ notFull' = notFull - 1
    BY <1>1 DEF Shops!AcquireNotFull, Shops!At
  <2>a. InTransit(pc') = InTransit(pc) + 1 /\ InTransit(pc) \in Nat
    BY <1>g, <1>m, <2>1
  <2>2. shop = "semaphores" => notFull' \in Nat /\ notFull' + InTransit(pc') + Len(buffer') = Size
    <3>1. ASSUME shop = "semaphores" PROVE notFull \in Nat /\ notFull + InTransit(pc) + Len(buffer) = Size
      BY <3>1 DEF ShopInv
    <3>2. ASSUME shop = "semaphores" PROVE notFull' = notFull - 1 /\ notFull > 0 /\ buffer' = buffer
      BY <2>1, <3>2
    <3>3. ASSUME shop = "semaphores"
          PROVE  notFull' \in Nat /\ notFull' + InTransit(pc') + Len(buffer') = Size
      <4>1. notFull' \in Nat
        BY <3>1, <3>2, <3>3
      <4>2. InTransit(pc') = InTransit(pc) + 1 /\ InTransit(pc) \in Nat /\ Len(buffer) \in Nat /\ Len(buffer') = Len(buffer)
        BY <1>i, <2>a, <3>2, <3>3
      <4>3. QED
        BY <3>1, <3>2, <3>3, <4>1, <4>2
    <3>4. QED
      BY <3>3
  <2>3. shop # "infinite" => Len(buffer') <= Size
    BY <2>1 DEF ShopInv
  <2>4. QED
    BY <1>t, <1>g, <2>1, <2>2, <2>3, ShopMove
<1>2. CASE t \in Producers /\ Shops!PutMutex(t)
  <2>1. /\ pc[t] = "put" /\ UNCHANGED <<shop, notFull>> /\ Shops!Goto(t, "posted") /\ Shops!Put(t)
        /\ shop \in {"infinite", "semaphores"}
    BY <1>2 DEF Shops!PutMutex, Shops!At
  <2>2. InTransit(pc) > 0 /\ InTransit(pc) \in Nat /\ InTransit(pc') = InTransit(pc) - 1
    BY <1>g, <1>m, <2>1
  <2>3. shop \in {"semaphores", "conditions"} => Len(buffer) < Size
    BY <1>i, <2>1, <2>2 DEF ShopInv
  <2>4. buffer' = Append(buffer, <<t, iter[t]>>) /\ Len(buffer') = Len(buffer) + 1
    BY <1>p, <2>1, <2>3
  <2>5. shop = "semaphores" => notFull' \in Nat /\ notFull' + InTransit(pc') + Len(buffer') = Size
    <3>1. shop = "semaphores" => notFull \in Nat /\ notFull + InTransit(pc) + Len(buffer) = Size
      BY DEF ShopInv
    <3>2. notFull' = notFull
      BY <2>1
    <3>3. Len(buffer) \in Nat
      BY <1>i
    <3>4. QED
      BY <2>2, <2>4, <3>1, <3>2, <3>3
  <2>6. shop # "infinite" => Len(buffer') <= Size
    BY <1>i, <2>1, <2>3, <2>4
  <2>7. QED
    BY <1>t, <1>g, <1>2, <2>1, <2>4, <2>5, <2>6, ShopMove
<1>3. CASE t \in Producers /\ Shops!ReleaseNotEmpty(t)
  <2>1. pc[t] = "posted" /\ UNCHANGED <<shop, buffer, notFull>> /\ Shops!EndIteration(t)
    BY <1>3 DEF Shops!ReleaseNotEmpty, Shops!At
  <2>2. PICK l \in {"begin", "done"} : pc' = [pc EXCEPT ![t] = l]
    BY <1>e, <2>1
  <2>3. InTransit(pc') = InTransit(pc)
    BY <1>m, <2>1, <2>2
  <2>4. QED
    BY ZenonT(40), <1>t, <1>e, <2>1, <2>2, <2>3, ShopMove DEF ShopInv
<1>4. CASE t \in Consumers /\ Shops!AcquireNotEmpty(t)
  <2>1. pc[t] = "begin" /\ UNCHANGED <<shop, buffer, notFull>> /\ Shops!Goto(t, "take")
    BY <1>4 DEF Shops!AcquireNotEmpty, Shops!At
  <2>2. InTransit(pc') = InTransit(pc)
    BY <1>g, <1>m, <2>1
  <2>3. QED
    BY <1>t, <1>g, <2>1, <2>2, ShopMove DEF ShopInv
<1>5. CASE t \in Consumers /\ Shops!TakeMutex(t)
  <2>1. /\ pc[t] = "take" /\ buffer # <<>> /\ buffer' = Tail(buffer) /\ UNCHANGED <<shop, notFull>>
        /\ shop = "infinite" => Shops!EndIteration(t)
        /\ shop # "infinite" => Shops!Goto(t, "taken")
    BY <1>5 DEF Shops!TakeMutex, Shops!At
  <2>2. Len(buffer') = Len(buffer) - 1
    BY <1>l, <2>1
  <2>3. CASE shop = "infinite"
    <3>1. PICK l \in {"begin", "done"} : pc' = [pc EXCEPT ![t] = l]
      BY <1>e, <2>1, <2>3
    <3>2. QED
      BY <1>t, <1>e, <2>1, <2>3, <3>1, ShopMove
  <2>4. CASE shop # "infinite"
    <3>1. InTransit(pc') = InTransit(pc) + 1 /\ InTransit(pc) \in Nat
      BY <1>g, <1>m, <2>1, <2>4
    <3>2. shop = "semaphores" => notFull' \in Nat /\ notFull' + InTransit(pc') + Len(buffer') = Size
      BY <1>i, <2>1, <2>2, <3>1 DEF ShopInv
    <3>3. Len(buffer') <= Size
      BY <1>i, <2>2, <2>4 DEF ShopInv
    <3>4. QED
      BY <1>t, <1>g, <2>1, <2>4, <3>2, <3>3, ShopMove
  <2>5. QED
    BY <2>3, <2>4
<1>6. CASE t \in Consumers /\ Shops!ReleaseNotFull(t)
  <2>1. pc[t] = "taken" /\ UNCHANGED <<shop, buffer>> /\ notFull' = notFull + 1 /\ Shops!EndIteration(t)
    BY <1>6 DEF Shops!ReleaseNotFull, Shops!At
  <2>2. PICK l \in {"begin", "done"} : pc' = [pc EXCEPT ![t] = l]
    BY <1>e, <2>1
  <2>3. InTransit(pc') = InTransit(pc) - 1 /\ InTransit(pc) \in Nat
    BY <1>m, <2>1, <2>2
  <2>4. shop = "semaphores" => notFull' \in Nat /\ notFull' + InTransit(pc') + Len(buffer') = Size
    BY <1>i, <2>1, <2>3 DEF ShopInv
  <2>5. shop # "infinite" => Len(buffer') <= Size
    BY <2>1 DEF ShopInv
  <2>6. QED
    BY <1>t, <1>e, <2>1, <2>2, <2>4, <2>5, ShopMove
<1>7. CASE Shops!MonitorWait(t, Len(buffer) = Size) \/ Shops!MonitorWait(t, buffer = <<>>)
  <2>1. UNCHANGED <<shop, pc, iter, buffer, notFull>>
    BY <1>7 DEF Shops!MonitorWait
  <2>2. QED
    BY <2>1 DEF ShopInv, Shops!QueueStep
<1>8. CASE t \in Producers /\ Shops!MonitorAppend(t)
  <2>1. /\ pc[t] = "begin" /\ shop \in {"conditions", "java"} /\ shop' = shop
        /\ Len(buffer) # Size /\ Shops!Put(t) /\ Shops!EndIteration(t)
    BY <1>8 DEF Shops!MonitorAppend, Shops!At
  <2>2. Len(buffer) < Size
    BY <1>i, <2>1 DEF ShopInv
  <2>3. buffer' = Append(buffer, <<t, iter[t]>>) /\ Len(buffer') = Len(buffer) + 1
    BY <1>p, <2>1, <2>2
  <2>4. PICK l \in {"begin", "done"} : pc' = [pc EXCEPT ![t] = l]
    BY <1>e, <2>1
  <2>5. Len(buffer') <= Size
    BY <1>i, <2>2, <2>3
  <2>6. QED
    BY <1>t, <1>e, <1>8, <2>1, <2>3, <2>4, <2>5, ShopMove
<1>9. CASE t \in Consumers /\ Shops!MonitorTake(t)
  <2>1. /\ pc[t] = "begin" /\ shop \in {"conditions", "java"} /\ shop' = shop
        /\ buffer # <<>> /\ buffer' = Tail(buffer) /\ Shops!EndIteration(t)
    BY <1>9 DEF Shops!MonitorTake, Shops!At
  <2>2. PICK l \in {"begin", "done"} : pc' = [pc EXCEPT ![t] = l]
    BY <1>e, <2>1
  <2>3. Len(buffer') <= Size
    BY <1>i, <1>l, <2>1 DEF ShopInv
  <2>4. QED
    BY ZenonT(40), <1>t, <1>e, <2>1, <2>2, <2>3, ShopMove
<1>10. CASE t \in Producers /\ Shops!Send(t)
  <2>1. /\ pc[t] = "begin" /\ shop = "channel" /\ shop' = shop
        /\ Len(buffer) < Size /\ Shops!Put(t) /\ Shops!EndIteration(t)
    BY <1>10 DEF Shops!Send, Shops!At
  <2>2. buffer' = Append(buffer, <<t, iter[t]>>) /\ Len(buffer') = Len(buffer) + 1
    BY <1>p, <2>1
  <2>3. PICK l \in {"begin", "done"} : pc' = [pc EXCEPT ![t] = l]
    BY <1>e, <2>1
  <2>4. Len(buffer') <= Size
    BY <1>i, <2>1, <2>2
  <2>5. QED
    BY <1>t, <1>e, <1>10, <2>1, <2>2, <2>3, <2>4, ShopMove
<1>11. CASE t \in Consumers /\ Shops!Receive(t)
  <2>1. /\ pc[t] = "begin" /\ shop = "channel" /\ shop' = shop
        /\ buffer # <<>> /\ buffer' = Tail(buffer) /\ Shops!EndIteration(t)
    BY <1>11 DEF Shops!Receive, Shops!At
  <2>2. PICK l \in {"begin", "done"} : pc' = [pc EXCEPT ![t] = l]
    BY <1>e, <2>1
  <2>3. Len(buffer') <= Size
    BY <1>i, <1>l, <2>1 DEF ShopInv
  <2>4. QED
    BY <1>t, <1>e, <2>1, <2>2, <2>3, ShopMove
<1>12. QED
  BY <1>1, <1>2, <1>3, <1>4, <1>5, <1>6, <1>7, <1>8, <1>9, <1>10, <1>11
     DEF Shops!ShopStep, Shops!ProducerStep, Shops!ConsumerStep

\* What a shop does not see changes nothing.
LEMMA ShopStutters ==
  ASSUME ShopInv, UNCHANGED <<shop, pc, iter, buffer, notFull>>
  PROVE  ShopInv' /\ Shops!QueueStep
BY DEF ShopInv, Shops!QueueStep

-----------------------------------------------------------------------------

\* The programs share the variables of their modules: the invariant of the one
\* that runs is kept by its own steps, and the other modules' are not used.
MCInv ==
  /\ program \in {"mutex", "mutex_relaxed", "sem", "stack", "barrier", "rw", "phil", "shop"}
  /\ program \in Counts => MonInv
  /\ program = "sem" => SemInv
  /\ program = "barrier" => BarInv
  /\ program = "rw" => RWInv
  /\ program = "phil" => PhilInv
  /\ program = "stack" => StackInv
  /\ program = "shop" => ShopInv

\* Every program starts in its invariant.
LEMMA MCFirst == MCInit => MCInv
<1> SUFFICES ASSUME MCInit PROVE MCInv
  OBVIOUS
<1> USE DEF Counts, MCInv
<1>1. CASE program \in Counts /\ Monitor!Init
  BY <1>1, MonFirst
<1>2. CASE program = "sem" /\ Sems!Init
  BY <1>2, SemFirst
<1>3. CASE program = "barrier" /\ Meets!Init
  BY <1>3, BarFirst
<1>4. CASE program = "rw" /\ RWs!Init
  BY <1>4, RWFirst
<1>5. CASE program = "phil" /\ Phils!PhilInit
  BY <1>5, PhilFirst
<1>6. CASE program = "stack" /\ Stacks!Init
  BY <1>6, StackFirst
<1>7. CASE program = "shop" /\ Shops!ShopInit
  BY <1>7, ShopFirst
<1>8. QED
  BY <1>1, <1>2, <1>3, <1>4, <1>5, <1>6, <1>7 DEF MCInit

\* What a step of the whole is to the program that runs: its own step, or none.
LEMMA MCSteps ==
  ASSUME [MCNext]_mcvars, MCInv
  PROVE  /\ program' = program
         /\ program \in Counts =>
              (\E t \in Threads : MonStep(t)) \/ UNCHANGED <<loopvars, locked, mutex, sleeping>>
         /\ program = "sem" => \/ \E t \in Threads : Sems!Step(t) \/ Sems!SpuriousWake(t)
                               \/ UNCHANGED <<loopvars, semonly, sleeping>>
         /\ program = "barrier" =>
              \/ \E t \in Meets!Members : Meets!Step(t) \/ Meets!SpuriousWake(t)
              \/ UNCHANGED <<pc, barrieronly>>
         /\ program = "rw" => \/ \E t \in Threads : RWs!Step(t) \/ RWs!SpuriousWake(t)
                              \/ UNCHANGED <<loopvars, rwonly, sleeping>>
         /\ program = "phil" => \/ Phils!Provide
                                \/ \E i \in Seats : Phils!PhilStep(i) \/ Phils!SpuriousWake(i)
                                \/ UNCHANGED <<pc, philonly, sleeping>>
         /\ program = "stack" => \/ \E t \in Duo : Stacks!Step(t)
                                 \/ UNCHANGED <<pc, stackonly>>
         /\ program = "shop" => \/ \E t \in Shops!Workers : Shops!ShopStep(t)
                                \/ UNCHANGED <<pc, iter, shop, buffer, notFull>>
<1>1. CASE UNCHANGED mcvars
  BY <1>1 DEF mcvars, loopvars, shoponly
<1>2. CASE \E t \in Everybody : MCStep(t)
  <2>1. PICK t : MCStep(t)
    BY <1>2
  <2>2. program' = program
    BY <2>1 DEF MCStep, those
  <2>3. program = "mutex" => t \in Threads /\ MonStep(t)
    BY <2>1, StrictStep DEF MCStep
  <2>4. program = "mutex_relaxed" => t \in Threads /\ MonStep(t)
    BY <2>1, RelaxedStep DEF MCStep
  <2>5. program = "sem" => t \in Threads /\ Sems!Step(t)
    BY <2>1 DEF MCStep
  <2>6. program = "barrier" => t \in Meets!Members /\ Meets!Step(t)
    BY <2>1 DEF MCStep
  <2>7. program = "rw" => t \in Threads /\ RWs!Step(t)
    BY <2>1 DEF MCStep
  <2>8. program = "phil" => t \in Seats /\ Phils!PhilStep(t)
    BY <2>1 DEF MCStep, Seats
  <2>9. program = "stack" => t \in Duo /\ Stacks!Step(t)
    BY <2>1 DEF MCStep
  <2>10. program = "shop" => t \in Shops!Workers /\ Shops!ShopStep(t)
    BY <2>1 DEF MCStep
  <2>11. QED
    BY <2>2, <2>3, <2>4, <2>5, <2>6, <2>7, <2>8, <2>9, <2>10 DEF Counts
<1>3. CASE \E t \in Everybody : MCSpuriousWake(t)
  <2>1. PICK t : MCSpuriousWake(t)
    BY <1>3
  <2>2. program' = program
    BY <2>1 DEF MCSpuriousWake, those
  <2>3. program \in Counts => t \in Threads /\ Monitor!SpuriousWake(t)
    BY <2>1 DEF MCSpuriousWake, Counts
  <2>4. program \in Counts => t \in Threads /\ MonStep(t)
    BY <2>3, StrictStep
  <2>5. program = "sem" => t \in Threads /\ Sems!SpuriousWake(t)
    BY <2>1 DEF MCSpuriousWake, Counts
  <2>6. program = "barrier" => t \in Meets!Members /\ Meets!SpuriousWake(t)
    BY <2>1 DEF MCSpuriousWake, Counts
  <2>7. program = "rw" => t \in Threads /\ RWs!SpuriousWake(t)
    BY <2>1 DEF MCSpuriousWake, Counts
  <2>8. program = "phil" => t \in Seats /\ Phils!SpuriousWake(t)
    BY <2>1 DEF MCSpuriousWake, Counts, Seats
  <2>9. program = "shop" => UNCHANGED <<pc, iter, shop, buffer, notFull>>
    BY <2>1 DEF MCSpuriousWake, Counts, Shops!SpuriousWake
  <2>10. program # "stack"
    BY <2>1 DEF MCSpuriousWake, Counts
  <2>11. QED
    BY <2>2, <2>4, <2>5, <2>6, <2>7, <2>8, <2>9, <2>10
<1>4. CASE MCProvide
  BY <1>4 DEF MCProvide, those, Counts
<1>5. CASE MCJoin
  BY <1>1, <1>5 DEF MCJoin
<1>6. QED
  BY <1>1, <1>2, <1>3, <1>4, <1>5 DEF MCNext

\* Every step keeps the invariant.
LEMMA MCKeeps == MCInv /\ [MCNext]_mcvars => MCInv'
<1> SUFFICES ASSUME MCInv, [MCNext]_mcvars PROVE MCInv'
  OBVIOUS
<1>0. program' = program
  BY MCSteps
<1>1. program \in Counts => MonInv'
  BY <1>0, MCSteps, MonKeeps DEF MCInv
<1>2. program = "sem" => SemInv'
  BY MCSteps, SemKeeps DEF MCInv
<1>3. program = "barrier" => BarInv'
  BY MCSteps, BarStep, BarStutters DEF MCInv
<1>4. program = "rw" => RWInv'
  BY MCSteps, RWKeeps DEF MCInv
<1>5. program = "phil" => PhilInv'
  BY MCSteps, PhilKeeps DEF MCInv
<1>6. program = "stack" => StackInv'
  BY MCSteps, StackStep, StackStutters DEF MCInv
<1>7. program = "shop" => ShopInv'
  BY MCSteps, ShopWorks, ShopStutters DEF MCInv
<1>8. QED
  BY <1>0, <1>1, <1>2, <1>3, <1>4, <1>5, <1>6, <1>7 DEF MCInv

\* The invariant holds of every program.
THEOREM MCInvariant == MCSpec => []MCInv
<1>1. MCInit => MCInv
  BY MCFirst
<1>2. MCInv /\ [MCNext]_mcvars => MCInv'
  BY MCKeeps
<1>3. QED
  BY <1>1, <1>2, PTL DEF MCSpec

\* NobodyShares: a writer is alone with what the lock protects, and neighbours
\* at the table never eat together, for any number of threads and philosophers.
THEOREM WritersAndNeighboursAreAlone == MCSpec => []NobodyShares
<1>1. MCInv => NobodyShares
  BY RWPromises, PhilPromises DEF MCInv, NobodyShares
<1>2. QED
  BY <1>1, MCInvariant, PTL

\* NobodyIsForgotten: whoever sleeps has been woken, or somebody is on the way
\* who takes what it waits for or signals.
THEOREM SleepersAreRemembered == MCSpec => []NobodyIsForgotten
<1>1. MCInv => NobodyIsForgotten
  BY SemPromises, RWPromises, PhilPromises, BarPromises DEF MCInv, MonInv, Counts, NobodyIsForgotten
<1>2. QED
  BY <1>1, MCInvariant, PTL

\* IncrementsAreAtomic: under a monitor, a semaphore or a writer's lock the two
\* memory accesses of `counter += 1` are one increment of the abstract counter.
THEOREM BlockingLocksCount == MCSpec => IncrementsAreAtomic
<1>1. ASSUME MCInv, [MCNext]_mcvars
      PROVE  /\ program \in Counts => Monitor!Atomic!ANext \/ UNCHANGED Monitor!Atomic!avars
             /\ program = "sem" => Sems!Atomic!ANext \/ UNCHANGED Sems!Atomic!avars
             /\ program = "rw" => RWs!Atomic!ANext \/ UNCHANGED RWs!Atomic!avars
  BY <1>1, MCSteps, MonIncrements, SemIncrements, RWIncrements DEF MCInv
<1>2. MCInv /\ [MCNext]_mcvars =>
        [/\ program \in Counts => Monitor!Atomic!ANext \/ UNCHANGED Monitor!Atomic!avars
         /\ program = "sem" => Sems!Atomic!ANext \/ UNCHANGED Sems!Atomic!avars
         /\ program = "rw" => RWs!Atomic!ANext \/ UNCHANGED RWs!Atomic!avars]_mcvars
  BY <1>1
<1>3. QED
  BY <1>2, MCInvariant, PTL DEF MCSpec, IncrementsAreAtomic

\* BarriersImplementBarrier: every step of the six barriers is a step of the
\* abstract barrier or changes nothing it speaks of.
THEOREM BarriersKeepTheirPromise == MCSpec => BarriersImplementBarrier
<1>1. ASSUME MCInv, [MCNext]_mcvars, program = "barrier" PROVE Meets!PromiseStep
  BY <1>1, MCSteps, BarStep, BarStutters DEF MCInv
<1>2. MCInv /\ [MCNext]_mcvars => [program = "barrier" => Meets!PromiseStep]_mcvars
  BY <1>1
<1>3. QED
  BY <1>2, MCInvariant, PTL DEF MCSpec, BarriersImplementBarrier

\* ObjectsAreLinearizable: every step of the lock-free stacks is a push or a pop
\* of the abstract stack, or an allocation, and every step of the buffers one of
\* a queue that drops nothing and does not grow past its size; or changes neither.
THEOREM ObjectsActAtOnce == MCSpec => ObjectsAreLinearizable
<1>1. ASSUME MCInv, [MCNext]_mcvars
      PROVE  /\ program = "stack" => \/ Stacks!Stack!Next
                                     \/ UNCHANGED <<Stacks!Contents, e>>
             /\ program = "shop" => Shops!QueueStep
  BY <1>1, MCSteps, StackStep, StackStutters, ShopWorks, ShopStutters DEF MCInv
<1>2. MCInv /\ [MCNext]_mcvars =>
        [/\ program = "stack" => \/ Stacks!Stack!Next
                                 \/ UNCHANGED <<Stacks!Contents, e>>
         /\ program = "shop" => Shops!QueueStep]_mcvars
  BY <1>1
<1>3. QED
  BY <1>2, MCInvariant, PTL DEF MCSpec, ObjectsAreLinearizable
=============================================================================
