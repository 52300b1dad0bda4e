----------------------------- MODULE TSOProofs -----------------------------
(***************************************************************************)
(* What the operators of module TSO do to one word, for the proofs about   *)
(* the programs that run on it.  A program sees of the store buffers       *)
(* whether a thread holds a store to a word back, and what the thread      *)
(* itself reads there.                                                     *)
(***************************************************************************)
EXTENDS TSOCountLoop, SequenceTheorems, WellFoundedInduction, TLAPS

\* The memory has the words in A, and the buffers are sequences of at most n
\* stores.
IsSequence(b) == \E S : b \in Seq(S)

TSOType(A, n) ==
  /\ n \in Nat
  /\ mem = [a \in A |-> mem[a]]
  /\ buf = [t \in Threads |-> buf[t]]
  /\ \A t \in Threads : IsSequence(buf[t]) /\ Len(buf[t]) <= n

\* t holds stores to word a back, and at most one of them.
Late(t, a) == Pending(t, a) # {}
Once(t, a) == \A k, l \in Pending(t, a) : k = l

\* An action that leaves alone what u has of word a in its buffer.
Kept(u, a) == /\ Pending(u, a)' = Pending(u, a)
              /\ Late(u, a)' <=> Late(u, a)
              /\ Once(u, a)' <=> Once(u, a)
              /\ Late(u, a) \/ mem'[a] = mem[a] => Read(u, a)' = Read(u, a)

-----------------------------------------------------------------------------
(* Reads *)

\* A nonempty set of numbers up to n has a greatest element.
LEMMA GreatestNatural ==
  ASSUME NEW n \in Nat, NEW S, S \subseteq 1 .. n, S # {}
  PROVE  \E x \in S : \A y \in S : y <= x
<1> DEFINE T == {n - x : x \in S}
<1>1. T \subseteq Nat /\ T # {}
  <2>1. \A x \in S : n - x \in Nat
    OBVIOUS
  <2>2. QED
    BY <2>1
<1>2. PICK m \in T : \A y \in T : ~ (<<y, m>> \in OpToRel(<, Nat))
  BY <1>1, NatLessThanWellFounded, WFMin
<1>3. ASSUME NEW y \in T, y < m
      PROVE  <<y, m>> \in OpToRel(<, Nat)
  BY <1>1, <1>3 DEF OpToRel
<1>4. PICK x \in S : m = n - x
  OBVIOUS
<1>5. ASSUME NEW y \in S
      PROVE  y <= x
  <2>1. n - y \in T /\ y \in Nat /\ x \in Nat
    OBVIOUS
  <2>2. ~ (n - y < n - x)
    BY <1>2, <1>3, <1>4, <2>1
  <2>3. QED
    BY <2>1, <2>2
<1>6. QED
  BY <1>5

\* The stores to word a in buffer b, and what is read over memory m.
Positions(b, a) == {k \in 1 .. Len(b) : a \in DOMAIN b[k]}
Lookup(b, m, a) ==
  IF Positions(b, a) = {} THEN m[a]
  ELSE b[CHOOSE k \in Positions(b, a) : \A l \in Positions(b, a) : l <= k][a]

\* The newest of the stores held back is the one that is read.
LEMMA Newest ==
  ASSUME NEW b, IsSequence(b), NEW m, NEW a, Positions(b, a) # {}
  PROVE  /\ \E k \in Positions(b, a) : \A l \in Positions(b, a) : l <= k
         /\ \A k \in Positions(b, a) :
              (\A l \in Positions(b, a) : l <= k) => Lookup(b, m, a) = b[k][a]
<1> DEFINE P == Positions(b, a)
<1>1. Len(b) \in Nat /\ P \subseteq 1 .. Len(b) /\ P # {}
  BY LenProperties DEF Positions, IsSequence
<1>2. \E k \in P : \A l \in P : l <= k
  BY <1>1, GreatestNatural
<1>3. ASSUME NEW k \in P, \A l \in P : l <= k
      PROVE  (CHOOSE x \in P : \A l \in P : l <= x) = k
  BY <1>1, <1>3
<1>4. Lookup(b, m, a) = b[CHOOSE k \in P : \A l \in P : l <= k][a]
  BY <1>1 DEF Lookup
<1>5. QED
  BY <1>2, <1>3, <1>4

\* A word with no store held back is read from memory.
LEMMA ReadEffect ==
  ASSUME NEW t, NEW a
  PROVE  /\ ~ Late(t, a) => Read(t, a) = mem[a] /\ Once(t, a)
         /\ Drained(t) => ~ Late(t, a)
BY DEF Late, Read, Once, Drained, Pending

\* Nobody else's buffer.
LEMMA BufferKept ==
  ASSUME NEW u, buf'[u] = buf[u], NEW a
  PROVE  Kept(u, a)
<1>1. Pending(u, a)' = Pending(u, a)
  BY DEF Pending
<1>2. QED
  BY <1>1 DEF Kept, Late, Once, Read

\* The memory and the buffers at the start.
LEMMA InitEffect ==
  ASSUME NEW A, NEW m, m = [a \in A |-> m[a]], MemInit(m)
  PROVE  /\ \A n \in Nat : TSOType(A, n)
         /\ mem = m
         /\ \A u \in Threads : \A b : ~ Late(u, b) /\ Once(u, b) /\ Read(u, b) = mem[b]
<1>1. mem = m /\ \A u \in Threads : buf[u] = <<>>
  BY DEF MemInit
<1>2. \A u \in Threads : IsSequence(buf[u]) /\ Len(buf[u]) = 0
  BY <1>1, EmptySeq DEF IsSequence
<1>3. \A n \in Nat : TSOType(A, n)
  BY <1>1, <1>2 DEF MemInit, TSOType
<1>4. \A u \in Threads : \A b : Pending(u, b) = {}
  BY <1>1 DEF Pending
<1>5. QED
  BY <1>1, <1>3, <1>4 DEF Late, Once, Read

-----------------------------------------------------------------------------
(* Locked instructions, and instructions that do not store *)

\* A locked instruction: the thread holds nothing back, and memory changes at
\* once.
LEMMA UpdateEffect ==
  ASSUME NEW A, NEW n, TSOType(A, n), NEW t \in Threads, NEW a \in A, NEW v, Update(t, a, v)
  PROVE  /\ TSOType(A, n)'
         /\ mem'[a] = v
         /\ \A b \in A : b # a => mem'[b] = mem[b]
         /\ \A b : ~ Late(t, b)
         /\ \A u, b : Kept(u, b)
<1>1. mem' = [mem EXCEPT ![a] = v] /\ buf' = buf /\ Drained(t)
  BY DEF Update
<1>2. TSOType(A, n)'
  BY <1>1 DEF TSOType
<1>3. mem'[a] = v /\ \A b \in A : b # a => mem'[b] = mem[b]
  BY <1>1 DEF TSOType
<1>4. \A b : ~ Late(t, b)
  BY <1>1, ReadEffect
<1>5. QED
  BY <1>1, <1>2, <1>3, <1>4, BufferKept

\* A step that does not touch memory.
LEMMA NoEffect ==
  ASSUME UNCHANGED memvars
  PROVE  /\ \A A, n : TSOType(A, n) => TSOType(A, n)'
         /\ mem' = mem
         /\ \A u, b : Kept(u, b)
<1>1. mem' = mem /\ buf' = buf
  BY DEF memvars
<1>2. \A A, n : TSOType(A, n) => TSOType(A, n)'
  BY <1>1 DEF TSOType
<1>3. QED
  BY <1>1, <1>2, BufferKept

-----------------------------------------------------------------------------
(* Flushes *)

\* A flush takes the head of the buffer, and every other position moves up.
LEMMA BufferAfterFlush ==
  ASSUME NEW A, NEW n, TSOType(A, n), NEW t \in Threads, Flush(t)
  PROVE  /\ Len(buf[t]) \in Nat \ {0} /\ Len(buf'[t]) = Len(buf[t]) - 1
         /\ IsSequence(buf'[t])
         /\ \A k \in 1 .. Len(buf[t]) - 1 : buf'[t][k] = buf[t][k + 1]
         /\ Head(buf[t]) = buf[t][1]
         /\ \A u \in Threads : u # t => buf'[u] = buf[u]
         /\ buf' = [u \in Threads |-> buf'[u]]
<1>1. PICK S : buf[t] \in Seq(S)
  BY DEF TSOType, IsSequence
<1>2. /\ buf[t] # <<>> /\ buf' = [buf EXCEPT ![t] = Tail(@)]
      /\ buf = [u \in Threads |-> buf[u]]
  BY DEF Flush, Drained, TSOType
<1>3. /\ Tail(buf[t]) \in Seq(S) /\ Len(Tail(buf[t])) = Len(buf[t]) - 1
      /\ \A k \in 1 .. Len(Tail(buf[t])) : Tail(buf[t])[k] = buf[t][k + 1]
  BY <1>1, <1>2, HeadTailProperties
<1>4. Len(buf[t]) \in Nat \ {0}
  BY <1>1, <1>2, EmptySeq
<1>5. Head(buf[t]) = buf[t][1]
  BY <1>1
<1>6. buf'[t] = Tail(buf[t])
  BY <1>2
<1>7. QED
  BY <1>2, <1>3, <1>4, <1>5, <1>6 DEF IsSequence

\* What is left of the stores to word a.
LEMMA PendingAfterFlush ==
  ASSUME NEW A, NEW n, TSOType(A, n), NEW t \in Threads, NEW a, Flush(t)
  PROVE  /\ Pending(t, a)' = {k \in 1 .. Len(buf[t]) - 1 : k + 1 \in Pending(t, a)}
         /\ 1 \in Pending(t, a) <=> a \in DOMAIN Head(buf[t])
         /\ Pending(t, a) \subseteq 1 .. Len(buf[t])
<1>1. /\ Len(buf[t]) \in Nat \ {0} /\ Len(buf'[t]) = Len(buf[t]) - 1
      /\ \A k \in 1 .. Len(buf[t]) - 1 : buf'[t][k] = buf[t][k + 1]
      /\ Head(buf[t]) = buf[t][1]
  BY BufferAfterFlush
<1>2. Pending(t, a)' = {k \in 1 .. Len(buf'[t]) : a \in DOMAIN buf'[t][k]}
  BY DEF Pending
<1>3. \A k \in 1 .. Len(buf[t]) - 1 :
        a \in DOMAIN buf'[t][k] <=> k + 1 \in Pending(t, a)
  BY <1>1 DEF Pending
<1>4. Pending(t, a)' = {k \in 1 .. Len(buf[t]) - 1 : k + 1 \in Pending(t, a)}
  BY <1>1, <1>2, <1>3
<1>5. QED
  BY <1>1, <1>4 DEF Pending

\* The thread that flushes reads what it read before.
LEMMA ReadAfterFlush ==
  ASSUME NEW A, NEW n, TSOType(A, n), NEW t \in Threads, NEW a, Flush(t),
         mem'[a] = IF 1 \in Pending(t, a) THEN Head(buf[t])[a] ELSE mem[a]
  PROVE  Read(t, a)' = Read(t, a)
<1>1. /\ Len(buf[t]) \in Nat \ {0}
      /\ \A k \in 1 .. Len(buf[t]) - 1 : buf'[t][k] = buf[t][k + 1]
      /\ Head(buf[t]) = buf[t][1]
  BY BufferAfterFlush
<1>2. /\ Pending(t, a)' = {k \in 1 .. Len(buf[t]) - 1 : k + 1 \in Pending(t, a)}
      /\ Pending(t, a) \subseteq 1 .. Len(buf[t])
  BY PendingAfterFlush
<1>3. CASE ~ Late(t, a)
  <2>1. ~ Late(t, a)' /\ 1 \notin Pending(t, a)
    BY <1>2, <1>3 DEF Late
  <2>2. Read(t, a)' = mem'[a] /\ Read(t, a) = mem[a]
    BY <1>3, <2>1 DEF Late, Read
  <2>3. QED
    BY <2>1, <2>2
<1>4. CASE Late(t, a)
  <2>1. /\ IsSequence(buf[t])
        /\ Positions(buf[t], a) = Pending(t, a) /\ Positions(buf[t], a) # {}
        /\ Read(t, a) = Lookup(buf[t], mem, a)
        /\ Read(t, a)' = Lookup(buf'[t], mem', a)
    BY <1>4 DEF Late, TSOType, Pending, Positions, Read, Lookup
  <2>2. PICK m \in Pending(t, a) : \A l \in Pending(t, a) : l <= m
    BY <2>1, Newest
  <2>3. Read(t, a) = buf[t][m][a]
    BY <2>1, <2>2, Newest
  <2>4. m \in 1 .. Len(buf[t])
    BY <1>2
  <2>5. CASE m = 1
    <3>1. Pending(t, a)' = {}
      BY <1>1, <1>2, <2>2, <2>5
    <3>2. Read(t, a)' = mem'[a]
      BY <3>1 DEF Read
    <3>3. QED
      BY <1>1, <2>2, <2>3, <2>5, <3>2
  <2>6. CASE m # 1
    <3>1. m - 1 \in Pending(t, a)'
      BY <1>1, <1>2, <2>4, <2>6
    <3>2. \A l \in Pending(t, a)' : l <= m - 1
      BY <1>1, <1>2, <2>2, <2>4
    <3>3. IsSequence(buf'[t]) /\ Positions(buf'[t], a) = Pending(t, a)'
      BY BufferAfterFlush DEF Pending, Positions
    <3>4. Lookup(buf'[t], mem', a) = buf'[t][m - 1][a]
      BY <3>1, <3>2, <3>3, Newest
    <3>5. buf'[t][m - 1] = buf[t][m]
      BY <1>1, <2>4, <2>6
    <3>6. QED
      BY <2>1, <2>3, <3>4, <3>5
  <2>7. QED
    BY <2>5, <2>6
<1>5. QED
  BY <1>3, <1>4

\* Stores to two words that are in the buffer together leave it together.
LEMMA FlushTogether ==
  ASSUME NEW A, NEW n, TSOType(A, n), NEW t \in Threads, Flush(t), NEW a, NEW b,
         Pending(t, a) = Pending(t, b)
  PROVE  Pending(t, a)' = Pending(t, b)'
BY PendingAfterFlush

\* A flush: the thread reads what it read before, and the one store to a word
\* that it held back is now in memory.
LEMMA FlushEffect ==
  ASSUME NEW A, NEW n, TSOType(A, n), NEW t \in Threads, Flush(t)
  PROVE  /\ TSOType(A, n)'
         /\ \A u \in Threads : \A a : u # t => Kept(u, a)
         /\ \A a \in A :
              /\ Once(t, a) => Once(t, a)'
              /\ Read(t, a)' = Read(t, a)
              /\ Late(t, a)' => Late(t, a)
              /\ \/ mem'[a] = mem[a] /\ (Late(t, a)' <=> Late(t, a))
                 \/ /\ Late(t, a)
                    /\ Once(t, a) => ~ Late(t, a)' /\ mem'[a] = Read(t, a)
<1> DEFINE w == Head(buf[t])
<1>1. mem' = [a \in A |-> IF a \in DOMAIN w THEN w[a] ELSE mem[a]]
  BY DEF Flush, TSOType, Stored
<1>2. /\ Len(buf[t]) \in Nat \ {0} /\ Len(buf'[t]) = Len(buf[t]) - 1
      /\ IsSequence(buf'[t]) /\ buf' = [u \in Threads |-> buf'[u]]
      /\ \A u \in Threads : u # t => buf'[u] = buf[u]
  BY BufferAfterFlush
<1> HIDE DEF w
<1>3. TSOType(A, n)'
  <2>1. mem' = [a \in A |-> mem'[a]]
    BY <1>1
  <2>2. Len(buf[t]) <= n /\ n \in Nat
    BY DEF TSOType
  <2>3. Len(buf'[t]) <= n
    BY <1>2, <2>2
  <2>4. \A u \in Threads : IsSequence(buf'[u]) /\ Len(buf'[u]) <= n
    BY <1>2, <2>3 DEF TSOType
  <2>5. QED
    BY <1>2, <2>1, <2>2, <2>4 DEF TSOType
<1>4. ASSUME NEW a \in A
      PROVE  Read(t, a)' = Read(t, a)
  BY <1>1, ReadAfterFlush, PendingAfterFlush DEF w
<1>5. ASSUME NEW a \in A
      PROVE  /\ Once(t, a) => Once(t, a)'
             /\ Late(t, a)' => Late(t, a)
             /\ \/ mem'[a] = mem[a] /\ (Late(t, a)' <=> Late(t, a))
                \/ /\ Late(t, a)
                   /\ Once(t, a) => ~ Late(t, a)' /\ mem'[a] = Read(t, a)
  <2>1. /\ Pending(t, a)' = {k \in 1 .. Len(buf[t]) - 1 : k + 1 \in Pending(t, a)}
        /\ 1 \in Pending(t, a) <=> a \in DOMAIN w
        /\ Pending(t, a) \subseteq 1 .. Len(buf[t])
    BY PendingAfterFlush DEF w
  <2>2. Once(t, a) => Once(t, a)'
    BY <1>2, <2>1 DEF Once
  <2>3. CASE a \in DOMAIN w
    <3>1. Late(t, a)
      BY <2>1, <2>3 DEF Late
    <3>2. ASSUME Once(t, a)
          PROVE  ~ Late(t, a)' /\ mem'[a] = Read(t, a)
      <4>1. ~ Late(t, a)'
        BY <1>2, <2>1, <2>3, <3>2 DEF Once, Late
      <4>2. Read(t, a)' = mem'[a]
        BY <4>1 DEF Late, Read
      <4>3. QED
        BY <1>4, <4>1, <4>2
    <3>3. QED
      BY <2>2, <3>1, <3>2
  <2>4. CASE a \notin DOMAIN w
    <3>1. mem'[a] = mem[a]
      BY <1>1, <2>4
    <3>2. \A k \in Pending(t, a) : k - 1 \in Pending(t, a)'
      BY <1>2, <2>1, <2>4
    <3>3. Late(t, a)' <=> Late(t, a)
      BY <2>1, <3>2 DEF Late
    <3>4. QED
      BY <2>2, <3>1, <3>3
  <2>5. QED
    BY <2>3, <2>4
<1>6. \A u \in Threads : \A a : u # t => Kept(u, a)
  BY <1>2, BufferKept
<1>7. QED
  BY <1>3, <1>4, <1>5, <1>6

-----------------------------------------------------------------------------
(* Plain stores *)

\* A store of several words at once that enters the buffer.
HoldsBack(t, w, n) == /\ Len(buf[t]) < n
                      /\ buf' = [buf EXCEPT ![t] = Append(@, w)]
                      /\ mem' = mem

\* Such a store: its thread reads its values at once, everybody else later.
LEMMA HoldBackEffect ==
  ASSUME NEW A, NEW n, TSOType(A, n), NEW t \in Threads, NEW w, HoldsBack(t, w, n)
  PROVE  /\ TSOType(A, n)'
         /\ \A u \in Threads : \A a : u # t \/ a \notin DOMAIN w => Kept(u, a)
         /\ \A a \in DOMAIN w : /\ Read(t, a)' = w[a] /\ Late(t, a)'
                                /\ ~ Late(t, a) => Once(t, a)'
<1>1. PICK S : buf[t] \in Seq(S)
  BY DEF TSOType, IsSequence
<1>2. Len(buf[t]) \in Nat /\ Len(buf[t]) <= n /\ n \in Nat
  BY <1>1, LenProperties DEF TSOType
<1> DEFINE b == Append(buf[t], w)
<1>3. mem' = mem /\ buf' = [buf EXCEPT ![t] = b] /\ Len(buf[t]) < n
  BY DEF HoldsBack, TSOType
<1>4. buf[t] \in Seq(S \cup {w})
  BY <1>1, SeqMonotonic
<1>5. /\ b \in Seq(S \cup {w}) /\ Len(b) = Len(buf[t]) + 1
      /\ \A k \in 1 .. Len(buf[t]) : b[k] = buf[t][k]
      /\ b[Len(buf[t]) + 1] = w
  BY <1>4
<1> HIDE DEF b
<1>6. /\ IsSequence(b) /\ buf'[t] = b
      /\ \A u \in Threads : u # t => buf'[u] = buf[u]
      /\ buf' = [u \in Threads |-> buf'[u]]
  BY <1>3, <1>5 DEF IsSequence, TSOType
<1>7. TSOType(A, n)'
  <2>1. Len(buf'[t]) <= n
    BY <1>2, <1>3, <1>5, <1>6
  <2>2. QED
    BY <1>3, <1>6, <2>1 DEF TSOType
<1>8. \A a : Pending(t, a)' = {k \in 1 .. Len(buf[t]) + 1 : a \in DOMAIN b[k]}
  BY <1>5, <1>6 DEF Pending
<1>9. \A a : /\ Read(t, a) = Lookup(buf[t], mem, a)
             /\ Read(t, a)' = Lookup(buf'[t], mem', a)
             /\ Positions(buf[t], a) = Pending(t, a)
             /\ Positions(buf'[t], a) = Pending(t, a)'
  BY DEF Read, Lookup, Pending, Positions
<1>10. ASSUME NEW a, a \notin DOMAIN w
      PROVE  Kept(t, a)
  <2>1. Pending(t, a)' = Pending(t, a)
    BY <1>2, <1>5, <1>8, <1>10 DEF Pending
  <2>2. \A k \in Pending(t, a) : buf'[t][k] = buf[t][k]
    BY <1>5, <1>6 DEF Pending
  <2>3. Read(t, a)' = Read(t, a)
    <3>1. CASE Pending(t, a) = {}
      BY <1>3, <2>1, <3>1 DEF Read
    <3>2. CASE Pending(t, a) # {}
      <4>1. IsSequence(buf[t]) /\ IsSequence(buf'[t])
        BY <1>6 DEF TSOType
      <4>2. PICK k \in Pending(t, a) : \A l \in Pending(t, a) : l <= k
        BY <1>9, <3>2, <4>1, Newest
      <4>3. Lookup(buf[t], mem, a) = buf[t][k][a]
        BY <1>9, <3>2, <4>1, <4>2, Newest
      <4>4. Lookup(buf'[t], mem', a) = buf'[t][k][a]
        BY <1>9, <2>1, <3>2, <4>1, <4>2, Newest
      <4>5. QED
        BY <1>9, <2>2, <4>2, <4>3, <4>4
    <3>3. QED
      BY <3>1, <3>2
  <2>4. QED
    BY <2>1, <2>3 DEF Kept, Late, Once
<1>11. ASSUME NEW a \in DOMAIN w
      PROVE  /\ Read(t, a)' = w[a] /\ Late(t, a)'
             /\ ~ Late(t, a) => Once(t, a)'
  <2>1. /\ Pending(t, a)' = Pending(t, a) \cup {Len(buf[t]) + 1}
        /\ \A k \in Pending(t, a) : k <= Len(buf[t])
    BY <1>2, <1>5, <1>8, <1>11 DEF Pending
  <2>2. \A k \in Pending(t, a)' : k <= Len(buf[t]) + 1
    BY <1>2, <1>8
  <2>3. Len(buf[t]) + 1 \in Positions(buf'[t], a)
    BY <1>9, <2>1
  <2>4. \A k \in Positions(buf'[t], a) : k <= Len(buf[t]) + 1
    BY <1>9, <2>2
  <2>5. Lookup(buf'[t], mem', a) = buf'[t][Len(buf[t]) + 1][a]
    BY <1>6, <2>3, <2>4, Newest
  <2>6. Late(t, a)' /\ (~ Late(t, a) => Once(t, a)')
    BY <2>1 DEF Late, Once
  <2>7. QED
    BY <1>5, <1>6, <1>9, <2>5, <2>6
<1>12. \A u \in Threads : \A a : u # t => Kept(u, a)
  BY <1>6, BufferKept
<1>13. QED
  BY <1>3, <1>7, <1>10, <1>11, <1>12

\* A store of several words at once: held back, or in memory when there are no
\* store buffers.
LEMMA WriteAllEffect ==
  ASSUME NEW A, TSOType(A, BufferSize), NEW t \in Threads, NEW w, DOMAIN w \subseteq A,
         WriteAll(t, w)
  PROVE  /\ TSOType(A, BufferSize)'
         /\ \A a \in A : a \notin DOMAIN w => mem'[a] = mem[a]
         /\ \A u \in Threads : \A a : u # t \/ a \notin DOMAIN w => Kept(u, a)
         /\ \A a \in DOMAIN w :
              /\ Read(t, a)' = w[a]
              /\ ~ Late(t, a) => Once(t, a)'
              /\ \/ Late(t, a)' /\ mem'[a] = mem[a]
                 \/ ~ Late(t, a)' /\ ~ Late(t, a) /\ mem'[a] = w[a]
<1>1. PICK S : buf[t] \in Seq(S)
  BY DEF TSOType, IsSequence
<1>2. Len(buf[t]) \in Nat /\ Len(buf[t]) <= BufferSize
  BY <1>1, LenProperties DEF TSOType
<1>3. CASE BufferSize = 0
  <2>1. mem' = [a \in A |-> IF a \in DOMAIN w THEN w[a] ELSE mem[a]] /\ buf' = buf
    BY <1>3 DEF WriteAll, Stored, TSOType
  <2>2. TSOType(A, BufferSize)'
    BY <2>1 DEF TSOType
  <2>3. \A a : ~ Late(t, a) /\ ~ Late(t, a)' /\ Once(t, a)'
    BY <1>2, <1>3, <2>1 DEF Late, Once, Pending
  <2>4. \A a : Read(t, a)' = mem'[a]
    BY <2>3 DEF Late, Read
  <2>5. \A u, a : Kept(u, a)
    BY <2>1, BufferKept
  <2>6. QED
    BY <2>1, <2>2, <2>3, <2>4, <2>5
<1>4. CASE BufferSize # 0
  <2>1. HoldsBack(t, w, BufferSize) /\ mem' = mem
    BY <1>4 DEF WriteAll, HoldsBack
  <2>2. /\ TSOType(A, BufferSize)'
        /\ \A u \in Threads : \A a : u # t \/ a \notin DOMAIN w => Kept(u, a)
        /\ \A a \in DOMAIN w : /\ Read(t, a)' = w[a] /\ Late(t, a)'
                               /\ ~ Late(t, a) => Once(t, a)'
    BY <2>1, HoldBackEffect
  <2>3. QED
    BY <2>1, <2>2
<1>5. QED
  BY <1>3, <1>4

\* The words of one store are in the buffer together.
LEMMA WriteAllTogether ==
  ASSUME NEW A, TSOType(A, BufferSize), NEW t \in Threads, NEW w, WriteAll(t, w),
         NEW a \in DOMAIN w, NEW b \in DOMAIN w, Pending(t, a) = Pending(t, b)
  PROVE  Pending(t, a)' = Pending(t, b)'
<1>1. CASE BufferSize = 0
  <2>1. buf' = buf
    BY <1>1 DEF WriteAll
  <2>2. QED
    BY <2>1 DEF Pending
<1>2. CASE BufferSize # 0
  <2>1. PICK S : buf[t] \in Seq(S)
    BY DEF TSOType, IsSequence
  <2>2. buf'[t] = Append(buf[t], w) /\ buf[t] \in Seq(S \cup {w})
    BY <1>2, <2>1, SeqMonotonic DEF WriteAll, TSOType
  <2>3. /\ Len(buf'[t]) = Len(buf[t]) + 1 /\ Len(buf[t]) \in Nat
        /\ \A k \in 1 .. Len(buf[t]) : buf'[t][k] = buf[t][k]
        /\ buf'[t][Len(buf[t]) + 1] = w
    BY <2>2
  <2>4. \A c \in DOMAIN w :
          Pending(t, c)' = Pending(t, c) \cup {Len(buf[t]) + 1}
    BY <2>3 DEF Pending
  <2>5. QED
    BY <2>4
<1>3. QED
  BY <1>1, <1>2

\* A store of one word.
LEMMA WriteEffect ==
  ASSUME NEW A, TSOType(A, BufferSize), NEW t \in Threads, NEW a \in A, NEW v, Write(t, a, v)
  PROVE  /\ TSOType(A, BufferSize)'
         /\ \A b \in A : b # a => mem'[b] = mem[b]
         /\ \A u \in Threads : \A b : u # t \/ b # a => Kept(u, b)
         /\ Read(t, a)' = v
         /\ ~ Late(t, a) => Once(t, a)'
         /\ \/ Late(t, a)' /\ mem'[a] = mem[a]
            \/ ~ Late(t, a)' /\ ~ Late(t, a) /\ mem'[a] = v
<1> DEFINE w == [x \in {a} |-> v]
<1>1. DOMAIN w = {a} /\ w[a] = v
  OBVIOUS
<1>2. WriteAll(t, w)
  BY DEF Write
<1> HIDE DEF w
<1>3. QED
  BY <1>1, <1>2, WriteAllEffect

-----------------------------------------------------------------------------
(* The order of stores *)

\* The stores of t to word a that it holds back are older than those to b.
Before(t, a, b) == \A k \in Pending(t, a), l \in Pending(t, b) : k < l

\* The buffer is a queue: the younger store does not overtake the older one.
LEMMA BeforeAfterFlush ==
  ASSUME NEW A, NEW n, TSOType(A, n), NEW t \in Threads, Flush(t),
         NEW a \in A, NEW b \in A, Before(t, a, b)
  PROVE  /\ Before(t, a, b)'
         /\ Late(t, a)' => mem'[b] = mem[b] /\ (Late(t, b)' <=> Late(t, b))
<1>1. /\ \A c : /\ Pending(t, c)' = {k \in 1 .. Len(buf[t]) - 1 : k + 1 \in Pending(t, c)}
                /\ 1 \in Pending(t, c) <=> c \in DOMAIN Head(buf[t])
                /\ Pending(t, c) \subseteq 1 .. Len(buf[t])
      /\ Len(buf[t]) \in Nat \ {0}
  BY PendingAfterFlush, BufferAfterFlush
<1>2. mem' = [c \in A |-> IF c \in DOMAIN Head(buf[t]) THEN Head(buf[t])[c] ELSE mem[c]]
  BY DEF Flush, TSOType, Stored
<1>3. Before(t, a, b)'
  <2>1. ASSUME NEW k \in Pending(t, a)', NEW l \in Pending(t, b)'
        PROVE  k < l
    <3>1. /\ k + 1 \in Pending(t, a) /\ l + 1 \in Pending(t, b)
          /\ k \in Int /\ l \in Int
      BY <1>1, <2>1
    <3>2. k + 1 < l + 1
      BY <3>1 DEF Before
    <3>3. QED
      BY <3>1, <3>2
  <2>2. QED
    BY <2>1 DEF Before
<1>4. ASSUME Late(t, a)'
      PROVE  mem'[b] = mem[b] /\ (Late(t, b)' <=> Late(t, b))
  <2>1. PICK k \in Pending(t, a) : k \in Int /\ k > 1
    BY <1>1, <1>4 DEF Late
  <2>2. \A l \in Pending(t, b) : l > k
    BY <2>1 DEF Before
  <2>3. 1 \notin Pending(t, b)
    BY <2>1, <2>2
  <2>4. mem'[b] = mem[b]
    BY <1>1, <1>2, <2>3
  <2>5. \A l \in Pending(t, b) : l - 1 \in Pending(t, b)'
    BY <1>1, <2>3
  <2>6. QED
    BY <1>1, <2>4, <2>5 DEF Late
<1>5. QED
  BY <1>3, <1>4

\* A store that is held back is the youngest; one that is not finds the buffer
\* empty.
LEMMA BeforeAfterWrite ==
  ASSUME NEW A, TSOType(A, BufferSize), NEW t \in Threads, NEW a, NEW b, a # b, NEW v,
         Write(t, b, v), ~ Late(t, b)
  PROVE  /\ Before(t, a, b)'
         /\ ~ Late(t, b)' => \A c : ~ Late(t, c)'
<1> DEFINE w == [x \in {b} |-> v]
<1>1. DOMAIN w = {b} /\ WriteAll(t, w)
  BY DEF Write
<1> HIDE DEF w
<1>2. PICK S : buf[t] \in Seq(S)
  BY DEF TSOType, IsSequence
<1>3. Len(buf[t]) \in Nat /\ Len(buf[t]) <= BufferSize
  BY <1>2, LenProperties DEF TSOType
<1>4. CASE BufferSize = 0
  <2>1. buf' = buf
    BY <1>1, <1>4 DEF WriteAll
  <2>2. \A c : Pending(t, c)' = {}
    BY <1>3, <1>4, <2>1 DEF Pending
  <2>3. QED
    BY <2>2 DEF Late, Before
<1>5. CASE BufferSize # 0
  <2>1. buf'[t] = Append(buf[t], w) /\ buf[t] \in Seq(S \cup {w})
    BY <1>1, <1>2, <1>5, SeqMonotonic DEF WriteAll, TSOType
  <2>2. /\ Len(buf'[t]) = Len(buf[t]) + 1
        /\ \A k \in 1 .. Len(buf[t]) : buf'[t][k] = buf[t][k]
        /\ buf'[t][Len(buf[t]) + 1] = w
    BY <2>1
  <2>3. Pending(t, a)' \subseteq 1 .. Len(buf[t])
    BY <1>1, <1>3, <2>2 DEF Pending
  <2>4. Pending(t, b)' = {Len(buf[t]) + 1}
    BY <1>1, <1>3, <2>2 DEF Pending, Late
  <2>5. \A k \in Pending(t, a)', l \in Pending(t, b)' : k < l
    BY <1>3, <2>3, <2>4
  <2>6. QED
    BY <2>4, <2>5 DEF Before, Late
<1>6. QED
  BY <1>4, <1>5

\* The same for a store to a word whose earlier stores are already the youngest: it
\* waits behind those to the other word.
LEMMA BeforeAfterAppend ==
  ASSUME NEW A, TSOType(A, BufferSize), NEW t \in Threads, NEW a, NEW b, a # b, NEW v,
         Write(t, b, v), Before(t, a, b)
  PROVE  Before(t, a, b)' /\ (Late(t, a) => Late(t, b)')
<1> DEFINE w == [x \in {b} |-> v]
<1>1. DOMAIN w = {b} /\ WriteAll(t, w)
  BY DEF Write
<1> HIDE DEF w
<1>2. PICK S : buf[t] \in Seq(S)
  BY DEF TSOType, IsSequence
<1>3. Len(buf[t]) \in Nat /\ Len(buf[t]) <= BufferSize
  BY <1>2, LenProperties DEF TSOType
<1>4. CASE BufferSize = 0
  <2>1. buf' = buf
    BY <1>1, <1>4 DEF WriteAll
  <2>2. \A c : Pending(t, c)' = {} /\ Pending(t, c) = {}
    BY <1>3, <1>4, <2>1 DEF Pending
  <2>3. QED
    BY <2>2 DEF Late, Before
<1>5. CASE BufferSize # 0
  <2>1. buf'[t] = Append(buf[t], w) /\ buf[t] \in Seq(S \cup {w})
    BY <1>1, <1>2, <1>5, SeqMonotonic DEF WriteAll, TSOType
  <2>2. /\ Len(buf'[t]) = Len(buf[t]) + 1
        /\ \A k \in 1 .. Len(buf[t]) : buf'[t][k] = buf[t][k]
        /\ buf'[t][Len(buf[t]) + 1] = w
    BY <2>1
  <2>3. Pending(t, a)' = Pending(t, a) /\ Pending(t, a) \subseteq 1 .. Len(buf[t])
    BY <1>1, <1>3, <2>2 DEF Pending
  <2>4. Pending(t, b)' = Pending(t, b) \cup {Len(buf[t]) + 1}
    BY <1>1, <1>3, <2>2 DEF Pending
  <2>5. \A k \in Pending(t, a)', l \in Pending(t, b)' : k < l
    BY <1>3, <2>3, <2>4 DEF Before
  <2>6. QED
    BY <2>4, <2>5 DEF Before, Late
<1>6. QED
  BY <1>4, <1>5
=============================================================================
