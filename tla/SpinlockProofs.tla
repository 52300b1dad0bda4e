--------------------------- MODULE SpinlockProofs ---------------------------
(***************************************************************************)
(* Theorems about the spinlocks, for any number of threads and of          *)
(* iterations and store buffers of any size: the invariants of module      *)
(* MCSpinlocks, and that the queue locks implement FifoLock.               *)
(***************************************************************************)
EXTENDS MCSpinlocks, TSOProofs, FiniteSetTheorems

\* Between the return of lock() and the end of unlock(), for all programs.
InCS(t) == pc[t] \in {"load", "store", "unlock"}

-----------------------------------------------------------------------------
(* Numbers that wrap around, and the queue they describe *)

\* The number k after x, and how many steps it is from x to y.
Plus(M, x, k) == IF x + k < M THEN x + k ELSE x + k - M
Gap(M, x, y) == IF x <= y THEN y - x ELSE y - x + M

Below(M) == 0 .. M - 1

\* The arithmetic of 2^16 values: steps and gaps are inverse.
LEMMA WrapArithmetic ==
  ASSUME NEW M \in Nat \ {0}, NEW x \in Below(M)
  PROVE  /\ \A k \in 0 .. M : Plus(M, x, k) \in Below(M)
         /\ Plus(M, x, 0) = x
         /\ x % M = x
         /\ (x + 1) % M = Plus(M, x, 1)
         /\ \A k \in 0 .. M - 1 : Plus(M, Plus(M, x, 1), k) = Plus(M, x, k + 1)
         /\ \A k \in 0 .. M - 1 : Gap(M, x, Plus(M, x, k)) = k
         /\ \A y \in Below(M) : Gap(M, x, y) \in Below(M) /\ Plus(M, x, Gap(M, x, y)) = y
         /\ \A y \in Below(M) : y # x => /\ Gap(M, x, y) # 0
                                         /\ Gap(M, Plus(M, x, 1), y) = Gap(M, x, y) - 1
         /\ Gap(M, x, x) = 0
<1>1. M \in Nat \ {0} /\ x \in Int /\ 0 <= x /\ x < M
  BY DEF Below
<1>2. (x + 1) % M = Plus(M, x, 1)
  <2>1. CASE x + 1 < M
    BY <1>1, <2>1 DEF Plus
  <2>2. CASE x + 1 = M
    BY <1>1, <2>2 DEF Plus
  <2>3. QED
    BY <1>1, <2>1, <2>2
<1>3. x % M = x
  BY <1>1
<1>4. QED
  BY <1>1, <1>2, <1>3 DEF Below, Plus, Gap

\* The modulus is not zero and no smaller than the number of threads.
LEMMA WrapFacts == Wrap \in Nat \ {0} /\ Cardinality(Threads) <= Wrap
BY WrapAssumption

\* The threads Q have a number and those in P have passed their turn on.  The
\* turn is first - 1 for the oldest of them all, turn for the next one to come
\* in, and next is the next number to be given; number[t] is that of t.
Books(M, oldest, current, next, P, Q, number) ==
  /\ P \subseteq Q /\ Q \subseteq Threads
  /\ current = Plus(M, oldest, Cardinality(P))
  /\ next = Plus(M, oldest, Cardinality(Q))
  /\ \A t \in Q \ P : /\ Cardinality(P) <= Gap(M, oldest, number[t])
                      /\ Gap(M, oldest, number[t]) < Cardinality(Q)
  /\ \A s, t \in Q \ P : number[s] = number[t] => s = t

\* How many threads there are on the books.
LEMMA BooksSize ==
  ASSUME NEW M \in Nat \ {0}, Cardinality(Threads) <= M,
         NEW P, NEW Q, P \subseteq Q, Q \subseteq Threads
  PROVE  /\ IsFiniteSet(P) /\ IsFiniteSet(Q)
         /\ Cardinality(P) \in Nat /\ Cardinality(Q) \in Nat
         /\ Cardinality(P) <= Cardinality(Q) /\ Cardinality(Q) <= M
         /\ M \in Nat \ {0}
<1>1. IsFiniteSet(P) /\ IsFiniteSet(Q)
  BY ThreadsAssumption, FS_Subset
<1>2. Cardinality(P) <= Cardinality(Q) /\ Cardinality(Q) <= Cardinality(Threads)
  BY ThreadsAssumption, <1>1, FS_Subset
<1>3. /\ Cardinality(P) \in Nat /\ Cardinality(Q) \in Nat
      /\ Cardinality(Threads) \in Nat
  BY ThreadsAssumption, <1>1, FS_CardinalityType
<1>4. M \in Nat \ {0} /\ Cardinality(Threads) <= M
  OBVIOUS
<1>5. Cardinality(Q) <= M
  BY <1>2, <1>3, <1>4
<1>6. QED
  BY <1>1, <1>2, <1>3, <1>4, <1>5

\* A thread takes a number.
LEMMA BooksTake ==
  ASSUME NEW M \in Nat \ {0}, Cardinality(Threads) <= M,
         NEW w \in Below(M), NEW r, NEW n, NEW P, NEW Q, NEW k,
         Books(M, w, r, n, P, Q, k),
         NEW t \in Threads \ Q, NEW k2, k2[t] = n, \A u \in Threads \ {t} : k2[u] = k[u],
         \A u \in Q : k[u] \in Below(M)
  PROVE  n \in Below(M) /\ Books(M, w, r, Plus(M, n, 1), P, Q \cup {t}, k2)
<1> DEFINE p == Cardinality(P)
           q == Cardinality(Q)
<1>1. P \subseteq Q /\ Q \subseteq Threads /\ Q \cup {t} \subseteq Threads
  BY DEF Books
<1>2. IsFiniteSet(Q) /\ p \in Nat /\ q \in Nat /\ p <= q /\ M \in Nat \ {0}
  BY <1>1, BooksSize
<1>3. Cardinality(Q \cup {t}) = q + 1
  BY <1>2, FS_AddElement
<1>4. q + 1 <= M
  BY <1>1, <1>3, BooksSize
<1>5. n = Plus(M, w, q) /\ q \in 0 .. M - 1 /\ q \in 0 .. M
  BY <1>2, <1>4 DEF Books
<1>6. n \in Below(M) /\ Gap(M, w, n) = q
  BY <1>5, WrapArithmetic
<1>7. Plus(M, n, 1) = Plus(M, w, q + 1)
  <2>1. w \in Int /\ 0 <= w /\ w < M
    BY <1>2 DEF Below
  <2>2. QED
    BY <1>2, <1>4, <1>5, <2>1 DEF Plus
<1>8. \A u \in Q \ P : k[u] # n /\ k2[u] = k[u]
  <2>1. \A u \in Q \ P : Gap(M, w, k[u]) < q
    BY DEF Books
  <2>2. ~ (Gap(M, w, n) < q)
    BY <1>2, <1>6
  <2>3. \A u \in Q \ P : k[u] # n
    BY <2>1, <2>2, Zenon
  <2>4. QED
    BY <1>1, <2>3
<1>9. \A u \in (Q \cup {t}) \ P : p <= Gap(M, w, k2[u]) /\ Gap(M, w, k2[u]) < q + 1
  <2>1. \A u \in Q \ P : /\ p <= Gap(M, w, k[u]) /\ Gap(M, w, k[u]) < q
                         /\ Gap(M, w, k[u]) \in Below(M)
    BY WrapArithmetic DEF Books
  <2>2. \A u \in Q \ P : p <= Gap(M, w, k2[u]) /\ Gap(M, w, k2[u]) < q + 1
    <3>1. ASSUME NEW u \in Q \ P
          PROVE  p <= Gap(M, w, k2[u]) /\ Gap(M, w, k2[u]) < q + 1
      <4>1. Gap(M, w, k2[u]) = Gap(M, w, k[u])
        BY <1>8
      <4>2. QED
        BY <1>2, <2>1, <4>1 DEF Below
    <3>2. QED
      BY <3>1
  <2>3. p <= Gap(M, w, k2[t]) /\ Gap(M, w, k2[t]) < q + 1
    <3>1. Gap(M, w, k2[t]) = q
      BY <1>6
    <3>2. QED
      BY <1>2, <3>1
  <2>4. QED
    BY <2>2, <2>3, Zenon
<1>10. \A s, u \in (Q \cup {t}) \ P : k2[s] = k2[u] => s = u
  BY <1>8 DEF Books
<1>11. QED
  BY <1>1, <1>3, <1>6, <1>7, <1>9, <1>10 DEF Books

\* The thread whose turn it is passes it on.
LEMMA BooksPass ==
  ASSUME NEW M \in Nat \ {0}, Cardinality(Threads) <= M,
         NEW w \in Below(M), NEW r, NEW n, NEW P, NEW Q, NEW k,
         Books(M, w, r, n, P, Q, k),
         NEW t \in Q \ P, k[t] = r, \A u \in Q : k[u] \in Below(M)
  PROVE  Books(M, w, Plus(M, r, 1), n, P \cup {t}, Q, k)
<1> DEFINE p == Cardinality(P)
           q == Cardinality(Q)
<1>1. P \subseteq Q /\ Q \subseteq Threads
  BY DEF Books
<1>2. IsFiniteSet(P) /\ p \in Nat /\ q \in Nat /\ q <= M /\ M \in Nat \ {0}
  BY <1>1, BooksSize
<1>3. Cardinality(P \cup {t}) = p + 1
  BY <1>2, FS_AddElement
<1>4. p < q
  <2>1. Gap(M, w, k[t]) \in Below(M) /\ p <= Gap(M, w, k[t]) /\ Gap(M, w, k[t]) < q
    BY WrapArithmetic DEF Books
  <2>2. QED
    BY <1>2, <2>1 DEF Below
<1>5. r = Plus(M, w, p) /\ p \in 0 .. M - 1
  BY <1>2, <1>4 DEF Books
<1>6. Gap(M, w, r) = p
  BY <1>5, WrapArithmetic
<1>7. Plus(M, r, 1) = Plus(M, w, p + 1)
  <2>1. w \in Int /\ 0 <= w /\ w < M
    BY <1>2 DEF Below
  <2>2. QED
    BY <1>2, <1>4, <1>5, <2>1 DEF Plus
<1>8. \A u \in Q \ (P \cup {t}) : p + 1 <= Gap(M, w, k[u]) /\ Gap(M, w, k[u]) < q
  <2>1. \A u \in Q \ (P \cup {t}) : /\ p <= Gap(M, w, k[u]) /\ Gap(M, w, k[u]) < q
                                    /\ Gap(M, w, k[u]) \in Below(M) /\ k[u] # r
                                    /\ k[u] = Plus(M, w, Gap(M, w, k[u]))
    BY WrapArithmetic DEF Books
  <2>2. \A u \in Q \ (P \cup {t}) : Gap(M, w, k[u]) # p
    BY <1>5, <2>1
  <2>3. QED
    BY <1>2, <2>1, <2>2 DEF Below
<1>9. \A s, u \in Q \ (P \cup {t}) : k[s] = k[u] => s = u
  BY DEF Books
<1>10. n = Plus(M, w, q) /\ P \cup {t} \subseteq Q
  BY <1>1 DEF Books
<1>11. QED
  BY <1>1, <1>3, <1>7, <1>8, <1>9, <1>10 DEF Books

\* A thread that has passed its turn on leaves.
LEMMA BooksLeave ==
  ASSUME NEW M \in Nat \ {0}, Cardinality(Threads) <= M,
         NEW w \in Below(M), NEW r, NEW n, NEW P, NEW Q, NEW k,
         Books(M, w, r, n, P, Q, k),
         NEW t \in P, \A u \in Q : k[u] \in Below(M)
  PROVE  /\ Books(M, Plus(M, w, 1), r, n, P \ {t}, Q \ {t}, k)
         /\ \A u \in Q \ P : k[u] # w
<1> DEFINE p == Cardinality(P)
           q == Cardinality(Q)
<1>1. P \subseteq Q /\ Q \subseteq Threads
  BY DEF Books
<1>2. /\ IsFiniteSet(P) /\ IsFiniteSet(Q) /\ p \in Nat /\ q \in Nat
      /\ p <= q /\ q <= M /\ M \in Nat \ {0}
  BY <1>1, BooksSize
<1>3. Cardinality(P \ {t}) = p - 1 /\ Cardinality(Q \ {t}) = q - 1
  BY <1>1, <1>2, FS_RemoveElement
<1>4. p # 0
  BY <1>2, FS_EmptySet
<1>5. r = Plus(M, w, p) /\ n = Plus(M, w, q) /\ p - 1 \in 0 .. M - 1 /\ q - 1 \in 0 .. M - 1
  BY <1>2, <1>4 DEF Books
<1>6. r = Plus(M, Plus(M, w, 1), p - 1) /\ n = Plus(M, Plus(M, w, 1), q - 1)
  <2>1. w \in Int /\ 0 <= w /\ w < M
    BY <1>2 DEF Below
  <2>2. QED
    BY <1>2, <1>4, <1>5, <2>1 DEF Plus
<1>7. \A u \in Q \ P : /\ k[u] # w /\ p - 1 <= Gap(M, Plus(M, w, 1), k[u])
                       /\ Gap(M, Plus(M, w, 1), k[u]) < q - 1
  <2>1. \A u \in Q \ P : /\ p <= Gap(M, w, k[u]) /\ Gap(M, w, k[u]) < q
                         /\ Gap(M, w, k[u]) \in Below(M)
    BY WrapArithmetic DEF Books
  <2>2. \A u \in Q \ P : k[u] # w
    BY <1>2, <1>4, <2>1, WrapArithmetic
  <2>3. \A u \in Q \ P : Gap(M, Plus(M, w, 1), k[u]) = Gap(M, w, k[u]) - 1
    BY <2>2, WrapArithmetic
  <2>4. QED
    BY <1>2, <2>1, <2>2, <2>3 DEF Below
<1>8. (Q \ {t}) \ (P \ {t}) = Q \ P /\ P \ {t} \subseteq Q \ {t} /\ Q \ {t} \subseteq Threads
  BY <1>1
<1>9. \A s, u \in Q \ P : k[s] = k[u] => s = u
  BY DEF Books
<1>10. QED
  BY <1>3, <1>6, <1>7, <1>8, <1>9 DEF Books

\* The thread that the oldest turn is at is the only one inside.
LEMMA BooksAlone ==
  ASSUME NEW M \in Nat \ {0}, Cardinality(Threads) <= M,
         NEW w \in Below(M), NEW r, NEW n, NEW P, NEW Q, NEW k,
         Books(M, w, r, n, P, Q, k),
         NEW t \in Q \ P, k[t] = w
  PROVE  /\ P = {} /\ r = w
         /\ \A u \in Q \ P : k[u] = w => u = t
<1> DEFINE p == Cardinality(P)
<1>1. P \subseteq Q /\ Q \subseteq Threads
  BY DEF Books
<1>2. IsFiniteSet(P) /\ p \in Nat
  BY <1>1, BooksSize
<1>3. p = 0
  <2>1. p <= Gap(M, w, w)
    BY DEF Books
  <2>2. QED
    BY <1>2, <2>1, WrapArithmetic
<1>4. P = {}
  BY <1>2, <1>3, FS_EmptySet
<1>5. r = w
  BY <1>3, WrapArithmetic DEF Books
<1>6. \A u \in Q \ P : k[u] = w => u = t
  BY DEF Books
<1>7. QED
  BY <1>4, <1>5, <1>6

\* And it leaves.
LEMMA BooksRelease ==
  ASSUME NEW M \in Nat \ {0}, Cardinality(Threads) <= M,
         NEW w \in Below(M), NEW r, NEW n, NEW P, NEW Q, NEW k,
         Books(M, w, r, n, P, Q, k),
         NEW t \in Q \ P, k[t] = w, \A u \in Q : k[u] \in Below(M)
  PROVE  Books(M, Plus(M, w, 1), Plus(M, w, 1), n, {}, Q \ {t}, k)
<1> DEFINE p == Cardinality(P)
           q == Cardinality(Q)
<1>1. P \subseteq Q /\ Q \subseteq Threads
  BY DEF Books
<1>2. IsFiniteSet(Q) /\ q \in Nat /\ q <= M /\ M \in Nat \ {0}
  BY <1>1, BooksSize
<1>3. /\ P = {} /\ r = w /\ Cardinality({}) = 0
      /\ \A u \in Q \ P : k[u] = w => u = t
  BY BooksAlone, FS_EmptySet
<1>4. Cardinality(Q \ {t}) = q - 1 /\ q # 0
  BY <1>2, FS_RemoveElement, FS_EmptySet
<1>5. n = Plus(M, Plus(M, w, 1), q - 1) /\ Plus(M, w, 1) = Plus(M, Plus(M, w, 1), 0)
  <2>1. n = Plus(M, w, q)
    BY DEF Books
  <2>2. w \in Int /\ 0 <= w /\ w < M
    BY <1>2 DEF Below
  <2>3. QED
    BY <1>2, <1>4, <2>1, <2>2 DEF Plus
<1>6. \A u \in Q \ {t} : /\ 0 <= Gap(M, Plus(M, w, 1), k[u])
                         /\ Gap(M, Plus(M, w, 1), k[u]) < q - 1
  <2>1. \A u \in Q \ {t} : Gap(M, w, k[u]) < q /\ k[u] # w
    BY <1>3 DEF Books
  <2>2. \A u \in Q \ {t} : /\ Gap(M, Plus(M, w, 1), k[u]) = Gap(M, w, k[u]) - 1
                           /\ Gap(M, w, k[u]) # 0 /\ Gap(M, w, k[u]) \in Below(M)
    BY <2>1, WrapArithmetic
  <2>3. QED
    BY <1>2, <2>1, <2>2 DEF Below
<1>7. \A s, u \in Q \ {t} : k[s] = k[u] => s = u
  BY <1>3 DEF Books
<1>8. QED
  BY <1>1, <1>3, <1>4, <1>5, <1>6, <1>7 DEF Books

-----------------------------------------------------------------------------
(* The locks that keep one word *)

Mutex == Spin!Mutex
SpinLabels == {"begin", "take", "pause", "load", "store", "unlock", "done"}

SpinType == TSOType({Mutex, Counter}, BufferSize) /\ pc \in [Threads -> SpinLabels]

\* t has the lock, or has left and its store of 0 is still in its buffer.
SpinOwner(t) == InCS(t) \/ Late(t, Mutex)

\* The word says that there is an owner, and a late release is that of the
\* only one.
SpinHeld ==
  /\ \A t \in Threads : /\ Once(t, Mutex)
                        /\ Late(t, Mutex) => Read(t, Mutex) = 0 /\ ~ InCS(t)
                        /\ SpinOwner(t) => mem[Mutex] # 0
  /\ \A s, t \in Threads : SpinOwner(s) /\ SpinOwner(t) => s = t

SpinInv == SpinType /\ SpinHeld

\* The copies of the operators of TSO and TSOCountLoop in SpinLock.
LEMMA SpinOperators ==
  /\ Spin!Counter = Counter /\ Mutex # Counter
  /\ \A t, a : Spin!Read(t, a) = Read(t, a)
  /\ \A t, a, v : Spin!Write(t, a, v) <=> Write(t, a, v)
  /\ \A t, a, v : Spin!Update(t, a, v) <=> Update(t, a, v)
  /\ \A m : Spin!MemInit(m) <=> MemInit(m)
BY DEF Spin!Counter, Counter, Mutex, Spin!Mutex, Spin!Read, Read, Spin!Pending, Pending,
       Spin!Write, Write, Spin!WriteAll, WriteAll, Spin!Stored, Stored,
       Spin!Update, Update, Spin!Drained, Drained, Spin!MemInit, MemInit

\* Nobody has the lock.
LEMMA SpinInit == Spin!Init => SpinInv
<1> SUFFICES ASSUME Spin!Init
             PROVE  SpinInv
  OBVIOUS
<1> DEFINE m == [a \in {Mutex, Counter} |-> 0]
<1>1. MemInit(m) /\ m = [a \in {Mutex, Counter} |-> m[a]]
  BY SpinOperators DEF Spin!Init, Mutex
<1> HIDE DEF m
<1>2. /\ TSOType({Mutex, Counter}, BufferSize)
      /\ \A t \in Threads : ~ Late(t, Mutex) /\ Once(t, Mutex)
  BY <1>1, BufferAssumption, InitEffect
<1>3. pc = [t \in Threads |-> "begin"]
  BY DEF Spin!Init, Spin!LoopInit
<1>4. QED
  BY <1>2, <1>3 DEF SpinInv, SpinType, SpinHeld, SpinOwner, InCS, SpinLabels

\* A step that leaves the word alone and lets nobody in.
LEMMA SpinFrame ==
  ASSUME SpinInv, SpinType', mem'[Mutex] = mem[Mutex],
         \A u \in Threads : Kept(u, Mutex) /\ (InCS(u)' => InCS(u))
  PROVE  SpinInv'
BY DEF SpinInv, SpinHeld, SpinOwner, Kept

\* Every step of a lock of one word keeps its invariant.
LEMMA SpinStep ==
  ASSUME SpinInv, NEW t \in Threads, Spin!Step(t)
  PROVE  SpinInv'
<1> SpinType /\ SpinHeld
  BY DEF SpinInv
<1>0. Mutex \in {Mutex, Counter} /\ Counter \in {Mutex, Counter} /\ Mutex # Counter
  BY SpinOperators
<1> USE DEF SpinType
\* A step that leaves the memory alone and does not enter.
<1>1. ASSUME UNCHANGED memvars, NEW l \in SpinLabels, pc' = [pc EXCEPT ![t] = l],
             l \in {"load", "store", "unlock"} => InCS(t)
      PROVE  SpinInv'
  <2>1. /\ TSOType({Mutex, Counter}, BufferSize)' /\ mem' = mem
        /\ \A u \in Threads : Kept(u, Mutex)
    BY <1>1, NoEffect
  <2>2. \A u \in Threads : InCS(u)' => InCS(u)
    BY <1>1 DEF InCS
  <2>3. QED
    BY <1>1, <2>1, <2>2, SpinFrame
\* The atomic instruction that tries to take the word.
<1>2. ASSUME NEW v, v # 0, Spin!Take(t, v), ~ InCS(t)
      PROVE  SpinInv'
  <2>1. Update(t, Mutex, v)
    BY <1>2, SpinOperators DEF Spin!Take, Mutex
  <2>2. /\ TSOType({Mutex, Counter}, BufferSize)' /\ mem'[Mutex] = v /\ ~ Late(t, Mutex)
        /\ \A u \in Threads : Kept(u, Mutex)
    BY <1>0, <2>1, UpdateEffect
  <2>3. PICK l \in SpinLabels :
          /\ pc' = [pc EXCEPT ![t] = l]
          /\ l \in {"load", "store", "unlock"} => mem[Mutex] = 0
    BY <1>2 DEF Spin!Take, Spin!Enter, Spin!Fail, Spin!Goto, SpinLabels, Mutex
  <2>4. \A u \in Threads : InCS(u)' => InCS(u) \/ (u = t /\ mem[Mutex] = 0)
    BY <2>3 DEF InCS
  <2>5. \A u \in Threads : SpinOwner(u)' => SpinOwner(u) \/ (u = t /\ mem[Mutex] = 0)
    BY <2>2, <2>4 DEF SpinOwner, Kept
  <2>6. SpinHeld'
    BY <1>2, <2>2, <2>4, <2>5 DEF SpinHeld, SpinOwner, Kept
  <2>7. QED
    BY <2>2, <2>3, <2>6 DEF SpinInv
<1> USE DEF Spin!Goto, SpinLabels
<1>3. CASE Spin!TestMutex(t)
  BY <1>1, <1>3 DEF Spin!TestMutex, Spin!Fail, Spin!memvars, memvars
<1>4. CASE Spin!TestAndSet(t)
  BY <1>2, <1>4 DEF Spin!TestAndSet, Spin!Tries, InCS
<1>5. CASE Spin!Exchange(t)
  BY <1>2, <1>5 DEF Spin!Exchange, Spin!Tries, InCS
<1>6. CASE Spin!CompareExchange(t)
  BY <1>2, <1>6 DEF Spin!CompareExchange, Spin!Tries, InCS, Mutex
<1>7. CASE Spin!Yield(t)
  BY <1>1, <1>7 DEF Spin!Yield, Spin!memvars, memvars
<1>8. CASE Spin!Backoff(t)
  BY <1>1, <1>8 DEF Spin!Backoff, Spin!memvars, memvars
<1>9. CASE Spin!Count(t)
  <2>1. CASE Spin!Load(t)
    BY <1>1, <2>1 DEF Spin!Load, memvars, InCS
  <2>2. CASE Spin!Store(t)
    <3>1. /\ pc[t] = "store" /\ pc' = [pc EXCEPT ![t] = "unlock"]
          /\ Write(t, Counter, reg[t] + 1)
      BY <2>2, SpinOperators DEF Spin!Store
    <3>2. /\ TSOType({Mutex, Counter}, BufferSize)' /\ mem'[Mutex] = mem[Mutex]
          /\ \A u \in Threads : Kept(u, Mutex)
      BY <1>0, <3>1, WriteEffect
    <3>3. \A u \in Threads : InCS(u)' => InCS(u)
      BY <3>1 DEF InCS
    <3>4. QED
      BY <3>1, <3>2, <3>3, SpinFrame
  <2>3. QED
    BY <1>9, <2>1, <2>2 DEF Spin!Count
<1>10. CASE Spin!Unlock(t)
  <2>1. PICK l \in {"begin", "done"} : pc' = [pc EXCEPT ![t] = l]
    BY <1>10 DEF Spin!Unlock, Spin!EndIteration, Spin!After
  <2>2. pc[t] = "unlock" /\ Write(t, Mutex, 0)
    BY <1>10, SpinOperators DEF Spin!Unlock, Mutex
  <2>3. ~ Late(t, Mutex) /\ SpinOwner(t)
    BY <2>2 DEF SpinHeld, InCS, SpinOwner
  <2>4. /\ TSOType({Mutex, Counter}, BufferSize)'
        /\ \A u \in Threads : u # t => Kept(u, Mutex)
        /\ Read(t, Mutex)' = 0 /\ Once(t, Mutex)'
        /\ \/ Late(t, Mutex)' /\ mem'[Mutex] = mem[Mutex]
           \/ ~ Late(t, Mutex)' /\ mem'[Mutex] = 0
    BY <1>0, <2>2, <2>3, WriteEffect
  <2>5. ~ InCS(t)' /\ \A u \in Threads : u # t => (InCS(u)' <=> InCS(u))
    BY <2>1 DEF InCS
  <2>6. SpinHeld'
    BY <2>3, <2>4, <2>5 DEF SpinHeld, SpinOwner, Kept
  <2>7. QED
    BY <2>1, <2>4, <2>6 DEF SpinInv
<1>11. CASE Spin!AddFetch(t)
  <2>1. PICK l \in {"begin", "done"} : pc' = [pc EXCEPT ![t] = l]
    BY <1>11 DEF Spin!AddFetch, Spin!EndIteration, Spin!After
  <2>2. Update(t, Counter, mem[Counter] + 1)
    BY <1>11, SpinOperators DEF Spin!AddFetch
  <2>3. /\ TSOType({Mutex, Counter}, BufferSize)' /\ mem'[Mutex] = mem[Mutex]
        /\ \A u \in Threads : Kept(u, Mutex)
    BY <1>0, <2>2, UpdateEffect
  <2>4. \A u \in Threads : InCS(u)' => InCS(u)
    BY <2>1 DEF InCS
  <2>5. QED
    BY <2>1, <2>3, <2>4, SpinFrame
<1>12. QED
  BY <1>3, <1>4, <1>5, <1>6, <1>7, <1>8, <1>9, <1>10, <1>11 DEF Spin!Step

\* The release reaches memory.
LEMMA SpinDrain ==
  ASSUME SpinInv, NEW t \in Threads, Drain(t)
  PROVE  SpinInv'
<1>0. SpinType /\ SpinHeld /\ Mutex \in {Mutex, Counter}
  BY DEF SpinInv
<1>1. Flush(t) /\ pc' = pc
  BY DEF Drain, loopvars
<1>2. /\ TSOType({Mutex, Counter}, BufferSize)'
      /\ \A u \in Threads : u # t => Kept(u, Mutex)
      /\ Once(t, Mutex)' /\ Read(t, Mutex)' = Read(t, Mutex)
      /\ \/ mem'[Mutex] = mem[Mutex] /\ (Late(t, Mutex)' <=> Late(t, Mutex))
         \/ Late(t, Mutex) /\ ~ Late(t, Mutex)' /\ mem'[Mutex] = 0
  BY <1>0, <1>1, FlushEffect DEF SpinType, SpinHeld
<1>3. \A u \in Threads : InCS(u)' <=> InCS(u)
  BY <1>1 DEF InCS
<1>4. SpinHeld'
  BY <1>0, <1>2, <1>3 DEF SpinHeld, SpinOwner, Kept
<1>5. QED
  BY <1>0, <1>1, <1>2, <1>4 DEF SpinInv, SpinType

-----------------------------------------------------------------------------
(* The reader-writer lock of one word *)

RW == Rw!RW
WordLabels == {"begin", "old", "take", "read", "leave", "readers", "load", "store",
               "unlock", "done"}

WordType == /\ TSOType({RW, Counter}, BufferSize) /\ pc \in [Threads -> WordLabels]
            /\ mem[RW] \in [writer : BOOLEAN, readers : Nat]

\* The readers inside.
Readers == {t \in Threads : pc[t] \in {"read", "leave"}}

\* A writer that no reader can be beside: it is inside, or has left and its
\* release is still in its buffer.
Alone(t) == InCS(t) \/ Late(t, RW)

\* The writer whose bit is in the word.
Writer(t) == Alone(t) \/ pc[t] = "readers"

\* The word counts the readers and has the bit of the only writer.
WordHeld ==
  /\ \A t \in Threads :
       /\ Once(t, RW)
       /\ Late(t, RW) => /\ Read(t, RW) = Rw!Word(FALSE, 0)
                         /\ pc[t] \in {"begin", "old", "take", "done"}
       /\ Writer(t) => mem[RW].writer
       /\ Alone(t) => Readers = {}
  /\ \A s, t \in Threads : Writer(s) /\ Writer(t) => s = t
  /\ mem[RW].readers = Cardinality(Readers)

WordInv == WordType /\ WordHeld

\* The copies of the operators of TSO and TSOCountLoop in SpinRWLocks.
LEMMA RwOperators ==
  /\ Rw!Counter = Counter /\ Rw!RW # Counter
  /\ \A t : Rw!Drained(t) <=> Drained(t)
  /\ \A t, a : Rw!Read(t, a) = Read(t, a)
  /\ \A t, a, v : Rw!Write(t, a, v) <=> Write(t, a, v)
  /\ \A t, w : Rw!WriteAll(t, w) <=> WriteAll(t, w)
  /\ \A t, a, v : Rw!Update(t, a, v) <=> Update(t, a, v)
  /\ \A m : Rw!MemInit(m) <=> MemInit(m)
BY DEF Rw!Counter, Counter, Rw!RW, Rw!Read, Read, Rw!Pending, Pending,
       Rw!Write, Write, Rw!WriteAll, WriteAll, Rw!Stored, Stored,
       Rw!Update, Update, Rw!Drained, Drained, Rw!MemInit, MemInit

\* Nobody has the lock.
LEMMA WordInit == Rw!WordInit /\ LoopInit => WordInv
<1> SUFFICES ASSUME Rw!WordInit, LoopInit
             PROVE  WordInv
  OBVIOUS
<1> DEFINE m == [a \in {RW, Counter} |-> IF a = RW THEN Rw!Word(FALSE, 0) ELSE 0]
<1>1. MemInit(m) /\ m = [a \in {RW, Counter} |-> m[a]] /\ m[RW] = Rw!Word(FALSE, 0)
  BY RwOperators DEF Rw!WordInit, RW
<1> HIDE DEF m
<1>2. /\ TSOType({RW, Counter}, BufferSize) /\ mem = m
      /\ \A t \in Threads : ~ Late(t, RW) /\ Once(t, RW)
  BY <1>1, BufferAssumption, InitEffect
<1>3. pc = [t \in Threads |-> "begin"]
  BY DEF LoopInit
<1>4. Readers = {} /\ Cardinality(Readers) = 0
  BY <1>3, FS_EmptySet DEF Readers
<1>5. mem[RW] \in [writer : BOOLEAN, readers : Nat] /\ mem[RW].readers = 0
  <2>1. mem[RW] = [writer |-> FALSE, readers |-> 0]
    BY <1>1, <1>2 DEF Rw!Word
  <2>2. QED
    BY <2>1
<1>6. \A t \in Threads : ~ Writer(t) /\ ~ Alone(t)
  BY <1>2, <1>3 DEF Writer, Alone, InCS
<1>7. QED
  BY <1>2, <1>3, <1>4, <1>5, <1>6 DEF WordInv, WordType, WordHeld, WordLabels

\* A step that leaves the word alone and lets nobody in or out.
LEMMA WordFrame ==
  ASSUME WordInv, WordType', mem'[RW] = mem[RW],
         \A u \in Threads :
           /\ Kept(u, RW)
           /\ InCS(u)' => InCS(u)
           /\ pc'[u] = "readers" => pc[u] = "readers"
           /\ pc'[u] \in {"read", "leave"} <=> pc[u] \in {"read", "leave"}
           /\ Late(u, RW) /\ pc[u] \in {"begin", "old", "take", "done"}
                => pc'[u] \in {"begin", "old", "take", "done"}
  PROVE  WordInv'
<1>1. Readers' = Readers
  BY DEF Readers
<1>2. \A u \in Threads : (Writer(u)' => Writer(u)) /\ (Alone(u)' => Alone(u))
  BY DEF Writer, Alone, Kept
<1>3. QED
  BY <1>1, <1>2 DEF WordInv, WordHeld, Kept

\* Every step of the reader-writer lock of one word keeps its invariant.
LEMMA WordStep ==
  ASSUME WordInv, NEW t \in Threads, Rw!WordStep(t) \/ Rw!Count(t)
  PROVE  WordInv'
<1> WordType /\ WordHeld
  BY DEF WordInv
<1>0. RW \in {RW, Counter} /\ Counter \in {RW, Counter} /\ RW # Counter
  BY RwOperators DEF RW
<1> USE DEF WordType
\* A step that leaves the memory alone and neither enters nor leaves.
<1>1. ASSUME UNCHANGED memvars, NEW l \in WordLabels, pc' = [pc EXCEPT ![t] = l],
             l \in {"load", "store", "unlock"} => InCS(t),
             l = "readers" => pc[t] = "readers",
             l \in {"read", "leave"} <=> pc[t] \in {"read", "leave"},
             pc[t] \in {"begin", "old", "take", "done"}
               => l \in {"begin", "old", "take", "done"}
      PROVE  WordInv'
  <2>1. /\ TSOType({RW, Counter}, BufferSize)' /\ mem' = mem
        /\ \A u \in Threads : Kept(u, RW)
    BY <1>1, NoEffect
  <2>2. \A u \in Threads :
          /\ InCS(u)' => InCS(u)
          /\ pc'[u] = "readers" => pc[u] = "readers"
          /\ pc'[u] \in {"read", "leave"} <=> pc[u] \in {"read", "leave"}
          /\ Late(u, RW) /\ pc[u] \in {"begin", "old", "take", "done"}
               => pc'[u] \in {"begin", "old", "take", "done"}
    BY <1>1 DEF InCS
  <2>3. QED
    BY <1>1, <2>1, <2>2, WordFrame
\* A change of the word by a locked instruction.
<1>2. ASSUME NEW v, Rw!Update(t, Rw!RW, v)
      PROVE  /\ TSOType({RW, Counter}, BufferSize)' /\ mem'[RW] = v
             /\ ~ Late(t, RW) /\ \A u \in Threads : Kept(u, RW)
  BY <1>0, <1>2, RwOperators, UpdateEffect DEF RW
<1>3. IsFiniteSet(Readers)
  BY ThreadsAssumption, FS_Subset DEF Readers
<1>4. mem[RW].readers \in Nat /\ mem[RW].writer \in BOOLEAN
  OBVIOUS
<1> USE DEF Rw!Goto, WordLabels
<1>5. CASE Rw!AwaitWriter(t)
  BY <1>1, <1>5 DEF Rw!AwaitWriter, Rw!memvars, memvars
<1>6. CASE Rw!ReadOld(t)
  BY <1>1, <1>6 DEF Rw!ReadOld, Rw!memvars, memvars
\* The compare and swap fails.
<1>7. ASSUME pc[t] = "take", pc' = [pc EXCEPT ![t] = "begin"], UNCHANGED Rw!memvars
      PROVE  WordInv'
  BY <1>1, <1>7 DEF Rw!memvars, memvars
<1>8. CASE Rw!ReaderTake(t)
  <2>1. CASE mem[RW] = Rw!Word(FALSE, reg[t])
    <3>1. /\ Rw!Update(t, Rw!RW, Rw!Word(FALSE, reg[t] + 1))
          /\ pc[t] = "take" /\ pc' = [pc EXCEPT ![t] = "read"]
      BY <1>8, <2>1 DEF Rw!ReaderTake, Rw!CompareExchange, RW
    <3>2. mem'[RW] = Rw!Word(FALSE, reg[t] + 1)
      BY <1>2, <3>1
    <3>3. ~ mem[RW].writer /\ mem[RW].readers = reg[t]
      BY <2>1 DEF Rw!Word
    <3>4. mem'[RW] = [writer |-> FALSE, readers |-> mem[RW].readers + 1]
      BY <3>2, <3>3 DEF Rw!Word
    <3>5. Readers' = Readers \cup {t} /\ t \notin Readers
      BY <3>1 DEF Readers
    <3>6. Cardinality(Readers') = Cardinality(Readers) + 1
      BY <1>3, <3>5, FS_AddElement
    <3>7. \A u \in Threads : ~ Writer(u)
      BY <3>3 DEF WordHeld
    <3>8. \A u \in Threads : ~ Writer(u)' /\ ~ Alone(u)' /\ ~ Late(u, RW)'
      BY <1>2, <3>1, <3>7 DEF Writer, Alone, InCS, Kept
    <3>9. \A u \in Threads : Once(u, RW)'
      BY <1>2, <3>1 DEF WordHeld, Kept
    <3>10. mem'[RW].readers = Cardinality(Readers')
      BY <3>4, <3>6 DEF WordHeld
    <3>11. WordHeld'
      BY <3>8, <3>9, <3>10 DEF WordHeld
    <3>12. mem'[RW] \in [writer : BOOLEAN, readers : Nat]
      BY <1>4, <3>4
    <3>13. QED
      BY <1>2, <3>1, <3>11, <3>12 DEF WordInv
  <2>2. CASE mem[RW] # Rw!Word(FALSE, reg[t])
    BY <1>7, <1>8, <2>2 DEF Rw!ReaderTake, Rw!CompareExchange, RW
  <2>3. QED
    BY <2>1, <2>2
<1>9. CASE Rw!WriterTake(t)
  <2>1. CASE mem[RW] = Rw!Word(FALSE, reg[t])
    <3>1. /\ Rw!Update(t, Rw!RW, Rw!Word(TRUE, reg[t]))
          /\ pc[t] = "take" /\ pc' = [pc EXCEPT ![t] = "readers"]
      BY <1>9, <2>1 DEF Rw!WriterTake, Rw!CompareExchange, RW
    <3>2. mem'[RW] = Rw!Word(TRUE, reg[t])
      BY <1>2, <3>1
    <3>3. ~ mem[RW].writer /\ mem[RW].readers = reg[t]
      BY <2>1 DEF Rw!Word
    <3>4. mem'[RW] = [writer |-> TRUE, readers |-> mem[RW].readers]
      BY <3>2, <3>3 DEF Rw!Word
    <3>5. Readers' = Readers
      BY <3>1 DEF Readers
    <3>6. \A u \in Threads : ~ Writer(u)
      BY <3>3 DEF WordHeld
    <3>7. \A u \in Threads : ~ Alone(u)' /\ ~ Late(u, RW)' /\ (Writer(u)' => u = t)
      BY <1>2, <3>1, <3>6 DEF Writer, Alone, InCS, Kept
    <3>8. \A u \in Threads : Once(u, RW)'
      BY <1>2, <3>1 DEF WordHeld, Kept
    <3>9. WordHeld'
      <4>1. mem'[RW].writer /\ mem'[RW].readers = Cardinality(Readers')
        BY <3>4, <3>5 DEF WordHeld
      <4>2. QED
        BY <3>7, <3>8, <4>1 DEF WordHeld
    <3>10. mem'[RW] \in [writer : BOOLEAN, readers : Nat]
      BY <1>4, <3>4
    <3>11. QED
      BY <1>2, <3>1, <3>9, <3>10 DEF WordInv
  <2>2. CASE mem[RW] # Rw!Word(FALSE, reg[t])
    BY <1>7, <1>9, <2>2 DEF Rw!WriterTake, Rw!CompareExchange, RW
  <2>3. QED
    BY <2>1, <2>2
\* The last reader is out.
<1>10. CASE Rw!AwaitReaders(t)
  <2>1. /\ pc[t] = "readers" /\ Read(t, RW).readers = 0
        /\ pc' = [pc EXCEPT ![t] = "load"] /\ UNCHANGED memvars
    BY <1>10, RwOperators DEF Rw!AwaitReaders, Rw!memvars, memvars, RW
  <2>2. /\ TSOType({RW, Counter}, BufferSize)' /\ mem' = mem
        /\ \A u \in Threads : Kept(u, RW)
    BY <2>1, NoEffect
  <2>3. Writer(t) /\ ~ Late(t, RW)
    BY <2>1 DEF Writer, WordHeld
  <2>4. Cardinality(Readers) = 0
    BY <2>1, <2>3, ReadEffect DEF WordHeld
  <2>5. Readers = {}
    BY <1>3, <2>4, FS_EmptySet
  <2>6. Readers' = Readers
    BY <2>1 DEF Readers
  <2>7. \A u \in Threads : /\ Writer(u)' <=> Writer(u)
                           /\ Late(u, RW)' <=> Late(u, RW)
                           /\ Late(u, RW) => u # t
    BY <2>1, <2>2, <2>3 DEF Writer, Alone, InCS, Kept
  <2>8. WordHeld'
    BY <2>1, <2>2, <2>5, <2>6, <2>7 DEF WordHeld, Kept
  <2>9. QED
    BY <2>1, <2>2, <2>8 DEF WordInv
<1>11. CASE Rw!ReaderUnlock(t)
  <2>1. PICK l \in {"begin", "done"} : pc' = [pc EXCEPT ![t] = l]
    BY <1>11 DEF Rw!ReaderUnlock, Rw!EndIteration, Rw!After
  <2>2. /\ pc[t] = "leave"
        /\ Rw!Update(t, Rw!RW, [mem[RW] EXCEPT !.readers = @ - 1])
    BY <1>11 DEF Rw!ReaderUnlock, RW
  <2>3. mem'[RW] = [mem[RW] EXCEPT !.readers = @ - 1]
    BY <1>2, <2>2
  <2>4. Readers' = Readers \ {t} /\ t \in Readers
    BY <2>1, <2>2 DEF Readers
  <2>5. Cardinality(Readers') = Cardinality(Readers) - 1
    BY <1>3, <2>4, FS_RemoveElement
  <2>6. Cardinality(Readers) # 0
    BY <1>3, <2>4, FS_EmptySet
  <2>7. \A u \in Threads : ~ Alone(u)
    BY <2>4 DEF WordHeld
  <2>8. \A u \in Threads : /\ ~ Alone(u)' /\ ~ Late(u, RW)' /\ Once(u, RW)'
                           /\ Writer(u)' => Writer(u)
    BY <1>2, <2>1, <2>2, <2>7 DEF Writer, Alone, InCS, Kept, WordHeld
  <2>9. /\ mem'[RW].writer = mem[RW].writer
        /\ mem'[RW].readers = mem[RW].readers - 1
    BY <2>3
  <2>10. WordHeld'
    BY <2>5, <2>8, <2>9 DEF WordHeld
  <2>11. mem'[RW] \in [writer : BOOLEAN, readers : Nat]
    <3>1. mem[RW].readers - 1 \in Nat
      BY <1>4, <2>6 DEF WordHeld
    <3>2. QED
      BY <2>3, <3>1
  <2>12. QED
    BY <1>2, <2>1, <2>2, <2>10, <2>11 DEF WordInv
<1>12. CASE Rw!WriterUnlock(t)
  <2>1. PICK l \in {"begin", "done"} : pc' = [pc EXCEPT ![t] = l]
    BY <1>12 DEF Rw!WriterUnlock, Rw!EndIteration, Rw!After
  <2> DEFINE v == Rw!Word(FALSE, 0)
  <2>2. pc[t] = "unlock" /\ Write(t, RW, v)
    BY <1>12, RwOperators DEF Rw!WriterUnlock, RW
  <2>10. v = [writer |-> FALSE, readers |-> 0] /\ v.readers = 0
         /\ v \in [writer : BOOLEAN, readers : Nat]
    BY DEF Rw!Word
  <2> HIDE DEF v
  <2>3. ~ Late(t, RW) /\ Alone(t) /\ Writer(t) /\ Readers = {}
    BY <2>2 DEF WordHeld, InCS, Alone, Writer
  <2>4. /\ TSOType({RW, Counter}, BufferSize)'
        /\ \A u \in Threads : u # t => Kept(u, RW)
        /\ Read(t, RW)' = v /\ Once(t, RW)'
        /\ \/ Late(t, RW)' /\ mem'[RW] = mem[RW]
           \/ ~ Late(t, RW)' /\ mem'[RW] = v
    BY <1>0, <2>2, <2>3, WriteEffect
  <2>5. Readers' = {}
    BY <2>1, <2>3 DEF Readers
  <2>6. \A u \in Threads : u # t => ~ Writer(u)
    BY <2>3 DEF WordHeld
  <2>7. \A u \in Threads : /\ u # t => ~ Writer(u)' /\ ~ Alone(u)' /\ ~ Late(u, RW)'
                           /\ u # t => Once(u, RW)'
    BY <2>1, <2>4, <2>6 DEF Writer, Alone, InCS, Kept, WordHeld
  <2>8. Writer(t)' <=> Late(t, RW)'
    BY <2>1 DEF Writer, Alone, InCS
  <2>9. Cardinality(Readers') = 0 /\ mem[RW].readers = 0 /\ mem[RW].writer
    BY <2>3, <2>5, FS_EmptySet DEF WordHeld
  <2>11. mem'[RW].readers = 0
    BY <2>4, <2>9, <2>10
  <2>12. pc'[t] \in {"begin", "old", "take", "done"}
    BY <2>1
  <2>13. WordHeld'
    BY <2>4, <2>5, <2>7, <2>8, <2>9, <2>11, <2>12 DEF WordHeld, v
  <2>14. mem'[RW] \in [writer : BOOLEAN, readers : Nat]
    BY <2>4, <2>10
  <2>15. QED
    BY <2>1, <2>4, <2>13, <2>14 DEF WordInv
<1>13. CASE Rw!Count(t)
  <2>1. CASE Rw!Load(t)
    BY <1>1, <2>1 DEF Rw!Load, memvars, InCS
  <2>2. CASE Rw!Store(t)
    <3>1. /\ pc[t] = "store" /\ pc' = [pc EXCEPT ![t] = "unlock"]
          /\ Write(t, Counter, reg[t] + 1)
      BY <2>2, RwOperators DEF Rw!Store
    <3>2. /\ TSOType({RW, Counter}, BufferSize)' /\ mem'[RW] = mem[RW]
          /\ \A u \in Threads : Kept(u, RW)
      BY <1>0, <3>1, WriteEffect
    <3>3. \A u \in Threads : InCS(u)' => InCS(u)
      BY <3>1 DEF InCS
    <3>4. QED
      BY <3>1, <3>2, <3>3, WordFrame
  <2>3. CASE Rw!ReadCounter(t)
    BY <1>1, <2>3 DEF Rw!ReadCounter, Rw!memvars, memvars, InCS
  <2>4. QED
    BY <1>13, <2>1, <2>2, <2>3 DEF Rw!Count
<1>14. QED
  BY <1>5, <1>6, <1>8, <1>9, <1>10, <1>11, <1>12, <1>13 DEF Rw!WordStep

\* The release reaches memory.
LEMMA WordDrain ==
  ASSUME WordInv, NEW t \in Threads, Drain(t)
  PROVE  WordInv'
<1>0. WordType /\ WordHeld /\ RW \in {RW, Counter}
  BY DEF WordInv
<1>1. Flush(t) /\ pc' = pc
  BY DEF Drain, loopvars
<1>2. /\ TSOType({RW, Counter}, BufferSize)'
      /\ \A u \in Threads : u # t => Kept(u, RW)
      /\ Once(t, RW)' /\ Read(t, RW)' = Read(t, RW)
      /\ \/ mem'[RW] = mem[RW] /\ (Late(t, RW)' <=> Late(t, RW))
         \/ Late(t, RW) /\ ~ Late(t, RW)' /\ mem'[RW] = Rw!Word(FALSE, 0)
  BY <1>0, <1>1, FlushEffect DEF WordType, WordHeld
<1>3. \A u \in Threads : /\ Once(u, RW)'
                         /\ Late(u, RW)' => Late(u, RW) /\ Read(u, RW)' = Read(u, RW)
                         /\ Writer(u)' => Writer(u)
                         /\ Alone(u)' => Alone(u)
  BY <1>0, <1>1, <1>2 DEF Writer, Alone, InCS, Kept, WordHeld
<1>4. Readers' = Readers
  BY <1>1 DEF Readers
<1>5. CASE mem'[RW] = mem[RW] /\ (Late(t, RW)' <=> Late(t, RW))
  <2>1. mem'[RW].readers = Cardinality(Readers')
    BY <1>0, <1>4, <1>5 DEF WordHeld
  <2>2. WordHeld'
    BY <1>0, <1>1, <1>3, <1>4, <1>5, <2>1 DEF WordHeld
  <2>3. QED
    BY <1>0, <1>1, <1>2, <1>5, <2>2 DEF WordInv, WordType
<1>6. CASE Late(t, RW) /\ ~ Late(t, RW)' /\ mem'[RW] = Rw!Word(FALSE, 0)
  <2>1. mem'[RW] = [writer |-> FALSE, readers |-> 0]
    BY <1>6 DEF Rw!Word
  <2>2. Writer(t) /\ Readers = {} /\ pc[t] \in {"begin", "old", "take", "done"}
    BY <1>0, <1>6 DEF WordHeld, Writer, Alone
  <2>3. \A u \in Threads : u # t => ~ Writer(u)
    BY <1>0, <2>2 DEF WordHeld
  <2>4. ~ Writer(t)'
    BY <1>1, <1>6, <2>2 DEF Writer, Alone, InCS
  <2>5. \A u \in Threads : ~ Writer(u)' /\ ~ Alone(u)' /\ ~ Late(u, RW)'
    BY <1>3, <2>3, <2>4 DEF Writer, Alone
  <2>6. Cardinality(Readers') = 0
    BY <1>4, <2>2, FS_EmptySet
  <2>7. mem'[RW].readers = Cardinality(Readers')
    BY <2>1, <2>6
  <2>8. WordHeld'
    BY <1>3, <2>5, <2>7 DEF WordHeld
  <2>9. QED
    BY <1>0, <1>1, <1>2, <2>1, <2>8 DEF WordInv, WordType
<1>7. QED
  BY <1>2, <1>5, <1>6

-----------------------------------------------------------------------------
(* The reader-writer lock of three numbers *)

Number == Rw!Number
WriterTurn == Rw!WriterTurn
ReaderTurn == Rw!ReaderTurn
TurnWords == {Number, WriterTurn, ReaderTurn, Counter}

TurnLabels == {"begin", "wait", "turn", "pass", "read", "leave", "load", "store",
               "unlock", "both", "done"}

TurnType == /\ TSOType(TurnWords, BufferSize) /\ pc \in [Threads -> TurnLabels]
            /\ \A a \in TurnWords \ {Counter} : mem[a] \in Below(Wrap)
            /\ ticket \in [Threads -> Below(Wrap)]
            /\ turn = [t \in Threads |-> turn[t]]

\* The threads whose ticket counts, and the readers that have passed the turn
\* of the readers on.
Queued == {t \in Threads : pc[t] \notin {"begin", "done"} \/ Late(t, WriterTurn)}
Passed == {t \in Threads : pc[t] \in {"read", "leave"} /\ ~ Late(t, ReaderTurn)}

\* A reader that is in and has still to pass the turn on, as memory sees it.
AtTurn(t) == \/ pc[t] \in {"turn", "pass"}
             \/ pc[t] \in {"read", "leave"} /\ Late(t, ReaderTurn)

\* A writer that is in, as memory sees it.
TurnWriter(t) == pc[t] \in {"load", "store", "unlock", "both"} \/ Late(t, WriterTurn)

\* What a thread holds back, and the turn that it has read.
TurnOf(t) ==
  /\ Once(t, WriterTurn) /\ Once(t, ReaderTurn) /\ ~ Late(t, Number)
  /\ Late(t, WriterTurn) => /\ pc[t] \in {"begin", "done"}
                            /\ Pending(t, WriterTurn) = Pending(t, ReaderTurn)
                            /\ Read(t, WriterTurn) = Plus(Wrap, ticket[t], 1)
                            /\ Read(t, ReaderTurn) = Plus(Wrap, ticket[t], 1)
  /\ Late(t, ReaderTurn) => \/ Late(t, WriterTurn)
                            \/ /\ pc[t] \in {"read", "leave"}
                               /\ Read(t, ReaderTurn) = Plus(Wrap, ticket[t], 1)
  /\ pc[t] \in {"pass", "both"} => turn[t] = ticket[t]
  /\ AtTurn(t) => mem[ReaderTurn] = ticket[t]
  /\ TurnWriter(t) => mem[WriterTurn] = ticket[t]

TurnBooks ==
  Books(Wrap, mem[WriterTurn], mem[ReaderTurn], mem[Number], Passed, Queued, ticket)

TurnInv == TurnType /\ (\A t \in Threads : TurnOf(t)) /\ TurnBooks

\* An action of t that leaves alone what belongs to the other threads.
OthersKept(t) ==
  \A u \in Threads \ {t} :
    /\ pc'[u] = pc[u] /\ ticket'[u] = ticket[u] /\ turn'[u] = turn[u]
    /\ Kept(u, WriterTurn) /\ Kept(u, ReaderTurn) /\ Kept(u, Number)

\* The words of the reader-writer ticket lock are different words.
LEMMA TurnWordsDiffer ==
  /\ Number # WriterTurn /\ Number # ReaderTurn /\ WriterTurn # ReaderTurn
  /\ Counter \notin {Number, WriterTurn, ReaderTurn}
  /\ Number \in TurnWords /\ WriterTurn \in TurnWords /\ ReaderTurn \in TurnWords
  /\ Counter \in TurnWords
BY DEF Number, Rw!Number, WriterTurn, Rw!WriterTurn, ReaderTurn, Rw!ReaderTurn, Counter,
       TurnWords

\* Nobody has a ticket.
LEMMA TurnInit ==
  ASSUME Rw!TicketInit, LoopInit, ticket = [t \in Threads |-> 0],
         turn = [t \in Threads |-> 0]
  PROVE  TurnInv
<1> DEFINE m == [a \in TurnWords |-> 0]
<1>1. MemInit(m) /\ m = [a \in TurnWords |-> m[a]]
  BY RwOperators DEF Rw!TicketInit, TurnWords, Number, WriterTurn, ReaderTurn
<1>2. \A a \in TurnWords : m[a] = 0
  OBVIOUS
<1> HIDE DEF m
<1>3. /\ TSOType(TurnWords, BufferSize) /\ mem = m
      /\ \A t \in Threads : \A a : ~ Late(t, a) /\ Once(t, a)
  BY <1>1, BufferAssumption, InitEffect
<1>4. pc = [t \in Threads |-> "begin"]
  BY DEF LoopInit
<1>5. 0 \in Below(Wrap)
  BY WrapAssumption DEF Below
<1>6. TurnType
  BY <1>2, <1>3, <1>4, <1>5 DEF TurnType, TurnLabels
<1>7. \A t \in Threads : TurnOf(t)
  BY <1>3, <1>4 DEF TurnOf, AtTurn, TurnWriter
<1>8. Passed = {} /\ Queued = {} /\ Cardinality({}) = 0
  BY <1>3, <1>4, FS_EmptySet DEF Passed, Queued
<1>9. TurnBooks
  BY <1>2, <1>3, <1>5, <1>8, TurnWordsDiffer, WrapFacts, WrapArithmetic DEF TurnBooks, Books
<1>10. QED
  BY <1>6, <1>7, <1>9 DEF TurnInv

\* Who is in and has the turn of memory.
LEMMA TurnFacts ==
  ASSUME TurnInv
  PROVE  /\ mem[WriterTurn] \in Below(Wrap) /\ mem[ReaderTurn] \in Below(Wrap)
         /\ mem[Number] \in Below(Wrap)
         /\ \A u \in Threads : ticket[u] \in Below(Wrap)
         /\ \A u \in Threads : TurnWriter(u) \/ AtTurn(u) => u \in Queued \ Passed
         /\ Queued \subseteq Threads
         /\ \A s, t \in Queued \ Passed : ticket[s] = ticket[t] => s = t
<1>1. \A u \in Threads : TurnOf(u)
  BY DEF TurnInv
<1>2. \A u \in Threads : TurnWriter(u) \/ AtTurn(u) => u \in Queued \ Passed
  BY <1>1 DEF TurnOf, TurnWriter, AtTurn, Queued, Passed
<1>3. QED
  BY <1>2, TurnWordsDiffer DEF TurnInv, TurnType, TurnBooks, Books, Queued

\* The threads that do not act keep their place.
LEMMA TurnOthers ==
  ASSUME TurnInv, NEW t \in Threads, OthersKept(t),
         \A u \in Threads \ {t} :
           /\ AtTurn(u) => mem'[ReaderTurn] = mem[ReaderTurn]
           /\ TurnWriter(u) => mem'[WriterTurn] = mem[WriterTurn]
  PROVE  \A u \in Threads \ {t} : /\ TurnOf(u)'
                                  /\ u \in Queued' <=> u \in Queued
                                  /\ u \in Passed' <=> u \in Passed
<1> SUFFICES ASSUME NEW u \in Threads \ {t}
             PROVE  /\ TurnOf(u)'
                    /\ u \in Queued' <=> u \in Queued
                    /\ u \in Passed' <=> u \in Passed
  OBVIOUS
<1>1. TurnOf(u)
  BY DEF TurnInv
<1>2. /\ pc'[u] = pc[u] /\ ticket'[u] = ticket[u] /\ turn'[u] = turn[u]
      /\ Kept(u, WriterTurn) /\ Kept(u, ReaderTurn) /\ Kept(u, Number)
  BY DEF OthersKept
<1>3. (AtTurn(u)' <=> AtTurn(u)) /\ (TurnWriter(u)' <=> TurnWriter(u))
  BY <1>2 DEF AtTurn, TurnWriter, Kept
<1>4. TurnOf(u)'
  <2>1. \A a \in {WriterTurn, ReaderTurn} :
          /\ Late(u, a)' <=> Late(u, a)
          /\ Once(u, a)' <=> Once(u, a)
          /\ Pending(u, a)' = Pending(u, a)
          /\ Late(u, a) => Read(u, a)' = Read(u, a)
    BY <1>2 DEF Kept
  <2>2. /\ AtTurn(u)' => mem'[ReaderTurn] = ticket'[u]
        /\ TurnWriter(u)' => mem'[WriterTurn] = ticket'[u]
    BY <1>1, <1>2, <1>3 DEF TurnOf
  <2>3. /\ Once(u, WriterTurn)' /\ Once(u, ReaderTurn)' /\ ~ Late(u, Number)'
        /\ pc'[u] \in {"pass", "both"} => turn'[u] = ticket'[u]
    BY <1>1, <1>2, <2>1 DEF TurnOf, Kept
  <2>4. Late(u, WriterTurn)' =>
          /\ pc'[u] \in {"begin", "done"}
          /\ Pending(u, WriterTurn)' = Pending(u, ReaderTurn)'
          /\ Read(u, WriterTurn)' = Plus(Wrap, ticket'[u], 1)
          /\ Read(u, ReaderTurn)' = Plus(Wrap, ticket'[u], 1)
    BY <1>1, <1>2, <2>1 DEF TurnOf, Late
  <2>5. Late(u, ReaderTurn)' =>
          \/ Late(u, WriterTurn)'
          \/ pc'[u] \in {"read", "leave"} /\ Read(u, ReaderTurn)' = Plus(Wrap, ticket'[u], 1)
    BY <1>1, <1>2, <2>1 DEF TurnOf
  <2>6. QED
    BY <2>2, <2>3, <2>4, <2>5 DEF TurnOf
<1>5. QED
  BY <1>2, <1>4 DEF Queued, Passed, Kept

\* A step that changes neither the turns nor the books.
LEMMA TurnFrame ==
  ASSUME TurnInv, TurnType', NEW t \in Threads, OthersKept(t), TurnOf(t)',
         \A a \in TurnWords \ {Counter} : mem'[a] = mem[a], ticket' = ticket,
         t \in Queued' <=> t \in Queued, t \in Passed' <=> t \in Passed
  PROVE  TurnInv'
<1>1. /\ mem'[WriterTurn] = mem[WriterTurn] /\ mem'[ReaderTurn] = mem[ReaderTurn]
      /\ mem'[Number] = mem[Number]
  BY TurnWordsDiffer
<1>2. \A u \in Threads \ {t} : /\ TurnOf(u)'
                               /\ u \in Queued' <=> u \in Queued
                               /\ u \in Passed' <=> u \in Passed
  BY <1>1, TurnOthers
<1>3. Queued' = Queued /\ Passed' = Passed
  BY <1>2 DEF Queued, Passed
<1>4. TurnBooks'
  BY <1>1, <1>3 DEF TurnInv, TurnBooks
<1>5. QED
  BY <1>2, <1>4 DEF TurnInv

\* The turn of the readers reaches memory.
LEMMA TurnPassed ==
  ASSUME TurnInv, TurnType', NEW t \in Threads, OthersKept(t), AtTurn(t), TurnOf(t)',
         mem'[ReaderTurn] = Plus(Wrap, ticket[t], 1),
         mem'[WriterTurn] = mem[WriterTurn], mem'[Number] = mem[Number],
         ticket' = ticket, t \in Queued', t \in Passed'
  PROVE  TurnInv'
<1>1. t \in Queued \ Passed /\ ticket[t] = mem[ReaderTurn]
  BY TurnFacts DEF TurnInv, TurnOf
<1>2. \A u \in Threads \ {t} : ~ AtTurn(u)
  <2>1. \A u \in Threads : AtTurn(u) => ticket[u] = mem[ReaderTurn]
    BY DEF TurnInv, TurnOf
  <2>2. QED
    BY <1>1, <2>1, TurnFacts
<1>3. \A u \in Threads \ {t} : /\ TurnOf(u)'
                               /\ u \in Queued' <=> u \in Queued
                               /\ u \in Passed' <=> u \in Passed
  BY <1>2, TurnOthers
<1>4. Queued' = Queued /\ Passed' = Passed \cup {t}
  BY <1>1, <1>3 DEF Queued, Passed
<1>5. Books(Wrap, mem[WriterTurn], Plus(Wrap, mem[ReaderTurn], 1), mem[Number], Passed \cup {t},
            Queued, ticket)
  BY <1>1, TurnFacts, WrapFacts, BooksPass DEF TurnInv, TurnBooks
<1>6. TurnBooks'
  BY <1>1, <1>4, <1>5 DEF TurnBooks
<1>7. QED
  BY <1>3, <1>6 DEF TurnInv

\* The release of a writer reaches memory.
LEMMA TurnReleased ==
  ASSUME TurnInv, TurnType', NEW t \in Threads, OthersKept(t), TurnWriter(t), TurnOf(t)',
         mem'[WriterTurn] = Plus(Wrap, ticket[t], 1), mem'[ReaderTurn] = Plus(Wrap, ticket[t], 1),
         mem'[Number] = mem[Number], ticket' = ticket, t \notin Queued', t \notin Passed'
  PROVE  TurnInv'
<1>1. t \in Queued \ Passed /\ ticket[t] = mem[WriterTurn]
  BY TurnFacts DEF TurnInv, TurnOf
<1>2. /\ Passed = {} /\ mem[ReaderTurn] = mem[WriterTurn]
      /\ \A u \in Queued \ Passed : ticket[u] = mem[WriterTurn] => u = t
      /\ Books(Wrap, Plus(Wrap, mem[WriterTurn], 1), Plus(Wrap, mem[WriterTurn], 1), mem[Number], {},
               Queued \ {t}, ticket)
  <2>1. /\ mem[WriterTurn] \in Below(Wrap)
        /\ \A u \in Queued : ticket[u] \in Below(Wrap)
    BY TurnFacts
  <2>2. Books(Wrap, mem[WriterTurn], mem[ReaderTurn], mem[Number], Passed, Queued, ticket)
    BY DEF TurnInv, TurnBooks
  <2>3. QED
    BY <1>1, <2>1, <2>2, WrapFacts, BooksAlone, BooksRelease
<1>3. \A u \in Threads \ {t} : ~ AtTurn(u) /\ ~ TurnWriter(u)
  <2>1. \A u \in Threads : /\ AtTurn(u) => ticket[u] = mem[ReaderTurn]
                           /\ TurnWriter(u) => ticket[u] = mem[WriterTurn]
    BY DEF TurnInv, TurnOf
  <2>2. QED
    BY <1>2, <2>1, TurnFacts
<1>4. \A u \in Threads \ {t} : /\ TurnOf(u)'
                               /\ u \in Queued' <=> u \in Queued
                               /\ u \in Passed' <=> u \in Passed
  BY <1>3, TurnOthers
<1>5. Queued' = Queued \ {t} /\ Passed' = {}
  BY <1>2, <1>4 DEF Queued, Passed
<1>6. TurnBooks'
  BY <1>1, <1>2, <1>5 DEF TurnBooks
<1>7. QED
  BY <1>4, <1>6 DEF TurnInv

\* The 2^16 values of an incremented turn.
LEMMA IncIsPlus == \A x \in Below(Wrap) : Rw!Inc(x) = Plus(Wrap, x, 1) /\ Plus(Wrap, x, 1) \in Below(Wrap)
<1>1. 1 \in 0 .. Wrap
  BY WrapAssumption
<1>2. QED
  BY <1>1, WrapFacts, WrapArithmetic DEF Rw!Inc

\* Every step of the reader-writer ticket lock keeps its invariant.
LEMMA TurnStep ==
  ASSUME TurnInv, NEW t \in Threads, Rw!TicketStep(t) \/ Rw!Count(t)
  PROVE  TurnInv'
<1> TurnType /\ TurnOf(t)
  BY DEF TurnInv
\* A step of t that leaves the memory alone.
<1>1. ASSUME UNCHANGED memvars, NEW l \in TurnLabels, pc' = [pc EXCEPT ![t] = l],
             ticket' = ticket, turn' = [turn EXCEPT ![t] = turn'[t]]
      PROVE  /\ TurnType' /\ mem' = mem /\ OthersKept(t) /\ pc'[t] = l
             /\ Kept(t, WriterTurn) /\ Kept(t, ReaderTurn) /\ Kept(t, Number)
  <2>1. TSOType(TurnWords, BufferSize)' /\ mem' = mem /\ \A u, a : Kept(u, a)
    BY <1>1, NoEffect DEF TurnType
  <2>2. OthersKept(t)
    BY <1>1, <2>1 DEF OthersKept, TurnType
  <2>3. turn' = [u \in Threads |-> turn'[u]] /\ pc' \in [Threads -> TurnLabels]
    BY <1>1 DEF TurnType
  <2>4. QED
    BY <1>1, <2>1, <2>2, <2>3 DEF TurnType
<1> USE DEF Rw!Goto, TurnLabels
<1>3. CASE Rw!TicketWriterLock(t)
  <2>1. /\ pc[t] = "wait" /\ pc' = [pc EXCEPT ![t] = "load"] /\ UNCHANGED memvars
        /\ ticket' = ticket /\ turn' = turn /\ Read(t, WriterTurn) = ticket[t]
    BY <1>3, RwOperators DEF Rw!TicketWriterLock, Rw!memvars, memvars, WriterTurn
  <2>2. /\ TurnType' /\ mem' = mem /\ OthersKept(t) /\ pc'[t] = "load"
        /\ Kept(t, WriterTurn) /\ Kept(t, ReaderTurn) /\ Kept(t, Number)
    BY <1>1, <2>1 DEF TurnType
  <2>3. ~ Late(t, WriterTurn) /\ ~ Late(t, ReaderTurn) /\ mem[WriterTurn] = ticket[t]
    BY <2>1, ReadEffect DEF TurnOf
  <2>4. TurnOf(t)'
    BY <2>1, <2>2, <2>3 DEF TurnOf, AtTurn, TurnWriter, Kept
  <2>5. /\ t \in Queued' <=> t \in Queued
        /\ t \in Passed' <=> t \in Passed
    BY <2>1, <2>2 DEF Queued, Passed
  <2>6. QED
    BY <2>1, <2>2, <2>4, <2>5, TurnFrame
<1>4. CASE Rw!TicketReaderLock(t)
  <2>1. /\ pc[t] = "wait" /\ pc' = [pc EXCEPT ![t] = "turn"] /\ UNCHANGED memvars
        /\ ticket' = ticket /\ turn' = turn /\ Read(t, ReaderTurn) = ticket[t]
    BY <1>4, RwOperators DEF Rw!TicketReaderLock, Rw!memvars, memvars, ReaderTurn
  <2>2. /\ TurnType' /\ mem' = mem /\ OthersKept(t) /\ pc'[t] = "turn"
        /\ Kept(t, WriterTurn) /\ Kept(t, ReaderTurn) /\ Kept(t, Number)
    BY <1>1, <2>1 DEF TurnType
  <2>3. ~ Late(t, WriterTurn) /\ ~ Late(t, ReaderTurn) /\ mem[ReaderTurn] = ticket[t]
    BY <2>1, ReadEffect DEF TurnOf
  <2>4. TurnOf(t)'
    BY <2>1, <2>2, <2>3 DEF TurnOf, AtTurn, TurnWriter, Kept
  <2>5. /\ t \in Queued' <=> t \in Queued
        /\ t \in Passed' <=> t \in Passed
    BY <2>1, <2>2 DEF Queued, Passed
  <2>6. QED
    BY <2>1, <2>2, <2>4, <2>5, TurnFrame
\* The load of the turn, before it is passed on.
<1>5. CASE Rw!LoadTurn(t)
  <2>1. /\ pc[t] = "turn" /\ pc' = [pc EXCEPT ![t] = "pass"] /\ UNCHANGED memvars
        /\ ticket' = ticket /\ turn' = [turn EXCEPT ![t] = Read(t, ReaderTurn)]
    BY <1>5, RwOperators DEF Rw!LoadTurn, Rw!ReadTurn, Rw!memvars, memvars, ReaderTurn
  <2>2. turn'[t] = Read(t, ReaderTurn)
    BY <2>1 DEF TurnType
  <2>3. /\ TurnType' /\ mem' = mem /\ OthersKept(t) /\ pc'[t] = "pass"
        /\ Kept(t, WriterTurn) /\ Kept(t, ReaderTurn) /\ Kept(t, Number)
    BY <1>1, <2>1, <2>2
  <2>4. /\ ~ Late(t, WriterTurn) /\ ~ Late(t, ReaderTurn)
        /\ mem[ReaderTurn] = ticket[t] /\ turn'[t] = ticket[t]
    BY <2>1, <2>2, ReadEffect DEF TurnOf, AtTurn
  <2>5. TurnOf(t)'
    BY <2>1, <2>3, <2>4 DEF TurnOf, AtTurn, TurnWriter, Kept
  <2>6. /\ t \in Queued' <=> t \in Queued
        /\ t \in Passed' <=> t \in Passed
    BY <2>1, <2>3 DEF Queued, Passed
  <2>7. QED
    BY <2>1, <2>3, <2>5, <2>6, TurnFrame
<1>6. CASE Rw!LoadTurns(t)
  <2>1. /\ pc[t] = "unlock" /\ pc' = [pc EXCEPT ![t] = "both"] /\ UNCHANGED memvars
        /\ ticket' = ticket /\ turn' = [turn EXCEPT ![t] = Read(t, WriterTurn)]
    BY <1>6, RwOperators DEF Rw!LoadTurns, Rw!ReadTurn, Rw!memvars, memvars, WriterTurn
  <2>2. turn'[t] = Read(t, WriterTurn)
    BY <2>1 DEF TurnType
  <2>3. /\ TurnType' /\ mem' = mem /\ OthersKept(t) /\ pc'[t] = "both"
        /\ Kept(t, WriterTurn) /\ Kept(t, ReaderTurn) /\ Kept(t, Number)
    BY <1>1, <2>1, <2>2
  <2>4. /\ ~ Late(t, WriterTurn) /\ ~ Late(t, ReaderTurn)
        /\ mem[WriterTurn] = ticket[t] /\ turn'[t] = ticket[t]
    BY <2>1, <2>2, ReadEffect DEF TurnOf, TurnWriter
  <2>5. TurnOf(t)'
    BY <2>1, <2>3, <2>4 DEF TurnOf, AtTurn, TurnWriter, Kept
  <2>6. /\ t \in Queued' <=> t \in Queued
        /\ t \in Passed' <=> t \in Passed
    BY <2>1, <2>3 DEF Queued, Passed
  <2>7. QED
    BY <2>1, <2>3, <2>5, <2>6, TurnFrame
<1>7. CASE Rw!Count(t)
  <2>1. CASE Rw!Load(t)
    <3>1. /\ pc[t] = "load" /\ pc' = [pc EXCEPT ![t] = "store"] /\ UNCHANGED memvars
          /\ ticket' = ticket /\ turn' = turn
      BY <1>7, <2>1 DEF Rw!Count, Rw!Load, memvars
    <3>2. /\ TurnType' /\ mem' = mem /\ OthersKept(t) /\ pc'[t] = "store"
          /\ Kept(t, WriterTurn) /\ Kept(t, ReaderTurn) /\ Kept(t, Number)
      BY <1>1, <3>1 DEF TurnType
    <3>3. TurnOf(t)'
      BY <3>1, <3>2 DEF TurnOf, AtTurn, TurnWriter, Kept
    <3>4. /\ t \in Queued' <=> t \in Queued
          /\ t \in Passed' <=> t \in Passed
      BY <3>1, <3>2 DEF Queued, Passed
    <3>5. QED
      BY <3>1, <3>2, <3>3, <3>4, TurnFrame
  <2>2. CASE Rw!ReadCounter(t)
    <3>1. /\ pc[t] = "read" /\ pc' = [pc EXCEPT ![t] = "leave"] /\ UNCHANGED memvars
          /\ ticket' = ticket /\ turn' = turn
      BY <1>7, <2>2 DEF Rw!Count, Rw!ReadCounter, Rw!memvars, memvars
    <3>2. /\ TurnType' /\ mem' = mem /\ OthersKept(t) /\ pc'[t] = "leave"
          /\ Kept(t, WriterTurn) /\ Kept(t, ReaderTurn) /\ Kept(t, Number)
      BY <1>1, <3>1 DEF TurnType
    <3>3. TurnOf(t)'
      BY <3>1, <3>2 DEF TurnOf, AtTurn, TurnWriter, Kept
    <3>4. /\ t \in Queued' <=> t \in Queued
          /\ t \in Passed' <=> t \in Passed
      BY <3>1, <3>2 DEF Queued, Passed, Kept
    <3>5. QED
      BY <3>1, <3>2, <3>3, <3>4, TurnFrame
  <2>3. CASE Rw!Store(t)
    <3>1. /\ pc[t] = "store" /\ pc' = [pc EXCEPT ![t] = "unlock"]
          /\ ticket' = ticket /\ turn' = turn /\ Write(t, Counter, reg[t] + 1)
      BY <1>7, <2>3, RwOperators DEF Rw!Count, Rw!Store
    <3>2. /\ TSOType(TurnWords, BufferSize)'
          /\ \A a \in TurnWords \ {Counter} : mem'[a] = mem[a]
          /\ \A u \in Threads, a \in TurnWords \ {Counter} : Kept(u, a)
      BY <3>1, TurnWordsDiffer, WriteEffect DEF TurnType
    <3>3. TurnType' /\ OthersKept(t) /\ pc'[t] = "unlock"
      BY <3>1, <3>2, TurnWordsDiffer DEF TurnType, OthersKept
    <3>4. TurnOf(t)'
      BY <3>1, <3>2, <3>3, TurnWordsDiffer DEF TurnOf, AtTurn, TurnWriter, Kept
    <3>5. /\ t \in Queued' <=> t \in Queued
          /\ t \in Passed' <=> t \in Passed
      BY <3>1, <3>3 DEF Queued, Passed
    <3>6. QED
      BY <3>1, <3>2, <3>3, <3>4, <3>5, TurnFrame
  <2>4. QED
    BY <1>7, <2>1, <2>2, <2>3 DEF Rw!Count
<1>8. CASE Rw!TakeNumber(t)
  <2>1. /\ pc[t] = "begin" /\ pc' = [pc EXCEPT ![t] = "wait"] /\ turn' = turn
        /\ ticket' = [ticket EXCEPT ![t] = mem[Number]]
        /\ Update(t, Number, Plus(Wrap, mem[Number], 1))
    BY <1>8, RwOperators, IncIsPlus, TurnFacts DEF Rw!TakeNumber, Number
  <2>2. /\ TSOType(TurnWords, BufferSize)' /\ mem'[Number] = Plus(Wrap, mem[Number], 1)
        /\ \A b \in TurnWords : b # Number => mem'[b] = mem[b]
        /\ \A b : ~ Late(t, b)
        /\ \A u, b : Kept(u, b)
    BY <2>1, TurnWordsDiffer, UpdateEffect DEF TurnType
  <2>3. pc'[t] = "wait" /\ ticket'[t] = mem[Number] /\ OthersKept(t)
    BY <2>1, <2>2 DEF OthersKept, TurnType
  <2>4. TurnType'
    BY <2>1, <2>2, IncIsPlus, TurnFacts DEF TurnType
  <2>5. mem'[WriterTurn] = mem[WriterTurn] /\ mem'[ReaderTurn] = mem[ReaderTurn]
    BY <2>2, TurnWordsDiffer
  <2>6. \A u \in Threads \ {t} : /\ TurnOf(u)'
                                 /\ u \in Queued' <=> u \in Queued
                                 /\ u \in Passed' <=> u \in Passed
    BY <2>3, <2>5, TurnOthers
  <2>7. TurnOf(t)'
    BY <2>2, <2>3 DEF TurnOf, AtTurn, TurnWriter, Kept
  <2>8. t \notin Queued /\ t \in Queued' /\ t \notin Passed /\ t \notin Passed'
    BY <2>1, <2>2, <2>3 DEF Queued, Passed
  <2>9. Queued' = Queued \cup {t} /\ Passed' = Passed
    BY <2>6, <2>8 DEF Queued, Passed
  <2>10. Books(Wrap, mem[WriterTurn], mem[ReaderTurn], Plus(Wrap, mem[Number], 1), Passed,
               Queued \cup {t}, ticket')
    <3>1. \A u \in Threads \ {t} : ticket'[u] = ticket[u]
      BY <2>1 DEF TurnType
    <3>2. /\ mem[WriterTurn] \in Below(Wrap) /\ \A u \in Queued : ticket[u] \in Below(Wrap)
          /\ t \in Threads \ Queued
      BY <2>8, TurnFacts
    <3>3. TurnBooks
      BY DEF TurnInv
    <3>4. QED
      BY <2>3, <3>1, <3>2, <3>3, WrapFacts, BooksTake DEF TurnBooks
  <2>11. TurnBooks'
    BY <2>2, <2>5, <2>9, <2>10 DEF TurnBooks
  <2>12. QED
    BY <2>4, <2>6, <2>7, <2>11 DEF TurnInv
<1>9. CASE Rw!PassTurn(t)
  <2>1. /\ pc[t] = "pass" /\ pc' = [pc EXCEPT ![t] = "read"] /\ ticket' = ticket
        /\ turn' = [turn EXCEPT ![t] = 0]
        /\ Write(t, ReaderTurn, Rw!Inc(turn[t]))
    BY <1>9, RwOperators DEF Rw!PassTurn, Rw!Forget, ReaderTurn
  <2>2. /\ AtTurn(t) /\ ~ Late(t, WriterTurn) /\ ~ Late(t, ReaderTurn)
        /\ mem[ReaderTurn] = ticket[t] /\ Rw!Inc(turn[t]) = Plus(Wrap, ticket[t], 1)
        /\ Plus(Wrap, ticket[t], 1) \in Below(Wrap)
    BY <2>1, IncIsPlus, TurnFacts DEF TurnOf, AtTurn
  <2>3. Write(t, ReaderTurn, Plus(Wrap, ticket[t], 1))
    BY <2>1, <2>2
  <2>4. /\ TSOType(TurnWords, BufferSize)'
        /\ \A b \in TurnWords : b # ReaderTurn => mem'[b] = mem[b]
        /\ \A u \in Threads : \A b : u # t \/ b # ReaderTurn => Kept(u, b)
        /\ Read(t, ReaderTurn)' = Plus(Wrap, ticket[t], 1)
        /\ Once(t, ReaderTurn)'
        /\ \/ Late(t, ReaderTurn)' /\ mem'[ReaderTurn] = mem[ReaderTurn]
           \/ ~ Late(t, ReaderTurn)' /\ mem'[ReaderTurn] = Plus(Wrap, ticket[t], 1)
    BY <2>2, <2>3, TurnWordsDiffer, WriteEffect DEF TurnType
  <2>5. /\ pc'[t] = "read" /\ OthersKept(t) /\ Kept(t, WriterTurn) /\ Kept(t, Number)
        /\ mem'[WriterTurn] = mem[WriterTurn] /\ mem'[Number] = mem[Number]
    BY <2>1, <2>4, TurnWordsDiffer DEF OthersKept, TurnType
  <2>6. TurnType'
    <3>1. \A a \in TurnWords \ {Counter} : mem'[a] \in Below(Wrap)
      BY <2>2, <2>4 DEF TurnType
    <3>2. QED
      BY <2>1, <2>4, <3>1 DEF TurnType
  <2>7. ~ Late(t, WriterTurn)' /\ Once(t, WriterTurn)' /\ ~ Late(t, Number)'
    BY <2>2, <2>5 DEF Kept, TurnOf
  <2>8. TurnOf(t)'
    BY <2>1, <2>2, <2>4, <2>5, <2>7 DEF TurnOf, AtTurn, TurnWriter
  <2>9. t \in Queued /\ t \in Queued' /\ t \notin Passed
        /\ (t \in Passed' <=> ~ Late(t, ReaderTurn)')
    BY <2>1, <2>5 DEF Queued, Passed
  <2>10. CASE Late(t, ReaderTurn)'
    <3>1. \A a \in TurnWords \ {Counter} : mem'[a] = mem[a]
      BY <2>4, <2>10
    <3>2. QED
      BY <2>1, <2>5, <2>6, <2>8, <2>9, <2>10, <3>1, TurnFrame
  <2>11. CASE ~ Late(t, ReaderTurn)'
    BY <2>1, <2>2, <2>4, <2>5, <2>6, <2>8, <2>9, <2>11, TurnPassed
  <2>12. QED
    BY <2>10, <2>11
<1>10. CASE Rw!TicketReaderUnlock(t)
  <2>1. PICK l \in {"begin", "done"} : pc' = [pc EXCEPT ![t] = l]
    BY <1>10 DEF Rw!TicketReaderUnlock, Rw!EndIteration, Rw!After
  <2>2. /\ pc[t] = "leave" /\ ticket' = ticket /\ turn' = turn
        /\ Update(t, WriterTurn, Plus(Wrap, mem[WriterTurn], 1))
    BY <1>10, RwOperators, IncIsPlus, TurnFacts DEF Rw!TicketReaderUnlock, WriterTurn
  <2>3. /\ TSOType(TurnWords, BufferSize)' /\ mem'[WriterTurn] = Plus(Wrap, mem[WriterTurn], 1)
        /\ \A b \in TurnWords : b # WriterTurn => mem'[b] = mem[b]
        /\ \A b : ~ Late(t, b)
        /\ \A u, b : Kept(u, b)
    BY <2>2, TurnWordsDiffer, UpdateEffect DEF TurnType
  <2>4. /\ pc'[t] = l /\ OthersKept(t) /\ mem'[ReaderTurn] = mem[ReaderTurn]
        /\ mem'[Number] = mem[Number]
    BY <2>1, <2>2, <2>3, TurnWordsDiffer DEF OthersKept, TurnType
  <2>5. TurnType'
    BY <2>1, <2>2, <2>3, IncIsPlus, TurnFacts DEF TurnType
  <2>6. t \in Passed /\ t \in Queued /\ t \notin Passed' /\ t \notin Queued'
    BY <2>1, <2>2, <2>3, <2>4 DEF Passed, Queued, Kept
  <2>7. /\ Books(Wrap, Plus(Wrap, mem[WriterTurn], 1), mem[ReaderTurn], mem[Number], Passed \ {t},
                 Queued \ {t}, ticket)
        /\ \A u \in Queued \ Passed : ticket[u] # mem[WriterTurn]
    BY <2>6, TurnFacts, WrapFacts, BooksLeave DEF TurnInv, TurnBooks
  <2>8. \A u \in Threads : ~ TurnWriter(u)
    <3>1. \A u \in Threads : TurnWriter(u) => ticket[u] = mem[WriterTurn]
      BY DEF TurnInv, TurnOf
    <3>2. QED
      BY <2>7, <3>1, TurnFacts
  <2>9. \A u \in Threads \ {t} : /\ TurnOf(u)'
                                 /\ u \in Queued' <=> u \in Queued
                                 /\ u \in Passed' <=> u \in Passed
    BY <2>4, <2>8, TurnOthers
  <2>10. TurnOf(t)'
    BY <2>3, <2>4 DEF TurnOf, AtTurn, TurnWriter, Kept
  <2>11. Queued' = Queued \ {t} /\ Passed' = Passed \ {t}
    BY <2>6, <2>9 DEF Queued, Passed
  <2>12. TurnBooks'
    BY <2>2, <2>3, <2>4, <2>7, <2>11 DEF TurnBooks
  <2>13. QED
    BY <2>5, <2>9, <2>10, <2>12 DEF TurnInv
<1>11. CASE Rw!TicketWriterUnlock(t)
  <2>1. PICK l \in {"begin", "done"} : pc' = [pc EXCEPT ![t] = l]
    BY <1>11 DEF Rw!TicketWriterUnlock, Rw!EndIteration, Rw!After
  <2> DEFINE v == Plus(Wrap, ticket[t], 1)
             w == [a \in {WriterTurn, ReaderTurn} |->
                     Rw!Inc(IF a = WriterTurn THEN turn[t] ELSE Read(t, ReaderTurn))]
  <2>2. /\ pc[t] = "both" /\ ticket' = ticket /\ turn' = [turn EXCEPT ![t] = 0]
        /\ WriteAll(t, w)
    BY <1>11, RwOperators
    DEF Rw!TicketWriterUnlock, Rw!Forget, WriterTurn, ReaderTurn
  <2>3. /\ TurnWriter(t) /\ ~ Late(t, WriterTurn) /\ ~ Late(t, ReaderTurn)
        /\ mem[WriterTurn] = ticket[t] /\ turn[t] = ticket[t]
        /\ v \in Below(Wrap) /\ Rw!Inc(ticket[t]) = v
    BY <2>2, IncIsPlus, TurnFacts DEF TurnOf, TurnWriter
  <2>4. Read(t, ReaderTurn) = ticket[t]
    <3>1. t \in Queued \ Passed
      BY <2>3, TurnFacts
    <3>2. mem[ReaderTurn] = mem[WriterTurn]
      <4>1. /\ mem[WriterTurn] \in Below(Wrap)
            /\ \A u \in Queued : ticket[u] \in Below(Wrap)
        BY TurnFacts
      <4>2. Books(Wrap, mem[WriterTurn], mem[ReaderTurn], mem[Number], Passed, Queued, ticket)
        BY DEF TurnInv, TurnBooks
      <4>3. QED
        BY <2>3, <3>1, <4>1, <4>2, WrapFacts, BooksAlone
    <3>3. QED
      BY <2>3, <3>2, ReadEffect
  <2>5. DOMAIN w = {WriterTurn, ReaderTurn} /\ w[WriterTurn] = v /\ w[ReaderTurn] = v
    BY <2>3, <2>4, TurnWordsDiffer
  <2> HIDE DEF v, w
  <2>6. /\ TSOType(TurnWords, BufferSize)'
        /\ \A b \in TurnWords : b \notin {WriterTurn, ReaderTurn} => mem'[b] = mem[b]
        /\ \A u \in Threads : \A b : u # t => Kept(u, b)
        /\ Kept(t, Number)
        /\ \A b \in {WriterTurn, ReaderTurn} :
             /\ Read(t, b)' = v /\ Once(t, b)'
             /\ \/ Late(t, b)' /\ mem'[b] = mem[b]
                \/ ~ Late(t, b)' /\ mem'[b] = v
    BY <2>2, <2>3, <2>5, TurnWordsDiffer, WriteAllEffect DEF TurnType
  <2>7. Pending(t, WriterTurn)' = Pending(t, ReaderTurn)'
    <3>1. Pending(t, WriterTurn) = Pending(t, ReaderTurn)
      BY <2>3 DEF Late
    <3>2. QED
      BY <2>2, <2>5, <3>1, WriteAllTogether DEF TurnType
  <2>8. Late(t, WriterTurn)' <=> Late(t, ReaderTurn)'
    BY <2>7 DEF Late
  <2>9. pc'[t] = l /\ OthersKept(t) /\ mem'[Number] = mem[Number] /\ ticket'[t] = ticket[t]
    BY <2>1, <2>2, <2>6, TurnWordsDiffer DEF OthersKept, TurnType
  <2>10. TurnType'
    <3>1. \A a \in TurnWords \ {Counter} : mem'[a] \in Below(Wrap)
      BY <2>3, <2>6 DEF TurnType
    <3>2. QED
      BY <2>1, <2>2, <2>6, <3>1 DEF TurnType
  <2>11. TurnOf(t)'
    <3>1. /\ TurnWriter(t)' <=> Late(t, WriterTurn)'
          /\ ~ AtTurn(t)' /\ pc'[t] \notin {"pass", "both"}
      BY <2>9 DEF TurnWriter, AtTurn
    <3>2. Late(t, WriterTurn)' => mem'[WriterTurn] = ticket'[t]
      BY <2>3, <2>6, <2>9
    <3>3. /\ Read(t, WriterTurn)' = Plus(Wrap, ticket'[t], 1)
          /\ Read(t, ReaderTurn)' = Plus(Wrap, ticket'[t], 1)
          /\ ~ Late(t, Number)'
      BY <2>6, <2>9 DEF v, TurnOf, Kept
    <3>4. QED
      BY <2>6, <2>7, <2>8, <2>9, <3>1, <3>2, <3>3 DEF TurnOf
  <2>12. /\ t \in Queued /\ t \notin Passed /\ t \notin Passed'
         /\ t \in Queued' <=> Late(t, WriterTurn)'
    BY <2>2, <2>9 DEF Queued, Passed
  <2>13. CASE Late(t, WriterTurn)'
    <3>1. \A a \in TurnWords \ {Counter} : mem'[a] = mem[a]
      BY <2>6, <2>8, <2>13
    <3>2. QED
      BY <2>2, <2>9, <2>10, <2>11, <2>12, <2>13, <3>1, TurnFrame
  <2>14. CASE ~ Late(t, WriterTurn)'
    <3>1. mem'[WriterTurn] = Plus(Wrap, ticket[t], 1) /\ mem'[ReaderTurn] = Plus(Wrap, ticket[t], 1)
      BY <2>6, <2>8, <2>14 DEF v
    <3>2. QED
      BY <2>2, <2>3, <2>9, <2>10, <2>11, <2>12, <2>14, <3>1, TurnReleased
  <2>15. QED
    BY <2>13, <2>14
<1>12. QED
  BY <1>3, <1>4, <1>5, <1>6, <1>7, <1>8, <1>9, <1>10, <1>11 DEF Rw!TicketStep

\* What a thread holds back reaches memory.
LEMMA TurnDrain ==
  ASSUME TurnInv, NEW t \in Threads, Drain(t), ticket' = ticket, turn' = turn
  PROVE  TurnInv'
<1>0. TurnType /\ TurnOf(t)
  BY DEF TurnInv
<1>1. Flush(t) /\ pc' = pc
  BY DEF Drain, loopvars
<1>2. /\ TSOType(TurnWords, BufferSize)'
      /\ \A u \in Threads : \A a : u # t => Kept(u, a)
      /\ \A a \in TurnWords :
           /\ Once(t, a) => Once(t, a)'
           /\ Read(t, a)' = Read(t, a)
           /\ Late(t, a)' => Late(t, a)
           /\ \/ mem'[a] = mem[a] /\ (Late(t, a)' <=> Late(t, a))
              \/ /\ Late(t, a)
                 /\ Once(t, a) => ~ Late(t, a)' /\ mem'[a] = Read(t, a)
  BY <1>0, <1>1, FlushEffect DEF TurnType
<1>3. OthersKept(t)
  BY <1>1, <1>2 DEF OthersKept
<1>4. /\ Pending(t, WriterTurn) = Pending(t, ReaderTurn)
           => Pending(t, WriterTurn)' = Pending(t, ReaderTurn)'
      /\ Pending(t, WriterTurn) = {} => Pending(t, WriterTurn)' = {}
  <2>1. Pending(t, WriterTurn) = {} => Pending(t, WriterTurn)' = {}
    BY <1>0, <1>2, TurnWordsDiffer DEF Late
  <2>2. QED
    BY <1>0, <1>1, <2>1, FlushTogether DEF TurnType
<1>5. /\ Once(t, WriterTurn)' /\ Once(t, ReaderTurn)' /\ ~ Late(t, Number)'
      /\ mem'[Number] = mem[Number]
  BY <1>0, <1>2, TurnWordsDiffer DEF TurnOf
<1>6. \A a \in {WriterTurn, ReaderTurn} :
        \/ mem'[a] = mem[a] /\ (Late(t, a)' <=> Late(t, a))
        \/ /\ Late(t, a) /\ ~ Late(t, a)'
           /\ mem'[a] = Read(t, a) /\ Read(t, a) = Plus(Wrap, ticket[t], 1)
  BY <1>0, <1>2, TurnWordsDiffer DEF TurnOf
<1>7. TurnType'
  <2>1. Plus(Wrap, ticket[t], 1) \in Below(Wrap)
    BY IncIsPlus, TurnFacts
  <2>2. \A a \in TurnWords \ {Counter} : mem'[a] \in Below(Wrap)
    BY <1>0, <1>5, <1>6, <2>1 DEF TurnType, TurnWords
  <2>3. QED
    BY <1>0, <1>1, <1>2, <2>2 DEF TurnType
<1>8. /\ Read(t, WriterTurn)' = Read(t, WriterTurn)
      /\ Read(t, ReaderTurn)' = Read(t, ReaderTurn)
      /\ Late(t, WriterTurn)' => Late(t, WriterTurn)
      /\ Late(t, ReaderTurn)' => Late(t, ReaderTurn)
  BY <1>2, TurnWordsDiffer
\* Neither of the turns: the frame.
<1>9. CASE /\ Late(t, WriterTurn)' <=> Late(t, WriterTurn)
           /\ Late(t, ReaderTurn)' <=> Late(t, ReaderTurn)
  <2>1. mem'[WriterTurn] = mem[WriterTurn] /\ mem'[ReaderTurn] = mem[ReaderTurn]
    BY <1>6, <1>9
  <2>2. (AtTurn(t)' <=> AtTurn(t)) /\ (TurnWriter(t)' <=> TurnWriter(t))
    BY <1>1, <1>9 DEF AtTurn, TurnWriter
  <2>3. TurnOf(t)'
    BY <1>0, <1>1, <1>4, <1>5, <1>8, <1>9, <2>1, <2>2 DEF TurnOf
  <2>4. \A a \in TurnWords \ {Counter} : mem'[a] = mem[a]
    BY <1>5, <2>1 DEF TurnWords
  <2>5. /\ t \in Queued' <=> t \in Queued
        /\ t \in Passed' <=> t \in Passed
    BY <1>1, <1>9 DEF Queued, Passed
  <2>6. QED
    BY <1>3, <1>7, <2>3, <2>4, <2>5, TurnFrame
\* The release of a writer, both turns at once.
<1>10. CASE Late(t, WriterTurn)
  <2>1. /\ Pending(t, WriterTurn) = Pending(t, ReaderTurn)
        /\ Late(t, ReaderTurn) /\ (Late(t, ReaderTurn)' <=> Late(t, WriterTurn)')
        /\ pc[t] \in {"begin", "done"} /\ TurnWriter(t)
    BY <1>0, <1>4, <1>10 DEF TurnOf, Late, TurnWriter
  <2>2. CASE Late(t, WriterTurn)'
    BY <1>9, <1>10, <2>1, <2>2
  <2>3. CASE ~ Late(t, WriterTurn)'
    <3>1. mem'[WriterTurn] = Plus(Wrap, ticket[t], 1) /\ mem'[ReaderTurn] = Plus(Wrap, ticket[t], 1)
      BY <1>6, <1>10, <2>1, <2>3
    <3>2. TurnOf(t)'
      BY <1>1, <1>5, <2>1, <2>3 DEF TurnOf, AtTurn, TurnWriter
    <3>3. t \notin Queued' /\ t \notin Passed'
      BY <1>1, <2>1, <2>3 DEF Queued, Passed
    <3>4. QED
      BY <1>3, <1>5, <1>7, <2>1, <3>1, <3>2, <3>3, TurnReleased
  <2>4. QED
    BY <2>2, <2>3
\* The turn that a reader passes on.
<1>11. CASE ~ Late(t, WriterTurn) /\ Late(t, ReaderTurn) /\ ~ Late(t, ReaderTurn)'
  <2>1. /\ pc[t] \in {"read", "leave"} /\ AtTurn(t) /\ ~ Late(t, WriterTurn)'
        /\ mem'[WriterTurn] = mem[WriterTurn] /\ mem'[ReaderTurn] = Plus(Wrap, ticket[t], 1)
    BY <1>0, <1>6, <1>8, <1>11 DEF TurnOf, AtTurn
  <2>2. TurnOf(t)'
    BY <1>1, <1>5, <1>11, <2>1 DEF TurnOf, AtTurn, TurnWriter
  <2>3. t \in Queued' /\ t \in Passed'
    BY <1>1, <1>11, <2>1 DEF Queued, Passed
  <2>4. QED
    BY <1>3, <1>5, <1>7, <2>1, <2>2, <2>3, TurnPassed
<1>12. QED
  BY <1>8, <1>9, <1>10, <1>11

\* So does a step that changes nothing.
LEMMA TurnStutter ==
  ASSUME TurnInv, UNCHANGED <<pc, memvars, ticket, turn>>
  PROVE  TurnInv'
<1>1. mem' = mem /\ TSOType(TurnWords, BufferSize)' /\ \A u, a : Kept(u, a)
  BY NoEffect DEF TurnInv, TurnType
<1>2. \A u \in Threads : \A a : /\ Late(u, a)' <=> Late(u, a)
                                /\ Once(u, a)' <=> Once(u, a)
                                /\ Pending(u, a)' = Pending(u, a)
                                /\ Read(u, a)' = Read(u, a)
  BY <1>1 DEF Kept
<1>3. Queued' = Queued /\ Passed' = Passed
  BY <1>2 DEF Queued, Passed
<1>4. TurnType' /\ TurnBooks'
  BY <1>1, <1>3 DEF TurnInv, TurnType, TurnBooks
<1>5. ASSUME NEW u \in Threads
      PROVE  TurnOf(u)'
  <2>1. /\ TurnOf(u)
        /\ \A a : /\ Late(u, a)' <=> Late(u, a)
                  /\ Once(u, a)' <=> Once(u, a)
                  /\ Pending(u, a)' = Pending(u, a)
                  /\ Read(u, a)' = Read(u, a)
    BY <1>2 DEF TurnInv
  <2>2. (AtTurn(u)' <=> AtTurn(u)) /\ (TurnWriter(u)' <=> TurnWriter(u))
    BY <2>1 DEF AtTurn, TurnWriter
  <2>3. QED
    BY <1>1, <2>1, <2>2 DEF TurnOf
<1>6. QED
  BY <1>4, <1>5 DEF TurnInv

\* So does a step that changes nothing.
LEMMA WordStutter ==
  ASSUME WordInv, UNCHANGED <<pc, memvars>>
  PROVE  WordInv'
<1>1. mem' = mem /\ TSOType({RW, Counter}, BufferSize)' /\ \A u, a : Kept(u, a)
  BY NoEffect DEF WordInv, WordType
<1>2. WordType'
  BY <1>1 DEF WordInv, WordType
<1>3. QED
  BY <1>1, <1>2, WordFrame DEF InCS

-----------------------------------------------------------------------------
(* The ticket locks *)

TicketNumber == Slots!Number
TicketTurn == Slots!Turn
TicketWords == {TicketNumber, TicketTurn, Counter}
TicketLabels == {"begin", "wait", "pause", "load", "store", "unlock", "done"}

TicketType == /\ TSOType(TicketWords, BufferSize) /\ pc \in [Threads -> TicketLabels]
              /\ mem[TicketNumber] \in Below(Wrap) /\ mem[TicketTurn] \in Below(Wrap)
              /\ ticket \in [Threads -> Below(Wrap)]
              /\ prog.first \in {0, 1}

\* The threads with a ticket, and the next ticket.
Served == {t \in Threads : pc[t] \notin {"begin", "done"}}
NextTicket == Plus(Wrap, mem[TicketNumber], prog.first)

TicketBooks ==
  Books(Wrap, mem[TicketTurn], mem[TicketTurn], NextTicket, {}, Served, ticket)

\* Nobody holds a ticket or a turn back, and who is in has the turn.
TicketOf(t) == /\ ~ Late(t, TicketNumber) /\ ~ Late(t, TicketTurn)
               /\ InCS(t) => ticket[t] = mem[TicketTurn]

TicketInv == TicketType /\ (\A t \in Threads : TicketOf(t)) /\ TicketBooks

\* The copies of the operators of TSO and TSOCountLoop in SlotLocks.
LEMMA SlotsOperators ==
  /\ Slots!Counter = Counter
  /\ \A t, a : Slots!Read(t, a) = Read(t, a)
  /\ \A t, a, v : Slots!Write(t, a, v) <=> Write(t, a, v)
  /\ \A t, a, v : Slots!Update(t, a, v) <=> Update(t, a, v)
  /\ \A m : Slots!MemInit(m) <=> MemInit(m)
BY DEF Slots!Counter, Counter, Slots!Read, Read, Slots!Pending, Pending,
       Slots!Write, Write, Slots!WriteAll, WriteAll, Slots!Stored, Stored,
       Slots!Update, Update, Slots!Drained, Drained, Slots!MemInit, MemInit

\* The words of the ticket locks are different words.
LEMMA TicketWordsDiffer ==
  /\ TicketNumber # TicketTurn /\ TicketNumber # Counter /\ TicketTurn # Counter
  /\ TicketNumber \in TicketWords /\ TicketTurn \in TicketWords
  /\ Counter \in TicketWords
BY DEF TicketNumber, Slots!Number, TicketTurn, Slots!Turn, Counter, TicketWords

\* Nobody has a ticket.
LEMMA TicketInit ==
  ASSUME Slots!TicketInit, LoopInit, ticket = [t \in Threads |-> 0]
  PROVE  TicketInv
<1> DEFINE m == [a \in TicketWords |-> IF a = TicketTurn THEN prog.first ELSE 0]
<1>1. /\ MemInit(m) /\ m = [a \in TicketWords |-> m[a]]
      /\ m[TicketNumber] = 0 /\ m[TicketTurn] = prog.first
  BY SlotsOperators, TicketWordsDiffer
  DEF Slots!TicketInit, TicketWords, TicketNumber, TicketTurn
<1> HIDE DEF m
<1>2. /\ TSOType(TicketWords, BufferSize) /\ mem = m
      /\ \A t \in Threads : \A a : ~ Late(t, a)
  BY <1>1, BufferAssumption, InitEffect
<1>3. pc = [t \in Threads |-> "begin"]
  BY DEF LoopInit
<1>4. prog.first \in {0, 1}
  BY DEF Slots!TicketInit, Slots!GetAndAdd, Slots!GoGetAndAdd, Slots!Ticket,
         Slots!TicketYield, Slots!Tickets
<1>5. 0 \in Below(Wrap) /\ 1 \in Below(Wrap)
  BY WrapAssumption DEF Below
<1>6. TicketType
  BY <1>1, <1>2, <1>3, <1>4, <1>5 DEF TicketType, TicketLabels
<1>7. Served = {} /\ Cardinality({}) = 0
  BY <1>3, FS_EmptySet DEF Served
<1>8. mem[TicketTurn] = NextTicket /\ NextTicket = Plus(Wrap, NextTicket, 0)
  BY <1>1, <1>2, <1>4, <1>5, WrapAssumption DEF NextTicket, Plus, Below
<1>9. TicketBooks
  BY <1>7, <1>8 DEF TicketBooks, Books
<1>10. QED
  BY <1>2, <1>3, <1>6, <1>9 DEF TicketInv, TicketOf, InCS

\* A step that leaves the tickets alone and lets nobody in.
LEMMA TicketFrame ==
  ASSUME TicketInv, TicketType', ticket' = ticket, prog' = prog,
         mem'[TicketNumber] = mem[TicketNumber], mem'[TicketTurn] = mem[TicketTurn],
         \A u \in Threads :
           /\ Late(u, TicketNumber)' => Late(u, TicketNumber)
           /\ Late(u, TicketTurn)' => Late(u, TicketTurn)
           /\ InCS(u)' => InCS(u) \/ ticket[u] = mem[TicketTurn]
           /\ pc'[u] \in {"begin", "done"} <=> pc[u] \in {"begin", "done"}
  PROVE  TicketInv'
<1>1. Served' = Served /\ NextTicket' = NextTicket
  BY DEF Served, NextTicket
<1>2. TicketBooks'
  BY <1>1 DEF TicketInv, TicketBooks
<1>3. QED
  BY <1>2 DEF TicketInv, TicketOf

\* Every step of the ticket locks keeps their invariant.
LEMMA TicketStep ==
  ASSUME TicketInv, NEW t \in Threads, Slots!TicketStep(t) \/ Slots!Count(t)
  PROVE  TicketInv'
<1> TicketType /\ \A u \in Threads : TicketOf(u)
  BY DEF TicketInv
<1>1. ASSUME UNCHANGED memvars, NEW l \in TicketLabels, pc' = [pc EXCEPT ![t] = l],
             l \in {"load", "store", "unlock"} => InCS(t) \/ ticket[t] = mem[TicketTurn],
             pc[t] \notin {"begin", "done"}, l \notin {"begin", "done"},
             UNCHANGED <<ticket, prog>>
      PROVE  TicketInv'
  <2>1. TSOType(TicketWords, BufferSize)' /\ mem' = mem /\ \A u, a : Kept(u, a)
    BY <1>1, NoEffect DEF TicketType
  <2>2. TicketType'
    BY <1>1, <2>1 DEF TicketType
  <2>3. \A u \in Threads :
          /\ Late(u, TicketNumber)' => Late(u, TicketNumber)
          /\ Late(u, TicketTurn)' => Late(u, TicketTurn)
    BY <2>1 DEF Kept
  <2>4. \A u \in Threads :
          /\ InCS(u)' => InCS(u) \/ ticket[u] = mem[TicketTurn]
          /\ pc'[u] \in {"begin", "done"} <=> pc[u] \in {"begin", "done"}
    BY <1>1 DEF InCS, TicketType
  <2>5. QED
    BY <1>1, <2>1, <2>2, <2>3, <2>4, TicketFrame
<1> USE DEF Slots!Goto, TicketLabels
<1>2. CASE Slots!AwaitTurn(t)
  <2>1. Read(t, TicketTurn) = mem[TicketTurn]
    BY ReadEffect DEF TicketOf
  <2>2. PICK l \in {"load", "pause", "wait"} :
          /\ pc' = [pc EXCEPT ![t] = l]
          /\ l = "load" => mem[TicketTurn] = ticket[t]
    BY <1>2, <2>1, SlotsOperators DEF Slots!AwaitTurn, TicketTurn
  <2>3. pc[t] = "wait" /\ UNCHANGED memvars /\ UNCHANGED <<ticket, prog>>
    BY <1>2 DEF Slots!AwaitTurn, Slots!memvars, memvars
  <2>4. QED
    BY <1>1, <2>2, <2>3
<1>3. CASE Slots!Yield(t)
  BY <1>1, <1>3 DEF Slots!Yield, Slots!memvars, memvars
<1>4. CASE Slots!Count(t)
  <2>1. CASE Slots!Load(t)
    BY <1>1, <1>4, <2>1, SlotsOperators DEF Slots!Count, Slots!Load, memvars, InCS
  <2>2. CASE Slots!Store(t)
    <3>1. /\ pc[t] = "store" /\ pc' = [pc EXCEPT ![t] = "unlock"]
          /\ ticket' = ticket /\ prog' = prog /\ Write(t, Counter, reg[t] + 1)
      BY <1>4, <2>2, SlotsOperators DEF Slots!Count, Slots!Store
    <3>2. /\ TSOType(TicketWords, BufferSize)'
          /\ \A a \in TicketWords \ {Counter} : mem'[a] = mem[a]
          /\ \A u \in Threads, a \in TicketWords \ {Counter} : Kept(u, a)
      BY <3>1, TicketWordsDiffer, WriteEffect DEF TicketType
    <3>3. TicketType'
      BY <3>1, <3>2, TicketWordsDiffer DEF TicketType
    <3>4. \A u \in Threads : /\ InCS(u)' => InCS(u)
                             /\ pc'[u] \in {"begin", "done"} <=> pc[u] \in {"begin", "done"}
      BY <3>1 DEF InCS, TicketType
    <3>5. QED
      BY <3>1, <3>2, <3>3, <3>4, TicketWordsDiffer, TicketFrame DEF Kept
  <2>3. QED
    BY <1>4, <2>1, <2>2 DEF Slots!Count
<1>5. CASE Slots!TakeNumber(t)
  <2>1. /\ pc[t] = "begin" /\ pc' = [pc EXCEPT ![t] = "wait"] /\ prog' = prog
        /\ ticket' = [ticket EXCEPT ![t] = NextTicket]
        /\ Update(t, TicketNumber, Plus(Wrap, mem[TicketNumber], 1))
    <3>1. /\ (mem[TicketNumber] + prog.first) % Wrap = NextTicket
          /\ (mem[TicketNumber] + 1) % Wrap = Plus(Wrap, mem[TicketNumber], 1)
      <4>1. /\ (mem[TicketNumber] + 1) % Wrap = Plus(Wrap, mem[TicketNumber], 1)
            /\ mem[TicketNumber] % Wrap = mem[TicketNumber]
            /\ Plus(Wrap, mem[TicketNumber], 0) = mem[TicketNumber]
        BY WrapFacts, WrapArithmetic DEF TicketType
      <4>2. mem[TicketNumber] + 0 = mem[TicketNumber]
        BY DEF TicketType, Below
      <4>3. QED
        BY <4>1, <4>2 DEF NextTicket, TicketType
    <3>2. QED
      BY <1>5, <3>1, SlotsOperators DEF Slots!TakeNumber, Slots!Inc, TicketNumber
  <2>2. /\ TSOType(TicketWords, BufferSize)'
        /\ mem'[TicketNumber] = Plus(Wrap, mem[TicketNumber], 1)
        /\ mem'[TicketTurn] = mem[TicketTurn]
        /\ \A u, b : Kept(u, b)
    BY <2>1, TicketWordsDiffer, UpdateEffect DEF TicketType
  <2>3. t \notin Served /\ Served' = Served \cup {t}
    BY <2>1 DEF Served, TicketType
  <2>4. /\ NextTicket \in Below(Wrap)
        /\ Books(Wrap, mem[TicketTurn], mem[TicketTurn], Plus(Wrap, NextTicket, 1), {},
                 Served \cup {t}, ticket')
    <3>1. /\ ticket'[t] = NextTicket
          /\ \A u \in Threads \ {t} : ticket'[u] = ticket[u]
      BY <2>1 DEF TicketType
    <3>2. /\ mem[TicketTurn] \in Below(Wrap)
          /\ \A u \in Served : ticket[u] \in Below(Wrap)
          /\ t \in Threads \ Served
      BY <2>3 DEF TicketType, Served
    <3>3. Books(Wrap, mem[TicketTurn], mem[TicketTurn], NextTicket, {}, Served, ticket)
      BY DEF TicketInv, TicketBooks
    <3>4. QED
      BY SMTT(30), <3>1, <3>2, <3>3, WrapFacts, BooksTake
  <2>5. NextTicket' = Plus(Wrap, NextTicket, 1) /\ mem'[TicketNumber] \in Below(Wrap)
    <3>1. /\ NextTicket' = Plus(Wrap, Plus(Wrap, mem[TicketNumber], 1), prog.first)
          /\ prog.first \in {0, 1}
          /\ mem[TicketNumber] \in Int /\ 0 <= mem[TicketNumber]
          /\ mem[TicketNumber] < Wrap /\ Wrap \in Int
      BY <2>1, <2>2, WrapAssumption DEF NextTicket, TicketType, Below
    <3>2. Plus(Wrap, mem[TicketNumber], 1) \in Below(Wrap)
      BY <3>1 DEF Plus, Below
    <3>3. QED
      BY <2>2, <3>1, <3>2 DEF NextTicket, Plus, Below
  <2>6. TicketType'
    BY <2>1, <2>2, <2>4, <2>5 DEF TicketType
  <2>7. TicketBooks'
    BY <2>2, <2>3, <2>4, <2>5 DEF TicketBooks
  <2>8. \A u \in Threads : InCS(u)' => InCS(u) /\ u # t
    BY <2>1 DEF InCS, TicketType
  <2>9. \A u \in Threads : TicketOf(u)'
    BY <2>1, <2>2, <2>8 DEF TicketOf, Kept
  <2>10. QED
    BY <2>6, <2>7, <2>9 DEF TicketInv
<1>6. CASE Slots!PassTurn(t)
  <2>1. PICK l \in {"begin", "done"} : pc' = [pc EXCEPT ![t] = l]
    BY <1>6 DEF Slots!PassTurn, Slots!EndIteration, Slots!After
  <2>2. /\ pc[t] = "unlock" /\ ticket' = ticket /\ prog' = prog
        /\ Update(t, TicketTurn, Plus(Wrap, mem[TicketTurn], 1))
    BY <1>6, SlotsOperators, WrapFacts, WrapArithmetic
    DEF Slots!PassTurn, Slots!Inc, TicketTurn, TicketType
  <2>3. /\ TSOType(TicketWords, BufferSize)' /\ mem'[TicketTurn] = Plus(Wrap, mem[TicketTurn], 1)
        /\ mem'[TicketNumber] = mem[TicketNumber]
        /\ \A u, b : Kept(u, b)
    BY <2>2, TicketWordsDiffer, UpdateEffect DEF TicketType
  <2>4. /\ t \in Served \ {} /\ ticket[t] = mem[TicketTurn]
        /\ Served' = Served \ {t} /\ NextTicket' = NextTicket
    BY <2>1, <2>2, <2>3 DEF Served, TicketType, TicketOf, InCS, NextTicket
  <2>5. /\ Books(Wrap, Plus(Wrap, mem[TicketTurn], 1), Plus(Wrap, mem[TicketTurn], 1),
                 NextTicket, {}, Served \ {t}, ticket)
        /\ \A u \in Served : ticket[u] = mem[TicketTurn] => u = t
    <3>1. /\ mem[TicketTurn] \in Below(Wrap)
          /\ \A u \in Served : ticket[u] \in Below(Wrap)
      BY DEF TicketType, Served
    <3>2. Books(Wrap, mem[TicketTurn], mem[TicketTurn], NextTicket, {}, Served, ticket)
      BY DEF TicketInv, TicketBooks
    <3>3. QED
      BY <2>4, <3>1, <3>2, WrapFacts, BooksAlone, BooksRelease
  <2>6. Plus(Wrap, mem[TicketTurn], 1) \in Below(Wrap)
    <3>1. 1 \in 0 .. Wrap
      BY WrapAssumption
    <3>2. QED
      BY <3>1, WrapFacts, WrapArithmetic DEF TicketType
  <2>7. TicketType'
    BY <2>1, <2>2, <2>3, <2>6 DEF TicketType
  <2>8. TicketBooks'
    BY <2>2, <2>3, <2>4, <2>5 DEF TicketBooks
  <2>9. \A u \in Threads : ~ InCS(u)'
    BY <2>1, <2>4, <2>5 DEF InCS, TicketType, TicketOf, Served
  <2>10. \A u \in Threads : TicketOf(u)'
    BY <2>3, <2>9 DEF TicketOf, Kept
  <2>11. QED
    BY <2>7, <2>8, <2>10 DEF TicketInv
<1>7. QED
  BY <1>2, <1>3, <1>4, <1>5, <1>6 DEF Slots!TicketStep

\* Only the counter is ever in a store buffer.
LEMMA TicketDrain ==
  ASSUME TicketInv, NEW t \in Threads, Drain(t), UNCHANGED <<ticket, prog>>
  PROVE  TicketInv'
<1>1. Flush(t) /\ pc' = pc
  BY DEF Drain, loopvars
<1>2. /\ TSOType(TicketWords, BufferSize)'
      /\ \A u \in Threads : \A a : u # t => Kept(u, a)
      /\ \A a \in TicketWords : /\ Late(t, a)' => Late(t, a)
                                /\ mem'[a] = mem[a] \/ Late(t, a)
  BY <1>1, FlushEffect DEF TicketInv, TicketType
<1>3. /\ mem'[TicketNumber] = mem[TicketNumber] /\ mem'[TicketTurn] = mem[TicketTurn]
      /\ \A u \in Threads : /\ Late(u, TicketNumber)' => Late(u, TicketNumber)
                            /\ Late(u, TicketTurn)' => Late(u, TicketTurn)
  BY <1>2, TicketWordsDiffer DEF TicketInv, TicketOf, Kept
<1>4. TicketType'
  BY <1>1, <1>2, <1>3 DEF TicketInv, TicketType
<1>5. QED
  BY <1>1, <1>3, <1>4, TicketFrame DEF InCS

\* So does a step that changes nothing.
LEMMA TicketStutter ==
  ASSUME TicketInv, UNCHANGED <<pc, memvars, ticket, prog>>
  PROVE  TicketInv'
<1>1. mem' = mem /\ TSOType(TicketWords, BufferSize)' /\ \A u, a : Kept(u, a)
  BY NoEffect DEF TicketInv, TicketType
<1>2. TicketType'
  BY <1>1 DEF TicketInv, TicketType
<1>3. QED
  BY <1>1, <1>2, TicketFrame DEF InCS, Kept

-----------------------------------------------------------------------------
(* The array lock *)

ArrayTail == Slots!TailWord
N == Cardinality(Threads)

SlotFlag(k) == Slots!Flag(k * Padding)
ArrayWords == {ArrayTail, Counter} \cup {Slots!Flag(j) : j \in 0 .. N * Padding - 1}
ArrayLabels == {"begin", "wait", "clear", "load", "store", "unlock", "done"}

ArrayType == /\ TSOType(ArrayWords, BufferSize) /\ pc \in [Threads -> ArrayLabels]
             /\ mem[ArrayTail] \in Below(Wrap)
             /\ \A t \in Threads : ~ Late(t, ArrayTail)
             /\ ticket \in [Threads -> {k * Padding : k \in Below(N)}]

\* The slots of the threads that have one; that of the owner is h.
ArraySlots(h, slot) ==
  /\ \A t \in Threads : ticket[t] = slot[t] * Padding
  /\ Books(N, h, h, mem[ArrayTail] % N, {}, Served, slot)

\* t has found the flag of its slot set; or it has left and the store that sets
\* the flag of slot h is still in its buffer.
HasFlag(t) == pc[t] = "clear" \/ InCS(t)
PassesFlag(t, h) == t \notin Served /\ Late(t, SlotFlag(h))
ArrayOwner(t, h) == HasFlag(t) \/ PassesFlag(t, h)

\* What t holds back for the flag of slot k: the owner's 0, the 1 of the last owner,
\* or that one's older 0 on its own slot.
LateFlag(t, k, h) ==
  /\ Once(t, SlotFlag(k))
  /\ \/ k = h /\ InCS(t) /\ Read(t, SlotFlag(k)) = 0
     \/ k = h /\ t \notin Served /\ Read(t, SlotFlag(k)) = 1 /\ mem[SlotFlag(k)] = 0
     \/ /\ h = Plus(N, k, 1) /\ PassesFlag(t, h) /\ Read(t, SlotFlag(k)) = 0
        /\ Before(t, SlotFlag(k), SlotFlag(h))

\* A flag that memory says is set is that of slot h, or is about to be cleared.
SetFlag(k, h) ==
  \/ k = h /\ \A t \in Threads : InCS(t) => Late(t, SlotFlag(h))
  \/ h = Plus(N, k, 1) /\ \E t \in Threads : t \notin Served /\ Late(t, SlotFlag(k))

ArrayFlags(h, slot) ==
  /\ \A s, t \in Threads : ArrayOwner(s, h) /\ ArrayOwner(t, h) => s = t
  /\ \A t \in Threads : HasFlag(t) => slot[t] = h
  /\ \A t \in Threads : \A k \in Below(N) : Late(t, SlotFlag(k)) => LateFlag(t, k, h)
  /\ \A k \in Below(N) : mem[SlotFlag(k)] # 0 => SetFlag(k, h)

\* With one slot the flag that is cleared is the one that is set; nothing is to be
\* shown of a lock for one thread.
ArrayInv ==
  /\ ArrayType
  /\ N > 1 => \E h \in Below(N) : \E slot \in [Threads -> Below(N)] :
                ArraySlots(h, slot) /\ ArrayFlags(h, slot)

\* The remainder of a number that is written as quotient and remainder,
LEMMA Division ==
  ASSUME NEW d \in Nat \ {0}, NEW q \in Int, NEW r \in Below(d)
  PROVE  (q * d + r) % d = r
<1>1. r \in Int /\ 0 <= r /\ r < d /\ d \in Int /\ d > 0
  BY DEF Below
<1>2. (q * d + r) % d \in Int
  BY <1>1
<1>3. QED
  BY <1>1, <1>2

\* and every number has them.
LEMMA Quotient ==
  ASSUME NEW d \in Nat \ {0}, NEW x \in Nat
  PROVE  \E q \in Nat : \E r \in Below(d) : x = (q * d) + r
<1> DEFINE S == {k \in 1 .. x + 1 : (k - 1) * d <= x}
<1>1. 1 \in S
  OBVIOUS
<1>2. PICK k \in S : \A l \in S : l <= k
  <2>1. x + 1 \in Nat /\ S \subseteq 1 .. x + 1 /\ S # {}
    BY <1>1
  <2>2. QED
    BY <2>1, GreatestNatural
<1>3. k \in Int /\ 1 <= k /\ k <= x + 1 /\ (k - 1) * d <= x
  BY <1>2
<1>4. k * d > x
  <2>1. CASE k = x + 1
    <3>1. (x + 1) * d >= x + 1
      OBVIOUS
    <3>2. QED
      BY <2>1, <3>1
  <2>2. CASE k # x + 1
    <3>1. k + 1 \in 1 .. x + 1 /\ k + 1 \notin S
      BY <1>2, <1>3, <2>2
    <3>2. ~ ((k + 1) - 1) * d <= x
      BY <3>1
    <3>3. (k + 1) - 1 = k /\ k * d \in Int
      BY <1>3
    <3>4. QED
      BY <3>2, <3>3
  <2>3. QED
    BY <2>1, <2>2
<1>5. (k - 1) * d = k * d - d /\ k * d \in Int /\ d \in Int
  BY <1>3
<1>6. x - (k - 1) * d \in Below(d) /\ k - 1 \in Nat
  BY <1>3, <1>4, <1>5 DEF Below
<1>7. x = ((k - 1) * d) + (x - (k - 1) * d)
  BY <1>3, <1>5
<1>8. QED
  BY <1>6, <1>7

\* The number of slots in ArrayLock is that of the threads.
LEMMA NumThreads ==
  /\ N \in Nat /\ (Threads # {} => N \in Nat \ {0})
  /\ Slots!NumThreads = N /\ Slots!Size = N * Padding
<1>1. N \in Nat /\ (Threads # {} => N # 0)
  BY ThreadsAssumption, FS_CardinalityType, FS_EmptySet DEF N
<1>2. Slots!NumThreads = N
  BY DEF Slots!NumThreads, Slots!Cardinality, N, Cardinality
<1>3. QED
  BY <1>1, <1>2 DEF Slots!Size

\* The tail counts the slots round and round, also when it wraps itself.
LEMMA NextSlot ==
  ASSUME Threads # {}, NEW x \in Below(Wrap)
  PROVE  /\ x % N \in Below(N)
         /\ (x + 1) % Wrap \in Below(Wrap)
         /\ ((x + 1) % Wrap) % N = Plus(N, x % N, 1)
<1>1. /\ N \in Nat \ {0} /\ N \in Int /\ N > 0 /\ Wrap % N = 0
      /\ Wrap \in Nat \ {0} /\ x \in Nat /\ x < Wrap
  BY NumThreads, SlotAssumption, WrapAssumption DEF N, Below
<1>2. PICK q \in Nat : \E r \in Below(N) : x = (q * N) + r
  BY <1>1, Quotient
<1>3. PICK r \in Below(N) : x = (q * N) + r
  BY <1>2
<1>4. q \in Int /\ q + 1 \in Int /\ 0 \in Int /\ N \in Nat \ {0}
  BY <1>1
<1>5. x % N = r
  <2>1. ((q * N) + r) % N = r
    BY <1>4, Division
  <2>2. QED
    BY <1>3, <2>1
<1>6. r \in Int /\ 0 <= r /\ r < N
  BY <1>1 DEF Below
<1>7. (x + 1) % N = Plus(N, r, 1)
  <2>1. CASE r + 1 < N
    <3>1. r + 1 \in Below(N) /\ x + 1 = (q * N) + (r + 1)
      BY <1>1, <1>3, <1>6, <2>1 DEF Below
    <3>2. ((q * N) + (r + 1)) % N = r + 1
      BY <1>4, <3>1, Division
    <3>3. QED
      BY <2>1, <3>1, <3>2 DEF Plus
  <2>2. CASE ~ r + 1 < N
    <3>1. r + 1 = N
      BY <1>6, <1>1, <2>2
    <3>2. 0 \in Below(N) /\ x + 1 = ((q + 1) * N) + 0
      BY <1>1, <1>3, <1>6, <3>1 DEF Below
    <3>3. (((q + 1) * N) + 0) % N = 0
      BY <1>4, <3>2, Division
    <3>4. QED
      BY <1>1, <2>2, <3>1, <3>2, <3>3 DEF Plus
  <2>3. QED
    BY <2>1, <2>2
<1>8. ((x + 1) % Wrap) % N = (x + 1) % N
  <2>1. (x + 1) % Wrap = Plus(Wrap, x, 1)
    BY <1>1, WrapArithmetic
  <2>2. CASE x + 1 < Wrap
    BY <2>1, <2>2 DEF Plus
  <2>3. CASE x + 1 = Wrap
    <3>1. (x + 1) % Wrap = 0
      BY <1>1, <2>1, <2>3 DEF Plus
    <3>2. 0 \in Below(N) /\ 0 = (0 * N) + 0
      BY <1>1 DEF Below
    <3>3. 0 % N = 0
      BY <1>4, <3>2, Division
    <3>4. QED
      BY <1>1, <2>3, <3>1, <3>3
  <2>4. QED
    BY <1>1, <2>2, <2>3
<1>9. (x + 1) % Wrap \in Below(Wrap)
  BY <1>1 DEF Below
<1>10. QED
  BY <1>5, <1>7, <1>8, <1>9

\* Where the flag of a slot is.
LEMMA SlotIndex ==
  ASSUME Threads # {}, NEW k \in Below(N)
  PROVE  /\ k * Padding \in 0 .. N * Padding - 1
         /\ (k * Padding) % Wrap = k * Padding
         /\ ((k * Padding) + Padding) % (N * Padding) = Plus(N, k, 1) * Padding
         /\ \A l \in Below(N) : k * Padding = l * Padding => k = l
<1>1. /\ N \in Int /\ N > 0 /\ Padding \in Int /\ Padding > 0 /\ N * Padding <= Wrap
      /\ Wrap \in Int /\ Wrap > 0 /\ k \in Int /\ 0 <= k /\ k < N /\ N * Padding \in Int
  BY NumThreads, SlotAssumption, WrapAssumption DEF N, Below
<1>2. k * Padding \in Int /\ 0 <= k * Padding
  BY <1>1
<1>3. (k * Padding) + Padding <= N * Padding
  <2>1. (k + 1) * Padding <= N * Padding
    BY <1>1
  <2>2. QED
    BY <1>1, <2>1
<1>4. k * Padding < N * Padding
  BY <1>1, <1>2, <1>3
<1>5. (k * Padding) % Wrap = k * Padding
  BY <1>1, <1>2, <1>4
<1>6. ((k * Padding) + Padding) % (N * Padding) = Plus(N, k, 1) * Padding
  <2>1. N * Padding > 0
    BY <1>1, <1>2, <1>4
  <2>2. CASE k + 1 < N
    <3>1. /\ (k * Padding) + Padding = (k + 1) * Padding
          /\ (k + 1) * Padding < N * Padding
          /\ (k + 1) * Padding \in Int /\ 0 <= (k + 1) * Padding
      BY <1>1, <2>2
    <3>2. ((k + 1) * Padding) % (N * Padding) = (k + 1) * Padding
      BY <1>1, <2>1, <3>1
    <3>3. QED
      BY <2>2, <3>1, <3>2 DEF Plus
  <2>3. CASE k + 1 = N
    <3>1. (k * Padding) + Padding = (1 * (N * Padding)) + 0
      BY <1>1, <2>3
    <3>2. 0 \in Below(N * Padding) /\ N * Padding \in Nat \ {0}
      BY <1>1, <2>1 DEF Below
    <3>3. ((1 * (N * Padding)) + 0) % (N * Padding) = 0
      BY <3>2, Division
    <3>4. Plus(N, k, 1) = 0 /\ 0 * Padding = 0
      BY <1>1, <2>3 DEF Plus
    <3>5. QED
      BY <3>1, <3>3, <3>4
  <2>4. QED
    BY <1>1, <2>2, <2>3
<1>7. \A l \in Below(N) : k * Padding = l * Padding => k = l
  <2> SUFFICES ASSUME NEW l \in Below(N), k * Padding = l * Padding
               PROVE  k = l
    OBVIOUS
  <2>1. l \in Int
    BY <1>1 DEF Below
  <2>2. (k - l) * Padding = 0
    BY <1>1, <2>1
  <2>3. QED
    BY <1>1, <2>1, <2>2
<1>8. QED
  BY <1>1, <1>2, <1>4, <1>5, <1>6, <1>7

\* The words of the array lock are different words.
LEMMA ArrayWordsDiffer ==
  ASSUME Threads # {}
  PROVE  /\ ArrayTail # Counter /\ ArrayTail \in ArrayWords /\ Counter \in ArrayWords
         /\ \A k \in Below(N) : /\ SlotFlag(k) \in ArrayWords
                                /\ SlotFlag(k) # ArrayTail /\ SlotFlag(k) # Counter
         /\ \A k, l \in Below(N) : SlotFlag(k) = SlotFlag(l) => k = l
<1>1. /\ \A i, j : Slots!Flag(i) = Slots!Flag(j) => i = j
      /\ \A i : Slots!Flag(i) # ArrayTail /\ Slots!Flag(i) # Counter
      /\ ArrayTail # Counter
  BY DEF Slots!Flag, ArrayTail, Slots!TailWord, Counter
<1>2. \A k \in Below(N) : k * Padding \in 0 .. N * Padding - 1
  BY SlotIndex
<1>3. \A k, l \in Below(N) : k * Padding = l * Padding => k = l
  BY SlotIndex
<1>4. QED
  BY <1>1, <1>2, <1>3 DEF SlotFlag, ArrayWords

\* A queue that does not hold every thread does not reach round to the slot
\* behind its head.
LEMMA BooksBehind ==
  ASSUME NEW M \in Nat \ {0}, Cardinality(Threads) <= M, NEW w \in Below(M), NEW n, NEW Q,
         NEW k, Books(M, w, w, n, {}, Q, k), NEW t \in Q, k[t] \in Below(M),
         NEW u \in Threads, u \notin Q
  PROVE  Plus(M, k[t], 1) # w
<1>1. Q \cup {u} \subseteq Threads /\ Q \subseteq Threads
  BY DEF Books
<1>2. /\ Cardinality(Q) \in Nat /\ IsFiniteSet(Q)
      /\ Cardinality(Q \cup {u}) <= M
  BY <1>1, BooksSize
<1>3. Cardinality(Q \cup {u}) = Cardinality(Q) + 1
  BY <1>2, FS_AddElement
<1>4. Gap(M, w, k[t]) < Cardinality(Q)
  BY DEF Books
<1>5. QED
  BY <1>2, <1>3, <1>4 DEF Gap, Plus, Below

\* The flag of slot 0 is set, and nobody has a slot.
LEMMA ArrayInit ==
  ASSUME Slots!ArrayInit, LoopInit, ticket = [t \in Threads |-> 0]
  PROVE  ArrayInv
<1> DEFINE m == [a \in ArrayWords |-> IF a = Slots!Flag(0) THEN 1 ELSE 0]
<1>1. /\ MemInit(m) /\ m = [a \in ArrayWords |-> m[a]]
      /\ \A a \in ArrayWords : m[a] = IF a = Slots!Flag(0) THEN 1 ELSE 0
  BY SlotsOperators, NumThreads DEF Slots!ArrayInit, ArrayWords, ArrayTail
<1> HIDE DEF m
<1>2. /\ TSOType(ArrayWords, BufferSize) /\ mem = m
      /\ \A t \in Threads : \A a : ~ Late(t, a)
  BY <1>1, BufferAssumption, InitEffect
<1>3. pc = [t \in Threads |-> "begin"]
  BY DEF LoopInit
<1>4. mem[ArrayTail] = 0
  BY <1>1, <1>2 DEF ArrayWords, ArrayTail, Slots!TailWord, Slots!Flag
<1>5. 0 \in Below(Wrap)
  BY WrapAssumption DEF Below
<1>6. Threads # {} => 0 \in Below(N) /\ 0 * Padding = 0
  BY NumThreads, SlotAssumption DEF Below
<1>7. ArrayType
  BY <1>2, <1>3, <1>4, <1>5, <1>6 DEF ArrayType, ArrayLabels
<1>8. ASSUME N > 1
      PROVE  \E h \in Below(N) : \E slot \in [Threads -> Below(N)] :
               ArraySlots(h, slot) /\ ArrayFlags(h, slot)
  <2>1. Threads # {}
    BY <1>8, FS_EmptySet DEF N
  <2> DEFINE slot == [t \in Threads |-> 0]
  <2>2. 0 \in Below(N) /\ slot \in [Threads -> Below(N)] /\ N \in Nat \ {0}
    BY <1>6, <2>1, NumThreads
  <2>3. Served = {} /\ Cardinality({}) = 0 /\ \A t \in Threads : ~ HasFlag(t)
    BY <1>3, FS_EmptySet DEF Served, HasFlag, InCS
  <2>4. 0 % N = 0 /\ Plus(N, 0, 0) = 0
    BY <2>2, WrapArithmetic
  <2>5. ArraySlots(0, slot)
    BY <1>4, <1>6, <2>1, <2>3, <2>4 DEF ArraySlots, Books
  <2>6. SlotFlag(0) = Slots!Flag(0)
    BY <1>6, <2>1 DEF SlotFlag
  <2>7. \A k \in Below(N) : mem[SlotFlag(k)] # 0 => k = 0
    BY <1>1, <1>2, <2>1, <2>2, <2>6, ArrayWordsDiffer
  <2>8. ArrayFlags(0, slot)
    BY <1>2, <2>3, <2>7 DEF ArrayFlags, ArrayOwner, PassesFlag, SetFlag, HasFlag
  <2>9. QED
    BY <2>2, <2>5, <2>8
<1>9. QED
  BY <1>7, <1>8 DEF ArrayInv

\* While a thread has its flag, only its own 0 can be late, and no other flag is set.
LEMMA ArrayFacts ==
  ASSUME NEW h \in Below(N), NEW slot, ArrayFlags(h, slot), NEW t \in Threads, HasFlag(t)
  PROVE  /\ t \in Served /\ slot[t] = h
         /\ \A u \in Threads : ArrayOwner(u, h) => u = t
         /\ \A u \in Threads : \A k \in Below(N) :
              Late(u, SlotFlag(k)) => /\ u = t /\ k = h /\ InCS(t)
                                      /\ Read(t, SlotFlag(h)) = 0 /\ Once(t, SlotFlag(h))
         /\ \A k \in Below(N) :
              mem[SlotFlag(k)] # 0 => k = h /\ (InCS(t) => Late(t, SlotFlag(h)))
<1>1. \A u \in Threads : ArrayOwner(u, h) => u = t
  BY DEF ArrayFlags, ArrayOwner
<1>2. t \in Served /\ slot[t] = h
  BY DEF ArrayFlags, Served, HasFlag, InCS
<1>3. \A u \in Threads : ~ PassesFlag(u, h)
  BY <1>1, <1>2 DEF ArrayOwner, PassesFlag
<1>4. ASSUME NEW u \in Threads, NEW k \in Below(N), Late(u, SlotFlag(k))
      PROVE  /\ u = t /\ k = h /\ InCS(t)
             /\ Read(t, SlotFlag(h)) = 0 /\ Once(t, SlotFlag(h))
  <2>1. LateFlag(u, k, h)
    BY <1>4 DEF ArrayFlags
  <2>2. k = h /\ InCS(u) /\ Read(u, SlotFlag(k)) = 0 /\ Once(u, SlotFlag(k))
    BY <1>3, <1>4, <2>1 DEF LateFlag, PassesFlag
  <2>3. QED
    BY <1>1, <2>2 DEF ArrayOwner, HasFlag
<1>5. ASSUME NEW k \in Below(N), mem[SlotFlag(k)] # 0
      PROVE  k = h /\ (InCS(t) => Late(t, SlotFlag(h)))
  BY <1>2, <1>4, <1>5 DEF ArrayFlags, SetFlag
<1>6. QED
  BY <1>1, <1>2, <1>4, <1>5

\* A step that leaves the memory of the lock alone: somebody who is let in has the
\* slot of the head, and nobody was in.
LEMMA ArrayFrame ==
  ASSUME NEW h \in Below(N), NEW slot, ArraySlots(h, slot), ArrayFlags(h, slot),
         ticket' = ticket, mem'[ArrayTail] = mem[ArrayTail],
         \A k \in Below(N) : /\ mem'[SlotFlag(k)] = mem[SlotFlag(k)]
                             /\ \A u \in Threads : Kept(u, SlotFlag(k)),
         \A u \in Threads : (u \in Served' <=> u \in Served) /\ (InCS(u)' <=> InCS(u)),
         NEW t \in Threads,
         \A u \in Threads :
           HasFlag(u)' => \/ HasFlag(u)
                          \/ u = t /\ slot[t] = h /\ \A v \in Threads : ~ ArrayOwner(v, h)
  PROVE  ArraySlots(h, slot)' /\ ArrayFlags(h, slot)'
<1>1. ArraySlots(h, slot)'
  <2>1. Served' = Served
    BY DEF Served
  <2>2. QED
    BY <2>1 DEF ArraySlots
<1>2. \A u \in Threads : \A k \in Below(N) :
        /\ Late(u, SlotFlag(k))' <=> Late(u, SlotFlag(k))
        /\ Once(u, SlotFlag(k))' <=> Once(u, SlotFlag(k))
        /\ Read(u, SlotFlag(k))' = Read(u, SlotFlag(k))
        /\ PassesFlag(u, k)' <=> PassesFlag(u, k)
        /\ Before(u, SlotFlag(k), SlotFlag(h))' <=> Before(u, SlotFlag(k), SlotFlag(h))
  BY DEF Kept, PassesFlag, Before
<1>3. \A s, u \in Threads : ArrayOwner(s, h)' /\ ArrayOwner(u, h)' => s = u
  BY <1>2 DEF ArrayFlags, ArrayOwner
<1>4. \A u \in Threads : HasFlag(u)' => slot[u] = h
  BY DEF ArrayFlags
<1>5. ASSUME NEW u \in Threads, NEW k \in Below(N), Late(u, SlotFlag(k))'
      PROVE  LateFlag(u, k, h)'
  <2>1. LateFlag(u, k, h)
    BY <1>2, <1>5 DEF ArrayFlags
  <2>2. QED
    BY <1>2, <2>1 DEF LateFlag
<1>6. ASSUME NEW k \in Below(N), mem'[SlotFlag(k)] # 0
      PROVE  SetFlag(k, h)'
  <2>1. SetFlag(k, h)
    BY <1>6 DEF ArrayFlags
  <2>2. QED
    BY <1>2, <2>1 DEF SetFlag
<1>7. QED
  BY <1>1, <1>3, <1>4, <1>5, <1>6 DEF ArrayFlags

\* A thread takes a slot.
LEMMA ArrayTakeSlot ==
  ASSUME ArrayInv, NEW t \in Threads, Slots!TakeSlot(t)
  PROVE  ArrayInv'
<1>0. ArrayType /\ Threads # {} /\ N \in Nat \ {0} /\ Cardinality(Threads) <= N
  BY NumThreads DEF ArrayInv, N
<1>1. PICK c : c = mem[ArrayTail] % N
  OBVIOUS
<1>2. /\ c \in Below(N) /\ (mem[ArrayTail] + 1) % Wrap \in Below(Wrap)
      /\ ((mem[ArrayTail] + 1) % Wrap) % N = Plus(N, c, 1)
      /\ (c * Padding) % Wrap = c * Padding
  BY <1>0, <1>1, NextSlot, SlotIndex DEF ArrayType
<1>3. /\ pc[t] = "begin" /\ pc' = [pc EXCEPT ![t] = "wait"]
      /\ ticket' = [ticket EXCEPT ![t] = c * Padding]
      /\ Update(t, ArrayTail, (mem[ArrayTail] + 1) % Wrap)
  BY <1>1, <1>2, NumThreads, SlotsOperators
  DEF Slots!TakeSlot, Slots!Inc, Slots!Goto, ArrayTail
<1>4. /\ TSOType(ArrayWords, BufferSize)'
      /\ mem'[ArrayTail] = (mem[ArrayTail] + 1) % Wrap
      /\ \A a \in ArrayWords : a # ArrayTail => mem'[a] = mem[a]
      /\ \A a : ~ Late(t, a)
      /\ \A u, a : Kept(u, a)
  BY <1>0, <1>3, ArrayWordsDiffer, UpdateEffect DEF ArrayType
<1>5. ArrayType'
  BY <1>0, <1>2, <1>3, <1>4 DEF ArrayType, ArrayLabels, Kept
<1>6. ASSUME NEW h \in Below(N), NEW slot \in [Threads -> Below(N)],
             ArraySlots(h, slot), ArrayFlags(h, slot)
      PROVE  \E slot2 \in [Threads -> Below(N)] :
               ArraySlots(h, slot2)' /\ ArrayFlags(h, slot2)'
  <2> DEFINE slot2 == [slot EXCEPT ![t] = c]
  <2>1. /\ slot2 \in [Threads -> Below(N)] /\ slot2[t] = c
        /\ \A u \in Threads \ {t} : slot2[u] = slot[u]
    BY <1>2
  <2> HIDE DEF slot2
  <2>2. t \notin Served /\ Served' = Served \cup {t}
    BY <1>0, <1>3 DEF Served, ArrayType
  <2>3. \A u \in Threads : (InCS(u)' <=> InCS(u)) /\ (HasFlag(u)' <=> HasFlag(u))
    BY <1>0, <1>3 DEF InCS, HasFlag, ArrayType
  <2>4. Books(N, h, h, Plus(N, c, 1), {}, Served \cup {t}, slot2)
    <3>1. Books(N, h, h, c, {}, Served, slot)
      BY <1>1, <1>6 DEF ArraySlots
    <3>2. t \in Threads \ Served /\ \A u \in Served : slot[u] \in Below(N)
      BY <2>2 DEF Served
    <3>3. QED
      BY <1>0, <2>1, <3>1, <3>2, BooksTake
  <2>5. ArraySlots(h, slot2)'
    <3>1. \A u \in Threads : ticket'[u] = slot2[u] * Padding
      BY <1>0, <1>3, <1>6, <2>1 DEF ArraySlots, ArrayType
    <3>2. QED
      BY <1>2, <1>4, <2>2, <2>4, <3>1 DEF ArraySlots
  <2>6. \A k \in Below(N) : /\ mem'[SlotFlag(k)] = mem[SlotFlag(k)]
                            /\ ~ Late(t, SlotFlag(k))
                            /\ \A u \in Threads : Kept(u, SlotFlag(k))
    BY <1>0, <1>4, ArrayWordsDiffer
  <2>7. \A u \in Threads : \A k \in Below(N) :
          /\ Late(u, SlotFlag(k))' <=> Late(u, SlotFlag(k))
          /\ Once(u, SlotFlag(k))' <=> Once(u, SlotFlag(k))
          /\ Read(u, SlotFlag(k))' = Read(u, SlotFlag(k))
          /\ PassesFlag(u, k)' <=> PassesFlag(u, k)
          /\ Before(u, SlotFlag(k), SlotFlag(h))' <=> Before(u, SlotFlag(k), SlotFlag(h))
    BY <2>2, <2>6 DEF Kept, PassesFlag, Before
  <2>8. /\ \A s, u \in Threads : ArrayOwner(s, h)' /\ ArrayOwner(u, h)' => s = u
        /\ \A u \in Threads : HasFlag(u)' => slot2[u] = h
    <3>1. ~ HasFlag(t)
      BY <1>3 DEF HasFlag, InCS
    <3>2. QED
      BY <1>6, <2>1, <2>3, <2>7, <3>1 DEF ArrayFlags, ArrayOwner
  <2>9. ASSUME NEW u \in Threads, NEW k \in Below(N), Late(u, SlotFlag(k))'
        PROVE  LateFlag(u, k, h)'
    <3>1. LateFlag(u, k, h) /\ u # t
      BY <1>6, <2>6, <2>7, <2>9 DEF ArrayFlags
    <3>2. QED
      BY <2>2, <2>3, <2>6, <2>7, <3>1 DEF LateFlag
  <2>10. ASSUME NEW k \in Below(N), mem'[SlotFlag(k)] # 0
         PROVE  SetFlag(k, h)'
    <3>1. SetFlag(k, h)
      BY <1>6, <2>6, <2>10 DEF ArrayFlags
    <3>2. QED
      BY <2>2, <2>3, <2>6, <2>7, <3>1 DEF SetFlag
  <2>11. QED
    BY <2>1, <2>5, <2>8, <2>9, <2>10 DEF ArrayFlags
<1>7. QED
  BY <1>5, <1>6 DEF ArrayInv

\* A thread that sees its flag is at the head of the queue, and nobody is in.
LEMMA ArraySeesFlag ==
  ASSUME N > 1, NEW h \in Below(N), NEW slot \in [Threads -> Below(N)],
         ArraySlots(h, slot), ArrayFlags(h, slot), NEW t \in Threads, pc[t] = "wait"
  PROVE  Read(t, SlotFlag(slot[t])) # 0 =>
           slot[t] = h /\ \A v \in Threads : ~ ArrayOwner(v, h)
<1>0. /\ N \in Nat \ {0} /\ Cardinality(Threads) <= N /\ slot[t] \in Below(N)
      /\ t \in Served /\ ~ InCS(t) /\ ~ HasFlag(t)
      /\ Books(N, h, h, mem[ArrayTail] % N, {}, Served, slot)
  BY NumThreads DEF Served, InCS, HasFlag, ArraySlots, N
<1>1. ~ Late(t, SlotFlag(slot[t]))
  BY <1>0 DEF ArrayFlags, LateFlag, PassesFlag
<1>2. Read(t, SlotFlag(slot[t])) = mem[SlotFlag(slot[t])]
  BY <1>1, ReadEffect
<1>3. \A k \in Below(N) : Plus(N, k, 1) # k
  BY <1>0 DEF Plus, Below
<1>4. ASSUME mem[SlotFlag(slot[t])] # 0
      PROVE  slot[t] = h /\ \A v \in Threads : ~ ArrayOwner(v, h)
  <2>1. SetFlag(slot[t], h)
    BY <1>0, <1>4 DEF ArrayFlags
  <2>2. slot[t] = h
    BY <1>0, <2>1, BooksBehind DEF SetFlag
  <2>3. \A v \in Threads : ~ HasFlag(v)
    <3>1. \A v \in Threads : HasFlag(v) => slot[v] = h /\ v \in Served
      BY DEF ArrayFlags, HasFlag, InCS, Served
    <3>2. \A u, v \in Served : slot[u] = slot[v] => u = v
      BY <1>0 DEF Books
    <3>3. QED
      BY <1>0, <2>2, <3>1, <3>2
  <2>4. \A v \in Threads : ~ PassesFlag(v, h)
    <3>1. ASSUME NEW v \in Threads, PassesFlag(v, h)
          PROVE  FALSE
      <4>1. LateFlag(v, h, h)
        BY <3>1 DEF ArrayFlags, PassesFlag
      <4>2. QED
        BY <1>3, <1>4, <2>2, <2>3, <4>1 DEF LateFlag, HasFlag
    <3>2. QED
      BY <3>1
  <2>5. QED
    BY <2>2, <2>3, <2>4 DEF ArrayOwner
<1>5. QED
  BY <1>2, <1>4

\* The owner clears its flag.
LEMMA ArrayClearFlag ==
  ASSUME ArrayInv, NEW t \in Threads, Slots!ClearFlag(t)
  PROVE  ArrayInv'
<1>0. ArrayType /\ Threads # {}
  BY DEF ArrayInv
<1>1. /\ pc[t] = "clear" /\ pc' = [pc EXCEPT ![t] = "load"] /\ ticket' = ticket
      /\ Write(t, Slots!Flag(ticket[t]), 0)
  BY SlotsOperators DEF Slots!ClearFlag, Slots!Goto
<1>2. PICK k \in Below(N) : ticket[t] = k * Padding /\ SlotFlag(k) = Slots!Flag(ticket[t])
  BY <1>0 DEF ArrayType, SlotFlag
<1>3. /\ TSOType(ArrayWords, BufferSize)'
      /\ \A a \in ArrayWords : a # SlotFlag(k) => mem'[a] = mem[a]
      /\ \A u \in Threads : \A a : u # t \/ a # SlotFlag(k) => Kept(u, a)
      /\ Read(t, SlotFlag(k))' = 0
      /\ ~ Late(t, SlotFlag(k)) => Once(t, SlotFlag(k))'
      /\ Late(t, SlotFlag(k))' \/ mem'[SlotFlag(k)] = 0
  BY <1>0, <1>1, <1>2, ArrayWordsDiffer, WriteEffect DEF ArrayType
<1>4. mem'[ArrayTail] = mem[ArrayTail] /\ \A u \in Threads : ~ Late(u, ArrayTail)'
  BY <1>0, <1>3, ArrayWordsDiffer DEF ArrayType, Kept
<1>5. ArrayType'
  BY <1>0, <1>1, <1>3, <1>4 DEF ArrayType, ArrayLabels
<1>6. ASSUME NEW h \in Below(N), NEW slot \in [Threads -> Below(N)],
             ArraySlots(h, slot), ArrayFlags(h, slot)
      PROVE  ArraySlots(h, slot)' /\ ArrayFlags(h, slot)'
  <2>1. HasFlag(t) /\ ~ InCS(t)
    BY <1>1 DEF HasFlag, InCS
  <2>2. /\ slot[t] = h /\ t \in Served
        /\ \A u \in Threads : ArrayOwner(u, h) => u = t
        /\ \A u \in Threads : \A l \in Below(N) : ~ Late(u, SlotFlag(l))
        /\ \A l \in Below(N) : mem[SlotFlag(l)] # 0 => l = h
    BY <1>6, <2>1, ArrayFacts
  <2>3. k = h
    BY <1>0, <1>2, <1>6, <2>2, SlotIndex DEF ArraySlots
  <2>4. /\ Served' = Served
        /\ \A u \in Threads : /\ HasFlag(u)' <=> HasFlag(u)
                              /\ InCS(u)' <=> InCS(u) \/ u = t
    BY <1>0, <1>1 DEF Served, HasFlag, InCS, ArrayType
  <2>5. \A u \in Threads : \A l \in Below(N) :
          Late(u, SlotFlag(l))' => u = t /\ l = h /\ Once(t, SlotFlag(h))'
    BY <1>0, <1>3, <2>2, <2>3, ArrayWordsDiffer DEF Kept
  <2>6. ArraySlots(h, slot)'
    BY <1>1, <1>4, <1>6, <2>4 DEF ArraySlots
  <2>7. /\ \A s, u \in Threads : ArrayOwner(s, h)' /\ ArrayOwner(u, h)' => s = u
        /\ \A u \in Threads : HasFlag(u)' => slot[u] = h
    BY <1>6, <2>2, <2>4, <2>5 DEF ArrayOwner, PassesFlag
  <2>8. \A u \in Threads : \A l \in Below(N) : Late(u, SlotFlag(l))' => LateFlag(u, l, h)'
    BY <1>3, <2>3, <2>4, <2>5 DEF LateFlag
  <2>9. ASSUME NEW l \in Below(N), mem'[SlotFlag(l)] # 0
        PROVE  SetFlag(l, h)'
    <3>1. l = h /\ Late(t, SlotFlag(h))'
      BY <1>0, <1>3, <2>2, <2>3, <2>9, ArrayWordsDiffer
    <3>2. \A u \in Threads : InCS(u)' => u = t
      BY <2>2, <2>4 DEF ArrayOwner, HasFlag
    <3>3. QED
      BY <3>1, <3>2 DEF SetFlag
  <2>10. QED
    BY <2>6, <2>7, <2>8, <2>9 DEF ArrayFlags
<1>7. QED
  BY <1>5, <1>6 DEF ArrayInv

\* The owner sets the flag of the next slot and leaves.
LEMMA ArrayPassFlag ==
  ASSUME ArrayInv, NEW t \in Threads, Slots!PassFlag(t)
  PROVE  ArrayInv'
<1>0. ArrayType /\ Threads # {} /\ N \in Nat \ {0} /\ Cardinality(Threads) <= N
  BY NumThreads DEF ArrayInv, N
<1>1. PICK l \in {"begin", "done"} : pc' = [pc EXCEPT ![t] = l]
  BY DEF Slots!PassFlag, Slots!EndIteration, Slots!Goto, Slots!After
<1>2. PICK k \in Below(N) : ticket[t] = k * Padding
  BY <1>0 DEF ArrayType
<1>3. PICK n \in Below(N) : n = Plus(N, k, 1)
  BY <1>0 DEF Plus, Below
<1>4. ((k * Padding) + Padding) % (N * Padding) = n * Padding
  BY <1>0, <1>3, SlotIndex
<1>5. /\ pc[t] = "unlock" /\ ticket' = ticket
      /\ Write(t, SlotFlag(n), 1)
  BY <1>2, <1>4, NumThreads, SlotsOperators DEF Slots!PassFlag, SlotFlag
<1>6. /\ TSOType(ArrayWords, BufferSize)'
      /\ \A a \in ArrayWords : a # SlotFlag(n) => mem'[a] = mem[a]
      /\ \A u \in Threads : \A a : u # t \/ a # SlotFlag(n) => Kept(u, a)
      /\ Read(t, SlotFlag(n))' = 1
      /\ ~ Late(t, SlotFlag(n)) => Once(t, SlotFlag(n))'
      /\ Late(t, SlotFlag(n))' => mem'[SlotFlag(n)] = mem[SlotFlag(n)]
  BY <1>0, <1>5, ArrayWordsDiffer, WriteEffect DEF ArrayType
<1>7. mem'[ArrayTail] = mem[ArrayTail] /\ \A u \in Threads : ~ Late(u, ArrayTail)'
  BY <1>0, <1>6, ArrayWordsDiffer DEF ArrayType, Kept
<1>8. ArrayType'
  BY <1>0, <1>1, <1>5, <1>6, <1>7 DEF ArrayType, ArrayLabels
<1>9. ASSUME N > 1, NEW h \in Below(N), NEW slot \in [Threads -> Below(N)],
             ArraySlots(h, slot), ArrayFlags(h, slot)
      PROVE  ArraySlots(n, slot)' /\ ArrayFlags(n, slot)'
  <2>1. HasFlag(t) /\ InCS(t)
    BY <1>5 DEF HasFlag, InCS
  <2>2. /\ slot[t] = h /\ t \in Served
        /\ \A u \in Threads : ArrayOwner(u, h) => u = t
        /\ \A u \in Threads : \A j \in Below(N) :
             Late(u, SlotFlag(j)) => u = t /\ j = h /\ Read(t, SlotFlag(h)) = 0
                                     /\ Once(t, SlotFlag(h))
        /\ \A j \in Below(N) : mem[SlotFlag(j)] # 0 => j = h /\ Late(t, SlotFlag(h))
    BY <1>9, <2>1, ArrayFacts
  <2>3. k = h
    BY <1>0, <1>2, <1>9, <2>2, SlotIndex DEF ArraySlots
  <2>4. n # h /\ n = Plus(N, h, 1) /\ SlotFlag(n) # SlotFlag(h)
    <3>1. n # h
      BY <1>0, <1>3, <1>9, <2>3 DEF Plus, Below
    <3>2. QED
      BY <1>0, <1>3, <2>3, <3>1, ArrayWordsDiffer
  <2>5. /\ Served' = Served \ {t} /\ ~ InCS(t)' /\ ~ HasFlag(t)'
        /\ \A u \in Threads \ {t} : (HasFlag(u)' => HasFlag(u)) /\ (InCS(u)' => InCS(u))
    BY <1>0, <1>1, <1>5 DEF Served, HasFlag, InCS, ArrayType
  <2>6. \A u \in Threads : ~ HasFlag(u)' /\ ~ InCS(u)'
    BY <2>2, <2>5 DEF ArrayOwner, HasFlag
  <2>7. /\ ~ Late(t, SlotFlag(n)) /\ Once(t, SlotFlag(n))'
        /\ Before(t, SlotFlag(h), SlotFlag(n))'
        /\ Late(t, SlotFlag(h))' => Late(t, SlotFlag(n))'
    <3>1. ~ Late(t, SlotFlag(n))
      BY <2>2, <2>4
    <3>2. TSOType(ArrayWords, BufferSize)
      BY <1>0 DEF ArrayType
    <3>3. /\ Before(t, SlotFlag(h), SlotFlag(n))'
          /\ ~ Late(t, SlotFlag(n))' => \A c : ~ Late(t, c)'
      BY <1>5, <2>4, <3>1, <3>2, BeforeAfterWrite
    <3>4. QED
      BY <1>6, <3>1, <3>3
  <2>8. \A u \in Threads : \A j \in Below(N) : u # t \/ j # n => Kept(u, SlotFlag(j))
    BY <1>0, <1>6, ArrayWordsDiffer
  <2>9. \A u \in Threads : \A j \in Below(N) : Late(u, SlotFlag(j))' =>
          u = t /\ (j = n \/ (j = h /\ Read(t, SlotFlag(h))' = 0 /\ Once(t, SlotFlag(h))'))
    BY <2>2, <2>8 DEF Kept
  <2>10. ArraySlots(n, slot)'
    <3>1. Books(N, h, h, mem[ArrayTail] % N, {}, Served, slot)
      BY <1>9 DEF ArraySlots
    <3>2. t \in Served \ {} /\ slot[t] = h /\ \A u \in Served : slot[u] \in Below(N)
      BY <2>2 DEF Served
    <3>3. Books(N, Plus(N, h, 1), Plus(N, h, 1), mem[ArrayTail] % N, {}, Served \ {t}, slot)
      BY <1>0, <3>1, <3>2, BooksRelease
    <3>4. QED
      BY <1>5, <1>7, <1>9, <2>4, <2>5, <3>3 DEF ArraySlots
  <2>11. /\ \A s, u \in Threads : ArrayOwner(s, n)' /\ ArrayOwner(u, n)' => s = u
         /\ \A u \in Threads : HasFlag(u)' => slot[u] = n
    BY <2>6, <2>9 DEF ArrayOwner, PassesFlag
  <2>12. ASSUME NEW u \in Threads, NEW j \in Below(N), Late(u, SlotFlag(j))'
         PROVE  LateFlag(u, j, n)'
    <3>1. CASE u = t /\ j = n
      <4>1. mem'[SlotFlag(n)] = 0
        BY <1>6, <2>2, <2>4, <2>12, <3>1
      <4>2. QED
        BY <1>6, <2>5, <2>7, <3>1, <4>1 DEF LateFlag
    <3>2. CASE u = t /\ j = h
      <4>1. Late(t, SlotFlag(h))' /\ Read(t, SlotFlag(h))' = 0 /\ Once(t, SlotFlag(h))'
        BY <2>4, <2>9, <2>12, <3>2
      <4>2. PassesFlag(t, n)'
        BY <2>5, <2>7, <4>1 DEF PassesFlag
      <4>3. QED
        BY <2>4, <2>7, <3>2, <4>1, <4>2 DEF LateFlag
    <3>3. QED
      BY <2>9, <2>12, <3>1, <3>2
  <2>13. ASSUME NEW j \in Below(N), mem'[SlotFlag(j)] # 0
         PROVE  SetFlag(j, n)'
    <3>1. CASE j = n
      BY <2>6, <3>1 DEF SetFlag
    <3>2. CASE j # n
      <4>1. j = h /\ Late(t, SlotFlag(h))
        BY <1>0, <1>6, <2>2, <2>13, <3>2, ArrayWordsDiffer
      <4>2. Late(t, SlotFlag(h))' /\ t \notin Served'
        BY <2>4, <2>5, <2>8, <4>1 DEF Kept
      <4>3. QED
        BY <2>4, <4>1, <4>2 DEF SetFlag
    <3>3. QED
      BY <3>1, <3>2
  <2>14. QED
    BY <2>10, <2>11, <2>12, <2>13 DEF ArrayFlags
<1>10. QED
  BY <1>8, <1>9 DEF ArrayInv

\* Every step of the array lock keeps its invariant.
LEMMA ArrayStep ==
  ASSUME ArrayInv, NEW t \in Threads, Slots!ArrayStep(t) \/ Slots!Count(t)
  PROVE  ArrayInv'
<1>0. ArrayType /\ Threads # {}
  BY DEF ArrayInv
\* A step that leaves the memory of the lock alone.
<1>1. ASSUME NEW l \in ArrayLabels, pc' = [pc EXCEPT ![t] = l], ticket' = ticket,
             TSOType(ArrayWords, BufferSize)',
             \A a \in ArrayWords \ {Counter} :
               mem'[a] = mem[a] /\ \A u \in Threads : Kept(u, a),
             pc[t] \notin {"begin", "done"}, l \notin {"begin", "done"},
             l \in {"load", "store", "unlock"} <=> InCS(t),
             l = "clear" => pc[t] = "wait" /\ Read(t, Slots!Flag(ticket[t])) # 0
      PROVE  ArrayInv'
  <2>1. /\ mem'[ArrayTail] = mem[ArrayTail] /\ \A u \in Threads : ~ Late(u, ArrayTail)'
        /\ \A k \in Below(N) : /\ mem'[SlotFlag(k)] = mem[SlotFlag(k)]
                               /\ \A u \in Threads : Kept(u, SlotFlag(k))
    BY <1>0, <1>1, ArrayWordsDiffer DEF ArrayType, Kept
  <2>2. ArrayType'
    BY <1>0, <1>1, <2>1 DEF ArrayType
  <2>3. \A u \in Threads : (u \in Served' <=> u \in Served) /\ (InCS(u)' <=> InCS(u))
    BY <1>0, <1>1 DEF Served, InCS, ArrayType
  <2>4. \A u \in Threads : HasFlag(u)' => HasFlag(u) \/ (u = t /\ l = "clear")
    BY <1>0, <1>1, <2>3 DEF HasFlag, ArrayType
  <2>5. ASSUME N > 1, NEW h \in Below(N), NEW slot \in [Threads -> Below(N)],
               ArraySlots(h, slot), ArrayFlags(h, slot)
        PROVE  ArraySlots(h, slot)' /\ ArrayFlags(h, slot)'
    <3>1. l = "clear" => slot[t] = h /\ \A v \in Threads : ~ ArrayOwner(v, h)
      BY <1>1, <2>5, ArraySeesFlag DEF ArraySlots, SlotFlag
    <3>2. \A u \in Threads :
            HasFlag(u)' => \/ HasFlag(u)
                           \/ u = t /\ slot[t] = h /\ \A v \in Threads : ~ ArrayOwner(v, h)
      BY <2>4, <3>1
    <3>3. QED
      BY <1>1, <2>1, <2>3, <2>5, <3>2, ArrayFrame
  <2>6. QED
    BY <2>2, <2>5 DEF ArrayInv
<1> USE DEF Slots!Goto, ArrayLabels
<1>2. ASSUME UNCHANGED memvars
      PROVE  /\ TSOType(ArrayWords, BufferSize)'
             /\ \A a \in ArrayWords \ {Counter} :
                  mem'[a] = mem[a] /\ \A u \in Threads : Kept(u, a)
  BY <1>0, <1>2, NoEffect DEF ArrayType
<1>3. CASE Slots!AwaitFlag(t)
  <2>1. PICK l \in {"clear", "wait"} :
          /\ pc' = [pc EXCEPT ![t] = l]
          /\ l = "clear" => Read(t, Slots!Flag(ticket[t])) # 0
    BY <1>3, SlotsOperators DEF Slots!AwaitFlag
  <2>2. pc[t] = "wait" /\ UNCHANGED memvars /\ ticket' = ticket /\ ~ InCS(t)
    BY <1>3 DEF Slots!AwaitFlag, Slots!memvars, memvars, InCS
  <2>3. QED
    BY <1>1, <1>2, <2>1, <2>2
<1>4. CASE Slots!Count(t)
  <2>1. CASE Slots!Load(t)
    <3>1. /\ pc[t] = "load" /\ pc' = [pc EXCEPT ![t] = "store"] /\ InCS(t)
          /\ UNCHANGED memvars /\ ticket' = ticket
      BY <1>4, <2>1 DEF Slots!Count, Slots!Load, memvars, InCS
    <3>2. QED
      BY <1>1, <1>2, <3>1
  <2>2. CASE Slots!Store(t)
    <3>1. /\ pc[t] = "store" /\ pc' = [pc EXCEPT ![t] = "unlock"] /\ InCS(t)
          /\ ticket' = ticket /\ Write(t, Counter, reg[t] + 1)
      BY <1>4, <2>2, SlotsOperators DEF Slots!Count, Slots!Store, InCS
    <3>2. /\ TSOType(ArrayWords, BufferSize)'
          /\ \A a \in ArrayWords \ {Counter} :
               mem'[a] = mem[a] /\ \A u \in Threads : Kept(u, a)
      BY <1>0, <3>1, ArrayWordsDiffer, WriteEffect DEF ArrayType
    <3>3. QED
      BY <1>1, <3>1, <3>2
  <2>3. QED
    BY <1>4, <2>1, <2>2 DEF Slots!Count
<1>5. QED
  BY <1>3, <1>4, ArrayTakeSlot, ArrayClearFlag, ArrayPassFlag DEF Slots!ArrayStep

\* A store held back reaches memory: the owner's 0, the older 0 of the last owner,
\* or its 1 on the flag of the next one.
LEMMA ArrayDrain ==
  ASSUME ArrayInv, NEW t \in Threads, Drain(t), UNCHANGED ticket
  PROVE  ArrayInv'
<1>0. ArrayType /\ Threads # {} /\ TSOType(ArrayWords, BufferSize)
  BY DEF ArrayInv, ArrayType
<1>1. Flush(t) /\ pc' = pc
  BY DEF Drain, loopvars
<1>2. /\ TSOType(ArrayWords, BufferSize)'
      /\ \A u \in Threads : \A a : u # t => Kept(u, a)
      /\ \A a \in ArrayWords :
           /\ Once(t, a) => Once(t, a)'
           /\ Read(t, a)' = Read(t, a)
           /\ Late(t, a)' => Late(t, a)
           /\ \/ mem'[a] = mem[a] /\ (Late(t, a)' <=> Late(t, a))
              \/ /\ Late(t, a)
                 /\ Once(t, a) => ~ Late(t, a)' /\ mem'[a] = Read(t, a)
  BY <1>0, <1>1, FlushEffect
<1>3. mem'[ArrayTail] = mem[ArrayTail] /\ \A u \in Threads : ~ Late(u, ArrayTail)'
  BY <1>0, <1>2, ArrayWordsDiffer DEF ArrayType, Kept
<1>4. ArrayType'
  BY <1>0, <1>1, <1>2, <1>3 DEF ArrayType
<1>5. ASSUME N > 1, NEW h \in Below(N), NEW slot \in [Threads -> Below(N)],
             ArraySlots(h, slot), ArrayFlags(h, slot)
      PROVE  ArraySlots(h, slot)' /\ ArrayFlags(h, slot)'
  <2>0. /\ \A k \in Below(N) : SlotFlag(k) \in ArrayWords
        /\ \A k, l \in Below(N) : SlotFlag(k) = SlotFlag(l) => k = l
        /\ \A k \in Below(N) : Plus(N, k, 1) # k
    <3>1. \A k \in Below(N) : Plus(N, k, 1) # k
      BY <1>0, <1>5, NumThreads DEF Plus, Below
    <3>2. QED
      BY <1>0, <3>1, ArrayWordsDiffer
  <2>1. /\ Served' = Served
        /\ \A u \in Threads : (InCS(u)' <=> InCS(u)) /\ (HasFlag(u)' <=> HasFlag(u))
    BY <1>1 DEF Served, InCS, HasFlag
  <2>2. \A u \in Threads : \A k \in Below(N) :
          /\ Late(u, SlotFlag(k))' => Late(u, SlotFlag(k))
          /\ Once(u, SlotFlag(k)) => Once(u, SlotFlag(k))'
    BY <1>2, <2>0 DEF Kept
  <2>3. ArraySlots(h, slot)'
    BY <1>3, <1>5, <2>1 DEF ArraySlots
  <2>4. \A u \in Threads : ArrayOwner(u, h)' => ArrayOwner(u, h)
    BY <2>1, <2>2 DEF ArrayOwner, PassesFlag
  <2>5. /\ \A s, u \in Threads : ArrayOwner(s, h)' /\ ArrayOwner(u, h)' => s = u
        /\ \A u \in Threads : HasFlag(u)' => slot[u] = h
    BY <1>5, <2>1, <2>4 DEF ArrayFlags
  \* What t holds back for a flag of the owner is its own.
  <2>6. ASSUME Late(t, SlotFlag(h))
        PROVE  ArrayOwner(t, h)
    <3>1. LateFlag(t, h, h)
      BY <1>5, <2>6 DEF ArrayFlags
    <3>2. QED
      BY <2>0, <2>6, <3>1 DEF LateFlag, ArrayOwner, HasFlag, PassesFlag
  <2>7. ASSUME NEW u \in Threads, NEW k \in Below(N), Late(u, SlotFlag(k))'
        PROVE  LateFlag(u, k, h)'
    <3>1. LateFlag(u, k, h) /\ Late(u, SlotFlag(k)) /\ Once(u, SlotFlag(k))'
      BY <1>5, <2>2, <2>7 DEF ArrayFlags, LateFlag
    <3>2. Read(u, SlotFlag(k))' = Read(u, SlotFlag(k)) \/ u # t
      BY <1>2, <2>0
    <3>3. CASE k = h /\ InCS(u) /\ Read(u, SlotFlag(k)) = 0
      <4>1. u = t \/ mem'[SlotFlag(k)] = mem[SlotFlag(k)]
        BY <1>2, <1>5, <2>0, <2>6, <3>3 DEF ArrayFlags, ArrayOwner, HasFlag
      <4>2. Read(u, SlotFlag(k))' = Read(u, SlotFlag(k))
        BY <1>2, <2>0, <3>1, <4>1 DEF Kept
      <4>3. QED
        BY <2>1, <3>1, <3>3, <4>2 DEF LateFlag
    <3>4. CASE k = h /\ u \notin Served /\ Read(u, SlotFlag(k)) = 1 /\ mem[SlotFlag(k)] = 0
      <4>1. ArrayOwner(u, h)
        BY <3>1, <3>4 DEF ArrayOwner, PassesFlag
      <4>2. u = t \/ ~ Late(t, SlotFlag(h))
        BY <1>5, <2>6, <4>1 DEF ArrayFlags
      <4>3. mem'[SlotFlag(k)] = mem[SlotFlag(k)]
        BY <1>2, <2>0, <2>7, <3>1, <3>4, <4>2 DEF LateFlag
      <4>4. Read(u, SlotFlag(k))' = Read(u, SlotFlag(k))
        BY <1>2, <2>0, <3>1, <4>3 DEF Kept
      <4>5. QED
        BY <2>1, <3>1, <3>4, <4>3, <4>4 DEF LateFlag
    <3>5. CASE /\ h = Plus(N, k, 1) /\ PassesFlag(u, h) /\ Read(u, SlotFlag(k)) = 0
               /\ Before(u, SlotFlag(k), SlotFlag(h))
      <4>1. Read(u, SlotFlag(k))' = Read(u, SlotFlag(k))
        BY <1>2, <2>0, <3>1 DEF Kept
      <4>2. Before(u, SlotFlag(k), SlotFlag(h))' /\ Late(u, SlotFlag(h))'
        <5>1. CASE u = t
          <6>1. SlotFlag(k) \in ArrayWords /\ SlotFlag(h) \in ArrayWords
            BY <2>0
          <6>2. /\ Before(t, SlotFlag(k), SlotFlag(h))'
                /\ Late(t, SlotFlag(h))' <=> Late(t, SlotFlag(h))
            BY <1>0, <1>1, <2>7, <3>5, <5>1, <6>1, BeforeAfterFlush
          <6>3. QED
            BY <3>5, <5>1, <6>2 DEF PassesFlag
        <5>2. CASE u # t
          BY <1>2, <3>5, <5>2 DEF Kept, Before, PassesFlag
        <5>3. QED
          BY <5>1, <5>2
      <4>3. QED
        BY <2>1, <3>1, <3>5, <4>1, <4>2 DEF LateFlag, PassesFlag
    <3>6. QED
      BY <3>1, <3>3, <3>4, <3>5 DEF LateFlag
  <2>8. ASSUME NEW k \in Below(N), mem'[SlotFlag(k)] # 0
        PROVE  SetFlag(k, h)'
    <3>1. CASE Late(t, SlotFlag(k)) /\ ~ Late(t, SlotFlag(k))'
      <4>1. LateFlag(t, k, h)
        BY <1>5, <3>1 DEF ArrayFlags
      <4>2. mem'[SlotFlag(k)] = Read(t, SlotFlag(k))
        BY <1>2, <2>0, <3>1, <4>1 DEF LateFlag
      <4>3. k = h /\ t \notin Served
        BY <2>8, <4>1, <4>2 DEF LateFlag
      <4>4. \A u \in Threads : ~ InCS(u)
        <5>1. \A u \in Threads : InCS(u) => u = t
          BY <1>5, <2>6, <3>1, <4>3 DEF ArrayFlags, ArrayOwner, HasFlag
        <5>2. QED
          BY <4>3, <5>1 DEF InCS, Served
      <4>5. QED
        BY <2>1, <4>3, <4>4 DEF SetFlag
    <3>2. CASE Late(t, SlotFlag(k)) => Late(t, SlotFlag(k))'
      <4>1. Late(t, SlotFlag(k)) => LateFlag(t, k, h)
        BY <1>5 DEF ArrayFlags
      <4>2. mem'[SlotFlag(k)] = mem[SlotFlag(k)]
        BY <1>2, <2>0, <3>2, <4>1 DEF LateFlag
      <4>3. SetFlag(k, h)
        BY <1>5, <2>8, <4>2 DEF ArrayFlags
      <4>4. \A u \in Threads : Late(u, SlotFlag(k)) => Late(u, SlotFlag(k))'
        BY <1>2, <3>2 DEF Kept
      <4>5. QED
        BY <2>1, <4>3, <4>4 DEF SetFlag
    <3>3. QED
      BY <3>1, <3>2
  <2>9. QED
    BY <2>3, <2>5, <2>7, <2>8 DEF ArrayFlags
<1>6. QED
  BY <1>4, <1>5 DEF ArrayInv

\* A step that changes nothing keeps the invariant.
LEMMA ArrayStutter ==
  ASSUME ArrayInv, UNCHANGED <<pc, memvars, ticket>>
  PROVE  ArrayInv'
<1>1. TSOType(ArrayWords, BufferSize)' /\ mem' = mem /\ \A u, a : Kept(u, a)
  BY NoEffect DEF ArrayInv, ArrayType
<1>2. ArrayType'
  BY <1>1 DEF ArrayInv, ArrayType, Kept
<1>3. ASSUME N > 1, NEW h \in Below(N), NEW slot \in [Threads -> Below(N)],
             ArraySlots(h, slot), ArrayFlags(h, slot)
      PROVE  ArraySlots(h, slot)' /\ ArrayFlags(h, slot)'
  <2>1. \A u \in Threads : /\ u \in Served' <=> u \in Served
                           /\ InCS(u)' <=> InCS(u)
                           /\ HasFlag(u)' <=> HasFlag(u)
    BY DEF Served, InCS, HasFlag
  <2>2. PICK t \in Threads : TRUE
    BY <1>3, FS_EmptySet DEF N
  <2>3. QED
    BY <1>1, <1>3, <2>1, <2>2, ArrayFrame
<1>4. QED
  BY <1>2, <1>3 DEF ArrayInv

\* At most one thread is inside.
LEMMA ArraySafe ==
  ASSUME ArrayInv
  PROVE  \A s, t \in Threads : InCS(s) /\ InCS(t) => s = t
<1>1. ASSUME NEW s \in Threads, NEW t \in Threads, s # t
      PROVE  N > 1
  <2>1. IsFiniteSet({s}) /\ Cardinality({s}) = 1
    BY FS_Singleton
  <2>2. Cardinality({s} \cup {t}) = Cardinality({s}) + 1
    BY <1>1, <2>1, FS_AddElement
  <2>3. Cardinality({s} \cup {t}) <= N /\ N \in Nat
    BY ThreadsAssumption, NumThreads, FS_Subset DEF N
  <2>4. QED
    BY <2>1, <2>2, <2>3
<1>2. ASSUME N > 1, NEW s \in Threads, NEW t \in Threads, InCS(s), InCS(t)
      PROVE  s = t
  BY <1>2 DEF ArrayInv, ArrayFlags, ArrayOwner, HasFlag
<1>3. QED
  BY <1>1, <1>2

-----------------------------------------------------------------------------
(* The CLH lock *)

ClhTail == Nodes!TailWord
Flag(n) == Nodes!Locked(n)
AllNodes == {Nodes!LockNode} \cup Threads
ClhWords == {ClhTail, Counter} \cup {Flag(n) : n \in AllNodes}
ClhLabels == {"begin", "swap", "wait", "pause", "load", "store", "unlock", "done"}

ClhType == /\ TSOType(ClhWords, BufferSize) /\ pc \in [Threads -> ClhLabels]
           /\ node \in [Threads -> AllNodes] /\ pred \in [Threads -> AllNodes]
           /\ mem[ClhTail] \in AllNodes

InQueue(t) == Nodes!Queued(t)

\* Nobody has the node n.
Free(n) == \A u \in Threads : node[u] # n

\* The nodes of the threads are different, and there is one more node.  The
\* predecessors' nodes are different, nobody waits behind the tail, and the nodes
\* that they and the tail are belong to queued threads, or to nobody.
ClhQueue ==
  /\ \A s, t \in Threads : node[s] = node[t] => s = t
  /\ \A m, n \in AllNodes : Free(m) /\ Free(n) => m = n
  /\ \A s, t \in Threads : InQueue(s) /\ InQueue(t) /\ pred[s] = pred[t] => s = t
  /\ \A s, t \in Threads : InQueue(s) /\ node[t] = pred[s] => InQueue(t)
  /\ \A s \in Threads : InQueue(s) => pred[s] # mem[ClhTail]
  /\ \A t \in Threads : node[t] = mem[ClhTail] => InQueue(t)

\* A store to a node's word that is held back is its owner's 1 before the
\* exchange, or the 0 of the thread that has left the node to nobody.
ClhStore(u, n) ==
  Late(u, Flag(n)) =>
    /\ pc[u] \in {"begin", "swap", "done"} /\ Once(u, Flag(n))
    /\ \/ pc[u] = "swap" /\ node[u] = n
       \/ Free(n) /\ mem[Flag(n)] = 1 /\ Read(u, Flag(n)) = 0

ClhFlags ==
  /\ \A u \in Threads : ~ Late(u, ClhTail)
  /\ \A u \in Threads, n \in AllNodes : ClhStore(u, n)
  /\ \A n \in AllNodes, u, v \in Threads : Late(u, Flag(n)) /\ Late(v, Flag(n)) => u = v
  /\ \A u \in Threads : /\ pc[u] = "swap" => Read(u, Flag(node[u])) = 1
                        /\ InQueue(u) => mem[Flag(node[u])] = 1
                        /\ InCS(u) => Free(pred[u]) /\ mem[Flag(pred[u])] = 0

ClhInv == ClhType /\ ClhQueue /\ ClhFlags

\* The copies of the operators of TSO and TSOCountLoop in NodeLocks.
LEMMA NodesOperators ==
  /\ Nodes!Counter = Counter
  /\ \A t, a : Nodes!Read(t, a) = Read(t, a)
  /\ \A t, a, v : Nodes!Write(t, a, v) <=> Write(t, a, v)
  /\ \A t, a, v : Nodes!Update(t, a, v) <=> Update(t, a, v)
  /\ \A t : Nodes!Drained(t) <=> Drained(t)
  /\ \A m : Nodes!MemInit(m) <=> MemInit(m)
BY DEF Nodes!Counter, Counter, Nodes!Read, Read, Nodes!Pending, Pending,
       Nodes!Write, Write, Nodes!WriteAll, WriteAll, Nodes!Stored, Stored,
       Nodes!Update, Update, Nodes!Drained, Drained, Nodes!MemInit, MemInit

\* The words of the CLH lock are different words.
LEMMA ClhWordsDiffer ==
  /\ ClhTail # Counter /\ ClhTail \in ClhWords /\ Counter \in ClhWords
  /\ \A n : Flag(n) # ClhTail /\ Flag(n) # Counter
  /\ \A m, n : Flag(m) = Flag(n) => m = n
  /\ \A n \in AllNodes : Flag(n) \in ClhWords
BY DEF ClhTail, Flag, Nodes!TailWord, Nodes!Locked, Counter, ClhWords

\* Nobody is queued, and the tail is the node that nobody has.
LEMMA ClhInit ==
  ASSUME Nodes!ClhInit, LoopInit, node = [t \in Threads |-> t]
  PROVE  ClhInv
<1> DEFINE m == [a \in ClhWords |-> IF a = ClhTail THEN Nodes!LockNode ELSE 0]
<1>1. /\ MemInit(m) /\ m = [a \in ClhWords |-> m[a]] /\ m[ClhTail] = Nodes!LockNode
  <2>1. {Nodes!TailWord, Counter, Nodes!Locked(Nodes!LockNode)}
            \cup {Nodes!Locked(t) : t \in Threads} = ClhWords
    BY DEF ClhWords, ClhTail, Flag, AllNodes
  <2>2. QED
    BY <2>1, NodesOperators, ClhWordsDiffer DEF Nodes!ClhInit, ClhTail
<1> HIDE DEF m
<1>2. /\ TSOType(ClhWords, BufferSize) /\ mem = m
      /\ \A t \in Threads : \A a : ~ Late(t, a)
  BY <1>1, BufferAssumption, InitEffect
<1>3. /\ pc = [t \in Threads |-> "begin"] /\ node = [t \in Threads |-> t]
      /\ pred = [t \in Threads |-> Nodes!LockNode]
  BY DEF LoopInit, Nodes!ClhInit
<1>4. ClhType
  BY <1>1, <1>2, <1>3 DEF ClhType, ClhLabels, AllNodes
<1>5. \A t \in Threads : ~ InQueue(t) /\ ~ InCS(t) /\ pc[t] # "swap"
  BY <1>3 DEF InQueue, Nodes!Queued, InCS
<1>6. ClhQueue
  BY <1>1, <1>2, <1>3, <1>5, NodesAssumption DEF ClhQueue, AllNodes, Free
<1>7. ClhFlags
  BY <1>2, <1>5 DEF ClhFlags, ClhStore
<1>8. QED
  BY <1>4, <1>6, <1>7 DEF ClhInv

\* What a thread in the queue and a free node know of the stores held back.
LEMMA ClhFacts ==
  ASSUME ClhInv
  PROVE  /\ \A u, v \in Threads : InQueue(u) => ~ Late(u, Flag(node[v])) /\ ~ Late(v, Flag(node[u]))
         /\ \A u, v \in Threads : InQueue(u) => ~ Late(u, Flag(pred[v]))
         /\ \A u \in Threads, n \in AllNodes :
              Late(u, Flag(n)) => \/ pc[u] = "swap" /\ node[u] = n
                                  \/ Free(n) /\ mem[Flag(n)] = 1
         /\ \A u \in Threads : pc[u] = "begin" => \A v \in Threads : ~ Late(v, Flag(node[u]))
         /\ \A u \in Threads : node[u] \in AllNodes /\ pred[u] \in AllNodes
         /\ \A u \in Threads : InCS(u) => InQueue(u)
<1>1. \A u \in Threads : /\ node[u] \in AllNodes /\ pred[u] \in AllNodes
                         /\ InQueue(u) => pc[u] \notin {"begin", "swap", "done"}
                         /\ InCS(u) => InQueue(u)
  BY DEF ClhInv, ClhType, InQueue, Nodes!Queued, InCS
<1>2. \A u \in Threads, n \in AllNodes :
        Late(u, Flag(n)) => /\ pc[u] \in {"begin", "swap", "done"}
                            /\ \/ pc[u] = "swap" /\ node[u] = n
                               \/ Free(n) /\ mem[Flag(n)] = 1
  BY DEF ClhInv, ClhFlags, ClhStore
<1>3. \A u, v \in Threads : node[u] = node[v] => u = v
  BY DEF ClhInv, ClhQueue
<1>4. \A u \in Threads : ~ Free(node[u])
  BY DEF Free
<1>5. \A u, v \in Threads : Late(v, Flag(node[u])) => v = u /\ pc[u] = "swap"
  BY <1>1, <1>2, <1>3, <1>4
<1>6. \A u \in Threads : pc[u] # "swap" => \A v \in Threads : ~ Late(v, Flag(node[u]))
  BY <1>5
<1>7. \A u \in Threads, n \in AllNodes : InQueue(u) => ~ Late(u, Flag(n))
  BY <1>1, <1>2
<1>8. QED
  BY <1>1, <1>2, <1>6, <1>7

\* A step that leaves the queue and the words of the lock alone; who enters has
\* seen the predecessor's release.
LEMMA ClhFrame ==
  ASSUME ClhInv, ClhType', node' = node, pred' = pred, mem'[ClhTail] = mem[ClhTail],
         \A n \in AllNodes : mem'[Flag(n)] = mem[Flag(n)],
         \A u \in Threads :
           /\ Kept(u, ClhTail) /\ \A n \in AllNodes : Kept(u, Flag(n))
           /\ InQueue(u)' <=> InQueue(u)
           /\ InQueue(u) \/ pc'[u] = pc[u]
           /\ InCS(u)' => InCS(u) \/ (InQueue(u) /\ Free(pred[u]) /\ mem[Flag(pred[u])] = 0)
  PROVE  ClhInv'
<1>1. \A n : Free(n)' <=> Free(n)
  BY DEF Free
<1>2. ClhQueue'
  BY <1>1 DEF ClhInv, ClhQueue
<1>3. \A u \in Threads : pc'[u] = "swap" => pc[u] = "swap"
  <2> SUFFICES ASSUME NEW u \in Threads, pc'[u] = "swap", InQueue(u)'
               PROVE  FALSE
    OBVIOUS
  <2>1. QED
    BY DEF InQueue, Nodes!Queued
<1>4. \A u \in Threads, n \in AllNodes : ClhStore(u, n)'
  <2> SUFFICES ASSUME NEW u \in Threads, NEW n \in AllNodes, Late(u, Flag(n))'
               PROVE  ClhStore(u, n)'
    BY DEF ClhStore
  <2>1. Late(u, Flag(n)) /\ ~ InQueue(u) /\ ClhStore(u, n)
    BY ClhFacts DEF Kept, ClhInv, ClhFlags, ClhStore, InQueue, Nodes!Queued
  <2>2. QED
    BY <1>1, <2>1 DEF ClhStore, Kept
<1>5. \A n \in AllNodes, u, v \in Threads : Late(u, Flag(n))' /\ Late(v, Flag(n))' => u = v
  BY DEF ClhInv, ClhFlags, Kept
<1>6. \A u \in Threads : ~ Late(u, ClhTail)'
  BY DEF ClhInv, ClhFlags, Kept
<1>7. \A u \in Threads : node[u] \in AllNodes /\ pred[u] \in AllNodes
  BY ClhFacts
<1>8. \A u \in Threads : /\ pc'[u] = "swap" => Read(u, Flag(node[u]))' = 1
                         /\ InQueue(u)' => mem'[Flag(node[u])] = 1
                         /\ InCS(u)' => Free(pred[u])' /\ mem'[Flag(pred[u])] = 0
  BY <1>1, <1>3, <1>7 DEF ClhInv, ClhFlags, Kept
<1>9. QED
  BY <1>2, <1>4, <1>5, <1>6, <1>8 DEF ClhInv, ClhFlags

\* Every step of the CLH lock keeps its invariant.
LEMMA ClhStep ==
  ASSUME ClhInv, NEW t \in Threads, Nodes!ClhStep(t) \/ Nodes!Yield(t) \/ Nodes!Count(t)
  PROVE  ClhInv'
<1>10. PICK n : n = node[t]
  OBVIOUS
<1>0. /\ n = node[t] /\ ClhType /\ ClhQueue /\ ClhFlags /\ TSOType(ClhWords, BufferSize)
      /\ n \in AllNodes /\ Flag(n) \in ClhWords
  BY <1>10, ClhFacts, ClhWordsDiffer DEF ClhInv, ClhType
<1> USE DEF Nodes!Goto, ClhLabels
\* A step that leaves the memory of the lock alone, in the queue.
<1>1. ASSUME NEW l \in {"wait", "pause", "load", "store", "unlock"},
             pc' = [pc EXCEPT ![t] = l], InQueue(t), UNCHANGED <<node, pred>>,
             l \in {"load", "store", "unlock"} =>
               InCS(t) \/ (Free(pred[t]) /\ mem[Flag(pred[t])] = 0),
             TSOType(ClhWords, BufferSize)', mem'[ClhTail] = mem[ClhTail],
             \A m \in AllNodes : mem'[Flag(m)] = mem[Flag(m)],
             \A u \in Threads : Kept(u, ClhTail) /\ \A m \in AllNodes : Kept(u, Flag(m))
      PROVE  ClhInv'
  <2>1. ClhType'
    BY <1>0, <1>1 DEF ClhType
  <2>2. \A u \in Threads :
          /\ InQueue(u)' <=> InQueue(u)
          /\ InQueue(u) \/ pc'[u] = pc[u]
          /\ InCS(u)' => InCS(u) \/ (InQueue(u) /\ Free(pred[u]) /\ mem[Flag(pred[u])] = 0)
    BY <1>0, <1>1 DEF ClhType, InQueue, Nodes!Queued, InCS
  <2>3. QED
    BY <1>1, <2>1, <2>2, ClhFrame
<1>2. ASSUME NEW l \in {"wait", "pause", "load", "store", "unlock"},
             pc' = [pc EXCEPT ![t] = l], InQueue(t), UNCHANGED <<node, pred>>,
             l \in {"load", "store", "unlock"} =>
               InCS(t) \/ (Free(pred[t]) /\ mem[Flag(pred[t])] = 0),
             UNCHANGED memvars
      PROVE  ClhInv'
  <2>1. TSOType(ClhWords, BufferSize)' /\ mem' = mem /\ \A u, a : Kept(u, a)
    BY <1>0, <1>2, NoEffect
  <2>2. QED
    BY <1>1, <1>2, <2>1
<1>3. CASE Nodes!Yield(t)
  BY <1>2, <1>3 DEF Nodes!Yield, Nodes!memvars, memvars, InQueue, Nodes!Queued
<1>4. CASE Nodes!Count(t)
  <2>1. CASE Nodes!Load(t)
    BY <1>2, <1>4, <2>1 DEF Nodes!Count, Nodes!Load, memvars, InQueue, Nodes!Queued, InCS
  <2>2. CASE Nodes!Store(t)
    <3>1. /\ pc[t] = "store" /\ pc' = [pc EXCEPT ![t] = "unlock"]
          /\ UNCHANGED <<node, pred>> /\ Write(t, Counter, reg[t] + 1)
      BY <1>4, <2>2, NodesOperators DEF Nodes!Count, Nodes!Store
    <3>2. /\ TSOType(ClhWords, BufferSize)'
          /\ \A a \in ClhWords \ {Counter} : mem'[a] = mem[a]
          /\ \A u \in Threads : \A a \in ClhWords \ {Counter} : Kept(u, a)
      BY <1>0, <3>1, ClhWordsDiffer, WriteEffect
    <3>3. InQueue(t) /\ InCS(t)
      BY <3>1 DEF InQueue, Nodes!Queued, InCS
    <3>4. QED
      BY <1>1, <3>1, <3>2, <3>3, ClhWordsDiffer
  <2>3. QED
    BY <1>4, <2>1, <2>2 DEF Nodes!Count
<1>5. CASE Nodes!AwaitPredecessor(t)
  <2>1. /\ pc[t] = "wait" /\ UNCHANGED memvars /\ UNCHANGED <<node, pred>>
        /\ \E l \in {"wait", "pause", "load"} :
             /\ pc' = [pc EXCEPT ![t] = l]
             /\ l = "load" => Read(t, Flag(pred[t])) = 0
    BY <1>5, NodesOperators DEF Nodes!AwaitPredecessor, Nodes!memvars, memvars, Flag
  <2>2. InQueue(t)
    BY <2>1 DEF InQueue, Nodes!Queued
  <2>3. Read(t, Flag(pred[t])) = mem[Flag(pred[t])]
    BY <2>2, ClhFacts, ReadEffect
  <2>4. mem[Flag(pred[t])] = 0 => Free(pred[t])
    <3> SUFFICES ASSUME NEW u \in Threads, node[u] = pred[t], mem[Flag(pred[t])] = 0
                 PROVE  FALSE
      BY DEF Free
    <3>1. InQueue(u)
      BY <1>0, <2>2 DEF ClhQueue
    <3>2. QED
      BY <1>0, <3>1 DEF ClhFlags
  <2>5. QED
    BY <1>2, <2>1, <2>2, <2>3, <2>4
<1>6. CASE Nodes!ClhSetLocked(t)
  <2>1. /\ pc[t] = "begin" /\ pc' = [pc EXCEPT ![t] = "swap"]
        /\ node' = node /\ pred' = pred /\ Write(t, Flag(n), 1)
    BY <1>0, <1>6, NodesOperators DEF Nodes!ClhSetLocked, Flag
  <2>2. /\ \A u \in Threads : ~ Late(u, Flag(n))
        /\ ~ Free(n) /\ \A u \in Threads : node[u] = n => u = t
    BY <1>0, <2>1, ClhFacts DEF Free, ClhQueue
  <2>3. /\ TSOType(ClhWords, BufferSize)'
        /\ \A a \in ClhWords \ {Flag(n)} : mem'[a] = mem[a]
        /\ \A u \in Threads : \A a : u # t \/ a # Flag(n) => Kept(u, a)
        /\ Read(t, Flag(n))' = 1 /\ Once(t, Flag(n))'
    BY <1>0, <2>1, <2>2, WriteEffect
  <2>4. /\ mem'[ClhTail] = mem[ClhTail]
        /\ \A m \in AllNodes : m # n => /\ mem'[Flag(m)] = mem[Flag(m)]
                                        /\ \A u \in Threads : Kept(u, Flag(m))
        /\ \A u \in Threads : Kept(u, ClhTail)
    BY <2>3, ClhWordsDiffer
  <2>5. /\ ClhType' /\ \A u \in Threads : /\ InQueue(u)' <=> InQueue(u)
                                          /\ InCS(u)' <=> InCS(u)
                                          /\ u # t => pc'[u] = pc[u]
        /\ ~ InQueue(t) /\ \A m : Free(m)' <=> Free(m)
    BY <1>0, <2>1, <2>3, <2>4 DEF ClhType, InQueue, Nodes!Queued, InCS, Free
  <2>6. ClhQueue'
    BY <1>0, <2>1, <2>4, <2>5 DEF ClhQueue
  <2>7. \A u \in Threads, m \in AllNodes : ClhStore(u, m)'
    <3> SUFFICES ASSUME NEW u \in Threads, NEW m \in AllNodes, Late(u, Flag(m))'
                 PROVE  ClhStore(u, m)'
      BY DEF ClhStore
    <3>1. CASE m = n
      <4>1. u = t
        BY <2>2, <2>3, <3>1 DEF Kept
      <4>2. QED
        BY <2>1, <2>3, <3>1, <4>1, <1>0 DEF ClhStore, ClhType
    <3>2. CASE m # n
      BY <1>0, <2>1, <2>4, <2>5, <3>2 DEF ClhFlags, ClhStore, Kept, ClhType
    <3>3. QED
      BY <3>1, <3>2
  <2>8. \A m \in AllNodes, u, v \in Threads : Late(u, Flag(m))' /\ Late(v, Flag(m))' => u = v
    BY <1>0, <2>2, <2>3, <2>4 DEF ClhFlags, Kept
  <2>9. \A u \in Threads : node[u] \in AllNodes /\ pred[u] \in AllNodes
    BY ClhFacts
  <2>10. \A u \in Threads : /\ pc'[u] = "swap" => Read(u, Flag(node[u]))' = 1
                            /\ InQueue(u)' => mem'[Flag(node[u])] = 1
                            /\ InCS(u)' => Free(pred[u])' /\ mem'[Flag(pred[u])] = 0
    <3>1. ASSUME NEW u \in Threads, pc'[u] = "swap"
          PROVE  Read(u, Flag(node[u]))' = 1
      <4>1. CASE u = t
        BY <1>0, <2>1, <2>3, <4>1
      <4>2. CASE u # t
        <5>1. /\ pc[u] = "swap" /\ node[u] # n /\ node'[u] = node[u]
              /\ Read(u, Flag(node[u])) = 1
          BY <1>0, <2>1, <2>2, <2>5, <3>1, <4>2 DEF ClhFlags
        <5>2. Kept(u, Flag(node[u])) /\ mem'[Flag(node[u])] = mem[Flag(node[u])]
          BY <2>4, <2>9, <5>1
        <5>3. QED
          BY <5>1, <5>2 DEF Kept
      <4>3. QED
        BY <4>1, <4>2
    <3>2. ASSUME NEW u \in Threads, InQueue(u)'
          PROVE  mem'[Flag(node[u])] = 1
      BY <1>0, <2>2, <2>4, <2>5, <2>9, <3>2 DEF ClhFlags
    <3>3. ASSUME NEW u \in Threads, InCS(u)'
          PROVE  Free(pred[u])' /\ mem'[Flag(pred[u])] = 0
      BY <1>0, <2>1, <2>2, <2>4, <2>5, <2>9, <3>3 DEF ClhFlags
    <3>4. QED
      BY <2>1, <3>1, <3>2, <3>3
  <2>11. QED
    BY <1>0, <2>1, <2>4, <2>5, <2>6, <2>7, <2>8, <2>10 DEF ClhInv, ClhFlags, Kept
<1>7. CASE Nodes!ClhExchange(t)
  <2>1. /\ pc[t] = "swap" /\ pc' = [pc EXCEPT ![t] = "wait"] /\ node' = node
        /\ pred' = [pred EXCEPT ![t] = mem[ClhTail]] /\ Update(t, ClhTail, n)
    BY <1>0, <1>7, NodesOperators DEF Nodes!ClhExchange, ClhTail
  <2>2. /\ TSOType(ClhWords, BufferSize)' /\ mem'[ClhTail] = n
        /\ \A a \in ClhWords \ {ClhTail} : mem'[a] = mem[a]
        /\ \A a : ~ Late(t, a)
        /\ \A u, a : Kept(u, a)
    BY <1>0, <2>1, ClhWordsDiffer, UpdateEffect
  <2>3. /\ \A m \in AllNodes : mem'[Flag(m)] = mem[Flag(m)]
        /\ mem[Flag(n)] = 1 /\ mem[ClhTail] \in AllNodes
        /\ pred'[t] = mem[ClhTail] /\ \A u \in Threads : u # t => pred'[u] = pred[u]
    BY <1>0, <2>1, <2>2, ClhWordsDiffer, ReadEffect DEF ClhFlags, ClhType
  <2>4. /\ ClhType' /\ ~ InQueue(t) /\ InQueue(t)' /\ ~ InCS(t)'
        /\ \A u \in Threads : u # t => /\ pc'[u] = pc[u] /\ (InQueue(u)' <=> InQueue(u))
                                       /\ (InCS(u)' <=> InCS(u))
        /\ \A m : Free(m)' <=> Free(m)
    BY <1>0, <2>1, <2>2, <2>3 DEF ClhType, InQueue, Nodes!Queued, InCS, Free
  <2>5. ClhQueue'
    <3>1. \A u, v \in Threads : InQueue(u)' /\ node'[v] = pred'[u] => InQueue(v)'
      BY <1>0, <2>1, <2>3, <2>4 DEF ClhQueue
    <3>2. \A u, v \in Threads :
            InQueue(u)' /\ InQueue(v)' /\ pred'[u] = pred'[v] => u = v
      BY <1>0, <2>1, <2>3, <2>4 DEF ClhQueue
    <3>3. \A u \in Threads : InQueue(u)' => pred'[u] # mem'[ClhTail]
      BY <1>0, <2>1, <2>2, <2>3, <2>4 DEF ClhQueue
    <3>4. \A u \in Threads : node'[u] = mem'[ClhTail] => InQueue(u)'
      BY <1>0, <2>1, <2>2, <2>4 DEF ClhQueue
    <3>5. QED
      BY <1>0, <2>1, <2>4, <3>1, <3>2, <3>3, <3>4 DEF ClhQueue
  <2>6. \A u \in Threads : /\ pc'[u] = "swap" => Read(u, Flag(node[u]))' = 1
                           /\ InQueue(u)' => mem'[Flag(node[u])] = 1
                           /\ InCS(u)' => Free(pred[u])' /\ mem'[Flag(pred'[u])] = 0
    <3>1. \A u \in Threads : node[u] \in AllNodes /\ pred[u] \in AllNodes
      BY ClhFacts
    <3>2. ASSUME NEW u \in Threads, pc'[u] = "swap"
          PROVE  Read(u, Flag(node[u]))' = 1
      <4>1. pc[u] = "swap" /\ Read(u, Flag(node[u])) = 1 /\ node'[u] = node[u]
        BY <1>0, <2>1, <2>4, <3>2 DEF ClhFlags, ClhType
      <4>2. Kept(u, Flag(node[u])) /\ mem'[Flag(node[u])] = mem[Flag(node[u])]
        BY <2>2, <2>3, <3>1
      <4>3. QED
        BY <4>1, <4>2 DEF Kept
    <3>3. ASSUME NEW u \in Threads, InQueue(u)'
          PROVE  mem'[Flag(node[u])] = 1
      BY <1>0, <2>3, <2>4, <3>1, <3>3 DEF ClhFlags
    <3>4. ASSUME NEW u \in Threads, InCS(u)'
          PROVE  Free(pred[u])' /\ mem'[Flag(pred'[u])] = 0
      <4>1. u # t /\ InCS(u) /\ pred'[u] = pred[u] /\ Free(pred[u])
        BY <1>0, <2>3, <2>4, <3>4 DEF ClhFlags
      <4>2. Free(pred[u])' /\ mem[Flag(pred[u])] = 0
        BY <1>0, <2>4, <4>1 DEF ClhFlags
      <4>3. QED
        BY <2>3, <3>1, <4>1, <4>2
    <3>5. QED
      BY <2>1, <3>2, <3>3, <3>4
  <2>7. \A u \in Threads, m \in AllNodes : ClhStore(u, m)'
    BY <1>0, <2>1, <2>2, <2>3, <2>4 DEF ClhFlags, ClhStore, Kept
  <2>8. QED
    BY <1>0, <2>1, <2>2, <2>4, <2>5, <2>6, <2>7 DEF ClhInv, ClhFlags, Kept
<1>8. CASE Nodes!ClhUnlock(t)
  <2> DEFINE p == pred[t]
  <2>1. PICK l \in {"begin", "done"} : pc' = [pc EXCEPT ![t] = l]
    BY <1>8 DEF Nodes!ClhUnlock, Nodes!EndIteration, Nodes!After
  <2>2. /\ pc[t] = "unlock" /\ node' = [node EXCEPT ![t] = p] /\ pred' = pred
        /\ Write(t, Flag(n), 0)
    BY <1>0, <1>8, NodesOperators DEF Nodes!ClhUnlock, Flag
  <2>3. /\ InQueue(t) /\ InCS(t) /\ Free(p) /\ mem[Flag(p)] = 0 /\ p \in AllNodes
        /\ mem[Flag(n)] = 1 /\ \A u \in Threads : ~ Late(u, Flag(n))
        /\ \A u \in Threads : node[u] = n => u = t
        /\ ~ Free(n) /\ p # n
    BY <1>0, <2>2, ClhFacts
    DEF InQueue, Nodes!Queued, InCS, ClhFlags, ClhType, ClhQueue, Free
  <2>4. /\ TSOType(ClhWords, BufferSize)'
        /\ \A a \in ClhWords \ {Flag(n)} : mem'[a] = mem[a]
        /\ \A u \in Threads : \A a : u # t \/ a # Flag(n) => Kept(u, a)
        /\ Read(t, Flag(n))' = 0 /\ Once(t, Flag(n))'
        /\ \/ Late(t, Flag(n))' /\ mem'[Flag(n)] = mem[Flag(n)]
           \/ ~ Late(t, Flag(n))'
    BY <1>0, <2>2, <2>3, WriteEffect
  <2>5. /\ mem'[ClhTail] = mem[ClhTail]
        /\ \A m \in AllNodes : m # n => /\ mem'[Flag(m)] = mem[Flag(m)]
                                        /\ \A u \in Threads : Kept(u, Flag(m))
        /\ \A u \in Threads : Kept(u, ClhTail)
    BY <2>4, ClhWordsDiffer
  <2>6. /\ ClhType' /\ ~ InQueue(t)' /\ ~ InCS(t)'
        /\ \A u \in Threads : u # t => /\ pc'[u] = pc[u] /\ (InQueue(u)' <=> InQueue(u))
                                       /\ (InCS(u)' <=> InCS(u))
                                       /\ node'[u] = node[u]
        /\ node'[t] = p /\ pc'[t] \in {"begin", "done"}
    BY <1>0, <2>1, <2>2, <2>3, <2>4, <2>5 DEF ClhType, InQueue, Nodes!Queued, InCS
  <2>7. \A m \in AllNodes : Free(m)' <=> m = n
    BY <1>0, <2>3, <2>6 DEF ClhQueue, Free
  <2>8. \A u \in Threads : ~ InCS(u)'
    BY <1>0, <2>3, <2>6, ClhFacts DEF ClhQueue, ClhFlags
  <2>9. ClhQueue'
    <3>1. \A u, v \in Threads : node'[u] = node'[v] => u = v
      BY <1>0, <2>3, <2>6 DEF ClhQueue, Free
    <3>2. \A u, v \in Threads : InQueue(u)' /\ node'[v] = pred'[u] => InQueue(v)'
      BY <1>0, <2>2, <2>3, <2>6 DEF ClhQueue
    <3>3. \A u \in Threads : node'[u] = mem'[ClhTail] => InQueue(u)'
      BY <1>0, <2>2, <2>3, <2>5, <2>6 DEF ClhQueue
    <3>4. \A u, v \in Threads :
            InQueue(u)' /\ InQueue(v)' /\ pred'[u] = pred'[v] => u = v
      BY <1>0, <2>2, <2>6 DEF ClhQueue
    <3>5. \A u \in Threads : InQueue(u)' => pred'[u] # mem'[ClhTail]
      BY <1>0, <2>2, <2>5, <2>6 DEF ClhQueue
    <3>6. QED
      BY <2>7, <3>1, <3>2, <3>3, <3>4, <3>5 DEF ClhQueue
  <2>10. \A u \in Threads, m \in AllNodes : ClhStore(u, m)'
    <3> SUFFICES ASSUME NEW u \in Threads, NEW m \in AllNodes, Late(u, Flag(m))'
                 PROVE  ClhStore(u, m)'
      BY DEF ClhStore
    <3>1. CASE m = n
      <4>1. u = t
        BY <2>3, <2>4, <3>1 DEF Kept
      <4>2. QED
        BY <2>3, <2>4, <2>6, <2>7, <3>1, <4>1 DEF ClhStore
    <3>2. CASE m # n
      <4>1. Late(u, Flag(m)) /\ ClhStore(u, m)
        BY <1>0, <2>5, <3>2 DEF ClhFlags, Kept
      <4>2. ~ Free(m) /\ pc[u] = "swap" /\ u # t
        BY <1>0, <2>2, <2>3, <3>2, <4>1 DEF ClhStore, ClhQueue, Free
      <4>3. QED
        BY <2>5, <2>6, <3>2, <4>1, <4>2 DEF ClhStore, Kept
    <3>3. QED
      BY <3>1, <3>2
  <2>11. \A m \in AllNodes, u, v \in Threads : Late(u, Flag(m))' /\ Late(v, Flag(m))' => u = v
    BY <1>0, <2>3, <2>4, <2>5 DEF ClhFlags, Kept
  <2>12. \A u \in Threads : /\ pc'[u] = "swap" => Read(u, Flag(node[u]))' = 1
                            /\ InQueue(u)' => mem'[Flag(node'[u])] = 1
    <3>1. \A u \in Threads : node[u] \in AllNodes
      BY ClhFacts
    <3>2. ASSUME NEW u \in Threads, pc'[u] = "swap"
          PROVE  Read(u, Flag(node[u]))' = 1
      <4>1. /\ u # t /\ pc[u] = "swap" /\ Read(u, Flag(node[u])) = 1 /\ node'[u] = node[u]
            /\ node[u] # n
        BY <1>0, <2>3, <2>6, <3>2 DEF ClhFlags
      <4>2. Kept(u, Flag(node[u])) /\ mem'[Flag(node[u])] = mem[Flag(node[u])]
        BY <2>5, <3>1, <4>1
      <4>3. QED
        BY <4>1, <4>2 DEF Kept
    <3>3. QED
      BY <1>0, <2>3, <2>5, <2>6, <3>1, <3>2 DEF ClhFlags
  <2>13. QED
    BY <1>0, <2>5, <2>6, <2>8, <2>9, <2>10, <2>11, <2>12 DEF ClhInv, ClhFlags, Kept
<1>9. QED
  BY <1>3, <1>4, <1>5, <1>6, <1>7, <1>8 DEF Nodes!ClhStep

\* A store held back reaches memory: the 1 of the node's owner before the
\* exchange, or the 0 on the node that nobody has.
LEMMA ClhDrain ==
  ASSUME ClhInv, NEW t \in Threads, Drain(t), UNCHANGED <<node, pred>>
  PROVE  ClhInv'
<1>0. ClhType /\ ClhQueue /\ ClhFlags /\ TSOType(ClhWords, BufferSize)
  BY DEF ClhInv, ClhType
<1>1. Flush(t) /\ pc' = pc
  BY DEF Drain, loopvars
<1>2. /\ TSOType(ClhWords, BufferSize)'
      /\ \A u \in Threads : \A a : u # t => Kept(u, a)
      /\ \A a \in ClhWords :
           /\ Once(t, a) => Once(t, a)'
           /\ Read(t, a)' = Read(t, a)
           /\ Late(t, a)' => Late(t, a)
           /\ \/ mem'[a] = mem[a] /\ (Late(t, a)' <=> Late(t, a))
              \/ /\ Late(t, a)
                 /\ Once(t, a) => ~ Late(t, a)' /\ mem'[a] = Read(t, a)
  BY <1>0, <1>1, FlushEffect
<1>3. /\ mem'[ClhTail] = mem[ClhTail] /\ \A u \in Threads : ~ Late(u, ClhTail)'
      /\ ClhType'
  <2>1. mem'[ClhTail] = mem[ClhTail] /\ \A u \in Threads : ~ Late(u, ClhTail)'
    BY <1>0, <1>2, ClhWordsDiffer DEF ClhFlags, Kept
  <2>2. QED
    BY <1>0, <1>1, <1>2, <2>1 DEF ClhType
<1>4. /\ \A m : Free(m)' <=> Free(m)
      /\ \A u \in Threads : (InQueue(u)' <=> InQueue(u)) /\ (InCS(u)' <=> InCS(u))
  BY <1>1 DEF Free, InQueue, Nodes!Queued, InCS
<1>5. ClhQueue'
  BY <1>0, <1>1, <1>3, <1>4 DEF ClhQueue
\* What happens to the word of one node.
<1>6. ASSUME NEW m \in AllNodes
      PROVE  \/ /\ mem'[Flag(m)] = mem[Flag(m)] /\ (Late(t, Flag(m))' <=> Late(t, Flag(m)))
             \/ /\ ~ Late(t, Flag(m))' /\ Late(t, Flag(m))
                /\ \/ pc[t] = "swap" /\ node[t] = m /\ mem'[Flag(m)] = 1
                   \/ Free(m) /\ mem[Flag(m)] = 1
  <2>1. Flag(m) \in ClhWords
    BY ClhWordsDiffer
  <2>2. ClhStore(t, m) /\ (pc[t] = "swap" => Read(t, Flag(node[t])) = 1)
    BY <1>0 DEF ClhFlags
  <2>3. QED
    BY <1>2, <2>1, <2>2 DEF ClhStore
<1>7. \A u \in Threads, m \in AllNodes : ClhStore(u, m)'
  <2> SUFFICES ASSUME NEW u \in Threads, NEW m \in AllNodes, Late(u, Flag(m))'
               PROVE  ClhStore(u, m)'
    BY DEF ClhStore
  <2>1. Late(u, Flag(m)) /\ ClhStore(u, m) /\ Flag(m) \in ClhWords
    BY <1>0, <1>2, ClhWordsDiffer DEF Kept, ClhFlags
  <2>2. Once(u, Flag(m))' /\ mem'[Flag(m)] = mem[Flag(m)]
    BY <1>0, <1>2, <1>6, <2>1 DEF ClhStore, Kept, ClhFlags
  <2>3. Read(u, Flag(m))' = Read(u, Flag(m))
    BY <1>2, <2>1, <2>2 DEF Kept
  <2>4. QED
    BY <1>1, <1>4, <2>1, <2>2, <2>3 DEF ClhStore
<1>8. \A m \in AllNodes, u, v \in Threads : Late(u, Flag(m))' /\ Late(v, Flag(m))' => u = v
  <2>1. \A u \in Threads, m \in AllNodes : Late(u, Flag(m))' => Late(u, Flag(m))
    BY <1>2, ClhWordsDiffer DEF Kept
  <2>2. QED
    BY <1>0, <2>1 DEF ClhFlags
<1>9. ASSUME NEW u \in Threads
      PROVE  /\ pc'[u] = "swap" => Read(u, Flag(node[u]))' = 1
             /\ InQueue(u)' => mem'[Flag(node[u])] = 1
             /\ InCS(u)' => Free(pred[u])' /\ mem'[Flag(pred[u])] = 0
  <2>1. node[u] \in AllNodes /\ pred[u] \in AllNodes /\ ~ Free(node[u])
    BY ClhFacts DEF Free
  <2>2. ASSUME pc'[u] = "swap"
        PROVE  Read(u, Flag(node[u]))' = 1
    <3>1. pc[u] = "swap" /\ Read(u, Flag(node[u])) = 1 /\ Flag(node[u]) \in ClhWords
      BY <1>0, <1>1, <2>1, <2>2, ClhWordsDiffer DEF ClhFlags
    <3>2. CASE u = t
      BY <1>2, <3>1, <3>2
    <3>3. CASE u # t
      <4>1. Late(u, Flag(node[u])) \/ mem'[Flag(node[u])] = mem[Flag(node[u])]
        <5>1. CASE pc[t] = "swap" /\ node[t] = node[u]
          BY <1>0, <3>3, <5>1 DEF ClhQueue
        <5>2. CASE ~ (pc[t] = "swap" /\ node[t] = node[u])
          BY <1>6, <2>1, <5>2
        <5>3. QED
          BY <5>1, <5>2
      <4>2. Kept(u, Flag(node[u]))
        BY <1>2, <3>3
      <4>3. QED
        BY <3>1, <4>1, <4>2 DEF Kept
    <3>4. QED
      BY <3>2, <3>3
  <2>3. ASSUME InQueue(u)'
        PROVE  mem'[Flag(node[u])] = 1
    BY <1>0, <1>4, <1>6, <2>1, <2>3 DEF ClhFlags
  <2>4. ASSUME InCS(u)'
        PROVE  Free(pred[u])' /\ mem'[Flag(pred[u])] = 0
    <3>1. Free(pred[u]) /\ mem[Flag(pred[u])] = 0
      BY <1>0, <1>4, <2>4 DEF ClhFlags
    <3>2. mem'[Flag(pred[u])] = mem[Flag(pred[u])]
      BY <1>6, <2>1, <3>1 DEF Free
    <3>3. QED
      BY <1>4, <3>1, <3>2
  <2>5. QED
    BY <2>2, <2>3, <2>4
<1>10. QED
  BY <1>3, <1>5, <1>7, <1>8, <1>9 DEF ClhInv, ClhFlags

\* A step that changes nothing keeps the invariant.
LEMMA ClhStutter ==
  ASSUME ClhInv, UNCHANGED <<pc, memvars, node, pred>>
  PROVE  ClhInv'
<1>1. mem' = mem /\ TSOType(ClhWords, BufferSize)' /\ \A u, a : Kept(u, a)
  BY NoEffect DEF ClhInv, ClhType
<1>2. ClhType'
  BY <1>1 DEF ClhInv, ClhType
<1>3. \A u \in Threads : (InQueue(u)' <=> InQueue(u)) /\ (InCS(u)' <=> InCS(u))
  BY DEF InQueue, Nodes!Queued, InCS
<1>4. QED
  BY <1>1, <1>2, <1>3, ClhFrame

\* Who is inside has the predecessor's node to himself, and there is one node
\* that nobody has.
LEMMA ClhSafe ==
  ASSUME ClhInv
  PROVE  /\ \A s, t \in Threads : InCS(s) /\ InCS(t) => s = t
         /\ Nodes!NodesAreOwned
<1>1. \A s, t \in Threads : InCS(s) /\ InCS(t) => s = t
  <2> SUFFICES ASSUME NEW s \in Threads, NEW t \in Threads, InCS(s), InCS(t)
               PROVE  s = t
    OBVIOUS
  <2>1. pred[s] = pred[t] /\ InQueue(s) /\ InQueue(t)
    BY ClhFacts DEF ClhInv, ClhQueue, ClhFlags
  <2>2. QED
    BY <2>1 DEF ClhInv, ClhQueue
<1>2. Nodes!NodesAreOwned
  BY DEF ClhInv, ClhQueue, Nodes!NodesAreOwned, InQueue, Nodes!TailWord, ClhTail
<1>3. QED
  BY <1>1, <1>2

-----------------------------------------------------------------------------
(* The MCS lock *)

McsTail == Nodes!TailWord
LockedOf(t) == Nodes!Locked(t)
NextOf(t) == Nodes!NextOf(t)
McsWords == {McsTail, Counter} \cup {LockedOf(t) : t \in Threads}
                               \cup {NextOf(t) : t \in Threads}
McsLabels == {"begin", "set", "swap", "own", "link", "wait", "pause", "load", "store",
              "unlock", "cas", "linked", "handoff", "done"}

McsType == /\ TSOType(McsWords, BufferSize) /\ pc \in [Threads -> McsLabels]
           /\ mem[McsTail] \in Threads \cup {Nodes!Null}
           /\ pred \in [Threads -> Threads \cup {Nodes!Null}]

\* Behind the exchange and before the end of unlock(): t waits, or has the lock.
Waits(t) == pc[t] \in {"link", "wait", "pause"}
Holds(t) == pc[t] \in {"own", "load", "store", "unlock", "cas", "linked", "handoff"}

\* t has been given the lock, although the store may still be in a buffer.
Given(t) == /\ pc[t] \in {"wait", "pause"}
            /\ mem[LockedOf(t)] = 0 \/ \E u \in Threads \ {t} : Late(u, LockedOf(t))

McsOwner(t) == Holds(t) \/ Given(t)
Behind == {t \in Threads : Waits(t) /\ ~ Given(t)}

\* One thread has the lock; every other that is queued waits behind another one
\* that is queued, and nobody behind the tail or in a circle.
McsQueue ==
  /\ \A s, t \in Threads : McsOwner(s) /\ McsOwner(t) => s = t
  /\ \A t \in Behind : pred[t] \in Threads /\ (pred[t] \in Behind \/ McsOwner(pred[t]))
  /\ \A s, t \in Behind : pred[s] = pred[t] => s = t
  /\ \A t \in Behind : pred[t] # mem[McsTail]
  /\ \A S \in SUBSET Behind : S # {} => \E t \in S : pred[t] \notin S
  /\ mem[McsTail] \in Threads => mem[McsTail] \in Behind \/ McsOwner(mem[McsTail])
  /\ mem[McsTail] = Nodes!Null => Behind = {} /\ \A t \in Threads : ~ McsOwner(t)

\* Of the word locked of s: only s itself and the thread that has given it the
\* lock have stores to it in their buffers, the latter as long as s waits.
McsLocked(s) ==
  /\ pc[s] = "swap" => Read(s, LockedOf(s)) = 1
  /\ Waits(s) => ~ Late(s, LockedOf(s))
  /\ pc[s] = "link" => mem[LockedOf(s)] # 0
  /\ \A u \in Threads \ {s} : Late(u, LockedOf(s)) =>
       /\ pc[u] \in {"begin", "set", "swap", "done"}
       /\ pc[s] \in {"wait", "pause"} /\ mem[LockedOf(s)] # 0
       /\ Once(u, LockedOf(s)) /\ Read(u, LockedOf(s)) = 0
       /\ \A v \in Threads \ {s} : Late(v, LockedOf(s)) => v = u

\* Of the word next of q: it names, while q is queued, the thread that waits
\* behind q and has linked itself.
McsLink(s, q) == s \in Behind /\ pred[s] = q /\ pc[s] \in {"wait", "pause"}

McsNext(q) ==
  /\ pc[q] \in {"set", "swap"} => Read(q, NextOf(q)) = Nodes!Null
  /\ pc[q] = "handoff" => mem[NextOf(q)] # Nodes!Null
  /\ Waits(q) \/ Holds(q) => /\ ~ Late(q, NextOf(q))
                             /\ \/ mem[NextOf(q)] = Nodes!Null
                                \/ \E s \in Threads : mem[NextOf(q)] = s /\ McsLink(s, q)
  /\ \A u \in Threads \ {q} : Late(u, NextOf(q)) =>
       /\ McsLink(u, q) /\ Once(u, NextOf(q)) /\ Read(u, NextOf(q)) = u
       /\ mem[NextOf(q)] = Nodes!Null
  /\ Late(q, NextOf(q)) => pc[q] \in {"set", "swap"} /\ Once(q, NextOf(q))

McsInv == /\ McsType /\ McsQueue
          /\ \A t \in Threads : ~ Late(t, McsTail) /\ McsLocked(t) /\ McsNext(t)

\* The words of the MCS lock are different words.
LEMMA McsWordsDiffer ==
  /\ McsTail # Counter /\ McsTail \in McsWords /\ Counter \in McsWords
  /\ \A s : /\ LockedOf(s) # McsTail /\ LockedOf(s) # Counter
            /\ NextOf(s) # McsTail /\ NextOf(s) # Counter
  /\ \A s, t : LockedOf(s) # NextOf(t)
  /\ \A s, t : LockedOf(s) = LockedOf(t) => s = t
  /\ \A s, t : NextOf(s) = NextOf(t) => s = t
  /\ \A s \in Threads : LockedOf(s) \in McsWords /\ NextOf(s) \in McsWords
BY DEF McsTail, LockedOf, NextOf, Nodes!TailWord, Nodes!Locked, Nodes!NextOf, Counter,
       McsWords

\* Nobody is queued.
LEMMA McsInit ==
  ASSUME Nodes!McsInit, LoopInit
  PROVE  McsInv
<1> DEFINE m == [a \in McsWords |-> IF a[1] \in {"tail", "next"} THEN Nodes!Null ELSE 0]
<1>1. MemInit(m) /\ m = [a \in McsWords |-> m[a]] /\ m[McsTail] = Nodes!Null
  <2>1. {Nodes!TailWord, Counter} \cup {Nodes!NextOf(t) : t \in Threads}
            \cup {Nodes!Locked(t) : t \in Threads} = McsWords
    BY DEF McsWords, McsTail, LockedOf, NextOf
  <2>2. McsTail[1] = "tail"
    BY DEF McsTail, Nodes!TailWord
  <2>3. QED
    BY <2>1, <2>2, NodesOperators, McsWordsDiffer DEF Nodes!McsInit
<1> HIDE DEF m
<1>2. /\ TSOType(McsWords, BufferSize) /\ mem = m
      /\ \A t \in Threads : \A a : ~ Late(t, a)
  BY <1>1, BufferAssumption, InitEffect
<1>3. pc = [t \in Threads |-> "begin"]
  BY DEF LoopInit
<1>4. McsType
  BY <1>1, <1>2, <1>3 DEF McsType, McsLabels, Nodes!McsInit
<1>5. \A t \in Threads : pc[t] = "begin" /\ ~ Waits(t) /\ ~ Holds(t) /\ ~ Given(t)
  BY <1>3 DEF Waits, Holds, Given
<1>6. Behind = {} /\ \A t \in Threads : ~ McsOwner(t)
  BY <1>5 DEF Behind, McsOwner
<1>7. McsQueue
  BY <1>1, <1>2, <1>6, NodesAssumption DEF McsQueue
<1>8. \A t \in Threads : McsLocked(t) /\ McsNext(t)
  BY <1>2, <1>5 DEF McsLocked, McsNext
<1>9. QED
  BY <1>2, <1>4, <1>7, <1>8 DEF McsInv

\* A step that keeps the queue.
LEMMA McsQueueFrame ==
  ASSUME McsQueue, Behind' = Behind, mem'[McsTail] = mem[McsTail],
         \A u \in Threads : McsOwner(u)' <=> McsOwner(u),
         \A u \in Behind : pred'[u] = pred[u]
  PROVE  McsQueue'
BY DEF McsQueue

\* A step that leaves the word locked of s alone.
LEMMA McsLockedFrame ==
  ASSUME NEW s \in Threads, McsLocked(s), mem'[LockedOf(s)] = mem[LockedOf(s)],
         \A u \in Threads : Kept(u, LockedOf(s)),
         pc'[s] = "swap" => pc[s] = "swap",
         Waits(s)' => ~ Late(s, LockedOf(s)),
         pc'[s] = "link" => mem[LockedOf(s)] # 0,
         \A u \in Threads \ {s} :
           Late(u, LockedOf(s)) => pc'[u] \in {"begin", "set", "swap", "done"},
         pc[s] \in {"wait", "pause"} /\ mem[LockedOf(s)] # 0 => pc'[s] \in {"wait", "pause"}
  PROVE  McsLocked(s)'
<1>1. \A u \in Threads : /\ Late(u, LockedOf(s))' <=> Late(u, LockedOf(s))
                         /\ Once(u, LockedOf(s))' <=> Once(u, LockedOf(s))
                         /\ Read(u, LockedOf(s))' = Read(u, LockedOf(s))
  BY DEF Kept
<1>2. QED
  BY <1>1 DEF McsLocked

\* A step that leaves the word next of q alone.
LEMMA McsNextFrame ==
  ASSUME NEW q \in Threads, McsNext(q), mem'[NextOf(q)] = mem[NextOf(q)],
         \A u \in Threads : Kept(u, NextOf(q)),
         pc'[q] \in {"set", "swap"} => pc[q] \in {"set", "swap"},
         Late(q, NextOf(q)) => pc'[q] \in {"set", "swap"},
         pc'[q] = "handoff" => mem[NextOf(q)] # Nodes!Null,
         (Waits(q) \/ Holds(q))' =>
           Waits(q) \/ Holds(q) \/ (~ Late(q, NextOf(q)) /\ mem[NextOf(q)] = Nodes!Null),
         \A s \in Threads : McsLink(s, q) => McsLink(s, q)'
  PROVE  McsNext(q)'
<1>1. \A u \in Threads : /\ Late(u, NextOf(q))' <=> Late(u, NextOf(q))
                         /\ Once(u, NextOf(q))' <=> Once(u, NextOf(q))
                         /\ Read(u, NextOf(q))' = Read(u, NextOf(q))
  BY DEF Kept
<1>2. QED
  BY <1>1 DEF McsNext

\* Whether s has been given the lock does not change.
LEMMA GivenFrame ==
  ASSUME NEW s \in Threads, mem'[LockedOf(s)] = mem[LockedOf(s)],
         \A u \in Threads : Kept(u, LockedOf(s)),
         pc'[s] \in {"wait", "pause"} <=> pc[s] \in {"wait", "pause"}
  PROVE  Given(s)' <=> Given(s)
BY DEF Given, Kept

\* Who is not queued has a node that nobody else writes to.
LEMMA McsOutside ==
  ASSUME McsInv, NEW t \in Threads, pc[t] \in {"begin", "set", "swap", "done"}
  PROVE  /\ \A u \in Threads \ {t} : ~ Late(u, LockedOf(t)) /\ ~ Late(u, NextOf(t))
         /\ pc[t] \in {"begin", "done"} => ~ Late(t, NextOf(t))
         /\ ~ Waits(t) /\ ~ Holds(t) /\ ~ Given(t) /\ ~ McsOwner(t) /\ t \notin Behind
         /\ \A s \in Behind : pred[s] # t
         /\ mem[McsTail] # t
<1>1. ~ Waits(t) /\ ~ Holds(t) /\ ~ Given(t) /\ ~ McsOwner(t) /\ t \notin Behind
  BY DEF Waits, Holds, Given, McsOwner, Behind
<1>2. /\ \A s \in Behind : pred[s] # t
      /\ mem[McsTail] # t
  BY <1>1 DEF McsInv, McsQueue
<1>3. \A u \in Threads \ {t} : ~ Late(u, LockedOf(t)) /\ ~ Late(u, NextOf(t))
  BY <1>2 DEF McsInv, McsLocked, McsNext, McsLink
<1>4. QED
  BY <1>1, <1>2, <1>3 DEF McsInv, McsNext

\* A step that leaves the words of the lock alone: a step of a loop, into the
\* critical section after the lock has been given, or of the thread that has it.
LEMMA McsFrame ==
  ASSUME McsInv, McsType', NEW t \in Threads, NEW l, pc' = [pc EXCEPT ![t] = l],
         pred' = pred, mem'[McsTail] = mem[McsTail],
         \A s \in Threads : /\ mem'[LockedOf(s)] = mem[LockedOf(s)]
                            /\ mem'[NextOf(s)] = mem[NextOf(s)],
         \A u, s \in Threads : /\ Kept(u, LockedOf(s)) /\ Kept(u, NextOf(s))
                               /\ Kept(u, McsTail),
         \/ l = pc[t]
         \/ pc[t] \in {"wait", "pause"} /\ l \in {"wait", "pause"}
         \/ pc[t] = "wait" /\ l = "own" /\ mem[LockedOf(t)] = 0
         \/ /\ Holds(t) /\ l \in {"load", "store", "unlock", "cas", "linked", "handoff"}
            /\ l = "handoff" => mem[NextOf(t)] # Nodes!Null
  PROVE  McsInv'
<1>1. pc'[t] = l /\ \A u \in Threads : u # t => pc'[u] = pc[u]
  BY DEF McsInv, McsType
<1>2. ASSUME NEW u \in Threads
      PROVE  /\ McsOwner(u)' <=> McsOwner(u)
             /\ (u \in Behind)' <=> u \in Behind
             /\ Waits(u)' => Waits(u)
             /\ (Waits(u) \/ Holds(u))' <=> Waits(u) \/ Holds(u)
             /\ u \in Behind => (pc'[u] \in {"wait", "pause"} <=> pc[u] \in {"wait", "pause"})
  <2>1. CASE pc'[u] \in {"wait", "pause"} <=> pc[u] \in {"wait", "pause"}
    <3>1. Given(u)' <=> Given(u)
      BY <2>1, GivenFrame
    <3>2. (Waits(u)' <=> Waits(u)) /\ (Holds(u)' <=> Holds(u))
      BY <1>1, <2>1 DEF Waits, Holds
    <3>3. QED
      BY <2>1, <3>1, <3>2 DEF McsOwner, Behind
  <2>2. CASE u = t /\ pc[t] = "wait" /\ l = "own" /\ mem[LockedOf(t)] = 0
    BY <1>1, <2>2 DEF McsOwner, Behind, Given, Waits, Holds
  <2>3. QED
    BY <1>1, <2>1, <2>2 DEF Holds
<1>3. Behind' = Behind
  BY <1>2 DEF Behind
<1>4. McsQueue'
  BY <1>2, <1>3, McsQueueFrame DEF McsInv
<1>5. ASSUME NEW s \in Threads
      PROVE  McsLocked(s)'
  <2>1. McsLocked(s)
    BY DEF McsInv
  <2>2. \A u \in Threads : pc[u] \in {"begin", "set", "swap", "done", "link"} <=>
                           pc'[u] \in {"begin", "set", "swap", "done", "link"}
    BY <1>1 DEF Holds
  <2>3. \A u \in Threads : pc[u] \in {"begin", "set", "swap", "done", "link"} => pc'[u] = pc[u]
    BY <1>1 DEF Holds
  <2>4. pc[s] \in {"wait", "pause"} /\ mem[LockedOf(s)] # 0 => pc'[s] \in {"wait", "pause"}
    BY <1>1 DEF Holds
  <2>5. Waits(s)' => ~ Late(s, LockedOf(s))
    BY <1>2, <2>1 DEF McsLocked
  <2>6. /\ pc'[s] = "link" => mem[LockedOf(s)] # 0
        /\ pc'[s] = "swap" => pc[s] = "swap"
        /\ \A u \in Threads \ {s} :
             Late(u, LockedOf(s)) => pc'[u] \in {"begin", "set", "swap", "done"}
    BY <2>1, <2>2, <2>3 DEF McsLocked
  <2>7. QED
    BY <2>1, <2>4, <2>5, <2>6, McsLockedFrame
<1>6. ASSUME NEW q \in Threads
      PROVE  McsNext(q)'
  <2>1. McsNext(q)
    BY DEF McsInv
  <2>2. pc'[q] \in {"set", "swap"} <=> pc[q] \in {"set", "swap"}
    BY <1>1 DEF Holds
  <2>3. pc'[q] = "handoff" => mem[NextOf(q)] # Nodes!Null
    BY <1>1, <2>1 DEF McsNext
  <2>4. \A s \in Threads : McsLink(s, q) => McsLink(s, q)'
    BY <1>2, <1>3 DEF McsLink
  <2>5. Late(q, NextOf(q)) => pc'[q] \in {"set", "swap"}
    BY <2>1, <2>2 DEF McsNext
  <2>6. QED
    BY <1>2, <2>1, <2>2, <2>3, <2>4, <2>5, McsNextFrame
<1>7. QED
  BY <1>4, <1>5, <1>6 DEF McsInv, Kept

\* predecessor = exchange(&tail, node): the thread has the lock, or waits behind
\* the old tail.
LEMMA McsExchangeStep ==
  ASSUME McsInv, NEW t \in Threads, Nodes!Exchange(t)
  PROVE  McsInv'
<1>0. McsType /\ McsQueue /\ TSOType(McsWords, BufferSize)
  BY DEF McsInv, McsType
<1>1. PICK q : q = mem[McsTail]
  OBVIOUS
<1>2. PICK l : l = IF q = Nodes!Null THEN "own" ELSE "link"
  OBVIOUS
<1>3. /\ pc[t] = "swap" /\ pc' = [pc EXCEPT ![t] = l]
      /\ pred' = [pred EXCEPT ![t] = q] /\ Update(t, McsTail, t)
  BY <1>1, <1>2, NodesOperators DEF Nodes!Exchange, Nodes!Goto, McsTail
<1>4. /\ TSOType(McsWords, BufferSize)' /\ mem'[McsTail] = t
      /\ \A a \in McsWords \ {McsTail} : mem'[a] = mem[a]
      /\ \A a : ~ Late(t, a)
      /\ \A u, a : Kept(u, a)
  BY <1>0, <1>3, McsWordsDiffer, UpdateEffect
<1>5. /\ \A s \in Threads : /\ mem'[LockedOf(s)] = mem[LockedOf(s)]
                            /\ mem'[NextOf(s)] = mem[NextOf(s)]
      /\ mem[LockedOf(t)] = 1 /\ mem[NextOf(t)] = Nodes!Null
  <2>1. Read(t, LockedOf(t)) = 1 /\ Read(t, NextOf(t)) = Nodes!Null
    BY <1>3 DEF McsInv, McsLocked, McsNext
  <2>2. QED
    BY <1>4, <2>1, McsWordsDiffer, ReadEffect
<1>6. /\ McsType' /\ pc'[t] = l /\ l \in {"own", "link"}
      /\ \A u \in Threads : u # t => pc'[u] = pc[u]
  BY <1>0, <1>1, <1>2, <1>3, <1>4 DEF McsType, McsLabels
<1>7. \A u \in Threads : u # t => /\ McsOwner(u)' <=> McsOwner(u)
                                  /\ (u \in Behind)' <=> u \in Behind
                                  /\ (Waits(u) \/ Holds(u))' <=> Waits(u) \/ Holds(u)
                                  /\ Waits(u)' <=> Waits(u)
                                  /\ pred'[u] = pred[u] \/ u \notin Behind
  <2> SUFFICES ASSUME NEW u \in Threads, u # t
               PROVE  /\ McsOwner(u)' <=> McsOwner(u)
                      /\ (u \in Behind)' <=> u \in Behind
                      /\ (Waits(u) \/ Holds(u))' <=> Waits(u) \/ Holds(u)
                      /\ Waits(u)' <=> Waits(u)
                      /\ pred'[u] = pred[u] \/ u \notin Behind
    OBVIOUS
  <2>1. Given(u)' <=> Given(u)
    BY <1>4, <1>5, <1>6, GivenFrame
  <2>2. pred'[u] = pred[u]
    BY <1>3
  <2>3. QED
    BY <1>6, <2>1, <2>2 DEF McsOwner, Behind, Waits, Holds
<1>8. /\ ~ McsOwner(t) /\ t \notin Behind /\ q # t
      /\ \A s \in Behind : pred[s] # t
  BY <1>1, <1>3, McsOutside
<1>9. McsQueue' /\ \A s \in Behind : s \in Behind' /\ s # t
  <2>1. CASE q = Nodes!Null
    <3>1. Behind = {} /\ (\A u \in Threads : ~ McsOwner(u)) /\ l = "own"
      BY <1>0, <1>1, <1>2, <2>1 DEF McsQueue
    <3>2. McsOwner(t)' /\ ~ Waits(t)'
      BY <1>6, <3>1 DEF McsOwner, Holds, Waits
    <3>3. Behind' = {} /\ \A u \in Threads : McsOwner(u)' <=> u = t
      BY <1>7, <3>1, <3>2 DEF Behind
    <3>4. t # Nodes!Null
      BY NodesAssumption
    <3>5. QED
      BY <1>4, <3>1, <3>3, <3>4 DEF McsQueue
  <2>2. CASE q # Nodes!Null
    <3>1. l = "link" /\ q \in Threads /\ (q \in Behind \/ McsOwner(q))
      BY <1>0, <1>1, <1>2, <2>2 DEF McsQueue, McsType
    <3>2. ~ McsOwner(t)' /\ Waits(t)' /\ ~ Given(t)'
      BY <1>6, <3>1 DEF McsOwner, Holds, Waits, Given
    <3>3. Behind' = Behind \cup {t}
      BY <1>7, <3>2 DEF Behind
    <3>4. \A u \in Threads : McsOwner(u)' <=> McsOwner(u)
      BY <1>7, <1>8, <3>2
    <3>5. pred'[t] = q /\ \A s \in Behind : pred'[s] = pred[s]
      BY <1>0, <1>3, <1>8 DEF McsType
    <3>6. \A s \in Behind' : (pred[s] \in Threads /\ (pred[s] \in Behind \/ McsOwner(pred[s])))'
      <4>1. \A u \in Threads : u \in Behind \/ McsOwner(u) => u \in Behind' \/ McsOwner(u)'
        BY <3>3, <3>4
      <4>2. \A s \in Behind : pred[s] \in Threads /\ (pred[s] \in Behind \/ McsOwner(pred[s]))
        BY <1>0 DEF McsQueue
      <4>3. QED
        BY <3>1, <3>3, <3>5, <4>1, <4>2
    <3>7. \A s, u \in Behind' : pred'[s] = pred'[u] => s = u
      BY <1>0, <1>1, <3>3, <3>5 DEF McsQueue
    <3>8. \A s \in Behind' : pred'[s] # mem'[McsTail]
      BY <1>4, <1>8, <3>3, <3>5
    <3>9. ASSUME NEW S \in SUBSET Behind', S # {}
          PROVE  \E s \in S : pred'[s] \notin S
      <4>1. CASE S \subseteq {t}
        BY <1>8, <3>5, <3>9, <4>1
      <4>2. CASE ~ (S \subseteq {t})
        <5>1. PICK s \in S \ {t} : pred[s] \notin S \ {t}
          <6>1. S \ {t} \in SUBSET Behind /\ S \ {t} # {}
            BY <3>3, <4>2
          <6>2. QED
            BY <1>0, <6>1 DEF McsQueue
        <5>2. pred'[s] = pred[s] /\ pred[s] # t
          BY <1>8, <3>3, <3>5, <5>1
        <5>3. QED
          BY <5>1, <5>2
      <4>3. QED
        BY <4>1, <4>2
    <3>10. t # Nodes!Null
      BY NodesAssumption
    <3>11. \A u, v \in Threads : McsOwner(u)' /\ McsOwner(v)' => u = v
      BY <1>0, <3>4 DEF McsQueue
    <3>12. QED
      BY <1>4, <1>8, <3>3, <3>6, <3>7, <3>8, <3>9, <3>10, <3>11 DEF McsQueue
  <2>3. QED
    BY <2>1, <2>2
<1>10. ASSUME NEW s \in Threads
       PROVE  McsLocked(s)'
  <2>1. McsLocked(s)
    BY DEF McsInv
  <2>2. Waits(s)' => ~ Late(s, LockedOf(s))
    BY <1>4, <1>7, <2>1 DEF McsLocked
  <2>3. pc'[s] = "link" => mem[LockedOf(s)] # 0
    BY <1>5, <1>6, <2>1 DEF McsLocked
  <2>4. \A u \in Threads \ {s} :
          Late(u, LockedOf(s)) => pc'[u] \in {"begin", "set", "swap", "done"}
    BY <1>4, <1>6, <2>1 DEF McsLocked
  <2>5. /\ pc[s] \in {"wait", "pause"} => pc'[s] \in {"wait", "pause"}
        /\ pc'[s] = "swap" => pc[s] = "swap"
    BY <1>3, <1>6
  <2>6. QED
    BY <1>4, <1>5, <2>1, <2>2, <2>3, <2>4, <2>5, McsLockedFrame
<1>11. ASSUME NEW r \in Threads
       PROVE  McsNext(r)'
  <2>1. McsNext(r)
    BY DEF McsInv
  <2>2. \A s \in Threads : McsLink(s, r) => McsLink(s, r)'
    BY <1>6, <1>7, <1>9 DEF McsLink
  <2>3. (Waits(r) \/ Holds(r))' =>
          Waits(r) \/ Holds(r) \/ (~ Late(r, NextOf(r)) /\ mem[NextOf(r)] = Nodes!Null)
    BY <1>4, <1>5, <1>7
  <2>4. /\ pc'[r] \in {"set", "swap"} => pc[r] \in {"set", "swap"}
        /\ Late(r, NextOf(r)) => pc'[r] \in {"set", "swap"}
        /\ pc'[r] = "handoff" => mem[NextOf(r)] # Nodes!Null
    BY <1>4, <1>6, <2>1 DEF McsNext
  <2>5. QED
    BY <1>4, <1>5, <2>1, <2>2, <2>3, <2>4, McsNextFrame
<1>12. QED
  BY <1>4, <1>6, <1>9, <1>10, <1>11 DEF McsInv, Kept

\* A thread that is queued behind another one, and that other one.
LEMMA McsPredecessor ==
  ASSUME McsInv, NEW t \in Behind
  PROVE  /\ t \in Threads /\ pred[t] \in Threads /\ pred[t] # t
         /\ Waits(pred[t]) \/ Holds(pred[t])
<1>1. /\ t \in Threads /\ pred[t] \in Threads
      /\ pred[t] \in Behind \/ McsOwner(pred[t])
  BY DEF McsInv, McsQueue, Behind
<1>2. Waits(pred[t]) \/ Holds(pred[t])
  BY <1>1 DEF Behind, McsOwner, Given, Waits
<1>3. {t} \in SUBSET Behind /\ {t} # {}
  OBVIOUS
<1>4. pred[t] # t
  BY <1>3 DEF McsInv, McsQueue
<1>5. QED
  BY <1>1, <1>2, <1>4

\* predecessor->next = node
LEMMA McsLinkStep ==
  ASSUME McsInv, NEW t \in Threads, Nodes!Link(t)
  PROVE  McsInv'
<1>0. McsType /\ McsQueue /\ TSOType(McsWords, BufferSize) /\ McsLocked(t)
  BY DEF McsInv, McsType
<1>1. PICK q : q = pred[t]
  OBVIOUS
<1>2. /\ pc[t] = "link" /\ pc' = [pc EXCEPT ![t] = "wait"] /\ pred' = pred
      /\ Write(t, NextOf(q), t)
  BY <1>1, NodesOperators DEF Nodes!Link, Nodes!Goto, NextOf
<1>3. /\ t \in Behind /\ mem[LockedOf(t)] # 0
      /\ \A u \in Threads \ {t} : ~ Late(u, LockedOf(t))
  BY <1>0, <1>2 DEF Behind, Waits, Given, McsLocked
<1>4. q \in Threads /\ q # t /\ (Waits(q) \/ Holds(q)) /\ McsNext(q)
  BY <1>1, <1>3, McsPredecessor DEF McsInv
<1>5. \A s \in Threads : ~ McsLink(s, q)
  BY <1>0, <1>1, <1>2, <1>3 DEF McsLink, McsQueue
<1>6. mem[NextOf(q)] = Nodes!Null /\ \A u \in Threads : ~ Late(u, NextOf(q))
  BY <1>4, <1>5 DEF McsNext
<1>7. NextOf(q) \in McsWords
  BY <1>4, McsWordsDiffer
<1>8. /\ TSOType(McsWords, BufferSize)'
      /\ \A a \in McsWords \ {NextOf(q)} : mem'[a] = mem[a]
      /\ \A u \in Threads : \A a : u # t \/ a # NextOf(q) => Kept(u, a)
      /\ Read(t, NextOf(q))' = t /\ Once(t, NextOf(q))'
      /\ \/ Late(t, NextOf(q))' /\ mem'[NextOf(q)] = mem[NextOf(q)]
         \/ ~ Late(t, NextOf(q))' /\ mem'[NextOf(q)] = t
  BY <1>0, <1>2, <1>6, <1>7, WriteEffect
<1>9. /\ mem'[McsTail] = mem[McsTail] /\ \A u \in Threads : Kept(u, McsTail)
      /\ \A s \in Threads : /\ mem'[LockedOf(s)] = mem[LockedOf(s)]
                            /\ \A u \in Threads : Kept(u, LockedOf(s))
      /\ \A s \in Threads : s # q => /\ mem'[NextOf(s)] = mem[NextOf(s)]
                                     /\ \A u \in Threads : Kept(u, NextOf(s))
  BY <1>4, <1>8, McsWordsDiffer
<1>10. /\ McsType' /\ pc'[t] = "wait" /\ \A u \in Threads : u # t => pc'[u] = pc[u]
  BY <1>0, <1>2, <1>8, <1>9 DEF McsType, McsLabels
<1>11. ASSUME NEW u \in Threads
       PROVE  /\ McsOwner(u)' <=> McsOwner(u)
              /\ (u \in Behind)' <=> u \in Behind
              /\ Waits(u)' <=> Waits(u)
              /\ (Waits(u) \/ Holds(u))' <=> Waits(u) \/ Holds(u)
  <2>1. Given(u)' <=> Given(u)
    <3>1. CASE u = t
      <4>1. ~ Given(t) /\ ~ Given(t)'
        BY <1>2, <1>3, <1>9 DEF Given, Kept
      <4>2. QED
        BY <3>1, <4>1
    <3>2. CASE u # t
      BY <1>9, <1>10, <3>2, GivenFrame
    <3>3. QED
      BY <3>1, <3>2
  <2>2. (Waits(u)' <=> Waits(u)) /\ (Holds(u)' <=> Holds(u))
    BY <1>2, <1>10 DEF Waits, Holds
  <2>3. QED
    BY <2>1, <2>2 DEF McsOwner, Behind
<1>12. Behind' = Behind
  BY <1>11 DEF Behind
<1>13. McsQueue'
  BY <1>0, <1>2, <1>9, <1>11, <1>12, McsQueueFrame
<1>14. ASSUME NEW s \in Threads
       PROVE  McsLocked(s)'
  <2>1. McsLocked(s)
    BY DEF McsInv
  <2>2. /\ Waits(s)' => ~ Late(s, LockedOf(s))
        /\ pc'[s] = "link" => mem[LockedOf(s)] # 0
        /\ pc'[s] = "swap" => pc[s] = "swap"
        /\ \A u \in Threads \ {s} :
             Late(u, LockedOf(s)) => pc'[u] \in {"begin", "set", "swap", "done"}
        /\ pc[s] \in {"wait", "pause"} => pc'[s] \in {"wait", "pause"}
    BY <1>2, <1>10, <1>11, <2>1 DEF McsLocked
  <2>3. QED
    BY <1>9, <2>1, <2>2, McsLockedFrame
<1>15. \A r \in Threads : \A s \in Threads : McsLink(s, r) => McsLink(s, r)'
  BY <1>2, <1>10, <1>12 DEF McsLink
<1>16. ASSUME NEW r \in Threads, r # q
       PROVE  McsNext(r)'
  <2>1. McsNext(r)
    BY DEF McsInv
  <2>2. /\ pc'[r] \in {"set", "swap"} <=> pc[r] \in {"set", "swap"}
        /\ pc'[r] = "handoff" => pc[r] = "handoff"
    BY <1>2, <1>10
  <2>3. /\ pc'[r] = "handoff" => mem[NextOf(r)] # Nodes!Null
        /\ Late(r, NextOf(r)) => pc'[r] \in {"set", "swap"}
    BY <2>1, <2>2 DEF McsNext
  <2>4. QED
    BY <1>9, <1>11, <1>15, <1>16, <2>1, <2>2, <2>3, McsNextFrame
<1>17. McsNext(q)'
  <2>1. McsLink(t, q)'
    BY <1>1, <1>2, <1>3, <1>10, <1>12 DEF McsLink
  <2>2. pc'[q] = pc[q] /\ pc[q] \notin {"set", "swap"} /\ pc[q] # "handoff"
    BY <1>4, <1>6, <1>10 DEF Waits, Holds, McsNext
  <2>3. t # Nodes!Null
    BY NodesAssumption
  <2>4. \A u \in Threads : u # t => ~ Late(u, NextOf(q))'
    BY <1>6, <1>8 DEF Kept
  <2>5. QED
    BY <1>4, <1>6, <1>8, <2>1, <2>2, <2>3, <2>4 DEF McsNext
<1>18. \A u \in Threads : ~ Late(u, McsTail)'
  BY <1>9 DEF McsInv, Kept
<1>19. QED
  BY <1>10, <1>13, <1>14, <1>16, <1>17, <1>18 DEF McsInv

\* node->next = NULL, node->locked = 1 and node->locked = 0: a thread writes into
\* its own node.
LEMMA McsOwnStore ==
  ASSUME McsInv, NEW t \in Threads, NEW a \in {LockedOf(t), NextOf(t)}, NEW v, NEW l,
         pc' = [pc EXCEPT ![t] = l], pred' = pred, Write(t, a, v),
         \/ pc[t] = "begin" /\ l = "set" /\ a = NextOf(t) /\ v = Nodes!Null
         \/ pc[t] = "set" /\ l = "swap" /\ a = LockedOf(t) /\ v = 1
         \/ pc[t] = "own" /\ l = "load" /\ a = LockedOf(t)
  PROVE  McsInv'
<1>0. McsType /\ McsQueue /\ TSOType(McsWords, BufferSize) /\ McsLocked(t) /\ McsNext(t)
  BY DEF McsInv, McsType
<1>1. /\ TSOType(McsWords, BufferSize)'
      /\ \A b \in McsWords \ {a} : mem'[b] = mem[b]
      /\ \A u \in Threads : \A b : u # t \/ b # a => Kept(u, b)
      /\ Read(t, a)' = v
      /\ ~ Late(t, a) => Once(t, a)'
  <2>1. a \in McsWords
    BY McsWordsDiffer
  <2>2. QED
    BY <1>0, <2>1, WriteEffect
<1>2. /\ mem'[McsTail] = mem[McsTail] /\ \A u \in Threads : Kept(u, McsTail)
      /\ \A s \in Threads : s # t \/ a = NextOf(t) =>
           mem'[LockedOf(s)] = mem[LockedOf(s)] /\ \A u \in Threads : Kept(u, LockedOf(s))
      /\ \A s \in Threads : s # t \/ a = LockedOf(t) =>
           mem'[NextOf(s)] = mem[NextOf(s)] /\ \A u \in Threads : Kept(u, NextOf(s))
  BY <1>1, McsWordsDiffer
<1>3. /\ McsType' /\ pc'[t] = l /\ l \in {"set", "swap", "load"}
      /\ \A u \in Threads : u # t => pc'[u] = pc[u]
  BY <1>0, <1>1, <1>2 DEF McsType, McsLabels
<1>4. ASSUME NEW u \in Threads
      PROVE  /\ McsOwner(u)' <=> McsOwner(u)
             /\ (u \in Behind)' <=> u \in Behind
             /\ Waits(u)' <=> Waits(u)
             /\ (Waits(u) \/ Holds(u))' <=> Waits(u) \/ Holds(u)
  <2>1. Given(u)' <=> Given(u)
    <3>1. CASE u = t
      BY <1>3, <3>1 DEF Given
    <3>2. CASE u # t
      BY <1>2, <1>3, <3>2, GivenFrame
    <3>3. QED
      BY <3>1, <3>2
  <2>2. (Waits(u)' <=> Waits(u)) /\ (Holds(u)' <=> Holds(u))
    BY <1>3 DEF Waits, Holds
  <2>3. QED
    BY <2>1, <2>2 DEF McsOwner, Behind
<1>5. Behind' = Behind
  BY <1>4 DEF Behind
<1>6. McsQueue'
  BY <1>0, <1>2, <1>4, <1>5, McsQueueFrame
<1>7. ASSUME NEW s \in Threads
      PROVE  McsLocked(s)'
  <2>1. McsLocked(s)
    BY DEF McsInv
  <2>2. CASE s = t /\ a = LockedOf(t)
    <3>1. \A u \in Threads \ {t} : ~ Late(u, LockedOf(t))'
      BY <1>0, <1>1 DEF McsLocked, Kept
    <3>2. ~ Waits(t)'
      BY <1>3 DEF Waits
    <3>3. pc'[t] = "swap" => Read(t, LockedOf(t))' = 1
      BY <1>1, <1>3, <2>2, McsWordsDiffer
    <3>4. QED
      BY <1>3, <2>2, <3>1, <3>2, <3>3 DEF McsLocked
  <2>3. CASE ~ (s = t /\ a = LockedOf(t))
    <3>1. /\ Waits(s)' => ~ Late(s, LockedOf(s))
          /\ pc'[s] = "link" => mem[LockedOf(s)] # 0
          /\ pc'[s] = "swap" => pc[s] = "swap"
          /\ \A u \in Threads \ {s} :
               Late(u, LockedOf(s)) => pc'[u] \in {"begin", "set", "swap", "done"}
          /\ pc[s] \in {"wait", "pause"} => pc'[s] \in {"wait", "pause"}
      BY <1>3, <1>4, <2>1, <2>3 DEF McsLocked
    <3>2. QED
      BY <1>2, <2>1, <2>3, <3>1, McsLockedFrame
  <2>4. QED
    BY <2>2, <2>3
<1>8. \A r \in Threads : \A s \in Threads : McsLink(s, r) <=> McsLink(s, r)'
  BY <1>3, <1>5 DEF McsLink
<1>9. ASSUME NEW r \in Threads
      PROVE  McsNext(r)'
  <2>1. McsNext(r)
    BY DEF McsInv
  <2>2. CASE r = t /\ a = NextOf(t)
    <3>1. /\ pc[t] = "begin" /\ l = "set" /\ v = Nodes!Null /\ ~ Late(t, a)
      BY <1>0, <2>2, McsWordsDiffer DEF McsNext
    <3>2. \A u \in Threads \ {t} : ~ Late(u, NextOf(t))'
      BY <1>1, <3>1, McsOutside DEF Kept
    <3>3. ~ (Waits(t) \/ Holds(t))'
      BY <1>3, <3>1 DEF Waits, Holds
    <3>4. QED
      BY <1>1, <1>3, <2>2, <3>1, <3>2, <3>3 DEF McsNext
  <2>3. CASE ~ (r = t /\ a = NextOf(t))
    <3>1. /\ pc'[r] \in {"set", "swap"} <=> pc[r] \in {"set", "swap"}
          /\ pc'[r] = "handoff" => pc[r] = "handoff"
      BY <1>3, <2>3
    <3>2. /\ pc'[r] = "handoff" => mem[NextOf(r)] # Nodes!Null
          /\ Late(r, NextOf(r)) => pc'[r] \in {"set", "swap"}
      BY <2>1, <3>1 DEF McsNext
    <3>3. QED
      BY <1>2, <1>4, <1>8, <2>1, <2>3, <3>1, <3>2, McsNextFrame
  <2>4. QED
    BY <2>2, <2>3
<1>10. \A u \in Threads : ~ Late(u, McsTail)'
  BY <1>2 DEF McsInv, Kept
<1>11. QED
  BY <1>3, <1>6, <1>7, <1>9, <1>10 DEF McsInv

\* node->next->locked = 0: the thread gives the lock to the one behind it.
LEMMA McsHandoffStep ==
  ASSUME McsInv, NEW t \in Threads, Nodes!Handoff(t)
  PROVE  McsInv'
<1>0. McsType /\ McsQueue /\ TSOType(McsWords, BufferSize) /\ McsNext(t)
  BY DEF McsInv, McsType
<1>1. pc[t] = "handoff" /\ Holds(t) /\ McsOwner(t) /\ ~ Waits(t)
  BY DEF Nodes!Handoff, Holds, McsOwner, Waits
<1>2. PICK s \in Threads : mem[NextOf(t)] = s /\ McsLink(s, t)
  BY <1>0, <1>1 DEF McsNext
<1>3. Read(t, NextOf(t)) = s
  BY <1>0, <1>1, <1>2, ReadEffect DEF McsNext
<1>4. /\ pred' = pred /\ Write(t, LockedOf(s), 0)
      /\ \E l \in {"begin", "done"} : pc' = [pc EXCEPT ![t] = l]
  <2>1. Nodes!NextOf(t) = NextOf(t) /\ Nodes!Locked(s) = LockedOf(s)
    BY DEF NextOf, LockedOf
  <2>2. Nodes!Read(t, Nodes!NextOf(t)) = s
    BY <1>3, <2>1, NodesOperators
  <2>3. pred' = pred /\ Nodes!Write(t, Nodes!Locked(s), 0)
    BY <2>2 DEF Nodes!Handoff
  <2>4. \E l \in {"begin", "done"} : pc' = [pc EXCEPT ![t] = l]
    BY DEF Nodes!Handoff, Nodes!EndIteration, Nodes!After, Nodes!Goto
  <2>5. QED
    BY <2>1, <2>3, <2>4, NodesOperators
<1>5. /\ s \in Behind /\ pred[s] = t /\ pc[s] \in {"wait", "pause"} /\ s # t
      /\ mem[LockedOf(s)] # 0 /\ \A u \in Threads : ~ Late(u, LockedOf(s))
  <2>1. s \in Behind /\ pred[s] = t /\ pc[s] \in {"wait", "pause"} /\ Waits(s) /\ ~ Given(s)
    BY <1>2 DEF McsLink, Behind
  <2>2. ~ Late(s, LockedOf(s))
    BY <2>1 DEF McsInv, McsLocked
  <2>3. QED
    BY <1>1, <2>1, <2>2 DEF Given
<1>6. LockedOf(s) \in McsWords
  BY McsWordsDiffer
<1>7. /\ TSOType(McsWords, BufferSize)'
      /\ \A a \in McsWords \ {LockedOf(s)} : mem'[a] = mem[a]
      /\ \A u \in Threads : \A a : u # t \/ a # LockedOf(s) => Kept(u, a)
      /\ Read(t, LockedOf(s))' = 0 /\ Once(t, LockedOf(s))'
      /\ \/ Late(t, LockedOf(s))' /\ mem'[LockedOf(s)] = mem[LockedOf(s)]
         \/ ~ Late(t, LockedOf(s))' /\ mem'[LockedOf(s)] = 0
  BY <1>0, <1>4, <1>5, <1>6, WriteEffect
<1>8. /\ mem'[McsTail] = mem[McsTail] /\ \A u \in Threads : Kept(u, McsTail)
      /\ \A r \in Threads : r # s => /\ mem'[LockedOf(r)] = mem[LockedOf(r)]
                                     /\ \A u \in Threads : Kept(u, LockedOf(r))
      /\ \A r \in Threads : /\ mem'[NextOf(r)] = mem[NextOf(r)]
                            /\ \A u \in Threads : Kept(u, NextOf(r))
  BY <1>7, McsWordsDiffer
<1>9. /\ McsType' /\ pc'[t] \in {"begin", "done"} /\ \A u \in Threads : u # t => pc'[u] = pc[u]
  BY <1>0, <1>4, <1>7, <1>8 DEF McsType, McsLabels
<1>10. Given(s)' /\ ~ Waits(t)' /\ ~ Holds(t)' /\ ~ Given(t)'
  BY <1>5, <1>7, <1>9 DEF Given, Waits, Holds
<1>11. \A u \in Threads : u \notin {s, t} => (Given(u)' <=> Given(u))
  <2> SUFFICES ASSUME NEW u \in Threads, u \notin {s, t}
               PROVE  Given(u)' <=> Given(u)
    OBVIOUS
  <2>1. QED
    BY <1>8, <1>9, GivenFrame
<1>12. \A u \in Threads : /\ Waits(u)' <=> Waits(u)
                          /\ (Waits(u) \/ Holds(u))' => Waits(u) \/ Holds(u)
                          /\ u # t => (Holds(u)' <=> Holds(u))
  BY <1>1, <1>9, <1>10 DEF Waits, Holds
<1>13. \A u \in Threads : McsOwner(u)' <=> u = s
  <2>1. \A u \in Threads : McsOwner(u) => u = t
    BY <1>0, <1>1 DEF McsQueue
  <2>2. QED
    BY <1>5, <1>10, <1>11, <1>12, <2>1 DEF McsOwner
<1>14. Behind' = Behind \ {s}
  BY <1>1, <1>10, <1>11, <1>12 DEF Behind
<1>15. McsQueue'
  <2>1. \A r \in Behind : pred[r] # s => pred[r] \in Behind' \/ r = s
    BY <1>0, <1>1, <1>5, <1>14 DEF McsQueue
  <2>2. \A r \in Behind' : (pred[r] \in Threads /\ (pred[r] \in Behind \/ McsOwner(pred[r])))'
    <3>1. \A r \in Behind : pred[r] \in Threads
      BY <1>0 DEF McsQueue
    <3>2. QED
      BY <1>4, <1>13, <1>14, <2>1, <3>1
  <2>3. \A r, u \in Behind' : pred'[r] = pred'[u] => r = u
    BY <1>0, <1>4, <1>14 DEF McsQueue
  <2>4. \A r \in Behind' : pred'[r] # mem'[McsTail]
    BY <1>0, <1>4, <1>8, <1>14 DEF McsQueue
  <2>5. \A S \in SUBSET Behind' : S # {} => \E r \in S : pred'[r] \notin S
    BY <1>0, <1>4, <1>14 DEF McsQueue
  <2>6. mem[McsTail] # t /\ mem[McsTail] # Nodes!Null
    BY <1>0, <1>5 DEF McsQueue
  <2>7. mem[McsTail] \in Threads => mem[McsTail] \in Behind \/ McsOwner(mem[McsTail])
    BY <1>0 DEF McsQueue
  <2>8. \A u \in Threads : McsOwner(u) => u = t
    BY <1>0, <1>1 DEF McsQueue
  <2>9. (mem[McsTail] \in Threads => mem[McsTail] \in Behind \/ McsOwner(mem[McsTail]))'
    BY <1>8, <1>13, <1>14, <2>6, <2>7, <2>8
  <2>10. \A u, v \in Threads : McsOwner(u)' /\ McsOwner(v)' => u = v
    BY <1>13
  <2>11. QED
    BY <1>8, <2>2, <2>3, <2>4, <2>5, <2>6, <2>9, <2>10 DEF McsQueue
<1>16. ASSUME NEW r \in Threads
       PROVE  McsLocked(r)'
  <2>1. McsLocked(r)
    BY DEF McsInv
  <2>2. CASE r = s
    <3>1. \A u \in Threads : Late(u, LockedOf(s))' => u = t
      BY <1>5, <1>7 DEF Kept
    <3>2. pc'[s] = pc[s]
      BY <1>5, <1>9
    <3>3. QED
      BY <1>5, <1>7, <1>9, <2>2, <3>1, <3>2 DEF McsLocked
  <2>3. CASE r # s
    <3>1. \A u \in Threads \ {r} :
            Late(u, LockedOf(r)) => pc'[u] \in {"begin", "set", "swap", "done"}
      BY <1>9, <2>1 DEF McsLocked
    <3>2. /\ Waits(r)' => ~ Late(r, LockedOf(r))
          /\ pc'[r] = "link" => mem[LockedOf(r)] # 0
          /\ pc'[r] = "swap" => pc[r] = "swap"
          /\ pc[r] \in {"wait", "pause"} => pc'[r] \in {"wait", "pause"}
      BY <1>1, <1>9, <1>12, <2>1 DEF McsLocked
    <3>3. QED
      BY <1>8, <2>1, <2>3, <3>1, <3>2, McsLockedFrame
  <2>4. QED
    BY <2>2, <2>3
<1>17. ASSUME NEW r \in Threads
       PROVE  McsNext(r)'
  <2>1. McsNext(r)
    BY DEF McsInv
  <2>2. CASE r = t
    <3>1. \A u \in Threads : ~ Late(u, NextOf(t))
      <4> SUFFICES ASSUME NEW u \in Threads, Late(u, NextOf(t))
                   PROVE  FALSE
        OBVIOUS
      <4>1. u # t /\ mem[NextOf(t)] = Nodes!Null
        BY <1>0, <1>1 DEF McsNext
      <4>2. QED
        BY <1>2, <4>1, NodesAssumption
    <3>2. \A u \in Threads : ~ Late(u, NextOf(t))'
      BY <1>8, <3>1 DEF Kept
    <3>3. QED
      BY <1>9, <1>10, <2>2, <3>2 DEF McsNext
  <2>3. CASE r # t
    <3>1. \A u \in Threads : McsLink(u, r) => McsLink(u, r)'
      BY <1>1, <1>4, <1>5, <1>9, <1>14, <2>3 DEF McsLink
    <3>2. /\ pc'[r] \in {"set", "swap"} => pc[r] \in {"set", "swap"}
          /\ Late(r, NextOf(r)) => pc'[r] \in {"set", "swap"}
          /\ pc'[r] = "handoff" => mem[NextOf(r)] # Nodes!Null
      BY <1>9, <2>1, <2>3 DEF McsNext
    <3>3. QED
      BY <1>8, <1>12, <2>1, <3>1, <3>2, McsNextFrame
  <2>4. QED
    BY <2>2, <2>3
<1>18. \A u \in Threads : ~ Late(u, McsTail)'
  BY <1>8 DEF McsInv, Kept
<1>19. QED
  BY <1>9, <1>15, <1>16, <1>17, <1>18 DEF McsInv

\* compare_exchange(&tail, &last, NULL) that succeeds: nobody is queued behind.
LEMMA McsClearStep ==
  ASSUME McsInv, NEW t \in Threads, pc[t] = "cas", mem[McsTail] = t,
         Update(t, McsTail, Nodes!Null), pred' = pred,
         NEW l \in {"begin", "done"}, pc' = [pc EXCEPT ![t] = l]
  PROVE  McsInv'
<1>0. McsType /\ McsQueue /\ TSOType(McsWords, BufferSize) /\ McsNext(t)
  BY DEF McsInv, McsType
<1>1. /\ TSOType(McsWords, BufferSize)' /\ mem'[McsTail] = Nodes!Null
      /\ \A a \in McsWords \ {McsTail} : mem'[a] = mem[a]
      /\ \A a : ~ Late(t, a)
      /\ \A u, a : Kept(u, a)
  BY <1>0, McsWordsDiffer, UpdateEffect
<1>2. \A s \in Threads : /\ mem'[LockedOf(s)] = mem[LockedOf(s)]
                         /\ mem'[NextOf(s)] = mem[NextOf(s)]
  BY <1>1, McsWordsDiffer
<1>3. McsType' /\ pc'[t] = l /\ \A u \in Threads : u # t => pc'[u] = pc[u]
  BY <1>0, <1>1 DEF McsType, McsLabels
<1>4. Holds(t) /\ McsOwner(t) /\ \A u \in Threads : McsOwner(u) => u = t
  BY <1>0 DEF Holds, McsOwner, McsQueue
<1>5. Behind = {}
  <2> SUFFICES ASSUME Behind # {}
               PROVE  FALSE
    OBVIOUS
  <2>1. PICK r \in Behind : pred[r] \notin Behind
    BY <1>0 DEF McsQueue
  <2>2. pred[r] = t
    BY <1>0, <1>4, <2>1 DEF McsQueue
  <2>3. QED
    BY <1>0, <2>2 DEF McsQueue
<1>6. ASSUME NEW u \in Threads
      PROVE  /\ ~ McsOwner(u)' /\ u \notin Behind'
             /\ Waits(u)' => Waits(u)
             /\ (Waits(u) \/ Holds(u))' => Waits(u) \/ Holds(u)
  <2>1. CASE u = t
    BY <1>3, <2>1 DEF McsOwner, Behind, Waits, Holds, Given
  <2>2. CASE u # t
    <3>1. Given(u)' <=> Given(u)
      BY <1>1, <1>2, <1>3, <2>2, GivenFrame
    <3>2. ~ McsOwner(u) /\ u \notin Behind
      BY <1>4, <1>5, <2>2
    <3>3. QED
      BY <1>3, <2>2, <3>1, <3>2 DEF McsOwner, Behind, Waits, Holds
  <2>3. QED
    BY <2>1, <2>2
<1>7. Behind' = {} /\ Nodes!Null \notin Threads
  BY <1>6, NodesAssumption DEF Behind
<1>8. McsQueue'
  BY <1>1, <1>6, <1>7 DEF McsQueue
<1>9. ASSUME NEW s \in Threads
      PROVE  McsLocked(s)'
  <2>1. McsLocked(s)
    BY DEF McsInv
  <2>2. /\ Waits(s)' => ~ Late(s, LockedOf(s))
        /\ pc'[s] = "link" => mem[LockedOf(s)] # 0
        /\ pc'[s] = "swap" => pc[s] = "swap"
        /\ \A u \in Threads \ {s} :
             Late(u, LockedOf(s)) => pc'[u] \in {"begin", "set", "swap", "done"}
        /\ pc[s] \in {"wait", "pause"} => pc'[s] \in {"wait", "pause"}
    BY <1>1, <1>3, <1>6, <2>1 DEF McsLocked
  <2>3. QED
    BY <1>1, <1>2, <2>1, <2>2, McsLockedFrame
<1>10. ASSUME NEW r \in Threads
       PROVE  McsNext(r)'
  <2>1. McsNext(r) /\ \A s \in Threads : ~ McsLink(s, r)
    BY <1>5 DEF McsInv, McsLink
  <2>2. /\ pc'[r] \in {"set", "swap"} => pc[r] \in {"set", "swap"}
        /\ Late(r, NextOf(r)) => pc'[r] \in {"set", "swap"}
        /\ pc'[r] = "handoff" => mem[NextOf(r)] # Nodes!Null
    BY <1>1, <1>3, <2>1 DEF McsNext
  <2>3. QED
    BY <1>1, <1>2, <1>6, <2>1, <2>2, McsNextFrame
<1>11. \A u \in Threads : ~ Late(u, McsTail)'
  BY <1>1 DEF McsInv, Kept
<1>12. QED
  BY <1>3, <1>8, <1>9, <1>10, <1>11 DEF McsInv

\* Every step of the MCS lock keeps its invariant.
LEMMA McsStep ==
  ASSUME McsInv, NEW t \in Threads, Nodes!McsStep(t) \/ Nodes!Yield(t) \/ Nodes!Count(t)
  PROVE  McsInv'
<1>0. /\ McsType /\ TSOType(McsWords, BufferSize)
      /\ McsLocked(t) /\ McsNext(t)
  BY DEF McsInv, McsType
<1> USE DEF Nodes!Goto
\* A step that leaves the memory alone.
<1>1. ASSUME NEW l \in McsLabels, pc' = [pc EXCEPT ![t] = l], pred' = pred,
             UNCHANGED memvars,
             \/ l = pc[t]
             \/ pc[t] \in {"wait", "pause"} /\ l \in {"wait", "pause"}
             \/ pc[t] = "wait" /\ l = "own" /\ mem[LockedOf(t)] = 0
             \/ /\ Holds(t) /\ l \in {"load", "store", "unlock", "cas", "linked", "handoff"}
                /\ l = "handoff" => mem[NextOf(t)] # Nodes!Null
      PROVE  McsInv'
  <2>1. TSOType(McsWords, BufferSize)' /\ mem' = mem /\ \A u, a : Kept(u, a)
    BY <1>0, <1>1, NoEffect
  <2>2. McsType'
    BY <1>0, <1>1, <2>1 DEF McsType
  <2>3. QED
    BY <1>1, <2>1, <2>2, McsFrame
<1>2. CASE Nodes!Yield(t)
  BY <1>1, <1>2 DEF Nodes!Yield, Nodes!memvars, memvars, McsLabels
<1>3. CASE Nodes!Count(t)
  <2>1. CASE Nodes!Load(t)
    BY <1>1, <1>3, <2>1 DEF Nodes!Count, Nodes!Load, memvars, Holds, McsLabels
  <2>2. CASE Nodes!Store(t)
    <3>1. /\ pc[t] = "store" /\ pc' = [pc EXCEPT ![t] = "unlock"]
          /\ pred' = pred /\ Write(t, Counter, reg[t] + 1)
      BY <1>3, <2>2, NodesOperators DEF Nodes!Count, Nodes!Store
    <3>2. /\ TSOType(McsWords, BufferSize)'
          /\ \A a \in McsWords \ {Counter} : mem'[a] = mem[a]
          /\ \A u \in Threads : \A a \in McsWords \ {Counter} : Kept(u, a)
      BY <1>0, <3>1, McsWordsDiffer, WriteEffect
    <3>3. /\ \A s \in Threads : /\ mem'[LockedOf(s)] = mem[LockedOf(s)]
                                /\ mem'[NextOf(s)] = mem[NextOf(s)]
          /\ \A u, s \in Threads : /\ Kept(u, LockedOf(s)) /\ Kept(u, NextOf(s))
                                   /\ Kept(u, McsTail)
          /\ mem'[McsTail] = mem[McsTail]
      BY <3>2, McsWordsDiffer
    <3>4. McsType' /\ Holds(t)
      BY <1>0, <3>1, <3>2, <3>3 DEF McsType, Holds, McsLabels
    <3>5. QED
      BY <3>1, <3>3, <3>4, McsFrame
  <2>3. QED
    BY <1>3, <2>1, <2>2 DEF Nodes!Count
<1>4. CASE Nodes!ClearNext(t)
  <2>1. /\ pc[t] = "begin" /\ pc' = [pc EXCEPT ![t] = "set"] /\ pred' = pred
        /\ Write(t, NextOf(t), Nodes!Null)
    BY <1>4, NodesOperators DEF Nodes!ClearNext, NextOf
  <2>2. QED
    BY <2>1, McsOwnStore
<1>5. CASE Nodes!SetLocked(t)
  <2>1. /\ pc[t] = "set" /\ pc' = [pc EXCEPT ![t] = "swap"] /\ pred' = pred
        /\ Write(t, LockedOf(t), 1)
    BY <1>5, NodesOperators DEF Nodes!SetLocked, LockedOf
  <2>2. QED
    BY <2>1, McsOwnStore
<1>6. CASE Nodes!Exchange(t)
  BY <1>6, McsExchangeStep
<1>7. CASE Nodes!Link(t)
  BY <1>7, McsLinkStep
<1>8. CASE Nodes!AwaitLocked(t)
  <2>1. /\ pc[t] = "wait" /\ UNCHANGED memvars /\ pred' = pred
        /\ \E l \in {"own", "wait", "pause"} :
             /\ pc' = [pc EXCEPT ![t] = l]
             /\ l = "own" => Read(t, LockedOf(t)) = 0
    BY <1>8, NodesOperators DEF Nodes!AwaitLocked, Nodes!memvars, memvars, LockedOf
  <2>2. Read(t, LockedOf(t)) = mem[LockedOf(t)]
    BY <1>0, <2>1, ReadEffect DEF McsLocked, Waits
  <2>3. QED
    BY <1>1, <2>1, <2>2 DEF McsLabels
<1>9. CASE Nodes!Own(t)
  <2>1. /\ pc[t] = "own" /\ pc' = [pc EXCEPT ![t] = "load"] /\ pred' = pred
        /\ Write(t, LockedOf(t), 0)
    BY <1>9, NodesOperators DEF Nodes!Own, LockedOf
  <2>2. QED
    BY <2>1, McsOwnStore
<1>10. ASSUME Holds(t)
       PROVE  Read(t, NextOf(t)) = mem[NextOf(t)]
  BY <1>0, <1>10, ReadEffect DEF McsNext
<1>11. CASE Nodes!TestNext(t)
  <2>1. /\ pc[t] = "unlock" /\ UNCHANGED memvars /\ pred' = pred
        /\ \E l \in {"cas", "handoff"} :
             /\ pc' = [pc EXCEPT ![t] = l]
             /\ l = "handoff" => Read(t, NextOf(t)) # Nodes!Null
    BY <1>11, NodesOperators DEF Nodes!TestNext, Nodes!memvars, memvars, NextOf
  <2>2. QED
    BY <1>1, <1>10, <2>1 DEF Holds, McsLabels
<1>12. CASE Nodes!ClearTail(t)
  <2>1. CASE mem[Nodes!TailWord] = t
    <3>1. /\ pc[t] = "cas" /\ mem[McsTail] = t /\ Update(t, McsTail, Nodes!Null)
          /\ pred' = pred /\ \E l \in {"begin", "done"} : pc' = [pc EXCEPT ![t] = l]
      BY <1>12, <2>1, NodesOperators
      DEF Nodes!ClearTail, Nodes!EndIteration, Nodes!After, McsTail
    <3>2. QED
      BY <3>1, McsClearStep
  <2>2. CASE mem[Nodes!TailWord] # t
    <3>1. /\ pc[t] = "cas" /\ UNCHANGED memvars /\ pred' = pred
          /\ pc' = [pc EXCEPT ![t] = "linked"]
      BY <1>12, <2>2 DEF Nodes!ClearTail, Nodes!memvars, memvars
    <3>2. QED
      BY <1>1, <3>1 DEF Holds, McsLabels
  <2>3. QED
    BY <2>1, <2>2
<1>13. CASE Nodes!AwaitNext(t)
  <2>1. /\ pc[t] = "linked" /\ UNCHANGED memvars /\ pred' = pred
        /\ \E l \in {"linked", "handoff"} :
             /\ pc' = [pc EXCEPT ![t] = l]
             /\ l = "handoff" => Read(t, NextOf(t)) # Nodes!Null
    BY <1>13, NodesOperators DEF Nodes!AwaitNext, Nodes!memvars, memvars, NextOf
  <2>2. QED
    BY <1>1, <1>10, <2>1 DEF Holds, McsLabels
<1>14. CASE Nodes!Handoff(t)
  BY <1>14, McsHandoffStep
<1>15. QED
  BY <1>2, <1>3, <1>4, <1>5, <1>6, <1>7, <1>8, <1>9, <1>11, <1>12, <1>13, <1>14
  DEF Nodes!McsStep

\* A store held back reaches memory: into the own node of the thread, the link to
\* its successor, or the lock given to a thread that waits.
LEMMA McsDrain ==
  ASSUME McsInv, NEW t \in Threads, Drain(t), UNCHANGED pred
  PROVE  McsInv'
<1>0. McsType /\ McsQueue /\ TSOType(McsWords, BufferSize)
  BY DEF McsInv, McsType
<1>1. Flush(t) /\ pc' = pc
  BY DEF Drain, loopvars
<1>2. /\ TSOType(McsWords, BufferSize)'
      /\ \A u \in Threads : \A a : u # t => Kept(u, a)
      /\ \A a \in McsWords :
           /\ Once(t, a) => Once(t, a)'
           /\ Read(t, a)' = Read(t, a)
           /\ Late(t, a)' => Late(t, a)
           /\ \/ mem'[a] = mem[a] /\ (Late(t, a)' <=> Late(t, a))
              \/ /\ Late(t, a)
                 /\ Once(t, a) => ~ Late(t, a)' /\ mem'[a] = Read(t, a)
  BY <1>0, <1>1, FlushEffect
<1>3. mem'[McsTail] = mem[McsTail] /\ \A u \in Threads : ~ Late(u, McsTail)'
  BY <1>2, McsWordsDiffer DEF McsInv, Kept
<1>4. McsType'
  BY <1>0, <1>1, <1>2, <1>3 DEF McsType
<1>5. \A u \in Threads : (Waits(u)' <=> Waits(u)) /\ (Holds(u)' <=> Holds(u))
  BY <1>1 DEF Waits, Holds
\* The word locked of one thread.
<1>6. ASSUME NEW s \in Threads
      PROVE  /\ McsLocked(s)'
             /\ Given(s)' <=> Given(s)
  <2>1. McsLocked(s) /\ LockedOf(s) \in McsWords
    BY McsWordsDiffer DEF McsInv
  <2>2. CASE mem'[LockedOf(s)] = mem[LockedOf(s)] /\
             (Late(t, LockedOf(s))' <=> Late(t, LockedOf(s)))
    <3>1. \A u \in Threads : /\ Late(u, LockedOf(s))' <=> Late(u, LockedOf(s))
                             /\ Once(u, LockedOf(s)) => Once(u, LockedOf(s))'
                             /\ Read(u, LockedOf(s))' = Read(u, LockedOf(s))
      BY <1>2, <2>1, <2>2 DEF Kept
    <3>2. QED
      BY <1>1, <1>5, <2>1, <2>2, <3>1 DEF McsLocked, Given
  <2>3. CASE Late(t, LockedOf(s)) /\ (Once(t, LockedOf(s)) =>
               ~ Late(t, LockedOf(s))' /\ mem'[LockedOf(s)] = Read(t, LockedOf(s)))
    <3>1. CASE s = t
      <4>1. ~ Waits(t) /\ pc[t] \notin {"link", "wait", "pause"}
        BY <2>1, <2>3, <3>1 DEF McsLocked, Waits
      <4>2. \A u \in Threads \ {t} : ~ Late(u, LockedOf(t))'
        BY <1>2, <2>1, <3>1, <4>1 DEF McsLocked, Kept
      <4>3. Read(t, LockedOf(t))' = Read(t, LockedOf(t))
        BY <1>2, <2>1, <3>1
      <4>4. QED
        BY <1>1, <1>5, <2>1, <3>1, <4>1, <4>2, <4>3 DEF McsLocked, Given
    <3>2. CASE s # t
      <4>1. /\ pc[s] \in {"wait", "pause"} /\ ~ Late(s, LockedOf(s))
            /\ ~ Late(t, LockedOf(s))' /\ mem'[LockedOf(s)] = 0
            /\ \A u \in Threads \ {s} : Late(u, LockedOf(s)) => u = t
        BY <2>1, <2>3, <3>2 DEF McsLocked, Waits
      <4>2. \A u \in Threads : ~ Late(u, LockedOf(s))'
        BY <1>2, <3>2, <4>1 DEF Kept
      <4>3. QED
        BY <1>1, <2>3, <3>2, <4>1, <4>2 DEF McsLocked, Given
    <3>3. QED
      BY <3>1, <3>2
  <2>4. QED
    BY <1>2, <2>1, <2>2, <2>3
<1>7. Behind' = Behind /\ \A u \in Threads : McsOwner(u)' <=> McsOwner(u)
  BY <1>5, <1>6 DEF Behind, McsOwner
<1>8. McsQueue'
  BY <1>0, <1>3, <1>7, McsQueueFrame
<1>9. \A s, r \in Threads : McsLink(s, r)' <=> McsLink(s, r)
  BY <1>1, <1>7 DEF McsLink
\* The word next of one thread.
<1>10. ASSUME NEW r \in Threads
       PROVE  McsNext(r)'
  <2>1. McsNext(r) /\ NextOf(r) \in McsWords
    BY McsWordsDiffer DEF McsInv
  <2>2. CASE mem'[NextOf(r)] = mem[NextOf(r)] /\
             (Late(t, NextOf(r))' <=> Late(t, NextOf(r)))
    <3>1. \A u \in Threads : /\ Late(u, NextOf(r))' <=> Late(u, NextOf(r))
                             /\ Once(u, NextOf(r)) => Once(u, NextOf(r))'
                             /\ Read(u, NextOf(r))' = Read(u, NextOf(r))
      BY <1>2, <2>1, <2>2 DEF Kept
    <3>2. QED
      BY <1>1, <1>5, <1>9, <2>1, <2>2, <3>1 DEF McsNext
  <2>3. CASE Late(t, NextOf(r)) /\ (Once(t, NextOf(r)) =>
               ~ Late(t, NextOf(r))' /\ mem'[NextOf(r)] = Read(t, NextOf(r)))
    <3>1. CASE r = t
      <4>1. /\ pc[t] \in {"set", "swap"} /\ ~ Waits(t) /\ ~ Holds(t)
            /\ ~ Late(t, NextOf(t))' /\ pc[t] # "handoff"
        BY <2>1, <2>3, <3>1 DEF McsNext, Waits, Holds
      <4>2. \A u \in Threads : ~ Late(u, NextOf(t))'
        BY <1>2, <4>1, McsOutside DEF Kept
      <4>3. Read(t, NextOf(t))' = Read(t, NextOf(t))
        BY <1>2, <2>1, <3>1
      <4>4. QED
        BY <1>1, <1>5, <2>1, <3>1, <4>1, <4>2, <4>3 DEF McsNext
    <3>2. CASE r # t
      <4>1. /\ McsLink(t, r) /\ mem[NextOf(r)] = Nodes!Null
            /\ ~ Late(t, NextOf(r))' /\ mem'[NextOf(r)] = t
        BY <2>1, <2>3, <3>2 DEF McsNext
      <4>2. t \in Behind /\ pred[t] = r
        BY <4>1 DEF McsLink
      <4>3. /\ Waits(r) \/ Holds(r)
            /\ ~ Late(r, NextOf(r)) /\ pc[r] \notin {"set", "swap"}
        BY <2>1, <4>2, McsPredecessor DEF McsNext, Waits, Holds
      <4>4. \A u \in Threads : ~ Late(u, NextOf(r))'
        <5> SUFFICES ASSUME NEW u \in Threads, Late(u, NextOf(r))'
                     PROVE  FALSE
          OBVIOUS
        <5>1. u # t /\ Late(u, NextOf(r)) /\ u # r
          BY <1>2, <3>2, <4>1, <4>3 DEF Kept
        <5>2. McsLink(u, r)
          BY <2>1, <5>1 DEF McsNext
        <5>3. QED
          BY <1>0, <4>2, <5>1, <5>2 DEF McsQueue, McsLink
      <4>5. t # Nodes!Null /\ McsLink(t, r)'
        BY <1>9, <4>1, NodesAssumption
      <4>6. QED
        BY <1>1, <1>5, <4>1, <4>3, <4>4, <4>5 DEF McsNext
    <3>3. QED
      BY <3>1, <3>2
  <2>4. QED
    BY <1>2, <2>1, <2>2, <2>3
<1>11. QED
  BY <1>3, <1>4, <1>6, <1>8, <1>10 DEF McsInv

\* A step that changes nothing keeps the invariant.
LEMMA McsStutter ==
  ASSUME McsInv, UNCHANGED <<pc, memvars, pred>>
  PROVE  McsInv'
<1>1. TSOType(McsWords, BufferSize)' /\ mem' = mem /\ \A u, a : Kept(u, a)
  BY NoEffect DEF McsInv, McsType
<1>2. McsType'
  BY <1>1 DEF McsInv, McsType
<1>3. CASE \E t \in Threads : TRUE
  <2>1. PICK t \in Threads : pc' = [pc EXCEPT ![t] = pc[t]]
    BY <1>3 DEF McsInv, McsType
  <2>2. QED
    BY <1>1, <1>2, <2>1, McsFrame
<1>4. CASE Threads = {}
  BY <1>1, <1>2, <1>4 DEF McsInv, McsQueue, Behind, memvars
<1>5. QED
  BY <1>3, <1>4

\* The lock has one owner, and stores to a node are those of its round.
LEMMA McsSafe ==
  ASSUME McsInv
  PROVE  /\ \A s, t \in Threads : InCS(s) /\ InCS(t) => s = t
         /\ Nodes!NoStrayStore
<1>1. \A s, t \in Threads : InCS(s) /\ InCS(t) => s = t
  BY DEF McsInv, McsQueue, McsOwner, Holds, InCS
<1>2. ASSUME NEW s \in Threads, NEW t \in Threads, s # t
      PROVE  /\ Late(t, NextOf(s)) => Waits(s) \/ Holds(s)
             /\ Late(t, LockedOf(s)) => pc[s] \in {"wait", "pause"}
  <2>1. Late(t, NextOf(s)) => t \in Behind /\ pred[t] = s
    BY <1>2 DEF McsInv, McsNext, McsLink
  <2>2. QED
    BY <1>2, <2>1, McsPredecessor DEF McsInv, McsLocked
<1>3. \A t, a : \A w \in Nodes!Buffered(t) : a \in DOMAIN w => Late(t, a)
  BY DEF Nodes!Buffered, Late, Pending
<1>4. QED
  BY <1>1, <1>2, <1>3
  DEF Nodes!NoStrayStore, Nodes!InLock, Nodes!InUnlock, Waits, Holds, NextOf, LockedOf

-----------------------------------------------------------------------------
(* The elided locks *)

Guard == Htm!Guard
HtmWords == {Guard} \cup {Htm!Cell(i) : i \in 0 .. 1} \cup {Htm!Version(i) : i \in 0 .. 1}
HtmLabels == {"begin", "test", "failed", "lock", "again", "load", "store", "unlock",
              "tload", "tstore", "xend", "stm_load", "stm_commit", "leave", "done"}

HtmType == /\ TSOType(HtmWords, 1) /\ pc \in [Threads -> HtmLabels]
           /\ htm = [t \in Threads |-> htm[t]]

InTx(t) == pc[t] \in {"tload", "tstore", "xend"}
InStm(t) == pc[t] \in {"stm_load", "stm_commit", "leave"}

\* The processor's record of a hardware transaction.
IsTx(h) ==
  h = [tx |-> [on |-> h.tx.on, elided |-> h.tx.elided, rset |-> h.tx.rset,
               wset |-> h.tx.wset],
       tries |-> h.tries, snap |-> h.snap]

\* A transaction that goes on has the mutex among the words it watches, and never
\* writes it.
TxOf(t) == /\ IsTx(htm[t])
           /\ htm[t].tx.on = (InTx(t) \/ pc[t] = "test")
           /\ InTx(t) => Guard \in htm[t].tx.rset
           /\ Guard \notin DOMAIN htm[t].tx.wset

\* t has the mutex, or has left and its store of 0 is still in its buffer.
GuardOwner(t) == InCS(t) \/ Late(t, Guard)

\* The programs with a mutex: the owner is alone with a transaction of its own.
MutexHeld ==
  /\ \A t \in Threads : /\ ~ InStm(t)
                        /\ Once(t, Guard)
                        /\ Late(t, Guard) => Read(t, Guard) = 0 /\ ~ InCS(t)
                        /\ GuardOwner(t) => mem[Guard] # 0
  /\ \A s, t \in Threads : GuardOwner(s) /\ GuardOwner(t) => s = t
  /\ \A s, t \in Threads : GuardOwner(s) /\ InTx(t) => s = t

\* The fallback to TinySTM: the word counts the threads in TinySTM.
StmCounted ==
  /\ \A t \in Threads : ~ GuardOwner(t)
  /\ mem[Guard] = Cardinality({t \in Threads : InStm(t)})
  /\ \A s, t \in Threads : InStm(s) => ~ InTx(t)

ElisionInv == /\ HtmType /\ \A t \in Threads : TxOf(t)
              /\ IF prog.lock = "stm" THEN StmCounted ELSE MutexHeld

\* The copies of the operators of TSO and TSOCountLoop in Elision, whose processors
\* hold one store back.
LEMMA HtmOperators ==
  /\ \A t, a : Htm!Read(t, a) = Read(t, a)
  /\ \A t : Htm!Drained(t) <=> Drained(t)
  /\ \A t : Htm!Flush(t) <=> Flush(t)
  /\ \A t, a, v : Htm!Write(t, a, v) => HoldsBack(t, [x \in {a} |-> v], 1)
  /\ \A m : Htm!MemInit(m) <=> MemInit(m)
  /\ \A m, w : Htm!Stored(m, w) = Stored(m, w)
  /\ \A as : Htm!Seen(as) = {}
BY DEF Htm!Read, Read, Htm!Pending, Pending, Htm!Drained, Drained, Htm!Flush, Flush,
       Htm!Write, Htm!WriteAll, HoldsBack, Htm!Stored, Stored, Htm!MemInit, MemInit,
       Htm!Seen

\* The mutex is none of the words of the counter.
LEMMA GuardIsApart ==
  /\ Guard \in HtmWords
  /\ \A i : Htm!Cell(i) # Guard /\ Htm!Version(i) # Guard
BY DEF Guard, Htm!Guard, HtmWords, Htm!Cell, Htm!Version

\* A record of a transaction that has ended.
LEMMA NoTxEffect ==
  /\ Htm!NoTx.on = FALSE /\ Htm!NoTx.rset = {} /\ DOMAIN Htm!NoTx.wset = {}
  /\ Htm!NoTx = [on |-> FALSE, elided |-> FALSE, rset |-> {}, wset |-> <<>>]
  /\ \A h : IsTx(h) => /\ IsTx(Htm!Abort(h))
                       /\ Htm!Abort(h).tx = Htm!NoTx
<1>1. Htm!NoTx = [on |-> FALSE, elided |-> FALSE, rset |-> {}, wset |-> <<>>]
  BY DEF Htm!NoTx
<1>2. DOMAIN <<>> = {}
  OBVIOUS
<1>3. Htm!NoTx.on = FALSE /\ Htm!NoTx.rset = {} /\ Htm!NoTx.wset = <<>>
  BY <1>1
<1>4. ASSUME NEW h, IsTx(h)
      PROVE  IsTx(Htm!Abort(h)) /\ Htm!Abort(h).tx = Htm!NoTx
  <2>1. PICK x, y, z : h = [tx |-> x, tries |-> y, snap |-> z]
    BY <1>4 DEF IsTx
  <2>2. Htm!Abort(h) = [tx |-> Htm!NoTx, tries |-> y, snap |-> z]
    BY <2>1 DEF Htm!Abort
  <2>3. PICK g : g = Htm!Abort(h)
    OBVIOUS
  <2>4. g.tx = Htm!NoTx /\ g.tries = y /\ g.snap = z
    BY <2>2, <2>3
  <2>5. Htm!NoTx = [on |-> g.tx.on, elided |-> g.tx.elided, rset |-> g.tx.rset,
                    wset |-> g.tx.wset]
    BY <1>1, <2>4
  <2>6. g = [tx |-> Htm!NoTx, tries |-> g.tries, snap |-> g.snap]
    BY <2>2, <2>3, <2>4
  <2>7. IsTx(g)
    BY <2>5, <2>6 DEF IsTx
  <2>8. QED
    BY <2>3, <2>4, <2>7
<1>5. QED
  BY <1>1, <1>2, <1>3, <1>4

\* t goes on at l with record h, the transactions it hits are
\* aborted, and the others go on.
Reaches(t, as, write, l, h) ==
  /\ pc' \in [Threads -> HtmLabels] /\ htm' = [u \in Threads |-> htm'[u]]
  /\ pc'[t] = l /\ htm'[t] = h
  /\ \A u \in Threads \ {t} :
       /\ TxOf(u)'
       /\ \/ pc'[u] = pc[u]
          \/ pc'[u] \in {"again", "failed"} /\ (InTx(u) \/ pc[u] = "test")
       /\ InTx(u) /\ Guard \in as /\ write => ~ InTx(u)'

\* That is what an access of t to the words in as does.
LEMMA AccessEffect ==
  ASSUME HtmType, \A u \in Threads : TxOf(u),
         NEW t \in Threads, NEW as, NEW write \in BOOLEAN, NEW l \in HtmLabels, NEW h,
         NEW r, Htm!Access(t, as, write, l, h, r)
  PROVE  Reaches(t, as, write, l, h)
<1> DEFINE hit == Htm!Hit(t, as, write)
           failed(u) == IF htm[u].tx.elided THEN "again" ELSE "failed"
<1>1. /\ pc' = [u \in Threads |-> IF u = t THEN l
                                  ELSE IF u \in hit THEN failed(u) ELSE pc[u]]
      /\ htm' = [u \in Threads |-> IF u = t THEN h
                                   ELSE IF u \in hit THEN Htm!Abort(htm[u]) ELSE htm[u]]
  BY DEF Htm!Access
<1>2. \A u \in hit : u # t /\ htm[u].tx.on /\ failed(u) \in {"again", "failed"}
  BY DEF Htm!Hit
<1>3. \A u \in Threads \ {t} :
        htm[u].tx.on /\ Guard \in htm[u].tx.rset /\ Guard \in as /\ write => u \in hit
  BY DEF Htm!Hit
<1> HIDE DEF hit, failed
<1>4. /\ pc' \in [Threads -> HtmLabels] /\ htm' = [u \in Threads |-> htm'[u]]
      /\ pc'[t] = l /\ htm'[t] = h
  BY <1>1, <1>2 DEF HtmType, HtmLabels
<1>5. ASSUME NEW u \in Threads \ {t}
      PROVE  /\ TxOf(u)'
             /\ \/ pc'[u] = pc[u]
                \/ pc'[u] \in {"again", "failed"} /\ (InTx(u) \/ pc[u] = "test")
             /\ InTx(u) /\ Guard \in as /\ write => ~ InTx(u)'
  <2>1. TxOf(u)
    OBVIOUS
  <2>2. CASE u \in hit
    <3>1. /\ pc'[u] \in {"again", "failed"} /\ htm'[u] = Htm!Abort(htm[u])
          /\ htm[u].tx.on
      BY <1>1, <1>2, <2>2
    <3>2. IsTx(htm'[u]) /\ htm'[u].tx = Htm!NoTx
      BY <2>1, <3>1, NoTxEffect DEF TxOf
    <3>3. ~ InTx(u)' /\ pc'[u] # "test"
      BY <3>1 DEF InTx
    <3>4. TxOf(u)'
      BY <3>2, <3>3, NoTxEffect DEF TxOf
    <3>5. QED
      BY <2>1, <3>1, <3>3, <3>4 DEF TxOf
  <2>3. CASE u \notin hit
    <3>1. pc'[u] = pc[u] /\ htm'[u] = htm[u]
      BY <1>1, <2>3
    <3>2. TxOf(u)'
      BY <2>1, <3>1 DEF TxOf, InTx
    <3>3. InTx(u) => ~ (Guard \in as /\ write)
      BY <1>3, <2>1, <2>3 DEF TxOf
    <3>4. QED
      BY <3>1, <3>2, <3>3
  <2>4. QED
    BY <2>2, <2>3
<1>6. QED
  BY <1>4, <1>5 DEF Reaches

\* The program has not started.
LEMMA ElisionInit == Htm!Init => ElisionInv
<1> SUFFICES ASSUME Htm!Init
             PROVE  ElisionInv
  OBVIOUS
<1> DEFINE m == [a \in HtmWords |-> 0]
<1>1. MemInit(m) /\ m = [a \in HtmWords |-> m[a]] /\ m[Guard] = 0
  BY HtmOperators, GuardIsApart DEF Htm!Init, HtmWords, Guard
<1> HIDE DEF m
<1>2. /\ TSOType(HtmWords, 1) /\ mem = m /\ mem[Guard] = 0
      /\ \A t \in Threads : \A a : ~ Late(t, a) /\ Once(t, a)
  BY <1>1, InitEffect
<1>3. pc = [t \in Threads |-> "begin"]
  BY DEF Htm!Init, Htm!LoopInit
<1>4. \A t \in Threads : pc[t] = "begin" /\ ~ InTx(t) /\ ~ InStm(t) /\ ~ InCS(t)
  BY <1>3 DEF InTx, InStm, InCS
<1>5. ASSUME NEW t \in Threads
      PROVE  TxOf(t)
  <2>1. htm[t] = [tx |-> Htm!NoTx, tries |-> 0, snap |-> 0]
    BY DEF Htm!Init
  <2>2. htm[t].tx = Htm!NoTx /\ htm[t].tries = 0 /\ htm[t].snap = 0
    BY <2>1
  <2>3. IsTx(htm[t])
    <3>1. Htm!NoTx = [on |-> htm[t].tx.on, elided |-> htm[t].tx.elided,
                      rset |-> htm[t].tx.rset, wset |-> htm[t].tx.wset]
      BY <2>2, NoTxEffect
    <3>2. QED
      BY <2>1, <2>2, <3>1 DEF IsTx
  <2>4. QED
    BY <1>4, <2>2, <2>3, NoTxEffect DEF TxOf
<1>6. MutexHeld
  BY <1>2, <1>4 DEF MutexHeld, GuardOwner
<1>7. StmCounted
  <2>1. {t \in Threads : InStm(t)} = {} /\ Cardinality({}) = 0
    BY <1>4, FS_EmptySet
  <2>2. QED
    BY <1>2, <1>4, <2>1 DEF StmCounted, GuardOwner
<1>8. htm = [t \in Threads |-> htm[t]]
  BY DEF Htm!Init
<1>9. QED
  BY <1>2, <1>3, <1>5, <1>6, <1>7, <1>8 DEF ElisionInv, HtmType, HtmLabels

\* A step of t that leaves the mutex alone: nobody gets or leaves it, and t is in a
\* transaction only if it was or if nobody has the mutex.
LEMMA ElisionFrame ==
  ASSUME ElisionInv, NEW t \in Threads, prog' = prog, TSOType(HtmWords, 1)',
         pc' \in [Threads -> HtmLabels], htm' = [u \in Threads |-> htm'[u]],
         mem'[Guard] = mem[Guard],
         \A u \in Threads : Kept(u, Guard) /\ TxOf(u)',
         \A u \in Threads \ {t} :
           \/ pc'[u] = pc[u]
           \/ pc'[u] \in {"again", "failed"} /\ (InTx(u) \/ pc[u] = "test"),
         (InCS(t)' <=> InCS(t)) /\ (InStm(t)' <=> InStm(t)),
         InTx(t)' => \/ InTx(t)
                     \/ \A u \in Threads : GuardOwner(u) \/ InStm(u) => u = t
  PROVE  ElisionInv'
<1>1. \A u \in Threads : /\ InCS(u)' <=> InCS(u)
                         /\ InStm(u)' <=> InStm(u)
                         /\ u # t /\ InTx(u)' => InTx(u)
  BY DEF InCS, InStm, InTx
<1>2. \A u \in Threads : GuardOwner(u)' <=> GuardOwner(u)
  BY <1>1 DEF GuardOwner, Kept
<1>3. HtmType'
  BY DEF HtmType
<1>4. ASSUME prog.lock = "stm", StmCounted
      PROVE  StmCounted'
  <2>1. \A s \in Threads : InStm(s) /\ InTx(s) => FALSE
    BY DEF InStm, InTx
  <2>2. \A s, u \in Threads : InStm(s)' => ~ InTx(u)'
    <3>1. ASSUME NEW s \in Threads, NEW u \in Threads, InStm(s)', InTx(u)'
          PROVE  FALSE
      <4>1. InStm(s) /\ ~ InTx(u)
        BY <1>1, <1>4, <3>1 DEF StmCounted
      <4>2. u = t /\ s = t
        BY <1>1, <3>1, <4>1
      <4>3. QED
        BY <3>1, <4>2 DEF InStm, InTx
    <3>2. QED
      BY <3>1
  <2>3. {u \in Threads : InStm(u)}' = {u \in Threads : InStm(u)}
    BY <1>1
  <2>4. QED
    BY <1>2, <1>4, <2>2, <2>3 DEF StmCounted
<1>5. ASSUME prog.lock # "stm", MutexHeld
      PROVE  MutexHeld'
  <2>1. \A u \in Threads : /\ Late(u, Guard)' <=> Late(u, Guard)
                           /\ Once(u, Guard)' <=> Once(u, Guard)
                           /\ Read(u, Guard)' = Read(u, Guard)
    BY DEF Kept
  <2>2. \A s, u \in Threads : GuardOwner(s)' /\ InTx(u)' => s = u
    BY <1>1, <1>2, <1>5 DEF MutexHeld
  <2>3. QED
    BY <1>1, <1>2, <1>5, <2>1, <2>2 DEF MutexHeld
<1>6. QED
  BY <1>3, <1>4, <1>5 DEF ElisionInv

\* A thread that reads 0 in the mutex finds nobody in, save its own late release.
LEMMA GuardIsFree ==
  ASSUME ElisionInv, NEW t \in Threads, Read(t, Guard) = 0, ~ InStm(t)
  PROVE  \A u \in Threads : GuardOwner(u) \/ InStm(u) => u = t
<1>1. CASE prog.lock = "stm"
  <2>1. StmCounted
    BY <1>1 DEF ElisionInv
  <2>2. mem[Guard] = 0
    BY <2>1, ReadEffect DEF StmCounted, GuardOwner
  <2>3. {u \in Threads : InStm(u)} \subseteq Threads
    OBVIOUS
  <2>4. {u \in Threads : InStm(u)} = {}
    BY <2>1, <2>2, <2>3, ThreadsAssumption, FS_Subset, FS_EmptySet DEF StmCounted
  <2>5. QED
    BY <2>1, <2>4 DEF StmCounted
<1>2. CASE prog.lock # "stm"
  <2>1. MutexHeld
    BY <1>2 DEF ElisionInv
  <2>2. CASE Late(t, Guard)
    BY <2>1, <2>2 DEF MutexHeld, GuardOwner
  <2>3. CASE ~ Late(t, Guard)
    BY <2>1, <2>3, ReadEffect DEF MutexHeld
  <2>4. QED
    BY <2>2, <2>3
<1>3. QED
  BY <1>1, <1>2

\* A step of one thread that touches no other.
LEMMA OwnStepEffect ==
  ASSUME HtmType, \A u \in Threads : TxOf(u), NEW t \in Threads, NEW l \in HtmLabels, NEW h,
         pc' = [pc EXCEPT ![t] = l], htm' = [htm EXCEPT ![t] = h]
  PROVE  /\ pc' \in [Threads -> HtmLabels] /\ htm' = [u \in Threads |-> htm'[u]]
         /\ pc'[t] = l /\ htm'[t] = h
         /\ \A u \in Threads \ {t} : TxOf(u)' /\ pc'[u] = pc[u]
<1>1. /\ pc' \in [Threads -> HtmLabels] /\ htm' = [u \in Threads |-> htm'[u]]
      /\ pc'[t] = l /\ htm'[t] = h
      /\ \A u \in Threads \ {t} : pc'[u] = pc[u] /\ htm'[u] = htm[u]
  BY DEF HtmType
<1>2. QED
  BY <1>1 DEF TxOf, InTx

TxLabels == {"tload", "tstore", "xend"}
StmLabels == {"stm_load", "stm_commit", "leave"}
CsLabels == {"load", "store", "unlock"}

\* A step of t to label l with record h that leaves the mutex alone.
LEMMA ElisionOwn ==
  ASSUME ElisionInv, NEW t \in Threads, prog' = prog, TSOType(HtmWords, 1)',
         mem'[Guard] = mem[Guard], \A u \in Threads : Kept(u, Guard),
         NEW l \in HtmLabels, NEW h, NEW as, NEW write \in BOOLEAN, NEW r,
         \/ Htm!Access(t, as, write, l, h, r)
         \/ pc' = [pc EXCEPT ![t] = l] /\ htm' = [htm EXCEPT ![t] = h],
         IsTx(h), h.tx.on = (l \in TxLabels \/ l = "test"),
         l \in TxLabels => Guard \in h.tx.rset, Guard \notin DOMAIN h.tx.wset,
         l \in CsLabels <=> InCS(t), l \in StmLabels <=> InStm(t),
         l \in TxLabels => InTx(t) \/ Read(t, Guard) = 0
  PROVE  ElisionInv'
<1>1. HtmType /\ \A u \in Threads : TxOf(u)
  BY DEF ElisionInv
<1>2. /\ pc' \in [Threads -> HtmLabels] /\ htm' = [u \in Threads |-> htm'[u]]
      /\ pc'[t] = l /\ htm'[t] = h
      /\ \A u \in Threads \ {t} :
           /\ TxOf(u)'
           /\ \/ pc'[u] = pc[u]
              \/ pc'[u] \in {"again", "failed"} /\ (InTx(u) \/ pc[u] = "test")
  <2>1. CASE Htm!Access(t, as, write, l, h, r)
    <3>1. Reaches(t, as, write, l, h)
      BY <1>1, <2>1, AccessEffect, Zenon
    <3>2. QED
      BY <3>1 DEF Reaches
  <2>2. CASE pc' = [pc EXCEPT ![t] = l] /\ htm' = [htm EXCEPT ![t] = h]
    BY <1>1, <2>2, OwnStepEffect
  <2>3. QED
    BY <2>1, <2>2
<1>3. /\ InTx(t)' <=> l \in TxLabels
      /\ InCS(t)' <=> l \in CsLabels
      /\ InStm(t)' <=> l \in StmLabels
  BY <1>2 DEF InTx, InCS, InStm, TxLabels, CsLabels, StmLabels
<1>4. TxOf(t)'
  BY <1>2, <1>3 DEF TxOf
<1>5. InTx(t)' => \/ InTx(t)
                  \/ \A u \in Threads : GuardOwner(u) \/ InStm(u) => u = t
  <2>1. l \in TxLabels => l \notin StmLabels
    BY DEF TxLabels, StmLabels
  <2>2. QED
    BY <1>3, <2>1, GuardIsFree
<1>6. QED
  BY <1>2, <1>3, <1>4, <1>5, ElisionFrame

\* Nothing happens to the mutex in a step without a store buffer that leaves it alone.
LEMMA MemoryEffect ==
  ASSUME HtmType, buf' = buf, mem' = [a \in HtmWords |-> mem'[a]], mem'[Guard] = mem[Guard]
  PROVE  TSOType(HtmWords, 1)' /\ \A u \in Threads : Kept(u, Guard)
BY BufferKept DEF HtmType, TSOType

\* What a step of t leaves of the others when it writes the mutex.
LEMMA GuardAccess ==
  ASSUME ElisionInv, NEW t \in Threads, NEW as, NEW l \in HtmLabels, NEW h, NEW r,
         Htm!Access(t, as, TRUE, l, h, r)
  PROVE  /\ pc' \in [Threads -> HtmLabels] /\ htm' = [u \in Threads |-> htm'[u]]
         /\ pc'[t] = l /\ htm'[t] = h
         /\ \A u \in Threads \ {t} :
              /\ TxOf(u)' /\ (InCS(u)' <=> InCS(u)) /\ (InStm(u)' <=> InStm(u))
              /\ InTx(u)' => InTx(u) /\ Guard \notin as
<1>1. HtmType /\ (\A u \in Threads : TxOf(u)) /\ TRUE \in BOOLEAN
  BY DEF ElisionInv
<1>2. Reaches(t, as, TRUE, l, h)
  BY <1>1, AccessEffect, Zenon
<1>3. \A u \in Threads \ {t} :
        /\ (InCS(u)' <=> InCS(u)) /\ (InStm(u)' <=> InStm(u))
        /\ InTx(u)' => InTx(u)
  BY <1>2 DEF Reaches, InCS, InStm, InTx
<1>4. QED
  BY <1>2, <1>3 DEF Reaches

\* The exchange: t gets the mutex if it was free, and transactions end.
LEMMA ElisionLock ==
  ASSUME ElisionInv, NEW t \in Threads, Htm!Lock(t)
  PROVE  ElisionInv'
<1>0. HtmType /\ TxOf(t) /\ TSOType(HtmWords, 1) /\ Guard \in HtmWords
  BY GuardIsApart DEF ElisionInv, HtmType
<1>1. /\ prog.lock # "stm" /\ prog' = prog /\ Drained(t) /\ buf' = buf
      /\ pc[t] \in {"lock", "again", "begin"} /\ mem' = [mem EXCEPT ![Guard] = 1]
  BY HtmOperators DEF Htm!Lock, Guard
<1>2. PICK l \in {"load", "lock"} :
        /\ Htm!Access(t, {Guard}, TRUE, l, htm[t], 0)
        /\ l = "load" <=> mem[Guard] = 0
  BY DEF Htm!Lock, Guard
<1>3. /\ pc' \in [Threads -> HtmLabels] /\ htm' = [u \in Threads |-> htm'[u]]
      /\ pc'[t] = l /\ htm'[t] = htm[t]
      /\ \A u \in Threads \ {t} :
           TxOf(u)' /\ (InCS(u)' <=> InCS(u)) /\ (InStm(u)' <=> InStm(u)) /\ ~ InTx(u)'
  <2>1. l \in HtmLabels
    BY DEF HtmLabels
  <2>2. /\ pc' \in [Threads -> HtmLabels] /\ htm' = [u \in Threads |-> htm'[u]]
        /\ pc'[t] = l /\ htm'[t] = htm[t]
        /\ \A u \in Threads \ {t} :
             /\ TxOf(u)' /\ (InCS(u)' <=> InCS(u)) /\ (InStm(u)' <=> InStm(u))
             /\ InTx(u)' => InTx(u) /\ Guard \notin {Guard}
    BY <1>2, <2>1, GuardAccess
  <2>3. QED
    BY <2>2
<1>4. /\ ~ InTx(t)' /\ ~ InStm(t)' /\ ~ InCS(t)
      /\ InCS(t)' <=> mem[Guard] = 0
  BY <1>1, <1>2, <1>3 DEF InTx, InStm, InCS
<1>5. TxOf(t)'
  BY <1>0, <1>1, <1>2, <1>3, <1>4 DEF TxOf, InTx
<1>6. /\ TSOType(HtmWords, 1)' /\ mem'[Guard] = 1
      /\ \A u \in Threads : \A a : Kept(u, a)
      /\ ~ Late(t, Guard)
  BY <1>0, <1>1, BufferKept, ReadEffect DEF TSOType
<1>7. MutexHeld
  BY <1>1 DEF ElisionInv
<1>8. \A u \in Threads : u # t => /\ GuardOwner(u)' <=> GuardOwner(u)
                                  /\ Late(u, Guard)' <=> Late(u, Guard)
                                  /\ Once(u, Guard)' <=> Once(u, Guard)
                                  /\ Late(u, Guard) => Read(u, Guard)' = Read(u, Guard)
  BY <1>3, <1>6 DEF GuardOwner, Kept
<1>9. ~ Late(t, Guard)' /\ Once(t, Guard)'
  BY <1>6, <1>7 DEF Kept, MutexHeld
<1>10. GuardOwner(t)' => \A u \in Threads : ~ GuardOwner(u)
  BY <1>4, <1>7, <1>9 DEF GuardOwner, MutexHeld
<1>11. MutexHeld'
  BY <1>3, <1>4, <1>6, <1>7, <1>8, <1>9, <1>10 DEF MutexHeld
<1>12. QED
  BY <1>1, <1>3, <1>5, <1>6, <1>11 DEF ElisionInv, HtmType

\* The store of 0 is held back.
LEMMA ElisionUnlock ==
  ASSUME ElisionInv, NEW t \in Threads, Htm!Unlock(t)
  PROVE  ElisionInv'
<1>0. HtmType /\ TxOf(t) /\ TSOType(HtmWords, 1) /\ Guard \in HtmWords
  BY GuardIsApart DEF ElisionInv, HtmType
<1>1. PICK l \in {"begin", "done"} : Htm!Access(t, {}, TRUE, l, htm[t], 0)
  <2>1. Htm!After(t) \in {"begin", "done"} /\ Htm!Access(t, {}, TRUE, Htm!After(t), htm[t], 0)
    BY HtmOperators DEF Htm!Unlock, Htm!After
  <2>2. QED
    BY <2>1
<1>2. /\ prog' = prog /\ pc[t] = "unlock" /\ InCS(t)
      /\ HoldsBack(t, [x \in {Guard} |-> 0], 1)
  BY HtmOperators DEF Htm!Unlock, Guard, InCS
<1>3. /\ pc' \in [Threads -> HtmLabels] /\ htm' = [u \in Threads |-> htm'[u]]
      /\ pc'[t] = l /\ htm'[t] = htm[t]
      /\ \A u \in Threads \ {t} :
           /\ TxOf(u)' /\ (InCS(u)' <=> InCS(u)) /\ (InStm(u)' <=> InStm(u))
           /\ InTx(u)' => InTx(u)
  <2>1. l \in HtmLabels
    BY DEF HtmLabels
  <2>2. QED
    BY <1>1, <2>1, GuardAccess
<1>4. ~ InTx(t)' /\ ~ InStm(t)' /\ ~ InCS(t)' /\ pc'[t] # "test"
  BY <1>3 DEF InTx, InStm, InCS
<1>5. TxOf(t)'
  BY <1>0, <1>2, <1>3, <1>4 DEF TxOf, InTx
<1>6. prog.lock # "stm" /\ MutexHeld
  BY <1>2 DEF ElisionInv, StmCounted, GuardOwner
<1>7. /\ TSOType(HtmWords, 1)' /\ mem' = mem
      /\ \A u \in Threads : u # t => Kept(u, Guard)
      /\ Read(t, Guard)' = 0 /\ Late(t, Guard)'
      /\ ~ Late(t, Guard) => Once(t, Guard)'
  <2>1. DOMAIN [x \in {Guard} |-> 0] = {Guard} /\ [x \in {Guard} |-> 0][Guard] = 0
    OBVIOUS
  <2>2. mem' = mem
    BY <1>2 DEF HoldsBack
  <2>3. QED
    BY <1>0, <1>2, <2>1, <2>2, HoldBackEffect
<1>8. Once(t, Guard)'
  BY <1>2, <1>6, <1>7 DEF MutexHeld
<1>9. \A u \in Threads : u # t => /\ GuardOwner(u)' <=> GuardOwner(u)
                                  /\ Late(u, Guard)' <=> Late(u, Guard)
                                  /\ Once(u, Guard)' <=> Once(u, Guard)
                                  /\ Read(u, Guard)' = Read(u, Guard)
  BY <1>3, <1>7 DEF GuardOwner, Kept
<1>10. GuardOwner(t) /\ GuardOwner(t)'
  BY <1>2, <1>7 DEF GuardOwner
<1>11. MutexHeld'
  BY <1>3, <1>4, <1>6, <1>7, <1>8, <1>9, <1>10 DEF MutexHeld
<1>12. QED
  BY <1>2, <1>3, <1>5, <1>6, <1>7, <1>11 DEF ElisionInv, HtmType

\* A thread enters TinySTM: transactions end.
LEMMA ElisionEnterStm ==
  ASSUME ElisionInv, NEW t \in Threads, Htm!EnterStm(t)
  PROVE  ElisionInv'
<1>0. HtmType /\ TxOf(t) /\ TSOType(HtmWords, 1) /\ Guard \in HtmWords
  BY GuardIsApart DEF ElisionInv, HtmType
<1>1. /\ prog.lock = "stm" /\ prog' = prog /\ pc[t] = "lock" /\ buf' = buf
      /\ mem' = [mem EXCEPT ![Guard] = @ + 1]
      /\ Htm!Access(t, {Guard}, TRUE, "stm_load", htm[t], 0)
  BY DEF Htm!EnterStm, Guard
<1>2. /\ pc' \in [Threads -> HtmLabels] /\ htm' = [u \in Threads |-> htm'[u]]
      /\ pc'[t] = "stm_load" /\ htm'[t] = htm[t]
      /\ \A u \in Threads \ {t} :
           TxOf(u)' /\ (InCS(u)' <=> InCS(u)) /\ (InStm(u)' <=> InStm(u)) /\ ~ InTx(u)'
  <2>1. "stm_load" \in HtmLabels
    BY DEF HtmLabels
  <2>2. /\ pc' \in [Threads -> HtmLabels] /\ htm' = [u \in Threads |-> htm'[u]]
        /\ pc'[t] = "stm_load" /\ htm'[t] = htm[t]
        /\ \A u \in Threads \ {t} :
             /\ TxOf(u)' /\ (InCS(u)' <=> InCS(u)) /\ (InStm(u)' <=> InStm(u))
             /\ InTx(u)' => InTx(u) /\ Guard \notin {Guard}
    BY <1>1, <2>1, GuardAccess
  <2>3. QED
    BY <2>2
<1>3. ~ InTx(t)' /\ InStm(t)' /\ ~ InStm(t) /\ ~ InCS(t)'
  BY <1>1, <1>2 DEF InTx, InStm, InCS
<1>4. TxOf(t)'
  BY <1>0, <1>1, <1>2, <1>3 DEF TxOf, InTx
<1>5. /\ TSOType(HtmWords, 1)' /\ mem'[Guard] = mem[Guard] + 1
      /\ \A u \in Threads : Late(u, Guard)' <=> Late(u, Guard)
  BY <1>0, <1>1, BufferKept DEF TSOType, Kept
<1>6. StmCounted
  BY <1>1 DEF ElisionInv
<1> DEFINE S == {u \in Threads : InStm(u)}
<1>7. S' = S \cup {t} /\ t \notin S /\ S \subseteq Threads
  BY <1>2, <1>3
<1>8. mem[Guard] = Cardinality(S)
  BY <1>6 DEF StmCounted
<1>9. mem'[Guard] = Cardinality(S')
  <2> HIDE DEF S
  <2>1. IsFiniteSet(S)
    BY <1>7, ThreadsAssumption, FS_Subset
  <2>2. Cardinality(S \cup {t}) = Cardinality(S) + 1
    BY <1>7, <2>1, FS_AddElement
  <2>3. QED
    BY <1>5, <1>7, <1>8, <2>2
<1>10. \A u \in Threads : ~ GuardOwner(u)'
  BY <1>2, <1>3, <1>5, <1>6 DEF StmCounted, GuardOwner
<1>11. StmCounted'
  BY <1>2, <1>3, <1>9, <1>10 DEF StmCounted
<1>12. QED
  BY <1>1, <1>2, <1>4, <1>5, <1>11 DEF ElisionInv, HtmType

\* A thread leaves TinySTM.
LEMMA ElisionLeaveStm ==
  ASSUME ElisionInv, NEW t \in Threads, Htm!LeaveStm(t)
  PROVE  ElisionInv'
<1>0. HtmType /\ TxOf(t) /\ TSOType(HtmWords, 1) /\ Guard \in HtmWords
  BY GuardIsApart DEF ElisionInv, HtmType
<1>1. PICK l \in {"begin", "done"} : Htm!Access(t, {Guard}, TRUE, l, htm[t], 0)
  <2>1. /\ Htm!After(t) \in {"begin", "done"}
        /\ Htm!Access(t, {Guard}, TRUE, Htm!After(t), htm[t], 0)
    BY DEF Htm!LeaveStm, Htm!After, Guard
  <2>2. QED
    BY <2>1
<1>2. /\ prog' = prog /\ pc[t] = "leave" /\ buf' = buf
      /\ mem' = [mem EXCEPT ![Guard] = @ - 1]
  BY DEF Htm!LeaveStm, Guard
<1>3. /\ pc' \in [Threads -> HtmLabels] /\ htm' = [u \in Threads |-> htm'[u]]
      /\ pc'[t] = l /\ htm'[t] = htm[t]
      /\ \A u \in Threads \ {t} :
           /\ TxOf(u)' /\ (InCS(u)' <=> InCS(u)) /\ (InStm(u)' <=> InStm(u))
           /\ InTx(u)' => InTx(u)
  <2>1. l \in HtmLabels
    BY DEF HtmLabels
  <2>2. QED
    BY <1>1, <2>1, GuardAccess
<1>4. ~ InTx(t)' /\ ~ InStm(t)' /\ InStm(t) /\ ~ InCS(t)' /\ pc'[t] # "test"
  BY <1>2, <1>3 DEF InTx, InStm, InCS
<1>5. TxOf(t)'
  BY <1>0, <1>2, <1>3, <1>4 DEF TxOf, InTx
<1>6. /\ TSOType(HtmWords, 1)' /\ mem'[Guard] = mem[Guard] - 1
      /\ \A u \in Threads : Late(u, Guard)' <=> Late(u, Guard)
  BY <1>0, <1>2, BufferKept DEF TSOType, Kept
<1>7. prog.lock = "stm" /\ StmCounted
  BY <1>4 DEF ElisionInv, MutexHeld
<1> DEFINE S == {u \in Threads : InStm(u)}
<1>8. S' = S \ {t} /\ t \in S /\ S \subseteq Threads
  BY <1>3, <1>4
<1>9. mem[Guard] = Cardinality(S)
  BY <1>7 DEF StmCounted
<1>10. mem'[Guard] = Cardinality(S')
  <2> HIDE DEF S
  <2>1. IsFiniteSet(S)
    BY <1>8, ThreadsAssumption, FS_Subset
  <2>2. Cardinality(S \ {t}) = Cardinality(S) - 1
    BY <1>8, <2>1, FS_RemoveElement
  <2>3. QED
    BY <1>6, <1>8, <1>9, <2>2
<1>11. \A u \in Threads : ~ GuardOwner(u)'
  BY <1>3, <1>4, <1>6, <1>7 DEF StmCounted, GuardOwner
<1>12. StmCounted'
  BY <1>3, <1>4, <1>7, <1>10, <1>11 DEF StmCounted
<1>13. QED
  BY <1>2, <1>3, <1>5, <1>6, <1>7, <1>12 DEF ElisionInv, HtmType

\* A step without a store, or with one that is held back, that touches no other thread.
LEMMA ElisionLocal ==
  ASSUME ElisionInv, NEW t \in Threads, prog' = prog, UNCHANGED memvars,
         NEW l \in HtmLabels, NEW h,
         pc' = [pc EXCEPT ![t] = l], htm' = [htm EXCEPT ![t] = h],
         IsTx(h), h.tx.on = (l \in TxLabels \/ l = "test"),
         l \in TxLabels => Guard \in h.tx.rset, Guard \notin DOMAIN h.tx.wset,
         l \in CsLabels <=> InCS(t), l \in StmLabels <=> InStm(t),
         l \in TxLabels => InTx(t) \/ Read(t, Guard) = 0
  PROVE  ElisionInv'
<1>1. TSOType(HtmWords, 1)' /\ mem'[Guard] = mem[Guard] /\ \A u \in Threads : Kept(u, Guard)
  BY NoEffect DEF ElisionInv, HtmType
<1>2. FALSE \in BOOLEAN
  OBVIOUS
<1>3. \/ Htm!Access(t, {}, FALSE, l, h, 0)
      \/ pc' = [pc EXCEPT ![t] = l] /\ htm' = [htm EXCEPT ![t] = h]
  OBVIOUS
<1>4. QED
  BY <1>1, <1>2, <1>3, ElisionOwn, Zenon

\* An access of t, without a store to the mutex, on the words in as.
LEMMA ElisionAccess ==
  ASSUME ElisionInv, NEW t \in Threads, prog' = prog, TSOType(HtmWords, 1)',
         mem'[Guard] = mem[Guard], \A u \in Threads : Kept(u, Guard),
         NEW l \in HtmLabels, NEW h, NEW as, NEW write \in BOOLEAN, NEW r,
         Htm!Access(t, as, write, l, h, r),
         IsTx(h), h.tx.on = (l \in TxLabels \/ l = "test"),
         l \in TxLabels => Guard \in h.tx.rset, Guard \notin DOMAIN h.tx.wset,
         l \in CsLabels <=> InCS(t), l \in StmLabels <=> InStm(t),
         l \in TxLabels => InTx(t) \/ Read(t, Guard) = 0
  PROVE  ElisionInv'
<1>1. \/ Htm!Access(t, as, write, l, h, r)
      \/ pc' = [pc EXCEPT ![t] = l] /\ htm' = [htm EXCEPT ![t] = h]
  OBVIOUS
<1>2. QED
  BY <1>1, ElisionOwn, Zenon

\* The labels, and the transaction of a thread that is in none.
LEMMA Outside ==
  ASSUME ElisionInv, NEW t \in Threads
  PROVE  /\ TxOf(t) /\ IsTx(htm[t]) /\ Guard \notin DOMAIN htm[t].tx.wset
         /\ InTx(t) <=> pc[t] \in TxLabels
         /\ InCS(t) <=> pc[t] \in CsLabels
         /\ InStm(t) <=> pc[t] \in StmLabels
         /\ pc[t] \in TxLabels \/ pc[t] = "test" => htm[t].tx.on = TRUE
         /\ pc[t] \notin TxLabels /\ pc[t] # "test" => htm[t].tx.on = FALSE
         /\ pc[t] \in TxLabels => Guard \in htm[t].tx.rset
<1>1. TxOf(t)
  BY DEF ElisionInv
<1>2. /\ InTx(t) <=> pc[t] \in TxLabels
      /\ InCS(t) <=> pc[t] \in CsLabels
      /\ InStm(t) <=> pc[t] \in StmLabels
  BY DEF InTx, InCS, InStm, TxLabels, CsLabels, StmLabels
<1>3. QED
  BY <1>1, <1>2 DEF TxOf

\* A transaction starts in a record.
LEMMA TxStarts ==
  ASSUME NEW h, IsTx(h), NEW w, NEW x, NEW y, NEW z, NEW v,
         v = [on |-> w, elided |-> x, rset |-> y, wset |-> z]
  PROVE  IsTx([h EXCEPT !.tx = v]) /\ [h EXCEPT !.tx = v].tx = v
<1>1. PICK p, q, r : h = [tx |-> p, tries |-> q, snap |-> r]
  BY DEF IsTx
<1>2. PICK g : g = [h EXCEPT !.tx = v]
  OBVIOUS
<1>3. g = [tx |-> v, tries |-> q, snap |-> r]
  BY <1>1, <1>2
<1>4. g.tx = v /\ g.tries = q /\ g.snap = r
  BY <1>3
<1>5. g.tx.on = w /\ g.tx.elided = x /\ g.tx.rset = y /\ g.tx.wset = z
  BY <1>4
<1>6. IsTx(g)
  BY <1>3, <1>4, <1>5 DEF IsTx
<1>7. QED
  BY <1>2, <1>4, <1>6

\* t keeps count of its attempts and of the version it saw.
LEMMA TxCounts ==
  ASSUME NEW h, IsTx(h), NEW v
  PROVE  /\ IsTx([h EXCEPT !.tries = v]) /\ [h EXCEPT !.tries = v].tx = h.tx
         /\ IsTx([h EXCEPT !.snap = v]) /\ [h EXCEPT !.snap = v].tx = h.tx
<1>1. PICK p, q, r, w, x, y, z :
        /\ h = [tx |-> p, tries |-> q, snap |-> r]
        /\ p = [on |-> w, elided |-> x, rset |-> y, wset |-> z]
  BY DEF IsTx
<1>2. p.on = w /\ p.elided = x /\ p.rset = y /\ p.wset = z /\ h.tx = p
  BY <1>1
<1>3. ASSUME NEW g, NEW a, NEW b, g = [tx |-> p, tries |-> a, snap |-> b]
      PROVE  IsTx(g) /\ g.tx = p
  <2>1. g.tx = p /\ g.tries = a /\ g.snap = b
    BY <1>3
  <2>2. QED
    BY <1>1, <1>2, <1>3, <2>1 DEF IsTx
<1>4. [h EXCEPT !.tries = v] = [tx |-> p, tries |-> v, snap |-> r]
  BY <1>1
<1>5. [h EXCEPT !.snap = v] = [tx |-> p, tries |-> q, snap |-> v]
  BY <1>1
<1>6. QED
  BY <1>2, <1>3, <1>4, <1>5

\* A transaction that has v as its reads, or its writes.
WithReads(h, v) == [h EXCEPT !.tx.rset = v]
WithWrites(h, v) == [h EXCEPT !.tx.wset = v]
\* Only the reads change,
LEMMA TxReads ==
  ASSUME NEW h, IsTx(h), NEW v, NEW k, k = WithReads(h, v)
  PROVE  IsTx(k) /\ k.tx.rset = v /\ k.tx.on = h.tx.on /\ k.tx.wset = h.tx.wset
<1>1. PICK p, q, r, w, x, y, z :
        /\ h = [tx |-> p, tries |-> q, snap |-> r]
        /\ p = [on |-> w, elided |-> x, rset |-> y, wset |-> z]
  BY DEF IsTx
<1>2. h.tx = p /\ p.on = w /\ p.wset = z
  BY <1>1
<1>3. PICK m : m = [p EXCEPT !.rset = v]
  OBVIOUS
<1>4. m = [on |-> w, elided |-> x, rset |-> v, wset |-> z]
  BY <1>1, <1>3
<1>5. k = [tx |-> m, tries |-> q, snap |-> r]
  BY <1>1, <1>2, <1>3 DEF WithReads
<1>6. k.tx = m /\ k.tries = q /\ k.snap = r
  BY <1>5
<1>7. m.on = w /\ m.elided = x /\ m.rset = v /\ m.wset = z
  BY <1>4
<1>8. IsTx(k)
  BY <1>4, <1>5, <1>6, <1>7 DEF IsTx
<1>9. QED
  BY <1>2, <1>6, <1>7, <1>8

\* or the writes.
LEMMA TxWrites ==
  ASSUME NEW h, IsTx(h), NEW v, NEW k, k = WithWrites(h, v)
  PROVE  IsTx(k) /\ k.tx.wset = v /\ k.tx.on = h.tx.on /\ k.tx.rset = h.tx.rset
<1>1. PICK p, q, r, w, x, y, z :
        /\ h = [tx |-> p, tries |-> q, snap |-> r]
        /\ p = [on |-> w, elided |-> x, rset |-> y, wset |-> z]
  BY DEF IsTx
<1>2. h.tx = p /\ p.on = w /\ p.rset = y
  BY <1>1
<1>3. PICK m : m = [p EXCEPT !.wset = v]
  OBVIOUS
<1>4. m = [on |-> w, elided |-> x, rset |-> y, wset |-> v]
  BY <1>1, <1>3
<1>5. k = [tx |-> m, tries |-> q, snap |-> r]
  BY <1>1, <1>2, <1>3 DEF WithWrites
<1>6. k.tx = m /\ k.tries = q /\ k.snap = r
  BY <1>5
<1>7. m.on = w /\ m.elided = x /\ m.rset = y /\ m.wset = v
  BY <1>4
<1>8. IsTx(k)
  BY <1>4, <1>5, <1>6, <1>7 DEF IsTx
<1>9. QED
  BY <1>2, <1>6, <1>7, <1>8

\* _xbegin()
LEMMA ElisionXBegin ==
  ASSUME ElisionInv, NEW t \in Threads, Htm!XBegin(t)
  PROVE  ElisionInv'
<1> DEFINE on == [Htm!NoTx EXCEPT !.on = TRUE]
           h == [htm[t] EXCEPT !.tx = on]
<1>1. /\ prog' = prog /\ UNCHANGED memvars /\ pc[t] = "begin"
      /\ pc' = [pc EXCEPT ![t] = "test"] /\ htm' = [htm EXCEPT ![t] = h]
  <2>1. HtmType
    BY DEF ElisionInv
  <2>2. htm' = [htm EXCEPT ![t].tx = on]
    BY DEF Htm!XBegin
  <2>3. htm' = [htm EXCEPT ![t] = h]
    BY <2>2
  <2>4. QED
    BY <2>3 DEF Htm!XBegin, Htm!Goto, Htm!memvars, memvars
<1>2. on = [on |-> TRUE, elided |-> FALSE, rset |-> {}, wset |-> <<>>]
  <2>1. Htm!NoTx = [on |-> FALSE, elided |-> FALSE, rset |-> {}, wset |-> <<>>]
    BY NoTxEffect
  <2>2. PICK n : n = Htm!NoTx
    OBVIOUS
  <2>3. PICK w, x, y, z : w = TRUE /\ x = FALSE /\ y = {} /\ z = <<>>
    OBVIOUS
  <2>4. n = [on |-> x, elided |-> x, rset |-> y, wset |-> z]
    BY <2>1, <2>2, <2>3
  <2>5. [n EXCEPT !.on = w] = [on |-> w, elided |-> x, rset |-> y, wset |-> z]
    BY <2>4
  <2>6. QED
    BY <2>2, <2>3, <2>5
<1>3. on.on = TRUE /\ Guard \notin DOMAIN on.wset
  <2>1. on.on = TRUE /\ on.wset = <<>>
    BY <1>2
  <2>2. DOMAIN <<>> = {}
    OBVIOUS
  <2>3. QED
    BY <2>1, <2>2
<1> HIDE DEF on
<1>4. IsTx(htm[t])
  BY Outside
<1>5. IsTx(h) /\ h.tx = on
  BY <1>2, <1>4, TxStarts
<1> HIDE DEF h
<1>6. /\ "test" \in HtmLabels /\ "test" \notin TxLabels
      /\ "test" \in CsLabels <=> InCS(t)
      /\ "test" \in StmLabels <=> InStm(t)
  BY <1>1 DEF HtmLabels, TxLabels, CsLabels, StmLabels, InCS, InStm
<1>7. h.tx.on = ("test" \in TxLabels \/ "test" = "test") /\ Guard \notin DOMAIN h.tx.wset
  BY <1>3, <1>5
<1>8. QED
  BY <1>1, <1>5, <1>6, <1>7, ElisionLocal

\* A transaction ends, at a label outside.
LEMMA ElisionAborts ==
  ASSUME ElisionInv, NEW t \in Threads, prog' = prog, UNCHANGED memvars,
         NEW l \in {"again", "failed"}, pc[t] \in TxLabels \/ pc[t] = "test",
         pc' = [pc EXCEPT ![t] = l], htm' = [htm EXCEPT ![t] = Htm!Abort(htm[t])]
  PROVE  ElisionInv'
<1> DEFINE h == Htm!Abort(htm[t])
<1>1. IsTx(h) /\ h.tx = Htm!NoTx
  BY Outside, NoTxEffect
<1>2. h.tx.on = FALSE /\ Guard \notin DOMAIN h.tx.wset
  BY <1>1, NoTxEffect
<1> HIDE DEF h
<1>3. /\ l \in HtmLabels /\ l \notin TxLabels /\ l # "test"
      /\ l \in CsLabels <=> InCS(t)
      /\ l \in StmLabels <=> InStm(t)
  BY DEF HtmLabels, TxLabels, CsLabels, StmLabels, InCS, InStm
<1>4. h.tx.on = (l \in TxLabels \/ l = "test")
  BY <1>2, <1>3
<1>5. htm' = [htm EXCEPT ![t] = h]
  BY DEF h
<1>6. QED
  BY <1>1, <1>2, <1>3, <1>4, <1>5, ElisionLocal

\* A load of word a by t.
LEMMA ElisionLoads ==
  ASSUME ElisionInv, NEW t \in Threads, prog' = prog, UNCHANGED memvars,
         NEW a, NEW l \in HtmLabels, NEW r, Htm!Loads(t, a, l, r),
         htm[t].tx.on = (l \in TxLabels), l # "test",
         l \in TxLabels => InTx(t) \/ (Read(t, Guard) = 0 /\ a = Guard),
         l \in CsLabels <=> InCS(t), l \in StmLabels <=> InStm(t)
  PROVE  ElisionInv'
<1> DEFINE h == IF htm[t].tx.on THEN [htm[t] EXCEPT !.tx.rset = @ \cup {a}] ELSE htm[t]
<1>1. Htm!Access(t, {a}, FALSE, l, h, r)
  BY DEF Htm!Loads
<1>2. IsTx(htm[t]) /\ TxOf(t) /\ Guard \notin DOMAIN htm[t].tx.wset
  BY Outside
<1>3. /\ IsTx(h) /\ h.tx.on = (l \in TxLabels \/ l = "test")
      /\ Guard \notin DOMAIN h.tx.wset /\ (l \in TxLabels => Guard \in h.tx.rset)
  <2>1. CASE htm[t].tx.on
    <3>1. PICK v : v = htm[t].tx.rset \cup {a}
      OBVIOUS
    <3>2. h = [htm[t] EXCEPT !.tx.rset = v]
      BY <2>1, <3>1
    <3>3. IsTx(h) /\ h.tx.rset = v /\ h.tx.on = htm[t].tx.on /\ h.tx.wset = htm[t].tx.wset
      <4>1. PICK g, k : g = htm[t] /\ k = h
        OBVIOUS
      <4>2. IsTx(g) /\ k = WithReads(g, v)
        BY <1>2, <3>2, <4>1 DEF WithReads
      <4>3. IsTx(k) /\ k.tx.rset = v /\ k.tx.on = g.tx.on /\ k.tx.wset = g.tx.wset
        BY <4>2, TxReads
      <4>4. QED
        BY <4>1, <4>3
    <3>4. Guard \in v
      BY <1>2, <2>1, <3>1 DEF TxOf
    <3>5. QED
      BY <1>2, <2>1, <3>3, <3>4
  <2>2. CASE ~ htm[t].tx.on
    <3>1. h = htm[t] /\ l \notin TxLabels
      BY <2>2
    <3>2. QED
      BY <1>2, <3>1
  <2>3. QED
    BY <2>1, <2>2
<1> HIDE DEF h
<1>4. TSOType(HtmWords, 1)' /\ mem'[Guard] = mem[Guard] /\ \A u \in Threads : Kept(u, Guard)
  BY NoEffect DEF ElisionInv, HtmType
<1>5. (l \in TxLabels => InTx(t) \/ Read(t, Guard) = 0) /\ FALSE \in BOOLEAN
  OBVIOUS
<1>6. QED
  BY <1>1, <1>3, <1>4, <1>5, ElisionAccess, Zenon

\* The test of the mutex in rtm_lock(): the transaction watches it, or ends.
LEMMA ElisionTestGuard ==
  ASSUME ElisionInv, NEW t \in Threads, Htm!TestGuard(t)
  PROVE  ElisionInv'
<1>1. pc[t] = "test" /\ prog' = prog /\ UNCHANGED memvars
  BY DEF Htm!TestGuard, Htm!memvars, memvars
<1>2. CASE Htm!Read(t, Guard) = 0
  <2>1. Read(t, Guard) = 0 /\ Htm!Loads(t, Guard, "tload", 0)
    BY <1>2, HtmOperators DEF Htm!TestGuard, Guard
  <2>2. /\ "tload" \in HtmLabels /\ "tload" \in TxLabels /\ "tload" # "test"
        /\ "tload" \in CsLabels <=> InCS(t)
        /\ "tload" \in StmLabels <=> InStm(t)
    BY <1>1 DEF HtmLabels, TxLabels, CsLabels, StmLabels, InCS, InStm
  <2>3. htm[t].tx.on = ("tload" \in TxLabels)
    BY <1>1, <2>2, Outside
  <2>4. QED
    BY <1>1, <2>1, <2>2, <2>3, ElisionLoads
<1>3. CASE Htm!Read(t, Guard) # 0
  <2>1. pc' = [pc EXCEPT ![t] = "failed"] /\ htm' = [htm EXCEPT ![t] = Htm!Abort(htm[t])]
    BY <1>3 DEF Htm!TestGuard, Guard, Htm!Goto
  <2>2. QED
    BY <1>1, <2>1, ElisionAborts
<1>4. QED
  BY <1>2, <1>3

\* The retries of rtm_lock().
LEMMA ElisionFailed ==
  ASSUME ElisionInv, NEW t \in Threads, Htm!Failed(t)
  PROVE  ElisionInv'
<1>1. pc[t] = "failed" /\ prog' = prog /\ UNCHANGED memvars
  BY DEF Htm!Failed, Htm!memvars, memvars
<1>2. PICK l, v :
        /\ l \in {"begin", "lock"} /\ pc' = [pc EXCEPT ![t] = l]
        /\ htm' = [htm EXCEPT ![t] = [htm[t] EXCEPT !.tries = v]]
  <2>1. CASE /\ htm' = [htm EXCEPT ![t].tries = @ + 1]
             /\ pc' = [pc EXCEPT ![t] = "begin"]
    <3>1. htm' = [htm EXCEPT ![t] = [htm[t] EXCEPT !.tries = htm[t].tries + 1]]
      BY <2>1
    <3>2. QED
      BY <2>1, <3>1
  <2>2. CASE /\ htm' = [htm EXCEPT ![t].tries = 0]
             /\ pc' = [pc EXCEPT ![t] = "lock"]
    <3>1. htm' = [htm EXCEPT ![t] = [htm[t] EXCEPT !.tries = 0]]
      BY <2>2
    <3>2. QED
      BY <2>2, <3>1
  <2>3. QED
    BY <2>1, <2>2 DEF Htm!Failed, Htm!Goto
<1>3. PICK h : h = [htm[t] EXCEPT !.tries = v]
  OBVIOUS
<1>4. IsTx(h) /\ h.tx = htm[t].tx
  <2>1. IsTx(htm[t])
    BY Outside
  <2>2. QED
    BY <1>3, <2>1, TxCounts
<1>5. /\ l \in HtmLabels /\ l \notin TxLabels /\ l # "test"
      /\ l \in CsLabels <=> InCS(t)
      /\ l \in StmLabels <=> InStm(t)
  BY <1>1, <1>2 DEF HtmLabels, TxLabels, CsLabels, StmLabels, InCS, InStm
<1>6. h.tx.on = (l \in TxLabels \/ l = "test") /\ Guard \notin DOMAIN h.tx.wset
  <2>1. "failed" \notin TxLabels /\ "failed" # "test"
    BY DEF TxLabels
  <2>2. htm[t].tx.on = FALSE /\ Guard \notin DOMAIN htm[t].tx.wset
    BY <1>1, <2>1, Outside
  <2>3. QED
    BY <1>4, <1>5, <2>2
<1>7. htm' = [htm EXCEPT ![t] = h] /\ pc' = [pc EXCEPT ![t] = l]
  BY <1>2, <1>3
<1>8. QED
  BY <1>1, <1>4, <1>5, <1>6, <1>7, ElisionLocal

\* The elided exchange, which starts a transaction that watches the mutex.
LEMMA ElisionElide ==
  ASSUME ElisionInv, NEW t \in Threads, Htm!Elide(t)
  PROVE  ElisionInv'
<1> DEFINE on == [on |-> TRUE, elided |-> TRUE, rset |-> {Guard}, wset |-> <<>>]
           h == [htm[t] EXCEPT !.tx = on]
<1>1. /\ prog' = prog /\ UNCHANGED memvars /\ pc[t] \in {"lock", "begin"}
      /\ mem[Guard] = 0 /\ Drained(t)
      /\ Htm!Access(t, {Guard}, FALSE, "tload", h, 0)
  BY HtmOperators DEF Htm!Elide, Htm!memvars, memvars, Guard
<1>2. on.on = TRUE /\ on.rset = {Guard} /\ on.wset = <<>>
  OBVIOUS
<1>3. DOMAIN <<>> = {}
  OBVIOUS
<1>4. on = [on |-> TRUE, elided |-> TRUE, rset |-> {Guard}, wset |-> <<>>]
  OBVIOUS
<1> HIDE DEF on
<1>5. IsTx(h) /\ h.tx = on
  <2>1. IsTx(htm[t])
    BY Outside
  <2>2. QED
    BY <1>4, <2>1, TxStarts
<1> HIDE DEF h
<1>6. /\ "tload" \in HtmLabels /\ "tload" \in TxLabels
      /\ "tload" \in CsLabels <=> InCS(t)
      /\ "tload" \in StmLabels <=> InStm(t)
  <2>1. pc[t] \in {"lock", "begin"}
    BY <1>1
  <2>2. QED
    BY <2>1 DEF HtmLabels, TxLabels, CsLabels, StmLabels, InCS, InStm
<1>7. /\ h.tx.on = ("tload" \in TxLabels \/ "tload" = "test")
      /\ Guard \in h.tx.rset /\ Guard \notin DOMAIN h.tx.wset
  BY <1>2, <1>3, <1>5, <1>6
<1>8. Read(t, Guard) = 0
  BY <1>1, ReadEffect
<1>9. /\ TSOType(HtmWords, 1)' /\ mem'[Guard] = mem[Guard]
      /\ (\A u \in Threads : Kept(u, Guard)) /\ FALSE \in BOOLEAN
  BY <1>1, NoEffect DEF ElisionInv, HtmType
<1>10. QED
  BY <1>1, <1>5, <1>6, <1>7, <1>8, <1>9, ElisionAccess, Zenon

\* The load of the counter, inside or in a transaction.
LEMMA ElisionLoadCell ==
  ASSUME ElisionInv, NEW t \in Threads, Htm!LoadCell(t)
  PROVE  ElisionInv'
<1>1. prog' = prog /\ UNCHANGED memvars /\ pc[t] \in {"load", "tload"}
  BY DEF Htm!LoadCell, Htm!memvars, memvars
<1> DEFINE l == IF htm[t].tx.on THEN IF Htm!Writes(t) THEN "tstore" ELSE "xend"
                ELSE IF Htm!Writes(t) THEN "store" ELSE "unlock"
<1>2. PICK r : Htm!Loads(t, Htm!MyCell(t), l, r)
  BY DEF Htm!LoadCell
<1>3. /\ "load" \notin TxLabels /\ "tload" \in TxLabels
      /\ InCS(t) <=> pc[t] = "load"
      /\ InTx(t) <=> pc[t] = "tload"
      /\ ~ InStm(t)
  BY <1>1 DEF TxLabels, InCS, InTx, InStm
<1>4. htm[t].tx.on = (pc[t] = "tload")
  BY <1>1, <1>3, Outside
<1>5. /\ pc[t] = "tload" => l \in {"tstore", "xend"}
      /\ pc[t] = "load" => l \in {"store", "unlock"}
  BY <1>4
<1> HIDE DEF l
<1>6. /\ l \in HtmLabels /\ l # "test"
      /\ l \in TxLabels <=> pc[t] = "tload"
      /\ l \in CsLabels <=> pc[t] = "load"
      /\ l \notin StmLabels
  BY <1>1, <1>5 DEF HtmLabels, TxLabels, CsLabels, StmLabels
<1>7. htm[t].tx.on = (l \in TxLabels)
  BY <1>4, <1>6
<1>8. QED
  BY <1>1, <1>2, <1>3, <1>6, <1>7, ElisionLoads

\* The words of the counter are apart from the mutex.
LEMMA CellIsApart == \A t : Htm!MyCell(t) # Guard /\ Htm!Version(iter[t] % prog.cells) # Guard
BY GuardIsApart DEF Htm!MyCell

\* The store to the counter inside is held back.
LEMMA ElisionStoreCell ==
  ASSUME ElisionInv, NEW t \in Threads, Htm!StoreCell(t)
  PROVE  ElisionInv'
<1>1. /\ prog' = prog /\ pc[t] = "store"
      /\ Htm!Access(t, {}, TRUE, "unlock", htm[t], 0)
      /\ HoldsBack(t, [x \in {Htm!MyCell(t)} |-> reg[t] + 1], 1)
  BY HtmOperators DEF Htm!StoreCell
<1>2. /\ TSOType(HtmWords, 1)' /\ mem'[Guard] = mem[Guard]
      /\ \A u \in Threads : Kept(u, Guard)
  <2>1. Guard \notin DOMAIN [x \in {Htm!MyCell(t)} |-> reg[t] + 1]
    BY CellIsApart
  <2>2. TSOType(HtmWords, 1)
    BY DEF ElisionInv, HtmType
  <2>3. mem' = mem
    BY <1>1 DEF HoldsBack
  <2>4. QED
    BY <1>1, <2>1, <2>2, <2>3, HoldBackEffect
<1>3. /\ "unlock" \in HtmLabels /\ "unlock" \notin TxLabels /\ TRUE \in BOOLEAN
      /\ "unlock" \in CsLabels <=> InCS(t)
      /\ "unlock" \in StmLabels <=> InStm(t)
      /\ pc[t] \notin TxLabels /\ pc[t] # "test"
  BY <1>1 DEF HtmLabels, TxLabels, CsLabels, StmLabels, InCS, InStm
<1>4. /\ IsTx(htm[t]) /\ Guard \notin DOMAIN htm[t].tx.wset
      /\ htm[t].tx.on = ("unlock" \in TxLabels \/ "unlock" = "test")
  BY <1>3, Outside
<1>5. QED
  BY <1>1, <1>2, <1>3, <1>4, ElisionAccess, Zenon

\* That of a transaction is kept in it.
LEMMA ElisionStoreInTx ==
  ASSUME ElisionInv, NEW t \in Threads, Htm!StoreInTx(t)
  PROVE  ElisionInv'
<1>1. PICK w : w = [a \in {Htm!MyCell(t)} |-> reg[t] + 1]
  OBVIOUS
<1>2. PICK h : h = [htm[t] EXCEPT !.tx.wset = w]
  OBVIOUS
<1>3. /\ prog' = prog /\ pc[t] = "tstore" /\ UNCHANGED memvars
      /\ Htm!Access(t, {Htm!MyCell(t)}, TRUE, "xend", h, 0)
  BY <1>1, <1>2 DEF Htm!StoreInTx, Htm!memvars, memvars
<1>4. Guard \notin DOMAIN w
  BY <1>1, CellIsApart
<1>5. IsTx(h) /\ h.tx.wset = w /\ h.tx.on = htm[t].tx.on /\ h.tx.rset = htm[t].tx.rset
  <2>1. PICK g : g = htm[t]
    OBVIOUS
  <2>2. IsTx(g) /\ h = WithWrites(g, w)
    BY <1>2, <2>1, Outside DEF WithWrites
  <2>3. IsTx(h) /\ h.tx.wset = w /\ h.tx.on = g.tx.on /\ h.tx.rset = g.tx.rset
    BY <2>2, TxWrites
  <2>4. QED
    BY <2>1, <2>3
<1>6. /\ "xend" \in HtmLabels /\ "xend" \in TxLabels /\ TRUE \in BOOLEAN
      /\ "xend" \in CsLabels <=> InCS(t)
      /\ "xend" \in StmLabels <=> InStm(t)
      /\ pc[t] \in TxLabels
  BY <1>3 DEF HtmLabels, TxLabels, CsLabels, StmLabels, InCS, InStm
<1>7. /\ Guard \in h.tx.rset /\ Guard \notin DOMAIN h.tx.wset /\ InTx(t)
      /\ h.tx.on = ("xend" \in TxLabels \/ "xend" = "test")
  BY <1>4, <1>5, <1>6, Outside
<1>8. /\ TSOType(HtmWords, 1)' /\ mem'[Guard] = mem[Guard]
      /\ \A u \in Threads : Kept(u, Guard)
  BY <1>3, NoEffect DEF ElisionInv, HtmType
<1>9. QED
  BY <1>3, <1>5, <1>6, <1>7, <1>8, ElisionAccess, Zenon

\* The labels after an iteration.
LEMMA AfterLabels ==
  ASSUME NEW l \in {"begin", "done"}
  PROVE  /\ l \in HtmLabels /\ l \notin TxLabels /\ l \notin CsLabels /\ l \notin StmLabels
         /\ l # "test"
BY DEF HtmLabels, TxLabels, CsLabels, StmLabels

\* A transaction commits: none of its stores is to the mutex.
LEMMA ElisionXEnd ==
  ASSUME ElisionInv, NEW t \in Threads, Htm!XEnd(t)
  PROVE  ElisionInv'
<1>1. PICK l \in {"begin", "done"} : Htm!Commits(t, l)
  <2>1. Htm!After(t) \in {"begin", "done"} /\ Htm!Commits(t, Htm!After(t))
    BY DEF Htm!XEnd, Htm!After
  <2>2. QED
    BY <2>1
<1>2. PICK w : w = htm[t].tx.wset
  OBVIOUS
<1>3. PICK h : h = [Htm!Abort(htm[t]) EXCEPT !.tries = 0]
  OBVIOUS
<1>4. /\ prog' = prog /\ pc[t] = "xend" /\ buf' = buf /\ mem' = Stored(mem, w)
      /\ Htm!Access(t, DOMAIN w, TRUE, l, h, 0)
  BY <1>1, <1>2, <1>3, HtmOperators DEF Htm!XEnd, Htm!Commits
<1>5. IsTx(htm[t]) /\ Guard \notin DOMAIN w
  BY <1>2, Outside
<1>6. IsTx(h) /\ h.tx = Htm!NoTx
  <2>1. PICK g : g = Htm!Abort(htm[t])
    OBVIOUS
  <2>2. IsTx(g) /\ g.tx = Htm!NoTx
    BY <1>5, <2>1, NoTxEffect
  <2>3. h = [g EXCEPT !.tries = 0]
    BY <1>3, <2>1
  <2>4. QED
    BY <2>2, <2>3, TxCounts
<1>7. h.tx.on = FALSE /\ Guard \notin DOMAIN h.tx.wset
  BY <1>6, NoTxEffect
<1>8. /\ TSOType(HtmWords, 1)' /\ mem'[Guard] = mem[Guard]
      /\ \A u \in Threads : Kept(u, Guard)
  <2>1. HtmType /\ mem = [a \in HtmWords |-> mem[a]]
    BY DEF ElisionInv, HtmType, TSOType
  <2>2. mem' = [a \in HtmWords |-> IF a \in DOMAIN w THEN w[a] ELSE mem[a]]
    BY <1>4, <2>1 DEF Stored
  <2>3. mem'[Guard] = mem[Guard] /\ mem' = [a \in HtmWords |-> mem'[a]]
    BY <1>5, <2>2, GuardIsApart
  <2>4. QED
    BY <1>4, <2>1, <2>3, MemoryEffect
<1>9. /\ l \in HtmLabels /\ TRUE \in BOOLEAN
      /\ l \notin TxLabels /\ l # "test"
      /\ l \in CsLabels <=> InCS(t)
      /\ l \in StmLabels <=> InStm(t)
  BY <1>4, AfterLabels DEF InCS, InStm
<1>10. h.tx.on = (l \in TxLabels \/ l = "test") /\ (l \in TxLabels => Guard \in h.tx.rset)
  BY <1>7, <1>9
<1>11. QED
  BY <1>4, <1>6, <1>7, <1>8, <1>9, <1>10, ElisionAccess, Zenon

\* __transaction_atomic
LEMMA ElisionCompilerTransaction ==
  ASSUME ElisionInv, NEW t \in Threads, Htm!CompilerTransaction(t)
  PROVE  ElisionInv'
<1>1. PICK l \in {"begin", "done"} : pc' = [pc EXCEPT ![t] = l]
  <2>1. /\ Htm!After(t) \in {"begin", "done"}
        /\ pc' = [pc EXCEPT ![t] = Htm!After(t)]
    BY DEF Htm!CompilerTransaction, Htm!EndIteration, Htm!Goto, Htm!After
  <2>2. QED
    BY <2>1
<1>2. PICK v : mem' = [mem EXCEPT ![Htm!MyCell(t)] = v]
  BY DEF Htm!CompilerTransaction
<1>3. prog' = prog /\ pc[t] = "begin" /\ buf' = buf /\ htm' = htm
  BY DEF Htm!CompilerTransaction
<1>4. htm' = [htm EXCEPT ![t] = htm[t]]
  BY <1>3 DEF ElisionInv, HtmType
<1>5. /\ TSOType(HtmWords, 1)' /\ mem'[Guard] = mem[Guard]
      /\ \A u \in Threads : Kept(u, Guard)
  <2>1. HtmType /\ mem = [a \in HtmWords |-> mem[a]]
    BY DEF ElisionInv, HtmType, TSOType
  <2>2. mem'[Guard] = mem[Guard] /\ mem' = [a \in HtmWords |-> mem'[a]]
    BY <1>2, <2>1, GuardIsApart, CellIsApart
  <2>3. QED
    BY <1>3, <2>1, <2>2, MemoryEffect
<1>6. /\ l \in HtmLabels /\ FALSE \in BOOLEAN
      /\ l \notin TxLabels /\ l # "test"
      /\ l \in CsLabels <=> InCS(t)
      /\ l \in StmLabels <=> InStm(t)
      /\ pc[t] \notin TxLabels /\ pc[t] # "test"
  BY <1>3, AfterLabels DEF InCS, InStm, TxLabels
<1>7. /\ IsTx(htm[t]) /\ Guard \notin DOMAIN htm[t].tx.wset
      /\ htm[t].tx.on = (l \in TxLabels \/ l = "test")
  BY <1>6, Outside
<1>8. \/ Htm!Access(t, {}, FALSE, l, htm[t], 0)
      \/ pc' = [pc EXCEPT ![t] = l] /\ htm' = [htm EXCEPT ![t] = htm[t]]
  BY <1>1, <1>4
<1>9. QED
  BY <1>3, <1>5, <1>6, <1>7, <1>8, ElisionOwn, Zenon

\* A load of TinySTM.
LEMMA ElisionStmLoad ==
  ASSUME ElisionInv, NEW t \in Threads, Htm!StmLoad(t)
  PROVE  ElisionInv'
<1>1. PICK h, v, r :
        /\ h = [htm[t] EXCEPT !.snap = v]
        /\ Htm!Access(t, {Htm!MyCell(t)}, FALSE, "stm_commit", h, r)
  BY DEF Htm!StmLoad
<1>2. prog' = prog /\ pc[t] = "stm_load" /\ UNCHANGED memvars
  BY DEF Htm!StmLoad, Htm!memvars, memvars
<1>3. /\ "stm_commit" \in HtmLabels /\ "stm_commit" \notin TxLabels
      /\ "stm_commit" \in CsLabels <=> InCS(t)
      /\ "stm_commit" \in StmLabels <=> InStm(t)
      /\ pc[t] \notin TxLabels /\ pc[t] # "test" /\ FALSE \in BOOLEAN
  BY <1>2 DEF HtmLabels, TxLabels, CsLabels, StmLabels, InCS, InStm
<1>4. IsTx(h) /\ h.tx = htm[t].tx
  <2>1. IsTx(htm[t])
    BY Outside
  <2>2. QED
    BY <1>1, <2>1, TxCounts
<1>5. /\ Guard \notin DOMAIN h.tx.wset
      /\ h.tx.on = ("stm_commit" \in TxLabels \/ "stm_commit" = "test")
  BY <1>3, <1>4, Outside
<1>6. /\ TSOType(HtmWords, 1)' /\ mem'[Guard] = mem[Guard]
      /\ \A u \in Threads : Kept(u, Guard)
  BY <1>2, NoEffect DEF ElisionInv, HtmType
<1>7. QED
  BY <1>1, <1>2, <1>3, <1>4, <1>5, <1>6, ElisionAccess, Zenon

\* A commit of TinySTM, or the conflict that repeats the transaction.
LEMMA ElisionStmCommit ==
  ASSUME ElisionInv, NEW t \in Threads, Htm!StmCommit(t)
  PROVE  ElisionInv'
<1>1. prog' = prog /\ pc[t] = "stm_commit" /\ buf' = buf
  BY DEF Htm!StmCommit
<1>2. PICK h : h = [htm[t] EXCEPT !.snap = 0]
  OBVIOUS
<1>3. IsTx(h) /\ h.tx = htm[t].tx
  <2>1. IsTx(htm[t])
    BY Outside
  <2>2. QED
    BY <1>2, <2>1, TxCounts
<1>4. ASSUME NEW l \in {"leave", "stm_load"}
      PROVE  /\ l \in HtmLabels /\ l \notin TxLabels
             /\ l \in CsLabels <=> InCS(t)
             /\ l \in StmLabels <=> InStm(t)
             /\ h.tx.on = (l \in TxLabels \/ l = "test") /\ Guard \notin DOMAIN h.tx.wset
  <2>1. /\ l \in HtmLabels /\ l \notin TxLabels /\ l # "test"
        /\ l \in CsLabels <=> InCS(t)
        /\ l \in StmLabels <=> InStm(t)
        /\ pc[t] \notin TxLabels /\ pc[t] # "test"
    BY <1>1 DEF HtmLabels, TxLabels, CsLabels, StmLabels, InCS, InStm
  <2>2. QED
    BY <1>3, <2>1, Outside
<1>5. CASE mem[Htm!Version(iter[t] % prog.cells)] = htm[t].snap
  <2>1. PICK v, w : mem' = [mem EXCEPT ![Htm!MyCell(t)] = v,
                                       ![Htm!Version(iter[t] % prog.cells)] = w]
    BY <1>5 DEF Htm!StmCommit
  <2>2. Htm!Access(t, {Htm!MyCell(t)}, TRUE, "leave", h, 0)
    BY <1>2, <1>5 DEF Htm!StmCommit
  <2>3. /\ TSOType(HtmWords, 1)' /\ mem'[Guard] = mem[Guard]
        /\ \A u \in Threads : Kept(u, Guard)
    <3>1. HtmType /\ mem = [a \in HtmWords |-> mem[a]]
      BY DEF ElisionInv, HtmType, TSOType
    <3>2. mem'[Guard] = mem[Guard] /\ mem' = [a \in HtmWords |-> mem'[a]]
      BY <2>1, <3>1, GuardIsApart, CellIsApart
    <3>3. QED
      BY <1>1, <3>1, <3>2, MemoryEffect
  <2>4. /\ "leave" \in HtmLabels /\ "leave" \notin TxLabels
        /\ "leave" \in CsLabels <=> InCS(t)
        /\ "leave" \in StmLabels <=> InStm(t)
        /\ h.tx.on = ("leave" \in TxLabels \/ "leave" = "test")
        /\ Guard \notin DOMAIN h.tx.wset /\ TRUE \in BOOLEAN
    BY <1>4
  <2>5. QED
    BY <1>1, <1>3, <2>2, <2>3, <2>4, ElisionAccess, Zenon
<1>6. CASE mem[Htm!Version(iter[t] % prog.cells)] # htm[t].snap
  <2>1. pc' = [pc EXCEPT ![t] = "stm_load"] /\ htm' = [htm EXCEPT ![t].snap = 0] /\ mem' = mem
    BY <1>6 DEF Htm!StmCommit, Htm!Goto
  <2>2. UNCHANGED memvars
    BY <1>1, <2>1 DEF memvars
  <2>3. htm' = [htm EXCEPT ![t] = h]
    BY <1>2, <2>1
  <2>4. /\ "stm_load" \in HtmLabels /\ "stm_load" \notin TxLabels
        /\ "stm_load" \in CsLabels <=> InCS(t)
        /\ "stm_load" \in StmLabels <=> InStm(t)
        /\ h.tx.on = ("stm_load" \in TxLabels \/ "stm_load" = "test")
        /\ Guard \notin DOMAIN h.tx.wset
    BY <1>4
  <2>5. QED
    BY <1>1, <1>3, <2>1, <2>2, <2>3, <2>4, ElisionLocal, Zenon
<1>7. QED
  BY <1>5, <1>6

\* An instruction of the elided locks keeps the invariant.
LEMMA ElisionStep ==
  ASSUME ElisionInv, NEW t \in Threads, Htm!Step(t)
  PROVE  ElisionInv'
<1>1. \/ Htm!XBegin(t) \/ Htm!TestGuard(t) \/ Htm!Failed(t) \/ Htm!Lock(t) \/ Htm!Elide(t)
      \/ Htm!LoadCell(t) \/ Htm!StoreCell(t) \/ Htm!StoreInTx(t) \/ Htm!Unlock(t)
      \/ Htm!XEnd(t) \/ Htm!CompilerTransaction(t) \/ Htm!EnterStm(t) \/ Htm!StmLoad(t)
      \/ Htm!StmCommit(t) \/ Htm!LeaveStm(t)
  BY DEF Htm!Step
<1>2. CASE \/ Htm!XBegin(t) \/ Htm!TestGuard(t) \/ Htm!Failed(t) \/ Htm!Lock(t)
           \/ Htm!Elide(t) \/ Htm!LoadCell(t)
  BY <1>2, ElisionXBegin, ElisionTestGuard, ElisionFailed, ElisionLock, ElisionElide,
     ElisionLoadCell
<1>3. CASE \/ Htm!StoreCell(t) \/ Htm!StoreInTx(t) \/ Htm!Unlock(t) \/ Htm!XEnd(t)
           \/ Htm!CompilerTransaction(t)
  BY <1>3, ElisionStoreCell, ElisionStoreInTx, ElisionUnlock, ElisionXEnd,
     ElisionCompilerTransaction
<1>4. CASE Htm!EnterStm(t) \/ Htm!StmLoad(t) \/ Htm!StmCommit(t) \/ Htm!LeaveStm(t)
  BY <1>4, ElisionEnterStm, ElisionStmLoad, ElisionStmCommit, ElisionLeaveStm
<1>5. QED
  BY <1>1, <1>2, <1>3, <1>4

\* So does an abort that the processor decides on,
LEMMA ElisionSpontaneous ==
  ASSUME ElisionInv, NEW t \in Threads, Htm!Spontaneous(t)
  PROVE  ElisionInv'
<1>1. PICK l \in {"again", "failed"} : pc' = [pc EXCEPT ![t] = l]
  <2>1. /\ pc' = [pc EXCEPT ![t] = IF htm[t].tx.elided THEN "again" ELSE "failed"]
        /\ (IF htm[t].tx.elided THEN "again" ELSE "failed") \in {"again", "failed"}
    BY DEF Htm!Spontaneous, Htm!Goto
  <2>2. QED
    BY <2>1
<1>2. /\ prog' = prog /\ UNCHANGED memvars /\ htm[t].tx.on
      /\ htm' = [htm EXCEPT ![t] = Htm!Abort(@)]
  BY DEF Htm!Spontaneous, Htm!memvars, memvars
<1>3. htm' = [htm EXCEPT ![t] = Htm!Abort(htm[t])]
  BY <1>2
<1>4. pc[t] \in TxLabels \/ pc[t] = "test"
  BY <1>2, Outside
<1>5. QED
  BY <1>1, <1>2, <1>3, <1>4, ElisionAborts

\* and a flush: with the release of the mutex it leaves nobody in.
LEMMA ElisionDrain ==
  ASSUME ElisionInv, NEW t \in Threads, Htm!DrainStep(t)
  PROVE  ElisionInv'
<1>0. HtmType /\ TSOType(HtmWords, 1) /\ Guard \in HtmWords /\ 1 \in Nat
  BY GuardIsApart DEF ElisionInv, HtmType
<1>1. /\ Flush(t) /\ prog' = prog
      /\ Htm!Access(t, DOMAIN Head(buf[t]), TRUE, pc[t], htm[t], reg[t])
  BY HtmOperators DEF Htm!DrainStep
<1>2. /\ TSOType(HtmWords, 1)'
      /\ \A u \in Threads : \A a : u # t => Kept(u, a)
      /\ Once(t, Guard) => Once(t, Guard)'
      /\ Read(t, Guard)' = Read(t, Guard)
      /\ Late(t, Guard)' => Late(t, Guard)
      /\ \/ mem'[Guard] = mem[Guard] /\ (Late(t, Guard)' <=> Late(t, Guard))
         \/ /\ Late(t, Guard)
            /\ Once(t, Guard) => ~ Late(t, Guard)' /\ mem'[Guard] = Read(t, Guard)
  BY <1>0, <1>1, FlushEffect
<1>3. CASE ~ Late(t, Guard)
  <2>1. mem'[Guard] = mem[Guard] /\ ~ Late(t, Guard)'
    BY <1>2, <1>3
  <2>2. Kept(t, Guard)
    <3>1. Pending(t, Guard) = {} /\ Pending(t, Guard)' = {}
      BY <1>3, <2>1 DEF Late
    <3>2. QED
      BY <1>2, <3>1 DEF Kept, Late, Once
  <2>3. \A u \in Threads : Kept(u, Guard)
    BY <1>2, <2>2
  <2>4. /\ pc[t] \in HtmLabels /\ TRUE \in BOOLEAN
        /\ pc[t] \in CsLabels <=> InCS(t)
        /\ pc[t] \in StmLabels <=> InStm(t)
        /\ pc[t] \in TxLabels => InTx(t) \/ Read(t, Guard) = 0
    BY <1>0, Outside DEF HtmType
  <2>5. /\ IsTx(htm[t]) /\ htm[t].tx.on = (pc[t] \in TxLabels \/ pc[t] = "test")
        /\ pc[t] \in TxLabels => Guard \in htm[t].tx.rset
        /\ Guard \notin DOMAIN htm[t].tx.wset
    BY Outside
  <2>6. QED
    BY <1>1, <1>2, <2>1, <2>3, <2>4, <2>5, ElisionAccess, Zenon
<1>4. CASE Late(t, Guard)
  <2>1. prog.lock # "stm" /\ MutexHeld /\ GuardOwner(t)
    BY <1>4 DEF ElisionInv, StmCounted, GuardOwner
  <2>2. Once(t, Guard) /\ Read(t, Guard) = 0 /\ ~ InCS(t)
    BY <1>4, <2>1 DEF MutexHeld
  <2>3. ~ Late(t, Guard)'
    <3>1. Len(buf[t]) = 1
      <4>1. Len(buf[t]) \in Nat \ {0} /\ Len(buf[t]) <= 1
        BY <1>0, <1>1, BufferAfterFlush DEF TSOType
      <4>2. \A n \in Nat \ {0} : n <= 1 => n = 1
        OBVIOUS
      <4>3. QED
        BY <4>1, <4>2, Zenon
    <3>2. Pending(t, Guard)' = {k \in 1 .. Len(buf[t]) - 1 : k + 1 \in Pending(t, Guard)}
      BY <1>0, <1>1, PendingAfterFlush
    <3>3. 1 .. Len(buf[t]) - 1 = {}
      BY <3>1
    <3>4. QED
      BY <3>2, <3>3 DEF Late
  <2>4. /\ pc' \in [Threads -> HtmLabels] /\ htm' = [u \in Threads |-> htm'[u]]
        /\ pc'[t] = pc[t] /\ htm'[t] = htm[t]
        /\ \A u \in Threads \ {t} :
             /\ TxOf(u)' /\ (InCS(u)' <=> InCS(u)) /\ (InStm(u)' <=> InStm(u))
             /\ InTx(u)' => InTx(u) /\ Guard \notin DOMAIN Head(buf[t])
    <3>1. pc[t] \in HtmLabels
      BY <1>0 DEF HtmType
    <3>2. QED
      BY <1>1, <3>1, GuardAccess
  <2>5. TxOf(t)' /\ ~ InCS(t)' /\ ~ InStm(t)'
    <3>1. TxOf(t) /\ ~ InStm(t)
      BY <2>1, Outside DEF MutexHeld
    <3>2. QED
      BY <2>2, <2>4, <3>1 DEF TxOf, InTx, InCS, InStm
  <2>6. \A u \in Threads : u # t => ~ GuardOwner(u)
    BY <2>1 DEF MutexHeld
  <2>7. \A u \in Threads : ~ GuardOwner(u)'
    BY <1>2, <2>3, <2>4, <2>5, <2>6 DEF GuardOwner, Kept
  <2>8. \A u \in Threads : ~ Late(u, Guard)' /\ ~ InStm(u)' /\ Once(u, Guard)'
    <3>1. Once(t, Guard)'
      BY <1>2, <2>2
    <3>2. \A u \in Threads : u # t => Once(u, Guard)' /\ ~ InStm(u)'
      BY <1>2, <2>1, <2>4 DEF Kept, MutexHeld
    <3>3. QED
      BY <2>5, <2>7, <3>1, <3>2 DEF GuardOwner
  <2>9. MutexHeld'
    BY <2>7, <2>8 DEF MutexHeld
  <2>10. QED
    BY <1>1, <1>2, <2>1, <2>4, <2>5, <2>9 DEF ElisionInv, HtmType
<1>5. QED
  BY <1>3, <1>4

\* Nothing happens.
LEMMA ElisionStutter ==
  ASSUME ElisionInv, UNCHANGED <<pc, memvars, prog, htm>>
  PROVE  ElisionInv'
<1>1. /\ pc' = pc /\ mem' = mem /\ prog' = prog /\ htm' = htm
      /\ TSOType(HtmWords, 1)' /\ \A u, a : Kept(u, a)
  BY NoEffect DEF ElisionInv, HtmType
<1>2. \A u \in Threads : /\ TxOf(u)' <=> TxOf(u)
                         /\ InCS(u)' <=> InCS(u)
                         /\ InTx(u)' <=> InTx(u)
                         /\ InStm(u)' <=> InStm(u)
                         /\ GuardOwner(u)' <=> GuardOwner(u)
                         /\ Late(u, Guard)' <=> Late(u, Guard)
                         /\ Once(u, Guard)' <=> Once(u, Guard)
                         /\ Read(u, Guard)' = Read(u, Guard)
  BY <1>1 DEF TxOf, InCS, InTx, InStm, GuardOwner, Kept
<1>3. MutexHeld => MutexHeld'
  BY <1>1, <1>2 DEF MutexHeld
<1>4. StmCounted => StmCounted'
  <2>1. {u \in Threads : InStm(u)}' = {u \in Threads : InStm(u)}
    BY <1>2
  <2>2. QED
    BY <1>1, <1>2, <2>1 DEF StmCounted
<1>5. QED
  BY <1>1, <1>2, <1>3, <1>4 DEF ElisionInv, HtmType

\* What the invariant says of the programs.
LEMMA ElisionSafe ==
  ASSUME ElisionInv
  PROVE  /\ \A s, t \in Threads : InCS(s) /\ InCS(t) => s = t
         /\ Htm!FallbackExcludesTransactions
<1>1. CASE prog.lock = "stm"
  <2>1. StmCounted
    BY <1>1 DEF ElisionInv
  <2>2. \A t, u \in Threads : ~ InCS(t) /\ (InStm(t) => ~ InTx(u))
    BY <2>1 DEF StmCounted, GuardOwner
  <2>3. Htm!FallbackExcludesTransactions
    BY <2>2 DEF Htm!FallbackExcludesTransactions, InCS, InStm, InTx
  <2>4. QED
    BY <2>2, <2>3
<1>2. CASE prog.lock # "stm"
  <2>1. MutexHeld
    BY <1>2 DEF ElisionInv
  <2>2. \A t, u \in Threads : /\ ~ InStm(t)
                              /\ InCS(t) /\ InCS(u) => t = u
                              /\ InCS(t) /\ InTx(u) => t = u
    BY <2>1 DEF MutexHeld, GuardOwner
  <2>3. \A t, u \in Threads : InCS(t) => ~ InTx(u)
    BY <2>2 DEF InCS, InTx
  <2>4. Htm!FallbackExcludesTransactions
    BY <2>2, <2>3 DEF Htm!FallbackExcludesTransactions, InCS, InStm, InTx
  <2>5. QED
    BY <2>2, <2>4
<1>3. QED
  BY <1>1, <1>2

-----------------------------------------------------------------------------
(* The reader-writer locks of the specification *)

RwInv == family = "rw" => \/ prog = "rw_lock" /\ WordInv
                          \/ prog = "ticket_rw_lock" /\ TurnInv

\* The reader-writer locks start in a state of their invariants.
LEMMA RwInit == MCInit => RwInv
<1> SUFFICES ASSUME MCInit, family = "rw"
             PROVE  RwInv
  BY DEF RwInv
<1>1. Rw!Init
  BY DEF MCInit
<1>2. /\ LoopInit /\ ticket = [t \in Threads |-> 0] /\ turn = [t \in Threads |-> 0]
      /\ \/ prog = "rw_lock" /\ Rw!WordInit
         \/ prog = "ticket_rw_lock" /\ Rw!TicketInit
  BY <1>1 DEF Rw!Init, Rw!LoopInit, LoopInit
<1>3. QED
  BY <1>2, WordInit, TurnInit DEF RwInv

\* No step of the reader-writer locks leaves their invariants.
LEMMA RwNext == RwInv /\ [MCNext]_mcvars => RwInv'
<1> SUFFICES ASSUME RwInv, [MCNext]_mcvars, family' = "rw"
             PROVE  RwInv'
  BY DEF RwInv
<1>1. ASSUME NEW t \in Threads, MCStep(t)
      PROVE  RwInv'
  <2>1. family = "rw" /\ Rw!Step(t)
    BY <1>1 DEF MCStep
  <2>2. CASE prog = "rw_lock" /\ WordInv
    <3>1. (Rw!WordStep(t) \/ Rw!Count(t)) /\ prog' = prog
      BY <2>1, <2>2 DEF Rw!Step, Rw!WordStep, Rw!Count
    <3>2. QED
      BY <2>2, <3>1, WordStep DEF RwInv
  <2>3. CASE prog = "ticket_rw_lock" /\ TurnInv
    <3>1. (Rw!TicketStep(t) \/ Rw!Count(t)) /\ prog' = prog
      BY <2>1, <2>3 DEF Rw!Step, Rw!TicketStep, Rw!Count
    <3>2. QED
      BY <2>3, <3>1, TurnStep DEF RwInv
  <2>4. QED
    BY <2>1, <2>2, <2>3 DEF RwInv
<1>2. ASSUME NEW t \in Threads, MCDrain(t)
      PROVE  RwInv'
  <2>1. family = "rw" /\ Drain(t) /\ prog' = prog /\ ticket' = ticket /\ turn' = turn
    BY <1>2 DEF MCDrain, locals
  <2>2. QED
    BY <2>1, WordDrain, TurnDrain DEF RwInv
<1>3. ASSUME NEW t \in Threads, MCSpontaneous(t)
      PROVE  RwInv'
  BY <1>3 DEF MCSpontaneous
<1>4. CASE MCJoin \/ UNCHANGED mcvars
  <2>1. UNCHANGED <<pc, memvars, ticket, turn>> /\ family = "rw" /\ prog' = prog
    BY <1>4 DEF MCJoin, Joined, mcvars, loopvars, locals
  <2>2. QED
    BY <2>1, WordStutter, TurnStutter DEF RwInv
<1>5. QED
  BY <1>1, <1>2, <1>3, <1>4 DEF MCNext

\* In rw_lock and in ticket_rw_lock no reader is inside while a writer is,
\* although the stores that release the locks reach memory late.
THEOREM ReadersExcludeWriterHolds == MCSpec => []ReadersExcludeWriter
<1>1. RwInv => ReadersExcludeWriter
  <2> SUFFICES ASSUME RwInv, family = "rw"
               PROVE  Rw!ReadersExcludeWriter
    BY DEF ReadersExcludeWriter
  <2>1. CASE prog = "rw_lock" /\ WordInv
    <3>1. \A t \in Threads : pc[t] # "both"
      BY <2>1 DEF WordInv, WordType, WordLabels
    <3>2. \A t, u \in Threads :
            pc[t] \in {"load", "store", "unlock"} => pc[u] \notin {"read", "leave"}
      BY <2>1 DEF WordInv, WordHeld, Alone, InCS, Readers
    <3>3. \A u \in Threads : pc[u] \notin {"turn", "pass"}
      BY <2>1 DEF WordInv, WordType, WordLabels
    <3>4. QED
      BY <3>1, <3>2, <3>3 DEF Rw!ReadersExcludeWriter
  <2>2. CASE prog = "ticket_rw_lock" /\ TurnInv
    <3>1. ASSUME NEW t \in Threads, NEW u \in Threads, TurnWriter(t),
                 pc[u] \in {"turn", "pass", "read", "leave"}
          PROVE  pc[t] \notin {"load", "store", "unlock", "both"}
      <4>1. TurnOf(t) /\ TurnOf(u) /\ t \in Queued \ Passed
        BY <2>2, <3>1, TurnFacts DEF TurnInv
      <4>2. /\ mem[WriterTurn] \in Below(Wrap) /\ ticket[t] = mem[WriterTurn]
            /\ Books(Wrap, mem[WriterTurn], mem[ReaderTurn], mem[Number], Passed, Queued,
                     ticket)
        BY <2>2, <3>1, <4>1, TurnFacts DEF TurnInv, TurnBooks, TurnOf
      <4>3. /\ Passed = {} /\ mem[ReaderTurn] = mem[WriterTurn]
            /\ \A s \in Queued \ Passed : ticket[s] = mem[WriterTurn] => s = t
        BY <4>1, <4>2, WrapFacts, BooksAlone
      <4>4. AtTurn(u)
        BY <3>1, <4>3 DEF AtTurn, Passed
      <4>5. u = t
        BY <2>2, <4>1, <4>3, <4>4, TurnFacts DEF TurnOf
      <4>6. QED
        BY <3>1, <4>5
    <3>2. QED
      BY <3>1 DEF Rw!ReadersExcludeWriter, TurnWriter
  <2>3. QED
    BY <2>1, <2>2 DEF RwInv
<1>2. QED
  BY <1>1, RwInit, RwNext, PTL DEF MCSpec

-----------------------------------------------------------------------------
(* The queue locks of the specification *)

NodesInv == family = "nodes" => \/ prog.lock = "clh" /\ ClhInv
                                \/ prog.lock = "mcs" /\ McsInv

\* The queue locks start in a state of their invariants.
LEMMA NodesInit == MCInit => NodesInv
<1> SUFFICES ASSUME MCInit, family = "nodes"
             PROVE  NodesInv
  BY DEF NodesInv
<1>1. Nodes!Init
  BY DEF MCInit
<1>2. LoopInit /\ node = [t \in Threads |-> t] /\ (Nodes!ClhInit \/ Nodes!McsInit)
  BY <1>1 DEF Nodes!Init, Nodes!LoopInit, LoopInit
<1>3. CASE Nodes!ClhInit
  <2>1. prog.lock = "clh"
    BY <1>3 DEF Nodes!ClhInit, Nodes!CLH, Nodes!CLHYield, Nodes!Program
  <2>2. QED
    BY <1>2, <1>3, <2>1, ClhInit DEF NodesInv
<1>4. CASE Nodes!McsInit
  <2>1. prog.lock = "mcs"
    BY <1>4 DEF Nodes!McsInit, Nodes!MCS, Nodes!MCSYield, Nodes!Program
  <2>2. QED
    BY <1>2, <1>4, <2>1, McsInit DEF NodesInv
<1>5. QED
  BY <1>2, <1>3, <1>4

\* No step of the queue locks leaves their invariants.
LEMMA NodesNext == NodesInv /\ [MCNext]_mcvars => NodesInv'
<1> SUFFICES ASSUME NodesInv, [MCNext]_mcvars, family' = "nodes"
             PROVE  NodesInv'
  BY DEF NodesInv
<1>1. ASSUME NEW t \in Threads, MCStep(t)
      PROVE  NodesInv'
  <2>1. family = "nodes" /\ Nodes!Step(t)
    BY <1>1 DEF MCStep
  <2>2. CASE prog.lock = "clh" /\ ClhInv
    <3>1. Nodes!ClhStep(t) \/ Nodes!Yield(t) \/ Nodes!Count(t)
      BY <2>1, <2>2 DEF Nodes!Step
    <3>2. prog' = prog
      BY <3>1 DEF Nodes!ClhStep, Nodes!ClhSetLocked, Nodes!ClhExchange,
                  Nodes!AwaitPredecessor, Nodes!ClhUnlock, Nodes!Yield, Nodes!Count
    <3>3. QED
      BY <2>2, <3>1, <3>2, ClhStep DEF NodesInv
  <2>3. CASE prog.lock = "mcs" /\ McsInv
    <3>1. Nodes!McsStep(t) \/ Nodes!Yield(t) \/ Nodes!Count(t)
      BY <2>1, <2>3 DEF Nodes!Step
    <3>2. prog' = prog
      BY <3>1 DEF Nodes!McsStep, Nodes!ClearNext, Nodes!SetLocked, Nodes!Exchange,
                  Nodes!Link, Nodes!AwaitLocked, Nodes!Own, Nodes!TestNext,
                  Nodes!ClearTail, Nodes!AwaitNext, Nodes!Handoff, Nodes!Yield,
                  Nodes!Count
    <3>3. QED
      BY <2>3, <3>1, <3>2, McsStep DEF NodesInv
  <2>4. QED
    BY <2>1, <2>2, <2>3 DEF NodesInv
<1>2. ASSUME NEW t \in Threads, MCDrain(t)
      PROVE  NodesInv'
  <2>1. family = "nodes" /\ Drain(t) /\ prog' = prog /\ node' = node /\ pred' = pred
    BY <1>2 DEF MCDrain, locals
  <2>2. QED
    BY <2>1, ClhDrain, McsDrain DEF NodesInv
<1>3. ASSUME NEW t \in Threads, MCSpontaneous(t)
      PROVE  NodesInv'
  BY <1>3 DEF MCSpontaneous
<1>4. CASE MCJoin \/ UNCHANGED mcvars
  <2>1. UNCHANGED <<pc, memvars, node, pred>> /\ family = "nodes" /\ prog' = prog
    BY <1>4 DEF MCJoin, Joined, mcvars, loopvars, locals
  <2>2. QED
    BY <2>1, ClhStutter, McsStutter DEF NodesInv
<1>5. QED
  BY <1>1, <1>2, <1>3, <1>4 DEF MCNext

\* The nodes of the CLH queue are never used by two threads at once, although a
\* node goes from thread to thread, and no store into a node of the MCS queue
\* reaches memory after the round it belongs to.
THEOREM QueueNodesAreSafeHolds == MCSpec => []QueueNodesAreSafe
<1>1. NodesInv => QueueNodesAreSafe
  BY ClhSafe, McsSafe DEF NodesInv, QueueNodesAreSafe
<1>2. QED
  BY <1>1, NodesInit, NodesNext, PTL DEF MCSpec

-----------------------------------------------------------------------------
(* The elided locks of the specification *)

ElidedInv == family = "elision" => ElisionInv

\* The programs of transactional/ start in a state of their invariant.
LEMMA ElidedInit == MCInit => ElidedInv
BY ElisionInit DEF MCInit, ElidedInv

\* No step leaves it, whether of a thread, a store buffer or a transaction.
LEMMA ElidedNext == ElidedInv /\ [MCNext]_mcvars => ElidedInv'
<1> SUFFICES ASSUME ElidedInv, [MCNext]_mcvars, family' = "elision"
             PROVE  ElisionInv'
  BY DEF ElidedInv
<1>1. ASSUME NEW t \in Threads, MCStep(t)
      PROVE  ElisionInv'
  BY <1>1, ElisionStep DEF MCStep, ElidedInv
<1>2. ASSUME NEW t \in Threads, MCDrain(t)
      PROVE  ElisionInv'
  BY <1>2, ElisionDrain DEF MCDrain, ElidedInv
<1>3. ASSUME NEW t \in Threads, MCSpontaneous(t)
      PROVE  ElisionInv'
  BY <1>3, ElisionSpontaneous DEF MCSpontaneous, ElidedInv
<1>4. CASE MCJoin \/ UNCHANGED mcvars
  <2>1. UNCHANGED <<pc, memvars, prog, htm>> /\ family = "elision"
    BY <1>4 DEF MCJoin, Joined, mcvars, loopvars, locals
  <2>2. QED
    BY <2>1, ElisionStutter DEF ElidedInv
<1>5. QED
  BY <1>1, <1>2, <1>3, <1>4 DEF MCNext

\* No hardware transaction lives on while another thread has the mutex or runs in
\* TinySTM.
THEOREM ElisionIsExclusiveHolds == MCSpec => []ElisionIsExclusive
<1>1. ElidedInv => ElisionIsExclusive
  BY ElisionSafe DEF ElidedInv, ElisionIsExclusive
<1>2. QED
  BY <1>1, ElidedInit, ElidedNext, PTL DEF MCSpec

-----------------------------------------------------------------------------
(* The locks of one word and the ticket and array locks of the specification *)

SpinsInv == family = "spin" => SpinInv

\* Nothing happens.
LEMMA SpinStutter ==
  ASSUME SpinInv, UNCHANGED <<pc, memvars>>
  PROVE  SpinInv'
<1>1. mem' = mem /\ TSOType({Mutex, Counter}, BufferSize)' /\ \A u, a : Kept(u, a)
  BY NoEffect DEF SpinInv, SpinType
<1>2. \A u \in Threads : /\ InCS(u)' <=> InCS(u)
                         /\ SpinOwner(u)' <=> SpinOwner(u)
                         /\ Late(u, Mutex)' <=> Late(u, Mutex)
                         /\ Once(u, Mutex)' <=> Once(u, Mutex)
                         /\ Read(u, Mutex)' = Read(u, Mutex)
  BY <1>1 DEF InCS, SpinOwner, Kept
<1>3. SpinHeld'
  BY <1>1, <1>2 DEF SpinInv, SpinHeld
<1>4. QED
  BY <1>1, <1>3 DEF SpinInv, SpinType

\* The locks of one word start in a state of their invariant,
LEMMA SpinsInit == MCInit => SpinsInv
BY SpinInit DEF MCInit, SpinsInv

\* and do not leave it.
LEMMA SpinsNext == SpinsInv /\ [MCNext]_mcvars => SpinsInv'
<1> SUFFICES ASSUME SpinsInv, [MCNext]_mcvars, family' = "spin"
             PROVE  SpinInv'
  BY DEF SpinsInv
<1>1. ASSUME NEW t \in Threads, MCStep(t)
      PROVE  SpinInv'
  BY <1>1, SpinStep DEF MCStep, SpinsInv
<1>2. ASSUME NEW t \in Threads, MCDrain(t)
      PROVE  SpinInv'
  BY <1>2, SpinDrain DEF MCDrain, SpinsInv
<1>3. ASSUME NEW t \in Threads, MCSpontaneous(t)
      PROVE  SpinInv'
  BY <1>3 DEF MCSpontaneous
<1>4. CASE MCJoin \/ UNCHANGED mcvars
  <2>1. UNCHANGED <<pc, memvars>> /\ family = "spin"
    BY <1>4 DEF MCJoin, Joined, mcvars, loopvars
  <2>2. QED
    BY <2>1, SpinStutter DEF SpinsInv
<1>5. QED
  BY <1>1, <1>2, <1>3, <1>4 DEF MCNext

SlotsInv == family = "slots" => \/ prog.lock = "ticket" /\ TicketInv
                                \/ prog.lock = "array" /\ ArrayInv

\* The ticket and array locks start in a state of their invariants.
LEMMA SlotsInit == MCInit => SlotsInv
<1> SUFFICES ASSUME MCInit, family = "slots"
             PROVE  SlotsInv
  BY DEF SlotsInv
<1>1. /\ Slots!TicketInit \/ Slots!ArrayInit
      /\ LoopInit /\ ticket = [t \in Threads |-> 0]
  BY DEF MCInit, Slots!Init, Slots!LoopInit, LoopInit
<1>2. CASE Slots!TicketInit
  <2>1. prog.lock = "ticket"
    BY <1>2 DEF Slots!TicketInit, Slots!GetAndAdd, Slots!GoGetAndAdd, Slots!Ticket,
                Slots!TicketYield, Slots!Tickets
  <2>2. QED
    BY <1>1, <1>2, <2>1, TicketInit DEF SlotsInv
<1>3. CASE Slots!ArrayInit
  <2>1. prog.lock = "array"
    BY <1>3 DEF Slots!ArrayInit, Slots!ArrayLock
  <2>2. QED
    BY <1>1, <1>3, <2>1, ArrayInit DEF SlotsInv
<1>4. QED
  BY <1>1, <1>2, <1>3

\* No step of theirs leaves them.
LEMMA SlotsNext == SlotsInv /\ [MCNext]_mcvars => SlotsInv'
<1> SUFFICES ASSUME SlotsInv, [MCNext]_mcvars, family' = "slots"
             PROVE  SlotsInv'
  BY DEF SlotsInv
<1>1. ASSUME NEW t \in Threads, MCStep(t)
      PROVE  SlotsInv'
  <2>1. family = "slots" /\ Slots!Step(t)
    BY <1>1 DEF MCStep
  <2>2. CASE prog.lock = "ticket" /\ TicketInv
    <3>1. (Slots!TicketStep(t) \/ Slots!Count(t)) /\ prog' = prog
      BY <2>1, <2>2 DEF Slots!Step, Slots!TicketStep, Slots!TakeNumber, Slots!AwaitTurn,
                        Slots!Yield, Slots!PassTurn, Slots!Count
    <3>2. QED
      BY <2>2, <3>1, TicketStep DEF SlotsInv
  <2>3. CASE prog.lock = "array" /\ ArrayInv
    <3>1. (Slots!ArrayStep(t) \/ Slots!Count(t)) /\ prog' = prog
      BY <2>1, <2>3 DEF Slots!Step, Slots!ArrayStep, Slots!TakeSlot, Slots!AwaitFlag,
                        Slots!ClearFlag, Slots!PassFlag, Slots!Count
    <3>2. QED
      BY <2>3, <3>1, ArrayStep DEF SlotsInv
  <2>4. QED
    BY <2>1, <2>2, <2>3 DEF SlotsInv
<1>2. ASSUME NEW t \in Threads, MCDrain(t)
      PROVE  SlotsInv'
  <2>1. family = "slots" /\ Drain(t) /\ prog' = prog /\ ticket' = ticket
    BY <1>2 DEF MCDrain, locals
  <2>2. QED
    BY <2>1, TicketDrain, ArrayDrain DEF SlotsInv
<1>3. ASSUME NEW t \in Threads, MCSpontaneous(t)
      PROVE  SlotsInv'
  BY <1>3 DEF MCSpontaneous
<1>4. CASE MCJoin \/ UNCHANGED mcvars
  <2>1. UNCHANGED <<pc, memvars, ticket, prog>> /\ family = "slots"
    BY <1>4 DEF MCJoin, Joined, mcvars, loopvars, locals
  <2>2. QED
    BY <2>1, TicketStutter, ArrayStutter DEF SlotsInv
<1>5. QED
  BY <1>1, <1>2, <1>3, <1>4 DEF MCNext

\* Who is in with the ticket lock has the ticket of the turn.
LEMMA TicketSafe ==
  ASSUME TicketInv
  PROVE  \A s, t \in Threads : InCS(s) /\ InCS(t) => s = t
<1> SUFFICES ASSUME NEW s \in Threads, NEW t \in Threads, InCS(s), InCS(t)
             PROVE  s = t
  OBVIOUS
<1>1. ticket[s] = mem[TicketTurn] /\ ticket[t] = mem[TicketTurn]
  BY DEF TicketInv, TicketOf
<1>2. s \in Served \ {} /\ t \in Served \ {}
  BY DEF Served, InCS
<1>3. /\ mem[TicketTurn] \in Below(Wrap)
      /\ Books(Wrap, mem[TicketTurn], mem[TicketTurn], NextTicket, {}, Served, ticket)
  BY DEF TicketInv, TicketType, TicketBooks
<1>4. QED
  BY <1>1, <1>2, <1>3 DEF Books

\* Two writers of ticket_rw_lock would both have the turn.
LEMMA TurnSafe ==
  ASSUME TurnInv
  PROVE  \A s, t \in Threads : InCS(s) /\ InCS(t) => s = t
<1> SUFFICES ASSUME NEW s \in Threads, NEW t \in Threads, InCS(s), InCS(t)
             PROVE  s = t
  OBVIOUS
<1>1. TurnWriter(s) /\ TurnWriter(t)
  BY DEF TurnWriter, InCS
<1>2. TurnOf(s) /\ TurnOf(t) /\ s \in Queued \ Passed /\ t \in Queued \ Passed
  BY <1>1, TurnFacts DEF TurnInv
<1>3. ticket[s] = mem[WriterTurn] /\ ticket[t] = mem[WriterTurn]
  BY <1>1, <1>2 DEF TurnOf
<1>4. QED
  BY <1>2, <1>3, TurnFacts

\* At most one thread is inside a spinlock, whichever it is and however late the
\* stores that release it reach memory.
THEOREM MutualExclusionHolds == MCSpec => []MutualExclusion
<1> DEFINE Inv == /\ family \in {"spin", "slots", "nodes", "rw", "elision"}
                  /\ SpinsInv /\ SlotsInv /\ NodesInv /\ RwInv /\ ElidedInv
<1>1. Inv => MutualExclusion
  <2> SUFFICES ASSUME Inv
               PROVE  \A s, t \in Threads : InCS(s) /\ InCS(t) => s = t
    BY DEF MutualExclusion, InCS
  <2>1. CASE family = "spin"
    BY <2>1 DEF SpinsInv, SpinInv, SpinHeld, SpinOwner
  <2>2. CASE family = "slots"
    BY <2>2, TicketSafe, ArraySafe DEF SlotsInv
  <2>3. CASE family = "nodes"
    BY <2>3, ClhSafe, McsSafe DEF NodesInv
  <2>4. CASE family = "rw"
    <3>1. CASE WordInv
      BY <3>1 DEF WordInv, WordHeld, Writer, Alone
    <3>2. CASE TurnInv
      BY <3>2, TurnSafe
    <3>3. QED
      BY <2>4, <3>1, <3>2 DEF RwInv
  <2>5. CASE family = "elision"
    BY <2>5, ElisionSafe DEF ElidedInv
  <2>6. QED
    BY <2>1, <2>2, <2>3, <2>4, <2>5
<1>2. MCInit => Inv
  BY SpinsInit, SlotsInit, NodesInit, RwInit, ElidedInit DEF MCInit
<1>3. Inv /\ [MCNext]_mcvars => Inv'
  <2> SUFFICES ASSUME Inv, [MCNext]_mcvars
               PROVE  Inv'
    OBVIOUS
  <2>1. family' = family
    BY DEF MCNext, MCStep, MCDrain, MCSpontaneous, MCJoin, mcvars
  <2>2. QED
    BY <2>1, SpinsNext, SlotsNext, NodesNext, RwNext, ElidedNext
<1>4. QED
  BY <1>1, <1>2, <1>3, PTL DEF MCSpec

-----------------------------------------------------------------------------
(* The queue locks in order of arrival *)

\* The threads between the instruction that queues them and their entry.
WaitLabels == {"wait", "pause", "clear", "link", "own"}
InsideLabels == {"load", "store", "unlock", "cas", "linked", "handoff"}
OutLabels == {"begin", "set", "swap", "done"}
Waiting == {t \in Threads : pc[t] \in WaitLabels}

\* Where the instruction is that gives a thread its place in the queue.
ArrivalLabel == IF family = "nodes" THEN "swap" ELSE "begin"

\* What says in the state of each lock that t is next behind s,
Follows(s, t) ==
  IF family = "slots" THEN
    IF prog.lock = "ticket" THEN ticket[t] = Plus(Wrap, ticket[s], 1)
    ELSE \E k \in Below(N) : ticket[s] = k * Padding /\ ticket[t] = Plus(N, k, 1) * Padding
  ELSE IF prog.lock = "clh" THEN pred[t] = node[s]
  ELSE pred[t] = s /\ t \in Behind

\* and that s is the last in the queue.
IsLast(s) ==
  IF family = "slots" THEN
    IF prog.lock = "ticket" THEN NextTicket = Plus(Wrap, ticket[s], 1)
    ELSE \E k \in Below(N) : ticket[s] = k * Padding /\ mem[ArrayTail] % N = Plus(N, k, 1)
  ELSE mem[ClhTail] = IF prog.lock = "clh" THEN node[s] ELSE s

\* arrived is the queue that the lock keeps.
Line ==
  /\ arrived \in Seq(Waiting)
  /\ \A t \in Waiting : \E k \in 1 .. Len(arrived) : arrived[k] = t
  /\ \A k, l \in 1 .. Len(arrived) : arrived[k] = arrived[l] => k = l
  /\ \A k \in 1 .. Len(arrived) - 1 : Follows(arrived[k], arrived[k + 1])
  /\ Len(arrived) > 0 => IsLast(arrived[Len(arrived)])

\* A thread that is not the first of the queue is behind another one, and only the
\* last one has nobody behind it.
LEMMA LineFacts ==
  ASSUME Line, NEW t \in Waiting
  PROVE  /\ arrived # <<>> /\ Len(arrived) > 0 /\ Len(arrived) \in Nat
         /\ Head(arrived) \in Waiting /\ arrived[Len(arrived)] \in Waiting
         /\ IsLast(arrived[Len(arrived)])
         /\ t # Head(arrived) => \E s \in Waiting : /\ Follows(s, t) /\ s # t
                                                    /\ s # arrived[Len(arrived)]
<1>1. Len(arrived) \in Nat /\ \A k \in 1 .. Len(arrived) : arrived[k] \in Waiting
  BY DEF Line
<1>2. PICK k \in 1 .. Len(arrived) : arrived[k] = t
  BY DEF Line
<1>3. Len(arrived) > 0 /\ arrived # <<>> /\ Head(arrived) = arrived[1]
  BY <1>1, <1>2 DEF Line
<1>4. ASSUME t # Head(arrived)
      PROVE  \E s \in Waiting : Follows(s, t) /\ s # t /\ s # arrived[Len(arrived)]
  <2>1. k # 1
    BY <1>2, <1>3, <1>4
  <2>2. /\ k - 1 \in 1 .. Len(arrived) - 1 /\ k - 1 \in 1 .. Len(arrived) /\ k - 1 + 1 = k
        /\ k - 1 # k /\ k - 1 # Len(arrived) /\ Len(arrived) \in 1 .. Len(arrived)
    BY <1>1, <1>2, <2>1
  <2>3. Follows(arrived[k - 1], arrived[k - 1 + 1])
    BY <2>2 DEF Line
  <2>4. arrived[k - 1] # arrived[k] /\ arrived[k - 1] # arrived[Len(arrived)]
    BY <2>2 DEF Line
  <2>5. QED
    BY <1>1, <1>2, <2>2, <2>3, <2>4
<1>5. /\ Len(arrived) \in 1 .. Len(arrived) /\ 1 \in 1 .. Len(arrived)
      /\ IsLast(arrived[Len(arrived)])
  BY <1>1, <1>3 DEF Line
<1>6. Head(arrived) \in Waiting /\ arrived[Len(arrived)] \in Waiting
  BY <1>1, <1>3, <1>5
<1>7. QED
  BY <1>1, <1>3, <1>4, <1>5, <1>6

\* A step that nobody waits less or more for.
LEMMA LineStays ==
  ASSUME Line, arrived' = arrived, Waiting' = Waiting,
         \A s, t \in Waiting : Follows(s, t) => Follows(s, t)',
         \A s \in Waiting : IsLast(s) => IsLast(s)'
  PROVE  Line'
<1>1. Len(arrived) \in Nat /\ \A k \in 1 .. Len(arrived) : arrived[k] \in Waiting
  BY DEF Line
<1>2. \A k \in 1 .. Len(arrived) - 1 : Follows(arrived[k], arrived[k + 1])'
  <2> SUFFICES ASSUME NEW k \in 1 .. Len(arrived) - 1
               PROVE  Follows(arrived[k], arrived[k + 1])'
    OBVIOUS
  <2>1. arrived[k] \in Waiting /\ arrived[k + 1] \in Waiting
    BY <1>1
  <2>2. Follows(arrived[k], arrived[k + 1])
    BY DEF Line
  <2>3. QED
    BY <2>1, <2>2
<1>3. Len(arrived) > 0 => IsLast(arrived[Len(arrived)])'
  BY <1>1 DEF Line
<1>4. QED
  BY <1>1, <1>2, <1>3 DEF Line

\* A thread arrives behind the last one.
LEMMA LineArrives ==
  ASSUME Line, NEW t, t \notin Waiting, Waiting' = Waiting \cup {t},
         arrived' = Append(arrived, t),
         \A s, u \in Waiting : Follows(s, u) => Follows(s, u)',
         \A s \in Waiting : IsLast(s) => Follows(s, t)',
         IsLast(t)'
  PROVE  Line'
<1> DEFINE n == Len(arrived)
<1>1. /\ n \in Nat /\ \A k \in 1 .. n : arrived[k] \in Waiting
      /\ Len(arrived') = n + 1 /\ arrived'[n + 1] = t
      /\ \A k \in 1 .. n : arrived'[k] = arrived[k]
      /\ arrived' \in Seq(Waiting')
  BY DEF Line
<1>2. ASSUME NEW k \in 1 .. n
      PROVE  Follows(arrived[k], arrived[k + 1])'
  <2>1. CASE k = n
    <3>1. PICK s \in Waiting : s = arrived[k] /\ IsLast(s)
      BY <1>1, <1>2, <2>1 DEF Line
    <3>2. Follows(s, t)' /\ arrived'[k] = s /\ arrived'[k + 1] = t
      BY <1>1, <1>2, <2>1, <3>1
    <3>3. QED
      BY <3>2
  <2>2. CASE k # n
    <3>1. k \in 1 .. n - 1 /\ k + 1 \in 1 .. n
      BY <1>1, <1>2, <2>2
    <3>2. Follows(arrived[k], arrived[k + 1])
      BY <3>1 DEF Line
    <3>3. PICK s \in Waiting, u \in Waiting :
            s = arrived[k] /\ u = arrived[k + 1] /\ Follows(s, u)
      BY <1>1, <1>2, <3>1, <3>2
    <3>4. arrived'[k] = s /\ arrived'[k + 1] = u /\ Follows(s, u)'
      BY <1>1, <1>2, <3>1, <3>3
    <3>5. QED
      BY <3>4
  <2>3. QED
    BY <2>1, <2>2
<1>3. \A u \in Waiting' : \E k \in 1 .. n + 1 : arrived'[k] = u
  <2> SUFFICES ASSUME NEW u \in Waiting'
               PROVE  \E k \in 1 .. n + 1 : arrived'[k] = u
    OBVIOUS
  <2>1. CASE u = t
    BY <1>1, <2>1
  <2>2. CASE u # t
    <3>1. PICK k \in 1 .. n : arrived[k] = u
      BY <2>2 DEF Line
    <3>2. QED
      BY <1>1, <3>1
  <2>3. QED
    BY <2>1, <2>2
<1>4. \A k, l \in 1 .. n + 1 : arrived'[k] = arrived'[l] => k = l
  <2> SUFFICES ASSUME NEW k \in 1 .. n + 1, NEW l \in 1 .. n + 1, arrived'[k] = arrived'[l]
               PROVE  k = l
    OBVIOUS
  <2>1. (k \in 1 .. n \/ k = n + 1) /\ (l \in 1 .. n \/ l = n + 1)
    BY <1>1
  <2>2. k \in 1 .. n /\ l \in 1 .. n => k = l
    BY <1>1 DEF Line
  <2>3. QED
    BY <1>1, <2>1, <2>2
<1> HIDE DEF n
<1>5. (n + 1) - 1 = n
  BY <1>1
<1>6. IsLast(arrived[Len(arrived)])'
  BY <1>1
<1>7. QED
  BY <1>1, <1>2, <1>3, <1>4, <1>5, <1>6 DEF Line

\* The first one enters.
LEMMA LineEnters ==
  ASSUME Line, NEW t \in Waiting, Head(arrived) = t, Waiting' = Waiting \ {t},
         arrived' = Tail(arrived),
         \A s, u \in Waiting : Follows(s, u) => Follows(s, u)',
         \A s \in Waiting : IsLast(s) => IsLast(s)'
  PROVE  Line'
<1> DEFINE n == Len(arrived)
<1>1. /\ n \in Nat /\ n > 0 /\ \A k \in 1 .. n : arrived[k] \in Waiting
      /\ arrived # <<>> /\ arrived \in Seq(Waiting)
  BY LineFacts DEF Line
<1>2. /\ Len(arrived') = n - 1
      /\ \A k \in 1 .. n - 1 : arrived'[k] = arrived[k + 1]
      /\ arrived[1] = t /\ arrived' \in Seq(Waiting)
  BY <1>1
<1>3. \A k \in 1 .. n - 1 : k + 1 \in 1 .. n /\ 1 \in 1 .. n /\ k + 1 # 1
  BY <1>1
<1>4. \A k \in 1 .. n - 1 : arrived'[k] \in Waiting'
  BY <1>1, <1>2, <1>3 DEF Line
<1>5. arrived' \in Seq(Waiting')
  <2> DEFINE m == Len(arrived')
             q == arrived'
             V == Waiting
             W == Waiting'
  <2>1. q \in Seq(V) /\ m = Len(q) /\ \A k \in 1 .. m : q[k] \in W
    BY <1>2, <1>4
  <2> HIDE DEF m, q, V, W
  <2>2. m \in Nat /\ q \in [1 .. m -> V]
    BY <2>1
  <2>3. q \in [1 .. m -> W]
    BY <2>1, <2>2
  <2>4. q \in Seq(W)
    BY <2>2, <2>3
  <2>5. QED
    BY <2>4 DEF q, W
<1>6. \A u \in Waiting' : \E k \in 1 .. n - 1 : arrived'[k] = u
  <2> SUFFICES ASSUME NEW u \in Waiting'
               PROVE  \E k \in 1 .. n - 1 : arrived'[k] = u
    OBVIOUS
  <2>1. PICK k \in 1 .. n : arrived[k] = u
    BY DEF Line
  <2>2. k # 1
    BY <1>2, <2>1
  <2>3. k - 1 \in 1 .. n - 1 /\ k - 1 + 1 = k
    BY <1>1, <2>1, <2>2
  <2>4. QED
    BY <1>2, <2>1, <2>3
<1>7. \A k, l \in 1 .. n - 1 : arrived'[k] = arrived'[l] => k = l
  <2> SUFFICES ASSUME NEW k \in 1 .. n - 1, NEW l \in 1 .. n - 1, arrived'[k] = arrived'[l]
               PROVE  k = l
    OBVIOUS
  <2>1. arrived[k + 1] = arrived[l + 1]
    BY <1>2
  <2>2. k + 1 = l + 1
    BY <1>3, <2>1 DEF Line
  <2>3. QED
    BY <1>1, <2>2
<1>8. ASSUME NEW k \in 1 .. (n - 1) - 1
      PROVE  Follows(arrived[k], arrived[k + 1])'
  <2>1. /\ k \in 1 .. n - 1 /\ k + 1 \in 1 .. n - 1 /\ k + 1 \in 1 .. n
        /\ k + 1 + 1 \in 1 .. n
    BY <1>1
  <2>2. Follows(arrived[k + 1], arrived[k + 1 + 1])
    BY <2>1 DEF Line
  <2>3. PICK s \in Waiting, u \in Waiting :
          s = arrived[k + 1] /\ u = arrived[k + 1 + 1] /\ Follows(s, u)
    BY <1>1, <2>1, <2>2
  <2>4. arrived'[k] = s /\ arrived'[k + 1] = u /\ Follows(s, u)'
    BY <1>2, <2>1, <2>3
  <2>5. QED
    BY <2>4
<1>9. ASSUME n - 1 > 0
      PROVE  IsLast(arrived[Len(arrived)])'
  <2>1. n - 1 \in 1 .. n - 1 /\ n - 1 + 1 = n /\ n \in 1 .. n
    BY <1>1, <1>9
  <2>2. arrived'[n - 1] = arrived[n] /\ arrived[n] \in Waiting /\ IsLast(arrived[n])
    BY <1>1, <1>2, <1>9, <2>1 DEF Line
  <2>3. PICK s \in Waiting : s = arrived[n] /\ IsLast(s)
    BY <2>2
  <2>4. arrived'[Len(arrived')] = s /\ IsLast(s)'
    BY <1>2, <2>2, <2>3
  <2>5. QED
    BY <2>4
<1> HIDE DEF n
<1>10. QED
  BY <1>2, <1>5, <1>6, <1>7, <1>8, <1>9 DEF Line

\* A step of FifoLock, or none.
FifoStep == Fifo!Next \/ UNCHANGED <<arrived, Inside>>

\* An instruction of a queue lock: t goes to l.
QueueStep(t, l) ==
  /\ family \in {"slots", "nodes"} /\ family' = family /\ Record
  /\ pc = [u \in Threads |-> pc[u]] /\ pc' = [pc EXCEPT ![t] = l]

\* What Record does to the history.
LEMMA RecordEffect ==
  ASSUME NEW t \in Threads, NEW l, QueueStep(t, l)
  PROVE  /\ pc'[t] = l /\ \A u \in Threads : u # t => pc'[u] = pc[u]
         /\ pc[t] = ArrivalLabel /\ l # ArrivalLabel => arrived' = Append(arrived, t)
         /\ pc[t] \notin {ArrivalLabel, "load"} /\ l = "load" /\ arrived # <<>> =>
              arrived' = Tail(arrived)
         /\ pc[t] # ArrivalLabel /\ (l # "load" \/ pc[t] = "load") => arrived' = arrived
<1>1. pc'[t] = l /\ \A u \in Threads : u # t => pc'[u] = pc[u]
  BY DEF QueueStep
<1>2. \A u \in Threads : Arrives(u) <=> u = t /\ pc[t] = ArrivalLabel /\ l # ArrivalLabel
  BY <1>1 DEF Arrives, ArrivalLabel
<1>3. \A u \in Threads : Enters(u) <=> u = t /\ pc[t] # "load" /\ l = "load"
  BY <1>1 DEF Enters
<1>4. ASSUME pc[t] = ArrivalLabel, l # ArrivalLabel
      PROVE  arrived' = Append(arrived, t)
  <2>1. (CHOOSE u \in Threads : Arrives(u)) = t
    BY <1>2, <1>4
  <2>2. QED
    BY <1>2, <1>4, <2>1 DEF Record, QueueStep
<1>5. pc[t] # ArrivalLabel => ~ \E u \in Threads : Arrives(u)
  BY <1>2
<1>6. QED
  BY <1>1, <1>3, <1>4, <1>5 DEF Record, QueueStep

\* A step of a waiting loop, of the thread inside, out of unlock(), or towards the
\* instruction that queues.
LEMMA QuietStep ==
  ASSUME Line, NEW t \in Threads, NEW l, QueueStep(t, l), pc[t] # ArrivalLabel,
         \/ pc[t] \in WaitLabels /\ l \in WaitLabels
         \/ pc[t] \in InsideLabels /\ l \in (InsideLabels \ {"load"}) \cup OutLabels
         \/ pc[t] \in OutLabels /\ l \in OutLabels,
         \A s, u \in Waiting : Follows(s, u) => Follows(s, u)',
         \A s \in Waiting : IsLast(s) => IsLast(s)'
  PROVE  Line' /\ FifoStep
<1> USE DEF WaitLabels, InsideLabels, OutLabels
<1>1. /\ pc'[t] = l /\ \A u \in Threads : u # t => pc'[u] = pc[u]
      /\ arrived' = arrived
  BY RecordEffect
<1>2. Waiting' = Waiting
  BY <1>1 DEF Waiting
<1>3. Line'
  BY <1>1, <1>2, LineStays
<1>4. CASE pc[t] \in InsideLabels /\ l \in OutLabels
  <2>1. t \in Inside /\ Inside' = Inside \ {t}
    BY <1>1, <1>4 DEF Inside
  <2>2. Fifo!Leave(t)
    BY <1>1, <2>1 DEF Fifo!Leave
  <2>3. QED
    BY <1>3, <2>2 DEF FifoStep, Fifo!Next
<1>5. CASE ~ (pc[t] \in InsideLabels /\ l \in OutLabels)
  <2>1. Inside' = Inside
    BY <1>1, <1>5 DEF Inside
  <2>2. QED
    BY <1>1, <1>3, <2>1 DEF FifoStep
<1>6. QED
  BY <1>4, <1>5

\* The instruction that queues.
LEMMA ArrivalStep ==
  ASSUME Line, NEW t \in Threads, NEW l, QueueStep(t, l), pc[t] = ArrivalLabel,
         l \in WaitLabels,
         \A s, u \in Waiting : Follows(s, u) => Follows(s, u)',
         \A s \in Waiting : IsLast(s) => Follows(s, t)',
         IsLast(t)'
  PROVE  Line' /\ FifoStep
<1> USE DEF WaitLabels, InsideLabels, OutLabels
<1>1. /\ pc'[t] = l /\ \A u \in Threads : u # t => pc'[u] = pc[u]
      /\ arrived' = Append(arrived, t) /\ pc[t] \in OutLabels
  BY RecordEffect DEF ArrivalLabel
<1>2. t \notin Waiting /\ Waiting' = Waiting \cup {t} /\ Inside' = Inside
  BY <1>1 DEF Waiting, Inside
<1>3. Line'
  BY <1>1, <1>2, LineArrives
<1>4. Fifo!Arrive(t)
  BY <1>1, <1>2 DEF Fifo!Arrive
<1>5. QED
  BY <1>3, <1>4 DEF FifoStep, Fifo!Next

\* The end of lock(), for which nobody may be inside.
LEMMA EntryStep ==
  ASSUME Line, NEW t \in Threads, QueueStep(t, "load"), pc[t] \in WaitLabels,
         t = Head(arrived), Inside = {},
         \A s, u \in Waiting : Follows(s, u) => Follows(s, u)',
         \A s \in Waiting : IsLast(s) => IsLast(s)'
  PROVE  Line' /\ FifoStep
<1> USE DEF WaitLabels, InsideLabels, OutLabels
<1>1. pc[t] \notin {ArrivalLabel, "load"} /\ t \in Waiting
  BY DEF ArrivalLabel, Waiting
<1>2. arrived # <<>>
  BY <1>1, LineFacts
<1>3. /\ pc'[t] = "load" /\ \A u \in Threads : u # t => pc'[u] = pc[u]
      /\ arrived' = Tail(arrived)
  BY <1>1, <1>2, RecordEffect
<1>4. Waiting' = Waiting \ {t} /\ Inside' = {t}
  BY <1>3 DEF Waiting, Inside
<1>5. Line'
  BY <1>1, <1>3, <1>4, LineEnters
<1>6. Fifo!Enter(t)
  BY <1>2, <1>3, <1>4 DEF Fifo!Enter
<1>7. QED
  BY <1>5, <1>6 DEF FifoStep, Fifo!Next

\* A step that no thread makes.
LEMMA IdleStep ==
  ASSUME Line, pc' = pc, arrived' = arrived,
         \A s, u \in Waiting : Follows(s, u) => Follows(s, u)',
         \A s \in Waiting : IsLast(s) => IsLast(s)'
  PROVE  Line' /\ FifoStep
<1>1. Waiting' = Waiting /\ Inside' = Inside
  BY DEF Waiting, Inside
<1>2. QED
  BY <1>1, LineStays DEF FifoStep

\* The thread at the head of the queue is behind another one only if the queue is
\* full, and then that one is the last.
LEMMA BooksHead ==
  ASSUME NEW M \in Nat \ {0}, Cardinality(Threads) <= M, NEW w \in Below(M), NEW n, NEW Q,
         NEW k, Books(M, w, w, n, {}, Q, k), NEW s \in Q, NEW e \in Q,
         k[s] \in Below(M), k[e] \in Below(M), Plus(M, k[s], 1) = w, n = Plus(M, k[e], 1)
  PROVE  s = e
<1>1. Q \subseteq Threads /\ {} \subseteq Q
  BY DEF Books
<1>2. Cardinality(Q) \in Nat /\ Cardinality(Q) <= M
  BY <1>1, BooksSize
<1>3. Gap(M, w, k[s]) < Cardinality(Q) /\ n = Plus(M, w, Cardinality(Q))
  BY DEF Books
<1>4. w \in Int /\ 0 <= w /\ w < M /\ k[s] \in Int /\ 0 <= k[s] /\ k[s] < M /\ M \in Int
      /\ k[e] \in Int /\ 0 <= k[e] /\ k[e] < M
  BY DEF Below
<1>5. Gap(M, w, k[s]) = M - 1
  BY <1>4 DEF Gap, Plus
<1>6. Cardinality(Q) = M
  BY <1>2, <1>3, <1>4, <1>5
<1>7. Plus(M, k[e], 1) = w
  BY <1>3, <1>4, <1>6 DEF Plus
<1>8. k[s] = k[e]
  BY <1>4, <1>7 DEF Plus
<1>9. QED
  BY <1>8 DEF Books

\* The steps of the ticket locks.
LEMMA TicketFifo ==
  ASSUME family = "slots", family' = family, prog.lock = "ticket", TicketInv, Line, Record,
         NEW t \in Threads, Slots!TicketStep(t) \/ Slots!Count(t)
  PROVE  Line' /\ FifoStep
<1> USE DEF Slots!Goto, WaitLabels, InsideLabels, OutLabels
<1>0. /\ TicketType /\ \A u \in Threads : TicketOf(u)
      /\ ArrivalLabel = "begin" /\ pc = [u \in Threads |-> pc[u]]
  BY DEF TicketInv, TicketType, ArrivalLabel
<1>1. ASSUME prog' = prog, ticket' = ticket, mem'[TicketNumber] = mem[TicketNumber]
      PROVE  /\ \A s, u \in Waiting : Follows(s, u) => Follows(s, u)'
             /\ \A s \in Waiting : IsLast(s) => IsLast(s)'
  BY <1>1 DEF Follows, IsLast, NextTicket
<1>2. CASE Slots!AwaitTurn(t)
  <2>1. Read(t, TicketTurn) = mem[TicketTurn]
    BY <1>0, ReadEffect DEF TicketOf
  <2>2. PICK l \in {"load", "pause", "wait"} :
          /\ pc' = [pc EXCEPT ![t] = l]
          /\ l = "load" => mem[TicketTurn] = ticket[t]
    BY <1>2, <2>1, SlotsOperators DEF Slots!AwaitTurn, TicketTurn
  <2>3. pc[t] = "wait" /\ mem' = mem /\ ticket' = ticket /\ prog' = prog
    BY <1>2 DEF Slots!AwaitTurn, Slots!memvars
  <2>4. QueueStep(t, l)
    BY <1>0, <2>2 DEF QueueStep
  <2>5. CASE l = "load"
    <3>1. t \in Waiting /\ t \in Served
      BY <2>3 DEF Waiting, Served
    <3>2. ASSUME NEW s \in Waiting, Follows(s, t), s # arrived[Len(arrived)]
          PROVE  FALSE
      <4>1. /\ arrived[Len(arrived)] \in Waiting /\ IsLast(arrived[Len(arrived)])
        BY <3>1, LineFacts
      <4>2. PICK e \in Waiting : e = arrived[Len(arrived)] /\ IsLast(e)
        BY <4>1
      <4>3. /\ Plus(Wrap, ticket[s], 1) = mem[TicketTurn]
            /\ NextTicket = Plus(Wrap, ticket[e], 1)
        BY <2>2, <2>5, <3>2, <4>2 DEF Follows, IsLast
      <4>4. /\ s \in Served /\ e \in Served
            /\ ticket[s] \in Below(Wrap) /\ ticket[e] \in Below(Wrap)
            /\ mem[TicketTurn] \in Below(Wrap)
        BY <1>0 DEF Waiting, Served, TicketType
      <4>5. Books(Wrap, mem[TicketTurn], mem[TicketTurn], NextTicket, {}, Served, ticket)
        BY DEF TicketInv, TicketBooks
      <4>6. s = e
        BY <4>3, <4>4, <4>5, WrapFacts, BooksHead
      <4>7. QED
        BY <3>2, <4>2, <4>6
    <3>3. t = Head(arrived)
      BY <3>1, <3>2, LineFacts
    <3>4. Inside = {}
      <4> SUFFICES ASSUME NEW u \in Inside
                   PROVE  FALSE
        OBVIOUS
      <4>1. u \in Threads /\ InCS(u) /\ u # t
        BY <1>0, <2>3 DEF Inside, InCS, TicketType, TicketLabels
      <4>2. ticket[u] = mem[TicketTurn] /\ ticket[t] = mem[TicketTurn]
        BY <1>0, <2>2, <2>5, <4>1 DEF TicketOf
      <4>3. u \in Served \ {} /\ t \in Served \ {}
        BY <3>1, <4>1 DEF Served, InCS
      <4>4. QED
        BY <4>1, <4>2, <4>3 DEF TicketInv, TicketBooks, Books
    <3>5. QED
      BY <1>1, <2>3, <2>4, <2>5, <3>3, <3>4, EntryStep
  <2>6. CASE l # "load"
    BY <1>0, <1>1, <2>2, <2>3, <2>4, <2>6, QuietStep
  <2>7. QED
    BY <2>5, <2>6
<1>3. CASE Slots!Yield(t)
  <2>1. /\ pc[t] = "pause" /\ pc' = [pc EXCEPT ![t] = "wait"]
        /\ mem' = mem /\ ticket' = ticket /\ prog' = prog
    BY <1>3 DEF Slots!Yield, Slots!memvars
  <2>2. QueueStep(t, "wait")
    BY <1>0, <2>1 DEF QueueStep
  <2>3. QED
    BY <1>0, <1>1, <2>1, <2>2, QuietStep
<1>4. CASE Slots!Count(t)
  <2>1. PICK l \in {"store", "unlock"} :
          pc[t] \in {"load", "store"} /\ pc' = [pc EXCEPT ![t] = l]
    BY <1>4 DEF Slots!Count, Slots!Load, Slots!Store
  <2>2. mem'[TicketNumber] = mem[TicketNumber] /\ ticket' = ticket /\ prog' = prog
    <3>1. CASE Slots!Load(t)
      BY <1>4, <3>1 DEF Slots!Count, Slots!Load
    <3>2. CASE Slots!Store(t)
      <4>1. Write(t, Counter, reg[t] + 1)
        BY <3>2, SlotsOperators DEF Slots!Store
      <4>2. QED
        BY <1>0, <1>4, <4>1, TicketWordsDiffer, WriteEffect DEF TicketType, Slots!Count
    <3>3. QED
      BY <1>4, <3>1, <3>2 DEF Slots!Count
  <2>3. QueueStep(t, l)
    BY <1>0, <2>1 DEF QueueStep
  <2>4. QED
    BY <1>0, <1>1, <2>1, <2>2, <2>3, QuietStep
<1>5. CASE Slots!TakeNumber(t)
  <2>1. /\ pc[t] = "begin" /\ pc' = [pc EXCEPT ![t] = "wait"] /\ prog' = prog
        /\ ticket' = [ticket EXCEPT ![t] = NextTicket]
        /\ Update(t, TicketNumber, Plus(Wrap, mem[TicketNumber], 1))
    <3>1. /\ (mem[TicketNumber] + 1) % Wrap = Plus(Wrap, mem[TicketNumber], 1)
          /\ mem[TicketNumber] % Wrap = mem[TicketNumber]
          /\ Plus(Wrap, mem[TicketNumber], 0) = mem[TicketNumber]
      BY <1>0, WrapFacts, WrapArithmetic DEF TicketType
    <3>2. mem[TicketNumber] + 0 = mem[TicketNumber]
      BY <1>0 DEF TicketType, Below
    <3>3. (mem[TicketNumber] + prog.first) % Wrap = NextTicket
      BY <1>0, <3>1, <3>2 DEF NextTicket, TicketType
    <3>4. QED
      BY <1>5, <3>1, <3>3, SlotsOperators DEF Slots!TakeNumber, Slots!Inc, TicketNumber
  <2>2. /\ mem'[TicketNumber] = Plus(Wrap, mem[TicketNumber], 1)
        /\ NextTicket' = Plus(Wrap, NextTicket, 1)
    <3>1. mem'[TicketNumber] = Plus(Wrap, mem[TicketNumber], 1)
      BY <1>0, <2>1, TicketWordsDiffer, UpdateEffect DEF TicketType
    <3>2. /\ NextTicket' = Plus(Wrap, Plus(Wrap, mem[TicketNumber], 1), prog.first)
          /\ prog.first \in {0, 1}
          /\ mem[TicketNumber] \in Int /\ 0 <= mem[TicketNumber]
          /\ mem[TicketNumber] < Wrap /\ Wrap \in Int
      BY <1>0, <2>1, <3>1, WrapAssumption DEF NextTicket, TicketType, Below
    <3>3. QED
      BY <3>1, <3>2 DEF NextTicket, Plus
  <2>3. ticket'[t] = NextTicket /\ \A u \in Waiting : ticket'[u] = ticket[u]
    BY <1>0, <2>1 DEF TicketType, Waiting
  <2>4. QueueStep(t, "wait")
    BY <1>0, <2>1 DEF QueueStep
  <2>5. \A s, u \in Waiting : Follows(s, u) => Follows(s, u)'
    BY <2>1, <2>3 DEF Follows
  <2>6. \A s \in Waiting : IsLast(s) => Follows(s, t)'
    BY <2>1, <2>3 DEF Follows, IsLast
  <2>7. IsLast(t)'
    BY <2>1, <2>2, <2>3 DEF IsLast
  <2>8. QED
    BY <1>0, <2>1, <2>4, <2>5, <2>6, <2>7, ArrivalStep
<1>6. CASE Slots!PassTurn(t)
  <2>1. PICK l \in {"begin", "done"} : pc' = [pc EXCEPT ![t] = l]
    BY <1>6 DEF Slots!PassTurn, Slots!EndIteration, Slots!After
  <2>2. /\ pc[t] = "unlock" /\ ticket' = ticket /\ prog' = prog
        /\ Update(t, TicketTurn, Slots!Inc(mem[TicketTurn]))
    BY <1>6, SlotsOperators DEF Slots!PassTurn, TicketTurn
  <2>3. mem'[TicketNumber] = mem[TicketNumber]
    BY <1>0, <2>2, TicketWordsDiffer, UpdateEffect DEF TicketType
  <2>4. QueueStep(t, l)
    BY <1>0, <2>1 DEF QueueStep
  <2>5. QED
    BY <1>0, <1>1, <2>1, <2>2, <2>3, <2>4, QuietStep
<1>7. QED
  BY <1>2, <1>3, <1>4, <1>5, <1>6 DEF Slots!TicketStep

\* The first of the array lock's queue is the thread with the slot of the head.
LEMMA ArrayHead ==
  ASSUME family = "slots", prog.lock = "array", ArrayInv, Line,
         NEW t \in Threads, pc[t] = "clear"
  PROVE  t = Head(arrived) /\ Inside = {}
<1> USE DEF WaitLabels, InsideLabels, OutLabels
<1>1. t \in Waiting /\ HasFlag(t)
  BY DEF Waiting, HasFlag
<1>2. N \in Nat \ {0} /\ Cardinality(Threads) <= N
  BY NumThreads DEF N
<1>3. ASSUME N > 1, NEW h \in Below(N), NEW slot \in [Threads -> Below(N)],
             ArraySlots(h, slot), ArrayFlags(h, slot), NEW s \in Waiting, Follows(s, t),
             s # arrived[Len(arrived)]
      PROVE  FALSE
  <2>1. PICK e \in Waiting : e = arrived[Len(arrived)] /\ IsLast(e)
    BY <1>1, LineFacts
  <2>2. /\ s \in Served /\ e \in Served /\ s \in Threads /\ e \in Threads
        /\ slot[s] \in Below(N) /\ slot[e] \in Below(N) /\ slot[t] \in Below(N)
    BY <1>3, <2>1 DEF Waiting, Served
  <2>3. \A k, l \in Below(N) : k * Padding = l * Padding => k = l
    BY SlotIndex
  <2>4. \A k \in Below(N) : Plus(N, k, 1) \in Below(N)
    BY <1>2 DEF Plus, Below
  <2>5. slot[t] = Plus(N, slot[s], 1)
    <3>1. PICK k \in Below(N) : ticket[s] = k * Padding /\ ticket[t] = Plus(N, k, 1) * Padding
      BY <1>3 DEF Follows
    <3>2. k = slot[s]
      BY <1>3, <2>2, <2>3, <3>1 DEF ArraySlots
    <3>3. QED
      BY <1>3, <2>2, <2>3, <2>4, <3>1, <3>2 DEF ArraySlots
  <2>6. mem[ArrayTail] % N = Plus(N, slot[e], 1)
    <3>1. PICK k \in Below(N) : ticket[e] = k * Padding /\ mem[ArrayTail] % N = Plus(N, k, 1)
      BY <2>1 DEF IsLast
    <3>2. k = slot[e]
      BY <1>3, <2>2, <2>3, <3>1 DEF ArraySlots
    <3>3. QED
      BY <3>1, <3>2
  <2>7. slot[t] = h /\ Books(N, h, h, mem[ArrayTail] % N, {}, Served, slot)
    BY <1>1, <1>3 DEF ArrayFlags, ArraySlots
  <2>8. s = e
    BY <1>2, <1>3, <2>2, <2>5, <2>6, <2>7, BooksHead
  <2>9. QED
    BY <1>3, <2>1, <2>8
<1>4. ASSUME NEW s \in Threads, s # t
      PROVE  N > 1
  <2>1. IsFiniteSet({s}) /\ Cardinality({s}) = 1
    BY FS_Singleton
  <2>2. Cardinality({s} \cup {t}) = Cardinality({s}) + 1
    BY <1>4, <2>1, FS_AddElement
  <2>3. Cardinality({s} \cup {t}) <= N
    BY ThreadsAssumption, FS_Subset DEF N
  <2>4. QED
    BY <1>2, <2>1, <2>2, <2>3
<1>5. t = Head(arrived)
  <2> SUFFICES ASSUME NEW s \in Waiting, Follows(s, t), s # t, s # arrived[Len(arrived)]
               PROVE  FALSE
    BY <1>1, LineFacts
  <2>1. N > 1
    BY <1>4 DEF Waiting
  <2>2. QED
    BY <1>3, <2>1 DEF ArrayInv
<1>6. Inside = {}
  <2> SUFFICES ASSUME NEW u \in Inside
               PROVE  FALSE
    OBVIOUS
  <2>1. u \in Threads /\ InCS(u) /\ HasFlag(u) /\ u # t
    BY DEF Inside, InCS, HasFlag, ArrayInv, ArrayType, ArrayLabels
  <2>2. N > 1
    BY <1>4, <2>1
  <2>3. QED
    BY <1>1, <2>1, <2>2 DEF ArrayInv, ArrayFlags, ArrayOwner
<1>7. QED
  BY <1>5, <1>6

\* The steps of the array locks.
LEMMA ArrayFifo ==
  ASSUME family = "slots", family' = family, prog.lock = "array", ArrayInv, Line, Record,
         NEW t \in Threads, Slots!ArrayStep(t) \/ Slots!Count(t)
  PROVE  Line' /\ FifoStep
<1> USE DEF Slots!Goto, WaitLabels, InsideLabels, OutLabels
<1>0. /\ ArrayType /\ TSOType(ArrayWords, BufferSize) /\ Threads # {}
      /\ ArrivalLabel = "begin" /\ pc = [u \in Threads |-> pc[u]]
  BY DEF ArrayInv, ArrayType, ArrivalLabel
<1>1. ASSUME prog' = prog, ticket' = ticket, mem'[ArrayTail] = mem[ArrayTail]
      PROVE  /\ \A s, u \in Waiting : Follows(s, u) => Follows(s, u)'
             /\ \A s \in Waiting : IsLast(s) => IsLast(s)'
  BY <1>1 DEF Follows, IsLast
<1>2. ASSUME NEW a \in ArrayWords, a # ArrayTail, NEW v, Write(t, a, v)
      PROVE  mem'[ArrayTail] = mem[ArrayTail]
  BY <1>0, <1>2, ArrayWordsDiffer, WriteEffect
<1>3. \A k \in Below(N) : SlotFlag(k) \in ArrayWords /\ SlotFlag(k) # ArrayTail
  BY <1>0, ArrayWordsDiffer
<1>4. CASE Slots!AwaitFlag(t)
  <2>1. PICK l \in {"clear", "wait"} : pc[t] = "wait" /\ pc' = [pc EXCEPT ![t] = l]
    BY <1>4 DEF Slots!AwaitFlag
  <2>2. mem' = mem /\ ticket' = ticket /\ prog' = prog
    BY <1>4 DEF Slots!AwaitFlag, Slots!memvars
  <2>3. QueueStep(t, l)
    BY <1>0, <2>1 DEF QueueStep
  <2>4. QED
    BY <1>0, <1>1, <2>1, <2>2, <2>3, QuietStep
<1>5. CASE Slots!ClearFlag(t)
  <2>1. /\ pc[t] = "clear" /\ pc' = [pc EXCEPT ![t] = "load"] /\ ticket' = ticket
        /\ prog' = prog /\ Write(t, Slots!Flag(ticket[t]), 0)
    BY <1>5, SlotsOperators DEF Slots!ClearFlag
  <2>2. PICK k \in Below(N) : SlotFlag(k) = Slots!Flag(ticket[t])
    BY <1>0 DEF ArrayType, SlotFlag
  <2>3. mem'[ArrayTail] = mem[ArrayTail]
    BY <1>2, <1>3, <2>1, <2>2
  <2>4. QueueStep(t, "load")
    BY <1>0, <2>1 DEF QueueStep
  <2>5. t = Head(arrived) /\ Inside = {}
    BY <2>1, ArrayHead
  <2>6. QED
    BY <1>1, <2>1, <2>3, <2>4, <2>5, EntryStep
<1>6. CASE Slots!Count(t)
  <2>1. PICK l \in {"store", "unlock"} :
          pc[t] \in {"load", "store"} /\ pc' = [pc EXCEPT ![t] = l]
    BY <1>6 DEF Slots!Count, Slots!Load, Slots!Store
  <2>2. mem'[ArrayTail] = mem[ArrayTail] /\ ticket' = ticket /\ prog' = prog
    <3>1. CASE Slots!Load(t)
      BY <1>6, <3>1 DEF Slots!Count, Slots!Load
    <3>2. CASE Slots!Store(t)
      <4>1. Write(t, Counter, reg[t] + 1)
        BY <3>2, SlotsOperators DEF Slots!Store
      <4>2. QED
        BY <1>0, <1>2, <1>6, <4>1, ArrayWordsDiffer DEF Slots!Count
    <3>3. QED
      BY <1>6, <3>1, <3>2 DEF Slots!Count
  <2>3. QueueStep(t, l)
    BY <1>0, <2>1 DEF QueueStep
  <2>4. QED
    BY <1>0, <1>1, <2>1, <2>2, <2>3, QuietStep
<1>7. CASE Slots!TakeSlot(t)
  <2>1. PICK c \in Below(N) : c = mem[ArrayTail] % N
    BY <1>0, NextSlot DEF ArrayType
  <2>2. /\ pc[t] = "begin" /\ pc' = [pc EXCEPT ![t] = "wait"] /\ prog' = prog
        /\ ticket' = [ticket EXCEPT ![t] = c * Padding]
        /\ Update(t, ArrayTail, (mem[ArrayTail] + 1) % Wrap)
    BY <1>0, <1>7, <2>1, SlotIndex, NumThreads, SlotsOperators
    DEF Slots!TakeSlot, Slots!Inc, ArrayTail
  <2>3. mem'[ArrayTail] % N = Plus(N, c, 1)
    <3>1. mem'[ArrayTail] = (mem[ArrayTail] + 1) % Wrap
      BY <1>0, <2>2, ArrayWordsDiffer, UpdateEffect
    <3>2. mem[ArrayTail] \in Below(Wrap)
      BY <1>0 DEF ArrayType
    <3>3. QED
      BY <1>0, <2>1, <3>1, <3>2, NextSlot
  <2>4. ticket'[t] = c * Padding /\ \A u \in Waiting : ticket'[u] = ticket[u]
    BY <1>0, <2>2 DEF ArrayType, Waiting
  <2>5. QueueStep(t, "wait")
    BY <1>0, <2>2 DEF QueueStep
  <2>6. \A s, u \in Waiting : Follows(s, u) => Follows(s, u)'
    BY <2>2, <2>4 DEF Follows
  <2>7. \A s \in Waiting : IsLast(s) => Follows(s, t)'
    BY <2>1, <2>2, <2>4 DEF Follows, IsLast
  <2>8. IsLast(t)'
    BY <2>2, <2>3, <2>4 DEF IsLast
  <2>9. QED
    BY <1>0, <2>2, <2>5, <2>6, <2>7, <2>8, ArrivalStep
<1>8. CASE Slots!PassFlag(t)
  <2>1. PICK l \in {"begin", "done"} : pc' = [pc EXCEPT ![t] = l]
    BY <1>8 DEF Slots!PassFlag, Slots!EndIteration, Slots!After
  <2>2. PICK k \in Below(N) : ticket[t] = k * Padding
    BY <1>0 DEF ArrayType
  <2>3. PICK n \in Below(N) : n = Plus(N, k, 1)
    BY <1>0, NumThreads DEF Plus, Below
  <2>4. ((k * Padding) + Padding) % (N * Padding) = n * Padding
    BY <1>0, <2>3, SlotIndex
  <2>5. /\ pc[t] = "unlock" /\ ticket' = ticket /\ prog' = prog
        /\ Write(t, SlotFlag(n), 1)
    BY <1>8, <2>2, <2>4, NumThreads, SlotsOperators DEF Slots!PassFlag, SlotFlag
  <2>6. mem'[ArrayTail] = mem[ArrayTail]
    BY <1>2, <1>3, <2>5
  <2>7. QueueStep(t, l)
    BY <1>0, <2>1 DEF QueueStep
  <2>8. QED
    BY <1>0, <1>1, <2>1, <2>5, <2>6, <2>7, QuietStep
<1>9. QED
  BY <1>4, <1>5, <1>6, <1>7, <1>8 DEF Slots!ArrayStep

\* The steps of the CLH lock: while the predecessor waits its word says 1.
LEMMA ClhFifo ==
  ASSUME family = "nodes", family' = family, prog.lock = "clh", ClhInv, Line, Record,
         NEW t \in Threads, Nodes!ClhStep(t) \/ Nodes!Yield(t) \/ Nodes!Count(t)
  PROVE  Line' /\ FifoStep
<1> USE DEF Nodes!Goto, WaitLabels, InsideLabels, OutLabels
<1>0. /\ ClhType /\ TSOType(ClhWords, BufferSize)
      /\ ArrivalLabel = "swap" /\ pc = [u \in Threads |-> pc[u]]
  BY DEF ClhInv, ClhType, ArrivalLabel
<1>1. ASSUME prog' = prog, pred' = pred, mem'[ClhTail] = mem[ClhTail],
             \A u \in Waiting : node'[u] = node[u]
      PROVE  /\ \A s, u \in Waiting : Follows(s, u) => Follows(s, u)'
             /\ \A s \in Waiting : IsLast(s) => IsLast(s)'
  BY <1>1 DEF Follows, IsLast
<1>2. ASSUME NEW a \in ClhWords, a # ClhTail, NEW v, Write(t, a, v)
      PROVE  mem'[ClhTail] = mem[ClhTail]
  BY <1>0, <1>2, ClhWordsDiffer, WriteEffect
<1>3. /\ Counter \in ClhWords /\ Counter # ClhTail
      /\ \A n \in AllNodes : Flag(n) \in ClhWords /\ Flag(n) # ClhTail
      /\ \A u \in Threads : node[u] \in AllNodes
  BY ClhFacts, ClhWordsDiffer
<1>4. CASE Nodes!AwaitPredecessor(t)
  <2>1. PICK l \in {"load", "pause", "wait"} :
          /\ pc' = [pc EXCEPT ![t] = l]
          /\ l = "load" => Read(t, Flag(pred[t])) = 0
    BY <1>4, NodesOperators DEF Nodes!AwaitPredecessor, Flag
  <2>2. /\ pc[t] = "wait" /\ mem' = mem /\ prog' = prog /\ node' = node /\ pred' = pred
    BY <1>4 DEF Nodes!AwaitPredecessor, Nodes!memvars
  <2>3. QueueStep(t, l)
    BY <1>0, <2>1 DEF QueueStep
  <2>4. CASE l = "load"
    <3>1. t \in Waiting /\ InQueue(t)
      BY <2>2 DEF Waiting, InQueue, Nodes!Queued
    <3>2. mem[Flag(pred[t])] = 0
      BY <2>1, <2>4, <3>1, ClhFacts, ReadEffect
    <3>3. ASSUME NEW s \in Waiting, Follows(s, t)
          PROVE  FALSE
      <4>1. pred[t] = node[s]
        BY <3>3 DEF Follows
      <4>2. s \in Threads /\ InQueue(s)
        BY <1>0 DEF Waiting, InQueue, Nodes!Queued, ClhType, ClhLabels
      <4>3. mem[Flag(node[s])] = 1
        BY <4>2 DEF ClhInv, ClhFlags
      <4>4. QED
        BY <3>2, <4>1, <4>3
    <3>4. t = Head(arrived)
      BY <3>1, <3>3, LineFacts
    <3>5. Inside = {}
      <4> SUFFICES ASSUME NEW u \in Inside
                   PROVE  FALSE
        OBVIOUS
      <4>1. u \in Threads /\ InCS(u) /\ u # t
        BY <1>0, <2>2 DEF Inside, InCS, ClhType, ClhLabels
      <4>2. Free(pred[u]) /\ InQueue(u) /\ pred[u] \in AllNodes /\ pred[t] \in AllNodes
        BY <4>1, ClhFacts DEF ClhInv, ClhFlags
      <4>3. \A s \in Threads : node[s] = pred[t] => mem[Flag(node[s])] = 1
        BY <3>1 DEF ClhInv, ClhQueue, ClhFlags
      <4>4. Free(pred[t])
        BY <3>2, <4>3 DEF Free
      <4>5. QED
        BY <3>1, <4>1, <4>2, <4>4 DEF ClhInv, ClhQueue
    <3>6. QED
      BY <1>1, <2>2, <2>3, <2>4, <3>4, <3>5, EntryStep
  <2>5. CASE l # "load"
    BY <1>0, <1>1, <2>1, <2>2, <2>3, <2>5, QuietStep
  <2>6. QED
    BY <2>4, <2>5
<1>5. CASE Nodes!Yield(t)
  <2>1. /\ pc[t] = "pause" /\ pc' = [pc EXCEPT ![t] = "wait"]
        /\ mem' = mem /\ prog' = prog /\ node' = node /\ pred' = pred
    BY <1>5 DEF Nodes!Yield, Nodes!memvars
  <2>2. QueueStep(t, "wait")
    BY <1>0, <2>1 DEF QueueStep
  <2>3. QED
    BY <1>0, <1>1, <2>1, <2>2, QuietStep
<1>6. CASE Nodes!Count(t)
  <2>1. PICK l \in {"store", "unlock"} :
          pc[t] \in {"load", "store"} /\ pc' = [pc EXCEPT ![t] = l]
    BY <1>6 DEF Nodes!Count, Nodes!Load, Nodes!Store
  <2>2. mem'[ClhTail] = mem[ClhTail] /\ prog' = prog /\ node' = node /\ pred' = pred
    <3>1. CASE Nodes!Load(t)
      BY <1>6, <3>1 DEF Nodes!Count, Nodes!Load
    <3>2. CASE Nodes!Store(t)
      <4>1. Write(t, Counter, reg[t] + 1)
        BY <3>2, NodesOperators DEF Nodes!Store
      <4>2. QED
        BY <1>2, <1>3, <1>6, <4>1 DEF Nodes!Count
    <3>3. QED
      BY <1>6, <3>1, <3>2 DEF Nodes!Count
  <2>3. QueueStep(t, l)
    BY <1>0, <2>1 DEF QueueStep
  <2>4. QED
    BY <1>0, <1>1, <2>1, <2>2, <2>3, QuietStep
<1>7. CASE Nodes!ClhSetLocked(t)
  <2>1. /\ pc[t] = "begin" /\ pc' = [pc EXCEPT ![t] = "swap"]
        /\ prog' = prog /\ node' = node /\ pred' = pred
        /\ Write(t, Flag(node[t]), 1)
    BY <1>7, NodesOperators DEF Nodes!ClhSetLocked, Flag
  <2>2. mem'[ClhTail] = mem[ClhTail]
    BY <1>2, <1>3, <2>1
  <2>3. QueueStep(t, "swap")
    BY <1>0, <2>1 DEF QueueStep
  <2>4. QED
    BY <1>0, <1>1, <2>1, <2>2, <2>3, QuietStep
<1>8. CASE Nodes!ClhExchange(t)
  <2>1. /\ pc[t] = "swap" /\ pc' = [pc EXCEPT ![t] = "wait"]
        /\ prog' = prog /\ node' = node /\ pred' = [pred EXCEPT ![t] = mem[ClhTail]]
        /\ Update(t, ClhTail, node[t])
    BY <1>8, NodesOperators DEF Nodes!ClhExchange, ClhTail
  <2>2. mem'[ClhTail] = node[t]
    BY <1>0, <2>1, ClhWordsDiffer, UpdateEffect
  <2>3. pred'[t] = mem[ClhTail] /\ \A u \in Waiting : pred'[u] = pred[u]
    BY <1>0, <2>1 DEF ClhType, Waiting
  <2>4. QueueStep(t, "wait")
    BY <1>0, <2>1 DEF QueueStep
  <2>5. \A s, u \in Waiting : Follows(s, u) => Follows(s, u)'
    BY <2>1, <2>3 DEF Follows
  <2>6. \A s \in Waiting : IsLast(s) => Follows(s, t)'
    BY <2>1, <2>3 DEF Follows, IsLast
  <2>7. IsLast(t)'
    BY <2>1, <2>2 DEF IsLast
  <2>8. QED
    BY <1>0, <2>1, <2>4, <2>5, <2>6, <2>7, ArrivalStep
<1>9. CASE Nodes!ClhUnlock(t)
  <2>1. PICK l \in {"begin", "done"} : pc' = [pc EXCEPT ![t] = l]
    BY <1>9 DEF Nodes!ClhUnlock, Nodes!EndIteration, Nodes!After
  <2>2. /\ pc[t] = "unlock" /\ prog' = prog /\ pred' = pred
        /\ node' = [node EXCEPT ![t] = pred[t]] /\ Write(t, Flag(node[t]), 0)
    BY <1>9, NodesOperators DEF Nodes!ClhUnlock, Flag
  <2>3. mem'[ClhTail] = mem[ClhTail]
    BY <1>2, <1>3, <2>2
  <2>4. \A u \in Waiting : node'[u] = node[u]
    BY <1>0, <2>2 DEF ClhType, Waiting
  <2>5. QueueStep(t, l)
    BY <1>0, <2>1 DEF QueueStep
  <2>6. QED
    BY <1>0, <1>1, <2>1, <2>2, <2>3, <2>4, <2>5, QuietStep
<1>10. QED
  BY <1>4, <1>5, <1>6, <1>7, <1>8, <1>9 DEF Nodes!ClhStep

\* A thread that waits behind another one goes on doing so while nobody gives it
\* the lock.
LEMMA BehindStays ==
  ASSUME McsInv, NEW u \in Behind, Waits(u)', mem'[LockedOf(u)] = mem[LockedOf(u)],
         \A v \in Threads : Kept(v, LockedOf(u))
  PROVE  u \in Behind'
<1>1. u \in Threads /\ Waits(u) /\ ~ Given(u) /\ McsLocked(u)
  BY DEF Behind, McsInv
<1>2. mem[LockedOf(u)] # 0 /\ \A v \in Threads : ~ Late(v, LockedOf(u))
  BY <1>1 DEF McsLocked, Given, Waits
<1>3. ~ Given(u)'
  BY <1>2 DEF Given, Kept
<1>4. QED
  BY <1>1, <1>3 DEF Behind

\* The steps of the MCS lock: who goes on to write its own word is behind nobody.
LEMMA McsFifo ==
  ASSUME family = "nodes", family' = family, prog.lock = "mcs", McsInv, Line, Record,
         NEW t \in Threads, Nodes!McsStep(t) \/ Nodes!Yield(t) \/ Nodes!Count(t)
  PROVE  Line' /\ FifoStep
<1> USE DEF Nodes!Goto, WaitLabels, InsideLabels, OutLabels
<1>0. /\ McsType /\ McsQueue /\ TSOType(McsWords, BufferSize)
      /\ ArrivalLabel = "swap" /\ pc = [u \in Threads |-> pc[u]]
      /\ McsLocked(t) /\ McsNext(t)
  BY DEF McsInv, McsType, ArrivalLabel
\* A step that gives the lock to no thread that another one waits for.
<1>1. ASSUME prog' = prog, pred' = pred,
             NEW l \in McsLabels, pc' = [pc EXCEPT ![t] = l],
             \A u \in Behind : pred[u] \in Waiting =>
               /\ mem'[LockedOf(u)] = mem[LockedOf(u)]
               /\ \A v \in Threads : Kept(v, LockedOf(u)),
             t \in Behind => l \in {"link", "wait", "pause"}
      PROVE  \A s, u \in Waiting : Follows(s, u) => Follows(s, u)'
  <2> SUFFICES ASSUME NEW s \in Waiting, NEW u \in Waiting, Follows(s, u)
               PROVE  Follows(s, u)'
    OBVIOUS
  <2>1. pred[u] = s /\ u \in Behind
    BY DEF Follows
  <2>2. Waits(u)'
    BY <1>0, <1>1, <2>1 DEF Behind, Waits
  <2>3. u \in Behind'
    BY <1>1, <2>1, <2>2, BehindStays
  <2>4. QED
    BY <1>1, <2>1, <2>3 DEF Follows
<1>2. ASSUME prog' = prog, mem'[McsTail] = mem[McsTail]
      PROVE  \A s \in Waiting : IsLast(s) => IsLast(s)'
  BY <1>2 DEF IsLast, ClhTail, McsTail
\* A step of a loop or of unlock() that leaves the memory alone.
<1>3. ASSUME prog' = prog, UNCHANGED memvars, pred' = pred,
             NEW l \in McsLabels, pc' = [pc EXCEPT ![t] = l],
             \/ pc[t] = "wait" /\ l = "own" /\ Given(t)
             \/ pc[t] \in {"wait", "pause"} /\ l \in {"wait", "pause"}
             \/ pc[t] \in InsideLabels /\ l \in InsideLabels \ {"load"}
      PROVE  Line' /\ FifoStep
  <2>1. mem' = mem /\ \A u, a : Kept(u, a)
    BY <1>3, NoEffect
  <2>2. QueueStep(t, l)
    BY <1>0, <1>3 DEF QueueStep
  <2>3. t \in Behind => l \in {"link", "wait", "pause"}
    BY <1>3 DEF Behind, Waits
  <2>4. /\ \A s, u \in Waiting : Follows(s, u) => Follows(s, u)'
        /\ \A s \in Waiting : IsLast(s) => IsLast(s)'
    BY <1>1, <1>2, <1>3, <2>1, <2>3
  <2>5. QED
    BY <1>0, <1>3, <2>2, <2>4, QuietStep
\* A step that stores a word that nobody waits for.
<1>4. ASSUME prog' = prog, pred' = pred, NEW a \in McsWords, a # McsTail, NEW v,
             Write(t, a, v), NEW l \in McsLabels, pc' = [pc EXCEPT ![t] = l],
             \A u \in Behind : pred[u] \in Waiting => a # LockedOf(u),
             t \in Behind => l \in {"link", "wait", "pause"}
      PROVE  /\ \A s, u \in Waiting : Follows(s, u) => Follows(s, u)'
             /\ \A s \in Waiting : IsLast(s) => IsLast(s)'
             /\ QueueStep(t, l)
  <2>1. /\ \A b \in McsWords \ {a} : mem'[b] = mem[b]
        /\ \A u \in Threads : \A b : u # t \/ b # a => Kept(u, b)
    BY <1>0, <1>4, WriteEffect
  <2>2. mem'[McsTail] = mem[McsTail]
    BY <1>4, <2>1, McsWordsDiffer
  <2>3. \A u \in Behind : pred[u] \in Waiting =>
          /\ mem'[LockedOf(u)] = mem[LockedOf(u)]
          /\ \A w \in Threads : Kept(w, LockedOf(u))
    BY <1>4, <2>1, McsWordsDiffer DEF Behind
  <2>4. QueueStep(t, l)
    BY <1>0, <1>4 DEF QueueStep
  <2>5. QED
    BY <1>1, <1>2, <1>4, <2>2, <2>3, <2>4
<1>5. CASE Nodes!Yield(t)
  <2>1. /\ pc[t] = "pause" /\ pc' = [pc EXCEPT ![t] = "wait"]
        /\ UNCHANGED memvars /\ prog' = prog /\ pred' = pred
    BY <1>5 DEF Nodes!Yield, Nodes!memvars, memvars
  <2>2. QED
    BY <1>3, <2>1 DEF McsLabels
<1>6. CASE Nodes!Count(t)
  <2>1. CASE Nodes!Load(t)
    <3>1. /\ pc[t] = "load" /\ pc' = [pc EXCEPT ![t] = "store"]
          /\ UNCHANGED memvars /\ prog' = prog /\ pred' = pred
      BY <1>6, <2>1 DEF Nodes!Count, Nodes!Load, memvars
    <3>2. QED
      BY <1>3, <3>1 DEF McsLabels
  <2>2. CASE Nodes!Store(t)
    <3>1. /\ pc[t] = "store" /\ pc' = [pc EXCEPT ![t] = "unlock"]
          /\ prog' = prog /\ pred' = pred /\ Write(t, Counter, reg[t] + 1)
      BY <1>6, <2>2, NodesOperators DEF Nodes!Count, Nodes!Store
    <3>2. t \notin Behind
      BY <3>1 DEF Behind, Waits
    <3>3. /\ \A s, u \in Waiting : Follows(s, u) => Follows(s, u)'
          /\ \A s \in Waiting : IsLast(s) => IsLast(s)'
          /\ QueueStep(t, "unlock")
      BY <1>4, <3>1, <3>2, McsWordsDiffer DEF McsLabels
    <3>4. QED
      BY <1>0, <3>1, <3>3, QuietStep
  <2>3. QED
    BY <1>6, <2>1, <2>2 DEF Nodes!Count
<1>7. CASE Nodes!ClearNext(t) \/ Nodes!SetLocked(t)
  <2>1. PICK a \in {NextOf(t), LockedOf(t)} : \E v : Write(t, a, v)
    BY <1>7, NodesOperators DEF Nodes!ClearNext, Nodes!SetLocked, NextOf, LockedOf
  <2>2. PICK v : Write(t, a, v)
    BY <2>1
  <2>3. PICK l \in {"set", "swap"} : pc' = [pc EXCEPT ![t] = l]
    BY <1>7 DEF Nodes!ClearNext, Nodes!SetLocked
  <2>4. pc[t] \in {"begin", "set"} /\ prog' = prog /\ pred' = pred
    BY <1>7 DEF Nodes!ClearNext, Nodes!SetLocked
  <2>5. t \notin Behind
    BY <2>4 DEF Behind, Waits
  <2>6. a \in McsWords /\ a # McsTail /\ \A u \in Behind : a # LockedOf(u)
    BY <2>5, McsWordsDiffer DEF Behind
  <2>7. /\ \A s, u \in Waiting : Follows(s, u) => Follows(s, u)'
        /\ \A s \in Waiting : IsLast(s) => IsLast(s)'
        /\ QueueStep(t, l)
    BY <1>4, <2>2, <2>3, <2>4, <2>5, <2>6 DEF McsLabels
  <2>8. QED
    BY <1>0, <2>4, <2>7, QuietStep
<1>8. CASE Nodes!Exchange(t)
  <2>1. /\ pc[t] = "swap" /\ prog' = prog /\ pred' = [pred EXCEPT ![t] = mem[McsTail]]
        /\ Update(t, McsTail, t)
    BY <1>8, NodesOperators DEF Nodes!Exchange, McsTail
  <2>2. PICK l \in {"own", "link"} : /\ pc' = [pc EXCEPT ![t] = l]
                                     /\ l = "own" => mem[McsTail] = Nodes!Null
    BY <1>8 DEF Nodes!Exchange, McsTail
  <2>3. /\ mem'[McsTail] = t /\ \A u, b : Kept(u, b)
        /\ \A s \in Threads : mem'[LockedOf(s)] = mem[LockedOf(s)]
    BY <1>0, <2>1, McsWordsDiffer, UpdateEffect
  <2>4. /\ pc'[t] = l /\ pred'[t] = mem[McsTail] /\ t \notin Waiting
        /\ \A u \in Waiting : pred'[u] = pred[u] /\ pc'[u] = pc[u]
    BY <1>0, <2>1, <2>2 DEF McsType, Waiting
  <2>5. QueueStep(t, l)
    BY <1>0, <2>2 DEF QueueStep
  <2>6. \A s, u \in Waiting : Follows(s, u) => Follows(s, u)'
    <3> SUFFICES ASSUME NEW s \in Waiting, NEW u \in Waiting, Follows(s, u)
                 PROVE  Follows(s, u)'
      OBVIOUS
    <3>1. pred[u] = s /\ u \in Behind
      BY DEF Follows
    <3>2. u \in Behind'
      BY <2>3, <2>4, <3>1, BehindStays DEF Behind, Waits
    <3>3. QED
      BY <2>1, <2>4, <3>1, <3>2 DEF Follows
  <2>7. \A s \in Waiting : IsLast(s) => Follows(s, t)'
    <3> SUFFICES ASSUME NEW s \in Waiting, IsLast(s)
                 PROVE  Follows(s, t)'
      OBVIOUS
    <3>1. mem[McsTail] = s /\ s \in Threads
      BY DEF IsLast, ClhTail, McsTail, Waiting
    <3>2. l = "link"
      BY <2>2, <3>1, NodesAssumption
    <3>3. t \in Behind'
      BY <2>4, <3>2 DEF Behind, Waits, Given
    <3>4. QED
      BY <2>1, <2>4, <3>1, <3>3 DEF Follows
  <2>8. IsLast(t)'
    BY <2>1, <2>3 DEF IsLast, ClhTail, McsTail
  <2>9. QED
    BY <1>0, <2>1, <2>5, <2>6, <2>7, <2>8, ArrivalStep
<1>9. CASE Nodes!Link(t)
  <2>1. /\ pc[t] = "link" /\ pc' = [pc EXCEPT ![t] = "wait"]
        /\ prog' = prog /\ pred' = pred /\ Write(t, NextOf(pred[t]), t)
    BY <1>9, NodesOperators DEF Nodes!Link, NextOf
  <2>2. t \in Behind
    BY <2>1 DEF Behind, Waits, Given
  <2>3. NextOf(pred[t]) \in McsWords /\ NextOf(pred[t]) # McsTail
    BY <2>2, McsPredecessor, McsWordsDiffer
  <2>4. /\ \A s, u \in Waiting : Follows(s, u) => Follows(s, u)'
        /\ \A s \in Waiting : IsLast(s) => IsLast(s)'
        /\ QueueStep(t, "wait")
    BY <1>4, <2>1, <2>3, McsWordsDiffer DEF McsLabels
  <2>5. QED
    BY <1>0, <2>1, <2>4, QuietStep
<1>10. CASE Nodes!AwaitLocked(t)
  <2>1. /\ pc[t] = "wait" /\ UNCHANGED memvars /\ prog' = prog /\ pred' = pred
        /\ \E l \in {"own", "wait", "pause"} :
             /\ pc' = [pc EXCEPT ![t] = l]
             /\ l = "own" => Read(t, LockedOf(t)) = 0
    BY <1>10, NodesOperators DEF Nodes!AwaitLocked, Nodes!memvars, memvars, LockedOf
  <2>2. Read(t, LockedOf(t)) = mem[LockedOf(t)]
    BY <1>0, <2>1, ReadEffect DEF McsLocked, Waits
  <2>3. PICK l \in {"own", "wait", "pause"} : /\ pc' = [pc EXCEPT ![t] = l]
                                              /\ l = "own" => Given(t)
    BY <2>1, <2>2 DEF Given
  <2>4. l = "own" \/ l \in {"wait", "pause"}
    OBVIOUS
  <2>5. QED
    BY <1>3, <2>1, <2>3, <2>4 DEF McsLabels
<1>11. CASE Nodes!Own(t)
  <2>1. /\ pc[t] = "own" /\ pc' = [pc EXCEPT ![t] = "load"]
        /\ prog' = prog /\ pred' = pred /\ Write(t, LockedOf(t), 0)
    BY <1>11, NodesOperators DEF Nodes!Own, LockedOf
  <2>2. t \in Waiting /\ t \notin Behind /\ McsOwner(t)
    BY <2>1 DEF Waiting, Behind, Waits, McsOwner, Holds
  <2>3. \A u \in Behind : LockedOf(t) # LockedOf(u)
    BY <2>2, McsWordsDiffer
  <2>4. /\ \A s, u \in Waiting : Follows(s, u) => Follows(s, u)'
        /\ \A s \in Waiting : IsLast(s) => IsLast(s)'
        /\ QueueStep(t, "load")
    BY <1>4, <2>1, <2>2, <2>3, McsWordsDiffer DEF McsLabels
  <2>5. t = Head(arrived)
    BY <2>2, LineFacts DEF Follows
  <2>6. Inside = {}
    <3> SUFFICES ASSUME NEW u \in Inside
                 PROVE  FALSE
      OBVIOUS
    <3>1. u \in Threads /\ McsOwner(u) /\ u # t
      BY <2>1 DEF Inside, McsOwner, Holds
    <3>2. QED
      BY <1>0, <2>2, <3>1 DEF McsQueue
  <2>7. QED
    BY <2>1, <2>4, <2>5, <2>6, EntryStep
<1>12. CASE Nodes!TestNext(t) \/ Nodes!AwaitNext(t)
  <2>1. PICK l \in {"cas", "linked", "handoff"} : pc' = [pc EXCEPT ![t] = l]
    BY <1>12 DEF Nodes!TestNext, Nodes!AwaitNext
  <2>2. pc[t] \in {"unlock", "linked"} /\ UNCHANGED memvars /\ prog' = prog /\ pred' = pred
    BY <1>12 DEF Nodes!TestNext, Nodes!AwaitNext, Nodes!memvars, memvars
  <2>3. QED
    BY <1>3, <2>1, <2>2 DEF McsLabels
<1>13. CASE Nodes!ClearTail(t)
  <2>1. CASE mem[McsTail] = t
    <3>1. /\ pc[t] = "cas" /\ Update(t, McsTail, Nodes!Null)
          /\ prog' = prog /\ pred' = pred
      BY <1>13, <2>1, NodesOperators DEF Nodes!ClearTail, McsTail
    <3>2. PICK l \in {"begin", "done"} : pc' = [pc EXCEPT ![t] = l]
      BY <1>13, <2>1 DEF Nodes!ClearTail, Nodes!EndIteration, Nodes!After, McsTail
    <3>3. /\ \A u, b : Kept(u, b)
          /\ \A s \in Threads : mem'[LockedOf(s)] = mem[LockedOf(s)]
      BY <1>0, <3>1, McsWordsDiffer, UpdateEffect
    <3>4. t \notin Behind /\ t \notin Waiting
      BY <3>1 DEF Behind, Waits, Waiting
    <3>5. \A s, u \in Waiting : Follows(s, u) => Follows(s, u)'
      BY <1>1, <3>1, <3>2, <3>3, <3>4 DEF McsLabels, Behind
    <3>6. \A s \in Waiting : ~ IsLast(s)
      BY <2>1, <3>4 DEF IsLast, ClhTail, McsTail
    <3>7. QueueStep(t, l)
      BY <1>0, <3>2 DEF QueueStep
    <3>8. QED
      BY <1>0, <3>1, <3>5, <3>6, <3>7, QuietStep
  <2>2. CASE mem[McsTail] # t
    <3>1. /\ pc[t] = "cas" /\ pc' = [pc EXCEPT ![t] = "linked"]
          /\ UNCHANGED memvars /\ prog' = prog /\ pred' = pred
      BY <1>13, <2>2 DEF Nodes!ClearTail, Nodes!memvars, memvars, McsTail
    <3>2. QED
      BY <1>3, <3>1 DEF McsLabels
  <2>3. QED
    BY <2>1, <2>2
<1>14. CASE Nodes!Handoff(t)
  <2>1. pc[t] = "handoff" /\ prog' = prog /\ pred' = pred
    BY <1>14 DEF Nodes!Handoff
  <2>2. PICK l \in {"begin", "done"} : pc' = [pc EXCEPT ![t] = l]
    BY <1>14 DEF Nodes!Handoff, Nodes!EndIteration, Nodes!After
  <2>3. PICK s \in Threads : mem[NextOf(t)] = s /\ McsLink(s, t)
    BY <1>0, <2>1 DEF McsNext, Holds
  <2>4. Read(t, NextOf(t)) = s
    BY <1>0, <2>1, <2>3, ReadEffect DEF McsNext, Holds
  <2>5. Write(t, LockedOf(s), 0)
    <3>1. Nodes!NextOf(t) = NextOf(t) /\ Nodes!Locked(s) = LockedOf(s)
      BY DEF NextOf, LockedOf
    <3>2. Nodes!Read(t, Nodes!NextOf(t)) = s
      BY <2>4, <3>1, NodesOperators
    <3>3. Nodes!Write(t, Nodes!Locked(s), 0)
      BY <1>14, <3>2 DEF Nodes!Handoff
    <3>4. QED
      BY <3>1, <3>3, NodesOperators
  <2>6. t \notin Behind /\ t \notin Waiting /\ pred[s] = t
    BY <2>1, <2>3 DEF Behind, Waits, Waiting, McsLink
  <2>7. \A u \in Behind : pred[u] \in Waiting => LockedOf(s) # LockedOf(u)
    BY <2>6, McsWordsDiffer
  <2>8. /\ \A r, u \in Waiting : Follows(r, u) => Follows(r, u)'
        /\ \A r \in Waiting : IsLast(r) => IsLast(r)'
        /\ QueueStep(t, l)
    BY <1>4, <2>1, <2>2, <2>5, <2>6, <2>7, McsWordsDiffer DEF McsLabels
  <2>9. QED
    BY <1>0, <2>1, <2>8, QuietStep
<1>15. QED
  BY <1>5, <1>6, <1>7, <1>8, <1>9, <1>10, <1>11, <1>12, <1>13, <1>14 DEF Nodes!McsStep

\* A store held back reaches memory: it is none of those that the queue is in, nor
\* one that gives the lock to a thread that another one waits for.
LEMMA DrainFifo ==
  ASSUME NEW t \in Threads, Drain(t), Line, arrived' = arrived, family' = family,
         UNCHANGED <<prog, locals>>,
         \/ family = "slots" /\ prog.lock = "ticket" /\ TicketInv
         \/ family = "slots" /\ prog.lock = "array" /\ ArrayInv
         \/ family = "nodes" /\ prog.lock = "clh" /\ ClhInv
         \/ family = "nodes" /\ prog.lock = "mcs" /\ McsInv
  PROVE  Line' /\ FifoStep
<1>0. Flush(t) /\ pc' = pc /\ ticket' = ticket /\ node' = node /\ pred' = pred /\ prog' = prog
  BY DEF Drain, loopvars, locals
\* A word that t holds no store to.
<1>1. ASSUME NEW A, TSOType(A, BufferSize), NEW a \in A, ~ Late(t, a)
      PROVE  mem'[a] = mem[a] /\ \A u \in Threads : Kept(u, a)
  <2>1. mem'[a] = mem[a] /\ \A u \in Threads : u # t => Kept(u, a)
    BY <1>0, <1>1, FlushEffect
  <2>2. ~ Late(t, a)' /\ Read(t, a)' = Read(t, a)
    BY <1>0, <1>1, FlushEffect
  <2>3. Pending(t, a) = {} /\ Pending(t, a)' = {}
    BY <1>1, <2>2 DEF Late
  <2>4. Kept(t, a)
    BY <2>2, <2>3 DEF Kept, Late, Once
  <2>5. QED
    BY <2>1, <2>4
<1>2. CASE family = "slots" /\ prog.lock = "ticket" /\ TicketInv
  <2>1. mem'[TicketNumber] = mem[TicketNumber]
    BY <1>1, <1>2, TicketWordsDiffer DEF TicketInv, TicketType, TicketOf
  <2>2. /\ \A s, u \in Waiting : Follows(s, u) => Follows(s, u)'
        /\ \A s \in Waiting : IsLast(s) => IsLast(s)'
    BY <1>0, <1>2, <2>1 DEF Follows, IsLast, NextTicket
  <2>3. QED
    BY <1>0, <2>2, IdleStep
<1>3. CASE family = "slots" /\ prog.lock = "array" /\ ArrayInv
  <2>1. mem'[ArrayTail] = mem[ArrayTail]
    BY <1>1, <1>3, ArrayWordsDiffer DEF ArrayInv, ArrayType
  <2>2. /\ \A s, u \in Waiting : Follows(s, u) => Follows(s, u)'
        /\ \A s \in Waiting : IsLast(s) => IsLast(s)'
    BY <1>0, <1>3, <2>1 DEF Follows, IsLast
  <2>3. QED
    BY <1>0, <2>2, IdleStep
<1>4. CASE family = "nodes" /\ prog.lock = "clh" /\ ClhInv
  <2>1. mem'[ClhTail] = mem[ClhTail]
    BY <1>1, <1>4, ClhWordsDiffer DEF ClhInv, ClhType, ClhFlags
  <2>2. /\ \A s, u \in Waiting : Follows(s, u) => Follows(s, u)'
        /\ \A s \in Waiting : IsLast(s) => IsLast(s)'
    BY <1>0, <1>4, <2>1 DEF Follows, IsLast
  <2>3. QED
    BY <1>0, <2>2, IdleStep
<1>5. CASE family = "nodes" /\ prog.lock = "mcs" /\ McsInv
  <2>1. mem'[McsTail] = mem[McsTail]
    BY <1>1, <1>5, McsWordsDiffer DEF McsInv, McsType
  <2>2. \A s \in Waiting : IsLast(s) => IsLast(s)'
    BY <1>0, <1>5, <2>1 DEF IsLast, ClhTail, McsTail
  <2>3. ASSUME NEW u \in Behind
        PROVE  u \in Behind'
    <3>1. u \in Threads /\ Waits(u) /\ ~ Given(u) /\ McsLocked(u)
      BY <1>5 DEF Behind, McsInv
    <3>2. ~ Late(t, LockedOf(u)) /\ LockedOf(u) \in McsWords
      BY <3>1, McsWordsDiffer DEF McsLocked, Given, Waits
    <3>3. mem'[LockedOf(u)] = mem[LockedOf(u)] /\ \A v \in Threads : Kept(v, LockedOf(u))
      BY <1>1, <1>5, <3>2 DEF McsInv, McsType
    <3>4. Waits(u)'
      BY <1>0, <3>1 DEF Waits
    <3>5. QED
      BY <1>5, <3>3, <3>4, BehindStays
  <2>4. \A s, u \in Waiting : Follows(s, u) => Follows(s, u)'
    BY <1>0, <1>5, <2>3 DEF Follows
  <2>5. QED
    BY <1>0, <2>2, <2>4, IdleStep
<1>6. QED
  BY <1>2, <1>3, <1>4, <1>5

-----------------------------------------------------------------------------
(* The queue locks implement FifoLock *)

QueueInv == family \in {"slots", "nodes"} => SlotsInv /\ NodesInv /\ Line

\* Nobody is in the queue.
LEMMA QueueInit == MCInit => QueueInv
<1> SUFFICES ASSUME MCInit, family \in {"slots", "nodes"}
             PROVE  Line
  BY SlotsInit, NodesInit DEF QueueInv
<1>1. arrived = <<>> /\ LoopInit
  BY DEF MCInit, Slots!Init, Nodes!Init, Slots!LoopInit, Nodes!LoopInit, LoopInit
<1>2. pc = [t \in Threads |-> "begin"]
  BY <1>1 DEF LoopInit
<1>3. Waiting = {}
  BY <1>2 DEF Waiting, WaitLabels
<1>4. QED
  BY <1>1, <1>3 DEF Line

\* Every step is one of FifoLock, or moves nobody.
LEMMA QueueNext ==
  ASSUME QueueInv, [MCNext]_mcvars, family \in {"slots", "nodes"}
  PROVE  QueueInv' /\ FifoStep
<1>1. SlotsInv /\ NodesInv /\ Line
  BY DEF QueueInv
<1>2. SlotsInv' /\ NodesInv'
  BY <1>1, SlotsNext, NodesNext
<1>3. ASSUME NEW t \in Threads, MCStep(t)
      PROVE  Line' /\ FifoStep
  <2>1. family' = family /\ Record
    BY <1>3 DEF MCStep
  <2>2. CASE family = "slots"
    <3>1. Slots!Step(t)
      BY <1>3, <2>2 DEF MCStep
    <3>2. CASE prog.lock = "ticket" /\ TicketInv
      BY <1>1, <2>1, <2>2, <3>1, <3>2, TicketFifo DEF Slots!Step
    <3>3. CASE prog.lock = "array" /\ ArrayInv
      BY <1>1, <2>1, <2>2, <3>1, <3>3, ArrayFifo DEF Slots!Step
    <3>4. QED
      BY <1>1, <2>2, <3>2, <3>3 DEF SlotsInv
  <2>3. CASE family = "nodes"
    <3>1. Nodes!Step(t)
      BY <1>3, <2>3 DEF MCStep
    <3>2. CASE prog.lock = "clh" /\ ClhInv
      BY <1>1, <2>1, <2>3, <3>1, <3>2, ClhFifo DEF Nodes!Step
    <3>3. CASE prog.lock = "mcs" /\ McsInv
      BY <1>1, <2>1, <2>3, <3>1, <3>3, McsFifo DEF Nodes!Step
    <3>4. QED
      BY <1>1, <2>3, <3>2, <3>3 DEF NodesInv
  <2>4. QED
    BY <2>2, <2>3
<1>4. ASSUME NEW t \in Threads, MCDrain(t)
      PROVE  Line' /\ FifoStep
  <2>1. /\ Drain(t) /\ arrived' = arrived /\ family' = family
        /\ UNCHANGED <<prog, locals>>
    BY <1>4 DEF MCDrain
  <2>2. QED
    BY <1>1, <2>1, DrainFifo DEF SlotsInv, NodesInv
<1>5. ASSUME NEW t \in Threads, MCSpontaneous(t)
      PROVE  Line' /\ FifoStep
  BY <1>5 DEF MCSpontaneous
<1>6. ASSUME MCJoin \/ UNCHANGED mcvars
      PROVE  Line' /\ FifoStep
  <2>1. /\ pc' = pc /\ mem' = mem /\ buf' = buf /\ arrived' = arrived /\ family' = family
        /\ prog' = prog /\ ticket' = ticket /\ node' = node /\ pred' = pred
    BY <1>6 DEF MCJoin, Joined, mcvars, loopvars, memvars, locals
  <2>2. Behind' = Behind
    BY <2>1 DEF Behind, Waits, Given, Late, Pending
  <2>3. /\ \A s, u \in Waiting : Follows(s, u) => Follows(s, u)'
        /\ \A s \in Waiting : IsLast(s) => IsLast(s)'
    BY <2>1, <2>2 DEF Follows, IsLast, NextTicket
  <2>4. QED
    BY <1>1, <2>1, <2>3, IdleStep
<1>7. Line' /\ FifoStep
  BY <1>3, <1>4, <1>5, <1>6 DEF MCNext
<1>8. QED
  BY <1>2, <1>7 DEF QueueInv

\* The ticket, array, CLH and MCS locks implement FifoLock: threads get in one at
\* a time in the order of the atomic instruction that queued them, although the
\* tickets wrap around and the stores that hand the lock over reach memory late.
THEOREM QueueLocksAreFifoHolds == MCSpec => QueueLocksAreFifo
<1>1. QueueInv /\ [MCNext]_mcvars => QueueInv'
  <2> SUFFICES ASSUME QueueInv, [MCNext]_mcvars
               PROVE  QueueInv'
    OBVIOUS
  <2>1. family' = family
    BY DEF MCNext, MCStep, MCDrain, MCSpontaneous, MCJoin, mcvars
  <2>2. QED
    BY <2>1, QueueNext DEF QueueInv
<1>2. QueueInv /\ [MCNext]_mcvars =>
        [(family \in {"slots", "nodes"}) => Fifo!Next]_<<arrived, Inside>>
  BY QueueNext DEF FifoStep
<1>3. QED
  BY <1>1, <1>2, QueueInit, PTL DEF MCSpec, QueueLocksAreFifo
=============================================================================
