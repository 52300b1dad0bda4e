--------------------------- MODULE ClassicProofs ---------------------------
(***************************************************************************)
(* What lock() and unlock() of intro/ and futex/ promise, for every number *)
(* of threads, iterations and stores held back: the invariants and the     *)
(* action property of module MCClassic.  Each program has an inductive     *)
(* invariant of its own; those of Peterson's algorithm, the fast mutex and *)
(* the ticket mutexes say what a store buffer may hold at each             *)
(* instruction.                                                            *)
(***************************************************************************)
EXTENDS MCClassic, TSOProofs, FiniteSetTheorems

\* The lemmas about store buffers, for the two threads of Peterson's algorithm.
Two == INSTANCE TSOProofs WITH Threads <- PetersonThreads

\* Between the return of lock() and the end of unlock(), for all programs.
InCS(t) == pc[t] \in {"load", "store", "unlock"}

-----------------------------------------------------------------------------
(* Peterson's algorithm *)

PetersonWords == {P!States(0), P!States(1), P!Turn, Counter}
PetersonLabels == {"begin", "turn", "fence", "states", "testTurn", "load", "store",
                   "unlock", "done"}

PetersonType == /\ Two!TSOType(PetersonWords, BufferSize)
                /\ pc \in [PetersonThreads -> PetersonLabels]
                /\ mem[P!Turn] \in PetersonThreads

\* Thread i has the other one's view of states[i] and turn: it is past its fence,
\* or its store to turn is in memory, and so is the one to states[i] before it.
Visible(i) == \/ pc[i] \in {"states", "testTurn", "load", "store", "unlock"}
              \/ pc[i] = "fence" /\ ~ Late(i, P!Turn)

\* What is in the buffer of thread i, and what it has announced.
Announced(i) ==
  /\ Once(i, P!Turn) /\ Before(i, P!States(i), P!Turn)
  /\ ~ Late(i, P!States(P!Other(i)))
  /\ Late(i, P!Turn) => pc[i] = "fence" /\ Read(i, P!Turn) = P!Other(i)
  /\ pc[i] \in {"turn", "fence"} => Read(i, P!States(i)) = 1
  /\ Visible(i) => mem[P!States(i)] = 1 /\ ~ Late(i, P!States(i))

\* A thread that is inside has the turn, if the other one is visible, and is alone.
HasTurn(i) ==
  InCS(i) => ~ InCS(P!Other(i)) /\ (Visible(P!Other(i)) => mem[P!Turn] = i)

PetersonInv == /\ PetersonType
               /\ \A i \in PetersonThreads : Announced(i) /\ HasTurn(i)

\* The copies of the operators of TSO and TSOCountLoop, which do not depend on
\* Threads.
LEMMA PetersonOperators ==
  /\ P!Counter = Counter
  /\ \A t : P!Drained(t) <=> Drained(t)
  /\ \A t, a : P!Read(t, a) = Read(t, a) /\ Two!Read(t, a) = Read(t, a)
  /\ \A t, a, v : /\ P!Write(t, a, v) <=> Write(t, a, v)
                  /\ Two!Write(t, a, v) <=> Write(t, a, v)
  /\ \A t : P!Flush(t) <=> Two!Flush(t)
  /\ \A m : P!MemInit(m) <=> Two!MemInit(m)
  /\ \A t, a : /\ Two!Late(t, a) <=> Late(t, a)
               /\ Two!Once(t, a) <=> Once(t, a)
               /\ Two!Kept(t, a) <=> Kept(t, a)
  /\ \A t, a, b : Two!Before(t, a, b) <=> Before(t, a, b)
<1>1. \A t, a : /\ P!Pending(t, a) = Pending(t, a)
                /\ Two!Pending(t, a) = Pending(t, a)
  BY DEF P!Pending, Two!Pending, Pending
<1>2. \A t, a : P!Read(t, a) = Read(t, a) /\ Two!Read(t, a) = Read(t, a)
  BY DEF P!Read, Two!Read, Read, P!Pending, Two!Pending, Pending
<1>3. \A t, a : /\ Two!Late(t, a) <=> Late(t, a)
                /\ Two!Once(t, a) <=> Once(t, a)
  BY <1>1 DEF Two!Late, Late, Two!Once, Once
<1>4. \A t, a : Two!Kept(t, a) <=> Kept(t, a)
  BY DEF Two!Kept, Kept, Two!Late, Late, Two!Once, Once, Two!Read, Read, Two!Pending, Pending
<1>5. \A t, a, b : Two!Before(t, a, b) <=> Before(t, a, b)
  BY <1>1 DEF Two!Before, Before
<1>6. \A t, a, v : /\ P!Write(t, a, v) <=> Write(t, a, v)
                   /\ Two!Write(t, a, v) <=> Write(t, a, v)
  BY DEF P!Write, P!WriteAll, P!Stored, Write, WriteAll, Stored,
         Two!Write, Two!WriteAll, Two!Stored
<1>7. /\ P!Counter = Counter
      /\ \A t : P!Drained(t) <=> Drained(t)
      /\ \A t : P!Flush(t) <=> Two!Flush(t)
      /\ \A m : P!MemInit(m) <=> Two!MemInit(m)
  BY DEF P!Counter, Counter, P!Drained, Drained, P!Flush, Two!Flush, Two!Drained,
         P!Stored, Two!Stored, P!MemInit, Two!MemInit
<1>8. QED
  BY <1>2, <1>3, <1>4, <1>5, <1>6, <1>7

\* The two threads and their words.
LEMMA PetersonFacts ==
  /\ \A i \in PetersonThreads :
       /\ P!Other(i) \in PetersonThreads /\ P!Other(i) # i /\ P!Other(P!Other(i)) = i
       /\ PetersonThreads = {i, P!Other(i)}
       /\ P!States(i) \in PetersonWords
       /\ P!States(i) # P!States(P!Other(i))
       /\ P!States(i) # P!Turn /\ P!States(i) # Counter
  /\ P!Turn \in PetersonWords /\ Counter \in PetersonWords /\ P!Turn # Counter
BY DEF PetersonThreads, P!Other, PetersonWords, P!States, P!Turn, Counter

\* What module TSOProofs assumes of its constants holds for the two threads.
LEMMA TwoAssumptions == /\ BufferSize \in Nat /\ Iterations \in Nat \ {0}
                        /\ Two!IsFiniteSet(PetersonThreads)
<1>1. IsFiniteSet({0}) /\ PetersonThreads = {0} \cup {1}
  BY FS_Singleton DEF PetersonThreads
<1>2. IsFiniteSet(PetersonThreads)
  BY <1>1, FS_AddElement
<1>3. Two!IsFiniteSet(PetersonThreads)
  BY <1>2 DEF Two!IsFiniteSet, IsFiniteSet
<1>4. QED
  BY <1>3, BufferAssumption, IterationsAssumption

\* Nobody has announced anything.
LEMMA PetersonInit == P!Init => PetersonInv
<1> SUFFICES ASSUME P!Init
             PROVE  PetersonInv
  OBVIOUS
<1> DEFINE m == [a \in PetersonWords |-> 0]
<1>1. Two!MemInit(m) /\ m = [a \in PetersonWords |-> m[a]] /\ m[P!Turn] = 0
  BY PetersonOperators, PetersonFacts DEF P!Init, PetersonWords
<1> HIDE DEF m
<1>2. /\ Two!TSOType(PetersonWords, BufferSize) /\ mem = m
      /\ \A t \in PetersonThreads : \A a : ~ Two!Late(t, a) /\ Two!Once(t, a)
  BY <1>1, TwoAssumptions, Two!InitEffect
<1>3. pc = [t \in PetersonThreads |-> "begin"]
  BY DEF P!Init, P!LoopInit
<1>4. \A t \in PetersonThreads : \A a, b : ~ Late(t, a) /\ Once(t, a) /\ Before(t, a, b)
  BY <1>2, PetersonOperators DEF Before, Late
<1>5. \A i \in PetersonThreads : ~ InCS(i) /\ ~ Visible(i) /\ pc[i] = "begin"
  BY <1>3 DEF InCS, Visible
<1>6. PetersonType
  BY <1>1, <1>2, <1>3 DEF PetersonType, PetersonLabels, PetersonThreads
<1>7. QED
  BY <1>4, <1>5, <1>6 DEF PetersonInv, Announced, HasTurn

\* A store of thread i.
LEMMA PetersonWrite ==
  ASSUME Two!TSOType(PetersonWords, BufferSize), NEW i \in PetersonThreads,
         NEW a \in PetersonWords, NEW v, P!Write(i, a, v)
  PROVE  /\ Two!TSOType(PetersonWords, BufferSize)'
         /\ \A b \in PetersonWords : b # a => mem'[b] = mem[b]
         /\ \A u \in PetersonThreads : \A b : u # i \/ b # a => Kept(u, b)
         /\ Read(i, a)' = v
         /\ ~ Late(i, a) => Once(i, a)'
         /\ \/ Late(i, a)' /\ mem'[a] = mem[a]
            \/ ~ Late(i, a)' /\ ~ Late(i, a) /\ mem'[a] = v
<1>1. Two!Write(i, a, v)
  BY PetersonOperators
<1>2. /\ Two!TSOType(PetersonWords, BufferSize)'
      /\ \A b \in PetersonWords : b # a => mem'[b] = mem[b]
      /\ \A u \in PetersonThreads : \A b : u # i \/ b # a => Two!Kept(u, b)
      /\ Two!Read(i, a)' = v
      /\ ~ Two!Late(i, a) => Two!Once(i, a)'
      /\ \/ Two!Late(i, a)' /\ mem'[a] = mem[a]
         \/ ~ Two!Late(i, a)' /\ ~ Two!Late(i, a) /\ mem'[a] = v
  BY <1>1, TwoAssumptions, Two!WriteEffect
<1>3. /\ Two!Read(i, a)' = Read(i, a)' /\ (Two!Late(i, a)' <=> Late(i, a)')
      /\ (Two!Once(i, a)' <=> Once(i, a)') /\ (Two!Late(i, a) <=> Late(i, a))
      /\ \A u, b : Two!Kept(u, b) <=> Kept(u, b)
  BY PetersonOperators DEF Two!Read, Read, Two!Late, Late, Two!Once, Once, Two!Pending, Pending
<1>4. QED
  BY <1>2, <1>3

\* The oldest store of thread i reaches memory.
LEMMA PetersonFlush ==
  ASSUME Two!TSOType(PetersonWords, BufferSize), NEW i \in PetersonThreads, P!Flush(i)
  PROVE  /\ Two!TSOType(PetersonWords, BufferSize)'
         /\ \A u \in PetersonThreads : \A a : u # i => Kept(u, a)
         /\ \A a \in PetersonWords :
              /\ Once(i, a) => Once(i, a)'
              /\ Read(i, a)' = Read(i, a)
              /\ Late(i, a)' => Late(i, a)
              /\ \/ mem'[a] = mem[a] /\ (Late(i, a)' <=> Late(i, a))
                 \/ /\ Late(i, a)
                    /\ Once(i, a) => ~ Late(i, a)' /\ mem'[a] = Read(i, a)
         /\ \A a, b \in PetersonWords : Before(i, a, b) =>
              /\ Before(i, a, b)'
              /\ Late(i, a)' => mem'[b] = mem[b] /\ (Late(i, b)' <=> Late(i, b))
<1>1. Two!Flush(i)
  BY PetersonOperators
<1>2. /\ Two!TSOType(PetersonWords, BufferSize)'
      /\ \A u \in PetersonThreads : \A a : u # i => Two!Kept(u, a)
      /\ \A a \in PetersonWords :
           /\ Two!Once(i, a) => Two!Once(i, a)'
           /\ Two!Read(i, a)' = Two!Read(i, a)
           /\ Two!Late(i, a)' => Two!Late(i, a)
           /\ \/ mem'[a] = mem[a] /\ (Two!Late(i, a)' <=> Two!Late(i, a))
              \/ /\ Two!Late(i, a)
                 /\ Two!Once(i, a) => ~ Two!Late(i, a)' /\ mem'[a] = Two!Read(i, a)
  BY <1>1, TwoAssumptions, Two!FlushEffect
<1>3. \A a, b \in PetersonWords : Two!Before(i, a, b) =>
        /\ Two!Before(i, a, b)'
        /\ Two!Late(i, a)' => mem'[b] = mem[b] /\ (Two!Late(i, b)' <=> Two!Late(i, b))
  BY <1>1, <1>2, TwoAssumptions, Two!BeforeAfterFlush
<1>4. \A a, b : /\ Two!Read(i, a)' = Read(i, a)' /\ (Two!Late(i, a)' <=> Late(i, a)')
                /\ (Two!Once(i, a)' <=> Once(i, a)')
                /\ (Two!Before(i, a, b)' <=> Before(i, a, b)')
  BY DEF Two!Read, Read, Two!Late, Late, Two!Once, Once, Two!Before, Before,
         Two!Pending, Pending
<1>5. QED
  BY <1>2, <1>3, <1>4, PetersonOperators

\* A step that leaves the memory alone.
LEMMA PetersonStill ==
  ASSUME UNCHANGED memvars
  PROVE  /\ \A n : Two!TSOType(PetersonWords, n) => Two!TSOType(PetersonWords, n)'
         /\ mem' = mem
         /\ \A u, a : Kept(u, a)
<1>1. UNCHANGED Two!memvars
  BY DEF memvars, Two!memvars
<1>2. /\ \A n : Two!TSOType(PetersonWords, n) => Two!TSOType(PetersonWords, n)'
      /\ mem' = mem
      /\ \A u, a : Two!Kept(u, a)
  BY <1>1, TwoAssumptions, Two!NoEffect
<1>3. QED
  BY <1>2, PetersonOperators

\* A step that keeps a buffer keeps the order of the stores in it.
LEMMA BeforeKept ==
  ASSUME NEW u, NEW a, NEW b, Kept(u, a), Kept(u, b)
  PROVE  Before(u, a, b)' <=> Before(u, a, b)
BY DEF Kept, Before

\* A step of thread i that leaves the words of the lock alone.
LEMMA PetersonMove ==
  ASSUME PetersonInv, Two!TSOType(PetersonWords, BufferSize)',
         NEW i \in PetersonThreads, NEW l \in PetersonLabels, pc' = [pc EXCEPT ![i] = l],
         \A b \in PetersonWords : b # Counter => mem'[b] = mem[b],
         \A u \in PetersonThreads : \A b : b # Counter => Kept(u, b),
         ~ Late(i, P!Turn), l \notin {"turn", "fence"}, Visible(i)' => Visible(i),
         InCS(i)' => \/ InCS(i)
                     \/ /\ ~ InCS(P!Other(i))
                        /\ Visible(P!Other(i)) => mem[P!Turn] = i
  PROVE  PetersonInv'
<1> DEFINE o == P!Other(i)
<1>1. /\ PetersonType /\ Announced(i) /\ Announced(o) /\ HasTurn(i) /\ HasTurn(o)
      /\ o \in PetersonThreads /\ o # i /\ P!Other(o) = i /\ PetersonThreads = {i, o}
  BY PetersonFacts DEF PetersonInv
<1>2. /\ mem'[P!Turn] = mem[P!Turn]
      /\ \A u \in PetersonThreads : mem'[P!States(u)] = mem[P!States(u)]
      /\ \A u, v \in PetersonThreads : Kept(u, P!Turn) /\ Kept(u, P!States(v))
  BY PetersonFacts
<1>3. PetersonType'
  BY <1>1, <1>2 DEF PetersonType
<1>4. pc'[i] = l /\ pc'[o] = pc[o]
  BY <1>1 DEF PetersonType
<1>5. \A u \in PetersonThreads : /\ Late(u, P!Turn)' <=> Late(u, P!Turn)
                                 /\ Once(u, P!Turn)' <=> Once(u, P!Turn)
                                 /\ Read(u, P!Turn)' = Read(u, P!Turn)
                                 /\ Read(u, P!States(u))' = Read(u, P!States(u))
                                 /\ Before(u, P!States(u), P!Turn)' <=>
                                      Before(u, P!States(u), P!Turn)
  <2>1. ASSUME NEW u \in PetersonThreads
        PROVE  Before(u, P!States(u), P!Turn)' <=> Before(u, P!States(u), P!Turn)
    BY <1>2, BeforeKept
  <2>2. \A u \in PetersonThreads : /\ Late(u, P!Turn)' <=> Late(u, P!Turn)
                                   /\ Once(u, P!Turn)' <=> Once(u, P!Turn)
                                   /\ Read(u, P!Turn)' = Read(u, P!Turn)
                                   /\ Read(u, P!States(u))' = Read(u, P!States(u))
    BY <1>2 DEF Kept
  <2>3. QED
    BY <2>1, <2>2
<1>6. \A u, v \in PetersonThreads : Late(u, P!States(v))' <=> Late(u, P!States(v))
  BY <1>2 DEF Kept
<1>7. Visible(o)' <=> Visible(o)
  BY <1>1, <1>4, <1>5 DEF Visible
<1>8. Announced(i)'
  BY <1>1, <1>2, <1>4, <1>5, <1>6 DEF Announced
<1>9. Announced(o)'
  BY <1>1, <1>2, <1>4, <1>5, <1>6, <1>7 DEF Announced
<1>10. HasTurn(i)' /\ HasTurn(o)'
  <2>1. InCS(o)' <=> InCS(o)
    BY <1>4 DEF InCS
  <2>2. InCS(i) => Visible(i)
    BY DEF InCS, Visible
  <2>3. InCS(i)' => Visible(i)
    BY DEF InCS, Visible
  <2>4. HasTurn(i)'
    BY <1>1, <1>2, <1>7, <2>1 DEF HasTurn
  <2>5. HasTurn(o)'
    BY <1>1, <1>2, <1>7, <2>1, <2>3 DEF HasTurn
  <2>6. QED
    BY <2>4, <2>5
<1>11. QED
  BY <1>1, <1>3, <1>8, <1>9, <1>10 DEF PetersonInv

\* A step of the algorithm.
LEMMA PetersonStep ==
  ASSUME PetersonInv, NEW i \in PetersonThreads, P!Step(i)
  PROVE  PetersonInv'
<1> DEFINE o == P!Other(i)
<1>1. /\ PetersonType /\ Announced(i) /\ Announced(o) /\ HasTurn(i) /\ HasTurn(o)
      /\ o \in PetersonThreads /\ o # i /\ P!Other(o) = i /\ PetersonThreads = {i, o}
  BY PetersonFacts DEF PetersonInv
<1>2. /\ Two!TSOType(PetersonWords, BufferSize) /\ mem[P!Turn] \in PetersonThreads
      /\ pc \in [PetersonThreads -> PetersonLabels]
      /\ P!Turn \in PetersonWords /\ Counter \in PetersonWords /\ P!Turn # Counter
      /\ P!States(i) \in PetersonWords /\ P!States(o) \in PetersonWords
      /\ P!States(i) # P!States(o) /\ P!States(i) # P!Turn /\ P!States(o) # P!Turn
      /\ P!States(i) # Counter /\ P!States(o) # Counter
  BY <1>1, PetersonFacts DEF PetersonType
\* A step that leaves the memory alone, past the fence.
<1>3. ASSUME UNCHANGED memvars, NEW l \in PetersonLabels, pc' = [pc EXCEPT ![i] = l],
             Visible(i), ~ Late(i, P!Turn), l \notin {"turn", "fence"},
             l \in {"load", "store", "unlock"} =>
               \/ InCS(i)
               \/ ~ InCS(o) /\ (Visible(o) => mem[P!Turn] = i)
      PROVE  PetersonInv'
  <2>1. pc'[i] = l
    BY <1>2, <1>3
  <2>2. QED
    BY <1>2, <1>3, <2>1, PetersonStill, PetersonMove DEF InCS
<1> USE DEF P!Goto
<1>4. CASE P!SetState(i)
  <2>1. pc[i] = "begin" /\ P!Write(i, P!States(i), 1) /\ pc' = [pc EXCEPT ![i] = "turn"]
    BY <1>4 DEF P!SetState
  <2>2. pc'[i] = "turn" /\ pc'[o] = pc[o]
    BY <1>1, <1>2, <2>1
  <2>3. /\ Two!TSOType(PetersonWords, BufferSize)'
        /\ mem'[P!Turn] = mem[P!Turn] /\ mem'[P!States(o)] = mem[P!States(o)]
        /\ Kept(i, P!Turn) /\ Kept(i, P!States(o)) /\ \A b : Kept(o, b)
        /\ Read(i, P!States(i))' = 1
    BY <1>1, <1>2, <2>1, PetersonWrite
  <2>4. ~ Late(i, P!Turn) /\ ~ InCS(i) /\ ~ Visible(i)
    BY <1>1, <2>1 DEF Announced, InCS, Visible
  <2>5. PetersonType'
    BY <1>2, <2>1, <2>3 DEF PetersonType, PetersonLabels
  <2>6. ~ Late(i, P!Turn)' /\ Before(i, P!States(i), P!Turn)' /\ Once(i, P!Turn)'
    BY <2>3, <2>4 DEF Kept, Late, Before, Once
  <2>7. Announced(i)'
    BY <1>1, <2>2, <2>3, <2>6 DEF Announced, Visible, Kept
  <2>8. (Visible(o)' <=> Visible(o)) /\ (InCS(o)' <=> InCS(o)) /\ ~ InCS(i)' /\ ~ Visible(i)'
    BY <2>2, <2>3 DEF Visible, InCS, Kept
  <2>9. Announced(o)'
    BY <1>1, <2>2, <2>3, <2>8, BeforeKept DEF Announced, Kept
  <2>10. HasTurn(i)' /\ HasTurn(o)'
    BY <1>1, <2>3, <2>8 DEF HasTurn
  <2>11. QED
    BY <1>1, <2>5, <2>7, <2>9, <2>10 DEF PetersonInv
<1>5. CASE P!GiveTurn(i)
  <2>1. pc[i] = "turn" /\ P!Write(i, P!Turn, o) /\ pc' = [pc EXCEPT ![i] = "fence"]
    BY <1>5 DEF P!GiveTurn
  <2>2. pc'[i] = "fence" /\ pc'[o] = pc[o]
    BY <1>1, <1>2, <2>1
  <2>3. ~ Late(i, P!Turn) /\ ~ InCS(i) /\ Read(i, P!States(i)) = 1
    BY <1>1, <2>1 DEF Announced, InCS
  <2>4. /\ Two!TSOType(PetersonWords, BufferSize)'
        /\ \A u \in PetersonThreads : mem'[P!States(u)] = mem[P!States(u)]
        /\ Kept(i, P!States(i)) /\ Kept(i, P!States(o)) /\ \A b : Kept(o, b)
        /\ Read(i, P!Turn)' = o /\ Once(i, P!Turn)'
        /\ \/ Late(i, P!Turn)' /\ mem'[P!Turn] = mem[P!Turn]
           \/ ~ Late(i, P!Turn)' /\ mem'[P!Turn] = o
    BY <1>1, <1>2, <2>1, <2>3, PetersonWrite
  <2>5. /\ Before(i, P!States(i), P!Turn)'
        /\ ~ Late(i, P!Turn)' => ~ Late(i, P!States(i))'
    <3>1. Two!Write(i, P!Turn, o) /\ ~ Two!Late(i, P!Turn)
      BY <2>1, <2>3, PetersonOperators
    <3>2. /\ Two!Before(i, P!States(i), P!Turn)'
          /\ ~ Two!Late(i, P!Turn)' => \A c : ~ Two!Late(i, c)'
      BY <1>2, <3>1, TwoAssumptions, Two!BeforeAfterWrite
    <3>3. QED
      BY <3>2 DEF Two!Late, Late, Two!Before, Before, Two!Pending, Pending
  <2>6. ~ Late(i, P!Turn)' => mem'[P!States(i)] = 1
    <3>1. ASSUME ~ Late(i, P!States(i))'
          PROVE  mem'[P!States(i)] = 1
      <4>1. ~ Late(i, P!States(i)) /\ mem'[P!States(i)] = mem[P!States(i)]
        BY <1>1, <2>4, <3>1 DEF Kept
      <4>2. QED
        BY <2>3, <4>1, ReadEffect
    <3>2. QED
      BY <2>5, <3>1
  <2>7. PetersonType'
    BY <1>1, <1>2, <2>1, <2>4 DEF PetersonType, PetersonLabels
  <2>8. Announced(i)'
    <3>1. /\ Read(i, P!States(i))' = Read(i, P!States(i))
          /\ Late(i, P!States(o))' <=> Late(i, P!States(o))
      BY <1>1, <2>4 DEF Kept
    <3>2. QED
      BY <1>1, <2>2, <2>3, <2>4, <2>5, <2>6, <3>1 DEF Announced, Visible
  <2>9. (Visible(o)' <=> Visible(o)) /\ (InCS(o)' <=> InCS(o)) /\ ~ InCS(i)'
    BY <2>2, <2>4 DEF Visible, InCS, Kept
  <2>10. Announced(o)'
    <3>1. Late(o, P!Turn) => Read(o, P!Turn)' = Read(o, P!Turn)
      BY <2>4 DEF Kept
    <3>2. Read(o, P!States(o))' = Read(o, P!States(o))
      BY <1>1, <2>4 DEF Kept
    <3>3. QED
      BY <1>1, <2>2, <2>4, <2>9, <3>1, <3>2, BeforeKept DEF Announced, Kept
  <2>11. HasTurn(i)' /\ HasTurn(o)'
    <3>1. Visible(i)' => mem'[P!Turn] = o
      BY <2>2, <2>4 DEF Visible
    <3>2. ~ InCS(i)
      BY <2>3
    <3>3. QED
      BY <1>1, <2>9, <3>1 DEF HasTurn
  <2>12. QED
    BY <1>1, <2>7, <2>8, <2>10, <2>11 DEF PetersonInv
<1>6. CASE P!Fence(i)
  <2>1. pc[i] = "fence" /\ pc' = [pc EXCEPT ![i] = "states"] /\ Drained(i)
    BY <1>6, PetersonOperators DEF P!Fence
  <2>2. ~ Late(i, P!Turn)
    BY <2>1, ReadEffect
  <2>3. Visible(i)
    BY <2>1, <2>2 DEF Visible
  <2>4. UNCHANGED memvars
    BY <1>6 DEF P!Fence, P!memvars, memvars
  <2>5. QED
    BY <1>3, <2>1, <2>2, <2>3, <2>4 DEF PetersonLabels
<1>7. CASE P!TestStates(i)
  <2>1. /\ pc[i] = "states" /\ UNCHANGED memvars
        /\ pc' = [pc EXCEPT ![i] = IF Read(i, P!States(o)) = 0 THEN "load" ELSE "testTurn"]
    BY <1>7, PetersonOperators DEF P!TestStates, P!memvars, memvars
  <2>2. ~ Late(i, P!Turn) /\ Visible(i) /\ ~ Late(i, P!States(o))
    BY <1>1, <2>1 DEF Announced, Visible
  <2>3. Read(i, P!States(o)) = mem[P!States(o)]
    BY <2>2, ReadEffect
  <2>4. CASE mem[P!States(o)] = 0
    <3>1. ~ Visible(o)
      BY <1>1, <2>4 DEF Announced
    <3>2. ~ InCS(o)
      BY <3>1 DEF Visible, InCS
    <3>3. QED
      BY <1>3, <2>1, <2>2, <2>3, <2>4, <3>1, <3>2 DEF PetersonLabels
  <2>5. CASE mem[P!States(o)] # 0
    BY <1>3, <2>1, <2>2, <2>3, <2>5 DEF PetersonLabels
  <2>6. QED
    BY <2>4, <2>5
<1>8. CASE P!TestTurn(i)
  <2>1. /\ pc[i] = "testTurn" /\ UNCHANGED memvars
        /\ pc' = [pc EXCEPT ![i] = IF Read(i, P!Turn) = o THEN "states" ELSE "load"]
    BY <1>8, PetersonOperators DEF P!TestTurn, P!memvars, memvars
  <2>2. ~ Late(i, P!Turn) /\ Visible(i)
    BY <1>1, <2>1 DEF Announced, Visible
  <2>3. Read(i, P!Turn) = mem[P!Turn]
    BY <2>2, ReadEffect
  <2>4. CASE mem[P!Turn] = o
    BY <1>3, <2>1, <2>2, <2>3, <2>4 DEF PetersonLabels
  <2>5. CASE mem[P!Turn] # o
    <3>1. mem[P!Turn] = i
      BY <1>1, <1>2, <2>5
    <3>2. ~ InCS(o)
      BY <1>1, <2>2, <3>1 DEF HasTurn
    <3>3. QED
      BY <1>3, <2>1, <2>2, <2>3, <2>5, <3>1, <3>2 DEF PetersonLabels
  <2>6. QED
    BY <2>4, <2>5
<1>9. CASE P!Count(i)
  <2>1. CASE P!Load(i)
    <3>1. pc[i] = "load" /\ pc' = [pc EXCEPT ![i] = "store"] /\ UNCHANGED memvars
      BY <2>1 DEF P!Load, memvars
    <3>2. ~ Late(i, P!Turn) /\ Visible(i) /\ InCS(i)
      BY <1>1, <3>1 DEF Announced, Visible, InCS
    <3>3. QED
      BY <1>3, <3>1, <3>2 DEF PetersonLabels
  <2>2. CASE P!Store(i)
    <3>1. /\ pc[i] = "store" /\ pc' = [pc EXCEPT ![i] = "unlock"]
          /\ P!Write(i, Counter, reg[i] + 1)
      BY <2>2, PetersonOperators DEF P!Store
    <3>2. ~ Late(i, P!Turn) /\ Visible(i) /\ InCS(i)
      BY <1>1, <3>1 DEF Announced, Visible, InCS
    <3>3. /\ Two!TSOType(PetersonWords, BufferSize)'
          /\ \A b \in PetersonWords : b # Counter => mem'[b] = mem[b]
          /\ \A u \in PetersonThreads : \A b : b # Counter => Kept(u, b)
      BY <1>2, <3>1, PetersonWrite
    <3>4. QED
      BY <3>1, <3>2, <3>3, PetersonMove DEF PetersonLabels
  <2>3. QED
    BY <1>9, <2>1, <2>2 DEF P!Count
<1>10. CASE P!Unlock(i)
  <2>1. PICK l \in {"begin", "done"} : pc' = [pc EXCEPT ![i] = l]
    BY <1>10 DEF P!Unlock, P!EndIteration, P!After
  <2>2. pc[i] = "unlock" /\ P!Write(i, P!States(i), 0)
    BY <1>10 DEF P!Unlock
  <2>3. pc'[i] = l /\ pc'[o] = pc[o]
    BY <1>1, <1>2, <2>1
  <2>4. /\ Two!TSOType(PetersonWords, BufferSize)'
        /\ mem'[P!Turn] = mem[P!Turn] /\ mem'[P!States(o)] = mem[P!States(o)]
        /\ Kept(i, P!Turn) /\ Kept(i, P!States(o)) /\ \A b : Kept(o, b)
    BY <1>1, <1>2, <2>2, PetersonWrite
  <2>5. ~ Late(i, P!Turn) /\ InCS(i)
    BY <1>1, <2>2 DEF Announced, InCS
  <2>6. PetersonType'
    BY <1>2, <2>1, <2>4 DEF PetersonType, PetersonLabels
  <2>7. ~ Late(i, P!Turn)' /\ Before(i, P!States(i), P!Turn)' /\ Once(i, P!Turn)'
    BY <2>4, <2>5 DEF Kept, Late, Before, Once
  <2>8. (Visible(o)' <=> Visible(o)) /\ (InCS(o)' <=> InCS(o)) /\ ~ InCS(i)' /\ ~ Visible(i)'
    BY <2>3, <2>4 DEF Visible, InCS, Kept
  <2>9. Announced(i)'
    BY <1>1, <2>3, <2>4, <2>7, <2>8 DEF Announced, Kept
  <2>10. Announced(o)'
    BY <1>1, <2>3, <2>4, <2>8, BeforeKept DEF Announced, Kept
  <2>11. HasTurn(i)' /\ HasTurn(o)'
    BY <1>1, <2>4, <2>8 DEF HasTurn
  <2>12. QED
    BY <1>1, <2>6, <2>9, <2>10, <2>11 DEF PetersonInv
<1>11. QED
  BY <1>4, <1>5, <1>6, <1>7, <1>8, <1>9, <1>10 DEF P!Step

\* A store of thread i reaches memory.
LEMMA PetersonDrain ==
  ASSUME PetersonInv, NEW i \in PetersonThreads, P!Drain(i)
  PROVE  PetersonInv'
<1> DEFINE o == P!Other(i)
<1>1. /\ PetersonType /\ Announced(i) /\ Announced(o) /\ HasTurn(i) /\ HasTurn(o)
      /\ o \in PetersonThreads /\ o # i /\ P!Other(o) = i /\ PetersonThreads = {i, o}
  BY PetersonFacts DEF PetersonInv
<1>2. /\ P!Turn \in PetersonWords
      /\ P!States(i) \in PetersonWords /\ P!States(o) \in PetersonWords
  BY <1>1, PetersonFacts
<1>3. P!Flush(i) /\ pc' = pc
  BY DEF P!Drain, P!loopvars
<1>4. /\ Two!TSOType(PetersonWords, BufferSize)'
      /\ \A a : Kept(o, a)
      /\ \A a \in PetersonWords :
           /\ Once(i, a) => Once(i, a)'
           /\ Read(i, a)' = Read(i, a)
           /\ Late(i, a)' => Late(i, a)
           /\ \/ mem'[a] = mem[a] /\ (Late(i, a)' <=> Late(i, a))
              \/ /\ Late(i, a)
                 /\ Once(i, a) => ~ Late(i, a)' /\ mem'[a] = Read(i, a)
      /\ \A a, b \in PetersonWords : Before(i, a, b) =>
           /\ Before(i, a, b)'
           /\ Late(i, a)' => mem'[b] = mem[b] /\ (Late(i, b)' <=> Late(i, b))
  BY <1>1, <1>3, PetersonFlush DEF PetersonType
<1>5. \/ mem'[P!Turn] = mem[P!Turn] /\ (Late(i, P!Turn)' <=> Late(i, P!Turn))
      \/ Late(i, P!Turn) /\ ~ Late(i, P!Turn)' /\ mem'[P!Turn] = o
  BY <1>1, <1>2, <1>4 DEF Announced
<1>6. mem'[P!States(o)] = mem[P!States(o)]
  BY <1>1, <1>2, <1>4 DEF Announced
<1>7. PetersonType'
  BY <1>1, <1>3, <1>4, <1>5 DEF PetersonType
<1>8. Visible(i)' => ~ Late(i, P!States(i))' /\ mem'[P!States(i)] = 1
  <2>1. CASE Visible(i)
    <3>1. ~ Late(i, P!States(i)) /\ mem[P!States(i)] = 1
      BY <1>1, <2>1 DEF Announced
    <3>2. QED
      BY <1>2, <1>4, <3>1
  <2>2. CASE ~ Visible(i) /\ Visible(i)'
    <3>1. pc[i] = "fence" /\ Late(i, P!Turn) /\ ~ Late(i, P!Turn)'
      BY <1>3, <2>2 DEF Visible
    <3>2. ~ Late(i, P!States(i))'
      BY <1>1, <1>2, <1>4, <3>1 DEF Announced
    <3>3. Read(i, P!States(i))' = 1
      BY <1>1, <1>2, <1>4, <3>1 DEF Announced
    <3>4. ~ Late(i, P!States(i))' => Read(i, P!States(i))' = mem'[P!States(i)]
      BY DEF Late, Read
    <3>5. QED
      BY <3>2, <3>3, <3>4
  <2>3. QED
    BY <2>1, <2>2
<1>9. Announced(i)'
  BY <1>1, <1>2, <1>3, <1>4, <1>8 DEF Announced
<1>10. (Visible(o)' <=> Visible(o)) /\ (InCS(o)' <=> InCS(o)) /\ (InCS(i)' <=> InCS(i))
  BY <1>3, <1>4 DEF Visible, InCS, Kept
<1>11. Announced(o)'
  <2>1. Late(o, P!Turn) => Read(o, P!Turn)' = Read(o, P!Turn)
    BY <1>4 DEF Kept
  <2>2. Read(o, P!States(o))' = Read(o, P!States(o))
    BY <1>4, <1>6 DEF Kept
  <2>3. QED
    BY <1>1, <1>3, <1>4, <1>6, <1>10, <2>1, <2>2, BeforeKept DEF Announced, Kept
<1>12. HasTurn(i)' /\ HasTurn(o)'
  <2>1. InCS(i) => ~ Late(i, P!Turn)
    BY <1>1 DEF Announced, InCS
  <2>2. HasTurn(i)'
    BY <1>1, <1>5, <1>10, <2>1 DEF HasTurn
  <2>3. Visible(i)' => Visible(i) \/ mem'[P!Turn] = o
    BY <1>3, <1>5 DEF Visible
  <2>4. HasTurn(o)'
    BY <1>1, <1>5, <1>10, <2>3 DEF HasTurn
  <2>5. QED
    BY <2>2, <2>4
<1>13. QED
  BY <1>1, <1>7, <1>9, <1>11, <1>12 DEF PetersonInv

\* A step that leaves the variables of the algorithm alone.
LEMMA PetersonStutter ==
  ASSUME PetersonInv, UNCHANGED <<memvars, pc>>
  PROVE  PetersonInv'
<1>1. pc' = pc /\ mem' = mem /\ \A u, b : Kept(u, b)
  BY PetersonStill
<1>2. /\ \A u, b : /\ Late(u, b)' <=> Late(u, b)
                   /\ Once(u, b)' <=> Once(u, b)
                   /\ Read(u, b)' = Read(u, b)
      /\ \A u, a, b : Before(u, a, b)' <=> Before(u, a, b)
  BY <1>1 DEF Kept, Before
<1>3. PetersonType'
  BY <1>1, PetersonStill DEF PetersonInv, PetersonType
<1>4. \A i : (Visible(i)' <=> Visible(i)) /\ (InCS(i)' <=> InCS(i))
  BY <1>1, <1>2 DEF Visible, InCS
<1>5. \A i : (Announced(i)' <=> Announced(i)) /\ (HasTurn(i)' <=> HasTurn(i))
  BY <1>1, <1>2, <1>4 DEF Announced, HasTurn
<1>6. QED
  BY <1>3, <1>5 DEF PetersonInv

\* One thread inside.
LEMMA PetersonSafe ==
  ASSUME PetersonInv
  PROVE  \A s, t \in PetersonThreads : InCS(s) /\ InCS(t) => s = t
BY PetersonFacts DEF PetersonInv, HasTurn

\* A thread that waits past its fence with the turn does not see the other one
\* get in first: the flag of the one is in memory, and the other reads both.
LEMMA PetersonTurnFirst ==
  ASSUME PetersonInv, P!Next
  PROVE  P!TurnGoesFirst
<1> SUFFICES ASSUME NEW i \in PetersonThreads, pc[i] \in {"states", "testTurn"},
                    mem[P!Turn] = i, pc[P!Other(i)] # "load"
             PROVE  pc'[P!Other(i)] # "load"
  BY DEF P!TurnGoesFirst
<1> DEFINE o == P!Other(i)
<1>1. /\ PetersonType /\ Announced(i) /\ Announced(o)
      /\ o \in PetersonThreads /\ o # i /\ P!Other(o) = i /\ PetersonThreads = {i, o}
  BY PetersonFacts DEF PetersonInv
<1>2. pc \in [PetersonThreads -> PetersonLabels]
  BY <1>1 DEF PetersonType
<1>3. mem[P!States(i)] = 1 /\ ~ Late(o, P!States(i))
  BY <1>1 DEF Announced, Visible
<1>4. ASSUME P!Step(o)
      PROVE  pc'[o] # "load"
  <2> USE DEF P!Goto
  <2>1. CASE P!TestStates(o)
    <3>1. Read(o, P!States(i)) = 1
      BY <1>3, ReadEffect
    <3>2. pc' = [pc EXCEPT ![o] = IF Read(o, P!States(i)) = 0 THEN "load" ELSE "testTurn"]
      BY <1>1, <2>1, PetersonOperators DEF P!TestStates
    <3>3. QED
      BY <1>1, <1>2, <3>1, <3>2
  <2>2. CASE P!TestTurn(o)
    <3>1. pc[o] = "testTurn"
      BY <2>2 DEF P!TestTurn
    <3>2. ~ Late(o, P!Turn)
      BY <1>1, <3>1 DEF Announced
    <3>3. Read(o, P!Turn) = i
      BY <3>2, ReadEffect
    <3>4. pc' = [pc EXCEPT ![o] = IF Read(o, P!Turn) = i THEN "states" ELSE "load"]
      BY <1>1, <2>2, PetersonOperators DEF P!TestTurn
    <3>5. QED
      BY <1>1, <1>2, <3>3, <3>4
  <2>3. CASE P!Count(o)
    BY <1>1, <1>2, <2>3 DEF P!Count, P!Load, P!Store
  <2>4. CASE P!SetState(o) \/ P!GiveTurn(o) \/ P!Fence(o)
    BY <1>1, <1>2, <2>4 DEF P!SetState, P!GiveTurn, P!Fence
  <2>5. CASE P!Unlock(o)
    BY <1>1, <1>2, <2>5 DEF P!Unlock, P!EndIteration, P!After
  <2>6. QED
    BY <1>4, <2>1, <2>2, <2>3, <2>4, <2>5 DEF P!Step
<1>5. ASSUME P!Step(i)
      PROVE  pc'[o] = pc[o]
  <2>1. \E l : pc' = [pc EXCEPT ![i] = l]
    BY <1>5 DEF P!Step, P!SetState, P!GiveTurn, P!Fence, P!TestStates, P!TestTurn, P!Count,
                P!Load, P!Store, P!Unlock, P!EndIteration, P!Goto
  <2>2. QED
    BY <1>1, <1>2, <2>1
<1>6. (\E u \in PetersonThreads : P!Drain(u)) \/ P!Join => pc' = pc
  BY DEF P!Drain, P!Join, P!Joined, P!loopvars
<1>7. QED
  BY <1>1, <1>4, <1>5, <1>6 DEF P!Next

-----------------------------------------------------------------------------
(* Lamport's fast mutex *)

FastWords == {F!B(i) : i \in Threads} \cup {F!X, F!Y, Counter}
FastLabels == {"begin", "x", "testY", "withdraw", "awaitY", "y", "testX", "lower",
               "awaitB", "recheckY", "load", "store", "unlock", "unlockB", "done"}

FastType == /\ TSOType(FastWords, BufferSize)
            /\ pc \in [Threads -> FastLabels]
            /\ j \in [Threads -> Threads]
            /\ mem[F!Y] \in Threads \cup {-1}

\* Thread i has found y < 0 and not yet looked at x.
Tries(i) == pc[i] \in {"y", "testX"}

\* Thread i is inside, or has left and memory does not know that yet.
Inside(i) == InCS(i) \/ (pc[i] # "testX" /\ Late(i, F!Y))

\* Thread k has read b[i] = 0 after it found x # k.
Passed(k, i) == pc[k] = "recheckY" \/ (pc[k] = "awaitB" /\ j[k] > i)

\* What is in the buffer of thread i, and its flag b[i].
FastOwn(i) ==
  /\ Once(i, F!X) /\ Once(i, F!Y)
  /\ \A k \in Threads : k # i => ~ Late(i, F!B(k))
  /\ Late(i, F!X) => pc[i] = "testY" /\ Read(i, F!X) = i
  /\ Late(i, F!Y) => \/ pc[i] = "testX" /\ Read(i, F!Y) = i
                     \/ /\ pc[i] \in {"unlockB", "done", "begin", "x", "testY"}
                        /\ Read(i, F!Y) = -1
  /\ pc[i] \in {"x", "testY"} => Read(i, F!B(i)) = 1
  /\ Tries(i) => mem[F!B(i)] = 1 /\ ~ Late(i, F!B(i))
  /\ pc[i] # "awaitB" => j[i] = 0

\* A thread that finds its own x also finds that memory says y >= 0.
FastReady(i) == /\ pc[i] = "testX" /\ ~ Late(i, F!Y) /\ mem[F!X] = i
                => mem[F!Y] # -1

\* A thread on the slow path that finds its own y has no competitors among those
\* whose flags it has seen down.
FastClear(k, i) == Passed(k, i) /\ mem[F!Y] = k => ~ Tries(i) /\ ~ Inside(i)

\* Thread i came in with its flag up, which stays up in memory until y = -1 is there.
ByX(i) == /\ mem[F!B(i)] = 1 /\ Before(i, F!Y, F!B(i))
          /\ pc[i] \in {"load", "store", "unlock", "unlockB"} => ~ Late(i, F!B(i))

\* Thread i came in with its own y.
ByY(i) == mem[F!Y] = i /\ \A k \in Threads : k # i => ~ Tries(k)

\* Those who try will find another x, those who wait for flags another y.
Hopeless(k, i) == /\ ~ Inside(k)
                  /\ Tries(k) => mem[F!X] # k
                  /\ Passed(k, i) => mem[F!Y] # k

FastAlone(i) == Inside(i) => /\ mem[F!Y] # -1 /\ (ByX(i) \/ ByY(i))
                             /\ \A k \in Threads : k # i => Hopeless(k, i)

FastHeld == \A i \in Threads :
              /\ FastOwn(i) /\ FastReady(i) /\ FastAlone(i)
              /\ \A k \in Threads : k # i => FastClear(k, i)

FastInv == FastType /\ FastHeld

\* The copies of the operators of TSO and TSOCountLoop in FastMutex.
LEMMA FastOperators ==
  /\ F!Counter = Counter
  /\ \A t : F!Drained(t) <=> Drained(t)
  /\ \A t, a : F!Read(t, a) = Read(t, a)
  /\ \A t, a, v : F!Write(t, a, v) <=> Write(t, a, v)
  /\ \A t : F!Flush(t) <=> Flush(t)
  /\ \A m : F!MemInit(m) <=> MemInit(m)
  /\ UNCHANGED F!memvars <=> UNCHANGED memvars
BY DEF F!Counter, Counter, F!Drained, Drained, F!Read, Read, F!Pending, Pending,
       F!Write, Write, F!WriteAll, WriteAll, F!Stored, Stored, F!Flush, Flush,
       F!MemInit, MemInit, F!memvars, memvars

\* The words are different, and the threads are numbers.
LEMMA FastFacts ==
  /\ Cardinality(Threads) \in Nat /\ Threads \subseteq Nat /\ -1 \notin Threads
  /\ Threads = 0 .. Cardinality(Threads) - 1
  /\ F!X \in FastWords /\ F!Y \in FastWords /\ Counter \in FastWords
  /\ F!X # F!Y /\ F!X # Counter /\ F!Y # Counter
  /\ \A i \in Threads : F!B(i) \in FastWords
  /\ \A i : F!B(i) # F!X /\ F!B(i) # F!Y /\ F!B(i) # Counter
  /\ \A i, k : i # k => F!B(i) # F!B(k)
<1>1. Cardinality(Threads) \in Nat
  BY ThreadsAssumption, FS_CardinalityType
<1>2. Threads = 0 .. Cardinality(Threads) - 1
  BY IndexAssumption
<1>3. Threads \subseteq Nat /\ -1 \notin Threads
  BY <1>1, <1>2
<1>4. /\ F!X \in FastWords /\ F!Y \in FastWords /\ Counter \in FastWords
      /\ F!X # F!Y /\ F!X # Counter /\ F!Y # Counter
      /\ \A i \in Threads : F!B(i) \in FastWords
      /\ \A i : F!B(i) # F!X /\ F!B(i) # F!Y /\ F!B(i) # Counter
  BY DEF FastWords, F!X, F!Y, F!B, Counter
<1>5. \A i, k : i # k => F!B(i) # F!B(k)
  BY DEF F!B
<1>6. QED
  BY <1>1, <1>2, <1>3, <1>4, <1>5

\* Nobody has stored anything.
LEMMA FastInit == F!Init => FastInv
<1> SUFFICES ASSUME F!Init
             PROVE  FastInv
  OBVIOUS
<1> DEFINE m == [a \in FastWords |-> IF a \in {F!X, F!Y} THEN -1 ELSE 0]
<1>1. MemInit(m) /\ m = [a \in FastWords |-> m[a]] /\ m[F!Y] = -1
  BY FastOperators, FastFacts DEF F!Init, FastWords
<1> HIDE DEF m
<1>2. /\ TSOType(FastWords, BufferSize) /\ mem = m
      /\ \A t \in Threads : \A a : ~ Late(t, a) /\ Once(t, a)
  BY <1>1, BufferAssumption, InitEffect
<1>3. pc = [t \in Threads |-> "begin"] /\ j = [t \in Threads |-> 0]
  BY DEF F!Init, F!LoopInit
<1>4. j \in [Threads -> Threads]
  <2>1. ASSUME NEW t \in Threads
        PROVE  0 \in Threads
    BY FastFacts
  <2>2. QED
    BY <1>3, <2>1
<1>5. FastType
  BY <1>1, <1>2, <1>3, <1>4 DEF FastType, FastLabels
<1>6. \A t \in Threads : pc[t] = "begin" /\ j[t] = 0
  BY <1>3
<1>7. QED
  BY <1>2, <1>5, <1>6 DEF FastInv, FastHeld, FastOwn, FastReady, FastAlone, FastClear,
     Inside, InCS, Tries, Passed

\* What others are to thread t after a step of t that leaves their buffers and flags.
LEMMA FastOthers ==
  ASSUME FastInv, NEW t \in Threads,
         \A u \in Threads : u # t => /\ pc'[u] = pc[u] /\ j'[u] = j[u]
                                     /\ mem'[F!B(u)] = mem[F!B(u)]
                                     /\ \A b : Kept(u, b)
  PROVE  \A u \in Threads : u # t =>
           /\ Inside(u)' <=> Inside(u)
           /\ Tries(u)' <=> Tries(u)
           /\ \A i : Passed(u, i)' <=> Passed(u, i)
           /\ ByX(u)' <=> ByX(u)
           /\ FastOwn(u)'
           /\ Late(u, F!Y)' <=> Late(u, F!Y)
<1> SUFFICES ASSUME NEW u \in Threads, u # t
             PROVE  /\ Inside(u)' <=> Inside(u)
                    /\ Tries(u)' <=> Tries(u)
                    /\ \A i : Passed(u, i)' <=> Passed(u, i)
                    /\ ByX(u)' <=> ByX(u)
                    /\ FastOwn(u)'
                    /\ Late(u, F!Y)' <=> Late(u, F!Y)
  OBVIOUS
<1>1. /\ pc'[u] = pc[u] /\ j'[u] = j[u] /\ mem'[F!B(u)] = mem[F!B(u)]
      /\ \A b : Kept(u, b)
  OBVIOUS
<1>2. \A b : /\ Late(u, b)' <=> Late(u, b)
             /\ Once(u, b)' <=> Once(u, b)
             /\ Late(u, b) => Read(u, b)' = Read(u, b)
  BY <1>1 DEF Kept
<1>3. Before(u, F!Y, F!B(u))' <=> Before(u, F!Y, F!B(u))
  BY <1>1 DEF Kept, Before
<1>4. (Tries(u)' <=> Tries(u)) /\ (InCS(u)' <=> InCS(u))
  BY <1>1 DEF Tries, InCS
<1>5. (Inside(u)' <=> Inside(u)) /\ \A i : Passed(u, i)' <=> Passed(u, i)
  BY <1>1, <1>2, <1>4 DEF Inside, Passed
<1>6. ByX(u)' <=> ByX(u)
  BY <1>1, <1>2, <1>3 DEF ByX
<1>7. Read(u, F!B(u))' = Read(u, F!B(u))
  BY <1>1 DEF Kept
<1>8. FastOwn(u)
  BY DEF FastInv, FastHeld
<1>9. FastOwn(u)'
  BY <1>1, <1>2, <1>4, <1>7, <1>8 DEF FastOwn
<1>10. QED
  BY <1>2, <1>4, <1>5, <1>6, <1>9

\* A step of t that leaves y alone in memory, and x unless it becomes t.
LEMMA FastFrame ==
  ASSUME FastInv, FastType', NEW t \in Threads,
         \A u \in Threads : u # t => /\ pc'[u] = pc[u] /\ j'[u] = j[u]
                                     /\ mem'[F!B(u)] = mem[F!B(u)]
                                     /\ \A b : Kept(u, b),
         mem'[F!Y] = mem[F!Y],
         \/ mem'[F!X] = mem[F!X]
         \/ mem'[F!X] = t /\ ~ Tries(t)',
         FastOwn(t)', FastReady(t)',
         Tries(t)' => Tries(t) \/ mem[F!Y] = -1,
         \A i \in Threads : i # t /\ Passed(t, i)' => Passed(t, i) \/ mem[F!B(i)] = 0,
         Inside(t)' => /\ mem[F!Y] # -1 /\ (ByX(t)' \/ ByY(t))
                       /\ \A k \in Threads : k # t => Hopeless(k, t)
  PROVE  FastInv'
<1>1. FastType /\ \A i \in Threads : /\ FastOwn(i) /\ FastReady(i) /\ FastAlone(i)
                                     /\ \A k \in Threads : k # i => FastClear(k, i)
  BY DEF FastInv, FastHeld
<1>2. \A u \in Threads : u # t =>
        /\ Inside(u)' <=> Inside(u)
        /\ Tries(u)' <=> Tries(u)
        /\ \A i : Passed(u, i)' <=> Passed(u, i)
        /\ ByX(u)' <=> ByX(u)
        /\ FastOwn(u)'
        /\ Late(u, F!Y)' <=> Late(u, F!Y)
  BY FastOthers
<1>3. ASSUME NEW u \in Threads, u # t
      PROVE  FastReady(u)'
  BY <1>1, <1>2, <1>3 DEF FastReady
<1>4. ASSUME NEW i \in Threads, NEW k \in Threads, i # k
      PROVE  FastClear(k, i)'
  <2>1. FastClear(k, i)
    BY <1>1, <1>4
  <2>2. CASE k # t /\ i # t
    BY <1>2, <2>1, <2>2 DEF FastClear
  <2>3. CASE k = t
    <3>1. SUFFICES ASSUME Passed(t, i)', mem[F!Y] = t, Tries(i) \/ Inside(i)
                   PROVE  FALSE
      BY <1>2, <1>4, <2>3 DEF FastClear
    <3>2. ~ Passed(t, i) /\ mem[F!B(i)] = 0
      BY <1>4, <2>1, <2>3, <3>1 DEF FastClear
    <3>3. ~ Tries(i)
      BY <1>1, <3>2 DEF FastOwn
    <3>4. Inside(i) => ByY(i)
      BY <1>1, <3>2 DEF FastAlone, ByX
    <3>5. QED
      BY <1>4, <2>3, <3>1, <3>3, <3>4 DEF ByY
  <2>4. CASE i = t
    <3>1. SUFFICES ASSUME Passed(k, t), mem[F!Y] = k, Tries(t)' \/ Inside(t)'
                   PROVE  FALSE
      BY <1>2, <1>4, <2>4 DEF FastClear
    <3>2. ~ Inside(t)'
      BY <1>4, <2>4, <3>1 DEF Hopeless
    <3>3. k # -1
      BY FastFacts
    <3>4. QED
      BY <2>1, <2>4, <3>1, <3>2, <3>3 DEF FastClear
  <2>5. QED
    BY <2>2, <2>3, <2>4
<1>5. ASSUME NEW i \in Threads, i # t, Inside(i)
      PROVE  FastAlone(i)'
  <2>1. /\ mem[F!Y] # -1 /\ (ByX(i) \/ ByY(i))
        /\ \A k \in Threads : k # i => Hopeless(k, i)
    BY <1>1, <1>5 DEF FastAlone
  <2>2. ~ Inside(t)'
    BY <1>5 DEF Hopeless
  <2>3. Tries(t)' => Tries(t)
    BY <2>1
  <2>4. ByX(i)' \/ ByY(i)'
    <3>1. CASE ByX(i)
      BY <1>2, <1>5, <3>1
    <3>2. CASE ByY(i)
      BY <1>2, <1>5, <2>3, <3>2 DEF ByY
    <3>3. QED
      BY <2>1, <3>1, <3>2
  <2>5. Hopeless(t, i)'
    <3>1. Hopeless(t, i)
      BY <1>5, <2>1
    <3>2. Tries(t)' => mem'[F!X] # t
      BY <2>3, <3>1 DEF Hopeless
    <3>3. Passed(t, i)' => mem[F!Y] # t
      <4>1. CASE Passed(t, i)
        BY <3>1, <4>1 DEF Hopeless
      <4>2. CASE mem[F!B(i)] = 0
        <5>1. ByY(i)
          BY <2>1, <4>2 DEF ByX
        <5>2. QED
          BY <1>5, <5>1 DEF ByY
      <4>3. QED
        BY <1>5, <4>1, <4>2
    <3>4. QED
      BY <2>2, <3>2, <3>3 DEF Hopeless
  <2>6. ASSUME NEW k \in Threads, k # i, k # t
        PROVE  Hopeless(k, i)'
    <3>1. Hopeless(k, i)
      BY <2>1, <2>6
    <3>2. QED
      BY <1>2, <2>6, <3>1 DEF Hopeless
  <2>7. QED
    BY <2>1, <2>4, <2>5, <2>6 DEF FastAlone
<1>6. FastAlone(t)'
  <2>1. SUFFICES ASSUME Inside(t)'
                 PROVE  /\ mem'[F!Y] # -1 /\ (ByX(t)' \/ ByY(t)')
                        /\ \A k \in Threads : k # t => Hopeless(k, t)'
    BY DEF FastAlone
  <2>2. ByY(t) => ByY(t)'
    BY <1>2 DEF ByY
  <2>3. ASSUME NEW k \in Threads, k # t
        PROVE  Hopeless(k, t)'
    <3>1. Hopeless(k, t)
      BY <2>1, <2>3
    <3>2. QED
      BY <1>2, <2>3, <3>1 DEF Hopeless
  <2>4. QED
    BY <2>1, <2>2, <2>3
<1>7. \A i \in Threads : i # t => FastAlone(i)'
  BY <1>2, <1>5 DEF FastAlone
<1>8. QED
  BY <1>2, <1>3, <1>4, <1>5, <1>6, <1>7 DEF FastInv, FastHeld

\* The store y = t reaches memory.
LEMMA FastSetsY ==
  ASSUME FastInv, FastType', NEW t \in Threads,
         \A u \in Threads : u # t => /\ pc'[u] = pc[u] /\ j'[u] = j[u]
                                     /\ mem'[F!B(u)] = mem[F!B(u)]
                                     /\ \A b : Kept(u, b),
         mem'[F!X] = mem[F!X], mem'[F!Y] = t,
         Tries(t), pc'[t] = "testX", FastOwn(t)', ~ Inside(t)'
  PROVE  FastInv'
<1>1. FastType /\ \A i \in Threads : /\ FastOwn(i) /\ FastReady(i) /\ FastAlone(i)
                                     /\ \A k \in Threads : k # i => FastClear(k, i)
  BY DEF FastInv, FastHeld
<1>2. \A u \in Threads : u # t =>
        /\ Inside(u)' <=> Inside(u)
        /\ Tries(u)' <=> Tries(u)
        /\ \A i : Passed(u, i)' <=> Passed(u, i)
        /\ ByX(u)' <=> ByX(u)
        /\ FastOwn(u)'
        /\ Late(u, F!Y)' <=> Late(u, F!Y)
  BY FastOthers
<1>3. t # -1 /\ \A i : ~ Passed(t, i)'
  BY FastFacts DEF Passed
<1>4. \A i \in Threads : FastReady(i)'
  BY <1>3 DEF FastReady
<1>5. \A i, k \in Threads : k # i => FastClear(k, i)'
  BY <1>3 DEF FastClear
<1>6. ASSUME NEW i \in Threads, i # t, Inside(i)
      PROVE  FastAlone(i)'
  <2>1. /\ ByX(i) \/ ByY(i)
        /\ \A k \in Threads : k # i => Hopeless(k, i)
    BY <1>1, <1>6 DEF FastAlone
  <2>2. ByX(i)'
    BY <1>2, <1>6, <2>1 DEF ByY
  <2>3. Hopeless(t, i)'
    <3>1. Hopeless(t, i)
      BY <1>6, <2>1
    <3>2. QED
      BY <1>3, <3>1 DEF Hopeless
  <2>4. ASSUME NEW k \in Threads, k # i, k # t
        PROVE  Hopeless(k, i)'
    <3>1. Hopeless(k, i)
      BY <2>1, <2>4
    <3>2. QED
      BY <1>2, <2>4, <3>1 DEF Hopeless
  <2>5. QED
    BY <1>3, <2>2, <2>3, <2>4 DEF FastAlone
<1>7. \A i \in Threads : FastAlone(i)'
  BY <1>2, <1>6 DEF FastAlone
<1>8. QED
  BY <1>2, <1>4, <1>5, <1>7 DEF FastInv, FastHeld

\* The store y = -1 reaches memory.
LEMMA FastResetsY ==
  ASSUME FastInv, FastType', NEW t \in Threads,
         \A u \in Threads : u # t => /\ pc'[u] = pc[u] /\ j'[u] = j[u]
                                     /\ mem'[F!B(u)] = mem[F!B(u)]
                                     /\ \A b : Kept(u, b),
         mem'[F!X] = mem[F!X] \/ mem'[F!X] = t, mem'[F!Y] = -1,
         Inside(t), ~ Inside(t)', FastOwn(t)', pc'[t] # "testX"
  PROVE  FastInv'
<1>1. FastType /\ \A i \in Threads : /\ FastOwn(i) /\ FastReady(i) /\ FastAlone(i)
                                     /\ \A k \in Threads : k # i => FastClear(k, i)
  BY DEF FastInv, FastHeld
<1>2. \A u \in Threads : u # t =>
        /\ Inside(u)' <=> Inside(u)
        /\ Tries(u)' <=> Tries(u)
        /\ \A i : Passed(u, i)' <=> Passed(u, i)
        /\ ByX(u)' <=> ByX(u)
        /\ FastOwn(u)'
        /\ Late(u, F!Y)' <=> Late(u, F!Y)
  BY FastOthers
<1>3. \A k \in Threads : k # t => Hopeless(k, t)
  BY <1>1 DEF FastAlone
<1>4. \A i \in Threads : ~ Inside(i)'
  BY <1>2, <1>3 DEF Hopeless
<1>5. ASSUME NEW i \in Threads
      PROVE  FastReady(i)'
  <2>1. CASE i = t
    BY <2>1 DEF FastReady
  <2>2. CASE i # t
    <3>1. pc'[i] = "testX" => mem'[F!X] # i
      BY <1>3, <2>2 DEF Hopeless, Tries
    <3>2. QED
      BY <3>1 DEF FastReady
  <2>3. QED
    BY <2>1, <2>2
<1>6. \A i, k \in Threads : k # i => FastClear(k, i)'
  BY FastFacts DEF FastClear
<1>7. \A i \in Threads : FastAlone(i)'
  BY <1>4 DEF FastAlone
<1>8. QED
  BY <1>2, <1>5, <1>6, <1>7 DEF FastInv, FastHeld

\* A step that leaves the words of the lock alone.
LEMMA FastMove ==
  ASSUME FastInv, TSOType(FastWords, BufferSize)', NEW t \in Threads,
         NEW l \in FastLabels, pc' = [pc EXCEPT ![t] = l],
         j' \in [Threads -> Threads], \A u \in Threads : u # t => j'[u] = j[u],
         l # "awaitB" => j'[t] = 0,
         \A b \in FastWords : b # Counter => mem'[b] = mem[b],
         \A u \in Threads : \A b : u # t \/ b # Counter => Kept(u, b),
         ~ Late(t, F!X), ~ Late(t, F!Y), l \notin {"x", "testY", "testX"},
         l = "y" => mem[F!B(t)] = 1 /\ ~ Late(t, F!B(t)) /\ mem[F!Y] = -1,
         \A i \in Threads : i # t /\ Passed(t, i)' => Passed(t, i) \/ mem[F!B(i)] = 0,
         l \in {"load", "store", "unlock"} =>
           \/ InCS(t)
           \/ /\ mem[F!Y] # -1 /\ ((ByX(t) /\ ~ Late(t, F!B(t))) \/ ByY(t))
              /\ \A k \in Threads : k # t => Hopeless(k, t)
  PROVE  FastInv'
<1>1. /\ FastType /\ FastOwn(t) /\ FastAlone(t)
      /\ pc \in [Threads -> FastLabels]
  BY DEF FastInv, FastHeld, FastType
<1>2. pc'[t] = l /\ \A u \in Threads : u # t => pc'[u] = pc[u]
  BY <1>1
<1>3. /\ mem'[F!X] = mem[F!X] /\ mem'[F!Y] = mem[F!Y]
      /\ \A u \in Threads : mem'[F!B(u)] = mem[F!B(u)]
      /\ \A u, v \in Threads : Kept(u, F!X) /\ Kept(u, F!Y) /\ Kept(u, F!B(v))
  BY FastFacts
<1>4. FastType'
  BY <1>1, <1>3 DEF FastType
<1>5. /\ Late(t, F!X)' <=> Late(t, F!X)
      /\ Late(t, F!Y)' <=> Late(t, F!Y)
      /\ Once(t, F!X)' <=> Once(t, F!X)
      /\ Once(t, F!Y)' <=> Once(t, F!Y)
  BY <1>3 DEF Kept
<1>6. \A v \in Threads : Late(t, F!B(v))' <=> Late(t, F!B(v))
  BY <1>3 DEF Kept
<1>7. FastOwn(t)'
  BY <1>1, <1>2, <1>3, <1>5, <1>6 DEF FastOwn, Tries
<1>8. FastReady(t)'
  BY <1>2 DEF FastReady
<1>9. Tries(t)' => Tries(t) \/ mem[F!Y] = -1
  BY <1>2 DEF Tries
<1>10. Before(t, F!Y, F!B(t))'
  BY <1>5 DEF Before, Late
<1>11. Inside(t)' => /\ mem[F!Y] # -1 /\ (ByX(t)' \/ ByY(t))
                     /\ \A k \in Threads : k # t => Hopeless(k, t)
  <2>1. SUFFICES ASSUME Inside(t)'
                 PROVE  /\ mem[F!Y] # -1 /\ (ByX(t)' \/ ByY(t))
                        /\ \A k \in Threads : k # t => Hopeless(k, t)
    OBVIOUS
  <2>2. l \in {"load", "store", "unlock"}
    BY <1>2, <1>5, <2>1 DEF Inside, InCS
  <2>3. CASE InCS(t)
    <3>1. /\ mem[F!Y] # -1 /\ (ByX(t) \/ ByY(t))
          /\ \A k \in Threads : k # t => Hopeless(k, t)
      BY <1>1, <2>3 DEF FastAlone, Inside
    <3>2. ByX(t) => ByX(t)'
      BY <1>3, <1>6, <1>10, <2>3 DEF ByX, InCS
    <3>3. QED
      BY <3>1, <3>2
  <2>4. CASE ~ InCS(t)
    <3>1. ByX(t) /\ ~ Late(t, F!B(t)) => ByX(t)'
      BY <1>3, <1>6, <1>10 DEF ByX
    <3>2. QED
      BY <2>2, <2>4, <3>1
  <2>5. QED
    BY <2>3, <2>4
<1>12. QED
  <2>1. \A u \in Threads : u # t => /\ pc'[u] = pc[u] /\ j'[u] = j[u]
                                    /\ mem'[F!B(u)] = mem[F!B(u)]
    BY <1>2, <1>3
  <2>2. \A u \in Threads : u # t => \A b : Kept(u, b)
    OBVIOUS
  <2>3. QED
    BY <1>3, <1>4, <1>7, <1>8, <1>9, <1>11, <2>1, <2>2, FastFrame

\* A store of the flag b[t].
LEMMA FastFlag ==
  ASSUME FastInv, NEW t \in Threads, NEW v, Write(t, F!B(t), v), UNCHANGED j,
         pc[t] \in {"begin", "withdraw", "lower", "unlockB"},
         NEW l \in {"x", "awaitY", "awaitB", "begin", "done"}, pc' = [pc EXCEPT ![t] = l],
         l = "x" => v = 1,
         l = "x" \/ l \in {"begin", "done"} => pc[t] \in {"begin", "unlockB"},
         l \in {"awaitY", "awaitB"} => pc[t] \notin {"begin", "unlockB"}
  PROVE  FastInv'
<1>1. /\ FastType /\ FastOwn(t) /\ FastAlone(t)
      /\ pc \in [Threads -> FastLabels] /\ TSOType(FastWords, BufferSize)
  BY DEF FastInv, FastHeld, FastType
<1>2. pc'[t] = l /\ \A u \in Threads : u # t => pc'[u] = pc[u]
  BY <1>1
<1>3. /\ F!B(t) \in FastWords /\ F!X \in FastWords /\ F!Y \in FastWords
      /\ F!B(t) # F!X /\ F!B(t) # F!Y
      /\ \A u \in Threads : u # t => F!B(u) \in FastWords /\ F!B(u) # F!B(t)
  BY FastFacts
<1>4. /\ TSOType(FastWords, BufferSize)'
      /\ \A b \in FastWords : b # F!B(t) => mem'[b] = mem[b]
      /\ \A u \in Threads : \A b : u # t \/ b # F!B(t) => Kept(u, b)
      /\ Read(t, F!B(t))' = v
      /\ \/ Late(t, F!B(t))' /\ mem'[F!B(t)] = mem[F!B(t)]
         \/ ~ Late(t, F!B(t))' /\ ~ Late(t, F!B(t)) /\ mem'[F!B(t)] = v
  BY <1>1, <1>3, WriteEffect
<1>5. /\ mem'[F!X] = mem[F!X] /\ mem'[F!Y] = mem[F!Y]
      /\ \A u \in Threads : u # t => mem'[F!B(u)] = mem[F!B(u)]
      /\ Kept(t, F!X) /\ Kept(t, F!Y)
      /\ \A u \in Threads : u # t => Kept(t, F!B(u))
  BY <1>3, <1>4
<1>6. FastType'
  <2>1. l \in FastLabels
    BY DEF FastLabels
  <2>2. QED
    BY <1>1, <1>4, <1>5, <2>1 DEF FastType
<1>7. ~ Late(t, F!X) /\ ~ Tries(t) /\ ~ InCS(t)
  BY <1>1 DEF FastOwn, Tries, InCS
<1>8. /\ Late(t, F!X)' <=> Late(t, F!X)
      /\ Late(t, F!Y)' <=> Late(t, F!Y)
      /\ Once(t, F!X)' <=> Once(t, F!X)
      /\ Once(t, F!Y)' <=> Once(t, F!Y)
      /\ Read(t, F!Y)' = Read(t, F!Y)
      /\ \A u \in Threads : u # t => (Late(t, F!B(u))' <=> Late(t, F!B(u)))
  BY <1>5 DEF Kept
<1>9. FastOwn(t)'
  BY <1>1, <1>2, <1>4, <1>7, <1>8 DEF FastOwn, Tries
<1>10. FastReady(t)' /\ ~ Tries(t)' /\ ~ InCS(t)'
  BY <1>2 DEF FastReady, Tries, InCS
<1>11. \A i \in Threads : ~ Passed(t, i)'
  <2>1. l = "awaitB" => j'[t] = 0
    BY <1>1 DEF FastOwn
  <2>2. \A i \in Threads : i \in Nat
    BY FastFacts
  <2>3. QED
    BY <1>2, <2>1, <2>2 DEF Passed
<1>12. ASSUME Inside(t)'
       PROVE  /\ mem[F!Y] # -1 /\ (ByX(t)' \/ ByY(t))
              /\ \A k \in Threads : k # t => Hopeless(k, t)
  <2>1. Late(t, F!Y)
    BY <1>2, <1>8, <1>10, <1>12 DEF Inside
  <2>2. Inside(t)
    BY <2>1 DEF Inside
  <2>3. /\ mem[F!Y] # -1 /\ (ByX(t) \/ ByY(t))
        /\ \A k \in Threads : k # t => Hopeless(k, t)
    BY <1>1, <2>2 DEF FastAlone
  <2>4. ByX(t) => ByX(t)'
    <3>1. ASSUME ByX(t)
          PROVE  Before(t, F!Y, F!B(t))' /\ Late(t, F!B(t))'
      BY <1>1, <1>3, <2>1, <3>1, BeforeAfterAppend DEF ByX
    <3>2. QED
      BY <1>2, <1>4, <3>1 DEF ByX
  <2>5. QED
    BY <2>3, <2>4
<1>13. QED
  BY <1>2, <1>4, <1>5, <1>6, <1>9, <1>10, <1>11, <1>12, FastFrame

\* The store x = t.
LEMMA FastSetX ==
  ASSUME FastInv, NEW t \in Threads, F!SetX(t)
  PROVE  FastInv'
<1>1. /\ FastType /\ FastOwn(t) /\ FastAlone(t)
      /\ pc \in [Threads -> FastLabels] /\ TSOType(FastWords, BufferSize)
  BY DEF FastInv, FastHeld, FastType
<1>2. /\ pc[t] = "x" /\ pc' = [pc EXCEPT ![t] = "testY"] /\ Write(t, F!X, t) /\ j' = j
  BY FastOperators DEF F!SetX, F!Goto
<1>3. pc'[t] = "testY" /\ \A u \in Threads : u # t => pc'[u] = pc[u]
  BY <1>1, <1>2
<1>4. /\ F!X \in FastWords /\ F!Y \in FastWords /\ F!X # F!Y
      /\ \A u \in Threads : F!B(u) \in FastWords /\ F!B(u) # F!X
  BY FastFacts
<1>5. ~ Late(t, F!X) /\ ~ Tries(t) /\ ~ InCS(t)
  BY <1>1, <1>2 DEF FastOwn, Tries, InCS
<1>6. /\ TSOType(FastWords, BufferSize)'
      /\ \A b \in FastWords : b # F!X => mem'[b] = mem[b]
      /\ \A u \in Threads : \A b : u # t \/ b # F!X => Kept(u, b)
      /\ Read(t, F!X)' = t /\ Once(t, F!X)'
      /\ \/ Late(t, F!X)' /\ mem'[F!X] = mem[F!X]
         \/ ~ Late(t, F!X)' /\ ~ Late(t, F!X) /\ mem'[F!X] = t
  BY <1>1, <1>2, <1>4, <1>5, WriteEffect
<1>7. /\ mem'[F!Y] = mem[F!Y]
      /\ \A u \in Threads : mem'[F!B(u)] = mem[F!B(u)]
      /\ Kept(t, F!Y) /\ \A u \in Threads : Kept(t, F!B(u))
  BY <1>4, <1>6
<1>8. FastType'
  BY <1>1, <1>2, <1>6, <1>7 DEF FastType, FastLabels
<1>9. /\ Late(t, F!Y)' <=> Late(t, F!Y)
      /\ Once(t, F!Y)' <=> Once(t, F!Y)
      /\ Read(t, F!Y)' = Read(t, F!Y)
      /\ Read(t, F!B(t))' = Read(t, F!B(t))
      /\ \A u \in Threads : Late(t, F!B(u))' <=> Late(t, F!B(u))
  BY <1>7 DEF Kept
<1>10. FastOwn(t)'
  BY <1>1, <1>2, <1>3, <1>5, <1>6, <1>9 DEF FastOwn, Tries
<1>11. FastReady(t)' /\ ~ Tries(t)' /\ ~ InCS(t)' /\ \A i : ~ Passed(t, i)'
  BY <1>3 DEF FastReady, Tries, InCS, Passed
<1>12. ASSUME Inside(t)'
       PROVE  /\ mem[F!Y] # -1 /\ (ByX(t)' \/ ByY(t))
              /\ \A k \in Threads : k # t => Hopeless(k, t)
  <2>1. Late(t, F!Y)
    BY <1>9, <1>11, <1>12 DEF Inside
  <2>2. Inside(t)
    BY <1>2, <2>1 DEF Inside
  <2>3. /\ mem[F!Y] # -1 /\ (ByX(t) \/ ByY(t))
        /\ \A k \in Threads : k # t => Hopeless(k, t)
    BY <1>1, <2>2 DEF FastAlone
  <2>4. Before(t, F!Y, F!B(t))' <=> Before(t, F!Y, F!B(t))
    BY <1>7 DEF Kept, Before
  <2>5. ByX(t) => ByX(t)'
    BY <1>3, <1>7, <2>4 DEF ByX
  <2>6. QED
    BY <2>3, <2>5
<1>13. QED
  BY <1>2, <1>3, <1>6, <1>7, <1>8, <1>10, <1>11, <1>12, FastFrame

\* The store y = t.
LEMMA FastSetY ==
  ASSUME FastInv, NEW t \in Threads, F!SetY(t)
  PROVE  FastInv'
<1>1. /\ FastType /\ FastOwn(t) /\ FastAlone(t)
      /\ pc \in [Threads -> FastLabels] /\ TSOType(FastWords, BufferSize)
  BY DEF FastInv, FastHeld, FastType
<1>2. /\ pc[t] = "y" /\ pc' = [pc EXCEPT ![t] = "testX"] /\ Write(t, F!Y, t) /\ j' = j
  BY FastOperators DEF F!SetY, F!Goto
<1>3. pc'[t] = "testX" /\ \A u \in Threads : u # t => pc'[u] = pc[u]
  BY <1>1, <1>2
<1>4. /\ F!X \in FastWords /\ F!Y \in FastWords /\ F!X # F!Y
      /\ \A u \in Threads : F!B(u) \in FastWords /\ F!B(u) # F!Y
  BY FastFacts
<1>5. ~ Late(t, F!X) /\ ~ Late(t, F!Y) /\ Tries(t)
  BY <1>1, <1>2 DEF FastOwn, Tries
<1>6. /\ TSOType(FastWords, BufferSize)'
      /\ \A b \in FastWords : b # F!Y => mem'[b] = mem[b]
      /\ \A u \in Threads : \A b : u # t \/ b # F!Y => Kept(u, b)
      /\ Read(t, F!Y)' = t /\ Once(t, F!Y)'
      /\ \/ Late(t, F!Y)' /\ mem'[F!Y] = mem[F!Y]
         \/ ~ Late(t, F!Y)' /\ ~ Late(t, F!Y) /\ mem'[F!Y] = t
  BY <1>1, <1>2, <1>4, <1>5, WriteEffect
<1>7. /\ mem'[F!X] = mem[F!X]
      /\ \A u \in Threads : mem'[F!B(u)] = mem[F!B(u)]
      /\ Kept(t, F!X) /\ \A u \in Threads : Kept(t, F!B(u))
  BY <1>4, <1>6
<1>8. FastType'
  BY <1>1, <1>2, <1>6, <1>7 DEF FastType, FastLabels
<1>9. /\ Late(t, F!X)' <=> Late(t, F!X)
      /\ Once(t, F!X)' <=> Once(t, F!X)
      /\ \A u \in Threads : Late(t, F!B(u))' <=> Late(t, F!B(u))
  BY <1>7 DEF Kept
<1>10. FastOwn(t)'
  BY <1>1, <1>2, <1>3, <1>5, <1>6, <1>7, <1>9 DEF FastOwn, Tries
<1>11. Tries(t)' /\ ~ Inside(t)' /\ \A i : ~ Passed(t, i)'
  BY <1>3 DEF Tries, Inside, InCS, Passed
<1>12. CASE Late(t, F!Y)' /\ mem'[F!Y] = mem[F!Y]
  <2>1. FastReady(t)'
    BY <1>12 DEF FastReady
  <2>2. QED
    BY <1>2, <1>3, <1>5, <1>6, <1>7, <1>8, <1>10, <1>11, <1>12, <2>1, FastFrame
<1>13. CASE ~ Late(t, F!Y)' /\ mem'[F!Y] = t
  BY <1>2, <1>3, <1>5, <1>6, <1>7, <1>8, <1>10, <1>11, <1>13, FastSetsY
<1>14. QED
  BY <1>6, <1>12, <1>13

\* The store y = -1.
LEMMA FastResetY ==
  ASSUME FastInv, NEW t \in Threads, F!ResetY(t)
  PROVE  FastInv'
<1>1. /\ FastType /\ FastOwn(t) /\ FastAlone(t)
      /\ pc \in [Threads -> FastLabels] /\ TSOType(FastWords, BufferSize)
  BY DEF FastInv, FastHeld, FastType
<1>2. /\ pc[t] = "unlock" /\ pc' = [pc EXCEPT ![t] = "unlockB"]
      /\ Drained(t) /\ Write(t, F!Y, -1) /\ j' = j
  BY FastOperators DEF F!ResetY, F!Goto
<1>3. pc'[t] = "unlockB" /\ \A u \in Threads : u # t => pc'[u] = pc[u]
  BY <1>1, <1>2
<1>4. /\ F!X \in FastWords /\ F!Y \in FastWords /\ F!X # F!Y
      /\ \A u \in Threads : F!B(u) \in FastWords /\ F!B(u) # F!Y
  BY FastFacts
<1>5. Inside(t) /\ \A a : ~ Late(t, a)
  BY <1>2, ReadEffect DEF Inside, InCS
<1>6. /\ TSOType(FastWords, BufferSize)'
      /\ \A b \in FastWords : b # F!Y => mem'[b] = mem[b]
      /\ \A u \in Threads : \A b : u # t \/ b # F!Y => Kept(u, b)
      /\ Read(t, F!Y)' = -1 /\ Once(t, F!Y)'
      /\ \/ Late(t, F!Y)' /\ mem'[F!Y] = mem[F!Y]
         \/ ~ Late(t, F!Y)' /\ ~ Late(t, F!Y) /\ mem'[F!Y] = -1
  BY <1>1, <1>2, <1>4, <1>5, WriteEffect
<1>7. /\ mem'[F!X] = mem[F!X]
      /\ \A u \in Threads : mem'[F!B(u)] = mem[F!B(u)]
      /\ Kept(t, F!X) /\ \A u \in Threads : Kept(t, F!B(u))
  BY <1>4, <1>6
<1>8. FastType'
  BY <1>1, <1>2, <1>6, <1>7 DEF FastType, FastLabels
<1>9. /\ Late(t, F!X)' <=> Late(t, F!X)
      /\ Once(t, F!X)' <=> Once(t, F!X)
      /\ \A u \in Threads : Late(t, F!B(u))' <=> Late(t, F!B(u))
  BY <1>7 DEF Kept
<1>10. FastOwn(t)'
  BY <1>1, <1>2, <1>3, <1>5, <1>6, <1>9 DEF FastOwn, Tries
<1>11. ~ Tries(t)' /\ ~ InCS(t)' /\ \A i : ~ Passed(t, i)'
  BY <1>3 DEF Tries, InCS, Passed
<1>12. CASE Late(t, F!Y)' /\ mem'[F!Y] = mem[F!Y]
  <2>1. FastReady(t)'
    BY <1>3 DEF FastReady
  <2>2. /\ mem[F!Y] # -1 /\ (ByX(t) \/ ByY(t))
        /\ \A k \in Threads : k # t => Hopeless(k, t)
    BY <1>1, <1>5 DEF FastAlone
  <2>3. ByX(t) => ByX(t)'
    <3>1. ~ Late(t, F!B(t))'
      BY <1>5, <1>9
    <3>2. Before(t, F!Y, F!B(t))'
      BY <3>1 DEF Before, Late
    <3>3. QED
      BY <1>7, <3>1, <3>2 DEF ByX
  <2>4. QED
    BY <1>2, <1>3, <1>6, <1>7, <1>8, <1>10, <1>11, <1>12, <2>1, <2>2, <2>3, FastFrame
<1>13. CASE ~ Late(t, F!Y)' /\ mem'[F!Y] = -1
  <2>1. ~ Inside(t)'
    BY <1>11, <1>13 DEF Inside
  <2>2. QED
    BY <1>2, <1>3, <1>5, <1>6, <1>7, <1>8, <1>10, <1>11, <1>13, <2>1, FastResetsY
<1>14. QED
  BY <1>6, <1>12, <1>13

\* A step that leaves the memory alone.
LEMMA FastStill ==
  ASSUME FastInv, NEW t \in Threads, UNCHANGED memvars,
         NEW l \in FastLabels, pc' = [pc EXCEPT ![t] = l],
         j' \in [Threads -> Threads], \A u \in Threads : u # t => j'[u] = j[u],
         l # "awaitB" => j'[t] = 0,
         pc[t] \notin {"begin", "x", "done", "unlockB"}, ~ Late(t, F!X), ~ Late(t, F!Y),
         l \notin {"x", "testY", "testX"},
         l = "y" => mem[F!B(t)] = 1 /\ ~ Late(t, F!B(t)) /\ mem[F!Y] = -1,
         \A i \in Threads : i # t /\ Passed(t, i)' => Passed(t, i) \/ mem[F!B(i)] = 0,
         l \in {"load", "store", "unlock"} =>
           \/ InCS(t)
           \/ /\ mem[F!Y] # -1 /\ ((ByX(t) /\ ~ Late(t, F!B(t))) \/ ByY(t))
              /\ \A k \in Threads : k # t => Hopeless(k, t)
  PROVE  FastInv'
<1>1. TSOType(FastWords, BufferSize)
  BY DEF FastInv, FastType
<1>2. TSOType(FastWords, BufferSize)' /\ mem' = mem /\ \A u, b : Kept(u, b)
  BY <1>1, NoEffect
<1>3. QED
  BY <1>2, FastMove

\* An instruction of the fast mutex.
LEMMA FastStep ==
  ASSUME FastInv, NEW t \in Threads, F!Step(t)
  PROVE  FastInv'
<1>1. /\ FastType /\ FastOwn(t) /\ FastReady(t) /\ FastAlone(t)
      /\ \A k \in Threads : k # t => FastOwn(k) /\ FastAlone(k) /\ FastClear(k, t) /\ FastClear(t, k)
      /\ pc \in [Threads -> FastLabels] /\ TSOType(FastWords, BufferSize)
      /\ j \in [Threads -> Threads] /\ mem[F!Y] \in Threads \cup {-1}
  BY DEF FastInv, FastHeld, FastType
<1>2. /\ \A i \in Threads : i \in Nat
      /\ mem[F!Y] >= 0 <=> mem[F!Y] # -1
      /\ mem[F!Y] < 0 <=> mem[F!Y] = -1
  BY <1>1, FastFacts
<1>3. \A l : pc' = [pc EXCEPT ![t] = l] => pc'[t] = l
  BY <1>1
<1> USE DEF F!Goto
<1>4. CASE F!RaiseB(t)
  BY <1>4, FastOperators, FastFlag DEF F!RaiseB
<1>5. CASE F!SetX(t)
  BY <1>5, FastSetX
<1>6. CASE F!TestY(t)
  <2>1. PICK l \in {"withdraw", "y"} :
          /\ pc' = [pc EXCEPT ![t] = l] /\ pc[t] = "testY" /\ Drained(t)
          /\ l = "y" => ~ (Read(t, F!Y) >= 0)
          /\ UNCHANGED memvars /\ j' = j
    BY <1>6, FastOperators DEF F!TestY
  <2>2. \A a : ~ Late(t, a) /\ Read(t, a) = mem[a]
    BY <2>1, ReadEffect
  <2>3. l = "y" => mem[F!Y] = -1 /\ mem[F!B(t)] = 1
    BY <1>1, <1>2, <2>1, <2>2 DEF FastOwn
  <2>4. pc'[t] = l /\ \A i : ~ Passed(t, i)'
    BY <1>3, <2>1 DEF Passed
  <2>5. j[t] = 0
    BY <1>1, <2>1 DEF FastOwn
  <2>6. QED
    BY <1>1, <2>1, <2>2, <2>3, <2>4, <2>5, FastStill DEF FastLabels
<1>7. CASE F!Withdraw(t)
  BY <1>7, FastOperators, FastFlag DEF F!Withdraw
<1>8. CASE F!AwaitY(t)
  <2>1. PICK l \in {"begin", "awaitY"} :
          /\ pc' = [pc EXCEPT ![t] = l] /\ pc[t] = "awaitY"
          /\ UNCHANGED memvars /\ j' = j
    BY <1>8, FastOperators DEF F!AwaitY
  <2>2. pc'[t] = l /\ \A i : ~ Passed(t, i)'
    BY <1>3, <2>1 DEF Passed
  <2>3. j[t] = 0 /\ ~ Late(t, F!X) /\ ~ Late(t, F!Y)
    BY <1>1, <2>1 DEF FastOwn
  <2>4. QED
    BY <1>1, <2>1, <2>2, <2>3, FastStill DEF FastLabels
<1>9. CASE F!SetY(t)
  BY <1>9, FastSetY
<1>10. CASE F!TestX(t)
  <2>1. PICK l \in {"load", "lower"} :
          /\ pc' = [pc EXCEPT ![t] = l] /\ pc[t] = "testX" /\ Drained(t)
          /\ l = "load" => Read(t, F!X) = t
          /\ UNCHANGED memvars /\ j' = j
    BY <1>10, FastOperators DEF F!TestX
  <2>2. \A a : ~ Late(t, a) /\ Read(t, a) = mem[a]
    BY <2>1, ReadEffect
  <2>3. pc'[t] = l /\ \A i : ~ Passed(t, i)'
    BY <1>3, <2>1 DEF Passed
  <2>4. j[t] = 0 /\ Tries(t) /\ mem[F!B(t)] = 1
    BY <1>1, <2>1 DEF FastOwn, Tries
  <2>5. ByX(t)
    BY <2>2, <2>4 DEF ByX, Before, Late
  <2>6. ASSUME l = "load"
        PROVE  /\ mem[F!Y] # -1
               /\ \A k \in Threads : k # t => Hopeless(k, t)
    <3>1. mem[F!X] = t
      BY <2>1, <2>2, <2>6
    <3>2. mem[F!Y] # -1
      BY <1>1, <2>1, <2>2, <3>1 DEF FastReady
    <3>3. ASSUME NEW k \in Threads, k # t
          PROVE  Hopeless(k, t)
      <4>1. ~ Inside(k)
        BY <1>1, <2>4, <3>1, <3>3 DEF FastAlone, Hopeless
      <4>2. Passed(k, t) => mem[F!Y] # k
        BY <1>1, <2>4, <3>3 DEF FastClear
      <4>3. QED
        BY <3>1, <3>3, <4>1, <4>2 DEF Hopeless
    <3>4. QED
      BY <3>2, <3>3
  <2>7. QED
    BY <1>1, <2>1, <2>2, <2>3, <2>4, <2>5, <2>6, FastStill DEF FastLabels
<1>11. CASE F!LowerB(t)
  BY <1>11, FastOperators, FastFlag DEF F!LowerB
<1>12. CASE F!AwaitB(t)
  <2>1. pc[t] = "awaitB" /\ UNCHANGED memvars
    BY <1>12, FastOperators DEF F!AwaitB
  <2>2. ~ Late(t, F!X) /\ ~ Late(t, F!Y)
    BY <1>1, <2>1 DEF FastOwn
  <2>3. CASE Read(t, F!B(j[t])) = 0
    <3>1. /\ F!N \in Nat
          /\ \A i \in Threads : i \in Nat /\ i < F!N
          /\ \A i \in Nat : i < F!N => i \in Threads
      <4>1. F!N = Cardinality(Threads)
        BY DEF F!N, F!Cardinality, Cardinality
      <4>2. QED
        BY <4>1, FastFacts
    <3>2. j[t] \in Nat /\ j[t] \in Threads /\ j[t] < F!N
      BY <1>1, <3>1
    <3>3. PICK l \in {"awaitB", "recheckY"} :
            /\ pc' = [pc EXCEPT ![t] = l]
            /\ l = IF j[t] + 1 < F!N THEN "awaitB" ELSE "recheckY"
            /\ j' = [j EXCEPT ![t] = (@ + 1) % F!N]
      BY <1>12, <2>3, FastOperators DEF F!AwaitB
    <3>4. pc'[t] = l /\ j'[t] = (j[t] + 1) % F!N
      BY <1>1, <3>3
    <3>5. /\ l = "awaitB" => j'[t] = j[t] + 1 /\ j[t] + 1 < F!N
          /\ l = "recheckY" => j'[t] = 0 /\ j[t] + 1 = F!N
      BY <3>1, <3>2, <3>3, <3>4
    <3>6. j'[t] \in Threads
      BY <3>1, <3>2, <3>3, <3>5
    <3>7. j' \in [Threads -> Threads] /\ \A u \in Threads : u # t => j'[u] = j[u]
      BY <1>1, <3>3, <3>4, <3>6
    <3>8. j[t] # t => mem[F!B(j[t])] = 0
      BY <1>1, <2>3, <3>2, ReadEffect DEF FastOwn
    <3>9. ASSUME NEW i \in Threads, i # t, Passed(t, i)'
          PROVE  Passed(t, i) \/ mem[F!B(i)] = 0
      <4>1. i <= j[t]
        <5>1. i \in Nat /\ i < F!N
          BY <3>1
        <5>2. CASE l = "awaitB"
          BY <3>2, <3>4, <3>5, <3>9, <5>1, <5>2 DEF Passed
        <5>3. CASE l = "recheckY"
          BY <3>1, <3>2, <3>5, <5>1, <5>3
        <5>4. QED
          BY <5>2, <5>3
      <4>2. CASE i = j[t]
        BY <3>8, <3>9, <4>2
      <4>3. CASE i # j[t]
        <5>1. i < j[t]
          BY <1>2, <3>2, <4>1, <4>3
        <5>2. QED
          BY <2>1, <5>1 DEF Passed
      <4>4. QED
        BY <4>2, <4>3
    <3>10. QED
      BY <2>1, <2>2, <3>3, <3>5, <3>7, <3>9, FastStill DEF FastLabels
  <2>4. CASE Read(t, F!B(j[t])) # 0
    <3>1. UNCHANGED <<j, pc>>
      BY <1>12, <2>4, FastOperators DEF F!AwaitB
    <3>2. pc' = [pc EXCEPT ![t] = "awaitB"]
      BY <1>1, <2>1, <3>1
    <3>3. \A i : Passed(t, i)' => Passed(t, i)
      BY <3>1 DEF Passed
    <3>4. QED
      BY <1>1, <2>1, <2>2, <3>1, <3>2, <3>3, FastStill DEF FastLabels
  <2>5. QED
    BY <2>3, <2>4
<1>13. CASE F!RecheckY(t)
  <2>1. PICK l \in {"load", "awaitY"} :
          /\ pc' = [pc EXCEPT ![t] = l] /\ pc[t] = "recheckY"
          /\ l = "load" => Read(t, F!Y) = t
          /\ UNCHANGED memvars /\ j' = j
    BY <1>13, FastOperators DEF F!RecheckY
  <2>2. pc'[t] = l /\ \A i : ~ Passed(t, i)' /\ Passed(t, i)
    BY <1>3, <2>1 DEF Passed
  <2>3. j[t] = 0 /\ ~ Late(t, F!X) /\ ~ Late(t, F!Y)
    BY <1>1, <2>1 DEF FastOwn
  <2>4. ASSUME l = "load"
        PROVE  /\ mem[F!Y] # -1 /\ ByY(t)
               /\ \A k \in Threads : k # t => Hopeless(k, t)
    <3>1. mem[F!Y] = t /\ t # -1
      BY <2>1, <2>3, <2>4, FastFacts, ReadEffect
    <3>2. \A k \in Threads : k # t => ~ Tries(k) /\ ~ Inside(k)
      BY <1>1, <2>2, <3>1 DEF FastClear
    <3>3. QED
      BY <3>1, <3>2 DEF ByY, Hopeless
  <2>5. QED
    BY <1>1, <2>1, <2>2, <2>3, <2>4, FastStill DEF FastLabels
<1>14. CASE F!Count(t)
  <2>1. CASE F!Load(t)
    <3>1. /\ pc[t] = "load" /\ pc' = [pc EXCEPT ![t] = "store"] /\ j' = j
          /\ UNCHANGED memvars
      BY <1>14, <2>1 DEF F!Count, F!Load, memvars
    <3>2. pc'[t] = "store" /\ InCS(t) /\ \A i : ~ Passed(t, i)'
      BY <1>3, <3>1 DEF Passed, InCS
    <3>3. j[t] = 0 /\ ~ Late(t, F!X) /\ ~ Late(t, F!Y)
      BY <1>1, <3>1 DEF FastOwn
    <3>4. QED
      BY <1>1, <3>1, <3>2, <3>3, FastStill DEF FastLabels
  <2>2. CASE F!Store(t)
    <3>1. /\ pc[t] = "store" /\ pc' = [pc EXCEPT ![t] = "unlock"] /\ j' = j
          /\ Write(t, Counter, reg[t] + 1)
      BY <1>14, <2>2, FastOperators DEF F!Count, F!Store
    <3>2. pc'[t] = "unlock" /\ InCS(t) /\ \A i : ~ Passed(t, i)'
      BY <1>3, <3>1 DEF Passed, InCS
    <3>3. j[t] = 0 /\ ~ Late(t, F!X) /\ ~ Late(t, F!Y)
      BY <1>1, <3>1 DEF FastOwn
    <3>4. /\ TSOType(FastWords, BufferSize)'
          /\ \A b \in FastWords : b # Counter => mem'[b] = mem[b]
          /\ \A u \in Threads : \A b : u # t \/ b # Counter => Kept(u, b)
      BY <1>1, <3>1, FastFacts, WriteEffect
    <3>5. QED
      BY <1>1, <3>1, <3>2, <3>3, <3>4, FastMove DEF FastLabels
  <2>3. QED
    BY <1>14, <2>1, <2>2 DEF F!Count
<1>15. CASE F!ResetY(t)
  BY <1>15, FastResetY
<1>16. CASE F!ResetB(t)
  <2>1. PICK l \in {"begin", "done"} : pc' = [pc EXCEPT ![t] = l]
    BY <1>16 DEF F!ResetB, F!EndIteration, F!After
  <2>2. pc[t] = "unlockB" /\ Write(t, F!B(t), 0) /\ j' = j
    BY <1>16, FastOperators DEF F!ResetB
  <2>3. QED
    BY <2>1, <2>2, FastFlag
<1>17. QED
  BY <1>4, <1>5, <1>6, <1>7, <1>8, <1>9, <1>10, <1>11, <1>12, <1>13, <1>14, <1>15, <1>16
  DEF F!Step

\* A store of thread t reaches memory.
LEMMA FastDrain ==
  ASSUME FastInv, NEW t \in Threads, F!DrainStep(t)
  PROVE  FastInv'
<1>1. /\ FastType /\ FastOwn(t) /\ FastReady(t) /\ FastAlone(t)
      /\ pc \in [Threads -> FastLabels] /\ TSOType(FastWords, BufferSize)
      /\ mem[F!Y] \in Threads \cup {-1}
  BY DEF FastInv, FastHeld, FastType
<1>2. Flush(t) /\ pc' = pc /\ j' = j
  BY FastOperators DEF F!DrainStep, F!Drain, F!loopvars
<1>3. /\ F!X \in FastWords /\ F!Y \in FastWords
      /\ \A u \in Threads : F!B(u) \in FastWords
  BY FastFacts
<1>4. /\ TSOType(FastWords, BufferSize)'
      /\ \A u \in Threads : \A a : u # t => Kept(u, a)
      /\ \A a \in FastWords :
           /\ Once(t, a) => Once(t, a)'
           /\ Read(t, a)' = Read(t, a)
           /\ Late(t, a)' => Late(t, a)
           /\ \/ mem'[a] = mem[a] /\ (Late(t, a)' <=> Late(t, a))
              \/ /\ Late(t, a)
                 /\ Once(t, a) => ~ Late(t, a)' /\ mem'[a] = Read(t, a)
  BY <1>1, <1>2, FlushEffect
<1>5. \/ mem'[F!X] = mem[F!X] /\ (Late(t, F!X)' <=> Late(t, F!X))
      \/ pc[t] = "testY" /\ mem'[F!X] = t
  BY <1>1, <1>3, <1>4 DEF FastOwn
<1>6. \/ mem'[F!Y] = mem[F!Y] /\ (Late(t, F!Y)' <=> Late(t, F!Y))
      \/ /\ Late(t, F!Y) /\ ~ Late(t, F!Y)' /\ mem'[F!Y] = Read(t, F!Y)
  BY <1>1, <1>3, <1>4 DEF FastOwn
<1>7. \A u \in Threads : u # t => mem'[F!B(u)] = mem[F!B(u)]
  BY <1>1, <1>3, <1>4 DEF FastOwn
<1>8. ~ Late(t, F!B(t)) => mem'[F!B(t)] = mem[F!B(t)] /\ ~ Late(t, F!B(t))'
  BY <1>3, <1>4
<1>9. Late(t, F!Y) => Read(t, F!Y) \in Threads \cup {-1}
  BY <1>1 DEF FastOwn
<1>10. FastType'
  BY <1>1, <1>2, <1>4, <1>6, <1>9 DEF FastType
<1>11. FastOwn(t)'
  <2>1. Once(t, F!X)' /\ Once(t, F!Y)' /\ \A k \in Threads : k # t => ~ Late(t, F!B(k))'
    BY <1>1, <1>3, <1>4 DEF FastOwn
  <2>2. Read(t, F!X)' = Read(t, F!X) /\ (Late(t, F!X)' => Late(t, F!X))
    BY <1>3, <1>4
  <2>3. Read(t, F!Y)' = Read(t, F!Y) /\ (Late(t, F!Y)' => Late(t, F!Y))
    BY <1>3, <1>4
  <2>4. Read(t, F!B(t))' = Read(t, F!B(t))
    BY <1>3, <1>4
  <2>5. QED
    BY <1>1, <1>2, <1>8, <2>1, <2>2, <2>3, <2>4 DEF FastOwn, Tries
<1>12. /\ \A u \in Threads : u # t => pc'[u] = pc[u] /\ j'[u] = j[u]
       /\ Tries(t)' <=> Tries(t)
       /\ InCS(t)' <=> InCS(t)
       /\ \A i : Passed(t, i)' <=> Passed(t, i)
  BY <1>2 DEF Tries, InCS, Passed
<1>13. CASE mem'[F!Y] = mem[F!Y] /\ (Late(t, F!Y)' <=> Late(t, F!Y))
  <2>1. FastReady(t)'
    BY <1>1, <1>2, <1>5, <1>13 DEF FastReady
  <2>2. ASSUME Inside(t)'
        PROVE  /\ mem[F!Y] # -1 /\ (ByX(t)' \/ ByY(t))
               /\ \A k \in Threads : k # t => Hopeless(k, t)
    <3>1. Inside(t)
      BY <1>2, <1>12, <1>13, <2>2 DEF Inside
    <3>2. /\ mem[F!Y] # -1 /\ (ByX(t) \/ ByY(t))
          /\ \A k \in Threads : k # t => Hopeless(k, t)
      BY <1>1, <3>1 DEF FastAlone
    <3>3. ASSUME ByX(t)
          PROVE  ByX(t)'
      <4>1. /\ Before(t, F!Y, F!B(t))'
            /\ Late(t, F!Y)' => mem'[F!B(t)] = mem[F!B(t)]
        BY <1>1, <1>2, <1>3, <3>3, BeforeAfterFlush DEF ByX
      <4>2. CASE InCS(t)
        BY <1>2, <1>8, <3>3, <4>1, <4>2 DEF ByX, InCS
      <4>3. CASE ~ InCS(t)
        <5>1. Late(t, F!Y)'
          BY <1>12, <2>2, <4>3 DEF Inside
        <5>2. QED
          BY <1>2, <1>8, <3>3, <4>1, <5>1 DEF ByX
      <4>4. QED
        BY <4>2, <4>3
    <3>4. QED
      BY <3>2, <3>3
  <2>3. mem'[F!X] = mem[F!X] \/ (mem'[F!X] = t /\ ~ Tries(t)')
    BY <1>5, <1>12 DEF Tries
  <2>4. QED
    BY <1>4, <1>7, <1>10, <1>11, <1>12, <1>13, <2>1, <2>2, <2>3, FastFrame
<1>14. CASE Late(t, F!Y) /\ ~ Late(t, F!Y)' /\ mem'[F!Y] = Read(t, F!Y)
  <2>1. CASE pc[t] = "testX"
    <3>1. mem'[F!Y] = t /\ mem'[F!X] = mem[F!X]
      BY <1>1, <1>5, <1>14, <2>1 DEF FastOwn
    <3>2. Tries(t) /\ ~ Inside(t)'
      BY <1>2, <2>1 DEF Tries, Inside, InCS
    <3>3. QED
      BY <1>2, <1>4, <1>7, <1>10, <1>11, <1>12, <2>1, <3>1, <3>2, FastSetsY
  <2>2. CASE pc[t] # "testX"
    <3>1. mem'[F!Y] = -1 /\ ~ InCS(t)
      BY <1>1, <1>14, <2>2 DEF FastOwn, InCS
    <3>2. Inside(t) /\ ~ Inside(t)'
      BY <1>12, <1>14, <2>2, <3>1 DEF Inside
    <3>3. mem'[F!X] = mem[F!X] \/ mem'[F!X] = t
      BY <1>5
    <3>4. QED
      BY <1>2, <1>4, <1>7, <1>10, <1>11, <1>12, <2>2, <3>1, <3>2, <3>3, FastResetsY
  <2>3. QED
    BY <2>1, <2>2
<1>15. QED
  BY <1>6, <1>13, <1>14

\* A step that leaves the variables of the fast mutex alone.
LEMMA FastStutter ==
  ASSUME FastInv, UNCHANGED <<memvars, pc, j>>
  PROVE  FastInv'
<1>1. pc' = pc /\ j' = j /\ mem' = mem /\ \A u, b : Kept(u, b)
  BY NoEffect
<1>2. /\ \A u, b : /\ Late(u, b)' <=> Late(u, b)
                   /\ Once(u, b)' <=> Once(u, b)
                   /\ Read(u, b)' = Read(u, b)
      /\ \A u, a, b : Before(u, a, b)' <=> Before(u, a, b)
  BY <1>1 DEF Kept, Before
<1>3. FastType'
  BY <1>1, NoEffect DEF FastInv, FastType
<1>4. \A i : /\ Tries(i)' <=> Tries(i)
             /\ InCS(i)' <=> InCS(i)
             /\ FastReady(i)' <=> FastReady(i)
             /\ Inside(i)' <=> Inside(i)
             /\ \A k : Passed(k, i)' <=> Passed(k, i)
  BY <1>1, <1>2 DEF Tries, InCS, Passed, FastReady, Inside
<1>5. \A i : /\ ByX(i)' <=> ByX(i)
             /\ ByY(i)' <=> ByY(i)
             /\ FastOwn(i)' <=> FastOwn(i)
  BY <1>1, <1>2, <1>4 DEF ByX, ByY, FastOwn
<1>6. \A k, i : /\ Hopeless(k, i)' <=> Hopeless(k, i)
                /\ FastClear(k, i)' <=> FastClear(k, i)
  BY <1>1, <1>4, <1>5 DEF Hopeless, FastClear
<1>7. \A i : FastAlone(i)' <=> FastAlone(i)
  BY <1>1, <1>4, <1>5, <1>6 DEF FastAlone
<1>8. QED
  BY <1>3, <1>4, <1>5, <1>6, <1>7 DEF FastInv, FastHeld

\* One thread inside, and memory says so.
LEMMA FastSafe ==
  ASSUME FastInv
  PROVE  /\ \A s, t \in Threads : InCS(s) /\ InCS(t) => s = t
         /\ \A t \in Threads : InCS(t) => mem[F!Y] >= 0
<1>1. ASSUME NEW s \in Threads, NEW t \in Threads, InCS(s), InCS(t), s # t
      PROVE  FALSE
  BY <1>1 DEF FastInv, FastHeld, FastAlone, Inside, Hopeless
<1>2. ASSUME NEW t \in Threads, InCS(t)
      PROVE  mem[F!Y] >= 0
  <2>1. mem[F!Y] \in Threads \cup {-1} /\ mem[F!Y] # -1
    BY <1>2 DEF FastInv, FastType, FastHeld, FastAlone, Inside
  <2>2. QED
    BY <2>1, FastFacts
<1>3. QED
  BY <1>1, <1>2

-----------------------------------------------------------------------------
(* Memory without store buffers *)

\* The memory has the words in A, and nothing is held back.
SCType(A) == /\ mem = [a \in A |-> mem[a]]
             /\ \A t \in Threads : buf[t] = <<>>

\* What becomes of one word.
Becomes(a, v) == mem' = [mem EXCEPT ![a] = v] /\ buf' = buf

\* A store of one word.
LEMMA StoredWord ==
  ASSUME NEW A, mem = [a \in A |-> mem[a]], NEW a, NEW v
  PROVE  Stored(mem, [x \in {a} |-> v]) = [mem EXCEPT ![a] = v]
BY DEF Stored

\* One word changes, and still nothing is held back.
LEMMA BecomesEffect ==
  ASSUME NEW A, SCType(A), NEW a \in A, NEW v, Becomes(a, v)
  PROVE  SCType(A)' /\ mem'[a] = v /\ \A b \in A : b # a => mem'[b] = mem[b]
BY DEF SCType, Becomes

-----------------------------------------------------------------------------
(* The simple futex mutex *)

SimpleWords == {Simple!Locked, Simple!Waiters, Counter}
SimpleLabels == {"begin", "inc", "wait", "asleep", "dec", "load", "store", "unlock",
                 "test", "wake", "done"}

\* Between fetch_add(waiters, 1) and fetch_sub(waiters, 1).
Counted(t) == pc[t] \in {"wait", "asleep", "dec"}
AllCounted == {t \in Threads : Counted(t)}

SimpleType == /\ SCType(SimpleWords)
              /\ pc \in [Threads -> SimpleLabels]
              /\ mem[Simple!Locked] \in {0, 1}
              /\ sleeping = {t \in Threads : pc[t] = "asleep"}

SimpleInv == /\ SimpleType
             /\ mem[Simple!Waiters] = Cardinality(AllCounted)
             /\ \A s, t \in Threads : InCS(s) /\ InCS(t) => s = t
             /\ \A t \in Threads : InCS(t) => mem[Simple!Locked] = 1
             /\ Simple!NoLostWakeup

\* The copies of the operators of TSO and TSOCountLoop in SimpleFutexMutex.
LEMMA SimpleOperators ==
  /\ Simple!Counter = Counter
  /\ \A t : Simple!Drained(t) <=> Drained(t)
  /\ \A t, a : Simple!Read(t, a) = Read(t, a)
  /\ \A t, a, v : Simple!Write(t, a, v) <=>
                    mem' = Stored(mem, [x \in {a} |-> v]) /\ UNCHANGED buf
  /\ \A t, a, v : Simple!Update(t, a, v) <=> Update(t, a, v)
  /\ \A t : Simple!Flush(t) => ~ Drained(t)
  /\ \A m : Simple!MemInit(m) <=> MemInit(m)
  /\ UNCHANGED Simple!memvars <=> UNCHANGED memvars
BY DEF Simple!Counter, Counter, Simple!Drained, Drained, Simple!Read, Read, Simple!Pending,
       Pending, Simple!Write, Simple!WriteAll, Simple!Stored, Stored, Simple!Flush,
       Simple!Update, Update, Simple!MemInit, MemInit, Simple!memvars, memvars

\* The words of the simple mutex are three.
LEMMA SimpleFacts ==
  /\ Simple!Locked \in SimpleWords /\ Simple!Waiters \in SimpleWords /\ Counter \in SimpleWords
  /\ Simple!Locked # Simple!Waiters /\ Simple!Locked # Counter /\ Simple!Waiters # Counter
BY DEF SimpleWords, Simple!Locked, Simple!Waiters, Counter

\* A thread reads the memory.
LEMMA SimpleRead ==
  ASSUME SimpleType, NEW t \in Threads
  PROVE  /\ Drained(t)
         /\ \A a : Simple!Read(t, a) = mem[a]
         /\ \A a \in SimpleWords : \A v : /\ Simple!Write(t, a, v) => Becomes(a, v)
                                          /\ Simple!Update(t, a, v) => Becomes(a, v)
<1>1. Drained(t)
  BY DEF SimpleType, SCType, Drained
<1>2. \A a : Simple!Read(t, a) = mem[a]
  BY <1>1, ReadEffect, SimpleOperators
<1>3. \A a \in SimpleWords : \A v : Simple!Write(t, a, v) => Becomes(a, v)
  <2>1. ASSUME NEW a \in SimpleWords, NEW v, Simple!Write(t, a, v)
        PROVE  Becomes(a, v)
    <3>1. mem' = Stored(mem, [x \in {a} |-> v]) /\ buf' = buf
      BY <2>1, SimpleOperators
    <3>2. mem = [b \in SimpleWords |-> mem[b]]
      BY DEF SimpleType, SCType
    <3>3. QED
      BY <3>1, <3>2, StoredWord DEF Becomes
  <2>2. QED
    BY <2>1
<1>4. \A a \in SimpleWords : \A v : Simple!Update(t, a, v) => Becomes(a, v)
  BY SimpleOperators DEF Becomes, Update
<1>5. QED
  BY <1>1, <1>2, <1>3, <1>4

\* Nobody waits, and the mutex is free.
LEMMA SimpleInit == Simple!Init => SimpleInv
<1> SUFFICES ASSUME Simple!Init
             PROVE  SimpleInv
  OBVIOUS
<1>1. /\ mem = [a \in SimpleWords |-> 0] /\ buf = [t \in Threads |-> <<>>]
      /\ pc = [t \in Threads |-> "begin"] /\ sleeping = {}
  BY SimpleOperators DEF Simple!Init, Simple!LoopInit, MemInit, SimpleWords
<1>2. AllCounted = {}
  BY <1>1 DEF AllCounted, Counted
<1>3. SimpleType
  BY <1>1, SimpleFacts DEF SimpleType, SCType, SimpleLabels
<1>4. QED
  BY <1>1, <1>2, <1>3, SimpleFacts, FS_EmptySet DEF SimpleInv, InCS, Simple!NoLostWakeup

\* A step that leaves alone who is counted.
LEMMA SimpleMove ==
  ASSUME SimpleInv, SimpleType', mem'[Simple!Waiters] = mem[Simple!Waiters],
         \A u \in Threads : Counted(u)' <=> Counted(u),
         \A u \in Threads : InCS(u)' => InCS(u),
         mem'[Simple!Locked] # mem[Simple!Locked] => \A u \in Threads : ~ InCS(u)',
         Simple!NoLostWakeup'
  PROVE  SimpleInv'
<1>1. AllCounted' = AllCounted
  BY DEF AllCounted
<1>2. QED
  BY <1>1 DEF SimpleInv

\* One thread more, or one less, that unlock() counts.
LEMMA SimpleCount ==
  ASSUME SimpleInv, NEW t \in Threads,
         \A u \in Threads : u # t => (Counted(u)' <=> Counted(u))
  PROVE  /\ mem[Simple!Waiters] \in Nat
         /\ mem[Simple!Waiters] >= Cardinality(sleeping)
         /\ mem[Simple!Waiters] = 0 => sleeping = {}
         /\ ~ Counted(t) /\ Counted(t)' =>
              Cardinality(AllCounted)' = mem[Simple!Waiters] + 1
         /\ Counted(t) /\ ~ Counted(t)' =>
              Cardinality(AllCounted)' = mem[Simple!Waiters] - 1
         /\ (Counted(t)' <=> Counted(t)) =>
              Cardinality(AllCounted)' = mem[Simple!Waiters]
<1>1. IsFiniteSet(AllCounted) /\ mem[Simple!Waiters] = Cardinality(AllCounted)
  BY ThreadsAssumption, FS_Subset DEF AllCounted, SimpleInv
<1>2. sleeping \subseteq AllCounted
  BY DEF SimpleInv, SimpleType, AllCounted, Counted
<1>3. Cardinality(sleeping) \in Nat /\ Cardinality(AllCounted) \in Nat
  BY <1>1, <1>2, FS_Subset, FS_CardinalityType
<1>4. Cardinality(sleeping) <= Cardinality(AllCounted)
  BY <1>1, <1>2, FS_Subset
<1>5. Cardinality(AllCounted) = 0 => AllCounted = {}
  BY <1>1, FS_EmptySet
<1>6. ASSUME ~ Counted(t), Counted(t)'
      PROVE  Cardinality(AllCounted)' = mem[Simple!Waiters] + 1
  <2>1. AllCounted' = AllCounted \cup {t} /\ t \notin AllCounted
    BY <1>6 DEF AllCounted
  <2>2. QED
    BY <1>1, <2>1, FS_AddElement
<1>7. ASSUME Counted(t), ~ Counted(t)'
      PROVE  Cardinality(AllCounted)' = mem[Simple!Waiters] - 1
  <2>1. AllCounted' = AllCounted \ {t} /\ t \in AllCounted
    BY <1>7 DEF AllCounted
  <2>2. QED
    BY <1>1, <2>1, FS_RemoveElement
<1>8. ASSUME Counted(t)' <=> Counted(t)
      PROVE  Cardinality(AllCounted)' = mem[Simple!Waiters]
  <2>1. AllCounted' = AllCounted
    BY <1>8 DEF AllCounted
  <2>2. QED
    BY <1>1, <2>1
<1>9. QED
  BY <1>1, <1>2, <1>3, <1>4, <1>5, <1>6, <1>7, <1>8

\* A step that leaves the memory alone.
LEMMA SimpleStill ==
  ASSUME SimpleInv, UNCHANGED memvars, pc' \in [Threads -> SimpleLabels],
         sleeping' = {u \in Threads : pc'[u] = "asleep"},
         \A u \in Threads : Counted(u)' <=> Counted(u),
         \A u \in Threads : InCS(u)' => InCS(u),
         Simple!NoLostWakeup'
  PROVE  SimpleInv'
<1>1. mem' = mem /\ buf' = buf
  BY DEF memvars
<1>2. SimpleType'
  BY <1>1 DEF SimpleInv, SimpleType, SCType
<1>3. QED
  BY <1>1, <1>2, SimpleMove

\* An instruction of the simple mutex.
LEMMA SimpleStep ==
  ASSUME SimpleInv, NEW t \in Threads, Simple!Step(t) \/ Simple!SpuriousWake(t)
  PROVE  SimpleInv'
<1>1. /\ SimpleType /\ SCType(SimpleWords)
      /\ pc \in [Threads -> SimpleLabels]
      /\ sleeping = {u \in Threads : pc[u] = "asleep"}
      /\ mem[Simple!Locked] \in {0, 1}
      /\ \A u \in Threads : InCS(u) => mem[Simple!Locked] = 1
      /\ \A u, v \in Threads : InCS(u) /\ InCS(v) => u = v
      /\ Simple!NoLostWakeup
  BY DEF SimpleInv, SimpleType
<1>2. /\ Drained(t)
      /\ \A a : Simple!Read(t, a) = mem[a]
      /\ \A a \in SimpleWords : \A v : /\ Simple!Write(t, a, v) => Becomes(a, v)
                                       /\ Simple!Update(t, a, v) => Becomes(a, v)
  BY <1>1, SimpleRead
<1>3. /\ Simple!Locked \in SimpleWords /\ Simple!Waiters \in SimpleWords /\ Counter \in SimpleWords
      /\ Simple!Locked # Simple!Waiters /\ Simple!Locked # Counter /\ Simple!Waiters # Counter
  BY SimpleFacts
\* Where the threads are after a step of t to l.
<1>4. ASSUME NEW l \in SimpleLabels, pc' = [pc EXCEPT ![t] = l]
      PROVE  /\ pc' \in [Threads -> SimpleLabels] /\ pc'[t] = l
             /\ \A u \in Threads : u # t => /\ pc'[u] = pc[u]
                                            /\ Counted(u)' <=> Counted(u)
                                            /\ InCS(u)' <=> InCS(u)
             /\ Counted(t)' <=> l \in {"wait", "asleep", "dec"}
             /\ InCS(t)' <=> l \in {"load", "store", "unlock"}
             /\ l # "asleep" => {u \in Threads : pc'[u] = "asleep"} = sleeping \ {t}
             /\ l = "asleep" => {u \in Threads : pc'[u] = "asleep"} = sleeping \cup {t}
  BY <1>1, <1>4 DEF Counted, InCS
\* A thread that is not the one that keeps the sleepers from being forgotten.
<1>5. ASSUME sleeping' \subseteq sleeping, mem'[Simple!Locked] = mem[Simple!Locked],
             \A u \in Threads : u # t => pc'[u] = pc[u],
             \/ pc[t] \notin {"test", "wake", "dec", "begin"}
             \/ pc'[t] \in {"test", "wake", "dec", "begin"}
      PROVE  Simple!NoLostWakeup'
  <2>1. SUFFICES ASSUME sleeping' # {}, mem'[Simple!Locked] = 0
                 PROVE  \E u \in Threads : pc'[u] \in {"test", "wake", "dec", "begin"}
    BY DEF Simple!NoLostWakeup
  <2>2. PICK u \in Threads : pc[u] \in {"test", "wake", "dec", "begin"}
    BY <1>1, <1>5, <2>1 DEF Simple!NoLostWakeup
  <2>3. pc'[u] \in {"test", "wake", "dec", "begin"}
    BY <1>5, <2>2
  <2>4. QED
    BY <2>3
<1> USE DEF Simple!Goto
<1>6. CASE Simple!Exchange(t)
  <2>1. PICK l \in {"load", "inc"} :
          /\ pc[t] = "begin" /\ pc' = [pc EXCEPT ![t] = l] /\ sleeping' = sleeping
          /\ l = "load" => mem[Simple!Locked] = 0
          /\ Becomes(Simple!Locked, 1)
    BY <1>2, <1>3, <1>6 DEF Simple!Exchange
  <2>2. /\ SCType(SimpleWords)' /\ mem'[Simple!Locked] = 1
        /\ mem'[Simple!Waiters] = mem[Simple!Waiters]
    BY <1>1, <1>3, <2>1, BecomesEffect
  <2>3. l \in SimpleLabels
    BY DEF SimpleLabels
  <2>4. t \notin sleeping /\ sleeping' = {u \in Threads : pc'[u] = "asleep"}
    BY <1>1, <1>4, <2>1, <2>3
  <2>5. SimpleType'
    BY <1>4, <2>1, <2>2, <2>3, <2>4 DEF SimpleType
  <2>6. Simple!NoLostWakeup'
    BY <2>2 DEF Simple!NoLostWakeup
  <2>7. ~ Counted(t) /\ ~ Counted(t)'
    BY <1>4, <2>1, <2>3 DEF Counted
  <2>8. Cardinality(AllCounted)' = mem[Simple!Waiters]
    BY <1>4, <2>1, <2>3, <2>7, SimpleCount
  <2>9. \A u, v \in Threads : InCS(u)' /\ InCS(v)' => u = v
    <3>1. CASE l = "load"
      <4>1. \A u \in Threads : ~ InCS(u)
        BY <1>1, <2>1, <3>1
      <4>2. \A u \in Threads : InCS(u)' => u = t
        BY <1>4, <2>1, <2>3, <4>1
      <4>3. QED
        BY <4>2
    <3>2. CASE l = "inc"
      BY <1>1, <1>4, <2>1, <2>3, <3>2
    <3>3. QED
      BY <3>1, <3>2
  <2>10. QED
    BY <2>2, <2>5, <2>6, <2>8, <2>9 DEF SimpleInv
<1>7. CASE Simple!IncWaiters(t)
  <2>1. /\ pc[t] = "inc" /\ pc' = [pc EXCEPT ![t] = "wait"] /\ sleeping' = sleeping
        /\ Becomes(Simple!Waiters, mem[Simple!Waiters] + 1)
    BY <1>2, <1>3, <1>7 DEF Simple!IncWaiters
  <2>2. /\ SCType(SimpleWords)' /\ mem'[Simple!Locked] = mem[Simple!Locked]
        /\ mem'[Simple!Waiters] = mem[Simple!Waiters] + 1
    BY <1>1, <1>3, <2>1, BecomesEffect
  <2>3. "wait" \in SimpleLabels
    BY DEF SimpleLabels
  <2>4. t \notin sleeping /\ sleeping' = {u \in Threads : pc'[u] = "asleep"}
    BY <1>1, <1>4, <2>1, <2>3
  <2>5. SimpleType'
    BY <1>1, <1>4, <2>1, <2>2, <2>3, <2>4 DEF SimpleType
  <2>6. Simple!NoLostWakeup'
    BY <1>4, <1>5, <2>1, <2>2, <2>3
  <2>7. ~ Counted(t) /\ Counted(t)'
    BY <1>4, <2>1, <2>3 DEF Counted
  <2>8. Cardinality(AllCounted)' = mem[Simple!Waiters] + 1
    BY <1>4, <2>1, <2>3, <2>7, SimpleCount
  <2>9. \A u \in Threads : InCS(u)' => InCS(u)
    BY <1>4, <2>1, <2>3
  <2>10. QED
    BY <1>1, <2>2, <2>5, <2>6, <2>8, <2>9 DEF SimpleInv
<1>8. CASE Simple!FutexWait(t)
  <2>1. pc[t] = "wait" /\ UNCHANGED memvars /\ mem' = mem
    BY <1>8 DEF Simple!FutexWait, Simple!memvars, memvars
  <2>2. PICK l \in {"asleep", "dec"} :
          /\ pc' = [pc EXCEPT ![t] = l]
          /\ l = "asleep" => mem[Simple!Locked] = 1 /\ sleeping' = sleeping \cup {t}
          /\ l = "dec" => sleeping' = sleeping
    BY <1>8 DEF Simple!FutexWait
  <2>3. l \in SimpleLabels
    BY DEF SimpleLabels
  <2>4. t \notin sleeping /\ sleeping' = {u \in Threads : pc'[u] = "asleep"}
    BY <1>1, <1>4, <2>1, <2>2, <2>3
  <2>5. \A u \in Threads : (Counted(u)' <=> Counted(u)) /\ (InCS(u)' => InCS(u))
    BY <1>4, <2>1, <2>2, <2>3 DEF Counted
  <2>6. Simple!NoLostWakeup'
    <3>1. CASE l = "asleep"
      BY <2>1, <2>2, <3>1 DEF Simple!NoLostWakeup
    <3>2. CASE l = "dec"
      BY <1>4, <1>5, <2>1, <2>2, <2>3, <3>2
    <3>3. QED
      BY <3>1, <3>2
  <2>7. QED
    BY <1>4, <2>1, <2>2, <2>3, <2>4, <2>5, <2>6, SimpleStill
<1>9. CASE Simple!SpuriousWake(t)
  <2>1. /\ t \in sleeping /\ sleeping' = sleeping \ {t} /\ pc' = [pc EXCEPT ![t] = "dec"]
        /\ UNCHANGED memvars /\ mem' = mem
    BY <1>9 DEF Simple!SpuriousWake, Simple!memvars, memvars
  <2>2. pc[t] = "asleep" /\ "dec" \in SimpleLabels
    BY <1>1, <2>1 DEF SimpleLabels
  <2>3. \A u \in Threads : (Counted(u)' <=> Counted(u)) /\ (InCS(u)' => InCS(u))
    BY <1>4, <2>1, <2>2 DEF Counted
  <2>4. Simple!NoLostWakeup'
    BY <1>4, <1>5, <2>1, <2>2
  <2>5. QED
    BY <1>4, <2>1, <2>2, <2>3, <2>4, SimpleStill
<1>10. CASE Simple!DecWaiters(t)
  <2>1. /\ pc[t] = "dec" /\ pc' = [pc EXCEPT ![t] = "begin"] /\ sleeping' = sleeping
        /\ Becomes(Simple!Waiters, mem[Simple!Waiters] - 1)
    BY <1>2, <1>3, <1>10 DEF Simple!DecWaiters
  <2>2. /\ SCType(SimpleWords)' /\ mem'[Simple!Locked] = mem[Simple!Locked]
        /\ mem'[Simple!Waiters] = mem[Simple!Waiters] - 1
    BY <1>1, <1>3, <2>1, BecomesEffect
  <2>3. "begin" \in SimpleLabels
    BY DEF SimpleLabels
  <2>4. t \notin sleeping /\ sleeping' = {u \in Threads : pc'[u] = "asleep"}
    BY <1>1, <1>4, <2>1, <2>3
  <2>5. SimpleType'
    BY <1>1, <1>4, <2>1, <2>2, <2>3, <2>4 DEF SimpleType
  <2>6. Simple!NoLostWakeup'
    BY <1>4, <1>5, <2>1, <2>2, <2>3
  <2>7. Counted(t) /\ ~ Counted(t)'
    BY <1>4, <2>1, <2>3 DEF Counted
  <2>8. Cardinality(AllCounted)' = mem[Simple!Waiters] - 1
    BY <1>4, <2>1, <2>3, <2>7, SimpleCount
  <2>9. \A u \in Threads : InCS(u)' => InCS(u)
    BY <1>4, <2>1, <2>3
  <2>10. QED
    BY <1>1, <2>2, <2>5, <2>6, <2>8, <2>9 DEF SimpleInv
<1>11. CASE Simple!Count(t)
  <2>1. InCS(t) /\ mem[Simple!Locked] = 1 /\ sleeping' = sleeping
    BY <1>1, <1>11 DEF Simple!Count, Simple!Load, Simple!Store, InCS
  <2>2. PICK l \in {"store", "unlock"} :
          /\ pc' = [pc EXCEPT ![t] = l]
          /\ UNCHANGED memvars \/ \E v : Becomes(Counter, v)
    <3>1. CASE Simple!Load(t)
      BY <3>1 DEF Simple!Load, memvars
    <3>2. CASE Simple!Store(t)
      BY <1>2, <1>3, <3>2, SimpleOperators DEF Simple!Store
    <3>3. QED
      BY <1>11, <3>1, <3>2 DEF Simple!Count
  <2>3. /\ SCType(SimpleWords)' /\ mem'[Simple!Locked] = mem[Simple!Locked]
        /\ mem'[Simple!Waiters] = mem[Simple!Waiters]
    <3>1. CASE UNCHANGED memvars
      BY <1>1, <3>1 DEF memvars, SCType
    <3>2. CASE \E v : Becomes(Counter, v)
      BY <1>1, <1>3, <3>2, BecomesEffect
    <3>3. QED
      BY <2>2, <3>1, <3>2
  <2>4. l \in SimpleLabels
    BY DEF SimpleLabels
  <2>5. t \notin sleeping /\ sleeping' = {u \in Threads : pc'[u] = "asleep"}
    BY <1>1, <1>4, <2>1, <2>2, <2>4 DEF InCS
  <2>6. SimpleType'
    BY <1>1, <1>4, <2>1, <2>2, <2>3, <2>4, <2>5 DEF SimpleType
  <2>7. Simple!NoLostWakeup'
    BY <2>1, <2>3 DEF Simple!NoLostWakeup
  <2>8. \A u \in Threads : (Counted(u)' <=> Counted(u)) /\ (InCS(u)' => InCS(u))
    BY <1>4, <2>1, <2>2, <2>4 DEF Counted, InCS
  <2>9. QED
    BY <2>3, <2>6, <2>7, <2>8, SimpleMove
<1>12. CASE Simple!Release(t)
  <2>1. /\ pc[t] = "unlock" /\ pc' = [pc EXCEPT ![t] = "test"] /\ sleeping' = sleeping
        /\ Becomes(Simple!Locked, 0)
    BY <1>2, <1>3, <1>12 DEF Simple!Release
  <2>2. /\ SCType(SimpleWords)' /\ mem'[Simple!Locked] = 0
        /\ mem'[Simple!Waiters] = mem[Simple!Waiters]
    BY <1>1, <1>3, <2>1, BecomesEffect
  <2>3. "test" \in SimpleLabels
    BY DEF SimpleLabels
  <2>4. t \notin sleeping /\ sleeping' = {u \in Threads : pc'[u] = "asleep"}
    BY <1>1, <1>4, <2>1, <2>3
  <2>5. SimpleType'
    BY <1>4, <2>1, <2>2, <2>3, <2>4 DEF SimpleType
  <2>6. Simple!NoLostWakeup'
    BY <1>4, <2>1, <2>3 DEF Simple!NoLostWakeup
  <2>7. InCS(t) /\ \A u \in Threads : (Counted(u)' <=> Counted(u)) /\ ~ InCS(u)'
    BY <1>1, <1>4, <2>1, <2>3 DEF Counted, InCS
  <2>8. QED
    BY <2>2, <2>5, <2>6, <2>7, SimpleMove
<1>13. CASE Simple!TestWaiters(t)
  <2>1. /\ pc[t] = "test" /\ sleeping' = sleeping /\ UNCHANGED memvars /\ mem' = mem
    BY <1>13 DEF Simple!TestWaiters, Simple!memvars, memvars
  <2>2. PICK l \in {"wake", "begin", "done"} :
          /\ pc' = [pc EXCEPT ![t] = l]
          /\ l # "wake" => ~ (mem[Simple!Waiters] > 0)
    BY <1>2, <1>13 DEF Simple!TestWaiters, Simple!EndIteration, Simple!After
  <2>3. l \in SimpleLabels
    BY DEF SimpleLabels
  <2>4. t \notin sleeping /\ sleeping' = {u \in Threads : pc'[u] = "asleep"}
    BY <1>1, <1>4, <2>1, <2>2, <2>3
  <2>5. \A u \in Threads : (Counted(u)' <=> Counted(u)) /\ (InCS(u)' => InCS(u))
    BY <1>4, <2>1, <2>2, <2>3 DEF Counted
  <2>6. Simple!NoLostWakeup'
    <3>1. CASE l = "wake"
      BY <1>4, <1>5, <2>1, <2>2, <2>3, <3>1
    <3>2. CASE l # "wake"
      <4>1. mem[Simple!Waiters] = 0
        BY <2>2, <2>5, <3>2, SimpleCount
      <4>2. sleeping = {}
        BY <2>5, <4>1, SimpleCount
      <4>3. QED
        BY <2>1, <4>2 DEF Simple!NoLostWakeup
    <3>3. QED
      BY <3>1, <3>2
  <2>7. QED
    BY <1>4, <2>1, <2>2, <2>3, <2>4, <2>5, <2>6, SimpleStill
<1>14. CASE Simple!FutexWake(t)
  <2>1. pc[t] = "wake" /\ UNCHANGED memvars /\ mem' = mem
    BY <1>14 DEF Simple!FutexWake, Simple!memvars, memvars
  <2>2. PICK l \in {"begin", "done"} :
          \/ sleeping = {} /\ sleeping' = sleeping /\ pc' = [pc EXCEPT ![t] = l]
          \/ \E w \in sleeping : /\ sleeping' = sleeping \ {w}
                                 /\ pc' = [pc EXCEPT ![t] = l, ![w] = "dec"]
    BY <1>14 DEF Simple!FutexWake, Simple!After
  <2>3. l \in SimpleLabels /\ t \notin sleeping /\ "dec" \in SimpleLabels
    BY <1>1, <2>1 DEF SimpleLabels
  <2>4. CASE sleeping = {} /\ sleeping' = sleeping /\ pc' = [pc EXCEPT ![t] = l]
    <3>1. sleeping' = {u \in Threads : pc'[u] = "asleep"}
      BY <1>4, <2>3, <2>4
    <3>2. \A u \in Threads : (Counted(u)' <=> Counted(u)) /\ (InCS(u)' => InCS(u))
      BY <1>4, <2>1, <2>3, <2>4 DEF Counted
    <3>3. Simple!NoLostWakeup'
      BY <2>4 DEF Simple!NoLostWakeup
    <3>4. QED
      BY <1>4, <2>1, <2>3, <2>4, <3>1, <3>2, <3>3, SimpleStill
  <2>5. CASE \E w \in sleeping : /\ sleeping' = sleeping \ {w}
                                 /\ pc' = [pc EXCEPT ![t] = l, ![w] = "dec"]
    <3>1. PICK w \in sleeping : /\ sleeping' = sleeping \ {w}
                                /\ pc' = [pc EXCEPT ![t] = l, ![w] = "dec"]
      BY <2>5
    <3>2. w \in Threads /\ w # t /\ pc[w] = "asleep"
      BY <1>1, <2>3, <3>1
    <3>3. /\ pc' \in [Threads -> SimpleLabels] /\ pc'[t] = l /\ pc'[w] = "dec"
          /\ \A u \in Threads : u \notin {t, w} => pc'[u] = pc[u]
      BY <1>1, <2>3, <3>1, <3>2
    <3>4. sleeping' = {u \in Threads : pc'[u] = "asleep"}
      BY <1>1, <2>3, <3>1, <3>2, <3>3
    <3>5. \A u \in Threads : (Counted(u)' <=> Counted(u)) /\ (InCS(u)' => InCS(u))
      BY <2>1, <3>2, <3>3 DEF Counted, InCS
    <3>6. Simple!NoLostWakeup'
      BY <3>2, <3>3 DEF Simple!NoLostWakeup
    <3>7. QED
      BY <2>1, <3>3, <3>4, <3>5, <3>6, SimpleStill
  <2>6. QED
    BY <2>2, <2>4, <2>5
<1>15. QED
  BY <1>6, <1>7, <1>8, <1>9, <1>10, <1>11, <1>12, <1>13, <1>14 DEF Simple!Step

\* Nothing is held back that could drain.
LEMMA SimpleDrain ==
  ASSUME SimpleInv, NEW t \in Threads, Simple!DrainStep(t)
  PROVE  FALSE
BY SimpleOperators, SimpleRead DEF SimpleInv, Simple!DrainStep, Simple!Drain

\* A step that leaves the variables of the simple mutex alone.
LEMMA SimpleStutter ==
  ASSUME SimpleInv, UNCHANGED <<memvars, pc, sleeping>>
  PROVE  SimpleInv'
BY SimpleStill DEF SimpleInv, SimpleType, Counted, InCS, Simple!NoLostWakeup, memvars

\* One thread inside, and no sleeper forgotten.
LEMMA SimpleSafe ==
  ASSUME SimpleInv
  PROVE  /\ \A s, t \in Threads : InCS(s) /\ InCS(t) => s = t
         /\ Simple!NoLostWakeup /\ Simple!WaitersCountSleepers
<1>1. IsFiniteSet(AllCounted) /\ mem[Simple!Waiters] = Cardinality(AllCounted)
  BY ThreadsAssumption, FS_Subset DEF AllCounted, SimpleInv
<1>2. sleeping \subseteq AllCounted
  BY DEF SimpleInv, SimpleType, AllCounted, Counted
<1>3. Cardinality(sleeping) <= mem[Simple!Waiters]
  BY <1>1, <1>2, FS_Subset
<1>4. Cardinality(sleeping) \in Nat /\ mem[Simple!Waiters] \in Nat
  BY <1>1, <1>2, FS_Subset, FS_CardinalityType
<1>5. Simple!Cardinality(sleeping) = Cardinality(sleeping)
  BY DEF Simple!Cardinality, Cardinality
<1>6. QED
  BY <1>3, <1>4, <1>5 DEF SimpleInv, Simple!WaitersCountSleepers

-----------------------------------------------------------------------------
(* The bakery algorithm *)

BakeryWords == {B!Choosing(i) : i \in Threads} \cup {B!Number(i) : i \in Threads}
                 \cup {Counter}
BakeryLabels == {"begin", "maxTest", "maxTake", "number", "chosen", "choosing", "positive",
                 "less", "equal", "load", "store", "unlock", "done"}

Num(i) == mem[B!Number(i)]

\* Thread i has a number.
Numbered(i) == pc[i] \in {"chosen", "choosing", "positive", "less", "equal",
                          "load", "store", "unlock"}

\* Thread i is in max(), or has not stored its result.
Chooses(i) == pc[i] \in {"maxTest", "maxTake", "number"}

BakeryType ==
  /\ SCType(BakeryWords)
  /\ pc \in [Threads -> BakeryLabels]
  /\ j \in [Threads -> Threads]
  /\ max \in [Threads -> Nat]
  /\ \A i \in Threads :
       /\ Num(i) \in Nat
       /\ Num(i) > 0 <=> Numbered(i)
       /\ Chooses(i) => mem[B!Choosing(i)] # 0
       /\ pc[i] \in {"begin", "number", "chosen", "load", "store", "unlock", "done"} => j[i] = 0

\* In its waiting loop thread k has gone past i, or at least past choosing[i].
Past(k, i) == InCS(k) \/ (B!Waiting(k) /\ j[k] > i)
Cleared(k, i) == Past(k, i) \/ (B!Waiting(k) /\ pc[k] # "choosing" /\ j[k] = i)

\* Thread k comes before i: a smaller number, or the same one and a smaller index.
Ahead(k, i) == Num(k) < Num(i) \/ (Num(k) = Num(i) /\ k < i)

\* The result of max() in thread i will not be less than number[k].  (The second
\* read of number[j] finds it again: that thread does not get in before k.)
Scan(i, k) == /\ pc[i] = "maxTest" => j[i] <= k \/ max[i] >= Num(k)
              /\ pc[i] = "maxTake" => j[i] <= k \/ Num(j[i]) > Num(k)
              /\ pc[i] = "number" => max[i] >= Num(k)

\* Between the two reads of number[j] it can only become 0 or a greater number.
NotLess(k) == pc[k] = "equal" => Num(j[k]) = 0 \/ Num(j[k]) >= Num(k)

BakeryInv == /\ BakeryType
             /\ \A k \in Threads : NotLess(k)
             /\ \A i, k \in Threads : i # k =>
                  /\ Cleared(k, i) => Scan(i, k)
                  /\ Past(k, i) /\ Numbered(i) => Ahead(k, i)

\* The copies of the operators of TSO and TSOCountLoop in Bakery.
LEMMA BakeryOperators ==
  /\ B!Counter = Counter
  /\ \A t : B!Drained(t) <=> Drained(t)
  /\ \A t, a : B!Read(t, a) = Read(t, a)
  /\ \A t, a, v : B!Write(t, a, v) <=>
                    mem' = Stored(mem, [x \in {a} |-> v]) /\ UNCHANGED buf
  /\ \A t : B!Flush(t) => ~ Drained(t)
  /\ \A m : B!MemInit(m) <=> MemInit(m)
  /\ UNCHANGED B!memvars <=> UNCHANGED memvars
BY DEF B!Counter, Counter, B!Drained, Drained, B!Read, Read, B!Pending,
       Pending, B!Write, B!WriteAll, B!Stored, Stored, B!Flush,
       B!MemInit, MemInit, B!memvars, memvars

\* The words are different, and the threads are numbers.
LEMMA BakeryFacts ==
  /\ B!N \in Nat
  /\ \A i \in Threads : i \in Nat /\ i < B!N
  /\ \A i \in Nat : i < B!N => i \in Threads
  /\ Counter \in BakeryWords
  /\ \A i \in Threads : B!Choosing(i) \in BakeryWords /\ B!Number(i) \in BakeryWords
  /\ \A i, k : /\ B!Choosing(i) # B!Number(k)
               /\ B!Choosing(i) # Counter /\ B!Number(i) # Counter
               /\ i # k => B!Choosing(i) # B!Choosing(k) /\ B!Number(i) # B!Number(k)
<1>1. Cardinality(Threads) \in Nat
  BY ThreadsAssumption, FS_CardinalityType
<1>2. Threads = 0 .. Cardinality(Threads) - 1
  BY IndexAssumption
<1>3. /\ \A i \in Threads : i \in Nat /\ i < Cardinality(Threads)
      /\ \A i \in Nat : i < Cardinality(Threads) => i \in Threads
  BY <1>1, <1>2
<1>4. B!N = Cardinality(Threads)
  BY DEF B!N, B!Cardinality, Cardinality
<1>5. /\ Counter \in BakeryWords
      /\ \A i \in Threads : B!Choosing(i) \in BakeryWords /\ B!Number(i) \in BakeryWords
      /\ \A i, k : /\ B!Choosing(i) # B!Number(k)
                   /\ B!Choosing(i) # Counter /\ B!Number(i) # Counter
                   /\ i # k => B!Choosing(i) # B!Choosing(k) /\ B!Number(i) # B!Number(k)
  BY DEF BakeryWords, B!Choosing, B!Number, Counter
<1>6. QED
  BY <1>1, <1>3, <1>4, <1>5

\* A thread reads the memory.
LEMMA BakeryRead ==
  ASSUME BakeryType, NEW t \in Threads
  PROVE  /\ Drained(t)
         /\ \A a : B!Read(t, a) = mem[a]
         /\ \A a \in BakeryWords : \A v : B!Write(t, a, v) => Becomes(a, v)
<1>1. Drained(t)
  BY DEF BakeryType, SCType, Drained
<1>2. \A a : B!Read(t, a) = mem[a]
  BY <1>1, ReadEffect, BakeryOperators
<1>3. ASSUME NEW a \in BakeryWords, NEW v, B!Write(t, a, v)
      PROVE  Becomes(a, v)
  <2>1. mem' = Stored(mem, [x \in {a} |-> v]) /\ buf' = buf
    BY <1>3, BakeryOperators
  <2>2. mem = [b \in BakeryWords |-> mem[b]]
    BY DEF BakeryType, SCType
  <2>3. QED
    BY <2>1, <2>2, StoredWord DEF Becomes
<1>4. QED
  BY <1>1, <1>2, <1>3

\* Nobody has a number.
LEMMA BakeryInit == B!Init => BakeryInv
<1> SUFFICES ASSUME B!Init
             PROVE  BakeryInv
  OBVIOUS
<1>1. /\ mem = [a \in BakeryWords |-> 0] /\ buf = [t \in Threads |-> <<>>]
      /\ pc = [t \in Threads |-> "begin"]
      /\ j = [t \in Threads |-> 0] /\ max = [t \in Threads |-> 0]
  BY BakeryOperators DEF B!Init, B!LoopInit, MemInit, BakeryWords
<1>2. \A i \in Threads : /\ pc[i] = "begin" /\ Num(i) = 0 /\ j[i] = 0
                         /\ ~ Numbered(i) /\ ~ Chooses(i)
  BY <1>1, BakeryFacts DEF Num, Numbered, Chooses
<1>3. j \in [Threads -> Threads]
  <2>1. ASSUME NEW i \in Threads
        PROVE  0 \in Threads
    BY BakeryFacts
  <2>2. QED
    BY <1>1, <2>1
<1>4. BakeryType
  BY <1>1, <1>2, <1>3 DEF BakeryType, SCType, BakeryLabels
<1>5. QED
  BY <1>2, <1>4 DEF BakeryInv, NotLess, Cleared, Past, Scan, InCS, B!Waiting

\* A step of thread t that leaves the numbers alone.
LEMMA BakeryMove ==
  ASSUME BakeryInv, BakeryType', NEW t \in Threads,
         \A u \in Threads : u # t => pc'[u] = pc[u] /\ j'[u] = j[u] /\ max'[u] = max[u],
         \A u \in Threads : Num(u)' = Num(u),
         NotLess(t)',
         \A k \in Threads : k # t =>
           /\ Cleared(k, t) => Scan(t, k)'
           /\ Cleared(t, k)' => Cleared(t, k) \/ ~ Chooses(k)
           /\ Past(t, k)' /\ Numbered(k) => Past(t, k) \/ Ahead(t, k)
  PROVE  BakeryInv'
<1>1. /\ BakeryType /\ \A k \in Threads : NotLess(k)
      /\ \A i, k \in Threads : i # k => /\ Cleared(k, i) => Scan(i, k)
                                        /\ Past(k, i) /\ Numbered(i) => Ahead(k, i)
  BY DEF BakeryInv
<1>2. j \in [Threads -> Threads] /\ j' \in [Threads -> Threads]
  BY <1>1 DEF BakeryType
<1>3. \A i \in Threads : Numbered(i)' <=> Numbered(i)
  BY <1>1 DEF BakeryType
<1>4. \A i, k \in Threads : Ahead(k, i)' <=> Ahead(k, i)
  BY DEF Ahead
<1>5. \A u \in Threads : u # t => /\ InCS(u)' <=> InCS(u)
                                  /\ B!Waiting(u)' <=> B!Waiting(u)
  BY DEF InCS, B!Waiting
<1>6. \A u \in Threads : u # t => \A i : /\ Past(u, i)' <=> Past(u, i)
                                         /\ Cleared(u, i)' <=> Cleared(u, i)
  BY <1>5 DEF Past, Cleared
<1>7. \A u \in Threads : u # t => \A k \in Threads : Scan(u, k)' <=> Scan(u, k)
  BY <1>2 DEF Scan
<1>8. \A u \in Threads : u # t => NotLess(u)'
  BY <1>1, <1>2 DEF NotLess
<1>9. ASSUME NEW i \in Threads, NEW k \in Threads, i # k
      PROVE  /\ Cleared(k, i)' => Scan(i, k)'
             /\ Past(k, i)' /\ Numbered(i)' => Ahead(k, i)'
  <2>1. CASE k # t /\ i # t
    BY <1>1, <1>3, <1>4, <1>6, <1>7, <1>9, <2>1
  <2>2. CASE k # t /\ i = t
    BY <1>1, <1>3, <1>4, <1>6, <1>9, <2>2
  <2>3. CASE k = t
    <3>1. ~ Chooses(i) => Scan(i, t)
      BY DEF Chooses, Scan
    <3>2. QED
      BY <1>1, <1>3, <1>4, <1>7, <1>9, <2>3, <3>1
  <2>4. QED
    BY <2>1, <2>2, <2>3
<1>10. QED
  BY <1>8, <1>9 DEF BakeryInv

\* A thread that gets a number while k is waiting for it, or is inside, gets a
\* greater one.
LEMMA BakeryNumber ==
  ASSUME BakeryInv, BakeryType', NEW t \in Threads,
         pc[t] = "number", pc'[t] = "chosen",
         \A u \in Threads : u # t => /\ pc'[u] = pc[u] /\ j'[u] = j[u] /\ max'[u] = max[u]
                                     /\ Num(u)' = Num(u),
         Num(t)' = max[t] + 1
  PROVE  BakeryInv'
<1>1. /\ BakeryType /\ \A k \in Threads : NotLess(k)
      /\ \A i, k \in Threads : i # k => /\ Cleared(k, i) => Scan(i, k)
                                        /\ Past(k, i) /\ Numbered(i) => Ahead(k, i)
  BY DEF BakeryInv
<1>2. /\ \A u \in Threads : /\ j[u] \in Threads /\ max[u] \in Nat /\ Num(u) \in Nat
                            /\ j'[u] \in Threads /\ u \in Nat
      /\ Num(t) = 0
  <2>1. ~ Numbered(t) /\ Num(t) \in Nat
    BY <1>1 DEF Numbered, BakeryType
  <2>2. Num(t) = 0
    BY <1>1, <2>1 DEF BakeryType
  <2>3. QED
    BY <1>1, <2>2, BakeryFacts DEF BakeryType
<1>3. \A u \in Threads : u # t => /\ InCS(u)' <=> InCS(u)
                                  /\ B!Waiting(u)' <=> B!Waiting(u)
                                  /\ Numbered(u)' <=> Numbered(u)
  BY DEF InCS, B!Waiting, Numbered
<1>4. \A u \in Threads : u # t => \A i : /\ Past(u, i)' <=> Past(u, i)
                                         /\ Cleared(u, i)' <=> Cleared(u, i)
  BY <1>3 DEF Past, Cleared
<1>5. \A i : ~ Past(t, i)' /\ ~ Cleared(t, i)'
  BY DEF Past, Cleared, InCS, B!Waiting
<1>6. \A k \in Threads : k # t /\ Cleared(k, t) => Num(t)' > Num(k)
  BY <1>1, <1>2 DEF Scan
<1>7. ASSUME NEW k \in Threads
      PROVE  NotLess(k)'
  <2>1. CASE k = t
    BY <2>1 DEF NotLess
  <2>2. CASE k # t /\ j[k] = t /\ pc[k] = "equal"
    <3>1. Cleared(k, t)
      BY <2>2 DEF Cleared, B!Waiting
    <3>2. QED
      BY <1>2, <1>6, <2>2, <3>1 DEF NotLess
  <2>3. CASE k # t /\ (j[k] # t \/ pc[k] # "equal")
    BY <1>1, <1>2, <2>3 DEF NotLess
  <2>4. QED
    BY <2>1, <2>2, <2>3
<1>8. ASSUME NEW i \in Threads, NEW k \in Threads, i # k
      PROVE  /\ Cleared(k, i)' => Scan(i, k)'
             /\ Past(k, i)' /\ Numbered(i)' => Ahead(k, i)'
  <2>1. CASE k = t
    BY <1>5, <2>1
  <2>2. CASE i = t
    <3>1. Scan(t, k)'
      BY DEF Scan
    <3>2. Past(k, t) => Cleared(k, t)
      BY DEF Cleared
    <3>3. Past(k, t) => Num(t)' > Num(k)'
      BY <1>6, <1>8, <2>2, <3>2
    <3>4. Num(k)' \in Nat /\ Num(t)' \in Nat
      BY <1>2, <1>8, <2>2
    <3>5. Past(k, t)' => Ahead(k, t)'
      BY <1>4, <1>8, <2>2, <3>3, <3>4 DEF Ahead
    <3>6. QED
      BY <2>2, <3>1, <3>5
  <2>3. CASE i # t /\ k # t
    <3>1. Scan(i, k) => Scan(i, k)'
      <4>1. SUFFICES ASSUME Scan(i, k), pc[i] = "maxTake", Num(j[i]) > Num(k)
                     PROVE  Num(j[i])' > Num(k)'
        BY <2>3 DEF Scan
      <4>2. j[i] # t
        BY <1>2, <4>1
      <4>3. QED
        BY <1>2, <2>3, <4>1, <4>2
    <3>2. Ahead(k, i)' <=> Ahead(k, i)
      BY <2>3 DEF Ahead
    <3>3. QED
      BY <1>1, <1>3, <1>4, <1>8, <2>3, <3>1, <3>2
  <2>4. QED
    BY <2>1, <2>2, <2>3
<1>9. QED
  BY <1>7, <1>8 DEF BakeryInv

\* A thread that leaves has the smallest number.
LEMMA BakeryLeave ==
  ASSUME BakeryInv, BakeryType', NEW t \in Threads,
         pc[t] = "unlock", pc'[t] \in {"begin", "done"},
         \A u \in Threads : u # t => /\ pc'[u] = pc[u] /\ j'[u] = j[u] /\ max'[u] = max[u]
                                     /\ Num(u)' = Num(u),
         Num(t)' = 0
  PROVE  BakeryInv'
<1>1. /\ BakeryType /\ \A k \in Threads : NotLess(k)
      /\ \A i, k \in Threads : i # k => /\ Cleared(k, i) => Scan(i, k)
                                        /\ Past(k, i) /\ Numbered(i) => Ahead(k, i)
  BY DEF BakeryInv
<1>2. \A u \in Threads : /\ j[u] \in Threads /\ max[u] \in Nat /\ Num(u) \in Nat
                         /\ j'[u] \in Threads /\ u \in Nat
  BY <1>1, BakeryFacts DEF BakeryType
<1>3. \A u \in Threads : u # t => /\ InCS(u)' <=> InCS(u)
                                  /\ B!Waiting(u)' <=> B!Waiting(u)
                                  /\ Numbered(u)' <=> Numbered(u)
  BY DEF InCS, B!Waiting, Numbered
<1>4. \A u \in Threads : u # t => \A i : /\ Past(u, i)' <=> Past(u, i)
                                         /\ Cleared(u, i)' <=> Cleared(u, i)
  BY <1>3 DEF Past, Cleared
<1>5. /\ \A i : ~ Past(t, i)' /\ ~ Cleared(t, i)'
      /\ ~ Numbered(t)' /\ \A k : Scan(t, k)'
  BY DEF Past, Cleared, InCS, B!Waiting, Numbered, Scan
<1>6. \A k \in Threads : k # t /\ Numbered(k) => Num(t) <= Num(k)
  BY <1>1, <1>2 DEF Past, InCS, Ahead
<1>7. ASSUME NEW k \in Threads
      PROVE  NotLess(k)'
  BY <1>1, <1>2 DEF NotLess
<1>8. ASSUME NEW i \in Threads, NEW k \in Threads, i # k
      PROVE  /\ Cleared(k, i)' => Scan(i, k)'
             /\ Past(k, i)' /\ Numbered(i)' => Ahead(k, i)'
  <2>1. CASE k = t \/ i = t
    BY <1>5, <2>1
  <2>2. CASE i # t /\ k # t
    <3>1. Cleared(k, i) => Numbered(k)
      BY DEF Cleared, Past, InCS, B!Waiting, Numbered
    <3>2. Cleared(k, i) /\ Scan(i, k) => Scan(i, k)'
      <4>1. SUFFICES ASSUME Cleared(k, i), Scan(i, k), pc[i] = "maxTake", Num(j[i]) > Num(k)
                     PROVE  Num(j[i])' > Num(k)'
        BY <2>2 DEF Scan
      <4>2. j[i] # t
        BY <1>2, <1>6, <2>2, <3>1, <4>1
      <4>3. QED
        BY <1>2, <2>2, <4>1, <4>2
    <3>3. Ahead(k, i)' <=> Ahead(k, i)
      BY <2>2 DEF Ahead
    <3>4. QED
      BY <1>1, <1>3, <1>4, <1>8, <2>2, <3>2, <3>3
  <2>3. QED
    BY <2>1, <2>2
<1>9. QED
  BY <1>7, <1>8 DEF BakeryInv

\* The for loop goes on, or ends after the last thread.
LEMMA BakeryNext ==
  ASSUME BakeryType, NEW t \in Threads, NEW loop, NEW exit, B!NextIndex(t, loop, exit)
  PROVE  /\ j' \in [Threads -> Threads] /\ \A u \in Threads : u # t => j'[u] = j[u]
         /\ \/ pc' = [pc EXCEPT ![t] = loop] /\ j'[t] = j[t] + 1
            \/ /\ pc' = [pc EXCEPT ![t] = exit] /\ j'[t] = 0
               /\ \A u \in Threads : u <= j[t]
<1>1. /\ B!N \in Nat
      /\ \A i \in Threads : i \in Nat /\ i < B!N
      /\ \A i \in Nat : i < B!N => i \in Threads
  BY BakeryFacts
<1>2. j \in [Threads -> Threads] /\ j[t] \in Nat /\ j[t] < B!N
  BY <1>1 DEF BakeryType
<1>3. j' = [j EXCEPT ![t] = (@ + 1) % B!N]
  BY DEF B!NextIndex
<1>4. j'[t] = (j[t] + 1) % B!N /\ \A u \in Threads : u # t => j'[u] = j[u]
  BY <1>2, <1>3
<1>5. CASE j[t] + 1 < B!N
  <2>1. j'[t] = j[t] + 1
    BY <1>1, <1>2, <1>4, <1>5
  <2>2. j'[t] \in Threads
    BY <1>1, <1>2, <1>5, <2>1
  <2>3. pc' = [pc EXCEPT ![t] = loop]
    BY <1>5 DEF B!NextIndex, B!Goto
  <2>4. QED
    BY <1>2, <1>3, <1>4, <2>1, <2>2, <2>3
<1>6. CASE ~ (j[t] + 1 < B!N)
  <2>1. j[t] + 1 = B!N
    BY <1>1, <1>2, <1>6
  <2>2. j'[t] = 0 /\ 0 \in Threads
    BY <1>1, <1>2, <1>4, <2>1
  <2>3. pc' = [pc EXCEPT ![t] = exit]
    BY <1>6 DEF B!NextIndex, B!Goto
  <2>4. \A u \in Threads : u <= j[t]
    BY <1>1, <1>2, <2>1
  <2>5. QED
    BY <1>2, <1>3, <1>4, <2>2, <2>3, <2>4
<1>7. QED
  BY <1>5, <1>6

\* A step that leaves the memory alone.
LEMMA BakeryStill ==
  ASSUME BakeryInv, UNCHANGED memvars, NEW t \in Threads,
         NEW l \in BakeryLabels, pc' = [pc EXCEPT ![t] = l],
         j' \in [Threads -> Threads], max' \in [Threads -> Nat],
         \A u \in Threads : u # t => j'[u] = j[u] /\ max'[u] = max[u],
         Numbered(t)' <=> Numbered(t), Chooses(t)' => Chooses(t),
         l \in {"begin", "number", "chosen", "load", "store", "unlock", "done"} => j'[t] = 0,
         NotLess(t)',
         \A k \in Threads : k # t =>
           /\ Cleared(k, t) => Scan(t, k)'
           /\ Cleared(t, k)' => Cleared(t, k) \/ ~ Chooses(k)
           /\ Past(t, k)' /\ Numbered(k) => Past(t, k) \/ Ahead(t, k)
  PROVE  BakeryInv'
<1>1. /\ BakeryType /\ mem' = mem /\ buf' = buf /\ pc \in [Threads -> BakeryLabels]
      /\ \A i : Num(i)' = Num(i)
  BY DEF BakeryInv, BakeryType, memvars, Num
<1>2. pc'[t] = l /\ \A u \in Threads : u # t => pc'[u] = pc[u]
  BY <1>1
<1>3. \A u \in Threads : /\ Numbered(u)' <=> Numbered(u)
                         /\ Chooses(u)' => Chooses(u)
  BY <1>2 DEF Numbered, Chooses
<1>4. SCType(BakeryWords)' /\ pc' \in [Threads -> BakeryLabels]
  BY <1>1 DEF BakeryType, SCType
<1>5. ASSUME NEW u \in Threads
      PROVE  /\ Num(u)' \in Nat
             /\ Num(u)' > 0 <=> Numbered(u)'
             /\ Chooses(u)' => mem'[B!Choosing(u)] # 0
             /\ pc'[u] \in {"begin", "number", "chosen", "load", "store", "unlock", "done"}
                  => j'[u] = 0
  BY <1>1, <1>2, <1>3 DEF BakeryType
<1>6. BakeryType'
  BY <1>4, <1>5 DEF BakeryType
<1>7. QED
  BY <1>1, <1>2, <1>6, BakeryMove

\* A store to a word that is not a number, outside max() and the waiting loop.
LEMMA BakeryStore ==
  ASSUME BakeryInv, NEW t \in Threads, NEW a \in BakeryWords, NEW v, Becomes(a, v),
         \A i \in Threads : a # B!Number(i),
         \A i \in Threads : i # t => a # B!Choosing(i),
         NEW l \in BakeryLabels, pc' = [pc EXCEPT ![t] = l],
         j' = j, max' \in [Threads -> Nat], j[t] = 0,
         \A u \in Threads : u # t => max'[u] = max[u],
         Numbered(t)' <=> Numbered(t), Chooses(t)' => mem'[B!Choosing(t)] # 0,
         l \notin {"positive", "less", "equal", "maxTake", "number"}, InCS(t)' => InCS(t)
  PROVE  BakeryInv'
<1>1. BakeryType /\ SCType(BakeryWords) /\ pc \in [Threads -> BakeryLabels]
  BY DEF BakeryInv, BakeryType
<1>2. /\ SCType(BakeryWords)'
      /\ \A i \in Threads : /\ Num(i)' = Num(i)
                            /\ i # t => mem'[B!Choosing(i)] = mem[B!Choosing(i)]
  BY <1>1, BecomesEffect, BakeryFacts DEF Num
<1>3. pc'[t] = l /\ \A u \in Threads : u # t => pc'[u] = pc[u]
  BY <1>1
<1>4. pc' \in [Threads -> BakeryLabels]
  BY <1>1
<1>5. ASSUME NEW u \in Threads
      PROVE  /\ Num(u)' \in Nat
             /\ Num(u)' > 0 <=> Numbered(u)'
             /\ Chooses(u)' => mem'[B!Choosing(u)] # 0
             /\ pc'[u] \in {"begin", "number", "chosen", "load", "store", "unlock", "done"}
                  => j'[u] = 0
  <2>1. u # t => /\ Numbered(u)' <=> Numbered(u)
                 /\ Chooses(u)' <=> Chooses(u)
    BY <1>3 DEF Numbered, Chooses
  <2>2. QED
    BY <1>1, <1>2, <1>3, <2>1 DEF BakeryType
<1>6. BakeryType'
  BY <1>1, <1>2, <1>4, <1>5 DEF BakeryType
<1>7. NotLess(t)' /\ \A k : l # "maxTest" => Scan(t, k)'
  BY <1>3 DEF NotLess, Scan
<1>8. \A k \in Threads : k # t =>
        /\ Scan(t, k)'
        /\ Cleared(t, k)' => InCS(t)
  <2>1. ASSUME NEW k \in Threads, k # t
        PROVE  Scan(t, k)' /\ (Cleared(t, k)' => InCS(t))
    <3>1. k \in Nat /\ j'[t] = 0
      BY BakeryFacts
    <3>2. Scan(t, k)'
      BY <1>3, <3>1 DEF Scan
    <3>3. Cleared(t, k)' => InCS(t)
      BY <1>3, <3>1 DEF Cleared, Past, B!Waiting
    <3>4. QED
      BY <3>2, <3>3
  <2>2. QED
    BY <2>1
<1>9. \A k : InCS(t) => Past(t, k) /\ Cleared(t, k)
  BY DEF Past, Cleared
<1>10. \A k : Past(t, k)' => Cleared(t, k)'
  BY DEF Cleared
<1>11. QED
  BY <1>2, <1>3, <1>6, <1>7, <1>8, <1>9, <1>10, BakeryMove

\* A store of number[t].
LEMMA BakeryNumberType ==
  ASSUME BakeryInv, NEW t \in Threads, NEW v \in Nat, Becomes(B!Number(t), v),
         NEW l \in BakeryLabels, pc' = [pc EXCEPT ![t] = l], j' = j, max' = max,
         v > 0 <=> Numbered(t)', ~ Chooses(t)', j[t] = 0
  PROVE  /\ BakeryType' /\ Num(t)' = v /\ pc'[t] = l
         /\ \A u \in Threads : u # t => Num(u)' = Num(u) /\ pc'[u] = pc[u]
<1>1. BakeryType /\ SCType(BakeryWords) /\ pc \in [Threads -> BakeryLabels]
  BY DEF BakeryInv, BakeryType
<1>2. /\ SCType(BakeryWords)' /\ Num(t)' = v
      /\ \A u \in Threads : /\ u # t => Num(u)' = Num(u)
                            /\ mem'[B!Choosing(u)] = mem[B!Choosing(u)]
  BY <1>1, BecomesEffect, BakeryFacts DEF Num
<1>3. pc'[t] = l /\ \A u \in Threads : u # t => pc'[u] = pc[u]
  BY <1>1
<1>4. pc' \in [Threads -> BakeryLabels]
  BY <1>1
<1>5. ASSUME NEW u \in Threads
      PROVE  /\ Num(u)' \in Nat
             /\ Num(u)' > 0 <=> Numbered(u)'
             /\ Chooses(u)' => mem'[B!Choosing(u)] # 0
             /\ pc'[u] \in {"begin", "number", "chosen", "load", "store", "unlock", "done"}
                  => j'[u] = 0
  <2>1. u # t => /\ Numbered(u)' <=> Numbered(u)
                 /\ Chooses(u)' <=> Chooses(u)
    BY <1>3 DEF Numbered, Chooses
  <2>2. QED
    BY <1>1, <1>2, <1>3, <2>1 DEF BakeryType
<1>6. BakeryType'
  BY <1>1, <1>2, <1>4, <1>5 DEF BakeryType
<1>7. QED
  BY <1>2, <1>3, <1>6

\* An instruction of the bakery algorithm.
LEMMA BakeryStep ==
  ASSUME BakeryInv, NEW t \in Threads, B!Step(t)
  PROVE  BakeryInv'
<1>1. /\ BakeryType /\ \A k \in Threads : NotLess(k)
      /\ \A i, k \in Threads : i # k => /\ Cleared(k, i) => Scan(i, k)
                                        /\ Past(k, i) /\ Numbered(i) => Ahead(k, i)
      /\ pc \in [Threads -> BakeryLabels] /\ j \in [Threads -> Threads]
      /\ max \in [Threads -> Nat]
  BY DEF BakeryInv, BakeryType
<1>2. \A u \in Threads : /\ Num(u) \in Nat /\ (Num(u) > 0 <=> Numbered(u))
                         /\ max[u] \in Nat /\ j[u] \in Threads /\ j[u] \in Nat /\ u \in Nat
  BY <1>1, BakeryFacts DEF BakeryType
<1>3. /\ \A a : B!Read(t, a) = mem[a]
      /\ \A a \in BakeryWords : \A v : B!Write(t, a, v) => Becomes(a, v)
  BY <1>1, BakeryRead
<1>4. /\ Counter \in BakeryWords
      /\ \A i \in Threads : B!Choosing(i) \in BakeryWords /\ B!Number(i) \in BakeryWords
      /\ \A i, k : /\ B!Choosing(i) # B!Number(k)
                   /\ B!Choosing(i) # Counter /\ B!Number(i) # Counter
                   /\ i # k => B!Choosing(i) # B!Choosing(k) /\ B!Number(i) # B!Number(k)
  BY BakeryFacts
<1>5. \A l : pc' = [pc EXCEPT ![t] = l] => pc'[t] = l
  BY <1>1
<1>6. UNCHANGED B!memvars <=> UNCHANGED memvars
  BY BakeryOperators
<1>7. UNCHANGED memvars => \A u : Num(u)' = Num(u)
  BY DEF memvars, Num
<1>8. CASE B!SetChoosing(t)
  <2>1. /\ pc[t] = "begin" /\ pc' = [pc EXCEPT ![t] = "maxTest"] /\ j' = j
        /\ max' = [max EXCEPT ![t] = 0] /\ Becomes(B!Choosing(t), 1)
    BY <1>3, <1>4, <1>8 DEF B!SetChoosing, B!Goto
  <2>2. j[t] = 0 /\ pc'[t] = "maxTest"
    BY <1>1, <1>5, <2>1 DEF BakeryType
  <2>3. mem'[B!Choosing(t)] # 0
    BY <1>1, <1>4, <2>1, BecomesEffect DEF BakeryType
  <2>4. max' \in [Threads -> Nat] /\ \A u \in Threads : u # t => max'[u] = max[u]
    BY <1>1, <2>1
  <2>5. ~ Numbered(t) /\ ~ Numbered(t)' /\ ~ InCS(t)' /\ "maxTest" \in BakeryLabels
    BY <2>1, <2>2 DEF Numbered, InCS, BakeryLabels
  <2>6. /\ \A i \in Threads : B!Choosing(t) # B!Number(i)
        /\ \A i \in Threads : i # t => B!Choosing(t) # B!Choosing(i)
        /\ B!Choosing(t) \in BakeryWords
    BY <1>4
  <2>7. QED
    BY <2>1, <2>2, <2>3, <2>4, <2>5, <2>6, BakeryStore
<1>9. CASE B!MaxTest(t)
  <2>1. pc[t] = "maxTest" /\ UNCHANGED memvars /\ max' = max
    BY <1>6, <1>9 DEF B!MaxTest
  <2>2. ~ Numbered(t) /\ Chooses(t)
    BY <2>1 DEF Numbered, Chooses
  <2>3. \A k \in Threads : k # t /\ Cleared(k, t) => j[t] <= k \/ max[t] >= Num(k)
    BY <1>1, <2>1 DEF Scan
  <2>4. CASE Num(j[t]) > max[t]
    <3>1. pc' = [pc EXCEPT ![t] = "maxTake"] /\ j' = j
      BY <1>3, <1>9, <2>4 DEF B!MaxTest, B!Goto, Num
    <3>2. pc'[t] = "maxTake"
      BY <1>5, <3>1
    <3>3. /\ ~ Numbered(t)' /\ NotLess(t)'
          /\ \A k : ~ Past(t, k)' /\ ~ Cleared(t, k)'
      BY <3>2 DEF Numbered, NotLess, Past, Cleared, InCS, B!Waiting
    <3>4. \A k \in Threads : k # t /\ Cleared(k, t) => Scan(t, k)'
      BY <1>2, <1>7, <2>1, <2>3, <2>4, <3>1, <3>2 DEF Scan
    <3>5. QED
      BY <1>1, <2>1, <2>2, <3>1, <3>2, <3>3, <3>4, BakeryStill DEF BakeryLabels
  <2>5. CASE ~ (Num(j[t]) > max[t])
    <3>1. B!NextIndex(t, "maxTest", "number")
      BY <1>3, <1>9, <2>5 DEF B!MaxTest, Num
    <3>2. /\ j' \in [Threads -> Threads] /\ \A u \in Threads : u # t => j'[u] = j[u]
          /\ \/ pc' = [pc EXCEPT ![t] = "maxTest"] /\ j'[t] = j[t] + 1
             \/ /\ pc' = [pc EXCEPT ![t] = "number"] /\ j'[t] = 0
                /\ \A u \in Threads : u <= j[t]
      BY <1>1, <3>1, BakeryNext
    <3>3. PICK l \in {"maxTest", "number"} :
            /\ pc' = [pc EXCEPT ![t] = l]
            /\ l = "maxTest" => j'[t] = j[t] + 1
            /\ l = "number" => j'[t] = 0 /\ \A u \in Threads : u <= j[t]
      BY <3>2
    <3>4. pc'[t] = l
      BY <1>5, <3>3
    <3>5. /\ ~ Numbered(t)' /\ NotLess(t)'
          /\ \A k : ~ Past(t, k)' /\ ~ Cleared(t, k)'
      BY <3>4 DEF Numbered, NotLess, Past, Cleared, InCS, B!Waiting
    <3>6. ASSUME NEW k \in Threads, k # t, Cleared(k, t)
          PROVE  Scan(t, k)'
      <4>1. k >= j[t] + 1 \/ max[t] >= Num(k)
        <5>1. CASE k = j[t]
          BY <1>2, <2>5, <5>1
        <5>2. CASE k # j[t]
          BY <1>2, <2>3, <3>6, <5>2
        <5>3. QED
          BY <5>1, <5>2
      <4>2. Num(k)' = Num(k) /\ k \in Nat /\ j[t] \in Nat
        BY <1>2, <1>7, <2>1
      <4>3. CASE l = "maxTest"
        BY <2>1, <3>3, <3>4, <4>1, <4>2, <4>3 DEF Scan
      <4>4. CASE l = "number"
        <5>1. max[t] >= Num(k)
          BY <3>3, <4>1, <4>2, <4>4
        <5>2. QED
          BY <2>1, <3>4, <4>2, <4>4, <5>1 DEF Scan
      <4>5. QED
        BY <4>3, <4>4
    <3>7. QED
      BY <1>1, <2>1, <2>2, <3>2, <3>3, <3>4, <3>5, <3>6, BakeryStill DEF BakeryLabels
  <2>6. QED
    BY <2>4, <2>5
<1>10. CASE B!MaxTake(t)
  <2>1. /\ pc[t] = "maxTake" /\ UNCHANGED memvars
        /\ max' = [max EXCEPT ![t] = Num(j[t])] /\ B!NextIndex(t, "maxTest", "number")
    BY <1>3, <1>6, <1>10 DEF B!MaxTake, Num
  <2>2. ~ Numbered(t) /\ Chooses(t)
    BY <2>1 DEF Numbered, Chooses
  <2>3. /\ max' \in [Threads -> Nat] /\ max'[t] = Num(j[t])
        /\ \A u \in Threads : u # t => max'[u] = max[u]
    BY <1>1, <1>2, <2>1
  <2>4. /\ j' \in [Threads -> Threads] /\ \A u \in Threads : u # t => j'[u] = j[u]
        /\ \/ pc' = [pc EXCEPT ![t] = "maxTest"] /\ j'[t] = j[t] + 1
           \/ /\ pc' = [pc EXCEPT ![t] = "number"] /\ j'[t] = 0
              /\ \A u \in Threads : u <= j[t]
    BY <1>1, <2>1, BakeryNext
  <2>5. PICK l \in {"maxTest", "number"} :
          /\ pc' = [pc EXCEPT ![t] = l]
          /\ l = "maxTest" => j'[t] = j[t] + 1
          /\ l = "number" => j'[t] = 0 /\ \A u \in Threads : u <= j[t]
    BY <2>4
  <2>6. pc'[t] = l
    BY <1>5, <2>5
  <2>7. /\ ~ Numbered(t)' /\ NotLess(t)'
        /\ \A k : ~ Past(t, k)' /\ ~ Cleared(t, k)'
    BY <2>6 DEF Numbered, NotLess, Past, Cleared, InCS, B!Waiting
  <2>8. ASSUME NEW k \in Threads, k # t, Cleared(k, t)
        PROVE  Scan(t, k)'
    <3>1. j[t] <= k \/ Num(j[t]) > Num(k)
      BY <1>1, <2>1, <2>8 DEF Scan
    <3>2. k >= j[t] + 1 \/ max'[t] >= Num(k)
      <4>1. CASE k = j[t]
        BY <1>2, <2>3, <4>1
      <4>2. CASE k # j[t]
        BY <1>2, <2>3, <3>1, <4>2
      <4>3. QED
        BY <4>1, <4>2
    <3>3. Num(k)' = Num(k) /\ k \in Nat /\ j[t] \in Nat
      BY <1>2, <1>7, <2>1
    <3>4. CASE l = "maxTest"
      BY <2>5, <2>6, <3>2, <3>3, <3>4 DEF Scan
    <3>5. CASE l = "number"
      <4>1. max'[t] >= Num(k)
        BY <2>5, <3>2, <3>3, <3>5
      <4>2. QED
        BY <2>6, <3>3, <3>5, <4>1 DEF Scan
    <3>6. QED
      BY <3>4, <3>5
  <2>9. QED
    BY <1>1, <2>1, <2>2, <2>3, <2>4, <2>5, <2>6, <2>7, <2>8, BakeryStill DEF BakeryLabels
<1>11. CASE B!SetNumber(t)
  <2>1. /\ pc[t] = "number" /\ pc' = [pc EXCEPT ![t] = "chosen"] /\ j' = j /\ max' = max
        /\ Becomes(B!Number(t), max[t] + 1)
    BY <1>3, <1>4, <1>11 DEF B!SetNumber, B!Goto
  <2>2. j[t] = 0 /\ pc'[t] = "chosen" /\ max[t] + 1 \in Nat /\ max[t] + 1 > 0
    BY <1>1, <1>2, <1>5, <2>1 DEF BakeryType
  <2>3. Numbered(t)' /\ ~ Chooses(t)' /\ "chosen" \in BakeryLabels
    BY <2>2 DEF Numbered, Chooses, BakeryLabels
  <2>4. /\ BakeryType' /\ Num(t)' = max[t] + 1
        /\ \A u \in Threads : u # t => Num(u)' = Num(u) /\ pc'[u] = pc[u]
    BY <2>1, <2>2, <2>3, BakeryNumberType
  <2>5. QED
    BY <2>1, <2>2, <2>4, BakeryNumber
<1>12. CASE B!Chosen(t)
  <2>1. /\ pc[t] = "chosen" /\ pc' = [pc EXCEPT ![t] = "choosing"] /\ j' = j /\ max' = max
        /\ Becomes(B!Choosing(t), 0)
    BY <1>3, <1>4, <1>12 DEF B!Chosen, B!Goto
  <2>2. j[t] = 0 /\ pc'[t] = "choosing"
    BY <1>1, <1>5, <2>1 DEF BakeryType
  <2>3. Numbered(t) /\ Numbered(t)' /\ ~ InCS(t)' /\ ~ Chooses(t)' /\ "choosing" \in BakeryLabels
    BY <2>1, <2>2 DEF Numbered, InCS, Chooses, BakeryLabels
  <2>4. QED
    BY <1>1, <1>4, <2>1, <2>2, <2>3, BakeryStore
<1>13. CASE B!AwaitChoosing(t)
  <2>1. PICK l \in {"choosing", "positive"} :
          /\ pc[t] = "choosing" /\ pc' = [pc EXCEPT ![t] = l] /\ j' = j /\ max' = max
          /\ l = "positive" => mem[B!Choosing(j[t])] = 0
          /\ UNCHANGED memvars
    BY <1>3, <1>6, <1>13 DEF B!AwaitChoosing, B!Goto
  <2>2. pc'[t] = l
    BY <1>5, <2>1
  <2>3. /\ Numbered(t) /\ Numbered(t)' /\ ~ Chooses(t)' /\ NotLess(t)'
        /\ \A k : Scan(t, k)' /\ (Past(t, k)' <=> Past(t, k))
    BY <2>1, <2>2 DEF Numbered, Chooses, NotLess, Scan, Past, InCS, B!Waiting
  <2>4. ASSUME NEW k \in Threads, k # t, Cleared(t, k)', ~ Cleared(t, k)
        PROVE  ~ Chooses(k)
    <3>1. j[t] = k /\ l = "positive"
      BY <2>1, <2>2, <2>3, <2>4 DEF Cleared
    <3>2. mem[B!Choosing(k)] = 0
      BY <2>1, <3>1
    <3>3. QED
      BY <1>1, <3>2 DEF BakeryType
  <2>5. QED
    BY <1>1, <2>1, <2>2, <2>3, <2>4, BakeryStill DEF BakeryLabels
<1>14. ASSUME pc[t] \in {"positive", "equal"}, UNCHANGED memvars, max' = max,
              B!NextIndex(t, "choosing", "load"),
              j[t] # t => ~ Numbered(j[t]) \/ Ahead(t, j[t])
       PROVE  BakeryInv'
  <2>1. /\ j' \in [Threads -> Threads] /\ \A u \in Threads : u # t => j'[u] = j[u]
        /\ \/ pc' = [pc EXCEPT ![t] = "choosing"] /\ j'[t] = j[t] + 1
           \/ /\ pc' = [pc EXCEPT ![t] = "load"] /\ j'[t] = 0
              /\ \A u \in Threads : u <= j[t]
    BY <1>1, <1>14, BakeryNext
  <2>2. PICK l \in {"choosing", "load"} :
          /\ pc' = [pc EXCEPT ![t] = l]
          /\ l = "choosing" => j'[t] = j[t] + 1
          /\ l = "load" => j'[t] = 0 /\ \A u \in Threads : u <= j[t]
    BY <2>1
  <2>3. pc'[t] = l
    BY <1>5, <2>2
  <2>4. /\ Numbered(t) /\ Numbered(t)' /\ ~ Chooses(t)' /\ NotLess(t)'
        /\ \A k : Scan(t, k)'
    BY <1>14, <2>3 DEF Numbered, Chooses, NotLess, Scan
  <2>5. ASSUME NEW k \in Threads, k # t, Cleared(t, k)'
        PROVE  k <= j[t]
    <3>1. CASE l = "choosing"
      <4>1. k < j[t] + 1
        BY <2>2, <2>3, <2>5, <3>1 DEF Cleared, Past, InCS
      <4>2. QED
        BY <1>2, <4>1
    <3>2. CASE l = "load"
      BY <2>2, <3>2
    <3>3. QED
      BY <3>1, <3>2
  <2>6. ASSUME NEW k \in Threads, k # t, Cleared(t, k)'
        PROVE  Cleared(t, k) /\ (Past(t, k) \/ ~ Numbered(k) \/ Ahead(t, k))
    <3>1. k <= j[t] /\ k \in Nat /\ j[t] \in Nat
      BY <1>2, <2>5, <2>6
    <3>2. CASE k = j[t]
      BY <1>14, <2>6, <3>2 DEF Cleared, B!Waiting
    <3>3. CASE k # j[t]
      <4>1. j[t] > k
        BY <3>1, <3>3
      <4>2. QED
        BY <1>14, <4>1 DEF Cleared, Past, B!Waiting
    <3>4. QED
      BY <3>2, <3>3
  <2>7. \A k : Past(t, k)' => Cleared(t, k)'
    BY DEF Cleared
  <2>8. l = "load" => j'[t] = 0
    BY <2>2
  <2>9. QED
    BY <1>1, <1>14, <2>1, <2>2, <2>3, <2>4, <2>6, <2>7, <2>8, BakeryStill DEF BakeryLabels
<1>15. ASSUME NEW l \in {"less", "positive", "equal"}, pc[t] \in {"positive", "less", "equal"},
              pc' = [pc EXCEPT ![t] = l], j' = j, max' = max, UNCHANGED memvars,
              l = "equal" => Num(j[t]) >= Num(t)
       PROVE  BakeryInv'
  <2>1. pc'[t] = l
    BY <1>5, <1>15
  <2>2. /\ Numbered(t) /\ Numbered(t)' /\ ~ Chooses(t)'
        /\ \A k : /\ Scan(t, k)' /\ (Past(t, k)' <=> Past(t, k))
                  /\ Cleared(t, k)' <=> Cleared(t, k)
    BY <1>15, <2>1 DEF Numbered, Chooses, Scan, Past, Cleared, InCS, B!Waiting
  <2>3. NotLess(t)'
    BY <1>7, <1>15, <2>1 DEF NotLess
  <2>4. QED
    BY <1>1, <1>15, <2>1, <2>2, <2>3, BakeryStill DEF BakeryLabels
<1>16. CASE B!TestPositive(t)
  <2>1. pc[t] = "positive" /\ UNCHANGED memvars /\ max' = max
    BY <1>6, <1>16 DEF B!TestPositive
  <2>2. CASE Num(j[t]) > 0
    <3>1. pc' = [pc EXCEPT ![t] = "less"] /\ j' = j
      BY <1>3, <1>16, <2>2 DEF B!TestPositive, B!Goto, Num
    <3>2. QED
      BY <1>15, <2>1, <3>1
  <2>3. CASE ~ (Num(j[t]) > 0)
    <3>1. B!NextIndex(t, "choosing", "load")
      BY <1>3, <1>16, <2>3 DEF B!TestPositive, Num
    <3>2. ~ Numbered(j[t])
      BY <1>2, <2>3
    <3>3. QED
      BY <1>14, <2>1, <3>1, <3>2
  <2>4. QED
    BY <2>2, <2>3
<1>17. CASE B!TestLess(t)
  <2>1. PICK l \in {"positive", "equal"} :
          /\ pc[t] = "less" /\ pc' = [pc EXCEPT ![t] = l] /\ UNCHANGED memvars
          /\ j' = j /\ max' = max
          /\ l = "equal" => ~ (Num(j[t]) < Num(t))
    BY <1>3, <1>6, <1>17 DEF B!TestLess, B!Goto, Num
  <2>2. l = "equal" => Num(j[t]) >= Num(t)
    BY <1>2, <2>1
  <2>3. QED
    BY <1>15, <2>1, <2>2
<1>18. CASE B!TestEqual(t)
  <2>1. pc[t] = "equal" /\ UNCHANGED memvars /\ max' = max
    BY <1>6, <1>18 DEF B!TestEqual
  <2>2. CASE Num(j[t]) = Num(t) /\ j[t] < t
    <3>1. pc' = [pc EXCEPT ![t] = "positive"] /\ j' = j
      BY <1>3, <1>18, <2>2 DEF B!TestEqual, B!Goto, Num
    <3>2. QED
      BY <1>15, <2>1, <3>1
  <2>3. CASE ~ (Num(j[t]) = Num(t) /\ j[t] < t)
    <3>1. B!NextIndex(t, "choosing", "load")
      BY <1>3, <1>18, <2>3 DEF B!TestEqual, Num
    <3>2. j[t] # t => ~ Numbered(j[t]) \/ Ahead(t, j[t])
      <4>1. CASE Num(j[t]) = 0
        BY <1>2, <4>1
      <4>2. CASE Num(j[t]) >= Num(t)
        BY <1>2, <2>3, <4>2 DEF Ahead
      <4>3. QED
        BY <1>1, <2>1, <4>1, <4>2 DEF NotLess
    <3>3. QED
      BY <1>14, <2>1, <3>1, <3>2
  <2>4. QED
    BY <2>2, <2>3
<1>19. CASE B!Count(t)
  <2>1. CASE B!Load(t)
    <3>1. /\ pc[t] = "load" /\ pc' = [pc EXCEPT ![t] = "store"] /\ j' = j /\ max' = max
          /\ UNCHANGED memvars
      BY <1>19, <2>1 DEF B!Count, B!Load, B!Goto, memvars
    <3>2. pc'[t] = "store" /\ j[t] = 0
      BY <1>1, <1>5, <3>1 DEF BakeryType
    <3>3. /\ Numbered(t) /\ Numbered(t)' /\ ~ Chooses(t)' /\ NotLess(t)'
          /\ \A k : Scan(t, k)' /\ Past(t, k) /\ Cleared(t, k)
      BY <3>1, <3>2 DEF Numbered, Chooses, NotLess, Scan, Past, Cleared, InCS
    <3>4. QED
      BY <1>1, <3>1, <3>2, <3>3, BakeryStill DEF BakeryLabels
  <2>2. CASE B!Store(t)
    <3>1. /\ pc[t] = "store" /\ pc' = [pc EXCEPT ![t] = "unlock"] /\ j' = j /\ max' = max
          /\ Becomes(Counter, reg[t] + 1)
      BY <1>3, <1>4, <1>19, <2>2, BakeryOperators DEF B!Count, B!Store, B!Goto
    <3>2. pc'[t] = "unlock" /\ j[t] = 0
      BY <1>1, <1>5, <3>1 DEF BakeryType
    <3>3. Numbered(t) /\ Numbered(t)' /\ InCS(t) /\ ~ Chooses(t)' /\ "unlock" \in BakeryLabels
      BY <3>1, <3>2 DEF Numbered, InCS, Chooses, BakeryLabels
    <3>4. QED
      BY <1>1, <1>4, <3>1, <3>2, <3>3, BakeryStore
  <2>3. QED
    BY <1>19, <2>1, <2>2 DEF B!Count
<1>20. CASE B!Unlock(t)
  <2>1. PICK l \in {"begin", "done"} :
          /\ pc[t] = "unlock" /\ pc' = [pc EXCEPT ![t] = l] /\ j' = j /\ max' = max
          /\ Becomes(B!Number(t), 0)
    BY <1>3, <1>4, <1>20 DEF B!Unlock, B!EndIteration, B!After, B!Goto
  <2>2. j[t] = 0 /\ pc'[t] = l
    BY <1>1, <1>5, <2>1 DEF BakeryType
  <2>3. ~ Numbered(t)' /\ ~ Chooses(t)' /\ l \in BakeryLabels
    BY <2>2 DEF Numbered, Chooses, BakeryLabels
  <2>4. /\ BakeryType' /\ Num(t)' = 0
        /\ \A u \in Threads : u # t => Num(u)' = Num(u) /\ pc'[u] = pc[u]
    <3>1. 0 \in Nat /\ (0 > 0 <=> Numbered(t)')
      BY <2>3
    <3>2. QED
      BY <2>1, <2>2, <2>3, <3>1, BakeryNumberType
  <2>5. QED
    BY <2>1, <2>2, <2>4, BakeryLeave
<1>21. QED
  BY <1>8, <1>9, <1>10, <1>11, <1>12, <1>13, <1>16, <1>17, <1>18, <1>19, <1>20 DEF B!Step

\* Nothing is held back that could drain.
LEMMA BakeryDrain ==
  ASSUME BakeryInv, NEW t \in Threads, B!DrainStep(t)
  PROVE  FALSE
BY BakeryOperators, BakeryRead DEF BakeryInv, B!DrainStep, B!Drain

\* A step that leaves the variables of the bakery algorithm alone.
LEMMA BakeryStutter ==
  ASSUME BakeryInv, UNCHANGED <<memvars, pc, j, max>>
  PROVE  BakeryInv'
<1>1. mem' = mem /\ buf' = buf /\ pc' = pc /\ j' = j /\ max' = max
  BY DEF memvars
<1>2. \A i : /\ Num(i)' = Num(i)
             /\ Numbered(i)' <=> Numbered(i)
             /\ Chooses(i)' <=> Chooses(i)
             /\ InCS(i)' <=> InCS(i)
             /\ B!Waiting(i)' <=> B!Waiting(i)
  BY <1>1 DEF Num, Numbered, Chooses, InCS, B!Waiting
<1>3. \A k, i : /\ Past(k, i)' <=> Past(k, i)
                /\ Cleared(k, i)' <=> Cleared(k, i)
                /\ Ahead(k, i)' <=> Ahead(k, i)
                /\ Scan(i, k)' <=> Scan(i, k)
                /\ NotLess(k)' <=> NotLess(k)
  BY <1>1, <1>2 DEF Past, Cleared, Ahead, Scan, NotLess
<1>4. BakeryType'
  BY <1>1, <1>2 DEF BakeryInv, BakeryType, SCType
<1>5. QED
  BY <1>2, <1>3, <1>4 DEF BakeryInv

\* One thread inside, and nobody it has passed before it.
LEMMA BakerySafe ==
  ASSUME BakeryInv
  PROVE  /\ \A s, t \in Threads : InCS(s) /\ InCS(t) => s = t
         /\ B!PassedIsBehind
<1>1. \A i, k \in Threads : i # k /\ Past(k, i) /\ Past(i, k) /\ Numbered(i) /\ Numbered(k)
                              => FALSE
  <2>1. \A i \in Threads : Num(i) \in Nat /\ i \in Nat
    BY BakeryFacts DEF BakeryInv, BakeryType
  <2>2. QED
    BY <2>1 DEF BakeryInv, Ahead
<1>2. \A i, k : /\ InCS(i) => Past(i, k) /\ Numbered(i)
                /\ B!Waiting(i) /\ j[i] > k => Past(i, k) /\ Numbered(i)
  BY DEF InCS, Past, Numbered, B!Waiting
<1>3. QED
  BY <1>1, <1>2 DEF B!PassedIsBehind, InCS

-----------------------------------------------------------------------------
(* The ticket mutexes *)

NumberWord == Plain!Number
TurnWord == Plain!Turn
CurrentWord == Plain!Current
TicketWords == {NumberWord, TurnWord, CurrentWord, Counter}
TicketLabels == {"begin", "turn", "wait", "asleep", "current", "load", "store", "unlock",
                 "testNumber", "testCurrent", "wake", "done"}

\* Thread t has a ticket that is not served yet, or is being served.
Holds(t) == pc[t] \in {"turn", "wait", "asleep", "current", "load", "store", "unlock"}
Served(t) == pc[t] \in {"current", "load", "store", "unlock"}

\* Thread t has advanced the turn and may still wake the next one.
Leaving(t) == pc[t] \in {"testNumber", "testCurrent", "wake"}

\* The iterations that have taken a ticket.
Taken == {x \in Threads \X (0 .. Iterations - 1) :
            x[2] < iter[x[1]] \/ (x[2] = iter[x[1]] /\ pc[x[1]] \notin {"begin", "done"})}

TicketType ==
  /\ TSOType(TicketWords, BufferSize)
  /\ pc \in [Threads -> TicketLabels]
  /\ iter \in [Threads -> Nat]
  /\ \A t \in Threads : pc[t] # "done" => iter[t] < Iterations
  /\ ticket \in [Threads -> Nat] /\ seen \in [Threads -> Nat] /\ next \in [Threads -> Nat]
  /\ sleeping = {t \in Threads : pc[t] = "asleep"}
  /\ mem[NumberWord] \in Nat /\ mem[TurnWord] \in Nat /\ mem[CurrentWord] \in Nat

TicketOwn(t) ==
  /\ ~ Late(t, NumberWord) /\ ~ Late(t, TurnWord) /\ Once(t, CurrentWord)
  /\ Late(t, CurrentWord) => InCS(t) /\ Read(t, CurrentWord) = ticket[t]
  /\ Holds(t) => mem[TurnWord] <= ticket[t] /\ ticket[t] < mem[NumberWord]
  /\ Served(t) => ticket[t] = mem[TurnWord]
  /\ pc[t] = "wait" => seen[t] # ticket[t]
  /\ Leaving(t) => 1 <= next[t] /\ next[t] <= mem[TurnWord]

\* futex->current is behind the turn, unless the thread inside has set it.
CurrentIsPast == \/ mem[CurrentWord] = 0
                 \/ mem[CurrentWord] < mem[TurnWord]
                 \/ \E w \in Threads : InCS(w) /\ ticket[w] = mem[CurrentWord]

TicketInv ==
  /\ TicketType
  /\ mem[NumberWord] = Cardinality(Taken)
  /\ mem[TurnWord] <= mem[NumberWord]
  /\ \A t \in Threads : TicketOwn(t)
  /\ \A s, t \in Threads : Holds(s) /\ Holds(t) /\ ticket[s] = ticket[t] => s = t
  /\ CurrentIsPast
  /\ Plain!NextIsAwake

\* The copies of the operators of TSO and TSOCountLoop in FairFutexMutex.
LEMMA PlainOperators ==
  /\ Plain!Counter = Counter
  /\ \A t : Plain!Drained(t) <=> Drained(t)
  /\ \A t, a : Plain!Read(t, a) = Read(t, a)
  /\ \A t, a, v : Plain!Write(t, a, v) <=> Write(t, a, v)
  /\ \A t, a, v : Plain!Update(t, a, v) <=> Update(t, a, v)
  /\ \A t : Plain!Flush(t) <=> Flush(t)
  /\ \A m : Plain!MemInit(m) <=> MemInit(m)
  /\ UNCHANGED Plain!memvars <=> UNCHANGED memvars
BY DEF Plain!Counter, Counter, Plain!Drained, Drained, Plain!Read, Read, Plain!Pending,
       Pending, Plain!Write, Write, Plain!WriteAll, WriteAll, Plain!Stored, Stored,
       Plain!Flush, Flush, Plain!Update, Update, Plain!MemInit, MemInit,
       Plain!memvars, memvars

\* The same for the copies of "bitset".
LEMMA BitsetOperators ==
  /\ Bitset!Counter = Counter
  /\ \A t : Bitset!Drained(t) <=> Drained(t)
  /\ \A t, a : Bitset!Read(t, a) = Read(t, a)
  /\ \A t, a, v : Bitset!Write(t, a, v) <=> Write(t, a, v)
  /\ \A t, a, v : Bitset!Update(t, a, v) <=> Update(t, a, v)
  /\ \A t : Bitset!Flush(t) <=> Flush(t)
  /\ UNCHANGED Bitset!memvars <=> UNCHANGED memvars
BY DEF Bitset!Counter, Counter, Bitset!Drained, Drained, Bitset!Read, Read, Bitset!Pending,
       Pending, Bitset!Write, Write, Bitset!WriteAll, WriteAll, Bitset!Stored, Stored,
       Bitset!Flush, Flush, Bitset!Update, Update, Bitset!memvars, memvars

\* The same for the copies of "spin".
LEMMA SpinOperators ==
  /\ Spin!Counter = Counter
  /\ \A t : Spin!Drained(t) <=> Drained(t)
  /\ \A t, a : Spin!Read(t, a) = Read(t, a)
  /\ \A t, a, v : Spin!Write(t, a, v) <=> Write(t, a, v)
  /\ \A t, a, v : Spin!Update(t, a, v) <=> Update(t, a, v)
  /\ \A t : Spin!Flush(t) <=> Flush(t)
  /\ UNCHANGED Spin!memvars <=> UNCHANGED memvars
BY DEF Spin!Counter, Counter, Spin!Drained, Drained, Spin!Read, Read, Spin!Pending,
       Pending, Spin!Write, Write, Spin!WriteAll, WriteAll, Spin!Stored, Stored,
       Spin!Flush, Flush, Spin!Update, Update, Spin!memvars, memvars

\* The words of a ticket mutex are four, and its three variants have the same.
LEMMA TicketFacts ==
  /\ NumberWord \in TicketWords /\ TurnWord \in TicketWords
  /\ CurrentWord \in TicketWords /\ Counter \in TicketWords
  /\ NumberWord # TurnWord /\ NumberWord # CurrentWord /\ NumberWord # Counter
  /\ TurnWord # CurrentWord /\ TurnWord # Counter /\ CurrentWord # Counter
  /\ Bitset!Number = NumberWord /\ Bitset!Turn = TurnWord /\ Bitset!Current = CurrentWord
  /\ Spin!Number = NumberWord /\ Spin!Turn = TurnWord /\ Spin!Current = CurrentWord
  /\ Plain!Number = NumberWord /\ Plain!Turn = TurnWord /\ Plain!Current = CurrentWord
BY DEF TicketWords, NumberWord, TurnWord, CurrentWord, Plain!Number, Plain!Turn,
       Plain!Current, Bitset!Number, Bitset!Turn, Bitset!Current, Spin!Number,
       Spin!Turn, Spin!Current, Counter

\* No program takes more tickets than unsigned integers can count.
LEMMA TakenBound ==
  /\ Wrap \in Nat /\ MaskBits \in Nat \ {0} /\ Iterations \in Nat \ {0}
  /\ IsFiniteSet(Threads \X (0 .. Iterations - 1))
  /\ \A S : S \subseteq Threads \X (0 .. Iterations - 1) =>
       IsFiniteSet(S) /\ Cardinality(S) \in Nat /\ Cardinality(S) < Wrap
<1>1. Wrap \in Nat /\ MaskBits \in Nat \ {0} /\ Cardinality(Threads) * Iterations < Wrap
  BY NumbersAssumption
<1>2. Iterations \in Nat \ {0}
  BY IterationsAssumption
<1>3. IsFiniteSet(0 .. Iterations - 1) /\ Cardinality(0 .. Iterations - 1) = Iterations
  <2>1. 0 \in Int /\ Iterations - 1 \in Int /\ ~ (0 > Iterations - 1)
        /\ Iterations - 1 - 0 + 1 = Iterations
    BY <1>2
  <2>2. QED
    BY <2>1, FS_Interval
<1>4. /\ IsFiniteSet(Threads \X (0 .. Iterations - 1))
      /\ Cardinality(Threads \X (0 .. Iterations - 1)) = Cardinality(Threads) * Iterations
  BY <1>3, ThreadsAssumption, FS_Product
<1>5. ASSUME NEW S, S \subseteq Threads \X (0 .. Iterations - 1)
      PROVE  IsFiniteSet(S) /\ Cardinality(S) \in Nat /\ Cardinality(S) < Wrap
  <2>1. IsFiniteSet(S) /\ Cardinality(S) <= Cardinality(Threads) * Iterations
    BY <1>4, <1>5, FS_Subset
  <2>2. /\ Cardinality(S) \in Nat
        /\ Cardinality(Threads) * Iterations \in Nat
    BY <1>4, <2>1, FS_CardinalityType
  <2>3. QED
    BY <1>1, <2>1, <2>2
<1>6. QED
  BY <1>1, <1>2, <1>4, <1>5

\* Nobody has taken a ticket.
LEMMA TicketInit == Plain!Init => TicketInv
<1> SUFFICES ASSUME Plain!Init
             PROVE  TicketInv
  OBVIOUS
<1> DEFINE m == [a \in TicketWords |-> 0]
<1>1. MemInit(m) /\ m = [a \in TicketWords |-> m[a]]
  BY PlainOperators DEF Plain!Init, TicketWords, NumberWord, TurnWord, CurrentWord
<1>2. /\ TSOType(TicketWords, BufferSize) /\ mem = m
      /\ \A t \in Threads : \A a : ~ Late(t, a) /\ Once(t, a)
  BY <1>1, BufferAssumption, InitEffect
<1>3. mem[NumberWord] = 0 /\ mem[TurnWord] = 0 /\ mem[CurrentWord] = 0
  BY <1>2, TicketFacts
<1>4. /\ pc = [t \in Threads |-> "begin"] /\ iter = [t \in Threads |-> 0]
      /\ ticket = [t \in Threads |-> 0] /\ seen = [t \in Threads |-> 0]
      /\ next = [t \in Threads |-> 0] /\ sleeping = {}
  BY DEF Plain!Init, Plain!LoopInit
<1>5. \A t \in Threads : /\ pc[t] = "begin" /\ iter[t] = 0
                         /\ ~ Holds(t) /\ ~ Served(t) /\ ~ Leaving(t) /\ ~ InCS(t)
  BY <1>4 DEF Holds, Served, Leaving, InCS
<1>6. TicketType
  BY <1>2, <1>3, <1>4, TakenBound DEF TicketType, TicketLabels
<1>7. Taken = {}
  BY <1>5, TakenBound DEF Taken
<1>8. \A t \in Threads : TicketOwn(t)
  BY <1>2, <1>5 DEF TicketOwn
<1>9. QED
  BY <1>3, <1>4, <1>5, <1>6, <1>7, <1>8, FS_EmptySet
  DEF TicketInv, CurrentIsPast, Plain!NextIsAwake

-----------------------------------------------------------------------------
(* The instructions of the three ticket mutexes, in the words of one of them *)

Moves(t, l) == pc' = [pc EXCEPT ![t] = l]

TicketTake(t) ==
  /\ pc[t] = "begin" /\ Moves(t, "turn")
  /\ ticket' = [ticket EXCEPT ![t] = mem[NumberWord]]
  /\ Update(t, NumberWord, (mem[NumberWord] + 1) % Wrap)
  /\ UNCHANGED <<iter, seen, next, sleeping>>

TicketRead(t) ==
  /\ pc[t] = "turn"
  /\ \E l \in {"wait", "load", "current"} :
       Moves(t, l) /\ (l = "wait" <=> Read(t, TurnWord) # ticket[t])
  /\ seen' = [seen EXCEPT ![t] = Read(t, TurnWord)]
  /\ UNCHANGED <<iter, memvars, ticket, next, sleeping>>

TicketWait(t) ==
  /\ pc[t] = "wait"
  /\ \/ mem[TurnWord] = seen[t] /\ sleeping' = sleeping \cup {t} /\ Moves(t, "asleep")
     \/ mem[TurnWord] # seen[t] /\ sleeping' = sleeping /\ Moves(t, "turn")
  /\ UNCHANGED <<iter, memvars, ticket, seen, next>>

TicketSpurious(t) ==
  /\ t \in sleeping /\ sleeping' = sleeping \ {t} /\ Moves(t, "turn")
  /\ UNCHANGED <<iter, memvars, ticket, seen, next>>

TicketSet(t) ==
  /\ pc[t] = "current" /\ Moves(t, "load")
  /\ Write(t, CurrentWord, ticket[t])
  /\ UNCHANGED <<iter, ticket, seen, next, sleeping>>

TicketCount(t) ==
  /\ pc[t] \in {"load", "store"}
  /\ \E l \in {"store", "unlock"} : Moves(t, l)
  /\ UNCHANGED memvars \/ \E v : Write(t, Counter, v)
  /\ UNCHANGED <<iter, ticket, seen, next, sleeping>>

TicketAdvance(t) ==
  /\ pc[t] = "unlock"
  /\ \E l \in {"testNumber", "testCurrent"} : Moves(t, l)
  /\ next' = [next EXCEPT ![t] = (mem[TurnWord] + 1) % Wrap]
  /\ Update(t, TurnWord, (mem[TurnWord] + 1) % Wrap)
  /\ UNCHANGED <<iter, ticket, seen, sleeping>>

TicketTest(t) ==
  /\ pc[t] \in {"testNumber", "testCurrent"}
  /\ Moves(t, "wake")
  /\ UNCHANGED <<iter, memvars, ticket, seen, next, sleeping>>

\* The next iteration, or the end of the thread.
Ends(t, l) == /\ l \in {"begin", "done"} /\ (l = "done" <=> iter[t] + 1 = Iterations)
              /\ iter' = [iter EXCEPT ![t] = iter[t] + 1]

TicketLeave(t) ==
  /\ \/ pc[t] = "testNumber" /\ ~ (Read(t, NumberWord) >= next[t])
     \/ pc[t] = "testCurrent" /\ ~ (next[t] > Read(t, CurrentWord))
  /\ \E l \in {"begin", "done"} : Ends(t, l) /\ Moves(t, l)
  /\ UNCHANGED <<memvars, ticket, seen, next, sleeping>>

TicketWake(t) ==
  /\ pc[t] = "wake"
  /\ \E l \in {"begin", "done"}, W \in SUBSET sleeping :
       /\ Ends(t, l)
       /\ {s \in sleeping : ticket[s] % MaskBits = next[t] % MaskBits} \subseteq W
       /\ sleeping' = sleeping \ W
       /\ pc' = [s \in Threads |-> IF s = t THEN l ELSE IF s \in W THEN "turn" ELSE pc[s]]
  /\ UNCHANGED <<memvars, ticket, seen, next>>

TicketStep(t) == \/ TicketTake(t) \/ TicketRead(t) \/ TicketWait(t) \/ TicketSpurious(t)
                 \/ TicketSet(t) \/ TicketCount(t) \/ TicketAdvance(t) \/ TicketTest(t)
                 \/ TicketLeave(t) \/ TicketWake(t)

\* fair_mutex.c executes these instructions.
LEMMA PlainSteps ==
  ASSUME NEW t \in Threads, Plain!Step(t) \/ Plain!SpuriousWake(t)
  PROVE  TicketStep(t)
<1> USE PlainOperators, TicketFacts DEF Plain!Goto, Moves, Plain!locals
<1>1. Plain!TakeNumber(t) => TicketTake(t)
  BY DEF Plain!TakeNumber, TicketTake
<1>2. Plain!ReadTurn(t) => TicketRead(t)
  BY DEF Plain!ReadTurn, TicketRead, Plain!memvars, memvars
<1>3. Plain!FutexWait(t) => TicketWait(t)
  BY DEF Plain!FutexWait, TicketWait, Plain!memvars, memvars
<1>4. Plain!SpuriousWake(t) => TicketSpurious(t)
  BY DEF Plain!SpuriousWake, TicketSpurious, Plain!memvars, memvars
<1>5. Plain!SetCurrent(t) => TicketSet(t)
  BY DEF Plain!SetCurrent, TicketSet
<1>6. Plain!Count(t) => TicketCount(t)
  BY DEF Plain!Count, Plain!Load, Plain!Store, TicketCount, memvars
<1>7. Plain!AdvanceTurn(t) => TicketAdvance(t)
  BY DEF Plain!AdvanceTurn, TicketAdvance
<1>8. Plain!TestNumber(t) => TicketTest(t) \/ TicketLeave(t)
  BY DEF Plain!TestNumber, Plain!WakeIf, Plain!EndIteration, Plain!After, TicketTest,
         TicketLeave, Ends, Plain!memvars, memvars
<1>9. Plain!TestCurrent(t) => TicketTest(t) \/ TicketLeave(t)
  BY DEF Plain!TestCurrent, Plain!WakeIf, Plain!EndIteration, Plain!After, TicketTest,
         TicketLeave, Ends, Plain!memvars, memvars
<1>10. Plain!FutexWake(t) => TicketWake(t)
  BY ZenonT(40) DEF Plain!FutexWake, Plain!WakeAll, Plain!After, TicketWake, Ends, Plain!memvars, memvars
<1>11. ASSUME Plain!FutexWakeBitset(t)
       PROVE  TicketWake(t)
  <2> DEFINE W == {s \in sleeping : ticket[s] % MaskBits = next[t] % MaskBits}
             l == IF iter[t] + 1 = Iterations THEN "done" ELSE "begin"
  <2>1. Plain!WaitersOf(next[t]) = W /\ Plain!After(t) = l
    BY DEF Plain!WaitersOf, Plain!After
  <2>2. /\ pc[t] = "wake" /\ iter' = [iter EXCEPT ![t] = iter[t] + 1]
        /\ sleeping' = sleeping \ W
        /\ pc' = [s \in Threads |-> IF s = t THEN l ELSE IF s \in W THEN "turn" ELSE pc[s]]
        /\ UNCHANGED <<memvars, ticket, seen, next>>
    BY <1>11, <2>1 DEF Plain!FutexWakeBitset, Plain!WakeAll, Plain!memvars, memvars
  <2>3. W \in SUBSET sleeping /\ l \in {"begin", "done"} /\ Ends(t, l)
    BY <2>2 DEF Ends
  <2> HIDE DEF W, l
  <2>4. {s \in sleeping : ticket[s] % MaskBits = next[t] % MaskBits} \subseteq W
    BY DEF W
  <2>5. QED
    BY <2>2, <2>3, <2>4 DEF TicketWake
<1>12. QED
  BY <1>1, <1>2, <1>3, <1>4, <1>5, <1>6, <1>7, <1>8, <1>9, <1>10, <1>11
  DEF Plain!Step, TicketStep

\* So does fair_mutex_bitset.c.
LEMMA BitsetSteps ==
  ASSUME NEW t \in Threads, Bitset!Step(t) \/ Bitset!SpuriousWake(t)
  PROVE  TicketStep(t)
<1> USE BitsetOperators, TicketFacts DEF Bitset!Goto, Moves, Bitset!locals
<1>1. Bitset!TakeNumber(t) => TicketTake(t)
  BY DEF Bitset!TakeNumber, TicketTake
<1>2. Bitset!ReadTurn(t) => TicketRead(t)
  BY DEF Bitset!ReadTurn, TicketRead, Bitset!memvars, memvars
<1>3. Bitset!FutexWait(t) => TicketWait(t)
  BY DEF Bitset!FutexWait, TicketWait, Bitset!memvars, memvars
<1>4. Bitset!SpuriousWake(t) => TicketSpurious(t)
  BY DEF Bitset!SpuriousWake, TicketSpurious, Bitset!memvars, memvars
<1>5. Bitset!SetCurrent(t) => TicketSet(t)
  BY DEF Bitset!SetCurrent, TicketSet
<1>6. Bitset!Count(t) => TicketCount(t)
  BY DEF Bitset!Count, Bitset!Load, Bitset!Store, TicketCount, memvars
<1>7. Bitset!AdvanceTurn(t) => TicketAdvance(t)
  BY DEF Bitset!AdvanceTurn, TicketAdvance
<1>8. Bitset!TestNumber(t) => TicketTest(t) \/ TicketLeave(t)
  BY DEF Bitset!TestNumber, Bitset!WakeIf, Bitset!EndIteration, Bitset!After, TicketTest,
         TicketLeave, Ends, Bitset!memvars, memvars
<1>9. Bitset!TestCurrent(t) => TicketTest(t) \/ TicketLeave(t)
  BY DEF Bitset!TestCurrent, Bitset!WakeIf, Bitset!EndIteration, Bitset!After, TicketTest,
         TicketLeave, Ends, Bitset!memvars, memvars
<1>10. Bitset!FutexWake(t) => TicketWake(t)
  BY DEF Bitset!FutexWake, Bitset!WakeAll, Bitset!After, TicketWake, Ends, Bitset!memvars, memvars
<1>11. ASSUME Bitset!FutexWakeBitset(t)
       PROVE  TicketWake(t)
  <2> DEFINE W == {s \in sleeping : ticket[s] % MaskBits = next[t] % MaskBits}
             l == IF iter[t] + 1 = Iterations THEN "done" ELSE "begin"
  <2>1. Bitset!WaitersOf(next[t]) = W /\ Bitset!After(t) = l
    BY DEF Bitset!WaitersOf, Bitset!After
  <2>2. /\ pc[t] = "wake" /\ iter' = [iter EXCEPT ![t] = iter[t] + 1]
        /\ sleeping' = sleeping \ W
        /\ pc' = [s \in Threads |-> IF s = t THEN l ELSE IF s \in W THEN "turn" ELSE pc[s]]
        /\ UNCHANGED <<memvars, ticket, seen, next>>
    BY <1>11, <2>1 DEF Bitset!FutexWakeBitset, Bitset!WakeAll, Bitset!memvars, memvars
  <2>3. W \in SUBSET sleeping /\ l \in {"begin", "done"} /\ Ends(t, l)
    BY <2>2 DEF Ends
  <2> HIDE DEF W, l
  <2>4. {s \in sleeping : ticket[s] % MaskBits = next[t] % MaskBits} \subseteq W
    BY DEF W
  <2>5. QED
    BY <2>2, <2>3, <2>4 DEF TicketWake
<1>12. QED
  BY <1>1, <1>2, <1>3, <1>4, <1>5, <1>6, <1>7, <1>8, <1>9, <1>10, <1>11
  DEF Bitset!Step, TicketStep

\* So does fair_mutex_spin.c.
LEMMA SpinSteps ==
  ASSUME NEW t \in Threads, Spin!Step(t) \/ Spin!SpuriousWake(t)
  PROVE  TicketStep(t)
<1> USE SpinOperators, TicketFacts DEF Spin!Goto, Moves, Spin!locals
<1>1. Spin!TakeNumber(t) => TicketTake(t)
  BY DEF Spin!TakeNumber, TicketTake
<1>2. Spin!ReadTurn(t) => TicketRead(t)
  BY DEF Spin!ReadTurn, TicketRead, Spin!memvars, memvars
<1>3. Spin!FutexWait(t) => TicketWait(t)
  BY DEF Spin!FutexWait, TicketWait, Spin!memvars, memvars
<1>4. Spin!SpuriousWake(t) => TicketSpurious(t)
  BY DEF Spin!SpuriousWake, TicketSpurious, Spin!memvars, memvars
<1>5. Spin!SetCurrent(t) => TicketSet(t)
  BY DEF Spin!SetCurrent, TicketSet
<1>6. Spin!Count(t) => TicketCount(t)
  BY DEF Spin!Count, Spin!Load, Spin!Store, TicketCount, memvars
<1>7. Spin!AdvanceTurn(t) => TicketAdvance(t)
  BY DEF Spin!AdvanceTurn, TicketAdvance
<1>8. Spin!TestNumber(t) => TicketTest(t) \/ TicketLeave(t)
  BY DEF Spin!TestNumber, Spin!WakeIf, Spin!EndIteration, Spin!After, TicketTest,
         TicketLeave, Ends, Spin!memvars, memvars
<1>9. Spin!TestCurrent(t) => TicketTest(t) \/ TicketLeave(t)
  BY DEF Spin!TestCurrent, Spin!WakeIf, Spin!EndIteration, Spin!After, TicketTest,
         TicketLeave, Ends, Spin!memvars, memvars
<1>10. Spin!FutexWake(t) => TicketWake(t)
  BY DEF Spin!FutexWake, Spin!WakeAll, Spin!After, TicketWake, Ends, Spin!memvars, memvars
<1>11. ASSUME Spin!FutexWakeBitset(t)
       PROVE  TicketWake(t)
  <2> DEFINE W == {s \in sleeping : ticket[s] % MaskBits = next[t] % MaskBits}
             l == IF iter[t] + 1 = Iterations THEN "done" ELSE "begin"
  <2>1. Spin!WaitersOf(next[t]) = W /\ Spin!After(t) = l
    BY DEF Spin!WaitersOf, Spin!After
  <2>2. /\ pc[t] = "wake" /\ iter' = [iter EXCEPT ![t] = iter[t] + 1]
        /\ sleeping' = sleeping \ W
        /\ pc' = [s \in Threads |-> IF s = t THEN l ELSE IF s \in W THEN "turn" ELSE pc[s]]
        /\ UNCHANGED <<memvars, ticket, seen, next>>
    BY <1>11, <2>1 DEF Spin!FutexWakeBitset, Spin!WakeAll, Spin!memvars, memvars
  <2>3. W \in SUBSET sleeping /\ l \in {"begin", "done"} /\ Ends(t, l)
    BY <2>2 DEF Ends
  <2> HIDE DEF W, l
  <2>4. {s \in sleeping : ticket[s] % MaskBits = next[t] % MaskBits} \subseteq W
    BY DEF W
  <2>5. QED
    BY <2>2, <2>3, <2>4 DEF TicketWake
<1>12. QED
  BY <1>1, <1>2, <1>3, <1>4, <1>5, <1>6, <1>7, <1>8, <1>9, <1>10, <1>11
  DEF Spin!Step, TicketStep

-----------------------------------------------------------------------------
(* Every step of the ticket mutexes keeps the invariant *)

\* A thread that leaves alone what it has of the tickets.
LEMMA OwnKept ==
  ASSUME NEW u, TicketOwn(u), \A a : Kept(u, a),
         mem'[TurnWord] = mem[TurnWord], mem'[NumberWord] = mem[NumberWord],
         ticket'[u] = ticket[u], next'[u] = next[u],
         Holds(u)' => Holds(u), Served(u)' => Served(u), Leaving(u)' => Leaving(u),
         InCS(u) => InCS(u)' \/ ~ Late(u, CurrentWord),
         pc'[u] = "wait" => seen'[u] # ticket'[u]
  PROVE  TicketOwn(u)'
<1>1. /\ Late(u, NumberWord)' <=> Late(u, NumberWord)
      /\ Late(u, TurnWord)' <=> Late(u, TurnWord)
      /\ Late(u, CurrentWord)' <=> Late(u, CurrentWord)
      /\ Once(u, CurrentWord)' <=> Once(u, CurrentWord)
      /\ Late(u, CurrentWord) => Read(u, CurrentWord)' = Read(u, CurrentWord)
  BY DEF Kept
<1>2. QED
  BY <1>1 DEF TicketOwn

\* A step of t that takes no ticket and serves none.
LEMMA TicketMove ==
  ASSUME TicketInv, NEW t \in Threads, TicketType', TicketOwn(t)', Taken' = Taken,
         mem'[NumberWord] = mem[NumberWord], mem'[TurnWord] = mem[TurnWord],
         ticket' = ticket, next' = next,
         Holds(t)' => Holds(t),
         CurrentIsPast', Plain!NextIsAwake',
         \A u \in Threads : u # t =>
           /\ \A a : Kept(u, a)
           /\ Holds(u)' => Holds(u)
           /\ Served(u)' => Served(u)
           /\ Leaving(u)' => Leaving(u)
           /\ InCS(u) => InCS(u)'
           /\ pc'[u] = "wait" => pc[u] = "wait" /\ seen'[u] = seen[u]
  PROVE  TicketInv'
<1>1. ASSUME NEW u \in Threads, u # t
      PROVE  TicketOwn(u)'
  <2>1. TicketOwn(u)
    BY DEF TicketInv
  <2>2. pc'[u] = "wait" => seen'[u] # ticket'[u]
    BY <1>1, <2>1 DEF TicketOwn
  <2>3. QED
    BY <1>1, <2>1, <2>2, OwnKept
<1>2. \A u \in Threads : TicketOwn(u)'
  BY <1>1
<1>3. \A u \in Threads : Holds(u)' => Holds(u)
  OBVIOUS
<1>4. QED
  BY <1>2, <1>3 DEF TicketInv

\* A step after which the same threads are inside, or more.
LEMMA CurrentKept ==
  ASSUME CurrentIsPast, mem'[CurrentWord] = mem[CurrentWord],
         mem'[TurnWord] = mem[TurnWord], ticket' = ticket,
         \A u \in Threads : InCS(u) => InCS(u)'
  PROVE  CurrentIsPast'
BY DEF CurrentIsPast

\* A step after which nobody else sleeps and nobody leaves without waking.
LEMMA AwakeKept ==
  ASSUME Plain!NextIsAwake, sleeping' \subseteq sleeping,
         mem'[TurnWord] = mem[TurnWord], ticket' = ticket, next' = next,
         \A u \in Threads : Leaving(u) => Leaving(u)'
  PROVE  Plain!NextIsAwake'
BY DEF Plain!NextIsAwake, Leaving, TurnWord

\* Where the threads are after a step of t to l.
LEMMA Moved ==
  ASSUME pc \in [Threads -> TicketLabels], NEW t \in Threads, NEW l \in TicketLabels,
         Moves(t, l)
  PROVE  /\ pc' \in [Threads -> TicketLabels] /\ pc'[t] = l
         /\ \A u \in Threads : u # t => /\ pc'[u] = pc[u]
                                        /\ Holds(u)' <=> Holds(u)
                                        /\ Served(u)' <=> Served(u)
                                        /\ Leaving(u)' <=> Leaving(u)
                                        /\ InCS(u)' <=> InCS(u)
         /\ Holds(t)' <=> l \in {"turn", "wait", "asleep", "current", "load", "store", "unlock"}
         /\ Served(t)' <=> l \in {"current", "load", "store", "unlock"}
         /\ Leaving(t)' <=> l \in {"testNumber", "testCurrent", "wake"}
         /\ InCS(t)' <=> l \in {"load", "store", "unlock"}
         /\ l # "asleep" => {u \in Threads : pc'[u] = "asleep"}
                              = {u \in Threads : pc[u] = "asleep"} \ {t}
         /\ l = "asleep" => {u \in Threads : pc'[u] = "asleep"}
                              = {u \in Threads : pc[u] = "asleep"} \cup {t}
BY DEF Moves, Holds, Served, Leaving, InCS

\* What the invariant says of thread t.
LEMMA TicketOf ==
  ASSUME TicketInv, NEW t \in Threads
  PROVE  /\ TicketType /\ TSOType(TicketWords, BufferSize)
         /\ pc \in [Threads -> TicketLabels] /\ pc[t] \in TicketLabels
         /\ ticket \in [Threads -> Nat] /\ seen \in [Threads -> Nat]
         /\ next \in [Threads -> Nat]
         /\ ticket[t] \in Nat /\ seen[t] \in Nat /\ next[t] \in Nat
         /\ iter \in [Threads -> Nat] /\ iter[t] \in Nat
         /\ pc[t] # "done" => iter[t] < Iterations
         /\ sleeping = {u \in Threads : pc[u] = "asleep"}
         /\ mem[NumberWord] \in Nat /\ mem[TurnWord] \in Nat /\ mem[CurrentWord] \in Nat
         /\ TicketOwn(t) /\ CurrentIsPast /\ Plain!NextIsAwake
         /\ Read(t, TurnWord) = mem[TurnWord] /\ Read(t, NumberWord) = mem[NumberWord]
BY ReadEffect DEF TicketInv, TicketType, TicketOwn

\* The thread keeps its iteration and does not go from one to the next.
LEMMA TakenKept ==
  ASSUME iter' = iter,
         \A u \in Threads : pc'[u] \in {"begin", "done"} <=> pc[u] \in {"begin", "done"}
  PROVE  Taken' = Taken
BY DEF Taken

\* Neither does the end of an iteration take a ticket.
LEMMA TakenEnds ==
  ASSUME NEW t \in Threads, iter \in [Threads -> Nat], pc[t] \notin {"begin", "done"},
         NEW l, Ends(t, l), pc'[t] = l,
         \A u \in Threads : u # t =>
           (pc'[u] \in {"begin", "done"} <=> pc[u] \in {"begin", "done"})
  PROVE  Taken' = Taken
<1>1. ASSUME NEW x \in Threads \X (0 .. Iterations - 1)
      PROVE  x \in Taken' <=> x \in Taken
  <2>1. x[1] \in Threads /\ x[2] \in Nat /\ iter[x[1]] \in Nat
    BY <1>1, IterationsAssumption
  <2>2. CASE x[1] = t
    <3>1. iter'[t] = iter[t] + 1 /\ pc'[t] \in {"begin", "done"}
      BY DEF Ends
    <3>2. x[2] < iter[t] + 1 <=> x[2] < iter[t] \/ x[2] = iter[t]
      BY <2>1, <2>2
    <3>3. QED
      BY <1>1, <2>1, <2>2, <3>1, <3>2 DEF Taken
  <2>3. CASE x[1] # t
    <3>1. iter'[x[1]] = iter[x[1]]
      BY <2>1, <2>3 DEF Ends
    <3>2. QED
      BY <1>1, <2>1, <2>3, <3>1 DEF Taken
  <2>4. QED
    BY <2>2, <2>3
<1>2. QED
  BY <1>1 DEF Taken

\* turn = futex->turn and the test of the loop.
LEMMA TicketReadInv ==
  ASSUME TicketInv, NEW t \in Threads, TicketRead(t)
  PROVE  TicketInv'
<1>1. PICK l \in {"wait", "load", "current"} :
        /\ pc[t] = "turn" /\ Moves(t, l) /\ (l = "wait" <=> Read(t, TurnWord) # ticket[t])
        /\ seen' = [seen EXCEPT ![t] = Read(t, TurnWord)]
        /\ UNCHANGED <<iter, memvars, ticket, next, sleeping>>
  BY DEF TicketRead
<1>2. l \in TicketLabels
  BY DEF TicketLabels
<1> USE TicketOf
<1>3. /\ \A A, n : TSOType(A, n) => TSOType(A, n)'
      /\ mem' = mem
      /\ \A u, b : Kept(u, b)
  BY <1>1, NoEffect
<1>4. /\ pc' \in [Threads -> TicketLabels] /\ pc'[t] = l
      /\ \A u \in Threads : u # t => /\ pc'[u] = pc[u]
                                     /\ Holds(u)' <=> Holds(u)
                                     /\ Served(u)' <=> Served(u)
                                     /\ Leaving(u)' <=> Leaving(u)
                                     /\ InCS(u)' <=> InCS(u)
      /\ Holds(t) /\ ~ Leaving(t) /\ ~ InCS(t)
      /\ Served(t)' => l # "wait"
      /\ ~ Leaving(t)'
      /\ {u \in Threads : pc'[u] = "asleep"} = {u \in Threads : pc[u] = "asleep"}
  BY <1>1, <1>2, Moved DEF Holds, Leaving, InCS
<1>5. TicketType'
  BY <1>1, <1>3, <1>4 DEF TicketType
<1>6. l # "wait" => ticket[t] = mem[TurnWord]
  BY <1>1
<1>7. TicketOwn(t)'
  <2>1. /\ Late(t, NumberWord)' <=> Late(t, NumberWord)
        /\ Late(t, TurnWord)' <=> Late(t, TurnWord)
        /\ Late(t, CurrentWord)' <=> Late(t, CurrentWord)
        /\ Once(t, CurrentWord)' <=> Once(t, CurrentWord)
    BY <1>3 DEF Kept
  <2>2. ~ Late(t, CurrentWord)
    BY <1>4 DEF TicketOwn
  <2>3. seen'[t] = mem[TurnWord]
    BY <1>1
  <2>4. pc'[t] = "wait" => seen'[t] # ticket'[t]
    BY <1>1, <1>4, <2>3
  <2>5. QED
    BY <1>1, <1>3, <1>4, <1>6, <2>1, <2>2, <2>4 DEF TicketOwn
<1>8. Taken' = Taken
  BY <1>1, <1>4, TakenKept
<1>9. CurrentIsPast'
  BY <1>1, <1>3, <1>4, CurrentKept
<1>10. Plain!NextIsAwake'
  BY <1>1, <1>3, <1>4, AwakeKept
<1>11. \A u \in Threads : u # t /\ pc'[u] = "wait" => pc[u] = "wait" /\ seen'[u] = seen[u]
  BY <1>1, <1>4
<1>12. QED
  BY <1>1, <1>3, <1>4, <1>5, <1>7, <1>8, <1>9, <1>10, <1>11, TicketMove

\* FUTEX_WAIT: a thread that goes to sleep does not have the turn.
LEMMA TicketWaitInv ==
  ASSUME TicketInv, NEW t \in Threads, TicketWait(t)
  PROVE  TicketInv'
<1>1. PICK l \in {"turn", "asleep"} :
        /\ pc[t] = "wait" /\ Moves(t, l)
        /\ l = "asleep" => mem[TurnWord] = seen[t] /\ sleeping' = sleeping \cup {t}
        /\ l = "turn" => sleeping' = sleeping
        /\ UNCHANGED <<iter, memvars, ticket, seen, next>>
  BY DEF TicketWait
<1>2. l \in TicketLabels
  BY DEF TicketLabels
<1> USE TicketOf
<1>3. /\ \A A, n : TSOType(A, n) => TSOType(A, n)'
      /\ mem' = mem
      /\ \A u, b : Kept(u, b)
  BY <1>1, NoEffect
<1>4. /\ pc' \in [Threads -> TicketLabels] /\ pc'[t] = l
      /\ \A u \in Threads : u # t => /\ pc'[u] = pc[u]
                                     /\ Holds(u)' <=> Holds(u)
                                     /\ Served(u)' <=> Served(u)
                                     /\ Leaving(u)' <=> Leaving(u)
                                     /\ InCS(u)' <=> InCS(u)
      /\ Holds(t) /\ ~ Leaving(t) /\ ~ InCS(t)
      /\ ~ Served(t)' /\ ~ Leaving(t)'
      /\ sleeping' = {u \in Threads : pc'[u] = "asleep"}
  <2>1. CASE l = "turn"
    BY <1>1, <1>2, <2>1, Moved DEF Holds, Leaving, InCS
  <2>2. CASE l = "asleep"
    BY <1>1, <1>2, <2>2, Moved DEF Holds, Leaving, InCS
  <2>3. QED
    BY <2>1, <2>2
<1>5. TicketType'
  BY <1>1, <1>3, <1>4 DEF TicketType
<1>6. ~ Late(t, CurrentWord)
  BY <1>4 DEF TicketOwn
<1>7. TicketOwn(t)'
  BY <1>1, <1>3, <1>4, <1>6, OwnKept
<1>8. Taken' = Taken
  BY <1>1, <1>4, TakenKept
<1>9. CurrentIsPast'
  BY <1>1, <1>3, <1>4, CurrentKept
<1>10. Plain!NextIsAwake'
  <2>1. CASE l = "turn"
    BY <1>1, <1>3, <1>4, <2>1, AwakeKept
  <2>2. CASE l = "asleep"
    <3>1. mem[TurnWord] # ticket[t]
      BY <1>1, <2>2 DEF TicketOwn
    <3>2. SUFFICES ASSUME NEW s \in sleeping', mem'[TurnWord] = ticket'[s]
                   PROVE  \E u \in Threads : Leaving(u)' /\ next'[u] = ticket'[s]
      BY DEF Plain!NextIsAwake, Leaving, TurnWord
    <3>3. s \in sleeping /\ mem[TurnWord] = ticket[s]
      BY <1>1, <1>3, <2>2, <3>1, <3>2
    <3>4. PICK u \in Threads : Leaving(u) /\ next[u] = ticket[s]
      BY <3>3 DEF Plain!NextIsAwake, Leaving, TurnWord
    <3>5. QED
      BY <1>1, <1>4, <3>4
  <2>3. QED
    BY <2>1, <2>2
<1>11. \A u \in Threads : u # t /\ pc'[u] = "wait" => pc[u] = "wait" /\ seen'[u] = seen[u]
  BY <1>1, <1>4
<1>12. QED
  BY <1>1, <1>3, <1>4, <1>5, <1>7, <1>8, <1>9, <1>10, <1>11, TicketMove

\* FUTEX_WAIT returns with no FUTEX_WAKE.
LEMMA TicketSpuriousInv ==
  ASSUME TicketInv, NEW t \in Threads, TicketSpurious(t)
  PROVE  TicketInv'
<1>1. /\ t \in sleeping /\ sleeping' = sleeping \ {t} /\ Moves(t, "turn")
      /\ UNCHANGED <<iter, memvars, ticket, seen, next>>
  BY DEF TicketSpurious
<1> USE TicketOf
<1>2. "turn" \in TicketLabels /\ pc[t] = "asleep"
  BY <1>1 DEF TicketLabels
<1>3. /\ \A A, n : TSOType(A, n) => TSOType(A, n)'
      /\ mem' = mem
      /\ \A u, b : Kept(u, b)
  BY <1>1, NoEffect
<1>4. /\ pc' \in [Threads -> TicketLabels] /\ pc'[t] = "turn"
      /\ \A u \in Threads : u # t => /\ pc'[u] = pc[u]
                                     /\ Holds(u)' <=> Holds(u)
                                     /\ Served(u)' <=> Served(u)
                                     /\ Leaving(u)' <=> Leaving(u)
                                     /\ InCS(u)' <=> InCS(u)
      /\ Holds(t) /\ ~ Leaving(t) /\ ~ InCS(t)
      /\ ~ Served(t)' /\ ~ Leaving(t)'
      /\ sleeping' = {u \in Threads : pc'[u] = "asleep"}
  BY <1>1, <1>2, Moved DEF Holds, Leaving, InCS
<1>5. TicketType'
  BY <1>1, <1>3, <1>4 DEF TicketType
<1>6. ~ Late(t, CurrentWord)
  BY <1>4 DEF TicketOwn
<1>7. TicketOwn(t)'
  BY <1>1, <1>3, <1>4, <1>6, OwnKept
<1>8. Taken' = Taken
  BY <1>1, <1>2, <1>4, TakenKept
<1>9. CurrentIsPast'
  BY <1>1, <1>3, <1>4, CurrentKept
<1>10. Plain!NextIsAwake'
  BY <1>1, <1>3, <1>4, AwakeKept
<1>11. \A u \in Threads : u # t /\ pc'[u] = "wait" => pc[u] = "wait" /\ seen'[u] = seen[u]
  BY <1>1, <1>4
<1>12. QED
  BY <1>1, <1>3, <1>4, <1>5, <1>7, <1>8, <1>9, <1>10, <1>11, TicketMove

\* unlock() is going to wake someone.
LEMMA TicketTestInv ==
  ASSUME TicketInv, NEW t \in Threads, TicketTest(t)
  PROVE  TicketInv'
<1>1. /\ pc[t] \in {"testNumber", "testCurrent"} /\ Moves(t, "wake")
      /\ UNCHANGED <<iter, memvars, ticket, seen, next, sleeping>>
  BY DEF TicketTest
<1> USE TicketOf
<1>2. "wake" \in TicketLabels
  BY DEF TicketLabels
<1>3. /\ \A A, n : TSOType(A, n) => TSOType(A, n)'
      /\ mem' = mem
      /\ \A u, b : Kept(u, b)
  BY <1>1, NoEffect
<1>4. /\ pc' \in [Threads -> TicketLabels] /\ pc'[t] = "wake"
      /\ \A u \in Threads : u # t => /\ pc'[u] = pc[u]
                                     /\ Holds(u)' <=> Holds(u)
                                     /\ Served(u)' <=> Served(u)
                                     /\ Leaving(u)' <=> Leaving(u)
                                     /\ InCS(u)' <=> InCS(u)
      /\ ~ Holds(t)' /\ Leaving(t) /\ Leaving(t)' /\ ~ InCS(t) /\ ~ Served(t)'
      /\ sleeping' = {u \in Threads : pc'[u] = "asleep"}
  BY <1>1, <1>2, Moved DEF Holds, Leaving, InCS
<1>5. TicketType'
  BY <1>1, <1>3, <1>4 DEF TicketType
<1>6. TicketOwn(t)'
  BY <1>1, <1>3, <1>4, OwnKept
<1>7. Taken' = Taken
  BY <1>1, <1>4, TakenKept
<1>8. CurrentIsPast'
  BY <1>1, <1>3, <1>4, CurrentKept
<1>9. Plain!NextIsAwake'
  BY <1>1, <1>3, <1>4, AwakeKept
<1>10. \A u \in Threads : u # t /\ pc'[u] = "wait" => pc[u] = "wait" /\ seen'[u] = seen[u]
  BY <1>1, <1>4
<1>11. QED
  BY <1>1, <1>3, <1>4, <1>5, <1>6, <1>7, <1>8, <1>9, <1>10, TicketMove

\* If unlock() leaves without waking anyone, nobody needs it.
LEMMA NobodyToWake ==
  ASSUME TicketInv, NEW t \in Threads, NEW s \in sleeping,
         mem[TurnWord] = ticket[s], next[t] = ticket[s],
         \/ pc[t] = "testNumber" /\ ~ (Read(t, NumberWord) >= next[t])
         \/ pc[t] = "testCurrent" /\ ~ (next[t] > Read(t, CurrentWord))
  PROVE  FALSE
<1> USE TicketOf
<1>1. s \in Threads /\ pc[s] = "asleep" /\ Holds(s) /\ Leaving(t) /\ ~ InCS(t)
  BY DEF Holds, Leaving, InCS
<1>2. /\ ticket[s] < mem[NumberWord] /\ 1 <= next[t] /\ ~ Late(t, CurrentWord)
      /\ ticket[s] \in Nat
  BY <1>1 DEF TicketOwn
<1>3. Read(t, CurrentWord) = mem[CurrentWord]
  BY <1>2, ReadEffect
<1>4. ~ (mem[NumberWord] < next[t])
  BY <1>2
<1>5. pc[t] = "testCurrent" /\ mem[CurrentWord] >= mem[TurnWord] /\ mem[CurrentWord] # 0
  BY <1>2, <1>3, <1>4
<1>6. PICK w \in Threads : InCS(w) /\ ticket[w] = mem[CurrentWord]
  BY <1>5 DEF CurrentIsPast
<1>7. Holds(w) /\ Served(w)
  BY <1>6 DEF InCS, Holds, Served
<1>8. ticket[w] = mem[TurnWord]
  BY <1>7 DEF TicketOwn
<1>9. w = s
  BY <1>1, <1>7, <1>8 DEF TicketInv
<1>10. QED
  BY <1>1, <1>6, <1>9 DEF InCS

\* unlock() leaves without waking anyone.
LEMMA TicketLeaveInv ==
  ASSUME TicketInv, NEW t \in Threads, TicketLeave(t)
  PROVE  TicketInv'
<1>1. PICK l \in {"begin", "done"} :
        /\ pc[t] \in {"testNumber", "testCurrent"} /\ Ends(t, l) /\ Moves(t, l)
        /\ \/ pc[t] = "testNumber" /\ ~ (Read(t, NumberWord) >= next[t])
           \/ pc[t] = "testCurrent" /\ ~ (next[t] > Read(t, CurrentWord))
        /\ UNCHANGED <<memvars, ticket, seen, next, sleeping>>
  BY DEF TicketLeave
<1> USE TicketOf
<1>2. l \in TicketLabels
  BY DEF TicketLabels
<1>3. /\ \A A, n : TSOType(A, n) => TSOType(A, n)'
      /\ mem' = mem
      /\ \A u, b : Kept(u, b)
  BY <1>1, NoEffect
<1>4. /\ pc' \in [Threads -> TicketLabels] /\ pc'[t] = l
      /\ \A u \in Threads : u # t => /\ pc'[u] = pc[u]
                                     /\ Holds(u)' <=> Holds(u)
                                     /\ Served(u)' <=> Served(u)
                                     /\ Leaving(u)' <=> Leaving(u)
                                     /\ InCS(u)' <=> InCS(u)
      /\ ~ Holds(t)' /\ Leaving(t) /\ ~ Leaving(t)' /\ ~ InCS(t) /\ ~ Served(t)'
      /\ sleeping' = {u \in Threads : pc'[u] = "asleep"}
  BY <1>1, <1>2, Moved DEF Holds, Leaving, InCS
<1>5. TicketType'
  <2>1. /\ iter' \in [Threads -> Nat] /\ iter'[t] = iter[t] + 1
        /\ \A u \in Threads : u # t => iter'[u] = iter[u]
    BY <1>1 DEF Ends
  <2>2. iter[t] < Iterations /\ Iterations \in Nat
    BY <1>1, IterationsAssumption
  <2>3. pc'[t] # "done" => iter'[t] < Iterations
    BY <1>1, <1>4, <2>1, <2>2 DEF Ends
  <2>4. \A u \in Threads : pc'[u] # "done" => iter'[u] < Iterations
    BY <1>4, <2>1, <2>3 DEF TicketType
  <2>5. QED
    BY <1>1, <1>3, <1>4, <2>1, <2>4 DEF TicketType
<1>6. TicketOwn(t)'
  BY <1>1, <1>3, <1>4, OwnKept
<1>7. Taken' = Taken
  BY <1>1, <1>4, TakenEnds
<1>8. CurrentIsPast'
  BY <1>1, <1>3, <1>4, CurrentKept
<1>9. Plain!NextIsAwake'
  <2>1. SUFFICES ASSUME NEW s \in sleeping', mem'[TurnWord] = ticket'[s]
                 PROVE  \E u \in Threads : Leaving(u)' /\ next'[u] = ticket'[s]
    BY DEF Plain!NextIsAwake, Leaving, TurnWord
  <2>2. s \in sleeping /\ mem[TurnWord] = ticket[s]
    BY <1>1, <1>3, <2>1
  <2>3. PICK u \in Threads : Leaving(u) /\ next[u] = ticket[s]
    BY <2>2 DEF Plain!NextIsAwake, Leaving, TurnWord
  <2>4. u # t
    BY <1>1, <2>2, <2>3, NobodyToWake
  <2>5. QED
    BY <1>1, <1>4, <2>3, <2>4
<1>10. \A u \in Threads : u # t /\ pc'[u] = "wait" => pc[u] = "wait" /\ seen'[u] = seen[u]
  BY <1>1, <1>4
<1>11. QED
  BY <1>1, <1>3, <1>4, <1>5, <1>6, <1>7, <1>8, <1>9, <1>10, TicketMove

\* FUTEX_WAKE: whoever has the ticket that the turn has come to is among the woken.
LEMMA TicketWakeInv ==
  ASSUME TicketInv, NEW t \in Threads, TicketWake(t)
  PROVE  TicketInv'
<1>1. PICK l \in {"begin", "done"}, W \in SUBSET sleeping :
        /\ Ends(t, l)
        /\ {s \in sleeping : ticket[s] % MaskBits = next[t] % MaskBits} \subseteq W
        /\ sleeping' = sleeping \ W
        /\ pc' = [s \in Threads |-> IF s = t THEN l ELSE IF s \in W THEN "turn" ELSE pc[s]]
  BY DEF TicketWake
<1>2. pc[t] = "wake" /\ UNCHANGED <<memvars, ticket, seen, next>>
  BY DEF TicketWake
<1> USE TicketOf
<1>3. /\ \A A, n : TSOType(A, n) => TSOType(A, n)'
      /\ mem' = mem
      /\ \A u, b : Kept(u, b)
  BY <1>2, NoEffect
<1>4. t \notin W /\ \A s \in W : s \in Threads /\ pc[s] = "asleep"
  BY <1>1, <1>2
<1>5. /\ pc' \in [Threads -> TicketLabels] /\ pc'[t] = l
      /\ \A s \in W : pc'[s] = "turn"
      /\ \A u \in Threads : u # t /\ u \notin W => pc'[u] = pc[u]
  BY <1>1, <1>4 DEF TicketLabels
<1>6. sleeping' = {u \in Threads : pc'[u] = "asleep"}
  <2>1. \A u : u \in sleeping <=> u \in Threads /\ pc[u] = "asleep"
    OBVIOUS
  <2>2. pc'[t] # "asleep"
    BY <1>5
  <2>3. \A u : u \in sleeping' <=> u \in Threads /\ pc'[u] = "asleep"
    BY <1>1, <1>2, <1>4, <1>5, <2>1, <2>2
  <2>4. QED
    BY <2>3
<1>7. \A u \in Threads : u # t => /\ Holds(u)' <=> Holds(u)
                                  /\ Served(u)' <=> Served(u)
                                  /\ Leaving(u)' <=> Leaving(u)
                                  /\ InCS(u)' <=> InCS(u)
                                  /\ pc'[u] \in {"begin", "done"} <=> pc[u] \in {"begin", "done"}
                                  /\ pc'[u] = "wait" => pc[u] = "wait"
  BY <1>4, <1>5 DEF Holds, Served, Leaving, InCS
<1>8. ~ Holds(t)' /\ Leaving(t) /\ ~ Leaving(t)' /\ ~ InCS(t) /\ ~ Served(t)'
  BY <1>1, <1>2, <1>5 DEF Holds, Served, Leaving, InCS
<1>9. TicketType'
  <2>1. /\ iter' \in [Threads -> Nat] /\ iter'[t] = iter[t] + 1
        /\ \A u \in Threads : u # t => iter'[u] = iter[u]
    BY <1>1 DEF Ends
  <2>2. iter[t] < Iterations /\ Iterations \in Nat
    BY <1>2, IterationsAssumption
  <2>3. pc'[t] # "done" => iter'[t] < Iterations
    BY <1>1, <1>5, <2>1, <2>2 DEF Ends
  <2>4. \A u \in Threads : pc'[u] # "done" => iter'[u] < Iterations
    BY <1>5, <1>7, <2>1, <2>3 DEF TicketType
  <2>5. QED
    BY <1>2, <1>3, <1>5, <1>6, <2>1, <2>4 DEF TicketType
<1>10. TicketOwn(t)'
  BY <1>2, <1>3, <1>5, <1>8, OwnKept
<1>11. Taken' = Taken
  BY <1>1, <1>2, <1>5, <1>7, TakenEnds
<1>12. CurrentIsPast'
  BY <1>2, <1>3, <1>7, <1>8, CurrentKept
<1>13. Plain!NextIsAwake'
  <2>1. SUFFICES ASSUME NEW s \in sleeping', mem'[TurnWord] = ticket'[s]
                 PROVE  \E u \in Threads : Leaving(u)' /\ next'[u] = ticket'[s]
    BY DEF Plain!NextIsAwake, Leaving, TurnWord
  <2>2. s \in sleeping /\ s \notin W /\ mem[TurnWord] = ticket[s]
    BY <1>1, <1>2, <1>3, <2>1
  <2>3. PICK u \in Threads : Leaving(u) /\ next[u] = ticket[s]
    BY <2>2 DEF Plain!NextIsAwake, Leaving, TurnWord
  <2>4. u # t
    BY <1>1, <2>2, <2>3
  <2>5. QED
    BY <1>2, <1>7, <2>3, <2>4
<1>14. \A u \in Threads : u # t /\ pc'[u] = "wait" => pc[u] = "wait" /\ seen'[u] = seen[u]
  BY <1>2, <1>7
<1>15. QED
  BY <1>2, <1>3, <1>7, <1>8, <1>9, <1>10, <1>11, <1>12, <1>13, <1>14, TicketMove

\* futex->current = number.
LEMMA TicketSetInv ==
  ASSUME TicketInv, NEW t \in Threads, TicketSet(t)
  PROVE  TicketInv'
<1>1. /\ pc[t] = "current" /\ Moves(t, "load")
      /\ Write(t, CurrentWord, ticket[t])
      /\ UNCHANGED <<iter, ticket, seen, next, sleeping>>
  BY DEF TicketSet
<1> USE TicketOf, TicketFacts
<1>2. "load" \in TicketLabels
  BY DEF TicketLabels
<1>3. /\ TSOType(TicketWords, BufferSize)'
      /\ \A b \in TicketWords : b # CurrentWord => mem'[b] = mem[b]
      /\ \A u \in Threads : \A b : u # t \/ b # CurrentWord => Kept(u, b)
      /\ Read(t, CurrentWord)' = ticket[t]
      /\ ~ Late(t, CurrentWord) => Once(t, CurrentWord)'
      /\ \/ Late(t, CurrentWord)' /\ mem'[CurrentWord] = mem[CurrentWord]
         \/ ~ Late(t, CurrentWord)' /\ ~ Late(t, CurrentWord) /\ mem'[CurrentWord] = ticket[t]
  BY <1>1, WriteEffect
<1>4. /\ pc' \in [Threads -> TicketLabels] /\ pc'[t] = "load"
      /\ \A u \in Threads : u # t => /\ pc'[u] = pc[u]
                                     /\ Holds(u)' <=> Holds(u)
                                     /\ Served(u)' <=> Served(u)
                                     /\ Leaving(u)' <=> Leaving(u)
                                     /\ InCS(u)' <=> InCS(u)
      /\ Holds(t) /\ Holds(t)' /\ Served(t) /\ Served(t)' /\ InCS(t)' /\ ~ InCS(t)
      /\ ~ Leaving(t) /\ ~ Leaving(t)'
      /\ sleeping' = {u \in Threads : pc'[u] = "asleep"}
  BY <1>1, <1>2, Moved DEF Holds, Served, Leaving, InCS
<1>5. ~ Late(t, CurrentWord)
  BY <1>4 DEF TicketOwn
<1>6. mem'[NumberWord] = mem[NumberWord] /\ mem'[TurnWord] = mem[TurnWord]
  BY <1>3
<1>7. mem'[CurrentWord] \in Nat
  BY <1>3
<1>8. TicketType'
  BY <1>1, <1>3, <1>4, <1>6, <1>7 DEF TicketType
<1>9. TicketOwn(t)'
  <2>1. ~ Late(t, NumberWord)' /\ ~ Late(t, TurnWord)'
    <3>1. Kept(t, NumberWord) /\ Kept(t, TurnWord)
      BY <1>3
    <3>2. QED
      BY <3>1 DEF Kept, TicketOwn
  <2>2. QED
    BY <1>1, <1>3, <1>4, <1>5, <1>6, <2>1 DEF TicketOwn
<1>10. Taken' = Taken
  BY <1>1, <1>4, TakenKept
<1>11. CurrentIsPast'
  <2>1. CASE mem'[CurrentWord] = mem[CurrentWord]
    BY <1>1, <1>4, <1>6, <2>1, CurrentKept
  <2>2. CASE mem'[CurrentWord] = ticket[t]
    BY <1>1, <1>4, <2>2 DEF CurrentIsPast
  <2>3. QED
    BY <1>3, <2>1, <2>2
<1>12. Plain!NextIsAwake'
  BY <1>1, <1>4, <1>6, AwakeKept
<1>13. \A u \in Threads : u # t /\ pc'[u] = "wait" => pc[u] = "wait" /\ seen'[u] = seen[u]
  BY <1>1, <1>4
<1>14. QED
  BY <1>1, <1>3, <1>4, <1>6, <1>8, <1>9, <1>10, <1>11, <1>12, <1>13, TicketMove

\* An instruction of count().
LEMMA TicketCountInv ==
  ASSUME TicketInv, NEW t \in Threads, TicketCount(t)
  PROVE  TicketInv'
<1>1. PICK l \in {"store", "unlock"} :
        /\ pc[t] \in {"load", "store"} /\ Moves(t, l)
        /\ UNCHANGED memvars \/ \E v : Write(t, Counter, v)
        /\ UNCHANGED <<iter, ticket, seen, next, sleeping>>
  BY DEF TicketCount
<1> USE TicketOf, TicketFacts
<1>2. l \in TicketLabels
  BY DEF TicketLabels
<1>3. /\ TSOType(TicketWords, BufferSize)'
      /\ \A b \in TicketWords : b # Counter => mem'[b] = mem[b]
      /\ \A u \in Threads : \A b : u # t \/ b # Counter => Kept(u, b)
  <2>1. CASE UNCHANGED memvars
    BY <2>1, NoEffect
  <2>2. CASE \E v : Write(t, Counter, v)
    BY <2>2, WriteEffect
  <2>3. QED
    BY <1>1, <2>1, <2>2
<1>4. /\ pc' \in [Threads -> TicketLabels] /\ pc'[t] = l
      /\ \A u \in Threads : u # t => /\ pc'[u] = pc[u]
                                     /\ Holds(u)' <=> Holds(u)
                                     /\ Served(u)' <=> Served(u)
                                     /\ Leaving(u)' <=> Leaving(u)
                                     /\ InCS(u)' <=> InCS(u)
      /\ Holds(t) /\ Holds(t)' /\ Served(t) /\ Served(t)' /\ InCS(t) /\ InCS(t)'
      /\ ~ Leaving(t) /\ ~ Leaving(t)'
      /\ sleeping' = {u \in Threads : pc'[u] = "asleep"}
  BY <1>1, <1>2, Moved DEF Holds, Served, Leaving, InCS
<1>5. /\ mem'[NumberWord] = mem[NumberWord] /\ mem'[TurnWord] = mem[TurnWord]
      /\ mem'[CurrentWord] = mem[CurrentWord]
  BY <1>3
<1>6. TicketType'
  BY <1>1, <1>3, <1>4, <1>5 DEF TicketType
<1>7. TicketOwn(t)'
  <2>1. Kept(t, NumberWord) /\ Kept(t, TurnWord) /\ Kept(t, CurrentWord)
    BY <1>3
  <2>2. /\ ~ Late(t, NumberWord)' /\ ~ Late(t, TurnWord)' /\ Once(t, CurrentWord)'
        /\ Late(t, CurrentWord)' => Late(t, CurrentWord)
        /\ Late(t, CurrentWord)' => Read(t, CurrentWord)' = Read(t, CurrentWord)
    BY <2>1 DEF Kept, TicketOwn
  <2>3. QED
    BY <1>1, <1>4, <1>5, <2>2 DEF TicketOwn
<1>8. Taken' = Taken
  BY <1>1, <1>4, TakenKept
<1>9. CurrentIsPast'
  BY <1>1, <1>4, <1>5, CurrentKept
<1>10. Plain!NextIsAwake'
  BY <1>1, <1>4, <1>5, AwakeKept
<1>11. \A u \in Threads : u # t /\ pc'[u] = "wait" => pc[u] = "wait" /\ seen'[u] = seen[u]
  BY <1>1, <1>4
<1>12. QED
  BY <1>1, <1>3, <1>4, <1>5, <1>6, <1>7, <1>8, <1>9, <1>10, <1>11, TicketMove

\* What an unsigned integer can hold does not wrap around.
LEMMA NoWrap ==
  ASSUME NEW n \in Nat, NEW w \in Nat, n < w
  PROVE  n % w = n
OBVIOUS

\* fetch_add() on futex->number: a ticket that nobody has.
LEMMA TicketTakeInv ==
  ASSUME TicketInv, NEW t \in Threads, TicketTake(t)
  PROVE  TicketInv'
<1>1. /\ pc[t] = "begin" /\ Moves(t, "turn")
      /\ ticket' = [ticket EXCEPT ![t] = mem[NumberWord]]
      /\ Update(t, NumberWord, (mem[NumberWord] + 1) % Wrap)
      /\ UNCHANGED <<iter, seen, next, sleeping>>
  BY DEF TicketTake
<1> USE TicketOf, TicketFacts
<1>2. "turn" \in TicketLabels
  BY DEF TicketLabels
<1>3. /\ TSOType(TicketWords, BufferSize)'
      /\ mem'[NumberWord] = (mem[NumberWord] + 1) % Wrap
      /\ \A b \in TicketWords : b # NumberWord => mem'[b] = mem[b]
      /\ \A b : ~ Late(t, b)
      /\ \A u, b : Kept(u, b)
  BY <1>1, UpdateEffect
<1>4. /\ pc' \in [Threads -> TicketLabels] /\ pc'[t] = "turn"
      /\ \A u \in Threads : u # t => /\ pc'[u] = pc[u]
                                     /\ Holds(u)' <=> Holds(u)
                                     /\ Served(u)' <=> Served(u)
                                     /\ Leaving(u)' <=> Leaving(u)
                                     /\ InCS(u)' <=> InCS(u)
      /\ ~ Holds(t) /\ Holds(t)' /\ ~ Served(t)' /\ ~ InCS(t) /\ ~ InCS(t)'
      /\ ~ Leaving(t) /\ ~ Leaving(t)'
      /\ sleeping' = {u \in Threads : pc'[u] = "asleep"} /\ t \notin sleeping
  BY <1>1, <1>2, Moved DEF Holds, Served, Leaving, InCS
<1>5. Taken' = Taken \cup {<<t, iter[t]>>} /\ <<t, iter[t]>> \notin Taken
      /\ Taken' \subseteq Threads \X (0 .. Iterations - 1)
  <2>1. iter[t] \in 0 .. Iterations - 1
    BY <1>1, IterationsAssumption
  <2>2. iter' = iter
    BY <1>1
  <2>3. ASSUME NEW x \in Threads \X (0 .. Iterations - 1)
        PROVE  x \in Taken' <=> x \in Taken \/ x = <<t, iter[t]>>
    <3>1. x[1] \in Threads /\ x = <<x[1], x[2]>>
      BY <2>3
    <3>2. CASE x[1] = t
      BY <1>1, <1>4, <2>2, <3>1, <3>2 DEF Taken
    <3>3. CASE x[1] # t
      BY <1>4, <2>2, <3>1, <3>3 DEF Taken
    <3>4. QED
      BY <3>2, <3>3
  <2>4. <<t, iter[t]>> \notin Taken
    BY <1>1 DEF Taken
  <2>5. <<t, iter[t]>> \in Threads \X (0 .. Iterations - 1)
    BY <2>1
  <2>6. /\ Taken \subseteq Threads \X (0 .. Iterations - 1)
        /\ Taken' \subseteq Threads \X (0 .. Iterations - 1)
    BY DEF Taken
  <2>7. QED
    BY <2>3, <2>4, <2>5, <2>6
<1>6. mem'[NumberWord] = Cardinality(Taken)' /\ mem'[NumberWord] = mem[NumberWord] + 1
  <2>1. mem[NumberWord] = Cardinality(Taken) /\ IsFiniteSet(Taken)
    BY <1>5, TakenBound DEF TicketInv, Taken
  <2>2. Cardinality(Taken') = mem[NumberWord] + 1
    BY ZenonT(40), <1>5, <2>1, FS_AddElement
  <2>3. Cardinality(Taken') < Wrap /\ Wrap \in Nat
    BY <1>5, TakenBound
  <2>4. (mem[NumberWord] + 1) % Wrap = mem[NumberWord] + 1
    BY <2>2, <2>3, NoWrap
  <2>5. QED
    BY <1>3, <2>2, <2>4
<1>7. mem'[TurnWord] = mem[TurnWord] /\ mem'[CurrentWord] = mem[CurrentWord]
  BY <1>3
<1>8. /\ ticket'[t] = mem[NumberWord] /\ \A u \in Threads : u # t => ticket'[u] = ticket[u]
      /\ ticket' \in [Threads -> Nat]
  BY <1>1
<1>9. TicketType'
  BY <1>1, <1>3, <1>4, <1>6, <1>7, <1>8 DEF TicketType
\* The turn does not run ahead of the tickets.
<1>10. mem[TurnWord] <= mem[NumberWord]
  BY DEF TicketInv
<1>11. TicketOwn(t)'
  <2>1. \A a : Late(t, a)' <=> Late(t, a)
    BY <1>3 DEF Kept
  <2>2. Once(t, CurrentWord)'
    BY <2>1, <1>3 DEF Late, Once
  <2>3. QED
    BY <1>3, <1>4, <1>6, <1>7, <1>8, <1>10, <2>1, <2>2 DEF TicketOwn
<1>12. ASSUME NEW u \in Threads, u # t
       PROVE  TicketOwn(u)' /\ (Holds(u)' => ticket'[u] < ticket'[t])
  <2>1. TicketOwn(u) /\ ticket[u] \in Nat /\ next[u] \in Nat
    BY DEF TicketInv
  <2>2. /\ Late(u, NumberWord)' <=> Late(u, NumberWord)
        /\ Late(u, TurnWord)' <=> Late(u, TurnWord)
        /\ Late(u, CurrentWord)' <=> Late(u, CurrentWord)
        /\ Once(u, CurrentWord)' <=> Once(u, CurrentWord)
        /\ Late(u, CurrentWord) => Read(u, CurrentWord)' = Read(u, CurrentWord)
    BY <1>3 DEF Kept
  <2>3. /\ ticket'[u] = ticket[u] /\ next'[u] = next[u] /\ seen'[u] = seen[u]
        /\ pc'[u] = pc[u]
    BY <1>1, <1>4, <1>8, <1>12
  <2>4. Holds(u) => ticket[u] < mem[NumberWord]
    BY <2>1 DEF TicketOwn
  <2>5. Holds(u) => ticket[u] < mem'[NumberWord]
    BY <1>6, <2>1, <2>4
  <2>6. TicketOwn(u)'
    BY <1>4, <1>7, <1>12, <2>1, <2>2, <2>3, <2>5 DEF TicketOwn
  <2>7. QED
    BY <1>4, <1>8, <1>12, <2>3, <2>4, <2>6
<1>13. \A u, v \in Threads : Holds(u)' /\ Holds(v)' /\ ticket'[u] = ticket'[v] => u = v
  <2>1. SUFFICES ASSUME NEW u \in Threads, NEW v \in Threads,
                        Holds(u)', Holds(v)', ticket'[u] = ticket'[v], u # v
                 PROVE  FALSE
    OBVIOUS
  <2>2. ticket'[t] \in Nat
    BY <1>8
  <2>3. u # t
    BY <1>12, <2>1, <2>2
  <2>4. v # t
    BY <1>12, <2>1, <2>2
  <2>5. QED
    BY <1>4, <1>8, <2>1, <2>3, <2>4 DEF TicketInv
<1>14. CurrentIsPast'
  <2>1. \A w \in Threads : InCS(w) => w # t
    BY <1>4
  <2>2. QED
    BY <1>4, <1>7, <1>8, <2>1 DEF CurrentIsPast
<1>15. Plain!NextIsAwake'
  <2>1. SUFFICES ASSUME NEW s \in sleeping', mem'[TurnWord] = ticket'[s]
                 PROVE  \E u \in Threads : Leaving(u)' /\ next'[u] = ticket'[s]
    BY DEF Plain!NextIsAwake, Leaving, TurnWord
  <2>2. s \in sleeping /\ s # t /\ mem[TurnWord] = ticket[s] /\ ticket'[s] = ticket[s]
    BY <1>1, <1>4, <1>7, <1>8, <2>1
  <2>3. PICK u \in Threads : Leaving(u) /\ next[u] = ticket[s]
    BY <2>2 DEF Plain!NextIsAwake, Leaving, TurnWord
  <2>4. QED
    BY <1>1, <1>4, <2>2, <2>3
<1>16. mem'[TurnWord] <= mem'[NumberWord]
  BY <1>6, <1>7, <1>10
<1>17. \A u \in Threads : TicketOwn(u)'
  BY <1>11, <1>12
<1>18. QED
  BY <1>6, <1>9, <1>13, <1>14, <1>15, <1>16, <1>17 DEF TicketInv

\* add_fetch() on futex->turn: the thread that has the next ticket, and only
\* that one, is served, and this unlock() is going to wake it.
LEMMA TicketAdvanceInv ==
  ASSUME TicketInv, NEW t \in Threads, TicketAdvance(t)
  PROVE  TicketInv'
<1>1. PICK l \in {"testNumber", "testCurrent"} :
        /\ pc[t] = "unlock" /\ Moves(t, l)
        /\ next' = [next EXCEPT ![t] = (mem[TurnWord] + 1) % Wrap]
        /\ Update(t, TurnWord, (mem[TurnWord] + 1) % Wrap)
        /\ UNCHANGED <<iter, ticket, seen, sleeping>>
  BY DEF TicketAdvance
<1> USE TicketOf, TicketFacts
<1>2. l \in TicketLabels
  BY DEF TicketLabels
<1>3. /\ TSOType(TicketWords, BufferSize)'
      /\ mem'[TurnWord] = (mem[TurnWord] + 1) % Wrap
      /\ \A b \in TicketWords : b # TurnWord => mem'[b] = mem[b]
      /\ \A b : ~ Late(t, b)
      /\ \A u, b : Kept(u, b)
  BY <1>1, UpdateEffect
<1>4. /\ pc' \in [Threads -> TicketLabels] /\ pc'[t] = l
      /\ \A u \in Threads : u # t => /\ pc'[u] = pc[u]
                                     /\ Holds(u)' <=> Holds(u)
                                     /\ Served(u)' <=> Served(u)
                                     /\ Leaving(u)' <=> Leaving(u)
                                     /\ InCS(u)' <=> InCS(u)
      /\ Holds(t) /\ ~ Holds(t)' /\ Served(t) /\ ~ Served(t)' /\ InCS(t) /\ ~ InCS(t)'
      /\ ~ Leaving(t) /\ Leaving(t)'
      /\ sleeping' = {u \in Threads : pc'[u] = "asleep"}
  BY <1>1, <1>2, Moved DEF Holds, Served, Leaving, InCS
<1>5. ticket[t] = mem[TurnWord] /\ mem[TurnWord] < mem[NumberWord]
  BY <1>4 DEF TicketOwn
<1>6. mem'[TurnWord] = mem[TurnWord] + 1 /\ next'[t] = mem[TurnWord] + 1
  <2>1. mem[NumberWord] < Wrap /\ Wrap \in Nat
    BY TakenBound DEF TicketInv, Taken
  <2>2. mem[TurnWord] + 1 \in Nat /\ mem[TurnWord] + 1 < Wrap
    BY <1>5, <2>1
  <2>3. (mem[TurnWord] + 1) % Wrap = mem[TurnWord] + 1
    BY <2>1, <2>2, NoWrap
  <2>4. next'[t] = (mem[TurnWord] + 1) % Wrap
    BY <1>1
  <2>5. QED
    BY <1>3, <2>3, <2>4
<1>7. mem'[NumberWord] = mem[NumberWord] /\ mem'[CurrentWord] = mem[CurrentWord]
  BY <1>3
<1>8. next' \in [Threads -> Nat] /\ \A u \in Threads : u # t => next'[u] = next[u]
  BY <1>1, <1>6
<1>9. TicketType'
  BY <1>1, <1>3, <1>4, <1>6, <1>7, <1>8 DEF TicketType
<1>10. Taken' = Taken
  BY <1>1, <1>4, TakenKept
<1>11. mem'[TurnWord] <= mem'[NumberWord]
  BY <1>5, <1>6, <1>7
<1>12. TicketOwn(t)'
  <2>1. \A a : Late(t, a)' <=> Late(t, a)
    BY <1>3 DEF Kept
  <2>2. Once(t, CurrentWord)'
    BY <1>3, <2>1 DEF Late, Once
  <2>3. pc'[t] # "wait" /\ 1 <= next'[t] /\ next'[t] <= mem'[TurnWord]
    BY <1>4, <1>6
  <2>4. QED
    BY <1>3, <1>4, <2>1, <2>2, <2>3 DEF TicketOwn
\* Every other ticket is a later one.
<1>13. ASSUME NEW u \in Threads, u # t, Holds(u)
       PROVE  mem[TurnWord] < ticket[u] /\ ~ Served(u)
  <2>1. mem[TurnWord] <= ticket[u] /\ (Served(u) => ticket[u] = mem[TurnWord])
    BY <1>13 DEF TicketInv, TicketOwn
  <2>2. ticket[u] # ticket[t]
    BY <1>4, <1>13 DEF TicketInv
  <2>3. ticket[u] \in Nat
    OBVIOUS
  <2>4. QED
    BY <1>5, <2>1, <2>2, <2>3
<1>14. ASSUME NEW u \in Threads, u # t
       PROVE  TicketOwn(u)'
  <2>1. TicketOwn(u) /\ ticket[u] \in Nat /\ next[u] \in Nat
    BY DEF TicketInv
  <2>2. /\ Late(u, NumberWord)' <=> Late(u, NumberWord)
        /\ Late(u, TurnWord)' <=> Late(u, TurnWord)
        /\ Late(u, CurrentWord)' <=> Late(u, CurrentWord)
        /\ Once(u, CurrentWord)' <=> Once(u, CurrentWord)
        /\ Late(u, CurrentWord) => Read(u, CurrentWord)' = Read(u, CurrentWord)
    BY <1>3 DEF Kept
  <2>3. /\ ticket'[u] = ticket[u] /\ next'[u] = next[u] /\ seen'[u] = seen[u]
        /\ pc'[u] = pc[u]
    BY <1>1, <1>4, <1>8, <1>14
  <2>4. Holds(u) => mem'[TurnWord] <= ticket[u] /\ ~ Served(u)
    BY <1>6, <1>13, <1>14, <2>1
  <2>5. Leaving(u) => next[u] <= mem'[TurnWord]
    BY <1>6, <2>1 DEF TicketOwn
  <2>6. Served(u) => Holds(u)
    BY DEF Served, Holds
  <2>7. QED
    BY <1>4, <1>7, <1>14, <2>1, <2>2, <2>3, <2>4, <2>5, <2>6 DEF TicketOwn
<1>15. \A u, v \in Threads : Holds(u)' /\ Holds(v)' /\ ticket'[u] = ticket'[v] => u = v
  BY <1>1, <1>4 DEF TicketInv
<1>16. CurrentIsPast'
  <2>1. CASE mem[CurrentWord] = 0 \/ mem[CurrentWord] < mem[TurnWord]
    BY <1>6, <1>7, <2>1 DEF CurrentIsPast
  <2>2. CASE \E w \in Threads : InCS(w) /\ ticket[w] = mem[CurrentWord]
    <3>1. PICK w \in Threads : InCS(w) /\ ticket[w] = mem[CurrentWord]
      BY <2>2
    <3>2. ticket[w] = mem[TurnWord]
      BY <3>1 DEF InCS, Served, TicketInv, TicketOwn
    <3>3. mem'[CurrentWord] < mem'[TurnWord]
      BY <1>6, <1>7, <3>1, <3>2
    <3>4. QED
      BY <3>3 DEF CurrentIsPast
  <2>3. QED
    BY <2>1, <2>2 DEF CurrentIsPast
<1>17. Plain!NextIsAwake'
  <2>1. SUFFICES ASSUME NEW s \in sleeping', mem'[TurnWord] = ticket'[s]
                 PROVE  \E u \in Threads : Leaving(u)' /\ next'[u] = ticket'[s]
    BY DEF Plain!NextIsAwake, Leaving, TurnWord
  <2>2. QED
    BY <1>4, <1>6, <2>1
<1>18. QED
  BY <1>7, <1>9, <1>10, <1>11, <1>12, <1>14, <1>15, <1>16, <1>17 DEF TicketInv

\* An instruction of a ticket mutex.
LEMMA TicketStepInv ==
  ASSUME TicketInv, NEW t \in Threads, TicketStep(t)
  PROVE  TicketInv'
BY TicketTakeInv, TicketReadInv, TicketWaitInv, TicketSpuriousInv, TicketSetInv,
   TicketCountInv, TicketAdvanceInv, TicketTestInv, TicketLeaveInv, TicketWakeInv
DEF TicketStep

\* A store of thread t reaches memory: to the counter, or to futex->current while
\* the thread is inside.
LEMMA TicketDrain ==
  ASSUME TicketInv, NEW t \in Threads, Flush(t),
         UNCHANGED <<pc, iter, ticket, seen, next, sleeping>>
  PROVE  TicketInv'
<1> USE TicketOf, TicketFacts
<1>1. /\ TSOType(TicketWords, BufferSize)'
      /\ \A u \in Threads : \A a : u # t => Kept(u, a)
      /\ \A a \in TicketWords :
           /\ Once(t, a) => Once(t, a)'
           /\ Read(t, a)' = Read(t, a)
           /\ Late(t, a)' => Late(t, a)
           /\ \/ mem'[a] = mem[a] /\ (Late(t, a)' <=> Late(t, a))
              \/ /\ Late(t, a)
                 /\ Once(t, a) => ~ Late(t, a)' /\ mem'[a] = Read(t, a)
  BY FlushEffect
<1>2. mem'[NumberWord] = mem[NumberWord] /\ mem'[TurnWord] = mem[TurnWord]
  BY <1>1 DEF TicketOwn
<1>3. \/ mem'[CurrentWord] = mem[CurrentWord]
      \/ InCS(t) /\ mem'[CurrentWord] = ticket[t]
  BY <1>1 DEF TicketOwn
<1>4. mem'[CurrentWord] \in Nat
  BY <1>3
<1>5. TicketType'
  BY <1>1, <1>2, <1>4 DEF TicketType
<1>6. \A u \in Threads : /\ Holds(u)' <=> Holds(u)
                         /\ Served(u)' <=> Served(u)
                         /\ Leaving(u)' <=> Leaving(u)
                         /\ InCS(u)' <=> InCS(u)
  BY DEF Holds, Served, Leaving, InCS
<1>7. TicketOwn(t)'
  <2>1. /\ ~ Late(t, NumberWord)' /\ ~ Late(t, TurnWord)' /\ Once(t, CurrentWord)'
        /\ Late(t, CurrentWord)' => Late(t, CurrentWord)
        /\ Read(t, CurrentWord)' = Read(t, CurrentWord)
    BY <1>1 DEF TicketOwn
  <2>2. QED
    BY <1>2, <1>6, <2>1 DEF TicketOwn
<1>8. Taken' = Taken
  BY TakenKept
<1>9. CurrentIsPast'
  <2>1. CASE mem'[CurrentWord] = mem[CurrentWord]
    BY <1>2, <1>6, <2>1, CurrentKept
  <2>2. CASE InCS(t) /\ mem'[CurrentWord] = ticket[t]
    BY <1>6, <2>2 DEF CurrentIsPast
  <2>3. QED
    BY <1>3, <2>1, <2>2
<1>10. Plain!NextIsAwake'
  BY <1>2, <1>6, AwakeKept
<1>11. QED
  BY <1>1, <1>2, <1>5, <1>6, <1>7, <1>8, <1>9, <1>10, TicketMove

\* A step that leaves the variables of the ticket mutexes alone.
LEMMA TicketStutter ==
  ASSUME TicketInv, UNCHANGED <<memvars, pc, iter, ticket, seen, next, sleeping>>
  PROVE  TicketInv'
<1>1. /\ \A A, n : TSOType(A, n) => TSOType(A, n)'
      /\ mem' = mem
      /\ \A u, b : Kept(u, b)
  BY NoEffect
<1>2. TicketType'
  BY <1>1 DEF TicketType, TicketInv
<1>3. \A u \in Threads : /\ Holds(u)' <=> Holds(u)
                         /\ Served(u)' <=> Served(u)
                         /\ Leaving(u)' <=> Leaving(u)
                         /\ InCS(u)' <=> InCS(u)
  BY DEF Holds, Served, Leaving, InCS
<1>4. ASSUME NEW u \in Threads
      PROVE  TicketOwn(u)'
  <2>1. TicketOwn(u)
    BY DEF TicketInv
  <2>2. pc'[u] = "wait" => seen'[u] # ticket'[u]
    BY <2>1 DEF TicketOwn
  <2>3. QED
    BY <1>1, <1>3, <2>1, <2>2, OwnKept
<1>5. Taken' = Taken
  BY TakenKept
<1>6. CurrentIsPast'
  BY <1>1, <1>3, CurrentKept DEF TicketInv
<1>7. Plain!NextIsAwake'
  BY <1>1, <1>3, AwakeKept DEF TicketInv
<1>8. QED
  BY <1>1, <1>2, <1>3, <1>4, <1>5, <1>6, <1>7 DEF TicketInv

\* One thread inside: all have the turn for a ticket, and no two the same ticket.
LEMMA TicketSafe ==
  ASSUME TicketInv
  PROVE  /\ \A s, t \in Threads : InCS(s) /\ InCS(t) => s = t
         /\ Plain!NextIsAwake
<1>1. \A s \in Threads : InCS(s) => Holds(s) /\ ticket[s] = mem[TurnWord]
  BY DEF TicketInv, TicketOwn, InCS, Holds, Served
<1>2. QED
  BY <1>1 DEF TicketInv

\* Whoever gets in has the turn for a ticket, and those that wait have later ones.
LEMMA TicketFirst ==
  ASSUME TicketInv, NEW u \in Threads, TicketStep(u)
  PROVE  Plain!SmallerTicketFirst
<1> SUFFICES ASSUME NEW s \in Threads, NEW t \in Threads,
                    pc[t] \in {"turn", "current"}, pc'[t] \in {"current", "load"},
                    s # t, pc[s] \in {"turn", "wait", "asleep"}
             PROVE  ticket[t] < ticket[s]
  BY DEF Plain!SmallerTicketFirst
<1>1. /\ pc \in [Threads -> TicketLabels]
      /\ sleeping = {v \in Threads : pc[v] = "asleep"}
      /\ ticket[s] \in Nat /\ ticket[t] \in Nat
      /\ TicketOwn(s) /\ TicketOwn(t) /\ Read(t, TurnWord) = mem[TurnWord]
      /\ mem[TurnWord] \in Nat
  BY TicketOf
<1>2. mem[TurnWord] <= ticket[s] /\ ticket[s] # ticket[t]
  BY <1>1 DEF TicketInv, TicketOwn, Holds
<1>3. CASE pc[t] = "current"
  BY <1>1, <1>2, <1>3 DEF TicketOwn, Served
<1>4. CASE pc[t] = "turn"
  <2>1. ASSUME u # t
        PROVE  pc'[t] \in {pc[t], "turn"}
    <3>1. CASE TicketWake(u)
      BY <2>1, <3>1 DEF TicketWake
    <3>2. CASE ~ TicketWake(u)
      <4>1. \E l : Moves(u, l)
        BY <3>2 DEF TicketStep, TicketTake, TicketRead, TicketWait, TicketSpurious, TicketSet,
                    TicketCount, TicketAdvance, TicketTest, TicketLeave
      <4>2. QED
        BY <1>1, <2>1, <4>1 DEF Moves
    <3>3. QED
      BY <3>1, <3>2
  <2>2. u = t
    BY <1>4, <2>1
  <2>3. TicketRead(t) \/ TicketSpurious(t)
    BY <1>4, <2>2 DEF TicketStep, TicketTake, TicketWait, TicketSet, TicketCount,
                      TicketAdvance, TicketTest, TicketLeave, TicketWake
  <2>4. ~ TicketSpurious(t)
    BY <1>1, <1>4 DEF TicketSpurious
  <2>5. Read(t, TurnWord) = ticket[t]
    BY <1>1, <2>3, <2>4 DEF TicketRead, Moves
  <2>6. QED
    BY <1>1, <1>2, <2>5
<1>5. QED
  BY <1>3, <1>4

\* Other steps let nobody in.
LEMMA NobodyEnters ==
  ASSUME TicketInv, UNCHANGED pc
  PROVE  Plain!SmallerTicketFirst
<1> SUFFICES ASSUME NEW s \in Threads, NEW t \in Threads, pc[t] = "current",
                    s # t, pc[s] \in {"turn", "wait", "asleep"}
             PROVE  ticket[t] < ticket[s]
  BY DEF Plain!SmallerTicketFirst
<1>1. /\ ticket[s] \in Nat /\ ticket[t] \in Nat /\ mem[TurnWord] \in Nat
      /\ TicketOwn(s) /\ TicketOwn(t)
  BY TicketOf
<1>2. mem[TurnWord] <= ticket[s] /\ ticket[s] # ticket[t] /\ ticket[t] = mem[TurnWord]
  BY <1>1 DEF TicketInv, TicketOwn, Holds, Served
<1>3. QED
  BY <1>1, <1>2

-----------------------------------------------------------------------------
(* The seven programs together *)

ClassicInv == /\ program \in {"peterson", "bakery", "fast", "simple"} \cup Tickets
              /\ program = "peterson" => PetersonInv
              /\ program = "bakery" => BakeryInv
              /\ program = "fast" => FastInv
              /\ program = "simple" => SimpleInv
              /\ program \in Tickets => TicketInv

\* Each program starts in its own invariant.
LEMMA ClassicInit == MCInit => ClassicInv
BY PetersonInit, BakeryInit, FastInit, SimpleInit, TicketInit
DEF MCInit, ClassicInv, Tickets

\* A step of Peterson's algorithm.
LEMMA PetersonKeeps ==
  ASSUME PetersonInv, P!Next
  PROVE  PetersonInv'
<1>1. CASE P!Join
  BY <1>1, PetersonStutter DEF P!Join, P!Joined, P!loopvars, P!memvars, memvars
<1>2. QED
  BY <1>1, PetersonStep, PetersonDrain DEF P!Next

\* A step of the bakery algorithm.
LEMMA BakeryKeeps ==
  ASSUME BakeryInv, B!Next
  PROVE  BakeryInv'
<1>1. CASE B!Join
  BY <1>1, BakeryStutter DEF B!Join, B!Joined, B!loopvars, B!memvars, memvars
<1>2. QED
  BY <1>1, BakeryStep, BakeryDrain DEF B!Next

\* A step of the fast mutex.
LEMMA FastKeeps ==
  ASSUME FastInv, F!Next
  PROVE  FastInv'
<1>1. CASE F!Join
  BY <1>1, FastStutter DEF F!Join, F!Joined, F!loopvars, F!memvars, memvars
<1>2. QED
  BY <1>1, FastStep, FastDrain DEF F!Next

\* A step of the simple futex mutex.
LEMMA SimpleKeeps ==
  ASSUME SimpleInv, Simple!Next
  PROVE  SimpleInv'
<1>1. CASE Simple!Join
  BY <1>1, SimpleStutter
  DEF Simple!Join, Simple!Joined, Simple!loopvars, Simple!memvars, memvars
<1>2. QED
  BY <1>1, SimpleStep, SimpleDrain DEF Simple!Next

\* A step of the ticket mutex that wakes everyone.
LEMMA PlainKeeps ==
  ASSUME TicketInv, Plain!Next
  PROVE  TicketInv'
<1>1. CASE Plain!Join
  BY <1>1, TicketStutter
  DEF Plain!Join, Plain!Joined, Plain!loopvars, Plain!memvars, memvars, Plain!locals
<1>2. ASSUME NEW t \in Threads, Plain!DrainStep(t)
      PROVE  TicketInv'
  BY <1>2, TicketDrain, PlainOperators
  DEF Plain!DrainStep, Plain!Drain, Plain!loopvars, Plain!locals
<1>3. QED
  BY <1>1, <1>2, PlainSteps, TicketStepInv DEF Plain!Next

\* A step of the ticket mutex that wakes the waiters of one bit.
LEMMA BitsetKeeps ==
  ASSUME TicketInv, Bitset!Next
  PROVE  TicketInv'
<1>1. CASE Bitset!Join
  BY <1>1, TicketStutter
  DEF Bitset!Join, Bitset!Joined, Bitset!loopvars, Bitset!memvars, memvars, Bitset!locals
<1>2. ASSUME NEW t \in Threads, Bitset!DrainStep(t)
      PROVE  TicketInv'
  BY <1>2, TicketDrain, BitsetOperators
  DEF Bitset!DrainStep, Bitset!Drain, Bitset!loopvars, Bitset!locals
<1>3. QED
  BY <1>1, <1>2, BitsetSteps, TicketStepInv DEF Bitset!Next

\* A step of the ticket mutex that spins.
LEMMA SpinKeeps ==
  ASSUME TicketInv, Spin!Next
  PROVE  TicketInv'
<1>1. CASE Spin!Join
  BY <1>1, TicketStutter
  DEF Spin!Join, Spin!Joined, Spin!loopvars, Spin!memvars, memvars, Spin!locals
<1>2. ASSUME NEW t \in Threads, Spin!DrainStep(t)
      PROVE  TicketInv'
  BY <1>2, TicketDrain, SpinOperators
  DEF Spin!DrainStep, Spin!Drain, Spin!loopvars, Spin!locals
<1>3. QED
  BY <1>1, <1>2, SpinSteps, TicketStepInv DEF Spin!Next

\* Only the program that main has started takes steps.
LEMMA ClassicStep ==
  ASSUME ClassicInv, [MCNext]_mcvars
  PROVE  ClassicInv'
<1>1. CASE MCNext
  <2>1. program' = program
    BY <1>1 DEF MCNext, Frame
  <2>2. program = "peterson" => PetersonInv'
    BY <1>1, PetersonKeeps DEF ClassicInv, MCNext
  <2>3. program = "bakery" => BakeryInv'
    BY <1>1, BakeryKeeps DEF ClassicInv, MCNext
  <2>4. program = "fast" => FastInv'
    BY <1>1, FastKeeps DEF ClassicInv, MCNext
  <2>5. program = "simple" => SimpleInv'
    BY <1>1, SimpleKeeps DEF ClassicInv, MCNext
  <2>6. program \in Tickets => TicketInv'
    BY <1>1, PlainKeeps, BitsetKeeps, SpinKeeps DEF ClassicInv, MCNext, Tickets
  <2>7. QED
    BY <2>1, <2>2, <2>3, <2>4, <2>5, <2>6 DEF ClassicInv
<1>2. CASE UNCHANGED mcvars
  <2>1. /\ program' = program /\ UNCHANGED memvars
        /\ UNCHANGED <<pc, iter, j, max, sleeping, ticket, seen, next>>
    BY <1>2 DEF mcvars, loopvars, scanvars, ticketvars
  <2>2. QED
    BY <2>1, PetersonStutter, BakeryStutter, FastStutter, SimpleStutter, TicketStutter
    DEF ClassicInv
<1>3. QED
  BY <1>1, <1>2

\* The seven invariants hold in every reachable state.
LEMMA ClassicInvariant == MCSpec => []ClassicInv
<1>1. MCInit => ClassicInv
  BY ClassicInit
<1>2. ClassicInv /\ [MCNext]_mcvars => ClassicInv'
  BY ClassicStep
<1>3. QED
  BY <1>1, <1>2, PTL DEF MCSpec

\* lock() of each of the seven programs lets one thread in at a time: whatever the
\* number of threads and of iterations and, but for the bakery algorithm and the
\* simple mutex, whatever the number of stores that a processor holds back.
THEOREM OneThreadInsideHolds == MCSpec => []OneThreadInside
<1>1. ClassicInv => OneThreadInside
  <2>1. CASE program = "peterson"
    BY <2>1, PetersonSafe DEF ClassicInv, OneThreadInside, P!MutualExclusion, InCS
  <2>2. CASE program # "peterson"
    BY <2>2, BakerySafe, FastSafe, SimpleSafe, TicketSafe
    DEF ClassicInv, OneThreadInside, MutualExclusion, InCS
  <2>3. QED
    BY <2>1, <2>2
<1>2. QED
  BY <1>1, ClassicInvariant, PTL

\* A thread that is inside is visible to the others: in the bakery algorithm to
\* those it has passed in its waiting loop, which stay behind it, and in the fast
\* mutex to everyone, as memory says y >= 0.
THEOREM InsideIsVisibleHolds == MCSpec => []InsideIsVisible
<1>1. ClassicInv => InsideIsVisible
  BY BakerySafe, FastSafe DEF ClassicInv, InsideIsVisible, F!InsideIsVisible, InCS
<1>2. QED
  BY <1>1, ClassicInvariant, PTL

\* No futex mutex forgets a sleeper: while the simple one is free and threads
\* sleep, one is on its way to wake them or to take it, and in a ticket mutex the
\* thread whose turn it is sleeps only until the unlock() that served it wakes it.
THEOREM SleepersAreWokenHolds == MCSpec => []SleepersAreWoken
<1>1. ClassicInv => SleepersAreWoken
  BY SimpleSafe, TicketSafe DEF ClassicInv, SleepersAreWoken
<1>2. QED
  BY <1>1, ClassicInvariant, PTL

\* A step of a ticket mutex respects the tickets.
LEMMA TicketNext ==
  ASSUME TicketInv, Plain!Next \/ Bitset!Next \/ Spin!Next
  PROVE  Plain!SmallerTicketFirst
<1>1. CASE Plain!Next
  <2>1. CASE \E t \in Threads : Plain!Step(t) \/ Plain!SpuriousWake(t)
    BY <2>1, PlainSteps, TicketFirst
  <2>2. CASE (\E t \in Threads : Plain!DrainStep(t)) \/ Plain!Join
    BY <2>2, NobodyEnters
    DEF Plain!DrainStep, Plain!Drain, Plain!Join, Plain!Joined, Plain!loopvars
  <2>3. QED
    BY <1>1, <2>1, <2>2 DEF Plain!Next
<1>2. CASE Bitset!Next
  <2>1. CASE \E t \in Threads : Bitset!Step(t) \/ Bitset!SpuriousWake(t)
    BY <2>1, BitsetSteps, TicketFirst
  <2>2. CASE (\E t \in Threads : Bitset!DrainStep(t)) \/ Bitset!Join
    BY <2>2, NobodyEnters
    DEF Bitset!DrainStep, Bitset!Drain, Bitset!Join, Bitset!Joined, Bitset!loopvars
  <2>3. QED
    BY <1>2, <2>1, <2>2 DEF Bitset!Next
<1>3. CASE Spin!Next
  <2>1. CASE \E t \in Threads : Spin!Step(t) \/ Spin!SpuriousWake(t)
    BY <2>1, SpinSteps, TicketFirst
  <2>2. CASE (\E t \in Threads : Spin!DrainStep(t)) \/ Spin!Join
    BY <2>2, NobodyEnters
    DEF Spin!DrainStep, Spin!Drain, Spin!Join, Spin!Joined, Spin!loopvars
  <2>3. QED
    BY <1>3, <2>1, <2>2 DEF Spin!Next
<1>4. QED
  BY <1>1, <1>2, <1>3

\* Nobody is overtaken: in Peterson's algorithm a thread that waits with the turn
\* gets in before the other, and in a ticket mutex no thread gets in while one with
\* a smaller ticket waits, asleep or not.
THEOREM NobodyOvertakesHolds == MCSpec => NobodyOvertakes
<1> DEFINE Fair == /\ program = "peterson" => P!TurnGoesFirst
                   /\ program \in Tickets => Plain!SmallerTicketFirst
<1>1. ASSUME ClassicInv, MCNext
      PROVE  Fair
  <2>1. CASE program = "peterson"
    BY <1>1, <2>1, PetersonTurnFirst DEF ClassicInv, MCNext, Tickets
  <2>2. CASE program \in Tickets
    BY <1>1, <2>2, TicketNext DEF ClassicInv, MCNext, Tickets
  <2>3. QED
    BY <2>1, <2>2
<1>2. ClassicInv /\ [MCNext]_mcvars => [Fair]_mcvars
  BY <1>1
<1> HIDE DEF Fair
<1>3. MCSpec => [][Fair]_mcvars
  BY <1>2, ClassicInvariant, PTL DEF MCSpec
<1>4. QED
  BY <1>3 DEF Fair, NobodyOvertakes
=============================================================================
