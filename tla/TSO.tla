-------------------------------- MODULE TSO --------------------------------
(***************************************************************************)
(* The memory of the x86_64 build, for the programs that synchronise with  *)
(* plain loads and stores.  Each processor has a FIFO store buffer: a      *)
(* store enters it, a load returns the newest buffered store to its        *)
(* address or else the memory, the buffer drains one store at a time at    *)
(* any moment, and a full fence (mfence, a locked instruction, a system    *)
(* call) waits for it to be empty.  __ATOMIC_RELEASE fences and stores     *)
(* compile to nothing more than the plain instruction.  BufferSize = 0     *)
(* gives sequential consistency.  One store may cover several words that   *)
(* are also accessed on their own, as a 32-bit store covers two 16-bit     *)
(* halves: a store is a function from words to values.                     *)
(***************************************************************************)
EXTENDS Naturals, Sequences

CONSTANTS
  Threads,      \* one processor for each thread
  BufferSize    \* stores a processor can hold back

ASSUME BufferAssumption == BufferSize \in Nat

VARIABLES
  mem,          \* the shared memory
  buf           \* buf[t]: the stores of t that memory has not seen

memvars == <<mem, buf>>

MemInit(initial) == mem = initial /\ buf = [t \in Threads |-> <<>>]

\* The memory m after the store w.
Stored(m, w) == [a \in DOMAIN m |-> IF a \in DOMAIN w THEN w[a] ELSE m[a]]

\* The stores to address a in the buffer of t.
Pending(t, a) == {k \in 1 .. Len(buf[t]) : a \in DOMAIN buf[t][k]}

\* What a load of address a by t returns.
Read(t, a) ==
  IF Pending(t, a) = {} THEN mem[a]
  ELSE buf[t][CHOOSE k \in Pending(t, a) : \A l \in Pending(t, a) : l <= k][a]

\* A plain (or release) store of several words at once, and of one.
WriteAll(t, w) ==
  IF BufferSize = 0
    THEN mem' = Stored(mem, w) /\ UNCHANGED buf
    ELSE /\ Len(buf[t]) < BufferSize
         /\ buf' = [buf EXCEPT ![t] = Append(@, w)]
         /\ UNCHANGED mem

Write(t, a, v) == WriteAll(t, [x \in {a} |-> v])

Drained(t) == buf[t] = <<>>

\* The oldest buffered store of t reaches memory.
Flush(t) == /\ ~ Drained(t)
            /\ mem' = Stored(mem, Head(buf[t]))
            /\ buf' = [buf EXCEPT ![t] = Tail(@)]

\* A locked read-modify-write: drains the buffer, then acts on memory.
Update(t, a, v) == /\ Drained(t)
                   /\ mem' = [mem EXCEPT ![a] = v]
                   /\ UNCHANGED buf
=============================================================================
