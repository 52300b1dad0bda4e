------------------------------ MODULE Wrappers ------------------------------
(***************************************************************************)
(* The typed accesses of tinySTM (src/wrappers.c).  The transactional      *)
(* memory only reads and writes whole aligned words of sizeof(stm_word_t)  *)
(* bytes, with a mask for the stores; the wrappers make of them accesses   *)
(* to bytes, to 16, 32 and 64 bit integers at any address, to pointers and *)
(* to ranges of bytes, on machines whose words and longs have 4 or 8 bytes.*)
(*                                                                         *)
(* One transaction runs alone here: its view of memory, cells, is a        *)
(* function from addresses to bytes.  expected is the same memory kept by  *)
(* the definition of each access, byte by byte.  The bytes of a value are  *)
(* told apart by the access that stored them and their place in it.        *)
(***************************************************************************)
EXTENDS Integers, Sequences, SequencesExt

CONSTANTS WordSizes,     \* the possible sizeof(stm_word_t)
          LongSizes,     \* the possible sizeof(long)
          Bytes,         \* the bytes of the memory under test
          MaxSize,       \* the largest size or count of a range
          MaxAccesses    \* accesses of the transaction

VARIABLES machine,    \* [word, long]: sizeof(stm_word_t), sizeof(long)
          cells,      \* the memory, as the transaction sees it
          expected,   \* the memory the accesses are meant to produce
          result,     \* what the last access returned
          meant,      \* what it was meant to return
          aligned,    \* every word asked of the STM was an aligned word
          accesses    \* accesses so far

wrapvars == <<machine, cells, expected, result, meant, aligned, accesses>>

Memory == 0 .. Bytes - 1

W == machine.word

\* A byte of an uninitialised union member.
Garbage == -1

\* The byte that access number accesses + 1 stores at place i of its value.
Fresh(i) == (accesses + 1) * 100 + i

-----------------------------------------------------------------------------
(* Word accesses: [base, val, mask], a mask being the bytes it selects.     *)

WordOf(addr) == W * (addr \div W)

\* TM_STORE2: the masked bytes of one word.
StoreWord(m, w) ==
    [x \in Memory |-> IF x - w.base \in w.mask THEN w.val[x - w.base] ELSE m[x]]

\* TM_LOAD: one whole word.
LoadWord(m, base) == [i \in 0 .. W - 1 |-> m[base + i]]

StoreWords(m, words) == FoldLeft(StoreWord, m, words)

IsWord(base) == base % W = 0 /\ base + W <= Bytes

-----------------------------------------------------------------------------
(* Ranges of bytes: what is before the first word border, the full words    *)
(* and what is left.                                                        *)

FirstBytes(addr, size) == LET i == addr % W
                    IN  IF i = 0 THEN 0 ELSE IF size < W - i THEN size ELSE W - i

\* The first of the full words.
AfterHead(addr) == WordOf(addr + W - 1)

Full(addr, size) == (size - FirstBytes(addr, size)) \div W

LastBytes(addr, size) == (size - FirstBytes(addr, size)) % W

\* The pieces of a range: [base, first, n] is n bytes of the word at base
\* from its byte first on.
Pieces(addr, size) ==
    LET head == FirstBytes(addr, size)
        full == Full(addr, size)
        last == LastBytes(addr, size)
    IN  (IF head = 0 THEN <<>>
         ELSE <<[base |-> WordOf(addr), first |-> addr % W, n |-> head]>>)
        \o [k \in 1 .. full |->
              [base |-> AfterHead(addr) + (k - 1) * W, first |-> 0, n |-> W]]
        \o (IF last = 0 THEN <<>>
            ELSE <<[base |-> AfterHead(addr) + full * W, first |-> 0, n |-> last]>>)

Mask(p) == p.first .. p.first + p.n - 1

\* stm_load_bytes(): the bytes of the pieces one after the other.
stm_load_bytes(addr, size) ==
    LET piece(buf, p) == LET word == LoadWord(cells, p.base)
                         IN  buf \o [i \in 1 .. p.n |-> word[p.first + i - 1]]
    IN  FoldLeft(piece, <<>>, Pieces(addr, size))

\* The words that it loads.
PieceWords(addr, size) == {p.base : p \in Range(Pieces(addr, size))}

\* stm_store_bytes(): val and mask are cleared before the partial words.
stm_store_bytes(addr, buf) ==
    LET word(ws, p) ==
            LET done == FoldLeft(LAMBDA s, w : s + w.n, 0, ws)
            IN  Append(ws, [base |-> p.base, n |-> p.n, mask |-> Mask(p),
                            val  |-> [i \in 0 .. W - 1 |->
                                        IF i \in Mask(p)
                                        THEN buf[done + i - p.first + 1] ELSE 0]])
    IN  FoldLeft(word, <<>>, Pieces(addr, Len(buf)))

\* stm_set_bytes(): every word holds the byte everywhere, the mask selects.
stm_set_bytes(addr, byte, count) ==
    LET ps == Pieces(addr, count)
    IN  [k \in 1 .. Len(ps) |->
           [base |-> ps[k].base, mask |-> Mask(ps[k]), val |-> [i \in 0 .. W - 1 |-> byte]]]

-----------------------------------------------------------------------------
(* Integers of n bytes: int_stm_load_u8 .. u64 and int_stm_store_u8 .. u64. *)

int_stm_load(n, addr) ==
    IF addr % n # 0
    THEN stm_load_bytes(addr, n)
    ELSE IF n > W
    THEN LET lo == LoadWord(cells, addr)
             hi == LoadWord(cells, addr + W)
         IN  [i \in 1 .. n |-> IF i <= W THEN lo[i - 1] ELSE hi[i - W - 1]]
    ELSE LET word == LoadWord(cells, WordOf(addr))
             slot == (addr % W) \div n
         IN  [i \in 1 .. n |-> word[slot * n + i - 1]]

\* The words that it loads.
IntegerWords(n, addr) ==
    IF addr % n # 0 THEN PieceWords(addr, n)
    ELSE IF n > W THEN {addr, addr + W} ELSE {WordOf(addr)}

\* Mutant: the mask of a masked integer covers the whole word.
int_stm_store_unmasked(n, addr, value) ==
    IF addr % n # 0
    THEN stm_store_bytes(addr, value)
    ELSE <<[base |-> WordOf(addr), mask |-> 0 .. W - 1,
            val  |-> [i \in 0 .. W - 1 |->
                        IF i - (addr % W) \in 0 .. n - 1
                        THEN value[i - (addr % W) + 1] ELSE Garbage]]>>

\* Only the selected part of the union is assigned.
int_stm_store(n, addr, value) ==
    IF addr % n # 0
    THEN stm_store_bytes(addr, value)
    ELSE IF n > W
    THEN [k \in 1 .. n \div W |->
            [base |-> addr + (k - 1) * W, mask |-> 0 .. W - 1,
             val  |-> [i \in 0 .. W - 1 |-> value[(k - 1) * W + i + 1]]]]
    ELSE LET from == ((addr % W) \div n) * n
         IN  <<[base |-> WordOf(addr), mask |-> from .. from + n - 1,
                val  |-> [i \in 0 .. W - 1 |->
                            IF i \in from .. from + n - 1
                            THEN value[i - from + 1] ELSE Garbage]]>>

\* The integer each typed wrapper uses; long has the machine's size.
TypeSize == [u8 |-> 1, u16 |-> 2, u32 |-> 4, u64 |-> 8,
             char |-> 1, uchar |-> 1, short |-> 2, ushort |-> 2, int |-> 4, uint |-> 4,
             float |-> 4, double |-> 8, long |-> machine.long, ulong |-> machine.long]

Fits(addr, n) == n <= Bytes - addr

-----------------------------------------------------------------------------
\* One access that stores the words ws over the n bytes from addr, which
\* are meant to become value.
Stores(ws, addr, value) ==
    /\ accesses < MaxAccesses
    /\ accesses' = accesses + 1
    /\ cells' = StoreWords(cells, ws)
    /\ aligned' = (aligned /\ \A k \in DOMAIN ws : IsWord(ws[k].base))
    /\ expected' = [x \in Memory |-> IF x - addr + 1 \in DOMAIN value
                                     THEN value[x - addr + 1] ELSE expected[x]]
    /\ UNCHANGED <<machine, result, meant>>

\* One access that loads the words at bases for n bytes from addr.
Loads(bases, buf, addr, n) ==
    /\ accesses < MaxAccesses
    /\ accesses' = accesses + 1
    /\ result' = buf
    /\ meant' = [i \in 1 .. n |-> expected[addr + i - 1]]
    /\ aligned' = (aligned /\ \A base \in bases : IsWord(base))
    /\ UNCHANGED <<machine, cells, expected>>

TypedStore == \E type \in DOMAIN TypeSize, addr \in Memory :
    LET n     == TypeSize[type]
        value == [i \in 1 .. n |-> Fresh(i)]
    IN  /\ Fits(addr, n)
        /\ Stores(int_stm_store(n, addr, value), addr, value)

TypedLoad == \E type \in DOMAIN TypeSize, addr \in Memory :
    /\ Fits(addr, TypeSize[type])
    /\ Loads(IntegerWords(TypeSize[type], addr), int_stm_load(TypeSize[type], addr),
             addr, TypeSize[type])

\* Pointers are words, and are only stored at aligned addresses.
stm_store_ptr == \E addr \in Memory :
    LET value == [i \in 1 .. W |-> Fresh(i)]
    IN  /\ IsWord(addr)
        /\ Stores(<<[base |-> addr, mask |-> 0 .. W - 1,
                     val |-> [i \in 0 .. W - 1 |-> value[i + 1]]]>>, addr, value)

stm_load_ptr == \E addr \in Memory :
    /\ IsWord(addr)
    /\ LET word == LoadWord(cells, addr)
       IN  Loads({addr}, [i \in 1 .. W |-> word[i - 1]], addr, W)

StoreBytes == \E addr \in Memory, size \in 0 .. MaxSize :
    LET buf == [i \in 1 .. size |-> Fresh(i)]
    IN  Fits(addr, size) /\ Stores(stm_store_bytes(addr, buf), addr, buf)

LoadBytes == \E addr \in Memory, size \in 0 .. MaxSize :
    Fits(addr, size) /\ Loads(PieceWords(addr, size), stm_load_bytes(addr, size), addr, size)

SetBytes == \E addr \in Memory, count \in 0 .. MaxSize :
    /\ Fits(addr, count)
    /\ Stores(stm_set_bytes(addr, Fresh(1), count), addr, [i \in 1 .. count |-> Fresh(1)])

WrapInit ==
    /\ machine \in [word : WordSizes, long : LongSizes]
    /\ cells = [x \in Memory |-> x]
    /\ expected = cells
    /\ result = <<>> /\ meant = <<>>
    /\ aligned = TRUE
    /\ accesses = 0

WrapNext == TypedStore \/ TypedLoad \/ stm_store_ptr \/ stm_load_ptr
            \/ StoreBytes \/ LoadBytes \/ SetBytes

WrapOver == accesses = MaxAccesses

-----------------------------------------------------------------------------
\* A store writes exactly its own bytes, a load returns them, and the STM is
\* only asked for aligned words: an unassigned byte of the union never
\* reaches memory and no neighbour of a masked store changes
\* (int_stm_load_*, int_stm_store_*, stm_load_bytes(), stm_store_bytes(),
\* stm_set_bytes(); the assertions on addr in stm_write() and stm_read()).
BytesAreExact == cells = expected /\ result = meant /\ aligned
=============================================================================
