---------------------------- MODULE ValueEncoding ----------------------------
(***************************************************************************)
(* How values become the bytes of registers and coils and come back        *)
(* (src/internal/modbus/encoding.go).  A value of 16, 32 or 64 bits, or    *)
(* the bits of a float, is the sequence of its bytes from the most to the  *)
(* least significant one; a byte of coils is a function of its bits.       *)
(***************************************************************************)
EXTENDS Naturals, Sequences

\* Endianness and WordOrder.
BIG_ENDIAN == 1
LITTLE_ENDIAN == 2
HIGH_WORD_FIRST == 1
LOW_WORD_FIRST == 2
Orders == {1, 2}

Byte == 0..255
Value16 == [1..2 -> Byte]
Wide == [1..4 -> Byte] \cup [1..8 -> Byte]

LittleEndian(b) == [i \in 1..Len(b) |-> b[Len(b) + 1 - i]]

\* The last two bytes first, and so on: two swaps of words.
SwapWords(b) == [i \in 1..Len(b) |-> b[IF i % 2 = 1 THEN Len(b) - i ELSE Len(b) - i + 2]]

uint16ToBytes(endianness, v) == IF endianness = BIG_ENDIAN THEN v ELSE LittleEndian(v)
bytesToUint16(endianness, b) == IF endianness = BIG_ENDIAN THEN b ELSE LittleEndian(b)

\* Mutant: only big endian swaps.
Swaps_BigOnly(endianness, wordOrder) == endianness = BIG_ENDIAN /\ wordOrder = LOW_WORD_FIRST

\* Each byte order brings a word order of its own.
Swaps(endianness, wordOrder) ==
  \/ endianness = BIG_ENDIAN /\ wordOrder = LOW_WORD_FIRST
  \/ endianness = LITTLE_ENDIAN /\ wordOrder = HIGH_WORD_FIRST

\* uint32ToBytes and uint64ToBytes; the order of bytes comes first, then the swap.
wideToBytes(endianness, wordOrder, v) ==
  LET out == uint16ToBytes(endianness, v)
  IN  IF Swaps(endianness, wordOrder) THEN SwapWords(out) ELSE out

\* bytesToUint32s and bytesToUint64s, of one value; the swap comes first.
bytesToWide(endianness, wordOrder, b) ==
  bytesToUint16(endianness, IF Swaps(endianness, wordOrder) THEN SwapWords(b) ELSE b)

\* The loops of WriteUint32s and its likes append one value after the other.
widesToBytes(size, endianness, wordOrder, vs) ==
  [i \in 1..(size * Len(vs)) |->
     wideToBytes(endianness, wordOrder, vs[(i - 1) \div size + 1])[((i - 1) % size) + 1]]

\* The n-th of the values of so many bytes each.
NthOf(size, b, n) == SubSeq(b, (n - 1) * size + 1, n * size)
bytesToWides(size, endianness, wordOrder, b) ==
  [n \in 1..(Len(b) \div size) |-> bytesToWide(endianness, wordOrder, NthOf(size, b, n))]

ByteCount(n) == n \div 8 + (IF n % 8 # 0 THEN 1 ELSE 0)

\* Bit k of byte i, from 0 and from 1.
encodeBools(v) ==
  [i \in 1..ByteCount(Len(v)) |->
     [k \in 0..7 |-> 8 * (i - 1) + k + 1 \in DOMAIN v /\ v[8 * (i - 1) + k + 1]]]
decodeBools(quantity, b) ==
  [i \in 1..quantity |-> b[(i - 1) \div 8 + 1][(i - 1) % 8]]

-----------------------------------------------------------------------------
(* What they are to be.                                                    *)

\* Register r of so many, from the high one if that is first; its high byte first if
\* the order is big endian.
Registers(endianness, wordOrder, v) ==
  [i \in 1..Len(v) |->
     LET words == Len(v) \div 2
         r == (i + 1) \div 2
         word == IF wordOrder = HIGH_WORD_FIRST THEN r ELSE words + 1 - r
         high == (i % 2 = 1) = (endianness = BIG_ENDIAN)
     IN  v[2 * word - (IF high THEN 1 ELSE 0)]]

\* A value comes back from what it was encoded to, and is encoded register by register.
Faithful(endianness, wordOrder, v) ==
  /\ bytesToWide(endianness, wordOrder, wideToBytes(endianness, wordOrder, v)) = v
  /\ wideToBytes(endianness, wordOrder, v) = Registers(endianness, wordOrder, v)

=============================================================================
