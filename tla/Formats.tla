------------------------------ MODULE Formats ------------------------------
(***************************************************************************)
(* The number formats of interp/FormatHelpers-templates.h and              *)
(* interp/IntFormats.cpp: what bytes a number is written as, and which of  *)
(* the formats an integer fits.  Bytes and words are as wide as the        *)
(* constants say; in the code they have 8, 32 and 64 bits.                 *)
(*                                                                         *)
(* A number of an N bit type is in 0 .. 2^N - 1; a signed one is that      *)
(* with its top bit as the sign (Signed).                                  *)
(***************************************************************************)
EXTENDS Integers, Sequences, FiniteSetsExt

CONSTANTS CHAR_BIT,     \* bits of a byte
          Word32,       \* bytes of uint32_t
          Word64        \* bytes of uint64_t

ASSUME FormatsAssumption ==
  /\ CHAR_BIT \in Nat \ {0, 1, 2}
  /\ Word32 \in Nat \ {0} /\ Word64 \in Nat \ {0} /\ Word32 < Word64

Bits32 == Word32 * CHAR_BIT
Bits64 == Word64 * CHAR_BIT
ByteRange == 2^CHAR_BIT
IntType == 0 .. 2^Bits64 - 1

\* LEB128: the low bits of a byte, the bit that says that more follow, and
\* the bit that is the sign of the last one.
ChunkSize == CHAR_BIT - 1
MoreFollow == 2^ChunkSize
IsNegative(byte) == (byte \div 2^(ChunkSize - 1)) % 2 = 1

Signed(value, bits) == IF value < 2^(bits - 1) THEN value ELSE value - 2^bits

---------------------------------------------------------------------------
\* Writing.

\* What is left of a value after n rounds of the loop; the shift of a signed
\* value keeps its sign.
Rest(value, n) == value \div MoreFollow^n
Chunk(value, n) == Rest(value, n - 1) % MoreFollow

\* LEB128_LOOP_UNTIL: rounds, up to the first that Ends.
LebBytes(value, Ends(_)) ==
  LET count == Min({n \in 1 .. Bits64 : Ends(n)})
  IN  [n \in 1 .. count |-> Chunk(value, n) + (IF n < count THEN MoreFollow ELSE 0)]

writeLEB128(value) == LebBytes(value, LAMBDA n : Rest(value, n) = 0)

writePositiveLEB128(value) ==
  LebBytes(value, LAMBDA n : Rest(value, n) = 0 /\ ~IsNegative(Chunk(value, n)))

writeNegativeLEB128(value) ==
  LebBytes(value, LAMBDA n : Rest(value, n) = -1 /\ IsNegative(Chunk(value, n)))

\* Mutant: a loop that ends with the value, whatever the sign bit is.
writeSignedNoSignBit(value, bits) ==
  LET v == Signed(value, bits)
  IN  LebBytes(v, LAMBDA n : Rest(v, n) \in {0, -1})

writeSignedLEB128(value, bits) ==
  LET v == Signed(value, bits)
  IN  IF v < 0 THEN writeNegativeLEB128(v) ELSE writePositiveLEB128(v)

\* The chunks that are enough for any value of a word.
ChunksInWord == (Bits32 + ChunkSize - 1) \div ChunkSize

writeFixedLEB128(value) == LebBytes(value, LAMBDA n : n = ChunksInWord)

writeFixed(value, word) ==
  [n \in 1 .. word |-> (value \div ByteRange^(n - 1)) % ByteRange]

---------------------------------------------------------------------------
\* Reading, from bytes that have been taken off the stream one by one.

\* Whether the loop of readLEB128Loop stops after these bytes.
LebComplete(bytes) == bytes # << >> /\ bytes[Len(bytes)] < MoreFollow

\* What the rounds of the loop put together.
OrChunks(bytes) ==
  FoldSet(LAMBDA n, sum : sum + ((bytes[n] % MoreFollow) * MoreFollow^(n - 1)), 0, DOMAIN bytes)

readLEB128(bytes, bits) == OrChunks(bytes) % 2^bits

readSignedLEB128(bytes, bits) ==
  LET value == readLEB128(bytes, bits)
      shift == Len(bytes) * ChunkSize
  IN  IF IsNegative(bytes[Len(bytes)]) /\ shift < bits
      THEN value + (2^bits - 2^shift) ELSE value

readFixed(bytes) ==
  FoldSet(LAMBDA n, sum : sum + (bytes[n] * ByteRange^(n - 1)), 0, DOMAIN bytes)

---------------------------------------------------------------------------
\* The formats of an integer, in the order of IntTypeFormat.

IntTypeFormat ==
  << "Uint8", "Varint32", "Varuint32", "Uint32", "Varint64", "Varuint64", "Uint64" >>

FormatBits(format) ==
  CASE format = "Uint8" -> CHAR_BIT
    [] format \in {"Varint32", "Varuint32", "Uint32"} -> Bits32
    [] format \in {"Varint64", "Varuint64", "Uint64"} -> Bits64

WritesSigned(format) == format \in {"Varint32", "Varint64"}

\* The bytes fmt::write... makes of a number that is cast to the type of the
\* format, and the number that fmt::read... makes of them.
WriteFormat(format, value) ==
  LET v == value % 2^FormatBits(format)
  IN  CASE format = "Uint8" -> << v >>
        [] format = "Uint32" -> writeFixed(v, Word32)
        [] format = "Uint64" -> writeFixed(v, Word64)
        [] format \in {"Varuint32", "Varuint64"} -> writeLEB128(v)
        [] WritesSigned(format) -> writeSignedLEB128(v, FormatBits(format))

FixedSize(format) ==
  CASE format = "Uint8" -> 1 [] format = "Uint32" -> Word32 [] format = "Uint64" -> Word64

\* Whether a read in this format takes no more bytes than these.
ReadEnds(format, bytes) ==
  IF format \in {"Uint8", "Uint32", "Uint64"}
  THEN Len(bytes) = FixedSize(format) ELSE LebComplete(bytes)

\* As in Reader::readValue, a signed number is extended to an IntType.
Extend(value, bits) == Signed(value, bits) % 2^Bits64

ReadFormat(format, bytes) ==
  LET bits == FormatBits(format)
  IN  CASE format \in {"Uint8", "Uint32", "Uint64"} -> readFixed(bytes)
        [] format \in {"Varuint32", "Varuint64"} -> readLEB128(bytes, bits)
        [] WritesSigned(format) -> Extend(readSignedLEB128(bytes, bits), bits)

\* isInstanceOf: the cast to the type and back is the value.
isInstanceOf(value, format) ==
  LET v == value % 2^FormatBits(format)
  IN  value = IF WritesSigned(format) THEN Extend(v, FormatBits(format)) ELSE v

NotValid == 0

getByteSize(value, format) ==
  IF isInstanceOf(value, format) THEN Len(WriteFormat(format, value)) ELSE NotValid

getFirstMinimumFormat(value) ==
  LET size(i) == getByteSize(value, IntTypeFormat[i])
      valid == {i \in DOMAIN IntTypeFormat : size(i) # NotValid}
  IN  Min({i \in valid : \A j \in valid : size(i) <= size(j)})
=============================================================================
