------------------------------ MODULE ByteCopy ------------------------------
(***************************************************************************)
(* A ByteWriter (interp/ByteWriter.cpp) writes numbers, bits and blocks,   *)
(* and a ByteReader (interp/ByteReader.cpp) that knows what comes next     *)
(* reads them back.  Their cursors take bits off bytes and put them        *)
(* together again; the size of a block is written before the block, once   *)
(* its end is known, and the block is moved when that takes less room.     *)
(*                                                                         *)
(* The queue between them is the bytes at their addresses: Queue shows     *)
(* that pages do not matter for that.                                      *)
(***************************************************************************)
EXTENDS Formats, SequencesExt

CONSTANTS MinimizeBlockSize,   \* as of Writer, both ways
          Values,              \* pairs of a format and a value of it
          MaxOps,              \* bound on what is written
          FreezeUnaligned      \* whether the end may be frozen within a byte

VARIABLES script,      \* history: what has been written
          bytes,       \* the queue, from address 0 on
          WritePos,
          BlockStartStack,
          minimize,    \* the Writer's MinimizeBlockSize
          EofFrozen,
          ReadPos,
          got          \* history: what has been read

writerVars == << script, bytes, WritePos, BlockStartStack, minimize, EofFrozen >>
readerVars == << ReadPos, got >>
vars == << writerVars, readerVars >>

\* A cursor and the bits of a byte it has seen but not passed on.
Cursor(addr) == [addr |-> addr, CurWord |-> 0, NumBits |-> 0]

---------------------------------------------------------------------------
\* BitWriteCursor, on a pair of the queue and the cursor.

Output == [mem |-> bytes, pos |-> WritePos]

Store(o, byte) ==
  [mem |-> IF o.pos.addr < Len(o.mem) THEN [o.mem EXCEPT ![o.pos.addr + 1] = byte]
                                      ELSE Append(o.mem, byte),
   pos |-> [o.pos EXCEPT !.addr = @ + 1]]

writeByte(o, byte) ==
  LET word == o.pos.CurWord * ByteRange + byte
  IN  IF o.pos.NumBits = 0 THEN Store(o, byte)
      ELSE Store([o EXCEPT !.pos.CurWord = word % 2^o.pos.NumBits], word \div 2^o.pos.NumBits)

writeBit(o, bit) ==
  LET word == 2 * o.pos.CurWord + bit
  IN  IF o.pos.NumBits + 1 = CHAR_BIT
      THEN Store([o EXCEPT !.pos.CurWord = 0, !.pos.NumBits = 0], word)
      ELSE [o EXCEPT !.pos.CurWord = word, !.pos.NumBits = @ + 1]

writeAligned(o) ==
  LET pos == o.pos
  IN  IF pos.NumBits = 0 THEN o
      ELSE Store([o EXCEPT !.pos = Cursor(pos.addr)], pos.CurWord * 2^(CHAR_BIT - pos.NumBits))

writeBytes(o, s) == FoldLeft(writeByte, o, s)

---------------------------------------------------------------------------
\* ByteWriter.

Writes(o) == bytes' = o.mem /\ WritePos' = o.pos
MayWrite(op) == ~EofFrozen /\ Len(script) < MaxOps /\ script' = Append(script, op)

WriteValue(format, value) ==
  /\ MayWrite([op |-> "value", format |-> format, value |-> value])
  /\ Writes(writeBytes(Output, WriteFormat(format, value)))
  /\ UNCHANGED << BlockStartStack, minimize, EofFrozen, readerVars >>

WriteBit(bit) ==
  /\ MayWrite([op |-> "bit", value |-> bit])
  /\ Writes(writeBit(Output, bit))
  /\ UNCHANGED << BlockStartStack, minimize, EofFrozen, readerVars >>

\* Aligning twice is aligning once: it is not asked for where nothing is left.
AlignToByte ==
  /\ MayWrite([op |-> "align"]) /\ WritePos.NumBits # 0
  /\ Writes(writeAligned(Output))
  /\ UNCHANGED << BlockStartStack, minimize, EofFrozen, readerVars >>

\* The places before and after the room for the size are remembered.
WriteBlockEnter ==
  LET start == writeAligned(Output)
      after == writeBytes(start, writeFixedLEB128(0))
  IN  /\ MayWrite([op |-> "enter"])
      /\ Writes(after)
      /\ BlockStartStack' = BlockStartStack \o << start.pos, after.pos >>
      /\ UNCHANGED << minimize, EofFrozen, readerVars >>

\* getBlockSize.
BlockSize(start, end) == end.addr - (start.addr + ChunksInWord)

\* ByteWriteStream::moveBlock: byte for byte, from the lowest on.
MoveBlock(o, from, size) ==
  FoldLeft(LAMBDA p, i : writeByte(p, p.mem[from + i]), o, [i \in 1 .. size |-> i])

\* Mutant: the bytes to move are counted from where they go.
ExitMovesShort(end, start, afterSize) ==
  LET sized == writeBytes([end EXCEPT !.pos = start], writeLEB128(BlockSize(start, end.pos)))
      diff == afterSize.addr - sized.pos.addr
  IN  IF diff = 0 THEN [sized EXCEPT !.pos = end.pos]
      ELSE MoveBlock(sized, afterSize.addr, end.pos.addr - diff - afterSize.addr)

\* The size takes the room it needs, and the block moves down to it.
ExitMinimized(end, start, afterSize) ==
  LET sized == writeBytes([end EXCEPT !.pos = start], writeLEB128(BlockSize(start, end.pos)))
      diff == afterSize.addr - sized.pos.addr
  IN  IF diff = 0 THEN [sized EXCEPT !.pos = end.pos]
      ELSE MoveBlock(sized, afterSize.addr, (end.pos.addr - diff) - sized.pos.addr)

ExitFixed(end, start) ==
  LET sized == writeBytes([end EXCEPT !.pos = start],
                          writeFixedLEB128(BlockSize(start, end.pos)))
  IN  [sized EXCEPT !.pos = end.pos]

WriteBlockExit ==
  LET top == Len(BlockStartStack)
      end == writeAligned(Output)
      start == BlockStartStack[top - 1]
  IN  /\ top # 0
      /\ MayWrite([op |-> "exit"])
      /\ Writes(IF minimize THEN ExitMinimized(end, start, BlockStartStack[top])
                            ELSE ExitFixed(end, start))
      /\ BlockStartStack' = SubSeq(BlockStartStack, 1, top - 2)
      /\ UNCHANGED << minimize, EofFrozen, readerVars >>

\* The bits of an unfinished byte are not written.
WriteFreezeEof ==
  /\ ~EofFrozen /\ BlockStartStack = << >>
  /\ WritePos.NumBits = 0 \/ FreezeUnaligned
  /\ EofFrozen' = TRUE
  /\ bytes' = SubSeq(bytes, 1, WritePos.addr)
  /\ UNCHANGED << script, WritePos, BlockStartStack, minimize, readerVars >>

---------------------------------------------------------------------------
\* BitReadCursor, which also knows the ends of the blocks it is in.

Eob(pos) == IF pos.eobs = << >> THEN Len(bytes) ELSE Last(pos.eobs)
atEob(pos) == pos.addr >= Eob(pos) /\ pos.NumBits = 0

\* BITREAD_TYPED: a byte is read when there are not enough bits.
Fill(pos, size) ==
  IF pos.NumBits >= size THEN pos
  ELSE [pos EXCEPT !.CurWord = @ * ByteRange + bytes[pos.addr + 1],
                   !.NumBits = @ + CHAR_BIT, !.addr = @ + 1]

Take(pos, size) ==
  LET filled == Fill(pos, size)
      left == filled.NumBits - size
  IN  [value |-> filled.CurWord \div 2^left,
       pos |-> [filled EXCEPT !.CurWord = @ % 2^left, !.NumBits = left]]

\* The cursor after each of the bytes up to the end, and what was read.
ReadBytes(pos, Ends(_)) ==
  LET from[n \in 0 .. Len(bytes)] ==
        IF n = 0 THEN [s |-> << >>, pos |-> pos]
        ELSE LET before == from[n - 1]
                 t == Take(before.pos, CHAR_BIT)
             IN  [s |-> Append(before.s, t.value), pos |-> t.pos]
  IN  from[Min({n \in 1 .. Len(bytes) - pos.addr : Ends(from[n].s)})]

ReadAligned(pos) == [pos EXCEPT !.NumBits = 0, !.CurWord = 0]

---------------------------------------------------------------------------
\* ByteReader.

Reads(op) ==
  EofFrozen /\ Len(got) < Len(script) /\ script[Len(got) + 1].op = op
Got(value) == got' = Append(got, value) /\ UNCHANGED writerVars

ReadValue ==
  LET format == script[Len(got) + 1].format
      read == ReadBytes(ReadPos, LAMBDA s : ReadEnds(format, s))
  IN  /\ Reads("value")
      /\ ReadPos' = read.pos /\ Got(ReadFormat(format, read.s))

ReadBit ==
  LET read == Take(ReadPos, 1)
  IN  Reads("bit") /\ ReadPos' = read.pos /\ Got(read.value)

ReaderAligns ==
  Reads("align") /\ ReadPos' = ReadAligned(ReadPos) /\ Got("aligned")

ReadBlockEnter ==
  LET read == ReadBytes(ReadAligned(ReadPos), LebComplete)
      size == readLEB128(read.s, Bits32)
  IN  /\ Reads("enter")
      /\ ReadPos' = [read.pos EXCEPT !.eobs = Append(@, read.pos.addr + size)]
      /\ Got("entered")

\* The end of the block is forgotten, not gone to.
ReadBlockExit ==
  /\ Reads("exit")
  /\ ReadPos' = [ReadAligned(ReadPos) EXCEPT !.eobs = Front(@)] /\ Got("left")

---------------------------------------------------------------------------
Init ==
  /\ script = << >> /\ bytes = << >> /\ got = << >>
  /\ WritePos = Cursor(0) /\ BlockStartStack = << >> /\ EofFrozen = FALSE
  /\ minimize \in MinimizeBlockSize
  /\ ReadPos = [addr |-> 0, CurWord |-> 0, NumBits |-> 0, eobs |-> << >>]

Next ==
  \/ \E v \in Values : WriteValue(v[1], v[2])
  \/ \E bit \in {0, 1} : WriteBit(bit)
  \/ AlignToByte \/ WriteBlockEnter \/ WriteBlockExit \/ WriteFreezeEof
  \/ ReadValue \/ ReadBit \/ ReaderAligns \/ ReadBlockEnter \/ ReadBlockExit

Spec == Init /\ [][Next]_vars

---------------------------------------------------------------------------
\* What the writer promises, without words, cursors and backpatching: the
\* bits of a value one after the other, a block as its size and its content.

BitsOf(s) ==
  [i \in 1 .. Len(s) * CHAR_BIT |->
     (s[(i - 1) \div CHAR_BIT + 1] \div 2^((CHAR_BIT - 1) - ((i - 1) % CHAR_BIT))) % 2]

Padded(bits) ==
  bits \o [i \in 1 .. (CHAR_BIT - 1) - ((Len(bits) + CHAR_BIT - 1) % CHAR_BIT) |-> 0]

Sized(content) ==
  LET size == Len(content) \div CHAR_BIT
  IN  BitsOf(IF minimize THEN writeLEB128(size) ELSE writeFixedLEB128(size)) \o content

\* The blocks that are open around each place, the innermost last.
Encode(ops) ==
  FoldLeft(LAMBDA open, op :
             LET in == Last(open)
                 around == Front(open)
             IN  CASE op.op = "value" -> Append(around, in \o BitsOf(WriteFormat(op.format, op.value)))
                   [] op.op = "bit"   -> Append(around, Append(in, op.value))
                   [] op.op = "align" -> Append(around, Padded(in))
                   [] op.op = "enter" -> around \o << Padded(in), << >> >>
                   [] op.op = "exit"  -> Append(Front(around), Last(around) \o Sized(Padded(in))),
           << << >> >>, ops)

\* What leaves the writer is that encoding, whichever way it got there: by
\* way of unaligned bytes, patched sizes and blocks moved within blocks.
IsEncoding == EofFrozen => << BitsOf(bytes) >> = Encode(script)

\* The reader gets what was written.  Numbers that do not fit the type that
\* they are written as are cut off by both.
ReadsBack ==
  \A i \in DOMAIN got : script[i].op \in {"value", "bit"} => got[i] = script[i].value
=============================================================================
