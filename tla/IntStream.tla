----------------------------- MODULE IntStream -----------------------------
(***************************************************************************)
(* interp/IntStream.{h,cpp}: a stream of integers with nested blocks, and  *)
(* the cursors that write and read it, as operators on records.            *)
(*                                                                         *)
(* Blocks are shared objects: a block is named by its position in          *)
(* IntStream::Blocks, the order in which blocks were opened, and TopBlock, *)
(* which Blocks does not hold, is 0.  EnclosingBlocks of a cursor is a     *)
(* sequence of such names, TopBlock first.                                 *)
(***************************************************************************)
EXTENDS Integers, Sequences, SequencesExt

CONSTANT MaxIndex      \* std::numeric_limits<size_t>::max(), the end of a
                       \* block that has not been closed

ASSUME IntStreamAssumption == MaxIndex \in Nat

TopBlock == 0

NewStream == [Header |-> << >>, Values |-> << >>,
              TopEnd |-> MaxIndex,          \* EndIndex of TopBlock
              Blocks |-> << >>, isFrozen |-> FALSE]

NewCursor == [Index |-> 0, EnclosingBlocks |-> << TopBlock >>]

getBeginIndex(s, b) == IF b = TopBlock THEN 0 ELSE s.Blocks[b].BeginIndex
getEndIndex(s, b)   == IF b = TopBlock THEN s.TopEnd ELSE s.Blocks[b].EndIndex

SetEnd(s, b, e) == IF b = TopBlock THEN [s EXCEPT !.TopEnd = e]
                   ELSE [s EXCEPT !.Blocks[b].EndIndex = e]

---------------------------------------------------------------------------
\* Cursor.
atEof(s, c) == c.Index >= getEndIndex(s, Head(c.EnclosingBlocks))
atEob(s, c) == c.Index >= getEndIndex(s, Last(c.EnclosingBlocks))
atEnd(s, c) == Len(c.EnclosingBlocks) = 1 /\ atEof(s, c)

canClose(c) == Len(c.EnclosingBlocks) > 1

---------------------------------------------------------------------------
\* WriteCursor.  Each operation gives the stream and the cursor that follow.
write(s, c, v) ==
  << [s EXCEPT !.Values = Append(@, v)], [c EXCEPT !.Index = @ + 1] >>

openBlock(s, c) ==
  << [s EXCEPT !.Blocks = Append(@, [BeginIndex |-> c.Index, EndIndex |-> MaxIndex])],
     [c EXCEPT !.EnclosingBlocks = Append(@, Len(s.Blocks) + 1)] >>

closeBlock(s, c) ==
  << SetEnd(s, Last(c.EnclosingBlocks), c.Index),
     [c EXCEPT !.EnclosingBlocks = Front(@)] >>

\* Mutant: only the flag is set.
freezeEofFlagOnly(s, c) == [s EXCEPT !.isFrozen = TRUE]

\* The blocks that are still open, TopBlock always among them, end with the
\* stream.
freezeEof(s, c) ==
  LET end == Len(s.Values)
      EndOf(b) == IF b \in Range(c.EnclosingBlocks) THEN end ELSE s.Blocks[b].EndIndex
  IN  [s EXCEPT !.isFrozen = TRUE, !.TopEnd = end,
                !.Blocks = [b \in DOMAIN s.Blocks |->
                              [BeginIndex |-> s.Blocks[b].BeginIndex, EndIndex |-> EndOf(b)]]]

---------------------------------------------------------------------------
\* ReadCursor: iterators over Blocks, taken when the cursor is made.
NewReadCursor(s) == [Index |-> 0, EnclosingBlocks |-> << TopBlock >>,
                     NextBlock |-> 1, EndBlocks |-> Len(s.Blocks) + 1]

hasMoreBlocks(c) == c.NextBlock # c.EndBlocks

\* Mutant: an off-by-one at the last value.
canReadButLast(s, c) == c.Index < Len(s.Values) - 1

canRead(s, c) == /\ c.Index <= getEndIndex(s, Last(c.EnclosingBlocks))
                 /\ c.Index < Len(s.Values)           \* the asserts of read
ValueAt(s, c) == s.Values[c.Index + 1]
AfterRead(c)  == [c EXCEPT !.Index = @ + 1]

canEnter(s, c) == hasMoreBlocks(c) /\ c.Index = getBeginIndex(s, c.NextBlock)
Enter(c) == [c EXCEPT !.EnclosingBlocks = Append(@, c.NextBlock),
                      !.NextBlock = @ + 1]

\* The block is left whether or not the cursor is at its end; the result says
\* which.
Exit(c) == [c EXCEPT !.EnclosingBlocks = Front(@)]
exitOk(s, c) == canClose(c) /\ getEndIndex(s, Last(c.EnclosingBlocks)) = c.Index
=============================================================================
