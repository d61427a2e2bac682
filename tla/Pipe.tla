-------------------------------- MODULE Pipe --------------------------------
(***************************************************************************)
(* stream/Pipe.{h,cpp}: two queues back to back.  The writers work on      *)
(* Input; every page that Input throws away is copied, byte by byte,       *)
(* through the cursor WritePos to the end of Output, where one reader      *)
(* (OutputPos of a Decompressor) takes the bytes out.                      *)
(*                                                                         *)
(* Input and its cursors are the queue of module Queue; every step of it   *)
(* is followed by the copying of what it has dumped.  Output, on which     *)
(* only WritePos writes, is a record like it, and its reader is an         *)
(* instance of Queue.                                                      *)
(***************************************************************************)
EXTENDS Queue, SequencesExt

CONSTANTS WritePos, OutputPos  \* the two cursors on Output

\* Input is only written, by cursors that keep to the contract.
ASSUME PipeAssumption ==
  /\ Readers = {} /\ Grow = PageSize /\ ~UseBroken /\ ~LateWrites
  /\ WritePos # OutputPos

VARIABLES output, ocursor,   \* Output and the cursors on it, see Queue
          taken,             \* history: the bytes OutputPos has read
          pipe               \* the Pipe object

pvars == << queue, cursor, written, output, ocursor, taken, pipe >>

\* No history is kept of what is written on Output.
Out == INSTANCE Queue WITH
        Writers <- {WritePos}, Readers <- {OutputPos}, Grow <- 1,
        Backpatch <- {}, Data <- [c \in {WritePos} |-> Zero],
        queue <- output, cursor <- ocursor, written <- << >>

PipeInit ==
  /\ Init
  /\ output = NewQueue
  /\ ocursor = [c \in {WritePos, OutputPos} |-> [page |-> 0, addr |-> 0, guard |-> 0]]
  /\ taken = << >>
  /\ pipe = "made"

---------------------------------------------------------------------------
\* WritePos->writeByte(b), on an output [queue, cursor] that nobody freezes:
\* WritePos is always at the end of the queue.
WriteOne(out, b) ==
  LET a    == out.cursor[WritePos].addr
      q    == writeFill(out.queue, a + 1)
      read == out.cursor[OutputPos].page
      p    == getCachedPage(q, {read, out.cursor[WritePos].page}, a)
      r    == Store(Seek(q, {read}, p), p, a, b)
  IN  [queue  |-> r,
       cursor |-> [out.cursor EXCEPT ![WritePos] =
                     [page |-> p, addr |-> a + 1, guard |-> Guard(r, p)]]]

\* PipeBackedQueue::dumpFirstPage, for all the pages "was" had and "is" has not.
Dumped(was, is) == FlattenSeq(SubSeq(is.dumped, Len(was.dumped) + 1, Len(is.dumped)))

WriteAll(out, bytes) ==
  LET outs[n \in 0 .. Len(bytes)] ==
        IF n = 0 THEN out ELSE WriteOne(outs[n - 1], bytes[n])
  IN  outs[Len(bytes)]

CopyDumped ==
  \E out \in {WriteAll([queue |-> output, cursor |-> ocursor], Dumped(queue, queue'))} :
    output' = out.queue /\ ocursor' = out.cursor

\* Bound: the streams end before the last page of the address space.
InputStep ==
  /\ pipe = "made"
  /\ \/ \E c \in Writers : CursorStep(c) \/ WriterStep(c)
     \/ CloseQueue
  /\ queue'.LastPage < kMaxPageIndex
  /\ CopyDumped
  /\ UNCHANGED << taken, pipe >>

\* The reader only asks for what Output holds.
ReadOutput ==
  /\ pipe = "made"
  /\ ocursor[OutputPos].addr < fillSize(output)
  /\ Out!ReadByte(OutputPos)
  /\ LET a == ocursor[OutputPos].addr
         p == ocursor'[OutputPos].page
     IN  taken' = Append(taken, output'.PageMap[p].buf[a - MinAddress(output', p)])
  /\ UNCHANGED << queue, cursor, written, pipe >>

\* ~Pipe, once the cursors on Input are gone: WritePos, Output and Input are
\* destroyed in that order, and Input, unless it is closed, closes itself,
\* which calls WritePos for each byte that it still holds.
Destroy ==
  /\ pipe = "made"
  /\ \A c \in Writers : ~IsOpen(c)
  /\ pipe' = IF Dumped(queue, close(queue, {})) = << >> THEN "destroyed"
             ELSE "WritePos used after its end"
  /\ UNCHANGED << queue, cursor, written, output, ocursor, taken >>

PipeNext == InputStep \/ ReadOutput \/ Destroy

PipeSpec == PipeInit /\ [][PipeNext]_pvars
---------------------------------------------------------------------------
\* Properties.

\* The bytes of a queue, those it has dumped first.
Bytes(q) ==
  FlattenSeq(q.dumped) \o
    (IF q.FirstPage = Null THEN << >>
     ELSE FlattenSeq([i \in 1 .. q.LastPage - q.FirstPage + 1 |->
                        PageBytes(q.PageMap[q.FirstPage + i - 1])]))

\* The types of the variables.
PipeTypeOK ==
  /\ TypeOK
  /\ output \in QueueType
  /\ ocursor \in [{WritePos, OutputPos} -> CursorType]
  /\ taken \in Seq(Byte)
  /\ pipe \in {"made", "destroyed", "WritePos used after its end"}

\* The pipe is a byte channel: what has come out never changes any more, all
\* of the input comes out, and the reader gets the bytes in order.
Channel == INSTANCE ByteChannel WITH
             contents <- Bytes(queue), delivered <- Bytes(output),
             taken <- taken, closed <- IsClosed

IsChannel == Channel!Spec

\* A page of Input is dumped only when no backpatch can reach it: a block
\* being written keeps back its first page and all that follows.
BlocksHeldBack ==
  ~IsClosed => \A c \in Writers : cursor[c].page \in Nat =>
                     Len(Bytes(output)) <= cursor[c].addr
=============================================================================
