------------------------------ MODULE IntCopy ------------------------------
(***************************************************************************)
(* A pass of the compressor over an integer stream: an IntWriter fills the *)
(* stream, then IntInterpreter::structuralRead walks it with an IntReader  *)
(* and calls a Writer (CountWriter, AbbrevAssignWriter) for every value    *)
(* and for every block entered or left.                                    *)
(*                                                                         *)
(* The interpreter is the frame machine of Interpreter.cpp, cut down to    *)
(* the methods structuralResume knows; its nesting is on FrameStack and    *)
(* LocalValues, not on the C++ stack.                                      *)
(***************************************************************************)
EXTENDS IntStream, StructuralRead

CONSTANTS Value,        \* the integers written
          HeaderValue,  \* the literals of a file header
          MaxEvents, MaxHeader, \* bounds on what is written
          EmptyAtEnd,   \* may a block without values be the last thing in
                        \* the block around it?
          OutputMayFail \* may the Writer refuse a call?

ASSUME IntCopyAssumption ==
  /\ MaxEvents \in Nat /\ MaxEvents < MaxIndex /\ MaxHeader \in Nat
  /\ EmptyAtEnd \in BOOLEAN /\ OutputMayFail \in BOOLEAN
  /\ Value \cap {"enter", "exit", "eof", "refused"} = {}

VARIABLES stream,       \* the IntStream
          wpos,         \* Pos of the IntWriter
          written,      \* history: the calls that wrote the stream
          Pos,          \* Pos of the IntReader
          Frame, FrameStack, LocalValues,   \* of the interpreter
          copied,       \* history: the calls made on the Writer
          header        \* ... and the header values it was given

wvars == << stream, wpos, written >>
rvars == << Pos, Frame, FrameStack, LocalValues, copied, header >>
vars  == << wvars, rvars >>

NoReader == [Index |-> 0, EnclosingBlocks |-> << >>, NextBlock |-> 0, EndBlocks |-> 0]

\* CallFrame::reset
Started == [CallMethod |-> "Started", CallState |-> "Enter"]

Init ==
  /\ stream = NewStream /\ wpos = NewCursor /\ written = << >>
  /\ Pos = NoReader
  /\ Frame = Started /\ FrameStack = << >> /\ LocalValues = << >>
  /\ copied = << >> /\ header = << >>

---------------------------------------------------------------------------
\* The IntWriter.
MayWrite == ~stream.isFrozen /\ Len(written) < MaxEvents

Put(r, event) ==
  /\ stream' = r[1] /\ wpos' = r[2]
  /\ written' = Append(written, event)
  /\ UNCHANGED rvars

WriteHeaderValue(v) ==
  /\ MayWrite /\ written = << >> /\ Len(stream.Header) < MaxHeader
  /\ stream' = [stream EXCEPT !.Header = Append(@, v)]
  /\ UNCHANGED << wpos, written, rvars >>

WriteValue(v) == MayWrite /\ Put(write(stream, wpos, v), v)

WriteBlockEnter == MayWrite /\ Put(openBlock(stream, wpos), "enter")

\* Nothing but an empty block can begin where the current one ends.
MayEnd == EmptyAtEnd \/ \A b \in Last(wpos.EnclosingBlocks) + 1 .. Len(stream.Blocks) :
                          getBeginIndex(stream, b) < wpos.Index

WriteBlockExit ==
  /\ MayWrite /\ canClose(wpos) /\ MayEnd
  /\ Put(closeBlock(stream, wpos), "exit")

\* The algorithms leave every block that they enter.
WriteFreezeEof ==
  /\ ~stream.isFrozen /\ ~canClose(wpos) /\ MayEnd
  /\ Put(<< freezeEof(stream, wpos), wpos >>, "eof")

---------------------------------------------------------------------------
\* The frame machine.
call(frame, method) ==
  /\ FrameStack' = Append(FrameStack, frame)
  /\ Frame' = [CallMethod |-> method, CallState |-> "Enter"]

popAndReturn ==
  /\ Frame' = IF FrameStack = << >> THEN Frame ELSE Last(FrameStack)
  /\ FrameStack' = IF FrameStack = << >> THEN << >> ELSE Front(FrameStack)

In(state) == [Frame EXCEPT !.CallState = state]

Goto(state) == Frame' = In(state) /\ UNCHANGED FrameStack

\* throwMessage and fail, with no catch on the stack: catchOrElseFail.
Fail ==
  /\ Frame' = [CallMethod |-> "Finished", CallState |-> "Failed"]
  /\ FrameStack' = << >> /\ LocalValues' = << >>

\* decode::fatal exits the process, as it is: no frame goes on.
Exited == [CallMethod |-> "Exited", CallState |-> "Failed"]
fatal == Frame' = Exited /\ UNCHANGED << FrameStack, LocalValues >>

At(method, state) == Frame.CallMethod = method /\ Frame.CallState = state

Push(v) == LocalValues' = Append(LocalValues, v)

\* A call of the Writer, which takes the event or refuses it, with what is
\* done then.
Output(event, then, otherwise) ==
  \/ copied' = Append(copied, event) /\ then
  \/ OutputMayFail /\ copied' = Append(copied, "refused") /\ otherwise

\* structuralStart: IntReader::canProcessMoreInputNow lets a pass over all of
\* a frozen stream through; streams are frozen before they are read.
Start ==
  /\ stream.isFrozen /\ Pos = NoReader
  /\ Pos' = NewReadCursor(stream)
  /\ call(Started, "GetFile")
  /\ LocalValues' = << >>
  /\ UNCHANGED << wvars, copied, header >>

\* Each header value the stream holds is read back and passed on.
GetFileEnter ==
  /\ At("GetFile", "Enter")
  /\ header' = header \o stream.Header
  /\ Push(Len(stream.Values))
  /\ call(In("Exit"), "ReadIntBlock")
  /\ UNCHANGED << wvars, Pos, copied >>

GetFileExit ==
  /\ At("GetFile", "Exit")
  /\ Output("eof", popAndReturn /\ UNCHANGED LocalValues, Fail)
  /\ UNCHANGED << wvars, Pos, header >>

EnterLoop ==
  /\ At("ReadIntBlock", "Enter") \/ At("ReadIntValues", "Enter")
  /\ Goto("Loop")
  /\ UNCHANGED << wvars, Pos, LocalValues, copied, header >>

\* Mutant: a block that begins where this one ends is taken to be in it.
hasNestedOrNext ==
  hasMoreBlocks(Pos) /\ getBeginIndex(stream, Pos.NextBlock) <= Last(LocalValues)

hasNestedBlocks ==
  hasMoreBlocks(Pos) /\ getBeginIndex(stream, Pos.NextBlock) < Last(LocalValues)

\* Read up to the next block, or to the end of this one.
ReadIntBlockLoop ==
  /\ At("ReadIntBlock", "Loop")
  /\ IF atEob(stream, Pos)
     THEN Goto("Exit") /\ UNCHANGED LocalValues
     ELSE IF hasNestedBlocks
     THEN /\ Push(getBeginIndex(stream, Pos.NextBlock))
          /\ call(In("Step2"), "ReadIntValues")
     ELSE /\ Push(Last(LocalValues))
          /\ call(In("Exit"), "ReadIntValues")
  /\ UNCHANGED << wvars, Pos, copied, header >>

ReadIntBlockOpen ==
  /\ At("ReadIntBlock", "Step2")
  /\ IF canEnter(stream, Pos)
     THEN /\ Pos' = Enter(Pos)
          /\ Output("enter", /\ Push(getEndIndex(stream, Pos.NextBlock))
                             /\ call(In("Step3"), "ReadIntBlock"), fatal)
     ELSE fatal /\ UNCHANGED << Pos, copied >>
  /\ UNCHANGED << wvars, header >>

ReadIntBlockClose ==
  /\ At("ReadIntBlock", "Step3")
  /\ Pos' = IF canClose(Pos) THEN Exit(Pos) ELSE Pos
  /\ IF exitOk(stream, Pos)
     THEN Output("exit", Goto("Loop") /\ UNCHANGED LocalValues, fatal)
     ELSE fatal /\ UNCHANGED copied
  /\ UNCHANGED << wvars, header >>

ReadIntValuesLoop ==
  /\ At("ReadIntValues", "Loop")
  /\ IF Pos.Index >= Last(LocalValues)
     THEN Goto("Exit") /\ UNCHANGED << Pos, LocalValues, copied >>
     ELSE /\ canRead(stream, Pos)
          /\ Pos' = AfterRead(Pos)
          /\ Output(ValueAt(stream, Pos), UNCHANGED << Frame, FrameStack, LocalValues >>, Fail)
  /\ UNCHANGED << wvars, header >>

\* Mutant: the local value is not popped.
ExitKeepsValue ==
  /\ At("ReadIntBlock", "Exit") \/ At("ReadIntValues", "Exit")
  /\ popAndReturn
  /\ UNCHANGED << wvars, Pos, LocalValues, copied, header >>

ExitMethod ==
  /\ At("ReadIntBlock", "Exit") \/ At("ReadIntValues", "Exit")
  /\ LocalValues' = Front(LocalValues)
  /\ popAndReturn
  /\ UNCHANGED << wvars, Pos, copied, header >>

\* handleOtherMethods, once everything has returned, with
\* IntReader::processedInputCorrectly.
FinishReading ==
  /\ Frame.CallMethod = "Started" /\ Pos # NoReader
  /\ Frame' = [CallMethod |-> "Finished",
               CallState  |-> IF atEnd(stream, Pos) THEN "Succeeded" ELSE "Failed"]
  /\ LocalValues' = IF atEnd(stream, Pos) THEN LocalValues ELSE << >>
  /\ UNCHANGED << wvars, Pos, FrameStack, copied, header >>

---------------------------------------------------------------------------
Writing ==
  \/ \E v \in HeaderValue : WriteHeaderValue(v)
  \/ \E v \in Value : WriteValue(v)
  \/ WriteBlockEnter \/ WriteBlockExit
  \/ WriteFreezeEof

Reading ==
  \/ Start
  \/ GetFileEnter \/ GetFileExit
  \/ EnterLoop
  \/ ReadIntBlockLoop \/ ReadIntBlockOpen \/ ReadIntBlockClose
  \/ ReadIntValuesLoop
  \/ ExitMethod
  \/ FinishReading

Next == Writing \/ Reading

\* structuralReadBackFilled loops until the interpreter is finished.
Spec == Init /\ [][Next]_vars /\ WF_vars(Reading)
---------------------------------------------------------------------------
\* Properties.

Refused   == copied # << >> /\ Last(copied) = "refused"
Accepted  == IF Refused THEN Front(copied) ELSE copied

\* IntInterpreter.h: "Read based on structure of input integer stream".  The
\* Writer is called in the order in which the stream was written, blocks
\* entered and left where they were; and when the pass succeeds, with all of it.
\* (Where no block that is empty ends another, or the stream: for those see below.)
CopiesWritten ==
  /\ IsPrefix(Accepted, written)
  /\ At("Finished", "Succeeded") => copied = written /\ header = stream.Header
CopiesInOrder ==
  stream.isFrozen /\ NoBlockEndsEmpty(Front(written), "enter", "exit") => CopiesWritten

\* IntInterpreter.cpp:101.  Where empty blocks end other blocks, what the Writer
\* is given is what StructuralRead says: these blocks late, and at the end of
\* the stream not at all, although the pass succeeds.
PassesLateOrNever ==
  stream.isFrozen =>
    LET passed == Append(Passed(Front(written), "enter", "exit"), "eof")
    IN  /\ IsPrefix(Accepted, passed)
        /\ At("Finished", "Succeeded") => copied = passed /\ header = stream.Header

\* A pass fails, or ends the process, only when the Writer refuses something:
\* what an IntWriter wrote, an IntReader can read, and enter and leave.
FailsOnlyIfRefused == At("Finished", "Failed") \/ Frame = Exited => Refused

\* In a block, the top of LocalValues, by which the interpreter looks for
\* nested blocks, is where the reader's innermost block ends; no block that
\* begins before the reader is still to be entered.
LocalsMatchBlocks ==
  At("ReadIntBlock", "Loop") =>
    /\ Last(LocalValues) = getEndIndex(stream, Last(Pos.EnclosingBlocks))
    /\ hasMoreBlocks(Pos) => Pos.Index <= getBeginIndex(stream, Pos.NextBlock)

\* What is pushed while methods call each other is popped as they return, and
\* goes with them where a value or the end of the file is refused and thrown
\* out of.  (A refused block ends the process: nothing is undone then.)
StacksMatch ==
  /\ LocalsMatchBlocks
  /\ Frame.CallMethod = "Finished" => FrameStack = << >> /\ LocalValues = << >>

\* Every pass comes to an end, or takes the process with it.
PassEnds == (Pos # NoReader) ~> (Frame.CallMethod = "Finished" \/ Frame = Exited)
=============================================================================
