----------------------- MODULE DecompressClientProofs -----------------------
(***************************************************************************)
(* Theorems about the C API of the decompressor (module Decompressor) and  *)
(* about the program that uses it (module DecompressClient), for every     *)
(* size of buffers, files and output.                                      *)
(*                                                                         *)
(* The amount of output that waits to be fetched is reported as an         *)
(* int32_t.  The theorems speak of behaviours in which it always fits; in  *)
(* the others, an amount may be taken for an error or for success.         *)
(***************************************************************************)
EXTENDS DecompressClient, TLAPS

\* No more output waits than half of the values of an int32_t.
AmountFits == output - fetched < IntRange \div 2

---------------------------------------------------------------------------
\* Lemmas.

\* An amount that fits is reported as it is.
LEMMA Int32Fits ==
  ASSUME NEW n \in Nat, n < IntRange \div 2
  PROVE  Int32(n) = n
<1>1. IntRange \in Nat /\ IntRange > 0 /\ IntRange \div 2 <= IntRange
  BY DecompressorAssumption
<1>2. n % IntRange = n
  BY <1>1
<1>. QED
  BY <1>2 DEF Int32

States == {"NeedsMoreInput", "FlushingOutput", "Succeeded", "Failed"}
Calls  == {"create", "get", "resume", "fetch"}

TypeOK ==
  /\ MyState \in States /\ BufferSize \in Nat
  /\ input \in [size : Nat, eof : BOOLEAN]
  /\ passes \in Nat /\ pending \in Nat /\ output \in Nat /\ fetched \in Nat
  /\ result \in [call : Calls, size : Nat, value : Int]

\* Once the interpreter is done, the pipe holds nothing back any more.
PipeIsEmptied == MyState \in {"FlushingOutput", "Succeeded"} => pending = 0

ApiInv == TypeOK /\ PipeIsEmptied /\ SuccessIsComplete /\ ResumeTellsTruth

\* What one call does, of any size.
Call(size) == GetBuffer(size) \/ Resume(size) \/ FetchOutput(size) \/ FetchRefused(size)

LEMMA ApiInit == Init => ApiInv
BY DecompressorAssumption
   DEF Init, ApiInv, TypeOK, States, Calls, PipeIsEmptied, SuccessIsComplete, ResumeTellsTruth

\* What the interpreter writes, and the end of it.
LEMMA ResumedType ==
  ASSUME TypeOK, NEW size \in Nat, Resumed(size),
         NEW n \in Nat, NEW through \in 0 .. pending + n, Wrote(n, through)
  PROVE  /\ input' \in [size : Nat, eof : BOOLEAN]
         /\ pending' \in Nat /\ output' \in Nat /\ output <= output'
         /\ through = pending + n => pending' = 0
         /\ fetched' = fetched /\ BufferSize' = BufferSize
<1>1. input' \in [size : Nat, eof : BOOLEAN]
  <2>1. CASE size = 0
    <3>1. input' = [input EXCEPT !.eof = TRUE]
      BY <2>1 DEF Resumed, Feed
    <3>. QED
      BY <3>1, Zenon DEF TypeOK
  <2>2. CASE size # 0
    BY <2>2 DEF TypeOK, Resumed, Feed
  <2>. QED
    BY <2>1, <2>2
<1>. QED
  BY <1>1 DEF TypeOK, Resumed, Wrote

LEMMA FlushKeeps ==
  ASSUME NEW size \in Nat, NEW left \in Nat, Flush(size, left)
  PROVE  /\ MyState' \in {"FlushingOutput", "Succeeded"}
         /\ result' \in [call : Calls, size : Nat, value : Int]
         /\ MyState' = "Succeeded" => left = 0 /\ result'.value = SUCCESS
         /\ MyState' = "FlushingOutput" => result'.value = left
BY DEF Flush, Returns, Calls, SUCCESS

LEMMA AmountReported ==
  ASSUME NEW out \in Nat, NEW got \in Nat, got <= out, out - got < IntRange \div 2
  PROVE  Int32(out - got) = out - got /\ out - got \in Nat
<1>1. out - got \in Nat
  OBVIOUS
<1>. QED
  BY <1>1, Int32Fits

LEMMA MoreOutputFits ==
  ASSUME ApiInv, AmountFits', output' \in Nat, output <= output', fetched' = fetched
  PROVE  /\ Int32(output' - fetched) = output' - fetched /\ output' - fetched \in Nat
         /\ fetched' <= output'
<1>1. output \in Nat /\ fetched \in Nat /\ fetched <= output
  BY DEF ApiInv, TypeOK, SuccessIsComplete
<1>2. fetched <= output'
  BY <1>1
<1>3. output' - fetched < IntRange \div 2
  BY DEF AmountFits
<1>. QED
  BY <1>1, <1>2, <1>3, AmountReported

LEMMA ResumeKeeps ==
  ASSUME ApiInv, AmountFits, AmountFits', NEW size \in Nat, Resume(size)
  PROVE  ApiInv'
<1>. USE DEF ApiInv
<1>1. CASE ResumeRefused(size)
  BY <1>1 DEF ResumeRefused, Returns, TypeOK, States, Calls, PipeIsEmptied,
       SuccessIsComplete, ResumeTellsTruth, ERROR, SUCCESS
<1>2. CASE ResumeFlushing(size)
  <2>1. Int32(output - fetched) = output - fetched /\ output - fetched \in Nat
    BY Int32Fits DEF TypeOK, SuccessIsComplete, AmountFits
  <2>2. Flush(size, output - fetched)
    BY <1>2, <2>1 DEF ResumeFlushing, getOutputSize
  <2>3. /\ result'.call = "resume" /\ pending = 0
        /\ UNCHANGED << BufferSize, input, passes, pending, output, fetched >>
    BY <1>2, <2>2 DEF ResumeFlushing, Flush, Returns, PipeIsEmptied
  <2>. QED
    BY <2>1, <2>2, <2>3, FlushKeeps DEF TypeOK, States, PipeIsEmptied,
         SuccessIsComplete, ResumeTellsTruth, CanFetch
<1>3. CASE ResumeAtEnd(size)
  BY <1>3 DEF ResumeAtEnd, Returns, TypeOK, States, Calls, PipeIsEmptied,
       SuccessIsComplete, ResumeTellsTruth, ERROR, SUCCESS
<1>4. ASSUME NEW n \in 0 .. MaxOutput - (pending + output), ResumeFinishes(size, n)
      PROVE  ApiInv'
  <2>1. n \in Nat /\ pending + n \in 0 .. pending + n
    BY <1>4, DecompressorAssumption DEF TypeOK
  <2>2. Resumed(size) /\ Wrote(n, pending + n) /\ Flush(size, Int32(output' - fetched))
    BY <1>4 DEF ResumeFinishes
  <2>3. /\ input' \in [size : Nat, eof : BOOLEAN] /\ pending' = 0
        /\ output' \in Nat /\ output <= output' /\ fetched' = fetched /\ BufferSize' = BufferSize
    BY <2>1, <2>2, ResumedType
  <2>4. /\ Int32(output' - fetched) = output' - fetched /\ output' - fetched \in Nat
        /\ fetched' <= output'
    BY <2>3, MoreOutputFits
  <2>5. Flush(size, output' - fetched) /\ passes' = passes /\ result'.call = "resume"
    BY <1>4, <2>2, <2>4 DEF ResumeFinishes, Flush, Returns
  <2>. QED
    BY <2>3, <2>4, <2>5, FlushKeeps DEF TypeOK, States, PipeIsEmptied,
         SuccessIsComplete, ResumeTellsTruth, CanFetch
<1>5. ASSUME NEW n \in 0 .. MaxOutput - (pending + output), NEW through \in 0 .. pending + n,
             ResumeFails(size, n, through)
      PROVE  ApiInv'
  <2>1. n \in Nat
    BY <1>5, DecompressorAssumption DEF TypeOK
  <2>2. Resumed(size) /\ Wrote(n, through)
    BY <1>5 DEF ResumeFails
  <2>3. /\ input' \in [size : Nat, eof : BOOLEAN] /\ pending' \in Nat
        /\ output' \in Nat /\ output <= output' /\ fetched' = fetched /\ BufferSize' = BufferSize
    BY <2>1, <2>2, ResumedType
  <2>. QED
    BY <1>5, <2>3 DEF ResumeFails, Returns, TypeOK, States, Calls, PipeIsEmptied,
         SuccessIsComplete, ResumeTellsTruth, ERROR
<1>6. ASSUME NEW n \in 0 .. MaxOutput - (pending + output), NEW through \in 0 .. pending + n,
             ResumeStops(size, n, through)
      PROVE  ApiInv'
  <2>1. n \in Nat
    BY <1>6, DecompressorAssumption DEF TypeOK
  <2>2. Resumed(size) /\ Wrote(n, through) /\ MyState = "NeedsMoreInput" /\ MyState' = MyState
    BY <1>6 DEF ResumeStops, Resumed
  <2>3. /\ input' \in [size : Nat, eof : BOOLEAN] /\ pending' \in Nat
        /\ output' \in Nat /\ output <= output' /\ fetched' = fetched /\ BufferSize' = BufferSize
    BY <2>1, <2>2, ResumedType
  <2>4. /\ Int32(output' - fetched) = output' - fetched /\ output' - fetched \in Nat
        /\ fetched' <= output'
    BY <2>3, MoreOutputFits
  <2>5. result' = [call |-> "resume", size |-> size, value |-> output' - fetched]
    BY <1>6, <2>4 DEF ResumeStops, Returns
  <2>6. passes' \in Nat
    BY <1>6 DEF ResumeStops, TypeOK
  <2>7. TypeOK'
    BY <2>2, <2>3, <2>4, <2>5, <2>6 DEF TypeOK, Calls
  <2>8. MyState' = "NeedsMoreInput" /\ CanFetch'
    BY <2>2 DEF CanFetch
  <2>9. PipeIsEmptied' /\ SuccessIsComplete'
    BY <2>4, <2>8 DEF PipeIsEmptied, SuccessIsComplete
  <2>10. result'.value >= 0 /\ result'.value = output' - fetched'
    BY <2>3, <2>4, <2>5
  <2>. QED
    BY <2>7, <2>8, <2>9, <2>10 DEF ResumeTellsTruth
<1>. QED
  BY <1>1, <1>2, <1>3, <1>4, <1>5, <1>6 DEF Resume

LEMMA CallKeeps ==
  ASSUME ApiInv, AmountFits, AmountFits', NEW size \in Nat, Call(size)
  PROVE  ApiInv'
<1>1. CASE Resume(size)
  BY <1>1, ResumeKeeps
<1>2. CASE GetBuffer(size)
  BY <1>2 DEF GetBuffer, Returns, ApiInv, TypeOK, Calls, PipeIsEmptied,
       SuccessIsComplete, ResumeTellsTruth
<1>3. CASE FetchOutput(size)
  <2>1. Int32(output - fetched) = output - fetched /\ output - fetched \in Nat
    BY Int32Fits DEF ApiInv, TypeOK, SuccessIsComplete, AmountFits
  <2>2. /\ size <= output - fetched /\ fetched' = fetched + size
        /\ MyState \in {"NeedsMoreInput", "FlushingOutput"}
        /\ result' = [call |-> "fetch", size |-> size, value |-> IF size # 0 THEN 1 ELSE 0]
        /\ UNCHANGED << MyState, BufferSize, input, passes, pending, output >>
    BY <1>3, <2>1 DEF FetchOutput, getOutputSize, CanFetch, Returns
  <2>3. TypeOK'
    BY <2>1, <2>2 DEF ApiInv, TypeOK, Calls
  <2>4. PipeIsEmptied' /\ SuccessIsComplete' /\ ResumeTellsTruth'
    BY <2>1, <2>2 DEF ApiInv, TypeOK, PipeIsEmptied, SuccessIsComplete, ResumeTellsTruth
  <2>. QED
    BY <2>3, <2>4 DEF ApiInv
<1>4. CASE FetchRefused(size)
  BY <1>4 DEF FetchRefused, CanFetch, Returns, ApiInv, TypeOK, States, Calls, PipeIsEmptied,
       SuccessIsComplete, ResumeTellsTruth
<1>. QED
  BY <1>1, <1>2, <1>3, <1>4 DEF Call

LEMMA ApiStutter ==
  ASSUME ApiInv, UNCHANGED vars
  PROVE  ApiInv'
BY DEF vars, ApiInv, TypeOK, PipeIsEmptied, SuccessIsComplete, ResumeTellsTruth, CanFetch

---------------------------------------------------------------------------
\* The C API.

LEMMA ApiInvariant == Spec /\ []AmountFits => []ApiInv
<1>1. ApiInv /\ AmountFits /\ AmountFits' /\ [Next]_vars => ApiInv'
  <2>1. SUFFICES ASSUME ApiInv, AmountFits, AmountFits', [Next]_vars PROVE ApiInv'
    OBVIOUS
  <2>2. CASE Next
    <3>1. PICK size \in Size : Call(size)
      BY <2>2 DEF Next, Call
    <3>. QED
      BY <2>1, <3>1, CallKeeps, DecompressorAssumption
  <2>. QED
    BY <2>1, <2>2, ApiStutter
<1>. QED
  BY <1>1, ApiInit, PTL DEF Spec

\* A decompressor that reports success (Decompress.cpp, flushOutput) has had all
\* its output fetched, with nothing left in the pipe, and never gave out a byte
\* that was not there.
THEOREM SuccessHolds == Spec /\ []AmountFits => []SuccessIsComplete
<1>1. ApiInv => SuccessIsComplete
  BY DEF ApiInv
<1>. QED
  BY <1>1, ApiInvariant, PTL

\* What resume_decompression returns is the amount that can be fetched, or the
\* truth about success and failure, as Decompress.h says.
THEOREM ResumeIsTrue == Spec /\ []AmountFits => []ResumeTellsTruth
<1>1. ApiInv => ResumeTellsTruth
  BY DEF ApiInv
<1>. QED
  BY <1>1, ApiInvariant, PTL

\* An amount that resume has reported can be fetched by the next call, whole or
\* in part.
THEOREM PromisesHold == Spec /\ []AmountFits => PromisesAreKept
<1>. DEFINE Kept == (/\ result.call = "resume" /\ result'.call = "fetch"
                     /\ 0 < result'.size /\ result'.size <= BufferSize
                     /\ result'.size <= result.value) => result'.value = 1
<1>1. ApiInv /\ AmountFits /\ [Next]_vars => [Kept]_vars
  <2>1. SUFFICES ASSUME ApiInv, AmountFits, Next,
                        result.call = "resume", result'.call = "fetch",
                        0 < result'.size, result'.size <= BufferSize, result'.size <= result.value
                 PROVE  result'.value = 1
    OBVIOUS
  <2>2. PICK size \in Size : Call(size)
    BY <2>1 DEF Next, Call
  <2>3. size \in Nat /\ result.value \in Int
    BY <2>1, <2>2, DecompressorAssumption DEF ApiInv, TypeOK
  <2>4. FetchOutput(size) \/ FetchRefused(size)
    BY <2>1, <2>2 DEF Call, GetBuffer, Resume, ResumeRefused, ResumeFlushing, ResumeAtEnd,
         ResumeFinishes, ResumeFails, ResumeStops, Flush, Returns
  <2>5. result'.size = size
    BY <2>4 DEF FetchOutput, FetchRefused, Returns
  <2>6. CanFetch /\ result.value = output - fetched
    BY <2>1, <2>3, <2>5 DEF ApiInv, ResumeTellsTruth, SUCCESS, ERROR
  <2>7. getOutputSize = output - fetched
    <3>1. output - fetched \in Nat
      BY <2>1 DEF ApiInv, TypeOK, SuccessIsComplete
    <3>. QED
      BY <2>1, <3>1, Int32Fits DEF AmountFits, getOutputSize
  <2>8. FetchOutput(size)
    BY <2>1, <2>3, <2>4, <2>5, <2>6, <2>7 DEF FetchRefused, ApiInv, TypeOK
  <2>. QED
    BY <2>1, <2>5, <2>8 DEF FetchOutput, Returns
<1>. QED
  BY <1>1, ApiInvariant, PTL DEF Spec, PromisesAreKept

---------------------------------------------------------------------------
\* The program.

Program == {"start", "collect", "write", "resume", "done", "gone"}

ClientTypeOK ==
  /\ pc \in Program \cup {"other"}
  /\ count \in Int /\ (pc \in {"start", "collect", "write", "resume"} => count \in Nat)
  /\ MoreInput \in BOOLEAN
  /\ infile \in Nat /\ CurSize \in 0 .. kBufSize /\ outfile \in Nat /\ warned \in BOOLEAN

\* What has been fetched is in the file or in the buffer of FileWriter, but for
\* the chunk that is to be written.
FetchedIsWritten ==
  /\ pc \in {"start", "collect", "resume"} => outfile + CurSize = fetched
  /\ pc = "write" => outfile + CurSize + ChunkSize = fetched

ClientInv == ApiInv /\ ClientTypeOK /\ FetchedIsWritten /\ ExitsTruthfully

LEMMA ChunkType ==
  count \in Nat => ChunkSize \in Nat /\ ChunkSize <= count /\ ChunkSize <= kBufSize
BY ClientAssumption DEF ChunkSize

LEMMA ClientStarts == ClientInit => ClientInv
<1>1. SUFFICES ASSUME ClientInit PROVE ClientTypeOK /\ FetchedIsWritten /\ ExitsTruthfully
  BY ApiInit DEF ClientInit, ClientInv
<1>2. infile \in Nat /\ 0 \in 0 .. kBufSize
  BY <1>1, ClientAssumption, DecompressorAssumption DEF ClientInit
<1>3. warned \in BOOLEAN /\ MoreInput \in BOOLEAN
  BY <1>1, Zenon DEF ClientInit
<1>4. /\ pc \in {"start", "other"} /\ count = 0
      /\ CurSize = 0 /\ outfile = 0 /\ fetched = 0
  BY <1>1 DEF ClientInit, Init
<1>. QED
  BY <1>2, <1>3, <1>4 DEF ClientTypeOK, Program, FetchedIsWritten, ExitsTruthfully, SUCCESS

LEMMA ClientKeeps ==
  ASSUME ClientInv, AmountFits, AmountFits', ClientNext
  PROVE  ClientInv'
<1>. USE DEF ClientInv, ClientTypeOK, Program
<1>1. CASE GetTheBuffer
  <2>1. ApiInv'
    BY <1>1, CallKeeps, ClientAssumption DEF GetTheBuffer, Call
  <2>. QED
    BY <1>1, <2>1 DEF GetTheBuffer, GetBuffer, FetchedIsWritten, ExitsTruthfully
<1>2. CASE FetchChunk
  <2>1. count \in Nat /\ ChunkSize \in Nat /\ ChunkSize <= count
    BY <1>2, ChunkType DEF FetchChunk
  <2>2. ApiInv'
    BY <1>2, <2>1, CallKeeps DEF FetchChunk, Call
  <2>3. CASE FetchOutput(ChunkSize) /\ pc' = "write" /\ UNCHANGED count
    <3>1. /\ ChunkSize' = ChunkSize /\ fetched' = fetched + ChunkSize
          /\ outfile' = outfile /\ CurSize' = CurSize
      BY <1>2, <2>3 DEF FetchChunk, ChunkSize, FetchOutput
    <3>2. outfile + CurSize = fetched
      BY <1>2 DEF FetchChunk, FetchedIsWritten
    <3>. QED
      BY <1>2, <2>1, <2>2, <2>3, <3>1, <3>2 DEF FetchChunk, FetchedIsWritten, ExitsTruthfully
  <2>4. CASE FetchRefused(ChunkSize) /\ pc' = "done" /\ count' = ERROR
    BY <1>2, <2>2, <2>4 DEF FetchChunk, FetchedIsWritten, ExitsTruthfully, ERROR, SUCCESS
  <2>. QED
    BY <1>2, <2>3, <2>4 DEF FetchChunk
<1>3. CASE WriteChunk
  <2>1. count \in Nat /\ ChunkSize \in Nat /\ ChunkSize <= count /\ ChunkSize <= kBufSize
    BY <1>3, ChunkType DEF WriteChunk
  <2>2. ApiInv'
    BY <1>3, ApiStutter DEF WriteChunk
  <2>3. outfile + CurSize + ChunkSize = fetched /\ fetched' = fetched /\ kBufSize \in Nat
    BY <1>3, ClientAssumption DEF WriteChunk, FetchedIsWritten, vars
  <2>4. CASE ChunkIsCopied /\ count' = count - ChunkSize /\ pc' = "collect"
    <3>1. /\ outfile' \in Nat /\ CurSize' \in 0 .. kBufSize
          /\ outfile' + CurSize' = outfile + CurSize + ChunkSize
      BY <2>1, <2>3, <2>4 DEF ChunkIsCopied, NeedsSaving, saveBuffer
    <3>2. count' \in Nat
      BY <2>1, <2>4
    <3>. QED
      BY <1>3, <2>2, <2>3, <2>4, <3>1, <3>2
         DEF WriteChunk, FetchedIsWritten, ExitsTruthfully, SUCCESS
  <2>5. CASE saveFails(kBufSize) /\ count' = ERROR - ChunkSize /\ pc' = "done"
    <3>1. outfile' \in Nat /\ CurSize' \in 0 .. kBufSize
      BY <2>3, <2>5 DEF saveFails
    <3>. QED
      BY <1>3, <2>1, <2>2, <2>5, <3>1
         DEF WriteChunk, FetchedIsWritten, ExitsTruthfully, ERROR, SUCCESS
  <2>. QED
    BY <1>3, <2>4, <2>5 DEF WriteChunk
<1>4. CASE FillBuffer
  <2>1. ApiInv'
    BY <1>4, ApiStutter DEF FillBuffer
  <2>2. PICK n \in Nat : /\ n <= infile /\ count' = n /\ infile' = infile - n
                         /\ MoreInput' = (MoreInput /\ n = MaxBufferSize)
    BY <1>4, ClientAssumption DEF FillBuffer
  <2>3. MoreInput' \in BOOLEAN
    BY <2>2
  <2>4. /\ outfile + CurSize = fetched /\ fetched' = fetched /\ pc' = "resume"
        /\ outfile' = outfile /\ CurSize' = CurSize /\ warned' = warned
    BY <1>4 DEF FillBuffer, FetchedIsWritten, vars
  <2>. QED
    BY <2>1, <2>2, <2>3, <2>4 DEF FetchedIsWritten, ExitsTruthfully, SUCCESS
<1>5. CASE ResumeClient
  <2>1. count \in Nat /\ outfile + CurSize = fetched
    BY <1>5 DEF ResumeClient, FetchedIsWritten
  <2>2. ApiInv'
    BY <1>5, <2>1, CallKeeps DEF ResumeClient, Call
  <2>3. fetched' = fetched /\ result'.call = "resume"
    BY <1>5 DEF ResumeClient, Resume, ResumeRefused, ResumeFlushing, ResumeAtEnd,
         ResumeFinishes, ResumeFails, ResumeStops, Resumed, Flush, Returns
  <2>4. /\ count' = result'.value /\ count' \in Int
        /\ pc' = IF count' >= 0 THEN "collect" ELSE "done"
        /\ UNCHANGED << MoreInput, infile, CurSize, outfile, warned >>
    BY <1>5, <2>2 DEF ResumeClient, ApiInv, TypeOK
  <2>5. ClientTypeOK' /\ FetchedIsWritten'
    BY <2>1, <2>3, <2>4 DEF FetchedIsWritten
  <2>6. ASSUME pc' = "done", count' = SUCCESS
        PROVE  MyState' = "Succeeded" /\ outfile' + CurSize' = output' /\ pending' = 0
    BY <2>1, <2>2, <2>3, <2>4, <2>6
       DEF ApiInv, ResumeTellsTruth, SuccessIsComplete, SUCCESS, ERROR
  <2>. QED
    BY <2>2, <2>4, <2>5, <2>6 DEF ExitsTruthfully
<1>6. CASE DestroyOutput
  <2>1. ApiInv'
    BY <1>6, ApiStutter DEF DestroyOutput
  <2>2. /\ pc = "done" /\ pc' = "gone" /\ count' = count /\ kBufSize \in Nat
        /\ UNCHANGED << MoreInput, infile, MyState, output, pending >>
    BY <1>6, ClientAssumption DEF DestroyOutput, vars
  <2>3. CurSize' = 0 /\ outfile' \in Nat
    BY <1>6 DEF DestroyOutput, saveBuffer, saveFails
  <2>4. \/ outfile' = outfile + CurSize /\ warned' = warned
        \/ warned' = TRUE
    BY <1>6, Zenon DEF DestroyOutput, saveBuffer
  <2>5. warned' \in BOOLEAN
    BY <2>4, Zenon
  <2>6. count = SUCCESS =>
          MyState = "Succeeded" /\ pending = 0 /\ outfile + CurSize = output
    BY <2>2 DEF ExitsTruthfully
  <2>7. outfile' = outfile + CurSize \/ warned'
    BY <2>4, Zenon
  <2>. QED
    BY <2>1, <2>2, <2>3, <2>5, <2>6, <2>7 DEF FetchedIsWritten, ExitsTruthfully
<1>7. CASE OtherCaller
  <2>1. PICK size \in Size : Call(size)
    BY <1>7 DEF OtherCaller, Next, Call
  <2>2. ApiInv'
    BY <2>1, CallKeeps, DecompressorAssumption
  <2>. QED
    BY <1>7, <2>2 DEF OtherCaller, cvars, FetchedIsWritten, ExitsTruthfully
<1>. QED
  BY <1>1, <1>2, <1>3, <1>4, <1>5, <1>6, <1>7 DEF ClientNext

LEMMA ClientInvariant == ClientSpec /\ []AmountFits => []ClientInv
<1>1. ClientInv /\ AmountFits /\ AmountFits' /\ [ClientNext]_<< vars, cvars >> => ClientInv'
  <2>1. SUFFICES ASSUME ClientInv, AmountFits, AmountFits', [ClientNext]_<< vars, cvars >>
                 PROVE  ClientInv'
    OBVIOUS
  <2>2. CASE UNCHANGED << vars, cvars >>
    <3>1. ApiInv'
      BY <2>1, <2>2, ApiStutter DEF ClientInv
    <3>2. /\ UNCHANGED << pc, count, MoreInput, infile, CurSize, outfile, warned >>
          /\ UNCHANGED << MyState, output, fetched, pending >>
      BY <2>2 DEF vars, cvars
    <3>. QED
      BY <2>1, <3>1, <3>2 DEF ClientInv, ClientTypeOK, FetchedIsWritten, ExitsTruthfully, ChunkSize
  <2>. QED
    BY <2>1, <2>2, ClientKeeps
<1>. QED
  BY <1>1, ClientStarts, PTL DEF ClientSpec

\* runUsingCApi returns EXIT_SUCCESS only with everything that the decompressor
\* wrote in the output file or in the buffer of FileWriter; what is then not in
\* the file when the program ends, ~FileWriter has warned of.  Whatever files,
\* failures and chunks there are.
THEOREM ExitIsTrue == ClientSpec /\ []AmountFits => []ExitsTruthfully
<1>1. ClientInv => ExitsTruthfully
  BY DEF ClientInv
<1>. QED
  BY <1>1, ClientInvariant, PTL
=============================================================================
