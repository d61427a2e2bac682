---------------------------- MODULE Decompressor ----------------------------
(***************************************************************************)
(* The C API of the decompressor, interp/Decompress.{h,cpp}: an object     *)
(* that a client feeds with input through a buffer, resumes, and takes     *)
(* output from, until it succeeds or fails.                                *)
(*                                                                         *)
(* Bytes are counted, not stored: Queue and Pipe are about the bytes.      *)
(* What Interpreter::algorithmResume does with the input is left open: it  *)
(* may stop for more, fail or finish after any number of bytes written.    *)
(***************************************************************************)
EXTENDS Integers

CONSTANTS Size,        \* the sizes that a client passes
          MaxInput,    \* bound on the bytes a client feeds
          MaxOutput,   \* bound on the bytes the interpreter writes
          MaxPasses,   \* bound on how often the interpreter stops once it
                       \* has all of the input
          IntRange     \* the number of values of an int32_t

ASSUME DecompressorAssumption ==
  /\ Size \subseteq Nat
  /\ MaxInput \in Nat /\ MaxOutput \in Nat /\ MaxPasses \in Nat
  /\ IntRange \in Nat /\ IntRange % 2 = 0 /\ IntRange > 4

VARIABLES MyState, BufferSize,
          input,      \* Input and InputPos: bytes written, whether frozen
          passes,     \* times the interpreter may still stop after that
          pending,    \* bytes of output that the pipe still holds back
          output,     \* bytes that have come out of the pipe ...
          fetched,    \* ... and how many of them OutputPos has read
          result      \* what the last call returned

vars == << MyState, BufferSize, input, passes, pending, output, fetched, result >>

SUCCESS == -1
ERROR   == -2

Init ==
  /\ MyState = "NeedsMoreInput" /\ BufferSize = 0
  /\ input = [size |-> 0, eof |-> FALSE]
  /\ passes = MaxPasses
  /\ pending = 0 /\ output = 0 /\ fetched = 0
  /\ result = [call |-> "create", size |-> 0, value |-> 0]

---------------------------------------------------------------------------
\* The difference of two size_t, returned as an int32_t.
Int32(n) == LET m == n % IntRange IN IF m < IntRange \div 2 THEN m ELSE m - IntRange

getOutputSize == Int32(output - fetched)

Returns(call, size, value) ==
  result' = [call |-> call, size |-> size, value |-> value]

GetBuffer(size) ==
  /\ BufferSize' = IF size <= BufferSize THEN BufferSize ELSE size
  /\ Returns("get", size, 0)
  /\ UNCHANGED << MyState, input, passes, pending, output, fetched >>

---------------------------------------------------------------------------
\* resume_decompression, one action per outcome.
Refuses(size) == size > 0 /\ (input.eof \/ size > BufferSize)

\* Size 0 freezes and closes the input; bytes are copied from the buffer.
Feed(size) == IF size = 0 THEN [input EXCEPT !.eof = TRUE]
              ELSE [input EXCEPT !.size = @ + size]

\* The interpreter runs on what it has been fed and writes bytes, of which the
\* pipe lets some through.
Resumed(size) ==
  /\ MyState = "NeedsMoreInput" /\ ~Refuses(size)
  /\ input' = Feed(size) /\ input'.size <= MaxInput
  /\ UNCHANGED << BufferSize, fetched >>

Wrote(n, through) ==
  /\ n > 0 => input'.size > 0
  /\ pending' = pending + n - through
  /\ output' = output + through

ResumeRefused(size) ==
  /\ MyState = "NeedsMoreInput" /\ Refuses(size)
  /\ MyState' = "Failed"
  /\ Returns("resume", size, ERROR)
  /\ UNCHANGED << BufferSize, input, passes, pending, output, fetched >>

ResumeFails(size, n, through) ==
  /\ Resumed(size) /\ Wrote(n, through)
  /\ MyState' = "Failed"
  /\ Returns("resume", size, ERROR)
  /\ UNCHANGED passes

\* With all of the input at hand, the interpreter only stops where it goes on
\* with an intermediate stream (DecompressSelector::resetData).
ResumeStops(size, n, through) ==
  /\ Resumed(size) /\ Wrote(n, through)
  /\ IF input'.eof THEN passes > 0 /\ passes' = passes - 1 ELSE UNCHANGED passes
  /\ Returns("resume", size, Int32(output' - fetched))
  /\ UNCHANGED MyState

\* Mutants: success before, and never after, the output has been fetched.
FlushAtOnce(size, left) == MyState' = "Succeeded" /\ Returns("resume", size, left)

FlushForever(size, left) == MyState' = "FlushingOutput" /\ Returns("resume", size, left)

\* flushOutput, with "size" bytes left.
Flush(size, left) ==
  IF left # 0
  THEN MyState' = "FlushingOutput" /\ Returns("resume", size, left)
  ELSE MyState' = "Succeeded" /\ Returns("resume", size, SUCCESS)

\* Mutant: the pipe is not closed.
FinishUnclosed(size, n) ==
  /\ Resumed(size) /\ Wrote(n, 0)
  /\ Flush(size, Int32(output' - fetched))
  /\ UNCHANGED passes

\* Closing the pipe lets all of it through.
ResumeFinishes(size, n) ==
  /\ Resumed(size) /\ Wrote(n, pending + n)
  /\ Flush(size, Int32(output' - fetched))
  /\ UNCHANGED passes

ResumeFlushing(size) ==
  /\ MyState = "FlushingOutput"
  /\ Flush(size, getOutputSize)
  /\ UNCHANGED << BufferSize, input, passes, pending, output, fetched >>

ResumeAtEnd(size) ==
  /\ MyState \in {"Succeeded", "Failed"}
  /\ Returns("resume", size,
             IF MyState = "Succeeded" /\ size = 0 THEN SUCCESS ELSE ERROR)
  /\ UNCHANGED << MyState, BufferSize, input, passes, pending, output, fetched >>

Resume(size) ==
  \/ ResumeRefused(size) \/ ResumeFlushing(size) \/ ResumeAtEnd(size)
  \/ \E n \in 0 .. MaxOutput - (pending + output) :
       \/ ResumeFinishes(size, n)
       \/ \E through \in 0 .. pending + n :
            ResumeFails(size, n, through) \/ ResumeStops(size, n, through)

---------------------------------------------------------------------------
\* fetch_decompressor_output.
CanFetch == MyState \in {"NeedsMoreInput", "FlushingOutput"}

\* Mutant: off by one at the end of the output.
FetchRefusedAtEnd(size) ==
  /\ ~CanFetch \/ size > BufferSize \/ size >= getOutputSize
  /\ MyState' = IF CanFetch THEN "Failed" ELSE MyState
  /\ Returns("fetch", size, 0)
  /\ UNCHANGED << BufferSize, input, passes, pending, output, fetched >>

\* The int32_t that is returned as a bool.
FetchOutput(size) ==
  /\ CanFetch /\ size <= BufferSize /\ size <= getOutputSize
  /\ fetched' = fetched + size
  /\ Returns("fetch", size, IF size # 0 THEN 1 ELSE 0)
  /\ UNCHANGED << MyState, BufferSize, input, passes, pending, output >>

FetchRefused(size) ==
  /\ ~CanFetch \/ size > BufferSize \/ size > getOutputSize
  /\ MyState' = IF CanFetch THEN "Failed" ELSE MyState
  /\ Returns("fetch", size, 0)
  /\ UNCHANGED << BufferSize, input, passes, pending, output, fetched >>

Next == \E size \in Size :
  GetBuffer(size) \/ Resume(size) \/ FetchOutput(size) \/ FetchRefused(size)

Spec == Init /\ [][Next]_vars
---------------------------------------------------------------------------
\* Properties.

\* A decompressor that says it has succeeded has had every byte it wrote
\* fetched: none is held back by the pipe, none was left behind.  None was
\* fetched that was not there, for which ReadCursor gives zeros.
SuccessIsComplete ==
  /\ fetched <= output
  /\ MyState = "Succeeded" => pending = 0 /\ fetched = output

\* Decompress.h: "If non-negative, returns the number of output bytes
\* available to fetch [...]. If negative, either DECOMPRESSOR_SUCCESS or
\* DECOMPRESSOR_ERROR", whichever is true.
ResumeTellsTruth ==
  result.call = "resume" =>
    \/ result.value >= 0 /\ result.value = output - fetched /\ CanFetch
    \/ result.value = SUCCESS /\ MyState = "Succeeded"
    \/ result.value = ERROR /\ (MyState = "Failed" \/ result.size # 0)

\* What resume has promised can be fetched, in pieces that fit the buffer.
PromisesAreKept ==
  [][(/\ result.call = "resume" /\ result'.call = "fetch"
      /\ 0 < result'.size /\ result'.size <= BufferSize
      /\ result'.size <= result.value) => result'.value = 1]_vars
=============================================================================
