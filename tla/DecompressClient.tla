-------------------------- MODULE DecompressClient --------------------------
(***************************************************************************)
(* runUsingCApi of exec/decompress.cpp, the one client of the C API in the *)
(* repository: a loop that takes what output there is, fills the buffer    *)
(* from the input file, and resumes; and the FileWriter, which writes the  *)
(* output file through a buffer of its own and saves the last of it when   *)
(* it is destroyed, behind the result.  Another program may call anything. *)
(***************************************************************************)
EXTENDS Decompressor

CONSTANTS MaxBufferSize,   \* the size of the buffer
          kBufSize,        \* the size of the buffer of FileWriter
          FileSizes,       \* the sizes that the input file may have
          WriteMayFail     \* may writing the output file fail?

ASSUME ClientAssumption ==
  /\ MaxBufferSize \in Nat \ {0}
  /\ kBufSize \in Nat /\ MaxBufferSize <= kBufSize     \* both 4096 in the code
  /\ FileSizes \subseteq 0 .. MaxInput
  /\ WriteMayFail \in BOOLEAN

VARIABLES pc,
          count,           \* the local variable BufferSize
          MoreInput,
          infile,          \* bytes left in the input file
          CurSize,         \* bytes in the buffer of FileWriter
          outfile,         \* bytes that fwrite took for the output file
          warned           \* has ~FileWriter written its warning?

cvars == << pc, count, MoreInput, infile, CurSize, outfile, warned >>

ClientInit ==
  /\ Init
  /\ pc \in {"start", "other"} /\ count = 0 /\ MoreInput = TRUE
  /\ infile \in (IF pc = "start" THEN FileSizes ELSE {0})
  /\ CurSize = 0 /\ outfile = 0 /\ warned = FALSE

ChunkSize == IF count < MaxBufferSize THEN count ELSE MaxBufferSize

---------------------------------------------------------------------------
GetTheBuffer ==
  /\ pc = "start" /\ pc' = "collect"
  /\ GetBuffer(MaxBufferSize)
  /\ UNCHANGED << count, MoreInput, infile, CurSize, outfile, warned >>

\* Collect output if available.
FetchChunk ==
  /\ pc = "collect" /\ count > 0
  /\ \/ FetchOutput(ChunkSize) /\ pc' = "write" /\ UNCHANGED count
     \/ FetchRefused(ChunkSize) /\ pc' = "done" /\ count' = ERROR
  /\ UNCHANGED << MoreInput, infile, CurSize, outfile, warned >>

\* FileWriter::saveBuffer: fwrite takes all of the buffer, or stops before it
\* has; it is empty then.
saveBuffer(size) == outfile' = outfile + size
saveFails(size) ==
  WriteMayFail /\ CurSize' = 0 /\ \E taken \in 0 .. size - 1 : outfile' = outfile + taken

\* FileWriter::write copies a chunk behind what is there; the buffer is saved
\* when it is full and there is more.
NeedsSaving == CurSize + ChunkSize > kBufSize
ChunkIsCopied ==
  IF NeedsSaving
  THEN saveBuffer(kBufSize) /\ CurSize' = CurSize + ChunkSize - kBufSize
  ELSE CurSize' = CurSize + ChunkSize /\ UNCHANGED outfile

\* Mutant: a failed write goes unnoticed.
WriteUnchecked ==
  /\ pc = "write"
  /\ ChunkIsCopied \/ (NeedsSaving /\ saveFails(kBufSize))
  /\ count' = count - ChunkSize /\ pc' = "collect"
  /\ UNCHANGED << vars, MoreInput, infile, warned >>

\* A failed write goes on with BufferSize = DECOMPRESSOR_ERROR - ChunkSize.
WriteChunk ==
  /\ pc = "write"
  /\ \/ ChunkIsCopied /\ count' = count - ChunkSize /\ pc' = "collect"
     \/ /\ NeedsSaving /\ saveFails(kBufSize)
        /\ count' = ERROR - ChunkSize /\ pc' = "done"
  /\ UNCHANGED << vars, MoreInput, infile, warned >>

\* Fill the buffer with more input: FileReader::read gives all that is asked
\* for, or what is left.
FillBuffer ==
  /\ pc = "collect" /\ count = 0
  /\ LET n == IF ~MoreInput THEN 0
              ELSE IF infile < MaxBufferSize THEN infile ELSE MaxBufferSize
     IN  /\ count' = n /\ infile' = infile - n
         /\ MoreInput' = (MoreInput /\ n = MaxBufferSize)
  /\ pc' = "resume"
  /\ UNCHANGED << vars, CurSize, outfile, warned >>

ResumeClient ==
  /\ pc = "resume"
  /\ Resume(count)
  /\ count' = result'.value
  /\ pc' = IF count' >= 0 THEN "collect" ELSE "done"
  /\ UNCHANGED << MoreInput, infile, CurSize, outfile, warned >>

\* The result stands.  ~FileWriter saves what is left, and warns if it cannot.
DestroyOutput ==
  /\ pc = "done" /\ pc' = "gone"
  /\ \/ saveBuffer(CurSize) /\ CurSize' = 0 /\ UNCHANGED warned
     \/ saveFails(CurSize) /\ warned' = TRUE
  /\ UNCHANGED << vars, count, MoreInput, infile >>

\* Any other program, that calls what it likes.
OtherCaller == pc = "other" /\ Next /\ UNCHANGED cvars

ClientNext ==
  \/ GetTheBuffer \/ FetchChunk \/ WriteChunk \/ FillBuffer \/ ResumeClient \/ DestroyOutput
  \/ OtherCaller

\* A program: it runs on as long as it can.
ClientSpec == ClientInit /\ [][ClientNext]_<< vars, cvars >>
                         /\ WF_<< vars, cvars >>(ClientNext)
---------------------------------------------------------------------------
\* Properties.

\* The program exits with EXIT_SUCCESS only if the decompressor has succeeded,
\* and all that it wrote is in the output file or still in the buffer of
\* FileWriter: when that is gone, in the file, unless ~FileWriter has warned.
ExitsTruthfully ==
  count = SUCCESS =>
    /\ pc \in {"done", "gone"} => MyState = "Succeeded" /\ pending = 0
    /\ pc = "done" => outfile + CurSize = output
    /\ pc = "gone" => outfile = output \/ warned

\* The program ends, whatever the interpreter does with the input, as long as
\* that ends too once it has all of it.
ClientEnds == pc = "start" ~> pc = "gone"
=============================================================================
