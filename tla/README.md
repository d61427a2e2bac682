# A TLA+ model of the WebAssembly decompressor prototype

The repository is a prototype of a layered compressor for WebAssembly: a file
starts with algorithms (trees in a small language), which an interpreter runs
over the rest of the file to reproduce the original bytes; a compressor finds
integer patterns, assigns abbreviations to them and writes the algorithm that
undoes this. This directory models its core in TLA+, checks it with TLC and
proves part of it with TLAPS. Everything is translated from the source, commit
as found in `src/`; file names below are relative to `src/src/`.

Contents: [inventory](#inventory), [modules](#modules-and-what-they-stand-for),
[runs](#runs), [assumptions](#assumptions-fairness-and-bounds),
[proofs](#proofs), [findings](#findings), [not modelled](#not-modelled),
[plan](#plan).

## Inventory

One thread runs everything. What makes the code hard is not parallelism but
**interleaved cursors** (many positions on one queue, each a lock on a page and
each with a cached limit), **resumable computation** (an interpreter that keeps
its own stacks, so that it can stop when the input runs out and go on later),
**deferred effects** (bytes leave a queue only when no cursor needs them any
more) and **a client that calls in any order**.

| Component | State | Operations | Interacts with | Hard behaviour | What makes it correct |
|---|---|---|---|---|---|
| Paged queue (`stream/Queue`, `Page`, `PageAddress`) | `PageMap` of weak pointers, chain `FirstPage`..`LastPage`, `Eof`, `EofFrozen`, `Status` | append, dump, get a page, fill, freeze, close, fail | cursors; subclasses override `dumpFirstPage`, `readFill` | pages live exactly as long as somebody points at them; reads and writes dump pages of others; address space ends | a byte stays at its address until dumped, is dumped as last written, once, in order; locked pages stay; end of file holds |
| Cursors (`PageCursor`, `Cursor`, `ReadCursor`, `WriteCursorBase`, `WriteCursor`, `WriteCursor2ReadQueue`, `BlockEob`) | page, address, guaranteed limit, end of block | make, copy, assign, swap, jump, read, peek, advance, write, freeze, fail | one queue | cached limits, failing over to the error page, saved positions | an address is on the page locked; readers stop at the end of file |
| Pipe (`stream/Pipe`) | two queues and `WritePos` | construct, dump a page (copy), read, destroy | ByteWriter in, Decompressor out | bytes are copied in the middle of another cursor's write | a FIFO byte channel in which what may still be patched is held back |
| Backed queues, raw streams | a queue, a buffer and a file | `readFill`, `dumpFirstPage` | files | short reads, failed writes | no byte is lost or swapped unnoticed; the end is found where it is |
| Integer streams (`interp/IntStream`, `IntReader`, `IntWriter`) | header, values, nested blocks, positions | write, open and close blocks, freeze; read, enter, leave; peek; tables | interpreter, compressor | empty and touching blocks, reused scratch streams | blocks nest; what is written is read back |
| IntInterpreter | frame machine below | `structuralRead` | IntReader, any Writer | resumable nesting, refusals half way, empty blocks at the end of others | the writer sees the stream in order |
| Interpreter (`interp/Interpreter`) | frames and a stack per kind of saved value | call, return, fail and catch, peek, loops, blocks, selectors | Reader, Writer, selectors, symbol tables | stacks agree at every state and on every way out | same pushes and pops; a failed selector undoes its peeking |
| ByteReader, ByteWriter, bit cursors | positions, half read bytes, block starts, tables, saved positions | values in every format, bits, blocks, peek | interpreter, queues | headroom, backpatched and minimised blocks, bits | what is written is the encoding, and is read back |
| Number formats | none | LEB128, fixed width | cursors | shifts, sign extension | decoding undoes encoding |
| TeeWriter | a list of writers | each call on each writer | writers | one of several fails | all see the same calls |
| Selectors (`DecompressSelector`, `AlgorithmSelector`) | queue of algorithms, intermediate stream, saved writer | configure, reset, apply data | interpreter | swapping and putting back | each layer is applied once, in order |
| Decompressor C API (`interp/Decompress`) | state, buffer, pipe, output position | get buffer, resume, fetch, status | client, pipe, interpreter | any order of calls, sizes in two widths | the reported amount can be fetched; success means complete |
| `decompress` program | loop | fetch, write, fill, resume | C API, files | end of file on a buffer's edge, failed writes | ends; exits with success only with all output written, as far as can be known then |
| Compressor (`intcomp/`) | counting trie, heap, abbreviations, buffered values | count, trim, collect, select, write, reassign, generate | integer streams | overlapping patterns, passes that change weights | counts are those of the input; the cover chosen is the cheapest; expanding the output gives the input |
| Huffman encoder, containers | heaps, tree; circular vector | build, flatten, limit; push, pop | compressor | depth limits, back pointers | prefix free, within the limit; order |
| Symbol tables, algorithm trees (`sexp/Ast`) | trees, scopes, cached definitions, numbers of actions, a registry by name | enclose, install, look up, strip | interpreter, casm, programs | stale caches, scopes moved later, trees changed in place | a name means its innermost definition; actions are told apart; stripping keeps the meaning |
| Flatten and inflate (`casm/`) | stacks of values and trees, a table of names | write a node, apply an operator | interpreter | order of kids, counts in the input | a tree is inflated as it was, or not at all |
| Text form, programs, utilities | | | | | printing, generated parsers, arguments: not modelled |

`PROJECT.json` has the files of each component, its status, and, under
`hazards`, the lines where each hard behaviour bites, with the properties that
watch over it.

## Modules and what they stand for

| Module | Stands for | State |
|---|---|---|
| `Pages` | `Queue`, `Page`, `PageAddress` as operators on a record | none: a queue is a value |
| `Queue` | one queue and its cursors | `queue`, `cursor`, history `written` |
| `ByteChannel` | abstract: what a pipe promises | `contents`, `delivered`, `taken`, `closed` |
| `Pipe` | `Pipe`: `Queue` as the input, and a second queue fed by what the first dumps | `Queue`'s, `output` and `ocursor`, history `taken`, the fate of the object |
| `IntStream` | `IntStream` and its cursors as operators on records | none |
| `StructuralRead` | abstract: what `structuralRead` passes on of a stream | none |
| `IntCopy` | an IntWriter, then `IntInterpreter::structuralRead` with an IntReader into a Writer | stream, positions, frame stack, local values; histories |
| `Decompressor` | the C API object, with any interpreter behind it | `MyState`, buffer size, bytes fed, held back, out, fetched |
| `DecompressClient` | `runUsingCApi` with its `FileWriter`, composed with `Decompressor` | `pc` and the loop's variables, the buffer and the file |
| `Interpreter` | `interp/Interpreter`, one turn of the loop of `algorithmResume` a step, with its Reader and Writer | `task` (what is run), `filled` (how much input has come), `vm` (every stack, the Reader's position, the Writer's output) |
| `Meaning` | abstract: what an algorithm tree does, by recursion | none |
| `Selection` | `GetAlgorithm` of the interpreter and `DecompressSelector`: from one layer of the input to the next | that of `Interpreter`, and the selectors' `sel` |
| `Formats` | LEB128 and fixed width integers, `IntTypeFormats` | none |
| `ByteCopy` | `ByteWriter` and `ByteReader` with their bit cursors, on bytes | the bytes, both positions, block starts; histories |
| `BackedQueue` | `decompress` from file to file: `FileReader`, `ReadBackedQueue`, `WriteBackedQueue`, `FileWriter` | the files, both queues (`Pages`), cursors, buffers |
| `Ast` | the nodes of algorithm trees, by their kinds | none |
| `Casm` | `FlattenAst`, `SymbolIndex`, `InflateAst`, and the two algorithms between them | the integers read, stacks of values and trees, names |
| `SymbolTable` | `SymbolTable` and the nodes' checks; the reading and stripping of `cast2casm`, the tables of `decompress` | the tables, the registry, who reads them |
| `Heap`, `CircularVector`, `Huffman`, `CountTrie`, `AbbrevSelector` | `utils/heap.h`; `utils/circular-vector.h`; `HuffmanEncoding`; counting and trimming; the search for a cover | none |
| `Compress` | `IntCompressor` with the collector and the `AbbrevAssignWriter` | the phase, the trie, the heap, assignments, buffers, output |
| `AbbreviationCodegen` | the algorithm put in front of the compressed integers, as what it does with them | that of `Compress` |
| `MC*` | instances for TLC | |
| `PagesProofs`, `QueueProofs` | lemmas about `Pages`; theorems about `Queue` | |
| `PipeProofs` | theorems about `Pipe`, over `QueueProofs`; the refinement of `ByteChannel` | |
| `DecompressClientProofs`, `IntCopyProofs`, `CircularVectorProofs` | theorems about the modules they are named for, and `Decompressor` | |
| `InterpreterProofs`, `SelectionProofs` | the steps of `Interpreter` and of `Selection`; the theorem is in the second | |

**Queue.** A queue is a record whose fields are the class's members. `PageMap`
maps page indices to pages; `size` is the length of the vector. A page is alive
while the chain or a cursor refers to it (`Live`), which is what `lock()` on a
weak pointer tells the code. `shared_ptr::use_count()` of the first page, which
decides whether the page may be dumped, is `Shared`. Every call of a cursor is
one action: reading a byte contains the fill, the move to the next page and the
dump of the pages behind, because the code does all of that in the call.
`written` is a history variable that the code does not have; `dumped` is what
subclasses get to see in `dumpFirstPage`. Each cursor caches `guard`
(`GuaranteedBeforeEob`) and goes on without a check until it gets there.

**Pipe.** `InputStep` is a step of a `Queue` followed by the copying of
everything that step dumped through `WritePos`, as the virtual call in the
middle of `dumpPreviousPages` does. The module extends `Queue`, whose variables
are the input; the output is a record with its two cursors (`WriteOne` is
`WritePos->writeByte`), and its reader takes the step `ReadByte` of an instance of
`Queue`. The refinement mapping to `ByteChannel` reads the contents of both queues
off their dumped and their live pages.

**Integer streams.** Blocks are named by their position in
`IntStream::Blocks`; a read cursor has the two iterators over it that are taken
on its construction. `IntCopy` has one action per `case` of `structuralResume`,
a call of the Writer being part of the action that makes it, and the Writer may
refuse. A refused value or end of file is thrown out of; a refused block enter or
exit is `decode::fatal`, after which the process is gone and nothing undone
(`Exited`). `StructuralRead` says, of the calls that wrote a stream, which calls
come of them: empty blocks that end others come late, or never.

**Interpreter.** `vm` has one field for each member of the class that is a
stack, under its name, and the `CallFrame`s have theirs. There is one action
for each `case` of the two switches of `algorithmResume` (on the method, and,
for `Eval`, on the type of the node), with a disjunct for each state of the
call, so that `EvalWrite`, say, can be read beside the code. `Call`, `Return`,
`Throw`, `Fail` and `Reset` are the methods they are named after. A value is one element
of the input, whatever its format: what is read and in which order matters
here, how it is encoded does not. The input arrives in any pieces; the end of
it is known with the last. `CanStep` is the pair of tests by which a Reader
stops the loop with some headroom left. A task is a tree, an input, headers and
definitions; the symbol table is the function `defs`.

`Meaning` says what the same tree does without frames, stacks or resuming: a
recursive function of a node, a mode and an environment. Arguments are closures
there, where the interpreter looks for their frame. An algorithm fails where a
bit is read that is not there.

**Selection.** `SelectionStep` replaces the steps of `Interpreter` that call a
selector. A symbol table is what the interpreter asks of it: two headers, the
definition of `file`, the others, and whether it is an algorithm of algorithms.
What inflates to which algorithm is a table of the task (`Casm` is about that),
and the layers go on through `IntStream`s as sequences of what was written.
`Meaning` says what a chain of layers does: each is run once, on what the one
before it has made.

**Bytes.** `Formats` has the loops of `FormatHelpers-templates.h` as recursive
operators on words of any width, negative numbers by their two's complement.
`ByteCopy` has a cursor with the bits of a byte it has seen and not passed on
(`CurWord`, `NumBits`), and one action per call of the Writer and of the
Reader; closing a block patches its size or moves it. `Encode` says what all
that comes to, without cursors. `BackedQueue` uses `Pages` for both queues;
`device` is how much of each `fwrite` the disk takes. A failure before the verdict
is `fatal`, that is `exit`, which destroys nothing; only a program that reports
success gets to its destructors (`Destroy`).

**Trees.** A node is a record of its type, its kids, and what literals,
integers and symbols have besides (`Ast`). `Casm` flattens a tree to headers,
names and postorder, and has an action for each way that the algorithms
`casm0x0` and `casm0x0Boot` end a node: reading the operator, its count or
value, and calling `InflateAst`, which works on `Values` and `Asts`.

**Symbol tables.** A table is a record; `defs` are the `SymbolDefn`s with
what has been cached in them, `enc` is the enclosing table's number. `read` is
the tree before it was standardised and stripped, a history variable. One action
reads a file: it parses the file and what it includes, registers the tables,
and installs, which recursively encloses, installs others, binds, numbers and
validates, all in the one call. A search through the scopes makes a symbol of the
name in each table it comes through (`WithSymbols`), which is what a rename asks
for. What is found is compared with `BoundDefine`,
`BoundLiteral` and `BoundAction`, which look at trees only.

**Compression.** Each pass over the input is a run of steps (`CountValue`,
`Collect`, `WriteValue`, ...), one per integer, node or decision. Sets
that the code orders by address are sets, and it is what is put in the heap
that decides. The passes are over what `structuralRead` hands over (`Delivered`),
by the definition that `int_copy` checks `IntCopy` against. `Expanded` runs the
generated algorithm on the output.

**Decompressor.** Bytes are counted. What the interpreter does with the input
is left open: after each resume any number of bytes has been written, any part
of it has passed the pipe, and the interpreter wants more, has finished or has
failed. `Int32` is the conversion of `size_t` to `int32_t`. The client is
composed by conjunction: each of its steps that calls the API *is* that step
of `Decompressor`. `FileWriter` has a buffer of its own: a chunk is copied there,
an `fwrite` can fail only when the buffer is full and more comes, or in
`DestroyOutput`, behind the result. `OtherCaller` is any other program, calling in any order.

## Runs

| Run | Question | Distinct states |
|---|---|---|
| `queue_in` | a decoder's input: one writer growing by bytes, a reader and a saved position, in any order of making, copying, swapping, jumping, reading, advancing, releasing, freezing, closing | 51,402 |
| `queue_out` | a ByteWriter's output: growth by pages, a backpatch position behind the writer | 98,216 |
| `pipe` | two queues back to back implement `ByteChannel` | 49,133 |
| `int_copy` | every stream of up to eight calls is walked as it was written, but for empty blocks that end others, which come late or never; refusals included; the walk ends | 585,794 |
| `client` | the C API under the client's loop and under every other sequence of calls; short files, writes that fail in the loop or in the destructor; the loop ends | 38,990 |
| `interpreter` | some 5,500 tasks: every node type, in twos and threes, over inputs of up to five values, in any pieces, and inputs of several layers whose algorithms are chosen by header: the machine does what `Meaning` says, its stacks agree with its frames at every step, it ends | 186,754 |
| `interp_departs` | what the documentation says of the interpreter and the code does not do: see [findings](#findings) | (violation) |
| `bytes` | every script of up to five values, bits, alignments and block marks: what is written is the encoding, what is read back is what was written | 255,740 |
| `backed` | files that end or break anywhere, through queues and buffers to a disk that takes what it likes, until the destructors have run | 12,112 |
| `trees` | some 450 algorithms flattened, and inflated by either algorithm | 21,186 |
| `compress` | every input of up to six values, of four with blocks, and of three with an empty block at the end, under six sets of flags | 74,544 |
| `symbols` | some 160 algorithms installed in up to two others that include, name or come before them, then stripped in each order that `cast2casm` allows | 24,076 |

Each property of a passing run has a mutant in `PROJECT.json`: a definition of
the model replaced by a plausible wrong version of it (just
before the definition, marked "Mutant"), under which TLC finds the property violated.

## Assumptions, fairness and bounds

What the models assume of callers is a constant or a named guard:

* `UseBroken = FALSE`: callers stop using a cursor that has failed. A failed
  cursor sits behind the last address of the error page, and `writeByte`
  through it runs off that page. Every caller in the repository stops.
* `LateWrites = FALSE`: nobody writes at or past a frozen end of file. The code
  does not notice all such writes (`WriteCursorBase.cpp:41`).
* `Backpatch`: some cursors only write behind others, as block sizes are
  patched. They start as copies, as in `ByteWriter`.
* `MayFreeze`: the end of file is frozen once (or again at the same place) and
  at a place no cursor has passed.
* `EmptyAtEnd = TRUE` in `int_copy`: an empty block may lie at the end of the block
  around it, where it is passed on late, or never (`IntInterpreter.cpp:101`);
  `PassesLateOrNever` says what becomes of it. `CopiesInOrder` claims that all comes
  back in order, and `OutputDecodes` that the input itself does, only where there
  is no such block (`NoBlockEndsEmpty`).
* Input is whole: `trees` inflates what was flattened from a tree, `bytes` reads
  numbers as they are written. Damaged counts, which `InflateAst` does not check
  (`InflateAst.cpp:118`), and LEB128 numbers that are too long never occur.
* The files of `client` and `backed` could be opened; `fclose`, whose result the code
  ignores (`FileWriter.cpp:86`), loses nothing.
* The tasks of `interpreter` are those that `MCInterpreter` builds. They leave
  out what `interp_departs` is about, and `RunEnds` excludes the reads of bits
  that are not there by name (`OutOfBits`): the bit cursor fails then, moves
  behind everything, and the interpreter is resumed for ever
  (`ByteReader.cpp:117`). Half of the tasks succeed, the others fail in one of
  the ways there are.
* Between two layers: an intermediate stream holds no blocks, a code is one
  value in it, and no algorithm reads behind its end, which the code only
  asserts. Algorithms of data read to the end of their input, as the `file`
  loops of `wasm0xd` and `cism0x0` do. What an inflated algorithm uses is defined
  in it or around it (a failed installation is fatal).
* The client's loop ends if the interpreter does (`MaxPasses`).
* `FreezeUnaligned = FALSE`: a writer is aligned when the end is frozen.
  `writeFreezeEof` does not align by itself.
* `OutputDecodes` does not speak of `MatchSingletonsLast`, nor of abbreviations
  that are numbered like a special one and stand for one (`SpecialsClash`):
  both are among what was seen below. Abbreviations and the specials of the
  compressed form are so few that the numbers of the others stay free
  (`CompressAssumption`).
* `WrittenInstallsAgain` and `StripKeepsMeaning` leave out trees in which
  stripping leaves out an argument or a body (`IsStrippable`), and the first one
  tables with actions that were numbered.
* `RoomLeft`, in the proofs: the stream stays off the last page of the address
  space. In the code this is 2^64 - 2^16 bytes away; the runs go there.

**Bounds.** Page sizes of 3 or 4 bytes and 3 or 4 pages: enough for a page
with bytes before, on and behind it, for a cursor at each place of a page, for
growth across two page ends, and for the end of the address space, where the
sums wrap. Two cursors of the kind that matters (reader and saved reader;
writer and backpatch), because the hazards are about one cursor moving what
another holds. Eight calls on an integer stream: three nested or touching
blocks with a value, two with values between, or two empty ones that end two others. A decompressor with up to 5
bytes of input and of output and a buffer of 2: buffers that are full, short
and empty, output taken in one piece and in several. `FileWriter`'s buffer of 3
is saved in the middle of the output and at its end, and never divides with the
chunks of 2 (both are 4096 in the code). `IntRange` 16 stands for 2^32, with output
below its half: no run goes beyond. Values of the
interpreter have two bits: enough for a case that matches, one that does not
and a loop that runs zero, one and several times. `Headroom` is 2, the longest
binary encoding, as 100 bytes are more than any single step reads. Bytes of
`ByteCopy` and of the compressor have three bits, words two or three bytes:
enough for numbers of one byte and of several, with a sign bit of their own or
not, and for blocks whose size takes less room than was left for it. Pages of 3
bytes and buffers of 2 never end together. Paths of Huffman codes have up to 4
bits, with enough symbols for a tree that must be flattened and for one that
cannot be. At most three tables: one between a table and its outermost scope.

**Fairness.** `IntCopy` assumes weak fairness of `Reading`, because
`structuralReadBackFilled` is a loop that calls `structuralResume` until the
interpreter is finished. `Interpreter` assumes weak fairness of `Step` and of
`MoreInput`: `algorithmReadBackFilled` fills and resumes in turn.
`DecompressClient` assumes weak fairness of
`ClientNext`: it is a sequential program. Nothing is assumed of the client of
`Decompressor` or of the users of a queue: no liveness is claimed there.

`CHECK_DEADLOCK FALSE` where a system may stop: a queue that is closed and has
no cursors left, a pass that has ended, a program that is done.

## Proofs

### Queues

`QueueProofs` proves, for every page size, number of pages, set of cursors,
growth (by bytes or by pages) and set of bytes, the invariants that `queue_in`
and `queue_out` check: `TypeOK`, `PageMapAligned`, `ChainIntact`,
`LockedPagesStay`, `CursorOnPage`, `BytesStayPut`, `ClosedComplete`,
`ReadersBeforeEof` and `FailsOnlyAtEof`. Each theorem reads

    ASSUME Contract PROVE Spec /\ []RoomLeft => []P

where `Contract` is `~UseBroken /\ ~LateWrites`.

None of these is inductive. `ReadersBeforeEof` depends on the guards readers
have cached, these on where the last page ended at the time, that on the chain;
`BytesStayPut` depends on no write going to a page that has been dumped, that on
`LockedPagesStay`, that on addresses being on the page they claim. The
inductive invariant `IInv` puts together

* `QueueOk`: the record is well formed (`WellFormed` in `Pages`: aligned map,
  intact chain, full pages), pages and dumps hold what was written (`Kept`),
  the end of file is where the last page ends once frozen in good order, and
  at `kMaxEofAddress` before (`EofOk`), and a closed queue has dumped it all;
* `CursorOk` for each cursor: on a page of the chain, on the page of its
  address, never past what has been filled, and its guard never past the page
  and, for readers and before the freeze, never past what has been filled.

`PagesProofs` shows what each operation of a queue keeps: `writeFill`
(`AppendUpTo`), `dumpPreviousPages` (that it stops before any held page),
`freezeEof` (that cutting the chain leaves the rest intact), `close`.
`QueueProofs` then takes the actions one by one. The proofs use page arithmetic
(division by a positive constant) through a few lemmas at the start of
`PagesProofs`.

### Pipe

`PipeProofs` proves, for every page size, number of pages, set of bytes and set
of write cursors, of which any may save positions and go back to them,

    PipeSpec => IsChannel
    PipeSpec => []BlocksHeldBack
    PipeSpec => []PipeTypeOK

The first is the refinement: a step of `PipeSpec` puts bytes into the channel,
closes it, takes the next byte, or changes nothing that the channel shows.
`PipeAssumption` says who works on the input, as in every program here: write
cursors that extend it by pages, keep to the contract, and no reader. The inductive
invariant `PipeInv` puts together `IInv` of the input, `Whole` (all that was
dumped were full pages, but for the last of a closed queue) and, of the output,
that there is a `v` such that

* its pages hold `v` (`OutputOk`: `QueueOk` of `QueueProofs`, for a queue of which no
  history is kept), it is open, `WritePos` is at its end and the reader on a page
  of the chain;
* it is as long as what has left the input (`Through`), and `v` agrees so far
  with what was written on the input (`Agree`);
* `taken` is the beginning of that, up to the reader.

That `v` agrees with `written` has to survive what is written later, behind a
cursor that went back: it does because what was dumped is history (`Grows`), and
`DumpedRight` of `IInv` says before and after the step that this history is what
was written (`InputFlows`). The text of a queue is joined from its pages
(`FlatText`, `DumpedPart`, `BytesText`), and the copying is a recursive function
(`WriteAll`), of which the proof follows each byte by a least counterexample
(`WriteAllOk`). No `[]RoomLeft` is needed here: the bound is in the guard of
`InputStep`.

### The C API and its client

`DecompressClientProofs` is about `Decompressor`, and about `DecompressClient`
over it, for every size of buffers, files and output, every `IntRange` and every
`MaxPasses`:

    Spec       /\ []AmountFits => []SuccessIsComplete
    Spec       /\ []AmountFits => []ResumeTellsTruth
    Spec       /\ []AmountFits => PromisesAreKept
    ClientSpec /\ []AmountFits => []ExitsTruthfully

`AmountFits` says that what waits to be fetched is less than half of `IntRange`.
`resume_decompression` returns it as an `int32_t`; without it the theorems are
false (an amount of 2^32 - 1 is reported as success, see below). The run stays
below it. `ExitsTruthfully` claims what the program can know: when the result is
decided as success, what the decompressor wrote has been taken by the file or is
in `FileWriter`'s buffer; once that is destroyed too it is all in the file, or a
warning has been written, with the exit status as it was. The inductive invariant `ApiInv` ties the result of the last call to
the state it left: the pipe is emptied (`pending = 0`) once the state is
`FlushingOutput`, success has nothing left to fetch, and an amount was reported
only by a resume whose output is still there. `ClientInv` adds, for each place
in the loop of `runUsingCApi`, what the client has of the output: everything
fetched is in the file, in `FileWriter`'s buffer or the chunk about to be written.

### Integer streams

`IntCopyProofs` proves, of a pass of `IntInterpreter` over a stream that an
`IntWriter` wrote, with any number of values and of blocks, nested as deep as one
likes, any header, and a Writer that may refuse at any call (a value, which is
thrown out of, or a block, which ends the process):

    ~EmptyAtEnd /\ Spec => [](CopiesWritten /\ CopiesInOrder)
    ~EmptyAtEnd /\ Spec => []FailsOnlyIfRefused
    ~EmptyAtEnd /\ Spec => []StacksMatch
    ~EmptyAtEnd /\ Spec => []ReadsInBounds

The last is stated beside its proof: the asserts of `IntStream::ReadCursor::read`
hold. None of the four is inductive: the reader knows blocks by number and by the
places where they begin and end, the writer's calls are in no variable it sees.
`IInv` says that there is a history of the writer, `idx`, `enc` and `opn`: where
it was after each of its calls, which blocks were open and how many had been
opened, such that

* each call moved it as it must (`Stepped`), later blocks begin no earlier
  (`Placed`), and the stream holds what each call put there (`Kept`);
* a reader that has made the first `j` calls again is where the writer was after
  them, and each method that is active has, for each block around that place, a
  frame on `FrameStack` and its end on `LocalValues` (`Midway`, method by method
  of `structuralResume`).

Each step then is either silent or makes call `j + 1`, which the proof reads off
`Stepped` and `Kept`. `EmptyAtEnd` is a constant; where it is TRUE (a block may
end right behind an empty one) `CopiesWritten` is false:
the reader cannot tell on which side of an end the empty block belongs. The
other three need the assumption only because their proof goes through the order
of the calls. What holds instead of it, `PassesLateOrNever`, is model-checked.
`StacksMatch` claims empty stacks of a pass that has succeeded or was thrown out of,
and nothing of a process that has exited.

### The interpreter

`InterpreterProofs` and `SelectionProofs` prove that in every state every stack
of the interpreter is as high as the frames on `FrameStack` need it to be:

    SelectionSpec => []StacksMatchFrames

for all tasks, trees and definitions of any size, values of any width, all inputs
in any pieces and any chain of layers. `TasksAssumption` and
`SelectorsAssumption` say of a task that it has its fields, starts with one of
the three methods, and that what is installed has a header to read, which
validation asks for (`sexp/Ast.cpp:2362`); of trees nothing is assumed. TLC
checks both for the tasks of `MCInterpreter`.

The theorem is about ways out. A method that returns pops what it pushed, which can
be read off its code; but `Throw` leaves any number of methods in the middle,
and takes the frames down to one that catches. The inductive invariant says why
this does not leave anything behind:

* `Heights`: how high each stack is, by the number of frames that have
  something on it (`Has`), which the method, the state of the call and the type of
  the node tell. Unlike `StacksMatchFrames`, it speaks of one frame at a time, so
  that a step is compared with what the frames on top have before and after it.
* `Catches`: nothing is caught but by the second frame, `HasFileHeader` or
  `GetAlgorithm` while it tries a header (`InMode`), or by the header above it;
  there are at most three frames then, none of which has pushed what the catcher
  does not pop. Elsewhere a failure finds nobody and resets the machine.
* `Counts`: the selector that is tried is a number on the stack of loop counters.
* `LocalsBounded`: local values are cut back to a base on `LocalsBaseStack` when a
  definition returns, so that one has to know where the frames below began: there
  are heights `h` and positions `p` of the bases, one per frame, that the values
  and the bases respect. This is what makes the local values empty when nothing
  is called, even though `bitwise.negate` pops a value that it did not push.
* `Begun`: what is being tried is what the task starts with.

`SelectionProofs` adds what a selector does to the task and to the Writer
(`IsTask`, `IsSel`), and that a decompression which has failed stays failed.

### Containers

`CircularVectorProofs` shows, for every bound, every place of the start and all
values, that `push_back`, `push_front`, `pop_front`, `pop_back`, `at`, `front`,
`back`, `empty` and `full` do to the sequence of the elements
(`Elements`) what their names say, a full vector losing the value at its other end,
and that `contents.at` never throws. It rests on three lemmas about the remainder
of a sum: it goes round at most once, two places differ, and the places seen
from the next start are those seen from this one. This is why the properties of
`AbbreviationCodegen` may take the buffer for a sequence.

### What is only model-checked

The modules that are recursive (`Meaning`, `Formats`, `Ast`, `Huffman`, the
compressor, and those above them), of which this prover can show nothing;
`BackedQueue`, whose invariants have not been attempted; and all liveness, which
is beyond it. Where induction over numbers is needed it is by a least
counterexample (`LeastNat` in `PagesProofs`).

## Findings

Where the code does not do what its comments, its documentation or its own
structure says. All are shown by run `interp_departs`.

| Tasks | What the code does |
|---|---|
| `WriteTasks` | `write` writes what was read last, not the value of its expression, when that is a local |
| `ContextTasks` | a call within an argument expression finds its own arguments in the wrong frame |
| `NegateTasks` | `bitwise.negate` pops a local that it did not push |
| `NotTasks` | `not` returns its argument |
| `BlockTasks` | peeking at a block writes a block |
| `SelectionTasks` | with two algorithms in front of the data, the first that is run leaves through `resetData`, which finds no final symbol table: the decompression fails |

TLC stops at the first violation. Each set of tasks named in the table violates
`MatchesMeaning` by itself, in the place of `DepartTasks`.

More was seen on the way, of which, but for the first, no run makes a claim:

* Integer streams. A stream is not always read "based on [its] structure"
  (`IntInterpreter.h:42`): a block is left as soon as the reader is at its end, so
  that an empty block there is passed on behind it and, at the end of the stream, not
  at all, while the pass succeeds (`PassesLateOrNever`). A stream compressed that
  ends in such a block comes back without it.
* Queues. `writeByte` looks at the end of file only at a page's end
  (`WriteCursorBase.cpp:41`); a write before the frozen end fails if
  `writeFill` wants a whole page (`Queue.cpp:163`). A `Pipe` whose input was not
  closed flushes it through `WritePos` after that has been destroyed
  (`Pipe.cpp:57`; `Destroy` marks it). A read error looks like the end of the
  file; a page that could not be written is followed by the next.
* Files. `FileWriter` writes its last buffer when it is destroyed, after the exit
  status has been decided: a disk that is full by then leaves a short file and an
  exit status of success, with a warning. In the direct mode there may not even be
  that: the queue dumps its last pages from its destructor, a write that fails there
  empties the buffer, and nobody asks the queue any more
  (`WriteBackedQueue.cpp:32`, `FileWriter.cpp:47`). An output file that cannot be
  opened becomes `/dev/null`, which `runUsingCApi` does not notice. `fatal` in the
  direct mode leaves what was buffered unwritten.
* C API. An amount of output that an `int32_t` cannot hold is reported as an
  error or as success (`Decompress.cpp:64`). `fetchOutput` makes a bool of the
  amount fetched (`Decompress.cpp:172`). It has selectors for `casm0x0` and
  `wasm0xd` only: what `decompress` compresses with `cism0x0` needs the direct
  mode, which in turn exits with success if it cannot open a file
  (`decompress.cpp:248`).
* Interpreter. The result of `writeHeaderValue` is ignored
  (`Interpreter.cpp:810`). After the final layer the original input is
  dropped, so that what follows the data is not noticed. `FlattenAst` writes
  `Opcode`, which `InflateAst` refuses, and the reading algorithms have no case
  for `ParamCached`, `ParamExprsCached`, `ParamArgs` and `UnknownSection`.
* Compressor. `IsSingle = (NumLeadingDefaultValues = 0)` assigns
  (`AbbrevSelector.cpp:205`). `select` keeps `UsableMin` and returns `Min`.
  `MatchSingletonsLast` appends an abbreviation per chosen value to the
  output (`AbbrevAssignWriter.cpp:311`). Block marks are counted twice when
  patterns are longer than one. An abbreviation of a block, a default or an
  alignment that is numbered like another special loses its meaning.
  Flattening refuses 2^limit symbols, which would fit (`HuffmanEncoding.cpp:163`).
* Symbol tables. `Param::validateNode` returns after the first node around
  it, so no parameter is refused (`Ast.cpp:1709`). `Undefine` hides nothing that
  encloses. Naming several enclosing algorithms moves the tables already
  installed, clears them, and can make scopes go round; tables that are to
  enclose each other recurse without end. Numbers given to actions skip those
  that are predefined but not those called by number, which is then fatal, and
  change when definitions are stripped. Stripping takes an argument out of its
  list of kids. `DecompressSelector` does not ask whether an algorithm was
  installed. `Opcode` can never be installed: no format has the width it asks
  for. `BinaryAccept(Value, NumBits)` passes `NumBits` as `isDefault`.

## Not modelled

Tracing, printing, argument parsing, allocation, and the generated parser have
no protocol of their own. `cast2casm` generates C++ text. `TeeWriter` is a loop
per method that stops at the first refusal, and only used to print what is
written. Inside the modelled components, `PROJECT.json` names what is left out
(its `note`s): above all inner blocks of a queue's cursors, peeking into the
blocks of integer streams, and writers that refuse the interpreter. Of the
circular vector, what the compressor does not call (`clear`, `resize`, `swap`). Of a symbol
table, the literals that a node caches and the names of files.

## Plan

Built, in this order, each on the one before: `Pages`, `Queue` (the data all
else moves through), `Pipe` over `ByteChannel`, `IntStream` and `IntCopy`,
`Decompressor` and `DecompressClient`, `Interpreter` over `Meaning`; then
`ByteCopy` over `Formats`, `BackedQueue` over `Pages`, `Casm` over `Ast`,
`Compress` with its parts, `SymbolTable`, and `Selection` over `Interpreter`.

There are a dozen runs, one per question, so that all of them can be run on every change.

Proved: `Queue`, `Pipe` over `ByteChannel`, `DecompressClient` over
`Decompressor`, `IntCopy`, `Interpreter` with `Selection`, and `CircularVector`.
What a proof could still reach is `BackedQueue`, that it loses nothing
(`AccountedFor`), from the lemmas of `PagesProofs`.
