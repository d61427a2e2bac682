---------------------------- MODULE BackedQueue ----------------------------
(***************************************************************************)
(* decompress without --c-api, from file to file: a FileReader fills a     *)
(* ReadBackedQueue, a cursor runs ahead to have pages filled, bytes are    *)
(* read and written, and the pages of a WriteBackedQueue go to a           *)
(* FileWriter as they are let go of, the last ones when the program ends.  *)
(* What goes wrong before the verdict ends the program with fatal, which   *)
(* destroys nothing; what goes wrong in the destructors changes no exit    *)
(* status any more.                                                        *)
(*                                                                         *)
(* The algorithm that is run copies bytes.  The input ends, or breaks, at  *)
(* some place; the output device takes what it likes of each fwrite.       *)
(***************************************************************************)
EXTENDS Pages, SequencesExt

CONSTANTS kBufSize,          \* of FileReader and FileWriter
          kResumeHeadroom,   \* of ByteReader
          Pieces,            \* the most that the raw stream hands out at once
          Accepts            \* how many bytes the first fwrites may take

ASSUME BackedAssumption == kBufSize \in Nat \ {0} /\ kResumeHeadroom \in Nat \ {0}

VARIABLES file,          \* the input: its bytes, whether it breaks off there, and
                         \* the most that is handed out at once
          reader,        \* the FileReader, with its place in the file
          input,         \* the ReadBackedQueue
          FillCursor, ReadPos, FillPos,   \* of the ByteReader
          output,        \* the WriteBackedQueue
          WritePos,      \* of the ByteWriter
          writer,        \* the FileWriter
          device,        \* what is on the disk, what fwrites to come may take,
                         \* and whether one has refused all it was given
          phase

vars == << file, reader, input, FillCursor, ReadPos, FillPos,
           output, WritePos, writer, device, phase >>

\* The one element of a set of outcomes.
Only(S) == CHOOSE s \in S : TRUE

---------------------------------------------------------------------------
\* FileReader, on [reader, bytes]: what has been read and what is wanted yet.

\* A file that cannot be opened ends the program before anything is read.
NewReader == [at |-> 0, buffer |-> << >>, FoundErrors |-> FALSE, AtEof |-> FALSE]

fread(r) == SubSeq(file.bytes, r.at + 1, Lesser(r.at + kBufSize, Len(file.bytes)))

fillBuffer(r) ==
  LET buffer == fread(r)
      short  == Len(buffer) < kBufSize
  IN  [at |-> r.at + Len(buffer), buffer |-> buffer,
       FoundErrors |-> r.FoundErrors \/ (short /\ file.breaks),
       AtEof |-> r.AtEof \/ (short /\ (file.breaks \/ buffer = << >>))]

TakeBuffered(r, bytes, size) ==
  LET n == Lesser(size - Len(bytes), Len(r.buffer))
  IN  [r     |-> [r EXCEPT !.buffer = SubSeq(@, n + 1, Len(@))],
       bytes |-> bytes \o SubSeq(r.buffer, 1, n)]

\* Mutant: what is left in the buffer at the end of the file is not handed out.
readDropsTail(r, size) ==
  LET rounds[n \in 0 .. size + 1] ==
        IF n = 0 THEN [r |-> r, bytes |-> << >>]
        ELSE LET s == rounds[n - 1]
             IN  IF Len(s.bytes) = size \/ s.r.AtEof THEN s
                 ELSE IF size - Len(s.bytes) > Len(s.r.buffer) /\ Len(s.r.buffer) < kBufSize
                 THEN [r |-> fillBuffer(s.r), bytes |-> s.bytes]
                 ELSE TakeBuffered(s.r, s.bytes, size)
  IN  rounds[size + 1]

read(r, size) ==
  LET rounds[n \in 0 .. size + 1] ==
        IF n = 0 THEN TakeBuffered(r, << >>, size)
        ELSE LET s == rounds[n - 1]
             IN  IF Len(s.bytes) = size \/ s.r.AtEof THEN s
                 ELSE TakeBuffered(fillBuffer(s.r), s.bytes, size)
  IN  rounds[size + 1]

\* RawStream::read: a FileReader hands out as many bytes as it can; the
\* interface asks for one at least.
rawRead(r, size) == read(r, Lesser(size, file.piece))

---------------------------------------------------------------------------
\* ReadBackedQueue, on a source [q, r] of a queue and its reader.

spaceRemaining(q) == minAddressForPage(q.PageMap[q.LastPage].index + 1) - fillSize(q)

\* Mutant: the bytes go to the front of the page.
StoreAtFront(q, a, bytes) ==
  [q EXCEPT !.PageMap[q.LastPage].max = @ + Len(bytes),
            !.PageMap[q.LastPage].buf =
               [o \in Offset |-> IF o \in 0 .. Len(bytes) - 1 THEN bytes[o + 1] ELSE @[o]]]

\* The bytes go to the place of address "a" in the last page.
StoreAt(q, a, bytes) ==
  [q EXCEPT !.PageMap[q.LastPage].max = @ + Len(bytes),
            !.PageMap[q.LastPage].buf =
               [o \in Offset |-> IF o - PageAddress(a) \in 0 .. Len(bytes) - 1
                                 THEN bytes[(o - PageAddress(a)) + 1] ELSE @[o]]]

Room(q) == IF spaceRemaining(q) = 0
           THEN AppendUpTo(q, q.PageMap[q.LastPage].index + 1) ELSE q

Arrived(q, got, held, a) ==
  [q |-> IF got.bytes = << >> THEN freezeEof(q, held, a)[1] ELSE StoreAt(q, a, got.bytes),
   r |-> got.r]

FillRound(src, held, a) ==
  Only(UNION {{Arrived(q, got, held, a) : got \in {rawRead(src.r, spaceRemaining(q))}} :
                q \in {Room(src.q)}})

\* readFill: rounds until there is something at "a", or nothing any more.
readFill(src, held, a) ==
  LET rounds[n \in 0 .. 2 * PageSize] ==
        IF n = 0 THEN src
        ELSE LET s == rounds[n - 1]
             IN  IF a < fillSize(s.q) \/ s.q.EofFrozen THEN s ELSE FillRound(s, held, a)
  IN  rounds[2 * PageSize]

\* Queue::readFromPage: the page of an address is found once it is filled.
Filled(src, held, a) == IF a >= fillSize(src.q) THEN readFill(src, held, a) ELSE src

\* getReadPage of an address at most one page behind the last.
readFillToPage(src, held, a) ==
  IF PageIndex(a) > src.q.PageMap[src.q.LastPage].index THEN readFill(src, held, a) ELSE src

---------------------------------------------------------------------------
\* Cursors on the input, as [src, c] with c a cursor; "other" is the page of
\* the other cursor.

Guard(q, p) == Lesser(MaxAddress(q, p), q.Eof)
NewCursor(q) == [page |-> 0, addr |-> 0, guard |-> Guard(q, 0)]

\* Cursor::readFillBuffer; "found" is what it returns.
OntoPage(src, c, other, p) ==
  [src |-> [src EXCEPT !.q = Seek(@, {other}, p)], c |-> [c EXCEPT !.page = p], found |-> TRUE]

readFillBuffer(src, c, other) ==
  IF c.addr >= src.q.Eof THEN [src |-> src, c |-> c, found |-> FALSE]
  ELSE Only({IF c.addr < fillSize(full.q)
             THEN OntoPage(full, c, other, getCachedPage(full.q, {c.page, other}, c.addr))
             ELSE [src |-> full, c |-> c, found |-> FALSE] :
               full \in {Filled(src, {c.page, other}, c.addr)}})

Reguard(at) == [at EXCEPT !.c.guard = Guard(at.src.q, at.c.page)]

\* A round of ReadCursor::advance: to the end of the page, and onto the next.
ToNextPage(at, other, end) ==
  Only({[src |-> next, found |-> TRUE,
         c |-> [at.c EXCEPT !.page = getCachedPage(next.q, {at.c.page, other}, end), !.addr = end]] :
          next \in {readFillToPage(at.src, {at.c.page, other}, end)}})

AdvanceRound(src, c, other) ==
  Only({IF at.found THEN ToNextPage(at, other, MaxAddress(at.src.q, at.c.page)) ELSE at :
          at \in {readFillBuffer(src, c, other)}})

advance(src, c, other, distance) ==
  LET rounds[n \in 0 .. distance] ==
        IF n = 0 THEN [src |-> src, c |-> c, found |-> TRUE]
        ELSE LET s == rounds[n - 1]
             IN  IF s.found /\ s.c.addr < c.addr + distance /\ s.c.addr < s.src.q.Eof
                 THEN AdvanceRound(s.src, s.c, other) ELSE s
  IN  rounds[distance]

Source == [q |-> input, r |-> reader]
SetSource(src) == input' = src.q /\ reader' = src.r

---------------------------------------------------------------------------
\* FileWriter, on [w, d]: the writer and the device.

NewWriter == [buffer |-> << >>, warned |-> FALSE]

\* fwrite: what the device takes of the bytes, once they are in order.
Taken(d, n) == IF d.accepts = << >> THEN n ELSE Lesser(n, Head(d.accepts))
fwrite(d, bytes) ==
  [disk |-> d.disk \o SubSeq(bytes, 1, Taken(d, Len(bytes))),
   accepts |-> IF d.accepts = << >> THEN << >> ELSE Tail(d.accepts),
   refused |-> d.refused \/ Taken(d, Len(bytes)) = 0]

\* As long as it takes something, the rest is written again.
saveBuffer(s) ==
  LET rounds[n \in 0 .. kBufSize] ==
        IF n = 0 THEN [d |-> s.d, left |-> s.w.buffer, ok |-> TRUE]
        ELSE LET t == rounds[n - 1]
                 k == Taken(t.d, Len(t.left))
             IN  IF t.left = << >> \/ ~t.ok THEN t
                 ELSE IF k = 0 THEN [t EXCEPT !.d = fwrite(t.d, t.left), !.ok = FALSE]
                 ELSE [t EXCEPT !.d = fwrite(t.d, t.left), !.left = SubSeq(@, k + 1, Len(@))]
  IN  [s EXCEPT !.w.buffer = << >>, !.d = rounds[kBufSize].d, !.ok = rounds[kBufSize].ok]

\* The file is closed where all is saved.
freeze(s) == saveBuffer([s EXCEPT !.ok = TRUE])

writeOne(s, byte) ==
  LET saved == IF Len(s.w.buffer) = kBufSize THEN saveBuffer(s) ELSE s
  IN  IF ~s.ok THEN s
      ELSE IF ~saved.ok THEN saved
      ELSE [saved EXCEPT !.w.buffer = Append(@, byte)]

write(s, bytes) == FoldLeft(writeOne, [s EXCEPT !.ok = TRUE], bytes)

---------------------------------------------------------------------------
\* WriteBackedQueue::dumpFirstPage, for all the pages an operation has let go
\* of; "bad" says that one of them could not be written.
DumpPage(s, bytes) ==
  LET written == write(s, bytes)
  IN  [written EXCEPT !.bad = s.bad \/ ~written.ok]

Dump(was, is) ==
  FoldLeft(DumpPage, [w |-> writer, d |-> device, ok |-> TRUE, bad |-> FALSE],
           SubSeq(is.dumped, Len(was.dumped) + 1, Len(is.dumped)))

\* Mutant: a page that cannot be written does not fail the queue.
FailIfBadForgets(q, s) == q

FailIfBad(q, s) == IF s.bad THEN fail(q) ELSE q

SetDumped(s) == writer' = s.w /\ device' = s.d

\* WriteCursor::writeByte: room for a page at a time.
FullUpTo(a) == a = MaxAddress(output, WritePos.page) /\ a >= WritePos.guard

PageToWrite(room, a) == IF FullUpTo(a) THEN getCachedPage(room, {WritePos.page}, a)
                        ELSE WritePos.page

WriteByte(byte) ==
  \E a \in {WritePos.addr} :
  \E room \in {writeFill(output, a + PageSize)} :
  \E p \in {PageToWrite(room, a)} :
  \E q \in {IF FullUpTo(a) THEN Seek(room, {}, p) ELSE output} :
  \E s \in {Dump(output, q)} :
  \E good \in {FailIfBad(q, s)} :
    /\ output' = [good EXCEPT !.PageMap[p].buf[PageAddress(a)] = byte]
    /\ WritePos' = [page |-> p, addr |-> a + 1,
                    guard |-> IF a < WritePos.guard THEN WritePos.guard ELSE Guard(good, p)]
    /\ SetDumped(s)

---------------------------------------------------------------------------
Init ==
  /\ file \in [bytes : {[i \in 1 .. n |-> i] : n \in {m \in Byte : m <= kMaxEofAddress - PageSize}},
               breaks : BOOLEAN, piece : Pieces]
  /\ reader = NewReader
  /\ input = NewQueue /\ output = NewQueue
  /\ FillCursor = NewCursor(NewQueue) /\ ReadPos = NewCursor(NewQueue)
  /\ WritePos = NewCursor(NewQueue)
  /\ FillPos = 0
  /\ writer = NewWriter
  /\ device \in [disk : {<< >>}, accepts : Accepts, refused : {FALSE}]
  /\ phase = "filling"

\* canProcessMoreInputNow, on the queue as it is filled then.
CanProcess(q) == q.EofFrozen \/ fillSize(q) >= ReadPos.addr + kResumeHeadroom

\* A round of algorithmReadBackFilled: readFillMoreInput, and the beginning of
\* algorithmResume.
FillMore ==
  /\ phase = "filling"
  /\ \E at \in {IF FillCursor.addr = input.Eof THEN [src |-> Source, c |-> FillCursor]
               ELSE advance(Source, FillCursor, ReadPos.page, PageSize)} :
        /\ SetSource(at.src)
        /\ FillCursor' = at.c
  /\ FillPos' = IF ~input'.EofFrozen /\ CanProcess(input')
                THEN fillSize(input') - kResumeHeadroom ELSE fillSize(input')
  /\ phase' = IF CanProcess(input') THEN "running" ELSE "filling"
  /\ UNCHANGED << file, ReadPos, output, WritePos, writer, device >>

\* stillMoreInputToProcessNow.
StillMore == ReadPos.addr <= FillPos

WaitForInput ==
  /\ phase = "running" /\ ~StillMore
  /\ phase' = "filling"
  /\ UNCHANGED << file, reader, input, FillCursor, ReadPos, FillPos,
                  output, WritePos, writer, device >>

\* atInputEob as the algorithm asks for it before each byte: a fill may find
\* the end of the file.
LookForEob == IF ReadPos.addr < ReadPos.guard
              THEN [src |-> Source, c |-> ReadPos, found |-> TRUE]
              ELSE Reguard(readFillBuffer(Source, ReadPos, FillCursor.page))

\* A byte is read and written.  A queue that has failed makes the writer
\* refuse, and the interpreter stop.
CopyByte ==
  /\ phase = "running" /\ StillMore
  /\ \E at \in {LookForEob} :
        /\ at.found
        /\ SetSource(at.src)
        /\ ReadPos' = [at.c EXCEPT !.addr = @ + 1]
        /\ WriteByte(at.src.q.PageMap[at.c.page].buf[PageAddress(at.c.addr)])
  /\ phase' = IF output'.Good THEN "running" ELSE "failed"
  /\ UNCHANGED << file, FillCursor, FillPos >>

\* writeFreezeEof at the end of the input, and processedInputCorrectly.
Finish ==
  /\ phase = "running" /\ StillMore
  /\ \E at \in {LookForEob} :
        /\ ~at.found
        /\ SetSource(at.src) /\ ReadPos' = at.c
  /\ \E q \in {freezeEof(output, {WritePos.page}, WritePos.addr)[1]} :
     \E s \in {Dump(output, q)} :
        /\ output' = IF s.bad THEN [q EXCEPT !.Good = FALSE] ELSE q
        /\ SetDumped(s)
        /\ phase' = IF ~s.bad /\ ReadPos'.addr = input'.Eof /\ input'.Good
                    THEN "finished" ELSE "failed"
  /\ UNCHANGED << file, FillCursor, FillPos, WritePos >>

\* The end of a decompression without errors, its exit status being success by
\* then: the cursors go, the output queue is closed, and the FileWriter, which
\* goes last, saves what it still holds and can only warn.  A queue that fails
\* here is asked no more, and a buffer that could not be saved is empty
\* afterwards, so there may be nothing to warn of.
Destroy ==
  /\ phase = "finished"
  /\ \E q \in {close(output, {})} :
     \E s \in {Dump(output, q)} :
     \E saved \in {freeze(s)} :
        /\ output' = FailIfBad(q, s)
        /\ writer' = [saved.w EXCEPT !.warned = ~saved.ok]
        /\ device' = saved.d
  /\ phase' = "gone"
  /\ UNCHANGED << file, reader, input, FillCursor, ReadPos, FillPos, WritePos >>

Next == FillMore \/ WaitForInput \/ CopyByte \/ Finish \/ Destroy

Spec == Init /\ [][Next]_vars

---------------------------------------------------------------------------
\* Properties.

\* The bytes of the output queue that have not been dumped.
Undumped ==
  IF output.FirstPage = Null THEN << >>
  ELSE FlattenSeq([i \in 1 .. (output.LastPage - output.FirstPage) + 1 |->
                     PageBytes(output.PageMap[output.FirstPage + (i - 1)])])

Copied == SubSeq(file.bytes, 1, WritePos.addr)
Outcome == device.disk \o writer.buffer \o Undumped

\* Unless the queue has failed or the writer has warned, each byte of the file
\* is in one of the three places between it and the disk, in its order: fills
\* of pieces of a page, partial writes and dumped pages lose and swap nothing.
AccountedFor ==
  (output.Good /\ ~writer.warned) => IsPrefix(Copied, Outcome)

\* What is reported is true when it is decided: nothing has been refused by then,
\* and the whole file, as far as it could be read, is on the disk or on its way
\* there, a refused page having ended the program.  What still has to be written
\* is lost only if the device refuses it from then on, in the destructors, of
\* which the exit status tells nothing: partial writes lose nothing.
LostOnlyInDestructors ==
  /\ phase = "finished" => ~device.refused /\ Outcome = file.bytes
  /\ (phase = "gone" /\ ~device.refused) => device.disk = file.bytes

\* The end of the input is found where it is, and nowhere else.
ReadsToTheEnd == phase = "finished" => ReadPos.addr = Len(file.bytes)
=============================================================================
