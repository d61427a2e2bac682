------------------------------- MODULE Queue -------------------------------
(***************************************************************************)
(* One byte queue and the cursors on it: class Queue with the cursors of   *)
(* stream/{PageCursor,Cursor,ReadCursor,WriteCursorBase,WriteCursor,       *)
(* WriteCursor2ReadQueue}.{h,cpp}.                                         *)
(*                                                                         *)
(* A cursor is the only lock on a page: it holds a shared_ptr to it.       *)
(* Cursors are made at the front of the queue, copied (saved positions,    *)
(* backpatch positions), moved by reading and writing, and destroyed, in   *)
(* any order; every call below is one action, since the queue is not       *)
(* thread safe and its callers take turns.                                 *)
(***************************************************************************)
EXTENDS Pages

CONSTANTS Writers, Readers, \* names of write cursors and of read cursors
          Backpatch,        \* the write cursors that only write behind others
          Grow,             \* how far a write cursor extends the queue:
                            \* PageSize (WriteCursor) or 1 (WriteCursor2ReadQueue)
          Data,             \* the byte each write cursor writes
          UseBroken,        \* do callers go on with a cursor that has failed?
          LateWrites        \* do callers write at or past the frozen end of file?

Cursors == Writers \cup Readers

ASSUME QueueAssumption ==
  /\ Writers \cap Readers = {} /\ Backpatch \subseteq Writers
  /\ Grow \in {1, PageSize}
  /\ Data \in [Writers -> Byte]
  /\ UseBroken \in BOOLEAN /\ LateWrites \in BOOLEAN

VARIABLES queue,    \* the Queue object
          cursor,   \* the cursors; page = Null where none is constructed
          written   \* history: what was last written at each address, by page

vars == << queue, cursor, written >>

NoCursor == [page |-> Null, addr |-> 0, guard |-> 0]

Init ==
  /\ queue = NewQueue
  /\ cursor = [c \in Cursors |-> NoCursor]
  /\ written = [i \in PageId |-> [o \in Offset |-> Zero]]

---------------------------------------------------------------------------
Held       == {cursor[c].page : c \in Cursors} \ {Null}
HeldBut(c) == {cursor[d].page : d \in Cursors \ {c}} \ {Null}

IsOpen(c) == cursor[c].page # Null
Usable(c) == IsOpen(c) /\ (UseBroken \/ cursor[c].page # ErrorPage)
IsClosed  == queue.FirstPage = Null

\* updateGuaranteedBeforeEob: how far the cursor may go without a check.
Guard(q, p) == Lesser(MaxAddress(q, p), q.Eof)

Place(q, p, a) == [page |-> p, addr |-> a, guard |-> Guard(q, p)]

\* Mutant: an off-by-one at the end of a page.
isIndexPastEndOfPage(c) == cursor[c].addr > MaxAddress(queue, cursor[c].page)

isIndexAtEndOfPage(c) == cursor[c].addr = MaxAddress(queue, cursor[c].page)

\* Queue::readFill: nothing can be read that has not been written.
readFill(q, a) == a < fillSize(q)

---------------------------------------------------------------------------
\* Construction from the queue, copy (or assignment), jump and destruction.
\* A queue whose pages close has dumped has no front to start at.  Programs
\* make a write cursor on a new queue; later ones are its copies.
NewCursor(c) ==
  /\ ~IsOpen(c) /\ ~IsClosed
  /\ c \in Writers => fillSize(queue) = 0
  /\ cursor' = [cursor EXCEPT ![c] =
       Place(queue, queue.FirstPage, MinAddress(queue, queue.FirstPage))]
  /\ UNCHANGED << queue, written >>

\* "guard" is recomputed by the copy constructor and copied by assignment.
CopyCursor(c, d) ==
  /\ Usable(c) /\ c # d
  /\ c \in Writers <=> d \in Writers
  /\ cursor' = [cursor EXCEPT ![d] =
       IF IsOpen(d) THEN cursor[c]
       ELSE Place(queue, cursor[c].page, cursor[c].addr)]
  /\ UNCHANGED << queue, written >>

SwapCursors(c, d) ==
  /\ Usable(c) /\ Usable(d) /\ c # d
  /\ c \in Writers <=> d \in Writers
  /\ cursor' = [cursor EXCEPT ![c] = cursor[d], ![d] = cursor[c]]
  /\ UNCHANGED << queue, written >>

\* ReadCursor(C, StartAddress).  A jump is only made to where some cursor
\* keeps the page.
JumpCursor(c, d) ==
  /\ Usable(c) /\ ~IsOpen(d) /\ d \in Readers
  /\ LET a == cursor[c].addr
         p == getReadPage(queue, Held, a)
         q == FailIfError(queue, p)
     IN  /\ queue' = q
         /\ cursor' = [cursor EXCEPT ![d] = Place(q, p, AddressOnPage(p, a))]
  /\ UNCHANGED written

ReleaseCursor(c) ==
  /\ IsOpen(c)
  /\ cursor' = [cursor EXCEPT ![c] = NoCursor]
  /\ UNCHANGED << queue, written >>

---------------------------------------------------------------------------
\* Reading.  readFillBuffer moves the cursor to the page of its address.
CanReadFill(c) == cursor[c].addr < queue.Eof /\ readFill(queue, cursor[c].addr)

\* The cursor after readFillBuffer has found its page, advanced by "n" bytes.
readFromPage(c, n) ==
  LET a == cursor[c].addr
      p == getCachedPage(queue, Held, a)
      q == Seek(queue, HeldBut(c), p)
  IN  /\ queue' = q
      /\ cursor' = [cursor EXCEPT ![c] =
           [Place(q, p, AddressOnPage(p, a)) EXCEPT !.addr = Plus(@, n)]]

ReguardCursor(c) ==
  /\ cursor' = [cursor EXCEPT ![c].guard = Guard(queue, cursor[c].page)]
  /\ UNCHANGED queue

\* readByte: the byte at the cursor, or 0 without moving at the end of file.
ReadByte(c) ==
  /\ Usable(c)
  /\ IF cursor[c].addr >= cursor[c].guard /\ isIndexAtEndOfPage(c)
     THEN IF CanReadFill(c) THEN readFromPage(c, 1) ELSE ReguardCursor(c)
     ELSE /\ cursor' = [cursor EXCEPT ![c] =
               [page  |-> @.page, addr |-> Plus(@.addr, 1),
                guard |-> IF @.addr < @.guard THEN @.guard ELSE Guard(queue, @.page)]]
          /\ UNCHANGED queue
  /\ UNCHANGED written

\* atEob of a cursor on no inner block.
AtEob(c) ==
  /\ Usable(c) /\ cursor[c].addr >= cursor[c].guard
  /\ IF CanReadFill(c) THEN readFromPage(c, 0) ELSE ReguardCursor(c)
  /\ UNCHANGED written

\* advance: from page end to page end, until it has come far enough or there
\* is nothing more to read.  The last page is released without a dump.
PageEnds(c) ==
  {MaxAddress(queue, p) : p \in PageIndex(cursor[c].addr) .. queue.LastPage}

Advance(c, distance) ==
  /\ IsOpen(c) /\ cursor[c].page # ErrorPage /\ CanReadFill(c)
  /\ LET ends == {e \in PageEnds(c) : e > cursor[c].addr}
         far(e) == e >= cursor[c].addr + distance \/ e = fillSize(queue)
         to   == CHOOSE e \in ends : far(e) /\ \A f \in ends : far(f) => e <= f
         \* the page the last round read from, and the one it ends on
         from == getCachedPage(queue, Held, to - 1)
         q    == Seek(queue, HeldBut(c), from)
         p    == getReadPage(q, HeldBut(c) \cup {from}, to)
     IN  /\ queue' = FailIfError(q, p)
         /\ cursor' = [cursor EXCEPT ![c] =
              [page |-> p, addr |-> AddressOnPage(p, to), guard |-> @.guard]]
  /\ UNCHANGED written

---------------------------------------------------------------------------
\* Writing.  writeOneByte stores through the cursor's page; what lands on the
\* error page is not tracked.
Store(q, p, a, b) ==
  IF p = ErrorPage THEN q
  ELSE [q EXCEPT !.PageMap[p].buf[a - MinAddress(q, p)] = b]

Write(c, q, p, a) ==
  /\ queue' = Store(q, p, a, Data[c])
  /\ cursor' = [cursor EXCEPT ![c] =
       [Place(q, p, a) EXCEPT !.addr = Plus(@, 1)]]
  /\ written' = IF p = ErrorPage THEN written
                ELSE [written EXCEPT ![PageIndex(a)][PageAddress(a)] = Data[c]]

\* Cursor::fail: the queue fails and the cursor moves to the error page, on
\* which the byte is then written.
FailCursor(c, q) == Write(c, fail(q), ErrorPage, kErrorPageAddress)

\* writeFillBuffer and the byte behind it.
WriteAfterFill(c) ==
  LET a == cursor[c].addr
      q == writeFill(queue, Plus(a, Grow))
      p == getCachedPage(q, Held, a)
  IN  IF a >= queue.Eof THEN FailCursor(c, queue)
      ELSE IF ~writeFillOk(queue, Plus(a, Grow)) THEN FailCursor(c, q)
      ELSE Write(c, Seek(q, HeldBut(c), p), p, AddressOnPage(p, a))

\* Some write cursor in good order is past c.
Behind(c) == \E w \in Writers : /\ cursor[w].page # ErrorPage
                               /\ cursor[c].addr < cursor[w].addr

\* Writers are done before the queue is closed.
WriteByte(c) ==
  /\ Usable(c) /\ ~IsClosed
  /\ c \in Backpatch => Behind(c)
  /\ LateWrites \/ ~queue.EofFrozen \/ cursor[c].addr < queue.Eof
  /\ IF cursor[c].addr >= cursor[c].guard /\ isIndexAtEndOfPage(c)
     THEN WriteAfterFill(c)
     ELSE Write(c, queue, cursor[c].page, cursor[c].addr)

---------------------------------------------------------------------------
\* Cursor::freezeEof passes its address by reference.  Callers freeze once,
\* or again at the same place, when no cursor is past it and no reader has
\* been promised more.
MayFreeze(c) ==
  /\ queue.EofFrozen => cursor[c].addr = queue.Eof
  /\ \A d \in Cursors : cursor[d].page \in Nat =>
       /\ cursor[d].addr <= cursor[c].addr
       /\ d \in Readers => cursor[d].guard <= cursor[c].addr

FreezeEof(c) ==
  /\ Usable(c) /\ ~IsClosed
  /\ cursor[c].addr <= kMaxEofAddress
  /\ MayFreeze(c)
  /\ LET r == freezeEof(queue, Held, cursor[c].addr)
     IN  /\ queue' = r[1]
         /\ cursor' = [cursor EXCEPT ![c].addr = r[2]]
  /\ UNCHANGED written

CloseQueue ==
  /\ ~IsClosed
  /\ queue' = close(queue, Held)
  /\ UNCHANGED << cursor, written >>

---------------------------------------------------------------------------
CursorStep(c) ==
  \/ NewCursor(c)
  \/ ReleaseCursor(c)
  \/ \E d \in Cursors : CopyCursor(c, d) \/ SwapCursors(c, d) \/ JumpCursor(c, d)

ReaderStep(r) ==
  \/ ReadByte(r)
  \/ AtEob(r)
  \/ Advance(r, PageSize)

WriterStep(w) ==
  \/ WriteByte(w)
  \/ w \notin Backpatch /\ FreezeEof(w)

Next ==
  \/ \E c \in Cursors : CursorStep(c)
  \/ \E r \in Readers : ReaderStep(r)
  \/ \E w \in Writers : WriterStep(w)
  \/ CloseQueue

Spec == Init /\ [][Next]_vars
---------------------------------------------------------------------------
\* Properties.

CursorType == [page : PageId \cup {Null, ErrorPage},
               addr : AddressType, guard : AddressType]

\* The types of the variables.
TypeOK ==
  /\ queue \in QueueType
  /\ cursor \in [Cursors -> CursorType]
  /\ written \in [PageId -> [Offset -> Byte]]

\* Positions in PageMap are page indices, though freezeEof drops pages from
\* the chain and never from PageMap: an address always finds its own page.
PageMapAligned == \A p \in 0 .. queue.size - 1 : queue.PageMap[p].index = p

\* From FirstPage to LastPage the pages follow each other, and all but the
\* last are full: bytes leave the queue at their addresses.
ChainIntact ==
  ~IsClosed =>
    /\ queue.FirstPage <= queue.LastPage
    /\ queue.PageMap[queue.LastPage].next = Null
    /\ fillSize(queue) < minAddressForPage(queue.LastPage + 1)
    /\ \A p \in queue.FirstPage .. queue.LastPage - 1 :
         /\ queue.PageMap[p].next = p + 1
         /\ queue.PageMap[p].max = minAddressForPage(p + 1)

\* Queue.h: "pages are not thrown away until all shared pointers have been
\* released".  No cursor is on a page that has been dumped.
LockedPagesStay ==
  ~IsClosed =>
    /\ Len(queue.dumped) = queue.FirstPage
    /\ \A p \in Held \ {ErrorPage} : queue.FirstPage <= p

\* A cursor's address is on the page it locks, or just behind it.
CursorOnPage ==
  \A c \in Cursors : cursor[c].page \in Nat =>
     /\ MinAddress(queue, cursor[c].page) <= cursor[c].addr
     /\ cursor[c].addr <= minAddressForPage(cursor[c].page + 1)

\* Queue.h: "if a byte is written at address N, to read the value you must
\* always use address N": what the pages hold, and what was dumped, is what
\* was last written there, backpatched bytes included.
BytesStayPut ==
  /\ ~IsClosed => \A p \in queue.FirstPage .. queue.LastPage :
                     queue.PageMap[p].buf = written[p]
  /\ \A i \in 1 .. Len(queue.dumped) : \A o \in 1 .. Len(queue.dumped[i]) :
       queue.dumped[i][o] = written[i - 1][o - 1]

\* A queue closed in good order has handed out exactly the bytes before its
\* end of file.
ClosedComplete ==
  (IsClosed /\ queue.Good) =>
    LET n == Len(queue.dumped)
    IN  minAddressForPage(n - 1) + Len(queue.dumped[n]) = queue.Eof

\* No reader gets past the end of file, though each caches how far it may go.
ReadersBeforeEof ==
  (queue.EofFrozen /\ queue.Good) =>
    \A r \in Readers : cursor[r].page \in Nat => cursor[r].addr <= queue.Eof

\* Cursors that keep to the contract never run into a missing page: a queue
\* fails only when something is written at or past its end of file.
FailsOnlyAtEof ==
  ~queue.Good => queue.EofFrozen \/ queue.LastPage = kMaxPageIndex
=============================================================================
