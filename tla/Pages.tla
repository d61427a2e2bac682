------------------------------- MODULE Pages -------------------------------
(***************************************************************************)
(* The paged buffer behind every byte stream: stream/Page.h,               *)
(* stream/PageAddress.h and class Queue of stream/Queue.{h,cpp}, as        *)
(* operators on a record.  Modules Queue and Pipe build state machines     *)
(* from them.                                                              *)
(*                                                                         *)
(* A page object is named by its position in Queue::PageMap, which is the  *)
(* order of allocation; the error page, which PageMap does not hold, is    *)
(* ErrorPage, and a null shared_ptr is Null.  Whether a page object still  *)
(* exists is not stored: it exists while a shared_ptr reaches it (Live).   *)
(***************************************************************************)
EXTENDS Integers, Sequences

CONSTANTS PageSize,       \* bytes in a page
          kMaxPageIndex,  \* index of the last page of the address space
          Byte,           \* the values of a byte the model tells apart
          Zero,           \* what std::memset leaves in a fresh page
          Null, ErrorPage

ASSUME PagesAssumption ==
  /\ PageSize \in Nat /\ PageSize > 2            \* assert(PageSizeLog2 > 1)
  /\ kMaxPageIndex \in Nat /\ kMaxPageIndex > 0
  /\ Zero \in Byte
  /\ Null \notin Nat /\ ErrorPage \notin Nat /\ Null # ErrorPage

minAddressForPage(i) == i * PageSize

\* Mutant: the last page of the address space may be filled.
kMaxEofPastEnd == minAddressForPage(kMaxPageIndex + 1)

kMaxEofAddress       == minAddressForPage(kMaxPageIndex)
kErrorPageAddress    == kMaxEofAddress + 1
kErrorPageIndex      == kMaxPageIndex
AddressSpace         == minAddressForPage(kMaxPageIndex + 1)
AddressType          == 0 .. AddressSpace - 1

PageIndex(a)   == a \div PageSize
PageAddress(a) == a % PageSize
Plus(a, b)     == (a + b) % AddressSpace         \* size_t addition

Lesser(a, b) == IF a < b THEN a ELSE b

---------------------------------------------------------------------------
\* A page, and a queue as its constructor leaves it.  "dumped" is a history
\* of what dumpFirstPage was called with: one sequence of bytes per page.
Offset == 0 .. PageSize - 1

PageId == 0 .. kMaxPageIndex      \* positions in PageMap

Page(i) == [index |-> i, max |-> minAddressForPage(i),
            buf |-> [o \in Offset |-> Zero], next |-> Null]

\* The pages from "size" on are not allocated yet.
NewQueue == [PageMap |-> [p \in PageId |-> Page(p)], size |-> 1,
             FirstPage |-> 0, LastPage |-> 0,
             EofFrozen |-> FALSE, Good |-> TRUE, Eof |-> kMaxEofAddress,
             dumped |-> << >>]

PageType == [index : PageId, max : AddressType,
             buf : [Offset -> Byte], next : PageId \cup {Null}]

QueueType == [PageMap : [PageId -> PageType], size : 1 .. kMaxPageIndex + 1,
              FirstPage : PageId \cup {Null}, LastPage : PageId,
              EofFrozen : BOOLEAN, Good : BOOLEAN, Eof : AddressType,
              dumped : Seq(Seq(Byte))]

MinAddress(q, p) == IF p = ErrorPage THEN kMaxEofAddress
                    ELSE minAddressForPage(q.PageMap[p].index)
MaxAddress(q, p) == IF p = ErrorPage THEN kMaxEofAddress ELSE q.PageMap[p].max
fillSize(q)      == MaxAddress(q, q.LastPage)

fail(q) == [q EXCEPT !.Good = FALSE, !.Eof = 0]

---------------------------------------------------------------------------
\* Reference counts.  "held" is the set of pages the cursors point to.
Roots(q, held) == ({q.FirstPage, q.LastPage} \cup held) \ {Null, ErrorPage}

Live(q, held) ==
  {p \in 0 .. q.size - 1 :
     \A S \in SUBSET (0 .. q.size - 1) :
        (/\ Roots(q, held) \subseteq S
         /\ \A s \in S : q.PageMap[s].next \in S \cup {Null}) => p \in S}

\* Mutant: cursors do not count.
SharedByQueue(q, held) == {q.LastPage}

\* FirstPage.unique(): the pages before it are gone, so only LastPage or a
\* cursor can share it.
Shared(q, held) == held \cup {q.LastPage}

---------------------------------------------------------------------------
\* Growth.  appendPage pushes each new page at the end of PageMap and hangs
\* it on LastPage->Next; the loop of writeFill fills LastPage and appends
\* until the page of "a" is the last one.
FullPage(pg) == [pg EXCEPT !.max = minAddressForPage(pg.index + 1)]

PagesUpTo(q, i, last) ==
  [p \in PageId |->
     IF p = q.LastPage THEN [FullPage(q.PageMap[p]) EXCEPT !.next = q.size]
     ELSE IF p \in q.size .. last - 1
          THEN [FullPage(Page(i - (last - p))) EXCEPT !.next = p + 1]
     ELSE IF p = last THEN Page(i)
     ELSE q.PageMap[p]]

\* Mutants: the new page takes the index of the one before it, or is not
\* entered in PageMap.
AppendSameIndex(q, i) ==
  IF i = q.PageMap[q.LastPage].index THEN q
  ELSE [q EXCEPT !.PageMap = [PagesUpTo(q, i, q.size) EXCEPT ![q.size].index = i - 1],
                 !.size = @ + 1, !.LastPage = q.size]

AppendUnmapped(q, i) ==
  LET last == q.size + i - q.PageMap[q.LastPage].index - 1
  IN  IF last < q.size THEN q
      ELSE [q EXCEPT !.PageMap = PagesUpTo(q, i, last), !.LastPage = last]

AppendUpTo(q, i) ==
  LET fresh == i - q.PageMap[q.LastPage].index
      last  == q.size + fresh - 1
  IN  IF fresh = 0 THEN q
      ELSE [q EXCEPT !.PageMap = PagesUpTo(q, i, last),
                     !.size = last + 1, !.LastPage = last]

\* Once writeFill has run out of pages, the last page is left empty.
OutOfPages(q) == fillSize(q) < MinAddress(q, q.LastPage)

writeFillOk(q, a) ==
  \/ a <= fillSize(q)
  \/ ~q.EofFrozen /\ a <= kMaxEofAddress /\ ~OutOfPages(q)

\* Past the last page MaxLimit wraps to 0 and appendPage refuses.
writeFill(q, a) ==
  IF a <= fillSize(q) \/ q.EofFrozen THEN q
  ELSE LET grown == AppendUpTo(q, IF writeFillOk(q, a) THEN PageIndex(a)
                                  ELSE kMaxPageIndex)
       IN  [grown EXCEPT !.PageMap[grown.LastPage].max =
              IF writeFillOk(q, a) THEN a ELSE 0]

---------------------------------------------------------------------------
\* Finding the page of an address through PageMap's weak pointers.
getDefinedPage(q, held, i) == IF i \in Live(q, held) THEN i ELSE ErrorPage

getCachedPage(q, held, a) ==
  IF PageIndex(a) >= q.size THEN ErrorPage
  ELSE getDefinedPage(q, held, PageIndex(a))

\* readFillToPage: nothing fills this queue on demand, and its last page is
\* never full (writeFill appends behind a full page), so a page that is not
\* there yet cannot be read.
getReadPage(q, held, a) == getCachedPage(q, held, a)

\* failThenGetErrorPage also fails the queue and moves the address.
FailIfError(q, p)     == IF p = ErrorPage THEN fail(q) ELSE q
AddressOnPage(p, a)   == IF p = ErrorPage THEN kErrorPageAddress ELSE a

---------------------------------------------------------------------------
\* Garbage collection from the front.
PageBytes(pg) == [i \in 1 .. pg.max - minAddressForPage(pg.index) |-> pg.buf[i - 1]]

\* Mutant: the page is dropped before it is dumped.
DumpTooLate(q, f) ==
  [q EXCEPT !.FirstPage = f,
            !.dumped = @ \o [i \in 1 .. f - q.FirstPage |->
                               PageBytes(q.PageMap[(q.FirstPage + i) % (kMaxPageIndex + 1)])]]

DumpUpTo(q, f) ==
  [q EXCEPT !.FirstPage = f,
            !.dumped = @ \o [i \in 1 .. f - q.FirstPage |->
                               PageBytes(q.PageMap[q.FirstPage + i - 1])]]

dumpPreviousPages(q, held) ==
  IF q.FirstPage = Null THEN q
  ELSE DumpUpTo(q, CHOOSE f \in q.FirstPage .. q.LastPage :
                     /\ f \in Shared(q, held)
                     /\ \A g \in q.FirstPage .. f - 1 : g \notin Shared(q, held))

---------------------------------------------------------------------------
\* readFromPage and writeToPage once the bytes are there: the cursor moves
\* to page "p", releasing its old one ("others" is what the rest holds), and
\* the pages nobody needs are dumped.
Seek(q, others, p) == dumpPreviousPages(FailIfError(q, p), others \cup {p})

\* The end of the queue: freezeEof once writeToPage(Address, 0) has found
\* page "p" and address "a"; close dumps every page whoever holds it.
isBroken(q, p) == p = ErrorPage \/ q.PageMap[p].index >= kErrorPageIndex

\* Mutants: the last page keeps its end, or the page after it.
SetEofKeepsMax(q, p, a) ==
  LET frozen == [q EXCEPT !.Eof = a, !.EofFrozen = TRUE]
  IN  IF isBroken(q, p) THEN frozen
      ELSE [frozen EXCEPT !.PageMap[p].next = Null, !.LastPage = p]

SetEofKeepsNext(q, p, a) ==
  LET frozen == [q EXCEPT !.Eof = a, !.EofFrozen = TRUE]
  IN  IF isBroken(q, p) THEN frozen
      ELSE [frozen EXCEPT !.PageMap[p].max = a, !.LastPage = p]

SetEof(q, p, a) ==
  LET frozen == [q EXCEPT !.Eof = a, !.EofFrozen = TRUE]
  IN  IF isBroken(q, p) THEN frozen
      ELSE [frozen EXCEPT !.PageMap[p].max = a, !.PageMap[p].next = Null,
                          !.LastPage = p]

\* <<queue, address>> after freezeEof(a).  When writeToPage finds no room its
\* local cursor still points to the first page.
freezeEof(q, held, a) ==
  LET again == q.EofFrozen /\ a # q.Eof
      q1    == IF again THEN fail(q) ELSE q
      a1    == IF again THEN 0 ELSE a
      q2    == writeFill(q1, a1)
      p     == getCachedPage(q2, held, a1)
      a2    == AddressOnPage(p, a1)
  IN  IF writeFillOk(q1, a1) THEN << SetEof(Seek(q2, held, p), p, a2), a2 >>
      ELSE << SetEof(q2, q2.FirstPage, a1), a1 >>

DumpAll(q) ==
  IF q.FirstPage = Null THEN q
  ELSE [DumpUpTo(q, q.LastPage + 1) EXCEPT !.FirstPage = Null]

close(q, held) ==
  DumpAll(IF q.EofFrozen THEN q ELSE freezeEof(q, held, fillSize(q))[1])

---------------------------------------------------------------------------
\* The shape every operation leaves a queue in, as long as there are pages left.
WellFormed(q) ==
  /\ q \in QueueType
  /\ \A p \in 0 .. q.size - 1 :
       /\ q.PageMap[p].index = p
       /\ minAddressForPage(p) <= q.PageMap[p].max
       /\ q.PageMap[p].max <= minAddressForPage(p + 1)
  /\ q.LastPage < q.size
  /\ \A p \in 0 .. q.LastPage - 1 :
       /\ q.PageMap[p].next = p + 1
       /\ q.PageMap[p].max = minAddressForPage(p + 1)
  /\ q.PageMap[q.LastPage].next = Null
  /\ q.PageMap[q.LastPage].max < minAddressForPage(q.LastPage + 1)
  /\ q.PageMap[q.LastPage].max <= kMaxEofAddress
  /\ q.FirstPage # Null => q.FirstPage <= q.LastPage
  /\ q.EofFrozen \/ q.LastPage = q.size - 1
=============================================================================
