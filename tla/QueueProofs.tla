---------------------------- MODULE QueueProofs ----------------------------
(***************************************************************************)
(* The theorems about module Queue.  They hold for every page size, number *)
(* of pages and set of cursors, for programs that keep the contract of the *)
(* queue (no write behind the frozen end, no use of a cursor that has      *)
(* failed) and never come to the last page of the address space.           *)
(***************************************************************************)
EXTENDS Queue, PagesProofs

\* What the theorems ask of the callers, and of the length of the stream.
Contract == ~ UseBroken /\ ~ LateWrites
RoomLeft == queue.LastPage < kMaxPageIndex

---------------------------------------------------------------------------
\* The inductive invariant.  It speaks of a queue q, of what was written w,
\* and of a cursor x, so that the lemmas can speak of intermediate queues.

\* The bytes in what was dumped, in the pages, and in the pages to come.
DumpedRight(q, w) ==
  \A i \in 1 .. Len(q.dumped) : \A o \in 1 .. Len(q.dumped[i]) :
    q.dumped[i][o] = w[i - 1][o - 1]

Kept(q, w) ==
  /\ q.FirstPage # Null =>
       /\ Len(q.dumped) = q.FirstPage
       /\ \A p \in q.FirstPage .. q.LastPage : q.PageMap[p].buf = w[p]
  /\ DumpedRight(q, w)
  /\ \A p \in q.size .. kMaxPageIndex : w[p] = [o \in Offset |-> Zero]

\* A queue that still grows is in good order and its end is open; a frozen
\* one ends where its last page does, unless it has failed.
EofOk(q) ==
  /\ q.Eof <= kMaxEofAddress
  /\ IF q.EofFrozen THEN q.Eof <= fillSize(q) /\ (q.Good => q.Eof = fillSize(q))
     ELSE q.Good /\ q.Eof = kMaxEofAddress

\* A closed queue is frozen and has dumped its last page.
ClosedOk(q) ==
  q.FirstPage = Null =>
    /\ q.EofFrozen
    /\ Len(q.dumped) = q.LastPage + 1
    /\ minAddressForPage(q.LastPage) + Len(q.dumped[q.LastPage + 1]) = fillSize(q)

QueueOk(q, w) == WellFormed(q) /\ Kept(q, w) /\ EofOk(q) /\ ClosedOk(q)

\* A cursor is on a page of the chain, at an address of that page or just
\* behind it, and not past what has been written; "rd" tells a reader.
OnChain(q, x, rd) ==
  /\ x.page <= q.LastPage
  /\ q.FirstPage # Null => q.FirstPage <= x.page
  /\ minAddressForPage(x.page) <= x.addr
  /\ x.addr <= minAddressForPage(x.page + 1)
  /\ x.addr <= fillSize(q)
  /\ x.guard <= minAddressForPage(x.page + 1)
  /\ rd \/ ~ q.EofFrozen => x.guard <= fillSize(q)

CursorOk(q, x, rd) ==
  /\ x \in CursorType
  /\ x.page \in Nat => OnChain(q, x, rd)

IInv ==
  /\ QueueOk(queue, written)
  /\ written \in [PageId -> [Offset -> Byte]]
  /\ cursor \in [Cursors -> CursorType]
  /\ \A c \in Cursors : CursorOk(queue, cursor[c], c \in Readers)

---------------------------------------------------------------------------
\* What the queue's own operations do to the invariant.

\* q is r but for dumped pages, and no page of "held" was dumped.
Passed(q, held, r) ==
  /\ r.PageMap = q.PageMap /\ r.size = q.size /\ r.LastPage = q.LastPage
  /\ r.EofFrozen = q.EofFrozen /\ r.Good = q.Good /\ r.Eof = q.Eof
  /\ r.FirstPage = Null <=> q.FirstPage = Null
  /\ r.FirstPage # Null =>
       \A h \in held \cap Nat : q.FirstPage <= h => r.FirstPage <= h

\* Dumping pages records their bytes, which are those last written.
LEMMA DumpKept ==
  ASSUME NEW q, WellFormed(q), NEW w, Kept(q, w), q.FirstPage # Null,
         NEW f \in q.FirstPage .. q.LastPage + 1
  PROVE  Len(DumpUpTo(q, f).dumped) = f /\ DumpedRight(DumpUpTo(q, f), w)
<1>. DEFINE r == DumpUpTo(q, f)
            n == Len(q.dumped)
<1>1. IsDumped(q, f, r)
  BY DumpWellFormed
<1>2. /\ q.FirstPage \in Nat /\ q.LastPage \in Nat /\ q.FirstPage <= q.LastPage
      /\ n = q.FirstPage /\ f \in Nat
  BY QueueFacts DEF Kept
<1>. HIDE DEF r, n
<1>3. Len(r.dumped) = f
  BY <1>1, <1>2 DEF IsDumped, n
<1>4. ASSUME NEW i \in 1 .. Len(r.dumped), NEW o \in 1 .. Len(r.dumped[i])
      PROVE  r.dumped[i][o] = w[i - 1][o - 1]
  <2>1. CASE i <= n
    <3>1. r.dumped[i] = q.dumped[i] /\ i \in 1 .. Len(q.dumped)
      BY <1>1, <1>2, <2>1 DEF IsDumped, n
    <3>. QED
      BY <3>1 DEF Kept, DumpedRight
  <2>2. CASE ~ (i <= n)
    <3>1. /\ q.FirstPage + (i - n) - 1 = i - 1
          /\ i - 1 \in q.FirstPage .. q.LastPage /\ i - 1 \in 0 .. q.LastPage
      BY <1>2, <1>3, <2>2
    <3>2. r.dumped[i] = PageBytes(q.PageMap[q.FirstPage + (i - n) - 1])
      BY <1>1, <2>2 DEF IsDumped, n
    <3>3. r.dumped[i] = PageBytes(q.PageMap[i - 1])
      BY <3>1, <3>2
    <3>4. r.dumped[i][o] = q.PageMap[i - 1].buf[o - 1]
      BY <3>1, <3>3, PageBytesType
    <3>. QED
      BY <3>1, <3>4 DEF Kept
  <2>. QED
    BY <2>1, <2>2
<1>. QED
  BY <1>3, <1>4 DEF r, DumpedRight

\* dumpPreviousPages behind a cursor that has moved to page p.
LEMMA SeekOk ==
  ASSUME NEW q, NEW w, QueueOk(q, w), NEW others, NEW p \in Nat
  PROVE  /\ QueueOk(Seek(q, others, p), w)
         /\ Passed(q, others \cup {p}, Seek(q, others, p))
<1>. DEFINE held == others \cup {p}
            r == Seek(q, others, p)
<1>1. r = dumpPreviousPages(q, held)
  BY PagesAssumption DEF Seek, FailIfError
<1>2. CASE q.FirstPage = Null
  BY <1>1, <1>2 DEF dumpPreviousPages, Passed
<1>3. CASE q.FirstPage # Null
  <2>1. PICK f \in q.FirstPage .. q.LastPage :
               /\ dumpPreviousPages(q, held) = DumpUpTo(q, f)
               /\ \A h \in held \cap Nat : q.FirstPage <= h => f <= h
    <3>. HIDE DEF held
    <3>. QED
      BY <1>3, DumpStops DEF QueueOk
  <2>2. /\ q.FirstPage \in Nat /\ q.LastPage \in Nat /\ f \in Nat
        /\ f \in q.FirstPage .. q.LastPage + 1 /\ f <= q.LastPage
        /\ q \in QueueType
    BY <1>3, QueueFacts DEF QueueOk, WellFormed
  <2>3. r = DumpUpTo(q, f)
    BY <1>1, <2>1
  <2>. HIDE DEF r, held
  <2>4. WellFormed(r) /\ IsDumped(q, f, r)
    BY <1>3, <2>2, <2>3, DumpWellFormed DEF QueueOk
  <2>5. /\ r.PageMap = q.PageMap /\ r.size = q.size /\ r.LastPage = q.LastPage
        /\ r.EofFrozen = q.EofFrozen /\ r.Good = q.Good /\ r.Eof = q.Eof
        /\ r.FirstPage = f
    BY <2>2, <2>4 DEF IsDumped, QueueType
  <2>6. Kept(r, w)
    <3>1. Len(r.dumped) = f /\ DumpedRight(r, w)
      BY <1>3, <2>2, <2>3, DumpKept DEF QueueOk
    <3>2. \A x \in f .. q.LastPage : x \in q.FirstPage .. q.LastPage
      BY <2>2
    <3>. QED
      BY <1>3, <2>5, <3>1, <3>2 DEF QueueOk, Kept
  <2>7. EofOk(r)
    BY <2>5 DEF QueueOk, EofOk, fillSize, MaxAddress
  <2>8. Passed(q, held, r) /\ ClosedOk(r)
    BY <1>3, <2>1, <2>2, <2>5, PagesAssumption DEF Passed, ClosedOk
  <2>. QED
    BY <2>4, <2>6, <2>7, <2>8 DEF QueueOk, r, held
<1>. QED
  BY <1>2, <1>3

\* writeFill: the new pages hold the zeros that nothing has overwritten yet.
LEMMA FillOk ==
  ASSUME NEW q, NEW w, QueueOk(q, w), NEW a \in Nat, writeFillOk(q, a)
  PROVE  /\ QueueOk(writeFill(q, a), w)
         /\ IsFilled(q, a, writeFill(q, a))
<1>. DEFINE r == writeFill(q, a)
<1>1. IsFilled(q, a, r)
  BY WriteFillWellFormed DEF QueueOk
<1>. HIDE DEF r
<1>2. WellFormed(r)
  BY <1>1 DEF IsFilled
<1>3. /\ q.LastPage \in Nat /\ r.LastPage \in Nat /\ q.size \in Nat /\ r.size \in Nat
      /\ q.LastPage <= r.LastPage /\ q.size <= r.size
      /\ q.FirstPage # Null => q.FirstPage \in Nat
  BY <1>1, <1>2, QueueFacts DEF IsFilled, QueueOk
<1>4. Kept(r, w)
  <2>1. ASSUME q.FirstPage # Null, NEW p \in q.FirstPage .. r.LastPage
        PROVE  r.PageMap[p].buf = w[p]
    <3>1. CASE p <= q.LastPage
      <4>1. p \in 0 .. q.LastPage /\ p \in q.FirstPage .. q.LastPage
        BY <1>3, <2>1, <3>1
      <4>. QED
        BY <1>1, <2>1, <4>1 DEF IsFilled, QueueOk, Kept
    <3>2. CASE ~ (p <= q.LastPage)
      <4>1. p \in q.LastPage + 1 .. r.LastPage
        BY <1>3, <2>1, <3>2
      <4>. QED
        BY <1>1, <4>1 DEF IsFilled, QueueOk, Kept
    <3>. QED
      BY <3>1, <3>2
  <2>2. \A p \in r.size .. kMaxPageIndex : p \in q.size .. kMaxPageIndex
    BY <1>3, PagesAssumption
  <2>. QED
    BY <1>1, <2>1, <2>2 DEF IsFilled, SameFront, QueueOk, Kept, DumpedRight
<1>5. EofOk(r)
  BY <1>1 DEF IsFilled, SameFront, QueueOk, EofOk
<1>6. ClosedOk(r)
  BY <1>1 DEF IsFilled, SameFront, QueueOk, ClosedOk
<1>. QED
  BY <1>1, <1>2, <1>4, <1>5, <1>6 DEF QueueOk, r

\* r is q frozen at address a.
IsFrozen(q, a, r) ==
  /\ r.LastPage = PageIndex(a) /\ fillSize(r) = a
  /\ r.EofFrozen /\ r.Eof = a /\ r.Good = q.Good

\* SetEof on a page of the chain that is not before the front.
LEMMA SetEofOk ==
  ASSUME NEW q, NEW w, QueueOk(q, w), NEW a \in Nat, a <= fillSize(q),
         q.FirstPage # Null, q.FirstPage <= PageIndex(a),
         PageIndex(a) < kMaxPageIndex
  PROVE  /\ QueueOk(SetEof(q, PageIndex(a), a), w)
         /\ IsFrozen(q, a, SetEof(q, PageIndex(a), a))
         /\ SetEof(q, PageIndex(a), a).FirstPage = q.FirstPage
<1>. DEFINE p == PageIndex(a)
            r == SetEof(q, p, a)
            pg == [q.PageMap[p] EXCEPT !.max = a, !.next = Null]
            m == [q.PageMap EXCEPT ![p] = pg]
            L == q.LastPage
<1>1. /\ p \in Nat /\ minAddressForPage(p) <= a /\ a < minAddressForPage(p + 1)
  BY PageIndexType
<1>2. /\ L \in Nat /\ q.size \in Nat /\ L < q.size /\ q.size <= kMaxPageIndex + 1
      /\ fillSize(q) \in Nat /\ fillSize(q) < minAddressForPage(L + 1)
      /\ fillSize(q) <= kMaxEofAddress
      /\ q.FirstPage # Null => q.FirstPage \in Nat
      /\ q \in QueueType /\ kMaxPageIndex \in Nat /\ kMaxEofAddress \in Nat
      /\ kMaxEofAddress \in AddressType
  BY QueueFacts, Constants, PagesAssumption DEF QueueOk, WellFormed
<1>. HIDE DEF p
<1>3. p <= L
  BY <1>1, <1>2, IndexWithin DEF QueueOk, p
<1>4. p \in PageId /\ p # ErrorPage /\ p \in 0 .. q.size - 1 /\ a \in AddressType
  BY <1>1, <1>2, <1>3, Constants, PagesAssumption DEF PageId, AddressType
<1>5. /\ q.PageMap \in [PageId -> PageType] /\ q.PageMap[p] \in PageType
      /\ q.PageMap[p].index = p
  BY <1>2, <1>4 DEF QueueType, QueueOk, WellFormed
<1>6. ~ isBroken(q, p)
  BY <1>4, <1>5, <1>1, PagesAssumption DEF isBroken, kErrorPageIndex, p
<1>7. r = [q EXCEPT !.Eof = a, !.EofFrozen = TRUE, !.PageMap = m, !.LastPage = p]
  <2>1. q.PageMap[p] = [index |-> q.PageMap[p].index, max |-> q.PageMap[p].max,
                        buf |-> q.PageMap[p].buf, next |-> q.PageMap[p].next]
    BY <1>5 DEF PageType
  <2>. QED
    BY <1>2, <1>4, <1>5, <1>6, <2>1 DEF SetEof, QueueType
<1>. HIDE DEF r
<1>8. /\ r.PageMap = m /\ r.size = q.size /\ r.LastPage = p /\ r.Eof = a /\ r.EofFrozen
      /\ r.FirstPage = q.FirstPage /\ r.Good = q.Good /\ r.dumped = q.dumped
  <2>. HIDE DEF m
  <2>. QED
    BY <1>2, <1>7 DEF QueueType
<1>9. /\ pg \in PageType /\ pg.index = p /\ pg.max = a /\ pg.next = Null
      /\ pg.buf = q.PageMap[p].buf
  BY <1>4, <1>5 DEF PageType
<1>10. /\ m \in [PageId -> PageType] /\ m[p] = pg
       /\ \A x \in PageId : x # p => m[x] = q.PageMap[x]
  <2>. HIDE DEF pg
  <2>. QED
    BY <1>4, <1>5, <1>9
<1>. HIDE DEF m, pg
<1>11. r \in QueueType
  BY <1>2, <1>4, <1>7, <1>10 DEF QueueType
<1>12. \A x \in 0 .. q.size - 1 : x \in PageId
  BY <1>2 DEF PageId
<1>13. fillSize(r) = a
  BY <1>4, <1>8, <1>9, <1>10 DEF fillSize, MaxAddress
<1>14. WellFormed(r)
  <2>1. ASSUME NEW x \in 0 .. q.size - 1
        PROVE  /\ m[x].index = x
               /\ minAddressForPage(x) <= m[x].max
               /\ m[x].max <= minAddressForPage(x + 1)
    <3>1. CASE x = p
      <4>1. minAddressForPage(p + 1) \in Nat
        BY <1>1, MinNext
      <4>. QED
        BY <1>1, <1>9, <1>10, <3>1, <4>1
    <3>2. CASE x # p
      BY <1>10, <1>12, <3>2 DEF QueueOk, WellFormed
    <3>. QED
      BY <3>1, <3>2
  <2>2. ASSUME NEW x \in 0 .. p - 1
        PROVE  m[x].next = x + 1 /\ m[x].max = minAddressForPage(x + 1)
    <3>1. x \in 0 .. L - 1 /\ x # p /\ x \in PageId
      BY <1>1, <1>2, <1>3 DEF PageId
    <3>. QED
      BY <1>10, <3>1 DEF QueueOk, WellFormed
  <2>. QED
    BY <1>1, <1>2, <1>3, <1>8, <1>9, <1>10, <1>11, <2>1, <2>2 DEF WellFormed, p
<1>15. Kept(r, w)
  <2>1. ASSUME q.FirstPage # Null, NEW x \in q.FirstPage .. p
        PROVE  m[x].buf = w[x]
    <3>1. x \in q.FirstPage .. L /\ x \in PageId
      BY <1>1, <1>2, <1>3, <2>1 DEF PageId
    <3>2. m[x].buf = q.PageMap[x].buf
      BY <1>9, <1>10, <3>1
    <3>. QED
      BY <2>1, <3>1, <3>2 DEF QueueOk, Kept
  <2>. QED
    BY <1>8, <2>1 DEF QueueOk, Kept, DumpedRight
<1>16. EofOk(r) /\ ClosedOk(r)
  BY <1>2, <1>8, <1>13 DEF EofOk, ClosedOk
<1>. QED
  BY <1>8, <1>13, <1>14, <1>15, <1>16 DEF QueueOk, IsFrozen, r, p

\* freezeEof at an address whose page can be found.
LEMMA FreezeOk ==
  ASSUME NEW q, NEW w, QueueOk(q, w), NEW held, NEW a \in Nat, a <= kMaxEofAddress,
         q.EofFrozen => a = q.Eof,
         getCachedPage(writeFill(q, a), held, a) = PageIndex(a),
         q.FirstPage # Null, q.FirstPage <= PageIndex(a),
         freezeEof(q, held, a)[1].LastPage < kMaxPageIndex
  PROVE  /\ QueueOk(freezeEof(q, held, a)[1], w)
         /\ IsFrozen(q, a, freezeEof(q, held, a)[1])
         /\ freezeEof(q, held, a)[2] = a
         /\ freezeEof(q, held, a)[1].FirstPage # Null =>
              /\ q.FirstPage # Null
              /\ \A h \in held \cap Nat :
                   q.FirstPage <= h => freezeEof(q, held, a)[1].FirstPage <= h
<1>. DEFINE p  == PageIndex(a)
            q2 == writeFill(q, a)
            q3 == Seek(q2, held, p)
            r  == SetEof(q3, p, a)
<1>1. writeFillOk(q, a)
  BY QueueFacts DEF writeFillOk, QueueOk, EofOk
<1>2. p \in Nat /\ p # ErrorPage
  BY PageIndexType, PagesAssumption
<1>3. freezeEof(q, held, a) = << r, a >>
  <2>1. ~ (q.EofFrozen /\ a # q.Eof)
    OBVIOUS
  <2>2. AddressOnPage(p, a) = a
    BY <1>2 DEF AddressOnPage
  <2>. QED
    BY <1>1, <2>1, <2>2 DEF freezeEof
<1>4. QueueOk(q2, w) /\ IsFilled(q, a, q2)
  BY <1>1, FillOk
<1>. HIDE DEF p, q2
<1>5. QueueOk(q3, w) /\ Passed(q2, held \cup {p}, q3)
  BY <1>2, <1>4, SeekOk
<1>6. /\ q3.LastPage = q2.LastPage /\ fillSize(q3) = fillSize(q2)
      /\ q3.FirstPage # Null /\ q3.FirstPage <= p
      /\ \A h \in held \cap Nat : q.FirstPage <= h => q3.FirstPage <= h
  BY <1>2, <1>4, <1>5 DEF IsFilled, SameFront, Passed, fillSize, MaxAddress, p
<1>7. a <= fillSize(q3) /\ q3.Good = q.Good
  BY <1>4, <1>5, <1>6 DEF IsFilled, SameFront, Passed
<1>. HIDE DEF q3
<1>8. p \in 0 .. q3.LastPage /\ q3.LastPage \in PageId /\ q3.LastPage \in Nat
  BY <1>5, <1>7, IndexWithin, QueueFacts DEF QueueOk, p
<1>9. p < kMaxPageIndex
  <2>1. CASE isBroken(q3, p)
    <3>1. r = [q3 EXCEPT !.Eof = a, !.EofFrozen = TRUE]
      BY <2>1 DEF SetEof
    <3>2. r.LastPage = q3.LastPage
      BY <1>5, <3>1 DEF QueueOk, WellFormed, QueueType
    <3>3. freezeEof(q, held, a)[1] = r
      BY <1>3
    <3>4. r.LastPage < kMaxPageIndex
      BY <3>3
    <3>. QED
      BY <1>8, <3>2, <3>4, PagesAssumption
  <2>2. CASE ~ isBroken(q3, p)
    <3>1. q3.PageMap[p].index = p
      BY <1>5, <1>8, QueueFacts DEF QueueOk, WellFormed
    <3>. QED
      BY <1>8, <2>2, <3>1, PagesAssumption DEF isBroken, kErrorPageIndex
  <2>. QED
    BY <2>1, <2>2
<1>10. QueueOk(r, w) /\ IsFrozen(q3, a, r) /\ r.FirstPage = q3.FirstPage
  BY <1>5, <1>6, <1>7, <1>9, SetEofOk DEF p
<1>11. IsFrozen(q, a, r)
  BY <1>7, <1>10 DEF IsFrozen
<1>12. freezeEof(q, held, a)[1] = r /\ freezeEof(q, held, a)[2] = a
  BY <1>3
<1>. HIDE DEF r
<1>. QED
  BY <1>6, <1>10, <1>11, <1>12

\* close: the bytes of every page have been dumped.
IsClosedOf(q, r) ==
  /\ r.FirstPage = Null /\ r.EofFrozen
  /\ r.LastPage = q.LastPage /\ fillSize(r) = fillSize(q) /\ r.Good = q.Good
  /\ q.EofFrozen => r.Eof = q.Eof

LEMMA CloseOk ==
  ASSUME NEW q, NEW w, QueueOk(q, w), q.LastPage < kMaxPageIndex, NEW held,
         q.FirstPage # Null
  PROVE  QueueOk(close(q, held), w) /\ IsClosedOf(q, close(q, held))
<1>. DEFINE a  == fillSize(q)
            q2 == IF q.EofFrozen THEN q ELSE freezeEof(q, held, a)[1]
            r  == close(q, held)
<1>1. /\ a \in Nat /\ a <= kMaxEofAddress /\ PageIndex(a) = q.LastPage
      /\ q.FirstPage \in 0 .. q.LastPage /\ q.LastPage \in Nat
  BY QueueFacts DEF QueueOk
<1>2. /\ QueueOk(q2, w) /\ q2.EofFrozen
      /\ q2.LastPage = q.LastPage /\ fillSize(q2) = fillSize(q) /\ q2.Good = q.Good
      /\ q.EofFrozen => q2.Eof = q.Eof
  <2>1. CASE q.EofFrozen
    BY <2>1
  <2>2. CASE ~ q.EofFrozen
    <3>1. writeFill(q, a) = q /\ writeFillOk(q, a)
      BY <1>1 DEF writeFill, writeFillOk
    <3>2. getCachedPage(writeFill(q, a), held, a) = PageIndex(a)
      BY <1>1, <3>1, FindLast DEF QueueOk
    <3>3. freezeEof(q, held, a)[1].LastPage < kMaxPageIndex
      <4>. DEFINE q3 == Seek(q, held, PageIndex(a))
      <4>1. PageIndex(a) # ErrorPage
        BY <1>1, PagesAssumption
      <4>2. freezeEof(q, held, a)[1] = SetEof(q3, PageIndex(a), a)
        BY <2>2, <3>1, <3>2, <4>1 DEF freezeEof, AddressOnPage
      <4>3. QueueOk(q3, w) /\ q3.LastPage = q.LastPage /\ q3 \in QueueType
        BY <1>1, SeekOk DEF Passed, QueueOk, WellFormed
      <4>. HIDE DEF q3
      <4>4. SetEof(q3, PageIndex(a), a).LastPage = q.LastPage
        BY <1>1, <4>3 DEF SetEof, QueueType
      <4>. QED
        BY <4>2, <4>4
    <3>. HIDE DEF a
    <3>4. QueueOk(freezeEof(q, held, a)[1], w) /\ IsFrozen(q, a, freezeEof(q, held, a)[1])
      BY <1>1, <2>2, <3>2, <3>3, FreezeOk
    <3>. QED
      BY <1>1, <2>2, <3>4 DEF IsFrozen, a
  <2>. QED
    BY <2>1, <2>2
<1>3. r = DumpAll(q2)
  BY DEF close
<1>. HIDE DEF r, q2, a
<1>4. CASE q2.FirstPage = Null
  BY <1>2, <1>3, <1>4 DEF DumpAll, IsClosedOf, r
<1>5. CASE q2.FirstPage # Null
  <2>. DEFINE d == DumpUpTo(q2, q2.LastPage + 1)
  <2>1. /\ q2.FirstPage \in 0 .. q2.LastPage /\ q2.LastPage \in Nat /\ q2 \in QueueType
        /\ q2.LastPage + 1 \in q2.FirstPage .. q2.LastPage + 1
    BY <1>2, <1>5, QueueFacts DEF QueueOk, WellFormed
  <2>2. IsDumped(q2, q2.LastPage + 1, d) /\ DumpedRight(d, w)
    BY <1>2, <1>5, <2>1, DumpWellFormed, DumpKept DEF QueueOk
  <2>3. r = [d EXCEPT !.FirstPage = Null]
    BY <1>3, <1>5 DEF DumpAll
  <2>. HIDE DEF d
  <2>4. r = [q2 EXCEPT !.FirstPage = Null, !.dumped = d.dumped]
    BY <2>1, <2>2, <2>3 DEF IsDumped, QueueType
  <2>5. /\ r.PageMap = q2.PageMap /\ r.size = q2.size /\ r.LastPage = q2.LastPage
        /\ r.EofFrozen = q2.EofFrozen /\ r.Good = q2.Good /\ r.Eof = q2.Eof
        /\ r.FirstPage = Null /\ r.dumped = d.dumped
    BY <2>1, <2>4 DEF QueueType
  <2>6. r \in QueueType
    BY <2>1, <2>2, <2>4 DEF IsDumped, QueueType
  <2>7. WellFormed(r)
    BY <1>2, <2>5, <2>6 DEF QueueOk, WellFormed
  <2>8. fillSize(r) = fillSize(q2)
    BY <2>5 DEF fillSize, MaxAddress
  <2>9. Kept(r, w) /\ EofOk(r)
    <3>1. Kept(q2, w) /\ EofOk(q2)
      BY <1>2 DEF QueueOk
    <3>2. Kept(r, w)
      BY <2>2, <2>5, <3>1 DEF Kept, DumpedRight
    <3>. QED
      BY <2>5, <2>8, <3>1, <3>2 DEF EofOk
  <2>10. ClosedOk(r)
    <3>. DEFINE l == q2.LastPage
                n == Len(q2.dumped)
                f == q2.LastPage + 1
    <3>1. /\ n = q2.FirstPage /\ n \in Nat /\ l \in Nat /\ n <= l
          /\ WellFormed(q2) /\ l \in 0 .. q2.LastPage /\ f = l + 1 /\ f \in Nat
      BY <1>2, <1>5, <2>1 DEF QueueOk, Kept
    <3>2. Len(d.dumped) = n + (f - q2.FirstPage)
      BY <2>2 DEF IsDumped
    <3>3. \A i \in 1 .. Len(d.dumped) :
             ~ (i <= n) => d.dumped[i] = PageBytes(q2.PageMap[q2.FirstPage + (i - n) - 1])
      BY <2>2 DEF IsDumped
    <3>4. /\ Len(PageBytes(q2.PageMap[l])) = q2.PageMap[l].max - minAddressForPage(l)
          /\ fillSize(q2) = q2.PageMap[l].max /\ fillSize(q2) \in Nat
          /\ minAddressForPage(l) \in Nat
      BY <3>1, QueueFacts, PageBytesType, MinNext
    <3>. HIDE DEF n, l, f
    <3>5. Len(d.dumped) = f /\ f \in 1 .. Len(d.dumped) /\ ~ (f <= n)
      BY <3>1, <3>2
    <3>6. q2.FirstPage + (f - n) - 1 = l
      BY <3>1
    <3>7. Len(d.dumped[f]) = q2.PageMap[l].max - minAddressForPage(l)
      BY <3>3, <3>4, <3>5, <3>6
    <3>8. minAddressForPage(l) + Len(d.dumped[f]) = fillSize(q2)
      BY <3>4, <3>7
    <3>. QED
      BY <1>2, <2>5, <2>8, <3>1, <3>5, <3>8 DEF ClosedOk, l, f
  <2>. QED
    BY <1>2, <2>5, <2>7, <2>8, <2>9, <2>10 DEF QueueOk, IsClosedOf, r
<1>. QED
  BY <1>4, <1>5 DEF r

---------------------------------------------------------------------------
\* Cursors.

\* From q to r nothing is taken from under the cursors on the pages "held".
Tracks(q, held, r) ==
  /\ q.LastPage <= r.LastPage /\ fillSize(q) <= fillSize(r)
  /\ q.EofFrozen => r.EofFrozen
  /\ r.FirstPage # Null =>
       /\ q.FirstPage # Null
       /\ \A h \in held \cap Nat : q.FirstPage <= h => r.FirstPage <= h

LEMMA CursorFacts ==
  ASSUME NEW x \in CursorType
  PROVE  /\ x = [page |-> x.page, addr |-> x.addr, guard |-> x.guard]
         /\ x.page \in PageId \cup {Null, ErrorPage}
         /\ x.addr \in AddressType /\ x.guard \in AddressType
         /\ x.addr \in Nat /\ x.guard \in Nat
         /\ x.page \in Nat \/ x.page \in {Null, ErrorPage}
         /\ x.page \in Nat => /\ minAddressForPage(x.page) \in Nat
                              /\ minAddressForPage(x.page + 1) \in Nat
<1>1. /\ x = [page |-> x.page, addr |-> x.addr, guard |-> x.guard]
      /\ x.page \in PageId \cup {Null, ErrorPage}
      /\ x.addr \in AddressType /\ x.guard \in AddressType
  BY DEF CursorType
<1>2. x.page \in Nat \/ x.page \in {Null, ErrorPage}
  BY <1>1, PagesAssumption DEF PageId
<1>. QED
  BY <1>1, <1>2, MinNext DEF AddressType

LEMMA CursorExcept ==
  ASSUME NEW x \in CursorType, NEW b, NEW g
  PROVE  /\ [x EXCEPT !.addr = b] = [page |-> x.page, addr |-> b, guard |-> x.guard]
         /\ [x EXCEPT !.guard = g] = [page |-> x.page, addr |-> x.addr, guard |-> g]
BY DEF CursorType

LEMMA CursorStays ==
  ASSUME NEW q, NEW w, QueueOk(q, w), NEW r, NEW v, QueueOk(r, v),
         NEW held, Tracks(q, held, r),
         NEW x, NEW rd, CursorOk(q, x, rd), x.page \in Nat => x.page \in held
  PROVE  CursorOk(r, x, rd)
<1>1. x \in CursorType
  BY DEF CursorOk
<1>2. /\ q.LastPage \in Nat /\ r.LastPage \in Nat
      /\ fillSize(q) \in Nat /\ fillSize(r) \in Nat
      /\ r.FirstPage # Null => r.FirstPage \in Nat
  BY QueueFacts DEF QueueOk
<1>3. ASSUME x.page \in Nat PROVE OnChain(r, x, rd)
  <2>1. /\ x.addr \in Nat /\ x.guard \in Nat /\ x.page \in held \cap Nat
        /\ OnChain(q, x, rd)
    BY <1>1, <1>3, CursorFacts DEF CursorOk
  <2>. QED
    BY <1>2, <2>1 DEF Tracks, OnChain
<1>. QED
  BY <1>1, <1>3 DEF CursorOk

\* A cursor placed on page p at address b.
LEMMA CursorPlaced ==
  ASSUME NEW q, NEW w, QueueOk(q, w), NEW p \in Nat, p <= q.LastPage,
         q.FirstPage # Null => q.FirstPage <= p,
         NEW b \in Nat, minAddressForPage(p) <= b, b <= minAddressForPage(p + 1),
         b <= fillSize(q), NEW rd
  PROVE  CursorOk(q, [page |-> p, addr |-> b, guard |-> Guard(q, p)], rd)
<1>. DEFINE g == Guard(q, p)
            x == [page |-> p, addr |-> b, guard |-> g]
<1>1. /\ q.LastPage \in Nat /\ p \in 0 .. q.LastPage
      /\ fillSize(q) \in Nat /\ fillSize(q) <= kMaxEofAddress /\ q \in QueueType
  BY QueueFacts DEF QueueOk, WellFormed
<1>2. /\ p \in PageId /\ MaxAddress(q, p) \in Nat /\ MaxAddress(q, p) <= fillSize(q)
      /\ MaxAddress(q, p) <= minAddressForPage(p + 1)
  BY <1>1, MaxWithin DEF QueueOk
<1>3. q.Eof \in Nat
  BY <1>1 DEF QueueType, AddressType
<1>6. g \in Nat /\ g <= MaxAddress(q, p) /\ g <= fillSize(q)
  BY <1>1, <1>2, <1>3 DEF Guard, Lesser
<1>. HIDE DEF g
<1>7. b \in AddressType /\ g \in AddressType
  BY <1>1, <1>6, Constants, PagesAssumption DEF AddressType
<1>8. x \in CursorType
  BY <1>2, <1>7 DEF CursorType
<1>9. g <= minAddressForPage(p + 1)
  BY <1>2, <1>6, MinNext
<1>10. OnChain(q, x, rd)
  BY <1>6, <1>9 DEF OnChain
<1>. QED
  BY <1>8, <1>10 DEF CursorOk, g

\* The cursor of a queue that has failed.
LEMMA CursorFailed ==
  ASSUME NEW q, NEW w, QueueOk(q, w), NEW b \in AddressType, NEW rd
  PROVE  CursorOk(q, [page |-> ErrorPage, addr |-> b, guard |-> Guard(q, ErrorPage)], rd)
<1>1. q.Eof \in AddressType /\ kMaxEofAddress \in AddressType
  BY Constants DEF QueueOk, WellFormed, QueueType
<1>2. Guard(q, ErrorPage) \in AddressType
  BY <1>1 DEF Guard, MaxAddress, Lesser
<1>. QED
  BY <1>2, PagesAssumption DEF CursorOk, CursorType

\* A step in which cursor c becomes x and the queue q tracks the others.
LEMMA OneMoves ==
  ASSUME IInv, NEW c \in Cursors, NEW x, NEW q, NEW w,
         QueueOk(q, w), w \in [PageId -> [Offset -> Byte]],
         Tracks(queue, HeldBut(c), q), CursorOk(q, x, c \in Readers),
         queue' = q, written' = w, cursor' = [cursor EXCEPT ![c] = x]
  PROVE  IInv'
<1>1. cursor \in [Cursors -> CursorType] /\ QueueOk(queue, written)
  BY DEF IInv
<1>2. cursor' \in [Cursors -> CursorType]
  BY <1>1 DEF CursorOk
<1>3. ASSUME NEW d \in Cursors PROVE CursorOk(queue', cursor'[d], d \in Readers)
  <2>1. CASE d = c
    BY <1>1, <2>1
  <2>2. CASE d # c
    <3>1. cursor'[d] = cursor[d] /\ CursorOk(queue, cursor[d], d \in Readers)
      BY <1>1, <2>2 DEF IInv
    <3>2. cursor[d].page \in Nat => cursor[d].page \in HeldBut(c)
      BY <2>2, PagesAssumption DEF HeldBut
    <3>. QED
      BY <1>1, <3>1, <3>2, CursorStays
  <2>. QED
    BY <2>1, <2>2
<1>. QED
  BY <1>2, <1>3 DEF IInv

\* What the invariant says of a cursor that is used: it is on a page, and not
\* past what that page holds.
Here(c, k, a) ==
  /\ k \in Nat /\ a \in Nat /\ cursor[c].guard \in Nat
  /\ k \in Held \cap Nat
  /\ OnChain(queue, cursor[c], c \in Readers)
  /\ MaxAddress(queue, k) = queue.PageMap[k].max
  /\ MaxAddress(queue, k) \in Nat
  /\ a <= MaxAddress(queue, k)
  /\ MaxAddress(queue, k) <= minAddressForPage(k + 1)
  /\ MaxAddress(queue, k) <= fillSize(queue)
  /\ minAddressForPage(k) \in Nat /\ minAddressForPage(k + 1) \in Nat

LEMMA CursorHere ==
  ASSUME IInv, NEW c \in Cursors, cursor[c].page \notin {Null, ErrorPage}
  PROVE  Here(c, cursor[c].page, cursor[c].addr)
<1>. DEFINE k == cursor[c].page
            a == cursor[c].addr
<1>1. /\ QueueOk(queue, written) /\ cursor[c] \in CursorType
      /\ CursorOk(queue, cursor[c], c \in Readers)
  BY DEF IInv, CursorOk
<1>2. /\ k \in Nat /\ a \in Nat /\ cursor[c].guard \in Nat
      /\ minAddressForPage(k) \in Nat /\ minAddressForPage(k + 1) \in Nat
  BY <1>1, CursorFacts
<1>3. OnChain(queue, cursor[c], c \in Readers) /\ k \in Held \cap Nat
  BY <1>1, <1>2 DEF CursorOk, Held
<1>4. k \in 0 .. queue.LastPage /\ WellFormed(queue)
  BY <1>1, <1>2, <1>3, QueueFacts DEF OnChain, QueueOk
<1>5. /\ MaxAddress(queue, k) = queue.PageMap[k].max /\ MaxAddress(queue, k) \in Nat
      /\ MaxAddress(queue, k) <= minAddressForPage(k + 1)
      /\ MaxAddress(queue, k) <= fillSize(queue)
      /\ a <= MaxAddress(queue, k)
  <2>. HIDE DEF k
  <2>. QED
    BY <1>3, <1>4, MaxWithin DEF OnChain, k
<1>. QED
  BY <1>2, <1>3, <1>5 DEF Here

\* r and q differ in the bytes of their pages only.
SameEnds(q, r) ==
  /\ r.FirstPage = q.FirstPage /\ r.LastPage = q.LastPage
  /\ r.EofFrozen = q.EofFrozen /\ r.Good = q.Good /\ r.Eof = q.Eof
  /\ fillSize(r) = fillSize(q)

Stored(w, a, b) == [w EXCEPT ![PageIndex(a)][PageAddress(a)] = b]

\* Storing a byte on a page of the chain, inside what the queue holds.
LEMMA StoreOk ==
  ASSUME NEW q, NEW w \in [PageId -> [Offset -> Byte]], QueueOk(q, w), q.FirstPage # Null,
         NEW p \in Nat, p <= q.LastPage, q.FirstPage <= p,
         NEW a \in Nat, minAddressForPage(p) <= a, a < minAddressForPage(p + 1),
         NEW b \in Byte
  PROVE  /\ QueueOk(Store(q, p, a, b), Stored(w, a, b))
         /\ Stored(w, a, b) \in [PageId -> [Offset -> Byte]]
         /\ SameEnds(q, Store(q, p, a, b))
         /\ Guard(Store(q, p, a, b), p) = Guard(q, p)
<1>. DEFINE o == a - minAddressForPage(p)
            m == [q.PageMap EXCEPT ![p].buf[o] = b]
            v == [w EXCEPT ![p][o] = b]
            r == Store(q, p, a, b)
<1>1. PageIndex(a) = p /\ PageAddress(a) = o
  <2>1. PageIndex(a) = p
    BY PageIndexUnique
  <2>. QED
    BY <2>1, PageIndexType
<1>2. /\ q.LastPage \in Nat /\ q.LastPage \in PageId /\ q.LastPage < q.size /\ q.size \in Nat
      /\ q.size <= kMaxPageIndex + 1 /\ q \in QueueType /\ kMaxPageIndex \in Nat
      /\ q.LastPage # ErrorPage /\ q.FirstPage \in Nat
  BY QueueFacts, PagesAssumption DEF QueueOk, WellFormed
<1>3. /\ p \in PageId /\ p \in 0 .. q.size - 1 /\ p # ErrorPage
  BY <1>2, PagesAssumption DEF PageId
<1>4. o \in Offset
  <2>1. minAddressForPage(p) \in Nat /\ minAddressForPage(p + 1) = minAddressForPage(p) + PageSize
    BY MinNext
  <2>. QED
    BY <2>1, PagesAssumption DEF Offset
<1>5. q.PageMap[p].index = p /\ MinAddress(q, p) = minAddressForPage(p)
  BY <1>3 DEF QueueOk, WellFormed, MinAddress
<1>. HIDE DEF o
<1>6. r = [q EXCEPT !.PageMap = m]
  BY <1>3, <1>5 DEF Store, o
<1>7. q.PageMap \in [PageId -> PageType] /\ q.PageMap[p] \in PageType
  BY <1>2, <1>3 DEF QueueType
<1>8. /\ m \in [PageId -> PageType]
      /\ m[p].index = q.PageMap[p].index /\ m[p].max = q.PageMap[p].max
      /\ m[p].next = q.PageMap[p].next
      /\ m[p].buf = [q.PageMap[p].buf EXCEPT ![o] = b]
      /\ \A x \in PageId : x # p => m[x] = q.PageMap[x]
  BY <1>3, <1>4, <1>7 DEF PageType
<1>. HIDE DEF m, r
<1>9. /\ r.PageMap = m /\ r.size = q.size /\ r.LastPage = q.LastPage
      /\ r.FirstPage = q.FirstPage /\ r.EofFrozen = q.EofFrozen
      /\ r.Good = q.Good /\ r.Eof = q.Eof /\ r.dumped = q.dumped
  BY <1>2, <1>6 DEF QueueType
<1>10. r \in QueueType
  BY <1>2, <1>6, <1>8 DEF QueueType
<1>11. \A x \in PageId : /\ m[x].index = q.PageMap[x].index /\ m[x].max = q.PageMap[x].max
                         /\ m[x].next = q.PageMap[x].next
  BY <1>8
<1>12. WellFormed(r)
  <2>1. /\ \A x \in 0 .. q.size - 1 : x \in PageId
        /\ \A x \in 0 .. q.LastPage - 1 : x \in PageId
    BY <1>2 DEF PageId
  <2>. QED
    BY <1>2, <1>9, <1>10, <1>11, <2>1 DEF QueueOk, WellFormed
<1>13. fillSize(r) = fillSize(q) /\ Guard(r, p) = Guard(q, p)
  BY <1>2, <1>3, <1>9, <1>11 DEF fillSize, Guard, MaxAddress
<1>14. EofOk(r) /\ ClosedOk(r)
  BY <1>9, <1>13 DEF QueueOk, EofOk, ClosedOk
<1>15. /\ v \in [PageId -> [Offset -> Byte]]
       /\ v[p] = [w[p] EXCEPT ![o] = b]
       /\ \A x \in PageId : x # p => v[x] = w[x]
  BY <1>3, <1>4
<1>. HIDE DEF v
<1>16. Kept(r, v)
  <2>1. ASSUME NEW x \in q.FirstPage .. q.LastPage PROVE m[x].buf = v[x]
    <3>1. x \in PageId /\ q.PageMap[x].buf = w[x]
      BY <1>2 DEF QueueOk, Kept, PageId
    <3>. QED
      BY <1>8, <1>15, <3>1
  <2>2. DumpedRight(r, v)
    <3>1. Len(q.dumped) = q.FirstPage
      BY DEF QueueOk, Kept
    <3>2. ASSUME NEW i \in 1 .. Len(q.dumped) PROVE i - 1 \in PageId /\ i - 1 # p
      BY <1>2, <1>3, <3>1 DEF PageId
    <3>. QED
      BY <1>9, <1>15, <3>2 DEF DumpedRight, QueueOk, Kept
  <2>3. ASSUME NEW x \in q.size .. kMaxPageIndex PROVE v[x] = [y \in Offset |-> Zero]
    <3>1. x \in PageId /\ x # p
      BY <1>2 DEF PageId
    <3>. QED
      BY <1>15, <3>1 DEF QueueOk, Kept
  <2>. QED
    BY <1>9, <2>1, <2>2, <2>3 DEF QueueOk, Kept
<1>17. QueueOk(r, v)
  BY <1>12, <1>14, <1>16 DEF QueueOk
<1>. QED
  BY <1>1, <1>9, <1>13, <1>15, <1>17 DEF Stored, SameEnds, r, v

---------------------------------------------------------------------------
\* The actions.

\* A byte written on a page of the chain.
LEMMA WriteOnPage ==
  ASSUME IInv, NEW c \in Writers, NEW q, QueueOk(q, written), q.FirstPage # Null,
         Tracks(queue, HeldBut(c), q),
         NEW p \in Nat, p <= q.LastPage, q.FirstPage <= p,
         NEW a \in Nat, minAddressForPage(p) <= a, a < minAddressForPage(p + 1),
         a + 1 <= fillSize(q), Write(c, q, p, a)
  PROVE  IInv'
<1>. DEFINE r == Store(q, p, a, Data[c])
            v == Stored(written, a, Data[c])
            x == [page |-> p, addr |-> a + 1, guard |-> Guard(r, p)]
<1>1. Data[c] \in Byte /\ c \in Cursors /\ written \in [PageId -> [Offset -> Byte]]
  BY QueueAssumption DEF Cursors, IInv
<1>2. /\ QueueOk(r, v) /\ v \in [PageId -> [Offset -> Byte]]
      /\ SameEnds(q, r) /\ Guard(r, p) = Guard(q, p)
  BY <1>1, StoreOk
<1>3. p # ErrorPage /\ fillSize(q) \in Nat /\ fillSize(q) <= kMaxEofAddress
  BY QueueFacts, PagesAssumption DEF QueueOk
<1>4. Plus(a, 1) = a + 1
  <2>1. a + 1 < AddressSpace
    BY <1>3, Constants, PagesAssumption
  <2>. QED
    BY <2>1, PlusType
<1>5. queue' = r /\ written' = v
  BY <1>3 DEF Write, Stored
<1>6. cursor' = [cursor EXCEPT ![c] = x]
  <2>1. [Place(q, p, a) EXCEPT !.addr = Plus(@, 1)] = x
    BY <1>2, <1>4 DEF Place
  <2>. QED
    BY <2>1 DEF Write
<1>. HIDE DEF r, v
<1>7. CursorOk(r, x, c \in Readers)
  <2>1. minAddressForPage(p) \in Nat /\ minAddressForPage(p + 1) \in Nat
    BY MinNext
  <2>2. minAddressForPage(p) <= a + 1 /\ a + 1 <= minAddressForPage(p + 1)
    BY <2>1
  <2>. QED
    BY <1>2, <2>2, CursorPlaced DEF SameEnds
<1>8. Tracks(queue, HeldBut(c), r)
  BY <1>2 DEF SameEnds, Tracks
<1>. HIDE DEF x
<1>. QED
  BY <1>1, <1>2, <1>5, <1>6, <1>7, <1>8, OneMoves

\* A cursor that fails, on a queue that is frozen.
LEMMA FailFrozen ==
  ASSUME IInv, NEW c \in Cursors, queue.EofFrozen, FailCursor(c, queue)
  PROVE  IInv'
<1>. DEFINE r == fail(queue)
            x == [page |-> ErrorPage, addr |-> Plus(kErrorPageAddress, 1),
                  guard |-> Guard(r, ErrorPage)]
<1>1. QueueOk(queue, written) /\ queue \in QueueType
  BY DEF IInv, QueueOk, WellFormed
<1>2. r = [queue EXCEPT !.Good = FALSE, !.Eof = 0]
  BY DEF fail
<1>. HIDE DEF r
<1>3. /\ r \in QueueType
      /\ r.PageMap = queue.PageMap /\ r.size = queue.size /\ r.LastPage = queue.LastPage
      /\ r.FirstPage = queue.FirstPage /\ r.EofFrozen = queue.EofFrozen
      /\ r.dumped = queue.dumped /\ r.Eof = 0 /\ ~ r.Good
  BY <1>1, <1>2, Constants DEF QueueType
<1>4. fillSize(r) = fillSize(queue) /\ fillSize(queue) \in Nat
  BY <1>1, <1>3, QueueFacts DEF fillSize, MaxAddress, QueueOk
<1>5. QueueOk(r, written)
  BY <1>1, <1>3, <1>4, Constants DEF QueueOk, WellFormed, Kept, DumpedRight, EofOk, ClosedOk
<1>6. Plus(kErrorPageAddress, 1) \in AddressType
  BY Constants, PlusType DEF AddressType
<1>7. queue' = r /\ written' = written /\ cursor' = [cursor EXCEPT ![c] = x]
  <2>1. [Place(r, ErrorPage, kErrorPageAddress) EXCEPT !.addr = Plus(@, 1)] = x
    BY DEF Place
  <2>. QED
    BY <2>1 DEF FailCursor, Write, Store, r
<1>8. CursorOk(r, x, c \in Readers)
  BY <1>5, <1>6, CursorFailed
<1>9. Tracks(queue, HeldBut(c), r)
  <2>1. queue.LastPage \in Nat
    BY <1>1, QueueFacts DEF QueueOk
  <2>. QED
    BY <1>3, <1>4, <2>1 DEF Tracks
<1>10. written \in [PageId -> [Offset -> Byte]]
  BY DEF IInv
<1>. HIDE DEF x
<1>. QED
  BY <1>5, <1>7, <1>8, <1>9, <1>10, OneMoves

\* A queue that cannot be extended, and is not frozen, has come to the last
\* page of the address space.
LEMMA OutOfRoom ==
  ASSUME NEW q, WellFormed(q), ~ q.EofFrozen, NEW a \in Nat, ~ writeFillOk(q, a)
  PROVE  fail(writeFill(q, a)).LastPage = kMaxPageIndex
<1>. DEFINE g == AppendUpTo(q, kMaxPageIndex)
            r == writeFill(q, a)
<1>1. ~ (a <= fillSize(q))
  BY DEF writeFillOk
<1>2. kMaxPageIndex \in q.LastPage .. kMaxPageIndex /\ q \in QueueType
  BY QueueFacts, PagesAssumption DEF PageId, WellFormed
<1>3. IsAppended(q, kMaxPageIndex, g)
  BY <1>2, AppendShape
<1>4. r = [g EXCEPT !.PageMap[g.LastPage].max = 0]
  BY <1>1 DEF writeFill
<1>. HIDE DEF g, r
<1>5. g = [q EXCEPT !.PageMap = g.PageMap, !.size = kMaxPageIndex + 1,
                    !.LastPage = kMaxPageIndex]
  BY <1>3 DEF IsAppended
<1>6. r.LastPage = kMaxPageIndex
  BY <1>2, <1>4, <1>5 DEF QueueType
<1>7. fail(r).LastPage = r.LastPage
  BY <1>2, <1>4, <1>5 DEF fail, QueueType
<1>. QED
  BY <1>6, <1>7 DEF r

\* writeByte.  A byte goes where the cursor is when that is on its page and
\* written already; otherwise the cursor is at the end of its page, the queue
\* is extended behind it, and it moves to the page of its address.
LEMMA WriteByteOk ==
  ASSUME IInv, Contract, RoomLeft, RoomLeft', NEW c \in Writers, WriteByte(c)
  PROVE  IInv'
<1>. DEFINE k == cursor[c].page
            a == cursor[c].addr
            t == Plus(a, Grow)
            q == writeFill(queue, t)
<1>1. /\ c \in Cursors /\ k \notin {Null, ErrorPage} /\ queue.FirstPage # Null
      /\ ~ queue.EofFrozen \/ a < queue.Eof
  BY DEF Contract, WriteByte, Usable, IsOpen, IsClosed, Cursors
<1>2. Here(c, k, a)
  BY <1>1, CursorHere
<1>3. /\ QueueOk(queue, written) /\ WellFormed(queue) /\ EofOk(queue)
      /\ written \in [PageId -> [Offset -> Byte]]
  BY DEF IInv, QueueOk
<1>4. /\ queue.LastPage \in Nat /\ fillSize(queue) \in Nat
      /\ fillSize(queue) <= kMaxEofAddress
      /\ queue.FirstPage \in Nat /\ queue.FirstPage <= k /\ k <= queue.LastPage
      /\ queue.Eof \in Nat
  <2>1. /\ queue.LastPage \in Nat /\ fillSize(queue) \in Nat
        /\ fillSize(queue) <= kMaxEofAddress /\ queue.FirstPage \in Nat
    BY <1>1, <1>3, QueueFacts
  <2>2. queue.Eof \in Nat
    BY <1>3 DEF WellFormed, QueueType, AddressType
  <2>. QED
    BY <1>1, <1>2, <2>1, <2>2 DEF Here, OnChain
<1>5. /\ k \in Nat /\ a \in Nat /\ cursor[c].guard \in Nat
      /\ minAddressForPage(k) <= a /\ a <= minAddressForPage(k + 1)
      /\ a <= fillSize(queue)
  BY <1>2 DEF Here, OnChain
<1>6. CASE ~ (a >= cursor[c].guard /\ isIndexAtEndOfPage(c))
  <2>1. Write(c, queue, k, a)
    BY <1>6 DEF WriteByte
  <2>2. a < minAddressForPage(k + 1) /\ a + 1 <= fillSize(queue)
    <3>1. CASE a # MaxAddress(queue, k)
      BY <1>2, <1>4, <3>1 DEF Here
    <3>2. CASE a < cursor[c].guard
      <4>1. a < minAddressForPage(k + 1)
        BY <1>2, <3>2 DEF Here, OnChain
      <4>2. a < fillSize(queue)
        BY <1>1, <1>2, <1>3, <1>4, <3>2 DEF Here, OnChain, EofOk
      <4>. QED
        BY <1>4, <1>5, <4>1, <4>2
    <3>. QED
      BY <1>5, <1>6, <3>1, <3>2 DEF isIndexAtEndOfPage
  <2>3. Tracks(queue, HeldBut(c), queue)
    BY <1>4 DEF Tracks
  <2>. HIDE DEF k, a
  <2>. QED
    BY <1>1, <1>3, <1>4, <1>5, <2>1, <2>2, <2>3, WriteOnPage
<1>7. CASE a >= cursor[c].guard /\ isIndexAtEndOfPage(c)
  <2>0. WriteAfterFill(c)
    BY <1>7 DEF WriteByte
  <2>1. Grow \in Nat /\ Grow >= 1 /\ Grow <= PageSize
    BY QueueAssumption, PagesAssumption
  <2>2. a < queue.Eof
    <3>1. CASE ~ queue.EofFrozen
      <4>1. a < kMaxEofAddress
        <5>1. fillSize(queue) # kMaxEofAddress
          <6>1. PageIndex(kMaxEofAddress) = kMaxPageIndex
            <7>1. /\ kMaxPageIndex \in Nat /\ kMaxEofAddress = minAddressForPage(kMaxPageIndex)
                  /\ kMaxEofAddress \in Nat /\ PageSize \in Nat /\ PageSize > 2
              BY Constants, PagesAssumption DEF kMaxEofAddress
            <7>2. kMaxEofAddress < minAddressForPage(kMaxPageIndex + 1)
              BY <7>1, MinNext
            <7>. QED
              BY <7>1, <7>2, PageIndexUnique
          <6>. QED
            BY <1>3, <6>1, QueueFacts, PagesAssumption DEF RoomLeft
        <5>. QED
          BY <1>4, <1>5, <5>1, Constants
      <4>. QED
        BY <1>3, <3>1, <4>1 DEF EofOk
    <3>. QED
      BY <1>1, <3>1
  <2>3. t = a + Grow /\ t \in Nat
    <3>1. a + Grow < AddressSpace
      BY <1>3, <1>4, <1>5, <2>1, <2>2, Constants, PagesAssumption DEF EofOk
    <3>. QED
      BY <1>5, <2>1, <3>1, PlusType
  <2>4. CASE ~ writeFillOk(queue, t)
    <3>1. FailCursor(c, q)
      BY <2>0, <2>2, <2>4, <1>4, <1>5 DEF WriteAfterFill
    <3>2. queue.EofFrozen
      <4>1. SUFFICES ASSUME ~ queue.EofFrozen PROVE FALSE
        OBVIOUS
      <4>2. fail(q).LastPage = kMaxPageIndex
        BY <1>3, <2>3, <2>4, <4>1, OutOfRoom
      <4>3. queue' = fail(q)
        BY <3>1 DEF FailCursor, Write, Store
      <4>. QED
        BY <4>2, <4>3, PagesAssumption DEF RoomLeft
    <3>3. q = queue
      BY <3>2 DEF writeFill
    <3>. QED
      BY <1>1, <3>1, <3>2, <3>3, FailFrozen
  <2>5. CASE writeFillOk(queue, t)
    <3>. DEFINE p == getCachedPage(q, Held, a)
                q3 == Seek(q, HeldBut(c), p)
    <3>1. QueueOk(q, written) /\ IsFilled(queue, t, q)
      BY <1>3, <2>3, <2>5, FillOk
    <3>. HIDE DEF q, t
    <3>2. /\ WellFormed(q) /\ t <= fillSize(q) /\ fillSize(q) \in Nat /\ q.LastPage \in Nat
          /\ q.FirstPage = queue.FirstPage /\ q.EofFrozen = queue.EofFrozen
          /\ queue.LastPage <= q.LastPage /\ fillSize(queue) <= fillSize(q)
      BY <3>1, QueueFacts DEF IsFilled, SameFront
    <3>3. PageIndex(a) \in k .. q.LastPage /\ p = PageIndex(a)
      BY <1>2, <1>5, <2>1, <2>3, <3>2, FindHeld DEF Here
    <3>4. /\ p \in Nat /\ p # ErrorPage /\ minAddressForPage(p) <= a
          /\ a < minAddressForPage(p + 1)
      BY <1>5, <3>3, PageIndexType, PagesAssumption
    <3>5. Write(c, q3, p, a)
      <4>1. AddressOnPage(p, a) = a
        BY <3>4 DEF AddressOnPage
      <4>. QED
        BY <2>0, <2>2, <2>5, <1>4, <1>5, <4>1 DEF WriteAfterFill, q, t
    <3>. HIDE DEF p
    <3>6. QueueOk(q3, written) /\ Passed(q, HeldBut(c) \cup {p}, q3)
      BY <3>1, <3>4, SeekOk
    <3>. HIDE DEF q3
    <3>7. fillSize(q3) = fillSize(q) /\ q3.LastPage = q.LastPage /\ q3.FirstPage # Null
      BY <1>1, <3>2, <3>6 DEF Passed, fillSize, MaxAddress
    <3>8. q3.FirstPage <= p
      BY <1>1, <1>4, <1>5, <3>2, <3>3, <3>4, <3>6, <3>7 DEF Passed
    <3>9. Tracks(queue, HeldBut(c), q3)
      BY <1>1, <3>2, <3>6, <3>7 DEF Passed, Tracks
    <3>10. p <= q3.LastPage /\ a + 1 <= fillSize(q3)
      BY <1>5, <2>1, <2>3, <3>2, <3>3, <3>4, <3>7
    <3>. HIDE DEF k, a
    <3>. QED
      BY <1>5, <3>4, <3>5, <3>6, <3>7, <3>8, <3>9, <3>10, WriteOnPage
  <2>. QED
    BY <2>4, <2>5
<1>. QED
  BY <1>6, <1>7

\* The facts the proofs of the reading actions start from.
LEMMA ReaderFacts ==
  ASSUME IInv, NEW c \in Readers, cursor[c].page \notin {Null, ErrorPage}
  PROVE  /\ c \in Cursors /\ Here(c, cursor[c].page, cursor[c].addr)
         /\ QueueOk(queue, written) /\ written \in [PageId -> [Offset -> Byte]]
         /\ queue.LastPage \in Nat /\ fillSize(queue) \in Nat
         /\ fillSize(queue) <= kMaxEofAddress
         /\ queue.FirstPage # Null => /\ queue.FirstPage \in Nat
                                      /\ queue.FirstPage <= cursor[c].page
         /\ cursor[c].page <= queue.LastPage
         /\ minAddressForPage(cursor[c].page) <= cursor[c].addr
         /\ cursor[c].addr <= fillSize(queue)
         /\ cursor[c] \in CursorType /\ cursor \in [Cursors -> CursorType]
         /\ \A n \in {0, 1} : cursor[c].addr + n <= fillSize(queue) =>
              Plus(cursor[c].addr, n) = cursor[c].addr + n
<1>1. c \in Cursors /\ Here(c, cursor[c].page, cursor[c].addr)
  BY CursorHere DEF Cursors
<1>2. /\ QueueOk(queue, written) /\ written \in [PageId -> [Offset -> Byte]]
      /\ cursor[c] \in CursorType /\ cursor \in [Cursors -> CursorType]
  BY <1>1 DEF IInv
<1>3. /\ queue.LastPage \in Nat /\ fillSize(queue) \in Nat
      /\ fillSize(queue) <= kMaxEofAddress
      /\ queue.FirstPage # Null => queue.FirstPage \in Nat
  BY <1>2, QueueFacts DEF QueueOk
<1>4. ASSUME NEW n \in {0, 1}, cursor[c].addr + n <= fillSize(queue)
      PROVE  Plus(cursor[c].addr, n) = cursor[c].addr + n
  <2>1. cursor[c].addr \in Nat /\ n \in Nat /\ cursor[c].addr + n < AddressSpace
    BY <1>1, <1>3, <1>4, Constants, PagesAssumption DEF Here
  <2>. QED
    BY <2>1, PlusType
<1>. QED
  BY <1>1, <1>2, <1>3, <1>4 DEF Here, OnChain

\* readFillBuffer moves the cursor to the page of its address.
LEMMA ReadFromPageOk ==
  ASSUME IInv, NEW c \in Readers, cursor[c].page \notin {Null, ErrorPage},
         CanReadFill(c), NEW n \in {0, 1}, readFromPage(c, n), written' = written
  PROVE  IInv'
<1>. DEFINE k == cursor[c].page
            a == cursor[c].addr
            p == getCachedPage(queue, Held, a)
            q == Seek(queue, HeldBut(c), p)
            x == [page |-> p, addr |-> a + n, guard |-> Guard(q, p)]
<1>1. /\ c \in Cursors /\ Here(c, k, a) /\ QueueOk(queue, written)
      /\ written \in [PageId -> [Offset -> Byte]]
      /\ queue.LastPage \in Nat /\ fillSize(queue) \in Nat
      /\ queue.FirstPage # Null => queue.FirstPage \in Nat /\ queue.FirstPage <= k
      /\ minAddressForPage(k) <= a
  BY ReaderFacts
<1>2. k \in Nat /\ a \in Nat /\ k \in Held \cap Nat
  BY <1>1 DEF Here
<1>3. a < fillSize(queue) /\ a + n <= fillSize(queue)
  BY <1>1, <1>2 DEF CanReadFill, readFill
<1>4. PageIndex(a) \in k .. queue.LastPage /\ p = PageIndex(a)
  BY <1>1, <1>2, <1>3, FindHeld DEF QueueOk
<1>5. /\ p \in Nat /\ p # ErrorPage /\ minAddressForPage(p) <= a
      /\ a < minAddressForPage(p + 1)
      /\ minAddressForPage(p) \in Nat /\ minAddressForPage(p + 1) \in Nat
  BY <1>2, <1>4, PageIndexType, MinNext, PagesAssumption
<1>6. Plus(a, n) = a + n /\ AddressOnPage(p, a) = a
  BY <1>3, <1>5, ReaderFacts DEF AddressOnPage
<1>7. queue' = q /\ cursor' = [cursor EXCEPT ![c] = x]
  <2>1. [Place(q, p, a) EXCEPT !.addr = Plus(@, n)] = x
    BY <1>6 DEF Place
  <2>. QED
    BY <1>6, <2>1 DEF readFromPage
<1>. HIDE DEF p
<1>8. QueueOk(q, written) /\ Passed(queue, HeldBut(c) \cup {p}, q)
  BY <1>1, <1>5, SeekOk
<1>. HIDE DEF q
<1>9. fillSize(q) = fillSize(queue) /\ q.LastPage = queue.LastPage
  BY <1>8 DEF Passed, fillSize, MaxAddress
<1>10. q.FirstPage # Null => q.FirstPage <= p
  <2>1. q.FirstPage # Null => queue.FirstPage <= p /\ queue.FirstPage \in Nat
    BY <1>1, <1>2, <1>4, <1>5, <1>8 DEF Passed
  <2>. QED
    BY <1>5, <1>8, <2>1 DEF Passed
<1>11. CursorOk(q, x, c \in Readers)
  <2>1. /\ a + n \in Nat /\ minAddressForPage(p) <= a + n
        /\ a + n <= minAddressForPage(p + 1)
    BY <1>2, <1>5
  <2>2. p <= q.LastPage /\ a + n <= fillSize(q)
    BY <1>1, <1>2, <1>3, <1>4, <1>9
  <2>. HIDE DEF a
  <2>. QED
    BY <1>5, <1>8, <1>10, <2>1, <2>2, CursorPlaced
<1>12. Tracks(queue, HeldBut(c), q)
  BY <1>1, <1>8, <1>9 DEF Passed, Tracks
<1>. HIDE DEF x
<1>. QED
  BY <1>1, <1>7, <1>8, <1>11, <1>12, OneMoves

\* A cursor that stays on its page, up to what that page holds.
LEMMA StayOnPage ==
  ASSUME IInv, NEW c \in Readers, cursor[c].page \notin {Null, ErrorPage},
         NEW b \in Nat, cursor[c].addr <= b, b <= MaxAddress(queue, cursor[c].page),
         NEW g, g = Guard(queue, cursor[c].page) \/ g = cursor[c].guard,
         cursor' = [cursor EXCEPT ![c] = [page |-> cursor[c].page, addr |-> b, guard |-> g]],
         UNCHANGED << queue, written >>
  PROVE  IInv'
<1>. DEFINE k == cursor[c].page
            a == cursor[c].addr
            x == [page |-> k, addr |-> b, guard |-> g]
<1>1. /\ c \in Cursors /\ Here(c, k, a) /\ QueueOk(queue, written)
      /\ written \in [PageId -> [Offset -> Byte]]
      /\ queue.LastPage \in Nat /\ fillSize(queue) \in Nat
      /\ queue.FirstPage # Null => queue.FirstPage <= k
      /\ k <= queue.LastPage /\ minAddressForPage(k) <= a
  BY ReaderFacts
<1>2. /\ k \in Nat /\ minAddressForPage(k) <= b /\ b <= minAddressForPage(k + 1)
      /\ b <= fillSize(queue)
  BY <1>1 DEF Here
<1>3. CursorOk(queue, [page |-> k, addr |-> b, guard |-> Guard(queue, k)], c \in Readers)
  BY <1>1, <1>2, CursorPlaced
<1>4. CursorOk(queue, x, c \in Readers)
  <2>1. CASE g = Guard(queue, k)
    BY <1>3, <2>1
  <2>2. CASE g = cursor[c].guard
    <3>1. cursor[c].guard \in AddressType
      BY <1>1, CursorFacts DEF IInv
    <3>2. OnChain(queue, cursor[c], c \in Readers)
      BY <1>1 DEF Here
    <3>. QED
      BY <1>3, <2>2, <3>1, <3>2 DEF CursorOk, CursorType, OnChain
  <2>. QED
    BY <2>1, <2>2
<1>5. Tracks(queue, HeldBut(c), queue)
  BY <1>1 DEF Tracks
<1>6. queue' = queue /\ written' = written /\ cursor' = [cursor EXCEPT ![c] = x]
  OBVIOUS
<1>. HIDE DEF x
<1>. QED
  BY <1>1, <1>4, <1>5, <1>6, OneMoves

LEMMA ReguardOk ==
  ASSUME IInv, NEW c \in Readers, cursor[c].page \notin {Null, ErrorPage},
         ReguardCursor(c), written' = written
  PROVE  IInv'
<1>. DEFINE b == cursor[c].addr
            g == Guard(queue, cursor[c].page)
<1>1. Here(c, cursor[c].page, cursor[c].addr) /\ cursor[c] \in CursorType
  BY ReaderFacts
<1>2. [cursor[c] EXCEPT !.guard = g] = [page |-> cursor[c].page, addr |-> b, guard |-> g]
  BY <1>1, CursorExcept
<1>3. /\ cursor' = [cursor EXCEPT ![c] = [page |-> cursor[c].page, addr |-> b, guard |-> g]]
      /\ queue' = queue
  BY <1>2 DEF ReguardCursor
<1>4. b \in Nat /\ cursor[c].addr <= b /\ b <= MaxAddress(queue, cursor[c].page)
  BY <1>1 DEF Here
<1>5. g = Guard(queue, cursor[c].page)
  OBVIOUS
<1>. HIDE DEF b, g
<1>. QED
  BY <1>3, <1>4, <1>5, StayOnPage

\* atEob and readByte.
LEMMA AtEobOk ==
  ASSUME IInv, Contract, NEW c \in Readers, AtEob(c)
  PROVE  IInv'
<1>1. cursor[c].page \notin {Null, ErrorPage} /\ written' = written
  BY DEF AtEob, Usable, IsOpen, Contract
<1>2. (CanReadFill(c) /\ readFromPage(c, 0)) \/ ReguardCursor(c)
  BY DEF AtEob
<1>3. CASE CanReadFill(c) /\ readFromPage(c, 0)
  <2>1. 0 \in {0, 1}
    OBVIOUS
  <2>. QED
    BY <1>1, <1>3, <2>1, ReadFromPageOk
<1>4. CASE ReguardCursor(c)
  BY <1>1, <1>4, ReguardOk
<1>. QED
  BY <1>2, <1>3, <1>4

LEMMA ReadByteOk ==
  ASSUME IInv, Contract, NEW c \in Readers, ReadByte(c)
  PROVE  IInv'
<1>. DEFINE k == cursor[c].page
            a == cursor[c].addr
            g == IF a < cursor[c].guard THEN cursor[c].guard ELSE Guard(queue, k)
<1>1. k \notin {Null, ErrorPage} /\ written' = written
  BY DEF ReadByte, Usable, IsOpen, Contract
<1>2. CASE a >= cursor[c].guard /\ isIndexAtEndOfPage(c)
  <2>1. (CanReadFill(c) /\ readFromPage(c, 1)) \/ ReguardCursor(c)
    BY <1>2 DEF ReadByte
  <2>. QED
    BY <1>1, <2>1, ReadFromPageOk, ReguardOk
<1>3. CASE ~ (a >= cursor[c].guard /\ isIndexAtEndOfPage(c))
  <2>1. /\ Here(c, k, a) /\ fillSize(queue) \in Nat
        /\ cursor[c] \in CursorType
        /\ a + 1 <= fillSize(queue) => Plus(a, 1) = a + 1
    BY <1>1, ReaderFacts
  <2>2. /\ a \in Nat /\ cursor[c].guard \in Nat
        /\ MaxAddress(queue, k) \in Nat /\ a <= MaxAddress(queue, k)
        /\ MaxAddress(queue, k) <= fillSize(queue)
        /\ cursor[c].guard <= minAddressForPage(k + 1)
        /\ cursor[c].guard <= fillSize(queue)
        /\ k \in Nat /\ minAddressForPage(k + 1) \in Nat
    BY <2>1 DEF Here, OnChain
  <2>3. a + 1 <= MaxAddress(queue, k)
    <3>1. CASE a # MaxAddress(queue, k)
      BY <2>2, <3>1
    <3>2. CASE a = MaxAddress(queue, k) /\ a < cursor[c].guard
      \* the guard is within the page and within what the queue holds, and the
      \* page holds all of that
      <4>1. k \in 0 .. queue.LastPage /\ WellFormed(queue)
        BY <1>1, <2>2, ReaderFacts DEF QueueOk
      <4>. QED
        BY <2>2, <3>2, <4>1, MaxWithin
    <3>. QED
      BY <1>3, <2>2, <3>1, <3>2 DEF isIndexAtEndOfPage
  <2>4. Plus(a, 1) = a + 1
    BY <2>1, <2>2, <2>3
  <2>7. /\ cursor' = [cursor EXCEPT ![c] = [page |-> k, addr |-> a + 1, guard |-> g]]
        /\ queue' = queue
    <3>1. /\ cursor' = [cursor EXCEPT ![c] = [page |-> k, addr |-> Plus(a, 1), guard |-> g]]
          /\ queue' = queue
      BY <1>3 DEF ReadByte
    <3>. QED
      BY <2>4, <3>1
  <2>8. g = Guard(queue, k) \/ g = cursor[c].guard
    OBVIOUS
  <2>9. a + 1 \in Nat /\ a <= a + 1
    BY <2>2
  <2>. HIDE DEF g
  <2>. QED
    BY <1>1, <2>3, <2>7, <2>8, <2>9, StayOnPage
<1>. QED
  BY <1>2, <1>3

\* advance: the cursor ends on the page of the address it has come to.
LEMMA AdvanceOk ==
  ASSUME IInv, NEW c \in Readers, NEW n, Advance(c, n)
  PROVE  IInv'
<1>. DEFINE k == cursor[c].page
            a == cursor[c].addr
            ends == {e \in PageEnds(c) : e > a}
            far(e) == e >= a + n \/ e = fillSize(queue)
            Least(e) == far(e) /\ \A f \in ends : far(f) => e <= f
            to == CHOOSE e \in ends : Least(e)
            from == getCachedPage(queue, Held, to - 1)
            q == Seek(queue, HeldBut(c), from)
            p == getReadPage(q, HeldBut(c) \cup {from}, to)
            x == [page |-> p, addr |-> to, guard |-> cursor[c].guard]
<1>1. k \notin {Null, ErrorPage} /\ CanReadFill(c) /\ written' = written
  BY DEF Advance, IsOpen
<1>2. /\ c \in Cursors /\ Here(c, k, a) /\ QueueOk(queue, written)
      /\ written \in [PageId -> [Offset -> Byte]]
      /\ queue.LastPage \in Nat /\ fillSize(queue) \in Nat
      /\ queue.FirstPage # Null => queue.FirstPage \in Nat /\ queue.FirstPage <= k
      /\ minAddressForPage(k) <= a /\ cursor[c] \in CursorType
  BY <1>1, ReaderFacts
<1>3. /\ k \in Nat /\ a \in Nat /\ k \in Held \cap Nat
      /\ minAddressForPage(k) \in Nat /\ a < fillSize(queue)
  BY <1>1, <1>2 DEF Here, CanReadFill, readFill
<1>4. PageIndex(a) \in 0 .. queue.LastPage /\ PageIndex(a) \in Nat
  BY <1>2, <1>3, IndexWithin DEF QueueOk
<1>5. \A e \in ends : e \in Nat /\ a < e /\ e <= fillSize(queue)
  <2>1. ASSUME NEW y \in PageIndex(a) .. queue.LastPage
        PROVE  MaxAddress(queue, y) \in Nat /\ MaxAddress(queue, y) <= fillSize(queue)
    <3>1. y \in 0 .. queue.LastPage
      BY <1>4
    <3>. QED
      BY <1>2, <3>1, MaxWithin DEF QueueOk
  <2>. QED
    BY <1>3, <2>1 DEF PageEnds
<1>6. to \in ends
  <2>. DEFINE F == {e \in ends : far(e)}
  <2>1. fillSize(queue) \in F
    <3>1. MaxAddress(queue, queue.LastPage) = fillSize(queue)
      BY DEF fillSize
    <3>. QED
      BY <1>2, <1>3, <1>4, <3>1 DEF PageEnds
  <2>2. \E m \in F : \A e \in F : m <= e
    <3>1. F \subseteq Nat /\ F # {}
      BY <1>5, <2>1
    <3>. HIDE DEF F
    <3>. QED
      BY <3>1, LeastNat
  <2>. HIDE DEF ends, far
  <2>3. \E e \in ends : Least(e)
    BY <2>2
  <2>. QED
    BY <2>3
<1>7. to \in Nat /\ a < to /\ to <= fillSize(queue)
  BY <1>5, <1>6
<1>8. /\ queue' = FailIfError(q, p)
      /\ cursor' = [cursor EXCEPT ![c] =
           [page |-> p, addr |-> AddressOnPage(p, to), guard |-> cursor[c].guard]]
  BY DEF Advance
<1>. HIDE DEF to
<1>9. from \in Nat /\ from \in k .. queue.LastPage /\ minAddressForPage(from) <= to
  <2>1. to - 1 \in Nat /\ minAddressForPage(k) <= to - 1 /\ to - 1 <= fillSize(queue)
    BY <1>2, <1>3, <1>7
  <2>2. PageIndex(to - 1) \in k .. queue.LastPage /\ from = PageIndex(to - 1)
    BY <1>2, <1>3, <2>1, FindHeld DEF QueueOk
  <2>3. minAddressForPage(from) <= to - 1 /\ from \in Nat /\ minAddressForPage(from) \in Nat
    BY <2>1, <2>2, PageIndexType, MinNext
  <2>. QED
    BY <1>7, <2>2, <2>3
<1>. HIDE DEF from
<1>10. QueueOk(q, written) /\ Passed(queue, HeldBut(c) \cup {from}, q)
  BY <1>2, <1>9, SeekOk
<1>. HIDE DEF q
<1>11. fillSize(q) = fillSize(queue) /\ q.LastPage = queue.LastPage
  BY <1>10 DEF Passed, fillSize, MaxAddress
<1>12. PageIndex(to) \in from .. q.LastPage /\ p = PageIndex(to)
  <2>1. from \in (HeldBut(c) \cup {from}) \cap Nat /\ to <= fillSize(q) /\ WellFormed(q)
    BY <1>7, <1>9, <1>10, <1>11 DEF QueueOk
  <2>2. /\ PageIndex(to) \in from .. q.LastPage
        /\ getCachedPage(q, HeldBut(c) \cup {from}, to) = PageIndex(to)
    BY <1>7, <1>9, <2>1, FindHeld
  <2>. QED
    BY <2>2 DEF getReadPage
<1>13. /\ p \in Nat /\ p # ErrorPage /\ k <= p /\ p <= q.LastPage
       /\ minAddressForPage(p) <= to /\ to < minAddressForPage(p + 1)
       /\ minAddressForPage(p + 1) \in Nat
  BY <1>2, <1>3, <1>7, <1>9, <1>11, <1>12, PageIndexType, MinNext, PagesAssumption
<1>14. queue' = q /\ cursor' = [cursor EXCEPT ![c] = x]
  BY <1>8, <1>13 DEF FailIfError, AddressOnPage
<1>. HIDE DEF p
<1>15. q.FirstPage # Null => q.FirstPage <= p
  <2>1. q.FirstPage # Null => /\ q.FirstPage \in Nat /\ queue.FirstPage <= from
                              /\ queue.FirstPage \in Nat
    BY <1>2, <1>3, <1>9, <1>10, QueueFacts DEF Passed, QueueOk
  <2>2. q.FirstPage # Null => q.FirstPage <= from
    BY <1>9, <1>10, <2>1 DEF Passed
  <2>3. from <= p
    BY <1>9, <1>11, <1>12 DEF p
  <2>. QED
    BY <1>9, <1>13, <2>1, <2>2, <2>3
<1>16. CursorOk(q, x, c \in Readers)
  <2>1. /\ cursor[c].guard \in Nat /\ cursor[c].guard \in AddressType
        /\ cursor[c].guard <= minAddressForPage(k + 1)
        /\ cursor[c].guard <= fillSize(queue)
    BY <1>2, CursorFacts DEF Here, OnChain
  <2>2. minAddressForPage(k + 1) <= minAddressForPage(p + 1) /\ minAddressForPage(k + 1) \in Nat
    <3>1. k + 1 \in Nat /\ p + 1 \in Nat /\ k + 1 <= p + 1
      BY <1>3, <1>13
    <3>. QED
      BY <3>1, <1>3, MinMonotone, MinNext
  <2>3. CursorOk(q, [page |-> p, addr |-> to, guard |-> Guard(q, p)], c \in Readers)
    BY <1>7, <1>10, <1>11, <1>13, <1>15, CursorPlaced
  <2>4. x \in CursorType
    BY <2>1, <2>3 DEF CursorOk, CursorType
  <2>5. OnChain(q, x, c \in Readers)
    BY <1>7, <1>11, <1>13, <1>15, <2>1, <2>2 DEF OnChain
  <2>. QED
    BY <2>4, <2>5 DEF CursorOk
<1>17. Tracks(queue, HeldBut(c), q)
  BY <1>2, <1>10, <1>11 DEF Passed, Tracks
<1>. HIDE DEF x
<1>. QED
  BY <1>1, <1>2, <1>10, <1>14, <1>16, <1>17, OneMoves

\* Construction, copy, swap, jump and destruction.
LEMMA CursorStepOk ==
  ASSUME IInv, Contract, NEW c \in Cursors, CursorStep(c)
  PROVE  IInv'
<1>1. /\ QueueOk(queue, written) /\ written \in [PageId -> [Offset -> Byte]]
      /\ queue.LastPage \in Nat /\ fillSize(queue) \in Nat
      /\ queue.FirstPage # Null => queue.FirstPage \in 0 .. queue.LastPage
      /\ cursor \in [Cursors -> CursorType]
  BY QueueFacts DEF IInv, QueueOk
<1>2. \A d \in Cursors : Tracks(queue, HeldBut(d), queue)
  BY <1>1 DEF Tracks
<1>3. CASE NewCursor(c)
  <2>. DEFINE f == queue.FirstPage
              x == [page |-> f, addr |-> minAddressForPage(f), guard |-> Guard(queue, f)]
  <2>1. f \in 0 .. queue.LastPage /\ f \in Nat
    BY <1>1, <1>3 DEF NewCursor, IsClosed
  <2>2. MinAddress(queue, f) = minAddressForPage(f)
    BY <1>1, <2>1, MaxWithin DEF MinAddress, QueueOk, WellFormed
  <2>3. cursor' = [cursor EXCEPT ![c] = x] /\ queue' = queue /\ written' = written
    BY <1>3, <2>2 DEF NewCursor, Place
  <2>4. /\ minAddressForPage(f) \in Nat /\ minAddressForPage(f) <= minAddressForPage(f + 1)
        /\ minAddressForPage(f) <= fillSize(queue)
    <3>1. /\ minAddressForPage(f) <= minAddressForPage(queue.LastPage)
          /\ minAddressForPage(queue.LastPage) <= fillSize(queue)
      BY <1>1, <2>1, MinMonotone, QueueFacts DEF QueueOk
    <3>2. /\ minAddressForPage(f) \in Nat /\ minAddressForPage(queue.LastPage) \in Nat
          /\ minAddressForPage(f + 1) = minAddressForPage(f) + PageSize
      BY <1>1, <2>1, MinNext
    <3>. QED
      BY <1>1, <3>1, <3>2, PagesAssumption
  <2>. HIDE DEF f
  <2>5. CursorOk(queue, x, c \in Readers)
    <3>. DEFINE b == minAddressForPage(f)
    <3>1. b \in Nat /\ b <= fillSize(queue) /\ minAddressForPage(f) <= b
          /\ b <= minAddressForPage(f + 1) /\ f <= queue.LastPage
          /\ (queue.FirstPage # Null => queue.FirstPage <= f)
      BY <1>1, <2>1, <2>4 DEF f
    <3>. HIDE DEF b
    <3>2. CursorOk(queue, [page |-> f, addr |-> b, guard |-> Guard(queue, f)], c \in Readers)
      BY <1>1, <2>1, <3>1, CursorPlaced
    <3>. QED
      BY <3>2 DEF b
  <2>. HIDE DEF x
  <2>. QED
    BY <1>1, <1>2, <2>3, <2>5, OneMoves
<1>4. CASE ReleaseCursor(c)
  <2>1. CursorOk(queue, NoCursor, c \in Readers)
    BY Constants, PagesAssumption DEF NoCursor, CursorOk, CursorType
  <2>2. /\ cursor' = [cursor EXCEPT ![c] = NoCursor]
        /\ queue' = queue /\ written' = written
    BY <1>4 DEF ReleaseCursor
  <2>. QED
    BY <1>1, <1>2, <2>1, <2>2, OneMoves
<1>5. ASSUME NEW d \in Cursors, CopyCursor(c, d) PROVE IInv'
  <2>. DEFINE x == IF IsOpen(d) THEN cursor[c]
                   ELSE [page |-> cursor[c].page, addr |-> cursor[c].addr,
                         guard |-> Guard(queue, cursor[c].page)]
  <2>1. /\ cursor[c].page \notin {Null, ErrorPage}
        /\ c \in Readers <=> d \in Readers
        /\ CursorOk(queue, cursor[c], c \in Readers)
    BY <1>5, QueueAssumption DEF CopyCursor, Usable, IsOpen, Contract, IInv, Cursors
  <2>2. Here(c, cursor[c].page, cursor[c].addr)
    BY <2>1, CursorHere
  <2>3. CursorOk(queue, [page |-> cursor[c].page, addr |-> cursor[c].addr,
                         guard |-> Guard(queue, cursor[c].page)], d \in Readers)
    BY <1>1, <2>2, CursorPlaced DEF Here, OnChain
  <2>4. CursorOk(queue, x, d \in Readers)
    BY <2>1, <2>3
  <2>5. cursor' = [cursor EXCEPT ![d] = x] /\ queue' = queue /\ written' = written
    BY <1>5 DEF CopyCursor, Place
  <2>. HIDE DEF x
  <2>. QED
    BY <1>1, <1>2, <2>4, <2>5, OneMoves
<1>6. ASSUME NEW d \in Cursors, SwapCursors(c, d) PROVE IInv'
  <2>1. /\ c \in Readers <=> d \in Readers
        /\ cursor' = [cursor EXCEPT ![c] = cursor[d], ![d] = cursor[c]]
        /\ queue' = queue /\ written' = written
    BY <1>6, QueueAssumption DEF SwapCursors, Cursors
  <2>2. cursor' \in [Cursors -> CursorType]
    BY <1>1, <2>1
  <2>3. ASSUME NEW e \in Cursors PROVE CursorOk(queue, cursor'[e], e \in Readers)
    <3>1. cursor'[e] = IF e = d THEN cursor[c] ELSE IF e = c THEN cursor[d] ELSE cursor[e]
      BY <1>1, <2>1
    <3>. QED
      BY <2>1, <3>1 DEF IInv
  <2>. QED
    BY <1>1, <2>1, <2>2, <2>3 DEF IInv
<1>7. ASSUME NEW d \in Cursors, JumpCursor(c, d) PROVE IInv'
  <2>. DEFINE a == cursor[c].addr
              p == getReadPage(queue, Held, a)
              x == [page |-> p, addr |-> a, guard |-> Guard(queue, p)]
  <2>1. cursor[c].page \notin {Null, ErrorPage}
    BY <1>7 DEF JumpCursor, Usable, IsOpen, Contract
  <2>2. Here(c, cursor[c].page, a)
    BY <2>1, CursorHere
  <2>3. /\ cursor[c].page \in Held \cap Nat /\ a \in Nat /\ a <= fillSize(queue)
        /\ minAddressForPage(cursor[c].page) <= a
        /\ queue.FirstPage # Null => queue.FirstPage <= cursor[c].page
        /\ cursor[c].page \in Nat
    BY <2>2 DEF Here, OnChain
  <2>4. PageIndex(a) \in cursor[c].page .. queue.LastPage /\ p = PageIndex(a)
    BY <1>1, <2>3, FindHeld DEF QueueOk, getReadPage
  <2>5. /\ p \in Nat /\ p # ErrorPage /\ minAddressForPage(p) <= a
        /\ a <= minAddressForPage(p + 1) /\ p <= queue.LastPage
        /\ queue.FirstPage # Null => queue.FirstPage <= p
    BY <1>1, <2>3, <2>4, PageIndexType, MinNext, PagesAssumption
  <2>6. cursor' = [cursor EXCEPT ![d] = x] /\ queue' = queue /\ written' = written
    BY <1>7, <2>5 DEF JumpCursor, FailIfError, AddressOnPage, Place
  <2>. HIDE DEF p, a
  <2>7. CursorOk(queue, x, d \in Readers)
    BY <1>1, <2>3, <2>5, CursorPlaced
  <2>. HIDE DEF x
  <2>. QED
    BY <1>1, <1>2, <2>6, <2>7, OneMoves
<1>. QED
  BY <1>3, <1>4, <1>5, <1>6, <1>7 DEF CursorStep

\* freezeEof: no cursor is past the new end of the chain.
LEMMA FreezeEofOk ==
  ASSUME IInv, Contract, RoomLeft', NEW c \in Writers, FreezeEof(c)
  PROVE  IInv'
<1>. DEFINE k == cursor[c].page
            a == cursor[c].addr
            p == PageIndex(a)
            r == freezeEof(queue, Held, a)[1]
<1>1. /\ k \notin {Null, ErrorPage} /\ c \in Cursors /\ a <= kMaxEofAddress
      /\ MayFreeze(c) /\ queue.FirstPage # Null
  BY DEF FreezeEof, Usable, IsOpen, Contract, IsClosed, Cursors
<1>2. Here(c, k, a) /\ QueueOk(queue, written) /\ cursor \in [Cursors -> CursorType]
  BY <1>1, CursorHere DEF IInv
<1>3. /\ k \in Nat /\ a \in Nat /\ k \in Held \cap Nat /\ minAddressForPage(k) <= a
      /\ a <= fillSize(queue) /\ queue.FirstPage <= k
      /\ queue.FirstPage \in Nat /\ queue.LastPage \in Nat
  BY <1>1, <1>2, QueueFacts DEF Here, OnChain, QueueOk
<1>4. p \in k .. queue.LastPage /\ getCachedPage(queue, Held, a) = p
  BY <1>2, <1>3, FindHeld DEF QueueOk
<1>5. writeFill(queue, a) = queue
  BY <1>3 DEF writeFill
<1>6. queue' = r
  BY DEF FreezeEof
<1>7. r.LastPage < kMaxPageIndex
  BY <1>6 DEF RoomLeft
<1>. HIDE DEF p
<1>8. /\ p \in Nat /\ queue.FirstPage <= p
      /\ queue.EofFrozen => a = queue.Eof
  BY <1>1, <1>3, <1>4 DEF MayFreeze
<1>9. /\ QueueOk(r, written) /\ IsFrozen(queue, a, r)
      /\ freezeEof(queue, Held, a)[2] = a
      /\ r.FirstPage # Null =>
           \A h \in Held \cap Nat : queue.FirstPage <= h => r.FirstPage <= h
  <2>. HIDE DEF a
  <2>. QED
    BY <1>1, <1>2, <1>3, <1>4, <1>5, <1>7, <1>8, FreezeOk DEF p
<1>. HIDE DEF r
<1>10. cursor' = cursor
  <2>1. cursor' = [cursor EXCEPT ![c].addr = a]
    BY <1>9 DEF FreezeEof
  <2>2. cursor[c] \in CursorType /\ [cursor[c] EXCEPT !.addr = a] = cursor[c]
    BY <1>1, <1>2, CursorExcept, CursorFacts
  <2>. QED
    BY <1>2, <2>1, <2>2
<1>11. r.LastPage = p /\ fillSize(r) = a /\ r.EofFrozen
  BY <1>9 DEF IsFrozen, p
<1>12. ASSUME NEW d \in Cursors PROVE CursorOk(r, cursor[d], d \in Readers)
  <2>. DEFINE x == cursor[d]
  <2>1. x \in CursorType /\ CursorOk(queue, x, d \in Readers)
    BY DEF IInv
  <2>2. ASSUME x.page \in Nat PROVE OnChain(r, x, d \in Readers)
    <3>1. /\ OnChain(queue, x, d \in Readers) /\ x.addr \in Nat /\ x.guard \in Nat
          /\ x.addr <= a /\ (d \in Readers => x.guard <= a)
          /\ minAddressForPage(x.page) \in Nat
      BY <1>1, <2>1, <2>2, CursorFacts DEF CursorOk, MayFreeze
    <3>2. x.page <= p
      <4>1. p + 1 \in Nat /\ a < minAddressForPage(p + 1) /\ minAddressForPage(p + 1) \in Nat
        BY <1>3, <1>8, PageIndexType, MinNext DEF p
      <4>2. p + 1 <= x.page => minAddressForPage(p + 1) <= minAddressForPage(x.page)
        BY <2>2, <4>1, MinMonotone
      <4>. QED
        BY <1>3, <1>8, <2>2, <3>1, <4>1, <4>2 DEF OnChain
    <3>3. r.FirstPage # Null => r.FirstPage <= x.page
      <4>1. x.page \in Held \cap Nat /\ queue.FirstPage <= x.page
        BY <1>1, <2>2, <3>1, PagesAssumption DEF Held, OnChain
      <4>. QED
        BY <1>9, <4>1
    <3>. QED
      BY <1>11, <3>1, <3>2, <3>3 DEF OnChain
  <2>. QED
    BY <2>1, <2>2 DEF CursorOk
<1>13. written' = written /\ written \in [PageId -> [Offset -> Byte]]
  BY DEF FreezeEof, IInv
<1>. QED
  BY <1>2, <1>6, <1>9, <1>10, <1>12, <1>13 DEF IInv

LEMMA CloseQueueOk ==
  ASSUME IInv, RoomLeft, CloseQueue
  PROVE  IInv'
<1>. DEFINE r == close(queue, Held)
<1>1. QueueOk(queue, written) /\ queue.FirstPage # Null
  BY DEF IInv, CloseQueue, IsClosed
<1>2. QueueOk(r, written) /\ IsClosedOf(queue, r)
  BY <1>1, CloseOk DEF RoomLeft
<1>3. queue' = r /\ cursor' = cursor /\ written' = written
  BY DEF CloseQueue
<1>. HIDE DEF r
<1>4. Tracks(queue, Held, r)
  BY <1>1, <1>2, QueueFacts DEF IsClosedOf, Tracks, QueueOk
<1>5. ASSUME NEW d \in Cursors PROVE CursorOk(r, cursor[d], d \in Readers)
  <2>1. CursorOk(queue, cursor[d], d \in Readers)
    BY DEF IInv
  <2>2. cursor[d].page \in Nat => cursor[d].page \in Held
    BY PagesAssumption DEF Held
  <2>. QED
    BY <1>1, <1>2, <1>4, <2>1, <2>2, CursorStays
<1>. QED
  BY <1>2, <1>3, <1>5 DEF IInv

LEMMA InitOk == Init => IInv
<1>. SUFFICES ASSUME Init PROVE IInv
  OBVIOUS
<1>. DEFINE q == NewQueue
<1>1. /\ queue = q /\ cursor = [c \in Cursors |-> NoCursor]
      /\ written = [i \in PageId |-> [o \in Offset |-> Zero]]
  BY DEF Init
<1>2. /\ kMaxPageIndex \in Nat /\ kMaxPageIndex > 0 /\ 0 \in PageId /\ Zero \in Byte
      /\ PageSize \in Nat /\ PageSize > 2
      /\ Null \notin Nat /\ ErrorPage \notin Nat
  BY PagesAssumption DEF PageId
<1>3. /\ q.PageMap = [p \in PageId |-> Page(p)] /\ q.size = 1 /\ q.FirstPage = 0
      /\ q.LastPage = 0 /\ ~ q.EofFrozen /\ q.Good /\ q.Eof = kMaxEofAddress
      /\ q.dumped = << >>
  BY DEF NewQueue
<1>4. minAddressForPage(0) = 0 /\ minAddressForPage(1) = PageSize
  BY <1>2 DEF minAddressForPage
<1>5. \A p \in PageId : Page(p) \in PageType
  <2>. SUFFICES ASSUME NEW p \in PageId PROVE Page(p) \in PageType
    OBVIOUS
  <2>1. p \in Nat /\ p <= kMaxPageIndex /\ minAddressForPage(p) \in Nat
    BY <1>2, MinNext DEF PageId
  <2>2. minAddressForPage(p) <= kMaxEofAddress
    BY <1>2, <2>1, MinMonotone DEF kMaxEofAddress
  <2>3. minAddressForPage(p) \in AddressType
    BY <1>2, <2>1, <2>2, Constants DEF AddressType
  <2>. QED
    BY <1>2, <2>3 DEF Page, PageType
<1>6. q \in QueueType
  <2>1. q.size \in 1 .. kMaxPageIndex + 1 /\ q.dumped \in Seq(Seq(Byte))
    BY <1>2, <1>3
  <2>. QED
    BY <1>2, <1>5, <2>1, Constants DEF NewQueue, QueueType
<1>7. fillSize(q) = 0
  BY <1>2, <1>3, <1>4 DEF fillSize, MaxAddress, Page
<1>8. WellFormed(q)
  <2>1. \A p \in 0 .. q.size - 1 : p = 0
    BY <1>3
  <2>2. q.PageMap[0].index = 0 /\ q.PageMap[0].max = 0 /\ q.PageMap[0].next = Null
    BY <1>2, <1>3, <1>4 DEF Page
  <2>. QED
    BY <1>2, <1>3, <1>4, <1>6, <2>1, <2>2, Constants DEF WellFormed
<1>9. Kept(q, written)
  <2>1. \A p \in PageId : written[p] = [o \in Offset |-> Zero]
                         /\ q.PageMap[p].buf = [o \in Offset |-> Zero]
    BY <1>1, <1>3 DEF Page
  <2>2. /\ \A p \in q.FirstPage .. q.LastPage : p \in PageId
        /\ \A p \in q.size .. kMaxPageIndex : p \in PageId
    BY <1>2, <1>3 DEF PageId
  <2>3. DumpedRight(q, written) /\ Len(q.dumped) = q.FirstPage
    BY <1>3 DEF DumpedRight
  <2>. QED
    BY <2>1, <2>2, <2>3 DEF Kept
<1>10. EofOk(q) /\ ClosedOk(q)
  BY <1>2, <1>3, Constants DEF EofOk, ClosedOk
<1>. HIDE DEF q
<1>11. NoCursor \in CursorType /\ NoCursor.page = Null
  BY Constants DEF NoCursor, CursorType
<1>12. written \in [PageId -> [Offset -> Byte]]
  BY <1>1, <1>2
<1>. QED
  BY <1>1, <1>2, <1>8, <1>9, <1>10, <1>11, <1>12 DEF IInv, QueueOk, CursorOk

LEMMA NextOk ==
  ASSUME IInv, Contract, RoomLeft, RoomLeft', [Next]_vars
  PROVE  IInv'
<1>1. ASSUME NEW c \in Cursors, CursorStep(c) PROVE IInv'
  BY <1>1, CursorStepOk
<1>2. ASSUME NEW c \in Readers, ReaderStep(c) PROVE IInv'
  BY <1>2, ReadByteOk, AtEobOk, AdvanceOk DEF ReaderStep
<1>3. ASSUME NEW c \in Writers, WriterStep(c) PROVE IInv'
  BY <1>3, WriteByteOk, FreezeEofOk DEF WriterStep
<1>4. CASE CloseQueue
  BY <1>4, CloseQueueOk
<1>5. CASE UNCHANGED vars
  BY <1>5 DEF vars, IInv
<1>. QED
  BY <1>1, <1>2, <1>3, <1>4, <1>5 DEF Next

LEMMA InvariantHolds ==
  ASSUME Contract
  PROVE  Spec /\ []RoomLeft => []IInv
<1>1. Init => IInv
  BY InitOk
<1>2. IInv /\ RoomLeft /\ RoomLeft' /\ [Next]_vars => IInv'
  BY NextOk
<1>. QED
  BY <1>1, <1>2, PTL DEF Spec

---------------------------------------------------------------------------
\* The theorems.  Each is about a program that keeps the contract, up to the
\* moment its stream reaches the last page.

\* The variables keep their types: no page index, address or guard leaves
\* its range, and what was dumped is a sequence of pages of bytes.
THEOREM TypeCorrect == ASSUME Contract PROVE Spec /\ []RoomLeft => []TypeOK
<1>1. IInv => TypeOK
  BY DEF IInv, TypeOK, QueueOk, WellFormed
<1>. QED
  BY <1>1, InvariantHolds, PTL

\* Queue::getCachedPage may use a page index as a position in PageMap.
THEOREM PagesAligned == ASSUME Contract PROVE Spec /\ []RoomLeft => []PageMapAligned
<1>1. IInv => PageMapAligned
  BY DEF IInv, PageMapAligned, QueueOk, WellFormed
<1>. QED
  BY <1>1, InvariantHolds, PTL

\* The chain of pages from FirstPage to LastPage is never broken, by growth,
\* by dumping, or by freezeEof cutting it at an earlier page.
THEOREM ChainHolds == ASSUME Contract PROVE Spec /\ []RoomLeft => []ChainIntact
<1>1. IInv => ChainIntact
  <2>1. SUFFICES ASSUME IInv, ~ IsClosed PROVE ChainIntact
    BY DEF ChainIntact
  <2>2. WellFormed(queue) /\ queue.FirstPage # Null /\ queue.FirstPage \in Nat
    BY <2>1, QueueFacts DEF IInv, QueueOk, IsClosed
  <2>3. \A p \in queue.FirstPage .. queue.LastPage - 1 : p \in 0 .. queue.LastPage - 1
    BY <2>2, QueueFacts
  <2>. QED
    BY <2>2, <2>3, QueueFacts DEF ChainIntact, WellFormed
<1>. QED
  BY <1>1, InvariantHolds, PTL

\* Queue::dumpPreviousPages never throws away a page some cursor is on.
THEOREM LockedPagesHold == ASSUME Contract PROVE Spec /\ []RoomLeft => []LockedPagesStay
<1>1. IInv => LockedPagesStay
  <2>1. SUFFICES ASSUME IInv, ~ IsClosed PROVE LockedPagesStay
    BY DEF LockedPagesStay
  <2>2. Len(queue.dumped) = queue.FirstPage
    BY <2>1 DEF IInv, QueueOk, Kept, IsClosed
  <2>3. ASSUME NEW c \in Cursors, cursor[c].page \notin {Null, ErrorPage}
        PROVE  queue.FirstPage <= cursor[c].page
    BY <2>1, <2>3, CursorHere DEF Here, OnChain, IsClosed
  <2>. QED
    BY <2>2, <2>3 DEF LockedPagesStay, Held
<1>. QED
  BY <1>1, InvariantHolds, PTL

\* A cursor is on the page of its address or at the end of the one before.
THEOREM CursorsOnPage == ASSUME Contract PROVE Spec /\ []RoomLeft => []CursorOnPage
<1>1. IInv => CursorOnPage
  <2>1. SUFFICES ASSUME IInv, NEW c \in Cursors, cursor[c].page \in Nat
                 PROVE  /\ MinAddress(queue, cursor[c].page) <= cursor[c].addr
                        /\ cursor[c].addr <= minAddressForPage(cursor[c].page + 1)
    BY DEF CursorOnPage
  <2>. DEFINE k == cursor[c].page
  <2>2. Here(c, k, cursor[c].addr) /\ QueueOk(queue, written) /\ k \in Nat
    BY <2>1, CursorHere, PagesAssumption DEF IInv
  <2>3. k \in 0 .. queue.LastPage
    BY <2>2, QueueFacts DEF Here, OnChain, QueueOk
  <2>. HIDE DEF k
  <2>4. MinAddress(queue, k) = minAddressForPage(k)
    BY <2>2, <2>3, MaxWithin DEF MinAddress, QueueOk, WellFormed
  <2>. QED
    BY <2>2, <2>4 DEF Here, OnChain, k
<1>. QED
  BY <1>1, InvariantHolds, PTL

\* A byte written at an address, backpatches included, is what that address
\* reads as and what is dumped for it.
THEOREM BytesHold == ASSUME Contract PROVE Spec /\ []RoomLeft => []BytesStayPut
<1>1. IInv => BytesStayPut
  BY DEF IInv, QueueOk, Kept, DumpedRight, BytesStayPut, IsClosed
<1>. QED
  BY <1>1, InvariantHolds, PTL

\* A queue that is closed in good order has dumped exactly the bytes before
\* its end of file.
THEOREM CloseDumpsAll == ASSUME Contract PROVE Spec /\ []RoomLeft => []ClosedComplete
<1>1. IInv => ClosedComplete
  <2>1. SUFFICES ASSUME IInv, IsClosed, queue.Good
                 PROVE  LET n == Len(queue.dumped)
                        IN  minAddressForPage(n - 1) + Len(queue.dumped[n]) = queue.Eof
    BY DEF ClosedComplete
  <2>2. /\ ClosedOk(queue) /\ EofOk(queue) /\ queue.FirstPage = Null
        /\ queue.LastPage \in Nat
    BY <2>1, QueueFacts DEF IInv, QueueOk, IsClosed
  <2>3. queue.Eof = fillSize(queue)
    BY <2>1, <2>2 DEF ClosedOk, EofOk
  <2>4. Len(queue.dumped) - 1 = queue.LastPage /\ Len(queue.dumped) = queue.LastPage + 1
    BY <2>2 DEF ClosedOk
  <2>. QED
    BY <2>2, <2>3, <2>4 DEF ClosedOk
<1>. QED
  BY <1>1, InvariantHolds, PTL

\* No reader runs past the end of file on the guard it has cached.
THEOREM ReadersStop == ASSUME Contract PROVE Spec /\ []RoomLeft => []ReadersBeforeEof
<1>1. IInv => ReadersBeforeEof
  BY DEF IInv, QueueOk, EofOk, CursorOk, OnChain, ReadersBeforeEof, Cursors
<1>. QED
  BY <1>1, InvariantHolds, PTL

\* A queue whose end is still open is in good order: no cursor has run into
\* a missing page.
THEOREM OnlyEofFails == ASSUME Contract PROVE Spec /\ []RoomLeft => []FailsOnlyAtEof
<1>1. IInv => FailsOnlyAtEof
  BY DEF IInv, QueueOk, EofOk, FailsOnlyAtEof
<1>. QED
  BY <1>1, InvariantHolds, PTL
=============================================================================
