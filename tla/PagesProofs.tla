---------------------------- MODULE PagesProofs ----------------------------
(***************************************************************************)
(* Lemmas about the operators of module Pages: the arithmetic of pages,    *)
(* and what growing, finding a page, dumping and freezing do to a          *)
(* well-formed queue.                                                      *)
(***************************************************************************)
EXTENDS Pages, SequenceTheorems, WellFoundedInduction, TLAPS

---------------------------------------------------------------------------
\* Arithmetic.

\* A non-empty set of naturals has a least element.
Below == {ss \in Nat \X Nat : ss[1] < ss[2]}

LEMMA BelowIsWellFounded == IsWellFoundedOn(Below, Nat)
BY NatLessThanWellFounded DEF OpToRel, Below

LEMMA LeastNat ==
  ASSUME NEW S, S \subseteq Nat, S # {}
  PROVE  \E m \in S : \A n \in S : m <= n
<1>1. \E m \in S : \A n \in S : ~ (<< n, m >> \in Below)
  BY BelowIsWellFounded, WFMin
<1>2. PICK m \in S : \A n \in S : ~ (<< n, m >> \in Below)
  BY <1>1
<1>3. ASSUME NEW n \in S PROVE m <= n
  <2>1. ~ (<< n, m >> \in Below)
    BY <1>2
  <2>2. n \in Nat /\ m \in Nat
    OBVIOUS
  <2>3. ~ (n < m)
    BY <2>1, <2>2 DEF Below
  <2>. QED
    BY <2>2, <2>3
<1>. QED
  BY <1>3

LEMMA MinNext ==
  ASSUME NEW i \in Nat
  PROVE  /\ minAddressForPage(i) \in Nat
         /\ minAddressForPage(i + 1) = minAddressForPage(i) + PageSize
BY PagesAssumption DEF minAddressForPage

LEMMA MinMonotone ==
  ASSUME NEW i \in Nat, NEW j \in Nat, i <= j
  PROVE  minAddressForPage(i) <= minAddressForPage(j)
BY PagesAssumption DEF minAddressForPage

LEMMA PageIndexType ==
  ASSUME NEW a \in Nat
  PROVE  /\ PageIndex(a) \in Nat
         /\ minAddressForPage(PageIndex(a)) <= a
         /\ a < minAddressForPage(PageIndex(a) + 1)
         /\ PageAddress(a) = a - minAddressForPage(PageIndex(a))
BY PagesAssumption DEF PageIndex, PageAddress, minAddressForPage

LEMMA PageIndexUnique ==
  ASSUME NEW a \in Nat, NEW i \in Nat,
         minAddressForPage(i) <= a, a < minAddressForPage(i + 1)
  PROVE  PageIndex(a) = i
<1>. DEFINE k == PageIndex(a)
<1>1. k \in Nat /\ minAddressForPage(k) <= a /\ a < minAddressForPage(k + 1)
  BY PageIndexType
<1>2. /\ minAddressForPage(i) \in Nat /\ minAddressForPage(i + 1) \in Nat
      /\ minAddressForPage(k) \in Nat /\ minAddressForPage(k + 1) \in Nat
  BY <1>1, MinNext
<1>. HIDE DEF k
<1>3. ~ (i + 1 <= k)
  <2>1. i + 1 <= k => minAddressForPage(i + 1) <= minAddressForPage(k)
    BY <1>1, MinMonotone
  <2>. QED
    BY <2>1, <1>1, <1>2
<1>4. ~ (k + 1 <= i)
  <2>1. k + 1 <= i => minAddressForPage(k + 1) <= minAddressForPage(i)
    BY <1>1, MinMonotone
  <2>. QED
    BY <2>1, <1>1, <1>2
<1>. QED
  BY <1>1, <1>3, <1>4 DEF k

LEMMA Constants ==
  /\ kMaxEofAddress \in Nat /\ AddressSpace = kMaxEofAddress + PageSize
  /\ kErrorPageAddress \in AddressType
  /\ 0 \in AddressType /\ kMaxEofAddress \in AddressType
<1>1. kMaxPageIndex \in Nat /\ PageSize \in Nat /\ PageSize > 2
  BY PagesAssumption
<1>. QED
  BY <1>1, MinNext DEF kMaxEofAddress, AddressSpace, AddressType, kErrorPageAddress

LEMMA PlusType ==
  ASSUME NEW a \in Nat, NEW b \in Nat
  PROVE  /\ Plus(a, b) \in AddressType
         /\ a + b < AddressSpace => Plus(a, b) = a + b
<1>1. AddressSpace \in Nat /\ AddressSpace > 0
  BY Constants, PagesAssumption
<1>. QED
  BY <1>1 DEF Plus, AddressType

\* The page index of an address up to the greatest end of file.
LEMMA PageIndexBound ==
  ASSUME NEW a \in Nat, a <= kMaxEofAddress
  PROVE  PageIndex(a) \in PageId
<1>. DEFINE k == PageIndex(a)
<1>1. k \in Nat /\ minAddressForPage(k) <= a
  BY PageIndexType
<1>. HIDE DEF k
<1>2. kMaxPageIndex + 1 <= k =>
        minAddressForPage(kMaxPageIndex + 1) <= minAddressForPage(k)
  BY <1>1, MinMonotone, PagesAssumption
<1>3. ~ (kMaxPageIndex + 1 <= k)
  BY <1>1, <1>2, MinNext, PagesAssumption DEF kMaxEofAddress
<1>. QED
  BY <1>1, <1>3, PagesAssumption DEF PageId, k

---------------------------------------------------------------------------
\* Finding pages.

\* The last page is alive, and so is a page up to it that a cursor holds, and
\* the page behind that one.
LEMMA LiveLast ==
  ASSUME NEW q, WellFormed(q), NEW held
  PROVE  q.LastPage \in Live(q, held)
<1>1. q.LastPage \in 0 .. q.size - 1 /\ q.LastPage # Null /\ q.LastPage # ErrorPage
  BY PagesAssumption DEF WellFormed, QueueType, PageId
<1>2. q.LastPage \in Roots(q, held)
  BY <1>1 DEF Roots
<1>. QED
  BY <1>1, <1>2 DEF Live

LEMMA LiveHeld ==
  ASSUME NEW q, WellFormed(q), NEW held, NEW k \in held \cap Nat, NEW t \in k .. q.LastPage
  PROVE  t \in Live(q, held)
<1>1. /\ q.LastPage \in Nat /\ q.size \in Nat /\ q.LastPage < q.size
      /\ k \in Nat /\ t \in Nat /\ k # Null /\ k # ErrorPage
  BY PagesAssumption DEF WellFormed, QueueType, PageId
<1>2. k \in Roots(q, held) /\ t \in 0 .. q.size - 1
  BY <1>1 DEF Roots
<1>3. ASSUME NEW S \in SUBSET (0 .. q.size - 1), Roots(q, held) \subseteq S,
             \A s \in S : q.PageMap[s].next \in S \cup {Null},
             t \notin S
      PROVE  FALSE
  <2>. DEFINE missing == {i \in k .. q.LastPage : i \notin S}
  <2>1. missing \subseteq Nat /\ missing # {}
    BY <1>1, <1>3
  <2>2. PICK m \in missing : \A n \in missing : m <= n
    <3>. HIDE DEF missing
    <3>. QED
      BY <2>1, LeastNat
  <2>3. m \in k .. q.LastPage /\ m \notin S /\ m \in Nat /\ m # k
    BY <1>1, <1>2, <1>3, <2>2
  <2>4. m - 1 \in k .. q.LastPage /\ m - 1 \in 0 .. q.LastPage - 1 /\ m - 1 \in Nat
    BY <1>1, <2>3
  <2>5. m - 1 \in S
    <3>1. m - 1 \in missing => m <= m - 1
      BY <2>2
    <3>. QED
      BY <3>1, <2>3, <2>4
  <2>6. q.PageMap[m - 1].next = (m - 1) + 1
    BY <2>4 DEF WellFormed
  <2>7. q.PageMap[m - 1].next = m
    BY <2>6, <2>3
  <2>. QED
    BY <1>3, <2>3, <2>5, <2>7, PagesAssumption
<1>. QED
  BY <1>2, <1>3 DEF Live

\* So the queue finds the page of every address up to its end that is not
\* before the page of some cursor.
LEMMA FindHeld ==
  ASSUME NEW q, WellFormed(q), NEW held, NEW k \in held \cap Nat, NEW a \in Nat,
         minAddressForPage(k) <= a, a <= fillSize(q)
  PROVE  /\ PageIndex(a) \in k .. q.LastPage
         /\ getCachedPage(q, held, a) = PageIndex(a)
<1>. DEFINE t == PageIndex(a)
<1>1. /\ q.LastPage \in Nat /\ q.size \in Nat /\ q.LastPage < q.size /\ k \in Nat
      /\ q.LastPage # ErrorPage
  BY PagesAssumption DEF WellFormed, QueueType, PageId
<1>2. t \in Nat /\ minAddressForPage(t) <= a /\ a < minAddressForPage(t + 1)
  BY PageIndexType
<1>3. a < minAddressForPage(q.LastPage + 1)
  <2>1. fillSize(q) < minAddressForPage(q.LastPage + 1)
    BY <1>1 DEF fillSize, MaxAddress, WellFormed
  <2>2. fillSize(q) \in Nat
    BY <1>1 DEF fillSize, MaxAddress, WellFormed, QueueType, PageType, AddressType
  <2>. QED
    BY <2>1, <2>2, <1>1, MinNext
<1>. HIDE DEF t
<1>4. t <= q.LastPage
  <2>1. q.LastPage + 1 <= t => minAddressForPage(q.LastPage + 1) <= minAddressForPage(t)
    BY <1>1, <1>2, MinMonotone
  <2>2. minAddressForPage(t) \in Nat /\ minAddressForPage(q.LastPage + 1) \in Nat
    BY <1>1, <1>2, MinNext
  <2>. QED
    BY <1>1, <1>2, <1>3, <2>1, <2>2
<1>5. k <= t
  <2>1. t + 1 <= k => minAddressForPage(t + 1) <= minAddressForPage(k)
    BY <1>1, <1>2, MinMonotone
  <2>2. minAddressForPage(t + 1) \in Nat /\ minAddressForPage(k) \in Nat
    BY <1>1, <1>2, MinNext
  <2>. QED
    BY <1>1, <1>2, <2>1, <2>2
<1>6. t \in Live(q, held) /\ t < q.size
  BY <1>1, <1>2, <1>4, <1>5, LiveHeld
<1>. QED
  BY <1>1, <1>2, <1>4, <1>5, <1>6 DEF getCachedPage, getDefinedPage, t

LEMMA FindLast ==
  ASSUME NEW q, WellFormed(q), NEW held, NEW a \in Nat, PageIndex(a) = q.LastPage
  PROVE  getCachedPage(q, held, a) = q.LastPage
<1>1. q.LastPage \in Live(q, held)
  BY LiveLast
<1>2. q.LastPage \in Nat /\ q.size \in Nat /\ q.LastPage < q.size
  BY PagesAssumption DEF WellFormed, QueueType, PageId
<1>. QED
  BY <1>1, <1>2 DEF getCachedPage, getDefinedPage

---------------------------------------------------------------------------
\* Dumping.

\* dumpPreviousPages stops at the first page in use, and so at or before
\* every page a cursor holds.
LEMMA DumpStops ==
  ASSUME NEW q, WellFormed(q), q.FirstPage # Null, NEW held
  PROVE  \E f \in q.FirstPage .. q.LastPage :
            /\ dumpPreviousPages(q, held) = DumpUpTo(q, f)
            /\ \A h \in held \cap Nat : q.FirstPage <= h => f <= h
<1>. DEFINE R == q.FirstPage .. q.LastPage
            Stop(f) == /\ f \in Shared(q, held)
                       /\ \A g \in q.FirstPage .. f - 1 : g \notin Shared(q, held)
            T == R \cap Shared(q, held)
<1>1. /\ q.FirstPage \in Nat /\ q.LastPage \in Nat /\ q.FirstPage <= q.LastPage
  BY PagesAssumption DEF WellFormed, QueueType, PageId
<1>2. q.LastPage \in T
  BY <1>1 DEF Shared
<1>3. PICK m \in T : \A n \in T : m <= n
  <2>1. T \subseteq Nat /\ T # {}
    BY <1>1, <1>2
  <2>. HIDE DEF T
  <2>. QED
    BY <2>1, LeastNat
<1>4. \A g \in q.FirstPage .. m - 1 : g \notin Shared(q, held)
  BY <1>1, <1>3
<1>5. m \in R /\ Stop(m)
  BY <1>3, <1>4
<1>6. PICK f \in R : f = CHOOSE x \in R : Stop(x)
  BY <1>5
<1>7. Stop(f)
  BY <1>5, <1>6
<1>8. dumpPreviousPages(q, held) = DumpUpTo(q, f)
  BY <1>6 DEF dumpPreviousPages
<1>9. ASSUME NEW h \in held \cap Nat, q.FirstPage <= h PROVE f <= h
  <2>1. h \in Shared(q, held)
    BY DEF Shared
  <2>2. ~ (h \in q.FirstPage .. f - 1)
    BY <2>1, <1>7
  <2>. QED
    BY <2>2, <1>1, <1>9
<1>. QED
  BY <1>8, <1>9

\* The bytes of a page are a sequence of bytes.
LEMMA PageBytesType ==
  ASSUME NEW q, WellFormed(q), NEW p \in 0 .. q.LastPage
  PROVE  /\ PageBytes(q.PageMap[p]) \in Seq(Byte)
         /\ Len(PageBytes(q.PageMap[p])) = q.PageMap[p].max - minAddressForPage(p)
         /\ Len(PageBytes(q.PageMap[p])) <= PageSize
         /\ \A o \in 1 .. Len(PageBytes(q.PageMap[p])) :
              PageBytes(q.PageMap[p])[o] = q.PageMap[p].buf[o - 1]
<1>. DEFINE pg == q.PageMap[p]
            n  == pg.max - minAddressForPage(p)
<1>1. /\ p \in PageId /\ p \in Nat /\ p \in 0 .. q.size - 1
      /\ pg \in PageType /\ pg.index = p
      /\ minAddressForPage(p) <= pg.max /\ pg.max <= minAddressForPage(p + 1)
  BY PagesAssumption DEF WellFormed, QueueType, PageId
<1>2. pg.max \in Nat /\ pg.buf \in [Offset -> Byte]
  BY <1>1 DEF PageType, AddressType
<1>3. n \in Nat /\ n <= PageSize
  BY <1>1, <1>2, MinNext, PagesAssumption
<1>4. \A i \in 1 .. n : i - 1 \in Offset
  BY <1>3, PagesAssumption DEF Offset
<1>5. PageBytes(pg) = [i \in 1 .. n |-> pg.buf[i - 1]]
  BY <1>1 DEF PageBytes
<1>. HIDE DEF pg, n
<1>6. [i \in 1 .. n |-> pg.buf[i - 1]] \in [1 .. n -> Byte]
  BY <1>2, <1>4
<1>7. /\ PageBytes(pg) \in Seq(Byte) /\ Len(PageBytes(pg)) = n
  BY <1>3, <1>5, <1>6
<1>. QED
  BY <1>3, <1>5, <1>7 DEF pg, n

\* r is q with the pages before f dumped.
IsDumped(q, f, r) ==
  /\ r = [q EXCEPT !.FirstPage = f, !.dumped = r.dumped]
  /\ r.dumped \in Seq(Seq(Byte))
  /\ Len(r.dumped) = Len(q.dumped) + (f - q.FirstPage)
  /\ \A i \in 1 .. Len(r.dumped) :
       r.dumped[i] = IF i <= Len(q.dumped) THEN q.dumped[i]
                     ELSE PageBytes(q.PageMap[q.FirstPage + (i - Len(q.dumped)) - 1])

LEMMA DumpWellFormed ==
  ASSUME NEW q, WellFormed(q), q.FirstPage # Null,
         NEW f \in q.FirstPage .. q.LastPage + 1
  PROVE  /\ IsDumped(q, f, DumpUpTo(q, f))
         /\ f <= q.LastPage => WellFormed(DumpUpTo(q, f))
<1>. DEFINE n == f - q.FirstPage
            s == [i \in 1 .. n |-> PageBytes(q.PageMap[q.FirstPage + i - 1])]
            r == DumpUpTo(q, f)
<1>1. /\ q \in QueueType /\ q.FirstPage \in Nat /\ q.LastPage \in Nat
      /\ f \in Nat /\ n \in Nat /\ q.dumped \in Seq(Seq(Byte))
  BY PagesAssumption DEF WellFormed, QueueType, PageId
<1>2. \A i \in 1 .. n : q.FirstPage + i - 1 \in 0 .. q.LastPage
  BY <1>1
<1>3. s \in [1 .. n -> Seq(Byte)]
  BY <1>2, PageBytesType
<1>4. s \in Seq(Seq(Byte)) /\ Len(s) = n
  <2>. HIDE DEF s, n
  <2>. QED
    BY <1>1, <1>3
<1>5. r = [q EXCEPT !.FirstPage = f, !.dumped = q.dumped \o s]
  BY DEF DumpUpTo
<1>6. r.dumped = q.dumped \o s
  BY <1>1, <1>5 DEF QueueType
<1>. HIDE DEF r
<1>7. /\ r.dumped \in Seq(Seq(Byte)) /\ Len(r.dumped) = Len(q.dumped) + n
      /\ \A i \in 1 .. Len(r.dumped) :
           r.dumped[i] = IF i <= Len(q.dumped) THEN q.dumped[i] ELSE s[i - Len(q.dumped)]
  <2>. HIDE DEF s, n
  <2>. DEFINE d == q.dumped
  <2>1. d \in Seq(Seq(Byte)) /\ s \in Seq(Seq(Byte))
    BY <1>1, <1>4
  <2>. HIDE DEF d
  <2>2. /\ d \o s \in Seq(Seq(Byte)) /\ Len(d \o s) = Len(d) + Len(s)
        /\ \A i \in 1 .. Len(d) + Len(s) :
             (d \o s)[i] = IF i <= Len(d) THEN d[i] ELSE s[i - Len(d)]
    BY <2>1
  <2>. QED
    BY <2>2, <1>4, <1>6 DEF d
<1>8. ASSUME NEW i \in 1 .. Len(r.dumped), ~ (i <= Len(q.dumped))
      PROVE  s[i - Len(q.dumped)]
               = PageBytes(q.PageMap[q.FirstPage + (i - Len(q.dumped)) - 1])
  <2>1. Len(q.dumped) \in Nat
    BY <1>1
  <2>2. i - Len(q.dumped) \in 1 .. n
    BY <1>1, <1>7, <1>8, <2>1
  <2>. QED
    BY <2>2
<1>9. f <= q.LastPage => WellFormed(r)
  <2>1. f <= q.LastPage => r \in QueueType
    <3>1. f <= q.LastPage => f \in PageId
      BY <1>1, PagesAssumption DEF QueueType, PageId
    <3>. QED
      BY <3>1, <1>1, <1>5, <1>6, <1>7 DEF QueueType
  <2>2. /\ r.PageMap = q.PageMap /\ r.size = q.size /\ r.LastPage = q.LastPage
        /\ r.EofFrozen = q.EofFrozen /\ r.FirstPage = f
    BY <1>1, <1>5 DEF QueueType
  <2>. QED
    BY <2>1, <2>2 DEF WellFormed
<1>. QED
  BY <1>5, <1>6, <1>7, <1>8, <1>9 DEF r, IsDumped

---------------------------------------------------------------------------
\* Facts of a well-formed queue, in the form the proofs below use them.
LEMMA QueueFacts ==
  ASSUME NEW q, WellFormed(q)
  PROVE  /\ q.LastPage \in PageId /\ q.LastPage \in Nat
         /\ q.size \in Nat /\ q.LastPage < q.size /\ q.size <= kMaxPageIndex + 1
         /\ fillSize(q) = q.PageMap[q.LastPage].max /\ fillSize(q) \in Nat
         /\ minAddressForPage(q.LastPage) <= fillSize(q)
         /\ fillSize(q) < minAddressForPage(q.LastPage + 1)
         /\ fillSize(q) <= kMaxEofAddress
         /\ PageIndex(fillSize(q)) = q.LastPage
         /\ q.FirstPage # Null => q.FirstPage \in 0 .. q.LastPage
         /\ ~ OutOfPages(q)
<1>1. /\ q.LastPage \in PageId /\ q.LastPage \in Nat /\ q.size \in Nat
      /\ q.LastPage < q.size /\ q.size <= kMaxPageIndex + 1
      /\ q.LastPage # ErrorPage /\ q.LastPage \in 0 .. q.size - 1
      /\ q.FirstPage # Null => q.FirstPage \in 0 .. q.LastPage
  BY PagesAssumption DEF WellFormed, QueueType, PageId
<1>2. fillSize(q) = q.PageMap[q.LastPage].max
  BY <1>1 DEF fillSize, MaxAddress
<1>3. fillSize(q) \in Nat
  BY <1>1, <1>2 DEF WellFormed, QueueType, PageType, AddressType
<1>4. /\ minAddressForPage(q.LastPage) <= fillSize(q)
      /\ fillSize(q) < minAddressForPage(q.LastPage + 1)
      /\ fillSize(q) <= kMaxEofAddress
      /\ q.PageMap[q.LastPage].index = q.LastPage
  BY <1>1, <1>2 DEF WellFormed
<1>5. PageIndex(fillSize(q)) = q.LastPage
  BY <1>1, <1>3, <1>4, PageIndexUnique
<1>6. MinAddress(q, q.LastPage) = minAddressForPage(q.LastPage)
  BY <1>1, <1>4 DEF MinAddress
<1>7. ~ OutOfPages(q)
  BY <1>1, <1>3, <1>4, <1>6, MinNext DEF OutOfPages
<1>. QED
  BY <1>1, <1>2, <1>3, <1>4, <1>5, <1>7

\* The pages of the chain end within the queue, and all but the last are full.
LEMMA MaxWithin ==
  ASSUME NEW q, WellFormed(q), NEW p \in 0 .. q.LastPage
  PROVE  /\ p \in PageId /\ p # ErrorPage /\ p \in 0 .. q.size - 1
         /\ MaxAddress(q, p) = q.PageMap[p].max /\ MaxAddress(q, p) \in Nat
         /\ MaxAddress(q, p) <= fillSize(q)
         /\ MaxAddress(q, p) <= minAddressForPage(p + 1)
         /\ p # q.LastPage => MaxAddress(q, p) = minAddressForPage(p + 1)
         /\ p = q.LastPage => MaxAddress(q, p) = fillSize(q)
<1>. DEFINE L == q.LastPage
            F == fillSize(q)
<1>1. /\ L \in Nat /\ L < q.size /\ q.size \in Nat /\ q.size <= kMaxPageIndex + 1
      /\ F \in Nat /\ F = q.PageMap[L].max /\ minAddressForPage(L) <= F
      /\ q \in QueueType /\ p \in Nat
  BY QueueFacts DEF WellFormed
<1>2. p \in PageId /\ p # ErrorPage /\ p \in 0 .. q.size - 1
  BY <1>1, PagesAssumption DEF PageId
<1>3. /\ MaxAddress(q, p) = q.PageMap[p].max /\ q.PageMap[p].max \in Nat
      /\ q.PageMap[p].max <= minAddressForPage(p + 1)
  BY <1>1, <1>2 DEF MaxAddress, WellFormed, QueueType, PageType, AddressType
<1>. HIDE DEF F
<1>4. CASE p = L
  BY <1>1, <1>2, <1>3, <1>4 DEF F
<1>5. CASE p # L
  <2>1. p \in 0 .. L - 1 /\ p + 1 <= L
    BY <1>1, <1>5
  <2>2. q.PageMap[p].max = minAddressForPage(p + 1)
    BY <2>1 DEF WellFormed
  <2>3. /\ minAddressForPage(p + 1) <= minAddressForPage(L)
        /\ minAddressForPage(p + 1) \in Nat /\ minAddressForPage(L) \in Nat
    BY <1>1, <2>1, MinMonotone, MinNext
  <2>. QED
    BY <1>1, <1>2, <1>3, <1>5, <2>2, <2>3 DEF F
<1>. QED
  BY <1>4, <1>5

\* The page of an address up to the end of the queue.
LEMMA IndexWithin ==
  ASSUME NEW q, WellFormed(q), NEW a \in Nat, a <= fillSize(q)
  PROVE  PageIndex(a) \in 0 .. q.LastPage
<1>. DEFINE t == PageIndex(a)
            L == q.LastPage
<1>1. t \in Nat /\ minAddressForPage(t) <= a
  BY PageIndexType
<1>2. L \in Nat /\ fillSize(q) \in Nat /\ fillSize(q) < minAddressForPage(L + 1)
  BY QueueFacts
<1>. HIDE DEF t, L
<1>3. L + 1 <= t => minAddressForPage(L + 1) <= minAddressForPage(t)
  BY <1>1, <1>2, MinMonotone
<1>4. minAddressForPage(t) \in Nat /\ minAddressForPage(L + 1) \in Nat
  BY <1>1, <1>2, MinNext
<1>. QED
  BY <1>1, <1>2, <1>3, <1>4 DEF t, L

---------------------------------------------------------------------------
\* Growing.

LEMMA GrownIndex ==
  ASSUME NEW q, WellFormed(q), NEW a \in Nat, fillSize(q) < a, a <= kMaxEofAddress
  PROVE  PageIndex(a) \in q.LastPage .. kMaxPageIndex
<1>. DEFINE i == PageIndex(a)
<1>1. i \in Nat /\ minAddressForPage(i) <= a /\ a < minAddressForPage(i + 1)
  BY PageIndexType
<1>2. i \in PageId
  BY PageIndexBound
<1>3. /\ q.LastPage \in Nat /\ minAddressForPage(q.LastPage) <= fillSize(q)
      /\ fillSize(q) \in Nat
  BY QueueFacts
<1>. HIDE DEF i
<1>4. i + 1 <= q.LastPage => minAddressForPage(i + 1) <= minAddressForPage(q.LastPage)
  BY <1>1, <1>3, MinMonotone
<1>5. minAddressForPage(i + 1) \in Nat /\ minAddressForPage(q.LastPage) \in Nat
  BY <1>1, <1>3, MinNext
<1>6. q.LastPage <= i
  BY <1>1, <1>3, <1>4, <1>5
<1>. QED
  BY <1>2, <1>3, <1>6, PagesAssumption DEF PageId, i

\* r is q with pages appended up to page i, all but that one full.
IsAppended(q, i, r) ==
  /\ r.PageMap \in [PageId -> PageType]
  /\ r = [q EXCEPT !.PageMap = r.PageMap, !.size = i + 1, !.LastPage = i]
  /\ \A p \in 0 .. i : /\ r.PageMap[p].index = p
                       /\ r.PageMap[p].next = IF p = i THEN Null ELSE p + 1
  /\ \A p \in 0 .. i - 1 : r.PageMap[p].max = minAddressForPage(p + 1)
  /\ \A p \in 0 .. q.LastPage : r.PageMap[p].buf = q.PageMap[p].buf
  /\ \A p \in q.size .. i : r.PageMap[p].buf = [o \in Offset |-> Zero]

LEMMA AppendShape ==
  ASSUME NEW q, WellFormed(q), ~ q.EofFrozen, NEW i \in q.LastPage .. kMaxPageIndex
  PROVE  IsAppended(q, i, AppendUpTo(q, i))
<1>. DEFINE L == q.LastPage
            r == AppendUpTo(q, i)
<1>1. /\ L \in Nat /\ i \in Nat /\ q.size = L + 1 /\ L <= i /\ i <= kMaxPageIndex
      /\ q \in QueueType /\ kMaxPageIndex \in Nat /\ i \in PageId /\ L \in PageId
  BY QueueFacts, PagesAssumption DEF WellFormed, QueueType, PageId
<1>2. /\ \A p \in 0 .. L : q.PageMap[p].index = p
      /\ \A p \in 0 .. L - 1 : /\ q.PageMap[p].next = p + 1
                               /\ q.PageMap[p].max = minAddressForPage(p + 1)
      /\ q.PageMap[L].next = Null
  BY <1>1 DEF WellFormed
<1>3. CASE i = L
  <2>1. r = q
    BY <1>1, <1>2, <1>3 DEF AppendUpTo
  <2>2. q = [q EXCEPT !.PageMap = q.PageMap, !.size = i + 1, !.LastPage = i]
    BY <1>1, <1>3 DEF QueueType
  <2>3. q.PageMap \in [PageId -> PageType]
    BY <1>1 DEF QueueType
  <2>4. \A p \in 0 .. i : q.PageMap[p].next = IF p = i THEN Null ELSE p + 1
    BY <1>1, <1>2, <1>3
  <2>. HIDE DEF r
  <2>. QED
    BY <1>1, <1>2, <1>3, <2>1, <2>2, <2>3, <2>4 DEF r, IsAppended
<1>4. CASE L < i
  <2>. DEFINE old(p) == q.PageMap[p]
              m == PagesUpTo(q, i, i)
  <2>1. r = [q EXCEPT !.PageMap = m, !.size = i + 1, !.LastPage = i]
    <3>1. /\ i - q.PageMap[q.LastPage].index = i - L /\ i - L # 0
          /\ q.size + (i - L) = i + 1
      BY <1>1, <1>2, <1>4
    <3>. DEFINE fresh == i - q.PageMap[q.LastPage].index
                grown(l) == [q EXCEPT !.PageMap = PagesUpTo(q, i, l), !.size = l + 1,
                                      !.LastPage = l]
    <3>2. r = IF fresh = 0 THEN q ELSE grown(q.size + fresh - 1)
      BY Zenon DEF AppendUpTo
    <3>3. fresh # 0 /\ q.size + fresh - 1 = i
      BY <1>1, <3>1
    <3>4. r = grown(i)
      <4>. HIDE DEF r, fresh, grown
      <4>. QED
        BY <3>2, <3>3
    <3>. QED
      BY <3>4, Zenon
  <2>2. /\ r.PageMap = m
        /\ r = [q EXCEPT !.PageMap = r.PageMap, !.size = i + 1, !.LastPage = i]
    <3>. HIDE DEF m, r
    <3>. QED
      BY <1>1, <2>1 DEF QueueType
  <2>3. ASSUME NEW p \in PageId
        PROVE  /\ old(p) \in PageType
               /\ Page(p) \in PageType
               /\ Page(p).index = p /\ Page(p).buf = [o \in Offset |-> Zero]
               /\ Page(p).next = Null
    <3>1. p \in Nat /\ p <= kMaxPageIndex
      BY <1>1 DEF PageId
    <3>2. minAddressForPage(p) <= kMaxEofAddress /\ minAddressForPage(p) \in Nat
      BY <1>1, <3>1, MinNext, MinMonotone DEF kMaxEofAddress
    <3>3. minAddressForPage(p) \in AddressType
      BY <3>2, Constants, PagesAssumption DEF AddressType
    <3>. QED
      BY <1>1, <3>3, PagesAssumption DEF QueueType, Page, PageType
  <2>4. ASSUME NEW pg \in PageType, NEW p \in 0 .. i - 1, pg.index = p
        PROVE  LET x == [FullPage(pg) EXCEPT !.next = p + 1] IN
               /\ x \in PageType
               /\ x.index = p /\ x.max = minAddressForPage(p + 1)
               /\ x.buf = pg.buf /\ x.next = p + 1
    <3>1. p + 1 \in PageId /\ p + 1 <= kMaxPageIndex /\ p + 1 \in Nat
      BY <1>1 DEF PageId
    <3>2. minAddressForPage(p + 1) <= kMaxEofAddress /\ minAddressForPage(p + 1) \in Nat
      BY <3>1, MinNext, MinMonotone, PagesAssumption DEF kMaxEofAddress
    <3>3. minAddressForPage(p + 1) \in AddressType
      BY <3>2, Constants, PagesAssumption DEF AddressType
    <3>. QED
      BY <2>4, <3>1, <3>3 DEF FullPage, PageType
  <2>5. ASSUME NEW p \in 0 .. i
        PROVE  /\ p < L => m[p] = old(p)
               /\ p = L => m[p] = [FullPage(old(p)) EXCEPT !.next = p + 1]
               /\ p \in L + 1 .. i - 1 => m[p] = [FullPage(Page(p)) EXCEPT !.next = p + 1]
               /\ p = i => m[p] = Page(i)
               /\ p \in PageId
    <3>1. p \in PageId
      BY <1>1 DEF PageId
    <3>2. p \in L + 1 .. i - 1 => i - (i - p) = p /\ p # L
      BY <1>1
    <3>. QED
      BY <1>1, <1>4, <3>1, <3>2 DEF PagesUpTo
  <2>6. ASSUME NEW p \in PageId, p > i PROVE m[p] = old(p)
    BY <1>1, <1>4, <2>6 DEF PageId, PagesUpTo
  <2>7. ASSUME NEW p \in 0 .. i
        PROVE  /\ m[p] \in PageType /\ m[p].index = p
               /\ m[p].next = IF p = i THEN Null ELSE p + 1
               /\ p # i => m[p].max = minAddressForPage(p + 1)
               /\ p <= L => m[p].buf = old(p).buf
               /\ p > L => m[p].buf = [o \in Offset |-> Zero]
    <3>. HIDE DEF m
    <3>1. p \in PageId /\ old(p) \in PageType /\ Page(p) \in PageType
      BY <2>3, <2>5
    <3>2. CASE p < L
      <4>1. m[p] = old(p)
        BY <2>5, <3>2
      <4>. QED
        BY <4>1, <3>1, <3>2, <1>1, <1>2, <1>4
    <3>3. CASE p = L
      <4>1. m[p] = [FullPage(old(p)) EXCEPT !.next = p + 1]
        BY <2>5, <3>3
      <4>2. p \in 0 .. i - 1 /\ old(p).index = p
        BY <1>1, <1>2, <1>4, <3>3
      <4>. QED
        BY <4>1, <4>2, <3>1, <3>3, <2>4, <1>1, <1>4
    <3>4. CASE p \in L + 1 .. i - 1
      <4>1. m[p] = [FullPage(Page(p)) EXCEPT !.next = p + 1]
        BY <2>5, <3>4
      <4>2. p \in 0 .. i - 1 /\ Page(p).index = p /\ Page(p).buf = [o \in Offset |-> Zero]
        BY <1>1, <2>3, <3>1, <3>4
      <4>. QED
        BY <4>1, <4>2, <3>1, <3>4, <2>4, <1>1
    <3>5. CASE p = i
      <4>1. m[p] = Page(i)
        BY <2>5, <3>5
      <4>2. Page(p).index = p /\ Page(p).buf = [o \in Offset |-> Zero] /\ Page(p).next = Null
        BY <2>3, <3>1
      <4>. QED
        BY <4>1, <4>2, <3>1, <3>5, <1>1, <1>4
    <3>. QED
      BY <1>1, <3>2, <3>3, <3>4, <3>5
  <2>8. m \in [PageId -> PageType]
    <3>1. \A p \in PageId : m[p] \in PageType
      BY <1>1, <2>3, <2>6, <2>7 DEF PageId
    <3>2. m = [p \in PageId |-> m[p]]
      BY DEF PagesUpTo
    <3>. HIDE DEF m
    <3>. QED
      BY <3>1, <3>2
  <2>. HIDE DEF m, r
  <2>. QED
    BY <1>1, <2>2, <2>7, <2>8 DEF r, IsAppended
<1>. QED
  BY <1>1, <1>3, <1>4

\* The fields a step of the queue leaves alone when it only extends it.
SameFront(q, r) ==
  /\ r.FirstPage = q.FirstPage /\ r.EofFrozen = q.EofFrozen
  /\ r.Good = q.Good /\ r.Eof = q.Eof /\ r.dumped = q.dumped

\* r is q extended to address a: it keeps what its pages hold, and the new
\* pages are zero.
IsFilled(q, a, r) ==
  /\ WellFormed(r) /\ SameFront(q, r)
  /\ a <= fillSize(r) /\ fillSize(q) <= fillSize(r)
  /\ fillSize(q) < a => fillSize(r) = a
  /\ q.LastPage <= r.LastPage /\ q.size <= r.size
  /\ q.EofFrozen => r = q
  /\ \A p \in 0 .. q.LastPage : r.PageMap[p].buf = q.PageMap[p].buf
  /\ \A p \in q.LastPage + 1 .. r.LastPage :
       /\ r.PageMap[p].buf = [o \in Offset |-> Zero]
       /\ p \in q.size .. kMaxPageIndex

LEMMA WriteFillWellFormed ==
  ASSUME NEW q, WellFormed(q), NEW a \in Nat, writeFillOk(q, a)
  PROVE  IsFilled(q, a, writeFill(q, a))
<1>1. CASE a <= fillSize(q)
  <2>1. writeFill(q, a) = q
    BY <1>1 DEF writeFill
  <2>. QED
    BY <1>1, <2>1, QueueFacts DEF SameFront, IsFilled
<1>2. CASE ~ (a <= fillSize(q))
  <2>. DEFINE L == q.LastPage
              i == PageIndex(a)
              g == AppendUpTo(q, i)
              r == writeFill(q, a)
  <2>1. ~ q.EofFrozen /\ a <= kMaxEofAddress /\ fillSize(q) \in Nat /\ fillSize(q) < a
    BY <1>2, QueueFacts DEF writeFillOk
  <2>2. i \in L .. kMaxPageIndex
    BY <2>1, GrownIndex
  <2>3. /\ i \in Nat /\ minAddressForPage(i) <= a /\ a < minAddressForPage(i + 1)
    BY PageIndexType
  <2>4. /\ L \in Nat /\ q.size = L + 1 /\ q \in QueueType /\ kMaxPageIndex \in Nat
        /\ q.FirstPage # Null => q.FirstPage \in 0 .. L
    BY <2>1, QueueFacts, PagesAssumption DEF WellFormed, QueueType, PageId
  <2>5. /\ g.PageMap \in [PageId -> PageType]
        /\ g = [q EXCEPT !.PageMap = g.PageMap, !.size = i + 1, !.LastPage = i]
        /\ \A p \in 0 .. i : /\ g.PageMap[p].index = p
                             /\ g.PageMap[p].next = IF p = i THEN Null ELSE p + 1
        /\ \A p \in 0 .. i - 1 : g.PageMap[p].max = minAddressForPage(p + 1)
        /\ \A p \in 0 .. L : g.PageMap[p].buf = q.PageMap[p].buf
        /\ \A p \in q.size .. i : g.PageMap[p].buf = [o \in Offset |-> Zero]
    <3>1. IsAppended(q, i, g)
      BY <2>1, <2>2, AppendShape
    <3>. HIDE DEF g, i
    <3>. QED
      BY <3>1 DEF IsAppended
  <2>. DEFINE m == [g.PageMap EXCEPT ![i].max = a]
  <2>6. g.LastPage = i
    <3>. HIDE DEF g
    <3>. QED
      BY <2>4, <2>5 DEF QueueType
  <2>7. r = [g EXCEPT !.PageMap[i].max = a]
    <3>. HIDE DEF i
    <3>. QED
      BY <1>2, <2>1, <2>6 DEF writeFill, i
  <2>8. r = [q EXCEPT !.PageMap = m, !.size = i + 1, !.LastPage = i]
    <3>. HIDE DEF g, i, r
    <3>. QED
      BY <2>4, <2>5, <2>7 DEF QueueType
  <2>9. /\ r.PageMap = m /\ r.size = i + 1 /\ r.LastPage = i /\ SameFront(q, r)
    <3>. HIDE DEF g, i, r, m
    <3>. QED
      BY <2>4, <2>8 DEF QueueType, SameFront
  <2>10. i \in PageId /\ a \in AddressType
    BY <2>1, <2>2, <2>3, <2>4, Constants, PagesAssumption DEF PageId, AddressType
  <2>11. /\ m \in [PageId -> PageType]
         /\ \A p \in 0 .. i : /\ m[p].index = p
                              /\ m[p].next = IF p = i THEN Null ELSE p + 1
                              /\ m[p].buf = g.PageMap[p].buf
                              /\ m[p].max = IF p = i THEN a ELSE minAddressForPage(p + 1)
    <3>1. \A p \in 0 .. i : p \in PageId
      BY <2>2, <2>3, <2>4 DEF PageId
    <3>2. \A p \in 0 .. i : p # i => p \in 0 .. i - 1
      BY <2>3
    <3>3. m \in [PageId -> PageType]
      <4>. HIDE DEF g, i
      <4>. QED
        BY <2>5, <2>10 DEF PageType
    <3>4. \A p \in 0 .. i : p # i => m[p] = g.PageMap[p]
      <4>. HIDE DEF g, i
      <4>. QED
        BY <2>5, <3>1
    <3>5. m[i] = [g.PageMap[i] EXCEPT !.max = a]
      <4>. HIDE DEF g, i
      <4>. QED
        BY <2>5, <2>10
    <3>6. g.PageMap[i] \in PageType
      BY <2>5, <2>10
    <3>7. /\ m[i].index = i /\ m[i].next = Null
          /\ m[i].buf = g.PageMap[i].buf /\ m[i].max = a
      <4>. HIDE DEF g, i, m
      <4>. QED
        BY <2>3, <2>5, <3>5, <3>6 DEF PageType
    <3>. HIDE DEF g, i, m
    <3>. QED
      BY <2>5, <3>2, <3>3, <3>4, <3>7
  <2>12. r \in QueueType
    <3>1. i + 1 \in 1 .. kMaxPageIndex + 1
      BY <2>2, <2>4
    <3>. HIDE DEF g, i, r, m
    <3>. QED
      BY <2>4, <2>8, <2>10, <2>11, <3>1 DEF QueueType
  <2>13. fillSize(r) = a
    <3>1. i # ErrorPage
      BY <2>3, PagesAssumption
    <3>. HIDE DEF g, i, r, m
    <3>. QED
      BY <2>3, <2>9, <2>11, <3>1 DEF fillSize, MaxAddress
  <2>14. WellFormed(r)
    <3>1. \A p \in 0 .. i : /\ minAddressForPage(p) \in Nat
                            /\ minAddressForPage(p + 1) = minAddressForPage(p) + PageSize
      BY <2>3, MinNext
    <3>2. \A p \in 0 .. i : /\ minAddressForPage(p) <= m[p].max
                            /\ m[p].max <= minAddressForPage(p + 1)
      <4>. HIDE DEF g, i, m
      <4>. QED
        BY <2>3, <2>11, <3>1, PagesAssumption
    <3>3. i + 1 - 1 = i /\ i < i + 1 /\ i \in 0 .. i
      BY <2>3
    <3>4. r.FirstPage # Null => r.FirstPage <= i
      <4>. HIDE DEF g, i, r, m
      <4>. QED
        BY <2>2, <2>3, <2>4, <2>9 DEF SameFront
    <3>5. \A p \in 0 .. i - 1 : p \in 0 .. i /\ p # i
      BY <2>3
    <3>. HIDE DEF g, i, r, m
    <3>. QED
      BY <2>1, <2>3, <2>9, <2>11, <2>12, <3>2, <3>3, <3>4, <3>5 DEF WellFormed
  <2>15. \A p \in 0 .. L : p \in 0 .. i
    BY <2>2, <2>4
  <2>16. \A p \in L + 1 .. i : p \in 0 .. i /\ p \in q.size .. i /\ p \in q.size .. kMaxPageIndex
    BY <2>2, <2>4
  <2>. HIDE DEF g, i, m, r
  <2>. QED
    BY <2>1, <2>2, <2>3, <2>4, <2>5, <2>9, <2>11, <2>13, <2>14, <2>15, <2>16 DEF r, IsFilled
<1>. QED
  BY <1>1, <1>2
=============================================================================
