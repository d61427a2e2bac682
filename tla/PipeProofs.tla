----------------------------- MODULE PipeProofs -----------------------------
(***************************************************************************)
(* The theorems about module Pipe: a pipe implements ByteChannel, and what *)
(* a block may still patch is held back.  They hold for every page size,   *)
(* number of pages and set of write cursors.                               *)
(***************************************************************************)
EXTENDS Pipe, QueueProofs

\* The byte of w, which is kept by page, at an address.
At(w, a) == w[PageIndex(a)][PageAddress(a)]

---------------------------------------------------------------------------
\* The text of a sequence of pages that are full but for the last.

LEMMA PageShift ==
  ASSUME NEW k \in Nat, NEW x \in Nat
  PROVE  /\ PageIndex(minAddressForPage(k) + x) = k + PageIndex(x)
         /\ PageAddress(minAddressForPage(k) + x) = PageAddress(x)
<1> DEFINE i == PageIndex(x)
<1>1. /\ i \in Nat /\ minAddressForPage(i) <= x /\ x < minAddressForPage(i + 1)
      /\ PageAddress(x) = x - minAddressForPage(i)
  BY PageIndexType
<1>2. /\ minAddressForPage(k + i) = minAddressForPage(k) + minAddressForPage(i)
      /\ minAddressForPage(k + i + 1) = minAddressForPage(k) + minAddressForPage(i + 1)
      /\ minAddressForPage(k) \in Nat /\ minAddressForPage(i) \in Nat
  BY <1>1, PagesAssumption DEF minAddressForPage
<1> HIDE DEF i
<1> DEFINE m == minAddressForPage(k) + x
<1>3. m \in Nat /\ k + i \in Nat
  BY <1>1, <1>2
<1>4. minAddressForPage(k + i) <= m /\ m < minAddressForPage(k + i + 1)
  BY <1>1, <1>2, MinNext
<1>5. PageIndex(m) = k + i
  BY <1>3, <1>4, PageIndexUnique
<1>6. PageAddress(m) = m - minAddressForPage(k + i)
  BY <1>3, <1>5, PageIndexType
<1>7. PageAddress(m) = PageAddress(x)
  BY <1>1, <1>2, <1>6
<1> QED
  BY <1>5, <1>7 DEF i

\* What FlattenSeq computes: the concatenation of the first i sequences, for
\* each i.
LEMMA Flatten ==
  ASSUME NEW s, NEW N \in Nat, Len(s) = N, N # 0
  PROVE  \E g : /\ FlattenSeq(s) = g[N]
                /\ \A i \in 1 .. N : g[i] = IF i = 1 THEN s[i] ELSE g[i - 1] \o s[i]
<1> DEFINE D(g, n) == g = [i \in 1 .. n |-> IF i = 1 THEN s[i] ELSE g[i - 1] \o s[i]]
           S == {n \in Nat : n # 0 /\ ~ \E g : D(g, n)}
<1>1. ASSUME S # {} PROVE FALSE
  <2>1. PICK m \in S : \A n \in S : m <= n
    BY <1>1, LeastNat
  <2>2. m \in Nat /\ m # 0 /\ ~ \E g : D(g, m)
    BY <2>1
  <2>3. CASE m = 1
    <3> DEFINE g == [i \in 1 .. 1 |-> s[i]]
    <3>1. \A i \in 1 .. 1 : i = 1
      OBVIOUS
    <3>2. D(g, 1)
      BY <3>1
    <3> QED
      BY <2>2, <2>3, <3>2
  <2>4. CASE m # 1
    <3>1. m - 1 \in Nat /\ m - 1 # 0 /\ ~ (m <= m - 1)
      BY <2>2, <2>4
    <3>2. \E h : D(h, m - 1)
      BY <2>1, <3>1
    <3>3. PICK h : D(h, m - 1)
      BY <3>2
    <3> DEFINE g == [i \in 1 .. m |-> IF i = m THEN h[m - 1] \o s[m] ELSE h[i]]
    <3>4. \A i \in 1 .. m - 1 : g[i] = h[i]
      BY <2>2
    <3>5. \A i \in 1 .. m - 1 : h[i] = IF i = 1 THEN s[i] ELSE h[i - 1] \o s[i]
      BY <3>3
    <3>6. ASSUME NEW i \in 1 .. m
          PROVE  g[i] = IF i = 1 THEN s[i] ELSE g[i - 1] \o s[i]
      <4>1. CASE i = m
        <5>1. g[i] = h[m - 1] \o s[m]
          BY <4>1
        <5>2. g[m - 1] = h[m - 1]
          BY <3>1, <3>4
        <5> QED
          BY <5>1, <5>2, <4>1, <2>4
      <4>2. CASE i # m
        <5>1. i \in 1 .. m - 1 /\ g[i] = h[i]
          BY <4>2, <2>2, <3>4
        <5>2. i # 1 => g[i - 1] = h[i - 1]
          BY <5>1, <3>4, <2>2
        <5>3. h[i] = IF i = 1 THEN s[i] ELSE h[i - 1] \o s[i]
          BY <5>1, <3>5
        <5> HIDE DEF g
        <5> QED
          BY <5>1, <5>2, <5>3
      <4> QED
        BY <4>1, <4>2
    <3>7. D(g, m)
      BY <3>6
    <3> QED
      BY <2>2, <3>7
  <2> QED
    BY <2>3, <2>4
<1>2. \E g : D(g, N)
  <2> HIDE DEF D
  <2> QED
    BY <1>1
<1> DEFINE f == CHOOSE g : D(g, N)
<1>3. D(f, N)
  BY <1>2
<1>4. FlattenSeq(s) = f[N]
  BY DEF FlattenSeq
<1>5. \A i \in 1 .. N : f[i] = IF i = 1 THEN s[i] ELSE f[i - 1] \o s[i]
  BY <1>3
<1> QED
  BY <1>4, <1>5

\* Pages of bytes, all of them full but the last.
InPages(s) == /\ s \in Seq(Seq(Byte))
              /\ \A i \in 1 .. Len(s) : Len(s[i]) <= PageSize
              /\ \A i \in 1 .. Len(s) : i < Len(s) => Len(s[i]) = PageSize

\* The text of the pages is t up to address n.
IsText(t, n, s) ==
  /\ t \in Seq(Byte) /\ Len(t) = n
  /\ \A a \in 0 .. n - 1 : t[a + 1] = s[PageIndex(a) + 1][PageAddress(a) + 1]

LEMMA FlatText ==
  ASSUME NEW s, InPages(s), NEW N \in Nat, Len(s) = N, N # 0
  PROVE  IsText(FlattenSeq(s), minAddressForPage(N - 1) + Len(s[N]), s)
<1>1. PICK g : /\ FlattenSeq(s) = g[N]
               /\ \A i \in 1 .. N : g[i] = IF i = 1 THEN s[i] ELSE g[i - 1] \o s[i]
  BY Flatten
<1> DEFINE P(i) == IsText(g[i], minAddressForPage(i - 1) + Len(s[i]), s)
           S == {i \in Nat : i \in 1 .. N /\ ~ P(i)}
<1>2. \A i \in 1 .. N : s[i] \in Seq(Byte) /\ Len(s[i]) \in Nat /\ Len(s[i]) <= PageSize
  BY DEF InPages
<1>3. PageSize \in Nat /\ PageSize > 2
  BY PagesAssumption
<1>4. ASSUME S # {} PROVE FALSE
  <2>1. PICK m \in S : \A i \in S : m <= i
    BY <1>4, LeastNat
  <2>2. m \in Nat /\ m \in 1 .. N /\ ~ P(m)
    BY <2>1
  <2>3. PICK L : L = Len(s[m])
    OBVIOUS
  <2>4. L \in Nat /\ L <= PageSize /\ s[m] \in Seq(Byte)
    BY <1>2, <2>2, <2>3
  <2>5. CASE m = 1
    <3>1. g[1] = s[1]
      BY <1>1, <2>2, <2>5
    <3>2. minAddressForPage(1 - 1) = 0 /\ minAddressForPage(0 + 1) = PageSize
          /\ minAddressForPage(0) = 0
      BY <1>3 DEF minAddressForPage
    <3>3. ASSUME NEW a \in 0 .. L - 1
          PROVE  g[1][a + 1] = s[PageIndex(a) + 1][PageAddress(a) + 1]
      <4>1. a \in Nat /\ 0 <= a /\ a < PageSize
        BY <2>4, <1>3
      <4>2. PageIndex(a) = 0
        BY <4>1, <3>2, PageIndexUnique
      <4>3. PageAddress(a) = a
        BY <4>1, <4>2, <3>2, PageIndexType
      <4> QED
        BY <3>1, <4>2, <4>3
    <3>4. minAddressForPage(1 - 1) + Len(s[1]) = L
      BY <3>2, <2>3, <2>4, <2>5
    <3>5. P(1)
      BY <3>1, <3>3, <3>4, <2>3, <2>4, <2>5 DEF IsText
    <3> QED
      BY <2>2, <2>5, <3>5
  <2>6. CASE m # 1
    <3>1. m - 1 \in Nat /\ m - 1 \in 1 .. N /\ ~ (m <= m - 1) /\ m - 1 < N
      BY <2>2, <2>6
    <3>2. P(m - 1)
      BY <2>1, <3>1
    <3>3. Len(s[m - 1]) = PageSize
      BY <3>1 DEF InPages
    <3>4. PICK k \in Nat : k = m - 2
      BY <2>2, <2>6
    <3>5. k + 1 = m - 1 /\ k = (m - 1) - 1
      BY <3>4, <2>2
    <3>6. PICK M \in Nat : M = minAddressForPage(k + 1)
      BY MinNext, <3>4
    <3>7. minAddressForPage((m - 1) - 1) + PageSize = M
      BY <3>4, <3>5, <3>6, MinNext
    <3>8. IsText(g[m - 1], M, s)
      BY <3>2, <3>3, <3>7
    <3>9. PICK h : h = g[m - 1]
      OBVIOUS
    <3>10. PICK u : u = s[m]
      OBVIOUS
    <3>11. h \in Seq(Byte) /\ Len(h) = M /\ u \in Seq(Byte) /\ Len(u) = L
      BY <3>8, <3>9, <3>10, <2>3, <2>4 DEF IsText
    <3>12. g[m] = h \o u
      BY <1>1, <2>2, <2>6, <3>9, <3>10
    <3>13. /\ h \o u \in Seq(Byte) /\ Len(h \o u) = M + L
           /\ \A j \in 1 .. M + L : (h \o u)[j] = IF j <= M THEN h[j] ELSE u[j - M]
      BY <3>11
    <3>14. ASSUME NEW a \in 0 .. (M + L) - 1
           PROVE  g[m][a + 1] = s[PageIndex(a) + 1][PageAddress(a) + 1]
      <4>1. a \in Nat /\ a + 1 \in 1 .. M + L
        BY <2>4
      <4>2. CASE a < M
        <5>1. a \in 0 .. M - 1 /\ a + 1 <= M
          BY <4>1, <4>2
        <5>2. g[m][a + 1] = h[a + 1]
          BY <3>12, <3>13, <4>1, <5>1
        <5> QED
          BY <5>1, <5>2, <3>8, <3>9 DEF IsText
      <4>3. CASE ~ (a < M)
        <5>1. PICK x \in Nat : x = a - M
          BY <4>1, <4>3
        <5>2. /\ a = M + x /\ x < L /\ a + 1 = M + x + 1 /\ (a + 1) - M = x + 1
              /\ ~ (a + 1 <= M)
          BY <5>1, <4>1, <4>3, <2>4
        <5>3. g[m][a + 1] = u[x + 1]
          BY <3>12, <3>13, <4>1, <5>2
        <5>4. minAddressForPage(0) = 0 /\ minAddressForPage(0 + 1) = PageSize
          BY <1>3 DEF minAddressForPage
        <5>5. x < PageSize
          BY <5>1, <5>2, <2>4, <1>3
        <5>6. PageIndex(x) = 0
          BY <5>1, <5>4, <5>5, PageIndexUnique
        <5>7. PageAddress(x) = x
          BY <5>1, <5>4, <5>6, PageIndexType
        <5>10. PICK j \in Nat : j = k + 1
          BY <3>4
        <5>11. PageIndex(M + x) = j + 0 /\ PageAddress(M + x) = x
          BY <5>6, <5>7, <5>10, <3>6, PageShift
        <5>8. PageIndex(a) = k + 1 /\ PageAddress(a) = x
          BY <5>2, <5>10, <5>11
        <5>9. PageIndex(a) + 1 = m
          BY <5>8, <3>4, <2>2
        <5> QED
          BY <5>3, <5>8, <5>9, <3>10
      <4> QED
        BY <4>2, <4>3
    <3>15. minAddressForPage(m - 1) + Len(s[m]) = M + L
      BY <3>5, <3>6, <2>3
    <3>16. P(m)
      BY <3>12, <3>13, <3>14, <3>15 DEF IsText
    <3> QED
      BY <2>2, <3>16
  <2> QED
    BY <2>5, <2>6
<1>5. N \in 1 .. N
  OBVIOUS
<1>6. P(N)
  BY <1>4, <1>5
<1> QED
  BY <1>1, <1>6

\* n bytes of what is kept in w, from an address on.
IsPart(t, from, n, w) ==
  /\ t \in Seq(Byte) /\ Len(t) = n
  /\ \A a \in 0 .. n - 1 : t[a + 1] = At(w, from + a)

LEMMA Joined ==
  ASSUME NEW t, NEW u, NEW k \in Nat, NEW m \in Nat, NEW n \in Nat, NEW w,
         IsPart(t, k, m, w), IsPart(u, k + m, n, w)
  PROVE  IsPart(t \o u, k, m + n, w)
<1>1. /\ t \in Seq(Byte) /\ Len(t) = m /\ u \in Seq(Byte) /\ Len(u) = n
  BY DEF IsPart
<1>2. /\ t \o u \in Seq(Byte) /\ Len(t \o u) = m + n
      /\ \A j \in 1 .. m + n : (t \o u)[j] = IF j <= m THEN t[j] ELSE u[j - m]
  BY <1>1
<1>3. ASSUME NEW a \in 0 .. (m + n) - 1
      PROVE  (t \o u)[a + 1] = At(w, k + a)
  <2>1. a \in Nat /\ a + 1 \in 1 .. m + n
    OBVIOUS
  <2>2. CASE a < m
    <3>1. a \in 0 .. m - 1 /\ a + 1 <= m
      BY <2>1, <2>2
    <3>2. (t \o u)[a + 1] = t[a + 1]
      BY <1>2, <2>1, <3>1
    <3> QED
      BY <3>1, <3>2 DEF IsPart
  <2>3. CASE ~ (a < m)
    <3>1. PICK x \in Nat : x = a - m
      BY <2>1, <2>3
    <3>2. /\ x \in 0 .. n - 1 /\ (a + 1) - m = x + 1 /\ ~ (a + 1 <= m)
          /\ k + a = k + m + x
      BY <3>1, <2>1, <2>3
    <3>3. PICK j \in 1 .. m + n : j = a + 1
      BY <2>1
    <3>5. (t \o u)[j] = u[j - m]
      <4>1. ~ (j <= m)
        BY <3>2, <3>3
      <4> QED
        BY <4>1, <1>2
    <3>6. j - m = x + 1
      BY <3>2, <3>3
    <3>4. u[x + 1] = At(w, k + m + x)
      BY <3>2 DEF IsPart
    <3> QED
      BY <3>2, <3>3, <3>4, <3>5, <3>6
  <2> QED
    BY <2>2, <2>3
<1> QED
  BY <1>2, <1>3 DEF IsPart

\* Pages that hold what w has for the pages from k on.
HoldsFrom(s, k, w) ==
  \A i \in 1 .. Len(s) : \A o \in 1 .. Len(s[i]) : s[i][o] = w[k + (i - 1)][o - 1]

LEMMA TextIs ==
  ASSUME NEW s, InPages(s), NEW N \in Nat, Len(s) = N, N # 0, NEW k \in Nat, NEW w,
         HoldsFrom(s, k, w)
  PROVE  /\ minAddressForPage(N - 1) + Len(s[N]) \in Nat
         /\ IsPart(FlattenSeq(s), minAddressForPage(k),
                   minAddressForPage(N - 1) + Len(s[N]), w)
<1> DEFINE n == minAddressForPage(N - 1) + Len(s[N])
           t == FlattenSeq(s)
<1>1. IsText(t, n, s)
  BY FlatText
<1>2. PICK p \in Nat : p = N - 1
  OBVIOUS
<1>3. /\ \A i \in 1 .. N : s[i] \in Seq(Byte) /\ Len(s[i]) \in Nat /\ Len(s[i]) <= PageSize
      /\ \A i \in 1 .. N : i < N => Len(s[i]) = PageSize
  BY DEF InPages
<1>4. PICK L \in Nat : L = Len(s[N])
  BY <1>3
<1>5. PICK m \in Nat : m = minAddressForPage(p)
  BY MinNext
<1>6. n = m + L /\ n \in Nat /\ minAddressForPage(p + 1) = m + PageSize /\ L <= PageSize
  <2>1. N \in 1 .. N
    OBVIOUS
  <2>2. L <= PageSize
    BY <2>1, <1>3, <1>4
  <2>3. minAddressForPage(p + 1) = m + PageSize
    BY <1>5, MinNext
  <2>4. n = m + L
    BY <1>2, <1>4, <1>5
  <2> QED
    BY <2>2, <2>3, <2>4
<1>7. PageSize \in Nat /\ PageSize > 2
  BY PagesAssumption
<1> HIDE DEF n, t
<1>8. ASSUME NEW a \in 0 .. n - 1
      PROVE  t[a + 1] = At(w, minAddressForPage(k) + a)
  <2>1. a \in Nat /\ a < n
    BY <1>6
  <2>2. PICK i \in Nat : i = PageIndex(a)
    BY <2>1, PageIndexType
  <2>3. PICK b \in Nat : b = minAddressForPage(i)
    BY <2>2, MinNext
  <2>4. PICK o \in Int : o = PageAddress(a)
    BY <2>1, <2>2, <2>3, PageIndexType
  <2>5. b <= a /\ a < b + PageSize /\ o = a - b
    BY <2>1, <2>2, <2>3, <2>4, PageIndexType, MinNext
  <2>6. i <= p
    <3> SUFFICES ASSUME p + 1 <= i PROVE FALSE
      BY <1>2, <2>2
    <3>1. minAddressForPage(p + 1) <= b
      BY <1>2, <2>2, <2>3, MinMonotone
    <3>2. m + PageSize <= b
      BY <3>1, <1>6
    <3> QED
      <4>1. a < m + PageSize
        BY <2>1, <1>6, <1>7
      <4> QED
        BY <4>1, <3>2, <1>7, <2>1, <2>5
  <2>7. i + 1 \in 1 .. N /\ (i + 1) - 1 = i
    BY <2>6, <1>2, <2>2
  <2>8. o + 1 \in 1 .. Len(s[i + 1]) /\ (o + 1) - 1 = o
    <3>1. o \in Nat
      BY <2>1, <2>3, <2>4, <2>5
    <3>2. CASE i = p
      <4>1. b = m /\ i + 1 = N
        BY <3>2, <2>3, <1>5, <1>2
      <4>2. o < L
        <5>1. a < m + L /\ o = a - m
          BY <4>1, <2>1, <2>5, <1>6
        <5> QED
          BY <5>1, <2>1, <1>4, <1>5
      <4> QED
        BY <3>1, <4>1, <4>2, <1>4
    <3>3. CASE i # p
      <4>1. i + 1 < N
        BY <3>3, <2>6, <1>2, <2>2
      <4>2. Len(s[i + 1]) = PageSize
        BY <4>1, <2>7, <1>3
      <4>3. o < PageSize
        BY <2>5, <2>1, <2>3, <2>4, <1>7
      <4> QED
        BY <3>1, <4>2, <4>3, <1>7
    <3> QED
      BY <3>2, <3>3
  <2>9. t[a + 1] = s[i + 1][o + 1]
    BY <1>1, <2>2, <2>4 DEF IsText, n, t
  <2>10. s[i + 1][o + 1] = w[k + i][o]
    BY <2>7, <2>8 DEF HoldsFrom
  <2>11. PageIndex(minAddressForPage(k) + a) = k + i
         /\ PageAddress(minAddressForPage(k) + a) = o
    BY <2>1, <2>2, <2>4, PageShift
  <2> QED
    BY <2>9, <2>10, <2>11 DEF At
<1> QED
  BY <1>1, <1>6, <1>8 DEF IsPart, IsText, n, t

---------------------------------------------------------------------------
\* The text of a queue: what it has dumped, and its pages.

\* All the pages that were dumped were full, but for the last of a closed queue.
Whole(q) == \A i \in 1 .. Len(q.dumped) : i <= q.LastPage => Len(q.dumped[i]) = PageSize

\* What is needed of a queue to dump from it, whether or not it has failed,
\* and to know what was dumped.
Dumpable(q) == WellFormed(q) /\ (q.FirstPage # Null => Len(q.dumped) = q.FirstPage)

DumpOk(q, w) == Dumpable(q) /\ ClosedOk(q) /\ DumpedRight(q, w)

LEMMA QueueDumpable ==
  ASSUME NEW q, NEW w, QueueOk(q, w)
  PROVE  Dumpable(q) /\ DumpOk(q, w)
BY DEF QueueOk, Kept, Dumpable, DumpOk

LEMMA DumpableFacts ==
  ASSUME NEW q, Dumpable(q)
  PROVE  /\ q \in QueueType /\ WellFormed(q)
         /\ q.dumped \in Seq(Seq(Byte)) /\ Len(q.dumped) \in Nat
         /\ q.LastPage \in Nat /\ q.LastPage \in PageId
         /\ q.FirstPage # Null =>
              /\ q.FirstPage \in Nat /\ q.FirstPage <= q.LastPage
              /\ q.FirstPage \in 0 .. q.LastPage
              /\ Len(q.dumped) = q.FirstPage
BY QueueFacts DEF Dumpable, WellFormed, QueueType

\* The bytes up to this address have left the queue.
Through(q) == IF q.FirstPage = Null THEN fillSize(q) ELSE minAddressForPage(q.FirstPage)

\* The pages from k to m of those that were dumped.
LEMMA DumpedPart ==
  ASSUME NEW q, NEW w, DumpOk(q, w), Whole(q), NEW k \in Nat, NEW N \in Nat,
         k + N = Len(q.dumped)
  PROVE  /\ Through(q) \in Nat /\ minAddressForPage(k) \in Nat
         /\ minAddressForPage(k) <= Through(q) \/ N = 0
         /\ N # 0 => IsPart(FlattenSeq(SubSeq(q.dumped, k + 1, Len(q.dumped))),
                            minAddressForPage(k), Through(q) - minAddressForPage(k), w)
         /\ N = 0 => FlattenSeq(SubSeq(q.dumped, k + 1, Len(q.dumped))) = << >>
<1> DEFINE d == q.dumped
           s == SubSeq(d, k + 1, Len(d))
<1>1. /\ WellFormed(q) /\ d \in Seq(Seq(Byte)) /\ Len(d) = k + N
      /\ q.LastPage \in Nat /\ fillSize(q) \in Nat
      /\ minAddressForPage(q.LastPage) <= fillSize(q)
      /\ fillSize(q) < minAddressForPage(q.LastPage + 1)
      /\ q.FirstPage # Null => q.FirstPage \in Nat /\ q.FirstPage <= q.LastPage
  BY QueueFacts DEF DumpOk, Dumpable, WellFormed, QueueType
<1>2. /\ q.FirstPage # Null => Len(d) = q.FirstPage
      /\ q.FirstPage = Null =>
           /\ Len(d) = q.LastPage + 1
           /\ minAddressForPage(q.LastPage) + Len(d[q.LastPage + 1]) = fillSize(q)
      /\ \A i \in 1 .. Len(d) : \A o \in 1 .. Len(d[i]) : d[i][o] = w[i - 1][o - 1]
  BY DEF DumpOk, Dumpable, ClosedOk, DumpedRight
<1>3. minAddressForPage(k) \in Nat /\ Through(q) \in Nat
  BY <1>1, MinNext DEF Through
<1>4. s \in Seq(Seq(Byte)) /\ Len(s) = N /\ \A i \in 1 .. N : s[i] = d[k + i]
  <2> HIDE DEF d
  <2>1. d \in Seq(Seq(Byte)) /\ Len(d) = k + N
    BY <1>1
  <2>2. PICK n \in Nat : n = k + N
    OBVIOUS
  <2>3. s = SubSeq(d, k + 1, n)
    BY <2>1, <2>2
  <2>4. s = [i \in 1 .. (n - (k + 1)) + 1 |-> d[(i + (k + 1)) - 1]]
    BY <2>3
  <2>5. (n - (k + 1)) + 1 = N /\ \A i \in 1 .. N : (i + (k + 1)) - 1 = k + i
    BY <2>2
  <2>6. s = [i \in 1 .. N |-> d[k + i]]
    BY <2>4, <2>5
  <2>7. \A i \in 1 .. N : d[k + i] \in Seq(Byte)
    BY <2>1
  <2> HIDE DEF s
  <2> QED
    BY <2>6, <2>7
<1>5. CASE N = 0
  <2>1. s = << >>
    BY <1>4, <1>5
  <2>2. FlattenSeq(s) = << >>
    BY <2>1 DEF FlattenSeq
  <2> QED
    BY <1>3, <1>5, <2>2
<1>6. CASE N # 0
  <2> HIDE DEF d
  <2>1. PICK l \in Nat : l = q.LastPage
    BY <1>1
  <2>2. /\ minAddressForPage(l) \in Nat /\ minAddressForPage(l + 1) = minAddressForPage(l) + PageSize
        /\ PageSize \in Nat
    BY <2>1, MinNext, PagesAssumption
  <2>3. k + N <= l + 1 /\ (q.FirstPage # Null => k + N <= l)
    BY <1>1, <1>2, <2>1
  <2>4. \A i \in 1 .. Len(d) : i <= l => Len(d[i]) = PageSize
    BY <2>1 DEF Whole, d
  <2>5. \A i \in 1 .. Len(d) : d[i] \in Seq(Byte) /\ Len(d[i]) \in Nat
    BY <1>1
  <2>6. ASSUME NEW i \in 1 .. Len(d)
        PROVE  Len(d[i]) <= PageSize
    <3>1. CASE i <= l
      BY <3>1, <2>4, <2>2
    <3>2. CASE ~ (i <= l)
      <4>1. i \in Nat /\ i <= k + N
        BY <1>1
      <4>5. i = l + 1
        BY <3>2, <2>3, <4>1
      <4>6. q.FirstPage = Null
        BY <3>2, <2>3, <4>1
      <4>2. PICK L \in Nat : L = Len(d[i])
        BY <2>5
      <4>3. minAddressForPage(l) + L = fillSize(q)
        BY <4>5, <4>6, <4>2, <1>2, <2>1
      <4>4. minAddressForPage(l) + L < minAddressForPage(l) + PageSize
        BY <4>3, <1>1, <2>1, <2>2
      <4> QED
        BY <4>2, <4>4, <2>2
    <3> QED
      BY <3>1, <3>2
  <2>7. ASSUME NEW i \in 1 .. N
        PROVE  /\ Len(s[i]) <= PageSize
               /\ i < N => Len(s[i]) = PageSize
               /\ \A o \in 1 .. Len(s[i]) : s[i][o] = w[k + (i - 1)][o - 1]
    <3>1. k + i \in 1 .. Len(d) /\ s[i] = d[k + i] /\ (k + i) - 1 = k + (i - 1)
      BY <1>1, <1>4
    <3>2. i < N => k + i <= l
      BY <2>3, <2>1
    <3> HIDE DEF s
    <3>3. Len(s[i]) <= PageSize
      BY <3>1, <2>6
    <3>4. i < N => Len(s[i]) = PageSize
      BY <3>1, <3>2, <2>4
    <3>5. \A o \in 1 .. Len(d[k + i]) : d[k + i][o] = w[(k + i) - 1][o - 1]
      BY <3>1, <1>2
    <3> QED
      BY <3>1, <3>3, <3>4, <3>5
  <2>8. InPages(s)
    BY <1>4, <2>7 DEF InPages
  <2> HIDE DEF s
  <2>9. /\ minAddressForPage(N - 1) + Len(s[N]) \in Nat
        /\ IsPart(FlattenSeq(s), minAddressForPage(k), minAddressForPage(N - 1) + Len(s[N]), w)
    <3>2. Len(s) = N
      BY <1>4
    <3>1. HoldsFrom(s, k, w)
      BY <2>7, <3>2 DEF HoldsFrom
    <3> QED
      BY <3>1, <3>2, <2>8, <1>6, TextIs
  <2>10. minAddressForPage(k) + (minAddressForPage(N - 1) + Len(s[N])) = Through(q)
    <3>1. PICK p \in Nat : p = N - 1
      BY <1>6
    <3>2. minAddressForPage(k + p) = minAddressForPage(k) + minAddressForPage(p)
          /\ minAddressForPage(p) \in Nat
      BY <3>1, PagesAssumption DEF minAddressForPage
    <3>3. s[N] = d[k + N] /\ k + N \in 1 .. Len(d) /\ k + N = (k + p) + 1
      BY <1>4, <1>6, <1>1, <3>1
    <3>4. PICK L \in Nat : L = Len(s[N])
      BY <3>3, <2>5
    <3>5. CASE q.FirstPage = Null
      <4>1. k + p = l
        <5>1. k + N = l + 1
          BY <3>5, <1>1, <1>2, <2>1
        <5> QED
          BY <5>1, <3>1, <2>1
      <4>2. minAddressForPage(l) + L = fillSize(q)
        BY <3>5, <4>1, <3>3, <3>4, <1>2, <2>1
      <4>3. Through(q) = minAddressForPage(l) + L
        BY <3>5, <4>2 DEF Through
      <4>4. Through(q) = minAddressForPage(k) + (minAddressForPage(p) + L)
        <5>1. Through(q) = minAddressForPage(k + p) + L
          BY <4>1, <4>3
        <5> QED
          BY <5>1, <3>2, <3>4, <1>3
      <4> QED
        BY <4>4, <3>1, <3>4
    <3>6. CASE q.FirstPage # Null
      <4>1. q.FirstPage = (k + p) + 1 /\ k + N <= l
        BY <3>6, <3>3, <1>1, <1>2, <2>3
      <4>2. L = PageSize
        BY <4>1, <3>3, <3>4, <2>4
      <4>3. Through(q) = minAddressForPage(k + p) + PageSize
        BY <3>6, <4>1, <3>1, MinNext DEF Through
      <4> QED
        BY <4>2, <4>3, <3>1, <3>2, <3>4, <1>3
    <3> QED
      BY <3>5, <3>6
  <2>11. PICK n \in Nat : n = minAddressForPage(N - 1) + Len(s[N])
    BY <2>9
  <2>12. n = Through(q) - minAddressForPage(k) /\ minAddressForPage(k) <= Through(q)
    BY <2>10, <2>11, <1>3
  <2>13. IsPart(FlattenSeq(s), minAddressForPage(k), Through(q) - minAddressForPage(k), w)
    BY <2>9, <2>11, <2>12
  <2> QED
    BY <1>3, <1>6, <2>12, <2>13 DEF s, d
<1> QED
  BY <1>5, <1>6

LEMMA Nothing ==
  ASSUME NEW k, NEW w
  PROVE  IsPart(<< >>, k, 0, w)
BY DEF IsPart

\* All that has left the queue.
LEMMA DumpedText ==
  ASSUME NEW q, NEW w, DumpOk(q, w), Whole(q)
  PROVE  Through(q) \in Nat /\ IsPart(FlattenSeq(q.dumped), 0, Through(q), w)
<1>1. q.dumped \in Seq(Seq(Byte)) /\ Len(q.dumped) \in Nat
  BY DumpableFacts DEF DumpOk
<1>2. PICK N \in Nat : N = Len(q.dumped)
  BY <1>1
<1>3. 0 + N = Len(q.dumped) /\ 0 \in Nat
  BY <1>2
<1>4. minAddressForPage(0) = 0
  BY PagesAssumption DEF minAddressForPage
<1>5. SubSeq(q.dumped, 0 + 1, Len(q.dumped)) = q.dumped
  BY <1>1
<1>6. /\ Through(q) \in Nat
      /\ N # 0 => IsPart(FlattenSeq(SubSeq(q.dumped, 0 + 1, Len(q.dumped))),
                         minAddressForPage(0), Through(q) - minAddressForPage(0), w)
      /\ N = 0 => FlattenSeq(SubSeq(q.dumped, 0 + 1, Len(q.dumped))) = << >>
  BY <1>2, <1>3, DumpedPart
<1>7. CASE N # 0
  <2>1. Through(q) - minAddressForPage(0) = Through(q)
    BY <1>4, <1>6
  <2>2. IsPart(FlattenSeq(q.dumped), minAddressForPage(0), Through(q) - minAddressForPage(0), w)
    BY <1>5, <1>6, <1>7
  <2> QED
    BY <2>1, <2>2, <1>4, <1>6
<1>8. CASE N = 0
  <2>1. FlattenSeq(q.dumped) = << >>
    BY <1>5, <1>6, <1>8
  <2>2. Len(q.dumped) = 0
    BY <1>2, <1>8
  <2>3. q.FirstPage # Null /\ q.FirstPage = 0
    <3>1. q.LastPage \in Nat
      BY DumpableFacts DEF DumpOk
    <3> QED
      BY <2>2, <3>1 DEF DumpOk, Dumpable, ClosedOk
  <2>4. Through(q) = 0
    BY <2>3, <1>4 DEF Through
  <2> QED
    BY <2>1, <2>4, Nothing
<1> QED
  BY <1>7, <1>8

\* The pages of an open queue.
ChainBytes(q) == [i \in 1 .. q.LastPage - q.FirstPage + 1 |->
                    PageBytes(q.PageMap[q.FirstPage + i - 1])]

LEMMA ChainText ==
  ASSUME NEW q, NEW w, QueueOk(q, w), q.FirstPage # Null
  PROVE  /\ fillSize(q) - Through(q) \in Nat
         /\ IsPart(FlattenSeq(ChainBytes(q)), Through(q), fillSize(q) - Through(q), w)
<1>1. /\ WellFormed(q) /\ q.LastPage \in Nat /\ fillSize(q) \in Nat
      /\ fillSize(q) = q.PageMap[q.LastPage].max
      /\ minAddressForPage(q.LastPage) <= fillSize(q)
      /\ q.FirstPage \in Nat /\ q.FirstPage <= q.LastPage
  BY QueueFacts DEF QueueOk
<1>2. PICK f \in Nat : f = q.FirstPage
  BY <1>1
<1>3. PICK l \in Nat : l = q.LastPage
  BY <1>1
<1>4. PICK N \in Nat : N = (l - f) + 1
  BY <1>1, <1>2, <1>3
<1>5. PICK s : s = ChainBytes(q)
  OBVIOUS
<1>6. N # 0 /\ N - 1 = l - f /\ f + (N - 1) = l /\ N \in 1 .. N
  BY <1>1, <1>2, <1>3, <1>4
<1>7. s = [i \in 1 .. N |-> PageBytes(q.PageMap[f + i - 1])]
  BY <1>2, <1>3, <1>4, <1>5 DEF ChainBytes
<1>8. ASSUME NEW i \in 1 .. N
      PROVE  /\ s[i] \in Seq(Byte) /\ Len(s[i]) <= PageSize
             /\ i < N => Len(s[i]) = PageSize
             /\ i = N => Len(s[i]) = fillSize(q) - minAddressForPage(l)
             /\ \A o \in 1 .. Len(s[i]) : s[i][o] = w[f + (i - 1)][o - 1]
  <2>1. PICK p \in Nat : p = f + i - 1
    BY <1>6
  <2>2. p \in 0 .. q.LastPage /\ p \in q.FirstPage .. q.LastPage /\ p = f + (i - 1)
        /\ (i < N => p < l) /\ (i = N => p = l)
    BY <2>1, <1>2, <1>3, <1>4
  <2>3. PICK t : t = PageBytes(q.PageMap[p])
    OBVIOUS
  <2>4. s[i] = t
    BY <1>7, <2>1, <2>3
  <2>5. /\ t \in Seq(Byte) /\ Len(t) = q.PageMap[p].max - minAddressForPage(p)
        /\ Len(t) <= PageSize
        /\ \A o \in 1 .. Len(t) : t[o] = q.PageMap[p].buf[o - 1]
    BY <1>1, <2>2, <2>3, PageBytesType
  <2>6. q.PageMap[p].buf = w[p]
    BY <2>2 DEF QueueOk, Kept
  <2>7. i < N => Len(t) = PageSize
    <3> HAVE i < N
    <3>1. p \in 0 .. q.LastPage - 1
      BY <2>2, <1>1, <1>3
    <3>2. q.PageMap[p].max = minAddressForPage(p + 1)
      BY <3>1, <1>1 DEF WellFormed
    <3>3. minAddressForPage(p + 1) = minAddressForPage(p) + PageSize /\ minAddressForPage(p) \in Nat
      BY <2>1, MinNext
    <3> QED
      BY <2>5, <3>2, <3>3, PagesAssumption
  <2>8. i = N => Len(t) = fillSize(q) - minAddressForPage(l)
    BY <2>2, <2>5, <1>1, <1>3
  <2> QED
    BY <2>2, <2>4, <2>5, <2>6, <2>7, <2>8
<1>9. s \in Seq(Seq(Byte)) /\ Len(s) = N
  <2>1. \A i \in 1 .. N : PageBytes(q.PageMap[f + i - 1]) \in Seq(Byte)
    BY <1>7, <1>8
  <2> QED
    BY <1>7, <2>1
<1>10. InPages(s) /\ HoldsFrom(s, f, w)
  BY <1>8, <1>9 DEF InPages, HoldsFrom
<1>11. /\ minAddressForPage(N - 1) + Len(s[N]) \in Nat
       /\ IsPart(FlattenSeq(s), minAddressForPage(f), minAddressForPage(N - 1) + Len(s[N]), w)
  BY <1>6, <1>9, <1>10, TextIs
<1>12. PICK n \in Nat : n = minAddressForPage(N - 1) + Len(s[N])
  BY <1>11
<1>13. n = fillSize(q) - Through(q)
  <2>1. PICK p \in Nat : p = N - 1
    BY <1>6
  <2>2. minAddressForPage(f + p) = minAddressForPage(f) + minAddressForPage(p)
        /\ minAddressForPage(f) \in Nat /\ minAddressForPage(p) \in Nat
    BY <2>1, PagesAssumption DEF minAddressForPage
  <2>3. f + p = l
    BY <2>1, <1>6
  <2>4. Through(q) = minAddressForPage(f)
    BY <1>2 DEF Through
  <2>5. n = minAddressForPage(p) + (fillSize(q) - minAddressForPage(l))
    BY <1>6, <1>8, <1>12, <2>1
  <2> QED
    BY <2>2, <2>3, <2>4, <2>5, <1>1
<1> QED
  BY <1>2, <1>5, <1>11, <1>12, <1>13 DEF Through

\* All that is in a queue.
LEMMA BytesText ==
  ASSUME NEW q, NEW w, QueueOk(q, w), Whole(q)
  PROVE  /\ fillSize(q) \in Nat /\ Through(q) \in Nat /\ Through(q) <= fillSize(q)
         /\ IsPart(Bytes(q), 0, fillSize(q), w)
         /\ q.FirstPage = Null => Through(q) = fillSize(q)
<1>1. fillSize(q) \in Nat
  BY QueueFacts DEF QueueOk
<1>2. Through(q) \in Nat /\ IsPart(FlattenSeq(q.dumped), 0, Through(q), w)
  BY QueueDumpable, DumpedText
<1>3. q.FirstPage = Null => Through(q) = fillSize(q)
  BY DEF Through
<1>4. CASE q.FirstPage = Null
  <2>1. IsPart(<< >>, 0 + Through(q), 0, w)
    BY Nothing
  <2>2. IsPart(FlattenSeq(q.dumped) \o << >>, 0, Through(q) + 0, w)
    BY <1>2, <2>1, Joined
  <2> QED
    BY <1>1, <1>3, <1>4, <2>2 DEF Bytes
<1>5. CASE q.FirstPage # Null
  <2>1. PICK n \in Nat : n = fillSize(q) - Through(q)
    BY <1>5, ChainText
  <2>2. IsPart(FlattenSeq(ChainBytes(q)), Through(q), n, w)
    BY <1>5, <2>1, ChainText
  <2>3. 0 + Through(q) = Through(q) /\ Through(q) + n = fillSize(q) /\ Through(q) <= fillSize(q)
    BY <1>1, <1>2, <2>1
  <2>4. IsPart(FlattenSeq(q.dumped) \o FlattenSeq(ChainBytes(q)), 0, Through(q) + n, w)
    BY <1>2, <2>2, <2>3, Joined
  <2>5. Bytes(q) = FlattenSeq(q.dumped) \o FlattenSeq(ChainBytes(q))
    BY <1>5 DEF Bytes, ChainBytes
  <2> QED
    BY <1>1, <1>2, <1>3, <2>3, <2>4, <2>5
<1> QED
  BY <1>4, <1>5

---------------------------------------------------------------------------
\* What has been dumped stays as it is, and what is dumped besides are full
\* pages.

Grows(q, r) ==
  /\ Len(q.dumped) <= Len(r.dumped)
  /\ \A i \in 1 .. Len(q.dumped) : r.dumped[i] = q.dumped[i]
  /\ Whole(q) => Whole(r)

LEMMA GrowsTrans ==
  ASSUME NEW q, Dumpable(q), NEW r, Dumpable(r), NEW s, Len(s.dumped) \in Nat,
         Grows(q, r), Grows(r, s)
  PROVE  Grows(q, s)
<1>1. Len(q.dumped) \in Nat /\ Len(r.dumped) \in Nat
  BY DumpableFacts
<1>2. Len(q.dumped) <= Len(r.dumped) /\ Len(r.dumped) <= Len(s.dumped)
  BY DEF Grows
<1>3. ASSUME NEW i \in 1 .. Len(q.dumped)
      PROVE  s.dumped[i] = q.dumped[i]
  <2>1. i \in 1 .. Len(r.dumped)
    BY <1>1, <1>2
  <2> QED
    BY <2>1 DEF Grows
<1>4. Whole(q) => Whole(s)
  BY DEF Grows
<1> QED
  BY <1>1, <1>2, <1>3, <1>4 DEF Grows

\* A step that dumps nothing, of an open queue or one that keeps its last page.
LEMMA SameGrows ==
  ASSUME NEW q, Dumpable(q), NEW r, r.dumped = q.dumped,
         q.FirstPage # Null \/ r.LastPage = q.LastPage
  PROVE  Grows(q, r)
<1>1. Len(q.dumped) \in Nat /\ q.LastPage \in Nat
      /\ (q.FirstPage # Null => Len(q.dumped) <= q.LastPage)
  BY DumpableFacts
<1>2. ASSUME Whole(q), NEW i \in 1 .. Len(q.dumped), i <= r.LastPage
      PROVE  Len(q.dumped[i]) = PageSize
  <2>1. i <= q.LastPage
    BY <1>1, <1>2
  <2> QED
    BY <1>2, <2>1 DEF Whole
<1> QED
  BY <1>1, <1>2 DEF Grows, Whole

LEMMA DumpGrows ==
  ASSUME NEW q, Dumpable(q), q.FirstPage # Null, NEW f \in q.FirstPage .. q.LastPage + 1
  PROVE  /\ Grows(q, DumpUpTo(q, f))
         /\ DumpUpTo(q, f).dumped \in Seq(Seq(Byte))
         /\ DumpUpTo(q, f).LastPage = q.LastPage
         /\ f <= q.LastPage => Dumpable(DumpUpTo(q, f))
<1>1. PICK r : r = DumpUpTo(q, f)
  OBVIOUS
<1>2. /\ q \in QueueType /\ WellFormed(q) /\ q.LastPage \in Nat
      /\ q.FirstPage \in Nat /\ q.FirstPage <= q.LastPage
      /\ Len(q.dumped) = q.FirstPage /\ q.dumped \in Seq(Seq(Byte))
  BY DumpableFacts
<1>3. IsDumped(q, f, r) /\ (f <= q.LastPage => WellFormed(r))
  BY <1>1, <1>2, DumpWellFormed
<1>4. /\ r.FirstPage = f /\ r.LastPage = q.LastPage /\ r.PageMap = q.PageMap
      /\ r.dumped \in Seq(Seq(Byte)) /\ f \in Nat
  <2>1. r.FirstPage = f /\ r.LastPage = q.LastPage /\ r.PageMap = q.PageMap
    BY <1>2, <1>3 DEF IsDumped, QueueType
  <2>2. r.dumped \in Seq(Seq(Byte)) /\ f \in Nat
    BY <1>2, <1>3 DEF IsDumped
  <2> QED
    BY <2>1, <2>2
<1>5. PICK n \in Nat : n = q.FirstPage
  BY <1>2
<1>6. Len(r.dumped) = f /\ n <= f /\ Len(q.dumped) = n
  BY <1>2, <1>3, <1>4, <1>5 DEF IsDumped
<1>7. ASSUME NEW i \in 1 .. f
      PROVE  r.dumped[i] = IF i <= n THEN q.dumped[i] ELSE PageBytes(q.PageMap[i - 1])
  <2>1. r.dumped[i] = IF i <= Len(q.dumped) THEN q.dumped[i]
                      ELSE PageBytes(q.PageMap[q.FirstPage + (i - Len(q.dumped)) - 1])
    BY <1>3, <1>6 DEF IsDumped
  <2>2. q.FirstPage + (i - Len(q.dumped)) - 1 = i - 1
    BY <1>4, <1>5, <1>6
  <2> QED
    BY <2>1, <2>2, <1>6
<1>8. ASSUME Whole(q), NEW i \in 1 .. f, i <= q.LastPage
      PROVE  Len(r.dumped[i]) = PageSize
  <2>1. CASE i <= n
    <3>1. i \in 1 .. Len(q.dumped)
      BY <2>1, <1>4, <1>6
    <3>2. Len(q.dumped[i]) = PageSize
      BY <3>1, <1>8 DEF Whole
    <3> QED
      BY <2>1, <3>2, <1>7
  <2>2. CASE ~ (i <= n)
    <3>1. PICK p \in Nat : p = i - 1
      BY <1>4
    <3>2. p \in 0 .. q.LastPage - 1 /\ p \in 0 .. q.LastPage
      BY <3>1, <1>2, <1>4, <1>8
    <3>3. r.dumped[i] = PageBytes(q.PageMap[p])
      BY <2>2, <3>1, <1>7
    <3>4. q.PageMap[p].max = minAddressForPage(p + 1)
      BY <3>2, <1>2 DEF WellFormed
    <3>5. Len(PageBytes(q.PageMap[p])) = q.PageMap[p].max - minAddressForPage(p)
      BY <3>2, <1>2, PageBytesType
    <3>6. minAddressForPage(p + 1) = minAddressForPage(p) + PageSize /\ minAddressForPage(p) \in Nat
      BY <3>1, MinNext
    <3> QED
      BY <3>3, <3>4, <3>5, <3>6, PagesAssumption
  <2> QED
    BY <2>1, <2>2
<1>9. Grows(q, r)
  <2>1. \A i \in 1 .. n : r.dumped[i] = q.dumped[i]
    BY <1>4, <1>6, <1>7
  <2> QED
    BY <1>4, <1>6, <1>8, <2>1 DEF Grows, Whole
<1>10. f <= q.LastPage => Dumpable(r)
  BY <1>3, <1>4, <1>6 DEF Dumpable
<1> QED
  BY <1>1, <1>4, <1>9, <1>10

LEMMA FailGrows ==
  ASSUME NEW q, Dumpable(q)
  PROVE  Dumpable(fail(q)) /\ Grows(q, fail(q)) /\ fail(q).FirstPage = q.FirstPage
<1>1. PICK r : r = fail(q)
  OBVIOUS
<1>2. q \in QueueType /\ 0 \in AddressType
  BY DumpableFacts, Constants
<1>3. r \in QueueType
  BY <1>1, <1>2 DEF fail, QueueType
<1>4. /\ r.PageMap = q.PageMap /\ r.size = q.size /\ r.FirstPage = q.FirstPage
      /\ r.LastPage = q.LastPage /\ r.EofFrozen = q.EofFrozen /\ r.dumped = q.dumped
  BY <1>1, <1>2 DEF fail, QueueType
<1>5. WellFormed(r)
  BY <1>3, <1>4 DEF Dumpable, WellFormed
<1>6. Dumpable(r)
  BY <1>4, <1>5 DEF Dumpable
<1> QED
  BY <1>1, <1>4, <1>6, SameGrows

LEMMA SeekGrows ==
  ASSUME NEW q, Dumpable(q), NEW others, NEW p
  PROVE  /\ Dumpable(Seek(q, others, p)) /\ Grows(q, Seek(q, others, p))
         /\ q.FirstPage # Null => Seek(q, others, p).FirstPage # Null
<1>1. PICK r : r = FailIfError(q, p)
  OBVIOUS
<1>2. Dumpable(r) /\ Grows(q, r) /\ r.FirstPage = q.FirstPage
  <2>1. fail(q).FirstPage = q.FirstPage
    BY DumpableFacts DEF fail, QueueType
  <2> QED
    BY <1>1, <2>1, FailGrows, SameGrows DEF FailIfError
<1>3. PICK held : held = others \cup {p}
  OBVIOUS
<1>4. Seek(q, others, p) = dumpPreviousPages(r, held)
  BY <1>1, <1>3 DEF Seek
<1>5. CASE r.FirstPage = Null
  BY <1>2, <1>4, <1>5 DEF dumpPreviousPages
<1>6. CASE r.FirstPage # Null
  <2>1. WellFormed(r) /\ r.FirstPage \in Nat /\ r.LastPage \in Nat
    BY <1>2, <1>6, DumpableFacts
  <2>2. PICK f \in r.FirstPage .. r.LastPage : dumpPreviousPages(r, held) = DumpUpTo(r, f)
    BY <1>6, <2>1, DumpStops
  <2>3. f \in r.FirstPage .. r.LastPage + 1 /\ f <= r.LastPage
    BY <2>1
  <2>4. Grows(r, DumpUpTo(r, f)) /\ Dumpable(DumpUpTo(r, f))
    BY <1>2, <1>6, <2>3, DumpGrows
  <2>5. PICK s : s = DumpUpTo(r, f)
    OBVIOUS
  <2>6. Grows(q, s)
    BY <1>2, <2>4, <2>5, DumpableFacts, GrowsTrans
  <2>7. s.FirstPage = f /\ f # Null
    <3>1. f \in Nat /\ r \in QueueType
      BY <1>2, <2>1, DumpableFacts
    <3>2. s.FirstPage = f
      BY <2>5, <3>1 DEF DumpUpTo, QueueType
    <3> QED
      BY <3>1, <3>2, PagesAssumption
  <2> QED
    BY <1>4, <2>2, <2>4, <2>5, <2>6, <2>7
<1> QED
  BY <1>5, <1>6

LEMMA StoreGrows ==
  ASSUME NEW q, Dumpable(q), NEW p, NEW a, NEW b
  PROVE  Grows(q, Store(q, p, a, b)) /\ Store(q, p, a, b).FirstPage = q.FirstPage
<1>1. PICK r : r = Store(q, p, a, b)
  OBVIOUS
<1>2. q \in QueueType
  BY DumpableFacts
<1>3. r.dumped = q.dumped /\ r.LastPage = q.LastPage /\ r.FirstPage = q.FirstPage
  BY <1>1, <1>2 DEF Store, QueueType
<1> QED
  BY <1>1, <1>3, SameGrows

LEMMA SetEofGrows ==
  ASSUME NEW q, Dumpable(q), q.FirstPage # Null, NEW p, NEW a
  PROVE  Grows(q, SetEof(q, p, a)) /\ SetEof(q, p, a).FirstPage = q.FirstPage
<1>1. PICK r : r = SetEof(q, p, a)
  OBVIOUS
<1>2. q \in QueueType
  BY DumpableFacts
<1>3. r.dumped = q.dumped /\ r.FirstPage = q.FirstPage
  BY <1>1, <1>2 DEF SetEof, QueueType
<1> QED
  BY <1>1, <1>3, SameGrows

LEMMA WriteByteGrows ==
  ASSUME IInv, Contract, RoomLeft', NEW c \in Writers, WriteByte(c)
  PROVE  Grows(queue, queue') /\ queue'.FirstPage # Null
<1> DEFINE a == cursor[c].addr
           t == Plus(a, Grow)
           q == writeFill(queue, t)
<1>1. QueueOk(queue, written) /\ WellFormed(queue) /\ queue.FirstPage # Null
  BY DEF IInv, QueueOk, WriteByte, IsClosed
<1>2. Dumpable(queue)
  BY <1>1, QueueDumpable
<1>3. CASE queue' = Store(queue, cursor[c].page, a, Data[c])
  <2> HIDE DEF a
  <2> QED
    BY <1>1, <1>2, <1>3, StoreGrows
<1>4. CASE WriteAfterFill(c)
  <2>1. c \in Cursors /\ cursor \in [Cursors -> CursorType] /\ cursor[c] \in CursorType
    BY DEF Cursors, IInv
  <2>2. a \in Nat
    BY <2>1, CursorFacts
  <2>3. Grow \in Nat
    BY QueueAssumption, PagesAssumption
  <2>4. t \in Nat
    <3> HIDE DEF a
    <3>1. t \in AddressType
      BY <2>2, <2>3, PlusType DEF t
    <3> QED
      BY <3>1 DEF AddressType
  <2>5. CASE queue' = fail(queue)
    BY <1>1, <1>2, <2>5, FailGrows
  <2>6. CASE ~ writeFillOk(queue, t) /\ queue' = fail(q)
    <3> HIDE DEF t
    <3>1. queue.EofFrozen
      <4> SUFFICES ASSUME ~ queue.EofFrozen PROVE FALSE
        OBVIOUS
      <4>1. fail(q).LastPage = kMaxPageIndex
        BY <1>1, <2>4, <2>6, OutOfRoom
      <4> QED
        BY <4>1, <2>6, PagesAssumption DEF RoomLeft
    <3>2. q = queue
      BY <3>1 DEF writeFill
    <3> QED
      BY <1>1, <1>2, <2>6, <3>2, FailGrows
  <2>7. CASE /\ writeFillOk(queue, t)
             /\ \E p \in {getCachedPage(q, Held, a)} :
                  queue' = Store(Seek(q, HeldBut(c), p), p, AddressOnPage(p, a), Data[c])
    <3> HIDE DEF t
    <3>1. QueueOk(q, written) /\ IsFilled(queue, t, q)
      BY <1>1, <2>4, <2>7, FillOk
    <3>2. Dumpable(q) /\ q.dumped = queue.dumped /\ q.FirstPage = queue.FirstPage
      BY <3>1, QueueDumpable DEF IsFilled, SameFront
    <3> HIDE DEF q
    <3>3. Grows(queue, q)
      BY <1>1, <1>2, <3>2, SameGrows
    <3>4. PICK p, b : queue' = Store(Seek(q, HeldBut(c), p), p, b, Data[c])
      BY <2>7
    <3>5. PICK s : s = Seek(q, HeldBut(c), p)
      OBVIOUS
    <3>6. Dumpable(s) /\ Grows(q, s) /\ s.FirstPage # Null
      BY <1>1, <3>2, <3>5, SeekGrows
    <3>7. Grows(queue, s)
      BY <1>2, <3>2, <3>3, <3>6, DumpableFacts, GrowsTrans
    <3>8. /\ Grows(s, queue') /\ queue' = Store(s, p, b, Data[c])
          /\ queue'.FirstPage = s.FirstPage
      BY <3>4, <3>5, <3>6, StoreGrows
    <3>9. Len(queue'.dumped) \in Nat
      <4>1. s \in QueueType /\ Len(s.dumped) \in Nat
        BY <3>6, DumpableFacts
      <4>2. queue'.dumped = s.dumped
        BY <3>8, <4>1 DEF Store, QueueType
      <4> QED
        BY <4>1, <4>2
    <3> QED
      BY <1>2, <3>6, <3>7, <3>8, <3>9, GrowsTrans
  <2> HIDE DEF a
  <2>8. \/ queue' = fail(queue)
        \/ ~ writeFillOk(queue, t) /\ queue' = fail(q)
        \/ /\ writeFillOk(queue, t)
           /\ \E p \in {getCachedPage(q, Held, a)} :
                queue' = Store(Seek(q, HeldBut(c), p), p, AddressOnPage(p, a), Data[c])
    <3> HIDE DEF t, q
    <3>1. \A r : FailCursor(c, r) => queue' = fail(r)
      BY DEF FailCursor, Write, Store
    <3>2. \A r, p, b : Write(c, r, p, b) => queue' = Store(r, p, b, Data[c])
      BY DEF Write
    <3>3. \/ FailCursor(c, queue)
          \/ ~ writeFillOk(queue, t) /\ FailCursor(c, q)
          \/ /\ writeFillOk(queue, t)
             /\ \E p \in {getCachedPage(q, Held, a)} :
                  Write(c, Seek(q, HeldBut(c), p), p, AddressOnPage(p, a))
      BY <1>4 DEF WriteAfterFill, a, t, q
    <3> QED
      BY <3>1, <3>2, <3>3
  <2> QED
    BY <2>5, <2>6, <2>7, <2>8
<1>5. queue' = Store(queue, cursor[c].page, a, Data[c]) \/ WriteAfterFill(c)
  BY DEF WriteByte, Write
<1> QED
  BY <1>3, <1>4, <1>5

\* A frozen queue is one that was sought in.
LEMMA FreezeGrows ==
  ASSUME NEW q, NEW w, QueueOk(q, w), q.FirstPage # Null, NEW held, NEW a \in Nat,
         a <= fillSize(q), q.EofFrozen => a = q.Eof
  PROVE  /\ Grows(q, freezeEof(q, held, a)[1])
         /\ freezeEof(q, held, a)[1].FirstPage # Null
<1>1. Dumpable(q) /\ q \in QueueType
  BY QueueDumpable, DumpableFacts
<1>2. writeFill(q, a) = q /\ writeFillOk(q, a)
  BY DEF writeFill, writeFillOk
<1>3. PICK p : p = getCachedPage(q, held, a)
  OBVIOUS
<1>4. PICK b : b = AddressOnPage(p, a)
  OBVIOUS
<1>5. PICK s : s = Seek(q, held, p)
  OBVIOUS
<1>6. freezeEof(q, held, a)[1] = SetEof(s, p, b)
  <2>1. ~ (q.EofFrozen /\ a # q.Eof)
    OBVIOUS
  <2>2. freezeEof(q, held, a) = << SetEof(s, p, b), b >>
    BY <1>2, <1>3, <1>4, <1>5, <2>1 DEF freezeEof
  <2> QED
    BY <2>2
<1>7. Dumpable(s) /\ Grows(q, s) /\ s.FirstPage # Null
  BY <1>1, <1>5, SeekGrows
<1>9. Grows(s, SetEof(s, p, b)) /\ SetEof(s, p, b).FirstPage # Null
  BY <1>7, SetEofGrows
<1>10. Len(SetEof(s, p, b).dumped) \in Nat
  <2>1. s \in QueueType /\ Len(s.dumped) \in Nat
    BY <1>7, DumpableFacts
  <2>2. SetEof(s, p, b).dumped = s.dumped
    BY <2>1 DEF SetEof, QueueType
  <2> QED
    BY <2>1, <2>2
<1>11. PICK r : r = SetEof(s, p, b)
  OBVIOUS
<1> QED
  BY <1>1, <1>6, <1>7, <1>9, <1>10, <1>11, GrowsTrans

LEMMA FreezeEofGrows ==
  ASSUME IInv, Contract, NEW c \in Writers, FreezeEof(c)
  PROVE  Grows(queue, queue') /\ queue'.FirstPage # Null
<1> DEFINE a == cursor[c].addr
<1>1. /\ cursor[c].page \notin {Null, ErrorPage} /\ c \in Cursors
      /\ MayFreeze(c) /\ queue.FirstPage # Null
      /\ queue' = freezeEof(queue, Held, a)[1]
  BY DEF FreezeEof, Usable, IsOpen, Contract, IsClosed, Cursors
<1>2. Here(c, cursor[c].page, a) /\ QueueOk(queue, written)
  BY <1>1, CursorHere DEF IInv
<1>3. a \in Nat /\ a <= fillSize(queue) /\ (queue.EofFrozen => a = queue.Eof)
  BY <1>1, <1>2 DEF Here, OnChain, MayFreeze
<1> HIDE DEF a
<1> QED
  BY <1>1, <1>2, <1>3, FreezeGrows

\* Closing a queue that is not frozen freezes it at its end.
LEMMA CloseFreezes ==
  ASSUME NEW q, NEW w, QueueOk(q, w), q.LastPage < kMaxPageIndex, NEW held,
         q.FirstPage # Null, ~ q.EofFrozen
  PROVE  QueueOk(freezeEof(q, held, fillSize(q))[1], w)
<1> DEFINE a == fillSize(q)
           q3 == Seek(q, held, PageIndex(a))
<1>1. /\ a \in Nat /\ a <= kMaxEofAddress /\ PageIndex(a) = q.LastPage
      /\ q.FirstPage \in 0 .. q.LastPage /\ q.LastPage \in Nat
  BY QueueFacts DEF QueueOk
<1>2. writeFill(q, a) = q /\ writeFillOk(q, a)
  BY <1>1 DEF writeFill, writeFillOk
<1>3. getCachedPage(writeFill(q, a), held, a) = PageIndex(a)
  BY <1>1, <1>2, FindLast DEF QueueOk
<1>4. PageIndex(a) # ErrorPage
  BY <1>1, PagesAssumption
<1>5. freezeEof(q, held, a)[1] = SetEof(q3, PageIndex(a), a)
  BY <1>2, <1>3, <1>4 DEF freezeEof, AddressOnPage
<1>6. QueueOk(q3, w) /\ q3.LastPage = q.LastPage /\ q3 \in QueueType
  BY <1>1, SeekOk DEF Passed, QueueOk, WellFormed
<1> HIDE DEF q3
<1>7. SetEof(q3, PageIndex(a), a).LastPage = q.LastPage
  BY <1>1, <1>6 DEF SetEof, QueueType
<1>8. freezeEof(q, held, a)[1].LastPage < kMaxPageIndex
  BY <1>5, <1>7
<1> HIDE DEF a
<1>9. QueueOk(freezeEof(q, held, a)[1], w)
  BY <1>1, <1>3, <1>8, FreezeOk
<1> QED
  BY <1>9 DEF a

LEMMA CloseQueueGrows ==
  ASSUME IInv, RoomLeft, CloseQueue
  PROVE  Grows(queue, queue')
<1> DEFINE a == fillSize(queue)
           s == IF queue.EofFrozen THEN queue ELSE freezeEof(queue, Held, a)[1]
<1>1. QueueOk(queue, written) /\ queue.FirstPage # Null /\ queue' = close(queue, Held)
  BY DEF IInv, CloseQueue, IsClosed
<1>2. a \in Nat /\ Dumpable(queue)
  BY <1>1, QueueFacts, QueueDumpable DEF QueueOk
<1>3. queue' = DumpAll(s)
  BY <1>1 DEF close
<1>4. Dumpable(s) /\ Grows(queue, s)
  <2>1. CASE queue.EofFrozen
    BY <1>2, <2>1, SameGrows
  <2>2. CASE ~ queue.EofFrozen
    <3>1. s = freezeEof(queue, Held, a)[1]
      BY <2>2
    <3> HIDE DEF s, a
    <3>2. Grows(queue, s)
      BY <1>1, <1>2, <2>2, <3>1, FreezeGrows DEF a
    <3>3. QueueOk(s, written)
      BY <1>1, <2>2, <3>1, CloseFreezes DEF RoomLeft, a
    <3> QED
      BY <3>2, <3>3, QueueDumpable
  <2> QED
    BY <2>1, <2>2
<1> HIDE DEF s
<1>5. CASE s.FirstPage = Null
  BY <1>3, <1>4, <1>5 DEF DumpAll
<1>6. CASE s.FirstPage # Null
  <2>1. /\ s.FirstPage \in Nat /\ s.LastPage \in Nat /\ s.FirstPage <= s.LastPage
    BY <1>4, <1>6, DumpableFacts
  <2>2. s.LastPage + 1 \in s.FirstPage .. s.LastPage + 1
    BY <2>1
  <2>3. PICK d : d = DumpUpTo(s, s.LastPage + 1)
    OBVIOUS
  <2>4. Grows(s, d) /\ d.dumped \in Seq(Seq(Byte)) /\ d.LastPage = s.LastPage
    BY <1>4, <1>6, <2>2, <2>3, DumpGrows
  <2>5. queue' = [d EXCEPT !.FirstPage = Null]
    BY <1>3, <1>6, <2>3 DEF DumpAll
  <2>6. queue'.dumped = d.dumped /\ queue'.LastPage = d.LastPage
    BY <2>5, <2>3, <1>4, DumpableFacts DEF DumpUpTo, QueueType
  <2>7. Grows(s, queue')
    BY <2>4, <2>6 DEF Grows, Whole
  <2>8. Len(queue'.dumped) \in Nat
    BY <2>4, <2>6
  <2> QED
    BY <1>2, <1>4, <2>7, <2>8, GrowsTrans
<1> QED
  BY <1>5, <1>6

\* The steps of Input.
OnInput ==
  \/ \E c \in Writers : CursorStep(c) \/ WriterStep(c)
  \/ CloseQueue

\* A step of Input leaves it as it is, or finds it open and leaves it open, or
\* closes it.
LEMMA OnInputGrows ==
  ASSUME IInv, Contract, RoomLeft, RoomLeft', OnInput, Readers = {}
  PROVE  /\ Grows(queue, queue')
         /\ \/ queue' = queue /\ written' = written
            \/ queue.FirstPage # Null /\ queue'.FirstPage # Null
            \/ CloseQueue
<1>1. Dumpable(queue)
  BY QueueDumpable DEF IInv
<1>2. ASSUME NEW c \in Writers, CursorStep(c)
      PROVE  queue' = queue /\ written' = written
  BY <1>2 DEF CursorStep, NewCursor, ReleaseCursor, CopyCursor, SwapCursors, JumpCursor
<1>3. ASSUME NEW c \in Writers, WriterStep(c)
      PROVE  Grows(queue, queue') /\ queue.FirstPage # Null /\ queue'.FirstPage # Null
  <2>1. CASE WriteByte(c)
    BY <2>1, WriteByteGrows DEF WriteByte, IsClosed
  <2>2. CASE FreezeEof(c)
    BY <2>2, FreezeEofGrows DEF FreezeEof, IsClosed
  <2> QED
    BY <1>3, <2>1, <2>2 DEF WriterStep
<1>4. queue' = queue => Grows(queue, queue')
  BY <1>1, SameGrows
<1> QED
  BY <1>2, <1>3, <1>4, CloseQueueGrows DEF OnInput

---------------------------------------------------------------------------
\* Output: WritePos is at its end, OutputPos somewhere in it, and v is what its
\* pages hold.  The lemmas are about a record of the queue and its cursors.

OutputOk(o, v) ==
  /\ v \in [PageId -> [Offset -> Byte]]
  /\ QueueOk(o.queue, v) /\ Whole(o.queue)
  /\ o.queue.FirstPage # Null /\ ~ o.queue.EofFrozen
  /\ o.cursor \in [{WritePos, OutputPos} -> CursorType]
  /\ o.cursor[WritePos].page \in Nat /\ CursorOk(o.queue, o.cursor[WritePos], FALSE)
  /\ o.cursor[WritePos].addr = fillSize(o.queue)
  /\ o.cursor[OutputPos].page \in Nat /\ CursorOk(o.queue, o.cursor[OutputPos], TRUE)

\* v and w agree below address n.
Agree(v, w, n) == \A a \in 0 .. n - 1 : At(v, a) = At(w, a)

LEMMA OffsetType ==
  ASSUME NEW a \in Nat
  PROVE  PageAddress(a) \in Offset
<1>1. PICK i \in Nat : i = PageIndex(a)
  BY PageIndexType
<1>2. PICK m \in Nat : m = minAddressForPage(i)
  BY <1>1, MinNext
<1>3. minAddressForPage(i + 1) = m + PageSize
  BY <1>1, <1>2, MinNext
<1>4. m <= a /\ a < m + PageSize /\ PageAddress(a) = a - m
  BY <1>1, <1>2, <1>3, PageIndexType
<1> QED
  BY <1>2, <1>4, PagesAssumption DEF Offset

LEMMA StoredAt ==
  ASSUME NEW v \in [PageId -> [Offset -> Byte]], NEW n \in Nat, n <= kMaxEofAddress, NEW b
  PROVE  At(Stored(v, n, b), n) = b /\ Agree(Stored(v, n, b), v, n)
<1>1. PICK i \in PageId : i = PageIndex(n)
  BY PageIndexBound
<1>2. PICK o \in Offset : o = PageAddress(n)
  BY OffsetType
<1>3. PICK u : u = Stored(v, n, b)
  OBVIOUS
<1>4. u = [v EXCEPT ![i][o] = b]
  BY <1>1, <1>2, <1>3 DEF Stored
<1>5. u[i][o] = b
  BY <1>4
<1>6. ASSUME NEW a \in 0 .. n - 1
      PROVE  At(u, a) = At(v, a)
  <2>1. a \in Nat /\ a <= kMaxEofAddress /\ a # n
    BY Constants
  <2>2. PICK j \in PageId : j = PageIndex(a)
    BY <2>1, PageIndexBound
  <2>3. PICK x \in Offset : x = PageAddress(a)
    BY <2>1, OffsetType
  <2>4. i # j \/ o # x
    <3> SUFFICES ASSUME i = j, o = x PROVE FALSE
      OBVIOUS
    <3>1. minAddressForPage(i) \in Nat
      BY <1>1, PageIndexType, MinNext
    <3>2. o = n - minAddressForPage(i)
      BY <1>1, <1>2, PageIndexType
    <3>3. x = a - minAddressForPage(i)
      BY <2>1, <2>2, <2>3, PageIndexType
    <3>4. PICK m \in Nat : m = minAddressForPage(i)
      BY <3>1
    <3>5. n - m = a - m
      BY <3>2, <3>3, <3>4
    <3>6. n = a
      BY <3>5, <2>1
    <3> QED
      BY <3>6, <2>1
  <2>5. u[j][x] = v[j][x]
    <3>1. CASE i # j
      BY <3>1, <1>4
    <3>2. CASE i = j
      <4>1. o # x
        BY <2>4, <3>2
      <4>2. v[i] \in [Offset -> Byte]
        OBVIOUS
      <4>3. u[i] = [v[i] EXCEPT ![o] = b]
        BY <1>4
      <4> QED
        BY <3>2, <4>1, <4>2, <4>3
    <3> QED
      BY <3>1, <3>2
  <2> QED
    BY <2>2, <2>3, <2>5 DEF At
<1> QED
  BY <1>1, <1>2, <1>3, <1>5, <1>6 DEF At, Agree

\* A byte is written at the end.
LEMMA WriteOneOk ==
  ASSUME NEW o, NEW v, OutputOk(o, v), NEW n \in Nat, n = fillSize(o.queue),
         n + 1 <= kMaxEofAddress, NEW b \in Byte
  PROVE  \E u : /\ OutputOk(WriteOne(o, b), u)
                /\ fillSize(WriteOne(o, b).queue) = n + 1
                /\ At(u, n) = b /\ Agree(u, v, n)
                /\ WriteOne(o, b).cursor[OutputPos] = o.cursor[OutputPos]
<1>1. PICK Q : Q = o.queue
  OBVIOUS
<1>2. PICK C \in [{WritePos, OutputPos} -> CursorType] : C = o.cursor
  BY DEF OutputOk
<1>3. PICK k \in Nat : k = C[WritePos].page
  BY <1>2 DEF OutputOk
<1>4. PICK h \in Nat : h = C[OutputPos].page
  BY <1>2 DEF OutputOk
<1>5. /\ v \in [PageId -> [Offset -> Byte]] /\ QueueOk(Q, v) /\ Whole(Q)
      /\ Q.FirstPage # Null /\ ~ Q.EofFrozen
      /\ CursorOk(Q, C[WritePos], FALSE) /\ C[WritePos].addr = n
      /\ CursorOk(Q, C[OutputPos], TRUE) /\ fillSize(Q) = n
  BY <1>1, <1>2 DEF OutputOk
<1>6. n + 1 \in Nat /\ n <= kMaxEofAddress
  BY Constants
<1>7. PICK q : q = writeFill(Q, n + 1)
  OBVIOUS
<1>8. writeFillOk(Q, n + 1)
  BY <1>5, QueueFacts DEF writeFillOk, QueueOk
<1>9. QueueOk(q, v) /\ IsFilled(Q, n + 1, q)
  BY <1>5, <1>6, <1>7, <1>8, FillOk
<1>10. fillSize(q) = n + 1
  <2>1. n < n + 1
    OBVIOUS
  <2> QED
    BY <2>1, <1>5, <1>9 DEF IsFilled
<1>11. /\ q.FirstPage = Q.FirstPage /\ q.EofFrozen = Q.EofFrozen /\ q.dumped = Q.dumped
       /\ Q.LastPage <= q.LastPage
  BY <1>9 DEF IsFilled, SameFront
<1>12. /\ Q.FirstPage \in Nat /\ Q.FirstPage <= k /\ minAddressForPage(k) <= n
       /\ q.LastPage \in Nat /\ WellFormed(q) /\ Q.LastPage \in Nat
  <2>1. OnChain(Q, C[WritePos], FALSE)
    BY <1>3, <1>5 DEF CursorOk
  <2>2. Q.FirstPage \in Nat /\ Q.LastPage \in Nat
    BY <1>5, QueueFacts DEF QueueOk
  <2>3. q.LastPage \in Nat /\ WellFormed(q)
    BY <1>9, QueueFacts DEF QueueOk
  <2> QED
    BY <2>1, <2>2, <2>3, <1>3, <1>5 DEF OnChain
<1>13. PICK p \in Nat : p = PageIndex(n)
  BY PageIndexType
<1>14. PICK held : held = {h, k}
  OBVIOUS
<1>15. p \in k .. q.LastPage /\ getCachedPage(q, held, n) = p
  <2>1. k \in held \cap Nat
    BY <1>14
  <2>2. n <= fillSize(q)
    BY <1>10
  <2> QED
    BY <2>1, <2>2, <1>12, <1>13, FindHeld
<1>16. PICK s : s = Seek(q, {h}, p)
  OBVIOUS
<1>17. QueueOk(s, v) /\ Passed(q, {h} \cup {p}, s)
  BY <1>9, <1>16, SeekOk
<1>18. /\ s.FirstPage # Null /\ s.LastPage = q.LastPage /\ fillSize(s) = n + 1
       /\ s.EofFrozen = Q.EofFrozen
       /\ s.FirstPage <= p /\ (Q.FirstPage <= h => s.FirstPage <= h)
  <2>1. s.FirstPage # Null /\ s.LastPage = q.LastPage /\ s.EofFrozen = Q.EofFrozen
    BY <1>5, <1>11, <1>17 DEF Passed
  <2>2. fillSize(s) = n + 1
    BY <1>10, <1>17 DEF Passed, fillSize, MaxAddress
  <2>3. \A x \in {h, p} : q.FirstPage <= x => s.FirstPage <= x
    BY <2>1, <1>17 DEF Passed
  <2>4. q.FirstPage <= p
    BY <1>11, <1>12, <1>15
  <2> QED
    BY <2>1, <2>2, <2>3, <2>4, <1>11
<1>19. minAddressForPage(p) <= n /\ n < minAddressForPage(p + 1) /\ p <= s.LastPage
       /\ minAddressForPage(p + 1) \in Nat /\ minAddressForPage(p) \in Nat
  BY <1>12, <1>13, <1>15, <1>18, PageIndexType, MinNext
<1>20. PICK r : r = Store(s, p, n, b)
  OBVIOUS
<1>21. PICK u : u = Stored(v, n, b)
  OBVIOUS
<1>22. /\ QueueOk(r, u) /\ u \in [PageId -> [Offset -> Byte]] /\ SameEnds(s, r)
  BY <1>5, <1>17, <1>18, <1>19, <1>20, <1>21, StoreOk
<1>23. /\ r.FirstPage # Null /\ ~ r.EofFrozen /\ fillSize(r) = n + 1 /\ r.LastPage = s.LastPage
       /\ r.FirstPage <= p /\ (Q.FirstPage <= h => r.FirstPage <= h)
  BY <1>5, <1>18, <1>22 DEF SameEnds
<1>24. Whole(r)
  <2>1. Dumpable(Q) /\ Dumpable(q) /\ Dumpable(s)
    BY <1>5, <1>9, <1>17, QueueDumpable
  <2>2. Grows(Q, q)
    BY <2>1, <1>5, <1>11, SameGrows
  <2>3. Grows(q, s) /\ Grows(s, r)
    BY <2>1, <1>16, <1>20, SeekGrows, StoreGrows
  <2> QED
    BY <2>2, <2>3, <1>5 DEF Grows
<1>25. PICK x : x = [page |-> p, addr |-> n + 1, guard |-> Guard(r, p)]
  OBVIOUS
<1>26. CursorOk(r, x, FALSE) /\ x \in CursorType /\ x.page = p /\ x.addr = n + 1
  <2>1. minAddressForPage(p) <= n + 1 /\ n + 1 <= minAddressForPage(p + 1) /\ n + 1 <= fillSize(r)
    BY <1>19, <1>23
  <2>2. p <= r.LastPage
    BY <1>19, <1>23
  <2>3. CursorOk(r, x, FALSE)
    BY <2>1, <2>2, <1>6, <1>22, <1>23, <1>25, CursorPlaced
  <2> QED
    BY <2>3, <1>25 DEF CursorOk
<1>27. CursorOk(r, C[OutputPos], TRUE)
  <2>1. Tracks(Q, {h}, r)
    <3>1. Q.LastPage <= r.LastPage /\ fillSize(Q) <= fillSize(r)
      BY <1>5, <1>11, <1>18, <1>23
    <3> QED
      BY <3>1, <1>5, <1>23 DEF Tracks
  <2> QED
    BY <2>1, <1>4, <1>5, <1>22, CursorStays
<1>28. PICK D : D = [C EXCEPT ![WritePos] = x]
  OBVIOUS
<1>29. WriteOne(o, b) = [queue |-> r, cursor |-> D]
  BY <1>1, <1>2, <1>3, <1>4, <1>5, <1>7, <1>14, <1>15, <1>16, <1>20, <1>25, <1>28
     DEF WriteOne
<1>30. /\ D \in [{WritePos, OutputPos} -> CursorType] /\ D[WritePos] = x
       /\ D[OutputPos] = C[OutputPos]
  BY <1>26, <1>28, PipeAssumption
<1>31. WriteOne(o, b).queue = r /\ WriteOne(o, b).cursor = D
  BY <1>29
<1>32. OutputOk(WriteOne(o, b), u)
  BY <1>4, <1>22, <1>23, <1>24, <1>26, <1>27, <1>30, <1>31 DEF OutputOk
<1>33. At(u, n) = b /\ Agree(u, v, n)
  BY <1>5, <1>6, <1>21, StoredAt
<1> QED
  BY <1>2, <1>23, <1>30, <1>31, <1>32, <1>33

\* What WriteAll computes: the output after each byte.
Outputs(g, o, t, N) ==
  /\ WriteAll(o, t) = g[N] /\ g[0] = o
  /\ \A i \in 0 .. N : i # 0 => g[i] = WriteOne(g[i - 1], t[i])

LEMMA WriteAllIs ==
  ASSUME NEW o, NEW t, NEW N \in Nat, Len(t) = N
  PROVE  \E g : Outputs(g, o, t, N)
<1> DEFINE D(g, n) == g = [i \in 0 .. n |-> IF i = 0 THEN o ELSE WriteOne(g[i - 1], t[i])]
           S == {n \in Nat : ~ \E g : D(g, n)}
<1>1. ASSUME S # {} PROVE FALSE
  <2>1. PICK m \in S : \A n \in S : m <= n
    BY <1>1, LeastNat
  <2>2. m \in Nat /\ ~ \E g : D(g, m)
    BY <2>1
  <2>3. CASE m = 0
    <3> DEFINE g == [i \in 0 .. 0 |-> o]
    <3>1. \A i \in 0 .. 0 : i = 0
      OBVIOUS
    <3>2. D(g, 0)
      BY <3>1
    <3> QED
      BY <2>2, <2>3, <3>2
  <2>4. CASE m # 0
    <3>1. m - 1 \in Nat /\ ~ (m <= m - 1)
      BY <2>2, <2>4
    <3>2. \E h : D(h, m - 1)
      BY <2>1, <3>1
    <3>3. PICK h : D(h, m - 1)
      BY <3>2
    <3> DEFINE g == [i \in 0 .. m |-> IF i = m THEN WriteOne(h[m - 1], t[m]) ELSE h[i]]
    <3>4. \A i \in 0 .. m - 1 : g[i] = h[i]
      BY <2>2
    <3>5. \A i \in 0 .. m - 1 : h[i] = IF i = 0 THEN o ELSE WriteOne(h[i - 1], t[i])
      BY <3>3
    <3>6. ASSUME NEW i \in 0 .. m
          PROVE  g[i] = IF i = 0 THEN o ELSE WriteOne(g[i - 1], t[i])
      <4>1. CASE i = m
        <5>1. g[i] = WriteOne(h[m - 1], t[m])
          BY <4>1
        <5>2. g[m - 1] = h[m - 1]
          BY <3>1, <3>4
        <5> QED
          BY <5>1, <5>2, <4>1, <2>4
      <4>2. CASE i # m
        <5>1. i \in 0 .. m - 1 /\ g[i] = h[i]
          BY <4>2, <2>2, <3>4
        <5>2. i # 0 => g[i - 1] = h[i - 1]
          BY <5>1, <3>4, <2>2
        <5>3. h[i] = IF i = 0 THEN o ELSE WriteOne(h[i - 1], t[i])
          BY <5>1, <3>5
        <5> HIDE DEF g
        <5> QED
          BY <5>1, <5>2, <5>3
      <4> QED
        BY <4>1, <4>2
    <3>7. D(g, m)
      BY <3>6
    <3> QED
      BY <2>2, <3>7
  <2> QED
    BY <2>3, <2>4
<1>2. \E g : D(g, N)
  <2> HIDE DEF D
  <2> QED
    BY <1>1
<1> DEFINE f == CHOOSE g : D(g, N)
<1>3. D(f, N)
  BY <1>2
<1>4. WriteAll(o, t) = f[N]
  BY DEF WriteAll
<1>5. \A i \in 0 .. N : f[i] = IF i = 0 THEN o ELSE WriteOne(f[i - 1], t[i])
  BY <1>3
<1>6. 0 \in 0 .. N
  OBVIOUS
<1> HIDE DEF f
<1>7. Outputs(f, o, t, N)
  BY <1>4, <1>5, <1>6 DEF Outputs
<1> QED
  BY <1>7

\* Bytes are written at the end, one after the other.
Reaches(o, w, n, y) ==
  \E v : /\ OutputOk(o, v) /\ fillSize(o.queue) = n
         /\ Agree(v, w, n) /\ o.cursor[OutputPos] = y

LEMMA WriteAllOk ==
  ASSUME NEW o, NEW w, NEW n \in Nat, NEW y, Reaches(o, w, n, y),
         NEW t, NEW m \in Nat, IsPart(t, n, m, w), n + m <= kMaxEofAddress
  PROVE  Reaches(WriteAll(o, t), w, n + m, y)
<1>1. t \in Seq(Byte) /\ Len(t) = m /\ \A a \in 0 .. m - 1 : t[a + 1] = At(w, n + a)
  BY DEF IsPart
<1>2. PICK g : Outputs(g, o, t, m)
  <2>1. Len(t) = m
    BY <1>1
  <2> QED
    BY <2>1, WriteAllIs
<1> DEFINE P(i) == Reaches(g[i], w, n + i, y)
           S == {i \in Nat : i \in 0 .. m /\ ~ P(i)}
<1>3. ASSUME S # {} PROVE FALSE
  <2>1. PICK j \in S : \A i \in S : j <= i
    BY <1>3, LeastNat
  <2>2. j \in Nat /\ j \in 0 .. m /\ ~ P(j)
    BY <2>1
  <2>3. CASE j = 0
    <3>1. n + 0 = n
      OBVIOUS
    <3>2. P(0)
      BY <3>1, <1>2 DEF Outputs
    <3> QED
      BY <2>2, <2>3, <3>2
  <2>4. CASE j # 0
    <3>1. PICK i \in Nat : i = j - 1
      BY <2>2, <2>4
    <3>2. i \in 0 .. m - 1 /\ i \in 0 .. m /\ i + 1 = j /\ ~ (j <= i) /\ (n + i) + 1 = n + j
          /\ n + i \in Nat /\ i + 1 \in 1 .. m
      BY <3>1, <2>2
    <3>3. P(i)
      BY <2>1, <3>1, <3>2
    <3>4. PICK x : x = g[i]
      OBVIOUS
    <3>5. PICK b : b = t[i + 1]
      OBVIOUS
    <3>6. b = At(w, n + i) /\ b \in Byte
      BY <1>1, <3>2, <3>5
    <3>7. g[j] = WriteOne(x, b)
      BY <1>2, <2>2, <2>4, <3>1, <3>2, <3>4, <3>5 DEF Outputs
    <3>8. PICK k \in Nat : k = n + i
      BY <3>2
    <3>9. PICK v : /\ OutputOk(x, v) /\ fillSize(x.queue) = k
                   /\ Agree(v, w, k) /\ x.cursor[OutputPos] = y
      BY <3>3, <3>4, <3>8 DEF Reaches
    <3>10. k + 1 <= kMaxEofAddress
      BY <3>2, <3>8, <2>2, Constants
    <3>11. PICK u : /\ OutputOk(WriteOne(x, b), u)
                    /\ fillSize(WriteOne(x, b).queue) = k + 1
                    /\ At(u, k) = b /\ Agree(u, v, k)
                    /\ WriteOne(x, b).cursor[OutputPos] = x.cursor[OutputPos]
      BY <3>6, <3>9, <3>10, WriteOneOk
    <3>12. Agree(u, w, k + 1)
      <4>1. ASSUME NEW a \in 0 .. (k + 1) - 1
            PROVE  At(u, a) = At(w, a)
        <5>1. CASE a = k
          BY <5>1, <3>6, <3>8, <3>11
        <5>2. CASE a # k
          <6>1. a \in 0 .. k - 1
            BY <5>2
          <6> QED
            BY <6>1, <3>9, <3>11 DEF Agree
        <5> QED
          BY <5>1, <5>2
      <4> QED
        BY <4>1 DEF Agree
    <3>13. Reaches(WriteOne(x, b), w, k + 1, y)
      BY <3>9, <3>11, <3>12 DEF Reaches
    <3>14. P(j)
      BY <3>2, <3>7, <3>8, <3>13
    <3> QED
      BY <2>2, <3>14
  <2> QED
    BY <2>3, <2>4
<1>4. m \in 0 .. m
  OBVIOUS
<1>5. P(m)
  BY <1>3, <1>4
<1> QED
  BY <1>2, <1>5 DEF Outputs

---------------------------------------------------------------------------
\* The inductive invariant: Output holds exactly what Input has dumped, and
\* what was taken is the beginning of it.

OutNow == [queue |-> output, cursor |-> ocursor]

PipeInv ==
  /\ IInv /\ RoomLeft /\ Whole(queue)
  /\ Reaches(OutNow, written, Through(queue), ocursor[OutputPos])
  /\ IsPart(taken, 0, ocursor[OutputPos].addr, written)
  /\ pipe \in {"made", "destroyed", "WritePos used after its end"}

LEMMA KeepsContract == Contract /\ Readers = {}
BY PipeAssumption DEF Contract

LEMMA PipeInitOk == PipeInit => PipeInv
<1> SUFFICES ASSUME PipeInit PROVE PipeInv
  OBVIOUS
<1>1. Init /\ IInv /\ queue = NewQueue /\ output = NewQueue
  BY InitOk DEF PipeInit, Init
<1>2. /\ queue.FirstPage = 0 /\ queue.LastPage = 0 /\ queue.dumped = << >>
      /\ ~ queue.EofFrozen /\ queue.PageMap[0].max = minAddressForPage(0)
  <2>1. 0 \in PageId
    BY PagesAssumption DEF PageId
  <2> QED
    BY <1>1, <2>1 DEF NewQueue, Page
<1>3. minAddressForPage(0) = 0 /\ minAddressForPage(0 + 1) = PageSize
      /\ PageSize \in Nat /\ PageSize > 2
      /\ kMaxPageIndex \in Nat /\ kMaxPageIndex > 0 /\ Null \notin Nat /\ ErrorPage \notin Nat
  BY PagesAssumption DEF minAddressForPage
<1>4. RoomLeft /\ Whole(queue)
  BY <1>2, <1>3 DEF RoomLeft, Whole
<1>5. fillSize(queue) = 0 /\ Through(queue) = 0
  BY <1>2, <1>3 DEF fillSize, MaxAddress, Through
<1>6. PICK x : x = [page |-> 0, addr |-> 0, guard |-> 0]
  OBVIOUS
<1>7. ocursor \in [{WritePos, OutputPos} -> {x}] /\ ocursor[WritePos] = x /\ ocursor[OutputPos] = x
  BY <1>6 DEF PipeInit
<1>8. x \in CursorType /\ x.page = 0 /\ x.addr = 0 /\ x.guard = 0
  <2>1. 0 \in PageId /\ 0 \in AddressType
    BY <1>3, Constants DEF PageId
  <2> QED
    BY <1>6, <2>1 DEF CursorType
<1>9. \A rd \in BOOLEAN : CursorOk(queue, x, rd)
  BY <1>2, <1>3, <1>5, <1>8 DEF CursorOk, OnChain
<1>10. OutputOk(OutNow, written)
  <2>1. written \in [PageId -> [Offset -> Byte]] /\ QueueOk(queue, written)
    BY <1>1 DEF IInv
  <2>2. ocursor \in [{WritePos, OutputPos} -> CursorType]
    BY <1>7, <1>8
  <2>3. OutNow.queue = queue /\ OutNow.cursor = ocursor
    BY <1>1 DEF OutNow
  <2>4. CursorOk(queue, x, FALSE) /\ CursorOk(queue, x, TRUE)
    BY <1>9
  <2>5. queue.FirstPage # Null /\ x.page \in Nat /\ x.addr = fillSize(queue)
    BY <1>2, <1>3, <1>5, <1>8
  <2> QED
    BY <1>2, <1>4, <1>7, <2>1, <2>2, <2>3, <2>4, <2>5 DEF OutputOk
<1>11. Reaches(OutNow, written, Through(queue), ocursor[OutputPos])
  <2>1. Agree(written, written, 0)
    BY DEF Agree
  <2>2. OutNow.queue = queue /\ OutNow.cursor = ocursor
    BY <1>1 DEF OutNow
  <2> QED
    BY <1>5, <1>10, <2>1, <2>2 DEF Reaches
<1>12. IsPart(taken, 0, ocursor[OutputPos].addr, written)
  BY <1>7, <1>8, Nothing DEF PipeInit
<1>13. pipe = "made"
  BY DEF PipeInit
<1> QED
  BY <1>1, <1>4, <1>11, <1>12, <1>13 DEF PipeInv

---------------------------------------------------------------------------
\* A step of Input.

\* What it dumps follows on what it had dumped, which has not changed since.
Flows(m) ==
  /\ Through(queue') = Through(queue) + m
  /\ IsPart(Dumped(queue, queue'), Through(queue), m, written')

LEMMA InputFlows ==
  ASSUME PipeInv, InputStep
  PROVE  /\ IInv' /\ RoomLeft' /\ Whole(queue') /\ QueueOk(queue', written')
         /\ \E m \in Nat : Flows(m)
         /\ Agree(written, written', Through(queue))
         /\ Through(queue) \in Nat /\ Through(queue') <= kMaxEofAddress
<1>1. OnInput /\ IInv /\ RoomLeft /\ RoomLeft' /\ Whole(queue) /\ Contract /\ Readers = {}
  BY KeepsContract DEF InputStep, OnInput, RoomLeft, PipeInv
<1>2. [Next]_vars
  BY <1>1 DEF OnInput, Next, Cursors
<1>3. IInv'
  BY <1>1, <1>2, NextOk
<1>4. /\ Grows(queue, queue')
      /\ \/ queue' = queue /\ written' = written
         \/ queue.FirstPage # Null /\ queue'.FirstPage # Null
         \/ CloseQueue
  BY <1>1, OnInputGrows
<1>5. QueueOk(queue, written) /\ QueueOk(queue', written')
  BY <1>1, <1>3 DEF IInv
<1>6. Whole(queue')
  BY <1>1, <1>4 DEF Grows
<1>7. /\ Dumpable(queue) /\ DumpOk(queue, written)
      /\ Dumpable(queue') /\ DumpOk(queue', written')
  BY <1>5, QueueDumpable
<1>8. Through(queue) \in Nat /\ IsPart(FlattenSeq(queue.dumped), 0, Through(queue), written)
  BY <1>1, <1>7, DumpedText
<1>9. DumpOk(queue, written')
  <2>1. Len(queue.dumped) \in Nat /\ Len(queue'.dumped) \in Nat
    BY <1>7, DumpableFacts
  <2>2. DumpedRight(queue', written')
    BY <1>7 DEF DumpOk
  <2>3. ASSUME NEW i \in 1 .. Len(queue.dumped), NEW o \in 1 .. Len(queue.dumped[i])
        PROVE  queue.dumped[i][o] = written'[i - 1][o - 1]
    <3>1. i \in 1 .. Len(queue'.dumped) /\ queue'.dumped[i] = queue.dumped[i]
      BY <2>1, <1>4 DEF Grows
    <3> QED
      BY <3>1, <2>2 DEF DumpedRight
  <2>4. DumpedRight(queue, written')
    BY <2>3 DEF DumpedRight
  <2> QED
    BY <2>4, <1>7 DEF DumpOk
<1>10. IsPart(FlattenSeq(queue.dumped), 0, Through(queue), written')
  BY <1>1, <1>9, DumpedText
<1>11. Agree(written, written', Through(queue))
  <2>1. ASSUME NEW a \in 0 .. Through(queue) - 1
        PROVE  At(written, a) = At(written', a)
    <3>1. 0 + a = a
      BY <1>8
    <3>2. FlattenSeq(queue.dumped)[a + 1] = At(written, 0 + a)
      BY <1>8 DEF IsPart
    <3>3. FlattenSeq(queue.dumped)[a + 1] = At(written', 0 + a)
      BY <1>10 DEF IsPart
    <3> QED
      BY <3>1, <3>2, <3>3
  <2> QED
    BY <2>1 DEF Agree
<1>12. PICK k \in Nat : k = Len(queue.dumped)
  BY <1>7, DumpableFacts
<1>13. PICK N \in Nat : k + N = Len(queue'.dumped)
  <2>1. Len(queue'.dumped) \in Nat /\ k <= Len(queue'.dumped)
    BY <1>4, <1>7, <1>12, DumpableFacts DEF Grows
  <2>2. PICK l \in Nat : l = Len(queue'.dumped)
    BY <2>1
  <2>3. l - k \in Nat /\ k + (l - k) = l
    BY <2>1, <2>2
  <2> QED
    BY <2>2, <2>3
<1>14. /\ Through(queue') \in Nat /\ minAddressForPage(k) \in Nat
       /\ minAddressForPage(k) <= Through(queue') \/ N = 0
       /\ N # 0 => IsPart(Dumped(queue, queue'), minAddressForPage(k),
                          Through(queue') - minAddressForPage(k), written')
       /\ N = 0 => Dumped(queue, queue') = << >>
  BY <1>6, <1>7, <1>12, <1>13, DumpedPart DEF Dumped
<1>15. /\ N = 0 => Through(queue') = Through(queue)
       /\ N # 0 => minAddressForPage(k) = Through(queue)
  <2>1. CASE queue' = queue
    <3>1. N = 0
      BY <2>1, <1>12, <1>13
    <3> QED
      BY <3>1, <2>1
  <2>2. CASE queue.FirstPage # Null /\ queue'.FirstPage # Null
    <3>1. queue.FirstPage = k /\ queue'.FirstPage = k + N
      BY <2>2, <1>7, <1>12, <1>13 DEF Dumpable
    <3>2. N = 0 => queue'.FirstPage = queue.FirstPage
      BY <3>1
    <3> QED
      BY <2>2, <3>1, <3>2 DEF Through
  <2>3. CASE CloseQueue
    <3>1. queue.FirstPage # Null /\ queue' = close(queue, Held)
      BY <2>3 DEF CloseQueue, IsClosed
    <3>2. IsClosedOf(queue, queue')
      BY <3>1, <1>1, <1>5, CloseOk DEF RoomLeft
    <3>3. queue.FirstPage = k /\ queue.LastPage \in Nat /\ k <= queue.LastPage
      BY <3>1, <1>7, <1>12, DumpableFacts
    <3>4. Len(queue'.dumped) = queue.LastPage + 1
      BY <3>2, <1>7 DEF IsClosedOf, DumpOk, ClosedOk
    <3>5. N # 0
      BY <3>3, <3>4, <1>13
    <3> QED
      BY <3>1, <3>3, <3>5 DEF Through
  <2> QED
    BY <1>4, <2>1, <2>2, <2>3
<1>16. \E m \in Nat : Flows(m)
  <2>1. CASE N = 0
    <3>1. IsPart(Dumped(queue, queue'), Through(queue), 0, written')
      BY <2>1, <1>14, Nothing
    <3>2. Through(queue') = Through(queue) + 0
      BY <2>1, <1>8, <1>15
    <3> QED
      BY <3>1, <3>2 DEF Flows
  <2>2. CASE N # 0
    <3>1. PICK m \in Nat : m = Through(queue') - minAddressForPage(k)
      BY <1>14, <2>2
    <3>2. Through(queue') = Through(queue) + m
      BY <3>1, <2>2, <1>14, <1>15
    <3>3. IsPart(Dumped(queue, queue'), Through(queue), m, written')
      BY <3>1, <2>2, <1>14, <1>15
    <3> QED
      BY <3>2, <3>3 DEF Flows
  <2> QED
    BY <2>1, <2>2
<1>17. Through(queue') <= kMaxEofAddress
  <2>1. Through(queue') <= fillSize(queue') /\ fillSize(queue') \in Nat
    BY <1>5, <1>6, BytesText
  <2>2. fillSize(queue') <= kMaxEofAddress
    BY <1>5, QueueFacts DEF QueueOk
  <2> QED
    BY <2>1, <2>2, <1>14, Constants
<1> QED
  BY <1>1, <1>3, <1>5, <1>6, <1>8, <1>11, <1>16, <1>17

\* The output follows.
LEMMA InputStepOk ==
  ASSUME PipeInv, InputStep
  PROVE  PipeInv'
<1>1. /\ IInv' /\ RoomLeft' /\ Whole(queue')
      /\ Agree(written, written', Through(queue))
      /\ Through(queue) \in Nat /\ Through(queue') <= kMaxEofAddress
  BY InputFlows
<1>2. PICK m \in Nat : Flows(m)
  BY InputFlows
<1>3. PICK n \in Nat : n = Through(queue)
  BY <1>1
<1>4. PICK y : y = ocursor[OutputPos]
  OBVIOUS
<1>5. PICK t : t = Dumped(queue, queue')
  OBVIOUS
<1>6. PICK o : o = OutNow
  OBVIOUS
<1>7. Through(queue') = n + m /\ IsPart(t, n, m, written')
  BY <1>2, <1>3, <1>5 DEF Flows
<1>8. PICK v : /\ OutputOk(o, v) /\ fillSize(o.queue) = n
               /\ Agree(v, written, n) /\ o.cursor[OutputPos] = y
  BY <1>3, <1>4, <1>6 DEF PipeInv, Reaches
<1>9. Agree(v, written', n)
  BY <1>1, <1>3, <1>8 DEF Agree
<1>10. Reaches(o, written', n, y)
  BY <1>8, <1>9 DEF Reaches
<1>11. PICK w : w = written'
  OBVIOUS
<1>12. Reaches(WriteAll(o, t), w, n + m, y)
  <2>1. n + m <= kMaxEofAddress /\ Reaches(o, w, n, y) /\ IsPart(t, n, m, w)
    BY <1>1, <1>7, <1>10, <1>11
  <2> QED
    BY <2>1, WriteAllOk
<1>13. PICK r : r = WriteAll(o, t)
  OBVIOUS
<1>14. output' = r.queue /\ ocursor' = r.cursor /\ taken' = taken
  BY <1>5, <1>6, <1>13 DEF InputStep, CopyDumped, OutNow
<1>15. OutNow'.queue = r.queue /\ OutNow'.cursor = r.cursor
  BY <1>14 DEF OutNow
<1>16. PICK u : /\ OutputOk(r, u) /\ fillSize(r.queue) = n + m
                /\ Agree(u, w, n + m) /\ r.cursor[OutputPos] = y
  BY <1>12, <1>13 DEF Reaches
<1>17. OutputOk(OutNow', u)
  BY <1>15, <1>16 DEF OutputOk
<1>18. ocursor'[OutputPos] = y
  BY <1>14, <1>16
<1>19. Reaches(OutNow', written', Through(queue'), ocursor'[OutputPos])
  BY <1>7, <1>11, <1>14, <1>15, <1>16, <1>17, <1>18 DEF Reaches
<1>20. IsPart(taken', 0, y.addr, written')
  <2>1. IsPart(taken, 0, y.addr, written)
    BY <1>4 DEF PipeInv
  <2>2. y.addr \in Nat /\ y.addr <= n
    <3>1. OnChain(o.queue, y, TRUE) /\ y \in CursorType
      BY <1>8 DEF OutputOk, CursorOk
    <3> QED
      BY <3>1, <1>8, CursorFacts DEF OnChain
  <2>3. ASSUME NEW a \in 0 .. y.addr - 1
        PROVE  taken[a + 1] = At(written', 0 + a)
    <3>1. a \in 0 .. n - 1 /\ 0 + a = a
      BY <2>2
    <3>2. At(written, a) = At(written', a)
      BY <3>1, <1>1, <1>3 DEF Agree
    <3>3. taken[a + 1] = At(written, 0 + a)
      BY <2>1 DEF IsPart
    <3> QED
      BY <3>1, <3>2, <3>3
  <2> QED
    BY <2>1, <2>3, <1>14 DEF IsPart
<1>21. pipe' \in {"made", "destroyed", "WritePos used after its end"}
  BY DEF PipeInv, InputStep
<1> QED
  BY <1>1, <1>18, <1>19, <1>20, <1>21 DEF PipeInv

---------------------------------------------------------------------------
\* A byte is read from Output.

\* The reader of Output is an instance of Queue, in which the operators on
\* queues are the same.
LEMMA SameIndex == \A a : Out!PageIndex(a) = PageIndex(a)
BY DEF Out!PageIndex, PageIndex

LEMMA SameLive == \A q, held : Out!Live(q, held) = Live(q, held)
BY Zenon DEF Out!Live, Live, Out!Roots, Roots

LEMMA SameCachedPage == \A q, held, a : Out!getCachedPage(q, held, a) = getCachedPage(q, held, a)
BY SameIndex, SameLive
   DEF Out!getCachedPage, getCachedPage, Out!getDefinedPage, getDefinedPage

LEMMA SameFail == \A q, p : Out!FailIfError(q, p) = FailIfError(q, p)
BY Zenon DEF Out!FailIfError, FailIfError, Out!fail, fail

LEMMA SameDump == \A q, h : Out!dumpPreviousPages(q, h) = dumpPreviousPages(q, h)
BY Zenon DEF Out!DumpUpTo, DumpUpTo, Out!PageBytes, PageBytes,
             Out!minAddressForPage, minAddressForPage,
             Out!dumpPreviousPages, dumpPreviousPages, Out!Shared, Shared

LEMMA SameSeek == \A q, o, p : Out!Seek(q, o, p) = Seek(q, o, p)
BY SameFail, SameDump DEF Out!Seek, Seek

LEMMA SameMax == \A q, p : Out!MaxAddress(q, p) = MaxAddress(q, p)
BY Zenon DEF Out!MaxAddress, MaxAddress, kMaxEofAddress, Out!kMaxEofAddress,
             Out!minAddressForPage, minAddressForPage

LEMMA SameGuard == \A q, p : Out!Guard(q, p) = Guard(q, p)
BY Zenon DEF Out!Guard, Guard, Out!Lesser, Lesser, Out!MaxAddress, MaxAddress,
             kMaxEofAddress, Out!kMaxEofAddress, Out!minAddressForPage, minAddressForPage

LEMMA SamePlace == \A q, p, a : Out!Place(q, p, a) = Place(q, p, a)
BY SameGuard DEF Out!Place, Place

LEMMA SamePlus == \A a, b : Out!Plus(a, b) = Plus(a, b)
BY DEF Out!Plus, Plus, Out!AddressSpace, AddressSpace, Out!minAddressForPage, minAddressForPage

LEMMA SameAddressOnPage == \A p, a : Out!AddressOnPage(p, a) = AddressOnPage(p, a)
BY DEF Out!AddressOnPage, AddressOnPage, Out!kErrorPageAddress, kErrorPageAddress,
       kMaxEofAddress, Out!kMaxEofAddress, Out!minAddressForPage, minAddressForPage

LEMMA SameFillSize == \A q : Out!fillSize(q) = fillSize(q)
BY Zenon DEF Out!fillSize, fillSize, Out!MaxAddress, MaxAddress, kMaxEofAddress,
             Out!kMaxEofAddress, Out!minAddressForPage, minAddressForPage

\* The pages on which the cursors on Output are.
LEMMA OutputHeld ==
  ASSUME ocursor[WritePos].page # Null, ocursor[OutputPos].page # Null
  PROVE  /\ Out!Held = {ocursor[OutputPos].page, ocursor[WritePos].page}
         /\ Out!HeldBut(OutputPos) = {ocursor[WritePos].page}
<1>1. Out!Cursors = {WritePos, OutputPos}
  BY DEF Out!Cursors
<1> QED
  BY <1>1, PipeAssumption DEF Out!Held, Out!HeldBut

\* The two ways to read: on another page, or on the same.
Moves(x, h) ==
  LET p == getCachedPage(output, {x.page, h}, x.addr)
      q == Seek(output, {h}, p)
  IN  /\ output' = q
      /\ ocursor' = [ocursor EXCEPT ![OutputPos] =
           [Place(q, p, AddressOnPage(p, x.addr)) EXCEPT !.addr = Plus(@, 1)]]

Stays(x) ==
  /\ x.addr < x.guard \/ x.addr # MaxAddress(output, x.page)
  /\ output' = output
  /\ ocursor' = [ocursor EXCEPT ![OutputPos] =
       [page  |-> x.page, addr |-> Plus(x.addr, 1),
        guard |-> IF x.addr < x.guard THEN x.guard ELSE Guard(output, x.page)]]

LEMMA MovesOrStays ==
  ASSUME NEW x, x = ocursor[OutputPos], NEW h, h = ocursor[WritePos].page,
         x.page # Null, h # Null, x.addr \in Nat, x.guard \in Nat,
         ocursor \in [{WritePos, OutputPos} -> CursorType],
         x.addr < output.Eof, ReadOutput
  PROVE  Moves(x, h) \/ Stays(x)
<1>1. Out!ReadByte(OutputPos) /\ x.addr < fillSize(output)
  BY DEF ReadOutput
<1>2. Out!Held = {x.page, h} /\ Out!HeldBut(OutputPos) = {h}
  BY OutputHeld
<1>3. Out!isIndexAtEndOfPage(OutputPos) <=> x.addr = MaxAddress(output, x.page)
  BY SameMax DEF Out!isIndexAtEndOfPage
<1>4. Out!CanReadFill(OutputPos)
  BY <1>1, SameFillSize DEF Out!CanReadFill, Out!readFill
<1>5. CASE x.addr >= x.guard /\ x.addr = MaxAddress(output, x.page)
  <2>1. Out!readFromPage(OutputPos, 1)
    BY <1>1, <1>3, <1>4, <1>5 DEF Out!ReadByte
  <2>2. Moves(x, h)
    BY <2>1, <1>2, SameCachedPage, SameSeek, SamePlace, SamePlus, SameAddressOnPage
       DEF Out!readFromPage, Moves
  <2> QED
    BY <2>2
<1>6. CASE ~ (x.addr >= x.guard /\ x.addr = MaxAddress(output, x.page))
  <2>1. /\ ocursor' = [ocursor EXCEPT ![OutputPos] =
             [page  |-> x.page, addr |-> Out!Plus(x.addr, 1),
              guard |-> IF x.addr < x.guard THEN x.guard ELSE Out!Guard(output, x.page)]]
        /\ output' = output
    BY <1>1, <1>3, <1>6 DEF Out!ReadByte
  <2>2. x.addr < x.guard \/ x.addr # MaxAddress(output, x.page)
    BY <1>6
  <2> QED
    BY <2>1, <2>2, SameGuard, SamePlus DEF Stays
<1> QED
  BY <1>5, <1>6

\* Either way the reader is on the page of the byte, and behind it.
IsRead(v, n, x) ==
  /\ QueueOk(output', v) /\ Whole(output') /\ output'.FirstPage # Null
  /\ ~ output'.EofFrozen /\ fillSize(output') = n
  /\ \E y : /\ ocursor' = [ocursor EXCEPT ![OutputPos] = y]
            /\ CursorOk(output', y, TRUE)
            /\ y.page = PageIndex(x.addr) /\ y.addr = x.addr + 1
  /\ CursorOk(output', ocursor[WritePos], FALSE)

LEMMA MovesOk ==
  ASSUME NEW v, OutputOk(OutNow, v), NEW n \in Nat, n = fillSize(output),
         NEW x, x = ocursor[OutputPos], NEW h, h = ocursor[WritePos].page,
         x.addr < n, Moves(x, h)
  PROVE  IsRead(v, n, x)
<1>1. /\ QueueOk(output, v) /\ Whole(output) /\ output.FirstPage # Null /\ ~ output.EofFrozen
      /\ CursorOk(output, x, TRUE) /\ CursorOk(output, ocursor[WritePos], FALSE)
      /\ h \in Nat /\ x.page \in Nat
  BY DEF OutputOk, OutNow
<1>2. /\ x \in CursorType /\ OnChain(output, x, TRUE) /\ x.addr \in Nat
      /\ minAddressForPage(x.page) \in Nat
  BY <1>1, CursorFacts DEF CursorOk
<1>3. PICK a \in Nat : a = x.addr
  BY <1>2
<1>4. PICK p : p = PageIndex(a)
  OBVIOUS
<1>5. PICK held : held = {x.page, h}
  OBVIOUS
<1>6. PICK k \in Nat : k = x.page
  BY <1>1
<1>7. /\ k <= output.LastPage /\ output.FirstPage <= k /\ minAddressForPage(k) <= a
      /\ output.FirstPage \in Nat /\ output.LastPage \in Nat /\ WellFormed(output)
      /\ n <= kMaxEofAddress
  BY <1>1, <1>2, <1>3, <1>6, QueueFacts DEF OnChain, QueueOk
<1>8. p \in k .. output.LastPage /\ getCachedPage(output, held, a) = p
  <2>1. k \in held \cap Nat /\ a <= fillSize(output)
    BY <1>3, <1>5, <1>6
  <2> QED
    BY <2>1, <1>4, <1>7, FindHeld
<1>9. /\ p \in Nat /\ p # ErrorPage /\ minAddressForPage(p) <= a
      /\ a < minAddressForPage(p + 1)
      /\ minAddressForPage(p) \in Nat /\ minAddressForPage(p + 1) \in Nat
  BY <1>4, PageIndexType, MinNext, PagesAssumption
<1>10. Plus(a, 1) = a + 1 /\ AddressOnPage(p, a) = a
  <2>1. a + 1 < AddressSpace
    BY <1>3, <1>7, Constants, PagesAssumption
  <2> QED
    BY <2>1, <1>9, PlusType DEF AddressOnPage
<1>11. PICK q : q = Seek(output, {h}, p)
  OBVIOUS
<1>12. PICK y : y = [page |-> p, addr |-> a + 1, guard |-> Guard(q, p)]
  OBVIOUS
<1>13. output' = q /\ ocursor' = [ocursor EXCEPT ![OutputPos] = y]
  <2>1. [Place(q, p, a) EXCEPT !.addr = Plus(@, 1)] = y
    BY <1>10, <1>12 DEF Place
  <2> QED
    BY <2>1, <1>3, <1>5, <1>8, <1>10, <1>11 DEF Moves
<1>14. QueueOk(q, v) /\ Passed(output, {h} \cup {p}, q)
  BY <1>1, <1>9, <1>11, SeekOk
<1>15. /\ fillSize(q) = n /\ q.LastPage = output.LastPage /\ q.FirstPage # Null
       /\ ~ q.EofFrozen
  BY <1>1, <1>14 DEF Passed, fillSize, MaxAddress
<1>16. /\ q.FirstPage <= p
       /\ output.FirstPage <= h => q.FirstPage <= h
  <2>1. output.FirstPage <= p
    BY <1>7, <1>8
  <2> QED
    BY <2>1, <1>1, <1>9, <1>14, <1>15 DEF Passed
<1>17. CursorOk(q, y, TRUE)
  <2>1. /\ a + 1 \in Nat /\ minAddressForPage(p) <= a + 1
        /\ a + 1 <= minAddressForPage(p + 1)
    BY <1>9
  <2>2. p <= q.LastPage /\ a + 1 <= fillSize(q)
    BY <1>3, <1>8, <1>15
  <2> QED
    BY <2>1, <2>2, <1>9, <1>12, <1>14, <1>16, CursorPlaced
<1>18. CursorOk(q, ocursor[WritePos], FALSE)
  <2>1. Tracks(output, {h}, q)
    BY <1>1, <1>7, <1>15, <1>16 DEF Tracks
  <2> QED
    BY <2>1, <1>1, <1>14, CursorStays
<1>19. Whole(q)
  <2>1. Dumpable(output)
    BY <1>1, QueueDumpable
  <2>2. Grows(output, q)
    BY <2>1, <1>11, SeekGrows
  <2> QED
    BY <2>2, <1>1 DEF Grows
<1>20. /\ ocursor' = [ocursor EXCEPT ![OutputPos] = y] /\ CursorOk(output', y, TRUE)
       /\ y.page = PageIndex(x.addr) /\ y.addr = x.addr + 1
  BY <1>3, <1>4, <1>12, <1>13, <1>17
<1>21. QueueOk(output', v) /\ Whole(output') /\ CursorOk(output', ocursor[WritePos], FALSE)
  BY <1>13, <1>14, <1>18, <1>19
<1>22. output'.FirstPage # Null /\ ~ output'.EofFrozen /\ fillSize(output') = n
  BY <1>13, <1>15
<1> QED
  BY <1>20, <1>21, <1>22 DEF IsRead

LEMMA StaysOk ==
  ASSUME NEW v, OutputOk(OutNow, v), NEW n \in Nat, n = fillSize(output),
         NEW x, x = ocursor[OutputPos], x.addr < n, Stays(x)
  PROVE  IsRead(v, n, x)
<1>1. /\ QueueOk(output, v) /\ Whole(output) /\ output.FirstPage # Null /\ ~ output.EofFrozen
      /\ CursorOk(output, x, TRUE) /\ CursorOk(output, ocursor[WritePos], FALSE)
      /\ x.page \in Nat
  BY DEF OutputOk, OutNow
<1>2. PICK k \in Nat : k = x.page
  BY <1>1
<1>3. PICK a \in Nat : a = x.addr
  BY <1>1, CursorFacts DEF CursorOk
<1>4. PICK g \in Nat : g = x.guard
  BY <1>1, CursorFacts DEF CursorOk
<1>5. /\ k <= output.LastPage /\ output.FirstPage <= k /\ minAddressForPage(k) <= a
      /\ g <= minAddressForPage(k + 1) /\ g <= n
      /\ output.FirstPage \in Nat /\ output.LastPage \in Nat /\ WellFormed(output)
      /\ n <= kMaxEofAddress
      /\ minAddressForPage(k) \in Nat /\ minAddressForPage(k + 1) \in Nat
      /\ a <= minAddressForPage(k + 1) /\ x \in CursorType
  BY <1>1, <1>2, <1>3, <1>4, QueueFacts, MinNext DEF CursorOk, OnChain, QueueOk
<1>6. PICK e \in Nat : e = MaxAddress(output, k)
  BY <1>5, MaxWithin
<1>7. /\ e <= minAddressForPage(k + 1) /\ e <= n
      /\ k # output.LastPage => e = minAddressForPage(k + 1)
      /\ k = output.LastPage => e = n
  BY <1>5, <1>6, MaxWithin
<1>8. a < e
  <2>1. CASE a < g
    BY <2>1, <1>5, <1>7
  <2>2. CASE ~ (a < g)
    <3>1. a # e
      BY <2>2, <1>2, <1>3, <1>4, <1>6 DEF Stays
    <3> QED
      BY <3>1, <1>3, <1>5, <1>7
  <2> QED
    BY <2>1, <2>2
<1>9. k = PageIndex(a) /\ a + 1 <= minAddressForPage(k + 1) /\ a + 1 <= n
  <2>1. a < minAddressForPage(k + 1)
    BY <1>5, <1>7, <1>8
  <2>2. PageIndex(a) = k
    BY <2>1, <1>5, PageIndexUnique
  <2> QED
    BY <2>1, <2>2, <1>5, <1>7, <1>8
<1>10. Plus(a, 1) = a + 1
  <2>1. a + 1 < AddressSpace
    BY <1>3, <1>5, Constants, PagesAssumption
  <2> QED
    BY <2>1, PlusType
<1>11. PICK b : b = IF a < g THEN g ELSE Guard(output, k)
  OBVIOUS
<1>12. PICK y : y = [page |-> k, addr |-> a + 1, guard |-> b]
  OBVIOUS
<1>13. output' = output /\ ocursor' = [ocursor EXCEPT ![OutputPos] = y]
  BY <1>2, <1>3, <1>4, <1>10, <1>11, <1>12 DEF Stays
<1>14. CursorOk(output, [page |-> k, addr |-> a + 1, guard |-> Guard(output, k)], TRUE)
  <2>1. a + 1 \in Nat /\ minAddressForPage(k) <= a + 1
    BY <1>5
  <2> QED
    BY <2>1, <1>1, <1>5, <1>9, CursorPlaced
<1>15. CursorOk(output, y, TRUE)
  <2>1. CASE a < g
    <3>1. y = [page |-> k, addr |-> a + 1, guard |-> g]
      BY <2>1, <1>11, <1>12
    <3>2. g \in AddressType
      BY <1>4, <1>5, CursorFacts
    <3> QED
      BY <3>1, <3>2, <1>5, <1>14 DEF CursorOk, CursorType, OnChain
  <2>2. CASE ~ (a < g)
    BY <2>2, <1>11, <1>12, <1>14
  <2> QED
    BY <2>1, <2>2
<1>16. /\ ocursor' = [ocursor EXCEPT ![OutputPos] = y] /\ CursorOk(output', y, TRUE)
       /\ y.page = PageIndex(x.addr) /\ y.addr = x.addr + 1
  BY <1>3, <1>9, <1>12, <1>13, <1>15
<1>17. QueueOk(output', v) /\ Whole(output') /\ CursorOk(output', ocursor[WritePos], FALSE)
  BY <1>1, <1>13
<1>18. output'.FirstPage # Null /\ ~ output'.EofFrozen /\ fillSize(output') = n
  BY <1>1, <1>13
<1> QED
  BY <1>16, <1>17, <1>18 DEF IsRead

\* The byte that is taken is the one at the reader's address.
LEMMA OutputRead ==
  ASSUME NEW v, OutputOk(OutNow, v), ReadOutput
  PROVE  /\ OutputOk(OutNow', v) /\ fillSize(output') = fillSize(output)
         /\ ocursor[OutputPos].addr \in Nat
         /\ ocursor[OutputPos].addr < fillSize(output)
         /\ ocursor'[OutputPos].addr = ocursor[OutputPos].addr + 1
         /\ taken' = Append(taken, At(v, ocursor[OutputPos].addr))
         /\ At(v, ocursor[OutputPos].addr) \in Byte
<1>1. /\ QueueOk(output, v) /\ v \in [PageId -> [Offset -> Byte]]
      /\ ocursor \in [{WritePos, OutputPos} -> CursorType]
      /\ ocursor[OutputPos].page \in Nat /\ ocursor[WritePos].page \in Nat
      /\ ocursor[WritePos].addr = fillSize(output)
      /\ ~ output.EofFrozen
  BY DEF OutputOk, OutNow
<1>2. PICK x : x = ocursor[OutputPos]
  OBVIOUS
<1>3. PICK h : h = ocursor[WritePos].page
  OBVIOUS
<1>4. PICK n \in Nat : n = fillSize(output)
  BY <1>1, QueueFacts DEF QueueOk
<1>5. PICK a \in Nat : a = x.addr
  BY <1>1, <1>2, CursorFacts
<1>6. x.guard \in Nat
  BY <1>1, <1>2, CursorFacts
<1>7. a < n
  BY <1>2, <1>4, <1>5 DEF ReadOutput
<1>8. a < output.Eof /\ a < kMaxEofAddress
  <2>1. n <= kMaxEofAddress
    BY <1>1, <1>4, QueueFacts DEF QueueOk
  <2>2. output.Eof = kMaxEofAddress
    BY <1>1 DEF QueueOk, EofOk
  <2> QED
    BY <2>1, <2>2, <1>7, Constants
<1>9. x.page # Null /\ h # Null
  BY <1>1, <1>2, <1>3, PagesAssumption
<1>10. Moves(x, h) \/ Stays(x)
  BY <1>1, <1>2, <1>3, <1>5, <1>6, <1>8, <1>9, MovesOrStays
<1>11. IsRead(v, n, x)
  BY <1>2, <1>3, <1>4, <1>5, <1>7, <1>10, MovesOk, StaysOk
<1>12. PICK y : /\ ocursor' = [ocursor EXCEPT ![OutputPos] = y]
                /\ CursorOk(output', y, TRUE)
                /\ y.page = PageIndex(a) /\ y.addr = a + 1
  BY <1>5, <1>11 DEF IsRead
<1>13. PICK p \in PageId : p = PageIndex(a)
  <2>1. a <= kMaxEofAddress
    BY <1>8, Constants
  <2> QED
    BY <2>1, PageIndexBound
<1>14. p \in Nat
  BY <1>13, PageIndexType
<1>15. y \in CursorType /\ y.page \in Nat
  BY <1>12, <1>13, <1>14 DEF CursorOk
<1>16. /\ ocursor'[OutputPos] = y /\ ocursor'[WritePos] = ocursor[WritePos]
       /\ ocursor' \in [{WritePos, OutputPos} -> CursorType]
  BY <1>1, <1>12, <1>15, PipeAssumption
<1>17. OutputOk(OutNow', v)
  <2>1. OutNow'.queue = output' /\ OutNow'.cursor = ocursor'
    BY DEF OutNow
  <2> QED
    BY <2>1, <1>1, <1>4, <1>11, <1>12, <1>15, <1>16 DEF OutputOk, IsRead
<1>18. output'.PageMap[p].buf = v[p] /\ MinAddress(output', p) = minAddressForPage(p)
  <2>1. QueueOk(output', v) /\ output'.FirstPage # Null
    BY <1>11 DEF IsRead
  <2>2. OnChain(output', y, TRUE)
    BY <1>12, <1>15 DEF CursorOk
  <2>3. p \in output'.FirstPage .. output'.LastPage /\ p \in 0 .. output'.LastPage
        /\ WellFormed(output')
    BY <2>1, <2>2, <1>12, <1>13, <1>14, QueueFacts DEF OnChain, QueueOk
  <2>4. output'.PageMap[p].buf = v[p]
    BY <2>1, <2>3 DEF QueueOk, Kept
  <2>5. p # ErrorPage /\ p \in 0 .. output'.size - 1
    BY <2>3, MaxWithin
  <2>6. output'.PageMap[p].index = p
    BY <2>3, <2>5 DEF WellFormed
  <2> QED
    BY <2>4, <2>5, <2>6 DEF MinAddress
<1>19. a - minAddressForPage(p) = PageAddress(a)
  BY <1>13, PageIndexType
<1>20. taken' = Append(taken, At(v, a))
  <2>1. taken' = Append(taken, output'.PageMap[p].buf[a - MinAddress(output', p)])
    BY <1>2, <1>5, <1>12, <1>13, <1>16 DEF ReadOutput
  <2> QED
    BY <2>1, <1>13, <1>18, <1>19 DEF At
<1>21. At(v, a) \in Byte
  BY <1>1, <1>13, OffsetType DEF At
<1>22. fillSize(output') = n
  BY <1>11 DEF IsRead
<1> QED
  BY <1>2, <1>4, <1>5, <1>7, <1>12, <1>16, <1>17, <1>20, <1>21, <1>22

LEMMA ReadOutputOk ==
  ASSUME PipeInv, ReadOutput
  PROVE  PipeInv'
<1>1. PICK n \in Nat : n = Through(queue)
  <2>1. DumpOk(queue, written) /\ Whole(queue)
    BY QueueDumpable DEF PipeInv, IInv
  <2> QED
    BY <2>1, DumpedText
<1>2. PICK v : OutputOk(OutNow, v) /\ fillSize(output) = n /\ Agree(v, written, n)
  BY <1>1 DEF PipeInv, Reaches, OutNow
<1>3. PICK a \in Nat : a = ocursor[OutputPos].addr
  BY <1>2, OutputRead
<1>4. PICK b \in Byte : b = At(v, a)
  BY <1>2, <1>3, OutputRead
<1>5. /\ OutputOk(OutNow', v) /\ fillSize(output') = n /\ a < n
      /\ ocursor'[OutputPos].addr = a + 1 /\ taken' = Append(taken, b)
  BY <1>2, <1>3, <1>4, OutputRead
<1>6. queue' = queue /\ cursor' = cursor /\ written' = written /\ pipe' = pipe
  BY DEF ReadOutput
<1>7. b = At(written, a)
  <2>1. a \in 0 .. n - 1
    BY <1>5
  <2> QED
    BY <2>1, <1>2, <1>4 DEF Agree
<1>8. IInv' /\ RoomLeft' /\ Whole(queue')
  BY <1>6 DEF PipeInv, IInv, RoomLeft
<1>9. Reaches(OutNow', written', Through(queue'), ocursor'[OutputPos])
  <2>1. fillSize(OutNow'.queue) = n /\ OutNow'.cursor[OutputPos] = ocursor'[OutputPos]
    BY <1>5 DEF OutNow
  <2> QED
    BY <2>1, <1>1, <1>2, <1>5, <1>6 DEF Reaches
<1>10. IsPart(taken', 0, a + 1, written')
  <2>1. IsPart(taken, 0, a, written)
    BY <1>3 DEF PipeInv
  <2>2. IsPart(<< b >>, 0 + a, 1, written)
    <3>1. ASSUME NEW i \in 0 .. 1 - 1
          PROVE  << b >>[i + 1] = At(written, (0 + a) + i)
      <4>1. i = 0 /\ (0 + a) + i = a
        OBVIOUS
      <4> QED
        BY <4>1, <1>7
    <3>2. << b >> \in Seq(Byte) /\ Len(<< b >>) = 1
      OBVIOUS
    <3> QED
      BY <3>1, <3>2 DEF IsPart
  <2>3. IsPart(taken \o << b >>, 0, a + 1, written)
    BY <2>1, <2>2, Joined
  <2>4. taken' = taken \o << b >>
    <3>1. PICK t \in Seq(Byte) : t = taken
      BY <2>1 DEF IsPart
    <3>2. Append(t, b) = t \o << b >>
      OBVIOUS
    <3> QED
      BY <3>1, <3>2, <1>5
  <2> QED
    BY <2>3, <2>4, <1>6
<1>11. pipe' \in {"made", "destroyed", "WritePos used after its end"}
  BY <1>6 DEF PipeInv
<1> QED
  BY <1>5, <1>8, <1>9, <1>10, <1>11 DEF PipeInv

LEMMA PipeNextOk ==
  ASSUME PipeInv, [PipeNext]_pvars
  PROVE  PipeInv'
<1>1. CASE InputStep
  BY <1>1, InputStepOk
<1>2. CASE ReadOutput
  BY <1>2, ReadOutputOk
<1>3. ASSUME queue' = queue, cursor' = cursor, written' = written, output' = output,
             ocursor' = ocursor, taken' = taken,
             pipe' \in {"made", "destroyed", "WritePos used after its end"}
      PROVE  PipeInv'
  <2>1. IInv' /\ RoomLeft' /\ Whole(queue')
    BY <1>3 DEF PipeInv, IInv, RoomLeft
  <2>2. OutNow' = OutNow
    BY <1>3 DEF OutNow
  <2>3. Reaches(OutNow', written', Through(queue'), ocursor'[OutputPos])
    BY <1>3, <2>2 DEF PipeInv
  <2>4. IsPart(taken', 0, ocursor'[OutputPos].addr, written')
    BY <1>3 DEF PipeInv
  <2> QED
    BY <1>3, <2>1, <2>3, <2>4 DEF PipeInv
<1>4. CASE Destroy
  BY <1>3, <1>4 DEF Destroy
<1>5. CASE UNCHANGED pvars
  BY <1>3, <1>5 DEF pvars, PipeInv
<1> QED
  BY <1>1, <1>2, <1>4, <1>5 DEF PipeNext

LEMMA PipeInvariant == PipeSpec => []PipeInv
<1>1. PipeInit => PipeInv
  BY PipeInitOk
<1>2. PipeInv /\ [PipeNext]_pvars => PipeInv'
  BY PipeNextOk
<1> QED
  BY <1>1, <1>2, PTL DEF PipeSpec

---------------------------------------------------------------------------
\* The theorems.

\* What an output in good order holds.
LEMMA OutputText ==
  ASSUME PipeInv
  PROVE  \E v : /\ OutputOk(OutNow, v) /\ fillSize(output) = Through(queue)
                /\ Agree(v, written, Through(queue))
                /\ Through(queue) \in Nat
                /\ IsPart(Bytes(output), 0, Through(queue), v)
<1>1. PICK v : /\ OutputOk(OutNow, v) /\ fillSize(output) = Through(queue)
               /\ Agree(v, written, Through(queue))
  BY DEF PipeInv, Reaches, OutNow
<1>2. QueueOk(output, v) /\ Whole(output)
  BY <1>1 DEF OutputOk, OutNow
<1>3. fillSize(output) \in Nat /\ IsPart(Bytes(output), 0, fillSize(output), v)
  BY <1>2, BytesText
<1> QED
  BY <1>1, <1>3

\* The variables keep their types, on Input and on Output: what comes out of
\* the pipe is bytes, and no cursor leaves the addresses.
THEOREM PipeTypes == PipeSpec => []PipeTypeOK
<1>1. PipeInv => PipeTypeOK
  <2> SUFFICES ASSUME PipeInv PROVE PipeTypeOK
    OBVIOUS
  <2>1. TypeOK
    BY DEF PipeInv, IInv, TypeOK, QueueOk, WellFormed
  <2>2. PICK v : OutputOk(OutNow, v)
    BY OutputText
  <2>3. output \in QueueType /\ ocursor \in [{WritePos, OutputPos} -> CursorType]
    BY <2>2 DEF OutputOk, OutNow, QueueOk, WellFormed
  <2>4. taken \in Seq(Byte)
    BY DEF PipeInv, IsPart
  <2> QED
    BY <2>1, <2>3, <2>4 DEF PipeTypeOK, PipeInv
<1> QED
  BY <1>1, PipeInvariant, PTL

\* What some write cursor may still go back to (the size of a block, at the
\* cursor that was saved in front of it) has not reached the reader.
THEOREM BlocksHeldBackHolds == PipeSpec => []BlocksHeldBack
<1>1. PipeInv => BlocksHeldBack
  <2> SUFFICES ASSUME PipeInv, ~ IsClosed, NEW c \in Writers, cursor[c].page \in Nat
               PROVE  Len(Bytes(output)) <= cursor[c].addr
    BY DEF BlocksHeldBack
  <2>1. Len(Bytes(output)) = minAddressForPage(queue.FirstPage)
    BY OutputText DEF IsPart, Through, IsClosed
  <2>2. QueueOk(queue, written) /\ queue.FirstPage # Null
    BY DEF PipeInv, IInv, IsClosed
  <2>3. CursorOk(queue, cursor[c], c \in Readers)
    BY DEF PipeInv, IInv, Cursors
  <2>4. /\ queue.FirstPage \in Nat /\ queue.FirstPage <= cursor[c].page
        /\ minAddressForPage(cursor[c].page) <= cursor[c].addr
        /\ cursor[c].addr \in Nat
    BY <2>2, <2>3, QueueFacts, CursorFacts DEF QueueOk, CursorOk, OnChain
  <2>5. minAddressForPage(queue.FirstPage) <= minAddressForPage(cursor[c].page)
    BY <2>4, MinMonotone
  <2>6. minAddressForPage(queue.FirstPage) \in Nat /\ minAddressForPage(cursor[c].page) \in Nat
    BY <2>4, MinNext
  <2> QED
    BY <2>1, <2>4, <2>5, <2>6
<1> QED
  BY <1>1, PipeInvariant, PTL

---------------------------------------------------------------------------
\* The pipe implements the channel.

\* Two texts from address 0 on that agree.
LEMMA PrefixOf ==
  ASSUME NEW t, NEW u, NEW m \in Nat, NEW n \in Nat, m <= n, NEW v, NEW w,
         IsPart(t, 0, m, v), IsPart(u, 0, n, w), Agree(v, w, m)
  PROVE  Channel!IsPrefix(t, u) /\ (m = n => t = u)
<1>1. t \in Seq(Byte) /\ Len(t) = m /\ u \in Seq(Byte) /\ Len(u) = n
  BY DEF IsPart
<1>2. ASSUME NEW i \in 1 .. m
      PROVE  t[i] = u[i]
  <2>1. PICK a \in 0 .. m - 1 : a + 1 = i /\ 0 + a = a /\ a \in 0 .. n - 1
    <3>1. i - 1 \in 0 .. m - 1 /\ (i - 1) + 1 = i /\ 0 + (i - 1) = i - 1
          /\ i - 1 \in 0 .. n - 1
      OBVIOUS
    <3> QED
      BY <3>1
  <2>2. t[a + 1] = At(v, 0 + a) /\ u[a + 1] = At(w, 0 + a)
    BY <2>1 DEF IsPart
  <2>3. At(v, a) = At(w, a)
    BY <2>1 DEF Agree
  <2> QED
    BY <2>1, <2>2, <2>3
<1>3. SubSeq(t, 1, m) = SubSeq(u, 1, m)
  <2>1. PICK r \in Seq(Byte) : r = SubSeq(t, 1, m)
    BY <1>1
  <2>2. PICK s \in Seq(Byte) : s = SubSeq(u, 1, m)
    <3>1. \A i \in 1 .. m : i \in 1 .. n
      OBVIOUS
    <3>2. SubSeq(u, 1, m) \in Seq(Byte)
      BY <3>1, <1>1, SubSeqProperties
    <3> QED
      BY <3>2
  <2>3. Len(r) = m /\ Len(s) = m
    BY <2>1, <2>2, <1>1
  <2>4. \A i \in 1 .. m : r[i] = t[i] /\ s[i] = u[i]
    BY <2>1, <2>2, <1>1
  <2>5. \A i \in 1 .. m : r[i] = s[i]
    BY <2>4, <1>2
  <2> QED
    BY <2>1, <2>2, <2>3, <2>5, SeqEqual
<1>4. Channel!IsPrefix(t, u)
  BY <1>1, <1>3 DEF Channel!IsPrefix
<1>5. ASSUME m = n PROVE t = u
  <2>1. \A i \in 1 .. m : t[i] = u[i]
    BY <1>2
  <2> QED
    BY <2>1, <1>1, <1>5, SeqEqual
<1> QED
  BY <1>4, <1>5

\* The text of an output.
LEMMA TextOf ==
  ASSUME NEW o, NEW w, NEW n, NEW y, Reaches(o, w, n, y)
  PROVE  \E v : n \in Nat /\ IsPart(Bytes(o.queue), 0, n, v) /\ Agree(v, w, n)
<1>1. PICK v : OutputOk(o, v) /\ fillSize(o.queue) = n /\ Agree(v, w, n)
  BY DEF Reaches
<1>2. QueueOk(o.queue, v) /\ Whole(o.queue)
  BY <1>1 DEF OutputOk
<1>3. fillSize(o.queue) \in Nat /\ IsPart(Bytes(o.queue), 0, fillSize(o.queue), v)
  BY <1>2, BytesText
<1> QED
  BY <1>1, <1>3

\* A step of Input puts bytes into the channel, or closes it.
LEMMA InputChannel ==
  ASSUME PipeInv, InputStep
  PROVE  Channel!Next \/ UNCHANGED Channel!vars
<1>1. PICK n \in Nat : n = Through(queue)
  BY InputFlows
<1>2. PICK m \in Nat : Flows(m)
  BY InputFlows
<1>3. /\ Agree(written, written', n) /\ QueueOk(queue', written') /\ Whole(queue')
      /\ Through(queue') = n + m /\ taken' = taken
  BY <1>1, <1>2, InputFlows DEF Flows, InputStep
<1>4. QueueOk(queue, written) /\ Whole(queue) /\ RoomLeft
  BY DEF PipeInv, IInv
<1>5. PICK f \in Nat : f = fillSize(queue) /\ n <= f /\ IsPart(Bytes(queue), 0, f, written)
  BY <1>1, <1>4, BytesText
<1>6. PICK g \in Nat :
        /\ g = fillSize(queue') /\ n + m <= g /\ IsPart(Bytes(queue'), 0, g, written')
        /\ queue'.FirstPage = Null => n + m = g
  BY <1>3, BytesText
<1>7. PICK v : IsPart(Bytes(output), 0, n, v) /\ Agree(v, written, n)
  <2>1. Reaches(OutNow, written, n, ocursor[OutputPos]) /\ OutNow.queue = output
    BY <1>1 DEF PipeInv, OutNow
  <2> QED
    BY <2>1, TextOf
<1>8. PICK u : IsPart(Bytes(output'), 0, n + m, u) /\ Agree(u, written', n + m)
  <2>1. PipeInv'
    BY InputStepOk
  <2>2. Reaches(OutNow', written', n + m, ocursor'[OutputPos]) /\ OutNow'.queue = output'
    BY <2>1, <1>3 DEF PipeInv, OutNow
  <2> QED
    BY <2>2, TextOf
<1>9. Agree(v, u, n)
  <2>1. ASSUME NEW a \in 0 .. n - 1
        PROVE  At(v, a) = At(u, a)
    <3>1. a \in 0 .. (n + m) - 1
      OBVIOUS
    <3> QED
      BY <3>1, <1>3, <1>7, <1>8 DEF Agree
  <2> QED
    BY <2>1 DEF Agree
<1>10. n <= n + m /\ n + m \in Nat
  OBVIOUS
<1>11. Channel!IsPrefix(Bytes(output), Bytes(output')) /\ (n = n + m => Bytes(output) = Bytes(output'))
  BY <1>7, <1>8, <1>9, <1>10, PrefixOf
<1>12. Channel!IsPrefix(Bytes(output'), Bytes(queue')) /\ (n + m = g => Bytes(output') = Bytes(queue'))
  BY <1>6, <1>8, <1>10, PrefixOf
<1>13. Channel!IsPrefix(Bytes(output), Bytes(queue))
  BY <1>5, <1>7, PrefixOf
<1>14. \/ queue' = queue /\ written' = written
       \/ queue.FirstPage # Null /\ queue'.FirstPage # Null
       \/ CloseQueue
  <2>1. OnInput /\ IInv /\ RoomLeft /\ RoomLeft' /\ Contract /\ Readers = {}
    BY KeepsContract DEF InputStep, OnInput, RoomLeft, PipeInv
  <2> QED
    BY <2>1, OnInputGrows
<1>15. CASE queue' = queue /\ written' = written
  <2>1. n + m = n
    BY <1>1, <1>3, <1>15
  <2>2. Bytes(output') = Bytes(output)
    BY <1>11, <2>1
  <2>3. Bytes(queue') = Bytes(queue) /\ (IsClosed' <=> IsClosed)
    BY <1>15 DEF IsClosed
  <2>4. UNCHANGED Channel!vars
    BY <2>2, <2>3, <1>3 DEF Channel!vars, IsClosed
  <2> QED
    BY <2>4
<1>16. CASE queue.FirstPage # Null /\ queue'.FirstPage # Null
  <2>1. ~ IsClosed /\ ~ IsClosed'
    BY <1>16 DEF IsClosed
  <2>2. Channel!Put
    BY <2>1, <1>3, <1>11, <1>12 DEF Channel!Put
  <2> QED
    BY <2>2 DEF Channel!Next
<1>17. CASE CloseQueue
  <2>1. queue.FirstPage # Null /\ queue' = close(queue, Held) /\ written' = written
    BY <1>17 DEF CloseQueue, IsClosed
  <2>2. queue'.FirstPage = Null /\ fillSize(queue') = fillSize(queue)
    BY <2>1, <1>4, CloseOk DEF RoomLeft, IsClosedOf
  <2>3. ~ IsClosed /\ IsClosed'
    BY <2>1, <2>2 DEF IsClosed
  <2>4. Bytes(queue') = Bytes(queue)
    <3>1. f = g
      BY <1>5, <1>6, <2>2
    <3>2. Agree(written, written', f)
      BY <2>1 DEF Agree
    <3>3. IsPart(Bytes(queue'), 0, f, written')
      BY <3>1, <1>6
    <3>4. f <= f
      OBVIOUS
    <3>5. f = f => Bytes(queue) = Bytes(queue')
      BY <3>2, <3>3, <3>4, <1>5, PrefixOf
    <3> QED
      BY <3>5
  <2>5. Bytes(output') = Bytes(queue)
    BY <2>2, <2>4, <1>6, <1>12
  <2>6. Channel!Close
    BY <2>3, <2>4, <2>5, <1>3, <1>13 DEF Channel!Close
  <2> QED
    BY <2>6 DEF Channel!Next
<1> QED
  BY <1>14, <1>15, <1>16, <1>17

\* Reading takes the next byte.
LEMMA ReadChannel ==
  ASSUME PipeInv, ReadOutput
  PROVE  Channel!Next
<1>1. PICK n \in Nat : n = Through(queue)
  BY OutputText
<1>2. PICK v : /\ OutputOk(OutNow, v) /\ fillSize(output) = n
               /\ IsPart(Bytes(output), 0, n, v)
  BY <1>1, OutputText
<1>3. PICK a \in Nat : a = ocursor[OutputPos].addr
  BY <1>2, OutputRead
<1>4. /\ OutputOk(OutNow', v) /\ fillSize(output') = n /\ a < n
      /\ taken' = Append(taken, At(v, a))
  BY <1>2, <1>3, OutputRead
<1>5. queue' = queue
  BY DEF ReadOutput
<1>6. IsPart(Bytes(output'), 0, n, v)
  <2>1. QueueOk(output', v) /\ Whole(output')
    BY <1>4 DEF OutputOk, OutNow
  <2> QED
    BY <2>1, <1>4, BytesText
<1>7. Bytes(output') = Bytes(output)
  <2>1. Agree(v, v, n)
    BY DEF Agree
  <2> QED
    BY <2>1, <1>2, <1>6, PrefixOf
<1>8. Len(taken) = a /\ Len(Bytes(output)) = n
  BY <1>2, <1>3 DEF PipeInv, IsPart
<1>9. Bytes(output)[a + 1] = At(v, a)
  <2>1. a \in 0 .. n - 1 /\ 0 + a = a
    BY <1>4
  <2>2. Bytes(output)[a + 1] = At(v, 0 + a)
    BY <2>1, <1>2 DEF IsPart
  <2> QED
    BY <2>1, <2>2
<1>10. Channel!Take
  BY <1>4, <1>5, <1>7, <1>8, <1>9 DEF Channel!Take, IsClosed
<1> QED
  BY <1>10 DEF Channel!Next

\* A pipe is a byte channel: every step of it is a step of the channel, or
\* changes nothing that the channel shows.
THEOREM IsChannelHolds == PipeSpec => IsChannel
<1>1. PipeInit => Channel!Init
  <2> SUFFICES ASSUME PipeInit PROVE Channel!Init
    OBVIOUS
  <2>1. PipeInv /\ output = queue /\ taken = << >>
    BY PipeInitOk DEF PipeInit, Init
  <2>2. queue = NewQueue
    BY DEF PipeInit, Init
  <2>3. QueueOk(queue, written) /\ Whole(queue) /\ queue.FirstPage = 0
    BY <2>1, <2>2 DEF PipeInv, IInv, NewQueue
  <2>4. queue.FirstPage # Null /\ Through(queue) = 0
    BY <2>3, PagesAssumption DEF Through, minAddressForPage
  <2>5. Len(Bytes(output)) = 0 /\ Bytes(output) \in Seq(Byte)
    BY <2>1, <2>4, OutputText DEF IsPart
  <2>6. Bytes(queue) = << >> /\ Bytes(output) = << >>
    BY <2>1, <2>5
  <2> QED
    BY <2>1, <2>4, <2>6 DEF Channel!Init, IsClosed
<1>2. PipeInv /\ [PipeNext]_pvars => [Channel!Next]_Channel!vars
  <2> SUFFICES ASSUME PipeInv, [PipeNext]_pvars PROVE Channel!Next \/ UNCHANGED Channel!vars
    OBVIOUS
  <2>1. CASE InputStep
    BY <2>1, InputChannel
  <2>2. CASE ReadOutput
    BY <2>2, ReadChannel
  <2>3. ASSUME queue' = queue, output' = output, taken' = taken
        PROVE  UNCHANGED Channel!vars
    BY <2>3 DEF Channel!vars, IsClosed
  <2>4. CASE Destroy
    BY <2>3, <2>4 DEF Destroy
  <2>5. CASE UNCHANGED pvars
    BY <2>3, <2>5 DEF pvars
  <2> QED
    BY <2>1, <2>2, <2>4, <2>5 DEF PipeNext
<1> QED
  BY <1>1, <1>2, PipeInvariant, PTL DEF PipeSpec, IsChannel, Channel!Spec
=============================================================================
