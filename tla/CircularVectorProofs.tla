------------------------ MODULE CircularVectorProofs ------------------------
(***************************************************************************)
(* Each operation of CircularVector does to the sequence of the elements   *)
(* what its name says, whatever the bounded size, the values and the place *)
(* of the start, and never reaches past the contents.  This is what lets   *)
(* Compress speak of the buffer as of a sequence.                          *)
(***************************************************************************)
EXTENDS CircularVector, SequenceTheorems, TLAPS

\* A vector that can hold something, between two operations.
Vectors(S) ==
  UNION {[contents : [0 .. max - 1 -> S], vector_max_size : {max},
          start_index : 0 .. max - 1, vector_size : 0 .. max] : max \in Nat \ {0}}

\* What the fields of a vector are.
LEMMA Fields ==
  ASSUME NEW S, NEW cv \in Vectors(S)
  PROVE  /\ cv = [contents |-> cv.contents, vector_max_size |-> cv.vector_max_size,
                  start_index |-> cv.start_index, vector_size |-> cv.vector_size]
         /\ cv.vector_max_size \in Nat \ {0}
         /\ cv.contents \in [0 .. cv.vector_max_size - 1 -> S]
         /\ cv.start_index \in 0 .. cv.vector_max_size - 1
         /\ cv.vector_size \in 0 .. cv.vector_max_size
BY DEF Vectors

\* The converse: fields like these make a vector.
LEMMA IsVector ==
  ASSUME NEW S, NEW max \in Nat \ {0}, NEW c \in [0 .. max - 1 -> S],
         NEW start \in 0 .. max - 1, NEW size \in 0 .. max
  PROVE  [contents |-> c, vector_max_size |-> max, start_index |-> start,
          vector_size |-> size] \in Vectors(S)
BY DEF Vectors

\* The start plus an index goes round at most once.
LEMMA GoesRound ==
  ASSUME NEW m \in Nat \ {0}, NEW s \in 0 .. m - 1, NEW i \in 0 .. m
  PROVE  (s + i) % m = IF s + i < m THEN s + i ELSE s + i - m
<1>1. PICK a \in 0 .. m + m - 1 : a = s + i
  OBVIOUS
<1>2. a % m = IF a < m THEN a ELSE a - m
  OBVIOUS
<1> QED
  BY <1>1, <1>2

\* contents.at does not throw.
THEOREM IndexWithin ==
  ASSUME NEW S, NEW cv \in Vectors(S), NEW n \in 0 .. cv.vector_max_size
  PROVE  get_index(cv, n) \in 0 .. cv.vector_max_size - 1
<1> DEFINE m == cv.vector_max_size  s == cv.start_index
<1>1. m \in Nat \ {0} /\ s \in 0 .. m - 1 /\ n \in 0 .. m
  BY Fields
<1> HIDE DEF m, s
<1>2. (s + n) % m = IF s + n < m THEN s + n ELSE s + n - m
  BY <1>1, GoesRound
<1>3. (s + n) % m \in 0 .. m - 1
  BY <1>1, <1>2
<1> QED
  BY <1>3 DEF get_index, m, s

\* The elements are a sequence, each at its place in the contents.
LEMMA ElementsShape ==
  ASSUME NEW S, NEW cv \in Vectors(S)
  PROVE  /\ Elements(cv) \in Seq(S)
         /\ Len(Elements(cv)) = cv.vector_size
         /\ \A i \in 1 .. cv.vector_size :
              Elements(cv)[i] = cv.contents[get_index(cv, i - 1)]
<1>1. cv.vector_size \in Nat /\ cv.vector_size <= cv.vector_max_size
      /\ cv.vector_max_size \in Nat
  BY Fields
<1>2. \A i \in 1 .. cv.vector_size : cv.contents[get_index(cv, i - 1)] \in S
  <2> TAKE i \in 1 .. cv.vector_size
  <2>1. i - 1 \in 0 .. cv.vector_max_size
    BY <1>1
  <2> QED
    BY <2>1, IndexWithin, Fields
<1>3. Elements(cv) = [i \in 1 .. cv.vector_size |-> cv.contents[get_index(cv, i - 1)]]
  BY DEF Elements, at
<1> QED
  BY <1>1, <1>2, <1>3

\* What has the fields of a vector is one, and these are its elements.
LEMMA ElementsOf ==
  ASSUME NEW S, NEW cv,
         cv = [contents |-> cv.contents, vector_max_size |-> cv.vector_max_size,
               start_index |-> cv.start_index, vector_size |-> cv.vector_size],
         cv.vector_max_size \in Nat \ {0},
         cv.contents \in [0 .. cv.vector_max_size - 1 -> S],
         cv.start_index \in 0 .. cv.vector_max_size - 1,
         cv.vector_size \in 0 .. cv.vector_max_size,
         NEW seq \in Seq(S), Len(seq) = cv.vector_size,
         \A i \in 1 .. cv.vector_size :
           seq[i] = cv.contents[(cv.start_index + (i - 1)) % cv.vector_max_size]
  PROVE  cv \in Vectors(S) /\ Elements(cv) = seq
<1>1. cv \in Vectors(S)
  BY IsVector
<1>2. \A i \in 1 .. cv.vector_size :
        Elements(cv)[i] = cv.contents[(cv.start_index + (i - 1)) % cv.vector_max_size]
  BY <1>1, ElementsShape DEF get_index
<1>3. Elements(cv) \in Seq(S) /\ Len(Elements(cv)) = Len(seq)
  BY <1>1, ElementsShape
<1>4. \A i \in 1 .. Len(seq) : Elements(cv)[i] = seq[i]
  BY <1>2
<1>5. Elements(cv) = seq
  BY <1>3, <1>4, SeqEqual
<1> QED
  BY <1>1, <1>5

\* Two indices below the bound are two places.
LEMMA PlacesDiffer ==
  ASSUME NEW m \in Nat \ {0}, NEW s \in 0 .. m - 1, NEW i \in 0 .. m - 1,
         NEW j \in 0 .. m - 1, i # j
  PROVE  (s + i) % m # (s + j) % m
<1>1. i \in 0 .. m /\ j \in 0 .. m
  OBVIOUS
<1>2. (s + i) % m = IF s + i < m THEN s + i ELSE s + i - m
  BY <1>1, GoesRound
<1>3. (s + j) % m = IF s + j < m THEN s + j ELSE s + j - m
  BY <1>1, GoesRound
<1> QED
  BY <1>2, <1>3

\* The places of the elements, seen from the next start and the one before.
LEMMA FromNextStart ==
  ASSUME NEW m \in Nat \ {0}, NEW s \in 0 .. m - 1, NEW i \in 0 .. m - 1
  PROVE  /\ (s + 1) % m \in 0 .. m - 1
         /\ (((s + 1) % m) + i) % m = (s + (i + 1)) % m
<1>0. 1 \in 0 .. m /\ i \in 0 .. m /\ i + 1 \in 0 .. m
  OBVIOUS
<1>1. (s + 1) % m = IF s + 1 < m THEN s + 1 ELSE s + 1 - m
  BY <1>0, GoesRound
<1>2. (s + (i + 1)) % m = IF s + (i + 1) < m THEN s + (i + 1) ELSE s + (i + 1) - m
  BY <1>0, GoesRound
<1>3. PICK t : t = (s + 1) % m
  OBVIOUS
<1>4. t \in 0 .. m - 1
  BY <1>1, <1>3
<1>5. (t + i) % m = IF t + i < m THEN t + i ELSE t + i - m
  BY <1>0, <1>4, GoesRound
<1>6. CASE s + 1 < m
  <2>1. t = s + 1
    BY <1>1, <1>3, <1>6
  <2> QED
    BY <1>3, <1>4, <2>1
<1>7. CASE ~(s + 1 < m)
  <2>1. t = 0 /\ s + 1 = m
    BY <1>1, <1>3, <1>7
  <2>2. (t + i) % m = i
    BY <1>5, <2>1
  <2>3. (s + (i + 1)) % m = i
    BY <1>2, <2>1
  <2> QED
    BY <1>3, <1>4, <2>2, <2>3
<1> QED
  BY <1>6, <1>7

\* The same for dec_start_index.
LEMMA FromLastStart ==
  ASSUME NEW m \in Nat \ {0}, NEW s \in 0 .. m - 1, NEW i \in 0 .. m - 1,
         NEW t, t = IF s = 0 THEN m - 1 ELSE s - 1
  PROVE  t \in 0 .. m - 1 /\ (t + (i + 1)) % m = (s + i) % m
<1>1. t \in 0 .. m - 1 /\ 1 \in 0 .. m
  OBVIOUS
<1>2. (t + 1) % m = IF t + 1 < m THEN t + 1 ELSE t + 1 - m
  BY <1>1, GoesRound
<1>3. (t + 1) % m = s
  BY <1>2
<1> QED
  BY <1>1, <1>3, FromNextStart

---------------------------------------------------------------------------
\* at(n), front() and back(): what the sequence has there.
THEOREM AtIsElement ==
  ASSUME NEW S, NEW cv \in Vectors(S), NEW n \in 0 .. cv.vector_size - 1
  PROVE  /\ at(cv, n) = Elements(cv)[n + 1]
         /\ front(cv) = Head(Elements(cv))
         /\ back(cv) = Elements(cv)[Len(Elements(cv))]
<1>1. cv.vector_size \in Nat
  BY Fields
<1>2. \A k \in 0 .. cv.vector_size - 1 : at(cv, k) = Elements(cv)[k + 1]
  <2> TAKE k \in 0 .. cv.vector_size - 1
  <2>1. k + 1 \in 1 .. cv.vector_size /\ (k + 1) - 1 = k
    BY <1>1
  <2> QED
    BY <2>1, ElementsShape DEF at
<1>3. 0 \in 0 .. cv.vector_size - 1 /\ cv.vector_size - 1 \in 0 .. cv.vector_size - 1
      /\ (cv.vector_size - 1) + 1 = cv.vector_size
  BY <1>1
<1>4. Len(Elements(cv)) = cv.vector_size /\ Elements(cv) \in Seq(S)
  BY ElementsShape
<1>5. Head(Elements(cv)) = Elements(cv)[1]
  BY <1>1, <1>4, HeadTailProperties
<1> QED
  BY <1>2, <1>3, <1>4, <1>5 DEF front, back

\* The constructor: no elements.
THEOREM NewIsEmpty ==
  ASSUME NEW S, NEW T \in S, NEW max \in Nat \ {0}
  PROVE  /\ circular_vector(T, max) \in Vectors(S)
         /\ Elements(circular_vector(T, max)) = << >>
         /\ max_size(circular_vector(T, max)) = max
<1>1. prefill(T, max) \in [0 .. max - 1 -> S]
  BY DEF prefill
<1>2. 0 \in 0 .. max - 1 /\ 0 \in 0 .. max
  OBVIOUS
<1>3. << >> \in Seq(S) /\ Len(<< >>) = 0
  BY EmptySeq
<1>4. PICK c : c = prefill(T, max)
  OBVIOUS
<1>5. \A i \in 1 .. 0 : << >>[i] = c[(0 + (i - 1)) % max]
  OBVIOUS
<1>6. PICK cv : cv = circular_vector(T, max)
  OBVIOUS
<1>7. cv = [contents |-> c, vector_max_size |-> max, start_index |-> 0, vector_size |-> 0]
  BY <1>4, <1>6 DEF circular_vector
<1>8. cv \in Vectors(S) /\ Elements(cv) = << >>
  <2>1. /\ cv = [contents |-> cv.contents, vector_max_size |-> cv.vector_max_size,
              start_index |-> cv.start_index, vector_size |-> cv.vector_size]
        /\ cv.vector_max_size \in Nat \ {0}
        /\ cv.contents \in [0 .. cv.vector_max_size - 1 -> S]
        /\ cv.start_index \in 0 .. cv.vector_max_size - 1
        /\ cv.vector_size \in 0 .. cv.vector_max_size
        /\ << >> \in Seq(S) /\ Len(<< >>) = cv.vector_size
    BY <1>1, <1>2, <1>3, <1>4, <1>5, <1>7
  <2>2. \A i \in 1 .. cv.vector_size :
          << >>[i] = cv.contents[(cv.start_index + (i - 1)) % cv.vector_max_size]
    BY <1>1, <1>2, <1>3, <1>4, <1>5, <1>7
  <2> QED
    BY <2>1, <2>2, ElementsOf, Zenon
<1> QED
  BY <1>6, <1>7, <1>8 DEF max_size

\* empty() and full() tell how many elements there are.
THEOREM EmptyAndFull ==
  ASSUME NEW S, NEW cv \in Vectors(S)
  PROVE  /\ empty(cv) <=> Elements(cv) = << >>
         /\ full(cv) <=> Len(Elements(cv)) = max_size(cv)
         /\ Len(Elements(cv)) <= max_size(cv)
<1>1. /\ cv.vector_size \in Nat /\ cv.vector_max_size \in Nat
      /\ cv.vector_size <= cv.vector_max_size
  BY Fields
<1>2. Elements(cv) \in Seq(S) /\ Len(Elements(cv)) = cv.vector_size
  BY ElementsShape
<1>3. Elements(cv) = << >> <=> Len(Elements(cv)) = 0
  BY <1>2, EmptySeq
<1> QED
  BY <1>1, <1>2, <1>3 DEF empty, full, max_size

\* push_back: the value behind the elements; if there is no room, the first
\* element goes.
THEOREM PushBackAppends ==
  ASSUME NEW S, NEW cv \in Vectors(S), NEW v \in S
  PROVE  /\ push_back(cv, v) \in Vectors(S)
         /\ Elements(push_back(cv, v)) =
              IF full(cv) THEN Append(Tail(Elements(cv)), v)
              ELSE Append(Elements(cv), v)
<1> DEFINE m == cv.vector_max_size  s == cv.start_index  n == cv.vector_size
           c == cv.contents  e == Elements(cv)
<1>1. /\ cv = [contents |-> c, vector_max_size |-> m, start_index |-> s, vector_size |-> n]
      /\ m \in Nat \ {0} /\ c \in [0 .. m - 1 -> S] /\ s \in 0 .. m - 1 /\ n \in 0 .. m
  BY Fields
<1>2. /\ e \in Seq(S) /\ Len(e) = n
      /\ \A i \in 1 .. n : e[i] = c[(s + (i - 1)) % m]
  BY ElementsShape DEF get_index
<1>3. \A i \in 0 .. m : (s + i) % m \in 0 .. m - 1
  BY IndexWithin DEF get_index
<1>0. /\ cv.contents = c /\ cv.vector_max_size = m /\ cv.start_index = s
      /\ cv.vector_size = n /\ Elements(cv) = e
  OBVIOUS
<1> HIDE DEF m, s, n, c, e
<1>4. CASE n # m
  <2> DEFINE k == (s + n) % m
  <2>1. push_back(cv, v) = [contents |-> [c EXCEPT ![k] = v], vector_max_size |-> m,
                            start_index |-> s, vector_size |-> n + 1]
    BY <1>0, <1>1, <1>4 DEF push_back, full, SetAt, Grown, get_index
  <2>2. n + 1 \in 0 .. m /\ n \in 0 .. m - 1
    BY <1>1, <1>4
  <2>3. [c EXCEPT ![k] = v] \in [0 .. m - 1 -> S]
    BY <1>1
  <2>4. Append(e, v) \in Seq(S) /\ Len(Append(e, v)) = n + 1
    BY <1>2
  <2>5. \A i \in 1 .. n + 1 : Append(e, v)[i] = [c EXCEPT ![k] = v][(s + (i - 1)) % m]
    <3> TAKE i \in 1 .. n + 1
    <3>1. CASE i = n + 1
      <4>1. Append(e, v)[i] = v
        BY <1>2, <3>1
      <4>2. i - 1 = n /\ k \in 0 .. m - 1
        BY <1>1, <1>3, <3>1
      <4> QED
        BY <1>1, <4>1, <4>2
    <3>2. CASE i # n + 1
      <4>1. i \in 1 .. n /\ i - 1 \in 0 .. m - 1 /\ i - 1 # n
        BY <1>1, <3>2
      <4>2. Append(e, v)[i] = e[i]
        BY <1>2, <4>1
      <4>3. (s + (i - 1)) % m # k /\ (s + (i - 1)) % m \in 0 .. m - 1
        <5>1. (s + (i - 1)) % m # k
          BY <1>1, <2>2, <4>1, PlacesDiffer, Zenon
        <5>2. i - 1 \in 0 .. m
          BY <1>1, <4>1
        <5> QED
          BY <1>3, <5>1, <5>2, Zenon
      <4> QED
        BY <1>1, <1>2, <4>1, <4>2, <4>3
    <3> QED
      BY <3>1, <3>2
  <2> HIDE DEF k
  <2>6. PICK w : w = push_back(cv, v)
    OBVIOUS
  <2>7. w \in Vectors(S) /\ Elements(w) = Append(e, v)
    <3>1. /\ w = [contents |-> w.contents, vector_max_size |-> w.vector_max_size,
                start_index |-> w.start_index, vector_size |-> w.vector_size]
          /\ w.vector_max_size \in Nat \ {0}
          /\ w.contents \in [0 .. w.vector_max_size - 1 -> S]
          /\ w.start_index \in 0 .. w.vector_max_size - 1
          /\ w.vector_size \in 0 .. w.vector_max_size
          /\ Append(e, v) \in Seq(S) /\ Len(Append(e, v)) = w.vector_size
      BY <1>1, <2>1, <2>2, <2>3, <2>4, <2>5, <2>6
    <3>2. /\ w.contents = [c EXCEPT ![k] = v] /\ w.start_index = s
          /\ w.vector_max_size = m /\ w.vector_size = n + 1
      BY <2>1, <2>6
    <3>3. \A i \in 1 .. w.vector_size :
            Append(e, v)[i] = w.contents[(w.start_index + (i - 1)) % w.vector_max_size]
      BY <2>5, <3>2, Zenon
    <3> QED
      BY <3>1, <3>3, ElementsOf, Zenon
  <2> QED
    BY <1>0, <1>4, <2>6, <2>7 DEF full
<1>5. CASE n = m
  <2> DEFINE t == (s + 1) % m
  <2>1. (s + 0) % m = s /\ s + 0 = s
    <3>1. 0 \in 0 .. m /\ s + 0 = s /\ s < m
      BY <1>1
    <3>2. (s + 0) % m = IF s + 0 < m THEN s + 0 ELSE s + 0 - m
      BY <1>1, <3>1, GoesRound, Zenon
    <3> QED
      BY <3>1, <3>2
  <2>2. push_back(cv, v) = [contents |-> [c EXCEPT ![s] = v], vector_max_size |-> m,
                            start_index |-> t, vector_size |-> n]
    BY <1>0, <1>1, <1>5, <2>1 DEF push_back, full, SetAt, inc_start_index, get_index
  <2>3. t \in 0 .. m - 1 /\ [c EXCEPT ![s] = v] \in [0 .. m - 1 -> S]
    BY <1>1, <1>3
  <2>4. /\ Tail(e) \in Seq(S) /\ Len(Tail(e)) = n - 1
        /\ \A i \in 1 .. n - 1 : Tail(e)[i] = e[i + 1]
    BY <1>1, <1>2, <1>5, HeadTailProperties
  <2>5. Append(Tail(e), v) \in Seq(S) /\ Len(Append(Tail(e), v)) = n
    BY <1>1, <1>5, <2>4
  <2>6. \A i \in 1 .. n : Append(Tail(e), v)[i] = [c EXCEPT ![s] = v][(t + (i - 1)) % m]
    <3> TAKE i \in 1 .. n
    <3>0. i - 1 \in 0 .. m - 1 /\ (i - 1) + 1 = i
      BY <1>1, <1>5
    <3>1. (t + (i - 1)) % m = (s + i) % m
      BY <1>1, <3>0, FromNextStart
    <3>2. CASE i = n
      <4>1. Append(Tail(e), v)[i] = v
        BY <1>1, <2>4, <3>2
      <4>2. (s + i) % m = s
        BY <1>1, <1>5, <3>2, GoesRound
      <4> QED
        BY <1>1, <3>1, <4>1, <4>2
    <3>3. CASE i # n
      <4>1. i \in 1 .. n - 1 /\ i + 1 \in 1 .. n /\ i \in 0 .. m - 1 /\ (i + 1) - 1 = i
        BY <1>1, <1>5, <3>3
      <4>2. Append(Tail(e), v)[i] = e[i + 1]
        BY <1>1, <2>4, <4>1
      <4>3. (s + i) % m # s /\ (s + i) % m \in 0 .. m - 1
        <5>1. 0 \in 0 .. m - 1 /\ i # 0 /\ i \in 0 .. m
          BY <1>1, <4>1
        <5>2. (s + i) % m # (s + 0) % m
          BY <1>1, <4>1, <5>1, PlacesDiffer, Zenon
        <5> QED
          BY <1>3, <2>1, <5>1, <5>2, Zenon
      <4>4. e[i + 1] = c[(s + i) % m]
        BY <1>2, <4>1
      <4> QED
        BY <1>1, <3>1, <4>2, <4>3, <4>4
    <3> QED
      BY <3>2, <3>3
  <2> HIDE DEF t
  <2>7. PICK w : w = push_back(cv, v)
    OBVIOUS
  <2>8. w \in Vectors(S) /\ Elements(w) = Append(Tail(e), v)
    <3>1. /\ w = [contents |-> w.contents, vector_max_size |-> w.vector_max_size,
                start_index |-> w.start_index, vector_size |-> w.vector_size]
          /\ w.vector_max_size \in Nat \ {0}
          /\ w.contents \in [0 .. w.vector_max_size - 1 -> S]
          /\ w.start_index \in 0 .. w.vector_max_size - 1
          /\ w.vector_size \in 0 .. w.vector_max_size
          /\ Append(Tail(e), v) \in Seq(S) /\ Len(Append(Tail(e), v)) = w.vector_size
      BY <1>1, <2>2, <2>3, <2>5, <2>6, <2>7
    <3>2. /\ w.contents = [c EXCEPT ![s] = v] /\ w.start_index = t
          /\ w.vector_max_size = m /\ w.vector_size = n
      BY <2>2, <2>7
    <3>3. \A i \in 1 .. w.vector_size :
            Append(Tail(e), v)[i] = w.contents[(w.start_index + (i - 1)) % w.vector_max_size]
      BY <2>6, <3>2, Zenon
    <3> QED
      BY <3>1, <3>3, ElementsOf, Zenon
  <2> QED
    BY <1>0, <1>5, <2>7, <2>8 DEF full
<1> QED
  BY <1>4, <1>5

\* pop_front: the first element goes.
THEOREM PopFrontIsTail ==
  ASSUME NEW S, NEW cv \in Vectors(S), ~empty(cv)
  PROVE  /\ pop_front(cv) \in Vectors(S)
         /\ Elements(pop_front(cv)) = Tail(Elements(cv))
<1> DEFINE m == cv.vector_max_size  s == cv.start_index  n == cv.vector_size
           c == cv.contents  e == Elements(cv)
<1>1. /\ cv = [contents |-> c, vector_max_size |-> m, start_index |-> s, vector_size |-> n]
      /\ m \in Nat \ {0} /\ c \in [0 .. m - 1 -> S] /\ s \in 0 .. m - 1 /\ n \in 0 .. m
  BY Fields
<1>2. /\ e \in Seq(S) /\ Len(e) = n
      /\ \A i \in 1 .. n : e[i] = c[(s + (i - 1)) % m]
  BY ElementsShape DEF get_index
<1>3. /\ cv.contents = c /\ cv.vector_max_size = m /\ cv.start_index = s
      /\ cv.vector_size = n /\ Elements(cv) = e
  OBVIOUS
<1> HIDE DEF m, s, n, c, e
<1>4. n # 0
  BY <1>3 DEF empty
<1> DEFINE t == (s + 1) % m
<1>5. pop_front(cv) = [contents |-> c, vector_max_size |-> m, start_index |-> t,
                       vector_size |-> n - 1]
  <2>1. Shrunk(cv) = [contents |-> c, vector_max_size |-> m, start_index |-> s,
                      vector_size |-> n - 1]
    BY <1>1 DEF Shrunk
  <2>2. PICK d : d = Shrunk(cv)
    OBVIOUS
  <2>3. inc_start_index(d) = [contents |-> c, vector_max_size |-> m, start_index |-> t,
                              vector_size |-> n - 1]
    BY <2>1, <2>2 DEF inc_start_index
  <2> QED
    BY <2>2, <2>3 DEF pop_front
<1>6. t \in 0 .. m - 1
  <2>1. 0 \in 0 .. m - 1
    BY <1>1
  <2> QED
    BY <1>1, <2>1, FromNextStart
<1>7. /\ Tail(e) \in Seq(S) /\ Len(Tail(e)) = n - 1 /\ n - 1 \in 0 .. m
      /\ \A i \in 1 .. n - 1 : Tail(e)[i] = e[i + 1]
  BY <1>1, <1>2, <1>4, HeadTailProperties
<1>8. \A i \in 1 .. n - 1 : Tail(e)[i] = c[(t + (i - 1)) % m]
  <2> TAKE i \in 1 .. n - 1
  <2>1. i - 1 \in 0 .. m - 1 /\ (i - 1) + 1 = i /\ i + 1 \in 1 .. n /\ (i + 1) - 1 = i
    BY <1>1
  <2>2. (t + (i - 1)) % m = (s + i) % m
    BY <1>1, <2>1, FromNextStart
  <2>3. e[i + 1] = c[(s + i) % m]
    BY <1>2, <2>1
  <2> QED
    BY <1>7, <2>2, <2>3
<1> HIDE DEF t
<1>9. PICK w : w = pop_front(cv)
  OBVIOUS
<1>10. w \in Vectors(S) /\ Elements(w) = Tail(e)
  <2>1. /\ w = [contents |-> w.contents, vector_max_size |-> w.vector_max_size,
              start_index |-> w.start_index, vector_size |-> w.vector_size]
        /\ w.vector_max_size \in Nat \ {0}
        /\ w.contents \in [0 .. w.vector_max_size - 1 -> S]
        /\ w.start_index \in 0 .. w.vector_max_size - 1
        /\ w.vector_size \in 0 .. w.vector_max_size
        /\ Tail(e) \in Seq(S) /\ Len(Tail(e)) = w.vector_size
    BY <1>1, <1>5, <1>6, <1>7, <1>9
  <2>2. /\ w.contents = c /\ w.start_index = t
        /\ w.vector_max_size = m /\ w.vector_size = n - 1
    BY <1>5, <1>9
  <2>3. \A i \in 1 .. w.vector_size :
          Tail(e)[i] = w.contents[(w.start_index + (i - 1)) % w.vector_max_size]
    BY <1>8, <2>2, Zenon
  <2> QED
    BY <2>1, <2>3, ElementsOf, Zenon
<1> QED
  BY <1>3, <1>9, <1>10

\* pop_back: the last element goes.
THEOREM PopBackIsFront ==
  ASSUME NEW S, NEW cv \in Vectors(S), ~empty(cv)
  PROVE  /\ pop_back(cv) \in Vectors(S)
         /\ Elements(pop_back(cv)) = SubSeq(Elements(cv), 1, Len(Elements(cv)) - 1)
<1> DEFINE m == cv.vector_max_size  s == cv.start_index  n == cv.vector_size
           c == cv.contents  e == Elements(cv)
<1>1. /\ cv = [contents |-> c, vector_max_size |-> m, start_index |-> s, vector_size |-> n]
      /\ m \in Nat \ {0} /\ c \in [0 .. m - 1 -> S] /\ s \in 0 .. m - 1 /\ n \in 0 .. m
  BY Fields
<1>2. /\ e \in Seq(S) /\ Len(e) = n
      /\ \A i \in 1 .. n : e[i] = c[(s + (i - 1)) % m]
  BY ElementsShape DEF get_index
<1>3. /\ cv.contents = c /\ cv.vector_max_size = m /\ cv.start_index = s
      /\ cv.vector_size = n /\ Elements(cv) = e
  OBVIOUS
<1> HIDE DEF m, s, n, c, e
<1> DEFINE r == SubSeq(e, 1, n - 1)
<1>4. n # 0
  BY <1>3 DEF empty
<1>5. pop_back(cv) = [contents |-> c, vector_max_size |-> m, start_index |-> s,
                      vector_size |-> n - 1]
  BY <1>1 DEF pop_back, Shrunk
<1>6. /\ r \in Seq(S) /\ Len(r) = n - 1 /\ n - 1 \in 0 .. m
      /\ \A i \in 1 .. n - 1 : r[i] = e[i]
  BY <1>1, <1>2, <1>4
<1>7. \A i \in 1 .. n - 1 : r[i] = c[(s + (i - 1)) % m]
  <2> TAKE i \in 1 .. n - 1
  <2>1. i \in 1 .. n
    BY <1>1
  <2> QED
    BY <1>2, <1>6, <2>1, Zenon
<1> HIDE DEF r
<1>8. PICK w : w = pop_back(cv)
  OBVIOUS
<1>9. w \in Vectors(S) /\ Elements(w) = r
  <2>1. /\ w = [contents |-> w.contents, vector_max_size |-> w.vector_max_size,
              start_index |-> w.start_index, vector_size |-> w.vector_size]
        /\ w.vector_max_size \in Nat \ {0}
        /\ w.contents \in [0 .. w.vector_max_size - 1 -> S]
        /\ w.start_index \in 0 .. w.vector_max_size - 1
        /\ w.vector_size \in 0 .. w.vector_max_size
        /\ r \in Seq(S) /\ Len(r) = w.vector_size
    BY <1>1, <1>5, <1>6, <1>8
  <2>2. /\ w.contents = c /\ w.start_index = s
        /\ w.vector_max_size = m /\ w.vector_size = n - 1
    BY <1>5, <1>8
  <2>3. \A i \in 1 .. w.vector_size :
          r[i] = w.contents[(w.start_index + (i - 1)) % w.vector_max_size]
    BY <1>7, <2>2, Zenon
  <2> QED
    BY <2>1, <2>3, ElementsOf, Zenon
<1> QED
  BY <1>2, <1>3, <1>8, <1>9 DEF r

\* push_front: the value before the elements; if there is no room, the last
\* element goes.
THEOREM PushFrontPrepends ==
  ASSUME NEW S, NEW cv \in Vectors(S), NEW v \in S
  PROVE  LET e == Elements(cv)
             kept == IF full(cv) THEN Len(e) - 1 ELSE Len(e)
         IN  /\ push_front(cv, v) \in Vectors(S)
             /\ Elements(push_front(cv, v)) = << v >> \o SubSeq(e, 1, kept)
<1> DEFINE m == cv.vector_max_size  s == cv.start_index  n == cv.vector_size
           c == cv.contents  e == Elements(cv)
<1>1. /\ cv = [contents |-> c, vector_max_size |-> m, start_index |-> s, vector_size |-> n]
      /\ m \in Nat \ {0} /\ c \in [0 .. m - 1 -> S] /\ s \in 0 .. m - 1 /\ n \in 0 .. m
  BY Fields
<1>2. /\ e \in Seq(S) /\ Len(e) = n
      /\ \A i \in 1 .. n : e[i] = c[(s + (i - 1)) % m]
  BY ElementsShape DEF get_index
<1>3. /\ cv.contents = c /\ cv.vector_max_size = m /\ cv.start_index = s
      /\ cv.vector_size = n /\ Elements(cv) = e
  OBVIOUS
<1> HIDE DEF m, s, n, c, e
<1> DEFINE t == IF s = 0 THEN m - 1 ELSE s - 1
           k == IF n = m THEN n - 1 ELSE n
           r == << v >> \o SubSeq(e, 1, k)
<1>4. k \in 0 .. n /\ k + 1 \in 0 .. m /\ k \in 0 .. m - 1 /\ n \in Nat
  BY <1>1
<1>5. t \in 0 .. m - 1 /\ \A i \in 0 .. m - 1 : (t + (i + 1)) % m = (s + i) % m
  BY <1>1, FromLastStart
<1>6. (t + 0) % m = t
  <2>1. t \in 0 .. m - 1 /\ 0 \in 0 .. m
    BY <1>1
  <2> HIDE DEF t
  <2>2. (t + 0) % m = IF t + 0 < m THEN t + 0 ELSE t + 0 - m
    BY <1>1, <2>1, GoesRound, Zenon
  <2> QED
    BY <1>1, <2>1, <2>2
<1>7. push_front(cv, v) = [contents |-> [c EXCEPT ![t] = v], vector_max_size |-> m,
                           start_index |-> t, vector_size |-> k + 1]
  <2>1. (IF full(cv) THEN cv ELSE Grown(cv)) =
          [contents |-> c, vector_max_size |-> m, start_index |-> s, vector_size |-> k + 1]
    BY <1>1, <1>3 DEF full, Grown
  <2>2. PICK d : d = IF full(cv) THEN cv ELSE Grown(cv)
    OBVIOUS
  <2>3. dec_start_index(d) = [contents |-> c, vector_max_size |-> m, start_index |-> t,
                              vector_size |-> k + 1]
    BY <2>1, <2>2 DEF dec_start_index
  <2>4. PICK w : w = dec_start_index(d)
    OBVIOUS
  <2>5. w = [contents |-> c, vector_max_size |-> m, start_index |-> t,
             vector_size |-> k + 1]
    BY <2>3, <2>4
  <2> HIDE DEF t, k
  <2>6. get_index(w, 0) = t
    BY <1>6, <2>5 DEF get_index
  <2>7. SetAt(w, 0, v) = [contents |-> [c EXCEPT ![t] = v], vector_max_size |-> m,
                          start_index |-> t, vector_size |-> k + 1]
    BY <2>5, <2>6 DEF SetAt
  <2> QED
    BY <2>2, <2>4, <2>7 DEF push_front
<1> HIDE DEF t, k
<1>8. /\ SubSeq(e, 1, k) \in Seq(S) /\ Len(SubSeq(e, 1, k)) = k
      /\ \A i \in 1 .. k : SubSeq(e, 1, k)[i] = e[i]
  BY <1>2, <1>4
<1>9. /\ r \in Seq(S) /\ Len(r) = k + 1 /\ r[1] = v
      /\ \A i \in 2 .. k + 1 : r[i] = e[i - 1]
  <2> PICK q \in Seq(S) : q = SubSeq(e, 1, k)
    BY <1>8
  <2>1. << v >> \o q \in Seq(S) /\ Len(<< v >> \o q) = k + 1 /\ (<< v >> \o q)[1] = v
    BY <1>4, <1>8
  <2>2. \A i \in 2 .. k + 1 : (<< v >> \o q)[i] = q[i - 1] /\ i - 1 \in 1 .. k
    BY <1>4, <1>8
  <2> QED
    BY <1>8, <2>1, <2>2
<1> HIDE DEF r
<1>10. \A i \in 1 .. k + 1 : r[i] = [c EXCEPT ![t] = v][(t + (i - 1)) % m]
  <2> TAKE i \in 1 .. k + 1
  <2>1. CASE i = 1
    <3>1. i - 1 = 0
      BY <2>1
    <3> QED
      BY <1>1, <1>5, <1>6, <1>9, <2>1, <3>1
  <2>2. CASE i # 1
    <3>1. PICK j \in 0 .. m - 1 : j = i - 2
      BY <1>1, <1>4, <2>2
    <3>2. /\ j + 1 = i - 1 /\ i - 1 \in 1 .. n /\ (i - 1) - 1 = j /\ i \in 2 .. k + 1
          /\ j + 1 \in 0 .. m - 1 /\ j + 1 # 0 /\ 0 \in 0 .. m - 1
      BY <1>1, <1>4, <2>2, <3>1
    <3>3. r[i] = e[i - 1]
      BY <1>9, <3>2
    <3>4. e[i - 1] = c[(s + j) % m]
      BY <1>2, <3>2
    <3>5. (t + (j + 1)) % m = (s + j) % m
      BY <1>5
    <3>6. (t + (j + 1)) % m # (t + 0) % m
      BY <1>1, <1>5, <3>2, PlacesDiffer, Zenon
    <3>7. (s + j) % m \in 0 .. m - 1
      <4>1. j \in 0 .. m
        BY <1>1, <3>1
      <4>2. (s + j) % m = IF s + j < m THEN s + j ELSE s + j - m
        BY <1>1, <4>1, GoesRound, Zenon
      <4> QED
        BY <1>1, <4>1, <4>2
    <3>8. [c EXCEPT ![t] = v][(s + j) % m] = c[(s + j) % m]
      BY <1>1, <1>6, <3>5, <3>6, <3>7
    <3> QED
      BY <3>2, <3>3, <3>4, <3>5, <3>8
  <2> QED
    BY <2>1, <2>2
<1>11. PICK w : w = push_front(cv, v)
  OBVIOUS
<1>12. w \in Vectors(S) /\ Elements(w) = r
  <2>1. /\ w = [contents |-> w.contents, vector_max_size |-> w.vector_max_size,
              start_index |-> w.start_index, vector_size |-> w.vector_size]
        /\ w.vector_max_size \in Nat \ {0}
        /\ w.contents \in [0 .. w.vector_max_size - 1 -> S]
        /\ w.start_index \in 0 .. w.vector_max_size - 1
        /\ w.vector_size \in 0 .. w.vector_max_size
        /\ r \in Seq(S) /\ Len(r) = w.vector_size
    BY <1>1, <1>4, <1>5, <1>7, <1>9, <1>11
  <2>2. /\ w.contents = [c EXCEPT ![t] = v] /\ w.start_index = t
        /\ w.vector_max_size = m /\ w.vector_size = k + 1
    BY <1>7, <1>11
  <2>3. \A i \in 1 .. w.vector_size :
          r[i] = w.contents[(w.start_index + (i - 1)) % w.vector_max_size]
    BY <1>10, <2>2, Zenon
  <2> QED
    BY <2>1, <2>3, ElementsOf, Zenon
<1>13. k = IF full(cv) THEN Len(e) - 1 ELSE Len(e)
  BY <1>2, <1>3 DEF k, full
<1> QED
  BY <1>3, <1>11, <1>12, <1>13 DEF r
=============================================================================
