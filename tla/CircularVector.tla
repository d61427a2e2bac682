--------------------------- MODULE CircularVector ---------------------------
(***************************************************************************)
(* utils/circular-vector.h: a vector of a bounded size, whose values are   *)
(* kept in place while its start moves around.  `cv` is the class's        *)
(* fields; an operation returns what they are after it.  Elements(cv) is   *)
(* the sequence it stands for.                                             *)
(***************************************************************************)
EXTENDS Integers, Sequences

\* The values past the size: T() first, then what was popped.
prefill(T, max) == [i \in 0 .. max - 1 |-> T]

circular_vector(T, max) ==
  [contents |-> prefill(T, max), vector_max_size |-> max, start_index |-> 0,
   vector_size |-> 0]

max_size(cv) == cv.vector_max_size
empty(cv) == cv.vector_size = 0
full(cv) == cv.vector_size = cv.vector_max_size

get_index(cv, n) == (cv.start_index + n) % cv.vector_max_size
at(cv, n) == cv.contents[get_index(cv, n)]
front(cv) == at(cv, 0)
back(cv) == at(cv, cv.vector_size - 1)

\* at(n) = v
SetAt(cv, n, v) == [cv EXCEPT !.contents[get_index(cv, n)] = v]

inc_start_index(cv) == [cv EXCEPT !.start_index = (@ + 1) % cv.vector_max_size]
dec_start_index(cv) ==
  [cv EXCEPT !.start_index = IF @ = 0 THEN cv.vector_max_size - 1 ELSE @ - 1]

Grown(cv) == [cv EXCEPT !.vector_size = @ + 1]
Shrunk(cv) == [cv EXCEPT !.vector_size = @ - 1]

\* On a full vector, the value at the other end makes place.
push_front(cv, v) ==
  SetAt(dec_start_index(IF full(cv) THEN cv ELSE Grown(cv)), 0, v)
push_back(cv, v) ==
  IF full(cv) THEN inc_start_index(SetAt(cv, 0, v))
  ELSE Grown(SetAt(cv, cv.vector_size, v))

\* Both assert that there is a value.
pop_front(cv) == inc_start_index(Shrunk(cv))
pop_back(cv) == Shrunk(cv)

Elements(cv) == [i \in 1 .. cv.vector_size |-> at(cv, i - 1)]
=============================================================================
