-------------------------------- MODULE Heap --------------------------------
(***************************************************************************)
(* utils/heap.h: a binary heap, as the sequence of its values.  An entry   *)
(* of the code knows its index; here it is looked up, a value being in a   *)
(* heap once.  Before(a, b) is LtFcn.                                      *)
(***************************************************************************)
EXTENDS Naturals, Sequences

ParentOf(i) == i \div 2
LeftKid(i) == 2 * i
RightKid(i) == 2 * i + 1
IndexOf(heap, value) == CHOOSE i \in DOMAIN heap : heap[i] = value
InHeap(heap, value) == \E i \in DOMAIN heap : heap[i] = value

\* The entry at an index moves up to where its parent comes before it.
insertUp(heap, kid, Before(_, _)) ==
  LET rise[i \in DOMAIN heap] ==
        IF i > 1 /\ Before(heap[kid], heap[ParentOf(i)]) THEN rise[ParentOf(i)] ELSE i
      passed[i \in DOMAIN heap] == IF i = rise[kid] THEN {} ELSE {i} \union passed[ParentOf(i)]
  IN  [i \in DOMAIN heap |-> IF i = rise[kid] THEN heap[kid]
                             ELSE IF i \in passed[kid] THEN heap[ParentOf(i)] ELSE heap[i]]

\* The kid that an entry with this value changes places with, or itself.
Descent(heap, i, value, Before(_, _)) ==
  LET first == IF Before(heap[LeftKid(i)], value) THEN LeftKid(i) ELSE i
      least == IF first = i THEN value ELSE heap[first]
  IN  IF LeftKid(i) > Len(heap) THEN i
      ELSE IF RightKid(i) <= Len(heap) /\ Before(heap[RightKid(i)], least)
           THEN RightKid(i) ELSE first

insertDown(heap, top, Before(_, _)) ==
  LET next[i \in DOMAIN heap] == Descent(heap, i, heap[top], Before)
      end[i \in DOMAIN heap] == IF next[i] = i THEN i ELSE end[next[i]]
      passed[i \in DOMAIN heap] == IF next[i] = i THEN {} ELSE {i} \union passed[next[i]]
  IN  [i \in DOMAIN heap |-> IF i = end[top] THEN heap[top]
                             ELSE IF i \in passed[top] THEN heap[next[i]] ELSE heap[i]]

\* The key of an entry has changed.
reinsert(heap, i, Before(_, _)) ==
  LET up == insertUp(heap, i, Before)
  IN  IF up # heap THEN up ELSE insertDown(heap, i, Before)

push(heap, value, Before(_, _)) ==
  insertUp(Append(heap, value), Len(heap) + 1, Before)

\* The last entry takes the place of the one that is removed.
remove(heap, i, Before(_, _)) ==
  LET rest == SubSeq(heap, 1, Len(heap) - 1)
  IN  IF i = Len(heap) THEN rest
      ELSE reinsert([rest EXCEPT ![i] = heap[Len(heap)]], i, Before)

pop(heap, Before(_, _)) == remove(heap, 1, Before)
=============================================================================
