--------------------------- MODULE AbbrevSelector ---------------------------
(***************************************************************************)
(* intcomp/AbbrevSelector.cpp: the search for the cheapest way to cover    *)
(* the integers of a buffer with abbreviations.  A selection is the        *)
(* sequence of the abbreviations taken so far.                             *)
(***************************************************************************)
EXTENDS CountTrie

Selection(abbrevs, consumed, weight, created) ==
  [abbrevs |-> abbrevs, IntsConsumed |-> consumed, Weight |-> weight,
   CreationIndex |-> created]
Empty == Selection(<< >>, 0, 0, 0)

IsDefault(node) == node \in {DefaultSingle, DefaultMultiple}
countIntPatterns(sel) == Len(SelectSeq(sel.abbrevs, IsInt))

\* What goes first: the one that has come furthest, then the cheapest.
\* Mutant: the weights are not compared.
isHillclimbLTUnweighed(s1, s2) ==
  \/ s1.IntsConsumed > s2.IntsConsumed
  \/ s1.IntsConsumed = s2.IntsConsumed /\ s1.CreationIndex < s2.CreationIndex
isHillclimbLT(s1, s2) ==
  LET Key(s) == << -s.IntsConsumed, s.Weight, -countIntPatterns(s), s.CreationIndex >>
      k1 == Key(s1)  k2 == Key(s2)
  IN  \E i \in 1 .. 4 : k1[i] < k2[i] /\ \A j \in 1 .. i - 1 : k1[j] = k2[j]

\* create: with an abbreviation that adds to the weight and takes integers.
create(previous, abbrev, weight, ints, created) ==
  Selection(Append(previous.abbrevs, abbrev), previous.IntsConsumed + ints,
            previous.Weight + weight, created)

computeAbbrevWeight == 1
DefaultFormat == "Varint64"
ValueWeight == [value \in Values |-> getByteSize(value, DefaultFormat)]

\* The next integer as it is.  One that follows another is part of multiple
\* values, which have a size; so is the first of the buffer, always, the
\* number of default values before it being assigned 0, not compared with it.
createDefaults(buffer, previous, created) ==
  LET weight == ValueWeight[buffer[previous.IntsConsumed + 1]]
      follows == IF previous.abbrevs = << >> THEN DefaultMultiple ELSE Last(previous.abbrevs)
      size == IF follows = DefaultSingle THEN 1 ELSE 0
  IN  IF IsDefault(follows)
      THEN create(previous, DefaultMultiple, weight + size, 1, created)
      ELSE create(previous, DefaultSingle, weight + computeAbbrevWeight, 1, created)

\* The sequences of the trie that come next and have an abbreviation.
MatchLengths(buffer, start, trie, indexed) ==
  {n \in 1 .. Len(buffer) - start :
     LET node == IntNode(SubSeq(buffer, start + 1, start + n))
     IN  node \in Nodes(trie) /\ node \in indexed}

createIntSeqMatches(buffer, previous, created, trie, indexed) ==
  LET start == previous.IntsConsumed
      lengths == Ordered(MatchLengths(buffer, start, trie, indexed), <)
  IN  {create(previous, IntNode(SubSeq(buffer, start + 1, start + lengths[i])),
              computeAbbrevWeight, lengths[i], created + i) : i \in DOMAIN lengths}

createMatches(buffer, previous, created, trie, indexed) ==
  {createDefaults(buffer, previous, created)}
    \union createIntSeqMatches(buffer, previous, created, trie, indexed)

\* select: the abbreviations, in order, of the minimum; `min` is Empty before
\* there is one.  What cannot become the minimum any more is left alone, and
\* the only choice there is, is taken as far as it goes.
RECURSIVE Search(_, _, _, _, _, _)
Search(heap, min, created, buffer, trie, indexed) ==
  LET sel == CHOOSE s \in heap : \A t \in heap \ {s} : isHillclimbLT(s, t)
      rest == heap \ {sel}
      more == createMatches(buffer, sel, created, trie, indexed)
      GoOn(h, m, c) == Search(h, m, c, buffer, trie, indexed)
      found == min # Empty
  IN  IF heap = {} THEN min
      ELSE IF ~found /\ rest = {} THEN sel
      ELSE IF found /\ sel.Weight > min.Weight THEN GoOn(rest, min, created)
      ELSE IF sel.IntsConsumed >= Len(buffer)
           THEN GoOn(rest, IF ~found \/ isHillclimbLT(sel, min) THEN sel ELSE min, created)
      ELSE GoOn(rest \union more, min, created + Cardinality(more))

select(buffer, trie, indexed) ==
  LET first == createMatches(buffer, Empty, 1, trie, indexed)
  IN  Search(first, Empty, 1 + Cardinality(first), buffer, trie, indexed).abbrevs
=============================================================================
