------------------------ MODULE AbbreviationCodegen ------------------------
(***************************************************************************)
(* intcomp/AbbreviationCodegen.cpp: the algorithm that is put in front of  *)
(* the compressed integers, as what it does with them.  What it enters,    *)
(* exits and writes is the sequence of events it returns, followed by a    *)
(* "stuck" where it throws; a reader is the integers left, the events so   *)
(* far, and the sequences that the table of cism remembers by number.      *)
(***************************************************************************)
EXTENDS Compress

\* The specials of cism, in the order of SPECIAL_ABBREV_TABLE.
SpecialAbbrevs == << CismBase + 1, CismBase, CismBase + 2, CismBase + 3, CismBase + 4 >>
SpecialNodes == << DefaultSingle, DefaultMultiple, BlockEnter, BlockExit, AlignCount >>
Used == {index[node] : node \in Assignments}

\* FixMap: another number for an abbreviation that is numbered like a special.
\* Mutant: the next number, in use or not.
NextAvailUnchecked(from) == from
NextAvail(from) == Min({n \in from .. from + Cardinality(Used) : n \notin Used})

FixMap ==
  LET fix[i \in 0 .. 5] ==
        IF i = 0 THEN -1
        ELSE IF SpecialAbbrevs[i] \in Used THEN NextAvail(fix[i - 1] + 1) ELSE fix[i - 1] + 1
  IN  [val \in ToSet(SpecialAbbrevs) |-> fix[IndexOf(SpecialAbbrevs, val)]]

\* The number of the special that a node is.
SpecialOf(node) == SpecialAbbrevs[IndexOf(SpecialNodes, node)]

\* categorize: the case of each number in use; any other is itself.
CatMap(number) ==
  LET node == CHOOSE n \in Assignments : index[n] = number
  IN  IF number \notin Used THEN number
      ELSE IF number \in DOMAIN FixMap THEN FixMap[number]
      ELSE IF IsInt(node) THEN number ELSE SpecialOf(node)

\* An abbreviation that is numbered like a special, and is not a sequence,
\* is taken for one.
SpecialsClash == \E node \in Assignments : ~IsInt(node) /\ index[node] \in ToSet(SpecialAbbrevs)

---------------------------------------------------------------------------
STUCK == Event("stuck", 0)
Stuck(reader) == [reader EXCEPT !.in = << >>, !.events = Append(@, STUCK)]

ValueEvents(values) == [i \in DOMAIN values |-> ValueEvent(values[i])]

WriteInts(reader, count) ==
  IF count > Len(reader.in) THEN Stuck(reader)
  ELSE [reader EXCEPT !.in = SubSeq(@, count + 1, Len(@)),
                      !.events = @ \o ValueEvents(SubSeq(reader.in, 1, count))]

\* (loop (varuint64) (varint64))
generateDefaultMultipleAction(reader) ==
  IF reader.in = << >> THEN Stuck(reader)
  ELSE WriteInts([reader EXCEPT !.in = Tail(@)], Head(reader.in))
generateDefaultSingleAction(reader) == WriteInts(reader, 1)

Emit(reader, events) == [reader EXCEPT !.events = @ \o events]

SpecialAction(reader, node) ==
  CASE node = DefaultSingle -> generateDefaultSingleAction(reader)
    [] node = DefaultMultiple -> generateDefaultMultipleAction(reader)
    [] node = BlockEnter -> Emit(reader, << ENTER >>)
    [] node = BlockExit -> Emit(reader, << EXIT >>)
    [] node = AlignCount -> reader

\* generateSwitchStatement: one case for each number.
SwitchAction(reader, number) ==
  LET nodes == {n \in Assignments : index[n] = number}
      node == CHOOSE n \in nodes : TRUE
  IN  IF nodes = {} THEN Stuck(reader)
      ELSE IF IsInt(node) THEN Emit(reader, ValueEvents(node.path))
      ELSE SpecialAction(reader, node)

\* 'process' of cism: the integers behind a number are read the first time;
\* after that they are what the table has.
ProcessAction(reader, number) ==
  LET case == CatMap(number)
      read == generateDefaultMultipleAction(reader)
      written == SubSeq(read.events, Len(reader.events) + 1, Len(read.events))
  IN  IF case \in ToSet(SpecialAbbrevs)
      THEN SpecialAction(reader, SpecialNodes[IndexOf(SpecialAbbrevs, case)])
      ELSE IF case \in DOMAIN reader.table
      THEN [read EXCEPT !.events = reader.events \o reader.table[case]]
      ELSE [read EXCEPT !.table = (case :> written) @@ @]

\* 'opcode': the number of the next abbreviation, whatever its format; the
\* bits that align it are none of its value.
generateOpcodeFunction(reader) == Head(reader.in)

\* What is defined over the functions of cism, or else the whole of 'file'.
generateFunctions(reader, number) ==
  IF flags.UseCismModel THEN ProcessAction(reader, number) ELSE SwitchAction(reader, number)

\* (loop.unbounded ...), until the end of the integers.
RECURSIVE Run(_)
Run(reader) ==
  IF reader.in = << >> THEN reader.events
  ELSE Run(generateFunctions([reader EXCEPT !.in = Tail(@)], generateOpcodeFunction(reader)))

Expanded == Run([in |-> IntOutput, events |-> << >>, table |-> << >>])

\* generateHuffmanEncoding: the number a binary.accept stands for, the
\* decision at the root being its lowest bit.
RECURSIVE AcceptValues(_)
AcceptValues(node) ==
  IF ~IsSelector(node) THEN {0}
  ELSE {2 * v : v \in AcceptValues(node.kids[1])}
         \union {2 * v + 1 : v \in AcceptValues(node.kids[2])}

RECURSIVE Depth(_)
Depth(node) ==
  IF ~IsSelector(node) THEN 0 ELSE 1 + Max({Depth(node.kids[1]), Depth(node.kids[2])})

---------------------------------------------------------------------------
\* Properties.

\* CountWriter.cpp:38.  While the sequences are counted, the trie has just
\* those that have occurred within a block and of which each integer is
\* frequent, with how often they have.
Occurrences(path) ==
  Cardinality({i \in 1 .. pos - Len(path) + 1 :
                 SubSeq(Delivered, i, i + Len(path) - 1) = ValueEvents(path)})
Frequent(value) ==
  Len(SelectSeq(Contents, LAMBDA e : e = ValueEvent(value))) >= flags.CountCutoff
Paths == UNION {[1 .. n -> Values] : n \in 2 .. flags.PatternLengthLimit}
CountsOccurrences ==
  phase = "count" /\ counter.UpToSize > 1 =>
    \A path \in Paths :
      LET node == IntNode(path)
          known == IF node \in Nodes(trie) THEN trie.count[node] ELSE 0
      IN  known = IF \A i \in DOMAIN path : Frequent(path[i]) THEN Occurrences(path) ELSE 0

\* AbbrevSelector.cpp:277.  No other way to cover the buffer is cheaper; where
\* the search has been cut short, the way begins as what it has found.
RECURSIVE CostFrom(_)
CostFrom(sel) ==
  IF sel.IntsConsumed = Len(Elements(Buffer)) THEN sel.Weight
  ELSE Min({CostFrom(s) : s \in createMatches(Elements(Buffer), sel, 1, trie, Assignments)})
RECURSIVE Along(_, _)
Along(sel, abbrevs) ==
  IF abbrevs = << >> THEN sel
  ELSE Along(CHOOSE s \in createMatches(Elements(Buffer), sel, 1, trie, Assignments) :
               Last(s.abbrevs) = Head(abbrevs), Tail(abbrevs))
SelectsCheapest ==
  phase = "write" /\ ~empty(Buffer) =>
    CostFrom(Along(Empty, select(Elements(Buffer), trie, Assignments))) = CostFrom(Empty)

\* AbbrevAssignWriter.cpp:425.  What has been written, what waits for more
\* default values and what is in the buffer is the input passed on so far.
RECURSIVE EventsOf(_)
EventsOf(values) ==
  IF values = << >> THEN << >>
  ELSE EventsOf(Front(values)) \o
       LET v == Last(values)
       IN  IF v.kind = "Default" THEN << ValueEvent(v.value) >>
           ELSE IF v.kind = "Loop" THEN << >>
           ELSE IF v.node = BlockEnter THEN << ENTER >>
           ELSE IF v.node = BlockExit THEN << EXIT >>
           ELSE ValueEvents(v.node.path)
NothingLost ==
  phase = "write" =>
    EventsOf(AbbrevValues) \o ValueEvents(DefaultValues) \o ValueEvents(Elements(Buffer))
      = SubSeq(Delivered, 1, pos)

\* AbbreviationCodegen.cpp:297.  The algorithm put in front of the compressed
\* integers makes of them what was compressed: all of the input, unless it has
\* an empty block that ends the block around it, or the file.
OutputDecodes ==
  /\ phase = "done"
  /\ ~flags.MatchSingletonsLast
  /\ flags.UseCismModel => ~SpecialsClash
  => /\ Expanded = Delivered
     /\ NoBlockEndsEmpty(Contents, ENTER, EXIT) => Expanded = Contents

\* HuffmanEncoding.cpp:248, AbbreviationCodegen.cpp:278.  The paths accepted
\* by the tree that is written are the numbers of the abbreviations, one for
\* each, and none is too long; there is one unless there are too many symbols.
TreeAcceptsAssigned ==
  /\ flags.UseHuffmanEncoding /\ phase \in {"write", "done"} =>
       /\ AcceptValues(EncodingRoot) = Used
       /\ Cardinality(Used) = Cardinality(Assignments)
       /\ Depth(EncodingRoot) <= MaxPathLength
  /\ phase = "fatal" => Cardinality(Assignments) >= 2^MaxPathLength
=============================================================================
