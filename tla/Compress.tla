------------------------------ MODULE Compress ------------------------------
(***************************************************************************)
(* intcomp/IntCompress.cpp with the collector of abbreviations and the     *)
(* writer that assigns them: the integers of a file are counted, the       *)
(* sequences worth an abbreviation are collected, the input is written as  *)
(* abbreviations, and the algorithm that expands these is generated.       *)
(*                                                                         *)
(* Contents is a sequence of integers and of block marks; what a pass over *)
(* it hands to its writer is Delivered.  Sets of nodes are ordered by      *)
(* address in the code: nothing depends on that order, as what is done one *)
(* by one is put in a heap first.                                          *)
(***************************************************************************)
EXTENDS AbbrevSelector, CircularVector, Heap, Huffman, StructuralRead

CONSTANTS Inputs,         \* the contents a file may have
          FlagSets,       \* what the program is called with
          MaxPathLength,  \* bits of a path, 64 in the code
          CismBase        \* the first of the numbers with a meaning in cism

\* In the code, 4096 abbreviations and 16766.
ASSUME CompressAssumption ==
  \A f \in FlagSets :
    /\ f.PatternLengthLimit \in Nat \ {0} /\ f.PatternLengthMultiplier \in Nat \ {0}
    /\ f.UseCismModel => f.MaxAbbreviations + 5 <= CismBase

Event(mark, value) == [mark |-> mark, value |-> value]
ENTER == Event("enter", 0)
EXIT == Event("exit", 0)
ValueEvent(value) == Event("value", value)
IsMark(event) == event \in {ENTER, EXIT}
MarkNode(event) == IF event = ENTER THEN BlockEnter ELSE BlockExit

VARIABLES
  flags,         \* CompressionFlags
  phase,         \* what compress() is at
  Contents,      \* the integer stream read
  pos,           \* how much of it the pass at work has read
  counter,       \* the CountWriter and the trie
  ValuesHeap,    \* nodes to consider
  collected,     \* nodes that were associated with the heap
  Assignments,   \* nodes with an abbreviation
  TrimmedNodes,  \* nodes whose uses have been taken off their prefixes
  index,         \* the number of each abbreviation
  EncodingRoot,  \* the Huffman tree
  Buffer, DefaultValues, AbbrevValues,  \* what the writer has not put in a stream
  IntOutput      \* the compressed integers

collecting == << ValuesHeap, collected, TrimmedNodes >>
encoding == << index, EncodingRoot >>
writing == << Buffer, DefaultValues, AbbrevValues, IntOutput >>
vars == << flags, phase, Contents, pos, counter, Assignments, collecting,
           encoding, writing >>

BufSize == flags.PatternLengthLimit * flags.PatternLengthMultiplier

NoTree == Symbol(0, 0)

Init ==
  /\ flags \in FlagSets
  /\ phase = "read"
  /\ Contents = << >>
  /\ pos = 0
  /\ counter = [trie |-> NewRoot, Frontier |-> {}, UpToSize |-> 1]
  /\ ValuesHeap = << >> /\ collected = {} /\ TrimmedNodes = {}
  /\ Assignments = {} /\ index = << >> /\ EncodingRoot = NoTree
  /\ Buffer = circular_vector(0, BufSize) /\ DefaultValues = << >> /\ AbbrevValues = << >> /\ IntOutput = << >>

\* readInput.
ReadInput ==
  /\ phase = "read"
  /\ Contents' \in Inputs
  /\ phase' = "count"
  /\ UNCHANGED << flags, pos, counter, Assignments, collecting, encoding, writing >>

InputMalformed ==
  /\ phase = "read"
  /\ phase' = "failed"
  /\ UNCHANGED << flags, Contents, pos, counter, Assignments, collecting, encoding, writing >>

---------------------------------------------------------------------------
\* compressUpToSize: a pass of the CountWriter.

\* Empty blocks that end other blocks come late; at the end they are lost.
Delivered == Passed(Contents, ENTER, EXIT)

trie == counter.trie
AtEnd == pos = Len(Delivered)
next == Delivered[pos + 1]

CountValue ==
  /\ phase = "count" /\ ~AtEnd /\ ~IsMark(next)
  /\ counter' = addToUsageMap(counter, next.value, flags)
  /\ pos' = pos + 1
  /\ UNCHANGED << flags, phase, Contents, Assignments, collecting, encoding, writing >>

CountMark ==
  /\ phase = "count" /\ ~AtEnd /\ IsMark(next)
  /\ counter' = CountBlock(counter, MarkNode(next))
  /\ pos' = pos + 1
  /\ UNCHANGED << flags, phase, Contents, Assignments, collecting, encoding, writing >>

\* The singletons are counted: sequences of those left are counted next.
CountSequencesNext ==
  /\ phase = "count" /\ AtEnd /\ counter.UpToSize = 1 /\ flags.PatternLengthLimit > 1
  /\ counter' = [trie |-> RemoveNodes(trie, flags, TRUE, FALSE), Frontier |-> {},
                 UpToSize |-> flags.PatternLengthLimit]
  /\ pos' = 0
  /\ UNCHANGED << flags, phase, Contents, Assignments, collecting, encoding, writing >>

\* How often a default will be used is not known: often.
AssumeDefaults(t) ==
  [t EXCEPT !.count[DefaultSingle] = 100, !.count[DefaultMultiple] = 100,
            !.count[AlignCount] = IF flags.UseHuffmanEncoding THEN 1 ELSE @]

---------------------------------------------------------------------------
\* AbbreviationsCollector.  `c` is its state, with the trie.

Reinserted(c, node) ==
  LET LtFcn(a, b) == Compare(c.trie, a, b)
  IN  IF InHeap(c.heap, node)
      THEN [c EXCEPT !.heap = reinsert(@, IndexOf(@, node), LtFcn)]
      ELSE IF node \in c.collected
      THEN [c EXCEPT !.heap = push(@, node, LtFcn)]
      ELSE c

\* A prefix that is not worth its abbreviation any more loses it.
Dropped(c, node) ==
  IF smallValueKeep(c.trie, node, flags) THEN c ELSE [c EXCEPT !.assigned = @ \ {node}]

\* The uses of a sequence are taken off those of its prefixes.
RECURSIVE TrimParents(_, _, _)
TrimParents(c, node, Count) ==
  LET parent == Parent(node)
      OldCount == c.trie.count[parent]
      NewCount == IF OldCount > Count THEN OldCount - Count ELSE 0
      trimmed == [c EXCEPT !.trie.count[parent] = NewCount]
  IN  IF IsSingleton(node) \/ node \in c.trimmed THEN c
      ELSE IF OldCount = NewCount THEN c
      ELSE TrimParents(Dropped(Reinserted(trimmed, parent), parent), parent, Count)

WantsSingletons == ~flags.MatchSingletonsLast

addAbbreviation(c, node) ==
  LET added == [c EXCEPT !.assigned = @ \union {node}]
      trimmed == TrimParents(added, node, c.trie.count[node])
  IN  IF \/ node \in c.assigned
         \/ ~keep(c.trie, node, flags)
         \/ IsSingleton(node) /\ ~WantsSingletons
      THEN c
      ELSE IF ~flags.TrimOverriddenPatterns \/ ~IsInt(node) THEN added
      ELSE [trimmed EXCEPT !.trimmed = @ \union {node}]

\* setSmallValueKeep, before the small values are added.
SmallValues(t) ==
  {node \in Nodes(t) : IsSingleton(node) /\ node.path[1] < flags.SmallValueMax}

\* collectUsingCutoffs and buildHeap.
Collected(t) ==
  Others \union
  {node \in Nodes(t) : /\ IsInt(node)
                       /\ Weight(t, node) >= flags.WeightCutoff
                       /\ IsSingleton(node) =>
                            t.count[node] >= flags.CountCutoff /\ WantsSingletons}

HeapOf(t, nodes) ==
  LET LtFcn(a, b) == Compare(t, a, b)
  IN  FoldSet(LAMBDA node, heap : push(heap, node, LtFcn), << >>, nodes)

buildHeap(c) ==
  [c EXCEPT !.collected = Collected(c.trie), !.heap = HeapOf(c.trie, Collected(c.trie))]

\* The start of assignAbbreviations, up to the loop.
StartCollecting(t) ==
  LET used == {node \in Others : t.count[node] > 0}
      start == [trie |-> [t EXCEPT !.small = SmallValues(t)], heap |-> << >>,
                collected |-> {}, assigned |-> {}, trimmed |-> {}]
  IN  buildHeap(FoldSet(LAMBDA node, c : addAbbreviation(c, node), start,
                        used \union SmallValues(t)))

Become(c) ==
  /\ counter' = [counter EXCEPT !.trie = c.trie]
  /\ ValuesHeap' = c.heap
  /\ collected' = c.collected
  /\ Assignments' = c.assigned
  /\ TrimmedNodes' = c.trimmed

\* The sequences are counted as well.
Collect ==
  /\ phase = "count" /\ AtEnd /\ counter.UpToSize = flags.PatternLengthLimit
  /\ Become(StartCollecting(AssumeDefaults(RemoveNodes(trie, flags, counter.UpToSize = 1, FALSE))))
  /\ phase' = "collect"
  /\ pos' = 0
  /\ UNCHANGED << flags, Contents, encoding, writing >>

MoreToConsider ==
  ValuesHeap # << >> /\ Cardinality(Assignments) < flags.MaxAbbreviations

Consider ==
  LET LtFcn(a, b) == Compare(trie, a, b)
  IN  /\ phase = "collect" /\ MoreToConsider
      /\ Become(addAbbreviation([trie |-> trie, heap |-> pop(ValuesHeap, LtFcn),
                                 collected |-> collected, assigned |-> Assignments,
                                 trimmed |-> TrimmedNodes], Head(ValuesHeap)))
      /\ UNCHANGED << flags, phase, Contents, pos, encoding, writing >>

---------------------------------------------------------------------------
\* assignAbbreviations: numbers, in the order of a heap, or Huffman paths.

Encode(weights) ==
  IF flags.UseHuffmanEncoding /\ weights # << >> THEN encodeSymbols(weights, MaxPathLength)
  ELSE [ok |-> TRUE, node |-> NoTree, encoder |-> [paths |-> Numbered(weights)]]

NumberedBy(ordered, code) ==
  [ok |-> code.ok, root |-> code.node,
   index |-> [node \in ToSet(ordered) |-> code.encoder.paths[IndexOf(ordered, node)].path]]

EncodeAll(t, ordered) ==
  NumberedBy(ordered, Encode([i \in DOMAIN ordered |-> t.count[ordered[i]]]))

Numbering(t, nodes) == EncodeAll(t, Ordered(nodes, LAMBDA a, b : Compare(t, a, b)))

\* The end of assignInitialAbbreviations, and zeroSmallUsageCounts.
AssignNumbers(code) ==
  /\ phase' = IF code.ok THEN "write" ELSE "fatal"
  /\ index' = code.index
  /\ EncodingRoot' = code.root

Assign ==
  /\ phase = "collect" /\ ~MoreToConsider
  /\ AssignNumbers(Numbering(trie, Assignments))
  /\ counter' = [counter EXCEPT !.trie = RemoveNodes(trie, flags, FALSE, TRUE)]
  /\ TrimmedNodes' = {} /\ ValuesHeap' = << >> /\ collected' = {}
  /\ UNCHANGED << flags, Contents, pos, Assignments, writing >>

---------------------------------------------------------------------------
\* AbbrevAssignWriter.  `w` is what it holds: the buffer, the default values
\* after it, and the values to be written.

Holding == [buffer |-> Buffer, defaults |-> DefaultValues, values |-> AbbrevValues]

AbbrevValue(node) == [kind |-> "Abbreviation", node |-> node, value |-> 0]
DefaultValue(value) == [kind |-> "Default", node |-> DefaultSingle, value |-> value]
LoopValue(size) == [kind |-> "Loop", node |-> DefaultMultiple, value |-> size]

forwardAbbrevAfterFlush(w, node) == [w EXCEPT !.values = Append(@, AbbrevValue(node))]

flushDefaultValues(w) ==
  LET values == [i \in DOMAIN w.defaults |-> DefaultValue(w.defaults[i])]
      abbrev == IF Len(values) = 1 THEN << AbbrevValue(DefaultSingle) >>
                ELSE << AbbrevValue(DefaultMultiple), LoopValue(Len(values)) >>
  IN  IF values = << >> THEN w
      ELSE [w EXCEPT !.values = @ \o abbrev \o values, !.defaults = << >>]

\* Mutant: the default values come behind the abbreviation.
forwardAbbrevFirst(w, node) == forwardAbbrevAfterFlush(w, node)
forwardAbbrev(w, node) == forwardAbbrevAfterFlush(flushDefaultValues(w), node)

popValuesFromBuffer(w, size) ==
  LET popped[i \in 0 .. size] ==
        IF i = 0 THEN w.buffer
        ELSE IF empty(popped[i - 1]) THEN popped[i - 1] ELSE pop_front(popped[i - 1])
  IN  [w EXCEPT !.buffer = popped[size]]

\* The selections are taken in order, up to the limit; the first one always.
RECURSIVE TakeSelections(_, _, _)
TakeSelections(w, abbrevs, Index) ==
  LET node == Head(abbrevs)
      Length == IF IsInt(node) THEN Len(node.path) ELSE 1
      taken == IF IsInt(node) THEN forwardAbbrev(w, node)
               ELSE [w EXCEPT !.defaults = Append(@, at(w.buffer, 0))]
  IN  IF abbrevs = << >> \/ Index >= flags.PatternLengthLimit THEN w
      ELSE IF IsInt(node) /\ Index > 0 /\ Index + Length > flags.PatternLengthLimit THEN w
      ELSE TakeSelections(popValuesFromBuffer(taken, Length), Tail(abbrevs), Index + Length)

writeFromBuffer(w) == TakeSelections(w, select(Elements(w.buffer), trie, Assignments), 0)

RECURSIVE writeUntilBufferEmpty(_)
writeUntilBufferEmpty(w) ==
  IF empty(w.buffer) THEN w ELSE writeUntilBufferEmpty(writeFromBuffer(w))

bufferValue(w, value) ==
  LET added == [w EXCEPT !.buffer = push_back(@, value)]
  IN  IF full(added.buffer) THEN writeFromBuffer(added) ELSE added

Hold(w) ==
  /\ Buffer' = w.buffer /\ DefaultValues' = w.defaults /\ AbbrevValues' = w.values

WriteValue ==
  /\ phase = "write" /\ ~AtEnd /\ ~IsMark(next)
  /\ Hold(bufferValue(Holding, next.value))
  /\ pos' = pos + 1
  /\ UNCHANGED << flags, phase, Contents, counter, Assignments, collecting, encoding, IntOutput >>

WriteMark ==
  /\ phase = "write" /\ ~AtEnd /\ IsMark(next)
  /\ Hold(forwardAbbrev(flushDefaultValues(writeUntilBufferEmpty(Holding)), MarkNode(next)))
  /\ pos' = pos + 1
  /\ UNCHANGED << flags, phase, Contents, counter, Assignments, collecting, encoding, IntOutput >>

---------------------------------------------------------------------------
\* writeFreezeEof: the last values, and the numbers of all of them.

CountUses(values, node) == Len(SelectSeq(values, LAMBDA v : v = AbbrevValue(node)))

\* reassignAbbreviations: what is used gets its number by how often.
UsedOf(nodes, values) == {node \in nodes : CountUses(values, node) > 0}
Reassigned(used, values) ==
  Numbering([trie EXCEPT !.count = [node \in used |-> CountUses(values, node)] @@ @], used)

\* findSingletonPatterns: the most frequent of the default values.
SingletonCounts(values) ==
  LET count(v) == Len(SelectSeq(values, LAMBDA d : d = DefaultValue(v)))
      used == {v \in Values : count(v) > 0}
  IN  [NewRoot EXCEPT !.count = [n \in {IntNode(<< v >>) : v \in used} |-> count(n.path[1])] @@ @]

SingletonPatterns(values) ==
  LET t == SingletonCounts(values)
      LtFcn(a, b) == Compare(t, a, b)
      ordered == Ordered({n \in Nodes(t) : IsSingleton(n) /\ keep(t, n, flags)}, LtFcn)
      limit == IF flags.MaxAbbreviationsSingle = 0 THEN flags.MaxAbbreviations
               ELSE flags.MaxAbbreviationsSingle
  IN  IF flags.MatchSingletonsLast
      THEN ToSet(SubSeq(ordered, 1, IF Len(ordered) < limit THEN Len(ordered) ELSE limit))
      ELSE {}

\* In cism, the integers of a sequence follow its number.
OutputOf(value, numbers) ==
  IF value.kind # "Abbreviation" THEN << value.value >>
  ELSE << numbers[value.node] >>
         \o IF flags.UseCismModel /\ IsInt(value.node)
            THEN << Len(value.node.path) >> \o value.node.path ELSE << >>

RECURSIVE AllOutput(_, _)
AllOutput(values, numbers) ==
  IF values = << >> THEN << >>
  ELSE OutputOf(Head(values), numbers) \o AllOutput(Tail(values), numbers)

AlignIfNecessary(w) ==
  IF flags.UseHuffmanEncoding THEN forwardAbbrev(w, AlignCount) ELSE w

\* What the writer has and the nodes it has numbered, with the values written.
Finish(w, nodes, code) ==
  /\ Hold(w)
  /\ phase' = IF code.ok THEN "done" ELSE "fatal"
  /\ index' = code.index
  /\ EncodingRoot' = code.root
  /\ Assignments' = nodes
  /\ IntOutput' = IF code.ok THEN AllOutput(w.values, code.index) ELSE << >>

flushValues(w, singles) ==
  LET last == Numbering(SingletonCounts(w.values), singles)
  IN  \E order \in SetToSeqs(singles) :
        LET all == [w EXCEPT !.values = @ \o [i \in DOMAIN order |-> AbbrevValue(order[i])]]
            used == UsedOf(Assignments \union singles, all.values)
        IN  IF flags.ReassignAbbreviations /\ last.ok
            THEN Finish(all, used, Reassigned(used, all.values))
            ELSE Finish(all, Assignments \union singles,
                        [ok |-> last.ok, root |-> EncodingRoot, index |-> last.index @@ index])

Flushed == AlignIfNecessary(flushDefaultValues(writeUntilBufferEmpty(Holding)))

WriteFreezeEof ==
  /\ phase = "write" /\ AtEnd
  /\ \E w \in {Flushed} : flushValues(w, SingletonPatterns(w.values))
  /\ UNCHANGED << flags, Contents, pos, counter, collecting >>

Next ==
  \/ ReadInput \/ InputMalformed
  \/ CountValue \/ CountMark \/ CountSequencesNext
  \/ Collect \/ Consider \/ Assign
  \/ WriteValue \/ WriteMark \/ WriteFreezeEof

Spec == Init /\ [][Next]_vars
=============================================================================
