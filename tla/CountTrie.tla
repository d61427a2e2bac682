----------------------------- MODULE CountTrie -----------------------------
(***************************************************************************)
(* intcomp/CountNode, CountWriter and RemoveNodesVisitor: how often each   *)
(* sequence of integers, and everything else there is an abbreviation for, *)
(* occurs in the input.  A node is a record with its kind and the integers *)
(* on the way to it; a trie has the counts of its nodes and which of the   *)
(* singletons are small values.  `flags` are the CompressionFlags.         *)
(***************************************************************************)
EXTENDS Formats, SequencesExt, TLC

CONSTANT Values     \* the integers of the input

IntNode(path) == [kind |-> "Int", path |-> path]
OtherNode(kind) == [kind |-> kind, path |-> << >>]
BlockEnter == OtherNode("BlockEnter")
BlockExit == OtherNode("BlockExit")
DefaultSingle == OtherNode("DefaultSingle")
DefaultMultiple == OtherNode("DefaultMultiple")
AlignCount == OtherNode("Align")
Others == {BlockEnter, BlockExit, DefaultSingle, DefaultMultiple, AlignCount}

IsInt(node) == node.path # << >>
IsSingleton(node) == Len(node.path) = 1
Parent(node) == [node EXCEPT !.path = Front(@)]

NewRoot == [count |-> [node \in Others |-> 0], small |-> {}]
Nodes(trie) == DOMAIN trie.count

\* lookup and increment: a node that is not there is added.
lookup(trie, node) ==
  IF node \in Nodes(trie) THEN trie ELSE [trie EXCEPT !.count = (node :> 0) @@ @]
increment(trie, node, n) == [lookup(trie, node) EXCEPT !.count[node] = @ + n]

---------------------------------------------------------------------------
\* getWeight: what the occurrences of a node take in the input.

MinFormatSize == [value \in Values |->
  getByteSize(value, IntTypeFormat[getFirstMinimumFormat(value)])]

PathWeight(node) ==
  IF IsInt(node) THEN FoldSeq(LAMBDA value, sum : MinFormatSize[value] + sum, 0, node.path)
  ELSE 1
Weight(trie, node) == trie.count[node] * PathWeight(node)

\* compare: the heaviest come first, then those with the fewest occurrences,
\* then by kind, and in the end by the integers, from the last to the first.
OtherRank == [BlockEnter |-> 1, BlockExit |-> 2, DefaultSingle |-> 3,
              DefaultMultiple |-> 4, Align |-> 5]
Rank(node) == IF ~IsInt(node) THEN OtherRank[node.kind] ELSE IF IsSingleton(node) THEN 6 ELSE 7

PathBefore(p, q) ==
  LET r == Reverse(p)  s == Reverse(q)
      shared == IF Len(r) < Len(s) THEN Len(r) ELSE Len(s)
      differ == {i \in 1 .. shared : r[i] # s[i]}
  IN  IF differ = {} THEN Len(r) < Len(s) ELSE r[Min(differ)] < s[Min(differ)]

Compare(trie, a, b) ==
  LET wa == Weight(trie, a)  wb == Weight(trie, b)
  IN  \/ wa > wb
      \/ wa = wb /\ trie.count[a] < trie.count[b]
      \/ /\ wa = wb /\ trie.count[a] = trie.count[b]
         /\ \/ Rank(a) < Rank(b)
            \/ Rank(a) = Rank(b) /\ PathBefore(a.path, b.path)

\* The members of a set, as they leave a heap.
Ordered(set, LtFcn(_, _)) ==
  [i \in 1 .. Cardinality(set) |->
     CHOOSE x \in set : Cardinality({y \in set : LtFcn(y, x)}) = i - 1]

smallValueKeep(trie, node, flags) ==
  \/ ~IsInt(node)
  \/ node \in trie.small /\ trie.count[node] >= flags.SmallValueCountCutoff

keep(trie, node, flags) ==
  \/ smallValueKeep(trie, node, flags)
  \/ trie.count[node] >= flags.CountCutoff /\ Weight(trie, node) >= flags.WeightCutoff

keepSingletonsUsingCount(trie, node, flags) ==
  IF IsSingleton(node)
  THEN smallValueKeep(trie, node, flags) \/ trie.count[node] >= flags.CountCutoff
  ELSE keep(trie, node, flags)

---------------------------------------------------------------------------
\* CountWriter, which has counted its way up to the frontier.

\* The nodes of a frontier are of different lengths: it is a set.
addToUsageMap(counter, value, flags) ==
  LET top == IntNode(<< value >>)
      trie == lookup(counter.trie, top)
      common == Weight(trie, top) >= flags.CountCutoff
      longer == {IntNode(Append(node.path, value)) :
                   node \in {n \in counter.Frontier : Len(n.path) < counter.UpToSize}}
      grown == IF common THEN longer ELSE {}
  IN  IF counter.UpToSize = 1
      THEN [counter EXCEPT !.trie = increment(trie, top, 1)]
      ELSE [counter EXCEPT !.trie = FoldSet(LAMBDA n, t : increment(t, n, 1), trie, grown),
                           !.Frontier = grown \union IF common THEN {top} ELSE {}]

\* Mutant: the sequences go on behind the block.
CountBlockAndGoOn(counter, node) == [counter EXCEPT !.trie = increment(@, node, 1)]
CountBlock(counter, node) ==
  [counter EXCEPT !.trie = increment(@, node, 1), !.Frontier = {}]

---------------------------------------------------------------------------
\* RemoveNodesVisitor: from the leaves up, what is not kept and has no
\* successors (left) goes.  The uses of a singleton become default ones.

RemoveNodes(trie, flags, KeepSingletonsUsingCount, ZeroOutSmallNodes) ==
  LET Keep(node) == IF KeepSingletonsUsingCount
                    THEN keepSingletonsUsingCount(trie, node, flags)
                    ELSE keep(trie, node, flags)
      kept == {node \in Nodes(trie) : Keep(node)}
      stays == {node \in Nodes(trie) : \E k \in kept : IsPrefix(node.path, k.path)} \ Others
      gone == {node \in Nodes(trie) \ (stays \union Others) : IsSingleton(node)}
      lost == FoldSet(LAMBDA node, sum : trie.count[node] + sum, 0, gone)
      count == [node \in stays \union Others |->
                  IF ZeroOutSmallNodes /\ node \notin kept THEN 0 ELSE trie.count[node]]
  IN  [count |-> [count EXCEPT ![DefaultSingle] = @ + lost],
       small |-> trie.small \intersect stays]
=============================================================================
