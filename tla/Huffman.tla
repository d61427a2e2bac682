------------------------------ MODULE Huffman ------------------------------
(***************************************************************************)
(* utils/HuffmanEncoding.cpp: the Huffman tree of an alphabet, and the     *)
(* path of each of its symbols, the decision at the root being the lowest  *)
(* bit.  A tree that is too deep is flattened where that helps.            *)
(*                                                                         *)
(* A node is a record; `symbol` is 0 and there are two kids in a selector. *)
(***************************************************************************)
EXTENDS Naturals, Sequences, SequencesExt, FiniteSetsExt

Symbol(id, weight) ==
  [symbol |-> id, kids |-> << >>, id |-> 0, weight |-> weight, size |-> 1]

Selector(id, kid1, kid2) ==
  [symbol |-> 0, kids |-> << kid1, kid2 >>, id |-> id,
   weight |-> kid1.weight + kid2.weight, size |-> kid1.size + kid2.size]

IsSelector(node) == node.kids # << >>

\* compare: by weight; selectors come first, by size and age, then symbols.
CompareKey(node) ==
  << node.weight, IF IsSelector(node) THEN 0 ELSE 1,
     IF IsSelector(node) THEN node.size ELSE 0, node.id + node.symbol >>

NodeBefore(a, b) ==
  LET ka == CompareKey(a)  kb == CompareKey(b)
  IN  \E i \in 1 .. 4 : ka[i] < kb[i] /\ \A j \in 1 .. i - 1 : ka[j] = kb[j]

\* The two lightest nodes become the kids of a selector, until one is left.
RECURSIVE Combine(_, _)
Combine(nodes, nextId) ==
  LET ordered == SortSeq(nodes, NodeBefore)
  IN  IF Len(nodes) = 1 THEN [root |-> nodes[1], nextId |-> nextId]
      ELSE Combine(Append(SubSeq(ordered, 3, Len(nodes)),
                          Selector(nextId, ordered[2], ordered[1])), nextId + 1)

RECURSIVE Leaves(_)
Leaves(node) ==
  IF IsSelector(node) THEN Leaves(node.kids[1]) \o Leaves(node.kids[2]) ELSE << node >>

\* One ply of a flattened tree: neighbours are paired, an odd one is left.
PairUp(ply, nextId) ==
  [i \in 1 .. (Len(ply) + 1) \div 2 |->
     IF 2 * i > Len(ply) THEN ply[2 * i - 1]
     ELSE Selector(nextId + i - 1, ply[2 * i], ply[2 * i - 1])]

RECURSIVE Plies(_, _)
Plies(ply, nextId) ==
  IF Len(ply) = 1 THEN [root |-> ply[1], nextId |-> nextId]
  ELSE Plies(PairUp(ply, nextId), nextId + (Len(ply) \div 2))

Flatten(node, nextId) == Plies(SortSeq(Leaves(node), NodeBefore), nextId)

BitsNeeded(count) == Min({n \in 1 .. count : 2^n > count})

\* The decision at a selector is the next bit up.
\* Mutant: it is the lowest one.
KidPathLow(path, bits) == 2 * path + 1
KidPath(path, bits) == path + 2^bits

\* installPaths: gives the symbols below a node their paths, and the node
\* that is to take its place; a symbol too deep makes it fail.
RECURSIVE installPaths(_, _, _, _, _)

InstallSymbol(node, path, bits, limit, encoder) ==
  [ok |-> bits <= limit, node |-> node,
   encoder |-> IF bits > limit THEN encoder
               ELSE [encoder EXCEPT !.paths[node.symbol] = [path |-> path, bits |-> bits]]]

Joined(sel, k1, k2) ==
  [ok |-> k1.ok /\ k2.ok, encoder |-> k2.encoder,
   node |-> IF k1.ok /\ k2.ok THEN Selector(sel.id, k1.node, k2.node) ELSE sel]

InstallKid2(sel, k1, path, bits, limit) ==
  Joined(sel, k1, installPaths(sel.kids[2], KidPath(path, bits), bits + 1, limit, k1.encoder))

InstallKids(sel, path, bits, limit, encoder) ==
  InstallKid2(sel, installPaths(sel.kids[1], path, bits + 1, limit, encoder), path, bits, limit)

\* The second try, where there is room for a tree that is balanced.
InstallFlat(flat, path, bits, limit, encoder) ==
  InstallKids(flat.root, path, bits, limit, [encoder EXCEPT !.nextId = flat.nextId])

FirstOrFlat(first, node, path, bits, limit) ==
  IF first.ok \/ bits + BitsNeeded(node.size) > limit THEN first
  ELSE InstallFlat(Flatten(node, first.encoder.nextId), path, bits, limit, first.encoder)

installPaths(node, path, bits, limit, encoder) ==
  IF ~IsSelector(node) THEN InstallSymbol(node, path, bits, limit, encoder)
  ELSE FirstOrFlat(InstallKids(node, path, bits, limit, encoder), node, path, bits, limit)

\* createSymbol: the number of a symbol is its path until it is encoded.
Numbered(weights) == [i \in DOMAIN weights |-> [path |-> i - 1, bits |-> 0]]

InstallRoot(tree, paths, limit) ==
  installPaths(tree.root, 0, 0, limit, [nextId |-> tree.nextId, paths |-> paths])

encodeSymbols(weights, limit) ==
  InstallRoot(Combine([i \in DOMAIN weights |-> Symbol(i, weights[i])], 0),
              Numbered(weights), limit)
=============================================================================
