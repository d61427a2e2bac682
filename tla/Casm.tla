-------------------------------- MODULE Casm --------------------------------
(***************************************************************************)
(* An algorithm is written as integers in postorder (casm/FlattenAst.cpp), *)
(* read by the algorithm for algorithms (algorithms/casm0x0.cast, or the   *)
(* part of it that boots, casm0x0Boot.cast), whose actions rebuild the     *)
(* tree on a stack of values and a stack of trees (casm/InflateAst.cpp).   *)
(* Names travel in a table, symbols as places in it (casm/SymbolIndex.cpp).*)
(***************************************************************************)
EXTENDS Ast, FiniteSets

CONSTANTS Algorithms,       \* trees the grammar makes (sexp-parser/Parser.ypp)
          Readers,          \* subset of {"casm-boot", "casm"}
          PredefinedName    \* names with a fixed place; the first is "Unknown"'s

ASSUME CasmAssumption ==
  Readers \subseteq {"casm-boot", "casm"} /\ PredefinedName # << >>

VARIABLES alg, BitCompress,     \* what is flattened, and how
          header, symbols, nodes,   \* the flattened form
          reader,               \* which algorithm reads it
          at,                   \* how much of the flattened form has been read
          Values, Asts,         \* the stacks of InflateAst
          names,                \* its SymbolIndex
          ok                    \* whether every action has succeeded

input == << alg, BitCompress, header, symbols, nodes, reader >>
vars == << input, at, Values, Asts, names, ok >>

---------------------------------------------------------------------------
\* SymbolIndex.

NumPredefinedSymbols == Len(PredefinedName)

\* Unknown is what is said of a symbol that is not predefined, too.
PredefinedIndex(name) == {i \in 2 .. NumPredefinedSymbols : PredefinedName[i] = name}

addSymbol(index, name) ==
  IF PredefinedIndex(name) # {} \/ name \in Range(index) THEN index ELSE Append(index, name)

installSymbols(nd) ==
  FoldLeft(LAMBDA index, sub : IF sub.type = "Symbol" THEN addSymbol(index, sub.name) ELSE index,
           << >>, Preorder(nd))

getSymbolIndex(index, name) ==
  IF PredefinedIndex(name) # {} THEN (CHOOSE i \in PredefinedIndex(name) : TRUE) - 1
  ELSE (CHOOSE i \in DOMAIN index : index[i] = name) - 1 + NumPredefinedSymbols

\* Mutant: the places of the table are taken for those of all symbols.
getIndexSymbolUnshifted(index, i) ==
  IF i < NumPredefinedSymbols THEN PredefinedName[i + 1] ELSE index[Len(index)]

getIndexSymbol(index, i) ==
  IF i < NumPredefinedSymbols THEN PredefinedName[i + 1] ELSE index[i - NumPredefinedSymbols + 1]

---------------------------------------------------------------------------
\* FlattenAst.

\* Nodes come off the frontier last kid first; what is noted is turned round.
RECURSIVE BitsBackwards(_)
BitsBackwards(nd) ==
  << IF nd.type = "BinarySelect" THEN 1 ELSE 0 >>
    \o ConcatMap(BitsBackwards, Reverse(nd.kids))

binaryEvalEncode(nd) ==
  LET bits == Reverse(BitsBackwards(nd.kids[1]))
  IN  << NodeType.BinaryEvalBits, Len(bits) >> \o bits

RECURSIVE flattenNode(_, _)
flattenNode(nd, index) ==
  LET kids == ConcatMap(LAMBDA kid : flattenNode(kid, index), nd.kids)
      op == << NodeType[nd.type] >>
  IN  CASE nd.type = "BinaryEval" /\ BitCompress -> binaryEvalEncode(nd)
        [] nd.type \in Integer ->
             op \o IF nd.default THEN << 0 >> ELSE << nd.format + 1, nd.value >>
        [] nd.type = "Symbol" -> op \o << getSymbolIndex(index, nd.name) >>
        [] nd.type \in Nary \union Select \union {"Opcode"} -> kids \o op \o << Len(nd.kids) >>
        [] OTHER -> kids \o op

getSourceHeader(nd) == KidsOfType(nd, "SourceHeader")[1]

\* Of an algorithm: the values of the header, each with its format; the
\* names; and the nodes, with the algorithm's own last.
IntTypeFormat(nd) ==
  CASE nd.type = "U8Const" -> "Uint8" [] nd.type = "I32Const" -> "Varint32"
    [] nd.type = "U32Const" -> "Uint32" [] nd.type = "I64Const" -> "Varint64"
    [] nd.type = "U64Const" -> "Uint64"

HeaderValues(nd) ==
  LET consts == getSourceHeader(nd).kids
  IN  [i \in DOMAIN consts |-> [value |-> consts[i].value, format |-> IntTypeFormat(consts[i])]]

NodeValues(nd) ==
  LET index == installSymbols(nd)
      rest == SelectSeq(nd.kids, LAMBDA kid : kid # getSourceHeader(nd))
  IN  ConcatMap(LAMBDA kid : flattenNode(kid, index), rest)
        \o << NodeType.Algorithm, Len(nd.kids) >>

---------------------------------------------------------------------------
\* InflateAst, as operators on a record of its stacks.

Inflater == [Values |-> Values, Asts |-> Asts, names |-> names, ok |-> ok]
Fails(inf) == [inf EXCEPT !.ok = FALSE]

Drop(s, n) == SubSeq(s, 1, Len(s) - n)
Top(s, n) == SubSeq(s, Len(s) - n + 1, Len(s))

write(inf, value) == [inf EXCEPT !.Values = Append(@, value)]

\* buildNullary to buildTernary: the kids are on top, the last one last.
Build(inf, type, arity) ==
  [inf EXCEPT !.Values = Front(@),
              !.Asts = Append(Drop(@, arity), Create(type, Top(@, arity)))]

\* Mutant: the kids come as they come off the stack.
appendArgsPopped(inf, type) ==
  LET arity == Last(inf.Values)
  IN  [inf EXCEPT !.Values = Drop(@, 2),
                  !.Asts = Append(Drop(@, arity), NodeOf(type, Reverse(Top(@, arity))))]

appendArgs(inf, type) ==
  LET arity == Last(inf.Values)
  IN  [inf EXCEPT !.Values = Drop(@, 2),
                  !.Asts = Append(Drop(@, arity), NodeOf(type, Top(@, arity)))]

\* getGeneratedFile: an algorithm is all there is when it is complete.
IsGeneratedFile(inf) == Len(inf.Asts) = 1 /\ inf.Asts[1].type = "Algorithm"

applyOp(inf, opcode) ==
  LET type == TypeOf(opcode)
      built == appendArgs(inf, type)
  IN  CASE type = "Algorithm" -> IF IsGeneratedFile(built) THEN built ELSE Fails(built)
        [] type = "Symbol" ->
             [inf EXCEPT !.Values = Drop(@, 2),
                         !.Asts = Append(@, SymbolNode(getIndexSymbol(inf.names, Last(inf.Values))))]
        [] type \in Nullary \union Literal -> Build(inf, type, 0)
        [] type \in Unary -> Build(inf, type, 1)
        [] type \in Binary -> Build(inf, type, 2)
        [] type \in Ternary -> Build(inf, type, 3)
        [] type \in (Nary \union Select) \ {"Algorithm"} -> built
        [] type \in Integer \union {"BinaryEvalBits", "Opcode"} -> Fails(inf)

\* Int_value_begin and Int_value_end around what is read of an integer node.
Inflatable == Integer \ {"ParamCached", "ParamExprsCached"}

intValue(inf, read) ==
  LET type == TypeOf(Last(inf.Values))
      node == IF Len(read) = 1 THEN DefaultInt(type) ELSE IntNode(type, read[2], read[1] - 1)
  IN  IF type \notin Inflatable THEN Fails(inf)
      ELSE [inf EXCEPT !.Values = Front(@), !.Asts = Append(@, node)]

\* Symbol_name_begin and Symbol_name_end: the characters are what is on top.
symbolName(inf, name) ==
  LET begun == [write(inf, Len(name)) EXCEPT !.Values = Front(@)]
      spelled == FoldLeft(write, begun, name)
  IN  [spelled EXCEPT !.Values = Drop(@, Len(name)),
                      !.names = addSymbol(@, Top(spelled.Values, Len(name)))]

\* Binary_bit: the node's number is pushed on the bit, and taken off it again.
binaryBit(inf, bit) ==
  LET pushed == write(write(inf, bit), NodeType.BinaryAccept)
  IN  IF bit = 1 THEN Build(pushed, "BinarySelect", 2) ELSE Build(pushed, "BinaryAccept", 0)

binaryEnd(inf) == Build(write(inf, NodeType.BinaryEval), "BinaryEval", 1)

HexadecimalFormat == 2

headerConst(format) ==
  CASE format = "Uint8" -> "U8Const" [] format = "Uint32" -> "U32Const" [] format = "Uint64" -> "U64Const"

Inflates(inf) ==
  Values' = inf.Values /\ Asts' = inf.Asts /\ names' = inf.names /\ ok' = inf.ok

---------------------------------------------------------------------------
\* What the reading algorithm does with a node, by the kind of its opcode.

PostorderBoot ==
  { "AlgorithmFlag", "AlgorithmName", "Bit", "Block", "Case", "Error", "IfThen",
    "LiteralActionUse", "LiteralDef", "LiteralUse", "Loop", "LoopUnbounded", "NoLocals",
    "NoParams", "One", "Rename", "Uint8", "Varint32", "Varint64", "Varuint32", "Varuint64",
    "Void", "Zero", "Callback" }
NaryBoot ==
  { "Define", "EnclosingAlgorithms", "EvalVirtual", "Algorithm", "LiteralActionBase",
    "Sequence", "Switch" }
IntBoot == { "ParamExprs", "Param", "ParamValues", "U32Const", "U8Const", "U64Const" }

PostorderInst ==
  PostorderBoot \union
  IF reader = "casm-boot" THEN {} ELSE
  { "BinaryAccept", "And", "BinarySelect", "BitwiseAnd", "BitwiseNegate", "BitwiseOr",
    "BitwiseXor", "IfThenElse", "LastRead", "LastSymbolIs", "LiteralActionDef", "Not",
    "BinaryEval", "Or", "Peek", "Read", "Set", "Table", "Undefine", "Uint32", "Uint64" }
NaryInst ==
  NaryBoot \union
  IF reader = "casm-boot" THEN {} ELSE
  { "SourceHeader", "ReadHeader", "WriteHeader", "Map", "Opcode", "Write" }
IntInst ==
  IntBoot \union
  IF reader = "casm-boot" THEN {} ELSE { "Local", "Locals", "I32Const", "I64Const" }
BitsInst == IF reader = "casm-boot" THEN {} ELSE { "BinaryEvalBits" }

---------------------------------------------------------------------------
\* One step for each value of the header, each name and each node.

InHeader == at < Len(header)
InSymbols == at >= Len(header) /\ at < Len(header) + Len(symbols)
NodesRead == at - Len(header) - Len(symbols)
InNodes == NodesRead >= 0 /\ NodesRead < Len(nodes)
Done == NodesRead = Len(nodes)

WriteHeaderValue ==
  LET read == header[at + 1]
      begun == IF Asts = << >> THEN << NodeOf("SourceHeader", << >>) >> ELSE Asts
      const == IntNode(headerConst(read.format), read.value, HexadecimalFormat)
  IN  /\ ok /\ InHeader
      /\ IF Len(begun) = 1 /\ read.format \in {"Uint8", "Uint32", "Uint64"}
         THEN Inflates([Inflater EXCEPT !.Asts = << [begun[1] EXCEPT !.kids = Append(@, const)] >>])
         ELSE Inflates(Fails(Inflater))
      /\ at' = at + 1 /\ UNCHANGED input

\* The number of names is read before the first of them.
ReadSymbol ==
  LET place == at - Len(header) + 1
      counted == IF place = 1 THEN write(Inflater, Len(symbols)) ELSE Inflater
  IN  /\ ok /\ InSymbols
      /\ Inflates(symbolName(counted, symbols[place]))
      /\ at' = at + 1 /\ UNCHANGED input

Type == TypeOf(nodes[NodesRead + 1])
Operand(i) == nodes[NodesRead + 1 + i]
Entered == write(Inflater, NodeType[Type])

Takes(n) == at' = at + 1 + n /\ UNCHANGED input

ReadPostorder ==
  /\ ok /\ InNodes /\ Type \in PostorderInst
  /\ Inflates(applyOp(Entered, NodeType[Type])) /\ Takes(0)

ReadNary ==
  /\ ok /\ InNodes /\ Type \in NaryInst
  /\ Inflates(applyOp(write(Entered, Operand(1)), NodeType[Type])) /\ Takes(1)

ReadInt ==
  /\ ok /\ InNodes /\ Type \in IntInst
  /\ LET read == IF Operand(1) = 0 THEN << 0 >> ELSE << Operand(1), Operand(2) >>
     IN  Inflates(intValue(Entered, read)) /\ Takes(Len(read))

ReadSymbolUse ==
  /\ ok /\ InNodes /\ Type = "Symbol"
  /\ Inflates(applyOp(write(Entered, Operand(1)), NodeType.Symbol)) /\ Takes(1)

ReadBits ==
  LET bits == [i \in 1 .. Operand(1) |-> Operand(i + 1)]
      counted == write(Entered, Len(bits))
  IN  /\ ok /\ InNodes /\ Type \in BitsInst
      /\ Inflates(binaryEnd(FoldLeft(binaryBit, counted, bits)))
      /\ Takes(1 + Len(bits))

\* The default of the switch.
ReadError ==
  /\ ok /\ InNodes
  /\ Type \notin UNION {PostorderInst, NaryInst, IntInst, BitsInst, {"Symbol"}}
  /\ Inflates(Fails(Entered)) /\ UNCHANGED << input, at >>

Init ==
  /\ alg \in Algorithms /\ BitCompress \in BOOLEAN /\ reader \in Readers
  /\ header = HeaderValues(alg) /\ symbols = installSymbols(alg) /\ nodes = NodeValues(alg)
  /\ at = 0 /\ Values = << >> /\ Asts = << >> /\ names = << >> /\ ok = TRUE

Next ==
  \/ WriteHeaderValue \/ ReadSymbol
  \/ ReadPostorder \/ ReadNary \/ ReadInt \/ ReadSymbolUse \/ ReadBits \/ ReadError

Spec == Init /\ [][Next]_vars

---------------------------------------------------------------------------
\* At every node, the stack of trees stands for exactly what has been read
\* since the names, whatever is left over on the stack of values: no operator
\* takes a tree that is not its own, or leaves one behind.
StackRoundTrip ==
  ok /\ NodesRead >= 0 /\ ~Done =>
    ConcatMap(LAMBDA tree : flattenNode(tree, names), Tail(Asts)) = SubSeq(nodes, 1, NodesRead)

\* What inflating makes of an algorithm: the same tree, with its header first
\* and the header's constants in hexadecimal.
Inflated(nd) ==
  LET source == getSourceHeader(nd)
      plain(const) == IntNode(const.type, const.value, HexadecimalFormat)
  IN  [nd EXCEPT !.kids = << [source EXCEPT !.kids = [i \in DOMAIN @ |-> plain(@[i])]] >>
                             \o SelectSeq(nd.kids, LAMBDA kid : kid # source)]

\* The nodes that get through: those the reading algorithm has a case for and
\* that the inflater knows how to make.
Transportable ==
  ((UNION {PostorderInst, NaryInst, IntInst, {"Symbol"}}) \ {"Opcode"})
    \union (IF BitCompress /\ BitsInst # {} THEN {"BinaryEval", "BinarySelect", "BinaryAccept"} ELSE {})

GetsThrough(nd) ==
  /\ TypesIn([nd EXCEPT !.kids = SelectSeq(@, LAMBDA kid : kid # getSourceHeader(nd))]) \subseteq Transportable
  /\ \A i \in DOMAIN HeaderValues(nd) : HeaderValues(nd)[i].format \in {"Uint8", "Uint32", "Uint64"}

\* An algorithm is inflated whole exactly if all its nodes get through; it is
\* never inflated as another one.
InflatesWholeOrNotAtAll ==
  /\ ok /\ Done => Asts = << Inflated(alg) >> /\ GetsThrough(alg)
  /\ ~ok => ~GetsThrough(alg)
=============================================================================
