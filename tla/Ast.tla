-------------------------------- MODULE Ast --------------------------------
(***************************************************************************)
(* The trees that algorithms are made of, as the tables of                 *)
(* sexp/Ast-defs.h declare them: the kinds of nodes by the number of their *)
(* kids, the numbers that stand for them, and how a node is made.          *)
(***************************************************************************)
EXTENDS Integers, Sequences, SequencesExt

Nullary == { "Bit", "Error", "LastRead", "NoLocals", "NoParams", "Uint32", "Uint64", "Uint8",
             "Varint32", "Varint64", "Varuint32", "Varuint64", "Void", "BinaryAccept" }
Integer == { "I32Const", "I64Const", "Local", "Locals", "Param", "ParamCached", "ParamExprs",
             "ParamExprsCached", "ParamValues", "U8Const", "U32Const", "U64Const" }
Literal == { "Zero", "One" }
Unary == { "AlgorithmFlag", "AlgorithmName", "Block", "BitwiseNegate", "Callback",
           "LastSymbolIs", "LiteralActionUse", "LiteralUse", "LoopUnbounded", "Not", "Peek",
           "Read", "Undefine", "UnknownSection", "BinaryEval" }
Binary == { "And", "BinarySelect", "BitwiseAnd", "BitwiseOr", "BitwiseXor", "Case", "IfThen",
            "LiteralActionDef", "LiteralDef", "Loop", "Or", "Rename", "Set", "Table" }
Ternary == { "IfThenElse" }
Select == { "Switch", "Map" }
Nary == { "Algorithm", "Define", "EnclosingAlgorithms", "EvalVirtual", "LiteralActionBase",
          "ParamArgs", "ReadHeader", "Sequence", "SourceHeader", "Write", "WriteHeader" }

\* AST_OPCODE_TABLE.  BinaryEvalBits stands for a BinaryEval in a file only.
NodeType ==
  [ Block |-> 1, Case |-> 2, Error |-> 3, EvalVirtual |-> 4, Loop |-> 7, LoopUnbounded |-> 8,
    Switch |-> 9, Sequence |-> 10, IfThen |-> 11, IfThenElse |-> 12,
    Void |-> 16, Symbol |-> 17, I32Const |-> 18, I64Const |-> 19, U8Const |-> 20,
    U32Const |-> 21, U64Const |-> 22, Zero |-> 23, One |-> 24,
    Uint32 |-> 32, Uint64 |-> 33, Uint8 |-> 34, Varint32 |-> 35, Varint64 |-> 36,
    Varuint32 |-> 37, Varuint64 |-> 38, Opcode |-> 39, BinaryAccept |-> 40,
    BinarySelect |-> 41, BinaryEval |-> 42, Bit |-> 43, BinaryEvalBits |-> 44,
    And |-> 48, Or |-> 49, Not |-> 50, BitwiseAnd |-> 52, BitwiseOr |-> 53, BitwiseXor |-> 54,
    BitwiseNegate |-> 55, LastSymbolIs |-> 56,
    Peek |-> 64, Read |-> 65, LastRead |-> 66, Write |-> 67, Table |-> 68,
    Param |-> 81, Local |-> 83, Set |-> 84, Map |-> 85, Callback |-> 86,
    Define |-> 96, NoLocals |-> 97, Algorithm |-> 98, Undefine |-> 100, LiteralDef |-> 101,
    LiteralUse |-> 102, Rename |-> 103, Locals |-> 104, ParamValues |-> 105,
    LiteralActionDef |-> 106, LiteralActionUse |-> 107, LiteralActionBase |-> 108,
    SourceHeader |-> 119, ReadHeader |-> 120, WriteHeader |-> 121, AlgorithmFlag |-> 122,
    ParamExprs |-> 123, ParamExprsCached |-> 124, ParamCached |-> 125, ParamArgs |-> 126,
    NoParams |-> 127, AlgorithmName |-> 128, EnclosingAlgorithms |-> 129, UnknownSection |-> 255 ]

TypeOf(opcode) == CHOOSE type \in DOMAIN NodeType : NodeType[type] = opcode

---------------------------------------------------------------------------
\* A node.  The value and the format are those of an IntegerNode, which may
\* have been made without one; the name is a Symbol's.

NodeOf(type, kids) ==
  [type |-> type, kids |-> kids, value |-> 0, format |-> 0, default |-> TRUE, name |-> << >>]

DefaultInt(type) ==
  [NodeOf(type, << >>) EXCEPT !.value = IF type = "ParamCached" THEN 1 ELSE 0]

IntNode(type, value, format) ==
  [NodeOf(type, << >>) EXCEPT !.value = value, !.format = format, !.default = FALSE]

LiteralNode(type) == [NodeOf(type, << >>) EXCEPT !.value = IF type = "One" THEN 1 ELSE 0]

SymbolNode(name) == [NodeOf("Symbol", << >>) EXCEPT !.name = name]

Create(type, kids) == IF type \in Literal THEN LiteralNode(type) ELSE NodeOf(type, kids)

\* What Of makes of each node of a sequence, one after the other.
RECURSIVE ConcatMap(_, _)
ConcatMap(Of(_), nds) ==
  IF nds = << >> THEN << >> ELSE Of(Head(nds)) \o ConcatMap(Of, Tail(nds))

RECURSIVE Preorder(_)
Preorder(nd) == << nd >> \o ConcatMap(Preorder, nd.kids)

TypesIn(nd) == {sub.type : sub \in Range(Preorder(nd))}

KidsOfType(nd, type) == SelectSeq(nd.kids, LAMBDA kid : kid.type = type)
=============================================================================
