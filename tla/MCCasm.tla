------------------------------- MODULE MCCasm -------------------------------
EXTENDS Casm

\* Names are sequences of characters, and one of them is empty.
MCPredefined == << << 85 >>, << 102 >> >>
Names == { << 102 >>, << 97 >>, << 97, 98 >>, << >>, << 85 >> }

Leaf == {NodeOf(type, << >>) : type \in {"Void", "LastRead", "Error"}}
          \union {LiteralNode("One"), DefaultInt("U8Const"), IntNode("U8Const", 0, 0),
                  IntNode("I32Const", 23, 2), DefaultInt("Local"), IntNode("Param", 1, 0)}
Use(name) == NodeOf("LiteralUse", << SymbolNode(name) >>)
Small == {NodeOf("Void", << >>), IntNode("U32Const", 2, 0)}

\* Binary trees of a bit format, up to three choices deep.
Accept == NodeOf("BinaryAccept", << >>)
Binaries(below) == {NodeOf("BinarySelect", << a, b >>) : a, b \in below}
Codes == LET one == Binaries({Accept})
             two == Binaries({Accept} \union one)
         IN  {Accept} \union two \union Binaries({Accept} \union two)

Trees ==
  UNION { Leaf,
          {Use(name) : name \in Names},
          {NodeOf("Read", << a >>) : a \in Leaf},
          {NodeOf("Set", << a, b >>) : a, b \in Small},
          {NodeOf("IfThenElse", << Accept, a, b >>) : a, b \in Small},
          {NodeOf(type, << a, b >>) : type \in {"Sequence", "Switch", "Opcode"}, a, b \in Small},
          {NodeOf("Sequence", << >>)},
          {NodeOf("Sequence", << a, b >>) : a, b \in Leaf \union {Use(name) : name \in Names}},
          {NodeOf("Read", << NodeOf("Map", << a, NodeOf("Case", << b, Use(name) >>) >>) >>) :
             a, b \in Small, name \in Names},
          {NodeOf("Sequence", << a, NodeOf("EvalVirtual", << SymbolNode(n), a, b >>), Use(m) >>) :
             a, b \in Small, n, m \in Names},
          {NodeOf("BinaryEval", << code >>) : code \in Codes},
          {NodeOf("Sequence", << NodeOf("BinaryEval", << code >>), IntNode("U8Const", 1, 0) >>) : code \in Codes} }

ParamKinds == {NodeOf("NoParams", << >>), DefaultInt("ParamValues"), DefaultInt("ParamCached")}

DefineOf(name, params, body) ==
  NodeOf("Define", << SymbolNode(name), params, NodeOf("NoLocals", << >>), body >>)

Headers ==
  { << IntNode("U32Const", 6, 0) >>, << DefaultInt("U8Const"), IntNode("U64Const", 3, 1) >>,
    << IntNode("I32Const", 6, 0) >> }
HeaderOf(consts) == NodeOf("SourceHeader", consts)
Flag == NodeOf("AlgorithmFlag", << LiteralNode("One") >>)

MCAlgorithms ==
  {NodeOf("Algorithm", << HeaderOf(<< IntNode("U32Const", 6, 0) >>),
                          DefineOf(<< 102 >>, NodeOf("NoParams", << >>), body) >>) : body \in Trees}
    \union
  {NodeOf("Algorithm", << Flag, DefineOf(<< 97 >>, params, NodeOf("Void", << >>)), HeaderOf(consts),
                          NodeOf("EnclosingAlgorithms", << SymbolNode(<< 98 >>), SymbolNode(name) >>) >>) :
     params \in ParamKinds, consts \in Headers, name \in Names}
=============================================================================
