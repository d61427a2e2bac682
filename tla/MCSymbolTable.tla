--------------------------- MODULE MCSymbolTable ---------------------------
EXTENDS SymbolTable

MCPredefined == << << 85 >>, << 66 >> >>
f == << 102 >>
g == << 103 >>
h == << 104 >>
a == << 97 >>
b == << 98 >>
k == << 107 >>
A == << 65 >>
B == << 66, 66 >>
C == << 67 >>

Const(n) == IntNode("U8Const", n, 0)
Node0(type) == NodeOf(type, << >>)
Sym(type, name) == NodeOf(type, << SymbolNode(name) >>)
Pair(type, name, nd) == NodeOf(type, << SymbolNode(name), nd >>)
DefineOf(name, params, locals, body) == NodeOf("Define", << SymbolNode(name), params, locals, body >>)
Simple(name, body) == DefineOf(name, Node0("NoParams"), Node0("NoLocals"), body)
Params(type, n) == IntNode(type, n, 0)
Call(name) == NodeOf("Callback", << Sym("LiteralActionUse", name) >>)
CallNumber(n) == NodeOf("Callback", << Const(n) >>)
Eval(name, args) == NodeOf("EvalVirtual", << SymbolNode(name) >> \o args)
Steps(nds) == NodeOf("Sequence", nds)
CaseOf(key, nd) == NodeOf("Case", << key, nd >>)
Use == Sym("LiteralUse", k)
Header(type, n) == NodeOf(type, << Const(n) >>)
Base(n, names) == NodeOf("LiteralActionBase", << Const(n) >> \o [i \in DOMAIN names |-> SymbolNode(names[i])])
Enclosing(names) == NodeOf("EnclosingAlgorithms", [i \in DOMAIN names |-> SymbolNode(names[i])])
Read1 == NodeOf("Read", << Node0("Uint8") >>)

Alg(nds) == NodeOf("Algorithm", nds)
\* A file is known by a letter, or is what it holds.
Id(letter) == [letter |-> letter, main |-> Alg(<< >>)]
MCNoFile == Id("none")
File(alg, include) == [alg |-> alg, include |-> Id(include)]

\* The files that others are enclosed in: one that is plain, one that is enclosed
\* by name, two that include and name each other, one that includes itself, and two more.
FileA == File(Alg(<< Simple(f, Read1), Sym("AlgorithmName", A), Header("SourceHeader", 1),
                     Pair("LiteralDef", k, Const(3)), Base(103, << a, h >>) >>), "none")
FileB == File(Alg(<< Header("SourceHeader", 1), Header("ReadHeader", 2), Sym("AlgorithmName", B),
                     Enclosing(<< A >>), Pair("Rename", f, SymbolNode(h)),
                     Pair("LiteralDef", k, Const(4)),
                     DefineOf(g, Params("ParamValues", 1), Node0("NoLocals"), Call(b)) >>), "none")
FileC == File(Alg(<< Header("SourceHeader", 3), Sym("AlgorithmName", C), Enclosing(<< C >>) >>), "none")
FileD == File(Alg(<< Header("SourceHeader", 3), Sym("AlgorithmName", C), Enclosing(<< h >>) >>), "E")
FileE == File(Alg(<< Header("SourceHeader", 4), Sym("AlgorithmName", h), Enclosing(<< C >>) >>), "none")
FileF == File(Alg(<< Header("SourceHeader", 5) >>), "F")
FileH == File(Alg(<< Header("SourceHeader", 6), Sym("AlgorithmName", h), Simple(h, Read1),
                     Pair("LiteralDef", k, Const(4)) >>), "none")
FileG == File(Alg(<< Header("SourceHeader", 2), Simple(g, Call(h)) >>), "A")

\* Bodies of a define, by what their checks look at.
Accepts == NodeOf("BinaryAccept", << >>)
Choice(x, y) == NodeOf("BinarySelect", << x, y >>)
Codes == {Choice(x, y) : x, y \in {Accepts, Choice(Accepts, Accepts), Choice(Choice(Accepts, Accepts), Accepts)}}
OpcodeOf(selector, cases) == NodeOf("Opcode", << Node0(selector) >> \o cases)
Bits == OpcodeOf("Bit", << CaseOf(Const(0), OpcodeOf("Bit", << >>)), CaseOf(Const(1), OpcodeOf("LastRead", << >>)) >>)

Bodies ==
  { Steps(<< Call(a), Read1, Call(b) >>), Steps(<< Call(a), Call(b) >>), Steps(<< Call(a), Eval(f, << >>) >>),
    Steps(<< CallNumber(103), Call(h), Use >>), Steps(<< CallNumber(200), Call(a) >>), Call(<< 66 >>),
    Steps(<< Call(<< 66 >>), Read1, Steps(<< Use, Call(b) >>) >>),
    NodeOf("Switch", << Read1, CaseOf(Use, Read1), CaseOf(Const(4), Call(a)) >>),
    NodeOf("Loop", << Use, Steps(<< Call(h), Read1 >>) >>),
    Steps(<< Eval(h, << >>), Eval(g, << Read1 >>) >>), Eval(g, << >>), Eval(g, << Call(a) >>),
    Read1, Node0("Void"), Steps(<< >>), NodeOf("Write", << Use, Node0("Void"), Read1 >>) }

Checked ==
  UNION { {NodeOf("BinaryEval", << code >>) : code \in Codes},
          { Bits, OpcodeOf("Bit", << >>), OpcodeOf("Uint8", << CaseOf(Const(0), Read1) >>),
            CaseOf(Const(0), Read1), NodeOf("Callback", << Read1 >>), IntNode("Local", 0, 0),
            NodeOf("Map", << Read1, CaseOf(Use, CaseOf(Const(3), Read1)) >>) } }

Decls ==
  { << >>, << Pair("LiteralDef", k, Const(5)) >>, << Simple(f, Use), Pair("LiteralDef", k, Const(5)) >>,
    << Pair("LiteralActionDef", a, Const(7)) >>, << Base(101, << a, b >>) >>,
    << Pair("LiteralActionDef", a, Const(7)), Pair("LiteralActionDef", h, Const(7)) >>,
    << Pair("LiteralActionDef", a, Const(1)) >>, << Pair("LiteralActionDef", << 66 >>, Const(9)) >>,
    << Pair("Rename", f, SymbolNode(g)) >>, << Sym("Undefine", f) >>, << Simple(f, Read1), Sym("Undefine", f) >>,
    << NodeOf("AlgorithmFlag", << LiteralNode("One") >>), Header("WriteHeader", 5) >>,
    << Header("ReadHeader", 1) >>, << Header("SourceHeader", 1) >>, << Base(3, << a >>), Base(4, << h >>) >> }

Encloses == { << >>, << Enclosing(<< A >>) >>, << Enclosing(<< B >>) >>, << Enclosing(<< B, A >>) >>, << Enclosing(<< A, A >>) >>,
  << Enclosing(<< A, h >>) >> }

MainOf(enclosing, decls, params, locals, body) ==
  File(Alg(<< Header("SourceHeader", 2) >> \o enclosing \o decls \o << DefineOf(<< 109 >>, params, locals, body) >>), "none")

NoPar == Node0("NoParams")
NoLoc == Node0("NoLocals")
Frames ==
  { << NoPar, IntNode("Locals", 1, 0), IntNode("Local", 0, 0) >>, << NoPar, IntNode("Locals", 1, 0), IntNode("Local", 1, 0) >>,
    << DefaultInt("ParamCached"), NoLoc, Read1 >>, << Params("ParamExprsCached", 1), NoLoc, Read1 >>,
    << NodeOf("ParamArgs", << Params("ParamValues", 1), Params("ParamExprs", 1) >>), NoLoc, Use >>,
    << NodeOf("ParamArgs", << Params("ParamExprs", 1), Params("ParamValues", 1) >>), NoLoc, Use >> }

Everything == Steps(<< Use, Call(a), Call(b), Call(h), Eval(f, << >>) >>)

Mains ==
  UNION { {MainOf(<< Enclosing(<< A >>) >>, << >>, NoPar, NoLoc, body) : body \in Bodies},
          {MainOf(<< >>, << Pair("LiteralDef", k, Const(5)), Base(101, << a, b >>) >>, NoPar, NoLoc, body) : body \in Bodies},
          {MainOf(e, d, NoPar, NoLoc, Everything) : e \in Encloses, d \in Decls},
          {MainOf(<< >>, d, NoPar, NoLoc, Steps(<< Call(a), Call(h), CallNumber(7) >>)) : d \in Decls},
          {MainOf(<< >>, << >>, NoPar, NoLoc, body) : body \in Checked},
          {MainOf(<< >>, << >>, frame[1], frame[2], frame[3]) : frame \in Frames} }

Letters == [A |-> FileA, B |-> FileB, C |-> FileC, D |-> FileD, E |-> FileE, F |-> FileF, G |-> FileG,
            H |-> FileH]

MCFinals == {[letter |-> "main", main |-> main.alg] : main \in Mains}
MCFiles ==
  [file \in {Id(letter) : letter \in DOMAIN Letters} \union MCFinals |->
     IF file \in MCFinals THEN File(file.main, "none") ELSE Letters[file.letter]]
MCKept == {{}, {a}}
=============================================================================
