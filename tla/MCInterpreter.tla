--------------------------- MODULE MCInterpreter ---------------------------
\* Instances of Interpreter, with Meaning, for TLC.
EXTENDS Meaning

Leaf(type)       == Node(type, 0, << >>)
Unary(type, a)   == Node(type, 0, << a >>)
Pair(type, a, b) == Node(type, 0, << a, b >>)
Nary(type, kids) == Node(type, 0, kids)
Const(v)         == Node("U8Const", v, << >>)
Local(i)         == Node("Local", i, << >>)
Param(i)         == Node("Param", i, << >>)
Case(key, a)     == Node("Case", key, << a >>)
Accept(v)        == Node("BinaryAccept", v, << >>)
Callback(action) == [Leaf("Callback") EXCEPT !.name = action]
Define(n, params, body) == [Node("Define", n, << body >>) EXCEPT !.params = params]
Eval(name, args) == [Nary("EvalVirtual", args) EXCEPT !.name = name]
Seq2(a, b)       == Pair("Sequence", a, b)

U8    == Leaf("Uint8")
Last0 == Leaf("LastRead")
Tree  == Pair("BinarySelect", Accept(1), Pair("BinarySelect", Accept(2), Accept(0)))
Coded == Unary("BinaryEval", Tree)
Put(e) == Pair("Write", U8, e)

\* Expressions, and those that take one.
Small == {U8, Leaf("Bit"), Coded, Const(2), Last0}

Over(e) ==
  { Unary("Peek", e), Unary("Read", e), Put(e),
    Nary("Write", << Leaf("Varuint32"), e, U8 >>),
    Nary("Map", << e, Case(1, Const(3)), Case(2, U8) >>),
    Pair("And", Unary("Peek", e), U8), Pair("Or", e, U8),
    Pair("BitwiseAnd", e, Const(3)), Pair("BitwiseOr", e, Const(1)),
    Pair("BitwiseXor", e, Pair("BitwiseXor", e, Last0)) }

\* Statements that take an expression, or a statement.
Using(e) ==
  { Pair("Loop", e, U8), Pair("IfThen", e, U8),
    Nary("IfThenElse", << e, U8, Put(Const(1)) >>),
    Nary("Switch", << e, U8, Case(1, Put(Last0)), Case(3, Const(1)) >>),
    Unary("LoopUnbounded", U8), Unary("Not", e), Pair("Table", e, U8) }

Around(s) ==
  { Unary("Block", s), Pair("Loop", Const(2), s), Unary("LoopUnbounded", Seq2(s, U8)),
    Seq2(s, Put(Last0)),
    Seq2(Pair("Table", Const(1), s), Pair("Table", Const(1), s)),
    Nary("Sequence", << Callback("block.enter"), s, Callback("block.exit") >>) }

Plain ==
  Small \cup UNION {Over(e) : e \in Small} \cup UNION {Using(e) : e \in Small}
        \cup UNION {Around(s) : s \in UNION {Using(e) : e \in {U8, Const(2)}}}
        \cup UNION {Using(s) : s \in UNION {Over(e) : e \in {U8, Coded}}}

\* Tables: an entry used twice, two entries, and one inside the other.
Tables ==
  UNION { { Nary("Sequence", << Pair("Table", U8, s), Pair("Table", U8, s), Coded >>),
            Pair("Table", Const(1), Seq2(U8, Pair("Table", Const(2), s))),
            Pair("Table", Const(1), Seq2(Pair("Table", Const(1), s), U8)),
            Pair("Loop", Const(2), Pair("Table", Const(0), s)),
            Seq2(Unary("Peek", Pair("Table", Const(1), U8)), Pair("Table", Const(1), s)),
            Seq2(Pair("Write", Pair("Table", Const(1), U8), U8), Pair("Table", Const(1), s)) } :
          s \in {U8, Seq2(U8, Put(Const(3))), Unary("Block", U8)} }

\* Definitions, with parameters passed by value and by expression, passed on,
\* and with locals.
Defs ==
  [ read  |-> Define(0, << >>, U8),
    many  |-> Define(1, << "ParamValues", "ParamExprs" >>,
                     Seq2(Pair("Set", Local(0), Param(0)), Pair("Loop", Local(0), Param(1)))),
    both  |-> Define(0, << "ParamExprs" >>,
                     Seq2(Eval("many", << Param(0), Param(0) >>), Put(Last0))),
    twice |-> Define(2, << "ParamValues", "ParamExprs" >>,
                     Nary("Sequence", << Pair("Set", Local(1), U8),
                                         Eval("both", << Param(1) >>),
                                         Pair("IfThen", Local(1), Param(0)),
                                         Pair("Loop", Param(0), Param(1)) >>)),
    lit   |-> Leaf("LiteralDef"),
    act   |-> Leaf("LiteralActionDef"),
    stray |-> Define(0, << "ParamExprs" >>, Seq2(Param(0), Param(1))) ]

Calls ==
  { Eval("both", << e >>) : e \in {U8, Coded, Eval("read", << >>)} }
  \cup { Eval("many", << e, Put(U8) >>) : e \in {U8, Const(2)} }
  \cup { Eval("many", << U8, Eval("read", << >>) >>),
         Unary("Block", Eval("both", << U8 >>)),
         Eval("twice", << U8, Eval("many", << Const(2), U8 >>) >>) }

\* Bodies of a file with one local.
WithLocal ==
  { Seq2(Pair("Set", Local(0), U8), Pair("Loop", Local(0), U8)),
    Seq2(Pair("Set", Local(0), U8),
         Seq2(Eval("many", << Local(0), U8 >>),
              Nary("Switch", << Local(0), U8, Case(2, Put(Const(1))) >>))),
    Pair("BitwiseOr", U8, Eval("many", << Const(1), U8 >>)),
    Seq2(Unary("BitwiseNegate", U8), U8) }

\* What fails.
Failing ==
  { Leaf("Error"), Param(0), Local(0), Pair("Set", Local(0), U8), Eval("none", << >>),
    Eval("read", << U8 >>), Eval("stray", << U8 >>), Eval("lit", << >>) }
  \cup { [Leaf("LiteralUse") EXCEPT !.name = n] : n \in {"lit", "act"} }
  \cup { [Leaf("LiteralActionUse") EXCEPT !.name = n] : n \in {"act", "none"} }
  \cup { Pair("Write", f, U8) :
           f \in {Pair("BitwiseAnd", U8, U8), Unary("BitwiseNegate", U8), Unary("Not", U8),
                  Pair("Or", U8, U8), Coded} }

\* Actions that are only read, or only written.
HalfBlocks ==
  { Unary("Peek", Nary("Sequence", << Callback("block.enter.readonly"), Unary("LoopUnbounded", U8),
                                      Callback("block.exit.readonly") >>)),
    Nary("Write", << Callback("block.enter.writeonly"), U8, U8 >>) }

Upto(n, values) == UNION {[1 .. k -> values] : k \in 0 .. n}

TaskOf(file, input) ==
  [start |-> "GetFile", input |-> input, readHeader |-> Leaf("SourceHeader"),
   writeHeader |-> Leaf("WriteHeader"), file |-> file, defs |-> Defs, expand |-> TRUE,
   header |-> NoHeader, selectors |-> << >>, inflates |-> << >>]

Run(n, body, input) == TaskOf(Define(n, << >>, body), input)

Runs ==
  { Run(0, body, input) : body \in Plain \cup Failing \cup HalfBlocks,
                          input \in Upto(2, {0, 1, 2}) \cup {<< 2, 1, 1 >>, << 1, 2, 3 >>} }
  \cup { Run(0, body, input) : body \in Calls,
                               input \in Upto(3, {1, 2}) \cup {<< 1, 1, 0, 2, 1 >>} }
  \cup { Run(1, body, input) : body \in WithLocal, input \in Upto(3, {1, 2}) }
  \cup { [Run(0, body, input) EXCEPT !.expand = e] :
           body \in Tables, input \in Upto(3, {1, 2}) \cup {<< 1, 1, 1, 2, 1 >>}, e \in BOOLEAN }

\* Headers: right, wrong, cut short, or of a type that cannot be read.
WithHeader ==
  { [Run(0, Unary("LoopUnbounded", U8), input) EXCEPT
       !.start = method, !.readHeader.kids = kids, !.writeHeader.kids = << Const(3), Const(1) >>] :
    method \in {"GetFile", "HasFileHeader"},
    kids \in {<< Const(2) >>, << Const(1), Const(2) >>, << Const(1), Node("I32Const", 1, << >>) >>},
    input \in Upto(3, {1, 2}) }

\* Selectors by the header they are for: 3 of algorithms, 2 and 1 of data.
\* Those of the program decompress, and those of the C API.
Header(type, v) == Nary(type, << Const(v) >>)
Of(read, write, body, defs, isAlgorithm) ==
  Symtab(Header("ReadHeader", read), Header("WriteHeader", write), Define(0, << >>, body),
         defs, isAlgorithm)

casm == Of(3, 3, U8, << >>, TRUE)
cism == Of(2, 3, Unary("LoopUnbounded", Eval("value", << >>)), [value |-> Define(0, << >>, U8)],
           FALSE)
wasm == Of(1, 1, Unary("LoopUnbounded", Coded), << >>, FALSE)

\* What a value inflates to: an algorithm that uses the scope of cism, whose
\* output is for wasm; one from wasm to itself, which reads codes; one that
\* expands; and, when it is 3, none.  No stream is read behind its end, which
\* the code only asserts: what is written for casm holds a value.
Expanding ==
  Seq2(Eval("value", << >>),
       Unary("LoopUnbounded", Pair("Loop", Eval("value", << >>), Put(Const(2)))))
Inflatable ==
  << Of(2, 1, Unary("LoopUnbounded", Seq2(U8, Eval("value", << >>))), << >>, FALSE),
     Of(1, 1, Unary("LoopUnbounded", Seq2(U8, Coded)), << >>, FALSE),
     Of(2, 3, Expanding, << >>, FALSE) >>

Inflation ==
  [out \in { << << "U8Const", 3 >>, << "Uint8", k >>, << "eof", 0 >> >> : k \in 0 .. 2 } |->
     Inflatable[out[2][2] + 1]]

Select(selectors, input) ==
  [TaskOf(NoNode, input) EXCEPT !.start = "GetAlgorithm", !.readHeader = NoNode,
     !.writeHeader = NoNode, !.defs = << >>, !.selectors = selectors, !.inflates = Inflation]

Selections ==
  { Select(selectors, input) : selectors \in {<< casm, wasm, cism >>, << casm, wasm >>},
      input \in Upto(3, {1, 2, 3})
        \cup { << 3, k, d >> \o data : k \in 0 .. 3, d \in {1, 2}, data \in Upto(2, {1, 2}) } }

MCTasks == Runs \cup WithHeader \cup Selections

---------------------------------------------------------------------------
\* Where the code departs from the meaning: any one of the six sets in
\* DepartTasks, in the place of Tasks, violates MatchesMeaning.
Peculiar(n, body, input) == {Run(n, body, input)}

\* A value that is not read is written.
WriteTasks ==
  Peculiar(1, Nary("Sequence", << Pair("Set", Local(0), U8), U8, Put(Local(0)) >>), << 2, 1 >>)

\* An expression, passed on as an argument, calls what has parameters itself.
ContextTasks ==
  Peculiar(0, Eval("many", << U8, Eval("both", << Const(1) >>) >>), << 2 >>)

\* A local is used after a negation.
NegateTasks ==
  Peculiar(1, Nary("Sequence", << Pair("Set", Local(0), U8), Unary("BitwiseNegate", U8),
                                  Pair("Loop", Local(0), U8) >>), << 1, 2, 3 >>)

\* Something depends on a not.
NotTasks == Peculiar(0, Pair("IfThen", Unary("Not", U8), U8), << 1 >>)

\* A block is looked at before it is copied.
BlockTasks ==
  Peculiar(0, Seq2(Unary("Peek", Unary("Block", U8)), Unary("LoopUnbounded", U8)), << 1, 2 >>)

\* Two algorithms are queued, the second for what the first makes of the data.
SelectionTasks == {Select(<< casm, wasm, cism >>, << 3, 0, 3, 1, 2 >>)}

DepartTasks ==
  UNION {WriteTasks, ContextTasks, NegateTasks, NotTasks, BlockTasks, SelectionTasks}
=============================================================================
