---------------------------- MODULE Interpreter ----------------------------
(***************************************************************************)
(* The interpreter of algorithms, interp/Interpreter.cpp: a loop over an   *)
(* explicit stack of method calls, so that it can stop when the input      *)
(* runs out and go on when more has come.  One action is one turn of the   *)
(* loop in algorithmResume.                                                *)
(*                                                                         *)
(* An algorithm is a tree of nodes.  A value is one element of the input   *)
(* or the output, whatever its format: the encoding of numbers, and the    *)
(* alignment of bits to bytes, are not part of this module.  The Reader    *)
(* is a ByteReader, or an IntReader of a stream without blocks, the Writer *)
(* one that is never refused.  Choosing between algorithms is in           *)
(* Selection.                                                              *)
(***************************************************************************)
EXTENDS Integers, FiniteSets, FiniteSetsExt, SequencesExt, TLC

CONSTANTS Tasks,      \* what may be run: see Init
          Width,      \* the number of bits of a value
          Headroom,   \* kResumeHeadroom, in values
          MaxBits     \* bound on the length of a binary encoding

ASSUME InterpreterAssumption ==
  /\ Width \in Nat \ {0}
  /\ MaxBits \in Nat /\ Headroom \in Nat /\ Headroom >= MaxBits

VARIABLES task,     \* the algorithm, its input, and the method to start with
          filled,   \* how much of the input has come
          vm        \* the interpreter, its Reader and its Writer

vars == << task, filled, vm >>

IntType == 0 .. 2^Width - 1

---------------------------------------------------------------------------
\* Nodes, named by the constructors of sexp/Ast.h.

Node(type, val, kids) ==
  [type |-> type, val |-> val, kids |-> kids, name |-> "", params |-> << >>]

NoNode == Node("nullptr", 0, << >>)

IntegerNodes == {"I32Const", "I64Const", "One", "U8Const", "U32Const", "U64Const", "Zero"}
Formats == {"Bit", "Uint32", "Uint64", "Uint8", "Varint32", "Varint64", "Varuint32", "Varuint64"}
Bitwise2 == {"BitwiseAnd", "BitwiseOr", "BitwiseXor"}
Headers == {"ReadHeader", "SourceHeader", "WriteHeader"}

Bit(v, i) == (v \div 2^i) % 2

\* The numbers of the bits of a result, by the bits of the arguments.
OfBits(S) == FoldSet(LAMBDA i, n : n + 2^i, 0, S)

BitwiseOf(type, a, b) ==
  OfBits({i \in 0 .. Width - 1 :
            CASE type = "BitwiseAnd" -> Bit(a, i) + Bit(b, i) = 2
              [] type = "BitwiseOr"  -> Bit(a, i) + Bit(b, i) > 0
              [] type = "BitwiseXor" -> Bit(a, i) + Bit(b, i) = 1})

Complement(a) == 2^Width - 1 - a

\* SelectBase::getIntLookup and getCase: the case for a key, among the kids
\* from the first case on.  No two cases have one key.
Cases(nd, key, first) ==
  {i \in first .. Len(nd.kids) : nd.kids[i].val = key}

TheCase(nd, key, first) == nd.kids[CHOOSE i \in Cases(nd, key, first) : TRUE]

\* Follow the bits given through a binary encoding: the node where they lead,
\* and how many of them that takes.
Decode(tree, bits) ==
  FoldLeft(LAMBDA r, b : IF r.nd.type = "BinarySelect"
                         THEN [nd |-> r.nd.kids[b + 1], used |-> r.used + 1]
                         ELSE r,
           [nd |-> tree, used |-> 0], bits)

Encodes(tree, v) ==
  \E bits \in [1 .. MaxBits -> {0, 1}] : Decode(tree, bits).nd = Node("BinaryAccept", v, << >>)

---------------------------------------------------------------------------
\* DefineFrame, kept as the fields "params", a sequence of the types
\* ParamValues and ParamExprs, and "val", the number of locals, of a Define.
\* Values come before expressions, so that getValueArgIndex(i) is i.

NumValueArgs(defn) == Cardinality({i \in DOMAIN defn.params : defn.params[i] = "ParamValues"})

\* What the name of an eval or of a literal stands for in the symbol table.
Defines(name, type) == name \in DOMAIN task.defs /\ task.defs[name].type = type

---------------------------------------------------------------------------
\* The stacks.  A ValueStack is a sequence with its top, which the code keeps
\* in a member of its own, at the end; what is at the bottom is the value from
\* before the first push.

IsEmpty(stack) == Len(stack) = 1

CallFrame(method, mod, nd) ==
  [CallMethod |-> method, CallState |-> "Enter", CallModifier |-> mod, Nd |-> nd,
   ReturnValue |-> 0]

\* CallFrame::fail.
FailedFrame == [CallFrame("Finished", "ReadAndWrite", NoNode) EXCEPT !.CallState = "Failed"]

\* A call of a definition by a node: the value parameters have no values yet.
\* CallingEvalIndex is for descriptions only.
EvalFrame(nd, defn) ==
  [Caller |-> nd, DefinedFrame |-> defn, Values |-> [i \in 1 .. NumValueArgs(defn) |-> 0]]

\* A new interpreter, with a new Reader and Writer.
NewMachine ==
  [FrameStack        |-> << CallFrame("Started", "ReadAndWrite", NoNode) >>,
   EvalFrameStack    |-> << >>,
   CurEvalFrameStack |-> << 0 >>,
   LoopCounterStack  |-> << 0 >>,
   LoopSizeStack     |-> << >>,
   LocalsBaseStack   |-> << 0 >>,
   LocalValues       |-> << >>,
   CatchStack        |-> << "NO_SUCH_METHOD" >>,
   CatchState        |-> "NO_SUCH_STATE",
   IsFatalFailure    |-> FALSE,
   LastReadValue     |-> 0,
   \* The Reader: where it is, with the ends of the blocks it is in, the
   \* positions it has saved, and its TableHandler.
   ReadPos           |-> [at |-> 0, eobs |-> << >>],
   SavedPosStack     |-> << >>,
   Table             |-> << >>,
   RestoreStack      |-> << >>,
   HeaderIndex       |-> 0,
   \* The Writer: which it is, what has been written, and its TableHandler.
   Writer            |-> "ByteWriter",
   Output            |-> << >>,
   Cached            |-> {},
   Scratch           |-> << >>]

callTopLevel(m, method) ==
  [m EXCEPT !.FrameStack = Append(@, CallFrame(method, "ReadAndWrite", NoNode))]

\* A task has the method to start with (algorithmStart when the symbol table
\* is known, or algorithmStartHasFileHeader), an input, the headers, the
\* definition of 'file', the other definitions by name, and whether
\* MacroContext is Expand (or else Contract).  No algorithm is installed that
\* has no header to read.
ASSUME TasksAssumption ==
  \A t \in Tasks :
    /\ t = [start |-> t.start, input |-> t.input, readHeader |-> t.readHeader,
            writeHeader |-> t.writeHeader, file |-> t.file, defs |-> t.defs,
            expand |-> t.expand, header |-> t.header, selectors |-> t.selectors,
            inflates |-> t.inflates]
    /\ t.start \in {"GetFile", "HasFileHeader", "GetAlgorithm"}
    /\ t.start = "HasFileHeader" => t.readHeader.type \in Headers

Init ==
  /\ task \in Tasks
  /\ filled = 0
  /\ vm = callTopLevel(NewMachine, task.start)

Frame       == Last(vm.FrameStack)
Nd          == Frame.Nd
ReturnValue == Frame.ReturnValue
LoopCounter == Last(vm.LoopCounterStack)

HasRead  == Frame.CallModifier \in {"ReadOnly", "ReadAndWrite"}
HasWrite == Frame.CallModifier \in {"WriteOnly", "ReadAndWrite"}

SetTop(stack, v) == [stack EXCEPT ![Len(stack)] = v]

Goto(m, state) ==
  [m EXCEPT !.FrameStack = SetTop(@, [Last(@) EXCEPT !.CallState = state])]

\* Interpreter::call, by a frame that goes on in the state given.
Call(m, state, method, mod, nd) ==
  [m EXCEPT !.FrameStack =
     Append(SetTop(@, [Last(@) EXCEPT !.CallState = state, !.ReturnValue = 0]),
            CallFrame(method, mod, nd))]

EvalKid(m, state, kid) == Call(m, state, "Eval", Frame.CallModifier, Nd.kids[kid])

\* Interpreter::popAndReturn.
Return(m, v) ==
  [m EXCEPT !.FrameStack = SetTop(Front(@), [Last(Front(@)) EXCEPT !.ReturnValue = v])]

PushLoop(m, n) == [m EXCEPT !.LoopCounterStack = Append(@, n)]
PopLoop(m)     == [m EXCEPT !.LoopCounterStack = Front(@)]
CountLoop(m, step) == [m EXCEPT !.LoopCounterStack = SetTop(@, Last(@) + step)]

PushPeekPos(m) == [m EXCEPT !.SavedPosStack = Append(@, m.ReadPos)]
PopPeekPos(m)  == [m EXCEPT !.ReadPos = Last(m.SavedPosStack), !.SavedPosStack = Front(@)]

---------------------------------------------------------------------------
\* Failures.

\* Interpreter::reset, which leaves what CatchStack and LoopSizeStack hold.
Reset(m) ==
  [m EXCEPT !.FrameStack = << FailedFrame >>,
            !.EvalFrameStack = << >>, !.CurEvalFrameStack = << 0 >>,
            !.LoopCounterStack = << 0 >>, !.LocalsBaseStack = << 0 >>,
            !.LocalValues = << >>]

\* The frames that would catch: IsFatalFailure overrides them.
Catchers(m) ==
  {i \in 2 .. Len(m.FrameStack) :
     ~m.IsFatalFailure /\ m.FrameStack[i].CallMethod = Last(m.CatchStack)}

InnermostCatcher(m) == CHOOSE i \in Catchers(m) : \A j \in Catchers(m) : j <= i

\* Interpreter::catchOrElseFail, which throwMessage calls.
Throw(m) ==
  IF Catchers(m) = {} THEN Reset(m)
  ELSE LET i == InnermostCatcher(m) IN
    [m EXCEPT !.CatchState = m.FrameStack[i].CallState,
              !.FrameStack = [SubSeq(@, 1, i) EXCEPT ![i].CallState = "Catch"],
              !.CatchStack = IF IsEmpty(@) THEN @ ELSE Front(@)]

\* Interpreter::fail, whatever might catch it.
Fail(m) == Throw([m EXCEPT !.IsFatalFailure = TRUE])

---------------------------------------------------------------------------
\* The Reader.  A read at the end of the input returns 0 and stays there.

ValueAt(i) == IF i < filled THEN task.input[i + 1] ELSE 0
Ahead(i, n) == IF i + n < filled THEN i + n ELSE filled

NextValue(m) == ValueAt(m.ReadPos.at)
Skip(m, n)   == [m EXCEPT !.ReadPos.at = Ahead(@, n)]

\* ReadCursor::atEob: whether the innermost block, or the input, ends within
\* the next n values.
EndsWithin(pos, n) ==
  \/ pos.eobs # << >> /\ pos.at + n > Last(pos.eobs)
  \/ pos.at + n > filled

\* BitReadCursor::readBit.  Unlike other reads it heeds the ends of blocks, and
\* fails the cursor when there are no more bits: the cursor is then on the
\* error page, behind everything.
kErrorPageAddress == Len(task.input) + 1

BitAt(pos, i) == IF EndsWithin(pos, i) THEN 0 ELSE Bit(ValueAt(pos.at + i - 1), 0)

ReadBits(m, n) ==
  IF n > 0 /\ EndsWithin(m.ReadPos, n) THEN [m EXCEPT !.ReadPos.at = kErrorPageAddress]
  ELSE Skip(m, n)

\* ByteReader::readBlockEnter and readBlockExit: a block starts with its size,
\* and its end is not checked against that of the block around it.
ReadBlockEnter(m) ==
  LET r == Skip(m, 1)
  IN [r EXCEPT !.ReadPos.eobs = Append(@, r.ReadPos.at + NextValue(m))]

ReadBlockExit(m) == [m EXCEPT !.ReadPos.eobs = Front(@)]

\* Reader::readAction and Writer::writeAction, for the actions that read or
\* write something; the others do nothing.
ReadAction(m, action) ==
  CASE action \in {"block.enter", "block.enter.readonly"} -> ReadBlockEnter(m)
    [] action \in {"block.exit", "block.exit.readonly"}   -> ReadBlockExit(m)
    [] OTHER -> m

\* Writing goes to a scratch queue in a table entry that has been written.
Emit(m, token) ==
  IF \E i \in DOMAIN m.Scratch : m.Scratch[i] THEN m
  ELSE [m EXCEPT !.Output = Append(@, token)]

WriteAction(m, action) ==
  CASE action \in {"block.enter", "block.enter.writeonly"} -> Emit(m, << "block.enter", 0 >>)
    [] action \in {"block.exit", "block.exit.writeonly"}   -> Emit(m, << "block.exit", 0 >>)
    [] OTHER -> m

\* ByteReader::TableHandler: an entry is read where it was read first.
ReaderTablePush(m, key) ==
  IF key \in DOMAIN m.Table
  THEN [PushPeekPos(m) EXCEPT !.ReadPos = m.Table[key], !.RestoreStack = Append(@, TRUE)]
  ELSE [m EXCEPT !.Table = (key :> m.ReadPos) @@ @, !.RestoreStack = Append(@, FALSE)]

ReaderTablePop(m) ==
  LET r == [m EXCEPT !.RestoreStack = Front(@)]
  IN IF Last(m.RestoreStack) THEN PopPeekPos(r) ELSE r

\* ByteWriter::TableHandler: an entry is written once.
WriterTablePush(m, key) ==
  [m EXCEPT !.Scratch = Append(@, key \in m.Cached), !.Cached = @ \cup {key}]

WriterTablePop(m) == [m EXCEPT !.Scratch = Front(@)]

TablePush(m, key) ==
  IF task.expand THEN IF HasRead THEN ReaderTablePush(m, key) ELSE m
            ELSE IF HasWrite THEN WriterTablePush(m, key) ELSE m

TablePop(m) ==
  IF task.expand THEN IF HasRead THEN ReaderTablePop(m) ELSE m
            ELSE IF HasWrite THEN WriterTablePop(m) ELSE m

\* Mutant: no headroom is left.
CanStepEarly == vm.ReadPos.at <= filled

\* Mutant: headroom is also left when no more can come.
CanStepNeverLast == vm.ReadPos.at + Headroom <= filled

\* canProcessMoreInputNow and stillMoreInputToProcessNow: a step is taken with
\* some headroom in the input, or up to its end when all of it is there.
CanStep ==
  vm.ReadPos.at <= IF filled = Len(task.input) THEN filled ELSE filled - Headroom

Running(method) == CanStep /\ Frame.CallMethod = method

Evaluating(types) == Running("Eval") /\ Nd.type \in types

At(state) == Frame.CallState = state

Becomes(m) == vm' = m /\ UNCHANGED << task, filled >>

---------------------------------------------------------------------------
\* Method Eval, by the type of the node.

EvalError ==
  /\ Evaluating({"Error", "Opcode"})
  /\ Becomes(Throw(vm))

\* Types that are not evaluated.
EvalNotImplemented ==
  /\ Evaluating({"LiteralDef", "LiteralActionDef"})
  /\ Becomes(Fail(vm))

\* The input of an IntReader has its header apart: with NoHeader, the Reader is
\* a ByteReader.
NoHeader == << << "nullptr", 0 >> >>

\* readHeaderValue, of both Readers: what is left to read, and whether that
\* value was there.
ReadHeaderByte(m, lit) ==
  IF lit.type \notin {"U8Const", "U32Const", "U64Const"} THEN [m |-> m, found |-> FALSE]
  ELSE [m |-> Skip(m, 1), found |-> NextValue(m) = lit.val]

ReadHeaderInt(m, lit) ==
  IF m.HeaderIndex >= Len(task.header) THEN [m |-> m, found |-> FALSE]
  ELSE [m     |-> [m EXCEPT !.HeaderIndex = @ + 1],
        found |-> task.header[m.HeaderIndex + 1] = << lit.type, lit.val >>]

ReadHeaderValue(m, lit) ==
  IF task.header = NoHeader THEN ReadHeaderByte(m, lit) ELSE ReadHeaderInt(m, lit)

\* Each type of constant is written in a format of its own.
WriteHeaderValue(m, lit) == Emit(m, << lit.type, lit.val >>)

\* A value of a header, which must be the one read, and is written.
HeaderValue(m, lit) ==
  LET r == IF HasRead THEN ReadHeaderValue(m, lit) ELSE [m |-> m, found |-> TRUE]
  IN  IF ~r.found THEN Throw(r.m)
      ELSE IF HasWrite THEN WriteHeaderValue(r.m, lit) ELSE r.m

\* Mutant: leaving a header that could be read leaves its catch behind.
HeaderKeepsCatch ==
  /\ Evaluating(Headers)
  /\ \/ /\ At("Enter")
        /\ Becomes(Goto(PushLoop([vm EXCEPT !.CatchStack = IF IsEmpty(@) THEN @
                                                           ELSE Append(@, "Eval")], 0),
                        "Loop"))
     \/ /\ At("Loop") /\ LoopCounter < Len(Nd.kids)
        /\ Becomes(HeaderValue(CountLoop(vm, 1), Nd.kids[LoopCounter + 1]))
     \/ /\ At("Loop") /\ LoopCounter = Len(Nd.kids)
        /\ Becomes(Return(PopLoop(vm), 0))

EvalHeader ==
  /\ Evaluating(Headers)
  /\ \/ /\ At("Enter")
        /\ Becomes(Goto(PushLoop([vm EXCEPT !.CatchStack = IF IsEmpty(@) THEN @
                                                           ELSE Append(@, "Eval")], 0),
                        "Loop"))
     \/ /\ At("Loop") /\ LoopCounter = Len(Nd.kids)
        /\ Becomes(Goto(vm, "Exit"))
     \/ /\ At("Loop") /\ LoopCounter < Len(Nd.kids)
        /\ Becomes(HeaderValue(CountLoop(vm, 1), Nd.kids[LoopCounter + 1]))
     \/ /\ At("Catch")
        /\ Becomes(Throw(Return(PopLoop(vm), 0)))
     \/ /\ At("Exit")
        /\ Becomes(Return(PopLoop([vm EXCEPT !.CatchStack = IF IsEmpty(@) THEN @ ELSE Front(@)]),
                          0))

\* The first argument is kept among the local values.
EvalBitwise ==
  /\ Evaluating(Bitwise2)
  /\ \/ At("Enter") /\ HasRead  /\ Becomes(EvalKid(vm, "Step2", 1))
     \/ At("Enter") /\ ~HasRead /\ Becomes(Fail(vm))
     \/ /\ At("Step2")
        /\ Becomes(EvalKid([vm EXCEPT !.LocalValues = Append(@, ReturnValue)], "Exit", 2))
     \/ /\ At("Exit")
        /\ Becomes(Return([vm EXCEPT !.LocalValues = Front(@)],
                          BitwiseOf(Nd.type, Last(vm.LocalValues), ReturnValue)))

\* Nothing was pushed for what is popped here.  With no local values at all,
\* the program's behaviour is undefined: no task does that.
EvalBitwiseNegate ==
  /\ Evaluating({"BitwiseNegate"})
  /\ \/ At("Enter") /\ HasRead  /\ Becomes(EvalKid(vm, "Exit", 1))
     \/ At("Enter") /\ ~HasRead /\ Becomes(Fail(vm))
     \/ /\ At("Exit") /\ vm.LocalValues # << >>
        /\ Becomes(Return([vm EXCEPT !.LocalValues = Front(@)], Complement(ReturnValue)))

EvalCallback ==
  /\ Evaluating({"Callback"})
  /\ Becomes(Return(WriteAction(ReadAction(vm, Nd.name), Nd.name), vm.LastReadValue))

EvalInteger ==
  /\ Evaluating(IntegerNodes)
  /\ Becomes(Return([vm EXCEPT !.LastReadValue = IF HasRead THEN Nd.val ELSE @], Nd.val))

EvalLastRead ==
  /\ Evaluating({"LastRead", "Void"})
  /\ Becomes(Return(vm, vm.LastReadValue))

LocalsBase == Last(vm.LocalsBaseStack)

EvalLocal ==
  /\ Evaluating({"Local"})
  /\ LET i == LocalsBase + Nd.val + 1 IN
     Becomes(IF i > Len(vm.LocalValues) THEN Throw(vm) ELSE Return(vm, vm.LocalValues[i]))

EvalSet ==
  /\ Evaluating({"Set"})
  /\ \/ At("Enter") /\ Becomes(EvalKid(vm, "Exit", 2))
     \/ /\ At("Exit")
        /\ LET i == LocalsBase + Nd.kids[1].val + 1 IN
           Becomes(IF i > Len(vm.LocalValues) THEN Throw(vm)
                   ELSE Return([vm EXCEPT !.LocalValues[i] = ReturnValue], vm.LastReadValue))

\* The node (peek E), evaluated by the method of that name.
EvalPeek ==
  /\ Evaluating({"Peek"})
  /\ \/ At("Enter") /\ Becomes(Call(vm, "Exit", "Peek", Frame.CallModifier, Nd.kids[1]))
     \/ At("Exit")  /\ Becomes(Return(vm, ReturnValue))

EvalRead ==
  /\ Evaluating({"Read"})
  /\ \/ At("Enter") /\ Becomes(Call(vm, "Exit", "Eval", "ReadOnly", Nd.kids[1]))
     \/ At("Exit")  /\ Becomes(Return(vm, ReturnValue))

EvalFormat ==
  /\ Evaluating(Formats)
  /\ LET r == CASE ~HasRead -> vm
                [] HasRead /\ Nd.type = "Bit" ->
                     [ReadBits(vm, 1) EXCEPT !.LastReadValue = BitAt(vm.ReadPos, 1)]
                [] HasRead /\ Nd.type # "Bit" ->
                     [Skip(vm, 1) EXCEPT !.LastReadValue = NextValue(vm)]
         w == IF HasWrite THEN Emit(r, << Nd.type, r.LastReadValue >>) ELSE r
     IN Becomes(Return(w, r.LastReadValue))

\* readBinary, of a ByteReader bit by bit, of an IntReader a value like others;
\* and only a ByteWriter refuses what has no encoding.
ReadBinary(m, tree) ==
  LET d == Decode(tree, [i \in 1 .. MaxBits |-> BitAt(m.ReadPos, i)])
  IN  IF task.header = NoHeader
      THEN [ReadBits(m, d.used) EXCEPT !.LastReadValue = d.nd.val]
      ELSE [Skip(m, 1) EXCEPT !.LastReadValue = NextValue(m)]

EvalBinary ==
  /\ Evaluating({"BinaryEval"})
  /\ LET r == IF HasRead THEN ReadBinary(vm, Nd.kids[1]) ELSE vm
     IN Becomes(IF ~HasWrite THEN Return(r, r.LastReadValue)
                ELSE IF vm.Writer = "ByteWriter" => Encodes(Nd.kids[1], r.LastReadValue)
                THEN Return(Emit(r, << "BinaryEval", r.LastReadValue >>), r.LastReadValue)
                ELSE Fail(r))

\* A value with no case stays what it is.
EvalMap ==
  /\ Evaluating({"Map"})
  /\ \/ At("Enter") /\ Becomes(EvalKid(vm, "Step2", 1))
     \/ /\ At("Step2")
        /\ LET m == [vm EXCEPT !.LastReadValue = ReturnValue] IN
           Becomes(IF Cases(Nd, ReturnValue, 2) = {} THEN Goto(m, "Exit")
                   ELSE Call(m, "Exit", "Peek", Frame.CallModifier,
                             TheCase(Nd, ReturnValue, 2)))
     \/ /\ At("Exit")
        /\ Becomes(Return([vm EXCEPT !.LastReadValue = ReturnValue], ReturnValue))

\* (write F E1 ... En): each value is read, and then F writes what was read
\* last.
EvalWrite ==
  /\ Evaluating({"Write"})
  /\ \/ At("Enter") /\ Becomes(Goto(PushLoop(vm, 0), "Loop"))
     \/ /\ At("Loop") /\ LoopCounter + 1 = Len(Nd.kids)
        /\ Becomes(Goto(CountLoop(vm, 1), "Exit"))
     \/ /\ At("Loop") /\ LoopCounter + 1 # Len(Nd.kids)
        /\ Becomes(Call(CountLoop(vm, 1), "Step2", "Eval", "ReadOnly",
                        Nd.kids[LoopCounter + 2]))
     \/ At("Step2") /\ Becomes(Call(vm, "Loop", "Eval", "WriteOnly", Nd.kids[1]))
     \/ At("Exit")  /\ Becomes(Return(PopLoop(vm), ReturnValue))

\* The argument of not is returned as it is.
EvalNot ==
  /\ Evaluating({"Not"})
  /\ \/ ~HasRead /\ Becomes(Fail(vm))
     \/ HasRead /\ At("Enter") /\ Becomes(EvalKid(vm, "Exit", 1))
     \/ HasRead /\ At("Exit")  /\ Becomes(Return(vm, ReturnValue))

EvalAndOr ==
  /\ Evaluating({"And", "Or"})
  /\ \/ ~HasRead /\ Becomes(Fail(vm))
     \/ HasRead /\ At("Enter") /\ Becomes(EvalKid(vm, "Step2", 1))
     \/ HasRead /\ At("Step2")
        /\ Becomes(IF (Nd.type = "And") = (ReturnValue # 0) THEN EvalKid(vm, "Exit", 2)
                   ELSE Goto(vm, "Exit"))
     \/ HasRead /\ At("Exit") /\ Becomes(Return(vm, ReturnValue))

EvalSequence ==
  /\ Evaluating({"Sequence"})
  /\ \/ At("Enter") /\ Becomes(Goto(PushLoop(vm, 0), "Loop"))
     \/ At("Loop") /\ LoopCounter >= Len(Nd.kids) /\ Becomes(Goto(vm, "Exit"))
     \/ At("Loop") /\ LoopCounter < Len(Nd.kids)
        /\ Becomes(EvalKid(CountLoop(vm, 1), "Loop", LoopCounter + 1))
     \/ At("Exit") /\ Becomes(Return(PopLoop(vm), vm.LastReadValue))

\* (table K S): the first argument is the key, the second the entry.
EvalTable ==
  /\ Evaluating({"Table"})
  /\ \/ At("Enter") /\ Becomes(EvalKid(vm, "Step2", 1))
     \/ At("Step2") /\ Becomes(EvalKid(TablePush(vm, ReturnValue), "Exit", 2))
     \/ At("Exit")  /\ Becomes(Return(TablePop(vm), vm.LastReadValue))

\* The counter of a loop goes down.
EvalLoop ==
  /\ Evaluating({"Loop"})
  /\ \/ At("Enter") /\ Becomes(EvalKid(vm, "Step2", 1))
     \/ At("Step2") /\ Becomes(Goto(PushLoop(vm, ReturnValue), "Loop"))
     \/ At("Loop") /\ LoopCounter = 0 /\ Becomes(Goto(vm, "Exit"))
     \/ At("Loop") /\ LoopCounter > 0 /\ Becomes(EvalKid(CountLoop(vm, -1), "Loop", 2))
     \/ At("Exit") /\ Becomes(Return(PopLoop(vm), 0))

EvalLoopUnbounded ==
  /\ Evaluating({"LoopUnbounded"})
  /\ \/ At("Enter") /\ Becomes(Goto(vm, "Loop"))
     \/ At("Loop") /\ EndsWithin(vm.ReadPos, 1)  /\ Becomes(Goto(vm, "Exit"))
     \/ At("Loop") /\ ~EndsWithin(vm.ReadPos, 1) /\ Becomes(EvalKid(vm, "Loop", 1))
     \/ At("Exit") /\ Becomes(Return(vm, 0))

EvalIf ==
  /\ Evaluating({"IfThen", "IfThenElse"})
  /\ \/ At("Enter") /\ Becomes(EvalKid(vm, "Step2", 1))
     \/ At("Step2") /\ ReturnValue # 0 /\ Becomes(EvalKid(vm, "Exit", 2))
     \/ At("Step2") /\ ReturnValue = 0
        /\ Becomes(IF Nd.type = "IfThenElse" THEN EvalKid(vm, "Exit", 3) ELSE Goto(vm, "Exit"))
     \/ At("Exit") /\ Becomes(Return(vm, 0))

\* (switch E D C1 ... Cn)
EvalSwitch ==
  /\ Evaluating({"Switch"})
  /\ \/ At("Enter") /\ Becomes(EvalKid(vm, "Step2", 1))
     \/ /\ At("Step2")
        /\ Becomes(IF Cases(Nd, ReturnValue, 3) = {} THEN EvalKid(vm, "Exit", 2)
                   ELSE Call(vm, "Exit", "Eval", Frame.CallModifier,
                             TheCase(Nd, ReturnValue, 3)))
     \/ At("Exit") /\ Becomes(Return(vm, 0))

EvalCase ==
  /\ Evaluating({"Case"})
  /\ \/ At("Enter") /\ Becomes(EvalKid(vm, "Exit", 1))
     \/ /\ At("Exit")
        /\ Becomes(Return([vm EXCEPT !.LastReadValue = ReturnValue], ReturnValue))

\* A definition with locals has its own base among the local values.  The
\* number of locals is a size_t.
EvalDefine ==
  /\ Evaluating({"Define"})
  /\ \/ /\ At("Enter") /\ Nd.val \in Nat
        /\ LET n == Nd.val
               m == IF n = 0 THEN vm
                    ELSE [vm EXCEPT !.LocalsBaseStack = Append(@, Len(vm.LocalValues)),
                                    !.LocalValues = @ \o [i \in 1 .. n |-> 0]]
           IN Becomes(EvalKid(m, "Exit", 1))
     \/ /\ At("Exit")
        /\ Becomes(Return(IF Nd.val = 0 THEN vm
                          ELSE [vm EXCEPT !.LocalValues = IF Len(@) > LocalsBase
                                                          THEN SubSeq(@, 1, LocalsBase) ELSE @,
                                          !.LocalsBaseStack = Front(@)],
                          0))

\* Literals are replaced by their values before an algorithm is run; here a
\* use of one is looked up and evaluated, which is not implemented.
EvalLiteralUse ==
  /\ Evaluating({"LiteralUse", "LiteralActionUse"})
  /\ At("Enter")
  /\ LET type == IF Nd.type = "LiteralUse" THEN "LiteralDef" ELSE "LiteralActionDef" IN
     Becomes(IF Defines(Nd.name, type)
             THEN Call(vm, "Exit", "Eval", Frame.CallModifier, task.defs[Nd.name])
             ELSE Throw(vm))

---------------------------------------------------------------------------
\* Calls of definitions.

\* getCurrentEvalFrame, as an index of EvalFrameStack that counts from one.
CurrentEvalFrame == Last(vm.CurEvalFrameStack) + 1

EvalParam ==
  /\ Evaluating({"Param"})
  /\ \/ /\ At("Enter")
        /\ IF vm.EvalFrameStack = << >> THEN Becomes(Throw(vm))
           ELSE LET called == vm.EvalFrameStack[CurrentEvalFrame]
                    i      == Nd.val + 1
                IN Becomes(
                  IF i > Len(called.DefinedFrame.params) THEN Throw(vm)
                  ELSE IF called.DefinedFrame.params[i] = "ParamValues"
                  THEN [Goto(vm, "Exit") EXCEPT
                          !.FrameStack = SetTop(@, [Last(@) EXCEPT
                                           !.ReturnValue = called.Values[i]])]
                  ELSE Call(vm, "Exit", "EvalInCallingContext", Frame.CallModifier,
                            called.Caller.kids[i]))
     \/ At("Exit") /\ Becomes(Return(vm, ReturnValue))

\* The context is found at the index of CurEvalFrameStack that its top names.
EvalInCallingContext ==
  /\ Running("EvalInCallingContext")
  /\ \/ /\ At("Enter")
        /\ Becomes(Call([vm EXCEPT !.CurEvalFrameStack = Append(@, @[Last(@) + 1])],
                        "Exit", "Eval", Frame.CallModifier, Nd))
     \/ /\ At("Exit")
        /\ Becomes(Return([vm EXCEPT !.CurEvalFrameStack = Front(@)], ReturnValue))

Callable ==
  Defines(Nd.name, "Define") /\ Len(task.defs[Nd.name].params) = Len(Nd.kids)

\* (eval N E1 ... En): evaluate the arguments that are passed by value, then
\* the definition.
EvalVirtual ==
  /\ Evaluating({"EvalVirtual"})
  /\ \/ At("Enter") /\ ~Callable /\ Becomes(Throw(vm))
     \/ /\ At("Enter") /\ Callable
        /\ LET defn == task.defs[Nd.name]
           IN Becomes(Goto([PushLoop(vm, 0) EXCEPT
                              !.CurEvalFrameStack = Append(@, Len(vm.EvalFrameStack)),
                              !.EvalFrameStack = Append(@, EvalFrame(Nd, defn)),
                              !.LoopSizeStack = Append(@, NumValueArgs(defn))],
                           "Loop"))
     \/ /\ At("Loop") /\ LoopCounter >= Last(vm.LoopSizeStack)
        /\ Becomes(Goto(vm, "Step3"))
     \/ /\ At("Loop") /\ LoopCounter < Last(vm.LoopSizeStack)
        /\ Becomes(Call(vm, "Step2", "EvalInCallingContext", Frame.CallModifier,
                        Nd.kids[LoopCounter + 1]))
     \/ /\ At("Step2")
        /\ Becomes(Goto([CountLoop(vm, 1) EXCEPT
                           !.EvalFrameStack[CurrentEvalFrame].Values[LoopCounter + 1] =
                              ReturnValue],
                        "Loop"))
     \/ /\ At("Step3")
        /\ Becomes(Call(vm, "Exit", "Eval", Frame.CallModifier, task.defs[Nd.name]))
     \/ /\ At("Exit")
        /\ Becomes(Return([PopLoop(vm) EXCEPT !.CurEvalFrameStack = Front(@),
                                              !.EvalFrameStack = Front(@),
                                              !.LoopSizeStack = Front(@)],
                          vm.LastReadValue))

---------------------------------------------------------------------------
\* Blocks.  They are read and written whatever the modifier of the call.

EvalBlockNode ==
  /\ Evaluating({"Block"})
  /\ \/ At("Enter") /\ Becomes(Call(vm, "Exit", "EvalBlock", Frame.CallModifier, Nd.kids[1]))
     \/ At("Exit")  /\ Becomes(Return(vm, 0))

EvalBlock ==
  /\ Running("EvalBlock")
  /\ \/ /\ At("Enter")
        /\ Becomes(Call(WriteAction(ReadAction(vm, "block.enter"), "block.enter"),
                        "Exit", "Eval", Frame.CallModifier, Nd))
     \/ /\ At("Exit")
        /\ Becomes(Return(WriteAction(ReadAction(vm, "block.exit"), "block.exit"), 0))

---------------------------------------------------------------------------
\* The other methods.

\* Method Peek: read, and go back.
PeekMethod ==
  /\ Running("Peek")
  /\ \/ At("Enter") /\ Becomes(Call(PushPeekPos(vm), "Exit", "Eval", "ReadOnly", Nd))
     \/ At("Exit")  /\ Becomes(Return(PopPeekPos(vm), ReturnValue))

\* Method GetFile: read the header, write one, run 'file', freeze the output.
GetFile ==
  /\ Running("GetFile")
  /\ \/ At("Enter") /\ Becomes(Call(vm, "Step2", "Eval", "ReadOnly", task.readHeader))
     \/ At("Step2") /\ Becomes(Call(vm, "Step3", "Eval", "WriteOnly", task.writeHeader))
     \/ At("Step3") /\ Becomes(Call(vm, "Exit", "Eval", Frame.CallModifier, task.file))
     \/ At("Exit")  /\ Becomes(Return(Emit(vm, << "eof", 0 >>), 0))

\* Method HasFileHeader: whether the header can be read.  When it cannot, the
\* failure is passed on.
HasFileHeader ==
  /\ Running("HasFileHeader")
  /\ \/ /\ At("Enter")
        /\ Becomes(Call(PushPeekPos([vm EXCEPT !.CatchStack = Append(@, "HasFileHeader")]),
                        "Exit", "Eval", "ReadOnly", task.readHeader))
     \/ /\ At("Exit")
        /\ Becomes(IF IsEmpty(vm.CatchStack) THEN Fail(vm)
                   ELSE Return(PopPeekPos([vm EXCEPT !.CatchStack = Front(@)]), 0))
     \/ /\ At("Catch")
        /\ Becomes(IF IsEmpty(vm.CatchStack) THEN Throw(vm) ELSE Fail(vm))

CheckForEof == task.start # "HasFileHeader"

\* handleOtherMethods, once the first method has returned.
Finish ==
  /\ Running("Started")
  /\ LET m == Goto([vm EXCEPT !.FrameStack = SetTop(@, [Last(@) EXCEPT
                                                !.CallMethod = "Finished"])], "Succeeded")
     IN Becomes(IF CheckForEof /\ vm.ReadPos.at < filled THEN Throw(m) ELSE m)

Finished  == Frame.CallMethod = "Finished"
Succeeded == Finished /\ Frame.CallState = "Succeeded"

---------------------------------------------------------------------------
\* What is around: input comes in pieces of any size, and then ends.
MoreInput ==
  /\ ~Finished
  /\ \E n \in filled + 1 .. Len(task.input) : filled' = n
  /\ UNCHANGED << task, vm >>

Step ==
  \/ EvalError \/ EvalNotImplemented
  \/ EvalHeader
  \/ EvalBitwise \/ EvalBitwiseNegate \/ EvalCallback
  \/ EvalInteger \/ EvalLastRead \/ EvalLocal \/ EvalSet
  \/ EvalPeek \/ EvalRead \/ EvalFormat \/ EvalBinary
  \/ EvalMap \/ EvalWrite
  \/ EvalNot \/ EvalAndOr
  \/ EvalSequence \/ EvalTable
  \/ EvalLoop \/ EvalLoopUnbounded
  \/ EvalIf \/ EvalSwitch \/ EvalCase
  \/ EvalDefine \/ EvalLiteralUse
  \/ EvalParam \/ EvalInCallingContext \/ EvalVirtual
  \/ EvalBlockNode \/ EvalBlock
  \/ PeekMethod \/ GetFile \/ HasFileHeader
  \/ Finish

Next == Step \/ MoreInput

\* algorithmReadBackFilled fills and resumes until the interpreter is finished.
Spec == Init /\ [][Next]_vars /\ WF_vars(Step) /\ WF_vars(MoreInput)

---------------------------------------------------------------------------
\* Properties.  What a run computes is compared with Meaning, the meaning of
\* algorithms as trees, in the module of that name.

CountFrames(P(_)) == Cardinality({i \in 2 .. Len(vm.FrameStack) : P(vm.FrameStack[i])})

Evaluates(f, types) == f.CallMethod = "Eval" /\ f.Nd.type \in types

Counting(f) ==
  \/ Evaluates(f, Headers \cup {"Write", "Sequence", "EvalVirtual"}) /\ f.CallState # "Enter"
  \/ Evaluates(f, {"Loop"}) /\ f.CallState \in {"Loop", "Exit"}
  \/ f.CallMethod = "GetAlgorithm" /\ f.CallState \notin {"Enter", "Exit"}

\* GetAlgorithm, while it looks for a selector whose header can be read.
Selecting(f) == f.CallMethod = "GetAlgorithm" /\ f.CallState \in {"Loop", "Step2"}

Calling(f)   == Evaluates(f, {"EvalVirtual"}) /\ f.CallState # "Enter"
InContext(f) == f.CallMethod = "EvalInCallingContext" /\ f.CallState = "Exit"
WithLocals(f) == Evaluates(f, {"Define"}) /\ f.Nd.val # 0 /\ f.CallState = "Exit"
HasArgument(f) == Evaluates(f, Bitwise2) /\ f.CallState = "Exit"
Peeking(f)   == \/ f.CallMethod = "Peek" /\ f.CallState = "Exit"
                \/ f.CallMethod = "HasFileHeader" /\ f.CallState # "Enter"
                \/ Selecting(f)
                \/ f.CallMethod = "GetAlgorithm" /\ f.CallState = "Catch"
InTable(f)   == /\ Evaluates(f, {"Table"}) /\ f.CallState = "Exit"
                /\ f.CallModifier \in {"ReadAndWrite", IF task.expand THEN "ReadOnly" ELSE "WriteOnly"}
Catching(f)  == \/ f.CallMethod = "HasFileHeader" /\ f.CallState = "Exit"
                \/ /\ Evaluates(f, Headers) /\ f.CallState \in {"Loop", "Exit"}
                   /\ \/ vm.FrameStack[2].CallMethod = "HasFileHeader"
                      \/ Selecting(vm.FrameStack[2])
                \/ Selecting(f)

Restores == Cardinality({i \in DOMAIN vm.RestoreStack : vm.RestoreStack[i]})

\* Every stack of the interpreter is as high as the methods that are being
\* called need it to be, and empty when all have returned: whatever they
\* pushed they pop, also when a failure is caught on the way.
StacksMatchFrames ==
  ~(Finished /\ Frame.CallState = "Failed") =>
    /\ Len(vm.LoopCounterStack) - 1 = CountFrames(Counting)
    /\ Len(vm.LoopSizeStack) = CountFrames(Calling)
    /\ Len(vm.EvalFrameStack) = CountFrames(Calling)
    /\ Len(vm.CurEvalFrameStack) - 1 = CountFrames(Calling) + CountFrames(InContext)
    /\ Len(vm.LocalsBaseStack) - 1 = CountFrames(WithLocals)
    /\ CountFrames(WithLocals) + CountFrames(HasArgument) = 0 => vm.LocalValues = << >>
    /\ Len(vm.SavedPosStack) = CountFrames(Peeking) + Restores
    /\ Len(IF task.expand THEN vm.RestoreStack ELSE vm.Scratch) = CountFrames(InTable)
    /\ Len(vm.CatchStack) - 1 = CountFrames(Catching)

\* The Reader has been failed by reading a bit where there was none.
OutOfBits == vm.ReadPos.at = kErrorPageAddress

\* Every run comes to an end, however slowly the input comes, or
\* has read a bit where there was none: then no step is taken any more.
RunEnds == <>(Finished \/ OutOfBits)
=============================================================================
