----------------------------- MODULE Selection -----------------------------
(***************************************************************************)
(* Choosing the algorithm by the header of the input: GetAlgorithm of      *)
(* interp/Interpreter.cpp, which tries the headers of its selectors in     *)
(* turn, and interp/DecompressSelector.cpp, which decides what the chosen  *)
(* algorithm reads from and writes to.  An input may hold algorithms,      *)
(* which are inflated and queued, and then data.  With an algorithm in the *)
(* queue the data becomes an integer stream, and that what the default     *)
(* algorithm for its header makes of it.                                   *)
(*                                                                         *)
(* A task that starts with GetAlgorithm has its selectors, and says what   *)
(* inflates to which algorithm; Casm is about that.  Changing the symbol   *)
(* table or the Reader changes the task, changing the Writer what has been *)
(* written.                                                                *)
(***************************************************************************)
EXTENDS Interpreter

\* The selectors a task has, each with the header it reads: no algorithm of a
\* selector is installed without one either.
ASSUME SelectorsAssumption ==
  \A t \in Tasks :
    /\ Len(t.selectors) \in Nat
    /\ \A i \in 1 .. Len(t.selectors) : t.selectors[i].readHeader.type \in Headers

VARIABLE sel    \* the DecompAlgState of the selectors, and history

allVars == << vars, sel >>

\* A symbol table, as far as it is used: of its headers those it finds, its
\* own or in its enclosing scopes, likewise the definition of 'file'.
Symtab(readHeader, writeHeader, file, defs, isAlgorithm) ==
  [readHeader |-> readHeader, writeHeader |-> writeHeader, file |-> file, defs |-> defs,
   specifiesAlgorithm |-> isAlgorithm]

NoSymtab == Symtab(NoNode, NoNode, NoNode, << >>, FALSE)
IsNull(symtab) == symtab.file = NoNode

NewWriter(kind) == [Writer |-> kind, Output |-> << >>, Cached |-> {}, Scratch |-> << >>]
NoWriter == NewWriter("nullptr")

WriterOf(m) == [f \in DOMAIN NoWriter |-> m[f]]
setWriter(m, w) ==
  [m EXCEPT !.Writer = w.Writer, !.Output = w.Output, !.Cached = w.Cached, !.Scratch = w.Scratch]

\* setSymbolTable and resetSymbolTable.
setSymbolTable(t, symtab) ==
  [t EXCEPT !.readHeader = symtab.readHeader, !.writeHeader = symtab.writeHeader,
            !.file = symtab.file, !.defs = symtab.defs]

SelectionInit ==
  /\ Init
  /\ sel = [AlgQueue |-> << >>, FinalSymtab |-> NoSymtab,
            Inflator |-> FALSE, IntermediateStream |-> FALSE,
            OrigWriter |-> NoWriter,
            Input |-> task.input]    \* history: what there was to read at first

---------------------------------------------------------------------------
\* DecompressSelector.

Selector == task.selectors[LoopCounter + 1]

\* Interpreter::getDefaultAlgorithm: of the values of headers, their types
\* and bases included.
getDefaultAlgorithm(header) ==
  LET matching == SelectSeq(task.selectors, LAMBDA s : s.readHeader.kids = header.kids)
  IN  IF matching = << >> THEN NoSymtab ELSE Head(matching)

Configured(t, m, s) == task' = t /\ vm' = m /\ sel' = s /\ UNCHANGED filled

configureAlgorithm(m) ==
  Configured(setSymbolTable(task, Selector), setWriter(m, NewWriter("InflateAst")),
             [sel EXCEPT !.OrigWriter = WriterOf(m), !.Inflator = TRUE])

applyDataAlgorithm(m) == Configured(setSymbolTable(task, Selector), m, sel)

\* The last algorithm of the queue determines the final one.
applyNextQueuedAlgorithm(m) ==
  LET next == Head(sel.AlgQueue)
      rest == Tail(sel.AlgQueue)
  IN  Configured(setSymbolTable(task, next), setWriter(m, NewWriter("IntWriter")),
                 [sel EXCEPT !.AlgQueue = rest, !.OrigWriter = WriterOf(m),
                             !.IntermediateStream = TRUE,
                             !.FinalSymtab = IF rest = << >>
                                             THEN getDefaultAlgorithm(next.writeHeader) ELSE @])

configure(m) ==
  IF Selector.specifiesAlgorithm THEN configureAlgorithm(m)
  ELSE IF sel.AlgQueue = << >> THEN applyDataAlgorithm(m)
  ELSE applyNextQueuedAlgorithm(m)

\* The algorithm that was written to the Inflator, in the scope of the default
\* algorithm for what it reads.
Inflated(written) ==
  LET symtab    == task.inflates[written]
      enclosing == getDefaultAlgorithm(symtab.readHeader)
  IN  [symtab EXCEPT !.defs = @ @@ enclosing.defs]

\* What an IntWriter makes of what is written: a header and values.
HeaderOf(written) == SelectSeq(written, LAMBDA token : token[1] \in IntegerNodes)
ValuesOf(written) ==
  LET values == SelectSeq(written, LAMBDA token : token[1] \notin IntegerNodes \cup {"eof"})
  IN  [i \in DOMAIN values |-> values[i][2]]

\* The Reader becomes an IntReader of the stream that was written.
setInput(m) ==
  [m EXCEPT !.ReadPos = [at |-> 0, eobs |-> << >>], !.SavedPosStack = << >>,
            !.Table = << >>, !.RestoreStack = << >>, !.HeaderIndex = 0]

---------------------------------------------------------------------------
\* Method GetAlgorithm.

Selects(m) == Becomes(m) /\ UNCHANGED sel

PushSelecting(m) ==
  Goto(PushPeekPos([m EXCEPT !.CatchStack = Append(@, "GetAlgorithm")]), "Loop")

PopSelecting(m) == PopPeekPos([m EXCEPT !.CatchStack = Front(@)])

\* Either the next selector is tried, or there is none left.
TrySelector ==
  \/ At("Enter") /\ Selects(PushSelecting(PushLoop(vm, 0)))
  \/ /\ At("Loop") /\ LoopCounter >= Len(task.selectors)
     /\ Selects(Throw(PopLoop(PopSelecting(vm))))
  \/ /\ At("Loop") /\ LoopCounter < Len(task.selectors)
     /\ Selects(Call(vm, "Step2", "Eval", "ReadOnly", Selector.readHeader))

\* The header could be read: it is read again, by the algorithm.
ApplyAlgorithm ==
  \/ At("Step2") /\ configure(Goto(PopSelecting(vm), "Step3"))
  \/ At("Step3") /\ Selects(Call(vm, "Step4", "GetFile", Frame.CallModifier, NoNode))

\* Step4 once no symbol table is left to apply: the input goes on, or ends.
NextSection(m) ==
  IF EndsWithin(m.ReadPos, 1) THEN Goto(PopLoop(m), "Exit")
  ELSE PushSelecting([m EXCEPT !.LoopCounterStack = SetTop(@, 0)])

\* DecompressSelector::reset of a selector that is for algorithms.
ResetAlgorithm ==
  LET m  == setWriter(vm, sel.OrigWriter)
      ok == vm.Output \in DOMAIN task.inflates
  IN  /\ At("Step4") /\ Selector.specifiesAlgorithm
      /\ Configured(setSymbolTable(task, NoSymtab), IF ok THEN NextSection(m) ELSE Throw(m),
                    [sel EXCEPT !.Inflator = FALSE,
                                !.AlgQueue = IF ok THEN Append(@, Inflated(vm.Output)) ELSE @])

\* Of one for data, which has been copied.
ResetCopied ==
  /\ At("Step4") /\ ~Selector.specifiesAlgorithm /\ ~sel.IntermediateStream
  /\ Configured(setSymbolTable(task, NoSymtab), NextSection(vm), sel)

\* Of one for data, with an integer stream, which is converted back by the
\* final algorithm.
ResetData ==
  LET m == setInput(setWriter(vm, sel.OrigWriter))
  IN  /\ At("Step4") /\ ~Selector.specifiesAlgorithm /\ sel.IntermediateStream
      /\ task' = [setSymbolTable(task, sel.FinalSymtab) EXCEPT
                    !.input = ValuesOf(vm.Output), !.header = HeaderOf(vm.Output)]
      /\ filled' = Len(ValuesOf(vm.Output))
      /\ vm' = IF IsNull(sel.FinalSymtab) THEN Throw(m) ELSE Goto(m, "Step3")
      /\ sel' = [sel EXCEPT !.IntermediateStream = FALSE, !.OrigWriter = NoWriter,
                            !.FinalSymtab = NoSymtab]

\* A header that could not be read: go back, and on to the next selector.
CatchHeader ==
  /\ At("Catch")
  /\ Selects(IF vm.CatchState = "Step2"
             THEN PushSelecting(CountLoop(PopPeekPos(vm), 1))
             ELSE Throw(vm))

GetAlgorithm ==
  /\ Running("GetAlgorithm")
  /\ \/ TrySelector \/ ApplyAlgorithm
     \/ ResetAlgorithm \/ ResetCopied \/ ResetData
     \/ CatchHeader
     \/ At("Exit") /\ Selects(Return(vm, 0))

---------------------------------------------------------------------------
SelectionStep == (Step /\ UNCHANGED sel) \/ GetAlgorithm
SelectionNext == SelectionStep \/ (MoreInput /\ UNCHANGED sel)

SelectionSpec ==
  /\ SelectionInit /\ [][SelectionNext]_allVars
  /\ WF_allVars(SelectionStep) /\ WF_allVars(MoreInput /\ UNCHANGED sel)

\* What the first Writer has been given, wherever the current one writes to.
Written ==
  IF vm.Writer = "ByteWriter" THEN vm.Output ELSE sel.OrigWriter.Output
=============================================================================
