---------------------------- MODULE SymbolTable ----------------------------
(***************************************************************************)
(* Symbol tables (sexp/Ast.cpp): an algorithm is installed by putting its  *)
(* tree into a standard order, finding the tables that enclose it, binding *)
(* its names and checking its nodes.  Names that a table does not define   *)
(* are looked up in the tables around it, and what is found is cached.     *)
(* cast2casm then strips the tree in place, table and bindings staying as  *)
(* they are; decompress encloses an algorithm it has read in the first one *)
(* whose header is the one the algorithm asks for.                         *)
(***************************************************************************)
EXTENDS Ast, FiniteSets, FiniteSetsExt

CONSTANTS Files,            \* file -> [alg, include]: its tree, and the file it includes
          Finals,           \* the files read last, whose tables are then used
          NoFile,
          PredefinedName,   \* actions with a fixed number, by number + 1
          KeptActions,      \* sets of actions that may be kept when stripping
          MaxTables,
          IntBits           \* of IntType

ASSUME SymbolTableAssumption ==
  /\ Finals \subseteq DOMAIN Files /\ NoFile \notin DOMAIN Files
  /\ MaxTables \in Nat \ {0} /\ IntBits \in Nat \ {0}

VARIABLES tables,           \* in the order they are made
          registry,         \* SymbolTable::AlgorithmRegistry
          halted,           \* fatal, or a crash
          program,          \* "cast2casm" or "decompress"
          cur,              \* InputSymtab, AlgSymtab: the table read before, or 0
          Selectors,        \* of decompress: the tables to select from
          pc, kept

vars == << tables, registry, halted, program, cur, Selectors, pc, kept >>

---------------------------------------------------------------------------
\* A symbol's definitions.  A define is known by the table and the name of its
\* node, which strips change in place; a literal and an action have a number.

NoNode == NodeOf("Void", << >>)
NoDefn == [home |-> 0, name |-> << >>, node |-> NoNode]

Kinds == {"define", "literal", "action"}
NamesIn(nd) == {sub.name : sub \in {s \in Range(Preorder(nd)) : s.type = "Symbol"}}
Names == Range(PredefinedName) \union UNION {NamesIn(Files[file].alg) : file \in DOMAIN Files}
NoDefns == [name \in Names |-> [kind \in Kinds |-> NoDefn]]

IsPredefined(name) == name \in Range(PredefinedName)

Cleared(table) ==
  [table EXCEPT !.installed = FALSE, !.defs = NoDefns, !.ActionBase = 0,
                !.CallbackLiterals = {}, !.CallbackValues = {}, !.UndefinedCallbacks = {}]

\* The parser has made a symbol of every name; symbols are never taken away.
NewTable(alg, enc) ==
  [alg |-> alg, read |-> alg, enc |-> enc, symbols |-> NamesIn(alg),
   installed |-> FALSE, defs |-> NoDefns,
   ActionBase |-> 0, CallbackLiterals |-> {}, CallbackValues |-> {}, UndefinedCallbacks |-> {}]

\* What the operations work on; ok is what the last of them returned, and the
\* sets that are walked in the order of addresses may have predefined actions first.
World == [tables |-> tables, registry |-> registry, halted |-> halted, ok |-> TRUE]
Halt(w) == [w EXCEPT !.halted = TRUE, !.ok = FALSE]
Refuse(w) == [w EXCEPT !.ok = FALSE]
Accept(w) == [w EXCEPT !.ok = ~w.halted]
AndThen(w, Do(_)) == IF w.ok THEN Do(w) ELSE w

setEnclosingScope(w, t, enc) == [w EXCEPT !.tables[t] = Cleared([@ EXCEPT !.enc = enc])]

\* The tables from one outwards, and whether they go round.
RECURSIVE ScopesFrom(_, _, _)
ScopesFrom(tabs, t, inner) ==
  IF t = 0 \/ t \in Range(inner) THEN inner ELSE ScopesFrom(tabs, tabs[t].enc, Append(inner, t))

Scopes(tabs, t) == ScopesFrom(tabs, t, << >>)
GoRound(tabs, t) == tabs[Last(Scopes(tabs, t))].enc # 0

\* Mutant: the outermost definition is found first.
LookOutermost(tabs, t, kind, name) ==
  LET found == SelectSeq(Reverse(Scopes(tabs, t)), LAMBDA s : tabs[s].defs[name][kind] # NoDefn)
  IN  IF found = << >> THEN NoDefn ELSE tabs[Head(found)].defs[name][kind]

Look(tabs, t, kind, name) ==
  LET found == SelectSeq(Scopes(tabs, t), LAMBDA s : tabs[s].defs[name][kind] # NoDefn)
  IN  IF found = << >> THEN NoDefn ELSE tabs[Head(found)].defs[name][kind]

\* A search ends in the first table with a definition, and makes a symbol of
\* the name in every table it comes through.
IsSearched(tabs, t, kind, name, s) ==
  LET scopes == Scopes(tabs, t)
  IN  \E i \in DOMAIN scopes :
        scopes[i] = s /\ \A j \in 1 .. i - 1 : tabs[scopes[j]].defs[name][kind] = NoDefn

WithSymbols(w, t, uses) ==
  LET found(s) == {use \in uses : IsSearched(w.tables, t, use[1], use[2], s)}
  IN  FoldLeft(LAMBDA acc, s : [acc EXCEPT !.tables[s].symbols = @ \union {use[2] : use \in found(s)}],
               w, Scopes(w.tables, t))

\* What was found is kept in the table the search began in.
Cache(w, t, kind, name) ==
  [WithSymbols(w, t, {<< kind, name >>}) EXCEPT
     !.tables[t].defs[name][kind] = Look(w.tables, t, kind, name)]

Bind(w, t, kind, name, defn) ==
  IF w.tables[t].defs[name][kind] # NoDefn THEN Halt(w)
  ELSE [w EXCEPT !.tables[t].defs[name][kind] = defn]

BindAction(w, t, name, node) ==
  LET defn == [home |-> t, name |-> name, node |-> node]
  IN  Bind([w EXCEPT !.tables[t].CallbackLiterals = @ \union {defn}], t, "action", name, defn)

DefineNode(tabs, defn) ==
  CHOOSE nd \in Range(KidsOfType(tabs[defn.home].alg, "Define")) : nd.kids[1].name = defn.name

---------------------------------------------------------------------------
\* The frame of a define: how many arguments it takes, how many locals it has.

RECURSIVE FrameArgs(_)
FrameArgs(args) ==
  IF args = << >> THEN << >>
  ELSE << Head(args) >>
         \o FrameArgs(Tail(args) \o IF Head(args).type = "ParamArgs" THEN Head(args).kids ELSE << >>)

\* A cached argument must come first, and is counted before that is checked.
addArg(frame, arg) ==
  LET sized == [frame EXCEPT !.args = @ + arg.value]
  IN  CASE arg.type \in {"NoParams", "ParamArgs"} -> frame
        [] arg.type = "ParamCached" -> [sized EXCEPT !.ok = @ /\ sized.args = 0]
        [] arg.type = "ParamExprs" -> [sized EXCEPT !.exprs = @ + arg.value]
        [] arg.type = "ParamValues" -> [sized EXCEPT !.ok = @ /\ frame.exprs = 0]
        [] OTHER -> [frame EXCEPT !.ok = FALSE]

DefineFrame(define) ==
  LET empty == [ok |-> TRUE, args |-> 0, exprs |-> 0, locals |-> 0]
      frame == FoldLeft(addArg, empty, FrameArgs(<< define.kids[2] >>))
      decl == define.kids[3]
  IN  IF Len(define.kids) # 4 THEN [empty EXCEPT !.ok = FALSE]
      ELSE IF decl.type = "Locals" THEN [frame EXCEPT !.locals = decl.value]
      ELSE [frame EXCEPT !.ok = @ /\ decl.type = "NoLocals"]

---------------------------------------------------------------------------
\* installDefinitions, for one node of an algorithm.

bindRenamed(w, t, name, defn) ==
  IF defn = NoDefn THEN Halt(w)
  ELSE IF ~DefineFrame(DefineNode(w.tables, defn)).ok THEN Halt(w)
  ELSE Bind(w, t, "define", name, defn)

\* The table around must have the name as a symbol, even if it is defined
\* further out.
installRename(w, t, nd) ==
  LET enc == w.tables[t].enc
      old == nd.kids[1].name
  IN  IF enc = 0 THEN Halt(w)
      ELSE IF old \notin w.tables[enc].symbols THEN Halt(w)
      ELSE bindRenamed(Cache(w, enc, "define", old), t, nd.kids[2].name, Look(w.tables, enc, "define", old))

installActionDef(w, t, name, node) ==
  IF IsPredefined(name) THEN Halt(w) ELSE BindAction(w, t, name, node)

installActionBase(w, t, nd) ==
  LET base == nd.kids[1]
      based == [w EXCEPT !.tables[t].ActionBase = base.value]
      number(acc, i) ==
        installActionDef(acc, t, nd.kids[i].name, IntNode("U64Const", base.value + i - 2, base.format))
  IN  IF w.tables[t].ActionBase # 0 THEN Halt(w)
      ELSE FoldLeft(number, based, [i \in 1 .. Len(nd.kids) - 1 |-> i + 1])

installDefinition(w, t, nd) ==
  LET name == nd.kids[1].name
  IN  CASE nd.type = "Define" -> Bind(w, t, "define", name, [NoDefn EXCEPT !.home = t, !.name = name])
        [] nd.type = "LiteralDef" ->
             Bind(w, t, "literal", name, [home |-> t, name |-> name, node |-> nd.kids[2]])
        [] nd.type = "LiteralActionDef" -> installActionDef(w, t, name, nd.kids[2])
        [] nd.type = "LiteralActionBase" -> installActionBase(w, t, nd)
        [] nd.type = "Rename" -> installRename(w, t, nd)
        [] nd.type = "Undefine" -> Bind(w, t, "define", name, NoDefn)
        [] OTHER -> w

installPredefined(w, t) ==
  FoldLeft(LAMBDA acc, i : BindAction(acc, t, PredefinedName[i], IntNode("U32Const", i - 1, 0)),
           [w EXCEPT !.tables[t].symbols = @ \union Range(PredefinedName)],
           [i \in DOMAIN PredefinedName |-> i])

installDefinitions(w, t) ==
  FoldLeft(LAMBDA acc, nd : AndThen(acc, LAMBDA v : installDefinition(v, t, nd)), w, w.tables[t].alg.kids)

---------------------------------------------------------------------------
\* Validation.  Its checks are independent of each other but for the lookups
\* they cache, so they are taken together.

IntegerNodes == Integer \union Literal \union {"BinaryAccept"}
NodesOf(alg, type) == SelectSeq(Preorder(alg), LAMBDA nd : nd.type = type)

UsesOf(alg, type) == {nd.kids[1].name : nd \in Range(NodesOf(alg, type))}
Uses(alg) ==
  ({"define"} \X UsesOf(alg, "EvalVirtual")) \union ({"literal"} \X UsesOf(alg, "LiteralUse"))
    \union ({"action"} \X UsesOf(alg, "LiteralActionUse"))

\* The cases that belong to a selector, or to none of those below a node.
RECURSIVE CasesUnder(_)
CasesUnder(nd) ==
  ConcatMap(LAMBDA kid : SelectSeq(<< kid >>, LAMBDA k : k.type = "Case")
                           \o IF kid.type \in Select THEN << >> ELSE CasesUnder(kid),
            nd.kids)

CaseKey(tabs, t, case) ==
  LET key == case.kids[1]
      defn == Look(tabs, t, "literal", key.kids[1].name)
  IN  IF key.type = "LiteralUse" /\ defn # NoDefn THEN defn.node ELSE key

CasesDiffer(tabs, t, nd) ==
  LET cases == CasesUnder(nd)
      keys == [i \in DOMAIN cases |-> CaseKey(tabs, t, cases[i])]
  IN  /\ \A i \in DOMAIN keys : keys[i].type \in IntegerNodes
      /\ IsInjective([i \in DOMAIN keys |-> keys[i].value])

\* The accepts of a binary tree, by their paths from the root.
RECURSIVE Paths(_)
Paths(nd) ==
  IF nd.type # "BinarySelect" THEN {<< >>}
  ELSE UNION {{<< bit >> \o path : path \in Paths(nd.kids[bit + 1])} : bit \in 0 .. 1}

\* The path is noted from the leaf, the bit at the root is the lowest.
AcceptValue(path) == FoldLeft(LAMBDA value, bit : 2 * value + bit, 0, Reverse(path))

EncodingIsGood(eval) ==
  LET paths == Paths(eval.kids[1])
  IN  /\ \A path \in paths : Len(path) <= IntBits
      /\ \A p, q \in paths : AcceptValue(p) = AcceptValue(q) => p = q

\* The formats of bytes say their width with a kid that they do not have.
getCaseSelectorWidth(nd) == IF nd.type = "Bit" /\ 1 < IntBits THEN {1} ELSE {}

RECURSIVE collectCaseWidths(_, _)
collectCaseWidths(key, nd) ==
  LET cases == Tail(nd.kids)
      below(case) == collectCaseWidths(case.kids[1].value, case.kids[2])
      widths == getCaseSelectorWidth(nd.kids[1])
      here == widths # {} /\ \A i \in DOMAIN cases : below(cases[i]).ok
      inner == {below(cases[i]) : i \in {j \in DOMAIN cases : cases[j].kids[1].value # key}}
      added == widths \union {w + n : w \in widths, n \in UNION {below(cases[i]).widths : i \in DOMAIN cases}}
  IN  CASE nd.type \in {"Uint8", "Uint32", "Uint64"} ->
             [ok |-> getCaseSelectorWidth(nd) # {}, widths |-> getCaseSelectorWidth(nd)]
        [] nd.type = "Opcode" /\ nd.kids[1].type = "LastRead" ->
             [ok |-> \A sub \in inner : sub.ok, widths |-> UNION {sub.widths : sub \in inner}]
        [] nd.type = "Opcode" /\ nd.kids[1].type # "LastRead" ->
             [ok |-> here /\ \A n \in added : n < IntBits, widths |-> added]
        [] OTHER -> [ok |-> FALSE, widths |-> {}]

\* Without a case, the ranges are compared past the end of none.
OpcodeIsGood(nd) ==
  LET cases == Tail(nd.kids)
      key(i) == cases[i].kids[1].value
      nested(i) == collectCaseWidths(key(i), cases[i].kids[2])
      written == {<< i, width >> \in (DOMAIN cases) \X (1 .. IntBits) : width \in nested(i).widths}
      range(r) == key(r[1]) * 2 ^ r[2] .. (key(r[1]) + 1) * 2 ^ r[2] - 1
  IN  /\ cases # << >> /\ getCaseSelectorWidth(nd.kids[1]) # {}
      /\ \A i \in DOMAIN cases : nested(i).ok
      /\ \A r, s \in written : r # s => range(r) \intersect range(s) = {}

LocalsAreGood(define) ==
  \A local \in Range(NodesOf(define, "Local")) : local.value < DefineFrame(define).locals

\* A parameter is never refused: Param::validateNode stops at the first of the
\* nodes around it, which is the algorithm.
NodeIsGood(tabs, t, nd) ==
  LET defn(kind) == Look(tabs, t, kind, nd.kids[1].name)
  IN  CASE nd.type = "LiteralUse" -> defn("literal") # NoDefn
        [] nd.type = "EvalVirtual" ->
             /\ defn("define") # NoDefn
             /\ DefineFrame(DefineNode(tabs, defn("define"))).args = Len(nd.kids) - 1
        [] nd.type = "Define" ->
             DefineFrame(nd).ok /\ CasesUnder(nd) = << >> /\ LocalsAreGood(nd)
        [] nd.type = "Callback" -> nd.kids[1].type \in IntegerNodes \union {"LiteralActionUse"}
        [] nd.type \in Select -> CasesDiffer(tabs, t, nd)
        [] nd.type = "BinaryEval" -> EncodingIsGood(nd)
        [] nd.type = "Opcode" -> OpcodeIsGood(nd)
        [] OTHER -> TRUE

IsValid(tabs, t) ==
  LET alg == tabs[t].alg
  IN  /\ KidsOfType(alg, "SourceHeader") # << >>
      /\ Len(KidsOfType(alg, "AlgorithmFlag")) <= 1
      /\ \A nd \in Range(Preorder(alg)) : NodeIsGood(tabs, t, nd)

\* What validation leaves behind.
Validated(w, t) ==
  LET alg == w.tables[t].alg
      uses == Uses(alg)
      looked == [name \in Names |-> [kind \in Kinds |->
                   IF << kind, name >> \in uses THEN Look(w.tables, t, kind, name)
                   ELSE w.tables[t].defs[name][kind]]]
      actions == UsesOf(alg, "LiteralActionUse")
      constant == {nd \in Range(NodesOf(alg, "Callback")) : nd.kids[1].type \in IntegerNodes}
  IN  [WithSymbols(w, t, uses) EXCEPT
                !.tables[t].defs = looked,
                !.tables[t].CallbackLiterals =
                  @ \union ({looked[name].action : name \in actions} \ {NoDefn}),
                !.tables[t].CallbackValues = {nd.kids[1].value : nd \in constant},
                !.tables[t].UndefinedCallbacks = {name \in actions : looked[name].action = NoDefn}]

---------------------------------------------------------------------------
\* Actions: those without a number get one, and none may have another's.

NameLt(a, b) ==
  \E i \in 1 .. Len(b) : /\ i <= Len(a) + 1 /\ SubSeq(a, 1, i - 1) = SubSeq(b, 1, i - 1)
                         /\ i <= Len(a) => a[i] < b[i]

EnumGap == 100
NextEnumValue(table) ==
  LET first == IF table.ActionBase # 0 THEN table.ActionBase ELSE Len(PredefinedName) + EnumGap
  IN  Max({first} \union {defn.node.value + 1 : defn \in table.CallbackLiterals})

numberUndefined(w, t) ==
  LET table == w.tables[t]
      undefined == SetToSortSeq(table.UndefinedCallbacks, NameLt)
      number(acc, i) ==
        BindAction(acc, t, undefined[i], IntNode("U64Const", NextEnumValue(table) + i - 1, 0))
  IN  FoldLeft(number, w, [i \in DOMAIN undefined |-> i])

\* Mutant: two definitions in one table are not compared.
ConflictsAcrossOnly(defn, other) ==
  defn.home # other.home /\ defn.node.value = other.node.value

Conflicts(defn, other) == defn # other /\ defn.node.value = other.node.value

\* The literals are walked in the order of their addresses: of two with one
\* number, the second is refused unless it is predefined.
areActionsConsistent(w, t, predefinedFirst) ==
  LET table == w.tables[t]
  IN  \A defn \in table.CallbackLiterals :
        IsPredefined(defn.name)
          \/ /\ defn.node.value \notin table.CallbackValues
             /\ \A other \in table.CallbackLiterals :
                  Conflicts(defn, other) => IsPredefined(other.name) /\ ~predefinedFirst

installActions(w, t, predefinedFirst) ==
  IF areActionsConsistent(w, t, predefinedFirst) THEN [w EXCEPT !.tables[t].installed = TRUE] ELSE Halt(w)

\* A search for what is not there does not end in tables that go round.
SearchesEnd(tabs, t) ==
  GoRound(tabs, t) =>
    \A name \in UsesOf(tabs[t].alg, "LiteralActionUse") : Look(tabs, t, "action", name) # NoDefn

validate(w, t) ==
  IF IsValid(w.tables, t) /\ SearchesEnd(w.tables, t) THEN numberUndefined(Validated(w, t), t) ELSE Halt(w)

installNodes(w, t, predefinedFirst) ==
  AndThen(AndThen(installDefinitions(installPredefined(w, t), t), LAMBDA bound : validate(bound, t)),
          LAMBDA valid : installActions(valid, t, predefinedFirst))

---------------------------------------------------------------------------
\* The standard order of an algorithm, and the tables that enclose it.

StandardOrder == << "SourceHeader", "ReadHeader", "WriteHeader", "AlgorithmName", "EnclosingAlgorithms" >>

IsDuplicated(alg) == \E type \in Range(StandardOrder) : Len(KidsOfType(alg, type)) > 1

Standardized(alg) ==
  [alg EXCEPT !.kids = ConcatMap(LAMBDA type : KidsOfType(alg, type), StandardOrder)
                         \o SelectSeq(@, LAMBDA kid : kid.type \notin Range(StandardOrder))]

AlgorithmName(alg) ==
  LET named == KidsOfType(alg, "AlgorithmName")
  IN  IF named = << >> THEN << >> ELSE named[1].kids[1].name

Registered(w, name) == IF name \in DOMAIN w.registry THEN w.registry[name] ELSE 0

RECURSIVE install(_, _, _, _), followEnclosing(_, _, _, _, _, _)

\* A table that nothing encloses is enclosed in the registered one of that name.
bindEnclosing(w, inner, enc, busy, first) ==
  IF w.tables[inner].enc # 0 \/ enc = 0 THEN w
  ELSE AndThen(install(w, enc, busy, first), LAMBDA registered : setEnclosingScope(registered, inner, enc))

stepOut(w, next, names, seen, busy, first) ==
  IF next = 0 THEN Refuse(w)
  ELSE IF AlgorithmName(w.tables[next].alg) # Head(names) THEN Refuse(w)
  ELSE followEnclosing(w, next, Tail(names), seen \union {Head(names)}, busy, first)

\* One enclosing name after the other, outwards from the last table found.
followEnclosing(w, inner, names, seen, busy, first) ==
  IF names = << >> THEN Accept(w)
  ELSE IF Head(names) \in seen THEN Refuse(w)
  ELSE AndThen(bindEnclosing(w, inner, Registered(w, Head(names)), busy, first),
               LAMBDA bound : stepOut(bound, bound.tables[inner].enc, names, seen, busy, first))

standardizeAlgorithm(w, t, busy, first) ==
  LET alg == w.tables[t].alg
      enclosing == ConcatMap(LAMBDA nd : nd.kids, KidsOfType(alg, "EnclosingAlgorithms"))
      names == [i \in DOMAIN enclosing |-> enclosing[i].name]
  IN  IF IsDuplicated(alg) THEN Refuse(w)
      ELSE followEnclosing([w EXCEPT !.tables[t].alg = Standardized(alg)], t, names,
                           {AlgorithmName(alg)} \ {<< >>}, busy, first)

installEnclosing(w, enc, busy, first) ==
  IF enc = 0 THEN w ELSE install(w, enc, busy, first)

\* Whoever is being installed and is asked to be, asks the same again, until
\* the stack ends.
install(w, t, busy, first) ==
  IF w.tables[t].installed THEN Accept(w)
  ELSE IF t \in busy THEN Halt(w)
  ELSE AndThen(AndThen(installEnclosing(w, w.tables[t].enc, busy \union {t}, first),
                       LAMBDA around : standardizeAlgorithm(around, t, busy \union {t}, first)),
               LAMBDA standard : installNodes(standard, t, first))

Install(w, t, first) == install(Accept(w), t, {}, first)

---------------------------------------------------------------------------
\* Headers: an installed algorithm's own, then that of a table around it that
\* is installed, then what the tree says.

getHeader(tabs, t, type, UseEnclosing, otherwise) ==
  LET own == KidsOfType(tabs[t].alg, type)
      cached(s) == IF tabs[s].installed THEN KidsOfType(tabs[s].alg, type) ELSE << >>
      around == SelectSeq(Tail(Scopes(tabs, t)), LAMBDA s : cached(s) # << >>)
  IN  IF cached(t) # << >> THEN cached(t)[1]
      ELSE IF UseEnclosing /\ around # << >> THEN cached(around[1])[1]
      ELSE IF ~tabs[t].installed /\ own # << >> THEN own[1]
      ELSE otherwise

getReadHeader(tabs, t, UseEnclosing) ==
  getHeader(tabs, t, "ReadHeader", UseEnclosing,
            getHeader(tabs, t, "SourceHeader", UseEnclosing, NoNode))

\* Interpreter::getDefaultAlgorithm: the first selector with that header.
getDefaultAlgorithm(tabs, header) ==
  LET fitting == SelectSeq(Selectors, LAMBDA s : getReadHeader(tabs, s, TRUE).kids = header.kids)
  IN  IF fitting = << >> THEN 0 ELSE Head(fitting)

---------------------------------------------------------------------------
\* Stripping.  At says what a node becomes, or that its kids are to be stripped.

Descend == NodeOf("Descend", << >>)

\* Mutant: a sequence that has lost all but one of its kids is that of them it began with.
stripUsingFirst(nd, kids) ==
  LET left == SelectSeq(kids, LAMBDA kid : kid.type # "Void")
  IN  IF nd.type \notin Nary \/ Len(left) = Len(kids) THEN [nd EXCEPT !.kids = kids]
      ELSE IF left = << >> THEN NoNode
      ELSE IF Len(left) = 1 /\ nd.type = "Sequence" THEN kids[1]
      ELSE [nd EXCEPT !.kids = left]

stripUsing(nd, kids) ==
  LET left == SelectSeq(kids, LAMBDA kid : kid.type # "Void")
  IN  IF nd.type \notin Nary \/ Len(left) = Len(kids) THEN [nd EXCEPT !.kids = kids]
      ELSE IF left = << >> THEN NoNode
      ELSE IF Len(left) = 1 /\ nd.type = "Sequence" THEN left[1]
      ELSE [nd EXCEPT !.kids = left]

RECURSIVE Stripped(_, _)
Stripped(At(_), nd) ==
  LET kids == [i \in DOMAIN nd.kids |-> Stripped(At, nd.kids[i])]
  IN  IF At(nd) # Descend THEN At(nd) ELSE stripUsing(nd, kids)

KeptIf(nd, test) == IF test THEN nd ELSE NoNode

stripCallbacksExcept(KeepActions, alg) ==
  LET At(nd) ==
        LET action == nd.kids[1]
        IN  CASE nd.type = "Callback" ->
                   KeptIf(nd, action.type = "LiteralActionUse" =>
                                IsPredefined(action.kids[1].name) \/ action.kids[1].name \in KeepActions)
              [] nd.type = "LiteralActionDef" -> KeptIf(nd, action.name \in KeepActions)
              [] nd.type = "LiteralActionBase" -> KeptIf(nd, NamesIn(nd) \intersect KeepActions # {})
              [] OTHER -> Descend
  IN  Stripped(At, alg)

stripSymbolicCallbacks(t) ==
  LET Use(nd) == IF nd.type = "LiteralActionUse" THEN Look(tables, t, "action", nd.kids[1].name).node
                 ELSE Descend
      Def(nd) == IF nd.type \in {"LiteralActionDef", "LiteralActionBase"} THEN NoNode ELSE Descend
  IN  Stripped(Def, Stripped(Use, tables[t].alg))

stripLiteralUses(t, alg) ==
  LET At(nd) == CASE nd.type = "LiteralActionUse" -> nd
                  [] nd.type = "LiteralUse" -> Look(tables, t, "literal", nd.kids[1].name).node
                  [] OTHER -> Descend
  IN  Stripped(At, alg)

\* Mutant: the definitions that are used go, with those that are not.
stripLiteralDefsAll(t, alg) ==
  LET At(nd) == IF nd.type = "LiteralDef" THEN NoNode ELSE Descend
  IN  Stripped(At, alg)

stripLiteralDefs(t, alg) ==
  LET installed == {defn.name : defn \in {d \in tables[t].CallbackLiterals : d.home = t}}
      At(nd) == CASE nd.type = "LiteralDef" -> KeptIf(nd, nd.kids[1].name \in UsesOf(alg, "LiteralUse"))
                  [] nd.type = "LiteralActionDef" -> KeptIf(nd, nd.kids[1].name \in installed)
                  [] OTHER -> Descend
  IN  Stripped(At, alg)

---------------------------------------------------------------------------
\* Actions.

Becomes(w) == tables' = w.tables /\ registry' = w.registry /\ halted' = w.halted

\* The files that are read for one: it, what it includes, and so on.
RECURSIVE Chain(_, _)
Chain(file, before) ==
  IF file = NoFile THEN before
  ELSE IF file \in Range(before) THEN Append(before, file)
  ELSE Chain(Files[file].include, Append(before, file))

parseFile(w, alg, enc) ==
  [w EXCEPT !.tables = Append(@, NewTable(alg, enc)),
            !.registry = (AlgorithmName(alg) :> Len(w.tables) + 1) @@ @]

\* Driver::parse: a table for each, registered when it has been parsed, and
\* enclosed in the next; what the first was to be enclosed in is forgotten then.
parse(w, file, enc) ==
  LET chain == Chain(file, << >>)
      encOf(i, made) == IF i < Len(chain) THEN made + 1 ELSE IF i = 1 THEN enc ELSE 0
      next(acc, i) == parseFile(acc, Files[chain[i]].alg, encOf(i, Len(acc.tables) + 1))
  IN  IF IsInjective(chain) THEN FoldLeft(next, w, [i \in DOMAIN chain |-> i]) ELSE Halt(w)

Fits(file) == Len(tables) + Len(Chain(file, << >>)) <= MaxTables

\* cast2casm installs what CasmReader has installed already, and stops if
\* that does not succeed; decompress does not ask.
installAgain(w, t, first) == IF w.halted THEN w ELSE Install(w, t, first)
insist(w) == IF w.ok THEN w ELSE Halt(w)

installRead(w, t, first) ==
  IF program = "decompress" THEN Install(w, t, first)
  ELSE insist(installAgain(Install(w, t, first), t, first))

Read ==
  /\ ~halted /\ pc = "reading"
  /\ \E file \in DOMAIN Files, first, separator \in BOOLEAN :
       LET new == Len(tables) + 1
       IN  /\ Fits(file) /\ (program = "decompress" => file \notin Finals)
           /\ Becomes(AndThen(parse(World, file, cur), LAMBDA parsed : installRead(parsed, new, first)))
           /\ program = "cast2casm" => ~separator
           /\ cur' = IF separator THEN 0 ELSE new
           /\ Selectors' = IF separator THEN Append(Selectors, new) ELSE Selectors
           /\ pc' = IF file \in Finals THEN "read" ELSE pc
  /\ UNCHANGED << program, kept >>

Stages == << "read", "actions", "symbolic", "literal uses", "literal defs", "literals" >>
Place(stage) == CHOOSE i \in DOMAIN Stages : Stages[i] = stage

\* What a stage makes of the tree of the table that was read.
StrippedAt(stage, keep) ==
  LET alg == tables[cur].alg
  IN  CASE stage = "actions" -> stripCallbacksExcept(keep, alg)
        [] stage = "symbolic" -> stripSymbolicCallbacks(cur)
        [] stage = "literal uses" -> stripLiteralUses(cur, alg)
        [] stage = "literal defs" -> stripLiteralDefs(cur, alg)
        [] stage = "literals" -> stripLiteralDefs(cur, stripLiteralUses(cur, alg))

\* Alg stays the same node, so it stays installed.
Strip ==
  /\ ~halted /\ pc \in Range(Stages)
  /\ \E stage \in Range(Stages), keep \in KeptActions \union {kept} :
       /\ Place(pc) < Place(stage) /\ (stage = "actions" <=> keep # kept)
       /\ Becomes(Install([World EXCEPT !.tables[cur].alg = StrippedAt(stage, keep)], cur, FALSE))
       /\ pc' = stage /\ kept' = keep
  /\ UNCHANGED << program, cur, Selectors >>

\* DecompressSelector::resetAlgorithm, of an algorithm that came with the data.
inflated(w, t, first) ==
  LET header == getReadHeader(w.tables, t, FALSE)
  IN  Install(setEnclosingScope(w, t, getDefaultAlgorithm(w.tables, header)), t, first)

resetAlgorithm ==
  /\ ~halted /\ program = "decompress" /\ pc = "reading" /\ Selectors # << >> /\ Len(tables) < MaxTables
  /\ \E file \in Finals, first \in BOOLEAN :
       /\ KidsOfType(Files[file].alg, "SourceHeader") # << >>
       /\ Becomes(inflated([World EXCEPT !.tables = Append(@, NewTable(Files[file].alg, 0))], Len(tables) + 1, first))
  /\ cur' = Len(tables) + 1 /\ pc' = "inflated" /\ UNCHANGED << program, Selectors, kept >>

Init ==
  /\ tables = << >> /\ registry = << >> /\ halted = FALSE
  /\ program \in {"cast2casm", "decompress"}
  /\ cur = 0 /\ Selectors = << >> /\ pc = "reading" /\ kept = Names

Next ==
  \/ Read \/ resetAlgorithm \/ Strip

Spec == Init /\ [][Next]_vars
---------------------------------------------------------------------------
\* What a name means, by the trees as they were read: the innermost definition
\* of it, a renamed one being what the tables around call by the old name.

RECURSIVE BoundDefine(_, _), BoundLiteral(_, _), BoundAction(_, _)

Declared(t, type, name) ==
  SelectSeq(KidsOfType(tables[t].read, type), LAMBDA nd : nd.kids[1].name = name)

BoundDefine(t, name) ==
  LET own == Declared(t, "Define", name)
      renamed == SelectSeq(KidsOfType(tables[t].read, "Rename"), LAMBDA nd : nd.kids[2].name = name)
  IN  IF t = 0 THEN NoDefn
      ELSE IF own # << >> THEN [NoDefn EXCEPT !.home = t, !.name = name]
      ELSE IF renamed # << >> THEN BoundDefine(tables[t].enc, renamed[1].kids[1].name)
      ELSE BoundDefine(tables[t].enc, name)

BoundLiteral(t, name) ==
  IF t = 0 THEN NoDefn
  ELSE LET own == Declared(t, "LiteralDef", name)
       IN  IF own = << >> THEN BoundLiteral(tables[t].enc, name)
           ELSE [home |-> t, name |-> name, node |-> own[1].kids[2]]

\* The actions a tree gives a number, and those that it leaves to be numbered.
NumberOf(tree, name) ==
  {nd.kids[2].value : nd \in {d \in Range(KidsOfType(tree, "LiteralActionDef")) : d.kids[1].name = name}}
    \union
  UNION {{base.kids[1].value + i - 2 : i \in {k \in 2 .. Len(base.kids) : base.kids[k].name = name}} :
           base \in Range(KidsOfType(tree, "LiteralActionBase"))}

BoundAction(t, name) ==
  LET tree == tables[t].read
      around == BoundAction(tables[t].enc, name)
  IN  CASE t = 0 -> [home |-> 0, value |-> {}]
        [] t # 0 /\ IsPredefined(name) ->
             [home |-> t, value |-> {i - 1 : i \in {k \in DOMAIN PredefinedName : PredefinedName[k] = name}}]
        [] t # 0 /\ ~IsPredefined(name) ->
             IF NumberOf(tree, name) # {} THEN [home |-> t, value |-> NumberOf(tree, name)]
             ELSE IF around.home = 0 /\ name \in UsesOf(tree, "LiteralActionUse") THEN [home |-> t, value |-> {}]
             ELSE around

\* A table whose scopes are all installed: those that some clause of another
\* table has moved are not, until they are installed again.
IsSettled(t) == \A s \in Range(Scopes(tables, t)) : tables[s].installed

SettledTables == IF halted THEN {} ELSE {t \in DOMAIN tables : IsSettled(t)}

\* A name stands for its innermost definition, whatever has been cached on the
\* way, renamed, undefined or numbered, and however the tables were enclosed.
BindsInnermost ==
  \A t \in SettledTables, name \in Names :
    LET action == Look(tables, t, "action", name)
        bound == BoundAction(t, name)
    IN  /\ Look(tables, t, "define", name) = BoundDefine(t, name)
        /\ Look(tables, t, "literal", name) = BoundLiteral(t, name)
        /\ action.home = bound.home
        /\ bound.value # {} => bound.value = {action.node.value}

\* Two actions that the algorithm calls by name have different numbers, and
\* none that it calls by number (but for the predefined ones, which it may).
ActionsTellApart ==
  \A t \in SettledTables :
    LET named == {name \in UsesOf(tables[t].read, "LiteralActionUse") : ~IsPredefined(name)}
        number(name) == Look(tables, t, "action", name).node.value
        called == {nd.kids[1].value : nd \in {c \in Range(NodesOf(tables[t].read, "Callback")) :
                                                c.kids[1].type \in IntegerNodes}}
    IN  \A a, b \in named : number(a) \notin called /\ (number(a) = number(b) => a = b)

---------------------------------------------------------------------------
\* What a node means to the interpreter: names resolved, callbacks that are not
\* kept left out, and a sequence with what it does.

Keeps(callback) ==
  LET action == callback.kids[1]
  IN  action.type = "LiteralActionUse" => action.kids[1].name \in kept \/ IsPredefined(action.kids[1].name)

RECURSIVE Meaning(_)
Meaning(nd) ==
  LET kids == [i \in DOMAIN nd.kids |-> Meaning(nd.kids[i])]
      done == SelectSeq(kids, LAMBDA kid : kid.type # "Void")
  IN  CASE nd.type = "LiteralUse" -> BoundLiteral(cur, nd.kids[1].name).node
        [] nd.type = "LiteralActionUse" -> Look(tables, cur, "action", nd.kids[1].name).node
        [] nd.type = "Callback" /\ ~Keeps(nd) -> NoNode
        [] nd.type = "Sequence" -> IF done = << >> THEN NoNode
                                   ELSE IF Len(done) = 1 THEN done[1]
                                   ELSE [nd EXCEPT !.kids = done]
        [] OTHER -> [nd EXCEPT !.kids = kids]

DefinesOf(alg) == {Meaning(nd) : nd \in Range(KidsOfType(alg, "Define"))}
HeadersOf(alg) == SelectSeq(Standardized(alg).kids, LAMBDA nd : nd.type \in Range(StandardOrder))

\* Nothing that is left out is an argument, or the body of a define: those are
\* taken out of the list of kids, and the others move up.
IsStrippable(alg) ==
  \A nd \in Range(Preorder(alg)) :
    nd.type \in Nary \ {"Sequence", "Algorithm"} =>
      \A i \in DOMAIN nd.kids : Meaning(nd.kids[i]).type # "Void"

IsStripped == ~halted /\ pc \in Range(Stages)

\* However an algorithm is stripped, its defines mean what they meant, without
\* the callbacks that are not kept, and its headers are what they were.
StripKeepsMeaning ==
  IsStripped /\ IsStrippable(tables[cur].read) =>
    /\ DefinesOf(tables[cur].alg) = DefinesOf(tables[cur].read)
    /\ HeadersOf(tables[cur].alg) = HeadersOf(tables[cur].read)

\* What has been stripped, written and read again can be installed where it was:
\* nothing it still uses has been taken away.  An action that was numbered
\* is left out: without a definition it may get another's number then.
WrittenInstallsAgain ==
  IsStripped /\ IsStrippable(tables[cur].read) /\ tables[cur].UndefinedCallbacks = {} =>
    \E first \in BOOLEAN :
      Install([World EXCEPT !.tables = Append(@, NewTable(tables[cur].alg, tables[cur].enc))],
              Len(tables) + 1, first).ok
=============================================================================
