------------------------------ MODULE Meaning ------------------------------
(***************************************************************************)
(* What an algorithm does, by recursion over its tree: the specification   *)
(* that the loop in Interpreter implements with stacks.  Arguments of a    *)
(* call are expressions with the environment they were written in.         *)
(*                                                                         *)
(* A result has whether all went well, the value, where the input is, the  *)
(* value read last, the locals of each definition under way, what has been *)
(* written, what tables hold, and whether values are written as bytes.     *)
(***************************************************************************)
EXTENDS Selection

\* Before an algorithm is given an input.
Start(input, header) ==
  [ok |-> TRUE, val |-> 0, at |-> 0, eobs |-> << >>, last |-> 0, locals |-> << >>,
   out |-> << >>, table |-> << >>, cached |-> {}, muted |-> FALSE,
   input |-> input, header |-> header, defs |-> << >>, coded |-> TRUE]

\* Parameters, and which locals are meant.
NoEnv == [args |-> << >>, locals |-> 0]

Gives(s, v)  == [s EXCEPT !.val = v]
Fails(s)     == [s EXCEPT !.ok = FALSE]
Reads(s, v)  == [s EXCEPT !.val = v, !.last = v]
Out(s, x)    == IF s.ok /\ ~s.muted THEN [s EXCEPT !.out = Append(@, x)] ELSE s

InputAt(s, i) == IF i < Len(s.input) THEN s.input[i + 1] ELSE 0
Moved(s, n)  == [s EXCEPT !.at = IF @ + n < Len(s.input) THEN @ + n ELSE Len(s.input)]
Short(s, n)  == \/ s.at + n > Len(s.input)
                \/ s.eobs # << >> /\ s.at + n > Last(s.eobs)

Enters(s)    == LET t == Moved(s, 1) IN [t EXCEPT !.eobs = Append(@, t.at + InputAt(s, s.at))]
Leaves(s)    == IF s.ok THEN [s EXCEPT !.eobs = Front(@)] ELSE s
GoesBack(s, t) == [t EXCEPT !.at = s.at, !.eobs = s.eobs]

\* What an action reads, and what it writes.
ReadsOf(action, s) ==
  CASE action \in {"block.enter", "block.enter.readonly"} -> Enters(s)
    [] action \in {"block.exit", "block.exit.readonly"}   -> Leaves(s)
    [] OTHER -> s

WritesOf(action, s) ==
  CASE action \in {"block.enter", "block.enter.writeonly"} -> Out(s, << "block.enter", 0 >>)
    [] action \in {"block.exit", "block.exit.writeonly"}   -> Out(s, << "block.exit", 0 >>)
    [] OTHER -> s

Acts(action, mode, s) ==
  LET r == IF mode # "WriteOnly" THEN ReadsOf(action, s) ELSE s
  IN IF mode # "ReadOnly" THEN WritesOf(action, r) ELSE r

RECURSIVE Meant(_, _, _, _), All(_, _, _, _), Times(_, _, _, _, _), UntilEnd(_, _, _, _),
          WriteEach(_, _, _, _), Bind(_, _, _, _, _, _)

\* Nodes one after the other.
All(nds, mode, env, s) ==
  IF nds = << >> \/ ~s.ok THEN s
  ELSE All(Tail(nds), mode, env, Meant(Head(nds), mode, env, s))

Times(n, nd, mode, env, s) ==
  IF n = 0 \/ ~s.ok THEN s ELSE Times(n - 1, nd, mode, env, Meant(nd, mode, env, s))

UntilEnd(nd, mode, env, s) ==
  IF Short(s, 1) \/ ~s.ok THEN s ELSE UntilEnd(nd, mode, env, Meant(nd, mode, env, s))

\* Each value is what is written next.
WriteEach(format, nds, env, s) ==
  IF nds = << >> \/ ~s.ok THEN s
  ELSE LET v == Meant(Head(nds), "ReadOnly", env, s)
       IN WriteEach(format, Tail(nds), env, Meant(format, "WriteOnly", env, Reads(v, v.val)))

\* Arguments passed by value are evaluated now, from left to right.
Bind(kids, params, mode, env, args, s) ==
  IF kids = << >> THEN [args |-> args, s |-> s]
  ELSE LET byValue == Head(params) = "ParamValues"
           t == IF byValue THEN Meant(Head(kids), mode, env, s) ELSE s
       IN Bind(Tail(kids), Tail(params), mode, env,
               Append(args, [byValue |-> byValue, val |-> t.val, nd |-> Head(kids), env |-> env]),
               t)

IsLocal(i, env, s) == env.locals > 0 /\ i \in DOMAIN s.locals[env.locals]

Chosen(nd, key, first, default) ==
  IF Cases(nd, key, first) = {} THEN default ELSE TheCase(nd, key, first)

Meant(nd, mode, env, s) ==
  LET reads  == mode # "WriteOnly"
      writes == mode # "ReadOnly"
      type   == nd.type
      kid    == nd.kids
      one    == Meant(kid[1], mode, env, s)
  IN
  IF ~s.ok THEN s ELSE
  CASE type \in IntegerNodes -> IF reads THEN Reads(s, nd.val) ELSE Gives(s, nd.val)
    [] type \in {"LastRead", "Void"} -> Gives(s, s.last)
    [] type \in Formats ->
         LET bit == type = "Bit"
             v   == IF bit THEN InputAt(s, s.at) % 2 ELSE InputAt(s, s.at)
             r   == IF reads THEN Reads(Moved(s, 1), v) ELSE Gives(s, s.last)
         IN IF reads /\ bit /\ Short(s, 1) THEN Fails(s)
            ELSE IF writes THEN Out(r, << type, r.val >>) ELSE r
    [] type = "BinaryEval" ->
         LET d == IF s.header # NoHeader THEN [used |-> 1, nd |-> [val |-> InputAt(s, s.at)]]
                  ELSE Decode(kid[1], [i \in 1 .. MaxBits |-> InputAt(s, s.at + i - 1) % 2])
             r == IF reads THEN Reads(Moved(s, d.used), d.nd.val) ELSE Gives(s, s.last)
         IN IF reads /\ d.used > 0 /\ Short(s, d.used) THEN Fails(s)
            ELSE IF writes /\ s.coded /\ ~Encodes(kid[1], r.val) THEN Fails(r)
            ELSE IF writes THEN Out(r, << type, r.val >>) ELSE r
    [] type = "Callback" -> Gives(Acts(nd.name, mode, s), s.last)
    [] type = "Local" ->
         IF IsLocal(nd.val + 1, env, s) THEN Gives(s, s.locals[env.locals][nd.val + 1])
         ELSE Fails(s)
    [] type = "Set" ->
         LET t == Meant(kid[2], mode, env, s)
         IN IF ~t.ok \/ ~IsLocal(kid[1].val + 1, env, t) THEN Fails(t)
            ELSE Gives([t EXCEPT !.locals[env.locals][kid[1].val + 1] = t.val], t.last)
    [] type = "Peek" -> GoesBack(s, Meant(kid[1], "ReadOnly", env, s))
    [] type = "Read" -> Meant(kid[1], "ReadOnly", env, s)
    [] type = "Map" ->
         LET v == Reads(one, one.val)
             c == Cases(nd, v.val, 2)
         IN IF ~one.ok THEN one
            ELSE IF c = {} THEN v
            ELSE LET w == GoesBack(v, Meant(TheCase(nd, v.val, 2), "ReadOnly", env, v))
                 IN Reads(w, w.val)
    [] type = "Write" -> WriteEach(kid[1], Tail(kid), env, Gives(s, 0))
    [] type = "Not" -> IF reads THEN Gives(one, IF one.val = 0 THEN 1 ELSE 0) ELSE Fails(s)
    [] type \in {"And", "Or"} ->
         IF ~reads THEN Fails(s)
         ELSE IF (type = "And") = (one.val # 0) THEN Meant(kid[2], mode, env, one)
         ELSE one
    [] type \in Bitwise2 ->
         LET two == Meant(kid[2], mode, env, one)
         IN IF ~reads THEN Fails(s)
            ELSE IF ~two.ok THEN two
            ELSE Gives(two, BitwiseOf(type, one.val, two.val))
    [] type = "BitwiseNegate" -> IF reads THEN Gives(one, Complement(one.val)) ELSE Fails(s)
    [] type = "Sequence" -> LET t == All(kid, mode, env, s) IN Gives(t, t.last)
    [] type = "Table" ->
         IF ~one.ok THEN one
         ELSE IF task.expand
         THEN IF reads /\ one.val \in DOMAIN one.table
              THEN LET p == one.table[one.val]
                       t == GoesBack(one, Meant(kid[2], mode, env,
                                                [one EXCEPT !.at = p.at, !.eobs = p.eobs]))
                   IN Gives(t, t.last)
              ELSE LET n == (one.val :> [at |-> one.at, eobs |-> one.eobs])
                       t == Meant(kid[2], mode, env,
                                  IF reads THEN [one EXCEPT !.table = n @@ @] ELSE one)
                   IN Gives(t, t.last)
         ELSE LET t == Meant(kid[2], mode, env,
                             IF writes THEN [one EXCEPT !.muted = @ \/ one.val \in one.cached,
                                                        !.cached = @ \cup {one.val}]
                             ELSE one)
              IN Gives([t EXCEPT !.muted = s.muted], t.last)
    [] type = "Loop" -> Gives(Times(one.val, kid[2], mode, env, one), 0)
    [] type = "LoopUnbounded" -> Gives(UntilEnd(kid[1], mode, env, s), 0)
    [] type \in {"IfThen", "IfThenElse"} ->
         Gives(IF one.val # 0 THEN Meant(kid[2], mode, env, one)
               ELSE IF type = "IfThenElse" THEN Meant(kid[3], mode, env, one)
               ELSE one, 0)
    [] type = "Switch" ->
         IF one.ok THEN Gives(Meant(Chosen(nd, one.val, 3, kid[2]), mode, env, one), 0) ELSE one
    [] type = "Case" -> Reads(one, one.val)
    [] type = "Define" ->
         IF nd.val = 0 THEN Gives(one, 0)
         ELSE LET t == Meant(kid[1], mode, [env EXCEPT !.locals = Len(s.locals) + 1],
                             [s EXCEPT !.locals = Append(@, [i \in 1 .. nd.val |-> 0])])
              IN Gives([t EXCEPT !.locals = SubSeq(@, 1, Len(s.locals))], 0)
    [] type = "Param" ->
         IF nd.val + 1 \notin DOMAIN env.args THEN Fails(s)
         ELSE LET arg == env.args[nd.val + 1]
              IN IF arg.byValue THEN Gives(s, arg.val) ELSE Meant(arg.nd, mode, arg.env, s)
    [] type = "EvalVirtual" ->
         IF nd.name \notin DOMAIN s.defs \/ s.defs[nd.name].type # "Define" THEN Fails(s)
         ELSE LET defn == s.defs[nd.name]
                  b == Bind(kid, defn.params, mode, env, << >>, s)
                  t == Meant(defn, mode, [env EXCEPT !.args = b.args], b.s)
              IN IF Len(kid) # Len(defn.params) THEN Fails(s) ELSE Gives(t, t.last)
    [] type = "Block" ->
         LET t == Meant(kid[1], mode, env, Acts("block.enter", mode, s))
         IN Gives(Acts("block.exit", mode, t), 0)
    [] OTHER -> Fails(s)

\* A header is read literally, from bytes or from that of a stream, ...
ReadsHeader(nds, s) ==
  LET wanted == [i \in DOMAIN nds |-> << nds[i].type, nds[i].val >>] IN
  IF s.header # NoHeader
  THEN IF IsPrefix(wanted, s.header) THEN [s EXCEPT !.header = << >>] ELSE Fails(s)
  ELSE IF /\ \A i \in DOMAIN nds : nds[i].type \in {"U8Const", "U32Const", "U64Const"}
          /\ \A i \in DOMAIN nds : InputAt(s, s.at + i - 1) = nds[i].val
  THEN Moved(s, Len(nds)) ELSE Fails(s)

\* ... and written so.
WritesHeader(nds, s) ==
  IF s.ok THEN [s EXCEPT !.out = @ \o [i \in DOMAIN nds |-> << nds[i].type, nds[i].val >>]]
  ELSE s

\* One algorithm, applied to what is left of the input.
Applied(symtab, s) ==
  LET read  == ReadsHeader(symtab.readHeader.kids, [s EXCEPT !.defs = symtab.defs])
      wrote == WritesHeader(symtab.writeHeader.kids, read)
  IN  Out(Meant(symtab.file, "ReadAndWrite", NoEnv, wrote), << "eof", 0 >>)

\* ... into a stream of its own, which is the input of what follows.
Streamed(symtab, s) == Applied(symtab, [s EXCEPT !.out = << >>, !.cached = {}, !.coded = FALSE])

AtEnd(s) == s.at >= Len(s.input)

RECURSIVE Passes(_, _, _), Sections(_, _)

\* The algorithms that were queued, one after the other, each on what the one
\* before it has written, and the final one back to the output.
Passes(queue, out, s) ==
  LET r == Streamed(Head(queue), s)
      final == getDefaultAlgorithm(Head(queue).writeHeader)
      next == [Start(ValuesOf(r.out), HeaderOf(r.out)) EXCEPT !.last = r.last]
  IN  IF ~r.ok THEN [r EXCEPT !.out = out]
      ELSE IF Len(queue) > 1 THEN Passes(Tail(queue), out, next)
      ELSE IF IsNull(final) THEN [Fails(r) EXCEPT !.out = out]
      ELSE Applied(final, [next EXCEPT !.out = out, !.cached = s.cached])

\* DecompressSelector.h: "the input is a sequence of algorithms, followed by
\* data", and the algorithms are applied to the data "in the order they are
\* queued".
Sections(queue, s) ==
  LET found == SelectSeq(task.selectors, LAMBDA c : ReadsHeader(c.readHeader.kids, s).ok)
      c == Head(found)
      r == Streamed(c, s)
  IN  IF found = << >> THEN Fails(s)
      ELSE IF ~c.specifiesAlgorithm
      THEN IF queue = << >> THEN Applied(c, s) ELSE Passes(queue, s.out, s)
      ELSE IF ~r.ok \/ r.out \notin DOMAIN task.inflates THEN [Fails(r) EXCEPT !.out = s.out]
      ELSE LET rest == [r EXCEPT !.out = s.out, !.cached = s.cached, !.coded = TRUE]
           IN  IF AtEnd(rest) THEN rest ELSE Sections(Append(queue, Inflated(r.out)), rest)

\* The meaning of a task: whether it succeeds, and what it writes.
TaskMeaning ==
  LET s == Start(sel.Input, NoHeader)
      r == CASE task.start = "HasFileHeader" -> ReadsHeader(task.readHeader.kids, s)
             [] task.start = "GetFile"       -> Applied(task, s)
             [] task.start = "GetAlgorithm"  -> Sections(<< >>, s)
  IN  [ok |-> r.ok /\ (CheckForEof => AtEnd(r)), out |-> r.out]

\* The interpreter, run with any pieces of the input at a time, succeeds when
\* the algorithm as written does, and writes what that writes; and when it has
\* to choose, it applies the algorithms that it is given to the data that
\* follows.
MatchesMeaning ==
  Finished => [ok |-> Succeeded, out |-> Written] = TaskMeaning
=============================================================================
