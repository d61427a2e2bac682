-------------------------- MODULE InterpreterProofs --------------------------
(***************************************************************************)
(* Proofs about Interpreter: its stacks are as high as the methods that    *)
(* are being called need them to be.                                       *)
(*                                                                         *)
(* The invariant Good says how high each stack is by what each frame has   *)
(* on it, which the method, the state and the node of the frame tell.  A   *)
(* step changes the frame on top, pushes one or pops one, so its proof     *)
(* compares what one or two frames have on the stacks before and after it. *)
(* The exceptions are failures: what is caught is caught by the second     *)
(* frame, HasFileHeader or GetAlgorithm, or by the header above it, and    *)
(* then there are no other frames, which is why the stacks can be restored *)
(* by those who catch.  Everything else that fails resets the machine.     *)
(*                                                                         *)
(* The steps of GetAlgorithm are in SelectionProofs.                       *)
(***************************************************************************)
EXTENDS Interpreter, SequenceTheorems, FiniteSetTheorems, TLAPS

---------------------------------------------------------------------------
\* Sequences, of whatever they are.

IsSeq(s) == s \in Seq({s[i] : i \in DOMAIN s})

LEMMA SeqIntro ==
  ASSUME NEW S, NEW s \in Seq(S) PROVE IsSeq(s) /\ Len(s) \in Nat
<1>1. Len(s) \in Nat /\ DOMAIN s = 1 .. Len(s) /\ s = [i \in 1 .. Len(s) |-> s[i]]
  OBVIOUS
<1>. DEFINE R == {s[i] : i \in DOMAIN s}
<1>2. \A i \in 1 .. Len(s) : s[i] \in R
  BY <1>1
<1>. HIDE DEF R
<1>3. s \in [1 .. Len(s) -> R]
  BY <1>1, <1>2
<1>4. s \in Seq(R)
  BY <1>1, <1>3
<1>. QED
  BY <1>1, <1>4 DEF IsSeq, R

LEMMA SeqLen ==
  ASSUME NEW s, IsSeq(s)
  PROVE  /\ Len(s) \in Nat /\ DOMAIN s = 1 .. Len(s)
         /\ (Len(s) = 0 => s = << >>) /\ (Len(s) = 1 => s = << s[1] >>)
<1>1. PICK S : s \in Seq(S)
  BY DEF IsSeq
<1>. QED
  BY <1>1

LEMMA SeqAppend ==
  ASSUME NEW s, IsSeq(s), NEW v
  PROVE  /\ IsSeq(Append(s, v)) /\ Len(Append(s, v)) = Len(s) + 1
         /\ \A i \in 1 .. Len(s) : Append(s, v)[i] = s[i]
         /\ Append(s, v)[Len(s) + 1] = v
<1>1. PICK S : s \in Seq(S) /\ v \in S
  <2>1. PICK R : s \in Seq(R)
    BY DEF IsSeq
  <2>2. s \in Seq(R \cup {v})
    BY <2>1
  <2>. QED
    BY <2>2
<1>2. Append(s, v) \in Seq(S)
  BY <1>1
<1>3. IsSeq(Append(s, v))
  BY <1>2, SeqIntro
<1>. QED
  BY <1>1, <1>3

\* The sequence after a push.
Pushed(s, v, r) == r = Append(s, v)

LEMMA SeqPushed ==
  ASSUME NEW s, IsSeq(s), NEW v, NEW r, Pushed(s, v, r)
  PROVE  /\ IsSeq(r) /\ Len(r) = Len(s) + 1
         /\ \A i \in 1 .. Len(s) : r[i] = s[i]
         /\ r[Len(s) + 1] = v
  BY SeqAppend DEF Pushed

LEMMA SeqFront ==
  ASSUME NEW s, IsSeq(s), Len(s) >= 1
  PROVE  /\ IsSeq(Front(s)) /\ Len(Front(s)) = Len(s) - 1
         /\ \A i \in 1 .. Len(s) - 1 : Front(s)[i] = s[i]
<1>1. PICK S : s \in Seq(S)
  BY DEF IsSeq
<1>. DEFINE n == Len(s) - 1
<1>2. n \in Nat /\ 1 \in Int /\ n \in Int /\ \A i \in 1 .. n : s[i] \in S
  BY <1>1
<1>. HIDE DEF n
<1>3. /\ SubSeq(s, 1, n) \in Seq(S)
      /\ Len(SubSeq(s, 1, n)) = IF 1 <= n THEN n - 1 + 1 ELSE 0
      /\ \A i \in 1 .. n - 1 + 1 : SubSeq(s, 1, n)[i] = s[1 + i - 1]
  BY <1>1, <1>2, SubSeqProperties, Z3
<1>4. Len(SubSeq(s, 1, n)) = n /\ \A i \in 1 .. n : SubSeq(s, 1, n)[i] = s[i]
  BY <1>2, <1>3
<1>5. IsSeq(SubSeq(s, 1, n))
  BY <1>3, SeqIntro
<1>. QED
  BY <1>4, <1>5 DEF Front, n

LEMMA SeqExcept ==
  ASSUME NEW s, IsSeq(s), NEW k, NEW v, NEW e, e = [s EXCEPT ![k] = v]
  PROVE  /\ IsSeq(e) /\ Len(e) = Len(s)
         /\ \A i \in 1 .. Len(s) : e[i] = IF i = k THEN v ELSE s[i]
<1>1. PICK S : s \in Seq(S) /\ v \in S
  <2>1. PICK R : s \in Seq(R)
    BY DEF IsSeq
  <2>2. s \in Seq(R \cup {v})
    BY <2>1
  <2>. QED
    BY <2>2
<1>2. Len(s) \in Nat /\ DOMAIN s = 1 .. Len(s) /\ \A i \in 1 .. Len(s) : s[i] \in S
  BY <1>1
<1>3. e = [i \in 1 .. Len(s) |-> IF i = k THEN v ELSE s[i]]
  BY <1>1, <1>2
<1>4. e \in [1 .. Len(s) -> S]
  BY <1>1, <1>2, <1>3
<1>5. e \in Seq(S) /\ Len(e) = Len(s)
  BY <1>2, <1>3, <1>4
<1>6. IsSeq(e)
  BY <1>5, SeqIntro
<1>. QED
  BY <1>2, <1>3, <1>5, <1>6

LEMMA SeqSetTop ==
  ASSUME NEW s, IsSeq(s), Len(s) >= 1, NEW v
  PROVE  /\ IsSeq(SetTop(s, v)) /\ Len(SetTop(s, v)) = Len(s)
         /\ \A i \in 1 .. Len(s) - 1 : SetTop(s, v)[i] = s[i]
         /\ SetTop(s, v)[Len(s)] = v
<1>1. Len(s) \in Nat /\ Len(s) \in 1 .. Len(s)
  BY SeqLen
<1>2. \A i \in 1 .. Len(s) - 1 : i \in 1 .. Len(s) /\ i # Len(s)
  BY <1>1
<1>3. PICK n, e : n = Len(s) /\ e = [s EXCEPT ![n] = v]
  OBVIOUS
<1>4. /\ IsSeq(e) /\ Len(e) = Len(s)
      /\ \A i \in 1 .. Len(s) : e[i] = IF i = n THEN v ELSE s[i]
  <2>1. e = [s EXCEPT ![n] = v]
    BY <1>3
  <2>2. IsSeq(e) /\ Len(e) = Len(s)
    BY <2>1, SeqExcept
  <2>3. \A i \in 1 .. Len(s) : e[i] = IF i = n THEN v ELSE s[i]
    BY <2>1, SeqExcept
  <2>. QED
    BY <2>2, <2>3
<1>5. SetTop(s, v) = e
  BY <1>3 DEF SetTop
<1>. QED
  BY <1>1, <1>2, <1>3, <1>4, <1>5

LEMMA SeqConcat ==
  ASSUME NEW s, IsSeq(s), NEW n \in Nat, NEW v
  PROVE  IsSeq(s \o [i \in 1 .. n |-> v])
<1>1. PICK S : s \in Seq(S) /\ v \in S
  <2>1. PICK R : s \in Seq(R)
    BY DEF IsSeq
  <2>2. s \in Seq(R \cup {v})
    BY <2>1
  <2>. QED
    BY <2>2
<1>2. [i \in 1 .. n |-> v] \in Seq(S)
  BY <1>1
<1>3. s \o [i \in 1 .. n |-> v] \in Seq(S)
  BY <1>1, <1>2
<1>. QED
  BY <1>3, SeqIntro

---------------------------------------------------------------------------
(***************************************************************************)
(* What a frame has on the stacks, by kind, and how many frames have it.   *)
(***************************************************************************)

Has(kind, f, t) ==
  \/ kind = "counting" /\ Counting(f)
  \/ kind = "calling" /\ Calling(f)
  \/ kind = "context" /\ InContext(f)
  \/ kind = "locals" /\ WithLocals(f)
  \/ kind = "argument" /\ HasArgument(f)
  \/ kind = "peeking" /\ Peeking(f)
  \/ /\ kind = "table" /\ Evaluates(f, {"Table"}) /\ f.CallState = "Exit"
     /\ f.CallModifier \in {"ReadAndWrite", IF t.expand THEN "ReadOnly" ELSE "WriteOnly"}

Ct(kind, f, t) == IF Has(kind, f, t) THEN 1 ELSE 0

Owners(kind, fs, t) == {i \in 2 .. Len(fs) : Has(kind, fs[i], t)}
N(kind, fs, t) == Cardinality(Owners(kind, fs, t))

LEMMA OwnersFinite ==
  ASSUME NEW kind, NEW t, NEW fs, Len(fs) \in Nat
  PROVE  IsFiniteSet(Owners(kind, fs, t)) /\ N(kind, fs, t) \in Nat
<1>1. IsFiniteSet(2 .. Len(fs))
  BY FS_Interval
<1>2. Owners(kind, fs, t) \subseteq 2 .. Len(fs)
  BY DEF Owners
<1>3. IsFiniteSet(Owners(kind, fs, t))
  BY <1>1, <1>2, FS_Subset
<1>. QED
  BY <1>3, FS_CardinalityType DEF N

\* The frames below another on top of them.
LEMMA OwnersBelow ==
  ASSUME NEW kind, NEW t, NEW fs, NEW gs, NEW n \in Nat, Len(fs) = n, Len(gs) = n + 1, n >= 1,
         \A i \in 2 .. n : Has(kind, gs[i], t) <=> Has(kind, fs[i], t)
  PROVE  N(kind, gs, t) = N(kind, fs, t) + Ct(kind, gs[n + 1], t)
<1>1. IsFiniteSet(Owners(kind, fs, t)) /\ N(kind, fs, t) \in Nat
  BY OwnersFinite
<1>2. n + 1 \notin Owners(kind, fs, t)
  BY DEF Owners
<1>3. \A i : i \in 2 .. n + 1 <=> i \in 2 .. n \/ i = n + 1
  OBVIOUS
<1>4. CASE Has(kind, gs[n + 1], t)
  <2>1. Owners(kind, gs, t) = Owners(kind, fs, t) \cup {n + 1}
    BY <1>3, <1>4 DEF Owners
  <2>2. Cardinality(Owners(kind, fs, t) \cup {n + 1}) = Cardinality(Owners(kind, fs, t)) + 1
    BY <1>1, <1>2, FS_AddElement
  <2>3. N(kind, gs, t) = N(kind, fs, t) + 1
    BY <2>1, <2>2 DEF N
  <2>. QED
    BY <1>4, <2>3 DEF Ct
<1>5. CASE ~Has(kind, gs[n + 1], t)
  <2>1. Owners(kind, gs, t) = Owners(kind, fs, t)
    BY <1>3, <1>5 DEF Owners
  <2>2. N(kind, gs, t) = N(kind, fs, t)
    BY <2>1 DEF N
  <2>. QED
    BY <1>1, <1>5, <2>2 DEF Ct
<1>. QED
  BY <1>4, <1>5

LEMMA CtType == ASSUME NEW kind, NEW f, NEW t PROVE Ct(kind, f, t) \in {0, 1}
BY DEF Ct

\* One frame does not count.
LEMMA CountOne ==
  ASSUME NEW kind, NEW t, NEW fs, Len(fs) = 1 PROVE N(kind, fs, t) = 0
<1>1. Owners(kind, fs, t) = {}
  BY DEF Owners
<1>. QED
  BY <1>1, FS_EmptySet DEF N

LEMMA CountAppend ==
  ASSUME NEW kind, NEW t, NEW fs, IsSeq(fs), Len(fs) >= 1, NEW g
  PROVE  N(kind, Append(fs, g), t) = N(kind, fs, t) + Ct(kind, g, t)
<1>1. /\ Len(fs) \in Nat /\ Len(Append(fs, g)) = Len(fs) + 1
      /\ \A i \in 1 .. Len(fs) : Append(fs, g)[i] = fs[i]
      /\ Append(fs, g)[Len(fs) + 1] = g
  BY SeqAppend, SeqLen
<1>. DEFINE gs == Append(fs, g)
<1>2. \A i \in 2 .. Len(fs) : gs[i] = fs[i]
  BY <1>1
<1>. HIDE DEF gs
<1>3. PICK n \in Nat : n = Len(fs) /\ n >= 1 /\ Len(gs) = n + 1 /\ gs[n + 1] = g
  BY <1>1 DEF gs
<1>4. N(kind, gs, t) = N(kind, fs, t) + Ct(kind, gs[n + 1], t)
  BY <1>2, <1>3, OwnersBelow
<1>. QED
  BY <1>3, <1>4 DEF gs

LEMMA CountFront ==
  ASSUME NEW kind, NEW t, NEW fs, IsSeq(fs), Len(fs) >= 2
  PROVE  N(kind, fs, t) = N(kind, Front(fs), t) + Ct(kind, fs[Len(fs)], t)
<1>1. PICK n \in Nat : n = Len(fs) - 1 /\ n >= 1 /\ Len(fs) = n + 1
  BY SeqLen
<1>2. PICK gs : gs = Front(fs)
  OBVIOUS
<1>3. Len(gs) = n /\ \A i \in 1 .. n : gs[i] = fs[i]
  BY <1>1, <1>2, SeqFront
<1>4. \A i \in 2 .. n : Has(kind, fs[i], t) <=> Has(kind, gs[i], t)
  BY <1>3
<1>5. N(kind, fs, t) = N(kind, gs, t) + Ct(kind, fs[n + 1], t)
  BY <1>1, <1>3, <1>4, OwnersBelow, SMTT(30)
<1>. QED
  BY <1>1, <1>2, <1>5

\* The same frames, as far as what they have on the stacks is concerned.
LEMMA CountSame ==
  ASSUME NEW kind, NEW t, NEW fs, NEW gs, Len(gs) = Len(fs),
         \A i \in 2 .. Len(fs) : Has(kind, gs[i], t) <=> Has(kind, fs[i], t)
  PROVE  N(kind, gs, t) = N(kind, fs, t)
<1>1. Owners(kind, gs, t) = Owners(kind, fs, t)
  BY DEF Owners
<1>. QED
  BY <1>1 DEF N

LEMMA CountSetTop ==
  ASSUME NEW kind, NEW t, NEW fs, IsSeq(fs), Len(fs) >= 2, NEW g
  PROVE  /\ N(kind, fs, t) \in Nat
         /\ N(kind, SetTop(fs, g), t) = N(kind, fs, t) - Ct(kind, fs[Len(fs)], t) + Ct(kind, g, t)
<1>. DEFINE gs == SetTop(fs, g)
<1>1. Len(fs) \in Nat
  BY SeqLen
<1>2. /\ IsSeq(gs) /\ Len(gs) = Len(fs) /\ gs[Len(fs)] = g
      /\ \A i \in 1 .. Len(fs) - 1 : gs[i] = fs[i]
  BY <1>1, SeqSetTop
<1>. HIDE DEF gs
<1>3. /\ Len(Front(fs)) = Len(fs) - 1 /\ Len(Front(gs)) = Len(fs) - 1
      /\ \A i \in 1 .. Len(fs) - 1 : Front(gs)[i] = Front(fs)[i]
  BY <1>1, <1>2, SeqFront
<1>4. N(kind, Front(gs), t) = N(kind, Front(fs), t)
  <2>1. \A i \in 2 .. Len(Front(fs)) : Front(gs)[i] = Front(fs)[i]
    BY <1>1, <1>3
  <2>. QED
    BY <1>3, <2>1, CountSame
<1>5. /\ N(kind, fs, t) = N(kind, Front(fs), t) + Ct(kind, fs[Len(fs)], t)
      /\ N(kind, gs, t) = N(kind, Front(gs), t) + Ct(kind, g, t)
  BY <1>1, <1>2, CountFront
<1>6. N(kind, Front(fs), t) \in Nat /\ N(kind, fs, t) \in Nat
  BY <1>1, <1>3, OwnersFinite
<1>. QED
  BY <1>4, <1>5, <1>6, CtType DEF gs

---------------------------------------------------------------------------
(***************************************************************************)
(* The invariant, of a machine m that runs a task t.                       *)
(***************************************************************************)

IsFrame(f) ==
  f = [CallMethod |-> f.CallMethod, CallState |-> f.CallState, CallModifier |-> f.CallModifier,
       Nd |-> f.Nd, ReturnValue |-> f.ReturnValue]

IsVm(m) ==
  m = [FrameStack |-> m.FrameStack, EvalFrameStack |-> m.EvalFrameStack,
       CurEvalFrameStack |-> m.CurEvalFrameStack, LoopCounterStack |-> m.LoopCounterStack,
       LoopSizeStack |-> m.LoopSizeStack, LocalsBaseStack |-> m.LocalsBaseStack,
       LocalValues |-> m.LocalValues, CatchStack |-> m.CatchStack,
       CatchState |-> m.CatchState, IsFatalFailure |-> m.IsFatalFailure,
       LastReadValue |-> m.LastReadValue, ReadPos |-> m.ReadPos,
       SavedPosStack |-> m.SavedPosStack, Table |-> m.Table,
       RestoreStack |-> m.RestoreStack, HeaderIndex |-> m.HeaderIndex,
       Writer |-> m.Writer, Output |-> m.Output, Cached |-> m.Cached, Scratch |-> m.Scratch]

\* The methods that a task starts with are not called by others, but for
\* GetFile by GetAlgorithm.
Inner == {"Eval", "EvalInCallingContext", "EvalBlock", "Peek", "GetFile"}
Outer == {"HasFileHeader", "GetAlgorithm"}

Shape(fs) ==
  /\ IsSeq(fs) /\ Len(fs) >= 1
  /\ \A i \in 1 .. Len(fs) : IsFrame(fs[i])
  /\ fs[1].CallMethod \in {"Started", "Finished"}
  /\ Len(fs) >= 2 => fs[1].CallMethod = "Started" /\ fs[2].CallMethod \in Inner \cup Outer
  /\ \A i \in 3 .. Len(fs) : fs[i].CallMethod \in Inner

\* How many of the positions saved are those of table entries.
Restored(m) == Cardinality({i \in DOMAIN m.RestoreStack : m.RestoreStack[i]})

\* The stacks that hold something for each of certain frames.
Stacks(m) ==
  /\ IsSeq(m.LoopCounterStack) /\ IsSeq(m.LoopSizeStack)
  /\ IsSeq(m.EvalFrameStack) /\ IsSeq(m.CurEvalFrameStack)
  /\ IsSeq(m.LocalsBaseStack) /\ IsSeq(m.SavedPosStack)
  /\ m.RestoreStack \in Seq(BOOLEAN) /\ IsSeq(m.Scratch)

Heights(m, fs, t) ==
  /\ Len(m.LoopCounterStack) = 1 + N("counting", fs, t)
  /\ Len(m.LoopSizeStack) = N("calling", fs, t)
  /\ Len(m.EvalFrameStack) = N("calling", fs, t)
  /\ Len(m.CurEvalFrameStack) = 1 + N("calling", fs, t) + N("context", fs, t)
  /\ Len(m.LocalsBaseStack) = 1 + N("locals", fs, t)
  /\ Len(m.SavedPosStack) = N("peeking", fs, t) + Restored(m)
  /\ t.expand => Len(m.RestoreStack) = N("table", fs, t) /\ m.Scratch = << >>
  /\ ~t.expand => Len(m.Scratch) = N("table", fs, t) /\ m.RestoreStack = << >>

\* While the header of an input is being read, to see whether it is there,
\* only the header is evaluated.
InMode(fs) ==
  /\ Len(fs) >= 2
  /\ \/ fs[2].CallMethod = "HasFileHeader" /\ fs[2].CallState = "Exit"
     \/ Selecting(fs[2])

HasCaught(fs) == Len(fs) >= 2 /\ fs[2].CallMethod \in Outer /\ fs[2].CallState = "Catch"

Catches(m, fs) ==
  /\ ~InMode(fs) => m.CatchStack = << "NO_SUCH_METHOD" >>
  /\ InMode(fs) =>
       /\ Len(fs) <= 3
       /\ Len(fs) = 3 => Evaluates(fs[3], Headers)
       /\ m.CatchStack = IF Len(fs) = 3 /\ fs[3].CallState \in {"Loop", "Exit"}
                         THEN << "NO_SUCH_METHOD", fs[2].CallMethod, "Eval" >>
                         ELSE << "NO_SUCH_METHOD", fs[2].CallMethod >>
  /\ HasCaught(fs) => Len(fs) = 2

\* The selector that is tried, which the innermost loop but one counts.
Counts(m, fs) ==
  (InMode(fs) \/ HasCaught(fs)) /\ fs[2].CallMethod = "GetAlgorithm"
    => m.LoopCounterStack[2] \in Nat

\* Local values: when a frame was called there were at most h[i], and p[i]
\* bases of local values.  A definition with locals knows a base that is not
\* above that; a bitwise operation adds one value.
NoLocals(f) == ~WithLocals(f) /\ ~HasArgument(f)

Bounded(fs, bases, h, p) ==
  /\ h \in [1 .. Len(fs) -> Nat] /\ p \in [1 .. Len(fs) -> Nat]
  /\ h[1] = 0 /\ p[1] = 1
  /\ \A i \in 1 .. Len(fs) - 1 :
       /\ NoLocals(fs[i]) => h[i + 1] = h[i]
       /\ HasArgument(fs[i]) => h[i + 1] = h[i] + 1
       /\ p[i + 1] = IF WithLocals(fs[i]) THEN p[i] + 1 ELSE p[i]
  /\ \A i, j \in 1 .. Len(fs) : i < j /\ WithLocals(fs[i]) => p[i] + 1 <= p[j]
  /\ \A i \in 1 .. Len(fs) :
       /\ WithLocals(fs[i]) => bases[p[i] + 1] \in Nat /\ bases[p[i] + 1] <= h[i]
       /\ (\A j \in 1 .. i - 1 : NoLocals(fs[j])) => h[i] = 0

AtMost(values, f, bound) ==
  /\ NoLocals(f) => Len(values) <= bound
  /\ HasArgument(f) => Len(values) <= bound + 1

LocalsBounded(m, fs) ==
  /\ IsSeq(m.LocalValues)
  /\ \E h, p :
       /\ Bounded(fs, m.LocalsBaseStack, h, p)
       /\ Len(m.LocalsBaseStack) = p[Len(fs)] + (IF WithLocals(Last(fs)) THEN 1 ELSE 0)
       /\ AtMost(m.LocalValues, Last(fs), h[Len(fs)])

\* What is tried is what the task starts with, and HasFileHeader only calls
\* what it catches.
Begun(fs, t) ==
  /\ Len(fs) >= 2 /\ fs[2].CallMethod \in Outer => fs[2].CallMethod = t.start
  /\ Len(fs) >= 3 /\ fs[2].CallMethod = "HasFileHeader" => fs[2].CallState = "Exit"

Good(m, t) ==
  /\ IsVm(m) /\ ~m.IsFatalFailure
  /\ Shape(m.FrameStack) /\ Begun(m.FrameStack, t)
  /\ Stacks(m) /\ Heights(m, m.FrameStack, t)
  /\ Catches(m, m.FrameStack) /\ Counts(m, m.FrameStack)
  /\ LocalsBounded(m, m.FrameStack)

Failed(m) == m.FrameStack = << FailedFrame >>

\* Nothing is being tried.
Quiet(fs) ==
  Len(fs) >= 2 /\ ~InMode(fs) /\ ~HasCaught(fs) /\ fs[2].CallMethod # "HasFileHeader"

---------------------------------------------------------------------------
\* Changes of the frames, and of other parts.

With(m, fs) == [m EXCEPT !.FrameStack = fs]
In(f, state) == [f EXCEPT !.CallState = state]

\* Other parts than the frames are the same in r, as far as they matter.
Rest(m, r) ==
  /\ IsVm(r)
  /\ r.EvalFrameStack = m.EvalFrameStack
  /\ r.CurEvalFrameStack = m.CurEvalFrameStack
  /\ r.LoopCounterStack = m.LoopCounterStack
  /\ r.LoopSizeStack = m.LoopSizeStack
  /\ r.LocalsBaseStack = m.LocalsBaseStack
  /\ r.LocalValues = m.LocalValues
  /\ r.CatchStack = m.CatchStack
  /\ r.IsFatalFailure = m.IsFatalFailure
  /\ r.SavedPosStack = m.SavedPosStack
  /\ r.RestoreStack = m.RestoreStack
  /\ r.Scratch = m.Scratch

Keeps(m, r) == Rest(m, r) /\ r.FrameStack = m.FrameStack

LEMMA WithRest ==
  ASSUME NEW m, IsVm(m), NEW fs
  PROVE  Rest(m, With(m, fs)) /\ With(m, fs).FrameStack = fs
BY DEF IsVm, With, Rest

LEMMA RestSame ==
  ASSUME NEW m, NEW r, Rest(m, r), NEW fs, NEW t
  PROVE  /\ IsVm(r) /\ r.IsFatalFailure = m.IsFatalFailure
         /\ Stacks(m) => Stacks(r)
         /\ Heights(m, fs, t) => Heights(r, fs, t)
         /\ Catches(m, fs) => Catches(r, fs)
         /\ Counts(m, fs) => Counts(r, fs)
         /\ LocalsBounded(m, fs) => LocalsBounded(r, fs)
<1>1. IsVm(r) /\ r.IsFatalFailure = m.IsFatalFailure /\ (Stacks(m) => Stacks(r))
  BY DEF Rest, Stacks
<1>2. Restored(r) = Restored(m)
  BY DEF Rest, Restored
<1>3. Heights(m, fs, t) => Heights(r, fs, t)
  BY <1>2 DEF Rest, Heights
<1>4. (Catches(m, fs) => Catches(r, fs)) /\ (Counts(m, fs) => Counts(r, fs))
  BY DEF Rest, Catches, Counts
<1>5. LocalsBounded(m, fs) => LocalsBounded(r, fs)
  BY DEF Rest, LocalsBounded
<1>. QED
  BY <1>1, <1>3, <1>4, <1>5

LEMMA InFields ==
  ASSUME NEW f, IsFrame(f), NEW state
  PROVE  /\ IsFrame(In(f, state)) /\ In(f, state).CallMethod = f.CallMethod
         /\ In(f, state).CallState = state /\ In(f, state).Nd = f.Nd
         /\ In(f, state).CallModifier = f.CallModifier
BY DEF IsFrame, In

\* What a frame has on the stacks does not depend on what it is returned.
Alike(f, g) ==
  /\ g.CallMethod = f.CallMethod /\ g.CallState = f.CallState
  /\ g.CallModifier = f.CallModifier /\ g.Nd = f.Nd

LEMMA AlikeSame ==
  ASSUME NEW f, NEW g, Alike(f, g), NEW t
  PROVE  /\ \A kind : (Has(kind, g, t) <=> Has(kind, f, t)) /\ Ct(kind, g, t) = Ct(kind, f, t)
         /\ NoLocals(g) <=> NoLocals(f)
         /\ WithLocals(g) <=> WithLocals(f)
         /\ HasArgument(g) <=> HasArgument(f)
<1>1. /\ Counting(g) <=> Counting(f)
      /\ Calling(g) <=> Calling(f)
      /\ InContext(g) <=> InContext(f)
      /\ WithLocals(g) <=> WithLocals(f)
      /\ HasArgument(g) <=> HasArgument(f)
      /\ Peeking(g) <=> Peeking(f)
      /\ Evaluates(g, {"Table"}) <=> Evaluates(f, {"Table"})
  BY DEF Alike, Counting, Calling, InContext, WithLocals, HasArgument, Peeking, Selecting, Evaluates
<1>2. ASSUME NEW kind PROVE Has(kind, g, t) <=> Has(kind, f, t)
  BY <1>1 DEF Has, Alike
<1>3. ASSUME NEW kind PROVE Ct(kind, g, t) = Ct(kind, f, t)
  BY <1>2 DEF Ct
<1>. QED
  BY <1>1, <1>2, <1>3 DEF NoLocals

\* A method that is entered has nothing on the stacks.
LEMMA EnterHasNone ==
  ASSUME NEW f, f.CallState = "Enter", NEW t
  PROVE  NoLocals(f) /\ \A kind : Ct(kind, f, t) = 0
<1>1. /\ ~Counting(f) /\ ~Calling(f) /\ ~InContext(f) /\ ~WithLocals(f)
      /\ ~HasArgument(f) /\ ~Peeking(f)
  BY DEF Counting, Calling, InContext, WithLocals, HasArgument, Peeking, Selecting, Evaluates
<1>2. ASSUME NEW kind PROVE ~Has(kind, f, t)
  BY <1>1 DEF Has
<1>. QED
  BY <1>1, <1>2 DEF NoLocals, Ct

LEMMA TopFrame ==
  ASSUME NEW fs, Shape(fs)
  PROVE  /\ Len(fs) \in Nat /\ Len(fs) >= 1 /\ Last(fs) = fs[Len(fs)]
         /\ IsFrame(Last(fs)) /\ IsSeq(fs)
         /\ \A i \in 1 .. Len(fs) : IsFrame(fs[i])
<1>1. Len(fs) \in Nat /\ Len(fs) >= 1
  BY SeqLen DEF Shape
<1>2. Len(fs) \in 1 .. Len(fs)
  BY <1>1
<1>. QED
  BY <1>1, <1>2 DEF Shape, Last

---------------------------------------------------------------------------
\* Local values, when frames are changed, called and returned from.

LEMMA BoundedTop ==
  ASSUME NEW fs, IsSeq(fs), NEW n \in Nat, Len(fs) = n, n >= 1,
         NEW gs, IsSeq(gs), Len(gs) = n, \A i \in 1 .. n - 1 : gs[i] = fs[i],
         NEW bases, NEW base2, NEW h, NEW p, Bounded(fs, bases, h, p),
         \A i \in 1 .. p[n] : base2[i] = bases[i],
         WithLocals(gs[n]) => base2[p[n] + 1] \in Nat /\ base2[p[n] + 1] <= h[n]
  PROVE  Bounded(gs, base2, h, p)
<1>1. /\ h \in [1 .. n -> Nat] /\ p \in [1 .. n -> Nat] /\ h[1] = 0 /\ p[1] = 1
      /\ \A i \in 1 .. n : p[i] \in Nat /\ h[i] \in Nat
  BY DEF Bounded
<1>2. ASSUME NEW i \in 1 .. n - 1
      PROVE  /\ NoLocals(gs[i]) => h[i + 1] = h[i]
             /\ HasArgument(gs[i]) => h[i + 1] = h[i] + 1
             /\ p[i + 1] = IF WithLocals(gs[i]) THEN p[i] + 1 ELSE p[i]
  BY DEF Bounded
<1>3. ASSUME NEW i \in 1 .. n, NEW j \in 1 .. n, i < j, WithLocals(gs[i])
      PROVE  p[i] + 1 <= p[j]
  <2>1. i \in 1 .. n - 1 /\ gs[i] = fs[i]
    BY <1>3
  <2>. QED
    BY <1>3, <2>1 DEF Bounded
<1>4. ASSUME NEW i \in 1 .. n, WithLocals(gs[i])
      PROVE  base2[p[i] + 1] \in Nat /\ base2[p[i] + 1] <= h[i]
  <2>1. CASE i = n
    BY <2>1, <1>4
  <2>2. CASE i # n
    <3>1. i \in 1 .. n - 1 /\ gs[i] = fs[i] /\ n \in 1 .. n /\ i < n
      BY <2>2
    <3>2. p[i] + 1 <= p[n]
      BY <1>3, <1>4, <3>1
    <3>3. p[i] + 1 \in 1 .. p[n]
      BY <1>1, <3>1, <3>2
    <3>4. bases[p[i] + 1] \in Nat /\ bases[p[i] + 1] <= h[i]
      BY <1>4, <3>1 DEF Bounded
    <3>. QED
      BY <3>3, <3>4
  <2>. QED
    BY <2>1, <2>2
<1>5. ASSUME NEW i \in 1 .. n, \A j \in 1 .. i - 1 : NoLocals(gs[j])
      PROVE  h[i] = 0
  <2>1. \A j \in 1 .. i - 1 : j \in 1 .. n - 1 /\ gs[j] = fs[j]
    OBVIOUS
  <2>2. \A j \in 1 .. i - 1 : NoLocals(fs[j])
    BY <1>5, <2>1
  <2>. QED
    BY <2>2 DEF Bounded
<1>. QED
  BY <1>1, <1>2, <1>3, <1>4, <1>5 DEF Bounded

\* gs, the n frames below the last of fs, in the place of fs.
BoundedBelow(fs, n, gs, bases, h, p) ==
  \E h2, p2 :
    /\ Bounded(gs, bases, h2, p2)
    /\ h2[n] = h[n] /\ p2[n] = p[n]
    /\ p[n] \in Nat /\ p[n + 1] \in Nat /\ h[n] \in Nat /\ h[n + 1] \in Nat
    /\ NoLocals(fs[n]) => h[n + 1] = h[n]
    /\ HasArgument(fs[n]) => h[n + 1] = h[n] + 1
    /\ p[n + 1] = IF WithLocals(fs[n]) THEN p[n] + 1 ELSE p[n]

LEMMA BoundedPop ==
  ASSUME NEW fs, IsSeq(fs), NEW n \in Nat, Len(fs) = n + 1, n >= 1,
         NEW gs, IsSeq(gs), Len(gs) = n, \A i \in 1 .. n : gs[i] = fs[i],
         NEW bases, NEW h, NEW p, Bounded(fs, bases, h, p)
  PROVE  BoundedBelow(fs, n, gs, bases, h, p)
<1>1. /\ h \in [1 .. n + 1 -> Nat] /\ p \in [1 .. n + 1 -> Nat] /\ h[1] = 0 /\ p[1] = 1
  BY DEF Bounded
<1>2. PICK h2, p2 : h2 = [i \in 1 .. n |-> h[i]] /\ p2 = [i \in 1 .. n |-> p[i]]
  OBVIOUS
<1>3. /\ h2 \in [1 .. n -> Nat] /\ p2 \in [1 .. n -> Nat]
      /\ \A i \in 1 .. n : h2[i] = h[i] /\ p2[i] = p[i] /\ i \in 1 .. n + 1
      /\ \A i \in 1 .. n - 1 : i \in 1 .. n /\ i + 1 \in 1 .. n
  BY <1>1, <1>2
<1>4. ASSUME NEW i \in 1 .. n - 1
      PROVE  /\ NoLocals(gs[i]) => h2[i + 1] = h2[i]
             /\ HasArgument(gs[i]) => h2[i + 1] = h2[i] + 1
             /\ p2[i + 1] = IF WithLocals(gs[i]) THEN p2[i] + 1 ELSE p2[i]
  <2>1. gs[i] = fs[i] /\ i \in 1 .. (n + 1) - 1
    BY <1>3
  <2>. QED
    BY <1>3, <2>1 DEF Bounded
<1>5. ASSUME NEW i \in 1 .. n, NEW j \in 1 .. n, i < j, WithLocals(gs[i])
      PROVE  p2[i] + 1 <= p2[j]
  <2>1. p[i] + 1 <= p[j]
    BY <1>3, <1>5 DEF Bounded
  <2>. QED
    BY <1>3, <2>1
<1>6. ASSUME NEW i \in 1 .. n, WithLocals(gs[i])
      PROVE  bases[p2[i] + 1] \in Nat /\ bases[p2[i] + 1] <= h2[i]
  <2>1. bases[p[i] + 1] \in Nat /\ bases[p[i] + 1] <= h[i]
    BY <1>3, <1>6 DEF Bounded
  <2>. QED
    BY <1>3, <2>1
<1>7. ASSUME NEW i \in 1 .. n, \A j \in 1 .. i - 1 : NoLocals(gs[j])
      PROVE  h2[i] = 0
  <2>1. \A j \in 1 .. i - 1 : j \in 1 .. n /\ gs[j] = fs[j]
    OBVIOUS
  <2>2. \A j \in 1 .. i - 1 : NoLocals(fs[j])
    BY <1>7, <2>1
  <2>3. h[i] = 0
    BY <1>3, <2>2 DEF Bounded
  <2>. QED
    BY <1>3, <2>3
<1>8. h2[1] = 0 /\ p2[1] = 1
  BY <1>1, <1>3
<1>9. Bounded(gs, bases, h2, p2)
  BY <1>3, <1>4, <1>5, <1>6, <1>7, <1>8 DEF Bounded
<1>10. /\ n \in 1 .. n /\ n \in 1 .. n + 1 /\ n + 1 \in 1 .. n + 1
       /\ n \in 1 .. (n + 1) - 1
  OBVIOUS
<1>11. /\ h2[n] = h[n] /\ p2[n] = p[n]
       /\ p[n] \in Nat /\ p[n + 1] \in Nat /\ h[n] \in Nat /\ h[n + 1] \in Nat
  BY <1>1, <1>3, <1>10
<1>12. /\ NoLocals(fs[n]) => h[n + 1] = h[n]
       /\ HasArgument(fs[n]) => h[n + 1] = h[n] + 1
       /\ p[n + 1] = IF WithLocals(fs[n]) THEN p[n] + 1 ELSE p[n]
  BY <1>10 DEF Bounded
<1>. QED
  BY <1>9, <1>11, <1>12 DEF BoundedBelow

\* gs, the n frames of fs with one more, in the place of fs.
BoundedAbove(fs, n, gs, bases, p, x) ==
  \E h2, p2 :
    /\ Bounded(gs, bases, h2, p2)
    /\ h2[n + 1] = x
    /\ p2[n + 1] = IF WithLocals(fs[n]) THEN p[n] + 1 ELSE p[n]

LEMMA BoundedPush ==
  ASSUME NEW fs, IsSeq(fs), NEW n \in Nat, Len(fs) = n, n >= 1,
         NEW gs, IsSeq(gs), Len(gs) = n + 1, \A i \in 1 .. n : gs[i] = fs[i],
         NoLocals(gs[n + 1]),
         NEW bases, NEW h, NEW p, Bounded(fs, bases, h, p),
         NEW x \in Nat,
         NoLocals(fs[n]) => x = h[n],
         HasArgument(fs[n]) => x = h[n] + 1
  PROVE  BoundedAbove(fs, n, gs, bases, p, x)
<1>1. /\ h \in [1 .. n -> Nat] /\ p \in [1 .. n -> Nat] /\ h[1] = 0 /\ p[1] = 1
      /\ n \in 1 .. n /\ p[n] \in Nat
  BY DEF Bounded
<1>. DEFINE y == IF WithLocals(fs[n]) THEN p[n] + 1 ELSE p[n]
<1>2. y \in Nat
  BY <1>1
<1>. HIDE DEF y
<1>3. PICK h2, p2 : /\ h2 = [i \in 1 .. n + 1 |-> IF i = n + 1 THEN x ELSE h[i]]
                    /\ p2 = [i \in 1 .. n + 1 |-> IF i = n + 1 THEN y ELSE p[i]]
  OBVIOUS
<1>4. \A i \in 1 .. n + 1 : i \in 1 .. n \/ i = n + 1
  OBVIOUS
<1>5. /\ h2 \in [1 .. n + 1 -> Nat] /\ p2 \in [1 .. n + 1 -> Nat]
      /\ \A i \in 1 .. n : h2[i] = h[i] /\ p2[i] = p[i] /\ h[i] \in Nat /\ p[i] \in Nat
      /\ h2[n + 1] = x /\ p2[n + 1] = y
  BY <1>1, <1>2, <1>3, <1>4
<1>6. ASSUME NEW i \in 1 .. n
      PROVE  /\ NoLocals(gs[i]) => h2[i + 1] = h2[i]
             /\ HasArgument(gs[i]) => h2[i + 1] = h2[i] + 1
             /\ p2[i + 1] = IF WithLocals(gs[i]) THEN p2[i] + 1 ELSE p2[i]
  <2>1. CASE i = n
    BY <1>5, <2>1 DEF y
  <2>2. CASE i # n
    <3>1. i \in 1 .. n - 1 /\ i + 1 \in 1 .. n /\ gs[i] = fs[i]
      BY <2>2
    <3>. QED
      BY <1>5, <3>1 DEF Bounded
  <2>. QED
    BY <2>1, <2>2
<1>7. ASSUME NEW i \in 1 .. n + 1, NEW j \in 1 .. n + 1, i < j, WithLocals(gs[i])
      PROVE  p2[i] + 1 <= p2[j]
  <2>1. i \in 1 .. n /\ gs[i] = fs[i]
    BY <1>7
  <2>2. CASE j \in 1 .. n
    BY <1>5, <1>7, <2>1, <2>2 DEF Bounded
  <2>3. CASE j = n + 1 /\ i = n
    BY <1>5, <1>7, <2>1, <2>3 DEF y
  <2>4. CASE j = n + 1 /\ i # n
    <3>1. i < n
      BY <2>1, <2>4
    <3>2. p[i] + 1 <= p[n]
      BY <1>1, <1>7, <2>1, <3>1 DEF Bounded
    <3>3. p[n] <= y
      BY <1>1 DEF y
    <3>. QED
      BY <1>1, <1>2, <1>5, <2>1, <2>4, <3>2, <3>3
  <2>. QED
    BY <1>4, <2>2, <2>3, <2>4
<1>8. ASSUME NEW i \in 1 .. n + 1, WithLocals(gs[i])
      PROVE  bases[p2[i] + 1] \in Nat /\ bases[p2[i] + 1] <= h2[i]
  <2>1. i \in 1 .. n
    BY <1>4, <1>8 DEF NoLocals
  <2>2. bases[p[i] + 1] \in Nat /\ bases[p[i] + 1] <= h[i]
    BY <1>8, <2>1 DEF Bounded
  <2>. QED
    BY <1>5, <2>1, <2>2
<1>9. ASSUME NEW i \in 1 .. n + 1, \A j \in 1 .. i - 1 : NoLocals(gs[j])
      PROVE  h2[i] = 0
  <2>1. \A j \in 1 .. i - 1 : j \in 1 .. n /\ gs[j] = fs[j]
    OBVIOUS
  <2>2. \A j \in 1 .. i - 1 : NoLocals(fs[j])
    BY <1>9, <2>1
  <2>3. CASE i \in 1 .. n
    BY <1>5, <2>2, <2>3 DEF Bounded
  <2>4. CASE i = n + 1
    <3>1. n \in 1 .. i - 1 /\ \A j \in 1 .. n - 1 : j \in 1 .. i - 1
      BY <2>4
    <3>2. x = h[n] /\ \A j \in 1 .. n - 1 : NoLocals(fs[j])
      BY <2>2, <3>1
    <3>3. h[n] = 0
      BY <1>1, <3>2 DEF Bounded
    <3>. QED
      BY <1>5, <2>4, <3>2, <3>3
  <2>. QED
    BY <1>4, <2>3, <2>4
<1>10. h2[1] = 0 /\ p2[1] = 1
  BY <1>1, <1>5
<1>11. Bounded(gs, bases, h2, p2)
  BY <1>5, <1>6, <1>7, <1>8, <1>9, <1>10 DEF Bounded
<1>. QED
  BY <1>5, <1>11 DEF y, BoundedAbove

---------------------------------------------------------------------------
(***************************************************************************)
(* A step changes the frame on top from f to g, and other parts, from      *)
(* those of m to those of r, as this asks for.                             *)
(***************************************************************************)
Adjusts(m, r, f, g, t) ==
  /\ IsVm(r) /\ r.CatchStack = m.CatchStack /\ r.IsFatalFailure = m.IsFatalFailure
  /\ Stacks(r) /\ Restored(r) \in Nat
  /\ Len(r.LoopCounterStack) =
       Len(m.LoopCounterStack) - Ct("counting", f, t) + Ct("counting", g, t)
  /\ Len(r.LoopSizeStack) = Len(m.LoopSizeStack) - Ct("calling", f, t) + Ct("calling", g, t)
  /\ Len(r.EvalFrameStack) = Len(m.EvalFrameStack) - Ct("calling", f, t) + Ct("calling", g, t)
  /\ Len(r.CurEvalFrameStack) =
       Len(m.CurEvalFrameStack) - Ct("calling", f, t) + Ct("calling", g, t)
                                - Ct("context", f, t) + Ct("context", g, t)
  /\ Len(r.LocalsBaseStack) = Len(m.LocalsBaseStack) - Ct("locals", f, t) + Ct("locals", g, t)
  /\ Len(r.SavedPosStack) - Restored(r) =
       Len(m.SavedPosStack) - Restored(m) - Ct("peeking", f, t) + Ct("peeking", g, t)
  /\ t.expand =>
       /\ Len(r.RestoreStack) = Len(m.RestoreStack) - Ct("table", f, t) + Ct("table", g, t)
       /\ r.Scratch = m.Scratch
  /\ ~t.expand =>
       /\ Len(r.Scratch) = Len(m.Scratch) - Ct("table", f, t) + Ct("table", g, t)
       /\ r.RestoreStack = m.RestoreStack

LEMMA RestoredType ==
  ASSUME NEW m, Stacks(m) PROVE Restored(m) \in Nat
<1>1. DOMAIN m.RestoreStack = 1 .. Len(m.RestoreStack) /\ Len(m.RestoreStack) \in Nat
  BY DEF Stacks
<1>2. IsFiniteSet(DOMAIN m.RestoreStack)
  <2>1. PICK n \in Nat : n = Len(m.RestoreStack)
    BY <1>1
  <2>2. IsFiniteSet(1 .. n)
    BY FS_Interval
  <2>. QED
    BY <1>1, <2>1, <2>2
<1>3. IsFiniteSet({i \in DOMAIN m.RestoreStack : m.RestoreStack[i]})
  BY <1>2, FS_Subset
<1>. QED
  BY <1>3, FS_CardinalityType DEF Restored

LEMMA HeightsStep ==
  ASSUME NEW m, NEW r, NEW f, NEW g, NEW t, NEW fs, NEW gs,
         Stacks(m), Heights(m, fs, t), Adjusts(m, r, f, g, t),
         \A kind : /\ N(kind, fs, t) \in Nat
                   /\ N(kind, gs, t) = N(kind, fs, t) - Ct(kind, f, t) + Ct(kind, g, t)
  PROVE  Heights(r, gs, t)
<1>1. \A kind : Ct(kind, f, t) \in Int /\ Ct(kind, g, t) \in Int
  BY CtType
<1>2. Restored(m) \in Nat /\ Restored(r) \in Nat
  BY RestoredType DEF Adjusts
<1>. DEFINE Changes(kind) ==
         /\ N(kind, fs, t) \in Nat
         /\ Ct(kind, f, t) \in Int /\ Ct(kind, g, t) \in Int
         /\ N(kind, gs, t) = N(kind, fs, t) - Ct(kind, f, t) + Ct(kind, g, t)
<1>3. Len(r.LoopCounterStack) = 1 + N("counting", gs, t)
  <2>1. Changes("counting")
    BY <1>1
  <2>2. /\ Len(m.LoopCounterStack) = 1 + N("counting", fs, t)
        /\ Len(r.LoopCounterStack) =
             Len(m.LoopCounterStack) - Ct("counting", f, t) + Ct("counting", g, t)
    BY DEF Heights, Adjusts
  <2>. QED
    BY <2>1, <2>2
<1>4. /\ Len(r.LoopSizeStack) = N("calling", gs, t)
      /\ Len(r.EvalFrameStack) = N("calling", gs, t)
      /\ Len(r.CurEvalFrameStack) = 1 + N("calling", gs, t) + N("context", gs, t)
  <2>1. Changes("calling") /\ Changes("context")
    BY <1>1
  <2>2. /\ Len(m.LoopSizeStack) = N("calling", fs, t)
        /\ Len(m.EvalFrameStack) = N("calling", fs, t)
        /\ Len(m.CurEvalFrameStack) = 1 + N("calling", fs, t) + N("context", fs, t)
    BY DEF Heights
  <2>3. /\ Len(r.LoopSizeStack) = Len(m.LoopSizeStack) - Ct("calling", f, t) + Ct("calling", g, t)
        /\ Len(r.EvalFrameStack) = Len(m.EvalFrameStack) - Ct("calling", f, t) + Ct("calling", g, t)
        /\ Len(r.CurEvalFrameStack) =
             Len(m.CurEvalFrameStack) - Ct("calling", f, t) + Ct("calling", g, t)
                                      - Ct("context", f, t) + Ct("context", g, t)
    BY DEF Adjusts
  <2>. QED
    BY <2>1, <2>2, <2>3
<1>5. Len(r.LocalsBaseStack) = 1 + N("locals", gs, t)
  <2>1. Changes("locals")
    BY <1>1
  <2>2. /\ Len(m.LocalsBaseStack) = 1 + N("locals", fs, t)
        /\ Len(r.LocalsBaseStack) =
             Len(m.LocalsBaseStack) - Ct("locals", f, t) + Ct("locals", g, t)
    BY DEF Heights, Adjusts
  <2>. QED
    BY <2>1, <2>2
<1>6. Len(r.SavedPosStack) = N("peeking", gs, t) + Restored(r)
  <2>1. Len(m.SavedPosStack) = N("peeking", fs, t) + Restored(m)
    BY DEF Heights
  <2>2. Len(r.SavedPosStack) - Restored(r) =
          Len(m.SavedPosStack) - Restored(m) - Ct("peeking", f, t) + Ct("peeking", g, t)
    BY DEF Adjusts
  <2>3. Len(r.SavedPosStack) \in Nat
    BY SeqLen DEF Adjusts, Stacks
  <2>. QED
    BY <1>1, <1>2, <2>1, <2>2, <2>3
<1>7. /\ t.expand => Len(r.RestoreStack) = N("table", gs, t) /\ r.Scratch = << >>
      /\ ~t.expand => Len(r.Scratch) = N("table", gs, t) /\ r.RestoreStack = << >>
  BY <1>1 DEF Heights, Adjusts
<1>. QED
  BY <1>3, <1>4, <1>6, <1>7, <1>5 DEF Heights

\* Another frame on top.
LEMMA SetGood ==
  ASSUME NEW t, NEW m, Good(m, t), Quiet(m.FrameStack),
         NEW f, f = Last(m.FrameStack), f.CallMethod \in Inner,
         NEW g, IsFrame(g), g.CallMethod \in Inner,
         NEW r, Adjusts(m, r, f, g, t),
         NEW gs, gs = SetTop(m.FrameStack, g), LocalsBounded(r, gs)
  PROVE  Good(With(r, gs), t) /\ Quiet(gs)
<1>1. PICK fs : fs = m.FrameStack
  OBVIOUS
<1>2. Shape(fs) /\ Quiet(fs) /\ Stacks(m) /\ Heights(m, fs, t) /\ Catches(m, fs)
  BY <1>1 DEF Good
<1>3. PICK n \in Nat : n = Len(fs) /\ n >= 2
  BY <1>1, <1>2, TopFrame DEF Quiet
<1>4. /\ IsSeq(fs) /\ Last(fs) = fs[n] /\ f = fs[n]
      /\ \A i \in 1 .. n : IsFrame(fs[i])
  BY <1>1, <1>2, <1>3, TopFrame
<1>5. /\ IsSeq(gs) /\ Len(gs) = n /\ gs[n] = g
      /\ \A i \in 1 .. n - 1 : gs[i] = fs[i]
  BY <1>1, <1>3, <1>4, SeqSetTop
<1>6. Shape(gs)
  <2>1. \A i \in 1 .. n : IsFrame(gs[i])
    <3>1. \A i \in 1 .. n : i \in 1 .. n - 1 \/ i = n
      BY <1>3
    <3>. QED
      BY <1>4, <1>5, <3>1
  <2>2. gs[1] = fs[1] /\ fs[1].CallMethod = "Started"
    BY <1>2, <1>3, <1>5 DEF Shape
  <2>3. gs[2].CallMethod \in Inner \cup Outer
    <3>1. CASE n = 2
      BY <1>5, <3>1
    <3>2. CASE n # 2
      <4>1. 2 \in 1 .. n - 1
        BY <1>3, <3>2
      <4>. QED
        BY <1>2, <1>3, <1>5, <4>1 DEF Shape
    <3>. QED
      BY <3>1, <3>2
  <2>4. ASSUME NEW i \in 3 .. n PROVE gs[i].CallMethod \in Inner
    <3>1. CASE i = n
      BY <1>5, <3>1
    <3>2. CASE i # n
      <4>1. i \in 1 .. n - 1 /\ i \in 3 .. Len(fs)
        BY <1>3, <3>2
      <4>. QED
        BY <1>2, <1>5, <4>1 DEF Shape
    <3>. QED
      BY <3>1, <3>2
  <2>. QED
    BY <1>3, <1>5, <2>1, <2>2, <2>3, <2>4 DEF Shape
<1>7. Heights(r, gs, t)
  <2>1. ASSUME NEW kind
        PROVE  /\ N(kind, fs, t) \in Nat
               /\ N(kind, gs, t) = N(kind, fs, t) - Ct(kind, f, t) + Ct(kind, g, t)
    <3>1. /\ N(kind, fs, t) \in Nat
          /\ N(kind, SetTop(fs, g), t) =
               N(kind, fs, t) - Ct(kind, fs[Len(fs)], t) + Ct(kind, g, t)
      BY <1>3, <1>4, CountSetTop
    <3>. QED
      BY <1>1, <1>3, <1>4, <3>1
  <2>. QED
    BY <1>2, <2>1, HeightsStep
<1>8. Quiet(gs)
  <2>1. CASE n = 2
    <3>1. gs[2].CallMethod \in Inner /\ Len(gs) = 2
      BY <1>5, <2>1
    <3>. QED
      BY <3>1 DEF Quiet, InMode, HasCaught, Inner, Outer, Selecting
  <2>2. CASE n # 2
    <3>1. gs[2] = fs[2]
      BY <1>3, <1>5, <2>2
    <3>. QED
      BY <1>2, <1>3, <1>5, <3>1 DEF Quiet, InMode, HasCaught
  <2>. QED
    BY <2>1, <2>2
<1>9. Catches(r, gs) /\ Counts(r, gs)
  <2>1. r.CatchStack = m.CatchStack /\ m.CatchStack = << "NO_SUCH_METHOD" >>
    BY <1>2 DEF Adjusts, Catches, Quiet
  <2>. QED
    BY <1>8, <2>1 DEF Catches, Counts, Quiet
<1>10. /\ IsVm(r) /\ Stacks(r) /\ ~r.IsFatalFailure
  BY DEF Adjusts, Good
<1>11. PICK q : q = With(r, gs)
  OBVIOUS
<1>12. Rest(r, q) /\ q.FrameStack = gs
  BY <1>10, <1>11, WithRest
<1>13. /\ IsVm(q) /\ ~q.IsFatalFailure /\ Stacks(q) /\ Heights(q, gs, t)
       /\ Catches(q, gs) /\ Counts(q, gs) /\ LocalsBounded(q, gs)
  BY <1>7, <1>9, <1>10, <1>12, RestSame
<1>14. Begun(gs, t)
  <2>1. CASE n = 2
    <3>1. gs[2].CallMethod \in Inner
      BY <1>5, <2>1
    <3>. QED
      BY <3>1 DEF Begun, Inner, Outer
  <2>2. CASE n # 2
    <3>1. gs[2] = fs[2]
      BY <1>3, <1>5, <2>2
    <3>2. Begun(fs, t)
      BY <1>1 DEF Good
    <3>. QED
      BY <1>3, <1>5, <3>1, <3>2 DEF Begun
  <2>. QED
    BY <2>1, <2>2
<1>15. Good(q, t)
  BY <1>6, <1>12, <1>13, <1>14 DEF Good
<1>. QED
  BY <1>8, <1>11, <1>15

\* A method that is called.
LEMMA PushGood ==
  ASSUME NEW t, NEW q, Good(q, t), Quiet(q.FrameStack),
         NEW g, IsFrame(g), g.CallMethod \in Inner, g.CallState = "Enter",
         NEW gs, gs = Append(q.FrameStack, g)
  PROVE  Good(With(q, gs), t)
<1>1. PICK fs : fs = q.FrameStack
  OBVIOUS
<1>2. /\ Shape(fs) /\ Quiet(fs) /\ IsVm(q) /\ ~q.IsFatalFailure /\ Stacks(q)
      /\ Heights(q, fs, t) /\ Catches(q, fs) /\ LocalsBounded(q, fs)
  BY <1>1 DEF Good
<1>3. PICK n \in Nat : n = Len(fs) /\ n >= 2
  BY <1>1, <1>2, TopFrame DEF Quiet
<1>4. /\ IsSeq(fs) /\ Last(fs) = fs[n]
      /\ \A i \in 1 .. n : IsFrame(fs[i])
  BY <1>2, <1>3, TopFrame
<1>5. /\ IsSeq(gs) /\ Len(gs) = n + 1 /\ gs[n + 1] = g
      /\ \A i \in 1 .. n : gs[i] = fs[i]
  BY <1>1, <1>3, <1>4, SeqAppend
<1>6. \A i \in 1 .. n + 1 : i \in 1 .. n \/ i = n + 1
  BY <1>3
<1>7. gs[1] = fs[1] /\ gs[2] = fs[2]
  BY <1>3, <1>5
<1>8. Shape(gs)
  <2>1. \A i \in 1 .. n + 1 : IsFrame(gs[i])
    BY <1>4, <1>5, <1>6
  <2>2. ASSUME NEW i \in 3 .. n + 1 PROVE gs[i].CallMethod \in Inner
    <3>1. CASE i = n + 1
      BY <1>5, <3>1
    <3>2. CASE i # n + 1
      <4>1. i \in 1 .. n /\ i \in 3 .. Len(fs)
        BY <1>3, <3>2
      <4>. QED
        BY <1>2, <1>5, <4>1 DEF Shape
    <3>. QED
      BY <3>1, <3>2
  <2>. QED
    BY <1>2, <1>3, <1>5, <1>7, <2>1, <2>2 DEF Shape
<1>9. Heights(q, gs, t)
  <2>1. ASSUME NEW kind PROVE N(kind, gs, t) = N(kind, fs, t)
    <3>1. Ct(kind, g, t) = 0
      BY EnterHasNone
    <3>2. N(kind, gs, t) = N(kind, fs, t) + Ct(kind, g, t)
      BY <1>1, <1>3, <1>4, CountAppend
    <3>3. N(kind, fs, t) \in Nat
      BY <1>3, OwnersFinite
    <3>. QED
      BY <3>1, <3>2, <3>3
  <2>. QED
    BY <1>2, <2>1 DEF Heights
<1>10. Quiet(gs)
  BY <1>2, <1>3, <1>5, <1>7 DEF Quiet, InMode, HasCaught
<1>11. Catches(q, gs) /\ Counts(q, gs)
  BY <1>2, <1>10 DEF Catches, Counts, Quiet
<1>12. LocalsBounded(q, gs)
  <2>1. PICK h, p :
          /\ Bounded(fs, q.LocalsBaseStack, h, p)
          /\ Len(q.LocalsBaseStack) = p[Len(fs)] + (IF WithLocals(Last(fs)) THEN 1 ELSE 0)
          /\ AtMost(q.LocalValues, Last(fs), h[Len(fs)])
    BY <1>2 DEF LocalsBounded
  <2>2. h[n] \in Nat /\ p[n] \in Nat
    BY <1>3, <2>1 DEF Bounded
  <2>3. IsSeq(q.LocalValues) /\ Len(q.LocalValues) \in Nat
    BY <1>2, SeqLen DEF LocalsBounded
  <2>4. WithLocals(fs[n]) => ~HasArgument(fs[n])
    BY DEF WithLocals, HasArgument, Evaluates, Bitwise2
  <2>5. PICK x \in Nat : /\ NoLocals(fs[n]) => x = h[n]
                         /\ HasArgument(fs[n]) => x = h[n] + 1
                         /\ Len(q.LocalValues) <= x
    <3>1. CASE NoLocals(fs[n])
      BY <1>3, <1>4, <2>1, <2>2, <3>1 DEF AtMost, NoLocals
    <3>2. CASE HasArgument(fs[n])
      <4>1. h[n] + 1 \in Nat /\ Len(q.LocalValues) <= h[n] + 1 /\ ~NoLocals(fs[n])
        BY <1>3, <1>4, <2>1, <2>2, <3>2 DEF AtMost, NoLocals
      <4>. QED
        BY <4>1
    <3>3. CASE WithLocals(fs[n])
      BY <2>3, <2>4, <3>3 DEF NoLocals
    <3>. QED
      BY <3>1, <3>2, <3>3 DEF NoLocals
  <2>6. NoLocals(gs[n + 1])
    BY <1>5, EnterHasNone
  <2>7. PICK h2, p2 :
          /\ Bounded(gs, q.LocalsBaseStack, h2, p2)
          /\ h2[n + 1] = x
          /\ p2[n + 1] = IF WithLocals(fs[n]) THEN p[n] + 1 ELSE p[n]
    <3>1. PICK b : b = q.LocalsBaseStack
      OBVIOUS
    <3>2. /\ IsSeq(fs) /\ Len(fs) = n /\ IsSeq(gs) /\ Len(gs) = n + 1
          /\ \A i \in 1 .. n : gs[i] = fs[i]
          /\ Bounded(fs, b, h, p) /\ n >= 1
      BY <1>3, <1>4, <1>5, <2>1, <3>1
    <3>3. BoundedAbove(fs, n, gs, b, p, x)
      BY <2>5, <2>6, <3>2, BoundedPush
    <3>. QED
      BY <3>1, <3>3 DEF BoundedAbove
  <2>8. Last(gs) = g /\ NoLocals(g) /\ ~WithLocals(g) /\ ~HasArgument(g)
    BY <1>3, <1>5, <2>6 DEF Last, NoLocals
  <2>9. /\ Len(q.LocalsBaseStack) = p2[Len(gs)] + (IF WithLocals(Last(gs)) THEN 1 ELSE 0)
    <3>1. Len(q.LocalsBaseStack) = p2[n + 1] /\ p2[n + 1] \in Nat
      BY <1>3, <1>4, <2>1, <2>2, <2>7
    <3>. QED
      BY <1>5, <2>8, <3>1
  <2>10. AtMost(q.LocalValues, Last(gs), h2[Len(gs)])
    BY <1>5, <2>5, <2>7, <2>8 DEF AtMost
  <2>. QED
    BY <2>3, <2>7, <2>9, <2>10 DEF LocalsBounded
<1>13. PICK w : w = With(q, gs)
  OBVIOUS
<1>14. Rest(q, w) /\ w.FrameStack = gs
  BY <1>2, <1>13, WithRest
<1>15. /\ IsVm(w) /\ ~w.IsFatalFailure /\ Stacks(w) /\ Heights(w, gs, t)
       /\ Catches(w, gs) /\ Counts(w, gs) /\ LocalsBounded(w, gs)
  BY <1>2, <1>9, <1>11, <1>12, <1>14, RestSame
<1>16. Begun(gs, t)
  <2>1. Begun(fs, t)
    BY <1>1 DEF Good
  <2>. QED
    BY <1>2, <1>3, <1>5, <1>7, <2>1 DEF Begun, Quiet
<1>. QED
  BY <1>8, <1>13, <1>14, <1>15, <1>16 DEF Good

\* A method that returns, when it has nothing on the stacks any more.
LEMMA PopGood ==
  ASSUME NEW t, NEW q, Good(q, t), Quiet(q.FrameStack),
         NEW f, f = Last(q.FrameStack), f.CallState = "Enter", f.CallMethod \in Inner,
         NEW below, below = Last(Front(q.FrameStack)),
         NEW g, IsFrame(g), Alike(below, g),
         NEW gs, gs = SetTop(Front(q.FrameStack), g)
  PROVE  Good(With(q, gs), t)
<1>1. PICK fs : fs = q.FrameStack
  OBVIOUS
<1>2. /\ Shape(fs) /\ Quiet(fs) /\ IsVm(q) /\ ~q.IsFatalFailure /\ Stacks(q)
      /\ Heights(q, fs, t) /\ Catches(q, fs) /\ LocalsBounded(q, fs)
  BY <1>1 DEF Good
<1>3. PICK n \in Nat : n = Len(fs) - 1 /\ Len(fs) = n + 1 /\ n >= 1
  <2>1. Len(fs) \in Nat /\ Len(fs) >= 2
    BY <1>2, TopFrame DEF Quiet
  <2>2. Len(fs) - 1 \in Nat /\ Len(fs) = (Len(fs) - 1) + 1 /\ Len(fs) - 1 >= 1
    BY <2>1
  <2>. QED
    BY <2>2
<1>4. /\ IsSeq(fs) /\ f = fs[n + 1]
      /\ \A i \in 1 .. n + 1 : IsFrame(fs[i])
  BY <1>1, <1>2, <1>3, TopFrame
<1>5. PICK bs : bs = Front(fs)
  OBVIOUS
<1>6. IsSeq(bs) /\ Len(bs) = n /\ \A i \in 1 .. n : bs[i] = fs[i]
  BY <1>3, <1>4, <1>5, SeqFront
<1>7. below = fs[n]
  BY <1>1, <1>3, <1>5, <1>6 DEF Last
<1>8. /\ IsSeq(gs) /\ Len(gs) = n /\ gs[n] = g
      /\ \A i \in 1 .. n - 1 : gs[i] = bs[i]
  <2>1. IsSeq(bs) /\ Len(bs) = n /\ Len(bs) >= 1 /\ gs = SetTop(bs, g)
    BY <1>1, <1>3, <1>5, <1>6
  <2>. QED
    BY <2>1, SeqSetTop
<1>9. ASSUME NEW i \in 1 .. n PROVE IsFrame(gs[i]) /\ Alike(fs[i], gs[i])
  <2>1. CASE i = n
    BY <1>7, <1>8, <2>1
  <2>2. CASE i # n
    <3>1. i \in 1 .. n - 1 /\ i \in 1 .. n + 1
      BY <1>3, <2>2
    <3>2. gs[i] = fs[i]
      BY <1>6, <1>8, <3>1
    <3>. QED
      BY <1>4, <3>1, <3>2 DEF Alike
  <2>. QED
    BY <2>1, <2>2
<1>10. Shape(gs)
  <2>1. gs[1].CallMethod \in {"Started", "Finished"}
    BY <1>2, <1>3, <1>9 DEF Shape, Alike
  <2>2. ASSUME n >= 2
        PROVE  gs[1].CallMethod = "Started" /\ gs[2].CallMethod \in Inner \cup Outer
    <3>1. 1 \in 1 .. n /\ 2 \in 1 .. n /\ Len(fs) >= 2
      BY <1>3, <2>2
    <3>. QED
      BY <1>2, <1>9, <3>1 DEF Shape, Alike
  <2>3. ASSUME NEW i \in 3 .. n PROVE gs[i].CallMethod \in Inner
    <3>1. i \in 1 .. n /\ i \in 3 .. Len(fs)
      BY <1>3
    <3>. QED
      BY <1>2, <1>9, <3>1 DEF Shape, Alike
  <2>. QED
    BY <1>3, <1>8, <1>9, <2>1, <2>2, <2>3 DEF Shape
<1>11. Heights(q, gs, t)
  <2>1. ASSUME NEW kind PROVE N(kind, gs, t) = N(kind, fs, t)
    <3>1. Ct(kind, f, t) = 0
      BY EnterHasNone
    <3>2. N(kind, fs, t) = N(kind, bs, t) + Ct(kind, f, t)
      BY <1>3, <1>4, <1>5, CountFront
    <3>3. N(kind, bs, t) \in Nat
      BY <1>6, OwnersFinite
    <3>4. \A i \in 2 .. Len(bs) : Has(kind, gs[i], t) <=> Has(kind, bs[i], t)
      <4>1. \A i \in 2 .. Len(bs) : i \in 1 .. n /\ bs[i] = fs[i]
        BY <1>3, <1>6
      <4>. QED
        BY <1>9, <4>1, AlikeSame
    <3>5. N(kind, gs, t) = N(kind, bs, t)
      BY <1>6, <1>8, <3>4, CountSame
    <3>. QED
      BY <3>1, <3>2, <3>3, <3>5
  <2>. QED
    BY <1>2, <2>1 DEF Heights
<1>12. Catches(q, gs) /\ Counts(q, gs)
  <2>1. ~InMode(gs) /\ ~HasCaught(gs)
    <3>1. CASE n = 1
      BY <1>8, <3>1 DEF InMode, HasCaught
    <3>2. CASE n # 1
      <4>1. 2 \in 1 .. n /\ Len(fs) >= 2
        BY <1>3, <3>2
      <4>2. Alike(fs[2], gs[2])
        BY <1>9, <4>1
      <4>. QED
        BY <1>2, <1>8, <4>1, <4>2 DEF Quiet, InMode, HasCaught, Alike, Selecting
    <3>. QED
      BY <3>1, <3>2
  <2>. QED
    BY <1>2, <2>1 DEF Catches, Counts, Quiet
<1>13. LocalsBounded(q, gs)
  <2>1. PICK h, p :
          /\ Bounded(fs, q.LocalsBaseStack, h, p)
          /\ Len(q.LocalsBaseStack) = p[Len(fs)] + (IF WithLocals(Last(fs)) THEN 1 ELSE 0)
          /\ AtMost(q.LocalValues, Last(fs), h[Len(fs)])
    BY <1>2 DEF LocalsBounded
  <2>2. NoLocals(f) /\ ~WithLocals(f) /\ Last(fs) = f
    BY <1>1, EnterHasNone DEF NoLocals
  <2>3. PICK h2, p2 :
           /\ Bounded(bs, q.LocalsBaseStack, h2, p2)
           /\ h2[n] = h[n] /\ p2[n] = p[n]
           /\ p[n] \in Nat /\ p[n + 1] \in Nat /\ h[n] \in Nat /\ h[n + 1] \in Nat
           /\ NoLocals(fs[n]) => h[n + 1] = h[n]
           /\ HasArgument(fs[n]) => h[n + 1] = h[n] + 1
           /\ p[n + 1] = IF WithLocals(fs[n]) THEN p[n] + 1 ELSE p[n]
    <3>1. PICK b : b = q.LocalsBaseStack
      OBVIOUS
    <3>2. IsSeq(fs) /\ Len(fs) = n + 1 /\ Bounded(fs, b, h, p)
      BY <1>3, <1>4, <2>1, <3>1
    <3>3. BoundedBelow(fs, n, bs, b, h, p)
      BY <1>3, <1>6, <3>2, BoundedPop
    <3>. QED
      BY <3>1, <3>3 DEF BoundedBelow
  <2>4. Last(gs) = g /\ Alike(fs[n], g)
    BY <1>3, <1>7, <1>8 DEF Last
  <2>5. /\ NoLocals(g) <=> NoLocals(fs[n])
        /\ WithLocals(g) <=> WithLocals(fs[n])
        /\ HasArgument(g) <=> HasArgument(fs[n])
    BY <2>4, AlikeSame
  <2>6. bs[n] = fs[n]
    BY <1>3, <1>6
  <2>7. WithLocals(g) => /\ q.LocalsBaseStack[p2[n] + 1] \in Nat
                         /\ q.LocalsBaseStack[p2[n] + 1] <= h2[n]
    <3>1. n \in 1 .. Len(bs)
      BY <1>3, <1>6
    <3>. QED
      BY <2>3, <2>5, <2>6, <3>1 DEF Bounded
  <2>8. Bounded(gs, q.LocalsBaseStack, h2, p2)
    <3>1. PICK b : b = q.LocalsBaseStack
      OBVIOUS
    <3>2. IsSeq(bs) /\ Len(bs) = n /\ IsSeq(gs) /\ Len(gs) = n /\ gs[n] = g
      BY <1>3, <1>6, <1>8
    <3>3. \A i \in 1 .. n - 1 : gs[i] = bs[i]
      BY <1>3, <1>6, <1>8
    <3>4. Bounded(bs, b, h2, p2)
      BY <2>3, <3>1
    <3>5. WithLocals(gs[n]) => b[p2[n] + 1] \in Nat /\ b[p2[n] + 1] <= h2[n]
      BY <2>7, <3>1, <3>2
    <3>6. Bounded(gs, b, h2, p2)
      BY <1>3, <3>2, <3>3, <3>4, <3>5, BoundedTop
    <3>. QED
      BY <3>1, <3>6
  <2>9. Len(q.LocalsBaseStack) = p2[n] + (IF WithLocals(g) THEN 1 ELSE 0)
    BY <1>3, <2>1, <2>2, <2>3, <2>5
  <2>10. Len(q.LocalValues) <= h[n + 1]
    BY <1>3, <2>1, <2>2 DEF AtMost
  <2>11. AtMost(q.LocalValues, g, h2[n])
    BY <2>3, <2>5, <2>10 DEF AtMost
  <2>12. IsSeq(q.LocalValues)
    BY <1>2 DEF LocalsBounded
  <2>. QED
    BY <1>8, <2>4, <2>8, <2>9, <2>11, <2>12 DEF LocalsBounded
<1>14. PICK w : w = With(q, gs)
  OBVIOUS
<1>15. Rest(q, w) /\ w.FrameStack = gs
  BY <1>2, <1>14, WithRest
<1>16. /\ IsVm(w) /\ ~w.IsFatalFailure /\ Stacks(w) /\ Heights(w, gs, t)
       /\ Catches(w, gs) /\ Counts(w, gs) /\ LocalsBounded(w, gs)
  BY <1>2, <1>11, <1>12, <1>13, <1>15, RestSame
<1>17. Begun(gs, t)
  <2>1. SUFFICES ASSUME n >= 2 PROVE Begun(gs, t)
    BY <1>3, <1>8 DEF Begun
  <2>2. 2 \in 1 .. n
    BY <1>3, <2>1
  <2>3. Alike(fs[2], gs[2]) /\ Len(fs) >= 2
    BY <1>3, <1>9, <2>1, <2>2
  <2>4. Begun(fs, t)
    BY <1>1 DEF Good
  <2>. QED
    BY <1>2, <2>3, <2>4 DEF Begun, Alike, Quiet
<1>. QED
  BY <1>10, <1>14, <1>15, <1>16, <1>17 DEF Good

---------------------------------------------------------------------------
(***************************************************************************)
(* How a method goes on, calls, returns and fails.                         *)
(***************************************************************************)

LEMMA StacksLen ==
  ASSUME NEW m, Stacks(m)
  PROVE  /\ Len(m.LoopCounterStack) \in Nat /\ Len(m.LoopSizeStack) \in Nat
         /\ Len(m.EvalFrameStack) \in Nat /\ Len(m.CurEvalFrameStack) \in Nat
         /\ Len(m.LocalsBaseStack) \in Nat /\ Len(m.SavedPosStack) \in Nat
         /\ Len(m.RestoreStack) \in Nat /\ Len(m.Scratch) \in Nat
<1>1. Len(m.LoopCounterStack) \in Nat /\ Len(m.LoopSizeStack) \in Nat
  BY SeqLen DEF Stacks
<1>2. Len(m.EvalFrameStack) \in Nat /\ Len(m.CurEvalFrameStack) \in Nat
  BY SeqLen DEF Stacks
<1>3. Len(m.LocalsBaseStack) \in Nat /\ Len(m.SavedPosStack) \in Nat
  BY SeqLen DEF Stacks
<1>4. Len(m.RestoreStack) \in Nat /\ Len(m.Scratch) \in Nat
  BY SeqLen DEF Stacks
<1>. QED
  BY <1>1, <1>2, <1>3, <1>4

\* The parts of r are as the frame on top of m needs them in a state.
Moves(m, r, state, t) ==
  /\ r.FrameStack = m.FrameStack
  /\ Adjusts(m, r, Last(m.FrameStack), In(Last(m.FrameStack), state), t)
  /\ LocalsBounded(r, SetTop(m.FrameStack, In(Last(m.FrameStack), state)))

LEMMA WithWith ==
  ASSUME NEW m, IsVm(m), NEW fs, NEW gs
  PROVE  With(With(m, fs), gs) = With(m, gs)
BY DEF IsVm, With

LEMMA LocalsAlike ==
  ASSUME NEW m, NEW fs, IsSeq(fs), NEW gs, IsSeq(gs), NEW n \in Nat, n >= 1,
         Len(fs) = n, Len(gs) = n, \A i \in 1 .. n - 1 : gs[i] = fs[i],
         NEW r, r.LocalsBaseStack = m.LocalsBaseStack, r.LocalValues = m.LocalValues,
         WithLocals(gs[n]) <=> WithLocals(fs[n]), HasArgument(gs[n]) <=> HasArgument(fs[n]),
         LocalsBounded(m, fs)
  PROVE  LocalsBounded(r, gs)
<1>1. PICK b : b = m.LocalsBaseStack
  OBVIOUS
<1>2. PICK h, p : /\ Bounded(fs, b, h, p)
                  /\ Len(b) = p[n] + (IF WithLocals(fs[n]) THEN 1 ELSE 0)
                  /\ AtMost(m.LocalValues, fs[n], h[n])
  BY <1>1 DEF LocalsBounded, Last
<1>3. WithLocals(gs[n]) => b[p[n] + 1] \in Nat /\ b[p[n] + 1] <= h[n]
  <2>1. n \in 1 .. Len(fs)
    OBVIOUS
  <2>. QED
    BY <1>2, <2>1 DEF Bounded
<1>4. Bounded(gs, b, h, p)
  BY <1>2, <1>3, BoundedTop
<1>5. AtMost(r.LocalValues, gs[n], h[n])
  BY <1>2 DEF AtMost, NoLocals
<1>. QED
  BY <1>1, <1>2, <1>4, <1>5 DEF LocalsBounded, Last

LEMMA Going ==
  ASSUME NEW t, NEW m, Good(m, t), Quiet(m.FrameStack),
         NEW f, f = Last(m.FrameStack), f.CallMethod \in Inner,
         NEW state, NEW r, Moves(m, r, state, t),
         NEW g, IsFrame(g), Alike(In(f, state), g)
  PROVE  /\ Good(With(r, SetTop(m.FrameStack, g)), t)
         /\ Quiet(SetTop(m.FrameStack, g))
<1>1. PICK fs : fs = m.FrameStack
  OBVIOUS
<1>2. PICK n \in Nat : n = Len(fs) /\ n >= 2
  BY <1>1, TopFrame DEF Good, Quiet
<1>3. IsSeq(fs) /\ IsFrame(f)
  BY <1>1, TopFrame DEF Good
<1>4. PICK e : e = In(f, state)
  OBVIOUS
<1>5. IsFrame(e) /\ e.CallMethod = f.CallMethod
  BY <1>3, <1>4, InFields
<1>6. Adjusts(m, r, f, e, t) /\ LocalsBounded(r, SetTop(fs, e))
  BY <1>1, <1>4 DEF Moves
<1>7. /\ \A kind : Ct(kind, g, t) = Ct(kind, e, t)
      /\ WithLocals(g) <=> WithLocals(e)
      /\ HasArgument(g) <=> HasArgument(e)
  BY <1>4, AlikeSame
<1>8. Adjusts(m, r, f, g, t)
  BY <1>6, <1>7 DEF Adjusts
<1>9. PICK es, gs : es = SetTop(fs, e) /\ gs = SetTop(fs, g)
  OBVIOUS
<1>10. /\ IsSeq(es) /\ Len(es) = n /\ es[n] = e /\ \A i \in 1 .. n - 1 : es[i] = fs[i]
       /\ IsSeq(gs) /\ Len(gs) = n /\ gs[n] = g /\ \A i \in 1 .. n - 1 : gs[i] = fs[i]
  BY <1>2, <1>3, <1>9, SeqSetTop
<1>11. LocalsBounded(r, gs)
  <2>1. /\ \A i \in 1 .. n - 1 : gs[i] = es[i]
        /\ WithLocals(gs[n]) <=> WithLocals(es[n])
        /\ HasArgument(gs[n]) <=> HasArgument(es[n])
    BY <1>7, <1>10
  <2>2. LocalsBounded(r, es) /\ n >= 1
    BY <1>2, <1>6, <1>9
  <2>. QED
    BY <1>10, <2>1, <2>2, LocalsAlike
<1>12. g.CallMethod \in Inner
  BY <1>4, <1>5 DEF Alike
<1>. QED
  BY <1>1, <1>8, <1>9, <1>11, <1>12, SetGood

LEMMA GotoGood ==
  ASSUME NEW t, NEW m, Good(m, t), Quiet(m.FrameStack), Last(m.FrameStack).CallMethod \in Inner,
         NEW state, NEW r, Moves(m, r, state, t)
  PROVE  Good(Goto(r, state), t)
<1>1. PICK f, g : f = Last(m.FrameStack) /\ g = In(f, state)
  OBVIOUS
<1>2. IsFrame(f) /\ IsFrame(g) /\ Alike(g, g)
  BY <1>1, TopFrame, InFields DEF Good, Alike
<1>3. Good(With(r, SetTop(m.FrameStack, g)), t)
  BY <1>1, <1>2, Going
<1>4. r.FrameStack = m.FrameStack
  BY DEF Moves
<1>5. Goto(r, state) = With(r, SetTop(m.FrameStack, g))
  BY <1>1, <1>4 DEF Goto, With, In
<1>. QED
  BY <1>3, <1>5

LEMMA CallGood ==
  ASSUME NEW t, NEW m, Good(m, t), Quiet(m.FrameStack), Last(m.FrameStack).CallMethod \in Inner,
         NEW state, NEW r, Moves(m, r, state, t),
         NEW method, method \in Inner, NEW mod, NEW nd
  PROVE  Good(Call(r, state, method, mod, nd), t)
<1>1. PICK f, g : f = Last(m.FrameStack) /\ g = [f EXCEPT !.CallState = state, !.ReturnValue = 0]
  OBVIOUS
<1>2. IsFrame(f)
  BY <1>1, TopFrame DEF Good
<1>3. IsFrame(g) /\ Alike(In(f, state), g)
  BY <1>1, <1>2 DEF IsFrame, Alike, In
<1>4. PICK gs, q : gs = SetTop(m.FrameStack, g) /\ q = With(r, gs)
  OBVIOUS
<1>5. Good(q, t) /\ Quiet(gs)
  BY <1>1, <1>3, <1>4, Going
<1>6. IsVm(r) /\ r.FrameStack = m.FrameStack
  BY DEF Moves, Adjusts
<1>7. q.FrameStack = gs
  BY <1>4, <1>6, WithRest
<1>8. PICK new : new = CallFrame(method, mod, nd)
  OBVIOUS
<1>9. IsFrame(new) /\ new.CallMethod = method /\ new.CallState = "Enter"
  BY <1>8 DEF CallFrame, IsFrame
<1>10. Good(With(q, Append(gs, new)), t)
  BY <1>5, <1>7, <1>9, PushGood
<1>11. With(q, Append(gs, new)) = With(r, Append(gs, new))
  BY <1>4, <1>6, WithWith
<1>12. Call(r, state, method, mod, nd) = With(r, Append(gs, new))
  BY <1>1, <1>4, <1>6, <1>8 DEF Call, With
<1>. QED
  BY <1>10, <1>11, <1>12

LEMMA ReturnGood ==
  ASSUME NEW t, NEW m, Good(m, t), Quiet(m.FrameStack), Last(m.FrameStack).CallMethod \in Inner,
         NEW r, Moves(m, r, "Enter", t), NEW v
  PROVE  Good(Return(r, v), t)
<1>1. PICK f, g, fs : f = Last(m.FrameStack) /\ g = In(f, "Enter") /\ fs = m.FrameStack
  OBVIOUS
<1>2. /\ IsFrame(f) /\ IsFrame(g) /\ Alike(g, g)
      /\ g.CallMethod = f.CallMethod /\ g.CallState = "Enter"
  BY <1>1, TopFrame, InFields DEF Good, Alike
<1>3. PICK gs, q : gs = SetTop(fs, g) /\ q = With(r, gs)
  OBVIOUS
<1>4. Good(q, t) /\ Quiet(gs)
  BY <1>1, <1>2, <1>3, Going
<1>5. IsVm(r) /\ r.FrameStack = fs
  BY <1>1 DEF Moves, Adjusts
<1>6. q.FrameStack = gs
  BY <1>3, <1>5, WithRest
<1>7. PICK n \in Nat : n = Len(fs) - 1 /\ Len(fs) = n + 1 /\ n >= 1
  <2>1. Len(fs) \in Nat /\ Len(fs) >= 2
    BY <1>1, TopFrame DEF Good, Quiet
  <2>2. Len(fs) - 1 \in Nat /\ Len(fs) = (Len(fs) - 1) + 1 /\ Len(fs) - 1 >= 1
    BY <2>1
  <2>. QED
    BY <2>2
<1>8. IsSeq(fs) /\ \A i \in 1 .. n + 1 : IsFrame(fs[i])
  BY <1>1, <1>7, TopFrame DEF Good
<1>9. /\ IsSeq(gs) /\ Len(gs) = n + 1 /\ gs[n + 1] = g
      /\ \A i \in 1 .. n : gs[i] = fs[i]
  BY <1>3, <1>7, <1>8, SeqSetTop
<1>10. PICK bs, cs : bs = Front(fs) /\ cs = Front(gs)
  OBVIOUS
<1>11. /\ IsSeq(bs) /\ Len(bs) = n /\ \A i \in 1 .. n : bs[i] = fs[i]
       /\ IsSeq(cs) /\ Len(cs) = n /\ \A i \in 1 .. n : cs[i] = gs[i]
  BY <1>7, <1>8, <1>9, <1>10, SeqFront
<1>12. bs = cs
  <2>1. PICK R : bs \in Seq(R)
    BY <1>11 DEF IsSeq
  <2>2. PICK S : cs \in Seq(S)
    BY <1>11 DEF IsSeq
  <2>3. bs = [i \in 1 .. n |-> bs[i]] /\ cs = [i \in 1 .. n |-> cs[i]]
    BY <1>11, <2>1, <2>2
  <2>4. \A i \in 1 .. n : bs[i] = cs[i]
    BY <1>9, <1>11
  <2>. QED
    BY <2>3, <2>4
<1>13. PICK below, new : below = Last(bs) /\ new = [below EXCEPT !.ReturnValue = v]
  OBVIOUS
<1>14. below = fs[n]
  BY <1>7, <1>11, <1>13 DEF Last
<1>15. IsFrame(below)
  BY <1>7, <1>8, <1>14
<1>16. IsFrame(new) /\ Alike(below, new)
  BY <1>13, <1>15 DEF IsFrame, Alike
<1>17. PICK ns : ns = SetTop(bs, new)
  OBVIOUS
<1>18. Last(gs) = g
  BY <1>7, <1>9 DEF Last
<1>19. g.CallMethod \in Inner
  BY <1>1, <1>2
<1>20. Good(With(q, ns), t)
  BY <1>2, <1>4, <1>6, <1>10, <1>12, <1>13, <1>16, <1>17, <1>18, <1>19, PopGood
<1>21. With(q, ns) = With(r, ns)
  BY <1>3, <1>5, WithWith
<1>22. Return(r, v) = With(r, ns)
  BY <1>5, <1>10, <1>13, <1>17 DEF Return, With
<1>. QED
  BY <1>20, <1>21, <1>22

\* Nothing catches a failure unless something is being tried, and nothing a
\* fatal one.
LEMMA ResetFails ==
  ASSUME NEW r, IsVm(r) PROVE Failed(Reset(r))
BY DEF IsVm, Reset, Failed

LEMMA FailFails ==
  ASSUME NEW r, IsVm(r) PROVE Failed(Fail(r))
<1>1. PICK yes : yes = TRUE
  OBVIOUS
<1>2. PICK q : q = [r EXCEPT !.IsFatalFailure = yes]
  OBVIOUS
<1>3. IsVm(q) /\ q.IsFatalFailure = yes
  BY <1>2 DEF IsVm
<1>4. Catchers(q) = {}
  BY <1>1, <1>3, Zenon DEF Catchers
<1>5. Fail(r) = Reset(q)
  BY <1>1, <1>2, <1>4, Zenon DEF Fail, Throw
<1>. QED
  BY <1>3, <1>5, ResetFails

LEMMA ThrowFails ==
  ASSUME NEW t, NEW m, Good(m, t), Quiet(m.FrameStack),
         NEW r, IsVm(r), r.FrameStack = m.FrameStack, r.CatchStack = m.CatchStack
  PROVE  Failed(Throw(r))
<1>1. r.CatchStack = << "NO_SUCH_METHOD" >>
  BY DEF Good, Catches, Quiet
<1>2. Last(r.CatchStack) = "NO_SUCH_METHOD"
  BY <1>1 DEF Last
<1>3. ASSUME NEW i \in 2 .. Len(r.FrameStack)
      PROVE  r.FrameStack[i].CallMethod # "NO_SUCH_METHOD"
  <2>1. Len(m.FrameStack) \in Nat /\ Shape(m.FrameStack)
    BY TopFrame DEF Good
  <2>2. i = 2 \/ i \in 3 .. Len(m.FrameStack)
    BY <2>1
  <2>3. m.FrameStack[i].CallMethod \in Inner \cup Outer
    BY <2>1, <2>2 DEF Shape, Quiet
  <2>. QED
    BY <2>3 DEF Inner, Outer
<1>4. Catchers(r) = {}
  BY <1>2, <1>3 DEF Catchers
<1>5. Throw(r) = Reset(r)
  BY <1>4 DEF Throw
<1>. QED
  BY <1>5, ResetFails

---------------------------------------------------------------------------
(***************************************************************************)
(* Methods that leave the stacks alone, and those that count.              *)
(***************************************************************************)

Unmarked(f) ==
  \/ f.CallMethod \in {"GetFile", "EvalBlock"}
  \/ /\ f.CallMethod = "Eval"
     /\ f.Nd.type \notin Headers \cup {"Write", "Sequence", "EvalVirtual", "Loop", "Define", "Table"}
                                 \cup Bitwise2

\* The frame counts, if anything.
CountsOnly(f) ==
  f.CallMethod = "Eval" /\ f.Nd.type \in Headers \cup {"Write", "Sequence", "Loop"}

LEMMA UnmarkedHasNone ==
  ASSUME NEW f, Unmarked(f), NEW t
  PROVE  NoLocals(f) /\ \A kind : Ct(kind, f, t) = 0
<1>1. f.CallMethod # "Peek" /\ f.CallMethod # "GetAlgorithm" /\ f.CallMethod # "HasFileHeader"
      /\ f.CallMethod # "EvalInCallingContext"
  BY DEF Unmarked
<1>2. /\ ~Counting(f) /\ ~Calling(f) /\ ~InContext(f) /\ ~WithLocals(f)
      /\ ~HasArgument(f) /\ ~Peeking(f) /\ ~Evaluates(f, {"Table"})
  BY <1>1 DEF Unmarked, Counting, Calling, InContext, WithLocals, HasArgument, Peeking, Selecting,
              Evaluates
<1>3. ASSUME NEW kind PROVE ~Has(kind, f, t)
  BY <1>2 DEF Has
<1>. QED
  BY <1>2, <1>3 DEF NoLocals, Ct

LEMMA CountsOnlyHas ==
  ASSUME NEW f, CountsOnly(f), NEW t
  PROVE  /\ NoLocals(f) /\ \A kind : kind # "counting" => Ct(kind, f, t) = 0
         /\ f.CallState = "Enter" => Ct("counting", f, t) = 0
         /\ f.CallState \in {"Loop", "Exit"} => Ct("counting", f, t) = 1
         /\ f.CallState = "Step2" /\ f.Nd.type # "Loop" => Ct("counting", f, t) = 1
         /\ f.CallState = "Step2" /\ f.Nd.type = "Loop" => Ct("counting", f, t) = 0
         /\ f.CallState = "Catch" /\ f.Nd.type # "Loop" => Ct("counting", f, t) = 1
<1>1. /\ ~Calling(f) /\ ~InContext(f) /\ ~WithLocals(f)
      /\ ~HasArgument(f) /\ ~Peeking(f) /\ ~Evaluates(f, {"Table"})
  BY DEF CountsOnly, Calling, InContext, WithLocals, HasArgument, Peeking, Selecting, Evaluates,
         Headers, Bitwise2
<1>2. ASSUME NEW kind, kind # "counting" PROVE ~Has(kind, f, t)
  BY <1>1, <1>2 DEF Has
<1>3. Has("counting", f, t) <=> Counting(f)
  BY DEF Has
<1>4. /\ f.CallState = "Enter" => ~Counting(f)
      /\ f.CallState \in {"Loop", "Exit"} => Counting(f)
      /\ f.CallState \in {"Step2", "Catch"} /\ f.Nd.type # "Loop" => Counting(f)
      /\ f.CallState = "Step2" /\ f.Nd.type = "Loop" => ~Counting(f)
  BY DEF CountsOnly, Counting, Evaluates, Headers
<1>5. NoLocals(f)
  BY <1>1 DEF NoLocals
<1>6. \A kind : kind # "counting" => Ct(kind, f, t) = 0
  BY <1>2 DEF Ct
<1>7. (Counting(f) => Ct("counting", f, t) = 1) /\ (~Counting(f) => Ct("counting", f, t) = 0)
  BY <1>3 DEF Ct
<1>. QED
  BY <1>4, <1>5, <1>6, <1>7

\* What is evaluated when nothing is tried.
LEMMA QuietTop ==
  ASSUME NEW t, NEW m, Good(m, t), NEW f, f = Last(m.FrameStack),
         f.CallMethod \in Inner, ~Evaluates(f, Headers)
  PROVE  Quiet(m.FrameStack)
<1>1. PICK fs : fs = m.FrameStack
  OBVIOUS
<1>2. /\ Len(fs) \in Nat /\ Len(fs) >= 1 /\ f = fs[Len(fs)] /\ Shape(fs) /\ Catches(m, fs)
  BY <1>1, TopFrame DEF Good
<1>3. Len(fs) # 1
  BY <1>2 DEF Shape, Inner
<1>4. PICK n \in Nat : n = Len(fs) /\ n >= 2
  <2>1. PICK n \in Nat : n = Len(fs)
    BY <1>2
  <2>2. n >= 1 /\ n # 1
    BY <1>2, <1>3, <2>1
  <2>3. n >= 2
    BY <2>2
  <2>. QED
    BY <2>1, <2>3
<1>5. Len(fs) = 2 => fs[2].CallMethod \in Inner
  BY <1>2
<1>6. ~InMode(fs)
  <2>1. CASE Len(fs) = 2
    BY <1>5, <2>1 DEF InMode, Selecting, Inner
  <2>2. CASE Len(fs) # 2
    <3>1. SUFFICES ASSUME InMode(fs) PROVE FALSE
      OBVIOUS
    <3>2. Len(fs) <= 3 /\ (Len(fs) = 3 => Evaluates(fs[3], Headers))
      BY <1>2, <3>1 DEF Catches
    <3>3. Len(fs) = 3
      <4>1. n <= 3 /\ n # 2
        BY <1>4, <2>2, <3>2
      <4>2. n = 3
        BY <1>4, <4>1
      <4>. QED
        BY <1>4, <4>2
    <3>. QED
      BY <1>2, <3>2, <3>3
  <2>. QED
    BY <2>1, <2>2
<1>7. ~HasCaught(fs)
  <2>1. CASE Len(fs) = 2
    BY <1>5, <2>1 DEF HasCaught, Outer, Inner
  <2>2. CASE Len(fs) # 2
    BY <1>2, <2>2 DEF Catches
  <2>. QED
    BY <2>1, <2>2
<1>8. Len(fs) >= 2
  BY <1>4
<1>9. fs[2].CallMethod # "HasFileHeader"
  <2>1. CASE Len(fs) = 2
    BY <1>5, <2>1 DEF Inner
  <2>2. CASE Len(fs) # 2
    <3>1. Begun(fs, t)
      BY <1>1 DEF Good
    <3>2. n >= 3
      BY <1>4, <2>2
    <3>. QED
      BY <1>4, <1>6, <3>1, <3>2 DEF Begun, InMode
  <2>. QED
    BY <2>1, <2>2
<1>. QED
  BY <1>1, <1>6, <1>7, <1>8, <1>9 DEF Quiet

\* The locals, where the frame on top has none and neither has the next.
LEMMA SameLocals ==
  ASSUME NEW t, NEW m, Good(m, t), NEW f, f = Last(m.FrameStack),
         NEW g, NEW r, r.LocalsBaseStack = m.LocalsBaseStack, r.LocalValues = m.LocalValues,
         WithLocals(g) <=> WithLocals(f), HasArgument(g) <=> HasArgument(f)
  PROVE  LocalsBounded(r, SetTop(m.FrameStack, g))
<1>1. PICK fs, n : fs = m.FrameStack /\ n = Len(fs)
  OBVIOUS
<1>2. /\ n \in Nat /\ n >= 1 /\ IsSeq(fs) /\ f = fs[n] /\ LocalsBounded(m, fs)
  BY <1>1, TopFrame DEF Good
<1>3. PICK gs : gs = SetTop(fs, g)
  OBVIOUS
<1>4. /\ IsSeq(gs) /\ Len(gs) = n /\ gs[n] = g
      /\ \A i \in 1 .. n - 1 : gs[i] = fs[i]
  BY <1>1, <1>2, <1>3, SeqSetTop
<1>5. LocalsBounded(r, gs)
  BY <1>1, <1>2, <1>4, LocalsAlike
<1>. QED
  BY <1>1, <1>3, <1>5

\* Nothing changes but what does not matter.
LEMMA RestAdjusts ==
  ASSUME NEW t, NEW m, Stacks(m), NEW r, Rest(m, r), NEW f, NEW g,
         \A kind : Ct(kind, g, t) = Ct(kind, f, t)
  PROVE  Adjusts(m, r, f, g, t)
<1>1. IsVm(r) /\ r.CatchStack = m.CatchStack /\ r.IsFatalFailure = m.IsFatalFailure /\ Stacks(r)
  BY RestSame DEF Rest
<1>2. Restored(r) = Restored(m) /\ Restored(m) \in Nat
  BY RestoredType DEF Rest, Restored
<1>3. ASSUME NEW n \in Int, NEW kind PROVE n - Ct(kind, f, t) + Ct(kind, g, t) = n
  <2>1. Ct(kind, g, t) = Ct(kind, f, t) /\ Ct(kind, f, t) \in Int
    BY CtType
  <2>. QED
    BY <2>1
<1>4. /\ Len(m.LoopCounterStack) \in Nat /\ Len(m.LoopSizeStack) \in Nat
      /\ Len(m.EvalFrameStack) \in Nat /\ Len(m.CurEvalFrameStack) \in Nat
      /\ Len(m.LocalsBaseStack) \in Nat /\ Len(m.SavedPosStack) \in Nat
      /\ Len(m.RestoreStack) \in Nat /\ Len(m.Scratch) \in Nat
  BY SeqLen DEF Stacks
<1>5. /\ Len(m.SavedPosStack) - Restored(m) \in Int
      /\ Len(m.CurEvalFrameStack) - Ct("calling", f, t) + Ct("calling", g, t) = Len(m.CurEvalFrameStack)
  BY <1>2, <1>3, <1>4
<1>6. /\ Len(r.LoopCounterStack) =
           Len(m.LoopCounterStack) - Ct("counting", f, t) + Ct("counting", g, t)
      /\ Len(r.LoopSizeStack) = Len(m.LoopSizeStack) - Ct("calling", f, t) + Ct("calling", g, t)
      /\ Len(r.EvalFrameStack) = Len(m.EvalFrameStack) - Ct("calling", f, t) + Ct("calling", g, t)
      /\ Len(r.LocalsBaseStack) = Len(m.LocalsBaseStack) - Ct("locals", f, t) + Ct("locals", g, t)
  BY <1>3, <1>4 DEF Rest
<1>7. Len(r.CurEvalFrameStack) =
        Len(m.CurEvalFrameStack) - Ct("calling", f, t) + Ct("calling", g, t)
                                 - Ct("context", f, t) + Ct("context", g, t)
  <2>1. PICK c \in Int : c = Len(m.CurEvalFrameStack)
    BY <1>4
  <2>2. c - Ct("calling", f, t) + Ct("calling", g, t) = c
    BY <1>5, <2>1
  <2>3. c - Ct("context", f, t) + Ct("context", g, t) = c
    BY <1>3
  <2>4. Len(r.CurEvalFrameStack) = c
    BY <2>1 DEF Rest
  <2>5. c - Ct("calling", f, t) + Ct("calling", g, t)
          - Ct("context", f, t) + Ct("context", g, t) = c
    <3>1. /\ Ct("calling", f, t) \in Int /\ Ct("calling", g, t) \in Int
          /\ Ct("context", f, t) \in Int /\ Ct("context", g, t) \in Int
      BY CtType
    <3>. QED
      BY <2>2, <2>3, <3>1
  <2>. QED
    BY <2>1, <2>4, <2>5
<1>8. Len(r.SavedPosStack) - Restored(r) =
        Len(m.SavedPosStack) - Restored(m) - Ct("peeking", f, t) + Ct("peeking", g, t)
  BY <1>2, <1>3, <1>5 DEF Rest
<1>9. /\ Len(r.RestoreStack) = Len(m.RestoreStack) - Ct("table", f, t) + Ct("table", g, t)
      /\ Len(r.Scratch) = Len(m.Scratch) - Ct("table", f, t) + Ct("table", g, t)
      /\ r.Scratch = m.Scratch /\ r.RestoreStack = m.RestoreStack
  BY <1>3, <1>4 DEF Rest
<1>. QED
  BY <1>1, <1>2, <1>6, <1>7, <1>8, <1>9 DEF Adjusts

LEMMA KeepsMoves ==
  ASSUME NEW t, NEW m, Good(m, t), NEW r, Keeps(m, r), NEW f, f = Last(m.FrameStack),
         NEW state, NEW g, g = In(f, state),
         \A kind : Ct(kind, g, t) = Ct(kind, f, t),
         WithLocals(g) <=> WithLocals(f), HasArgument(g) <=> HasArgument(f)
  PROVE  Moves(m, r, state, t)
<1>1. Rest(m, r) /\ r.FrameStack = m.FrameStack
  BY DEF Keeps
<1>2. Adjusts(m, r, f, g, t)
  BY <1>1, RestAdjusts DEF Good
<1>3. r.LocalsBaseStack = m.LocalsBaseStack /\ r.LocalValues = m.LocalValues
  BY <1>1 DEF Rest
<1>4. LocalsBounded(r, SetTop(m.FrameStack, g))
  BY <1>3, SameLocals
<1>. QED
  BY <1>1, <1>2, <1>4 DEF Moves

LEMMA UnmarkedMoves ==
  ASSUME NEW t, NEW m, Good(m, t), NEW r, Keeps(m, r), Unmarked(Last(m.FrameStack)), NEW state
  PROVE  Moves(m, r, state, t)
<1>1. PICK f, g : f = Last(m.FrameStack) /\ g = In(f, state)
  OBVIOUS
<1>2. IsFrame(f)
  BY <1>1, TopFrame DEF Good
<1>3. g.CallMethod = f.CallMethod /\ g.Nd = f.Nd
  BY <1>1, <1>2, InFields
<1>4. Unmarked(f) /\ Unmarked(g)
  BY <1>1, <1>3 DEF Unmarked
<1>5. /\ NoLocals(f) /\ NoLocals(g)
      /\ \A kind : Ct(kind, f, t) = 0 /\ Ct(kind, g, t) = 0
  BY <1>4, UnmarkedHasNone
<1>. QED
  BY <1>1, <1>5, KeepsMoves DEF NoLocals

\* Other parts than the frames and the loop counters are the same.
ButLoops(m, r) ==
  /\ IsVm(r) /\ r.FrameStack = m.FrameStack
  /\ r.EvalFrameStack = m.EvalFrameStack
  /\ r.CurEvalFrameStack = m.CurEvalFrameStack
  /\ r.LoopSizeStack = m.LoopSizeStack
  /\ r.LocalsBaseStack = m.LocalsBaseStack
  /\ r.LocalValues = m.LocalValues
  /\ r.CatchStack = m.CatchStack
  /\ r.IsFatalFailure = m.IsFatalFailure
  /\ r.SavedPosStack = m.SavedPosStack
  /\ r.RestoreStack = m.RestoreStack
  /\ r.Scratch = m.Scratch

LEMMA LoopMoves ==
  ASSUME NEW t, NEW m, Good(m, t), NEW r, ButLoops(m, r), IsSeq(r.LoopCounterStack),
         NEW f, f = Last(m.FrameStack), CountsOnly(f), NEW state, NEW g, g = In(f, state),
         Len(r.LoopCounterStack) =
           Len(m.LoopCounterStack) - Ct("counting", f, t) + Ct("counting", g, t)
  PROVE  Moves(m, r, state, t)
<1>1. IsFrame(f)
  BY TopFrame DEF Good
<1>2. g.CallMethod = f.CallMethod /\ g.Nd = f.Nd
  BY <1>1, InFields
<1>3. CountsOnly(g)
  BY <1>2 DEF CountsOnly
<1>4. /\ NoLocals(f) /\ NoLocals(g)
      /\ \A kind : kind # "counting" => Ct(kind, f, t) = 0 /\ Ct(kind, g, t) = 0
  BY <1>3, CountsOnlyHas
<1>5. Stacks(m) /\ Stacks(r)
  BY DEF Good, Stacks, ButLoops
<1>6. Restored(r) = Restored(m) /\ Restored(m) \in Nat
  BY <1>5, RestoredType DEF ButLoops, Restored
<1>7. /\ Len(m.LoopSizeStack) \in Nat
      /\ Len(m.EvalFrameStack) \in Nat /\ Len(m.CurEvalFrameStack) \in Nat
      /\ Len(m.LocalsBaseStack) \in Nat /\ Len(m.SavedPosStack) \in Nat
      /\ Len(m.RestoreStack) \in Nat /\ Len(m.Scratch) \in Nat
  BY <1>5, StacksLen
<1>8. ASSUME NEW n \in Int, NEW kind, kind # "counting"
       PROVE  n - Ct(kind, f, t) + Ct(kind, g, t) = n
  BY <1>4, <1>8
<1>9. /\ Len(m.SavedPosStack) - Restored(m) \in Int
       /\ Len(m.CurEvalFrameStack) - Ct("calling", f, t) + Ct("calling", g, t) = Len(m.CurEvalFrameStack)
  BY <1>6, <1>7, <1>8
<1>10. /\ Len(r.LoopSizeStack) = Len(m.LoopSizeStack) - Ct("calling", f, t) + Ct("calling", g, t)
       /\ Len(r.EvalFrameStack) = Len(m.EvalFrameStack) - Ct("calling", f, t) + Ct("calling", g, t)
       /\ Len(r.LocalsBaseStack) = Len(m.LocalsBaseStack) - Ct("locals", f, t) + Ct("locals", g, t)
  <2>1. /\ r.LoopSizeStack = m.LoopSizeStack
        /\ r.EvalFrameStack = m.EvalFrameStack
        /\ r.LocalsBaseStack = m.LocalsBaseStack
    BY DEF ButLoops
  <2>2. Len(m.LoopSizeStack) - Ct("calling", f, t) + Ct("calling", g, t) = Len(m.LoopSizeStack)
    BY <1>7, <1>8
  <2>3. Len(m.EvalFrameStack) - Ct("calling", f, t) + Ct("calling", g, t) = Len(m.EvalFrameStack)
    BY <1>7, <1>8
  <2>4. Len(m.LocalsBaseStack) - Ct("locals", f, t) + Ct("locals", g, t) = Len(m.LocalsBaseStack)
    BY <1>7, <1>8
  <2>. QED
    BY <2>1, <2>2, <2>3, <2>4
<1>11. Len(r.CurEvalFrameStack) =
         Len(m.CurEvalFrameStack) - Ct("calling", f, t) + Ct("calling", g, t)
                                  - Ct("context", f, t) + Ct("context", g, t)
  <2>1. PICK c \in Int : c = Len(m.CurEvalFrameStack)
    BY <1>7
  <2>2. c - Ct("calling", f, t) + Ct("calling", g, t) = c
    BY <1>9, <2>1
  <2>3. c - Ct("context", f, t) + Ct("context", g, t) = c
    BY <1>8
  <2>4. Len(r.CurEvalFrameStack) = c
    BY <2>1 DEF ButLoops
  <2>5. c - Ct("calling", f, t) + Ct("calling", g, t)
          - Ct("context", f, t) + Ct("context", g, t) = c
    <3>1. /\ Ct("calling", f, t) \in Int /\ Ct("calling", g, t) \in Int
          /\ Ct("context", f, t) \in Int /\ Ct("context", g, t) \in Int
      BY CtType
    <3>. QED
      BY <2>2, <2>3, <3>1
  <2>. QED
    BY <2>1, <2>4, <2>5
<1>12. Len(r.SavedPosStack) - Restored(r) =
         Len(m.SavedPosStack) - Restored(m) - Ct("peeking", f, t) + Ct("peeking", g, t)
  BY <1>6, <1>8, <1>9 DEF ButLoops
<1>13. /\ Len(r.RestoreStack) = Len(m.RestoreStack) - Ct("table", f, t) + Ct("table", g, t)
       /\ Len(r.Scratch) = Len(m.Scratch) - Ct("table", f, t) + Ct("table", g, t)
       /\ r.Scratch = m.Scratch /\ r.RestoreStack = m.RestoreStack
  BY <1>7, <1>8 DEF ButLoops
<1>14. IsVm(r) /\ r.CatchStack = m.CatchStack /\ r.IsFatalFailure = m.IsFatalFailure
  BY DEF ButLoops
<1>15. Adjusts(m, r, f, g, t)
  BY <1>5, <1>6, <1>10, <1>11, <1>12, <1>13, <1>14 DEF Adjusts
<1>16. LocalsBounded(r, SetTop(m.FrameStack, g))
  BY <1>4, SameLocals DEF ButLoops, NoLocals
<1>. QED
  BY <1>15, <1>16 DEF Moves, ButLoops

LEMMA LoopOps ==
  ASSUME NEW t, NEW m, Good(m, t), NEW v
  PROVE  /\ ButLoops(m, PushLoop(m, v)) /\ IsSeq(PushLoop(m, v).LoopCounterStack)
         /\ Len(PushLoop(m, v).LoopCounterStack) = Len(m.LoopCounterStack) + 1
         /\ ButLoops(m, PopLoop(m)) /\ IsSeq(PopLoop(m).LoopCounterStack)
         /\ Len(PopLoop(m).LoopCounterStack) = Len(m.LoopCounterStack) - 1
         /\ ButLoops(m, CountLoop(m, v)) /\ IsSeq(CountLoop(m, v).LoopCounterStack)
         /\ Len(CountLoop(m, v).LoopCounterStack) = Len(m.LoopCounterStack)
         /\ Len(m.LoopCounterStack) \in Nat /\ Len(m.LoopCounterStack) >= 1
<1>1. IsVm(m) /\ IsSeq(m.LoopCounterStack)
  BY DEF Good, Stacks
<1>2. Len(m.LoopCounterStack) >= 1 /\ Len(m.LoopCounterStack) \in Nat
  <2>1. Len(m.FrameStack) \in Nat
    BY TopFrame DEF Good
  <2>2. N("counting", m.FrameStack, t) \in Nat
    BY <2>1, OwnersFinite
  <2>3. Len(m.LoopCounterStack) = 1 + N("counting", m.FrameStack, t)
    BY DEF Good, Heights
  <2>. QED
    BY <2>2, <2>3
<1>3. ASSUME NEW ls, NEW r, r = [m EXCEPT !.LoopCounterStack = ls]
      PROVE  ButLoops(m, r) /\ r.LoopCounterStack = ls
  BY <1>1, <1>3 DEF IsVm, ButLoops
<1>4. ButLoops(m, PushLoop(m, v)) /\ PushLoop(m, v).LoopCounterStack = Append(m.LoopCounterStack, v)
  <2>1. PICK ls : ls = Append(m.LoopCounterStack, v)
    OBVIOUS
  <2>2. PushLoop(m, v) = [m EXCEPT !.LoopCounterStack = ls]
    BY <2>1 DEF PushLoop
  <2>. QED
    BY <1>3, <2>1, <2>2
<1>5. ButLoops(m, PopLoop(m)) /\ PopLoop(m).LoopCounterStack = Front(m.LoopCounterStack)
  <2>1. PICK ls : ls = Front(m.LoopCounterStack)
    OBVIOUS
  <2>2. PopLoop(m) = [m EXCEPT !.LoopCounterStack = ls]
    BY <2>1 DEF PopLoop
  <2>. QED
    BY <1>3, <2>1, <2>2
<1>6. PICK ls : ls = SetTop(m.LoopCounterStack, Last(m.LoopCounterStack) + v)
  OBVIOUS
<1>7. CountLoop(m, v) = [m EXCEPT !.LoopCounterStack = ls]
  BY <1>6 DEF CountLoop
<1>8. ButLoops(m, CountLoop(m, v)) /\ CountLoop(m, v).LoopCounterStack = ls
  BY <1>7, <1>3
<1>9. /\ IsSeq(PushLoop(m, v).LoopCounterStack) /\ IsSeq(PopLoop(m).LoopCounterStack)
      /\ IsSeq(CountLoop(m, v).LoopCounterStack)
      /\ Len(PushLoop(m, v).LoopCounterStack) = Len(m.LoopCounterStack) + 1
      /\ Len(PopLoop(m).LoopCounterStack) = Len(m.LoopCounterStack) - 1
      /\ Len(CountLoop(m, v).LoopCounterStack) = Len(m.LoopCounterStack)
  BY <1>1, <1>2, <1>4, <1>5, <1>6, <1>8, SeqAppend, SeqFront, SeqSetTop
<1>. QED
  BY <1>2, <1>4, <1>5, <1>8, <1>9

\* Reading and writing.
LEMMA ReadingKeeps ==
  ASSUME NEW m, IsVm(m), NEW n, NEW v, NEW action, NEW token, NEW lit
  PROVE  /\ Keeps(m, m)
         /\ Keeps(m, Skip(m, n)) /\ Keeps(m, ReadBits(m, n))
         /\ Keeps(m, ReadAction(m, action))
         /\ Keeps(m, Emit(m, token)) /\ Keeps(m, WriteAction(m, action))
         /\ Keeps(m, [m EXCEPT !.LastReadValue = v])
         /\ Keeps(m, ReadHeaderValue(m, lit).m)
<1>1. Keeps(m, m)
  BY DEF Keeps, Rest
<1>2. Keeps(m, Skip(m, n))
  BY DEF IsVm, Keeps, Rest, Skip
<1>3. Keeps(m, ReadBits(m, n))
  BY <1>2 DEF IsVm, Keeps, Rest, ReadBits
<1>4. Keeps(m, ReadBlockEnter(m)) /\ Keeps(m, ReadBlockExit(m))
  <2>1. PICK q : q = Skip(m, 1)
    OBVIOUS
  <2>2. Keeps(m, q) /\ IsVm(q)
    BY <2>1 DEF IsVm, Keeps, Rest, Skip
  <2>3. \A e : Keeps(q, [q EXCEPT !.ReadPos.eobs = e])
    BY <2>2 DEF IsVm, Keeps, Rest
  <2>4. PICK e : e = Append(q.ReadPos.eobs, q.ReadPos.at + NextValue(m))
    OBVIOUS
  <2>5. ReadBlockEnter(m) = [q EXCEPT !.ReadPos.eobs = e]
    BY <2>1, <2>4 DEF ReadBlockEnter
  <2>6. Keeps(m, ReadBlockEnter(m))
    BY <2>2, <2>3, <2>5 DEF Keeps, Rest
  <2>7. Keeps(m, ReadBlockExit(m))
    BY DEF IsVm, Keeps, Rest, ReadBlockExit
  <2>. QED
    BY <2>6, <2>7
<1>5. Keeps(m, ReadAction(m, action))
  BY <1>1, <1>4 DEF ReadAction
<1>6. Keeps(m, Emit(m, token))
  BY <1>1 DEF IsVm, Keeps, Rest, Emit
<1>7. Keeps(m, Emit(m, << "block.enter", 0 >>)) /\ Keeps(m, Emit(m, << "block.exit", 0 >>))
  BY <1>1 DEF IsVm, Keeps, Rest, Emit
<1>8. Keeps(m, WriteAction(m, action))
  BY <1>1, <1>7 DEF WriteAction
<1>9. Keeps(m, [m EXCEPT !.LastReadValue = v])
  BY DEF IsVm, Keeps, Rest
<1>10. Keeps(m, ReadHeaderValue(m, lit).m)
  <2>1. Keeps(m, Skip(m, 1))
    BY DEF IsVm, Keeps, Rest, Skip
  <2>2. Keeps(m, [m EXCEPT !.HeaderIndex = @ + 1])
    BY DEF IsVm, Keeps, Rest
  <2>3. Keeps(m, ReadHeaderByte(m, lit).m)
    BY <1>1, <2>1 DEF ReadHeaderByte
  <2>4. Keeps(m, ReadHeaderInt(m, lit).m)
    BY <1>1, <2>2 DEF ReadHeaderInt
  <2>. QED
    BY <2>3, <2>4 DEF ReadHeaderValue
<1>. QED
  BY <1>1, <1>2, <1>3, <1>5, <1>6, <1>8, <1>9, <1>10

LEMMA KeepsTrans ==
  ASSUME NEW m, NEW q, NEW r, Keeps(m, q), Keeps(q, r)
  PROVE  Keeps(m, r)
BY DEF Keeps, Rest

---------------------------------------------------------------------------
(***************************************************************************)
(* The steps of methods that leave the stacks alone.                       *)
(***************************************************************************)

Ok(m, t) == Failed(m) \/ Good(m, t)

LEMMA UnmarkedSteps ==
  ASSUME NEW t, NEW m, Good(m, t), Unmarked(Last(m.FrameStack)), NEW r, Keeps(m, r)
  PROVE  /\ \A state : Ok(Goto(r, state), t)
         /\ \A state, mod, nd : \A method \in Inner : Ok(Call(r, state, method, mod, nd), t)
         /\ \A v : Ok(Return(r, v), t)
         /\ Ok(Throw(r), t) /\ Ok(Fail(r), t)
<1>1. PICK f : f = Last(m.FrameStack)
  OBVIOUS
<1>2. f.CallMethod \in Inner /\ ~Evaluates(f, Headers)
  BY <1>1 DEF Unmarked, Inner, Evaluates
<1>3. Quiet(m.FrameStack)
  BY <1>1, <1>2, QuietTop
<1>4. \A state : Moves(m, r, state, t)
  BY UnmarkedMoves
<1>5. ASSUME NEW state PROVE Good(Goto(r, state), t)
  BY <1>1, <1>2, <1>3, <1>4, GotoGood
<1>6. ASSUME NEW state, NEW mod, NEW nd, NEW method \in Inner
      PROVE  Good(Call(r, state, method, mod, nd), t)
  BY <1>1, <1>2, <1>3, <1>4, CallGood
<1>7. ASSUME NEW v PROVE Good(Return(r, v), t)
  BY <1>1, <1>2, <1>3, <1>4, ReturnGood
<1>8. Failed(Throw(r)) /\ Failed(Fail(r))
  <2>1. IsVm(r) /\ r.FrameStack = m.FrameStack /\ r.CatchStack = m.CatchStack
    BY DEF Keeps, Rest
  <2>. QED
    BY <1>3, <2>1, ThrowFails, FailFails
<1>. QED
  BY <1>5, <1>6, <1>7, <1>8 DEF Ok

\* Where the frame on top is one that is evaluated.
LEMMA Evaluated ==
  ASSUME NEW types, Evaluating(types)
  PROVE  /\ Last(vm.FrameStack).CallMethod = "Eval" /\ Last(vm.FrameStack).Nd = Nd
         /\ Nd.type \in types /\ Last(vm.FrameStack).CallState = Frame.CallState
BY DEF Evaluating, Running, Frame, Nd

\* Methods that only call others.
Passing ==
  \/ EvalError \/ EvalNotImplemented \/ EvalLastRead \/ EvalLocal
  \/ EvalPeek \/ EvalRead \/ EvalNot \/ EvalAndOr
  \/ EvalLoopUnbounded \/ EvalIf \/ EvalSwitch \/ EvalLiteralUse \/ EvalBlockNode

PassingTypes ==
  {"Error", "Opcode", "LiteralDef", "LiteralActionDef", "LastRead", "Void", "Local",
   "Peek", "Read", "Not", "And", "Or", "LoopUnbounded", "IfThen", "IfThenElse", "Switch",
   "LiteralUse", "LiteralActionUse", "Block"}

LEMMA PassingTop == Passing => Unmarked(Last(vm.FrameStack))
<1>1. Passing => Evaluating(PassingTypes)
  BY DEF Passing, PassingTypes, Evaluating, EvalError, EvalNotImplemented, EvalLastRead, EvalLocal,
         EvalPeek, EvalRead, EvalNot, EvalAndOr, EvalLoopUnbounded, EvalIf, EvalSwitch,
         EvalLiteralUse, EvalBlockNode
<1>2. Evaluating(PassingTypes) => Unmarked(Last(vm.FrameStack))
  BY Evaluated DEF Unmarked, PassingTypes, Headers, Bitwise2
<1>. QED
  BY <1>1, <1>2

LEMMA PassingOk ==
  ASSUME Good(vm, task), Passing PROVE Ok(vm', task)
<1>1. Keeps(vm, vm)
  BY DEF Good, Keeps, Rest
<1>2. /\ \A state : Ok(Goto(vm, state), task)
      /\ \A state, mod, nd : \A method \in Inner : Ok(Call(vm, state, method, mod, nd), task)
      /\ \A v : Ok(Return(vm, v), task)
      /\ Ok(Throw(vm), task) /\ Ok(Fail(vm), task)
  BY <1>1, PassingTop, UnmarkedSteps
<1>3. "Eval" \in Inner /\ "Peek" \in Inner /\ "EvalBlock" \in Inner
  BY DEF Inner
<1>4. \A state, kid : Ok(EvalKid(vm, state, kid), task)
  BY <1>2, <1>3 DEF EvalKid
<1>5. CASE EvalError \/ EvalNotImplemented
  BY <1>2, <1>5 DEF EvalError, EvalNotImplemented, Becomes
<1>6. CASE EvalLastRead \/ EvalLocal
  BY <1>2, <1>6 DEF EvalLastRead, EvalLocal, Becomes
<1>7. CASE EvalPeek \/ EvalRead
  BY <1>2, <1>3, <1>4, <1>7 DEF EvalPeek, EvalRead, Becomes
<1>8. CASE EvalNot \/ EvalAndOr
  BY <1>2, <1>4, <1>8 DEF EvalNot, EvalAndOr, Becomes
<1>9. CASE EvalLoopUnbounded \/ EvalIf
  BY <1>2, <1>4, <1>9 DEF EvalLoopUnbounded, EvalIf, Becomes
<1>10. CASE EvalSwitch
  BY <1>2, <1>3, <1>4, <1>10 DEF EvalSwitch, Becomes
<1>11. CASE EvalLiteralUse
  BY <1>2, <1>3, <1>11 DEF EvalLiteralUse, Becomes
<1>12. CASE EvalBlockNode
  BY <1>2, <1>3, <1>12 DEF EvalBlockNode, Becomes
<1>. QED
  BY <1>5, <1>6, <1>7, <1>8, <1>9, <1>10, <1>11, <1>12 DEF Passing

\* Methods that read and write.
Copying ==
  \/ EvalCallback \/ EvalInteger \/ EvalFormat \/ EvalBinary \/ EvalMap \/ EvalCase
  \/ EvalBlock \/ GetFile

CopyingTypes ==
  {"Callback", "BinaryEval", "Map", "Case"} \cup IntegerNodes \cup Formats

LEMMA CopyingTop == Copying => Unmarked(Last(vm.FrameStack))
<1>1. Copying => Evaluating(CopyingTypes) \/ Running("EvalBlock") \/ Running("GetFile")
  BY DEF Copying, CopyingTypes, Evaluating, EvalCallback, EvalInteger, EvalFormat, EvalBinary,
         EvalMap, EvalCase, EvalBlock, GetFile
<1>2. Evaluating(CopyingTypes) => Unmarked(Last(vm.FrameStack))
  BY Evaluated DEF Unmarked, CopyingTypes, IntegerNodes, Formats, Headers, Bitwise2
<1>3. Running("EvalBlock") \/ Running("GetFile") => Unmarked(Last(vm.FrameStack))
  BY DEF Running, Frame, Unmarked
<1>. QED
  BY <1>1, <1>2, <1>3

\* What a method may do after reading and writing.
LEMMA CopyingSteps ==
  ASSUME Good(vm, task), Copying, NEW r, Keeps(vm, r)
  PROVE  /\ \A state : Ok(Goto(r, state), task)
         /\ \A state, mod, nd : \A method \in Inner : Ok(Call(r, state, method, mod, nd), task)
         /\ \A v : Ok(Return(r, v), task)
         /\ Ok(Throw(r), task) /\ Ok(Fail(r), task)
<1>1. Unmarked(Last(vm.FrameStack))
  BY CopyingTop
<1>. QED
  BY <1>1, UnmarkedSteps

LEMMA CallbackOk == ASSUME Good(vm, task), EvalCallback PROVE Ok(vm', task)
<1>1. PICK q : q = ReadAction(vm, Nd.name)
  OBVIOUS
<1>2. IsVm(vm)
  BY DEF Good
<1>3. Keeps(vm, q) /\ IsVm(q)
  <2>1. Keeps(vm, q)
    BY <1>1, <1>2, ReadingKeeps
  <2>. QED
    BY <2>1 DEF Keeps, Rest
<1>4. PICK r : r = WriteAction(q, Nd.name)
  OBVIOUS
<1>5. Keeps(vm, r)
  BY <1>3, <1>4, ReadingKeeps, KeepsTrans
<1>6. Ok(Return(r, vm.LastReadValue), task)
  BY <1>5, CopyingSteps DEF Copying
<1>. QED
  BY <1>1, <1>4, <1>6 DEF EvalCallback, Becomes

LEMMA IntegerOk == ASSUME Good(vm, task), EvalInteger PROVE Ok(vm', task)
<1>1. PICK v : v = IF HasRead THEN Nd.val ELSE vm.LastReadValue
  OBVIOUS
<1>2. PICK r : r = [vm EXCEPT !.LastReadValue = v]
  OBVIOUS
<1>3. Keeps(vm, r)
  BY <1>2, ReadingKeeps DEF Good
<1>4. Ok(Return(r, Nd.val), task)
  BY <1>3, CopyingSteps DEF Copying
<1>. QED
  BY <1>1, <1>2, <1>4 DEF EvalInteger, Becomes

\* Reading something: the input goes on, and what was read is kept.
LEMMA ReadKeeps ==
  ASSUME NEW m, IsVm(m), NEW n, NEW v
  PROVE  /\ Keeps(m, [Skip(m, n) EXCEPT !.LastReadValue = v])
         /\ Keeps(m, [ReadBits(m, n) EXCEPT !.LastReadValue = v])
<1>1. PICK q, p : q = Skip(m, n) /\ p = ReadBits(m, n)
  OBVIOUS
<1>2. Keeps(m, q) /\ Keeps(m, p)
  BY <1>1, ReadingKeeps
<1>3. IsVm(q) /\ IsVm(p)
  BY <1>2 DEF Keeps, Rest
<1>4. Keeps(q, [q EXCEPT !.LastReadValue = v]) /\ Keeps(p, [p EXCEPT !.LastReadValue = v])
  BY <1>3, ReadingKeeps
<1>5. Keeps(m, [q EXCEPT !.LastReadValue = v]) /\ Keeps(m, [p EXCEPT !.LastReadValue = v])
  BY <1>2, <1>4, KeepsTrans
<1>. QED
  BY <1>1, <1>5

LEMMA FormatOk == ASSUME Good(vm, task), EvalFormat PROVE Ok(vm', task)
<1>1. PICK r : r = CASE ~HasRead -> vm
                     [] HasRead /\ Nd.type = "Bit" ->
                          [ReadBits(vm, 1) EXCEPT !.LastReadValue = BitAt(vm.ReadPos, 1)]
                     [] HasRead /\ Nd.type # "Bit" ->
                          [Skip(vm, 1) EXCEPT !.LastReadValue = NextValue(vm)]
  OBVIOUS
<1>2. PICK w : w = IF HasWrite THEN Emit(r, << Nd.type, r.LastReadValue >>) ELSE r
  OBVIOUS
<1>3. vm' = Return(w, r.LastReadValue)
  BY <1>1, <1>2 DEF EvalFormat, Becomes
<1>4. IsVm(vm)
  BY DEF Good
<1>5. /\ Keeps(vm, vm)
      /\ Keeps(vm, [ReadBits(vm, 1) EXCEPT !.LastReadValue = BitAt(vm.ReadPos, 1)])
      /\ Keeps(vm, [Skip(vm, 1) EXCEPT !.LastReadValue = NextValue(vm)])
  BY <1>4, ReadKeeps, ReadingKeeps
<1>6. Keeps(vm, r)
  BY <1>1, <1>5, Zenon
<1>7. IsVm(r)
  BY <1>6 DEF Keeps, Rest
<1>8. Keeps(r, r) /\ Keeps(r, Emit(r, << Nd.type, r.LastReadValue >>))
  BY <1>7, ReadingKeeps
<1>9. Keeps(vm, w)
  BY <1>2, <1>6, <1>8, KeepsTrans
<1>. QED
  BY <1>3, <1>9, CopyingSteps DEF Copying

LEMMA BinaryOk == ASSUME Good(vm, task), EvalBinary PROVE Ok(vm', task)
<1>1. PICK r : r = IF HasRead THEN ReadBinary(vm, Nd.kids[1]) ELSE vm
  OBVIOUS
<1>2. PICK w : w = Emit(r, << "BinaryEval", r.LastReadValue >>)
  OBVIOUS
<1>3. vm' \in {Return(r, r.LastReadValue), Return(w, r.LastReadValue), Fail(r)}
  BY <1>1, <1>2 DEF EvalBinary, Becomes
<1>4. IsVm(vm)
  BY DEF Good
<1>5. PICK d : d = Decode(Nd.kids[1], [i \in 1 .. MaxBits |-> BitAt(vm.ReadPos, i)])
  OBVIOUS
<1>6. /\ Keeps(vm, vm)
      /\ Keeps(vm, [ReadBits(vm, d.used) EXCEPT !.LastReadValue = d.nd.val])
      /\ Keeps(vm, [Skip(vm, 1) EXCEPT !.LastReadValue = NextValue(vm)])
  BY <1>4, ReadKeeps, ReadingKeeps
<1>7. Keeps(vm, ReadBinary(vm, Nd.kids[1]))
  BY <1>5, <1>6 DEF ReadBinary
<1>8. Keeps(vm, r)
  BY <1>1, <1>6, <1>7
<1>9. IsVm(r)
  BY <1>8 DEF Keeps, Rest
<1>10. Keeps(r, w)
  BY <1>2, <1>9, ReadingKeeps
<1>11. Keeps(vm, w)
  BY <1>8, <1>10, KeepsTrans
<1>12. /\ Ok(Return(r, r.LastReadValue), task) /\ Ok(Fail(r), task)
       /\ Ok(Return(w, r.LastReadValue), task)
  BY <1>8, <1>11, CopyingSteps DEF Copying
<1>. QED
  BY <1>3, <1>12

LEMMA MapOk == ASSUME Good(vm, task), EvalMap \/ EvalCase PROVE Ok(vm', task)
<1>1. PICK r : r = [vm EXCEPT !.LastReadValue = ReturnValue]
  OBVIOUS
<1>2. Keeps(vm, vm) /\ Keeps(vm, r)
  BY <1>1, ReadingKeeps DEF Good
<1>3. "Eval" \in Inner /\ "Peek" \in Inner
  BY DEF Inner
<1>4. /\ \A state, mod, nd : \A method \in Inner : Ok(Call(vm, state, method, mod, nd), task)
  BY <1>2, CopyingSteps DEF Copying
<1>5. /\ \A state : Ok(Goto(r, state), task)
      /\ \A state, mod, nd : \A method \in Inner : Ok(Call(r, state, method, mod, nd), task)
      /\ \A v : Ok(Return(r, v), task)
  BY <1>2, CopyingSteps DEF Copying
<1>6. CASE EvalMap
  BY <1>1, <1>3, <1>4, <1>5, <1>6 DEF EvalMap, EvalKid, Becomes
<1>7. CASE EvalCase
  BY <1>1, <1>3, <1>4, <1>5, <1>7 DEF EvalCase, EvalKid, Becomes
<1>. QED
  BY <1>6, <1>7

LEMMA BlockOk == ASSUME Good(vm, task), EvalBlock PROVE Ok(vm', task)
<1>1. ASSUME NEW action PROVE Keeps(vm, WriteAction(ReadAction(vm, action), action))
  <2>1. PICK q : q = ReadAction(vm, action)
    OBVIOUS
  <2>2. IsVm(vm)
    BY DEF Good
  <2>3. Keeps(vm, q) /\ IsVm(q)
    <3>1. Keeps(vm, q)
      BY <2>1, <2>2, ReadingKeeps
    <3>. QED
      BY <3>1 DEF Keeps, Rest
  <2>4. Keeps(q, WriteAction(q, action))
    BY <2>3, ReadingKeeps
  <2>. QED
    BY <2>1, <2>3, <2>4, KeepsTrans
<1>2. PICK r, w : /\ r = WriteAction(ReadAction(vm, "block.enter"), "block.enter")
                  /\ w = WriteAction(ReadAction(vm, "block.exit"), "block.exit")
  OBVIOUS
<1>3. Keeps(vm, r) /\ Keeps(vm, w)
  BY <1>1, <1>2
<1>4. "Eval" \in Inner
  BY DEF Inner
<1>5. \A state, mod, nd : \A method \in Inner : Ok(Call(r, state, method, mod, nd), task)
  BY <1>3, CopyingSteps DEF Copying
<1>6. \A v : Ok(Return(w, v), task)
  BY <1>3, CopyingSteps DEF Copying
<1>. QED
  BY <1>2, <1>4, <1>5, <1>6 DEF EvalBlock, Becomes

LEMMA GetFileOk == ASSUME Good(vm, task), GetFile PROVE Ok(vm', task)
<1>1. PICK w : w = Emit(vm, << "eof", 0 >>)
  OBVIOUS
<1>2. Keeps(vm, vm) /\ Keeps(vm, w)
  BY <1>1, ReadingKeeps DEF Good
<1>3. "Eval" \in Inner
  BY DEF Inner
<1>4. \A state, mod, nd : \A method \in Inner : Ok(Call(vm, state, method, mod, nd), task)
  BY <1>2, CopyingSteps DEF Copying
<1>5. \A v : Ok(Return(w, v), task)
  BY <1>2, CopyingSteps DEF Copying
<1>. QED
  BY <1>1, <1>3, <1>4, <1>5 DEF GetFile, Becomes

LEMMA CopyingOk == ASSUME Good(vm, task), Copying PROVE Ok(vm', task)
BY CallbackOk, IntegerOk, FormatOk, BinaryOk, MapOk, BlockOk, GetFileOk DEF Copying

---------------------------------------------------------------------------
(***************************************************************************)
(* The steps of methods that count.                                        *)
(***************************************************************************)

\* How much the loop counters grow when f goes on in a state.
Grows(f, state, t) == Ct("counting", In(f, state), t) - Ct("counting", f, t)

LEMMA CountingSteps ==
  ASSUME NEW t, NEW m, Good(m, t), Quiet(m.FrameStack), NEW f, f = Last(m.FrameStack),
         CountsOnly(f), NEW r, ButLoops(m, r), IsSeq(r.LoopCounterStack),
         NEW state, Len(r.LoopCounterStack) = Len(m.LoopCounterStack) + Grows(f, state, t)
  PROVE  /\ Ok(Goto(r, state), t)
         /\ \A mod, nd : \A method \in Inner : Ok(Call(r, state, method, mod, nd), t)
         /\ state = "Enter" => \A v : Good(Return(r, v), t)
<1>1. f.CallMethod \in Inner
  BY DEF CountsOnly, Inner
<1>2. PICK g : g = In(f, state)
  OBVIOUS
<1>3. Len(r.LoopCounterStack) =
        Len(m.LoopCounterStack) - Ct("counting", f, t) + Ct("counting", g, t)
  <2>1. Len(m.LoopCounterStack) \in Nat
    BY SeqLen DEF Good, Stacks
  <2>2. Ct("counting", f, t) \in Int /\ Ct("counting", g, t) \in Int
    BY CtType
  <2>. QED
    BY <1>2, <2>1, <2>2 DEF Grows
<1>4. Moves(m, r, state, t)
  BY <1>2, <1>3, LoopMoves
<1>5. Good(Goto(r, state), t)
  BY <1>1, <1>4, GotoGood
<1>6. ASSUME NEW mod, NEW nd, NEW method \in Inner
      PROVE  Good(Call(r, state, method, mod, nd), t)
  BY <1>1, <1>4, CallGood
<1>7. state = "Enter" => \A v : Good(Return(r, v), t)
  BY <1>1, <1>4, ReturnGood
<1>. QED
  BY <1>5, <1>6, <1>7 DEF Ok

\* The same for the three changes of the counters.
LEMMA CountingMoves ==
  ASSUME NEW t, NEW m, Good(m, t), Quiet(m.FrameStack), NEW f, f = Last(m.FrameStack),
         CountsOnly(f), NEW state
  PROVE  /\ Grows(f, state, t) = 0 =>
              /\ Ok(Goto(m, state), t)
              /\ \A v : Ok(Goto(CountLoop(m, v), state), t)
              /\ \A mod, nd : \A method \in Inner : Ok(Call(m, state, method, mod, nd), t)
              /\ \A v, mod, nd : \A method \in Inner :
                   Ok(Call(CountLoop(m, v), state, method, mod, nd), t)
         /\ Grows(f, state, t) = 1 => \A v : Ok(Goto(PushLoop(m, v), state), t)
         /\ Grows(f, state, t) = -1 /\ state = "Enter" => \A v : Good(Return(PopLoop(m), v), t)
<1>1. /\ ButLoops(m, m) /\ IsSeq(m.LoopCounterStack) /\ Len(m.LoopCounterStack) \in Nat
  <2>1. IsVm(m) /\ Stacks(m)
    BY DEF Good
  <2>. QED
    BY <2>1, SeqLen DEF ButLoops, Stacks
<1>2. \A v : /\ ButLoops(m, PushLoop(m, v)) /\ IsSeq(PushLoop(m, v).LoopCounterStack)
             /\ Len(PushLoop(m, v).LoopCounterStack) = Len(m.LoopCounterStack) + 1
             /\ ButLoops(m, PopLoop(m)) /\ IsSeq(PopLoop(m).LoopCounterStack)
             /\ Len(PopLoop(m).LoopCounterStack) = Len(m.LoopCounterStack) - 1
             /\ ButLoops(m, CountLoop(m, v)) /\ IsSeq(CountLoop(m, v).LoopCounterStack)
             /\ Len(CountLoop(m, v).LoopCounterStack) = Len(m.LoopCounterStack)
  BY LoopOps
<1>3. ASSUME Grows(f, state, t) = 0
      PROVE  /\ Ok(Goto(m, state), t)
             /\ \A mod, nd : \A method \in Inner : Ok(Call(m, state, method, mod, nd), t)
  <2>1. Len(m.LoopCounterStack) = Len(m.LoopCounterStack) + Grows(f, state, t)
    BY <1>1, <1>3
  <2>. QED
    BY <1>1, <2>1, CountingSteps
<1>4. ASSUME Grows(f, state, t) = 0, NEW v
      PROVE  /\ Ok(Goto(CountLoop(m, v), state), t)
             /\ \A mod, nd : \A method \in Inner :
                  Ok(Call(CountLoop(m, v), state, method, mod, nd), t)
  <2>1. PICK r : r = CountLoop(m, v)
    OBVIOUS
  <2>2. ButLoops(m, r) /\ IsSeq(r.LoopCounterStack)
    BY <1>2, <2>1
  <2>3. Len(r.LoopCounterStack) = Len(m.LoopCounterStack) + Grows(f, state, t)
    BY <1>1, <1>2, <1>4, <2>1
  <2>4. /\ Ok(Goto(r, state), t)
        /\ \A mod, nd : \A method \in Inner : Ok(Call(r, state, method, mod, nd), t)
    BY <2>2, <2>3, CountingSteps
  <2>. QED
    BY <2>1, <2>4
<1>5. ASSUME Grows(f, state, t) = 1, NEW v PROVE Ok(Goto(PushLoop(m, v), state), t)
  <2>1. PICK r : r = PushLoop(m, v)
    OBVIOUS
  <2>2. /\ ButLoops(m, r) /\ IsSeq(r.LoopCounterStack)
        /\ Len(r.LoopCounterStack) = Len(m.LoopCounterStack) + Grows(f, state, t)
    BY <1>2, <1>5, <2>1
  <2>3. Ok(Goto(r, state), t)
    BY <2>2, CountingSteps
  <2>. QED
    BY <2>1, <2>3
<1>6. ASSUME Grows(f, state, t) = -1, state = "Enter", NEW v PROVE Good(Return(PopLoop(m), v), t)
  <2>1. PICK r : r = PopLoop(m)
    OBVIOUS
  <2>2. /\ ButLoops(m, r) /\ IsSeq(r.LoopCounterStack)
        /\ Len(r.LoopCounterStack) = Len(m.LoopCounterStack) - 1
    BY <1>2, <2>1
  <2>3. Len(r.LoopCounterStack) = Len(m.LoopCounterStack) + Grows(f, state, t)
    BY <1>1, <1>6, <2>2
  <2>4. Good(Return(r, v), t)
    BY <1>6, <2>2, <2>3, CountingSteps
  <2>. QED
    BY <2>1, <2>4
<1>. QED
  BY <1>3, <1>4, <1>5, <1>6

LEMMA GrowsBy ==
  ASSUME NEW f, IsFrame(f), CountsOnly(f), NEW t
  PROVE  /\ f.CallState = "Enter" => Grows(f, "Loop", t) = 1
         /\ f.CallState = "Exit" => Grows(f, "Enter", t) = -1
         /\ f.CallState = "Loop" =>
              /\ Grows(f, "Loop", t) = 0 /\ Grows(f, "Exit", t) = 0
              /\ f.Nd.type # "Loop" => Grows(f, "Step2", t) = 0
         /\ f.CallState = "Step2" /\ f.Nd.type # "Loop" => Grows(f, "Loop", t) = 0
         /\ f.Nd.type = "Loop" /\ f.CallState = "Enter" => Grows(f, "Step2", t) = 0
         /\ f.Nd.type = "Loop" /\ f.CallState = "Step2" => Grows(f, "Loop", t) = 1
<1>1. ASSUME NEW state
      PROVE  /\ CountsOnly(In(f, state)) /\ In(f, state).CallState = state
             /\ In(f, state).Nd = f.Nd
  <2>1. PICK g : g = In(f, state)
    OBVIOUS
  <2>2. /\ g.CallMethod = f.CallMethod /\ g.CallState = state /\ g.Nd = f.Nd
    BY <2>1, InFields
  <2>. QED
    BY <2>1, <2>2 DEF CountsOnly
<1>2. /\ f.CallState = "Enter" => Ct("counting", f, t) = 0
      /\ f.CallState \in {"Loop", "Exit"} => Ct("counting", f, t) = 1
      /\ f.CallState = "Step2" /\ f.Nd.type # "Loop" => Ct("counting", f, t) = 1
      /\ f.CallState = "Step2" /\ f.Nd.type = "Loop" => Ct("counting", f, t) = 0
  BY CountsOnlyHas
<1>3. /\ Ct("counting", In(f, "Enter"), t) = 0
      /\ Ct("counting", In(f, "Loop"), t) = 1 /\ Ct("counting", In(f, "Exit"), t) = 1
      /\ f.Nd.type # "Loop" => Ct("counting", In(f, "Step2"), t) = 1
      /\ f.Nd.type = "Loop" => Ct("counting", In(f, "Step2"), t) = 0
  BY <1>1, CountsOnlyHas
<1>. QED
  BY <1>2, <1>3 DEF Grows

Counted == EvalWrite \/ EvalSequence \/ EvalLoop

LEMMA CountedOk == ASSUME Good(vm, task), Counted PROVE Ok(vm', task)
<1>1. PICK f : f = Last(vm.FrameStack)
  OBVIOUS
<1>2. Evaluating({"Write", "Sequence", "Loop"})
  BY DEF Counted, EvalWrite, EvalSequence, EvalLoop, Evaluating
<1>3. /\ f.CallMethod = "Eval" /\ f.Nd = Nd /\ f.CallState = Frame.CallState
      /\ Nd.type \in {"Write", "Sequence", "Loop"}
  BY <1>1, <1>2, Evaluated
<1>4. CountsOnly(f) /\ f.CallMethod \in Inner /\ ~Evaluates(f, Headers)
  BY <1>3 DEF CountsOnly, Inner, Evaluates, Headers
<1>5. Quiet(vm.FrameStack)
  BY <1>1, <1>4, QuietTop
<1>6. ASSUME NEW state
      PROVE  /\ Grows(f, state, task) = 0 =>
                  /\ Ok(Goto(vm, state), task)
                  /\ \A v : Ok(Goto(CountLoop(vm, v), state), task)
                  /\ \A mod, nd : \A method \in Inner : Ok(Call(vm, state, method, mod, nd), task)
                  /\ \A v, mod, nd : \A method \in Inner :
                       Ok(Call(CountLoop(vm, v), state, method, mod, nd), task)
             /\ Grows(f, state, task) = 1 => \A v : Ok(Goto(PushLoop(vm, v), state), task)
             /\ Grows(f, state, task) = -1 /\ state = "Enter"
                  => \A v : Good(Return(PopLoop(vm), v), task)
  BY <1>1, <1>4, <1>5, CountingMoves
<1>7. IsFrame(f)
  BY <1>1, TopFrame DEF Good
<1>8. /\ f.CallState = "Enter" => Grows(f, "Loop", task) = 1
      /\ f.CallState = "Exit" => Grows(f, "Enter", task) = -1
      /\ f.CallState = "Loop" =>
           /\ Grows(f, "Loop", task) = 0 /\ Grows(f, "Exit", task) = 0
           /\ f.Nd.type # "Loop" => Grows(f, "Step2", task) = 0
      /\ f.CallState = "Step2" /\ f.Nd.type # "Loop" => Grows(f, "Loop", task) = 0
      /\ f.Nd.type = "Loop" /\ f.CallState = "Enter" => Grows(f, "Step2", task) = 0
      /\ f.Nd.type = "Loop" /\ f.CallState = "Step2" => Grows(f, "Loop", task) = 1
  BY <1>4, <1>7, GrowsBy
<1>9. "Eval" \in Inner
  BY DEF Inner
<1>10. CASE EvalWrite
  <2>1. f.Nd.type = "Write"
    BY <1>3, <1>10 DEF EvalWrite, Evaluating
  <2>2. CASE At("Enter")
    BY <1>3, <1>6, <1>8, <1>10, <2>2 DEF EvalWrite, At, Becomes
  <2>3. CASE At("Loop")
    BY <1>3, <1>6, <1>8, <1>9, <1>10, <2>1, <2>3 DEF EvalWrite, At, Becomes
  <2>4. CASE At("Step2")
    BY <1>3, <1>6, <1>8, <1>9, <1>10, <2>1, <2>4 DEF EvalWrite, At, Becomes
  <2>5. CASE At("Exit")
    BY <1>3, <1>6, <1>8, <1>10, <2>5 DEF EvalWrite, At, Becomes, Ok
  <2>. QED
    BY <1>10, <2>2, <2>3, <2>4, <2>5 DEF EvalWrite
<1>11. CASE EvalSequence
  <2>1. f.Nd.type = "Sequence"
    BY <1>3, <1>11 DEF EvalSequence, Evaluating
  <2>2. CASE At("Enter")
    BY <1>3, <1>6, <1>8, <1>11, <2>2 DEF EvalSequence, At, Becomes
  <2>3. CASE At("Loop")
    BY <1>3, <1>6, <1>8, <1>9, <1>11, <2>1, <2>3 DEF EvalSequence, EvalKid, At, Becomes
  <2>4. CASE At("Exit")
    BY <1>3, <1>6, <1>8, <1>11, <2>4 DEF EvalSequence, At, Becomes, Ok
  <2>. QED
    BY <1>11, <2>2, <2>3, <2>4 DEF EvalSequence
<1>12. CASE EvalLoop
  <2>1. f.Nd.type = "Loop"
    BY <1>3, <1>12 DEF EvalLoop, Evaluating
  <2>2. CASE At("Enter")
    BY <1>3, <1>6, <1>8, <1>9, <1>12, <2>1, <2>2 DEF EvalLoop, EvalKid, At, Becomes
  <2>3. CASE At("Step2")
    BY <1>3, <1>6, <1>8, <1>12, <2>1, <2>3 DEF EvalLoop, At, Becomes
  <2>4. CASE At("Loop")
    BY <1>3, <1>6, <1>8, <1>9, <1>12, <2>4 DEF EvalLoop, EvalKid, At, Becomes
  <2>5. CASE At("Exit")
    BY <1>3, <1>6, <1>8, <1>12, <2>5 DEF EvalLoop, At, Becomes, Ok
  <2>. QED
    BY <1>12, <2>2, <2>3, <2>4, <2>5 DEF EvalLoop
<1>. QED
  BY <1>10, <1>11, <1>12 DEF Counted

---------------------------------------------------------------------------
(***************************************************************************)
(* The steps of methods that keep something on the other stacks.           *)
(***************************************************************************)

\* What g has more than f, by kind, and how much higher the stacks are in r.
Differ(f, g, t, counting, calling, context, locals, peeking, tables) ==
  /\ Ct("counting", g, t) = Ct("counting", f, t) + counting
  /\ Ct("calling", g, t) = Ct("calling", f, t) + calling
  /\ Ct("context", g, t) = Ct("context", f, t) + context
  /\ Ct("locals", g, t) = Ct("locals", f, t) + locals
  /\ Ct("peeking", g, t) = Ct("peeking", f, t) + peeking
  /\ Ct("table", g, t) = Ct("table", f, t) + tables

Higher(m, r, t, counting, calling, context, locals, peeking, tables) ==
  /\ IsVm(r) /\ Stacks(r) /\ r.CatchStack = m.CatchStack /\ r.IsFatalFailure = m.IsFatalFailure
  /\ Len(r.LoopCounterStack) = Len(m.LoopCounterStack) + counting
  /\ Len(r.LoopSizeStack) = Len(m.LoopSizeStack) + calling
  /\ Len(r.EvalFrameStack) = Len(m.EvalFrameStack) + calling
  /\ Len(r.CurEvalFrameStack) = Len(m.CurEvalFrameStack) + (calling + context)
  /\ Len(r.LocalsBaseStack) = Len(m.LocalsBaseStack) + locals
  /\ Len(r.SavedPosStack) - Restored(r) = Len(m.SavedPosStack) - Restored(m) + peeking
  /\ t.expand => /\ Len(r.RestoreStack) = Len(m.RestoreStack) + tables
                 /\ r.Scratch = m.Scratch
  /\ ~t.expand => /\ Len(r.Scratch) = Len(m.Scratch) + tables
                  /\ r.RestoreStack = m.RestoreStack

LEMMA AdjustsBy ==
  ASSUME NEW t, NEW m, Stacks(m), NEW r, NEW f, NEW g,
         NEW counting \in Int, NEW calling \in Int, NEW context \in Int, NEW locals \in Int,
         NEW peeking \in Int, NEW tables \in Int,
         Differ(f, g, t, counting, calling, context, locals, peeking, tables),
         Higher(m, r, t, counting, calling, context, locals, peeking, tables)
  PROVE  Adjusts(m, r, f, g, t)
<1>1. \A kind : Ct(kind, f, t) \in Int
  BY CtType
<1>2. /\ Len(m.LoopCounterStack) \in Nat /\ Len(m.LoopSizeStack) \in Nat
      /\ Len(m.EvalFrameStack) \in Nat /\ Len(m.CurEvalFrameStack) \in Nat
      /\ Len(m.LocalsBaseStack) \in Nat /\ Len(m.SavedPosStack) \in Nat
      /\ Len(m.RestoreStack) \in Nat /\ Len(m.Scratch) \in Nat
  <2>1. /\ IsSeq(m.LoopCounterStack) /\ IsSeq(m.LoopSizeStack)
        /\ IsSeq(m.EvalFrameStack) /\ IsSeq(m.CurEvalFrameStack)
        /\ IsSeq(m.LocalsBaseStack) /\ IsSeq(m.SavedPosStack) /\ IsSeq(m.Scratch)
        /\ Len(m.RestoreStack) \in Nat
    BY DEF Stacks
  <2>. QED
    BY <2>1, SeqLen
<1>3. Restored(m) \in Nat /\ Restored(r) \in Nat
  BY RestoredType DEF Higher
<1>4. Len(r.LoopCounterStack) = Len(m.LoopCounterStack) - Ct("counting", f, t) + Ct("counting", g, t)
  <2>1. /\ Ct("counting", g, t) = Ct("counting", f, t) + counting
        /\ Len(r.LoopCounterStack) = Len(m.LoopCounterStack) + counting
    BY DEF Differ, Higher
  <2>2. Ct("counting", f, t) \in Int /\ Len(m.LoopCounterStack) \in Nat
    BY <1>1, <1>2, <1>3
  <2>. QED
    BY <2>1, <2>2
<1>5. Len(r.LoopSizeStack) = Len(m.LoopSizeStack) - Ct("calling", f, t) + Ct("calling", g, t)
  <2>1. /\ Ct("calling", g, t) = Ct("calling", f, t) + calling
        /\ Len(r.LoopSizeStack) = Len(m.LoopSizeStack) + calling
    BY DEF Differ, Higher
  <2>2. Ct("calling", f, t) \in Int /\ Len(m.LoopSizeStack) \in Nat
    BY <1>1, <1>2, <1>3
  <2>. QED
    BY <2>1, <2>2
<1>6. Len(r.EvalFrameStack) = Len(m.EvalFrameStack) - Ct("calling", f, t) + Ct("calling", g, t)
  <2>1. /\ Ct("calling", g, t) = Ct("calling", f, t) + calling
        /\ Len(r.EvalFrameStack) = Len(m.EvalFrameStack) + calling
    BY DEF Differ, Higher
  <2>2. Ct("calling", f, t) \in Int /\ Len(m.EvalFrameStack) \in Nat
    BY <1>1, <1>2, <1>3
  <2>. QED
    BY <2>1, <2>2
<1>7. Len(r.LocalsBaseStack) = Len(m.LocalsBaseStack) - Ct("locals", f, t) + Ct("locals", g, t)
  <2>1. /\ Ct("locals", g, t) = Ct("locals", f, t) + locals
        /\ Len(r.LocalsBaseStack) = Len(m.LocalsBaseStack) + locals
    BY DEF Differ, Higher
  <2>2. Ct("locals", f, t) \in Int /\ Len(m.LocalsBaseStack) \in Nat
    BY <1>1, <1>2, <1>3
  <2>. QED
    BY <2>1, <2>2
<1>8. Len(r.CurEvalFrameStack) =
        Len(m.CurEvalFrameStack) - Ct("calling", f, t) + Ct("calling", g, t)
                                 - Ct("context", f, t) + Ct("context", g, t)
  <2>1. /\ Ct("calling", g, t) = Ct("calling", f, t) + calling
        /\ Ct("context", g, t) = Ct("context", f, t) + context
        /\ Len(r.CurEvalFrameStack) = Len(m.CurEvalFrameStack) + (calling + context)
    BY DEF Differ, Higher
  <2>2. /\ Ct("calling", f, t) \in Int /\ Ct("context", f, t) \in Int
        /\ Len(m.CurEvalFrameStack) \in Nat
    BY <1>1, <1>2, <1>3
  <2>3. PICK n \in Int, a \in Int, b \in Int :
          n = Len(m.CurEvalFrameStack) /\ a = Ct("calling", f, t) /\ b = Ct("context", f, t)
    BY <2>2
  <2>4. n + (calling + context) = n - a + (a + calling) - b + (b + context)
    OBVIOUS
  <2>. QED
    BY <2>1, <2>3, <2>4
<1>9. Len(r.SavedPosStack) - Restored(r) =
        Len(m.SavedPosStack) - Restored(m) - Ct("peeking", f, t) + Ct("peeking", g, t)
  <2>1. /\ Ct("peeking", g, t) = Ct("peeking", f, t) + peeking
        /\ Len(r.SavedPosStack) - Restored(r) = Len(m.SavedPosStack) - Restored(m) + peeking
    BY DEF Differ, Higher
  <2>2. PICK n \in Int : n = Len(m.SavedPosStack) - Restored(m)
    BY <1>2, <1>3
  <2>3. Ct("peeking", f, t) \in Int
    BY <1>1
  <2>4. n + peeking = n - Ct("peeking", f, t) + (Ct("peeking", f, t) + peeking)
    BY <2>3
  <2>. QED
    BY <2>1, <2>2, <2>4
<1>10. t.expand =>
        /\ Len(r.RestoreStack) = Len(m.RestoreStack) - Ct("table", f, t) + Ct("table", g, t)
        /\ r.Scratch = m.Scratch
  <2>1. /\ Ct("table", g, t) = Ct("table", f, t) + tables
        /\ t.expand => Len(r.RestoreStack) = Len(m.RestoreStack) + tables /\ r.Scratch = m.Scratch
    BY DEF Differ, Higher
  <2>2. Ct("table", f, t) \in Int /\ Len(m.RestoreStack) \in Nat
    BY <1>1, <1>2, <1>3
  <2>. QED
    BY <2>1, <2>2
<1>11. ~t.expand =>
        /\ Len(r.Scratch) = Len(m.Scratch) - Ct("table", f, t) + Ct("table", g, t)
        /\ r.RestoreStack = m.RestoreStack
  <2>1. /\ Ct("table", g, t) = Ct("table", f, t) + tables
        /\ ~t.expand => Len(r.Scratch) = Len(m.Scratch) + tables /\ r.RestoreStack = m.RestoreStack
    BY DEF Differ, Higher
  <2>2. Ct("table", f, t) \in Int /\ Len(m.Scratch) \in Nat
    BY <1>1, <1>2, <1>3
  <2>. QED
    BY <2>1, <2>2
<1>. QED
  BY <1>3, <1>4, <1>5, <1>8, <1>7, <1>9, <1>10, <1>11, <1>6 DEF Adjusts, Higher

\* The stacks are as high as they need to be for what is taken from them.
LEMMA GoodLens ==
  ASSUME NEW t, NEW m, Good(m, t)
  PROVE  /\ IsVm(m) /\ Stacks(m)
         /\ Len(m.LoopCounterStack) \in Nat /\ Len(m.LoopSizeStack) \in Nat
         /\ Len(m.EvalFrameStack) \in Nat /\ Len(m.CurEvalFrameStack) \in Nat
         /\ Len(m.LocalsBaseStack) \in Nat /\ Len(m.SavedPosStack) \in Nat
         /\ Len(m.RestoreStack) \in Nat /\ Len(m.Scratch) \in Nat
         /\ Restored(m) \in Nat
<1>1. IsVm(m) /\ Stacks(m)
  BY DEF Good
<1>. QED
  BY <1>1, StacksLen, RestoredType

\* The frame on top has something on the stacks of its kind.
LEMMA TopCounts ==
  ASSUME NEW t, NEW m, Good(m, t), Len(m.FrameStack) >= 2, NEW kind,
         Ct(kind, Last(m.FrameStack), t) = 1
  PROVE  N(kind, m.FrameStack, t) \in Nat /\ N(kind, m.FrameStack, t) >= 1
<1>1. PICK fs : fs = m.FrameStack
  OBVIOUS
<1>2. /\ IsSeq(fs) /\ Len(fs) \in Nat /\ Len(fs) >= 2 /\ Last(fs) = fs[Len(fs)]
  BY <1>1, TopFrame DEF Good
<1>3. N(kind, fs, t) = N(kind, Front(fs), t) + 1
  BY <1>1, <1>2, CountFront
<1>4. Len(Front(fs)) \in Nat
  BY <1>2, SeqFront
<1>5. N(kind, Front(fs), t) \in Nat
  BY <1>4, OwnersFinite
<1>. QED
  BY <1>1, <1>3, <1>5

\* What values s there may be when the frame on top becomes g, where it was f.
ValuesFit(m, s, f, g) ==
  /\ NoLocals(f) \/ HasArgument(f)
  /\ ~WithLocals(g)
  /\ NoLocals(f) /\ NoLocals(g) => Len(s) <= Len(m.LocalValues)
  /\ NoLocals(f) /\ HasArgument(g) => Len(s) = Len(m.LocalValues) + 1
  /\ HasArgument(f) /\ NoLocals(g) =>
       Len(s) = (IF Len(m.LocalValues) = 0 THEN 0 ELSE Len(m.LocalValues) - 1)
  /\ ~(HasArgument(f) /\ HasArgument(g))

\* What matters of the locals when the frame on top has none.
LEMMA LocalsFewer ==
  ASSUME NEW t, NEW m, Good(m, t), NEW f, f = Last(m.FrameStack), NEW g, NEW r,
         r.LocalsBaseStack = m.LocalsBaseStack, IsSeq(r.LocalValues),
         ValuesFit(m, r.LocalValues, f, g)
  PROVE  LocalsBounded(r, SetTop(m.FrameStack, g))
<1>1. PICK fs, n, b : fs = m.FrameStack /\ n = Len(fs) /\ b = m.LocalsBaseStack
  OBVIOUS
<1>2. /\ n \in Nat /\ n >= 1 /\ IsSeq(fs) /\ f = fs[n] /\ Last(fs) = f
      /\ LocalsBounded(m, fs)
  BY <1>1, TopFrame DEF Good
<1>3. PICK gs : gs = SetTop(fs, g)
  OBVIOUS
<1>4. /\ IsSeq(gs) /\ Len(gs) = n /\ gs[n] = g
      /\ \A i \in 1 .. n - 1 : gs[i] = fs[i]
  BY <1>1, <1>2, <1>3, SeqSetTop
<1>5. ~WithLocals(f)
  BY DEF ValuesFit, NoLocals, HasArgument, WithLocals, Evaluates, Bitwise2
<1>6. PICK h, p : /\ Bounded(fs, b, h, p)
                  /\ Len(b) = p[n] + 0
                  /\ AtMost(m.LocalValues, f, h[n])
  BY <1>1, <1>2, <1>5 DEF LocalsBounded
<1>7. Bounded(gs, b, h, p)
  <2>1. ~WithLocals(gs[n])
    BY <1>4 DEF ValuesFit
  <2>2. Len(fs) = n /\ \A i \in 1 .. p[n] : b[i] = b[i]
    BY <1>1
  <2>. QED
    BY <1>2, <1>4, <1>6, <2>1, <2>2, BoundedTop, SMTT(30)
<1>8. h[n] \in Nat
  BY <1>1, <1>2, <1>6 DEF Bounded
<1>9. /\ Len(m.LocalValues) \in Nat /\ Len(r.LocalValues) \in Nat
  BY <1>2, SeqLen DEF LocalsBounded
<1>10. AtMost(r.LocalValues, g, h[n])
  <2>1. CASE NoLocals(f) /\ NoLocals(g)
    <3>1. ~HasArgument(g)
      BY <2>1 DEF NoLocals
    <3>2. Len(m.LocalValues) <= h[n] /\ Len(r.LocalValues) <= Len(m.LocalValues)
      BY <1>6, <2>1 DEF AtMost, ValuesFit
    <3>. QED
      BY <1>8, <1>9, <3>1, <3>2 DEF AtMost
  <2>2. CASE NoLocals(f) /\ HasArgument(g)
    <3>1. ~NoLocals(g)
      BY <2>2 DEF NoLocals
    <3>2. Len(m.LocalValues) <= h[n] /\ Len(r.LocalValues) = Len(m.LocalValues) + 1
      BY <1>6, <2>2 DEF AtMost, ValuesFit
    <3>. QED
      BY <1>8, <1>9, <3>1, <3>2 DEF AtMost
  <2>3. CASE HasArgument(f) /\ NoLocals(g)
    <3>1. ~HasArgument(g)
      BY <2>3 DEF NoLocals
    <3>2. Len(m.LocalValues) <= h[n] + 1
      BY <1>6, <2>3 DEF AtMost
    <3>. QED
      BY <1>8, <1>9, <2>3, <3>1, <3>2 DEF AtMost, ValuesFit
  <2>. QED
    BY <2>1, <2>2, <2>3 DEF NoLocals, ValuesFit
<1>11. Last(gs) = g
  BY <1>2, <1>4 DEF Last
<1>12. ~WithLocals(g)
  BY DEF ValuesFit
<1>13. /\ Bounded(gs, r.LocalsBaseStack, h, p)
       /\ Len(r.LocalsBaseStack) = p[Len(gs)] + (IF WithLocals(Last(gs)) THEN 1 ELSE 0)
       /\ AtMost(r.LocalValues, Last(gs), h[Len(gs)])
  BY <1>1, <1>4, <1>6, <1>7, <1>10, <1>11, <1>12
<1>14. LocalsBounded(r, gs)
  BY <1>13 DEF LocalsBounded
<1>. QED
  BY <1>1, <1>3, <1>14

\* How a method goes on that moves as it should.
LEMMA MovesOk ==
  ASSUME NEW t, NEW m, Good(m, t), Last(m.FrameStack).CallMethod \in Inner,
         ~Evaluates(Last(m.FrameStack), Headers), NEW r, NEW state, Moves(m, r, state, t)
  PROVE  /\ Ok(Goto(r, state), t)
         /\ \A mod, nd : \A method \in Inner : Ok(Call(r, state, method, mod, nd), t)
         /\ state = "Enter" => \A v : Ok(Return(r, v), t)
<1>1. Quiet(m.FrameStack)
  BY QuietTop
<1>2. Good(Goto(r, state), t)
  BY <1>1, GotoGood
<1>3. ASSUME NEW mod, NEW nd, NEW method \in Inner
      PROVE  Good(Call(r, state, method, mod, nd), t)
  BY <1>1, CallGood
<1>4. state = "Enter" => \A v : Good(Return(r, v), t)
  BY <1>1, ReturnGood
<1>. QED
  BY <1>2, <1>3, <1>4 DEF Ok

\* What the methods keep on the other stacks.
LEMMA PeekHas ==
  ASSUME NEW f, f.CallMethod = "Peek", NEW t
  PROVE  /\ NoLocals(f)
         /\ \A kind : kind \notin {"peeking"} => Ct(kind, f, t) = 0
         /\ Ct("peeking", f, t) = IF f.CallState = "Exit" THEN 1 ELSE 0
<1>1. /\ ~Counting(f) /\ ~Calling(f) /\ ~InContext(f) /\ ~WithLocals(f)
      /\ ~HasArgument(f) /\ ~Evaluates(f, {"Table"})
  BY DEF Counting, Calling, InContext, WithLocals, HasArgument, Peeking, Selecting, Evaluates, Headers, Bitwise2
<1>2. (Peeking(f) <=> f.CallState = "Exit")
  BY DEF Counting, Calling, InContext, WithLocals, HasArgument, Peeking, Selecting, Evaluates, Headers, Bitwise2
<1>3. ASSUME NEW kind, kind \notin {"peeking"} PROVE ~Has(kind, f, t)
  BY <1>1, <1>3 DEF Has
<1>4. (Has("peeking", f, t) <=> f.CallState = "Exit")
  BY <1>2 DEF Has
<1>. QED
  BY <1>1, <1>2, <1>3, <1>4 DEF NoLocals, Ct

LEMMA ContextHas ==
  ASSUME NEW f, f.CallMethod = "EvalInCallingContext", NEW t
  PROVE  /\ NoLocals(f)
         /\ \A kind : kind \notin {"context"} => Ct(kind, f, t) = 0
         /\ Ct("context", f, t) = IF f.CallState = "Exit" THEN 1 ELSE 0
<1>1. /\ ~Counting(f) /\ ~Calling(f) /\ ~WithLocals(f) /\ ~HasArgument(f)
      /\ ~Peeking(f) /\ ~Evaluates(f, {"Table"})
  BY DEF Counting, Calling, InContext, WithLocals, HasArgument, Peeking, Selecting, Evaluates, Headers, Bitwise2
<1>2. (InContext(f) <=> f.CallState = "Exit")
  BY DEF Counting, Calling, InContext, WithLocals, HasArgument, Peeking, Selecting, Evaluates, Headers, Bitwise2
<1>3. ASSUME NEW kind, kind \notin {"context"} PROVE ~Has(kind, f, t)
  BY <1>1, <1>3 DEF Has
<1>4. (Has("context", f, t) <=> f.CallState = "Exit")
  BY <1>2 DEF Has
<1>. QED
  BY <1>1, <1>2, <1>3, <1>4 DEF NoLocals, Ct

LEMMA BitwiseHas ==
  ASSUME NEW f, f.CallMethod = "Eval", f.Nd.type \in Bitwise2, NEW t
  PROVE  /\ \A kind : kind \notin {"argument"} => Ct(kind, f, t) = 0
         /\ (HasArgument(f) <=> f.CallState = "Exit") /\ ~WithLocals(f)
<1>1. /\ ~Counting(f) /\ ~Calling(f) /\ ~InContext(f) /\ ~WithLocals(f)
      /\ ~Peeking(f) /\ ~Evaluates(f, {"Table"})
  BY DEF Counting, Calling, InContext, WithLocals, HasArgument, Peeking, Selecting, Evaluates, Headers, Bitwise2
<1>2. (HasArgument(f) <=> f.CallState = "Exit")
  BY DEF Counting, Calling, InContext, WithLocals, HasArgument, Peeking, Selecting, Evaluates, Headers, Bitwise2
<1>3. ASSUME NEW kind, kind \notin {"argument"} PROVE ~Has(kind, f, t)
  BY <1>1, <1>3 DEF Has
<1>. QED
  BY <1>1, <1>2, <1>3 DEF NoLocals, Ct

LEMMA DefineHas ==
  ASSUME NEW f, f.CallMethod = "Eval", f.Nd.type = "Define", NEW t
  PROVE  /\ \A kind : kind \notin {"locals"} => Ct(kind, f, t) = 0
         /\ Ct("locals", f, t) = IF (f.Nd.val # 0 /\ f.CallState = "Exit") THEN 1 ELSE 0
         /\ (WithLocals(f) <=> (f.Nd.val # 0 /\ f.CallState = "Exit")) /\ ~HasArgument(f)
<1>1. /\ ~Counting(f) /\ ~Calling(f) /\ ~InContext(f) /\ ~HasArgument(f)
      /\ ~Peeking(f) /\ ~Evaluates(f, {"Table"})
  BY DEF Counting, Calling, InContext, WithLocals, HasArgument, Peeking, Selecting, Evaluates, Headers, Bitwise2
<1>2. (WithLocals(f) <=> (f.Nd.val # 0 /\ f.CallState = "Exit"))
  BY DEF Counting, Calling, InContext, WithLocals, HasArgument, Peeking, Selecting, Evaluates, Headers, Bitwise2
<1>3. ASSUME NEW kind, kind \notin {"locals"} PROVE ~Has(kind, f, t)
  BY <1>1, <1>3 DEF Has
<1>4. (Has("locals", f, t) <=> (f.Nd.val # 0 /\ f.CallState = "Exit"))
  BY <1>2 DEF Has
<1>. QED
  BY <1>1, <1>2, <1>3, <1>4 DEF NoLocals, Ct

LEMMA VirtualHas ==
  ASSUME NEW f, f.CallMethod = "Eval", f.Nd.type = "EvalVirtual", NEW t
  PROVE  /\ NoLocals(f)
         /\ \A kind : kind \notin {"counting", "calling"} => Ct(kind, f, t) = 0
         /\ Ct("counting", f, t) = IF f.CallState # "Enter" THEN 1 ELSE 0
         /\ Ct("calling", f, t) = IF f.CallState # "Enter" THEN 1 ELSE 0
<1>1. /\ ~InContext(f) /\ ~WithLocals(f) /\ ~HasArgument(f) /\ ~Peeking(f)
      /\ ~Evaluates(f, {"Table"})
  BY DEF Counting, Calling, InContext, WithLocals, HasArgument, Peeking, Selecting, Evaluates, Headers, Bitwise2
<1>2. (Counting(f) <=> f.CallState # "Enter") /\ (Calling(f) <=> f.CallState # "Enter")
  BY DEF Counting, Calling, InContext, WithLocals, HasArgument, Peeking, Selecting, Evaluates, Headers, Bitwise2
<1>3. ASSUME NEW kind, kind \notin {"counting", "calling"} PROVE ~Has(kind, f, t)
  BY <1>1, <1>3 DEF Has
<1>4. (Has("counting", f, t) <=> f.CallState # "Enter") /\ (Has("calling", f, t) <=> f.CallState # "Enter")
  BY <1>2 DEF Has
<1>. QED
  BY <1>1, <1>2, <1>3, <1>4 DEF NoLocals, Ct

LEMMA TableHas ==
  ASSUME NEW f, f.CallMethod = "Eval", f.Nd.type = "Table", NEW t
  PROVE  /\ NoLocals(f)
         /\ \A kind : kind \notin {"table"} => Ct(kind, f, t) = 0
         /\ Ct("table", f, t) = IF (f.CallState = "Exit" /\ f.CallModifier \in {"ReadAndWrite", IF t.expand THEN "ReadOnly" ELSE "WriteOnly"}) THEN 1 ELSE 0
<1>1. /\ ~Counting(f) /\ ~Calling(f) /\ ~InContext(f) /\ ~WithLocals(f)
      /\ ~HasArgument(f) /\ ~Peeking(f)
  BY DEF Counting, Calling, InContext, WithLocals, HasArgument, Peeking, Selecting, Evaluates, Headers, Bitwise2
<1>2. ASSUME NEW kind, kind \notin {"table"} PROVE ~Has(kind, f, t)
  BY <1>1, <1>2 DEF Has
<1>3. Has("table", f, t) <=> (f.CallState = "Exit" /\ f.CallModifier \in {"ReadAndWrite", IF t.expand THEN "ReadOnly" ELSE "WriteOnly"})
  BY DEF Has, Evaluates
<1>. QED
  BY <1>1, <1>2, <1>3 DEF NoLocals, Ct

---------------------------------------------------------------------------

\* The reader is elsewhere, and so are the positions it goes back to.
MovedTo(m, pos, saved) == [m EXCEPT !.ReadPos = pos, !.SavedPosStack = saved]

\* Positions that are saved.
LEMMA SavesPos ==
  ASSUME NEW t, NEW m, Good(m, t)
  PROVE  /\ Higher(m, PushPeekPos(m), t, 0, 0, 0, 0, 1, 0)
         /\ PushPeekPos(m).FrameStack = m.FrameStack
         /\ PushPeekPos(m).LocalsBaseStack = m.LocalsBaseStack
         /\ PushPeekPos(m).LocalValues = m.LocalValues
         /\ Len(m.SavedPosStack) >= 1 =>
              /\ Higher(m, PopPeekPos(m), t, 0, 0, 0, 0, -1, 0)
              /\ PopPeekPos(m).FrameStack = m.FrameStack
              /\ PopPeekPos(m).LocalsBaseStack = m.LocalsBaseStack
              /\ PopPeekPos(m).LocalValues = m.LocalValues
<1>1. /\ IsVm(m) /\ Stacks(m)
      /\ Len(m.LoopCounterStack) \in Nat /\ Len(m.LoopSizeStack) \in Nat
      /\ Len(m.EvalFrameStack) \in Nat /\ Len(m.CurEvalFrameStack) \in Nat
      /\ Len(m.LocalsBaseStack) \in Nat /\ Len(m.SavedPosStack) \in Nat
      /\ Len(m.RestoreStack) \in Nat /\ Len(m.Scratch) \in Nat
      /\ Restored(m) \in Nat
  BY GoodLens
<1>2. ASSUME NEW saved, IsSeq(saved), NEW pos, NEW n \in Int, Len(saved) = Len(m.SavedPosStack) + n,
             NEW r, r = MovedTo(m, pos, saved)
      PROVE  /\ Higher(m, r, t, 0, 0, 0, 0, n, 0) /\ r.FrameStack = m.FrameStack
             /\ r.LocalsBaseStack = m.LocalsBaseStack /\ r.LocalValues = m.LocalValues
  <2>1. /\ IsVm(r) /\ r.FrameStack = m.FrameStack /\ r.EvalFrameStack = m.EvalFrameStack
        /\ r.CurEvalFrameStack = m.CurEvalFrameStack /\ r.LoopCounterStack = m.LoopCounterStack
        /\ r.LoopSizeStack = m.LoopSizeStack /\ r.LocalsBaseStack = m.LocalsBaseStack
        /\ r.LocalValues = m.LocalValues /\ r.CatchStack = m.CatchStack
        /\ r.IsFatalFailure = m.IsFatalFailure /\ r.SavedPosStack = saved
        /\ r.RestoreStack = m.RestoreStack /\ r.Scratch = m.Scratch
    BY <1>1, <1>2 DEF IsVm, MovedTo
  <2>2. Stacks(r)
    BY <1>1, <1>2, <2>1 DEF Stacks
  <2>3. Restored(r) = Restored(m)
    BY <2>1 DEF Restored
  <2>4. /\ Len(r.LoopCounterStack) = Len(m.LoopCounterStack) + 0
        /\ Len(r.LoopSizeStack) = Len(m.LoopSizeStack) + 0
        /\ Len(r.EvalFrameStack) = Len(m.EvalFrameStack) + 0
        /\ Len(r.CurEvalFrameStack) = Len(m.CurEvalFrameStack) + (0 + 0)
        /\ Len(r.LocalsBaseStack) = Len(m.LocalsBaseStack) + 0
        /\ Len(r.RestoreStack) = Len(m.RestoreStack) + 0
        /\ Len(r.Scratch) = Len(m.Scratch) + 0
    BY <1>1, <2>1
  <2>5. Len(r.SavedPosStack) - Restored(r) = Len(m.SavedPosStack) - Restored(m) + n
    <3>1. Len(r.SavedPosStack) = Len(m.SavedPosStack) + n
      BY <1>2, <2>1
    <3>. QED
      BY <1>1, <2>3, <3>1
  <2>. QED
    BY <2>1, <2>2, <2>4, <2>5 DEF Higher
<1>3. IsSeq(m.SavedPosStack)
  BY <1>1 DEF Stacks
<1>4. /\ Higher(m, PushPeekPos(m), t, 0, 0, 0, 0, 1, 0)
      /\ PushPeekPos(m).FrameStack = m.FrameStack
      /\ PushPeekPos(m).LocalsBaseStack = m.LocalsBaseStack
      /\ PushPeekPos(m).LocalValues = m.LocalValues
  <2>1. PICK saved, r : saved = Append(m.SavedPosStack, m.ReadPos) /\ r = PushPeekPos(m)
    OBVIOUS
  <2>2. IsSeq(saved) /\ Len(saved) = Len(m.SavedPosStack) + 1
    BY <1>3, <2>1, SeqAppend
  <2>3. r = [m EXCEPT !.SavedPosStack = saved]
    BY <2>1 DEF PushPeekPos
  <2>4. r = [m EXCEPT !.ReadPos = m.ReadPos, !.SavedPosStack = saved]
    BY <1>1, <2>3 DEF IsVm
  <2>5. /\ Higher(m, r, t, 0, 0, 0, 0, 1, 0) /\ r.FrameStack = m.FrameStack
        /\ r.LocalsBaseStack = m.LocalsBaseStack /\ r.LocalValues = m.LocalValues
    <3>1. PICK n \in Int : n = 1
      OBVIOUS
    <3>2. PICK pos : pos = m.ReadPos
      OBVIOUS
    <3>3. r = MovedTo(m, pos, saved)
      BY <2>4, <3>2 DEF MovedTo
    <3>4. Len(saved) = Len(m.SavedPosStack) + n
      BY <2>2, <3>1
    <3>5. /\ Higher(m, r, t, 0, 0, 0, 0, n, 0) /\ r.FrameStack = m.FrameStack
          /\ r.LocalsBaseStack = m.LocalsBaseStack /\ r.LocalValues = m.LocalValues
      BY <1>2, <2>2, <3>4, <3>3
    <3>. QED
      BY <3>1, <3>5
  <2>. QED
    BY <2>1, <2>5
<1>5. ASSUME Len(m.SavedPosStack) >= 1
      PROVE  /\ Higher(m, PopPeekPos(m), t, 0, 0, 0, 0, -1, 0)
             /\ PopPeekPos(m).FrameStack = m.FrameStack
             /\ PopPeekPos(m).LocalsBaseStack = m.LocalsBaseStack
             /\ PopPeekPos(m).LocalValues = m.LocalValues
  <2>1. PICK saved, pos, r : /\ saved = Front(m.SavedPosStack) /\ pos = Last(m.SavedPosStack)
                             /\ r = PopPeekPos(m)
    OBVIOUS
  <2>2. IsSeq(saved) /\ Len(saved) = Len(m.SavedPosStack) - 1
    BY <1>3, <1>5, <2>1, SeqFront
  <2>3. Len(saved) = Len(m.SavedPosStack) + (-1) /\ -1 \in Int
    BY <1>1, <2>2
  <2>4. r = MovedTo(m, pos, saved)
    BY <2>1 DEF PopPeekPos, MovedTo
  <2>5. /\ Higher(m, r, t, 0, 0, 0, 0, -1, 0) /\ r.FrameStack = m.FrameStack
        /\ r.LocalsBaseStack = m.LocalsBaseStack /\ r.LocalValues = m.LocalValues
    BY <1>2, <2>2, <2>3, <2>4
  <2>. QED
    BY <2>1, <2>5
<1>. QED
  BY <1>4, <1>5

LEMMA PeekOk == ASSUME Good(vm, task), PeekMethod PROVE Ok(vm', task)
<1>1. PICK f : f = Last(vm.FrameStack)
  OBVIOUS
<1>2. f.CallMethod = "Peek" /\ f.CallState = Frame.CallState /\ IsFrame(f)
  BY <1>1, TopFrame DEF PeekMethod, Running, Frame, Good
<1>3. f.CallMethod \in Inner /\ ~Evaluates(f, Headers) /\ "Eval" \in Inner
  BY <1>2 DEF Inner, Evaluates
<1>4. Stacks(vm)
  BY DEF Good
<1>5. CASE At("Enter")
  <2>1. PICK g, r : g = In(f, "Exit") /\ r = PushPeekPos(vm)
    OBVIOUS
  <2>2. g.CallMethod = "Peek" /\ g.CallState = "Exit" /\ f.CallState = "Enter"
    BY <1>2, <1>5, <2>1, InFields DEF At
  <2>3. /\ \A kind : kind # "peeking" => Ct(kind, f, task) = 0 /\ Ct(kind, g, task) = 0
        /\ Ct("peeking", f, task) = 0 /\ Ct("peeking", g, task) = 1
        /\ NoLocals(f) /\ NoLocals(g)
    BY <1>2, <2>2, PeekHas
  <2>4. Differ(f, g, task, 0, 0, 0, 0, 1, 0)
    BY <2>3 DEF Differ
  <2>5. /\ Higher(vm, r, task, 0, 0, 0, 0, 1, 0) /\ r.FrameStack = vm.FrameStack
        /\ r.LocalsBaseStack = vm.LocalsBaseStack /\ r.LocalValues = vm.LocalValues
    BY <2>1, SavesPos
  <2>6. Adjusts(vm, r, f, g, task)
    BY <1>4, <2>4, <2>5, AdjustsBy
  <2>7. LocalsBounded(r, SetTop(vm.FrameStack, g))
    BY <1>1, <2>3, <2>5, SameLocals DEF NoLocals
  <2>8. Moves(vm, r, "Exit", task)
    BY <1>1, <2>1, <2>5, <2>6, <2>7 DEF Moves
  <2>9. vm' = Call(r, "Exit", "Eval", "ReadOnly", Nd)
    BY <1>5, <2>1 DEF PeekMethod, Becomes, At
  <2>. QED
    BY <1>1, <1>3, <2>8, <2>9, MovesOk
<1>6. CASE At("Exit")
  <2>1. PICK g, r : g = In(f, "Enter") /\ r = PopPeekPos(vm)
    OBVIOUS
  <2>2. g.CallMethod = "Peek" /\ g.CallState = "Enter" /\ f.CallState = "Exit"
    BY <1>2, <1>6, <2>1, InFields DEF At
  <2>3. /\ \A kind : kind # "peeking" => Ct(kind, f, task) = 0 /\ Ct(kind, g, task) = 0
        /\ Ct("peeking", f, task) = 1 /\ Ct("peeking", g, task) = 0
        /\ NoLocals(f) /\ NoLocals(g)
    BY <1>2, <2>2, PeekHas
  <2>4. Differ(f, g, task, 0, 0, 0, 0, -1, 0)
    BY <2>3 DEF Differ
  <2>5. Len(vm.SavedPosStack) >= 1
    <3>1. Quiet(vm.FrameStack)
      BY <1>1, <1>3, QuietTop
    <3>2. N("peeking", vm.FrameStack, task) \in Nat /\ N("peeking", vm.FrameStack, task) >= 1
      BY <1>1, <2>3, <3>1, TopCounts DEF Quiet
    <3>3. Len(vm.SavedPosStack) = N("peeking", vm.FrameStack, task) + Restored(vm)
      BY DEF Good, Heights
    <3>4. Restored(vm) \in Nat
      BY <1>4, RestoredType
    <3>. QED
      BY <3>2, <3>3, <3>4
  <2>6. /\ Higher(vm, r, task, 0, 0, 0, 0, -1, 0) /\ r.FrameStack = vm.FrameStack
        /\ r.LocalsBaseStack = vm.LocalsBaseStack /\ r.LocalValues = vm.LocalValues
    BY <2>1, <2>5, SavesPos
  <2>7. Adjusts(vm, r, f, g, task)
    <3>1. -1 \in Int /\ 0 \in Int
      OBVIOUS
    <3>. QED
      BY <1>4, <2>4, <2>6, <3>1, AdjustsBy
  <2>8. LocalsBounded(r, SetTop(vm.FrameStack, g))
    BY <1>1, <2>3, <2>6, SameLocals DEF NoLocals
  <2>9. Moves(vm, r, "Enter", task)
    BY <1>1, <2>1, <2>6, <2>7, <2>8 DEF Moves
  <2>10. vm' = Return(r, ReturnValue)
    BY <1>6, <2>1 DEF PeekMethod, Becomes, At
  <2>. QED
    BY <1>1, <1>3, <2>9, <2>10, MovesOk
<1>. QED
  BY <1>5, <1>6 DEF PeekMethod

\* The index of the context in which an expression is evaluated.
LEMMA SavesContext ==
  ASSUME NEW t, NEW m, Good(m, t), NEW s, IsSeq(s), NEW n \in Int,
         Len(s) = Len(m.CurEvalFrameStack) + n,
         NEW r, r = [m EXCEPT !.CurEvalFrameStack = s]
  PROVE  /\ Higher(m, r, t, 0, 0, n, 0, 0, 0) /\ r.FrameStack = m.FrameStack
         /\ r.LocalsBaseStack = m.LocalsBaseStack /\ r.LocalValues = m.LocalValues
<1>1. /\ IsVm(m) /\ Stacks(m)
      /\ Len(m.LoopCounterStack) \in Nat /\ Len(m.LoopSizeStack) \in Nat
      /\ Len(m.EvalFrameStack) \in Nat /\ Len(m.CurEvalFrameStack) \in Nat
      /\ Len(m.LocalsBaseStack) \in Nat /\ Len(m.SavedPosStack) \in Nat
      /\ Len(m.RestoreStack) \in Nat /\ Len(m.Scratch) \in Nat
      /\ Restored(m) \in Nat
  BY GoodLens
<1>2. /\ IsVm(r) /\ r.FrameStack = m.FrameStack /\ r.EvalFrameStack = m.EvalFrameStack
      /\ r.CurEvalFrameStack = s /\ r.LoopCounterStack = m.LoopCounterStack
      /\ r.LoopSizeStack = m.LoopSizeStack /\ r.LocalsBaseStack = m.LocalsBaseStack
      /\ r.LocalValues = m.LocalValues /\ r.CatchStack = m.CatchStack
      /\ r.IsFatalFailure = m.IsFatalFailure /\ r.SavedPosStack = m.SavedPosStack
      /\ r.RestoreStack = m.RestoreStack /\ r.Scratch = m.Scratch
  BY <1>1 DEF IsVm
<1>3. Stacks(r)
  BY <1>1, <1>2 DEF Stacks
<1>4. Restored(r) = Restored(m)
  BY <1>2 DEF Restored
<1>5. /\ Len(r.LoopCounterStack) = Len(m.LoopCounterStack) + 0
      /\ Len(r.LoopSizeStack) = Len(m.LoopSizeStack) + 0
      /\ Len(r.EvalFrameStack) = Len(m.EvalFrameStack) + 0
      /\ Len(r.LocalsBaseStack) = Len(m.LocalsBaseStack) + 0
      /\ Len(r.RestoreStack) = Len(m.RestoreStack) + 0
      /\ Len(r.Scratch) = Len(m.Scratch) + 0
      /\ Len(r.SavedPosStack) - Restored(r) = Len(m.SavedPosStack) - Restored(m) + 0
  BY <1>1, <1>2, <1>4
<1>6. Len(r.CurEvalFrameStack) = Len(m.CurEvalFrameStack) + (0 + n)
  BY <1>1, <1>2
<1>. QED
  BY <1>2, <1>3, <1>5, <1>6 DEF Higher

LEMMA ContextOk == ASSUME Good(vm, task), EvalInCallingContext PROVE Ok(vm', task)
<1>1. PICK f : f = Last(vm.FrameStack)
  OBVIOUS
<1>2. f.CallMethod = "EvalInCallingContext" /\ f.CallState = Frame.CallState /\ IsFrame(f)
  BY <1>1, TopFrame DEF EvalInCallingContext, Running, Frame, Good
<1>3. f.CallMethod \in Inner /\ ~Evaluates(f, Headers) /\ "Eval" \in Inner
  BY <1>2 DEF Inner, Evaluates
<1>4. Stacks(vm) /\ IsSeq(vm.CurEvalFrameStack)
  BY DEF Good, Stacks
<1>5. CASE At("Enter")
  <2>1. PICK g, s, r : /\ g = In(f, "Exit")
                       /\ s = Append(vm.CurEvalFrameStack,
                                     vm.CurEvalFrameStack[Last(vm.CurEvalFrameStack) + 1])
                       /\ r = [vm EXCEPT !.CurEvalFrameStack = s]
    OBVIOUS
  <2>2. g.CallMethod = "EvalInCallingContext" /\ g.CallState = "Exit" /\ f.CallState = "Enter"
    BY <1>2, <1>5, <2>1, InFields DEF At
  <2>3. /\ \A kind : kind # "context" => Ct(kind, f, task) = 0 /\ Ct(kind, g, task) = 0
        /\ Ct("context", f, task) = 0 /\ Ct("context", g, task) = 1
        /\ NoLocals(f) /\ NoLocals(g)
    BY <1>2, <2>2, ContextHas
  <2>4. PICK n \in Int : n = 1
    OBVIOUS
  <2>5. Differ(f, g, task, 0, 0, n, 0, 0, 0)
    BY <2>3, <2>4 DEF Differ
  <2>6. IsSeq(s) /\ Len(s) = Len(vm.CurEvalFrameStack) + n
    BY <1>4, <2>1, <2>4, SeqAppend
  <2>7. /\ Higher(vm, r, task, 0, 0, n, 0, 0, 0) /\ r.FrameStack = vm.FrameStack
        /\ r.LocalsBaseStack = vm.LocalsBaseStack /\ r.LocalValues = vm.LocalValues
    <3>1. r = [vm EXCEPT !.CurEvalFrameStack = s]
      BY <2>1
    <3>. QED
      BY <2>6, <3>1, SavesContext
  <2>8. Adjusts(vm, r, f, g, task)
    BY <1>4, <2>5, <2>7, AdjustsBy
  <2>9. LocalsBounded(r, SetTop(vm.FrameStack, g))
    BY <1>1, <2>3, <2>7, SameLocals DEF NoLocals
  <2>10. Moves(vm, r, "Exit", task)
    BY <1>1, <2>1, <2>7, <2>8, <2>9 DEF Moves
  <2>11. vm' = Call(r, "Exit", "Eval", Frame.CallModifier, Nd)
    BY <1>5, <2>1 DEF EvalInCallingContext, Becomes, At
  <2>. QED
    BY <1>1, <1>3, <2>10, <2>11, MovesOk
<1>6. CASE At("Exit")
  <2>1. PICK g, s, r : /\ g = In(f, "Enter") /\ s = Front(vm.CurEvalFrameStack)
                       /\ r = [vm EXCEPT !.CurEvalFrameStack = s]
    OBVIOUS
  <2>2. g.CallMethod = "EvalInCallingContext" /\ g.CallState = "Enter" /\ f.CallState = "Exit"
    BY <1>2, <1>6, <2>1, InFields DEF At
  <2>3. /\ \A kind : kind # "context" => Ct(kind, f, task) = 0 /\ Ct(kind, g, task) = 0
        /\ Ct("context", f, task) = 1 /\ Ct("context", g, task) = 0
        /\ NoLocals(f) /\ NoLocals(g)
    BY <1>2, <2>2, ContextHas
  <2>4. PICK n \in Int : n = -1
    OBVIOUS
  <2>5. Differ(f, g, task, 0, 0, n, 0, 0, 0)
    BY <2>3, <2>4 DEF Differ
  <2>6. Len(vm.CurEvalFrameStack) \in Nat /\ Len(vm.CurEvalFrameStack) >= 1
    <3>1. /\ Len(vm.FrameStack) \in Nat
          /\ Len(vm.CurEvalFrameStack) =
               1 + N("calling", vm.FrameStack, task) + N("context", vm.FrameStack, task)
      BY TopFrame DEF Good, Heights
    <3>2. N("calling", vm.FrameStack, task) \in Nat /\ N("context", vm.FrameStack, task) \in Nat
      BY <3>1, OwnersFinite
    <3>. QED
      BY <3>1, <3>2
  <2>7. IsSeq(s) /\ Len(s) = Len(vm.CurEvalFrameStack) + n
    BY <1>4, <2>1, <2>4, <2>6, SeqFront
  <2>8. /\ Higher(vm, r, task, 0, 0, n, 0, 0, 0) /\ r.FrameStack = vm.FrameStack
        /\ r.LocalsBaseStack = vm.LocalsBaseStack /\ r.LocalValues = vm.LocalValues
    <3>1. r = [vm EXCEPT !.CurEvalFrameStack = s]
      BY <2>1
    <3>. QED
      BY <2>7, <3>1, SavesContext
  <2>9. Adjusts(vm, r, f, g, task)
    BY <1>4, <2>5, <2>8, AdjustsBy
  <2>10. LocalsBounded(r, SetTop(vm.FrameStack, g))
    BY <1>1, <2>3, <2>8, SameLocals DEF NoLocals
  <2>11. Moves(vm, r, "Enter", task)
    BY <1>1, <2>1, <2>8, <2>9, <2>10 DEF Moves
  <2>12. vm' = Return(r, ReturnValue)
    BY <1>6, <2>1 DEF EvalInCallingContext, Becomes, At
  <2>. QED
    BY <1>1, <1>3, <2>11, <2>12, MovesOk
<1>. QED
  BY <1>5, <1>6 DEF EvalInCallingContext

---------------------------------------------------------------------------
\* Local values, and their bases.
LEMMA FrontAny ==
  ASSUME NEW s, IsSeq(s)
  PROVE  IsSeq(Front(s)) /\ Len(Front(s)) = (IF Len(s) = 0 THEN 0 ELSE Len(s) - 1)
<1>1. Len(s) \in Nat
  BY SeqLen
<1>2. CASE Len(s) >= 1
  BY <1>1, <1>2, SeqFront
<1>3. CASE Len(s) = 0
  <2>1. s = << >>
    BY <1>3, SeqLen
  <2>2. Front(s) = SubSeq(<< >>, 1, -1)
    BY <1>3, <2>1 DEF Front
  <2>3. SubSeq(<< >>, 1, -1) = << >>
    OBVIOUS
  <2>4. << >> \in Seq({})
    OBVIOUS
  <2>5. IsSeq(<< >>)
    BY <2>4, SeqIntro
  <2>6. Len(<< >>) = 0
    OBVIOUS
  <2>. QED
    BY <1>3, <2>2, <2>3, <2>5, <2>6
<1>. QED
  BY <1>1, <1>2, <1>3

LEMMA LocalsGood ==
  ASSUME NEW t, NEW m, Good(m, t) PROVE IsSeq(m.LocalValues) /\ Len(m.LocalValues) \in Nat
BY SeqLen DEF Good, LocalsBounded

SetLocals(m, b, s) == [m EXCEPT !.LocalsBaseStack = b, !.LocalValues = s]

\* The bases, n more than before, and the values are replaced.
LocalsSet(m, r, b, n, s) ==
  /\ IsSeq(b) /\ n \in Int /\ Len(b) = Len(m.LocalsBaseStack) + n
  /\ r = SetLocals(m, b, s)

LEMMA SavesLocals ==
  ASSUME NEW t, NEW m, Good(m, t), NEW r, NEW b, NEW n, NEW s, LocalsSet(m, r, b, n, s)
  PROVE  /\ Higher(m, r, t, 0, 0, 0, n, 0, 0) /\ r.FrameStack = m.FrameStack
         /\ r.LocalsBaseStack = b /\ r.LocalValues = s
<1>1. /\ IsVm(m) /\ Stacks(m)
      /\ Len(m.LoopCounterStack) \in Nat /\ Len(m.LoopSizeStack) \in Nat
      /\ Len(m.EvalFrameStack) \in Nat /\ Len(m.CurEvalFrameStack) \in Nat
      /\ Len(m.LocalsBaseStack) \in Nat /\ Len(m.SavedPosStack) \in Nat
      /\ Len(m.RestoreStack) \in Nat /\ Len(m.Scratch) \in Nat
      /\ Restored(m) \in Nat
  BY GoodLens
<1>2. /\ IsSeq(b) /\ n \in Int /\ Len(b) = Len(m.LocalsBaseStack) + n
      /\ r = SetLocals(m, b, s)
  BY DEF LocalsSet
<1>3. /\ IsVm(r) /\ r.FrameStack = m.FrameStack /\ r.EvalFrameStack = m.EvalFrameStack
      /\ r.CurEvalFrameStack = m.CurEvalFrameStack /\ r.LoopCounterStack = m.LoopCounterStack
      /\ r.LoopSizeStack = m.LoopSizeStack /\ r.LocalsBaseStack = b
      /\ r.LocalValues = s /\ r.CatchStack = m.CatchStack
      /\ r.IsFatalFailure = m.IsFatalFailure /\ r.SavedPosStack = m.SavedPosStack
      /\ r.RestoreStack = m.RestoreStack /\ r.Scratch = m.Scratch
  BY <1>1, <1>2 DEF IsVm, SetLocals
<1>4. Stacks(r)
  BY <1>1, <1>3, <1>2 DEF Stacks
<1>5. Restored(r) = Restored(m)
  BY <1>3 DEF Restored
<1>6. /\ Len(r.LoopCounterStack) = Len(m.LoopCounterStack) + 0
      /\ Len(r.LoopSizeStack) = Len(m.LoopSizeStack) + 0
      /\ Len(r.EvalFrameStack) = Len(m.EvalFrameStack) + 0
      /\ Len(r.CurEvalFrameStack) = Len(m.CurEvalFrameStack) + (0 + 0)
      /\ Len(r.RestoreStack) = Len(m.RestoreStack) + 0
      /\ Len(r.Scratch) = Len(m.Scratch) + 0
      /\ Len(r.SavedPosStack) - Restored(r) = Len(m.SavedPosStack) - Restored(m) + 0
  BY <1>1, <1>3, <1>5
<1>7. Len(r.LocalsBaseStack) = Len(m.LocalsBaseStack) + n
  BY <1>3, <1>2
<1>. QED
  BY <1>3, <1>4, <1>6, <1>7 DEF Higher

LEMMA ChangesValues ==
  ASSUME NEW t, NEW m, Good(m, t), NEW s, NEW r, r = [m EXCEPT !.LocalValues = s]
  PROVE  /\ Higher(m, r, t, 0, 0, 0, 0, 0, 0) /\ r.FrameStack = m.FrameStack
         /\ r.LocalsBaseStack = m.LocalsBaseStack /\ r.LocalValues = s
<1>1. IsVm(m) /\ Stacks(m) /\ Len(m.LocalsBaseStack) \in Nat
  BY GoodLens
<1>2. PICK b : b = m.LocalsBaseStack
  OBVIOUS
<1>3. PICK n \in Int : n = 0
  OBVIOUS
<1>4. PICK q : q = SetLocals(m, b, s)
  OBVIOUS
<1>5. IsSeq(b) /\ Len(b) = Len(m.LocalsBaseStack) + n
  BY <1>1, <1>2, <1>3 DEF Stacks
<1>6. LocalsSet(m, q, b, n, s)
  BY <1>4, <1>5 DEF LocalsSet
<1>7. /\ Higher(m, q, t, 0, 0, 0, n, 0, 0) /\ q.FrameStack = m.FrameStack
      /\ q.LocalsBaseStack = b /\ q.LocalValues = s
  BY <1>6, SavesLocals
<1>8. q = r
  BY <1>1, <1>2, <1>4 DEF IsVm, SetLocals
<1>. QED
  BY <1>2, <1>7, <1>3, <1>8

\* Methods that change local values, and have at most one of their own.
LEMMA ValuesMove ==
  ASSUME NEW t, NEW m, Good(m, t), NEW f, f = Last(m.FrameStack),
         NEW state, NEW g, g = In(f, state),
         Differ(f, g, t, 0, 0, 0, 0, 0, 0),
         NEW s, IsSeq(s), NEW r, r = [m EXCEPT !.LocalValues = s],
         ValuesFit(m, s, f, g)
  PROVE  Moves(m, r, state, t)
<1>1. /\ Higher(m, r, t, 0, 0, 0, 0, 0, 0) /\ r.FrameStack = m.FrameStack
      /\ r.LocalsBaseStack = m.LocalsBaseStack /\ r.LocalValues = s
  BY ChangesValues
<1>2. Stacks(m)
  BY DEF Good
<1>3. Adjusts(m, r, f, g, t)
  BY <1>1, <1>2, AdjustsBy
<1>4. LocalsBounded(r, SetTop(m.FrameStack, g))
  BY <1>1, LocalsFewer
<1>. QED
  BY <1>1, <1>3, <1>4 DEF Moves

LEMMA BitwiseOk == ASSUME Good(vm, task), EvalBitwise PROVE Ok(vm', task)
<1>1. PICK f : f = Last(vm.FrameStack)
  OBVIOUS
<1>2. /\ f.CallMethod = "Eval" /\ f.Nd.type \in Bitwise2 /\ f.CallState = Frame.CallState
  BY <1>1, Evaluated DEF EvalBitwise
<1>3. IsFrame(f)
  BY <1>1, TopFrame DEF Good
<1>4. f.CallMethod \in Inner /\ ~Evaluates(f, Headers) /\ "Eval" \in Inner
  BY <1>2 DEF Inner, Evaluates, Headers, Bitwise2
<1>5. ASSUME NEW state
      PROVE  /\ Differ(f, In(f, state), task, 0, 0, 0, 0, 0, 0)
             /\ HasArgument(In(f, state)) <=> state = "Exit"
             /\ HasArgument(f) <=> f.CallState = "Exit"
             /\ ~WithLocals(f) /\ ~WithLocals(In(f, state))
             /\ \A kind : Ct(kind, f, task) = Ct(kind, In(f, state), task) \/ kind = "argument"
  <2>1. PICK g : g = In(f, state)
    OBVIOUS
  <2>2. g.CallMethod = "Eval" /\ g.Nd.type \in Bitwise2 /\ g.CallState = state
    BY <1>2, <1>3, <2>1, InFields
  <2>3. /\ \A kind : kind # "argument" => Ct(kind, f, task) = 0 /\ Ct(kind, g, task) = 0
        /\ HasArgument(g) <=> state = "Exit"
        /\ HasArgument(f) <=> f.CallState = "Exit"
        /\ ~WithLocals(f) /\ ~WithLocals(g)
    BY <1>2, <2>2, BitwiseHas
  <2>4. Differ(f, g, task, 0, 0, 0, 0, 0, 0)
    BY <2>3 DEF Differ
  <2>. QED
    BY <2>1, <2>3, <2>4
<1>6. IsSeq(vm.LocalValues) /\ Len(vm.LocalValues) \in Nat /\ IsVm(vm)
  BY LocalsGood DEF Good
<1>7. CASE At("Enter")
  <2>1. PICK g, s : g = In(f, "Step2") /\ s = vm.LocalValues
    OBVIOUS
  <2>2. vm = [vm EXCEPT !.LocalValues = s]
    BY <1>6, <2>1 DEF IsVm
  <2>3. NoLocals(f) /\ NoLocals(g) /\ ~WithLocals(g)
    BY <1>2, <1>5, <1>7, <2>1 DEF NoLocals, At
  <2>4. Differ(f, g, task, 0, 0, 0, 0, 0, 0) /\ IsSeq(s) /\ Len(s) <= Len(vm.LocalValues)
    BY <1>5, <1>6, <2>1
  <2>5. ~HasArgument(f) /\ ~HasArgument(g) /\ g = In(f, "Step2")
    BY <2>1, <2>3 DEF NoLocals
  <2>6. Moves(vm, vm, "Step2", task)
    BY <1>1, <2>2, <2>3, <2>4, <2>5, ValuesMove DEF ValuesFit
  <2>7. \A kid : Ok(EvalKid(vm, "Step2", kid), task)
    BY <1>1, <1>4, <2>6, MovesOk DEF EvalKid
  <2>8. Ok(Fail(vm), task)
    BY <1>6, FailFails DEF Ok
  <2>. QED
    BY <1>7, <2>7, <2>8 DEF EvalBitwise, Becomes, At
<1>8. CASE At("Step2")
  <2>1. PICK g, s : g = In(f, "Exit") /\ s = Append(vm.LocalValues, ReturnValue)
    OBVIOUS
  <2>2. PICK r : r = [vm EXCEPT !.LocalValues = s]
    OBVIOUS
  <2>3. IsSeq(s) /\ Len(s) = Len(vm.LocalValues) + 1
    BY <1>6, <2>1, SeqAppend
  <2>4. NoLocals(f) /\ HasArgument(g) /\ ~WithLocals(g) /\ ~NoLocals(g) /\ ~HasArgument(f)
    BY <1>2, <1>5, <1>8, <2>1 DEF NoLocals, At
  <2>5. Differ(f, g, task, 0, 0, 0, 0, 0, 0) /\ g = In(f, "Exit")
    BY <1>5, <2>1
  <2>6. Moves(vm, r, "Exit", task)
    BY <1>1, <2>2, <2>3, <2>4, <2>5, ValuesMove DEF ValuesFit
  <2>7. vm' = EvalKid(r, "Exit", 2)
    BY <1>8, <2>1, <2>2 DEF EvalBitwise, Becomes, At
  <2>. QED
    BY <1>1, <1>4, <2>6, <2>7, MovesOk DEF EvalKid
<1>9. CASE At("Exit")
  <2>1. PICK g, s : g = In(f, "Enter") /\ s = Front(vm.LocalValues)
    OBVIOUS
  <2>2. PICK r : r = [vm EXCEPT !.LocalValues = s]
    OBVIOUS
  <2>3. IsSeq(s) /\ Len(s) = (IF Len(vm.LocalValues) = 0 THEN 0 ELSE Len(vm.LocalValues) - 1)
    BY <1>6, <2>1, FrontAny
  <2>4. HasArgument(f) /\ ~NoLocals(f) /\ NoLocals(g) /\ ~WithLocals(g) /\ ~HasArgument(g)
    BY <1>2, <1>5, <1>9, <2>1 DEF NoLocals, At
  <2>5. Differ(f, g, task, 0, 0, 0, 0, 0, 0) /\ g = In(f, "Enter")
    BY <1>5, <2>1
  <2>6. Moves(vm, r, "Enter", task)
    BY <1>1, <2>2, <2>3, <2>4, <2>5, ValuesMove DEF ValuesFit
  <2>7. vm' = Return(r, BitwiseOf(Nd.type, Last(vm.LocalValues), ReturnValue))
    BY <1>9, <2>1, <2>2 DEF EvalBitwise, Becomes, At
  <2>. QED
    BY <1>1, <1>4, <2>6, <2>7, MovesOk
<1>. QED
  BY <1>7, <1>8, <1>9 DEF EvalBitwise

\* Of methods that have none of their own.
LEMMA UnmarkedValues ==
  ASSUME NEW t, NEW m, Good(m, t), Unmarked(Last(m.FrameStack)),
         NEW s, IsSeq(s), Len(s) <= Len(m.LocalValues),
         NEW r, r = [m EXCEPT !.LocalValues = s], NEW v
  PROVE  Ok(Return(r, v), t)
<1>1. PICK f, g : f = Last(m.FrameStack) /\ g = In(f, "Enter")
  OBVIOUS
<1>2. IsFrame(f)
  BY <1>1, TopFrame DEF Good
<1>3. g.CallMethod = f.CallMethod /\ g.Nd = f.Nd
  BY <1>1, <1>2, InFields
<1>4. Unmarked(f) /\ Unmarked(g)
  BY <1>1, <1>3 DEF Unmarked
<1>5. /\ NoLocals(f) /\ NoLocals(g)
      /\ \A kind : Ct(kind, f, t) = 0 /\ Ct(kind, g, t) = 0
  BY <1>4, UnmarkedHasNone
<1>6. Differ(f, g, t, 0, 0, 0, 0, 0, 0)
  BY <1>5 DEF Differ
<1>7. ~HasArgument(f) /\ ~HasArgument(g) /\ ~WithLocals(g)
  BY <1>5 DEF NoLocals
<1>8. Moves(m, r, "Enter", t)
  BY <1>1, <1>5, <1>6, <1>7, ValuesMove DEF ValuesFit
<1>9. f.CallMethod \in Inner /\ ~Evaluates(f, Headers)
  BY <1>4 DEF Unmarked, Inner, Evaluates
<1>. QED
  BY <1>1, <1>8, <1>9, MovesOk

LEMMA NegateOk == ASSUME Good(vm, task), EvalBitwiseNegate \/ EvalSet PROVE Ok(vm', task)
<1>1. Unmarked(Last(vm.FrameStack))
  <2>1. Evaluating({"BitwiseNegate", "Set"})
    BY DEF EvalBitwiseNegate, EvalSet, Evaluating
  <2>. QED
    BY <2>1, Evaluated DEF Unmarked, Headers, Bitwise2
<1>2. Keeps(vm, vm)
  BY ReadingKeeps DEF Good
<1>3. /\ \A state, mod, nd : \A method \in Inner : Ok(Call(vm, state, method, mod, nd), task)
      /\ Ok(Throw(vm), task) /\ Ok(Fail(vm), task)
  BY <1>1, <1>2, UnmarkedSteps
<1>4. "Eval" \in Inner
  BY DEF Inner
<1>5. \A state, kid : Ok(EvalKid(vm, state, kid), task)
  BY <1>3, <1>4 DEF EvalKid
<1>6. IsSeq(vm.LocalValues) /\ Len(vm.LocalValues) \in Nat
  BY LocalsGood
<1>7. CASE EvalBitwiseNegate
  <2>1. PICK s : s = Front(vm.LocalValues)
    OBVIOUS
  <2>2. PICK r : r = [vm EXCEPT !.LocalValues = s]
    OBVIOUS
  <2>3. IsSeq(s) /\ Len(s) <= Len(vm.LocalValues)
    BY <1>6, <2>1, FrontAny
  <2>4. \A v : Ok(Return(r, v), task)
    BY <1>1, <2>2, <2>3, UnmarkedValues
  <2>. QED
    BY <1>3, <1>5, <1>7, <2>1, <2>2, <2>4 DEF EvalBitwiseNegate, Becomes
<1>8. CASE EvalSet
  <2>1. PICK i : i = LocalsBase + Nd.kids[1].val + 1
    OBVIOUS
  <2>2. PICK s : s = [vm.LocalValues EXCEPT ![i] = ReturnValue]
    OBVIOUS
  <2>3. PICK r : r = [vm EXCEPT !.LocalValues = s]
    OBVIOUS
  <2>4. IsSeq(s) /\ Len(s) = Len(vm.LocalValues)
    <3>1. PICK ls, v : ls = vm.LocalValues /\ v = ReturnValue
      OBVIOUS
    <3>2. s = [ls EXCEPT ![i] = v]
      BY <2>2, <3>1
    <3>3. IsSeq(ls)
      BY <1>6, <3>1
    <3>4. IsSeq(s) /\ Len(s) = Len(ls)
      BY <3>2, <3>3, SeqExcept
    <3>. QED
      BY <3>1, <3>4
  <2>5. Len(s) <= Len(vm.LocalValues)
    BY <1>6, <2>4
  <2>6. \A v : Ok(Return(r, v), task)
    BY <1>1, <2>3, <2>4, <2>5, UnmarkedValues
  <2>7. [vm EXCEPT !.LocalValues[i] = ReturnValue] = r
    BY <2>2, <2>3
  <2>. QED
    BY <1>3, <1>5, <1>8, <2>1, <2>6, <2>7 DEF EvalSet, Becomes
<1>. QED
  BY <1>7, <1>8

---------------------------------------------------------------------------
\* The values left when a definition returns.
LEMMA SeqCut ==
  ASSUME NEW s, IsSeq(s), NEW n \in Nat,
         NEW c, c = IF Len(s) > n THEN SubSeq(s, 1, n) ELSE s
  PROVE  IsSeq(c) /\ Len(c) <= n
<1>1. PICK S : s \in Seq(S)
  BY DEF IsSeq
<1>2. Len(s) \in Nat /\ 1 \in Int /\ n \in Int
  BY <1>1
<1>3. CASE Len(s) > n
  <2>1. \A i \in 1 .. n : s[i] \in S
    BY <1>1, <1>2, <1>3
  <2>2. /\ SubSeq(s, 1, n) \in Seq(S)
        /\ Len(SubSeq(s, 1, n)) = IF 1 <= n THEN n - 1 + 1 ELSE 0
    BY <1>2, <2>1, SubSeqProperties, Z3
  <2>3. IsSeq(SubSeq(s, 1, n))
    BY <2>2, SeqIntro
  <2>4. Len(SubSeq(s, 1, n)) = n
    BY <2>2
  <2>. QED
    BY <1>3, <2>3, <2>4
<1>4. CASE ~(Len(s) > n)
  BY <1>2, <1>4
<1>. QED
  BY <1>3, <1>4

\* A definition without locals.
LEMMA DefineKeeps ==
  ASSUME NEW t, NEW m, Good(m, t), NEW f, f = Last(m.FrameStack),
         f.CallMethod = "Eval", f.Nd.type = "Define", f.Nd.val = 0, NEW state
  PROVE  Moves(m, m, state, t)
<1>1. PICK g : g = In(f, state)
  OBVIOUS
<1>2. IsFrame(f)
  BY TopFrame DEF Good
<1>3. g.CallMethod = f.CallMethod /\ g.Nd = f.Nd
  BY <1>1, <1>2, InFields
<1>4. /\ \A kind : kind # "locals" => Ct(kind, f, t) = 0 /\ Ct(kind, g, t) = 0
      /\ Ct("locals", f, t) = 0 /\ Ct("locals", g, t) = 0
      /\ ~WithLocals(f) /\ ~WithLocals(g) /\ ~HasArgument(f) /\ ~HasArgument(g)
  BY <1>3, DefineHas
<1>5. \A kind : Ct(kind, g, t) = Ct(kind, f, t)
  BY <1>4
<1>6. Keeps(m, m)
  BY ReadingKeeps DEF Good
<1>. QED
  BY <1>1, <1>4, <1>5, <1>6, KeepsMoves

\* The base of the values that are there.
WithBase(m) == Append(m.LocalsBaseStack, Len(m.LocalValues))

LEMMA DefineEnters ==
  ASSUME NEW t, NEW m, Good(m, t), NEW f, f = Last(m.FrameStack),
         f.CallMethod = "Eval", f.Nd.type = "Define", f.Nd.val # 0, f.CallState = "Enter",
         NEW b, b = WithBase(m), NEW s, IsSeq(s), NEW r, r = SetLocals(m, b, s)
  PROVE  Moves(m, r, "Exit", t)
<1>1. PICK g : g = In(f, "Exit")
  OBVIOUS
<1>2. IsFrame(f) /\ IsSeq(m.LocalsBaseStack) /\ Stacks(m) /\ Len(m.LocalsBaseStack) \in Nat
  BY TopFrame, GoodLens DEF Good, Stacks
<1>3. g.CallMethod = f.CallMethod /\ g.Nd = f.Nd /\ g.CallState = "Exit"
  BY <1>1, <1>2, InFields
<1>4. /\ \A kind : kind # "locals" => Ct(kind, f, t) = 0 /\ Ct(kind, g, t) = 0
      /\ Ct("locals", f, t) = 0 /\ Ct("locals", g, t) = 1
      /\ ~WithLocals(f) /\ WithLocals(g) /\ ~HasArgument(f) /\ ~HasArgument(g)
  BY <1>3, DefineHas
<1>5. PICK n \in Int : n = 1
  OBVIOUS
<1>6. Differ(f, g, t, 0, 0, 0, n, 0, 0)
  BY <1>4, <1>5 DEF Differ
<1>7. /\ IsSeq(b) /\ Len(b) = Len(m.LocalsBaseStack) + n
      /\ \A i \in 1 .. Len(m.LocalsBaseStack) : b[i] = m.LocalsBaseStack[i]
      /\ b[Len(m.LocalsBaseStack) + 1] = Len(m.LocalValues)
  BY <1>2, <1>5, SeqAppend DEF WithBase
<1>8. /\ Higher(m, r, t, 0, 0, 0, n, 0, 0) /\ r.FrameStack = m.FrameStack
      /\ r.LocalsBaseStack = b /\ r.LocalValues = s
  <2>1. LocalsSet(m, r, b, n, s)
    BY <1>7 DEF LocalsSet
  <2>. QED
    BY <2>1, SavesLocals
<1>9. Adjusts(m, r, f, g, t)
  BY <1>2, <1>6, <1>8, AdjustsBy
<1>10. PICK fs, k, bs : fs = m.FrameStack /\ k = Len(fs) /\ bs = m.LocalsBaseStack
  OBVIOUS
<1>11. /\ k \in Nat /\ k >= 1 /\ IsSeq(fs) /\ f = fs[k] /\ Last(fs) = f /\ LocalsBounded(m, fs)
  BY <1>10, TopFrame DEF Good
<1>12. PICK gs : gs = SetTop(fs, g)
  OBVIOUS
<1>13. /\ IsSeq(gs) /\ Len(gs) = k /\ gs[k] = g /\ Last(gs) = g
       /\ \A i \in 1 .. k - 1 : gs[i] = fs[i]
  BY <1>10, <1>11, <1>12, SeqSetTop DEF Last
<1>14. PICK h, p : /\ Bounded(fs, bs, h, p)
                   /\ Len(bs) = p[k] + 0
                   /\ AtMost(m.LocalValues, f, h[k])
  BY <1>4, <1>10, <1>11 DEF LocalsBounded
<1>15. h[k] \in Nat /\ p[k] \in Nat
  BY <1>10, <1>11, <1>14 DEF Bounded
<1>16. Len(m.LocalValues) \in Nat /\ Len(m.LocalValues) <= h[k]
  BY <1>4, <1>14, LocalsGood DEF AtMost, NoLocals
<1>17. /\ \A i \in 1 .. p[k] : b[i] = bs[i]
       /\ b[p[k] + 1] = Len(m.LocalValues) /\ Len(b) = p[k] + 1
  BY <1>5, <1>7, <1>10, <1>14, <1>15
<1>18. Bounded(gs, b, h, p)
  <2>1. WithLocals(gs[k]) => b[p[k] + 1] \in Nat /\ b[p[k] + 1] <= h[k]
    BY <1>16, <1>17
  <2>2. \A i \in 1 .. p[k] : b[i] = bs[i]
    BY <1>17
  <2>3. /\ IsSeq(fs) /\ Len(fs) = k /\ k >= 1 /\ k \in Nat
        /\ IsSeq(gs) /\ Len(gs) = k /\ \A i \in 1 .. k - 1 : gs[i] = fs[i]
        /\ Bounded(fs, bs, h, p)
    BY <1>10, <1>11, <1>13, <1>14
  <2>. QED
    BY <2>1, <2>2, <2>3, BoundedTop
<1>19. LocalsBounded(r, gs)
  <2>1. AtMost(r.LocalValues, g, h[k])
    BY <1>4 DEF AtMost, NoLocals
  <2>2. /\ Bounded(gs, r.LocalsBaseStack, h, p)
        /\ Len(r.LocalsBaseStack) = p[Len(gs)] + (IF WithLocals(Last(gs)) THEN 1 ELSE 0)
        /\ AtMost(r.LocalValues, Last(gs), h[Len(gs)])
    BY <1>4, <1>8, <1>13, <1>17, <1>18, <2>1
  <2>. QED
    BY <1>8, <2>2 DEF LocalsBounded
<1>. QED
  BY <1>1, <1>8, <1>9, <1>10, <1>12, <1>19 DEF Moves

LEMMA DefineExits ==
  ASSUME NEW t, NEW m, Good(m, t), NEW f, f = Last(m.FrameStack), Len(m.FrameStack) >= 2,
         f.CallMethod = "Eval", f.Nd.type = "Define", f.Nd.val # 0, f.CallState = "Exit",
         NEW b, b = Front(m.LocalsBaseStack), NEW base, base = Last(m.LocalsBaseStack),
         NEW s, s = (IF Len(m.LocalValues) > base THEN SubSeq(m.LocalValues, 1, base)
                     ELSE m.LocalValues),
         NEW r, r = SetLocals(m, b, s)
  PROVE  Moves(m, r, "Enter", t)
<1>1. PICK g : g = In(f, "Enter")
  OBVIOUS
<1>2. IsFrame(f) /\ IsSeq(m.LocalsBaseStack) /\ Stacks(m) /\ Len(m.LocalsBaseStack) \in Nat
  BY TopFrame, GoodLens DEF Good, Stacks
<1>3. g.CallMethod = f.CallMethod /\ g.Nd = f.Nd /\ g.CallState = "Enter"
  BY <1>1, <1>2, InFields
<1>4. /\ \A kind : kind # "locals" => Ct(kind, f, t) = 0 /\ Ct(kind, g, t) = 0
      /\ Ct("locals", f, t) = 1 /\ Ct("locals", g, t) = 0
      /\ WithLocals(f) /\ ~WithLocals(g) /\ ~HasArgument(f) /\ ~HasArgument(g)
  BY <1>3, DefineHas
<1>5. PICK n \in Int : n = -1
  OBVIOUS
<1>6. Differ(f, g, t, 0, 0, 0, n, 0, 0)
  BY <1>4, <1>5 DEF Differ
<1>7. PICK fs, k, bs : fs = m.FrameStack /\ k = Len(fs) /\ bs = m.LocalsBaseStack
  OBVIOUS
<1>8. /\ k \in Nat /\ k >= 1 /\ IsSeq(fs) /\ f = fs[k] /\ Last(fs) = f /\ LocalsBounded(m, fs)
  BY <1>7, TopFrame DEF Good
<1>9. PICK gs : gs = SetTop(fs, g)
  OBVIOUS
<1>10. /\ IsSeq(gs) /\ Len(gs) = k /\ gs[k] = g /\ Last(gs) = g
       /\ \A i \in 1 .. k - 1 : gs[i] = fs[i]
  BY <1>7, <1>8, <1>9, SeqSetTop DEF Last
<1>11. PICK h, p : /\ Bounded(fs, bs, h, p)
                   /\ Len(bs) = p[k] + 1
  BY <1>4, <1>7, <1>8 DEF LocalsBounded
<1>12. h[k] \in Nat /\ p[k] \in Nat
  BY <1>7, <1>8, <1>11 DEF Bounded
<1>13. base \in Nat /\ base <= h[k]
  <2>1. base = bs[p[k] + 1]
    BY <1>7, <1>11 DEF Last
  <2>2. k \in 1 .. Len(fs)
    BY <1>7, <1>8
  <2>3. bs[p[k] + 1] \in Nat /\ bs[p[k] + 1] <= h[k]
    BY <1>4, <1>8, <1>11, <2>2 DEF Bounded
  <2>. QED
    BY <2>1, <2>3
<1>14. /\ IsSeq(b) /\ Len(b) = p[k]
       /\ \A i \in 1 .. p[k] : b[i] = bs[i]
  <2>1. Len(bs) >= 1 /\ Len(bs) - 1 = p[k] /\ IsSeq(bs)
    BY <1>2, <1>7, <1>11, <1>12
  <2>2. /\ IsSeq(Front(bs)) /\ Len(Front(bs)) = Len(bs) - 1
        /\ \A i \in 1 .. Len(bs) - 1 : Front(bs)[i] = bs[i]
    BY <2>1, SeqFront
  <2>. QED
    BY <1>7, <2>1, <2>2
<1>15. Bounded(gs, b, h, p)
  <2>1. WithLocals(gs[k]) => b[p[k] + 1] \in Nat /\ b[p[k] + 1] <= h[k]
    BY <1>4, <1>10
  <2>2. \A i \in 1 .. p[k] : b[i] = bs[i]
    BY <1>14
  <2>. QED
    BY <1>7, <1>8, <1>10, <1>11, <2>1, <2>2, BoundedTop
<1>16. IsSeq(s) /\ Len(s) \in Nat /\ Len(s) <= h[k]
  <2>1. PICK vs : vs = m.LocalValues
    OBVIOUS
  <2>2. IsSeq(vs)
    BY <2>1, LocalsGood
  <2>3. s = IF Len(vs) > base THEN SubSeq(vs, 1, base) ELSE vs
    BY <2>1
  <2>4. IsSeq(s) /\ Len(s) <= base
    BY <1>13, <2>2, <2>3, SeqCut
  <2>5. Len(s) \in Nat
    BY <2>4, SeqLen
  <2>. QED
    BY <1>12, <1>13, <2>4, <2>5
<1>17. Len(b) = Len(m.LocalsBaseStack) + n
  BY <1>5, <1>7, <1>11, <1>12, <1>14
<1>18. /\ Higher(m, r, t, 0, 0, 0, n, 0, 0) /\ r.FrameStack = m.FrameStack
      /\ r.LocalsBaseStack = b /\ r.LocalValues = s
  <2>1. LocalsSet(m, r, b, n, s)
    BY <1>17, <1>14 DEF LocalsSet
  <2>. QED
    BY <2>1, SavesLocals
<1>19. Adjusts(m, r, f, g, t)
  BY <1>2, <1>6, <1>18, AdjustsBy
<1>20. LocalsBounded(r, gs)
  <2>1. AtMost(r.LocalValues, g, h[k])
    BY <1>4, <1>18, <1>16 DEF AtMost
  <2>2. /\ Bounded(gs, r.LocalsBaseStack, h, p)
        /\ Len(r.LocalsBaseStack) = p[Len(gs)] + (IF WithLocals(Last(gs)) THEN 1 ELSE 0)
        /\ AtMost(r.LocalValues, Last(gs), h[Len(gs)])
    BY <1>4, <1>18, <1>10, <1>12, <1>14, <1>15, <2>1
  <2>. QED
    BY <1>18, <1>16, <2>2 DEF LocalsBounded
<1>. QED
  BY <1>1, <1>18, <1>19, <1>7, <1>9, <1>20 DEF Moves

LEMMA DefineOk == ASSUME Good(vm, task), EvalDefine PROVE Ok(vm', task)
<1>1. PICK f : f = Last(vm.FrameStack)
  OBVIOUS
<1>2. Evaluating({"Define"})
  BY DEF EvalDefine
<1>3. /\ f.CallMethod = "Eval" /\ f.Nd = Nd /\ f.CallState = Frame.CallState
      /\ Nd.type = "Define"
  BY <1>1, <1>2, Evaluated
<1>4. f.CallMethod \in Inner /\ ~Evaluates(f, Headers) /\ "Eval" \in Inner
  BY <1>3 DEF Inner, Evaluates, Headers
<1>5. Len(vm.FrameStack) >= 2
  BY <1>1, <1>4, QuietTop DEF Quiet
<1>6. ASSUME NEW r, NEW state, Moves(vm, r, state, task)
      PROVE  /\ \A kid : Ok(EvalKid(r, state, kid), task)
             /\ state = "Enter" => \A v : Ok(Return(r, v), task)
  BY <1>1, <1>4, <1>6, MovesOk DEF EvalKid
<1>7. CASE At("Enter") /\ Nd.val = 0
  <2>1. Moves(vm, vm, "Exit", task)
    BY <1>1, <1>3, <1>7, DefineKeeps
  <2>2. vm' = EvalKid(vm, "Exit", 1)
    BY <1>7 DEF EvalDefine, Becomes, At
  <2>. QED
    BY <1>6, <2>1, <2>2
<1>8. CASE At("Enter") /\ Nd.val # 0
  <2>1. PICK n : n = Nd.val
    OBVIOUS
  <2>2. n \in Nat
    BY <1>8, <2>1 DEF EvalDefine, At
  <2>3. PICK b : b = WithBase(vm)
    OBVIOUS
  <2>4. PICK s : s = vm.LocalValues \o [i \in 1 .. n |-> 0]
    OBVIOUS
  <2>5. IsSeq(s)
    BY <2>2, <2>4, LocalsGood, SeqConcat
  <2>6. PICK r : r = SetLocals(vm, b, s)
    OBVIOUS
  <2>7. Moves(vm, r, "Exit", task)
    BY <1>1, <1>3, <1>8, <2>3, <2>5, <2>6, DefineEnters DEF At
  <2>8. vm' = EvalKid([vm EXCEPT !.LocalsBaseStack = Append(@, Len(vm.LocalValues)),
                                 !.LocalValues = @ \o [i \in 1 .. n |-> 0]], "Exit", 1)
    BY <1>8, <2>1 DEF EvalDefine, Becomes, At
  <2>9. vm' = EvalKid(r, "Exit", 1)
    <3>1. IsVm(vm)
      BY DEF Good
    <3>2. [vm EXCEPT !.LocalsBaseStack = Append(@, Len(vm.LocalValues)),
                     !.LocalValues = @ \o [i \in 1 .. n |-> 0]] = r
      BY <2>3, <2>4, <2>6, <3>1 DEF SetLocals, IsVm, WithBase
    <3>. QED
      BY <2>8, <3>2
  <2>. QED
    BY <1>6, <2>7, <2>9
<1>9. CASE At("Exit") /\ Nd.val = 0
  <2>1. Moves(vm, vm, "Enter", task)
    BY <1>1, <1>3, <1>9, DefineKeeps
  <2>2. vm' = Return(vm, 0)
    BY <1>9 DEF EvalDefine, Becomes, At
  <2>. QED
    BY <1>6, <2>1, <2>2
<1>10. CASE At("Exit") /\ Nd.val # 0
  <2>1. PICK base, b : base = Last(vm.LocalsBaseStack) /\ b = Front(vm.LocalsBaseStack)
    OBVIOUS
  <2>2. PICK s : s = IF Len(vm.LocalValues) > base THEN SubSeq(vm.LocalValues, 1, base)
                     ELSE vm.LocalValues
    OBVIOUS
  <2>3. PICK r : r = SetLocals(vm, b, s)
    OBVIOUS
  <2>4. Moves(vm, r, "Enter", task)
    BY <1>1, <1>3, <1>5, <1>10, <2>1, <2>2, <2>3, DefineExits DEF At
  <2>5. vm' = Return([vm EXCEPT !.LocalValues = IF Len(@) > base THEN SubSeq(@, 1, base) ELSE @,
                                !.LocalsBaseStack = Front(@)], 0)
    BY <1>10, <2>1 DEF EvalDefine, Becomes, At, LocalsBase
  <2>6. vm' = Return(r, 0)
    <3>1. IsVm(vm)
      BY DEF Good
    <3>2. [vm EXCEPT !.LocalValues = IF Len(@) > base THEN SubSeq(@, 1, base) ELSE @,
                     !.LocalsBaseStack = Front(@)] = r
      BY <2>1, <2>2, <2>3, <3>1 DEF SetLocals, IsVm
    <3>. QED
      BY <2>5, <3>2
  <2>. QED
    BY <1>6, <2>4, <2>6
<1>. QED
  BY <1>7, <1>8, <1>9, <1>10 DEF EvalDefine

---------------------------------------------------------------------------
\* A parameter that is a value.
LEMMA SetTopTwice ==
  ASSUME NEW s, IsSeq(s), Len(s) >= 1, NEW v, NEW w
  PROVE  SetTop(SetTop(s, v), w) = SetTop(s, w)
<1>1. PICK n, e : n = Len(s) /\ e = [s EXCEPT ![n] = v]
  OBVIOUS
<1>2. PICK S : s \in Seq(S)
  BY DEF IsSeq
<1>3. n \in Nat /\ n \in 1 .. n /\ DOMAIN s = 1 .. n
  BY <1>1, <1>2
<1>4. SetTop(s, v) = e /\ Len(e) = n
  BY <1>1, SeqSetTop DEF SetTop
<1>5. [e EXCEPT ![n] = w] = [s EXCEPT ![n] = w]
  BY <1>1, <1>3
<1>. QED
  BY <1>1, <1>4, <1>5 DEF SetTop

LEMMA GotoReturned ==
  ASSUME NEW t, NEW m, Good(m, t), Unmarked(Last(m.FrameStack)), NEW state, NEW v
  PROVE  Ok([Goto(m, state) EXCEPT
               !.FrameStack = SetTop(@, [Last(@) EXCEPT !.ReturnValue = v])], t)
<1>1. PICK f, fs : f = Last(m.FrameStack) /\ fs = m.FrameStack
  OBVIOUS
<1>2. PICK e, g : e = In(f, state) /\ g = [e EXCEPT !.ReturnValue = v]
  OBVIOUS
<1>3. IsFrame(f) /\ IsSeq(fs) /\ Len(fs) \in Nat /\ Len(fs) >= 1 /\ IsVm(m)
  BY <1>1, TopFrame DEF Good
<1>4. IsFrame(e)
  BY <1>2, <1>3, InFields
<1>5. IsFrame(g) /\ Alike(e, g)
  BY <1>2, <1>4 DEF IsFrame, Alike
<1>6. f.CallMethod \in Inner /\ ~Evaluates(f, Headers)
  BY <1>1 DEF Unmarked, Inner, Evaluates
<1>7. Quiet(fs)
  BY <1>1, <1>6, QuietTop
<1>8. Keeps(m, m)
  BY <1>3, ReadingKeeps
<1>9. Moves(m, m, state, t)
  BY <1>8, UnmarkedMoves
<1>10. Good(With(m, SetTop(fs, g)), t)
  BY <1>1, <1>2, <1>5, <1>6, <1>7, <1>9, Going
<1>11. PICK es : es = SetTop(fs, e)
  OBVIOUS
<1>12. Last(es) = e
  BY <1>3, <1>11, SeqSetTop DEF Last
<1>13. PICK q : q = Goto(m, state)
  OBVIOUS
<1>14. q = With(m, es)
  BY <1>1, <1>2, <1>11, <1>13 DEF Goto, With, In
<1>15. IsVm(q) /\ q.FrameStack = es
  BY <1>3, <1>14, WithRest DEF Rest
<1>16. PICK gs : gs = SetTop(es, g)
  OBVIOUS
<1>17. [q EXCEPT !.FrameStack = SetTop(@, [Last(@) EXCEPT !.ReturnValue = v])] = With(q, gs)
  BY <1>2, <1>12, <1>15, <1>16 DEF With
<1>18. With(q, gs) = With(m, gs)
  BY <1>3, <1>14, WithWith
<1>19. gs = SetTop(fs, g)
  BY <1>3, <1>11, <1>16, SetTopTwice
<1>. QED
  BY <1>10, <1>13, <1>17, <1>18, <1>19 DEF Ok

LEMMA ParamOk == ASSUME Good(vm, task), EvalParam PROVE Ok(vm', task)
<1>1. Unmarked(Last(vm.FrameStack))
  <2>1. Evaluating({"Param"})
    BY DEF EvalParam
  <2>. QED
    BY <2>1, Evaluated DEF Unmarked, Headers, Bitwise2
<1>2. Keeps(vm, vm)
  BY ReadingKeeps DEF Good
<1>3. /\ \A state, mod, nd : \A method \in Inner : Ok(Call(vm, state, method, mod, nd), task)
      /\ \A v : Ok(Return(vm, v), task)
      /\ Ok(Throw(vm), task)
  BY <1>1, <1>2, UnmarkedSteps
<1>4. "EvalInCallingContext" \in Inner
  BY DEF Inner
<1>5. CASE At("Exit")
  BY <1>3, <1>5 DEF EvalParam, At, Becomes
<1>6. CASE At("Enter")
  <2>1. CASE vm.EvalFrameStack = << >>
    BY <1>3, <1>6, <2>1 DEF EvalParam, At, Becomes
  <2>2. CASE vm.EvalFrameStack # << >>
    <3>1. PICK called, i : called = vm.EvalFrameStack[CurrentEvalFrame] /\ i = Nd.val + 1
      OBVIOUS
    <3>2. vm' = IF i > Len(called.DefinedFrame.params) THEN Throw(vm)
                ELSE IF called.DefinedFrame.params[i] = "ParamValues"
                THEN [Goto(vm, "Exit") EXCEPT
                        !.FrameStack = SetTop(@, [Last(@) EXCEPT !.ReturnValue = called.Values[i]])]
                ELSE Call(vm, "Exit", "EvalInCallingContext", Frame.CallModifier,
                          called.Caller.kids[i])
      BY <1>6, <2>2, <3>1 DEF EvalParam, At, Becomes
    <3>3. PICK v : v = called.Values[i]
      OBVIOUS
    <3>4. Ok([Goto(vm, "Exit") EXCEPT
                !.FrameStack = SetTop(@, [Last(@) EXCEPT !.ReturnValue = v])], task)
      BY <1>1, GotoReturned
    <3>. QED
      BY <1>3, <1>4, <3>2, <3>3, <3>4
  <2>. QED
    BY <2>1, <2>2
<1>. QED
  BY <1>5, <1>6 DEF EvalParam

---------------------------------------------------------------------------
\* The TableHandlers of the Reader and of the Writer.
TrueIn(s) == {i \in DOMAIN s : s[i]}

LEMMA BooleanAppend ==
  ASSUME NEW s \in Seq(BOOLEAN), NEW b \in BOOLEAN
  PROVE  /\ Append(s, b) \in Seq(BOOLEAN) /\ Len(Append(s, b)) = Len(s) + 1
         /\ Cardinality(TrueIn(s)) \in Nat
         /\ b => Cardinality(TrueIn(Append(s, b))) = Cardinality(TrueIn(s)) + 1
         /\ ~b => Cardinality(TrueIn(Append(s, b))) = Cardinality(TrueIn(s))
<1>1. PICK n \in Nat : n = Len(s) /\ DOMAIN s = 1 .. n
  OBVIOUS
<1>2. PICK e : e = Append(s, b)
  OBVIOUS
<1>3. e \in Seq(BOOLEAN) /\ Len(e) = n + 1 /\ DOMAIN e = 1 .. n + 1
  BY <1>1, <1>2
<1>4. IsSeq(s)
  BY SeqIntro
<1>5. e[n + 1] = b /\ \A i \in 1 .. n : e[i] = s[i]
  BY <1>1, <1>2, <1>4, SeqAppend
<1>6. IsFiniteSet(TrueIn(s)) /\ Cardinality(TrueIn(s)) \in Nat /\ n + 1 \notin TrueIn(s)
  <2>1. IsFiniteSet(1 .. n) /\ n + 1 \notin 1 .. n
    BY <1>1, FS_Interval
  <2>2. TrueIn(s) \subseteq 1 .. n
    BY <1>1 DEF TrueIn
  <2>3. IsFiniteSet(TrueIn(s)) /\ n + 1 \notin TrueIn(s)
    BY <2>1, <2>2, FS_Subset
  <2>. QED
    BY <2>3, FS_CardinalityType
<1>7. \A i : i \in 1 .. n + 1 <=> i \in 1 .. n \/ i = n + 1
  BY <1>1
<1>8. ASSUME b PROVE Cardinality(TrueIn(e)) = Cardinality(TrueIn(s)) + 1
  <2>1. TrueIn(e) = TrueIn(s) \cup {n + 1}
    BY <1>1, <1>3, <1>5, <1>7, <1>8, Zenon DEF TrueIn
  <2>2. Cardinality(TrueIn(s) \cup {n + 1}) = Cardinality(TrueIn(s)) + 1
    BY <1>6, FS_AddElement
  <2>. QED
    BY <2>1, <2>2
<1>9. ASSUME ~b PROVE Cardinality(TrueIn(e)) = Cardinality(TrueIn(s))
  <2>1. TrueIn(e) = TrueIn(s)
    BY <1>1, <1>3, <1>5, <1>7, <1>9, Zenon DEF TrueIn
  <2>. QED
    BY <2>1
<1>. QED
  BY <1>1, <1>2, <1>3, <1>6, <1>8, <1>9

LEMMA BooleanFront ==
  ASSUME NEW s \in Seq(BOOLEAN), Len(s) >= 1
  PROVE  /\ Front(s) \in Seq(BOOLEAN) /\ Len(Front(s)) = Len(s) - 1
         /\ Last(s) \in BOOLEAN /\ Cardinality(TrueIn(Front(s))) \in Nat
         /\ Last(s) => Cardinality(TrueIn(s)) = Cardinality(TrueIn(Front(s))) + 1
         /\ ~Last(s) => Cardinality(TrueIn(s)) = Cardinality(TrueIn(Front(s)))
<1>1. PICK n \in Nat : n = Len(s) - 1 /\ Len(s) = n + 1
  OBVIOUS
<1>2. PICK e, b : e = Front(s) /\ b = Last(s)
  OBVIOUS
<1>3. IsSeq(s)
  BY SeqIntro
<1>4. IsSeq(e) /\ Len(e) = n /\ \A i \in 1 .. n : e[i] = s[i]
  BY <1>1, <1>2, <1>3, SeqFront
<1>5. b = s[n + 1] /\ b \in BOOLEAN /\ \A i \in 1 .. n : s[i] \in BOOLEAN
  BY <1>1, <1>2 DEF Last
<1>6. e \in Seq(BOOLEAN)
  <2>1. PICK S : e \in Seq(S)
    BY <1>4 DEF IsSeq
  <2>2. \A i \in 1 .. n : e[i] \in BOOLEAN
    BY <1>4, <1>5, Zenon
  <2>3. e = [i \in 1 .. n |-> e[i]]
    BY <1>4, <2>1
  <2>4. [i \in 1 .. n |-> e[i]] \in [1 .. n -> BOOLEAN]
    BY <2>2, Zenon
  <2>5. e \in [1 .. n -> BOOLEAN]
    BY <2>3, <2>4, Zenon
  <2>. QED
    BY <2>5
<1>7. s = Append(e, b)
  <2>1. PICK S : e \in Seq(S) /\ s \in Seq(S) /\ b \in S
    BY <1>5, <1>6
  <2>2. Append(e, b) \in Seq(S) /\ Len(Append(e, b)) = n + 1
    BY <1>4, <2>1
  <2>3. Append(e, b)[n + 1] = b /\ \A i \in 1 .. n : Append(e, b)[i] = e[i]
    BY <1>4, SeqAppend
  <2>4. \A i \in 1 .. n + 1 : Append(e, b)[i] = s[i]
    <3>1. \A i \in 1 .. n + 1 : i \in 1 .. n \/ i = n + 1
      BY <1>1
    <3>. QED
      BY <1>4, <1>5, <2>3, <3>1, Zenon
  <2>5. PICK a : a = Append(e, b)
    OBVIOUS
  <2>6. a \in Seq(S) /\ s \in Seq(S) /\ Len(a) = Len(s) /\ \A i \in 1 .. Len(s) : a[i] = s[i]
    BY <1>1, <2>1, <2>2, <2>4, <2>5
  <2>. QED
    BY <2>5, <2>6
<1>8. /\ Cardinality(TrueIn(e)) \in Nat
      /\ b => Cardinality(TrueIn(Append(e, b))) = Cardinality(TrueIn(e)) + 1
      /\ ~b => Cardinality(TrueIn(Append(e, b))) = Cardinality(TrueIn(e))
  BY <1>5, <1>6, BooleanAppend
<1>. QED
  BY <1>1, <1>2, <1>4, <1>5, <1>6, <1>7, <1>8, Zenon

\* What a TableHandler may change, and that it makes its stack n higher.
TablesBy(m, r, t, n) ==
  /\ IsVm(r) /\ n \in Int
  /\ r.FrameStack = m.FrameStack /\ r.EvalFrameStack = m.EvalFrameStack
  /\ r.CurEvalFrameStack = m.CurEvalFrameStack /\ r.LoopCounterStack = m.LoopCounterStack
  /\ r.LoopSizeStack = m.LoopSizeStack /\ r.LocalsBaseStack = m.LocalsBaseStack
  /\ r.LocalValues = m.LocalValues /\ r.CatchStack = m.CatchStack
  /\ r.IsFatalFailure = m.IsFatalFailure
  /\ IsSeq(r.SavedPosStack) /\ r.RestoreStack \in Seq(BOOLEAN) /\ IsSeq(r.Scratch)
  /\ Len(r.SavedPosStack) - Restored(r) = Len(m.SavedPosStack) - Restored(m)
  /\ t.expand => Len(r.RestoreStack) = Len(m.RestoreStack) + n /\ r.Scratch = m.Scratch
  /\ ~t.expand => Len(r.Scratch) = Len(m.Scratch) + n /\ r.RestoreStack = m.RestoreStack

LEMMA TablesHigher ==
  ASSUME NEW t, NEW m, Good(m, t), NEW r, NEW n, TablesBy(m, r, t, n)
  PROVE  Higher(m, r, t, 0, 0, 0, 0, 0, n)
<1>1. /\ Stacks(m)
      /\ Len(m.LoopCounterStack) \in Nat /\ Len(m.LoopSizeStack) \in Nat
      /\ Len(m.EvalFrameStack) \in Nat /\ Len(m.CurEvalFrameStack) \in Nat
      /\ Len(m.LocalsBaseStack) \in Nat /\ Len(m.SavedPosStack) \in Nat
      /\ Restored(m) \in Nat
  BY GoodLens
<1>2. Stacks(r)
  BY <1>1 DEF TablesBy, Stacks
<1>3. /\ Len(r.LoopCounterStack) = Len(m.LoopCounterStack) + 0
      /\ Len(r.LoopSizeStack) = Len(m.LoopSizeStack) + 0
      /\ Len(r.EvalFrameStack) = Len(m.EvalFrameStack) + 0
      /\ Len(r.CurEvalFrameStack) = Len(m.CurEvalFrameStack) + (0 + 0)
      /\ Len(r.LocalsBaseStack) = Len(m.LocalsBaseStack) + 0
  BY <1>1 DEF TablesBy
<1>4. Len(r.SavedPosStack) - Restored(r) = Len(m.SavedPosStack) - Restored(m) + 0
  <2>1. PICK d \in Int : d = Len(m.SavedPosStack) - Restored(m)
    BY <1>1
  <2>. QED
    BY <2>1 DEF TablesBy
<1>. QED
  BY <1>2, <1>3, <1>4 DEF TablesBy, Higher

LEMMA TableMoves ==
  ASSUME NEW t, NEW m, Good(m, t), NEW f, f = Last(m.FrameStack),
         f.CallMethod = "Eval", f.Nd.type = "Table", NEW state, NEW g, g = In(f, state),
         NEW r, NEW n, TablesBy(m, r, t, n), Ct("table", g, t) = Ct("table", f, t) + n
  PROVE  Moves(m, r, state, t)
<1>1. IsFrame(f) /\ Stacks(m)
  BY TopFrame DEF Good
<1>2. g.CallMethod = f.CallMethod /\ g.Nd = f.Nd
  BY <1>1, InFields
<1>3. /\ NoLocals(f) /\ NoLocals(g)
      /\ \A kind : kind # "table" => Ct(kind, f, t) = 0 /\ Ct(kind, g, t) = 0
  BY <1>2, TableHas
<1>4. Differ(f, g, t, 0, 0, 0, 0, 0, n)
  BY <1>3 DEF Differ
<1>5. Higher(m, r, t, 0, 0, 0, 0, 0, n)
  BY TablesHigher
<1>6. n \in Int
  BY DEF TablesBy
<1>7. Adjusts(m, r, f, g, t)
  BY <1>1, <1>4, <1>5, <1>6, AdjustsBy
<1>8. /\ r.FrameStack = m.FrameStack /\ r.LocalsBaseStack = m.LocalsBaseStack
      /\ r.LocalValues = m.LocalValues
  BY DEF TablesBy
<1>9. LocalsBounded(r, SetTop(m.FrameStack, g))
  BY <1>3, <1>8, SameLocals DEF NoLocals
<1>. QED
  BY <1>7, <1>8, <1>9 DEF Moves

\* What the Reader keeps of the tables.
Tabled(m, pos, saved, table, restore) ==
  [m EXCEPT !.ReadPos = pos, !.SavedPosStack = saved, !.Table = table, !.RestoreStack = restore]

LEMMA TabledBy ==
  ASSUME NEW t, NEW m, Good(m, t), t.expand, NEW n \in Int, NEW pos, NEW table,
         NEW saved, IsSeq(saved), NEW restore \in Seq(BOOLEAN),
         Len(restore) = Len(m.RestoreStack) + n,
         Len(saved) - Cardinality(TrueIn(restore)) = Len(m.SavedPosStack) - Restored(m),
         NEW r, r = Tabled(m, pos, saved, table, restore)
  PROVE  TablesBy(m, r, t, n)
<1>1. IsVm(m) /\ Stacks(m)
  BY DEF Good
<1>2. /\ IsVm(r) /\ r.FrameStack = m.FrameStack /\ r.EvalFrameStack = m.EvalFrameStack
      /\ r.CurEvalFrameStack = m.CurEvalFrameStack /\ r.LoopCounterStack = m.LoopCounterStack
      /\ r.LoopSizeStack = m.LoopSizeStack /\ r.LocalsBaseStack = m.LocalsBaseStack
      /\ r.LocalValues = m.LocalValues /\ r.CatchStack = m.CatchStack
      /\ r.IsFatalFailure = m.IsFatalFailure /\ r.SavedPosStack = saved
      /\ r.RestoreStack = restore /\ r.Scratch = m.Scratch
  BY <1>1 DEF IsVm, Tabled
<1>3. Restored(r) = Cardinality(TrueIn(restore))
  BY <1>2 DEF Restored, TrueIn
<1>4. IsSeq(m.Scratch)
  BY <1>1 DEF Stacks
<1>. QED
  BY <1>2, <1>3, <1>4 DEF TablesBy

LEMMA ReaderPushes ==
  ASSUME NEW t, NEW m, Good(m, t), t.expand, NEW key
  PROVE  TablesBy(m, ReaderTablePush(m, key), t, 1)
<1>1. /\ IsVm(m) /\ m.RestoreStack \in Seq(BOOLEAN) /\ IsSeq(m.SavedPosStack)
      /\ Len(m.SavedPosStack) \in Nat /\ Len(m.RestoreStack) \in Nat
  BY GoodLens DEF Stacks
<1>2. PICK yes, no : yes = TRUE /\ no = FALSE
  OBVIOUS
<1>3. yes \in BOOLEAN /\ yes /\ no \in BOOLEAN /\ ~no
  BY <1>2, Zenon
<1>4. PICK s : s = m.RestoreStack
  OBVIOUS
<1>5. PICK c \in Nat : c = Restored(m) /\ c = Cardinality(TrueIn(s))
  BY <1>4, GoodLens DEF Restored, TrueIn
<1>6. /\ Append(s, yes) \in Seq(BOOLEAN) /\ Len(Append(s, yes)) = Len(s) + 1
      /\ Cardinality(TrueIn(Append(s, yes))) = c + 1
      /\ Append(s, no) \in Seq(BOOLEAN) /\ Len(Append(s, no)) = Len(s) + 1
      /\ Cardinality(TrueIn(Append(s, no))) = c
  BY <1>1, <1>3, <1>4, <1>5, BooleanAppend, Zenon
<1>7. PICK n \in Int : n = 1
  OBVIOUS
<1>8. PICK r : r = ReaderTablePush(m, key)
  OBVIOUS
<1>9. r = IF key \in DOMAIN m.Table
          THEN [PushPeekPos(m) EXCEPT !.ReadPos = m.Table[key], !.RestoreStack = Append(@, yes)]
          ELSE [m EXCEPT !.Table = (key :> m.ReadPos) @@ @, !.RestoreStack = Append(@, no)]
  BY <1>2, <1>8, Zenon DEF ReaderTablePush
<1>10. CASE key \in DOMAIN m.Table
  <2>1. PICK pos, table : pos = m.Table[key] /\ table = m.Table
    OBVIOUS
  <2>2. PICK saved : saved = Append(m.SavedPosStack, m.ReadPos)
    OBVIOUS
  <2>3. PICK restore : restore = Append(s, yes)
    OBVIOUS
  <2>4. r = Tabled(m, pos, saved, table, restore)
    <3>1. r = [PushPeekPos(m) EXCEPT !.ReadPos = m.Table[key], !.RestoreStack = Append(@, yes)]
      BY <1>9, <1>10, Zenon
    <3>2. PICK q : q = PushPeekPos(m)
      OBVIOUS
    <3>3. IsVm(q) /\ q = [m EXCEPT !.SavedPosStack = saved] /\ q.RestoreStack = s
      BY <1>1, <1>4, <2>2, <3>2 DEF PushPeekPos, IsVm
    <3>4. r = [q EXCEPT !.ReadPos = pos, !.RestoreStack = restore]
      BY <2>1, <2>3, <3>1, <3>2, <3>3
    <3>5. r = [m EXCEPT !.SavedPosStack = saved, !.ReadPos = pos, !.RestoreStack = restore]
      BY <1>1, <3>3, <3>4 DEF IsVm
    <3>6. m.Table = table
      BY <2>1
    <3>. QED
      BY <1>1, <3>5, <3>6 DEF Tabled, IsVm
  <2>5. IsSeq(saved) /\ Len(saved) = Len(m.SavedPosStack) + 1
    BY <1>1, <2>2, SeqAppend
  <2>6. restore \in Seq(BOOLEAN) /\ Len(restore) = Len(m.RestoreStack) + n
    BY <1>4, <1>6, <1>7, <2>3
  <2>7. Len(saved) - Cardinality(TrueIn(restore)) = Len(m.SavedPosStack) - Restored(m)
    <3>1. Cardinality(TrueIn(restore)) = c + 1
      BY <1>6, <2>3
    <3>. QED
      BY <1>1, <1>5, <2>5, <3>1
  <2>8. TablesBy(m, r, t, n)
    BY <2>4, <2>5, <2>6, <2>7, TabledBy
  <2>. QED
    BY <1>7, <1>8, <2>8
<1>11. CASE key \notin DOMAIN m.Table
  <2>1. PICK pos, saved : pos = m.ReadPos /\ saved = m.SavedPosStack
    OBVIOUS
  <2>2. PICK table : table = (key :> m.ReadPos) @@ m.Table
    OBVIOUS
  <2>3. PICK restore : restore = Append(s, no)
    OBVIOUS
  <2>4. r = Tabled(m, pos, saved, table, restore)
    <3>1. r = [m EXCEPT !.Table = (key :> m.ReadPos) @@ @, !.RestoreStack = Append(@, no)]
      BY <1>9, <1>11, Zenon
    <3>2. r = [m EXCEPT !.Table = table, !.RestoreStack = restore]
      BY <1>4, <2>2, <2>3, <3>1
    <3>. QED
      BY <1>1, <2>1, <3>2 DEF Tabled, IsVm
  <2>5. IsSeq(saved) /\ Len(saved) = Len(m.SavedPosStack)
    BY <1>1, <2>1
  <2>6. restore \in Seq(BOOLEAN) /\ Len(restore) = Len(m.RestoreStack) + n
    BY <1>4, <1>6, <1>7, <2>3
  <2>7. Len(saved) - Cardinality(TrueIn(restore)) = Len(m.SavedPosStack) - Restored(m)
    <3>1. Cardinality(TrueIn(restore)) = c
      BY <1>6, <2>3
    <3>. QED
      BY <1>1, <1>5, <2>5, <3>1
  <2>8. TablesBy(m, r, t, n)
    BY <2>4, <2>5, <2>6, <2>7, TabledBy
  <2>. QED
    BY <1>7, <1>8, <2>8
<1>. QED
  BY <1>10, <1>11

LEMMA ReaderPops ==
  ASSUME NEW t, NEW m, Good(m, t), t.expand, Len(m.RestoreStack) >= 1
  PROVE  TablesBy(m, ReaderTablePop(m), t, -1)
<1>1. /\ IsVm(m) /\ m.RestoreStack \in Seq(BOOLEAN) /\ IsSeq(m.SavedPosStack)
      /\ Len(m.SavedPosStack) \in Nat /\ Len(m.RestoreStack) \in Nat
  BY GoodLens DEF Stacks
<1>2. PICK s, e, b : s = m.RestoreStack /\ e = Front(s) /\ b = Last(s)
  OBVIOUS
<1>3. /\ e \in Seq(BOOLEAN) /\ Len(e) = Len(s) - 1 /\ b \in BOOLEAN
      /\ Cardinality(TrueIn(e)) \in Nat
      /\ b => Cardinality(TrueIn(s)) = Cardinality(TrueIn(e)) + 1
      /\ ~b => Cardinality(TrueIn(s)) = Cardinality(TrueIn(e))
  BY <1>1, <1>2, BooleanFront, Zenon
<1>4. Restored(m) = Cardinality(TrueIn(s))
  BY <1>2 DEF Restored, TrueIn
<1>5. PICK c \in Nat : c = Cardinality(TrueIn(e))
  BY <1>3
<1>6. (b => Restored(m) = c + 1) /\ (~b => Restored(m) = c)
  BY <1>3, <1>4, <1>5, Zenon
<1>7. PICK n \in Int : n = -1
  OBVIOUS
<1>8. PICK r, q : r = ReaderTablePop(m) /\ q = [m EXCEPT !.RestoreStack = e]
  OBVIOUS
<1>9. r = IF b THEN PopPeekPos(q) ELSE q
  BY <1>2, <1>8, Zenon DEF ReaderTablePop
<1>10. Len(e) = Len(m.RestoreStack) + n
  BY <1>1, <1>2, <1>3, <1>7
<1>11. IsVm(q) /\ q.SavedPosStack = m.SavedPosStack
  BY <1>1, <1>8 DEF IsVm
<1>12. PICK table : table = m.Table
  OBVIOUS
<1>13. CASE b
  <2>1. PICK saved, pos : saved = Front(m.SavedPosStack) /\ pos = Last(m.SavedPosStack)
    OBVIOUS
  <2>2. r = [q EXCEPT !.ReadPos = pos, !.SavedPosStack = saved]
    <3>1. r = PopPeekPos(q)
      BY <1>9, <1>13, Zenon
    <3>. QED
      BY <1>11, <2>1, <3>1 DEF PopPeekPos
  <2>3. r = Tabled(m, pos, saved, table, e)
    BY <1>1, <1>8, <1>12, <2>2 DEF Tabled, IsVm
  <2>4. Restored(m) = c + 1
    BY <1>6, <1>13, Zenon
  <2>5. Len(m.SavedPosStack) >= 1
    <3>1. Len(m.FrameStack) \in Nat
      BY TopFrame DEF Good
    <3>2. N("peeking", m.FrameStack, t) \in Nat
      BY <3>1, OwnersFinite
    <3>3. Len(m.SavedPosStack) = N("peeking", m.FrameStack, t) + Restored(m)
      BY DEF Good, Heights
    <3>. QED
      BY <2>4, <3>2, <3>3
  <2>6. IsSeq(saved) /\ Len(saved) = Len(m.SavedPosStack) - 1
    BY <1>1, <2>1, <2>5, SeqFront
  <2>7. Len(saved) - Cardinality(TrueIn(e)) = Len(m.SavedPosStack) - Restored(m)
    BY <1>1, <1>5, <2>4, <2>6
  <2>8. TablesBy(m, r, t, n)
    BY <1>3, <1>10, <2>3, <2>6, <2>7, TabledBy
  <2>. QED
    BY <1>7, <1>8, <2>8
<1>14. CASE ~b
  <2>1. PICK saved, pos : saved = m.SavedPosStack /\ pos = m.ReadPos
    OBVIOUS
  <2>2. r = q
    BY <1>9, <1>14, Zenon
  <2>3. r = Tabled(m, pos, saved, table, e)
    BY <1>1, <1>8, <1>12, <2>1, <2>2 DEF Tabled, IsVm
  <2>4. Restored(m) = c
    BY <1>6, <1>14, Zenon
  <2>5. IsSeq(saved) /\ Len(saved) = Len(m.SavedPosStack)
    BY <1>1, <2>1
  <2>6. Len(saved) - Cardinality(TrueIn(e)) = Len(m.SavedPosStack) - Restored(m)
    BY <1>1, <1>5, <2>4, <2>5
  <2>7. TablesBy(m, r, t, n)
    BY <1>3, <1>10, <2>3, <2>5, <2>6, TabledBy
  <2>. QED
    BY <1>7, <1>8, <2>7
<1>. QED
  BY <1>3, <1>13, <1>14, Zenon

LEMMA WriterScratch ==
  ASSUME NEW t, NEW m, Good(m, t), ~t.expand, NEW n \in Int, NEW scratch, IsSeq(scratch),
         Len(scratch) = Len(m.Scratch) + n, NEW cached,
         NEW r, r = [m EXCEPT !.Scratch = scratch, !.Cached = cached]
  PROVE  TablesBy(m, r, t, n)
<1>1. IsVm(m) /\ Stacks(m)
  BY DEF Good
<1>2. /\ IsVm(r) /\ r.FrameStack = m.FrameStack /\ r.EvalFrameStack = m.EvalFrameStack
      /\ r.CurEvalFrameStack = m.CurEvalFrameStack /\ r.LoopCounterStack = m.LoopCounterStack
      /\ r.LoopSizeStack = m.LoopSizeStack /\ r.LocalsBaseStack = m.LocalsBaseStack
      /\ r.LocalValues = m.LocalValues /\ r.CatchStack = m.CatchStack
      /\ r.IsFatalFailure = m.IsFatalFailure /\ r.SavedPosStack = m.SavedPosStack
      /\ r.RestoreStack = m.RestoreStack /\ r.Scratch = scratch
  BY <1>1 DEF IsVm
<1>3. Restored(r) = Restored(m)
  BY <1>2 DEF Restored
<1>4. IsSeq(m.SavedPosStack) /\ m.RestoreStack \in Seq(BOOLEAN)
  BY <1>1 DEF Stacks
<1>. QED
  BY <1>2, <1>3, <1>4 DEF TablesBy

LEMMA WriterTables ==
  ASSUME NEW t, NEW m, Good(m, t), ~t.expand, NEW key
  PROVE  /\ TablesBy(m, WriterTablePush(m, key), t, 1)
         /\ Len(m.Scratch) >= 1 => TablesBy(m, WriterTablePop(m), t, -1)
<1>1. IsVm(m) /\ IsSeq(m.Scratch) /\ Len(m.Scratch) \in Nat
  BY GoodLens DEF Stacks
<1>2. TablesBy(m, WriterTablePush(m, key), t, 1)
  <2>1. PICK b : b = (key \in m.Cached)
    OBVIOUS
  <2>2. WriterTablePush(m, key) =
          [m EXCEPT !.Scratch = Append(@, b), !.Cached = @ \cup {key}]
    BY <2>1, Zenon DEF WriterTablePush
  <2>3. PICK r, scratch, cached : /\ r = WriterTablePush(m, key) /\ scratch = Append(m.Scratch, b)
                                  /\ cached = m.Cached \cup {key}
    OBVIOUS
  <2>4. r = [m EXCEPT !.Scratch = scratch, !.Cached = cached]
    BY <1>1, <2>2, <2>3
  <2>5. PICK n \in Int : n = 1
    OBVIOUS
  <2>6. IsSeq(scratch) /\ Len(scratch) = Len(m.Scratch) + n
    BY <1>1, <2>3, <2>5, SeqAppend
  <2>7. TablesBy(m, r, t, n)
    BY <2>4, <2>6, WriterScratch
  <2>. QED
    BY <2>3, <2>5, <2>7
<1>3. ASSUME Len(m.Scratch) >= 1 PROVE TablesBy(m, WriterTablePop(m), t, -1)
  <2>1. PICK r, scratch, cached : /\ r = WriterTablePop(m) /\ scratch = Front(m.Scratch)
                                  /\ cached = m.Cached
    OBVIOUS
  <2>2. r = [m EXCEPT !.Scratch = scratch]
    BY <2>1 DEF WriterTablePop
  <2>3. r = [m EXCEPT !.Scratch = scratch, !.Cached = cached]
    BY <1>1, <2>1, <2>2 DEF IsVm
  <2>4. PICK n \in Int : n = -1
    OBVIOUS
  <2>5. IsSeq(scratch) /\ Len(scratch) = Len(m.Scratch) + n
    BY <1>1, <1>3, <2>1, <2>4, SeqFront
  <2>6. TablesBy(m, r, t, n)
    BY <2>3, <2>5, WriterScratch
  <2>. QED
    BY <2>1, <2>4, <2>6
<1>. QED
  BY <1>2, <1>3

\* What neither handler does.
LEMMA TablesSame ==
  ASSUME NEW t, NEW m, Good(m, t) PROVE TablesBy(m, m, t, 0)
<1>1. /\ IsVm(m) /\ Stacks(m) /\ Len(m.RestoreStack) \in Nat /\ Len(m.Scratch) \in Nat
  BY GoodLens
<1>. QED
  BY <1>1 DEF TablesBy, Stacks

LEMMA TableOk == ASSUME Good(vm, task), EvalTable PROVE Ok(vm', task)
<1>1. PICK f : f = Last(vm.FrameStack)
  OBVIOUS
<1>2. Evaluating({"Table"})
  BY DEF EvalTable
<1>3. /\ f.CallMethod = "Eval" /\ f.Nd = Nd /\ f.CallState = Frame.CallState
      /\ Nd.type = "Table" /\ f.CallModifier = Frame.CallModifier
  BY <1>1, <1>2, Evaluated DEF Frame
<1>4. f.CallMethod \in Inner /\ ~Evaluates(f, Headers) /\ "Eval" \in Inner
  BY <1>3 DEF Inner, Evaluates, Headers
<1>5. Len(vm.FrameStack) >= 2
  BY <1>1, <1>4, QuietTop DEF Quiet
<1>6. ASSUME NEW r, NEW state, Moves(vm, r, state, task)
      PROVE  /\ \A kid : Ok(EvalKid(r, state, kid), task)
             /\ state = "Enter" => \A v : Ok(Return(r, v), task)
  BY <1>1, <1>4, <1>6, MovesOk DEF EvalKid
<1>7. IsFrame(f)
  BY <1>1, TopFrame DEF Good
<1>8. ASSUME NEW state
      PROVE  /\ In(f, state).CallMethod = "Eval" /\ In(f, state).Nd = Nd
             /\ In(f, state).CallState = state /\ In(f, state).CallModifier = f.CallModifier
  BY <1>3, <1>7, InFields
<1>. DEFINE Mode == IF task.expand THEN "ReadOnly" ELSE "WriteOnly"
<1>9. PICK k \in Nat : k = IF f.CallModifier \in {"ReadAndWrite", Mode} THEN 1 ELSE 0
  OBVIOUS
<1>10. /\ Ct("table", f, task) = IF f.CallState = "Exit" THEN k ELSE 0
       /\ \A state : Ct("table", In(f, state), task) = IF state = "Exit" THEN k ELSE 0
  <2>1. /\ Ct("table", f, task) =
             IF f.CallState = "Exit" /\ f.CallModifier \in {"ReadAndWrite", Mode} THEN 1 ELSE 0
    BY <1>3, TableHas
  <2>2. ASSUME NEW state
        PROVE  Ct("table", In(f, state), task) =
                 IF state = "Exit" /\ f.CallModifier \in {"ReadAndWrite", Mode} THEN 1 ELSE 0
    <3>1. PICK g : g = In(f, state)
      OBVIOUS
    <3>2. /\ g.CallMethod = "Eval" /\ g.Nd.type = "Table" /\ g.CallState = state
          /\ g.CallModifier = f.CallModifier
      BY <1>3, <1>8, <3>1
    <3>3. Ct("table", g, task) =
            IF g.CallState = "Exit" /\ g.CallModifier \in {"ReadAndWrite", Mode} THEN 1 ELSE 0
      BY <3>2, TableHas
    <3>. QED
      BY <3>1, <3>2, <3>3
  <2>. QED
    BY <1>9, <2>1, <2>2
<1>11. k = IF IF task.expand THEN HasRead ELSE HasWrite THEN 1 ELSE 0
  BY <1>3, <1>9 DEF HasRead, HasWrite
<1>. HIDE DEF Mode
<1>12. CASE At("Enter")
  <2>1. Ct("table", In(f, "Step2"), task) = Ct("table", f, task) + 0
    BY <1>3, <1>10, <1>12 DEF At
  <2>2. TablesBy(vm, vm, task, 0)
    BY TablesSame
  <2>3. PICK g : g = In(f, "Step2")
    OBVIOUS
  <2>4. Moves(vm, vm, "Step2", task)
    BY <1>1, <1>3, <2>1, <2>2, <2>3, TableMoves
  <2>. QED
    BY <1>6, <1>12, <2>4 DEF EvalTable, At, Becomes
<1>13. CASE At("Step2")
  <2>1. PICK r, key : r = TablePush(vm, key) /\ key = ReturnValue
    OBVIOUS
  <2>2. TablesBy(vm, r, task, k)
    <3>1. CASE task.expand
      <4>1. CASE HasRead
        BY <1>11, <2>1, <3>1, <4>1, ReaderPushes DEF TablePush
      <4>2. CASE ~HasRead
        BY <1>11, <2>1, <3>1, <4>2, TablesSame DEF TablePush
      <4>. QED
        BY <4>1, <4>2
    <3>2. CASE ~task.expand
      <4>1. CASE HasWrite
        BY <1>11, <2>1, <3>2, <4>1, WriterTables DEF TablePush
      <4>2. CASE ~HasWrite
        BY <1>11, <2>1, <3>2, <4>2, TablesSame DEF TablePush
      <4>. QED
        BY <4>1, <4>2
    <3>. QED
      BY <3>1, <3>2
  <2>3. PICK g : g = In(f, "Exit")
    OBVIOUS
  <2>4. Ct("table", g, task) = Ct("table", f, task) + k
    BY <1>3, <1>9, <1>10, <1>13, <2>3 DEF At
  <2>5. Moves(vm, r, "Exit", task)
    BY <1>1, <1>3, <2>2, <2>3, <2>4, TableMoves
  <2>6. vm' = EvalKid(r, "Exit", 2)
    BY <1>13, <2>1 DEF EvalTable, At, Becomes
  <2>. QED
    BY <1>6, <2>5, <2>6
<1>14. CASE At("Exit")
  <2>1. PICK j \in Int : j = 0 - k
    OBVIOUS
  <2>2. PICK r : r = TablePop(vm)
    OBVIOUS
  <2>3. r = TablePop(vm) /\ j = 0 - k
    BY <2>1, <2>2
  <2>4. ASSUME k = 1 PROVE N("table", vm.FrameStack, task) >= 1
    <3>1. Ct("table", f, task) = 1
      BY <1>3, <1>10, <1>14, <2>4 DEF At
    <3>. QED
      BY <1>1, <1>5, <3>1, TopCounts
  <2>5. /\ task.expand => Len(vm.RestoreStack) = N("table", vm.FrameStack, task)
        /\ ~task.expand => Len(vm.Scratch) = N("table", vm.FrameStack, task)
    BY DEF Good, Heights
  <2>6. TablesBy(vm, r, task, j)
    <3>1. CASE task.expand
      <4>1. CASE HasRead
        <5>1. r = ReaderTablePop(vm) /\ j = -1 /\ Len(vm.RestoreStack) >= 1
          BY <1>11, <2>3, <2>4, <2>5, <3>1, <4>1 DEF TablePop
        <5>. QED
          BY <3>1, <5>1, ReaderPops
      <4>2. CASE ~HasRead
        <5>1. r = vm
          BY <2>3, <3>1, <4>2 DEF TablePop
        <5>2. k = 0
          BY <1>11, <3>1, <4>2
        <5>3. j = 0
          BY <2>3, <5>2
        <5>. QED
          BY <5>1, <5>3, TablesSame
      <4>. QED
        BY <4>1, <4>2
    <3>2. CASE ~task.expand
      <4>1. CASE HasWrite
        <5>1. r = WriterTablePop(vm) /\ j = -1 /\ Len(vm.Scratch) >= 1
          BY <1>11, <2>3, <2>4, <2>5, <3>2, <4>1 DEF TablePop
        <5>. QED
          BY <3>2, <5>1, WriterTables
      <4>2. CASE ~HasWrite
        <5>1. r = vm
          BY <2>3, <3>2, <4>2 DEF TablePop
        <5>2. k = 0
          BY <1>11, <3>2, <4>2
        <5>3. j = 0
          BY <2>3, <5>2
        <5>. QED
          BY <5>1, <5>3, TablesSame
      <4>. QED
        BY <4>1, <4>2
    <3>. QED
      BY <3>1, <3>2
  <2>7. PICK g : g = In(f, "Enter")
    OBVIOUS
  <2>8. Ct("table", g, task) = Ct("table", f, task) + j
    BY <1>3, <1>9, <1>10, <1>14, <2>3, <2>7 DEF At
  <2>9. Moves(vm, r, "Enter", task)
    BY <1>1, <1>3, <2>6, <2>7, <2>8, TableMoves
  <2>10. vm' = Return(r, vm.LastReadValue)
    BY <1>14, <2>3 DEF EvalTable, At, Becomes
  <2>. QED
    BY <1>6, <2>9, <2>10
<1>. QED
  BY <1>12, <1>13, <1>14 DEF EvalTable

---------------------------------------------------------------------------
\* Calls of definitions.
CallsSet(m, counters, efs, cur, sizes) ==
  [m EXCEPT !.LoopCounterStack = counters, !.EvalFrameStack = efs,
            !.CurEvalFrameStack = cur, !.LoopSizeStack = sizes]

\* The four stacks become n higher.
CallsBy(m, r, n, counters, efs, cur, sizes) ==
  /\ n \in Int /\ r = CallsSet(m, counters, efs, cur, sizes)
  /\ IsSeq(counters) /\ Len(counters) = Len(m.LoopCounterStack) + n
  /\ IsSeq(efs) /\ Len(efs) = Len(m.EvalFrameStack) + n
  /\ IsSeq(cur) /\ Len(cur) = Len(m.CurEvalFrameStack) + n
  /\ IsSeq(sizes) /\ Len(sizes) = Len(m.LoopSizeStack) + n

LEMMA CallsHigher ==
  ASSUME NEW t, NEW m, Good(m, t), NEW r, NEW n, NEW counters, NEW efs, NEW cur, NEW sizes,
         CallsBy(m, r, n, counters, efs, cur, sizes)
  PROVE  /\ Higher(m, r, t, n, n, 0, 0, 0, 0) /\ r.FrameStack = m.FrameStack
         /\ r.LocalsBaseStack = m.LocalsBaseStack /\ r.LocalValues = m.LocalValues
<1>1. /\ IsVm(m) /\ Stacks(m)
      /\ Len(m.LocalsBaseStack) \in Nat /\ Len(m.SavedPosStack) \in Nat
      /\ Len(m.RestoreStack) \in Nat /\ Len(m.Scratch) \in Nat
      /\ Len(m.CurEvalFrameStack) \in Nat /\ Restored(m) \in Nat
  BY GoodLens
<1>2. r = CallsSet(m, counters, efs, cur, sizes) /\ n \in Int
  BY DEF CallsBy
<1>3. /\ IsVm(r) /\ r.FrameStack = m.FrameStack /\ r.EvalFrameStack = efs
      /\ r.CurEvalFrameStack = cur /\ r.LoopCounterStack = counters
      /\ r.LoopSizeStack = sizes /\ r.LocalsBaseStack = m.LocalsBaseStack
      /\ r.LocalValues = m.LocalValues /\ r.CatchStack = m.CatchStack
      /\ r.IsFatalFailure = m.IsFatalFailure /\ r.SavedPosStack = m.SavedPosStack
      /\ r.RestoreStack = m.RestoreStack /\ r.Scratch = m.Scratch
  BY <1>1, <1>2 DEF IsVm, CallsSet
<1>4. Stacks(r)
  BY <1>1, <1>3 DEF Stacks, CallsBy
<1>5. Restored(r) = Restored(m)
  BY <1>3 DEF Restored
<1>6. /\ Len(r.LoopCounterStack) = Len(m.LoopCounterStack) + n
      /\ Len(r.LoopSizeStack) = Len(m.LoopSizeStack) + n
      /\ Len(r.EvalFrameStack) = Len(m.EvalFrameStack) + n
      /\ Len(r.CurEvalFrameStack) = Len(m.CurEvalFrameStack) + n
  BY <1>3 DEF CallsBy
<1>7. /\ Len(r.CurEvalFrameStack) = Len(m.CurEvalFrameStack) + (n + 0)
      /\ Len(r.LocalsBaseStack) = Len(m.LocalsBaseStack) + 0
      /\ Len(r.RestoreStack) = Len(m.RestoreStack) + 0
      /\ Len(r.Scratch) = Len(m.Scratch) + 0
      /\ Len(r.SavedPosStack) - Restored(r) = Len(m.SavedPosStack) - Restored(m) + 0
  BY <1>1, <1>2, <1>3, <1>5, <1>6
<1>. QED
  BY <1>3, <1>4, <1>6, <1>7 DEF Higher

LEMMA VirtualMoves ==
  ASSUME NEW t, NEW m, Good(m, t), NEW f, f = Last(m.FrameStack),
         f.CallMethod = "Eval", f.Nd.type = "EvalVirtual", NEW state, NEW g, g = In(f, state),
         NEW r, NEW n, NEW counters, NEW efs, NEW cur, NEW sizes,
         CallsBy(m, r, n, counters, efs, cur, sizes),
         (IF state # "Enter" THEN 1 ELSE 0) = (IF f.CallState # "Enter" THEN 1 ELSE 0) + n
  PROVE  Moves(m, r, state, t)
<1>1. IsFrame(f) /\ Stacks(m) /\ n \in Int
  BY TopFrame DEF Good, CallsBy
<1>2. g.CallMethod = f.CallMethod /\ g.Nd = f.Nd /\ g.CallState = state
  BY <1>1, InFields
<1>3. /\ NoLocals(f) /\ NoLocals(g)
      /\ \A kind : kind \notin {"counting", "calling"} => Ct(kind, f, t) = 0 /\ Ct(kind, g, t) = 0
      /\ Ct("counting", f, t) = IF f.CallState # "Enter" THEN 1 ELSE 0
      /\ Ct("calling", f, t) = IF f.CallState # "Enter" THEN 1 ELSE 0
      /\ Ct("counting", g, t) = IF state # "Enter" THEN 1 ELSE 0
      /\ Ct("calling", g, t) = IF state # "Enter" THEN 1 ELSE 0
  BY <1>2, VirtualHas
<1>4. Differ(f, g, t, n, n, 0, 0, 0, 0)
  BY <1>3 DEF Differ
<1>5. /\ Higher(m, r, t, n, n, 0, 0, 0, 0) /\ r.FrameStack = m.FrameStack
      /\ r.LocalsBaseStack = m.LocalsBaseStack /\ r.LocalValues = m.LocalValues
  BY CallsHigher
<1>6. Adjusts(m, r, f, g, t)
  BY <1>1, <1>4, <1>5, AdjustsBy
<1>7. LocalsBounded(r, SetTop(m.FrameStack, g))
  BY <1>3, <1>5, SameLocals DEF NoLocals
<1>. QED
  BY <1>5, <1>6, <1>7 DEF Moves

\* A frame that is called counts the values, and has the other stacks for it.
LEMMA CallsGood ==
  ASSUME NEW t, NEW m, Good(m, t)
  PROVE  /\ IsVm(m)
         /\ IsSeq(m.LoopCounterStack) /\ Len(m.LoopCounterStack) \in Nat
         /\ IsSeq(m.EvalFrameStack) /\ Len(m.EvalFrameStack) \in Nat
         /\ IsSeq(m.CurEvalFrameStack) /\ Len(m.CurEvalFrameStack) \in Nat
         /\ IsSeq(m.LoopSizeStack) /\ Len(m.LoopSizeStack) \in Nat
         /\ Len(m.LoopCounterStack) >= 1 /\ Len(m.CurEvalFrameStack) >= 1
<1>1. /\ Stacks(m) /\ IsVm(m) /\ Heights(m, m.FrameStack, t) /\ Len(m.FrameStack) \in Nat
  BY TopFrame DEF Good
<1>2. \A kind : N(kind, m.FrameStack, t) \in Nat
  BY <1>1, OwnersFinite
<1>3. N("counting", m.FrameStack, t) \in Nat /\ N("calling", m.FrameStack, t) \in Nat /\ N("context", m.FrameStack, t) \in Nat
  BY <1>2
<1>4. Len(m.LoopCounterStack) >= 1 /\ Len(m.CurEvalFrameStack) >= 1
  BY <1>1, <1>3 DEF Heights
<1>. QED
  BY <1>1, <1>4, SeqLen DEF Stacks

LEMMA VirtualOk == ASSUME Good(vm, task), EvalVirtual PROVE Ok(vm', task)
<1>1. PICK f : f = Last(vm.FrameStack)
  OBVIOUS
<1>2. Evaluating({"EvalVirtual"})
  BY DEF EvalVirtual
<1>3. /\ f.CallMethod = "Eval" /\ f.Nd = Nd /\ f.CallState = Frame.CallState
      /\ Nd.type = "EvalVirtual"
  BY <1>1, <1>2, Evaluated
<1>4. f.CallMethod \in Inner /\ ~Evaluates(f, Headers)
      /\ "Eval" \in Inner /\ "EvalInCallingContext" \in Inner
  BY <1>3 DEF Inner, Evaluates, Headers
<1>5. Quiet(vm.FrameStack) /\ Len(vm.FrameStack) >= 2
  BY <1>1, <1>4, QuietTop DEF Quiet
<1>6. ASSUME NEW r, NEW state, Moves(vm, r, state, task)
      PROVE  /\ Ok(Goto(r, state), task)
             /\ \A mod, nd : \A method \in Inner : Ok(Call(r, state, method, mod, nd), task)
             /\ state = "Enter" => \A v : Ok(Return(r, v), task)
  BY <1>1, <1>4, <1>6, MovesOk
<1>7. /\ IsVm(vm)
      /\ IsSeq(vm.LoopCounterStack) /\ Len(vm.LoopCounterStack) \in Nat
      /\ IsSeq(vm.EvalFrameStack) /\ Len(vm.EvalFrameStack) \in Nat
      /\ IsSeq(vm.CurEvalFrameStack) /\ Len(vm.CurEvalFrameStack) \in Nat
      /\ IsSeq(vm.LoopSizeStack) /\ Len(vm.LoopSizeStack) \in Nat
      /\ Len(vm.LoopCounterStack) >= 1 /\ Len(vm.CurEvalFrameStack) >= 1
  BY CallsGood
<1>8. PICK counters, efs, cur, sizes : /\ counters = vm.LoopCounterStack /\ efs = vm.EvalFrameStack
                                       /\ cur = vm.CurEvalFrameStack /\ sizes = vm.LoopSizeStack
  OBVIOUS
<1>9. ASSUME NEW state, state # "Enter", f.CallState # "Enter" PROVE Moves(vm, vm, state, task)
  <2>1. vm = CallsSet(vm, counters, efs, cur, sizes)
    BY <1>7, <1>8 DEF CallsSet, IsVm
  <2>2. CallsBy(vm, vm, 0, counters, efs, cur, sizes)
    BY <1>7, <1>8, <2>1 DEF CallsBy
  <2>3. PICK g : g = In(f, state)
    OBVIOUS
  <2>4. (IF state # "Enter" THEN 1 ELSE 0) = (IF f.CallState # "Enter" THEN 1 ELSE 0) + 0
    BY <1>9
  <2>. QED
    BY <1>1, <1>3, <2>2, <2>3, <2>4, VirtualMoves
<1>10. CASE At("Enter") /\ ~Callable
  <2>1. Failed(Throw(vm))
    BY <1>5, <1>7, ThrowFails
  <2>2. vm' = Throw(vm)
    BY <1>10 DEF EvalVirtual, At, Becomes
  <2>. QED
    BY <2>1, <2>2 DEF Ok
<1>11. CASE At("Enter") /\ Callable
  <2>1. PICK defn, nf, size, h : /\ defn = task.defs[Nd.name] /\ nf = EvalFrame(Nd, defn)
                                 /\ size = NumValueArgs(defn) /\ h = Len(efs)
    OBVIOUS
  <2>2. PICK counters2, efs2, cur2, sizes2 :
          /\ counters2 = Append(counters, 0) /\ efs2 = Append(efs, nf)
          /\ cur2 = Append(cur, h) /\ sizes2 = Append(sizes, size)
    OBVIOUS
  <2>3. PICK r : r = CallsSet(vm, counters2, efs2, cur2, sizes2)
    OBVIOUS
  <2>4. PICK n \in Int : n = 1
    OBVIOUS
  <2>5. /\ IsSeq(counters2) /\ Len(counters2) = Len(counters) + n
        /\ IsSeq(efs2) /\ Len(efs2) = Len(efs) + n
        /\ IsSeq(cur2) /\ Len(cur2) = Len(cur) + n
        /\ IsSeq(sizes2) /\ Len(sizes2) = Len(sizes) + n
    <3>1. IsSeq(counters) /\ IsSeq(efs) /\ IsSeq(cur) /\ IsSeq(sizes)
      BY <1>7, <1>8
    <3>2. IsSeq(counters2) /\ Len(counters2) = Len(counters) + n
      BY <2>2, <2>4, <3>1, SeqAppend
    <3>3. IsSeq(efs2) /\ Len(efs2) = Len(efs) + n
      BY <2>2, <2>4, <3>1, SeqAppend
    <3>4. IsSeq(cur2) /\ Len(cur2) = Len(cur) + n
      BY <2>2, <2>4, <3>1, SeqAppend
    <3>5. IsSeq(sizes2) /\ Len(sizes2) = Len(sizes) + n
      BY <2>2, <2>4, <3>1, SeqAppend
    <3>. QED
      BY <3>2, <3>3, <3>4, <3>5
  <2>6. CallsBy(vm, r, n, counters2, efs2, cur2, sizes2)
    BY <1>8, <2>3, <2>5 DEF CallsBy
  <2>7. PICK g : g = In(f, "Loop")
    OBVIOUS
  <2>8. (IF "Loop" # "Enter" THEN 1 ELSE 0) = (IF f.CallState # "Enter" THEN 1 ELSE 0) + n
    BY <1>3, <1>11, <2>4 DEF At
  <2>9. Moves(vm, r, "Loop", task)
    BY <1>1, <1>3, <2>6, <2>7, <2>8, VirtualMoves
  <2>10. vm' = Goto([PushLoop(vm, 0) EXCEPT !.CurEvalFrameStack = Append(@, h),
                                            !.EvalFrameStack = Append(@, nf),
                                            !.LoopSizeStack = Append(@, size)], "Loop")
    BY <1>8, <1>11, <2>1 DEF EvalVirtual, At, Becomes
  <2>11. [PushLoop(vm, 0) EXCEPT !.CurEvalFrameStack = Append(@, h),
                                 !.EvalFrameStack = Append(@, nf),
                                 !.LoopSizeStack = Append(@, size)] = r
    BY <1>7, <1>8, <2>2, <2>3 DEF PushLoop, CallsSet, IsVm
  <2>12. vm' = Goto(r, "Loop")
    BY <2>10, <2>11
  <2>. QED
    BY <1>6, <2>9, <2>12
<1>12. CASE At("Loop")
  <2>1. Moves(vm, vm, "Step3", task) /\ Moves(vm, vm, "Step2", task)
    BY <1>3, <1>9, <1>12 DEF At
  <2>. QED
    BY <1>4, <1>6, <1>12, <2>1 DEF EvalVirtual, At, Becomes
<1>13. CASE At("Step3")
  <2>1. Moves(vm, vm, "Exit", task)
    BY <1>3, <1>9, <1>13 DEF At
  <2>. QED
    BY <1>4, <1>6, <1>13, <2>1 DEF EvalVirtual, At, Becomes
<1>14. CASE At("Step2")
  <2>1. PICK i, j, v : i = CurrentEvalFrame /\ j = LoopCounter + 1 /\ v = ReturnValue
    OBVIOUS
  <2>2. PICK w : w = [efs[i] EXCEPT !.Values[j] = v]
    OBVIOUS
  <2>3. PICK efs2 : efs2 = [efs EXCEPT ![i] = w]
    OBVIOUS
  <2>4. PICK counters2 : counters2 = SetTop(counters, Last(counters) + 1)
    OBVIOUS
  <2>5. PICK r : r = CallsSet(vm, counters2, efs2, cur, sizes)
    OBVIOUS
  <2>6. IsSeq(efs2) /\ Len(efs2) = Len(efs) + 0
    <3>1. IsSeq(efs) /\ Len(efs) \in Nat
      BY <1>7, <1>8
    <3>2. IsSeq(efs2) /\ Len(efs2) = Len(efs)
      BY <2>3, <3>1, SeqExcept
    <3>. QED
      BY <3>1, <3>2
  <2>7. IsSeq(counters2) /\ Len(counters2) = Len(counters) + 0
    BY <1>7, <1>8, <2>4, SeqSetTop
  <2>8. CallsBy(vm, r, 0, counters2, efs2, cur, sizes)
    BY <1>7, <1>8, <2>5, <2>6, <2>7 DEF CallsBy
  <2>9. PICK g : g = In(f, "Loop")
    OBVIOUS
  <2>10. (IF "Loop" # "Enter" THEN 1 ELSE 0) = (IF f.CallState # "Enter" THEN 1 ELSE 0) + 0
    BY <1>3, <1>14 DEF At
  <2>11. Moves(vm, r, "Loop", task)
    BY <1>1, <1>3, <2>8, <2>9, <2>10, VirtualMoves
  <2>12. vm' = Goto([CountLoop(vm, 1) EXCEPT !.EvalFrameStack[i].Values[j] = v], "Loop")
    BY <1>14, <2>1 DEF EvalVirtual, At, Becomes
  <2>13. [CountLoop(vm, 1) EXCEPT !.EvalFrameStack[i].Values[j] = v] = r
    <3>1. PICK q : q = CountLoop(vm, 1)
      OBVIOUS
    <3>2. IsVm(q) /\ q.EvalFrameStack = efs /\ q = [vm EXCEPT !.LoopCounterStack = counters2]
      BY <1>7, <1>8, <2>4, <3>1 DEF CountLoop, IsVm
    <3>3. [q EXCEPT !.EvalFrameStack[i].Values[j] = v] = [q EXCEPT !.EvalFrameStack = efs2]
      BY <2>2, <2>3, <3>2
    <3>4. [q EXCEPT !.EvalFrameStack = efs2] = r
      BY <1>7, <1>8, <2>5, <3>2 DEF CallsSet, IsVm
    <3>. QED
      BY <3>1, <3>3, <3>4
  <2>14. vm' = Goto(r, "Loop")
    BY <2>12, <2>13
  <2>. QED
    BY <1>6, <2>11, <2>14
<1>15. CASE At("Exit")
  <2>1. PICK counters2, efs2, cur2, sizes2 :
          /\ counters2 = Front(counters) /\ efs2 = Front(efs)
          /\ cur2 = Front(cur) /\ sizes2 = Front(sizes)
    OBVIOUS
  <2>2. PICK r : r = CallsSet(vm, counters2, efs2, cur2, sizes2)
    OBVIOUS
  <2>3. Len(efs) >= 1 /\ Len(sizes) >= 1
    <3>1. Ct("calling", f, task) = 1
      BY <1>3, <1>15, VirtualHas DEF At
    <3>2. N("calling", vm.FrameStack, task) >= 1
      BY <1>1, <1>5, <3>1, TopCounts
    <3>. QED
      BY <1>8, <3>2 DEF Good, Heights
  <2>4. PICK n \in Int : n = -1
    OBVIOUS
  <2>5. /\ IsSeq(counters2) /\ Len(counters2) = Len(counters) + n
        /\ IsSeq(efs2) /\ Len(efs2) = Len(efs) + n
        /\ IsSeq(cur2) /\ Len(cur2) = Len(cur) + n
        /\ IsSeq(sizes2) /\ Len(sizes2) = Len(sizes) + n
    <3>1. /\ IsSeq(counters) /\ IsSeq(efs) /\ IsSeq(cur) /\ IsSeq(sizes)
          /\ Len(counters) \in Nat /\ Len(efs) \in Nat /\ Len(cur) \in Nat /\ Len(sizes) \in Nat
          /\ Len(counters) >= 1 /\ Len(cur) >= 1
      BY <1>7, <1>8
    <3>2. IsSeq(counters2) /\ Len(counters2) = Len(counters) + n
      BY <2>1, <2>4, <3>1, SeqFront
    <3>3. IsSeq(efs2) /\ Len(efs2) = Len(efs) + n
      BY <2>1, <2>3, <2>4, <3>1, SeqFront
    <3>4. IsSeq(cur2) /\ Len(cur2) = Len(cur) + n
      BY <2>1, <2>4, <3>1, SeqFront
    <3>5. IsSeq(sizes2) /\ Len(sizes2) = Len(sizes) + n
      BY <2>1, <2>3, <2>4, <3>1, SeqFront
    <3>. QED
      BY <3>2, <3>3, <3>4, <3>5
  <2>6. CallsBy(vm, r, n, counters2, efs2, cur2, sizes2)
    BY <1>8, <2>2, <2>5 DEF CallsBy
  <2>7. PICK g : g = In(f, "Enter")
    OBVIOUS
  <2>8. (IF "Enter" # "Enter" THEN 1 ELSE 0) = (IF f.CallState # "Enter" THEN 1 ELSE 0) + n
    BY <1>3, <1>15, <2>4 DEF At
  <2>9. Moves(vm, r, "Enter", task)
    BY <1>1, <1>3, <2>6, <2>7, <2>8, VirtualMoves
  <2>10. vm' = Return([PopLoop(vm) EXCEPT !.CurEvalFrameStack = Front(@),
                                          !.EvalFrameStack = Front(@),
                                          !.LoopSizeStack = Front(@)], vm.LastReadValue)
    BY <1>15 DEF EvalVirtual, At, Becomes
  <2>11. [PopLoop(vm) EXCEPT !.CurEvalFrameStack = Front(@),
                             !.EvalFrameStack = Front(@),
                             !.LoopSizeStack = Front(@)] = r
    BY <1>7, <1>8, <2>1, <2>2 DEF PopLoop, CallsSet, IsVm
  <2>12. vm' = Return(r, vm.LastReadValue)
    BY <2>10, <2>11
  <2>. QED
    BY <1>6, <2>9, <2>12
<1>. QED
  BY <1>10, <1>11, <1>12, <1>13, <1>14, <1>15 DEF EvalVirtual

---------------------------------------------------------------------------
(***************************************************************************)
(* The methods that try a header, and the header that is tried: there is   *)
(* nothing else on the stack of frames.                                    *)
(***************************************************************************)
Trying(fs) ==
  /\ Shape(fs) /\ Len(fs) \in 1 .. 3
  /\ Len(fs) >= 2 => fs[2].CallMethod \in Outer
  /\ Len(fs) = 3 => Evaluates(fs[3], Headers)

\* Nothing is on the other stacks than those of counters and positions.
Idle(m) ==
  /\ IsVm(m) /\ ~m.IsFatalFailure /\ Stacks(m)
  /\ m.LoopSizeStack = << >> /\ m.EvalFrameStack = << >>
  /\ Len(m.CurEvalFrameStack) = 1 /\ Len(m.LocalsBaseStack) = 1
  /\ m.LocalValues = << >> /\ m.RestoreStack = << >> /\ m.Scratch = << >>

LEMMA OuterHas ==
  ASSUME NEW f, f.CallMethod \in Outer, NEW t
  PROVE  /\ NoLocals(f)
         /\ \A kind : kind \notin {"counting", "peeking"} => Ct(kind, f, t) = 0
         /\ f.CallMethod = "HasFileHeader" =>
              /\ Ct("counting", f, t) = 0
              /\ Ct("peeking", f, t) = IF f.CallState # "Enter" THEN 1 ELSE 0
         /\ f.CallMethod = "GetAlgorithm" =>
              /\ Ct("counting", f, t) = IF f.CallState \notin {"Enter", "Exit"} THEN 1 ELSE 0
              /\ Ct("peeking", f, t) = IF f.CallState \in {"Loop", "Step2", "Catch"} THEN 1 ELSE 0
<1>1. /\ Counting(f) <=> f.CallMethod = "GetAlgorithm" /\ f.CallState \notin {"Enter", "Exit"}
      /\ Peeking(f) <=> \/ f.CallMethod = "HasFileHeader" /\ f.CallState # "Enter"
                        \/ f.CallMethod = "GetAlgorithm" /\ f.CallState \in {"Loop", "Step2", "Catch"}
      /\ ~Calling(f) /\ ~InContext(f) /\ ~WithLocals(f) /\ ~HasArgument(f)
      /\ ~Evaluates(f, {"Table"})
  BY DEF Outer, Counting, Peeking, Selecting, Calling, InContext, WithLocals, HasArgument, Evaluates
<1>2. /\ \A kind : kind \notin {"counting", "peeking"} => ~Has(kind, f, t)
      /\ Has("counting", f, t) <=> Counting(f)
      /\ Has("peeking", f, t) <=> Peeking(f)
  BY <1>1 DEF Has
<1>. QED
  BY <1>1, <1>2 DEF Ct, NoLocals, Outer

LEMMA HeaderHas ==
  ASSUME NEW f, Evaluates(f, Headers), NEW t
  PROVE  /\ NoLocals(f)
         /\ \A kind : kind # "counting" => Ct(kind, f, t) = 0
         /\ Ct("counting", f, t) = IF f.CallState # "Enter" THEN 1 ELSE 0
<1>1. /\ Counting(f) <=> f.CallState # "Enter"
      /\ ~Peeking(f) /\ ~Calling(f) /\ ~InContext(f) /\ ~WithLocals(f) /\ ~HasArgument(f)
      /\ ~Evaluates(f, {"Table"})
  BY DEF Headers, Counting, Peeking, Selecting, Calling, InContext, WithLocals, HasArgument,
         Evaluates, Bitwise2
<1>2. /\ \A kind : kind # "counting" => ~Has(kind, f, t)
      /\ Has("counting", f, t) <=> Counting(f)
  BY <1>1 DEF Has
<1>. QED
  BY <1>1, <1>2 DEF Ct, NoLocals

\* What is counted among at most three frames.
Tried(kind, fs, t) ==
  (IF Len(fs) >= 2 THEN Ct(kind, fs[2], t) ELSE 0) + (IF Len(fs) = 3 THEN Ct(kind, fs[3], t) ELSE 0)

LEMMA TryingCounts ==
  ASSUME NEW fs, Trying(fs), NEW t
  PROVE  /\ \A kind : N(kind, fs, t) = Tried(kind, fs, t) /\ N(kind, fs, t) \in Nat
         /\ \A kind : kind \notin {"counting", "peeking"} => N(kind, fs, t) = 0
         /\ \A i \in 1 .. Len(fs) : NoLocals(fs[i])
<1>1. Shape(fs) /\ IsSeq(fs) /\ Len(fs) \in Nat /\ Len(fs) \in 1 .. 3
  BY TopFrame DEF Trying
<1>2. ASSUME NEW kind PROVE N(kind, fs, t) = Tried(kind, fs, t)
  <2>1. Ct(kind, fs[2], t) \in {0, 1} /\ Ct(kind, fs[3], t) \in {0, 1}
    BY CtType
  <2>2. CASE Len(fs) = 1
    <3>1. N(kind, fs, t) = 0
      BY <2>2, CountOne
    <3>. QED
      BY <2>2, <3>1 DEF Tried
  <2>3. CASE Len(fs) = 2
    <3>1. N(kind, fs, t) = N(kind, Front(fs), t) + Ct(kind, fs[2], t)
      BY <1>1, <2>3, CountFront
    <3>2. Len(Front(fs)) = 1
      <4>1. Len(fs) >= 1 /\ Len(fs) - 1 = 1
        BY <2>3
      <4>. QED
        BY <1>1, <4>1, SeqFront
    <3>3. N(kind, Front(fs), t) = 0
      BY <3>2, CountOne
    <3>. QED
      BY <2>1, <2>3, <3>1, <3>3 DEF Tried
  <2>4. CASE Len(fs) = 3
    <3>1. Len(fs) >= 1 /\ Len(fs) >= 2 /\ Len(fs) - 1 = 2 /\ 2 \in 1 .. Len(fs) - 1
      BY <2>4
    <3>2. N(kind, fs, t) = N(kind, Front(fs), t) + Ct(kind, fs[3], t)
      <4>1. N(kind, fs, t) = N(kind, Front(fs), t) + Ct(kind, fs[Len(fs)], t)
        BY <1>1, <3>1, CountFront
      <4>. QED
        BY <2>4, <4>1
    <3>3. Len(Front(fs)) = 2 /\ IsSeq(Front(fs)) /\ Front(fs)[2] = fs[2]
      BY <1>1, <3>1, SeqFront
    <3>4. PICK gs : gs = Front(fs)
      OBVIOUS
    <3>5. IsSeq(gs) /\ Len(gs) = 2 /\ Len(gs) >= 1 /\ Len(gs) >= 2 /\ Len(gs) - 1 = 1
      BY <3>3, <3>4
    <3>6. N(kind, gs, t) = N(kind, Front(gs), t) + Ct(kind, gs[2], t)
      <4>1. N(kind, gs, t) = N(kind, Front(gs), t) + Ct(kind, gs[Len(gs)], t)
        BY <3>5, CountFront
      <4>. QED
        BY <3>5, <4>1
    <3>7. Len(Front(gs)) = 1
      BY <3>5, SeqFront
    <3>8. N(kind, Front(gs), t) = 0
      BY <3>7, CountOne
    <3>. QED
      BY <2>1, <2>4, <3>2, <3>3, <3>4, <3>6, <3>8 DEF Tried
  <2>. QED
    BY <1>1, <2>2, <2>3, <2>4
<1>3. ASSUME NEW kind PROVE N(kind, fs, t) \in Nat
  BY <1>1, OwnersFinite
<1>4. ASSUME NEW kind, kind \notin {"counting", "peeking"} PROVE N(kind, fs, t) = 0
  <2>1. Len(fs) >= 2 => Ct(kind, fs[2], t) = 0
    BY <1>4, OuterHas DEF Trying
  <2>2. Len(fs) = 3 => Ct(kind, fs[3], t) = 0
    BY <1>4, HeaderHas DEF Trying
  <2>. QED
    BY <1>2, <2>1, <2>2 DEF Tried
<1>5. ASSUME NEW i \in 1 .. Len(fs) PROVE NoLocals(fs[i])
  <2>1. CASE i = 1
    BY <1>1, <2>1 DEF Shape, NoLocals, WithLocals, HasArgument, Evaluates
  <2>2. CASE i = 2
    <3>1. Len(fs) >= 2
      BY <1>1, <2>2
    <3>. QED
      BY <2>2, <3>1, OuterHas DEF Trying
  <2>3. CASE i = 3
    <3>1. Len(fs) = 3
      <4>1. PICK n : n = Len(fs)
        OBVIOUS
      <4>2. n \in 1 .. 3 /\ 3 \in 1 .. n
        BY <1>1, <2>3, <4>1
      <4>. QED
        BY <4>1, <4>2
    <3>. QED
      BY <2>3, <3>1, HeaderHas DEF Trying
  <2>. QED
    BY <1>1, <2>1, <2>2, <2>3
<1>. QED
  BY <1>2, <1>3, <1>4, <1>5

LEMMA TryingGood ==
  ASSUME NEW t, NEW m, Idle(m), Trying(m.FrameStack), Begun(m.FrameStack, t),
         Len(m.LoopCounterStack) = 1 + Tried("counting", m.FrameStack, t),
         Len(m.SavedPosStack) = Tried("peeking", m.FrameStack, t),
         Catches(m, m.FrameStack), Counts(m, m.FrameStack)
  PROVE  Good(m, t)
<1>1. PICK fs : fs = m.FrameStack
  OBVIOUS
<1>2. /\ Shape(fs) /\ Len(fs) \in Nat /\ Len(fs) >= 1
      /\ \A kind : N(kind, fs, t) = Tried(kind, fs, t) /\ N(kind, fs, t) \in Nat
      /\ \A kind : kind \notin {"counting", "peeking"} => N(kind, fs, t) = 0
      /\ \A i \in 1 .. Len(fs) : NoLocals(fs[i])
  <2>1. Trying(fs)
    BY <1>1
  <2>2. Shape(fs)
    BY <2>1 DEF Trying
  <2>3. Len(fs) \in Nat /\ Len(fs) >= 1
    BY <2>2, TopFrame
  <2>. QED
    BY <2>1, <2>2, <2>3, TryingCounts
<1>3. Restored(m) = 0
  <2>1. {i \in DOMAIN m.RestoreStack : m.RestoreStack[i]} = {}
    BY DEF Idle
  <2>. QED
    BY <2>1, FS_EmptySet DEF Restored
<1>4. Len(<< >>) = 0
  OBVIOUS
<1>5. Heights(m, fs, t)
  <2>1. /\ N("calling", fs, t) = 0 /\ N("context", fs, t) = 0 /\ N("locals", fs, t) = 0
        /\ N("table", fs, t) = 0
    BY <1>2
  <2>2. /\ Len(m.LoopCounterStack) = 1 + N("counting", fs, t)
        /\ Len(m.SavedPosStack) = N("peeking", fs, t) + 0
    BY <1>1, <1>2
  <2>. QED
    BY <1>3, <1>4, <2>1, <2>2 DEF Heights, Idle
<1>6. LocalsBounded(m, fs)
  <2>1. PICK h, p : h = [i \in 1 .. Len(fs) |-> 0] /\ p = [i \in 1 .. Len(fs) |-> 1]
    OBVIOUS
  <2>2. \A i \in 1 .. Len(fs) : ~WithLocals(fs[i]) /\ ~HasArgument(fs[i])
    BY <1>2 DEF NoLocals
  <2>3. Bounded(fs, m.LocalsBaseStack, h, p)
    <3>1. \A i \in 1 .. Len(fs) - 1 : i \in 1 .. Len(fs) /\ i + 1 \in 1 .. Len(fs)
      BY <1>2
    <3>2. h \in [1 .. Len(fs) -> Nat] /\ p \in [1 .. Len(fs) -> Nat] /\ h[1] = 0 /\ p[1] = 1
      BY <1>2, <2>1
    <3>3. \A i \in 1 .. Len(fs) - 1 :
            /\ NoLocals(fs[i]) => h[i + 1] = h[i]
            /\ HasArgument(fs[i]) => h[i + 1] = h[i] + 1
            /\ p[i + 1] = IF WithLocals(fs[i]) THEN p[i] + 1 ELSE p[i]
      BY <2>1, <2>2, <3>1
    <3>4. \A i, j \in 1 .. Len(fs) : i < j /\ WithLocals(fs[i]) => p[i] + 1 <= p[j]
      BY <2>2
    <3>5. \A i \in 1 .. Len(fs) :
            /\ WithLocals(fs[i]) => m.LocalsBaseStack[p[i] + 1] \in Nat /\ m.LocalsBaseStack[p[i] + 1] <= h[i]
            /\ (\A j \in 1 .. i - 1 : NoLocals(fs[j])) => h[i] = 0
      BY <2>1, <2>2
    <3>. QED
      BY <3>2, <3>3, <3>4, <3>5 DEF Bounded
  <2>4. Last(fs) = fs[Len(fs)] /\ Len(fs) \in 1 .. Len(fs)
    BY <1>2, TopFrame
  <2>5. ~WithLocals(Last(fs)) /\ ~HasArgument(Last(fs)) /\ h[Len(fs)] = 0 /\ p[Len(fs)] = 1
    BY <2>1, <2>2, <2>4
  <2>6. Len(m.LocalsBaseStack) = p[Len(fs)] + (IF WithLocals(Last(fs)) THEN 1 ELSE 0)
    BY <2>5 DEF Idle
  <2>7. AtMost(m.LocalValues, Last(fs), h[Len(fs)])
    BY <1>4, <2>5 DEF AtMost, Idle
  <2>8. IsSeq(m.LocalValues)
    <3>1. << >> \in Seq({})
      OBVIOUS
    <3>. QED
      BY <3>1, SeqIntro DEF Idle
  <2>. QED
    BY <2>3, <2>6, <2>7, <2>8 DEF LocalsBounded
<1>. QED
  BY <1>1, <1>2, <1>5, <1>6 DEF Good, Idle

LEMMA GoodTrying ==
  ASSUME NEW t, NEW m, Good(m, t), Trying(m.FrameStack)
  PROVE  /\ Idle(m)
         /\ Len(m.LoopCounterStack) = 1 + Tried("counting", m.FrameStack, t)
         /\ Len(m.SavedPosStack) = Tried("peeking", m.FrameStack, t)
<1>1. PICK fs : fs = m.FrameStack
  OBVIOUS
<1>2. /\ IsVm(m) /\ ~m.IsFatalFailure /\ Shape(fs) /\ Stacks(m) /\ Heights(m, fs, t)
      /\ LocalsBounded(m, fs) /\ Trying(fs)
  BY <1>1 DEF Good
<1>3. /\ \A kind : N(kind, fs, t) = Tried(kind, fs, t) /\ N(kind, fs, t) \in Nat
      /\ \A kind : kind \notin {"counting", "peeking"} => N(kind, fs, t) = 0
      /\ \A i \in 1 .. Len(fs) : NoLocals(fs[i])
  BY <1>2, TryingCounts
<1>4. /\ Len(fs) \in Nat /\ Len(fs) >= 1 /\ Last(fs) = fs[Len(fs)]
  BY <1>2, TopFrame
<1>5. /\ N("calling", fs, t) = 0 /\ N("context", fs, t) = 0 /\ N("locals", fs, t) = 0
      /\ N("table", fs, t) = 0 /\ N("peeking", fs, t) \in Nat
  BY <1>3
<1>6. /\ m.LoopSizeStack = << >> /\ m.EvalFrameStack = << >>
      /\ Len(m.CurEvalFrameStack) = 1 /\ Len(m.LocalsBaseStack) = 1
  <2>1. Len(m.LoopSizeStack) = 0 /\ Len(m.EvalFrameStack) = 0
    BY <1>2, <1>5 DEF Heights
  <2>. QED
    BY <1>2, <1>5, <2>1, SeqLen DEF Heights, Stacks
<1>7. m.RestoreStack = << >> /\ m.Scratch = << >>
  <2>1. IsSeq(m.RestoreStack) /\ IsSeq(m.Scratch)
    BY <1>2, SeqIntro DEF Stacks
  <2>2. t.expand => Len(m.RestoreStack) = 0 /\ m.Scratch = << >>
    BY <1>2, <1>5 DEF Heights
  <2>3. ~t.expand => Len(m.Scratch) = 0 /\ m.RestoreStack = << >>
    BY <1>2, <1>5 DEF Heights
  <2>. QED
    BY <2>1, <2>2, <2>3, SeqLen
<1>8. Restored(m) = 0
  <2>1. {i \in DOMAIN m.RestoreStack : m.RestoreStack[i]} = {}
    BY <1>7
  <2>. QED
    BY <2>1, FS_EmptySet DEF Restored
<1>9. m.LocalValues = << >>
  <2>1. PICK h, p :
          /\ Bounded(fs, m.LocalsBaseStack, h, p)
          /\ AtMost(m.LocalValues, Last(fs), h[Len(fs)])
    BY <1>2 DEF LocalsBounded
  <2>2. Len(fs) \in 1 .. Len(fs) /\ \A j \in 1 .. Len(fs) - 1 : j \in 1 .. Len(fs)
    BY <1>4
  <2>3. h[Len(fs)] = 0
    BY <1>3, <2>1, <2>2 DEF Bounded
  <2>4. NoLocals(Last(fs))
    BY <1>3, <1>4, <2>2
  <2>5. IsSeq(m.LocalValues)
    BY <1>2 DEF LocalsBounded
  <2>6. Len(m.LocalValues) \in Nat /\ Len(m.LocalValues) <= 0
    BY <2>1, <2>3, <2>4, <2>5, SeqLen DEF AtMost
  <2>. QED
    BY <2>5, <2>6, SeqLen
<1>10. /\ Len(m.LoopCounterStack) = 1 + Tried("counting", fs, t)
       /\ Len(m.SavedPosStack) = Tried("peeking", fs, t)
  <2>1. /\ Len(m.LoopCounterStack) = 1 + N("counting", fs, t)
        /\ Len(m.SavedPosStack) = N("peeking", fs, t) + Restored(m)
    BY <1>2 DEF Heights
  <2>. QED
    BY <1>3, <1>5, <1>8, <2>1
<1>. QED
  BY <1>1, <1>2, <1>6, <1>7, <1>9, <1>10 DEF Idle

---------------------------------------------------------------------------
\* Good machines that differ in what does not matter.
LEMMA KeepsGood ==
  ASSUME NEW t, NEW m, Good(m, t), NEW r, Keeps(m, r) PROVE Good(r, t)
<1>1. PICK fs : fs = m.FrameStack
  OBVIOUS
<1>2. Rest(m, r) /\ r.FrameStack = fs
  BY <1>1 DEF Keeps
<1>3. /\ Stacks(m) /\ Heights(m, fs, t) /\ Catches(m, fs) /\ Counts(m, fs) /\ LocalsBounded(m, fs)
      /\ Shape(fs) /\ Begun(fs, t) /\ ~m.IsFatalFailure
  BY <1>1 DEF Good
<1>4. /\ IsVm(r) /\ r.IsFatalFailure = m.IsFatalFailure
      /\ Stacks(r) /\ Heights(r, fs, t) /\ Catches(r, fs) /\ Counts(r, fs) /\ LocalsBounded(r, fs)
  BY <1>2, <1>3, RestSame
<1>. QED
  BY <1>2, <1>3, <1>4 DEF Good

LEMMA CountGood ==
  ASSUME NEW t, NEW m, Good(m, t), NEW r, ButLoops(m, r), IsSeq(r.LoopCounterStack),
         Len(r.LoopCounterStack) = Len(m.LoopCounterStack), Counts(r, m.FrameStack)
  PROVE  Good(r, t)
<1>1. PICK fs : fs = m.FrameStack
  OBVIOUS
<1>2. /\ Stacks(m) /\ Heights(m, fs, t) /\ Catches(m, fs) /\ LocalsBounded(m, fs)
      /\ Shape(fs) /\ Begun(fs, t) /\ ~m.IsFatalFailure
  BY <1>1 DEF Good
<1>3. Restored(r) = Restored(m)
  BY DEF ButLoops, Restored
<1>4. Stacks(r) /\ Heights(r, fs, t)
  BY <1>2, <1>3 DEF ButLoops, Stacks, Heights
<1>5. Catches(r, fs) /\ LocalsBounded(r, fs)
  BY <1>2 DEF ButLoops, Catches, LocalsBounded
<1>. QED
  BY <1>1, <1>2, <1>4, <1>5 DEF Good, ButLoops

\* Nobody catches what nothing is tried by.
LEMMA NoCatcher ==
  ASSUME NEW r, IsVm(r), Shape(r.FrameStack), r.CatchStack = << "NO_SUCH_METHOD" >>
  PROVE  Failed(Throw(r))
<1>1. Last(r.CatchStack) = "NO_SUCH_METHOD"
  BY DEF Last
<1>2. ASSUME NEW i \in 2 .. Len(r.FrameStack)
      PROVE  r.FrameStack[i].CallMethod # "NO_SUCH_METHOD"
  <2>1. Len(r.FrameStack) \in Nat
    BY TopFrame
  <2>2. i = 2 \/ i \in 3 .. Len(r.FrameStack)
    BY <2>1
  <2>3. Len(r.FrameStack) >= 2
    BY <2>1
  <2>4. r.FrameStack[i].CallMethod \in Inner \cup Outer
    BY <2>2, <2>3 DEF Shape
  <2>. QED
    BY <2>4 DEF Inner, Outer
<1>3. Catchers(r) = {}
  BY <1>1, <1>2 DEF Catchers
<1>4. Throw(r) = Reset(r)
  BY <1>3 DEF Throw
<1>. QED
  BY <1>4, ResetFails

\* Of a task, it matters how it starts and whether it expands.
LEMMA GoodTask ==
  ASSUME NEW t, NEW u, u.start = t.start, u.expand = t.expand, NEW m, Good(m, t)
  PROVE  Good(m, u)
<1>1. PICK fs : fs = m.FrameStack
  OBVIOUS
<1>2. ASSUME NEW kind PROVE N(kind, fs, u) = N(kind, fs, t)
  <2>1. Owners(kind, fs, u) = Owners(kind, fs, t)
    BY DEF Owners, Has
  <2>. QED
    BY <2>1 DEF N
<1>3. Heights(m, fs, t) => Heights(m, fs, u)
  BY <1>2 DEF Heights
<1>4. Begun(fs, t) => Begun(fs, u)
  BY DEF Begun
<1>. QED
  BY <1>1, <1>3, <1>4 DEF Good

---------------------------------------------------------------------------
(***************************************************************************)
(* Steps while something is tried.                                         *)
(***************************************************************************)
\* What trying does not change.
Tries(m, r) ==
  /\ IsVm(r) /\ r.IsFatalFailure = m.IsFatalFailure
  /\ r.EvalFrameStack = m.EvalFrameStack /\ r.CurEvalFrameStack = m.CurEvalFrameStack
  /\ r.LoopSizeStack = m.LoopSizeStack
  /\ r.LocalsBaseStack = m.LocalsBaseStack /\ r.LocalValues = m.LocalValues
  /\ r.RestoreStack = m.RestoreStack /\ r.Scratch = m.Scratch

\* The stacks that trying changes.
Tracks(r, fs, loops, saved, catch) ==
  /\ r.FrameStack = fs /\ r.CatchStack = catch
  /\ IsSeq(r.LoopCounterStack) /\ Len(r.LoopCounterStack) = loops
  /\ IsSeq(r.SavedPosStack) /\ Len(r.SavedPosStack) = saved

LEMMA TryStep ==
  ASSUME NEW t, NEW m, Good(m, t), Trying(m.FrameStack), NEW r, Tries(m, r),
         NEW gs, Trying(gs), Begun(gs, t),
         NEW loops, loops = 1 + Tried("counting", gs, t),
         NEW saved, saved = Tried("peeking", gs, t),
         NEW catch, Tracks(r, gs, loops, saved, catch),
         Catches(r, gs), Counts(r, gs)
  PROVE  Good(r, t)
<1>1. Idle(m)
  BY GoodTrying
<1>2. Idle(r)
  BY <1>1 DEF Idle, Tries, Tracks, Stacks
<1>3. /\ r.FrameStack = gs /\ Len(r.LoopCounterStack) = loops /\ Len(r.SavedPosStack) = saved
  BY DEF Tracks
<1>. QED
  BY <1>2, <1>3, TryingGood

\* Frames that try, when one is changed, called or returned to.
LEMMA TryingLen ==
  ASSUME NEW fs, Trying(fs)
  PROVE  /\ Shape(fs) /\ IsSeq(fs) /\ Len(fs) \in Nat /\ Len(fs) \in 1 .. 3
         /\ Last(fs) = fs[Len(fs)] /\ IsFrame(Last(fs))
         /\ Len(fs) = 1 \/ Len(fs) = 2 \/ Len(fs) = 3
BY TopFrame DEF Trying

LEMMA TrySetHeader ==
  ASSUME NEW fs, Trying(fs), Len(fs) = 3, NEW g, IsFrame(g), Evaluates(g, Headers),
         NEW gs, gs = SetTop(fs, g)
  PROVE  Trying(gs) /\ Len(gs) = 3 /\ gs[1] = fs[1] /\ gs[2] = fs[2] /\ gs[3] = g
<1>1. Shape(fs) /\ IsSeq(fs) /\ Len(fs) >= 1 /\ 1 \in 1 .. Len(fs) - 1 /\ 2 \in 1 .. Len(fs) - 1
  BY TryingLen
<1>2. /\ IsSeq(gs) /\ Len(gs) = Len(fs)
      /\ \A i \in 1 .. Len(fs) - 1 : gs[i] = fs[i]
      /\ gs[Len(fs)] = g
  BY <1>1, SeqSetTop
<1>3. Len(gs) = 3 /\ gs[1] = fs[1] /\ gs[2] = fs[2] /\ gs[3] = g
  BY <1>1, <1>2
<1>4. g.CallMethod \in Inner
  BY DEF Evaluates, Inner
<1>5. Shape(gs)
  <2>1. \A i \in 1 .. 3 : i = 1 \/ i = 2 \/ i = 3
    OBVIOUS
  <2>2. \A i \in 1 .. Len(gs) : IsFrame(gs[i])
    BY <1>1, <1>3, <2>1 DEF Shape
  <2>3. \A i \in 3 .. Len(gs) : gs[i].CallMethod \in Inner
    BY <1>3, <1>4
  <2>. QED
    BY <1>1, <1>2, <1>3, <2>2, <2>3 DEF Shape
<1>6. fs[2].CallMethod \in Outer
  BY DEF Trying
<1>. QED
  BY <1>3, <1>5, <1>6 DEF Trying

LEMMA TrySetOuter ==
  ASSUME NEW fs, Trying(fs), Len(fs) = 2, NEW g, IsFrame(g), g.CallMethod \in Outer,
         NEW gs, gs = SetTop(fs, g)
  PROVE  Trying(gs) /\ Len(gs) = 2 /\ gs[1] = fs[1] /\ gs[2] = g
<1>1. Shape(fs) /\ IsSeq(fs) /\ Len(fs) >= 1 /\ 1 \in 1 .. Len(fs) - 1
  BY TryingLen
<1>2. /\ IsSeq(gs) /\ Len(gs) = Len(fs)
      /\ \A i \in 1 .. Len(fs) - 1 : gs[i] = fs[i]
      /\ gs[Len(fs)] = g
  BY <1>1, SeqSetTop, SMTT(30)
<1>3. Len(gs) = 2 /\ gs[1] = fs[1] /\ gs[2] = g
  BY <1>1, <1>2
<1>4. Shape(gs)
  <2>1. \A i \in 1 .. 2 : i = 1 \/ i = 2
    OBVIOUS
  <2>2. \A i \in 1 .. Len(gs) : IsFrame(gs[i])
    BY <1>1, <1>3, <2>1 DEF Shape
  <2>3. \A i \in 3 .. Len(gs) : gs[i].CallMethod \in Inner
    BY <1>3
  <2>. QED
    BY <1>1, <1>2, <1>3, <2>2, <2>3 DEF Shape
<1>. QED
  BY <1>3, <1>4 DEF Trying

\* The frames below the top.
LEMMA TryFront ==
  ASSUME NEW fs, Trying(fs), Len(fs) \in 2 .. 3
  PROVE  /\ Trying(Front(fs)) /\ Len(Front(fs)) = Len(fs) - 1
         /\ \A i \in 1 .. Len(fs) - 1 : Front(fs)[i] = fs[i]
<1>1. PICK gs, n : gs = Front(fs) /\ n = Len(fs) - 1
  OBVIOUS
<1>2. Shape(fs) /\ IsSeq(fs) /\ Len(fs) >= 1 /\ n \in 1 .. 2 /\ Len(fs) = n + 1 /\ Len(fs) >= 2
  BY <1>1, TryingLen
<1>3. IsSeq(gs) /\ Len(gs) = n /\ \A i \in 1 .. n : gs[i] = fs[i]
  BY <1>1, <1>2, SeqFront
<1>4. Shape(gs)
  <2>1. \A i \in 1 .. n : i \in 1 .. Len(fs)
    BY <1>2
  <2>2. \A i \in 1 .. Len(gs) : IsFrame(gs[i])
    BY <1>2, <1>3, <2>1 DEF Shape
  <2>3. \A i \in 3 .. Len(gs) : FALSE
    BY <1>2, <1>3
  <2>4. gs[1] = fs[1] /\ (Len(gs) >= 2 => gs[2] = fs[2]) /\ Len(gs) >= 1
    BY <1>2, <1>3
  <2>. QED
    BY <1>2, <1>3, <2>2, <2>3, <2>4 DEF Shape
<1>5. Trying(gs)
  <2>1. Len(gs) \in 1 .. 3 /\ Len(gs) # 3
    BY <1>2, <1>3
  <2>2. Len(gs) >= 2 => gs[2].CallMethod \in Outer
    BY <1>2, <1>3 DEF Trying
  <2>. QED
    BY <1>4, <2>1, <2>2 DEF Trying
<1>. QED
  BY <1>1, <1>3, <1>5

\* A header that is tried.
LEMMA TryPush ==
  ASSUME NEW fs, Trying(fs), Len(fs) = 2, fs[1].CallMethod = "Started",
         NEW g, IsFrame(g), Evaluates(g, Headers),
         NEW gs, Pushed(fs, g, gs)
  PROVE  Trying(gs) /\ Len(gs) = 3 /\ gs[1] = fs[1] /\ gs[2] = fs[2] /\ gs[3] = g
<1>1. Shape(fs) /\ IsSeq(fs)
  BY TryingLen
<1>2. /\ IsSeq(gs) /\ Len(gs) = Len(fs) + 1
      /\ \A i \in 1 .. Len(fs) : gs[i] = fs[i]
      /\ gs[Len(fs) + 1] = g
  BY <1>1, SeqPushed, SMTT(30)
<1>3. Len(gs) = 3 /\ gs[1] = fs[1] /\ gs[2] = fs[2] /\ gs[3] = g
  BY <1>2
<1>4. g.CallMethod \in Inner
  BY DEF Evaluates, Inner
<1>5. Shape(gs)
  <2>1. \A i \in 1 .. 3 : i = 1 \/ i = 2 \/ i = 3
    OBVIOUS
  <2>2. \A i \in 1 .. Len(gs) : IsFrame(gs[i])
    BY <1>1, <1>3, <2>1 DEF Shape
  <2>3. \A i \in 3 .. Len(gs) : gs[i].CallMethod \in Inner
    BY <1>3, <1>4
  <2>. QED
    BY <1>1, <1>2, <1>3, <2>2, <2>3 DEF Shape
<1>6. fs[2].CallMethod \in Outer
  BY DEF Trying
<1>. QED
  BY <1>3, <1>5, <1>6 DEF Trying

\* A header f is being tried.
HeaderOn(m, t, f) ==
  /\ Good(m, t) /\ Trying(m.FrameStack) /\ Len(m.FrameStack) = 3 /\ InMode(m.FrameStack)
  /\ f = m.FrameStack[3]

\* What is caught when the last of frames that try is in a state.
CatchesAt(method, state) ==
  IF state \in {"Loop", "Exit"} THEN << "NO_SUCH_METHOD", method, "Eval" >>
  ELSE << "NO_SUCH_METHOD", method >>

\* The selector that is tried stays the same.
SameSelector(m, r) ==
  m.FrameStack[2].CallMethod = "GetAlgorithm" => r.LoopCounterStack[2] = m.LoopCounterStack[2]

LEMMA HeaderFacts ==
  ASSUME NEW t, NEW m, NEW f, HeaderOn(m, t, f), NEW o, o = m.FrameStack[2]
  PROVE  /\ IsVm(m) /\ ~m.IsFatalFailure /\ Evaluates(f, Headers) /\ IsFrame(f) /\ IsFrame(o)
         /\ f = Last(m.FrameStack)
         /\ o.CallMethod \in Outer /\ o.CallState # "Catch"
         /\ IsSeq(m.LoopCounterStack) /\ IsSeq(m.SavedPosStack)
         /\ Len(m.LoopCounterStack) = 1 + Ct("counting", o, t) + (IF f.CallState # "Enter" THEN 1 ELSE 0)
         /\ Len(m.SavedPosStack) = Ct("peeking", o, t)
         /\ m.CatchStack = CatchesAt(o.CallMethod, f.CallState)
         /\ o.CallMethod = "GetAlgorithm" => Ct("counting", o, t) = 1
         /\ Counts(m, m.FrameStack)
         /\ Ct("counting", o, t) \in {0, 1} /\ Ct("peeking", o, t) \in {0, 1}
<1>1. PICK fs : fs = m.FrameStack
  OBVIOUS
<1>2. /\ Trying(fs) /\ Len(fs) = 3 /\ InMode(fs) /\ f = fs[3] /\ o = fs[2]
      /\ IsVm(m) /\ ~m.IsFatalFailure /\ Catches(m, fs) /\ Counts(m, fs) /\ Stacks(m)
  BY <1>1 DEF HeaderOn, Good
<1>3. Evaluates(f, Headers) /\ o.CallMethod \in Outer
  BY <1>2 DEF Trying
<1>4. IsFrame(f) /\ f = Last(fs) /\ IsFrame(o)
  <2>1. Shape(fs) /\ Last(fs) = fs[Len(fs)] /\ IsFrame(Last(fs))
    BY <1>2, TryingLen
  <2>2. IsFrame(fs[2])
    <3>1. 2 \in 1 .. Len(fs)
      BY <1>2
    <3>. QED
      BY <2>1, <3>1 DEF Shape
  <2>. QED
    BY <1>2, <2>1, <2>2
<1>5. o.CallState # "Catch" /\ (o.CallMethod = "GetAlgorithm" => o.CallState \in {"Loop", "Step2"})
  BY <1>2 DEF InMode, Selecting
<1>6. m.CatchStack = CatchesAt(o.CallMethod, f.CallState)
  BY <1>2 DEF Catches, CatchesAt
<1>7. /\ Len(m.LoopCounterStack) = 1 + Tried("counting", fs, t)
      /\ Len(m.SavedPosStack) = Tried("peeking", fs, t)
  BY <1>1, GoodTrying DEF HeaderOn
<1>8. /\ Ct("counting", f, t) = IF f.CallState # "Enter" THEN 1 ELSE 0
      /\ Ct("peeking", f, t) = 0
  BY <1>3, HeaderHas
<1>9. Ct("counting", o, t) \in {0, 1} /\ Ct("peeking", o, t) \in {0, 1}
  BY CtType
<1>10. o.CallMethod = "GetAlgorithm" => Ct("counting", o, t) = 1
  BY <1>3, <1>5, OuterHas
<1>11. /\ Tried("counting", fs, t) = Ct("counting", o, t) + Ct("counting", f, t)
       /\ Tried("peeking", fs, t) = Ct("peeking", o, t) + Ct("peeking", f, t)
  BY <1>2 DEF Tried
<1>12. /\ Len(m.LoopCounterStack) = 1 + Ct("counting", o, t) + (IF f.CallState # "Enter" THEN 1 ELSE 0)
       /\ Len(m.SavedPosStack) = Ct("peeking", o, t)
  BY <1>7, <1>8, <1>9, <1>11
<1>. QED
  BY <1>1, <1>2, <1>3, <1>4, <1>5, <1>6, <1>9, <1>10, <1>12 DEF Stacks

\* The header goes on.
LEMMA HeaderGoes ==
  ASSUME NEW t, NEW m, NEW f, HeaderOn(m, t, f), NEW o, o = m.FrameStack[2],
         NEW state, state # "Enter", NEW g, g = In(f, state),
         NEW gs, gs = SetTop(m.FrameStack, g),
         NEW r, Tries(m, r), SameSelector(m, r),
         NEW loops, loops = 2 + Ct("counting", o, t),
         Tracks(r, gs, loops, Len(m.SavedPosStack), CatchesAt(o.CallMethod, state))
  PROVE  Good(r, t)
<1>1. PICK fs : fs = m.FrameStack
  OBVIOUS
<1>2. /\ IsFrame(f) /\ Evaluates(f, Headers) /\ o.CallMethod \in Outer
      /\ Len(m.SavedPosStack) = Ct("peeking", o, t) /\ Counts(m, fs)
      /\ Ct("counting", o, t) \in {0, 1} /\ Ct("peeking", o, t) \in {0, 1}
  BY <1>1, HeaderFacts
<1>3. Good(m, t) /\ Trying(fs) /\ Len(fs) = 3 /\ InMode(fs) /\ o = fs[2] /\ Begun(fs, t)
  BY <1>1 DEF HeaderOn, Good
<1>4. IsFrame(g) /\ Evaluates(g, Headers) /\ g.CallState = state
  BY <1>2, InFields DEF Evaluates
<1>5. Trying(gs) /\ Len(gs) = 3 /\ gs[2] = o /\ gs[3] = g
  BY <1>1, <1>3, <1>4, TrySetHeader
<1>6. Ct("counting", g, t) = 1 /\ Ct("peeking", g, t) = 0
  BY <1>4, HeaderHas
<1>7. loops = 1 + Tried("counting", gs, t) /\ Len(m.SavedPosStack) = Tried("peeking", gs, t)
  <2>1. /\ Tried("counting", gs, t) = Ct("counting", o, t) + Ct("counting", g, t)
        /\ Tried("peeking", gs, t) = Ct("peeking", o, t) + Ct("peeking", g, t)
    BY <1>5 DEF Tried
  <2>. QED
    BY <1>2, <1>6, <2>1
<1>8. InMode(gs)
  BY <1>3, <1>5 DEF InMode
<1>9. Begun(gs, t)
  BY <1>3, <1>5 DEF Begun
<1>10. Catches(r, gs)
  <2>1. ~HasCaught(gs)
    BY <1>8 DEF HasCaught, InMode, Selecting
  <2>2. r.CatchStack = CatchesAt(o.CallMethod, state)
    BY DEF Tracks
  <2>. QED
    BY <1>4, <1>5, <1>8, <2>1, <2>2 DEF Catches, CatchesAt
<1>11. Counts(r, gs)
  BY <1>1, <1>2, <1>3, <1>5, <1>8 DEF Counts, SameSelector
<1>12. Trying(m.FrameStack)
  BY <1>1, <1>3
<1>. QED
  BY <1>3, <1>5, <1>7, <1>9, <1>10, <1>11, <1>12, TryStep

\* The header returns, or what tries it catches a failure.
LEMMA HeaderLeaves ==
  ASSUME NEW t, NEW m, NEW f, HeaderOn(m, t, f), f.CallState # "Enter",
         NEW o, o = m.FrameStack[2],
         NEW g, IsFrame(g), g.CallMethod = o.CallMethod, g.CallState \in {o.CallState, "Catch"},
         NEW gs, gs = SetTop(Front(m.FrameStack), g),
         NEW r, Tries(m, r), SameSelector(m, r),
         NEW loops, loops = Len(m.LoopCounterStack) - 1,
         NEW catch, catch = IF g.CallState = "Catch" THEN << "NO_SUCH_METHOD" >>
                            ELSE << "NO_SUCH_METHOD", g.CallMethod >>,
         Tracks(r, gs, loops, Len(m.SavedPosStack), catch)
  PROVE  Good(r, t)
<1>1. PICK fs : fs = m.FrameStack
  OBVIOUS
<1>2. /\ o.CallMethod \in Outer /\ o.CallState # "Catch"
      /\ Len(m.LoopCounterStack) = 1 + Ct("counting", o, t) + (IF f.CallState # "Enter" THEN 1 ELSE 0)
      /\ Len(m.SavedPosStack) = Ct("peeking", o, t) /\ Counts(m, fs)
      /\ Ct("counting", o, t) \in {0, 1} /\ Ct("peeking", o, t) \in {0, 1}
  BY <1>1, HeaderFacts
<1>3. Good(m, t) /\ Trying(fs) /\ Len(fs) = 3 /\ InMode(fs) /\ o = fs[2] /\ Begun(fs, t)
  BY <1>1 DEF HeaderOn, Good
<1>4. /\ Trying(Front(fs)) /\ Len(Front(fs)) = 2 /\ Front(fs)[1] = fs[1] /\ Front(fs)[2] = o
  <2>1. Len(fs) \in 2 .. 3 /\ Len(fs) - 1 = 2 /\ 1 \in 1 .. Len(fs) - 1 /\ 2 \in 1 .. Len(fs) - 1
    BY <1>3
  <2>. QED
    BY <1>3, <2>1, TryFront
<1>5. Trying(gs) /\ Len(gs) = 2 /\ gs[2] = g
  <2>1. PICK bs : bs = Front(fs)
    OBVIOUS
  <2>2. Trying(bs) /\ Len(bs) = 2 /\ gs = SetTop(bs, g) /\ g.CallMethod \in Outer
    BY <1>1, <1>2, <1>4, <2>1
  <2>. QED
    BY <2>2, TrySetOuter
<1>6. Ct("counting", g, t) = Ct("counting", o, t) /\ Ct("peeking", g, t) = Ct("peeking", o, t)
  <2>1. \/ o.CallMethod = "HasFileHeader" /\ o.CallState = "Exit"
        \/ o.CallMethod = "GetAlgorithm" /\ o.CallState \in {"Loop", "Step2"}
    BY <1>3 DEF InMode, Selecting
  <2>2. g.CallMethod \in Outer
    BY <1>2
  <2>3. /\ o.CallMethod = "HasFileHeader" => Ct("counting", o, t) = 0 /\ Ct("peeking", o, t) = 1
        /\ o.CallMethod = "GetAlgorithm" => Ct("counting", o, t) = 1 /\ Ct("peeking", o, t) = 1
    BY <1>2, <2>1, OuterHas
  <2>4. /\ g.CallMethod = "HasFileHeader" => Ct("counting", g, t) = 0 /\ Ct("peeking", g, t) = 1
        /\ g.CallMethod = "GetAlgorithm" => Ct("counting", g, t) = 1 /\ Ct("peeking", g, t) = 1
    BY <2>1, <2>2, OuterHas
  <2>. QED
    BY <2>1, <2>3, <2>4
<1>7. loops = 1 + Tried("counting", gs, t) /\ Len(m.SavedPosStack) = Tried("peeking", gs, t)
  BY <1>2, <1>5, <1>6 DEF Tried
<1>8. Begun(gs, t)
  BY <1>3, <1>5 DEF Begun
<1>9. IF g.CallState = "Catch" THEN HasCaught(gs) /\ ~InMode(gs) ELSE InMode(gs) /\ ~HasCaught(gs)
  BY <1>2, <1>3, <1>5 DEF HasCaught, InMode, Selecting
<1>10. Catches(r, gs)
  <2>1. r.CatchStack = catch
    BY DEF Tracks
  <2>. QED
    BY <1>5, <1>9, <2>1 DEF Catches
<1>11. Counts(r, gs)
  BY <1>1, <1>2, <1>3, <1>5 DEF Counts, SameSelector
<1>12. Trying(m.FrameStack)
  BY <1>1, <1>3
<1>. QED
  BY <1>3, <1>5, <1>7, <1>8, <1>10, <1>11, <1>12, TryStep

\* What is caught, while it changes.
LEMMA SeqIs ==
  ASSUME NEW s, IsSeq(s)
  PROVE  /\ Len(s) = 1 => s = << s[1] >>
         /\ Len(s) = 2 => s = << s[1], s[2] >>
         /\ Len(s) = 3 => s = << s[1], s[2], s[3] >>
<1>1. PICK S : s \in Seq(S)
  BY DEF IsSeq
<1>. QED
  BY <1>1

LEMMA CatchFront ==
  ASSUME NEW a, NEW b, NEW c
  PROVE  Front(<< a, b, c >>) = << a, b >>
<1>1. PICK S : a \in S /\ b \in S /\ c \in S
  <2>1. a \in {a, b, c} /\ b \in {a, b, c} /\ c \in {a, b, c}
    OBVIOUS
  <2>. QED
    BY <2>1
<1>2. PICK u, v : u = << a, b >> /\ v = << a, b, c >>
  OBVIOUS
<1>3. v \in Seq(S) /\ Len(v) = 3 /\ v[1] = a /\ v[2] = b
  BY <1>1, <1>2
<1>4. IsSeq(v) /\ Len(v) >= 1
  BY <1>3, SeqIntro
<1>5. /\ IsSeq(Front(v)) /\ Len(Front(v)) = Len(v) - 1
      /\ \A i \in 1 .. Len(v) - 1 : Front(v)[i] = v[i]
  BY <1>4, SeqFront
<1>6. Len(Front(v)) = 2 /\ Front(v)[1] = a /\ Front(v)[2] = b
  BY <1>3, <1>5
<1>. QED
  BY <1>2, <1>5, <1>6, SeqIs

LEMMA CatchOps ==
  ASSUME NEW a, NEW b, NEW c
  PROVE  /\ Append(<< a >>, b) = << a, b >> /\ Append(<< a, b >>, c) = << a, b, c >>
         /\ Front(<< a, b >>) = << a >> /\ Front(<< a, b, c >>) = << a, b >>
         /\ Last(<< a, b >>) = b /\ Last(<< a, b, c >>) = c
         /\ IsEmpty(<< a >>) /\ ~IsEmpty(<< a, b >>) /\ ~IsEmpty(<< a, b, c >>)
<1>1. PICK S : a \in S /\ b \in S /\ c \in S
  <2>1. a \in {a, b, c} /\ b \in {a, b, c} /\ c \in {a, b, c}
    OBVIOUS
  <2>. QED
    BY <2>1
<1>2. PICK s, u, v : s = << a >> /\ u = << a, b >> /\ v = << a, b, c >>
  OBVIOUS
<1>3. /\ s \in Seq(S) /\ u \in Seq(S) /\ v \in Seq(S)
      /\ Len(s) = 1 /\ Len(u) = 2 /\ Len(v) = 3
      /\ s[1] = a /\ u[1] = a /\ u[2] = b /\ v[1] = a /\ v[2] = b /\ v[3] = c
  BY <1>1, <1>2
<1>4. IsSeq(s) /\ IsSeq(u) /\ IsSeq(v)
  BY <1>3, SeqIntro
<1>5. Append(s, b) = u
  <2>1. /\ IsSeq(Append(s, b)) /\ Len(Append(s, b)) = Len(s) + 1
        /\ \A i \in 1 .. Len(s) : Append(s, b)[i] = s[i]
        /\ Append(s, b)[Len(s) + 1] = b
    BY <1>4, SeqAppend
  <2>2. Len(Append(s, b)) = 2 /\ Append(s, b)[1] = a /\ Append(s, b)[2] = b
    BY <1>3, <2>1
  <2>. QED
    BY <1>2, <2>1, <2>2, SeqIs
<1>6. Append(u, c) = v
  <2>1. /\ IsSeq(Append(u, c)) /\ Len(Append(u, c)) = Len(u) + 1
        /\ \A i \in 1 .. Len(u) : Append(u, c)[i] = u[i]
        /\ Append(u, c)[Len(u) + 1] = c
    BY <1>4, SeqAppend
  <2>2. Len(Append(u, c)) = 3 /\ Append(u, c)[1] = a /\ Append(u, c)[2] = b /\ Append(u, c)[3] = c
    BY <1>3, <2>1
  <2>. QED
    BY <1>2, <2>1, <2>2, SeqIs
<1>7. Front(u) = s
  <2>1. /\ IsSeq(Front(u)) /\ Len(Front(u)) = Len(u) - 1
        /\ \A i \in 1 .. Len(u) - 1 : Front(u)[i] = u[i]
    <3>1. Len(u) >= 1
      BY <1>3
    <3>. QED
      BY <1>4, <3>1, SeqFront
  <2>2. Len(Front(u)) = 1 /\ Front(u)[1] = a
    BY <1>3, <2>1
  <2>. QED
    BY <1>2, <2>1, <2>2, SeqIs
<1>8. Front(v) = u
  BY <1>2, CatchFront
<1>9. /\ Last(u) = b /\ Last(v) = c
      /\ IsEmpty(s) /\ ~IsEmpty(u) /\ ~IsEmpty(v)
  BY <1>3 DEF Last, IsEmpty
<1>. QED
  BY <1>2, <1>5, <1>6, <1>7, <1>8, <1>9

\* What reading and writing a value of a header does.
KeptOrThrown(m, r) == \E q : Keeps(m, q) /\ (r = q \/ r = Throw(q))

LEMMA HeaderValueIs ==
  ASSUME NEW m, IsVm(m), NEW lit PROVE KeptOrThrown(m, HeaderValue(m, lit))
<1>1. PICK yes : yes = TRUE
  OBVIOUS
<1>2. PICK w : w = IF HasRead THEN ReadHeaderValue(m, lit) ELSE [m |-> m, found |-> TRUE]
  OBVIOUS
<1>3. Keeps(m, w.m)
  <2>1. Keeps(m, m) /\ Keeps(m, ReadHeaderValue(m, lit).m)
    BY ReadingKeeps
  <2>2. CASE HasRead
    BY <1>2, <2>1, <2>2
  <2>3. CASE ~HasRead
    <3>1. [m |-> m, found |-> yes].m = m
      OBVIOUS
    <3>2. w = [m |-> m, found |-> yes]
      BY <1>1, <1>2, <2>3, Zenon
    <3>. QED
      BY <2>1, <3>1, <3>2
  <2>. QED
    BY <2>2, <2>3
<1>4. /\ ~w.found => HeaderValue(m, lit) = Throw(w.m)
      /\ w.found /\ HasWrite => HeaderValue(m, lit) = WriteHeaderValue(w.m, lit)
      /\ w.found /\ ~HasWrite => HeaderValue(m, lit) = w.m
  BY <1>2, Zenon DEF HeaderValue
<1>5. PICK q : q = w.m
  OBVIOUS
<1>6. IsVm(q)
  BY <1>3, <1>5 DEF Keeps, Rest
<1>7. Keeps(q, WriteHeaderValue(q, lit))
  <2>1. PICK token : token = << lit.type, lit.val >>
    OBVIOUS
  <2>2. Keeps(q, Emit(q, token))
    BY <1>6, ReadingKeeps
  <2>. QED
    BY <2>1, <2>2 DEF WriteHeaderValue
<1>8. Keeps(m, WriteHeaderValue(q, lit))
  BY <1>3, <1>5, <1>7, KeepsTrans
<1>. QED
  BY <1>3, <1>4, <1>5, <1>8, Zenon DEF KeptOrThrown

\* Where a header is evaluated and something is tried.
LEMMA HeaderIsOn ==
  ASSUME NEW t, NEW m, Good(m, t), NEW f, f = Last(m.FrameStack), Evaluates(f, Headers),
         ~Quiet(m.FrameStack)
  PROVE  HeaderOn(m, t, f)
<1>1. PICK fs : fs = m.FrameStack
  OBVIOUS
<1>2. Shape(fs) /\ Catches(m, fs)
  BY <1>1 DEF Good
<1>3. Len(fs) \in Nat /\ Len(fs) >= 1 /\ f = fs[Len(fs)]
  BY <1>1, <1>2, TopFrame
<1>4. f.CallMethod = "Eval" /\ f.CallMethod \notin Outer
  BY DEF Evaluates, Outer
<1>5. Len(fs) # 1
  BY <1>2, <1>3, <1>4 DEF Shape
<1>6. Len(fs) >= 2 /\ (InMode(fs) \/ HasCaught(fs))
  <2>1. PICK n \in Int : n = Len(fs)
    BY <1>3
  <2>2. n >= 2
    BY <1>3, <1>5, <2>1
  <2>3. CASE fs[2].CallMethod = "HasFileHeader"
    <3>1. n # 2
      BY <1>3, <1>4, <2>1, <2>3 DEF Outer
    <3>2. n >= 3
      BY <2>1, <2>2, <3>1
    <3>3. Begun(fs, t)
      BY <1>1 DEF Good
    <3>. QED
      BY <2>1, <2>3, <3>2, <3>3 DEF Begun, InMode
  <2>. QED
    BY <1>1, <2>1, <2>2, <2>3 DEF Quiet
<1>7. Len(fs) # 2
  BY <1>3, <1>4, <1>6 DEF InMode, HasCaught, Selecting, Outer
<1>8. InMode(fs) /\ Len(fs) <= 3
  BY <1>2, <1>6, <1>7 DEF Catches
<1>9. Len(fs) = 3
  <2>1. PICK n \in Int : n = Len(fs)
    BY <1>3
  <2>2. n = 3
    BY <1>3, <1>5, <1>7, <1>8, <2>1
  <2>. QED
    BY <2>1, <2>2
<1>10. Trying(fs)
  <2>1. Len(fs) \in 1 .. 3
    BY <1>9
  <2>2. fs[2].CallMethod \in Outer
    BY <1>8 DEF InMode, Selecting, Outer
  <2>3. Evaluates(fs[3], Headers)
    BY <1>3, <1>9
  <2>. QED
    BY <1>2, <2>1, <2>2, <2>3 DEF Trying
<1>. QED
  BY <1>1, <1>3, <1>8, <1>9, <1>10 DEF HeaderOn

\* A value of a header that is tried is not there.
LEMMA HeaderThrows ==
  ASSUME NEW t, NEW q, NEW f, HeaderOn(q, t, f), f.CallState = "Loop"
  PROVE  Good(Throw(q), t)
<1>1. PICK fs, o : fs = q.FrameStack /\ o = fs[2]
  OBVIOUS
<1>2. /\ IsVm(q) /\ ~q.IsFatalFailure /\ Evaluates(f, Headers) /\ f = Last(fs) /\ IsFrame(f)
      /\ o.CallMethod \in Outer
      /\ IsSeq(q.LoopCounterStack) /\ IsSeq(q.SavedPosStack)
      /\ Len(q.LoopCounterStack) = 1 + Ct("counting", o, t) + (IF f.CallState # "Enter" THEN 1 ELSE 0)
      /\ q.CatchStack = CatchesAt(o.CallMethod, f.CallState)
      /\ Ct("counting", o, t) \in {0, 1}
  BY <1>1, HeaderFacts
<1>3. Trying(fs) /\ Len(fs) = 3 /\ f = fs[3]
  BY <1>1 DEF HeaderOn
<1>4. q.CatchStack = << "NO_SUCH_METHOD", o.CallMethod, "Eval" >>
  BY <1>2 DEF CatchesAt
<1>5. Last(q.CatchStack) = "Eval" /\ ~IsEmpty(q.CatchStack)
      /\ Front(q.CatchStack) = << "NO_SUCH_METHOD", o.CallMethod >>
  <2>1. Last(q.CatchStack) = "Eval"
    BY <1>4 DEF Last
  <2>2. ~IsEmpty(q.CatchStack)
    BY <1>4 DEF IsEmpty
  <2>3. \A x, y, z : Front(<< x, y, z >>) = << x, y >>
    <3>1. ASSUME NEW x, NEW y, NEW z PROVE Front(<< x, y, z >>) = << x, y >>
      BY CatchFront
    <3>. QED
      BY <3>1
  <2>. QED
    BY <1>4, <2>1, <2>2, <2>3, Zenon
<1>6. f.CallMethod = "Eval" /\ o.CallMethod # "Eval"
  BY <1>2 DEF Evaluates, Outer
<1>7. Catchers(q) = {3}
  <2>1. ASSUME NEW i \in 2 .. 3 PROVE fs[i].CallMethod = "Eval" <=> i = 3
    BY <1>1, <1>3, <1>6
  <2>. QED
    BY <1>1, <1>2, <1>3, <1>5, <2>1 DEF Catchers
<1>8. InnermostCatcher(q) = 3
  BY <1>7 DEF InnermostCatcher
<1>9. SubSeq(fs, 1, 3) = fs
  <2>1. PICK S : fs \in Seq(S)
    BY <1>3, TryingLen DEF IsSeq
  <2>. QED
    BY <1>3, <2>1
<1>10. PICK g, gs, c : g = In(f, "Catch") /\ gs = SetTop(fs, g)
                       /\ c = << "NO_SUCH_METHOD", o.CallMethod >>
  OBVIOUS
<1>11. [SubSeq(fs, 1, 3) EXCEPT ![3].CallState = "Catch"] = gs
  BY <1>3, <1>9, <1>10 DEF SetTop, In
<1>12. PICK s : s = fs[3].CallState
  OBVIOUS
<1>13. Throw(q) = [q EXCEPT !.CatchState = s, !.FrameStack = gs, !.CatchStack = c]
  <2>1. Catchers(q) # {}
    BY <1>7
  <2>2. Throw(q) = LET i == InnermostCatcher(q) IN
          [q EXCEPT !.CatchState = q.FrameStack[i].CallState,
                    !.FrameStack = [SubSeq(@, 1, i) EXCEPT ![i].CallState = "Catch"],
                    !.CatchStack = IF IsEmpty(@) THEN @ ELSE Front(@)]
    BY <2>1, Zenon DEF Throw
  <2>3. [q EXCEPT !.CatchState = s, !.FrameStack = gs, !.CatchStack = c] =
        [q EXCEPT !.CatchState = q.FrameStack[3].CallState,
                  !.FrameStack = [SubSeq(@, 1, 3) EXCEPT ![3].CallState = "Catch"],
                  !.CatchStack = IF IsEmpty(@) THEN @ ELSE Front(@)]
    BY <1>1, <1>5, <1>10, <1>11, <1>12, Zenon
  <2>. QED
    BY <1>8, <2>2, <2>3, Zenon
<1>14. PICK r : r = [q EXCEPT !.CatchState = s, !.FrameStack = gs, !.CatchStack = c]
  OBVIOUS
<1>15. Tries(q, r) /\ r.LoopCounterStack = q.LoopCounterStack /\ r.SavedPosStack = q.SavedPosStack
       /\ r.FrameStack = gs /\ r.CatchStack = c
  BY <1>2, <1>14 DEF Tries, IsVm
<1>16. PICK loops : loops = 2 + Ct("counting", o, t)
  OBVIOUS
<1>17. Tracks(r, gs, loops, Len(q.SavedPosStack), CatchesAt(o.CallMethod, "Catch"))
  <2>1. Len(q.LoopCounterStack) = loops
    BY <1>2, <1>16
  <2>. QED
    BY <1>2, <1>10, <1>15, <2>1 DEF Tracks, CatchesAt
<1>18. SameSelector(q, r)
  BY <1>15 DEF SameSelector
<1>19. o = q.FrameStack[2] /\ gs = SetTop(q.FrameStack, g) /\ "Catch" # "Enter"
  BY <1>1, <1>10
<1>20. Good(r, t)
  BY <1>10, <1>15, <1>16, <1>17, <1>18, <1>19, HeaderGoes
<1>. QED
  BY <1>13, <1>14, <1>20

\* Front and SetTop at known heights.
LEMMA SecondStays ==
  ASSUME NEW s, IsSeq(s), NEW v
  PROVE  /\ Len(s) >= 2 => Append(s, v)[2] = s[2]
         /\ Len(s) = 3 => Front(s)[2] = s[2] /\ SetTop(s, v)[2] = s[2]
<1>1. Len(s) >= 2 => Append(s, v)[2] = s[2]
  <2>1. SUFFICES ASSUME Len(s) >= 2 PROVE Append(s, v)[2] = s[2]
    OBVIOUS
  <2>2. 2 \in 1 .. Len(s)
    BY <2>1, SeqLen
  <2>. QED
    BY <2>2, SeqAppend
<1>2. Len(s) = 3 => Front(s)[2] = s[2] /\ SetTop(s, v)[2] = s[2]
  <2>1. SUFFICES ASSUME Len(s) = 3 PROVE Front(s)[2] = s[2] /\ SetTop(s, v)[2] = s[2]
    OBVIOUS
  <2>2. Len(s) >= 1 /\ 2 \in 1 .. Len(s) - 1
    BY <2>1
  <2>3. Front(s)[2] = s[2]
    BY <2>2, SeqFront
  <2>4. SetTop(s, v)[2] = s[2]
    BY <2>2, SeqSetTop
  <2>. QED
    BY <2>3, <2>4
<1>. QED
  BY <1>1, <1>2

\* The frame that is returned to.
LEMMA ReturnTo ==
  ASSUME NEW fs, Trying(fs), Len(fs) = 3, NEW r, IsVm(r), r.FrameStack = fs, NEW v
  PROVE  \E g : /\ IsFrame(g) /\ Alike(fs[2], g)
                /\ Return(r, v) = With(r, SetTop(Front(fs), g))
<1>1. Trying(Front(fs)) /\ Len(Front(fs)) = 2 /\ Front(fs)[2] = fs[2]
  <2>1. Len(fs) \in 2 .. 3 /\ Len(fs) - 1 = 2 /\ 2 \in 1 .. Len(fs) - 1
    OBVIOUS
  <2>. QED
    BY <2>1, TryFront
<1>2. PICK bs, o : bs = Front(fs) /\ o = fs[2]
  OBVIOUS
<1>3. Last(bs) = o /\ IsFrame(o)
  BY <1>1, <1>2, TryingLen
<1>4. PICK g : g = [o EXCEPT !.ReturnValue = v]
  OBVIOUS
<1>5. IsFrame(g) /\ Alike(o, g)
  BY <1>3, <1>4 DEF IsFrame, Alike
<1>6. Return(r, v) = With(r, SetTop(bs, g))
  BY <1>2, <1>3, <1>4 DEF Return, With
<1>. QED
  BY <1>2, <1>5, <1>6

\* The header has been read.
LEMMA HeaderExits ==
  ASSUME NEW t, NEW m, NEW f, HeaderOn(m, t, f), f.CallState = "Exit", NEW v,
         NEW c, c = Front(m.CatchStack)
  PROVE  Good(Return(PopLoop([m EXCEPT !.CatchStack = c]), v), t)
<1>1. PICK fs, o : fs = m.FrameStack /\ o = fs[2]
  OBVIOUS
<1>2. /\ IsVm(m) /\ o.CallMethod \in Outer /\ o.CallState # "Catch"
      /\ IsSeq(m.LoopCounterStack) /\ IsSeq(m.SavedPosStack)
      /\ Len(m.LoopCounterStack) = 1 + Ct("counting", o, t) + (IF f.CallState # "Enter" THEN 1 ELSE 0)
      /\ m.CatchStack = CatchesAt(o.CallMethod, f.CallState)
      /\ o.CallMethod = "GetAlgorithm" => Ct("counting", o, t) = 1
      /\ Ct("counting", o, t) \in {0, 1}
  BY <1>1, HeaderFacts
<1>3. Trying(fs) /\ Len(fs) = 3
  BY <1>1 DEF HeaderOn
<1>4. c = << "NO_SUCH_METHOD", o.CallMethod >>
  <2>1. m.CatchStack = << "NO_SUCH_METHOD", o.CallMethod, "Eval" >>
    BY <1>2 DEF CatchesAt
  <2>2. \A x, y, z : Front(<< x, y, z >>) = << x, y >>
    <3>1. ASSUME NEW x, NEW y, NEW z PROVE Front(<< x, y, z >>) = << x, y >>
      BY CatchFront
    <3>. QED
      BY <3>1
  <2>. QED
    BY <2>1, <2>2, Zenon
<1>5. PICK loops : loops = Front(m.LoopCounterStack)
  OBVIOUS
<1>6. Len(m.LoopCounterStack) >= 1 /\ (o.CallMethod = "GetAlgorithm" => Len(m.LoopCounterStack) = 3)
  BY <1>2
<1>7. IsSeq(loops) /\ Len(loops) = Len(m.LoopCounterStack) - 1
  BY <1>2, <1>5, <1>6, SeqFront
<1>8. o.CallMethod = "GetAlgorithm" => loops[2] = m.LoopCounterStack[2]
  BY <1>2, <1>5, <1>6, SecondStays
<1>9. PICK q : q = [m EXCEPT !.CatchStack = c, !.LoopCounterStack = loops]
  OBVIOUS
<1>10. PopLoop([m EXCEPT !.CatchStack = c]) = q
  BY <1>2, <1>5, <1>9 DEF PopLoop, IsVm
<1>11. /\ IsVm(q) /\ q.FrameStack = fs /\ q.LoopCounterStack = loops /\ q.CatchStack = c
       /\ Tries(m, q) /\ q.SavedPosStack = m.SavedPosStack
  BY <1>1, <1>2, <1>9 DEF IsVm, Tries
<1>12. PICK g : IsFrame(g) /\ Alike(o, g) /\ Return(q, v) = With(q, SetTop(Front(fs), g))
  BY <1>1, <1>3, <1>11, ReturnTo
<1>13. PICK gs, r : gs = SetTop(Front(fs), g) /\ r = With(q, gs)
  OBVIOUS
<1>14. /\ r.FrameStack = gs /\ r.LoopCounterStack = loops /\ r.CatchStack = c
       /\ Tries(m, r) /\ r.SavedPosStack = m.SavedPosStack
  BY <1>11, <1>13 DEF IsVm, Tries, With
<1>15. PICK n : n = Len(m.LoopCounterStack) - 1
  OBVIOUS
<1>16. Tracks(r, gs, n, Len(m.SavedPosStack), c)
  BY <1>2, <1>7, <1>14, <1>15 DEF Tracks
<1>17. SameSelector(m, r)
  BY <1>1, <1>8, <1>14 DEF SameSelector
<1>18. g.CallMethod = o.CallMethod /\ g.CallState = o.CallState
  BY <1>12 DEF Alike
<1>19. c = IF g.CallState = "Catch" THEN << "NO_SUCH_METHOD" >> ELSE << "NO_SUCH_METHOD", g.CallMethod >>
  BY <1>2, <1>4, <1>18
<1>20. /\ f.CallState # "Enter" /\ o = m.FrameStack[2] /\ gs = SetTop(Front(m.FrameStack), g)
       /\ g.CallState \in {o.CallState, "Catch"}
  BY <1>1, <1>13, <1>18
<1>21. Good(r, t)
  BY <1>12, <1>14, <1>15, <1>16, <1>17, <1>18, <1>19, <1>20, HeaderLeaves
<1>. QED
  BY <1>10, <1>12, <1>13, <1>21

\* The header could not be read: what tries it catches that.
LEMMA HeaderCaught ==
  ASSUME NEW t, NEW m, NEW f, HeaderOn(m, t, f), f.CallState = "Catch", NEW v
  PROVE  Good(Throw(Return(PopLoop(m), v)), t)
<1>1. PICK fs, o : fs = m.FrameStack /\ o = fs[2]
  OBVIOUS
<1>2. /\ IsVm(m) /\ ~m.IsFatalFailure /\ o.CallMethod \in Outer /\ o.CallState # "Catch"
      /\ IsSeq(m.LoopCounterStack) /\ IsSeq(m.SavedPosStack)
      /\ Len(m.LoopCounterStack) = 1 + Ct("counting", o, t) + (IF f.CallState # "Enter" THEN 1 ELSE 0)
      /\ m.CatchStack = CatchesAt(o.CallMethod, f.CallState)
      /\ o.CallMethod = "GetAlgorithm" => Ct("counting", o, t) = 1
      /\ Ct("counting", o, t) \in {0, 1}
  BY <1>1, HeaderFacts
<1>3. Trying(fs) /\ Len(fs) = 3
  BY <1>1 DEF HeaderOn
<1>4. m.CatchStack = << "NO_SUCH_METHOD", o.CallMethod >>
  BY <1>2 DEF CatchesAt
<1>5. Last(m.CatchStack) = o.CallMethod /\ ~IsEmpty(m.CatchStack)
      /\ Front(m.CatchStack) = << "NO_SUCH_METHOD" >>
  <2>1. Last(m.CatchStack) = o.CallMethod
    BY <1>4 DEF Last
  <2>2. ~IsEmpty(m.CatchStack)
    BY <1>4 DEF IsEmpty
  <2>3. \A x, y : Front(<< x, y >>) = << x >>
    <3>1. ASSUME NEW x, NEW y PROVE Front(<< x, y >>) = << x >>
      BY CatchOps
    <3>. QED
      BY <3>1
  <2>. QED
    BY <1>4, <2>1, <2>2, <2>3, Zenon
<1>6. PICK loops : loops = Front(m.LoopCounterStack)
  OBVIOUS
<1>7. Len(m.LoopCounterStack) >= 1 /\ (o.CallMethod = "GetAlgorithm" => Len(m.LoopCounterStack) = 3)
  BY <1>2
<1>8. IsSeq(loops) /\ Len(loops) = Len(m.LoopCounterStack) - 1
  BY <1>2, <1>6, <1>7, SeqFront
<1>9. o.CallMethod = "GetAlgorithm" => loops[2] = m.LoopCounterStack[2]
  BY <1>2, <1>6, <1>7, SecondStays
<1>10. PICK p : p = PopLoop(m)
  OBVIOUS
<1>11. /\ IsVm(p) /\ p.FrameStack = fs /\ p.LoopCounterStack = loops
       /\ p.CatchStack = m.CatchStack /\ Tries(m, p) /\ p.SavedPosStack = m.SavedPosStack
  BY <1>1, <1>2, <1>6, <1>10 DEF IsVm, Tries, PopLoop
<1>12. PICK g : IsFrame(g) /\ Alike(o, g) /\ Return(p, v) = With(p, SetTop(Front(fs), g))
  BY <1>1, <1>3, <1>11, ReturnTo
<1>13. PICK bs, gs, q : bs = Front(fs) /\ gs = SetTop(bs, g) /\ q = With(p, gs)
  OBVIOUS
<1>14. /\ IsVm(q) /\ q.FrameStack = gs /\ q.LoopCounterStack = loops /\ q.CatchStack = m.CatchStack
       /\ Tries(m, q) /\ q.SavedPosStack = m.SavedPosStack /\ ~q.IsFatalFailure
  BY <1>2, <1>11, <1>13 DEF IsVm, Tries, With
<1>15. g.CallMethod = o.CallMethod /\ g.CallState = o.CallState
  BY <1>12 DEF Alike
<1>16. Trying(bs) /\ Len(bs) = 2
  <2>1. Len(fs) \in 2 .. 3 /\ Len(fs) - 1 = 2
    BY <1>3
  <2>. QED
    BY <1>3, <1>13, <2>1, TryFront
<1>17. Trying(gs) /\ Len(gs) = 2 /\ gs[2] = g /\ IsSeq(gs)
  BY <1>2, <1>12, <1>13, <1>15, <1>16, TrySetOuter, TryingLen
<1>18. Catchers(q) = {2}
  <2>1. \A i \in 2 .. 2 : i = 2
    OBVIOUS
  <2>. QED
    BY <1>5, <1>14, <1>15, <1>17, <2>1 DEF Catchers
<1>19. InnermostCatcher(q) = 2
  BY <1>18 DEF InnermostCatcher
<1>20. SubSeq(gs, 1, 2) = gs
  <2>1. PICK S : gs \in Seq(S)
    BY <1>17 DEF IsSeq
  <2>. QED
    BY <1>17, <2>1
<1>21. PICK d, ds, c : d = In(g, "Catch") /\ ds = SetTop(bs, d) /\ c = << "NO_SUCH_METHOD" >>
  OBVIOUS
<1>22. [SubSeq(gs, 1, 2) EXCEPT ![2].CallState = "Catch"] = ds
  <2>1. SetTop(gs, d) = ds
    <3>1. IsSeq(bs) /\ Len(bs) >= 1
      BY <1>16, TryingLen
    <3>. QED
      BY <1>13, <1>21, <3>1, SetTopTwice
  <2>2. [gs EXCEPT ![2].CallState = "Catch"] = SetTop(gs, d)
    BY <1>17, <1>21 DEF SetTop, In
  <2>. QED
    BY <1>20, <2>1, <2>2
<1>23. PICK s : s = gs[2].CallState
  OBVIOUS
<1>24. Throw(q) = [q EXCEPT !.CatchState = s, !.FrameStack = ds, !.CatchStack = c]
  <2>1. Catchers(q) # {}
    BY <1>18
  <2>2. Throw(q) = LET i == InnermostCatcher(q) IN
          [q EXCEPT !.CatchState = q.FrameStack[i].CallState,
                    !.FrameStack = [SubSeq(@, 1, i) EXCEPT ![i].CallState = "Catch"],
                    !.CatchStack = IF IsEmpty(@) THEN @ ELSE Front(@)]
    BY <2>1, Zenon DEF Throw
  <2>3. [q EXCEPT !.CatchState = s, !.FrameStack = ds, !.CatchStack = c] =
        [q EXCEPT !.CatchState = q.FrameStack[2].CallState,
                  !.FrameStack = [SubSeq(@, 1, 2) EXCEPT ![2].CallState = "Catch"],
                  !.CatchStack = IF IsEmpty(@) THEN @ ELSE Front(@)]
    BY <1>5, <1>14, <1>21, <1>22, <1>23, Zenon
  <2>. QED
    BY <1>19, <2>2, <2>3, Zenon
<1>25. PICK r : r = [q EXCEPT !.CatchState = s, !.FrameStack = ds, !.CatchStack = c]
  OBVIOUS
<1>26. /\ Tries(m, r) /\ r.LoopCounterStack = loops /\ r.SavedPosStack = m.SavedPosStack
       /\ r.FrameStack = ds /\ r.CatchStack = c
  BY <1>14, <1>25 DEF Tries, IsVm
<1>27. PICK n : n = Len(m.LoopCounterStack) - 1
  OBVIOUS
<1>28. Tracks(r, ds, n, Len(m.SavedPosStack), c)
  BY <1>2, <1>8, <1>26, <1>27 DEF Tracks
<1>29. SameSelector(m, r)
  BY <1>1, <1>9, <1>26 DEF SameSelector
<1>30. IsFrame(d) /\ d.CallMethod = o.CallMethod /\ d.CallState = "Catch"
  BY <1>12, <1>15, <1>21, InFields
<1>31. c = IF d.CallState = "Catch" THEN << "NO_SUCH_METHOD" >> ELSE << "NO_SUCH_METHOD", d.CallMethod >>
  BY <1>21, <1>30
<1>32. /\ f.CallState # "Enter" /\ o = m.FrameStack[2] /\ ds = SetTop(Front(m.FrameStack), d)
       /\ d.CallState \in {o.CallState, "Catch"}
  BY <1>1, <1>13, <1>21, <1>30
<1>33. Good(r, t)
  BY <1>26, <1>27, <1>28, <1>29, <1>30, <1>31, <1>32, HeaderLeaves
<1>. QED
  BY <1>10, <1>12, <1>13, <1>24, <1>25, <1>33

\* A header is entered, and left.
LEMMA HeaderEnters ==
  ASSUME NEW t, NEW m, NEW f, HeaderOn(m, t, f), f.CallState = "Enter", NEW v,
         NEW c, c = Append(m.CatchStack, "Eval")
  PROVE  Good(Goto(PushLoop([m EXCEPT !.CatchStack = c], v), "Loop"), t)
<1>1. PICK fs, o : fs = m.FrameStack /\ o = fs[2]
  OBVIOUS
<1>2. /\ IsVm(m) /\ o.CallMethod \in Outer /\ f = Last(fs)
      /\ IsSeq(m.LoopCounterStack) /\ IsSeq(m.SavedPosStack)
      /\ Len(m.LoopCounterStack) = 1 + Ct("counting", o, t) + (IF f.CallState # "Enter" THEN 1 ELSE 0)
      /\ m.CatchStack = CatchesAt(o.CallMethod, f.CallState)
      /\ o.CallMethod = "GetAlgorithm" => Ct("counting", o, t) = 1
      /\ Ct("counting", o, t) \in {0, 1}
  BY <1>1, HeaderFacts
<1>3. m.CatchStack = << "NO_SUCH_METHOD", o.CallMethod >>
  BY <1>2 DEF CatchesAt
<1>4. c = << "NO_SUCH_METHOD", o.CallMethod, "Eval" >>
  <2>1. \A x, y, z : Append(<< x, y >>, z) = << x, y, z >>
    <3>1. ASSUME NEW x, NEW y, NEW z PROVE Append(<< x, y >>, z) = << x, y, z >>
      <4>1. PICK s : s = << x, y >>
        OBVIOUS
      <4>2. PICK S : x \in S /\ y \in S /\ z \in S
        <5>1. x \in {x, y, z} /\ y \in {x, y, z} /\ z \in {x, y, z}
          OBVIOUS
        <5>. QED
          BY <5>1
      <4>3. s \in Seq(S) /\ Len(s) = 2 /\ s[1] = x /\ s[2] = y
        BY <4>1, <4>2
      <4>4. IsSeq(s)
        BY <4>3, SeqIntro
      <4>5. PICK a : a = Append(s, z)
        OBVIOUS
      <4>6. /\ IsSeq(a) /\ Len(a) = Len(s) + 1
            /\ \A i \in 1 .. Len(s) : a[i] = s[i]
            /\ a[Len(s) + 1] = z
        BY <4>4, <4>5, SeqAppend
      <4>7. Len(a) = 3 /\ a[1] = x /\ a[2] = y /\ a[3] = z
        BY <4>3, <4>6
      <4>8. a = << x, y, z >>
        BY <4>6, <4>7, SeqIs
      <4>. QED
        BY <4>1, <4>5, <4>8
    <3>. QED
      BY <3>1
  <2>. QED
    BY <1>3, <2>1, Zenon
<1>5. PICK s : s = Append(m.LoopCounterStack, v)
  OBVIOUS
<1>6. IsSeq(s) /\ Len(s) = Len(m.LoopCounterStack) + 1
  BY <1>2, <1>5, SeqAppend
<1>7. o.CallMethod = "GetAlgorithm" => s[2] = m.LoopCounterStack[2]
  <2>1. o.CallMethod = "GetAlgorithm" => Len(m.LoopCounterStack) >= 2
    BY <1>2
  <2>. QED
    BY <1>2, <1>5, <2>1, SecondStays
<1>8. PICK g, gs : g = In(f, "Loop") /\ gs = SetTop(fs, g)
  OBVIOUS
<1>9. PICK q : q = [m EXCEPT !.CatchStack = c, !.LoopCounterStack = s]
  OBVIOUS
<1>10. PushLoop([m EXCEPT !.CatchStack = c], v) = q
  BY <1>2, <1>5, <1>9 DEF PushLoop, IsVm
<1>11. /\ IsVm(q) /\ q.FrameStack = fs /\ q.LoopCounterStack = s /\ q.CatchStack = c
       /\ Tries(m, q) /\ q.SavedPosStack = m.SavedPosStack
  BY <1>1, <1>2, <1>9 DEF IsVm, Tries
<1>12. Goto(q, "Loop") = With(q, gs)
  BY <1>2, <1>8, <1>11 DEF Goto, With, In
<1>13. PICK r : r = With(q, gs)
  OBVIOUS
<1>14. /\ r.FrameStack = gs /\ r.LoopCounterStack = s /\ r.CatchStack = c
       /\ Tries(m, r) /\ r.SavedPosStack = m.SavedPosStack
  BY <1>11, <1>13 DEF IsVm, Tries, With
<1>15. PICK n : n = 2 + Ct("counting", o, t)
  OBVIOUS
<1>16. Len(s) = n
  BY <1>2, <1>6, <1>15
<1>17. Tracks(r, gs, n, Len(m.SavedPosStack), CatchesAt(o.CallMethod, "Loop"))
  BY <1>2, <1>4, <1>6, <1>14, <1>16 DEF Tracks, CatchesAt
<1>18. SameSelector(m, r)
  BY <1>1, <1>7, <1>14 DEF SameSelector
<1>19. o = m.FrameStack[2] /\ gs = SetTop(m.FrameStack, g) /\ "Loop" # "Enter"
  BY <1>1, <1>8
<1>20. Good(r, t)
  BY <1>8, <1>14, <1>15, <1>17, <1>18, <1>19, HeaderGoes
<1>. QED
  BY <1>10, <1>12, <1>13, <1>20

LEMMA HeaderEnds ==
  ASSUME NEW t, NEW m, NEW f, HeaderOn(m, t, f), f.CallState = "Loop"
  PROVE  Good(Goto(m, "Exit"), t)
<1>1. PICK fs, o : fs = m.FrameStack /\ o = fs[2]
  OBVIOUS
<1>2. /\ IsVm(m) /\ f = Last(fs)
      /\ IsSeq(m.LoopCounterStack) /\ IsSeq(m.SavedPosStack)
      /\ Len(m.LoopCounterStack) = 1 + Ct("counting", o, t) + (IF f.CallState # "Enter" THEN 1 ELSE 0)
      /\ m.CatchStack = CatchesAt(o.CallMethod, f.CallState)
      /\ Ct("counting", o, t) \in {0, 1}
  BY <1>1, HeaderFacts
<1>3. PICK g, gs : g = In(f, "Exit") /\ gs = SetTop(fs, g)
  OBVIOUS
<1>4. Goto(m, "Exit") = With(m, gs)
  BY <1>1, <1>2, <1>3 DEF Goto, With, In
<1>5. PICK r : r = With(m, gs)
  OBVIOUS
<1>6. /\ r.FrameStack = gs /\ r.LoopCounterStack = m.LoopCounterStack /\ r.CatchStack = m.CatchStack
      /\ Tries(m, r) /\ r.SavedPosStack = m.SavedPosStack
  BY <1>2, <1>5 DEF IsVm, Tries, With
<1>7. PICK n : n = 2 + Ct("counting", o, t)
  OBVIOUS
<1>8. Len(m.LoopCounterStack) = n
  BY <1>2, <1>7
<1>9. Tracks(r, gs, n, Len(m.SavedPosStack), CatchesAt(o.CallMethod, "Exit"))
  BY <1>2, <1>6, <1>8 DEF Tracks, CatchesAt
<1>10. SameSelector(m, r)
  BY <1>6 DEF SameSelector
<1>11. o = m.FrameStack[2] /\ gs = SetTop(m.FrameStack, g) /\ "Exit" # "Enter"
  BY <1>1, <1>3
<1>12. Good(r, t)
  BY <1>3, <1>6, <1>7, <1>9, <1>10, <1>11, HeaderGoes
<1>. QED
  BY <1>4, <1>5, <1>12

\* A value of a header is counted.
LEMMA HeaderCounts ==
  ASSUME NEW t, NEW m, NEW f, HeaderOn(m, t, f), f.CallState = "Loop", NEW v
  PROVE  Good(CountLoop(m, v), t)
<1>1. PICK fs, o, r : fs = m.FrameStack /\ o = fs[2] /\ r = CountLoop(m, v)
  OBVIOUS
<1>2. /\ IsSeq(m.LoopCounterStack) /\ Counts(m, fs)
      /\ Len(m.LoopCounterStack) = 1 + Ct("counting", o, t) + (IF f.CallState # "Enter" THEN 1 ELSE 0)
      /\ o.CallMethod = "GetAlgorithm" => Ct("counting", o, t) = 1
      /\ IsVm(m)
  BY <1>1, HeaderFacts
<1>3. Good(m, t)
  BY DEF HeaderOn
<1>4. /\ ButLoops(m, r) /\ IsSeq(r.LoopCounterStack)
      /\ Len(r.LoopCounterStack) = Len(m.LoopCounterStack)
  BY <1>1, <1>3, LoopOps
<1>5. PICK w : w = Last(m.LoopCounterStack) + v
  OBVIOUS
<1>6. r.LoopCounterStack = SetTop(m.LoopCounterStack, w)
  BY <1>1, <1>2, <1>5 DEF CountLoop, IsVm
<1>7. o.CallMethod = "GetAlgorithm" => r.LoopCounterStack[2] = m.LoopCounterStack[2]
  <2>1. o.CallMethod = "GetAlgorithm" => Len(m.LoopCounterStack) = 3
    BY <1>2
  <2>. QED
    <3>1. PICK s : s = m.LoopCounterStack
      OBVIOUS
    <3>2. IsSeq(s)
      BY <1>2, <3>1
    <3>3. Len(s) = 3 => SetTop(s, w)[2] = s[2]
      BY <3>2, SecondStays
    <3>. QED
      BY <1>6, <2>1, <3>1, <3>3
<1>8. Counts(r, m.FrameStack)
  BY <1>1, <1>2, <1>7 DEF Counts
<1>. QED
  BY <1>1, <1>3, <1>4, <1>8, CountGood

\* A header that is tried.
LEMMA HeaderTried ==
  ASSUME Good(vm, task), EvalHeader, ~Quiet(vm.FrameStack) PROVE Ok(vm', task)
<1>1. PICK f, t : f = Last(vm.FrameStack) /\ t = task
  OBVIOUS
<1>2. Evaluating(Headers)
  BY DEF EvalHeader
<1>3. f.CallMethod = "Eval" /\ f.Nd = Nd /\ Nd.type \in Headers /\ f.CallState = Frame.CallState
  BY <1>1, <1>2, Evaluated
<1>4. Evaluates(f, Headers)
  BY <1>3 DEF Evaluates
<1>5. PICK m : m = vm
  OBVIOUS
<1>6. HeaderOn(m, t, f)
  BY <1>1, <1>4, <1>5, HeaderIsOn
<1>7. ~IsEmpty(m.CatchStack)
  <2>1. m.CatchStack = CatchesAt(m.FrameStack[2].CallMethod, f.CallState)
    BY <1>6, HeaderFacts
  <2>. QED
    BY <2>1 DEF CatchesAt, IsEmpty
<1>8. CASE At("Enter")
  <2>1. PICK c : c = Append(m.CatchStack, "Eval")
    OBVIOUS
  <2>2. vm' = Goto(PushLoop([m EXCEPT !.CatchStack = c], 0), "Loop")
    <3>1. vm' = Goto(PushLoop([m EXCEPT !.CatchStack = IF IsEmpty(@) THEN @ ELSE Append(@, "Eval")], 0),
                     "Loop")
      BY <1>5, <1>8, Zenon DEF EvalHeader, At, Becomes
    <3>. QED
      BY <1>7, <2>1, <3>1, Zenon
  <2>3. f.CallState = "Enter"
    BY <1>3, <1>8 DEF At
  <2>4. Good(Goto(PushLoop([m EXCEPT !.CatchStack = c], 0), "Loop"), t)
    BY <1>6, <2>1, <2>3, HeaderEnters
  <2>. QED
    BY <1>1, <2>2, <2>4, Zenon DEF Ok
<1>9. CASE At("Loop")
  <2>1. f.CallState = "Loop"
    BY <1>3, <1>9 DEF At
  <2>2. CASE LoopCounter = Len(Nd.kids)
    <3>1. vm' = Goto(m, "Exit")
      BY <1>5, <1>9, <2>2 DEF EvalHeader, At, Becomes
    <3>. QED
      BY <1>1, <1>6, <2>1, <3>1, HeaderEnds DEF Ok
  <2>3. CASE LoopCounter # Len(Nd.kids)
    <3>1. PICK q, lit : q = CountLoop(m, 1) /\ lit = Nd.kids[LoopCounter + 1]
      OBVIOUS
    <3>2. vm' = HeaderValue(q, lit)
      BY <1>5, <1>9, <2>3, <3>1 DEF EvalHeader, At, Becomes
    <3>3. Good(q, t)
      BY <1>6, <2>1, <3>1, HeaderCounts
    <3>4. PICK r : Keeps(q, r) /\ (vm' = r \/ vm' = Throw(r))
      BY <3>2, <3>3, HeaderValueIs DEF KeptOrThrown, Good
    <3>5. Good(r, t)
      BY <3>3, <3>4, KeepsGood
    <3>6. r.FrameStack = m.FrameStack
      <4>1. ButLoops(m, q)
        BY <1>6, <3>1, LoopOps DEF HeaderOn
      <4>. QED
        BY <3>4, <4>1 DEF ButLoops, Keeps
    <3>7. HeaderOn(r, t, f)
      BY <1>6, <3>5, <3>6 DEF HeaderOn
    <3>8. Good(Throw(r), t)
      BY <2>1, <3>7, HeaderThrows
    <3>. QED
      BY <1>1, <3>4, <3>5, <3>8 DEF Ok
  <2>. QED
    BY <2>2, <2>3
<1>10. CASE At("Catch")
  <2>1. f.CallState = "Catch"
    BY <1>3, <1>10 DEF At
  <2>2. vm' = Throw(Return(PopLoop(m), 0))
    BY <1>5, <1>10, Zenon DEF EvalHeader, At, Becomes
  <2>3. Good(Throw(Return(PopLoop(m), 0)), t)
    BY <1>6, <2>1, HeaderCaught
  <2>. QED
    BY <1>1, <2>2, <2>3 DEF Ok
<1>11. CASE At("Exit")
  <2>1. f.CallState = "Exit"
    BY <1>3, <1>11 DEF At
  <2>2. PICK c : c = Front(m.CatchStack)
    OBVIOUS
  <2>3. vm' = Return(PopLoop([m EXCEPT !.CatchStack = c]), 0)
    <3>1. vm' = Return(PopLoop([m EXCEPT !.CatchStack = IF IsEmpty(@) THEN @ ELSE Front(@)]), 0)
      BY <1>5, <1>11, Zenon DEF EvalHeader, At, Becomes
    <3>. QED
      BY <1>7, <2>2, <3>1, Zenon
  <2>4. Good(Return(PopLoop([m EXCEPT !.CatchStack = c]), 0), t)
    BY <1>6, <2>1, <2>2, HeaderExits
  <2>. QED
    BY <1>1, <2>3, <2>4, Zenon DEF Ok
<1>. QED
  BY <1>8, <1>9, <1>10, <1>11 DEF EvalHeader

\* A header that is evaluated when nothing is tried.
LEMMA HeaderQuiet ==
  ASSUME Good(vm, task), EvalHeader, Quiet(vm.FrameStack) PROVE Ok(vm', task)
<1>1. PICK f, t, m : f = Last(vm.FrameStack) /\ t = task /\ m = vm
  OBVIOUS
<1>2. Evaluating(Headers)
  BY DEF EvalHeader
<1>3. f.CallMethod = "Eval" /\ f.Nd = Nd /\ Nd.type \in Headers /\ f.CallState = Frame.CallState
  BY <1>1, <1>2, Evaluated
<1>4. CountsOnly(f) /\ f.CallMethod \in Inner /\ f.Nd.type # "Loop"
  BY <1>3 DEF CountsOnly, Inner, Headers
<1>5. Good(m, t) /\ IsVm(m) /\ IsFrame(f) /\ Quiet(m.FrameStack)
  BY <1>1, TopFrame DEF Good
<1>6. m.CatchStack = << "NO_SUCH_METHOD" >> /\ IsEmpty(m.CatchStack)
  <2>1. m.CatchStack = << "NO_SUCH_METHOD" >>
    BY <1>5 DEF Good, Catches, Quiet
  <2>. QED
    BY <2>1 DEF IsEmpty
<1>7. m = [m EXCEPT !.CatchStack = m.CatchStack]
  BY <1>5 DEF IsVm
<1>8. ASSUME NEW state
      PROVE  /\ Grows(f, state, t) = 0 =>
                  /\ Ok(Goto(m, state), t)
                  /\ \A v : Ok(Goto(CountLoop(m, v), state), t)
             /\ Grows(f, state, t) = 1 => \A v : Ok(Goto(PushLoop(m, v), state), t)
             /\ Grows(f, state, t) = -1 /\ state = "Enter" => \A v : Good(Return(PopLoop(m), v), t)
  BY <1>1, <1>4, <1>5, CountingMoves
<1>9. /\ f.CallState = "Enter" => Grows(f, "Loop", t) = 1
      /\ f.CallState = "Exit" => Grows(f, "Enter", t) = -1
      /\ f.CallState = "Loop" => Grows(f, "Exit", t) = 0
  BY <1>4, <1>5, GrowsBy
<1>10. CASE At("Enter")
  <2>1. vm' = Goto(PushLoop(m, 0), "Loop")
    <3>1. vm' = Goto(PushLoop([m EXCEPT !.CatchStack = IF IsEmpty(@) THEN @ ELSE Append(@, "Eval")], 0),
                     "Loop")
      BY <1>1, <1>10, Zenon DEF EvalHeader, At, Becomes
    <3>. QED
      BY <1>6, <1>7, <3>1, Zenon
  <2>. QED
    BY <1>1, <1>3, <1>8, <1>9, <1>10, <2>1 DEF At
<1>11. CASE At("Loop")
  <2>1. CASE LoopCounter = Len(Nd.kids)
    <3>1. vm' = Goto(m, "Exit")
      BY <1>1, <1>11, <2>1 DEF EvalHeader, At, Becomes
    <3>. QED
      BY <1>1, <1>3, <1>8, <1>9, <1>11, <3>1 DEF At
  <2>2. CASE LoopCounter # Len(Nd.kids)
    <3>1. PICK q, lit : q = CountLoop(m, 1) /\ lit = Nd.kids[LoopCounter + 1]
      OBVIOUS
    <3>2. vm' = HeaderValue(q, lit)
      BY <1>1, <1>11, <2>2, <3>1 DEF EvalHeader, At, Becomes
    <3>3. /\ ButLoops(m, q) /\ IsSeq(q.LoopCounterStack)
          /\ Len(q.LoopCounterStack) = Len(m.LoopCounterStack)
      BY <1>5, <3>1, LoopOps
    <3>4. Counts(q, m.FrameStack)
      BY <1>5 DEF Counts, Quiet
    <3>5. Good(q, t)
      BY <1>5, <3>3, <3>4, CountGood
    <3>6. PICK r : Keeps(q, r) /\ (vm' = r \/ vm' = Throw(r))
      BY <3>2, <3>5, HeaderValueIs DEF KeptOrThrown, Good
    <3>7. Good(r, t)
      BY <3>5, <3>6, KeepsGood
    <3>8. r.FrameStack = m.FrameStack
      BY <3>3, <3>6 DEF ButLoops, Keeps
    <3>9. Failed(Throw(r))
      BY <1>5, <3>7, <3>8, ThrowFails DEF Good
    <3>. QED
      BY <1>1, <3>6, <3>7, <3>9 DEF Ok
  <2>. QED
    BY <2>1, <2>2
<1>12. CASE At("Catch")
  <2>1. PICK r : r = Return(PopLoop(m), 0)
    OBVIOUS
  <2>2. vm' = Throw(r)
    BY <1>1, <1>12, <2>1, Zenon DEF EvalHeader, At, Becomes
  <2>3. Grows(f, "Enter", t) = -1
    <3>1. PICK g : g = In(f, "Enter")
      OBVIOUS
    <3>2. g.CallMethod = f.CallMethod /\ g.Nd = f.Nd /\ g.CallState = "Enter"
      BY <1>5, <3>1, InFields
    <3>3. CountsOnly(g)
      BY <1>4, <3>2 DEF CountsOnly
    <3>4. f.CallState = "Catch"
      BY <1>3, <1>12 DEF At
    <3>5. Ct("counting", f, t) = 1
      BY <1>4, <3>4, CountsOnlyHas
    <3>6. Ct("counting", g, t) = 0
      BY <3>2, <3>3, CountsOnlyHas
    <3>. QED
      BY <3>1, <3>5, <3>6 DEF Grows
  <2>4. Good(r, t)
    BY <1>8, <2>1, <2>3
  <2>5. r.CatchStack = << "NO_SUCH_METHOD" >>
    <3>1. ButLoops(m, PopLoop(m))
      BY <1>5, LoopOps
    <3>2. PICK p : p = PopLoop(m)
      OBVIOUS
    <3>3. IsVm(p) /\ p.CatchStack = m.CatchStack
      BY <3>1, <3>2 DEF ButLoops
    <3>4. Return(p, 0).CatchStack = p.CatchStack
      BY <3>3 DEF Return, IsVm
    <3>. QED
      BY <1>6, <2>1, <3>2, <3>3, <3>4
  <2>6. Failed(Throw(r))
    BY <2>4, <2>5, NoCatcher DEF Good
  <2>. QED
    BY <2>2, <2>6 DEF Ok
<1>13. CASE At("Exit")
  <2>1. vm' = Return(PopLoop(m), 0)
    <3>1. vm' = Return(PopLoop([m EXCEPT !.CatchStack = IF IsEmpty(@) THEN @ ELSE Front(@)]), 0)
      BY <1>1, <1>13, Zenon DEF EvalHeader, At, Becomes
    <3>. QED
      BY <1>6, <1>7, <3>1, Zenon
  <2>. QED
    BY <1>1, <1>3, <1>8, <1>9, <1>13, <2>1 DEF At, Ok
<1>. QED
  BY <1>10, <1>11, <1>12, <1>13 DEF EvalHeader

LEMMA HeaderOk == ASSUME Good(vm, task), EvalHeader PROVE Ok(vm', task)
BY HeaderQuiet, HeaderTried

---------------------------------------------------------------------------
(***************************************************************************)
(* The methods that try headers.                                           *)
(***************************************************************************)
OuterOn(m, t, f) ==
  /\ Good(m, t) /\ Trying(m.FrameStack) /\ Len(m.FrameStack) = 2
  /\ f = m.FrameStack[2] /\ f = Last(m.FrameStack) /\ f.CallMethod = t.start
  /\ m.FrameStack[1].CallMethod = "Started"

LEMMA IsOuterOn ==
  ASSUME NEW t, NEW m, Good(m, t), NEW f, f = Last(m.FrameStack), f.CallMethod \in Outer
  PROVE  OuterOn(m, t, f)
<1>1. PICK fs : fs = m.FrameStack
  OBVIOUS
<1>2. Shape(fs) /\ Begun(fs, t)
  BY <1>1 DEF Good
<1>3. Len(fs) \in Nat /\ Len(fs) >= 1 /\ f = fs[Len(fs)]
  BY <1>1, <1>2, TopFrame
<1>4. f.CallMethod \notin Inner /\ f.CallMethod \notin {"Started", "Finished"}
  BY DEF Outer, Inner
<1>5. Len(fs) # 1
  BY <1>2, <1>3, <1>4 DEF Shape
<1>6. ~(Len(fs) >= 3)
  <2>1. SUFFICES ASSUME Len(fs) >= 3 PROVE FALSE
    OBVIOUS
  <2>2. Len(fs) \in 3 .. Len(fs)
    BY <1>3, <2>1
  <2>. QED
    BY <1>2, <1>3, <1>4, <2>2 DEF Shape
<1>7. Len(fs) = 2
  <2>1. PICK n \in Int : n = Len(fs)
    BY <1>3
  <2>2. n = 2
    BY <1>3, <1>5, <1>6, <2>1
  <2>. QED
    BY <2>1, <2>2
<1>8. Trying(fs)
  <2>1. Len(fs) \in 1 .. 3
    BY <1>7
  <2>. QED
    BY <1>2, <1>3, <1>7, <2>1 DEF Trying
<1>9. f = fs[2] /\ fs[1].CallMethod = "Started" /\ f.CallMethod = t.start
  <2>1. Len(fs) >= 2
    BY <1>7
  <2>. QED
    BY <1>2, <1>3, <1>7, <2>1 DEF Shape, Begun
<1>. QED
  BY <1>1, <1>7, <1>8, <1>9 DEF OuterOn

\* What is caught by f.
TriesNow(f) ==
  \/ f.CallMethod = "HasFileHeader" /\ f.CallState = "Exit"
  \/ Selecting(f)

CatchesBy(f) ==
  IF TriesNow(f) THEN << "NO_SUCH_METHOD", f.CallMethod >> ELSE << "NO_SUCH_METHOD" >>

LEMMA OuterFacts ==
  ASSUME NEW t, NEW m, NEW f, OuterOn(m, t, f)
  PROVE  /\ IsVm(m) /\ ~m.IsFatalFailure /\ IsFrame(f) /\ f.CallMethod \in Outer
         /\ IsSeq(m.LoopCounterStack) /\ IsSeq(m.SavedPosStack) /\ Idle(m)
         /\ Len(m.LoopCounterStack) = 1 + Ct("counting", f, t)
         /\ Len(m.SavedPosStack) = Ct("peeking", f, t)
         /\ m.CatchStack = CatchesBy(f)
         /\ Ct("counting", f, t) \in {0, 1} /\ Ct("peeking", f, t) \in {0, 1}
         /\ f.CallMethod = "GetAlgorithm" /\ f.CallState \in {"Loop", "Step2", "Catch"}
              => m.LoopCounterStack[2] \in Nat
<1>1. PICK fs : fs = m.FrameStack
  OBVIOUS
<1>2. /\ Trying(fs) /\ Len(fs) = 2 /\ f = fs[2] /\ f = Last(fs)
      /\ IsVm(m) /\ ~m.IsFatalFailure /\ Catches(m, fs) /\ Counts(m, fs) /\ Stacks(m)
  BY <1>1 DEF OuterOn, Good
<1>3. IsFrame(f) /\ f.CallMethod \in Outer
  <2>1. Len(fs) >= 2
    BY <1>2
  <2>. QED
    BY <1>2, <2>1, TryingLen DEF Trying
<1>4. InMode(fs) <=> TriesNow(f)
  BY <1>2 DEF InMode, TriesNow
<1>5. m.CatchStack = CatchesBy(f)
  BY <1>2, <1>4 DEF Catches, CatchesBy
<1>6. f.CallMethod = "GetAlgorithm" /\ f.CallState \in {"Loop", "Step2", "Catch"}
        => m.LoopCounterStack[2] \in Nat
  BY <1>2, <1>3 DEF Counts, InMode, HasCaught, Selecting
<1>7. /\ Len(m.LoopCounterStack) = 1 + Tried("counting", fs, t)
      /\ Len(m.SavedPosStack) = Tried("peeking", fs, t) /\ Idle(m)
  BY <1>1, GoodTrying DEF OuterOn
<1>8. Ct("counting", f, t) \in {0, 1} /\ Ct("peeking", f, t) \in {0, 1}
  BY CtType
<1>9. Tried("counting", fs, t) = Ct("counting", f, t) /\ Tried("peeking", fs, t) = Ct("peeking", f, t)
  BY <1>2, <1>8 DEF Tried
<1>. QED
  BY <1>2, <1>3, <1>5, <1>6, <1>7, <1>8, <1>9 DEF Stacks

\* What g, which is one that tries, must have on the stacks.
OuterTracks(r, fs, g, t) ==
  /\ Tracks(r, fs, 1 + Ct("counting", g, t), Ct("peeking", g, t), CatchesBy(g))
  /\ g.CallMethod = "GetAlgorithm" /\ g.CallState \in {"Loop", "Step2", "Catch"}
       => r.LoopCounterStack[2] \in Nat

\* The method goes on.
LEMMA OuterGoes ==
  ASSUME NEW t, NEW m, NEW f, OuterOn(m, t, f),
         NEW g, IsFrame(g), g.CallMethod = f.CallMethod,
         NEW gs, gs = SetTop(m.FrameStack, g),
         NEW r, Tries(m, r), OuterTracks(r, gs, g, t)
  PROVE  Good(r, t)
<1>1. PICK fs : fs = m.FrameStack
  OBVIOUS
<1>2. f.CallMethod \in Outer
  BY OuterFacts
<1>3. Good(m, t) /\ Trying(fs) /\ Len(fs) = 2 /\ f.CallMethod = t.start
  BY <1>1 DEF OuterOn
<1>4. Trying(gs) /\ Len(gs) = 2 /\ gs[2] = g
  BY <1>1, <1>2, <1>3, TrySetOuter
<1>5. Begun(gs, t)
  BY <1>3, <1>4 DEF Begun
<1>6. PICK loops, saved, catch :
        /\ loops = 1 + Ct("counting", g, t) /\ saved = Ct("peeking", g, t)
        /\ catch = CatchesBy(g)
  OBVIOUS
<1>7. Tracks(r, gs, loops, saved, catch)
  BY <1>6 DEF OuterTracks
<1>8. Ct("counting", g, t) \in {0, 1} /\ Ct("peeking", g, t) \in {0, 1}
  BY CtType
<1>9. Tried("counting", gs, t) = Ct("counting", g, t) /\ Tried("peeking", gs, t) = Ct("peeking", g, t)
  BY <1>4, <1>8 DEF Tried
<1>10. loops = 1 + Tried("counting", gs, t) /\ saved = Tried("peeking", gs, t)
  BY <1>6, <1>9
<1>11. InMode(gs) <=> TriesNow(g)
  BY <1>4 DEF InMode, TriesNow
<1>12. Catches(r, gs)
  <2>1. r.CatchStack = CatchesBy(g)
    BY <1>6, <1>7 DEF Tracks
  <2>. QED
    BY <1>4, <1>11, <2>1 DEF Catches, CatchesBy
<1>13. Counts(r, gs)
  BY <1>4 DEF Counts, InMode, HasCaught, Selecting, OuterTracks
<1>14. Trying(m.FrameStack)
  BY <1>1, <1>3
<1>. QED
  BY <1>3, <1>4, <1>5, <1>7, <1>10, <1>12, <1>13, <1>14, TryStep

\* The method tries a header.
LEMMA OuterTries ==
  ASSUME NEW t, NEW m, NEW f, OuterOn(m, t, f),
         NEW g, IsFrame(g), g.CallMethod = f.CallMethod, TriesNow(g),
         NEW h, IsFrame(h), Evaluates(h, Headers), h.CallState = "Enter",
         NEW bs, bs = SetTop(m.FrameStack, g), NEW gs, gs = Append(bs, h),
         NEW r, Tries(m, r), OuterTracks(r, gs, g, t)
  PROVE  Good(r, t)
<1>1. PICK fs : fs = m.FrameStack
  OBVIOUS
<1>2. f.CallMethod \in Outer
  BY OuterFacts
<1>3. Good(m, t) /\ Trying(fs) /\ Len(fs) = 2 /\ f.CallMethod = t.start /\ fs[1].CallMethod = "Started"
  BY <1>1 DEF OuterOn
<1>4. Trying(bs) /\ Len(bs) = 2 /\ bs[2] = g /\ bs[1] = fs[1]
  BY <1>1, <1>2, <1>3, TrySetOuter
<1>5. Trying(gs) /\ Len(gs) = 3 /\ gs[2] = g /\ gs[3] = h
  <2>1. bs[1].CallMethod = "Started"
    BY <1>3, <1>4
  <2>2. PICK s : s = bs
    OBVIOUS
  <2>3. PICK a : a = gs
    OBVIOUS
  <2>4. Pushed(s, h, a)
    BY <2>2, <2>3 DEF Pushed
  <2>5. Trying(s) /\ Len(s) = 2 /\ s[1].CallMethod = "Started"
    BY <1>4, <2>1, <2>2
  <2>6. Trying(a) /\ Len(a) = 3 /\ a[2] = s[2] /\ a[3] = h
    BY <2>4, <2>5, TryPush
  <2>. QED
    BY <1>4, <2>2, <2>3, <2>6
<1>6. Begun(gs, t)
  BY <1>3, <1>5 DEF Begun, TriesNow, Selecting
<1>7. PICK loops, saved, catch :
        /\ loops = 1 + Ct("counting", g, t) /\ saved = Ct("peeking", g, t)
        /\ catch = CatchesBy(g)
  OBVIOUS
<1>8. Tracks(r, gs, loops, saved, catch)
  BY <1>7 DEF OuterTracks
<1>9. Ct("counting", g, t) \in {0, 1} /\ Ct("peeking", g, t) \in {0, 1}
  BY CtType
<1>10. Ct("counting", h, t) = 0 /\ Ct("peeking", h, t) = 0
  BY EnterHasNone
<1>11. /\ Tried("counting", gs, t) = Ct("counting", g, t) + Ct("counting", h, t)
       /\ Tried("peeking", gs, t) = Ct("peeking", g, t) + Ct("peeking", h, t)
  BY <1>5 DEF Tried
<1>12. loops = 1 + Tried("counting", gs, t) /\ saved = Tried("peeking", gs, t)
  BY <1>7, <1>9, <1>10, <1>11
<1>13. InMode(gs)
  BY <1>5 DEF InMode, TriesNow
<1>14. Catches(r, gs)
  <2>1. r.CatchStack = << "NO_SUCH_METHOD", g.CallMethod >>
    BY <1>7, <1>8 DEF Tracks, CatchesBy
  <2>2. ~HasCaught(gs)
    BY <1>5 DEF HasCaught, TriesNow, Selecting
  <2>. QED
    BY <1>5, <1>13, <2>1, <2>2 DEF Catches
<1>15. Counts(r, gs)
  BY <1>5 DEF Counts, InMode, HasCaught, Selecting, OuterTracks
<1>16. Trying(m.FrameStack)
  BY <1>1, <1>3
<1>. QED
  BY <1>3, <1>5, <1>6, <1>8, <1>12, <1>14, <1>15, <1>16, TryStep

\* The method returns, when it has nothing on the stacks.
LEMMA OuterReturns ==
  ASSUME NEW t, NEW m, NEW f, OuterOn(m, t, f), NEW v,
         NEW r, Tries(m, r), Tracks(r, m.FrameStack, 1, 0, << "NO_SUCH_METHOD" >>)
  PROVE  Good(Return(r, v), t)
<1>1. PICK fs, o : fs = m.FrameStack /\ o = fs[1]
  OBVIOUS
<1>2. Good(m, t) /\ Trying(fs) /\ Len(fs) = 2 /\ o.CallMethod = "Started"
  BY <1>1 DEF OuterOn
<1>3. PICK bs : bs = Front(fs)
  OBVIOUS
<1>4. Trying(bs) /\ Len(bs) = 1 /\ bs[1] = o
  <2>1. Len(fs) \in 2 .. 3 /\ Len(fs) - 1 = 1 /\ 1 \in 1 .. Len(fs) - 1
    BY <1>2
  <2>. QED
    BY <1>1, <1>2, <1>3, <2>1, TryFront
<1>5. Shape(bs) /\ IsSeq(bs) /\ Last(bs) = o /\ IsFrame(o)
  BY <1>4, TryingLen
<1>6. PICK g, gs : g = [o EXCEPT !.ReturnValue = v] /\ gs = SetTop(bs, g)
  OBVIOUS
<1>7. IsFrame(g) /\ g.CallMethod = "Started"
  BY <1>2, <1>5, <1>6 DEF IsFrame
<1>8. IsSeq(gs) /\ Len(gs) = 1 /\ gs[1] = g
  <2>1. Len(bs) >= 1
    BY <1>4
  <2>2. IsSeq(gs) /\ Len(gs) = Len(bs) /\ gs[Len(bs)] = g
    BY <1>5, <1>6, <2>1, SeqSetTop
  <2>. QED
    BY <1>4, <2>2
<1>9. Trying(gs)
  <2>1. \A i \in 1 .. Len(gs) : i = 1
    BY <1>8
  <2>2. \A i \in 1 .. Len(gs) : IsFrame(gs[i])
    BY <1>7, <1>8, <2>1
  <2>3. \A i \in 3 .. Len(gs) : FALSE
    BY <1>8
  <2>4. Shape(gs)
    BY <1>7, <1>8, <2>2, <2>3 DEF Shape
  <2>. QED
    BY <1>8, <2>4 DEF Trying
<1>10. PICK q : q = With(r, gs)
  OBVIOUS
<1>11. r.FrameStack = fs /\ IsVm(r)
  BY <1>1 DEF Tracks, Tries
<1>12. Return(r, v) = q
  BY <1>3, <1>5, <1>6, <1>10, <1>11 DEF Return, With
<1>13. Tries(m, q)
  BY <1>10, <1>11 DEF Tries, With, IsVm
<1>14. PICK one, none, catch : one = 1 /\ none = 0 /\ catch = << "NO_SUCH_METHOD" >>
  OBVIOUS
<1>15. Tracks(q, gs, one, none, catch)
  BY <1>10, <1>11, <1>14 DEF Tracks, With, IsVm
<1>16. one = 1 + Tried("counting", gs, t) /\ none = Tried("peeking", gs, t)
  BY <1>8, <1>14 DEF Tried
<1>17. ~InMode(gs) /\ ~HasCaught(gs)
  BY <1>8 DEF InMode, HasCaught
<1>18. Catches(q, gs)
  BY <1>14, <1>15, <1>17 DEF Catches, Tracks
<1>19. Begun(gs, t) /\ Counts(q, gs)
  BY <1>8, <1>17 DEF Begun, Counts
<1>20. Trying(m.FrameStack)
  BY <1>1, <1>2
<1>. QED
  BY <1>2, <1>9, <1>12, <1>13, <1>15, <1>16, <1>18, <1>19, <1>20, TryStep

\* What HasFileHeader pushes and pops.
LEMMA OneSaved ==
  ASSUME NEW s, IsSeq(s), NEW v
  PROVE  /\ Len(s) = 0 => IsSeq(Append(s, v)) /\ Len(Append(s, v)) = 1
         /\ Len(s) = 1 => IsSeq(Front(s)) /\ Len(Front(s)) = 0
<1>1. Len(s) = 0 => IsSeq(Append(s, v)) /\ Len(Append(s, v)) = 1
  <2>1. IsSeq(Append(s, v)) /\ Len(Append(s, v)) = Len(s) + 1
    BY SeqAppend
  <2>. QED
    BY <2>1
<1>2. Len(s) = 1 => IsSeq(Front(s)) /\ Len(Front(s)) = 0
  <2>1. SUFFICES ASSUME Len(s) = 1 PROVE IsSeq(Front(s)) /\ Len(Front(s)) = 0
    OBVIOUS
  <2>2. Len(s) >= 1 /\ Len(s) - 1 = 0
    BY <2>1
  <2>. QED
    BY <2>2, SeqFront
<1>. QED
  BY <1>1, <1>2

LEMMA CatchesOne ==
  ASSUME NEW x, NEW y
  PROVE  Append(<< x >>, y) = << x, y >> /\ Front(<< x, y >>) = << x >>
BY CatchOps

LEMMA HasHeaderOk ==
  ASSUME Good(vm, task), HasFileHeader, task.start = "HasFileHeader" => task.readHeader.type \in Headers
  PROVE  Ok(vm', task)
<1>1. PICK f, t, m : f = Last(vm.FrameStack) /\ t = task /\ m = vm
  OBVIOUS
<1>2. f.CallMethod = "HasFileHeader" /\ f.CallState = Frame.CallState
  BY <1>1 DEF HasFileHeader, Running, Frame
<1>3. OuterOn(m, t, f)
  BY <1>1, <1>2, IsOuterOn DEF Outer
<1>4. /\ IsVm(m) /\ ~m.IsFatalFailure /\ IsFrame(f) /\ f.CallMethod \in Outer
      /\ IsSeq(m.LoopCounterStack) /\ IsSeq(m.SavedPosStack)
      /\ Len(m.LoopCounterStack) = 1 + Ct("counting", f, t)
      /\ Len(m.SavedPosStack) = Ct("peeking", f, t)
      /\ m.CatchStack = CatchesBy(f)
  BY <1>3, OuterFacts
<1>5. Ct("counting", f, t) = 0 /\ Ct("peeking", f, t) = IF f.CallState # "Enter" THEN 1 ELSE 0
  BY <1>2, <1>4, OuterHas
<1>6. Len(m.LoopCounterStack) = 1
  BY <1>4, <1>5
<1>7. PICK no, me : no = "NO_SUCH_METHOD" /\ me = "HasFileHeader"
  OBVIOUS
<1>8. CASE At("Enter")
  <2>1. f.CallState = "Enter"
    BY <1>2, <1>8 DEF At
  <2>2. Len(m.SavedPosStack) = 0 /\ m.CatchStack = << no >>
    BY <1>2, <1>4, <1>5, <1>7, <2>1 DEF CatchesBy, TriesNow, Selecting
  <2>3. PICK c, s : c = Append(m.CatchStack, me) /\ s = Append(m.SavedPosStack, m.ReadPos)
    OBVIOUS
  <2>4. c = << no, me >> /\ IsSeq(s) /\ Len(s) = 1
    <3>1. c = << no, me >>
      BY <2>2, <2>3, CatchesOne
    <3>2. IsSeq(s) /\ Len(s) = 1
      BY <1>4, <2>2, <2>3, OneSaved
    <3>. QED
      BY <3>1, <3>2
  <2>5. PICK nd, h : nd = task.readHeader /\ h = CallFrame("Eval", "ReadOnly", nd)
    OBVIOUS
  <2>6. IsFrame(h) /\ Evaluates(h, Headers) /\ h.CallState = "Enter"
    <3>1. nd.type \in Headers
      BY <1>1, <1>2, <1>3, <2>5 DEF OuterOn
    <3>. QED
      BY <2>5, <3>1 DEF CallFrame, IsFrame, Evaluates
  <2>7. PICK q : q = PushPeekPos([m EXCEPT !.CatchStack = c])
    OBVIOUS
  <2>8. /\ IsVm(q) /\ q.FrameStack = m.FrameStack /\ Tries(m, q) /\ q.CatchStack = c
        /\ q.SavedPosStack = s /\ q.LoopCounterStack = m.LoopCounterStack
    BY <1>4, <2>3, <2>7 DEF PushPeekPos, IsVm, Tries
  <2>9. PICK g, bs, gs : /\ g = [f EXCEPT !.CallState = "Exit", !.ReturnValue = 0]
                         /\ bs = SetTop(m.FrameStack, g) /\ gs = Append(bs, h)
    OBVIOUS
  <2>10. IsFrame(g) /\ g.CallMethod = f.CallMethod /\ g.CallState = "Exit"
    BY <1>4, <2>9 DEF IsFrame
  <2>11. PICK r : r = With(q, gs)
    OBVIOUS
  <2>12. Tries(m, r) /\ r.FrameStack = gs /\ r.CatchStack = c
         /\ r.SavedPosStack = s /\ r.LoopCounterStack = m.LoopCounterStack
    BY <2>8, <2>11 DEF With, IsVm, Tries
  <2>13. vm' = r
    <3>1. vm' = Call(q, "Exit", "Eval", "ReadOnly", nd)
      BY <1>1, <1>7, <1>8, <2>3, <2>5, <2>7, Zenon DEF HasFileHeader, At, Becomes
    <3>2. f = Last(q.FrameStack)
      BY <1>1, <2>8
    <3>3. Call(q, "Exit", "Eval", "ReadOnly", nd) = r
      BY <2>5, <2>8, <2>9, <2>11, <3>2 DEF Call, With
    <3>. QED
      BY <3>1, <3>3
  <2>14. TriesNow(g)
    BY <1>2, <2>10 DEF TriesNow
  <2>15. OuterTracks(r, gs, g, t)
    <3>1. Ct("counting", g, t) = 0 /\ Ct("peeking", g, t) = 1
      BY <1>2, <1>4, <2>10, OuterHas
    <3>2. CatchesBy(g) = c
      BY <1>2, <1>7, <2>4, <2>10, <2>14 DEF CatchesBy
    <3>3. Tracks(r, gs, 1, 1, c)
      BY <1>4, <1>6, <2>4, <2>12 DEF Tracks
    <3>4. g.CallMethod # "GetAlgorithm"
      BY <1>2, <2>10
    <3>. QED
      BY <3>1, <3>2, <3>3, <3>4 DEF OuterTracks
  <2>16. Good(r, t)
    BY <1>3, <2>6, <2>9, <2>10, <2>12, <2>14, <2>15, OuterTries
  <2>. QED
    BY <1>1, <2>13, <2>16 DEF Ok
<1>9. CASE At("Exit")
  <2>1. f.CallState = "Exit"
    BY <1>2, <1>9 DEF At
  <2>2. Len(m.SavedPosStack) = 1 /\ m.CatchStack = << no, me >>
    BY <1>2, <1>4, <1>5, <1>7, <2>1 DEF CatchesBy, TriesNow, Selecting
  <2>3. PICK c, s, p : c = Front(m.CatchStack) /\ s = Front(m.SavedPosStack) /\ p = Last(m.SavedPosStack)
    OBVIOUS
  <2>4. c = << no >> /\ ~IsEmpty(m.CatchStack) /\ IsSeq(s) /\ Len(s) = 0
    <3>1. c = << no >>
      BY <2>2, <2>3, CatchesOne
    <3>2. IsSeq(s) /\ Len(s) = 0
      BY <1>4, <2>2, <2>3, OneSaved
    <3>3. ~IsEmpty(m.CatchStack)
      BY <2>2 DEF IsEmpty
    <3>. QED
      BY <3>1, <3>2, <3>3
  <2>5. PICK q : q = PopPeekPos([m EXCEPT !.CatchStack = c])
    OBVIOUS
  <2>6. /\ IsVm(q) /\ q.FrameStack = m.FrameStack /\ Tries(m, q) /\ q.CatchStack = c
        /\ q.SavedPosStack = s /\ q.LoopCounterStack = m.LoopCounterStack
    BY <1>4, <2>3, <2>5 DEF PopPeekPos, IsVm, Tries
  <2>7. vm' = Return(q, 0)
    BY <1>1, <1>9, <2>3, <2>4, <2>5, Zenon DEF HasFileHeader, At, Becomes
  <2>8. Tracks(q, m.FrameStack, 1, 0, << "NO_SUCH_METHOD" >>)
    BY <1>4, <1>6, <1>7, <2>4, <2>6 DEF Tracks
  <2>9. Good(Return(q, 0), t)
    BY <1>3, <2>6, <2>8, OuterReturns
  <2>. QED
    BY <1>1, <2>7, <2>9 DEF Ok
<1>10. CASE At("Catch")
  <2>1. f.CallState = "Catch"
    BY <1>2, <1>10 DEF At
  <2>2. m.CatchStack = << "NO_SUCH_METHOD" >>
    BY <1>2, <1>4, <2>1 DEF CatchesBy, TriesNow, Selecting
  <2>3. IsEmpty(m.CatchStack)
    BY <2>2 DEF IsEmpty
  <2>4. vm' = Throw(m)
    BY <1>1, <1>10, <2>3, Zenon DEF HasFileHeader, At, Becomes
  <2>5. Shape(m.FrameStack)
    BY <1>3 DEF OuterOn, Good
  <2>6. Failed(Throw(m))
    BY <1>4, <2>2, <2>5, NoCatcher
  <2>. QED
    BY <2>4, <2>6 DEF Ok
<1>. QED
  BY <1>8, <1>9, <1>10 DEF HasFileHeader

\* What the interpreter does when the first method has returned.
LEMMA FinishOk == ASSUME Good(vm, task), Finish PROVE Ok(vm', task)
<1>1. PICK fs, f, t, m : fs = vm.FrameStack /\ f = Last(vm.FrameStack) /\ t = task /\ m = vm
  OBVIOUS
<1>2. f.CallMethod = "Started"
  BY <1>1 DEF Finish, Running, Frame
<1>3. Good(m, t) /\ IsVm(m) /\ Shape(fs) /\ Catches(m, fs)
  BY <1>1 DEF Good
<1>4. Len(fs) \in Nat /\ Len(fs) >= 1 /\ f = fs[Len(fs)] /\ IsSeq(fs) /\ IsFrame(f)
  BY <1>1, <1>3, TopFrame
<1>5. Len(fs) = 1
  <2>1. f.CallMethod \notin Inner \cup Outer
    BY <1>2 DEF Inner, Outer
  <2>2. ~(Len(fs) >= 2)
    <3>1. SUFFICES ASSUME Len(fs) >= 2 PROVE FALSE
      OBVIOUS
    <3>2. Len(fs) = 2 \/ Len(fs) \in 3 .. Len(fs)
      BY <1>4, <3>1
    <3>. QED
      BY <1>3, <1>4, <2>1, <3>1, <3>2 DEF Shape
  <2>3. PICK n \in Int : n = Len(fs)
    BY <1>4
  <2>4. n = 1
    BY <1>4, <2>2, <2>3
  <2>. QED
    BY <2>3, <2>4
<1>6. Trying(fs) /\ ~InMode(fs) /\ ~HasCaught(fs)
  <2>1. Len(fs) \in 1 .. 3
    BY <1>5
  <2>. QED
    BY <1>3, <1>5, <2>1 DEF Trying, InMode, HasCaught
<1>7. m.CatchStack = << "NO_SUCH_METHOD" >>
  BY <1>3, <1>6 DEF Catches
<1>8. /\ Len(m.LoopCounterStack) = 1 /\ Len(m.SavedPosStack) = 0
      /\ IsSeq(m.LoopCounterStack) /\ IsSeq(m.SavedPosStack)
  <2>1. /\ Len(m.LoopCounterStack) = 1 + Tried("counting", fs, t)
        /\ Len(m.SavedPosStack) = Tried("peeking", fs, t) /\ Idle(m)
    BY <1>1, <1>3, <1>6, GoodTrying
  <2>2. Tried("counting", fs, t) = 0 /\ Tried("peeking", fs, t) = 0
    BY <1>5 DEF Tried
  <2>3. IsSeq(m.LoopCounterStack) /\ IsSeq(m.SavedPosStack)
    BY <2>1 DEF Idle, Stacks
  <2>. QED
    BY <2>1, <2>2, <2>3
<1>9. PICK e, es, q : /\ e = [f EXCEPT !.CallMethod = "Finished"] /\ es = SetTop(fs, e)
                      /\ q = [m EXCEPT !.FrameStack = es]
  OBVIOUS
<1>10. IsFrame(e) /\ e.CallMethod = "Finished"
  BY <1>4, <1>9 DEF IsFrame
<1>11. IsSeq(es) /\ Len(es) = 1 /\ Last(es) = e
  <2>1. IsSeq(es) /\ Len(es) = Len(fs) /\ es[Len(fs)] = e
    BY <1>4, <1>9, SeqSetTop
  <2>. QED
    BY <1>5, <2>1 DEF Last
<1>12. PICK g, gs, r : g = In(e, "Succeeded") /\ gs = SetTop(es, g) /\ r = With(q, gs)
  OBVIOUS
<1>13. IsFrame(g) /\ g.CallMethod = "Finished"
  BY <1>10, <1>12, InFields
<1>14. IsSeq(gs) /\ Len(gs) = 1 /\ gs[1] = g
  <2>1. Len(es) >= 1
    BY <1>11
  <2>2. IsSeq(gs) /\ Len(gs) = Len(es) /\ gs[Len(es)] = g
    BY <1>11, <1>12, <2>1, SeqSetTop
  <2>. QED
    BY <1>11, <2>2
<1>15. IsVm(q) /\ q.FrameStack = es
  BY <1>3, <1>9 DEF IsVm
<1>16. Goto(q, "Succeeded") = r
  BY <1>11, <1>12, <1>15 DEF Goto, With, In
<1>17. vm' = IF CheckForEof /\ vm.ReadPos.at < filled THEN Throw(r) ELSE r
  <2>1. q = [vm EXCEPT !.FrameStack = SetTop(@, [Last(@) EXCEPT !.CallMethod = "Finished"])]
    BY <1>1, <1>9
  <2>. QED
    BY <1>16, <2>1, Zenon DEF Finish, Becomes
<1>18. Shape(gs) /\ Trying(gs)
  <2>1. \A i \in 1 .. Len(gs) : i = 1
    BY <1>14
  <2>2. \A i \in 1 .. Len(gs) : IsFrame(gs[i])
    BY <1>13, <1>14, <2>1
  <2>3. \A i \in 3 .. Len(gs) : FALSE
    BY <1>14
  <2>4. Shape(gs)
    BY <1>13, <1>14, <2>2, <2>3 DEF Shape
  <2>. QED
    BY <1>14, <2>4 DEF Trying
<1>19. /\ r.FrameStack = gs /\ r.CatchStack = m.CatchStack /\ IsVm(r) /\ Tries(m, r)
       /\ r.LoopCounterStack = m.LoopCounterStack /\ r.SavedPosStack = m.SavedPosStack
  BY <1>3, <1>9, <1>12 DEF With, IsVm, Tries
<1>20. Failed(Throw(r))
  BY <1>7, <1>18, <1>19, NoCatcher
<1>21. Good(r, t)
  <2>1. PICK one, none, catch : one = 1 /\ none = 0 /\ catch = << "NO_SUCH_METHOD" >>
    OBVIOUS
  <2>2. Tracks(r, gs, one, none, catch)
    BY <1>7, <1>8, <1>19, <2>1 DEF Tracks
  <2>3. one = 1 + Tried("counting", gs, t) /\ none = Tried("peeking", gs, t)
    BY <1>14, <2>1 DEF Tried
  <2>4. ~InMode(gs) /\ ~HasCaught(gs)
    BY <1>14 DEF InMode, HasCaught
  <2>5. Catches(r, gs)
    BY <2>1, <2>2, <2>4 DEF Catches, Tracks
  <2>6. Begun(gs, t) /\ Counts(r, gs)
    BY <1>14, <2>4 DEF Begun, Counts
  <2>7. Trying(m.FrameStack)
    BY <1>1, <1>6
  <2>. QED
    BY <1>3, <1>18, <1>19, <2>2, <2>3, <2>5, <2>6, <2>7, TryStep
<1>. QED
  BY <1>1, <1>17, <1>20, <1>21 DEF Ok

\* A task that starts with HasFileHeader has a header to read.
TaskOk(t) == t.start = "HasFileHeader" => t.readHeader.type \in Headers

LEMMA StepOk == ASSUME Good(vm, task), TaskOk(task), Step PROVE Ok(vm', task)
<1>1. CASE Passing
  BY <1>1, PassingOk
<1>2. CASE Copying
  BY <1>2, CopyingOk
<1>3. CASE Counted
  BY <1>3, CountedOk
<1>4. CASE PeekMethod \/ EvalInCallingContext \/ EvalBitwise \/ EvalBitwiseNegate \/ EvalSet
           \/ EvalDefine \/ EvalParam \/ EvalTable \/ EvalVirtual
  BY <1>4, PeekOk, ContextOk, BitwiseOk, NegateOk, DefineOk, ParamOk, TableOk, VirtualOk
<1>5. CASE EvalHeader \/ HasFileHeader \/ Finish
  BY <1>5, HeaderOk, HasHeaderOk, FinishOk DEF TaskOk
<1>. QED
  BY <1>1, <1>2, <1>3, <1>4, <1>5 DEF Step, Passing, Copying, Counted
=============================================================================
