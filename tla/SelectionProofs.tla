--------------------------- MODULE SelectionProofs ---------------------------
(***************************************************************************)
(* Proofs about Selection: the steps of GetAlgorithm preserve the          *)
(* invariant of InterpreterProofs too, so that the stacks of the           *)
(* interpreter match its frames in every state of SelectionSpec.  These    *)
(* steps also change the task and the Writer, in ways that keep what the   *)
(* invariant says of them.                                                 *)
(***************************************************************************)
EXTENDS Selection, InterpreterProofs

---------------------------------------------------------------------------
\* Writers, and the machines that write with them.
IsWriter(w) ==
  w = [Writer |-> w.Writer, Output |-> w.Output, Cached |-> w.Cached, Scratch |-> << >>]

LEMMA NewWriterIs == \A kind : IsWriter(NewWriter(kind))
BY DEF NewWriter, IsWriter

LEMMA WriterOfIs ==
  ASSUME NEW m, IsVm(m), m.Scratch = << >> PROVE IsWriter(WriterOf(m))
<1>1. DOMAIN NoWriter = {"Writer", "Output", "Cached", "Scratch"}
  BY DEF NoWriter, NewWriter
<1>2. WriterOf(m) = [x \in {"Writer", "Output", "Cached", "Scratch"} |-> m[x]]
  BY <1>1 DEF WriterOf
<1>. QED
  BY <1>2 DEF IsWriter

LEMMA SetWriterKeeps ==
  ASSUME NEW m, IsVm(m), m.Scratch = << >>, NEW w, IsWriter(w)
  PROVE  Keeps(m, setWriter(m, w))
<1>1. PICK a, b, c : a = w.Writer /\ b = w.Output /\ c = w.Cached
  OBVIOUS
<1>2. w.Scratch = << >>
  BY DEF IsWriter
<1>3. PICK r : r = [m EXCEPT !.Writer = a, !.Output = b, !.Cached = c, !.Scratch = << >>]
  OBVIOUS
<1>4. setWriter(m, w) = r
  BY <1>1, <1>2, <1>3 DEF setWriter
<1>5. Keeps(m, r)
  BY <1>3 DEF IsVm, Keeps, Rest
<1>. QED
  BY <1>4, <1>5

LEMMA SetInputKeeps ==
  ASSUME NEW m, IsVm(m), m.SavedPosStack = << >>, m.RestoreStack = << >>
  PROVE  Keeps(m, setInput(m))
<1>1. PICK p, s, n : p = [at |-> 0, eobs |-> << >>] /\ s = << >> /\ n = 0
  OBVIOUS
<1>2. PICK r : r = [m EXCEPT !.ReadPos = p, !.SavedPosStack = s, !.Table = s, !.RestoreStack = s,
                             !.HeaderIndex = n]
  OBVIOUS
<1>3. setInput(m) = r
  BY <1>1, <1>2 DEF setInput
<1>4. Keeps(m, r)
  BY <1>1, <1>2 DEF IsVm, Keeps, Rest
<1>. QED
  BY <1>3, <1>4

---------------------------------------------------------------------------
\* GetAlgorithm: q has what the method needs in a state.
Prepared(m, q, f, state, t) ==
  /\ Tries(m, q)
  /\ OuterTracks(q, m.FrameStack, In(f, state), t)

LEMMA Prepares ==
  ASSUME NEW t, NEW m, NEW f, OuterOn(m, t, f), NEW state, NEW q, Prepared(m, q, f, state, t)
  PROVE  Good(Goto(q, state), t)
<1>1. PICK g, gs, r : g = In(f, state) /\ gs = SetTop(m.FrameStack, g) /\ r = With(q, gs)
  OBVIOUS
<1>2. IsFrame(f)
  BY OuterFacts
<1>3. IsFrame(g) /\ g.CallMethod = f.CallMethod
  BY <1>1, <1>2, InFields
<1>4. f = Last(m.FrameStack)
  BY DEF OuterOn
<1>5. IsVm(q) /\ q.FrameStack = m.FrameStack /\ Tries(m, q)
  BY DEF Prepared, OuterTracks, Tracks, Tries
<1>6. Goto(q, state) = r
  BY <1>1, <1>4, <1>5 DEF Goto, With, In
<1>7. Tries(m, r) /\ r.FrameStack = gs /\ r.LoopCounterStack = q.LoopCounterStack
      /\ r.SavedPosStack = q.SavedPosStack /\ r.CatchStack = q.CatchStack
  BY <1>1, <1>5 DEF With, IsVm, Tries
<1>8. OuterTracks(r, gs, g, t)
  BY <1>1, <1>7 DEF Prepared, OuterTracks, Tracks
<1>9. Good(r, t)
  BY <1>1, <1>3, <1>7, <1>8, OuterGoes
<1>. QED
  BY <1>6, <1>9

\* A failure when the method does not try anything.
LEMMA OuterThrows ==
  ASSUME NEW t, NEW m, NEW f, OuterOn(m, t, f), NEW q, IsVm(q), q.FrameStack = m.FrameStack,
         q.CatchStack = << "NO_SUCH_METHOD" >>
  PROVE  Failed(Throw(q))
<1>1. Shape(q.FrameStack)
  BY DEF OuterOn, Good
<1>. QED
  BY <1>1, NoCatcher

AlgOn(m, t, f) == OuterOn(m, t, f) /\ f.CallMethod = "GetAlgorithm"

\* How high the stacks are, in the states of GetAlgorithm.
Loops(state) == IF state \in {"Enter", "Exit"} THEN 1 ELSE 2
Saved(state) == IF state \in {"Loop", "Step2", "Catch"} THEN 1 ELSE 0
Caught(state) ==
  IF state \in {"Loop", "Step2"} THEN << "NO_SUCH_METHOD", "GetAlgorithm" >>
  ELSE << "NO_SUCH_METHOD" >>

AlgTracks(q, fs, loops, saved, catch) ==
  /\ Tracks(q, fs, loops, saved, catch)
  /\ loops = 2 /\ saved = 1 => q.LoopCounterStack[2] \in Nat

LEMMA AlgFrame ==
  ASSUME NEW g, g.CallMethod = "GetAlgorithm", NEW t
  PROVE  /\ 1 + Ct("counting", g, t) = Loops(g.CallState)
         /\ Ct("peeking", g, t) = Saved(g.CallState)
         /\ CatchesBy(g) = Caught(g.CallState)
<1>1. /\ Ct("counting", g, t) = IF g.CallState \notin {"Enter", "Exit"} THEN 1 ELSE 0
      /\ Ct("peeking", g, t) = IF g.CallState \in {"Loop", "Step2", "Catch"} THEN 1 ELSE 0
  BY OuterHas DEF Outer
<1>2. CatchesBy(g) = Caught(g.CallState)
  BY DEF CatchesBy, TriesNow, Selecting, Caught
<1>. QED
  BY <1>1, <1>2 DEF Loops, Saved

LEMMA AlgFacts ==
  ASSUME NEW t, NEW m, NEW f, AlgOn(m, t, f)
  PROVE  /\ IsVm(m) /\ Idle(m) /\ Tries(m, m)
         /\ AlgTracks(m, m.FrameStack, Loops(f.CallState), Saved(f.CallState), Caught(f.CallState))
<1>1. /\ IsVm(m) /\ ~m.IsFatalFailure
      /\ IsSeq(m.LoopCounterStack) /\ IsSeq(m.SavedPosStack) /\ Idle(m)
      /\ Len(m.LoopCounterStack) = 1 + Ct("counting", f, t)
      /\ Len(m.SavedPosStack) = Ct("peeking", f, t)
      /\ m.CatchStack = CatchesBy(f)
      /\ f.CallMethod = "GetAlgorithm" /\ f.CallState \in {"Loop", "Step2", "Catch"}
           => m.LoopCounterStack[2] \in Nat
  BY OuterFacts DEF AlgOn
<1>2. /\ 1 + Ct("counting", f, t) = Loops(f.CallState)
      /\ Ct("peeking", f, t) = Saved(f.CallState)
      /\ CatchesBy(f) = Caught(f.CallState)
  BY AlgFrame DEF AlgOn
<1>3. Tracks(m, m.FrameStack, Loops(f.CallState), Saved(f.CallState), Caught(f.CallState))
  BY <1>1, <1>2 DEF Tracks
<1>4. Saved(f.CallState) = 1 => m.LoopCounterStack[2] \in Nat
  BY <1>1 DEF Saved, AlgOn
<1>. QED
  BY <1>1, <1>3, <1>4 DEF AlgTracks, Tries

\* GetAlgorithm goes on in a state.
LEMMA AlgGoes ==
  ASSUME NEW t, NEW m, NEW f, AlgOn(m, t, f), NEW q, Tries(m, q), NEW state,
         AlgTracks(q, m.FrameStack, Loops(state), Saved(state), Caught(state))
  PROVE  Good(Goto(q, state), t)
<1>1. IsFrame(f)
  BY OuterFacts DEF AlgOn
<1>2. PICK g : g = In(f, state)
  OBVIOUS
<1>3. g.CallMethod = "GetAlgorithm" /\ g.CallState = state
  BY <1>1, <1>2, InFields DEF AlgOn
<1>4. /\ 1 + Ct("counting", g, t) = Loops(state)
      /\ Ct("peeking", g, t) = Saved(state)
      /\ CatchesBy(g) = Caught(state)
  BY <1>3, AlgFrame
<1>5. g.CallState \in {"Loop", "Step2", "Catch"} => q.LoopCounterStack[2] \in Nat
  BY <1>3 DEF AlgTracks, Loops, Saved
<1>6. OuterTracks(q, m.FrameStack, g, t)
  BY <1>4, <1>5 DEF OuterTracks, AlgTracks
<1>7. Prepared(m, q, f, state, t)
  BY <1>2, <1>6 DEF Prepared
<1>. QED
  BY <1>7, Prepares DEF AlgOn

\* To the next selector.
LEMMA PushSelectingGood ==
  ASSUME NEW t, NEW m, NEW f, AlgOn(m, t, f), NEW q, Tries(m, q),
         Tracks(q, m.FrameStack, 2, 0, << "NO_SUCH_METHOD" >>), q.LoopCounterStack[2] \in Nat
  PROVE  Good(PushSelecting(q), t)
<1>1. PICK no, me : no = "NO_SUCH_METHOD" /\ me = "GetAlgorithm"
  OBVIOUS
<1>2. /\ IsVm(q) /\ q.FrameStack = m.FrameStack /\ q.CatchStack = << no >>
      /\ IsSeq(q.LoopCounterStack) /\ Len(q.LoopCounterStack) = 2
      /\ IsSeq(q.SavedPosStack) /\ Len(q.SavedPosStack) = 0
  BY <1>1 DEF Tries, Tracks
<1>3. PICK c, s : c = Append(q.CatchStack, me) /\ s = Append(q.SavedPosStack, q.ReadPos)
  OBVIOUS
<1>4. c = << no, me >>
  BY <1>2, <1>3, CatchesOne
<1>5. IsSeq(s) /\ Len(s) = 1
  BY <1>2, <1>3, OneSaved
<1>6. PICK r : r = [q EXCEPT !.CatchStack = c, !.SavedPosStack = s]
  OBVIOUS
<1>7. PushPeekPos([q EXCEPT !.CatchStack = c]) = r
  BY <1>2, <1>3, <1>6 DEF PushPeekPos, IsVm
<1>8. /\ Tries(m, r) /\ r.FrameStack = m.FrameStack /\ r.CatchStack = c
      /\ r.LoopCounterStack = q.LoopCounterStack /\ r.SavedPosStack = s
  BY <1>2, <1>6 DEF Tries, IsVm
<1>9. PICK loops, saved, catch : loops = Loops("Loop") /\ saved = Saved("Loop") /\ catch = Caught("Loop")
  OBVIOUS
<1>10. loops = 2 /\ saved = 1 /\ catch = << no, me >>
  BY <1>1, <1>9 DEF Loops, Saved, Caught
<1>11. AlgTracks(r, m.FrameStack, loops, saved, catch)
  BY <1>2, <1>4, <1>5, <1>8, <1>10 DEF AlgTracks, Tracks
<1>12. Good(Goto(r, "Loop"), t)
  BY <1>8, <1>9, <1>11, AlgGoes
<1>13. PushSelecting(q) = Goto(r, "Loop")
  BY <1>1, <1>3, <1>7, Zenon DEF PushSelecting
<1>. QED
  BY <1>12, <1>13

\* The selector that is tried is left.
LEMMA PopSelectingIs ==
  ASSUME NEW t, NEW m, NEW f, AlgOn(m, t, f), f.CallState \in {"Loop", "Step2"}
  PROVE  /\ Tries(m, PopSelecting(m))
         /\ Tracks(PopSelecting(m), m.FrameStack, 2, 0, << "NO_SUCH_METHOD" >>)
         /\ PopSelecting(m).LoopCounterStack = m.LoopCounterStack
<1>1. PICK no, me : no = "NO_SUCH_METHOD" /\ me = "GetAlgorithm"
  OBVIOUS
<1>2. /\ IsVm(m)
      /\ AlgTracks(m, m.FrameStack, Loops(f.CallState), Saved(f.CallState), Caught(f.CallState))
  BY AlgFacts
<1>3. Loops(f.CallState) = 2 /\ Saved(f.CallState) = 1 /\ Caught(f.CallState) = << no, me >>
  BY <1>1 DEF Loops, Saved, Caught
<1>4. /\ m.CatchStack = << no, me >>
      /\ IsSeq(m.LoopCounterStack) /\ Len(m.LoopCounterStack) = 2
      /\ IsSeq(m.SavedPosStack) /\ Len(m.SavedPosStack) = 1
  BY <1>2, <1>3 DEF AlgTracks, Tracks
<1>5. PICK c, s, p : c = Front(m.CatchStack) /\ s = Front(m.SavedPosStack) /\ p = Last(m.SavedPosStack)
  OBVIOUS
<1>6. c = << no >>
  BY <1>4, <1>5, CatchesOne
<1>7. IsSeq(s) /\ Len(s) = 0
  BY <1>4, <1>5, OneSaved
<1>8. PICK r : r = [m EXCEPT !.CatchStack = c, !.ReadPos = p, !.SavedPosStack = s]
  OBVIOUS
<1>9. PopSelecting(m) = r
  BY <1>2, <1>5, <1>8 DEF PopSelecting, PopPeekPos, IsVm
<1>10. /\ Tries(m, r) /\ r.FrameStack = m.FrameStack /\ r.CatchStack = c
       /\ r.LoopCounterStack = m.LoopCounterStack /\ r.SavedPosStack = s
  BY <1>2, <1>8 DEF Tries, IsVm
<1>11. Tracks(r, m.FrameStack, 2, 0, << "NO_SUCH_METHOD" >>)
  BY <1>1, <1>4, <1>6, <1>7, <1>10 DEF Tracks
<1>. QED
  BY <1>9, <1>10, <1>11

---------------------------------------------------------------------------
\* The steps of GetAlgorithm, of a machine m that runs a task t.
LEMMA WithLoops ==
  ASSUME NEW m, NEW q, Tries(m, q), NEW fs, NEW n, NEW saved, NEW catch,
         Tracks(q, fs, n, saved, catch),
         NEW s, IsSeq(s), NEW r, r = [q EXCEPT !.LoopCounterStack = s]
  PROVE  Tries(m, r) /\ Tracks(r, fs, Len(s), saved, catch) /\ r.LoopCounterStack = s
<1>1. /\ IsVm(r) /\ r.FrameStack = q.FrameStack /\ r.CatchStack = q.CatchStack
      /\ r.SavedPosStack = q.SavedPosStack /\ r.LoopCounterStack = s /\ Tries(m, r)
  BY DEF IsVm, Tries
<1>. QED
  BY <1>1 DEF Tracks

LEMMA AlgEnters ==
  ASSUME NEW t, NEW m, NEW f, AlgOn(m, t, f), f.CallState = "Enter"
  PROVE  Good(PushSelecting(PushLoop(m, 0)), t)
<1>1. PICK zero, s, r : /\ zero = 0 /\ s = Append(m.LoopCounterStack, zero)
                        /\ r = [m EXCEPT !.LoopCounterStack = s]
  OBVIOUS
<1>2. /\ IsVm(m) /\ Tries(m, m)
      /\ AlgTracks(m, m.FrameStack, Loops(f.CallState), Saved(f.CallState), Caught(f.CallState))
  BY AlgFacts
<1>3. Tracks(m, m.FrameStack, 1, 0, << "NO_SUCH_METHOD" >>)
  BY <1>2 DEF AlgTracks, Loops, Saved, Caught
<1>4. IsSeq(m.LoopCounterStack) /\ Len(m.LoopCounterStack) = 1
  BY <1>3 DEF Tracks
<1>5. IsSeq(s) /\ Len(s) = 2 /\ s[2] = zero
  <2>1. /\ IsSeq(s) /\ Len(s) = Len(m.LoopCounterStack) + 1
        /\ s[Len(m.LoopCounterStack) + 1] = zero
    BY <1>1, <1>4, SeqAppend
  <2>. QED
    BY <1>4, <2>1
<1>6. Tries(m, r) /\ Tracks(r, m.FrameStack, Len(s), 0, << "NO_SUCH_METHOD" >>) /\ r.LoopCounterStack = s
  <2>1. PICK fs, none, catch : fs = m.FrameStack /\ none = 0 /\ catch = << "NO_SUCH_METHOD" >>
    OBVIOUS
  <2>2. PICK n : n = 1
    OBVIOUS
  <2>3. PICK q : q = m
    OBVIOUS
  <2>4. Tracks(q, fs, n, none, catch) /\ Tries(m, q) /\ r = [q EXCEPT !.LoopCounterStack = s]
    BY <1>1, <1>2, <1>3, <2>1, <2>2, <2>3
  <2>5. Tries(m, r) /\ Tracks(r, fs, Len(s), none, catch) /\ r.LoopCounterStack = s
    <3>1. IsSeq(s)
      BY <1>5
    <3>. QED
      BY <2>4, <3>1, WithLoops
  <2>. QED
    BY <2>1, <2>5
<1>7. r.LoopCounterStack[2] \in Nat
  BY <1>1, <1>5, <1>6
<1>8. Good(PushSelecting(r), t)
  BY <1>5, <1>6, <1>7, PushSelectingGood
<1>9. PushLoop(m, 0) = r
  BY <1>1, <1>2 DEF PushLoop, IsVm
<1>. QED
  BY <1>8, <1>9

\* No selector is left.
LEMMA AlgGivesUp ==
  ASSUME NEW t, NEW m, NEW f, AlgOn(m, t, f), f.CallState = "Loop"
  PROVE  Failed(Throw(PopLoop(PopSelecting(m))))
<1>1. PICK q, s, r : /\ q = PopSelecting(m) /\ s = Front(q.LoopCounterStack)
                     /\ r = [q EXCEPT !.LoopCounterStack = s]
  OBVIOUS
<1>2. Tries(m, q) /\ Tracks(q, m.FrameStack, 2, 0, << "NO_SUCH_METHOD" >>)
  BY <1>1, PopSelectingIs
<1>3. IsVm(r) /\ r.FrameStack = q.FrameStack /\ r.CatchStack = q.CatchStack
  BY <1>1, <1>2 DEF Tries, IsVm
<1>4. r.FrameStack = m.FrameStack /\ r.CatchStack = << "NO_SUCH_METHOD" >>
  BY <1>2, <1>3 DEF Tracks
<1>5. Failed(Throw(r))
  BY <1>3, <1>4, OuterThrows DEF AlgOn
<1>6. PopLoop(PopSelecting(m)) = r
  BY <1>1, <1>2 DEF PopLoop, Tries, IsVm
<1>. QED
  BY <1>5, <1>6

\* The header of a selector is tried.
LEMMA AlgTries ==
  ASSUME NEW t, NEW m, NEW f, AlgOn(m, t, f), f.CallState = "Loop",
         NEW nd, nd.type \in Headers
  PROVE  Good(Call(m, "Step2", "Eval", "ReadOnly", nd), t)
<1>1. PICK h : h = CallFrame("Eval", "ReadOnly", nd)
  OBVIOUS
<1>2. IsFrame(h) /\ Evaluates(h, Headers) /\ h.CallState = "Enter"
  BY <1>1 DEF CallFrame, IsFrame, Evaluates
<1>3. PICK g, bs, gs, r : /\ g = [f EXCEPT !.CallState = "Step2", !.ReturnValue = 0]
                          /\ bs = SetTop(m.FrameStack, g) /\ gs = Append(bs, h)
                          /\ r = With(m, gs)
  OBVIOUS
<1>4. /\ IsFrame(f) /\ f = Last(m.FrameStack) /\ OuterOn(m, t, f) /\ f.CallMethod = "GetAlgorithm"
  BY OuterFacts DEF AlgOn, OuterOn
<1>5. IsFrame(g) /\ g.CallMethod = f.CallMethod /\ g.CallState = "Step2"
  BY <1>3, <1>4 DEF IsFrame
<1>6. /\ IsVm(m) /\ Tries(m, m)
      /\ AlgTracks(m, m.FrameStack, Loops(f.CallState), Saved(f.CallState), Caught(f.CallState))
  BY AlgFacts
<1>7. Call(m, "Step2", "Eval", "ReadOnly", nd) = r
  BY <1>1, <1>3, <1>4, <1>6 DEF Call, With
<1>8. /\ Tries(m, r) /\ r.FrameStack = gs /\ r.CatchStack = m.CatchStack
      /\ r.SavedPosStack = m.SavedPosStack /\ r.LoopCounterStack = m.LoopCounterStack
  BY <1>3, <1>6 DEF With, IsVm, Tries
<1>9. TriesNow(g)
  BY <1>4, <1>5 DEF TriesNow, Selecting
<1>10. /\ Loops(g.CallState) = Loops(f.CallState) /\ Saved(g.CallState) = Saved(f.CallState)
       /\ Caught(g.CallState) = Caught(f.CallState)
  BY <1>5 DEF Loops, Saved, Caught
<1>11. PICK loops, saved, catch : /\ loops = Loops(g.CallState) /\ saved = Saved(g.CallState)
                                  /\ catch = Caught(g.CallState)
  OBVIOUS
<1>12. loops = 2 /\ saved = 1
  BY <1>5, <1>11 DEF Loops, Saved
<1>13. AlgTracks(m, m.FrameStack, loops, saved, catch)
  BY <1>6, <1>10, <1>11
<1>14. Tracks(r, gs, loops, saved, catch) /\ r.LoopCounterStack[2] \in Nat
  BY <1>8, <1>12, <1>13 DEF AlgTracks, Tracks
<1>15. /\ 1 + Ct("counting", g, t) = loops /\ Ct("peeking", g, t) = saved
       /\ CatchesBy(g) = catch
  BY <1>4, <1>5, <1>11, AlgFrame
<1>16. OuterTracks(r, gs, g, t)
  BY <1>14, <1>15 DEF OuterTracks
<1>17. Good(r, t)
  BY <1>2, <1>3, <1>4, <1>5, <1>8, <1>9, <1>16, OuterTries
<1>. QED
  BY <1>7, <1>17

\* The header could be read.
LEMMA AlgApplies ==
  ASSUME NEW t, NEW m, NEW f, AlgOn(m, t, f), f.CallState = "Step2"
  PROVE  /\ Good(Goto(PopSelecting(m), "Step3"), t)
         /\ Goto(PopSelecting(m), "Step3").Scratch = << >>
<1>1. PICK q : q = PopSelecting(m)
  OBVIOUS
<1>2. Tries(m, q) /\ Tracks(q, m.FrameStack, 2, 0, << "NO_SUCH_METHOD" >>)
  BY <1>1, PopSelectingIs
<1>3. PICK state : state = "Step3"
  OBVIOUS
<1>4. Loops(state) = 2 /\ Saved(state) = 0 /\ Caught(state) = << "NO_SUCH_METHOD" >>
  BY <1>3 DEF Loops, Saved, Caught
<1>5. AlgTracks(q, m.FrameStack, Loops(state), Saved(state), Caught(state))
  BY <1>2, <1>4 DEF AlgTracks
<1>6. Good(Goto(q, state), t)
  BY <1>2, <1>5, AlgGoes
<1>7. Goto(q, state).Scratch = << >>
  <2>1. q.Scratch = << >> /\ IsVm(q)
    BY <1>2, AlgFacts DEF Tries, Idle
  <2>. QED
    BY <2>1 DEF Goto, IsVm
<1>. QED
  BY <1>1, <1>3, <1>6, <1>7

LEMMA AlgReads ==
  ASSUME NEW t, NEW m, NEW f, AlgOn(m, t, f), f.CallState = "Step3", NEW mod
  PROVE  Good(Call(m, "Step4", "GetFile", mod, NoNode), t)
<1>1. PICK state, h : state = "Step4" /\ h = CallFrame("GetFile", mod, NoNode)
  OBVIOUS
<1>2. PICK g, bs, gs : /\ g = [f EXCEPT !.CallState = state, !.ReturnValue = 0]
                       /\ bs = SetTop(m.FrameStack, g) /\ gs = Append(bs, h)
  OBVIOUS
<1>3. /\ IsFrame(f) /\ f = Last(m.FrameStack) /\ OuterOn(m, t, f) /\ f.CallMethod = "GetAlgorithm"
      /\ Shape(m.FrameStack) /\ Len(m.FrameStack) = 2
  BY OuterFacts DEF AlgOn, OuterOn, Good
<1>4. IsFrame(g) /\ g.CallMethod = f.CallMethod /\ g.CallState = state
  BY <1>2, <1>3 DEF IsFrame
<1>5. /\ IsVm(m) /\ Tries(m, m)
      /\ AlgTracks(m, m.FrameStack, Loops(f.CallState), Saved(f.CallState), Caught(f.CallState))
  BY AlgFacts
<1>6. PICK loops, saved, catch : loops = 2 /\ saved = 0 /\ catch = << "NO_SUCH_METHOD" >>
  OBVIOUS
<1>7. /\ loops = Loops(g.CallState) /\ saved = Saved(g.CallState) /\ catch = Caught(g.CallState)
      /\ loops = Loops(f.CallState) /\ saved = Saved(f.CallState) /\ catch = Caught(f.CallState)
  BY <1>1, <1>4, <1>6 DEF Loops, Saved, Caught
<1>8. Tracks(m, m.FrameStack, loops, saved, catch)
  BY <1>5, <1>7 DEF AlgTracks
<1>9. PICK q : q = With(m, bs)
  OBVIOUS
<1>10. /\ Tries(m, q) /\ q.FrameStack = bs /\ q.CatchStack = m.CatchStack
       /\ q.SavedPosStack = m.SavedPosStack /\ q.LoopCounterStack = m.LoopCounterStack
  BY <1>5, <1>9 DEF With, IsVm, Tries
<1>11. /\ 1 + Ct("counting", g, t) = loops /\ Ct("peeking", g, t) = saved /\ CatchesBy(g) = catch
  BY <1>3, <1>4, <1>7, AlgFrame
<1>12. Tracks(q, bs, loops, saved, catch)
  BY <1>8, <1>10 DEF Tracks
<1>13. OuterTracks(q, bs, g, t)
  BY <1>1, <1>4, <1>11, <1>12 DEF OuterTracks
<1>14. Good(q, t)
  BY <1>2, <1>3, <1>4, <1>10, <1>13, OuterGoes
<1>15. Len(bs) = 2 /\ bs[2] = g
  <2>1. IsSeq(m.FrameStack) /\ Len(m.FrameStack) >= 1
    BY <1>3 DEF Shape
  <2>2. Len(bs) = Len(m.FrameStack) /\ bs[Len(m.FrameStack)] = g
    BY <1>2, <2>1, SeqSetTop
  <2>. QED
    BY <1>3, <2>2
<1>16. Quiet(q.FrameStack)
  <2>1. Len(bs) >= 2
    BY <1>15
  <2>2. ~Selecting(g) /\ g.CallMethod # "HasFileHeader" /\ g.CallState # "Catch"
    BY <1>1, <1>3, <1>4 DEF Selecting
  <2>. QED
    BY <1>10, <1>15, <2>1, <2>2 DEF Quiet, InMode, HasCaught
<1>17. IsFrame(h) /\ h.CallMethod \in Inner /\ h.CallState = "Enter"
  BY <1>1 DEF CallFrame, IsFrame, Inner
<1>18. gs = Append(q.FrameStack, h)
  BY <1>2, <1>10
<1>19. Good(With(q, gs), t)
  BY <1>14, <1>16, <1>17, <1>18, PushGood
<1>20. Call(m, "Step4", "GetFile", mod, NoNode) = With(q, gs)
  <2>1. With(q, gs) = With(m, gs)
    BY <1>5, <1>9 DEF With, IsVm
  <2>2. Call(m, "Step4", "GetFile", mod, NoNode) = With(m, gs)
    BY <1>1, <1>2, <1>3, <1>5 DEF Call, With
  <2>. QED
    BY <2>1, <2>2
<1>. QED
  BY <1>19, <1>20

\* What there is once an algorithm has been applied.
LEMMA AlgStep4 ==
  ASSUME NEW t, NEW m, NEW f, AlgOn(m, t, f), f.CallState = "Step4"
  PROVE  /\ IsVm(m) /\ Idle(m) /\ Tries(m, m)
         /\ Tracks(m, m.FrameStack, 2, 0, << "NO_SUCH_METHOD" >>)
<1>1. /\ IsVm(m) /\ Idle(m) /\ Tries(m, m)
      /\ AlgTracks(m, m.FrameStack, Loops(f.CallState), Saved(f.CallState), Caught(f.CallState))
  BY AlgFacts
<1>. QED
  BY <1>1 DEF AlgTracks, Loops, Saved, Caught

LEMMA AlgSections ==
  ASSUME NEW t, NEW m, NEW f, AlgOn(m, t, f), f.CallState = "Step4"
  PROVE  /\ Good(NextSection(m), t) /\ Failed(Throw(m)) /\ Good(Goto(m, "Step3"), t)
<1>1. PICK fs, two, none, catch : /\ fs = m.FrameStack /\ two = 2 /\ none = 0
                                  /\ catch = << "NO_SUCH_METHOD" >>
  OBVIOUS
<1>2. IsVm(m) /\ Tries(m, m) /\ Tracks(m, fs, two, none, catch)
  BY <1>1, AlgStep4
<1>3. /\ IsSeq(m.LoopCounterStack) /\ Len(m.LoopCounterStack) = 2
      /\ m.CatchStack = << "NO_SUCH_METHOD" >>
  BY <1>1, <1>2 DEF Tracks
<1>4. PICK q : q = m /\ Tries(m, q) /\ Tracks(q, fs, two, none, catch)
  BY <1>2
<1>5. Failed(Throw(m))
  BY <1>2, <1>3, OuterThrows DEF AlgOn
<1>6. Good(Goto(m, "Step3"), t)
  <2>1. PICK state : state = "Step3"
    OBVIOUS
  <2>2. Loops(state) = two /\ Saved(state) = none /\ Caught(state) = catch
    BY <1>1, <2>1 DEF Loops, Saved, Caught
  <2>3. AlgTracks(m, fs, Loops(state), Saved(state), Caught(state))
    BY <1>1, <1>2, <2>2 DEF AlgTracks
  <2>4. Good(Goto(m, state), t)
    BY <1>1, <1>2, <2>3, AlgGoes
  <2>. QED
    BY <2>1, <2>4
<1>7. Good(Goto(PopLoop(m), "Exit"), t)
  <2>1. PICK s, r : s = Front(m.LoopCounterStack) /\ r = [m EXCEPT !.LoopCounterStack = s]
    OBVIOUS
  <2>2. PICK state : state = "Exit"
    OBVIOUS
  <2>3. IsSeq(s) /\ Len(s) = 1
    <3>1. Len(m.LoopCounterStack) >= 1 /\ Len(m.LoopCounterStack) - 1 = 1
      BY <1>3
    <3>. QED
      BY <1>3, <2>1, <3>1, SeqFront
  <2>4. Tries(m, r) /\ Tracks(r, fs, Len(s), none, catch) /\ r.LoopCounterStack = s
    <3>1. IsSeq(s) /\ r = [q EXCEPT !.LoopCounterStack = s]
      BY <1>4, <2>1, <2>3
    <3>. QED
      BY <1>4, <3>1, WithLoops
  <2>5. Loops(state) = 1 /\ Saved(state) = none /\ Caught(state) = catch
    BY <1>1, <2>2 DEF Loops, Saved, Caught
  <2>6. AlgTracks(r, fs, Loops(state), Saved(state), Caught(state))
    BY <1>1, <2>3, <2>4, <2>5 DEF AlgTracks
  <2>7. Good(Goto(r, state), t)
    BY <1>1, <2>4, <2>6, AlgGoes
  <2>8. PopLoop(m) = r
    BY <1>2, <2>1 DEF PopLoop
  <2>. QED
    BY <2>2, <2>7, <2>8
<1>8. Good(PushSelecting([m EXCEPT !.LoopCounterStack = SetTop(@, 0)]), t)
  <2>1. PICK s, r : s = SetTop(m.LoopCounterStack, none) /\ r = [m EXCEPT !.LoopCounterStack = s]
    OBVIOUS
  <2>2. IsSeq(s) /\ Len(s) = 2 /\ s[2] = 0
    <3>1. Len(m.LoopCounterStack) >= 1
      BY <1>3
    <3>2. IsSeq(s) /\ Len(s) = Len(m.LoopCounterStack) /\ s[Len(m.LoopCounterStack)] = none
      BY <1>3, <2>1, <3>1, SeqSetTop
    <3>. QED
      BY <1>1, <1>3, <3>2
  <2>3. Tries(m, r) /\ Tracks(r, fs, Len(s), none, catch) /\ r.LoopCounterStack = s
    BY <1>4, <2>1, <2>2, WithLoops
  <2>4. Tracks(r, m.FrameStack, 2, 0, << "NO_SUCH_METHOD" >>) /\ r.LoopCounterStack[2] \in Nat
    BY <1>1, <2>2, <2>3
  <2>5. Good(PushSelecting(r), t)
    BY <2>3, <2>4, PushSelectingGood
  <2>6. [m EXCEPT !.LoopCounterStack = SetTop(@, 0)] = r
    BY <1>1, <1>2, <2>1
  <2>. QED
    BY <2>5, <2>6
<1>. QED
  BY <1>5, <1>6, <1>7, <1>8 DEF NextSection

\* The header of a selector could not be read.
LEMMA AlgCatches ==
  ASSUME NEW t, NEW m, NEW f, AlgOn(m, t, f), f.CallState = "Catch"
  PROVE  Good(PushSelecting(CountLoop(PopPeekPos(m), 1)), t) /\ Failed(Throw(m))
<1>1. PICK fs, two, none, catch : /\ fs = m.FrameStack /\ two = 2 /\ none = 0
                                  /\ catch = << "NO_SUCH_METHOD" >>
  OBVIOUS
<1>2. /\ IsVm(m) /\ Tries(m, m)
      /\ AlgTracks(m, m.FrameStack, Loops(f.CallState), Saved(f.CallState), Caught(f.CallState))
  BY AlgFacts
<1>3. /\ IsSeq(m.LoopCounterStack) /\ Len(m.LoopCounterStack) = 2 /\ m.LoopCounterStack[2] \in Nat
      /\ IsSeq(m.SavedPosStack) /\ Len(m.SavedPosStack) = 1
      /\ m.CatchStack = << "NO_SUCH_METHOD" >>
  BY <1>2 DEF AlgTracks, Tracks, Loops, Saved, Caught
<1>4. Failed(Throw(m))
  BY <1>2, <1>3, OuterThrows DEF AlgOn
<1>5. PICK p, u, q : /\ p = Last(m.SavedPosStack) /\ u = Front(m.SavedPosStack)
                     /\ q = [m EXCEPT !.ReadPos = p, !.SavedPosStack = u]
  OBVIOUS
<1>6. IsSeq(u) /\ Len(u) = none
  BY <1>1, <1>3, <1>5, OneSaved
<1>7. /\ Tries(m, q) /\ q.FrameStack = fs /\ q.CatchStack = m.CatchStack
      /\ q.SavedPosStack = u /\ q.LoopCounterStack = m.LoopCounterStack /\ IsVm(q)
  BY <1>1, <1>2, <1>5 DEF IsVm, Tries
<1>8. Tracks(q, fs, two, none, catch)
  BY <1>1, <1>3, <1>6, <1>7 DEF Tracks
<1>9. PICK v, s, r : /\ v = m.LoopCounterStack[2] + 1 /\ s = SetTop(q.LoopCounterStack, v)
                     /\ r = [q EXCEPT !.LoopCounterStack = s]
  OBVIOUS
<1>10. IsSeq(s) /\ Len(s) = 2 /\ s[2] = v
  <2>1. Len(m.LoopCounterStack) >= 1
    BY <1>3
  <2>2. IsSeq(s) /\ Len(s) = Len(m.LoopCounterStack) /\ s[Len(m.LoopCounterStack)] = v
    BY <1>3, <1>7, <1>9, <2>1, SeqSetTop
  <2>. QED
    BY <1>3, <2>2
<1>11. v \in Nat
  BY <1>3, <1>9
<1>12. Tries(m, r) /\ Tracks(r, fs, Len(s), none, catch) /\ r.LoopCounterStack = s
  BY <1>7, <1>8, <1>9, <1>10, WithLoops
<1>13. Tracks(r, m.FrameStack, 2, 0, << "NO_SUCH_METHOD" >>) /\ r.LoopCounterStack[2] \in Nat
  BY <1>1, <1>10, <1>11, <1>12
<1>14. Good(PushSelecting(r), t)
  BY <1>12, <1>13, PushSelectingGood
<1>15. CountLoop(PopPeekPos(m), 1) = r
  <2>1. PopPeekPos(m) = q
    BY <1>5 DEF PopPeekPos
  <2>2. Last(q.LoopCounterStack) = m.LoopCounterStack[2]
    BY <1>3, <1>7 DEF Last
  <2>3. CountLoop(q, 1) = r
    BY <1>7, <1>9, <2>2 DEF CountLoop
  <2>. QED
    BY <2>1, <2>3
<1>. QED
  BY <1>4, <1>14, <1>15

LEMMA AlgReturns ==
  ASSUME NEW t, NEW m, NEW f, AlgOn(m, t, f), f.CallState = "Exit"
  PROVE  Good(Return(m, 0), t)
<1>1. /\ IsVm(m) /\ Tries(m, m)
      /\ AlgTracks(m, m.FrameStack, Loops(f.CallState), Saved(f.CallState), Caught(f.CallState))
  BY AlgFacts
<1>2. Tracks(m, m.FrameStack, 1, 0, << "NO_SUCH_METHOD" >>)
  BY <1>1 DEF AlgTracks, Loops, Saved, Caught
<1>. QED
  BY <1>1, <1>2, OuterReturns DEF AlgOn

---------------------------------------------------------------------------
(***************************************************************************)
(* The task and the selectors' state, which GetAlgorithm changes.          *)
(***************************************************************************)
IsTask(t) ==
  /\ t = [start |-> t.start, input |-> t.input, readHeader |-> t.readHeader,
          writeHeader |-> t.writeHeader, file |-> t.file, defs |-> t.defs,
          expand |-> t.expand, header |-> t.header, selectors |-> t.selectors,
          inflates |-> t.inflates]
  /\ Len(t.selectors) \in Nat
  /\ \A i \in 1 .. Len(t.selectors) : t.selectors[i].readHeader.type \in Headers
  /\ TaskOk(t)

IsSel(s) ==
  /\ s = [AlgQueue |-> s.AlgQueue, FinalSymtab |-> s.FinalSymtab, Inflator |-> s.Inflator,
          IntermediateStream |-> s.IntermediateStream, OrigWriter |-> s.OrigWriter,
          Input |-> s.Input]
  /\ IsWriter(s.OrigWriter)

LEMMA SetSymbolTableIs ==
  ASSUME NEW t, IsTask(t), t.start = "GetAlgorithm", NEW symtab, NEW u, u = setSymbolTable(t, symtab)
  PROVE  IsTask(u) /\ u.start = t.start /\ u.expand = t.expand
<1>1. PICK r, w, f, d : /\ r = symtab.readHeader /\ w = symtab.writeHeader
                        /\ f = symtab.file /\ d = symtab.defs
  OBVIOUS
<1>2. u = [t EXCEPT !.readHeader = r, !.writeHeader = w, !.file = f, !.defs = d]
  BY <1>1 DEF setSymbolTable
<1>3. /\ u = [start |-> u.start, input |-> u.input, readHeader |-> u.readHeader,
              writeHeader |-> u.writeHeader, file |-> u.file, defs |-> u.defs,
              expand |-> u.expand, header |-> u.header, selectors |-> u.selectors,
              inflates |-> u.inflates]
      /\ u.start = t.start /\ u.expand = t.expand /\ u.selectors = t.selectors
  BY <1>2 DEF IsTask
<1>. QED
  BY <1>3 DEF IsTask, TaskOk

SetData(t, input, header) == [t EXCEPT !.input = input, !.header = header]

LEMMA SetDataIs ==
  ASSUME NEW t, IsTask(t), t.start = "GetAlgorithm", NEW input, NEW header,
         NEW u, u = SetData(t, input, header)
  PROVE  IsTask(u) /\ u.start = t.start /\ u.expand = t.expand
<1>1. /\ u = [start |-> u.start, input |-> u.input, readHeader |-> u.readHeader,
              writeHeader |-> u.writeHeader, file |-> u.file, defs |-> u.defs,
              expand |-> u.expand, header |-> u.header, selectors |-> u.selectors,
              inflates |-> u.inflates]
      /\ u.start = t.start /\ u.expand = t.expand /\ u.selectors = t.selectors
  BY DEF IsTask, SetData
<1>. QED
  BY <1>1 DEF IsTask, TaskOk

LEMMA SetSelIs ==
  ASSUME NEW s, IsSel(s), NEW inflator, NEW queue, NEW stream, NEW final, NEW w, IsWriter(w)
  PROVE  /\ IsSel([s EXCEPT !.OrigWriter = w, !.Inflator = inflator])
         /\ IsSel([s EXCEPT !.AlgQueue = queue, !.OrigWriter = w,
                            !.IntermediateStream = stream, !.FinalSymtab = final])
         /\ IsSel([s EXCEPT !.Inflator = inflator, !.AlgQueue = queue])
         /\ IsSel([s EXCEPT !.IntermediateStream = stream, !.OrigWriter = w,
                            !.FinalSymtab = final])
<1>1. ASSUME NEW e, e = [s EXCEPT !.OrigWriter = w, !.Inflator = inflator]
      PROVE  IsSel(e)
  <2>1. /\ e = [AlgQueue |-> e.AlgQueue, FinalSymtab |-> e.FinalSymtab, Inflator |-> e.Inflator,
               IntermediateStream |-> e.IntermediateStream, OrigWriter |-> e.OrigWriter,
               Input |-> e.Input]
        /\ e.OrigWriter = w
    BY <1>1 DEF IsSel
  <2>. QED
    BY <2>1 DEF IsSel
<1>2. ASSUME NEW e, e = [s EXCEPT !.AlgQueue = queue, !.OrigWriter = w,
                               !.IntermediateStream = stream, !.FinalSymtab = final]
      PROVE  IsSel(e)
  <2>1. /\ e = [AlgQueue |-> e.AlgQueue, FinalSymtab |-> e.FinalSymtab, Inflator |-> e.Inflator,
               IntermediateStream |-> e.IntermediateStream, OrigWriter |-> e.OrigWriter,
               Input |-> e.Input]
        /\ e.OrigWriter = w
    BY <1>2 DEF IsSel
  <2>. QED
    BY <2>1 DEF IsSel
<1>3. ASSUME NEW e, e = [s EXCEPT !.Inflator = inflator, !.AlgQueue = queue]
      PROVE  IsSel(e)
  <2>1. /\ e = [AlgQueue |-> e.AlgQueue, FinalSymtab |-> e.FinalSymtab, Inflator |-> e.Inflator,
               IntermediateStream |-> e.IntermediateStream, OrigWriter |-> e.OrigWriter,
               Input |-> e.Input]
        /\ e.OrigWriter = s.OrigWriter
    BY <1>3 DEF IsSel
  <2>. QED
    BY <2>1 DEF IsSel
<1>4. ASSUME NEW e, e = [s EXCEPT !.IntermediateStream = stream, !.OrigWriter = w,
                               !.FinalSymtab = final]
      PROVE  IsSel(e)
  <2>1. /\ e = [AlgQueue |-> e.AlgQueue, FinalSymtab |-> e.FinalSymtab, Inflator |-> e.Inflator,
               IntermediateStream |-> e.IntermediateStream, OrigWriter |-> e.OrigWriter,
               Input |-> e.Input]
        /\ e.OrigWriter = w
    BY <1>4 DEF IsSel
  <2>. QED
    BY <2>1 DEF IsSel
<1>. QED
  BY <1>1, <1>2, <1>3, <1>4

\* The task that a machine runs is configured.
Holds(m, t, s) == Ok(m, t) /\ IsTask(t) /\ IsSel(s)

LEMMA ConfiguredOk ==
  ASSUME NEW t, IsTask(t), t.start = "GetAlgorithm", NEW symtab, NEW m, Ok(m, t), NEW s, IsSel(s),
         Configured(setSymbolTable(t, symtab), m, s)
  PROVE  Holds(vm', task', sel')
<1>1. PICK u : u = setSymbolTable(t, symtab)
  OBVIOUS
<1>2. task' = u /\ vm' = m /\ sel' = s
  BY <1>1 DEF Configured
<1>3. IsTask(u) /\ u.start = t.start /\ u.expand = t.expand
  BY <1>1, SetSymbolTableIs
<1>4. Ok(m, u)
  BY <1>3, GoodTask DEF Ok
<1>. QED
  BY <1>2, <1>3, <1>4 DEF Holds

LEMMA SelectsOk ==
  ASSUME IsTask(task), IsSel(sel), NEW m, Ok(m, task), Selects(m)
  PROVE  Holds(vm', task', sel')
BY DEF Selects, Becomes, Holds

\* Applying the algorithm of a selector: r is the machine that goes on.
LEMMA ConfigureOk ==
  ASSUME NEW r, Good(r, task), r.Scratch = << >>, IsTask(task), task.start = "GetAlgorithm",
         IsSel(sel), configure(r)
  PROVE  Holds(vm', task', sel')
<1>1. PICK t, s : t = task /\ s = sel
  OBVIOUS
<1>2. IsVm(r) /\ IsWriter(WriterOf(r)) /\ Ok(r, t)
  BY <1>1, WriterOfIs DEF Good, Ok
<1>3. ASSUME NEW kind PROVE Ok(setWriter(r, NewWriter(kind)), t)
  <2>1. PICK w : w = NewWriter(kind)
    OBVIOUS
  <2>2. Keeps(r, setWriter(r, w))
    BY <1>2, <2>1, NewWriterIs, SetWriterKeeps
  <2>3. Good(setWriter(r, w), t)
    BY <1>1, <2>2, KeepsGood
  <2>. QED
    BY <2>1, <2>3 DEF Ok
<1>4. CASE configureAlgorithm(r)
  <2>1. PICK yes, w : yes = TRUE /\ w = WriterOf(r)
    OBVIOUS
  <2>2. PICK q, e, symtab : /\ q = setWriter(r, NewWriter("InflateAst")) /\ symtab = Selector
                            /\ e = [s EXCEPT !.OrigWriter = w, !.Inflator = yes]
    OBVIOUS
  <2>3. IsSel(e)
    BY <1>1, <1>2, <2>1, <2>2, SetSelIs
  <2>4. Configured(setSymbolTable(t, symtab), q, e)
    BY <1>1, <1>4, <2>1, <2>2, Zenon DEF configureAlgorithm
  <2>5. Ok(q, t)
    BY <1>3, <2>2
  <2>. QED
    BY <1>1, <2>3, <2>4, <2>5, ConfiguredOk
<1>5. CASE applyDataAlgorithm(r)
  BY <1>1, <1>2, <1>5, ConfiguredOk DEF applyDataAlgorithm
<1>6. CASE applyNextQueuedAlgorithm(r)
  <2>1. PICK yes, w, rest, next : /\ yes = TRUE /\ w = WriterOf(r) /\ rest = Tail(sel.AlgQueue)
                                  /\ next = Head(sel.AlgQueue)
    OBVIOUS
  <2>2. PICK final : final = IF rest = << >> THEN getDefaultAlgorithm(next.writeHeader)
                             ELSE s.FinalSymtab
    OBVIOUS
  <2>3. PICK q, e : /\ q = setWriter(r, NewWriter("IntWriter"))
                    /\ e = [s EXCEPT !.AlgQueue = rest, !.OrigWriter = w,
                                     !.IntermediateStream = yes, !.FinalSymtab = final]
    OBVIOUS
  <2>4. IsSel(e)
    BY <1>1, <1>2, <2>1, <2>3, SetSelIs
  <2>5. Configured(setSymbolTable(t, next), q, e)
    BY <1>1, <1>6, <2>1, <2>2, <2>3, Zenon DEF applyNextQueuedAlgorithm
  <2>6. Ok(q, t)
    BY <1>3, <2>3
  <2>. QED
    BY <1>1, <2>4, <2>5, <2>6, ConfiguredOk
<1>. QED
  BY <1>4, <1>5, <1>6 DEF configure

\* A machine that GetAlgorithm goes on with, once it has another Writer.
LEMMA AlgKeeps ==
  ASSUME NEW t, NEW m, NEW f, AlgOn(m, t, f), NEW r, Keeps(m, r)
  PROVE  AlgOn(r, t, f)
<1>1. r.FrameStack = m.FrameStack
  BY DEF Keeps
<1>2. Good(r, t)
  BY KeepsGood DEF AlgOn, OuterOn
<1>. QED
  BY <1>1, <1>2 DEF AlgOn, OuterOn

LEMMA TrySelectorOk ==
  ASSUME IsTask(task), IsSel(sel), NEW f, AlgOn(vm, task, f), f = Frame, TrySelector
  PROVE  Holds(vm', task', sel')
<1>1. PICK m, t : m = vm /\ t = task
  OBVIOUS
<1>2. AlgOn(m, t, f)
  BY <1>1
<1>3. CASE At("Enter") /\ Selects(PushSelecting(PushLoop(vm, 0)))
  <2>1. Good(PushSelecting(PushLoop(m, 0)), t)
    BY <1>2, <1>3, AlgEnters DEF At
  <2>. QED
    BY <1>1, <1>3, <2>1, SelectsOk DEF Ok
<1>4. CASE At("Loop") /\ Selects(Throw(PopLoop(PopSelecting(vm))))
  <2>1. Failed(Throw(PopLoop(PopSelecting(m))))
    BY <1>2, <1>4, AlgGivesUp DEF At
  <2>. QED
    BY <1>1, <1>4, <2>1, SelectsOk DEF Ok
<1>5. CASE /\ At("Loop") /\ LoopCounter < Len(task.selectors)
           /\ Selects(Call(vm, "Step2", "Eval", "ReadOnly", Selector.readHeader))
  <2>1. f.CallState = "Loop"
    BY <1>5 DEF At
  <2>2. PICK i, nd : i = LoopCounter /\ nd = Selector.readHeader
    OBVIOUS
  <2>3. i \in Nat
    <3>1. AlgTracks(m, m.FrameStack, 2, 1, << "NO_SUCH_METHOD", "GetAlgorithm" >>)
      BY <1>2, <2>1, AlgFacts DEF Loops, Saved, Caught
    <3>2. Len(m.LoopCounterStack) = 2 /\ m.LoopCounterStack[2] \in Nat
      BY <3>1 DEF AlgTracks, Tracks
    <3>. QED
      BY <1>1, <2>2, <3>2 DEF LoopCounter, Last
  <2>4. nd.type \in Headers
    <3>1. i + 1 \in 1 .. Len(task.selectors)
      BY <1>5, <2>2, <2>3 DEF IsTask
    <3>. QED
      BY <2>2, <3>1 DEF IsTask, Selector
  <2>5. Good(Call(m, "Step2", "Eval", "ReadOnly", nd), t)
    BY <1>2, <2>1, <2>4, AlgTries
  <2>. QED
    BY <1>1, <1>5, <2>2, <2>5, SelectsOk DEF Ok
<1>. QED
  BY <1>3, <1>4, <1>5 DEF TrySelector

LEMMA ApplyOk ==
  ASSUME IsTask(task), IsSel(sel), NEW f, AlgOn(vm, task, f), f = Frame, ApplyAlgorithm
  PROVE  Holds(vm', task', sel')
<1>1. PICK m, t : m = vm /\ t = task
  OBVIOUS
<1>2. AlgOn(m, t, f) /\ t.start = "GetAlgorithm"
  BY <1>1 DEF AlgOn, OuterOn
<1>3. CASE At("Step2") /\ configure(Goto(PopSelecting(vm), "Step3"))
  <2>1. PICK r : r = Goto(PopSelecting(m), "Step3")
    OBVIOUS
  <2>2. f.CallState = "Step2"
    BY <1>3 DEF At
  <2>3. Good(r, t) /\ r.Scratch = << >>
    BY <1>2, <2>1, <2>2, AlgApplies
  <2>4. configure(r)
    BY <1>1, <1>3, <2>1
  <2>. QED
    BY <1>1, <1>2, <2>3, <2>4, ConfigureOk
<1>4. CASE At("Step3") /\ Selects(Call(vm, "Step4", "GetFile", Frame.CallModifier, NoNode))
  <2>1. PICK mod : mod = Frame.CallModifier
    OBVIOUS
  <2>2. f.CallState = "Step3"
    BY <1>4 DEF At
  <2>3. Good(Call(m, "Step4", "GetFile", mod, NoNode), t)
    BY <1>2, <2>2, AlgReads
  <2>. QED
    BY <1>1, <1>4, <2>1, <2>3, SelectsOk DEF Ok
<1>. QED
  BY <1>3, <1>4 DEF ApplyAlgorithm

\* The Writer that there was is the Writer again.
LEMMA OrigWriterKeeps ==
  ASSUME NEW t, NEW m, NEW f, AlgOn(m, t, f), NEW w, IsWriter(w)
  PROVE  AlgOn(setWriter(m, w), t, f) /\ Keeps(m, setWriter(m, w))
<1>1. IsVm(m) /\ m.Scratch = << >>
  BY AlgFacts DEF Idle
<1>2. PICK r : r = setWriter(m, w)
  OBVIOUS
<1>3. Keeps(m, r)
  BY <1>1, <1>2, SetWriterKeeps
<1>4. AlgOn(r, t, f)
  BY <1>3, AlgKeeps
<1>. QED
  BY <1>2, <1>3, <1>4

LEMMA ResetAlgorithmOk ==
  ASSUME IsTask(task), IsSel(sel), NEW f, AlgOn(vm, task, f), f = Frame, ResetAlgorithm
  PROVE  Holds(vm', task', sel')
<1>1. PICK t, s, w : t = task /\ s = sel /\ w = sel.OrigWriter
  OBVIOUS
<1>2. PICK m : m = setWriter(vm, w)
  OBVIOUS
<1>3. AlgOn(m, t, f)
  <2>1. IsWriter(w)
    BY <1>1 DEF IsSel
  <2>. QED
    BY <1>1, <1>2, <2>1, OrigWriterKeeps
<1>4. f.CallState = "Step4"
  BY DEF ResetAlgorithm, At
<1>5. Good(NextSection(m), t) /\ Failed(Throw(m))
  BY <1>3, <1>4, AlgSections
<1>6. PICK ok, no : ok = (vm.Output \in DOMAIN task.inflates) /\ no = FALSE
  OBVIOUS
<1>7. PICK q, queue, e : /\ q = IF ok THEN NextSection(m) ELSE Throw(m)
                         /\ queue = IF ok THEN Append(s.AlgQueue, Inflated(vm.Output)) ELSE s.AlgQueue
                         /\ e = [s EXCEPT !.Inflator = no, !.AlgQueue = queue]
  OBVIOUS
<1>8. Ok(q, t)
  BY <1>5, <1>7 DEF Ok
<1>9. IsSel(e)
  <2>1. IsWriter(w)
    BY <1>1 DEF IsSel
  <2>. QED
    BY <1>1, <1>7, <2>1, SetSelIs
<1>10. Configured(setSymbolTable(t, NoSymtab), q, e)
  BY <1>1, <1>2, <1>6, <1>7, Zenon DEF ResetAlgorithm
<1>11. t.start = "GetAlgorithm"
  BY <1>3 DEF AlgOn, OuterOn
<1>. QED
  BY <1>1, <1>8, <1>9, <1>10, <1>11, ConfiguredOk

LEMMA ResetCopiedOk ==
  ASSUME IsTask(task), IsSel(sel), NEW f, AlgOn(vm, task, f), f = Frame, ResetCopied
  PROVE  Holds(vm', task', sel')
<1>1. PICK t, m : t = task /\ m = vm
  OBVIOUS
<1>2. f.CallState = "Step4"
  BY DEF ResetCopied, At
<1>3. Ok(NextSection(m), t) /\ t.start = "GetAlgorithm"
  BY <1>1, <1>2, AlgSections DEF Ok, AlgOn, OuterOn
<1>. QED
  BY <1>1, <1>3, ConfiguredOk DEF ResetCopied

LEMMA ResetDataOk ==
  ASSUME IsTask(task), IsSel(sel), NEW f, AlgOn(vm, task, f), f = Frame, ResetData
  PROVE  Holds(vm', task', sel')
<1>1. PICK t, s, w, p : t = task /\ s = sel /\ w = sel.OrigWriter /\ p = vm
  OBVIOUS
<1>2. PICK q, m : q = setWriter(p, w) /\ m = setInput(q)
  OBVIOUS
<1>3. AlgOn(q, t, f) /\ f.CallState = "Step4"
  <2>1. IsWriter(w)
    BY <1>1 DEF IsSel
  <2>2. f.CallState = "Step4"
    BY DEF ResetData, At
  <2>. QED
    BY <1>1, <1>2, <2>1, <2>2, OrigWriterKeeps
<1>4. IsVm(q) /\ q.SavedPosStack = << >> /\ q.RestoreStack = << >>
  <2>1. /\ IsVm(q) /\ Idle(q) /\ Tracks(q, q.FrameStack, 2, 0, << "NO_SUCH_METHOD" >>)
    BY <1>3, AlgStep4
  <2>2. IsSeq(q.SavedPosStack) /\ Len(q.SavedPosStack) = 0
    BY <2>1 DEF Tracks
  <2>. QED
    BY <2>1, <2>2, SeqLen DEF Idle
<1>5. AlgOn(m, t, f)
  BY <1>2, <1>3, <1>4, SetInputKeeps, AlgKeeps
<1>6. Failed(Throw(m)) /\ Good(Goto(m, "Step3"), t)
  BY <1>3, <1>5, AlgSections
<1>7. PICK a, u, input, header : /\ a = setSymbolTable(t, s.FinalSymtab)
                                 /\ input = ValuesOf(p.Output) /\ header = HeaderOf(p.Output)
                                 /\ u = [a EXCEPT !.input = input, !.header = header]
  OBVIOUS
<1>8. t.start = "GetAlgorithm"
  BY <1>3 DEF AlgOn, OuterOn
<1>9. IsTask(u) /\ u.start = t.start /\ u.expand = t.expand
  <2>1. IsTask(a) /\ a.start = t.start /\ a.expand = t.expand
    BY <1>1, <1>7, <1>8, SetSymbolTableIs
  <2>2. u = SetData(a, input, header) /\ a.start = "GetAlgorithm"
    BY <1>7, <1>8, <2>1 DEF SetData
  <2>3. IsTask(u) /\ u.start = a.start /\ u.expand = a.expand
    BY <2>1, <2>2, SetDataIs
  <2>. QED
    BY <2>1, <2>3
<1>10. PICK r : r = IF IsNull(s.FinalSymtab) THEN Throw(m) ELSE Goto(m, "Step3")
  OBVIOUS
<1>11. Ok(r, u)
  BY <1>6, <1>9, <1>10, GoodTask DEF Ok
<1>12. PICK no, e : no = FALSE /\ e = [s EXCEPT !.IntermediateStream = no, !.OrigWriter = NoWriter,
                                                !.FinalSymtab = NoSymtab]
  OBVIOUS
<1>13. IsSel(e)
  <2>1. IsWriter(NoWriter)
    BY NewWriterIs DEF NoWriter
  <2>. QED
    BY <1>1, <1>12, <2>1, SetSelIs
<1>14. task' = u /\ vm' = r /\ sel' = e
  BY <1>1, <1>2, <1>7, <1>10, <1>12, Zenon DEF ResetData
<1>. QED
  BY <1>9, <1>11, <1>13, <1>14 DEF Holds

LEMMA CatchHeaderOk ==
  ASSUME IsTask(task), IsSel(sel), NEW f, AlgOn(vm, task, f), f = Frame, CatchHeader
  PROVE  Holds(vm', task', sel')
<1>1. PICK t, m : t = task /\ m = vm
  OBVIOUS
<1>2. f.CallState = "Catch"
  BY DEF CatchHeader, At
<1>3. Ok(PushSelecting(CountLoop(PopPeekPos(m), 1)), t) /\ Ok(Throw(m), t)
  BY <1>1, <1>2, AlgCatches DEF Ok
<1>4. PICK r : r = IF m.CatchState = "Step2" THEN PushSelecting(CountLoop(PopPeekPos(m), 1))
                   ELSE Throw(m)
  OBVIOUS
<1>5. Selects(r)
  BY <1>1, <1>4, Zenon DEF CatchHeader
<1>. QED
  BY <1>1, <1>3, <1>4, <1>5, SelectsOk

LEMMA GetAlgorithmOk ==
  ASSUME Good(vm, task), IsTask(task), IsSel(sel), GetAlgorithm
  PROVE  Holds(vm', task', sel')
<1>1. PICK f : f = Frame
  OBVIOUS
<1>2. AlgOn(vm, task, f)
  <2>1. f = Last(vm.FrameStack) /\ f.CallMethod = "GetAlgorithm"
    BY <1>1 DEF GetAlgorithm, Running, Frame
  <2>2. OuterOn(vm, task, f)
    BY <2>1, IsOuterOn DEF Outer
  <2>. QED
    BY <2>1, <2>2 DEF AlgOn
<1>3. CASE TrySelector
  BY <1>1, <1>2, <1>3, TrySelectorOk
<1>4. CASE ApplyAlgorithm
  BY <1>1, <1>2, <1>4, ApplyOk
<1>5. CASE ResetAlgorithm \/ ResetCopied \/ ResetData
  BY <1>1, <1>2, <1>5, ResetAlgorithmOk, ResetCopiedOk, ResetDataOk
<1>6. CASE CatchHeader
  BY <1>1, <1>2, <1>6, CatchHeaderOk
<1>7. CASE At("Exit") /\ Selects(Return(vm, 0))
  <2>1. PICK t, m : t = task /\ m = vm
    OBVIOUS
  <2>2. f.CallState = "Exit"
    BY <1>1, <1>7 DEF At
  <2>3. Ok(Return(m, 0), t)
    BY <1>2, <2>1, <2>2, AlgReturns DEF Ok
  <2>. QED
    BY <1>7, <2>1, <2>3, SelectsOk
<1>. QED
  BY <1>3, <1>4, <1>5, <1>6, <1>7 DEF GetAlgorithm

---------------------------------------------------------------------------
(***************************************************************************)
(* What the invariant says of the heights of the stacks.                   *)
(***************************************************************************)
LEMMA CatchesMatch ==
  ASSUME Good(vm, task)
  PROVE  Len(vm.CatchStack) - 1 = CountFrames(Catching)
<1>1. PICK fs, t, n : fs = vm.FrameStack /\ t = task /\ n = Len(fs)
  OBVIOUS
<1>2. Shape(fs) /\ Catches(vm, fs) /\ Begun(fs, t) /\ n \in Nat /\ n >= 1
  BY <1>1, TopFrame DEF Good
<1>3. PICK C : C = {i \in 2 .. n : Catching(fs[i])}
  OBVIOUS
<1>4. CountFrames(Catching) = Cardinality(C)
  BY <1>1, <1>3 DEF CountFrames
<1>5. CASE ~InMode(fs)
  <2>1. ASSUME NEW i \in 2 .. n, Catching(fs[i]) PROVE FALSE
    <3>1. i = 2 \/ i \in 3 .. n
      BY <1>2
    <3>2. n >= 2 /\ (i = 2 \/ n >= 3)
      BY <1>2
    <3>3. CASE fs[i].CallMethod \in Outer
      <4>1. i = 2
        BY <1>1, <1>2, <3>1, <3>3 DEF Shape, Inner, Outer
      <4>2. \/ fs[2].CallMethod = "HasFileHeader" /\ fs[2].CallState = "Exit"
            \/ Selecting(fs[2])
        BY <2>1, <3>3, <4>1 DEF Catching, Evaluates, Outer
      <4>. QED
        BY <1>1, <1>5, <3>2, <4>2 DEF InMode
    <3>4. CASE fs[i].CallMethod \notin Outer
      <4>1. /\ Evaluates(fs[i], Headers)
            /\ vm.FrameStack[2].CallMethod = "HasFileHeader" \/ Selecting(vm.FrameStack[2])
        BY <2>1, <3>4 DEF Catching, Selecting, Outer
      <4>2. ~Selecting(fs[2])
        BY <1>1, <1>5, <3>2 DEF InMode
      <4>3. fs[2].CallMethod = "HasFileHeader"
        BY <1>1, <4>1, <4>2
      <4>4. i # 2
        BY <4>3, <3>4 DEF Outer
      <4>5. fs[2].CallState = "Exit"
        BY <1>1, <1>2, <3>2, <4>3, <4>4 DEF Begun
      <4>. QED
        BY <1>1, <1>5, <3>2, <4>3, <4>5 DEF InMode
    <3>. QED
      BY <3>3, <3>4
  <2>2. C = {}
    BY <1>3, <2>1
  <2>3. Cardinality(C) = 0
    BY <2>2, FS_EmptySet
  <2>4. vm.CatchStack = << "NO_SUCH_METHOD" >>
    BY <1>2, <1>5 DEF Catches
  <2>. QED
    BY <1>4, <2>3, <2>4
<1>6. CASE InMode(fs)
  <2>1. n = 2 \/ n = 3
    <3>1. n >= 2 /\ n <= 3
      BY <1>1, <1>2, <1>6 DEF InMode, Catches
    <3>. QED
      BY <1>2, <3>1
  <2>2. Catching(fs[2])
    BY <1>6 DEF InMode, Catching
  <2>3. Cardinality({2}) = 1 /\ IsFiniteSet({2})
    BY FS_Singleton
  <2>4. CASE n = 2
    <3>1. C = {2}
      BY <1>3, <2>2, <2>4
    <3>2. vm.CatchStack = << "NO_SUCH_METHOD", fs[2].CallMethod >>
      BY <1>1, <1>2, <1>6, <2>4 DEF Catches
    <3>3. Len(vm.CatchStack) = 2
      BY <3>2
    <3>. QED
      BY <1>4, <2>3, <3>1, <3>3
  <2>5. CASE n = 3 /\ fs[3].CallState \in {"Loop", "Exit"}
    <3>1. Evaluates(fs[3], Headers)
      BY <1>1, <1>2, <1>6, <2>5 DEF Catches
    <3>2. Catching(fs[3])
      <4>1. vm.FrameStack[2].CallMethod = "HasFileHeader" \/ Selecting(vm.FrameStack[2])
        BY <1>1, <1>6 DEF InMode
      <4>. QED
        BY <2>5, <3>1, <4>1 DEF Catching
    <3>3. C = {2} \cup {3}
      <4>1. \A i : i \in 2 .. n <=> i = 2 \/ i = 3
        BY <2>5
      <4>. QED
        BY <1>3, <2>2, <3>2, <4>1
    <3>4. Cardinality({2} \cup {3}) = 2
      <4>1. 3 \notin {2}
        OBVIOUS
      <4>2. Cardinality({2} \cup {3}) = Cardinality({2}) + 1
        BY <2>3, <4>1, FS_AddElement
      <4>. QED
        BY <2>3, <4>2
    <3>5. vm.CatchStack = << "NO_SUCH_METHOD", fs[2].CallMethod, "Eval" >>
      BY <1>1, <1>2, <1>6, <2>5 DEF Catches
    <3>6. Len(vm.CatchStack) = 3
      BY <3>5
    <3>. QED
      BY <1>4, <3>3, <3>4, <3>6
  <2>6. CASE n = 3 /\ fs[3].CallState \notin {"Loop", "Exit"}
    <3>1. Evaluates(fs[3], Headers)
      BY <1>1, <1>2, <1>6, <2>6 DEF Catches
    <3>2. ~Catching(fs[3])
      BY <2>6, <3>1 DEF Catching, Evaluates, Selecting
    <3>3. C = {2}
      <4>1. \A i : i \in 2 .. n <=> i = 2 \/ i = 3
        BY <2>6
      <4>. QED
        BY <1>3, <2>2, <3>2, <4>1
    <3>4. vm.CatchStack = << "NO_SUCH_METHOD", fs[2].CallMethod >>
      BY <1>1, <1>2, <1>6, <2>6 DEF Catches
    <3>5. Len(vm.CatchStack) = 2
      BY <3>4
    <3>. QED
      BY <1>4, <2>3, <3>3, <3>5
  <2>. QED
    BY <2>1, <2>4, <2>5, <2>6
<1>. QED
  BY <1>5, <1>6

LEMMA LocalsMatch ==
  ASSUME Good(vm, task), CountFrames(WithLocals) + CountFrames(HasArgument) = 0
  PROVE  vm.LocalValues = << >>
<1>1. PICK fs, n : fs = vm.FrameStack /\ n = Len(fs)
  OBVIOUS
<1>2. /\ Shape(fs) /\ LocalsBounded(vm, fs) /\ n \in Nat /\ n >= 1 /\ Last(fs) = fs[n]
  BY <1>1, TopFrame DEF Good
<1>3. PICK A, B : A = {i \in 2 .. n : WithLocals(fs[i])} /\ B = {i \in 2 .. n : HasArgument(fs[i])}
  OBVIOUS
<1>4. Cardinality(A) + Cardinality(B) = 0
  BY <1>1, <1>3 DEF CountFrames
<1>5. A = {} /\ B = {}
  <2>1. IsFiniteSet(2 .. n) /\ A \subseteq 2 .. n /\ B \subseteq 2 .. n
    BY <1>2, <1>3, FS_Interval
  <2>2. IsFiniteSet(A) /\ IsFiniteSet(B)
    BY <2>1, FS_Subset
  <2>3. Cardinality(A) \in Nat /\ Cardinality(B) \in Nat
    BY <2>2, FS_CardinalityType
  <2>4. Cardinality(A) = 0 /\ Cardinality(B) = 0
    BY <1>4, <2>3
  <2>. QED
    BY <2>2, <2>4, FS_EmptySet
<1>6. ASSUME NEW i \in 1 .. n PROVE NoLocals(fs[i])
  <2>1. CASE i = 1
    <3>1. fs[i].CallMethod # "Eval"
      BY <1>2, <2>1 DEF Shape
    <3>. QED
      BY <3>1 DEF NoLocals, WithLocals, HasArgument, Evaluates
  <2>2. CASE i # 1
    <3>1. i \in 2 .. n
      BY <1>2, <2>2
    <3>. QED
      BY <1>3, <1>5, <3>1 DEF NoLocals
  <2>. QED
    BY <2>1, <2>2
<1>7. PICK h, p : /\ Bounded(fs, vm.LocalsBaseStack, h, p)
                  /\ AtMost(vm.LocalValues, Last(fs), h[Len(fs)])
  BY <1>2 DEF LocalsBounded
<1>8. h[n] = 0
  <2>1. n \in 1 .. Len(fs) /\ \A j \in 1 .. n - 1 : NoLocals(fs[j])
    BY <1>1, <1>2, <1>6
  <2>. QED
    BY <1>7, <2>1 DEF Bounded
<1>9. Len(vm.LocalValues) <= 0
  BY <1>1, <1>2, <1>6, <1>7, <1>8 DEF AtMost
<1>10. IsSeq(vm.LocalValues)
  BY <1>2 DEF LocalsBounded
<1>11. PICK k \in Nat : k = Len(vm.LocalValues)
  BY <1>10, SeqLen
<1>12. k = 0
  BY <1>9, <1>11
<1>. QED
  BY <1>10, <1>11, <1>12, SeqLen

LEMMA GoodMatches == ASSUME Good(vm, task) PROVE StacksMatchFrames
<1>1. PICK fs, t : fs = vm.FrameStack /\ t = task
  OBVIOUS
<1>2. /\ CountFrames(Counting) = N("counting", fs, t)
      /\ CountFrames(Calling) = N("calling", fs, t)
      /\ CountFrames(InContext) = N("context", fs, t)
      /\ CountFrames(WithLocals) = N("locals", fs, t)
      /\ CountFrames(Peeking) = N("peeking", fs, t)
      /\ CountFrames(InTable) = N("table", fs, t)
  <2>1. {i \in 2 .. Len(fs) : Counting(fs[i])} = Owners("counting", fs, t)
    BY DEF Owners, Has
  <2>2. {i \in 2 .. Len(fs) : Calling(fs[i])} = Owners("calling", fs, t)
    BY DEF Owners, Has
  <2>3. {i \in 2 .. Len(fs) : InContext(fs[i])} = Owners("context", fs, t)
    BY DEF Owners, Has
  <2>4. {i \in 2 .. Len(fs) : WithLocals(fs[i])} = Owners("locals", fs, t)
    BY DEF Owners, Has
  <2>5. {i \in 2 .. Len(fs) : Peeking(fs[i])} = Owners("peeking", fs, t)
    BY DEF Owners, Has
  <2>6. {i \in 2 .. Len(fs) : InTable(fs[i])} = Owners("table", fs, t)
    <3>1. ASSUME NEW f PROVE InTable(f) <=> Has("table", f, t)
      BY <1>1 DEF InTable, Has
    <3>. QED
      BY <3>1 DEF Owners
  <2>. QED
    BY <1>1, <2>1, <2>2, <2>3, <2>4, <2>5, <2>6 DEF CountFrames, N
<1>3. Heights(vm, fs, t) /\ Stacks(vm) /\ Len(fs) \in Nat
  BY <1>1, TopFrame DEF Good
<1>4. ASSUME NEW kind PROVE N(kind, fs, t) \in Nat
  BY <1>3, OwnersFinite
<1>5. /\ Len(vm.LoopCounterStack) - 1 = N("counting", fs, t)
      /\ Len(vm.LoopSizeStack) = N("calling", fs, t)
      /\ Len(vm.EvalFrameStack) = N("calling", fs, t)
      /\ Len(vm.CurEvalFrameStack) - 1 = N("calling", fs, t) + N("context", fs, t)
      /\ Len(vm.LocalsBaseStack) - 1 = N("locals", fs, t)
      /\ Len(vm.SavedPosStack) = N("peeking", fs, t) + Restored(vm)
      /\ Len(IF task.expand THEN vm.RestoreStack ELSE vm.Scratch) = N("table", fs, t)
  <2>1. ASSUME NEW x, NEW y \in Nat, x = 1 + y PROVE x - 1 = y
    BY <2>1
  <2>2. Len(vm.LoopCounterStack) - 1 = N("counting", fs, t)
    BY <1>3, <1>4, <2>1 DEF Heights
  <2>3. Len(vm.LocalsBaseStack) - 1 = N("locals", fs, t)
    BY <1>3, <1>4, <2>1 DEF Heights
  <2>4. Len(vm.CurEvalFrameStack) - 1 = N("calling", fs, t) + N("context", fs, t)
    <3>1. PICK a \in Nat, b \in Nat : a = N("calling", fs, t) /\ b = N("context", fs, t)
      BY <1>4
    <3>2. Len(vm.CurEvalFrameStack) = 1 + a + b
      BY <1>3, <3>1 DEF Heights
    <3>. QED
      BY <3>1, <3>2
  <2>5. /\ Len(vm.LoopSizeStack) = N("calling", fs, t)
        /\ Len(vm.EvalFrameStack) = N("calling", fs, t)
        /\ Len(vm.SavedPosStack) = N("peeking", fs, t) + Restored(vm)
    BY <1>3 DEF Heights
  <2>6. Len(IF task.expand THEN vm.RestoreStack ELSE vm.Scratch) = N("table", fs, t)
    BY <1>1, <1>3 DEF Heights
  <2>. QED
    BY <2>2, <2>3, <2>4, <2>5, <2>6
<1>6. Restores = Restored(vm)
  BY DEF Restores, Restored
<1>. QED
  BY <1>2, <1>5, <1>6, LocalsMatch, CatchesMatch DEF StacksMatchFrames

---------------------------------------------------------------------------
(***************************************************************************)
(* The invariant of the specification.                                     *)
(***************************************************************************)
IInv == Holds(vm, task, sel)

\* A machine that has failed does not go on.
LEMMA FailedStays ==
  ASSUME Failed(vm) PROVE ~SelectionStep /\ ~MoreInput
<1>1. Frame.CallMethod = "Finished"
  BY DEF Failed, FailedFrame, CallFrame, Frame, Last
<1>2. ~Running("Eval") /\ \A types : ~Evaluating(types)
  BY <1>1 DEF Running, Evaluating
<1>3. /\ ~Running("EvalBlock") /\ ~Running("Peek") /\ ~Running("GetFile")
      /\ ~Running("HasFileHeader") /\ ~Running("Started") /\ ~Running("GetAlgorithm")
      /\ ~Running("EvalInCallingContext")
  BY <1>1 DEF Running
<1>4. ~Passing /\ ~Copying /\ ~Counted
  BY <1>2, <1>3, Zenon DEF Passing, Copying, Counted, EvalError, EvalNotImplemented, EvalLastRead, EvalLocal,
     EvalPeek, EvalRead, EvalNot, EvalAndOr, EvalLoopUnbounded, EvalIf, EvalSwitch, EvalLiteralUse,
     EvalBlockNode, EvalCallback, EvalInteger, EvalFormat, EvalBinary, EvalMap, EvalCase, EvalBlock,
     GetFile, EvalWrite, EvalSequence, EvalLoop
<1>5. ~(EvalBitwise \/ EvalBitwiseNegate \/ EvalSet \/ EvalTable \/ EvalDefine \/ EvalParam
        \/ EvalInCallingContext \/ EvalVirtual \/ PeekMethod \/ EvalHeader \/ HasFileHeader
        \/ Finish \/ GetAlgorithm)
  BY <1>2, <1>3, Zenon DEF EvalBitwise, EvalBitwiseNegate, EvalSet, EvalTable, EvalDefine, EvalParam,
     EvalInCallingContext, EvalVirtual, PeekMethod, EvalHeader, HasFileHeader, Finish, GetAlgorithm
<1>6. ~Step
  BY <1>4, <1>5, Zenon DEF Step, Passing, Copying, Counted
<1>7. ~MoreInput
  BY <1>1 DEF MoreInput, Finished
<1>. QED
  BY <1>5, <1>6, <1>7 DEF SelectionStep

\* The first frames.
LEMMA StartsOk ==
  ASSUME NEW t, NEW m, m = callTopLevel(NewMachine, t.start),
         t.start \in {"GetFile", "HasFileHeader", "GetAlgorithm"}
  PROVE  Good(m, t)
<1>1. PICK a, b, fs : /\ a = CallFrame("Started", "ReadAndWrite", NoNode)
                      /\ b = CallFrame(t.start, "ReadAndWrite", NoNode)
                      /\ fs = << a, b >>
  OBVIOUS
<1>2. PICK q : q = NewMachine
  OBVIOUS
<1>3. IsVm(q) /\ q.FrameStack = << a >>
  BY <1>1, <1>2 DEF NewMachine, IsVm
<1>4. m = [q EXCEPT !.FrameStack = fs]
  <2>1. Append(<< a >>, b) = << a, b >>
    BY CatchOps
  <2>. QED
    BY <1>1, <1>2, <1>3, <2>1 DEF callTopLevel
<1>5. /\ IsVm(m) /\ m.FrameStack = fs /\ m.EvalFrameStack = << >> /\ m.CurEvalFrameStack = << 0 >>
      /\ m.LoopCounterStack = << 0 >> /\ m.LoopSizeStack = << >> /\ m.LocalsBaseStack = << 0 >>
      /\ m.LocalValues = << >> /\ m.CatchStack = << "NO_SUCH_METHOD" >>
      /\ m.SavedPosStack = << >> /\ m.RestoreStack = << >> /\ m.Scratch = << >>
  <2>1. /\ q.EvalFrameStack = << >> /\ q.CurEvalFrameStack = << 0 >>
        /\ q.LoopCounterStack = << 0 >> /\ q.LoopSizeStack = << >> /\ q.LocalsBaseStack = << 0 >>
        /\ q.LocalValues = << >> /\ q.CatchStack = << "NO_SUCH_METHOD" >>
        /\ q.SavedPosStack = << >> /\ q.RestoreStack = << >> /\ q.Scratch = << >>
    BY <1>2, Zenon DEF NewMachine
  <2>2. /\ IsVm(m) /\ m.FrameStack = fs /\ m.EvalFrameStack = q.EvalFrameStack
        /\ m.CurEvalFrameStack = q.CurEvalFrameStack
        /\ m.LoopCounterStack = q.LoopCounterStack /\ m.LoopSizeStack = q.LoopSizeStack
        /\ m.LocalsBaseStack = q.LocalsBaseStack
        /\ m.LocalValues = q.LocalValues /\ m.CatchStack = q.CatchStack
        /\ m.SavedPosStack = q.SavedPosStack /\ m.RestoreStack = q.RestoreStack
        /\ m.Scratch = q.Scratch
    BY <1>3, <1>4 DEF IsVm
  <2>. QED
    BY <2>1, <2>2
<1>6. ~m.IsFatalFailure
  <2>1. q.IsFatalFailure = FALSE
    BY <1>2 DEF NewMachine
  <2>2. m.IsFatalFailure = q.IsFatalFailure
    BY <1>3, <1>4 DEF IsVm
  <2>. QED
    BY <2>1, <2>2
<1>7. /\ IsFrame(a) /\ IsFrame(b) /\ a.CallMethod = "Started" /\ b.CallMethod = t.start
      /\ a.CallState = "Enter" /\ b.CallState = "Enter"
  BY <1>1 DEF CallFrame, IsFrame
<1>8. IsSeq(fs) /\ Len(fs) = 2 /\ fs[1] = a /\ fs[2] = b /\ Last(fs) = b
  <2>1. fs \in Seq({a, b}) /\ Len(fs) = 2 /\ fs[1] = a /\ fs[2] = b
    BY <1>1
  <2>. QED
    BY <2>1, SeqIntro DEF Last
<1>9. Shape(fs) /\ Begun(fs, t)
  <2>1. \A i \in 1 .. Len(fs) : i = 1 \/ i = 2
    BY <1>8
  <2>2. \A i \in 1 .. Len(fs) : IsFrame(fs[i])
    BY <1>7, <1>8, <2>1
  <2>3. \A i \in 3 .. Len(fs) : FALSE
    BY <1>8
  <2>4. b.CallMethod \in Inner \cup Outer
    BY <1>7 DEF Inner, Outer
  <2>. QED
    BY <1>7, <1>8, <2>2, <2>3, <2>4 DEF Shape, Begun
<1>10. IsSeq(<< >>) /\ IsSeq(<< 0 >>) /\ Len(<< >>) = 0 /\ Len(<< 0 >>) = 1
  <2>1. << >> \in Seq({0}) /\ << 0 >> \in Seq({0}) /\ Len(<< >>) = 0 /\ Len(<< 0 >>) = 1
    OBVIOUS
  <2>. QED
    BY <2>1, SeqIntro
<1>11. Stacks(m)
  BY <1>5, <1>10 DEF Stacks
<1>12. ASSUME NEW kind PROVE N(kind, fs, t) = 0
  <2>1. Ct(kind, b, t) = 0
    BY <1>7, EnterHasNone
  <2>2. PICK s : s = << a >>
    OBVIOUS
  <2>3. Len(s) = 1 /\ IsSeq(s) /\ Append(s, b) = fs
    <3>1. s \in Seq({a}) /\ Len(s) = 1
      BY <2>2
    <3>2. Append(s, b) = fs
      BY <1>1, <2>2, CatchOps
    <3>. QED
      BY <3>1, <3>2, SeqIntro
  <2>4. N(kind, s, t) = 0 /\ N(kind, Append(s, b), t) = N(kind, s, t) + Ct(kind, b, t)
    <3>1. N(kind, s, t) = 0
      BY <2>3, CountOne
    <3>2. Len(s) >= 1
      BY <2>3
    <3>. QED
      BY <2>3, <3>1, <3>2, CountAppend
  <2>. QED
    BY <2>1, <2>3, <2>4
<1>13. Heights(m, fs, t)
  <2>1. Restored(m) = 0
    <3>1. {i \in DOMAIN m.RestoreStack : m.RestoreStack[i]} = {}
      BY <1>5
    <3>. QED
      BY <3>1, FS_EmptySet DEF Restored
  <2>. QED
    BY <1>5, <1>10, <1>12, <2>1 DEF Heights
<1>14. ~InMode(fs) /\ ~HasCaught(fs)
  BY <1>7, <1>8 DEF InMode, HasCaught, Selecting
<1>15. Catches(m, fs) /\ Counts(m, fs)
  BY <1>5, <1>14 DEF Catches, Counts
<1>16. LocalsBounded(m, fs)
  <2>1. /\ NoLocals(a) /\ ~WithLocals(a) /\ ~HasArgument(a)
        /\ NoLocals(b) /\ ~WithLocals(b) /\ ~HasArgument(b)
    BY <1>7, EnterHasNone DEF NoLocals
  <2>2. PICK h, p : h = [i \in 1 .. 2 |-> 0] /\ p = [i \in 1 .. 2 |-> 1]
    OBVIOUS
  <2>3. \A i \in 1 .. Len(fs) : i \in 1 .. 2 /\ ~WithLocals(fs[i]) /\ ~HasArgument(fs[i])
    BY <1>8, <2>1
  <2>4. \A i \in 1 .. Len(fs) - 1 : i \in 1 .. Len(fs) /\ i + 1 \in 1 .. 2
    BY <1>8
  <2>5. Bounded(fs, m.LocalsBaseStack, h, p)
    BY <1>8, <2>2, <2>3, <2>4 DEF Bounded, NoLocals
  <2>6. Len(m.LocalsBaseStack) = p[Len(fs)] + (IF WithLocals(Last(fs)) THEN 1 ELSE 0)
    BY <1>5, <1>8, <1>10, <2>1, <2>2
  <2>7. AtMost(m.LocalValues, Last(fs), h[Len(fs)])
    BY <1>5, <1>8, <1>10, <2>1, <2>2 DEF AtMost
  <2>. QED
    BY <1>5, <1>10, <2>5, <2>6, <2>7 DEF LocalsBounded
<1>. QED
  BY <1>5, <1>6, <1>9, <1>11, <1>13, <1>15, <1>16 DEF Good

LEMMA InitOk == SelectionInit => IInv
<1>1. SUFFICES ASSUME SelectionInit PROVE Holds(vm, task, sel)
  BY DEF IInv
<1>2. task \in Tasks
  BY <1>1 DEF SelectionInit, Init
<1>3. Good(vm, task)
  BY <1>1, <1>2, TasksAssumption, StartsOk DEF SelectionInit, Init
<1>4. IsTask(task)
  BY <1>2, TasksAssumption, SelectorsAssumption DEF IsTask, TaskOk
<1>5. IsSel(sel)
  <2>1. PICK w : w = NoWriter
    OBVIOUS
  <2>2. IsWriter(w)
    BY <2>1, NewWriterIs DEF NoWriter
  <2>3. PICK none, no, input : none = NoSymtab /\ no = FALSE /\ input = task.input
    OBVIOUS
  <2>4. sel = [AlgQueue |-> << >>, FinalSymtab |-> none, Inflator |-> no,
               IntermediateStream |-> no, OrigWriter |-> w, Input |-> input]
    BY <1>1, <2>1, <2>3 DEF SelectionInit
  <2>. QED
    BY <2>2, <2>4 DEF IsSel
<1>. QED
  BY <1>3, <1>4, <1>5 DEF Holds, Ok

\* The steps other than those of GetAlgorithm run the same task.
LEMMA StepKeepsTask == ASSUME Step PROVE task' = task
<1>1. \A m : Becomes(m) => task' = task
  BY DEF Becomes
<1>. QED
  BY <1>1, Zenon DEF Step, EvalError, EvalNotImplemented, EvalHeader, EvalBitwise,
     EvalBitwiseNegate, EvalCallback, EvalInteger, EvalLastRead, EvalLocal, EvalSet, EvalPeek,
     EvalRead, EvalFormat, EvalBinary, EvalMap, EvalWrite, EvalNot, EvalAndOr, EvalSequence,
     EvalTable, EvalLoop, EvalLoopUnbounded, EvalIf, EvalSwitch, EvalCase, EvalDefine,
     EvalLiteralUse, EvalParam, EvalInCallingContext, EvalVirtual, EvalBlockNode, EvalBlock,
     PeekMethod, GetFile, HasFileHeader, Finish

LEMMA NextOk == IInv /\ [SelectionNext]_allVars => IInv'
<1>1. SUFFICES ASSUME Holds(vm, task, sel), [SelectionNext]_allVars
               PROVE  Holds(vm', task', sel')
  BY DEF IInv
<1>2. CASE Failed(vm)
  <2>1. UNCHANGED << vm, task, sel >>
    BY <1>1, <1>2, FailedStays DEF SelectionNext, allVars, vars
  <2>. QED
    BY <1>1, <2>1
<1>3. CASE Good(vm, task)
  <2>1. IsTask(task) /\ IsSel(sel)
    BY <1>1 DEF Holds
  <2>2. CASE Step /\ UNCHANGED sel
    <3>1. Ok(vm', task)
      BY <1>3, <2>1, <2>2, StepOk DEF IsTask
    <3>2. task' = task
      BY <2>2, StepKeepsTask
    <3>. QED
      BY <2>1, <2>2, <3>1, <3>2 DEF Holds
  <2>3. CASE GetAlgorithm
    BY <1>3, <2>1, <2>3, GetAlgorithmOk
  <2>4. CASE MoreInput /\ UNCHANGED sel
    BY <1>1, <2>4 DEF MoreInput
  <2>5. CASE UNCHANGED allVars
    BY <1>1, <2>5 DEF allVars, vars
  <2>. QED
    BY <1>1, <2>2, <2>3, <2>4, <2>5 DEF SelectionNext, SelectionStep
<1>. QED
  BY <1>1, <1>2, <1>3 DEF Holds, Ok

LEMMA InvMatches == IInv => StacksMatchFrames
<1>1. CASE Failed(vm)
  <2>1. Finished /\ Frame.CallState = "Failed"
    BY <1>1 DEF Failed, FailedFrame, CallFrame, Frame, Finished, Last
  <2>. QED
    BY <2>1 DEF StacksMatchFrames
<1>2. CASE Good(vm, task)
  BY <1>2, GoodMatches
<1>. QED
  BY <1>1, <1>2 DEF IInv, Holds, Ok

\* Whatever the tasks, and whatever fails on the way, every stack of the
\* interpreter is as high as the methods that are being called need it to be.
THEOREM StacksMatchFramesHolds == SelectionSpec => []StacksMatchFrames
<1>1. SelectionInit => IInv
  BY InitOk
<1>2. IInv /\ [SelectionNext]_allVars => IInv'
  BY NextOk
<1>3. IInv => StacksMatchFrames
  BY InvMatches
<1>. QED
  BY <1>1, <1>2, <1>3, PTL DEF SelectionSpec
=============================================================================
