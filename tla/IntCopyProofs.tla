--------------------------- MODULE IntCopyProofs ---------------------------
(***************************************************************************)
(* Theorems about a pass over an integer stream (modules IntStream and     *)
(* IntCopy), for every number of values and of blocks, nested as deep as   *)
(* the writer likes.                                                       *)
(*                                                                         *)
(* They hold when no block ends right behind an empty one (EmptyAtEnd is   *)
(* FALSE): the reader cannot tell on which side of that end the empty      *)
(* block belongs.                                                          *)
(***************************************************************************)
EXTENDS IntCopy, SequenceTheorems, TLAPS

Event  == Value \cup {"enter", "exit", "eof"}
Block  == [BeginIndex : Nat, EndIndex : Nat]
Stream == [Header : Seq(HeaderValue), Values : Seq(Value), TopEnd : Nat,
           Blocks : Seq(Block), isFrozen : BOOLEAN]

Opened == Len(stream.Blocks)
Calls  == Len(written)

---------------------------------------------------------------------------
(***************************************************************************)
(* The writer.  After k of its calls it was at idx[k], the blocks enc[k]   *)
(* were open, and opn[k] blocks had been opened.                           *)
(***************************************************************************)

\* How a call moved the writer.
Stepped(idx, enc, opn, k) ==
  /\ written[k] \in Value =>
       idx[k] = idx[k-1] + 1 /\ enc[k] = enc[k-1] /\ opn[k] = opn[k-1]
  /\ written[k] \notin Value => idx[k] = idx[k-1]
  /\ written[k] = "enter" =>
       enc[k] = Append(enc[k-1], opn[k-1] + 1) /\ opn[k] = opn[k-1] + 1
  /\ written[k] = "exit" =>
       Len(enc[k-1]) > 1 /\ enc[k] = Front(enc[k-1]) /\ opn[k] = opn[k-1]
  /\ written[k] = "eof" =>
       /\ k = Calls /\ stream.isFrozen
       /\ Len(enc[k-1]) = 1 /\ enc[k] = enc[k-1] /\ opn[k] = opn[k-1]

\* Blocks are opened in the order of their names: of n blocks, those in e are
\* open.
Nested(e, n) ==
  /\ Len(e) >= 1 /\ e[1] = TopBlock
  /\ \A i \in 1 .. Len(e) : e[i] <= n
  /\ \A i, j \in 1 .. Len(e) : i < j => e[i] < e[j]

\* Where it was.
Placed(idx, enc, opn, k) ==
  /\ idx[k] <= idx[Calls] /\ opn[k] <= Opened
  /\ Nested(enc[k], opn[k])
  /\ \A b \in opn[k] + 1 .. Opened : idx[k] <= getBeginIndex(stream, b)

\* What the call left in the stream.
Kept(idx, enc, opn, k) ==
  /\ written[k] \in Value => stream.Values[idx[k]] = written[k]
  /\ written[k] = "enter" => getBeginIndex(stream, opn[k]) = idx[k-1]
  /\ written[k] = "exit" => getEndIndex(stream, Last(enc[k-1])) = idx[k-1]
  /\ written[k] = "eof" => stream.TopEnd = idx[k-1]
  /\ written[k] \in Value \cup {"enter"} => idx[k-1] < getEndIndex(stream, Last(enc[k-1]))

TypeOK ==
  /\ stream \in Stream
  /\ wpos \in [Index : Nat, EnclosingBlocks : Seq(Nat)]
  /\ written \in Seq(Event)

Positions(idx, enc, opn) ==
  /\ idx \in [0 .. Calls -> Nat]
  /\ enc \in [0 .. Calls -> Seq(Nat)]
  /\ opn \in [0 .. Calls -> Nat]
  /\ idx[0] = 0 /\ enc[0] = << TopBlock >> /\ opn[0] = 0
  /\ \A k \in 1 .. Calls : Stepped(idx, enc, opn, k)
  /\ \A k \in 0 .. Calls : Placed(idx, enc, opn, k)

\* The writer is at the last position; a block has no end while it is open.
AtLast(idx, enc, opn) ==
  /\ wpos.Index = idx[Calls] /\ wpos.EnclosingBlocks = enc[Calls]
  /\ Len(stream.Values) = idx[Calls] /\ Opened = opn[Calls]
  /\ idx[Calls] <= MaxEvents
  /\ ~stream.isFrozen =>
       /\ idx[Calls] <= Calls /\ Calls <= MaxEvents
       /\ \A i \in 1 .. Len(enc[Calls]) : getEndIndex(stream, enc[Calls][i]) = MaxIndex
  /\ stream.isFrozen => Calls > 0 /\ written[Calls] = "eof"

WriterInv(idx, enc, opn) ==
  /\ Positions(idx, enc, opn)
  /\ AtLast(idx, enc, opn)
  /\ \A k \in 1 .. Calls : Kept(idx, enc, opn, k)

---------------------------------------------------------------------------
(***************************************************************************)
(* The reader, after the first j calls have been made again, is where the  *)
(* writer was then, and the stacks of the interpreter hold a frame and an  *)
(* end for each block around it.                                           *)
(***************************************************************************)
ExitFile == [CallMethod |-> "GetFile", CallState |-> "Exit"]
InBlock(state)  == [CallMethod |-> "ReadIntBlock", CallState |-> state]
InValues(state) == [CallMethod |-> "ReadIntValues", CallState |-> state]

\* The first n calls on the Writer of the pass are those that wrote the stream.
Copied(n) == n <= Calls /\ \A i \in 1 .. n : copied[i] = written[i]

Frames(n) ==
  /\ FrameStack[1] = Started /\ FrameStack[2] = ExitFile
  /\ \A i \in 3 .. n : FrameStack[i] = InBlock("Step3")

Ends(e, n) == \A i \in 1 .. n : LocalValues[i] = getEndIndex(stream, e[i])

\* The method that reads a block around which d - 1 others are open.
ReadsBlock(state, e, d) ==
  /\ Frame = InBlock(state)
  /\ Len(FrameStack) = d + 1 /\ Frames(d + 1)
  /\ Len(LocalValues) = d /\ Ends(e, d)

BlockAhead  == Pos.NextBlock <= Opened /\ getBeginIndex(stream, Pos.NextBlock) < getEndIndex(stream, Last(Pos.EnclosingBlocks))

\* The method that reads values, up to the next block or to the end of this.
ReadsValues(state, e, d) ==
  /\ Frame = InValues(state)
  /\ Len(FrameStack) = d + 2 /\ Frames(d + 1)
  /\ Len(LocalValues) = d + 1 /\ Ends(e, d)
  /\ Pos.Index <= LocalValues[d + 1]
  /\ \/ /\ BlockAhead /\ FrameStack[d + 2] = InBlock("Step2")
        /\ LocalValues[d + 1] = getBeginIndex(stream, Pos.NextBlock)
     \/ /\ ~BlockAhead /\ FrameStack[d + 2] = InBlock("Exit")
        /\ LocalValues[d + 1] = getEndIndex(stream, Last(Pos.EnclosingBlocks))

AtEndOfBlock == Pos.Index = getEndIndex(stream, Last(Pos.EnclosingBlocks))

\* The methods that are active before the end of the stream is passed on.
Midway(e, d) ==
  \/ Frame = ExitFile /\ FrameStack = << Started >> /\ LocalValues = << >>
     /\ d = 1 /\ AtEndOfBlock
  \/ ReadsBlock("Enter", e, d)
  \/ ReadsBlock("Loop", e, d)
  \/ ReadsBlock("Step2", e, d) /\ BlockAhead /\ Pos.Index = getBeginIndex(stream, Pos.NextBlock)
  \/ ReadsBlock("Exit", e, d) /\ AtEndOfBlock
  \/ /\ Frame = InBlock("Step3") /\ d > 1 /\ AtEndOfBlock
     /\ Len(FrameStack) = d /\ Frames(d)
     /\ Len(LocalValues) = d - 1 /\ Ends(e, d - 1)
  \/ ReadsValues("Enter", e, d)
  \/ ReadsValues("Loop", e, d)
  \/ ReadsValues("Exit", e, d) /\ Pos.Index = LocalValues[d + 1]

\* What a method that calls another one leaves on FrameStack.
CallFrame == {Started, ExitFile, InBlock("Step2"), InBlock("Step3"), InBlock("Exit")}

ReaderTypeOK ==
  /\ Pos \in [Index : Nat, EnclosingBlocks : Seq(Nat), NextBlock : Nat, EndBlocks : Nat]
  /\ FrameStack \in Seq(CallFrame)
  /\ LocalValues \in Seq(Nat)
  /\ copied \in Seq(Event \cup {"refused"})
  /\ header \in Seq(HeaderValue)

NotStarted ==
  /\ Pos = NoReader /\ Frame = Started /\ FrameStack = << >> /\ LocalValues = << >>
  /\ copied = << >> /\ header = << >>

Begun ==
  /\ stream.isFrozen
  /\ Pos.EndBlocks = Opened + 1

\* j calls have been made again.
Reached(j, idx, enc, opn) ==
  /\ Begun /\ Len(copied) = j /\ Copied(j)
  /\ Pos.Index = idx[j] /\ Pos.EnclosingBlocks = enc[j] /\ Pos.NextBlock = opn[j] + 1

Beginning(j) ==
  /\ Frame = [CallMethod |-> "GetFile", CallState |-> "Enter"]
  /\ FrameStack = << Started >> /\ LocalValues = << >>
  /\ j = 0 /\ header = << >>

Ended(j) ==
  /\ Frame \in {Started, [CallMethod |-> "Finished", CallState |-> "Succeeded"]}
  /\ FrameStack = << >> /\ LocalValues = << >>
  /\ j = Calls /\ header = stream.Header

Passing(j, idx, enc, opn) ==
  /\ Reached(j, idx, enc, opn)
  /\ \/ Beginning(j)
     \/ Midway(enc[j], Len(enc[j])) /\ j < Calls /\ header = stream.Header
     \/ Ended(j)

GivenUp ==
  /\ Begun
  /\ \/ /\ Frame = [CallMethod |-> "Finished", CallState |-> "Failed"]
        /\ FrameStack = << >> /\ LocalValues = << >>
     \/ Frame = Exited
  /\ Refused /\ Copied(Len(copied) - 1)

ReaderInv(idx, enc, opn) ==
  /\ ReaderTypeOK
  /\ NotStarted \/ GivenUp \/ \E j \in 0 .. Calls : Passing(j, idx, enc, opn)

IInv == TypeOK /\ \E idx, enc, opn : WriterInv(idx, enc, opn) /\ ReaderInv(idx, enc, opn)

---------------------------------------------------------------------------
\* Lemmas about sequences.

LEMMA LastOf ==
  ASSUME NEW S, NEW q \in Seq(S), Len(q) >= 1
  PROVE  /\ Len(q) \in Nat /\ Len(q) \in 1 .. Len(q)
         /\ Last(q) = q[Len(q)] /\ Last(q) \in S
BY DEF Last

LEMMA FrontOf ==
  ASSUME NEW S, NEW q \in Seq(S), Len(q) >= 1
  PROVE  /\ Front(q) \in Seq(S) /\ Len(Front(q)) = Len(q) - 1
         /\ \A i \in 1 .. Len(q) - 1 : Front(q)[i] = q[i]
<1>. DEFINE n == Len(q) - 1
<1>1. n \in Nat /\ 1 \in Int /\ n \in Int /\ \A i \in 1 .. n : q[i] \in S
  OBVIOUS
<1>. HIDE DEF n
<1>2. /\ SubSeq(q, 1, n) \in Seq(S)
      /\ Len(SubSeq(q, 1, n)) = IF 1 <= n THEN n - 1 + 1 ELSE 0
      /\ \A i \in 1 .. n - 1 + 1 : SubSeq(q, 1, n)[i] = q[1 + i - 1]
  BY <1>1, SubSeqProperties, Z3
<1>3. Len(SubSeq(q, 1, n)) = n /\ \A i \in 1 .. n : SubSeq(q, 1, n)[i] = q[i]
  BY <1>1, <1>2
<1>. QED
  BY <1>2, <1>3 DEF Front, n

LEMMA AppendOf ==
  ASSUME NEW S, NEW q \in Seq(S), NEW v \in S
  PROVE  /\ Append(q, v) \in Seq(S) /\ Len(Append(q, v)) = Len(q) + 1
         /\ \A i \in 1 .. Len(q) : Append(q, v)[i] = q[i]
         /\ Append(q, v)[Len(q) + 1] = v
OBVIOUS

LEMMA ShortSequences ==
  ASSUME NEW S, NEW q \in Seq(S)
  PROVE  (Len(q) = 0 => q = << >>) /\ (Len(q) = 1 => q = << q[1] >>)
OBVIOUS

LEMMA ByElements ==
  ASSUME NEW S, NEW q \in Seq(S), NEW n, n = Len(q)
  PROVE  q = [i \in 1 .. n |-> q[i]]
OBVIOUS

\* A block that is opened goes on top of those that are open.
LEMMA NestedAppend ==
  ASSUME NEW n \in Nat, NEW e \in Seq(Nat), Nested(e, n)
  PROVE  Nested(Append(e, n + 1), n + 1)
<1>. DEFINE d == Append(e, n + 1)
<1>1. /\ d \in Seq(Nat) /\ Len(d) = Len(e) + 1 /\ d[Len(e) + 1] = n + 1
      /\ \A i \in 1 .. Len(e) : d[i] = e[i]
  BY AppendOf
<1>. HIDE DEF d
<1>2. Len(e) \in Nat /\ \A i \in 1 .. Len(e) : e[i] \in Nat /\ e[i] <= n
  BY DEF Nested
<1>3. \A i \in 1 .. Len(d) : i \in 1 .. Len(e) \/ i = Len(e) + 1
  BY <1>1, <1>2
<1>4. Len(d) >= 1 /\ d[1] = TopBlock
  BY <1>1, <1>2 DEF Nested
<1>5. ASSUME NEW i \in 1 .. Len(d) PROVE d[i] <= n + 1
  <2>1. CASE i \in 1 .. Len(e)
    <3>1. d[i] = e[i] /\ e[i] \in Nat /\ e[i] <= n
      BY <2>1, <1>1, <1>2
    <3>. QED
      BY <3>1
  <2>2. CASE i = Len(e) + 1
    BY <2>2, <1>1
  <2>. QED
    BY <2>1, <2>2, <1>3
<1>6. ASSUME NEW i \in 1 .. Len(d), NEW j \in 1 .. Len(d), i < j
      PROVE  d[i] < d[j]
  <2>1. i \in 1 .. Len(e)
    BY <1>1, <1>2, <1>6
  <2>2. CASE j = Len(e) + 1
    <3>1. d[i] = e[i] /\ e[i] \in Nat /\ e[i] <= n
      BY <2>1, <1>1, <1>2
    <3>2. d[j] = n + 1
      BY <2>2, <1>1
    <3>. QED
      BY <3>1, <3>2
  <2>3. CASE j \in 1 .. Len(e)
    BY <2>1, <2>3, <1>1, <1>6 DEF Nested
  <2>. QED
    BY <2>2, <2>3, <1>3
<1>7. Nested(d, n + 1)
  BY <1>4, <1>5, <1>6 DEF Nested
<1>. QED
  BY <1>7 DEF d

\* The one that is closed was opened last.
LEMMA NestedFront ==
  ASSUME NEW n \in Nat, NEW e \in Seq(Nat), Nested(e, n), Len(e) > 1
  PROVE  Nested(Front(e), n) /\ \A i \in 1 .. Len(e) - 1 : Front(e)[i] < Last(e)
<1>1. Len(e) \in Nat
  OBVIOUS
<1>2. /\ Len(Front(e)) = Len(e) - 1
      /\ \A i \in 1 .. Len(e) - 1 : Front(e)[i] = e[i]
  BY <1>1, FrontOf
<1>. QED
  BY <1>1, <1>2 DEF Nested, Last

---------------------------------------------------------------------------
(***************************************************************************)
(* The writer keeps its part of the invariant.                             *)
(***************************************************************************)

\* How the position may move with a call.
Moves(e) ==
  /\ e \in Value => /\ wpos'.Index = wpos.Index + 1 /\ Opened' = Opened
                    /\ wpos'.EnclosingBlocks = wpos.EnclosingBlocks
                    /\ stream'.Values[wpos.Index + 1] = e
  /\ e \notin Value => wpos'.Index = wpos.Index
  /\ e = "enter" => /\ Opened' = Opened + 1
                    /\ wpos'.EnclosingBlocks = Append(wpos.EnclosingBlocks, Opened + 1)
                    /\ getBeginIndex(stream', Opened + 1) = wpos.Index /\ getEndIndex(stream', Opened + 1) = MaxIndex
  /\ e = "exit"  => /\ Len(wpos.EnclosingBlocks) > 1 /\ Opened' = Opened
                    /\ wpos'.EnclosingBlocks = Front(wpos.EnclosingBlocks)
                    /\ getEndIndex(stream', Last(wpos.EnclosingBlocks)) = wpos.Index
  /\ e = "eof"   => /\ Len(wpos.EnclosingBlocks) = 1 /\ Opened' = Opened
                    /\ wpos'.EnclosingBlocks = wpos.EnclosingBlocks
                    /\ stream'.TopEnd = wpos.Index
  /\ stream'.isFrozen <=> e = "eof"

\* What else a call does to the stream: it gives an end to the innermost block
\* at most.
Appends(e) ==
  /\ Len(stream'.Values) = wpos'.Index
  /\ \A i \in 1 .. Len(stream.Values) : stream'.Values[i] = stream.Values[i]
  /\ \A b \in 1 .. Opened : getBeginIndex(stream', b) = getBeginIndex(stream, b)
  /\ \A b \in 0 .. Opened :
       \/ getEndIndex(stream', b) = getEndIndex(stream, b)
       \/ /\ e \in {"exit", "eof"} /\ b = Last(wpos.EnclosingBlocks)
          /\ getEndIndex(stream', b) = wpos.Index
  /\ e \in {"exit", "eof"} =>
       \A b \in Last(wpos.EnclosingBlocks) + 1 .. Opened : getBeginIndex(stream, b) < wpos.Index

\* A call that moves the writer, and changes the stream, as it may adds a
\* position to those the invariant knows of.
LEMMA Extend ==
  ASSUME NEW idx, NEW enc, NEW opn, NEW e \in Event,
         TypeOK, TypeOK', WriterInv(idx, enc, opn), ~stream.isFrozen, ~EmptyAtEnd,
         Calls < MaxEvents \/ e = "eof",
         written' = Append(written, e), Moves(e), Appends(e)
  PROVE  \E i, c, o : WriterInv(i, c, o)'
<1>n. PICK n : n = Calls
  OBVIOUS
<1>0. n \in Nat /\ MaxEvents \in Nat /\ MaxIndex \in Nat /\ MaxEvents < MaxIndex
  BY <1>n, IntCopyAssumption, IntStreamAssumption DEF TypeOK, Calls
<1>1. /\ Calls' = n + 1 /\ written'[n + 1] = e
      /\ \A k \in 1 .. n : written'[k] = written[k]
  BY <1>n DEF TypeOK, Calls
<1>2. Opened \in Nat /\ Opened' \in Nat /\ wpos.Index \in Nat /\ wpos'.Index \in Nat
  BY DEF TypeOK, Opened, Stream
<1>s. /\ wpos.EnclosingBlocks \in Seq(Nat) /\ wpos'.EnclosingBlocks \in Seq(Nat)
      /\ Len(wpos.EnclosingBlocks) \in Nat
      /\ stream.Values \in Seq(Value) /\ stream'.Values \in Seq(Value)
  BY DEF TypeOK, Opened, Stream
<1>3. /\ idx[n] = wpos.Index /\ opn[n] = Opened
      /\ Len(stream.Values) = wpos.Index
      /\ wpos.Index <= n /\ n <= MaxEvents
  BY <1>n DEF WriterInv, AtLast
<1>e. /\ enc[n] = wpos.EnclosingBlocks
      /\ \A i \in 1 .. Len(wpos.EnclosingBlocks) : getEndIndex(stream, wpos.EnclosingBlocks[i]) = MaxIndex
  BY <1>n DEF WriterInv, AtLast
<1>4. /\ idx \in [0 .. n -> Nat] /\ enc \in [0 .. n -> Seq(Nat)] /\ opn \in [0 .. n -> Nat]
      /\ idx[0] = 0 /\ enc[0] = << TopBlock >> /\ opn[0] = 0
  BY <1>n DEF WriterInv, Positions
<1>5. \A k \in 1 .. n : Stepped(idx, enc, opn, k) /\ Kept(idx, enc, opn, k)
  BY <1>n DEF WriterInv, Positions
<1>6. \A k \in 0 .. n : Placed(idx, enc, opn, k)
  BY <1>n DEF WriterInv, Positions
<1>x. PICK x, y, z :
        /\ x = [k \in 0 .. n + 1 |-> IF k = n + 1 THEN wpos'.Index ELSE idx[k]]
        /\ y = [k \in 0 .. n + 1 |-> IF k = n + 1 THEN wpos'.EnclosingBlocks ELSE enc[k]]
        /\ z = [k \in 0 .. n + 1 |-> IF k = n + 1 THEN Opened' ELSE opn[k]]
  OBVIOUS
<1>t. /\ x \in [0 .. n + 1 -> Nat] /\ y \in [0 .. n + 1 -> Seq(Nat)]
      /\ z \in [0 .. n + 1 -> Nat]
  <2>1. x \in [0 .. n + 1 -> Nat]
    BY <1>0, <1>2, <1>4, <1>x
  <2>2. y \in [0 .. n + 1 -> Seq(Nat)]
    BY <1>0, <1>s, <1>4, <1>x
  <2>3. z \in [0 .. n + 1 -> Nat]
    BY <1>0, <1>2, <1>4, <1>x
  <2>. QED
    BY <2>1, <2>2, <2>3
<1>f. Nested(wpos.EnclosingBlocks, Opened)
  <2>1. Placed(idx, enc, opn, n)
    BY <1>0, <1>6
  <2>. QED
    BY <2>1, <1>3, <1>e DEF Placed
<1>l. /\ Last(wpos.EnclosingBlocks) \in 0 .. Opened
      /\ getEndIndex(stream, Last(wpos.EnclosingBlocks)) = MaxIndex
  <2>1. Len(wpos.EnclosingBlocks) >= 1
    BY <1>f DEF Nested
  <2>2. /\ Last(wpos.EnclosingBlocks) \in Nat
        /\ Last(wpos.EnclosingBlocks) = wpos.EnclosingBlocks[Len(wpos.EnclosingBlocks)]
        /\ Len(wpos.EnclosingBlocks) \in 1 .. Len(wpos.EnclosingBlocks)
    BY <2>1, <1>s, LastOf
  <2>3. Last(wpos.EnclosingBlocks) <= Opened
    BY <2>2, <1>f DEF Nested
  <2>4. getEndIndex(stream, Last(wpos.EnclosingBlocks)) = MaxIndex
    BY <2>2, <1>e
  <2>. QED
    BY <2>2, <2>3, <2>4, <1>2
<1>g. ASSUME NEW i \in 1 .. Len(wpos.EnclosingBlocks)
      PROVE  wpos.EnclosingBlocks[i] \in 0 .. Opened
  <2>1. wpos.EnclosingBlocks[i] \in Nat
    BY <1>s
  <2>2. wpos.EnclosingBlocks[i] <= Opened
    BY <1>f DEF Nested
  <2>. QED
    BY <2>1, <2>2, <1>2
<1>7. /\ x[n + 1] = wpos'.Index /\ y[n + 1] = wpos'.EnclosingBlocks /\ z[n + 1] = Opened'
      /\ \A k \in 0 .. n : x[k] = idx[k] /\ y[k] = enc[k] /\ z[k] = opn[k]
  BY <1>0, <1>x
<1>8. \A k \in 1 .. n + 1 : Stepped(x, y, z, k)'
  <2>1. ASSUME NEW k \in 1 .. n PROVE Stepped(x, y, z, k)'
    <3>1. k - 1 \in 0 .. n /\ k \in 0 .. n
      BY <1>0
    <3>2. /\ x[k] = idx[k] /\ y[k] = enc[k] /\ z[k] = opn[k]
          /\ x[k-1] = idx[k-1] /\ y[k-1] = enc[k-1] /\ z[k-1] = opn[k-1]
      BY <3>1, <1>7
    <3>3. written'[k] = written[k] /\ written[k] # "eof" /\ Stepped(idx, enc, opn, k)
      BY <1>1, <1>5 DEF Stepped
    <3>. QED
      BY <3>2, <3>3 DEF Stepped
  <2>2. Stepped(x, y, z, n + 1)'
    <3>1. n \in 0 .. n /\ n + 1 - 1 = n
      BY <1>0
    <3>2. x[n] = wpos.Index /\ y[n] = wpos.EnclosingBlocks /\ z[n] = Opened
      BY <3>1, <1>3, <1>e, <1>7
    <3>3. /\ x[n + 1] = wpos'.Index /\ y[n + 1] = wpos'.EnclosingBlocks /\ z[n + 1] = Opened'
          /\ written'[n + 1] = e /\ Calls' = n + 1
      BY <1>1, <1>7
    <3>4. /\ e \in Value => x[n + 1] = x[n] + 1 /\ y[n + 1] = y[n] /\ z[n + 1] = z[n]
          /\ e \notin Value => x[n + 1] = x[n]
          /\ e = "enter" => y[n + 1] = Append(y[n], z[n] + 1) /\ z[n + 1] = z[n] + 1
          /\ e = "exit" => Len(y[n]) > 1 /\ y[n + 1] = Front(y[n]) /\ z[n + 1] = z[n]
          /\ e = "eof" => /\ Len(y[n]) = 1 /\ y[n + 1] = y[n] /\ z[n + 1] = z[n]
                         /\ stream'.isFrozen
      BY <3>2, <3>3, Zenon DEF Moves
    <3>. QED
      BY <3>1, <3>3, <3>4 DEF Stepped
  <2>. QED
    BY <1>0, <2>1, <2>2
<1>9. wpos.Index <= wpos'.Index /\ Opened <= Opened'
  BY <1>2 DEF Moves, Event
<1>b. Opened' = Opened \/ (Opened' = Opened + 1 /\ getBeginIndex(stream', Opened + 1) = wpos.Index)
  BY <1>2 DEF Moves, Event
<1>10. \A k \in 0 .. n + 1 : Placed(x, y, z, k)'
  <2>1. ASSUME NEW k \in 0 .. n PROVE Placed(x, y, z, k)'
    <3>1. Placed(idx, enc, opn, k)
      BY <1>6
    <3>2. idx[k] \in Nat /\ opn[k] \in Nat /\ n \in 0 .. n
      BY <1>0, <1>4
    <3>5. x[k] = idx[k] /\ y[k] = enc[k] /\ z[k] = opn[k] /\ x[n + 1] = wpos'.Index
      BY <1>7
    <3>6. /\ idx[k] <= wpos.Index /\ opn[k] <= Opened
          /\ \A b \in opn[k] + 1 .. Opened : idx[k] <= getBeginIndex(stream, b)
      BY <1>n, <3>1, <1>3 DEF Placed
    <3>3. x[k] <= x[n + 1] /\ z[k] <= Opened'
      BY <3>2, <3>5, <3>6, <1>2, <1>9
    <3>4. ASSUME NEW b \in z[k] + 1 .. Opened' PROVE x[k] <= getBeginIndex(stream', b)
      <4>0. b \in Nat /\ b >= opn[k] + 1 /\ b <= Opened' /\ b >= 1
        BY <3>2, <3>5, <1>2
      <4>1. CASE b <= Opened
        <5>1. b \in 1 .. Opened /\ b \in opn[k] + 1 .. Opened
          BY <4>0, <4>1, <3>2, <1>2
        <5>. QED
          BY <5>1, <3>5, <3>6 DEF Appends
      <4>2. CASE b = Opened + 1
        <5>1. Opened' = Opened + 1
          BY <4>0, <4>2, <1>2, <1>b
        <5>. QED
          BY <5>1, <4>2, <3>5, <3>6, <1>b, <1>2
      <4>. QED
        BY <4>0, <4>1, <4>2, <1>2, <1>b
    <3>. QED
      BY <3>1, <3>3, <3>4, <3>5, <1>1 DEF Placed
  <2>2. Placed(x, y, z, n + 1)'
    <3>2. Nested(wpos'.EnclosingBlocks, Opened')
      <4>1. CASE e = "enter"
        BY <4>1, <1>2, <1>s, <1>f, NestedAppend DEF Moves
      <4>2. CASE e = "exit"
        BY <4>2, <1>2, <1>s, <1>f, NestedFront DEF Moves
      <4>3. CASE e = "eof" \/ e \in Value
        BY <4>3, <1>f DEF Moves
      <4>. QED
        BY <4>1, <4>2, <4>3 DEF Event
    <3>. QED
      <4>1. Nested(y[n + 1], z[n + 1])
        BY <3>2, <1>7
      <4>2. x[n + 1] <= x[Calls'] /\ z[n + 1] <= Opened'
        BY <1>1, <1>2, <1>7
      <4>3. \A b \in z[n + 1] + 1 .. Opened' : x[n + 1] <= getBeginIndex(stream', b)
        <5>1. PICK m : m = Opened'
          OBVIOUS
        <5>2. z[n + 1] = m /\ m \in Nat
          BY <5>1, <1>2, <1>7
        <5>3. \A b \in z[n + 1] + 1 .. m : x[n + 1] <= getBeginIndex(stream', b)
          BY <5>2
        <5>. QED
          BY <5>1, <5>3
      <4>. QED
        BY <4>1, <4>2, <4>3 DEF Placed
  <2>. QED
    BY <1>0, <2>1, <2>2
<1>11. \A k \in 1 .. n + 1 : Kept(x, y, z, k)'
  <2>1. ASSUME NEW k \in 1 .. n PROVE Kept(x, y, z, k)'
    <3>. DEFINE b == Last(enc[k-1])
    <3>1. /\ k - 1 \in 0 .. n /\ k \in 0 .. n
          /\ idx[k] \in Nat /\ idx[k-1] \in Nat /\ opn[k] \in Nat /\ opn[k-1] \in Nat
          /\ enc[k-1] \in Seq(Nat)
      <4>1. k - 1 \in 0 .. n /\ k \in 0 .. n
        BY <1>0
      <4>. QED
        BY <4>1, <1>4
    <3>2. Kept(idx, enc, opn, k) /\ Stepped(idx, enc, opn, k)
      BY <1>5
    <3>3. Placed(idx, enc, opn, k) /\ Placed(idx, enc, opn, k - 1)
      BY <3>1, <1>6
    <3>4. b \in Nat /\ b <= opn[k-1] /\ b <= Opened
      <4>1. Nested(enc[k-1], opn[k-1]) /\ opn[k-1] <= Opened
        BY <3>3 DEF Placed
      <4>2. Len(enc[k-1]) >= 1
        BY <4>1 DEF Nested
      <4>3. b \in Nat /\ b <= opn[k-1]
        BY <4>1, <4>2, <3>1, LastOf DEF Nested
      <4>. QED
        BY <4>1, <4>3, <3>1, <1>2
    <3>5. idx[k] <= wpos.Index /\ idx[k-1] <= wpos.Index /\ wpos.Index < MaxIndex
      BY <1>n, <3>1, <3>3, <1>0, <1>2, <1>3 DEF Placed
    <3>6. written[k] \in Value => stream'.Values[idx[k]] = written[k]
      <4>1. written[k] \in Value => idx[k] \in 1 .. Len(stream.Values)
        BY <3>1, <3>2, <3>5, <1>2, <1>3 DEF Stepped
      <4>. QED
        BY <4>1, <3>2 DEF Kept, Appends
    <3>7. written[k] = "enter" => getBeginIndex(stream', opn[k]) = idx[k-1]
      <4>1. written[k] = "enter" => opn[k] \in 1 .. Opened
        BY <3>1, <3>2, <3>3, <1>2 DEF Stepped, Placed
      <4>. QED
        BY <4>1, <3>2 DEF Kept, Appends
    <3>8. written[k] = "exit" => getEndIndex(stream', b) = idx[k-1]
      <4>1. ASSUME written[k] = "exit" PROVE getEndIndex(stream', b) = getEndIndex(stream, b)
        <5>1. getEndIndex(stream, b) # MaxIndex
          BY <4>1, <3>1, <3>2, <3>5, <1>0, <1>2 DEF Kept
        <5>3. b # Last(wpos.EnclosingBlocks)
          BY <5>1, <1>l
        <5>. QED
          BY <5>3, <3>4, <1>2 DEF Appends
      <4>. QED
        BY <4>1, <3>2 DEF Kept
    <3>9. written[k] # "eof"
      BY <3>2 DEF Stepped
    <3>10. ASSUME written[k] \in Value \cup {"enter"} PROVE idx[k-1] < getEndIndex(stream', b)
      <4>1. CASE getEndIndex(stream', b) = getEndIndex(stream, b)
        BY <3>10, <4>1, <3>2 DEF Kept
      <4>2. CASE /\ e \in {"exit", "eof"} /\ b = Last(wpos.EnclosingBlocks)
                 /\ getEndIndex(stream', b) = wpos.Index
        <5>1. CASE written[k] \in Value
          BY <4>2, <5>1, <3>1, <3>2, <3>5, <1>2 DEF Stepped
        <5>2. CASE written[k] = "enter"
          <6>1. opn[k] \in b + 1 .. Opened
            <7>1. opn[k] = opn[k-1] + 1 /\ opn[k] <= Opened
              BY <5>2, <3>2, <3>3 DEF Stepped, Placed
            <7>. QED
              BY <7>1, <3>1, <3>4, <1>2
          <6>2. getBeginIndex(stream, opn[k]) < wpos.Index
            BY <6>1, <4>2 DEF Appends
          <6>. QED
            BY <6>2, <4>2, <5>2, <3>2 DEF Kept
        <5>. QED
          BY <5>1, <5>2, <3>10
      <4>. QED
        BY <4>1, <4>2, <3>4, <1>2 DEF Appends
    <3>. HIDE DEF b
    <3>11. /\ x[k] = idx[k] /\ x[k-1] = idx[k-1] /\ y[k-1] = enc[k-1] /\ z[k] = opn[k]
           /\ written'[k] = written[k]
      BY <3>1, <1>1, <1>7
    <3>. QED
      BY <3>6, <3>7, <3>8, <3>9, <3>10, <3>11 DEF Kept, b
  <2>2. Kept(x, y, z, n + 1)'
    <3>1. n \in 0 .. n /\ n + 1 - 1 = n
      BY <1>0
    <3>2. x[n] = wpos.Index /\ y[n] = wpos.EnclosingBlocks
      BY <3>1, <1>3, <1>e, <1>7
    <3>4. e \in Value \cup {"enter"} => getEndIndex(stream', Last(wpos.EnclosingBlocks)) = MaxIndex
      <4>1. e \in Value \cup {"enter"} => e \notin {"exit", "eof"}
        BY IntCopyAssumption
      <4>. QED
        BY <4>1, <1>l DEF Appends
    <3>5. e = "enter" => getBeginIndex(stream', Opened') = wpos.Index
      <4>1. ASSUME e = "enter" PROVE getBeginIndex(stream', Opened') = wpos.Index
        BY <4>1, Opened' = Opened + 1 DEF Moves
      <4>. QED
        BY <4>1
    <3>. QED
      BY <1>n, <3>1, <3>2, <3>4, <3>5, <1>0, <1>1, <1>2, <1>3, <1>7 DEF Kept, Moves
  <2>. QED
    BY <1>0, <2>1, <2>2
<1>12. AtLast(x, y, z)'
  <2>1. wpos'.Index <= MaxEvents /\ (~stream'.isFrozen => wpos'.Index <= n + 1 /\ n + 1 <= MaxEvents)
    BY <1>n, <1>0, <1>2, <1>3, IntCopyAssumption DEF Moves, Calls
  <2>2. ASSUME ~stream'.isFrozen, NEW i \in 1 .. Len(wpos'.EnclosingBlocks)
        PROVE  getEndIndex(stream', wpos'.EnclosingBlocks[i]) = MaxIndex
    <3>1. e # "eof"
      BY <2>2 DEF Moves
    <3>2. /\ \A b \in 0 .. Opened : e \in Value \cup {"enter"} =>
                getEndIndex(stream', b) = getEndIndex(stream, b)
          /\ \A b \in 0 .. Opened : b # Last(wpos.EnclosingBlocks) =>
                getEndIndex(stream', b) = getEndIndex(stream, b)
      BY IntCopyAssumption DEF Appends
    <3>3. CASE e = "enter"
      <4>1. /\ wpos'.EnclosingBlocks = Append(wpos.EnclosingBlocks, Opened + 1)
            /\ getEndIndex(stream', Opened + 1) = MaxIndex
        BY <3>3 DEF Moves
      <4>2. /\ Len(wpos'.EnclosingBlocks) = Len(wpos.EnclosingBlocks) + 1
            /\ \A l \in 1 .. Len(wpos.EnclosingBlocks) :
                 wpos'.EnclosingBlocks[l] = wpos.EnclosingBlocks[l]
            /\ wpos'.EnclosingBlocks[Len(wpos.EnclosingBlocks) + 1] = Opened + 1
        BY <4>1, <1>2, <1>s, AppendOf
      <4>3. i \in 1 .. Len(wpos.EnclosingBlocks) \/ i = Len(wpos.EnclosingBlocks) + 1
        BY <4>2, <1>s
      <4>. QED
        BY <4>1, <4>2, <4>3, <3>2, <3>3, <1>e, <1>g
    <3>4. CASE e = "exit"
      <4>1. Len(wpos.EnclosingBlocks) > 1 /\ wpos'.EnclosingBlocks = Front(wpos.EnclosingBlocks)
        BY <3>4 DEF Moves
      <4>2. Len(wpos.EnclosingBlocks) \in Nat
        BY <1>s
      <4>3. /\ i \in 1 .. Len(wpos.EnclosingBlocks) - 1
            /\ wpos'.EnclosingBlocks[i] = wpos.EnclosingBlocks[i]
        <5>1. /\ Len(wpos'.EnclosingBlocks) = Len(wpos.EnclosingBlocks) - 1
              /\ \A l \in 1 .. Len(wpos.EnclosingBlocks) - 1 :
                   wpos'.EnclosingBlocks[l] = wpos.EnclosingBlocks[l]
          <6>0. wpos.EnclosingBlocks \in Seq(Nat) /\ Len(wpos.EnclosingBlocks) >= 1
            BY <4>1, <4>2, <1>s
          <6>1. /\ Len(Front(wpos.EnclosingBlocks)) = Len(wpos.EnclosingBlocks) - 1
                /\ \A l \in 1 .. Len(wpos.EnclosingBlocks) - 1 :
                     Front(wpos.EnclosingBlocks)[l] = wpos.EnclosingBlocks[l]
            BY <6>0, FrontOf
          <6>. QED
            BY <6>1, <4>1
        <5>. QED
          BY <5>1, <4>2
      <4>4. wpos.EnclosingBlocks[i] \in Nat
        <5>1. i \in 1 .. Len(wpos.EnclosingBlocks)
          BY <4>2, <4>3
        <5>2. wpos.EnclosingBlocks \in Seq(Nat)
          BY <1>s
        <5>. QED
          BY <5>1, <5>2
      <4>5. wpos.EnclosingBlocks[i] # Last(wpos.EnclosingBlocks)
        <5>1. \A l \in 1 .. Len(wpos.EnclosingBlocks) - 1 :
                wpos'.EnclosingBlocks[l] < Last(wpos.EnclosingBlocks)
          BY <4>1, <1>2, <1>s, <1>f, NestedFront
        <5>. QED
          BY <5>1, <4>3, <4>4, <1>l, <1>2
      <4>. QED
        BY <4>2, <4>3, <4>5, <3>2, <1>e, <1>g
    <3>5. CASE e \in Value
      BY <3>2, <3>5, <1>e, <1>g DEF Moves
    <3>. QED
      BY <3>1, <3>3, <3>4, <3>5 DEF Event
  <2>3. stream'.isFrozen => e = "eof"
    BY DEF Moves
  <2>. QED
    BY <1>n, <2>1, <2>2, <2>3, <1>0, <1>1, <1>7 DEF AtLast, Appends
<1>13. Positions(x, y, z)'
  <2>1. 0 \in 0 .. n
    BY <1>0
  <2>. QED
    BY <2>1, <1>1, <1>4, <1>t, <1>7, <1>8, <1>10 DEF Positions
<1>. QED
  BY <1>1, <1>11, <1>12, <1>13 DEF WriterInv

\* The calls of the writer.
LEMMA TypeStep ==
  ASSUME TypeOK, NEW e \in Event, written' = Append(written, e), stream' \in Stream,
         wpos' \in [Index : Nat, EnclosingBlocks : Seq(Nat)]
  PROVE  TypeOK'
BY AppendOf DEF TypeOK

\* The calls of the writer, one by one.
LEMMA PutValue ==
  ASSUME TypeOK, NEW idx, NEW enc, NEW opn, WriterInv(idx, enc, opn),
         NEW v \in Value, WriteValue(v)
  PROVE  TypeOK' /\ Moves(v) /\ Appends(v)
<1>. DEFINE c == wpos.Index
<1>1. /\ stream' = [stream EXCEPT !.Values = Append(stream.Values, v)]
      /\ wpos' = [wpos EXCEPT !.Index = wpos.Index + 1]
      /\ written' = Append(written, v) /\ ~stream.isFrozen
  BY DEF WriteValue, MayWrite, Put, write
<1>2. /\ stream'.Values = Append(stream.Values, v) /\ stream'.Blocks = stream.Blocks
      /\ stream'.TopEnd = stream.TopEnd /\ stream'.isFrozen = stream.isFrozen
      /\ wpos'.Index = wpos.Index + 1 /\ wpos'.EnclosingBlocks = wpos.EnclosingBlocks
  BY <1>1 DEF TypeOK, Stream
<1>3. TypeOK'
  <2>1. Append(stream.Values, v) \in Seq(Value) /\ wpos.Index + 1 \in Nat
    BY AppendOf DEF TypeOK, Stream
  <2>2. stream' \in Stream
    BY <2>1, <1>1 DEF TypeOK, Stream
  <2>3. wpos' \in [Index : Nat, EnclosingBlocks : Seq(Nat)]
    BY <2>1, <1>1 DEF TypeOK
  <2>. QED
    BY <2>2, <2>3, <1>1, TypeStep DEF Event
<1>4. /\ \A b : getBeginIndex(stream', b) = getBeginIndex(stream, b)
      /\ \A b : getEndIndex(stream', b) = getEndIndex(stream, b)
  BY <1>2 DEF getBeginIndex, getEndIndex
<1>5. /\ stream.Values \in Seq(Value) /\ Len(stream.Values) = wpos.Index
      /\ v \notin {"enter", "exit", "eof"} /\ wpos.Index \in Nat
  BY IntCopyAssumption DEF TypeOK, Stream, WriterInv, AtLast
<1>6. /\ Len(stream'.Values) = wpos.Index + 1 /\ stream'.Values[wpos.Index + 1] = v
      /\ \A i \in 1 .. Len(stream.Values) : stream'.Values[i] = stream.Values[i]
  BY <1>2, <1>5
<1>7. Moves(v)
  BY <1>1, <1>2, <1>5, <1>6 DEF Moves, Opened
<1>8. Appends(v)
  BY <1>2, <1>4, <1>5, <1>6 DEF Appends
<1>. QED
  BY <1>3, <1>7, <1>8

LEMMA PutEnter ==
  ASSUME TypeOK, NEW idx, NEW enc, NEW opn, WriterInv(idx, enc, opn),
         WriteBlockEnter
  PROVE  TypeOK' /\ Moves("enter") /\ Appends("enter")
<1>. DEFINE new == [BeginIndex |-> wpos.Index, EndIndex |-> MaxIndex]
<1>1. /\ stream' = [stream EXCEPT !.Blocks = Append(stream.Blocks, new)]
      /\ wpos' = [wpos EXCEPT !.EnclosingBlocks = Append(wpos.EnclosingBlocks, Opened + 1)]
      /\ written' = Append(written, "enter") /\ ~stream.isFrozen
  BY DEF WriteBlockEnter, MayWrite, Put, openBlock, Opened
<1>2. /\ stream'.Blocks = Append(stream.Blocks, new) /\ stream'.Values = stream.Values
      /\ stream'.TopEnd = stream.TopEnd /\ stream'.isFrozen = stream.isFrozen
      /\ wpos'.Index = wpos.Index
      /\ wpos'.EnclosingBlocks = Append(wpos.EnclosingBlocks, Opened + 1)
  BY <1>1 DEF TypeOK, Stream
<1>3. /\ stream.Blocks \in Seq(Block) /\ new \in Block /\ Opened \in Nat
      /\ new.BeginIndex = wpos.Index /\ new.EndIndex = MaxIndex /\ wpos.Index \in Nat
      /\ Len(stream.Values) = wpos.Index /\ "enter" \notin Value
  BY IntCopyAssumption, IntStreamAssumption
     DEF TypeOK, Stream, Block, Opened, WriterInv, AtLast
<1>. HIDE DEF new
<1>4. /\ stream'.Blocks \in Seq(Block) /\ Opened' = Opened + 1
      /\ stream'.Blocks[Opened + 1] = new
      /\ \A b \in 1 .. Opened : stream'.Blocks[b] = stream.Blocks[b]
  BY <1>2, <1>3, AppendOf DEF Opened
<1>5. TypeOK'
  <2>1. stream' \in Stream
    BY <1>1, <1>2, <1>4 DEF TypeOK, Stream
  <2>2. Append(wpos.EnclosingBlocks, Opened + 1) \in Seq(Nat)
    BY <1>3 DEF TypeOK
  <2>3. wpos' \in [Index : Nat, EnclosingBlocks : Seq(Nat)]
    BY <2>2, <1>1 DEF TypeOK
  <2>. QED
    BY <2>1, <2>3, <1>1, TypeStep DEF Event
<1>6. /\ \A b \in 1 .. Opened : getBeginIndex(stream', b) = getBeginIndex(stream, b)
      /\ \A b \in 0 .. Opened : getEndIndex(stream', b) = getEndIndex(stream, b)
      /\ getBeginIndex(stream', Opened + 1) = wpos.Index
      /\ getEndIndex(stream', Opened + 1) = MaxIndex
  <2>1. \A b \in 1 .. Opened : getBeginIndex(stream', b) = getBeginIndex(stream, b)
    BY <1>3, <1>4 DEF getBeginIndex, TopBlock
  <2>2. \A b \in 1 .. Opened : getEndIndex(stream', b) = getEndIndex(stream, b)
    BY <1>3, <1>4 DEF getEndIndex, TopBlock
  <2>3. getEndIndex(stream', 0) = getEndIndex(stream, 0)
    BY <1>2 DEF getEndIndex, TopBlock
  <2>4. Opened + 1 # 0 /\ \A b \in 0 .. Opened : b = 0 \/ b \in 1 .. Opened
    BY <1>3
  <2>5. getBeginIndex(stream', Opened + 1) = wpos.Index
    BY <2>4, <1>3, <1>4 DEF getBeginIndex, TopBlock
  <2>6. getEndIndex(stream', Opened + 1) = MaxIndex
    BY <2>4, <1>3, <1>4 DEF getEndIndex, TopBlock
  <2>. QED
    BY <2>1, <2>2, <2>3, <2>4, <2>5, <2>6
<1>7. Moves("enter")
  BY <1>1, <1>2, <1>3, <1>4, <1>6 DEF Moves
<1>8. Appends("enter")
  BY <1>2, <1>3, <1>6 DEF Appends
<1>. QED
  BY <1>5, <1>7, <1>8

LEMMA PutExit ==
  ASSUME TypeOK, NEW idx, NEW enc, NEW opn, WriterInv(idx, enc, opn),
         ~EmptyAtEnd, WriteBlockExit
  PROVE  TypeOK' /\ Moves("exit") /\ Appends("exit")
<1>. DEFINE c == Last(wpos.EnclosingBlocks)
<1>1. /\ stream' = SetEnd(stream, c, wpos.Index)
      /\ wpos' = [wpos EXCEPT !.EnclosingBlocks = Front(wpos.EnclosingBlocks)]
      /\ written' = Append(written, "exit") /\ ~stream.isFrozen
      /\ Len(wpos.EnclosingBlocks) > 1
      /\ \A b \in c + 1 .. Opened : getBeginIndex(stream, b) < wpos.Index
  BY DEF WriteBlockExit, MayWrite, MayEnd, canClose, Put, closeBlock, Opened
<1>2. /\ wpos.EnclosingBlocks \in Seq(Nat) /\ Len(wpos.EnclosingBlocks) \in Nat
      /\ wpos.Index \in Nat /\ Opened \in Nat /\ stream.Blocks \in Seq(Block)
      /\ Len(stream.Values) = wpos.Index /\ "exit" \notin Value
  BY IntCopyAssumption DEF TypeOK, Stream, Opened, WriterInv, AtLast
<1>3. Nested(wpos.EnclosingBlocks, Opened)
  BY DEF WriterInv, Positions, Placed, AtLast, TypeOK, Calls
<1>4. c \in 1 .. Opened
  <2>1. /\ c \in Nat /\ c = wpos.EnclosingBlocks[Len(wpos.EnclosingBlocks)]
        /\ 1 \in 1 .. Len(wpos.EnclosingBlocks)
        /\ Len(wpos.EnclosingBlocks) \in 1 .. Len(wpos.EnclosingBlocks)
    BY <1>1, <1>2, LastOf
  <2>2. wpos.EnclosingBlocks[1] < c /\ c <= Opened /\ wpos.EnclosingBlocks[1] = 0
    BY <2>1, <1>1, <1>3 DEF Nested, TopBlock
  <2>. QED
    BY <2>1, <2>2, <1>2
<1>. HIDE DEF c
<1>5. /\ stream' = [stream EXCEPT !.Blocks =
                      [stream.Blocks EXCEPT ![c] = [stream.Blocks[c] EXCEPT !.EndIndex = wpos.Index]]]
      /\ c # 0
  BY <1>1, <1>2, <1>4 DEF SetEnd, TopBlock
<1>6. /\ stream'.Blocks =
           [stream.Blocks EXCEPT ![c] = [stream.Blocks[c] EXCEPT !.EndIndex = wpos.Index]]
      /\ stream'.Values = stream.Values
      /\ stream'.TopEnd = stream.TopEnd /\ stream'.isFrozen = stream.isFrozen
      /\ wpos'.Index = wpos.Index
      /\ wpos'.EnclosingBlocks = Front(wpos.EnclosingBlocks)
  BY <1>1, <1>5 DEF TypeOK, Stream
<1>7. /\ stream'.Blocks \in Seq(Block) /\ Opened' = Opened
      /\ \A b \in 1 .. Opened :
           /\ stream'.Blocks[b].BeginIndex = stream.Blocks[b].BeginIndex
           /\ b # c => stream'.Blocks[b] = stream.Blocks[b]
      /\ stream'.Blocks[c].EndIndex = wpos.Index
  <2>1. stream.Blocks[c] \in Block
    BY <1>2, <1>4 DEF Opened
  <2>. DEFINE closed == [stream.Blocks[c] EXCEPT !.EndIndex = wpos.Index]
  <2>2. /\ closed \in Block /\ closed.EndIndex = wpos.Index
        /\ closed.BeginIndex = stream.Blocks[c].BeginIndex
    BY <2>1, <1>2 DEF Block
  <2>. HIDE DEF closed
  <2>3. stream'.Blocks = [stream.Blocks EXCEPT ![c] = closed]
    BY <1>6 DEF closed
  <2>4. stream'.Blocks \in Seq(Block) /\ Opened' = Opened
    BY <2>2, <2>3, <1>2, <1>4 DEF Opened
  <2>5. \A b \in 1 .. Opened : stream'.Blocks[b] = IF b = c THEN closed ELSE stream.Blocks[b]
    BY <2>3, <1>2, <1>4 DEF Opened
  <2>. QED
    BY <2>2, <2>4, <2>5, <1>4
<1>8. TypeOK'
  <2>1. stream' \in Stream
    BY <1>5, <1>6, <1>7 DEF TypeOK, Stream
  <2>2. Front(wpos.EnclosingBlocks) \in Seq(Nat)
    BY <1>1, <1>2, FrontOf
  <2>3. wpos' \in [Index : Nat, EnclosingBlocks : Seq(Nat)]
    BY <2>2, <1>1 DEF TypeOK
  <2>. QED
    BY <2>1, <2>3, <1>1, TypeStep DEF Event
<1>9. /\ \A b \in 1 .. Opened : getBeginIndex(stream', b) = getBeginIndex(stream, b)
      /\ \A b \in 0 .. Opened : b # c => getEndIndex(stream', b) = getEndIndex(stream, b)
      /\ getEndIndex(stream', c) = wpos.Index
  BY <1>2, <1>4, <1>6, <1>7 DEF getBeginIndex, getEndIndex, TopBlock
<1>10. Moves("exit")
  BY <1>1, <1>2, <1>6, <1>7, <1>9 DEF Moves, c
<1>11. Appends("exit")
  BY <1>1, <1>2, <1>6, <1>9 DEF Appends, c
<1>. QED
  BY <1>8, <1>10, <1>11

LEMMA PutEof ==
  ASSUME TypeOK, NEW idx, NEW enc, NEW opn, WriterInv(idx, enc, opn),
         ~EmptyAtEnd, WriteFreezeEof
  PROVE  TypeOK' /\ Moves("eof") /\ Appends("eof")
<1>1. /\ stream' = freezeEof(stream, wpos) /\ wpos' = wpos
      /\ written' = Append(written, "eof") /\ ~stream.isFrozen
      /\ ~(Len(wpos.EnclosingBlocks) > 1)
      /\ \A b \in Last(wpos.EnclosingBlocks) + 1 .. Opened : getBeginIndex(stream, b) < wpos.Index
  BY DEF WriteFreezeEof, MayEnd, canClose, Put, Opened
<1>2. /\ wpos.EnclosingBlocks \in Seq(Nat) /\ Len(wpos.EnclosingBlocks) \in Nat
      /\ wpos.Index \in Nat /\ Opened \in Nat /\ stream.Blocks \in Seq(Block)
      /\ Len(stream.Values) = wpos.Index /\ "eof" \notin Value
  BY IntCopyAssumption DEF TypeOK, Stream, Opened, WriterInv, AtLast
<1>3. Nested(wpos.EnclosingBlocks, Opened)
  BY DEF WriterInv, Positions, Placed, AtLast, TypeOK, Calls
<1>4. /\ Len(wpos.EnclosingBlocks) = 1 /\ Last(wpos.EnclosingBlocks) = 0
      /\ Range(wpos.EnclosingBlocks) = {0}
  <2>1. Len(wpos.EnclosingBlocks) = 1 /\ wpos.EnclosingBlocks[1] = 0
    <3>1. Len(wpos.EnclosingBlocks) >= 1 /\ wpos.EnclosingBlocks[1] = 0
      BY <1>3 DEF Nested, TopBlock
    <3>2. ~(Len(wpos.EnclosingBlocks) > 1) /\ Len(wpos.EnclosingBlocks) \in Nat
      BY <1>1, <1>2, Zenon
    <3>3. Len(wpos.EnclosingBlocks) >= 1
      BY <3>1
    <3>4. Len(wpos.EnclosingBlocks) = 1
      <4>1. \A n \in Nat : n >= 1 /\ ~(n > 1) => n = 1
        OBVIOUS
      <4>. QED
        BY <4>1, <3>2, <3>3, Zenon
    <3>. QED
      BY <3>1, <3>4, Zenon
  <2>2. DOMAIN wpos.EnclosingBlocks = {1}
    BY <2>1, <1>2
  <2>. QED
    BY <2>1, <2>2 DEF Last, Range
<1>5. PICK frozen \in BOOLEAN : frozen = TRUE
  OBVIOUS
<1>6. PICK blocks :
        blocks = [b \in DOMAIN stream.Blocks |->
                    [BeginIndex |-> stream.Blocks[b].BeginIndex,
                     EndIndex |-> IF b \in Range(wpos.EnclosingBlocks) THEN Len(stream.Values)
                                  ELSE stream.Blocks[b].EndIndex]]
  OBVIOUS
<1>7. stream' = [stream EXCEPT !.isFrozen = frozen, !.TopEnd = Len(stream.Values),
                               !.Blocks = blocks]
  BY <1>1, <1>5, <1>6, Zenon DEF freezeEof
<1>8. blocks = stream.Blocks
  <2>1. DOMAIN stream.Blocks = 1 .. Opened
    BY <1>2 DEF Opened
  <2>2. \A b \in 1 .. Opened :
          [BeginIndex |-> stream.Blocks[b].BeginIndex, EndIndex |-> stream.Blocks[b].EndIndex]
             = stream.Blocks[b]
    <3>1. \A r \in Block : [BeginIndex |-> r.BeginIndex, EndIndex |-> r.EndIndex] = r
      BY DEF Block
    <3>2. \A b \in 1 .. Opened : stream.Blocks[b] \in Block
      BY <1>2 DEF Opened
    <3>. QED
      BY <3>1, <3>2
  <2>3. \A b \in 1 .. Opened : b \notin Range(wpos.EnclosingBlocks)
    BY <1>4
  <2>4. blocks = [b \in 1 .. Opened |-> stream.Blocks[b]]
    BY <2>1, <2>2, <2>3, <1>6
  <2>5. stream.Blocks \in Seq(Block) /\ Len(stream.Blocks) = Opened
    BY <1>2 DEF Opened
  <2>6. stream.Blocks = [b \in 1 .. Opened |-> stream.Blocks[b]]
    BY <2>5, ByElements
  <2>. QED
    BY <2>4, <2>6
<1>9. /\ stream' \in Stream
      /\ stream'.Values = stream.Values /\ stream'.Blocks = stream.Blocks
      /\ stream'.TopEnd = wpos.Index /\ stream'.isFrozen = frozen
  BY <1>2, <1>7, <1>8 DEF TypeOK, Stream
<1>10. TypeOK'
  BY <1>1, <1>9, TypeStep DEF TypeOK, Event
<1>11. /\ \A b : getBeginIndex(stream', b) = getBeginIndex(stream, b)
       /\ \A b : b # 0 => getEndIndex(stream', b) = getEndIndex(stream, b)
       /\ getEndIndex(stream', 0) = wpos.Index
  BY <1>9 DEF getBeginIndex, getEndIndex, TopBlock
<1>12. Moves("eof")
  BY <1>1, <1>2, <1>4, <1>5, <1>9 DEF Moves, Opened
<1>13. Appends("eof")
  BY <1>1, <1>2, <1>4, <1>9, <1>11 DEF Appends
<1>. QED
  BY <1>10, <1>12, <1>13

\* Every call of the writer keeps what is known of its positions.
LEMMA WriterStep ==
  ASSUME TypeOK, NEW idx, NEW enc, NEW opn, WriterInv(idx, enc, opn),
         ~EmptyAtEnd, Writing
  PROVE  /\ TypeOK' /\ \E i, c, o : WriterInv(i, c, o)'
         /\ ~stream.isFrozen /\ UNCHANGED rvars
<1>1. CASE \E v \in HeaderValue : WriteHeaderValue(v)
  <2>1. PICK v \in HeaderValue : WriteHeaderValue(v)
    BY <1>1
  <2>2. /\ stream' = [stream EXCEPT !.Header = Append(stream.Header, v)]
        /\ wpos' = wpos /\ written' = written /\ ~stream.isFrozen /\ UNCHANGED rvars
    BY <2>1 DEF WriteHeaderValue, MayWrite
  <2>3. stream.Header \in Seq(HeaderValue)
    BY DEF TypeOK, Stream
  <2>4. Append(stream.Header, v) \in Seq(HeaderValue)
    BY <2>3, AppendOf
  <2>5. stream' \in Stream
    BY <2>2, <2>4 DEF TypeOK, Stream
  <2>6. /\ stream'.Values = stream.Values /\ stream'.Blocks = stream.Blocks
        /\ stream'.TopEnd = stream.TopEnd /\ stream'.isFrozen = stream.isFrozen
    BY <2>2 DEF TypeOK, Stream
  <2>7. /\ \A b : getBeginIndex(stream', b) = getBeginIndex(stream, b)
        /\ \A b : getEndIndex(stream', b) = getEndIndex(stream, b)
    BY <2>6 DEF getBeginIndex, getEndIndex
  <2>8. TypeOK'
    BY <2>2, <2>5 DEF TypeOK
  <2>9. Calls' = Calls /\ Opened' = Opened
    BY <2>2, <2>6 DEF Calls, Opened
  <2>10. Positions(idx, enc, opn)'
    BY <2>2, <2>6, <2>7, <2>9 DEF WriterInv, Positions, Stepped, Placed
  <2>11. AtLast(idx, enc, opn)'
    BY <2>2, <2>6, <2>7, <2>9 DEF WriterInv, AtLast
  <2>12. \A k \in 1 .. Calls' : Kept(idx, enc, opn, k)'
    BY <2>2, <2>6, <2>7, <2>9 DEF WriterInv, Kept
  <2>. QED
    BY <2>2, <2>8, <2>10, <2>11, <2>12 DEF WriterInv
<1>2. CASE \E v \in Value : WriteValue(v)
  <2>1. PICK v \in Value : WriteValue(v)
    BY <1>2
  <2>2. TypeOK' /\ Moves(v) /\ Appends(v)
    BY <2>1, PutValue
  <2>3. /\ written' = Append(written, v) /\ v \in Event
        /\ ~stream.isFrozen /\ Calls < MaxEvents /\ UNCHANGED rvars
    BY <2>1 DEF WriteValue, MayWrite, Put, Calls, Event
  <2>. QED
    BY <2>2, <2>3, Extend
<1>3. CASE WriteBlockEnter
  <2>1. /\ written' = Append(written, "enter") /\ "enter" \in Event
        /\ ~stream.isFrozen /\ Calls < MaxEvents /\ UNCHANGED rvars
    BY <1>3 DEF WriteBlockEnter, MayWrite, Put, Calls, Event
  <2>2. TypeOK' /\ Moves("enter") /\ Appends("enter")
    BY <1>3, PutEnter
  <2>. QED
    BY <2>1, <2>2, Extend
<1>4. CASE WriteBlockExit
  <2>1. /\ written' = Append(written, "exit") /\ "exit" \in Event
        /\ ~stream.isFrozen /\ Calls < MaxEvents /\ UNCHANGED rvars
    BY <1>4 DEF WriteBlockExit, MayWrite, Put, Calls, Event
  <2>2. TypeOK' /\ Moves("exit") /\ Appends("exit")
    BY <1>4, PutExit
  <2>. QED
    BY <2>1, <2>2, Extend
<1>5. CASE WriteFreezeEof
  <2>1. /\ written' = Append(written, "eof") /\ "eof" \in Event
        /\ ~stream.isFrozen /\ UNCHANGED rvars
    BY <1>5 DEF WriteFreezeEof, Put, Event
  <2>2. TypeOK' /\ Moves("eof") /\ Appends("eof")
    BY <1>5, PutEof
  <2>. QED
    BY <2>1, <2>2, Extend
<1>. QED
  BY <1>1, <1>2, <1>3, <1>4, <1>5 DEF Writing

---------------------------------------------------------------------------
(***************************************************************************)
(* The reader.                                                             *)
(***************************************************************************)

\* Every block has a beginning and an end.
LEMMA IndexType ==
  ASSUME TypeOK, NEW b \in 0 .. Opened
  PROVE  getBeginIndex(stream, b) \in Nat /\ getEndIndex(stream, b) \in Nat
<1>1. CASE b = 0
  BY <1>1 DEF getBeginIndex, getEndIndex, TopBlock, TypeOK, Stream
<1>2. CASE b # 0
  <2>1. b \in 1 .. Len(stream.Blocks) /\ stream.Blocks \in Seq(Block)
    BY <1>2 DEF Opened, TypeOK, Stream
  <2>2. stream.Blocks[b] \in Block
    BY <2>1
  <2>. QED
    BY <1>2, <2>2 DEF getBeginIndex, getEndIndex, TopBlock, Block
<1>. QED
  BY <1>1, <1>2

\* The block that was innermost.
LEMMA Innermost ==
  ASSUME TypeOK, NEW idx, NEW enc, NEW opn, WriterInv(idx, enc, opn),
         NEW j \in 0 .. Calls
  PROVE  /\ Len(enc[j]) \in Nat /\ Len(enc[j]) >= 1 /\ enc[j][1] = 0
         /\ enc[j] \in Seq(Nat) /\ idx[j] \in Nat /\ opn[j] \in Nat /\ Opened \in Nat
         /\ Last(enc[j]) = enc[j][Len(enc[j])]
         /\ opn[j] <= Opened
         /\ \A i \in 1 .. Len(enc[j]) : enc[j][i] \in 0 .. Opened
         /\ getEndIndex(stream, Last(enc[j])) \in Nat
<1>1. /\ enc[j] \in Seq(Nat) /\ idx[j] \in Nat /\ opn[j] \in Nat /\ Opened \in Nat
  BY DEF WriterInv, Positions, TypeOK, Stream, Opened
<1>2. Nested(enc[j], opn[j]) /\ opn[j] <= Opened
  BY DEF WriterInv, Positions, Placed
<1>3. Len(enc[j]) \in Nat /\ Len(enc[j]) >= 1 /\ enc[j][1] = 0
  BY <1>1, <1>2 DEF Nested, TopBlock
<1>4. \A i \in 1 .. Len(enc[j]) : enc[j][i] \in 0 .. Opened
  BY <1>1, <1>2 DEF Nested
<1>5. Last(enc[j]) = enc[j][Len(enc[j])] /\ Last(enc[j]) \in 0 .. Opened
  BY <1>3, <1>4 DEF Last
<1>. QED
  BY <1>1, <1>2, <1>3, <1>4, <1>5, IndexType

\* What the stream tells of the call that comes next.
LEMMA NextCall ==
  ASSUME TypeOK, NEW idx, NEW enc, NEW opn, WriterInv(idx, enc, opn), stream.isFrozen,
         NEW j \in Nat, j < Calls
  PROVE  /\ written[j + 1] \in Event
         /\ written[j + 1] \in {"exit", "eof"} <=>
              idx[j] = getEndIndex(stream, Last(enc[j]))
         /\ idx[j] <= getEndIndex(stream, Last(enc[j]))
         /\ written[j + 1] = "enter" =>
              opn[j] + 1 <= Opened /\ getBeginIndex(stream, opn[j] + 1) = idx[j]
         /\ written[j + 1] \in Value =>
              /\ stream.Values[idx[j] + 1] = written[j + 1] /\ idx[j] < Len(stream.Values)
              /\ opn[j] + 1 <= Opened => idx[j] < getBeginIndex(stream, opn[j] + 1)
         /\ written[j + 1] = "eof" <=> j + 1 = Calls
         /\ Stepped(idx, enc, opn, j + 1)
         /\ opn[j] + 1 <= Opened => idx[j] <= getBeginIndex(stream, opn[j] + 1)
<1>1. /\ Calls \in Nat /\ j \in 0 .. Calls /\ j + 1 \in 1 .. Calls /\ j + 1 - 1 = j
      /\ j + 1 \in 0 .. Calls
  BY DEF TypeOK, Calls
<1>2. /\ idx[j] \in Nat /\ enc[j] \in Seq(Nat) /\ opn[j] \in Nat
      /\ idx[j + 1] \in Nat /\ opn[j + 1] \in Nat /\ idx[Calls] \in Nat
      /\ Opened \in Nat /\ getEndIndex(stream, Last(enc[j])) \in Nat
      /\ opn[j] + 1 <= Opened => getBeginIndex(stream, opn[j] + 1) \in Nat
  <2>1. /\ Calls \in 0 .. Calls
    BY <1>1
  <2>2. opn[j] + 1 <= Opened => opn[j] + 1 \in 0 .. Opened
    BY <1>1, Innermost
  <2>. QED
    BY <2>1, <2>2, <1>1, Innermost, IndexType
<1>3. Stepped(idx, enc, opn, j + 1) /\ Kept(idx, enc, opn, j + 1)
  BY <1>1 DEF WriterInv, Positions
<1>4. Placed(idx, enc, opn, j) /\ Placed(idx, enc, opn, j + 1)
  BY <1>1 DEF WriterInv, Positions
<1>5. written[j + 1] \in Event
  BY <1>1 DEF TypeOK, Calls
<1>6. Len(stream.Values) = idx[Calls] /\ written[Calls] = "eof"
  BY DEF WriterInv, AtLast
<1>7. written[j + 1] = "exit" => idx[j] = getEndIndex(stream, Last(enc[j]))
  BY <1>1, <1>3 DEF Kept
<1>8. written[j + 1] = "eof" => idx[j] = getEndIndex(stream, Last(enc[j]))
  <2>1. ASSUME written[j + 1] = "eof" PROVE Last(enc[j]) = TopBlock
    BY <2>1, <1>1, <1>2, <1>3, <1>4 DEF Stepped, Placed, Nested, Last
  <2>. QED
    BY <2>1, <1>1, <1>3 DEF Kept, getEndIndex
<1>9. written[j + 1] \in Value \cup {"enter"} => idx[j] < getEndIndex(stream, Last(enc[j]))
  BY <1>1, <1>3 DEF Kept
<1>10. /\ written[j + 1] \in {"exit", "eof"} <=>
              idx[j] = getEndIndex(stream, Last(enc[j]))
       /\ idx[j] <= getEndIndex(stream, Last(enc[j]))
  <2>1. CASE written[j + 1] \in {"exit", "eof"}
    BY <2>1, <1>2, <1>7, <1>8
  <2>2. CASE written[j + 1] \in Value \cup {"enter"}
    <3>1. written[j + 1] \notin {"exit", "eof"}
      BY <2>2, IntCopyAssumption
    <3>2. /\ idx[j] <= getEndIndex(stream, Last(enc[j]))
          /\ idx[j] # getEndIndex(stream, Last(enc[j]))
      BY <2>2, <1>2, <1>9
    <3>. QED
      BY <3>1, <3>2
  <2>. QED
    BY <2>1, <2>2, <1>5 DEF Event
<1>11. ASSUME written[j + 1] = "enter"
       PROVE  opn[j] + 1 <= Opened /\ getBeginIndex(stream, opn[j] + 1) = idx[j]
  BY <1>11, <1>1, <1>2, <1>3, <1>4 DEF Stepped, Kept, Placed
<1>12. ASSUME written[j + 1] \in Value
       PROVE  /\ stream.Values[idx[j] + 1] = written[j + 1] /\ idx[j] < Len(stream.Values)
              /\ opn[j] + 1 <= Opened => idx[j] < getBeginIndex(stream, opn[j] + 1)
  <2>1. idx[j + 1] = idx[j] + 1 /\ opn[j + 1] = opn[j] /\ idx[j + 1] <= idx[Calls]
    BY <1>12, <1>1, <1>3, <1>4 DEF Stepped, Placed
  <2>2. stream.Values[idx[j] + 1] = written[j + 1]
    BY <2>1, <1>12, <1>3 DEF Kept
  <2>3. idx[j] < Len(stream.Values)
    BY <2>1, <1>2, <1>6
  <2>4. ASSUME opn[j] + 1 <= Opened PROVE idx[j] < getBeginIndex(stream, opn[j] + 1)
    <3>1. idx[j + 1] <= getBeginIndex(stream, opn[j] + 1)
      BY <2>1, <2>4, <1>2, <1>4 DEF Placed
    <3>. QED
      BY <3>1, <2>1, <2>4, <1>2
  <2>. QED
    BY <2>2, <2>3, <2>4
<1>13. written[j + 1] = "eof" <=> j + 1 = Calls
  BY <1>3, <1>6 DEF Stepped
<1>14. opn[j] + 1 <= Opened => idx[j] <= getBeginIndex(stream, opn[j] + 1)
  BY <1>2, <1>4 DEF Placed
<1>. QED
  BY <1>3, <1>5, <1>10, <1>11, <1>12, <1>13, <1>14

\* Where the interpreter is, by its frame.
LEMMA Mode ==
  ASSUME NEW idx, NEW enc, NEW opn, NEW j, Passing(j, idx, enc, opn)
  PROVE  LET e == enc[j]
             d == Len(e)
         IN  /\ At("GetFile", "Enter") => Beginning(j)
             /\ At("GetFile", "Exit") =>
                  FrameStack = << Started >> /\ LocalValues = << >> /\ d = 1 /\ AtEndOfBlock
             /\ \A m \in {"Enter", "Loop", "Step2", "Exit"} :
                  At("ReadIntBlock", m) => ReadsBlock(m, e, d)
             /\ At("ReadIntBlock", "Step2") =>
                  BlockAhead /\ Pos.Index = getBeginIndex(stream, Pos.NextBlock)
             /\ At("ReadIntBlock", "Exit") => AtEndOfBlock
             /\ At("ReadIntBlock", "Step3") =>
                  /\ Frame = InBlock("Step3") /\ d > 1 /\ AtEndOfBlock
                  /\ Len(FrameStack) = d /\ Frames(d)
                  /\ Len(LocalValues) = d - 1 /\ Ends(e, d - 1)
             /\ \A m \in {"Enter", "Loop", "Exit"} :
                  At("ReadIntValues", m) => ReadsValues(m, e, d)
             /\ At("ReadIntValues", "Exit") => Pos.Index = LocalValues[d + 1]
             /\ Frame.CallMethod = "Started" => Ended(j)
             /\ Frame.CallMethod \in {"ReadIntBlock", "ReadIntValues"} \/ At("GetFile", "Exit") =>
                  j < Calls /\ header = stream.Header
<1>. DEFINE e == enc[j]
            d == Len(e)
<1>1. CASE Beginning(j)
  BY <1>1 DEF Beginning, At
<1>2. CASE Ended(j)
  BY <1>2 DEF Ended, At, Started
<1>3. CASE Midway(e, d) /\ j < Calls /\ header = stream.Header
  <2>1. CASE Frame = ExitFile /\ FrameStack = << Started >> /\ LocalValues = << >>
             /\ d = 1 /\ AtEndOfBlock
    BY <1>3, <2>1 DEF At, ExitFile
  <2>2. CASE \E m \in {"Enter", "Loop"} : ReadsBlock(m, e, d)
    BY <1>3, <2>2 DEF At, ReadsBlock, InBlock
  <2>3. CASE ReadsBlock("Step2", e, d) /\ BlockAhead
             /\ Pos.Index = getBeginIndex(stream, Pos.NextBlock)
    BY <1>3, <2>3 DEF At, ReadsBlock, InBlock
  <2>4. CASE ReadsBlock("Exit", e, d) /\ AtEndOfBlock
    BY <1>3, <2>4 DEF At, ReadsBlock, InBlock
  <2>5. CASE /\ Frame = InBlock("Step3") /\ d > 1 /\ AtEndOfBlock
             /\ Len(FrameStack) = d /\ Frames(d)
             /\ Len(LocalValues) = d - 1 /\ Ends(e, d - 1)
    BY <1>3, <2>5 DEF At, InBlock
  <2>6. CASE \E m \in {"Enter", "Loop"} : ReadsValues(m, e, d)
    BY <1>3, <2>6 DEF At, ReadsValues, InValues
  <2>7. CASE ReadsValues("Exit", e, d) /\ Pos.Index = LocalValues[d + 1]
    BY <1>3, <2>7 DEF At, ReadsValues, InValues
  <2>. QED
    BY <1>3, <2>1, <2>2, <2>3, <2>4, <2>5, <2>6, <2>7 DEF Midway
<1>. QED
  BY <1>1, <1>2, <1>3 DEF Passing

\* The interpreter, j calls into the pass, and what a step makes of it.
Amid(j, idx, enc, opn) ==
  /\ TypeOK /\ ReaderTypeOK /\ WriterInv(idx, enc, opn)
  /\ j \in 0 .. Calls /\ Passing(j, idx, enc, opn)

During(j, idx, enc, opn) == Amid(j, idx, enc, opn) /\ UNCHANGED wvars

Onward(idx, enc, opn) ==
  /\ ReaderTypeOK'
  /\ GivenUp' \/ \E k \in 0 .. Calls : Passing(k, idx, enc, opn)'

\* The stacks.
LEMMA PushFrame ==
  ASSUME FrameStack \in Seq(CallFrame), NEW f \in CallFrame, FrameStack' = Append(FrameStack, f),
         NEW n \in Nat, Frames(n), n >= 2, Len(FrameStack) = n
  PROVE  /\ FrameStack' \in Seq(CallFrame) /\ Len(FrameStack') = n + 1 /\ FrameStack'[n + 1] = f
         /\ Frames(n)'
<1>1. /\ FrameStack' \in Seq(CallFrame) /\ Len(FrameStack') = n + 1 /\ FrameStack'[n + 1] = f
      /\ \A i \in 1 .. n : FrameStack'[i] = FrameStack[i]
  BY AppendOf
<1>. QED
  BY <1>1 DEF Frames

\* popAndReturn, with n frames left.
LEMMA PopFrame ==
  ASSUME FrameStack \in Seq(CallFrame), popAndReturn, NEW n \in Nat, Frames(n), n >= 1,
         Len(FrameStack) = n + 1
  PROVE  /\ FrameStack' \in Seq(CallFrame) /\ Len(FrameStack') = n
         /\ \A i \in 1 .. n : FrameStack'[i] = FrameStack[i]
         /\ n >= 2 => Frames(n)'
         /\ Frame' = FrameStack[n + 1]
<1>1. FrameStack # << >>
  OBVIOUS
<1>2. FrameStack' = Front(FrameStack) /\ Frame' = Last(FrameStack)
  BY <1>1 DEF popAndReturn
<1>3. /\ FrameStack' \in Seq(CallFrame) /\ Len(FrameStack') = n
      /\ \A i \in 1 .. n : FrameStack'[i] = FrameStack[i]
  BY <1>2, FrontOf
<1>4. Frame' = FrameStack[n + 1]
  BY <1>2 DEF Last
<1>. QED
  BY <1>3, <1>4 DEF Frames

LEMMA PushValue ==
  ASSUME LocalValues \in Seq(Nat), NEW v \in Nat, Push(v), UNCHANGED stream,
         NEW n \in Nat, NEW e, Ends(e, n), Len(LocalValues) = n
  PROVE  /\ LocalValues' \in Seq(Nat) /\ Len(LocalValues') = n + 1 /\ LocalValues'[n + 1] = v
         /\ Ends(e, n)'
<1>1. /\ LocalValues' \in Seq(Nat) /\ Len(LocalValues') = n + 1 /\ LocalValues'[n + 1] = v
      /\ \A i \in 1 .. n : LocalValues'[i] = LocalValues[i]
  BY AppendOf DEF Push
<1>. QED
  BY <1>1 DEF Ends

LEMMA PopValue ==
  ASSUME LocalValues \in Seq(Nat), LocalValues' = Front(LocalValues), UNCHANGED stream,
         NEW n \in Nat, NEW e, Ends(e, n), Len(LocalValues) = n + 1
  PROVE  LocalValues' \in Seq(Nat) /\ Len(LocalValues') = n /\ Ends(e, n)'
<1>1. Len(LocalValues) >= 1 /\ Len(LocalValues) - 1 = n
  OBVIOUS
<1>2. /\ Front(LocalValues) \in Seq(Nat) /\ Len(Front(LocalValues)) = Len(LocalValues) - 1
      /\ \A i \in 1 .. Len(LocalValues) - 1 : Front(LocalValues)[i] = LocalValues[i]
  BY <1>1, FrontOf
<1>. QED
  BY <1>1, <1>2 DEF Ends

\* The frame goes to another state of its method.
LEMMA SameFrame ==
  ASSUME NEW m, NEW n
  PROVE  /\ Frame = InBlock(m) => In(n) = InBlock(n)
         /\ Frame = InValues(m) => In(n) = InValues(n)
BY DEF In, InBlock, InValues

\* The Writer refuses a call.
LEMMA Refuses ==
  ASSUME NEW j, NEW idx, NEW enc, NEW opn, During(j, idx, enc, opn),
         Pos' \in [Index : Nat, EnclosingBlocks : Seq(Nat), NextBlock : Nat, EndBlocks : Nat],
         Pos'.EndBlocks = Pos.EndBlocks, UNCHANGED header,
         copied' = Append(copied, "refused"), Fail \/ fatal
  PROVE  Onward(idx, enc, opn)
<1>1. copied \in Seq(Event \cup {"refused"})
  BY DEF During, Amid, ReaderTypeOK
<1>2. /\ copied' \in Seq(Event \cup {"refused"}) /\ Len(copied') = Len(copied) + 1
      /\ copied'[Len(copied) + 1] = "refused" /\ copied' # << >>
      /\ \A i \in 1 .. Len(copied) : copied'[i] = copied[i]
  <2>1. "refused" \in Event \cup {"refused"}
    OBVIOUS
  <2>2. /\ Append(copied, "refused") \in Seq(Event \cup {"refused"})
        /\ Len(Append(copied, "refused")) = Len(copied) + 1
        /\ \A i \in 1 .. Len(copied) : Append(copied, "refused")[i] = copied[i]
        /\ Append(copied, "refused")[Len(copied) + 1] = "refused"
    BY <2>1, <1>1, AppendOf
  <2>3. Len(copied') = Len(copied) + 1 /\ Len(copied) \in Nat
    BY <2>2, <1>1
  <2>4. copied' # << >>
    BY <2>3
  <2>. QED
    BY <2>2, <2>4, Zenon
<1>3. ReaderTypeOK'
  <2>1. /\ FrameStack \in Seq(CallFrame) /\ LocalValues \in Seq(Nat)
        /\ header' \in Seq(HeaderValue)
    BY DEF During, Amid, ReaderTypeOK
  <2>2. FrameStack' \in Seq(CallFrame) /\ LocalValues' \in Seq(Nat)
    <3>1. CASE Fail
      <4>1. << >> \in Seq(CallFrame) /\ << >> \in Seq(Nat)
        OBVIOUS
      <4>. QED
        BY <3>1, <4>1 DEF Fail
    <3>2. CASE fatal
      BY <3>2, <2>1 DEF fatal
    <3>. QED
      BY <3>1, <3>2
  <2>. QED
    BY <1>2, <2>1, <2>2 DEF ReaderTypeOK
<1>4. Begun' /\ stream' = stream /\ written' = written /\ Copied(Len(copied))
  BY DEF During, Amid, Passing, Reached, Begun, Opened, wvars
<1>5. Refused'
  BY <1>1, <1>2 DEF Refused, Last
<1>6. Copied(Len(copied) - 1)'
  <2>1. Len(copied) \in Nat /\ Len(copied') - 1 = Len(copied)
    BY <1>1, <1>2
  <2>. QED
    BY <2>1, <1>2, <1>4 DEF Copied, Calls
<1>7. GivenUp'
  BY <1>4, <1>5, <1>6 DEF GivenUp, Fail, fatal
<1>. QED
  BY <1>3, <1>7 DEF Onward

\* A step that moves neither the reader nor the Writer.
LEMMA Rests ==
  ASSUME NEW j, NEW idx, NEW enc, NEW opn, During(j, idx, enc, opn),
         UNCHANGED << Pos, copied, header >>,
         FrameStack' \in Seq(CallFrame), LocalValues' \in Seq(Nat),
         Midway(enc[j], Len(enc[j]))', j < Calls, header = stream.Header
  PROVE  Onward(idx, enc, opn)
<1>1. stream' = stream /\ written' = written /\ Calls' = Calls /\ j \in 0 .. Calls
  BY DEF During, Amid, wvars, Calls
<1>2. ReaderTypeOK'
  BY DEF During, Amid, ReaderTypeOK
<1>3. Reached(j, idx, enc, opn)'
  BY <1>1 DEF During, Amid, Passing, Reached, Begun, Opened, Copied
<1>4. Passing(j, idx, enc, opn)'
  BY <1>1, <1>3 DEF Passing
<1>. QED
  BY <1>1, <1>2, <1>4 DEF Onward

\* A call that the Writer takes: the one that wrote the stream at that place.
LEMMA Takes ==
  ASSUME NEW j, NEW idx, NEW enc, NEW opn, During(j, idx, enc, opn), j < Calls,
         UNCHANGED header,
         Pos' \in [Index : Nat, EnclosingBlocks : Seq(Nat), NextBlock : Nat, EndBlocks : Nat],
         Pos'.EndBlocks = Pos.EndBlocks,
         copied' = Append(copied, written[j + 1]),
         Pos'.Index = idx[j + 1], Pos'.EnclosingBlocks = enc[j + 1], Pos'.NextBlock = opn[j + 1] + 1
  PROVE  /\ copied' \in Seq(Event \cup {"refused"}) /\ j + 1 \in 0 .. Calls
         /\ Reached(j + 1, idx, enc, opn)'
<1>1. copied \in Seq(Event \cup {"refused"}) /\ Len(copied) = j /\ j \in Nat /\ Calls \in Nat
  BY DEF During, Amid, Passing, Reached, ReaderTypeOK, TypeOK, Calls
<1>2. written[j + 1] \in Event \cup {"refused"}
  BY <1>1 DEF During, Amid, TypeOK, Calls
<1>3. /\ copied' \in Seq(Event \cup {"refused"}) /\ Len(copied') = j + 1
      /\ copied'[j + 1] = written[j + 1]
      /\ \A i \in 1 .. j : copied'[i] = copied[i]
  BY <1>1, <1>2, AppendOf
<1>4. Begun' /\ stream' = stream /\ written' = written /\ Copied(j)
  BY <1>1 DEF During, Amid, Passing, Reached, Begun, Opened, wvars
<1>5. Copied(j + 1)'
  <2>1. \A i \in 1 .. j + 1 : i \in 1 .. j \/ i = j + 1
    BY <1>1
  <2>. QED
    BY <2>1, <1>1, <1>3, <1>4 DEF Copied, Calls
<1>. QED
  BY <1>1, <1>3, <1>4, <1>5 DEF Reached

\* What the steps below know of where they are.
LEMMA Here ==
  ASSUME NEW j, NEW idx, NEW enc, NEW opn, Amid(j, idx, enc, opn)
  PROVE  LET d == Len(enc[j])
         IN  /\ d \in Nat /\ d >= 1 /\ enc[j] \in Seq(Nat) /\ enc[j][1] = 0
             /\ idx[j] \in Nat /\ opn[j] \in Nat /\ Opened \in Nat /\ opn[j] <= Opened
             /\ Last(enc[j]) = enc[j][d]
             /\ \A i \in 1 .. d : enc[j][i] \in 0 .. Opened
             /\ getEndIndex(stream, Last(enc[j])) \in Nat
             /\ j \in Nat /\ Calls \in Nat /\ j <= Calls
             /\ stream.isFrozen
             /\ FrameStack \in Seq(CallFrame) /\ LocalValues \in Seq(Nat)
             /\ Pos.Index = idx[j] /\ Pos.EnclosingBlocks = enc[j]
             /\ Pos.NextBlock = opn[j] + 1 /\ Pos.EndBlocks = Opened + 1
             /\ Pos \in [Index : Nat, EnclosingBlocks : Seq(Nat), NextBlock : Nat, EndBlocks : Nat]
<1>1. j \in 0 .. Calls /\ Calls \in Nat /\ TypeOK /\ WriterInv(idx, enc, opn)
  BY DEF Amid, TypeOK, Calls
<1>2. /\ stream.isFrozen
      /\ FrameStack \in Seq(CallFrame) /\ LocalValues \in Seq(Nat)
      /\ Pos.Index = idx[j] /\ Pos.EnclosingBlocks = enc[j]
      /\ Pos.NextBlock = opn[j] + 1 /\ Pos.EndBlocks = Opened + 1
      /\ Pos \in [Index : Nat, EnclosingBlocks : Seq(Nat), NextBlock : Nat, EndBlocks : Nat]
  BY DEF Amid, Passing, Reached, Begun, ReaderTypeOK
<1>. QED
  BY <1>1, <1>2, Innermost

\* The same, with what a step of the reader leaves as it was.
LEMMA Around ==
  ASSUME NEW j, NEW idx, NEW enc, NEW opn, During(j, idx, enc, opn)
  PROVE  LET d == Len(enc[j])
         IN  /\ d \in Nat /\ d >= 1 /\ enc[j] \in Seq(Nat) /\ enc[j][1] = 0
             /\ idx[j] \in Nat /\ opn[j] \in Nat /\ Opened \in Nat /\ opn[j] <= Opened
             /\ Last(enc[j]) = enc[j][d]
             /\ getEndIndex(stream, Last(enc[j])) \in Nat
             /\ j \in Nat /\ Calls \in Nat /\ j <= Calls
             /\ stream.isFrozen /\ stream' = stream /\ written' = written
             /\ FrameStack \in Seq(CallFrame) /\ LocalValues \in Seq(Nat)
             /\ Pos.Index = idx[j] /\ Pos.EnclosingBlocks = enc[j]
             /\ Pos.NextBlock = opn[j] + 1 /\ Pos.EndBlocks = Opened + 1
             /\ Pos \in [Index : Nat, EnclosingBlocks : Seq(Nat), NextBlock : Nat, EndBlocks : Nat]
BY Here DEF During, wvars

\* hasNestedBlocks, asked with the end of the block on top of LocalValues.
LEMMA Ahead ==
  ASSUME NEW j, NEW idx, NEW enc, NEW opn, Amid(j, idx, enc, opn),
         Len(LocalValues) = Len(enc[j]), Ends(enc[j], Len(enc[j]))
  PROVE  /\ Last(LocalValues) = getEndIndex(stream, Last(enc[j]))
         /\ hasNestedBlocks <=> BlockAhead
         /\ BlockAhead => getBeginIndex(stream, opn[j] + 1) \in Nat
<1>. DEFINE d == Len(enc[j])
<1>1. /\ d \in Nat /\ d >= 1 /\ Last(enc[j]) = enc[j][d]
      /\ opn[j] \in Nat /\ Opened \in Nat /\ opn[j] <= Opened
      /\ Pos.NextBlock = opn[j] + 1 /\ Pos.EndBlocks = Opened + 1 /\ Pos.EnclosingBlocks = enc[j]
  BY Here
<1>2. Last(LocalValues) = getEndIndex(stream, Last(enc[j]))
  BY <1>1 DEF Last, Ends
<1>3. hasMoreBlocks(Pos) <=> Pos.NextBlock <= Opened
  BY <1>1 DEF hasMoreBlocks
<1>4. Pos.NextBlock <= Opened => getBeginIndex(stream, opn[j] + 1) \in Nat
  BY <1>1, IndexType DEF Amid
<1>. QED
  BY <1>1, <1>2, <1>3, <1>4 DEF hasNestedBlocks, BlockAhead

\* One lemma for each action of the reader.
LEMMA StepEnterLoop ==
  ASSUME NEW j, NEW idx, NEW enc, NEW opn, During(j, idx, enc, opn), EnterLoop
  PROVE  Onward(idx, enc, opn)
<1>. DEFINE e == enc[j]
            d == Len(e)
<1>1. /\ Frame' = In("Loop") /\ FrameStack' = FrameStack
      /\ Pos' = Pos /\ LocalValues' = LocalValues /\ copied' = copied /\ header' = header
  BY DEF EnterLoop, Goto
<1>2. /\ stream' = stream /\ FrameStack \in Seq(CallFrame) /\ LocalValues \in Seq(Nat)
  BY Around
<1>3. Passing(j, idx, enc, opn)
  BY DEF During, Amid
<1>4. CASE At("ReadIntBlock", "Enter")
  <2>1. ReadsBlock("Enter", e, d) /\ j < Calls /\ header = stream.Header
    BY <1>3, <1>4, Mode DEF At
  <2>2. Frame' = InBlock("Loop")
    BY <2>1, <1>1, SameFrame DEF ReadsBlock
  <2>3. ReadsBlock("Loop", e, d)'
    BY <2>1, <2>2, <1>1, <1>2 DEF ReadsBlock, Frames, Ends
  <2>. QED
    BY <2>1, <2>3, <1>1, <1>2, Rests DEF Midway
<1>5. CASE At("ReadIntValues", "Enter")
  <2>1. ReadsValues("Enter", e, d) /\ j < Calls /\ header = stream.Header
    BY <1>3, <1>5, Mode DEF At
  <2>2. Frame' = InValues("Loop")
    BY <2>1, <1>1, SameFrame DEF ReadsValues
  <2>3. ReadsValues("Loop", e, d)'
    BY <2>1, <2>2, <1>1, <1>2 DEF ReadsValues, Frames, Ends, BlockAhead, Opened
  <2>. QED
    BY <2>1, <2>3, <1>1, <1>2, Rests DEF Midway
<1>. QED
  BY <1>4, <1>5 DEF EnterLoop

LEMMA StepGetFileEnter ==
  ASSUME NEW j, NEW idx, NEW enc, NEW opn, During(j, idx, enc, opn), GetFileEnter
  PROVE  Onward(idx, enc, opn)
<1>1. /\ At("GetFile", "Enter")
      /\ header' = header \o stream.Header
      /\ Push(Len(stream.Values))
      /\ FrameStack' = Append(FrameStack, In("Exit")) /\ Frame' = InBlock("Enter")
      /\ Pos' = Pos /\ copied' = copied
  BY DEF GetFileEnter, call, InBlock
<1>2. /\ stream' = stream /\ written' = written /\ stream.isFrozen /\ TypeOK
      /\ WriterInv(idx, enc, opn)
  BY Around DEF During, Amid
<1>3. Beginning(j)
  BY <1>1, Mode DEF During, Amid
<1>4. /\ j = 0 /\ enc[0] = << 0 >> /\ Calls > 0 /\ Calls \in Nat
      /\ Opened' = Opened /\ Calls' = Calls
  BY <1>2, <1>3 DEF Beginning, WriterInv, AtLast, Positions, TopBlock, TypeOK, Calls, Opened
<1>5. stream.Header \in Seq(HeaderValue) /\ Len(stream.Values) \in Nat
  BY <1>2 DEF TypeOK, Stream
<1>6. header' = stream.Header
  BY <1>1, <1>3, <1>5 DEF Beginning
<1>7. /\ FrameStack' \in Seq(CallFrame) /\ Len(FrameStack') = 2
      /\ FrameStack'[1] = Started /\ FrameStack'[2] = ExitFile
      /\ LocalValues' \in Seq(Nat) /\ Len(LocalValues') = 1
      /\ LocalValues'[1] = Len(stream.Values)
  <2>1. In("Exit") = ExitFile /\ ExitFile \in CallFrame
    BY <1>3 DEF Beginning, In, ExitFile, CallFrame
  <2>2. /\ FrameStack \in Seq(CallFrame) /\ Len(FrameStack) = 1 /\ FrameStack[1] = Started
        /\ LocalValues \in Seq(Nat) /\ Len(LocalValues) = 0
    BY <1>3, Around DEF Beginning
  <2>3. FrameStack' = Append(FrameStack, ExitFile)
    BY <2>1, <1>1
  <2>4. /\ FrameStack' \in Seq(CallFrame) /\ Len(FrameStack') = 2
        /\ FrameStack'[1] = Started /\ FrameStack'[2] = ExitFile
    <3>1. FrameStack \in Seq(CallFrame) /\ ExitFile \in CallFrame
      BY <2>1, <2>2
    <3>2. /\ Append(FrameStack, ExitFile) \in Seq(CallFrame)
          /\ Len(Append(FrameStack, ExitFile)) = Len(FrameStack) + 1
          /\ \A i \in 1 .. Len(FrameStack) : Append(FrameStack, ExitFile)[i] = FrameStack[i]
          /\ Append(FrameStack, ExitFile)[Len(FrameStack) + 1] = ExitFile
      BY <3>1, AppendOf
    <3>. QED
      BY <3>2, <2>2, <2>3
  <2>5. LocalValues' = Append(LocalValues, Len(stream.Values))
    BY <1>1 DEF Push
  <2>6. /\ LocalValues' \in Seq(Nat) /\ Len(LocalValues') = 1
        /\ LocalValues'[1] = Len(stream.Values)
    BY <2>2, <2>5, <1>5
  <2>. QED
    BY <2>4, <2>6
<1>8. Len(stream.Values) = getEndIndex(stream, 0)
  <2>1. stream.TopEnd = idx[Calls - 1] /\ idx[Calls] = idx[Calls - 1]
    <3>1. written[Calls] = "eof" /\ Calls \in 1 .. Calls
      BY <1>2, <1>4 DEF WriterInv, AtLast
    <3>2. "eof" \notin Value
      BY IntCopyAssumption
    <3>. QED
      BY <3>1, <3>2, <1>2 DEF WriterInv, Positions, Stepped, Kept
  <2>. QED
    BY <2>1, <1>2 DEF WriterInv, AtLast, getEndIndex, TopBlock
<1>9. ReadsBlock("Enter", << 0 >>, 1)'
  BY <1>1, <1>2, <1>7, <1>8 DEF ReadsBlock, Frames, Ends
<1>10. Midway(enc[j], Len(enc[j]))'
  BY <1>4, <1>9 DEF Midway
<1>11. FrameStack' \in Seq(CallFrame) /\ LocalValues' \in Seq(Nat) /\ header' \in Seq(HeaderValue)
  BY <1>5, <1>6, <1>7
<1>12. ReaderTypeOK'
  BY <1>1, <1>11 DEF During, Amid, ReaderTypeOK
<1>13. Reached(j, idx, enc, opn)'
  BY <1>1, <1>2, <1>4 DEF During, Amid, Passing, Reached, Begun, Copied
<1>14. Passing(j, idx, enc, opn)'
  BY <1>2, <1>4, <1>6, <1>10, <1>13 DEF Passing
<1>. QED
  BY <1>4, <1>12, <1>14 DEF Onward

LEMMA StepReadIntBlockLoop ==
  ASSUME NEW j, NEW idx, NEW enc, NEW opn, During(j, idx, enc, opn), ReadIntBlockLoop
  PROVE  Onward(idx, enc, opn)
<1>. DEFINE e == enc[j]
            d == Len(e)
            end == getEndIndex(stream, Last(e))
<1>1. At("ReadIntBlock", "Loop") /\ Pos' = Pos /\ copied' = copied /\ header' = header
  BY DEF ReadIntBlockLoop
<1>2. ReadsBlock("Loop", e, d) /\ j < Calls /\ header = stream.Header
  BY <1>1, Mode DEF During, Amid, At
<1>3. /\ d \in Nat /\ d >= 1 /\ end \in Nat /\ idx[j] \in Nat /\ j \in Nat
      /\ stream' = stream /\ stream.isFrozen
      /\ FrameStack \in Seq(CallFrame) /\ LocalValues \in Seq(Nat)
      /\ Pos.Index = idx[j] /\ Pos.EnclosingBlocks = e /\ Pos.NextBlock = opn[j] + 1
  BY Around
<1>4. /\ Frame = InBlock("Loop") /\ Len(FrameStack) = d + 1 /\ Frames(d + 1)
      /\ Len(LocalValues) = d /\ Ends(e, d)
  BY <1>2 DEF ReadsBlock
<1>5. /\ Last(LocalValues) = end /\ (hasNestedBlocks <=> BlockAhead)
      /\ BlockAhead => getBeginIndex(stream, opn[j] + 1) \in Nat
  BY <1>4, Ahead DEF During
<1>6. /\ idx[j] <= end
      /\ opn[j] + 1 <= Opened => idx[j] <= getBeginIndex(stream, opn[j] + 1)
  BY <1>2, <1>3, NextCall DEF During, Amid
<1>7. atEob(stream, Pos) <=> idx[j] >= end
  BY <1>3 DEF atEob
<1>8. BlockAhead' <=> BlockAhead
  BY <1>1, <1>3 DEF BlockAhead, Opened
<1>9. CASE atEob(stream, Pos)
  <2>1. Frame' = InBlock("Exit") /\ FrameStack' = FrameStack /\ LocalValues' = LocalValues
    BY <1>4, <1>9, SameFrame DEF ReadIntBlockLoop, Goto
  <2>2. AtEndOfBlock'
    BY <1>1, <1>3, <1>6, <1>7, <1>9 DEF AtEndOfBlock
  <2>3. ReadsBlock("Exit", e, d)'
    BY <2>1, <1>3, <1>4 DEF ReadsBlock, Frames, Ends
  <2>. QED
    BY <2>1, <2>2, <2>3, <1>1, <1>2, <1>3, Rests DEF Midway
<1>10. CASE ~atEob(stream, Pos) /\ hasNestedBlocks
  <2>1. /\ Push(getBeginIndex(stream, opn[j] + 1))
        /\ FrameStack' = Append(FrameStack, InBlock("Step2")) /\ Frame' = InValues("Enter")
    BY <1>3, <1>4, <1>10, SameFrame DEF ReadIntBlockLoop, call, InValues
  <2>2. /\ FrameStack' \in Seq(CallFrame) /\ Len(FrameStack') = d + 2
        /\ FrameStack'[d + 2] = InBlock("Step2") /\ Frames(d + 1)'
    BY <2>1, <1>3, <1>4, PushFrame DEF CallFrame
  <2>3. /\ LocalValues' \in Seq(Nat) /\ Len(LocalValues') = d + 1
        /\ LocalValues'[d + 1] = getBeginIndex(stream, opn[j] + 1) /\ Ends(e, d)'
    BY <2>1, <1>3, <1>4, <1>5, <1>10, PushValue
  <2>4. BlockAhead /\ idx[j] <= getBeginIndex(stream, opn[j] + 1)
    BY <1>3, <1>5, <1>6, <1>10 DEF BlockAhead
  <2>5. ReadsValues("Enter", e, d)'
    BY <2>1, <2>2, <2>3, <2>4, <1>1, <1>3, <1>8 DEF ReadsValues
  <2>. QED
    BY <2>2, <2>3, <2>5, <1>1, <1>2, Rests DEF Midway
<1>11. CASE ~atEob(stream, Pos) /\ ~hasNestedBlocks
  <2>1. /\ Push(end)
        /\ FrameStack' = Append(FrameStack, InBlock("Exit")) /\ Frame' = InValues("Enter")
    BY <1>4, <1>5, <1>11, SameFrame DEF ReadIntBlockLoop, call, InValues
  <2>2. /\ FrameStack' \in Seq(CallFrame) /\ Len(FrameStack') = d + 2
        /\ FrameStack'[d + 2] = InBlock("Exit") /\ Frames(d + 1)'
    BY <2>1, <1>3, <1>4, PushFrame DEF CallFrame
  <2>3. /\ LocalValues' \in Seq(Nat) /\ Len(LocalValues') = d + 1
        /\ LocalValues'[d + 1] = end /\ Ends(e, d)'
    BY <2>1, <1>3, <1>4, PushValue
  <2>4. ~BlockAhead /\ idx[j] <= end
    BY <1>5, <1>6, <1>11
  <2>5. ReadsValues("Enter", e, d)'
    BY <2>1, <2>2, <2>3, <2>4, <1>1, <1>3, <1>8 DEF ReadsValues
  <2>. QED
    BY <2>2, <2>3, <2>5, <1>1, <1>2, Rests DEF Midway
<1>. QED
  BY <1>9, <1>10, <1>11

LEMMA StepReadIntBlockOpen ==
  ASSUME NEW j, NEW idx, NEW enc, NEW opn, During(j, idx, enc, opn), ReadIntBlockOpen
  PROVE  Onward(idx, enc, opn)
<1>. DEFINE e == enc[j]
            d == Len(e)
            end == getEndIndex(stream, Last(e))
            b == opn[j] + 1
<1>1. At("ReadIntBlock", "Step2") /\ header' = header
  BY DEF ReadIntBlockOpen
<1>2. /\ ReadsBlock("Step2", e, d) /\ j < Calls /\ header = stream.Header
      /\ BlockAhead /\ Pos.Index = getBeginIndex(stream, Pos.NextBlock)
  BY <1>1, Mode DEF During, Amid, At
<1>3. /\ d \in Nat /\ d >= 1 /\ end \in Nat /\ idx[j] \in Nat /\ j \in Nat
      /\ opn[j] \in Nat /\ Opened \in Nat /\ e \in Seq(Nat)
      /\ stream' = stream /\ stream.isFrozen
      /\ FrameStack \in Seq(CallFrame) /\ LocalValues \in Seq(Nat)
      /\ Pos.Index = idx[j] /\ Pos.EnclosingBlocks = e /\ Pos.NextBlock = b
      /\ Pos.EndBlocks = Opened + 1
      /\ Pos \in [Index : Nat, EnclosingBlocks : Seq(Nat), NextBlock : Nat, EndBlocks : Nat]
  BY Around
<1>4. /\ Frame = InBlock("Step2") /\ Len(FrameStack) = d + 1 /\ Frames(d + 1)
      /\ Len(LocalValues) = d /\ Ends(e, d)
  BY <1>2 DEF ReadsBlock
<1>5. b <= Opened /\ idx[j] = getBeginIndex(stream, b) /\ idx[j] < end
  BY <1>2, <1>3 DEF BlockAhead
<1>6. canEnter(stream, Pos)
  BY <1>2, <1>3, <1>5 DEF canEnter, hasMoreBlocks
<1>7. Pos' = [Pos EXCEPT !.EnclosingBlocks = Append(e, b), !.NextBlock = b + 1]
  BY <1>3, <1>6 DEF ReadIntBlockOpen, Enter
<1>8. /\ Pos' \in [Index : Nat, EnclosingBlocks : Seq(Nat), NextBlock : Nat, EndBlocks : Nat]
      /\ Pos'.EndBlocks = Pos.EndBlocks /\ Pos'.Index = idx[j]
      /\ Pos'.EnclosingBlocks = Append(e, b) /\ Pos'.NextBlock = b + 1
  <2>1. Append(e, b) \in Seq(Nat) /\ b + 1 \in Nat
    BY <1>3, AppendOf
  <2>. QED
    BY <2>1, <1>3, <1>7
<1>9. CASE copied' = Append(copied, "refused") /\ fatal
  BY <1>1, <1>8, <1>9, Refuses
<1>10. CASE /\ copied' = Append(copied, "enter")
            /\ Push(getEndIndex(stream, b)) /\ call(In("Step3"), "ReadIntBlock")
  <2>1. written[j + 1] = "enter"
    <3>1. written[j + 1] \in Event /\ written[j + 1] \notin {"exit", "eof"}
      BY <1>2, <1>3, <1>5, NextCall DEF During, Amid
    <3>2. written[j + 1] \notin Value
      <4>1. written[j + 1] \in Value => idx[j] < getBeginIndex(stream, b)
        BY <1>2, <1>3, <1>5, NextCall DEF During, Amid
      <4>. QED
        BY <4>1, <1>3, <1>5
    <3>. QED
      BY <3>1, <3>2 DEF Event
  <2>2. /\ idx[j + 1] = idx[j] /\ enc[j + 1] = Append(e, b) /\ opn[j + 1] = b
        /\ j + 1 < Calls
    <3>1. Stepped(idx, enc, opn, j + 1) /\ j + 1 # Calls
      BY <2>1, <1>2, <1>3, NextCall DEF During, Amid
    <3>2. "enter" \notin Value /\ j + 1 - 1 = j /\ Calls \in Nat
      <4>1. "enter" \notin Value
        BY IntCopyAssumption
      <4>2. j + 1 - 1 = j
        BY <1>3
      <4>. QED
        BY <4>1, <4>2, Around
    <3>. QED
      BY <2>1, <3>1, <3>2, <1>2, <1>3 DEF Stepped
  <2>3. /\ copied' \in Seq(Event \cup {"refused"}) /\ j + 1 \in 0 .. Calls
        /\ Reached(j + 1, idx, enc, opn)'
    BY <2>1, <2>2, <1>1, <1>2, <1>8, <1>10, Takes
  <2>4. FrameStack' = Append(FrameStack, InBlock("Step3")) /\ Frame' = InBlock("Enter")
    BY <1>4, <1>10, SameFrame DEF call, InBlock
  <2>5. /\ FrameStack' \in Seq(CallFrame) /\ Len(FrameStack') = d + 2
        /\ FrameStack'[d + 2] = InBlock("Step3") /\ Frames(d + 1)'
    BY <2>4, <1>3, <1>4, PushFrame DEF CallFrame
  <2>6. Frames(d + 2)'
    <3>1. \A n \in Nat : \A i \in 3 .. n + 2 : i \in 3 .. n + 1 \/ i = n + 2
      OBVIOUS
    <3>2. \A i \in 3 .. d + 2 : i \in 3 .. d + 1 \/ i = d + 2
      BY <3>1, <1>3, Zenon
    <3>. QED
      BY <3>2, <2>5 DEF Frames
  <2>7. getEndIndex(stream, b) \in Nat
    <3>1. b \in 0 .. Opened
      BY <1>3, <1>5
    <3>. QED
      BY <3>1, IndexType DEF During, Amid
  <2>8. /\ LocalValues' \in Seq(Nat) /\ Len(LocalValues') = d + 1
        /\ LocalValues'[d + 1] = getEndIndex(stream, b) /\ Ends(e, d)'
    BY <2>7, <1>3, <1>4, <1>10, PushValue
  <2>9. /\ Len(enc[j + 1]) = d + 1 /\ enc[j + 1][d + 1] = b
        /\ \A i \in 1 .. d : enc[j + 1][i] = e[i]
    BY <2>2, <1>3, AppendOf
  <2>10. Ends(enc[j + 1], d + 1)'
    <3>1. \A i \in 1 .. d + 1 : i \in 1 .. d \/ i = d + 1
      BY <1>3
    <3>. QED
      BY <3>1, <2>8, <2>9, <1>3 DEF Ends
  <2>11. ReadsBlock("Enter", enc[j + 1], d + 1)'
    BY <2>4, <2>5, <2>6, <2>8, <2>10, <1>3 DEF ReadsBlock
  <2>12. ReaderTypeOK'
    BY <2>3, <2>5, <2>8, <1>1, <1>8 DEF ReaderTypeOK, During, Amid
  <2>13. Midway(enc[j + 1], Len(enc[j + 1]))'
    BY <2>9, <2>11 DEF Midway
  <2>14. Calls' = Calls /\ header' = stream'.Header
    BY <1>1, <1>2, Around DEF Calls
  <2>. QED
    BY <2>2, <2>3, <2>12, <2>13, <2>14 DEF Onward, Passing
<1>. QED
  BY <1>3, <1>6, <1>9, <1>10 DEF ReadIntBlockOpen, Output

LEMMA StepReadIntBlockClose ==
  ASSUME NEW j, NEW idx, NEW enc, NEW opn, During(j, idx, enc, opn), ReadIntBlockClose
  PROVE  Onward(idx, enc, opn)
<1>. DEFINE e == enc[j]
            d == Len(e)
            end == getEndIndex(stream, Last(e))
<1>1. At("ReadIntBlock", "Step3") /\ header' = header
  BY DEF ReadIntBlockClose
<1>2. /\ Frame = InBlock("Step3") /\ d > 1 /\ AtEndOfBlock
      /\ Len(FrameStack) = d /\ Frames(d)
      /\ Len(LocalValues) = d - 1 /\ Ends(e, d - 1)
      /\ j < Calls /\ header = stream.Header
  BY <1>1, Mode DEF During, Amid, At
<1>3. /\ d \in Nat /\ end \in Nat /\ idx[j] \in Nat /\ j \in Nat /\ Calls \in Nat
      /\ e \in Seq(Nat) /\ stream' = stream /\ stream.isFrozen
      /\ FrameStack \in Seq(CallFrame) /\ LocalValues \in Seq(Nat)
      /\ Pos.Index = idx[j] /\ Pos.EnclosingBlocks = e /\ Pos.NextBlock = opn[j] + 1
      /\ Pos \in [Index : Nat, EnclosingBlocks : Seq(Nat), NextBlock : Nat, EndBlocks : Nat]
  BY Around
<1>4. idx[j] = end /\ exitOk(stream, Pos) /\ canClose(Pos)
  BY <1>2, <1>3 DEF AtEndOfBlock, exitOk, canClose
<1>5. Front(e) \in Seq(Nat) /\ Len(Front(e)) = d - 1 /\ \A i \in 1 .. d - 1 : Front(e)[i] = e[i]
  <2>1. Len(e) >= 1 /\ e \in Seq(Nat)
    BY <1>2, <1>3
  <2>. QED
    BY <2>1, FrontOf
<1>6. Pos' = [Pos EXCEPT !.EnclosingBlocks = Front(e)]
  BY <1>3, <1>4 DEF ReadIntBlockClose, Exit
<1>7. /\ Pos' \in [Index : Nat, EnclosingBlocks : Seq(Nat), NextBlock : Nat, EndBlocks : Nat]
      /\ Pos'.EndBlocks = Pos.EndBlocks /\ Pos'.Index = idx[j]
      /\ Pos'.EnclosingBlocks = Front(e) /\ Pos'.NextBlock = opn[j] + 1
  BY <1>3, <1>5, <1>6
<1>8. CASE copied' = Append(copied, "refused") /\ fatal
  BY <1>1, <1>7, <1>8, Refuses
<1>9. CASE copied' = Append(copied, "exit") /\ Goto("Loop") /\ UNCHANGED LocalValues
  <2>1. written[j + 1] = "exit"
    <3>1. written[j + 1] \in {"exit", "eof"} /\ Stepped(idx, enc, opn, j + 1)
      BY <1>2, <1>3, <1>4, NextCall DEF During, Amid
    <3>2. j + 1 - 1 = j /\ j + 1 \in Nat /\ j \in Nat
      BY <1>3
    <3>3. written[j + 1] # "eof"
      <4>1. d > 1 /\ d \in Nat
        BY <1>2, <1>3
      <4>2. d # 1
        <5>1. \A n \in Nat : n > 1 => n # 1
          OBVIOUS
        <5>. QED
          BY <4>1, <5>1, Zenon
      <4>3. written[j + 1] = "eof" => Len(enc[j]) = 1
        BY <3>1, <3>2 DEF Stepped
      <4>. QED
        BY <4>2, <4>3
    <3>. QED
      BY <3>1, <3>3
  <2>2. /\ idx[j + 1] = idx[j] /\ enc[j + 1] = Front(e) /\ opn[j + 1] = opn[j]
        /\ j + 1 < Calls
    <3>1. Stepped(idx, enc, opn, j + 1) /\ j + 1 # Calls
      BY <2>1, <1>2, <1>3, NextCall DEF During, Amid
    <3>2. "exit" \notin Value /\ j + 1 - 1 = j
      BY <1>3, IntCopyAssumption
    <3>. QED
      BY <2>1, <3>1, <3>2, <1>2, <1>3 DEF Stepped
  <2>3. /\ copied' \in Seq(Event \cup {"refused"}) /\ j + 1 \in 0 .. Calls
        /\ Reached(j + 1, idx, enc, opn)'
    BY <2>1, <2>2, <1>1, <1>2, <1>7, <1>9, Takes
  <2>4. FrameStack' = FrameStack /\ Frame' = InBlock("Loop") /\ LocalValues' = LocalValues
    BY <1>2, <1>9, SameFrame DEF Goto
  <2>5. Len(enc[j + 1]) = d - 1 /\ \A i \in 1 .. d - 1 : enc[j + 1][i] = e[i]
    BY <2>2, <1>5
  <2>6. Ends(enc[j + 1], d - 1)'
    BY <2>4, <2>5, <1>2, <1>3 DEF Ends
  <2>7. ReadsBlock("Loop", enc[j + 1], d - 1)'
    BY <2>4, <2>6, <1>2, <1>3 DEF ReadsBlock, Frames
  <2>8. ReaderTypeOK'
    BY <2>3, <2>4, <1>1, <1>3, <1>7 DEF ReaderTypeOK, During, Amid
  <2>9. Midway(enc[j + 1], Len(enc[j + 1]))'
    BY <2>5, <2>7 DEF Midway
  <2>10. Calls' = Calls /\ header' = stream'.Header
    BY <1>1, <1>2, Around DEF Calls
  <2>. QED
    BY <2>2, <2>3, <2>8, <2>9, <2>10 DEF Onward, Passing
<1>. QED
  BY <1>4, <1>8, <1>9 DEF ReadIntBlockClose, Output

\* While values are read, up to a limit, the next call wrote a value.
LEMMA ValueNext ==
  ASSUME NEW j, NEW idx, NEW enc, NEW opn, Amid(j, idx, enc, opn),
         NEW m, ReadsValues(m, enc[j], Len(enc[j])), j < Calls
  PROVE  LET limit == LocalValues[Len(enc[j]) + 1]
         IN  /\ limit \in Nat /\ idx[j] <= limit /\ Last(LocalValues) = limit
             /\ idx[j] < limit =>
                  /\ written[j + 1] \in Value
                  /\ stream.Values[idx[j] + 1] = written[j + 1] /\ idx[j] < Len(stream.Values)
                  /\ idx[j] < getEndIndex(stream, Last(enc[j]))
<1>. DEFINE d == Len(enc[j])
            limit == LocalValues[d + 1]
            end == getEndIndex(stream, Last(enc[j]))
            b == opn[j] + 1
<1>1. /\ d \in Nat /\ end \in Nat /\ idx[j] \in Nat /\ j \in Nat
      /\ opn[j] \in Nat /\ Opened \in Nat
      /\ stream.isFrozen /\ LocalValues \in Seq(Nat)
      /\ Pos.Index = idx[j] /\ Pos.EnclosingBlocks = enc[j] /\ Pos.NextBlock = b
  BY Here
<1>2. /\ Len(LocalValues) = d + 1 /\ idx[j] <= limit
      /\ \/ BlockAhead /\ limit = getBeginIndex(stream, b)
         \/ ~BlockAhead /\ limit = end
  BY <1>1 DEF ReadsValues
<1>3. limit \in Nat /\ Last(LocalValues) = limit
  BY <1>1, <1>2 DEF Last
<1>4. BlockAhead <=> b <= Opened /\ getBeginIndex(stream, b) < end
  BY <1>1 DEF BlockAhead
<1>5. b <= Opened => getBeginIndex(stream, b) \in Nat
  <2>1. b <= Opened => b \in 0 .. Opened
    BY <1>1
  <2>. QED
    BY <2>1, IndexType DEF Amid
<1>6. ASSUME idx[j] < limit
      PROVE  idx[j] < end /\ (b <= Opened => getBeginIndex(stream, b) # idx[j])
  <2>1. CASE BlockAhead /\ limit = getBeginIndex(stream, b)
    <3>1. limit < end /\ getBeginIndex(stream, b) # idx[j]
      BY <2>1, <1>1, <1>3, <1>4, <1>6
    <3>. QED
      BY <3>1, <1>1, <1>3, <1>6
  <2>2. CASE ~BlockAhead /\ limit = end
    BY <2>2, <1>1, <1>4, <1>5, <1>6
  <2>. QED
    BY <2>1, <2>2, <1>2
<1>7. ASSUME idx[j] < limit PROVE written[j + 1] \in Value
  <2>1. /\ written[j + 1] \in Event
        /\ written[j + 1] \in {"exit", "eof"} => idx[j] = end
        /\ written[j + 1] = "enter" => b <= Opened /\ getBeginIndex(stream, b) = idx[j]
    BY <1>1, NextCall DEF Amid
  <2>2. idx[j] # end
    BY <1>1, <1>6, <1>7
  <2>. QED
    BY <2>1, <2>2, <1>6, <1>7 DEF Event
<1>8. written[j + 1] \in Value =>
        stream.Values[idx[j] + 1] = written[j + 1] /\ idx[j] < Len(stream.Values)
  BY <1>1, NextCall DEF Amid
<1>. QED
  BY <1>2, <1>3, <1>6, <1>7, <1>8

LEMMA StepReadIntValuesLoop ==
  ASSUME NEW j, NEW idx, NEW enc, NEW opn, During(j, idx, enc, opn), ReadIntValuesLoop
  PROVE  Onward(idx, enc, opn)
<1>. DEFINE e == enc[j]
            d == Len(e)
            limit == LocalValues[d + 1]
<1>1. At("ReadIntValues", "Loop") /\ header' = header
  BY DEF ReadIntValuesLoop
<1>2. ReadsValues("Loop", e, d) /\ j < Calls /\ header = stream.Header
  BY <1>1, Mode DEF During, Amid, At
<1>3. /\ d \in Nat /\ idx[j] \in Nat /\ j \in Nat /\ Calls \in Nat
      /\ stream' = stream /\ stream.isFrozen
      /\ FrameStack \in Seq(CallFrame) /\ LocalValues \in Seq(Nat)
      /\ Pos.Index = idx[j] /\ Pos.EnclosingBlocks = e /\ Pos.NextBlock = opn[j] + 1
      /\ Pos \in [Index : Nat, EnclosingBlocks : Seq(Nat), NextBlock : Nat, EndBlocks : Nat]
  BY Around
<1>4. /\ limit \in Nat /\ idx[j] <= limit /\ Last(LocalValues) = limit
      /\ idx[j] < limit =>
           written[j + 1] \in Value /\ stream.Values[idx[j] + 1] = written[j + 1]
  BY <1>2, ValueNext DEF During
<1>5. /\ Frame = InValues("Loop")
      /\ Len(FrameStack) = d + 2 /\ Frames(d + 1) /\ Len(LocalValues) = d + 1 /\ Ends(e, d)
      /\ \/ BlockAhead /\ FrameStack[d + 2] = InBlock("Step2")
            /\ limit = getBeginIndex(stream, Pos.NextBlock)
         \/ ~BlockAhead /\ FrameStack[d + 2] = InBlock("Exit")
            /\ limit = getEndIndex(stream, Last(Pos.EnclosingBlocks))
  BY <1>2 DEF ReadsValues
<1>6. CASE idx[j] >= limit
  <2>1. /\ Frame' = InValues("Exit") /\ FrameStack' = FrameStack /\ LocalValues' = LocalValues
        /\ Pos' = Pos /\ copied' = copied
    BY <1>3, <1>4, <1>5, <1>6, SameFrame DEF ReadIntValuesLoop, Goto
  <2>2. ReadsValues("Exit", e, d)'
    BY <2>1, <1>2, <1>3 DEF ReadsValues, Frames, Ends, BlockAhead, Opened
  <2>3. Pos'.Index = LocalValues'[d + 1]
    <3>1. \A p, q \in Nat : p >= q /\ p <= q => p = q
      OBVIOUS
    <3>2. idx[j] = limit
      BY <3>1, <1>3, <1>4, <1>6, Zenon
    <3>. QED
      BY <3>2, <2>1, <1>3
  <2>. QED
    BY <2>1, <2>2, <2>3, <1>1, <1>2, <1>3, Rests DEF Midway
<1>7. CASE ~(idx[j] >= limit)
  <2>1. idx[j] < limit /\ idx[j] + 1 <= limit
    <3>1. \A p, q \in Nat : ~(p >= q) => p < q /\ p + 1 <= q
      OBVIOUS
    <3>. QED
      BY <3>1, <1>3, <1>4, <1>7, Zenon
  <2>2. /\ Pos' = [Pos EXCEPT !.Index = idx[j] + 1]
        /\ Output(written[j + 1], UNCHANGED << Frame, FrameStack, LocalValues >>, Fail)
    BY <2>1, <1>3, <1>4, <1>7 DEF ReadIntValuesLoop, AfterRead, ValueAt
  <2>3. /\ Pos' \in [Index : Nat, EnclosingBlocks : Seq(Nat), NextBlock : Nat, EndBlocks : Nat]
        /\ Pos'.EndBlocks = Pos.EndBlocks /\ Pos'.Index = idx[j] + 1
        /\ Pos'.EnclosingBlocks = e /\ Pos'.NextBlock = opn[j] + 1
    <3>1. idx[j] + 1 \in Nat
      BY <1>3
    <3>. QED
      BY <3>1, <2>2, <1>3
  <2>4. CASE copied' = Append(copied, "refused") /\ Fail
    BY <2>3, <2>4, <1>1, Refuses
  <2>5. CASE /\ copied' = Append(copied, written[j + 1])
             /\ UNCHANGED << Frame, FrameStack, LocalValues >>
    <3>1. /\ idx[j + 1] = idx[j] + 1 /\ enc[j + 1] = e /\ opn[j + 1] = opn[j]
          /\ j + 1 < Calls
      <4>1. /\ Stepped(idx, enc, opn, j + 1) /\ (written[j + 1] = "eof" <=> j + 1 = Calls)
            /\ written[j + 1] \in Value
        BY <2>1, <1>2, <1>3, <1>4, NextCall DEF During, Amid
      <4>2. "eof" \notin Value /\ j + 1 - 1 = j
        BY <1>3, IntCopyAssumption
      <4>. QED
        BY <4>1, <4>2, <1>2, <1>3 DEF Stepped
    <3>2. /\ copied' \in Seq(Event \cup {"refused"}) /\ j + 1 \in 0 .. Calls
          /\ Reached(j + 1, idx, enc, opn)'
      BY <2>3, <2>5, <3>1, <1>1, <1>2, Takes
    <3>3. ReadsValues("Loop", enc[j + 1], Len(enc[j + 1]))'
      <4>1. /\ stream' = stream /\ Pos'.EnclosingBlocks = Pos.EnclosingBlocks
            /\ Pos'.NextBlock = Pos.NextBlock
        BY <2>3, <1>3
      <4>2. BlockAhead' <=> BlockAhead
        BY <4>1 DEF BlockAhead, Opened
      <4>3. ReadsValues("Loop", e, d)'
        BY <4>1, <4>2, <2>1, <2>3, <2>5, <1>5 DEF ReadsValues, Frames, Ends
      <4>. QED
        BY <4>3, <3>1
    <3>5. ReaderTypeOK'
      BY <2>3, <2>5, <3>2, <1>1, <1>3 DEF ReaderTypeOK, During, Amid
    <3>6. Calls' = Calls /\ header' = stream'.Header
      BY <1>1, <1>2, Around DEF Calls
    <3>. QED
      BY <3>1, <3>2, <3>3, <3>5, <3>6 DEF Onward, Passing, Midway
  <2>. QED
    BY <2>2, <2>4, <2>5 DEF Output
<1>. QED
  BY <1>6, <1>7

LEMMA StepExitMethod ==
  ASSUME NEW j, NEW idx, NEW enc, NEW opn, During(j, idx, enc, opn), ExitMethod
  PROVE  Onward(idx, enc, opn)
<1>. DEFINE e == enc[j]
            d == Len(e)
<1>1. /\ LocalValues' = Front(LocalValues) /\ popAndReturn
      /\ Pos' = Pos /\ copied' = copied /\ header' = header
  BY DEF ExitMethod
<1>2. /\ d \in Nat /\ d >= 1 /\ e[d] = Last(e)
      /\ stream' = stream /\ FrameStack \in Seq(CallFrame) /\ LocalValues \in Seq(Nat)
      /\ Pos.EnclosingBlocks = e
  BY Around
<1>3. AtEndOfBlock' <=> AtEndOfBlock
  BY <1>1, <1>2 DEF AtEndOfBlock
<1>4. BlockAhead' <=> BlockAhead
  BY <1>1, <1>2 DEF BlockAhead, Opened
<1>5. CASE At("ReadIntBlock", "Exit")
  <2>1. ReadsBlock("Exit", e, d) /\ AtEndOfBlock /\ j < Calls /\ header = stream.Header
    BY <1>5, Mode DEF During, Amid, At
  <2>2. /\ Len(FrameStack) = d + 1 /\ Frames(d + 1) /\ Len(LocalValues) = d /\ Ends(e, d)
    BY <2>1 DEF ReadsBlock
  <2>3. Frames(d)
    BY <2>2, <1>2 DEF Frames
  <2>4. /\ FrameStack' \in Seq(CallFrame) /\ Len(FrameStack') = d
        /\ \A i \in 1 .. d : FrameStack'[i] = FrameStack[i]
        /\ d >= 2 => Frames(d)'
        /\ Frame' = FrameStack[d + 1]
    BY <2>2, <2>3, <1>1, <1>2, PopFrame
  <2>5. LocalValues' \in Seq(Nat) /\ Len(LocalValues') = d - 1 /\ Ends(e, d - 1)'
    <3>1. /\ d - 1 \in Nat /\ d - 1 + 1 = d
          /\ \A i \in 1 .. d - 1 : i \in 1 .. d
      <4>1. \A n \in Nat : n >= 1 =>
              n - 1 \in Nat /\ n - 1 + 1 = n /\ \A i \in 1 .. n - 1 : i \in 1 .. n
        OBVIOUS
      <4>. QED
        BY <4>1, <1>2, Zenon
    <3>2. Ends(e, d - 1)
      BY <3>1, <2>2, Zenon DEF Ends
    <3>3. Len(LocalValues) = d - 1 + 1
      BY <3>1, <2>2
    <3>. QED
      BY <3>1, <3>2, <3>3, <1>1, <1>2, PopValue
  <2>6. CASE d = 1
    <3>1. Frame' = ExitFile
      BY <2>2, <2>4, <2>6 DEF Frames
    <3>2. FrameStack' = << Started >>
      <4>1. FrameStack'[1] = Started
        BY <2>2, <2>4, <2>6 DEF Frames
      <4>. QED
        BY <4>1, <2>4, <2>6, ShortSequences
    <3>3. LocalValues' = << >>
      <4>1. Len(LocalValues') = 0
        BY <2>5, <2>6
      <4>. QED
        BY <4>1, <2>5, ShortSequences
    <3>4. Midway(e, d)'
      BY <2>1, <2>6, <3>1, <3>2, <3>3, <1>3 DEF Midway
    <3>. QED
      BY <2>1, <2>4, <2>5, <3>4, <1>1, Rests
  <2>7. CASE d # 1
    <3>1. d > 1 /\ d >= 2 /\ d + 1 \in 3 .. d + 1
      <4>1. \A n \in Nat : n >= 1 /\ n # 1 => n > 1 /\ n >= 2 /\ n + 1 \in 3 .. n + 1
        OBVIOUS
      <4>. QED
        BY <4>1, <2>7, <1>2, Zenon
    <3>2. Frame' = InBlock("Step3")
      BY <2>2, <2>4, <3>1 DEF Frames
    <3>3. Midway(e, d)'
      BY <2>1, <2>4, <2>5, <3>1, <3>2, <1>3 DEF Midway
    <3>. QED
      BY <2>1, <2>4, <2>5, <3>3, <1>1, Rests
  <2>. QED
    BY <2>6, <2>7
<1>6. CASE At("ReadIntValues", "Exit")
  <2>1. /\ ReadsValues("Exit", e, d) /\ Pos.Index = LocalValues[d + 1]
        /\ j < Calls /\ header = stream.Header
    BY <1>6, Mode DEF During, Amid, At
  <2>2. /\ Len(FrameStack) = d + 2 /\ Frames(d + 1) /\ Len(LocalValues) = d + 1 /\ Ends(e, d)
        /\ \/ /\ BlockAhead /\ FrameStack[d + 2] = InBlock("Step2")
              /\ LocalValues[d + 1] = getBeginIndex(stream, Pos.NextBlock)
           \/ /\ FrameStack[d + 2] = InBlock("Exit")
              /\ LocalValues[d + 1] = getEndIndex(stream, Last(Pos.EnclosingBlocks))
    BY <2>1 DEF ReadsValues
  <2>3. d + 1 \in Nat /\ d + 1 >= 2 /\ d + 1 + 1 = d + 2
    BY <1>2
  <2>4. /\ FrameStack' \in Seq(CallFrame) /\ Len(FrameStack') = d + 1
        /\ Frames(d + 1)' /\ Frame' = FrameStack[d + 2]
    BY <2>2, <2>3, <1>1, <1>2, PopFrame
  <2>5. LocalValues' \in Seq(Nat) /\ Len(LocalValues') = d /\ Ends(e, d)'
    BY <2>2, <1>1, <1>2, PopValue
  <2>6. CASE /\ BlockAhead /\ FrameStack[d + 2] = InBlock("Step2")
             /\ LocalValues[d + 1] = getBeginIndex(stream, Pos.NextBlock)
    <3>1. ReadsBlock("Step2", e, d)'
      BY <2>4, <2>5, <2>6 DEF ReadsBlock
    <3>2. Pos'.Index = getBeginIndex(stream', Pos'.NextBlock)
      BY <2>1, <2>6, <1>1, <1>2
    <3>3. Midway(e, d)'
      BY <2>6, <3>1, <3>2, <1>4 DEF Midway
    <3>. QED
      BY <2>1, <2>4, <2>5, <3>3, <1>1, Rests
  <2>7. CASE /\ FrameStack[d + 2] = InBlock("Exit")
             /\ LocalValues[d + 1] = getEndIndex(stream, Last(Pos.EnclosingBlocks))
    <3>1. ReadsBlock("Exit", e, d)'
      BY <2>4, <2>5, <2>7 DEF ReadsBlock
    <3>2. AtEndOfBlock'
      BY <2>1, <2>7, <1>3 DEF AtEndOfBlock
    <3>3. Midway(e, d)'
      BY <3>1, <3>2 DEF Midway
    <3>. QED
      BY <2>1, <2>4, <2>5, <3>3, <1>1, Rests
  <2>. QED
    BY <2>2, <2>6, <2>7
<1>. QED
  BY <1>5, <1>6 DEF ExitMethod
LEMMA StepGetFileExit ==
  ASSUME NEW j, NEW idx, NEW enc, NEW opn, During(j, idx, enc, opn), GetFileExit
  PROVE  Onward(idx, enc, opn)
<1>1. /\ At("GetFile", "Exit") /\ Pos' = Pos /\ header' = header
      /\ Output("eof", popAndReturn /\ UNCHANGED LocalValues, Fail)
  BY DEF GetFileExit
<1>2. /\ FrameStack = << Started >> /\ LocalValues = << >> /\ Len(enc[j]) = 1 /\ AtEndOfBlock
      /\ j < Calls /\ header = stream.Header
  BY <1>1, Mode DEF During, Amid
<1>3. /\ idx[j] \in Nat /\ j \in Nat /\ Calls \in Nat
      /\ stream' = stream /\ written' = written /\ stream.isFrozen
      /\ Pos.Index = idx[j] /\ Pos.EnclosingBlocks = enc[j] /\ Pos.NextBlock = opn[j] + 1
      /\ Pos \in [Index : Nat, EnclosingBlocks : Seq(Nat), NextBlock : Nat, EndBlocks : Nat]
  BY Around
<1>4. CASE copied' = Append(copied, "refused") /\ Fail
  BY <1>1, <1>3, <1>4, Refuses
<1>5. CASE copied' = Append(copied, "eof") /\ popAndReturn /\ UNCHANGED LocalValues
  <2>1. Stepped(idx, enc, opn, j + 1) /\ j + 1 - 1 = j /\ j + 1 \in Nat
    BY <1>2, <1>3, NextCall DEF During, Amid
  <2>2. written[j + 1] = "eof" /\ j + 1 = Calls
    <3>1. idx[j] = getEndIndex(stream, Last(enc[j]))
      BY <1>2, <1>3 DEF AtEndOfBlock
    <3>2. /\ written[j + 1] \in {"exit", "eof"} /\ (written[j + 1] = "eof" <=> j + 1 = Calls)
      BY <3>1, <1>2, <1>3, NextCall DEF During, Amid
    <3>3. written[j + 1] = "exit" => Len(enc[j]) > 1
      BY <2>1, <1>3 DEF Stepped
    <3>. QED
      BY <3>2, <3>3, <1>2
  <2>3. idx[j + 1] = idx[j] /\ enc[j + 1] = enc[j] /\ opn[j + 1] = opn[j]
    <3>1. "eof" \notin Value
      BY IntCopyAssumption
    <3>. QED
      BY <3>1, <2>1, <2>2, <1>3 DEF Stepped
  <2>4. /\ copied' \in Seq(Event \cup {"refused"}) /\ j + 1 \in 0 .. Calls
        /\ Reached(j + 1, idx, enc, opn)'
    BY <2>2, <2>3, <1>1, <1>2, <1>3, <1>5, Takes
  <2>5. Frame' = Started /\ FrameStack' = << >>
    <3>1. FrameStack # << >> /\ Last(FrameStack) = Started /\ Front(FrameStack) = << >>
      BY <1>2 DEF Last, Front
    <3>. QED
      BY <3>1, <1>5 DEF popAndReturn
  <2>6. Ended(j + 1)'
    BY <2>2, <2>5, <1>1, <1>2, <1>3, <1>5 DEF Ended, Calls
  <2>7. ReaderTypeOK'
    BY <2>4, <2>5, <1>1, <1>5 DEF ReaderTypeOK, During, Amid
  <2>8. Calls' = Calls
    BY <1>3 DEF Calls
  <2>. QED
    BY <2>4, <2>6, <2>7, <2>8 DEF Onward, Passing
<1>. QED
  BY <1>1, <1>4, <1>5 DEF Output

\* The call that froze the stream ended the top block where the writer was.
LEMMA FrozenEnd ==
  ASSUME NEW idx, NEW enc, NEW opn, TypeOK, WriterInv(idx, enc, opn), stream.isFrozen
  PROVE  /\ Calls \in Nat /\ Calls > 0 /\ idx[Calls] \in Nat
         /\ idx[Calls] = stream.TopEnd /\ Len(enc[Calls]) = 1 /\ enc[Calls][1] = TopBlock
<1>1. Calls \in Nat /\ Calls > 0 /\ written[Calls] = "eof"
  BY DEF WriterInv, AtLast, TypeOK, Calls
<1>2. Calls \in 1 .. Calls /\ Calls \in 0 .. Calls
  BY <1>1
<1>3. Stepped(idx, enc, opn, Calls) /\ Kept(idx, enc, opn, Calls) /\ Placed(idx, enc, opn, Calls)
  BY <1>2 DEF WriterInv, Positions
<1>4. idx[Calls] \in Nat
  BY <1>2 DEF WriterInv, Positions
<1>5. "eof" \notin Value
  BY IntCopyAssumption
<1>. QED
  BY <1>1, <1>3, <1>4, <1>5 DEF Stepped, Kept, Placed, Nested

LEMMA StepFinishReading ==
  ASSUME NEW j, NEW idx, NEW enc, NEW opn, During(j, idx, enc, opn), FinishReading
  PROVE  Onward(idx, enc, opn)
<1>1. Ended(j)
  BY Mode DEF During, Amid, FinishReading
<1>2. /\ j \in 0 .. Calls /\ Calls \in Nat /\ stream' = stream /\ written' = written
      /\ Pos.Index = idx[j] /\ Pos.EnclosingBlocks = enc[j] /\ stream.isFrozen
  BY Around DEF During, Amid
<1>3. /\ j = Calls /\ idx[j] = stream.TopEnd /\ idx[j] \in Nat
      /\ Len(enc[j]) = 1 /\ enc[j][1] = TopBlock
  BY <1>1, <1>2, FrozenEnd DEF During, Amid, Ended
<1>4. atEnd(stream, Pos)
  <2>1. Head(enc[j]) = TopBlock
    BY <1>3
  <2>. QED
    BY <2>1, <1>2, <1>3 DEF atEnd, atEof, getEndIndex
<1>5. /\ Frame' = [CallMethod |-> "Finished", CallState |-> "Succeeded"]
      /\ UNCHANGED << LocalValues, Pos, FrameStack, copied, header >>
  BY <1>4 DEF FinishReading
<1>6. Ended(j)'
  BY <1>1, <1>2, <1>5 DEF Ended, Calls
<1>7. Reached(j, idx, enc, opn)'
  BY <1>2, <1>5 DEF During, Amid, Passing, Reached, Begun, Opened, Copied, Calls
<1>8. ReaderTypeOK'
  BY <1>5 DEF During, Amid, ReaderTypeOK
<1>9. Passing(j, idx, enc, opn)'
  BY <1>6, <1>7 DEF Passing
<1>. QED
  BY <1>2, <1>8, <1>9 DEF Onward, Calls

LEMMA StepStart ==
  ASSUME NEW idx, NEW enc, NEW opn, TypeOK, WriterInv(idx, enc, opn), ReaderTypeOK,
         NotStarted, Start
  PROVE  Onward(idx, enc, opn)
<1>1. /\ stream.isFrozen /\ stream' = stream /\ written' = written
      /\ Pos' = NewReadCursor(stream)
      /\ Frame' = [CallMethod |-> "GetFile", CallState |-> "Enter"]
      /\ FrameStack' = << Started >> /\ LocalValues' = << >>
      /\ copied' = << >> /\ header' = << >>
  BY DEF Start, call, NotStarted, wvars
<1>2. /\ Opened \in Nat /\ Calls \in Nat /\ Calls' = Calls /\ Opened' = Opened
      /\ 0 \in 0 .. Calls
  BY <1>1 DEF TypeOK, Stream, Opened, Calls
<1>3. idx[0] = 0 /\ enc[0] = << TopBlock >> /\ opn[0] = 0
  BY DEF WriterInv, Positions
<1>4. Pos' = [Index |-> 0, EnclosingBlocks |-> << 0 >>, NextBlock |-> 1, EndBlocks |-> Opened + 1]
  BY <1>1 DEF NewReadCursor, TopBlock, Opened
<1>5. ReaderTypeOK'
  <2>1. << 0 >> \in Seq(Nat) /\ Opened + 1 \in Nat
    BY <1>2
  <2>2. Pos' \in [Index : Nat, EnclosingBlocks : Seq(Nat), NextBlock : Nat, EndBlocks : Nat]
    BY <2>1, <1>4
  <2>3. FrameStack' \in Seq(CallFrame)
    BY <1>1 DEF CallFrame
  <2>. QED
    BY <2>2, <2>3, <1>1 DEF ReaderTypeOK
<1>6. Reached(0, idx, enc, opn)'
  BY <1>1, <1>2, <1>3, <1>4 DEF Reached, Begun, Copied, TopBlock
<1>7. Passing(0, idx, enc, opn)'
  BY <1>1, <1>6 DEF Passing, Beginning
<1>. QED
  BY <1>2, <1>5, <1>7 DEF Onward

\* Once it has begun, nothing but the methods above takes a step.
LEMMA StepReading ==
  ASSUME NEW idx, NEW enc, NEW opn, TypeOK, WriterInv(idx, enc, opn),
         ReaderInv(idx, enc, opn), Reading
  PROVE  Onward(idx, enc, opn) /\ UNCHANGED wvars
<1>1. UNCHANGED wvars
  BY DEF Reading, Start, GetFileEnter, GetFileExit, EnterLoop, ReadIntBlockLoop,
         ReadIntBlockOpen, ReadIntBlockClose, ReadIntValuesLoop, ExitMethod, FinishReading
<1>2. ReaderTypeOK
  BY DEF ReaderInv
<1>3. CASE NotStarted
  <2>1. Start
    BY <1>3 DEF Reading, NotStarted, Started, At, GetFileEnter, GetFileExit, EnterLoop,
                ReadIntBlockLoop, ReadIntBlockOpen, ReadIntBlockClose, ReadIntValuesLoop,
                ExitMethod, FinishReading
  <2>. QED
    BY <1>1, <1>2, <1>3, <2>1, StepStart
<1>4. ASSUME Begun PROVE ~Start
  <2>1. Pos.EndBlocks # 0
    BY <1>4 DEF Begun, TypeOK, Stream, Opened
  <2>. QED
    BY <2>1 DEF Start, NoReader
<1>5. CASE GivenUp
  <2>1. Begun /\ Frame.CallMethod \in {"Finished", "Exited"}
    BY <1>5 DEF GivenUp, Exited
  <2>2. FALSE
    BY <1>4, <2>1 DEF Reading, At, GetFileEnter, GetFileExit, EnterLoop,
                ReadIntBlockLoop, ReadIntBlockOpen, ReadIntBlockClose, ReadIntValuesLoop,
                ExitMethod, FinishReading
  <2>. QED
    BY <2>2
<1>6. CASE \E j \in 0 .. Calls : Passing(j, idx, enc, opn)
  <2>1. PICK j \in 0 .. Calls : Passing(j, idx, enc, opn)
    BY <1>6
  <2>2. During(j, idx, enc, opn)
    BY <2>1, <1>1, <1>2 DEF During, Amid
  <2>3. ~Start
    BY <2>1, <1>4 DEF Passing, Reached
  <2>. QED
    BY <1>1, <2>2, <2>3, StepGetFileEnter, StepGetFileExit, StepEnterLoop,
       StepReadIntBlockLoop, StepReadIntBlockOpen, StepReadIntBlockClose,
       StepReadIntValuesLoop, StepExitMethod, StepFinishReading DEF Reading
<1>. QED
  BY <1>3, <1>5, <1>6 DEF ReaderInv

---------------------------------------------------------------------------
(***************************************************************************)
(* The invariant and what follows from it.                                 *)
(***************************************************************************)

LEMMA InitIInv == Init => IInv
<1>. SUFFICES ASSUME Init PROVE IInv
  OBVIOUS
<1>1. /\ stream = NewStream /\ wpos = NewCursor /\ written = << >>
      /\ MaxIndex \in Nat /\ MaxEvents \in Nat
  BY IntStreamAssumption, IntCopyAssumption DEF Init
<1>2. TypeOK
  BY <1>1 DEF TypeOK, NewStream, NewCursor, Stream, TopBlock
<1>3. /\ Calls = 0 /\ Opened = 0 /\ 0 .. 0 = {0}
  BY <1>1 DEF Calls, Opened, NewStream
<1>4. PICK idx, enc, opn : /\ idx = [k \in {0} |-> 0] /\ enc = [k \in {0} |-> << TopBlock >>]
                           /\ opn = [k \in {0} |-> 0]
  OBVIOUS
<1>5. Positions(idx, enc, opn)
  <2>1. << TopBlock >> \in Seq(Nat)
    BY DEF TopBlock
  <2>2. /\ idx \in [0 .. Calls -> Nat] /\ enc \in [0 .. Calls -> Seq(Nat)]
        /\ opn \in [0 .. Calls -> Nat]
    BY <2>1, <1>3, <1>4
  <2>3. idx[0] = 0 /\ enc[0] = << TopBlock >> /\ opn[0] = 0
    BY <1>4
  <2>4. Placed(idx, enc, opn, 0)
    BY <2>3, <1>3 DEF Placed, Nested, TopBlock
  <2>. QED
    BY <2>2, <2>3, <2>4, <1>3 DEF Positions
<1>6. AtLast(idx, enc, opn)
  BY <1>1, <1>3, <1>4 DEF AtLast, NewStream, NewCursor, getEndIndex, TopBlock
<1>7. WriterInv(idx, enc, opn)
  BY <1>3, <1>5, <1>6 DEF WriterInv
<1>8. ReaderInv(idx, enc, opn)
  <2>1. << >> \in Seq(Nat) /\ NoReader \in
          [Index : Nat, EnclosingBlocks : Seq(Nat), NextBlock : Nat, EndBlocks : Nat]
    BY DEF NoReader
  <2>. QED
    BY <2>1 DEF Init, ReaderInv, ReaderTypeOK, NotStarted
<1>. QED
  BY <1>2, <1>7, <1>8 DEF IInv

\* A step that leaves the variables alone leaves what is known of them.
LEMMA SameWriter ==
  ASSUME NEW idx, NEW enc, NEW opn, WriterInv(idx, enc, opn), UNCHANGED wvars
  PROVE  WriterInv(idx, enc, opn)'
<1>1. stream' = stream /\ wpos' = wpos /\ written' = written
  BY DEF wvars
<1>2. Calls' = Calls /\ Opened' = Opened
  BY <1>1 DEF Calls, Opened
<1>3. Positions(idx, enc, opn)'
  BY <1>1, <1>2 DEF WriterInv, Positions, Stepped, Placed
<1>4. AtLast(idx, enc, opn)'
  BY <1>1, <1>2 DEF WriterInv, AtLast
<1>5. \A k \in 1 .. Calls' : Kept(idx, enc, opn, k)'
  BY <1>1, <1>2 DEF WriterInv, Kept
<1>. QED
  BY <1>2, <1>3, <1>4, <1>5 DEF WriterInv

LEMMA SameReader ==
  ASSUME NEW idx, NEW enc, NEW opn, ReaderInv(idx, enc, opn), UNCHANGED << wvars, rvars >>
  PROVE  ReaderInv(idx, enc, opn)'
<1>1. /\ stream' = stream /\ written' = written /\ Pos' = Pos /\ Frame' = Frame
      /\ FrameStack' = FrameStack /\ LocalValues' = LocalValues
      /\ copied' = copied /\ header' = header
  BY DEF wvars, rvars
<1>2. Calls' = Calls /\ Opened' = Opened
  BY <1>1 DEF Calls, Opened
<1>3. ReaderTypeOK'
  BY <1>1 DEF ReaderInv, ReaderTypeOK
<1>4. NotStarted => NotStarted'
  BY <1>1 DEF NotStarted
<1>5. GivenUp => GivenUp'
  BY <1>1, <1>2 DEF GivenUp, Begun, Refused, Copied
<1>6. ASSUME NEW j, Passing(j, idx, enc, opn) PROVE Passing(j, idx, enc, opn)'
  <2>1. Reached(j, idx, enc, opn)'
    BY <1>1, <1>2, <1>6 DEF Passing, Reached, Begun, Copied
  <2>2. Beginning(j) => Beginning(j)'
    BY <1>1 DEF Beginning
  <2>3. Ended(j) => Ended(j)'
    BY <1>1, <1>2 DEF Ended
  <2>4. Midway(enc[j], Len(enc[j])) => Midway(enc[j], Len(enc[j]))'
    BY <1>1, <1>2 DEF Midway, ReadsBlock, ReadsValues, Frames, Ends, AtEndOfBlock, BlockAhead
  <2>. QED
    BY <2>1, <2>2, <2>3, <2>4, <1>1, <1>2, <1>6 DEF Passing
<1>. QED
  BY <1>2, <1>3, <1>4, <1>5, <1>6 DEF ReaderInv

\* The invariant is inductive.
LEMMA NextIInv ==
  ASSUME ~EmptyAtEnd, IInv, [Next]_vars
  PROVE  IInv'
<1>1. PICK idx, enc, opn : WriterInv(idx, enc, opn) /\ ReaderInv(idx, enc, opn)
  BY DEF IInv
<1>2. TypeOK
  BY DEF IInv
<1>3. CASE UNCHANGED vars
  <2>1. UNCHANGED wvars /\ UNCHANGED rvars
    BY <1>3 DEF vars
  <2>2. TypeOK'
    BY <2>1, <1>2 DEF TypeOK, wvars
  <2>3. WriterInv(idx, enc, opn)'
    BY <2>1, <1>1, SameWriter
  <2>4. ReaderInv(idx, enc, opn)'
    BY <2>1, <1>1, SameReader
  <2>. QED
    BY <2>2, <2>3, <2>4 DEF IInv
<1>4. CASE Writing
  <2>1. /\ TypeOK' /\ UNCHANGED rvars /\ ~stream.isFrozen
        /\ \E i, c, o : WriterInv(i, c, o)'
    BY <1>1, <1>2, <1>4, WriterStep
  <2>2. PICK i, c, o : WriterInv(i, c, o)'
    BY <2>1
  <2>4. NotStarted /\ ReaderTypeOK
    BY <2>1, <1>1 DEF ReaderInv, GivenUp, Passing, Reached, Begun
  <2>3. ReaderInv(i, c, o)'
    BY <2>1, <2>4 DEF ReaderInv, ReaderTypeOK, NotStarted, rvars
  <2>. QED
    BY <2>1, <2>2, <2>3 DEF IInv
<1>5. CASE Reading
  <2>1. Onward(idx, enc, opn) /\ UNCHANGED wvars
    BY <1>1, <1>2, <1>5, StepReading
  <2>2. TypeOK'
    BY <2>1, <1>2 DEF TypeOK, wvars
  <2>3. WriterInv(idx, enc, opn)'
    BY <2>1, <1>1, SameWriter
  <2>4. Calls' = Calls
    BY <2>1 DEF wvars, Calls
  <2>5. ReaderInv(idx, enc, opn)'
    BY <2>1, <2>4 DEF Onward, ReaderInv
  <2>. QED
    BY <2>2, <2>3, <2>5 DEF IInv
<1>. QED
  BY <1>3, <1>4, <1>5 DEF Next

\* Whatever is written into a stream, a pass that a Writer does not cut short
\* makes the calls again, each where it was made, and no others.
THEOREM InvariantHolds == ~EmptyAtEnd /\ Spec => []IInv
<1>. SUFFICES ASSUME ~EmptyAtEnd PROVE Spec => []IInv
  OBVIOUS
<1>1. IInv /\ [Next]_vars => IInv'
  BY NextIInv
<1>. QED
  BY <1>1, InitIInv, PTL DEF Spec

\* The first calls that wrote the stream are a prefix of them all.
LEMMA CopiedIsPrefix ==
  ASSUME TypeOK, NEW q \in Seq(Event), Len(q) <= Calls,
         \A i \in 1 .. Len(q) : q[i] = written[i]
  PROVE  IsPrefix(q, written)
<1>. DEFINE n == Len(q)
<1>1. n \in Nat /\ 1 \in Int /\ n \in Int /\ n <= Calls /\ written \in Seq(Event)
      /\ Calls = Len(written)
  BY DEF TypeOK, Calls
<1>2. /\ \A i \in 1 .. n : q[i] \in Event
      /\ \A i \in 1 .. n : written[i] \in Event
  BY <1>1 DEF Calls
<1>. HIDE DEF n
<1>3. /\ SubSeq(q, 1, n) \in Seq(Event) /\ SubSeq(written, 1, n) \in Seq(Event)
      /\ Len(SubSeq(q, 1, n)) = IF 1 <= n THEN n - 1 + 1 ELSE 0
      /\ Len(SubSeq(written, 1, n)) = IF 1 <= n THEN n - 1 + 1 ELSE 0
      /\ \A i \in 1 .. n - 1 + 1 : SubSeq(q, 1, n)[i] = q[1 + i - 1]
      /\ \A i \in 1 .. n - 1 + 1 : SubSeq(written, 1, n)[i] = written[1 + i - 1]
  BY <1>1, <1>2, SubSeqProperties, Z3
<1>4. /\ Len(SubSeq(q, 1, n)) = n /\ Len(SubSeq(written, 1, n)) = n
      /\ \A i \in 1 .. n : SubSeq(q, 1, n)[i] = SubSeq(written, 1, n)[i]
  BY <1>1, <1>3 DEF n
<1>5. SubSeq(q, 1, n) = SubSeq(written, 1, n)
  BY <1>3, <1>4, SeqEqual
<1>. QED
  BY <1>1, <1>5 DEF IsPrefix, n, Calls

\* Once the reader has begun, the calls the Writer took are the first of those
\* that wrote the stream; only when it gave up is there one the Writer refused.
LEMMA AcceptedInOrder ==
  ASSUME IInv
  PROVE  IsPrefix(Accepted, written)
<1>1. PICK idx, enc, opn : WriterInv(idx, enc, opn) /\ ReaderInv(idx, enc, opn)
  BY DEF IInv
<1>2. TypeOK /\ copied \in Seq(Event \cup {"refused"}) /\ Calls \in Nat
      /\ written \in Seq(Event)
  BY <1>1 DEF IInv, TypeOK, Calls, ReaderInv, ReaderTypeOK
<1>3. "refused" \notin Event
  BY IntCopyAssumption DEF Event
<1>4. CASE NotStarted
  <2>1. Accepted = << >>
    BY <1>4 DEF NotStarted, Accepted, Refused
  <2>2. /\ << >> \in Seq(Event) /\ Len(<< >>) = 0
        /\ \A i \in 1 .. Len(<< >>) : << >>[i] = written[i]
    OBVIOUS
  <2>3. Accepted \in Seq(Event) /\ Len(Accepted) <= Calls
    BY <2>1, <2>2, <1>2
  <2>. QED
    BY <2>1, <2>2, <2>3, <1>2, CopiedIsPrefix
<1>5. CASE GivenUp
  <2>1. /\ Accepted = Front(copied) /\ Len(copied) \in Nat /\ Len(copied) >= 1
        /\ Copied(Len(copied) - 1)
    BY <1>2, <1>5 DEF GivenUp, Accepted, Refused
  <2>2. /\ Front(copied) \in Seq(Event \cup {"refused"})
        /\ Len(Front(copied)) = Len(copied) - 1
        /\ \A i \in 1 .. Len(copied) - 1 : Front(copied)[i] = copied[i]
    BY <2>1, <1>2, FrontOf
  <2>3. \A i \in 1 .. Len(Accepted) : Accepted[i] = written[i]
    BY <2>1, <2>2 DEF Copied
  <2>4. Len(Accepted) <= Calls
    BY <2>1, <2>2 DEF Copied
  <2>5. Accepted \in Seq(Event)
    <3>1. \A i \in 1 .. Len(Accepted) : Accepted[i] \in Event
      BY <2>1, <2>2, <2>3, <2>4, <1>2 DEF Calls
    <3>. QED
      BY <2>1, <2>2, <3>1
  <2>. QED
    BY <2>3, <2>4, <2>5, <1>2, CopiedIsPrefix
<1>6. ASSUME NEW j \in 0 .. Calls, Passing(j, idx, enc, opn)
      PROVE  IsPrefix(Accepted, written)
  <2>1. Len(copied) = j /\ Copied(j) /\ j \in Nat
    BY <1>6 DEF Passing, Reached
  <2>2. \A i \in 1 .. Len(copied) : copied[i] = written[i] /\ copied[i] \in Event
    BY <2>1, <1>2, <1>6 DEF Copied, Calls
  <2>3. ~Refused
    <3>1. ASSUME copied # << >> PROVE Last(copied) \in Event
      <4>1. Len(copied) >= 1
        BY <3>1, <1>2
      <4>2. Last(copied) = copied[Len(copied)] /\ Len(copied) \in 1 .. Len(copied)
        BY <4>1, <1>2, LastOf
      <4>. QED
        BY <4>2, <2>2
    <3>. QED
      BY <3>1, <1>3 DEF Refused
  <2>4. copied \in Seq(Event)
    BY <2>2, <1>2
  <2>. QED
    BY <2>1, <2>2, <2>3, <2>4, <1>2, <1>6, CopiedIsPrefix DEF Accepted
<1>. QED
  BY <1>1, <1>4, <1>5, <1>6 DEF ReaderInv

\* The properties follow from the invariant.
LEMMA OrderFromIInv ==
  ASSUME IInv
  PROVE  CopiesWritten /\ CopiesInOrder
<1>1. PICK idx, enc, opn : WriterInv(idx, enc, opn) /\ ReaderInv(idx, enc, opn)
  BY DEF IInv
<1>2. ASSUME At("Finished", "Succeeded")
      PROVE  copied = written /\ header = stream.Header
  <2>1. PICK j \in 0 .. Calls : Passing(j, idx, enc, opn)
    BY <1>1, <1>2 DEF ReaderInv, NotStarted, GivenUp, Exited, Started, At
  <2>2. Ended(j)
    BY <2>1, <1>2 DEF Passing, Beginning, Midway, ReadsBlock, ReadsValues, At, InBlock, InValues, ExitFile
  <2>3. /\ Len(copied) = Len(written) /\ \A i \in 1 .. Len(copied) : copied[i] = written[i]
        /\ header = stream.Header
    BY <2>1, <2>2 DEF Passing, Reached, Ended, Copied, Calls
  <2>4. copied \in Seq(Event \cup {"refused"}) /\ written \in Seq(Event \cup {"refused"})
    BY <1>1 DEF ReaderInv, ReaderTypeOK, IInv, TypeOK
  <2>5. copied = written
    BY <2>3, <2>4, SeqEqual
  <2>. QED
    BY <2>3, <2>5
<1>. QED
  BY <1>2, AcceptedInOrder DEF CopiesInOrder, CopiesWritten

LEMMA FailsFromIInv ==
  ASSUME IInv
  PROVE  FailsOnlyIfRefused
<1>1. PICK idx, enc, opn : ReaderInv(idx, enc, opn)
  BY DEF IInv
<1>2. ASSUME NEW j, Passing(j, idx, enc, opn), At("Finished", "Failed") \/ Frame = Exited
      PROVE  FALSE
  BY <1>2 DEF Passing, Beginning, Midway, Ended, ReadsBlock, ReadsValues, At, InBlock, InValues,
              ExitFile, Started, Exited
<1>. QED
  BY <1>1, <1>2 DEF ReaderInv, NotStarted, GivenUp, FailsOnlyIfRefused, At, Started, Exited

\* A method that reads a block, or the values in it, is on its way.
LEMMA WithinBlock ==
  ASSUME IInv, Frame.CallMethod \in {"ReadIntBlock", "ReadIntValues"}
  PROVE  \E idx, enc, opn, j : Amid(j, idx, enc, opn) /\ j < Calls
<1>1. PICK idx, enc, opn : WriterInv(idx, enc, opn) /\ ReaderInv(idx, enc, opn)
  BY DEF IInv
<1>2. PICK j \in 0 .. Calls : Passing(j, idx, enc, opn)
  BY <1>1 DEF ReaderInv, NotStarted, GivenUp, Exited, Started
<1>3. j < Calls
  BY <1>2, Mode
<1>. QED
  BY <1>1, <1>2, <1>3 DEF IInv, ReaderInv, Amid

LEMMA LocalsFromIInv ==
  ASSUME IInv
  PROVE  LocalsMatchBlocks
<1>. SUFFICES ASSUME At("ReadIntBlock", "Loop")
              PROVE  /\ Last(LocalValues) = getEndIndex(stream, Last(Pos.EnclosingBlocks))
                     /\ hasMoreBlocks(Pos) => Pos.Index <= getBeginIndex(stream, Pos.NextBlock)
  BY DEF LocalsMatchBlocks
<1>1. PICK idx, enc, opn, j : Amid(j, idx, enc, opn) /\ j < Calls
  BY WithinBlock DEF At
<1>2. /\ stream.isFrozen /\ Pos.Index = idx[j] /\ Pos.EnclosingBlocks = enc[j]
      /\ Pos.NextBlock = opn[j] + 1 /\ Pos.EndBlocks = Opened + 1 /\ j \in Nat
      /\ opn[j] \in Nat /\ opn[j] <= Opened /\ Opened \in Nat
  BY <1>1, Here
<1>3. Len(LocalValues) = Len(enc[j]) /\ Ends(enc[j], Len(enc[j]))
  BY <1>1, Mode DEF Amid, ReadsBlock
<1>4. Last(LocalValues) = getEndIndex(stream, Last(enc[j]))
  BY <1>1, <1>3, Ahead
<1>5. opn[j] + 1 <= Opened => idx[j] <= getBeginIndex(stream, opn[j] + 1)
  BY <1>1, <1>2, NextCall DEF Amid
<1>6. hasMoreBlocks(Pos) => opn[j] + 1 <= Opened
  BY <1>2 DEF hasMoreBlocks
<1>. QED
  BY <1>2, <1>4, <1>5, <1>6

LEMMA StacksFromIInv ==
  ASSUME IInv
  PROVE  StacksMatch
<1>1. ASSUME Frame.CallMethod = "Finished" PROVE FrameStack = << >> /\ LocalValues = << >>
  <2>1. PICK idx, enc, opn : ReaderInv(idx, enc, opn)
    BY DEF IInv
  <2>2. ASSUME NEW j, Passing(j, idx, enc, opn) PROVE FrameStack = << >> /\ LocalValues = << >>
    BY <2>2, <1>1 DEF Passing, Beginning, Midway, Ended, ReadsBlock, ReadsValues, InBlock,
                      InValues, ExitFile
  <2>. QED
    BY <2>1, <2>2, <1>1 DEF ReaderInv, NotStarted, GivenUp, Exited
<1>. QED
  BY <1>1, LocalsFromIInv DEF StacksMatch

\* The asserts of IntStream::ReadCursor::read.
ReadsInBounds ==
  At("ReadIntValues", "Loop") /\ Pos.Index < Last(LocalValues) => canRead(stream, Pos)

LEMMA BoundsFromIInv ==
  ASSUME IInv
  PROVE  ReadsInBounds
<1>. SUFFICES ASSUME At("ReadIntValues", "Loop"), Pos.Index < Last(LocalValues)
              PROVE  canRead(stream, Pos)
  BY DEF ReadsInBounds
<1>1. PICK idx, enc, opn, j : Amid(j, idx, enc, opn) /\ j < Calls
  BY WithinBlock DEF At
<1>2. /\ Pos.Index = idx[j] /\ Pos.EnclosingBlocks = enc[j] /\ idx[j] \in Nat
      /\ getEndIndex(stream, Last(enc[j])) \in Nat
  BY <1>1, Here
<1>3. ReadsValues("Loop", enc[j], Len(enc[j]))
  BY <1>1, Mode DEF Amid
<1>4. idx[j] < Len(stream.Values) /\ idx[j] < getEndIndex(stream, Last(enc[j]))
  BY <1>1, <1>2, <1>3, ValueNext
<1>. QED
  BY <1>2, <1>4 DEF canRead

---------------------------------------------------------------------------
\* IntInterpreter::structuralRead calls the Writer in the order in which the
\* stream was written, blocks entered and left where they were, and leaves
\* nothing out when it succeeds: however many values there are, and however
\* deep the blocks are nested, if the algorithms leave no empty block at the end
\* of another (~EmptyAtEnd).
THEOREM CopyKeepsOrder == ~EmptyAtEnd /\ Spec => [](CopiesWritten /\ CopiesInOrder)
<1>1. IInv => CopiesWritten /\ CopiesInOrder
  BY OrderFromIInv
<1>. QED
  BY <1>1, InvariantHolds, PTL

\* What an IntWriter wrote an IntReader can read: a pass fails, or ends the
\* process in decode::fatal, only when the Writer refuses a call.
THEOREM CopyFailsOnlyIfRefused == ~EmptyAtEnd /\ Spec => []FailsOnlyIfRefused
<1>1. IInv => FailsOnlyIfRefused
  BY FailsFromIInv
<1>. QED
  BY <1>1, InvariantHolds, PTL

\* The end by which ReadIntBlock looks for nested blocks is that of the
\* reader's innermost block, no block still to be entered begins behind the
\* reader, and nothing is left on the stacks when the pass has returned, or a
\* value or the end of the file was refused and thrown out of.
THEOREM StacksMatchHolds == ~EmptyAtEnd /\ Spec => []StacksMatch
<1>1. IInv => StacksMatch
  BY StacksFromIInv
<1>. QED
  BY <1>1, InvariantHolds, PTL

\* ReadIntValues never reads behind the end of the block or of the stream: the
\* asserts of IntStream::ReadCursor::read hold.
THEOREM ReadsStayInBounds == ~EmptyAtEnd /\ Spec => []ReadsInBounds
<1>1. IInv => ReadsInBounds
  BY BoundsFromIInv
<1>. QED
  BY <1>1, InvariantHolds, PTL
=============================================================================
