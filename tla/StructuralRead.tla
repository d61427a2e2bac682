--------------------------- MODULE StructuralRead ---------------------------
(***************************************************************************)
(* What IntInterpreter::structuralRead makes of the calls that wrote a     *)
(* stream.  A block is known by where it begins and where it ends, and a   *)
(* method that is at the end of its block looks for no more: an empty      *)
(* block that is the last thing in the block around it is passed on after  *)
(* that has been left, and at the end of the stream not at all.  Module    *)
(* IntCopy, which has the steps, is checked against this.                  *)
(***************************************************************************)
EXTENDS Integers, Sequences, SequencesExt

\* How many empty blocks a sequence of calls ends with.
EmptiesAtEnd(calls, enter, exit) ==
  LET n == Len(calls)
  IN  Max({k \in 0 .. n \div 2 :
             \A i \in 1 .. k : calls[n - 2*i + 1] = enter /\ calls[n - 2*i + 2] = exit})

\* Without these, and just these.
WithoutEmpties(calls, enter, exit) ==
  SubSeq(calls, 1, Len(calls) - 2 * EmptiesAtEnd(calls, enter, exit))
OnlyEmpties(calls, enter, exit) ==
  SubSeq(calls, Len(WithoutEmpties(calls, enter, exit)) + 1, Len(calls))

\* The calls passed on for the calls that wrote the stream, but for the end of
\* the file.
Passed(calls, enter, exit) ==
  LET Then(passed, c) ==
        IF c = exit
        THEN WithoutEmpties(passed, enter, exit) \o << exit >> \o OnlyEmpties(passed, enter, exit)
        ELSE Append(passed, c)
  IN  WithoutEmpties(FoldLeft(Then, << >>, calls), enter, exit)

\* Of some streams this is all, in order: no empty block ends another, or the stream.
NoBlockEndsEmpty(calls, enter, exit) ==
  \A i \in 1 .. Len(calls) - 1 :
    calls[i] = enter /\ calls[i + 1] = exit =>
      i + 2 <= Len(calls) /\ calls[i + 2] # exit
=============================================================================
