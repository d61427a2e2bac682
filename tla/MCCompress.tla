----------------------------- MODULE MCCompress -----------------------------
EXTENDS AbbreviationCodegen

\* A value of one byte, and one that takes two.
MCValues == {1, 40}
Small == CHOOSE v \in Values : \A w \in Values : v <= w

\* Every sequence of values up to a length, and every one of a length with a
\* block in it, at every place.
Sequences(n) == [1 .. n -> {ValueEvent(v) : v \in Values}]
WithBlock(s, from, to) ==
  SubSeq(s, 1, from) \o << ENTER >> \o SubSeq(s, from + 1, to) \o << EXIT >>
    \o SubSeq(s, to + 1, Len(s))
Flat(n) == UNION {Sequences(k) : k \in 0 .. n}
Nested(n) == UNION {{WithBlock(s, i, j) : i \in 0 .. j, s \in Sequences(n)} : j \in 0 .. n}

\* Blocks that end with an empty one, which is passed on late.
EndEmpty(n) ==
  UNION {{WithBlock(WithBlock(s, j, j), i, j + 2) : i \in 0 .. j, s \in Sequences(n)} : j \in 0 .. n}
MCInputs == Flat(6) \union Nested(4) \union EndEmpty(3)

Defaults == [CountCutoff |-> 0, WeightCutoff |-> 0, PatternLengthLimit |-> 4,
  PatternLengthMultiplier |-> 1, MaxAbbreviations |-> 20, MaxAbbreviationsSingle |-> 1,
  SmallValueMax |-> 2, SmallValueCountCutoff |-> 2, UseHuffmanEncoding |-> TRUE,
  TrimOverriddenPatterns |-> FALSE, ReassignAbbreviations |-> TRUE,
  UseCismModel |-> FALSE, MatchSingletonsLast |-> FALSE]

MCFlagSets == {
  Defaults,
  [Defaults EXCEPT !.TrimOverriddenPatterns = TRUE, !.CountCutoff = 2, !.WeightCutoff = 3],
  [Defaults EXCEPT !.TrimOverriddenPatterns = TRUE, !.CountCutoff = 1, !.SmallValueMax = 0,
                   !.PatternLengthLimit = 3, !.UseCismModel = TRUE, !.MaxAbbreviations = 7,
                   !.ReassignAbbreviations = FALSE],
  [Defaults EXCEPT !.UseHuffmanEncoding = FALSE, !.UseCismModel = TRUE, !.CountCutoff = 2,
                   !.PatternLengthLimit = 3, !.MaxAbbreviations = 7],
  [Defaults EXCEPT !.PatternLengthLimit = 1, !.PatternLengthMultiplier = 3, !.CountCutoff = 2],
  [Defaults EXCEPT !.PatternLengthLimit = 2, !.PatternLengthMultiplier = 2,
                   !.MatchSingletonsLast = TRUE, !.CountCutoff = 1] }
=============================================================================
