------------------------------ MODULE MCQueue ------------------------------
\* Instances of Queue for TLC.
EXTENDS Queue, TLC

CONSTANTS w, b, r1, r2

\* In:  the queue of a decoder's input: one writer w, a reader and a saved
\*      position.
\* Out: the queue of a ByteWriter: the writer w and a backpatch position b.

\* The readers are alike.
MCSymmetry == Permutations(Readers)

MCByte     == 0 .. 2
MCInData   == [c \in {w} |-> 1]
MCOutData  == [c \in {w, b} |-> IF c = w THEN 1 ELSE 2]
=============================================================================
