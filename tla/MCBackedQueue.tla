--------------------------- MODULE MCBackedQueue ---------------------------
\* A byte is its place in the file, from 1 on.
EXTENDS BackedQueue

MCByte == 0 .. 10
MCAccepts == UNION {[1 .. n -> 0 .. 2] : n \in 0 .. 3}
=============================================================================
