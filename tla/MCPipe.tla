------------------------------- MODULE MCPipe -------------------------------
\* The pipe behind a ByteWriter: the writer w and a block's backpatch b.
EXTENDS Pipe

CONSTANTS w, b

MCByte == 0 .. 2
MCData == [c \in {w, b} |-> IF c = w THEN 1 ELSE 2]
=============================================================================
