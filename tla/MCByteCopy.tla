----------------------------- MODULE MCByteCopy -----------------------------
EXTENDS ByteCopy

\* One value of each shape: one byte; one that needs a sign bit of its own;
\* a negative one; one of fixed width; one as wide as an integer can be.
MCValues == { << "Uint8", 5 >>, << "Varuint32", 22 >>, << "Varint32", 2 >>,
              << "Varint64", 2^Bits64 - 3 >>, << "Uint32", 41 >> }

\* Numbers are written in formats that they fit.
ASSUME ValuesFit == \A v \in Values : isInstanceOf(v[2], v[1])
=============================================================================
