------------------------- MODULE MCDecompressClient -------------------------
\* Instances of DecompressClient for TLC.
EXTENDS DecompressClient

MCSize      == 0 .. 3
MCFileSizes == 0 .. 4
=============================================================================
