----------------------------- MODULE MCIntCopy -----------------------------
\* Instances of IntCopy for TLC.
EXTENDS IntCopy

CONSTANTS v1, v2, h

MCMaxIndex == 99
=============================================================================
