------------------------- MODULE MCIncrementalIndex -------------------------
\* Three points on a line, in steps that every mean of the model divides.
EXTENDS IncrementalIndex

MCPoints == {0, 24, 48}
MCScales == {1, 2}
=============================================================================
