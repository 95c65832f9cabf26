--------------------------- MODULE MCMotionExports ---------------------------
EXTENDS MotionExports, TLC

CONSTANTS j1, j2, j3, s1, s2

Interchangeable == Permutations({j1, j2, j3}) \cup Permutations({s1, s2})
=============================================================================
