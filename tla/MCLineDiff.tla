----------------------------- MODULE MCLineDiff -----------------------------
(* LineDiff on small objects and arrays.                                   *)
EXTENDS LineDiff, TLC
CONSTANTS a, b, c, d, x, y, z
Alike == Permutations(Key \ Inherited) \cup Permutations(Element)
=============================================================================
