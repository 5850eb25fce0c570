---------------------------- MODULE MCGcsStorage ----------------------------
(* Two goroutines, two ids and two strings: the second paste is saved   *)
(* as a reference to the first, beside it, or after its deletion.           *)
EXTENDS GcsStorage, TLC

CONSTANTS c1, c2, i1, i2, b1, b2

Symmetry == Permutations({c1, c2}) \cup Permutations({i1, i2}) \cup Permutations({b1, b2})
=============================================================================
